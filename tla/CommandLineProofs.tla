------------------------- MODULE CommandLineProofs -------------------------
(***************************************************************************)
(* What holds of the commands that share no state: upgrades whatever their *)
(* number and the moments at which they are killed, exports resumed        *)
(* whatever was lost, forecasts whatever the history, and polls whatever   *)
(* the providers answer.                                                   *)
(***************************************************************************)
EXTENDS CommandLine, Sequences, SequenceTheorems, FiniteSetTheorems, TLAPS

(***************************************************************************)
(* Every command is a run of its module's specification.                   *)
(***************************************************************************)
THEOREM CommandsAsSpecified ==
  CommandSpec => Spec /\ Backfill!Spec /\ Forecast!Spec /\ Antigravity!Spec /\ Copilot!Spec
<1>1. CommandInit => /\ Init /\ Backfill!Init /\ Forecast!Init /\ Antigravity!Init
                     /\ Copilot!Init
  BY DEF CommandInit
<1>2. [CommandNext]_commandVars => [Next]_vars
  BY DEF CommandNext, commandVars
<1>3. [CommandNext]_commandVars => [Backfill!Next]_(Backfill!vars)
  BY DEF CommandNext, commandVars, exporting, Backfill!vars
<1>4. [CommandNext]_commandVars => [Forecast!Next]_(Forecast!vars)
  BY DEF CommandNext, commandVars, forecasting, Forecast!vars
<1>5. [CommandNext]_commandVars => [Antigravity!Next]_(Antigravity!vars)
  BY DEF CommandNext, commandVars, pollingAntigravity, Antigravity!vars, Antigravity!google
<1>6. [CommandNext]_commandVars => [Copilot!Next]_(Copilot!vars)
  BY DEF CommandNext, commandVars, pollingCopilot, Copilot!vars, Copilot!account
<1>7. QED
  BY <1>1, <1>2, <1>3, <1>4, <1>5, <1>6, PTL
     DEF CommandSpec, Spec, Backfill!Spec, Forecast!Spec, Antigravity!Spec, Copilot!Spec

-----------------------------------------------------------------------------
(***************************************************************************)
(* Finite sets of naturals.                                                *)
(***************************************************************************)
LEMMA Least ==
  ASSUME NEW T, T \subseteq Nat, T # {}
  PROVE  \E x \in T : \A y \in T : x <= y
<1> DEFINE R == {ss \in Nat \X Nat : ss[1] < ss[2]}
<1>1. IsWellFoundedOn(R, Nat)
  BY NatLessThanWellFounded DEF OpToRel
<1>2. \A x, y \in Nat : y < x => <<y, x>> \in R
  OBVIOUS
<1> HIDE DEF R
<1>3. PICK x \in T : \A y \in T : ~ (<<y, x>> \in R)
  BY <1>1, WFMin
<1>4. \A y \in T : ~(y < x)
  BY <1>2, <1>3
<1>5. QED
  BY <1>4

LEMMA Greatest ==
  ASSUME NEW n \in Nat, NEW T, T \subseteq 0..n, T # {}
  PROVE  \E x \in T : \A y \in T : y <= x
<1> DEFINE D == {n - x : x \in T}
<1>1. D \subseteq Nat /\ D # {}
  <2>1. \A x \in T : n - x \in Nat
    OBVIOUS
  <2>2. PICK x \in T : TRUE
    OBVIOUS
  <2>3. n - x \in D
    OBVIOUS
  <2>4. QED
    BY <2>1, <2>3
<1>2. PICK d \in D : \A e \in D : d <= e
  BY <1>1, Least
<1>3. PICK x \in T : d = n - x
  BY <1>2
<1>4. \A y \in T : d <= n - y
  BY <1>2
<1>5. QED
  BY <1>3, <1>4


-----------------------------------------------------------------------------
(***************************************************************************)
(* Sums over finite sets.  The sum is defined by recursion over the        *)
(* subsets of the set.  A claim about all subsets is proved by looking at  *)
(* a smallest counterexample, which the first element chosen from it       *)
(* leads to a smaller one.                                                 *)
(***************************************************************************)
First(s) == CHOOSE x \in s : TRUE

SumEquation(f, S, g) ==
  g = [s \in SUBSET S |-> IF s = {} THEN 0 ELSE f[First(s)] + g[s \ {First(s)}]]

\* A set of subsets of a finite set has a smallest one
LEMMA SmallestSubset ==
  ASSUME NEW S, IsFiniteSet(S), NEW F \in SUBSET (SUBSET S), F # {}
  PROVE  \E s \in F : \A t \in F : ~(t \subseteq s /\ t # s)
<1>1. IsWellFoundedOn(StrictSubsetOrdering(S), SUBSET S)
  BY FS_StrictSubsetOrderingWellFounded, FS_FiniteSubsetsOfFinite
<1>2. PICK s \in F : \A t \in F : ~(<<t, s>> \in StrictSubsetOrdering(S))
  BY <1>1, WFMin
<1>3. QED
  BY <1>2 DEF StrictSubsetOrdering

\* The recursion has a solution: one for the subsets of at most n elements
\* extends to those of n + 1
LEMMA SumExists ==
  ASSUME NEW S, IsFiniteSet(S), NEW f
  PROVE  \E g : SumEquation(f, S, g)
<1> DEFINE Value(g, s) == IF s = {} THEN 0 ELSE f[First(s)] + g[s \ {First(s)}]
           UpTo(n, g) == \A s \in SUBSET S : Cardinality(s) <= n => g[s] = Value(g, s)
           Bad == {n \in Nat : ~\E g : UpTo(n, g)}
<1>1. ASSUME NEW s \in SUBSET S
      PROVE  /\ IsFiniteSet(s) /\ Cardinality(s) \in Nat
             /\ Cardinality(s) = 0 <=> s = {}
             /\ s # {} => /\ First(s) \in s /\ s \ {First(s)} \in SUBSET S
                          /\ Cardinality(s \ {First(s)}) = Cardinality(s) - 1
  <2>1. IsFiniteSet(s)
    BY FS_Subset
  <2>2. Cardinality(s) \in Nat /\ (Cardinality(s) = 0 <=> s = {})
    BY <2>1, FS_CardinalityType, FS_EmptySet
  <2>3. s # {} => First(s) \in s
    BY DEF First
  <2>4. s # {} => Cardinality(s \ {First(s)}) = Cardinality(s) - 1
    BY <2>1, <2>3, FS_RemoveElement
  <2>5. QED
    BY <2>1, <2>2, <2>3, <2>4
<1>2. Bad = {}
  <2> SUFFICES ASSUME Bad # {} PROVE FALSE
    OBVIOUS
  <2>1. PICK n \in Bad : \A k \in Bad : n <= k
    <3>1. Bad \subseteq Nat
      OBVIOUS
    <3> HIDE DEF Bad
    <3>2. QED
      BY <3>1, Least
  <2>2. n # 0
    <3>1. PICK g : g = [s \in SUBSET S |-> 0]
      OBVIOUS
    <3>2. ASSUME NEW s \in SUBSET S, Cardinality(s) <= 0 PROVE g[s] = Value(g, s)
      <4>1. Cardinality(s) \in Nat /\ (Cardinality(s) = 0 <=> s = {})
        BY <1>1
      <4>2. s = {}
        BY <3>2, <4>1
      <4>3. QED
        BY <3>1, <4>2
    <3>3. UpTo(0, g)
      BY <3>2
    <3> HIDE DEF UpTo
    <3>4. 0 \notin Bad
      BY <3>3
    <3>5. QED
      BY <2>1, <3>4
  <2>3. PICK m \in Nat : n = m + 1
    <3>1. n - 1 \in Nat /\ n = (n - 1) + 1
      BY <2>1, <2>2
    <3>2. QED
      BY <3>1
  <2>4. m \notin Bad
    <3>1. ~(n <= m)
      BY <2>3
    <3> HIDE DEF Bad
    <3>2. QED
      BY <2>1, <3>1
  <2>5. PICK g : UpTo(m, g)
    <3> HIDE DEF UpTo
    <3>1. QED
      BY <2>4
  <2>6. PICK h : h = [s \in SUBSET S |-> IF Cardinality(s) <= m THEN g[s] ELSE Value(g, s)]
    OBVIOUS
  <2>7. ASSUME NEW s \in SUBSET S, Cardinality(s) <= n PROVE h[s] = Value(h, s)
    <3>1. h[s] = Value(g, s)
      BY <2>5, <2>6
    <3>2. CASE s = {}
      BY <3>1, <3>2
    <3>3. CASE s # {}
      <4>1. PICK t \in SUBSET S : t = s \ {First(s)}
        BY <1>1, <3>3
      <4>2. Cardinality(t) <= m
        BY <1>1, <2>3, <2>7, <3>3, <4>1
      <4>3. h[t] = g[t]
        BY <2>6, <4>2
      <4>4. QED
        BY <3>1, <3>3, <4>1, <4>3
    <3>4. QED
      BY <3>2, <3>3
  <2>8. UpTo(n, h)
    BY <2>7
  <2> HIDE DEF UpTo
  <2>9. QED
    BY <2>1, <2>8
<1>3. PICK g : UpTo(Cardinality(S), g)
  <2>1. Cardinality(S) \in Nat
    BY <1>1
  <2>2. QED
    BY <1>2, <2>1
<1>4. \A s \in SUBSET S : g[s] = Value(g, s)
  <2>1. \A s \in SUBSET S : Cardinality(s) <= Cardinality(S)
    BY FS_Subset
  <2>2. QED
    BY <1>3, <2>1
<1>5. PICK h : h = [s \in SUBSET S |-> g[s]]
  OBVIOUS
<1>6. \A s \in SUBSET S : Value(g, s) = Value(h, s)
  BY <1>1, <1>5
<1>7. h = [s \in SUBSET S |-> Value(h, s)]
  BY <1>4, <1>5, <1>6
<1>8. QED
  BY <1>7 DEF SumEquation

\* And only one, on the subsets too
LEMMA SumUnique ==
  ASSUME NEW S, IsFiniteSet(S), NEW T \in SUBSET S, NEW f,
         NEW g, SumEquation(f, S, g), NEW h, SumEquation(f, T, h)
  PROVE  g[T] = h[T]
<1> DEFINE Differ == {s \in SUBSET T : g[s] # h[s]}
<1>1. IsFiniteSet(T)
  BY FS_Subset
<1>2. \A s \in SUBSET T :
        /\ g[s] = IF s = {} THEN 0 ELSE f[First(s)] + g[s \ {First(s)}]
        /\ h[s] = IF s = {} THEN 0 ELSE f[First(s)] + h[s \ {First(s)}]
  BY DEF SumEquation
<1>3. Differ = {}
  <2> SUFFICES ASSUME Differ # {} PROVE FALSE
    OBVIOUS
  <2>1. PICK s \in Differ : \A t \in Differ : ~(t \subseteq s /\ t # s)
    <3>1. Differ \in SUBSET (SUBSET T)
      OBVIOUS
    <3> HIDE DEF Differ
    <3>2. QED
      BY <1>1, <3>1, SmallestSubset
  <2>2. s # {}
    BY <1>2, <2>1
  <2>3. PICK t \in SUBSET T : t = s \ {First(s)}
    BY <2>1
  <2>4. t \subseteq s /\ t # s
    BY <2>2, <2>3 DEF First
  <2>5. g[t] = h[t]
    BY <2>1, <2>3, <2>4
  <2>6. QED
    BY <1>2, <2>1, <2>2, <2>3, <2>5
<1>4. QED
  BY <1>3

\* What SumFunctionOnSet of the community modules computes
LEMMA SumStep ==
  ASSUME NEW S, IsFiniteSet(S), NEW f
  PROVE  /\ SumFunctionOnSet(f, {}) = 0
         /\ S # {} => SumFunctionOnSet(f, S) = f[First(S)] + SumFunctionOnSet(f, S \ {First(S)})
<1> DEFINE Sol(T) == CHOOSE g : SumEquation(f, T, g)
<1>1. ASSUME NEW T \in SUBSET S
      PROVE  IsFiniteSet(T) /\ SumEquation(f, T, Sol(T)) /\ SumFunctionOnSet(f, T) = Sol(T)[T]
  <2>1. IsFiniteSet(T)
    BY FS_Subset
  <2>2. SumEquation(f, T, Sol(T))
    BY <2>1, SumExists
  <2>3. SumFunctionOnSet(f, T) = Sol(T)[T]
    BY DEF SumFunctionOnSet, FoldFunctionOnSet, MapThenFoldSet, SumEquation, First
  <2>4. QED
    BY <2>1, <2>2, <2>3
<1> HIDE DEF Sol
<1>2. SumFunctionOnSet(f, {}) = 0
  <2>1. {} \in SUBSET S
    OBVIOUS
  <2>2. QED
    BY <1>1, <2>1 DEF SumEquation
<1>3. ASSUME S # {}
      PROVE  SumFunctionOnSet(f, S) = f[First(S)] + SumFunctionOnSet(f, S \ {First(S)})
  <2>1. PICK T \in SUBSET S : T = S \ {First(S)}
    OBVIOUS
  <2>2. Sol(S)[T] = Sol(T)[T]
    BY <1>1, SumUnique
  <2>3. Sol(S)[S] = f[First(S)] + Sol(S)[T]
    <3>1. SumEquation(f, S, Sol(S))
      BY <1>1
    <3>2. QED
      BY <1>3, <2>1, <3>1 DEF SumEquation
  <2>4. SumFunctionOnSet(f, S) = Sol(S)[S] /\ SumFunctionOnSet(f, T) = Sol(T)[T]
    <3>1. S \in SUBSET S
      OBVIOUS
    <3>2. QED
      BY <1>1, <3>1
  <2>5. QED
    BY <2>1, <2>2, <2>3, <2>4
<1>4. QED
  BY <1>2, <1>3

\* Induction over the subsets of a finite set, for a set F of subsets
LEMMA SubsetInduction ==
  ASSUME NEW S, IsFiniteSet(S), NEW F, {} \in F,
         \A T \in SUBSET S : T # {} /\ T \ {First(T)} \in F => T \in F
  PROVE  S \in F
<1> DEFINE Bad == {T \in SUBSET S : T \notin F}
<1> SUFFICES ASSUME S \notin F PROVE FALSE
  OBVIOUS
<1>1. PICK s \in Bad : \A t \in Bad : ~(t \subseteq s /\ t # s)
  <2>1. Bad \in SUBSET (SUBSET S) /\ Bad # {}
    OBVIOUS
  <2> HIDE DEF Bad
  <2>2. QED
    BY <2>1, SmallestSubset
<1>2. s # {}
  BY <1>1
<1>3. s \ {First(s)} \subseteq s /\ s \ {First(s)} # s
  BY <1>2 DEF First
<1>4. s \ {First(s)} \in F
  BY <1>1, <1>3
<1>5. QED
  BY <1>1, <1>2, <1>4

\* A sum of integers is an integer
LEMMA SumType ==
  ASSUME NEW S, IsFiniteSet(S), NEW f, \A x \in S : f[x] \in Int
  PROVE  SumFunctionOnSet(f, S) \in Int
<1> DEFINE F == {T \in SUBSET S : SumFunctionOnSet(f, T) \in Int}
<1>1. {} \in F
  <2>1. SumFunctionOnSet(f, {}) = 0
    BY SumStep
  <2>2. QED
    BY <2>1
<1>2. ASSUME NEW T \in SUBSET S, T # {}, T \ {First(T)} \in F
      PROVE  T \in F
  <2>1. First(T) \in T
    BY <1>2 DEF First
  <2>2. IsFiniteSet(T)
    BY FS_Subset
  <2>3. SumFunctionOnSet(f, T) = f[First(T)] + SumFunctionOnSet(f, T \ {First(T)})
    BY <1>2, <2>2, SumStep
  <2>4. f[First(T)] \in Int /\ SumFunctionOnSet(f, T \ {First(T)}) \in Int
    BY <1>2, <2>1
  <2>5. QED
    BY <2>3, <2>4
<1> HIDE DEF F
<1>3. S \in F
  BY <1>1, <1>2, SubsetInduction
<1>4. QED
  BY <1>3 DEF F

\* What adding one more x does to the number n, the sum s and the sum of squares q
LEMMA SpreadStep ==
  ASSUME NEW n \in Int, NEW s \in Int, NEW q \in Int, NEW x \in Int
  PROVE  /\ \A c \in Int : (q + x * x) - 2 * (c * (s + x)) + (n + 1) * (c * c)
                             = (q - 2 * (c * s) + n * (c * c)) + (x - c) * (x - c)
         /\ (n + 1) * (q + x * x) - (s + x) * (s + x)
              = (n * q - s * s) + (q - 2 * (x * s) + n * (x * x))
  OBVIOUS

\* No sum of squares is below what its mean asks for (Cauchy and Schwarz): the
\* deviations from any c have a sum of squares that is not negative, and so the
\* denominator of the regression is not
LEMMA SpreadNotNegative ==
  ASSUME NEW S, IsFiniteSet(S), NEW f, \A x \in S : f[x] \in Int,
         NEW g, \A x \in S : g[x] = f[x] * f[x]
  PROVE  /\ SumFunctionOnSet(f, S) \in Int /\ SumFunctionOnSet(g, S) \in Int
         /\ Cardinality(S) * SumFunctionOnSet(g, S)
              - SumFunctionOnSet(f, S) * SumFunctionOnSet(f, S) >= 0
<1> DEFINE s(T) == SumFunctionOnSet(f, T)
           q(T) == SumFunctionOnSet(g, T)
           n(T) == Cardinality(T)
           Around(T) == \A c \in Int : q(T) - 2 * (c * s(T)) + n(T) * (c * c) >= 0
           F == {T \in SUBSET S : Around(T) /\ n(T) * q(T) - s(T) * s(T) >= 0}
<1>1. ASSUME NEW T \in SUBSET S
      PROVE  n(T) \in Int /\ s(T) \in Int /\ q(T) \in Int
  <2>1. IsFiniteSet(T)
    BY FS_Subset
  <2>2. \A x \in T : f[x] \in Int /\ g[x] \in Int
    OBVIOUS
  <2>3. QED
    BY <2>1, <2>2, FS_CardinalityType, SumType
<1>2. {} \in F
  <2>1. n({}) = 0 /\ s({}) = 0 /\ q({}) = 0
    BY SumStep, FS_EmptySet
  <2> HIDE DEF n, s, q
  <2>2. QED
    BY <2>1
<1>3. ASSUME NEW T \in SUBSET S, T # {}, T \ {First(T)} \in F
      PROVE  T \in F
  <2>1. PICK x \in Int : x = f[First(T)] /\ g[First(T)] = x * x
    BY <1>3 DEF First
  <2>2. PICK R \in SUBSET S : R = T \ {First(T)}
    OBVIOUS
  <2>3. IsFiniteSet(T)
    BY FS_Subset
  <2>4. s(T) = s(R) + x /\ q(T) = q(R) + x * x
    <3>1. s(T) = x + s(R) /\ q(T) = x * x + q(R)
      BY <1>3, <2>1, <2>2, <2>3, SumStep
    <3>2. s(R) \in Int /\ q(R) \in Int /\ x * x \in Int
      BY <1>1
    <3> HIDE DEF s, q
    <3>3. QED
      BY <3>1, <3>2
  <2>5. n(T) = n(R) + 1
    <3>1. First(T) \in T
      BY <1>3 DEF First
    <3>2. n(R) = n(T) - 1
      BY <2>2, <2>3, <3>1, FS_RemoveElement
    <3>3. QED
      BY <1>1, <3>2
  <2> HIDE DEF s, q, n
  <2>6. PICK nr \in Int, sr \in Int, qr \in Int : nr = n(R) /\ sr = s(R) /\ qr = q(R)
    BY <1>1
  <2>7. /\ \A c \in Int : qr - 2 * (c * sr) + nr * (c * c) >= 0
        /\ nr * qr - sr * sr >= 0
    BY <1>3, <2>2, <2>6
  <2>8. ASSUME NEW c \in Int
        PROVE  q(T) - 2 * (c * s(T)) + n(T) * (c * c) >= 0
    <3>1. (qr + x * x) - 2 * (c * (sr + x)) + (nr + 1) * (c * c)
            = (qr - 2 * (c * sr) + nr * (c * c)) + (x - c) * (x - c)
      BY SpreadStep
    <3>2. PICK a \in Int : a = qr - 2 * (c * sr) + nr * (c * c)
      OBVIOUS
    <3>3. PICK b \in Int : b = (x - c) * (x - c)
      OBVIOUS
    <3>4. a >= 0
      BY <2>7, <3>2
    <3>5. b >= 0
      <4>1. PICK d \in Int : d = x - c
        OBVIOUS
      <4>2. d * d >= 0
        OBVIOUS
      <4>3. QED
        BY <3>3, <4>1, <4>2
    <3>6. (qr + x * x) - 2 * (c * (sr + x)) + (nr + 1) * (c * c) >= 0
      <4>1. a + b >= 0
        BY <3>4, <3>5
      <4>2. QED
        BY <3>1, <3>2, <3>3, <4>1
    <3>7. QED
      BY <2>4, <2>5, <2>6, <3>6
  <2>9. n(T) * q(T) - s(T) * s(T) >= 0
    <3>1. (nr + 1) * (qr + x * x) - (sr + x) * (sr + x)
            = (nr * qr - sr * sr) + (qr - 2 * (x * sr) + nr * (x * x))
      BY SpreadStep
    <3>2. PICK a \in Int : a = nr * qr - sr * sr
      OBVIOUS
    <3>3. PICK b \in Int : b = qr - 2 * (x * sr) + nr * (x * x)
      OBVIOUS
    <3>4. a >= 0 /\ b >= 0
      BY <2>7, <3>2, <3>3
    <3>5. a + b >= 0
      BY <3>4
    <3>6. (nr + 1) * (qr + x * x) - (sr + x) * (sr + x) >= 0
      BY <3>1, <3>2, <3>3, <3>5
    <3>7. QED
      BY <2>4, <2>5, <2>6, <3>6
  <2>10. Around(T)
    BY <2>8
  <2> HIDE DEF Around
  <2>11. QED
    BY <2>9, <2>10
<1>4. S \in F
  <2> HIDE DEF F
  <2>1. QED
    BY <1>2, <1>3, SubsetInduction
<1>5. S \in SUBSET S
  OBVIOUS
<1>6. QED
  BY <1>1, <1>4, <1>5

-----------------------------------------------------------------------------
(***************************************************************************)
(* Upgrades.                                                               *)
(***************************************************************************)
\* A release is neither nothing nor damaged
LEMMA Values ==
  /\ None \notin Versions /\ Junk \notin Versions /\ Junk # None
  /\ 1 \in Versions
  /\ Versions \subseteq Contents /\ None \in Contents /\ Junk \in Contents
  BY UpgradeAssumption DEF None, Versions, Junk, Contents

-----------------------------------------------------------------------------
(***************************************************************************)
(* Typing                                                                  *)
(***************************************************************************)
UpgradesTyped == upgrade \in [Upgraders -> UpgradeStates]

LEMMA NoUpgradeTyped == NoUpgrade \in UpgradeStates
  BY Values DEF UpgradeStates, NoUpgrade, Replacing, Outcomes

\* An upgrade that ends is well-formed
LEMMA EndTyped ==
  ASSUME NEW u \in Upgraders, NEW o \in Outcomes, UpgradesTyped, End(u, o)
  PROVE  UpgradesTyped'
<1>1. [NoUpgrade EXCEPT !.outcome = o] \in UpgradeStates
  BY NoUpgradeTyped DEF UpgradeStates
<1>2. QED
  BY <1>1 DEF UpgradesTyped, End

\* An upgrade that goes on is well-formed
LEMMA GotoTyped ==
  ASSUME NEW u \in Upgraders, NEW p \in {"status", "kick"} \cup Replacing, UpgradesTyped,
         Goto(u, p)
  PROVE  UpgradesTyped'
<1>1. [upgrade[u] EXCEPT !.pc = p] \in UpgradeStates
  BY DEF UpgradesTyped, UpgradeStates
<1>2. QED
  BY <1>1 DEF UpgradesTyped, Goto

\* Every step of an upgrade leaves it well-formed
LEMMA StepTyped ==
  ASSUME NEW u \in Upgraders, TypeOK, Step(u)
  PROVE  UpgradesTyped'
<1> USE DEF UpgradesTyped
<1>0. UpgradesTyped
  BY DEF TypeOK
<1>1. ASSUME NEW force \in BOOLEAN, NEW restart \in BOOLEAN, Begin(u, force, restart)
      PROVE  UpgradesTyped'
  <2>1. [NoUpgrade EXCEPT !.outcome = "current"] \in UpgradeStates
    BY NoUpgradeTyped DEF UpgradeStates, Outcomes
  <2>2. [NoUpgrade EXCEPT !.pc = "prepare", !.to = latest, !.restart = restart] \in UpgradeStates
    BY NoUpgradeTyped DEF UpgradeStates, TypeOK
  <2>3. QED
    BY <1>0, <1>1, <2>1, <2>2 DEF Begin
<1>2. CASE Prepare(u)
  <2>1. CASE End(u, "failed")
    BY <1>0, <2>1, EndTyped DEF Outcomes
  <2>2. ASSUME NEW archive \in {upgrade[u].to, Junk},
               upgrade' = [upgrade EXCEPT ![u].pc = "stat", ![u].new = archive]
        PROVE  UpgradesTyped'
    <3>1. archive \in Contents
      BY <1>0, Values DEF UpgradeStates
    <3>2. [upgrade[u] EXCEPT !.pc = "stat", !.new = archive] \in UpgradeStates
      BY <1>0, <3>1 DEF UpgradeStates
    <3>3. QED
      BY <1>0, <2>2, <3>2
  <2>3. QED
    BY <1>2, <2>1, <2>2 DEF Prepare
<1>3. CASE Stat(u)
  <2>1. \A p \in {"install", "remove"} :
          [upgrade[u] EXCEPT !.pc = p, !.before = dest] \in UpgradeStates
    BY <1>0 DEF UpgradeStates, Replacing, TypeOK
  <2>2. QED
    BY <1>0, <1>3, <2>1 DEF Stat
<1>4. CASE RemoveOldBackup(u)
  BY <1>0, <1>4, GotoTyped DEF RemoveOldBackup, Replacing
<1>5. CASE BackUp(u)
  <2>1. [upgrade[u] EXCEPT !.pc = "install", !.haveBackup = TRUE] \in UpgradeStates
    BY <1>0 DEF UpgradeStates, Replacing
  <2>2. CASE dest # None
    BY <1>0, <1>5, <2>1, <2>2 DEF BackUp
  <2>3. CASE dest = None
    BY <1>0, <1>5, <2>3, EndTyped DEF BackUp, Outcomes
  <2>4. QED
    BY <2>2, <2>3
<1>6. CASE InstallByRename(u)
  BY <1>0, <1>6, GotoTyped DEF InstallByRename, Replacing
<1>7. CASE Stage(u)
  <2>1. [upgrade[u] EXCEPT !.pc = "copy", !.staged = Junk] \in UpgradeStates
    BY <1>0, Values DEF UpgradeStates, Replacing
  <2>2. QED
    BY <1>0, <1>7, <2>1 DEF Stage
<1>8. CASE Copy(u)
  <2>1. [upgrade[u] EXCEPT !.pc = "publish", !.staged = upgrade[u].new] \in UpgradeStates
    BY <1>0 DEF UpgradeStates, Replacing
  <2>2. QED
    BY <1>0, <1>8, <2>1 DEF Copy
<1>9. CASE PublishStaged(u)
  <2>1. [upgrade[u] EXCEPT !.pc = "cleanup", !.staged = None] \in UpgradeStates
    BY <1>0, Values DEF UpgradeStates, Replacing
  <2>2. QED
    BY <1>0, <1>9, <2>1 DEF PublishStaged
<1>10. CASE InstallFails(u)
  <2>1. [upgrade[u] EXCEPT !.pc = "restore", !.staged = None] \in UpgradeStates
    BY <1>0, Values DEF UpgradeStates, Replacing
  <2>2. QED
    BY <1>0, <1>10, <2>1 DEF InstallFails
<1>11. CASE Restore(u)
  BY <1>0, <1>11, EndTyped DEF Restore, Outcomes
<1>12. CASE CleanUp(u)
  BY <1>0, <1>12, EndTyped, GotoTyped DEF CleanUp, Outcomes
<1>13. CASE ServiceStatus(u)
  BY <1>0, <1>13, EndTyped, GotoTyped DEF ServiceStatus, Outcomes
<1>14. CASE Restart(u)
  <2>1. End(u, "restarted") \/ End(u, "unrestarted")
    BY <1>14 DEF Restart
  <2>2. QED
    BY <1>0, <2>1, EndTyped DEF Outcomes
<1>15. CASE Crash(u)
  BY <1>0, <1>15, EndTyped DEF Crash, Outcomes
<1>16. QED
  BY <1>1, <1>2, <1>3, <1>4, <1>5, <1>6, <1>7, <1>8, <1>9, <1>10, <1>11, <1>12, <1>13, <1>14,
     <1>15 DEF Step

\* The other variables keep their types
LEMMA PathsTyped ==
  ASSUME TypeOK, [Next]_vars
  PROVE  /\ latest' \in Versions /\ dest' \in Contents /\ backup' \in Contents
         /\ raced' \in BOOLEAN /\ launchd' \in Launchd /\ installed' \in BOOLEAN
         /\ daemon' \in Contents
<1> USE Values DEF TypeOK, files, service
<1>1. ASSUME NEW u \in Upgraders, Step(u)
      PROVE  /\ UNCHANGED <<latest, launchd, installed>>
             /\ raced' \in BOOLEAN
             /\ daemon' \in {daemon, dest}
  BY <1>1 DEF Step, Begin, Prepare, Stat, RemoveOldBackup, BackUp, InstallByRename, Stage, Copy,
              PublishStaged, InstallFails, Restore, CleanUp, ServiceStatus, Restart, Crash
<1>2. ASSUME NEW u \in Upgraders, Step(u)
      PROVE  /\ dest' \in {dest, backup, None, upgrade[u].new, upgrade[u].staged}
             /\ backup' \in {backup, dest, None}
  BY <1>2 DEF Step, Begin, Prepare, Stat, RemoveOldBackup, BackUp, InstallByRename, Stage, Copy,
              PublishStaged, InstallFails, Restore, CleanUp, ServiceStatus, Restart, Crash
<1>3. \A u \in Upgraders : upgrade[u].new \in Contents /\ upgrade[u].staged \in Contents
  BY DEF UpgradeStates
<1>4. CASE \E u \in Upgraders : Step(u)
  BY <1>1, <1>2, <1>3, <1>4
<1>5. CASE Install
  BY <1>5 DEF Install
<1>6. CASE Uninstall
  BY <1>6 DEF Uninstall
<1>7. CASE ManagerStarts
  BY <1>7 DEF ManagerStarts
<1>8. CASE DaemonDies
  BY <1>8 DEF DaemonDies
<1>9. CASE Release
  BY <1>9, UpgradeAssumption DEF Release, Versions
<1>10. CASE UNCHANGED vars
  BY <1>10 DEF vars
<1>11. QED
  BY <1>4, <1>5, <1>6, <1>7, <1>8, <1>9, <1>10 DEF Next

LEMMA TypePreserved == TypeOK /\ [Next]_vars => TypeOK'
<1>1. ASSUME TypeOK, [Next]_vars PROVE UpgradesTyped'
  BY <1>1, StepTyped DEF Next, vars, TypeOK, UpgradesTyped, Install, Uninstall, ManagerStarts,
                         DaemonDies, Release
<1>2. QED
  BY <1>1, PathsTyped DEF TypeOK, UpgradesTyped

\* Every reachable state is well-formed: the paths hold nothing, a release or
\* a damaged file, and every upgrade is at a step of Run or of the command
THEOREM TypeCorrect == Spec => []TypeOK
<1>1. Init => TypeOK
  BY NoUpgradeTyped, Values DEF Init, TypeOK
<1>2. QED
  BY <1>1, TypePreserved, PTL DEF Spec

-----------------------------------------------------------------------------
(***************************************************************************)
(* Nothing damaged is installed                                            *)
(***************************************************************************)
\* What an upgrade has in its hands, at each of its steps
Sound(s) ==
  /\ s.pc = "prepare" => s.to \in Versions
  /\ s.pc \in {"stat"} \cup Replacing => s.new \in Versions
  /\ s.pc = "publish" => s.staged \in Versions
  /\ s.pc # "idle" => s.outcome = "none"
  /\ s.pc \in {"idle", "prepare", "stat"} => ~s.haveBackup

Whole ==
  /\ dest # Junk
  /\ backup # Junk
  /\ \A u \in Upgraders : Sound(upgrade[u])

\* A step of one upgrade is not one of another
LEMMA OthersKept ==
  ASSUME NEW u \in Upgraders, NEW v \in Upgraders \ {u}, TypeOK, Step(u)
  PROVE  upgrade'[v] = upgrade[v]
  BY DEF TypeOK, Step, Begin, Prepare, Stat, RemoveOldBackup, BackUp, InstallByRename, Stage, Copy,
         PublishStaged, InstallFails, Restore, CleanUp, ServiceStatus, Restart, Crash, Goto, End

\* An upgrade that has ended is sound
LEMMA EndSound ==
  ASSUME TypeOK, NEW u \in Upgraders, NEW o, End(u, o)
  PROVE  /\ upgrade'[u] = [NoUpgrade EXCEPT !.outcome = o]
         /\ upgrade'[u].pc = "idle" /\ upgrade'[u].outcome = o /\ Sound(upgrade'[u])
<1>1. upgrade'[u] = [NoUpgrade EXCEPT !.outcome = o]
  BY DEF TypeOK, End
<1>2. upgrade'[u].pc = "idle" /\ upgrade'[u].outcome = o
  BY <1>1 DEF NoUpgrade
<1>3. QED
  BY <1>1, <1>2 DEF Sound, Replacing, NoUpgrade

LEMMA StepSound ==
  ASSUME NEW u \in Upgraders, TypeOK, Whole, Step(u)
  PROVE  Sound(upgrade'[u])
<1> USE DEF TypeOK, UpgradeStates
<1>0. Sound(upgrade[u])
  BY DEF Whole
<1>1. ASSUME NEW force \in BOOLEAN, NEW restart \in BOOLEAN, Begin(u, force, restart)
      PROVE  Sound(upgrade'[u])
  <2>1. \/ upgrade'[u] = [NoUpgrade EXCEPT !.outcome = "current"]
        \/ upgrade'[u] = [NoUpgrade EXCEPT !.pc = "prepare", !.to = latest, !.restart = restart]
    BY <1>1 DEF Begin
  <2>2. QED
    BY <2>1 DEF NoUpgrade, Sound, Replacing
<1>2. CASE Prepare(u)
  <2>1. CASE End(u, "failed")
    BY <2>1, EndSound
  <2>2. CASE upgrade' = [upgrade EXCEPT ![u].pc = "stat", ![u].new = upgrade[u].to]
    <3>1. upgrade'[u] = [upgrade[u] EXCEPT !.pc = "stat", !.new = upgrade[u].to]
      BY <2>2
    <3>2. upgrade[u].to \in Versions
      BY <1>0, <1>2 DEF Sound, Prepare, At
    <3>3. QED
      BY <1>0, <1>2, <3>1, <3>2 DEF Sound, Prepare, At, Replacing
  <2>3. QED
    BY <1>2, <2>1, <2>2 DEF Prepare, Verified
<1>3. CASE Stat(u)
  <2>1. \E p \in {"install", "remove"} :
          upgrade'[u] = [upgrade[u] EXCEPT !.pc = p, !.before = dest]
    BY <1>3 DEF Stat
  <2>2. QED
    BY <1>0, <1>3, <2>1 DEF Sound, Stat, At, Replacing
<1>4. CASE RemoveOldBackup(u)
  BY <1>0, <1>4 DEF Sound, RemoveOldBackup, At, Goto, Replacing
<1>5. CASE BackUp(u)
  <2>1. \/ End(u, "failed")
        \/ upgrade'[u] = [upgrade[u] EXCEPT !.pc = "install", !.haveBackup = TRUE]
    BY <1>5 DEF BackUp
  <2>2. CASE End(u, "failed")
    BY <2>2, EndSound
  <2>3. CASE upgrade'[u] = [upgrade[u] EXCEPT !.pc = "install", !.haveBackup = TRUE]
    BY <1>0, <1>5, <2>3 DEF Sound, BackUp, At, Replacing
  <2>4. QED
    BY <2>1, <2>2, <2>3
<1>6. CASE InstallByRename(u)
  BY <1>0, <1>6 DEF Sound, InstallByRename, At, Goto, Replacing
<1>7. CASE Stage(u)
  BY <1>0, <1>7 DEF Sound, Stage, At, Replacing
<1>8. CASE Copy(u)
  BY <1>0, <1>8 DEF Sound, Copy, At, Replacing
<1>9. CASE PublishStaged(u)
  BY <1>0, <1>9 DEF Sound, PublishStaged, At, Replacing
<1>10. CASE InstallFails(u)
  BY <1>0, <1>10 DEF Sound, InstallFails, At, Replacing
<1>11. CASE Restore(u)
  BY <1>11, EndSound DEF Restore
<1>12. CASE CleanUp(u)
  <2>1. CASE End(u, "upgraded")
    BY <2>1, EndSound
  <2>2. CASE Goto(u, "status")
    BY <1>0, <1>12, <2>2 DEF Sound, CleanUp, At, Goto, Replacing
  <2>3. QED
    BY <1>12, <2>1, <2>2 DEF CleanUp
<1>13. CASE ServiceStatus(u)
  <2>1. CASE End(u, "upgraded") \/ End(u, "unseen")
    BY <2>1, EndSound
  <2>2. CASE Goto(u, "kick")
    BY <1>0, <1>13, <2>2 DEF Sound, ServiceStatus, At, Goto, Replacing
  <2>3. QED
    BY <1>13, <2>1, <2>2 DEF ServiceStatus
<1>14. CASE Restart(u)
  BY <1>14, EndSound DEF Restart
<1>15. CASE Crash(u)
  BY <1>15, EndSound DEF Crash
<1>16. QED
  BY <1>1, <1>2, <1>3, <1>4, <1>5, <1>6, <1>7, <1>8, <1>9, <1>10, <1>11, <1>12, <1>13, <1>14,
     <1>15 DEF Step

\* The paths hold what an upgrade had in its hands, or what they held before
LEMMA WholePreserved == TypeOK /\ Whole /\ [Next]_vars => Whole'
<1> SUFFICES ASSUME TypeOK, Whole, [Next]_vars PROVE Whole'
  OBVIOUS
<1>1. ASSUME NEW u \in Upgraders, Step(u)
      PROVE  /\ dest' \in {dest, backup, None} \cup Versions
             /\ backup' \in {backup, dest, None}
  BY <1>1 DEF Whole, Sound, Replacing, Step, Begin, Prepare, Stat, RemoveOldBackup, BackUp,
              InstallByRename, Stage, Copy, PublishStaged, InstallFails, Restore, CleanUp,
              ServiceStatus, Restart, Crash, At, files
<1>2. ASSUME NEW u \in Upgraders, Step(u)
      PROVE  Whole'
  <2>1. \A v \in Upgraders : Sound(upgrade'[v])
    BY <1>2, StepSound, OthersKept DEF Whole
  <2>2. QED
    BY <1>1, <1>2, <2>1, Values DEF Whole
<1>3. CASE UNCHANGED <<files, upgrade>>
  BY <1>3 DEF Whole, files
<1>4. QED
  BY <1>2, <1>3 DEF Next, vars, Install, Uninstall, ManagerStarts, DaemonDies, Release

-----------------------------------------------------------------------------
(***************************************************************************)
(* Nothing is lost, as long as only one upgrade at a time replaces it      *)
(***************************************************************************)
Alone ==
  raced \/ \A u, v \in Upgraders :
             upgrade[u].pc \in Replacing /\ upgrade[v].pc \in Replacing => u = v

\* What is where while an upgrade replaces the binary
Undoable(s) ==
  /\ s.pc \in {"remove", "backup"} => dest # None /\ s.before = dest
  /\ s.pc \in {"install", "copy", "publish", "restore"} =>
       /\ dest = None
       /\ backup \in Versions
       /\ s.haveBackup => s.before = backup
       /\ ~s.haveBackup => s.before = None
  /\ s.pc = "cleanup" => dest # None

Intact ==
  raced \/ /\ dest = None => backup \in Versions
           /\ \A u \in Upgraders : Undoable(upgrade[u])

\* The steps around the replacement do not touch the paths, and lead into it
\* only by Stat
LEMMA OutsideReplacing ==
  ASSUME NEW u \in Upgraders, TypeOK, Step(u), upgrade[u].pc \notin Replacing
  PROVE  /\ UNCHANGED files
         /\ ~Stat(u) => upgrade'[u].pc \notin Replacing /\ UNCHANGED raced
<1>1. UNCHANGED files
  BY DEF Replacing, Step, Begin, Prepare, Stat, RemoveOldBackup, BackUp, InstallByRename, Stage,
         Copy, PublishStaged, InstallFails, Restore, CleanUp, ServiceStatus, Restart, Crash, At
<1>2. ASSUME ~Stat(u) PROVE UNCHANGED raced
  BY <1>2 DEF Step, Begin, Prepare, RemoveOldBackup, BackUp, InstallByRename, Stage,
         Copy, PublishStaged, InstallFails, Restore, CleanUp, ServiceStatus, Restart, Crash
<1>3. ASSUME NEW o, End(u, o) PROVE upgrade'[u].pc \notin Replacing
  BY <1>3, EndSound DEF Replacing
<1>4. ASSUME NEW force \in BOOLEAN, NEW restart \in BOOLEAN, Begin(u, force, restart)
      PROVE  upgrade'[u].pc \notin Replacing
  <2>1. \/ upgrade'[u] = [NoUpgrade EXCEPT !.outcome = "current"]
        \/ upgrade'[u] = [NoUpgrade EXCEPT !.pc = "prepare", !.to = latest, !.restart = restart]
    BY <1>4 DEF Begin, TypeOK
  <2>2. QED
    BY <2>1 DEF NoUpgrade, Replacing
<1>5. CASE Prepare(u)
  <2>1. End(u, "failed") \/ upgrade'[u].pc = "stat"
    BY <1>5 DEF Prepare, TypeOK, UpgradeStates
  <2>2. QED
    BY <1>1, <1>2, <1>3, <2>1 DEF Replacing
<1>6. CASE ServiceStatus(u)
  <2>1. End(u, "upgraded") \/ End(u, "unseen") \/ upgrade'[u].pc = "kick"
    BY <1>6 DEF ServiceStatus, Goto, TypeOK, UpgradeStates
  <2>2. QED
    BY <1>1, <1>2, <1>3, <2>1 DEF Replacing
<1>7. CASE Restart(u)
  BY <1>1, <1>2, <1>3, <1>7 DEF Restart
<1>8. CASE Crash(u)
  BY <1>1, <1>2, <1>3, <1>8 DEF Crash
<1>9. \/ Stat(u) \/ Prepare(u) \/ ServiceStatus(u) \/ Restart(u) \/ Crash(u)
      \/ \E force, restart \in BOOLEAN : Begin(u, force, restart)
  BY DEF Replacing, Step, RemoveOldBackup, BackUp, InstallByRename, Stage, Copy, PublishStaged,
         InstallFails, Restore, CleanUp, At
<1>10. QED
  BY <1>1, <1>2, <1>4, <1>5, <1>6, <1>7, <1>8, <1>9

\* A step inside it keeps `raced`
LEMMA InsideReplacing ==
  ASSUME NEW u \in Upgraders, Step(u), ~Stat(u)
  PROVE  UNCHANGED raced
  BY DEF Step, Begin, Prepare, RemoveOldBackup, BackUp, InstallByRename, Stage, Copy,
         PublishStaged, InstallFails, Restore, CleanUp, ServiceStatus, Restart, Crash

LEMMA AlonePreserved ==
  ASSUME TypeOK, Alone, [Next]_vars
  PROVE  Alone'
<1>1. ASSUME NEW u \in Upgraders, Step(u), ~raced'
      PROVE  Alone'
  <2>1. ~raced
    BY <1>1, InsideReplacing DEF Stat, TypeOK
  <2>2. SUFFICES ASSUME NEW v \in Upgraders, NEW w \in Upgraders, v # w,
                        upgrade'[v].pc \in Replacing, upgrade'[w].pc \in Replacing
                 PROVE  FALSE
    BY DEF Alone
  <2>3. ASSUME NEW x \in Upgraders \ {u}, upgrade'[x].pc \in Replacing
        PROVE  upgrade[x].pc \in Replacing
    BY <1>1, <2>3, OthersKept
  <2>4. CASE v # u /\ w # u
    BY <2>1, <2>2, <2>3, <2>4 DEF Alone
  <2>5. ASSUME NEW x \in Upgraders \ {u}, upgrade[x].pc \in Replacing,
               upgrade'[u].pc \in Replacing
        PROVE  FALSE
    <3>1. upgrade[u].pc \notin Replacing
      BY <2>1, <2>5 DEF Alone
    <3>2. Stat(u)
      BY <1>1, <2>5, <3>1, OutsideReplacing
    <3>3. QED
      BY <1>1, <2>5, <3>2 DEF Stat
  <2>6. QED
    BY <2>2, <2>3, <2>4, <2>5
<1>2. CASE UNCHANGED <<upgrade, raced>>
  BY <1>2 DEF Alone
<1>3. QED
  BY <1>1, <1>2 DEF Alone, Next, vars, Install, Uninstall, ManagerStarts, DaemonDies, Release

\* What an upgrade has done so far can be undone, after each of its own steps
LEMMA StepUndoable ==
  ASSUME NEW u \in Upgraders, TypeOK, Whole, Intact, Step(u), ~raced, ~raced'
  PROVE  /\ dest' = None => backup' \in Versions
         /\ Undoable(upgrade[u])'
<1> USE DEF TypeOK, UpgradeStates
<1>0. /\ dest = None => backup \in Versions
      /\ Undoable(upgrade[u])
      /\ Sound(upgrade[u])
      /\ dest \in Versions \cup {None} /\ backup \in Versions \cup {None}
  BY DEF Intact, Whole, Contents
<1>1. ASSUME NEW o, End(u, o) PROVE Undoable(upgrade[u])'
  BY <1>1, EndSound DEF Undoable
<1>2. CASE upgrade[u].pc \notin Replacing /\ ~Stat(u)
  <2>1. UNCHANGED files /\ upgrade'[u].pc \notin Replacing
    BY <1>2, OutsideReplacing
  <2>2. QED
    BY <1>0, <2>1 DEF Undoable, Replacing, files
<1>3. CASE Stat(u)
  <2>1. \/ upgrade'[u] = [upgrade[u] EXCEPT !.pc = "install", !.before = dest] /\ dest = None
        \/ upgrade'[u] = [upgrade[u] EXCEPT !.pc = "remove", !.before = dest] /\ dest # None
    BY <1>3 DEF Stat
  <2>2. UNCHANGED files /\ ~upgrade[u].haveBackup
    BY <1>0, <1>3 DEF Stat, At, Sound
  <2>3. QED
    BY <1>0, <2>1, <2>2 DEF Undoable, files
<1>4. CASE RemoveOldBackup(u)
  BY <1>0, <1>4 DEF Undoable, RemoveOldBackup, At, Goto
<1>5. CASE BackUp(u)
  <2>1. /\ dest # None /\ dest' = None /\ backup' = dest
        /\ upgrade'[u] = [upgrade[u] EXCEPT !.pc = "install", !.haveBackup = TRUE]
    BY <1>0, <1>5 DEF BackUp, At, Undoable
  <2>2. upgrade[u].before = dest
    BY <1>0, <1>5 DEF BackUp, At, Undoable
  <2>3. QED
    BY <1>0, <2>1, <2>2 DEF Undoable
<1>6. CASE InstallByRename(u)
  BY <1>0, <1>6, Values DEF Undoable, Sound, InstallByRename, At, Goto, Replacing
<1>7. CASE Stage(u)
  BY <1>0, <1>7 DEF Undoable, Stage, At, files
<1>8. CASE Copy(u)
  BY <1>0, <1>8 DEF Undoable, Copy, At, files
<1>9. CASE PublishStaged(u)
  BY <1>0, <1>9, Values DEF Undoable, Sound, PublishStaged, At
<1>10. CASE InstallFails(u)
  BY <1>0, <1>10 DEF Undoable, InstallFails, At, files
<1>11. CASE Restore(u)
  <2>1. dest' = None => backup' \in Versions
    BY <1>0, <1>11, Values DEF Undoable, Restore, At, files
  <2>2. QED
    BY <1>1, <1>11, <2>1 DEF Restore
<1>12. CASE CleanUp(u)
  <2>1. dest # None /\ dest' = dest
    BY <1>0, <1>12 DEF CleanUp, At, Undoable
  <2>2. End(u, "upgraded") \/ upgrade'[u].pc = "status"
    BY <1>12 DEF CleanUp, Goto
  <2>3. QED
    BY <1>1, <2>1, <2>2 DEF Undoable
<1>13. CASE Crash(u)
  BY <1>0, <1>1, <1>13 DEF Crash, files
<1>14. QED
  BY <1>2, <1>3, <1>4, <1>5, <1>6, <1>7, <1>8, <1>9, <1>10, <1>11, <1>12, <1>13
     DEF Step, Begin, Prepare, ServiceStatus, Restart, At, Replacing

LEMMA IntactPreserved ==
  ASSUME TypeOK, Whole, Alone, Intact, [Next]_vars
  PROVE  Intact'
<1>1. ASSUME NEW u \in Upgraders, Step(u), ~raced'
      PROVE  Intact'
  <2>1. ~raced
    BY <1>1, InsideReplacing DEF Stat, TypeOK
  <2>2. ASSUME NEW v \in Upgraders \ {u}
        PROVE  Undoable(upgrade[v])'
    <3>1. upgrade'[v] = upgrade[v]
      BY <1>1, OthersKept
    <3>2. CASE upgrade[v].pc \in Replacing
      <4>1. upgrade[u].pc \notin Replacing
        BY <2>1, <3>2 DEF Alone
      <4>2. UNCHANGED files
        BY <1>1, <4>1, OutsideReplacing
      <4>3. QED
        BY <2>1, <3>1, <4>2 DEF Intact, Undoable, files
    <3>3. CASE upgrade[v].pc \notin Replacing
      BY <3>1, <3>3 DEF Undoable, Replacing
    <3>4. QED
      BY <3>2, <3>3
  <2>3. QED
    BY <1>1, <2>1, <2>2, StepUndoable DEF Intact
<1>2. CASE UNCHANGED <<files, upgrade, raced>>
  BY <1>2 DEF Intact, Undoable, files
<1>3. QED
  BY <1>1, <1>2 DEF Intact, Next, vars, Install, Uninstall, ManagerStarts, DaemonDies, Release

\* A service that is not installed does not run
ServiceKnown == ~installed => daemon = None

LEMMA ServicePreserved ==
  ASSUME TypeOK, ServiceKnown, [Next]_vars
  PROVE  ServiceKnown'
<1> USE DEF ServiceKnown, TypeOK, service
<1>1. ASSUME NEW u \in Upgraders, Step(u)
      PROVE  ServiceKnown'
  BY <1>1 DEF Step, Begin, Prepare, Stat, RemoveOldBackup, BackUp, InstallByRename, Stage, Copy,
              PublishStaged, InstallFails, Restore, CleanUp, ServiceStatus, Restart, Crash
<1>2. CASE Install
  BY <1>2 DEF Install
<1>3. CASE Uninstall
  BY <1>3 DEF Uninstall
<1>4. CASE ManagerStarts
  BY <1>4 DEF ManagerStarts
<1>5. CASE DaemonDies
  BY <1>5 DEF DaemonDies
<1>6. CASE Release
  BY <1>6 DEF Release
<1>7. CASE UNCHANGED vars
  BY <1>7 DEF vars
<1>8. QED
  BY <1>1, <1>2, <1>3, <1>4, <1>5, <1>6, <1>7 DEF Next

-----------------------------------------------------------------------------
(***************************************************************************)
(* The invariant, and what follows from it                                 *)
(***************************************************************************)
IInv == TypeOK /\ Whole /\ Alone /\ Intact /\ ServiceKnown

THEOREM Invariant == Spec => []IInv
<1>1. Init => IInv
  <2>1. ASSUME Init PROVE TypeOK
    BY <2>1, NoUpgradeTyped, Values DEF Init, TypeOK
  <2>2. ASSUME Init, NEW u \in Upgraders
        PROVE  upgrade[u].pc = "idle" /\ Sound(upgrade[u]) /\ Undoable(upgrade[u])
    BY <2>2 DEF Init, NoUpgrade, Sound, Undoable, Replacing
  <2>3. ASSUME Init PROVE Whole
    BY <2>2, <2>3, Values DEF Init, Whole
  <2>4. ASSUME Init PROVE Alone
    BY <2>2, <2>4 DEF Alone, Replacing
  <2>5. ASSUME Init PROVE Intact
    BY <2>2, <2>5, Values DEF Init, Intact
  <2>6. QED
    BY <2>1, <2>3, <2>4, <2>5 DEF Init, IInv, ServiceKnown
<1>2. IInv /\ [Next]_vars => IInv'
  <2>1. ASSUME IInv, [Next]_vars PROVE TypeOK'
    BY <2>1, TypePreserved DEF IInv
  <2>2. QED
    BY <2>1, WholePreserved, AlonePreserved, IntactPreserved, ServicePreserved DEF IInv
<1>3. QED
  BY <1>1, <1>2, PTL DEF Spec

\* Whatever the number of upgrades, and wherever they are killed, nothing
\* damaged is installed, and the program is there or next to where it was
\* (replaceBinary, installBinary)
THEOREM UpgradeRecoverable == Spec => []BinaryRecoverable
<1>1. IInv => BinaryRecoverable
  BY DEF IInv, Whole, Intact, BinaryRecoverable
<1>2. QED
  BY <1>1, Invariant, PTL

\* An upgrade that fails while it replaces the binary puts it back
\* (replaceBinary)
THEOREM UpgradeUndone == Spec => FailedUpgradeKeepsBinary
<1> DEFINE Kept ==
      \A u \in Upgraders :
        upgrade'[u].outcome = "failed" /\ upgrade[u].pc \in Replacing /\ ~raced'
          => dest' = upgrade[u].before
<1>1. ASSUME IInv, Next PROVE Kept
  <2>1. ASSUME NEW u \in Upgraders, upgrade'[u].outcome = "failed",
               upgrade[u].pc \in Replacing, ~raced'
        PROVE  dest' = upgrade[u].before
    <3>1. upgrade[u].outcome = "none"
      BY <1>1, <2>1 DEF IInv, Whole, Sound, Replacing
    <3>2. Step(u)
      BY <1>1, <2>1, <3>1, OthersKept
         DEF IInv, Next, Install, Uninstall, ManagerStarts, DaemonDies, Release
    <3>3. ~raced
      BY <1>1, <2>1, <3>2, InsideReplacing DEF Stat, IInv, TypeOK
    <3>4. Undoable(upgrade[u])
      BY <1>1, <3>3 DEF IInv, Intact
    <3>5. BackUp(u) \/ Restore(u)
      <4>1. ASSUME NEW o, End(u, o) PROVE o = "failed"
        BY <1>1, <2>1, <4>1, EndSound DEF IInv
      <4>2. ASSUME upgrade'[u].outcome = upgrade[u].outcome PROVE FALSE
        BY <2>1, <3>1, <4>2
      <4>3. ~(RemoveOldBackup(u) \/ InstallByRename(u) \/ Stage(u) \/ Copy(u)
                \/ PublishStaged(u) \/ InstallFails(u))
        BY <1>1, <4>2 DEF IInv, TypeOK, UpgradeStates, RemoveOldBackup, InstallByRename, Stage,
           Copy, PublishStaged, InstallFails, Goto
      <4>4. ~(CleanUp(u) /\ Goto(u, "status"))
        BY <1>1, <4>2 DEF IInv, TypeOK, UpgradeStates, Goto
      <4>5. ~CleanUp(u) /\ ~Crash(u)
        BY <4>1, <4>4 DEF CleanUp, Crash
      <4>6. QED
        BY <2>1, <3>2, <4>3, <4>5 DEF Replacing, Step, Begin, Prepare, Stat, ServiceStatus,
           Restart, At
    <3>6. CASE BackUp(u)
      <4>1. upgrade'[u] = [upgrade[u] EXCEPT !.pc = "install", !.haveBackup = TRUE]
        BY <1>1, <3>4, <3>6 DEF IInv, TypeOK, UpgradeStates, BackUp, At, Undoable
      <4>2. QED
        BY <1>1, <2>1, <3>1, <4>1 DEF IInv, TypeOK, UpgradeStates
    <3>7. CASE Restore(u)
      <4>1. dest = None /\ backup # None
        BY <3>4, <3>7, Values DEF Restore, At, Undoable
      <4>2. CASE upgrade[u].haveBackup
        BY <3>4, <3>7, <4>1, <4>2 DEF Restore, At, Undoable
      <4>3. CASE ~upgrade[u].haveBackup
        BY <3>4, <3>7, <4>1, <4>3 DEF Restore, At, Undoable, files
      <4>4. QED
        BY <4>2, <4>3
    <3>8. QED
      BY <3>5, <3>6, <3>7
  <2>2. QED
    BY <2>1
<1>2. ASSUME UNCHANGED vars, IInv PROVE Kept
  BY <1>2 DEF vars, IInv, Whole, Sound, Replacing
<1>3. QED
  BY <1>1, <1>2, Invariant, PTL DEF FailedUpgradeKeepsBinary, Spec

\* When an upgrade reports success, the service runs the new binary or none
\* (newUpgradeCommand, ServiceStatus, Restart)
THEOREM UpgradeRestarts == Spec => UpgradedServiceRunsNew
<1> DEFINE RunsNew ==
      \A u \in Upgraders :
        (/\ upgrade'[u].outcome \in {"upgraded", "restarted"}
         /\ upgrade[u].pc \in {"status", "kick"}
         /\ ~raced') => daemon' \in {None, dest'}
<1>1. ASSUME IInv, Next PROVE RunsNew
  <2>1. ASSUME NEW u \in Upgraders, upgrade'[u].outcome \in {"upgraded", "restarted"},
               upgrade[u].pc \in {"status", "kick"}
        PROVE  daemon' \in {None, dest'}
    <3>1. upgrade[u].outcome = "none"
      BY <1>1, <2>1 DEF IInv, Whole, Sound
    <3>2. Step(u)
      BY <1>1, <2>1, <3>1, OthersKept
         DEF IInv, Next, Install, Uninstall, ManagerStarts, DaemonDies, Release
    <3>3. ServiceStatus(u) \/ Restart(u) \/ Crash(u)
      BY <2>1, <3>2 DEF Step, Begin, Prepare, Stat, RemoveOldBackup, BackUp, InstallByRename,
         Stage, Copy, PublishStaged, InstallFails, Restore, CleanUp, At
    <3>4. ASSUME NEW o, End(u, o) PROVE upgrade'[u].outcome = o
      BY <1>1, <3>4, EndSound DEF IInv
    <3>5. CASE ServiceStatus(u)
      <4>1. ~Loaded
        BY <1>1, <2>1, <3>1, <3>4, <3>5 DEF ServiceStatus, Goto, IInv, TypeOK, UpgradeStates
      <4>2. daemon = None /\ UNCHANGED daemon
        BY <1>1, <3>5, <4>1 DEF Loaded, IInv, ServiceKnown, ServiceStatus, service
      <4>3. QED
        BY <4>2
    <3>6. CASE Restart(u)
      BY <2>1, <3>4, <3>6 DEF Restart, files
    <3>7. CASE Crash(u)
      BY <2>1, <3>4, <3>7 DEF Crash
    <3>8. QED
      BY <3>3, <3>5, <3>6, <3>7
  <2>2. QED
    BY <2>1
<1>2. ASSUME UNCHANGED vars, IInv PROVE RunsNew
  BY <1>2 DEF vars, IInv, Whole, Sound
<1>3. QED
  BY <1>1, <1>2, Invariant, PTL DEF UpgradedServiceRunsNew, Spec
-----------------------------------------------------------------------------
(***************************************************************************)
(* An export that is resumed (newOTelBackfillCommand).                     *)
(***************************************************************************)
ExportTyped ==
  /\ rows \in Seq(BOOLEAN)
  /\ stored \in [Backfill!Ids -> Nat]
  /\ backfill \in [pc : {"none", "query", "export", "complete"}, send : BOOLEAN, limit : Nat,
                   cursor : Nat, total : Nat, batch : SUBSET Backfill!Ids, known : Nat]
  /\ printed \in Nat /\ failures \in Nat

\* The samples that are still to be sent after an id
DueAfter(after) == { i \in Backfill!Matching : i > after }

\* A command that sends starts where the last one printed, and prints what it passes
CursorInv ==
  /\ printed <= Len(rows) /\ backfill.cursor <= Len(rows) /\ backfill.known <= Len(rows)
  /\ Len(rows) <= MaxRows
  /\ backfill.pc # "none" /\ backfill.send => backfill.cursor = printed

\* A batch is a beginning of what is due
IsBatch(batch, after) ==
  /\ batch \subseteq DueAfter(after)
  /\ \A j \in batch, i \in DueAfter(after) : i <= j => i \in batch

BatchInv ==
  backfill.pc = "export" =>
    backfill.send /\ backfill.batch # {} /\ IsBatch(backfill.batch, backfill.cursor)

\* What was sent after the last printed id was sent by commands that failed
StoredInv ==
  /\ \A i \in Backfill!Matching : i <= printed => stored[i] > 0
  /\ \A i \in Backfill!Ids : stored[i] <= 1 + failures /\ (i > printed => stored[i] <= failures)

CompleteInv ==
  backfill.pc = "complete" /\ backfill.send /\ backfill.limit = 0
    => \A i \in Backfill!Matching : i <= backfill.known => stored[i] > 0

ExportInv == ExportTyped /\ CursorInv /\ BatchInv /\ StoredInv /\ CompleteInv

LEMMA BatchesInIds ==
  ASSUME ExportTyped, CursorInv
  PROVE  /\ Backfill!Matching \subseteq Backfill!Ids /\ Backfill!Ids \subseteq Nat
         /\ DOMAIN rows = 1..Len(rows) /\ Len(rows) \in Nat /\ MaxRows \in Nat
         /\ \A i \in Backfill!Ids : i >= 1
BY CommandLineAssumption DEF ExportTyped, CursorInv, Backfill!Matching, Backfill!Ids

LEMMA SetsFinite ==
  ASSUME ExportTyped, CursorInv
  PROVE  \A S \in SUBSET Backfill!Ids : IsFiniteSet(S) /\ Cardinality(S) \in Nat
<1>1. IsFiniteSet(1..MaxRows)
  BY BatchesInIds, FS_Interval
<1>2. QED
  BY <1>1, FS_Subset, FS_CardinalityType DEF Backfill!Ids

\* A query returns the first of what is due; nothing only if it may return nothing
LEMMA HistoryBatchSound ==
  ASSUME ExportTyped, CursorInv, NEW after \in Nat, NEW limit \in Int
  PROVE  /\ Backfill!HistoryBatch(after, limit) \in SUBSET Backfill!Ids
         /\ IsBatch(Backfill!HistoryBatch(after, limit), after)
         /\ limit >= 1 /\ Backfill!HistoryBatch(after, limit) = {} => DueAfter(after) = {}
<1> DEFINE batch == Backfill!HistoryBatch(after, limit)
           upTo(i) == { k \in DueAfter(after) : k <= i }
<1>1. ASSUME NEW i
      PROVE  i \in batch <=> i \in DueAfter(after) /\ Cardinality(upTo(i)) <= limit
  BY DEF Backfill!HistoryBatch, DueAfter, Backfill!Cardinality, Cardinality
<1>2. DueAfter(after) \subseteq Backfill!Ids /\ DueAfter(after) \subseteq Nat
  BY BatchesInIds DEF DueAfter
<1>3. \A i \in DueAfter(after) : IsFiniteSet(upTo(i)) /\ Cardinality(upTo(i)) \in Nat
  BY <1>2, SetsFinite
<1>4. ASSUME NEW j \in batch, NEW i \in DueAfter(after), i <= j
      PROVE  i \in batch
  <2>1. j \in DueAfter(after) /\ Cardinality(upTo(j)) <= limit
    BY <1>1
  <2>2. upTo(i) \subseteq upTo(j)
    BY <1>2, <1>4, <2>1
  <2>3. Cardinality(upTo(i)) <= Cardinality(upTo(j))
    BY <1>3, <2>1, <2>2, FS_Subset
  <2>4. Cardinality(upTo(i)) <= limit
    BY <1>3, <2>1, <2>3
  <2>5. QED
    BY <1>1, <2>4
<1>5. ASSUME limit >= 1, DueAfter(after) # {}
      PROVE  batch # {}
  <2>1. PICK i \in DueAfter(after) : \A j \in DueAfter(after) : i <= j
    BY <1>2, <1>5, Least
  <2>2. upTo(i) = {i}
    BY <1>2, <2>1
  <2>3. Cardinality(upTo(i)) = 1
    BY <2>2, FS_Singleton
  <2>4. QED
    BY <1>1, <1>5, <2>3
<1>6. QED
  BY <1>1, <1>2, <1>4, <1>5 DEF IsBatch

LEMMA LastOfBatch ==
  ASSUME ExportTyped, CursorInv, NEW after \in Nat, NEW batch, batch # {}, IsBatch(batch, after)
  PROVE  /\ Backfill!Last(batch) \in batch
         /\ \A j \in batch : j <= Backfill!Last(batch)
         /\ Backfill!Last(batch) \in Nat /\ Backfill!Last(batch) > after
         /\ Backfill!Last(batch) <= Len(rows)
         /\ \A i \in DueAfter(after) : i <= Backfill!Last(batch) => i \in batch
<1>1. batch \subseteq 0..MaxRows /\ MaxRows \in Nat /\ batch \subseteq DueAfter(after)
  BY BatchesInIds DEF IsBatch, DueAfter, Backfill!Ids
<1>2. \E i \in batch : \A j \in batch : j <= i
  BY <1>1, Greatest
<1>3. Backfill!Last(batch) \in batch /\ \A j \in batch : j <= Backfill!Last(batch)
  BY <1>2 DEF Backfill!Last
<1>4. \A i \in DueAfter(after) : i \in Nat /\ i > after /\ i <= Len(rows)
  BY BatchesInIds DEF DueAfter, Backfill!Matching
<1>5. QED
  BY <1>1, <1>3, <1>4 DEF IsBatch

LEMMA ExportStarts == Backfill!Init => ExportInv
<1> SUFFICES ASSUME Backfill!Init PROVE ExportInv
  OBVIOUS
<1>1. /\ rows = <<>> /\ stored = [i \in Backfill!Ids |-> 0] /\ printed = 0 /\ failures = 0
      /\ backfill = Backfill!NoCommand
  BY DEF Backfill!Init
<1>2. ExportTyped /\ Len(rows) = 0 /\ MaxRows \in Nat
  BY <1>1, CommandLineAssumption DEF ExportTyped, Backfill!NoCommand
<1>3. Backfill!Matching = {}
  BY <1>1 DEF Backfill!Matching
<1>4. QED
  BY <1>1, <1>2, <1>3 DEF ExportInv, CursorInv, BatchInv, StoredInv, CompleteInv, Backfill!NoCommand

\* A sample that the daemon stores comes after all that commands have looked at
LEMMA InsertKept ==
  ASSUME ExportInv, NEW matches \in BOOLEAN, Backfill!Insert(matches)
  PROVE  ExportInv'
<1>1. /\ rows \in Seq(BOOLEAN) /\ Len(rows) \in Nat /\ MaxRows \in Nat /\ Len(rows) < MaxRows
      /\ rows' = Append(rows, matches) /\ UNCHANGED <<stored, backfill, printed, failures>>
  BY CommandLineAssumption DEF Backfill!Insert, ExportInv, ExportTyped
<1>2. /\ rows' \in Seq(BOOLEAN) /\ Len(rows') = Len(rows) + 1
      /\ \A i \in 1..Len(rows) : rows'[i] = rows[i]
  BY <1>1
<1>3. Backfill!Matching' \subseteq Backfill!Matching \cup {Len(rows) + 1}
  BY <1>1, <1>2 DEF Backfill!Matching
<1>4. Backfill!Matching \subseteq Backfill!Matching'
  BY <1>1, <1>2 DEF Backfill!Matching
<1>5. ExportTyped' /\ CursorInv'
  BY <1>1, <1>2 DEF ExportInv, ExportTyped, CursorInv
<1>6. StoredInv' /\ CompleteInv'
  <2>1. printed < Len(rows) + 1 /\ backfill.known < Len(rows) + 1
    BY <1>1 DEF ExportInv, ExportTyped, CursorInv
  <2>2. Backfill!Ids' = Backfill!Ids
    BY DEF Backfill!Ids
  <2>3. ~(Len(rows) + 1 <= printed) /\ ~(Len(rows) + 1 <= backfill.known)
    BY <1>1, <2>1 DEF ExportInv, ExportTyped
  <2>4. QED
    BY <1>1, <1>3, <2>2, <2>3 DEF ExportInv, StoredInv, CompleteInv
<1>7. BatchInv'
  <2> SUFFICES ASSUME backfill.pc = "export" PROVE IsBatch(backfill.batch, backfill.cursor)'
    BY <1>1 DEF ExportInv, BatchInv
  <2>1. PICK cursor, batch : cursor = backfill.cursor /\ batch = backfill.batch
    OBVIOUS
  <2>2. IsBatch(batch, cursor) /\ cursor \in Nat
    BY <2>1 DEF ExportInv, BatchInv, ExportTyped
  <2>3. \A j \in batch : j <= Len(rows) /\ j \in Nat
    BY <1>1, <2>2 DEF IsBatch, DueAfter, Backfill!Matching
  <2>4. batch \subseteq DueAfter(cursor)'
    BY <1>4, <2>2 DEF IsBatch, DueAfter
  <2>5. ASSUME NEW j \in batch, NEW i \in DueAfter(cursor)', i <= j PROVE i \in batch
    <3>1. i # Len(rows) + 1
      BY <1>1, <2>3, <2>5
    <3>2. i \in DueAfter(cursor)
      BY <1>3, <3>1 DEF DueAfter
    <3>3. QED
      BY <2>2, <2>5, <3>2 DEF IsBatch
  <2>6. IsBatch(batch, cursor)'
    BY <2>4, <2>5 DEF IsBatch
  <2>7. QED
    BY <1>1, <2>1, <2>6
<1>8. QED
  BY <1>5, <1>6, <1>7 DEF ExportInv

LEMMA BeginKept ==
  ASSUME ExportInv, NEW send \in BOOLEAN, NEW limit \in Limits, Backfill!Begin(send, limit)
  PROVE  ExportInv'
<1>1. limit \in Nat
  BY CommandLineAssumption
<1>2. /\ UNCHANGED <<rows, stored, printed, failures>>
      /\ backfill'.pc = "query" /\ backfill'.send = send /\ backfill'.limit = limit
      /\ backfill'.cursor = printed /\ backfill'.known = Len(rows)
  BY DEF Backfill!Begin, Backfill!NoCommand
<1>3. Len(rows) \in Nat
  BY DEF ExportInv, ExportTyped
<1>4. ExportTyped'
  BY <1>1, <1>2, <1>3 DEF Backfill!Begin, Backfill!NoCommand, ExportInv, ExportTyped
<1>5. CursorInv' /\ BatchInv' /\ CompleteInv'
  BY <1>2, <1>3 DEF ExportInv, CursorInv, BatchInv, CompleteInv
<1>6. StoredInv'
  BY <1>2 DEF ExportInv, StoredInv, Backfill!Matching
<1>7. QED
  BY <1>4, <1>5, <1>6 DEF ExportInv

\* What Advanced changes
LEMMA AdvancedTyped ==
  ASSUME ExportTyped, CursorInv, NEW batch \in SUBSET Backfill!Ids, batch # {},
         IsBatch(batch, backfill.cursor), backfill' = Backfill!Advanced(batch)
  PROVE  /\ backfill' \in [pc : {"none", "query", "export", "complete"}, send : BOOLEAN,
                           limit : Nat, cursor : Nat, total : Nat, batch : SUBSET Backfill!Ids,
                           known : Nat]
         /\ backfill'.pc = "query" /\ backfill'.send = backfill.send
         /\ backfill'.known = backfill.known
         /\ backfill'.cursor = Backfill!Last(batch)
<1>1. Backfill!Last(batch) \in Nat
  BY LastOfBatch DEF ExportTyped
<1>2. Backfill!Cardinality(batch) \in Nat
  <2>1. Backfill!Cardinality(batch) = Cardinality(batch)
    BY DEF Backfill!Cardinality, Cardinality
  <2>2. QED
    BY <2>1, SetsFinite
<1>3. PICK last, n : last = Backfill!Last(batch) /\ n = Backfill!Cardinality(batch)
  OBVIOUS
<1>4. last \in Nat /\ n \in Nat /\ backfill.total + n \in Nat
  BY <1>1, <1>2, <1>3 DEF ExportTyped
<1>5. PICK total \in Nat : total = backfill.total + n
  BY <1>4
<1>6. backfill' = [backfill EXCEPT !.pc = "query", !.cursor = last, !.total = total, !.batch = {}]
  BY <1>3, <1>5 DEF Backfill!Advanced, ExportTyped
<1>7. QED
  BY <1>3, <1>4, <1>6 DEF ExportTyped

LEMMA QueryKept ==
  ASSUME ExportInv, Backfill!Query
  PROVE  ExportInv'
<1>0. /\ ExportTyped /\ CursorInv /\ StoredInv
      /\ backfill.pc = "query" /\ UNCHANGED <<rows, stored, printed, failures>>
      /\ backfill.cursor \in Nat /\ Len(rows) \in Nat /\ backfill.limit \in Nat /\ backfill.total \in Nat
  BY DEF ExportInv, ExportTyped, Backfill!Query
<1>1. Backfill!QueryLimit \in Int /\ (backfill.limit = 0 => Backfill!QueryLimit >= 1)
  BY <1>0, CommandLineAssumption DEF Backfill!QueryLimit
<1>2. PICK batch : batch = Backfill!HistoryBatch(backfill.cursor, Backfill!QueryLimit)
  OBVIOUS
<1>3. /\ batch \in SUBSET Backfill!Ids
      /\ IsBatch(batch, backfill.cursor)
      /\ Backfill!QueryLimit >= 1 /\ batch = {} => DueAfter(backfill.cursor) = {}
  BY <1>0, <1>1, <1>2, HistoryBatchSound
<1>4. StoredInv' /\ (\A i : i \in Backfill!Matching' <=> i \in Backfill!Matching)
      /\ (\A after : DueAfter(after)' = DueAfter(after))
  BY <1>0 DEF StoredInv, Backfill!Matching, DueAfter
<1>5. backfill' = IF batch = {} THEN [backfill EXCEPT !.pc = "complete"]
                  ELSE IF backfill.send THEN [backfill EXCEPT !.pc = "export", !.batch = batch]
                  ELSE Backfill!Advanced(batch)
  BY <1>2 DEF Backfill!Query
<1>6. CASE batch = {}
  <2>1. backfill' = [backfill EXCEPT !.pc = "complete"]
    BY <1>6, <1>5
  <2>2. ExportTyped' /\ CursorInv' /\ BatchInv'
    BY <1>0, <2>1 DEF ExportTyped, CursorInv, BatchInv
  <2>3. CompleteInv'
    <3> SUFFICES ASSUME backfill.send, backfill.limit = 0, NEW i \in Backfill!Matching
                 PROVE  stored[i] > 0
      BY <1>0, <1>4, <2>1 DEF CompleteInv, ExportTyped
    <3>1. ~(i > backfill.cursor) /\ backfill.cursor = printed /\ i \in Nat
      BY <1>0, <1>1, <1>3, <1>6, BatchesInIds DEF DueAfter, CursorInv
    <3>2. QED
      BY <1>0, <3>1 DEF StoredInv
  <2>4. QED
    BY <1>4, <2>2, <2>3 DEF ExportInv
<1>7. CASE batch # {} /\ backfill.send
  <2>1. backfill' = [backfill EXCEPT !.pc = "export", !.batch = batch]
    BY <1>7, <1>5
  <2>2. /\ backfill'.pc = "export" /\ backfill'.batch = batch /\ backfill'.send = backfill.send
        /\ backfill'.cursor = backfill.cursor /\ backfill'.known = backfill.known
    BY <1>0, <2>1 DEF ExportTyped
  <2>3. ExportTyped'
    BY <1>0, <1>3, <2>1 DEF ExportTyped
  <2>4. CursorInv' /\ CompleteInv'
    BY <1>0, <2>2 DEF CursorInv, CompleteInv
  <2>5. BatchInv'
    <3>1. PICK cursor : cursor = backfill.cursor
      OBVIOUS
    <3>2. IsBatch(batch, cursor)'
      BY <1>3, <1>4, <3>1 DEF IsBatch
    <3>3. QED
      BY <1>7, <2>2, <3>1, <3>2 DEF BatchInv
  <2>6. QED
    BY <1>4, <2>3, <2>4, <2>5 DEF ExportInv
<1>8. CASE batch # {} /\ ~backfill.send
  <2>1. backfill' = Backfill!Advanced(batch)
    BY <1>8, <1>5
  <2>2. ExportTyped' /\ backfill'.pc = "query" /\ backfill'.send = backfill.send
        /\ backfill'.known = backfill.known /\ backfill'.cursor = Backfill!Last(batch)
    BY <1>0, <1>3, <1>8, <2>1, AdvancedTyped DEF ExportTyped
  <2>3. backfill'.cursor <= Len(rows)
    BY <1>0, <1>3, <1>8, <2>2, LastOfBatch
  <2>4. CursorInv' /\ CompleteInv' /\ BatchInv'
    BY <1>0, <1>8, <2>2, <2>3 DEF CursorInv, CompleteInv, BatchInv
  <2>5. QED
    BY <1>4, <2>2, <2>4 DEF ExportInv
<1>9. QED
  BY <1>0, <1>6, <1>7, <1>8 DEF ExportTyped

\* A batch that is stored and printed
LEMMA ExportKept ==
  ASSUME ExportInv, Backfill!Export
  PROVE  ExportInv'
<1> DEFINE last == Backfill!Last(backfill.batch)
<1>0. /\ ExportTyped /\ CursorInv /\ StoredInv
      /\ backfill.pc = "export" /\ UNCHANGED <<rows, failures>>
      /\ backfill.cursor \in Nat /\ Len(rows) \in Nat /\ printed \in Nat /\ failures \in Nat
      /\ backfill.batch \in SUBSET Backfill!Ids /\ backfill.batch # {}
      /\ IsBatch(backfill.batch, backfill.cursor) /\ backfill.send /\ backfill.cursor = printed
      /\ stored \in [Backfill!Ids -> Nat]
  BY DEF ExportInv, ExportTyped, Backfill!Export, BatchInv, CursorInv
<1>1. /\ last \in Nat /\ last > printed /\ last <= Len(rows)
      /\ \A j \in backfill.batch : j <= last
      /\ \A i \in DueAfter(printed) : i <= last => i \in backfill.batch
  BY <1>0, LastOfBatch
<1>2. /\ stored' = [i \in Backfill!Ids |-> IF i \in backfill.batch THEN stored[i] + 1 ELSE stored[i]]
      /\ printed' = last /\ backfill' = Backfill!Advanced(backfill.batch)
  BY DEF Backfill!Export, Backfill!Store
<1>3. /\ backfill' \in [pc : {"none", "query", "export", "complete"}, send : BOOLEAN, limit : Nat,
                        cursor : Nat, total : Nat, batch : SUBSET Backfill!Ids, known : Nat]
      /\ backfill'.pc = "query" /\ backfill'.send = backfill.send
      /\ backfill'.known = backfill.known /\ backfill'.cursor = last
  BY <1>0, <1>2, AdvancedTyped
<1>4. ExportTyped'
  BY <1>0, <1>1, <1>2, <1>3 DEF ExportTyped, Backfill!Ids
<1>5. CursorInv' /\ BatchInv' /\ CompleteInv'
  BY <1>0, <1>1, <1>2, <1>3 DEF CursorInv, BatchInv, CompleteInv
<1>6. StoredInv'
  <2>1. Backfill!Matching' = Backfill!Matching /\ Backfill!Ids' = Backfill!Ids
    BY <1>0 DEF Backfill!Matching, Backfill!Ids
  <2>2. ASSUME NEW i \in Backfill!Matching, i <= last PROVE stored'[i] > 0
    <3>1. i \in Backfill!Ids /\ i \in Nat /\ stored[i] \in Nat
      BY <1>0, BatchesInIds
    <3>2. i \in backfill.batch \/ stored[i] > 0
      BY <1>0, <1>1, <2>2, <3>1 DEF DueAfter, StoredInv
    <3>3. QED
      BY <1>2, <3>1, <3>2
  <2>3. ASSUME NEW i \in Backfill!Ids
        PROVE  stored'[i] <= 1 + failures /\ (i > last => stored'[i] <= failures)
    <3>1. i \in Nat /\ stored[i] \in Nat
      BY <1>0, BatchesInIds
    <3>2. CASE i \in backfill.batch
      <4>1. i > printed /\ i <= last
        BY <1>0, <1>1, <3>2 DEF IsBatch, DueAfter
      <4>2. stored[i] <= failures /\ stored'[i] = stored[i] + 1
        BY <1>0, <1>2, <3>2, <4>1 DEF StoredInv
      <4>3. QED
        BY <1>0, <1>1, <3>1, <4>1, <4>2
    <3>3. CASE i \notin backfill.batch
      <4>1. stored'[i] = stored[i]
        BY <1>2, <3>3
      <4>2. i > last => i > printed
        BY <1>0, <1>1, <3>1
      <4>3. QED
        BY <1>0, <4>1, <4>2 DEF StoredInv
    <3>4. QED
      BY <3>2, <3>3
  <2> HIDE DEF last
  <2>4. QED
    BY <1>0, <1>2, <2>1, <2>2, <2>3 DEF StoredInv
<1>7. QED
  BY <1>4, <1>5, <1>6 DEF ExportInv

\* A batch of which any part was stored, and nothing is printed
LEMMA ExportFailsKept ==
  ASSUME ExportInv, Backfill!ExportFails
  PROVE  ExportInv'
<1>0. /\ ExportTyped /\ CursorInv /\ StoredInv
      /\ backfill.pc = "export" /\ UNCHANGED <<rows, printed>>
      /\ Len(rows) \in Nat /\ printed \in Nat /\ failures \in Nat
      /\ IsBatch(backfill.batch, printed)
      /\ stored \in [Backfill!Ids -> Nat]
  BY DEF ExportInv, ExportTyped, Backfill!ExportFails, BatchInv, CursorInv
<1>1. PICK part \in SUBSET backfill.batch : Backfill!Store(part)
  BY DEF Backfill!ExportFails
<1>2. stored' = [i \in Backfill!Ids |-> IF i \in part THEN stored[i] + 1 ELSE stored[i]]
  BY <1>1 DEF Backfill!Store
<1>3. failures' = failures + 1 /\ backfill' = Backfill!NoCommand
  BY DEF Backfill!ExportFails
<1>4. ExportTyped'
  BY <1>0, <1>2, <1>3 DEF ExportTyped, Backfill!NoCommand, Backfill!Ids
<1>5. CursorInv' /\ BatchInv' /\ CompleteInv'
  BY <1>0, <1>3 DEF CursorInv, BatchInv, CompleteInv, Backfill!NoCommand
<1>6. StoredInv'
  <2>1. Backfill!Matching' = Backfill!Matching /\ Backfill!Ids' = Backfill!Ids
    BY <1>0 DEF Backfill!Matching, Backfill!Ids
  <2>2. ASSUME NEW i \in Backfill!Ids
        PROVE  /\ stored[i] > 0 => stored'[i] > 0
               /\ stored'[i] <= 1 + failures'
               /\ i > printed => stored'[i] <= failures'
    <3>1. i \in Nat /\ stored[i] \in Nat
      BY <1>0, BatchesInIds
    <3>2. i \in part => i > printed
      BY <1>0, <1>1 DEF IsBatch, DueAfter
    <3>3. stored[i] <= 1 + failures /\ (i > printed => stored[i] <= failures)
      BY <1>0 DEF StoredInv
    <3>4. stored'[i] = IF i \in part THEN stored[i] + 1 ELSE stored[i]
      BY <1>2
    <3>5. QED
      BY <1>0, <1>3, <3>1, <3>2, <3>3, <3>4
  <2>3. QED
    BY <1>0, <2>1, <2>2, BatchesInIds DEF StoredInv
<1>7. QED
  BY <1>4, <1>5, <1>6 DEF ExportInv

THEOREM ExportInvariant == Backfill!Spec => []ExportInv
<1>1. ExportInv /\ [Backfill!Next]_(Backfill!vars) => ExportInv'
  <2> SUFFICES ASSUME ExportInv, [Backfill!Next]_(Backfill!vars) PROVE ExportInv'
    OBVIOUS
  <2>1. CASE UNCHANGED Backfill!vars
    BY <2>1 DEF Backfill!vars, ExportInv, ExportTyped, CursorInv, BatchInv, StoredInv, CompleteInv,
                IsBatch, DueAfter, Backfill!Matching
  <2>2. CASE Backfill!Next
    BY <2>2, InsertKept, BeginKept, QueryKept, ExportKept, ExportFailsKept DEF Backfill!Next
  <2>3. QED
    BY <2>1, <2>2
<1>2. QED
  BY <1>1, ExportStarts, PTL DEF Backfill!Spec

\* An export resumed after its last printed id misses and repeats nothing without a
\* reason, whatever the daemon stores meanwhile, the limits, where the batches end and
\* however often a command fails (newOTelBackfillCommand, HistoryBatch)
THEOREM ResumedExportExact == CommandSpec => []ResumeIsExact
<1>1. ExportInv => ResumeIsExact
  BY DEF ExportInv, StoredInv, CompleteInv, ResumeIsExact, Backfill!ResumeIsExact,
         Backfill!NothingMissed, Backfill!DuplicatesExplained
<1>2. QED
  BY <1>1, CommandsAsSpecified, ExportInvariant, PTL

-----------------------------------------------------------------------------
(***************************************************************************)
(* A poll of Copilot while GitHub has cut off quotas of the account.       *)
(***************************************************************************)
PollResults ==
  {"none", "ok", "auth_expired", "auth_missing", "rate_limited", "transient_http_failure",
   "invalid_response", "unsupported_account_shape"}

UserType ==
  [used : [Snapshots -> Shares \cup {Copilot!Unset}], blocked : SUBSET Snapshots,
   flagged : SUBSET Snapshots, allowance : Nat, tokenBased : BOOLEAN]

BillingTyped ==
  /\ backing \in Snapshots /\ cutOff \in SUBSET Snapshots /\ credits \in Nat
  /\ copilot \in [pc : {"idle", "gh", "pi", "http", "billing"}, user : UserType,
                  ghMalformed : BOOLEAN, cutOff : SUBSET Snapshots, result : PollResults]

\* An answer that says of a quota that was cut off before the poll that it is, and which
\* quota the credits are taken from
Told(user) ==
  /\ user \in UserType
  /\ copilot.cutOff \subseteq user.blocked
  /\ user.flagged = {} => backing = "premium_interactions"

\* A poll has been told of what is cut off before it asks for the bill, and has no result
\* before it has stored what it shows
SeenInv ==
  /\ copilot.cutOff \subseteq cutOff
  /\ copilot.pc = "billing" => Told(copilot.user)
  /\ copilot.pc # "idle" => copilot.result = "none"

BillingInv == BillingTyped /\ SeenInv /\ Copilot!CutOffShowsNoCapacityUnlessAmbiguous

\* The steps that have no result
LEMMA PollGoesOn ==
  ASSUME BillingTyped', SeenInv', copilot'.pc # "idle" \/ copilot'.result # "ok"
  PROVE  BillingInv'
BY DEF BillingInv, Copilot!CutOffShowsNoCapacityUnlessAmbiguous, Copilot!CutOffShowsNoCapacity

LEMMA NoUserTyped ==
  /\ Copilot!NoUser \in UserType
  /\ Copilot!NoPoll \in [pc : {"idle", "gh", "pi", "http", "billing"}, user : UserType,
                         ghMalformed : BOOLEAN, cutOff : SUBSET Snapshots, result : PollResults]
  /\ Copilot!NoPoll.cutOff = {} /\ Copilot!NoPoll.pc = "idle" /\ Copilot!NoPoll.result = "none"
<1>1. Copilot!NoUser \in UserType
  BY DEF Copilot!NoUser, UserType
<1>2. QED
  BY <1>1 DEF Copilot!NoPoll, PollResults

\* The share of credits whose quota is gone is all of them, if there is one
LEMMA ShareOfBlocked ==
  ASSUME NEW user \in UserType, NEW quota \in user.blocked, NEW used \in Nat
  PROVE  Copilot!AICreditWindow(user, quota, used) \in {Copilot!Unset, 100}
<1>1. CASE user.allowance = 0
  BY <1>1 DEF Copilot!AICreditWindow
<1>2. CASE user.allowance # 0
  <2>1. PICK p \in Int : p = (used * 100) \div user.allowance
    <3>1. PICK n \in Nat : n = used * 100
      OBVIOUS
    <3>2. PICK a \in Nat \ {0} : a = user.allowance
      BY <1>2 DEF UserType
    <3>3. n \div a \in Int
      OBVIOUS
    <3>4. QED
      BY <3>1, <3>2, <3>3
  <2>2. PICK r \in Int : r = (IF p < 100 THEN 100 ELSE p) /\ r >= 100
    BY <2>1
  <2>3. Copilot!AICreditWindow(user, quota, used) = Copilot!Clamp(r)
    BY <1>2, <2>1, <2>2 DEF Copilot!AICreditWindow
  <2>4. Copilot!Clamp(r) = 100
    BY <2>2 DEF Copilot!Clamp
  <2>5. QED
    BY <2>3, <2>4
<1>3. QED
  BY <1>1, <1>2

\* What is stored replaces every window that an earlier poll has shown
LEMMA StoredShows ==
  ASSUME BillingInv, NEW user, Told(user), NEW share, Copilot!Succeeds(user, share),
         copilot.pc # "idle", UNCHANGED <<backing, cutOff, credits>>,
         backing \in copilot.cutOff /\ user.flagged \subseteq {backing} =>
           share \in {Copilot!Unset, 100}
  PROVE  BillingInv'
<1> DEFINE windows == Copilot!SnapshotWindows(user, share)
           left == [Copilot!NoUser EXCEPT !.flagged = user.flagged]
<1>1. left \in UserType /\ left.flagged = user.flagged
  BY NoUserTyped DEF Told, UserType
<1> HIDE DEF left
<1>2. copilot' = [copilot EXCEPT !.pc = "idle", !.user = left, !.result = "ok"]
  BY DEF Copilot!Succeeds, left
<1>3. /\ BillingTyped' /\ copilot'.pc = "idle" /\ copilot'.cutOff = copilot.cutOff
      /\ copilot'.user.flagged = user.flagged
  BY <1>1, <1>2 DEF BillingInv, BillingTyped, PollResults
<1>4. SeenInv'
  BY <1>3 DEF BillingInv, SeenInv
<1>5. ASSUME NEW n \in copilot.cutOff
      PROVE  /\ samples' = windows
             /\ windows[n] = 100
             /\ "ai_credits" \notin Snapshots => windows["ai_credits"] = share
  <2>1. n \in Snapshots /\ n \in user.blocked /\ n \in Copilot!Windows
    BY DEF BillingInv, BillingTyped, Told, Copilot!Windows
  <2>2. Copilot!WindowFromQuota(user, n) = 100 /\ Copilot!Unset # 100
    BY <2>1 DEF Copilot!WindowFromQuota, Copilot!Unset
  <2>3. windows[n] = 100
    BY <2>1, <2>2 DEF Copilot!SnapshotWindows
  <2>4. samples' = windows
    BY <2>1, <2>2, <2>3 DEF Copilot!Succeeds, Copilot!LatestSamples
  <2>5. "ai_credits" \notin Snapshots => windows["ai_credits"] = share
    BY DEF Copilot!SnapshotWindows, Copilot!Windows
  <2>6. QED
    BY <2>3, <2>4, <2>5
<1> HIDE DEF windows
<1>6. Copilot!CutOffShowsNoCapacityUnlessAmbiguous'
  <2>1. backing' = backing
    OBVIOUS
  <2>2. \A n \in copilot'.cutOff : samples'[n] = 100
    BY <1>3, <1>5
  <2>3. ASSUME backing \in copilot.cutOff, user.flagged \subseteq {backing},
               "ai_credits" \notin Snapshots
        PROVE  samples'["ai_credits"] \in {Copilot!Unset, 100}
    BY <1>5, <2>3
  <2>4. QED
    BY <1>3, <2>1, <2>2, <2>3 DEF Copilot!CutOffShowsNoCapacityUnlessAmbiguous,
                                  Copilot!CutOffShowsNoCapacity
<1>7. QED
  BY <1>3, <1>4, <1>6 DEF BillingInv

\* An answer to the quota request leads to the second one, or is stored
LEMMA UserKept ==
  ASSUME BillingInv, NEW user \in Copilot!Users, Copilot!HasUser(user),
         copilot.pc \in {"gh", "http"}, UNCHANGED <<backing, cutOff, credits>>
  PROVE  BillingInv'
<1>1. Told(user)
  <2>1. user \in UserType
    <3>1. \A a \in Allowances \cup {0} : a \in Nat
      BY CommandLineAssumption
    <3>2. /\ user \in [used : [Snapshots -> Shares \cup {Copilot!Unset}], blocked : {cutOff},
                       flagged : SUBSET Snapshots, allowance : Allowances \cup {0},
                       tokenBased : BOOLEAN]
          /\ cutOff \in SUBSET Snapshots
      BY DEF Copilot!Users, BillingInv, BillingTyped
    <3>3. QED
      BY <3>1, <3>2 DEF UserType
  <2>2. user.blocked = cutOff /\ (user.flagged = {} => backing = "premium_interactions")
    BY DEF Copilot!Users
  <2>3. QED
    BY <2>1, <2>2 DEF Told, BillingInv, SeenInv
<1>2. CASE user.tokenBased
  <2>1. copilot' = [copilot EXCEPT !.pc = "billing", !.user = user]
    BY <1>2 DEF Copilot!HasUser
  <2>2. BillingTyped' /\ copilot'.pc = "billing" /\ copilot'.user = user
        /\ copilot'.cutOff = copilot.cutOff /\ copilot'.result = copilot.result
    BY <1>1, <2>1 DEF BillingInv, BillingTyped, Told
  <2>3. SeenInv'
    BY <1>1, <2>2 DEF BillingInv, SeenInv, Told
  <2>4. QED
    BY <2>2, <2>3, PollGoesOn
<1>3. CASE ~user.tokenBased
  BY <1>1, <1>3, StoredShows DEF Copilot!HasUser
<1>4. QED
  BY <1>2, <1>3

LEMMA AskKept ==
  ASSUME BillingInv, Copilot!Begin \/ Copilot!RunGH \/ Copilot!GHFails \/ Copilot!ReadPi \/ Copilot!GetUser
  PROVE  BillingInv'
<1>1. /\ UNCHANGED <<backing, cutOff, credits>>
      /\ backing \in Snapshots /\ cutOff \in SUBSET Snapshots /\ credits \in Nat
      /\ copilot.cutOff \subseteq cutOff
  BY DEF BillingInv, BillingTyped, SeenInv, Copilot!Begin, Copilot!RunGH, Copilot!GHFails,
         Copilot!ReadPi, Copilot!GetUser, Copilot!account
<1>2. CASE Copilot!Begin
  <2>1. copilot' = [Copilot!NoPoll EXCEPT !.pc = "gh", !.cutOff = cutOff]
    BY <1>2 DEF Copilot!Begin
  <2>2. BillingTyped' /\ copilot'.pc = "gh" /\ copilot'.cutOff = cutOff /\ copilot'.result = "none"
    BY <1>1, <2>1, NoUserTyped DEF BillingTyped
  <2>3. SeenInv'
    BY <1>1, <2>2 DEF SeenInv
  <2>4. QED
    BY <2>2, <2>3, PollGoesOn
<1>3. ASSUME NEW result \in PollResults \ {"ok"}, Copilot!Fails(result), copilot.pc \in {"pi", "http"}
      PROVE  BillingInv'
  <2>1. copilot' = [copilot EXCEPT !.pc = "idle", !.result = result]
    BY <1>3 DEF Copilot!Fails
  <2>2. /\ BillingTyped' /\ copilot'.pc = "idle" /\ copilot'.result # "ok"
        /\ copilot'.cutOff = copilot.cutOff
    BY <1>1, <1>3, <2>1 DEF BillingInv, BillingTyped
  <2>3. SeenInv'
    BY <1>1, <2>2 DEF SeenInv
  <2>4. QED
    BY <2>2, <2>3, PollGoesOn
<1>4. CASE Copilot!RunGH
  BY <1>1, <1>4, UserKept DEF Copilot!RunGH
<1>5. ASSUME copilot.pc # "idle", copilot'.pc \in {"pi", "http"}, BillingTyped',
             copilot'.cutOff = copilot.cutOff, copilot'.result = copilot.result
      PROVE  BillingInv'
  <2>1. SeenInv'
    BY <1>1, <1>5 DEF BillingInv, SeenInv
  <2>2. QED
    BY <1>5, <2>1, PollGoesOn
<1>6. CASE Copilot!GHFails
  <2>1. PICK malformed \in BOOLEAN :
          copilot' = [copilot EXCEPT !.pc = "pi", !.ghMalformed = malformed]
    BY <1>6 DEF Copilot!GHFails
  <2>2. /\ BillingTyped' /\ copilot'.pc = "pi"
        /\ copilot'.cutOff = copilot.cutOff /\ copilot'.result = copilot.result
    BY <1>1, <2>1 DEF BillingInv, BillingTyped
  <2>3. QED
    BY <1>5, <1>6, <2>2 DEF Copilot!GHFails
<1>7. CASE Copilot!ReadPi
  <2>1. CASE copilot' = [copilot EXCEPT !.pc = "http"]
    <3>1. /\ BillingTyped' /\ copilot'.pc = "http"
          /\ copilot'.cutOff = copilot.cutOff /\ copilot'.result = copilot.result
      BY <1>1, <2>1 DEF BillingInv, BillingTyped
    <3>2. QED
      BY <1>5, <1>7, <3>1 DEF Copilot!ReadPi
  <2>2. \A login \in Copilot!PiLogins \ {"ok"} :
          Copilot!CopilotPiError(login) \in PollResults \ {"ok"}
    BY DEF Copilot!PiLogins, Copilot!CopilotPiError, PollResults
  <2>3. "invalid_response" \in PollResults \ {"ok"}
    BY DEF PollResults
  <2>4. QED
    BY <1>3, <1>7, <2>1, <2>2, <2>3 DEF Copilot!ReadPi
<1>8. CASE Copilot!GetUser
  <2>1. {"auth_expired", "auth_missing", "rate_limited", "transient_http_failure",
         "invalid_response"} \subseteq PollResults \ {"ok"}
    BY DEF PollResults
  <2>2. QED
    BY <1>1, <1>3, <1>8, <2>1, UserKept DEF Copilot!GetUser
<1>9. QED
  BY <1>2, <1>4, <1>6, <1>7, <1>8

\* With the bill or without it, what is stored shows what the poll was told
LEMMA BillingKept ==
  ASSUME BillingInv, Copilot!GetBilling \/ Copilot!BillingFails
  PROVE  BillingInv'
<1>1. /\ UNCHANGED <<backing, cutOff, credits>> /\ copilot.pc = "billing" /\ credits \in Nat
      /\ Told(copilot.user)
  BY DEF BillingInv, BillingTyped, SeenInv, Copilot!GetBilling, Copilot!BillingFails, Copilot!account
<1>2. CASE Copilot!BillingFails
  BY <1>1, <1>2, StoredShows DEF Copilot!BillingFails
<1>3. CASE Copilot!GetBilling
  <2>1. PICK user : user = copilot.user
    OBVIOUS
  <2>2. PICK quota \in Copilot!TokenBillingQuotas(user) :
          Copilot!Succeeds(user, Copilot!AICreditWindow(user, quota, credits))
    BY <1>3, <2>1 DEF Copilot!GetBilling
  <2>3. user.flagged \subseteq {backing} => quota = backing
    BY <1>1, <2>1, <2>2 DEF Copilot!TokenBillingQuotas, Told
  <2>4. ASSUME backing \in copilot.cutOff, user.flagged \subseteq {backing}
        PROVE  Copilot!AICreditWindow(user, quota, credits) \in {Copilot!Unset, 100}
    <3>1. quota \in user.blocked /\ user \in UserType
      BY <1>1, <2>1, <2>3, <2>4 DEF Told
    <3>2. QED
      BY <1>1, <3>1, ShareOfBlocked
  <2>5. QED
    BY <1>1, <2>1, <2>2, <2>4, StoredShows
<1>4. QED
  BY <1>2, <1>3

\* What GitHub and the user do
LEMMA AccountKept ==
  ASSUME BillingInv, Copilot!Spend \/ Copilot!CutOff \/ Copilot!NewMonth
  PROVE  BillingInv'
<1>1. CASE Copilot!Spend \/ Copilot!CutOff
  <2>1. /\ UNCHANGED <<backing, copilot, samples>> /\ credits' \in Nat
        /\ cutOff \subseteq cutOff' /\ cutOff' \in SUBSET Snapshots
    BY <1>1 DEF Copilot!Spend, Copilot!CutOff, BillingInv, BillingTyped
  <2>2. BillingTyped'
    BY <2>1 DEF BillingInv, BillingTyped
  <2>3. SeenInv'
    BY <2>1 DEF BillingInv, SeenInv, Told
  <2>4. Copilot!CutOffShowsNoCapacityUnlessAmbiguous'
    BY <2>1 DEF BillingInv, Copilot!CutOffShowsNoCapacityUnlessAmbiguous,
                Copilot!CutOffShowsNoCapacity
  <2>5. QED
    BY <2>2, <2>3, <2>4 DEF BillingInv
<1>2. CASE Copilot!NewMonth
  <2>1. /\ cutOff' = {} /\ credits' = 0 /\ UNCHANGED <<backing, samples>>
        /\ copilot' = [copilot EXCEPT !.cutOff = {}]
    BY <1>2 DEF Copilot!NewMonth
  <2>2. /\ copilot'.cutOff = {} /\ copilot'.pc = copilot.pc /\ copilot'.user = copilot.user
        /\ copilot'.result = copilot.result /\ BillingTyped'
    BY <2>1 DEF BillingInv, BillingTyped
  <2>3. SeenInv'
    BY <2>1, <2>2 DEF BillingInv, SeenInv, Told
  <2>4. Copilot!CutOffShowsNoCapacityUnlessAmbiguous'
    BY <2>1, <2>2 DEF Copilot!CutOffShowsNoCapacityUnlessAmbiguous, Copilot!CutOffShowsNoCapacity
  <2>5. QED
    BY <2>2, <2>3, <2>4 DEF BillingInv
<1>3. QED
  BY <1>1, <1>2

THEOREM BillingInvariant == Copilot!Spec => []BillingInv
<1>1. Copilot!Init => BillingInv
  <2> SUFFICES ASSUME Copilot!Init PROVE BillingInv
    OBVIOUS
  <2>1. backing \in Snapshots /\ cutOff = {} /\ credits = 0 /\ copilot = Copilot!NoPoll
    BY DEF Copilot!Init
  <2>2. BillingTyped
    BY <2>1, NoUserTyped DEF BillingTyped
  <2>3. SeenInv
    BY <2>1, NoUserTyped DEF SeenInv
  <2>4. Copilot!CutOffShowsNoCapacityUnlessAmbiguous
    BY <2>1, NoUserTyped DEF Copilot!CutOffShowsNoCapacityUnlessAmbiguous,
                             Copilot!CutOffShowsNoCapacity
  <2>5. QED
    BY <2>2, <2>3, <2>4 DEF BillingInv
<1>2. BillingInv /\ [Copilot!Next]_(Copilot!vars) => BillingInv'
  <2> SUFFICES ASSUME BillingInv, [Copilot!Next]_(Copilot!vars) PROVE BillingInv'
    OBVIOUS
  <2>1. CASE UNCHANGED Copilot!vars
    BY <2>1 DEF Copilot!vars, Copilot!account, BillingInv, BillingTyped, SeenInv, Told,
                Copilot!CutOffShowsNoCapacityUnlessAmbiguous, Copilot!CutOffShowsNoCapacity
  <2>2. CASE Copilot!Next
    BY <2>2, AskKept, BillingKept, AccountKept DEF Copilot!Next
  <2>3. QED
    BY <2>1, <2>2
<1>3. QED
  BY <1>1, <1>2, PTL DEF Copilot!Spec

\* A poll of Copilot shows no capacity that GitHub has cut off, for any quotas, shares
\* and allowances: whatever GitHub reports of a quota, whatever the estimate, whatever
\* an earlier poll has stored, and with or without an answer to the second request, while
\* no quota is flagged but the one that the credits are taken from (windowFromQuota,
\* addAICreditWindow, LatestSamples)
THEOREM CutOffShown == CommandSpec => []CutOffShowsNoCapacityUnlessAmbiguous
<1>1. BillingInv => CutOffShowsNoCapacityUnlessAmbiguous
  BY DEF BillingInv, CutOffShowsNoCapacityUnlessAmbiguous
<1>2. QED
  BY <1>1, CommandsAsSpecified, BillingInvariant, PTL

-----------------------------------------------------------------------------
(***************************************************************************)
(* A poll of Antigravity.  A login works by its access token or by its     *)
(* refresh token, and nothing but a new login makes it work again.         *)
(***************************************************************************)
AccessWorks(l) == Antigravity!Accepted(l.access) /\ ~Antigravity!Expired(l)
RefreshWorks(l) == client /\ grant > 0 /\ l.refresh = grant

Logins == [access : Nat, refresh : Nat, expiry : Nat]
PollReasons ==
  {"none", "ok", "empty", "auth_expired", "rate_limited", "server_error", "no_answer",
   "transient", "auth_missing", "unreadable"}

PollRecords ==
  [pc : {"idle", "token", "fetch", "refresh"}, read : [Antigravity!Range(Antigravity!Places) -> Logins],
   candidates : SUBSET (1..4), token : Logins, observed : Nat, retried : BOOLEAN,
   sawAuthExpired : BOOLEAN, lastErr : PollReasons, disturbed : BOOLEAN,
   ticked : BOOLEAN, result : PollReasons]

PollType ==
  /\ now \in Nat
  /\ client \in BOOLEAN
  /\ grant \in Nat
  /\ issued \in Seq(Nat)
  /\ place \in [Antigravity!Range(Antigravity!Places) -> Logins]
  /\ poll \in PollRecords

\* A login comes from Google, and one that the vendor's programs wrote does not
\* say that it ends before its access token does
Genuine(l) ==
  /\ l.access \in 0..Len(issued)
  /\ l.refresh \in 0..grant
  /\ l.access = 0 => l.refresh = 0
  /\ l.access # 0 /\ l.refresh # 0 => l.expiry = 0 \/ issued[l.access] <= l.expiry

LoginsGenuine ==
  \A p \in Antigravity!Range(Antigravity!Places) : Genuine(place[p]) /\ Genuine(poll.read[p])

\* Logins with the same access token, of which a poll tries one, are as good
Agree(f) ==
  \A p, q \in Antigravity!Range(Antigravity!Places) :
    f[p].access = f[q].access /\ f[p].access # 0 =>
      f[p].refresh = f[q].refresh /\ (f[p].refresh = 0 => f[p].expiry = f[q].expiry)

PollTimes ==
  poll.pc # "idle" =>
    /\ poll.observed <= now
    /\ now <= poll.observed + 1
    /\ ~poll.ticked => now = poll.observed

\* A login in the poll's hands is asked for all it can do: a rejected access
\* token is not one that works, and a minted one is good until the poll ends
Minted ==
  /\ poll.token.access \in DOMAIN issued
  /\ issued[poll.token.access] >= poll.observed + Lifetime

InHand(l) ==
  /\ poll.token.refresh = l.refresh
  /\ \/ poll.pc = "refresh" /\ ~AccessWorks(l)
     \/ /\ poll.pc = "fetch"
        /\ AccessWorks(l) => poll.token.access = l.access
        /\ poll.retried /\ RefreshWorks(l) => Minted

Waiting(l) == \E i \in poll.candidates : poll.read[Antigravity!Places[i]].access = l.access

NotForgotten ==
  poll.pc # "idle" /\ ~poll.disturbed =>
    \A p \in Antigravity!Range(Antigravity!Places) :
      Antigravity!Works(poll.read[p]) => Waiting(poll.read[p]) \/ InHand(poll.read[p])

PollInv ==
  /\ PollType
  /\ LoginsGenuine
  /\ Agree(place)
  /\ Agree(poll.read)
  /\ PollTimes
  /\ NotForgotten
  /\ Antigravity!WorkingLoginFound

LEMMA PlaceNames ==
  /\ Antigravity!Range(Antigravity!Places) = {"state_db", "cli", "keychain", "cache"}
  /\ \A i \in 1..4 : Antigravity!Places[i] \in Antigravity!Range(Antigravity!Places)
  /\ \A p \in Antigravity!Range(Antigravity!Places) : \E i \in 1..4 : Antigravity!Places[i] = p
<1>1. DOMAIN Antigravity!Places = 1..4
  BY DEF Antigravity!Places
<1>2. Antigravity!Places[1] = "state_db" /\ Antigravity!Places[2] = "cli"
      /\ Antigravity!Places[3] = "keychain" /\ Antigravity!Places[4] = "cache"
  BY DEF Antigravity!Places
<1>3. \A i \in 1..4 : i = 1 \/ i = 2 \/ i = 3 \/ i = 4
  OBVIOUS
<1>4. \A p : p \in Antigravity!Range(Antigravity!Places) <=> \E i \in 1..4 : p = Antigravity!Places[i]
  BY <1>1 DEF Antigravity!Range
<1>5. QED
  BY <1>2, <1>3, <1>4

\* What a server that is well answers says whether the access token is good
LEMMA OutcomesTellAccess ==
  ASSUME NEW access
  PROVE  \A well \in BOOLEAN :
           /\ Antigravity!Outcomes(access, well) \subseteq PollReasons
           /\ well => \A o \in Antigravity!Outcomes(access, well) :
                        o = IF Antigravity!Accepted(access) THEN "ok" ELSE "auth_expired"
<1> DEFINE all == {"ok", "empty", "auth_expired", "rate_limited", "server_error", "no_answer"}
           said == all \cup {"transient"}
<1>1. \A a, b \in all : Antigravity!Call(a, b) \in said
  BY DEF Antigravity!Call
<1>2. \A i, s, m \in said : Antigravity!SnapshotOutcome(i, s, m) \in said
  BY DEF Antigravity!SnapshotOutcome
<1>3. \A well \in BOOLEAN : Antigravity!Answers(access, well) \subseteq all
  BY DEF Antigravity!Answers
<1>4. \A well \in BOOLEAN : Antigravity!Outcomes(access, well) \subseteq said
  <2> SUFFICES ASSUME NEW well \in BOOLEAN, NEW o \in Antigravity!Outcomes(access, well)
               PROVE  o \in said
    OBVIOUS
  <2>1. PICK i, s, m \in {Antigravity!Call(a, b) : a, b \in Antigravity!Answers(access, well)} :
          o = Antigravity!SnapshotOutcome(i, s, m)
    BY DEF Antigravity!Outcomes
  <2>2. i \in said /\ s \in said /\ m \in said
    BY <1>1, <1>3
  <2>3. QED
    BY <1>2, <2>1, <2>2
<1>5. ASSUME NEW well \in BOOLEAN, well, NEW o \in Antigravity!Outcomes(access, well)
      PROVE  o = IF Antigravity!Accepted(access) THEN "ok" ELSE "auth_expired"
  <2>1. PICK i, s, m \in {Antigravity!Call(a, b) : a, b \in Antigravity!Answers(access, well)} :
          o = Antigravity!SnapshotOutcome(i, s, m)
    BY DEF Antigravity!Outcomes
  <2>2. CASE Antigravity!Accepted(access)
    <3>1. Antigravity!Answers(access, well) = {"ok", "empty"}
      BY <1>5, <2>2 DEF Antigravity!Answers
    <3>2. \A a, b \in {"ok", "empty"} : Antigravity!Call(a, b) \in {"ok", "empty"}
      BY DEF Antigravity!Call
    <3> DEFINE calls == {Antigravity!Call(a, b) : a, b \in Antigravity!Answers(access, well)}
    <3>3. \A c \in calls : c \in {"ok", "empty"}
      BY <3>1, <3>2
    <3>4. i \in {"ok", "empty"} /\ s \in {"ok", "empty"} /\ m \in {"ok", "empty"}
      BY <2>1, <3>3
    <3>5. QED
      BY <2>1, <2>2, <3>4 DEF Antigravity!SnapshotOutcome
  <2>3. CASE ~Antigravity!Accepted(access)
    <3>1. Antigravity!Answers(access, well) = {"auth_expired"}
      BY <1>5, <2>3 DEF Antigravity!Answers
    <3>2. Antigravity!Call("auth_expired", "auth_expired") = "auth_expired"
      BY DEF Antigravity!Call
    <3> DEFINE calls == {Antigravity!Call(a, b) : a, b \in Antigravity!Answers(access, well)}
    <3>3. \A c \in calls : c = "auth_expired"
      BY <3>1, <3>2
    <3>4. i = "auth_expired"
      BY <2>1, <3>3
    <3>5. QED
      BY <2>1, <2>3, <3>4 DEF Antigravity!SnapshotOutcome
  <2>4. QED
    BY <2>2, <2>3
<1>6. said \subseteq PollReasons
  BY DEF PollReasons
<1> HIDE DEF said
<1>7. QED
  BY <1>4, <1>5, <1>6

\* Google: a token is issued, time goes on, or a new login ends all there is
Moves ==
  /\ client' = client
  /\ now' >= now
  /\ grant' \in {grant, grant + 1}
  /\ Len(issued') >= Len(issued)
  /\ \A i \in 1..Len(issued) : issued'[i] = issued[i] \/ issued'[i] = 0
  /\ grant' = grant => \A i \in 1..Len(issued) : issued'[i] = issued[i]

LEMMA GoogleMoves ==
  ASSUME PollType, [Antigravity!Next]_(Antigravity!vars)
  PROVE  Moves
<1> USE DEF PollType
<1>1. CASE UNCHANGED <<now, client, grant, issued>>
  BY <1>1 DEF Moves
<1>2. ASSUME client' = client, now' = now, grant' = grant,
             issued' = Append(issued, now + Lifetime)
      PROVE  Moves
  BY <1>2, CommandLineAssumption DEF Moves
<1>3. ASSUME NEW program \in {"ide", "agy"}, Antigravity!VendorRefreshes(program)
      PROVE  Moves
  BY <1>2, <1>3 DEF Antigravity!VendorRefreshes
<1>4. ASSUME NEW program \in {"ide", "agy"}, Antigravity!VendorLogsIn(program)
      PROVE  Moves
  <2>1. PICK e \in Seq(Nat) : e = [i \in DOMAIN issued |-> 0] /\ Len(e) = Len(issued)
    <3>1. [i \in DOMAIN issued |-> 0] = [i \in 1..Len(issued) |-> 0]
      OBVIOUS
    <3>2. [i \in 1..Len(issued) |-> 0] \in Seq(Nat)
      OBVIOUS
    <3>3. Len([i \in 1..Len(issued) |-> 0]) = Len(issued)
      OBVIOUS
    <3>4. QED
      BY <3>1, <3>2, <3>3
  <2>2. issued' = Append(e, now + Lifetime) /\ grant' = grant + 1 /\ now' = now
        /\ client' = client
    BY <1>4, <2>1 DEF Antigravity!VendorLogsIn
  <2>3. Len(issued') = Len(issued) + 1 /\ \A i \in 1..Len(issued) : issued'[i] = 0
    <3>1. \A i \in 1..Len(issued) : e[i] = 0
      BY <2>1
    <3>2. now + Lifetime \in Nat
      BY CommandLineAssumption
    <3>3. QED
      BY <2>1, <2>2, <3>1, <3>2
  <2>4. QED
    BY <2>2, <2>3 DEF Moves
<1>5. CASE Antigravity!Tick
  BY <1>5 DEF Antigravity!Tick, Antigravity!google, Moves
<1>6. CASE Antigravity!RefreshSucceeds
  BY <1>2, <1>6 DEF Antigravity!RefreshSucceeds
<1>7. CASE Antigravity!Begin \/ Antigravity!NextToken \/ Antigravity!NoMoreTokens
           \/ Antigravity!FetchSnapshot \/ Antigravity!RefreshRefused \/ Antigravity!RefreshLost
  BY <1>1, <1>7 DEF Antigravity!Begin, Antigravity!NextToken, Antigravity!NoMoreTokens,
    Antigravity!FetchSnapshot, Antigravity!RefreshRefused, Antigravity!RefreshLost,
    Antigravity!google
<1>8. CASE UNCHANGED Antigravity!vars
  BY <1>1, <1>8 DEF Antigravity!vars, Antigravity!google
<1>9. QED
  BY <1>3, <1>4, <1>5, <1>6, <1>7, <1>8 DEF Antigravity!Next

\* A request that is answered ends the poll, or lets it refresh the login, or
\* go on to the next one
LEMMA SnapshotCases ==
  ASSUME PollType, Antigravity!FetchSnapshot
  PROVE  /\ poll.pc = "fetch"
         /\ UNCHANGED <<now, client, grant, issued, place>>
         /\ poll' \in PollRecords
         /\ poll'.read = poll.read /\ poll'.candidates = poll.candidates
         /\ poll'.token = poll.token /\ poll'.observed = poll.observed
         /\ poll'.ticked = poll.ticked
         /\ ~poll'.disturbed => ~poll.disturbed
         /\ \/ poll'.pc = "idle" /\ poll'.result = "ok"
            \/ /\ poll'.pc = "refresh" /\ poll'.retried
               /\ ~poll'.disturbed => ~Antigravity!Accepted(poll.token.access)
            \/ /\ poll'.pc = "token" /\ poll.retried
               /\ ~poll'.disturbed => ~Antigravity!Accepted(poll.token.access)
            \/ poll'.pc = "token" /\ poll'.disturbed
<1> USE DEF PollType, PollRecords
<1>1. poll.pc = "fetch" /\ UNCHANGED <<now, client, grant, issued, place>>
  BY DEF Antigravity!FetchSnapshot, Antigravity!google
<1>2. PICK well \in BOOLEAN :
        \E outcome \in Antigravity!Outcomes(poll.token.access, TRUE) \cup Antigravity!Outcomes(poll.token.access, FALSE) :
          /\ outcome \in Antigravity!Outcomes(poll.token.access, well)
          /\ poll' =
               LET p == [poll EXCEPT !.disturbed = @ \/ ~well]
               IN  CASE outcome = "ok" -> [p EXCEPT !.pc = "idle", !.result = "ok"]
                     [] outcome = "auth_expired" /\ ~poll.retried ->
                          [p EXCEPT !.pc = "refresh", !.retried = TRUE]
                     [] OTHER -> [p EXCEPT !.pc = "token", !.lastErr = outcome]
  BY DEF Antigravity!FetchSnapshot
<1>3. PICK outcome :
        /\ outcome \in Antigravity!Outcomes(poll.token.access, well)
        /\ poll' =
             LET p == [poll EXCEPT !.disturbed = @ \/ ~well]
             IN  CASE outcome = "ok" -> [p EXCEPT !.pc = "idle", !.result = "ok"]
                   [] outcome = "auth_expired" /\ ~poll.retried ->
                        [p EXCEPT !.pc = "refresh", !.retried = TRUE]
                   [] OTHER -> [p EXCEPT !.pc = "token", !.lastErr = outcome]
  BY <1>2
<1>4. PICK access : access = poll.token.access
  OBVIOUS
<1>5. outcome \in PollReasons
        /\ (well => outcome = IF Antigravity!Accepted(access) THEN "ok" ELSE "auth_expired")
  BY <1>3, <1>4, OutcomesTellAccess
<1>6. PICK p : p = [poll EXCEPT !.disturbed = @ \/ ~well]
  OBVIOUS
<1>7. /\ p \in PollRecords /\ (~p.disturbed => ~poll.disturbed /\ well)
      /\ (p.disturbed <=> poll.disturbed \/ ~well)
      /\ p.read = poll.read /\ p.candidates = poll.candidates /\ p.retried = poll.retried
      /\ p.token = poll.token /\ p.observed = poll.observed /\ p.ticked = poll.ticked
  BY <1>6 DEF PollRecords
<1>8. poll' = CASE outcome = "ok" -> [p EXCEPT !.pc = "idle", !.result = "ok"]
                [] outcome = "auth_expired" /\ ~poll.retried ->
                     [p EXCEPT !.pc = "refresh", !.retried = TRUE]
                [] OTHER -> [p EXCEPT !.pc = "token", !.lastErr = outcome]
  BY <1>3, <1>6
<1>9. CASE outcome = "ok"
  <2>1. poll' = [p EXCEPT !.pc = "idle", !.result = "ok"]
    BY <1>8, <1>9
  <2>2. poll' \in PollRecords
    BY <1>7, <2>1 DEF PollRecords, PollReasons
  <2>3. poll'.pc = "idle" /\ poll'.result = "ok"
    BY <1>7, <2>1 DEF PollRecords
  <2>4. QED
    BY <1>1, <1>7, <2>1, <2>2, <2>3 DEF PollRecords
<1>10. CASE outcome = "auth_expired" /\ ~poll.retried
  <2>1. poll' = [p EXCEPT !.pc = "refresh", !.retried = TRUE]
    BY <1>8, <1>10
  <2>2. poll' \in PollRecords
    BY <1>7, <2>1 DEF PollRecords
  <2>3. poll'.pc = "refresh" /\ poll'.retried /\ poll'.disturbed = p.disturbed
    BY <1>7, <2>1 DEF PollRecords
  <2>4. ~poll'.disturbed => ~Antigravity!Accepted(poll.token.access)
    BY <1>4, <1>5, <1>7, <1>10, <2>3
  <2>5. QED
    BY <1>1, <1>7, <2>1, <2>2, <2>3, <2>4 DEF PollRecords
<1>11. CASE outcome # "ok" /\ ~(outcome = "auth_expired" /\ ~poll.retried)
  <2>1. poll' = [p EXCEPT !.pc = "token", !.lastErr = outcome]
    BY <1>8, <1>11
  <2>2. poll' \in PollRecords
    BY <1>5, <1>7, <2>1 DEF PollRecords
  <2>3. poll'.pc = "token" /\ poll'.disturbed = p.disturbed
    BY <1>7, <2>1 DEF PollRecords
  <2>4. poll'.disturbed \/ (poll.retried /\ ~Antigravity!Accepted(poll.token.access))
    BY <1>4, <1>5, <1>7, <1>11, <2>3
  <2>5. QED
    BY <1>1, <1>7, <2>1, <2>2, <2>3, <2>4 DEF PollRecords
<1>12. QED
  BY <1>9, <1>10, <1>11

\* What a program writes when Google issues the access token n, which ends at
\* the instant end: with the refresh token r, or without one and with expiry e
WrittenNow(l, n, end, r, e) ==
  /\ l.access = n
  /\ l.refresh = r
  /\ IF r = 0 THEN l.expiry = e ELSE l.expiry = 0 \/ end <= l.expiry

LEMMA PlaceAfter ==
  ASSUME PollType, Antigravity!Next
  PROVE  /\ place' \in [Antigravity!Range(Antigravity!Places) -> Logins]
         /\ \/ place' = place
            \/ /\ Len(issued') = Len(issued) + 1
               /\ \E r \in 0..grant', e \in Nat : \A p \in Antigravity!Range(Antigravity!Places) :
                    \/ place'[p] = place[p]
                    \/ WrittenNow(place'[p], Len(issued) + 1, issued'[Len(issued) + 1], r, e)
<1> USE DEF PollType, PollRecords
<1> DEFINE Goal ==
      /\ place' \in [Antigravity!Range(Antigravity!Places) -> Logins]
      /\ Len(issued') = Len(issued) + 1
      /\ \E r \in 0..grant', e \in Nat : \A p \in Antigravity!Range(Antigravity!Places) :
           \/ place'[p] = place[p]
           \/ WrittenNow(place'[p], Len(issued) + 1, issued'[Len(issued) + 1], r, e)
<1>1. ASSUME NEW program \in {"ide", "agy"}, NEW g \in Nat, g # 0, grant' \in Nat, g <= grant',
             Antigravity!Writes(program, Antigravity!NewToken, g), Len(issued') = Len(issued) + 1,
             issued'[Len(issued) + 1] = now + Lifetime
      PROVE  Goal
  <2>1. PICK l : l = Antigravity!Login(Antigravity!NewToken, g, now + Lifetime)
    OBVIOUS
  <2>2. PICK k : k = Antigravity!Login(Antigravity!NewToken, g, 0)
    OBVIOUS
  <2>3. l \in Logins /\ k \in Logins
    BY <2>1, <2>2, CommandLineAssumption DEF Antigravity!Login, Logins, Antigravity!NewToken
  <2>4. PICK end \in Nat : end = now + Lifetime
    BY CommandLineAssumption
  <2>5. WrittenNow(l, Len(issued) + 1, end, g, 0) /\ WrittenNow(k, Len(issued) + 1, end, g, 0)
    BY <1>1, <2>1, <2>2, <2>4 DEF WrittenNow, Antigravity!Login, Antigravity!NewToken
  <2>6. /\ place' \in [Antigravity!Range(Antigravity!Places) -> Logins]
        /\ \A p \in Antigravity!Range(Antigravity!Places) : place'[p] \in {place[p], l, k}
    <3>1. CASE program = "ide"
      <4>1. place' = [place EXCEPT !["state_db"] = l]
        BY <1>1, <2>1, <3>1 DEF Antigravity!Writes
      <4>2. QED
        BY <2>3, <4>1
    <3>2. CASE program = "agy"
      <4>1. place' = [place EXCEPT !["cli"] = l, !["keychain"] = k]
        BY <1>1, <2>1, <2>2, <3>2 DEF Antigravity!Writes
      <4>2. QED
        BY <2>3, <4>1
    <3>3. QED
      BY <3>1, <3>2
  <2>7. g \in 0..grant'
    BY <1>1
  <2>8. QED
    BY <1>1, <2>4, <2>5, <2>6, <2>7
<1>2. ASSUME NEW program \in {"ide", "agy"}, Antigravity!VendorRefreshes(program)
      PROVE  /\ Antigravity!Writes(program, Antigravity!NewToken, grant)
             /\ grant # 0 /\ grant' = grant
             /\ Len(issued') = Len(issued) + 1 /\ issued'[Len(issued) + 1] = now + Lifetime
  BY <1>2, CommandLineAssumption DEF Antigravity!VendorRefreshes
<1>3. ASSUME NEW program \in {"ide", "agy"}, Antigravity!VendorLogsIn(program)
      PROVE  /\ Antigravity!Writes(program, Antigravity!NewToken, grant + 1) /\ grant' = grant + 1
             /\ Len(issued') = Len(issued) + 1 /\ issued'[Len(issued) + 1] = now + Lifetime
  <2>1. PICK e \in Seq(Nat) : e = [i \in DOMAIN issued |-> 0] /\ Len(e) = Len(issued)
    <3>1. [i \in DOMAIN issued |-> 0] = [i \in 1..Len(issued) |-> 0]
      OBVIOUS
    <3>2. [i \in 1..Len(issued) |-> 0] \in Seq(Nat)
      OBVIOUS
    <3>3. Len([i \in 1..Len(issued) |-> 0]) = Len(issued)
      OBVIOUS
    <3>4. QED
      BY <3>1, <3>2, <3>3
  <2>2. issued' = Append(e, now + Lifetime)
    BY <1>3, <2>1 DEF Antigravity!VendorLogsIn
  <2>3. now + Lifetime \in Nat
    BY CommandLineAssumption
  <2>4. Len(issued') = Len(issued) + 1 /\ issued'[Len(issued) + 1] = now + Lifetime
    BY <2>1, <2>2, <2>3
  <2>5. QED
    BY <1>3, <2>4 DEF Antigravity!VendorLogsIn
<1>4. ASSUME Antigravity!RefreshSucceeds
      PROVE  Goal
  <2>1. PICK e \in Nat : e = poll.observed + Lifetime
    BY CommandLineAssumption
  <2>2. PICK l : l = Antigravity!Login(Antigravity!NewToken, 0, e)
    OBVIOUS
  <2>3. l \in Logins
    BY <2>2 DEF Antigravity!Login, Logins, Antigravity!NewToken
  <2>4. /\ place' = [place EXCEPT !["cache"] = l] /\ grant' = grant
        /\ Len(issued') = Len(issued) + 1
    BY <1>4, <2>1, <2>2, CommandLineAssumption DEF Antigravity!RefreshSucceeds
  <2>5. WrittenNow(l, Len(issued) + 1, issued'[Len(issued) + 1], 0, e)
    BY <2>2 DEF WrittenNow, Antigravity!Login, Antigravity!NewToken
  <2>6. 0 \in 0..grant'
    BY <2>4
  <2>7. QED
    BY <2>1, <2>3, <2>4, <2>5, <2>6
<1>5. CASE Antigravity!Tick \/ Antigravity!Begin \/ Antigravity!NextToken
           \/ Antigravity!NoMoreTokens \/ Antigravity!FetchSnapshot \/ Antigravity!RefreshRefused \/ Antigravity!RefreshLost
  BY <1>5 DEF Antigravity!Tick, Antigravity!Begin, Antigravity!NextToken,
    Antigravity!NoMoreTokens, Antigravity!FetchSnapshot, Antigravity!RefreshRefused,
    Antigravity!RefreshLost
<1>6. ASSUME NEW program \in {"ide", "agy"}, Antigravity!VendorRefreshes(program)
      PROVE  Goal
  <2>1. grant <= grant' /\ grant' \in Nat
    BY <1>2, <1>6
  <2>2. QED
    BY <1>1, <1>2, <1>6, <2>1
<1>7. ASSUME NEW program \in {"ide", "agy"}, Antigravity!VendorLogsIn(program)
      PROVE  Goal
  <2>1. PICK g \in Nat : g = grant + 1 /\ g # 0
    OBVIOUS
  <2>2. g <= grant' /\ grant' \in Nat /\ Antigravity!Writes(program, Antigravity!NewToken, g)
    BY <1>3, <1>7, <2>1
  <2>3. QED
    BY <1>1, <1>3, <1>7, <2>1, <2>2
<1>8. QED
  BY <1>4, <1>5, <1>6, <1>7 DEF Antigravity!Next

\* A refresh that fails, for whatever reason, leads to the next login
LEMMA RefreshFailsCases ==
  ASSUME PollType, Antigravity!RefreshRefused \/ Antigravity!RefreshLost
  PROVE  /\ poll.pc = "refresh"
         /\ UNCHANGED <<now, client, grant, issued, place>>
         /\ poll' \in PollRecords
         /\ poll'.pc = "token"
         /\ poll'.read = poll.read /\ poll'.candidates = poll.candidates
         /\ poll'.observed = poll.observed /\ poll'.ticked = poll.ticked
         /\ ~poll'.disturbed => ~poll.disturbed /\ ~RefreshWorks(poll.token)
<1>1. poll \in PollRecords
  BY DEF PollType
<1>2. CASE Antigravity!RefreshRefused
  <2>1. PICK d \in BOOLEAN : d = (poll.disturbed \/ FALSE)
    OBVIOUS
  <2>2. poll' = [poll EXCEPT !.pc = "token", !.sawAuthExpired = TRUE,
                             !.lastErr = "auth_expired", !.disturbed = d]
    BY <1>2, <2>1, Zenon DEF Antigravity!RefreshRefused, Antigravity!RefreshFails
  <2>3. ~RefreshWorks(poll.token)
    BY <1>2 DEF Antigravity!RefreshRefused, RefreshWorks, PollType
  <2>4. d <=> poll.disturbed
    BY <1>1, <2>1 DEF PollRecords
  <2>5. poll.pc = "refresh" /\ UNCHANGED <<now, client, grant, issued, place>>
    BY <1>2 DEF Antigravity!RefreshRefused, Antigravity!google
  <2>6. QED
    BY <1>1, <2>2, <2>3, <2>4, <2>5 DEF PollRecords, PollReasons
<1>3. CASE Antigravity!RefreshLost
  <2>1. PICK d \in BOOLEAN : d = (poll.disturbed \/ TRUE)
    OBVIOUS
  <2>2. poll' = [poll EXCEPT !.pc = "token", !.sawAuthExpired = TRUE,
                             !.lastErr = "transient", !.disturbed = d]
    BY <1>3, <2>1, Zenon DEF Antigravity!RefreshLost, Antigravity!RefreshFails
  <2>3. poll.pc = "refresh" /\ UNCHANGED <<now, client, grant, issued, place>>
    BY <1>3 DEF Antigravity!RefreshLost, Antigravity!google
  <2>4. QED
    BY <1>1, <2>1, <2>2, <2>3 DEF PollRecords, PollReasons
<1>4. QED
  BY <1>2, <1>3

\* The next login is the first one left
LEMMA NextTokenCases ==
  ASSUME PollType, Antigravity!NextToken
  PROVE  \E i \in 1..4, l \in Logins :
           /\ poll.pc = "token"
           /\ UNCHANGED <<now, client, grant, issued, place>>
           /\ i \in poll.candidates /\ l = poll.read[Antigravity!Places[i]]
           /\ poll' \in PollRecords
           /\ poll'.pc = IF Antigravity!Expired(l) THEN "refresh" ELSE "fetch"
           /\ poll'.candidates = poll.candidates \ {i} /\ poll'.token = l /\ ~poll'.retried
           /\ poll'.read = poll.read /\ poll'.observed = poll.observed
           /\ poll'.ticked = poll.ticked /\ poll'.disturbed = poll.disturbed
<1>1. poll \in PollRecords
  BY DEF PollType
<1>2. PICK i \in poll.candidates :
        \E l : /\ l = poll.read[Antigravity!Places[i]]
              /\ poll' = [poll EXCEPT !.pc = IF Antigravity!Expired(l) THEN "refresh" ELSE "fetch",
                                      !.candidates = @ \ {i}, !.token = l, !.retried = FALSE]
  BY DEF Antigravity!NextToken
<1>3. PICK l : /\ l = poll.read[Antigravity!Places[i]]
               /\ poll' = [poll EXCEPT !.pc = IF Antigravity!Expired(l) THEN "refresh" ELSE "fetch",
                                       !.candidates = @ \ {i}, !.token = l, !.retried = FALSE]
  BY <1>2
<1>4. i \in 1..4 /\ l \in Logins
  BY <1>1, <1>3, PlaceNames DEF PollRecords
<1>5. PICK pc \in {"refresh", "fetch"} : pc = IF Antigravity!Expired(l) THEN "refresh" ELSE "fetch"
  OBVIOUS
<1>6. poll' = [poll EXCEPT !.pc = pc, !.candidates = @ \ {i}, !.token = l, !.retried = FALSE]
  BY <1>3, <1>5
<1>7. poll.pc = "token" /\ UNCHANGED <<now, client, grant, issued, place>>
  BY DEF Antigravity!NextToken, Antigravity!google
<1>8. /\ poll' \in PollRecords
      /\ poll'.pc = pc
      /\ poll'.candidates = poll.candidates \ {i} /\ poll'.token = l /\ ~poll'.retried
      /\ poll'.read = poll.read /\ poll'.observed = poll.observed
      /\ poll'.ticked = poll.ticked /\ poll'.disturbed = poll.disturbed
  BY <1>1, <1>4, <1>6 DEF PollRecords
<1>9. QED
  BY <1>3, <1>4, <1>5, <1>7, <1>8

\* A poll begins with all that it reads, or does not begin
LEMMA BeginCases ==
  ASSUME PollType, Antigravity!Begin
  PROVE  /\ UNCHANGED <<now, client, grant, issued, place>>
         /\ poll' \in PollRecords
         /\ \/ poll'.pc = "idle" /\ poll'.disturbed
            \/ /\ poll'.pc = "token"
               /\ poll'.observed = now
               /\ poll'.read = place
               /\ poll'.candidates = Antigravity!TokenCandidates
<1>1. Antigravity!NoPoll \in PollRecords /\ Antigravity!NoPoll.pc = "idle"
  BY DEF Antigravity!NoPoll, PollRecords, Antigravity!NoLogin, Logins, PollReasons
<1>2. Antigravity!TokenCandidates \in SUBSET (1..4)
  BY DEF Antigravity!TokenCandidates
<1>3. now \in Nat /\ place \in [Antigravity!Range(Antigravity!Places) -> Logins]
  BY DEF PollType
<1>4. CASE poll' = [Antigravity!NoPoll EXCEPT !.result = "unreadable", !.disturbed = TRUE]
  BY <1>1, <1>4 DEF PollRecords, PollReasons, Antigravity!Begin, Antigravity!google
<1>5. CASE poll' = [Antigravity!NoPoll EXCEPT !.pc = "token", !.observed = now, !.read = place,
                                  !.candidates = Antigravity!TokenCandidates]
  BY <1>1, <1>2, <1>3, <1>5 DEF PollRecords, Antigravity!Begin, Antigravity!google
<1>6. QED
  BY <1>4, <1>5 DEF Antigravity!Begin

LEMMA PollTyped ==
  ASSUME PollType, [Antigravity!Next]_(Antigravity!vars)
  PROVE  PollType'
<1>0. /\ now \in Nat /\ client \in BOOLEAN /\ grant \in Nat /\ issued \in Seq(Nat)
      /\ place \in [Antigravity!Range(Antigravity!Places) -> Logins] /\ poll \in PollRecords
  BY DEF PollType
<1>1. Moves
  BY GoogleMoves
<1>2. grant' \in Nat /\ client' \in BOOLEAN
  BY <1>0, <1>1 DEF Moves
<1>3. place' \in [Antigravity!Range(Antigravity!Places) -> Logins]
  <2>1. CASE Antigravity!Next
    BY <2>1, PlaceAfter
  <2>2. CASE UNCHANGED Antigravity!vars
    BY <1>0, <2>2 DEF Antigravity!vars
  <2>3. QED
    BY <1>0, <2>1, <2>2
<1>4. now' \in Nat /\ issued' \in Seq(Nat)
  <2>1. ASSUME issued' = Append(issued, now + Lifetime), now' = now
        PROVE  now' \in Nat /\ issued' \in Seq(Nat)
    BY <1>0, <2>1, CommandLineAssumption
  <2>2. CASE \E program \in {"ide", "agy"} : Antigravity!VendorRefreshes(program)
    BY <1>0, <2>1, <2>2 DEF Antigravity!VendorRefreshes
  <2>3. CASE \E program \in {"ide", "agy"} : Antigravity!VendorLogsIn(program)
    <3>1. PICK e \in Seq(Nat) : e = [i \in DOMAIN issued |-> 0]
      <4>1. [i \in DOMAIN issued |-> 0] = [i \in 1..Len(issued) |-> 0]
        BY <1>0
      <4>2. [i \in 1..Len(issued) |-> 0] \in Seq(Nat)
        BY <1>0
      <4>3. QED
        BY <4>1, <4>2
    <3>2. issued' = Append(e, now + Lifetime) /\ now' = now
      BY <1>0, <2>3, <3>1 DEF Antigravity!VendorLogsIn
    <3>3. QED
      BY <1>0, <3>2, CommandLineAssumption
  <2>4. CASE Antigravity!Tick
    BY <1>0, <2>4 DEF Antigravity!Tick, Antigravity!google
  <2>5. CASE Antigravity!RefreshSucceeds
    BY <1>0, <2>1, <2>5 DEF Antigravity!RefreshSucceeds
  <2>6. CASE Antigravity!Begin \/ Antigravity!NextToken \/ Antigravity!NoMoreTokens
             \/ Antigravity!FetchSnapshot \/ Antigravity!RefreshRefused \/ Antigravity!RefreshLost
    BY <1>0, <2>6 DEF Antigravity!Begin, Antigravity!NextToken, Antigravity!NoMoreTokens,
      Antigravity!FetchSnapshot, Antigravity!RefreshRefused, Antigravity!RefreshLost,
      Antigravity!google
  <2>7. CASE UNCHANGED Antigravity!vars
    BY <1>0, <2>7 DEF Antigravity!vars, Antigravity!google
  <2>8. QED
    BY <1>0, <2>2, <2>3, <2>4, <2>5, <2>6, <2>7 DEF Antigravity!Next
<1>5. poll' \in PollRecords
  <2>1. CASE \E program \in {"ide", "agy"} : Antigravity!VendorRefreshes(program)
             \/ Antigravity!VendorLogsIn(program)
    BY <1>0, <2>1 DEF Antigravity!VendorRefreshes, Antigravity!VendorLogsIn
  <2>2. CASE Antigravity!Tick
    BY <1>0, <2>2 DEF Antigravity!Tick, PollRecords
  <2>3. CASE Antigravity!Begin
    BY <2>3, BeginCases
  <2>4. CASE Antigravity!NextToken
    BY <2>4, NextTokenCases
  <2>5. CASE Antigravity!NoMoreTokens
    BY <1>0, <2>5 DEF Antigravity!NoMoreTokens, Antigravity!Idle, PollRecords, PollReasons
  <2>6. CASE Antigravity!FetchSnapshot
    BY <2>6, SnapshotCases
  <2>7. CASE Antigravity!RefreshRefused \/ Antigravity!RefreshLost
    BY <2>7, RefreshFailsCases
  <2>8. CASE Antigravity!RefreshSucceeds
    <3>1. PICK l : l = Antigravity!Login(Antigravity!NewToken, poll.token.refresh, poll.observed + Lifetime)
      OBVIOUS
    <3>2. l \in Logins
      BY <1>0, <3>1, CommandLineAssumption DEF Antigravity!Login, Logins, Antigravity!NewToken,
        PollRecords
    <3>3. poll' = [poll EXCEPT !.pc = "fetch", !.token = l]
      BY <1>0, <2>8, <3>1 DEF Antigravity!RefreshSucceeds
    <3>4. QED
      BY <1>0, <3>2, <3>3 DEF PollRecords
  <2>9. CASE UNCHANGED Antigravity!vars
    BY <1>0, <2>9 DEF Antigravity!vars
  <2>10. QED
    BY <1>0, <2>1, <2>2, <2>3, <2>4, <2>5, <2>6, <2>7, <2>8, <2>9 DEF Antigravity!Next
<1>6. QED
  BY <1>2, <1>3, <1>4, <1>5 DEF PollType

LEMMA ReadAfter ==
  ASSUME PollType, [Antigravity!Next]_(Antigravity!vars)
  PROVE  \/ poll'.read = poll.read
         \/ poll'.read = place
         \/ poll'.read = [p \in Antigravity!Range(Antigravity!Places) |-> Antigravity!NoLogin]
<1>0. poll \in PollRecords
  BY DEF PollType
<1>1. CASE Antigravity!Begin
  BY <1>1 DEF Antigravity!Begin, Antigravity!NoPoll
<1>2. CASE \E program \in {"ide", "agy"} : Antigravity!VendorRefreshes(program)
           \/ Antigravity!VendorLogsIn(program)
  BY <1>2 DEF Antigravity!VendorRefreshes, Antigravity!VendorLogsIn
<1>3. CASE Antigravity!Tick \/ Antigravity!NextToken \/ Antigravity!NoMoreTokens
  BY <1>0, <1>3 DEF PollRecords, Antigravity!Tick, Antigravity!NextToken,
    Antigravity!NoMoreTokens, Antigravity!Idle
<1>4. CASE Antigravity!RefreshRefused \/ Antigravity!RefreshLost \/ Antigravity!RefreshSucceeds
  BY <1>0, <1>4 DEF PollRecords, Antigravity!RefreshRefused, Antigravity!RefreshLost,
    Antigravity!RefreshSucceeds, Antigravity!RefreshFails
<1>5. CASE UNCHANGED Antigravity!vars
  BY <1>5 DEF Antigravity!vars
<1>6. CASE Antigravity!FetchSnapshot
  BY <1>6, SnapshotCases
<1>7. QED
  BY <1>1, <1>2, <1>3, <1>4, <1>5, <1>6 DEF Antigravity!Next

\* A login stays genuine whatever Google does
LEMMA StaysGenuine ==
  ASSUME PollType, PollType', Moves, NEW l \in Logins, Genuine(l)
  PROVE  Genuine(l)'
<1>1. l.access \in 0..Len(issued') /\ l.refresh \in 0..grant'
  BY DEF Moves, Genuine, PollType
<1>2. ASSUME l.access # 0, l.refresh # 0
      PROVE  l.expiry = 0 \/ issued'[l.access] <= l.expiry
  <2>1. l.access \in 1..Len(issued)
    BY <1>2 DEF Genuine, PollType
  <2>2. CASE issued'[l.access] = 0
    BY <2>2 DEF Logins
  <2>3. CASE issued'[l.access] = issued[l.access]
    BY <1>2, <2>3 DEF Genuine
  <2>4. QED
    BY <2>1, <2>2, <2>3 DEF Moves
<1>3. QED
  BY <1>1, <1>2 DEF Genuine

LEMMA LoginsStep ==
  ASSUME PollType, PollType', LoginsGenuine, Agree(place), Agree(poll.read),
         [Antigravity!Next]_(Antigravity!vars)
  PROVE  LoginsGenuine' /\ Agree(place') /\ Agree(poll'.read)
<1>1. Moves
  BY GoogleMoves
<1>2. \A p \in Antigravity!Range(Antigravity!Places) : place[p] \in Logins
      /\ poll.read[p] \in Logins
  BY DEF PollType, PollRecords
<1>3. ASSUME NEW p \in Antigravity!Range(Antigravity!Places)
      PROVE  Genuine(place[p])'
  <2>1. PICK l \in Logins : l = place'[p]
    BY DEF PollType
  <2>2. CASE place'[p] = place[p]
    <3>1. Genuine(l)
      BY <2>1, <2>2, <1>3 DEF LoginsGenuine
    <3>2. Genuine(l)'
      BY <1>1, <3>1, StaysGenuine
    <3>3. QED
      BY <2>1, <3>2
  <2>3. CASE ~(place'[p] = place[p])
    <3>1. Antigravity!Next
      BY <2>3 DEF Antigravity!vars
    <3>2. PICK r \in 0..grant', e \in Nat :
            WrittenNow(place'[p], Len(issued) + 1, issued'[Len(issued) + 1], r, e)
      BY <2>3, <3>1, PlaceAfter
    <3>3. Len(issued') = Len(issued) + 1
      BY <2>3, <3>1, PlaceAfter
    <3>4. QED
      BY <3>2, <3>3 DEF WrittenNow, Genuine, PollType
  <2>4. QED
    BY <2>2, <2>3
<1>30. ASSUME NEW p \in Antigravity!Range(Antigravity!Places)
       PROVE  Genuine(poll.read[p])'
  <2>1. PICK l \in Logins : l = poll'.read[p]
    BY DEF PollType, PollRecords
  <2>2. CASE poll'.read = poll.read \/ poll'.read = place
    <3>1. Genuine(l)
      BY <2>1, <2>2, <1>30 DEF LoginsGenuine
    <3>2. Genuine(l)'
      BY <1>1, <3>1, StaysGenuine
    <3>3. QED
      BY <2>1, <3>2
  <2>3. CASE poll'.read = [q \in Antigravity!Range(Antigravity!Places) |-> Antigravity!NoLogin]
    <3>1. poll'.read[p] = Antigravity!NoLogin
      BY <2>3
    <3>2. QED
      BY <3>1 DEF Genuine, Antigravity!NoLogin, PollType
  <2>4. QED
    BY <2>2, <2>3, ReadAfter
<1>4. Agree(place')
  <2>1. CASE place' = place
    BY <2>1
  <2>2. CASE ~(place' = place)
    <3>1. Antigravity!Next
      BY <2>2 DEF Antigravity!vars
    <3>2. PICK r \in 0..grant', e \in Nat : \A p \in Antigravity!Range(Antigravity!Places) :
            \/ place'[p] = place[p]
            \/ WrittenNow(place'[p], Len(issued) + 1, issued'[Len(issued) + 1], r, e)
      BY <2>2, <3>1, PlaceAfter
    <3>3. \A p \in Antigravity!Range(Antigravity!Places) : place[p].access < Len(issued) + 1
      BY DEF LoginsGenuine, Genuine, PollType
    <3>4. QED
      BY <3>2, <3>3 DEF Agree, WrittenNow
  <2>3. QED
    BY <2>1, <2>2
<1>5. Agree(poll'.read)
  <2>1. CASE poll'.read = [q \in Antigravity!Range(Antigravity!Places) |-> Antigravity!NoLogin]
    BY <2>1 DEF Agree
  <2>2. QED
    BY <2>1, ReadAfter
<1>6. QED
  BY <1>3, <1>30, <1>4, <1>5 DEF LoginsGenuine

LEMMA TimesStep ==
  ASSUME PollType, PollTimes, [Antigravity!Next]_(Antigravity!vars)
  PROVE  PollTimes'
<1>0. now \in Nat /\ poll \in PollRecords
  BY DEF PollType
<1>01. PollTimes
  OBVIOUS
<1>1. CASE \E program \in {"ide", "agy"} : Antigravity!VendorRefreshes(program)
           \/ Antigravity!VendorLogsIn(program)
  BY <1>0, <1>01, <1>1 DEF PollRecords, PollTimes, Antigravity!VendorRefreshes,
    Antigravity!VendorLogsIn
<1>2. CASE Antigravity!Tick
  BY <1>0, <1>01, <1>2 DEF PollRecords, PollTimes, Antigravity!Tick
<1>3. CASE Antigravity!Begin
  <2>1. CASE poll'.pc = "idle"
    BY <2>1 DEF PollTimes
  <2>2. CASE ~(poll'.pc = "idle")
    <3>1. poll'.observed = now /\ now' = now
      BY <1>3, <2>2, BeginCases
    <3>2. QED
      BY <1>0, <3>1 DEF PollTimes
  <2>3. QED
    BY <2>1, <2>2
<1>4. CASE Antigravity!NextToken \/ Antigravity!NoMoreTokens
  <2>1. CASE Antigravity!NextToken
    BY <1>01, <2>1, NextTokenCases DEF PollTimes
  <2>2. CASE Antigravity!NoMoreTokens
    BY <1>0, <2>2 DEF PollTimes, PollRecords, Antigravity!NoMoreTokens, Antigravity!Idle
  <2>3. QED
    BY <1>4, <2>1, <2>2
<1>5. CASE Antigravity!FetchSnapshot
  BY <1>01, <1>5, SnapshotCases DEF PollTimes
<1>6. CASE Antigravity!RefreshRefused \/ Antigravity!RefreshLost
  BY <1>01, <1>6, RefreshFailsCases DEF PollTimes
<1>7. CASE Antigravity!RefreshSucceeds
  BY <1>0, <1>01, <1>7 DEF PollRecords, PollTimes, Antigravity!RefreshSucceeds
<1>8. CASE UNCHANGED Antigravity!vars
  BY <1>0, <1>01, <1>8 DEF PollRecords, PollTimes, Antigravity!vars
<1>9. QED
  BY <1>1, <1>2, <1>3, <1>4, <1>5, <1>6, <1>7, <1>8 DEF Antigravity!Next

\* A login that does not work will not, and a refresh token ends with its grant
LEMMA WorksNoLonger ==
  ASSUME PollType, PollType', Moves, NEW l \in Logins, Genuine(l),
         poll'.observed = poll.observed
  PROVE  /\ AccessWorks(l)' => AccessWorks(l)
         /\ RefreshWorks(l)' => RefreshWorks(l) /\ grant' = grant
         /\ Antigravity!Works(l)' => Antigravity!Works(l)
<1>1. now \in Nat /\ now' \in Nat /\ issued \in Seq(Nat) /\ issued' \in Seq(Nat)
        /\ grant \in Nat /\ grant' \in Nat
  BY DEF PollType
<1>2. ASSUME AccessWorks(l)'
      PROVE  AccessWorks(l)
  <2>1. l.access \in DOMAIN issued' /\ issued'[l.access] > now' /\ ~Antigravity!Expired(l)'
    BY <1>2 DEF AccessWorks, Antigravity!Accepted
  <2>2. l.access \in 1..Len(issued)
    BY <1>1, <2>1 DEF Genuine
  <2>3. issued'[l.access] = issued[l.access] \/ issued'[l.access] = 0
    BY <2>2 DEF Moves
  <2>4. issued[l.access] > now
    <3>1. now' >= now
      BY DEF Moves
    <3>2. issued[l.access] \in Nat
      BY <1>1, <2>2
    <3>3. QED
      BY <1>1, <2>1, <2>3, <3>1, <3>2
  <2>5. ~Antigravity!Expired(l)
    BY <2>1 DEF Antigravity!Expired
  <2>6. QED
    BY <1>1, <2>2, <2>4, <2>5 DEF AccessWorks, Antigravity!Accepted
<1>3. ASSUME RefreshWorks(l)'
      PROVE  RefreshWorks(l) /\ grant' = grant
  BY <1>1, <1>3 DEF RefreshWorks, Genuine, Moves
<1>4. Antigravity!Works(l)' => Antigravity!Works(l)
  BY <1>2, <1>3 DEF Antigravity!Works, AccessWorks, RefreshWorks
<1>5. QED
  BY <1>2, <1>3, <1>4

LEMMA StaysInHand ==
  ASSUME PollType, PollType', Moves, NEW l \in Logins, Genuine(l), InHand(l),
         poll'.pc = poll.pc, poll'.token = poll.token, poll'.retried = poll.retried,
         poll'.observed = poll.observed
  PROVE  InHand(l)'
<1>1. AccessWorks(l)' => AccessWorks(l)
  BY WorksNoLonger
<1>2. RefreshWorks(l)' => RefreshWorks(l) /\ grant' = grant
  BY WorksNoLonger
<1>3. ASSUME Minted, grant' = grant
      PROVE  Minted'
  <2>1. poll.token.access \in 1..Len(issued)
    BY <1>3 DEF Minted, PollType
  <2>2. issued'[poll.token.access] = issued[poll.token.access]
    BY <1>3, <2>1 DEF Moves
  <2>3. poll.token.access \in DOMAIN issued'
    BY <2>1 DEF Moves, PollType
  <2>4. QED
    BY <1>3, <2>2, <2>3 DEF Minted
<1>4. CASE poll.pc = "refresh"
  BY <1>1, <1>4 DEF InHand
<1>5. CASE poll.pc = "fetch"
  BY <1>1, <1>2, <1>3, <1>5 DEF InHand
<1>6. QED
  BY <1>4, <1>5 DEF InHand

\* What happens around a poll loses no login
LEMMA NotForgottenAround ==
  ASSUME PollType, PollType', LoginsGenuine, Moves, NotForgotten,
         poll'.pc = poll.pc, poll'.read = poll.read, poll'.candidates = poll.candidates,
         poll'.token = poll.token, poll'.retried = poll.retried,
         poll'.observed = poll.observed, poll'.disturbed = poll.disturbed
  PROVE  NotForgotten'
<1>1. ASSUME NEW p \in Antigravity!Range(Antigravity!Places), ~(poll.pc = "idle"),
             ~poll.disturbed, Antigravity!Works(poll.read[p])'
      PROVE  (Waiting(poll.read[p]) \/ InHand(poll.read[p]))'
  <2>1. PICK l \in Logins : l = poll.read[p] /\ Genuine(l)
    BY DEF LoginsGenuine, PollType, PollRecords
  <2>2. l = poll'.read[p] /\ Antigravity!Works(l)'
    BY <1>1, <2>1
  <2>3. Antigravity!Works(l)
    BY <2>1, <2>2, WorksNoLonger
  <2>4. Waiting(l) \/ InHand(l)
    BY <1>1, <2>1, <2>3 DEF NotForgotten
  <2>5. Waiting(l) => Waiting(l)'
    BY DEF Waiting
  <2>6. InHand(l) => InHand(l)'
    BY <2>1, StaysInHand
  <2>7. QED
    BY <2>2, <2>4, <2>5, <2>6
<1>2. QED
  BY <1>1 DEF NotForgotten

\* A login that has been read is among the candidates, or an equal one is
LEMMA AllWaiting ==
  ASSUME PollType, NEW p \in Antigravity!Range(Antigravity!Places), place[p].access # 0
  PROVE  \E i \in Antigravity!TokenCandidates : place[Antigravity!Places[i]].access = place[p].access
<1>1. PICK l \in Logins : l = place[p]
  BY DEF PollType
<1>2. l.access # 0
  BY <1>1
<1> DEFINE T == {i \in 1..4 : place[Antigravity!Places[i]].access = l.access}
<1>3. T \subseteq Nat /\ T # {}
  BY <1>1, PlaceNames
<1>4. PICK i \in T : \A j \in T : i <= j
  BY <1>3, Least
<1>5. Antigravity!Found(Antigravity!Places[i])
  BY <1>2, <1>4 DEF Antigravity!Found
<1>6. ASSUME NEW j \in 1..(i-1)
      PROVE  Antigravity!Key(place[Antigravity!Places[j]]) # Antigravity!Key(place[Antigravity!Places[i]])
  <2>1. j \in 1..4 /\ ~(i <= j)
    BY <1>4
  <2>2. place[Antigravity!Places[j]].access # l.access
    BY <1>4, <2>1
  <2>3. Antigravity!Key(place[Antigravity!Places[i]]) = <<"access", l.access>>
    BY <1>2, <1>4 DEF Antigravity!Key
  <2>4. QED
    BY <2>2, <2>3 DEF Antigravity!Key
<1>7. i \in Antigravity!TokenCandidates
  BY <1>4, <1>5, <1>6 DEF Antigravity!TokenCandidates
<1>8. QED
  BY <1>1, <1>4, <1>7

\* If two logins have the same access token and one has expired, that access
\* token does not work
LEMMA ExpiredTogether ==
  ASSUME PollType, LoginsGenuine, Agree(poll.read), PollTimes, ~(poll.pc = "idle"),
         NEW p \in Antigravity!Range(Antigravity!Places),
         NEW q \in Antigravity!Range(Antigravity!Places),
         poll.read[q].access = poll.read[p].access, poll.read[p].access # 0
  PROVE  /\ poll.read[q].refresh = poll.read[p].refresh
         /\ Antigravity!Expired(poll.read[q]) => ~AccessWorks(poll.read[p])
<1>1. PICK l \in Logins : l = poll.read[p] /\ Genuine(l)
  BY DEF LoginsGenuine, PollType, PollRecords
<1>2. PICK k \in Logins : k = poll.read[q] /\ Genuine(k)
  BY DEF LoginsGenuine, PollType, PollRecords
<1>3. k.access = l.access /\ l.access # 0 /\ k.refresh = l.refresh
        /\ (l.refresh = 0 => k.expiry = l.expiry)
  BY <1>1, <1>2 DEF Agree
<1>4. now \in Nat /\ poll.observed \in Nat /\ poll.observed <= now /\ issued \in Seq(Nat)
  BY DEF PollType, PollRecords, PollTimes
<1>5. ASSUME Antigravity!Expired(k), AccessWorks(l)
      PROVE  FALSE
  <2>1. l.access \in DOMAIN issued /\ issued[l.access] > now
    BY <1>5 DEF AccessWorks, Antigravity!Accepted
  <2>2. CASE l.refresh = 0
    BY <1>3, <1>5, <2>2 DEF AccessWorks, Antigravity!Expired
  <2>3. CASE l.refresh # 0
    <3>1. k.expiry = 0 \/ issued[l.access] <= k.expiry
      BY <1>2, <1>3, <2>3 DEF Genuine
    <3>2. k.expiry > 0 /\ k.expiry <= poll.observed /\ k.expiry \in Nat
      BY <1>5 DEF Antigravity!Expired, Logins
    <3>3. issued[l.access] \in Nat
      BY <1>4, <2>1
    <3>4. QED
      BY <1>4, <2>1, <3>1, <3>2, <3>3
  <2>4. QED
    BY <2>2, <2>3
<1>6. QED
  BY <1>1, <1>2, <1>3, <1>5

LEMMA NotForgottenStep ==
  ASSUME PollInv, PollType', [Antigravity!Next]_(Antigravity!vars)
  PROVE  NotForgotten'
<1>1. Moves
  BY GoogleMoves DEF PollInv
<1>2. PollType /\ LoginsGenuine /\ Agree(place) /\ Agree(poll.read) /\ PollTimes /\ NotForgotten
  BY DEF PollInv
<1>3. /\ now \in Nat /\ issued \in Seq(Nat) /\ poll \in PollRecords
      /\ \A p \in Antigravity!Range(Antigravity!Places) : poll.read[p] \in Logins /\ Genuine(poll.read[p])
  BY <1>2 DEF PollType, PollRecords, LoginsGenuine
<1>4. CASE \E program \in {"ide", "agy"} : Antigravity!VendorRefreshes(program)
           \/ Antigravity!VendorLogsIn(program)
  <2>1. poll' = poll
    BY <1>4 DEF Antigravity!VendorRefreshes, Antigravity!VendorLogsIn
  <2>2. QED
    BY <1>1, <1>2, <2>1, NotForgottenAround
<1>5. CASE Antigravity!Tick
  <2>1. /\ poll'.pc = poll.pc /\ poll'.read = poll.read /\ poll'.candidates = poll.candidates
        /\ poll'.token = poll.token /\ poll'.retried = poll.retried
        /\ poll'.observed = poll.observed /\ poll'.disturbed = poll.disturbed
    BY <1>3, <1>5 DEF Antigravity!Tick, PollRecords
  <2>2. QED
    BY <1>1, <1>2, <2>1, NotForgottenAround
<1>6. CASE UNCHANGED Antigravity!vars
  <2>1. poll' = poll
    BY <1>6 DEF Antigravity!vars
  <2>2. QED
    BY <1>1, <1>2, <2>1, NotForgottenAround
<1>7. CASE Antigravity!NoMoreTokens
  BY <1>3, <1>7 DEF Antigravity!NoMoreTokens, Antigravity!Idle, PollRecords, NotForgotten
<1>8. CASE Antigravity!Begin
  <2>1. CASE poll'.pc = "idle"
    BY <2>1 DEF NotForgotten
  <2>2. CASE ~(poll'.pc = "idle")
    <3>1. /\ poll'.read = place /\ poll'.candidates = Antigravity!TokenCandidates
          /\ UNCHANGED <<now, client, grant, issued, place>>
      BY <1>2, <1>8, <2>2, BeginCases
    <3>2. poll'.observed = now
      BY <1>2, <1>8, <2>2, BeginCases
    <3>3. ASSUME NEW p \in Antigravity!Range(Antigravity!Places), Antigravity!Works(poll.read[p])'
          PROVE  Waiting(poll.read[p])'
      <4>1. PICK l \in Logins : l = place[p] /\ Genuine(l)
        BY <1>2 DEF LoginsGenuine, PollType
      <4>2. Antigravity!Works(l)'
        BY <3>1, <3>3, <4>1
      <4>3. l.access # 0
        BY <1>3, <3>1, <4>1, <4>2, <1>2 DEF Antigravity!Works, Antigravity!Accepted, Genuine,
          PollType
      <4>4. \E i \in Antigravity!TokenCandidates : place[Antigravity!Places[i]].access = l.access
        BY <1>2, <4>1, <4>3, AllWaiting
      <4>5. QED
        BY <3>1, <4>1, <4>4 DEF Waiting
    <3>4. QED
      BY <3>3 DEF NotForgotten
  <2>3. QED
    BY <2>1, <2>2
<1>9. CASE Antigravity!NextToken
  <2>1. PICK i \in 1..4, k \in Logins :
           /\ poll.pc = "token"
           /\ UNCHANGED <<now, client, grant, issued, place>>
           /\ i \in poll.candidates /\ k = poll.read[Antigravity!Places[i]]
           /\ poll'.pc = IF Antigravity!Expired(k) THEN "refresh" ELSE "fetch"
           /\ poll'.candidates = poll.candidates \ {i} /\ poll'.token = k /\ ~poll'.retried
           /\ poll'.read = poll.read /\ poll'.observed = poll.observed
           /\ poll'.disturbed = poll.disturbed
    BY <1>2, <1>9, NextTokenCases
  <2>2. ASSUME NEW p \in Antigravity!Range(Antigravity!Places), ~poll.disturbed,
               Antigravity!Works(poll.read[p])'
        PROVE  (Waiting(poll.read[p]) \/ InHand(poll.read[p]))'
    <3>1. PICK l \in Logins : l = poll.read[p] /\ Genuine(l)
      BY <1>3
    <3>2. l = poll'.read[p] /\ Antigravity!Works(l)'
      BY <2>1, <2>2, <3>1
    <3>3. Antigravity!Works(l)
      BY <1>1, <1>2, <2>1, <3>1, <3>2, WorksNoLonger
    <3>4. Waiting(l)
      BY <1>2, <2>1, <2>2, <3>1, <3>3 DEF NotForgotten, InHand
    <3>5. PICK j \in poll.candidates : poll.read[Antigravity!Places[j]].access = l.access
      BY <3>4 DEF Waiting
    <3>6. CASE j # i
      <4>1. Waiting(l)'
        BY <2>1, <3>5, <3>6 DEF Waiting
      <4>2. QED
        BY <3>2, <4>1
    <3>7. CASE j = i
      <4>1. l.access # 0
        BY <1>2, <3>1, <3>3 DEF Antigravity!Works, Antigravity!Accepted, Genuine, PollType
      <4>2. k.access = l.access
        BY <2>1, <3>5, <3>7
      <4>3. k.refresh = l.refresh /\ (Antigravity!Expired(k) => ~AccessWorks(l))
        BY <1>2, <2>1, <3>1, <4>1, <4>2, PlaceNames, ExpiredTogether
      <4>4. AccessWorks(l)' => AccessWorks(l)
        BY <1>1, <1>2, <2>1, <3>1, WorksNoLonger
      <4>5. InHand(l)'
        <5>1. CASE Antigravity!Expired(k)
          BY <2>1, <4>3, <4>4, <5>1 DEF InHand
        <5>2. CASE ~Antigravity!Expired(k)
          BY <2>1, <4>2, <4>3, <5>2 DEF InHand
        <5>3. QED
          BY <5>1, <5>2
      <4>6. QED
        BY <3>2, <4>5
    <3>8. QED
      BY <3>6, <3>7
  <2>3. QED
    BY <2>1, <2>2 DEF NotForgotten
<1>10. CASE Antigravity!FetchSnapshot
  <2>1. /\ poll.pc = "fetch"
        /\ UNCHANGED <<now, client, grant, issued, place>>
        /\ poll'.read = poll.read /\ poll'.candidates = poll.candidates
        /\ poll'.token = poll.token /\ poll'.observed = poll.observed
    BY <1>2, <1>10, SnapshotCases
  <2>2. /\ ~poll'.disturbed => ~poll.disturbed
        /\ \/ poll'.pc = "idle"
           \/ /\ poll'.pc = "refresh"
              /\ ~poll'.disturbed => ~Antigravity!Accepted(poll.token.access)
           \/ /\ poll'.pc = "token" /\ poll.retried
              /\ ~poll'.disturbed => ~Antigravity!Accepted(poll.token.access)
           \/ poll'.pc = "token" /\ poll'.disturbed
    BY <1>2, <1>10, SnapshotCases
  <2>3. ASSUME NEW p \in Antigravity!Range(Antigravity!Places), ~poll'.disturbed,
               ~(poll'.pc = "idle"),
               Antigravity!Works(poll.read[p])'
        PROVE  (Waiting(poll.read[p]) \/ InHand(poll.read[p]))'
    <3>1. PICK l \in Logins : l = poll.read[p] /\ Genuine(l)
      BY <1>3
    <3>2. l = poll'.read[p] /\ Antigravity!Works(l)'
      BY <2>1, <2>3, <3>1
    <3>3. Antigravity!Works(l)
      BY <1>1, <1>2, <2>1, <3>1, <3>2, WorksNoLonger
    <3>4. Waiting(l) \/ InHand(l)
      BY <1>2, <2>1, <2>2, <2>3, <3>1, <3>3 DEF NotForgotten
    <3>5. CASE Waiting(l)
      <4>1. Waiting(l)'
        BY <2>1, <3>5 DEF Waiting
      <4>2. QED
        BY <3>2, <4>1
    <3>6. CASE InHand(l)
      <4>1. ~Antigravity!Accepted(poll.token.access)
        BY <2>2, <2>3
      <4>2. ~AccessWorks(l)
        BY <2>1, <3>6, <4>1 DEF InHand, AccessWorks
      <4>3. RefreshWorks(l)
        BY <3>3, <4>2 DEF Antigravity!Works, AccessWorks, RefreshWorks
      <4>4. CASE poll'.pc = "refresh"
        <5>1. ~AccessWorks(l)'
          BY <1>1, <1>2, <2>1, <3>1, <4>2, WorksNoLonger
        <5>2. InHand(l)'
          BY <2>1, <3>6, <4>4, <5>1 DEF InHand
        <5>3. QED
          BY <3>2, <5>2
      <4>5. CASE poll.retried
        <5>1. Minted
          BY <2>1, <3>6, <4>3, <4>5 DEF InHand
        <5>2. now <= poll.observed + 1 /\ poll.observed \in Nat
          BY <1>2, <1>3, <2>1 DEF PollTimes, PollRecords
        <5>3. issued[poll.token.access] > now
          <6>1. issued[poll.token.access] \in Nat /\ now \in Nat
            BY <1>3, <5>1 DEF Minted
          <6>2. issued[poll.token.access] >= poll.observed + Lifetime
            BY <5>1 DEF Minted
          <6>3. Lifetime \in Nat /\ Lifetime >= 2
            BY CommandLineAssumption
          <6> PICK e \in Nat, n \in Nat, o \in Nat :
                e = issued[poll.token.access] /\ n = now /\ o = poll.observed
            BY <5>2, <6>1
          <6>4. e >= o + Lifetime /\ n <= o + 1
            BY <5>2, <6>2
          <6>5. e > n
            BY <6>3, <6>4
          <6>6. QED
            BY <6>5
        <5>4. QED
          BY <4>1, <5>1, <5>3 DEF Antigravity!Accepted, Minted
      <4>6. QED
        BY <2>2, <2>3, <4>4, <4>5
    <3>7. QED
      BY <3>4, <3>5, <3>6
  <2>4. QED
    BY <2>1, <2>3 DEF NotForgotten
<1>11. CASE Antigravity!RefreshRefused \/ Antigravity!RefreshLost
  <2>1. /\ poll.pc = "refresh"
        /\ UNCHANGED <<now, client, grant, issued, place>>
        /\ poll'.pc = "token"
        /\ poll'.read = poll.read /\ poll'.candidates = poll.candidates
        /\ poll'.observed = poll.observed
        /\ ~poll'.disturbed => ~poll.disturbed /\ ~RefreshWorks(poll.token)
    BY <1>2, <1>11, RefreshFailsCases
  <2>2. ASSUME NEW p \in Antigravity!Range(Antigravity!Places), ~poll'.disturbed,
               Antigravity!Works(poll.read[p])'
        PROVE  Waiting(poll.read[p])'
    <3>1. PICK l \in Logins : l = poll.read[p] /\ Genuine(l)
      BY <1>3
    <3>2. l = poll'.read[p] /\ Antigravity!Works(l)'
      BY <2>1, <2>2, <3>1
    <3>3. Antigravity!Works(l)
      BY <1>1, <1>2, <2>1, <3>1, <3>2, WorksNoLonger
    <3>4. Waiting(l) \/ InHand(l)
      BY <1>2, <2>1, <2>2, <3>1, <3>3 DEF NotForgotten
    <3>5. ~InHand(l)
      BY <2>1, <2>2, <3>3 DEF InHand, Antigravity!Works, AccessWorks, RefreshWorks
    <3>6. Waiting(l)'
      BY <2>1, <3>4, <3>5 DEF Waiting
    <3>7. QED
      BY <3>2, <3>6
  <2>3. QED
    BY <2>1, <2>2 DEF NotForgotten
<1>12. CASE Antigravity!RefreshSucceeds
  <2>1. PICK k : k = Antigravity!Login(Antigravity!NewToken, poll.token.refresh, poll.observed + Lifetime)
    OBVIOUS
  <2>2. /\ poll.pc = "refresh" /\ poll' = [poll EXCEPT !.pc = "fetch", !.token = k]
        /\ issued' = Append(issued, now + Lifetime)
    BY <1>12, <2>1 DEF Antigravity!RefreshSucceeds
  <2>3. /\ poll'.pc = "fetch" /\ poll'.token = k /\ poll'.read = poll.read
        /\ poll'.candidates = poll.candidates /\ poll'.observed = poll.observed
        /\ poll'.disturbed = poll.disturbed
    BY <1>3, <2>2 DEF PollRecords
  <2>4. k.access = Len(issued) + 1 /\ k.refresh = poll.token.refresh
    BY <2>1 DEF Antigravity!Login, Antigravity!NewToken
  <2>5. Minted'
    <3>1. poll.observed \in Nat /\ poll.observed <= now
      BY <1>2, <1>3, <2>2 DEF PollTimes, PollRecords
    <3>2. Len(issued) + 1 \in DOMAIN issued' /\ issued'[Len(issued) + 1] = now + Lifetime
      BY <1>3, <2>2, CommandLineAssumption
    <3>3. QED
      BY <1>3, <2>3, <2>4, <3>1, <3>2, CommandLineAssumption DEF Minted
  <2>6. ASSUME NEW p \in Antigravity!Range(Antigravity!Places), ~poll.disturbed,
               Antigravity!Works(poll.read[p])'
        PROVE  (Waiting(poll.read[p]) \/ InHand(poll.read[p]))'
    <3>1. PICK l \in Logins : l = poll.read[p] /\ Genuine(l)
      BY <1>3
    <3>2. l = poll'.read[p] /\ Antigravity!Works(l)'
      BY <2>3, <2>6, <3>1
    <3>3. Antigravity!Works(l)
      BY <1>1, <1>2, <2>3, <3>1, <3>2, WorksNoLonger
    <3>4. Waiting(l) \/ InHand(l)
      BY <1>2, <2>2, <2>6, <3>1, <3>3 DEF NotForgotten
    <3>5. CASE Waiting(l)
      <4>1. Waiting(l)'
        BY <2>3, <3>5 DEF Waiting
      <4>2. QED
        BY <3>2, <4>1
    <3>6. CASE InHand(l)
      <4>1. ~AccessWorks(l) /\ poll.token.refresh = l.refresh
        BY <2>2, <3>6 DEF InHand
      <4>2. ~AccessWorks(l)'
        BY <1>1, <1>2, <2>3, <3>1, <4>1, WorksNoLonger
      <4>3. InHand(l)'
        BY <2>3, <2>4, <2>5, <4>1, <4>2 DEF InHand
      <4>4. QED
        BY <3>2, <4>3
    <3>7. QED
      BY <3>4, <3>5, <3>6
  <2>7. QED
    BY <2>3, <2>6 DEF NotForgotten
<1>13. QED
  BY <1>4, <1>5, <1>6, <1>7, <1>8, <1>9, <1>10, <1>11, <1>12 DEF Antigravity!Next

\* Nothing that happens after a poll makes a login work that did not
LEMMA FoundStays ==
  ASSUME PollType, PollType', LoginsGenuine, Moves, Antigravity!WorkingLoginFound, poll' = poll
  PROVE  Antigravity!WorkingLoginFound'
<1>1. ASSUME NEW p \in Antigravity!Range(Antigravity!Places), Antigravity!Works(poll.read[p])'
      PROVE  Antigravity!Works(poll.read[p])
  <2>1. PICK l \in Logins : l = poll.read[p] /\ Genuine(l)
    BY DEF LoginsGenuine, PollType, PollRecords
  <2>2. Antigravity!Works(l)'
    BY <1>1, <2>1
  <2>3. Antigravity!Works(l)
    BY <2>1, <2>2, WorksNoLonger
  <2>4. QED
    BY <2>1, <2>3
<1>2. QED
  BY <1>1 DEF Antigravity!WorkingLoginFound

LEMMA FoundStep ==
  ASSUME PollInv, PollType', [Antigravity!Next]_(Antigravity!vars)
  PROVE  Antigravity!WorkingLoginFound'
<1>1. Moves
  BY GoogleMoves DEF PollInv
<1>2. PollType /\ LoginsGenuine /\ NotForgotten /\ Antigravity!WorkingLoginFound
  BY DEF PollInv
<1>3. poll \in PollRecords
  BY <1>2 DEF PollType
<1>4. CASE poll' = poll
  BY <1>1, <1>2, <1>4, FoundStays
<1>5. CASE \E program \in {"ide", "agy"} : Antigravity!VendorRefreshes(program)
           \/ Antigravity!VendorLogsIn(program)
  BY <1>4, <1>5 DEF Antigravity!VendorRefreshes, Antigravity!VendorLogsIn
<1>6. CASE Antigravity!Tick
  <2>1. CASE poll.pc = "idle"
    BY <1>4, <1>6, <2>1 DEF Antigravity!Tick
  <2>2. CASE ~(poll.pc = "idle")
    BY <1>3, <1>6, <2>2 DEF Antigravity!Tick, PollRecords, Antigravity!WorkingLoginFound
  <2>3. QED
    BY <2>1, <2>2
<1>7. CASE Antigravity!Begin
  BY <1>2, <1>7, BeginCases DEF Antigravity!WorkingLoginFound
<1>8. CASE Antigravity!NextToken
  <2>1. poll'.pc \in {"refresh", "fetch"}
    BY <1>2, <1>8, NextTokenCases
  <2>2. QED
    BY <2>1 DEF Antigravity!WorkingLoginFound
<1>9. CASE Antigravity!NoMoreTokens
  <2>1. /\ poll.pc = "token" /\ poll.candidates = {} /\ poll'.read = poll.read
        /\ poll'.observed = poll.observed
        /\ poll'.disturbed = poll.disturbed
        /\ UNCHANGED <<now, client, grant, issued>>
    BY <1>3, <1>9 DEF Antigravity!NoMoreTokens, Antigravity!Idle, Antigravity!google, PollRecords
  <2>2. ASSUME ~poll.disturbed, NEW p \in Antigravity!Range(Antigravity!Places),
               Antigravity!Works(poll.read[p])'
        PROVE  FALSE
    <3>1. PICK l : l = poll.read[p]
      OBVIOUS
    <3>2. Antigravity!Works(l)
      BY <2>1, <2>2, <3>1 DEF Antigravity!Works, Antigravity!Accepted, Antigravity!Expired
    <3>3. QED
      BY <1>2, <2>1, <2>2, <3>1, <3>2 DEF NotForgotten, Waiting, InHand
  <2>3. QED
    BY <2>1, <2>2 DEF Antigravity!WorkingLoginFound
<1>10. CASE Antigravity!FetchSnapshot
  <2>1. poll'.pc = "idle" => poll'.result = "ok"
    BY <1>2, <1>10, SnapshotCases
  <2>2. QED
    BY <2>1 DEF Antigravity!WorkingLoginFound
<1>11. CASE Antigravity!RefreshRefused \/ Antigravity!RefreshLost
  <2>1. poll'.pc = "token"
    BY <1>2, <1>11, RefreshFailsCases
  <2>2. QED
    BY <2>1 DEF Antigravity!WorkingLoginFound
<1>12. CASE Antigravity!RefreshSucceeds
  BY <1>3, <1>12 DEF Antigravity!RefreshSucceeds, PollRecords, Antigravity!WorkingLoginFound
<1>13. CASE UNCHANGED Antigravity!vars
  BY <1>4, <1>13 DEF Antigravity!vars
<1>14. QED
  BY <1>5, <1>6, <1>7, <1>8, <1>9, <1>10, <1>11, <1>12, <1>13 DEF Antigravity!Next

\* A poll that nothing disturbed has found the login that works, among any
\* number of access tokens and logins and whoever rewrites them meanwhile
THEOREM PollInvariant == Antigravity!Spec => []PollInv
<1>1. Antigravity!Init => PollInv
  <2> SUFFICES ASSUME Antigravity!Init
               PROVE  PollInv
    OBVIOUS
  <2>1. Antigravity!NoPoll \in PollRecords /\ Antigravity!NoPoll.pc = "idle"
        /\ Antigravity!NoPoll.result = "none"
          /\ Antigravity!NoPoll.read = [p \in Antigravity!Range(Antigravity!Places) |-> Antigravity!NoLogin]
    BY DEF Antigravity!NoPoll, PollRecords, Antigravity!NoLogin, Logins, PollReasons
  <2>2. Antigravity!NoLogin \in Logins
    BY DEF Antigravity!NoLogin, Logins
  <2>3. PollType
    BY <2>1, <2>2, CommandLineAssumption DEF Antigravity!Init, PollType
  <2>4. LoginsGenuine /\ Agree(place) /\ Agree(poll.read)
    BY <2>1 DEF Antigravity!Init, LoginsGenuine, Agree, Genuine, Antigravity!NoLogin
  <2>5. PollTimes /\ NotForgotten /\ Antigravity!WorkingLoginFound
    BY <2>1 DEF Antigravity!Init, PollTimes, NotForgotten, Antigravity!WorkingLoginFound
  <2>6. QED
    BY <2>3, <2>4, <2>5 DEF PollInv
<1>2. PollInv /\ [Antigravity!Next]_(Antigravity!vars) => PollInv'
  <2> SUFFICES ASSUME PollInv, [Antigravity!Next]_(Antigravity!vars)
               PROVE  PollInv'
    OBVIOUS
  <2>1. PollType'
    BY PollTyped DEF PollInv
  <2>2. LoginsGenuine' /\ Agree(place') /\ Agree(poll'.read)
    BY <2>1, LoginsStep DEF PollInv
  <2>3. PollTimes'
    BY TimesStep DEF PollInv
  <2>4. NotForgotten'
    BY <2>1, NotForgottenStep
  <2>5. Antigravity!WorkingLoginFound'
    BY <2>1, FoundStep
  <2>6. QED
    BY <2>1, <2>2, <2>3, <2>4, <2>5 DEF PollInv
<1>3. QED
  BY <1>1, <1>2, PTL DEF Antigravity!Spec

\* A poll of Antigravity finds the login that works
THEOREM LoginFound == CommandSpec => []WorkingLoginFound
<1>1. CommandSpec => []PollInv
  BY CommandsAsSpecified, PollInvariant, PTL
<1>2. PollInv => WorkingLoginFound
  BY DEF PollInv, WorkingLoginFound
<1>3. QED
  BY <1>1, <1>2, PTL

-----------------------------------------------------------------------------
(***************************************************************************)
(* The forecast                                                            *)
(***************************************************************************)
ForecastInv == history \in Seq(Forecast!Samples)

\* Recording keeps the history a sequence of samples
LEMMA ForecastRecord ==
  ASSUME ForecastInv, Forecast!Next
  PROVE  ForecastInv'
<1>1. PICK s \in Forecast!Samples : Forecast!Record(s)
  BY DEF Forecast!Next
<1>2. PICK i \in 0..Len(history) :
        history' = SubSeq(history, 1, i) \o <<s>> \o SubSeq(history, i+1, Len(history))
  BY <1>1 DEF Forecast!Record
<1>3. Len(history) \in Nat /\ i \in Nat /\ i + 1 \in Nat
  BY DEF ForecastInv
<1>4. SubSeq(history, 1, i) \in Seq(Forecast!Samples)
  <2>1. \A j \in 1..i : history[j] \in Forecast!Samples
    BY <1>3 DEF ForecastInv
  <2>2. 1 \in Int /\ i \in Int
    BY <1>3
  <2>3. QED
    BY <2>1, <2>2, SubSeqProperties
<1>5. SubSeq(history, i+1, Len(history)) \in Seq(Forecast!Samples)
  <2>1. \A j \in i+1..Len(history) : history[j] \in Forecast!Samples
    BY <1>3 DEF ForecastInv
  <2>2. i + 1 \in Int /\ Len(history) \in Int
    BY <1>3
  <2>3. QED
    BY <2>1, <2>2, SubSeqProperties
<1>6. QED
  BY <1>2, <1>4, <1>5 DEF ForecastInv

\* The operators of the instance are those of the community modules
LEMMA ForecastOperators ==
  /\ \A S : Forecast!Cardinality(S) = Cardinality(S)
  /\ \A f : Forecast!SumFunction(f) = SumFunctionOnSet(f, DOMAIN f)
<1>1. \A S : Forecast!Cardinality(S) = Cardinality(S)
  BY DEF Forecast!Cardinality, Cardinality
<1>2. \A f : Forecast!SumFunction(f) = SumFunctionOnSet(f, DOMAIN f)
  BY DEF Forecast!SumFunction, Forecast!SumFunctionOnSet, Forecast!FoldFunction,
         Forecast!FoldFunctionOnSet,
         Forecast!MapThenFoldSet, SumFunctionOnSet, FoldFunctionOnSet, MapThenFoldSet
<1>3. QED
  BY <1>1, <1>2

\* The greatest of some of the indices of the history
LEMMA GreatestIndex ==
  ASSUME ForecastInv, NEW T, T \subseteq DOMAIN history, T # {}
  PROVE  Forecast!Max(T) \in T /\ \A y \in T : y <= Forecast!Max(T)
<1>1. Len(history) \in Nat /\ DOMAIN history = 1..Len(history)
  BY DEF ForecastInv
<1>2. T \subseteq 0..Len(history) /\ T \subseteq Int
  BY <1>1
<1>3. PICK x \in T : \A y \in T : y <= x
  BY <1>1, <1>2, Greatest
<1>4. \A y \in T : x >= y
  BY <1>2, <1>3
<1>5. Forecast!Max(T) \in T /\ \A y \in T : Forecast!Max(T) >= y
  BY <1>4 DEF Forecast!Max
<1>6. QED
  BY <1>2, <1>5

\* The fields of the samples
LEMMA SampleFields ==
  ASSUME ForecastInv, NEW i \in DOMAIN history
  PROVE  history[i].at \in Int /\ history[i].used \in 0..100 /\ history[i].reset \in Int
<1>1. history[i] \in Forecast!Samples
  BY DEF ForecastInv
<1>2. /\ history[i].at \in Times /\ history[i].used \in Percents
      /\ history[i].reset \in Resets \cup {0}
  BY <1>1 DEF Forecast!Samples, Forecast!NoReset
<1>3. Times \subseteq Int /\ Percents \subseteq 0..100 /\ Resets \cup {0} \subseteq Int
  BY CommandLineAssumption
<1>4. QED
  BY <1>2, <1>3

\* The samples of the latest window, the last one among them
LEMMA LatestWindow ==
  ASSUME ForecastInv
  PROVE  /\ Forecast!OfLatestWindow(history) \subseteq 1..Len(history)
         /\ DOMAIN history = 1..Len(history) /\ Len(history) \in Nat
         /\ history # <<>> =>
              /\ Len(history) \in Forecast!OfLatestWindow(history)
              /\ history[Len(history)].reset # Forecast!NoReset =>
                   \A i \in Forecast!OfLatestWindow(history) :
                     Forecast!SameResetWindow(history[i].reset, history[Len(history)].reset)
<1>1. DOMAIN history = 1..Len(history) /\ Len(history) \in Nat
  BY DEF ForecastInv
<1>2. Forecast!OfLatestWindow(history) \subseteq 1..Len(history)
  BY <1>1 DEF Forecast!OfLatestWindow
<1>3. ASSUME history # <<>> PROVE Len(history) \in DOMAIN history
  BY <1>3, EmptySeq DEF ForecastInv
<1>4. ASSUME history # <<>>
      PROVE  Forecast!SameResetWindow(history[Len(history)].reset, history[Len(history)].reset)
  <2>2. history[Len(history)].reset \in Int
    BY <1>3, <1>4, SampleFields
  <2>3. PICK r \in Int : r = history[Len(history)].reset
    BY <2>2
  <2>4. r - r \in -2..2
    OBVIOUS
  <2>5. QED
    BY <2>3, <2>4 DEF Forecast!SameResetWindow, Forecast!ResetWindowTolerance
<1>5. QED
  BY <1>1, <1>2, <1>3, <1>4 DEF Forecast!OfLatestWindow

\* A restart is the sample after another one of the window
LEMMA StableFrom ==
  ASSUME ForecastInv
  PROVE  \/ /\ Forecast!Restarts(history, Forecast!OfLatestWindow(history)) = {}
            /\ Forecast!StableSamples(history) = Forecast!OfLatestWindow(history)
         \/ \E m \in Forecast!Restarts(history, Forecast!OfLatestWindow(history)) :
              /\ \A r \in Forecast!Restarts(history, Forecast!OfLatestWindow(history)) : r <= m
              /\ m \in Forecast!OfLatestWindow(history)
              /\ Forecast!StableSamples(history)
                   = { i \in Forecast!OfLatestWindow(history) : i >= m }
<1> DEFINE w == Forecast!OfLatestWindow(history)
           R == Forecast!Restarts(history, w)
<1>1. R \subseteq w
  BY DEF Forecast!Restarts
<1>2. w \subseteq DOMAIN history
  BY LatestWindow
<1>3. CASE R = {}
  BY <1>3 DEF Forecast!StableSamples
<1>4. CASE R # {}
  <2>1. Forecast!Max(R) \in R /\ \A y \in R : y <= Forecast!Max(R)
    BY <1>1, <1>2, <1>4, GreatestIndex
  <2>2. Forecast!StableSamples(history) = { i \in w : i >= Forecast!Max(R) }
    BY <1>4 DEF Forecast!StableSamples
  <2>3. QED
    BY <1>1, <2>1, <2>2
<1>5. QED
  BY <1>3, <1>4

\* CurrentWindowOnly follows from the shape of the history alone
LEMMA CurrentWindow ==
  ASSUME ForecastInv
  PROVE  Forecast!CurrentWindowOnly
<1> DEFINE w == Forecast!OfLatestWindow(history)
           R == Forecast!Restarts(history, w)
           stable == Forecast!StableSamples(history)
<1>1. Forecast!Calculate(history).samples = stable
  BY DEF Forecast!Calculate
<1>2. w \subseteq 1..Len(history) /\ Len(history) \in Nat /\ w \subseteq Int /\ stable \subseteq w
  <2>1. w \subseteq 1..Len(history) /\ Len(history) \in Nat
    BY LatestWindow
  <2>2. stable \subseteq w
    BY StableFrom
  <2> HIDE DEF w, stable
  <2>3. QED
    BY <2>1, <2>2
<1>3. ASSUME NEW i \in stable, NEW j \in stable, Forecast!Follows(stable, j, i),
             Forecast!Restart(history[j], history[i])
      PROVE  FALSE
  <2>1. CASE R = {}
    <3>1. stable = w
      BY <2>1, StableFrom
    <3>2. i \in R
      BY <1>3, <3>1 DEF Forecast!Restarts
    <3>3. QED
      BY <2>1, <3>2
  <2>2. CASE R # {}
    <3>1. PICK m \in R : /\ \A r \in R : r <= m
                         /\ m \in w /\ stable = { k \in w : k >= m }
      BY <2>2, StableFrom
    <3> HIDE DEF w, R, stable
    <3>2. i \in Int /\ j \in Int /\ m \in Int /\ i \in w /\ j \in w /\ m <= j /\ j < i
      BY <1>2, <1>3, <3>1 DEF Forecast!Follows
    <3>3. \A k \in w : k <= j \/ i <= k
      <4>1. \A k \in w : k \in Int /\ (k >= m => k \in stable)
        BY <1>2, <3>1
      <4>2. \A k \in stable : k <= j \/ i <= k
        BY <1>3 DEF Forecast!Follows
      <4>3. \A k \in w : ~(k >= m) => k <= j
        BY <3>2, <4>1
      <4>4. QED
        BY <4>1, <4>2, <4>3
    <3>4. Forecast!Follows(w, j, i)
      BY <3>2, <3>3 DEF Forecast!Follows
    <3>5. i \in R
      BY <1>3, <3>2, <3>4 DEF Forecast!Restarts, R
    <3>6. i <= m
      BY <3>1, <3>5
    <3>7. QED
      BY <3>2, <3>6
  <2>3. QED
    BY <2>1, <2>2
<1>4. ASSUME history # <<>> PROVE Len(history) \in stable
  <2>1. Len(history) \in w
    BY <1>4, LatestWindow
  <2>2. CASE R = {}
    BY <2>1, <2>2, StableFrom
  <2>3. CASE R # {}
    <3>1. PICK m \in R : m \in w /\ stable = { k \in w : k >= m }
      BY <2>3, StableFrom
    <3> HIDE DEF w, R, stable
    <3>2. Len(history) >= m
      BY <1>2, <3>1
    <3>3. QED
      BY <2>1, <3>1, <3>2
  <2>4. QED
    BY <2>2, <2>3
<1>5. ASSUME history # <<>>, history[Len(history)].reset # Forecast!NoReset, NEW i \in stable
      PROVE  Forecast!SameResetWindow(history[i].reset, history[Len(history)].reset)
  BY <1>2, <1>5, LatestWindow
<1>6. ASSUME NEW k \in w \ stable
      PROVE  \E i \in stable, j \in w \ stable :
               k <= j /\ Forecast!Follows(w, j, i) /\ Forecast!Restart(history[j], history[i])
  <2>1. PICK m \in R : m \in w /\ stable = { l \in w : l >= m }
    BY <1>6, StableFrom
  <2>2. PICK j \in w : Forecast!Follows(w, j, m) /\ Forecast!Restart(history[j], history[m])
    BY <2>1 DEF Forecast!Restarts
  <2> HIDE DEF w, R, stable
  <2>3. m \in Int /\ j \in Int /\ k \in Int /\ k \in w
    BY <1>2, <1>6, <2>1, <2>2
  <2>4. m \in stable
    BY <2>1, <2>3
  <2>5. j < m
    BY <2>2 DEF Forecast!Follows
  <2>6. j \in w \ stable
    BY <2>1, <2>2, <2>3, <2>5
  <2>7. k <= j
    <3>1. ~(k >= m)
      BY <1>6, <2>1
    <3>2. ~(m <= k)
      BY <2>3, <3>1
    <3>3. k <= j \/ m <= k
      BY <1>6, <2>2 DEF Forecast!Follows
    <3>4. QED
      BY <3>2, <3>3
  <2>8. QED
    BY <2>2, <2>4, <2>6, <2>7
<1>7. QED
  <2>1. \A i, j \in stable :
          Forecast!Follows(stable, j, i) => ~Forecast!Restart(history[j], history[i])
    BY <1>3
  <2> HIDE DEF w, R, stable
  <2>2. QED
    BY <1>1, <1>4, <1>5, <1>6, <2>1 DEF Forecast!CurrentWindowOnly, w

\* The stable samples are some of the history's, so there are finitely many
LEMMA StableFinite ==
  ASSUME ForecastInv
  PROVE  /\ Forecast!StableSamples(history) \subseteq DOMAIN history
         /\ IsFiniteSet(Forecast!StableSamples(history))
<1>1. Forecast!StableSamples(history) \subseteq Forecast!OfLatestWindow(history)
  BY StableFrom
<1>2. /\ Forecast!OfLatestWindow(history) \subseteq 1..Len(history)
      /\ DOMAIN history = 1..Len(history) /\ Len(history) \in Nat
  BY LatestWindow
<1>3. IsFiniteSet(1..Len(history))
  BY <1>2, FS_Interval
<1>4. QED
  BY <1>1, <1>2, <1>3, FS_Subset

\* The slope is a fraction of integers, and its denominator is not negative
LEMMA SlopeType ==
  ASSUME ForecastInv, NEW T, T \subseteq DOMAIN history, IsFiniteSet(T), T # {}
  PROVE  /\ Forecast!Slope(history, T).num \in Int
         /\ Forecast!Slope(history, T).den \in Int
         /\ Forecast!Slope(history, T).den >= 0
<1> DEFINE X == [i \in T |-> history[i].at - history[Forecast!Min(T)].at]
           Y == [i \in T |-> history[i].used]
           XY == [i \in T |-> X[i] * Y[i]]
           XX == [i \in T |-> X[i] * X[i]]
<1>1. Forecast!Min(T) \in T
  <2>1. T \subseteq Nat
    BY DEF ForecastInv
  <2>2. PICK x \in T : \A y \in T : x <= y
    BY <2>1, Least
  <2>3. QED
    BY <2>2 DEF Forecast!Min
<1>2. \A i \in T : X[i] \in Int /\ Y[i] \in Int
  <2>1. history[Forecast!Min(T)].at \in Int
    BY <1>1, SampleFields
  <2>2. \A i \in T : history[i].at \in Int /\ history[i].used \in Int
    BY SampleFields
  <2>3. QED
    BY <2>1, <2>2
<1>3. \A i \in T : XX[i] = X[i] * X[i]
  OBVIOUS
<1>4. \A i \in T : XY[i] \in Int
  <2>1. ASSUME NEW i \in T PROVE XY[i] \in Int
    <3>1. XY[i] = X[i] * Y[i]
      OBVIOUS
    <3> HIDE DEF X, Y, XY
    <3>2. QED
      BY <1>2, <3>1
  <2>2. QED
    BY <2>1
<1>5. DOMAIN X = T /\ DOMAIN Y = T /\ DOMAIN XX = T /\ DOMAIN XY = T
  OBVIOUS
<1>6. Forecast!Slope(history, T)
        = [num |-> Cardinality(T) * SumFunctionOnSet(XY, T)
                     - SumFunctionOnSet(X, T) * SumFunctionOnSet(Y, T),
           den |-> Cardinality(T) * SumFunctionOnSet(XX, T)
                     - SumFunctionOnSet(X, T) * SumFunctionOnSet(X, T)]
  <2>1. /\ Forecast!SumFunction(X) = SumFunctionOnSet(X, T)
        /\ Forecast!SumFunction(Y) = SumFunctionOnSet(Y, T)
        /\ Forecast!SumFunction(XX) = SumFunctionOnSet(XX, T)
        /\ Forecast!SumFunction(XY) = SumFunctionOnSet(XY, T)
    <3> HIDE DEF X, Y, XX, XY
    <3>1. QED
      BY <1>5, ForecastOperators
  <2>2. Forecast!Cardinality(T) = Cardinality(T)
    BY ForecastOperators
  <2>3. Forecast!Slope(history, T)
          = [num |-> Forecast!Cardinality(T) * Forecast!SumFunction(XY)
                       - Forecast!SumFunction(X) * Forecast!SumFunction(Y),
             den |-> Forecast!Cardinality(T) * Forecast!SumFunction(XX)
                       - Forecast!SumFunction(X) * Forecast!SumFunction(X)]
    BY DEF Forecast!Slope
  <2> HIDE DEF X, Y, XX, XY
  <2>4. QED
    BY <2>1, <2>2, <2>3
<1> HIDE DEF X, Y, XX, XY
<1>7. /\ SumFunctionOnSet(X, T) \in Int /\ SumFunctionOnSet(XX, T) \in Int
      /\ Cardinality(T) * SumFunctionOnSet(XX, T)
           - SumFunctionOnSet(X, T) * SumFunctionOnSet(X, T) >= 0
  BY <1>2, <1>3, SpreadNotNegative
<1>8. SumFunctionOnSet(Y, T) \in Int /\ SumFunctionOnSet(XY, T) \in Int /\ Cardinality(T) \in Int
  BY <1>2, <1>4, SumType, FS_CardinalityType
<1>9. QED
  BY <1>6, <1>7, <1>8

\* A burn is a fraction of natural numbers with a positive denominator
LEMMA BurnType ==
  ASSUME ForecastInv, NEW T, T \subseteq DOMAIN history, IsFiniteSet(T), T # {}
  PROVE  /\ Forecast!Burn(history, T).num \in Nat
         /\ Forecast!Burn(history, T).den \in Nat \ {0}
<1> DEFINE slope == Forecast!Slope(history, T)
<1>1. PICK n \in Int, d \in Int : n = slope.num /\ d = slope.den /\ d >= 0
  BY SlopeType
<1>2. CASE d = 0 \/ n * 60000 < d
  BY <1>1, <1>2 DEF Forecast!Burn
<1>3. CASE d # 0 /\ ~(n * 60000 < d)
  <2>1. Forecast!Burn(history, T) = slope
    BY <1>1, <1>3 DEF Forecast!Burn
  <2>2. n \in Nat /\ d \in Nat \ {0}
    BY <1>1, <1>3
  <2>3. QED
    BY <1>1, <2>1, <2>2
<1>4. QED
  BY <1>2, <1>3

\* Comparing fractions with a common factor
LEMMA Factor ==
  ASSUME NEW a \in Int, NEW b \in Int, NEW c \in Nat, a <= b
  PROVE  a * c <= b * c
<1>1. PICK d \in Nat : b = a + d
  <2>1. b - a \in Nat /\ b = a + (b - a)
    OBVIOUS
  <2>2. QED
    BY <2>1
<1>2. d * c \in Nat
  OBVIOUS
<1>3. b * c = a * c + d * c
  BY <1>1
<1>4. QED
  BY <1>2, <1>3

\* What the three numbers say of each other
LEMMA Agreement ==
  ASSUME NEW last, last.used \in 0..100, last.reset - last.at \in Nat,
         NEW burn, burn.num \in Nat, burn.den \in Nat \ {0}
  PROVE  /\ Forecast!AtMost(Forecast!EstimateThreshold(last, burn, 90),
                            Forecast!EstimateThreshold(last, burn, 100))
         /\ Forecast!AtMost(Forecast!EstimateThreshold(last, burn, 100),
                            [num |-> last.reset - last.at, den |-> 1])
              <=> Forecast!AtMost([num |-> 100, den |-> 1],
                                  Forecast!ProjectedResetPercent(last, burn))
         /\ Forecast!AtMost([num |-> last.used, den |-> 1],
                            Forecast!ProjectedResetPercent(last, burn))
<1> PICK u \in 0..100, num \in Nat, den \in Nat, minutes \in Nat :
      u = last.used /\ num = burn.num /\ den = burn.den /\ minutes = last.reset - last.at
  OBVIOUS
<1>1. PICK ud \in Nat : ud = u * den
  OBVIOUS
<1>2. PICK nm \in Nat : nm = num * minutes /\ nm = minutes * num
  OBVIOUS
<1>3. /\ Forecast!ProjectedResetPercent(last, burn).num = ud + nm
      /\ Forecast!ProjectedResetPercent(last, burn).den = den
  BY <1>1, <1>2 DEF Forecast!ProjectedResetPercent
<1>4. Forecast!AtMost([num |-> u, den |-> 1], Forecast!ProjectedResetPercent(last, burn))
  <2>1. u * den <= (ud + nm) * 1
    BY <1>1
  <2>2. QED
    BY <1>3, <2>1 DEF Forecast!AtMost
<1>5. Forecast!AtMost([num |-> 100, den |-> 1], Forecast!ProjectedResetPercent(last, burn))
        <=> 100 * den <= ud + nm
  <2>1. (ud + nm) * 1 = ud + nm
    OBVIOUS
  <2>2. QED
    BY <1>3, <2>1 DEF Forecast!AtMost
<1>6. ASSUME NEW t \in 0..100
      PROVE  /\ u >= t => Forecast!EstimateThreshold(last, burn, t) = [num |-> 0, den |-> 1]
             /\ ~(u >= t) => Forecast!EstimateThreshold(last, burn, t)
                               = [num |-> (t - u) * den, den |-> num]
  BY DEF Forecast!EstimateThreshold
<1>7. Forecast!AtMost(Forecast!EstimateThreshold(last, burn, 100),
                      [num |-> minutes, den |-> 1])
        <=> 100 * den <= ud + nm
  <2>1. CASE u >= 100
    <3>1. u = 100
      BY <2>1
    <3>2. 100 * den <= ud + nm
      BY <1>1, <3>1
    <3>3. 0 * 1 <= minutes * 1
      OBVIOUS
    <3>4. QED
      BY <1>6, <2>1, <3>2, <3>3 DEF Forecast!AtMost
  <2>2. CASE ~(u >= 100)
    <3>1. PICK e \in Int : e = (100 - u) * den
      OBVIOUS
    <3>2. e = 100 * den - ud
      BY <1>1, <3>1
    <3>3. e * 1 <= minutes * num <=> 100 * den <= ud + nm
      BY <1>2, <3>2
    <3>4. QED
      BY <1>6, <2>2, <3>1, <3>3 DEF Forecast!AtMost
  <2>3. QED
    BY <2>1, <2>2
<1>8. Forecast!AtMost(Forecast!EstimateThreshold(last, burn, 90),
                      Forecast!EstimateThreshold(last, burn, 100))
  <2>1. CASE u >= 100
    <3>1. u >= 90 /\ 0 * 1 <= 0 * 1
      BY <2>1
    <3>2. QED
      BY <1>6, <2>1, <3>1 DEF Forecast!AtMost
  <2>2. CASE u >= 90 /\ ~(u >= 100)
    <3>1. PICK e \in Int : e = (100 - u) * den /\ e >= 0
      <4>1. 100 - u \in Nat
        BY <2>2
      <4>2. (100 - u) * den \in Nat
        BY <4>1
      <4>3. QED
        BY <4>2
    <3>2. 0 * num <= e * 1
      BY <3>1
    <3>3. QED
      BY <1>6, <2>2, <3>1, <3>2 DEF Forecast!AtMost
  <2>3. CASE ~(u >= 90)
    <3>1. PICK e \in Int, f \in Int : e = (90 - u) * den /\ f = (100 - u) * den
      OBVIOUS
    <3>2. e <= f
      <4>1. 90 - u <= 100 - u /\ 90 - u \in Int /\ 100 - u \in Int
        OBVIOUS
      <4>2. QED
        BY <3>1, <4>1, Factor
    <3>3. e * num <= f * num
      BY <3>2, Factor
    <3>4. ~(u >= 100)
      BY <2>3
    <3>5. /\ Forecast!EstimateThreshold(last, burn, 90) = [num |-> e, den |-> num]
          /\ Forecast!EstimateThreshold(last, burn, 100) = [num |-> f, den |-> num]
      BY <1>6, <2>3, <3>1, <3>4
    <3>6. QED
      BY <3>3, <3>5 DEF Forecast!AtMost
  <2>4. QED
    BY <2>1, <2>2, <2>3
<1>9. QED
  BY <1>4, <1>5, <1>7, <1>8

\* ForecastConsistent follows from the history being one of samples
LEMMA ForecastAgrees ==
  ASSUME ForecastInv
  PROVE  Forecast!ForecastConsistent
<1> DEFINE T == Forecast!StableSamples(history)
           last == history[Forecast!Max(T)]
           burn == Forecast!Burn(history, T)
           f == Forecast!Calculate(history)
<1>1. CASE Forecast!Cardinality(T) < 2
  <2>1. f.projects = FALSE /\ f.reason \in {"no_samples", "one_sample"}
    BY <1>1 DEF Forecast!Calculate
  <2> HIDE DEF f
  <2>2. ~f.projects /\ f.reason # "none"
    BY <2>1
  <2>3. QED
    BY <2>2 DEF Forecast!ForecastConsistent, f
<1>2. CASE ~(Forecast!Cardinality(T) < 2)
  <2>1. T # {} /\ T \subseteq DOMAIN history /\ IsFiniteSet(T)
    <3>1. T \subseteq DOMAIN history /\ IsFiniteSet(T)
      BY StableFinite
    <3>2. Cardinality({}) = 0
      BY FS_EmptySet
    <3>3. Forecast!Cardinality(T) = Cardinality(T)
      BY ForecastOperators
    <3> HIDE DEF T
    <3>4. QED
      BY <1>2, <3>1, <3>2, <3>3
  <2>2. /\ f.samples = T
        /\ f.projects => last.reset >= last.at
        /\ f.reason = "none" => burn.num # 0
        /\ f.projected = Forecast!ProjectedResetPercent(last, burn)
        /\ f.estimated90 = Forecast!EstimateThreshold(last, burn, 90)
        /\ f.estimated100 = Forecast!EstimateThreshold(last, burn, 100)
    BY <1>2 DEF Forecast!Calculate
  <2> HIDE DEF f
  <2>3. Forecast!Max(T) \in DOMAIN history
    BY <2>1, GreatestIndex
  <2>4. last.at \in Int /\ last.used \in 0..100 /\ last.reset \in Int
    BY <2>3, SampleFields
  <2>5. burn.num \in Nat /\ burn.den \in Nat \ {0}
    BY <2>1, BurnType
  <2> HIDE DEF T, last, burn
  <2>6. Forecast!AtMost(f.estimated90, f.estimated100)
    <3>1. PICK l : l = [used |-> last.used, at |-> 0, reset |-> 0]
      OBVIOUS
    <3>2. l.used = last.used /\ l.reset - l.at \in Nat
      BY <3>1
    <3>3. Forecast!AtMost(Forecast!EstimateThreshold(l, burn, 90),
                          Forecast!EstimateThreshold(l, burn, 100))
      BY <2>4, <2>5, <3>2, Agreement
    <3>4. \A t : Forecast!EstimateThreshold(l, burn, t) = Forecast!EstimateThreshold(last, burn, t)
      BY <3>2 DEF Forecast!EstimateThreshold
    <3>5. QED
      BY <2>2, <3>3, <3>4
  <2>7. ASSUME f.projects
        PROVE  /\ Forecast!AtMost(f.estimated100, [num |-> last.reset - last.at, den |-> 1])
                    <=> Forecast!AtMost([num |-> 100, den |-> 1], f.projected)
               /\ Forecast!AtMost([num |-> last.used, den |-> 1], f.projected)
    <3>1. PICK minutes \in Int : minutes = last.reset - last.at
      BY <2>4
    <3>2. minutes \in Nat
      BY <2>2, <2>4, <2>7, <3>1
    <3>3. /\ Forecast!AtMost(Forecast!EstimateThreshold(last, burn, 100),
                             [num |-> minutes, den |-> 1])
               <=> Forecast!AtMost([num |-> 100, den |-> 1],
                                   Forecast!ProjectedResetPercent(last, burn))
          /\ Forecast!AtMost([num |-> last.used, den |-> 1],
                             Forecast!ProjectedResetPercent(last, burn))
      BY <2>4, <2>5, <3>1, <3>2, Agreement
    <3>4. QED
      BY <2>2, <3>1, <3>3
  <2>8. history[Forecast!Max(f.samples)] = last
    BY <2>2 DEF last
  <2>9. QED
    BY <2>6, <2>7, <2>8 DEF Forecast!ForecastConsistent, f
<1>3. QED
  BY <1>1, <1>2

\* Every history is one of samples
THEOREM ForecastInvariant == Forecast!Spec => []ForecastInv
<1>1. Forecast!Init => ForecastInv
  BY DEF Forecast!Init, ForecastInv
<1>2. ForecastInv /\ [Forecast!Next]_(Forecast!vars) => ForecastInv'
  <2>1. ForecastInv /\ UNCHANGED Forecast!vars => ForecastInv'
    BY DEF ForecastInv, Forecast!vars
  <2>2. QED
    BY <2>1, ForecastRecord
<1>3. QED
  BY <1>1, <1>2, PTL DEF Forecast!Spec

\* A forecast is about the current window of the quota (stableSamples)
THEOREM ForecastOfWindow == CommandSpec => []CurrentWindowOnly
<1>1. CommandSpec => []ForecastInv
  BY CommandsAsSpecified, ForecastInvariant, PTL
<1>2. ForecastInv => CurrentWindowOnly
  BY CurrentWindow DEF CurrentWindowOnly
<1>3. QED
  BY <1>1, <1>2, PTL

\* The numbers of a forecast agree with each other (Calculate)
THEOREM ForecastNumbers == CommandSpec => []ForecastConsistent
<1>1. CommandSpec => []ForecastInv
  BY CommandsAsSpecified, ForecastInvariant, PTL
<1>2. ForecastInv => ForecastConsistent
  BY ForecastAgrees DEF ForecastConsistent
<1>3. QED
  BY <1>1, <1>2, PTL
=============================================================================
