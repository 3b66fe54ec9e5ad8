-------------------------- MODULE OvpnImportProofs --------------------------
(***************************************************************************)
(* What the loops of the importer and the emitters compute, for files and  *)
(* dictionaries of any size.                                               *)
(*                                                                         *)
(* The provers cannot apply an induction principle that is stated for a    *)
(* predicate or an operator, so induction is stated here for sets: a set   *)
(* of numbers (or of subsets, or of sequences) that has the first one and  *)
(* the next of each is the whole.  A fold is taken apart once per operator *)
(* that the model folds with.                                              *)
(***************************************************************************)
EXTENDS OvpnImport, ProfileProofs, FiniteSetTheorems, WellFoundedInduction

-----------------------------------------------------------------------------
(* Induction.                                                              *)

LEMMA NumberInduction ==
    ASSUME NEW P \in SUBSET Nat, 0 \in P, \A n \in P : n + 1 \in P
    PROVE  P = Nat
<1> DEFINE T == Nat \ P
           R == OpToRel(<, Nat)
<1> SUFFICES ASSUME T # {} PROVE FALSE OBVIOUS
<1>1. IsWellFoundedOn(R, Nat) BY NatLessThanWellFounded
<1>2. \A a, b \in Nat : a < b => <<a, b>> \in R BY DEF OpToRel
<1> HIDE DEF R
<1>3. PICK x \in T : \A y \in T : ~(<<y, x>> \in R) BY <1>1, WFMin, Zenon
<1>4. x \in Nat /\ x # 0 OBVIOUS
<1>5. x - 1 \in Nat /\ x - 1 < x /\ (x - 1) + 1 = x BY <1>4
<1>6. x - 1 \in P BY <1>2, <1>3, <1>4, <1>5
<1> QED BY <1>5, <1>6

(* A property of the empty set that a set has when it holds with one of    *)
(* its elements removed, whichever it is.                                  *)
LEMMA SubsetInduction ==
    ASSUME NEW S, IsFiniteSet(S), NEW Q \in SUBSET SUBSET S, {} \in Q,
           \A s \in SUBSET S : s # {} /\ (\A x \in s : s \ {x} \in Q) => s \in Q
    PROVE  Q = SUBSET S
<1> DEFINE P == {n \in Nat : \A s \in SUBSET S : Cardinality(s) = n => s \in Q}
<1>1. \A s \in SUBSET S : IsFiniteSet(s) /\ Cardinality(s) \in Nat
  BY FS_Subset, FS_CardinalityType
<1>2. 0 \in P BY <1>1, FS_EmptySet
<1>3. ASSUME NEW n \in P PROVE n + 1 \in P
  <2>1. SUFFICES ASSUME NEW s \in SUBSET S, Cardinality(s) = n + 1 PROVE s \in Q OBVIOUS
  <2>2. s # {} BY <2>1, FS_EmptySet
  <2>3. ASSUME NEW x \in s PROVE s \ {x} \in Q
    <3>1. Cardinality(s \ {x}) = n BY <1>1, <2>1, FS_RemoveElement
    <3>2. s \ {x} \in SUBSET S OBVIOUS
    <3> QED BY <3>1, <3>2
  <2> QED BY <2>2, <2>3
<1>4. P = Nat
  <2>1. P \subseteq Nat OBVIOUS
  <2> HIDE DEF P
  <2> QED BY <1>2, <1>3, <2>1, NumberInduction
<1> QED BY <1>1, <1>4

LEMMA SequenceInduction ==
    ASSUME NEW D, NEW Q \in SUBSET Seq(D), <<>> \in Q,
           \A t \in Q, l \in D : Append(t, l) \in Q
    PROVE  Q = Seq(D)
<1> DEFINE P == {n \in Nat : \A t \in Seq(D) : Len(t) = n => t \in Q}
<1>1. 0 \in P
  <2>1. \A t \in Seq(D) : Len(t) = 0 => t = <<>> BY EmptySeq
  <2> QED BY <2>1
<1>2. ASSUME NEW n \in P PROVE n + 1 \in P
  <2>1. SUFFICES ASSUME NEW t \in Seq(D), Len(t) = n + 1 PROVE t \in Q OBVIOUS
  <2>2. t # <<>> BY <2>1, EmptySeq
  <2>3. PICK u \in Seq(D), l \in D : t = Append(u, l) BY <2>2, SequenceEmptyOrAppend
  <2>4. Len(u) = n
    <3>1. Len(t) = Len(u) + 1 /\ Len(u) \in Nat BY <2>3, AppendProperties, LenProperties
    <3> QED BY <2>1, <3>1
  <2> QED BY <2>3, <2>4
<1>3. P = Nat
  <2>1. P \subseteq Nat OBVIOUS
  <2> HIDE DEF P
  <2> QED BY <1>1, <1>2, <2>1, NumberInduction
<1>4. \A t \in Seq(D) : Len(t) \in Nat BY LenProperties
<1> QED BY <1>3, <1>4

-----------------------------------------------------------------------------
(* Folds, with their operator given as a function of each element.         *)

Foldable(S, V, base, ch, step) ==
    /\ IsFiniteSet(S)
    /\ base \in V
    /\ \A s \in SUBSET S : s # {} => ch[s] \in s
    /\ step \in [S -> [V -> V]]

IsFold(f, S, V, base, ch, step) ==
    /\ f \in [SUBSET S -> V]
    /\ \A s \in SUBSET S :
         f[s] = IF s = {} THEN base ELSE step[ch[s]][f[s \ {ch[s]}]]

LEMMA FoldExists ==
    ASSUME NEW S, NEW V, NEW base, NEW ch, NEW step, Foldable(S, V, base, ch, step)
    PROVE  \E f : IsFold(f, S, V, base, ch, step)
<1> USE DEF Foldable
<1> DEFINE Small(n) == {s \in SUBSET S : Cardinality(s) <= n}
           Solved(f, D) == \A s \in D : f[s] = IF s = {} THEN base
                                              ELSE step[ch[s]][f[s \ {ch[s]}]]
           P == {n \in Nat : \E f \in [Small(n) -> V] : Solved(f, Small(n))}
<1>1. \A s \in SUBSET S : IsFiniteSet(s) /\ Cardinality(s) \in Nat
  BY FS_Subset, FS_CardinalityType
<1>2. \A s \in SUBSET S : s # {} => /\ s \ {ch[s]} \in SUBSET S
                                    /\ Cardinality(s \ {ch[s]}) = Cardinality(s) - 1
  BY <1>1, FS_RemoveElement
<1>3. 0 \in P
  <2> DEFINE f == [s \in Small(0) |-> base]
  <2>1. \A s \in Small(0) : s = {} BY <1>1, FS_EmptySet
  <2>2. f \in [Small(0) -> V] OBVIOUS
  <2>3. Solved(f, Small(0)) BY <2>1
  <2> QED BY <2>2, <2>3
<1>4. ASSUME NEW n \in P PROVE n + 1 \in P
  <2>1. PICK f \in [Small(n) -> V] : Solved(f, Small(n)) BY <1>4
  <2> DEFINE g == [s \in Small(n + 1) |-> IF s = {} THEN base
                                          ELSE step[ch[s]][f[s \ {ch[s]}]]]
  <2>2. n \in Nat OBVIOUS
  <2>3. \A s \in Small(n + 1) : s # {} => s \ {ch[s]} \in Small(n) /\ ch[s] \in S
    BY <1>1, <1>2, <2>2
  <2>4. Small(n) \subseteq Small(n + 1) BY <1>1, <2>2
  <2>5. \A s \in Small(n) : g[s] = f[s] BY <2>1, <2>4
  <2> HIDE DEF Small
  <2>6. g \in [Small(n + 1) -> V]
    <3>1. ASSUME NEW s \in Small(n + 1), s # {} PROVE step[ch[s]][f[s \ {ch[s]}]] \in V
      <4>1. f[s \ {ch[s]}] \in V BY <2>1, <2>3, <3>1
      <4>2. step[ch[s]] \in [V -> V] BY <2>3, <3>1
      <4> QED BY <4>1, <4>2
    <3> QED BY <3>1
  <2>7. Solved(g, Small(n + 1)) BY <2>3, <2>5
  <2> HIDE DEF Solved, g
  <2>8. n + 1 \in Nat BY <2>2
  <2> QED BY <2>6, <2>7, <2>8
<1>5. P = Nat
  <2> HIDE DEF Small, Solved
  <2>1. P \subseteq Nat OBVIOUS
  <2> HIDE DEF P
  <2> QED BY <1>3, <1>4, <2>1, NumberInduction
<1>6. IsFiniteSet(S) /\ Cardinality(S) \in P BY <1>5, FS_CardinalityType
<1>7. Small(Cardinality(S)) = SUBSET S BY <1>1, FS_Subset
<1> QED BY <1>6, <1>7 DEF IsFold

(* Whatever solves the equation of a fold agrees with it, on the sets it   *)
(* is given for.                                                           *)
Solves(g, T, V, base, ch, step) ==
    /\ g[{}] = base
    /\ \A s \in SUBSET T : s # {} /\ g[s \ {ch[s]}] \in V
                               => g[s] = step[ch[s]][g[s \ {ch[s]}]]

SameOn(D, f, g) == \A s \in D : g[s] = f[s]

LEMMA FoldUnique ==
    ASSUME NEW S, NEW V, NEW base, NEW ch, NEW step, Foldable(S, V, base, ch, step),
           NEW f, IsFold(f, S, V, base, ch, step), NEW g, NEW T, T \in SUBSET S,
           Solves(g, T, V, base, ch, step)
    PROVE  SameOn(SUBSET T, f, g)
<1> USE DEF Solves, SameOn
<1> DEFINE Q == {s \in SUBSET T : g[s] = f[s]}
<1>1. IsFiniteSet(T) BY FS_Subset DEF Foldable
<1>2. {} \in Q BY DEF IsFold
<1>3. ASSUME NEW s \in SUBSET T, s # {}, \A x \in s : s \ {x} \in Q PROVE s \in Q
  <2>1. ch[s] \in s BY <1>3 DEF Foldable
  <2>2. g[s \ {ch[s]}] = f[s \ {ch[s]}] BY <1>3, <2>1
  <2>3. f[s \ {ch[s]}] \in V BY DEF IsFold
  <2>4. f[s] = step[ch[s]][f[s \ {ch[s]}]] BY <1>3 DEF IsFold
  <2> QED BY <1>3, <2>2, <2>3, <2>4
<1>4. Q \in SUBSET SUBSET T OBVIOUS
<1> HIDE DEF Q
<1>5. Q = SUBSET T BY <1>1, <1>2, <1>3, <1>4, SubsetInduction
<1> QED BY <1>5 DEF Q

LEMMA FiniteMax ==
    ASSUME NEW S \in SUBSET Int, IsFiniteSet(S), S # {}
    PROVE  Max(S) \in S /\ \A y \in S : Max(S) >= y
<1> DEFINE Q == {s \in SUBSET S : s # {} => \E x \in s : \A y \in s : x >= y}
<1>1. {} \in Q OBVIOUS
<1>2. ASSUME NEW s \in SUBSET S, s # {}, \A x \in s : s \ {x} \in Q PROVE s \in Q
  <2>1. PICK z \in s : TRUE BY <1>2
  <2>2. CASE s = {z} BY <2>1, <2>2
  <2>3. CASE s # {z}
    <3>1. PICK x \in s \ {z} : \A y \in s \ {z} : x >= y BY <1>2, <2>1, <2>3
    <3>2. CASE x >= z BY <3>1, <3>2
    <3>3. CASE ~(x >= z) BY <2>1, <3>1, <3>3
    <3> QED BY <3>2, <3>3
  <2> QED BY <2>2, <2>3
<1>3. Q \in SUBSET SUBSET S OBVIOUS
<1> HIDE DEF Q
<1>4. Q = SUBSET S BY <1>1, <1>2, <1>3, SubsetInduction
<1>5. \E x \in S : \A y \in S : x >= y BY <1>4 DEF Q
<1> QED BY <1>5 DEF Max

(* The last index of a list, and the indices before it.                    *)
Latest(S) == [s \in SUBSET S |-> Max(s)]

LEMMA LatestChosen ==
    ASSUME NEW S \in SUBSET Nat, IsFiniteSet(S)
    PROVE  \A s \in SUBSET S : s # {} => Latest(S)[s] \in s
<1>1. \A s \in SUBSET S : IsFiniteSet(s) BY FS_Subset
<1>2. \A s \in SUBSET S : s \in SUBSET Int OBVIOUS
<1> QED BY <1>1, <1>2, FiniteMax DEF Latest

-----------------------------------------------------------------------------
(* A list may have gaps in its numbering: it is a function on finitely     *)
(* many numbers, and Before is the list without its last element.          *)
Listed(h, D) == /\ h = [i \in DOMAIN h |-> h[i]]
                /\ DOMAIN h \in SUBSET Nat
                /\ IsFiniteSet(DOMAIN h)
                /\ \A i \in DOMAIN h : h[i] \in D

Last1(h) == Max(DOMAIN h)

Before(h) == [i \in DOMAIN h \ {Last1(h)} |-> h[i]]

(* f is what a loop over h that starts with base and applies sd has        *)
(* computed after each of its elements.                                    *)
IsRun(f, h, V, base, sd) ==
    IsFold(f, DOMAIN h, V, base, Latest(DOMAIN h), [i \in DOMAIN h |-> sd[h[i]]])

LEMMA RunFoldable ==
    ASSUME NEW h, NEW D, NEW V, NEW base \in V, NEW sd \in [D -> [V -> V]], Listed(h, D)
    PROVE  Foldable(DOMAIN h, V, base, Latest(DOMAIN h), [i \in DOMAIN h |-> sd[h[i]]])
<1>1. \A s \in SUBSET DOMAIN h : s # {} => Latest(DOMAIN h)[s] \in s
  BY LatestChosen DEF Listed
<1>2. [i \in DOMAIN h |-> sd[h[i]]] \in [DOMAIN h -> [V -> V]] BY DEF Listed
<1> QED BY <1>1, <1>2 DEF Foldable, Listed

LEMMA RunExists ==
    ASSUME NEW h, NEW D, NEW V, NEW base \in V, NEW sd \in [D -> [V -> V]], Listed(h, D)
    PROVE  \E f : IsRun(f, h, V, base, sd)
<1> DEFINE ch == Latest(DOMAIN h)
           step == [i \in DOMAIN h |-> sd[h[i]]]
<1>1. Foldable(DOMAIN h, V, base, ch, step) BY RunFoldable
<1> HIDE DEF ch, step
<1>2. \E f : IsFold(f, DOMAIN h, V, base, ch, step) BY <1>1, FoldExists, Zenon
<1> QED BY <1>2 DEF IsRun, ch, step

LEMMA BeforeListed ==
    ASSUME NEW h, NEW D, Listed(h, D) PROVE Listed(Before(h), D)
<1>1. DOMAIN Before(h) = DOMAIN h \ {Last1(h)} BY DEF Before
<1>2. IsFiniteSet(DOMAIN h \ {Last1(h)}) BY FS_Subset DEF Listed
<1> QED BY <1>1, <1>2 DEF Before, Listed

LEMMA LastListed ==
    ASSUME NEW h, NEW D, Listed(h, D), DOMAIN h # {}
    PROVE  Last1(h) \in DOMAIN h /\ \A i \in DOMAIN h : i <= Last1(h)
<1>1. DOMAIN h \in SUBSET Int BY DEF Listed
<1>2. Last1(h) \in DOMAIN h /\ \A i \in DOMAIN h : Last1(h) >= i
  BY <1>1, FiniteMax DEF Listed, Last1
<1> QED BY <1>1, <1>2

LEMMA RunStep ==
    ASSUME NEW h, NEW D, NEW V, NEW base \in V, NEW sd \in [D -> [V -> V]], Listed(h, D),
           NEW f, IsRun(f, h, V, base, sd), NEW g, IsRun(g, Before(h), V, base, sd),
           DOMAIN h # {}
    PROVE  f[DOMAIN h] = sd[h[Last1(h)]][g[DOMAIN Before(h)]]
<1> DEFINE S == DOMAIN h
           T == DOMAIN Before(h)
           ch == Latest(S)
           step == [i \in S |-> sd[h[i]]]
<1>1. T = S \ {Last1(h)} /\ Last1(h) \in S BY LastListed DEF Before
<1>2. Foldable(S, V, base, ch, step) BY RunFoldable
<1>3. IsFold(f, S, V, base, ch, step) BY DEF IsRun
<1>4. IsFold(g, T, V, base, Latest(T), [i \in T |-> sd[Before(h)[i]]]) BY DEF IsRun
<1>5. g[{}] = base BY <1>4 DEF IsFold
<1>6. ASSUME NEW s \in SUBSET T, s # {} PROVE g[s] = step[ch[s]][g[s \ {ch[s]}]]
  <2>1. s \in SUBSET S /\ Latest(T)[s] = Max(s) /\ ch[s] = Max(s) BY <1>1 DEF Latest
  <2>2. ch[s] \in s BY <1>2, <1>6, <2>1 DEF Foldable
  <2>3. g[s] = [i \in T |-> sd[Before(h)[i]]][ch[s]][g[s \ {ch[s]}]]
    BY <1>4, <1>6, <2>1 DEF IsFold
  <2>4. ch[s] \in T /\ ch[s] \in S BY <1>1, <2>2
  <2>5. Before(h)[ch[s]] = h[ch[s]] BY <1>1, <2>4 DEF Before
  <2> HIDE DEF ch, T, S
  <2>6. [i \in T |-> sd[Before(h)[i]]][ch[s]] = step[ch[s]] BY <2>4, <2>5
  <2> QED BY <2>3, <2>6
<1>7. SameOn(SUBSET T, f, g)
  <2>1. T \in SUBSET S BY <1>1
  <2>2. Solves(g, T, V, base, ch, step) BY <1>5, <1>6 DEF Solves
  <2> HIDE DEF S, T, ch, step
  <2> QED BY <1>2, <1>3, <2>1, <2>2, FoldUnique, Zenon
<1>8. ch[S] = Last1(h) BY DEF Latest, Last1
<1>9. f[S] = step[Last1(h)][f[T]] BY <1>1, <1>3, <1>8 DEF IsFold
<1> QED BY <1>1, <1>7, <1>9 DEF SameOn

(* A function that satisfies the recursive equation of the loop over h.    *)
Computes(g, h, V, base, sd) ==
    /\ g[{}] = base
    /\ \A s \in SUBSET DOMAIN h : s # {} /\ g[s \ {Max(s)}] \in V
         => g[s] = sd[h[Max(s)]][g[s \ {Max(s)}]]

LEMMA RunUnique ==
    ASSUME NEW h, NEW D, NEW V, NEW base \in V, NEW sd \in [D -> [V -> V]], Listed(h, D),
           NEW f, IsRun(f, h, V, base, sd), NEW g, Computes(g, h, V, base, sd)
    PROVE  SameOn({DOMAIN h}, f, g)
<1> DEFINE S == DOMAIN h
           ch == Latest(S)
           step == [i \in S |-> sd[h[i]]]
<1>1. Foldable(S, V, base, ch, step) BY RunFoldable
<1>2. IsFold(f, S, V, base, ch, step) BY DEF IsRun
<1>3. Solves(g, S, V, base, ch, step)
  <2>1. \A s \in SUBSET S : ch[s] = Max(s) BY DEF Latest
  <2>2. \A s \in SUBSET S : s # {} => step[ch[s]] = sd[h[ch[s]]] BY <1>1 DEF Foldable
  <2>3. ASSUME NEW s \in SUBSET S, s # {}, g[s \ {ch[s]}] \in V
        PROVE  g[s] = step[ch[s]][g[s \ {ch[s]}]]
    <3>1. g[s] = sd[h[Max(s)]][g[s \ {Max(s)}]] BY <2>1, <2>3 DEF Computes
    <3> QED BY <2>1, <2>2, <2>3, <3>1
  <2> QED BY <2>3 DEF Computes, Solves
<1>4. S \in SUBSET S OBVIOUS
<1> HIDE DEF S, ch, step
<1>5. SameOn(SUBSET S, f, g) BY <1>1, <1>2, <1>3, <1>4, FoldUnique, Zenon
<1> QED BY <1>4, <1>5 DEF SameOn, S

Equation(f, h, V, base, sd) ==
    /\ f \in [SUBSET DOMAIN h -> V]
    /\ f[{}] = base
    /\ \A s \in SUBSET DOMAIN h : s # {} =>
         /\ Max(s) \in s
         /\ f[s \ {Max(s)}] \in V
         /\ f[s] = sd[h[Max(s)]][f[s \ {Max(s)}]]

LEMMA RunEquation ==
    ASSUME NEW h, NEW D, NEW V, NEW base \in V, NEW sd \in [D -> [V -> V]], Listed(h, D),
           NEW f, IsRun(f, h, V, base, sd)
    PROVE  Equation(f, h, V, base, sd)
<1> DEFINE S == DOMAIN h
           ch == Latest(S)
           step == [i \in S |-> sd[h[i]]]
<1>1. Foldable(S, V, base, ch, step) BY RunFoldable
<1>2. IsFold(f, S, V, base, ch, step) BY DEF IsRun
<1>3. f \in [SUBSET S -> V] /\ f[{}] = base BY <1>2 DEF IsFold
<1>4. ASSUME NEW s \in SUBSET S, s # {}
      PROVE  /\ Max(s) \in s
             /\ f[s \ {Max(s)}] \in V
             /\ f[s] = sd[h[Max(s)]][f[s \ {Max(s)}]]
  <2>1. ch[s] = Max(s) BY DEF Latest
  <2>2. Max(s) \in s BY <1>1, <1>4, <2>1 DEF Foldable
  <2>3. f[s] = step[ch[s]][f[s \ {ch[s]}]] BY <1>2, <1>4 DEF IsFold
  <2>4. step[ch[s]] = sd[h[ch[s]]] BY <2>1, <2>2
  <2> QED BY <1>3, <2>1, <2>2, <2>3, <2>4
<1> QED BY <1>3, <1>4 DEF Equation

-----------------------------------------------------------------------------
(* InOrder: the elements of a list, without its gaps.                      *)
Appending(D) == [d \in D |-> [v \in Seq(D) |-> Append(v, d)]]

LEMMA AppendingType == ASSUME NEW D PROVE Appending(D) \in [D -> [Seq(D) -> Seq(D)]]
BY AppendProperties DEF Appending

LEMMA InOrderRun ==
    ASSUME NEW h, NEW D, Listed(h, D)
    PROVE  \E f : IsRun(f, h, Seq(D), <<>>, Appending(D)) /\ InOrder(h) = f[DOMAIN h]
<1> DEFINE V == Seq(D)
           sd == Appending(D)
           S == DOMAIN h
           base == <<>>
           iter == CHOOSE g : g = [s \in SUBSET S |-> IF s = {} THEN <<>>
                                     ELSE Append(g[s \ {Max(s)}], h[Max(s)])]
<1>1. sd \in [D -> [V -> V]] /\ base \in V BY AppendingType
<1>2. InOrder(h) = iter[S] BY DEF InOrder, FoldLeft, MapThenFoldSet
<1> HIDE DEF V, sd, base
<1>3. PICK f : IsRun(f, h, V, base, sd) BY <1>1, RunExists, Zenon
<1>4. Equation(f, h, V, base, sd) BY <1>1, <1>3, RunEquation, Zenon
<1>5. \A i \in S, v \in V : sd[h[i]][v] = Append(v, h[i]) BY DEF sd, V, Appending, Listed
<1>6. f = [s \in SUBSET S |-> IF s = {} THEN <<>> ELSE Append(f[s \ {Max(s)}], h[Max(s)])]
  BY <1>4, <1>5 DEF Equation, base
<1>7. iter = [s \in SUBSET S |-> IF s = {} THEN <<>>
                                ELSE Append(iter[s \ {Max(s)}], h[Max(s)])]
  BY <1>6
<1> HIDE DEF iter
<1>8. Computes(iter, h, V, base, sd)
  <2>1. iter[{}] = base BY <1>7 DEF base
  <2>2. ASSUME NEW s \in SUBSET S, s # {}, iter[s \ {Max(s)}] \in V
        PROVE  iter[s] = sd[h[Max(s)]][iter[s \ {Max(s)}]]
    <3>1. iter[s] = Append(iter[s \ {Max(s)}], h[Max(s)]) BY <1>7, <2>2
    <3>2. Max(s) \in S BY <1>4, <2>2 DEF Equation
    <3> QED BY <1>5, <2>2, <3>1, <3>2
  <2> QED BY <2>1, <2>2 DEF Computes
<1>9. SameOn({DOMAIN h}, f, iter) BY <1>1, <1>3, <1>8, RunUnique, Zenon
<1> QED BY <1>2, <1>3, <1>9 DEF V, sd, base, SameOn

(* A result of a loop: nothing was done, or the last element was handled   *)
(* after the others.                                                       *)
Stepped(r, r0, h, V, base, sd) ==
    /\ r \in V
    /\ r = IF DOMAIN h = {} THEN base ELSE sd[h[Last1(h)]][r0]

LEMMA RunStepped ==
    ASSUME NEW h, NEW D, NEW V, NEW base \in V, NEW sd \in [D -> [V -> V]], Listed(h, D),
           NEW f, IsRun(f, h, V, base, sd), NEW g, IsRun(g, Before(h), V, base, sd)
    PROVE  Stepped(f[DOMAIN h], g[DOMAIN Before(h)], h, V, base, sd)
<1>1. Equation(f, h, V, base, sd) BY RunEquation, Zenon
<1>2. f[DOMAIN h] \in V BY <1>1 DEF Equation
<1>3. CASE DOMAIN h = {} BY <1>1, <1>2, <1>3 DEF Equation, Stepped
<1>4. CASE DOMAIN h # {}
  <2>1. f[DOMAIN h] = sd[h[Last1(h)]][g[DOMAIN Before(h)]] BY <1>4, RunStep
  <2> QED BY <1>2, <1>4, <2>1 DEF Stepped
<1> QED BY <1>3, <1>4

LEMMA InOrderIs ==
    ASSUME NEW h, NEW D, Listed(h, D)
    PROVE  /\ InOrder(h) \in Seq(D)
           /\ InOrder(Before(h)) \in Seq(D)
           /\ InOrder(h) = IF DOMAIN h = {} THEN <<>>
                           ELSE Append(InOrder(Before(h)), h[Last1(h)])
<1> DEFINE V == Seq(D)
           sd == Appending(D)
           base == <<>>
<1>1. sd \in [D -> [V -> V]] /\ base \in V BY AppendingType
<1>2. Listed(Before(h), D) BY BeforeListed
<1>3. PICK f : IsRun(f, h, V, base, sd) /\ InOrder(h) = f[DOMAIN h] BY InOrderRun
<1>4. PICK g : IsRun(g, Before(h), V, base, sd) /\ InOrder(Before(h)) = g[DOMAIN Before(h)]
  BY <1>2, InOrderRun
<1> HIDE DEF V, sd, base
<1>5. Stepped(f[DOMAIN h], g[DOMAIN Before(h)], h, V, base, sd)
  BY <1>1, <1>3, <1>4, RunStepped, Zenon
<1>6. g[DOMAIN Before(h)] \in V
  <2>1. Equation(g, Before(h), V, base, sd) BY <1>1, <1>2, <1>4, RunEquation, Zenon
  <2> QED BY <2>1 DEF Equation
<1>7. DOMAIN h # {} => h[Last1(h)] \in D BY LastListed DEF Listed
<1> QED BY <1>3, <1>4, <1>5, <1>6, <1>7 DEF Stepped, V, sd, base, Appending

(* A sequence is a list without gaps.                                      *)
LEMMA SeqListed ==
    ASSUME NEW D, NEW t \in Seq(D) PROVE Listed(t, D) /\ (DOMAIN t = {} <=> t = <<>>)
<1>1. DOMAIN t = 1..Len(t) /\ Len(t) \in Nat BY LenProperties
<1>2. IsFiniteSet(1..Len(t)) BY <1>1, FS_Interval
<1>3. t = [i \in DOMAIN t |-> t[i]] /\ \A i \in DOMAIN t : t[i] \in D BY <1>1, ElementOfSeq
<1>4. DOMAIN t = {} <=> t = <<>>
  <2>1. t = <<>> <=> Len(t) = 0 BY EmptySeq
  <2>2. Len(t) # 0 => 1 \in 1..Len(t) BY <1>1
  <2>3. Len(t) = 0 => \A i \in 1..Len(t) : FALSE BY <1>1
  <2> QED BY <1>1, <2>1, <2>2, <2>3
<1> QED BY <1>1, <1>2, <1>3, <1>4 DEF Listed

LEMMA AppendLast ==
    ASSUME NEW D, NEW t \in Seq(D), NEW l \in D
    PROVE  /\ Append(t, l) \in Seq(D)
           /\ DOMAIN Append(t, l) # {}
           /\ Last1(Append(t, l)) = Len(t) + 1
           /\ Append(t, l)[Last1(Append(t, l))] = l
           /\ Before(Append(t, l)) = t
<1> DEFINE u == Append(t, l)
           n == Len(t)
<1>1. n \in Nat /\ DOMAIN t = 1..n BY LenProperties
<1>2. u \in Seq(D) /\ Len(u) = n + 1 /\ DOMAIN u = 1..(n + 1) /\ u[n + 1] = l
      /\ \A i \in 1..n : u[i] = t[i]
  BY <1>1, AppendProperties
<1>3. Listed(u, D) BY <1>2, SeqListed
<1>4. n + 1 \in DOMAIN u BY <1>1, <1>2
<1>5. Last1(u) \in DOMAIN u /\ n + 1 <= Last1(u) BY <1>3, <1>4, LastListed
<1>6. Last1(u) = n + 1 BY <1>1, <1>2, <1>5
<1>7. DOMAIN u \ {n + 1} = DOMAIN t BY <1>1, <1>2
<1>8. Before(u) = [i \in DOMAIN t |-> t[i]] BY <1>1, <1>2, <1>6, <1>7 DEF Before
<1>9. t = [i \in DOMAIN t |-> t[i]] BY SeqListed DEF Listed
<1> QED BY <1>2, <1>4, <1>6, <1>8, <1>9

LEMMA InOrderSeq ==
    ASSUME NEW D PROVE \A t \in Seq(D) : InOrder(t) = t
<1> DEFINE Q == {t \in Seq(D) : InOrder(t) = t}
<1>1. <<>> \in Q
  <2>1. <<>> \in Seq(D) OBVIOUS
  <2>2. Listed(<<>>, D) /\ DOMAIN <<>> = {} BY <2>1, SeqListed
  <2> QED BY <2>1, <2>2, InOrderIs
<1>2. ASSUME NEW t \in Q, NEW l \in D PROVE Append(t, l) \in Q
  <2>1. t \in Seq(D) /\ InOrder(t) = t OBVIOUS
  <2>2. Append(t, l) \in Seq(D) /\ DOMAIN Append(t, l) # {}
        /\ Append(t, l)[Last1(Append(t, l))] = l /\ Before(Append(t, l)) = t
    BY <2>1, AppendLast
  <2>3. Listed(Append(t, l), D) BY <2>2, SeqListed
  <2>4. InOrder(Append(t, l)) = Append(t, l) BY <2>1, <2>2, <2>3, InOrderIs
  <2> QED BY <2>2, <2>4
<1>3. Q \in SUBSET Seq(D) OBVIOUS
<1> HIDE DEF Q
<1>4. Q = Seq(D) BY <1>1, <1>2, <1>3, SequenceInduction
<1> QED BY <1>4 DEF Q

-----------------------------------------------------------------------------
(* What a directive does to the dictionary that is being built.            *)

(* The keys the directives of a file can set.                              *)
ImportKeys ==
    {Copied[n] : n \in DOMAIN Copied} \cup Flags
      \cup {"ca", "cert", "key", "static-key", "static-key-direction", "ta", "ta-dir",
            "proto-tcp", "mssfix", "compress", "comp-lzo", "tls-version-min",
            "tls-version-min-or-highest", "verify-x509-name", "crl-verify-dir",
            "crl-verify-file", "local-ip", "remote-ip", "ping", "ping-restart",
            "proxy-type", "proxy-server", "proxy-port", "http-proxy-auth-file"}

(* Dictionaries over the keys of K.                                        *)
Dicts(K) == UNION {[S -> Strings \ {""}] : S \in SUBSET K}

Nothing == [k \in {} |-> ""]

LEMMA DictIs ==
    ASSUME NEW K, NEW d
    PROVE  d \in Dicts(K) <=> /\ d = [k \in DOMAIN d |-> d[k]]
                              /\ DOMAIN d \subseteq K
                              /\ \A k \in DOMAIN d : d[k] \in Strings /\ d[k] # ""
<1>1. ASSUME d \in Dicts(K)
      PROVE  /\ d = [k \in DOMAIN d |-> d[k]]
             /\ DOMAIN d \subseteq K
             /\ \A k \in DOMAIN d : d[k] \in Strings /\ d[k] # ""
  <2>1. PICK S \in SUBSET K : d \in [S -> Strings \ {""}] BY <1>1 DEF Dicts
  <2> QED BY <2>1
<1>2. ASSUME d = [k \in DOMAIN d |-> d[k]], DOMAIN d \subseteq K,
             \A k \in DOMAIN d : d[k] \in Strings /\ d[k] # ""
      PROVE  d \in Dicts(K)
  <2>1. d \in [DOMAIN d -> Strings \ {""}] BY <1>2
  <2> QED BY <1>2, <2>1 DEF Dicts
<1> QED BY <1>1, <1>2

(* b is a with the items of o, and without some of the keys of R.          *)
Turns(b, a, o, R) ==
    /\ \A x \in DOMAIN o : x \in DOMAIN b /\ b[x] = o[x]
    /\ \A x \in DOMAIN b : x \in DOMAIN o \/ (x \in DOMAIN a /\ b[x] = a[x])
    /\ \A x \in DOMAIN a : x \in DOMAIN b \/ x \in R

LEMMA WithAllIs ==
    ASSUME NEW a, NEW ks, NEW v
    PROVE  /\ DOMAIN WithAll(a, ks, v) = DOMAIN a \cup ks
           /\ \A x \in DOMAIN a \cup ks : WithAll(a, ks, v)[x] = IF x \in ks THEN v ELSE a[x]
BY DEF WithAll

LEMMA WithIs ==
    ASSUME NEW a, NEW k, NEW v
    PROVE  /\ DOMAIN With(a, k, v) = IF v = "" THEN DOMAIN a \ {k} ELSE DOMAIN a \cup {k}
           /\ \A x \in DOMAIN With(a, k, v) : With(a, k, v)[x] = IF x = k THEN v ELSE a[x]
BY DEF With, WithAll, Without

LEMMA DictWithAll ==
    ASSUME NEW K, NEW a \in Dicts(K), NEW ks \in SUBSET K, NEW v \in Strings, v # ""
    PROVE  WithAll(a, ks, v) \in Dicts(K)
<1>1. DOMAIN a \subseteq K /\ \A x \in DOMAIN a : a[x] \in Strings /\ a[x] # "" BY DictIs
<1>2. WithAll(a, ks, v) = [x \in DOMAIN WithAll(a, ks, v) |-> WithAll(a, ks, v)[x]]
  BY DEF WithAll
<1> DEFINE w == WithAll(a, ks, v)
<1>3. DOMAIN w = DOMAIN a \cup ks /\ \A x \in DOMAIN w : w[x] = IF x \in ks THEN v ELSE a[x]
  BY DEF WithAll
<1> HIDE DEF w
<1>4. DOMAIN w \subseteq K /\ \A x \in DOMAIN w : w[x] \in Strings /\ w[x] # "" BY <1>1, <1>3
<1>5. w = [x \in DOMAIN w |-> w[x]] BY <1>2 DEF w
<1> QED BY <1>4, <1>5, DictIs DEF w

LEMMA DictWith ==
    ASSUME NEW K, NEW a \in Dicts(K), NEW k \in K, NEW v \in Strings
    PROVE  With(a, k, v) \in Dicts(K)
<1>1. DOMAIN a \subseteq K /\ \A x \in DOMAIN a : a[x] \in Strings /\ a[x] # "" BY DictIs
<1>2. With(a, k, v) = [x \in DOMAIN With(a, k, v) |-> With(a, k, v)[x]]
  BY DEF With, WithAll, Without
<1> DEFINE w == With(a, k, v)
<1>3. /\ DOMAIN w = IF v = "" THEN DOMAIN a \ {k} ELSE DOMAIN a \cup {k}
      /\ \A x \in DOMAIN w : w[x] = IF x = k THEN v ELSE a[x]
  BY DEF With, WithAll, Without
<1> HIDE DEF w
<1>4. DOMAIN w \subseteq K /\ \A x \in DOMAIN w : w[x] \in Strings /\ w[x] # "" BY <1>1, <1>3
<1>5. w = [x \in DOMAIN w |-> w[x]] BY <1>2 DEF w
<1> QED BY <1>4, <1>5, DictIs DEF w

LEMMA TurnsNot == ASSUME NEW a, NEW R PROVE Turns(a, a, Nothing, R)
BY DEF Turns, Nothing

LEMMA TurnsWith ==
    ASSUME NEW a, NEW b, NEW o, NEW R, Turns(b, a, o, R), NEW k, NEW v, v = "" => k \in R
    PROVE  Turns(With(b, k, v), a, With(o, k, v), R)
<1> DEFINE w == With(b, k, v)
           p == With(o, k, v)
<1>1. /\ DOMAIN w = IF v = "" THEN DOMAIN b \ {k} ELSE DOMAIN b \cup {k}
      /\ \A x \in DOMAIN w : w[x] = IF x = k THEN v ELSE b[x]
  BY DEF With, WithAll, Without
<1>2. /\ DOMAIN p = IF v = "" THEN DOMAIN o \ {k} ELSE DOMAIN o \cup {k}
      /\ \A x \in DOMAIN p : p[x] = IF x = k THEN v ELSE o[x]
  BY DEF With, WithAll, Without
<1> HIDE DEF w, p
<1>3. Turns(w, a, p, R) BY <1>1, <1>2 DEF Turns
<1> QED BY <1>3 DEF w, p

LEMMA TurnsWithAll ==
    ASSUME NEW a, NEW b, NEW o, NEW R, Turns(b, a, o, R), NEW ks, NEW v
    PROVE  Turns(WithAll(b, ks, v), a, WithAll(o, ks, v), R)
<1> DEFINE w == WithAll(b, ks, v)
           p == WithAll(o, ks, v)
<1>1. DOMAIN w = DOMAIN b \cup ks /\ \A x \in DOMAIN w : w[x] = IF x \in ks THEN v ELSE b[x]
  BY DEF WithAll
<1>2. DOMAIN p = DOMAIN o \cup ks /\ \A x \in DOMAIN p : p[x] = IF x \in ks THEN v ELSE o[x]
  BY DEF WithAll
<1> HIDE DEF w, p
<1>3. Turns(w, a, p, R) BY <1>1, <1>2 DEF Turns
<1> QED BY <1>3 DEF w, p

-----------------------------------------------------------------------------
(* One directive.                                                          *)

(* The directives of a file the tables can read.                           *)
Directives ==
    {d \in Seq(Strings) :
       /\ d # <<>>
       /\ IsBlob(d) => Len(d) = 2
       /\ d[1] = "verify-x509-name" => Spelled(X509Names, <<Arg1(d), Arg0(d)>>)}

Entries == [bracketed : BOOLEAN, host : Strings, tail : Seq(Strings)]

Shows == {"auth-user-pass", "ca", "cert", "key", "secret", "tls-auth"}

Accs == [data : Dicts(ImportKeys), remotes : Seq(Entries), routes : Seq(Directives),
         have : SUBSET Shows, keydir : Strings]

(* An empty argument takes an item away, for these keys.                   *)
Definite(d) == \A i \in 2..Len(d) : d[i] # ""

Removed(d) ==
    IF Definite(d) \/ d[1] \notin {"ifconfig", "keepalive", "http-proxy"} THEN {}
    ELSE {"local-ip", "remote-ip", "ping", "ping-restart", "http-proxy-auth-file"}

(* What a directive adds to an empty dictionary is what it adds to any.    *)
Effect(b, a, o, d) ==
    /\ b \in Accs
    /\ Turns(b.data, a.data, o.data, Removed(d))
    /\ b.have = a.have \cup o.have
    /\ b.remotes = IF d[1] = "remote" THEN Append(a.remotes, RemoteEntry(d)) ELSE a.remotes
    /\ b.routes = IF d[1] = "route" THEN Append(a.routes, d) ELSE a.routes
    /\ b.keydir = IF d[1] = "key-direction" /\ Arg0(d) # "" THEN Arg0(d) ELSE a.keydir

LEMMA DirectiveArgs ==
    ASSUME NEW d \in Directives
    PROVE  /\ Len(d) \in Nat /\ Len(d) >= 1 /\ DOMAIN d = 1..Len(d)
           /\ Arg0(d) \in Strings /\ Arg1(d) \in Strings
           /\ Len(d) >= 2 => d[2] \in Strings /\ Arg0(d) = d[2]
           /\ Len(d) >= 3 => d[3] \in Strings /\ Arg1(d) = d[3]
           /\ Len(d) >= 4 => d[4] \in Strings
           /\ Definite(d) /\ Len(d) >= 2 => d[2] # ""
           /\ Definite(d) /\ Len(d) >= 3 => d[3] # ""
           /\ Definite(d) /\ Len(d) >= 4 => d[4] # ""
<1>1. d \in Seq(Strings) /\ d # <<>> BY DEF Directives
<1>2. Len(d) \in Nat /\ DOMAIN d = 1..Len(d) BY <1>1, LenProperties
<1>3. Len(d) # 0 BY <1>1, EmptySeq
<1>4. \A i \in 1..Len(d) : d[i] \in Strings BY <1>1, ElementOfSeq
<1>5. "" \in Strings BY StringAssumption
<1>6. \A i \in {2, 3, 4} : Len(d) >= i => i \in 1..Len(d) /\ i \in 2..Len(d) BY <1>2
<1>7. \A i \in {2, 3, 4} : Len(d) >= i => d[i] \in Strings /\ (Definite(d) => d[i] # "")
  BY <1>4, <1>6 DEF Definite
<1>8. /\ Arg0(d) = IF Len(d) >= 2 THEN d[2] ELSE ""
      /\ Arg1(d) = IF Len(d) >= 3 THEN d[3] ELSE ""
  BY DEF Arg0, Arg1
<1>9. /\ Len(d) >= 2 => d[2] \in Strings /\ (Definite(d) => d[2] # "")
      /\ Len(d) >= 3 => d[3] \in Strings /\ (Definite(d) => d[3] # "")
      /\ Len(d) >= 4 => d[4] \in Strings /\ (Definite(d) => d[4] # "")
  BY <1>7
<1>10. Len(d) >= 1 BY <1>2, <1>3
<1>11. Arg0(d) \in Strings /\ Arg1(d) \in Strings BY <1>5, <1>8, <1>9
<1>12. (Len(d) >= 2 => Arg0(d) = d[2]) /\ (Len(d) >= 3 => Arg1(d) = d[3]) BY <1>8
<1> QED BY <1>2, <1>9, <1>10, <1>11, <1>12, Zenon

LEMMA StartType == Start \in Accs /\ Start.data = Nothing /\ Start.have = {}
<1>1. Nothing \in Dicts(ImportKeys) BY DictIs DEF Nothing
<1>2. "" \in Strings BY StringAssumption
<1>3. Start = [data |-> Nothing, remotes |-> <<>>, routes |-> <<>>, have |-> {}, keydir |-> ""]
  BY DEF Start, Nothing
<1>4. <<>> \in Seq(Entries) /\ <<>> \in Seq(Directives) OBVIOUS
<1>5. Start \in Accs BY <1>1, <1>2, <1>3, <1>4 DEF Accs
<1> QED BY <1>3, <1>5

(* acc with this dictionary and these credentials seen.                    *)
Upd(a, n, h) ==
    [data |-> n, remotes |-> a.remotes, routes |-> a.routes,
     have |-> a.have \cup h, keydir |-> a.keydir]

LEMMA UpdEffect ==
    ASSUME NEW a \in Accs, NEW d \in Directives, NEW n, NEW p, NEW h \in SUBSET Shows,
           n \in Dicts(ImportKeys), Turns(n, a.data, p, Removed(d)),
           NEW b, b = Upd(a, n, h), NEW o, o = Upd(Start, p, h),
           d[1] \notin {"remote", "route", "key-direction"}
    PROVE  Effect(b, a, o, d)
<1>1. b \in Accs BY DEF Upd, Accs
<1>2. o.data = p /\ o.have = h BY StartType DEF Upd
<1>3. b.data = n /\ b.have = a.have \cup h /\ b.remotes = a.remotes /\ b.routes = a.routes
      /\ b.keydir = a.keydir
  BY DEF Upd
<1> QED BY <1>1, <1>2, <1>3 DEF Effect

LEMMA EmptyEffect ==
    ASSUME NEW a \in Accs, NEW d \in Directives,
           ImportDirective(a, d) = a, ImportDirective(Start, d) = Start,
           d[1] \notin {"remote", "route", "key-direction"}
    PROVE  Effect(ImportDirective(a, d), a, ImportDirective(Start, d), d)
<1>1. Turns(a.data, a.data, Nothing, Removed(d)) BY TurnsNot
<1>2. Start.data = Nothing /\ Start.have = {} BY StartType
<1> QED BY <1>1, <1>2 DEF Effect

(* The directives that set an item of their own, whatever is there.        *)
LEMMA OneItemEffect ==
    ASSUME NEW a \in Accs, NEW d \in Directives, NEW k \in ImportKeys, NEW v \in Strings,
           v # "", NEW h \in SUBSET Shows,
           \A acc \in Accs : ImportDirective(acc, d) = Upd(acc, With(acc.data, k, v), h),
           d[1] \notin {"remote", "route", "key-direction"}
    PROVE  Effect(ImportDirective(a, d), a, ImportDirective(Start, d), d)
<1>1. Turns(With(a.data, k, v), a.data, With(Nothing, k, v), Removed(d))
  BY TurnsNot, TurnsWith
<1>2. With(a.data, k, v) \in Dicts(ImportKeys)
  <2>1. a.data \in Dicts(ImportKeys) BY DEF Accs
  <2> QED BY <2>1, DictWith
<1>3. ImportDirective(Start, d) = Upd(Start, With(Nothing, k, v), h) BY StartType
<1>4. ImportDirective(a, d) = Upd(a, With(a.data, k, v), h) OBVIOUS
<1> QED BY <1>1, <1>2, <1>3, <1>4, UpdEffect

LEMMA SomeItemsEffect ==
    ASSUME NEW a \in Accs, NEW d \in Directives, NEW ks \in SUBSET ImportKeys,
           NEW v \in Strings, v # "", NEW h \in SUBSET Shows,
           \A acc \in Accs : ImportDirective(acc, d) = Upd(acc, WithAll(acc.data, ks, v), h),
           d[1] \notin {"remote", "route", "key-direction"}
    PROVE  Effect(ImportDirective(a, d), a, ImportDirective(Start, d), d)
<1>1. Turns(WithAll(a.data, ks, v), a.data, WithAll(Nothing, ks, v), Removed(d))
  BY TurnsNot, TurnsWithAll
<1>2. WithAll(a.data, ks, v) \in Dicts(ImportKeys)
  <2>1. a.data \in Dicts(ImportKeys) BY DEF Accs
  <2> QED BY <2>1, DictWithAll
<1>3. ImportDirective(Start, d) = Upd(Start, WithAll(Nothing, ks, v), h) BY StartType
<1>4. ImportDirective(a, d) = Upd(a, WithAll(a.data, ks, v), h) OBVIOUS
<1> QED BY <1>1, <1>2, <1>3, <1>4, UpdEffect

(* Two items, one after the other.                                         *)
SetsTwo(d, k, v, k2, v2, h) ==
    \A acc \in Accs : ImportDirective(acc, d)
                        = Upd(acc, With(With(acc.data, k, v), k2, v2), h)

LEMMA TwoItemsEffect ==
    ASSUME NEW a \in Accs, NEW d \in Directives, NEW k \in ImportKeys, NEW v \in Strings,
           NEW k2 \in ImportKeys, NEW v2 \in Strings,
           v = "" => k \in Removed(d), v2 = "" => k2 \in Removed(d),
           NEW h \in SUBSET Shows, SetsTwo(d, k, v, k2, v2, h),
           d[1] \notin {"remote", "route", "key-direction"}
    PROVE  Effect(ImportDirective(a, d), a, ImportDirective(Start, d), d)
<1>1. Turns(With(a.data, k, v), a.data, With(Nothing, k, v), Removed(d))
  BY TurnsNot, TurnsWith
<1>2. Turns(With(With(a.data, k, v), k2, v2), a.data, With(With(Nothing, k, v), k2, v2),
            Removed(d))
  BY <1>1, TurnsWith
<1>3. With(With(a.data, k, v), k2, v2) \in Dicts(ImportKeys)
  <2>1. a.data \in Dicts(ImportKeys) BY DEF Accs
  <2>2. With(a.data, k, v) \in Dicts(ImportKeys) BY <2>1, DictWith
  <2> QED BY <2>2, DictWith
<1>4. ImportDirective(Start, d) = Upd(Start, With(With(Nothing, k, v), k2, v2), h)
  BY StartType DEF SetsTwo
<1>5. ImportDirective(a, d) = Upd(a, With(With(a.data, k, v), k2, v2), h) BY DEF SetsTwo
<1> QED BY <1>2, <1>3, <1>4, <1>5, UpdEffect

(* The name of a directive decides which part of ImportDirective handles   *)
(* it.                                                                     *)
Proxies == {"http-proxy", "socks-proxy"}

TunnelNames ==
    {"proto", "remote", "route", "mssfix", "compress", "comp-lzo", "tls-version-min",
     "verify-x509-name", "crl-verify", "ifconfig", "keepalive"}

CredentialNames ==
    {"auth-user-pass", "ca", "cert", "key", "pkcs12", "secret", "tls-auth",
     "key-direction", "<>"}

LEMMA OtherNames ==
    ASSUME NEW d, d[1] \in TunnelNames \cup CredentialNames
    PROVE  d[1] \notin DOMAIN Copied /\ d[1] \notin Flags /\ d[1] \notin Proxies
BY DEF TunnelNames, CredentialNames, Copied, Flags, Proxies

LEMMA ViaTunnel ==
    ASSUME NEW d, d[1] \in TunnelNames, NEW acc
    PROVE  ImportDirective(acc, d) = ImportTunnel(acc, d)
<1>1. ImportDirective(acc, d) = ImportCredential(ImportTunnel(acc, d), d)
  BY OtherNames DEF ImportDirective, Proxies
<1>2. \A a : ImportCredential(a, d) = a
  BY DEF ImportCredential, TunnelNames, IsBlob
<1> QED BY <1>1, <1>2

LEMMA ViaCredential ==
    ASSUME NEW d, d[1] \in CredentialNames, NEW acc
    PROVE  ImportDirective(acc, d) = ImportCredential(acc, d)
<1>1. ImportDirective(acc, d) = ImportCredential(ImportTunnel(acc, d), d)
  BY OtherNames DEF ImportDirective, Proxies
<1>2. ImportTunnel(acc, d) = acc BY DEF ImportTunnel, CredentialNames
<1> QED BY <1>1, <1>2

LEMMA Ignored ==
    ASSUME NEW d, d[1] \notin DOMAIN Copied, d[1] \notin Flags, d[1] \notin Proxies,
           d[1] \notin TunnelNames, d[1] \notin CredentialNames, NEW acc
    PROVE  ImportDirective(acc, d) = acc
<1>1. ImportDirective(acc, d) = ImportCredential(ImportTunnel(acc, d), d)
  BY DEF ImportDirective, Proxies
<1>2. ImportTunnel(acc, d) = acc BY DEF ImportTunnel, TunnelNames
<1>3. ImportCredential(acc, d) = acc BY DEF ImportCredential, CredentialNames, IsBlob
<1> QED BY <1>1, <1>2, <1>3

LEMMA AccUpd ==
    ASSUME NEW a \in Accs, NEW n, NEW h
    PROVE  /\ [a EXCEPT !.data = n] = Upd(a, n, {})
           /\ [a EXCEPT !.have = @ \cup h] = Upd(a, a.data, h)
           /\ a = Upd(a, a.data, {})
<1>1. a = [data |-> a.data, remotes |-> a.remotes, routes |-> a.routes, have |-> a.have,
           keydir |-> a.keydir]
  BY DEF Accs
<1>2. a.have \cup {} = a.have OBVIOUS
<1>3. [a EXCEPT !.data = n] = Upd(a, n, {}) BY <1>1, <1>2 DEF Upd
<1>5. [a EXCEPT !.have = @ \cup h] = Upd(a, a.data, h) BY <1>1 DEF Upd
<1>6. a = Upd(a, a.data, {}) BY <1>1, <1>2 DEF Upd
<1> QED BY <1>3, <1>5, <1>6

LEMMA AccUpdBoth ==
    ASSUME NEW a \in Accs, NEW n, NEW h
    PROVE  [a EXCEPT !.data = n, !.have = @ \cup h] = Upd(a, n, h)
<1>1. [a EXCEPT !.data = n, !.have = @ \cup h]
        = [[a EXCEPT !.data = n] EXCEPT !.have = a.have \cup h]
  BY DEF Accs
<1>2. [Upd(a, n, {}) EXCEPT !.have = a.have \cup h] = Upd(a, n, h) BY DEF Upd
<1> QED BY <1>1, <1>2, AccUpd

LEMMA CopiedEffect ==
    ASSUME NEW a \in Accs, NEW d \in Directives, d[1] \in DOMAIN Copied \cup Flags
    PROVE  Effect(ImportDirective(a, d), a, ImportDirective(Start, d), d)
<1>1. d[1] \notin {"remote", "route", "key-direction"} BY DEF Copied, Flags
<1>2. Arg0(d) \in Strings /\ "yes" \in Strings BY DirectiveArgs, StringAssumption
<1>3. CASE d[1] \in DOMAIN Copied /\ Arg0(d) = ""
  BY <1>1, <1>3, StartType, EmptyEffect DEF ImportDirective
<1>4. CASE d[1] \in DOMAIN Copied /\ Arg0(d) # ""
  <2>1. Copied[d[1]] \in ImportKeys BY <1>4 DEF ImportKeys
  <2>2. \A acc \in Accs : ImportDirective(acc, d)
                            = Upd(acc, With(acc.data, Copied[d[1]], Arg0(d)), {})
    BY <1>4, AccUpd DEF ImportDirective
  <2> QED BY <1>1, <1>2, <1>4, <2>1, <2>2, OneItemEffect
<1>5. CASE d[1] \notin DOMAIN Copied
  <2>1. d[1] \in ImportKeys BY <1>5 DEF ImportKeys
  <2>2. \A acc \in Accs : ImportDirective(acc, d) = Upd(acc, With(acc.data, d[1], "yes"), {})
    BY <1>5, AccUpd DEF ImportDirective
  <2> QED BY <1>1, <1>2, <2>1, <2>2, OneItemEffect
<1> QED BY <1>3, <1>4, <1>5

LEMMA ProxyEffect ==
    ASSUME NEW a \in Accs, NEW d \in Directives, d[1] \in Proxies
    PROVE  Effect(ImportDirective(a, d), a, ImportDirective(Start, d), d)
<1> DEFINE kind == IF d[1] = "http-proxy" THEN "http" ELSE "socks"
           Typed(x) == With(With(x, "proxy-type", kind), "proxy-server", Arg0(d))
           Ported(x) == IF Arg1(d) = "" THEN Typed(x) ELSE With(Typed(x), "proxy-port", Arg1(d))
           Proxied(x) == IF d[1] = "http-proxy" /\ Len(d) >= 4
                         THEN With(Ported(x), "http-proxy-auth-file", d[4]) ELSE Ported(x)
<1>1. d[1] \notin {"remote", "route", "key-direction"} BY DEF Proxies
<1>2. \A acc \in Accs : ImportDirective(acc, d) = ImportProxy(acc, d)
  BY DEF ImportDirective, Proxies, Copied, Flags
<1>3. CASE Arg0(d) = ""
  BY <1>1, <1>2, <1>3, StartType, EmptyEffect DEF ImportProxy
<1>4. CASE Arg0(d) # ""
  <2>1. \A acc \in Accs : ImportDirective(acc, d) = Upd(acc, Proxied(acc.data), {})
    <3>1. SUFFICES ASSUME NEW acc \in Accs
                   PROVE  ImportProxy(acc, d) = Upd(acc, Proxied(acc.data), {})
      BY <1>2
    <3>2. ImportProxy(acc, d) = [acc EXCEPT !.data = Proxied(acc.data)]
      BY <1>4 DEF ImportProxy
    <3> HIDE DEF Proxied
    <3>3. [acc EXCEPT !.data = Proxied(acc.data)] = Upd(acc, Proxied(acc.data), {}) BY AccUpd
    <3> QED BY <3>2, <3>3
  <2>2. /\ kind \in Strings /\ kind # "" /\ Arg0(d) \in Strings /\ Arg1(d) \in Strings
        /\ Len(d) >= 4 => d[4] \in Strings /\ (d[4] = "" => ~Definite(d))
    <3>1. {"http", "socks"} \subseteq Strings BY ImportAssumption
    <3> QED BY <3>1, DirectiveArgs
  <2>3. {"proxy-type", "proxy-server", "proxy-port", "http-proxy-auth-file"}
          \subseteq ImportKeys
    BY DEF ImportKeys
  <2> HIDE DEF kind
  <2>4. Turns(Typed(a.data), a.data, Typed(Nothing), Removed(d))
        /\ Typed(a.data) \in Dicts(ImportKeys)
    <3>1. Turns(With(a.data, "proxy-type", kind), a.data, With(Nothing, "proxy-type", kind),
                Removed(d))
      BY <2>2, TurnsNot, TurnsWith
    <3>2. a.data \in Dicts(ImportKeys) BY DEF Accs
    <3>3. With(a.data, "proxy-type", kind) \in Dicts(ImportKeys) BY <2>2, <2>3, <3>2, DictWith
    <3> QED BY <1>4, <2>2, <2>3, <3>1, <3>3, TurnsWith, DictWith
  <2> HIDE DEF Typed
  <2>5. Turns(Ported(a.data), a.data, Ported(Nothing), Removed(d))
        /\ Ported(a.data) \in Dicts(ImportKeys)
    <3>1. CASE Arg1(d) = "" BY <2>4, <3>1
    <3>2. CASE Arg1(d) # "" BY <2>2, <2>3, <2>4, <3>2, TurnsWith, DictWith
    <3> QED BY <3>1, <3>2
  <2> HIDE DEF Ported
  <2>6. Turns(Proxied(a.data), a.data, Proxied(Nothing), Removed(d))
        /\ Proxied(a.data) \in Dicts(ImportKeys)
    <3>1. CASE d[1] = "http-proxy" /\ Len(d) >= 4
      <4>1. d[4] = "" => "http-proxy-auth-file" \in Removed(d) BY <2>2, <3>1 DEF Removed
      <4> QED BY <2>2, <2>3, <2>5, <3>1, <4>1, TurnsWith, DictWith
    <3>2. CASE ~(d[1] = "http-proxy" /\ Len(d) >= 4) BY <2>5, <3>2
    <3> QED BY <3>1, <3>2
  <2> HIDE DEF Proxied
  <2>7. ImportDirective(Start, d) = Upd(Start, Proxied(Nothing), {}) BY <2>1, StartType
  <2>8. ImportDirective(a, d) = Upd(a, Proxied(a.data), {}) BY <2>1
  <2>9. {} \in SUBSET Shows OBVIOUS
  <2> QED BY <1>1, <2>6, <2>7, <2>8, <2>9, UpdEffect
<1> QED BY <1>3, <1>4

LEMMA EntryType ==
    ASSUME NEW d \in Directives PROVE RemoteEntry(d) \in Entries
<1>1. d \in Seq(Strings) BY DEF Directives
<1>2. Len(d) \in Nat /\ \A i \in 1..Len(d) : d[i] \in Strings
  BY <1>1, LenProperties, ElementOfSeq
<1>3. \A i \in 3..Len(d) : d[i] \in Strings BY <1>2
<1>4. SubSeq(d, 3, Len(d)) \in Seq(Strings) BY <1>2, <1>3, SubSeqProperties
<1>5. ASSUME NEW x PROVE (x \in Ipv6Hosts) \in BOOLEAN
  OBVIOUS
<1>6. Arg0(d) \in Strings BY DirectiveArgs
<1> DEFINE six == Arg0(d) \in Ipv6Hosts
<1>7. RemoteEntry(d) = [bracketed |-> six, host |-> Arg0(d), tail |-> SubSeq(d, 3, Len(d))]
  BY DEF RemoteEntry
<1> HIDE DEF six
<1> QED BY <1>4, <1>5, <1>6, <1>7 DEF Entries, six

LEMMA ListEffect ==
    ASSUME NEW a \in Accs, NEW d \in Directives, d[1] \in {"remote", "route"}
    PROVE  Effect(ImportDirective(a, d), a, ImportDirective(Start, d), d)
<1> DEFINE rem(acc) == IF d[1] = "remote" THEN Append(acc.remotes, RemoteEntry(d)) ELSE acc.remotes
           rou(acc) == IF d[1] = "route" THEN Append(acc.routes, d) ELSE acc.routes
<1>1. \A acc : ImportDirective(acc, d) = ImportTunnel(acc, d)
  BY ViaTunnel DEF TunnelNames
<1>2. \A acc : ImportTunnel(acc, d) =
        IF d[1] = "remote" THEN [acc EXCEPT !.remotes = Append(acc.remotes, RemoteEntry(d))]
        ELSE [acc EXCEPT !.routes = Append(acc.routes, d)]
  BY DEF ImportTunnel
<1>3. ASSUME NEW acc \in Accs
      PROVE  ImportDirective(acc, d) = [data |-> acc.data, remotes |-> rem(acc),
                                        routes |-> rou(acc), have |-> acc.have,
                                        keydir |-> acc.keydir]
  <2>1. acc = [data |-> acc.data, remotes |-> acc.remotes, routes |-> acc.routes,
               have |-> acc.have, keydir |-> acc.keydir]
    BY DEF Accs
  <2>2. CASE d[1] = "remote"
    <3> DEFINE x == Append(acc.remotes, RemoteEntry(d))
    <3>1. ImportDirective(acc, d) = [acc EXCEPT !.remotes = x] BY <1>1, <1>2, <2>2
    <3> HIDE DEF x
    <3>2. [acc EXCEPT !.remotes = x] = [data |-> acc.data, remotes |-> x, routes |-> acc.routes,
                                        have |-> acc.have, keydir |-> acc.keydir]
      BY <2>1
    <3> QED BY <2>2, <3>1, <3>2 DEF x
  <2>3. CASE d[1] = "route"
    <3> DEFINE x == Append(acc.routes, d)
    <3>1. ImportDirective(acc, d) = [acc EXCEPT !.routes = x] BY <1>1, <1>2, <2>3
    <3> HIDE DEF x
    <3>2. [acc EXCEPT !.routes = x] = [data |-> acc.data, remotes |-> acc.remotes, routes |-> x,
                                       have |-> acc.have, keydir |-> acc.keydir]
      BY <2>1
    <3> QED BY <2>3, <3>1, <3>2 DEF x
  <2> QED BY <2>2, <2>3
<1>4. Start \in Accs /\ Start.data = Nothing /\ Start.have = {} BY StartType
<1>5. rem(a) \in Seq(Entries) /\ rou(a) \in Seq(Directives)
  BY EntryType, AppendProperties DEF Accs
<1>6. Turns(a.data, a.data, Nothing, Removed(d)) BY TurnsNot
<1> DEFINE b == ImportDirective(a, d)
           o == ImportDirective(Start, d)
<1>7. o.data = Nothing /\ o.have = {} BY <1>3, <1>4
<1>8. b = [data |-> a.data, remotes |-> rem(a), routes |-> rou(a), have |-> a.have,
           keydir |-> a.keydir]
  BY <1>3
<1>9. d[1] # "key-direction" OBVIOUS
<1> HIDE DEF b, o
<1>10. b \in Accs
  <2> HIDE DEF rem, rou
  <2> QED BY <1>5, <1>8 DEF Accs
<1>11. Effect(b, a, o, d) BY <1>6, <1>7, <1>8, <1>9, <1>10 DEF Effect
<1> QED BY <1>11 DEF b, o

LEMMA TunnelEffect ==
    ASSUME NEW a \in Accs, NEW d \in Directives, d[1] \in TunnelNames
    PROVE  Effect(ImportDirective(a, d), a, ImportDirective(Start, d), d)
<1> DEFINE v == Arg0(d)
           TunnelSets(k, x, k2, x2) ==
             \A acc \in Accs : ImportTunnel(acc, d)
                                 = [acc EXCEPT !.data = With(With(acc.data, k, x), k2, x2)]
<1>1. \A acc : ImportDirective(acc, d) = ImportTunnel(acc, d) BY ViaTunnel
<1>2. v \in Strings /\ Arg1(d) \in Strings BY DirectiveArgs
<1>3. {"yes", "no-by-default", "tls-version-min"} \subseteq Strings
  BY StringAssumption, ImportAssumption
<1>4. {} \in SUBSET Shows /\ Start \in Accs BY StartType
<1>5. {"proto-tcp", "mssfix", "compress", "comp-lzo", "tls-version-min",
       "tls-version-min-or-highest", "verify-x509-name", "crl-verify-dir", "crl-verify-file",
       "local-ip", "remote-ip", "ping", "ping-restart"} \subseteq ImportKeys
  BY DEF ImportKeys
<1>6. ASSUME NEW k \in ImportKeys, NEW x \in Strings, x # "",
             d[1] \notin {"remote", "route"},
             \A acc \in Accs : ImportTunnel(acc, d) = [acc EXCEPT !.data = With(acc.data, k, x)]
      PROVE  Effect(ImportDirective(a, d), a, ImportDirective(Start, d), d)
  <2>1. \A acc \in Accs : ImportDirective(acc, d) = Upd(acc, With(acc.data, k, x), {})
    <3>1. SUFFICES ASSUME NEW acc \in Accs
                   PROVE  ImportDirective(acc, d) = Upd(acc, With(acc.data, k, x), {})
      OBVIOUS
    <3>2. [acc EXCEPT !.data = With(acc.data, k, x)] = Upd(acc, With(acc.data, k, x), {})
      BY AccUpd
    <3> QED BY <1>1, <1>6, <3>2
  <2>2. d[1] \notin {"remote", "route", "key-direction"} BY <1>6 DEF TunnelNames
  <2> QED BY <1>4, <1>6, <2>1, <2>2, OneItemEffect
<1>7. ASSUME \A acc \in Accs : ImportTunnel(acc, d) = acc, d[1] \notin {"remote", "route"}
      PROVE  Effect(ImportDirective(a, d), a, ImportDirective(Start, d), d)
  <2>1. d[1] # "key-direction" BY DEF TunnelNames
  <2> QED BY <1>1, <1>4, <1>7, <2>1, EmptyEffect
<1>8. ASSUME NEW k \in ImportKeys, NEW x \in Strings, NEW k2 \in ImportKeys, NEW x2 \in Strings,
             x = "" => k \in Removed(d), x2 = "" => k2 \in Removed(d),
             d[1] \notin {"remote", "route"}, TunnelSets(k, x, k2, x2)
      PROVE  Effect(ImportDirective(a, d), a, ImportDirective(Start, d), d)
  <2>1. SetsTwo(d, k, x, k2, x2, {})
    <3>1. SUFFICES ASSUME NEW acc \in Accs
                   PROVE  ImportDirective(acc, d)
                            = Upd(acc, With(With(acc.data, k, x), k2, x2), {})
      BY DEF SetsTwo
    <3>2. [acc EXCEPT !.data = With(With(acc.data, k, x), k2, x2)]
            = Upd(acc, With(With(acc.data, k, x), k2, x2), {})
      BY AccUpd
    <3> QED BY <1>1, <1>8, <3>2
  <2>2. d[1] \notin {"remote", "route", "key-direction"} BY <1>8 DEF TunnelNames
  <2> QED BY <1>4, <1>8, <2>1, <2>2, TwoItemsEffect, Zenon
<1> HIDE DEF v, TunnelSets
<1>9. CASE d[1] \in {"remote", "route"} BY <1>9, ListEffect
<1>10. CASE d[1] = "proto"
  <2>1. CASE v \in UdpProtos
    <3>1. \A acc \in Accs : ImportTunnel(acc, d) = acc BY <1>10, <2>1 DEF ImportTunnel, v
    <3> QED BY <1>7, <1>10, <3>1
  <2>2. CASE v \notin UdpProtos
    <3>1. \A acc \in Accs : ImportTunnel(acc, d)
                              = [acc EXCEPT !.data = With(acc.data, "proto-tcp", "yes")]
      BY <1>10, <2>2 DEF ImportTunnel, v
    <3> QED BY <1>3, <1>5, <1>6, <1>10, <3>1
  <2> QED BY <2>1, <2>2
<1>11. CASE d[1] \in {"mssfix", "compress"}
  <2> DEFINE x == IF v = "" THEN "yes" ELSE v
  <2>1. \A acc \in Accs : ImportTunnel(acc, d) = [acc EXCEPT !.data = With(acc.data, d[1], x)]
    BY <1>11 DEF ImportTunnel, v
  <2>2. x \in Strings /\ x # "" BY <1>2, <1>3
  <2> HIDE DEF x
  <2> QED BY <1>5, <1>6, <1>11, <2>1, <2>2
<1>12. CASE d[1] = "comp-lzo"
  <2> DEFINE x == IF v = "no" THEN "no-by-default" ELSE IF v = "" THEN "yes" ELSE v
  <2>1. \A acc \in Accs : ImportTunnel(acc, d)
                            = [acc EXCEPT !.data = With(acc.data, "comp-lzo", x)]
    BY <1>12 DEF ImportTunnel, v
  <2>2. x \in Strings /\ x # "" BY <1>2, <1>3
  <2> HIDE DEF x
  <2> QED BY <1>5, <1>6, <1>12, <2>1, <2>2
<1>13. CASE d[1] = "tls-version-min"
  <2>1. \A acc \in Accs : ImportTunnel(acc, d) =
          [acc EXCEPT !.data =
             LET withv == IF v = "" THEN acc.data ELSE With(acc.data, "tls-version-min", v)
             IN  IF Arg1(d) = "or-highest"
                 THEN With(withv, "tls-version-min-or-highest", "yes") ELSE withv]
    BY <1>13 DEF ImportTunnel, v
  <2>2. CASE v = "" /\ Arg1(d) # "or-highest"
    <3>1. \A acc \in Accs : ImportTunnel(acc, d) = acc BY <2>1, <2>2 DEF Accs
    <3> QED BY <1>7, <1>13, <3>1
  <2>3. CASE v = "" /\ Arg1(d) = "or-highest"
    <3>1. \A acc \in Accs : ImportTunnel(acc, d)
            = [acc EXCEPT !.data = With(acc.data, "tls-version-min-or-highest", "yes")]
      BY <2>1, <2>3
    <3> QED BY <1>3, <1>5, <1>6, <1>13, <3>1
  <2>4. CASE v # "" /\ Arg1(d) # "or-highest"
    <3>1. \A acc \in Accs : ImportTunnel(acc, d)
            = [acc EXCEPT !.data = With(acc.data, "tls-version-min", v)]
      BY <2>1, <2>4
    <3> QED BY <1>2, <1>5, <1>6, <1>13, <2>4, <3>1
  <2>5. CASE v # "" /\ Arg1(d) = "or-highest"
    <3>1. TunnelSets("tls-version-min", v, "tls-version-min-or-highest", "yes")
      BY <2>1, <2>5 DEF TunnelSets
    <3>2. v \in Strings /\ v # "" /\ "yes" \in Strings /\ "yes" # "" BY <1>2, <1>3, <2>5
    <3>3. "tls-version-min" \in ImportKeys /\ "tls-version-min-or-highest" \in ImportKeys
      BY <1>5
    <3>4. d[1] \notin {"remote", "route"} BY <1>13
    <3> QED BY <1>8, <3>1, <3>2, <3>3, <3>4, Zenon
  <2> QED BY <2>2, <2>3, <2>4, <2>5
<1>14. CASE d[1] = "verify-x509-name"
  <2> DEFINE x == CHOOSE y \in DOMAIN X509Names : X509Names[y] = <<Arg1(d), v>>
  <2>1. \A acc \in Accs : ImportTunnel(acc, d)
                            = [acc EXCEPT !.data = With(acc.data, "verify-x509-name", x)]
    BY <1>14 DEF ImportTunnel, v
  <2>2. \E y \in DOMAIN X509Names : X509Names[y] = <<Arg1(d), v>>
    BY <1>14 DEF Directives, Spelled, v
  <2>3. x \in DOMAIN X509Names BY <2>2
  <2>4. x \in Strings /\ x # "" BY <2>3, TableAssumption
  <2> HIDE DEF x
  <2> QED BY <1>5, <1>6, <1>14, <2>1, <2>4
<1>15. CASE d[1] = "crl-verify"
  <2>1. CASE v = ""
    <3>1. \A acc \in Accs : ImportTunnel(acc, d) = acc BY <1>15, <2>1 DEF ImportTunnel, v
    <3> QED BY <1>7, <1>15, <3>1
  <2>2. CASE v # ""
    <3> DEFINE k == IF Arg1(d) = "dir" THEN "crl-verify-dir" ELSE "crl-verify-file"
    <3>1. \A acc \in Accs : ImportTunnel(acc, d) = [acc EXCEPT !.data = With(acc.data, k, v)]
      BY <1>15, <2>2 DEF ImportTunnel, v
    <3>2. k \in ImportKeys BY <1>5
    <3> HIDE DEF k
    <3> QED BY <1>2, <1>6, <1>15, <2>2, <3>1, <3>2
  <2> QED BY <2>1, <2>2
<1>16. CASE d[1] \in {"ifconfig", "keepalive"}
  <2> DEFINE k == IF d[1] = "ifconfig" THEN "local-ip" ELSE "ping"
             k2 == IF d[1] = "ifconfig" THEN "remote-ip" ELSE "ping-restart"
  <2>1. CASE Len(d) >= 3
    <3>1. TunnelSets(k, v, k2, d[3]) BY <1>16, <2>1 DEF ImportTunnel, TunnelSets, v
    <3>2. d[3] \in Strings /\ (v = "" \/ d[3] = "" => ~Definite(d))
      <4>1. Len(d) \in Nat BY DirectiveArgs, Zenon
      <4>2. Len(d) >= 2 BY <2>1, <4>1
      <4>3. Arg0(d) = d[2] /\ d[3] \in Strings /\ (Definite(d) => d[2] # "" /\ d[3] # "")
        BY <2>1, <4>2, DirectiveArgs, Zenon
      <4> QED BY <4>3 DEF v
    <3>3. k \in ImportKeys /\ k2 \in ImportKeys BY <1>5
    <3>4. (v = "" => k \in Removed(d)) /\ (d[3] = "" => k2 \in Removed(d))
      BY <1>16, <3>2 DEF Removed
    <3> HIDE DEF k, k2
    <3>5. d[1] \notin {"remote", "route"} BY <1>16
    <3> QED BY <1>2, <1>8, <3>1, <3>2, <3>3, <3>4, <3>5, Zenon
  <2>2. CASE ~(Len(d) >= 3)
    <3>1. \A acc \in Accs : ImportTunnel(acc, d) = acc BY <1>16, <2>2 DEF ImportTunnel
    <3> QED BY <1>7, <1>16, <3>1
  <2> QED BY <2>1, <2>2
<1> QED BY <1>9, <1>10, <1>11, <1>12, <1>13, <1>14, <1>15, <1>16 DEF TunnelNames

LEMMA CredentialEffect ==
    ASSUME NEW a \in Accs, NEW d \in Directives, d[1] \in CredentialNames
    PROVE  Effect(ImportDirective(a, d), a, ImportDirective(Start, d), d)
<1> DEFINE v == Arg0(d)
           Goal == Effect(ImportDirective(a, d), a, ImportDirective(Start, d), d)
           Sets(ks, h) == \A acc \in Accs : ImportCredential(acc, d)
                            = [acc EXCEPT !.data = WithAll(acc.data, ks, v), !.have = @ \cup h]
           SetsAnd(k, k2, h) ==
             \A acc \in Accs : ImportCredential(acc, d)
               = [acc EXCEPT !.data = With(WithAll(acc.data, {k}, v), k2, Arg1(d)),
                             !.have = @ \cup h]
<1>1. \A acc : ImportDirective(acc, d) = ImportCredential(acc, d) BY ViaCredential
<1>2. v \in Strings /\ Arg1(d) \in Strings BY DirectiveArgs
<1>3. Start \in Accs BY StartType
<1>4. {"ca", "cert", "key", "static-key", "static-key-direction", "ta", "ta-dir"}
        \subseteq ImportKeys
  BY DEF ImportKeys
<1>5. d[1] \notin {"remote", "route"} BY DEF CredentialNames
<1>6. ASSUME \A acc \in Accs : ImportCredential(acc, d) = acc, d[1] # "key-direction"
      PROVE  Goal
  BY <1>1, <1>3, <1>5, <1>6, EmptyEffect
<1>7. ASSUME NEW ks \in SUBSET ImportKeys, NEW h \in SUBSET Shows, v # "",
             d[1] # "key-direction", Sets(ks, h)
      PROVE  Goal
  <2>1. ASSUME NEW acc \in Accs
        PROVE  ImportDirective(acc, d) = Upd(acc, WithAll(acc.data, ks, v), h)
    <3>1. ImportDirective(acc, d) = [acc EXCEPT !.data = WithAll(acc.data, ks, v),
                                                !.have = @ \cup h]
      BY <1>1, <1>7, Zenon
    <3> HIDE DEF v, Sets
    <3>2. [acc EXCEPT !.data = WithAll(acc.data, ks, v), !.have = @ \cup h]
            = Upd(acc, WithAll(acc.data, ks, v), h)
      BY AccUpdBoth, Zenon
    <3> QED BY <3>1, <3>2
  <2>2. d[1] \notin {"remote", "route", "key-direction"} BY <1>5, <1>7
  <2> HIDE DEF v, Sets
  <2> QED BY <1>2, <1>7, <2>1, <2>2, SomeItemsEffect
<1>8. ASSUME NEW k \in ImportKeys, NEW k2 \in ImportKeys, NEW h \in SUBSET Shows, v # "",
             Arg1(d) # "", d[1] # "key-direction", SetsAnd(k, k2, h)
      PROVE  Goal
  <2>1. SetsTwo(d, k, v, k2, Arg1(d), h)
    <3>1. SUFFICES ASSUME NEW acc \in Accs
                   PROVE  ImportDirective(acc, d)
                            = Upd(acc, With(With(acc.data, k, v), k2, Arg1(d)), h)
      BY DEF SetsTwo
    <3>2. With(acc.data, k, v) = WithAll(acc.data, {k}, v) BY <1>8 DEF With
    <3>3. ImportDirective(acc, d)
            = [acc EXCEPT !.data = With(With(acc.data, k, v), k2, Arg1(d)), !.have = @ \cup h]
      BY <1>1, <1>8, <3>2, Zenon
    <3> HIDE DEF v
    <3>4. [acc EXCEPT !.data = With(With(acc.data, k, v), k2, Arg1(d)), !.have = @ \cup h]
            = Upd(acc, With(With(acc.data, k, v), k2, Arg1(d)), h)
      BY AccUpdBoth, Zenon
    <3> QED BY <3>3, <3>4
  <2>2. d[1] \notin {"remote", "route", "key-direction"} BY <1>5, <1>8
  <2> HIDE DEF v, SetsAnd
  <2> QED BY <1>2, <1>8, <2>1, <2>2, TwoItemsEffect, Zenon
<1>9. ASSUME NEW h \in SUBSET Shows, d[1] # "key-direction",
             \A acc \in Accs : ImportCredential(acc, d) = [acc EXCEPT !.have = @ \cup h]
      PROVE  Goal
  <2>1. ASSUME NEW acc \in Accs PROVE ImportDirective(acc, d) = Upd(acc, acc.data, h)
    <3>1. ImportDirective(acc, d) = [acc EXCEPT !.have = @ \cup h] BY <1>1, <1>9
    <3>2. [acc EXCEPT !.have = @ \cup h] = Upd(acc, acc.data, h) BY AccUpd, Zenon
    <3> QED BY <3>1, <3>2
  <2>2. d[1] \notin {"remote", "route", "key-direction"} BY <1>5, <1>9
  <2>3. ImportDirective(Start, d) = Upd(Start, Nothing, h) BY <2>1, StartType
  <2>4. Turns(a.data, a.data, Nothing, Removed(d)) BY TurnsNot
  <2>5. a.data \in Dicts(ImportKeys) BY DEF Accs
  <2> QED BY <1>9, <2>1, <2>2, <2>3, <2>4, <2>5, UpdEffect
<1>10. CASE d[1] = "auth-user-pass"
  <2>1. \A acc \in Accs : ImportCredential(acc, d)
                            = [acc EXCEPT !.have = @ \cup {"auth-user-pass"}]
    BY <1>10 DEF ImportCredential, IsBlob
  <2>2. {"auth-user-pass"} \in SUBSET Shows BY DEF Shows
  <2> QED BY <1>9, <1>10, <2>1, <2>2
<1>11. CASE d[1] \in {"ca", "cert", "key"}
  <2>1. CASE v = ""
    <3>1. \A acc \in Accs : ImportCredential(acc, d) = acc
      BY <1>11, <2>1 DEF ImportCredential, IsBlob
    <3> QED BY <1>6, <1>11, <3>1
  <2>2. CASE v # ""
    <3>1. Sets({d[1]}, {d[1]}) BY <1>11, <2>2 DEF ImportCredential, IsBlob
    <3>2. {d[1]} \in SUBSET Shows /\ {d[1]} \in SUBSET ImportKeys BY <1>4, <1>11 DEF Shows
    <3> QED BY <1>7, <1>11, <2>2, <3>1, <3>2
  <2> QED BY <2>1, <2>2
<1>12. CASE d[1] = "pkcs12"
  <2>1. CASE v = ""
    <3>1. \A acc \in Accs : ImportCredential(acc, d) = acc
      BY <1>12, <2>1 DEF ImportCredential, IsBlob
    <3> QED BY <1>6, <1>12, <3>1
  <2>2. CASE v # ""
    <3> DEFINE three == {"ca", "cert", "key"}
    <3>1. Sets(three, three) BY <1>12, <2>2 DEF ImportCredential, IsBlob
    <3>2. three \in SUBSET Shows /\ three \in SUBSET ImportKeys BY <1>4 DEF Shows
    <3> HIDE DEF three
    <3> QED BY <1>7, <1>12, <2>2, <3>1, <3>2
  <2> QED BY <2>1, <2>2
<1>13. CASE d[1] = "secret"
  <2>1. CASE v = ""
    <3>1. \A acc \in Accs : ImportCredential(acc, d) = acc
      BY <1>13, <2>1 DEF ImportCredential, IsBlob
    <3> QED BY <1>6, <1>13, <3>1
  <2>2. {"secret"} \in SUBSET Shows /\ {"static-key"} \in SUBSET ImportKeys BY <1>4 DEF Shows
  <2>3. CASE v # "" /\ Arg1(d) = ""
    <3>1. Sets({"static-key"}, {"secret"}) BY <1>13, <2>3 DEF ImportCredential, IsBlob
    <3> QED BY <1>7, <1>13, <2>2, <2>3, <3>1
  <2>4. CASE v # "" /\ Arg1(d) # ""
    <3>1. SetsAnd("static-key", "static-key-direction", {"secret"})
      BY <1>13, <2>4 DEF ImportCredential, IsBlob
    <3> HIDE DEF v, SetsAnd
    <3>2. "static-key" \in ImportKeys /\ "static-key-direction" \in ImportKeys BY <1>4
    <3>3. d[1] # "key-direction" BY <1>13
    <3> QED BY <1>8, <2>2, <2>4, <3>1, <3>2, <3>3, Zenon
  <2> QED BY <2>1, <2>3, <2>4
<1>14. CASE d[1] = "tls-auth"
  <2>1. {"tls-auth"} \in SUBSET Shows /\ {"ta"} \in SUBSET ImportKeys BY <1>4 DEF Shows
  <2>2. CASE v = ""
    <3>1. \A acc \in Accs : ImportCredential(acc, d) = Upd(acc, acc.data, {"tls-auth"})
      <4>1. SUFFICES ASSUME NEW acc \in Accs
                     PROVE  ImportCredential(acc, d) = Upd(acc, acc.data, {"tls-auth"})
        OBVIOUS
      <4>2. ImportCredential(acc, d)
              = [acc EXCEPT !.data = acc.data, !.have = @ \cup {"tls-auth"}]
        BY <1>14, <2>2 DEF ImportCredential, IsBlob
      <4>3. [acc EXCEPT !.data = acc.data, !.have = @ \cup {"tls-auth"}]
              = Upd(acc, acc.data, {"tls-auth"})
        BY AccUpdBoth, Zenon
      <4> QED BY <4>2, <4>3
    <3>2. \A acc \in Accs : ImportCredential(acc, d) = [acc EXCEPT !.have = @ \cup {"tls-auth"}]
      BY <3>1, AccUpd
    <3> QED BY <1>9, <1>14, <2>1, <3>2
  <2>3. CASE v # "" /\ Arg1(d) = ""
    <3>1. Sets({"ta"}, {"tls-auth"}) BY <1>14, <2>3 DEF ImportCredential, IsBlob
    <3> QED BY <1>7, <1>14, <2>1, <2>3, <3>1
  <2>4. CASE v # "" /\ Arg1(d) # ""
    <3>1. SetsAnd("ta", "ta-dir", {"tls-auth"}) BY <1>14, <2>4 DEF ImportCredential, IsBlob
    <3> HIDE DEF v, SetsAnd
    <3>2. "ta" \in ImportKeys /\ "ta-dir" \in ImportKeys BY <1>4
    <3>3. d[1] # "key-direction" BY <1>14
    <3> QED BY <1>8, <2>1, <2>4, <3>1, <3>2, <3>3, Zenon
  <2> QED BY <2>2, <2>3, <2>4
<1>15. CASE d[1] = "key-direction"
  <2> DEFINE b == ImportDirective(a, d)
             o == ImportDirective(Start, d)
  <2>1. ASSUME NEW acc \in Accs
        PROVE  ImportDirective(acc, d) =
                 [data |-> acc.data, remotes |-> acc.remotes, routes |-> acc.routes,
                  have |-> acc.have, keydir |-> IF v # "" THEN v ELSE acc.keydir]
    <3>1. acc = [data |-> acc.data, remotes |-> acc.remotes, routes |-> acc.routes,
                 have |-> acc.have, keydir |-> acc.keydir]
      BY DEF Accs
    <3>2. CASE v # ""
      <4>1. ImportCredential(acc, d) = [acc EXCEPT !.keydir = v]
        BY <1>15, <3>2 DEF ImportCredential, IsBlob
      <4> HIDE DEF v
      <4>2. [acc EXCEPT !.keydir = v]
              = [data |-> acc.data, remotes |-> acc.remotes, routes |-> acc.routes,
                 have |-> acc.have, keydir |-> v]
        BY <3>1
      <4> QED BY <1>1, <3>2, <4>1, <4>2
    <3>3. CASE v = ""
      <4>1. ImportCredential(acc, d) = acc BY <1>15, <3>3 DEF ImportCredential, IsBlob
      <4> QED BY <1>1, <3>1, <3>3, <4>1
    <3> QED BY <3>2, <3>3
  <2>2. Turns(a.data, a.data, Nothing, Removed(d)) BY TurnsNot
  <2>3. o.data = Nothing /\ o.have = {}
    <3>1. o.data = Start.data /\ o.have = Start.have
      <4>1. o = [data |-> Start.data, remotes |-> Start.remotes, routes |-> Start.routes,
                 have |-> Start.have, keydir |-> IF v # "" THEN v ELSE Start.keydir]
        BY <1>3, <2>1, Zenon
      <4> HIDE DEF o, v
      <4> QED BY <4>1
    <3> QED BY <3>1, StartType
  <2>4. b = [data |-> a.data, remotes |-> a.remotes, routes |-> a.routes,
             have |-> a.have, keydir |-> IF v # "" THEN v ELSE a.keydir]
    BY <2>1
  <2> HIDE DEF b, o
  <2>5. b \in Accs BY <1>2, <2>4 DEF Accs
  <2>6. Effect(b, a, o, d) BY <1>15, <2>2, <2>3, <2>4, <2>5 DEF Effect
  <2> QED BY <2>6 DEF b, o
<1>16. CASE d[1] = "<>"
  <2>1. CASE v \in {"ca", "cert", "key", "secret"}
    <3>1. \A acc \in Accs : ImportCredential(acc, d) = [acc EXCEPT !.have = @ \cup {v}]
      BY <1>16, <2>1 DEF ImportCredential, IsBlob
    <3>2. {v} \in SUBSET Shows BY <2>1 DEF Shows
    <3> QED BY <1>9, <1>16, <3>1, <3>2
  <2>2. CASE v \notin {"ca", "cert", "key", "secret"}
    <3>1. \A acc \in Accs : ImportCredential(acc, d) = acc
      BY <1>16, <2>2 DEF ImportCredential, IsBlob
    <3> QED BY <1>6, <1>16, <3>1
  <2> QED BY <2>1, <2>2
<1> QED BY <1>10, <1>11, <1>12, <1>13, <1>14, <1>15, <1>16 DEF CredentialNames

(* The effect of any directive on what has been read so far.               *)
LEMMA DirectiveEffect ==
    ASSUME NEW a \in Accs, NEW d \in Directives
    PROVE  Effect(ImportDirective(a, d), a, ImportDirective(Start, d), d)
<1>1. CASE d[1] \in DOMAIN Copied \cup Flags BY <1>1, CopiedEffect
<1>2. CASE d[1] \in Proxies BY <1>2, ProxyEffect
<1>3. CASE d[1] \in TunnelNames BY <1>3, TunnelEffect
<1>4. CASE d[1] \in CredentialNames BY <1>4, CredentialEffect
<1>5. CASE d[1] \notin DOMAIN Copied \cup Flags /\ d[1] \notin Proxies
           /\ d[1] \notin TunnelNames /\ d[1] \notin CredentialNames
  <2>1. \A acc : ImportDirective(acc, d) = acc BY <1>5, Ignored
  <2>2. d[1] \notin {"remote", "route", "key-direction"}
    BY <1>5 DEF TunnelNames, CredentialNames
  <2> QED BY <2>1, <2>2, EmptyEffect
<1> QED BY <1>1, <1>2, <1>3, <1>4, <1>5

-----------------------------------------------------------------------------
(* The loop of as_nm_data over a file.                                     *)
Read(t) == FoldLeft(ImportDirective, Start, t)

Importing == [d \in Directives |-> [acc \in Accs |-> ImportDirective(acc, d)]]

LEMMA ImportingType == Importing \in [Directives -> [Accs -> Accs]]
<1>1. \A d \in Directives, acc \in Accs : ImportDirective(acc, d) \in Accs
  BY DirectiveEffect DEF Effect
<1> QED BY <1>1 DEF Importing

LEMMA ReadRun ==
    ASSUME NEW h, Listed(h, Directives)
    PROVE  \E f : IsRun(f, h, Accs, Start, Importing) /\ Read(h) = f[DOMAIN h]
<1> DEFINE S == DOMAIN h
           base == Start
           sd == Importing
           iter == CHOOSE g : g = [s \in SUBSET S |-> IF s = {} THEN Start
                                     ELSE ImportDirective(g[s \ {Max(s)}], h[Max(s)])]
<1>1. sd \in [Directives -> [Accs -> Accs]] /\ base \in Accs BY ImportingType, StartType
<1>2. Read(h) = iter[S] BY DEF Read, FoldLeft, MapThenFoldSet
<1> HIDE DEF sd, base
<1>3. PICK f : IsRun(f, h, Accs, base, sd) BY <1>1, RunExists, Zenon
<1>4. Equation(f, h, Accs, base, sd) BY <1>1, <1>3, RunEquation, Zenon
<1>5. \A i \in S, v \in Accs : sd[h[i]][v] = ImportDirective(v, h[i])
  BY DEF sd, Importing, Listed
<1>6. f = [s \in SUBSET S |-> IF s = {} THEN Start
                              ELSE ImportDirective(f[s \ {Max(s)}], h[Max(s)])]
  BY <1>4, <1>5 DEF Equation, base
<1>7. iter = [s \in SUBSET S |-> IF s = {} THEN Start
                                 ELSE ImportDirective(iter[s \ {Max(s)}], h[Max(s)])]
  BY <1>6
<1> HIDE DEF iter
<1>8. Computes(iter, h, Accs, base, sd)
  <2>1. iter[{}] = base BY <1>7 DEF base
  <2>2. ASSUME NEW s \in SUBSET S, s # {}, iter[s \ {Max(s)}] \in Accs
        PROVE  iter[s] = sd[h[Max(s)]][iter[s \ {Max(s)}]]
    <3>1. iter[s] = ImportDirective(iter[s \ {Max(s)}], h[Max(s)]) BY <1>7, <2>2
    <3>2. Max(s) \in S BY <1>4, <2>2 DEF Equation
    <3> QED BY <1>5, <2>2, <3>1, <3>2
  <2> QED BY <2>1, <2>2 DEF Computes
<1>9. SameOn({DOMAIN h}, f, iter) BY <1>1, <1>3, <1>8, RunUnique, Zenon
<1> QED BY <1>2, <1>3, <1>9 DEF sd, base, SameOn

LEMMA ReadIs ==
    ASSUME NEW h, Listed(h, Directives)
    PROVE  /\ Read(h) \in Accs
           /\ Read(Before(h)) \in Accs
           /\ Read(h) = IF DOMAIN h = {} THEN Start
                        ELSE ImportDirective(Read(Before(h)), h[Last1(h)])
<1> DEFINE sd == Importing
           base == Start
<1>1. sd \in [Directives -> [Accs -> Accs]] /\ base \in Accs BY ImportingType, StartType
<1>2. Listed(Before(h), Directives) BY BeforeListed
<1>3. PICK f : IsRun(f, h, Accs, base, sd) /\ Read(h) = f[DOMAIN h] BY ReadRun
<1>4. PICK g : IsRun(g, Before(h), Accs, base, sd) /\ Read(Before(h)) = g[DOMAIN Before(h)]
  BY <1>2, ReadRun
<1> HIDE DEF sd, base
<1>5. Stepped(f[DOMAIN h], g[DOMAIN Before(h)], h, Accs, base, sd)
  BY <1>1, <1>3, <1>4, RunStepped, Zenon
<1>6. g[DOMAIN Before(h)] \in Accs
  <2>1. Equation(g, Before(h), Accs, base, sd) BY <1>1, <1>2, <1>4, RunEquation, Zenon
  <2> QED BY <2>1 DEF Equation
<1>7. DOMAIN h # {} => h[Last1(h)] \in Directives BY LastListed DEF Listed
<1> QED BY <1>3, <1>4, <1>5, <1>6, <1>7 DEF Stepped, sd, base, Importing

One(d) == ImportDirective(Start, d)

LEMMA ReadSteps ==
    /\ Read(<<>>) = Start
    /\ \A t \in Seq(Directives) : Read(t) \in Accs
    /\ \A t \in Seq(Directives), d \in Directives :
         /\ Read(Append(t, d)) = ImportDirective(Read(t), d)
         /\ Effect(Read(Append(t, d)), Read(t), One(d), d)
<1>1. Read(<<>>) = Start
  <2>1. <<>> \in Seq(Directives) OBVIOUS
  <2>2. Listed(<<>>, Directives) /\ DOMAIN <<>> = {} BY <2>1, SeqListed
  <2> QED BY <2>2, ReadIs
<1>2. ASSUME NEW t \in Seq(Directives) PROVE Read(t) \in Accs BY SeqListed, ReadIs
<1>3. ASSUME NEW t \in Seq(Directives), NEW d \in Directives
      PROVE  /\ Read(Append(t, d)) = ImportDirective(Read(t), d)
             /\ Effect(Read(Append(t, d)), Read(t), One(d), d)
  <2>1. /\ Append(t, d) \in Seq(Directives) /\ DOMAIN Append(t, d) # {}
        /\ Append(t, d)[Last1(Append(t, d))] = d /\ Before(Append(t, d)) = t
    BY AppendLast
  <2>2. Listed(Append(t, d), Directives) BY <2>1, SeqListed
  <2>3. Read(Append(t, d)) = ImportDirective(Read(t), d) BY <2>1, <2>2, ReadIs
  <2> QED BY <1>2, <2>3, DirectiveEffect DEF One
<1> QED BY <1>1, <1>2, <1>3

(* Every item comes from some directive of the file, and every directive   *)
(* leaves its items, unless one with an empty argument takes them away.    *)
ReadFrom(t) ==
    /\ \A x \in DOMAIN Read(t).data : \E i \in DOMAIN t :
         x \in DOMAIN One(t[i]).data /\ Read(t).data[x] = One(t[i]).data[x]
    /\ \A i \in DOMAIN t : \A x \in DOMAIN One(t[i]).data :
         x \in DOMAIN Read(t).data \/ \E j \in DOMAIN t : x \in Removed(t[j])
    /\ \A x \in Read(t).have : \E i \in DOMAIN t : x \in One(t[i]).have
    /\ \A i \in DOMAIN t : One(t[i]).have \subseteq Read(t).have
    /\ Read(t).keydir = "" \/ \E i \in DOMAIN t : t[i][1] = "key-direction"

LEMMA ReadItems == \A t \in Seq(Directives) : ReadFrom(t)
<1> DEFINE Q == {t \in Seq(Directives) : ReadFrom(t)}
<1>1. <<>> \in Q
  <2>1. Read(<<>>) = Start /\ Start.data = Nothing /\ Start.have = {} /\ Start.keydir = ""
    BY ReadSteps, StartType DEF Start
  <2>2. <<>> \in Seq(Directives) /\ DOMAIN <<>> = {} OBVIOUS
  <2>3. DOMAIN Nothing = {} BY DEF Nothing
  <2> QED BY <2>1, <2>2, <2>3 DEF ReadFrom
<1>2. ASSUME NEW t \in Q, NEW d \in Directives PROVE Append(t, d) \in Q
  <2> DEFINE u == Append(t, d)
             n == Len(t) + 1
             r == Read(t)
             s == Read(u)
  <2>1. t \in Seq(Directives) /\ ReadFrom(t) OBVIOUS
  <2>2. /\ u \in Seq(Directives) /\ DOMAIN t = 1..Len(t) /\ Len(t) \in Nat
        /\ DOMAIN u = 1..n /\ u[n] = d /\ \A i \in DOMAIN t : u[i] = t[i]
    BY <2>1, AppendProperties, LenProperties
  <2>3. DOMAIN u = DOMAIN t \cup {n} BY <2>2
  <2>4. Effect(s, r, One(d), d) BY <2>1, ReadSteps
  <2> HIDE DEF u, n, r, s
  <2>5. /\ Turns(s.data, r.data, One(d).data, Removed(d))
        /\ s.have = r.have \cup One(d).have
        /\ s.keydir = r.keydir \/ d[1] = "key-direction"
    BY <2>4 DEF Effect
  <2>6. \A x \in DOMAIN s.data : \E i \in DOMAIN u :
          x \in DOMAIN One(u[i]).data /\ s.data[x] = One(u[i]).data[x]
    <3>1. SUFFICES ASSUME NEW x \in DOMAIN s.data
                   PROVE  \E i \in DOMAIN u :
                            x \in DOMAIN One(u[i]).data /\ s.data[x] = One(u[i]).data[x]
      OBVIOUS
    <3>2. CASE x \in DOMAIN One(d).data BY <2>2, <2>3, <2>5, <3>2 DEF Turns
    <3>3. CASE x \notin DOMAIN One(d).data
      <4>1. x \in DOMAIN r.data /\ s.data[x] = r.data[x] BY <2>5, <3>1, <3>3 DEF Turns
      <4>2. PICK i \in DOMAIN t : x \in DOMAIN One(t[i]).data /\ r.data[x] = One(t[i]).data[x]
        BY <2>1, <4>1 DEF ReadFrom, r
      <4> QED BY <2>2, <2>3, <4>1, <4>2
    <3> QED BY <3>2, <3>3
  <2>7. ASSUME NEW i \in DOMAIN u, NEW x \in DOMAIN One(u[i]).data
        PROVE  x \in DOMAIN s.data \/ \E j \in DOMAIN u : x \in Removed(u[j])
    <3>1. CASE i = n BY <2>2, <2>5, <2>7, <3>1 DEF Turns
    <3>2. CASE i # n
      <4>1. i \in DOMAIN t /\ u[i] = t[i] BY <2>2, <2>3, <3>2
      <4>2. x \in DOMAIN r.data \/ \E j \in DOMAIN t : x \in Removed(t[j])
        BY <2>1, <2>7, <4>1 DEF ReadFrom, r
      <4>3. CASE x \in DOMAIN r.data
        <5>1. x \in DOMAIN s.data \/ x \in Removed(d) BY <2>5, <4>3 DEF Turns
        <5> QED BY <2>2, <2>3, <5>1
      <4>4. CASE \E j \in DOMAIN t : x \in Removed(t[j]) BY <2>2, <2>3, <4>4
      <4> QED BY <4>2, <4>3, <4>4
    <3> QED BY <3>1, <3>2
  <2>8. /\ \A x \in s.have : \E i \in DOMAIN u : x \in One(u[i]).have
        /\ \A i \in DOMAIN u : One(u[i]).have \subseteq s.have
    BY <2>1, <2>2, <2>3, <2>5 DEF ReadFrom, r
  <2>9. s.keydir = "" \/ \E i \in DOMAIN u : u[i][1] = "key-direction"
    BY <2>1, <2>2, <2>3, <2>5 DEF ReadFrom, r
  <2>10. ReadFrom(u) BY <2>6, <2>7, <2>8, <2>9 DEF ReadFrom, s
  <2> QED BY <2>2, <2>10 DEF u
<1>3. Q \in SUBSET Seq(Directives) OBVIOUS
<1> HIDE DEF Q
<1>4. Q = Seq(Directives) BY <1>1, <1>2, <1>3, SequenceInduction
<1> QED BY <1>4 DEF Q

-----------------------------------------------------------------------------
(* Which items one directive gives, and what it says about the             *)
(* credentials.                                                            *)
GivesPlain(d, x, v) ==
    \/ d[1] \in DOMAIN Copied /\ x = Copied[d[1]] /\ v = Arg0(d)
    \/ d[1] \in Flags /\ x = d[1] /\ v = "yes"

GivesProxy(d, x, v) ==
    /\ d[1] \in Proxies /\ Arg0(d) # ""
    /\ \/ x = "proxy-type" /\ v = IF d[1] = "http-proxy" THEN "http" ELSE "socks"
       \/ x = "proxy-server" /\ v = Arg0(d)
       \/ x = "proxy-port" /\ v = Arg1(d)
       \/ x = "http-proxy-auth-file" /\ d[1] = "http-proxy" /\ Len(d) >= 4 /\ v = d[4]

GivesTunnel(d, x, v) ==
    \/ d[1] = "proto" /\ Arg0(d) \notin UdpProtos /\ x = "proto-tcp" /\ v = "yes"
    \/ /\ d[1] \in {"mssfix", "compress"} /\ x = d[1]
       /\ v = IF Arg0(d) = "" THEN "yes" ELSE Arg0(d)
    \/ /\ d[1] = "comp-lzo" /\ x = "comp-lzo"
       /\ v = IF Arg0(d) = "no" THEN "no-by-default" ELSE IF Arg0(d) = "" THEN "yes" ELSE Arg0(d)
    \/ d[1] = "tls-version-min" /\ x = "tls-version-min" /\ v = Arg0(d)
    \/ /\ d[1] = "tls-version-min" /\ Arg1(d) = "or-highest"
       /\ x = "tls-version-min-or-highest" /\ v = "yes"
    \/ /\ d[1] = "verify-x509-name" /\ x = "verify-x509-name"
       /\ v = CHOOSE y \in DOMAIN X509Names : X509Names[y] = <<Arg1(d), Arg0(d)>>
    \/ /\ d[1] = "crl-verify" /\ v = Arg0(d)
       /\ x = IF Arg1(d) = "dir" THEN "crl-verify-dir" ELSE "crl-verify-file"
    \/ d[1] = "ifconfig" /\ Len(d) >= 3 /\ x = "local-ip" /\ v = Arg0(d)
    \/ d[1] = "ifconfig" /\ Len(d) >= 3 /\ x = "remote-ip" /\ v = Arg1(d)
    \/ d[1] = "keepalive" /\ Len(d) >= 3 /\ x = "ping" /\ v = Arg0(d)
    \/ d[1] = "keepalive" /\ Len(d) >= 3 /\ x = "ping-restart" /\ v = Arg1(d)

GivesCredential(d, x, v) ==
    \/ d[1] \in {"ca", "cert", "key"} /\ x = d[1] /\ v = Arg0(d)
    \/ d[1] = "pkcs12" /\ x \in {"ca", "cert", "key"} /\ v = Arg0(d)
    \/ d[1] = "secret" /\ x = "static-key" /\ v = Arg0(d)
    \/ d[1] = "secret" /\ Arg0(d) # "" /\ x = "static-key-direction" /\ v = Arg1(d)
    \/ d[1] = "tls-auth" /\ x = "ta" /\ v = Arg0(d)
    \/ d[1] = "tls-auth" /\ Arg0(d) # "" /\ x = "ta-dir" /\ v = Arg1(d)

Gives(d, x, v) ==
    /\ v # ""
    /\ \/ GivesPlain(d, x, v) \/ GivesProxy(d, x, v)
       \/ GivesTunnel(d, x, v) \/ GivesCredential(d, x, v)

Tells(d) ==
    CASE d[1] = "auth-user-pass" -> {"auth-user-pass"}
      [] d[1] \in {"ca", "cert", "key"} /\ Arg0(d) # "" -> {d[1]}
      [] d[1] = "pkcs12" /\ Arg0(d) # "" -> {"ca", "cert", "key"}
      [] d[1] = "secret" /\ Arg0(d) # "" -> {"secret"}
      [] d[1] = "tls-auth" -> {"tls-auth"}
      [] d[1] = "<>" /\ Arg0(d) \in {"ca", "cert", "key", "secret"} -> {Arg0(d)}
      [] OTHER -> {}

(* The dictionary n holds exactly the items given by d.                    *)
Holds(n, d) ==
    /\ \A x \in DOMAIN n : Gives(d, x, n[x])
    /\ \A x, v : Gives(d, x, v) => x \in DOMAIN n /\ n[x] = v

LEMMA NothingIs == DOMAIN Nothing = {}
BY DEF Nothing

LEMMA OnePlain ==
    ASSUME NEW d \in Directives, d[1] \in DOMAIN Copied \cup Flags
    PROVE  Holds(One(d).data, d) /\ One(d).have = {}
<1>1. d[1] \notin Proxies \cup TunnelNames \cup CredentialNames
  BY DEF Copied, Flags, Proxies, TunnelNames, CredentialNames
<1>2. \A x, v : Gives(d, x, v) <=> v # "" /\ GivesPlain(d, x, v)
  BY <1>1 DEF Gives, GivesProxy, GivesTunnel, GivesCredential, TunnelNames, CredentialNames
<1>3. Start.data = Nothing /\ Start.have = {} BY StartType
<1>4. One(d).data = (IF d[1] \in DOMAIN Copied
                    THEN IF Arg0(d) = "" THEN Nothing ELSE With(Nothing, Copied[d[1]], Arg0(d))
                    ELSE With(Nothing, d[1], "yes"))
      /\ One(d).have = {}
  BY <1>3 DEF One, ImportDirective, Start
<1>5. d[1] \in DOMAIN Copied => d[1] \notin Flags BY DEF Copied, Flags
<1>6. CASE d[1] \in DOMAIN Copied /\ Arg0(d) = ""
  BY <1>2, <1>4, <1>5, <1>6, NothingIs DEF Holds, GivesPlain
<1>7. CASE d[1] \in DOMAIN Copied /\ Arg0(d) # ""
  <2>1. /\ DOMAIN One(d).data = {Copied[d[1]]}
        /\ One(d).data[Copied[d[1]]] = Arg0(d)
    BY <1>4, <1>7, NothingIs DEF With, WithAll
  <2> QED BY <1>2, <1>4, <1>5, <1>7, <2>1 DEF Holds, GivesPlain
<1>8. CASE d[1] \in Flags
  <2>1. DOMAIN One(d).data = {d[1]} /\ One(d).data[d[1]] = "yes"
    BY <1>4, <1>5, <1>8, NothingIs DEF With, WithAll
  <2> QED BY <1>2, <1>4, <1>5, <1>8, <2>1 DEF Holds, GivesPlain
<1> QED BY <1>6, <1>7, <1>8

LEMMA OneProxy ==
    ASSUME NEW d \in Directives, d[1] \in Proxies
    PROVE  Holds(One(d).data, d) /\ One(d).have = {}
<1>1. d[1] \notin DOMAIN Copied \cup Flags \cup TunnelNames \cup CredentialNames
  BY DEF Copied, Flags, Proxies, TunnelNames, CredentialNames
<1>2. \A x, v : Gives(d, x, v) <=> v # "" /\ GivesProxy(d, x, v)
  BY <1>1 DEF Gives, GivesPlain, GivesTunnel, GivesCredential, TunnelNames, CredentialNames
<1>3. Start.data = Nothing /\ Start.have = {} BY StartType
<1>4. One(d) = ImportProxy(Start, d)
  BY <1>1 DEF One, ImportDirective, Proxies
<1>5. CASE Arg0(d) = ""
  <2>1. One(d) = Start BY <1>4, <1>5 DEF ImportProxy
  <2> QED BY <1>2, <1>3, <1>5, <2>1, NothingIs DEF Holds, GivesProxy
<1>6. CASE Arg0(d) # ""
  <2> DEFINE kind == IF d[1] = "http-proxy" THEN "http" ELSE "socks"
             n1 == With(Nothing, "proxy-type", kind)
             n2 == With(n1, "proxy-server", Arg0(d))
             n3 == IF Arg1(d) = "" THEN n2 ELSE With(n2, "proxy-port", Arg1(d))
             n4 == IF d[1] = "http-proxy" /\ Len(d) >= 4
                   THEN With(n3, "http-proxy-auth-file", d[4]) ELSE n3
  <2>1. One(d).data = n4 /\ One(d).have = {}
    BY <1>3, <1>4, <1>6 DEF ImportProxy, Start
  <2>2. DOMAIN n1 = {"proxy-type"} /\ n1["proxy-type"] = kind /\ kind # ""
    BY NothingIs DEF With, WithAll
  <2> HIDE DEF n1, kind
  <2>3. /\ DOMAIN n2 = {"proxy-type", "proxy-server"}
        /\ n2["proxy-type"] = kind /\ n2["proxy-server"] = Arg0(d)
    BY <1>6, <2>2 DEF With, WithAll
  <2> HIDE DEF n2
  <2>4. /\ DOMAIN n3 = {"proxy-type", "proxy-server"}
                         \cup (IF Arg1(d) = "" THEN {} ELSE {"proxy-port"})
        /\ n3["proxy-type"] = kind /\ n3["proxy-server"] = Arg0(d)
        /\ Arg1(d) # "" => n3["proxy-port"] = Arg1(d)
    BY <2>3 DEF With, WithAll
  <2> HIDE DEF n3
  <2>5. /\ DOMAIN n4 = {"proxy-type", "proxy-server"}
                         \cup (IF Arg1(d) = "" THEN {} ELSE {"proxy-port"})
                         \cup (IF d[1] = "http-proxy" /\ Len(d) >= 4 /\ d[4] # ""
                               THEN {"http-proxy-auth-file"} ELSE {})
        /\ n4["proxy-type"] = kind /\ n4["proxy-server"] = Arg0(d)
        /\ Arg1(d) # "" => n4["proxy-port"] = Arg1(d)
        /\ d[1] = "http-proxy" /\ Len(d) >= 4 /\ d[4] # ""
             => n4["http-proxy-auth-file"] = d[4]
    BY <2>4 DEF With, WithAll, Without
  <2> HIDE DEF n4
  <2>6. Holds(n4, d)
    <3>1. ASSUME NEW x \in DOMAIN n4 PROVE Gives(d, x, n4[x])
      BY <1>2, <1>6, <2>2, <2>5, <3>1 DEF GivesProxy, kind
    <3>2. ASSUME NEW x, NEW v, Gives(d, x, v) PROVE x \in DOMAIN n4 /\ n4[x] = v
      <4>1. v # "" /\ GivesProxy(d, x, v) BY <1>2, <3>2
      <4>2. CASE x = "proxy-type" BY <2>5, <4>1, <4>2 DEF GivesProxy, kind
      <4>3. CASE x = "proxy-server" BY <2>5, <4>1, <4>3 DEF GivesProxy
      <4>4. CASE x = "proxy-port" BY <2>5, <4>1, <4>4 DEF GivesProxy
      <4>5. CASE x = "http-proxy-auth-file" BY <2>5, <4>1, <4>5 DEF GivesProxy
      <4> QED BY <4>1, <4>2, <4>3, <4>4, <4>5 DEF GivesProxy
    <3> QED BY <3>1, <3>2 DEF Holds
  <2> QED BY <2>1, <2>6
<1> QED BY <1>5, <1>6

GivesTwo(d, k, v, k2, v2) ==
    \A x, w : Gives(d, x, w) <=> w # "" /\ ((x = k /\ w = v) \/ (x = k2 /\ w = v2))

LEMMA HoldsOne ==
    ASSUME NEW d, NEW k, NEW v, GivesTwo(d, k, v, k, v)
    PROVE  Holds(With(Nothing, k, v), d)
<1> DEFINE n == With(Nothing, k, v)
<1>1. CASE v = ""
  <2>1. DOMAIN n = {} BY <1>1, NothingIs DEF With, Without
  <2> QED BY <1>1, <2>1 DEF Holds, GivesTwo
<1>2. CASE v # ""
  <2>1. DOMAIN n = {k} /\ n[k] = v BY <1>2, NothingIs DEF With, WithAll
  <2> HIDE DEF n
  <2>2. Holds(n, d) BY <1>2, <2>1 DEF Holds, GivesTwo
  <2> QED BY <2>2 DEF n
<1> QED BY <1>1, <1>2

LEMMA HoldsTwo ==
    ASSUME NEW d, NEW k, NEW v, NEW k2, NEW v2, k # k2, GivesTwo(d, k, v, k2, v2)
    PROVE  Holds(With(With(Nothing, k, v), k2, v2), d)
<1> DEFINE n1 == With(Nothing, k, v)
           n == With(n1, k2, v2)
<1>1. DOMAIN n1 = (IF v = "" THEN {} ELSE {k}) /\ (v # "" => n1[k] = v)
  BY NothingIs DEF With, WithAll, Without
<1> HIDE DEF n1
<1>2. /\ \A x : x \in DOMAIN n <=> (x = k /\ v # "") \/ (x = k2 /\ v2 # "")
      /\ v # "" => n[k] = v
      /\ v2 # "" => n[k2] = v2
  <2>1. CASE v2 = "" BY <1>1, <2>1 DEF With, WithAll, Without
  <2>2. CASE v2 # ""
    <3>1. /\ DOMAIN n = DOMAIN n1 \cup {k2} /\ n[k2] = v2
          /\ k \in DOMAIN n1 => n[k] = n1[k]
      BY <2>2 DEF With, WithAll
    <3> HIDE DEF n
    <3> QED BY <1>1, <2>2, <3>1
  <2> QED BY <2>1, <2>2
<1> HIDE DEF n
<1>3. ASSUME NEW x \in DOMAIN n PROVE Gives(d, x, n[x])
  <2>1. CASE x = k /\ v # "" BY <1>2, <2>1 DEF GivesTwo
  <2>2. CASE x = k2 /\ v2 # "" BY <1>2, <2>2 DEF GivesTwo
  <2>3. (x = k /\ v # "") \/ (x = k2 /\ v2 # "") BY <1>2, <1>3
  <2> QED BY <2>1, <2>2, <2>3
<1>4. ASSUME NEW x, NEW w, Gives(d, x, w) PROVE x \in DOMAIN n /\ n[x] = w
  <2>1. w # "" /\ ((x = k /\ w = v) \/ (x = k2 /\ w = v2)) BY <1>4 DEF GivesTwo
  <2>2. CASE x = k /\ w = v BY <1>2, <2>1, <2>2
  <2>3. CASE x = k2 /\ w = v2 BY <1>2, <2>1, <2>3
  <2> QED BY <2>1, <2>2, <2>3
<1>5. Holds(n, d) BY <1>3, <1>4 DEF Holds
<1> QED BY <1>5 DEF n, n1

LEMMA OneTunnel ==
    ASSUME NEW d \in Directives, d[1] \in TunnelNames
    PROVE  Holds(One(d).data, d) /\ One(d).have = {}
<1>1. d[1] \notin DOMAIN Copied \cup Flags \cup Proxies \cup CredentialNames
  BY DEF Copied, Flags, Proxies, TunnelNames, CredentialNames
<1>2. \A x, v : Gives(d, x, v) <=> v # "" /\ GivesTunnel(d, x, v)
  BY <1>1 DEF Gives, GivesPlain, GivesProxy, GivesCredential, CredentialNames
<1>3. Start.data = Nothing /\ Start.have = {} BY StartType
<1>4. One(d) = ImportTunnel(Start, d) BY ViaTunnel DEF One
<1> DEFINE n == One(d).data
<1>5. CASE d[1] \in {"remote", "route"}
  <2>1. n = Nothing /\ One(d).have = {} BY <1>3, <1>4, <1>5 DEF ImportTunnel, Start
  <2> HIDE DEF n
  <2>20. Holds(n, d) BY <1>2, <1>5, <2>1, NothingIs DEF Holds, GivesTunnel
  <2> QED BY <2>1, <2>20 DEF n
<1>6. CASE d[1] = "proto"
  <2>1. /\ n = IF Arg0(d) \in UdpProtos THEN Nothing ELSE With(Nothing, "proto-tcp", "yes")
        /\ One(d).have = {}
    BY <1>3, <1>4, <1>6 DEF ImportTunnel, Start
  <2>2. /\ DOMAIN n = IF Arg0(d) \in UdpProtos THEN {} ELSE {"proto-tcp"}
        /\ Arg0(d) \notin UdpProtos => n["proto-tcp"] = "yes"
    BY <2>1, NothingIs DEF With, WithAll
  <2> HIDE DEF n
  <2>20. Holds(n, d) BY <1>2, <1>6, <2>1, <2>2 DEF Holds, GivesTunnel
  <2> QED BY <2>1, <2>20 DEF n
<1>7. CASE d[1] \in {"mssfix", "compress"}
  <2> DEFINE w == IF Arg0(d) = "" THEN "yes" ELSE Arg0(d)
  <2>1. n = With(Nothing, d[1], w) /\ One(d).have = {}
    BY <1>3, <1>4, <1>7 DEF ImportTunnel, Start
  <2>2. w # "" OBVIOUS
  <2>3. DOMAIN n = {d[1]} /\ n[d[1]] = w BY <2>1, <2>2, NothingIs DEF With, WithAll
  <2> HIDE DEF n
  <2>20. Holds(n, d) BY <1>2, <1>7, <2>1, <2>2, <2>3 DEF Holds, GivesTunnel
  <2> QED BY <2>1, <2>20 DEF n
<1>8. CASE d[1] = "comp-lzo"
  <2> DEFINE w == IF Arg0(d) = "no" THEN "no-by-default"
                  ELSE IF Arg0(d) = "" THEN "yes" ELSE Arg0(d)
  <2>1. n = With(Nothing, "comp-lzo", w) /\ One(d).have = {}
    BY <1>3, <1>4, <1>8 DEF ImportTunnel, Start
  <2>2. w # "" OBVIOUS
  <2>3. DOMAIN n = {"comp-lzo"} /\ n["comp-lzo"] = w
    BY <2>1, <2>2, NothingIs DEF With, WithAll
  <2> HIDE DEF n
  <2>20. Holds(n, d) BY <1>2, <1>8, <2>1, <2>2, <2>3 DEF Holds, GivesTunnel
  <2> QED BY <2>1, <2>20 DEF n
<1>9. CASE d[1] = "tls-version-min"
  <2> DEFINE n1 == IF Arg0(d) = "" THEN Nothing ELSE With(Nothing, "tls-version-min", Arg0(d))
  <2>1. /\ n = IF Arg1(d) = "or-highest" THEN With(n1, "tls-version-min-or-highest", "yes")
               ELSE n1
        /\ One(d).have = {}
    BY <1>3, <1>4, <1>9 DEF ImportTunnel, Start
  <2>2. /\ DOMAIN n1 = IF Arg0(d) = "" THEN {} ELSE {"tls-version-min"}
        /\ Arg0(d) # "" => n1["tls-version-min"] = Arg0(d)
    BY NothingIs DEF With, WithAll
  <2> HIDE DEF n1
  <2>3. /\ DOMAIN n = (IF Arg0(d) = "" THEN {} ELSE {"tls-version-min"})
                        \cup (IF Arg1(d) = "or-highest" THEN {"tls-version-min-or-highest"}
                              ELSE {})
        /\ Arg0(d) # "" => n["tls-version-min"] = Arg0(d)
        /\ Arg1(d) = "or-highest" => n["tls-version-min-or-highest"] = "yes"
    BY <2>1, <2>2 DEF With, WithAll
  <2> HIDE DEF n
  <2>20. Holds(n, d) BY <1>2, <1>9, <2>1, <2>3 DEF Holds, GivesTunnel
  <2> QED BY <2>1, <2>20 DEF n
<1>10. CASE d[1] = "verify-x509-name"
  <2> DEFINE w == CHOOSE y \in DOMAIN X509Names : X509Names[y] = <<Arg1(d), Arg0(d)>>
  <2>1. n = With(Nothing, "verify-x509-name", w) /\ One(d).have = {}
    BY <1>3, <1>4, <1>10 DEF ImportTunnel, Start
  <2>2. \E y \in DOMAIN X509Names : X509Names[y] = <<Arg1(d), Arg0(d)>>
    BY <1>10 DEF Directives, Spelled
  <2>3. w # "" BY <2>2, TableAssumption
  <2>4. \A x, v : GivesTunnel(d, x, v) <=> x = "verify-x509-name" /\ v = w
    BY <1>10 DEF GivesTunnel
  <2> HIDE DEF w
  <2>5. DOMAIN n = {"verify-x509-name"} /\ n["verify-x509-name"] = w
    BY <2>1, <2>3, NothingIs DEF With, WithAll
  <2> HIDE DEF n
  <2>20. Holds(n, d) BY <1>2, <1>10, <2>1, <2>3, <2>4, <2>5 DEF Holds
  <2> QED BY <2>1, <2>20 DEF n
<1>11. CASE d[1] = "crl-verify"
  <2> DEFINE k == IF Arg1(d) = "dir" THEN "crl-verify-dir" ELSE "crl-verify-file"
  <2>1. /\ n = IF Arg0(d) = "" THEN Nothing ELSE With(Nothing, k, Arg0(d))
        /\ One(d).have = {}
    BY <1>3, <1>4, <1>11 DEF ImportTunnel, Start
  <2>2. \A x, v : GivesTunnel(d, x, v) <=> x = k /\ v = Arg0(d)
    BY <1>11 DEF GivesTunnel
  <2>3. n = With(Nothing, k, Arg0(d)) BY <2>1 DEF With, Without, Nothing
  <2>4. GivesTwo(d, k, Arg0(d), k, Arg0(d)) BY <1>2, <2>2 DEF GivesTwo
  <2>5. Holds(n, d)
    <3> HIDE DEF n, k
    <3> QED BY <2>3, <2>4, HoldsOne
  <2> QED BY <2>1, <2>5
<1>12. CASE d[1] \in {"ifconfig", "keepalive"}
  <2> DEFINE k == IF d[1] = "ifconfig" THEN "local-ip" ELSE "ping"
             k2 == IF d[1] = "ifconfig" THEN "remote-ip" ELSE "ping-restart"
  <2>1. Len(d) >= 3 => d[3] = Arg1(d) BY DirectiveArgs, Zenon
  <2>2. /\ n = IF Len(d) >= 3 THEN With(With(Nothing, k, Arg0(d)), k2, Arg1(d)) ELSE Nothing
        /\ One(d).have = {}
    BY <1>3, <1>4, <1>12, <2>1 DEF ImportTunnel, Start
  <2>3. k # k2 OBVIOUS
  <2>4. ASSUME NEW x, NEW v
        PROVE  GivesTunnel(d, x, v) <=>
                 Len(d) >= 3 /\ ((x = k /\ v = Arg0(d)) \/ (x = k2 /\ v = Arg1(d)))
    <3>1. CASE d[1] = "ifconfig"
      <4>1. k = "local-ip" /\ k2 = "remote-ip" BY <3>1
      <4> HIDE DEF k, k2
      <4>2. GivesTunnel(d, x, v) => Len(d) >= 3 /\ ((x = k /\ v = Arg0(d)) \/ (x = k2 /\ v = Arg1(d)))
        BY <3>1, <4>1 DEF GivesTunnel
      <4>3. Len(d) >= 3 /\ x = k /\ v = Arg0(d) => GivesTunnel(d, x, v)
        BY <3>1, <4>1, Zenon DEF GivesTunnel
      <4>4. Len(d) >= 3 /\ x = k2 /\ v = Arg1(d) => GivesTunnel(d, x, v)
        BY <3>1, <4>1, Zenon DEF GivesTunnel
      <4> QED BY <4>2, <4>3, <4>4
    <3>2. CASE d[1] = "keepalive"
      <4>1. k = "ping" /\ k2 = "ping-restart" BY <3>2
      <4> HIDE DEF k, k2
      <4>2. GivesTunnel(d, x, v) => Len(d) >= 3 /\ ((x = k /\ v = Arg0(d)) \/ (x = k2 /\ v = Arg1(d)))
        BY <3>2, <4>1 DEF GivesTunnel
      <4>3. Len(d) >= 3 /\ x = k /\ v = Arg0(d) => GivesTunnel(d, x, v)
        BY <3>2, <4>1, Zenon DEF GivesTunnel
      <4>4. Len(d) >= 3 /\ x = k2 /\ v = Arg1(d) => GivesTunnel(d, x, v)
        BY <3>2, <4>1, Zenon DEF GivesTunnel
      <4> QED BY <4>2, <4>3, <4>4
    <3> QED BY <1>12, <3>1, <3>2
  <2>5. CASE Len(d) >= 3
    <3>1. GivesTwo(d, k, Arg0(d), k2, Arg1(d)) BY <1>2, <2>4, <2>5 DEF GivesTwo
    <3>2. n = With(With(Nothing, k, Arg0(d)), k2, Arg1(d)) BY <2>2, <2>5
    <3> HIDE DEF n, k, k2
    <3>3. Holds(n, d) BY <2>3, <3>1, <3>2, HoldsTwo
    <3> QED BY <2>2, <3>3 DEF n
  <2>6. CASE ~(Len(d) >= 3)
    <3>1. \A x, v : ~Gives(d, x, v) BY <1>2, <2>4, <2>6
    <3> QED BY <2>2, <2>6, <3>1, NothingIs DEF Holds
  <2> QED BY <2>5, <2>6
<1> QED BY <1>5, <1>6, <1>7, <1>8, <1>9, <1>10, <1>11, <1>12 DEF TunnelNames

LEMMA OneCredential ==
    ASSUME NEW d \in Directives, d[1] \in CredentialNames
    PROVE  Holds(One(d).data, d) /\ One(d).have = Tells(d)
<1>1. d[1] \notin DOMAIN Copied \cup Flags \cup Proxies \cup TunnelNames
  BY DEF Copied, Flags, Proxies, TunnelNames, CredentialNames
<1>2. \A x, v : Gives(d, x, v) <=> v # "" /\ GivesCredential(d, x, v)
  BY <1>1 DEF Gives, GivesPlain, GivesProxy, GivesTunnel, TunnelNames
<1>3. Start.data = Nothing /\ Start.have = {} BY StartType
<1>4. One(d) = ImportCredential(Start, d) BY ViaCredential DEF One
<1> DEFINE n == One(d).data
<1>5. CASE d[1] \in {"auth-user-pass", "key-direction", "<>"}
  <2>1. n = Nothing /\ One(d).have = Tells(d)
    <3>1. CASE d[1] = "auth-user-pass"
      BY <1>3, <1>4, <3>1 DEF ImportCredential, Start, IsBlob, Tells
    <3>2. CASE d[1] = "key-direction"
      BY <1>3, <1>4, <3>2 DEF ImportCredential, Start, IsBlob, Tells
    <3>3. CASE d[1] = "<>"
      BY <1>3, <1>4, <3>3 DEF ImportCredential, Start, IsBlob, Tells
    <3> QED BY <1>5, <3>1, <3>2, <3>3
  <2>2. \A x, v : ~Gives(d, x, v) BY <1>2, <1>5 DEF GivesCredential
  <2> QED BY <2>1, <2>2, NothingIs DEF Holds
<1>6. CASE d[1] \in {"ca", "cert", "key"}
  <2>1. n = With(Nothing, d[1], Arg0(d)) /\ One(d).have = Tells(d)
    <3>1. CASE Arg0(d) = ""
      <4>1. One(d) = Start BY <1>4, <1>6, <3>1 DEF ImportCredential, IsBlob
      <4> QED BY <1>3, <1>6, <3>1, <4>1 DEF Tells, With, Without, Nothing
    <3>2. CASE Arg0(d) # ""
      <4>1. n = WithAll(Nothing, {d[1]}, Arg0(d)) /\ One(d).have = {d[1]}
        <5>1. CASE d[1] = "ca" BY <1>3, <1>4, <5>1, <3>2 DEF ImportCredential, Start, IsBlob
        <5>2. CASE d[1] = "cert" BY <1>3, <1>4, <5>2, <3>2 DEF ImportCredential, Start, IsBlob
        <5>3. CASE d[1] = "key" BY <1>3, <1>4, <5>3, <3>2 DEF ImportCredential, Start, IsBlob
        <5> QED BY <1>6, <5>1, <5>2, <5>3
      <4>2. Tells(d) = {d[1]} BY <1>6, <3>2 DEF Tells
      <4> QED BY <3>2, <4>1, <4>2 DEF With
    <3> QED BY <3>1, <3>2
  <2>2. GivesTwo(d, d[1], Arg0(d), d[1], Arg0(d)) 
    <3>1. \A x, v : GivesCredential(d, x, v) <=> x = d[1] /\ v = Arg0(d)
      BY <1>6 DEF GivesCredential
    <3> QED BY <1>2, <3>1 DEF GivesTwo
  <2> HIDE DEF n
  <2>3. Holds(n, d) BY <2>1, <2>2, HoldsOne
  <2> QED BY <2>1, <2>3 DEF n
<1>7. CASE d[1] = "pkcs12"
  <2>1. \A x, v : Gives(d, x, v) <=> v # "" /\ x \in {"ca", "cert", "key"} /\ v = Arg0(d)
    <3>1. \A x, v : GivesCredential(d, x, v) <=> x \in {"ca", "cert", "key"} /\ v = Arg0(d)
      BY <1>7 DEF GivesCredential
    <3> SUFFICES ASSUME NEW x, NEW v
                 PROVE  Gives(d, x, v) <=> v # "" /\ x \in {"ca", "cert", "key"} /\ v = Arg0(d)
      OBVIOUS
    <3>2. Gives(d, x, v) <=> v # "" /\ GivesCredential(d, x, v) BY <1>2
    <3>3. GivesCredential(d, x, v) <=> x \in {"ca", "cert", "key"} /\ v = Arg0(d) BY <3>1
    <3> QED BY <3>2, <3>3
  <2>2. CASE Arg0(d) = ""
    <3>1. One(d) = Start BY <1>4, <1>7, <2>2 DEF ImportCredential, IsBlob
    <3> QED BY <1>3, <1>7, <2>1, <2>2, <3>1, NothingIs DEF Tells, Holds
  <2>3. CASE Arg0(d) # ""
    <3>1. n = WithAll(Nothing, {"ca", "cert", "key"}, Arg0(d)) /\ One(d).have = Tells(d)
      BY <1>3, <1>4, <1>7, <2>3 DEF ImportCredential, Start, IsBlob, Tells
    <3>2. DOMAIN n = {"ca", "cert", "key"} /\ \A x \in {"ca", "cert", "key"} : n[x] = Arg0(d)
      BY <3>1, NothingIs DEF WithAll
    <3> HIDE DEF n
    <3>3. Holds(n, d) BY <2>1, <2>3, <3>2 DEF Holds
    <3> QED BY <3>1, <3>3 DEF n
  <2> QED BY <2>2, <2>3
<1>8. CASE d[1] \in {"secret", "tls-auth"}
  <2> DEFINE k == IF d[1] = "secret" THEN "static-key" ELSE "ta"
             k2 == IF d[1] = "secret" THEN "static-key-direction" ELSE "ta-dir"
  <2>1. \A x, v : Gives(d, x, v) <=>
          v # "" /\ ((x = k /\ v = Arg0(d)) \/ (x = k2 /\ Arg0(d) # "" /\ v = Arg1(d)))
    <3>1. ASSUME NEW x, NEW v
          PROVE  GivesCredential(d, x, v) <=>
                   (x = k /\ v = Arg0(d)) \/ (x = k2 /\ Arg0(d) # "" /\ v = Arg1(d))
      <4>1. CASE d[1] = "secret" BY <4>1 DEF GivesCredential
      <4>2. CASE d[1] = "tls-auth" BY <4>2 DEF GivesCredential
      <4> QED BY <1>8, <4>1, <4>2
    <3> HIDE DEF k, k2
    <3> SUFFICES ASSUME NEW x, NEW v
                 PROVE  Gives(d, x, v) <=>
                          v # "" /\ ((x = k /\ v = Arg0(d)) \/ (x = k2 /\ Arg0(d) # "" /\ v = Arg1(d)))
      OBVIOUS
    <3>2. Gives(d, x, v) <=> v # "" /\ GivesCredential(d, x, v) BY <1>2
    <3> QED BY <3>1, <3>2
  <2>2. One(d).have = Tells(d)
    BY <1>3, <1>4, <1>8 DEF ImportCredential, Start, IsBlob, Tells
  <2>3. CASE Arg0(d) = ""
    <3>1. n = Nothing BY <1>3, <1>4, <1>8, <2>3 DEF ImportCredential, IsBlob, Start
    <3>2. \A x, v : ~Gives(d, x, v) BY <2>1, <2>3
    <3> QED BY <2>2, <3>1, <3>2, NothingIs DEF Holds
  <2>4. CASE Arg0(d) # ""
    <3>1. n = IF Arg1(d) = "" THEN WithAll(Nothing, {k}, Arg0(d))
              ELSE With(WithAll(Nothing, {k}, Arg0(d)), k2, Arg1(d))
      BY <1>3, <1>4, <1>8, <2>4 DEF ImportCredential, Start, IsBlob
    <3>2. WithAll(Nothing, {k}, Arg0(d)) = With(Nothing, k, Arg0(d))
      <4> HIDE DEF k
      <4> QED BY <2>4 DEF With
    <3>3. GivesTwo(d, k, Arg0(d), k2, Arg1(d))
      <4> HIDE DEF k, k2
      <4> SUFFICES ASSUME NEW x, NEW w
                   PROVE  Gives(d, x, w) <=>
                            w # "" /\ ((x = k /\ w = Arg0(d)) \/ (x = k2 /\ w = Arg1(d)))
        BY DEF GivesTwo
      <4>1. Gives(d, x, w) <=>
              w # "" /\ ((x = k /\ w = Arg0(d)) \/ (x = k2 /\ Arg0(d) # "" /\ w = Arg1(d)))
        BY <2>1
      <4> QED BY <2>4, <4>1
    <3>4. k # k2 OBVIOUS
    <3> HIDE DEF n, k, k2
    <3>5. CASE Arg1(d) # ""
      <4>1. n = With(With(Nothing, k, Arg0(d)), k2, Arg1(d)) BY <3>1, <3>2, <3>5
      <4>2. Holds(n, d) BY <3>3, <3>4, <4>1, HoldsTwo
      <4> QED BY <2>2, <4>2 DEF n
    <3>6. CASE Arg1(d) = ""
      <4>1. n = With(Nothing, k, Arg0(d)) BY <3>1, <3>2, <3>6
      <4>2. GivesTwo(d, k, Arg0(d), k, Arg0(d)) BY <3>3, <3>6 DEF GivesTwo
      <4>3. Holds(n, d) BY <4>1, <4>2, HoldsOne
      <4> QED BY <2>2, <4>3 DEF n
    <3> QED BY <3>5, <3>6
  <2> QED BY <2>3, <2>4
<1> QED BY <1>5, <1>6, <1>7, <1>8 DEF CredentialNames

(* What any directive gives, on its own.                                   *)
LEMMA OneItems ==
    ASSUME NEW d \in Directives
    PROVE  Holds(One(d).data, d) /\ One(d).have = Tells(d)
<1>1. d[1] \notin CredentialNames => Tells(d) = {} BY DEF Tells, CredentialNames
<1>2. CASE d[1] \in DOMAIN Copied \cup Flags
  <2>1. d[1] \notin CredentialNames BY <1>2 DEF Copied, Flags, CredentialNames
  <2> QED BY <1>1, <1>2, <2>1, OnePlain
<1>3. CASE d[1] \in Proxies
  <2>1. d[1] \notin CredentialNames BY <1>3 DEF Proxies, CredentialNames
  <2> QED BY <1>1, <1>3, <2>1, OneProxy
<1>4. CASE d[1] \in TunnelNames
  <2>1. d[1] \notin CredentialNames BY <1>4 DEF TunnelNames, CredentialNames
  <2> QED BY <1>1, <1>4, <2>1, OneTunnel
<1>5. CASE d[1] \in CredentialNames BY <1>5, OneCredential
<1>6. CASE d[1] \notin DOMAIN Copied \cup Flags \cup Proxies \cup TunnelNames \cup CredentialNames
  <2>1. One(d) = Start BY <1>6, Ignored DEF One
  <2>2. \A x, v : ~Gives(d, x, v)
    BY <1>6 DEF Gives, GivesPlain, GivesProxy, GivesTunnel, GivesCredential, TunnelNames,
                CredentialNames
  <2> QED BY <1>1, <1>6, <2>1, <2>2, StartType, NothingIs DEF Holds
<1> QED BY <1>2, <1>3, <1>4, <1>5, <1>6

-----------------------------------------------------------------------------
(* The lines of a file, as a set; and what a whole file gives.             *)
Lines(t) == {t[i] : i \in DOMAIN t}

ReadsAs(t) ==
    /\ \A x \in DOMAIN Read(t).data : \E l \in Lines(t) : Gives(l, x, Read(t).data[x])
    /\ \A l \in Lines(t) : \A x, v : Gives(l, x, v) /\ (\A m \in Lines(t) : Removed(m) = {})
                                   => x \in DOMAIN Read(t).data
    /\ Read(t).have = UNION {Tells(l) : l \in Lines(t)}
    /\ Read(t).keydir # "" => \E l \in Lines(t) : l[1] = "key-direction"

LEMMA ReadGives == ASSUME NEW t \in Seq(Directives) PROVE ReadsAs(t)
<1>1. ReadFrom(t) BY ReadItems
<1>2. \A i \in DOMAIN t : t[i] \in Directives BY ElementOfSeq, LenProperties
<1>3. \A i \in DOMAIN t : Holds(One(t[i]).data, t[i]) /\ One(t[i]).have = Tells(t[i])
  BY <1>2, OneItems
<1>4. ASSUME NEW x \in DOMAIN Read(t).data
      PROVE  \E l \in Lines(t) : Gives(l, x, Read(t).data[x])
  <2>1. PICK i \in DOMAIN t : x \in DOMAIN One(t[i]).data
                              /\ Read(t).data[x] = One(t[i]).data[x]
    BY <1>1 DEF ReadFrom
  <2>2. Gives(t[i], x, Read(t).data[x]) BY <1>3, <2>1 DEF Holds
  <2> QED BY <2>2 DEF Lines
<1>5. ASSUME NEW l \in Lines(t), NEW x, NEW v, Gives(l, x, v),
             \A m \in Lines(t) : Removed(m) = {}
      PROVE  x \in DOMAIN Read(t).data
  <2>1. PICK i \in DOMAIN t : l = t[i] BY DEF Lines
  <2>2. x \in DOMAIN One(t[i]).data BY <1>3, <1>5, <2>1 DEF Holds
  <2>3. \A j \in DOMAIN t : Removed(t[j]) = {} BY <1>5 DEF Lines
  <2> QED BY <1>1, <2>2, <2>3 DEF ReadFrom
<1>6. Read(t).have = UNION {Tells(l) : l \in Lines(t)}
  <2>1. ASSUME NEW x \in Read(t).have PROVE \E l \in Lines(t) : x \in Tells(l)
    <3>1. PICK i \in DOMAIN t : x \in One(t[i]).have BY <1>1, <2>1 DEF ReadFrom
    <3> QED BY <1>3, <3>1 DEF Lines
  <2>2. ASSUME NEW l \in Lines(t) PROVE Tells(l) \subseteq Read(t).have
    <3>1. PICK i \in DOMAIN t : l = t[i] BY DEF Lines
    <3> QED BY <1>1, <1>3, <3>1 DEF ReadFrom
  <2> QED BY <2>1, <2>2
<1>7. Read(t).keydir # "" => \E l \in Lines(t) : l[1] = "key-direction"
  BY <1>1 DEF ReadFrom, Lines
<1> QED BY <1>4, <1>5, <1>6, <1>7 DEF ReadsAs

LEMMA LinesAppend ==
    ASSUME NEW D, NEW t \in Seq(D), NEW l \in D
    PROVE  Lines(Append(t, l)) = Lines(t) \cup {l}
<1>1. /\ Len(t) \in Nat /\ DOMAIN t = 1..Len(t)
      /\ DOMAIN Append(t, l) = 1..(Len(t) + 1)
      /\ \A i \in 1..Len(t) : Append(t, l)[i] = t[i]
      /\ Append(t, l)[Len(t) + 1] = l
  BY LenProperties, AppendProperties
<1>2. 1..(Len(t) + 1) = 1..Len(t) \cup {Len(t) + 1} BY <1>1
<1>3. ASSUME NEW x \in Lines(Append(t, l)) PROVE x \in Lines(t) \cup {l}
  <2>1. PICK i \in 1..(Len(t) + 1) : x = Append(t, l)[i] BY <1>1 DEF Lines
  <2>2. CASE i \in 1..Len(t) BY <1>1, <2>1, <2>2 DEF Lines
  <2>3. CASE i = Len(t) + 1 BY <1>1, <2>1, <2>3
  <2> QED BY <1>2, <2>2, <2>3
<1>4. ASSUME NEW x \in Lines(t) PROVE x \in Lines(Append(t, l))
  <2>1. PICK i \in 1..Len(t) : x = t[i] BY <1>1 DEF Lines
  <2>2. i \in DOMAIN Append(t, l) /\ x = Append(t, l)[i] BY <1>1, <1>2, <2>1
  <2> QED BY <2>2 DEF Lines
<1>5. l \in Lines(Append(t, l))
  <2>1. Len(t) + 1 \in DOMAIN Append(t, l) BY <1>1, <1>2
  <2> QED BY <1>1, <2>1 DEF Lines
<1> QED BY <1>3, <1>4, <1>5

(* emit appends the lines of a set one after the other.                    *)
Collects(f, L, D, base) ==
    /\ f \in [SUBSET L -> Seq(D)]
    /\ f[{}] = base
    /\ \A s \in SUBSET L : s # {} => \E x \in s : f[s] = Append(f[s \ {x}], x)

Listing(base, L) == FoldSet(LAMBDA l, listed : Append(listed, l), base, L)

LEMMA ListingCollects ==
    ASSUME NEW D, NEW L, L \subseteq D, IsFiniteSet(L), NEW base \in Seq(D)
    PROVE  \E f : Collects(f, L, D, base) /\ Listing(base, L) = f[L]
<1> DEFINE V == Seq(D)
           ch == [s \in SUBSET L |-> CHOOSE x \in s : TRUE]
           step == [x \in L |-> [v \in V |-> Append(v, x)]]
           iter == CHOOSE g : g = [s \in SUBSET L |-> IF s = {} THEN base
                        ELSE Append(g[s \ {CHOOSE x \in s : TRUE}], CHOOSE x \in s : TRUE)]
<1>1. Listing(base, L) = iter[L] BY DEF Listing, FoldSet, MapThenFoldSet
<1>2. \A s \in SUBSET L : s # {} => ch[s] \in s OBVIOUS
<1>3. step \in [L -> [V -> V]] BY AppendProperties
<1>4. \A s \in SUBSET L : ch[s] = CHOOSE x \in s : TRUE OBVIOUS
<1>5. \A x \in L, v \in V : step[x][v] = Append(v, x) OBVIOUS
<1> HIDE DEF V, ch, step
<1>6. Foldable(L, V, base, ch, step)
  <2>1. base \in V BY DEF V
  <2> QED BY <1>2, <1>3, <2>1 DEF Foldable
<1>7. PICK f : IsFold(f, L, V, base, ch, step) BY <1>6, FoldExists, Zenon
<1>8. ASSUME NEW s \in SUBSET L, s # {}
      PROVE  /\ ch[s] \in s /\ f[s \ {ch[s]}] \in V
             /\ f[s] = Append(f[s \ {ch[s]}], ch[s])
  <2>1. ch[s] \in s /\ s \ {ch[s]} \in SUBSET L /\ ch[s] \in L BY <1>2, <1>8
  <2>2. f[s \ {ch[s]}] \in V BY <1>7, <2>1 DEF IsFold
  <2>3. f[s] = step[ch[s]][f[s \ {ch[s]}]] BY <1>7, <1>8 DEF IsFold
  <2> QED BY <1>5, <2>1, <2>2, <2>3
<1>9. f = [s \in SUBSET L |-> IF s = {} THEN base
             ELSE Append(f[s \ {CHOOSE x \in s : TRUE}], CHOOSE x \in s : TRUE)]
  <2>1. f = [s \in SUBSET L |-> f[s]] /\ f[{}] = base BY <1>7 DEF IsFold
  <2>2. \A s \in SUBSET L : f[s] = IF s = {} THEN base
             ELSE Append(f[s \ {CHOOSE x \in s : TRUE}], CHOOSE x \in s : TRUE)
    BY <1>4, <1>8, <2>1
  <2> QED BY <2>1, <2>2
<1>10. iter = [s \in SUBSET L |-> IF s = {} THEN base
             ELSE Append(iter[s \ {CHOOSE x \in s : TRUE}], CHOOSE x \in s : TRUE)]
  BY <1>9
<1> HIDE DEF iter
<1>11. Solves(iter, L, V, base, ch, step)
  <2>1. iter[{}] = base BY <1>10
  <2>2. ASSUME NEW s \in SUBSET L, s # {}, iter[s \ {ch[s]}] \in V
        PROVE  iter[s] = step[ch[s]][iter[s \ {ch[s]}]]
    <3>1. iter[s] = Append(iter[s \ {ch[s]}], ch[s]) BY <1>4, <1>10, <2>2
    <3>2. ch[s] \in L BY <1>2, <2>2
    <3> QED BY <1>5, <2>2, <3>1, <3>2
  <2> QED BY <2>1, <2>2 DEF Solves
<1>12. L \in SUBSET L OBVIOUS
<1>13. SameOn(SUBSET L, f, iter) BY <1>6, <1>7, <1>11, <1>12, FoldUnique, Zenon
<1>14. Collects(f, L, D, base)
  <2>1. f \in [SUBSET L -> V] /\ f[{}] = base BY <1>7 DEF IsFold
  <2>2. \A s \in SUBSET L : s # {} => \E x \in s : f[s] = Append(f[s \ {x}], x) BY <1>8
  <2> QED BY <2>1, <2>2 DEF Collects, V
<1> QED BY <1>1, <1>13, <1>14 DEF SameOn

(* The lines of h called n, under their numbers; and a part of h.          *)
Named(h, n) == [i \in {j \in DOMAIN h : h[j][1] = n} |-> h[i]]

Part(h, s) == [i \in s |-> h[i]]

RemoteLines == {d \in Directives : d[1] = "remote"}

RouteDirectives == {d \in Directives : d[1] # "remote"}

OtherLines == {d \in Directives : d[1] \notin {"remote", "route"}}

(* A directive appended to a file is read after the rest of it.            *)
LEMMA AppendRead ==
    ASSUME NEW t \in Seq(Directives), NEW d \in Directives
    PROVE  /\ Append(t, d) \in Seq(Directives)
           /\ Lines(Append(t, d)) = Lines(t) \cup {d}
           /\ Read(t) \in Accs
           /\ Read(Append(t, d)).remotes =
                IF d[1] = "remote" THEN Append(Read(t).remotes, RemoteEntry(d))
                ELSE Read(t).remotes
           /\ Read(Append(t, d)).routes =
                IF d[1] = "route" THEN Append(Read(t).routes, d) ELSE Read(t).routes
<1>1. Append(t, d) \in Seq(Directives) BY AppendProperties
<1>2. Lines(Append(t, d)) = Lines(t) \cup {d} BY LinesAppend
<1>3. Read(t) \in Accs /\ Effect(Read(Append(t, d)), Read(t), One(d), d) BY ReadSteps
<1> QED BY <1>1, <1>2, <1>3 DEF Effect

RemotesReadAs(r) ==
    /\ r \in Seq(Directives)
    /\ Read(r).remotes = [i \in DOMAIN r |-> RemoteEntry(r[i])]
    /\ Read(r).routes = <<>>

LEMMA RemotesRead == \A r \in Seq(RemoteLines) : RemotesReadAs(r)
<1> DEFINE Q == {r \in Seq(RemoteLines) : RemotesReadAs(r)}
<1>1. <<>> \in Q
  <2>1. Read(<<>>) = Start BY ReadSteps
  <2>2. Start.remotes = <<>> /\ Start.routes = <<>> BY DEF Start
  <2>3. [i \in DOMAIN <<>> |-> RemoteEntry(<<>>[i])] = <<>> OBVIOUS
  <2>4. <<>> \in Seq(Directives) /\ <<>> \in Seq(RemoteLines) OBVIOUS
  <2>5. RemotesReadAs(<<>>)
    <3> HIDE DEF Q
    <3> QED BY <2>1, <2>2, <2>3, <2>4 DEF RemotesReadAs
  <2> QED BY <2>4, <2>5
<1>2. ASSUME NEW t \in Q, NEW l \in RemoteLines PROVE Append(t, l) \in Q
  <2>1. t \in Seq(Directives) /\ t \in Seq(RemoteLines)
        /\ Read(t).remotes = [i \in DOMAIN t |-> RemoteEntry(t[i])] /\ Read(t).routes = <<>>
    BY <1>2 DEF RemotesReadAs
  <2>2. l \in Directives /\ l[1] = "remote" BY DEF RemoteLines
  <2>3. /\ Append(t, l) \in Seq(Directives)
        /\ Read(Append(t, l)).remotes = Append(Read(t).remotes, RemoteEntry(l))
        /\ Read(Append(t, l)).routes = <<>>
    BY <2>1, <2>2, AppendRead
  <2>4. Append([i \in DOMAIN t |-> RemoteEntry(t[i])], RemoteEntry(l))
          = [i \in DOMAIN Append(t, l) |-> RemoteEntry(Append(t, l)[i])]
    <3> DEFINE m == [i \in DOMAIN t |-> RemoteEntry(t[i])]
               e == RemoteEntry(l)
               u == Append(t, l)
               w == [i \in DOMAIN u |-> RemoteEntry(u[i])]
    <3>1. /\ Len(t) \in Nat /\ DOMAIN t = 1..Len(t) /\ DOMAIN u = 1..(Len(t) + 1)
          /\ \A i \in 1..Len(t) : u[i] = t[i] /\ t[i] \in Directives
          /\ u[Len(t) + 1] = l
      BY <2>1, <2>2, LenProperties, AppendProperties, ElementOfSeq
    <3>2. m \in Seq(Entries) /\ Len(m) = Len(t) /\ e \in Entries
      <4>1. \A i \in 1..Len(t) : RemoteEntry(t[i]) \in Entries BY <3>1, EntryType
      <4>2. m \in [1..Len(t) -> Entries] BY <3>1, <4>1
      <4>3. e \in Entries BY <2>2, EntryType
      <4> HIDE DEF m, e
      <4> QED BY <3>1, <4>2, <4>3, LenProperties
    <3>3. \A i \in 1..Len(t) : m[i] = RemoteEntry(t[i]) BY <3>1
    <3> HIDE DEF m, u
    <3>4. /\ Append(m, e) \in Seq(Entries) /\ DOMAIN Append(m, e) = 1..(Len(t) + 1)
          /\ \A i \in 1..Len(t) : Append(m, e)[i] = m[i]
          /\ Append(m, e)[Len(t) + 1] = e
      <4> HIDE DEF e
      <4> QED BY <3>1, <3>2, LenProperties, AppendProperties
    <3>5. ASSUME NEW i \in 1..(Len(t) + 1) PROVE Append(m, e)[i] = RemoteEntry(u[i])
      <4>1. CASE i \in 1..Len(t) BY <3>1, <3>3, <3>4, <4>1
      <4>2. CASE i = Len(t) + 1 BY <3>1, <3>4, <4>2
      <4>3. Len(t) \in Nat BY <3>1
      <4>4. i \in 1..Len(t) \/ i = Len(t) + 1
        <5> HIDE DEF e
        <5> QED BY <4>3
      <4> QED BY <4>1, <4>2, <4>4
    <3>6. Append(m, e) = [i \in 1..(Len(t) + 1) |-> Append(m, e)[i]]
      <4>1. Append(m, e) = [i \in 1..Len(Append(m, e)) |-> Append(m, e)[i]]
        BY <3>4, LenProperties
      <4>2. 1..Len(Append(m, e)) = DOMAIN Append(m, e) BY <3>4, LenProperties
      <4> HIDE DEF e
      <4> QED BY <3>4, <4>1, <4>2
    <3>7. Append(m, e) = w
      <4>1. w = [i \in 1..(Len(t) + 1) |-> RemoteEntry(u[i])] BY <3>1
      <4>2. [i \in 1..(Len(t) + 1) |-> Append(m, e)[i]] = [i \in 1..(Len(t) + 1) |-> RemoteEntry(u[i])]
        BY <3>5
      <4> HIDE DEF e, w
      <4> QED BY <3>6, <4>1, <4>2, Zenon
    <3> QED BY <3>7 DEF m, u
  <2>5. Append(t, l) \in Seq(RemoteLines) BY <2>1, AppendProperties
  <2> QED BY <2>1, <2>3, <2>4, <2>5 DEF RemotesReadAs
<1>3. Q \in SUBSET Seq(RemoteLines) OBVIOUS
<1> HIDE DEF Q
<1>4. Q = Seq(RemoteLines) BY <1>1, <1>2, <1>3, SequenceInduction
<1> QED BY <1>4 DEF Q

RoutesReadAs(base, h, s) ==
    LET t == base \o InOrder(Part(h, s))
    IN  /\ t \in Seq(Directives)
        /\ Lines(t) = Lines(base) \cup {h[i] : i \in s}
        /\ Read(t).remotes = Read(base).remotes
        /\ Read(t).routes = InOrder(Named(Part(h, s), "route"))

PartIs(h, D, s, n) ==
    /\ Listed(Part(h, s), D) /\ DOMAIN Part(h, s) = s
    /\ Listed(Named(Part(h, s), n), D)
    /\ DOMAIN Named(Part(h, s), n) = {j \in s : h[j][1] = n}

LEMMA PartListed ==
    ASSUME NEW h, NEW D, Listed(h, D), NEW s \in SUBSET DOMAIN h, NEW n
    PROVE  PartIs(h, D, s, n)
<1>1. IsFiniteSet(s) BY FS_Subset DEF Listed
<1>2. {j \in s : h[j][1] = n} \subseteq s OBVIOUS
<1>3. IsFiniteSet({j \in s : h[j][1] = n}) BY <1>1, <1>2, FS_Subset
<1> QED BY <1>1, <1>3 DEF Listed, Part, Named, PartIs

LEMMA RoutesRead ==
    ASSUME NEW base \in Seq(Directives), Read(base).routes = <<>>,
           NEW h, Listed(h, RouteDirectives)
    PROVE  \A s \in SUBSET DOMAIN h : RoutesReadAs(base, h, s)
<1> DEFINE S == DOMAIN h
           Q == {s \in SUBSET S : RoutesReadAs(base, h, s)}
<1>1. S \in SUBSET Nat /\ IsFiniteSet(S) /\ \A i \in S : h[i] \in RouteDirectives
  BY DEF Listed
<1>2. {} \in Q
  <2>1. {} \in SUBSET S OBVIOUS
  <2>2. Listed(Part(h, {}), RouteDirectives) /\ DOMAIN Part(h, {}) = {}
        /\ Listed(Named(Part(h, {}), "route"), RouteDirectives)
        /\ DOMAIN Named(Part(h, {}), "route") = {}
    <3>1. PartIs(h, RouteDirectives, {}, "route") BY <2>1, PartListed
    <3> QED BY <3>1 DEF PartIs
  <2>3. InOrder(Part(h, {})) = <<>> BY <2>2, InOrderIs
  <2>4. InOrder(Named(Part(h, {}), "route")) = <<>> BY <2>2, InOrderIs
  <2>5. base \o <<>> = base BY ConcatEmptySeq
  <2>6. {h[i] : i \in {}} = {} OBVIOUS
  <2>7. RoutesReadAs(base, h, {}) BY <2>3, <2>4, <2>5, <2>6 DEF RoutesReadAs
  <2> QED BY <2>1, <2>7
<1>3. ASSUME NEW s \in SUBSET S, s # {}, \A x \in s : s \ {x} \in Q PROVE s \in Q
  <2> DEFINE m == Max(s)
             r == s \ {m}
             u == InOrder(Part(h, r))
             l == h[m]
             t == base \o u
             ns == Named(Part(h, s), "route")
             nr == Named(Part(h, r), "route")
  <2>1. IsFiniteSet(s) /\ s \in SUBSET Int BY <1>1, FS_Subset
  <2>2. m \in s /\ \A y \in s : m >= y BY <1>3, <2>1, FiniteMax
  <2>3. r \in Q /\ r \in SUBSET S BY <1>3, <2>2
  <2>4. l \in Directives /\ l[1] # "remote" /\ l \in RouteDirectives
    BY <1>1, <2>2 DEF RouteDirectives
  <2>5. /\ Listed(Part(h, s), RouteDirectives) /\ DOMAIN Part(h, s) = s
        /\ Listed(ns, RouteDirectives) /\ DOMAIN ns = {j \in s : h[j][1] = "route"}
        /\ Listed(Part(h, r), RouteDirectives) /\ DOMAIN Part(h, r) = r
        /\ Listed(nr, RouteDirectives) /\ DOMAIN nr = {j \in r : h[j][1] = "route"}
    <3>1. r \in SUBSET DOMAIN h /\ s \in SUBSET DOMAIN h BY <2>3
    <3> HIDE DEF r
    <3>2. PartIs(h, RouteDirectives, s, "route") BY <3>1, PartListed
    <3>3. PartIs(h, RouteDirectives, r, "route") BY <3>1, PartListed
    <3> QED BY <3>2, <3>3 DEF PartIs
  <2>6. Last1(Part(h, s)) = m BY <2>5 DEF Last1
  <2>7. Part(h, s)[m] = l BY <2>2 DEF Part
  <2>8. Before(Part(h, s)) = Part(h, r) BY <2>5, <2>6 DEF Before, Part
  <2>9. InOrder(Part(h, s)) = Append(u, l) /\ u \in Seq(RouteDirectives)
    <3>1. /\ InOrder(Before(Part(h, s))) \in Seq(RouteDirectives)
          /\ InOrder(Part(h, s)) = Append(InOrder(Before(Part(h, s))), Part(h, s)[Last1(Part(h, s))])
      BY <1>3, <2>5, InOrderIs
    <3> HIDE DEF m, r
    <3> QED BY <2>6, <2>7, <2>8, <3>1
  <2>10. u \in Seq(Directives)
    <3>1. RouteDirectives \subseteq Directives BY DEF RouteDirectives
    <3> HIDE DEF u
    <3> QED BY <2>9, <3>1
  <2>11. base \o Append(u, l) = Append(t, l) /\ t \in Seq(Directives)
    <3> HIDE DEF u, l
    <3> QED BY <2>4, <2>10
  <2>12. /\ Lines(t) = Lines(base) \cup {h[i] : i \in r}
         /\ Read(t).remotes = Read(base).remotes
         /\ Read(t).routes = InOrder(nr)
    BY <2>3 DEF RoutesReadAs
  <2>13. /\ Append(t, l) \in Seq(Directives)
         /\ Lines(Append(t, l)) = Lines(t) \cup {l}
         /\ Read(Append(t, l)).remotes = Read(t).remotes
         /\ Read(Append(t, l)).routes =
              IF l[1] = "route" THEN Append(Read(t).routes, l) ELSE Read(t).routes
    BY <2>4, <2>11, AppendRead
  <2>14. {h[i] : i \in s} = {h[i] : i \in r} \cup {l} BY <2>2
  <2>15. InOrder(ns) = IF l[1] = "route" THEN Append(InOrder(nr), l) ELSE InOrder(nr)
    <3>1. CASE l[1] = "route"
      <4>1. m \in DOMAIN ns /\ \A y \in DOMAIN ns : m >= y BY <2>2, <2>5, <3>1
      <4>2. Last1(ns) = m
        <5>1. Last1(ns) \in DOMAIN ns /\ \A i \in DOMAIN ns : i <= Last1(ns)
          BY <2>5, <4>1, LastListed
        <5>2. DOMAIN ns \in SUBSET Int BY <1>1, <2>5
        <5> HIDE DEF ns, m
        <5> QED BY <4>1, <5>1, <5>2
      <4>3. ns[m] = l BY <2>2, <3>1 DEF Named, Part
      <4>4. Before(ns) = nr
        <5>1. DOMAIN ns \ {m} = {j \in r : h[j][1] = "route"} BY <2>5
        <5>2. Before(ns) = [i \in {j \in r : h[j][1] = "route"} |-> ns[i]]
          BY <4>2, <5>1 DEF Before
        <5>3. \A i \in {j \in r : h[j][1] = "route"} : ns[i] = h[i] BY DEF Named, Part
        <5>4. nr = [i \in {j \in r : h[j][1] = "route"} |-> h[i]] BY DEF Named, Part
        <5> HIDE DEF ns, nr, r
        <5> QED BY <5>2, <5>3, <5>4
      <4>5. DOMAIN ns # {} BY <4>1
      <4> HIDE DEF ns, nr
      <4> QED BY <2>5, <3>1, <4>2, <4>3, <4>4, <4>5, InOrderIs
    <3>2. CASE l[1] # "route"
      <4>1. {j \in s : h[j][1] = "route"} = {j \in r : h[j][1] = "route"} BY <3>2
      <4>2. ns = nr BY <4>1 DEF Named, Part
      <4> QED BY <3>2, <4>2
    <3> QED BY <3>1, <3>2
  <2>16. RoutesReadAs(base, h, s)
    <3> HIDE DEF t, u, l, ns, nr, r
    <3>1. base \o InOrder(Part(h, s)) = Append(t, l) BY <2>9, <2>11
    <3>2. InOrder(Named(Part(h, s), "route")) = InOrder(ns) BY DEF ns
    <3>3. /\ Lines(Append(t, l)) = Lines(base) \cup {h[i] : i \in s}
          /\ Read(Append(t, l)).remotes = Read(base).remotes
          /\ Read(Append(t, l)).routes = InOrder(ns)
      BY <2>12, <2>13, <2>14, <2>15
    <3> QED BY <2>13, <3>1, <3>2, <3>3 DEF RoutesReadAs
  <2> QED BY <2>16
<1>4. Q \in SUBSET SUBSET S OBVIOUS
<1> HIDE DEF Q, S
<1>5. Q = SUBSET S BY <1>1, <1>2, <1>3, <1>4, SubsetInduction
<1> QED BY <1>5 DEF Q, S

ListingReadAs(base, L, f, s) ==
    /\ f[s] \in Seq(Directives)
    /\ Lines(f[s]) = Lines(base) \cup s
    /\ Read(f[s]).remotes = Read(base).remotes
    /\ Read(f[s]).routes = Read(base).routes

LEMMA ListingRead ==
    ASSUME NEW base \in Seq(Directives), NEW L, L \subseteq OtherLines, IsFiniteSet(L)
    PROVE  /\ Listing(base, L) \in Seq(Directives)
           /\ Lines(Listing(base, L)) = Lines(base) \cup L
           /\ Read(Listing(base, L)).remotes = Read(base).remotes
           /\ Read(Listing(base, L)).routes = Read(base).routes
<1>1. L \subseteq Directives BY DEF OtherLines
<1>2. PICK f : Collects(f, L, Directives, base) /\ Listing(base, L) = f[L]
  BY <1>1, ListingCollects, Zenon
<1> DEFINE Q == {s \in SUBSET L : ListingReadAs(base, L, f, s)}
<1>3. {} \in Q BY <1>2 DEF Collects, ListingReadAs
<1>4. ASSUME NEW s \in SUBSET L, s # {}, \A x \in s : s \ {x} \in Q PROVE s \in Q
  <2>1. PICK x \in s : f[s] = Append(f[s \ {x}], x) BY <1>2, <1>4 DEF Collects
  <2>2. s \ {x} \in Q BY <1>4
  <2> DEFINE t == f[s \ {x}]
  <2>3. /\ t \in Seq(Directives)
        /\ Lines(t) = Lines(base) \cup (s \ {x})
        /\ Read(t).remotes = Read(base).remotes
        /\ Read(t).routes = Read(base).routes
    BY <2>2 DEF ListingReadAs
  <2>4. x \in Directives /\ x[1] \notin {"remote", "route"} BY DEF OtherLines
  <2> HIDE DEF t
  <2>5. /\ Append(t, x) \in Seq(Directives)
        /\ Lines(Append(t, x)) = Lines(t) \cup {x}
        /\ Read(Append(t, x)).remotes = Read(t).remotes
        /\ Read(Append(t, x)).routes = Read(t).routes
    BY <2>3, <2>4, AppendRead
  <2>6. f[s] = Append(t, x) BY <2>1 DEF t
  <2>7. Lines(base) \cup (s \ {x}) \cup {x} = Lines(base) \cup s OBVIOUS
  <2>8. ListingReadAs(base, L, f, s) BY <2>3, <2>5, <2>6, <2>7 DEF ListingReadAs
  <2> QED BY <2>8
<1>5. Q \in SUBSET SUBSET L OBVIOUS
<1> HIDE DEF Q
<1>6. Q = SUBSET L BY <1>3, <1>4, <1>5, SubsetInduction
<1>7. L \in SUBSET L OBVIOUS
<1>8. ListingReadAs(base, L, f, L) BY <1>6, <1>7 DEF Q
<1> QED BY <1>2, <1>8 DEF ListingReadAs

(* A profile as the emitters make it, and what an import reads in it.      *)
Regular(p) ==
    /\ p.remotes \in Seq(RemoteLines)
    /\ Listed(p.routes, RouteDirectives)
    /\ p.lines \subseteq OtherLines /\ IsFiniteSet(p.lines)

LEMMA EmitReads ==
    ASSUME NEW p, Regular(p)
    PROVE  /\ emit(p) \in Seq(Directives)
           /\ Lines(emit(p)) = Lines(p.remotes) \cup Lines(p.routes) \cup p.lines
           /\ Read(emit(p)).remotes = [i \in DOMAIN p.remotes |-> RemoteEntry(p.remotes[i])]
           /\ Read(emit(p)).routes = InOrder(Named(p.routes, "route"))
<1> DEFINE r == p.remotes
           h == p.routes
           b == r \o InOrder(h)
           L == p.lines
<1>1. r \in Seq(RemoteLines) /\ Listed(h, RouteDirectives) /\ L \subseteq OtherLines
      /\ IsFiniteSet(L)
  BY DEF Regular
<1>2. emit(p) = Listing(b, L) BY DEF emit, Listing
<1> HIDE DEF r, h, b, L
<1>3. /\ r \in Seq(Directives) /\ Read(r).routes = <<>>
      /\ Read(r).remotes = [i \in DOMAIN r |-> RemoteEntry(r[i])]
  BY <1>1, RemotesRead DEF RemotesReadAs
<1>4. RoutesReadAs(r, h, DOMAIN h) BY <1>1, <1>3, RoutesRead
<1>5. Part(h, DOMAIN h) = h BY <1>1 DEF Listed, Part
<1>6. /\ b \in Seq(Directives)
      /\ Lines(b) = Lines(r) \cup Lines(h)
      /\ Read(b).remotes = Read(r).remotes
      /\ Read(b).routes = InOrder(Named(h, "route"))
  BY <1>4, <1>5 DEF RoutesReadAs, b, Lines
<1>7. /\ Listing(b, L) \in Seq(Directives)
      /\ Lines(Listing(b, L)) = Lines(b) \cup L
      /\ Read(Listing(b, L)).remotes = Read(b).remotes
      /\ Read(Listing(b, L)).routes = Read(b).routes
  BY <1>1, <1>6, ListingRead
<1> QED BY <1>2, <1>3, <1>6, <1>7 DEF r, h, L

-----------------------------------------------------------------------------
(* The lines of an exported profile, form by form.                         *)
ExportedFlags ==
    {"remote-random", "remote-random-hostname", "allow-pull-fqdn", "tun-ipv6",
     "push-peer-info"}

Folded(d) ==
    /\ NeedsUserCert(d) /\ Has(d, "ca") /\ Has(d, "cert") /\ Has(d, "key")
    /\ d["ca"] = d["cert"] /\ d["cert"] = d["key"] /\ d["cert"] \in Pkcs12

CredentialLine(d, l) ==
    \/ \E f \in ExportedFlags : Yes(d, f) /\ l = <<f>>
    \/ IsTlsLike(d) /\ l = <<"client">>
    \/ Folded(d) /\ l = <<"pkcs12", d["cert"]>>
    \/ ~Folded(d) /\ IsTlsLike(d) /\ Has(d, "ca") /\ l = <<"ca", d["ca"]>>
    \/ ~Folded(d) /\ NeedsUserCert(d) /\ Has(d, "cert") /\ l = <<"cert", d["cert"]>>
    \/ ~Folded(d) /\ NeedsUserCert(d) /\ Has(d, "key") /\ l = <<"key", d["key"]>>
    \/ IsPasswordLike(d) /\ l = <<"auth-user-pass">>
    \/ /\ IsStaticKey(d) /\ Has(d, "static-key")
       /\ l = IF Has(d, "static-key-direction")
              THEN <<"secret", d["static-key"], d["static-key-direction"]>>
              ELSE <<"secret", d["static-key"]>>

PairLine(d, l, pairs) == \E p \in pairs : Has(d, p[1]) /\ l = <<p[2], d[p[1]]>>

Compressing(d) == ~Is(d, "allow-compression", "no")

TunnelLine(d, l) ==
    \/ /\ Compressing(d) /\ Has(d, "comp-lzo")
       /\ l = <<"comp-lzo", IF d["comp-lzo"] = "no-by-default" THEN "no" ELSE d["comp-lzo"]>>
    \/ Compressing(d) /\ Yes(d, "compress") /\ l = <<"compress">>
    \/ /\ Compressing(d) /\ Has(d, "compress") /\ ~Yes(d, "compress")
       /\ l = <<"compress", d["compress"]>>
    \/ Yes(d, "float") /\ l = <<"float">>
    \/ Yes(d, "mssfix") /\ l = <<"mssfix">>
    \/ Has(d, "mssfix") /\ ~Yes(d, "mssfix") /\ l = <<"mssfix", d["mssfix"]>>
    \/ /\ Has(d, "local-ip") /\ Has(d, "remote-ip")
       /\ l = <<"ifconfig", d["local-ip"], d["remote-ip"]>>

TlsPairs ==
    {<<k, k>> : k \in {"tls-crypt", "tls-crypt-v2", "remote-cert-tls", "ns-cert-type",
                       "tls-remote", "tls-version-max", "extra-certs"}}

TlsLine(d, l) ==
    /\ IsTlsLike(d)
    /\ \/ Has(d, "verify-x509-name") /\ l = BuildX509(d["verify-x509-name"])
       \/ /\ Has(d, "ta")
          /\ l = IF Has(d, "ta-dir") THEN <<"tls-auth", d["ta"], d["ta-dir"]>>
                 ELSE <<"tls-auth", d["ta"]>>
       \/ /\ Has(d, "tls-version-min")
          /\ l = IF Yes(d, "tls-version-min-or-highest")
                 THEN <<"tls-version-min", d["tls-version-min"], "or-highest">>
                 ELSE <<"tls-version-min", d["tls-version-min"]>>
       \/ PairLine(d, l, TlsPairs)
       \/ Has(d, "crl-verify-file") /\ l = <<"crl-verify", d["crl-verify-file"]>>
       \/ /\ ~Has(d, "crl-verify-file") /\ Has(d, "crl-verify-dir")
          /\ l = <<"crl-verify", d["crl-verify-dir"], "dir">>

Device(d) == IF Has(d, "dev") THEN d["dev"]
             ELSE IF Has(d, "dev-type") THEN d["dev-type"]
             ELSE IF Yes(d, "tap-dev") THEN "tap" ELSE "tun"

TailLine(d, l) ==
    \/ l = <<"dev", Device(d)>>
    \/ l = <<"proto", IF Yes(d, "proto-tcp") THEN "tcp" ELSE "udp">>
    \/ Has(d, "dev-type") /\ l = <<"dev-type", d["dev-type"]>>
    \/ /\ Has(d, "proxy-server") /\ Is(d, "proxy-type", "http")
       /\ \/ l = <<"http-proxy", d["proxy-server"],
                   IF Has(d, "proxy-port") THEN d["proxy-port"] ELSE "8080">>
          \/ Yes(d, "proxy-retry") /\ l = <<"http-proxy-retry">>
    \/ /\ Has(d, "proxy-server") /\ Is(d, "proxy-type", "socks")
       /\ \/ l = <<"socks-proxy", d["proxy-server"],
                   IF Has(d, "proxy-port") THEN d["proxy-port"] ELSE "1080">>
          \/ Yes(d, "proxy-retry") /\ l = <<"socks-proxy-retry">>
    \/ l \in BuildTail

ExportedLine(d, l) ==
    \/ CredentialLine(d, l) \/ PairLine(d, l, pairs_str) \/ TunnelLine(d, l)
    \/ TlsLine(d, l) \/ TailLine(d, l)

LEMMA CredentialLines ==
    ASSUME NEW d, NEW l PROVE l \in ExportCredentials(d) <=> CredentialLine(d, l)
<1> DEFINE ca   == IF IsTlsLike(d) THEN Arg(d, "ca") ELSE <<>>
           cert == IF NeedsUserCert(d) THEN Arg(d, "cert") ELSE <<>>
           key  == IF NeedsUserCert(d) THEN Arg(d, "key") ELSE <<>>
           fold == ca # <<>> /\ ca = cert /\ cert = key /\ cert[1] \in Pkcs12
           A == {<<f>> : f \in
                  {g \in {"remote-random", "remote-random-hostname", "allow-pull-fqdn",
                          "tun-ipv6", "push-peer-info"} : Yes(d, g)}}
           B == IF IsTlsLike(d) THEN {<<"client">>} ELSE {}
           C == IF fold THEN {<<"pkcs12">> \o cert}
                ELSE (IF ca # <<>> THEN {<<"ca">> \o ca} ELSE {})
                     \cup (IF cert # <<>> THEN {<<"cert">> \o cert} ELSE {})
                     \cup (IF key # <<>> THEN {<<"key">> \o key} ELSE {})
           D == IF IsPasswordLike(d) THEN {<<"auth-user-pass">>} ELSE {}
           E == IF IsStaticKey(d) /\ Has(d, "static-key")
                THEN {<<"secret">> \o Arg(d, "static-key") \o Arg(d, "static-key-direction")}
                ELSE {}
<1>1. ExportCredentials(d) = A \cup B \cup C \cup D \cup E BY Zenon DEF ExportCredentials
<1>2. l \in A <=> \E f \in ExportedFlags : Yes(d, f) /\ l = <<f>> BY DEF ExportedFlags
<1>3. \A k : Arg(d, k) = (IF Has(d, k) THEN <<d[k]>> ELSE <<>>) BY DEF Arg
<1>4. \A v : <<v>> # <<>> /\ <<v>>[1] = v OBVIOUS
<1>5. NeedsUserCert(d) => IsTlsLike(d) BY DEF NeedsUserCert, IsTlsLike
<1>6. l \in C <=>
        \/ Folded(d) /\ l = <<"pkcs12", d["cert"]>>
        \/ ~Folded(d) /\ IsTlsLike(d) /\ Has(d, "ca") /\ l = <<"ca", d["ca"]>>
        \/ ~Folded(d) /\ NeedsUserCert(d) /\ Has(d, "cert") /\ l = <<"cert", d["cert"]>>
        \/ ~Folded(d) /\ NeedsUserCert(d) /\ Has(d, "key") /\ l = <<"key", d["key"]>>
  <2>1. fold <=> Folded(d)
    <3>1. fold => Folded(d) BY <1>3, <1>4, <1>5 DEF Folded
    <3>2. Folded(d) => fold BY <1>3, <1>4, <1>5 DEF Folded
    <3> QED BY <3>1, <3>2
  <2>2. /\ ca # <<>> <=> IsTlsLike(d) /\ Has(d, "ca")
        /\ cert # <<>> <=> NeedsUserCert(d) /\ Has(d, "cert")
        /\ key # <<>> <=> NeedsUserCert(d) /\ Has(d, "key")
    BY <1>3, <1>4
  <2>3. /\ ca # <<>> => <<"ca">> \o ca = <<"ca", d["ca"]>>
        /\ cert # <<>> => <<"cert">> \o cert = <<"cert", d["cert"]>>
        /\ key # <<>> => <<"key">> \o key = <<"key", d["key"]>>
        /\ cert # <<>> => <<"pkcs12">> \o cert = <<"pkcs12", d["cert"]>>
    BY <1>3, Joined2
  <2>4. fold => cert # <<>> OBVIOUS
  <2> HIDE DEF ca, cert, key, fold
  <2> QED BY <2>1, <2>2, <2>3, <2>4
<1>7. l \in E <=>
        /\ IsStaticKey(d) /\ Has(d, "static-key")
        /\ l = IF Has(d, "static-key-direction")
               THEN <<"secret", d["static-key"], d["static-key-direction"]>>
               ELSE <<"secret", d["static-key"]>>
  <2>1. CASE Has(d, "static-key")
    <3>1. <<"secret">> \o Arg(d, "static-key") \o Arg(d, "static-key-direction")
            = <<"secret", d["static-key"]>> \o Arg(d, "static-key-direction")
      BY <2>1, SameSecret
    <3>2. <<"secret", d["static-key"]>> \o Arg(d, "static-key-direction")
            = IF Has(d, "static-key-direction")
              THEN <<"secret", d["static-key"], d["static-key-direction"]>>
              ELSE <<"secret", d["static-key"]>>
      BY <1>3, Joined3, JoinedNothing
    <3> QED BY <2>1, <3>1, <3>2
  <2>2. CASE ~Has(d, "static-key") BY <2>2
  <2> QED BY <2>1, <2>2
<1>8. /\ l \in B <=> IsTlsLike(d) /\ l = <<"client">>
      /\ l \in D <=> IsPasswordLike(d) /\ l = <<"auth-user-pass">>
  OBVIOUS
<1> HIDE DEF A, B, C, D, E
<1> QED BY <1>1, <1>2, <1>6, <1>7, <1>8, Zenon DEF CredentialLine

LEMMA PairLines ==
    ASSUME NEW d, NEW l, NEW pairs PROVE l \in ExportPairs(d, pairs) <=> PairLine(d, l, pairs)
BY DEF ExportPairs, PairLine

LEMMA TunnelLines ==
    ASSUME NEW d, NEW l PROVE l \in ExportTunnel(d) <=> TunnelLine(d, l)
<1> DEFINE A == IF Has(d, "comp-lzo")
                THEN {<<"comp-lzo", IF d["comp-lzo"] = "no-by-default" THEN "no"
                                    ELSE d["comp-lzo"]>>} ELSE {}
           B == IF Yes(d, "compress") THEN {<<"compress">>}
                ELSE ExportPairs(d, {<<"compress", "compress">>})
           C == IF Yes(d, "float") THEN {<<"float">>} ELSE {}
           D == IF Yes(d, "mssfix") THEN {<<"mssfix">>}
                ELSE ExportPairs(d, {<<"mssfix", "mssfix">>})
           E == IF Has(d, "local-ip") /\ Has(d, "remote-ip")
                THEN {<<"ifconfig", d["local-ip"], d["remote-ip"]>>} ELSE {}
<1>1. ExportTunnel(d) = (IF Is(d, "allow-compression", "no") THEN {} ELSE A \cup B)
                          \cup C \cup D \cup E
  BY Zenon DEF ExportTunnel
<1>2. l \in B <=> \/ Yes(d, "compress") /\ l = <<"compress">>
                  \/ Has(d, "compress") /\ ~Yes(d, "compress") /\ l = <<"compress", d["compress"]>>
  <2>1. ExportPairs(d, {<<"compress", "compress">>})
          = IF Has(d, "compress") THEN {<<"compress", d["compress"]>>} ELSE {}
    BY OneLine
  <2>2. CASE Yes(d, "compress") BY <2>2
  <2>3. CASE ~Yes(d, "compress") BY <2>1, <2>3
  <2> QED BY <2>2, <2>3
<1>3. l \in D <=> \/ Yes(d, "mssfix") /\ l = <<"mssfix">>
                  \/ Has(d, "mssfix") /\ ~Yes(d, "mssfix") /\ l = <<"mssfix", d["mssfix"]>>
  <2>1. ExportPairs(d, {<<"mssfix", "mssfix">>})
          = IF Has(d, "mssfix") THEN {<<"mssfix", d["mssfix"]>>} ELSE {}
    BY OneLine
  <2>2. CASE Yes(d, "mssfix") BY <2>2
  <2>3. CASE ~Yes(d, "mssfix") BY <2>1, <2>3
  <2> QED BY <2>2, <2>3
<1>4. /\ l \in A <=> Has(d, "comp-lzo")
           /\ l = <<"comp-lzo", IF d["comp-lzo"] = "no-by-default" THEN "no" ELSE d["comp-lzo"]>>
      /\ l \in C <=> Yes(d, "float") /\ l = <<"float">>
      /\ l \in E <=> Has(d, "local-ip") /\ Has(d, "remote-ip")
                     /\ l = <<"ifconfig", d["local-ip"], d["remote-ip"]>>
  OBVIOUS
<1> HIDE DEF A, B, C, D, E
<1>5. l \in ExportTunnel(d) <=>
        (Compressing(d) /\ (l \in A \/ l \in B)) \/ l \in C \/ l \in D \/ l \in E
  BY <1>1 DEF Compressing
<1> QED BY <1>2, <1>3, <1>4, <1>5, Zenon DEF TunnelLine

LEMMA TlsLines ==
    ASSUME NEW d, NEW l PROVE l \in ExportTls(d) <=> TlsLine(d, l)
<1>1. CASE ~IsTlsLike(d) BY <1>1 DEF ExportTls, TlsLine
<1>2. CASE IsTlsLike(d)
  <2> DEFINE A == IF Has(d, "verify-x509-name")
                  THEN LET x == X509Names[d["verify-x509-name"]]
                       IN  {<<"verify-x509-name", x[2]>>
                              \o (IF x[1] = "" THEN <<>> ELSE <<x[1]>>)} ELSE {}
             B == IF Has(d, "ta") THEN {<<"tls-auth", d["ta"]>> \o Arg(d, "ta-dir")} ELSE {}
             C == IF Has(d, "tls-version-min")
                  THEN {<<"tls-version-min", d["tls-version-min"]>>
                          \o (IF Yes(d, "tls-version-min-or-highest")
                              THEN <<"or-highest">> ELSE <<>>)} ELSE {}
             D == ExportPairs(d, {<<k, k>> : k \in
                    {"tls-crypt", "tls-crypt-v2", "remote-cert-tls", "ns-cert-type",
                     "tls-remote", "tls-version-max", "extra-certs"}})
             E == IF Has(d, "crl-verify-file")
                  THEN {<<"crl-verify", d["crl-verify-file"]>>}
                  ELSE IF Has(d, "crl-verify-dir")
                  THEN {<<"crl-verify", d["crl-verify-dir"], "dir">>} ELSE {}
  <2>1. ExportTls(d) = A \cup B \cup C \cup D \cup E BY <1>2, Zenon DEF ExportTls
  <2>2. l \in A <=> Has(d, "verify-x509-name") /\ l = BuildX509(d["verify-x509-name"])
    BY SameX509
  <2>3. l \in B <=>
          /\ Has(d, "ta")
          /\ l = IF Has(d, "ta-dir") THEN <<"tls-auth", d["ta"], d["ta-dir"]>>
                 ELSE <<"tls-auth", d["ta"]>>
    BY Joined3, JoinedNothing DEF Arg
  <2>4. l \in C <=>
          /\ Has(d, "tls-version-min")
          /\ l = IF Yes(d, "tls-version-min-or-highest")
                 THEN <<"tls-version-min", d["tls-version-min"], "or-highest">>
                 ELSE <<"tls-version-min", d["tls-version-min"]>>
    BY Joined3, JoinedNothing
  <2>5. l \in D <=> PairLine(d, l, TlsPairs) BY PairLines DEF TlsPairs
  <2>6. l \in E <=>
          \/ Has(d, "crl-verify-file") /\ l = <<"crl-verify", d["crl-verify-file"]>>
          \/ /\ ~Has(d, "crl-verify-file") /\ Has(d, "crl-verify-dir")
             /\ l = <<"crl-verify", d["crl-verify-dir"], "dir">>
    OBVIOUS
  <2> HIDE DEF A, B, C, D, E
  <2> QED BY <1>2, <2>1, <2>2, <2>3, <2>4, <2>5, <2>6, Zenon DEF TlsLine
<1> QED BY <1>1, <1>2

LEMMA TailLines ==
    ASSUME NEW d, NEW l PROVE l \in ExportTail(d) <=> TailLine(d, l)
<1> DEFINE A == {<<"dev", IF Has(d, "dev") THEN d["dev"]
                          ELSE IF Has(d, "dev-type") THEN d["dev-type"]
                          ELSE IF Yes(d, "tap-dev") THEN "tap" ELSE "tun">>,
                 <<"proto", IF Yes(d, "proto-tcp") THEN "tcp" ELSE "udp">>}
           B == line_str(d, {<<"dev-type", "dev-type">>})
           C == BuildProxy(d)
<1>1. ExportTail(d) = A \cup B \cup C \cup BuildTail BY SameTail
<1>2. l \in A <=> l = <<"dev", Device(d)>>
                   \/ l = <<"proto", IF Yes(d, "proto-tcp") THEN "tcp" ELSE "udp">>
  BY DEF Device
<1>3. l \in B <=> Has(d, "dev-type") /\ l = <<"dev-type", d["dev-type"]>>
  <2>1. B = IF Has(d, "dev-type") THEN {<<"dev-type", d["dev-type"]>>} ELSE {}
    BY OneLine, SameLines
  <2> QED BY <2>1
<1>4. l \in C <=>
        \/ /\ Has(d, "proxy-server") /\ Is(d, "proxy-type", "http")
           /\ \/ l = <<"http-proxy", d["proxy-server"],
                       IF Has(d, "proxy-port") THEN d["proxy-port"] ELSE "8080">>
              \/ Yes(d, "proxy-retry") /\ l = <<"http-proxy-retry">>
        \/ /\ Has(d, "proxy-server") /\ Is(d, "proxy-type", "socks")
           /\ \/ l = <<"socks-proxy", d["proxy-server"],
                       IF Has(d, "proxy-port") THEN d["proxy-port"] ELSE "1080">>
              \/ Yes(d, "proxy-retry") /\ l = <<"socks-proxy-retry">>
  <2>1. ~(Is(d, "proxy-type", "http") /\ Is(d, "proxy-type", "socks")) BY DEF Is
  <2>2. CASE ~Has(d, "proxy-server") BY <2>2 DEF BuildProxy
  <2>3. CASE Has(d, "proxy-server") /\ Is(d, "proxy-type", "http")
    <3>1. C = {<<"http-proxy", d["proxy-server"],
                 IF Has(d, "proxy-port") THEN d["proxy-port"] ELSE "8080">>}
                \cup (IF Yes(d, "proxy-retry") THEN {<<"http-proxy-retry">>} ELSE {})
      BY <2>3 DEF BuildProxy
    <3> HIDE DEF C
    <3> QED BY <2>1, <2>3, <3>1
  <2>4. CASE Has(d, "proxy-server") /\ ~Is(d, "proxy-type", "http")
              /\ Is(d, "proxy-type", "socks")
    <3>1. C = {<<"socks-proxy", d["proxy-server"],
                 IF Has(d, "proxy-port") THEN d["proxy-port"] ELSE "1080">>}
                \cup (IF Yes(d, "proxy-retry") THEN {<<"socks-proxy-retry">>} ELSE {})
      BY <2>4 DEF BuildProxy
    <3> HIDE DEF C
    <3> QED BY <2>4, <3>1
  <2>5. CASE ~Is(d, "proxy-type", "http") /\ ~Is(d, "proxy-type", "socks")
    BY <2>5 DEF BuildProxy
  <2> QED BY <2>2, <2>3, <2>4, <2>5
<1> HIDE DEF A, B, C
<1> QED BY <1>1, <1>2, <1>3, <1>4, Zenon DEF TailLine

(* What an export writes besides the servers and the routes, line by line. *)
LEMMA ExportLines ==
    ASSUME NEW d, NEW l PROVE l \in from_nm_data(d).lines <=> ExportedLine(d, l)
<1>1. from_nm_data(d).lines
        = ExportCredentials(d) \cup ExportPairs(d, pairs_str) \cup ExportTunnel(d)
            \cup ExportTls(d) \cup ExportTail(d)
  BY DEF from_nm_data, Profile
<1> QED BY <1>1, CredentialLines, PairLines, TunnelLines, TlsLines, TailLines, Zenon
        DEF ExportedLine

-----------------------------------------------------------------------------
(* An exported profile is regular: its lines are directives an import can  *)
(* read, finitely many, and none of them takes an item away.               *)

(* A dictionary of strings whose lists the tables can read.                *)
Sound(d) ==
    /\ \A k \in DOMAIN d : d[k] \in Strings /\ d[k] # ""
    /\ Has(d, "remote") => d["remote"] \in DOMAIN Remotes
    /\ Has(d, "verify-x509-name") => d["verify-x509-name"] \in DOMAIN X509Names
    /\ Has(d, "nm-openvpn3-extra-routes")
         => d["nm-openvpn3-extra-routes"] \in DOMAIN RouteLines

Usual == {a \in Strings : a \notin {"remote", "route", "<>", "verify-x509-name"}}

Harmless(l) == l \in OtherLines /\ Removed(l) = {}

Values == {v \in Strings : v # ""}

LEMMA UsualLine ==
    ASSUME NEW l \in Seq(Strings), l # <<>>, l[1] \in Usual, Definite(l)
    PROVE  Harmless(l)
<1>1. l \in Directives BY DEF Directives, Usual, IsBlob
<1> QED BY <1>1 DEF Harmless, OtherLines, Usual, Removed

LEMMA UsualLine1 == ASSUME NEW a \in Usual PROVE Harmless(<<a>>)
<1> DEFINE l == <<a>>
<1>0. a \in Strings BY DEF Usual
<1>1. l \in Seq(Strings) /\ l # <<>> /\ l[1] = a /\ Len(l) = 1 BY <1>0
<1> HIDE DEF l
<1>2. \A i \in 2..1 : FALSE OBVIOUS
<1>3. Definite(l) BY <1>1, <1>2 DEF Definite
<1>4. Harmless(l) BY <1>1, <1>3, UsualLine
<1> QED BY <1>4 DEF l

LEMMA UsualLine2 == ASSUME NEW a \in Usual, NEW b \in Values PROVE Harmless(<<a, b>>)
<1> DEFINE l == <<a, b>>
<1>0. a \in Strings /\ b \in Strings BY DEF Usual, Values
<1>1. l \in Seq(Strings) /\ l # <<>> /\ l[1] = a /\ Len(l) = 2 /\ l[2] = b BY <1>0
<1>2. b # "" BY DEF Values
<1> HIDE DEF l
<1>3. \A i \in 2..2 : i = 2 OBVIOUS
<1>4. Definite(l) BY <1>1, <1>2, <1>3 DEF Definite
<1>5. Harmless(l) BY <1>1, <1>4, UsualLine
<1> QED BY <1>5 DEF l

LEMMA UsualLine3 ==
    ASSUME NEW a \in Usual, NEW b \in Values, NEW c \in Values PROVE Harmless(<<a, b, c>>)
<1> DEFINE l == <<a, b, c>>
<1>0. a \in Strings /\ b \in Strings /\ c \in Strings BY DEF Usual, Values
<1>1. l \in Seq(Strings) /\ l # <<>> /\ l[1] = a /\ Len(l) = 3 /\ l[2] = b /\ l[3] = c
  BY <1>0
<1>2. b # "" /\ c # "" BY DEF Values
<1> HIDE DEF l
<1>3. \A i \in 2..3 : i = 2 \/ i = 3 OBVIOUS
<1>4. Definite(l) BY <1>1, <1>2, <1>3 DEF Definite
<1>5. Harmless(l) BY <1>1, <1>4, UsualLine
<1> QED BY <1>5 DEF l

LEMMA UsualWords ==
    /\ ExportedFlags \subseteq Usual
    /\ {"client", "pkcs12", "ca", "cert", "key", "auth-user-pass", "secret"} \subseteq Usual
    /\ {p[2] : p \in pairs_str} \subseteq Usual
    /\ {"comp-lzo", "compress", "float", "mssfix", "ifconfig"} \subseteq Usual
    /\ {p[2] : p \in TlsPairs} \subseteq Usual
    /\ {"tls-auth", "tls-version-min", "crl-verify"} \subseteq Usual
    /\ {"dev", "proto", "dev-type", "http-proxy", "http-proxy-retry", "socks-proxy",
        "socks-proxy-retry", "nobind", "auth-nocache", "script-security", "persist-key",
        "persist-tun", "user", "group"} \subseteq Usual
    /\ {"no", "or-highest", "dir", "tap", "tun", "tcp", "udp", "8080", "1080", "2",
        "nm-openvpn3"} \subseteq Values
<1>1. ExportedFlags \subseteq Usual BY ImportAssumption DEF ExportedFlags, Usual
<1>2. {"client", "pkcs12", "ca", "cert", "key", "auth-user-pass", "secret"} \subseteq Usual
  BY ImportAssumption DEF Usual
<1>3. \A p \in pairs_str : p[2] \in Usual BY ImportAssumption DEF Usual, pairs_str
<1>4. {"comp-lzo", "compress", "float", "mssfix", "ifconfig"} \subseteq Usual
  BY ImportAssumption DEF Usual
<1>5. \A p \in TlsPairs : p[2] \in Usual BY ImportAssumption DEF Usual, TlsPairs
<1>6. {"tls-auth", "tls-version-min", "crl-verify"} \subseteq Usual
  BY ImportAssumption DEF Usual
<1>7. {"dev", "proto", "dev-type", "http-proxy", "http-proxy-retry", "socks-proxy",
       "socks-proxy-retry", "nobind", "auth-nocache", "script-security", "persist-key",
       "persist-tun", "user", "group"} \subseteq Usual
  BY ImportAssumption DEF Usual
<1>8. {"no", "or-highest", "dir", "tap", "tun", "tcp", "udp", "8080", "1080", "2",
       "nm-openvpn3"} \subseteq Values
  BY ImportAssumption DEF Values
<1> QED BY <1>1, <1>2, <1>3, <1>4, <1>5, <1>6, <1>7, <1>8

LEMMA CredentialHarmless ==
    ASSUME NEW d, NEW l, Sound(d), CredentialLine(d, l) PROVE Harmless(l)
<1>1. \A k \in DOMAIN d : d[k] \in Values BY DEF Sound, Values
<1>2. \A f \in ExportedFlags : Harmless(<<f>>) BY UsualLine1, UsualWords
<1>3. Harmless(<<"client">>) /\ Harmless(<<"auth-user-pass">>) BY UsualLine1, UsualWords
<1>4. \A b \in Values : /\ Harmless(<<"pkcs12", b>>) /\ Harmless(<<"ca", b>>)
                        /\ Harmless(<<"cert", b>>) /\ Harmless(<<"key", b>>)
                        /\ Harmless(<<"secret", b>>)
  BY UsualLine2, UsualWords
<1>5. \A b, c \in Values : Harmless(<<"secret", b, c>>) BY UsualLine3, UsualWords
<1> QED BY <1>1, <1>2, <1>3, <1>4, <1>5 DEF CredentialLine, Folded, Has

LEMMA PairHarmless ==
    ASSUME NEW d, NEW l, Sound(d), NEW pairs, {p[2] : p \in pairs} \subseteq Usual,
           PairLine(d, l, pairs)
    PROVE  Harmless(l)
<1>1. PICK p \in pairs : Has(d, p[1]) /\ l = <<p[2], d[p[1]]>> BY DEF PairLine
<1>2. d[p[1]] \in Values BY <1>1 DEF Sound, Values, Has
<1>3. p[2] \in Usual OBVIOUS
<1> QED BY <1>1, <1>2, <1>3, UsualLine2

LEMMA TunnelHarmless ==
    ASSUME NEW d, NEW l, Sound(d), TunnelLine(d, l) PROVE Harmless(l)
<1>1. \A k \in DOMAIN d : d[k] \in Values BY DEF Sound, Values
<1>2. Harmless(<<"compress">>) /\ Harmless(<<"float">>) /\ Harmless(<<"mssfix">>)
  BY UsualLine1, UsualWords
<1>3. \A b \in Values : /\ Harmless(<<"comp-lzo", b>>) /\ Harmless(<<"compress", b>>)
                        /\ Harmless(<<"mssfix", b>>)
  BY UsualLine2, UsualWords
<1>4. \A b, c \in Values : Harmless(<<"ifconfig", b, c>>) BY UsualLine3, UsualWords
<1>5. "no" \in Values BY UsualWords
<1> QED BY <1>1, <1>2, <1>3, <1>4, <1>5 DEF TunnelLine, Has

LEMMA X509Harmless ==
    ASSUME NEW v \in DOMAIN X509Names
    PROVE  /\ Harmless(BuildX509(v)) /\ BuildX509(v)[1] = "verify-x509-name"
           /\ X509Names[v] = <<Arg1(BuildX509(v)), Arg0(BuildX509(v))>>
<1> DEFINE x == X509Names[v]
           l == BuildX509(v)
<1>1. x \in Strings \X Strings BY TableAssumption
<1>2. "verify-x509-name" \in Strings BY ImportAssumption
<1>3. l = IF x[1] = "" THEN <<"verify-x509-name", x[2]>>
          ELSE <<"verify-x509-name", x[2], x[1]>>
  BY DEF BuildX509
<1> HIDE DEF x, l
<1>4. x = <<x[1], x[2]>> /\ x[1] \in Strings /\ x[2] \in Strings BY <1>1
<1>5. /\ l \in Seq(Strings) /\ l # <<>> /\ l[1] = "verify-x509-name"
      /\ Arg0(l) = x[2] /\ Arg1(l) = x[1]
  <2>1. CASE x[1] = ""
    <3>1. l = <<"verify-x509-name", x[2]>> BY <1>3, <2>1
    <3>2. l \in Seq(Strings) /\ l # <<>> /\ l[1] = "verify-x509-name" BY <1>2, <1>4, <3>1
    <3>3. Len(l) = 2 /\ l[2] = x[2] BY <3>1
    <3>4. Arg0(l) = x[2] /\ Arg1(l) = "" BY <3>3 DEF Arg0, Arg1
    <3> QED BY <2>1, <3>2, <3>4
  <2>2. CASE x[1] # ""
    <3>1. l = <<"verify-x509-name", x[2], x[1]>> BY <1>3, <2>2
    <3>2. l \in Seq(Strings) /\ l # <<>> /\ l[1] = "verify-x509-name" BY <1>2, <1>4, <3>1
    <3>3. Len(l) = 3 /\ l[2] = x[2] /\ l[3] = x[1] BY <3>1
    <3>4. Arg0(l) = x[2] /\ Arg1(l) = x[1] BY <3>3 DEF Arg0, Arg1
    <3> QED BY <3>2, <3>4
  <2> QED BY <2>1, <2>2
<1>7. Spelled(X509Names, <<Arg1(l), Arg0(l)>>) BY <1>4, <1>5 DEF Spelled, x
<1>8. l \in Directives BY <1>5, <1>7 DEF Directives, IsBlob
<1>9. Harmless(l) BY <1>5, <1>8 DEF Harmless, OtherLines, Removed
<1> QED BY <1>4, <1>5, <1>9 DEF l, x

LEMMA TlsHarmless ==
    ASSUME NEW d, NEW l, Sound(d), TlsLine(d, l) PROVE Harmless(l)
<1>1. \A k \in DOMAIN d : d[k] \in Values BY DEF Sound, Values
<1>2. Has(d, "verify-x509-name") => Harmless(BuildX509(d["verify-x509-name"]))
  BY X509Harmless DEF Sound
<1>3. \A b \in Values : /\ Harmless(<<"tls-auth", b>>) /\ Harmless(<<"tls-version-min", b>>)
                        /\ Harmless(<<"crl-verify", b>>)
  BY UsualLine2, UsualWords
<1>4. \A b, c \in Values : /\ Harmless(<<"tls-auth", b, c>>) /\ Harmless(<<"crl-verify", b, c>>)
                           /\ Harmless(<<"tls-version-min", b, c>>)
  BY UsualLine3, UsualWords
<1>5. "or-highest" \in Values /\ "dir" \in Values BY UsualWords
<1>6. PairLine(d, l, TlsPairs) => Harmless(l) BY PairHarmless, UsualWords
<1> QED BY <1>1, <1>2, <1>3, <1>4, <1>5, <1>6 DEF TlsLine, Has

LEMMA TailHarmless ==
    ASSUME NEW d, NEW l, Sound(d), TailLine(d, l) PROVE Harmless(l)
<1>1. \A k \in DOMAIN d : d[k] \in Values BY DEF Sound, Values
<1>2. /\ "tap" \in Values /\ "tun" \in Values /\ "tcp" \in Values /\ "udp" \in Values
      /\ "8080" \in Values /\ "1080" \in Values /\ "2" \in Values /\ "nm-openvpn3" \in Values
  BY UsualWords
<1>3. Device(d) \in Values BY <1>1, <1>2 DEF Device, Has
<1>4. /\ Harmless(<<"http-proxy-retry">>) /\ Harmless(<<"socks-proxy-retry">>)
      /\ Harmless(<<"nobind">>) /\ Harmless(<<"auth-nocache">>)
      /\ Harmless(<<"persist-key">>) /\ Harmless(<<"persist-tun">>)
  BY UsualLine1, UsualWords
<1>5. \A b \in Values : /\ Harmless(<<"dev", b>>) /\ Harmless(<<"proto", b>>)
                        /\ Harmless(<<"dev-type", b>>) /\ Harmless(<<"script-security", b>>)
                        /\ Harmless(<<"user", b>>) /\ Harmless(<<"group", b>>)
  BY UsualLine2, UsualWords
<1>6. \A b, c \in Values : Harmless(<<"http-proxy", b, c>>) /\ Harmless(<<"socks-proxy", b, c>>)
  BY UsualLine3, UsualWords
<1>7. l \in BuildTail => Harmless(l) BY <1>2, <1>4, <1>5 DEF BuildTail
<1> QED BY <1>1, <1>2, <1>3, <1>4, <1>5, <1>6, <1>7 DEF TailLine, Has

LEMMA ExportHarmless ==
    ASSUME NEW d, NEW l, Sound(d), ExportedLine(d, l) PROVE Harmless(l)
BY CredentialHarmless, PairHarmless, TunnelHarmless, TlsHarmless, TailHarmless, UsualWords
   DEF ExportedLine

(* The lines of a profile are finitely many.                               *)
LEMMA FiniteFew ==
    ASSUME NEW a, NEW b, NEW c, NEW d, NEW e PROVE IsFiniteSet({a, b, c, d, e})
<1>1. IsFiniteSet({a}) BY FS_Singleton
<1>2. IsFiniteSet({a} \cup {b}) BY <1>1, FS_AddElement
<1>3. IsFiniteSet({a} \cup {b} \cup {c}) BY <1>2, FS_AddElement
<1>4. IsFiniteSet({a} \cup {b} \cup {c} \cup {d}) BY <1>3, FS_AddElement
<1>5. IsFiniteSet({a} \cup {b} \cup {c} \cup {d} \cup {e}) BY <1>4, FS_AddElement
<1>6. {a} \cup {b} \cup {c} \cup {d} \cup {e} = {a, b, c, d, e} OBVIOUS
<1> QED BY <1>5, <1>6

LEMMA FiniteJoin ==
    ASSUME NEW A, NEW B, IsFiniteSet(A), IsFiniteSet(B) PROVE IsFiniteSet(A \cup B)
BY FS_Union

LEMMA FiniteSome ==
    ASSUME NEW c, NEW x PROVE IsFiniteSet(IF c THEN {x} ELSE {})
BY FS_Singleton, FS_EmptySet

LEMMA FiniteImage ==
    ASSUME NEW f, NEW S, IsFiniteSet(S), f = [x \in S |-> f[x]]
    PROVE  IsFiniteSet({f[x] : x \in S})
<1> DEFINE T == {f[x] : x \in S}
<1>1. f \in [S -> T] OBVIOUS
<1>2. f \in Surjection(S, T) BY <1>1 DEF Surjection
<1> HIDE DEF T
<1>3. IsFiniteSet(T) BY <1>2, FS_Surjection
<1> QED BY <1>3 DEF T

LEMMA FinitePairLines ==
    ASSUME NEW d, NEW pairs, IsFiniteSet(pairs)
    PROVE  IsFiniteSet(ExportPairs(d, pairs)) /\ IsFiniteSet(line_int(d, pairs))
<1>1. ASSUME NEW S \in SUBSET pairs PROVE IsFiniteSet({<<p[2], d[p[1]]>> : p \in S})
  <2> DEFINE f == [p \in S |-> <<p[2], d[p[1]]>>]
  <2>1. IsFiniteSet(S) BY FS_Subset
  <2>2. f = [p \in S |-> f[p]] /\ {f[p] : p \in S} = {<<p[2], d[p[1]]>> : p \in S} OBVIOUS
  <2> HIDE DEF f
  <2> QED BY <2>1, <2>2, FiniteImage
<1> DEFINE S == {q \in pairs : Has(d, q[1])}
           T == {q \in pairs : Has(d, q[1]) /\ d[q[1]] \in Ints}
<1>2. S \in SUBSET pairs /\ T \in SUBSET pairs OBVIOUS
<1>3. /\ ExportPairs(d, pairs) = {<<p[2], d[p[1]]>> : p \in S}
      /\ line_int(d, pairs) = {<<p[2], d[p[1]]>> : p \in T}
  BY DEF ExportPairs, line_int
<1> HIDE DEF S, T
<1> QED BY <1>1, <1>2, <1>3

LEMMA FiniteTables ==
    /\ IsFiniteSet(ExportedFlags) /\ IsFiniteSet(pairs_str)
    /\ IsFiniteSet(BuildStrings) /\ IsFiniteSet(BuildNumbers)
    /\ IsFiniteSet(TlsPairs) /\ IsFiniteSet(BuildTail)
<1>1. IsFiniteSet(ExportedFlags) BY FiniteFew DEF ExportedFlags
<1>2. IsFiniteSet(BuildStrings)
  <2> DEFINE A == {<<"cipher", "cipher">>, <<"data-ciphers", "data-ciphers">>,
                   <<"data-ciphers-fallback", "data-ciphers-fallback">>,
                   <<"tls-cipher", "tls-cipher">>, <<"auth", "auth">>}
             x == <<"allow-compression", "allow-compression">>
             y == <<"mtu-disc", "mtu-disc">>
  <2>1. IsFiniteSet(A) BY FiniteFew
  <2>2. BuildStrings = A \cup {x} \cup {y} BY DEF BuildStrings
  <2> HIDE DEF A, x, y
  <2> QED BY <2>1, <2>2, FS_AddElement
<1>3. IsFiniteSet(BuildNumbers)
  <2> DEFINE A == {<<"reneg-seconds", "reneg-sec">>, <<"max-routes", "max-routes">>,
                   <<"keysize", "keysize">>, <<"tunnel-mtu", "tun-mtu">>,
                   <<"connect-timeout", "connect-timeout">>}
             B == {<<"fragment-size", "fragment">>, <<"port", "port">>, <<"ping", "ping">>,
                   <<"ping-exit", "ping-exit">>, <<"ping-restart", "ping-restart">>}
  <2>1. IsFiniteSet(A) /\ IsFiniteSet(B) BY FiniteFew
  <2>2. BuildNumbers = A \cup B BY DEF BuildNumbers
  <2> HIDE DEF A, B
  <2> QED BY <2>1, <2>2, FiniteJoin
<1>4. pairs_str = BuildStrings \cup BuildNumbers
  BY DEF pairs_str, BuildStrings, BuildNumbers
<1>5. IsFiniteSet(pairs_str) BY <1>2, <1>3, <1>4, FiniteJoin
<1>6. IsFiniteSet(TlsPairs)
  <2> DEFINE A == {<<"tls-crypt", "tls-crypt">>, <<"tls-crypt-v2", "tls-crypt-v2">>,
                   <<"remote-cert-tls", "remote-cert-tls">>, <<"ns-cert-type", "ns-cert-type">>,
                   <<"tls-remote", "tls-remote">>}
             x == <<"tls-version-max", "tls-version-max">>
             y == <<"extra-certs", "extra-certs">>
  <2>1. IsFiniteSet(A) BY FiniteFew
  <2>2. TlsPairs = A \cup {x} \cup {y} BY DEF TlsPairs
  <2> HIDE DEF A, x, y
  <2> QED BY <2>1, <2>2, FS_AddElement
<1>7. IsFiniteSet(BuildTail)
  <2> DEFINE A == {<<"nobind">>, <<"auth-nocache">>, <<"script-security", "2">>,
                   <<"persist-key">>, <<"persist-tun">>}
             x == <<"user", "nm-openvpn3">>
             y == <<"group", "nm-openvpn3">>
  <2>1. IsFiniteSet(A) BY FiniteFew
  <2>2. BuildTail = A \cup {x} \cup {y} BY DEF BuildTail
  <2> HIDE DEF A, x, y
  <2> QED BY <2>1, <2>2, FS_AddElement
<1> QED BY <1>1, <1>2, <1>3, <1>5, <1>6, <1>7

LEMMA FiniteFlags == ASSUME NEW d PROVE IsFiniteSet({<<f>> : f \in {g \in ExportedFlags : Yes(d, g)}})
<1> DEFINE S == {g \in ExportedFlags : Yes(d, g)}
           f == [g \in S |-> <<g>>]
<1>1. IsFiniteSet(S) BY FiniteTables, FS_Subset
<1>2. f = [g \in S |-> f[g]] /\ {f[g] : g \in S} = {<<g>> : g \in S} OBVIOUS
<1> HIDE DEF f, S
<1>3. IsFiniteSet({<<g>> : g \in S}) BY <1>1, <1>2, FiniteImage
<1> QED BY <1>3 DEF S

LEMMA FiniteExport == ASSUME NEW d PROVE IsFiniteSet(from_nm_data(d).lines)
<1> DEFINE L == from_nm_data(d).lines
           F == {<<f>> : f \in {g \in ExportedFlags : Yes(d, g)}}
           secret == IF Has(d, "static-key-direction")
                     THEN <<"secret", d["static-key"], d["static-key-direction"]>>
                     ELSE <<"secret", d["static-key"]>>
           ta == IF Has(d, "ta-dir") THEN <<"tls-auth", d["ta"], d["ta-dir"]>>
                 ELSE <<"tls-auth", d["ta"]>>
           min == IF Yes(d, "tls-version-min-or-highest")
                  THEN <<"tls-version-min", d["tls-version-min"], "or-highest">>
                  ELSE <<"tls-version-min", d["tls-version-min"]>>
           lzo == <<"comp-lzo", IF d["comp-lzo"] = "no-by-default" THEN "no" ELSE d["comp-lzo"]>>
           http == <<"http-proxy", d["proxy-server"],
                     IF Has(d, "proxy-port") THEN d["proxy-port"] ELSE "8080">>
           socks == <<"socks-proxy", d["proxy-server"],
                      IF Has(d, "proxy-port") THEN d["proxy-port"] ELSE "1080">>
           proto == <<"proto", IF Yes(d, "proto-tcp") THEN "tcp" ELSE "udp">>
           A == {<<"client">>, <<"pkcs12", d["cert"]>>, <<"ca", d["ca"]>>,
                 <<"cert", d["cert"]>>, <<"key", d["key"]>>}
           B == {<<"auth-user-pass">>, secret, lzo, <<"compress">>, <<"compress", d["compress"]>>}
           C == {<<"float">>, <<"mssfix">>, <<"mssfix", d["mssfix"]>>,
                 <<"ifconfig", d["local-ip"], d["remote-ip"]>>, BuildX509(d["verify-x509-name"])}
           D == {ta, min, <<"crl-verify", d["crl-verify-file"]>>,
                 <<"crl-verify", d["crl-verify-dir"], "dir">>, <<"dev", Device(d)>>}
           E == {proto, <<"dev-type", d["dev-type"]>>, http, <<"http-proxy-retry">>, socks}
           G == {<<"socks-proxy-retry">>}
           P == ExportPairs(d, pairs_str)
           Q == ExportPairs(d, TlsPairs)
<1>1. /\ IsFiniteSet(A) /\ IsFiniteSet(B) /\ IsFiniteSet(C) /\ IsFiniteSet(D)
      /\ IsFiniteSet(E) /\ IsFiniteSet(G)
  BY FiniteFew, FS_Singleton
<1>2. IsFiniteSet(F) /\ IsFiniteSet(P) /\ IsFiniteSet(Q) /\ IsFiniteSet(BuildTail)
  BY FiniteFlags, FinitePairLines, FiniteTables
<1>3. ASSUME NEW l \in L
      PROVE  l \in A \cup B \cup C \cup D \cup E \cup G \cup F \cup P \cup Q \cup BuildTail
  <2>1. ExportedLine(d, l) BY ExportLines
  <2>2. CredentialLine(d, l) => l \in A \cup B \cup F BY DEF CredentialLine
  <2>3. PairLine(d, l, pairs_str) => l \in P BY PairLines
  <2>4. TunnelLine(d, l) => l \in B \cup C BY DEF TunnelLine
  <2>5. TlsLine(d, l) => l \in C \cup D \cup Q BY PairLines DEF TlsLine
  <2>6. TailLine(d, l) => l \in D \cup E \cup G \cup BuildTail BY DEF TailLine
  <2> HIDE DEF A, B, C, D, E, F, G, P, Q
  <2> QED BY <2>1, <2>2, <2>3, <2>4, <2>5, <2>6 DEF ExportedLine
<1> HIDE DEF A, B, C, D, E, F, G, P, Q, L
<1>4. IsFiniteSet(A \cup B \cup C \cup D \cup E \cup G) BY <1>1, FiniteJoin
<1>5. IsFiniteSet(A \cup B \cup C \cup D \cup E \cup G \cup F \cup P \cup Q \cup BuildTail)
  BY <1>2, <1>4, FiniteJoin
<1>6. IsFiniteSet(L) BY <1>3, <1>5, FS_Subset
<1> QED BY <1>6 DEF L

(* The servers of an exported profile.                                     *)
RemoteLine(host, port, proto) ==
    IF proto # "" THEN <<"remote", host, IF port = "" THEN "1194" ELSE port, proto>>
    ELSE IF port # "" THEN <<"remote", host, port>> ELSE <<"remote", host>>

LEMMA Joined4 == ASSUME NEW a, NEW b, NEW c, NEW d PROVE <<a, b, c>> \o <<d>> = <<a, b, c, d>>
<1> DEFINE S == {a, b, c, d}
           w == <<a, b, c>> \o <<d>>
<1>1. <<a, b, c>> \in Seq(S) /\ <<d>> \in Seq(S) /\ <<a, b, c, d>> \in Seq(S) OBVIOUS
<1>2. Len(w) = 4 /\ w[1] = a /\ w[2] = b /\ w[3] = c /\ w[4] = d /\ w \in Seq(S) BY <1>1
<1> HIDE DEF S, w
<1>3. w = <<a, b, c, d>> BY <1>1, <1>2, SeqEqual
<1> QED BY <1>3 DEF w

LEMMA JoinedNothing3 == ASSUME NEW a, NEW b, NEW c PROVE <<a, b, c>> \o <<>> = <<a, b, c>>
OBVIOUS

LEMMA BuildRemoteIs ==
    ASSUME NEW e
    PROVE  BuildRemote(e) = RemoteLine(e.host, parse_remote(e).port, parse_remote(e).proto)
<1> DEFINE port == parse_remote(e).port
           proto == parse_remote(e).proto
           p == IF port = "" /\ proto # "" THEN "1194" ELSE port
<1>1. parse_remote(e).host = e.host BY DEF parse_remote
<1>2. BuildRemote(e) = <<"remote", e.host>> \o (IF p = "" THEN <<>> ELSE <<p>>)
                         \o (IF proto = "" THEN <<>> ELSE <<proto>>)
  BY <1>1, Zenon DEF BuildRemote
<1> HIDE DEF port, proto
<1>3. CASE proto # ""
  <2>1. p # "" /\ p = IF port = "" THEN "1194" ELSE port BY <1>3
  <2> HIDE DEF p
  <2>2. BuildRemote(e) = <<"remote", e.host>> \o <<p>> \o <<proto>> BY <1>2, <1>3, <2>1
  <2>3. BuildRemote(e) = <<"remote", e.host, p, proto>>
    <3>1. <<"remote", e.host>> \o <<p>> = <<"remote", e.host, p>> BY Joined3
    <3> QED BY <2>2, <3>1, Joined4, Zenon
  <2>4. RemoteLine(e.host, port, proto) = <<"remote", e.host, p, proto>>
    BY <1>3, <2>1 DEF RemoteLine
  <2> QED BY <2>3, <2>4 DEF port, proto
<1>4. CASE proto = "" /\ port # ""
  <2>1. p = port BY <1>4
  <2> HIDE DEF p
  <2>2. BuildRemote(e) = <<"remote", e.host>> \o <<port>> \o <<>> BY <1>2, <1>4, <2>1
  <2> QED BY <1>4, <2>2, Joined3, JoinedNothing3 DEF RemoteLine, port, proto
<1>5. CASE proto = "" /\ port = ""
  <2>1. p = "" BY <1>5
  <2> HIDE DEF p
  <2>2. BuildRemote(e) = <<"remote", e.host>> \o <<>> \o <<>> BY <1>2, <1>5, <2>1
  <2> QED BY <1>5, <2>2, JoinedNothing DEF RemoteLine, port, proto
<1> QED BY <1>3, <1>4, <1>5

LEMMA TupleSeq ==
    ASSUME NEW S, NEW a \in S, NEW b \in S, NEW c \in S, NEW d \in S
    PROVE  <<a, b>> \in Seq(S) /\ <<a, b, c>> \in Seq(S) /\ <<a, b, c, d>> \in Seq(S)
OBVIOUS

LEMMA TailIs ==
    ASSUME NEW S, NEW l \in Seq(S), Len(l) >= 2
    PROVE  /\ DOMAIN SubSeq(l, 3, Len(l)) = 1..(Len(l) - 2)
           /\ Len(l) >= 3 => SubSeq(l, 3, Len(l))[1] = l[3]
           /\ Len(l) >= 4 => SubSeq(l, 3, Len(l))[2] = l[4]
<1> DEFINE n == Len(l)
           u == SubSeq(l, 3, n)
<1>1. n \in Nat /\ n >= 2 BY LenProperties
<1>2. \A i \in 3..n : l[i] \in S
  <2>1. \A i \in 3..n : i \in 1..n BY <1>1
  <2> QED BY <2>1, ElementOfSeq
<1>3. /\ u \in Seq(S) /\ Len(u) = (IF 3 <= n THEN n - 3 + 1 ELSE 0)
      /\ \A i \in 1..(n - 3 + 1) : u[i] = l[3 + i - 1]
  BY <1>1, <1>2, SubSeqProperties
<1> HIDE DEF u, n
<1>4. Len(u) = n - 2 BY <1>1, <1>3
<1>5. DOMAIN u = 1..(n - 2) BY <1>3, <1>4, LenProperties
<1>6. n >= 3 => u[1] = l[3]
  <2> SUFFICES ASSUME n >= 3 PROVE u[1] = l[3] OBVIOUS
  <2>1. 1 \in 1..(n - 3 + 1) /\ 3 + 1 - 1 = 3 BY <1>1
  <2> QED BY <1>3, <2>1
<1>7. n >= 4 => u[2] = l[4]
  <2> SUFFICES ASSUME n >= 4 PROVE u[2] = l[4] OBVIOUS
  <2>1. 2 \in 1..(n - 3 + 1) /\ 3 + 2 - 1 = 4 BY <1>1
  <2> QED BY <1>3, <2>1
<1> QED BY <1>5, <1>6, <1>7 DEF u, n

(* Reading a server's line and writing it again changes nothing.           *)
LEMMA RemoteAgain ==
    ASSUME NEW host, NEW port, NEW proto
    PROVE  BuildRemote(RemoteEntry(RemoteLine(host, port, proto))) = RemoteLine(host, port, proto)
<1> DEFINE l == RemoteLine(host, port, proto)
           e == RemoteEntry(l)
           q == parse_remote(e)
<1>1. /\ e.host = Arg0(l) /\ e.tail = SubSeq(l, 3, Len(l)) BY DEF RemoteEntry
<1>2. /\ q.port = IF 1 \in DOMAIN e.tail THEN e.tail[1] ELSE ""
      /\ q.proto = IF 2 \in DOMAIN e.tail THEN e.tail[2] ELSE ""
  BY DEF parse_remote
<1>3. BuildRemote(e) = RemoteLine(e.host, q.port, q.proto) BY BuildRemoteIs
<1> HIDE DEF e, q
<1>4. CASE proto # ""
  <2> DEFINE p == IF port = "" THEN "1194" ELSE port
  <2>1. l = <<"remote", host, p, proto>> /\ p # "" BY <1>4 DEF RemoteLine
  <2> HIDE DEF p, l
  <2>2. Len(l) = 4 /\ l[2] = host /\ l[3] = p /\ l[4] = proto BY <2>1
  <2>3. l \in Seq({"remote", host, p, proto})
    <3> DEFINE S == {"remote", host, p, proto}
    <3>1. "remote" \in S /\ host \in S /\ p \in S /\ proto \in S OBVIOUS
    <3> HIDE DEF S
    <3>2. <<"remote", host, p, proto>> \in Seq(S) BY <3>1, TupleSeq
    <3> QED BY <2>1, <3>2 DEF S
  <2>4. e.host = host /\ DOMAIN e.tail = 1..2 /\ e.tail[1] = p /\ e.tail[2] = proto
    BY <1>1, <2>2, <2>3, TailIs DEF Arg0
  <2>5. 1 \in 1..2 /\ 2 \in 1..2 OBVIOUS
  <2>6. q.port = p BY <1>2, <2>4, <2>5
  <2>7. q.proto = proto BY <1>2, <2>4, <2>5
  <2>8. BuildRemote(e) = <<"remote", host, p, proto>>
    BY <1>3, <1>4, <2>1, <2>4, <2>6, <2>7 DEF RemoteLine
  <2> QED BY <2>1, <2>8 DEF e, l
<1>5. CASE proto = "" /\ port # ""
  <2>1. l = <<"remote", host, port>> BY <1>5 DEF RemoteLine
  <2> HIDE DEF l
  <2>2. Len(l) = 3 /\ l[2] = host /\ l[3] = port BY <2>1
  <2>3. l \in Seq({"remote", host, port}) BY <2>1
  <2>4. e.host = host /\ DOMAIN e.tail = 1..1 /\ e.tail[1] = port
    BY <1>1, <2>2, <2>3, TailIs DEF Arg0
  <2>5. 1 \in 1..1 /\ 2 \notin 1..1 OBVIOUS
  <2>6. q.port = port /\ q.proto = "" BY <1>2, <2>4, <2>5
  <2>7. BuildRemote(e) = <<"remote", host, port>> BY <1>3, <1>5, <2>4, <2>6 DEF RemoteLine
  <2> QED BY <2>1, <2>7 DEF e, l
<1>6. CASE proto = "" /\ port = ""
  <2>1. l = <<"remote", host>> BY <1>6 DEF RemoteLine
  <2> HIDE DEF l
  <2>2. Len(l) = 2 /\ l[2] = host BY <2>1
  <2>3. l \in Seq({"remote", host}) BY <2>1
  <2>4. e.host = host /\ DOMAIN e.tail = 1..0 BY <1>1, <2>2, <2>3, TailIs DEF Arg0
  <2>5. 1 \notin 1..0 /\ 2 \notin 1..0 OBVIOUS
  <2>6. q.port = "" /\ q.proto = "" BY <1>2, <2>4, <2>5
  <2>7. BuildRemote(e) = <<"remote", host>> BY <1>3, <2>4, <2>6 DEF RemoteLine
  <2> QED BY <2>1, <2>7 DEF e, l
<1> QED BY <1>4, <1>5, <1>6

LEMMA RemoteLineType ==
    ASSUME NEW e \in Entries PROVE BuildRemote(e) \in RemoteLines
<1> DEFINE port == parse_remote(e).port
           proto == parse_remote(e).proto
           l == BuildRemote(e)
           p == IF port = "" THEN "1194" ELSE port
<1>1. e.host \in Strings /\ e.tail \in Seq(Strings) BY DEF Entries
<1>2. "" \in Strings /\ "remote" \in Strings /\ "1194" \in Strings
  BY StringAssumption, ImportAssumption
<1>3. \A i \in DOMAIN e.tail : e.tail[i] \in Strings BY <1>1, ElementOfSeq, LenProperties
<1>4. port \in Strings /\ proto \in Strings BY <1>2, <1>3 DEF parse_remote
<1>5. p \in Strings BY <1>2, <1>4
<1>6. l = IF proto # "" THEN <<"remote", e.host, p, proto>>
          ELSE IF port # "" THEN <<"remote", e.host, port>> ELSE <<"remote", e.host>>
  BY BuildRemoteIs DEF RemoteLine
<1> HIDE DEF port, proto, p, l
<1>7. l \in Seq(Strings) /\ l # <<>> /\ l[1] = "remote"
  <2>1. CASE proto # ""
    <3>1. l = <<"remote", e.host, p, proto>> BY <1>6, <2>1
    <3>2. l[1] = "remote" /\ l # <<>> BY <3>1
    <3>3. l \in Seq(Strings) BY <1>1, <1>2, <1>4, <1>5, <3>1, TupleSeq
    <3> QED BY <3>2, <3>3
  <2>2. CASE proto = "" /\ port # ""
    <3>1. l = <<"remote", e.host, port>> BY <1>6, <2>2
    <3>2. l[1] = "remote" /\ l # <<>> BY <3>1
    <3>3. l \in Seq(Strings) BY <1>1, <1>2, <1>4, <3>1, TupleSeq
    <3> QED BY <3>2, <3>3
  <2>3. CASE proto = "" /\ port = ""
    <3>1. l = <<"remote", e.host>> BY <1>6, <2>3
    <3>2. l[1] = "remote" /\ l # <<>> BY <3>1
    <3>3. l \in Seq(Strings) BY <1>1, <1>2, <3>1, TupleSeq
    <3> QED BY <3>2, <3>3
  <2> QED BY <2>1, <2>2, <2>3
<1>8. l \in RemoteLines BY <1>7 DEF RemoteLines, Directives, IsBlob
<1> QED BY <1>8 DEF l

LEMMA ExportRemotesType ==
    ASSUME NEW d, Sound(d)
    PROVE  /\ ExportRemotes(d) \in Seq(RemoteLines)
           /\ Has(d, "remote") =>
                ExportRemotes(d) = [i \in DOMAIN Remotes[d["remote"]] |->
                                      BuildRemote(Remotes[d["remote"]][i])]
<1>1. CASE ~Has(d, "remote") BY <1>1 DEF ExportRemotes
<1>2. CASE Has(d, "remote")
  <2> DEFINE r == Remotes[d["remote"]]
  <2>1. r \in Seq(Entries) BY <1>2, TableAssumption DEF Sound, Entries
  <2>2. ExportRemotes(d) = [i \in DOMAIN r |-> BuildRemote(r[i])]
    BY <1>2, SameRemotes DEF BuildRemotes
  <2> HIDE DEF r
  <2>3. \A i \in DOMAIN r : r[i] \in Entries BY <2>1, ElementOfSeq, LenProperties
  <2>4. \A i \in DOMAIN r : BuildRemote(r[i]) \in RemoteLines BY <2>3, RemoteLineType
  <2>5. DOMAIN r = 1..Len(r) /\ Len(r) \in Nat BY <2>1, LenProperties
  <2>6. [i \in DOMAIN r |-> BuildRemote(r[i])] \in Seq(RemoteLines) BY <2>4, <2>5, IsASeq
  <2> QED BY <2>2, <2>6 DEF r
<1> QED BY <1>1, <1>2

LEMMA ExportRoutesListed ==
    ASSUME NEW d, Sound(d) PROVE Listed(ExportRoutes(d), RouteDirectives)
<1>1. CASE ~Has(d, "nm-openvpn3-extra-routes")
  <2>1. ExportRoutes(d) = <<>> BY <1>1 DEF ExportRoutes
  <2>2. <<>> \in Seq(RouteDirectives) OBVIOUS
  <2> QED BY <2>1, <2>2, SeqListed
<1>2. CASE Has(d, "nm-openvpn3-extra-routes")
  <2> DEFINE all == RouteLines[d["nm-openvpn3-extra-routes"]]
             S == {j \in DOMAIN all : ExportSafeRoute(all[j])}
             h == ExportRoutes(d)
  <2>1. all \in Seq([control : BOOLEAN, words : Seq(Strings), plain : BOOLEAN])
    BY <1>2, TableAssumption DEF Sound
  <2>2. h = [i \in S |-> all[i].words] BY <1>2 DEF ExportRoutes
  <2> HIDE DEF all, h
  <2>3. DOMAIN all = 1..Len(all) /\ Len(all) \in Nat BY <2>1, LenProperties
  <2>4. IsFiniteSet(S)
    <3>1. IsFiniteSet(1..Len(all)) BY <2>3, FS_Interval
    <3>2. S \in SUBSET (1..Len(all)) BY <2>3
    <3> HIDE DEF S
    <3> QED BY <3>1, <3>2, FS_Subset
  <2>5. S \in SUBSET Nat BY <2>3
  <2>6. ASSUME NEW i \in S PROVE all[i].words \in RouteDirectives
    <3>0. all[i] \in [control : BOOLEAN, words : Seq(Strings), plain : BOOLEAN]
      BY <2>1, <2>3, ElementOfSeq
    <3>1. all[i].words \in Seq(Strings) BY <3>0
    <3>2. all[i].words # <<>> /\ all[i].words[1] \in {"route", "route-ipv6", "route-gateway",
                                                       "route-metric", "route-delay"}
      BY DEF ExportSafeRoute
    <3> QED BY <3>1, <3>2 DEF RouteDirectives, Directives, IsBlob
  <2> HIDE DEF S
  <2>7. Listed(h, RouteDirectives) BY <2>2, <2>4, <2>5, <2>6 DEF Listed
  <2> QED BY <2>7 DEF h
<1> QED BY <1>1, <1>2

LEMMA ExportRegular ==
    ASSUME NEW d, Sound(d) PROVE Regular(from_nm_data(d))
<1>1. /\ from_nm_data(d).remotes = ExportRemotes(d)
      /\ from_nm_data(d).routes = ExportRoutes(d)
  BY DEF from_nm_data, Profile
<1>2. from_nm_data(d).lines \subseteq OtherLines BY ExportLines, ExportHarmless DEF Harmless
<1> QED BY <1>1, <1>2, ExportRemotesType, ExportRoutesListed, FiniteExport DEF Regular

-----------------------------------------------------------------------------
(* The dictionary of an imported file.                                     *)
DataKeys == ImportKeys \cup {"remote", "nm-openvpn3-extra-routes", "connection-type"}

(* A file whose lists can be spelt.                                        *)
Legible(t) ==
    /\ t \in Seq(Directives)
    /\ Read(t).remotes # <<>> => Spelled(Remotes, Read(t).remotes)
    /\ Read(t).routes # <<>> => Spelled(RouteLines, PlainLines(Read(t).routes))

(* n has the items of a, but for the keys of ks.                           *)
Agrees(n, a, ks) ==
    /\ \A x \in DOMAIN n : x \in ks \/ (x \in DOMAIN a /\ n[x] = a[x])
    /\ \A x \in DOMAIN a : x \in ks \/ x \in DOMAIN n

LEMMA ListedKeys ==
    /\ {"remote", "nm-openvpn3-extra-routes", "connection-type"} \cap ImportKeys = {}
    /\ "ta-dir" \in ImportKeys /\ "static-key-direction" \in ImportKeys
<1>1. {Copied[n] : n \in DOMAIN Copied} \cap
        {"remote", "nm-openvpn3-extra-routes", "connection-type"} = {}
  BY DEF Copied
<1>2. Flags \cap {"remote", "nm-openvpn3-extra-routes", "connection-type"} = {} BY DEF Flags
<1> HIDE DEF Copied, Flags
<1> QED BY <1>1, <1>2 DEF ImportKeys

LEMMA ResolvedIs ==
    ASSUME NEW acc \in Accs
    PROVE  /\ ResolveKeyDirection(acc) \in Dicts(ImportKeys)
           /\ Agrees(ResolveKeyDirection(acc), acc.data, {"ta-dir", "static-key-direction"})
           /\ acc.keydir = "" => ResolveKeyDirection(acc) = acc.data
<1> DEFINE k == IF "tls-auth" \in acc.have THEN "ta-dir" ELSE "static-key-direction"
           c == acc.keydir # "" /\ {"tls-auth", "secret"} \cap acc.have # {}
                  /\ ~Has(acc.data, k)
           r == ResolveKeyDirection(acc)
           w == With(acc.data, k, acc.keydir)
<1>1. acc.data \in Dicts(ImportKeys) /\ acc.keydir \in Strings BY DEF Accs
<1>2. k \in {"ta-dir", "static-key-direction"} /\ k \in ImportKeys BY ListedKeys
<1>3. r = IF c THEN w ELSE acc.data BY DEF ResolveKeyDirection
<1>4. w \in Dicts(ImportKeys) BY <1>1, <1>2, DictWith
<1>5. /\ DOMAIN w = IF acc.keydir = "" THEN DOMAIN acc.data \ {k} ELSE DOMAIN acc.data \cup {k}
      /\ \A x \in DOMAIN w : w[x] = IF x = k THEN acc.keydir ELSE acc.data[x]
  BY DEF With, WithAll, Without
<1>6. acc.keydir = "" => ~c OBVIOUS
<1> HIDE DEF r, w, c, k
<1>7. Agrees(w, acc.data, {"ta-dir", "static-key-direction"}) BY <1>2, <1>5 DEF Agrees
<1>8. Agrees(acc.data, acc.data, {"ta-dir", "static-key-direction"}) BY DEF Agrees
<1>9. /\ r \in Dicts(ImportKeys) /\ Agrees(r, acc.data, {"ta-dir", "static-key-direction"})
      /\ acc.keydir = "" => r = acc.data
  BY <1>1, <1>3, <1>4, <1>6, <1>7, <1>8
<1> QED BY <1>9 DEF r

LEMMA SpelledBy ==
    ASSUME NEW table, NEW parts, Spelled(table, parts)
    PROVE  Joined(table, parts) \in DOMAIN table /\ table[Joined(table, parts)] = parts
BY DEF Spelled, Joined

(* A value of a table that an item gets, if there are parts to spell.      *)
Listing1(n, a, key, parts, table, reads) ==
    /\ n = [x \in DOMAIN n |-> n[x]]
    /\ \A x \in DOMAIN n : x = key \/ (x \in DOMAIN a /\ n[x] = a[x])
    /\ \A x \in DOMAIN a : x \in DOMAIN n
    /\ key \in DOMAIN n <=> parts # <<>>
    /\ parts # <<>> => n[key] \in DOMAIN table /\ table[n[key]] = reads

LEMMA ListItem ==
    ASSUME NEW a, NEW key, NEW parts, NEW table, NEW reads, key \notin DOMAIN a,
           a = [x \in DOMAIN a |-> a[x]], "" \notin DOMAIN table,
           parts # <<>> => Spelled(table, reads)
    PROVE  Listing1(IF parts = <<>> THEN a ELSE With(a, key, Joined(table, reads)),
                    a, key, parts, table, reads)
<1> DEFINE v == Joined(table, reads)
           w == With(a, key, v)
           n == IF parts = <<>> THEN a ELSE w
<1>1. CASE parts = <<>>
  <2>1. n = a BY <1>1
  <2> HIDE DEF n
  <2>2. Listing1(n, a, key, parts, table, reads) BY <1>1, <2>1 DEF Listing1
  <2> QED BY <2>2 DEF n
<1>2. CASE parts # <<>>
  <2>1. n = w BY <1>2
  <2>2. v \in DOMAIN table /\ table[v] = reads BY <1>2, SpelledBy
  <2>3. v # "" BY <2>2
  <2> HIDE DEF v
  <2>4. /\ w = [x \in DOMAIN w |-> w[x]]
        /\ DOMAIN w = DOMAIN a \cup {key}
        /\ \A x \in DOMAIN w : w[x] = IF x = key THEN v ELSE a[x]
    BY <2>3 DEF With, WithAll
  <2> HIDE DEF w, n
  <2>5. Listing1(n, a, key, parts, table, reads) BY <1>2, <2>1, <2>2, <2>4 DEF Listing1
  <2> QED BY <2>5 DEF n, w, v
<1> QED BY <1>1, <1>2

(* What as_nm_data makes of a file.                                        *)
ImportsAs(n, t) ==
    /\ n \in Dicts(DataKeys)
    /\ Agrees(n, Read(t).data,
              {"ta-dir", "static-key-direction", "remote", "nm-openvpn3-extra-routes",
               "connection-type"})
    /\ Read(t).keydir = ""
         => Agrees(n, Read(t).data, {"remote", "nm-openvpn3-extra-routes", "connection-type"})
    /\ Is(n, "connection-type", InferContype(Read(t).have))
    /\ Has(n, "remote") <=> Read(t).remotes # <<>>
    /\ Has(n, "remote") => /\ n["remote"] \in DOMAIN Remotes
                           /\ Remotes[n["remote"]] = Read(t).remotes
    /\ Has(n, "nm-openvpn3-extra-routes") <=> Read(t).routes # <<>>
    /\ Has(n, "nm-openvpn3-extra-routes") =>
         /\ n["nm-openvpn3-extra-routes"] \in DOMAIN RouteLines
         /\ RouteLines[n["nm-openvpn3-extra-routes"]] = PlainLines(Read(t).routes)

LEMMA ImportIs == ASSUME NEW t, Legible(t) PROVE ImportsAs(as_nm_data(t), t)
<1> DEFINE acc == Read(t)
           d0 == ResolveKeyDirection(acc)
           d1 == IF acc.remotes = <<>> THEN d0
                 ELSE With(d0, "remote", Joined(Remotes, acc.remotes))
           plain == PlainLines(acc.routes)
           d2 == IF acc.routes = <<>> THEN d1
                 ELSE With(d1, "nm-openvpn3-extra-routes", Joined(RouteLines, plain))
           type == InferContype(acc.have)
           n == With(d2, "connection-type", type)
           T == {"ta-dir", "static-key-direction"}
           U == {"remote", "nm-openvpn3-extra-routes", "connection-type"}
<1>1. as_nm_data(t) = n BY DEF as_nm_data, Read
<1>2. acc \in Accs BY ReadSteps DEF Legible
<1>3. /\ d0 \in Dicts(ImportKeys) /\ Agrees(d0, acc.data, T)
      /\ acc.keydir = "" => d0 = acc.data
  BY <1>2, ResolvedIs
<1> HIDE DEF acc, d0, plain
<1>4. /\ d0 = [x \in DOMAIN d0 |-> d0[x]] /\ DOMAIN d0 \subseteq ImportKeys
      /\ \A x \in DOMAIN d0 : d0[x] \in Strings /\ d0[x] # ""
  BY <1>3, DictIs
<1>5. DOMAIN d0 \cap U = {} BY <1>4, ListedKeys
<1>6. "" \notin DOMAIN Remotes /\ "" \notin DOMAIN RouteLines BY TableAssumption
<1>7. Listing1(d1, d0, "remote", acc.remotes, Remotes, acc.remotes)
  <2>1. acc.remotes # <<>> => Spelled(Remotes, acc.remotes) BY DEF Legible, acc
  <2> QED BY <1>4, <1>5, <1>6, <2>1, ListItem
<1> HIDE DEF d1
<1>8. "nm-openvpn3-extra-routes" \notin DOMAIN d1 BY <1>5, <1>7 DEF Listing1
<1>9. Listing1(d2, d1, "nm-openvpn3-extra-routes", acc.routes, RouteLines, plain)
  <2>1. acc.routes # <<>> => Spelled(RouteLines, plain) BY DEF Legible, acc, plain
  <2>2. d1 = [x \in DOMAIN d1 |-> d1[x]] BY <1>7 DEF Listing1
  <2> QED BY <1>6, <1>8, <2>1, <2>2, ListItem
<1> HIDE DEF d2
<1>10. type \in Strings /\ type # ""
  <2>1. {"password", "password-tls", "static-key"} \subseteq Strings BY ImportAssumption
  <2>2. "tls" \in Strings BY StringAssumption
  <2>3. type \in {"tls", "password", "password-tls", "static-key"} BY DEF InferContype
  <2> QED BY <2>1, <2>2, <2>3
<1> HIDE DEF type
<1>11. /\ n = [x \in DOMAIN n |-> n[x]]
       /\ DOMAIN n = DOMAIN d2 \cup {"connection-type"}
       /\ \A x \in DOMAIN n : n[x] = IF x = "connection-type" THEN type ELSE d2[x]
  BY <1>10 DEF With, WithAll
<1> HIDE DEF n
<1>12. /\ Has(n, "remote") <=> acc.remotes # <<>>
       /\ Has(n, "remote") => n["remote"] \in DOMAIN Remotes /\ Remotes[n["remote"]] = acc.remotes
  <2>1. "remote" \in DOMAIN d1 <=> acc.remotes # <<>> BY <1>7 DEF Listing1
  <2>2. "remote" \in DOMAIN n <=> "remote" \in DOMAIN d1 BY <1>9, <1>11 DEF Listing1
  <2>3. "remote" \in DOMAIN n => n["remote"] = d1["remote"] BY <1>9, <1>11 DEF Listing1
  <2>4. acc.remotes # <<>> => d1["remote"] \in DOMAIN Remotes
                              /\ Remotes[d1["remote"]] = acc.remotes
    BY <1>7 DEF Listing1
  <2> QED BY <2>1, <2>2, <2>3, <2>4 DEF Has
<1>13. /\ Has(n, "nm-openvpn3-extra-routes") <=> acc.routes # <<>>
       /\ Has(n, "nm-openvpn3-extra-routes") =>
            /\ n["nm-openvpn3-extra-routes"] \in DOMAIN RouteLines
            /\ RouteLines[n["nm-openvpn3-extra-routes"]] = plain
  BY <1>9, <1>11 DEF Listing1, Has
<1>14. Is(n, "connection-type", type) BY <1>11 DEF Is
<1>15. \A x \in DOMAIN n : x \in U \/ (x \in DOMAIN d0 /\ n[x] = d0[x])
  BY <1>7, <1>9, <1>11 DEF Listing1
<1>16. \A x \in DOMAIN d0 : x \in DOMAIN n BY <1>7, <1>9, <1>11 DEF Listing1
<1>17. Agrees(n, d0, U) BY <1>15, <1>16 DEF Agrees
<1>18. Agrees(n, acc.data, T \cup U) BY <1>3, <1>17 DEF Agrees
<1>19. acc.keydir = "" => Agrees(n, acc.data, U) BY <1>3, <1>17
<1>20. n \in Dicts(DataKeys)
  <2>1. \A x \in DOMAIN n : x \in DataKeys BY <1>4, <1>15 DEF DataKeys
  <2>2. ASSUME NEW x \in DOMAIN n PROVE n[x] \in Strings /\ n[x] # ""
    <3>1. CASE x \in DOMAIN d0 /\ n[x] = d0[x] BY <1>4, <3>1
    <3>2. CASE x = "remote" BY <1>12, <3>2, TableAssumption DEF Has
    <3>3. CASE x = "nm-openvpn3-extra-routes" BY <1>13, <3>3, TableAssumption DEF Has
    <3>4. CASE x = "connection-type" BY <1>10, <1>11, <3>4
    <3> QED BY <1>15, <3>1, <3>2, <3>3, <3>4
  <2> QED BY <1>11, <2>1, <2>2, DictIs
<1>21. T \cup U = {"ta-dir", "static-key-direction", "remote", "nm-openvpn3-extra-routes",
                   "connection-type"}
  OBVIOUS
<1>22. ImportsAs(n, t) 
  BY <1>12, <1>13, <1>14, <1>18, <1>19, <1>20, <1>21 DEF ImportsAs, acc, type, plain
<1> QED BY <1>1, <1>22 DEF n

LEMMA GivesX509 ==
    ASSUME NEW l, NEW v, Gives(l, "verify-x509-name", v)
    PROVE  /\ l[1] = "verify-x509-name"
           /\ v = CHOOSE y \in DOMAIN X509Names : X509Names[y] = <<Arg1(l), Arg0(l)>>
<1>1. ~GivesPlain(l, "verify-x509-name", v) BY DEF GivesPlain, Copied, Flags
<1>2. ~GivesProxy(l, "verify-x509-name", v) BY DEF GivesProxy
<1>3. ~GivesCredential(l, "verify-x509-name", v) BY DEF GivesCredential
<1>4. GivesTunnel(l, "verify-x509-name", v) BY <1>1, <1>2, <1>3 DEF Gives
<1> QED BY <1>4 DEF GivesTunnel

(* What is imported is again a dictionary that the tables can read.        *)
LEMMA ImportSound == ASSUME NEW t, Legible(t) PROVE Sound(as_nm_data(t))
<1> DEFINE n == as_nm_data(t)
<1>1. ImportsAs(n, t) BY ImportIs
<1>2. t \in Seq(Directives) BY DEF Legible
<1> HIDE DEF n
<1>3. \A k \in DOMAIN n : n[k] \in Strings /\ n[k] # "" BY <1>1, DictIs DEF ImportsAs
<1>4. /\ Has(n, "remote") => n["remote"] \in DOMAIN Remotes
      /\ Has(n, "nm-openvpn3-extra-routes")
           => n["nm-openvpn3-extra-routes"] \in DOMAIN RouteLines
  BY <1>1 DEF ImportsAs
<1>5. ASSUME Has(n, "verify-x509-name")
      PROVE  n["verify-x509-name"] \in DOMAIN X509Names
  <2> DEFINE v == n["verify-x509-name"]
  <2>1. "verify-x509-name" \in DOMAIN Read(t).data /\ v = Read(t).data["verify-x509-name"]
    BY <1>1, <1>5 DEF ImportsAs, Agrees, Has
  <2>2. PICK l \in Lines(t) : Gives(l, "verify-x509-name", v)
    BY <1>2, <2>1, ReadGives DEF ReadsAs
  <2>3. l \in Directives BY <1>2, ElementOfSeq, LenProperties DEF Lines
  <2>4. /\ l[1] = "verify-x509-name"
        /\ v = CHOOSE y \in DOMAIN X509Names : X509Names[y] = <<Arg1(l), Arg0(l)>>
    BY <2>2, GivesX509
  <2>5. Spelled(X509Names, <<Arg1(l), Arg0(l)>>) BY <2>3, <2>4 DEF Directives
  <2>6. v = Joined(X509Names, <<Arg1(l), Arg0(l)>>) BY <2>4 DEF Joined
  <2>7. v \in DOMAIN X509Names BY <2>5, <2>6, SpelledBy
  <2> QED BY <2>7
<1>6. Sound(n) BY <1>3, <1>4, <1>5 DEF Sound
<1> QED BY <1>6 DEF n

(* An exported file can be imported: the lists it holds can be spelt.      *)
LEMMA ExportLegible ==
    ASSUME NEW d, Sound(d) PROVE Legible(emit(from_nm_data(d)))
<1> DEFINE p == from_nm_data(d)
           t == emit(p)
<1>1. Regular(p) BY ExportRegular
<1>2. p.remotes = ExportRemotes(d) /\ p.routes = ExportRoutes(d)
  BY DEF from_nm_data, Profile
<1> HIDE DEF p
<1>3. /\ t \in Seq(Directives)
      /\ Read(t).remotes = [i \in DOMAIN p.remotes |-> RemoteEntry(p.remotes[i])]
      /\ Read(t).routes = InOrder(Named(p.routes, "route"))
  BY <1>1, EmitReads
<1> HIDE DEF t
<1>4. Read(t).remotes # <<>> => Spelled(Remotes, Read(t).remotes)
  <2>1. CASE ~Has(d, "remote")
    <3>1. p.remotes = <<>> BY <1>2, <2>1 DEF ExportRemotes
    <3>2. Read(t).remotes = <<>> BY <1>3, <3>1
    <3> QED BY <3>2
  <2>2. CASE Has(d, "remote")
    <3> DEFINE r == Remotes[d["remote"]]
               q == [i \in DOMAIN r |-> RemoteEntry(BuildRemote(r[i]))]
    <3>1. d["remote"] \in DOMAIN Remotes BY <2>2 DEF Sound
    <3>2. p.remotes = [i \in DOMAIN r |-> BuildRemote(r[i])] BY <1>2, <2>2, ExportRemotesType
    <3>3. r # <<>> => Spelled(Remotes, q) BY <3>1, ImportAssumption
    <3>4. r \in Seq(Entries) BY <3>1, TableAssumption DEF Entries
    <3> HIDE DEF r
    <3>5. [i \in DOMAIN p.remotes |-> RemoteEntry(p.remotes[i])] = q BY <3>2
    <3>6. r = <<>> => q = <<>> OBVIOUS
    <3> HIDE DEF q
    <3> QED BY <1>3, <3>3, <3>5, <3>6
  <2> QED BY <2>1, <2>2
<1>5. Read(t).routes # <<>> => Spelled(RouteLines, PlainLines(Read(t).routes))
  <2>1. CASE ~Has(d, "nm-openvpn3-extra-routes")
    <3>1. p.routes = <<>> BY <1>2, <2>1 DEF ExportRoutes
    <3>2. Named(p.routes, "route") = <<>> BY <3>1 DEF Named
    <3>3. InOrder(<<>>) = <<>>
      <4>1. <<>> \in Seq(Directives) OBVIOUS
      <4> QED BY <4>1, InOrderSeq
    <3> QED BY <1>3, <3>2, <3>3
  <2>2. CASE Has(d, "nm-openvpn3-extra-routes")
    <3> DEFINE v == d["nm-openvpn3-extra-routes"]
               all == RouteLines[v]
               S == {j \in DOMAIN all : ExportSafeRoute(all[j]) /\ all[j].words[1] = "route"}
               kept == InOrder([i \in S |-> all[i].words])
    <3>1. v \in DOMAIN RouteLines BY <2>2 DEF Sound
    <3>2. kept # <<>> => Spelled(RouteLines, PlainLines(kept)) BY <3>1, ImportAssumption
    <3>3. p.routes = [i \in {j \in DOMAIN all : ExportSafeRoute(all[j])} |-> all[i].words]
      BY <1>2, <2>2 DEF ExportRoutes
    <3> HIDE DEF all
    <3>4. Named(p.routes, "route") = [i \in S |-> all[i].words] BY <3>3 DEF Named
    <3> QED BY <1>3, <3>2, <3>4
  <2> QED BY <2>1, <2>2
<1>6. Legible(t) BY <1>3, <1>4, <1>5 DEF Legible
<1> QED BY <1>6 DEF t, p

-----------------------------------------------------------------------------
(* What the lines of an exported profile give back when they are read.     *)
LEMMA LineArgs ==
    ASSUME NEW a, NEW b
    PROVE  /\ <<a>>[1] = a /\ Len(<<a>>) = 1 /\ Arg0(<<a>>) = "" /\ Arg1(<<a>>) = ""
           /\ <<a, b>>[1] = a /\ Len(<<a, b>>) = 2 /\ Arg0(<<a, b>>) = b /\ Arg1(<<a, b>>) = ""
BY DEF Arg0, Arg1

LEMMA LineArgs3 ==
    ASSUME NEW a, NEW b, NEW c
    PROVE  /\ <<a, b, c>>[1] = a /\ Len(<<a, b, c>>) = 3
           /\ Arg0(<<a, b, c>>) = b /\ Arg1(<<a, b, c>>) = c
BY DEF Arg0, Arg1

AllNames == DOMAIN Copied \cup Flags \cup Proxies \cup TunnelNames \cup CredentialNames

LEMMA GivesByName ==
    ASSUME NEW l, NEW x, NEW v
    PROVE  /\ l[1] \in DOMAIN Copied
                => (Gives(l, x, v) <=> v # "" /\ x = Copied[l[1]] /\ v = Arg0(l))
           /\ l[1] \in Flags => (Gives(l, x, v) <=> x = l[1] /\ v = "yes")
           /\ l[1] \in Proxies => (Gives(l, x, v) <=> v # "" /\ GivesProxy(l, x, v))
           /\ l[1] \in TunnelNames => (Gives(l, x, v) <=> v # "" /\ GivesTunnel(l, x, v))
           /\ l[1] \in CredentialNames
                => (Gives(l, x, v) <=> v # "" /\ GivesCredential(l, x, v))
           /\ l[1] \notin AllNames => ~Gives(l, x, v)
<1>1. GivesPlain(l, x, v) => l[1] \in DOMAIN Copied \cup Flags BY DEF GivesPlain
<1>2. GivesProxy(l, x, v) => l[1] \in Proxies BY DEF GivesProxy
<1>3. GivesTunnel(l, x, v) => l[1] \in TunnelNames BY DEF GivesTunnel, TunnelNames
<1>4. GivesCredential(l, x, v) => l[1] \in CredentialNames
  BY DEF GivesCredential, CredentialNames
<1>5. /\ DOMAIN Copied \cap Flags = {} /\ Proxies \cap Flags = {} /\ Proxies \cap DOMAIN Copied = {}
      /\ TunnelNames \cap Proxies = {} /\ CredentialNames \cap Proxies = {}
  BY DEF Copied, Flags, Proxies, TunnelNames, CredentialNames
<1>6. /\ TunnelNames \cap DOMAIN Copied = {} /\ TunnelNames \cap Flags = {}
      /\ CredentialNames \cap DOMAIN Copied = {} /\ CredentialNames \cap Flags = {}
  BY DEF Copied, Flags, TunnelNames, CredentialNames
<1>7. TunnelNames \cap CredentialNames = {} BY DEF TunnelNames, CredentialNames
<1>8. l[1] \in DOMAIN Copied => (GivesPlain(l, x, v) <=> x = Copied[l[1]] /\ v = Arg0(l))
  BY <1>5 DEF GivesPlain
<1>9. l[1] \in Flags => (GivesPlain(l, x, v) <=> x = l[1] /\ v = "yes")
  BY <1>5 DEF GivesPlain
<1>10. Gives(l, x, v) <=> v # "" /\ (\/ GivesPlain(l, x, v) \/ GivesProxy(l, x, v)
                                     \/ GivesTunnel(l, x, v) \/ GivesCredential(l, x, v))
  BY DEF Gives
<1>11. "yes" # "" OBVIOUS
<1> QED BY <1>1, <1>2, <1>3, <1>4, <1>5, <1>6, <1>7, <1>8, <1>9, <1>10, <1>11 DEF AllNames

LEMMA FlagGives ==
    ASSUME NEW f \in Flags, NEW x, NEW v PROVE Gives(<<f>>, x, v) <=> x = f /\ v = "yes"
<1> DEFINE l == <<f>>
<1>1. l[1] = f BY LineArgs
<1> HIDE DEF l
<1>2. Gives(l, x, v) <=> x = f /\ v = "yes" BY <1>1, GivesByName
<1> QED BY <1>2 DEF l

LEMMA CopyGives ==
    ASSUME NEW a \in DOMAIN Copied, NEW b, b # "", NEW x, NEW v
    PROVE  Gives(<<a, b>>, x, v) <=> x = Copied[a] /\ v = b
<1> DEFINE l == <<a, b>>
<1>1. l[1] = a /\ Arg0(l) = b BY LineArgs
<1> HIDE DEF l
<1>2. Gives(l, x, v) <=> x = Copied[a] /\ v = b BY <1>1, GivesByName
<1> QED BY <1>2 DEF l

LEMMA QuietGives ==
    ASSUME NEW a, a \notin AllNames, NEW b, NEW x, NEW v
    PROVE  ~Gives(<<a>>, x, v) /\ ~Gives(<<a, b>>, x, v)
<1>1. <<a>>[1] = a /\ <<a, b>>[1] = a BY LineArgs
<1> QED BY <1>1, GivesByName

LEMMA AuthGives ==
    ASSUME NEW x, NEW v
    PROVE  ~Gives(<<"auth-user-pass">>, x, v)
<1> DEFINE l == <<"auth-user-pass">>
<1>1. l[1] = "auth-user-pass" BY LineArgs
<1> HIDE DEF l
<1>2. Gives(l, x, v) <=> v # "" /\ GivesCredential(l, x, v)
  <2>1. l[1] \in CredentialNames BY <1>1 DEF CredentialNames
  <2> QED BY <2>1, GivesByName
<1>3. ~GivesCredential(l, x, v)
  BY <1>1 DEF GivesCredential
<1>4. ~Gives(l, x, v)
  BY <1>2, <1>3
<1> QED BY <1>4 DEF l

LEMMA CertGives ==
    ASSUME NEW k \in {"ca", "cert", "key"}, NEW b, b # "", NEW x, NEW v
    PROVE  Gives(<<k, b>>, x, v) <=> x = k /\ v = b
<1> DEFINE l == <<k, b>>
<1>1. l[1] = k /\ Arg0(l) = b BY LineArgs
<1> HIDE DEF l
<1>2. Gives(l, x, v) <=> v # "" /\ GivesCredential(l, x, v)
  <2>1. l[1] \in CredentialNames BY <1>1 DEF CredentialNames
  <2> QED BY <2>1, GivesByName
<1>3. v # "" /\ GivesCredential(l, x, v) <=> x = k /\ v = b
  BY <1>1 DEF GivesCredential
<1>4. Gives(l, x, v) <=> x = k /\ v = b
  BY <1>2, <1>3
<1> QED BY <1>4 DEF l

LEMMA BundleGives ==
    ASSUME NEW b, b # "", NEW x, NEW v
    PROVE  Gives(<<"pkcs12", b>>, x, v) <=> x \in {"ca", "cert", "key"} /\ v = b
<1> DEFINE l == <<"pkcs12", b>>
<1>1. l[1] = "pkcs12" /\ Arg0(l) = b BY LineArgs
<1> HIDE DEF l
<1>2. Gives(l, x, v) <=> v # "" /\ GivesCredential(l, x, v)
  <2>1. l[1] \in CredentialNames BY <1>1 DEF CredentialNames
  <2> QED BY <2>1, GivesByName
<1>3. v # "" /\ GivesCredential(l, x, v) <=> x \in {"ca", "cert", "key"} /\ v = b
  BY <1>1 DEF GivesCredential
<1>4. Gives(l, x, v) <=> x \in {"ca", "cert", "key"} /\ v = b
  BY <1>2, <1>3
<1> QED BY <1>4 DEF l

LEMMA SecretGives ==
    ASSUME NEW b, b # "", NEW x, NEW v
    PROVE  Gives(<<"secret", b>>, x, v) <=> x = "static-key" /\ v = b
<1> DEFINE l == <<"secret", b>>
<1>1. l[1] = "secret" /\ Arg0(l) = b /\ Arg1(l) = "" BY LineArgs
<1> HIDE DEF l
<1>2. Gives(l, x, v) <=> v # "" /\ GivesCredential(l, x, v)
  <2>1. l[1] \in CredentialNames BY <1>1 DEF CredentialNames
  <2> QED BY <2>1, GivesByName
<1>3. v # "" /\ GivesCredential(l, x, v) <=> x = "static-key" /\ v = b
  BY <1>1 DEF GivesCredential
<1>4. Gives(l, x, v) <=> x = "static-key" /\ v = b
  BY <1>2, <1>3
<1> QED BY <1>4 DEF l

LEMMA SecretDirGives ==
    ASSUME NEW b, b # "", NEW c, c # "", NEW x, NEW v
    PROVE  Gives(<<"secret", b, c>>, x, v)
             <=> (x = "static-key" /\ v = b) \/ (x = "static-key-direction" /\ v = c)
<1> DEFINE l == <<"secret", b, c>>
<1>1. l[1] = "secret" /\ Arg0(l) = b /\ Arg1(l) = c BY LineArgs3
<1> HIDE DEF l
<1>2. Gives(l, x, v) <=> v # "" /\ GivesCredential(l, x, v)
  <2>1. l[1] \in CredentialNames BY <1>1 DEF CredentialNames
  <2> QED BY <2>1, GivesByName
<1>3. v # "" /\ GivesCredential(l, x, v) <=> (x = "static-key" /\ v = b) \/ (x = "static-key-direction" /\ v = c)
  BY <1>1 DEF GivesCredential
<1>4. Gives(l, x, v) <=> (x = "static-key" /\ v = b) \/ (x = "static-key-direction" /\ v = c)
  BY <1>2, <1>3
<1> QED BY <1>4 DEF l

LEMMA TaGives ==
    ASSUME NEW b, b # "", NEW x, NEW v
    PROVE  Gives(<<"tls-auth", b>>, x, v) <=> x = "ta" /\ v = b
<1> DEFINE l == <<"tls-auth", b>>
<1>1. l[1] = "tls-auth" /\ Arg0(l) = b /\ Arg1(l) = "" BY LineArgs
<1> HIDE DEF l
<1>2. Gives(l, x, v) <=> v # "" /\ GivesCredential(l, x, v)
  <2>1. l[1] \in CredentialNames BY <1>1 DEF CredentialNames
  <2> QED BY <2>1, GivesByName
<1>3. v # "" /\ GivesCredential(l, x, v) <=> x = "ta" /\ v = b
  BY <1>1 DEF GivesCredential
<1>4. Gives(l, x, v) <=> x = "ta" /\ v = b
  BY <1>2, <1>3
<1> QED BY <1>4 DEF l

LEMMA TaDirGives ==
    ASSUME NEW b, b # "", NEW c, c # "", NEW x, NEW v
    PROVE  Gives(<<"tls-auth", b, c>>, x, v) <=> (x = "ta" /\ v = b) \/ (x = "ta-dir" /\ v = c)
<1> DEFINE l == <<"tls-auth", b, c>>
<1>1. l[1] = "tls-auth" /\ Arg0(l) = b /\ Arg1(l) = c BY LineArgs3
<1> HIDE DEF l
<1>2. Gives(l, x, v) <=> v # "" /\ GivesCredential(l, x, v)
  <2>1. l[1] \in CredentialNames BY <1>1 DEF CredentialNames
  <2> QED BY <2>1, GivesByName
<1>3. v # "" /\ GivesCredential(l, x, v) <=> (x = "ta" /\ v = b) \/ (x = "ta-dir" /\ v = c)
  BY <1>1 DEF GivesCredential
<1>4. Gives(l, x, v) <=> (x = "ta" /\ v = b) \/ (x = "ta-dir" /\ v = c)
  BY <1>2, <1>3
<1> QED BY <1>4 DEF l

LEMMA ThreeWords == ASSUME NEW n, n = 3 PROVE n >= 3 /\ ~(n >= 4)
OBVIOUS

LEMMA OptBareGives ==
    ASSUME NEW k \in {"mssfix", "compress"}, NEW x, NEW v
    PROVE  Gives(<<k>>, x, v) <=> x = k /\ v = "yes"
<1> DEFINE l == <<k>>
<1>1. l[1] = k /\ Arg0(l) = "" BY LineArgs
<1> HIDE DEF l
<1>2. Gives(l, x, v) <=> v # "" /\ GivesTunnel(l, x, v)
  <2>1. l[1] \in TunnelNames BY <1>1 DEF TunnelNames
  <2> QED BY <2>1, GivesByName
<1>3. v # "" /\ GivesTunnel(l, x, v) <=> x = k /\ v = "yes" BY <1>1 DEF GivesTunnel
<1>4. Gives(l, x, v) <=> x = k /\ v = "yes" BY <1>2, <1>3
<1> QED BY <1>4 DEF l

LEMMA OptGives ==
    ASSUME NEW k \in {"mssfix", "compress"}, NEW b, b # "", NEW x, NEW v
    PROVE  Gives(<<k, b>>, x, v) <=> x = k /\ v = b
<1> DEFINE l == <<k, b>>
<1>1. l[1] = k /\ Arg0(l) = b BY LineArgs
<1> HIDE DEF l
<1>2. Gives(l, x, v) <=> v # "" /\ GivesTunnel(l, x, v)
  <2>1. l[1] \in TunnelNames BY <1>1 DEF TunnelNames
  <2> QED BY <2>1, GivesByName
<1>3. v # "" /\ GivesTunnel(l, x, v) <=> x = k /\ v = b BY <1>1 DEF GivesTunnel
<1>4. Gives(l, x, v) <=> x = k /\ v = b BY <1>2, <1>3
<1> QED BY <1>4 DEF l

LEMMA LzoGives ==
    ASSUME NEW b, b # "", NEW x, NEW v
    PROVE  Gives(<<"comp-lzo", b>>, x, v)
             <=> x = "comp-lzo" /\ v = IF b = "no" THEN "no-by-default" ELSE b
<1> DEFINE l == <<"comp-lzo", b>>
<1>1. l[1] = "comp-lzo" /\ Arg0(l) = b BY LineArgs
<1> HIDE DEF l
<1>2. Gives(l, x, v) <=> v # "" /\ GivesTunnel(l, x, v)
  <2>1. l[1] \in TunnelNames BY <1>1 DEF TunnelNames
  <2> QED BY <2>1, GivesByName
<1>3. v # "" /\ GivesTunnel(l, x, v) <=> x = "comp-lzo" /\ v = IF b = "no" THEN "no-by-default" ELSE b
  BY <1>1 DEF GivesTunnel
<1>4. Gives(l, x, v) <=> x = "comp-lzo" /\ v = IF b = "no" THEN "no-by-default" ELSE b
  BY <1>2, <1>3
<1> QED BY <1>4 DEF l

LEMMA IfconfigGives ==
    ASSUME NEW b, b # "", NEW c, c # "", NEW x, NEW v
    PROVE  Gives(<<"ifconfig", b, c>>, x, v)
             <=> (x = "local-ip" /\ v = b) \/ (x = "remote-ip" /\ v = c)
<1> DEFINE l == <<"ifconfig", b, c>>
<1>1. l[1] = "ifconfig" /\ Arg0(l) = b /\ Arg1(l) = c /\ Len(l) = 3 BY LineArgs3
<1> HIDE DEF l
<1>2. Gives(l, x, v) <=> v # "" /\ GivesTunnel(l, x, v)
  <2>1. l[1] \in TunnelNames BY <1>1 DEF TunnelNames
  <2> QED BY <2>1, GivesByName
<1>3. v # "" /\ GivesTunnel(l, x, v) <=> (x = "local-ip" /\ v = b) \/ (x = "remote-ip" /\ v = c)
  <2>1. Len(l) >= 3 BY <1>1, ThreeWords, Zenon
  <2> QED BY <1>1, <2>1 DEF GivesTunnel
<1>4. Gives(l, x, v) <=> (x = "local-ip" /\ v = b) \/ (x = "remote-ip" /\ v = c)
  BY <1>2, <1>3
<1> QED BY <1>4 DEF l

LEMMA MinGives ==
    ASSUME NEW b, b # "", NEW x, NEW v
    PROVE  Gives(<<"tls-version-min", b>>, x, v) <=> x = "tls-version-min" /\ v = b
<1> DEFINE l == <<"tls-version-min", b>>
<1>1. l[1] = "tls-version-min" /\ Arg0(l) = b /\ Arg1(l) = "" BY LineArgs
<1> HIDE DEF l
<1>2. Gives(l, x, v) <=> v # "" /\ GivesTunnel(l, x, v)
  <2>1. l[1] \in TunnelNames BY <1>1 DEF TunnelNames
  <2> QED BY <2>1, GivesByName
<1>3. v # "" /\ GivesTunnel(l, x, v) <=> x = "tls-version-min" /\ v = b
  BY <1>1 DEF GivesTunnel
<1>4. Gives(l, x, v) <=> x = "tls-version-min" /\ v = b
  BY <1>2, <1>3
<1> QED BY <1>4 DEF l

LEMMA MinHighestGives ==
    ASSUME NEW b, b # "", NEW x, NEW v
    PROVE  Gives(<<"tls-version-min", b, "or-highest">>, x, v)
             <=> \/ (x = "tls-version-min" /\ v = b)
                 \/ (x = "tls-version-min-or-highest" /\ v = "yes")
<1> DEFINE l == <<"tls-version-min", b, "or-highest">>
<1>1. l[1] = "tls-version-min" /\ Arg0(l) = b /\ Arg1(l) = "or-highest" BY LineArgs3
<1> HIDE DEF l
<1>2. Gives(l, x, v) <=> v # "" /\ GivesTunnel(l, x, v)
  <2>1. l[1] \in TunnelNames BY <1>1 DEF TunnelNames
  <2> QED BY <2>1, GivesByName
<1>3. v # "" /\ GivesTunnel(l, x, v) <=> (x = "tls-version-min" /\ v = b)
          \/ (x = "tls-version-min-or-highest" /\ v = "yes")
  BY <1>1 DEF GivesTunnel
<1>4. Gives(l, x, v) <=> (x = "tls-version-min" /\ v = b)
          \/ (x = "tls-version-min-or-highest" /\ v = "yes")
  BY <1>2, <1>3
<1> QED BY <1>4 DEF l

LEMMA CrlFileGives ==
    ASSUME NEW b, b # "", NEW x, NEW v
    PROVE  Gives(<<"crl-verify", b>>, x, v) <=> x = "crl-verify-file" /\ v = b
<1> DEFINE l == <<"crl-verify", b>>
<1>1. l[1] = "crl-verify" /\ Arg0(l) = b /\ Arg1(l) = "" BY LineArgs
<1> HIDE DEF l
<1>2. Gives(l, x, v) <=> v # "" /\ GivesTunnel(l, x, v)
  <2>1. l[1] \in TunnelNames BY <1>1 DEF TunnelNames
  <2> QED BY <2>1, GivesByName
<1>3. v # "" /\ GivesTunnel(l, x, v) <=> x = "crl-verify-file" /\ v = b
  BY <1>1 DEF GivesTunnel
<1>4. Gives(l, x, v) <=> x = "crl-verify-file" /\ v = b
  BY <1>2, <1>3
<1> QED BY <1>4 DEF l

LEMMA CrlDirGives ==
    ASSUME NEW b, b # "", NEW x, NEW v
    PROVE  Gives(<<"crl-verify", b, "dir">>, x, v) <=> x = "crl-verify-dir" /\ v = b
<1> DEFINE l == <<"crl-verify", b, "dir">>
<1>1. l[1] = "crl-verify" /\ Arg0(l) = b /\ Arg1(l) = "dir" BY LineArgs3
<1> HIDE DEF l
<1>2. Gives(l, x, v) <=> v # "" /\ GivesTunnel(l, x, v)
  <2>1. l[1] \in TunnelNames BY <1>1 DEF TunnelNames
  <2> QED BY <2>1, GivesByName
<1>3. v # "" /\ GivesTunnel(l, x, v) <=> x = "crl-verify-dir" /\ v = b
  BY <1>1 DEF GivesTunnel
<1>4. Gives(l, x, v) <=> x = "crl-verify-dir" /\ v = b
  BY <1>2, <1>3
<1> QED BY <1>4 DEF l

LEMMA ProtoGives ==
    ASSUME NEW b, b # "", NEW x, NEW v
    PROVE  Gives(<<"proto", b>>, x, v) <=> b \notin UdpProtos /\ x = "proto-tcp" /\ v = "yes"
<1> DEFINE l == <<"proto", b>>
<1>1. l[1] = "proto" /\ Arg0(l) = b BY LineArgs
<1> HIDE DEF l
<1>2. Gives(l, x, v) <=> v # "" /\ GivesTunnel(l, x, v)
  <2>1. l[1] \in TunnelNames BY <1>1 DEF TunnelNames
  <2> QED BY <2>1, GivesByName
<1>3. v # "" /\ GivesTunnel(l, x, v) <=> b \notin UdpProtos /\ x = "proto-tcp" /\ v = "yes"
  BY <1>1 DEF GivesTunnel
<1>4. Gives(l, x, v) <=> b \notin UdpProtos /\ x = "proto-tcp" /\ v = "yes"
  BY <1>2, <1>3
<1> QED BY <1>4 DEF l

ProxyItem(k, b, c, x, v) ==
    \/ x = "proxy-type" /\ v = IF k = "http-proxy" THEN "http" ELSE "socks"
    \/ x = "proxy-server" /\ v = b
    \/ x = "proxy-port" /\ v = c

LEMMA ProxyGives ==
    ASSUME NEW k \in Proxies, NEW b, b # "", NEW c, c # "", NEW x, NEW v
    PROVE  Gives(<<k, b, c>>, x, v) <=> ProxyItem(k, b, c, x, v)
<1> DEFINE l == <<k, b, c>>
<1>1. l[1] = k /\ Arg0(l) = b /\ Arg1(l) = c /\ Len(l) = 3 BY LineArgs3
<1> HIDE DEF l
<1>2. ~(Len(l) >= 4) BY <1>1, ThreeWords, Zenon
<1>3. Gives(l, x, v) <=> v # "" /\ GivesProxy(l, x, v) BY <1>1, GivesByName
<1>4. GivesProxy(l, x, v) <=>
        \/ x = "proxy-type" /\ v = IF k = "http-proxy" THEN "http" ELSE "socks"
        \/ x = "proxy-server" /\ v = b
        \/ x = "proxy-port" /\ v = c
  BY <1>1, <1>2 DEF GivesProxy
<1>5. (IF k = "http-proxy" THEN "http" ELSE "socks") # "" OBVIOUS
<1>6. Gives(l, x, v) <=>
        \/ x = "proxy-type" /\ v = IF k = "http-proxy" THEN "http" ELSE "socks"
        \/ x = "proxy-server" /\ v = b
        \/ x = "proxy-port" /\ v = c
  BY <1>3, <1>4, <1>5
<1> QED BY <1>6 DEF l, ProxyItem

LEMMA X509Gives ==
    ASSUME NEW w \in DOMAIN X509Names, NEW x, NEW v
    PROVE  Gives(BuildX509(w), x, v)
             <=> x = "verify-x509-name" /\ v = Joined(X509Names, X509Names[w])
<1> DEFINE l == BuildX509(w)
           j == Joined(X509Names, X509Names[w])
<1>1. l[1] = "verify-x509-name" /\ X509Names[w] = <<Arg1(l), Arg0(l)>> BY X509Harmless
<1>2. j \in DOMAIN X509Names
  <2>1. Spelled(X509Names, X509Names[w]) BY DEF Spelled
  <2> QED BY <2>1, SpelledBy
<1>3. j # "" BY <1>2, TableAssumption
<1>4. j = CHOOSE y \in DOMAIN X509Names : X509Names[y] = <<Arg1(l), Arg0(l)>>
  BY <1>1, Zenon DEF Joined
<1> HIDE DEF l, j
<1>5. Gives(l, x, v) <=> v # "" /\ GivesTunnel(l, x, v)
  <2>1. l[1] \in TunnelNames BY <1>1 DEF TunnelNames
  <2> QED BY <2>1, GivesByName
<1>6. GivesTunnel(l, x, v) <=>
        /\ x = "verify-x509-name"
        /\ v = CHOOSE y \in DOMAIN X509Names : X509Names[y] = <<Arg1(l), Arg0(l)>>
  <2> DEFINE i == CHOOSE y \in DOMAIN X509Names : X509Names[y] = <<Arg1(l), Arg0(l)>>
  <2>1. GivesTunnel(l, x, v) <=> l[1] = "verify-x509-name" /\ x = "verify-x509-name" /\ v = i
    BY <1>1 DEF GivesTunnel
  <2> HIDE DEF i
  <2>2. GivesTunnel(l, x, v) <=> x = "verify-x509-name" /\ v = i BY <1>1, <2>1
  <2> QED BY <2>2 DEF i
<1>7. Gives(l, x, v) <=> x = "verify-x509-name" /\ v = j BY <1>3, <1>4, <1>5, <1>6
<1> QED BY <1>7 DEF l, j

(* The items that come back, group by group.                               *)
FileReturns(d, x, v) ==
    \/ x \in ExportedFlags /\ Yes(d, x) /\ v = "yes"
    \/ Folded(d) /\ x \in {"ca", "cert", "key"} /\ v = d["cert"]
    \/ ~Folded(d) /\ IsTlsLike(d) /\ Has(d, "ca") /\ x = "ca" /\ v = d["ca"]
    \/ ~Folded(d) /\ NeedsUserCert(d) /\ Has(d, "cert") /\ x = "cert" /\ v = d["cert"]
    \/ ~Folded(d) /\ NeedsUserCert(d) /\ Has(d, "key") /\ x = "key" /\ v = d["key"]
    \/ IsStaticKey(d) /\ Has(d, "static-key") /\ x = "static-key" /\ v = d["static-key"]
    \/ /\ IsStaticKey(d) /\ Has(d, "static-key") /\ Has(d, "static-key-direction")
       /\ x = "static-key-direction" /\ v = d["static-key-direction"]

PairKeys ==
    {"reneg-seconds", "cipher", "data-ciphers", "data-ciphers-fallback", "tls-cipher",
     "keysize", "allow-compression", "auth", "tunnel-mtu", "connect-timeout",
     "fragment-size", "port", "ping", "ping-exit", "ping-restart"}

PairReturns(d, x, v) == x \in PairKeys /\ Has(d, x) /\ v = d[x]

Lzo(v) == IF v \in {"no", "no-by-default"} THEN "no-by-default" ELSE v

OptionReturns(d, x, v) ==
    \/ Compressing(d) /\ Has(d, "comp-lzo") /\ x = "comp-lzo" /\ v = Lzo(d["comp-lzo"])
    \/ Compressing(d) /\ Has(d, "compress") /\ x = "compress" /\ v = d["compress"]
    \/ Yes(d, "float") /\ x = "float" /\ v = "yes"
    \/ Has(d, "mssfix") /\ x = "mssfix" /\ v = d["mssfix"]
    \/ Has(d, "local-ip") /\ Has(d, "remote-ip") /\ x = "local-ip" /\ v = d["local-ip"]
    \/ Has(d, "local-ip") /\ Has(d, "remote-ip") /\ x = "remote-ip" /\ v = d["remote-ip"]

TlsKeys ==
    {"tls-crypt", "tls-crypt-v2", "remote-cert-tls", "ns-cert-type", "tls-remote",
     "tls-version-max", "extra-certs"}

TlsReturns(d, x, v) ==
    /\ IsTlsLike(d)
    /\ \/ /\ Has(d, "verify-x509-name") /\ x = "verify-x509-name"
          /\ v = Joined(X509Names, X509Names[d["verify-x509-name"]])
       \/ Has(d, "ta") /\ x = "ta" /\ v = d["ta"]
       \/ Has(d, "ta") /\ Has(d, "ta-dir") /\ x = "ta-dir" /\ v = d["ta-dir"]
       \/ Has(d, "tls-version-min") /\ x = "tls-version-min" /\ v = d["tls-version-min"]
       \/ /\ Has(d, "tls-version-min") /\ Yes(d, "tls-version-min-or-highest")
          /\ x = "tls-version-min-or-highest" /\ v = "yes"
       \/ x \in TlsKeys /\ Has(d, x) /\ v = d[x]
       \/ Has(d, "crl-verify-file") /\ x = "crl-verify-file" /\ v = d["crl-verify-file"]
       \/ /\ ~Has(d, "crl-verify-file") /\ Has(d, "crl-verify-dir")
          /\ x = "crl-verify-dir" /\ v = d["crl-verify-dir"]

Port(d) == IF Has(d, "proxy-port") THEN d["proxy-port"]
           ELSE IF Is(d, "proxy-type", "http") THEN "8080" ELSE "1080"

TailReturns(d, x, v) ==
    \/ x = "dev" /\ v = Device(d)
    \/ Yes(d, "proto-tcp") /\ x = "proto-tcp" /\ v = "yes"
    \/ Has(d, "dev-type") /\ x = "dev-type" /\ v = d["dev-type"]
    \/ /\ Has(d, "proxy-server") /\ (Is(d, "proxy-type", "http") \/ Is(d, "proxy-type", "socks"))
       /\ \/ x = "proxy-type" /\ v = d["proxy-type"]
          \/ x = "proxy-server" /\ v = d["proxy-server"]
          \/ x = "proxy-port" /\ v = Port(d)

Returns(d, x, v) ==
    \/ FileReturns(d, x, v) \/ PairReturns(d, x, v) \/ OptionReturns(d, x, v)
    \/ TlsReturns(d, x, v) \/ TailReturns(d, x, v)

LEMMA FilesReturn ==
    ASSUME NEW d, Sound(d), NEW x, NEW v
    PROVE  (\E l : CredentialLine(d, l) /\ Gives(l, x, v)) <=> FileReturns(d, x, v)
<1>1. \A k \in DOMAIN d : d[k] # "" BY DEF Sound
<1>2. ExportedFlags \subseteq Flags BY DEF ExportedFlags, Flags
<1>3. \A f \in ExportedFlags : Gives(<<f>>, x, v) <=> x = f /\ v = "yes" BY <1>2, FlagGives
<1>4. ~Gives(<<"client">>, x, v)
  <2>1. "client" \notin AllNames
    BY DEF AllNames, Copied, Flags, Proxies, TunnelNames, CredentialNames
  <2> QED BY <2>1, QuietGives
<1>5. \A k \in {"ca", "cert", "key"} :
        Has(d, k) => (Gives(<<k, d[k]>>, x, v) <=> x = k /\ v = d[k])
  <2> SUFFICES ASSUME NEW k \in {"ca", "cert", "key"}, Has(d, k)
               PROVE  Gives(<<k, d[k]>>, x, v) <=> x = k /\ v = d[k]
    OBVIOUS
  <2> DEFINE b == d[k]
  <2>1. b # "" BY <1>1 DEF Has
  <2> HIDE DEF b
  <2>2. Gives(<<k, b>>, x, v) <=> x = k /\ v = b BY <2>1, CertGives, Zenon
  <2> QED BY <2>2 DEF b
<1>6. /\ ~Gives(<<"auth-user-pass">>, x, v)
      /\ Has(d, "cert") =>
           (Gives(<<"pkcs12", d["cert"]>>, x, v) <=> x \in {"ca", "cert", "key"} /\ v = d["cert"])
      /\ Has(d, "static-key") =>
           (Gives(<<"secret", d["static-key"]>>, x, v) <=> x = "static-key" /\ v = d["static-key"])
  <2>1. ~Gives(<<"auth-user-pass">>, x, v) BY AuthGives
  <2>2. Has(d, "cert") =>
          (Gives(<<"pkcs12", d["cert"]>>, x, v) <=> x \in {"ca", "cert", "key"} /\ v = d["cert"])
    BY <1>1, BundleGives DEF Has
  <2>3. Has(d, "static-key") =>
          (Gives(<<"secret", d["static-key"]>>, x, v) <=> x = "static-key" /\ v = d["static-key"])
    BY <1>1, SecretGives DEF Has
  <2> QED BY <2>1, <2>2, <2>3
<1>7. Has(d, "static-key") /\ Has(d, "static-key-direction") =>
        (Gives(<<"secret", d["static-key"], d["static-key-direction"]>>, x, v)
           <=> \/ (x = "static-key" /\ v = d["static-key"])
               \/ (x = "static-key-direction" /\ v = d["static-key-direction"]))
  <2> SUFFICES ASSUME Has(d, "static-key"), Has(d, "static-key-direction")
               PROVE  Gives(<<"secret", d["static-key"], d["static-key-direction"]>>, x, v)
                        <=> \/ (x = "static-key" /\ v = d["static-key"])
                            \/ (x = "static-key-direction" /\ v = d["static-key-direction"])
    OBVIOUS
  <2> DEFINE b == d["static-key"]
             c == d["static-key-direction"]
  <2>1. b # "" /\ c # "" BY <1>1 DEF Has
  <2> HIDE DEF b, c
  <2>2. Gives(<<"secret", b, c>>, x, v)
          <=> (x = "static-key" /\ v = b) \/ (x = "static-key-direction" /\ v = c)
    BY <2>1, SecretDirGives, Zenon
  <2> QED BY <2>2 DEF b, c
<1>8. (\E l : CredentialLine(d, l) /\ Gives(l, x, v)) <=>
        \/ \E f \in ExportedFlags : Yes(d, f) /\ Gives(<<f>>, x, v)
        \/ IsTlsLike(d) /\ Gives(<<"client">>, x, v)
        \/ Folded(d) /\ Gives(<<"pkcs12", d["cert"]>>, x, v)
        \/ ~Folded(d) /\ IsTlsLike(d) /\ Has(d, "ca") /\ Gives(<<"ca", d["ca"]>>, x, v)
        \/ ~Folded(d) /\ NeedsUserCert(d) /\ Has(d, "cert") /\ Gives(<<"cert", d["cert"]>>, x, v)
        \/ ~Folded(d) /\ NeedsUserCert(d) /\ Has(d, "key") /\ Gives(<<"key", d["key"]>>, x, v)
        \/ IsPasswordLike(d) /\ Gives(<<"auth-user-pass">>, x, v)
        \/ /\ IsStaticKey(d) /\ Has(d, "static-key")
           /\ Gives(IF Has(d, "static-key-direction")
                    THEN <<"secret", d["static-key"], d["static-key-direction"]>>
                    ELSE <<"secret", d["static-key"]>>, x, v)
  BY Zenon DEF CredentialLine
<1>9. Folded(d) => Has(d, "cert") BY DEF Folded
<1> QED BY <1>3, <1>4, <1>5, <1>6, <1>7, <1>8, <1>9 DEF FileReturns

LEMMA PairsReturn ==
    ASSUME NEW d, Sound(d), NEW x, NEW v
    PROVE  (\E l : PairLine(d, l, pairs_str) /\ Gives(l, x, v)) <=> PairReturns(d, x, v)
<1>1. \A k \in DOMAIN d : d[k] # "" BY DEF Sound
<1>2. \A p \in pairs_str : p[2] \in DOMAIN Copied \/ p[2] \notin AllNames
  BY DEF pairs_str, AllNames, Copied, Flags, Proxies, TunnelNames, CredentialNames
<1>3. \A p \in pairs_str : p[2] \in DOMAIN Copied => p[1] \in PairKeys /\ Copied[p[2]] = p[1]
  BY DEF pairs_str, Copied, PairKeys
<1>4. \A k \in PairKeys : \E p \in pairs_str : p[1] = k /\ p[2] \in DOMAIN Copied
  <2> SUFFICES ASSUME NEW k \in PairKeys
               PROVE  \E p \in pairs_str : p[1] = k /\ p[2] \in DOMAIN Copied
    OBVIOUS
  <2> DEFINE n == CASE k = "reneg-seconds" -> "reneg-sec"
                    [] k = "tunnel-mtu" -> "tun-mtu"
                    [] k = "fragment-size" -> "fragment"
                    [] OTHER -> k
  <2>1. <<k, n>> \in pairs_str BY DEF PairKeys, pairs_str
  <2>2. n \in DOMAIN Copied BY DEF PairKeys, Copied
  <2> HIDE DEF n
  <2>3. <<k, n>>[1] = k /\ <<k, n>>[2] = n OBVIOUS
  <2> QED BY <2>1, <2>2, <2>3
<1>5. ASSUME NEW p \in pairs_str, Has(d, p[1])
      PROVE  Gives(<<p[2], d[p[1]]>>, x, v)
               <=> p[2] \in DOMAIN Copied /\ x = p[1] /\ v = d[p[1]]
  <2> DEFINE a == p[2]
             b == d[p[1]]
  <2>1. b # "" BY <1>1, <1>5 DEF Has
  <2> HIDE DEF b
  <2>2. CASE a \in DOMAIN Copied
    <3>1. Copied[a] = p[1] BY <1>3, <2>2
    <3> HIDE DEF a
    <3>2. Gives(<<a, b>>, x, v) <=> x = Copied[a] /\ v = b BY <2>1, <2>2, CopyGives, Zenon
    <3> QED BY <2>2, <3>1, <3>2 DEF a, b
  <2>3. CASE a \notin DOMAIN Copied
    <3>1. a \notin AllNames BY <1>2, <2>3
    <3> HIDE DEF a
    <3>2. ~Gives(<<a, b>>, x, v) BY <3>1, QuietGives, Zenon
    <3> QED BY <2>3, <3>2 DEF a, b
  <2> QED BY <2>2, <2>3
<1>6. (\E l : PairLine(d, l, pairs_str) /\ Gives(l, x, v))
        <=> \E p \in pairs_str : Has(d, p[1]) /\ Gives(<<p[2], d[p[1]]>>, x, v)
  BY Zenon DEF PairLine
<1>7. (\E p \in pairs_str : Has(d, p[1]) /\ Gives(<<p[2], d[p[1]]>>, x, v))
        <=> \E p \in pairs_str : /\ Has(d, p[1]) /\ p[2] \in DOMAIN Copied
                                 /\ x = p[1] /\ v = d[p[1]]
  BY <1>5, Zenon
<1>8. (\E p \in pairs_str : Has(d, p[1]) /\ p[2] \in DOMAIN Copied /\ x = p[1] /\ v = d[p[1]])
        <=> x \in PairKeys /\ Has(d, x) /\ v = d[x]
  BY <1>3, <1>4, Zenon
<1> QED BY <1>6, <1>7, <1>8 DEF PairReturns

LEMMA OptionsReturn ==
    ASSUME NEW d, Sound(d), NEW x, NEW v
    PROVE  (\E l : TunnelLine(d, l) /\ Gives(l, x, v)) <=> OptionReturns(d, x, v)
<1> DEFINE lzo == IF d["comp-lzo"] = "no-by-default" THEN "no" ELSE d["comp-lzo"]
<1>1. \A k \in DOMAIN d : d[k] # "" BY DEF Sound
<1>2. (\E l : TunnelLine(d, l) /\ Gives(l, x, v)) <=>
        \/ Compressing(d) /\ Has(d, "comp-lzo") /\ Gives(<<"comp-lzo", lzo>>, x, v)
        \/ Compressing(d) /\ Yes(d, "compress") /\ Gives(<<"compress">>, x, v)
        \/ /\ Compressing(d) /\ Has(d, "compress") /\ ~Yes(d, "compress")
           /\ Gives(<<"compress", d["compress"]>>, x, v)
        \/ Yes(d, "float") /\ Gives(<<"float">>, x, v)
        \/ Yes(d, "mssfix") /\ Gives(<<"mssfix">>, x, v)
        \/ Has(d, "mssfix") /\ ~Yes(d, "mssfix") /\ Gives(<<"mssfix", d["mssfix"]>>, x, v)
        \/ /\ Has(d, "local-ip") /\ Has(d, "remote-ip")
           /\ Gives(<<"ifconfig", d["local-ip"], d["remote-ip"]>>, x, v)
  BY Zenon DEF TunnelLine
<1>3. Has(d, "comp-lzo") =>
        (Gives(<<"comp-lzo", lzo>>, x, v) <=> x = "comp-lzo" /\ v = Lzo(d["comp-lzo"]))
  <2> SUFFICES ASSUME Has(d, "comp-lzo")
               PROVE  Gives(<<"comp-lzo", lzo>>, x, v) <=> x = "comp-lzo" /\ v = Lzo(d["comp-lzo"])
    OBVIOUS
  <2>1. lzo # "" BY <1>1 DEF Has
  <2>2. (IF lzo = "no" THEN "no-by-default" ELSE lzo) = Lzo(d["comp-lzo"]) BY DEF Lzo
  <2> HIDE DEF lzo
  <2>3. Gives(<<"comp-lzo", lzo>>, x, v)
          <=> x = "comp-lzo" /\ v = IF lzo = "no" THEN "no-by-default" ELSE lzo
    BY <2>1, LzoGives, Zenon
  <2> QED BY <2>2, <2>3
<1> HIDE DEF lzo
<1>4. /\ Gives(<<"compress">>, x, v) <=> x = "compress" /\ v = "yes"
      /\ Gives(<<"mssfix">>, x, v) <=> x = "mssfix" /\ v = "yes"
  BY OptBareGives
<1>5. ASSUME NEW k \in {"mssfix", "compress"}, Has(d, k)
      PROVE  Gives(<<k, d[k]>>, x, v) <=> x = k /\ v = d[k]
  <2> DEFINE b == d[k]
  <2>1. b # "" BY <1>1, <1>5 DEF Has
  <2> HIDE DEF b
  <2>2. Gives(<<k, b>>, x, v) <=> x = k /\ v = b BY <2>1, OptGives, Zenon
  <2> QED BY <2>2 DEF b
<1>6. Gives(<<"float">>, x, v) <=> x = "float" /\ v = "yes"
  <2>1. "float" \in Flags BY DEF Flags
  <2> QED BY <2>1, FlagGives
<1>7. Has(d, "local-ip") /\ Has(d, "remote-ip") =>
        (Gives(<<"ifconfig", d["local-ip"], d["remote-ip"]>>, x, v)
           <=> (x = "local-ip" /\ v = d["local-ip"]) \/ (x = "remote-ip" /\ v = d["remote-ip"]))
  <2> SUFFICES ASSUME Has(d, "local-ip"), Has(d, "remote-ip")
               PROVE  Gives(<<"ifconfig", d["local-ip"], d["remote-ip"]>>, x, v)
                        <=> \/ (x = "local-ip" /\ v = d["local-ip"])
                            \/ (x = "remote-ip" /\ v = d["remote-ip"])
    OBVIOUS
  <2> DEFINE b == d["local-ip"]
             c == d["remote-ip"]
  <2>1. b # "" /\ c # "" BY <1>1 DEF Has
  <2> HIDE DEF b, c
  <2>2. Gives(<<"ifconfig", b, c>>, x, v) <=> (x = "local-ip" /\ v = b) \/ (x = "remote-ip" /\ v = c)
    BY <2>1, IfconfigGives, Zenon
  <2> QED BY <2>2 DEF b, c
<1>8. \A k : Yes(d, k) <=> Has(d, k) /\ d[k] = "yes" BY DEF Yes, Is, Has
<1>9. /\ Has(d, "mssfix") => (Gives(<<"mssfix", d["mssfix"]>>, x, v) <=> x = "mssfix" /\ v = d["mssfix"])
      /\ Has(d, "compress") => (Gives(<<"compress", d["compress"]>>, x, v)
                                  <=> x = "compress" /\ v = d["compress"])
  BY <1>5
<1>10. /\ ((Yes(d, "compress") /\ Gives(<<"compress">>, x, v))
            \/ (Has(d, "compress") /\ ~Yes(d, "compress") /\ Gives(<<"compress", d["compress"]>>, x, v)))
          <=> Has(d, "compress") /\ x = "compress" /\ v = d["compress"]
       /\ ((Yes(d, "mssfix") /\ Gives(<<"mssfix">>, x, v))
            \/ (Has(d, "mssfix") /\ ~Yes(d, "mssfix") /\ Gives(<<"mssfix", d["mssfix"]>>, x, v)))
          <=> Has(d, "mssfix") /\ x = "mssfix" /\ v = d["mssfix"]
  BY <1>4, <1>8, <1>9
<1> QED BY <1>2, <1>3, <1>6, <1>7, <1>10, Zenon DEF OptionReturns

LEMMA TlsReturn ==
    ASSUME NEW d, Sound(d), NEW x, NEW v
    PROVE  (\E l : TlsLine(d, l) /\ Gives(l, x, v)) <=> TlsReturns(d, x, v)
<1>1. \A k \in DOMAIN d : d[k] # "" BY DEF Sound
<1>2. (\E l : TlsLine(d, l) /\ Gives(l, x, v)) <=>
        /\ IsTlsLike(d)
        /\ \/ Has(d, "verify-x509-name") /\ Gives(BuildX509(d["verify-x509-name"]), x, v)
           \/ /\ Has(d, "ta")
              /\ Gives(IF Has(d, "ta-dir") THEN <<"tls-auth", d["ta"], d["ta-dir"]>>
                       ELSE <<"tls-auth", d["ta"]>>, x, v)
           \/ /\ Has(d, "tls-version-min")
              /\ Gives(IF Yes(d, "tls-version-min-or-highest")
                       THEN <<"tls-version-min", d["tls-version-min"], "or-highest">>
                       ELSE <<"tls-version-min", d["tls-version-min"]>>, x, v)
           \/ \E l : PairLine(d, l, TlsPairs) /\ Gives(l, x, v)
           \/ Has(d, "crl-verify-file") /\ Gives(<<"crl-verify", d["crl-verify-file"]>>, x, v)
           \/ /\ ~Has(d, "crl-verify-file") /\ Has(d, "crl-verify-dir")
              /\ Gives(<<"crl-verify", d["crl-verify-dir"], "dir">>, x, v)
  BY Zenon DEF TlsLine
<1>3. Has(d, "verify-x509-name") =>
        (Gives(BuildX509(d["verify-x509-name"]), x, v)
           <=> /\ x = "verify-x509-name"
               /\ v = Joined(X509Names, X509Names[d["verify-x509-name"]]))
  BY X509Gives DEF Sound
<1>4. Has(d, "ta") =>
        (Gives(IF Has(d, "ta-dir") THEN <<"tls-auth", d["ta"], d["ta-dir"]>>
               ELSE <<"tls-auth", d["ta"]>>, x, v)
           <=> \/ (x = "ta" /\ v = d["ta"])
               \/ (Has(d, "ta-dir") /\ x = "ta-dir" /\ v = d["ta-dir"]))
  <2> DEFINE b == d["ta"]
             c == d["ta-dir"]
  <2>1. (Has(d, "ta") => b # "") /\ (Has(d, "ta-dir") => c # "") BY <1>1 DEF Has
  <2> HIDE DEF b, c
  <2>2. Has(d, "ta") => (Gives(<<"tls-auth", b>>, x, v) <=> x = "ta" /\ v = b)
    BY <2>1, TaGives, Zenon
  <2>3. Has(d, "ta") /\ Has(d, "ta-dir") =>
          (Gives(<<"tls-auth", b, c>>, x, v) <=> (x = "ta" /\ v = b) \/ (x = "ta-dir" /\ v = c))
    BY <2>1, TaDirGives, Zenon
  <2>4. Has(d, "ta") =>
        (Gives(IF Has(d, "ta-dir") THEN <<"tls-auth", b, c>> ELSE <<"tls-auth", b>>, x, v)
           <=> (x = "ta" /\ v = b) \/ (Has(d, "ta-dir") /\ x = "ta-dir" /\ v = c))
    <3>1. CASE Has(d, "ta-dir") BY <3>1, <2>3
    <3>2. CASE ~Has(d, "ta-dir") BY <3>2, <2>2
    <3> QED BY <3>1, <3>2
  <2> QED BY <2>4 DEF b, c
<1>5. Has(d, "tls-version-min") =>
        (Gives(IF Yes(d, "tls-version-min-or-highest")
               THEN <<"tls-version-min", d["tls-version-min"], "or-highest">>
               ELSE <<"tls-version-min", d["tls-version-min"]>>, x, v)
           <=> \/ (x = "tls-version-min" /\ v = d["tls-version-min"])
               \/ (Yes(d, "tls-version-min-or-highest") /\ x = "tls-version-min-or-highest"
                     /\ v = "yes"))
  <2> DEFINE b == d["tls-version-min"]
             o == Yes(d, "tls-version-min-or-highest")
  <2>1. Has(d, "tls-version-min") => b # "" BY <1>1 DEF Has
  <2> HIDE DEF b, o
  <2>2. Has(d, "tls-version-min") =>
          (Gives(<<"tls-version-min", b>>, x, v) <=> x = "tls-version-min" /\ v = b)
    BY <2>1, MinGives, Zenon
  <2>3. Has(d, "tls-version-min") =>
          (Gives(<<"tls-version-min", b, "or-highest">>, x, v)
             <=> \/ (x = "tls-version-min" /\ v = b)
                 \/ (x = "tls-version-min-or-highest" /\ v = "yes"))
    BY <2>1, MinHighestGives, Zenon
  <2>4. Has(d, "tls-version-min") =>
        (Gives(IF o THEN <<"tls-version-min", b, "or-highest">> ELSE <<"tls-version-min", b>>, x, v)
           <=> \/ (x = "tls-version-min" /\ v = b)
               \/ (o /\ x = "tls-version-min-or-highest" /\ v = "yes"))
    <3>1. CASE o BY <3>1, <2>3
    <3>2. CASE ~o BY <3>2, <2>2
    <3> QED BY <3>1, <3>2
  <2> QED BY <2>4 DEF b, o
<1>6. (\E l : PairLine(d, l, TlsPairs) /\ Gives(l, x, v)) <=> x \in TlsKeys /\ Has(d, x) /\ v = d[x]
  <2>1. (\E l : PairLine(d, l, TlsPairs) /\ Gives(l, x, v))
          <=> \E p \in TlsPairs : Has(d, p[1]) /\ Gives(<<p[2], d[p[1]]>>, x, v)
    BY Zenon DEF PairLine
  <2>2. (\E p \in TlsPairs : Has(d, p[1]) /\ Gives(<<p[2], d[p[1]]>>, x, v))
          <=> \E k \in TlsKeys : Has(d, k) /\ Gives(<<k, d[k]>>, x, v)
    <3>1. TlsPairs = {<<k, k>> : k \in TlsKeys} BY Zenon DEF TlsPairs, TlsKeys
    <3>2. \A k : <<k, k>>[1] = k /\ <<k, k>>[2] = k OBVIOUS
    <3>3. \A p \in TlsPairs : \E k \in TlsKeys : p = <<k, k>> BY <3>1
    <3>4. \A k \in TlsKeys : <<k, k>> \in TlsPairs BY <3>1
    <3>5. \A p \in TlsPairs : p[1] \in TlsKeys /\ p[2] = p[1] BY <3>2, <3>3
    <3>6. ASSUME NEW k \in TlsKeys PROVE \E p \in TlsPairs : p[1] = k /\ p[2] = k
      BY <3>2, <3>4
    <3> QED BY <3>5, <3>6, Zenon
  <2>3. ASSUME NEW k \in TlsKeys, Has(d, k)
        PROVE  Gives(<<k, d[k]>>, x, v) <=> x = k /\ v = d[k]
    <3> DEFINE b == d[k]
    <3>1. k \in DOMAIN Copied /\ Copied[k] = k BY DEF TlsKeys, Copied
    <3>2. b # "" BY <1>1, <2>3 DEF Has
    <3> HIDE DEF b
    <3>3. Gives(<<k, b>>, x, v) <=> x = Copied[k] /\ v = b BY <3>1, <3>2, CopyGives, Zenon
    <3> QED BY <3>1, <3>3 DEF b
  <2>4. (\E k \in TlsKeys : Has(d, k) /\ Gives(<<k, d[k]>>, x, v))
          <=> x \in TlsKeys /\ Has(d, x) /\ v = d[x]
    BY <2>3, Zenon
  <2> QED BY <2>1, <2>2, <2>4
<1>7. /\ Has(d, "crl-verify-file") =>
           (Gives(<<"crl-verify", d["crl-verify-file"]>>, x, v)
              <=> x = "crl-verify-file" /\ v = d["crl-verify-file"])
      /\ Has(d, "crl-verify-dir") =>
           (Gives(<<"crl-verify", d["crl-verify-dir"], "dir">>, x, v)
              <=> x = "crl-verify-dir" /\ v = d["crl-verify-dir"])
  <2> DEFINE b == d["crl-verify-file"]
             c == d["crl-verify-dir"]
  <2>1. (Has(d, "crl-verify-file") => b # "") /\ (Has(d, "crl-verify-dir") => c # "")
    BY <1>1 DEF Has
  <2> HIDE DEF b, c
  <2>2. Has(d, "crl-verify-file") =>
          (Gives(<<"crl-verify", b>>, x, v) <=> x = "crl-verify-file" /\ v = b)
    BY <2>1, CrlFileGives, Zenon
  <2>3. Has(d, "crl-verify-dir") =>
          (Gives(<<"crl-verify", c, "dir">>, x, v) <=> x = "crl-verify-dir" /\ v = c)
    BY <2>1, CrlDirGives, Zenon
  <2> QED BY <2>2, <2>3 DEF b, c
<1> QED BY <1>2, <1>3, <1>4, <1>5, <1>6, <1>7, Zenon DEF TlsReturns

LEMMA TailReturn ==
    ASSUME NEW d, Sound(d), NEW x, NEW v
    PROVE  (\E l : TailLine(d, l) /\ Gives(l, x, v)) <=> TailReturns(d, x, v)
<1> DEFINE proxy == \/ x = "proxy-type" /\ v = d["proxy-type"]
                    \/ x = "proxy-server" /\ v = d["proxy-server"]
                    \/ x = "proxy-port" /\ v = Port(d)
           htp == <<"http-proxy", d["proxy-server"],
                    IF Has(d, "proxy-port") THEN d["proxy-port"] ELSE "8080">>
           skp == <<"socks-proxy", d["proxy-server"],
                    IF Has(d, "proxy-port") THEN d["proxy-port"] ELSE "1080">>
           proto == IF Yes(d, "proto-tcp") THEN "tcp" ELSE "udp"
<1>1. \A k \in DOMAIN d : d[k] # "" BY DEF Sound
<1>2. (\E l : TailLine(d, l) /\ Gives(l, x, v)) <=>
        \/ Gives(<<"dev", Device(d)>>, x, v)
        \/ Gives(<<"proto", proto>>, x, v)
        \/ Has(d, "dev-type") /\ Gives(<<"dev-type", d["dev-type"]>>, x, v)
        \/ /\ Has(d, "proxy-server") /\ Is(d, "proxy-type", "http")
           /\ Gives(htp, x, v) \/ (Yes(d, "proxy-retry") /\ Gives(<<"http-proxy-retry">>, x, v))
        \/ /\ Has(d, "proxy-server") /\ Is(d, "proxy-type", "socks")
           /\ Gives(skp, x, v) \/ (Yes(d, "proxy-retry") /\ Gives(<<"socks-proxy-retry">>, x, v))
        \/ \E l \in BuildTail : Gives(l, x, v)
  BY Zenon DEF TailLine
<1>3. Gives(<<"dev", Device(d)>>, x, v) <=> x = "dev" /\ v = Device(d)
  <2> DEFINE b == Device(d)
             k == "dev"
  <2>1. b # "" BY <1>1 DEF Device, Has
  <2>2. k \in DOMAIN Copied /\ Copied[k] = k BY DEF Copied
  <2> HIDE DEF b, k
  <2>3. Gives(<<k, b>>, x, v) <=> x = k /\ v = b BY <2>1, <2>2, CopyGives
  <2> QED BY <2>3 DEF b, k
<1>4. Has(d, "dev-type") =>
        (Gives(<<"dev-type", d["dev-type"]>>, x, v) <=> x = "dev-type" /\ v = d["dev-type"])
  <2> DEFINE b == d["dev-type"]
             k == "dev-type"
  <2>1. Has(d, "dev-type") => b # "" BY <1>1 DEF Has
  <2>2. k \in DOMAIN Copied /\ Copied[k] = k BY DEF Copied
  <2> HIDE DEF b, k
  <2>3. Has(d, "dev-type") => (Gives(<<k, b>>, x, v) <=> x = k /\ v = b)
    BY <2>1, <2>2, CopyGives
  <2> QED BY <2>3 DEF b, k
<1>5. Gives(<<"proto", proto>>, x, v) <=> Yes(d, "proto-tcp") /\ x = "proto-tcp" /\ v = "yes"
  <2>1. proto # "" OBVIOUS
  <2>2. proto \notin UdpProtos <=> Yes(d, "proto-tcp") BY DEF UdpProtos
  <2> HIDE DEF proto
  <2>3. Gives(<<"proto", proto>>, x, v) <=> proto \notin UdpProtos /\ x = "proto-tcp" /\ v = "yes"
    BY <2>1, ProtoGives, Zenon
  <2> QED BY <2>2, <2>3
<1>6. /\ ~Gives(<<"http-proxy-retry">>, x, v) /\ ~Gives(<<"socks-proxy-retry">>, x, v)
      /\ \A l \in BuildTail : ~Gives(l, x, v)
  <2>1. \A a \in {"http-proxy-retry", "socks-proxy-retry", "nobind", "auth-nocache",
                  "script-security", "persist-key", "persist-tun", "user", "group"} :
          a \notin AllNames
    BY DEF AllNames, Copied, Flags, Proxies, TunnelNames, CredentialNames
  <2>2. \A a \in {"http-proxy-retry", "socks-proxy-retry", "nobind", "auth-nocache",
                  "persist-key", "persist-tun"} : ~Gives(<<a>>, x, v)
    BY <2>1, QuietGives, Zenon
  <2>3. \A a \in {"script-security", "user", "group"} : \A b : ~Gives(<<a, b>>, x, v)
    BY <2>1, QuietGives, Zenon
  <2>4. /\ ~Gives(<<"nobind">>, x, v) /\ ~Gives(<<"auth-nocache">>, x, v)
        /\ ~Gives(<<"script-security", "2">>, x, v) /\ ~Gives(<<"persist-key">>, x, v)
        /\ ~Gives(<<"persist-tun">>, x, v) /\ ~Gives(<<"user", "nm-openvpn3">>, x, v)
        /\ ~Gives(<<"group", "nm-openvpn3">>, x, v)
        /\ ~Gives(<<"http-proxy-retry">>, x, v) /\ ~Gives(<<"socks-proxy-retry">>, x, v)
    BY <2>2, <2>3, Zenon
  <2> QED BY <2>4, Zenon DEF BuildTail
<1>7. ASSUME Has(d, "proxy-server"), Is(d, "proxy-type", "http")
      PROVE  Gives(htp, x, v) <=> proxy
  <2> DEFINE k == "http-proxy"
             b == d["proxy-server"]
             c == IF Has(d, "proxy-port") THEN d["proxy-port"] ELSE "8080"
  <2>1. k \in Proxies /\ (IF k = "http-proxy" THEN "http" ELSE "socks") = d["proxy-type"]
    BY <1>7 DEF Proxies, Is
  <2>2. b # "" /\ c # "" BY <1>1, <1>7 DEF Has
  <2>3. Port(d) = c BY <1>7 DEF Port
  <2> HIDE DEF k, b, c
  <2>4. Gives(<<k, b, c>>, x, v) <=> ProxyItem(k, b, c, x, v)
    BY <2>1, <2>2, ProxyGives, Zenon
  <2>5. Gives(<<k, b, c>>, x, v) <=>
          \/ x = "proxy-type" /\ v = d["proxy-type"]
          \/ x = "proxy-server" /\ v = b
          \/ x = "proxy-port" /\ v = Port(d)
    BY <2>1, <2>3, <2>4 DEF ProxyItem
  <2> QED BY <2>5 DEF k, b, c
<1>8. ASSUME Has(d, "proxy-server"), Is(d, "proxy-type", "socks")
      PROVE  Gives(skp, x, v) <=> proxy
  <2> DEFINE k == "socks-proxy"
             b == d["proxy-server"]
             c == IF Has(d, "proxy-port") THEN d["proxy-port"] ELSE "1080"
  <2>1. k \in Proxies /\ (IF k = "http-proxy" THEN "http" ELSE "socks") = d["proxy-type"]
    BY <1>8 DEF Proxies, Is
  <2>2. b # "" /\ c # "" BY <1>1, <1>8 DEF Has
  <2>3. Port(d) = c BY <1>8 DEF Port, Is
  <2> HIDE DEF k, b, c
  <2>4. Gives(<<k, b, c>>, x, v) <=> ProxyItem(k, b, c, x, v)
    BY <2>1, <2>2, ProxyGives, Zenon
  <2>5. Gives(<<k, b, c>>, x, v) <=>
          \/ x = "proxy-type" /\ v = d["proxy-type"]
          \/ x = "proxy-server" /\ v = b
          \/ x = "proxy-port" /\ v = Port(d)
    BY <2>1, <2>3, <2>4 DEF ProxyItem
  <2> QED BY <2>5 DEF k, b, c
<1> HIDE DEF htp, skp, proto
<1>9. (\E l : TailLine(d, l) /\ Gives(l, x, v)) <=>
        \/ x = "dev" /\ v = Device(d)
        \/ Yes(d, "proto-tcp") /\ x = "proto-tcp" /\ v = "yes"
        \/ Has(d, "dev-type") /\ x = "dev-type" /\ v = d["dev-type"]
        \/ Has(d, "proxy-server") /\ Is(d, "proxy-type", "http") /\ proxy
        \/ Has(d, "proxy-server") /\ Is(d, "proxy-type", "socks") /\ proxy
  <2> HIDE DEF proxy
  <2> QED BY <1>2, <1>3, <1>4, <1>5, <1>6, <1>7, <1>8, Zenon
<1> QED BY <1>9, Zenon DEF TailReturns

(* What an import finds in the lines of an exported profile.               *)
LEMMA ExportReturn ==
    ASSUME NEW d, Sound(d), NEW x, NEW v
    PROVE  (\E l : ExportedLine(d, l) /\ Gives(l, x, v)) <=> Returns(d, x, v)
BY FilesReturn, PairsReturn, OptionsReturn, TlsReturn, TailReturn, Zenon
   DEF ExportedLine, Returns

-----------------------------------------------------------------------------
(* Exporting a dictionary and reading the file again.                      *)
RouteNames == {"route", "route-ipv6", "route-gateway", "route-metric", "route-delay"}

LEMMA ExportRouteNames ==
    ASSUME NEW d, NEW l \in Lines(ExportRoutes(d)) PROVE l[1] \in RouteNames
<1>1. CASE ~Has(d, "nm-openvpn3-extra-routes")
  <2>1. ExportRoutes(d) = <<>> BY <1>1 DEF ExportRoutes
  <2> QED BY <2>1 DEF Lines
<1>2. CASE Has(d, "nm-openvpn3-extra-routes")
  <2> DEFINE all == RouteLines[d["nm-openvpn3-extra-routes"]]
             h == ExportRoutes(d)
  <2>1. h = [i \in {j \in DOMAIN all : ExportSafeRoute(all[j])} |-> all[i].words]
    BY <1>2 DEF ExportRoutes
  <2> HIDE DEF h, all
  <2>2. PICK i \in DOMAIN h : l = h[i] BY DEF Lines, h
  <2> QED BY <2>1, <2>2 DEF ExportSafeRoute, RouteNames
<1> QED BY <1>1, <1>2

(* The servers and the routes are lists of their own: no item comes from   *)
(* them.                                                                   *)
LEMMA ListsGiveNothing ==
    ASSUME NEW l, l[1] \in RouteNames \cup {"remote"}
    PROVE  (\A x, v : ~Gives(l, x, v)) /\ Tells(l) = {} /\ Removed(l) = {}
<1>1. ASSUME NEW x, NEW v PROVE ~Gives(l, x, v)
  <2>1. CASE l[1] \in {"remote", "route"}
    <3>1. l[1] \in TunnelNames BY <2>1 DEF TunnelNames
    <3>2. ~GivesTunnel(l, x, v) BY <2>1 DEF GivesTunnel
    <3> QED BY <3>1, <3>2, GivesByName
  <2>2. CASE l[1] \notin {"remote", "route"}
    <3>1. l[1] \notin AllNames
      BY <2>2 DEF RouteNames, AllNames, Copied, Flags, Proxies, TunnelNames, CredentialNames
    <3> QED BY <3>1, GivesByName
  <2> QED BY <2>1, <2>2
<1>2. Tells(l) = {} BY DEF Tells, RouteNames
<1>3. Removed(l) = {} BY DEF Removed, RouteNames
<1> QED BY <1>1, <1>2, <1>3

(* What an import keeps of the dictionary d in the file it is exported to. *)
ReadBack(d, acc) ==
    /\ \A x \in DOMAIN acc.data : Returns(d, x, acc.data[x])
    /\ \A x, v : Returns(d, x, v) => x \in DOMAIN acc.data
    /\ acc.keydir = ""
    /\ \A x : x \in acc.have <=> \E l : ExportedLine(d, l) /\ x \in Tells(l)

(* The lines of an exported profile that name no credential.               *)
PlainNames ==
    {"remote", "route", "auth-user-pass", "ca", "cert", "key", "pkcs12", "secret", "<>",
     "key-direction"}

LEMMA OtherExportedNames ==
    ASSUME NEW d, NEW l, Sound(d),
           PairLine(d, l, pairs_str) \/ TunnelLine(d, l) \/ TlsLine(d, l) \/ TailLine(d, l)
    PROVE  l[1] \notin PlainNames
<1>1. CASE PairLine(d, l, pairs_str) BY <1>1 DEF PairLine, pairs_str, PlainNames
<1>2. CASE TunnelLine(d, l) BY <1>2 DEF TunnelLine, PlainNames
<1>3. CASE TlsLine(d, l)
  <2>1. CASE Has(d, "verify-x509-name") /\ l = BuildX509(d["verify-x509-name"])
    <3>1. l[1] = "verify-x509-name" BY <2>1, X509Harmless DEF Sound
    <3> QED BY <3>1 DEF PlainNames
  <2>2. CASE PairLine(d, l, TlsPairs) BY <2>2 DEF PairLine, TlsPairs, PlainNames
  <2>3. CASE ~(Has(d, "verify-x509-name") /\ l = BuildX509(d["verify-x509-name"]))
             /\ ~PairLine(d, l, TlsPairs)
    BY <1>3, <2>3 DEF TlsLine, PlainNames
  <2> QED BY <2>1, <2>2, <2>3
<1>4. CASE TailLine(d, l) BY <1>4 DEF TailLine, BuildTail, PlainNames
<1> QED BY <1>1, <1>2, <1>3, <1>4

LEMMA CredentialLineNames ==
    ASSUME NEW d, NEW l, CredentialLine(d, l)
    PROVE  l[1] \in ExportedFlags \cup {"client", "pkcs12", "ca", "cert", "key",
                                        "auth-user-pass", "secret"}
BY DEF CredentialLine

LEMMA NoKeyDirection ==
    ASSUME NEW d, NEW l, Sound(d), ExportedLine(d, l) PROVE l[1] # "key-direction"
<1>1. CASE CredentialLine(d, l) BY <1>1, CredentialLineNames DEF ExportedFlags
<1>2. CASE ~CredentialLine(d, l)
  <2>1. l[1] \notin PlainNames BY <1>2, OtherExportedNames DEF ExportedLine
  <2> QED BY <2>1 DEF PlainNames
<1> QED BY <1>1, <1>2

LEMMA ExportReadBack ==
    ASSUME NEW d, Sound(d) PROVE ReadBack(d, Read(emit(from_nm_data(d))))
<1> DEFINE p == from_nm_data(d)
           t == emit(p)
<1>1. Regular(p) BY ExportRegular
<1>2. p.remotes = ExportRemotes(d) /\ p.routes = ExportRoutes(d)
  BY DEF from_nm_data, Profile
<1>3. \A l : l \in p.lines <=> ExportedLine(d, l) BY ExportLines
<1> HIDE DEF p
<1>4. /\ t \in Seq(Directives)
      /\ Lines(t) = Lines(p.remotes) \cup Lines(p.routes) \cup p.lines
  BY <1>1, EmitReads
<1> HIDE DEF t
<1>5. ReadsAs(t) BY <1>4, ReadGives
<1>6. ASSUME NEW l \in Lines(p.remotes) \cup Lines(p.routes)
      PROVE  l[1] \in RouteNames \cup {"remote"}
  <2>1. CASE l \in Lines(p.routes) BY <1>2, <2>1, ExportRouteNames
  <2>2. CASE l \in Lines(p.remotes)
    <3>1. p.remotes \in Seq(RemoteLines) BY <1>1 DEF Regular
    <3>2. PICK i \in DOMAIN p.remotes : l = p.remotes[i] BY <2>2 DEF Lines
    <3>3. l \in RemoteLines BY <3>1, <3>2, ElementOfSeq, LenProperties
    <3> QED BY <3>3 DEF RemoteLines
  <2> QED BY <2>1, <2>2
<1>7. \A l \in Lines(t) : ExportedLine(d, l) \/ l[1] \in RouteNames \cup {"remote"}
  BY <1>3, <1>4, <1>6
<1>8. \A l : ExportedLine(d, l) => l \in Lines(t) BY <1>3, <1>4
<1>9. \A l \in Lines(t) : Removed(l) = {}
  BY <1>7, ExportHarmless, ListsGiveNothing DEF Harmless
<1>10. ASSUME NEW x \in DOMAIN Read(t).data PROVE Returns(d, x, Read(t).data[x])
  <2>1. PICK l \in Lines(t) : Gives(l, x, Read(t).data[x]) BY <1>5 DEF ReadsAs
  <2>2. ExportedLine(d, l) BY <1>7, <2>1, ListsGiveNothing
  <2> QED BY <2>1, <2>2, ExportReturn
<1>11. ASSUME NEW x, NEW v, Returns(d, x, v) PROVE x \in DOMAIN Read(t).data
  <2>1. PICK l : ExportedLine(d, l) /\ Gives(l, x, v) BY <1>11, ExportReturn
  <2>2. l \in Lines(t) BY <1>8, <2>1
  <2> QED BY <1>5, <1>9, <2>1, <2>2 DEF ReadsAs
<1>12. Read(t).keydir = ""
  <2>1. \A l \in Lines(t) : l[1] # "key-direction" BY <1>7, NoKeyDirection DEF RouteNames
  <2> QED BY <1>5, <2>1 DEF ReadsAs
<1>13. ASSUME NEW x PROVE x \in Read(t).have <=> \E l : ExportedLine(d, l) /\ x \in Tells(l)
  <2>1. x \in Read(t).have <=> \E l \in Lines(t) : x \in Tells(l) BY <1>5 DEF ReadsAs
  <2> QED BY <2>1, <1>7, <1>8, ListsGiveNothing
<1>14. ReadBack(d, Read(t)) BY <1>10, <1>11, <1>12, <1>13 DEF ReadBack
<1> QED BY <1>14 DEF t, p

(* The credentials a connection of its type needs.                         *)
Credentialed(d) ==
    /\ Has(d, "connection-type") /\ d["connection-type"] \in Contypes
    /\ NeedsUserCert(d) => Has(d, "cert") /\ Has(d, "key")
    /\ IsStaticKey(d) => Has(d, "static-key")

LEMMA WhoTells ==
    ASSUME NEW d, NEW l, Sound(d), ExportedLine(d, l), NEW x \in Tells(l), x # "tls-auth"
    PROVE  CredentialLine(d, l)
<1> SUFFICES ASSUME ~CredentialLine(d, l) PROVE FALSE OBVIOUS
<1>1. l[1] \notin PlainNames BY OtherExportedNames DEF ExportedLine
<1>2. Tells(l) \subseteq {"tls-auth"} BY <1>1 DEF PlainNames, Tells
<1> QED BY <1>2

LEMMA FlagTells == \A f \in ExportedFlags \cup {"client"} : Tells(<<f>>) = {}
<1>1. ASSUME NEW f \in ExportedFlags \cup {"client"} PROVE Tells(<<f>>) = {}
  <2>1. <<f>>[1] = f BY LineArgs
  <2> QED BY <2>1 DEF Tells, ExportedFlags
<1> QED BY <1>1

LEMMA TellsIs ==
    ASSUME NEW b, b # "", NEW c
    PROVE  /\ Tells(<<"auth-user-pass">>) = {"auth-user-pass"}
           /\ \A k \in {"ca", "cert", "key"} : Tells(<<k, b>>) = {k}
           /\ Tells(<<"pkcs12", b>>) = {"ca", "cert", "key"}
           /\ Tells(<<"secret", b>>) = {"secret"}
           /\ Tells(<<"secret", b, c>>) = {"secret"}
<1>2. Tells(<<"auth-user-pass">>) = {"auth-user-pass"} BY LineArgs DEF Tells
<1>3. ASSUME NEW k \in {"ca", "cert", "key"} PROVE Tells(<<k, b>>) = {k}
  <2>1. <<k, b>>[1] = k /\ Arg0(<<k, b>>) = b BY LineArgs
  <2> QED BY <2>1 DEF Tells
<1>4. Tells(<<"pkcs12", b>>) = {"ca", "cert", "key"}
  <2>1. <<"pkcs12", b>>[1] = "pkcs12" /\ Arg0(<<"pkcs12", b>>) = b BY LineArgs
  <2> QED BY <2>1 DEF Tells
<1>5. Tells(<<"secret", b>>) = {"secret"}
  <2>1. <<"secret", b>>[1] = "secret" /\ Arg0(<<"secret", b>>) = b BY LineArgs
  <2> QED BY <2>1 DEF Tells
<1>6. Tells(<<"secret", b, c>>) = {"secret"}
  <2>1. <<"secret", b, c>>[1] = "secret" /\ Arg0(<<"secret", b, c>>) = b BY LineArgs3
  <2> QED BY <2>1 DEF Tells
<1> QED BY <1>2, <1>3, <1>4, <1>5, <1>6

(* The connection type is inferred from what the file shows, and it is the *)
(* one the connection had.                                                 *)
LEMMA ExportShows ==
    ASSUME NEW d, Sound(d), Credentialed(d), NEW acc, ReadBack(d, acc)
    PROVE  /\ "secret" \in acc.have <=> IsStaticKey(d)
           /\ "auth-user-pass" \in acc.have <=> IsPasswordLike(d)
           /\ "cert" \in acc.have <=> NeedsUserCert(d)
           /\ "key" \in acc.have <=> NeedsUserCert(d)
<1>1. \A k \in DOMAIN d : d[k] # "" BY DEF Sound
<1>2. \A x : x # "tls-auth" =>
        (x \in acc.have <=> \E l : CredentialLine(d, l) /\ x \in Tells(l))
  BY WhoTells DEF ReadBack, ExportedLine
<1>3. \A f \in ExportedFlags \cup {"client"} : Tells(<<f>>) = {}
  BY FlagTells
<1>4. ASSUME NEW k \in {"ca", "cert", "key"}, Has(d, k) PROVE Tells(<<k, d[k]>>) = {k}
  <2> DEFINE b == d[k]
  <2>1. b # "" BY <1>1, <1>4 DEF Has
  <2> HIDE DEF b
  <2>2. Tells(<<k, b>>) = {k} BY <2>1, TellsIs, Zenon
  <2> QED BY <2>2 DEF b
<1>5. Has(d, "cert") => Tells(<<"pkcs12", d["cert"]>>) = {"ca", "cert", "key"}
  BY <1>1, TellsIs DEF Has
<1>6. Has(d, "static-key") =>
        Tells(IF Has(d, "static-key-direction")
              THEN <<"secret", d["static-key"], d["static-key-direction"]>>
              ELSE <<"secret", d["static-key"]>>) = {"secret"}
  <2> DEFINE b == d["static-key"]
             c == d["static-key-direction"]
  <2>1. Has(d, "static-key") => b # "" BY <1>1 DEF Has
  <2> HIDE DEF b, c
  <2>2. Has(d, "static-key") => Tells(<<"secret", b>>) = {"secret"} BY <2>1, TellsIs, Zenon
  <2>3. Has(d, "static-key") => Tells(<<"secret", b, c>>) = {"secret"} BY <2>1, TellsIs, Zenon
  <2>4. Has(d, "static-key") =>
          Tells(IF Has(d, "static-key-direction") THEN <<"secret", b, c>> ELSE <<"secret", b>>)
            = {"secret"}
    BY <2>2, <2>3
  <2> QED BY <2>4 DEF b, c
<1>7. Tells(<<"auth-user-pass">>) = {"auth-user-pass"} BY TellsIs
<1>8. \A x : (\E l : CredentialLine(d, l) /\ x \in Tells(l)) <=>
        \/ \E f \in ExportedFlags : Yes(d, f) /\ x \in Tells(<<f>>)
        \/ IsTlsLike(d) /\ x \in Tells(<<"client">>)
        \/ Folded(d) /\ x \in Tells(<<"pkcs12", d["cert"]>>)
        \/ ~Folded(d) /\ IsTlsLike(d) /\ Has(d, "ca") /\ x \in Tells(<<"ca", d["ca"]>>)
        \/ ~Folded(d) /\ NeedsUserCert(d) /\ Has(d, "cert") /\ x \in Tells(<<"cert", d["cert"]>>)
        \/ ~Folded(d) /\ NeedsUserCert(d) /\ Has(d, "key") /\ x \in Tells(<<"key", d["key"]>>)
        \/ IsPasswordLike(d) /\ x \in Tells(<<"auth-user-pass">>)
        \/ /\ IsStaticKey(d) /\ Has(d, "static-key")
           /\ x \in Tells(IF Has(d, "static-key-direction")
                          THEN <<"secret", d["static-key"], d["static-key-direction"]>>
                          ELSE <<"secret", d["static-key"]>>)
  BY Zenon DEF CredentialLine
<1>9. /\ Folded(d) => Has(d, "cert") /\ NeedsUserCert(d)
      /\ IsStaticKey(d) => Has(d, "static-key")
      /\ NeedsUserCert(d) => Has(d, "cert") /\ Has(d, "key")
  BY DEF Folded, Credentialed
<1>10. \A x : (\E l : CredentialLine(d, l) /\ x \in Tells(l)) <=>
         \/ Folded(d) /\ x \in {"ca", "cert", "key"}
         \/ ~Folded(d) /\ IsTlsLike(d) /\ Has(d, "ca") /\ x = "ca"
         \/ ~Folded(d) /\ NeedsUserCert(d) /\ x \in {"cert", "key"}
         \/ IsPasswordLike(d) /\ x = "auth-user-pass"
         \/ IsStaticKey(d) /\ x = "secret"
  <2> SUFFICES ASSUME NEW x
               PROVE  (\E l : CredentialLine(d, l) /\ x \in Tells(l)) <=>
                        \/ Folded(d) /\ x \in {"ca", "cert", "key"}
                        \/ ~Folded(d) /\ IsTlsLike(d) /\ Has(d, "ca") /\ x = "ca"
                        \/ ~Folded(d) /\ NeedsUserCert(d) /\ x \in {"cert", "key"}
                        \/ IsPasswordLike(d) /\ x = "auth-user-pass"
                        \/ IsStaticKey(d) /\ x = "secret"
    OBVIOUS
  <2>1. /\ \A f \in ExportedFlags : x \notin Tells(<<f>>)
        /\ x \notin Tells(<<"client">>)
    BY <1>3
  <2> QED BY <1>4, <1>5, <1>6, <1>7, <1>8, <1>9, <2>1
<1> QED BY <1>2, <1>9, <1>10

LEMMA ExportType ==
    ASSUME NEW d, Sound(d), Credentialed(d), NEW acc, ReadBack(d, acc)
    PROVE  InferContype(acc.have) = d["connection-type"]
<1>1. /\ "secret" \in acc.have <=> IsStaticKey(d)
      /\ "auth-user-pass" \in acc.have <=> IsPasswordLike(d)
      /\ "cert" \in acc.have <=> NeedsUserCert(d)
      /\ "key" \in acc.have <=> NeedsUserCert(d)
  BY ExportShows
<1>2. InferContype(acc.have) = IF IsStaticKey(d) THEN "static-key"
                               ELSE IF NeedsUserCert(d) /\ IsPasswordLike(d) THEN "password-tls"
                               ELSE IF NeedsUserCert(d) THEN "tls"
                               ELSE IF IsPasswordLike(d) THEN "password" ELSE "tls"
  BY <1>1 DEF InferContype
<1>3. Has(d, "connection-type") /\ d["connection-type"] \in Contypes BY DEF Credentialed
<1> QED BY <1>2, <1>3 DEF Contypes, IsStaticKey, NeedsUserCert, IsPasswordLike, Is, Has

(* What the imported dictionary n has of d.                                *)
Reimported(n, d) ==
    /\ \A x : x \notin {"remote", "nm-openvpn3-extra-routes", "connection-type"} =>
         /\ Has(n, x) => Returns(d, x, n[x])
         /\ \A v : Returns(d, x, v) => Has(n, x)
    /\ Is(n, "connection-type", d["connection-type"])

LEMMA ReimportIs ==
    ASSUME NEW d, Sound(d), Credentialed(d)
    PROVE  Reimported(as_nm_data(emit(from_nm_data(d))), d)
<1> DEFINE t == emit(from_nm_data(d))
           n == as_nm_data(t)
<1>1. Legible(t) BY ExportLegible
<1>2. ReadBack(d, Read(t)) BY ExportReadBack
<1> HIDE DEF t
<1>3. ImportsAs(n, t) BY <1>1, ImportIs
<1> HIDE DEF n
<1>4. Agrees(n, Read(t).data, {"remote", "nm-openvpn3-extra-routes", "connection-type"})
  BY <1>2, <1>3 DEF ImportsAs, ReadBack
<1>5. Is(n, "connection-type", d["connection-type"]) BY <1>2, <1>3, ExportType DEF ImportsAs
<1>6. ASSUME NEW x, x \notin {"remote", "nm-openvpn3-extra-routes", "connection-type"}
      PROVE  /\ Has(n, x) => Returns(d, x, n[x])
             /\ \A v : Returns(d, x, v) => Has(n, x)
  BY <1>2, <1>4, <1>6 DEF Agrees, ReadBack, Has
<1>7. Reimported(n, d) BY <1>5, <1>6 DEF Reimported
<1> QED BY <1>7 DEF n, t

-----------------------------------------------------------------------------
(* The re-imported dictionary is exported line by line as d was, but for   *)
(* the directives an import leaves out.                                    *)
FileKeys == ExportedFlags \cup {"ca", "cert", "key", "static-key", "static-key-direction"}

OptionKeys == {"comp-lzo", "compress", "float", "mssfix", "local-ip", "remote-ip"}

TlsItemKeys ==
    TlsKeys \cup {"verify-x509-name", "ta", "ta-dir", "tls-version-min",
                  "tls-version-min-or-highest", "crl-verify-file", "crl-verify-dir"}

TailKeys == {"dev", "proto-tcp", "dev-type", "proxy-type", "proxy-server", "proxy-port"}

LEMMA ReturnKeys ==
    ASSUME NEW d, NEW x, NEW v
    PROVE  /\ x \in FileKeys => (Returns(d, x, v) <=> FileReturns(d, x, v))
           /\ x \in PairKeys => (Returns(d, x, v) <=> PairReturns(d, x, v))
           /\ x \in OptionKeys => (Returns(d, x, v) <=> OptionReturns(d, x, v))
           /\ x \in TlsItemKeys => (Returns(d, x, v) <=> TlsReturns(d, x, v))
           /\ x \in TailKeys => (Returns(d, x, v) <=> TailReturns(d, x, v))
<1>1. FileReturns(d, x, v) => x \in FileKeys BY DEF FileReturns, FileKeys
<1>2. PairReturns(d, x, v) => x \in PairKeys BY DEF PairReturns
<1>3. OptionReturns(d, x, v) => x \in OptionKeys BY DEF OptionReturns, OptionKeys
<1>4. TlsReturns(d, x, v) => x \in TlsItemKeys BY DEF TlsReturns, TlsItemKeys
<1>5. TailReturns(d, x, v) => x \in TailKeys BY DEF TailReturns, TailKeys
<1>6. /\ x \in FileKeys => x \notin PairKeys \cup OptionKeys \cup TlsItemKeys \cup TailKeys
      /\ x \in PairKeys => x \notin OptionKeys \cup TlsItemKeys \cup TailKeys
      /\ x \in OptionKeys => x \notin TlsItemKeys \cup TailKeys
      /\ x \in TlsItemKeys => x \notin TailKeys
  BY DEF FileKeys, ExportedFlags, PairKeys, OptionKeys, TlsItemKeys, TlsKeys, TailKeys
<1> QED BY <1>1, <1>2, <1>3, <1>4, <1>5, <1>6, Zenon DEF Returns


SameItem(n, d, k) == (Has(n, k) <=> Has(d, k)) /\ (Has(d, k) => n[k] = d[k])

LEMMA ReimportedBy ==
    ASSUME NEW n, NEW d, Reimported(n, d), NEW x
    PROVE  /\ x \in FileKeys => /\ Has(n, x) => FileReturns(d, x, n[x])
                                /\ \A v : FileReturns(d, x, v) => Has(n, x)
           /\ x \in PairKeys => /\ Has(n, x) => PairReturns(d, x, n[x])
                                /\ \A v : PairReturns(d, x, v) => Has(n, x)
           /\ x \in OptionKeys => /\ Has(n, x) => OptionReturns(d, x, n[x])
                                  /\ \A v : OptionReturns(d, x, v) => Has(n, x)
           /\ x \in TlsItemKeys => /\ Has(n, x) => TlsReturns(d, x, n[x])
                                   /\ \A v : TlsReturns(d, x, v) => Has(n, x)
           /\ x \in TailKeys => /\ Has(n, x) => TailReturns(d, x, n[x])
                                /\ \A v : TailReturns(d, x, v) => Has(n, x)
<1>1. x \in FileKeys \cup PairKeys \cup OptionKeys \cup TlsItemKeys \cup TailKeys
        => x \notin {"remote", "nm-openvpn3-extra-routes", "connection-type"}
  BY DEF FileKeys, ExportedFlags, PairKeys, OptionKeys, TlsItemKeys, TlsKeys, TailKeys
<1>2. x \in FileKeys \cup PairKeys \cup OptionKeys \cup TlsItemKeys \cup TailKeys
        => /\ Has(n, x) => Returns(d, x, n[x])
           /\ \A v : Returns(d, x, v) => Has(n, x)
  BY <1>1 DEF Reimported
<1> QED BY <1>2, ReturnKeys, Zenon

LEMMA TypeAgain ==
    ASSUME NEW n, NEW d, Reimported(n, d), Credentialed(d)
    PROVE  /\ IsTlsLike(n) <=> IsTlsLike(d)
           /\ IsPasswordLike(n) <=> IsPasswordLike(d)
           /\ NeedsUserCert(n) <=> NeedsUserCert(d)
           /\ IsStaticKey(n) <=> IsStaticKey(d)
<1>1. Has(n, "connection-type") /\ n["connection-type"] = d["connection-type"]
      /\ Has(d, "connection-type")
  BY DEF Reimported, Credentialed, Is, Has
<1> QED BY <1>1 DEF IsTlsLike, IsPasswordLike, NeedsUserCert, IsStaticKey, Is, Has

LEMMA PairsAgain ==
    ASSUME NEW n, NEW d, Reimported(n, d), NEW k \in PairKeys PROVE SameItem(n, d, k)
<1>1. Has(n, k) => PairReturns(d, k, n[k]) BY ReimportedBy
<1>2. \A v : PairReturns(d, k, v) => Has(n, k) BY ReimportedBy
<1> QED BY <1>1, <1>2, Zenon DEF PairReturns, SameItem

LEMMA FilesAgain ==
    ASSUME NEW n, NEW d, Reimported(n, d), Credentialed(d), NEW l
    PROVE  CredentialLine(n, l) <=> CredentialLine(d, l)
<1>1. /\ IsTlsLike(n) <=> IsTlsLike(d)
      /\ IsPasswordLike(n) <=> IsPasswordLike(d)
      /\ NeedsUserCert(n) <=> NeedsUserCert(d)
      /\ IsStaticKey(n) <=> IsStaticKey(d)
      /\ NeedsUserCert(d) => IsTlsLike(d)
  BY TypeAgain DEF NeedsUserCert, IsTlsLike
<1>2. \A x \in FileKeys : /\ Has(n, x) => FileReturns(d, x, n[x])
                          /\ \A v : FileReturns(d, x, v) => Has(n, x)
  BY ReimportedBy, Zenon
<1>3. ASSUME NEW f \in ExportedFlags PROVE Yes(n, f) <=> Yes(d, f)
  <2>1. f \in FileKeys BY DEF FileKeys
  <2>2. \A v : FileReturns(d, f, v) <=> Yes(d, f) /\ v = "yes"
    BY DEF FileReturns, ExportedFlags
  <2> QED BY <1>2, <2>1, <2>2 DEF Yes, Is, Has
<1>4. {"ca", "cert", "key", "static-key", "static-key-direction"} \subseteq FileKeys
  BY DEF FileKeys
<1>5. /\ \A v : FileReturns(d, "ca", v) <=>
           \/ Folded(d) /\ v = d["cert"]
           \/ ~Folded(d) /\ IsTlsLike(d) /\ Has(d, "ca") /\ v = d["ca"]
      /\ \A v : FileReturns(d, "cert", v) <=>
           \/ Folded(d) /\ v = d["cert"]
           \/ ~Folded(d) /\ NeedsUserCert(d) /\ Has(d, "cert") /\ v = d["cert"]
      /\ \A v : FileReturns(d, "key", v) <=>
           \/ Folded(d) /\ v = d["cert"]
           \/ ~Folded(d) /\ NeedsUserCert(d) /\ Has(d, "key") /\ v = d["key"]
      /\ \A v : FileReturns(d, "static-key", v) <=>
           IsStaticKey(d) /\ Has(d, "static-key") /\ v = d["static-key"]
      /\ \A v : FileReturns(d, "static-key-direction", v) <=>
           /\ IsStaticKey(d) /\ Has(d, "static-key") /\ Has(d, "static-key-direction")
           /\ v = d["static-key-direction"]
  BY DEF FileReturns, ExportedFlags
<1>6. Folded(d) => /\ Folded(n) /\ n["cert"] = d["cert"]
  <2> SUFFICES ASSUME Folded(d) PROVE Folded(n) /\ n["cert"] = d["cert"] OBVIOUS
  <2>1. \A k \in {"ca", "cert", "key"} : Has(n, k) /\ n[k] = d["cert"] BY <1>2, <1>4, <1>5
  <2> QED BY <1>1, <2>1 DEF Folded
<1>7. ~Folded(d) =>
        /\ ~Folded(n)
        /\ IsTlsLike(d) => SameItem(n, d, "ca")
        /\ NeedsUserCert(d) => SameItem(n, d, "cert") /\ SameItem(n, d, "key")
  <2> SUFFICES ASSUME ~Folded(d)
               PROVE  /\ ~Folded(n)
                      /\ IsTlsLike(d) => SameItem(n, d, "ca")
                      /\ NeedsUserCert(d) => SameItem(n, d, "cert") /\ SameItem(n, d, "key")
    OBVIOUS
  <2>1. IsTlsLike(d) => SameItem(n, d, "ca") BY <1>2, <1>4, <1>5 DEF SameItem
  <2>2. NeedsUserCert(d) => SameItem(n, d, "cert") BY <1>2, <1>4, <1>5 DEF SameItem
  <2>3. NeedsUserCert(d) => SameItem(n, d, "key") BY <1>2, <1>4, <1>5 DEF SameItem
  <2>4. ~Folded(n) BY <1>1, <2>1, <2>2, <2>3 DEF Folded, SameItem
  <2> QED BY <2>1, <2>2, <2>3, <2>4
<1>8. IsStaticKey(d) => /\ SameItem(n, d, "static-key")
                        /\ Has(d, "static-key") => SameItem(n, d, "static-key-direction")
  BY <1>2, <1>4, <1>5 DEF SameItem
<1>9. CASE Folded(d) BY <1>1, <1>3, <1>6, <1>8, <1>9 DEF CredentialLine, SameItem
<1>10. CASE ~Folded(d) BY <1>1, <1>3, <1>7, <1>8, <1>10 DEF CredentialLine, SameItem
<1> QED BY <1>9, <1>10

LEMMA OptionsAgain ==
    ASSUME NEW n, NEW d, Reimported(n, d), NEW l
    PROVE  TunnelLine(n, l) <=> TunnelLine(d, l)
<1>1. \A x \in OptionKeys : /\ Has(n, x) => OptionReturns(d, x, n[x])
                            /\ \A v : OptionReturns(d, x, v) => Has(n, x)
  BY ReimportedBy, Zenon
<1>2. Compressing(n) <=> Compressing(d)
  <2>1. "allow-compression" \in PairKeys BY DEF PairKeys
  <2>2. SameItem(n, d, "allow-compression") BY <2>1, PairsAgain
  <2> QED BY <2>2 DEF SameItem, Compressing, Is, Has
<1>3. OptionKeys = {"comp-lzo", "compress", "float", "mssfix", "local-ip", "remote-ip"}
  BY DEF OptionKeys
<1>4. /\ \A v : OptionReturns(d, "comp-lzo", v)
                  <=> Compressing(d) /\ Has(d, "comp-lzo") /\ v = Lzo(d["comp-lzo"])
      /\ \A v : OptionReturns(d, "compress", v)
                  <=> Compressing(d) /\ Has(d, "compress") /\ v = d["compress"]
      /\ \A v : OptionReturns(d, "float", v) <=> Yes(d, "float") /\ v = "yes"
      /\ \A v : OptionReturns(d, "mssfix", v) <=> Has(d, "mssfix") /\ v = d["mssfix"]
      /\ \A v : OptionReturns(d, "local-ip", v)
                  <=> Has(d, "local-ip") /\ Has(d, "remote-ip") /\ v = d["local-ip"]
      /\ \A v : OptionReturns(d, "remote-ip", v)
                  <=> Has(d, "local-ip") /\ Has(d, "remote-ip") /\ v = d["remote-ip"]
  BY DEF OptionReturns
<1>5. Compressing(d) => SameItem(n, d, "compress") BY <1>1, <1>3, <1>4 DEF SameItem
<1>6. SameItem(n, d, "mssfix") BY <1>1, <1>3, <1>4 DEF SameItem
<1>7. Yes(n, "float") <=> Yes(d, "float") BY <1>1, <1>3, <1>4 DEF Yes, Is, Has
<1>8. /\ Has(n, "local-ip") /\ Has(n, "remote-ip") <=> Has(d, "local-ip") /\ Has(d, "remote-ip")
      /\ Has(d, "local-ip") /\ Has(d, "remote-ip")
           => n["local-ip"] = d["local-ip"] /\ n["remote-ip"] = d["remote-ip"]
  BY <1>1, <1>3, <1>4
<1>9. Compressing(d) => /\ Has(n, "comp-lzo") <=> Has(d, "comp-lzo")
                        /\ Has(d, "comp-lzo") => n["comp-lzo"] = Lzo(d["comp-lzo"])
  BY <1>1, <1>3, <1>4
<1>10. \A v : (IF Lzo(v) = "no-by-default" THEN "no" ELSE Lzo(v))
                = IF v = "no-by-default" THEN "no" ELSE v
  BY DEF Lzo
<1>11. \A k : Yes(n, k) <=> Has(n, k) /\ n[k] = "yes" BY DEF Yes, Is, Has
<1>12. \A k : Yes(d, k) <=> Has(d, k) /\ d[k] = "yes" BY DEF Yes, Is, Has
<1> QED BY <1>2, <1>5, <1>6, <1>7, <1>8, <1>9, <1>10, <1>11, <1>12 DEF TunnelLine, SameItem

LEMMA TlsAgain ==
    ASSUME NEW n, NEW d, Reimported(n, d), Credentialed(d), Sound(d), NEW l
    PROVE  TlsLine(n, l) <=> TlsLine(d, l)
<1>1. IsTlsLike(n) <=> IsTlsLike(d) BY TypeAgain
<1>2. CASE ~IsTlsLike(d) BY <1>1, <1>2 DEF TlsLine
<1>3. CASE IsTlsLike(d)
  <2>1. \A x \in TlsItemKeys : /\ Has(n, x) => TlsReturns(d, x, n[x])
                               /\ \A v : TlsReturns(d, x, v) => Has(n, x)
    BY ReimportedBy, Zenon
  <2>2. {"verify-x509-name", "ta", "ta-dir", "tls-version-min", "tls-version-min-or-highest",
         "crl-verify-file", "crl-verify-dir"} \subseteq TlsItemKeys /\ TlsKeys \subseteq TlsItemKeys
    BY DEF TlsItemKeys
  <2>3. /\ \A v : TlsReturns(d, "verify-x509-name", v) <=>
             /\ Has(d, "verify-x509-name")
             /\ v = Joined(X509Names, X509Names[d["verify-x509-name"]])
        /\ \A v : TlsReturns(d, "ta", v) <=> Has(d, "ta") /\ v = d["ta"]
        /\ \A v : TlsReturns(d, "ta-dir", v) <=> Has(d, "ta") /\ Has(d, "ta-dir") /\ v = d["ta-dir"]
        /\ \A v : TlsReturns(d, "tls-version-min", v)
                    <=> Has(d, "tls-version-min") /\ v = d["tls-version-min"]
        /\ \A v : TlsReturns(d, "tls-version-min-or-highest", v)
                    <=> /\ Has(d, "tls-version-min") /\ Yes(d, "tls-version-min-or-highest")
                        /\ v = "yes"
        /\ \A v : TlsReturns(d, "crl-verify-file", v)
                    <=> Has(d, "crl-verify-file") /\ v = d["crl-verify-file"]
        /\ \A v : TlsReturns(d, "crl-verify-dir", v)
                    <=> /\ ~Has(d, "crl-verify-file") /\ Has(d, "crl-verify-dir")
                        /\ v = d["crl-verify-dir"]
    BY <1>3 DEF TlsReturns, TlsKeys
  <2>4. ASSUME NEW k \in TlsKeys PROVE SameItem(n, d, k)
    <3>1. \A v : TlsReturns(d, k, v) <=> Has(d, k) /\ v = d[k]
      BY <1>3 DEF TlsReturns, TlsKeys
    <3> QED BY <2>1, <2>2, <3>1 DEF SameItem
  <2>5. PairLine(n, l, TlsPairs) <=> PairLine(d, l, TlsPairs)
    <3>1. \A p \in TlsPairs : p[1] \in TlsKeys BY DEF TlsPairs, TlsKeys
    <3> QED BY <2>4, <3>1 DEF PairLine, SameItem
  <2>6. /\ Has(n, "verify-x509-name") <=> Has(d, "verify-x509-name")
        /\ Has(d, "verify-x509-name") => BuildX509(n["verify-x509-name"]) = BuildX509(d["verify-x509-name"])
    <3>1. /\ Has(n, "verify-x509-name") <=> Has(d, "verify-x509-name")
          /\ Has(d, "verify-x509-name")
               => n["verify-x509-name"] = Joined(X509Names, X509Names[d["verify-x509-name"]])
      BY <2>1, <2>2, <2>3
    <3> SUFFICES ASSUME Has(d, "verify-x509-name")
                 PROVE  BuildX509(n["verify-x509-name"]) = BuildX509(d["verify-x509-name"])
      BY <3>1
    <3> DEFINE w == d["verify-x509-name"]
               u == n["verify-x509-name"]
    <3>2. w \in DOMAIN X509Names BY DEF Sound
    <3>3. u = Joined(X509Names, X509Names[w]) BY <3>1
    <3> HIDE DEF u, w
    <3>4. Spelled(X509Names, X509Names[w]) BY <3>2 DEF Spelled
    <3>5. X509Names[u] = X509Names[w] BY <3>3, <3>4, SpelledBy, Zenon
    <3>6. BuildX509(u) = BuildX509(w) BY <3>5 DEF BuildX509
    <3> QED BY <3>6 DEF u, w
  <2>7. SameItem(n, d, "ta") /\ (Has(d, "ta") => SameItem(n, d, "ta-dir"))
    BY <2>1, <2>2, <2>3 DEF SameItem
  <2>8. /\ SameItem(n, d, "tls-version-min")
        /\ Has(d, "tls-version-min")
             => (Yes(n, "tls-version-min-or-highest") <=> Yes(d, "tls-version-min-or-highest"))
    BY <2>1, <2>2, <2>3 DEF SameItem, Yes, Is, Has
  <2>9. /\ SameItem(n, d, "crl-verify-file")
        /\ ~Has(d, "crl-verify-file") => SameItem(n, d, "crl-verify-dir")
    BY <2>1, <2>2, <2>3 DEF SameItem
  <2> QED BY <1>1, <1>3, <2>5, <2>6, <2>7, <2>8, <2>9 DEF TlsLine, SameItem
<1> QED BY <1>2, <1>3

Retried == {"http-proxy-retry", "socks-proxy-retry"}

LEMMA TailAgain ==
    ASSUME NEW n, NEW d, Reimported(n, d), NEW l, l[1] \notin Retried
    PROVE  TailLine(n, l) <=> TailLine(d, l)
<1>1. \A x \in TailKeys : /\ Has(n, x) => TailReturns(d, x, n[x])
                          /\ \A v : TailReturns(d, x, v) => Has(n, x)
  BY ReimportedBy, Zenon
<1>2. TailKeys = {"dev", "proto-tcp", "dev-type", "proxy-type", "proxy-server", "proxy-port"}
  BY DEF TailKeys
<1> DEFINE proxied == /\ Has(d, "proxy-server")
                      /\ Is(d, "proxy-type", "http") \/ Is(d, "proxy-type", "socks")
<1>3. /\ \A v : TailReturns(d, "dev", v) <=> v = Device(d)
      /\ \A v : TailReturns(d, "proto-tcp", v) <=> Yes(d, "proto-tcp") /\ v = "yes"
      /\ \A v : TailReturns(d, "dev-type", v) <=> Has(d, "dev-type") /\ v = d["dev-type"]
      /\ \A v : TailReturns(d, "proxy-type", v) <=> proxied /\ v = d["proxy-type"]
      /\ \A v : TailReturns(d, "proxy-server", v) <=> proxied /\ v = d["proxy-server"]
      /\ \A v : TailReturns(d, "proxy-port", v) <=> proxied /\ v = Port(d)
  BY DEF TailReturns
<1>4. Device(n) = Device(d) BY <1>1, <1>2, <1>3 DEF Device
<1>5. Yes(n, "proto-tcp") <=> Yes(d, "proto-tcp") BY <1>1, <1>2, <1>3 DEF Yes, Is, Has
<1>6. SameItem(n, d, "dev-type") BY <1>1, <1>2, <1>3 DEF SameItem
<1>7. /\ Has(n, "proxy-server") <=> proxied
      /\ proxied => /\ n["proxy-server"] = d["proxy-server"]
                    /\ Is(n, "proxy-type", d["proxy-type"])
                    /\ Has(n, "proxy-port") /\ n["proxy-port"] = Port(d)
  BY <1>1, <1>2, <1>3 DEF Is, Has
<1>8. /\ Has(n, "proxy-server") /\ Is(n, "proxy-type", "http")
           <=> Has(d, "proxy-server") /\ Is(d, "proxy-type", "http")
      /\ Has(n, "proxy-server") /\ Is(n, "proxy-type", "socks")
           <=> Has(d, "proxy-server") /\ Is(d, "proxy-type", "socks")
  BY <1>7 DEF Is
<1>9. /\ Has(d, "proxy-server") /\ Is(d, "proxy-type", "http") =>
           /\ n["proxy-server"] = d["proxy-server"]
           /\ (IF Has(n, "proxy-port") THEN n["proxy-port"] ELSE "8080")
                = IF Has(d, "proxy-port") THEN d["proxy-port"] ELSE "8080"
      /\ Has(d, "proxy-server") /\ Is(d, "proxy-type", "socks") =>
           /\ n["proxy-server"] = d["proxy-server"]
           /\ (IF Has(n, "proxy-port") THEN n["proxy-port"] ELSE "1080")
                = IF Has(d, "proxy-port") THEN d["proxy-port"] ELSE "1080"
  BY <1>7 DEF Port, Is
<1>10. l # <<"http-proxy-retry">> /\ l # <<"socks-proxy-retry">>
  BY LineArgs DEF Retried
<1> HIDE DEF proxied
<1> QED BY <1>4, <1>5, <1>6, <1>8, <1>9, <1>10 DEF TailLine, SameItem

NotImported == {"max-routes", "mtu-disc"} \cup Retried

LEMMA LinesAgain ==
    ASSUME NEW n, NEW d, Reimported(n, d), Credentialed(d), Sound(d), NEW l,
           l[1] \notin NotImported
    PROVE  ExportedLine(n, l) <=> ExportedLine(d, l)
<1>1. PairLine(n, l, pairs_str) <=> PairLine(d, l, pairs_str)
  <2>1. \A p \in pairs_str : p[1] \in PairKeys \/ p[2] \in {"max-routes", "mtu-disc"}
    BY DEF pairs_str, PairKeys
  <2>2. \A p, b : <<p[2], b>>[1] = p[2] OBVIOUS
  <2>3. \A p \in pairs_str : p[1] \notin PairKeys => \A b : l # <<p[2], b>>
    BY <2>1, <2>2 DEF NotImported
  <2>4. \A p \in pairs_str : p[1] \in PairKeys => SameItem(n, d, p[1]) BY PairsAgain
  <2> QED BY <2>3, <2>4 DEF PairLine, SameItem
<1>2. l[1] \notin Retried BY DEF NotImported
<1> QED BY <1>1, <1>2, FilesAgain, OptionsAgain, TlsAgain, TailAgain DEF ExportedLine

LEMMA RemotesAgain ==
    ASSUME NEW d, Sound(d)
    PROVE  ExportRemotes(as_nm_data(emit(from_nm_data(d)))) = ExportRemotes(d)
<1> DEFINE p == from_nm_data(d)
           t == emit(p)
           n == as_nm_data(t)
           r == ExportRemotes(d)
<1>1. Regular(p) /\ p.remotes = r BY ExportRegular DEF from_nm_data, Profile
<1>2. Legible(t) BY ExportLegible
<1>3. \A i \in DOMAIN r : \E host, port, proto : r[i] = RemoteLine(host, port, proto)
  <2>1. CASE ~Has(d, "remote") BY <2>1 DEF ExportRemotes
  <2>2. CASE Has(d, "remote")
    <3> DEFINE es == Remotes[d["remote"]]
    <3>1. r = [i \in DOMAIN es |-> BuildRemote(es[i])] BY <2>2, ExportRemotesType
    <3> HIDE DEF r, es
    <3>2. ASSUME NEW i \in DOMAIN r
          PROVE  \E host, port, proto : r[i] = RemoteLine(host, port, proto)
      <4>1. r[i] = BuildRemote(es[i]) BY <3>1
      <4>2. BuildRemote(es[i]) = RemoteLine(es[i].host, parse_remote(es[i]).port,
                                            parse_remote(es[i]).proto)
        BY BuildRemoteIs
      <4> QED BY <4>1, <4>2, Zenon
    <3> QED BY <3>2 DEF r
  <2> QED BY <2>1, <2>2
<1>4. r \in Seq(RemoteLines) BY ExportRemotesType
<1> HIDE DEF p, r
<1>5. Read(t).remotes = [i \in DOMAIN r |-> RemoteEntry(r[i])] BY <1>1, EmitReads
<1> HIDE DEF t
<1>6. ImportsAs(n, t) /\ Sound(n) BY <1>2, ImportIs, ImportSound
<1> HIDE DEF n
<1>7. \A i \in DOMAIN r : BuildRemote(RemoteEntry(r[i])) = r[i] BY <1>3, RemoteAgain
<1>8. r = [i \in DOMAIN r |-> r[i]] BY <1>4, SeqListed DEF Listed
<1>9. CASE Has(n, "remote")
  <2>1. Remotes[n["remote"]] = Read(t).remotes BY <1>6, <1>9 DEF ImportsAs
  <2>2. ExportRemotes(n) = [i \in DOMAIN Remotes[n["remote"]] |->
                              BuildRemote(Remotes[n["remote"]][i])]
    BY <1>6, <1>9, ExportRemotesType
  <2>3. ExportRemotes(n) = [i \in DOMAIN r |-> BuildRemote(RemoteEntry(r[i]))]
    BY <1>5, <2>1, <2>2
  <2>4. ExportRemotes(n) = r BY <1>7, <1>8, <2>3
  <2> QED BY <2>4 DEF n, t, p, r
<1>10. CASE ~Has(n, "remote")
  <2>1. Read(t).remotes = <<>> BY <1>6, <1>10 DEF ImportsAs
  <2>2. DOMAIN r = {} BY <1>5, <2>1
  <2>3. r = <<>> BY <1>4, <2>2, SeqListed
  <2>4. ExportRemotes(n) = r BY <1>10, <2>3 DEF ExportRemotes
  <2> QED BY <2>4 DEF n, t, p, r
<1> QED BY <1>9, <1>10

(* The `route' lines of a profile, in order.                               *)
Routed(h) == InOrder(Named(h, "route"))

LEMMA RoutesAgain ==
    ASSUME NEW d, Sound(d)
    PROVE  Routed(ExportRoutes(as_nm_data(emit(from_nm_data(d))))) = Routed(ExportRoutes(d))
<1> DEFINE p == from_nm_data(d)
           t == emit(p)
           n == as_nm_data(t)
           h == ExportRoutes(d)
           R == Routed(h)
           D == {l \in RouteDirectives : l[1] = "route"}
<1>1. Regular(p) /\ p.routes = h BY ExportRegular DEF from_nm_data, Profile
<1>2. Legible(t) BY ExportLegible
<1>3. Listed(h, RouteDirectives) BY ExportRoutesListed
<1> HIDE DEF p, h
<1>4. Read(t).routes = R BY <1>1, EmitReads DEF Routed
<1> HIDE DEF t
<1>5. ImportsAs(n, t) BY <1>2, ImportIs
<1> HIDE DEF n
<1>6. R \in Seq(D)
  <2> DEFINE g == Named(h, "route")
  <2>1. Listed(g, D)
    <3>1. g = [i \in {j \in DOMAIN h : h[j][1] = "route"} |-> h[i]] BY DEF Named
    <3>2. DOMAIN g \subseteq DOMAIN h BY <3>1
    <3>3. IsFiniteSet(DOMAIN g) BY <1>3, <3>2, FS_Subset DEF Listed
    <3> HIDE DEF g
    <3>4. \A i \in DOMAIN g : g[i] \in D BY <1>3, <3>1 DEF Listed
    <3> QED BY <1>3, <3>1, <3>2, <3>3, <3>4 DEF Listed
  <2> HIDE DEF D, g
  <2>2. InOrder(g) \in Seq(D) BY <2>1, InOrderIs
  <2> QED BY <2>2 DEF g, Routed
<1> HIDE DEF R
<1>7. /\ \A i \in DOMAIN R : R[i] # <<>> /\ R[i][1] = "route"
      /\ R = [i \in DOMAIN R |-> R[i]]
      /\ R = <<>> <=> DOMAIN R = {}
  <2>1. \A i \in DOMAIN R : R[i] \in D BY <1>6, SeqListed DEF Listed
  <2>2. R = [i \in DOMAIN R |-> R[i]] /\ (R = <<>> <=> DOMAIN R = {})
    BY <1>6, SeqListed DEF Listed
  <2> QED BY <2>1, <2>2 DEF RouteDirectives, Directives
<1>8. InOrder(R) = R BY <1>6, InOrderSeq
<1>9. ExportRoutes(n) = R
  <2>1. CASE Has(n, "nm-openvpn3-extra-routes")
    <3> DEFINE all == PlainLines(R)
               S == {j \in DOMAIN all : ExportSafeRoute(all[j])}
    <3>1. RouteLines[n["nm-openvpn3-extra-routes"]] = all BY <1>4, <1>5, <2>1 DEF ImportsAs
    <3>2. ExportRoutes(n) = [i \in S |-> all[i].words] BY <2>1, <3>1 DEF ExportRoutes
    <3>3. /\ DOMAIN all = DOMAIN R
          /\ \A i \in DOMAIN R : all[i] = [control |-> FALSE, words |-> R[i], plain |-> TRUE]
      BY DEF PlainLines
    <3> HIDE DEF all
    <3>4. \A i \in DOMAIN R : /\ all[i].words = R[i] /\ all[i].plain = TRUE
                              /\ all[i].control = FALSE
      BY <3>3
    <3>5. \A i \in DOMAIN R : ExportSafeRoute(all[i]) BY <1>7, <3>4 DEF ExportSafeRoute
    <3>6. S = DOMAIN R BY <3>3, <3>5
    <3>7. ExportRoutes(n) = [i \in DOMAIN R |-> R[i]] BY <3>2, <3>4, <3>6
    <3> QED BY <1>7, <3>7
  <2>2. CASE ~Has(n, "nm-openvpn3-extra-routes")
    <3>1. R = <<>> BY <1>4, <1>5, <2>2 DEF ImportsAs
    <3> QED BY <2>2, <3>1 DEF ExportRoutes
  <2> QED BY <2>1, <2>2
<1>10. Named(R, "route") = R BY <1>7 DEF Named
<1>11. Routed(ExportRoutes(n)) = R BY <1>8, <1>9, <1>10 DEF Routed
<1> QED BY <1>11 DEF n, t, p, R, h

(* The re-imported connection is exported as the one before it was: the    *)
(* same servers and `route' lines in the same order, the same lines but    *)
(* for the four directives as_nm_data has no key for.                      *)
SameTunnel(p, q) ==
    /\ p.remotes = q.remotes
    /\ Routed(p.routes) = Routed(q.routes)
    /\ \A l : l[1] \notin NotImported => (l \in p.lines <=> l \in q.lines)

(* Exporting a connection whose credentials are complete (from_nm_data,    *)
(* emit), reading the file back (as_nm_data) and exporting it again gives  *)
(* the same tunnel, for every dictionary of any size.                      *)
THEOREM ReimportSameTunnel ==
    ASSUME NEW d, Sound(d), Credentialed(d)
    PROVE  SameTunnel(from_nm_data(as_nm_data(emit(from_nm_data(d)))), from_nm_data(d))
<1> DEFINE n == as_nm_data(emit(from_nm_data(d)))
<1>1. Reimported(n, d) BY ReimportIs
<1>2. ExportRemotes(n) = ExportRemotes(d) BY RemotesAgain
<1>3. Routed(ExportRoutes(n)) = Routed(ExportRoutes(d)) BY RoutesAgain
<1> HIDE DEF n
<1>4. \A l : l[1] \notin NotImported => (ExportedLine(n, l) <=> ExportedLine(d, l))
  BY <1>1, LinesAgain
<1>5. \A l : l[1] \notin NotImported
               => (l \in from_nm_data(n).lines <=> l \in from_nm_data(d).lines)
  BY <1>4, ExportLines
<1>6. /\ from_nm_data(n).remotes = ExportRemotes(n) /\ from_nm_data(d).remotes = ExportRemotes(d)
      /\ from_nm_data(n).routes = ExportRoutes(n) /\ from_nm_data(d).routes = ExportRoutes(d)
  BY DEF from_nm_data, Profile
<1>7. SameTunnel(from_nm_data(n), from_nm_data(d)) BY <1>2, <1>3, <1>5, <1>6 DEF SameTunnel
<1> QED BY <1>7 DEF n
=====================
