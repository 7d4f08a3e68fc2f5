------------------------------ MODULE FoldTheorems ------------------------------
(***************************************************************************)
(* What folding a sequence from the left comes to, for any operator: an    *)
(* empty sequence folds to the base, and one more element applies the      *)
(* operator once more.  The modules that fold take an instance for each    *)
(* operator they fold with.                                                *)
(***************************************************************************)
EXTENDS Naturals, Sequences, TLAPS

CONSTANT op(_, _)

Greatest(S) == CHOOSE x \in S : \A y \in S : x >= y

\* The equation of the recursive function on sets of indices that the fold is defined by.
Folds(iter, base, s, D) ==
    iter = [t \in SUBSET D |-> IF t = {} THEN base ELSE op(iter[t \ {Greatest(t)}], s[Greatest(t)])]

Folded(base, s) ==
    (CHOOSE iter : iter = [t \in SUBSET DOMAIN s |->
        IF t = {} THEN base ELSE op(iter[t \ {Greatest(t)}], s[Greatest(t)])])[DOMAIN s]

\* What the proofs take from arithmetic: a set of numbers has a least one.  A module that
\* takes an instance proves it once from the library (this one is instantiated for many
\* operators, and would bring the library along with each).
WellOrdered == \A S \in SUBSET Nat : S # {} => \E x \in S : \A y \in S : x <= y

\* A set of numbers up to n has a greatest one.
LEMMA GreatestIs ==
    ASSUME WellOrdered, NEW n \in Nat, NEW t \in SUBSET (1 .. n), t # {}
    PROVE  Greatest(t) \in t /\ \A y \in t : Greatest(t) >= y
<1>. DEFINE bounds == {m \in Nat : \A y \in t : m >= y}
<1>1. n \in bounds
    OBVIOUS
<1>2. PICK m \in bounds : \A k \in bounds : m <= k
    BY <1>1 DEF WellOrdered
<1>3. m \in t
    <2>. SUFFICES ASSUME m \notin t PROVE FALSE
        OBVIOUS
    <2>1. m # 0
        <3>1. PICK y \in t : TRUE
            OBVIOUS
        <3>2. y \in 1 .. n /\ m >= y
            OBVIOUS
        <3>. QED  BY <3>2
    <2>2. m - 1 \in bounds
        BY <2>1
    <2>. QED  BY <1>2, <2>1, <2>2
<1>. QED  BY <1>3 DEF Greatest

LEMMA GreatestOfInterval ==
    ASSUME WellOrdered, NEW n \in Nat, n # 0
    PROVE  Greatest(1 .. n) = n /\ (1 .. n) \ {n} = 1 .. (n - 1)
<1>. DEFINE t == 1 .. n
<1>1. Greatest(t) \in t /\ \A y \in t : Greatest(t) >= y
    <2>1. t \in SUBSET (1 .. n) /\ n \in t
        OBVIOUS
    <2>. HIDE DEF t
    <2>. QED  BY <2>1, GreatestIs
<1>. QED  BY <1>1

\* The recursive function exists.
LEMMA IterExists ==
    ASSUME WellOrdered, NEW base, NEW s, NEW n \in Nat
    PROVE  \E iter : Folds(iter, base, s, 1 .. n)
<1>. DEFINE missing == {k \in Nat : ~\E iter : Folds(iter, base, s, 1 .. k)}
<1>1. SUFFICES ASSUME missing # {} PROVE FALSE
    OBVIOUS
<1>2. PICK k \in missing : \A j \in missing : k <= j
    BY <1>1 DEF WellOrdered
<1>3. CASE k = 0
    <2>. DEFINE iter == [t \in SUBSET {} |-> base]
    <2>1. 1 .. 0 = {}
        OBVIOUS
    <2>2. iter = [t \in SUBSET {} |-> IF t = {} THEN base ELSE op(iter[t \ {Greatest(t)}], s[Greatest(t)])]
        <3>1. \A t \in SUBSET {} : t = {}
            OBVIOUS
        <3>. QED  BY <3>1
    <2>3. Folds(iter, base, s, 1 .. 0)
        BY <2>1, <2>2 DEF Folds
    <2>. QED  BY <1>3, <2>3
<1>4. CASE k # 0
    <2>. DEFINE D == 1 .. (k - 1)
                E == 1 .. k
    <2>1. k - 1 \in Nat /\ k - 1 \notin missing
        BY <1>2, <1>4
    <2>2. PICK f : Folds(f, base, s, D)
        BY <2>1
    <2>. DEFINE g == [t \in SUBSET E |-> IF t = {} THEN base ELSE op(f[t \ {Greatest(t)}], s[Greatest(t)])]
    <2>3. ASSUME NEW t \in SUBSET E, t # {}  PROVE t \ {Greatest(t)} \in SUBSET D
        <3>1. Greatest(t) \in t /\ \A y \in t : Greatest(t) >= y
            BY <2>3, GreatestIs
        <3>2. ASSUME NEW y \in t, y # Greatest(t)  PROVE y \in 1 .. (k - 1)
            <4>1. y \in 1 .. k /\ Greatest(t) \in 1 .. k /\ Greatest(t) >= y
                BY <3>1, <3>2
            <4>. QED  BY <3>2, <4>1
        <3>. QED  BY <3>2
    <2>4. \A t \in SUBSET D : g[t] = f[t]
        <3>1. \A t \in SUBSET D : t \in SUBSET E
            OBVIOUS
        <3>. HIDE DEF D, E
        <3>. QED  BY <2>2, <3>1 DEF Folds
    <2>5. \A t \in SUBSET E : t # {} => g[t \ {Greatest(t)}] = f[t \ {Greatest(t)}]
        <3>. HIDE DEF D, E, g
        <3>. QED  BY <2>3, <2>4
    <2>6. Folds(g, base, s, E)
        <3>. HIDE DEF D, E
        <3>. QED  BY <2>5 DEF Folds
    <2>. QED  BY <2>6
<1>. QED  BY <1>3, <1>4

\* So the fold is that function at all indices.
LEMMA FoldedIs ==
    ASSUME WellOrdered, NEW base, NEW s, NEW n \in Nat, DOMAIN s = 1 .. n
    PROVE  \E iter : Folds(iter, base, s, 1 .. n) /\ Folded(base, s) = iter[1 .. n]
<1>. DEFINE iter == CHOOSE f : Folds(f, base, s, 1 .. n)
<1>1. Folds(iter, base, s, 1 .. n)
    BY IterExists
<1>2. Folded(base, s) = iter[1 .. n]
    BY DEF Folded, Folds
<1>. QED  BY <1>1, <1>2

\* What the function is at the indices up to k.
Iterates(iter, base, s, n) ==
    /\ iter[{}] = base
    /\ \A k \in 1 .. n : iter[1 .. k] = op(iter[1 .. (k - 1)], s[k])

LEMMA IterStep ==
    ASSUME WellOrdered, NEW base, NEW s, NEW n \in Nat, NEW iter, Folds(iter, base, s, 1 .. n)
    PROVE  Iterates(iter, base, s, n)
<1>1. iter[{}] = base
    BY DEF Folds
<1>2. ASSUME NEW k \in 1 .. n  PROVE iter[1 .. k] = op(iter[1 .. (k - 1)], s[k])
    <2>. DEFINE t == 1 .. k
    <2>1. t \in SUBSET (1 .. n) /\ t # {}
        <3>1. k \in t
            OBVIOUS
        <3>2. t \subseteq 1 .. n
            OBVIOUS
        <3>. HIDE DEF t
        <3>. QED  BY <3>1, <3>2
    <2>2. iter[t] = op(iter[t \ {Greatest(t)}], s[Greatest(t)])
        <3>. HIDE DEF t
        <3>. QED  BY <2>1 DEF Folds
    <2>3. Greatest(t) = k /\ t \ {k} = 1 .. (k - 1)
        BY GreatestOfInterval
    <2>. QED  BY <2>2, <2>3
<1>. QED  BY <1>1, <1>2 DEF Iterates

\* So the fold is what the function comes to in n steps.
LEMMA FoldedIterates ==
    ASSUME WellOrdered, NEW base, NEW s, NEW n \in Nat, DOMAIN s = 1 .. n
    PROVE  \E iter : Iterates(iter, base, s, n) /\ Folded(base, s) = iter[1 .. n]
BY FoldedIs, IterStep

\* Nothing folds to the base.
THEOREM FoldEmpty ==
    ASSUME WellOrdered, NEW base
    PROVE  Folded(base, << >>) = base
<1>1. DOMAIN << >> = 1 .. 0 /\ 1 .. 0 = {}
    OBVIOUS
<1>2. PICK iter : Iterates(iter, base, << >>, 0) /\ Folded(base, << >>) = iter[1 .. 0]
    BY <1>1, FoldedIterates
<1>. QED  BY <1>1, <1>2 DEF Iterates

\* Folding one element more.
THEOREM FoldAppend ==
    ASSUME WellOrdered, NEW base, NEW S, NEW s \in Seq(S), NEW x \in S
    PROVE  Folded(base, Append(s, x)) = op(Folded(base, s), x)
<1>. DEFINE n == Len(s)
            u == Append(s, x)
<1>1. n \in Nat /\ DOMAIN s = 1 .. n /\ DOMAIN u = 1 .. (n + 1) /\ u[n + 1] = x
        /\ \A i \in 1 .. n : u[i] = s[i]
    OBVIOUS
<1>. HIDE DEF n, u
<1>2. PICK f : Iterates(f, base, s, n) /\ Folded(base, s) = f[1 .. n]
    BY <1>1, FoldedIterates
<1>3. PICK g : Iterates(g, base, u, n + 1) /\ Folded(base, u) = g[1 .. (n + 1)]
    BY <1>1, FoldedIterates
<1>4. g[1 .. (n + 1)] = op(g[1 .. n], x)
    <2>1. n + 1 \in 1 .. (n + 1) /\ (n + 1) - 1 = n
        BY <1>1
    <2>. QED  BY <1>1, <1>3, <2>1 DEF Iterates
<1>5. g[1 .. n] = f[1 .. n]
    <2>. DEFINE differ == {k \in 0 .. n : g[1 .. k] # f[1 .. k]}
    <2>1. SUFFICES ASSUME differ # {} PROVE FALSE
        BY <1>1
    <2>2. PICK k \in differ : \A j \in differ : k <= j
        <3>1. differ \in SUBSET Nat
            BY <1>1
        <3>. HIDE DEF differ
        <3>. QED  BY <2>1, <3>1 DEF WellOrdered
    <2>3. CASE k = 0
        <3>1. 1 .. 0 = {}
            OBVIOUS
        <3>2. g[1 .. k] = f[1 .. k]
            BY <1>2, <1>3, <2>3, <3>1 DEF Iterates
        <3>. QED  BY <3>2
    <2>4. CASE k # 0
        <3>1. k - 1 \in 0 .. n /\ k - 1 \notin differ /\ k \in 1 .. n /\ k \in 1 .. (n + 1)
            BY <1>1, <2>2, <2>4
        <3>2. g[1 .. (k - 1)] = f[1 .. (k - 1)] /\ u[k] = s[k]
            BY <1>1, <3>1
        <3>3. f[1 .. k] = op(f[1 .. (k - 1)], s[k])
            BY <1>2, <3>1 DEF Iterates
        <3>4. g[1 .. k] = op(g[1 .. (k - 1)], u[k])
            BY <1>3, <3>1 DEF Iterates
        <3>5. g[1 .. k] = f[1 .. k]
            BY <3>2, <3>3, <3>4
        <3>. QED  BY <3>5
    <2>. QED  BY <2>3, <2>4
<1>. QED  BY <1>2, <1>3, <1>4, <1>5 DEF u

\* What holds of the empty sequence, and of every sequence with one element more, holds of all.
THEOREM AllSequences ==
    ASSUME WellOrdered, NEW S, NEW P, << >> \in P, \A s \in Seq(S) \cap P : \A x \in S : Append(s, x) \in P
    PROVE  Seq(S) \subseteq P
<1>. DEFINE lengths == {Len(s) : s \in Seq(S) \ P}
<1>1. SUFFICES ASSUME lengths # {} PROVE FALSE
    OBVIOUS
<1>2. PICK n \in lengths : \A k \in lengths : n <= k
    <2>1. lengths \in SUBSET Nat
        OBVIOUS
    <2>. HIDE DEF lengths
    <2>. QED  BY <1>1, <2>1 DEF WellOrdered
<1>3. PICK s \in Seq(S) \ P : Len(s) = n
    BY <1>2
<1>4. s # << >> /\ n \in Nat /\ n # 0
    BY <1>3
<1>. DEFINE front == SubSeq(s, 1, n - 1)
<1>5. front \in Seq(S) /\ Len(front) = n - 1
    BY <1>3, <1>4
<1>6. s = Append(front, s[n]) /\ s[n] \in S
    BY <1>3, <1>4
<1>7. front \in P
    <2>1. n - 1 \notin lengths
        BY <1>2, <1>4
    <2>. QED  BY <1>5, <2>1
<1>. QED  BY <1>3, <1>5, <1>6, <1>7

\* What the operator never leaves, a fold never leaves.
THEOREM FoldStays ==
    ASSUME WellOrdered, NEW S, NEW R, NEW base \in R, \A r \in R : \A x \in S : op(r, x) \in R
    PROVE  \A s \in Seq(S) : Folded(base, s) \in R
<1>. DEFINE P == {s \in Seq(S) : Folded(base, s) \in R}
<1>1. << >> \in P
    BY FoldEmpty
<1>2. \A s \in Seq(S) \cap P : \A x \in S : Append(s, x) \in P
    BY FoldAppend
<1>3. Seq(S) \subseteq P
    <2>. HIDE DEF P
    <2>. QED  BY <1>1, <1>2, AllSequences
<1>. QED  BY <1>3

\* An element appended to the second of two sequences.
LEMMA ConcatAppend ==
    ASSUME NEW S, NEW s \in Seq(S), NEW t \in Seq(S), NEW x \in S
    PROVE  s \o Append(t, x) = Append(s \o t, x)
OBVIOUS

\* Folding one sequence after the other.
THEOREM FoldConcat ==
    ASSUME WellOrdered, NEW base, NEW S, NEW s \in Seq(S)
    PROVE  \A t \in Seq(S) : Folded(base, s \o t) = Folded(Folded(base, s), t)
<1>. DEFINE P == {t \in Seq(S) : Folded(base, s \o t) = Folded(Folded(base, s), t)}
<1>1. << >> \in P
    <2>1. s \o << >> = s
        OBVIOUS
    <2>. QED  BY <2>1, FoldEmpty
<1>2. \A t \in Seq(S) \cap P : \A x \in S : Append(t, x) \in P
    <2>. SUFFICES ASSUME NEW t \in Seq(S), t \in P, NEW x \in S PROVE Append(t, x) \in P
        OBVIOUS
    <2>1. s \o t \in Seq(S) /\ Append(t, x) \in Seq(S)
        OBVIOUS
    <2>4. s \o Append(t, x) = Append(s \o t, x)
        BY ConcatAppend
    <2>. DEFINE u == s \o t
    <2>2. Folded(base, Append(u, x)) = op(Folded(base, u), x)
        <3>1. u \in Seq(S)
            BY <2>1
        <3>. HIDE DEF u
        <3>. QED  BY <3>1, FoldAppend
    <2>3. Folded(Folded(base, s), Append(t, x)) = op(Folded(Folded(base, s), t), x)
        BY FoldAppend
    <2>. QED  BY <2>1, <2>2, <2>3, <2>4
<1>3. Seq(S) \subseteq P
    <2>. HIDE DEF P
    <2>. QED  BY <1>1, <1>2, AllSequences
<1>. QED  BY <1>3

\* Folding a sequence of one.
THEOREM FoldOne ==
    ASSUME WellOrdered, NEW base, NEW x
    PROVE  Folded(base, <<x>>) = op(base, x)
<1>1. << >> \in Seq({x}) /\ Append(<< >>, x) = <<x>>
    OBVIOUS
<1>2. Folded(base, Append(<< >>, x)) = op(Folded(base, << >>), x)
    BY <1>1, FoldAppend
<1>. QED  BY <1>1, <1>2, FoldEmpty
=============================================================================
