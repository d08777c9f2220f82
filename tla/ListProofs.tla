----------------------------- MODULE ListProofs -----------------------------
(* What the loops of Lists return, for lists of any length.  A fold is a     *)
(* recursive function on the sets of positions; here it is shown to exist    *)
(* and to go through the list step by step, by induction on the length, from *)
(* the least element of a set of numbers.                                    *)
EXTENDS Lists, Integers, TLAPS, NaturalsInduction, WellFoundedInduction, SequenceTheorems,
        FiniteSetTheorems

-----------------------------------------------------------------------------
(* Induction *)

LEMMA LeastExists ==
    ASSUME NEW T, T \subseteq Nat, T # {}
    PROVE  \E m \in T : \A y \in T : ~(y < m)
<1>1. PICK m \in T : \A y \in T : <<y, m>> \notin OpToRel(<, Nat)
  BY NatLessThanWellFounded, WFMin, Zenon
<1>2. ASSUME NEW y \in T PROVE ~(y < m)
  <2>1. <<y, m>> \in Nat \X Nat OBVIOUS
  <2>2. <<y, m>>[1] = y /\ <<y, m>>[2] = m OBVIOUS
  <2> QED BY <1>1, <2>1, <2>2, Zenon DEF OpToRel
<1> QED BY <1>2

\* Induction up to N, of membership in a set.
LEMMA UpTo ==
    ASSUME NEW N \in Nat, NEW T, 0 \in T, \A n \in 1..N : n - 1 \in T => n \in T
    PROVE  \A n \in 0..N : n \in T
<1> DEFINE Bad == {n \in 0..N : n \notin T}
<1> SUFFICES ASSUME Bad # {} PROVE FALSE
  OBVIOUS
<1>1. PICK m \in Bad : \A y \in Bad : ~(y < m)
  <2>1. Bad \subseteq Nat
    OBVIOUS
  <2> HIDE DEF Bad
  <2> QED BY <2>1, LeastExists
<1>2. m \in 1..N
  BY <1>1
<1>3. m - 1 \in 0..N /\ m - 1 < m
  BY <1>2
<1>4. m - 1 \in T
  BY <1>1, <1>3
<1> QED BY <1>1, <1>2, <1>4

\* Some positions have a last one.
LEMMA LastExists ==
    ASSUME NEW n \in Nat, NEW I \in SUBSET (1..n), I # {}
    PROVE  \E i \in I : \A j \in I : j <= i
<1> DEFINE T == {n - i : i \in I}
<1>1. I \subseteq Int /\ \A i \in I : i <= n BY SMT
<1>2. \A i \in I : n - i \in Nat BY <1>1, SMT
<1>3. T \subseteq Nat /\ T # {} BY <1>2, Zenon
<1>4. PICK m \in T : \A y \in T : ~(y < m)
  <2> HIDE DEF T
  <2> QED BY <1>3, LeastExists
<1>5. PICK i \in I : m = n - i BY <1>4
<1>6. ASSUME NEW j \in I PROVE j <= i
  <2>1. ~(n - j < n - i) BY <1>4, <1>5
  <2> QED BY <2>1, <1>1
<1> QED BY <1>5, <1>6

-----------------------------------------------------------------------------
(* Folds *)

\* The greatest of some positions.
LEMMA MaxOfPositions ==
    ASSUME NEW n \in Nat, NEW S \in SUBSET (1..n), n \in S
    PROVE  Max(S) = n
<1>1. n \in S /\ \A y \in S : n >= y
  OBVIOUS
<1>2. \A x \in S : (\A y \in S : x >= y) => x = n
  BY <1>1
<1> QED BY <1>1, <1>2 DEF Max

\* Positions have a greatest one.
LEMMA MaxIsIn ==
    ASSUME NEW n \in Nat, NEW S \in SUBSET (1..n), S # {}
    PROVE  Max(S) \in S
<1>1. PICK x \in S : \A y \in S : y <= x
  BY LastExists
<1>2. \A y \in S : x >= y
  BY <1>1
<1> QED BY <1>2 DEF Max

\* it is the fold of step over the sets of positions.
IsFold(it, n, base, step) ==
    it = [S \in SUBSET (1..n) |-> IF S = {} THEN base ELSE step[Max(S)][it[S \ {Max(S)}]]]

LEMMA FoldExists ==
    ASSUME NEW N \in Nat, NEW X, NEW base \in X, NEW step \in [1..N -> [X -> X]]
    PROVE  \E it \in [SUBSET (1..N) -> X] : IsFold(it, N, base, step)
<1> DEFINE T == {n \in 0..N : \E it \in [SUBSET (1..n) -> X] : IsFold(it, n, base, step)}
<1>1. 0 \in T
  <2> DEFINE it == [S \in SUBSET (1..0) |-> base]
  <2>1. 1..0 = {}
    OBVIOUS
  <2>2. it \in [SUBSET (1..0) -> X] /\ IsFold(it, 0, base, step)
    BY <2>1 DEF IsFold
  <2> QED BY <2>2
<1>2. ASSUME NEW n \in 1..N, n - 1 \in T PROVE n \in T
  <2>1. PICK f \in [SUBSET (1..(n - 1)) -> X] : IsFold(f, n - 1, base, step)
    BY <1>2
  <2> DEFINE g == [S \in SUBSET (1..n) |-> IF n \in S THEN step[n][f[S \ {n}]] ELSE f[S]]
  <2>2. \A S \in SUBSET (1..n) : S \ {n} \in SUBSET (1..(n - 1))
                                 /\ (n \notin S => S \in SUBSET (1..(n - 1)))
    OBVIOUS
  <2>3. g \in [SUBSET (1..n) -> X]
    BY <2>1, <2>2
  <2>4. ASSUME NEW S \in SUBSET (1..n), n \in S
        PROVE  g[S] = step[Max(S)][g[S \ {Max(S)}]] /\ S # {}
    <3>1. Max(S) = n
      BY <2>4, MaxOfPositions
    <3>2. S \ {n} \in SUBSET (1..n) /\ n \notin S \ {n}
      OBVIOUS
    <3>3. g[S \ {n}] = f[S \ {n}] /\ g[S] = step[n][f[S \ {n}]]
      BY <2>4, <3>2
    <3> QED BY <2>4, <3>1, <3>3
  <2>5. ASSUME NEW S \in SUBSET (1..n), n \notin S
        PROVE  g[S] = IF S = {} THEN base ELSE step[Max(S)][g[S \ {Max(S)}]]
    <3>1. S \in SUBSET (1..(n - 1)) /\ S \ {Max(S)} \in SUBSET (1..n) /\ n \notin S \ {Max(S)}
      BY <2>2, <2>5
    <3>2. g[S] = f[S] /\ g[S \ {Max(S)}] = f[S \ {Max(S)}]
      BY <2>5, <3>1
    <3>3. f[S] = IF S = {} THEN base ELSE step[Max(S)][f[S \ {Max(S)}]]
      BY <2>1, <3>1 DEF IsFold
    <3> QED BY <3>2, <3>3
  <2>6. \A S \in SUBSET (1..n) :
            g[S] = IF S = {} THEN base ELSE step[Max(S)][g[S \ {Max(S)}]]
    BY <2>4, <2>5
  <2>7. IsFold(g, n, base, step)
    <3> DEFINE h == [S \in SUBSET (1..n) |->
                        IF S = {} THEN base ELSE step[Max(S)][g[S \ {Max(S)}]]]
    <3>1. \A S \in SUBSET (1..n) : g[S] = h[S]
      BY <2>6
    <3>2. g = [S \in SUBSET (1..n) |-> g[S]] /\ h = [S \in SUBSET (1..n) |-> h[S]]
      OBVIOUS
    <3>3. g = h
      <4> HIDE DEF g, h
      <4> QED BY <3>1, <3>2
    <3> QED BY <3>3 DEF IsFold
  <2> HIDE DEF g
  <2> QED BY <2>3, <2>7
<1>3. N \in T
  <2>1. \A n \in 1..N : n - 1 \in T => n \in T
    BY <1>2
  <2>2. N \in 0..N
    OBVIOUS
  <2> HIDE DEF T
  <2> QED BY <1>1, <2>1, <2>2, UpTo
<1> QED BY <1>3

\* The positions up to n are n and those up to n - 1.
LEMMA Positions ==
    ASSUME NEW N \in Nat
    PROVE  /\ 1..0 = {} /\ 1..0 \in SUBSET (1..N)
           /\ \A n \in 1..N : /\ 1..n \in SUBSET (1..N) /\ 1..n # {}
                              /\ Max(1..n) = n /\ (1..n) \ {n} = 1..(n - 1)
<1>1. 1..0 = {} /\ 1..0 \in SUBSET (1..N)
  OBVIOUS
<1>2. ASSUME NEW n \in 1..N
      PROVE  /\ 1..n \in SUBSET (1..N) /\ 1..n # {}
             /\ Max(1..n) = n /\ (1..n) \ {n} = 1..(n - 1)
  <2>1. 1..n \in SUBSET (1..N) /\ 1..n # {} /\ (1..n) \ {n} = 1..(n - 1)
    OBVIOUS
  <2>2. Max(1..n) = n
    BY MaxOfPositions
  <2> QED BY <2>1, <2>2
<1> QED BY <1>1, <1>2

\* A fold goes through a list from front to back: f[n] is what it has made of the
\* first n elements.
Runs(f, it, N, X, base, step) ==
    /\ f \in [0..N -> X] /\ f[0] = base /\ f[N] = it[1..N]
    /\ \A n \in 1..N : f[n] = step[n][f[n - 1]]

LEMMA FoldRuns ==
    ASSUME NEW N \in Nat, NEW X, NEW base \in X, NEW step \in [1..N -> [X -> X]], NEW it,
           it[{}] = base,
           \A S \in SUBSET (1..N) : S # {} /\ it[S \ {Max(S)}] \in X =>
               it[S] = step[Max(S)][it[S \ {Max(S)}]]
    PROVE  \E f : Runs(f, it, N, X, base, step)
<1> DEFINE f == [n \in 0..N |-> it[1..n]]
           Typed == {n \in 0..N : f[n] \in X}
<1>1. f[0] = base /\ f[N] = it[1..N] /\ f = [n \in 0..N |-> f[n]]
  BY Positions
<1>2. ASSUME NEW n \in 1..N, f[n - 1] \in X
      PROVE  f[n] = step[n][f[n - 1]] /\ f[n] \in X
  <2>1. /\ 1..n \in SUBSET (1..N) /\ 1..n # {}
        /\ Max(1..n) = n /\ (1..n) \ {n} = 1..(n - 1)
    BY Positions
  <2>2. f[n - 1] = it[1..(n - 1)] /\ f[n] = it[1..n]
    OBVIOUS
  <2> HIDE DEF f
  <2>3. (1..n) \ {Max(1..n)} = 1..(n - 1)
    BY <2>1, Zenon
  <2>4. it[1..n] = step[Max(1..n)][it[(1..n) \ {Max(1..n)}]]
    <3>1. it[(1..n) \ {Max(1..n)}] \in X
      BY <1>2, <2>2, <2>3, Zenon
    <3> QED BY <2>1, <3>1, Zenon
  <2>5. f[n] = step[n][f[n - 1]]
    BY <2>1, <2>2, <2>3, <2>4, Zenon
  <2> QED BY <1>2, <2>5
<1> HIDE DEF f
<1>3. 0 \in Typed
  <2>1. 0 \in 0..N
    OBVIOUS
  <2> QED BY <1>1, <2>1, Zenon
<1>4. \A n \in 1..N : n - 1 \in Typed => n \in Typed
  <2>1. \A n \in 1..N : n \in 0..N
    OBVIOUS
  <2> QED BY <1>2, <2>1, Zenon
<1>5. \A n \in 0..N : n \in Typed
  <2> HIDE DEF Typed
  <2> QED BY <1>3, <1>4, UpTo
<1>6. \A n \in 1..N : f[n - 1] \in X
  BY <1>5
<1>7. \A n \in 1..N : f[n] = step[n][f[n - 1]]
  BY <1>2, <1>6
<1>8. f \in [0..N -> X]
  BY <1>1, <1>5
<1> QED BY <1>1, <1>7, <1>8 DEF Runs

-----------------------------------------------------------------------------
(* Picked *)

\* f[n] is what the loop has picked from the first n elements.
PicksTo(f, s, T, A) ==
    /\ f \in [0..Len(s) -> Seq(A)] /\ f[0] = <<>>
    /\ \A n \in 1..Len(s) : f[n] = IF s[n] \in T THEN Append(f[n - 1], s[n]) ELSE f[n - 1]

LEMMA PickedSteps ==
    ASSUME NEW A, NEW s \in Seq(A), NEW T
    PROVE  \E f : PicksTo(f, s, T, A) /\ Picked(s, T) = f[Len(s)]
<1> DEFINE N == Len(s)
           X == Seq(A)
           step == [n \in 1..N |-> [list \in X |->
                       IF s[n] \in T THEN Append(list, s[n]) ELSE list]]
           Body(it) == [S \in SUBSET (1..N) |->
                           IF S = {} THEN <<>>
                           ELSE IF s[Max(S)] \in T
                                THEN Append(it[S \ {Max(S)}], s[Max(S)])
                                ELSE it[S \ {Max(S)}]]
           picks == CHOOSE it : it = Body(it)
<1>1. N \in Nat /\ DOMAIN s = 1..N /\ \A n \in 1..N : s[n] \in A
  BY LenProperties
<1>2. Picked(s, T) = picks[1..N]
  BY <1>1 DEF Picked, FoldLeft, MapThenFoldSet
<1>3. step \in [1..N -> [X -> X]] /\ <<>> \in X
  BY <1>1
<1>4. \A S \in SUBSET (1..N) : S # {} => Max(S) \in 1..N /\ S \ {Max(S)} \in SUBSET (1..N)
  BY <1>1, MaxIsIn
<1>5. \E it : it = Body(it)
  <2>1. PICK it \in [SUBSET (1..N) -> X] : IsFold(it, N, <<>>, step)
    <3> HIDE DEF step, N, X
    <3> QED BY <1>1, <1>3, FoldExists
  <2>2. \A S \in SUBSET (1..N) : it[S] = Body(it)[S]
    BY <1>4, <2>1 DEF IsFold
  <2> QED BY <2>1, <2>2
<1>6. picks = Body(picks)
  <2> HIDE DEF Body
  <2> QED BY <1>5
<1> HIDE DEF picks
<1>7. \A S \in SUBSET (1..N) : S # {} /\ picks[S \ {Max(S)}] \in X =>
          picks[S] = step[Max(S)][picks[S \ {Max(S)}]]
  BY <1>4, <1>6
<1>8. picks[{}] = <<>>
  BY <1>6
<1>9. PICK f : Runs(f, picks, N, X, <<>>, step)
  <2> HIDE DEF step, N, X
  <2> QED BY <1>1, <1>3, <1>7, <1>8, FoldRuns
<1>10. PicksTo(f, s, T, A)
  <2>1. f \in [0..N -> X] /\ f[0] = <<>> /\ \A n \in 1..N : f[n] = step[n][f[n - 1]]
    BY <1>9 DEF Runs
  <2>2. ASSUME NEW n \in 1..N
        PROVE  f[n] = IF s[n] \in T THEN Append(f[n - 1], s[n]) ELSE f[n - 1]
    <3>1. n - 1 \in 0..N
      BY <1>1
    <3>2. f[n - 1] \in X
      BY <2>1, <3>1, Zenon
    <3> HIDE DEF N, X
    <3>3. step[n][f[n - 1]] = IF s[n] \in T THEN Append(f[n - 1], s[n]) ELSE f[n - 1]
      BY <3>2
    <3> HIDE DEF step
    <3> QED BY <2>1, <3>3, Zenon
  <2> HIDE DEF step
  <2> QED BY <2>1, <2>2 DEF PicksTo
<1> QED BY <1>2, <1>9, <1>10 DEF Runs

LEMMA ToSetFacts ==
    ASSUME NEW A, NEW s \in Seq(A)
    PROVE  /\ ToSet(s) \subseteq A
           /\ \A x : x \in ToSet(s) <=> \E i \in 1..Len(s) : s[i] = x
           /\ ToSet(s) = {} <=> s = <<>>
<1>1. DOMAIN s = 1..Len(s) /\ Len(s) \in Nat /\ \A i \in 1..Len(s) : s[i] \in A
  BY LenProperties
<1>2. ToSet(s) = {s[i] : i \in 1..Len(s)}
  BY <1>1 DEF ToSet
<1>3. ToSet(s) = {} <=> s = <<>>
  <2>1. CASE s = <<>>
    BY <2>1 DEF ToSet
  <2>2. CASE s # <<>>
    <3>1. 1 \in 1..Len(s)
      BY <1>1, <2>2, EmptySeq
    <3> QED BY <1>2, <2>2, <3>1
  <2> QED BY <2>1, <2>2
<1> QED BY <1>1, <1>2, <1>3

LEMMA Appended ==
    ASSUME NEW A, NEW s \in Seq(A), NEW x \in A
    PROVE  /\ Append(s, x) \in Seq(A) /\ Len(Append(s, x)) = Len(s) + 1
           /\ \A i \in 1..Len(s) : Append(s, x)[i] = s[i]
           /\ Append(s, x)[Len(s) + 1] = x
           /\ ToSet(Append(s, x)) = ToSet(s) \cup {x}
<1>1. /\ Append(s, x) \in Seq(A) /\ Len(Append(s, x)) = Len(s) + 1 /\ Len(s) \in Nat
      /\ \A i \in 1..Len(s) : Append(s, x)[i] = s[i]
      /\ Append(s, x)[Len(s) + 1] = x
  BY AppendProperties, LenProperties
<1>2. \A i : i \in 1..(Len(s) + 1) <=> i \in 1..Len(s) \/ i = Len(s) + 1
  BY <1>1
<1>3. ASSUME NEW y PROVE y \in ToSet(Append(s, x)) <=> y \in ToSet(s) \cup {x}
  <2>1. y \in ToSet(Append(s, x)) <=> \E i \in 1..(Len(s) + 1) : Append(s, x)[i] = y
    BY <1>1, ToSetFacts
  <2>2. y \in ToSet(s) <=> \E i \in 1..Len(s) : s[i] = y
    BY ToSetFacts
  <2> QED BY <1>1, <1>2, <2>1, <2>2
<1> QED BY <1>1, <1>3

\* A list is one of its own elements.
LEMMA OwnElements ==
    ASSUME NEW A, NEW s \in Seq(A)
    PROVE  s \in Seq(ToSet(s))
<1>1. Len(s) \in Nat /\ s \in [1..Len(s) -> A] /\ DOMAIN s = 1..Len(s)
  BY LenProperties
<1>2. \A i \in 1..Len(s) : s[i] \in ToSet(s)
  BY <1>1 DEF ToSet
<1>3. s = [i \in 1..Len(s) |-> s[i]]
  BY <1>1
<1> HIDE <1>1
<1>4. Len(s) \in Nat
  BY <1>1
<1> QED BY <1>2, <1>3, <1>4

\* The elements of two lists, one after the other.
LEMMA Concatenated ==
    ASSUME NEW s, s \in Seq(ToSet(s)), NEW t, t \in Seq(ToSet(t))
    PROVE  s \o t \in Seq(ToSet(s \o t)) /\ ToSet(s \o t) = ToSet(s) \cup ToSet(t)
<1> DEFINE A == ToSet(s)
           B == ToSet(t)
           U == A \cup B
<1>1. /\ Len(s) \in Nat /\ s \in [1..Len(s) -> A] /\ DOMAIN s = 1..Len(s)
      /\ Len(t) \in Nat /\ t \in [1..Len(t) -> B] /\ DOMAIN t = 1..Len(t)
  BY LenProperties
<1>2. s \in Seq(U) /\ t \in Seq(U)
  BY <1>1
<1> HIDE DEF U
<1>3. /\ s \o t \in Seq(U) /\ Len(s \o t) = Len(s) + Len(t)
      /\ \A i \in 1..(Len(s) + Len(t)) :
            (s \o t)[i] = IF i <= Len(s) THEN s[i] ELSE t[i - Len(s)]
  BY <1>2, ConcatProperties
<1>4. ASSUME NEW x PROVE x \in ToSet(s \o t) <=> x \in ToSet(s) \cup ToSet(t)
  <2>1. /\ x \in ToSet(s) <=> \E i \in 1..Len(s) : s[i] = x
        /\ x \in ToSet(t) <=> \E i \in 1..Len(t) : t[i] = x
        /\ x \in ToSet(s \o t) <=> \E i \in 1..(Len(s) + Len(t)) : (s \o t)[i] = x
    BY <1>2, <1>3, ToSetFacts
  <2>2. ASSUME NEW i \in 1..Len(s) PROVE i \in 1..(Len(s) + Len(t)) /\ (s \o t)[i] = s[i]
    BY <1>1, <1>3
  <2>3. ASSUME NEW i \in 1..Len(t)
        PROVE  Len(s) + i \in 1..(Len(s) + Len(t)) /\ (s \o t)[Len(s) + i] = t[i]
    <3>1. Len(s) + i \in 1..(Len(s) + Len(t)) /\ ~(Len(s) + i <= Len(s)) /\ Len(s) + i - Len(s) = i
      BY <1>1
    <3> QED BY <1>3, <3>1
  <2>4. ASSUME NEW i \in 1..(Len(s) + Len(t))
        PROVE  \/ i \in 1..Len(s) /\ (s \o t)[i] = s[i]
               \/ i - Len(s) \in 1..Len(t) /\ (s \o t)[i] = t[i - Len(s)]
    BY <1>1, <1>3
  <2> QED BY <2>1, <2>2, <2>3, <2>4
<1>5. s \o t \in Seq(ToSet(s \o t))
  BY <1>3, OwnElements
<1> QED BY <1>4, <1>5

\* What is picked is what there is of T, and its order is that of the list.
THEOREM PickedList ==
    ASSUME NEW A, NEW s \in Seq(A), NEW T, NEW R,
           \A i, j \in 1..Len(s) : i < j => <<s[i], s[j]>> \in R
    PROVE  /\ Picked(s, T) \in Seq(A) /\ ToSet(Picked(s, T)) = ToSet(s) \cap T
           /\ Len(Picked(s, T)) <= Len(s)
           /\ \A i, j \in 1..Len(Picked(s, T)) : i < j =>
                  <<Picked(s, T)[i], Picked(s, T)[j]>> \in R
<1> DEFINE N == Len(s)
           Ordered(list) == \A i, j \in 1..Len(list) : i < j => <<list[i], list[j]>> \in R
<1>1. PICK f : PicksTo(f, s, T, A) /\ Picked(s, T) = f[N]
  BY PickedSteps
<1> DEFINE Good == {n \in 0..N : /\ ToSet(f[n]) = {s[i] : i \in 1..n} \cap T
                                 /\ Len(f[n]) <= n /\ Ordered(f[n])}
<1>2. N \in Nat /\ DOMAIN s = 1..N /\ \A n \in 1..N : s[n] \in A
  BY LenProperties
<1>3. \A n \in 0..N : f[n] \in Seq(A) /\ f[n] \in Seq(A)
  BY <1>1 DEF PicksTo
<1>4. 0 \in Good
  <2>1. f[0] = <<>> /\ 0 \in 0..N /\ 1..0 = {}
    BY <1>1, <1>2 DEF PicksTo
  <2> QED BY <2>1, EmptySeq DEF ToSet
<1>5. ASSUME NEW n \in 1..N, n - 1 \in Good PROVE n \in Good
  <2>1. n \in 0..N /\ n - 1 \in 0..N /\ 1..n = (1..(n - 1)) \cup {n}
    BY <1>2
  <2>2. /\ ToSet(f[n - 1]) = {s[i] : i \in 1..(n - 1)} \cap T /\ Ordered(f[n - 1])
        /\ f[n - 1] \in Seq(A) /\ s[n] \in A /\ Len(f[n - 1]) <= n - 1
    BY <1>2, <1>3, <1>5, <2>1
  <2>3. f[n] = IF s[n] \in T THEN Append(f[n - 1], s[n]) ELSE f[n - 1]
    BY <1>1 DEF PicksTo
  <2>4. {s[i] : i \in 1..n} = {s[i] : i \in 1..(n - 1)} \cup {s[n]}
    BY <2>1
  <2> DEFINE list == f[n - 1]
             upto == {s[i] : i \in 1..(n - 1)}
  <2>5. CASE s[n] \notin T
    <3>1. f[n] = list /\ Len(list) <= n
      BY <2>2, <2>3, <2>5, LenProperties
    <3> QED BY <2>1, <2>2, <2>4, <2>5, <3>1
  <2>6. CASE s[n] \in T
    <3>1. ToSet(f[n]) = ToSet(list) \cup {s[n]} /\ Len(f[n]) <= n
      BY <2>2, <2>3, <2>6, Appended, LenProperties
    <3>2. Ordered(f[n])
      <4>1. \A i \in 1..Len(list) : \E k \in 1..(n - 1) : list[i] = s[k]
        <5>1. \A i \in 1..Len(list) : list[i] \in ToSet(list)
          <6>1. \A x : x \in ToSet(list) <=> \E i \in 1..Len(list) : list[i] = x
            <7>1. list \in Seq(A)
              BY <2>2
            <7> HIDE DEF list
            <7> QED BY <7>1, ToSetFacts
          <6> HIDE DEF list
          <6> QED BY <6>1
        <5> QED BY <2>2, <5>1
      <4>2. \A i \in 1..Len(list) : <<list[i], s[n]>> \in R
        <5>1. \A k \in 1..(n - 1) : k \in 1..N /\ k < n
          BY <1>2
        <5> QED BY <4>1, <5>1
      <4>3. /\ Len(f[n]) = Len(list) + 1 /\ Len(list) \in Nat
            /\ \A i \in 1..Len(list) : f[n][i] = list[i]
            /\ f[n][Len(list) + 1] = s[n]
        BY <2>2, <2>3, <2>6, Appended, LenProperties
      <4> HIDE DEF list
      <4>4. ASSUME NEW i \in 1..Len(f[n]), NEW j \in 1..Len(f[n]), i < j
            PROVE  <<f[n][i], f[n][j]>> \in R
        <5>1. i \in 1..Len(list) /\ (j \in 1..Len(list) \/ j = Len(list) + 1)
          BY <4>3, <4>4
        <5>2. CASE j = Len(list) + 1
          BY <4>2, <4>3, <5>1, <5>2
        <5>3. CASE j \in 1..Len(list)
          BY <2>2, <4>3, <4>4, <5>1, <5>3 DEF list
        <5> QED BY <5>1, <5>2, <5>3
      <4> QED BY <4>4
    <3> HIDE DEF Ordered
    <3> QED BY <2>1, <2>2, <2>4, <2>6, <3>1, <3>2
  <2> QED BY <2>5, <2>6
<1>6. \A n \in 0..N : n \in Good
  <2>1. \A n \in 1..N : n - 1 \in Good => n \in Good
    BY <1>5
  <2> HIDE DEF Good, N
  <2> QED BY <1>2, <1>4, <2>1, UpTo
<1>7. N \in Good
  <2>1. N \in 0..N
    BY <1>2
  <2> HIDE DEF Good
  <2> QED BY <1>6, <2>1
<1>8. {s[i] : i \in 1..N} = ToSet(s)
  BY <1>2 DEF ToSet
<1>9. /\ f[N] \in Seq(A) /\ ToSet(f[N]) = ToSet(s) \cap T
      /\ Len(f[N]) <= N /\ Ordered(f[N])
  BY <1>3, <1>7, <1>8
<1> QED BY <1>1, <1>9

LEMMA PickedTyped ==
    ASSUME NEW A, NEW s \in Seq(A), NEW T
    PROVE  Picked(s, T) \in Seq(A) /\ ToSet(Picked(s, T)) = ToSet(s) \cap T
<1>1. \A i, j \in 1..Len(s) : i < j => <<s[i], s[j]>> \in A \X A
  BY ElementOfSeq
<1> QED BY <1>1, PickedList

\* Two lists give the same when they differ in what is not picked.
LEMMA SamePicked ==
    ASSUME NEW A, NEW s \in Seq(A), NEW r \in Seq(A), NEW T, NEW U, Len(s) <= Len(r),
           \A i \in 1..Len(s) : (s[i] \in T <=> r[i] \in U) /\ (s[i] \in T => r[i] = s[i]),
           \A i \in 1..Len(r) : i > Len(s) => r[i] \notin U
    PROVE  Picked(r, U) = Picked(s, T)
<1> DEFINE N == Len(s)
           M == Len(r)
<1>1. PICK f : PicksTo(f, s, T, A) /\ Picked(s, T) = f[N]
  BY PickedSteps
<1>2. PICK g : PicksTo(g, r, U, A) /\ Picked(r, U) = g[M]
  BY PickedSteps
<1>3. N \in Nat /\ M \in Nat /\ N <= M
  BY LenProperties
<1>4. /\ \A n \in 1..N : f[n] = IF s[n] \in T THEN Append(f[n - 1], s[n]) ELSE f[n - 1]
      /\ \A n \in 1..M : g[n] = IF r[n] \in U THEN Append(g[n - 1], r[n]) ELSE g[n - 1]
      /\ f[0] = <<>> /\ g[0] = <<>>
  BY <1>1, <1>2 DEF PicksTo
<1> DEFINE Same == {n \in 0..M : g[n] = IF n <= N THEN f[n] ELSE f[N]}
<1>5. 0 \in Same
  BY <1>3, <1>4
<1>6. ASSUME NEW n \in 1..M, n - 1 \in Same PROVE n \in Same
  <2>1. n \in 0..M /\ g[n - 1] = IF n - 1 <= N THEN f[n - 1] ELSE f[N]
    BY <1>3, <1>6
  <2>2. CASE n <= N
    <3>1. n \in 1..N /\ n - 1 <= N
      BY <1>3, <2>2
    <3>2. g[n] = f[n]
      BY <1>4, <2>1, <3>1
    <3> QED BY <2>1, <2>2, <3>2
  <2>3. CASE n > N
    <3>1. n - 1 <= N => n - 1 = N
      BY <1>3, <2>3
    <3>2. g[n] = f[N]
      BY <1>4, <2>1, <2>3, <3>1
    <3> QED BY <1>3, <2>1, <2>3, <3>2
  <2> QED BY <1>3, <2>2, <2>3
<1>7. \A n \in 0..M : n \in Same
  <2>1. \A n \in 1..M : n - 1 \in Same => n \in Same
    BY <1>6
  <2> HIDE DEF Same, M
  <2> QED BY <1>3, <1>5, <2>1, UpTo
<1>8. M \in Same
  BY <1>3, <1>7
<1> HIDE DEF N, M
<1> QED BY <1>1, <1>2, <1>3, <1>8

-----------------------------------------------------------------------------
(* Uncovered *)

\* f[n] is what the loop keeps of the first n elements.
KeepsTo(f, s, Covers, A) ==
    /\ f \in [0..Len(s) -> Seq(A)] /\ f[0] = <<>>
    /\ \A n \in 1..Len(s) : f[n] = IF \E y \in ToSet(f[n - 1]) : <<y, s[n]>> \in Covers
                                   THEN f[n - 1] ELSE Append(f[n - 1], s[n])

LEMMA UncoveredSteps ==
    ASSUME NEW A, NEW s \in Seq(A), NEW Covers
    PROVE  \E f : KeepsTo(f, s, Covers, A) /\ Uncovered(s, Covers) = f[Len(s)]
<1> DEFINE N == Len(s)
           X == Seq(A)
           Covered(list, x) == \E y \in ToSet(list) : <<y, x>> \in Covers
           step == [n \in 1..N |-> [list \in X |->
                       IF Covered(list, s[n]) THEN list ELSE Append(list, s[n])]]
           Body(it) == [S \in SUBSET (1..N) |->
                           IF S = {} THEN <<>>
                           ELSE IF Covered(it[S \ {Max(S)}], s[Max(S)])
                                THEN it[S \ {Max(S)}]
                                ELSE Append(it[S \ {Max(S)}], s[Max(S)])]
           keeps == CHOOSE it : it = Body(it)
<1>1. N \in Nat /\ DOMAIN s = 1..N /\ \A n \in 1..N : s[n] \in A
  BY LenProperties
<1>2. Uncovered(s, Covers) = keeps[1..N]
  BY <1>1 DEF Uncovered, FoldLeft, MapThenFoldSet
<1> HIDE DEF Covered
<1>3. step \in [1..N -> [X -> X]] /\ <<>> \in X
  BY <1>1
<1>4. \A S \in SUBSET (1..N) : S # {} => Max(S) \in 1..N /\ S \ {Max(S)} \in SUBSET (1..N)
  BY <1>1, MaxIsIn
<1>5. \E it : it = Body(it)
  <2>1. PICK it \in [SUBSET (1..N) -> X] : IsFold(it, N, <<>>, step)
    <3> HIDE DEF step, N, X
    <3> QED BY <1>1, <1>3, FoldExists
  <2>2. \A S \in SUBSET (1..N) : it[S] = Body(it)[S]
    BY <1>4, <2>1 DEF IsFold
  <2> QED BY <2>1, <2>2
<1>6. keeps = Body(keeps)
  <2> HIDE DEF Body
  <2> QED BY <1>5
<1> HIDE DEF keeps
<1>7. \A S \in SUBSET (1..N) : S # {} /\ keeps[S \ {Max(S)}] \in X =>
          keeps[S] = step[Max(S)][keeps[S \ {Max(S)}]]
  BY <1>4, <1>6
<1>8. keeps[{}] = <<>>
  BY <1>6
<1>9. PICK f : Runs(f, keeps, N, X, <<>>, step)
  <2> HIDE DEF step, N, X
  <2> QED BY <1>1, <1>3, <1>7, <1>8, FoldRuns
<1>10. KeepsTo(f, s, Covers, A)
  <2>1. f \in [0..N -> X] /\ f[0] = <<>> /\ \A n \in 1..N : f[n] = step[n][f[n - 1]]
    BY <1>9 DEF Runs
  <2>2. ASSUME NEW n \in 1..N
        PROVE  f[n] = IF Covered(f[n - 1], s[n]) THEN f[n - 1] ELSE Append(f[n - 1], s[n])
    <3>1. n - 1 \in 0..N
      BY <1>1
    <3>2. f[n - 1] \in X
      BY <2>1, <3>1, Zenon
    <3> HIDE DEF N, X
    <3>3. step[n][f[n - 1]] = IF Covered(f[n - 1], s[n]) THEN f[n - 1]
                                                         ELSE Append(f[n - 1], s[n])
      BY <3>2
    <3> HIDE DEF step
    <3> QED BY <2>1, <3>3, Zenon
  <2> HIDE DEF step
  <2> QED BY <2>1, <2>2 DEF KeepsTo, Covered
<1> QED BY <1>2, <1>9, <1>10 DEF Runs

\* None of what is kept covers a later one, and what is not kept is covered.
THEOREM UncoveredList ==
    ASSUME NEW A, NEW s \in Seq(A), NEW Covers
    PROVE  /\ Uncovered(s, Covers) \in Seq(A)
           /\ ToSet(Uncovered(s, Covers)) \subseteq ToSet(s)
           /\ \A i, j \in 1..Len(Uncovered(s, Covers)) : i < j =>
                  <<Uncovered(s, Covers)[i], Uncovered(s, Covers)[j]>> \notin Covers
           /\ \A x \in ToSet(s) : \/ x \in ToSet(Uncovered(s, Covers))
                                  \/ \E y \in ToSet(Uncovered(s, Covers)) : <<y, x>> \in Covers
<1> DEFINE N == Len(s)
           Apart(list) == \A i, j \in 1..Len(list) : i < j => <<list[i], list[j]>> \notin Covers
           Held(list, x) == x \in ToSet(list) \/ \E y \in ToSet(list) : <<y, x>> \in Covers
<1>1. PICK f : KeepsTo(f, s, Covers, A) /\ Uncovered(s, Covers) = f[N]
  BY UncoveredSteps
<1> DEFINE Good == {n \in 0..N : /\ ToSet(f[n]) \subseteq ToSet(s)
                                 /\ Apart(f[n]) /\ \A k \in 1..n : Held(f[n], s[k])}
<1>2. N \in Nat /\ DOMAIN s = 1..N /\ \A n \in 1..N : s[n] \in A
  BY LenProperties
<1>3. \A n \in 0..N : f[n] \in Seq(A)
  BY <1>1 DEF KeepsTo
<1>4. 0 \in Good
  <2>1. f[0] = <<>> /\ 0 \in 0..N /\ 1..0 = {}
    BY <1>1, <1>2 DEF KeepsTo
  <2> QED BY <2>1, EmptySeq DEF ToSet
<1>5. ASSUME NEW n \in 1..N, n - 1 \in Good PROVE n \in Good
  <2> DEFINE list == f[n - 1]
             Covered == \E y \in ToSet(list) : <<y, s[n]>> \in Covers
  <2>1. n \in 0..N /\ n - 1 \in 0..N /\ \A k \in 1..n : k \in 1..(n - 1) \/ k = n
    BY <1>2
  <2>2. /\ ToSet(list) \subseteq ToSet(s) /\ Apart(list) /\ \A k \in 1..(n - 1) : Held(list, s[k])
        /\ list \in Seq(A) /\ s[n] \in A /\ s[n] \in ToSet(s)
    BY <1>2, <1>3, <1>5, <2>1 DEF ToSet
  <2>3. f[n] = IF Covered THEN list ELSE Append(list, s[n])
    BY <1>1 DEF KeepsTo
  <2> HIDE DEF list
  <2>4. CASE Covered
    BY <2>1, <2>2, <2>3, <2>4
  <2>5. CASE ~Covered
    <3>1. /\ Len(f[n]) = Len(list) + 1 /\ Len(list) \in Nat
          /\ \A i \in 1..Len(list) : f[n][i] = list[i]
          /\ f[n][Len(list) + 1] = s[n]
          /\ ToSet(f[n]) = ToSet(list) \cup {s[n]}
      BY <2>2, <2>3, <2>5, Appended, LenProperties
    <3>2. \A i \in 1..Len(list) : <<list[i], s[n]>> \notin Covers
      <4>1. \A x : x \in ToSet(list) <=> \E i \in 1..Len(list) : list[i] = x
        BY <2>2, ToSetFacts
      <4> QED BY <2>5, <4>1
    <3>3. ASSUME NEW i \in 1..Len(f[n]), NEW j \in 1..Len(f[n]), i < j
          PROVE  <<f[n][i], f[n][j]>> \notin Covers
      <4>1. i \in 1..Len(list) /\ (j \in 1..Len(list) \/ j = Len(list) + 1)
        BY <3>1, <3>3
      <4>2. CASE j = Len(list) + 1
        BY <3>1, <3>2, <4>1, <4>2
      <4>3. CASE j \in 1..Len(list)
        BY <2>2, <3>1, <3>3, <4>1, <4>3
      <4> QED BY <4>1, <4>2, <4>3
    <3>4. Apart(f[n])
      BY <3>3
    <3>5. \A k \in 1..n : Held(f[n], s[k])
      BY <2>1, <2>2, <3>1
    <3>6. ToSet(f[n]) \subseteq ToSet(s)
      BY <2>2, <3>1
    <3> HIDE DEF Apart, Held
    <3> QED BY <2>1, <3>4, <3>5, <3>6
  <2> QED BY <2>4, <2>5
<1>6. \A n \in 0..N : n \in Good
  <2>1. \A n \in 1..N : n - 1 \in Good => n \in Good
    BY <1>5
  <2> HIDE DEF Good, N
  <2> QED BY <1>2, <1>4, <2>1, UpTo
<1>7. N \in Good /\ f[N] \in Seq(A)
  <2>1. N \in 0..N
    BY <1>2
  <2> HIDE DEF Good
  <2> QED BY <1>3, <1>6, <2>1
<1>8. \A x \in ToSet(s) : \E k \in 1..N : x = s[k]
  BY <1>2 DEF ToSet
<1>9. \A x \in ToSet(s) : Held(f[N], x)
  BY <1>7, <1>8
<1> HIDE DEF N
<1> QED BY <1>1, <1>7, <1>9

\* Once(s) is one of the orders its elements have.
THEOREM OnceList ==
    ASSUME NEW A, NEW s \in Seq(A)
    PROVE  /\ Once(s) \in Seq(A) /\ ToSet(Once(s)) = ToSet(s)
           /\ Once(s) \in SetToSeqs(ToSet(s))
<1> DEFINE D == Once(s)
           Same == {<<x, x>> : x \in ToSet(s)}
           S == ToSet(s)
           N == Len(D)
<1>1. /\ D \in Seq(A) /\ ToSet(D) \subseteq S
      /\ \A i, j \in 1..Len(D) : i < j => <<D[i], D[j]>> \notin Same
      /\ \A x \in S : \/ x \in ToSet(D)
                      \/ \E y \in ToSet(D) : <<y, x>> \in Same
  BY UncoveredList DEF Once
<1> HIDE DEF D
<1>2. ToSet(D) = S
  <2>1. \A x, y : <<y, x>> \in Same => y = x
    OBVIOUS
  <2> HIDE DEF Same, S
  <2>2. ASSUME NEW x \in S PROVE x \in ToSet(D)
    <3>1. CASE \E y \in ToSet(D) : <<y, x>> \in Same
      <4>1. PICK y \in ToSet(D) : <<y, x>> \in Same
        BY <3>1
      <4>2. y = x
        BY <2>1, <4>1
      <4> QED BY <4>1, <4>2
    <3> QED BY <1>1, <3>1
  <2> QED BY <1>1, <2>2, Zenon
<1>3. N \in Nat /\ DOMAIN D = 1..N /\ D \in [1..N -> A]
  BY <1>1, LenProperties
<1>4. \A x : x \in S <=> \E i \in 1..N : D[i] = x
  BY <1>1, <1>2, ToSetFacts
<1>5. D \in [1..N -> S] /\ \A i, j \in 1..N : i < j => D[i] # D[j]
  <2>1. \A i \in 1..N : D[i] \in S
    BY <1>4
  <2> QED BY <1>1, <1>3, <2>1
<1>6. \A i, j \in 1..N : i # j => D[i] # D[j]
  <2>1. \A i, j \in 1..N : i # j => i < j \/ j < i
    BY <1>3
  <2> QED BY <1>5, <2>1
<1>7. Cardinality(S) = N
  <2>1. D \in Bijection(1..N, S)
    BY <1>4, <1>5, <1>6 DEF Bijection, Injection, Surjection, IsInjective
  <2>2. ExistsBijection(1..N, S)
    BY <2>1 DEF ExistsBijection
  <2> HIDE DEF N, S
  <2> QED BY <1>3, <2>2, FS_CountingElements
<1> HIDE DEF N, S
<1>8. D \in SetToSeqs(S)
  BY <1>5, <1>6, <1>7 DEF SetToSeqs
<1> QED BY <1>1, <1>2, <1>8 DEF D, S
=============================================================================
