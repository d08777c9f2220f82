-------------------------- MODULE HostSessionProofs --------------------------
(* Proofs about the saved credentials and the sessions of HostSession, for   *)
(* any services, files, bundles and accounts.                                *)
EXTENDS HostSession, ListProofs

-----------------------------------------------------------------------------
(* The last assignment of a key *)

\* What loading takes for a key is the value of its last assignment, as it is read.
LEMMA LastOfIsLast ==
    ASSUME NEW lines \in Seq(Lines), NEW key, Found(lines, key) # {}
    PROVE  \E i \in Found(lines, key) :
              /\ \A j \in Found(lines, key) : j <= i
              /\ LastOf(lines, key) = AsRead(lines[i].value)
<1>1. Len(lines) \in Nat /\ Found(lines, key) \in SUBSET (1..Len(lines))
  BY DEF Found
<1>2. \E i \in Found(lines, key) : \A j \in Found(lines, key) : j <= i
  BY <1>1, LastExists
<1> DEFINE i == CHOOSE i \in Found(lines, key) : \A j \in Found(lines, key) : j <= i
<1>3. i \in Found(lines, key) /\ \A j \in Found(lines, key) : j <= i
  BY <1>2, Zenon
<1>4. LastOf(lines, key) = AsRead(lines[i].value)
  BY Zenon DEF LastOf
<1> QED BY <1>3, <1>4, Zenon

-----------------------------------------------------------------------------
(* Loading and saving *)

LEMMA LineTyped ==
    ASSUME NEW line \in Lines
    PROVE  /\ line.value \in Values /\ line = KeyOf(line.key, line.form, line.value)
           /\ line.form \in {"plain", "spaced", "blanked", "text"}
           /\ line.form # "text" => line.key \in Keys
           /\ line.form = "text" => line.key \notin Keys
           /\ Owned(line) => line.key \in Keys
BY DEF Lines, KeyOf, Keys, Owned

LEMMA KeyOfTyped ==
    ASSUME NEW key \in Keys, NEW form \in {"plain", "spaced", "blanked"}, NEW value \in Values
    PROVE  KeyOf(key, form, value) \in Lines
BY DEF Lines, KeyOf

\* Blanks and quotes aside, a value is a value, and an empty one is empty.
LEMMA AsReadTyped ==
    ASSUME NEW value \in Values
    PROVE  /\ AsRead(value) \in Values
           /\ AsRead(value).text = Unquoted[value.text]
BY TextAssumption DEF AsRead, Values

LEMMA PairAsReadTyped ==
    ASSUME NEW p \in Pairs
    PROVE  /\ PairAsRead(p) \in Pairs
           /\ \A key \in Keys : PairAsRead(p)[key] = AsRead(p[key])
BY AsReadTyped DEF Pairs, PairAsRead, Keys

LEMMA LoadTyped ==
    ASSUME NEW lines \in Seq(Lines)
    PROVE  Load(lines) \in Pairs \cup {NoPair}
<1>1. ASSUME NEW key, Found(lines, key) # {} PROVE LastOf(lines, key) \in Values
  <2>1. PICK i \in Found(lines, key) : LastOf(lines, key) = AsRead(lines[i].value)
    BY <1>1, LastOfIsLast
  <2>2. lines[i] \in Lines BY DEF Found
  <2> QED BY <2>1, <2>2, LineTyped, AsReadTyped
<1> QED BY <1>1 DEF Load, Pairs, Keys

LEMMA PairTyped ==
    ASSUME NEW p \in Pairs
    PROVE  /\ \A key \in Keys : p[key] \in Values
           /\ p = [id |-> p["id"], secret |-> p["secret"]]
BY DEF Pairs, Keys

LEMMA ReplacedTyped ==
    ASSUME NEW line \in Lines, NEW p \in Pairs
    PROVE  /\ Replaced(line, p) \in Lines
           /\ Replaced(line, p).key = line.key
           /\ Owned(line) => Replaced(line, p) = KeyOf(line.key, "plain", p[line.key])
           /\ ~Owned(line) => Replaced(line, p) = line
<1>1. CASE Owned(line)
  <2>1. line.key \in Keys BY <1>1, LineTyped
  <2>2. Replaced(line, p) = KeyOf(line.key, "plain", p[line.key]) BY <1>1 DEF Replaced
  <2>3. Replaced(line, p).key = line.key BY <2>2 DEF KeyOf
  <2> QED BY <1>1, <2>1, <2>2, <2>3, PairTyped, KeyOfTyped
<1>2. CASE ~Owned(line) BY <1>2 DEF Replaced
<1> QED BY <1>1, <1>2

\* The lines that saving appends: none for a key that has a line to replace.
LEMMA MissingLines ==
    ASSUME NEW lines \in Seq(Lines), NEW key \in Keys, NEW p \in Pairs
    PROVE  /\ Missing(lines, key, p) \in Seq(Lines)
           /\ Len(Missing(lines, key, p)) <= 1
           /\ \/ \E i \in 1..Len(lines) : lines[i].key = key /\ Owned(lines[i])
              \/ 1 <= Len(Missing(lines, key, p))
           /\ 1 <= Len(Missing(lines, key, p)) =>
                 Missing(lines, key, p)[1] = KeyOf(key, "plain", p[key])
<1>1. KeyOf(key, "plain", p[key]) \in Lines BY PairTyped, KeyOfTyped
<1> QED BY <1>1 DEF Missing

\* What saving makes of a file: its lines, replaced or as they were, and behind
\* them the keys that had no line to replace.
LEMMA SaveLines ==
    ASSUME NEW lines \in Seq(Lines), NEW p \in Pairs
    PROVE  /\ Save(lines, p) \in Seq(Lines)
           /\ Len(lines) <= Len(Save(lines, p))
           /\ \A i \in 1..Len(lines) : Save(lines, p)[i] = Replaced(lines[i], p)
           /\ \A i \in (Len(lines) + 1)..Len(Save(lines, p)) :
                 \E key \in Keys : Save(lines, p)[i] = KeyOf(key, "plain", p[key])
           /\ \A key \in Keys :
                 \/ \E i \in 1..Len(lines) : lines[i].key = key /\ Owned(lines[i])
                 \/ \E i \in (Len(lines) + 1)..Len(Save(lines, p)) :
                       Save(lines, p)[i] = KeyOf(key, "plain", p[key])
<1> DEFINE n == Len(lines)
           R == [i \in 1..n |-> Replaced(lines[i], p)]
           M == Missing(lines, "id", p)
           N == Missing(lines, "secret", p)
<1>1. n \in Nat /\ DOMAIN lines = 1..n OBVIOUS
<1>2. R \in Seq(Lines) /\ Len(R) = n /\ \A i \in 1..n : R[i] = Replaced(lines[i], p)
  <2>1. \A i \in 1..n : Replaced(lines[i], p) \in Lines
    BY ReplacedTyped
  <2> QED BY <2>1, <1>1
<1>3. Save(lines, p) = (R \o M) \o N
  BY <1>1, Zenon DEF Save
<1>4. "id" \in Keys /\ "secret" \in Keys /\ \A key \in Keys : key \in {"id", "secret"}
  BY DEF Keys
<1>5. /\ M \in Seq(Lines)
      /\ Len(M) <= 1
      /\ (\E i \in 1..n : lines[i].key = "id" /\ Owned(lines[i])) \/ 1 <= Len(M)
      /\ 1 <= Len(M) => M[1] = KeyOf("id", "plain", p["id"])
  BY <1>4, MissingLines
<1>6. /\ N \in Seq(Lines)
      /\ Len(N) <= 1
      /\ (\E i \in 1..n : lines[i].key = "secret" /\ Owned(lines[i])) \/ 1 <= Len(N)
      /\ 1 <= Len(N) => N[1] = KeyOf("secret", "plain", p["secret"])
  BY <1>4, MissingLines
<1> HIDE DEF n, R, M, N
<1> DEFINE S == (R \o M) \o N
<1>7. /\ S \in Seq(Lines) /\ Len(S) = n + Len(M) + Len(N) /\ n <= Len(S)
      /\ \A i \in 1..n : S[i] = R[i]
      /\ \A i \in 1..Len(M) : S[n + i] = M[i]
      /\ \A i \in 1..Len(N) : S[n + Len(M) + i] = N[i]
  <2>1. R \in Seq(Lines) /\ M \in Seq(Lines) /\ N \in Seq(Lines) /\ Len(R) = n
    BY <1>2, <1>5, <1>6
  <2> DEFINE U == R \o M
  <2>2. /\ U \in Seq(Lines) /\ Len(U) = n + Len(M)
        /\ \A i \in 1..n : U[i] = R[i]
        /\ \A i \in 1..Len(M) : U[n + i] = M[i]
    <3>1. R \in Seq(Lines) /\ M \in Seq(Lines) BY <2>1
    <3>2. /\ U \in Seq(Lines) /\ Len(U) = Len(R) + Len(M)
          /\ \A i \in 1..Len(R) : U[i] = R[i]
          /\ \A i \in 1..Len(M) : U[Len(R) + i] = M[i]
      BY <3>1
    <3>3. Len(R) = n BY <2>1
    <3> HIDE DEF U, S
    <3> QED BY <3>2, <3>3, Zenon
  <2>3. S = U \o N OBVIOUS
  <2> HIDE DEF U, S
  <2>4. U \in Seq(Lines) BY <2>2
  <2>5. /\ S \in Seq(Lines) /\ Len(S) = Len(U) + Len(N)
        /\ \A i \in 1..Len(U) : S[i] = U[i]
        /\ \A i \in 1..Len(N) : S[Len(U) + i] = N[i]
    BY <2>1, <2>3, <2>4
  <2>6. Len(M) \in Nat /\ Len(N) \in Nat BY <2>1
  <2>7. n <= Len(S) BY <1>1, <2>2, <2>5, <2>6
  <2>8. \A i \in 1..n : i \in 1..Len(U)
    BY <1>1, <2>2, <2>6
  <2>9. \A i \in 1..Len(M) : n + i \in 1..Len(U)
    BY <1>1, <2>2, <2>6
  <2>10. \A i \in 1..n : S[i] = R[i]
    BY <2>2, <2>5, <2>8, Zenon
  <2>11. \A i \in 1..Len(M) : S[n + i] = M[i]
    BY <2>2, <2>5, <2>9, Zenon
  <2> QED BY <2>2, <2>5, <2>7, <2>10, <2>11, Zenon
<1> HIDE DEF S
<1>8. Len(M) \in Nat /\ Len(N) \in Nat
  BY <1>5, <1>6
<1>9. \A i \in (n + 1)..Len(S) : \E key \in Keys : S[i] = KeyOf(key, "plain", p[key])
  <2> SUFFICES ASSUME NEW i \in (n + 1)..Len(S)
               PROVE  \E key \in Keys : S[i] = KeyOf(key, "plain", p[key])
    OBVIOUS
  <2>1. CASE i <= n + Len(M)
    <3>1. i - n \in 1..Len(M) /\ i = n + (i - n) BY <1>1, <1>8, <2>1
    <3>2. S[i] = M[i - n] BY <1>7, <3>1
    <3>3. M[1] = KeyOf("id", "plain", p["id"]) /\ i - n = 1 BY <1>1, <1>5, <1>7, <1>8, <3>1
    <3> QED BY <1>4, <3>2, <3>3
  <2>2. CASE i > n + Len(M)
    <3>1. /\ i - n - Len(M) \in 1..Len(N)
          /\ i = n + Len(M) + (i - n - Len(M))
      BY <1>1, <1>7, <1>8, <2>2
    <3>2. S[i] = N[i - n - Len(M)] BY <1>7, <3>1
    <3>3. i - n - Len(M) = 1 /\ 1 <= Len(N)
      <4>1. Len(N) <= 1 BY <1>6
      <4>2. i \in Int /\ n \in Int /\ Len(M) \in Int /\ Len(N) \in Int
        BY <1>1, <1>7, <1>8
      <4>3. 1 <= i - n - Len(M) /\ i - n - Len(M) <= Len(N) BY <3>1
      <4> HIDE DEF S, n, M, N
      <4> QED BY ONLY <4>1, <4>2, <4>3
    <3>4. N[1] = KeyOf("secret", "plain", p["secret"]) BY <1>6, <3>3
    <3> QED BY <1>4, <3>2, <3>3, <3>4
  <2> QED BY <1>1, <1>8, <2>1, <2>2
<1>10. \A key \in Keys :
          \/ \E i \in 1..n : lines[i].key = key /\ Owned(lines[i])
          \/ \E i \in (n + 1)..Len(S) : S[i] = KeyOf(key, "plain", p[key])
  <2>1. ASSUME 1 <= Len(M)
        PROVE  \E i \in (n + 1)..Len(S) : S[i] = KeyOf("id", "plain", p["id"])
    <3>1. 1 \in 1..Len(M) /\ n + 1 \in (n + 1)..Len(S) BY <2>1, <1>1, <1>7, <1>8
    <3>2. S[n + 1] = M[1] BY <1>7, <3>1, Zenon
    <3> QED BY <2>1, <1>5, <3>1, <3>2, Zenon
  <2>2. ASSUME 1 <= Len(N)
        PROVE  \E i \in (n + 1)..Len(S) : S[i] = KeyOf("secret", "plain", p["secret"])
    <3>1. 1 \in 1..Len(N) /\ n + Len(M) + 1 \in (n + 1)..Len(S)
      BY <2>2, <1>1, <1>7, <1>8
    <3>2. S[n + Len(M) + 1] = N[1] BY <1>7, <3>1, Zenon
    <3> QED BY <2>2, <1>6, <3>1, <3>2, Zenon
  <2> QED BY <1>4, <1>5, <1>6, <2>1, <2>2
<1>11. Save(lines, p) = S BY <1>3 DEF S
<1> QED BY <1>2, <1>7, <1>9, <1>10, <1>11 DEF n

\* What was saved is what is loaded, unless a line that saving did not replace comes
\* later: the last assignment of a key is one that was replaced or appended.
LEMMA SaveThenLoad ==
    ASSUME NEW lines \in Seq(Lines), NEW p \in Pairs, SavedLinesLast(Save(lines, p))
    PROVE  Load(Save(lines, p)) = PairAsRead(p)
<1> DEFINE S == Save(lines, p)
           n == Len(lines)
<1>1. /\ S \in Seq(Lines) /\ n \in Nat /\ n <= Len(S) /\ DOMAIN S = 1..Len(S)
      /\ \A i \in 1..n : S[i] = Replaced(lines[i], p) /\ lines[i] \in Lines
      /\ \A i \in (n + 1)..Len(S) : \E key \in Keys : S[i] = KeyOf(key, "plain", p[key])
  BY SaveLines
<1>2. ASSUME NEW key \in Keys
      PROVE  Found(S, key) # {} /\ LastOf(S, key) = AsRead(p[key])
  <2>1. PICK i \in 1..Len(S) :
           /\ S[i] = KeyOf(key, "plain", p[key])
           /\ i <= n => Owned(lines[i]) /\ lines[i].key = key
    <3>1. CASE \E i \in 1..n : lines[i].key = key /\ Owned(lines[i])
      <4>1. PICK i \in 1..n : lines[i].key = key /\ Owned(lines[i]) BY <3>1
      <4>2. i \in 1..Len(S) /\ lines[i] \in Lines /\ S[i] = Replaced(lines[i], p) BY <1>1
      <4>3. S[i] = KeyOf(key, "plain", p[key]) BY <4>1, <4>2, ReplacedTyped
      <4> QED BY <4>1, <4>2, <4>3
    <3>2. CASE \E i \in (n + 1)..Len(S) : S[i] = KeyOf(key, "plain", p[key])
      BY <3>2, <1>1
    <3> QED BY <3>1, <3>2, SaveLines
  <2>2. i \in Found(S, key)
    BY <1>1, <2>1 DEF Found, Parses, KeyOf
  <2>3. PICK j \in Found(S, key) : i <= j /\ LastOf(S, key) = AsRead(S[j].value)
    BY <1>1, <2>2, LastOfIsLast
  <2>4. j \in 1..Len(S) /\ S[j].key = key /\ Parses(S[j])
    BY <1>1, <2>3 DEF Found
  <2>5. S[j].value = p[key]
    <3>1. CASE j > n
      <4>1. PICK k \in Keys : S[j] = KeyOf(k, "plain", p[k])
        BY <1>1, <2>4, <3>1
      <4> QED BY <2>4, <4>1 DEF KeyOf
    <3>2. CASE j <= n /\ Owned(lines[j])
      <4>1. S[j] = KeyOf(lines[j].key, "plain", p[lines[j].key])
        <5>1. lines[j] \in Lines /\ S[j] = Replaced(lines[j], p) BY <1>1, <2>4, <3>2
        <5> QED BY <3>2, <5>1, ReplacedTyped
      <4> QED BY <2>4, <4>1 DEF KeyOf
    <3>3. CASE j <= n /\ ~Owned(lines[j])
      <4>1. S[j] = lines[j]
        <5>1. lines[j] \in Lines /\ S[j] = Replaced(lines[j], p) BY <1>1, <2>4, <3>3
        <5> QED BY <3>3, <5>1, ReplacedTyped
      <4>2. lines[j].form = "spaced" /\ lines[j].key = key
        BY <2>4, <3>3, <4>1 DEF Parses, Owned
      <4>3. i < j /\ Owned(S[i]) /\ S[i].key = key
        <5>1. S[i].form = "plain" /\ S[i].key = key BY <2>1 DEF KeyOf
        <5>2. i # j
          <6>1. S[j].form = "spaced" BY <4>1, <4>2
          <6> QED BY <5>1, <6>1
        <5> QED BY <2>1, <2>3, <2>4, <5>1, <5>2, <1>1 DEF Owned
      <4>4. S[j].form = "spaced" /\ S[j].key = key BY <4>1, <4>2
      <4> QED BY <1>1, <2>1, <2>4, <4>3, <4>4 DEF SavedLinesLast
    <3> QED BY <1>1, <2>4, <3>1, <3>2, <3>3
  <2> QED BY <2>2, <2>3, <2>5
<1>3. Load(S) = [id |-> AsRead(p["id"]), secret |-> AsRead(p["secret"])]
  BY <1>2 DEF Load, Keys
<1> QED BY <1>3 DEF PairAsRead

-----------------------------------------------------------------------------
(* What is written *)

\* A line that a write got this far with.
Shortened(part, line) ==
    \/ part.form \in {"text", "blanked"}
    \/ /\ part.key = line.key /\ part.form = line.form
       /\ part.value.text = line.value.text \/ part.value.text = NoText

LEMMA CutLineShortens ==
    ASSUME NEW line \in Lines, NEW part \in CutLine(line)
    PROVE  part \in Lines /\ Shortened(part, line)
<1>1. Empty \in Values /\ Empty.text = NoText
  BY TextAssumption DEF Empty, Values
<1>5. Text(Empty) \in Lines /\ Text(Empty).form = "text"
  BY <1>1 DEF Text, Lines, KeyOf
<1>2. CASE part = Text(Empty) BY <1>5, <1>2 DEF Shortened
<1>3. CASE line.form # "text" /\ part = [line EXCEPT !.value = [@ EXCEPT !.cut = TRUE]]
  BY <1>3 DEF Shortened, Lines, Values
<1>4. CASE line.form # "text" /\ part = [line EXCEPT !.value = Empty]
  BY <1>1, <1>4 DEF Shortened, Lines
<1>6. CASE \E key \in Keys : part = KeyOf(key, "blanked", Empty)
  <2>1. PICK key \in Keys : part = KeyOf(key, "blanked", Empty) BY <1>6
  <2>2. part \in Lines BY <1>1, <2>1, KeyOfTyped
  <2>3. part.form = "blanked" BY <2>1 DEF KeyOf
  <2> QED BY <2>2, <2>3 DEF Shortened
<1> QED BY <1>2, <1>3, <1>4, <1>6 DEF CutLine

LEMMA TornLines ==
    ASSUME NEW lines \in Seq(Lines), NEW torn \in Torn(lines)
    PROVE  /\ torn \in Seq(Lines) /\ Len(torn) <= Len(lines)
           /\ \A i \in 1..Len(torn) : Shortened(torn[i], lines[i])
<1>1. CASE \E n \in 0..Len(lines) : torn = SubSeq(lines, 1, n)
  <2>1. PICK n \in 0..Len(lines) : torn = SubSeq(lines, 1, n) BY <1>1
  <2> QED BY <2>1 DEF Shortened
<1>2. CASE \E n \in DOMAIN lines : \E line \in CutLine(lines[n]) :
              torn = Append(SubSeq(lines, 1, n - 1), line)
  <2>1. PICK n \in DOMAIN lines : \E line \in CutLine(lines[n]) :
           torn = Append(SubSeq(lines, 1, n - 1), line)
    BY <1>2
  <2>2. PICK line \in CutLine(lines[n]) : torn = Append(SubSeq(lines, 1, n - 1), line)
    BY <2>1
  <2>3. n \in 1..Len(lines) /\ lines[n] \in Lines OBVIOUS
  <2>4. line \in Lines /\ Shortened(line, lines[n]) BY <2>3, CutLineShortens
  <2> DEFINE T == SubSeq(lines, 1, n - 1)
  <2>5. /\ T \in Seq(Lines) /\ Len(T) = n - 1
        /\ \A i \in 1..(n - 1) : T[i] = lines[i]
    BY <2>3
  <2> HIDE DEF T
  <2>6. /\ torn = Append(T, line)
        /\ torn \in Seq(Lines) /\ Len(torn) = n /\ torn[n] = line
        /\ \A i \in 1..(n - 1) : torn[i] = T[i]
    BY <2>2, <2>3, <2>4, <2>5 DEF T
  <2> QED BY <2>3, <2>4, <2>5, <2>6 DEF Shortened
<1> QED BY <1>1, <1>2 DEF Torn

\* The assignments that saving recognises are of one pair, or were cut to nothing.
PlainFrom(lines, p) ==
    \A i \in DOMAIN lines :
        lines[i].form = "plain" =>
            lines[i].value.text \in {p[lines[i].key].text, NoText}

LEMMA SaveIsPlain ==
    ASSUME NEW lines \in Seq(Lines), NEW p \in Pairs
    PROVE  PlainFrom(Save(lines, p), p)
<1> DEFINE S == Save(lines, p)
           n == Len(lines)
<1>1. /\ S \in Seq(Lines) /\ n \in Nat /\ n <= Len(S) /\ DOMAIN S = 1..Len(S)
      /\ \A i \in 1..n : S[i] = Replaced(lines[i], p) /\ lines[i] \in Lines
      /\ \A i \in (n + 1)..Len(S) : \E key \in Keys : S[i] = KeyOf(key, "plain", p[key])
  BY SaveLines
<1> SUFFICES ASSUME NEW i \in 1..Len(S), S[i].form = "plain"
             PROVE  S[i].value = p[S[i].key]
  BY <1>1 DEF PlainFrom
<1>2. CASE i > n
  <2>1. PICK key \in Keys : S[i] = KeyOf(key, "plain", p[key]) BY <1>1, <1>2
  <2> QED BY <2>1 DEF KeyOf
<1>3. CASE i <= n /\ Owned(lines[i])
  <2>1. S[i] = KeyOf(lines[i].key, "plain", p[lines[i].key])
    <3>1. lines[i] \in Lines /\ S[i] = Replaced(lines[i], p) BY <1>1, <1>3
    <3> QED BY <1>3, <3>1, ReplacedTyped
  <2> QED BY <2>1 DEF KeyOf
<1>4. CASE i <= n /\ ~Owned(lines[i])
  <2>1. S[i] = lines[i]
    <3>1. lines[i] \in Lines /\ S[i] = Replaced(lines[i], p) BY <1>1, <1>4
    <3> QED BY <1>4, <3>1, ReplacedTyped
  <2> QED BY <1>4, <2>1 DEF Owned
<1> QED BY <1>1, <1>2, <1>3, <1>4

LEMMA TornIsPlain ==
    ASSUME NEW lines \in Seq(Lines), NEW p, PlainFrom(lines, p), NEW torn \in Torn(lines)
    PROVE  PlainFrom(torn, p)
<1>1. /\ torn \in Seq(Lines) /\ Len(torn) <= Len(lines)
      /\ \A i \in 1..Len(torn) : Shortened(torn[i], lines[i])
  BY TornLines
<1> SUFFICES ASSUME NEW i \in 1..Len(torn), torn[i].form = "plain"
             PROVE  torn[i].value.text \in {p[torn[i].key].text, NoText}
  BY <1>1 DEF PlainFrom
<1>2. /\ torn[i].key = lines[i].key /\ lines[i].form = "plain"
      /\ torn[i].value.text = lines[i].value.text \/ torn[i].value.text = NoText
  BY <1>1 DEF Shortened
<1>3. i \in DOMAIN lines
  BY <1>1
<1> QED BY <1>2, <1>3 DEF PlainFrom

-----------------------------------------------------------------------------
(* The invariant *)

\* What would be loaded from the lines is of one origin (see PairNeverMixed).
OneOrigin(lines) ==
    (\A i \in DOMAIN lines : lines[i].form # "spaced")
        /\ Load(lines) # NoPair /\ Complete(Load(lines)) =>
        \E p \in Origins \ {NoPair} :
            Load(lines).id.text = p.id.text /\ Load(lines).secret.text = p.secret.text

FileOK(lines) == lines \in Seq(Lines) /\ OneOrigin(lines)

\* The lines are what saving makes of some file.
SavedAs(lines, p) == p \in Pairs /\ \E before \in Seq(Lines) : lines = Save(before, p)

\* A call holds a pair of the web player until it has written it.
FoundInv(s) ==
    /\ pc[s] \in {"read", "open", "write"} => \E b \in Bundles : found[s] \in Scraped(b)
    /\ pc[s] = "adopt" => found[s] \in Pairs

\* Whatever part of its lines is written, the file is in order.
DraftInv(s) ==
    pc[s] \in {"open", "write"} =>
        /\ FileOK(draft[s]) /\ SavedAs(draft[s], found[s])
        /\ \A torn \in Torn(draft[s]) : FileOK(torn)

SavedInv == saved # NoPair => SavedAs(env, saved)

IInv ==
    /\ TypeOK /\ SessionIsAsked
    /\ FileOK(env) /\ SavedInv
    /\ \A s \in Services : FoundInv(s) /\ DraftInv(s)

\* The secrets of a bundle are those of its seeds that decode.
Seeds == [secret : Texts, decodes : BOOLEAN, anchored : BOOLEAN]
Chosen(b, anchored) == {seed \in ToSet(b.seeds) : seed.decodes /\ seed.anchored = anchored}

LEMMA SecretsAreOfSeeds ==
    ASSUME NEW b \in Bundles, NEW anchored \in BOOLEAN
    PROVE  /\ Secrets(b, anchored) \in Seq(Texts)
           /\ \A i \in 1..Len(Secrets(b, anchored)) :
                 \E seed \in Chosen(b, anchored) : Secrets(b, anchored)[i] = seed.secret
           /\ Secrets(b, anchored) = <<>> => Chosen(b, anchored) = {}
<1> DEFINE seeds == Picked(b.seeds, Chosen(b, anchored))
<1>1. b.seeds \in Seq(Seeds)
  BY InputsAssumption DEF Seeds
<1>2. seeds \in Seq(Seeds) /\ ToSet(seeds) = ToSet(b.seeds) \cap Chosen(b, anchored)
  <2>1. \A i, j \in 1..Len(b.seeds) : i < j => <<b.seeds[i], b.seeds[j]>> \in Seeds \X Seeds
    BY <1>1, ElementOfSeq
  <2> QED BY <1>1, <2>1, PickedList
<1>3. Secrets(b, anchored) = [i \in DOMAIN seeds |-> seeds[i].secret]
  BY Zenon DEF Secrets, Chosen
<1> HIDE DEF seeds
<1>4. DOMAIN seeds = 1..Len(seeds) /\ Len(seeds) \in Nat /\ \A i \in 1..Len(seeds) : seeds[i] \in Seeds
  BY <1>2, LenProperties, ElementOfSeq
<1>5. /\ Secrets(b, anchored) \in Seq(Texts) /\ Len(Secrets(b, anchored)) = Len(seeds)
      /\ \A i \in 1..Len(seeds) : Secrets(b, anchored)[i] = seeds[i].secret
  BY <1>3, <1>4 DEF Seeds
<1>6. \A x : x \in ToSet(seeds) <=> \E i \in 1..Len(seeds) : seeds[i] = x
  BY <1>2, ToSetFacts
<1>7. ToSet(seeds) = Chosen(b, anchored)
  BY <1>2 DEF Chosen
<1>8. Secrets(b, anchored) = <<>> => Chosen(b, anchored) = {}
  BY <1>4, <1>5, <1>6, <1>7
<1> QED BY <1>5, <1>6, <1>7, <1>8

\* Anchored seeds come first.
LEMMA CandidatesTyped ==
    ASSUME NEW b \in Bundles
    PROVE  /\ Candidates(b) \in Seq(Texts)
           /\ Candidates(b) # <<>> =>
                 \E seed \in ToSet(b.seeds) :
                    /\ seed.decodes /\ seed.secret = Head(Candidates(b))
                    /\ \/ seed.anchored
                       \/ \A other \in ToSet(b.seeds) : other.decodes => ~other.anchored
<1> DEFINE P == Secrets(b, TRUE)
           Q == Secrets(b, FALSE)
<1>1. P \in Seq(Texts) /\ Q \in Seq(Texts) /\ Candidates(b) = P \o Q
  BY SecretsAreOfSeeds DEF Candidates
<1>2. Candidates(b) \in Seq(Texts)
  BY <1>1, ConcatProperties
<1>3. ASSUME Candidates(b) # <<>>, P # <<>>
      PROVE  \E seed \in Chosen(b, TRUE) : seed.secret = Head(Candidates(b))
  <2>1. 1 \in 1..Len(P) /\ Head(Candidates(b)) = P[1]
    <3> HIDE DEF P, Q
    <3> QED BY <1>1, <1>3
  <2> QED BY <2>1, SecretsAreOfSeeds
<1>4. ASSUME Candidates(b) # <<>>, P = <<>>
      PROVE  /\ Chosen(b, TRUE) = {}
             /\ \E seed \in Chosen(b, FALSE) : seed.secret = Head(Candidates(b))
  <2>1. 1 \in 1..Len(Q) /\ Head(Candidates(b)) = Q[1]
    <3> HIDE DEF P, Q
    <3> QED BY <1>1, <1>4
  <2> QED BY <1>4, <2>1, SecretsAreOfSeeds
<1>5. \A seed \in ToSet(b.seeds) : seed.decodes /\ seed.anchored => seed \in Chosen(b, TRUE)
  BY DEF Chosen
<1> HIDE DEF P, Q
<1> QED BY <1>2, <1>3, <1>4, <1>5 DEF Chosen

LEMMA ScrapedIsPair ==
    ASSUME NEW b \in Bundles, NEW p \in Scraped(b)
    PROVE  p \in Pairs /\ PairAsRead(p) \in Origins \ {NoPair}
<1>1. PICK secret \in ToSet(Candidates(b)) : p = [id |-> Whole(b.id), secret |-> Whole(secret)]
  BY DEF Scraped
<1>2. Candidates(b) \in Seq(Texts) /\ b.id \in Texts /\ NoPair \notin Pairs
  BY InputsAssumption, CandidatesTyped
<1>3. secret \in Texts
  BY <1>2 DEF ToSet
<1>4. p \in Pairs
  BY <1>1, <1>2, <1>3 DEF Pairs, Values, Whole
<1>5. PairAsRead(p) \in Origins
  BY DEF Origins
<1> QED BY <1>2, <1>4, <1>5, PairAsReadTyped

LEMMA HostFileOK ==
    ASSUME NEW lines \in HostFiles
    PROVE  FileOK(lines)
<1>1. lines \in Seq(Lines)
  BY InputsAssumption
<1>2. Load(lines) # NoPair => Load(lines) \in Origins \ {NoPair}
  BY DEF Origins
<1>3. OneOrigin(lines)
  BY <1>2 DEF OneOrigin
<1> QED BY <1>1, <1>3 DEF FileOK

LEMMA NoFileOK == FileOK(<<>>)
<1>1. <<>> \in Seq(Lines)
  OBVIOUS
<1>2. Load(<<>>) = NoPair
  <2>1. Found(<<>>, "id") = {} BY DEF Found
  <2> QED BY <2>1 DEF Load, Keys
<1> QED BY <1>1, <1>2 DEF FileOK, OneOrigin

\* Lines of one pair load as that pair.
LEMMA PlainIsOneOrigin ==
    ASSUME NEW lines \in Seq(Lines), NEW p \in Pairs, PairAsRead(p) \in Origins \ {NoPair},
           PlainFrom(lines, p)
    PROVE  OneOrigin(lines)
<1> SUFFICES ASSUME \A i \in DOMAIN lines : lines[i].form # "spaced",
                    Load(lines) # NoPair, Complete(Load(lines))
             PROVE  /\ Load(lines).id.text = PairAsRead(p).id.text
                    /\ Load(lines).secret.text = PairAsRead(p).secret.text
  BY DEF OneOrigin
<1>1. /\ \A key \in Keys : Found(lines, key) # {}
      /\ Load(lines).id = LastOf(lines, "id")
      /\ Load(lines).secret = LastOf(lines, "secret")
  BY DEF Load
<1>2. ASSUME NEW key \in Keys
      PROVE  LastOf(lines, key).text \in {PairAsRead(p)[key].text, NoText}
  <2>1. PICK i \in Found(lines, key) : LastOf(lines, key) = AsRead(lines[i].value)
    BY <1>1, LastOfIsLast
  <2>2. i \in DOMAIN lines /\ lines[i].key = key /\ lines[i].form = "plain"
    BY DEF Found, Parses
  <2>3. lines[i].value.text \in {p[key].text, NoText}
    BY <2>2 DEF PlainFrom
  <2>4. lines[i].value \in Values
    BY <2>2, LineTyped
  <2>5. LastOf(lines, key).text = Unquoted[lines[i].value.text]
    BY <2>1, <2>4, AsReadTyped
  <2>6. PairAsRead(p)[key].text = Unquoted[p[key].text]
    BY PairTyped, PairAsReadTyped, AsReadTyped
  <2> QED BY <2>3, <2>5, <2>6, TextAssumption
<1>3. Load(lines).id.text # NoText /\ Load(lines).secret.text # NoText
  BY DEF Complete
<1> QED BY <1>1, <1>2, <1>3 DEF Keys

\* What a save drafts, and every part of it.
LEMMA DraftOK ==
    ASSUME NEW lines \in Seq(Lines), NEW b \in Bundles, NEW p \in Scraped(b)
    PROVE  /\ FileOK(Save(lines, p)) /\ SavedAs(Save(lines, p), p)
           /\ \A torn \in Torn(Save(lines, p)) : FileOK(torn)
<1> DEFINE S == Save(lines, p)
<1>1. p \in Pairs /\ PairAsRead(p) \in Origins \ {NoPair} BY ScrapedIsPair
<1>2. S \in Seq(Lines) BY <1>1, SaveLines
<1>3. SavedAs(S, p) BY <1>1 DEF SavedAs
<1>4. PlainFrom(S, p) BY <1>1, SaveIsPlain
<1> HIDE DEF S
<1>5. FileOK(S) BY <1>1, <1>2, <1>4, PlainIsOneOrigin DEF FileOK
<1>6. ASSUME NEW torn \in Torn(S) PROVE FileOK(torn)
  <2>1. torn \in Seq(Lines) BY <1>2, TornLines
  <2>2. PlainFrom(torn, p) BY <1>2, <1>4, TornIsPlain
  <2> QED BY <1>1, <2>1, <2>2, PlainIsOneOrigin DEF FileOK
<1> QED BY <1>3, <1>5, <1>6 DEF S

-----------------------------------------------------------------------------
(* The steps *)

LEMMA InitOK == Init => IInv
<1> SUFFICES ASSUME Init PROVE IInv OBVIOUS
<1>1. env \in HostFiles /\ FileOK(env) BY HostFileOK DEF Init
<1>2. env \in Seq(Lines) BY <1>1 DEF FileOK
<1>3. \A s \in Services : pc[s] = "idle" BY DEF Init
<1>4. <<>> \in Seq(Lines) OBVIOUS
<1>5. TypeOK BY <1>2, <1>4 DEF Init, TypeOK
<1>6. SavedInv BY DEF Init, SavedInv
<1>7. SessionIsAsked BY DEF Init, SessionIsAsked
<1> QED BY <1>1, <1>3, <1>5, <1>6, <1>7 DEF IInv, FoundInv, DraftInv

\* The types of TypeOK, the file's apart.
CallsOK ==
    /\ pc \in [Services -> {"idle", "scrape", "read", "open", "write", "adopt"}]
    /\ config \in [Services -> Configs \cup {None}]
    /\ found \in [Services -> Pairs \cup {NoPair}]
    /\ draft \in [Services -> Seq(Lines)]
    /\ pair \in [Services -> Pairs \cup {NoPair}]
    /\ refreshed \in [Services -> BOOLEAN]
SessionOK ==
    /\ token \in [Services -> Tokens \cup {None}]
    /\ asked \in [Services -> Users \cup {None}]
    /\ SessionIsAsked
WorldOK ==
    /\ FileOK(env) /\ SavedInv /\ saved \in Pairs \cup {NoPair} /\ excused \in BOOLEAN
    /\ web \in Bundles
CallInv == \A s \in Services : FoundInv(s) /\ DraftInv(s)

LEMMA Parts == IInv <=> CallsOK /\ SessionOK /\ WorldOK /\ CallInv
BY DEF IInv, TypeOK, CallsOK, SessionOK, WorldOK, CallInv, FileOK

LEMMA NextParts == CallsOK' /\ SessionOK' /\ WorldOK' /\ CallInv' => IInv'
BY DEF IInv, TypeOK, CallsOK, SessionOK, WorldOK, CallInv, FileOK

\* Steps that leave a part alone.
LEMMA SessionKept == SessionOK /\ UNCHANGED session => SessionOK'
BY DEF SessionOK, SessionIsAsked, session
LEMMA WorldKept == WorldOK /\ UNCHANGED file /\ UNCHANGED web => WorldOK'
BY DEF WorldOK, SavedInv, SavedAs, file
LEMMA CallsKept ==
    CallsOK /\ CallInv /\ UNCHANGED <<calls, pair, refreshed>> => CallsOK' /\ CallInv'
BY DEF CallsOK, CallInv, FoundInv, DraftInv, calls

LEMMA ReturnOK ==
    ASSUME NEW s \in Services, CallsOK, CallInv, Return(s),
           UNCHANGED config,
           pair' \in [Services -> Pairs \cup {NoPair}], refreshed' \in [Services -> BOOLEAN]
    PROVE  CallsOK' /\ CallInv'
<1>0. <<>> \in Seq(Lines) OBVIOUS
<1>1. CallsOK' BY <1>0 DEF CallsOK, Return
<1>2. ASSUME NEW t \in Services PROVE FoundInv(t)' /\ DraftInv(t)'
  <2>1. CASE t = s BY <2>1, <1>1 DEF CallsOK, Return, FoundInv, DraftInv
  <2>2. CASE t # s BY <2>2 DEF CallsOK, CallInv, Return, FoundInv, DraftInv
  <2> QED BY <2>1, <2>2
<1> QED BY <1>1, <1>2 DEF CallInv

LEMMA CreateOK ==
    ASSUME NEW s \in Services, NEW c \in Configs, IInv, Create(s, c)
    PROVE  IInv'
<1>1. CallsOK /\ SessionOK /\ WorldOK /\ CallInv BY Parts
<1>2. PICK p \in {IF c.given # NoPair THEN c.given
                  ELSE IF c.persists THEN Load(env) ELSE NoPair} :
         /\ found' = [found EXCEPT ![s] = p]
         /\ pc' = [pc EXCEPT ![s] = IF p = NoPair THEN "scrape" ELSE "adopt"]
  BY DEF Create
<1>3. p \in Pairs \cup {NoPair}
  BY <1>1, <1>2, LoadTyped, InputsAssumption DEF WorldOK, FileOK
<1>4. CallsOK'
  BY <1>1, <1>2, <1>3 DEF CallsOK, Create
<1>5. ASSUME NEW t \in Services PROVE FoundInv(t)' /\ DraftInv(t)'
  <2>1. CASE t = s BY <1>1, <1>2, <1>3, <2>1 DEF CallsOK, FoundInv, DraftInv
  <2>2. CASE t # s
    <3>1. pc'[t] = pc[t] /\ found'[t] = found[t] /\ draft'[t] = draft[t]
      BY <1>1, <1>2, <2>2 DEF CallsOK, Create
    <3> QED BY <1>1, <3>1 DEF CallInv, FoundInv, DraftInv
  <2> QED BY <2>1, <2>2
<1>6. SessionOK' /\ WorldOK'
  BY <1>1, SessionKept, WorldKept DEF Create
<1>7. CallInv' BY <1>5 DEF CallInv
<1> QED BY <1>4, <1>6, <1>7, NextParts

\* The other services hold what they held.
OthersKeep(s) ==
    \A t \in Services \ {s} : pc'[t] = pc[t] /\ found'[t] = found[t] /\ draft'[t] = draft[t]

LEMMA OthersCallInv ==
    ASSUME NEW s \in Services, CallInv, OthersKeep(s), FoundInv(s)', DraftInv(s)'
    PROVE  CallInv'
BY DEF CallInv, OthersKeep, FoundInv, DraftInv

LEMMA RefreshOK ==
    ASSUME NEW s \in Services, IInv, Refresh(s)
    PROVE  IInv'
<1>1. CallsOK /\ SessionOK /\ WorldOK /\ CallInv BY Parts
<1>2. CallsOK' BY <1>1 DEF CallsOK, Refresh
<1>3. OthersKeep(s) /\ FoundInv(s)' /\ DraftInv(s)'
  BY <1>1 DEF CallsOK, Refresh, OthersKeep, FoundInv, DraftInv
<1>4. SessionOK' /\ WorldOK' BY <1>1, SessionKept, WorldKept DEF Refresh
<1> QED BY <1>1, <1>2, <1>3, <1>4, OthersCallInv, NextParts

LEMMA ScrapeOK ==
    ASSUME NEW s \in Services, IInv, Scrape(s)
    PROVE  IInv'
<1>1. CallsOK /\ SessionOK /\ WorldOK /\ CallInv BY Parts
<1>2. SessionOK' /\ WorldOK' BY <1>1, SessionKept, WorldKept DEF Scrape
<1>3. CASE Return(s)
  <2>1. CallsOK' /\ CallInv'
    BY <1>1, <1>3, ReturnOK DEF Scrape, CallsOK
  <2> QED BY <1>2, <2>1, NextParts
<1>4. CASE /\ Candidates(web) # <<>>
           /\ \E secret \in Picks(s) :
                 found' = [found EXCEPT ![s] = [id |-> Whole(web.id), secret |-> Whole(secret)]]
           /\ pc' = [pc EXCEPT ![s] = IF config[s].persists THEN "read" ELSE "adopt"]
           /\ UNCHANGED draft
  <2>1. PICK secret \in Picks(s) :
           found' = [found EXCEPT ![s] = [id |-> Whole(web.id), secret |-> Whole(secret)]]
    BY <1>4
  <2>2. Candidates(web) \in Seq(Texts) /\ web \in Bundles
    BY <1>1, CandidatesTyped DEF WorldOK
  <2>3. secret \in ToSet(Candidates(web))
    BY <1>4, <2>1, <2>2 DEF Picks, ToSet
  <2> DEFINE p == [id |-> Whole(web.id), secret |-> Whole(secret)]
  <2>4. p \in Scraped(web) BY <2>3 DEF Scraped
  <2>5. p \in Pairs BY <2>2, <2>4, ScrapedIsPair
  <2> HIDE DEF p
  <2>6. found' = [found EXCEPT ![s] = p] BY <2>1 DEF p
  <2>7. CallsOK' BY <1>1, <1>4, <2>5, <2>6 DEF CallsOK, Scrape
  <2>8. OthersKeep(s) BY <1>1, <1>4, <2>6 DEF CallsOK, OthersKeep
  <2>9. FoundInv(s)' /\ DraftInv(s)'
    BY <1>1, <1>4, <2>2, <2>4, <2>5, <2>6 DEF CallsOK, FoundInv, DraftInv
  <2> QED BY <1>1, <1>2, <2>7, <2>8, <2>9, OthersCallInv, NextParts
<1> QED BY <1>3, <1>4 DEF Scrape

LEMMA SaveReadOK ==
    ASSUME NEW s \in Services, IInv, SaveRead(s)
    PROVE  IInv'
<1>1. CallsOK /\ SessionOK /\ WorldOK /\ CallInv BY Parts
<1>2. SessionOK' BY <1>1, SessionKept DEF SaveRead
<1>3. PICK b \in Bundles : found[s] \in Scraped(b)
  BY <1>1 DEF CallInv, FoundInv, SaveRead
<1>4. PICK lines \in {env, <<>>} :
         /\ draft' = [draft EXCEPT ![s] = Save(lines, found[s])]
         /\ excused' = (excused \/ lines # env \/ ~Closed)
  BY DEF SaveRead
<1>5. lines \in Seq(Lines)
  BY <1>1, NoFileOK DEF WorldOK, FileOK
<1> DEFINE S == Save(lines, found[s])
<1>6. FileOK(S) /\ SavedAs(S, found[s]) /\ \A torn \in Torn(S) : FileOK(torn)
  BY <1>3, <1>5, DraftOK
<1> HIDE DEF S
<1>7. /\ draft' = [draft EXCEPT ![s] = S] /\ pc' = [pc EXCEPT ![s] = "open"]
      /\ found' = found
  BY <1>4 DEF SaveRead, S
<1>8. WorldOK'
  BY <1>1, <1>4 DEF WorldOK, SavedInv, SavedAs, FileOK, OneOrigin, SaveRead
<1>9. S \in Seq(Lines) BY <1>6 DEF FileOK
<1>10. CallsOK' BY <1>1, <1>7, <1>9 DEF CallsOK, SaveRead
<1>11. OthersKeep(s) BY <1>1, <1>7 DEF CallsOK, OthersKeep
<1>12. FoundInv(s)' /\ DraftInv(s)'
  BY <1>1, <1>3, <1>6, <1>7 DEF CallsOK, FoundInv, DraftInv
<1> QED BY <1>1, <1>2, <1>8, <1>10, <1>11, <1>12, OthersCallInv, NextParts

LEMMA SaveOpenOK ==
    ASSUME NEW s \in Services, IInv, SaveOpen(s)
    PROVE  IInv'
<1>1. CallsOK /\ SessionOK /\ WorldOK /\ CallInv BY Parts
<1>2. SessionOK' BY <1>1, SessionKept DEF SaveOpen
<1>3. CASE Return(s) /\ UNCHANGED file
  <2>1. CallsOK' /\ CallInv'
    BY <1>1, <1>3, ReturnOK DEF SaveOpen, CallsOK
  <2>2. WorldOK' BY <1>1, <1>3, WorldKept DEF SaveOpen
  <2> QED BY <1>2, <2>1, <2>2, NextParts
<1>4. CASE /\ env' = <<>> /\ saved' = NoPair
           /\ pc' = [pc EXCEPT ![s] = "write"]
           /\ UNCHANGED <<found, draft, others, excused>>
  <2>1. FileOK(env') BY <1>4, NoFileOK
  <2>2. WorldOK' BY <1>1, <1>4, <2>1 DEF WorldOK, SavedInv, SavedAs, SaveOpen, FileOK, OneOrigin
  <2>3. CallsOK' BY <1>1, <1>4 DEF CallsOK, SaveOpen
  <2>4. OthersKeep(s) BY <1>1, <1>4 DEF CallsOK, OthersKeep
  <2>5. FoundInv(s)' /\ DraftInv(s)'
    BY <1>1, <1>4 DEF CallsOK, CallInv, FoundInv, DraftInv, SaveOpen
  <2> QED BY <1>1, <1>2, <2>2, <2>3, <2>4, <2>5, OthersCallInv, NextParts
<1> QED BY <1>3, <1>4 DEF SaveOpen

LEMMA SaveWriteOK ==
    ASSUME NEW s \in Services, IInv, SaveWrite(s)
    PROVE  IInv'
<1>1. CallsOK /\ SessionOK /\ WorldOK /\ CallInv BY Parts
<1>2. SessionOK' BY <1>1, SessionKept DEF SaveWrite
<1>3. FileOK(draft[s]) /\ SavedAs(draft[s], found[s])
  BY <1>1 DEF CallInv, DraftInv, SaveWrite
<1>4. found[s] \in Pairs
  BY <1>1, ScrapedIsPair DEF CallInv, FoundInv, SaveWrite
<1>5. env' = draft[s] /\ saved' = found[s] BY DEF SaveWrite
<1>6. FileOK(env') BY <1>3, <1>5
<1>7. SavedAs(env', saved') BY <1>3, <1>5
<1>8. WorldOK'
  BY <1>1, <1>4, <1>5, <1>6, <1>7 DEF WorldOK, SavedInv, SavedAs, SaveWrite, FileOK, OneOrigin
<1>9. <<>> \in Seq(Lines) OBVIOUS
<1>10. CallsOK' BY <1>1, <1>9 DEF CallsOK, SaveWrite
<1>11. OthersKeep(s) BY <1>1 DEF CallsOK, OthersKeep, SaveWrite
<1>12. FoundInv(s)' /\ DraftInv(s)'
  BY <1>1, <1>4 DEF CallsOK, FoundInv, DraftInv, SaveWrite
<1> QED BY <1>1, <1>2, <1>8, <1>10, <1>11, <1>12, OthersCallInv, NextParts

LEMMA SaveCutOK ==
    ASSUME NEW s \in Services, IInv, SaveCut(s)
    PROVE  IInv'
<1>1. CallsOK /\ SessionOK /\ WorldOK /\ CallInv BY Parts
<1>2. SessionOK' BY <1>1, SessionKept DEF SaveCut
<1>3. FileOK(env') BY <1>1 DEF CallInv, DraftInv, SaveCut
<1>4. WorldOK' BY <1>1, <1>3 DEF WorldOK, SavedInv, SavedAs, SaveCut, FileOK, OneOrigin
<1>5. CASE Return(s)
  <2>1. CallsOK' /\ CallInv'
    BY <1>1, <1>5, ReturnOK DEF SaveCut, CallsOK
  <2> QED BY <1>2, <1>4, <2>1, NextParts
<1>6. CASE /\ pc' = [pc EXCEPT ![s] = "adopt"]
           /\ draft' = [draft EXCEPT ![s] = <<>>]
           /\ UNCHANGED found
  <2>1. found[s] \in Pairs
    BY <1>1, ScrapedIsPair DEF CallInv, FoundInv, SaveCut
  <2>2. <<>> \in Seq(Lines) OBVIOUS
  <2>3. CallsOK' BY <1>1, <1>6, <2>2 DEF CallsOK, SaveCut
  <2>4. OthersKeep(s) BY <1>1, <1>6 DEF CallsOK, OthersKeep
  <2>5. FoundInv(s)' /\ DraftInv(s)'
    BY <1>1, <1>6, <2>1 DEF CallsOK, FoundInv, DraftInv
  <2> QED BY <1>1, <1>2, <1>4, <2>3, <2>4, <2>5, OthersCallInv, NextParts
<1> QED BY <1>5, <1>6 DEF SaveCut

LEMMA AdoptOK ==
    ASSUME NEW s \in Services, IInv, Adopt(s)
    PROVE  IInv'
<1>1. CallsOK /\ SessionOK /\ WorldOK /\ CallInv BY Parts
<1>2. SessionOK' /\ WorldOK' BY <1>1, SessionKept, WorldKept DEF Adopt
<1>3. found[s] \in Pairs BY <1>1 DEF CallInv, FoundInv, Adopt
<1>4. /\ pair' \in [Services -> Pairs \cup {NoPair}]
      /\ refreshed' \in [Services -> BOOLEAN]
  BY <1>1, <1>3 DEF CallsOK, Adopt
<1>5. CallsOK' /\ CallInv'
  BY <1>1, <1>4, ReturnOK DEF Adopt
<1> QED BY <1>2, <1>5, NextParts

\* A login leaves a session as it was, or one that belongs to the asked user.
LEMMA LoggedInOK ==
    ASSUME NEW s \in Services, SessionOK, NEW t \in Tokens, NEW user \in Users \cup {None},
           user = None \/ Owner[t] = user, LoggedIn(s, t, user)
    PROVE  SessionOK'
BY DEF SessionOK, SessionIsAsked, LoggedIn

LEMMA LoginFailedOK == SessionOK /\ (\E s \in Services : LoginFailed(s)) => SessionOK'
BY SessionKept DEF LoginFailed

LEMMA LoginOK ==
    ASSUME NEW s \in Services, SessionOK, NEW user, Login(s, user)
    PROVE  SessionOK'
<1>1. CASE LoginFailed(s) BY <1>1, LoginFailedOK
<1>2. CASE \E t \in Tokens : Owner[t] = user /\ LoggedIn(s, t, user)
  <2>1. PICK t \in Tokens : Owner[t] = user /\ LoggedIn(s, t, user) BY <1>2
  <2>2. user \in Users BY <2>1, InputsAssumption
  <2> QED BY <2>1, <2>2, LoggedInOK
<1> QED BY <1>1, <1>2 DEF Login

LEMMA LoginWithTokenOK ==
    ASSUME NEW s \in Services, SessionOK, NEW user, NEW t \in Tokens, LoginWithToken(s, user, t)
    PROVE  SessionOK'
<1>1. CASE LoginFailed(s) BY <1>1, LoginFailedOK
<1>2. CASE Owner[t] = user /\ LoggedIn(s, t, user)
  <2>1. user \in Users BY <1>2, InputsAssumption
  <2> QED BY <1>2, <2>1, LoggedInOK
<1>3. CASE LoggedIn(s, t, None) BY <1>3, LoggedInOK
<1> QED BY <1>1, <1>2, <1>3 DEF LoginWithToken

LEMMA AuthenticateOK ==
    ASSUME NEW s \in Services, SessionOK, NEW var \in Variables, Authenticate(s, var)
    PROVE  SessionOK'
<1>1. CASE var.user_id # None /\ var.auth_token # None
  <2>1. var.auth_token \in Tokens BY <1>1, InputsAssumption
  <2>2. LoginWithToken(s, var.user_id, var.auth_token) BY <1>1 DEF Authenticate
  <2> QED BY <2>1, <2>2, LoginWithTokenOK
<1>2. CASE ~(var.user_id # None /\ var.auth_token # None)
  <2>1. LoginFailed(s) \/ \E user : Login(s, user) BY <1>2 DEF Authenticate
  <2> QED BY <2>1, LoginOK, LoginFailedOK
<1> QED BY <1>1, <1>2

LEMMA SessionStepOK ==
    ASSUME NEW s \in Services, IInv, Session(s)
    PROVE  IInv'
<1>1. CallsOK /\ SessionOK /\ WorldOK /\ CallInv BY Parts
<1>2. CallsOK' /\ CallInv' BY <1>1, CallsKept DEF Session
<1>3. WorldOK' BY <1>1, WorldKept DEF Session
<1>4. SessionOK'
  <2>1. CASE \E user \in Users : Login(s, user) BY <1>1, <2>1, LoginOK
  <2>2. CASE \E user \in Users, t \in Tokens : LoginWithToken(s, user, t)
    BY <1>1, <2>2, LoginWithTokenOK
  <2>3. CASE \E var \in Variables : Authenticate(s, var) BY <1>1, <2>3, AuthenticateOK
  <2>4. CASE \E t \in Tokens : SetAuthToken(s, t)
    BY <1>1, <2>4 DEF SessionOK, SessionIsAsked, SetAuthToken
  <2> QED BY <2>1, <2>2, <2>3, <2>4 DEF Session
<1> QED BY <1>2, <1>3, <1>4, NextParts

LEMMA DestroyOK ==
    ASSUME NEW s \in Services, IInv, Destroy(s)
    PROVE  IInv'
<1>1. CallsOK /\ SessionOK /\ WorldOK /\ CallInv BY Parts
<1>2. CallsOK' /\ CallInv'
  BY <1>1 DEF Destroy, CallsOK, CallInv, FoundInv, DraftInv, calls
<1>3. WorldOK' BY <1>1, WorldKept DEF Destroy
<1>4. SessionOK' BY <1>1 DEF SessionOK, SessionIsAsked, Destroy
<1> QED BY <1>2, <1>3, <1>4, NextParts

LEMMA CrashOK ==
    ASSUME IInv, Crash
    PROVE  IInv'
<1>1. CallsOK /\ SessionOK /\ WorldOK /\ CallInv BY Parts
<1>2. PICK lines \in {env} \cup UNION {Torn(draft[s]) : s \in {t \in Services : pc[t] = "write"}} :
         /\ env' = lines
         /\ saved' = IF lines = env THEN saved ELSE NoPair
  BY DEF Crash
<1>3. FileOK(lines) BY <1>1, <1>2 DEF WorldOK, CallInv, DraftInv
<1>4. FileOK(env') BY <1>2, <1>3
<1>5. WorldOK'
  BY <1>1, <1>2, <1>4 DEF WorldOK, SavedInv, SavedAs, Crash, FileOK, OneOrigin
<1>6. <<>> \in Seq(Lines) OBVIOUS
<1>7. CallsOK' BY <1>6 DEF Crash, CallsOK
<1>8. CallInv' BY DEF Crash, CallInv, FoundInv, DraftInv
<1>9. SessionOK' BY DEF Crash, SessionOK, SessionIsAsked
<1> QED BY <1>5, <1>7, <1>8, <1>9, NextParts

LEMMA HostEditOK ==
    ASSUME IInv, HostEdit
    PROVE  IInv'
<1>1. CallsOK /\ SessionOK /\ WorldOK /\ CallInv BY Parts
<1>2. CallsOK' /\ CallInv' /\ SessionOK' BY <1>1, CallsKept, SessionKept DEF HostEdit
<1>3. FileOK(env') BY HostFileOK DEF HostEdit
<1>4. WorldOK'
  BY <1>1, <1>3 DEF WorldOK, SavedInv, SavedAs, HostEdit, FileOK, OneOrigin
<1> QED BY <1>2, <1>4, NextParts

LEMMA RotateOK ==
    ASSUME IInv, Rotate
    PROVE  IInv'
<1>1. CallsOK /\ SessionOK /\ WorldOK /\ CallInv BY Parts
<1>2. CallsOK' /\ CallInv' /\ SessionOK' BY <1>1, CallsKept, SessionKept DEF Rotate
<1>3. WorldOK' BY <1>1 DEF WorldOK, SavedInv, SavedAs, Rotate, file
<1> QED BY <1>2, <1>3, NextParts

LEMMA StepOK == IInv /\ [Next]_vars => IInv'
<1> SUFFICES ASSUME IInv, [Next]_vars PROVE IInv' OBVIOUS
<1>1. ASSUME NEW s \in Services, Call(s) PROVE IInv'
  BY <1>1, CreateOK, RefreshOK, ScrapeOK, SaveReadOK, SaveOpenOK, SaveWriteOK,
     SaveCutOK, AdoptOK, SessionStepOK, DestroyOK DEF Call
<1>2. CASE Crash BY <1>2, CrashOK
<1>3. CASE HostEdit BY <1>3, HostEditOK
<1>4. CASE Rotate BY <1>4, RotateOK
<1>5. CASE UNCHANGED vars
  <2>1. CallsOK /\ SessionOK /\ WorldOK /\ CallInv BY Parts
  <2> QED BY <1>5, <2>1, CallsKept, SessionKept, WorldKept, NextParts DEF vars
<1> QED BY <1>1, <1>2, <1>3, <1>4, <1>5 DEF Next

LEMMA Invariance == Spec => []IInv
BY InitOK, StepOK, PTL DEF Spec

-----------------------------------------------------------------------------
(* The theorems *)

\* Types, for any number of services and any files, bundles and accounts.
THEOREM TypeCorrect == Spec => []TypeOK
<1>1. IInv => TypeOK BY DEF IInv
<1> QED BY <1>1, Invariance, PTL

\* For any files, bundles and services: what a save wrote whole is what a restart
\* loads, blanks and quotes aside, as long as no line that saving does not replace
\* follows one of its key that it did, whatever else the host wrote.
THEOREM SavedCredentialsLoad == Spec => []SavedIsLoaded
<1>1. IInv => SavedIsLoaded
  <2> SUFFICES ASSUME IInv, saved # NoPair, SavedLinesLast(env)
               PROVE  Load(env) = PairAsRead(saved)
    BY DEF SavedIsLoaded
  <2>1. saved \in Pairs /\ \E lines \in Seq(Lines) : env = Save(lines, saved)
    BY DEF IInv, SavedInv, SavedAs
  <2> QED BY <2>1, SaveThenLoad
<1> QED BY <1>1, Invariance, PTL

\* In a file without lines that saving does not recognise no crash, no cut write, no
\* overlapping save and no moment of a save lets a restart load the id of one origin,
\* or its beginning, with the secret of another.
THEOREM NoMixedPair == Spec => []PairNeverMixed
<1>1. IInv => PairNeverMixed BY DEF IInv, FileOK, OneOrigin, PairNeverMixed
<1> QED BY <1>1, Invariance, PTL

\* Whatever logins succeed or fail, a vouched session is the asked user's.
THEOREM SessionsAreAsked == Spec => []SessionIsAsked
<1>1. IInv => SessionIsAsked BY DEF IInv
<1> QED BY <1>1, Invariance, PTL

-----------------------------------------------------------------------------
(* The host's own lines *)

\* Saving puts nothing into the place of a line it does not own, and appends lines
\* that the next save would own.
LEMMA SaveKeepsOthers ==
    ASSUME NEW lines \in Seq(Lines), NEW p \in Pairs
    PROVE  OtherLines(Save(lines, p)) = OtherLines(lines)
<1> DEFINE new == Save(lines, p)
           T == {line \in ToSet(lines) : ~Owned(line)}
           U == {line \in ToSet(new) : ~Owned(line)}
<1>1. /\ new \in Seq(Lines) /\ Len(lines) <= Len(new)
      /\ \A i \in 1..Len(lines) : new[i] = Replaced(lines[i], p)
      /\ \A i \in (Len(lines) + 1)..Len(new) :
            \E key \in Keys : new[i] = KeyOf(key, "plain", p[key])
  BY SaveLines
<1> HIDE DEF new
<1>2. /\ Len(lines) \in Nat /\ Len(new) \in Nat
      /\ \A i \in 1..Len(lines) : lines[i] \in Lines /\ lines[i] \in ToSet(lines)
      /\ \A i \in 1..Len(new) : new[i] \in ToSet(new)
  BY <1>1, LenProperties, ElementOfSeq, ToSetFacts
<1>3. ASSUME NEW i \in 1..Len(lines)
      PROVE  (lines[i] \in T <=> new[i] \in U) /\ (lines[i] \in T => new[i] = lines[i])
  <2>1. i \in 1..Len(new)
    BY <1>1, <1>2
  <2>2. new[i] = Replaced(lines[i], p)
    BY <1>1
  <2>3. CASE Owned(lines[i])
    <3>1. Owned(new[i])
      BY <2>2, <2>3 DEF Replaced, KeyOf, Owned
    <3> QED BY <2>3, <3>1
  <2>4. CASE ~Owned(lines[i])
    <3>1. new[i] = lines[i]
      BY <2>2, <2>4 DEF Replaced
    <3> QED BY <1>2, <2>1, <2>4, <3>1
  <2> QED BY <2>3, <2>4
<1>4. ASSUME NEW i \in 1..Len(new), i > Len(lines) PROVE new[i] \notin U
  <2>1. i \in (Len(lines) + 1)..Len(new)
    BY <1>2, <1>4
  <2>2. PICK key \in Keys : new[i] = KeyOf(key, "plain", p[key])
    BY <1>1, <2>1
  <2> QED BY <2>2 DEF Owned, KeyOf
<1>5. Picked(new, U) = Picked(lines, T)
  <2> HIDE DEF T, U
  <2> QED BY <1>1, <1>3, <1>4, SamePicked
<1> QED BY <1>5 DEF OtherLines, new

\* Until there is an excuse, what every save will write has the host's lines.
OthersInv ==
    /\ OtherLinesKept
    /\ ~excused => \A s \in Services : pc[s] \in {"open", "write"} => OtherLines(draft[s]) = others

\* Steps of a call outside open and write.
LEMMA OutsideKeepsOthers ==
    ASSUME NEW s \in Services, OthersInv, UNCHANGED <<env, others, excused>>,
           pc[s] # "write", pc'[s] \notin {"open", "write"}, OthersKeep(s)
    PROVE  OthersInv'
BY DEF OthersInv, OtherLinesKept, Closed, OthersKeep

LEMMA SaveReadKeepsOthers ==
    ASSUME NEW s \in Services, IInv, OthersInv, SaveRead(s)
    PROVE  OthersInv'
<1>1. CallsOK /\ WorldOK /\ CallInv BY Parts
<1> SUFFICES ASSUME ~excused' PROVE OthersInv'
  BY DEF OthersInv, OtherLinesKept
<1>2. ~excused /\ Closed /\ draft' = [draft EXCEPT ![s] = Save(env, found[s])]
  BY DEF SaveRead
<1>3. OtherLines(env) = others
  BY <1>2 DEF OthersInv, OtherLinesKept
<1>4. env \in Seq(Lines) /\ found[s] \in Pairs
  BY <1>1, ScrapedIsPair DEF WorldOK, FileOK, CallInv, FoundInv, SaveRead
<1>5. /\ pc'[s] = "open" /\ draft'[s] = Save(env, found[s]) /\ UNCHANGED <<env, others>>
      /\ \A t \in Services \ {s} : pc'[t] = pc[t] /\ draft'[t] = draft[t]
  BY <1>1, <1>2 DEF CallsOK, SaveRead
<1>6. OtherLines(draft'[s]) = others
  BY <1>3, <1>4, <1>5, SaveKeepsOthers
<1> QED BY <1>2, <1>3, <1>5, <1>6 DEF OthersInv, OtherLinesKept

LEMMA SaveOpenKeepsOthers ==
    ASSUME NEW s \in Services, IInv, OthersInv, SaveOpen(s)
    PROVE  OthersInv'
<1>1. CallsOK /\ pc[s] = "open" BY Parts DEF SaveOpen
<1>2. CASE Return(s) /\ UNCHANGED file
  <2>1. pc'[s] = "idle" /\ OthersKeep(s) /\ UNCHANGED <<env, others, excused>>
    BY <1>1, <1>2 DEF CallsOK, Return, OthersKeep, file
  <2> QED BY <1>1, <2>1, OutsideKeepsOthers
<1>3. CASE /\ pc' = [pc EXCEPT ![s] = "write"]
           /\ UNCHANGED <<found, draft, others, excused>>
  <2>1. pc'[s] = "write" /\ \A t \in Services \ {s} : pc'[t] = pc[t]
    BY <1>1, <1>3 DEF CallsOK
  <2> QED BY <1>1, <1>3, <2>1 DEF OthersInv, OtherLinesKept, Closed
<1> QED BY <1>2, <1>3 DEF SaveOpen

LEMMA SaveWriteKeepsOthers ==
    ASSUME NEW s \in Services, IInv, OthersInv, SaveWrite(s)
    PROVE  OthersInv'
<1>1. CallsOK /\ pc[s] = "write" BY Parts DEF SaveWrite
<1>2. ~excused => OtherLines(draft[s]) = others
  BY <1>1 DEF OthersInv
<1>3. /\ env' = draft[s] /\ UNCHANGED <<others, excused>> /\ pc'[s] = "adopt"
      /\ \A t \in Services \ {s} : pc'[t] = pc[t] /\ draft'[t] = draft[t]
  BY <1>1 DEF CallsOK, SaveWrite
<1> QED BY <1>2, <1>3 DEF OthersInv, OtherLinesKept

LEMMA CrashKeepsOthers == OthersInv /\ Crash => OthersInv'
<1> SUFFICES ASSUME OthersInv, Crash, ~excused' PROVE OthersInv'
  BY DEF OthersInv, OtherLinesKept
<1>1. \A s \in Services : pc'[s] = "idle"
  BY DEF Crash
<1>2. ~excused /\ Closed /\ others' = others
  BY DEF Crash
<1>3. env' = env
  BY <1>2 DEF Crash, Closed
<1>4. OtherLines(env) = others
  BY <1>2 DEF OthersInv, OtherLinesKept
<1> QED BY <1>1, <1>2, <1>3, <1>4 DEF OthersInv, OtherLinesKept

LEMMA HostEditKeepsOthers == OthersInv /\ HostEdit => OthersInv'
<1> SUFFICES ASSUME OthersInv, HostEdit, ~excused' PROVE OthersInv'
  BY DEF OthersInv, OtherLinesKept
<1>1. \A s \in Services : pc'[s] \notin {"open", "write"}
  BY DEF HostEdit, Closed, calls
<1>2. OtherLines(env') = others'
  BY DEF HostEdit
<1> QED BY <1>1, <1>2 DEF OthersInv, OtherLinesKept

LEMMA CallKeepsOthers ==
    ASSUME NEW s \in Services, IInv, OthersInv, Call(s)
    PROVE  OthersInv'
<1>1. CallsOK BY Parts
<1>2. CASE \E c \in Configs : Create(s, c)
  <2>1. pc[s] = "idle" /\ pc'[s] \notin {"open", "write"} /\ OthersKeep(s) /\ UNCHANGED <<env, others, excused>>
    BY <1>1, <1>2 DEF CallsOK, Create, OthersKeep, file
  <2> QED BY <2>1, OutsideKeepsOthers
<1>3. CASE Refresh(s)
  <2>1. pc[s] = "idle" /\ pc'[s] \notin {"open", "write"} /\ OthersKeep(s) /\ UNCHANGED <<env, others, excused>>
    BY <1>1, <1>3 DEF CallsOK, Refresh, OthersKeep, file
  <2> QED BY <2>1, OutsideKeepsOthers
<1>4. CASE Scrape(s) \/ Adopt(s)
  <2>1. pc[s] \in {"scrape", "adopt"} /\ pc'[s] \notin {"open", "write"} /\ OthersKeep(s)
        /\ UNCHANGED <<env, others, excused>>
    BY <1>1, <1>4 DEF CallsOK, Scrape, Adopt, Return, OthersKeep, file
  <2> QED BY <2>1, OutsideKeepsOthers
<1>5. CASE Session(s) \/ Destroy(s)
  <2>1. UNCHANGED <<env, others, excused, pc, draft>>
    BY <1>5 DEF Session, Destroy, file, calls
  <2> QED BY <2>1 DEF OthersInv, OtherLinesKept, Closed
<1>6. CASE SaveCut(s)
  BY <1>6 DEF SaveCut, OthersInv, OtherLinesKept
<1> QED BY <1>2, <1>3, <1>4, <1>5, <1>6, SaveReadKeepsOthers, SaveOpenKeepsOthers,
           SaveWriteKeepsOthers DEF Call

LEMMA NextKeepsOthers == IInv /\ OthersInv /\ [Next]_vars => OthersInv'
<1> SUFFICES ASSUME IInv, OthersInv, [Next]_vars PROVE OthersInv'
  OBVIOUS
<1>1. CASE \E s \in Services : Call(s)
  BY <1>1, CallKeepsOthers
<1>2. CASE Crash
  BY <1>2, CrashKeepsOthers
<1>3. CASE HostEdit
  BY <1>3, HostEditKeepsOthers
<1>4. CASE Rotate \/ UNCHANGED vars
  BY <1>4 DEF Rotate, vars, file, calls, OthersInv, OtherLinesKept, Closed
<1> QED BY <1>1, <1>2, <1>3, <1>4 DEF Next

\* However many services save, the lines of the host stay in its file, in order, for
\* files of any length, until a save is cut short, cannot read the file, or overlaps
\* with another writer.
THEOREM HostLinesStay == Spec => []OtherLinesKept
<1>1. Init => OthersInv
  BY DEF Init, OthersInv, OtherLinesKept
<1>2. OthersInv => OtherLinesKept
  BY DEF OthersInv
<1> QED BY <1>1, <1>2, NextKeepsOthers, Invariance, PTL DEF Spec

-----------------------------------------------------------------------------
(* The guess of create() *)

\* A step that leaves the scraping of create() behind takes the first candidate.
AnchoredGuess ==
    \A s \in Services :
        pc[s] = "scrape" /\ pair[s] = NoPair /\ pc'[s] \in {"read", "adopt"} =>
            LET decoded == {seed \in ToSet(web.seeds) : seed.decodes}
            IN  \E seed \in decoded :
                   /\ Whole(seed.secret) = found'[s].secret
                   /\ seed.anchored \/ \A other \in decoded : ~other.anchored

LEMMA ScrapeGuesses ==
    ASSUME NEW s \in Services, IInv, Scrape(s), pair[s] = NoPair, pc'[s] \in {"read", "adopt"}
    PROVE  LET decoded == {seed \in ToSet(web.seeds) : seed.decodes}
           IN  \E seed \in decoded :
                  /\ Whole(seed.secret) = found'[s].secret
                  /\ seed.anchored \/ \A other \in decoded : ~other.anchored
<1>1. CallsOK /\ web \in Bundles
  BY Parts DEF WorldOK
<1>2. ~Return(s)
  BY <1>1 DEF CallsOK, Return
<1>3. /\ Candidates(web) # <<>>
      /\ found' = [found EXCEPT ![s] = [id |-> Whole(web.id),
                                        secret |-> Whole(Head(Candidates(web)))]]
  BY <1>2 DEF Scrape, Picks
<1>4. found'[s].secret = Whole(Head(Candidates(web)))
  BY <1>1, <1>3 DEF CallsOK
<1>5. PICK seed \in ToSet(web.seeds) :
         /\ seed.decodes /\ seed.secret = Head(Candidates(web))
         /\ \/ seed.anchored
            \/ \A other \in ToSet(web.seeds) : other.decodes => ~other.anchored
  BY <1>1, <1>3, CandidatesTyped
<1> QED BY <1>4, <1>5

\* Only its own Scrape moves a call out of the scraping.
LEMMA OnlyScrapeLeaves ==
    ASSUME NEW s \in Services, IInv, [Next]_vars, pc[s] = "scrape", pc'[s] # "scrape"
    PROVE  Scrape(s) \/ pc'[s] = "idle"
<1>1. CallsOK BY Parts
<1>2. CASE Crash
  BY <1>2 DEF Crash
<1>3. CASE HostEdit \/ Rotate \/ UNCHANGED vars
  BY <1>3 DEF HostEdit, Rotate, calls, vars
<1>4. ASSUME NEW t \in Services, Call(t) PROVE Scrape(s) \/ pc'[s] = "idle"
  <2>1. CASE t = s
    BY <1>4, <2>1 DEF Call, Create, Refresh, SaveRead, SaveOpen, SaveWrite,
       SaveCut, Adopt, Session, Destroy, Ready
  <2>2. CASE t # s
    <3>1. pc'[s] = pc[s]
      BY <1>1, <1>4, <2>2 DEF CallsOK, Call, Create, Refresh, Scrape, SaveRead,
         SaveOpen, SaveWrite, SaveCut, Adopt, Session, Destroy, Return, calls
    <3> QED BY <3>1
  <2> QED BY <2>1, <2>2
<1> QED BY <1>2, <1>3, <1>4 DEF Next

\* The secret create() commits to is one behind "):" whenever one decodes, for any
\* bundle: the two lists it joins keep the anchored seeds before the others.
THEOREM GuessesAnchored == Spec => GuessIsAnchored
<1>1. IInv /\ [Next]_vars => [AnchoredGuess]_vars
  BY ScrapeGuesses, OnlyScrapeLeaves DEF AnchoredGuess
<1>2. GuessIsAnchored <=> [][AnchoredGuess]_vars
  BY DEF GuessIsAnchored, AnchoredGuess
<1> QED BY <1>1, <1>2, Invariance, PTL DEF Spec
=============================================================================
