-------------------------- MODULE Insertion_proofs --------------------------
(***************************************************************************)
(* What the conversion of line endings and the insertion of a snippet do   *)
(* to texts of any length, by induction over their positions: all that     *)
(* Insertion promises of lines, endings, names and the selection.          *)
(***************************************************************************)
EXTENDS Insertion, FiniteSetTheorems, SequenceTheorems, WellFoundedInduction, TLAPS

-----------------------------------------------------------------------------
(* Induction over positions.  The induction rules of the library are about  *)
(* operators; these are about sets, so that they can be cited.              *)

(* Every set of natural numbers has a least element, since no finite set    *)
(* contains ever smaller ones.                                              *)
LEMMA LeastElement ==
  ASSUME NEW A \in SUBSET Nat, A # {}
  PROVE  \E m \in A : \A a \in A : m <= a
<1> DEFINE T == {0..a : a \in A}
<1>1. T \subseteq FiniteSubsetsOf(Nat)
  <2>1. \A a \in A : IsFiniteSet(0..a)
    BY FS_Interval
  <2>2. \A a \in A : 0..a \in FiniteSubsetsOf(Nat)
    BY <2>1 DEF FiniteSubsetsOf
  <2>3. QED
    BY <2>2
<1>2. T # {}
  OBVIOUS
<1>3. IsWellFoundedOn(StrictSubsetOrdering(Nat), FiniteSubsetsOf(Nat))
  BY FS_StrictSubsetOrderingWellFounded
<1> HIDE DEF T
<1>4. PICK x \in T : \A y \in T : ~ (<<y, x>> \in StrictSubsetOrdering(Nat))
  BY <1>1, <1>2, <1>3, WFMin
<1> USE DEF T
<1>5. PICK m \in A : x = 0..m
  BY <1>4
<1>6. ASSUME NEW a \in A, a < m  PROVE FALSE
  <2>1. 0..a \in T /\ 0..a \subseteq 0..m /\ 0..a # 0..m
    BY <1>6
  <2>2. <<0..a, x>> \in StrictSubsetOrdering(Nat)
    BY <2>1, <1>5 DEF StrictSubsetOrdering
  <2>3. QED
    BY <2>1, <2>2, <1>4
<1>7. QED
  BY <1>6

(* Induction from the end of a text to its beginning.                       *)
LEMMA Backwards ==
  ASSUME NEW n \in Nat, NEW S,
         \A i \in 1..n : (\A j \in i + 1..n : j \in S) => i \in S
  PROVE  \A i \in 1..n : i \in S
<1> DEFINE A == {k \in Nat : k \in 0..n - 1 /\ n - k \notin S}
<1>1. SUFFICES ASSUME A # {} PROVE FALSE
  <2>1. SUFFICES ASSUME NEW i \in 1..n, i \notin S PROVE A # {}
    BY <1>1
  <2>2. n - i \in A
    BY <2>1
  <2>3. QED
    BY <2>2
<1>2. PICK m \in A : \A a \in A : m <= a
  <2>1. A \in SUBSET Nat
    OBVIOUS
  <2> HIDE DEF A
  <2>2. QED
    BY <1>1, <2>1, LeastElement
<1>3. ASSUME NEW j \in n - m + 1..n PROVE j \in S
  <2>1. n - j \in Nat /\ n - j < m /\ n - j \in 0..n - 1 /\ n - (n - j) = j
    BY <1>2
  <2>2. n - j \notin A
    BY <1>2, <2>1
  <2>3. QED
    BY <2>1, <2>2
<1>4. n - m \in 1..n /\ n - m \notin S
  BY <1>2
<1>5. QED
  BY <1>3, <1>4

-----------------------------------------------------------------------------
(* The conversion, one character at a time. *)

(* What the loop of ConvertLineEnding adds for character i, followed by     *)
(* what it makes of the rest.                                               *)
Converted(from, mode, to, i) ==
  CASE i > Len(from) -> <<>>
    [] i < Len(from) /\ from[i] = CR ->
         LineEnd(mode) \o to[IF from[i + 1] = LF THEN i + 2 ELSE i + 1]
    [] i <= Len(from) /\ from[i] = LF -> LineEnd(mode) \o to[i + 1]
    [] OTHER -> <<from[i]>> \o to[i + 1]

(* The recursion of ConvertedFrom is well-founded: there is such a function.*)
LEMMA ConvertedExists ==
  ASSUME NEW from \in Seq(Chars), NEW mode
  PROVE  \E g : g = [j \in 1..Len(from) + 1 |-> Converted(from, mode, g, j)]
<1> DEFINE n == Len(from) + 1
           S == {i \in 1..n : \E g : g = [j \in i..n |-> Converted(from, mode, g, j)]}
<1>1. n \in Nat /\ 1 \in 1..n
  OBVIOUS
<1>2. ASSUME NEW i \in 1..n, \A j \in i + 1..n : j \in S
      PROVE  i \in S
  <2>1. CASE i = n
    <3> DEFINE g == [j \in i..n |-> <<>>]
    <3>1. \A j \in i..n : Converted(from, mode, g, j) = <<>>
      BY <2>1 DEF Converted
    <3>2. g = [j \in i..n |-> Converted(from, mode, g, j)]
      BY <3>1
    <3>3. QED
      BY <3>2
  <2>2. CASE i # n
    <3>1. i + 1 \in S
      BY <1>2, <2>2
    <3>2. PICK g : g = [j \in i + 1..n |-> Converted(from, mode, g, j)]
      BY <3>1
    <3> DEFINE h == [j \in i..n |-> IF j = i THEN Converted(from, mode, g, i) ELSE g[j]]
    <3>3. \A j \in i + 1..n : h[j] = g[j]
      BY <1>2
    <3>4. \A j \in i..n : Converted(from, mode, h, j) = Converted(from, mode, g, j)
      BY <3>3 DEF Converted
    <3>5. \A j \in i + 1..n : g[j] = Converted(from, mode, g, j)
      BY <3>2
    <3>6. h = [j \in i..n |-> Converted(from, mode, h, j)]
      BY <3>3, <3>4, <3>5
    <3>7. QED
      BY <3>6
  <2>3. QED
    BY <2>1, <2>2
<1> HIDE DEF S, n
<1>3. 1 \in S
  BY <1>1, <1>2, Backwards
<1>4. QED
  BY <1>3 DEF S, n

(* So ConvertedFrom is one.                                                 *)
LEMMA ConvertedUnfolds ==
  ASSUME NEW from \in Seq(Chars), NEW mode, NEW i \in 1..Len(from) + 1
  PROVE  ConvertedFrom(from, mode)[i] = Converted(from, mode, ConvertedFrom(from, mode), i)
<1>1. ConvertedFrom(from, mode) =
        CHOOSE g : g = [j \in 1..Len(from) + 1 |-> Converted(from, mode, g, j)]
  BY DEF ConvertedFrom, Converted
<1>2. ConvertedFrom(from, mode) =
        [j \in 1..Len(from) + 1 |-> Converted(from, mode, ConvertedFrom(from, mode), j)]
  BY <1>1, ConvertedExists
<1>3. QED
  BY <1>2

(* The four kinds of characters, and what the loop makes of the text from   *)
(* such a character on.                                                     *)
ConvertedStep(from, mode, to, i) ==
  \/ from[i] \notin {CR, LF} /\ to[i] = <<from[i]>> \o to[i + 1]
  \/ from[i] = CR /\ i = Len(from) /\ to[i] = <<CR>> \o to[i + 1]
  \/ /\ from[i] = LF \/ (from[i] = CR /\ i < Len(from) /\ from[i + 1] # LF)
     /\ to[i] = LineEnd(mode) \o to[i + 1]
  \/ /\ from[i] = CR /\ i < Len(from) /\ from[i + 1] = LF
     /\ to[i] = LineEnd(mode) \o to[i + 2]

(* Every character is of one of these kinds.                                *)
LEMMA ConvertedRules ==
  ASSUME NEW from \in Seq(Chars), NEW mode, NEW to, to = ConvertedFrom(from, mode)
  PROVE  /\ to[Len(from) + 1] = <<>>
         /\ \A i \in 1..Len(from) : ConvertedStep(from, mode, to, i)
<1>1. to[Len(from) + 1] = <<>>
  <2>1. Len(from) \in Nat /\ Len(from) + 1 \in 1..Len(from) + 1
    OBVIOUS
  <2>2. to[Len(from) + 1] = Converted(from, mode, to, Len(from) + 1)
    BY <2>1, ConvertedUnfolds
  <2>3. Len(from) + 1 > Len(from) /\ ~(Len(from) + 1 < Len(from)) /\ ~(Len(from) + 1 <= Len(from))
    BY <2>1
  <2>4. QED
    BY <2>2, <2>3 DEF Converted
<1>2. SUFFICES ASSUME NEW i \in 1..Len(from)
               PROVE  ConvertedStep(from, mode, to, i)
  BY <1>1
<1>3. to[i] = Converted(from, mode, to, i)
  <2>1. i \in 1..Len(from) + 1
    OBVIOUS
  <2>2. QED
    BY <2>1, ConvertedUnfolds
<1>4. CR # LF /\ ~(i > Len(from)) /\ i <= Len(from) /\ (i < Len(from) \/ i = Len(from))
  BY DEF CR, LF
<1>5. CASE from[i] \notin {CR, LF}
  BY <1>3, <1>4, <1>5 DEF Converted, ConvertedStep
<1>6. CASE from[i] = LF
  BY <1>3, <1>4, <1>6 DEF Converted, ConvertedStep
<1>7. CASE from[i] = CR /\ i = Len(from)
  BY <1>3, <1>4, <1>7 DEF Converted, ConvertedStep
<1>8. CASE from[i] = CR /\ i < Len(from) /\ from[i + 1] = LF
  BY <1>3, <1>4, <1>8 DEF Converted, ConvertedStep
<1>9. CASE from[i] = CR /\ i < Len(from) /\ from[i + 1] # LF
  BY <1>3, <1>4, <1>9 DEF Converted, ConvertedStep
<1>10. QED
  BY <1>4, <1>5, <1>6, <1>7, <1>8, <1>9

(* Line ends are characters.                                                *)
LEMMA LineEndType ==
  ASSUME NEW mode \in EolModes
  PROVE  /\ LineEnd(mode) \in Seq(Chars) /\ LineEnd(mode) # <<>>
         /\ CR \in Chars /\ LF \in Chars /\ CR # LF
         /\ <<CR>> \in Seq(Chars) /\ <<CR>> # <<>>
<1>1. CR \in Chars /\ LF \in Chars /\ CR # LF
  BY DEF Chars, Spaces, CR, LF
<1>2. mode = "CRLF" \/ mode = "CR" \/ mode = "LF"
  BY DEF EolModes
<1>3. LineEnd(mode) \in {<<CR, LF>>, <<CR>>, <<LF>>}
  BY <1>2 DEF LineEnd
<1>4. <<CR, LF>> \in Seq(Chars) /\ <<CR>> \in Seq(Chars) /\ <<LF>> \in Seq(Chars)
  BY <1>1
<1>5. <<CR, LF>> # <<>> /\ <<CR>> # <<>> /\ <<LF>> # <<>>
  OBVIOUS
<1>6. QED
  BY <1>1, <1>3, <1>4, <1>5

(* What is converted is a text, from every character on.                    *)
LEMMA ConvertedType ==
  ASSUME NEW from \in Seq(Chars), NEW mode \in EolModes, NEW to, to = ConvertedFrom(from, mode)
  PROVE  \A i \in 1..Len(from) + 1 : to[i] \in Seq(Chars)
<1> DEFINE n == Len(from) + 1
           S == {i \in 1..n : to[i] \in Seq(Chars)}
<1>1. ASSUME NEW i \in 1..n, \A j \in i + 1..n : j \in S
      PROVE  i \in S
  <2>1. CASE i = n
    <3>1. to[n] = Converted(from, mode, to, n)
      BY ConvertedUnfolds
    <3>2. to[n] = <<>>
      BY <3>1 DEF Converted
    <3>3. <<>> \in Seq(Chars)
      OBVIOUS
    <3>4. QED
      BY <3>2, <3>3, <2>1
  <2>2. CASE i \in 1..Len(from)
    <3>1. /\ from[i] \in Chars
          /\ to[i + 1] \in Seq(Chars)
          /\ i < Len(from) => to[i + 2] \in Seq(Chars)
      BY <1>1, <2>2
    <3>2. <<from[i]>> \in Seq(Chars)
      BY <3>1
    <3>3. \/ to[i] = <<from[i]>> \o to[i + 1]
          \/ to[i] = <<CR>> \o to[i + 1]
          \/ to[i] = LineEnd(mode) \o to[i + 1]
          \/ i < Len(from) /\ to[i] = LineEnd(mode) \o to[i + 2]
      <4>1. ConvertedStep(from, mode, to, i)
        BY <2>2, ConvertedRules
      <4>2. QED
        BY <4>1 DEF ConvertedStep
    <3>4. LineEnd(mode) \in Seq(Chars) /\ <<CR>> \in Seq(Chars)
      BY LineEndType
    <3>5. to[i] \in Seq(Chars)
      <4>1. \A s, t \in Seq(Chars) : s \o t \in Seq(Chars)
        BY ConcatProperties
      <4>2. QED
        BY <3>1, <3>2, <3>3, <3>4, <4>1, Zenon
    <3>6. QED
      BY <3>5
  <2>3. QED
    BY <2>1, <2>2
<1>2. n \in Nat
  OBVIOUS
<1> HIDE DEF S, n
<1>3. \A i \in 1..n : i \in S
  BY <1>1, <1>2, Backwards
<1>4. QED
  BY <1>3 DEF S, n

(* The conversion of a text is a text.                                      *)
LEMMA ConversionType ==
  ASSUME NEW from \in Seq(Chars), NEW mode \in EolModes
  PROVE  ConvertLineEnding(from, mode) \in Seq(Chars)
  BY ConvertedType DEF ConvertLineEnding

-----------------------------------------------------------------------------
(* The lines of a text. *)

(* The lines from character i on, given those of the rest.                  *)
LinesAt(text, lines, i) ==
  CASE i > Len(text) -> <<>>
    [] i \in 2..Len(text) /\ text[i] = LF /\ text[i - 1] = CR -> lines[i + 1]
    [] OTHER -> <<IF text[i] = CR THEN LF ELSE text[i]>> \o lines[i + 1]

(* The recursion of LinesFrom is well-founded, too.                         *)
LEMMA LinesExist ==
  ASSUME NEW text \in Seq(Chars)
  PROVE  \E g : g = [j \in 1..Len(text) + 1 |-> LinesAt(text, g, j)]
<1> DEFINE n == Len(text) + 1
           S == {i \in 1..n : \E g : g = [j \in i..n |-> LinesAt(text, g, j)]}
<1>1. n \in Nat /\ 1 \in 1..n
  OBVIOUS
<1>2. ASSUME NEW i \in 1..n, \A j \in i + 1..n : j \in S
      PROVE  i \in S
  <2>1. CASE i = n
    <3> DEFINE g == [j \in i..n |-> <<>>]
    <3>1. \A j \in i..n : LinesAt(text, g, j) = <<>>
      BY <2>1 DEF LinesAt
    <3>2. g = [j \in i..n |-> LinesAt(text, g, j)]
      BY <3>1
    <3>3. QED
      BY <3>2
  <2>2. CASE i # n
    <3>1. i + 1 \in S
      BY <1>2, <2>2
    <3>2. PICK g : g = [j \in i + 1..n |-> LinesAt(text, g, j)]
      BY <3>1
    <3> DEFINE h == [j \in i..n |-> IF j = i THEN LinesAt(text, g, i) ELSE g[j]]
    <3>3. \A j \in i + 1..n : h[j] = g[j]
      BY <1>2
    <3>4. \A j \in i..n : LinesAt(text, h, j) = LinesAt(text, g, j)
      BY <3>3 DEF LinesAt
    <3>5. \A j \in i + 1..n : g[j] = LinesAt(text, g, j)
      BY <3>2
    <3>6. h = [j \in i..n |-> LinesAt(text, h, j)]
      BY <3>3, <3>4, <3>5
    <3>7. QED
      BY <3>6
  <2>3. QED
    BY <2>1, <2>2
<1> HIDE DEF S, n
<1>3. 1 \in S
  BY <1>1, <1>2, Backwards
<1>4. QED
  BY <1>3 DEF S, n

(* So LinesFrom is such a function.                                         *)
LEMMA LinesUnfold ==
  ASSUME NEW text \in Seq(Chars), NEW i \in 1..Len(text) + 1
  PROVE  LinesFrom(text)[i] = LinesAt(text, LinesFrom(text), i)
<1>1. LinesFrom(text) = CHOOSE g : g = [j \in 1..Len(text) + 1 |-> LinesAt(text, g, j)]
  BY DEF LinesFrom, LinesAt
<1>2. LinesFrom(text) = [j \in 1..Len(text) + 1 |-> LinesAt(text, LinesFrom(text), j)]
  BY <1>1, LinesExist
<1>3. QED
  BY <1>2

(* A line feed that belongs to the carriage return before it.               *)
Joined(text, i) == i \in 2..Len(text) /\ text[i] = LF /\ text[i - 1] = CR

(* How a character shows among the lines.                                   *)
Shown(c) == IF c = CR THEN LF ELSE c

(* The two kinds of characters for Lines.                                   *)
LEMMA LinesRules ==
  ASSUME NEW text \in Seq(Chars), NEW lines, lines = LinesFrom(text)
  PROVE  /\ lines[Len(text) + 1] = <<>>
         /\ \A i \in 1..Len(text) :
              \/ Joined(text, i) /\ lines[i] = lines[i + 1]
              \/ ~Joined(text, i) /\ lines[i] = <<Shown(text[i])>> \o lines[i + 1]
<1>1. lines[Len(text) + 1] = <<>>
  <2>1. Len(text) \in Nat /\ Len(text) + 1 \in 1..Len(text) + 1
    OBVIOUS
  <2>2. lines[Len(text) + 1] = LinesAt(text, lines, Len(text) + 1)
    BY <2>1, LinesUnfold
  <2>3. Len(text) + 1 > Len(text) /\ Len(text) + 1 \notin 2..Len(text)
    BY <2>1
  <2>4. QED
    BY <2>2, <2>3 DEF LinesAt
<1>2. SUFFICES ASSUME NEW i \in 1..Len(text)
               PROVE  \/ Joined(text, i) /\ lines[i] = lines[i + 1]
                      \/ ~Joined(text, i) /\ lines[i] = <<Shown(text[i])>> \o lines[i + 1]
  BY <1>1
<1>3. lines[i] = LinesAt(text, lines, i)
  <2>1. i \in 1..Len(text) + 1
    OBVIOUS
  <2>2. QED
    BY <2>1, LinesUnfold
<1>4. ~(i > Len(text))
  OBVIOUS
<1>5. CASE Joined(text, i)
  BY <1>3, <1>4, <1>5 DEF LinesAt, Joined
<1>6. CASE ~Joined(text, i)
  BY <1>3, <1>4, <1>6 DEF LinesAt, Joined, Shown
<1>7. QED
  BY <1>5, <1>6

(* A character put before a text.                                           *)
LEMMA Prepended ==
  ASSUME NEW c \in Chars, NEW t \in Seq(Chars), NEW u, u = <<c>> \o t
  PROVE  /\ u \in Seq(Chars) /\ Len(u) = Len(t) + 1 /\ u[1] = c
         /\ \A k \in 1..Len(t) : u[k + 1] = t[k]
<1>1. <<c>> \in Seq(Chars) /\ Len(<<c>>) = 1 /\ <<c>>[1] = c
  OBVIOUS
<1>2. /\ u \in Seq(Chars) /\ Len(u) = 1 + Len(t)
      /\ \A k \in 1..1 + Len(t) : u[k] = IF k <= 1 THEN <<c>>[k] ELSE t[k - 1]
  BY <1>1, ConcatProperties
<1>3. QED
  BY <1>1, <1>2

(* The lines of a text are those of its rest, too, but for a CR LF that is  *)
(* parted.                                                                  *)
LEMMA LinesShift ==
  ASSUME NEW c \in Chars, NEW t \in Seq(Chars), NEW u, u = <<c>> \o t
  PROVE  \A i \in 1..Len(t) + 1 :
           ~(i = 1 /\ c = CR /\ Len(t) >= 1 /\ t[1] = LF) => LinesFrom(u)[i + 1] = LinesFrom(t)[i]
<1> DEFINE n == Len(t) + 1
           S == {i \in 1..n : ~(i = 1 /\ c = CR /\ Len(t) >= 1 /\ t[1] = LF) =>
                                LinesFrom(u)[i + 1] = LinesFrom(t)[i]}
<1>1. /\ u \in Seq(Chars) /\ Len(u) = Len(t) + 1 /\ u[1] = c
      /\ \A k \in 1..Len(t) : u[k + 1] = t[k]
  BY Prepended
<1>2. ASSUME NEW i \in 1..n, \A j \in i + 1..n : j \in S
      PROVE  i \in S
  <2>1. CASE i = n
    <3>1. LinesFrom(u)[Len(u) + 1] = <<>> /\ LinesFrom(t)[Len(t) + 1] = <<>>
      BY <1>1, LinesRules
    <3>2. QED
      BY <2>1, <3>1, <1>1
  <2>2. CASE i \in 1..Len(t)
    <3>1. SUFFICES ASSUME ~(i = 1 /\ c = CR /\ Len(t) >= 1 /\ t[1] = LF)
                   PROVE  LinesFrom(u)[i + 1] = LinesFrom(t)[i]
      BY <2>2
    <3>2. LinesFrom(u)[i + 2] = LinesFrom(t)[i + 1]
      <4>1. i + 1 \in i + 1..n /\ i + 1 # 1 /\ (i + 1) + 1 = i + 2
        BY <2>2
      <4>2. i + 1 \in S
        BY <1>2, <4>1, Zenon
      <4>3. LinesFrom(u)[(i + 1) + 1] = LinesFrom(t)[i + 1]
        BY <4>1, <4>2, Zenon
      <4>4. QED
        BY <4>1, <4>3, Zenon
    <3>3. Joined(u, i + 1) <=> Joined(t, i)
      <4>1. CASE i = 1
        BY <1>1, <2>2, <3>1, <4>1 DEF Joined
      <4>2. CASE i > 1
        <5>1. u[i + 1] = t[i] /\ u[i] = t[i - 1]
          BY <1>1, <2>2, <4>2
        <5>2. i + 1 \in 2..Len(u) /\ i \in 2..Len(t) /\ (i + 1) - 1 = i
          BY <1>1, <2>2, <4>2
        <5>3. QED
          BY <5>1, <5>2 DEF Joined
      <4>3. QED
        BY <2>2, <4>1, <4>2
    <3>4. u[i + 1] = t[i] /\ i + 1 \in 1..Len(u) /\ (i + 1) + 1 = i + 2
      BY <1>1, <2>2
    <3>5. \/ Joined(u, i + 1) /\ LinesFrom(u)[i + 1] = LinesFrom(u)[i + 2]
          \/ ~Joined(u, i + 1) /\ LinesFrom(u)[i + 1] = <<Shown(t[i])>> \o LinesFrom(u)[i + 2]
      <4>1. LinesFrom(u)[(i + 1) + 1] = LinesFrom(u)[i + 2]
        BY <3>4
      <4>2. \/ Joined(u, i + 1) /\ LinesFrom(u)[i + 1] = LinesFrom(u)[(i + 1) + 1]
            \/ ~Joined(u, i + 1) /\ LinesFrom(u)[i + 1] = <<Shown(u[i + 1])>> \o LinesFrom(u)[(i + 1) + 1]
        BY <1>1, <3>4, LinesRules
      <4>3. QED
        BY <4>1, <4>2, <3>4, Zenon
    <3>6. \/ Joined(t, i) /\ LinesFrom(t)[i] = LinesFrom(t)[i + 1]
          \/ ~Joined(t, i) /\ LinesFrom(t)[i] = <<Shown(t[i])>> \o LinesFrom(t)[i + 1]
      BY <2>2, LinesRules
    <3>7. QED
      BY <3>2, <3>3, <3>5, <3>6, Zenon
  <2>3. QED
    BY <2>1, <2>2
<1>3. n \in Nat
  OBVIOUS
<1> HIDE DEF S, n
<1>4. \A i \in 1..n : i \in S
  BY <1>2, <1>3, Backwards
<1>5. QED
  BY <1>4 DEF S, n

(* A character before a text that no CR LF joins to it.                     *)
LEMMA LinesOfOneMore ==
  ASSUME NEW c \in Chars, NEW t \in Seq(Chars), ~(c = CR /\ Len(t) >= 1 /\ t[1] = LF)
  PROVE  Lines(<<c>> \o t) = <<Shown(c)>> \o Lines(t)
<1> DEFINE u == <<c>> \o t
<1>1. u \in Seq(Chars) /\ Len(u) = Len(t) + 1 /\ u[1] = c
  BY Prepended
<1>2. 1 \in 1..Len(u) /\ ~Joined(u, 1) /\ 1 + 1 = 2 /\ 1 \in 1..Len(t) + 1
  BY <1>1 DEF Joined
<1>3. LinesFrom(u)[2] = LinesFrom(t)[1]
  <2>1. LinesFrom(u)[1 + 1] = LinesFrom(t)[1]
    BY <1>2, LinesShift
  <2>2. QED
    BY <2>1, <1>2
<1> HIDE DEF u
<1>4. LinesFrom(u)[1] = <<Shown(c)>> \o LinesFrom(u)[2]
  BY <1>1, <1>2, LinesRules
<1>5. Lines(u) = <<Shown(c)>> \o Lines(t)
  BY <1>3, <1>4 DEF Lines
<1>6. QED
  BY <1>5 DEF u

(* A line end before a text is one line more; the carriage return alone     *)
(* must not be before a line feed.                                          *)
LEMMA LinesOfLineEnd ==
  ASSUME NEW mode \in EolModes, NEW t \in Seq(Chars),
         mode = "CR" => ~(Len(t) >= 1 /\ t[1] = LF)
  PROVE  Lines(LineEnd(mode) \o t) = <<LF>> \o Lines(t)
<1>1. CR \in Chars /\ LF \in Chars /\ CR # LF /\ Shown(CR) = LF /\ Shown(LF) = LF
  BY LineEndType DEF Shown
<1>2. CASE mode = "CR"
  <2>1. LineEnd(mode) = <<CR>>
    BY <1>2 DEF LineEnd
  <2>2. Lines(<<CR>> \o t) = <<LF>> \o Lines(t)
    BY <1>1, <1>2, LinesOfOneMore
  <2>3. QED
    BY <2>1, <2>2
<1>3. CASE mode = "LF"
  <2>1. LineEnd(mode) = <<LF>>
    BY <1>3 DEF LineEnd
  <2>2. Lines(<<LF>> \o t) = <<LF>> \o Lines(t)
    BY <1>1, LinesOfOneMore
  <2>3. QED
    BY <2>1, <2>2
<1>4. CASE mode = "CRLF"
  <2> DEFINE v == <<LF>> \o t
             u == <<CR>> \o v
  <2>1. v \in Seq(Chars) /\ Len(v) = Len(t) + 1 /\ v[1] = LF
    BY <1>1, Prepended
  <2>2. LinesFrom(v)[2] = LinesFrom(t)[1]
    <3>1. 1 \in 1..Len(t) + 1 /\ 1 + 1 = 2
      OBVIOUS
    <3>2. LinesFrom(v)[1 + 1] = LinesFrom(t)[1]
      BY <1>1, <3>1, LinesShift
    <3>3. QED
      BY <3>1, <3>2
  <2> HIDE DEF v
  <2>3. u \in Seq(Chars) /\ Len(u) = Len(v) + 1 /\ u[1] = CR /\ u[2] = LF
    <3>1. /\ u \in Seq(Chars) /\ Len(u) = Len(v) + 1 /\ u[1] = CR
          /\ \A k \in 1..Len(v) : u[k + 1] = v[k]
      BY <1>1, <2>1, Prepended
    <3>2. 1 \in 1..Len(v) /\ 1 + 1 = 2
      BY <2>1
    <3>3. QED
      BY <2>1, <3>1, <3>2
  <2>4. LinesFrom(u)[3] = LinesFrom(v)[2]
    <3>1. 2 \in 1..Len(v) + 1 /\ 2 # 1 /\ 2 + 1 = 3
      BY <2>1
    <3>2. u = <<CR>> \o v /\ CR \in Chars /\ v \in Seq(Chars)
      BY <1>1, <2>1, Zenon
    <3> HIDE DEF u
    <3>3. \A i \in 1..Len(v) + 1 : i # 1 => LinesFrom(u)[i + 1] = LinesFrom(v)[i]
      BY <3>2, LinesShift, Zenon
    <3>4. QED
      BY <3>1, <3>3
  <2> HIDE DEF u
  <2>5. Joined(u, 2) /\ ~Joined(u, 1) /\ 1 \in 1..Len(u) /\ 2 \in 1..Len(u)
    BY <2>1, <2>3 DEF Joined
  <2>6. LinesFrom(u)[2] = LinesFrom(u)[3]
    <3>1. LinesFrom(u)[2] = LinesFrom(u)[2 + 1]
      BY <2>3, <2>5, LinesRules
    <3>2. 2 + 1 = 3
      OBVIOUS
    <3>3. QED
      BY <3>1, <3>2
  <2>7. LinesFrom(u)[1] = <<LF>> \o LinesFrom(u)[2]
    <3>1. LinesFrom(u)[1] = <<Shown(u[1])>> \o LinesFrom(u)[1 + 1]
      BY <2>3, <2>5, LinesRules
    <3>2. 1 + 1 = 2
      OBVIOUS
    <3>3. QED
      BY <1>1, <2>3, <3>1, <3>2
  <2>8. Lines(u) = <<LF>> \o Lines(t)
    BY <2>2, <2>4, <2>6, <2>7 DEF Lines
  <2>9. LineEnd(mode) \o t = u
    <3>1. LineEnd(mode) = <<CR, LF>>
      BY <1>4 DEF LineEnd
    <3>2. <<CR>> \in Seq(Chars) /\ <<LF>> \in Seq(Chars)
      BY <1>1
    <3>3. <<CR, LF>> = <<CR>> \o <<LF>>
      <4> DEFINE both == <<CR>> \o <<LF>>
      <4>1. both \in Seq(Chars) /\ Len(both) = Len(<<LF>>) + 1 /\ both[1] = CR
            /\ \A k \in 1..Len(<<LF>>) : both[k + 1] = <<LF>>[k]
        BY <1>1, <3>2, Prepended
      <4> HIDE DEF both
      <4>2. Len(both) = 2 /\ both[1] = CR /\ both[2] = LF
        BY <4>1
      <4>3. <<CR, LF>> \in Seq(Chars) /\ Len(<<CR, LF>>) = 2
        BY <1>1
      <4>4. \A k \in 1..2 : <<CR, LF>>[k] = both[k]
        BY <4>2
      <4>5. <<CR, LF>> = both
        BY <4>1, <4>2, <4>3, <4>4, SeqEqual
      <4>6. QED
        BY <4>5 DEF both
    <3>4. (<<CR>> \o <<LF>>) \o t = <<CR>> \o (<<LF>> \o t)
      BY <3>2, ConcatAssociative
    <3>5. QED
      BY <3>1, <3>3, <3>4 DEF u, v
  <2>10. QED
    BY <2>8, <2>9
<1>5. QED
  BY <1>2, <1>3, <1>4 DEF EolModes

(* A conversion to CR has no line feed at its beginning, from any character *)
(* on.                                                                      *)
LEMMA NoLineFeedFirst ==
  ASSUME NEW from \in Seq(Chars), NEW to, to = ConvertedFrom(from, "CR"),
         NEW i \in 1..Len(from) + 1
  PROVE  ~(Len(to[i]) >= 1 /\ to[i][1] = LF)
<1>1. "CR" \in EolModes /\ CR \in Chars /\ LineEnd("CR") = <<CR>> /\ CR # LF
  BY LineEndType DEF EolModes, LineEnd
<1>2. CASE i = Len(from) + 1
  <2>1. to[i] = <<>>
    BY <1>2, ConvertedRules
  <2>2. Len(to[i]) = 0
    BY <2>1
  <2>3. QED
    BY <2>2
<1>3. CASE i \in 1..Len(from)
  <2>1. /\ to[i + 1] \in Seq(Chars) /\ from[i] \in Chars
        /\ i < Len(from) => to[i + 2] \in Seq(Chars)
    BY <1>1, <1>3, ConvertedType
  <2>2. ConvertedStep(from, "CR", to, i)
    BY <1>3, ConvertedRules
  <2>3. PICK c \in Chars, t \in Seq(Chars) : to[i] = <<c>> \o t /\ c # LF
    <3>1. CASE from[i] \notin {CR, LF} /\ to[i] = <<from[i]>> \o to[i + 1]
      BY <2>1, <3>1
    <3>2. CASE to[i] = <<CR>> \o to[i + 1]
      BY <1>1, <2>1, <3>2
    <3>3. CASE i < Len(from) /\ to[i] = <<CR>> \o to[i + 2]
      BY <1>1, <2>1, <3>3
    <3>4. QED
      BY <1>1, <2>2, <3>1, <3>2, <3>3 DEF ConvertedStep
  <2>4. to[i][1] = c
    BY <2>3, Prepended
  <2>5. QED
    BY <2>3, <2>4
<1>4. QED
  BY <1>2, <1>3

(* A conversion keeps the lines of what it converts.                        *)
LEMMA ConversionKeepsLines ==
  ASSUME NEW from \in Seq(Chars), NEW mode \in EolModes
  PROVE  Lines(ConvertLineEnding(from, mode)) = Lines(from)
<1> DEFINE n == Len(from) + 1
           to == ConvertedFrom(from, mode)
           S == {i \in 1..n : ~Joined(from, i) => Lines(to[i]) = LinesFrom(from)[i]}
<1>1. n \in Nat /\ 1 \in 1..n /\ ~Joined(from, 1)
  BY DEF Joined
<1>2. to[Len(from) + 1] = <<>> /\ \A i \in 1..Len(from) : ConvertedStep(from, mode, to, i)
  BY ConvertedRules
<1>3. \A i \in 1..n : to[i] \in Seq(Chars)
  BY ConvertedType
<1>4. mode = "CR" => \A i \in 1..n : ~(Len(to[i]) >= 1 /\ to[i][1] = LF)
  BY NoLineFeedFirst
<1>5. CR \in Chars /\ LF \in Chars /\ CR # LF /\ Shown(CR) = LF /\ Shown(LF) = LF
  BY LineEndType DEF Shown
<1>6. LinesFrom(from)[Len(from) + 1] = <<>> /\ Lines(<<>>) = <<>>
  <2>1. <<>> \in Seq(Chars) /\ Len(<<>>) + 1 = 1
    OBVIOUS
  <2>2. LinesFrom(<<>>)[Len(<<>>) + 1] = <<>>
    BY <2>1, LinesRules
  <2>3. QED
    BY <2>1, <2>2, LinesRules DEF Lines
<1> HIDE DEF to
<1>7. ASSUME NEW i \in 1..n, \A j \in i + 1..n : j \in S
      PROVE  i \in S
  <2>1. CASE i = n
    BY <1>2, <1>6, <2>1
  <2>2. CASE i \in 1..Len(from)
    <3>1. SUFFICES ASSUME ~Joined(from, i) PROVE Lines(to[i]) = LinesFrom(from)[i]
      BY <2>2
    <3>2. LinesFrom(from)[i] = <<Shown(from[i])>> \o LinesFrom(from)[i + 1]
      BY <2>2, <3>1, LinesRules
    <3>3. i + 1 \in 1..n /\ to[i + 1] \in Seq(Chars) /\ from[i] \in Chars
      BY <1>3, <2>2
    <3>4. ~Joined(from, i + 1) => Lines(to[i + 1]) = LinesFrom(from)[i + 1]
      BY <1>7, <2>2, <3>3
    <3>5. CASE from[i] \notin {CR, LF} /\ to[i] = <<from[i]>> \o to[i + 1]
      <4>1. ~Joined(from, i + 1)
        BY <3>5, <2>2 DEF Joined
      <4>2. Lines(to[i]) = <<Shown(from[i])>> \o Lines(to[i + 1])
        BY <3>3, <3>5, LinesOfOneMore
      <4>3. QED
        BY <3>2, <3>4, <4>1, <4>2
    <3>6. CASE from[i] = CR /\ i = Len(from) /\ to[i] = <<CR>> \o to[i + 1]
      <4>1. ~Joined(from, i + 1)
        BY <3>6 DEF Joined
      <4>2. to[i + 1] = <<>> /\ Len(to[i + 1]) = 0
        BY <1>2, <3>6
      <4>3. Lines(to[i]) = <<Shown(CR)>> \o Lines(to[i + 1])
        <5>1. ~(Len(to[i + 1]) >= 1 /\ to[i + 1][1] = LF)
          BY <4>2
        <5>2. Lines(<<CR>> \o to[i + 1]) = <<Shown(CR)>> \o Lines(to[i + 1])
          BY <1>5, <3>3, <5>1, LinesOfOneMore
        <5>3. QED
          BY <3>6, <5>2
      <4>4. LinesFrom(from)[i] = <<Shown(CR)>> \o LinesFrom(from)[i + 1]
        BY <3>2, <3>6
      <4>5. Lines(to[i + 1]) = LinesFrom(from)[i + 1]
        BY <3>4, <4>1
      <4>6. QED
        BY <4>3, <4>4, <4>5, Zenon
    <3>7. CASE /\ from[i] = LF \/ (from[i] = CR /\ i < Len(from) /\ from[i + 1] # LF)
               /\ to[i] = LineEnd(mode) \o to[i + 1]
      <4>1. ~Joined(from, i + 1)
        BY <1>5, <2>2, <3>7 DEF Joined
      <4>2. mode = "CR" => ~(Len(to[i + 1]) >= 1 /\ to[i + 1][1] = LF)
        BY <1>4, <3>3
      <4>3. Lines(to[i]) = <<LF>> \o Lines(to[i + 1])
        BY <3>3, <3>7, <4>2, LinesOfLineEnd
      <4>4. Shown(from[i]) = LF
        BY <1>5, <3>7
      <4>5. QED
        BY <3>2, <3>4, <4>1, <4>3, <4>4
    <3>8. CASE /\ from[i] = CR /\ i < Len(from) /\ from[i + 1] = LF
               /\ to[i] = LineEnd(mode) \o to[i + 2]
      <4>1. i + 2 \in i + 1..n /\ i + 2 \in 1..n
        BY <2>2, <3>8
      <4>2. ~Joined(from, i + 2) /\ Joined(from, i + 1)
        BY <1>5, <2>2, <3>8 DEF Joined
      <4>3. Lines(to[i + 2]) = LinesFrom(from)[i + 2]
        BY <1>7, <4>1, <4>2
      <4>4. LinesFrom(from)[i + 1] = LinesFrom(from)[i + 2]
        <5>1. i + 1 \in 1..Len(from) /\ (i + 1) + 1 = i + 2
          BY <2>2, <3>8
        <5>2. LinesFrom(from)[i + 1] = LinesFrom(from)[(i + 1) + 1]
          BY <4>2, <5>1, LinesRules
        <5>3. QED
          BY <5>1, <5>2
      <4>5. to[i + 2] \in Seq(Chars) /\ (mode = "CR" => ~(Len(to[i + 2]) >= 1 /\ to[i + 2][1] = LF))
        BY <1>3, <1>4, <4>1
      <4>6. Lines(to[i]) = <<LF>> \o Lines(to[i + 2])
        BY <3>8, <4>5, LinesOfLineEnd
      <4>7. LinesFrom(from)[i] = <<LF>> \o LinesFrom(from)[i + 1]
        BY <1>5, <3>2, <3>8
      <4>8. QED
        BY <4>3, <4>4, <4>6, <4>7
    <3>9. QED
      <4>1. ConvertedStep(from, mode, to, i)
        BY <1>2, <2>2
      <4>2. QED
        BY <3>5, <3>6, <3>7, <3>8, <4>1 DEF ConvertedStep
  <2>3. QED
    BY <2>1, <2>2
<1> HIDE DEF S, n
<1>8. 1 \in S
  BY <1>1, <1>7, Backwards
<1>9. Lines(to[1]) = LinesFrom(from)[1]
  BY <1>1, <1>8 DEF S
<1>10. QED
  BY <1>9 DEF to, ConvertLineEnding, Lines

-----------------------------------------------------------------------------
(* Line endings. *)

(* A character of a text whose lines end as the mode says.                  *)
EndsAt(mode, text, i) ==
  /\ text[i] = CR => CASE mode = "CRLF" -> i < Len(text) /\ text[i + 1] = LF
                       [] mode = "CR" -> TRUE
                       [] mode = "LF" -> FALSE
  /\ text[i] = LF => CASE mode = "CRLF" -> i > 1 /\ text[i - 1] = CR
                       [] mode = "CR" -> FALSE
                       [] mode = "LF" -> TRUE

(* The same without CASE.                                                   *)
LEMMA EndsAtRules ==
  ASSUME NEW mode \in EolModes, NEW text, NEW i
  PROVE  EndsAt(mode, text, i) <=>
           /\ text[i] = CR => mode = "CR" \/ (mode = "CRLF" /\ i < Len(text) /\ text[i + 1] = LF)
           /\ text[i] = LF => mode = "LF" \/ (mode = "CRLF" /\ i > 1 /\ text[i - 1] = CR)
  BY DEF EndsAt, EolModes

(* Proper endings, position by position.                                    *)
LEMMA EndsInRules ==
  ASSUME NEW mode \in EolModes, NEW text \in Seq(Chars)
  PROVE  EndsIn(mode, text) <=> \A i \in 1..Len(text) : EndsAt(mode, text, i)
<1>1. DOMAIN text = 1..Len(text)
  OBVIOUS
<1>2. QED
  BY <1>1, Zenon DEF EndsIn, EndsAt

(* Two texts one after the other.                                           *)
LEMMA OneAfterOther ==
  ASSUME NEW s \in Seq(Chars), NEW t \in Seq(Chars), NEW u, u = s \o t
  PROVE  /\ u \in Seq(Chars) /\ Len(u) = Len(s) + Len(t)
         /\ \A j \in 1..Len(s) : u[j] = s[j]
         /\ \A j \in 1..Len(t) : u[Len(s) + j] = t[j]
<1>1. /\ u \in Seq(Chars) /\ Len(u) = Len(s) + Len(t)
      /\ \A j \in 1..Len(s) + Len(t) : u[j] = IF j <= Len(s) THEN s[j] ELSE t[j - Len(s)]
  BY ConcatProperties
<1>2. Len(s) \in Nat /\ Len(t) \in Nat
  OBVIOUS
<1>3. \A j \in 1..Len(s) : u[j] = s[j]
  BY <1>1, <1>2
<1>4. ASSUME NEW j \in 1..Len(t) PROVE u[Len(s) + j] = t[j]
  <2>1. Len(s) + j \in 1..Len(s) + Len(t) /\ ~(Len(s) + j <= Len(s)) /\ (Len(s) + j) - Len(s) = j
    BY <1>2
  <2>2. u[Len(s) + j] = t[(Len(s) + j) - Len(s)]
    BY <1>1, <2>1
  <2>3. QED
    BY <2>1, <2>2
<1>5. QED
  BY <1>1, <1>3, <1>4

(* Texts with proper endings are put together to such a text.               *)
LEMMA EndsInConcat ==
  ASSUME NEW mode \in EolModes, NEW s \in Seq(Chars), NEW t \in Seq(Chars),
         EndsIn(mode, s), EndsIn(mode, t)
  PROVE  EndsIn(mode, s \o t)
<1> DEFINE u == s \o t
<1>1. /\ u \in Seq(Chars) /\ Len(u) = Len(s) + Len(t)
      /\ \A j \in 1..Len(s) : u[j] = s[j]
      /\ \A j \in 1..Len(t) : u[Len(s) + j] = t[j]
  BY OneAfterOther
<1> HIDE DEF u
<1>2. SUFFICES ASSUME NEW i \in 1..Len(u) PROVE EndsAt(mode, u, i)
  <2>1. EndsIn(mode, u)
    BY <1>1, <1>2, EndsInRules
  <2>2. QED
    BY <2>1 DEF u
<1>3. CASE i <= Len(s)
  <2>1. i \in 1..Len(s)
    BY <1>1, <1>3
  <2>2. EndsAt(mode, s, i)
    BY <2>1, EndsInRules
  <2>3. u[i] = s[i] /\ (i < Len(s) => u[i + 1] = s[i + 1]) /\ (i > 1 => u[i - 1] = s[i - 1])
    <3>1. (i < Len(s) => i + 1 \in 1..Len(s)) /\ (i > 1 => i - 1 \in 1..Len(s))
      BY <2>1
    <3>2. QED
      BY <1>1, <2>1, <3>1
  <2>4. i < Len(s) => i < Len(u)
    BY <1>1
  <2>5. /\ s[i] = CR => mode = "CR" \/ (mode = "CRLF" /\ i < Len(s) /\ s[i + 1] = LF)
        /\ s[i] = LF => mode = "LF" \/ (mode = "CRLF" /\ i > 1 /\ s[i - 1] = CR)
    BY <2>2, EndsAtRules
  <2>6. /\ u[i] = CR => mode = "CR" \/ (mode = "CRLF" /\ i < Len(u) /\ u[i + 1] = LF)
        /\ u[i] = LF => mode = "LF" \/ (mode = "CRLF" /\ i > 1 /\ u[i - 1] = CR)
    BY <2>3, <2>4, <2>5, Zenon
  <2>7. QED
    BY <2>6, EndsAtRules
<1>4. CASE i > Len(s)
  <2> DEFINE k == i - Len(s)
  <2>1. k \in 1..Len(t) /\ k = i - Len(s)
    BY <1>1, <1>4
  <2>2. EndsAt(mode, t, k)
    BY <2>1, EndsInRules
  <2>3. u[i] = t[k] /\ (k < Len(t) => u[i + 1] = t[k + 1]) /\ (k > 1 => u[i - 1] = t[k - 1])
    <3>1. /\ i = Len(s) + k /\ i + 1 = Len(s) + (k + 1) /\ i - 1 = Len(s) + (k - 1)
          /\ k < Len(t) => k + 1 \in 1..Len(t)
          /\ k > 1 => k - 1 \in 1..Len(t)
      BY <1>4, <2>1
    <3> HIDE DEF k
    <3>2. QED
      BY <1>1, <2>1, <3>1
  <2>4. (k < Len(t) => i < Len(u)) /\ (k > 1 => i > 1)
    BY <1>1, <2>1
  <2> HIDE DEF k
  <2>5. /\ t[k] = CR => mode = "CR" \/ (mode = "CRLF" /\ k < Len(t) /\ t[k + 1] = LF)
        /\ t[k] = LF => mode = "LF" \/ (mode = "CRLF" /\ k > 1 /\ t[k - 1] = CR)
    BY <2>2, EndsAtRules
  <2>6. /\ u[i] = CR => mode = "CR" \/ (mode = "CRLF" /\ i < Len(u) /\ u[i + 1] = LF)
        /\ u[i] = LF => mode = "LF" \/ (mode = "CRLF" /\ i > 1 /\ u[i - 1] = CR)
    BY <2>3, <2>4, <2>5, Zenon
  <2>7. QED
    BY <2>6, EndsAtRules
<1>5. QED
  BY <1>1, <1>3, <1>4

(* The texts proper endings start from.                                     *)
LEMMA EndsInBasics ==
  ASSUME NEW mode \in EolModes
  PROVE  /\ EndsIn(mode, <<>>) /\ EndsIn(mode, LineEnd(mode))
         /\ \A c \in Chars : c \notin {CR, LF} => EndsIn(mode, <<c>>)
<1>1. /\ CR \in Chars /\ LF \in Chars /\ CR # LF
      /\ LineEnd(mode) \in Seq(Chars) /\ <<>> \in Seq(Chars)
  BY LineEndType
<1>2. EndsIn(mode, <<>>)
  <2>1. \A i \in 1..Len(<<>>) : EndsAt(mode, <<>>, i)
    OBVIOUS
  <2>2. QED
    BY <1>1, <2>1, EndsInRules
<1>3. ASSUME NEW c \in Chars, c \notin {CR, LF} PROVE EndsIn(mode, <<c>>)
  <2>1. <<c>> \in Seq(Chars) /\ Len(<<c>>) = 1 /\ <<c>>[1] = c
    OBVIOUS
  <2>2. \A i \in 1..Len(<<c>>) : EndsAt(mode, <<c>>, i)
    BY <1>3, <2>1, EndsAtRules
  <2>3. QED
    BY <2>1, <2>2, EndsInRules
<1>4. EndsIn(mode, LineEnd(mode))
  <2>1. CASE mode = "CRLF"
    <3> DEFINE e == <<CR, LF>>
    <3>1. LineEnd(mode) = e
      BY <2>1 DEF LineEnd
    <3>2. Len(e) = 2 /\ e[1] = CR /\ e[2] = LF /\ 1 + 1 = 2 /\ 2 - 1 = 1
      OBVIOUS
    <3> HIDE DEF e
    <3>3. EndsAt(mode, e, 1)
      BY <1>1, <2>1, <3>2, EndsAtRules
    <3>4. EndsAt(mode, e, 2)
      BY <1>1, <2>1, <3>2, EndsAtRules
    <3>5. \A i \in 1..Len(e) : EndsAt(mode, e, i)
      BY <3>2, <3>3, <3>4
    <3>6. QED
      BY <1>1, <3>1, <3>5, EndsInRules
  <2>2. CASE mode = "CR"
    <3> DEFINE e == <<CR>>
    <3>1. LineEnd(mode) = e
      BY <2>2 DEF LineEnd
    <3>2. Len(e) = 1 /\ e[1] = CR
      OBVIOUS
    <3> HIDE DEF e
    <3>3. EndsAt(mode, e, 1)
      BY <1>1, <2>2, <3>2, EndsAtRules
    <3>4. \A i \in 1..Len(e) : EndsAt(mode, e, i)
      BY <3>2, <3>3
    <3>5. QED
      BY <1>1, <3>1, <3>4, EndsInRules
  <2>3. CASE mode = "LF"
    <3> DEFINE e == <<LF>>
    <3>1. LineEnd(mode) = e
      BY <2>3 DEF LineEnd
    <3>2. Len(e) = 1 /\ e[1] = LF
      OBVIOUS
    <3> HIDE DEF e
    <3>3. EndsAt(mode, e, 1)
      BY <1>1, <2>3, <3>2, EndsAtRules
    <3>4. \A i \in 1..Len(e) : EndsAt(mode, e, i)
      BY <3>2, <3>3
    <3>5. QED
      BY <1>1, <3>1, <3>4, EndsInRules
  <2>4. QED
    BY <2>1, <2>2, <2>3 DEF EolModes
<1>5. QED
  BY <1>2, <1>3, <1>4

(* A part of a text with proper endings, cut where a caret may be.          *)
LEMMA EndsInPart ==
  ASSUME NEW mode \in EolModes, NEW text \in Seq(Chars), EndsIn(mode, text),
         NEW p \in Positions(text), NEW q \in Positions(text), p <= q
  PROVE  EndsIn(mode, SubSeq(text, p + 1, q))
<1> DEFINE u == SubSeq(text, p + 1, q)
<1>1. p \in 0..Len(text) /\ q \in 0..Len(text) /\ p \in Int /\ q \in Int /\ Len(text) \in Nat
  BY DEF Positions
<1>2. /\ u \in Seq(Chars) /\ Len(u) = q - p
      /\ \A i \in 1..q - p : u[i] = text[p + i]
  <2>1. \A i \in p + 1..q : text[i] \in Chars
    BY <1>1
  <2>2. /\ u \in Seq(Chars) /\ Len(u) = (IF p + 1 <= q THEN q - (p + 1) + 1 ELSE 0)
        /\ \A i \in 1..q - (p + 1) + 1 : u[i] = text[(p + 1) + i - 1]
    BY <1>1, <2>1, SubSeqProperties
  <2>3. QED
    BY <1>1, <2>2
<1> HIDE DEF u
<1>3. SUFFICES ASSUME NEW i \in 1..Len(u) PROVE EndsAt(mode, u, i)
  <2>1. EndsIn(mode, u)
    BY <1>2, <1>3, EndsInRules
  <2>2. QED
    BY <2>1 DEF u
<1> DEFINE k == p + i
<1>4. k \in 1..Len(text) /\ k <= q /\ k > p /\ k = p + i
  BY <1>1, <1>2
<1>5. EndsAt(mode, text, k)
  BY <1>4, EndsInRules
<1>6. /\ u[i] = text[k]
      /\ k < q => u[i + 1] = text[k + 1] /\ i < Len(u)
      /\ i > 1 => u[i - 1] = text[k - 1]
  BY <1>1, <1>2, <1>4
<1>7. text[k] = CR /\ k < Len(text) /\ text[k + 1] = LF => k < q
  <2>1. ASSUME text[k] = CR, k < Len(text), text[k + 1] = LF, k = q PROVE FALSE
    BY <2>1, <1>1, <1>4 DEF Positions
  <2>2. QED
    BY <2>1, <1>1, <1>4
<1>8. text[k] = LF /\ k > 1 /\ text[k - 1] = CR => i > 1
  <2>1. ASSUME text[k] = LF, k > 1, text[k - 1] = CR, i = 1 PROVE FALSE
    <3>1. k - 1 = p /\ p + 1 = k /\ 0 < p /\ p < Len(text)
      BY <2>1, <1>1, <1>4
    <3>2. QED
      BY <2>1, <3>1 DEF Positions
  <2>2. QED
    BY <2>1, <1>2
<1> HIDE DEF k
<1>9. /\ text[k] = CR => mode = "CR" \/ (mode = "CRLF" /\ k < Len(text) /\ text[k + 1] = LF)
      /\ text[k] = LF => mode = "LF" \/ (mode = "CRLF" /\ k > 1 /\ text[k - 1] = CR)
  BY <1>5, EndsAtRules
<1>10. /\ u[i] = CR => mode = "CR" \/ (mode = "CRLF" /\ i < Len(u) /\ u[i + 1] = LF)
       /\ u[i] = LF => mode = "LF" \/ (mode = "CRLF" /\ i > 1 /\ u[i - 1] = CR)
  BY <1>6, <1>7, <1>8, <1>9, Zenon
<1>11. QED
  BY <1>10, EndsAtRules

(* Proper endings but for one CR at the end.                                *)
Nearly(mode, text, cr) ==
  \E body \in Seq(Chars) :
    EndsIn(mode, body) /\ (text = body \/ (cr /\ text = body \o <<CR>>))

(* Something with proper endings before such a text.                        *)
LEMMA NearlyMore ==
  ASSUME NEW mode \in EolModes, NEW h \in Seq(Chars), NEW t \in Seq(Chars), NEW cr \in BOOLEAN,
         EndsIn(mode, h), Nearly(mode, t, cr)
  PROVE  Nearly(mode, h \o t, cr)
<1>1. PICK body \in Seq(Chars) :
        EndsIn(mode, body) /\ (t = body \/ (cr /\ t = body \o <<CR>>))
  BY DEF Nearly
<1>2. h \o body \in Seq(Chars) /\ EndsIn(mode, h \o body)
  BY <1>1, EndsInConcat, ConcatProperties
<1>3. CASE t = body
  BY <1>2, <1>3 DEF Nearly
<1>4. CASE cr /\ t = body \o <<CR>>
  <2>1. <<CR>> \in Seq(Chars)
    BY LineEndType DEF EolModes
  <2>2. (h \o body) \o <<CR>> = h \o (body \o <<CR>>)
    BY <2>1, ConcatAssociative
  <2>3. h \o t = (h \o body) \o <<CR>>
    BY <1>4, <2>2
  <2>4. QED
    BY <1>2, <1>4, <2>3 DEF Nearly
<1>5. QED
  BY <1>1, <1>3, <1>4

(* Every line of a conversion ends as asked for, but for a CR at the very   *)
(* end of the text.                                                         *)
LEMMA ConversionEnds ==
  ASSUME NEW from \in Seq(Chars), NEW mode \in EolModes
  PROVE  Nearly(mode, ConvertLineEnding(from, mode), LoneCR(from))
<1> DEFINE n == Len(from) + 1
           to == ConvertedFrom(from, mode)
           cr == LoneCR(from)
           S == {i \in 1..n : Nearly(mode, to[i], cr)}
<1>1. n \in Nat /\ 1 \in 1..n /\ cr \in BOOLEAN
  BY DEF LoneCR
<1>2. to[Len(from) + 1] = <<>> /\ \A i \in 1..Len(from) : ConvertedStep(from, mode, to, i)
  BY ConvertedRules
<1>3. \A i \in 1..n : to[i] \in Seq(Chars)
  BY ConvertedType
<1>4. /\ <<>> \in Seq(Chars) /\ <<CR>> \in Seq(Chars) /\ LineEnd(mode) \in Seq(Chars)
      /\ EndsIn(mode, <<>>) /\ EndsIn(mode, LineEnd(mode))
      /\ \A c \in Chars : c \notin {CR, LF} => <<c>> \in Seq(Chars) /\ EndsIn(mode, <<c>>)
  BY EndsInBasics, LineEndType
<1>5. Nearly(mode, <<>>, cr)
  BY <1>4, Zenon DEF Nearly
<1> HIDE DEF to
<1>6. ASSUME NEW i \in 1..n, \A j \in i + 1..n : j \in S
      PROVE  i \in S
  <2>1. CASE i = n
    BY <1>2, <1>5, <2>1
  <2>2. CASE i \in 1..Len(from)
    <3>1. /\ i + 1 \in i + 1..n /\ i + 1 \in 1..n /\ from[i] \in Chars
          /\ i < Len(from) => i + 2 \in i + 1..n /\ i + 2 \in 1..n
      BY <2>2
    <3>2. to[i + 1] \in Seq(Chars) /\ Nearly(mode, to[i + 1], cr)
      BY <1>3, <1>6, <3>1
    <3> HIDE DEF cr
    <3>3. CASE from[i] \notin {CR, LF} /\ to[i] = <<from[i]>> \o to[i + 1]
      <4>1. <<from[i]>> \in Seq(Chars) /\ EndsIn(mode, <<from[i]>>)
        BY <1>4, <3>1, <3>3
      <4>2. Nearly(mode, <<from[i]>> \o to[i + 1], cr)
        BY <1>1, <3>2, <4>1, NearlyMore
      <4>3. QED
        BY <3>3, <4>2
    <3>4. CASE from[i] = CR /\ i = Len(from) /\ to[i] = <<CR>> \o to[i + 1]
      <4>1. cr
        BY <2>2, <3>4 DEF LoneCR, Last, cr
      <4>2. to[i + 1] = <<>>
        BY <1>2, <3>4
      <4>3. to[i] = <<>> \o <<CR>>
        BY <1>4, <3>4, <4>2
      <4>4. Nearly(mode, to[i], cr)
        BY <1>4, <4>1, <4>3, Zenon DEF Nearly
      <4>5. QED
        BY <4>4
    <3>5. CASE to[i] = LineEnd(mode) \o to[i + 1]
      <4>1. Nearly(mode, LineEnd(mode) \o to[i + 1], cr)
        BY <1>1, <1>4, <3>2, NearlyMore
      <4>2. QED
        BY <3>5, <4>1
    <3>6. CASE i < Len(from) /\ to[i] = LineEnd(mode) \o to[i + 2]
      <4>1. to[i + 2] \in Seq(Chars) /\ Nearly(mode, to[i + 2], cr)
        BY <1>3, <1>6, <3>1, <3>6
      <4>2. Nearly(mode, LineEnd(mode) \o to[i + 2], cr)
        BY <1>1, <1>4, <4>1, NearlyMore
      <4>3. QED
        BY <3>6, <4>2
    <3>7. QED
      <4>1. ConvertedStep(from, mode, to, i)
        BY <1>2, <2>2
      <4>2. QED
        BY <3>3, <3>4, <3>5, <3>6, <4>1 DEF ConvertedStep
  <2>3. QED
    BY <2>1, <2>2
<1> HIDE DEF S, n, cr
<1>7. 1 \in S
  BY <1>1, <1>6, Backwards
<1>8. Nearly(mode, to[1], cr)
  BY <1>7 DEF S
<1>9. QED
  BY <1>8 DEF to, cr, ConvertLineEnding

(* Without a CR at the end the conversion has the endings asked for.        *)
LEMMA ConversionEndsProperly ==
  ASSUME NEW from \in Seq(Chars), NEW mode \in EolModes, ~LoneCR(from)
  PROVE  EndsIn(mode, ConvertLineEnding(from, mode))
<1>1. LoneCR(from) \in BOOLEAN
  BY DEF LoneCR
<1>2. QED
  BY ConversionEnds, <1>1 DEF Nearly

(* What is stored has CR LF endings but for one CR at the end.              *)
LEMMA StoredEnds ==
  ASSUME NEW from \in Seq(Chars), NEW s, s = ConvertLineEnding(from, "CRLF")
  PROVE  EndsIn("CRLF", IF LoneCR(s) THEN Front(s) ELSE s)
<1>1. "CRLF" \in EolModes
  BY DEF EolModes
<1>2. PICK body \in Seq(Chars) :
        EndsIn("CRLF", body) /\ (s = body \/ s = body \o <<CR>>)
  BY <1>1, ConversionEnds DEF Nearly
<1>3. CASE s = body
  <2>1. ~LoneCR(body)
    <3>1. SUFFICES ASSUME body # <<>>, body[Len(body)] = CR PROVE FALSE
      BY DEF LoneCR, Last
    <3>2. Len(body) \in 1..Len(body)
      BY <3>1
    <3>3. EndsAt("CRLF", body, Len(body))
      BY <1>1, <1>2, <3>2, EndsInRules
    <3>4. QED
      BY <1>1, <3>1, <3>3, EndsAtRules
  <2>2. QED
    BY <1>2, <1>3, <2>1
<1>4. CASE s = body \o <<CR>>
  <2> DEFINE last == <<CR>>
  <2>1. last \in Seq(Chars) /\ Len(last) = 1 /\ last[1] = CR /\ s = body \o last
    BY <1>1, <1>4, LineEndType
  <2> HIDE DEF last
  <2>2. /\ s \in Seq(Chars) /\ Len(s) = Len(body) + 1 /\ s[Len(body) + 1] = CR
        /\ \A i \in 1..Len(body) : s[i] = body[i]
    <3>1. /\ s \in Seq(Chars) /\ Len(s) = Len(body) + Len(last)
          /\ \A i \in 1..Len(body) : s[i] = body[i]
          /\ \A i \in 1..Len(last) : s[Len(body) + i] = last[i]
      <4>1. \A u : u = body \o last =>
              /\ u \in Seq(Chars) /\ Len(u) = Len(body) + Len(last)
              /\ \A i \in 1..Len(body) : u[i] = body[i]
              /\ \A i \in 1..Len(last) : u[Len(body) + i] = last[i]
        BY <2>1, OneAfterOther
      <4>2. QED
        BY <2>1, <4>1, Zenon
    <3>2. QED
      BY <2>1, <3>1
  <2>3. LoneCR(s)
    BY <2>2 DEF LoneCR, Last
  <2>4. Front(s) = body
    <3> DEFINE f == SubSeq(s, 1, Len(body))
    <3>1. /\ f \in Seq(Chars) /\ Len(f) = Len(body)
          /\ \A i \in 1..Len(body) : f[i] = s[i]
      <4>1. Len(body) \in Nat /\ \A i \in 1..Len(body) : s[i] \in Chars
        BY <2>2
      <4>2. /\ f \in Seq(Chars) /\ Len(f) = (IF 1 <= Len(body) THEN Len(body) - 1 + 1 ELSE 0)
            /\ \A i \in 1..Len(body) - 1 + 1 : f[i] = s[1 + i - 1]
        BY <4>1, SubSeqProperties
      <4>3. QED
        BY <4>1, <4>2
    <3>2. Front(s) = f
      BY <2>2 DEF Front
    <3> HIDE DEF f
    <3>3. f = body
      BY <2>2, <3>1, SeqEqual
    <3>4. QED
      BY <3>2, <3>3
  <2>5. QED
    BY <1>2, <2>3, <2>4
<1>5. QED
  BY <1>2, <1>3, <1>4

-----------------------------------------------------------------------------
(* The name proposed for a snippet. *)

(* What the loop adds for the characters from i to before j: one character  *)
(* as it is, or a line end for one.                                         *)
Adds(from, i, h, j) ==
  \/ Len(h) = 1 /\ h[1] = from[i] /\ from[i] \notin {CR, LF} /\ j = i + 1
  \/ /\ Len(h) >= 1 /\ \A k \in 1..Len(h) : h[k] \in {CR, LF}
     /\ \A k \in i..j - 1 : from[k] \in {CR, LF}

(* It comes before what is added for the rest.                              *)
Piece(from, to, i, h, j) ==
  /\ Len(to[i]) = Len(h) + Len(to[j]) /\ Len(to[j]) \in Nat /\ Len(h) \in Nat
  /\ \A k \in 1..Len(h) : to[i][k] = h[k]
  /\ \A k \in 1..Len(to[j]) : to[i][Len(h) + k] = to[j][k]
  /\ Adds(from, i, h, j)

(* Where the pieces are in what is converted.                               *)
LEMMA PieceIndices ==
  ASSUME NEW from, NEW to, NEW i, NEW h \in Seq(Chars), NEW j, Adds(from, i, h, j),
         to[j] \in Seq(Chars), to[i] = h \o to[j]
  PROVE  Piece(from, to, i, h, j)
<1>1. \A u : u = h \o to[j] =>
        /\ u \in Seq(Chars) /\ Len(u) = Len(h) + Len(to[j])
        /\ \A k \in 1..Len(h) : u[k] = h[k]
        /\ \A k \in 1..Len(to[j]) : u[Len(h) + k] = to[j][k]
  BY OneAfterOther
<1>2. Len(to[j]) \in Nat /\ Len(h) \in Nat
  OBVIOUS
<1>3. QED
  BY <1>1, <1>2, Zenon DEF Piece

(* Each step of the conversion adds a piece.                                *)
LEMMA ConvertedPieces ==
  ASSUME NEW from \in Seq(Chars), NEW mode \in EolModes, NEW to, to = ConvertedFrom(from, mode)
  PROVE  \A i \in 1..Len(from) : \E h \in Seq(Chars), j \in i + 1..Len(from) + 1 :
           Piece(from, to, i, h, j)
<1> SUFFICES ASSUME NEW i \in 1..Len(from)
             PROVE  \E h \in Seq(Chars), j \in i + 1..Len(from) + 1 : Piece(from, to, i, h, j)
  OBVIOUS
<1>1. ConvertedStep(from, mode, to, i)
  BY ConvertedRules
<1>2. i + 1 \in i + 1..Len(from) + 1 /\ from[i] \in Chars
  OBVIOUS
<1>3. PICK e \in Seq(Chars) :
        e = LineEnd(mode) /\ Len(e) >= 1 /\ \A k \in 1..Len(e) : e[k] \in {CR, LF}
  <2>1. LineEnd(mode) \in {<<CR, LF>>, <<CR>>, <<LF>>}
    BY DEF LineEnd, EolModes
  <2>2. LineEnd(mode) \in Seq(Chars)
    BY LineEndType
  <2>3. Len(LineEnd(mode)) >= 1 /\ \A k \in 1..Len(LineEnd(mode)) : LineEnd(mode)[k] \in {CR, LF}
    <3>1. Len(<<CR, LF>>) = 2 /\ <<CR, LF>>[1] = CR /\ <<CR, LF>>[2] = LF
      OBVIOUS
    <3>2. Len(<<CR>>) = 1 /\ <<CR>>[1] = CR /\ Len(<<LF>>) = 1 /\ <<LF>>[1] = LF
      OBVIOUS
    <3>3. CASE LineEnd(mode) = <<CR, LF>>
      BY <3>1, <3>3
    <3>4. CASE LineEnd(mode) = <<CR>>
      BY <3>2, <3>4
    <3>5. CASE LineEnd(mode) = <<LF>>
      BY <3>2, <3>5
    <3>6. QED
      BY <2>1, <3>3, <3>4, <3>5
  <2>4. QED
    BY <2>2, <2>3
<1>4. PICK r \in Seq(Chars) : r = <<CR>> /\ Len(r) = 1 /\ r[1] = CR
  <2>1. <<CR>> \in Seq(Chars) /\ Len(<<CR>>) = 1 /\ <<CR>>[1] = CR
    BY LineEndType
  <2>2. QED
    BY <2>1
<1>5. PICK c \in Seq(Chars) : c = <<from[i]>> /\ Len(c) = 1 /\ c[1] = from[i]
  <2>1. <<from[i]>> \in Seq(Chars) /\ Len(<<from[i]>>) = 1 /\ <<from[i]>>[1] = from[i]
    BY <1>2
  <2>2. QED
    BY <2>1
<1>6. ASSUME from[i] \notin {CR, LF} /\ to[i] = <<from[i]>> \o to[i + 1]
      PROVE  \E h \in Seq(Chars), j \in i + 1..Len(from) + 1 :
               Adds(from, i, h, j) /\ to[i] = h \o to[j]
  <2>1. to[i] = c \o to[i + 1] /\ Len(c) = 1 /\ c[1] = from[i] /\ from[i] \notin {CR, LF}
    BY <1>5, <1>6
  <2>2. Adds(from, i, c, i + 1) /\ to[i] = c \o to[i + 1]
    BY <2>1 DEF Adds
  <2>3. QED
    BY <1>2, <2>2
<1>7. ASSUME from[i] = CR /\ to[i] = <<CR>> \o to[i + 1]
      PROVE  \E h \in Seq(Chars), j \in i + 1..Len(from) + 1 :
               Adds(from, i, h, j) /\ to[i] = h \o to[j]
  <2>1. (\A k \in 1..Len(r) : r[k] \in {CR, LF}) /\ Len(r) >= 1 /\ to[i] = r \o to[i + 1]
    BY <1>4, <1>7
  <2>2. \A k \in i..(i + 1) - 1 : from[k] \in {CR, LF}
    BY <1>7
  <2>3. Adds(from, i, r, i + 1) /\ to[i] = r \o to[i + 1]
    BY <2>1, <2>2 DEF Adds
  <2>4. QED
    BY <1>2, <2>3
<1>8. ASSUME from[i] \in {CR, LF} /\ to[i] = LineEnd(mode) \o to[i + 1]
      PROVE  \E h \in Seq(Chars), j \in i + 1..Len(from) + 1 :
               Adds(from, i, h, j) /\ to[i] = h \o to[j]
  <2>1. \A k \in i..(i + 1) - 1 : from[k] \in {CR, LF}
    BY <1>8
  <2>2. Adds(from, i, e, i + 1) /\ to[i] = e \o to[i + 1]
    BY <1>3, <1>8, <2>1 DEF Adds
  <2>3. QED
    BY <1>2, <2>2
<1>9. ASSUME from[i] = CR /\ i < Len(from) /\ from[i + 1] = LF /\ to[i] = LineEnd(mode) \o to[i + 2]
      PROVE  \E h \in Seq(Chars), j \in i + 1..Len(from) + 1 :
               Adds(from, i, h, j) /\ to[i] = h \o to[j]
  <2>1. \A k \in i..(i + 2) - 1 : from[k] \in {CR, LF}
    BY <1>9
  <2>2. i + 2 \in i + 1..Len(from) + 1
    BY <1>9
  <2>3. Adds(from, i, e, i + 2) /\ to[i] = e \o to[i + 2]
    BY <1>3, <1>9, <2>1 DEF Adds
  <2>4. QED
    BY <2>2, <2>3
<1>10. \E h \in Seq(Chars), j \in i + 1..Len(from) + 1 : Adds(from, i, h, j) /\ to[i] = h \o to[j]
  BY <1>1, <1>6, <1>7, <1>8, <1>9 DEF ConvertedStep
<1>11. \A j \in i + 1..Len(from) + 1 : to[j] \in Seq(Chars)
  BY ConvertedType
<1>12. QED
  BY <1>10, <1>11, PieceIndices

(* Something visible is still there after the conversion.                   *)
LEMMA ConversionKeepsVisible ==
  ASSUME NEW from \in Seq(Chars), NEW mode \in EolModes, NEW t,
         t = ConvertLineEnding(from, mode), \A k \in 1..Len(t) : t[k] \in Spaces
  PROVE  \A k \in 1..Len(from) : from[k] \in Spaces
<1> DEFINE n == Len(from) + 1
           to == ConvertedFrom(from, mode)
           S == {i \in 1..n : (\A k \in 1..Len(to[i]) : to[i][k] \in Spaces) =>
                                \A k \in i..Len(from) : from[k] \in Spaces}
<1>1. n \in Nat /\ 1 \in 1..n
  OBVIOUS
<1>2. \A i \in 1..n : to[i] \in Seq(Chars)
  BY ConvertedType
<1>3. CR \in Spaces /\ LF \in Spaces
  BY DEF Spaces
<1>4. \A i \in 1..Len(from) : \E h \in Seq(Chars), j \in i + 1..n : Piece(from, to, i, h, j)
  BY ConvertedPieces
<1> HIDE DEF to
<1>5. ASSUME NEW i \in 1..n, \A j \in i + 1..n : j \in S
      PROVE  i \in S
  <2>1. CASE i = n
    BY <2>1
  <2>2. CASE i \in 1..Len(from)
    <3>1. SUFFICES ASSUME \A k \in 1..Len(to[i]) : to[i][k] \in Spaces
                   PROVE  \A k \in i..Len(from) : from[k] \in Spaces
      BY <2>2
    <3>2. PICK h \in Seq(Chars), j \in i + 1..n : Piece(from, to, i, h, j)
      BY <1>4, <2>2
    <3>3. /\ Len(to[i]) = Len(h) + Len(to[j]) /\ Len(to[j]) \in Nat /\ Len(h) \in Nat
          /\ \A k \in 1..Len(h) : to[i][k] = h[k]
          /\ \A k \in 1..Len(to[j]) : to[i][Len(h) + k] = to[j][k]
          /\ \/ Len(h) = 1 /\ h[1] = from[i] /\ from[i] \notin {CR, LF} /\ j = i + 1
             \/ /\ Len(h) >= 1 /\ \A k \in 1..Len(h) : h[k] \in {CR, LF}
                /\ \A k \in i..j - 1 : from[k] \in {CR, LF}
      BY <3>2 DEF Piece, Adds
    <3>4. \A k \in 1..Len(to[j]) : to[j][k] \in Spaces
      <4>1. SUFFICES ASSUME NEW k \in 1..Len(to[j]) PROVE to[j][k] \in Spaces
        OBVIOUS
      <4>2. Len(h) + k \in 1..Len(to[i])
        BY <3>3
      <4>3. QED
        BY <3>1, <3>3, <4>2
    <3>5. \A k \in j..Len(from) : from[k] \in Spaces
      BY <1>5, <3>4
    <3>6. \A k \in i..j - 1 : from[k] \in Spaces
      <4>1. CASE Len(h) = 1 /\ h[1] = from[i] /\ j = i + 1
        <5>1. 1 \in 1..Len(h) /\ 1 \in 1..Len(to[i])
          BY <3>3, <4>1
        <5>2. from[i] \in Spaces
          BY <3>1, <3>3, <4>1, <5>1
        <5>3. QED
          BY <4>1, <5>2
      <4>2. CASE \A k \in i..j - 1 : from[k] \in {CR, LF}
        BY <1>3, <4>2
      <4>3. QED
        BY <3>3, <4>1, <4>2
    <3>7. QED
      BY <3>5, <3>6
  <2>3. QED
    BY <2>1, <2>2
<1> HIDE DEF S, n
<1>6. 1 \in S
  BY <1>1, <1>5, Backwards
<1>7. QED
  BY <1>6 DEF S, to, ConvertLineEnding

(* What has no line end in the conversion from character i on, and is at    *)
(* its beginning, is there in the text from character i on.                 *)
Copied(from, to, i) ==
  \A m \in 0..Len(to[i]) :
    (\A k \in 1..m : to[i][k] \notin {CR, LF}) =>
      i + m - 1 <= Len(from) /\ \A k \in 1..m : from[i + k - 1] = to[i][k]

(* So every conversion copies such beginnings (ConvertLineEnding).          *)
LEMMA ConversionKeepsBeginnings ==
  ASSUME NEW from \in Seq(Chars), NEW mode \in EolModes, NEW to, to = ConvertedFrom(from, mode)
  PROVE  \A i \in 1..Len(from) + 1 : Copied(from, to, i)
<1> DEFINE n == Len(from) + 1
           P(i) == \A m \in 0..Len(to[i]) :
                     (\A k \in 1..m : to[i][k] \notin {CR, LF}) =>
                       i + m - 1 <= Len(from) /\ \A k \in 1..m : from[i + k - 1] = to[i][k]
           S == {i \in 1..n : P(i)}
<1>1. n \in Nat /\ n = Len(from) + 1
  OBVIOUS
<1>2. /\ to[n] = <<>> /\ \A i \in 1..n : to[i] \in Seq(Chars)
      /\ \A i \in 1..Len(from) : \E h \in Seq(Chars), j \in i + 1..n : Piece(from, to, i, h, j)
  BY ConvertedType, ConvertedRules, ConvertedPieces
<1>3. ASSUME NEW i \in 1..n, \A j \in i + 1..n : j \in S
      PROVE  i \in S
  <2>1. CASE i = n
    <3>1. SUFFICES ASSUME NEW m \in 0..Len(to[i])
                   PROVE  i + m - 1 <= Len(from) /\ \A k \in 1..m : from[i + k - 1] = to[i][k]
      OBVIOUS
    <3>2. Len(to[i]) = 0
      BY <1>2, <2>1
    <3>3. m = 0
      BY <3>2
    <3>4. QED
      BY <1>1, <2>1, <3>3
  <2>2. CASE i \in 1..Len(from)
    <3>1. SUFFICES ASSUME NEW m \in 0..Len(to[i]), \A k \in 1..m : to[i][k] \notin {CR, LF}
                   PROVE  i + m - 1 <= Len(from) /\ \A k \in 1..m : from[i + k - 1] = to[i][k]
      OBVIOUS
    <3>2. CASE m = 0
      BY <2>2, <3>2
    <3>3. CASE m >= 1
      <4>1. PICK h \in Seq(Chars), j \in i + 1..n : Piece(from, to, i, h, j)
        BY <1>2, <2>2
      <4>2. j \in S
        BY <1>3
      <4>3. /\ Len(to[i]) = Len(h) + Len(to[j]) /\ Len(to[j]) \in Nat /\ Len(h) \in Nat
            /\ \A k \in 1..Len(h) : to[i][k] = h[k]
            /\ \A k \in 1..Len(to[j]) : to[i][Len(h) + k] = to[j][k]
            /\ \/ Len(h) = 1 /\ h[1] = from[i] /\ from[i] \notin {CR, LF} /\ j = i + 1
               \/ /\ Len(h) >= 1 /\ \A k \in 1..Len(h) : h[k] \in {CR, LF}
                  /\ \A k \in i..j - 1 : from[k] \in {CR, LF}
        BY <4>1 DEF Piece, Adds
      <4>4. Len(h) = 1 /\ h[1] = from[i] /\ j = i + 1
        <5>1. Len(h) >= 1 => to[i][1] = h[1] /\ to[i][1] \notin {CR, LF}
          BY <3>1, <3>3, <4>3
        <5>2. QED
          BY <4>3, <5>1
      <4>5. /\ m - 1 \in 0..Len(to[j])
            /\ \A k \in 1..m - 1 : to[j][k] \notin {CR, LF} /\ to[j][k] = to[i][k + 1]
        <5>1. m - 1 \in 0..Len(to[j])
          BY <3>3, <4>3, <4>4
        <5>2. ASSUME NEW k \in 1..m - 1
              PROVE  to[j][k] \notin {CR, LF} /\ to[j][k] = to[i][k + 1]
          <6>0. Len(to[j]) \in Nat /\ Len(h) = 1 /\ m \in Int /\ k \in Int
            BY <4>3, <4>4, <5>1
          <6>1. k \in 1..Len(to[j]) /\ k + 1 \in 1..m /\ Len(h) + k = k + 1
            BY <5>1, <6>0
          <6>2. QED
            BY <3>1, <4>3, <6>1
        <5>3. QED
          BY <5>1, <5>2
      <4>6. j + (m - 1) - 1 <= Len(from) /\ \A k \in 1..m - 1 : from[j + k - 1] = to[j][k]
        <5>1. P(j)
          BY <4>2
        <5>2. QED
          BY <4>5, <5>1
      <4>7. i + m - 1 <= Len(from)
        BY <4>4, <4>6
      <4>8. ASSUME NEW k \in 1..m PROVE from[i + k - 1] = to[i][k]
        <5>1. CASE k = 1
          BY <4>3, <4>4, <5>1, <2>2
        <5>2. CASE k > 1
          <6>1. k - 1 \in 1..m - 1 /\ (k - 1) + 1 = k /\ j + (k - 1) - 1 = i + k - 1
            BY <4>4, <5>2, <2>2
          <6>2. from[j + (k - 1) - 1] = to[j][k - 1] /\ to[j][k - 1] = to[i][(k - 1) + 1]
            BY <4>5, <4>6, <6>1
          <6>3. QED
            BY <6>1, <6>2
        <5>3. QED
          BY <5>1, <5>2
      <4>9. QED
        BY <4>7, <4>8
    <3>4. QED
      BY <3>2, <3>3
  <2>3. i = n \/ i \in 1..Len(from)
    BY <1>1
  <2>4. QED
    BY <2>1, <2>2, <2>3, Zenon
<1> HIDE DEF S, n
<1>4. \A i \in 1..n : i \in S
  BY <1>1, <1>3, Backwards
<1>5. QED
  BY <1>4 DEF S, n, Copied

(* m characters of a text from character a on, none of them a line end, and *)
(* the same characters somewhere in another text.                           *)
RunAt(t, a, m) == a + m - 1 <= Len(t) /\ \A k \in 1..m : t[a + k - 1] \notin {CR, LF}

SameRun(from, l, t, a, m) == l + m <= Len(from) /\ \A k \in 1..m : from[l + k] = t[a + k - 1]

(* A place in a run that fits in a text is in that text.                    *)
LEMMA RunInside ==
  ASSUME NEW w \in Nat, NEW m \in Nat, NEW c \in 1..w, c + m - 1 <= w, NEW k \in 1..m
  PROVE  c + k - 1 \in 1..w
  OBVIOUS

(* What has no line end in a conversion, wherever it is, is there in the    *)
(* text that was converted.                                                 *)
LEMMA ConversionKeepsRuns ==
  ASSUME NEW from \in Seq(Chars), NEW mode \in EolModes, NEW t, t = ConvertLineEnding(from, mode),
         NEW a \in 1..Len(t), NEW m \in Nat \ {0}, RunAt(t, a, m)
  PROVE  \E l \in 0..Len(from) : SameRun(from, l, t, a, m)
<1> DEFINE n == Len(from) + 1
           to == ConvertedFrom(from, mode)
           P(i) == \A b \in 1..Len(to[i]) :
                     b + m - 1 <= Len(to[i]) /\ (\A k \in 1..m : to[i][b + k - 1] \notin {CR, LF}) =>
                       \E l \in 0..Len(from) :
                         l + m <= Len(from) /\ \A k \in 1..m : from[l + k] = to[i][b + k - 1]
           S == {i \in 1..n : P(i)}
<1>1. n \in Nat /\ n = Len(from) + 1 /\ 1 \in 1..n
  OBVIOUS
<1>2. /\ to[n] = <<>> /\ \A i \in 1..n : to[i] \in Seq(Chars)
      /\ \A i \in 1..Len(from) : \E h \in Seq(Chars), j \in i + 1..n : Piece(from, to, i, h, j)
  BY ConvertedType, ConvertedRules, ConvertedPieces
<1>3. \A i \in 1..n : Copied(from, to, i)
  <2>1. to = ConvertedFrom(from, mode) /\ n = Len(from) + 1
    OBVIOUS
  <2> HIDE DEF to, n
  <2>2. QED
    BY <2>1, ConversionKeepsBeginnings, Zenon
<1> HIDE DEF to
<1>4. ASSUME NEW i \in 1..n, \A j \in i + 1..n : j \in S
      PROVE  i \in S
  <2>1. CASE i = n
    <3>1. Len(to[i]) = 0
      BY <1>2, <2>1
    <3>2. QED
      BY <3>1
  <2>2. CASE i \in 1..Len(from)
    <3>1. SUFFICES ASSUME NEW b \in 1..Len(to[i]), b + m - 1 <= Len(to[i]),
                          \A k \in 1..m : to[i][b + k - 1] \notin {CR, LF}
                   PROVE  \E l \in 0..Len(from) :
                            l + m <= Len(from) /\ \A k \in 1..m : from[l + k] = to[i][b + k - 1]
      OBVIOUS
    <3>2. PICK h \in Seq(Chars), j \in i + 1..n : Piece(from, to, i, h, j)
      BY <1>2, <2>2
    <3>3. P(j)
      BY <1>4
    <3>4. /\ Len(to[i]) = Len(h) + Len(to[j]) /\ Len(to[j]) \in Nat /\ Len(h) \in Nat
          /\ \A k \in 1..Len(h) : to[i][k] = h[k]
          /\ \A k \in 1..Len(to[j]) : to[i][Len(h) + k] = to[j][k]
          /\ \/ Len(h) = 1 /\ h[1] = from[i] /\ from[i] \notin {CR, LF} /\ j = i + 1
             \/ /\ Len(h) >= 1 /\ \A k \in 1..Len(h) : h[k] \in {CR, LF}
                /\ \A k \in i..j - 1 : from[k] \in {CR, LF}
      BY <3>2 DEF Piece, Adds
    <3>5. CASE b > Len(h)
      <4> DEFINE c == b - Len(h)
      <4>1. c \in 1..Len(to[j]) /\ c + m - 1 <= Len(to[j])
        BY <3>1, <3>4, <3>5
      <4>2. ASSUME NEW k \in 1..m PROVE to[i][b + k - 1] = to[j][c + k - 1]
        <5>1. Len(h) \in Nat /\ Len(to[j]) \in Nat /\ c = b - Len(h) /\ b \in Int /\ c \in Int
          BY <3>1, <3>4
        <5> HIDE DEF c
        <5>2. c + k - 1 \in 1..Len(to[j])
          BY <4>1, <5>1, RunInside
        <5>3. Len(h) + (c + k - 1) = b + k - 1
          BY <5>1
        <5>4. QED
          BY <3>4, <5>2, <5>3
      <4> HIDE DEF c
      <4>3. \A k \in 1..m : to[j][c + k - 1] \notin {CR, LF}
        BY <3>1, <4>2
      <4>4. PICK l \in 0..Len(from) :
              l + m <= Len(from) /\ \A k \in 1..m : from[l + k] = to[j][c + k - 1]
        BY <3>3, <4>1, <4>3
      <4>5. QED
        BY <4>2, <4>4
    <3>6. CASE b <= Len(h)
      <4>1. to[i][b] = h[b] /\ to[i][b] \notin {CR, LF}
        <5>1. 1 \in 1..m /\ b + 1 - 1 = b /\ b \in 1..Len(h)
          BY <3>4, <3>6
        <5>2. to[i][b + 1 - 1] \notin {CR, LF}
          BY <3>1, <5>1
        <5>3. QED
          BY <3>4, <5>1, <5>2
      <4>2. b = 1
        BY <3>4, <3>6, <4>1
      <4>3. m \in 0..Len(to[i]) /\ \A k \in 1..m : b + k - 1 = k
        BY <3>1, <3>4, <4>2
      <4>4. i + m - 1 <= Len(from) /\ \A k \in 1..m : from[i + k - 1] = to[i][k]
        <5>1. Copied(from, to, i)
          BY <1>3
        <5>2. \A k \in 1..m : to[i][k] \notin {CR, LF}
          BY <3>1, <4>3
        <5>3. QED
          BY <4>3, <5>1, <5>2 DEF Copied
      <4> DEFINE l == i - 1
      <4>5. l \in 0..Len(from) /\ l + m <= Len(from) /\ \A k \in 1..m : l + k = i + k - 1
        <5>1. Len(from) \in Nat /\ i \in 1..Len(from) /\ i + m - 1 <= Len(from) /\ l = i - 1
          BY <2>2, <4>4
        <5>2. QED
          BY <5>1
      <4> HIDE DEF l
      <4>6. \A k \in 1..m : from[l + k] = to[i][b + k - 1]
        BY <4>3, <4>4, <4>5
      <4>7. QED
        BY <4>5, <4>6
    <3>7. QED
      BY <3>4, <3>5, <3>6
  <2>3. QED
    BY <1>1, <2>1, <2>2
<1> HIDE DEF S, n
<1>5. 1 \in S
  BY <1>1, <1>4, Backwards
<1>6. to[1] = t
  BY DEF to, ConvertLineEnding
<1>7. QED
  BY <1>5, <1>6 DEF S, RunAt, SameRun

(* The first position with a property that a set names, or none.            *)
LEMMA FirstOf ==
  ASSUME NEW n \in Nat, NEW I \in SUBSET (1..n)
  PROVE  LET first == IF I # {} THEN Min(I) ELSE 0
         IN  /\ first \in 0..n
             /\ first = 0 <=> I = {}
             /\ first # 0 => first \in I /\ \A i \in I : first <= i
<1>1. CASE I = {}
  BY <1>1
<1>2. CASE I # {}
  <2>1. I \in SUBSET Nat
    OBVIOUS
  <2>2. \E m \in I : \A i \in I : m <= i
    BY <1>2, <2>1, LeastElement
  <2>3. Min(I) \in I /\ \A i \in I : Min(I) <= i
    BY <2>2 DEF Min
  <2>4. Min(I) \in 0..n /\ Min(I) # 0
    <3>1. \A f \in I : f \in 0..n /\ f # 0
      OBVIOUS
    <3>2. QED
      BY <2>3, <3>1, Zenon
  <2>5. (IF I # {} THEN Min(I) ELSE 0) = Min(I)
    BY <1>2, Zenon
  <2>6. QED
    BY <1>2, <2>3, <2>4, <2>5, Zenon
<1>3. QED
  BY <1>1, <1>2, Zenon

(* The name is what is on the line of the visible character f, from it on.   *)
NameAt(name, text, f) ==
  /\ text[f] \notin Spaces
  /\ Len(name) \in Nat \ {0} /\ f + Len(name) - 1 <= Len(text)
  /\ \A k \in 1..Len(name) : name[k] = text[f + k - 1] /\ text[f + k - 1] \notin {CR, LF}

(* The name proposed is part of one line, from its first visible character, *)
(* or there is nothing visible.                                             *)
LEMMA GuessNameIs ==
  ASSUME NEW text \in Seq(Chars), NEW name, name = GuessName(text)
  PROVE  /\ name \in Seq(Chars)
         /\ \/ name = <<>> /\ \A i \in 1..Len(text) : text[i] \in Spaces
            \/ \E f \in 1..Len(text) : NameAt(name, text, f)
<1> DEFINE I == {i \in 1..Len(text) : text[i] \notin Spaces}
           from == IF I # {} THEN Min(I) ELSE 0
           rest == SubSeq(text, from, Len(text))
           J == {i \in 1..Len(rest) : rest[i] \in {CR, LF}}
           stop == IF J # {} THEN Min(J) ELSE 0
           line == IF stop = 0 THEN rest ELSE SubSeq(rest, 1, stop - 1)
           m == IF Len(line) > MaxName THEN MaxName ELSE Len(line)
<1>1. name = IF from = 0 THEN <<>> ELSE SubSeq(line, 1, m)
  BY DEF GuessName, SelectInSeq
<1>2. Len(text) \in Nat /\ MaxName \in Nat \ {0} /\ CR \in Spaces /\ LF \in Spaces
  BY InsertionAssumption DEF Spaces
<1>3. /\ from \in 0..Len(text)
      /\ from = 0 <=> I = {}
      /\ from # 0 => from \in I
  <2>1. I \in SUBSET (1..Len(text))
    OBVIOUS
  <2> HIDE DEF I
  <2>2. QED
    BY <1>2, <2>1, FirstOf
<1>4. CASE from = 0
  <2>1. name = <<>>
    BY <1>1, <1>4
  <2>2. \A i \in 1..Len(text) : text[i] \in Spaces
    BY <1>3, <1>4, Zenon
  <2>3. name \in Seq(Chars)
    BY <2>1
  <2>4. QED
    BY <2>1, <2>2, <2>3, Zenon
<1>5. CASE from # 0
  <2>1. from \in 1..Len(text) /\ text[from] \notin Spaces
    BY <1>3, <1>5
  <2> HIDE DEF from
  <2>2. /\ rest \in Seq(Chars) /\ Len(rest) = Len(text) - from + 1
        /\ \A i \in 1..Len(text) - from + 1 : rest[i] = text[from + i - 1]
    <3>1. \A i \in from..Len(text) : text[i] \in Chars
      BY <2>1
    <3>2. QED
      BY <1>2, <2>1, <3>1, SubSeqProperties
  <2> HIDE DEF rest
  <2>3. /\ Len(rest) \in Nat /\ J \in SUBSET (1..Len(rest))
        /\ 1 \in 1..Len(rest) /\ rest[1] = text[from] /\ rest[1] \notin {CR, LF}
    BY <1>2, <2>1, <2>2
  <2>4. /\ stop \in 0..Len(rest)
        /\ stop = 0 <=> J = {}
        /\ stop # 0 => stop \in J /\ \A i \in J : stop <= i
    <3> HIDE DEF J
    <3>1. QED
      BY <2>3, FirstOf
  <2>5. stop # 0 => stop > 1
    BY <2>3, <2>4
  <2>6. \A i \in 1..Len(rest) : (stop = 0 \/ i < stop) => rest[i] \notin {CR, LF}
    BY <2>4
  <2> HIDE DEF J, stop
  <2>7. /\ line \in Seq(Chars) /\ Len(line) \in Nat \ {0} /\ Len(line) <= Len(rest)
        /\ \A i \in 1..Len(line) : line[i] = rest[i] /\ rest[i] \notin {CR, LF}
    <3>1. CASE stop = 0
      BY <2>2, <2>3, <2>6, <3>1
    <3>2. CASE stop # 0
      <4>1. stop \in 2..Len(rest) /\ line = SubSeq(rest, 1, stop - 1)
        BY <2>4, <2>5, <3>2
      <4>2. \A i \in 1..stop - 1 : rest[i] \in Chars
        BY <2>2, <4>1
      <4>3. /\ SubSeq(rest, 1, stop - 1) \in Seq(Chars)
            /\ Len(SubSeq(rest, 1, stop - 1)) = stop - 1
            /\ \A i \in 1..stop - 1 : SubSeq(rest, 1, stop - 1)[i] = rest[i]
        <5>1. stop - 1 \in Int /\ 1 \in Int /\ 1 <= stop - 1
          BY <4>1
        <5>2. QED
          BY <4>1, <4>2, <5>1, SubSeqProperties
      <4> HIDE DEF line
      <4>4. QED
        BY <2>3, <2>6, <3>2, <4>1, <4>3
    <3>3. QED
      BY <3>1, <3>2
  <2> HIDE DEF line
  <2>8. m \in 1..Len(line) /\ m \in Nat \ {0}
    BY <1>2, <2>7
  <2> HIDE DEF m
  <2>9. /\ name \in Seq(Chars) /\ Len(name) = m
        /\ \A i \in 1..m : name[i] = line[i]
    <3>1. name = SubSeq(line, 1, m)
      BY <1>1, <1>5
    <3>2. \A i \in 1..m : line[i] \in Chars
      BY <2>7, <2>8
    <3>3. /\ SubSeq(line, 1, m) \in Seq(Chars)
          /\ Len(SubSeq(line, 1, m)) = (IF 1 <= m THEN m - 1 + 1 ELSE 0)
          /\ \A i \in 1..m - 1 + 1 : SubSeq(line, 1, m)[i] = line[1 + i - 1]
      BY <2>8, <3>2, SubSeqProperties
    <3>4. QED
      BY <2>8, <3>1, <3>3
  <2>10. from + Len(name) - 1 <= Len(text)
    BY <2>1, <2>2, <2>7, <2>8, <2>9
  <2>11. \A k \in 1..Len(name) : name[k] = text[from + k - 1] /\ text[from + k - 1] \notin {CR, LF}
    <3>1. SUFFICES ASSUME NEW k \in 1..m
                   PROVE  name[k] = text[from + k - 1] /\ text[from + k - 1] \notin {CR, LF}
      BY <2>9
    <3>2. k \in 1..Len(line) /\ k \in 1..Len(rest) /\ k \in 1..Len(text) - from + 1
      BY <2>2, <2>3, <2>7, <2>8
    <3>3. QED
      BY <2>2, <2>7, <2>9, <3>2
  <2>12. QED
    BY <2>1, <2>8, <2>9, <2>10, <2>11 DEF NameAt
<1>6. QED
  BY <1>4, <1>5

(* What is promised of the name of a snippet made of a text.                *)
ProperName(name, from) ==
  /\ \A i \in DOMAIN name : name[i] \notin {CR, LF}
  /\ (\E i \in DOMAIN from : from[i] \in Visible) => name # <<>> /\ name[1] \in Visible
  /\ \E i \in 0..Len(from) : IsPrefix(name, SubSeq(from, i + 1, Len(from)))

(* The name of the converted text is a proper one for the text itself.      *)
LEMMA NameOfConversion ==
  ASSUME NEW from \in Seq(Chars), NEW text, text = ConvertLineEnding(from, "CRLF"),
         NEW name, name = GuessName(text)
  PROVE  ProperName(name, from)
<1>1. "CRLF" \in EolModes
  BY DEF EolModes
<1>2. text \in Seq(Chars)
  BY <1>1, ConversionType
<1>3. /\ name \in Seq(Chars)
      /\ \/ name = <<>> /\ \A i \in 1..Len(text) : text[i] \in Spaces
         \/ \E f \in 1..Len(text) : NameAt(name, text, f)
  BY <1>2, GuessNameIs, Zenon
<1>4. CASE name = <<>> /\ \A i \in 1..Len(text) : text[i] \in Spaces
  <2>1. \A i \in 1..Len(from) : from[i] \in Spaces
    BY <1>1, <1>4, ConversionKeepsVisible, Zenon
  <2>2. ~ \E i \in DOMAIN from : from[i] \in Visible
    BY <2>1, InsertionAssumption
  <2>3. 0 \in 0..Len(from) /\ IsPrefix(name, SubSeq(from, 0 + 1, Len(from)))
    BY <1>4 DEF IsPrefix
  <2>4. \A i \in DOMAIN name : name[i] \notin {CR, LF}
    BY <1>4
  <2>5. QED
    BY <2>2, <2>3, <2>4, Zenon DEF ProperName
<1>5. ASSUME NEW f \in 1..Len(text), NameAt(name, text, f)
      PROVE  ProperName(name, from)
  <2> DEFINE m == Len(name)
  <2>1. /\ text[f] \notin Spaces /\ m \in Nat \ {0} /\ f + m - 1 <= Len(text)
        /\ \A k \in 1..m : name[k] = text[f + k - 1] /\ text[f + k - 1] \notin {CR, LF}
    BY <1>5 DEF NameAt
  <2>2. DOMAIN name = 1..m
    BY <1>3
  <2> HIDE DEF m
  <2>3. \A i \in DOMAIN name : name[i] \notin {CR, LF}
    BY <2>1, <2>2
  <2>4. name # <<>> /\ name[1] \in Visible
    <3>1. 1 \in 1..m /\ f + 1 - 1 = f
      BY <2>1
    <3>2. name[1] = text[f]
      BY <2>1, <3>1
    <3>3. text[f] \in Chars /\ text[f] \notin Spaces
      BY <1>2, <2>1
    <3>4. name # <<>>
      BY <1>3, <2>1 DEF m
    <3>5. QED
      BY <3>2, <3>3, <3>4 DEF Chars
  <2>5. PICK l \in 0..Len(from) : SameRun(from, l, text, f, m)
    <3>1. RunAt(text, f, m)
      BY <2>1 DEF RunAt
    <3>2. QED
      BY <1>1, <2>1, <3>1, ConversionKeepsRuns, Zenon
  <2>6. IsPrefix(name, SubSeq(from, l + 1, Len(from)))
    <3> DEFINE t == SubSeq(from, l + 1, Len(from))
    <3>1. /\ t \in Seq(Chars) /\ Len(t) = Len(from) - l
          /\ \A k \in 1..Len(from) - l : t[k] = from[l + k]
      OBVIOUS
    <3> HIDE DEF t
    <3>2. m <= Len(t) /\ \A k \in 1..m : t[k] = name[k]
      BY <2>1, <2>5, <3>1 DEF SameRun
    <3>3. SubSeq(name, 1, m) = SubSeq(t, 1, m)
      BY <1>3, <2>1, <2>2, <3>1, <3>2 DEF m
    <3>4. QED
      BY <3>2, <3>3 DEF IsPrefix, t, m
  <2>7. QED
    BY <2>3, <2>4, <2>5, <2>6, Zenon DEF ProperName
<1>6. QED
  BY <1>3, <1>4, <1>5

-----------------------------------------------------------------------------
(* What inserting does to the document. *)

(* Texts are put together to a text that is as long as they are.            *)
LEMMA JoinedLength ==
  \A s, t \in Seq(Chars) : s \o t \in Seq(Chars) /\ Len(s \o t) = Len(s) + Len(t)
  OBVIOUS

(* The caret is between x and y, which are the whole document.              *)
Caret(e, x, y) == e = [doc |-> x \o y, start |-> Len(x), end |-> Len(x)]

(* A text put at the caret comes between what is before it and after it.    *)
LEMMA ReplaceSelAtCaret ==
  ASSUME NEW x \in Seq(Chars), NEW y \in Seq(Chars), NEW c \in Seq(Chars), NEW e, Caret(e, x, y)
  PROVE  Caret(ReplaceSel(e, c), x \o c, y)
<1>1. SubSeq(x \o y, 1, Len(x)) = x
  OBVIOUS
<1>2. SubSeq(x \o y, Len(x) + 1, Len(x \o y)) = y
  OBVIOUS
<1>3. Len(x \o c) = Len(x) + Len(c)
  OBVIOUS
<1>4. QED
  BY <1>1, <1>2, <1>3 DEF ReplaceSel, Caret

(* A text is what is before a selection, the selection, and what is after.  *)
LEMMA CutAtSelection ==
  ASSUME NEW d \in Seq(Chars), NEW s \in 0..Len(d), NEW t \in s..Len(d)
  PROVE  /\ SubSeq(d, 1, s) \in Seq(Chars) /\ Len(SubSeq(d, 1, s)) = s
         /\ SubSeq(d, s + 1, t) \in Seq(Chars) /\ Len(SubSeq(d, s + 1, t)) = t - s
         /\ SubSeq(d, t + 1, Len(d)) \in Seq(Chars)
         /\ Len(SubSeq(d, t + 1, Len(d))) = Len(d) - t
<1>1. \A i \in 1..Len(d) : d[i] \in Chars
  OBVIOUS
<1>2. QED
  BY <1>1, SubSeqProperties

(* A document is cut into the text before its selection, the selection or   *)
(* nothing if that is to be replaced, and the text after it.                *)
Cut(e, pre, mid, post) ==
  /\ pre = SubSeq(e.doc, 1, e.start) /\ post = SubSeq(e.doc, e.end + 1, Len(e.doc))
  /\ mid = IF snip.replace THEN <<>> ELSE SubSeq(e.doc, e.start + 1, e.end)

(* A document with its selection, in the five parts an insertion makes.     *)
InParts(r, pre, b, mid, a, post) ==
  /\ r.doc = (((pre \o b) \o mid) \o a) \o post
  /\ r.start = Len(pre \o b) /\ r.end = Len((pre \o b) \o mid)

(* The whole of Around: the part before the selection, the selection unless *)
(* it is replaced, the part after, and the rest around them.                *)
LEMMA AroundIs ==
  ASSUME NEW b \in Seq(Chars), NEW a \in Seq(Chars), NEW e,
         e.doc \in Seq(Chars), e.start \in 0..Len(e.doc), e.end \in e.start..Len(e.doc),
         NEW pre, NEW mid, NEW post, Cut(e, pre, mid, post)
  PROVE  InParts(Around(e, b, a), pre, b, mid, a, post)
<1> DEFINE sel == SubSeq(e.doc, e.start + 1, e.end)
           first == ReplaceSel(e, b)
           putBack == IF snip.replace THEN first ELSE ReplaceSel(first, sel)
           whole == ReplaceSel(putBack, a)
           x == pre \o b
           y == (pre \o b) \o mid
<1>1. /\ pre \in Seq(Chars) /\ Len(pre) = e.start /\ post \in Seq(Chars) /\ sel \in Seq(Chars)
      /\ mid \in Seq(Chars)
  <2>1. /\ SubSeq(e.doc, 1, e.start) \in Seq(Chars) /\ Len(SubSeq(e.doc, 1, e.start)) = e.start
        /\ SubSeq(e.doc, e.start + 1, e.end) \in Seq(Chars)
        /\ SubSeq(e.doc, e.end + 1, Len(e.doc)) \in Seq(Chars)
    BY CutAtSelection, Zenon
  <2>2. /\ mid = <<>> \/ mid = sel
        /\ pre = SubSeq(e.doc, 1, e.start) /\ post = SubSeq(e.doc, e.end + 1, Len(e.doc))
    BY DEF Cut
  <2>3. <<>> \in Seq(Chars)
    OBVIOUS
  <2>4. QED
    BY <2>1, <2>2, <2>3, Zenon
<1>2. Around(e, b, a) = [doc |-> whole.doc, start |-> first.end, end |-> putBack.end]
  BY DEF Around
<1> HIDE DEF sel
<1>3. x \in Seq(Chars) /\ y \in Seq(Chars) /\ Len(x) = e.start + Len(b)
  <2>1. x \in Seq(Chars) /\ Len(x) = Len(pre) + Len(b)
    BY <1>1, JoinedLength, Zenon
  <2>2. y \in Seq(Chars)
    BY <1>1, <2>1, JoinedLength, Zenon
  <2>3. QED
    BY <1>1, <2>1, <2>2, Zenon
<1>4. Caret(first, x, post)
  <2>1. first = [doc |-> x \o post, start |-> e.start + Len(b), end |-> e.start + Len(b)]
    BY Zenon DEF ReplaceSel, Cut
  <2>2. QED
    BY <1>3, <2>1, Zenon DEF Caret
<1> HIDE DEF first, x
<1>5. Caret(putBack, y, post)
  <2>1. CASE snip.replace
    <3>1. mid = <<>> /\ putBack = first
      BY <2>1 DEF Cut
    <3>2. x \o <<>> = x
      BY <1>3
    <3>3. y = x
      BY <3>1, <3>2 DEF x
    <3>4. QED
      BY <1>4, <3>1, <3>3
  <2>2. CASE ~snip.replace
    <3>1. mid = sel /\ putBack = ReplaceSel(first, sel) /\ y = x \o sel
      BY <2>2 DEF sel, x, Cut
    <3>2. Caret(ReplaceSel(first, sel), x \o sel, post)
      BY <1>1, <1>3, <1>4, ReplaceSelAtCaret
    <3>3. QED
      BY <3>1, <3>2
  <2>3. QED
    BY <2>1, <2>2
<1> HIDE DEF putBack, y
<1>6. Caret(whole, y \o a, post)
  BY <1>1, <1>3, <1>5, ReplaceSelAtCaret
<1> HIDE DEF whole
<1>7. first.end = Len(x) /\ putBack.end = Len(y) /\ whole.doc = (y \o a) \o post
  BY <1>4, <1>5, <1>6 DEF Caret
<1>8. /\ Around(e, b, a).doc = (y \o a) \o post
      /\ Around(e, b, a).start = Len(x) /\ Around(e, b, a).end = Len(y)
  BY <1>2, <1>7
<1>9. QED
  BY <1>8, Zenon DEF x, y, InParts

(* Five texts put together begin with the first and end with the last.      *)
LEMMA BeginsWith ==
  \A pre, b, mid, a, post \in Seq(Chars) : IsPrefix(pre, (((pre \o b) \o mid) \o a) \o post)
<1> SUFFICES ASSUME NEW pre \in Seq(Chars), NEW b \in Seq(Chars), NEW mid \in Seq(Chars),
                    NEW a \in Seq(Chars), NEW post \in Seq(Chars)
             PROVE  IsPrefix(pre, (((pre \o b) \o mid) \o a) \o post)
  OBVIOUS
<1> DEFINE u == (((pre \o b) \o mid) \o a) \o post
<1>1. Len(pre) <= Len(u) /\ SubSeq(u, 1, Len(pre)) = pre /\ SubSeq(pre, 1, Len(pre)) = pre
  OBVIOUS
<1>2. QED
  BY <1>1 DEF IsPrefix

(* A text that ends with another has it as a suffix, backwards a prefix.    *)
LEMMA EndsWith ==
  \A pre, b, mid, a, post \in Seq(Chars) : IsSuffix(post, (((pre \o b) \o mid) \o a) \o post)
<1> SUFFICES ASSUME NEW pre \in Seq(Chars), NEW b \in Seq(Chars), NEW mid \in Seq(Chars),
                    NEW a \in Seq(Chars), NEW post \in Seq(Chars)
             PROVE  IsSuffix(post, (((pre \o b) \o mid) \o a) \o post)
  OBVIOUS
<1> DEFINE s == ((pre \o b) \o mid) \o a
           u == s \o post
           n == Len(post)
           ru == Reverse(u)
           rp == Reverse(post)
<1>1. s \in Seq(Chars)
  OBVIOUS
<1> HIDE DEF s
<1>2. /\ u \in Seq(Chars) /\ Len(u) = Len(s) + n /\ \A j \in 1..n : u[Len(s) + j] = post[j]
      /\ n \in Nat /\ Len(s) \in Nat /\ post \in Seq(Chars)
  BY <1>1, OneAfterOther
<1> HIDE DEF u, n
<1>3. /\ ru \in Seq(Chars) /\ Len(ru) = Len(u) /\ \A j \in 1..Len(u) : ru[j] = u[Len(u) - j + 1]
  BY <1>2 DEF Reverse
<1>4. /\ rp \in Seq(Chars) /\ Len(rp) = n /\ \A j \in 1..n : rp[j] = post[n - j + 1]
  BY <1>2 DEF Reverse, n
<1> HIDE DEF ru, rp
<1>5. ASSUME NEW j \in 1..n PROVE rp[j] = ru[j]
  <2>1. n - j + 1 \in 1..n /\ Len(s) + (n - j + 1) = Len(u) - j + 1 /\ j \in 1..Len(u)
    BY <1>2
  <2>2. u[Len(s) + (n - j + 1)] = post[n - j + 1]
    BY <1>2, <2>1
  <2>3. rp[j] = post[n - j + 1] /\ ru[j] = u[Len(u) - j + 1]
    BY <1>3, <1>4, <2>1
  <2>4. QED
    BY <2>1, <2>2, <2>3, Zenon
<1>6. n <= Len(ru) /\ SubSeq(rp, 1, n) = SubSeq(ru, 1, n)
  BY <1>2, <1>3, <1>4, <1>5
<1>7. IsPrefix(rp, ru)
  BY <1>4, <1>6, Zenon DEF IsPrefix
<1>8. QED
  BY <1>7, Zenon DEF IsSuffix, ru, rp, u, s

(* The document after an insertion, in its five parts.                      *)
Parts(pre, b, mid, a, post) ==
  /\ pre \in Seq(Chars) /\ b \in Seq(Chars) /\ mid \in Seq(Chars) /\ a \in Seq(Chars)
  /\ post \in Seq(Chars)
  /\ doc' = (((pre \o b) \o mid) \o a) \o post
  /\ start' = Len(pre \o b) /\ end' = Len((pre \o b) \o mid)

(* The document that is inserted into, the current one or an empty one.     *)
LEMMA InsertedInto ==
  ASSUME IInv, NEW e, e = StartNewDocument
  PROVE  /\ e = [doc |-> e.doc, start |-> e.start, end |-> e.end]
         /\ e.doc \in Seq(Chars) /\ e.start \in 0..Len(e.doc) /\ e.end \in e.start..Len(e.doc)
         /\ StartsNew => e.doc = <<>> /\ e.start = 0 /\ e.end = 0
         /\ ~StartsNew => e.doc = doc /\ e.start = start /\ e.end = end
<1>1. doc \in Seq(Chars) /\ start \in 0..end /\ end \in 0..Len(doc)
  BY DEF IInv, TypeOK
<1>2. CASE StartsNew
  BY <1>2 DEF StartNewDocument
<1>3. CASE ~StartsNew
  BY <1>1, <1>3 DEF StartNewDocument
<1>4. QED
  BY <1>2, <1>3

(* OnSnippetInsert makes the document of its parts, the snippet's two with  *)
(* the line endings of the document.                                        *)
LEMMA InsertedParts ==
  ASSUME IInv, NEW m \in EolModes, OnSnippetInsert(m), NEW e, e = StartNewDocument
  PROVE  /\ eol' \in EolModes /\ eol' = (IF StartsNew THEN m ELSE eol)
         /\ snip # NoSnippet /\ UNCHANGED <<dialog, snip, origin>>
         /\ Parts(SubSeq(e.doc, 1, e.start), ConvertLineEnding(snip.before, eol'),
                  IF snip.replace THEN <<>> ELSE SubSeq(e.doc, e.start + 1, e.end),
                  ConvertLineEnding(snip.after, eol'),
                  SubSeq(e.doc, e.end + 1, Len(e.doc)))
<1> DEFINE mode == IF StartsNew THEN m ELSE eol
           b == ConvertLineEnding(snip.before, mode)
           a == ConvertLineEnding(snip.after, mode)
           mid == IF snip.replace THEN <<>> ELSE SubSeq(e.doc, e.start + 1, e.end)
           pre == SubSeq(e.doc, 1, e.start)
           post == SubSeq(e.doc, e.end + 1, Len(e.doc))
           r == Around(e, b, a)
<1>1. mode \in EolModes /\ eol' = mode
  BY DEF OnSnippetInsert, IInv, TypeOK
<1>2. /\ snip # NoSnippet /\ UNCHANGED <<dialog, snip, origin>>
      /\ doc' = r.doc /\ start' = r.start /\ end' = r.end
  BY Zenon DEF OnSnippetInsert, Insert
<1>3. /\ e = [doc |-> e.doc, start |-> e.start, end |-> e.end]
      /\ e.doc \in Seq(Chars) /\ e.start \in 0..Len(e.doc) /\ e.end \in e.start..Len(e.doc)
  BY InsertedInto
<1> HIDE DEF mode
<1>4. b \in Seq(Chars) /\ a \in Seq(Chars)
  <2>1. snip.before \in Seq(Chars) /\ snip.after \in Seq(Chars)
    BY DEF IInv, TypeOK
  <2>2. QED
    BY <1>1, <2>1, ConversionType
<1> HIDE DEF a, b
<1>5. pre \in Seq(Chars) /\ mid \in Seq(Chars) /\ post \in Seq(Chars)
  BY <1>3, CutAtSelection
<1>6. InParts(r, pre, b, mid, a, post)
  <2>1. Cut(e, pre, mid, post)
    BY DEF Cut
  <2> HIDE DEF pre, mid, post
  <2>2. QED
    BY <1>3, <1>4, <2>1, AroundIs, Zenon
<1> HIDE DEF r, pre, mid, post
<1>7. Parts(pre, b, mid, a, post)
  BY <1>2, <1>4, <1>5, <1>6 DEF Parts, InParts
<1>8. QED
  BY <1>1, <1>2, <1>7, Zenon DEF a, b, pre, mid, post, mode

(* What is selected afterwards, and what is around it.                      *)
LEMMA PartsAre ==
  ASSUME NEW pre, NEW b, NEW mid, NEW a, NEW post, Parts(pre, b, mid, a, post)
  PROVE  /\ doc' \in Seq(Chars) /\ start' \in 0..end' /\ end' \in 0..Len(doc')
         /\ SubSeq(doc', Len(pre) + 1, start') = b
         /\ SubSeq(doc', start' + 1, end') = mid
         /\ start' = Len(pre) + Len(b) /\ Len(doc') - end' = Len(a) + Len(post)
<1>1. /\ pre \in Seq(Chars) /\ b \in Seq(Chars) /\ mid \in Seq(Chars) /\ a \in Seq(Chars)
      /\ post \in Seq(Chars)
      /\ doc' = (((pre \o b) \o mid) \o a) \o post
      /\ start' = Len(pre \o b) /\ end' = Len((pre \o b) \o mid)
  BY DEF Parts
<1>2. /\ doc' \in Seq(Chars) /\ Len(pre \o b) = Len(pre) + Len(b)
      /\ Len((pre \o b) \o mid) = Len(pre) + Len(b) + Len(mid)
      /\ Len(doc') = Len(pre) + Len(b) + Len(mid) + Len(a) + Len(post)
  BY <1>1
<1>3. SubSeq(doc', Len(pre) + 1, start') = b
  BY <1>1, <1>2
<1>4. SubSeq(doc', start' + 1, end') = mid
  BY <1>1, <1>2
<1>5. /\ start' \in 0..end' /\ end' \in 0..Len(doc')
      /\ start' = Len(pre) + Len(b) /\ Len(doc') - end' = Len(a) + Len(post)
  <2>1. /\ Len(pre) \in Nat /\ Len(b) \in Nat /\ Len(mid) \in Nat /\ Len(a) \in Nat
        /\ Len(post) \in Nat
    BY <1>1
  <2>2. /\ start' = Len(pre) + Len(b) /\ end' = Len(pre) + Len(b) + Len(mid)
        /\ Len(doc') = Len(pre) + Len(b) + Len(mid) + Len(a) + Len(post)
    BY <1>1, <1>2
  <2>3. QED
    BY <2>1, <2>2
<1>6. QED
  BY <1>2, <1>3, <1>4, <1>5, Zenon

-----------------------------------------------------------------------------
(* The invariant. *)

(* A snippet with no text is a snippet, and any two texts make the same.    *)
LEMMA EmptyType ==
  /\ <<>> \in Seq(Chars)
  /\ NoSnippet \in [before : Seq(Chars), after : Seq(Chars), replace : BOOLEAN,
                    newdoc : BOOLEAN, name : Seq(Chars)]
<1>1. <<>> \in Seq(Chars)
  OBVIOUS
<1>2. QED
  BY <1>1 DEF NoSnippet

(* The invariant holds initially.                                           *)
LEMMA InitInv == Init => IInv
<1> SUFFICES ASSUME Init PROVE IInv
  OBVIOUS
<1>1. /\ start = 0 /\ end = 0 /\ dialog = NoSnippet /\ snip = NoSnippet /\ origin = <<>>
      /\ doc \in Seq(Chars) /\ eol \in EolModes
  BY InsertionAssumption DEF Init
<1>2. TypeOK
  BY <1>1, EmptyType DEF TypeOK
<1>3. QED
  BY <1>1, <1>2 DEF IInv

(* A new snippet keeps the conversion of what it was made of, and its name. *)
LEMMA AddFromInv ==
  ASSUME IInv, NEW text \in Seq(Chars), AddFrom(text)
  PROVE  IInv'
<1> DEFINE before == ConvertLineEnding(text, "CRLF")
<1>1. before \in Seq(Chars) /\ GuessName(before) \in Seq(Chars)
  <2>1. "CRLF" \in EolModes
    BY DEF EolModes
  <2>2. before \in Seq(Chars)
    BY <2>1, ConversionType
  <2> HIDE DEF before
  <2>3. QED
    BY <2>2, GuessNameIs, Zenon
<1>2. /\ snip = NoSnippet /\ snip' = NoSnippet /\ origin' = text
      /\ dialog' = [NoSnippet EXCEPT !.before = before, !.name = GuessName(before)]
      /\ UNCHANGED <<doc, eol, start, end>>
  BY DEF AddFrom
<1> HIDE DEF before
<1>3. /\ dialog' \in [before : Seq(Chars), after : Seq(Chars), replace : BOOLEAN,
                       newdoc : BOOLEAN, name : Seq(Chars)]
      /\ dialog'.before = before /\ dialog'.name = GuessName(before)
  BY <1>1, <1>2, EmptyType DEF NoSnippet
<1>4. TypeOK'
  BY <1>2, <1>3, EmptyType DEF TypeOK, IInv
<1>5. QED
  BY <1>2, <1>3, <1>4 DEF IInv, before

(* No step of the editor, of the dialog or of the plug-in breaks it.        *)
LEMMA NextInv ==
  ASSUME IInv, [Next]_vars
  PROVE  IInv'
<1> USE DEF IInv
<1>1. ASSUME NEW from \in Positions(doc), NEW to \in Positions(doc), SetSelection(from, to)
      PROVE  IInv'
  <2>1. /\ start' \in 0..end' /\ end' \in 0..Len(doc)
        /\ UNCHANGED <<doc, eol, dialog, snip, origin>>
    BY <1>1 DEF SetSelection, Positions, TypeOK
  <2>2. QED
    BY <2>1 DEF TypeOK
<1>2. ASSUME NEW d \in Documents, SwitchDocument(d)
      PROVE  IInv'
  <2>1. /\ doc' \in Seq(Chars) /\ eol' \in EolModes /\ start' = 0 /\ end' = 0
        /\ UNCHANGED <<dialog, snip, origin>>
    BY <1>2, InsertionAssumption DEF SwitchDocument
  <2>2. QED
    BY <2>1 DEF TypeOK
<1>3. ASSUME NEW text \in Clips, OnSnippetAddClipboard(text)
      PROVE  IInv'
  BY <1>3, AddFromInv, InsertionAssumption DEF OnSnippetAddClipboard
<1>4. CASE OnSnippetAddSelection
  <2>1. Selected \in Seq(Chars)
    <3>1. doc \in Seq(Chars) /\ start \in 0..Len(doc) /\ end \in start..Len(doc)
      BY DEF TypeOK
    <3>2. QED
      BY <3>1, CutAtSelection DEF Selected
  <2>2. QED
    BY <1>4, <2>1, AddFromInv DEF OnSnippetAddSelection
<1>5. ASSUME NEW after \in AfterTexts, NEW replace \in BOOLEAN, NEW newdoc \in BOOLEAN,
             EditSnippet_OK(after, replace, newdoc)
      PROVE  IInv'
  <2>1. /\ dialog' = NoSnippet /\ UNCHANGED <<doc, eol, start, end, origin>>
        /\ snip' = [dialog EXCEPT !.after = after, !.replace = replace, !.newdoc = newdoc]
        /\ dialog # NoSnippet
    BY <1>5 DEF EditSnippet_OK
  <2>2. after \in Seq(Chars)
    BY InsertionAssumption
  <2>3. /\ snip' \in [before : Seq(Chars), after : Seq(Chars), replace : BOOLEAN,
                       newdoc : BOOLEAN, name : Seq(Chars)]
        /\ snip'.before = dialog.before
    BY <2>1, <2>2 DEF TypeOK
  <2>4. TypeOK'
    BY <2>1, <2>3, EmptyType DEF TypeOK
  <2>5. QED
    BY <2>1, <2>3, <2>4
<1>6. CASE EditSnippet_Cancel
  BY <1>6, EmptyType DEF EditSnippet_Cancel, TypeOK
<1>7. CASE OnSnippetDelete
  BY <1>7, EmptyType DEF OnSnippetDelete, TypeOK
<1>8. ASSUME NEW m \in EolModes, OnSnippetInsert(m)
      PROVE  IInv'
  <2> DEFINE e == StartNewDocument
  <2>1. /\ eol' \in EolModes /\ UNCHANGED <<dialog, snip, origin>>
        /\ \E pre, b, mid, a, post : Parts(pre, b, mid, a, post)
    BY <1>8, InsertedParts, Zenon
  <2>2. doc' \in Seq(Chars) /\ start' \in 0..end' /\ end' \in 0..Len(doc')
    BY <2>1, PartsAre, Zenon
  <2>3. QED
    BY <2>1, <2>2 DEF TypeOK
<1>9. CASE UNCHANGED vars
  BY <1>9 DEF vars, TypeOK
<1>10. QED
  BY <1>1, <1>2, <1>3, <1>4, <1>5, <1>6, <1>7, <1>8, <1>9 DEF Next

(* A snippet is what the code made of the text it comes from, whether it is *)
(* in the dialog or stored, and there is one at a time; and every variable  *)
(* has its type (OnSnippetAddSelection, OnSnippetAddClipboard).             *)
THEOREM InvariantHolds == Spec => []IInv
<1>1. Init => IInv
  BY InitInv
<1>2. IInv /\ [Next]_vars => IInv'
  BY NextInv
<1>3. QED
  BY <1>1, <1>2, PTL DEF Spec

-----------------------------------------------------------------------------
(* What the invariant says of stored snippets and of names. *)

(* A stored snippet has proper line endings, whatever text of whatever      *)
(* length it was made of, but for a CR at its very end (changelog 1.5.1).   *)
THEOREM StoredEndsAreProperHolds == Spec => []StoredEndsAreProper
<1>1. IInv => StoredEndsAreProper
  <2> SUFFICES ASSUME IInv, NEW s \in {dialog, snip}
               PROVE  EndsIn("CRLF", IF LoneCR(s.before) THEN Front(s.before) ELSE s.before)
    BY DEF StoredEndsAreProper
  <2>1. CASE s = NoSnippet
    <3>1. s.before = <<>>
      BY <2>1 DEF NoSnippet
    <3>2. ~LoneCR(s.before)
      BY <3>1 DEF LoneCR
    <3>3. EndsIn("CRLF", <<>>)
      BY EndsInBasics DEF EolModes
    <3>4. QED
      BY <3>1, <3>2, <3>3, Zenon
  <2>2. CASE s # NoSnippet
    <3>1. s.before = ConvertLineEnding(origin, "CRLF") /\ origin \in Seq(Chars)
      BY <2>2 DEF IInv, TypeOK
    <3>2. QED
      BY <3>1, StoredEnds, Zenon
  <2>3. QED
    BY <2>1, <2>2
<1>2. QED
  BY <1>1, InvariantHolds, PTL

(* The name proposed is on one line of the text it comes from, begins with  *)
(* something visible, and is there whenever the text has something visible  *)
(* (Snippet::GuessName).                                                    *)
THEOREM NameIsALineHolds == Spec => []NameIsALine
<1>1. IInv => NameIsALine
  <2> SUFFICES ASSUME IInv, dialog # NoSnippet
               PROVE  NameIsALine
    BY DEF NameIsALine
  <2>1. /\ dialog.before = ConvertLineEnding(origin, "CRLF") /\ origin \in Seq(Chars)
        /\ dialog.name = GuessName(dialog.before)
    BY DEF IInv, TypeOK
  <2>2. ProperName(dialog.name, origin)
    BY <2>1, NameOfConversion, Zenon
  <2>3. QED
    BY <2>2, Zenon DEF NameIsALine, ProperName
<1>2. QED
  BY <1>1, InvariantHolds, PTL

-----------------------------------------------------------------------------
(* What inserting keeps. *)

(* From the editor or the clipboard into the database and from there into a *)
(* document, through both conversions, no line is lost, split or joined,    *)
(* however many lines there are (ConvertLineEnding, OnSnippetInsert).       *)
THEOREM LinesSurviveHolds == Spec => LinesSurvive
<1>1. ASSUME IInv, IInv', OnSnippetInsert(eol')
      PROVE  LET from == IF snip.newdoc THEN 0 ELSE start
             IN  Lines(SubSeq(doc', from + 1, start')) = Lines(origin)
  <2> DEFINE from == IF snip.newdoc THEN 0 ELSE start
             e == StartNewDocument
             pre == SubSeq(e.doc, 1, e.start)
             b == ConvertLineEnding(snip.before, eol')
  <2>1. eol' \in EolModes
    BY <1>1 DEF IInv, TypeOK
  <2>2. snip # NoSnippet /\ \E mid, a, post : Parts(pre, b, mid, a, post)
    BY <1>1, <2>1, InsertedParts, Zenon
  <2>3. SubSeq(doc', Len(pre) + 1, start') = b
    <3> HIDE DEF pre, b
    <3>1. QED
      BY <2>2, PartsAre, Zenon
  <2>4. Len(pre) = from
    <3>1. /\ e.doc \in Seq(Chars) /\ e.start \in 0..Len(e.doc) /\ e.end \in e.start..Len(e.doc)
          /\ StartsNew => e.doc = <<>> /\ e.start = 0 /\ e.end = 0
          /\ ~StartsNew => e.doc = doc /\ e.start = start /\ e.end = end
      BY <1>1, InsertedInto
    <3>2. Len(pre) = e.start
      <4> HIDE DEF e
      <4>1. QED
        BY <3>1, CutAtSelection
    <3>3. start \in 0..end /\ end \in 0..Len(doc)
      BY <1>1 DEF IInv, TypeOK
    <3>4. snip.newdoc /\ ~StartsNew => start = 0
      BY <3>3 DEF StartsNew
    <3>5. ~snip.newdoc => ~StartsNew
      BY DEF StartsNew
    <3>6. QED
      BY <3>1, <3>2, <3>4, <3>5, Zenon
  <2>5. Lines(b) = Lines(origin)
    <3>1. /\ snip.before = ConvertLineEnding(origin, "CRLF") /\ origin \in Seq(Chars)
          /\ snip.before \in Seq(Chars) /\ "CRLF" \in EolModes
      BY <1>1, <2>2 DEF IInv, TypeOK, EolModes
    <3>2. Lines(b) = Lines(snip.before)
      BY <2>1, <3>1, ConversionKeepsLines, Zenon
    <3>3. Lines(snip.before) = Lines(origin)
      BY <3>1, ConversionKeepsLines, Zenon
    <3>4. QED
      BY <3>2, <3>3, Zenon
  <2> HIDE DEF b, pre, from
  <2>6. Lines(SubSeq(doc', from + 1, start')) = Lines(origin)
    BY <2>3, <2>4, <2>5, Zenon
  <2>7. QED
    BY <2>6, Zenon DEF from
<1>2. QED
  BY <1>1, InvariantHolds, PTL DEF LinesSurvive

(* What was selected is selected again, or nothing if it was replaced, and  *)
(* all else of the document is still around it (OnSnippetInsert).           *)
THEOREM SelectionIsKeptHolds == Spec => SelectionIsKept
<1>1. ASSUME IInv, IInv', OnSnippetInsert(eol') /\ ~snip.newdoc
      PROVE  /\ SubSeq(doc', start' + 1, end') = IF snip.replace THEN <<>> ELSE Selected
             /\ IsPrefix(SubSeq(doc, 1, start), doc')
             /\ IsSuffix(SubSeq(doc, end + 1, Len(doc)), doc')
             /\ start' >= start /\ Len(doc') - end' >= Len(doc) - end
  <2> DEFINE pre == SubSeq(doc, 1, start)
             mid == IF snip.replace THEN <<>> ELSE Selected
             post == SubSeq(doc, end + 1, Len(doc))
             e == StartNewDocument
  <2>1. eol' \in EolModes
    BY <1>1 DEF IInv, TypeOK
  <2>2. e.doc = doc /\ e.start = start /\ e.end = end
    BY <1>1, InsertedInto DEF StartsNew
  <2>3. \E b, a : Parts(pre, b, mid, a, post)
    <3>1. \E b, a : Parts(SubSeq(e.doc, 1, e.start), b,
                         IF snip.replace THEN <<>> ELSE SubSeq(e.doc, e.start + 1, e.end), a,
                         SubSeq(e.doc, e.end + 1, Len(e.doc)))
      BY <1>1, <2>1, InsertedParts, Zenon
    <3>2. QED
      BY <2>2, <3>1, Zenon DEF Selected
  <2>4. /\ doc \in Seq(Chars) /\ start \in 0..Len(doc) /\ end \in start..Len(doc)
        /\ Len(pre) = start /\ Len(post) = Len(doc) - end
    <3>1. doc \in Seq(Chars) /\ start \in 0..Len(doc) /\ end \in start..Len(doc)
      BY <1>1 DEF IInv, TypeOK
    <3>2. QED
      BY <3>1, CutAtSelection
  <2> HIDE DEF pre, mid, post
  <2>5. PICK b, a : Parts(pre, b, mid, a, post)
    BY <2>3
  <2>6. /\ pre \in Seq(Chars) /\ b \in Seq(Chars) /\ mid \in Seq(Chars) /\ a \in Seq(Chars)
        /\ post \in Seq(Chars) /\ doc' = (((pre \o b) \o mid) \o a) \o post
    BY <2>5 DEF Parts
  <2>7. SubSeq(doc', start' + 1, end') = mid
    BY <2>5, PartsAre, Zenon
  <2>8. start' >= start /\ Len(doc') - end' >= Len(doc) - end
    <3>1. start' = Len(pre) + Len(b) /\ Len(doc') - end' = Len(a) + Len(post)
      BY <2>5, PartsAre, Zenon
    <3>2. Len(a) \in Nat /\ Len(b) \in Nat
      BY <2>6
    <3>3. QED
      BY <2>4, <3>1, <3>2
  <2>9. IsPrefix(pre, doc')
    BY <2>6, BeginsWith, Zenon
  <2>10. IsSuffix(post, doc')
    BY <2>6, EndsWith, Zenon
  <2>11. QED
    BY <2>7, <2>8, <2>9, <2>10, Zenon DEF pre, mid, post
<1>2. QED
  BY <1>1, InvariantHolds, PTL DEF SelectionIsKept

(* A document with its own line endings only has no others after an         *)
(* insertion, whatever the line endings of the snippet's text were, but for *)
(* a CR at the very end of a part of the snippet (OnSnippetInsert).         *)
THEOREM DocumentKeepsEndsHolds == Spec => DocumentKeepsEnds
<1>1. ASSUME IInv, IInv', OnSnippetInsert(eol'),
             StartsNew \/ (EndsIn(eol, doc) /\ {start, end} \subseteq Positions(doc)),
             ~LoneCR(snip.before) /\ ~LoneCR(snip.after)
      PROVE  EndsIn(eol', doc')
  <2> DEFINE e == StartNewDocument
             pre == SubSeq(e.doc, 1, e.start)
             sel == SubSeq(e.doc, e.start + 1, e.end)
             mid == IF snip.replace THEN <<>> ELSE sel
             post == SubSeq(e.doc, e.end + 1, Len(e.doc))
             b == ConvertLineEnding(snip.before, eol')
             a == ConvertLineEnding(snip.after, eol')
  <2>1. eol' \in EolModes
    BY <1>1 DEF IInv, TypeOK
  <2>2. eol' = (IF StartsNew THEN eol' ELSE eol) /\ Parts(pre, b, mid, a, post)
    BY <1>1, <2>1, InsertedParts, Zenon
  <2>3. EndsIn(eol', b) /\ EndsIn(eol', a)
    <3>1. snip.before \in Seq(Chars) /\ snip.after \in Seq(Chars)
      BY <1>1 DEF IInv, TypeOK
    <3>2. QED
      BY <1>1, <2>1, <3>1, ConversionEndsProperly, Zenon
  <2>4. /\ e.doc \in Seq(Chars) /\ e.start \in 0..Len(e.doc) /\ e.end \in e.start..Len(e.doc)
        /\ EndsIn(eol', e.doc) /\ e.start \in Positions(e.doc) /\ e.end \in Positions(e.doc)
    <3>1. /\ e.doc \in Seq(Chars) /\ e.start \in 0..Len(e.doc) /\ e.end \in e.start..Len(e.doc)
          /\ StartsNew => e.doc = <<>> /\ e.start = 0 /\ e.end = 0
          /\ ~StartsNew => e.doc = doc /\ e.start = start /\ e.end = end
      BY <1>1, InsertedInto
    <3>2. CASE StartsNew
      <4>1. EndsIn(eol', <<>>)
        BY <2>1, EndsInBasics
      <4>2. 0 \in Positions(<<>>)
        BY DEF Positions
      <4>3. QED
        BY <3>1, <3>2, <4>1, <4>2, Zenon
    <3>3. CASE ~StartsNew
      <4>1. EndsIn(eol, doc) /\ start \in Positions(doc) /\ end \in Positions(doc) /\ eol' = eol
        BY <1>1, <2>2, <3>3
      <4>2. QED
        BY <3>1, <3>3, <4>1, Zenon
    <3>4. QED
      BY <3>2, <3>3
  <2> HIDE DEF e, b, a
  <2>5. EndsIn(eol', pre) /\ EndsIn(eol', sel) /\ EndsIn(eol', post)
    <3>1. 0 \in Positions(e.doc) /\ Len(e.doc) \in Positions(e.doc)
      BY <2>4 DEF Positions
    <3>2. 0 <= e.start /\ e.start <= e.end /\ e.end <= Len(e.doc) /\ 0 + 1 = 1
      BY <2>4
    <3>3. EndsIn(eol', SubSeq(e.doc, 0 + 1, e.start))
      BY <2>1, <2>4, <3>1, <3>2, EndsInPart, Zenon
    <3>4. EndsIn(eol', sel)
      BY <2>1, <2>4, <3>2, EndsInPart, Zenon
    <3>5. EndsIn(eol', post)
      BY <2>1, <2>4, <3>1, <3>2, EndsInPart, Zenon
    <3>6. QED
      BY <3>2, <3>3, <3>4, <3>5, Zenon
  <2>6. EndsIn(eol', mid)
    <3>1. EndsIn(eol', <<>>)
      BY <2>1, EndsInBasics
    <3>2. QED
      BY <2>5, <3>1, Zenon
  <2> HIDE DEF pre, mid, post
  <2>7. /\ pre \in Seq(Chars) /\ b \in Seq(Chars) /\ mid \in Seq(Chars) /\ a \in Seq(Chars)
        /\ post \in Seq(Chars) /\ doc' = (((pre \o b) \o mid) \o a) \o post
    BY <2>2 DEF Parts
  <2>8. pre \o b \in Seq(Chars) /\ EndsIn(eol', pre \o b)
    BY <2>1, <2>3, <2>5, <2>7, JoinedLength, EndsInConcat, Zenon
  <2>9. (pre \o b) \o mid \in Seq(Chars) /\ EndsIn(eol', (pre \o b) \o mid)
    BY <2>1, <2>6, <2>7, <2>8, JoinedLength, EndsInConcat, Zenon
  <2>10. /\ ((pre \o b) \o mid) \o a \in Seq(Chars)
         /\ EndsIn(eol', ((pre \o b) \o mid) \o a)
    BY <2>1, <2>3, <2>7, <2>9, JoinedLength, EndsInConcat, Zenon
  <2>11. EndsIn(eol', (((pre \o b) \o mid) \o a) \o post)
    BY <2>1, <2>5, <2>7, <2>10, EndsInConcat, Zenon
  <2>12. QED
    BY <2>7, <2>11, Zenon
<1>2. QED
  BY <1>1, InvariantHolds, PTL DEF DocumentKeepsEnds
=============================================================================
