--------------------------- MODULE Upgrade_proofs ---------------------------
(***************************************************************************)
(* The conversion of a database loses nothing, at no statement and across  *)
(* any number of crashes, and its version never runs ahead of its schema,  *)
(* for any files: IInv is inductive.                                       *)
(***************************************************************************)
EXTENDS Upgrade, FunctionTheorems, FiniteSetTheorems, TLAPS

-----------------------------------------------------------------------------
(* Numbering the snippets. *)

(* The rank of a row counts the rows up to it.                              *)
LEMMA RankTyped ==
  ASSUME NEW S \in SUBSET SnippetRow, IsFiniteSet(S), NEW s \in S
  PROVE  Rank(S, s) \in 1..Cardinality(S)
<1> DEFINE A == {t \in S : t.row <= s.row}
<1>1. s \in A /\ A \in SUBSET S
  BY DEF SnippetRow
<1>2. IsFiniteSet(A) /\ Cardinality(A) <= Cardinality(S)
  BY <1>1, FS_Subset
<1>3. Cardinality(A) \in Nat /\ Cardinality(S) \in Nat
  BY <1>2, FS_CardinalityType
<1>4. Cardinality(A) # 0
  BY <1>1, <1>2, FS_EmptySet
<1> HIDE DEF A
<1>5. Cardinality(A) \in 1..Cardinality(S)
  BY <1>2, <1>3, <1>4
<1>6. QED
  BY <1>5 DEF A, Rank

(* It orders the rows as their rowids do.                                   *)
LEMMA RankOrders ==
  ASSUME NEW S \in SUBSET SnippetRow, IsFiniteSet(S), RowsUnique(S),
         NEW s \in S, NEW t \in S
  PROVE  /\ s.row <= t.row <=> Rank(S, s) <= Rank(S, t)
         /\ Rank(S, s) = Rank(S, t) => s = t
<1>1. ASSUME NEW a \in S, NEW b \in S, a.row < b.row
      PROVE  Rank(S, a) < Rank(S, b)
  <2> DEFINE A == {u \in S : u.row <= a.row}
  <2> DEFINE B == {u \in S : u.row <= b.row}
  <2>1. a.row \in Nat /\ b.row \in Nat /\ \A u \in S : u.row \in Nat
    BY DEF SnippetRow
  <2>2. A \in SUBSET B /\ b \in B /\ b \notin A /\ B \in SUBSET S /\ A # B
    BY <1>1, <2>1
  <2>3. IsFiniteSet(B)
    BY <2>2, FS_Subset
  <2>4. Cardinality(A) <= Cardinality(B) /\ Cardinality(A) # Cardinality(B)
        /\ IsFiniteSet(A)
    BY <2>2, <2>3, FS_Subset
  <2>5. Cardinality(A) \in Nat /\ Cardinality(B) \in Nat
    BY <2>3, <2>4, FS_CardinalityType
  <2> HIDE DEF A, B
  <2>6. Cardinality(A) < Cardinality(B)
    BY <2>4, <2>5
  <2>7. QED
    BY <2>6 DEF A, B, Rank
<1>2. s.row \in Nat /\ t.row \in Nat
  BY DEF SnippetRow
<1>3. Rank(S, s) \in Nat /\ Rank(S, t) \in Nat
  <2>1. Cardinality(S) \in Nat
    BY FS_CardinalityType
  <2>2. QED
    BY <2>1, RankTyped
<1>4. s.row = t.row => s = t
  BY DEF RowsUnique
<1>5. /\ s.row < t.row => Rank(S, s) < Rank(S, t)
      /\ t.row < s.row => Rank(S, t) < Rank(S, s)
  BY <1>1
<1>6. QED
  BY <1>2, <1>3, <1>4, <1>5

(* The row a row becomes. *)
NumberedRow(S) ==
  [s \in S |-> [row |-> Rank(S, s), LibraryID |-> s.LibraryID, Name |-> s.Name]]

(* Numbering gives every row one of its own.                                *)
LEMMA NumberedRows ==
  ASSUME NEW S \in SUBSET SnippetRow, IsFiniteSet(S), RowsUnique(S)
  PROVE  /\ NumberedRow(S) \in Bijection(S, Numbered(S))
         /\ \A s \in S : /\ NumberedRow(S)[s].row = Rank(S, s)
                         /\ NumberedRow(S)[s].LibraryID = s.LibraryID
                         /\ NumberedRow(S)[s].Name = s.Name
         /\ Numbered(S) \in SUBSET SnippetRow
         /\ IsFiniteSet(Numbered(S)) /\ Cardinality(Numbered(S)) = Cardinality(S)
         /\ RowsUnique(Numbered(S))
<1> DEFINE g == NumberedRow(S)
<1>1. Cardinality(S) \in Nat
  BY FS_CardinalityType
<1>2. \A s \in S : Rank(S, s) \in Nat
  BY <1>1, RankTyped
<1>3. \A s \in S : g[s] \in SnippetRow
  BY <1>2 DEF SnippetRow, NumberedRow
<1>4. \A s \in S : g[s].row = Rank(S, s) /\ g[s].LibraryID = s.LibraryID /\ g[s].Name = s.Name
  BY DEF NumberedRow
<1>5. g \in [S -> Numbered(S)] /\ \A u \in Numbered(S) : \E s \in S : g[s] = u
  BY DEF Numbered, NumberedRow
<1> HIDE DEF g
<1>6. \A s, t \in S : g[s] = g[t] => s = t
  BY <1>4, RankOrders
<1>7. g \in Bijection(S, Numbered(S))
  <2>1. g \in Injection(S, Numbered(S))
    BY <1>5, <1>6, Zenon DEF Injection, IsInjective
  <2>2. g \in Surjection(S, Numbered(S))
    BY <1>5, Zenon DEF Surjection
  <2>3. QED
    BY <2>1, <2>2, Zenon DEF Bijection
<1>8. IsFiniteSet(Numbered(S)) /\ Cardinality(Numbered(S)) = Cardinality(S)
  BY <1>7, FS_Bijection, Zenon DEF ExistsBijection
<1>9. Numbered(S) \in SUBSET SnippetRow
  BY <1>3, <1>5
<1>10. RowsUnique(Numbered(S))
  <2> SUFFICES ASSUME NEW u \in Numbered(S), NEW v \in Numbered(S), u.row = v.row
               PROVE  u = v
    BY DEF RowsUnique
  <2>1. PICK s \in S : g[s] = u
    BY <1>5
  <2>2. PICK t \in S : g[t] = v
    BY <1>5
  <2>3. QED
    BY <1>4, <2>1, <2>2, RankOrders
<1>11. QED
  BY <1>4, <1>7, <1>8, <1>9, <1>10 DEF g

(* A row keeps its rank when the rows are numbered.                         *)
LEMMA RankKept ==
  ASSUME NEW S \in SUBSET SnippetRow, IsFiniteSet(S), RowsUnique(S), NEW s \in S
  PROVE  Rank(Numbered(S), NumberedRow(S)[s]) = Rank(S, s)
<1> DEFINE g == NumberedRow(S)
<1> DEFINE A == {t \in S : t.row <= s.row}
<1> DEFINE B == {u \in Numbered(S) : u.row <= g[s].row}
<1> DEFINE h == [t \in A |-> g[t]]
<1>1. g \in [S -> Numbered(S)] /\ (\A u \in Numbered(S) : \E t \in S : g[t] = u)
      /\ \A t, u \in S : g[t] = g[u] => t = u
  BY NumberedRows, Fun_BijectionProperties
<1>2. \A t \in S : g[t].row = Rank(S, t)
  BY NumberedRows
<1> HIDE DEF g
<1>3. \A t \in S : t \in A <=> g[t] \in B
  BY <1>1, <1>2, RankOrders
<1>4. A \in SUBSET S /\ IsFiniteSet(A) /\ B \in SUBSET Numbered(S)
  BY FS_Subset
<1> HIDE DEF A, B
<1>5. h \in [A -> B] /\ (\A u \in B : \E t \in A : h[t] = u)
      /\ \A t, u \in A : h[t] = h[u] => t = u
  BY <1>1, <1>3, <1>4
<1> HIDE DEF h
<1>6. h \in Bijection(A, B)
  <2>1. h \in Injection(A, B)
    BY <1>5, Zenon DEF Injection, IsInjective
  <2>2. h \in Surjection(A, B)
    BY <1>5, Zenon DEF Surjection
  <2>3. QED
    BY <2>1, <2>2, Zenon DEF Bijection
<1>7. Cardinality(B) = Cardinality(A)
  BY <1>4, <1>6, FS_Bijection, Zenon DEF ExistsBijection
<1>8. QED
  BY <1>7, Zenon DEF A, B, g, Rank

(* Every rank is that of one row.                                           *)
LEMMA RowOfRank ==
  ASSUME NEW S \in SUBSET SnippetRow, IsFiniteSet(S), RowsUnique(S),
         NEW i \in 1..Cardinality(S)
  PROVE  \E s \in S : Rank(S, s) = i
<1> DEFINE r == [s \in S |-> Rank(S, s)]
<1>1. Cardinality(S) \in Nat
  BY FS_CardinalityType
<1>2. IsFiniteSet(1..Cardinality(S)) /\ Cardinality(1..Cardinality(S)) = Cardinality(S)
  BY <1>1, FS_Interval
<1>3. r \in [S -> 1..Cardinality(S)] /\ \A s, t \in S : r[s] = r[t] => s = t
  BY RankTyped, RankOrders
<1>4. \A s \in S : r[s] = Rank(S, s)
  OBVIOUS
<1> HIDE DEF r
<1>5. r \in Injection(S, 1..Cardinality(S))
  BY <1>3, Zenon DEF Injection, IsInjective
<1>6. r \in Surjection(S, 1..Cardinality(S))
  BY <1>2, <1>5, FS_Injection
<1>7. \E s \in S : r[s] = i
  BY <1>6, Zenon DEF Surjection
<1>8. QED
  BY <1>4, <1>7

(* Numbering the rows keeps the snippets in their order.                    *)
LEMMA OrderKept ==
  ASSUME NEW S \in SUBSET SnippetRow, IsFiniteSet(S), RowsUnique(S)
  PROVE  InOrder(Numbered(S)) = InOrder(S)
<1> DEFINE T == Numbered(S)
<1> DEFINE g == NumberedRow(S)
<1> DEFINE At(R, i) == CHOOSE s \in R : Rank(R, s) = i
<1>1. T \in SUBSET SnippetRow /\ IsFiniteSet(T) /\ RowsUnique(T)
      /\ Cardinality(T) = Cardinality(S)
  BY NumberedRows
<1>2. \A s \in S : g[s] \in T /\ g[s].LibraryID = s.LibraryID /\ g[s].Name = s.Name
  BY NumberedRows, Fun_BijectionProperties
<1>3. ASSUME NEW i \in 1..Cardinality(S)
      PROVE  At(T, i).LibraryID = At(S, i).LibraryID /\ At(T, i).Name = At(S, i).Name
  <2>1. PICK s \in S : Rank(S, s) = i
    BY RowOfRank
  <2>2. At(S, i) \in S /\ Rank(S, At(S, i)) = i
    BY <2>1, Zenon
  <2>3. Rank(T, g[s]) = i
    BY <2>1, RankKept
  <2>4. At(T, i) \in T /\ Rank(T, At(T, i)) = i
    BY <1>2, <2>3, Zenon
  <2> HIDE DEF At, T, g
  <2>5. At(S, i) = s
    BY <2>1, <2>2, RankOrders
  <2>6. At(T, i) = g[s]
    BY <1>1, <1>2, <2>3, <2>4, RankOrders
  <2>7. QED
    BY <1>2, <2>5, <2>6
<1>4. \A i \in 1..Cardinality(S) : <<At(T, i).LibraryID, At(T, i).Name>> =
                                    <<At(S, i).LibraryID, At(S, i).Name>>
  BY <1>3
<1>5. InOrder(T) = [i \in 1..Cardinality(T) |-> <<At(T, i).LibraryID, At(T, i).Name>>]
  BY DEF InOrder
<1>6. InOrder(S) = [i \in 1..Cardinality(S) |-> <<At(S, i).LibraryID, At(S, i).Name>>]
  BY DEF InOrder
<1> HIDE DEF At, T
<1>7. InOrder(T) = InOrder(S)
  BY <1>1, <1>4, <1>5, <1>6
<1>8. QED
  BY <1>7 DEF T

-----------------------------------------------------------------------------
(* The statements. *)

(* What is lost is seen in the tables and in which tables there are.        *)
LEMMA NothingLostIf ==
  ASSUME NothingLost, old' = old,
         {l.LibraryID : l \in file'.Library} = {l.LibraryID : l \in file.Library},
         Languages(file') = Languages(file), LastUsed(file') = LastUsed(file),
         InOrder(file'.Snippets) = InOrder(file.Snippets)
  PROVE  NothingLost'
  BY DEF NothingLost

(* A statement that is refused leaves everything as it is.                  *)
LEMMA FailedKeeps ==
  ASSUME IInv, pc' \in {"failed", "refused"}, pc' = "refused" => ~foreignKeys,
         UNCHANGED <<file, foreignKeys, crashes, old>>
  PROVE  IInv'
<1>1. TypeOK'
  BY DEF IInv, TypeOK
<1>2. ConversionHolds'
  BY DEF IInv, ConversionHolds
<1>3. VersionTellsSchema' /\ NothingLost'
  BY DEF IInv, VersionTellsSchema, NothingLost
<1>4. QED
  BY <1>1, <1>2, <1>3 DEF IInv

(* Schemas of the conversion, and what they have.                           *)
LEMMA Schemas ==
  /\ "LibraryLang" \notin Schema1 /\ "LangLastUsed" \notin Schema1
  /\ "LibraryLang" \in Schema2 /\ "LangLastUsed" \notin Schema2
  /\ "LibraryLang" \in Schema3 /\ "LangLastUsed" \in Schema3
  /\ (Schema1 \cup {"LibraryLang"}) \ {"LibLang"} = Schema2
  /\ Schema2 \ {"SnipName", "SnipSort"} = (Schema2 \ {"SnipName"}) \ {"SnipSort"}
  /\ (Schema2 \ {"SnipName", "SnipSort"}) \ {"SnipName", "SnipSort"} =
       Schema2 \ {"SnipName", "SnipSort"}
  /\ (Schema2 \ {"SnipName", "SnipSort"}) \cup {"SnipName"} = Schema2 \ {"SnipSort"}
  /\ (Schema2 \ {"SnipSort"}) \cup {"SnipSort"} = Schema2
  /\ Schema2 \cup {"LangLastUsed"} = Schema3
  /\ Schema1 \cup {"LibraryLang"} \in SUBSET (Schema1 \cup Schema3)
  /\ Schema1 \in SUBSET (Schema1 \cup Schema3)
  /\ Schema2 \in SUBSET (Schema1 \cup Schema3)
  /\ Schema3 \in SUBSET (Schema1 \cup Schema3)
  BY DEF Schema1, Schema2, Schema3

(* The languages get a table of their own.                                  *)
LEMMA CreateLibraryLangKeeps ==
  ASSUME IInv, CreateLibraryLang
  PROVE  IInv'
<1>1. pc = "CreateLibraryLang" /\ UNCHANGED <<foreignKeys, crashes, old>>
  BY DEF CreateLibraryLang, Execute
<1>2. CASE file' = file /\ pc' = "failed"
  BY <1>1, <1>2, FailedKeeps
<1>3. CASE /\ "LibraryLang" \notin file.schema /\ pc' = "RebuildLibrary"
           /\ file' = [file EXCEPT !.schema = @ \cup {"LibraryLang"}, !.LibraryLang = file.Library]
  <2>1. file \in File /\ file.version = 1 /\ file.schema = Schema1 /\ ~foreignKeys
        /\ file.Library \subseteq OldRow
    BY <1>1, <1>3 DEF IInv, TypeOK, ConversionHolds
  <2>2. /\ file'.version = 1 /\ file'.schema = Schema1 \cup {"LibraryLang"}
        /\ file'.Library = file.Library /\ file'.LibraryLang = file.Library
        /\ file'.Snippets = file.Snippets /\ file'.LangLastUsed = file.LangLastUsed
    BY <1>3, <2>1 DEF File
  <2>3. file' \in File
    BY <1>3, <2>1, Schemas DEF File
  <2>4. TypeOK'
    BY <1>1, <1>3, <2>3 DEF IInv, TypeOK
  <2>5. ConversionHolds'
    BY <1>1, <1>3, <2>1, <2>2 DEF IInv, ConversionHolds
  <2>6. VersionTellsSchema'
    BY <2>2 DEF VersionTellsSchema
  <2>7. Languages(file') = Languages(file) /\ LastUsed(file') = LastUsed(file)
    BY <2>1, <2>2, Schemas DEF Languages, LastUsed
  <2>8. NothingLost'
    BY <1>1, <2>2, <2>7, NothingLostIf DEF IInv
  <2>9. QED
    BY <2>4, <2>5, <2>6, <2>8 DEF IInv
<1>4. QED
  BY <1>2, <1>3 DEF CreateLibraryLang, Execute, Exists

(* The Library table loses the language, with foreign keys off.             *)
LEMMA RebuildLibraryKeeps ==
  ASSUME IInv, RebuildLibrary
  PROVE  IInv'
<1>1. pc = "RebuildLibrary" /\ UNCHANGED <<foreignKeys, crashes, old>>
  BY DEF RebuildLibrary, Execute
<1>2. CASE file' = file /\ pc' = "failed"
  BY <1>1, <1>2, FailedKeeps
<1>3. CASE /\ pc' = "DropSnipName"
           /\ file' = [file EXCEPT !.schema = @ \ {"LibLang"},
                         !.Library = {[LibraryID |-> l.LibraryID] : l \in @},
                         !.LibraryLang = IF foreignKeys THEN {} ELSE @]
  <2>1. file \in File /\ file.version = 1 /\ file.schema = Schema1 \cup {"LibraryLang"}
        /\ ~foreignKeys
    BY <1>1, <1>3 DEF IInv, TypeOK, ConversionHolds
  <2>2. /\ file'.version = 1 /\ file'.schema = Schema2
        /\ file'.Library = {[LibraryID |-> l.LibraryID] : l \in file.Library}
        /\ file'.LibraryLang = file.LibraryLang
        /\ file'.Snippets = file.Snippets /\ file'.LangLastUsed = file.LangLastUsed
    BY <1>3, <2>1, Schemas DEF File
  <2>3. file'.Library \subseteq LibraryRow
    BY <2>1, <2>2 DEF File, OldRow, LibraryRow
  <2>4. file' \in File
    BY <1>3, <2>1, <2>2, <2>3, Schemas DEF File
  <2>5. TypeOK'
    BY <1>1, <1>3, <2>4 DEF IInv, TypeOK
  <2>6. ConversionHolds'
    BY <1>1, <1>3, <2>1, <2>2, <2>3, Schemas DEF IInv, ConversionHolds
  <2>7. VersionTellsSchema'
    BY <2>2 DEF VersionTellsSchema
  <2>8. Languages(file') = Languages(file) /\ LastUsed(file') = LastUsed(file)
    BY <2>1, <2>2, Schemas DEF Languages, LastUsed
  <2>9. {l.LibraryID : l \in file'.Library} = {l.LibraryID : l \in file.Library}
    <3>1. ASSUME NEW l \in file.Library
          PROVE  \E k \in file'.Library : k.LibraryID = l.LibraryID
      <4>1. [LibraryID |-> l.LibraryID] \in file'.Library
        BY <2>2
      <4>2. QED
        BY <4>1
    <3>2. \A k \in file'.Library : \E l \in file.Library : k.LibraryID = l.LibraryID
      BY <2>2
    <3>3. QED
      BY <3>1, <3>2
  <2>10. NothingLost'
    BY <1>1, <2>2, <2>8, <2>9, NothingLostIf DEF IInv
  <2>11. QED
    BY <2>5, <2>6, <2>7, <2>10 DEF IInv
<1>4. QED
  BY <1>2, <1>3 DEF RebuildLibrary, Execute, Exists

(* The indices of the snippets are dropped and made again.                  *)
LEMMA IndexKeeps ==
  ASSUME IInv, DropSnipName \/ DropSnipSort \/ CreateSnipName \/ CreateSnipSort
  PROVE  IInv'
<1>1. UNCHANGED <<foreignKeys, crashes, old>>
  BY DEF DropSnipName, DropSnipSort, CreateSnipName, CreateSnipSort, DropIndex, CreateIndex, Execute
<1>2. CASE file' = file /\ pc' = "failed"
  BY <1>1, <1>2, FailedKeeps
<1>3. ASSUME NEW schema,
             \/ pc = "DropSnipName" /\ pc' = "DropSnipSort" /\ schema = file.schema \ {"SnipName"}
             \/ pc = "DropSnipSort" /\ pc' = "RebuildSnippets" /\ schema = file.schema \ {"SnipSort"}
             \/ pc = "CreateSnipName" /\ pc' = "CreateSnipSort" /\ schema = file.schema \cup {"SnipName"}
             \/ pc = "CreateSnipSort" /\ pc' = "SetUserVersion2" /\ schema = file.schema \cup {"SnipSort"},
             file' = [file EXCEPT !.schema = schema]
      PROVE  IInv'
  <2>1. file \in File /\ file.version = 1 /\ ~foreignKeys /\ file.Library \subseteq LibraryRow
    BY <1>3 DEF IInv, TypeOK, ConversionHolds
  <2>2. /\ pc' = "DropSnipSort" => schema = Schema2 \ {"SnipName"}
        /\ pc' = "RebuildSnippets" => schema = Schema2 \ {"SnipName", "SnipSort"}
        /\ pc' = "CreateSnipSort" => schema = Schema2 \ {"SnipSort"}
        /\ pc' = "SetUserVersion2" => schema = Schema2
    BY <1>3, Schemas DEF IInv, ConversionHolds
  <2>3. schema \in SUBSET Schema2 /\ "LibraryLang" \in schema /\ "LangLastUsed" \notin schema
        /\ "LibraryLang" \in file.schema /\ "LangLastUsed" \notin file.schema
    BY <1>3, <2>2 DEF IInv, ConversionHolds, Schema2, Schema3
  <2>4. /\ file'.version = 1 /\ file'.schema = schema
        /\ file'.Library = file.Library /\ file'.LibraryLang = file.LibraryLang
        /\ file'.Snippets = file.Snippets /\ file'.LangLastUsed = file.LangLastUsed
    BY <1>3, <2>1 DEF File
  <2>5. file' \in File
    BY <1>3, <2>1, <2>3, Schemas DEF File
  <2>6. TypeOK'
    BY <1>1, <1>3, <2>5 DEF IInv, TypeOK
  <2>7. ConversionHolds'
    BY <1>1, <1>3, <2>1, <2>2, <2>3, <2>4 DEF IInv, ConversionHolds
  <2>8. VersionTellsSchema'
    BY <2>4 DEF VersionTellsSchema
  <2>9. Languages(file') = Languages(file) /\ LastUsed(file') = LastUsed(file)
    BY <2>3, <2>4 DEF Languages, LastUsed
  <2>10. NothingLost'
    BY <1>1, <2>4, <2>9, NothingLostIf DEF IInv
  <2>11. QED
    BY <2>6, <2>7, <2>8, <2>10 DEF IInv
<1>4. QED
  BY <1>2, <1>3
  DEF DropSnipName, DropSnipSort, CreateSnipName, CreateSnipSort, DropIndex, CreateIndex, Execute

(* The snippets get keys, in the order they had.                            *)
LEMMA RebuildSnippetsKeeps ==
  ASSUME IInv, RebuildSnippets
  PROVE  IInv'
<1>1. /\ pc = "RebuildSnippets" /\ pc' = "CreateSnipName"
      /\ file' = [file EXCEPT !.schema = @ \ {"SnipName", "SnipSort"}, !.Snippets = Numbered(@)]
      /\ UNCHANGED <<foreignKeys, crashes, old>>
  BY DEF RebuildSnippets, Execute
<1>2. /\ file \in File /\ file.version = 1 /\ ~foreignKeys /\ file.Library \subseteq LibraryRow
      /\ file.schema = Schema2 \ {"SnipName", "SnipSort"}
      /\ IsFiniteSet(file.Snippets) /\ RowsUnique(file.Snippets)
  BY <1>1 DEF IInv, TypeOK, ConversionHolds
<1>3. file.Snippets \in SUBSET SnippetRow
  BY <1>2 DEF File
<1>4. /\ Numbered(file.Snippets) \in SUBSET SnippetRow
      /\ IsFiniteSet(Numbered(file.Snippets)) /\ RowsUnique(Numbered(file.Snippets))
      /\ InOrder(Numbered(file.Snippets)) = InOrder(file.Snippets)
  BY <1>2, <1>3, NumberedRows, OrderKept
<1>5. /\ file'.version = 1 /\ file'.schema = Schema2 \ {"SnipName", "SnipSort"}
      /\ file'.Library = file.Library /\ file'.LibraryLang = file.LibraryLang
      /\ file'.Snippets = Numbered(file.Snippets) /\ file'.LangLastUsed = file.LangLastUsed
  BY <1>1, <1>2, Schemas DEF File
<1>6. file' \in File
  BY <1>1, <1>2, <1>4 DEF File
<1>7. TypeOK'
  BY <1>1, <1>6 DEF IInv, TypeOK
<1>8. "LibraryLang" \in file.schema /\ "LangLastUsed" \notin file.schema
  BY <1>2 DEF Schema2, Schema3
<1>9. ConversionHolds'
  BY <1>1, <1>2, <1>4, <1>5, <1>8 DEF ConversionHolds
<1>10. VersionTellsSchema'
  BY <1>5 DEF VersionTellsSchema
<1>11. Languages(file') = Languages(file) /\ LastUsed(file') = LastUsed(file)
  BY <1>2, <1>5 DEF Languages, LastUsed
<1>12. NothingLost'
  BY <1>1, <1>4, <1>5, <1>11, NothingLostIf DEF IInv
<1>13. QED
  BY <1>7, <1>9, <1>10, <1>12 DEF IInv

(* The last used libraries get a table of their own.                        *)
LEMMA CreateLangLastUsedKeeps ==
  ASSUME IInv, CreateLangLastUsed
  PROVE  IInv'
<1>1. pc = "CreateLangLastUsed" /\ UNCHANGED <<foreignKeys, crashes, old>>
  BY DEF CreateLangLastUsed, Execute
<1>2. CASE file' = file /\ pc' = "failed"
  BY <1>1, <1>2, FailedKeeps
<1>3. CASE /\ "LangLastUsed" \notin file.schema /\ pc' = "RebuildLibraryLang"
           /\ file' = [file EXCEPT !.schema = @ \cup {"LangLastUsed"}, !.LangLastUsed = UsedLast]
  <2>1. file \in File /\ file.version = 2 /\ file.schema = Schema2 /\ ~foreignKeys
        /\ file.Library \subseteq LibraryRow
    BY <1>1, <1>3, Schemas DEF IInv, TypeOK, ConversionHolds, VersionTellsSchema
  <2>2. UsedLast \in SUBSET LangLastUsedRow
    <3>1. \A x \in file.LibraryLang : x.Lang \in Int /\ x.LibraryID \in Nat
      BY <2>1 DEF File, OldRow, LibraryLangRow
    <3>2. QED
      BY <3>1 DEF UsedLast, LangLastUsedRow
  <2>3. /\ file'.version = 2 /\ file'.schema = Schema3
        /\ file'.Library = file.Library /\ file'.LibraryLang = file.LibraryLang
        /\ file'.Snippets = file.Snippets /\ file'.LangLastUsed = UsedLast
    BY <1>3, <2>1, Schemas DEF File
  <2>4. file' \in File
    BY <1>3, <2>1, <2>2, Schemas DEF File
  <2>5. TypeOK'
    BY <1>1, <1>3, <2>4 DEF IInv, TypeOK
  <2>6. ConversionHolds'
    BY <1>1, <1>3, <2>1, <2>3 DEF IInv, ConversionHolds
  <2>7. VersionTellsSchema'
    BY <2>1, <2>3 DEF VersionTellsSchema, Schema2, Schema3
  <2>8. Languages(file') = Languages(file) /\ LastUsed(file') = LastUsed(file)
    BY <2>1, <2>3, Schemas DEF Languages, LastUsed, UsedLast
  <2>9. NothingLost'
    BY <1>1, <2>3, <2>8, NothingLostIf DEF IInv
  <2>10. QED
    BY <2>5, <2>6, <2>7, <2>9 DEF IInv
<1>4. QED
  BY <1>2, <1>3 DEF CreateLangLastUsed, Execute, Exists

(* LibraryLang loses the column that says so.                               *)
LEMMA RebuildLibraryLangKeeps ==
  ASSUME IInv, RebuildLibraryLang
  PROVE  IInv'
<1>1. /\ pc = "RebuildLibraryLang" /\ pc' = "SetUserVersion3"
      /\ file' = [file EXCEPT !.LibraryLang =
                    {[LibraryID |-> x.LibraryID, Lang |-> x.Lang] : x \in @}]
      /\ UNCHANGED <<foreignKeys, crashes, old>>
  BY DEF RebuildLibraryLang, Execute
<1>2. file \in File /\ file.version = 2 /\ file.schema = Schema3 /\ ~foreignKeys
      /\ file.Library \subseteq LibraryRow
  BY <1>1 DEF IInv, TypeOK, ConversionHolds, VersionTellsSchema
<1> DEFINE rows == {[LibraryID |-> x.LibraryID, Lang |-> x.Lang] : x \in file.LibraryLang}
<1>3. rows \in SUBSET LibraryLangRow
  <2>1. \A x \in file.LibraryLang : x.Lang \in Int /\ x.LibraryID \in Nat
    BY <1>2 DEF File, OldRow, LibraryLangRow
  <2>2. QED
    BY <2>1 DEF LibraryLangRow
<1>4. {[LibraryID |-> x.LibraryID, Lang |-> x.Lang] : x \in rows} = rows
  <2>1. \A x \in rows : [LibraryID |-> x.LibraryID, Lang |-> x.Lang] = x
    BY <1>3 DEF LibraryLangRow
  <2> HIDE DEF rows
  <2>2. QED
    BY <2>1
<1>5. file' = [file EXCEPT !.LibraryLang = rows]
  BY <1>1
<1>6. Languages(file) = rows
  BY <1>2, Schemas DEF Languages
<1> HIDE DEF rows
<1>7. /\ file'.version = 2 /\ file'.schema = Schema3
      /\ file'.Library = file.Library /\ file'.LibraryLang = rows
      /\ file'.Snippets = file.Snippets /\ file'.LangLastUsed = file.LangLastUsed
  BY <1>2, <1>5 DEF File
<1>8. file' \in File
  BY <1>2, <1>3, <1>5 DEF File
<1>9. TypeOK'
  BY <1>1, <1>8 DEF IInv, TypeOK
<1>10. ConversionHolds'
  BY <1>1, <1>2, <1>3, <1>7 DEF IInv, ConversionHolds
<1>11. VersionTellsSchema'
  BY <1>2, <1>7 DEF VersionTellsSchema, Schema2
<1>12. Languages(file') = Languages(file) /\ LastUsed(file') = LastUsed(file)
  BY <1>2, <1>4, <1>6, <1>7, Schemas DEF Languages, LastUsed
<1>13. NothingLost'
  BY <1>1, <1>7, <1>12, NothingLostIf DEF IInv
<1>14. QED
  BY <1>9, <1>10, <1>11, <1>13 DEF IInv

(* The version comes last, of both conversions.                             *)
LEMMA SetUserVersionKeeps ==
  ASSUME IInv, SetUserVersion2 \/ SetUserVersion3
  PROVE  IInv'
<1>1. PICK v \in {2, 3} :
        /\ \/ v = 2 /\ pc = "SetUserVersion2" /\ pc' = "CreateLangLastUsed"
           \/ v = 3 /\ pc = "SetUserVersion3" /\ pc' = "EnableForeignKeys"
        /\ file' = [file EXCEPT !.version = v]
        /\ UNCHANGED <<foreignKeys, crashes, old>>
  BY DEF SetUserVersion2, SetUserVersion3, Execute
<1>2. /\ file \in File /\ ~foreignKeys
      /\ v = 2 => file.schema = Schema2 /\ file.Library \subseteq LibraryRow
      /\ v = 3 => file.schema = Schema3 /\ file.LibraryLang \subseteq LibraryLangRow
  BY <1>1 DEF IInv, TypeOK, ConversionHolds
<1>3. /\ file'.version = v /\ file'.schema = file.schema
      /\ file'.Library = file.Library /\ file'.LibraryLang = file.LibraryLang
      /\ file'.Snippets = file.Snippets /\ file'.LangLastUsed = file.LangLastUsed
  BY <1>1, <1>2 DEF File
<1>4. file' \in File
  BY <1>1, <1>2 DEF File
<1>5. TypeOK'
  BY <1>1, <1>4 DEF IInv, TypeOK
<1>6. ConversionHolds'
  BY <1>1, <1>2, <1>3 DEF IInv, ConversionHolds
<1>7. VersionTellsSchema'
  BY <1>1, <1>2, <1>3 DEF VersionTellsSchema
<1>8. Languages(file') = Languages(file) /\ LastUsed(file') = LastUsed(file)
  BY <1>3 DEF Languages, LastUsed
<1>9. NothingLost'
  BY <1>1, <1>3, <1>8, NothingLostIf DEF IInv
<1>10. QED
  BY <1>5, <1>6, <1>7, <1>9 DEF IInv

(* Opening, closing and the end of the process leave the file alone.        *)
LEMMA SameFileKeeps ==
  ASSUME IInv, Open \/ EnableForeignKeys \/ Close \/ Crash
  PROVE  IInv'
<1>1. UNCHANGED <<file, old>> /\ foreignKeys' \in BOOLEAN /\ crashes' \in 0..MaxCrashes
  <2>1. UNCHANGED <<file, old>> /\ foreignKeys' \in {TRUE, FALSE, foreignKeys}
        /\ (crashes' = crashes \/ (crashes < MaxCrashes /\ crashes' = crashes + 1))
    BY DEF Open, EnableForeignKeys, Close, Crash
  <2>2. foreignKeys \in BOOLEAN /\ crashes \in 0..MaxCrashes
    BY DEF IInv, TypeOK
  <2>3. foreignKeys' \in BOOLEAN
    BY <2>1, <2>2, Zenon
  <2>4. crashes' \in 0..MaxCrashes
    BY <2>1, <2>2, UpgradeAssumption
  <2>5. QED
    BY <2>1, <2>3, <2>4
<1>2. CASE Open
  <2>1. /\ pc' \in {"CreateLibraryLang", "CreateLangLastUsed", "EnableForeignKeys", "refused"}
        /\ pc' = "CreateLibraryLang" => file.version = 1
        /\ pc' = "CreateLangLastUsed" => file.version = 2
        /\ pc' = "EnableForeignKeys" => file.version = 3
        /\ ~foreignKeys'
    BY <1>2 DEF Open, FirstStep
  <2>2. TypeOK'
    BY <1>1, <2>1 DEF IInv, TypeOK
  <2>3. ConversionHolds'
    BY <1>1, <2>1 DEF IInv, ConversionHolds
  <2>4. QED
    BY <1>1, <2>2, <2>3 DEF IInv, VersionTellsSchema, NothingLost
<1>3. CASE EnableForeignKeys \/ Close \/ Crash
  <2>1. pc' \in {"open", "closed"}
    BY <1>3 DEF EnableForeignKeys, Close, Crash
  <2>2. TypeOK'
    BY <1>1, <2>1 DEF IInv, TypeOK
  <2>3. ConversionHolds'
    BY <1>1, <2>1 DEF IInv, ConversionHolds
  <2>4. QED
    BY <1>1, <2>2, <2>3 DEF IInv, VersionTellsSchema, NothingLost
<1>4. QED
  BY <1>2, <1>3

-----------------------------------------------------------------------------
(* What holds at every statement of every conversion, after any number of   *)
(* crashes.                                                                 *)
THEOREM InvariantHolds == Spec => []IInv
<1>1. Init => IInv
  <2> SUFFICES ASSUME Init PROVE IInv
    OBVIOUS
  <2>1. file \in Files /\ old = file /\ pc = "closed" /\ foreignKeys = FALSE /\ crashes = 0
    BY DEF Init
  <2>2. TypeOK
    <3>1. foreignKeys \in BOOLEAN
      BY <2>1, Zenon
    <3>2. file \in File /\ old \in Files /\ crashes \in 0..MaxCrashes
      BY <2>1, UpgradeAssumption
    <3>3. QED
      BY <2>1, <3>1, <3>2 DEF TypeOK
  <2>3. ConversionHolds
    BY <2>1, UpgradeAssumption DEF ConversionHolds
  <2>4. VersionTellsSchema
    BY <2>1, UpgradeAssumption DEF VersionTellsSchema
  <2>5. NothingLost
    BY <2>1 DEF NothingLost
  <2>6. QED
    BY <2>2, <2>3, <2>4, <2>5 DEF IInv
<1>2. IInv /\ [Next]_vars => IInv'
  <2> SUFFICES ASSUME IInv, [Next]_vars PROVE IInv'
    OBVIOUS
  <2>1. CASE UpgradeDatabase_1_2
    BY <2>1, CreateLibraryLangKeeps, RebuildLibraryKeeps, IndexKeeps, RebuildSnippetsKeeps,
       SetUserVersionKeeps DEF UpgradeDatabase_1_2
  <2>2. CASE UpgradeDatabase_2_3
    BY <2>2, CreateLangLastUsedKeeps, RebuildLibraryLangKeeps, SetUserVersionKeeps
    DEF UpgradeDatabase_2_3
  <2>3. CASE Open \/ EnableForeignKeys \/ Close \/ Crash
    BY <2>3, SameFileKeeps
  <2>4. CASE UNCHANGED vars
    <3>1. UNCHANGED <<file, pc, foreignKeys, crashes, old>>
      BY <2>4 DEF vars
    <3>2. TypeOK' /\ ConversionHolds'
      BY <3>1 DEF IInv, TypeOK, ConversionHolds
    <3>3. QED
      BY <3>1, <3>2 DEF IInv, VersionTellsSchema, NothingLost
  <2>5. QED
    BY <2>1, <2>2, <2>3, <2>4 DEF Next, OpenDatabase, Stuck
<1>3. QED
  BY <1>1, <1>2, PTL DEF Spec

(* Whenever the process ends, the file still says all it said.              *)
THEOREM NothingLostHolds == Spec => []NothingLost
<1>1. IInv => NothingLost
  BY DEF IInv
<1>2. QED
  BY <1>1, InvariantHolds, PTL

(* Whenever the process ends, the version promises no more than there is.   *)
THEOREM VersionTellsSchemaHolds == Spec => []VersionTellsSchema
<1>1. IInv => VersionTellsSchema
  BY DEF IInv
<1>2. QED
  BY <1>1, InvariantHolds, PTL
=============================================================================
