---------------------------- MODULE Loader_proofs ----------------------------
(***************************************************************************)
(* What the proofs about Follow and about Scan share: the documents that   *)
(* can be loaded, and the sums the budgets are about.                      *)
(***************************************************************************)
EXTENDS Loader, Foundations

\* A node that reads as a file is one of the contents a document can have.
LEMMA FileIsContent ==
    ASSUME NEW n \in Nodes, n.kind = "file"
    PROVE  n \in Contents /\ n.size \in Nat /\ n.links \in Seq(Docs \cup {Elsewhere})
BY ContentsAssumption DEF Nodes, NonFiles, Empty

-----------------------------------------------------------------------------
LEMMA TotalOfNone == Total(<< >>) = 0
<1> DEFINE sum == CHOOSE g : Totals(g, 0, 0, << >>)
<1>1. PICK g : Totals(g, 0, 0, << >>)
  BY TotalsExist
<1>2. Totals(sum, 0, 0, << >>)
  BY <1>1
<1>3. sum[0] = 0
  <2> HIDE DEF sum
  <2> QED
    BY <1>2 DEF Totals
<1>4. Total(<< >>) = sum[0]
  BY DEF Total, Totals
<1> QED
  BY <1>3, <1>4

LEMMA TotalsOfSequence ==
    ASSUME NEW a \in Seq(Int)
    PROVE  \E g \in [0..Len(a) -> Int] : Totals(g, Len(a), 0, a)
<1>1. Len(a) \in Nat /\ \A n \in 1..Len(a) : a[n] \in Int
  OBVIOUS
<1> QED
  BY <1>1, TotalsExist

LEMMA TotalIsInt ==
    ASSUME NEW a \in Seq(Int)
    PROVE  Total(a) \in Int
<1> DEFINE f == CHOOSE g : Totals(g, Len(a), 0, a)
<1>1. PICK g \in [0..Len(a) -> Int] : Totals(g, Len(a), 0, a)
  BY TotalsOfSequence
<1>2. Len(a) \in Nat
  OBVIOUS
<1>3. Totals(f, Len(a), 0, a)
  BY <1>1
<1>4. f[Len(a)] = g[Len(a)]
  <2> HIDE DEF f
  <2> QED
    BY <1>1, <1>2, <1>3, TotalsAgree
<1>5. Total(a) = f[Len(a)]
  BY DEF Total, Totals
<1> QED
  BY <1>1, <1>2, <1>4, <1>5

LEMMA TotalOfAppend ==
    ASSUME NEW a \in Seq(Int), NEW x \in Int
    PROVE  Total(Append(a, x)) = Total(a) + x
<1> DEFINE b == Append(a, x)
           f == CHOOSE g : Totals(g, Len(a), 0, a)
           h == CHOOSE g : Totals(g, Len(b), 0, b)
<1>1. b \in Seq(Int) /\ Len(b) = Len(a) + 1 /\ \A i \in 1..Len(a) : a[i] = b[i]
  OBVIOUS
<1>2. b[Len(b)] = x /\ Len(b) # 0 /\ Len(b) - 1 = Len(a) /\ Len(a) \in Nat
  OBVIOUS
<1> HIDE DEF b
<1>3. Totals(f, Len(a), 0, a)
  <2>1. \E g \in [0..Len(a) -> Int] : Totals(g, Len(a), 0, a)
    BY TotalsOfSequence
  <2> QED
    BY <2>1
<1>4. Totals(h, Len(b), 0, b)
  <2>1. \E g \in [0..Len(b) -> Int] : Totals(g, Len(b), 0, b)
    BY <1>1, TotalsOfSequence
  <2> QED
    BY <2>1
<1>5. Total(a) = f[Len(a)] /\ Total(b) = h[Len(b)]
  BY DEF Total, Totals
<1> HIDE DEF f, h
<1>6. f[Len(a)] = h[Len(a)]
  BY SMTT(40), <1>1, <1>3, <1>4, TotalsAgree
<1>7. h[Len(b)] = h[Len(b) - 1] + b[Len(b)]
  BY <1>1, <1>2, <1>4 DEF Totals
<1> QED
  BY <1>2, <1>5, <1>6, <1>7 DEF b

\* What addDocument adds to the sums.
LEMMA SumsOfAppend ==
    ASSUME NEW docs \in Seq(GraphDocument), NEW d \in GraphDocument
    PROVE  /\ Total(Sizes(Append(docs, d))) = Total(Sizes(docs)) + d.content.size
           /\ Total(Degrees(Append(docs, d)))
                 = Total(Degrees(docs)) + Len(d.content.links)
<1>1. ASSUME NEW e \in GraphDocument
      PROVE  e.content.size \in Int /\ Len(e.content.links) \in Int
  <2>1. e.content \in Contents
    BY DEF GraphDocument
  <2> QED
    BY <2>1, ContentsAssumption
<1>2. Sizes(docs) \in Seq(Int) /\ Degrees(docs) \in Seq(Int)
  <2>1. \A i \in DOMAIN docs : docs[i] \in GraphDocument
    OBVIOUS
  <2>2. DOMAIN docs = 1..Len(docs) /\ Len(docs) \in Nat
    OBVIOUS
  <2> QED
    BY <1>1, <2>1, <2>2 DEF Sizes, Degrees
<1>3. Sizes(Append(docs, d)) = Append(Sizes(docs), d.content.size)
  BY <1>1, <1>2 DEF Sizes
<1>4. Degrees(Append(docs, d)) = Append(Degrees(docs), Len(d.content.links))
  BY <1>1, <1>2 DEF Degrees
<1> QED
  BY <1>1, <1>2, <1>3, <1>4, TotalOfAppend

-----------------------------------------------------------------------------
(***************************************************************************)
(* addDocument keeps types and budgets.                                    *)
(***************************************************************************)
LEMMA AddedDocument ==
    ASSUME LoaderTypeOK, NEW d \in Docs, AddDocument(d)
    PROVE  /\ files[d] \in Contents
           /\ files[d].size \in Nat
           /\ Len(files[d].links) \in Nat
           /\ files[d].links \in Seq(Docs \cup {Elsewhere})
           /\ [key |-> d, content |-> files[d]] \in GraphDocument
           /\ documents' = Append(documents, [key |-> d, content |-> files[d]])
           /\ documents' \in Seq(GraphDocument)
           /\ bytes' \in Nat
           /\ relationships' \in Nat
<1>1. files[d] \in Nodes /\ files[d].kind = "file"
  BY DEF AddDocument, LoaderTypeOK
<1>2. /\ files[d] \in Contents /\ files[d].size \in Nat
      /\ files[d].links \in Seq(Docs \cup {Elsewhere})
  BY <1>1, FileIsContent
<1>3. Len(files[d].links) \in Nat
  BY <1>2
<1>4. [key |-> d, content |-> files[d]] \in GraphDocument
  BY <1>2 DEF GraphDocument
<1>5. /\ documents \in Seq(GraphDocument)
      /\ documents' = Append(documents, [key |-> d, content |-> files[d]])
  BY DEF AddDocument, LoaderTypeOK
<1>6. documents' \in Seq(GraphDocument)
  BY <1>4, <1>5
<1>7. /\ bytes \in Nat /\ relationships \in Nat
      /\ bytes' = bytes + files[d].size
      /\ relationships' = relationships + Len(files[d].links)
  BY DEF AddDocument, LoaderTypeOK
<1>8. bytes' \in Nat /\ relationships' \in Nat
  BY <1>2, <1>3, <1>7
<1> QED
  BY <1>2, <1>3, <1>4, <1>5, <1>6, <1>8

LEMMA BudgetsKept ==
    ASSUME LoaderTypeOK, WithinBudgets, NEW d \in Docs, AddDocument(d), limits' = limits
    PROVE  WithinBudgets'
<1> DEFINE n == files[d]
           new == [key |-> d, content |-> n]
<1>1. /\ n.size \in Nat /\ Len(n.links) \in Nat /\ new \in GraphDocument
      /\ documents' = Append(documents, new) /\ documents \in Seq(GraphDocument)
  BY AddedDocument DEF LoaderTypeOK
<1>2. /\ limits.documents \in Int /\ limits.bytes \in Int /\ limits.relationships \in Int
      /\ bytes \in Nat /\ relationships \in Nat
  BY DEF LoaderTypeOK, Limits
<1>3. /\ Len(documents) < limits.documents
      /\ n.size <= limits.bytes - bytes
      /\ Len(n.links) <= limits.relationships - relationships
      /\ bytes' = bytes + n.size
      /\ relationships' = relationships + Len(n.links)
  BY DEF AddDocument, RoomForDocument, FitsBytes, FitsRelationships
<1>4. new.content = n
  OBVIOUS
<1> HIDE DEF n, new
<1>5. Len(documents') = Len(documents) + 1 /\ Len(documents) \in Nat
  BY <1>1
<1>6. BudgetsHeld'
  <2> DEFINE s == n.size
             r == Len(n.links)
  <2>1. /\ s \in Nat /\ s <= limits.bytes - bytes /\ bytes' = bytes + s
        /\ r \in Nat /\ r <= limits.relationships - relationships
        /\ relationships' = relationships + r
    BY <1>1, <1>3
  <2> HIDE DEF s, r
  <2>2. bytes' <= limits.bytes
    BY <1>2, <2>1
  <2>3. relationships' <= limits.relationships
    BY <1>2, <2>1
  <2>4. Len(documents') <= limits.documents
    BY <1>2, <1>3, <1>5
  <2> QED
    BY <2>2, <2>3, <2>4 DEF BudgetsHeld
<1>7. /\ Total(Sizes(documents)) = bytes
      /\ Total(Degrees(documents)) = relationships
  BY DEF WithinBudgets
<1>8. /\ Total(Sizes(documents')) = bytes'
      /\ Total(Degrees(documents')) = relationships'
  BY <1>1, <1>3, <1>4, <1>7, SumsOfAppend
<1> QED
  BY <1>6, <1>8 DEF WithinBudgets

LEMMA NoBudgetUsed ==
    ASSUME documents = << >>, bytes = 0, relationships = 0
    PROVE  WithinBudgets
<1>1. Sizes(<< >>) = << >> /\ Degrees(<< >>) = << >>
  BY DEF Sizes, Degrees
<1> QED
  BY <1>1, TotalOfNone DEF WithinBudgets, BudgetsHeld

-----------------------------------------------------------------------------
(***************************************************************************)
(* Sums over sets of documents.                                            *)
(***************************************************************************)
SumLaws(w) ==
    /\ SumOver({}, w) = 0
    /\ \A T \in SUBSET Docs : SumOver(T, w) \in Int
    /\ \A T \in SUBSET Docs : \A d \in Docs \ T :
          SumOver(T \cup {d}, w) = SumOver(T, w) + w[d]
    /\ \A U \in SUBSET Docs : \A T \in SUBSET U : SumOver(T, w) <= SumOver(U, w)

LEMMA SumsOfSets ==
    ASSUME NEW w, \A d \in Docs : w[d] \in Nat
    PROVE  SumLaws(w)
<1> DEFINE sum == CHOOSE g : SetSums(g, Docs, w)
<1>0. IsFiniteSet(Docs) /\ \A d \in Docs : w[d] \in Int
  BY DocsAssumption
<1>1. IsSum(sum, Docs, w)
  <2>1. \E g : IsSum(g, Docs, w)
    BY <1>0, SetSumsExist
  <2>2. SetSums(sum, Docs, w)
    BY <2>1 DEF IsSum
  <2> HIDE DEF sum
  <2> QED
    BY <1>0, <2>2, SetSumsType
<1>2. \A T : SumOver(T, w) = sum[T]
  BY DEF SumOver, SetSums
<1> HIDE DEF sum
<1>3. Additive(sum, Docs, w)
  BY <1>1, SetSumsAdd
<1>4. \A U \in SUBSET Docs : \A T \in SUBSET U : sum[T] <= sum[U]
  BY <1>1, SetSumsGrow
<1> QED
  BY <1>1, <1>2, <1>3, <1>4 DEF SumLaws, IsSum, Additive

LEMMA SizesOfFiles ==
    ASSUME LoaderTypeOK
    PROVE  /\ \A d \in Docs : Size[d] \in Nat /\ Size[d] = files[d].size
           /\ \A d \in Docs : Degree[d] \in Nat /\ Degree[d] = Len(files[d].links)
           /\ SumLaws(Size) /\ SumLaws(Degree)
<1>1. ASSUME NEW d \in Docs
      PROVE  files[d].size \in Nat /\ Len(files[d].links) \in Nat
  <2>1. files[d] \in Contents \/ files[d] \in NonFiles
    BY DEF LoaderTypeOK, Nodes
  <2>2. ASSUME files[d] \in Contents
        PROVE  files[d].size \in Nat /\ Len(files[d].links) \in Nat
    <3>1. files[d].size \in Nat /\ files[d].links \in Seq(Docs \cup {Elsewhere})
      BY <2>2, ContentsAssumption
    <3> QED
      BY <3>1
  <2>3. ASSUME files[d] \in NonFiles
        PROVE  files[d].size \in Nat /\ Len(files[d].links) \in Nat
    BY <2>3 DEF NonFiles, Empty
  <2> QED
    BY <2>1, <2>2, <2>3
<1>2. /\ \A d \in Docs : Size[d] \in Nat /\ Size[d] = files[d].size
      /\ \A d \in Docs : Degree[d] \in Nat /\ Degree[d] = Len(files[d].links)
  BY <1>1 DEF Size, Degree
<1> QED
  BY <1>2, SumsOfSets

=============================================================================
