----------------------------- MODULE QueryProofs -----------------------------
(***************************************************************************)
(* A log query has the rows its stages say, in the order they say, and a   *)
(* filter accepts the entities its expression means, for every table,      *)
(* expression and sequence of stages and every depth of parentheses.       *)
(***************************************************************************)
EXTENDS QueueProofs

(* The first and the last of a set of positions.                           *)
LEMMA FirstIs ==
  ASSUME NEW S, S \subseteq Nat, S # {}
  PROVE  Logs!Min(S) \in S /\ \A j \in S : Logs!Min(S) <= j
<1> DEFINE R == {p \in Nat \X Nat : p[1] < p[2]}
<1>1. IsWellFoundedOn(R, Nat)
  BY NatLessThanWellFounded DEF OpToRel
<1>2. PICK m \in S : \A j \in S : <<j, m>> \notin R
  <2> HIDE DEF R
  <2> QED
    BY <1>1, WFMin
<1>3. \A j \in S : m <= j
  <2> SUFFICES ASSUME NEW j \in S PROVE m <= j
    OBVIOUS
  <2>1. m \in Nat /\ j \in Nat /\ ~(j < m)
    BY <1>2
  <2> QED
    BY <2>1
<1> QED
  BY <1>2, <1>3 DEF Logs!Min

LEMMA LastIs ==
  ASSUME NEW N \in Nat, NEW S, S \subseteq 0..N, S # {}
  PROVE  Logs!Max(S) \in S /\ \A j \in S : j <= Logs!Max(S)
<1> DEFINE T == {d \in Nat : N - d \in S}
<1>1. \A i \in S : i \in Int /\ i <= N /\ N - i \in Nat /\ N - (N - i) = i /\ N - i \in T
  OBVIOUS
<1>2. T \subseteq Nat /\ T # {}
  BY <1>1
<1>3. PICK d \in T : \A e \in T : d <= e
  <2> HIDE DEF T
  <2> QED
    BY <1>2, FirstIs
<1>4. d \in Nat /\ N - d \in S
  BY <1>3
<1>5. \A j \in S : j <= N - d
  <2> SUFFICES ASSUME NEW j \in S PROVE j <= N - d
    OBVIOUS
  <2>1. d <= N - j
    BY <1>1, <1>3
  <2> QED
    BY <1>1, <1>4, <2>1
<1> QED
  BY <1>1, <1>4, <1>5 DEF Logs!Max

-----------------------------------------------------------------------------
(* The predicates of where: the comparisons between two cuts.              *)
Cuts(s, word) == {i \in DOMAIN s : s[i] = Logs!Keyword(word)} \cup {0, Len(s) + 1}
NextCut(s, word, i) == Logs!Min({j \in Cuts(s, word) : j > i})
Part(s, word, i) == SubSeq(s, i + 1, NextCut(s, word, i) - 1)

LEMMA SplitIs ==
  ASSUME NEW s, NEW word
  PROVE  Logs!splitKeyword(s, word) = {Part(s, word, i) : i \in Cuts(s, word) \ {Len(s) + 1}}
BY DEF Logs!splitKeyword, Cuts, NextCut, Part

(* Up to the next cut there is none.                                       *)
LEMMA CutNext ==
  ASSUME NEW A, NEW s \in Seq(A), NEW word, NEW i \in Cuts(s, word) \ {Len(s) + 1}
  PROVE  /\ i \in Nat /\ i <= Len(s)
         /\ NextCut(s, word, i) \in Cuts(s, word)
         /\ NextCut(s, word, i) \in Nat /\ i < NextCut(s, word, i)
         /\ NextCut(s, word, i) <= Len(s) + 1
         /\ \A k \in Nat : i < k /\ k < NextCut(s, word, i) =>
              k \in DOMAIN s /\ s[k] # Logs!Keyword(word)
<1> DEFINE C == Cuts(s, word)
           After == {j \in C : j > i}
<1>1. Len(s) \in Nat /\ DOMAIN s = 1..Len(s)
  OBVIOUS
<1>2. C \subseteq 0..(Len(s) + 1) /\ Len(s) + 1 \in C
  BY <1>1 DEF Cuts
<1>3. i \in Nat /\ i <= Len(s) /\ Len(s) + 1 \in After
  BY <1>1, <1>2
<1>4. After \subseteq Nat /\ After # {}
  BY <1>1, <1>2, <1>3
<1>5. NextCut(s, word, i) = Logs!Min(After)
  BY DEF NextCut
<1> DEFINE m == NextCut(s, word, i)
<1>6. m \in After /\ \A j \in After : m <= j
  <2> HIDE DEF After
  <2> QED
    BY <1>4, <1>5, FirstIs
<1> HIDE DEF m
<1>7. m \in C /\ m \in Nat /\ i < m /\ m <= Len(s) + 1
  BY <1>1, <1>2, <1>3, <1>6
<1>8. ASSUME NEW k \in Nat, i < k, k < m
      PROVE  k \in DOMAIN s /\ s[k] # Logs!Keyword(word)
  <2>1. k \in DOMAIN s
    BY <1>1, <1>3, <1>7, <1>8
  <2>2. k \notin After
    BY <1>6, <1>7, <1>8
  <2> QED
    BY <1>3, <1>8, <2>1, <2>2 DEF Cuts
<1> QED
  BY <1>3, <1>7, <1>8 DEF m

(* And every position that is no cut is in one part.                       *)
LEMMA CutBefore ==
  ASSUME NEW A, NEW s \in Seq(A), NEW word, NEW k \in DOMAIN s, s[k] # Logs!Keyword(word)
  PROVE  \E i \in Cuts(s, word) \ {Len(s) + 1} : i < k /\ k < NextCut(s, word, i)
<1> DEFINE C == Cuts(s, word)
           B == {j \in C : j < k}
           i == Logs!Max(B)
<1>1. Len(s) \in Nat /\ DOMAIN s = 1..Len(s) /\ k \in Nat /\ 0 < k /\ k <= Len(s)
  OBVIOUS
<1>2. C \subseteq 0..(Len(s) + 1) /\ 0 \in C
  BY <1>1 DEF Cuts
<1>3. B \subseteq 0..Len(s) /\ B # {}
  BY <1>1, <1>2
<1>4. i \in B /\ \A j \in B : j <= i
  <2> HIDE DEF B
  <2> QED
    BY <1>1, <1>3, LastIs
<1> HIDE DEF i
<1>5. i \in C \ {Len(s) + 1} /\ i < k /\ i \in Nat
  BY <1>1, <1>2, <1>3, <1>4
<1>6. /\ NextCut(s, word, i) \in C /\ NextCut(s, word, i) \in Nat /\ i < NextCut(s, word, i)
  BY <1>5, CutNext
<1>7. k \notin C
  BY <1>1 DEF Cuts
<1>8. k < NextCut(s, word, i)
  BY <1>1, <1>4, <1>5, <1>6, <1>7
<1> QED
  BY <1>5, <1>8

LEMMA PartIs ==
  ASSUME NEW A, NEW s \in Seq(A), NEW word, NEW i \in Cuts(s, word) \ {Len(s) + 1}
  PROVE  /\ Part(s, word, i) \in Seq(A)
         /\ \A x : x \in DOMAIN Part(s, word, i)
                   <=> x \in Nat /\ i + x \in DOMAIN s /\ i < i + x /\ i + x < NextCut(s, word, i)
         /\ \A x \in DOMAIN Part(s, word, i) : Part(s, word, i)[x] = s[i + x]
<1> DEFINE m == NextCut(s, word, i)
<1>1. i \in Nat /\ m \in Nat /\ i < m /\ m <= Len(s) + 1 /\ Len(s) \in Nat /\ DOMAIN s = 1..Len(s)
  BY CutNext
<1> HIDE DEF m
<1> DEFINE p == SubSeq(s, i + 1, m - 1)
<1>2. p \in Seq(A) /\ Len(p) = m - 1 - i /\ \A x \in 1..(m - 1 - i) : p[x] = s[i + x]
  <2>1. i + 1 \in 1..(Len(s) + 1) /\ m - 1 \in i..Len(s)
    BY <1>1
  <2> QED
    BY <1>1, <2>1
<1>3. DOMAIN p = 1..(m - 1 - i)
  BY <1>2
<1> HIDE DEF p
<1>4. Part(s, word, i) = p
  BY DEF Part, p, m
<1>5. ASSUME NEW x
      PROVE  x \in DOMAIN p <=> x \in Nat /\ i + x \in DOMAIN s /\ i < i + x /\ i + x < m
  <2>1. x \in 1..(m - 1 - i) <=> x \in Nat /\ i + x \in 1..Len(s) /\ i < i + x /\ i + x < m
    <3> DEFINE N == Len(s)
    <3>1. N \in Nat /\ m <= N + 1
      BY <1>1
    <3> HIDE DEF N
    <3>2. x \in 1..(m - 1 - i) <=> x \in Nat /\ i + x \in 1..N /\ i < i + x /\ i + x < m
      BY <1>1, <3>1
    <3> QED
      BY <3>2 DEF N
  <2> QED
    BY <1>1, <1>3, <2>1
<1>6. \A x \in DOMAIN p : p[x] = s[i + x]
  BY <1>2, <1>3
<1> QED
  BY <1>2, <1>4, <1>5, <1>6 DEF m

(* What the parts of a sequence have together is what is no keyword.       *)
LEMMA PartsHave ==
  ASSUME NEW A, NEW s \in Seq(A), NEW word
  PROVE  UNION {Logs!ToSet(p) : p \in Logs!splitKeyword(s, word)}
           = {s[k] : k \in {j \in DOMAIN s : s[j] # Logs!Keyword(word)}}
<1> DEFINE Inner == {j \in DOMAIN s : s[j] # Logs!Keyword(word)}
           I == Cuts(s, word) \ {Len(s) + 1}
<1>1. ASSUME NEW i \in I PROVE Logs!ToSet(Part(s, word, i)) \subseteq {s[k] : k \in Inner}
  <2> SUFFICES ASSUME NEW x \in DOMAIN Part(s, word, i)
               PROVE  Part(s, word, i)[x] \in {s[k] : k \in Inner}
    BY DEF Logs!ToSet
  <2>1. i + x \in DOMAIN s /\ i < i + x /\ i + x < NextCut(s, word, i) /\ Part(s, word, i)[x] = s[i + x]
    BY PartIs
  <2>2. s[i + x] # Logs!Keyword(word)
    BY <2>1, CutNext
  <2> QED
    BY <2>1, <2>2
<1>2. ASSUME NEW k \in Inner PROVE \E i \in I : s[k] \in Logs!ToSet(Part(s, word, i))
  <2>1. PICK i \in I : i < k /\ k < NextCut(s, word, i)
    BY CutBefore
  <2>2. i \in Nat /\ k \in Nat
    BY <2>1, CutNext
  <2>3. k - i \in Nat /\ i + (k - i) = k
    BY <2>1, <2>2
  <2>4. k - i \in DOMAIN Part(s, word, i) /\ Part(s, word, i)[k - i] = s[k]
    BY <2>1, <2>3, PartIs
  <2> QED
    BY <2>4 DEF Logs!ToSet
<1> QED
  BY <1>1, <1>2, SplitIs

(* One of the groups of an expression holds if one of its parts does.      *)
Holds(pred, i, cells) ==
  \A k \in DOMAIN pred :
    i < k /\ k < NextCut(pred, "or", i) /\ pred[k] # Logs!Keyword("and")
      => Logs!comparisonEval(pred[k], cells)

LEMMA GroupHolds ==
  ASSUME NEW A, NEW pred \in Seq(A), NEW cells, NEW i \in Cuts(pred, "or") \ {Len(pred) + 1}
  PROVE  Holds(pred, i, cells)
         <=> \A c \in UNION {Logs!ToSet(p) : p \in Logs!splitKeyword(Part(pred, "or", i), "and")} :
               Logs!comparisonEval(c, cells)
<1> DEFINE s == Part(pred, "or", i)
<1>1. /\ s \in Seq(A)
      /\ \A x : x \in DOMAIN s
                <=> x \in Nat /\ i + x \in DOMAIN pred /\ i < i + x /\ i + x < NextCut(pred, "or", i)
      /\ \A x \in DOMAIN s : s[x] = pred[i + x]
  BY PartIs
<1> HIDE DEF s
<1> DEFINE G == UNION {Logs!ToSet(p) : p \in Logs!splitKeyword(s, "and")}
<1>2. G = {s[k] : k \in {j \in DOMAIN s : s[j] # Logs!Keyword("and")}}
  BY <1>1, PartsHave
<1>3. ASSUME Holds(pred, i, cells), NEW c \in G PROVE Logs!comparisonEval(c, cells)
  <2>1. PICK x \in DOMAIN s : s[x] # Logs!Keyword("and") /\ c = s[x]
    BY <1>2
  <2> QED
    BY <1>1, <1>3, <2>1 DEF Holds
<1>4. ASSUME \A c \in G : Logs!comparisonEval(c, cells) PROVE Holds(pred, i, cells)
  <2> SUFFICES ASSUME NEW k \in DOMAIN pred, i < k, k < NextCut(pred, "or", i),
                      pred[k] # Logs!Keyword("and")
               PROVE  Logs!comparisonEval(pred[k], cells)
    BY DEF Holds
  <2>1. i \in Nat /\ k \in Nat
    BY CutNext
  <2>2. k - i \in Nat /\ i + (k - i) = k
    BY <2>1
  <2>3. k - i \in DOMAIN s /\ s[k - i] = pred[k]
    BY <1>1, <2>2
  <2>4. pred[k] \in G
    BY <1>2, <2>3
  <2> QED
    BY <1>4, <2>4
<1> QED
  BY <1>3, <1>4 DEF G, s

LEMMA PredicateIs ==
  ASSUME NEW A, NEW pred \in Seq(A), NEW cells
  PROVE  Logs!predicateEval(Logs!parsePredicate(pred), cells)
         <=> \E i \in Cuts(pred, "or") \ {Len(pred) + 1} : Holds(pred, i, cells)
<1> DEFINE I == Cuts(pred, "or") \ {Len(pred) + 1}
           Group(s) == UNION {Logs!ToSet(p) : p \in Logs!splitKeyword(s, "and")}
<1>1. Logs!parsePredicate(pred) = {Group(s) : s \in Logs!splitKeyword(pred, "or")}
  BY DEF Logs!parsePredicate
<1>2. Logs!splitKeyword(pred, "or") = {Part(pred, "or", i) : i \in I}
  BY SplitIs
<1>3. \A i \in I : Holds(pred, i, cells)
                    <=> \A c \in Group(Part(pred, "or", i)) : Logs!comparisonEval(c, cells)
  BY GroupHolds
<1> HIDE DEF Group, I
<1>4. Logs!predicateEval(Logs!parsePredicate(pred), cells)
        <=> \E i \in I : \A c \in Group(Part(pred, "or", i)) : Logs!comparisonEval(c, cells)
  BY <1>1, <1>2 DEF Logs!predicateEval
<1> QED
  BY <1>3, <1>4 DEF I

(* Expressions that are not refused have no empty part.                    *)
LEMMA Expressions ==
  ASSUME NEW pred \in Expr
  PROVE  /\ pred \in Seq(Logs!ToSet(pred))
         /\ \A i \in Cuts(pred, "or") \ {Len(pred) + 1} :
              i + 1 \in DOMAIN pred /\ pred[i + 1] # Logs!Keyword("or")
<1>1. /\ pred \in Seq(Logs!ToSet(pred)) /\ Len(pred) % 2 = 1
      /\ \A i \in DOMAIN pred :
           IF i % 2 = 1 THEN pred[i].op \notin {"and", "or"}
           ELSE pred[i] \in {Logs!Keyword("and"), Logs!Keyword("or")}
  BY LogsAssumption DEF Logs!LogAssumption
<1>2. \A i \in DOMAIN pred : i % 2 = 1 => pred[i] # Logs!Keyword("or")
  <2>1. Logs!Keyword("or").op = "or"
    BY DEF Logs!Keyword
  <2> QED
    BY <1>1, <2>1
<1>3. ASSUME NEW i \in Cuts(pred, "or") \ {Len(pred) + 1}
      PROVE  i + 1 \in DOMAIN pred /\ pred[i + 1] # Logs!Keyword("or")
  <2> DEFINE N == Len(pred)
  <2>1. N \in Nat /\ DOMAIN pred = 1..N /\ N % 2 = 1
    BY <1>1
  <2>2. i = 0 \/ (i \in 1..N /\ pred[i] = Logs!Keyword("or"))
    BY <2>1 DEF Cuts
  <2>3. \A k \in 1..N : k % 2 = 1 => pred[k] # Logs!Keyword("or")
    BY <1>2, <2>1
  <2> HIDE DEF N
  <2>4. i \in Nat /\ i <= N /\ i % 2 # 1
    BY <2>1, <2>2, <2>3
  <2>6. (i + 1) % 2 = 1 /\ i # N
    BY <2>1, <2>4
  <2>5. i + 1 \in DOMAIN pred
    BY <2>1, <2>4, <2>6
  <2> QED
    BY <1>2, <2>5, <2>6
<1> QED
  BY <1>1, <1>3

(* where keeps what its expression says.                                   *)
LEMMA PredicateSays ==
  ASSUME NEW pred \in Expr, NEW cells
  PROVE  Logs!predicateEval(Logs!parsePredicate(pred), cells) <=> Logs!Says(pred, cells)
<1> DEFINE C == Cuts(pred, "or")
<1>1. pred \in Seq(Logs!ToSet(pred))
  BY Expressions
<1>2. Len(pred) \in Nat /\ DOMAIN pred = 1..Len(pred)
  BY <1>1
<1>3. Logs!predicateEval(Logs!parsePredicate(pred), cells)
        <=> \E i \in C \ {Len(pred) + 1} : Holds(pred, i, cells)
  BY <1>1, PredicateIs
<1>4. ASSUME NEW i \in C \ {Len(pred) + 1}, Holds(pred, i, cells) PROVE Logs!Says(pred, cells)
  <2> DEFINE m == NextCut(pred, "or", i)
  <2>1. /\ i \in Nat /\ m \in C /\ m \in Nat /\ i < m /\ m <= Len(pred) + 1
        /\ \A k \in Nat : i < k /\ k < m => k \in DOMAIN pred /\ pred[k] # Logs!Keyword("or")
    BY <1>1, CutNext
  <2>2. i + 1 \in DOMAIN pred /\ pred[i + 1] # Logs!Keyword("or")
    BY Expressions
  <2>3. i = 0 \/ pred[i] = Logs!Keyword("or")
    BY DEF Cuts
  <2>4. m = Len(pred) + 1 \/ pred[m] = Logs!Keyword("or")
    BY <2>1 DEF Cuts
  <2>5. m # i + 1
    BY <1>2, <2>2, <2>4
  <2> HIDE DEF m
  <2> DEFINE a == i + 1
             b == m - 1
  <2>6. a \in DOMAIN pred /\ b \in DOMAIN pred /\ a <= b /\ a - 1 = i /\ b + 1 = m
    BY <1>2, <2>1, <2>2, <2>5
  <2>7. \A k \in a..b : k \in DOMAIN pred /\ k \in Nat /\ i < k /\ k < m
    BY <1>2, <2>1, <2>6
  <2>8. \A k \in a..b : /\ pred[k] # Logs!Keyword("or")
                        /\ pred[k] # Logs!Keyword("and") => Logs!comparisonEval(pred[k], cells)
    BY <1>4, <2>1, <2>7 DEF Holds, m
  <2>9. a = 1 \/ pred[a - 1] = Logs!Keyword("or")
    BY <2>1, <2>3, <2>6
  <2>10. b = Len(pred) \/ pred[b + 1] = Logs!Keyword("or")
    BY <1>2, <2>1, <2>4, <2>6
  <2> HIDE DEF a, b
  <2> QED
    BY <2>6, <2>8, <2>9, <2>10 DEF Logs!Says
<1>5. ASSUME Logs!Says(pred, cells)
      PROVE  \E i \in C \ {Len(pred) + 1} : Holds(pred, i, cells)
  <2>1. PICK a, b \in DOMAIN pred :
          /\ a <= b
          /\ a = 1 \/ pred[a - 1] = Logs!Keyword("or")
          /\ b = Len(pred) \/ pred[b + 1] = Logs!Keyword("or")
          /\ \A k \in a..b : /\ pred[k] # Logs!Keyword("or")
                             /\ pred[k] # Logs!Keyword("and") => Logs!comparisonEval(pred[k], cells)
    BY <1>5 DEF Logs!Says
  <2>2. a \in Nat /\ b \in Nat /\ 0 < a /\ b <= Len(pred)
    BY <1>2
  <2>3. a - 1 \in C \ {Len(pred) + 1}
    BY <1>2, <2>1, <2>2 DEF Cuts
  <2>4. b + 1 \in C
    BY <1>2, <2>1, <2>2 DEF Cuts
  <2> DEFINE m == NextCut(pred, "or", a - 1)
  <2>5. m \in Nat /\ \A k \in Nat : a - 1 < k /\ k < m => pred[k] # Logs!Keyword("or")
    BY <1>1, <2>3, CutNext
  <2>6. m <= b + 1
    <3>1. \A j \in {j \in C : j > a - 1} : m <= j
      <4>1. {j \in C : j > a - 1} \subseteq Nat
        BY <1>2 DEF Cuts
      <4>2. b + 1 \in {j \in C : j > a - 1}
        BY <2>1, <2>2, <2>4
      <4> DEFINE After == {j \in C : j > a - 1}
      <4>3. m = Logs!Min(After)
        BY DEF NextCut
      <4> HIDE DEF m, After
      <4>4. After \subseteq Nat /\ After # {}
        BY <4>1, <4>2 DEF After
      <4>5. \A j \in After : m <= j
        BY <4>3, <4>4, FirstIs
      <4> QED
        BY <4>5 DEF After
    <3> QED
      BY <2>1, <2>2, <2>4, <3>1
  <2> HIDE DEF m
  <2>7. ASSUME NEW k \in DOMAIN pred, a - 1 < k, k < m, pred[k] # Logs!Keyword("and")
        PROVE  Logs!comparisonEval(pred[k], cells)
    <3>1. k \in a..b
      BY <1>2, <2>2, <2>5, <2>6, <2>7
    <3> QED
      BY <2>1, <2>7, <3>1
  <2>8. Holds(pred, a - 1, cells)
    BY <2>7 DEF Holds, m
  <2> QED
    BY <2>3, <2>8
<1> QED
  BY <1>3, <1>4, <1>5

-----------------------------------------------------------------------------
(* The loops of where and sort keep an order R of the rows.                *)
InOrder(s, R) == \A i, j \in DOMAIN s : i < j => <<s[i], s[j]>> \in R

LEMMA AppendInOrder ==
  ASSUME NEW A, NEW s \in Seq(A), NEW a \in A, NEW R, InOrder(s, R),
         \A i \in DOMAIN s : <<s[i], a>> \in R
  PROVE  InOrder(Append(s, a), R)
<1> DEFINE N == Len(s)
           t == Append(s, a)
<1>1. N \in Nat /\ DOMAIN s = 1..N /\ DOMAIN t = 1..(N + 1)
  OBVIOUS
<1>2. t[N + 1] = a /\ \A i \in 1..N : t[i] = s[i]
  OBVIOUS
<1> HIDE DEF N, t
<1> SUFFICES ASSUME NEW i \in 1..(N + 1), NEW j \in 1..(N + 1), i < j PROVE <<t[i], t[j]>> \in R
  BY <1>1 DEF InOrder, t
<1>3. i \in 1..N /\ (j = N + 1 \/ j \in 1..N)
  BY <1>1
<1> QED
  BY <1>1, <1>2, <1>3 DEF InOrder

LEMMA InsertIs ==
  ASSUME NEW A, NEW s \in Seq(A), NEW a \in A, NEW p \in 0..Len(s)
  PROVE  /\ Logs!InsertAt(s, p + 1, a) \in Seq(A)
         /\ Len(Logs!InsertAt(s, p + 1, a)) = Len(s) + 1
         /\ \A i \in 1..(Len(s) + 1) :
              Logs!InsertAt(s, p + 1, a)[i]
                = IF i <= p THEN s[i] ELSE IF i = p + 1 THEN a ELSE s[i - 1]
<1> DEFINE N == Len(s)
           t == SubSeq(s, 1, p)
           u == SubSeq(s, p + 1, N)
           all == t \o <<a>> \o u
<1>1. N \in Nat /\ p \in Nat /\ p <= N
  OBVIOUS
<1>2. t \in Seq(A) /\ Len(t) = p /\ \A i \in 1..p : t[i] = s[i]
  BY <1>1
<1>3. u \in Seq(A) /\ Len(u) = N - p /\ \A i \in 1..(N - p) : u[i] = s[p + i]
  BY <1>1
<1>4. Logs!InsertAt(s, p + 1, a) = all
  <2>1. (p + 1) - 1 = p
    BY <1>1
  <2> QED
    BY <2>1 DEF Logs!InsertAt
<1> HIDE DEF N, t, u
<1> DEFINE v == t \o <<a>>
<1>5. v \in Seq(A) /\ Len(v) = p + 1 /\ v[p + 1] = a /\ \A i \in 1..p : v[i] = s[i]
  <2>1. <<a>> \in Seq(A) /\ Len(<<a>>) = 1 /\ <<a>>[1] = a
    OBVIOUS
  <2>2. v \in Seq(A) /\ Len(v) = Len(t) + 1
    BY <1>2, <2>1
  <2>3. \A i \in 1..p : v[i] = t[i]
    BY <1>1, <1>2, <2>1
  <2>4. v[p + 1] = a
    BY <1>1, <1>2, <2>1
  <2> QED
    BY <1>2, <2>2, <2>3, <2>4
<1> HIDE DEF v
<1>6. all = v \o u
  BY DEF v
<1> HIDE DEF all
<1>7. all \in Seq(A) /\ Len(all) = N + 1
  <2>1. all \in Seq(A) /\ Len(all) = Len(v) + Len(u)
    BY <1>3, <1>5, <1>6, ConcatProperties
  <2> QED
    BY <1>1, <1>3, <1>5, <2>1
<1>8. ASSUME NEW i \in 1..(N + 1)
      PROVE  all[i] = IF i <= p THEN s[i] ELSE IF i = p + 1 THEN a ELSE s[i - 1]
  <2>1. CASE i <= p + 1
    <3>1. i \in 1..Len(v)
      BY <1>1, <1>5, <2>1
    <3>2. all[i] = v[i]
      BY <1>3, <1>5, <1>6, <3>1
    <3> QED
      BY <1>1, <1>5, <2>1, <3>2
  <2>2. CASE ~(i <= p + 1)
    <3>3. i \in Nat /\ i <= N + 1 /\ p + 1 < i
      BY <1>1, <2>2
    <3>4. /\ i \in 1..((p + 1) + (N - p)) /\ ~(i <= p + 1)
          /\ i - (p + 1) \in 1..(N - p) /\ p + (i - (p + 1)) = i - 1
      BY <1>1, <3>3
    <3>5. Len(v) = p + 1 /\ Len(u) = N - p
      BY <1>3, <1>5
    <3>1. i \in 1..(Len(v) + Len(u)) /\ ~(i <= Len(v)) /\ i - (p + 1) \in 1..(N - p)
          /\ p + (i - (p + 1)) = i - 1
      BY <3>4, <3>5
    <3>2. all[i] = u[i - (p + 1)]
      BY <1>3, <1>5, <1>6, <3>1
    <3> QED
      BY <1>1, <1>3, <2>2, <3>1, <3>2
  <2> QED
    BY <2>1, <2>2
<1> QED
  BY <1>4, <1>7, <1>8 DEF N

LEMMA InsertInOrder ==
  ASSUME NEW A, NEW s \in Seq(A), NEW a \in A, NEW p \in 0..Len(s), NEW R
  PROVE  /\ Logs!InsertAt(s, p + 1, a) \in Seq(A)
         /\ RangeOf(Logs!InsertAt(s, p + 1, a)) = RangeOf(s) \cup {a}
         /\ InOrder(s, R)
            /\ (\A i \in DOMAIN s : IF i <= p THEN <<s[i], a>> \in R ELSE <<a, s[i]>> \in R)
            => InOrder(Logs!InsertAt(s, p + 1, a), R)
<1> DEFINE N == Len(s)
           t == Logs!InsertAt(s, p + 1, a)
<1>1. N \in Nat /\ p \in Nat /\ p <= N /\ DOMAIN s = 1..N
  OBVIOUS
<1>2. /\ t \in Seq(A) /\ Len(t) = N + 1
      /\ \A i \in 1..(N + 1) : t[i] = IF i <= p THEN s[i] ELSE IF i = p + 1 THEN a ELSE s[i - 1]
  BY InsertIs
<1> HIDE DEF t, N
<1>3. DOMAIN t = 1..(N + 1)
  BY <1>2
<1>4. RangeOf(t) = RangeOf(s) \cup {a}
  <2>1. ASSUME NEW i \in 1..(N + 1) PROVE t[i] \in RangeOf(s) \cup {a}
    <3>1. i <= p => i \in 1..N
      BY <1>1
    <3>2. ~(i <= p) /\ i # p + 1 => i - 1 \in 1..N
      BY <1>1
    <3> QED
      BY <1>1, <1>2, <3>1, <3>2 DEF RangeOf
  <2>2. ASSUME NEW i \in 1..N PROVE s[i] \in RangeOf(t)
    <3>1. CASE i <= p
      <4>1. i \in 1..(N + 1) /\ t[i] = s[i]
        BY <1>1, <1>2, <3>1
      <4> QED
        BY <1>3, <4>1 DEF RangeOf
    <3>2. CASE ~(i <= p)
      <4>1. i + 1 \in 1..(N + 1) /\ ~(i + 1 <= p) /\ i + 1 # p + 1 /\ (i + 1) - 1 = i
        BY <1>1, <3>2
      <4>2. t[i + 1] = s[i]
        BY <1>2, <4>1
      <4> QED
        BY <1>3, <4>1, <4>2 DEF RangeOf
    <3> QED
      BY <3>1, <3>2
  <2>3. a \in RangeOf(t)
    <3>1. p + 1 \in 1..(N + 1) /\ ~(p + 1 <= p)
      BY <1>1
    <3>2. t[p + 1] = a
      BY <1>2, <3>1
    <3> QED
      BY <1>3, <3>1, <3>2 DEF RangeOf
  <2>4. RangeOf(t) \subseteq RangeOf(s) \cup {a}
    BY <1>3, <2>1 DEF RangeOf
  <2>5. RangeOf(s) \subseteq RangeOf(t)
    BY <1>1, <2>2 DEF RangeOf
  <2> QED
    BY <2>3, <2>4, <2>5
<1>5. ASSUME InOrder(s, R),
             \A i \in DOMAIN s : IF i <= p THEN <<s[i], a>> \in R ELSE <<a, s[i]>> \in R,
             NEW i \in 1..(N + 1), NEW j \in 1..(N + 1), i < j
      PROVE  <<t[i], t[j]>> \in R
  <2>0. /\ t[i] = IF i <= p THEN s[i] ELSE IF i = p + 1 THEN a ELSE s[i - 1]
        /\ t[j] = IF j <= p THEN s[j] ELSE IF j = p + 1 THEN a ELSE s[j - 1]
    BY <1>2
  <2>1. CASE j <= p
    <3>1. i <= p /\ i \in 1..N /\ j \in 1..N
      BY <1>1, <1>5, <2>1
    <3> QED
      BY <1>1, <1>5, <2>0, <2>1, <3>1 DEF InOrder
  <2>2. CASE j = p + 1
    <3>1. i <= p /\ i \in 1..N /\ ~(j <= p)
      BY <1>1, <1>5, <2>2
    <3> QED
      BY <1>1, <1>5, <2>0, <2>2, <3>1
  <2>3. CASE ~(j <= p) /\ j # p + 1 /\ i <= p
    <3>1. i \in 1..N /\ j - 1 \in 1..N /\ i < j - 1
      BY <1>1, <1>5, <2>3
    <3> QED
      BY <1>1, <1>5, <2>0, <2>3, <3>1 DEF InOrder
  <2>4. CASE ~(j <= p) /\ j # p + 1 /\ i = p + 1
    <3>1. j - 1 \in 1..N /\ ~(j - 1 <= p) /\ ~(i <= p)
      BY <1>1, <1>5, <2>4
    <3> QED
      BY <1>1, <1>5, <2>0, <2>4, <3>1
  <2>5. CASE ~(j <= p) /\ j # p + 1 /\ ~(i <= p) /\ i # p + 1
    <3>1. i - 1 \in 1..N /\ j - 1 \in 1..N /\ i - 1 < j - 1
      BY <1>1, <1>5, <2>5
    <3> QED
      BY <1>1, <1>5, <2>0, <2>5, <3>1 DEF InOrder
  <2> QED
    BY <2>1, <2>2, <2>3, <2>4, <2>5
<1> QED
  BY <1>2, <1>3, <1>4, <1>5 DEF InOrder, t

(* What a loop makes of an empty sequence, step by step.                   *)
Makes(f, A, N, step) ==
  f \in [0..N -> Seq(A)] /\ f[0] = <<>> /\ \A i \in 1..N : f[i] = step[i][f[i - 1]]

LEMMA Loop ==
  ASSUME NEW A, NEW N \in Nat, NEW step \in [1..N -> [Seq(A) -> Seq(A)]]
  PROVE  \E f : Makes(f, A, N, step)
<1> DEFINE S == Seq(A)
           first == <<>>
<1>1. first \in S /\ step \in [1..N -> [S -> S]]
  OBVIOUS
<1> HIDE DEF S, first
<1>2. \E f \in [0..N -> S] : f[0] = first /\ \A i \in 1..N : f[i] = step[i][f[i - 1]]
  BY <1>1, Iterates
<1> QED
  BY <1>2 DEF S, first, Makes

(* The loop of where.                                                      *)
Match(pred, row) == Logs!predicateEval(Logs!parsePredicate(pred), row.cells)

Matching(pred, s) ==
  LET match[i \in 0..Len(s)] ==
        IF i = 0 THEN <<>>
        ELSE IF Match(pred, s[i]) THEN Append(match[i - 1], s[i]) ELSE match[i - 1]
  IN  match[Len(s)]

LEMMA Matched ==
  ASSUME NEW A, NEW s \in Seq(A), NEW pred \in Expr, NEW R
  PROVE  /\ Matching(pred, s) \in Seq(A)
         /\ RangeOf(Matching(pred, s)) = {s[k] : k \in {j \in DOMAIN s : Logs!Says(pred, s[j].cells)}}
         /\ InOrder(s, R) => InOrder(Matching(pred, s), R)
<1> DEFINE N == Len(s)
           step == [i \in 1..N |-> [t \in Seq(A) |-> IF Match(pred, s[i]) THEN Append(t, s[i]) ELSE t]]
           loop(f) == [i \in 0..N |-> IF i = 0 THEN <<>>
                                      ELSE IF Match(pred, s[i]) THEN Append(f[i - 1], s[i])
                                      ELSE f[i - 1]]
<1>0. \A j \in DOMAIN s : Match(pred, s[j]) <=> Logs!Says(pred, s[j].cells)
  BY PredicateSays DEF Match
<1>1. N \in Nat /\ DOMAIN s = 1..N /\ \A i \in 1..N : s[i] \in A
  OBVIOUS
<1> DEFINE rest == CHOOSE g : g = loop(g)
<1>6. Matching(pred, s) = rest[N]
  BY DEF Matching
<1> HIDE DEF rest, loop
<1>2. step \in [1..N -> [Seq(A) -> Seq(A)]]
  <2>1. ASSUME NEW i \in 1..N, NEW t \in Seq(A)
        PROVE  (IF Match(pred, s[i]) THEN Append(t, s[i]) ELSE t) \in Seq(A)
    BY <1>1
  <2> QED
    BY <2>1
<1>3. PICK f : Makes(f, A, N, step)
  <2> HIDE DEF step, N
  <2>1. N \in Nat
    BY <1>1 DEF N
  <2> QED
    BY <1>2, <2>1, Loop
<1>11. f \in [0..N -> Seq(A)] /\ f[0] = <<>> /\ \A i \in 1..N : f[i] = step[i][f[i - 1]]
  BY <1>3 DEF Makes
<1>4. f = loop(f)
  <2>1. ASSUME NEW i \in 1..N
        PROVE  f[i] = IF Match(pred, s[i]) THEN Append(f[i - 1], s[i]) ELSE f[i - 1]
    <3>1. i - 1 \in 0..N
      BY <1>1
    <3>2. f[i - 1] \in Seq(A)
      BY <1>11, <3>1
    <3>3. f[i] = step[i][f[i - 1]]
      BY <1>11
    <3> HIDE DEF N
    <3> QED
      BY <3>2, <3>3
  <2>2. DOMAIN f = 0..N /\ f[0] = <<>> /\ \A i \in 0..N : i # 0 => i \in 1..N
    BY <1>1, <1>11
  <2>3. f = [i \in 0..N |-> f[i]]
    BY <1>11
  <2> HIDE DEF N
  <2> QED
    BY <2>1, <2>2, <2>3 DEF loop
<1>5. rest = loop(rest)
  BY <1>4 DEF rest
<1> USE DEF loop
<1> HIDE DEF step
<1> DEFINE Good(i) ==
      /\ rest[i] \in Seq(A)
      /\ RangeOf(rest[i]) = {s[j] : j \in {k \in 1..i : Match(pred, s[k])}}
      /\ InOrder(s, R) => InOrder(rest[i], R)
    T == {i \in Nat : i <= N => Good(i)}
<1>7. 0 \in T
  <2>1. rest[0] = <<>>
    BY <1>1, <1>5
  <2>2. RangeOf(<<>>) = {} /\ InOrder(<<>>, R) /\ <<>> \in Seq(A)
    BY DEF RangeOf, InOrder
  <2>3. Good(0)
    BY <2>1, <2>2
  <2> QED
    BY <2>3
<1>8. ASSUME NEW i \in Nat, i \in T PROVE i + 1 \in T
  <2> SUFFICES ASSUME i + 1 <= N PROVE Good(i + 1)
    OBVIOUS
  <2>1. Good(i) /\ i + 1 \in 1..N /\ s[i + 1] \in A
    BY <1>1, <1>8
  <2>2. rest[i + 1] = IF Match(pred, s[i + 1]) THEN Append(rest[i], s[i + 1]) ELSE rest[i]
    <3> HIDE DEF N, Good
    <3>1. i + 1 \in 0..N /\ i + 1 # 0 /\ (i + 1) - 1 = i
      BY <1>1, <2>1
    <3> QED
      BY <1>5, <3>1
  <2>3. CASE ~Match(pred, s[i + 1])
    <3>1. {k \in 1..(i + 1) : Match(pred, s[k])} = {k \in 1..i : Match(pred, s[k])}
      BY <2>3
    <3> QED
      BY <2>1, <2>2, <2>3, <3>1
  <2>4. CASE Match(pred, s[i + 1])
    <3>1. {k \in 1..(i + 1) : Match(pred, s[k])} = {k \in 1..i : Match(pred, s[k])} \cup {i + 1}
      BY <2>4
    <3>2. InOrder(s, R) => \A x \in DOMAIN rest[i] : <<rest[i][x], s[i + 1]>> \in R
      <4>1. \A k \in 1..i : k \in DOMAIN s /\ i + 1 \in DOMAIN s /\ k < i + 1
        BY <1>1, <2>1
      <4>2. InOrder(s, R) => \A k \in 1..i : <<s[k], s[i + 1]>> \in R
        BY <4>1 DEF InOrder
      <4>3. \A x \in DOMAIN rest[i] : rest[i][x] \in RangeOf(rest[i])
        BY DEF RangeOf
      <4> QED
        BY <2>1, <4>2, <4>3
    <3>3. InOrder(s, R) => InOrder(Append(rest[i], s[i + 1]), R)
      BY <2>1, <3>2, AppendInOrder
    <3>4. /\ Append(rest[i], s[i + 1]) \in Seq(A)
          /\ RangeOf(Append(rest[i], s[i + 1])) = RangeOf(rest[i]) \cup {s[i + 1]}
      BY <2>1, AppendIs
    <3> QED
      BY <2>1, <2>2, <2>4, <3>1, <3>3, <3>4
  <2> QED
    BY <2>3, <2>4
<1>9. Nat \subseteq T
  <2> HIDE DEF T
  <2> QED
    BY <1>7, <1>8, NatSets
<1>10. Good(N)
  <2>1. N \in T
    <3> HIDE DEF T, N
    <3> QED
      BY <1>1, <1>9
  <2>2. N <= N
    BY <1>1
  <2> HIDE DEF N, Good
  <2> QED
    BY <2>1, <2>2
<1> QED
  BY <1>0, <1>1, <1>6, <1>10

(* The loop of sort keeps the rows, and ends in the order R if R goes by   *)
(* what less says, and by the order that was where less says nothing.      *)
Sorts(s, column, desc, R) ==
  /\ \A i, j \in DOMAIN s : i < j /\ ~Logs!less(column, desc, s[j], s[i]) => <<s[i], s[j]>> \in R
  /\ \A a, b \in RangeOf(s) : Logs!less(column, desc, a, b) => <<a, b>> \in R
  /\ \A a, b, x \in RangeOf(s) :
       <<a, b>> \in R /\ ~Logs!less(column, desc, x, b) => ~Logs!less(column, desc, x, a)

(* One row more.                                                           *)
LEMMA InsertionIs ==
  ASSUME NEW A, NEW s \in Seq(A), NEW column, NEW desc, NEW R,
         NEW k \in DOMAIN s, NEW sorted \in Seq(A),
         RangeOf(sorted) \subseteq {s[j] : j \in {i \in DOMAIN s : i < k}}
  PROVE  /\ Logs!insertion(sorted, column, desc, s[k]) \in Seq(A)
         /\ RangeOf(Logs!insertion(sorted, column, desc, s[k])) = RangeOf(sorted) \cup {s[k]}
         /\ Sorts(s, column, desc, R) /\ InOrder(sorted, R)
            => InOrder(Logs!insertion(sorted, column, desc, s[k]), R)
<1> DEFINE N == Len(sorted)
           less(a, b) == Logs!less(column, desc, a, b)
           stay == {i \in DOMAIN sorted : ~less(s[k], sorted[i])}
           S == stay \cup {0}
           p == Logs!Max(S)
<1>0. Logs!insertion(sorted, column, desc, s[k]) = Logs!InsertAt(sorted, p + 1, s[k])
  BY DEF Logs!insertion
<1>1. N \in Nat /\ DOMAIN sorted = 1..N /\ s[k] \in A
  OBVIOUS
<1> HIDE DEF N
<1>2. S \subseteq 0..N /\ S # {}
  BY <1>1
<1>3. p \in S /\ \A i \in S : i <= p
  <2> HIDE DEF S
  <2> QED
    BY <1>1, <1>2, LastIs
<1> HIDE DEF p
<1>4. p \in 0..N
  BY <1>2, <1>3
<1>5. ASSUME Sorts(s, column, desc, R), NEW i \in 1..N
      PROVE  /\ sorted[i] \in RangeOf(s) /\ s[k] \in RangeOf(s)
             /\ ~less(s[k], sorted[i]) => <<sorted[i], s[k]>> \in R
             /\ less(s[k], sorted[i]) => <<s[k], sorted[i]>> \in R
  <2>1. sorted[i] \in RangeOf(sorted)
    BY <1>1 DEF RangeOf
  <2>2. PICK j \in DOMAIN s : j < k /\ sorted[i] = s[j]
    BY <2>1
  <2>3. s[j] \in RangeOf(s) /\ s[k] \in RangeOf(s)
    BY DEF RangeOf
  <2> QED
    BY <1>5, <2>2, <2>3 DEF Sorts
<1>6. ASSUME Sorts(s, column, desc, R), InOrder(sorted, R), NEW i \in 1..N
      PROVE  IF i <= p THEN <<sorted[i], s[k]>> \in R ELSE <<s[k], sorted[i]>> \in R
  <2>1. CASE i = p
    <3>1. ~less(s[k], sorted[i]) /\ i <= p
      BY <1>3, <1>4, <2>1
    <3> QED
      BY <1>5, <1>6, <3>1
  <2>2. CASE i < p
    <3>1. p \in 1..N /\ p \in stay /\ i <= p
      BY <1>3, <1>4, <2>2
    <3>2. <<sorted[i], sorted[p]>> \in R /\ ~less(s[k], sorted[p])
      BY <1>1, <1>6, <2>2, <3>1 DEF InOrder
    <3>3. ~less(s[k], sorted[i])
      BY <1>5, <1>6, <3>1, <3>2 DEF Sorts
    <3> QED
      BY <1>5, <1>6, <3>1, <3>3
  <2>3. CASE ~(i <= p)
    <3>1. i \notin S
      BY <1>3, <2>3
    <3>2. less(s[k], sorted[i])
      BY <1>1, <3>1
    <3> QED
      BY <1>5, <1>6, <2>3, <3>2
  <2>4. i = p \/ i < p \/ ~(i <= p)
    BY <1>4
  <2> QED
    BY <2>1, <2>2, <2>3, <2>4
<1> HIDE DEF less, stay, S
<1>7. /\ Logs!InsertAt(sorted, p + 1, s[k]) \in Seq(A)
      /\ RangeOf(Logs!InsertAt(sorted, p + 1, s[k])) = RangeOf(sorted) \cup {s[k]}
      /\ InOrder(sorted, R)
         /\ (\A i \in DOMAIN sorted :
               IF i <= p THEN <<sorted[i], s[k]>> \in R ELSE <<s[k], sorted[i]>> \in R)
         => InOrder(Logs!InsertAt(sorted, p + 1, s[k]), R)
  BY <1>1, <1>4, InsertInOrder DEF N
<1> QED
  BY <1>0, <1>1, <1>6, <1>7

LEMMA Sorted ==
  ASSUME NEW A, NEW s \in Seq(A), NEW column, NEW desc, NEW R
  PROVE  /\ Logs!SliceStable(s, column, desc) \in Seq(A)
         /\ RangeOf(Logs!SliceStable(s, column, desc)) = RangeOf(s)
         /\ Sorts(s, column, desc, R) => InOrder(Logs!SliceStable(s, column, desc), R)
<1> DEFINE N == Len(s)
           loop(f) == [i \in 0..N |-> IF i = 0 THEN <<>>
                                      ELSE Logs!insertion(f[i - 1], column, desc, s[i])]
           Before(i) == {s[j] : j \in {k \in DOMAIN s : k < i}}
           Good(t, i) == /\ t \in Seq(A)
                         /\ RangeOf(t) = Before(i + 1)
                         /\ Sorts(s, column, desc, R) => InOrder(t, R)
           step == [i \in 1..N |-> [t \in Seq(A) |->
                      IF Good(t, i - 1) THEN Logs!insertion(t, column, desc, s[i]) ELSE <<>>]]
           rest == CHOOSE g : g = loop(g)
<1>1. N \in Nat /\ DOMAIN s = 1..N /\ \A i \in 1..N : s[i] \in A
  OBVIOUS
<1>6. Logs!SliceStable(s, column, desc) = rest[N]
  BY DEF Logs!SliceStable
<1> HIDE DEF rest, loop, N
(* The rows before, sorted, and one more.                                  *)
<1>2. ASSUME NEW i \in 1..N, NEW t, Good(t, i - 1)
      PROVE  Good(Logs!insertion(t, column, desc, s[i]), i)
  <2>1. (i - 1) + 1 = i
    OBVIOUS
  <2>2. t \in Seq(A) /\ RangeOf(t) = Before(i) /\ (Sorts(s, column, desc, R) => InOrder(t, R))
    BY <1>2, <2>1
  <2>3. i \in DOMAIN s
    BY <1>1
  <2>4. /\ Logs!insertion(t, column, desc, s[i]) \in Seq(A)
        /\ RangeOf(Logs!insertion(t, column, desc, s[i])) = RangeOf(t) \cup {s[i]}
        /\ Sorts(s, column, desc, R) /\ InOrder(t, R)
           => InOrder(Logs!insertion(t, column, desc, s[i]), R)
    BY <2>2, <2>3, InsertionIs
  <2>5. Before(i + 1) = Before(i) \cup {s[i]}
    <3>1. \A k \in DOMAIN s : k < i + 1 <=> k < i \/ k = i
      BY <1>1
    <3> QED
      BY <2>3, <3>1
  <2> QED
    BY <2>2, <2>4, <2>5
<1>3. step \in [1..N -> [Seq(A) -> Seq(A)]]
  <2>1. ASSUME NEW i \in 1..N, NEW t \in Seq(A)
        PROVE  (IF Good(t, i - 1) THEN Logs!insertion(t, column, desc, s[i]) ELSE <<>>) \in Seq(A)
    <3>1. CASE Good(t, i - 1)
      <4>1. Good(Logs!insertion(t, column, desc, s[i]), i)
        BY <1>2, <3>1
      <4> QED
        BY <3>1, <4>1
    <3>2. CASE ~Good(t, i - 1)
      <4> HIDE DEF Good
      <4>1. <<>> \in Seq(A)
        OBVIOUS
      <4> QED
        BY <3>2, <4>1
    <3> QED
      BY <3>1, <3>2
  <2> HIDE DEF Good
  <2> QED
    BY <2>1
<1>4. PICK f : Makes(f, A, N, step)
  <2> HIDE DEF step
  <2> QED
    BY <1>1, <1>3, Loop
<1>5. f \in [0..N -> Seq(A)] /\ f[0] = <<>> /\ \A i \in 1..N : f[i] = step[i][f[i - 1]]
  BY <1>4 DEF Makes
<1>7. ASSUME NEW i \in 1..N
      PROVE  f[i] = IF Good(f[i - 1], i - 1)
                    THEN Logs!insertion(f[i - 1], column, desc, s[i]) ELSE <<>>
  <2>1. i - 1 \in 0..N
    BY <1>1
  <2>2. f[i - 1] \in Seq(A) /\ f[i] = step[i][f[i - 1]]
    BY <1>5, <2>1
  <2> HIDE DEF Good
  <2> QED
    BY <2>2
<1> DEFINE T == {i \in Nat : i <= N => Good(f[i], i)}
<1>8. 0 \in T
  <2>1. f[0] = <<>>
    BY <1>5
  <2>2. RangeOf(<<>>) = {} /\ InOrder(<<>>, R) /\ <<>> \in Seq(A)
    BY DEF RangeOf, InOrder
  <2>3. Before(0 + 1) = {}
    BY <1>1
  <2>4. Good(f[0], 0)
    BY <2>1, <2>2, <2>3
  <2> QED
    BY <2>4
<1>9. ASSUME NEW i \in Nat, i \in T PROVE i + 1 \in T
  <2> HIDE DEF Good
  <2> SUFFICES ASSUME i + 1 <= N PROVE Good(f[i + 1], i + 1)
    OBVIOUS
  <2>1. Good(f[i], i) /\ i + 1 \in 1..N /\ (i + 1) - 1 = i
    BY <1>1, <1>9
  <2>2. f[i + 1] = Logs!insertion(f[i], column, desc, s[i + 1])
    BY <1>7, <2>1
  <2>3. Good(Logs!insertion(f[i], column, desc, s[i + 1]), i + 1)
    BY <1>2, <2>1
  <2> QED
    BY <2>2, <2>3
<1>10. \A i \in 0..N : Good(f[i], i)
  <2>1. Nat \subseteq T
    <3> HIDE DEF T
    <3> QED
      BY <1>8, <1>9, NatSets
  <2> HIDE DEF Good
  <2> QED
    BY <1>1, <2>1
<1>11. f = loop(f)
  <2>1. ASSUME NEW i \in 1..N PROVE f[i] = Logs!insertion(f[i - 1], column, desc, s[i])
    <3>1. i - 1 \in 0..N
      BY <1>1
    <3>2. Good(f[i - 1], i - 1)
      BY <1>10, <3>1
    <3> HIDE DEF Good
    <3> QED
      BY <1>7, <3>2
  <2>2. DOMAIN f = 0..N /\ f[0] = <<>> /\ \A i \in 0..N : i # 0 => i \in 1..N
    BY <1>1, <1>5
  <2>3. f = [i \in 0..N |-> f[i]]
    BY <1>5
  <2> QED
    BY <2>1, <2>2, <2>3 DEF loop
<1>12. rest = loop(rest)
  BY <1>11 DEF rest
<1> DEFINE U == {i \in Nat : i <= N => rest[i] = f[i]}
<1>13. 0 \in U
  <2>1. rest[0] = <<>>
    BY <1>1, <1>12 DEF loop
  <2> QED
    BY <1>5, <2>1
<1>14. ASSUME NEW i \in Nat, i \in U PROVE i + 1 \in U
  <2> SUFFICES ASSUME i + 1 <= N PROVE rest[i + 1] = f[i + 1]
    OBVIOUS
  <2>1. rest[i] = f[i] /\ i + 1 \in 0..N /\ i + 1 # 0 /\ (i + 1) - 1 = i
    BY <1>1, <1>14
  <2>2. \A h : h = loop(h) => h[i + 1] = Logs!insertion(h[i], column, desc, s[i + 1])
    BY <2>1 DEF loop
  <2> QED
    BY <1>11, <1>12, <2>1, <2>2
<1>15. rest[N] = f[N]
  <2>1. Nat \subseteq U
    <3> HIDE DEF U
    <3> QED
      BY <1>13, <1>14, NatSets
  <2> QED
    BY <1>1, <2>1
<1>16. Good(f[N], N)
  <2> HIDE DEF Good
  <2>1. N \in 0..N
    BY <1>1
  <2> QED
    BY <1>10, <2>1
<1>17. Before(N + 1) = RangeOf(s)
  BY <1>1 DEF RangeOf
<1> QED
  BY <1>6, <1>15, <1>16, <1>17

-----------------------------------------------------------------------------
(* The order of two of the rows sn that a query has copied, by the orders  *)
(* os: Precedes of any query.                                              *)
Ahead(sn, o, a, b) ==
  LET v == sn[a].cells[o.column]
      w == sn[b].cells[o.column]
  IN  IF o.desc THEN v.n > w.n ELSE v.n < w.n
Telling(sn, os, a, b) == {i \in DOMAIN os : Ahead(sn, os[i], a, b) \/ Ahead(sn, os[i], b, a)}
Prec(sn, os, a, b) ==
  IF Telling(sn, os, a, b) = {} THEN a < b ELSE Ahead(sn, os[Logs!Min(Telling(sn, os, a, b))], a, b)

Order == [column : Column, desc : BOOLEAN]

(* The rows of ids have numbers to be ordered by.                          *)
Comparable(sn, os, ids) ==
  /\ os \in Seq(Order)
  /\ ids \subseteq Nat
  /\ \A k \in DOMAIN os, x \in ids : sn[x].cells[os[k].column].n \in Int

LEMMA PrecedesIs ==
  ASSUME NEW a, NEW b
  PROVE  Logs!Precedes(a, b) <=> Prec(seen, sorts, a, b)
BY DEF Logs!Precedes, Prec, Telling, Ahead

LEMMA PrecedesOne ==
  ASSUME NEW sn, NEW os, NEW ids, Comparable(sn, os, ids), NEW a \in ids, NEW b \in ids
  PROVE  ~(Prec(sn, os, a, b) /\ Prec(sn, os, b, a))
<1> DEFINE T == Telling(sn, os, a, b)
<1>1. T = Telling(sn, os, b, a)
  BY DEF Telling
<1>2. CASE T = {}
  <2>1. a \in Nat /\ b \in Nat
    BY DEF Comparable
  <2>2. ~(a < b /\ b < a)
    BY <2>1
  <2> HIDE DEF T
  <2> QED
    BY <1>1, <1>2, <2>2 DEF Prec, T
<1>3. CASE T # {}
  <2>1. T \subseteq Nat /\ T \subseteq DOMAIN os
    BY DEF Telling, Comparable
  <2> HIDE DEF T
  <2>2. Logs!Min(T) \in DOMAIN os
    BY <1>3, <2>1, FirstIs
  <2> DEFINE o == os[Logs!Min(T)]
  <2>3. sn[a].cells[o.column].n \in Int /\ sn[b].cells[o.column].n \in Int
    BY <2>2 DEF Comparable
  <2> HIDE DEF o
  <2>4. ~(Ahead(sn, o, a, b) /\ Ahead(sn, o, b, a))
    BY <2>3 DEF Ahead
  <2> QED
    BY <1>1, <1>3, <2>4 DEF Prec, T, o
<1> QED
  BY <1>2, <1>3

(* An order put in front decides where it tells two rows apart.            *)
LEMMA PrecedesCons ==
  ASSUME NEW sn, NEW os, NEW o, NEW ids, Comparable(sn, os, ids), NEW a \in ids, NEW b \in ids,
         o \in Order, \A x \in ids : sn[x].cells[o.column].n \in Int
  PROVE  /\ Comparable(sn, <<o>> \o os, ids)
         /\ Prec(sn, <<o>> \o os, a, b)
            <=> Ahead(sn, o, a, b) \/ (~Ahead(sn, o, b, a) /\ Prec(sn, os, a, b))
<1> DEFINE t == <<o>> \o os
           N == Len(os)
           old == Telling(sn, os, a, b)
           new == Telling(sn, t, a, b)
<1>1. os \in Seq(Order) /\ N \in Nat /\ DOMAIN os = 1..N
  BY DEF Comparable
<1>2. t \in Seq(Order) /\ DOMAIN t = 1..(N + 1) /\ t[1] = o /\ \A i \in 1..N : t[i + 1] = os[i]
  <2>1. <<o>> \in Seq(Order) /\ Len(<<o>>) = 1 /\ <<o>>[1] = o
    OBVIOUS
  <2>2. /\ t \in Seq(Order) /\ Len(t) = 1 + N
        /\ \A i \in 1..(1 + N) : t[i] = IF i <= 1 THEN <<o>>[i] ELSE os[i - 1]
    BY <1>1, <2>1, ConcatProperties
  <2> HIDE DEF N, t
  <2>3. DOMAIN t = 1..(N + 1) /\ 1 \in 1..(1 + N)
    BY <1>1, <2>2
  <2>4. ASSUME NEW i \in 1..N PROVE t[i + 1] = os[i]
    <3>1. i + 1 \in 1..(1 + N) /\ ~(i + 1 <= 1) /\ (i + 1) - 1 = i
      BY <1>1
    <3> QED
      BY <2>2, <3>1
  <2> QED
    BY <2>1, <2>2, <2>3, <2>4
<1> HIDE DEF t, N
<1>3. Comparable(sn, t, ids)
  <2>1. ASSUME NEW k \in DOMAIN t PROVE k = 1 \/ (k - 1 \in 1..N /\ t[k] = os[k - 1])
    <3>1. k = 1 \/ (k - 1 \in 1..N /\ (k - 1) + 1 = k)
      BY <1>1, <1>2
    <3> QED
      BY <1>2, <3>1
  <2>2. ASSUME NEW k \in DOMAIN t, NEW x \in ids PROVE sn[x].cells[t[k].column].n \in Int
    BY <1>1, <1>2, <2>1 DEF Comparable
  <2> QED
    BY <1>2, <2>2 DEF Comparable
<1>4. ~(Ahead(sn, o, a, b) /\ Ahead(sn, o, b, a))
  BY DEF Ahead, Order
<1>5. new \subseteq Nat /\ old \subseteq Nat
  BY <1>1, <1>2 DEF Telling
<1>6. \A i \in 1..(N + 1) : i \in new <=> Ahead(sn, t[i], a, b) \/ Ahead(sn, t[i], b, a)
  BY <1>2 DEF Telling
<1>7. \A i \in 1..N : i + 1 \in new <=> i \in old
  <2> SUFFICES ASSUME NEW i \in 1..N PROVE i + 1 \in new <=> i \in old
    OBVIOUS
  <2>1. i + 1 \in 1..(N + 1)
    BY <1>1
  <2>2. i \in old <=> Ahead(sn, os[i], a, b) \/ Ahead(sn, os[i], b, a)
    BY <1>1 DEF Telling
  <2> QED
    BY <1>2, <1>6, <2>1, <2>2
<1>8. new \subseteq 1..(N + 1) /\ old \subseteq 1..N
  BY <1>1, <1>2 DEF Telling
<1>9. Prec(sn, os, a, b) <=> IF old = {} THEN a < b ELSE Ahead(sn, os[Logs!Min(old)], a, b)
  BY DEF Prec
<1>10. Prec(sn, t, a, b) <=> IF new = {} THEN a < b ELSE Ahead(sn, t[Logs!Min(new)], a, b)
  BY DEF Prec
<1> HIDE DEF old, new
<1>11. CASE 1 \in new
  <2>1. Logs!Min(new) = 1
    <3>1. Logs!Min(new) \in new /\ Logs!Min(new) <= 1
      BY <1>5, <1>11, FirstIs
    <3> DEFINE k == Logs!Min(new)
    <3>2. k \in 1..(N + 1) /\ k <= 1
      BY <1>8, <3>1
    <3> HIDE DEF k
    <3>3. k = 1
      BY <1>1, <3>2
    <3> QED
      BY <3>3 DEF k
  <2>2. Prec(sn, t, a, b) <=> Ahead(sn, o, a, b)
    BY <1>2, <1>10, <1>11, <2>1
  <2>3. Ahead(sn, o, a, b) \/ Ahead(sn, o, b, a)
    BY <1>1, <1>2, <1>6, <1>11
  <2> QED
    BY <1>3, <1>4, <2>2, <2>3 DEF t
<1>12. CASE 1 \notin new
  <2>1. ~Ahead(sn, o, a, b) /\ ~Ahead(sn, o, b, a)
    BY <1>1, <1>2, <1>6, <1>12
  <2>2. \A k \in new : k - 1 \in old /\ k - 1 \in 1..N
    <3> SUFFICES ASSUME NEW k \in new PROVE k - 1 \in old /\ k - 1 \in 1..N
      OBVIOUS
    <3>1. k - 1 \in 1..N /\ (k - 1) + 1 = k
      BY <1>1, <1>8, <1>12
    <3> QED
      BY <1>7, <3>1
  <2>3. CASE old = {}
    <3>1. new = {}
      BY <2>2, <2>3
    <3> QED
      BY <1>3, <1>9, <1>10, <2>1, <2>3, <3>1 DEF t
  <2>4. CASE old # {}
    <3>1. /\ Logs!Min(old) \in old /\ Logs!Min(old) \in 1..N
          /\ \A i \in old : Logs!Min(old) <= i
      BY <1>5, <1>8, <2>4, FirstIs
    <3>2. Logs!Min(old) + 1 \in new
      BY <1>7, <3>1
    <3>3. Logs!Min(new) \in new /\ \A i \in new : Logs!Min(new) <= i
      BY <1>5, <3>2, FirstIs
    <3>4. Logs!Min(new) - 1 \in old /\ Logs!Min(new) - 1 \in 1..N /\ Logs!Min(new) \in Nat
      BY <1>5, <2>2, <3>3
    <3>5. Logs!Min(new) <= Logs!Min(old) + 1 /\ Logs!Min(old) <= Logs!Min(new) - 1
      BY <3>1, <3>2, <3>3, <3>4
    <3> DEFINE m == Logs!Min(old)
               k == Logs!Min(new)
    <3>6. k = m + 1
      <4>1. m \in Nat /\ k \in Nat /\ k <= m + 1 /\ m <= k - 1
        BY <1>1, <3>1, <3>4, <3>5
      <4> HIDE DEF m, k
      <4> QED
        BY <4>1
    <3>7. t[k] = os[m]
      <4> HIDE DEF m, k
      <4>1. m \in 1..N
        BY <3>1 DEF m
      <4> QED
        BY <1>2, <3>6, <4>1
    <3>8. Prec(sn, t, a, b) <=> Prec(sn, os, a, b)
      BY <1>9, <1>10, <2>4, <3>2, <3>7
    <3> QED
      BY <1>3, <2>1, <3>8 DEF t
  <2> QED
    BY <2>3, <2>4
<1> QED
  BY <1>11, <1>12

-----------------------------------------------------------------------------
(* The inductive invariant: a query's rows are among those it has copied,  *)
(* with their cells or without, and it has those it should, in the order   *)
(* its sorts say, as long as they say one.                                 *)
PrecSet(sn, os) ==
  {p \in Logs!AnyRow \X Logs!AnyRow : Prec(sn, os, p[1].id, p[2].id)}

FromSeen(rs, sn) ==
  \A r \in RangeOf(rs) : /\ r.id \in DOMAIN sn
                         /\ \A c \in Column : r.cells[c] \in {None, sn[r.id].cells[c]}

Ordered(rs, sn, os, ids) ==
  Comparable(sn, os, ids) /\ IdsOf(RangeOf(rs)) = ids /\ InOrder(rs, PrecSet(sn, os))

TableOK(tb) == tb \in Seq(Logs!AnyRow) /\ \A i \in DOMAIN tb : tb[i].id = i

QueryOK(rs, sn, os, ids) ==
  /\ sn \in Seq(Logs!AnyRow)
  /\ rs \in Seq(Logs!AnyRow)
  /\ FromSeen(rs, sn)
  /\ os # None => Ordered(rs, sn, os, ids)

LogInv ==
  /\ table # None => TableOK(table)
  /\ IF rows = None THEN sorts = <<>> ELSE QueryOK(rows, seen, sorts, said)

LEMMA LogTypes ==
  /\ Record \subseteq [Column -> Logs!Literals \cup {None}]
  /\ \A v \in Logs!Literals : v.n \in Int /\ v # None
  /\ \A s \in Seq(Logs!AnyRow) : s # None
BY LogsAssumption DEF Logs!LogAssumption, Logs!Literals

LEMMA InOrderIs ==
  ASSUME NEW rs \in Seq(Logs!AnyRow), NEW sn, NEW os
  PROVE  InOrder(rs, PrecSet(sn, os))
         <=> \A i, j \in DOMAIN rs : i < j => Prec(sn, os, rs[i].id, rs[j].id)
<1>1. \A i \in DOMAIN rs : rs[i] \in Logs!AnyRow
  OBVIOUS
<1> QED
  BY <1>1 DEF InOrder, PrecSet

LEMMA LogInit == Logs!Init => LogInv
BY DEF Logs!Init, LogInv

LEMMA IngestStep ==
  ASSUME LogInv, NEW record \in Record, Logs!Ingest(record)
  PROVE  LogInv'
<1> DEFINE old == IF table = None THEN <<>> ELSE table
<1>1. TableOK(old)
  BY DEF LogInv, TableOK
<1>2. old \in Seq(Logs!AnyRow) /\ \A i \in DOMAIN old : old[i].id = i
  BY <1>1 DEF TableOK
<1> DEFINE new == Logs!Row(Len(old) + 1, record)
<1>3. table' = Append(old, new) /\ UNCHANGED <<rows, seen, said, sorts>>
  BY DEF Logs!Ingest
<1> HIDE DEF old
<1>4. new \in Logs!AnyRow /\ new.id = Len(old) + 1
  <2>1. Len(old) + 1 \in Nat
    BY <1>2
  <2> QED
    BY <2>1, LogTypes DEF Logs!Row, Logs!AnyRow
<1> HIDE DEF new
<1>5. /\ Append(old, new) \in Seq(Logs!AnyRow)
      /\ DOMAIN Append(old, new) = DOMAIN old \cup {Len(old) + 1}
      /\ \A i \in DOMAIN old : Append(old, new)[i] = old[i]
      /\ Append(old, new)[Len(old) + 1] = new
  BY <1>2, <1>4, AppendIs
<1>6. TableOK(table')
  BY <1>2, <1>3, <1>4, <1>5 DEF TableOK
<1> QED
  BY <1>3, <1>6 DEF LogInv

LEMMA RowsStep ==
  ASSUME LogInv, Logs!Rows
  PROVE  LogInv'
<1>1. /\ rows' = table /\ seen' = table /\ said' = DOMAIN table /\ sorts' = <<>>
      /\ table' = table /\ table # None
  BY DEF Logs!Rows, LogInv
<1>2. table \in Seq(Logs!AnyRow) /\ \A i \in DOMAIN table : table[i].id = i
  BY <1>1 DEF LogInv, TableOK
<1>3. FromSeen(table, table)
  BY <1>2 DEF FromSeen, RangeOf
<1>4. IdsOf(RangeOf(table)) = DOMAIN table
  BY <1>2 DEF IdsOf, RangeOf
<1>5. DOMAIN table \subseteq Nat
  BY <1>2
<1>6. Comparable(table, <<>>, DOMAIN table)
  BY <1>5 DEF Comparable
<1>7. InOrder(table, PrecSet(table, <<>>))
  <2>1. \A a, b : Prec(table, <<>>, a, b) <=> a < b
    BY DEF Prec, Telling
  <2> QED
    BY <1>2, <2>1, InOrderIs
<1>8. QueryOK(table, table, <<>>, DOMAIN table)
  BY <1>2, <1>3, <1>4, <1>6, <1>7 DEF QueryOK, Ordered
<1>9. TableOK(table)
  BY <1>2 DEF TableOK
<1> QED
  BY <1>1, <1>8, <1>9 DEF LogInv

LEMMA AnswerStep ==
  ASSUME LogInv, Logs!Answer
  PROVE  LogInv'
BY DEF Logs!Answer, LogInv

(* What a stage has to show.                                               *)
LEMMA StageStep ==
  ASSUME LogInv, Logs!applyStage, NEW ids, NEW orders, Logs!Say(ids, orders),
         rows' \in Seq(Logs!AnyRow), FromSeen(rows', seen),
         sorts # None /\ orders # None => Ordered(rows', seen, orders, ids)
  PROVE  LogInv'
<1>1. rows # None /\ table' = table /\ seen' = seen /\ rows' # None
  BY LogTypes DEF Logs!applyStage
<1>2. sorts' # None => sorts # None /\ orders # None /\ sorts' = orders /\ said' = ids
  BY DEF Logs!Say
<1>3. seen \in Seq(Logs!AnyRow)
  BY <1>1 DEF LogInv, QueryOK
<1>4. QueryOK(rows', seen, sorts', said')
  BY <1>2, <1>3 DEF QueryOK
<1> QED
  BY <1>1, <1>4 DEF LogInv

LEMMA WhereStep ==
  ASSUME LogInv, NEW pred \in Expr, Logs!applyWhere(pred)
  PROVE  LogInv'
<1> DEFINE J == {j \in DOMAIN rows : Logs!Says(pred, rows[j].cells)}
           meant == {rows[i].id : i \in J}
           R == PrecSet(seen, sorts)
<1>1. Logs!applyStage /\ rows' = Matching(pred, rows) /\ Logs!Say(meant \cap said, sorts)
  BY DEF Logs!applyWhere, Matching, Match
<1>2. QueryOK(rows, seen, sorts, said)
  BY <1>1 DEF Logs!applyStage, LogInv
<1>3. rows \in Seq(Logs!AnyRow) /\ FromSeen(rows, seen)
  BY <1>2 DEF QueryOK
<1>4. /\ rows' \in Seq(Logs!AnyRow)
      /\ RangeOf(rows') = {rows[k] : k \in J}
      /\ InOrder(rows, R) => InOrder(rows', R)
  BY <1>1, <1>3, Matched
<1>5. RangeOf(rows') \subseteq RangeOf(rows) /\ IdsOf(RangeOf(rows')) = meant
  <2>1. J \subseteq DOMAIN rows
    OBVIOUS
  <2> HIDE DEF J
  <2>2. {rows[k] : k \in J} \subseteq RangeOf(rows)
    BY <2>1 DEF RangeOf
  <2>3. IdsOf({rows[k] : k \in J}) = meant
    BY DEF IdsOf
  <2> QED
    BY <1>4, <2>2, <2>3
<1>6. FromSeen(rows', seen)
  BY <1>3, <1>5 DEF FromSeen
<1>7. ASSUME sorts # None PROVE Ordered(rows', seen, sorts, meant \cap said)
  <2>1. Comparable(seen, sorts, said) /\ IdsOf(RangeOf(rows)) = said /\ InOrder(rows, R)
    BY <1>2, <1>7 DEF QueryOK, Ordered
  <2>2. meant \cap said = meant
    BY <1>5, <2>1 DEF IdsOf
  <2>3. Comparable(seen, sorts, meant \cap said)
    BY <2>1 DEF Comparable
  <2> QED
    BY <1>4, <1>5, <2>1, <2>2, <2>3 DEF Ordered
<1> HIDE DEF meant
<1> QED
  BY <1>1, <1>4, <1>6, <1>7, StageStep

LEMMA ProjectStep ==
  ASSUME LogInv, NEW columns \in SUBSET Column, Logs!applyProject(columns)
  PROVE  LogInv'
<1> DEFINE Left(r) == Logs!Row(r.id, [c \in Column |-> IF c \in columns THEN r.cells[c] ELSE None])
           rest == [i \in DOMAIN rows |-> Left(rows[i])]
<1>1. Logs!applyStage /\ rows' = rest /\ Logs!Say(said, sorts)
  BY DEF Logs!applyProject
<1>2. QueryOK(rows, seen, sorts, said)
  BY <1>1 DEF Logs!applyStage, LogInv
<1>3. rows \in Seq(Logs!AnyRow) /\ FromSeen(rows, seen)
  BY <1>2 DEF QueryOK
<1>4. ASSUME NEW r \in Logs!AnyRow
      PROVE  /\ Left(r) \in Logs!AnyRow /\ Left(r).id = r.id
             /\ \A c \in Column : Left(r).cells[c] \in {None, r.cells[c]}
  <2>1. r.id \in Nat /\ r.cells \in [Column -> Logs!Literals \cup {None}]
    BY DEF Logs!AnyRow
  <2> QED
    BY <2>1 DEF Logs!Row, Logs!AnyRow
<1> HIDE DEF Left
<1>5. \A i \in DOMAIN rows : rows[i] \in Logs!AnyRow
  BY <1>3
<1>6. rest \in Seq(Logs!AnyRow) /\ DOMAIN rest = DOMAIN rows /\ \A i \in DOMAIN rows : rest[i] = Left(rows[i])
  <2>1. Len(rows) \in Nat /\ DOMAIN rows = 1..Len(rows)
    BY <1>3
  <2>2. rest \in [1..Len(rows) -> Logs!AnyRow]
    BY <1>4, <1>5, <2>1
  <2> QED
    BY <2>1, <2>2
<1> HIDE DEF rest
<1>7. FromSeen(rest, seen)
  <2> SUFFICES ASSUME NEW i \in DOMAIN rows
               PROVE  /\ rest[i].id \in DOMAIN seen
                      /\ \A c \in Column : rest[i].cells[c] \in {None, seen[rest[i].id].cells[c]}
    BY <1>6 DEF FromSeen, RangeOf
  <2>1. /\ rows[i].id \in DOMAIN seen
        /\ \A c \in Column : rows[i].cells[c] \in {None, seen[rows[i].id].cells[c]}
    BY <1>3 DEF FromSeen, RangeOf
  <2>2. /\ rest[i].id = rows[i].id
        /\ \A c \in Column : rest[i].cells[c] \in {None, rows[i].cells[c]}
    BY <1>4, <1>5, <1>6
  <2> QED
    BY <2>1, <2>2
<1>8. ASSUME sorts # None PROVE Ordered(rest, seen, sorts, said)
  <2>1. /\ Comparable(seen, sorts, said) /\ IdsOf(RangeOf(rows)) = said
        /\ InOrder(rows, PrecSet(seen, sorts))
    BY <1>2, <1>8 DEF QueryOK, Ordered
  <2>2. \A i \in DOMAIN rows : rest[i].id = rows[i].id
    BY <1>4, <1>5, <1>6
  <2>3. IdsOf(RangeOf(rest)) = IdsOf(RangeOf(rows))
    BY <1>6, <2>2 DEF IdsOf, RangeOf
  <2>4. InOrder(rest, PrecSet(seen, sorts))
    BY <1>3, <1>6, <2>1, <2>2, InOrderIs
  <2> QED
    BY <2>1, <2>3, <2>4 DEF Ordered
<1> QED
  BY <1>1, <1>6, <1>7, <1>8, StageStep

-----------------------------------------------------------------------------
(* sort: what less says of rows without a value, and of rows with.         *)
LEMMA LessIs ==
  ASSUME NEW column, NEW desc \in BOOLEAN, NEW a, NEW b
  PROVE  /\ a.cells[column] = None \/ b.cells[column] = None => ~Logs!less(column, desc, a, b)
         /\ /\ Logs!Alike(a.cells[column], b.cells[column])
            /\ a.cells[column].n \in Int /\ b.cells[column].n \in Int
            => (Logs!less(column, desc, a, b)
                <=> IF desc THEN a.cells[column].n > b.cells[column].n
                    ELSE a.cells[column].n < b.cells[column].n)
<1> DEFINE v == a.cells[column]
           w == b.cells[column]
           cmp == Logs!compareValues(v, w)
<1>1. Logs!less(column, desc, a, b) <=> IF desc THEN ~(cmp < 0) /\ cmp # 0 ELSE cmp < 0
  BY DEF Logs!less
<1>2. v = None \/ w = None => cmp = 0
  BY DEF Logs!compareValues, Logs!Alike
<1>3. Logs!Alike(v, w) /\ v.n \in Int /\ w.n \in Int
      => cmp = IF v.n < w.n THEN -1 ELSE IF v.n = w.n THEN 0 ELSE 1
  BY DEF Logs!compareValues
<1> HIDE DEF v, w, cmp
<1>4. v = None \/ w = None => ~Logs!less(column, desc, a, b)
  BY <1>1, <1>2
<1>5. Logs!Alike(v, w) /\ v.n \in Int /\ w.n \in Int
      => (Logs!less(column, desc, a, b) <=> IF desc THEN v.n > w.n ELSE v.n < w.n)
  BY <1>1, <1>3
<1> QED
  BY <1>4, <1>5 DEF v, w

(* Sorting by a column without a value, and by one whose values are alike. *)
LEMMA SortsNothing ==
  ASSUME NEW rs, NEW column, NEW desc \in BOOLEAN, NEW R, InOrder(rs, R),
         \A r \in RangeOf(rs) : r.cells[column] = None
  PROVE  Sorts(rs, column, desc, R)
<1>1. \A a, b \in RangeOf(rs) : ~Logs!less(column, desc, a, b)
  BY LessIs
<1>2. \A i, j \in DOMAIN rs : i < j => <<rs[i], rs[j]>> \in R
  BY DEF InOrder
<1> QED
  BY <1>1, <1>2 DEF Sorts

LEMMA SortsAlike ==
  ASSUME NEW rs, NEW sn, NEW os, QueryOK(rs, sn, os, IdsOf(RangeOf(rs))), os # None,
         NEW column \in Column, NEW desc \in BOOLEAN,
         \A a, b \in RangeOf(rs) : Logs!Alike(a.cells[column], b.cells[column])
  PROVE  /\ Comparable(sn, <<[column |-> column, desc |-> desc]>> \o os, IdsOf(RangeOf(rs)))
         /\ Sorts(rs, column, desc, PrecSet(sn, <<[column |-> column, desc |-> desc]>> \o os))
<1> DEFINE o == [column |-> column, desc |-> desc]
           new == <<o>> \o os
           R == PrecSet(sn, new)
           ids == IdsOf(RangeOf(rs))
<1>1. /\ sn \in Seq(Logs!AnyRow) /\ rs \in Seq(Logs!AnyRow) /\ FromSeen(rs, sn)
      /\ Comparable(sn, os, ids) /\ InOrder(rs, PrecSet(sn, os))
  BY DEF QueryOK, Ordered
<1>2. o \in Order /\ o.column = column /\ o.desc = desc
  BY DEF Order
<1>3. \A r \in RangeOf(rs) : r \in Logs!AnyRow /\ r.id \in ids
  BY <1>1 DEF RangeOf, IdsOf
<1>4. ASSUME NEW r \in RangeOf(rs)
      PROVE  /\ r.cells[column] = sn[r.id].cells[column]
             /\ r.cells[column].n \in Int
  <2>1. r.cells[column] # None
    BY DEF Logs!Alike
  <2>2. r.cells[column] = sn[r.id].cells[column]
    BY <1>1, <2>1 DEF FromSeen
  <2>3. r.cells[column] \in Logs!Literals
    BY <1>3, <2>1 DEF Logs!AnyRow
  <2> QED
    BY <2>2, <2>3, LogTypes
<1>5. \A x \in ids : sn[x].cells[o.column].n \in Int
  BY <1>2, <1>4 DEF IdsOf
<1> HIDE DEF o
<1>6. ASSUME NEW a \in RangeOf(rs), NEW b \in RangeOf(rs)
      PROVE  Logs!less(column, desc, a, b) <=> Ahead(sn, o, a.id, b.id)
  <2>1. Logs!Alike(a.cells[column], b.cells[column])
    OBVIOUS
  <2>2. Logs!less(column, desc, a, b)
          <=> IF desc THEN a.cells[column].n > b.cells[column].n
              ELSE a.cells[column].n < b.cells[column].n
    BY <1>4, <2>1, LessIs
  <2> QED
    BY <1>2, <1>4, <2>2 DEF Ahead
<1>7. ASSUME NEW a \in RangeOf(rs), NEW b \in RangeOf(rs)
      PROVE  <<a, b>> \in R <=> \/ Ahead(sn, o, a.id, b.id)
                                \/ ~Ahead(sn, o, b.id, a.id) /\ Prec(sn, os, a.id, b.id)
  <2>1. a.id \in ids /\ b.id \in ids /\ a \in Logs!AnyRow /\ b \in Logs!AnyRow
    BY <1>3
  <2>2. Prec(sn, new, a.id, b.id)
          <=> Ahead(sn, o, a.id, b.id) \/ (~Ahead(sn, o, b.id, a.id) /\ Prec(sn, os, a.id, b.id))
    <3> HIDE DEF ids
    <3> QED
      BY <1>1, <1>2, <1>5, <2>1, PrecedesCons
  <2> HIDE DEF new
  <2> QED
    BY <2>1, <2>2 DEF PrecSet
<1>8. Comparable(sn, new, ids)
  <2>1. CASE ids = {}
    <3>1. <<o>> \o os \in Seq(Order)
      <4>1. <<o>> \in Seq(Order) /\ os \in Seq(Order)
        BY <1>1, <1>2 DEF Comparable
      <4> QED
        BY <4>1, ConcatProperties
    <3> QED
      BY <2>1, <3>1 DEF Comparable
  <2>2. CASE ids # {}
    <3> HIDE DEF ids
    <3> QED
      BY <1>1, <1>2, <1>5, <2>2, PrecedesCons
  <2> QED
    BY <2>1, <2>2
<1> HIDE DEF R, new
<1>9. ASSUME NEW i \in DOMAIN rs, NEW j \in DOMAIN rs, i < j, ~Logs!less(column, desc, rs[j], rs[i])
      PROVE  <<rs[i], rs[j]>> \in R
  <2>1. rs[i] \in RangeOf(rs) /\ rs[j] \in RangeOf(rs)
    BY DEF RangeOf
  <2>2. Prec(sn, os, rs[i].id, rs[j].id)
    BY <1>1, <1>9, InOrderIs
  <2> QED
    BY <1>6, <1>7, <1>9, <2>1, <2>2
<1>10. \A a, b \in RangeOf(rs) : Logs!less(column, desc, a, b) => <<a, b>> \in R
  BY <1>6, <1>7
<1>11. ASSUME NEW a \in RangeOf(rs), NEW b \in RangeOf(rs), NEW x \in RangeOf(rs),
              <<a, b>> \in R, ~Logs!less(column, desc, x, b)
       PROVE  ~Logs!less(column, desc, x, a)
  <2> DEFINE A(r) == sn[r.id].cells[o.column].n
  <2>1. A(a) \in Int /\ A(b) \in Int /\ A(x) \in Int
    BY <1>3, <1>5
  <2>2. ~Ahead(sn, o, x.id, b.id) /\ (Ahead(sn, o, a.id, b.id) \/ ~Ahead(sn, o, b.id, a.id))
    BY <1>6, <1>7, <1>11
  <2>3. \A r, s : Ahead(sn, o, r.id, s.id) <=> IF o.desc THEN A(r) > A(s) ELSE A(r) < A(s)
    BY DEF Ahead
  <2> HIDE DEF A
  <2>4. ~Ahead(sn, o, x.id, a.id)
    BY <2>1, <2>2, <2>3
  <2> QED
    BY <1>6, <2>4
<1> QED
  BY <1>8, <1>9, <1>10, <1>11 DEF Sorts, R, new, o

LEMMA SortStep ==
  ASSUME LogInv, NEW column \in Column, NEW desc \in BOOLEAN, Logs!applySort(column, desc)
  PROVE  LogInv'
<1> DEFINE cells == {rows[i].cells[column] : i \in DOMAIN rows}
           o == [column |-> column, desc |-> desc]
           orders == IF cells \subseteq {None} THEN sorts
                     ELSE IF \A v, w \in cells : Logs!Alike(v, w) THEN <<o>> \o sorts ELSE None
           R == PrecSet(seen, orders)
<1>1. Logs!applyStage /\ rows' = Logs!SliceStable(rows, column, desc) /\ Logs!Say(said, orders)
  BY DEF Logs!applySort
<1>2. QueryOK(rows, seen, sorts, said)
  BY <1>1 DEF Logs!applyStage, LogInv
<1>3. rows \in Seq(Logs!AnyRow) /\ FromSeen(rows, seen)
  BY <1>2 DEF QueryOK
<1>4. \A r \in RangeOf(rows) : r.cells[column] \in cells
  BY DEF RangeOf
<1> HIDE DEF cells
<1>5. /\ rows' \in Seq(Logs!AnyRow)
      /\ RangeOf(rows') = RangeOf(rows)
      /\ Sorts(rows, column, desc, R) => InOrder(rows', R)
  <2> HIDE DEF R
  <2> QED
    BY <1>1, <1>3, Sorted
<1>6. FromSeen(rows', seen)
  BY <1>3, <1>5 DEF FromSeen
<1>7. ASSUME sorts # None, orders # None PROVE Ordered(rows', seen, orders, said)
  <2>1. Comparable(seen, sorts, said) /\ IdsOf(RangeOf(rows)) = said /\ InOrder(rows, PrecSet(seen, sorts))
    BY <1>2, <1>7 DEF QueryOK, Ordered
  <2>2. Comparable(seen, orders, said) /\ Sorts(rows, column, desc, R)
    <3>1. CASE cells \subseteq {None}
      <4>1. orders = sorts
        BY <3>1
      <4>2. \A r \in RangeOf(rows) : r.cells[column] = None
        BY <1>4, <3>1
      <4> HIDE DEF orders
      <4>3. Sorts(rows, column, desc, R)
        BY <2>1, <4>1, <4>2, SortsNothing
      <4> QED
        BY <2>1, <4>1, <4>3
    <3>2. CASE ~(cells \subseteq {None})
      <4>1. orders = <<o>> \o sorts /\ \A v, w \in cells : Logs!Alike(v, w)
        BY <1>7, <3>2
      <4>2. \A a, b \in RangeOf(rows) : Logs!Alike(a.cells[column], b.cells[column])
        BY <1>4, <4>1
      <4> HIDE DEF orders
      <4>3. /\ Comparable(seen, <<o>> \o sorts, IdsOf(RangeOf(rows)))
            /\ Sorts(rows, column, desc, PrecSet(seen, <<o>> \o sorts))
        BY <1>2, <1>7, <2>1, <4>2, SortsAlike
      <4> QED
        BY <2>1, <4>1, <4>3
    <3> QED
      BY <3>1, <3>2
  <2> HIDE DEF orders
  <2> QED
    BY <1>5, <2>1, <2>2 DEF Ordered
<1> HIDE DEF orders
<1> QED
  BY <1>1, <1>5, <1>6, <1>7, StageStep

-----------------------------------------------------------------------------
(* take: as many rows precede the row at k as stand before it.             *)
LEMMA PrecedeCount ==
  ASSUME NEW rs, NEW sn, NEW os, rs \in Seq(Logs!AnyRow), NEW ids, Ordered(rs, sn, os, ids),
         NEW k \in DOMAIN rs
  PROVE  Cardinality({a \in ids : Prec(sn, os, a, rs[k].id)}) = k - 1
<1> DEFINE N == Len(rs)
           P == {a \in ids : Prec(sn, os, a, rs[k].id)}
           D == 1..(k - 1)
           f == [x \in D |-> rs[x].id]
<1>1. N \in Nat /\ DOMAIN rs = 1..N /\ k \in Nat /\ 0 < k /\ k <= N
  OBVIOUS
<1>2. ids = {rs[x].id : x \in DOMAIN rs} /\ Comparable(sn, os, ids)
  BY DEF Ordered, IdsOf, RangeOf
<1>3. \A i, j \in DOMAIN rs : i < j => Prec(sn, os, rs[i].id, rs[j].id)
  BY InOrderIs DEF Ordered
<1>4. \A i, j \in DOMAIN rs : ~(Prec(sn, os, rs[i].id, rs[j].id) /\ Prec(sn, os, rs[j].id, rs[i].id))
  <2>1. \A a, b \in ids : ~(Prec(sn, os, a, b) /\ Prec(sn, os, b, a))
    BY <1>2, PrecedesOne
  <2> QED
    BY <1>2, <2>1
<1> HIDE DEF N
<1>5. \A x \in D : x \in DOMAIN rs /\ x < k
  BY <1>1
<1>6. \A x \in DOMAIN rs : Prec(sn, os, rs[x].id, rs[k].id) => x \in D
  <2> SUFFICES ASSUME NEW x \in DOMAIN rs, Prec(sn, os, rs[x].id, rs[k].id) PROVE x < k
    BY <1>1
  <2>1. ~(k < x)
    BY <1>3, <1>4
  <2>2. x # k
    BY <1>4
  <2> QED
    BY <1>1, <2>1, <2>2
<1>7. \A a \in P : \E x \in D : f[x] = a
  BY <1>2, <1>6
<1>8. f \in [D -> P]
  BY <1>2, <1>3, <1>5
<1>9. \A x, y \in D : f[x] = f[y] => x = y
  <2> SUFFICES ASSUME NEW x \in D, NEW y \in D, f[x] = f[y], x # y PROVE FALSE
    OBVIOUS
  <2>1. x < y \/ y < x
    BY <1>1
  <2>2. rs[x].id = rs[y].id /\ x \in DOMAIN rs /\ y \in DOMAIN rs
    BY <1>5
  <2> QED
    BY <1>3, <1>4, <2>1, <2>2
<1>10. IsFiniteSet(D) /\ Cardinality(D) = k - 1
  <2>1. k - 1 \in Int /\ 1 \in Int /\ (1 > k - 1 => k - 1 = 0) /\ (k - 1) - 1 + 1 = k - 1
    BY <1>1
  <2> QED
    BY <2>1, FS_Interval
<1>11. ExistsBijection(D, P)
  <2> HIDE DEF f, D, P
  <2>1. f \in Bijection(D, P)
    BY <1>7, <1>8, <1>9 DEF Bijection, Injection, Surjection, IsInjective
  <2> QED
    BY <2>1 DEF ExistsBijection
<1>12. Cardinality(P) = k - 1
  <2> HIDE DEF D, P
  <2> QED
    BY <1>10, <1>11, FS_Bijection
<1> QED
  BY <1>12

LEMMA CountedBy == \A S : Logs!Cardinality(S) = Cardinality(S)
  BY DEF Logs!Cardinality, Cardinality

LEMMA TakeStep ==
  ASSUME LogInv, NEW k \in Nat, Logs!applyTake(k)
  PROVE  LogInv'
<1> DEFINE N == Len(rows)
           m == Logs!Min({k, N})
           rest == SubSeq(rows, 1, m)
           few == {i \in said : Logs!Cardinality({j \in said : Logs!Precedes(j, i)}) < k}
           R == PrecSet(seen, sorts)
<1>1. Logs!applyStage /\ rows' = rest /\ Logs!Say(few, sorts)
  BY DEF Logs!applyTake
<1>2. QueryOK(rows, seen, sorts, said)
  BY <1>1 DEF Logs!applyStage, LogInv
<1>3. rows \in Seq(Logs!AnyRow) /\ FromSeen(rows, seen) /\ N \in Nat /\ DOMAIN rows = 1..N
  BY <1>2 DEF QueryOK
<1>4. m \in Nat /\ m \in 0..N /\ \A x \in 1..N : x <= m <=> x - 1 < k
  <2> HIDE DEF N
  <2>1. m \in {k, N} /\ m <= k /\ m <= N
    <3> DEFINE S == {k, N}
    <3>1. S \subseteq Nat /\ S # {}
      BY <1>3
    <3> HIDE DEF S
    <3>2. Logs!Min(S) \in S /\ \A j \in S : Logs!Min(S) <= j
      BY <3>1, FirstIs
    <3> QED
      BY <3>2 DEF S
  <2> HIDE DEF m
  <2> QED
    BY <1>3, <2>1
<1> HIDE DEF m
<1>5. rest \in Seq(Logs!AnyRow) /\ DOMAIN rest = 1..m /\ \A x \in 1..m : rest[x] = rows[x] /\ x \in 1..N
  <2>1. rest \in Seq(Logs!AnyRow) /\ Len(rest) = m /\ \A x \in 1..m : rest[x] = rows[x]
    BY <1>3, <1>4
  <2>2. DOMAIN rest = 1..m
    BY <2>1
  <2> HIDE DEF N, rest
  <2>3. \A x \in 1..m : x \in 1..N
    BY <1>3, <1>4
  <2> QED
    BY <2>1, <2>2, <2>3
<1> HIDE DEF rest, few
<1>6. RangeOf(rest) \subseteq RangeOf(rows)
  BY <1>3, <1>5 DEF RangeOf
<1>7. FromSeen(rest, seen)
  BY <1>3, <1>6 DEF FromSeen
<1>8. ASSUME sorts # None PROVE Ordered(rest, seen, sorts, few)
  <2>1. Ordered(rows, seen, sorts, said)
    BY <1>2, <1>8 DEF QueryOK
  <2>2. /\ Comparable(seen, sorts, said) /\ InOrder(rows, R)
        /\ said = {rows[x].id : x \in DOMAIN rows}
    BY <2>1 DEF Ordered, IdsOf, RangeOf
  <2>3. \A i : {j \in said : Logs!Precedes(j, i)} = {j \in said : Prec(seen, sorts, j, i)}
    BY PrecedesIs
  <2>4. ASSUME NEW x \in 1..N
        PROVE  Cardinality({j \in said : Prec(seen, sorts, j, rows[x].id)}) = x - 1
    <3>1. rows \in Seq(Logs!AnyRow) /\ x \in DOMAIN rows
      BY <1>3
    <3> HIDE DEF N
    <3> QED
      BY <2>1, <3>1, PrecedeCount
  <2>5. ASSUME NEW x \in 1..N PROVE rows[x].id \in few <=> x <= m
    <3>1. Logs!Cardinality({j \in said : Logs!Precedes(j, rows[x].id)}) = x - 1
      BY <2>3, <2>4, CountedBy
    <3>2. rows[x].id \in said
      BY <1>3, <2>2
    <3> QED
      BY <1>4, <3>1, <3>2 DEF few
  <2>6. few = IdsOf(RangeOf(rest))
    <3>1. \A i \in few : \E x \in 1..N : i = rows[x].id
      BY <1>3, <2>2 DEF few
    <3>2. \A i \in few : \E x \in 1..m : i = rest[x].id
      <4> SUFFICES ASSUME NEW i \in few PROVE \E x \in 1..m : i = rest[x].id
        OBVIOUS
      <4>1. PICK x \in 1..N : i = rows[x].id
        BY <3>1
      <4>2. x <= m
        BY <2>5, <4>1
      <4>3. x \in 1..m
        BY <1>3, <1>4, <4>2
      <4> QED
        BY <1>5, <4>1, <4>3
    <3>3. \A x \in 1..m : rest[x].id \in few
      <4> SUFFICES ASSUME NEW x \in 1..m PROVE rest[x].id \in few
        OBVIOUS
      <4>1. x <= m /\ x \in 1..N /\ rest[x] = rows[x]
        BY <1>4, <1>5
      <4> QED
        BY <2>5, <4>1
    <3> QED
      BY <1>5, <3>2, <3>3 DEF IdsOf, RangeOf
  <2>7. InOrder(rest, R)
    BY <1>3, <1>5, <2>2 DEF InOrder
  <2>8. few \subseteq said
    BY DEF few
  <2>9. Comparable(seen, sorts, few)
    BY <2>2, <2>8 DEF Comparable
  <2> QED
    BY <2>6, <2>7, <2>9 DEF Ordered
<1> QED
  BY <1>1, <1>5, <1>7, <1>8, StageStep

-----------------------------------------------------------------------------
LEMMA LogStep == LogInv /\ [Logs!Next]_Logs!logVars => LogInv'
<1> SUFFICES ASSUME LogInv, [Logs!Next]_Logs!logVars PROVE LogInv'
  OBVIOUS
<1>1. ASSUME NEW record \in Record, Logs!Ingest(record) PROVE LogInv'
  BY <1>1, IngestStep
<1>2. CASE Logs!Rows
  BY <1>2, RowsStep
<1>3. ASSUME NEW pred \in Expr, Logs!applyWhere(pred) PROVE LogInv'
  BY <1>3, WhereStep
<1>4. ASSUME NEW columns \in (SUBSET Column) \ {{}}, Logs!applyProject(columns) PROVE LogInv'
  BY <1>4, ProjectStep
<1>5. ASSUME NEW k \in 0..MaxRow, Logs!applyTake(k) PROVE LogInv'
  <2>1. k \in Nat
    BY StoresAssumption
  <2> QED
    BY <1>5, <2>1, TakeStep
<1>6. ASSUME NEW column \in Column, NEW desc \in BOOLEAN, Logs!applySort(column, desc) PROVE LogInv'
  BY <1>6, SortStep
<1>7. CASE Logs!Answer
  BY <1>7, AnswerStep
<1>8. CASE UNCHANGED Logs!logVars
  BY <1>8 DEF Logs!logVars, LogInv
<1> QED
  BY <1>1, <1>2, <1>3, <1>4, <1>5, <1>6, <1>7, <1>8 DEF Logs!Next

LEMMA LogMeans == LogInv => StagesMean
<1> SUFFICES ASSUME LogInv, rows # None, sorts # None
             PROVE  /\ {rows[i].id : i \in DOMAIN rows} = said
                    /\ \A i, j \in DOMAIN rows : i < j => Logs!Precedes(rows[i].id, rows[j].id)
  BY DEF StagesMean, Logs!StagesMean
<1>1. rows \in Seq(Logs!AnyRow) /\ Ordered(rows, seen, sorts, said)
  BY DEF LogInv, QueryOK
<1>2. {rows[i].id : i \in DOMAIN rows} = said
  BY <1>1 DEF Ordered, IdsOf, RangeOf
<1>3. \A i, j \in DOMAIN rows : i < j => Prec(seen, sorts, rows[i].id, rows[j].id)
  BY <1>1, InOrderIs DEF Ordered
<1> QED
  BY <1>2, <1>3, PrecedesIs

(* A query has the rows its stages say, each once, in the order they say,  *)
(* whatever is ingested meanwhile and in whatever order it filters, sorts, *)
(* projects and takes (StagesMean; applyWhere, applyProject, applyTake,    *)
(* applySort, Rows, Ingest).                                               *)
THEOREM AnswersAreMeant == AnySpec => []StagesMean
<1>1. AnyInit => LogInv
  BY LogInit DEF AnyInit
<1>2. [AnyNext]_allVars => [Logs!Next]_Logs!logVars
  BY DEF AnyNext, allVars, serviceVars, logVars, Logs!logVars
<1> QED
  BY <1>1, <1>2, LogStep, LogMeans, PTL DEF AnySpec

-----------------------------------------------------------------------------
(* The nesting of the tokens of a filter.                                  *)
Count(t, kind, k) == Filters!Cardinality({j \in 1..k : t[j].kind = kind})

LEMMA CountIs ==
  ASSUME NEW t, NEW kind, NEW k \in Nat
  PROVE  /\ Count(t, kind, 0) = 0
         /\ Count(t, kind, k) \in Nat
         /\ Count(t, kind, k + 1) = Count(t, kind, k) + IF t[k + 1].kind = kind THEN 1 ELSE 0
<1> DEFINE Is(m) == {j \in 1..m : t[j].kind = kind}
<1>1. \A m : Count(t, kind, m) = Cardinality(Is(m))
  BY DEF Count, Filters!Cardinality, Cardinality
<1>2. Is(0) = {}
  OBVIOUS
<1>3. IsFiniteSet(Is(k))
  <2>1. IsFiniteSet(1..k) /\ Is(k) \subseteq 1..k
    BY FS_Interval
  <2> HIDE DEF Is
  <2> QED
    BY <2>1, FS_Subset
<1>4. Is(k + 1) = IF t[k + 1].kind = kind THEN Is(k) \cup {k + 1} ELSE Is(k)
  OBVIOUS
<1>5. k + 1 \notin Is(k)
  OBVIOUS
<1>6. Cardinality(Is(k)) \in Nat /\ Cardinality(Is(k) \cup {k + 1}) = Cardinality(Is(k)) + 1
  <2> HIDE DEF Is
  <2> QED
    BY <1>3, <1>5, FS_CardinalityType, FS_AddElement
<1>7. Cardinality(Is(0)) = 0
  BY <1>2, FS_EmptySet
<1> HIDE DEF Is
<1> QED
  BY <1>1, <1>4, <1>6, <1>7

Level(t, k) == Filters!Nesting(t, k)

LEMMA LevelIs ==
  ASSUME NEW t, NEW k \in Nat
  PROVE  /\ Level(t, 0) = 0
         /\ Level(t, k) \in Int
         /\ Level(t, k + 1) =
              Level(t, k) + IF t[k + 1].kind = "(" THEN 1 ELSE IF t[k + 1].kind = ")" THEN -1 ELSE 0
<1>1. \A m : Level(t, m) = Count(t, "(", m) - Count(t, ")", m)
  BY DEF Level, Count, Filters!Nesting
<1>2. /\ Count(t, "(", 0) = 0 /\ Count(t, ")", 0) = 0
      /\ Count(t, "(", k) \in Nat /\ Count(t, ")", k) \in Nat
      /\ Count(t, "(", k + 1) = Count(t, "(", k) + IF t[k + 1].kind = "(" THEN 1 ELSE 0
      /\ Count(t, ")", k + 1) = Count(t, ")", k) + IF t[k + 1].kind = ")" THEN 1 ELSE 0
  BY CountIs
<1>3. \A m : t[k + 1].kind = "(" => t[k + 1].kind # ")"
  OBVIOUS
<1> QED
  BY <1>1, <1>2, <1>3

\* The level at k as k is reached from the one before.
LEMMA LevelAt ==
  ASSUME NEW t, NEW k \in Nat \ {0}
  PROVE  /\ Level(t, k) \in Int /\ Level(t, k - 1) \in Int
         /\ t[k].kind = "(" => Level(t, k) = Level(t, k - 1) + 1
         /\ t[k].kind = ")" => Level(t, k) = Level(t, k - 1) - 1
         /\ t[k].kind \notin {"(", ")"} => Level(t, k) = Level(t, k - 1)
<1> DEFINE m == k - 1
<1>1. m \in Nat /\ m + 1 = k
  OBVIOUS
<1> HIDE DEF m
<1>2. /\ Level(t, m) \in Int
      /\ Level(t, m + 1) =
           Level(t, m) + IF t[m + 1].kind = "(" THEN 1 ELSE IF t[m + 1].kind = ")" THEN -1 ELSE 0
  BY <1>1, LevelIs
<1>3. /\ Level(t, m) \in Int
      /\ Level(t, k) = Level(t, m) + IF t[k].kind = "(" THEN 1 ELSE IF t[k].kind = ")" THEN -1 ELSE 0
  BY <1>1, <1>2
<1> QED
  BY <1>3 DEF m

-----------------------------------------------------------------------------
(* What the tokens i..j mean: the function is there, by induction over     *)
(* their number.                                                           *)
Segments(t) == (1..Len(t) + 1) \X (0..Len(t))

Means(t, M) ==
  /\ DOMAIN M = Segments(t)
  /\ \A i \in 1..Len(t) + 1, j \in 0..Len(t) : M[<<i, j>>] = Filters!MeaningOf(t, M, i, j)

(* It speaks of shorter segments only.                                     *)
LEMMA MeaningOfShorter ==
  ASSUME NEW S, NEW t \in Seq(S), NEW M, NEW N, NEW i \in 1..Len(t) + 1, NEW j \in 0..Len(t),
         \A a \in 1..Len(t) + 1, b \in 0..Len(t) : b - a < j - i => M[<<a, b>>] = N[<<a, b>>]
  PROVE  Filters!MeaningOf(t, M, i, j) = Filters!MeaningOf(t, N, i, j)
<1> DEFINE len == Len(t)
           A(kind) == Filters!Outside(t, kind, i, j)
           k(kind) == Filters!Max(A(kind))
<1>1. len \in Nat
  OBVIOUS
<1>2. ASSUME NEW kind, A(kind) # {}
      PROVE  /\ M[<<i, k(kind) - 1>>] = N[<<i, k(kind) - 1>>]
             /\ M[<<k(kind) + 1, j>>] = N[<<k(kind) + 1, j>>]
  <2>1. A(kind) \subseteq i..j /\ A(kind) \subseteq 0..len
    BY DEF Filters!Outside
  <2>2. k(kind) \in A(kind)
    <3> HIDE DEF A, len
    <3>1. Logs!Max(A(kind)) \in A(kind)
      BY <1>1, <1>2, <2>1, LastIs
    <3> QED
      BY <3>1 DEF Logs!Max, Filters!Max
  <2> DEFINE m == k(kind)
  <2> HIDE DEF k
  <2>3. m \in i..j /\ m \in 0..len /\ i \in Int /\ j \in Int
    BY <2>1, <2>2
  <2> HIDE DEF m, A
  <2>4. m - 1 \in 0..len /\ (m - 1) - i < j - i /\ m + 1 \in 1..len + 1 /\ j - (m + 1) < j - i
    BY <1>1, <2>3
  <2>5. M[<<i, m - 1>>] = N[<<i, m - 1>>] /\ M[<<m + 1, j>>] = N[<<m + 1, j>>]
    BY <2>4
  <2> QED
    BY <2>5 DEF m
<1>3. i < j => M[<<i + 1, j - 1>>] = N[<<i + 1, j - 1>>]
  <2>1. i < j => /\ i + 1 \in 1..len + 1 /\ j - 1 \in 0..len
                 /\ (j - 1) - (i + 1) < j - i
    BY <1>1
  <2> HIDE DEF len
  <2> QED
    BY <2>1 DEF len
<1>4. \/ A("or") # {}
      \/ A("or") = {} /\ A("and") # {}
      \/ A("or") = {} /\ A("and") = {}
  OBVIOUS
<1> HIDE DEF len
<1>5. CASE A("or") # {}
  BY <1>2, <1>5 DEF Filters!MeaningOf
<1>6. CASE A("or") = {} /\ A("and") # {}
  BY <1>2, <1>6 DEF Filters!MeaningOf
<1>7. CASE A("or") = {} /\ A("and") = {}
  BY <1>3, <1>7 DEF Filters!MeaningOf
<1> QED
  BY <1>4, <1>5, <1>6, <1>7

MeaningTo(t, f, m) ==
  /\ f = [s \in Segments(t) |-> f[s]]
  /\ \A i \in 1..Len(t) + 1, j \in 0..Len(t) :
       j - i < m - (Len(t) + 1) => f[<<i, j>>] = Filters!MeaningOf(t, f, i, j)

LEMMA MeaningOn ==
  ASSUME NEW S, NEW t \in Seq(S), NEW f, NEW m \in Nat, MeaningTo(t, f, m)
  PROVE  \E g : MeaningTo(t, g, m + 1)
<1> DEFINE len == Len(t)
           g == [s \in Segments(t) |-> Filters!MeaningOf(t, f, s[1], s[2])]
<1>1. len \in Nat
  OBVIOUS
<1>2. \A i \in 1..len + 1, j \in 0..len : g[<<i, j>>] = Filters!MeaningOf(t, f, i, j)
  BY DEF Segments
<1>3. g = [s \in Segments(t) |-> g[s]]
  OBVIOUS
<1> HIDE DEF g, len
<1>4. \A i \in 1..len + 1, j \in 0..len : j - i < m - (len + 1) => g[<<i, j>>] = f[<<i, j>>]
  BY <1>2 DEF MeaningTo, len
<1>5. ASSUME NEW i \in 1..len + 1, NEW j \in 0..len, j - i < (m + 1) - (len + 1)
      PROVE  g[<<i, j>>] = Filters!MeaningOf(t, g, i, j)
  <2>1. \A a \in 1..len + 1, b \in 0..len : b - a < j - i => b - a < m - (len + 1)
    BY <1>1, <1>5
  <2>2. \A a \in 1..len + 1, b \in 0..len : b - a < j - i => f[<<a, b>>] = g[<<a, b>>]
    BY <1>4, <2>1
  <2>3. Filters!MeaningOf(t, f, i, j) = Filters!MeaningOf(t, g, i, j)
    BY <2>2, MeaningOfShorter DEF len
  <2> QED
    BY <1>2, <2>3
<1> QED
  BY <1>3, <1>5 DEF MeaningTo, len

LEMMA MeaningIs ==
  ASSUME NEW S, NEW t \in Seq(S)
  PROVE  Means(t, Filters!Meaning(t))
<1> DEFINE len == Len(t)
           body(f) == [s \in Segments(t) |-> Filters!MeaningOf(t, f, s[1], s[2])]
           M == CHOOSE f : f = body(f)
           T == {m \in Nat : \E f : MeaningTo(t, f, m)}
<1>1. Filters!Meaning(t) = M
  BY DEF Filters!Meaning, Segments
<1>2. len \in Nat
  OBVIOUS
<1>3. 0 \in T
  <2>1. \A i \in 1..len + 1, j \in 0..len : ~(j - i < 0 - (len + 1))
    BY <1>2
  <2> DEFINE f == [s \in Segments(t) |-> 0]
  <2>2. f = [s \in Segments(t) |-> f[s]]
    OBVIOUS
  <2> HIDE DEF f
  <2>3. MeaningTo(t, f, 0)
    BY <2>1, <2>2 DEF MeaningTo
  <2> QED
    BY <2>3
<1>4. \A m \in Nat : m \in T => m + 1 \in T
  BY MeaningOn
<1>5. Nat \subseteq T
  <2> HIDE DEF T
  <2> QED
    BY <1>3, <1>4, NatSets
<1>6. PICK f : MeaningTo(t, f, len + len + 2)
  BY <1>2, <1>5
<1>7. f = body(f)
  <2>1. ASSUME NEW s \in Segments(t) PROVE f[s] = Filters!MeaningOf(t, f, s[1], s[2])
    <3>1. s[1] \in 1..len + 1 /\ s[2] \in 0..len /\ s = <<s[1], s[2]>>
      BY DEF Segments
    <3> DEFINE i == s[1]
               j == s[2]
    <3> HIDE DEF i, j, len
    <3>2. i \in 1..len + 1 /\ j \in 0..len /\ s = <<i, j>>
      BY <3>1 DEF i, j
    <3>3. j - i < (len + len + 2) - (len + 1)
      BY <1>2, <3>2
    <3>4. f[<<i, j>>] = Filters!MeaningOf(t, f, i, j)
      BY <1>6, <3>2, <3>3 DEF MeaningTo, len
    <3> QED
      BY <3>2, <3>4 DEF i, j
  <2>2. f = [s \in Segments(t) |-> f[s]]
    BY <1>6 DEF MeaningTo
  <2> QED
    BY <2>1, <2>2
<1> HIDE DEF body
<1>8. M = body(M)
  BY <1>7
<1> HIDE DEF M
<1>9. Means(t, M)
  BY <1>8 DEF body, Means, Segments
<1> QED
  BY <1>1, <1>9

SplitsAt(t, M, kind, i, k, j) ==
  /\ k \in i..j
  /\ t[k].kind = kind /\ Level(t, k) = Level(t, i - 1)
  /\ \A x \in k + 1..j : t[x].kind = kind => Level(t, x) # Level(t, i - 1)
  /\ M[<<i, j>>] = IF M[<<i, k - 1>>].ok /\ M[<<k + 1, j>>].ok
                  THEN [ok |-> TRUE,
                        accepted |-> Filters!Join(kind, M[<<i, k - 1>>].accepted, M[<<k + 1, j>>].accepted)]
                  ELSE Filters!errFilter

LEMMA MeaningSplit ==
  ASSUME NEW S, NEW t \in Seq(S), NEW M, Means(t, M), NEW i \in 1..Len(t) + 1, NEW j \in 0..Len(t),
         NEW kind \in {"or", "and"}, Filters!Outside(t, kind, i, j) # {},
         kind = "and" => Filters!Outside(t, "or", i, j) = {}
  PROVE  \E k \in i..j : SplitsAt(t, M, kind, i, k, j)
<1> DEFINE len == Len(t)
           A == Filters!Outside(t, kind, i, j)
           k == Filters!Max(A)
<1>1. len \in Nat /\ A \subseteq i..j /\ A \subseteq 0..len /\ A # {}
  BY DEF Filters!Outside
<1>2. A = {x \in i..j : t[x].kind = kind /\ Level(t, x) = Level(t, i - 1)}
  BY DEF Filters!Outside, Level
<1>3. k \in A /\ \A x \in A : x <= k
  <2> HIDE DEF A, len
  <2>1. Logs!Max(A) \in A /\ \A x \in A : x <= Logs!Max(A)
    BY <1>1, LastIs
  <2> QED
    BY <2>1 DEF Logs!Max, Filters!Max
<1>4. M[<<i, j>>] = Filters!MeaningOf(t, M, i, j)
  BY DEF Means
<1>5. M[<<i, j>>] = IF M[<<i, k - 1>>].ok /\ M[<<k + 1, j>>].ok
                  THEN [ok |-> TRUE,
                        accepted |-> Filters!Join(kind, M[<<i, k - 1>>].accepted, M[<<k + 1, j>>].accepted)]
                  ELSE Filters!errFilter
  <2>1. CASE kind = "or"
    BY <1>1, <1>4, <2>1 DEF Filters!MeaningOf
  <2>2. CASE kind = "and"
    BY <1>1, <1>4, <2>2 DEF Filters!MeaningOf
  <2> QED
    BY <2>1, <2>2
<1> HIDE DEF k, len
<1>6. \A x \in k + 1..j : t[x].kind = kind => Level(t, x) # Level(t, i - 1)
  <2> SUFFICES ASSUME NEW x \in k + 1..j, t[x].kind = kind, Level(t, x) = Level(t, i - 1) PROVE FALSE
    OBVIOUS
  <2>1. k \in i..j
    BY <1>1, <1>3
  <2>2. x \in i..j /\ ~(x <= k)
    BY <2>1
  <2> QED
    BY <1>2, <1>3, <2>2
<1> QED
  BY <1>1, <1>2, <1>3, <1>5, <1>6 DEF SplitsAt

\* A comparison at i, and a group.
ComparisonAt(t, i) ==
  t[i].kind = "ident" /\ t[i + 1].kind = "op" /\ t[i + 2].kind = "literal"
Group(t, i, j) == i < j /\ t[i].kind = "(" /\ t[j].kind = ")"
Unsplit(t, i, j) == Filters!Outside(t, "or", i, j) = {} /\ Filters!Outside(t, "and", i, j) = {}

LEMMA MeaningUnsplit ==
  ASSUME NEW t, NEW M, Means(t, M), NEW i \in 1..Len(t) + 1, NEW j \in 0..Len(t), Unsplit(t, i, j)
  PROVE  M[<<i, j>>] =
           IF Group(t, i, j) THEN M[<<i + 1, j - 1>>]
           ELSE IF j = i + 2 /\ ComparisonAt(t, i)
           THEN [ok |-> TRUE,
                 accepted |-> Filters!comparison(t[i].text, t[i + 1].text, t[i + 2].text)]
           ELSE Filters!errFilter
<1>1. M[<<i, j>>] = Filters!MeaningOf(t, M, i, j)
  BY DEF Means
<1> QED
  BY <1>1 DEF Filters!MeaningOf, Unsplit, Group, ComparisonAt, Filters!comparison

(* What has a meaning closes the parentheses it opens and no other.        *)
Balanced(t, i, j) ==
  /\ i <= j /\ Level(t, j) = Level(t, i - 1)
  /\ \A k \in i..j : Level(t, k) >= Level(t, i - 1)

LEMMA JoinBalanced ==
  ASSUME NEW t, NEW i \in Nat \ {0}, NEW k \in Nat, NEW j \in Nat,
         Balanced(t, i, k - 1), Balanced(t, k + 1, j), t[k].kind \in {"or", "and"}
  PROVE  Balanced(t, i, j)
<1>1. i < k /\ k < j /\ k \in Nat \ {0} /\ (k + 1) - 1 = k
  BY DEF Balanced
<1>2. Level(t, k) = Level(t, k - 1) /\ Level(t, k) \in Int
  BY <1>1, LevelAt
<1>3. Level(t, j) = Level(t, k) /\ Level(t, k - 1) = Level(t, i - 1)
  BY <1>1 DEF Balanced
<1>4. ASSUME NEW x \in i..j PROVE Level(t, x) >= Level(t, i - 1)
  <2>1. x \in i..(k - 1) \/ x = k \/ x \in (k + 1)..j
    BY <1>1
  <2>2. CASE x \in i..(k - 1)
    BY <2>2 DEF Balanced
  <2>3. CASE x = k
    BY <1>2, <1>3, <2>3
  <2>4. CASE x \in (k + 1)..j
    BY <1>1, <1>2, <1>3, <2>4 DEF Balanced
  <2> QED
    BY <2>1, <2>2, <2>3, <2>4
<1> QED
  BY <1>1, <1>2, <1>3, <1>4 DEF Balanced

LEMMA GroupBalanced ==
  ASSUME NEW t, NEW i \in Nat \ {0}, NEW j \in Nat, Group(t, i, j), Balanced(t, i + 1, j - 1)
  PROVE  Balanced(t, i, j) /\ \A x \in i..j - 1 : Level(t, x) > Level(t, i - 1)
<1>1. i < j /\ j \in Nat \ {0} /\ (i + 1) - 1 = i
  BY DEF Group
<1>2. /\ Level(t, i) = Level(t, i - 1) + 1 /\ Level(t, i - 1) \in Int
      /\ Level(t, j) = Level(t, j - 1) - 1
  BY <1>1, LevelAt DEF Group
<1>3. Level(t, j - 1) = Level(t, i)
  BY <1>1 DEF Balanced
<1>4. ASSUME NEW x \in i..j - 1 PROVE Level(t, x) > Level(t, i - 1)
  <2>1. x = i \/ x \in i + 1..j - 1
    BY <1>1
  <2>2. x \in Nat
    OBVIOUS
  <2>3. Level(t, x) \in Int
    BY <2>2, LevelIs
  <2>4. x \in i + 1..j - 1 => Level(t, x) >= Level(t, i)
    BY <1>1 DEF Balanced
  <2> QED
    BY <1>2, <2>1, <2>3, <2>4
<1>5. ASSUME NEW x \in i..j PROVE Level(t, x) >= Level(t, i - 1)
  <2>1. x = j \/ x \in i..j - 1
    BY <1>1
  <2>2. x \in Nat
    OBVIOUS
  <2>3. Level(t, x) \in Int
    BY <2>2, LevelIs
  <2> QED
    BY <1>2, <1>3, <1>4, <2>1, <2>3
<1> QED
  BY <1>1, <1>2, <1>3, <1>4, <1>5 DEF Balanced

LEMMA ComparisonFlat ==
  ASSUME NEW t, NEW i \in Nat \ {0}, ComparisonAt(t, i)
  PROVE  /\ Balanced(t, i, i + 2)
         /\ \A x \in i..i + 2 : Level(t, x) = Level(t, i - 1) /\ t[x].kind \notin {"or", "and", "(", ")"}
<1>1. i + 1 \in Nat \ {0} /\ i + 2 \in Nat \ {0} /\ (i + 1) - 1 = i /\ (i + 2) - 1 = i + 1
  OBVIOUS
<1>2. \A x \in i..i + 2 : x = i \/ x = i + 1 \/ x = i + 2
  OBVIOUS
<1>3. \A x \in i..i + 2 : t[x].kind \notin {"or", "and", "(", ")"}
  BY <1>2 DEF ComparisonAt
<1>4. i \in i..i + 2 /\ i + 1 \in i..i + 2 /\ i + 2 \in i..i + 2
  OBVIOUS
<1>5. t[i].kind \notin {"(", ")"} /\ t[i + 1].kind \notin {"(", ")"} /\ t[i + 2].kind \notin {"(", ")"}
  BY <1>3, <1>4
<1>6. Level(t, i) = Level(t, i - 1) /\ Level(t, i + 1) = Level(t, i) /\ Level(t, i + 2) = Level(t, i + 1)
  <2>1. Level(t, i) = Level(t, i - 1)
    BY <1>5, LevelAt
  <2>2. Level(t, i + 1) = Level(t, (i + 1) - 1)
    BY <1>1, <1>5, LevelAt
  <2>3. Level(t, i + 2) = Level(t, (i + 2) - 1)
    BY <1>1, <1>5, LevelAt
  <2> QED
    BY <1>1, <2>1, <2>2, <2>3
<1>7. \A x \in i..i + 2 : Level(t, x) = Level(t, i - 1)
  BY <1>2, <1>6
<1>8. Level(t, i - 1) \in Int /\ i <= i + 2
  BY LevelAt
<1> QED
  BY <1>3, <1>6, <1>7, <1>8 DEF Balanced

LEMMA Whole ==
  ASSUME NEW S, NEW t \in Seq(S), NEW M, Means(t, M)
  PROVE  \A i \in 1..Len(t) + 1, j \in 0..Len(t) : M[<<i, j>>].ok => Balanced(t, i, j)
<1> DEFINE len == Len(t)
           Good(i, j) == M[<<i, j>>].ok => Balanced(t, i, j)
           T == {m \in Nat : \A i \in 1..len + 1, j \in 0..len : j - i < m => Good(i, j)}
<1>1. len \in Nat
  OBVIOUS
<1>2. Filters!errFilter.ok = FALSE
  BY DEF Filters!errFilter
<1>3. ASSUME NEW i \in 1..len + 1, NEW j \in 0..len,
             \A a \in 1..len + 1, b \in 0..len : b - a < j - i => Good(a, b)
      PROVE  Good(i, j)
  <2> SUFFICES ASSUME M[<<i, j>>].ok PROVE Balanced(t, i, j)
    OBVIOUS
  <2>1. i \in Nat \ {0} /\ j \in Nat
    BY <1>1
  <2>2. ASSUME NEW kind \in {"or", "and"}, Filters!Outside(t, kind, i, j) # {},
               kind = "and" => Filters!Outside(t, "or", i, j) = {}
        PROVE  Balanced(t, i, j)
    <3>1. PICK k \in i..j : SplitsAt(t, M, kind, i, k, j)
      BY <2>2, MeaningSplit
    <3>2. M[<<i, k - 1>>].ok /\ M[<<k + 1, j>>].ok /\ t[k].kind \in {"or", "and"}
      BY <1>2, <3>1 DEF SplitsAt
    <3> HIDE DEF len, Good
    <3>3. k \in Nat /\ k - 1 \in 0..len /\ (k - 1) - i < j - i /\ k + 1 \in 1..len + 1 /\ j - (k + 1) < j - i
      BY <1>1
    <3>4. Good(i, k - 1) /\ Good(k + 1, j)
      BY <1>3, <3>3
    <3>5. Balanced(t, i, k - 1) /\ Balanced(t, k + 1, j)
      BY <3>2, <3>4 DEF Good
    <3> QED
      BY <2>1, <3>2, <3>3, <3>5, JoinBalanced
  <2>3. ASSUME Unsplit(t, i, j) PROVE Balanced(t, i, j)
    <3>1. \/ Group(t, i, j) /\ M[<<i + 1, j - 1>>].ok
          \/ j = i + 2 /\ ComparisonAt(t, i)
      BY <1>2, <2>3, MeaningUnsplit
    <3>2. ASSUME Group(t, i, j), M[<<i + 1, j - 1>>].ok PROVE Balanced(t, i, j)
      <4> HIDE DEF len, Good
      <4>1. i + 1 \in 1..len + 1 /\ j - 1 \in 0..len /\ (j - 1) - (i + 1) < j - i
        <5>1. i < j /\ i \in Nat /\ j \in Nat /\ i <= len + 1 /\ j <= len /\ len \in Nat /\ 0 < i
          BY <1>1, <3>2 DEF Group
        <5> QED
          BY <5>1
      <4>2. Good(i + 1, j - 1)
        BY <1>3, <4>1
      <4>3. Balanced(t, i + 1, j - 1)
        BY <3>2, <4>2 DEF Good
      <4> QED
        BY <2>1, <3>2, <4>3, GroupBalanced
    <3> QED
      BY <2>1, <3>1, <3>2, ComparisonFlat
  <2> QED
    BY <2>2, <2>3 DEF Unsplit
<1>4. 0 \in T
  <2> SUFFICES ASSUME NEW i \in 1..len + 1, NEW j \in 0..len, j - i < 0 PROVE Good(i, j)
    OBVIOUS
  <2>1. i..j = {} /\ ~(i < j) /\ j # i + 2
    BY <1>1
  <2>2. Unsplit(t, i, j) /\ ~Group(t, i, j)
    BY <2>1 DEF Unsplit, Group, Filters!Outside
  <2> QED
    BY <1>2, <2>1, <2>2, MeaningUnsplit
<1>5. ASSUME NEW m \in Nat, m \in T PROVE m + 1 \in T
  <2> SUFFICES ASSUME NEW i \in 1..len + 1, NEW j \in 0..len, j - i < m + 1 PROVE Good(i, j)
    OBVIOUS
  <2>1. \A a \in 1..len + 1, b \in 0..len : b - a < j - i => b - a < m
    BY <1>1
  <2>2. \A a \in 1..len + 1, b \in 0..len : b - a < j - i => Good(a, b)
    BY <1>5, <2>1
  <2> QED
    BY <1>3, <2>2
<1>6. Nat \subseteq T
  <2> HIDE DEF T
  <2> QED
    BY <1>4, <1>5, NatSets
<1>7. ASSUME NEW i \in 1..len + 1, NEW j \in 0..len PROVE Good(i, j)
  <2>1. len + 1 \in Nat /\ j - i < len + 1
    BY <1>1
  <2>2. len + 1 \in T
    <3> HIDE DEF T, len
    <3> QED
      BY <1>6, <2>1
  <2> QED
    BY <2>1, <2>2
<1> QED
  BY <1>7

-----------------------------------------------------------------------------
(* The operands of or are what has no or outside of its parentheses, those *)
(* of and what has neither.                                                *)
Class(t, M, K) ==
  {s \in Segments(t) : M[s].ok /\ \A kind \in K : Filters!Outside(t, kind, s[1], s[2]) = {}}

\* A loop over kind, with K outside of the whole, and K and kind outside of its operands.
LoopOver(kind, K) == (kind = "and" /\ K = {"or"}) \/ (kind = "or" /\ K = {})

LEMMA OutsideJoin ==
  ASSUME NEW t, NEW i \in Nat \ {0}, NEW k \in Nat, NEW j \in Nat, NEW kind, NEW x,
         Balanced(t, i, k - 1), Balanced(t, k + 1, j), t[k].kind \in {"or", "and"}
  PROVE  Filters!Outside(t, x, i, j)
           = Filters!Outside(t, x, i, k - 1) \cup (IF t[k].kind = x THEN {k} ELSE {})
               \cup Filters!Outside(t, x, k + 1, j)
<1>1. i < k /\ k < j /\ k \in Nat \ {0} /\ (k + 1) - 1 = k
  BY DEF Balanced
<1>2. Level(t, k) = Level(t, i - 1)
  BY <1>1, LevelAt DEF Balanced
<1>3. i..j = (i..(k - 1)) \cup {k} \cup ((k + 1)..j)
  BY <1>1
<1>4. \A a, b : Filters!Outside(t, x, a, b) = {y \in a..b : t[y].kind = x /\ Level(t, y) = Level(t, a - 1)}
  BY DEF Filters!Outside, Level
<1>5. Filters!Outside(t, x, k + 1, j) = {y \in (k + 1)..j : t[y].kind = x /\ Level(t, y) = Level(t, i - 1)}
  BY <1>1, <1>2, <1>4
<1> QED
  BY <1>2, <1>3, <1>4, <1>5

LEMMA ClassJoin ==
  ASSUME NEW S, NEW t \in Seq(S), NEW M, Means(t, M), NEW kind, NEW K, LoopOver(kind, K),
         NEW i \in 1..Len(t) + 1, NEW j \in 0..Len(t), NEW k \in 1..Len(t), t[k].kind = kind,
         <<i, k - 1>> \in Class(t, M, K), <<k + 1, j>> \in Class(t, M, K \cup {kind})
  PROVE  /\ <<i, j>> \in Class(t, M, K)
         /\ M[<<i, j>>].accepted = Filters!Join(kind, M[<<i, k - 1>>].accepted, M[<<k + 1, j>>].accepted)
<1> DEFINE len == Len(t)
<1>1. len \in Nat /\ i \in Nat \ {0} /\ j \in Nat /\ k \in Nat /\ k - 1 \in 0..len /\ k + 1 \in 1..len + 1
  OBVIOUS
<1>2. M[<<i, k - 1>>].ok /\ M[<<k + 1, j>>].ok
  BY DEF Class
<1>3. Balanced(t, i, k - 1) /\ Balanced(t, k + 1, j)
  BY <1>1, <1>2, Whole
<1>4. kind \in {"or", "and"} /\ t[k].kind \in {"or", "and"}
  BY DEF LoopOver
<1>5. \A x : Filters!Outside(t, x, i, j)
           = Filters!Outside(t, x, i, k - 1) \cup (IF t[k].kind = x THEN {k} ELSE {})
               \cup Filters!Outside(t, x, k + 1, j)
  BY <1>1, <1>3, <1>4, OutsideJoin
<1>6. /\ \A x \in K : Filters!Outside(t, x, i, k - 1) = {}
      /\ \A x \in K \cup {kind} : Filters!Outside(t, x, k + 1, j) = {}
  BY DEF Class
<1>7. kind \notin K
  BY DEF LoopOver
<1>8. \A x \in K : Filters!Outside(t, x, i, j) = {}
  BY <1>5, <1>6, <1>7
<1>9. k \in Filters!Outside(t, kind, i, j)
  BY <1>5
<1>10. kind = "and" => Filters!Outside(t, "or", i, j) = {}
  BY <1>8 DEF LoopOver
<1>11. PICK m \in i..j : SplitsAt(t, M, kind, i, m, j)
  BY <1>4, <1>9, <1>10, MeaningSplit
<1>12. Level(t, k) = Level(t, i - 1) /\ k \in i..j
  BY <1>9 DEF Filters!Outside, Level
<1>13. m = k
  <2>1. m \in Filters!Outside(t, kind, i, j)
    BY <1>11 DEF SplitsAt, Filters!Outside, Level
  <2>2. m \notin Filters!Outside(t, kind, k + 1, j)
    BY <1>6
  <2>3. m \in Filters!Outside(t, kind, i, k - 1) \/ m = k
    BY <1>5, <2>1, <2>2
  <2>4. ~(m < k)
    <3> SUFFICES ASSUME m < k PROVE FALSE
      OBVIOUS
    <3>1. k \in m + 1..j
      BY <1>1, <1>12
    <3> QED
      BY <1>11, <1>12, <3>1 DEF SplitsAt
  <2>5. m \in Filters!Outside(t, kind, i, k - 1) => m < k
    BY <1>1 DEF Filters!Outside
  <2> QED
    BY <2>3, <2>4, <2>5
<1>14. /\ M[<<i, j>>].ok
       /\ M[<<i, j>>].accepted = Filters!Join(kind, M[<<i, k - 1>>].accepted, M[<<k + 1, j>>].accepted)
  BY <1>2, <1>11, <1>13 DEF SplitsAt
<1>15. <<i, j>> \in Segments(t)
  BY DEF Segments
<1> QED
  BY <1>8, <1>14, <1>15 DEF Class

LEMMA ClassSplit ==
  ASSUME NEW S, NEW t \in Seq(S), NEW M, Means(t, M), NEW kind, NEW K, LoopOver(kind, K),
         NEW i \in 1..Len(t) + 1, NEW j \in 0..Len(t), <<i, j>> \in Class(t, M, K)
  PROVE  \/ <<i, j>> \in Class(t, M, K \cup {kind})
         \/ \E k \in i..j : /\ t[k].kind = kind /\ k \in 1..Len(t)
                            /\ <<i, k - 1>> \in Class(t, M, K)
                            /\ <<k + 1, j>> \in Class(t, M, K \cup {kind})
<1> DEFINE len == Len(t)
<1>1. len \in Nat /\ i \in Nat \ {0} /\ j \in Nat
  OBVIOUS
<1>2. M[<<i, j>>].ok /\ <<i, j>> \in Segments(t) /\ \A x \in K : Filters!Outside(t, x, i, j) = {}
  BY DEF Class
<1>3. CASE Filters!Outside(t, kind, i, j) = {}
  BY <1>2, <1>3 DEF Class
<1>4. CASE Filters!Outside(t, kind, i, j) # {}
  <2>1. kind \in {"or", "and"} /\ (kind = "and" => Filters!Outside(t, "or", i, j) = {})
    BY <1>2 DEF LoopOver
  <2>2. PICK k \in i..j : SplitsAt(t, M, kind, i, k, j)
    BY <1>4, <2>1, MeaningSplit
  <2>3. M[<<i, k - 1>>].ok /\ M[<<k + 1, j>>].ok /\ t[k].kind = kind
    BY <1>2, <2>2 DEF SplitsAt, Filters!errFilter
  <2>4. k \in Nat /\ k \in 1..len /\ k - 1 \in 0..len /\ k + 1 \in 1..len + 1 /\ (k + 1) - 1 = k
    BY <1>1
  <2>5. Balanced(t, i, k - 1) /\ Balanced(t, k + 1, j)
    BY <2>3, <2>4, Whole
  <2>6. \A x : Filters!Outside(t, x, i, j)
             = Filters!Outside(t, x, i, k - 1) \cup (IF t[k].kind = x THEN {k} ELSE {})
                 \cup Filters!Outside(t, x, k + 1, j)
    BY <1>1, <2>1, <2>3, <2>4, <2>5, OutsideJoin
  <2>7. \A x \in K : Filters!Outside(t, x, i, k - 1) = {} /\ Filters!Outside(t, x, k + 1, j) = {}
    BY <1>2, <2>6
  <2>8. Filters!Outside(t, kind, k + 1, j) = {}
    <3>1. Level(t, k) = Level(t, i - 1) /\ Level(t, (k + 1) - 1) = Level(t, i - 1)
      BY <2>2, <2>4 DEF SplitsAt
    <3> QED
      BY <2>2, <3>1 DEF SplitsAt, Filters!Outside, Level
  <2>9. <<i, k - 1>> \in Segments(t) /\ <<k + 1, j>> \in Segments(t)
    BY <2>4 DEF Segments
  <2>10. <<i, k - 1>> \in Class(t, M, K) /\ <<k + 1, j>> \in Class(t, M, K \cup {kind})
    BY <2>3, <2>7, <2>8, <2>9 DEF Class
  <2> QED
    BY <2>3, <2>4, <2>10
<1> QED
  BY <1>3, <1>4

-----------------------------------------------------------------------------
(* The loop of parseAnd and parseOr, round by round.                       *)
LoopNext(t, kind, A, l) ==
  IF l.ok /\ Filters!Is(t, l.pos, kind)
  THEN LET right == A[<<l.pos + 1, l.depth>>]
       IN  IF right.ok
           THEN Filters!Parsed(right.pos, right.depth, Filters!Join(kind, l.accepted, right.accepted))
           ELSE right
  ELSE l

Rounds(t, kind, A, spot, left, m) ==
  /\ left = [i \in 0..m |-> left[i]]
  /\ left[0] = A[spot]
  /\ \A i \in 1..m : left[i] = LoopNext(t, kind, A, left[i - 1])

LEMMA LoopIs ==
  ASSUME NEW S, NEW t \in Seq(S), NEW kind, NEW A, NEW spot
  PROVE  \E left : Rounds(t, kind, A, spot, left, Len(t)) /\ Filters!Loop(t, kind, A, spot) = left[Len(t)]
<1> DEFINE len == Len(t)
           body(f) == [i \in 0..len |-> IF i = 0 THEN A[spot] ELSE LoopNext(t, kind, A, f[i - 1])]
           left == CHOOSE f : f = body(f)
           T == {m \in Nat : \E f : Rounds(t, kind, A, spot, f, m)}
<1>1. len \in Nat
  OBVIOUS
<1>2. Filters!Loop(t, kind, A, spot) = left[len]
  BY DEF Filters!Loop, LoopNext
<1>3. 0 \in T
  <2> DEFINE f == [i \in 0..0 |-> A[spot]]
  <2>1. f = [i \in 0..0 |-> f[i]] /\ f[0] = A[spot]
    OBVIOUS
  <2> HIDE DEF f
  <2>2. Rounds(t, kind, A, spot, f, 0)
    BY <2>1 DEF Rounds
  <2> QED
    BY <2>2
<1>4. ASSUME NEW m \in Nat, m \in T PROVE m + 1 \in T
  <2>1. PICK f : Rounds(t, kind, A, spot, f, m)
    BY <1>4
  <2> DEFINE g == [i \in 0..m + 1 |-> IF i = m + 1 THEN LoopNext(t, kind, A, f[m]) ELSE f[i]]
  <2>2. g = [i \in 0..m + 1 |-> g[i]] /\ g[m + 1] = LoopNext(t, kind, A, f[m])
    OBVIOUS
  <2>3. \A i \in 0..m : g[i] = f[i]
    OBVIOUS
  <2>4. 0 \in 0..m /\ m \in 0..m /\ (m + 1) - 1 = m
    OBVIOUS
  <2>5. \A i \in 1..m + 1 : i = m + 1 \/ (i \in 1..m /\ i \in 0..m /\ i - 1 \in 0..m)
    OBVIOUS
  <2> HIDE DEF g
  <2>6. g[0] = A[spot]
    BY <2>1, <2>3, <2>4 DEF Rounds
  <2>7. \A i \in 1..m + 1 : g[i] = LoopNext(t, kind, A, g[i - 1])
    BY <2>1, <2>2, <2>3, <2>4, <2>5 DEF Rounds
  <2>8. Rounds(t, kind, A, spot, g, m + 1)
    BY <2>2, <2>6, <2>7 DEF Rounds
  <2> QED
    BY <2>8
<1>5. Nat \subseteq T
  <2> HIDE DEF T
  <2> QED
    BY <1>3, <1>4, NatSets
<1>6. PICK f : Rounds(t, kind, A, spot, f, len)
  BY <1>1, <1>5
<1> HIDE DEF len
<1>7. f = body(f)
  <2>1. \A i \in 0..len : f[i] = IF i = 0 THEN A[spot] ELSE LoopNext(t, kind, A, f[i - 1])
    <3>1. \A i \in 0..len : i = 0 \/ i \in 1..len
      BY <1>1
    <3>2. \A i \in 1..len : i # 0
      BY <1>1
    <3> QED
      BY <1>6, <3>1, <3>2 DEF Rounds
  <2>2. f = [i \in 0..len |-> f[i]]
    BY <1>6 DEF Rounds
  <2> QED
    BY <2>1, <2>2
<1> HIDE DEF body
<1>8. left = body(left)
  BY <1>7
<1> HIDE DEF left
<1>9. Rounds(t, kind, A, spot, left, len)
  <2>1. left = [i \in 0..len |-> IF i = 0 THEN A[spot] ELSE LoopNext(t, kind, A, left[i - 1])]
    BY <1>8 DEF body
  <2>2. 0 \in 0..len /\ \A i \in 1..len : i \in 0..len /\ i # 0
    BY <1>1
  <2>3. left = [i \in 0..len |-> left[i]]
    BY <2>1
  <2>4. left[0] = A[spot]
    BY <2>1, <2>2
  <2>5. \A i \in 1..len : left[i] = LoopNext(t, kind, A, left[i - 1])
    BY <2>1, <2>2
  <2> QED
    BY <2>3, <2>4, <2>5 DEF Rounds
<1> QED
  BY <1>2, <1>9 DEF len

-----------------------------------------------------------------------------
(* What a parser at depth d and position p is to come to: the tokens up to *)
(* r.pos are of a class, with their meaning, and nested no deeper than is  *)
(* left at d.                                                              *)
Low(t, i, j, deep) == \A k \in i..j : Level(t, k) - Level(t, i - 1) <= deep

ReadTo(t, M, K, d, p, r) ==
  /\ r.pos \in p + 1..Len(t) + 1
  /\ <<p, r.pos - 1>> \in Class(t, M, K)
  /\ r = Filters!Parsed(r.pos, d, M[<<p, r.pos - 1>>].accepted)
  /\ Low(t, p, r.pos - 1, maxFilterDepth - d)

\* It stops at none of F.
NoneOf(t, q, F) == \A kind \in F : ~Filters!Is(t, q, kind)

SoundAt(t, M, K, F, d, p, r) == r.ok => ReadTo(t, M, K, d, p, r) /\ NoneOf(t, r.pos, F)

CompleteAt(t, M, K, F, d, p, r) ==
  \A q \in p + 1..Len(t) + 1 :
    <<p, q - 1>> \in Class(t, M, K) /\ NoneOf(t, q, F) /\ Low(t, p, q - 1, maxFilterDepth - d)
    => r.ok /\ r.pos = q

Reads(t, M, K, F, d, A) ==
  \A p \in 1..Len(t) + 1 : /\ SoundAt(t, M, K, F, d, p, A[<<p, d>>])
                          /\ CompleteAt(t, M, K, F, d, p, A[<<p, d>>])

LEMMA ParsedIs ==
  ASSUME NEW a, NEW b, NEW c
  PROVE  LET r == Filters!Parsed(a, b, c) IN r.ok /\ r.pos = a /\ r.depth = b /\ r.accepted = c
  BY DEF Filters!Parsed

(* An operand more.                                                        *)
LEMMA OperandMore ==
  ASSUME NEW S, NEW t \in Seq(S), NEW M, Means(t, M), NEW kind, NEW K, LoopOver(kind, K),
         NEW d \in 0..maxFilterDepth, NEW p \in 1..Len(t) + 1,
         NEW l, ReadTo(t, M, K, d, p, l), Filters!Is(t, l.pos, kind),
         NEW right, ReadTo(t, M, K \cup {kind}, d, l.pos + 1, right)
  PROVE  ReadTo(t, M, K, d, p,
           Filters!Parsed(right.pos, right.depth, Filters!Join(kind, l.accepted, right.accepted)))
<1> DEFINE len == Len(t)
           k == l.pos
           q == right.pos
           r == Filters!Parsed(q, right.depth, Filters!Join(kind, l.accepted, right.accepted))
<1>1. /\ k \in p + 1..len + 1 /\ <<p, k - 1>> \in Class(t, M, K)
      /\ l.accepted = M[<<p, k - 1>>].accepted /\ Low(t, p, k - 1, maxFilterDepth - d)
  BY ParsedIs DEF ReadTo
<1>2. /\ q \in (k + 1) + 1..len + 1 /\ <<k + 1, q - 1>> \in Class(t, M, K \cup {kind})
      /\ right.accepted = M[<<k + 1, q - 1>>].accepted /\ right.depth = d
      /\ Low(t, k + 1, q - 1, maxFilterDepth - d)
  BY ParsedIs DEF ReadTo
<1>3. r.pos = q /\ r = Filters!Parsed(q, d, Filters!Join(kind, l.accepted, right.accepted))
  BY <1>2, ParsedIs
<1>4. k <= len /\ t[k].kind = kind
  BY DEF Filters!Is
<1>5. len \in Nat /\ maxFilterDepth \in Nat /\ d \in Nat /\ p \in Nat \ {0}
  BY FiltersAssumption DEF Filters!FilterAssumption
<1> HIDE DEF len, k, q, r
<1>6. /\ k \in 1..len /\ p \in 1..len + 1 /\ q - 1 \in 0..len /\ q \in p + 1..len + 1 /\ k - 1 \in 0..len
      /\ k + 1 \in 1..len + 1 /\ (k + 1) - 1 = k
  BY <1>1, <1>2, <1>4, <1>5 DEF len
<1>7. /\ <<p, q - 1>> \in Class(t, M, K)
      /\ M[<<p, q - 1>>].accepted
           = Filters!Join(kind, M[<<p, k - 1>>].accepted, M[<<k + 1, q - 1>>].accepted)
  <2> DEFINE j == q - 1
  <2> HIDE DEF j
  <2>1. p \in 1..Len(t) + 1 /\ j \in 0..Len(t) /\ k \in 1..Len(t)
    BY <1>6 DEF len, j
  <2>2. <<p, k - 1>> \in Class(t, M, K) /\ <<k + 1, j>> \in Class(t, M, K \cup {kind})
    BY <1>1, <1>2 DEF j
  <2>3. /\ <<p, j>> \in Class(t, M, K)
        /\ M[<<p, j>>].accepted
             = Filters!Join(kind, M[<<p, k - 1>>].accepted, M[<<k + 1, j>>].accepted)
    BY <1>4, <2>1, <2>2, ClassJoin
  <2> QED
    BY <2>3 DEF j
<1>8. Low(t, p, q - 1, maxFilterDepth - d)
  <2>1. M[<<p, k - 1>>].ok
    BY <1>1 DEF Class
  <2>2. Balanced(t, p, k - 1)
    BY <1>6, <2>1, Whole DEF len
  <2>3. Level(t, k - 1) = Level(t, p - 1) /\ Level(t, p - 1) \in Int
    BY <1>5, <2>2, LevelAt DEF Balanced
  <2>4. Level(t, k) = Level(t, p - 1)
    <3>1. k \in Nat \ {0} /\ t[k].kind \notin {"(", ")"}
      BY <1>4, <1>6 DEF LoopOver
    <3> QED
      BY <2>3, <3>1, LevelAt
  <2> SUFFICES ASSUME NEW x \in p..q - 1 PROVE Level(t, x) - Level(t, p - 1) <= maxFilterDepth - d
    BY DEF Low
  <2>5. x \in p..k - 1 \/ x = k \/ x \in k + 1..q - 1
    BY <1>5, <1>6
  <2>6. CASE x \in p..k - 1
    BY <1>1, <2>6 DEF Low
  <2>7. CASE x = k
    <3>1. maxFilterDepth - d >= 0
      BY <1>5
    <3> QED
      BY <2>3, <2>4, <2>7, <3>1
  <2>8. CASE x \in k + 1..q - 1
    BY <1>2, <1>6, <2>4, <2>8 DEF Low
  <2> QED
    BY <2>5, <2>6, <2>7, <2>8
<1> QED
  BY <1>1, <1>2, <1>3, <1>6, <1>7, <1>8 DEF ReadTo, r, q, k, len

LEMMA RoundSound ==
  ASSUME NEW S, NEW t \in Seq(S), NEW M, Means(t, M), NEW kind, NEW K, LoopOver(kind, K), NEW F,
         NEW d \in 0..maxFilterDepth, NEW A, Reads(t, M, K \cup {kind}, F, d, A),
         NEW p \in 1..Len(t) + 1, NEW l, SoundAt(t, M, K, F, d, p, l), NEW m \in Nat,
         l.ok => l.pos > p + m \/ ~Filters!Is(t, l.pos, kind)
  PROVE  LET r == LoopNext(t, kind, A, l) IN
         /\ SoundAt(t, M, K, F, d, p, r)
         /\ r.ok => l.ok /\ (r.pos > p + (m + 1) \/ ~Filters!Is(t, r.pos, kind))
<1> DEFINE len == Len(t)
           r == LoopNext(t, kind, A, l)
           right == A[<<l.pos + 1, d>>]
<1>1. CASE ~(l.ok /\ Filters!Is(t, l.pos, kind))
  BY <1>1 DEF LoopNext
<1>2. CASE l.ok /\ Filters!Is(t, l.pos, kind)
  <2>1. ReadTo(t, M, K, d, p, l) /\ l.depth = d
    BY <1>2, ParsedIs DEF SoundAt, ReadTo
  <2>2. l.pos \in p + 1..len + 1 /\ l.pos <= len /\ l.pos + 1 \in 1..len + 1
    BY <1>2, <2>1 DEF ReadTo, Filters!Is
  <2>3. SoundAt(t, M, K \cup {kind}, F, d, l.pos + 1, right)
    BY <2>2 DEF Reads
  <2>4. r = IF right.ok
            THEN Filters!Parsed(right.pos, right.depth, Filters!Join(kind, l.accepted, right.accepted))
            ELSE right
    BY <1>2, <2>1 DEF LoopNext
  <2> HIDE DEF r, right
  <2>5. CASE ~right.ok
    BY <2>4, <2>5 DEF SoundAt, r
  <2>6. CASE right.ok
    <3>1. ReadTo(t, M, K \cup {kind}, d, l.pos + 1, right) /\ NoneOf(t, right.pos, F)
      BY <2>3, <2>6 DEF SoundAt
    <3>2. ReadTo(t, M, K, d, p, r)
      BY <1>2, <2>1, <2>4, <2>6, <3>1, OperandMore
    <3>3. r.pos = right.pos /\ right.pos \in (l.pos + 1) + 1..len + 1
      BY <2>4, <2>6, <3>1, ParsedIs DEF ReadTo
    <3>4. r.pos > p + (m + 1)
      <4> HIDE DEF len
      <4>1. l.pos > p + m
        BY <1>2
      <4> QED
        BY <2>2, <3>3, <4>1
    <3> QED
      BY <1>2, <3>1, <3>2, <3>3, <3>4 DEF SoundAt, r
  <2> QED
    BY <2>5, <2>6
<1> QED
  BY <1>1, <1>2

LEMMA RoundsSound ==
  ASSUME NEW S, NEW t \in Seq(S), NEW M, Means(t, M), NEW kind, NEW K, LoopOver(kind, K), NEW F,
         NEW d \in 0..maxFilterDepth, NEW A, Reads(t, M, K \cup {kind}, F, d, A),
         NEW p \in 1..Len(t) + 1, NEW left, Rounds(t, kind, A, <<p, d>>, left, Len(t))
  PROVE  \A m \in 0..Len(t) :
           /\ SoundAt(t, M, K, F, d, p, left[m])
           /\ left[m].ok => left[m].pos > p + m \/ ~Filters!Is(t, left[m].pos, kind)
<1> DEFINE len == Len(t)
           Good(m) == /\ SoundAt(t, M, K, F, d, p, left[m])
                      /\ left[m].ok => left[m].pos > p + m \/ ~Filters!Is(t, left[m].pos, kind)
           T == {m \in Nat : m <= len => Good(m)}
<1>1. len \in Nat
  OBVIOUS
<1>2. 0 \in T
  <2>1. left[0] = A[<<p, d>>] /\ SoundAt(t, M, K \cup {kind}, F, d, p, left[0])
    BY DEF Rounds, Reads
  <2>2. Class(t, M, K \cup {kind}) \subseteq Class(t, M, K)
    BY DEF Class
  <2>3. SoundAt(t, M, K, F, d, p, left[0])
    BY <2>1, <2>2 DEF SoundAt, ReadTo
  <2>4. left[0].ok => left[0].pos \in p + 1..len + 1
    BY <2>3 DEF SoundAt, ReadTo
  <2>5. left[0].ok => left[0].pos > p + 0
    BY <1>1, <2>4
  <2> QED
    BY <2>3, <2>5
<1>3. ASSUME NEW m \in Nat, m \in T PROVE m + 1 \in T
  <2> SUFFICES ASSUME m + 1 <= len PROVE Good(m + 1)
    OBVIOUS
  <2>1. Good(m) /\ m + 1 \in 1..len /\ (m + 1) - 1 = m
    BY <1>1, <1>3
  <2>2. left[m + 1] = LoopNext(t, kind, A, left[m])
    BY <2>1 DEF Rounds
  <2> DEFINE l == left[m]
  <2>3. SoundAt(t, M, K, F, d, p, l) /\ (l.ok => l.pos > p + m \/ ~Filters!Is(t, l.pos, kind))
    BY <2>1
  <2> HIDE DEF l, len
  <2>4. LET r == LoopNext(t, kind, A, l) IN
        /\ SoundAt(t, M, K, F, d, p, r)
        /\ r.ok => l.ok /\ (r.pos > p + (m + 1) \/ ~Filters!Is(t, r.pos, kind))
    BY <2>3, RoundSound
  <2> QED
    BY <2>2, <2>4 DEF l
<1>4. Nat \subseteq T
  <2> HIDE DEF T
  <2> QED
    BY <1>2, <1>3, NatSets
<1>5. ASSUME NEW m \in 0..len PROVE Good(m)
  <2>1. m \in Nat /\ m <= len
    BY <1>1
  <2> HIDE DEF Good, len
  <2> QED
    BY <1>4, <2>1
<1> QED
  BY <1>5

LEMMA RoundsStay ==
  ASSUME NEW S, NEW t \in Seq(S), NEW kind, NEW A, NEW spot, NEW left,
         Rounds(t, kind, A, spot, left, Len(t)), NEW m \in 0..Len(t),
         ~(left[m].ok /\ Filters!Is(t, left[m].pos, kind))
  PROVE  left[Len(t)] = left[m]
<1> DEFINE len == Len(t)
           T == {x \in Nat : m + x <= len => left[m + x] = left[m]}
<1>1. len \in Nat /\ m \in Nat /\ m <= len
  OBVIOUS
<1> HIDE DEF len
<1>2. 0 \in T
  <2>1. m + 0 = m
    BY <1>1
  <2> QED
    BY <2>1
<1>3. ASSUME NEW x \in Nat, x \in T PROVE x + 1 \in T
  <2> SUFFICES ASSUME m + (x + 1) <= len PROVE left[m + (x + 1)] = left[m]
    OBVIOUS
  <2>1. m + x <= len /\ m + (x + 1) \in 1..len /\ (m + (x + 1)) - 1 = m + x
    BY <1>1
  <2>2. left[m + (x + 1)] = LoopNext(t, kind, A, left[m + x])
    BY <2>1 DEF Rounds, len
  <2>3. left[m + x] = left[m]
    BY <1>3, <2>1
  <2> QED
    BY <2>2, <2>3 DEF LoopNext
<1>4. Nat \subseteq T
  <2> HIDE DEF T
  <2> QED
    BY <1>2, <1>3, NatSets
<1>5. len - m \in Nat /\ m + (len - m) = len /\ len <= len
  BY <1>1
<1>6. len - m \in T
  BY <1>4, <1>5
<1> QED
  BY <1>5, <1>6 DEF len

LEMMA RoundsCome ==
  ASSUME NEW S, NEW t \in Seq(S), NEW M, Means(t, M), NEW kind, NEW K, LoopOver(kind, K), NEW F,
         kind \notin F, NEW d \in 0..maxFilterDepth, NEW A, Reads(t, M, K \cup {kind}, F, d, A),
         NEW p \in 1..Len(t) + 1, NEW left, Rounds(t, kind, A, <<p, d>>, left, Len(t))
  PROVE  \A q \in p + 1..Len(t) + 1 :
           <<p, q - 1>> \in Class(t, M, K) /\ NoneOf(t, q, F) /\ Low(t, p, q - 1, maxFilterDepth - d)
           => \E m \in 0..Len(t) : m < q - p /\ left[m].ok /\ left[m].pos = q
<1> DEFINE len == Len(t)
           Whole_(q) ==
             <<p, q - 1>> \in Class(t, M, K) /\ NoneOf(t, q, F) /\ Low(t, p, q - 1, maxFilterDepth - d)
           Come(q) == \E m \in 0..len : m < q - p /\ left[m].ok /\ left[m].pos = q
           T == {x \in Nat : \A q \in p + 1..len + 1 : q <= x /\ Whole_(q) => Come(q)}
<1>1. len \in Nat /\ p \in Nat \ {0} /\ p <= len + 1
  OBVIOUS
<1>2. 0 \in T
  BY <1>1
<1>3. ASSUME NEW x \in Nat, x \in T PROVE x + 1 \in T
  <2> SUFFICES ASSUME NEW q \in p + 1..len + 1, q <= x + 1, Whole_(q) PROVE Come(q)
    OBVIOUS
  <2>0. 0 \in 0..len /\ 0 < q - p /\ q \in Nat /\ q - 1 \in 0..len
    BY <1>1
  <2>1. \/ <<p, q - 1>> \in Class(t, M, K \cup {kind})
        \/ \E k \in p..q - 1 : /\ t[k].kind = kind /\ k \in 1..len
                             /\ <<p, k - 1>> \in Class(t, M, K)
                             /\ <<k + 1, q - 1>> \in Class(t, M, K \cup {kind})
    BY <2>0, ClassSplit
  <2>2. CASE <<p, q - 1>> \in Class(t, M, K \cup {kind})
    <3>1. left[0] = A[<<p, d>>] /\ CompleteAt(t, M, K \cup {kind}, F, d, p, left[0])
      BY DEF Rounds, Reads
    <3>2. left[0].ok /\ left[0].pos = q
      BY <2>2, <3>1 DEF CompleteAt
    <3> HIDE DEF len
    <3> QED
      BY <2>0, <3>2
  <2>3. ASSUME NEW k \in p..q - 1, t[k].kind = kind, k \in 1..len,
               <<p, k - 1>> \in Class(t, M, K), <<k + 1, q - 1>> \in Class(t, M, K \cup {kind})
        PROVE  Come(q)
    <3>1. M[<<p, k - 1>>].ok /\ M[<<k + 1, q - 1>>].ok
      BY <2>3 DEF Class
    <3>2. k - 1 \in 0..len /\ k + 1 \in 1..len + 1 /\ (k + 1) - 1 = k /\ k \in Nat \ {0}
      BY <1>1, <2>3
    <3>3. Balanced(t, p, k - 1) /\ Balanced(t, k + 1, q - 1)
      BY <2>0, <3>1, <3>2, Whole
    <3>4. p < k /\ k + 1 <= q - 1
      BY <1>1, <3>2, <3>3 DEF Balanced
    <3> HIDE DEF len
    <3>5. k \in p + 1..len + 1 /\ k <= x /\ q \in (k + 1) + 1..len + 1
      BY <1>1, <2>0, <3>2, <3>4
    <3>6. NoneOf(t, k, F)
      BY <2>3 DEF NoneOf, Filters!Is
    <3>7. Low(t, p, k - 1, maxFilterDepth - d)
      <4>1. p..k - 1 \subseteq p..q - 1
        BY <1>1, <3>2, <3>5
      <4> QED
        BY <4>1 DEF Low
    <3>8. Level(t, k) = Level(t, p - 1)
      <4>1. t[k].kind \notin {"(", ")"}
        BY <2>3 DEF LoopOver
      <4> QED
        BY <3>2, <3>3, <4>1, LevelAt DEF Balanced
    <3>9. Low(t, k + 1, q - 1, maxFilterDepth - d)
      <4>1. k + 1..q - 1 \subseteq p..q - 1
        BY <1>1, <3>2, <3>5
      <4> QED
        BY <3>2, <3>8, <4>1 DEF Low
    <3>10. Come(k)
      BY <1>3, <2>3, <3>5, <3>6, <3>7
    <3>11. PICK m \in 0..len : m < k - p /\ left[m].ok /\ left[m].pos = k
      BY <3>10
    <3>12. SoundAt(t, M, K, F, d, p, left[m])
      BY <3>11, RoundsSound DEF len
    <3>13. left[m].depth = d
      BY <3>11, <3>12, ParsedIs DEF SoundAt, ReadTo
    <3>14. CompleteAt(t, M, K \cup {kind}, F, d, k + 1, A[<<k + 1, d>>])
      BY <3>2 DEF Reads, len
    <3>15. A[<<k + 1, d>>].ok /\ A[<<k + 1, d>>].pos = q
      BY <2>3, <3>5, <3>9, <3>14 DEF CompleteAt, len
    <3>16. Filters!Is(t, k, kind)
      BY <2>3, <3>2 DEF Filters!Is, len
    <3>17. m + 1 \in 1..len /\ m + 1 \in 0..len /\ (m + 1) - 1 = m /\ m + 1 < q - p
      <4>1. m \in Nat /\ m < k - p /\ p \in Nat /\ 0 < p /\ k < q
        BY <1>1, <3>5, <3>11
      <4>2. k \in Nat /\ q \in Nat /\ q <= len + 1 /\ len \in Nat
        BY <1>1, <2>0, <3>2
      <4> HIDE DEF len
      <4> QED
        BY <4>1, <4>2
    <3>18. left[m + 1] = LoopNext(t, kind, A, left[m])
      BY <3>17 DEF Rounds, len
    <3>19. left[m + 1].ok /\ left[m + 1].pos = q
      <4> DEFINE l == left[m]
                 right == A[<<k + 1, d>>]
                 r == Filters!Parsed(right.pos, right.depth, Filters!Join(kind, l.accepted, right.accepted))
      <4>1. l.ok /\ Filters!Is(t, l.pos, kind) /\ A[<<l.pos + 1, l.depth>>] = right
        BY <3>11, <3>13, <3>16
      <4>2. LoopNext(t, kind, A, l) = r
        BY <3>15, <4>1 DEF LoopNext
      <4>3. r.ok /\ r.pos = q
        BY <3>15, ParsedIs
      <4> QED
        BY <3>18, <4>2, <4>3
    <3> QED
      BY <3>17, <3>19
  <2> QED
    BY <2>1, <2>2, <2>3
<1>4. Nat \subseteq T
  <2> HIDE DEF T
  <2> QED
    BY <1>2, <1>3, NatSets
<1>5. ASSUME NEW q \in p + 1..len + 1, Whole_(q) PROVE Come(q)
  <2>1. q \in Nat /\ q <= q
    BY <1>1
  <2>2. q \in T
    <3> HIDE DEF T
    <3> QED
      BY <1>4, <2>1
  <2> HIDE DEF len, Come, Whole_
  <2> QED
    BY <1>5, <2>1, <2>2
<1> QED
  BY <1>5

LEMMA LoopReads ==
  ASSUME NEW S, NEW t \in Seq(S), NEW M, Means(t, M), NEW kind, NEW K, LoopOver(kind, K), NEW F,
         kind \notin F, NEW d \in 0..maxFilterDepth, NEW A, Reads(t, M, K \cup {kind}, F, d, A),
         NEW B, \A p \in 1..Len(t) + 1 : B[<<p, d>>] = Filters!Loop(t, kind, A, <<p, d>>)
  PROVE  Reads(t, M, K, F \cup {kind}, d, B)
<1> DEFINE len == Len(t)
<1> SUFFICES ASSUME NEW p \in 1..len + 1
             PROVE  /\ SoundAt(t, M, K, F \cup {kind}, d, p, B[<<p, d>>])
                    /\ CompleteAt(t, M, K, F \cup {kind}, d, p, B[<<p, d>>])
  BY DEF Reads
<1>1. PICK left : Rounds(t, kind, A, <<p, d>>, left, len) /\ Filters!Loop(t, kind, A, <<p, d>>) = left[len]
  BY LoopIs
<1>2. B[<<p, d>>] = left[len] /\ len \in 0..len /\ len \in Nat /\ p \in Nat
  BY <1>1
<1> DEFINE r == left[len]
<1>3. SoundAt(t, M, K, F \cup {kind}, d, p, r)
  <2> SUFFICES ASSUME r.ok PROVE ReadTo(t, M, K, d, p, r) /\ NoneOf(t, r.pos, F \cup {kind})
    BY DEF SoundAt
  <2>1. /\ SoundAt(t, M, K, F, d, p, left[len])
        /\ left[len].ok => left[len].pos > p + len \/ ~Filters!Is(t, left[len].pos, kind)
    BY <1>1, <1>2, RoundsSound
  <2> HIDE DEF len
  <2>2. ReadTo(t, M, K, d, p, r) /\ NoneOf(t, r.pos, F)
    BY <2>1 DEF SoundAt
  <2>3. r.pos \in p + 1..len + 1
    BY <2>2 DEF ReadTo, len
  <2>4. ~(r.pos > p + len)
    BY <1>2, <2>3
  <2>5. ~Filters!Is(t, r.pos, kind)
    BY <2>1, <2>4
  <2> QED
    BY <2>2, <2>5 DEF NoneOf
<1>4. ASSUME NEW q \in p + 1..len + 1, <<p, q - 1>> \in Class(t, M, K), NoneOf(t, q, F \cup {kind}),
             Low(t, p, q - 1, maxFilterDepth - d)
      PROVE  r.ok /\ r.pos = q
  <2>1. NoneOf(t, q, F) /\ ~Filters!Is(t, q, kind)
    BY <1>4 DEF NoneOf
  <2>2. PICK m \in 0..len : left[m].ok /\ left[m].pos = q
    BY <1>1, <1>4, <2>1, RoundsCome
  <2>3. left[len] = left[m]
    BY <1>1, <2>1, <2>2, RoundsStay
  <2> QED
    BY <2>2, <2>3
<1> QED
  BY <1>2, <1>3, <1>4 DEF CompleteAt

-----------------------------------------------------------------------------
(* Groups and comparisons, which parsePrimary reads.                       *)
LEMMA PrimaryHas ==
  ASSUME NEW S, NEW t \in Seq(S), NEW M, Means(t, M), NEW i \in 1..Len(t) + 1, NEW j \in 0..Len(t)
  PROVE  <<i, j>> \in Class(t, M, {"or"} \cup {"and"})
         <=> /\ Unsplit(t, i, j)
             /\ \/ Group(t, i, j) /\ M[<<i + 1, j - 1>>].ok
                \/ ~Group(t, i, j) /\ j = i + 2 /\ ComparisonAt(t, i)
<1>1. <<i, j>> \in Segments(t) /\ Filters!errFilter.ok = FALSE
  BY DEF Segments, Filters!errFilter
<1>2. <<i, j>> \in Class(t, M, {"or"} \cup {"and"}) <=> M[<<i, j>>].ok /\ Unsplit(t, i, j)
  BY <1>1 DEF Class, Unsplit
<1>3. ASSUME Unsplit(t, i, j)
      PROVE  M[<<i, j>>].ok <=> \/ Group(t, i, j) /\ M[<<i + 1, j - 1>>].ok
                                \/ ~Group(t, i, j) /\ j = i + 2 /\ ComparisonAt(t, i)
  <2> DEFINE C == [ok |-> TRUE,
                   accepted |-> Filters!comparison(t[i].text, t[i + 1].text, t[i + 2].text)]
  <2>1. M[<<i, j>>] = IF Group(t, i, j) THEN M[<<i + 1, j - 1>>]
                    ELSE IF j = i + 2 /\ ComparisonAt(t, i) THEN C ELSE Filters!errFilter
    BY <1>3, MeaningUnsplit
  <2>2. C.ok
    OBVIOUS
  <2> HIDE DEF C
  <2>3. CASE Group(t, i, j)
    BY <2>1, <2>3
  <2>4. CASE ~Group(t, i, j) /\ j = i + 2 /\ ComparisonAt(t, i)
    BY <2>1, <2>2, <2>4
  <2>5. CASE ~Group(t, i, j) /\ ~(j = i + 2 /\ ComparisonAt(t, i))
    BY <1>1, <2>1, <2>5
  <2> QED
    BY <2>3, <2>4, <2>5
<1> QED
  BY <1>2, <1>3

LEMMA GroupHas ==
  ASSUME NEW S, NEW t \in Seq(S), NEW M, Means(t, M), NEW i \in 1..Len(t), NEW j \in 1..Len(t),
         Group(t, i, j), M[<<i + 1, j - 1>>].ok
  PROVE  /\ <<i, j>> \in Class(t, M, {"or"} \cup {"and"}) /\ M[<<i, j>>] = M[<<i + 1, j - 1>>]
         /\ i + 1 < j /\ Level(t, i) = Level(t, i - 1) + 1
         /\ \A deep \in Nat : Low(t, i, j, deep) <=> deep > 0 /\ Low(t, i + 1, j - 1, deep - 1)
<1> DEFINE len == Len(t)
<1>1. /\ len \in Nat /\ i \in Nat \ {0} /\ j \in Nat \ {0} /\ i + 1 \in 1..len + 1 /\ j - 1 \in 0..len
      /\ i \in 1..len + 1 /\ j \in 0..len /\ (i + 1) - 1 = i /\ i < j
  BY DEF Group
<1>2. Balanced(t, i + 1, j - 1)
  BY <1>1, Whole
<1>3. Balanced(t, i, j) /\ \A x \in i..j - 1 : Level(t, x) > Level(t, i - 1)
  BY <1>1, <1>2, GroupBalanced
<1>4. \A x \in i..j : x \in i..j - 1 \/ x = j
  BY <1>1
<1>5. Level(t, i - 1) \in Int /\ Level(t, i) = Level(t, i - 1) + 1
  BY <1>1, LevelAt DEF Group
<1>6. Unsplit(t, i, j)
  <2> SUFFICES ASSUME NEW kind \in {"or", "and"}, NEW x \in i..j, t[x].kind = kind,
                      Level(t, x) = Level(t, i - 1)
               PROVE  FALSE
    BY DEF Unsplit, Filters!Outside, Level
  <2>1. x # j
    BY DEF Group
  <2> QED
    BY <1>3, <1>4, <1>5, <2>1
<1>7. <<i, j>> \in Class(t, M, {"or"} \cup {"and"})
  BY <1>1, <1>6, PrimaryHas
<1>8. M[<<i, j>>] = M[<<i + 1, j - 1>>]
  BY <1>1, <1>6, MeaningUnsplit
<1>9. i + 1 < j
  BY <1>1, <1>2 DEF Balanced
<1>10. Level(t, j) = Level(t, i - 1)
  BY <1>3 DEF Balanced
<1>11. ASSUME NEW deep \in Nat
       PROVE  Low(t, i, j, deep) <=> deep > 0 /\ Low(t, i + 1, j - 1, deep - 1)
  <2> HIDE DEF len
  <2>1. \A x \in i..j : x = i \/ x = j \/ x \in i + 1..j - 1
    BY <1>1
  <2>2. i \in i..j /\ i + 1..j - 1 \subseteq i..j
    BY <1>1
  <2>3. \A x \in i..j : Level(t, x) \in Int
    BY <1>1, LevelIs
  <2>4. ASSUME Low(t, i, j, deep) PROVE deep > 0 /\ Low(t, i + 1, j - 1, deep - 1)
    <3>1. Level(t, i) - Level(t, i - 1) <= deep
      BY <2>2, <2>4 DEF Low
    <3>2. deep > 0
      BY <1>5, <3>1
    <3>3. ASSUME NEW x \in i + 1..j - 1 PROVE Level(t, x) - Level(t, i) <= deep - 1
      <4>1. Level(t, x) \in Int /\ Level(t, x) - Level(t, i - 1) <= deep
        BY <2>2, <2>3, <2>4 DEF Low
      <4> QED
        BY <1>5, <4>1
    <3> QED
      BY <1>1, <3>2, <3>3 DEF Low
  <2>5. ASSUME deep > 0, Low(t, i + 1, j - 1, deep - 1) PROVE Low(t, i, j, deep)
    <3> SUFFICES ASSUME NEW x \in i..j PROVE Level(t, x) - Level(t, i - 1) <= deep
      BY DEF Low
    <3>1. CASE x \in i + 1..j - 1
      <4>1. Level(t, x) \in Int /\ Level(t, x) - Level(t, i) <= deep - 1
        BY <1>1, <2>3, <2>5, <3>1 DEF Low
      <4> QED
        BY <1>5, <4>1
    <3>2. CASE x = i
      BY <1>5, <2>5, <3>2
    <3>3. CASE x = j
      BY <1>5, <1>10, <2>5, <3>3
    <3> QED
      BY <2>1, <3>1, <3>2, <3>3
  <2> QED
    BY <2>4, <2>5
<1> QED
  BY <1>5, <1>7, <1>8, <1>9, <1>11

LEMMA ComparisonHas ==
  ASSUME NEW S, NEW t \in Seq(S), NEW M, Means(t, M), NEW i \in 1..Len(t), i + 2 <= Len(t),
         ComparisonAt(t, i)
  PROVE  /\ <<i, i + 2>> \in Class(t, M, {"or"} \cup {"and"})
         /\ M[<<i, i + 2>>].accepted = Filters!comparison(t[i].text, t[i + 1].text, t[i + 2].text)
         /\ \A deep \in Nat : Low(t, i, i + 2, deep)
<1>1. i \in Nat \ {0} /\ i \in 1..Len(t) + 1 /\ i + 2 \in 0..Len(t) /\ i \in i..i + 2
  OBVIOUS
<1>2. \A x \in i..i + 2 : Level(t, x) = Level(t, i - 1) /\ t[x].kind \notin {"or", "and", "(", ")"}
  BY <1>1, ComparisonFlat
<1>3. Unsplit(t, i, i + 2)
  BY <1>2 DEF Unsplit, Filters!Outside
<1>4. ~Group(t, i, i + 2)
  BY <1>1, <1>2 DEF Group
<1>5. M[<<i, i + 2>>] =
        [ok |-> TRUE, accepted |-> Filters!comparison(t[i].text, t[i + 1].text, t[i + 2].text)]
  BY <1>1, <1>3, <1>4, MeaningUnsplit
<1>6. ASSUME NEW deep \in Nat PROVE Low(t, i, i + 2, deep)
  <2>1. Level(t, i - 1) \in Int
    BY <1>1, LevelAt
  <2>2. Level(t, i - 1) - Level(t, i - 1) <= deep
    BY <2>1
  <2> QED
    BY <1>2, <2>2 DEF Low
<1>7. <<i, i + 2>> \in Class(t, M, {"or"} \cup {"and"})
  <2> DEFINE j == i + 2
  <2>1. j \in 0..Len(t) /\ j = i + 2 /\ Unsplit(t, i, j) /\ ~Group(t, i, j)
    BY <1>1, <1>3, <1>4
  <2> HIDE DEF j
  <2>2. <<i, j>> \in Class(t, M, {"or"} \cup {"and"})
    BY <1>1, <2>1, PrimaryHas
  <2> QED
    BY <2>2 DEF j
<1>8. M[<<i, i + 2>>].accepted = Filters!comparison(t[i].text, t[i + 1].text, t[i + 2].text)
  BY <1>5
<1> QED
  BY <1>6, <1>7, <1>8

\* What parsePrimary answers at a parenthesis, given the answer of parseOr behind it.
GroupAnswer(t, d, group) ==
  IF d + 1 <= maxFilterDepth /\ group.ok /\ Filters!Is(t, group.pos, ")")
  THEN Filters!Parsed(group.pos + 1, group.depth - 1, group.accepted) ELSE Filters!errFilter

LEMMA GroupReads ==
  ASSUME NEW S, NEW t \in Seq(S), NEW M, Means(t, M), NEW d \in 0..maxFilterDepth,
         NEW p \in 1..Len(t), t[p].kind = "(", NEW group,
         d + 1 <= maxFilterDepth => /\ SoundAt(t, M, {}, {"and"} \cup {"or"}, d + 1, p + 1, group)
                                    /\ CompleteAt(t, M, {}, {"and"} \cup {"or"}, d + 1, p + 1, group)
  PROVE  /\ SoundAt(t, M, {"or"} \cup {"and"}, {}, d, p, GroupAnswer(t, d, group))
         /\ CompleteAt(t, M, {"or"} \cup {"and"}, {}, d, p, GroupAnswer(t, d, group))
<1> DEFINE len == Len(t)
           r == GroupAnswer(t, d, group)
           deep == maxFilterDepth - d
<1>1. /\ len \in Nat /\ p \in Nat \ {0} /\ p <= len /\ maxFilterDepth \in Nat /\ deep \in Nat /\ d \in Nat
      /\ (d + 1) - 1 = d /\ deep - 1 = maxFilterDepth - (d + 1) /\ (d + 1 <= maxFilterDepth <=> deep > 0)
      /\ p \in 1..len + 1
  BY FiltersAssumption DEF Filters!FilterAssumption
<1>2. ASSUME r.ok PROVE ReadTo(t, M, {"or"} \cup {"and"}, d, p, r)
  <2> DEFINE g == group.pos
  <2>1. /\ d + 1 <= maxFilterDepth /\ group.ok /\ Filters!Is(t, g, ")")
        /\ r = Filters!Parsed(g + 1, group.depth - 1, group.accepted)
    BY <1>2 DEF GroupAnswer, Filters!errFilter
  <2>2. ReadTo(t, M, {}, d + 1, p + 1, group)
    BY <2>1 DEF SoundAt
  <2>3. /\ g \in (p + 1) + 1..len + 1 /\ <<p + 1, g - 1>> \in Class(t, M, {})
        /\ group.depth = d + 1 /\ group.accepted = M[<<p + 1, g - 1>>].accepted
        /\ Low(t, p + 1, g - 1, deep - 1)
    BY <1>1, <2>2, ParsedIs DEF ReadTo
  <2>4. g <= len /\ t[g].kind = ")"
    BY <2>1 DEF Filters!Is
  <2> HIDE DEF g, len, r, deep
  <2>5. g \in 1..len /\ p < g /\ g + 1 \in p + 1..len + 1 /\ (g + 1) - 1 = g
    <3>1. p \in Nat /\ len \in Nat /\ g \in (p + 1) + 1..len + 1 /\ g <= len
      BY <1>1, <2>3, <2>4
    <3> QED
      BY <3>1
  <2>6. Group(t, p, g) /\ M[<<p + 1, g - 1>>].ok
    BY <2>3, <2>4, <2>5 DEF Group, Class
  <2>7. /\ <<p, g>> \in Class(t, M, {"or"} \cup {"and"}) /\ M[<<p, g>>] = M[<<p + 1, g - 1>>]
        /\ \A x \in Nat : Low(t, p, g, x) <=> x > 0 /\ Low(t, p + 1, g - 1, x - 1)
    BY <2>5, <2>6, GroupHas DEF len
  <2>8. Low(t, p, g, deep)
    BY <1>1, <2>1, <2>3, <2>7
  <2>9. r.pos = g + 1 /\ r = Filters!Parsed(g + 1, d, M[<<p, g>>].accepted)
    BY <1>1, <2>1, <2>3, <2>7, ParsedIs
  <2> QED
    BY <2>5, <2>7, <2>8, <2>9 DEF ReadTo, deep, len
<1>3. ASSUME NEW q \in p + 1..len + 1, <<p, q - 1>> \in Class(t, M, {"or"} \cup {"and"}), Low(t, p, q - 1, deep)
      PROVE  r.ok /\ r.pos = q
  <2> DEFINE j == q - 1
  <2>1. j \in 0..len /\ j \in 1..len /\ j + 1 = q /\ q - 1 = j
    BY <1>1
  <2> HIDE DEF j
  <2>2. <<p, j>> \in Class(t, M, {"or"} \cup {"and"}) /\ Low(t, p, j, deep)
    BY <1>3, <2>1
  <2>3. Group(t, p, j) /\ M[<<p + 1, j - 1>>].ok
    <3>1. ~ComparisonAt(t, p)
      BY DEF ComparisonAt
    <3> QED
      BY <1>1, <2>1, <2>2, <3>1, PrimaryHas
  <2>4. /\ p + 1 < j
        /\ \A x \in Nat : Low(t, p, j, x) <=> x > 0 /\ Low(t, p + 1, j - 1, x - 1)
    BY <2>1, <2>3, GroupHas
  <2>5. deep > 0 /\ Low(t, p + 1, j - 1, maxFilterDepth - (d + 1))
    BY <1>1, <2>2, <2>4
  <2>6. d + 1 <= maxFilterDepth
    BY <1>1, <2>5
  <2>7. CompleteAt(t, M, {}, {"and"} \cup {"or"}, d + 1, p + 1, group)
    BY <2>6
  <2>8. j \in (p + 1) + 1..len + 1 /\ p + 1 \in 1..len + 1 /\ j - 1 \in 0..len
    BY <1>1, <2>1, <2>4
  <2>9. <<p + 1, j - 1>> \in Class(t, M, {})
    BY <2>3, <2>8 DEF Class, Segments
  <2>10. t[j].kind = ")" /\ j <= len
    BY <1>1, <2>1, <2>3 DEF Group
  <2>11. NoneOf(t, j, {"and"} \cup {"or"})
    BY <2>10 DEF NoneOf, Filters!Is
  <2>12. group.ok /\ group.pos = j
    BY <2>5, <2>7, <2>8, <2>9, <2>11 DEF CompleteAt
  <2>13. Filters!Is(t, group.pos, ")")
    BY <2>10, <2>12 DEF Filters!Is
  <2>14. r = Filters!Parsed(j + 1, group.depth - 1, group.accepted)
    BY <2>6, <2>12, <2>13 DEF GroupAnswer
  <2> HIDE DEF r
  <2> QED
    BY <2>1, <2>14, ParsedIs
<1> QED
  BY <1>2, <1>3 DEF SoundAt, CompleteAt, NoneOf

LEMMA ComparisonReads ==
  ASSUME NEW S, NEW t \in Seq(S), NEW M, Means(t, M), NEW d \in 0..maxFilterDepth,
         NEW p \in 1..Len(t), p + 2 <= Len(t), ComparisonAt(t, p), NEW r,
         r = Filters!Parsed(p + 3, d, Filters!comparison(t[p].text, t[p + 1].text, t[p + 2].text))
  PROVE  /\ SoundAt(t, M, {"or"} \cup {"and"}, {}, d, p, r)
         /\ CompleteAt(t, M, {"or"} \cup {"and"}, {}, d, p, r)
<1> DEFINE len == Len(t)
           deep == maxFilterDepth - d
<1>1. /\ len \in Nat /\ p \in Nat \ {0} /\ deep \in Nat /\ p \in 1..len + 1 /\ p + 2 <= len
      /\ p + 3 \in p + 1..len + 1 /\ (p + 3) - 1 = p + 2
  BY FiltersAssumption DEF Filters!FilterAssumption
<1>2. /\ <<p, p + 2>> \in Class(t, M, {"or"} \cup {"and"})
      /\ M[<<p, p + 2>>].accepted = Filters!comparison(t[p].text, t[p + 1].text, t[p + 2].text)
      /\ Low(t, p, p + 2, deep)
  BY <1>1, ComparisonHas
<1>3. r.ok /\ r.pos = p + 3 /\ r.pos - 1 = p + 2
  BY <1>1, ParsedIs
<1>4. ReadTo(t, M, {"or"} \cup {"and"}, d, p, r)
  BY <1>1, <1>2, <1>3 DEF ReadTo
<1>5. ASSUME NEW q \in p + 1..len + 1, <<p, q - 1>> \in Class(t, M, {"or"} \cup {"and"})
      PROVE  q = p + 3
  <2> DEFINE j == q - 1
  <2>1. j \in 0..len /\ j + 1 = q
    BY <1>1
  <2> HIDE DEF j
  <2>2. <<p, j>> \in Class(t, M, {"or"} \cup {"and"})
    BY <1>5 DEF j
  <2>3. ~Group(t, p, j)
    BY DEF Group, ComparisonAt
  <2>4. j = p + 2
    BY <1>1, <2>1, <2>2, <2>3, PrimaryHas
  <2> QED
    BY <1>1, <2>1, <2>4
<1> QED
  BY <1>3, <1>4, <1>5 DEF SoundAt, CompleteAt, NoneOf

LEMMA NothingReads ==
  ASSUME NEW S, NEW t \in Seq(S), NEW M, Means(t, M), NEW d \in 0..maxFilterDepth,
         NEW p \in 1..Len(t) + 1, ~Filters!Is(t, p, "("),
         ~(p + 2 <= Len(t) /\ ComparisonAt(t, p))
  PROVE  /\ SoundAt(t, M, {"or"} \cup {"and"}, {}, d, p, Filters!errFilter)
         /\ CompleteAt(t, M, {"or"} \cup {"and"}, {}, d, p, Filters!errFilter)
<1> DEFINE len == Len(t)
<1>1. len \in Nat /\ p \in Nat \ {0} /\ p \in 1..len + 1
  OBVIOUS
<1>2. ASSUME NEW q \in p + 1..len + 1, <<p, q - 1>> \in Class(t, M, {"or"} \cup {"and"}) PROVE FALSE
  <2> DEFINE j == q - 1
  <2>1. j \in 0..len /\ j <= len
    BY <1>1
  <2> HIDE DEF j
  <2>2. <<p, j>> \in Class(t, M, {"or"} \cup {"and"})
    BY <1>2 DEF j
  <2>3. Group(t, p, j) \/ (j = p + 2 /\ ComparisonAt(t, p))
    BY <2>1, <2>2, PrimaryHas
  <2>4. CASE Group(t, p, j)
    <3>1. p <= len /\ t[p].kind = "("
      BY <1>1, <2>1, <2>4 DEF Group
    <3> QED
      BY <3>1 DEF Filters!Is
  <2>5. CASE j = p + 2 /\ ComparisonAt(t, p)
    BY <2>1, <2>5
  <2> QED
    BY <2>3, <2>4, <2>5
<1>3. Filters!errFilter.ok = FALSE
  BY DEF Filters!errFilter
<1> QED
  BY <1>2, <1>3 DEF SoundAt, CompleteAt

LEMMA PrimaryReads ==
  ASSUME NEW S, NEW t \in Seq(S), NEW M, Means(t, M), NEW d \in 0..maxFilterDepth, NEW P,
         d + 1 <= maxFilterDepth => Reads(t, M, {}, {"and"} \cup {"or"}, d + 1, P),
         NEW A, \A p \in 1..Len(t) + 1 : A[<<p, d>>] = Filters!parsePrimary(t, P, <<p, d>>)
  PROVE  Reads(t, M, {"or"} \cup {"and"}, {}, d, A)
<1> DEFINE len == Len(t)
<1> SUFFICES ASSUME NEW p \in 1..len + 1
             PROVE  /\ SoundAt(t, M, {"or"} \cup {"and"}, {}, d, p, A[<<p, d>>])
                    /\ CompleteAt(t, M, {"or"} \cup {"and"}, {}, d, p, A[<<p, d>>])
  BY DEF Reads
<1>1. len \in Nat /\ maxFilterDepth \in Nat /\ p \in Nat \ {0}
  BY FiltersAssumption DEF Filters!FilterAssumption
<1>2. A[<<p, d>>] = Filters!parsePrimary(t, P, <<p, d>>)
  OBVIOUS
<1>3. CASE Filters!Is(t, p, "(")
  <2> DEFINE group == P[<<p + 1, d + 1>>]
  <2>1. p \in 1..len /\ t[p].kind = "(" /\ p + 1 \in 1..len + 1
    BY <1>1, <1>3 DEF Filters!Is
  <2>2. A[<<p, d>>] = GroupAnswer(t, d, group)
    <3>1. CASE d + 1 > maxFilterDepth
      <4>1. ~(d + 1 <= maxFilterDepth)
        BY <1>1, <3>1
      <4> QED
        BY <1>2, <1>3, <3>1, <4>1 DEF Filters!parsePrimary, GroupAnswer, Filters!errFilter
    <3>2. CASE ~(d + 1 > maxFilterDepth)
      <4>1. d + 1 <= maxFilterDepth
        BY <1>1, <3>2
      <4> QED
        BY <1>2, <1>3, <3>2, <4>1 DEF Filters!parsePrimary, GroupAnswer
    <3> QED
      BY <3>1, <3>2
  <2>3. d + 1 <= maxFilterDepth => /\ SoundAt(t, M, {}, {"and"} \cup {"or"}, d + 1, p + 1, group)
                                   /\ CompleteAt(t, M, {}, {"and"} \cup {"or"}, d + 1, p + 1, group)
    BY <2>1 DEF Reads
  <2> HIDE DEF group, len
  <2> QED
    BY <2>1, <2>2, <2>3, GroupReads DEF len
<1>4. CASE ~Filters!Is(t, p, "(") /\ p + 2 <= len /\ ComparisonAt(t, p)
  <2>1. /\ Filters!Is(t, p, "ident") /\ Filters!Is(t, p + 1, "op") /\ Filters!Is(t, p + 2, "literal")
        /\ p \in 1..len
    BY <1>1, <1>4 DEF Filters!Is, ComparisonAt
  <2>2. A[<<p, d>>] =
          Filters!Parsed(p + 3, d, Filters!comparison(t[p].text, t[p + 1].text, t[p + 2].text))
    BY <1>2, <1>4, <2>1 DEF Filters!parsePrimary
  <2> QED
    BY <1>4, <2>1, <2>2, ComparisonReads
<1>5. CASE ~Filters!Is(t, p, "(") /\ ~(p + 2 <= len /\ ComparisonAt(t, p))
  <2>1. ~(Filters!Is(t, p, "ident") /\ Filters!Is(t, p + 1, "op") /\ Filters!Is(t, p + 2, "literal"))
    BY <1>5 DEF Filters!Is, ComparisonAt
  <2>2. A[<<p, d>>] = Filters!errFilter
    BY <1>2, <1>5, <2>1 DEF Filters!parsePrimary
  <2> QED
    BY <1>5, <2>2, NothingReads
<1> QED
  BY <1>3, <1>4, <1>5

-----------------------------------------------------------------------------
(* parseOr reads what it should at one depth if it does behind the         *)
(* parentheses, at the next.                                               *)
ReadsAt(t, M, d, A) == Reads(t, M, {}, {"and"} \cup {"or"}, d, A)

PrimaryTable(t, P) == [a \in Filters!At(t) |-> Filters!parsePrimary(t, P, a)]
AndTable(t, P) == [a \in Filters!At(t) |-> Filters!parseAnd(t, P, a)]

LEMMA TableAt ==
  ASSUME NEW S, NEW t \in Seq(S), NEW P, NEW d \in 0..maxFilterDepth, NEW p \in 1..Len(t) + 1
  PROVE  /\ <<p, d>> \in Filters!At(t)
         /\ PrimaryTable(t, P)[<<p, d>>] = Filters!parsePrimary(t, P, <<p, d>>)
         /\ AndTable(t, P)[<<p, d>>] = Filters!parseAnd(t, P, <<p, d>>)
         /\ Filters!parseAnd(t, P, <<p, d>>) = Filters!Loop(t, "and", PrimaryTable(t, P), <<p, d>>)
         /\ Filters!parseOr(t, P, <<p, d>>) = Filters!Loop(t, "or", AndTable(t, P), <<p, d>>)
<1>1. <<p, d>> \in Filters!At(t)
  BY DEF Filters!At
<1>2. PrimaryTable(t, P)[<<p, d>>] = Filters!parsePrimary(t, P, <<p, d>>)
  BY <1>1 DEF PrimaryTable
<1>3. AndTable(t, P)[<<p, d>>] = Filters!parseAnd(t, P, <<p, d>>)
  BY <1>1 DEF AndTable
<1>4. Filters!parseAnd(t, P, <<p, d>>) = Filters!Loop(t, "and", PrimaryTable(t, P), <<p, d>>)
  BY DEF Filters!parseAnd, PrimaryTable
<1>5. Filters!parseOr(t, P, <<p, d>>) = Filters!Loop(t, "or", AndTable(t, P), <<p, d>>)
  BY DEF Filters!parseOr, AndTable
<1> QED
  BY <1>1, <1>2, <1>3, <1>4, <1>5

LEMMA TablesRead ==
  ASSUME NEW S, NEW t \in Seq(S), NEW M, Means(t, M), NEW d \in 0..maxFilterDepth, NEW P,
         d + 1 <= maxFilterDepth => ReadsAt(t, M, d + 1, P)
  PROVE  /\ Reads(t, M, {"or"} \cup {"and"}, {}, d, PrimaryTable(t, P))
         /\ Reads(t, M, {} \cup {"or"}, {} \cup {"and"}, d, AndTable(t, P))
<1>1. Reads(t, M, {"or"} \cup {"and"}, {}, d, PrimaryTable(t, P))
  <2>1. \A p \in 1..Len(t) + 1 :
          PrimaryTable(t, P)[<<p, d>>] = Filters!parsePrimary(t, P, <<p, d>>)
    BY TableAt
  <2>2. d + 1 <= maxFilterDepth => Reads(t, M, {}, {"and"} \cup {"or"}, d + 1, P)
    BY DEF ReadsAt
  <2> QED
    BY <2>1, <2>2, PrimaryReads
<1>2. LoopOver("and", {"or"}) /\ "and" \notin {}
  BY DEF LoopOver
<1>3. \A p \in 1..Len(t) + 1 :
        AndTable(t, P)[<<p, d>>] = Filters!Loop(t, "and", PrimaryTable(t, P), <<p, d>>)
  BY TableAt
<1>4. Reads(t, M, {"or"}, {} \cup {"and"}, d, AndTable(t, P))
  BY <1>1, <1>2, <1>3, LoopReads
<1>5. {} \cup {"or"} = {"or"}
  OBVIOUS
<1> QED
  BY <1>1, <1>4, <1>5

LEMMA OrReads ==
  ASSUME NEW S, NEW t \in Seq(S), NEW M, Means(t, M), NEW d \in 0..maxFilterDepth, NEW P,
         d + 1 <= maxFilterDepth => ReadsAt(t, M, d + 1, P),
         NEW B, \A p \in 1..Len(t) + 1 : B[<<p, d>>] = Filters!parseOr(t, P, <<p, d>>)
  PROVE  ReadsAt(t, M, d, B)
<1>1. Reads(t, M, {} \cup {"or"}, {} \cup {"and"}, d, AndTable(t, P))
  BY TablesRead
<1>2. LoopOver("or", {}) /\ "or" \notin {} \cup {"and"}
  BY DEF LoopOver
<1>3. \A p \in 1..Len(t) + 1 : B[<<p, d>>] = Filters!Loop(t, "or", AndTable(t, P), <<p, d>>)
  BY TableAt
<1>4. Reads(t, M, {}, ({} \cup {"and"}) \cup {"or"}, d, B)
  BY <1>1, <1>2, <1>3, LoopReads
<1>5. ({} \cup {"and"}) \cup {"or"} = {"and"} \cup {"or"}
  OBVIOUS
<1> QED
  BY <1>4, <1>5 DEF ReadsAt

-----------------------------------------------------------------------------
(* A parser asks the table for what is behind a parenthesis only, so that  *)
(* tables alike at the next depth give the same.                           *)
SameAt(t, d, A, B) == \A p \in 1..Len(t) + 1 : A[<<p, d>>] = B[<<p, d>>]

LEMMA LoopAlike ==
  ASSUME NEW S, NEW t \in Seq(S), NEW M, Means(t, M), NEW kind, NEW K, LoopOver(kind, K), NEW F,
         NEW d \in 0..maxFilterDepth, NEW A, Reads(t, M, K \cup {kind}, F, d, A),
         NEW B, SameAt(t, d, A, B), NEW p \in 1..Len(t) + 1
  PROVE  Filters!Loop(t, kind, A, <<p, d>>) = Filters!Loop(t, kind, B, <<p, d>>)
<1> DEFINE len == Len(t)
<1>1. PICK f : Rounds(t, kind, A, <<p, d>>, f, len) /\ Filters!Loop(t, kind, A, <<p, d>>) = f[len]
  BY LoopIs
<1>2. PICK g : Rounds(t, kind, B, <<p, d>>, g, len) /\ Filters!Loop(t, kind, B, <<p, d>>) = g[len]
  BY LoopIs
<1>3. len \in Nat /\ len <= len
  OBVIOUS
<1> DEFINE T == {m \in Nat : m <= len => f[m] = g[m]}
<1>4. 0 \in T
  BY <1>1, <1>2 DEF Rounds, SameAt
<1>5. ASSUME NEW m \in Nat, m \in T PROVE m + 1 \in T
  <2> SUFFICES ASSUME m + 1 <= len PROVE f[m + 1] = g[m + 1]
    OBVIOUS
  <2>1. m + 1 \in 1..len /\ (m + 1) - 1 = m /\ m \in 0..len
    BY <1>3
  <2>2. f[m] = g[m]
    BY <1>5, <2>1
  <2>3. f[m + 1] = LoopNext(t, kind, A, f[m])
    BY <1>1, <2>1 DEF Rounds
  <2>4. g[m + 1] = LoopNext(t, kind, B, f[m])
    BY <1>2, <2>1, <2>2 DEF Rounds
  <2>5. SoundAt(t, M, K, F, d, p, f[m])
    BY <1>1, <2>1, RoundsSound
  <2> DEFINE l == f[m]
  <2> HIDE DEF l
  <2>6. l.ok => ReadTo(t, M, K, d, p, l)
    BY <2>5 DEF SoundAt, l
  <2>7. l.ok /\ Filters!Is(t, l.pos, kind) => l.depth = d /\ l.pos \in p + 1..len + 1 /\ l.pos <= len
    BY <2>6, ParsedIs DEF ReadTo, Filters!Is
  <2>8. l.ok /\ Filters!Is(t, l.pos, kind) => l.pos + 1 \in 1..len + 1
    <3>1. p \in Nat
      BY <1>3
    <3> HIDE DEF len
    <3> QED
      BY <1>3, <2>7, <3>1
  <2>9. l.ok /\ Filters!Is(t, l.pos, kind) => A[<<l.pos + 1, l.depth>>] = B[<<l.pos + 1, l.depth>>]
    BY <2>7, <2>8 DEF SameAt
  <2>10. LoopNext(t, kind, A, l) = LoopNext(t, kind, B, l)
    BY <2>9 DEF LoopNext
  <2> QED
    BY <2>3, <2>4, <2>10 DEF l
<1>6. Nat \subseteq T
  <2> HIDE DEF T
  <2> QED
    BY <1>4, <1>5, NatSets
<1>7. f[len] = g[len]
  <2>1. len \in T
    <3> HIDE DEF T, len
    <3> QED
      BY <1>3, <1>6
  <2> HIDE DEF len
  <2> QED
    BY <1>3, <2>1
<1> QED
  BY <1>1, <1>2, <1>7

LEMMA OrAlike ==
  ASSUME NEW S, NEW t \in Seq(S), NEW M, Means(t, M), NEW d \in 0..maxFilterDepth, NEW P, NEW Q,
         d + 1 <= maxFilterDepth => ReadsAt(t, M, d + 1, P) /\ SameAt(t, d + 1, P, Q),
         NEW p \in 1..Len(t) + 1
  PROVE  Filters!parseOr(t, P, <<p, d>>) = Filters!parseOr(t, Q, <<p, d>>)
<1>1. ASSUME NEW x \in 1..Len(t) + 1
      PROVE  Filters!parsePrimary(t, P, <<x, d>>) = Filters!parsePrimary(t, Q, <<x, d>>)
  <2>1. maxFilterDepth \in Nat /\ d \in Nat
    BY FiltersAssumption DEF Filters!FilterAssumption
  <2>2. Filters!Is(t, x, "(") => x + 1 \in 1..Len(t) + 1
    BY DEF Filters!Is
  <2>3. d + 1 > maxFilterDepth \/ d + 1 <= maxFilterDepth
    BY <2>1
  <2>4. Filters!Is(t, x, "(") /\ ~(d + 1 > maxFilterDepth) => P[<<x + 1, d + 1>>] = Q[<<x + 1, d + 1>>]
    BY <2>2, <2>3 DEF SameAt
  <2> QED
    BY <2>4 DEF Filters!parsePrimary
<1>2. SameAt(t, d, PrimaryTable(t, P), PrimaryTable(t, Q))
  BY <1>1, TableAt DEF SameAt
<1>3. /\ Reads(t, M, {"or"} \cup {"and"}, {}, d, PrimaryTable(t, P))
      /\ Reads(t, M, {} \cup {"or"}, {} \cup {"and"}, d, AndTable(t, P))
  BY TablesRead
<1>4. LoopOver("and", {"or"}) /\ LoopOver("or", {})
  BY DEF LoopOver
<1>5. ASSUME NEW x \in 1..Len(t) + 1
      PROVE  Filters!Loop(t, "and", PrimaryTable(t, P), <<x, d>>)
               = Filters!Loop(t, "and", PrimaryTable(t, Q), <<x, d>>)
  BY <1>2, <1>3, <1>4, LoopAlike
<1>6. SameAt(t, d, AndTable(t, P), AndTable(t, Q))
  BY <1>5, TableAt DEF SameAt
<1>7. Filters!Loop(t, "or", AndTable(t, P), <<p, d>>) = Filters!Loop(t, "or", AndTable(t, Q), <<p, d>>)
  BY <1>3, <1>4, <1>6, LoopAlike
<1>8. Filters!parseOr(t, P, <<p, d>>) = Filters!Loop(t, "or", AndTable(t, P), <<p, d>>)
  BY TableAt
<1>9. Filters!parseOr(t, Q, <<p, d>>) = Filters!Loop(t, "or", AndTable(t, Q), <<p, d>>)
  BY TableAt
<1> QED
  BY <1>7, <1>8, <1>9

-----------------------------------------------------------------------------
(* The parser is there, by induction from the greatest depth.              *)
ParsesFrom(t, M, f, m) ==
  /\ f = [a \in Filters!At(t) |-> f[a]]
  /\ \A d \in 0..maxFilterDepth :
       d + m > maxFilterDepth
       => /\ ReadsAt(t, M, d, f)
          /\ \A p \in 1..Len(t) + 1 : f[<<p, d>>] = Filters!parseOr(t, f, <<p, d>>)

LEMMA ParsesOn ==
  ASSUME NEW S, NEW t \in Seq(S), NEW M, Means(t, M), NEW f, NEW m \in Nat, ParsesFrom(t, M, f, m)
  PROVE  \E g : ParsesFrom(t, M, g, m + 1)
<1> DEFINE len == Len(t)
           g == [a \in Filters!At(t) |-> Filters!parseOr(t, f, a)]
<1>1. g = [a \in Filters!At(t) |-> g[a]]
  OBVIOUS
<1>2. \A d \in 0..maxFilterDepth, p \in 1..len + 1 : g[<<p, d>>] = Filters!parseOr(t, f, <<p, d>>)
  BY DEF Filters!At
<1>3. maxFilterDepth \in Nat
  BY FiltersAssumption DEF Filters!FilterAssumption
<1> HIDE DEF g
<1>4. ASSUME NEW d \in 0..maxFilterDepth, d + (m + 1) > maxFilterDepth
      PROVE  /\ ReadsAt(t, M, d, g)
             /\ \A p \in 1..len + 1 : g[<<p, d>>] = Filters!parseOr(t, g, <<p, d>>)
  <2>1. d + 1 <= maxFilterDepth => d + 1 \in 0..maxFilterDepth /\ (d + 1) + m > maxFilterDepth
    BY <1>3, <1>4
  <2>2. d + 1 <= maxFilterDepth => ReadsAt(t, M, d + 1, f)
    BY <2>1 DEF ParsesFrom
  <2>3. d + 1 <= maxFilterDepth => SameAt(t, d + 1, f, g)
    BY <1>2, <2>1 DEF ParsesFrom, SameAt
  <2>4. ReadsAt(t, M, d, g)
    BY <1>2, <2>2, OrReads
  <2>5. ASSUME NEW p \in 1..len + 1
        PROVE  Filters!parseOr(t, f, <<p, d>>) = Filters!parseOr(t, g, <<p, d>>)
    <3>1. CASE d + 1 <= maxFilterDepth
      <4>1. ReadsAt(t, M, d + 1, f) /\ SameAt(t, d + 1, f, g)
        BY <2>2, <2>3, <3>1
      <4> QED
        BY <4>1, OrAlike
    <3>2. CASE ~(d + 1 <= maxFilterDepth)
      BY <3>2, OrAlike
    <3> QED
      BY <3>1, <3>2
  <2> QED
    BY <1>2, <2>4, <2>5
<1> QED
  BY <1>1, <1>4 DEF ParsesFrom

LEMMA ParserIs ==
  ASSUME NEW S, NEW t \in Seq(S)
  PROVE  \A d \in 0..maxFilterDepth, p \in 1..Len(t) + 1 :
           Filters!filterParser(t)[<<p, d>>] = Filters!parseOr(t, Filters!filterParser(t), <<p, d>>)
<1> DEFINE M == Filters!Meaning(t)
           body(f) == [a \in Filters!At(t) |-> Filters!parseOr(t, f, a)]
           P == CHOOSE f : f = body(f)
           T == {m \in Nat : \E f : ParsesFrom(t, M, f, m)}
<1>1. Filters!filterParser(t) = P
  BY DEF Filters!filterParser
<1>2. maxFilterDepth \in Nat
  BY FiltersAssumption DEF Filters!FilterAssumption
<1>3. Means(t, M)
  BY MeaningIs
<1> HIDE DEF M
<1>4. 0 \in T
  <2> DEFINE f == [a \in Filters!At(t) |-> 0]
  <2>1. f = [a \in Filters!At(t) |-> f[a]]
    OBVIOUS
  <2>2. \A d \in 0..maxFilterDepth : ~(d + 0 > maxFilterDepth)
    BY <1>2
  <2> HIDE DEF f
  <2>3. ParsesFrom(t, M, f, 0)
    BY <2>1, <2>2 DEF ParsesFrom
  <2> QED
    BY <2>3
<1>5. \A m \in Nat : m \in T => m + 1 \in T
  BY <1>3, ParsesOn
<1>6. Nat \subseteq T
  <2> HIDE DEF T
  <2> QED
    BY <1>4, <1>5, NatSets
<1>7. PICK f : ParsesFrom(t, M, f, maxFilterDepth + 1)
  BY <1>2, <1>6
<1>8. f = body(f)
  <2>1. ASSUME NEW a \in Filters!At(t) PROVE f[a] = Filters!parseOr(t, f, a)
    <3>1. PICK p \in 1..Len(t) + 1, d \in 0..maxFilterDepth : a = <<p, d>>
      BY DEF Filters!At
    <3>2. d + (maxFilterDepth + 1) > maxFilterDepth
      BY <1>2
    <3> QED
      BY <1>7, <3>1, <3>2 DEF ParsesFrom
  <2>2. f = [a \in Filters!At(t) |-> f[a]]
    BY <1>7 DEF ParsesFrom
  <2> QED
    BY <2>1, <2>2
<1> HIDE DEF body
<1>9. P = body(P)
  BY <1>8
<1> HIDE DEF P
<1>10. \A d \in 0..maxFilterDepth, p \in 1..Len(t) + 1 : P[<<p, d>>] = Filters!parseOr(t, P, <<p, d>>)
  BY <1>9 DEF body, Filters!At
<1> QED
  BY <1>1, <1>10

LEMMA ParserReads ==
  ASSUME NEW S, NEW t \in Seq(S), NEW M, Means(t, M)
  PROVE  ReadsAt(t, M, 0, Filters!filterParser(t))
<1> DEFINE P == Filters!filterParser(t)
           T == {m \in Nat : \A d \in 0..maxFilterDepth : d + m > maxFilterDepth => ReadsAt(t, M, d, P)}
<1>1. maxFilterDepth \in Nat
  BY FiltersAssumption DEF Filters!FilterAssumption
<1>2. \A d \in 0..maxFilterDepth, p \in 1..Len(t) + 1 : P[<<p, d>>] = Filters!parseOr(t, P, <<p, d>>)
  BY ParserIs
<1> HIDE DEF P
<1>3. 0 \in T
  BY <1>1
<1>4. ASSUME NEW m \in Nat, m \in T PROVE m + 1 \in T
  <2> SUFFICES ASSUME NEW d \in 0..maxFilterDepth, d + (m + 1) > maxFilterDepth PROVE ReadsAt(t, M, d, P)
    OBVIOUS
  <2>1. d + 1 <= maxFilterDepth => d + 1 \in 0..maxFilterDepth /\ (d + 1) + m > maxFilterDepth
    BY <1>1
  <2>2. d + 1 <= maxFilterDepth => ReadsAt(t, M, d + 1, P)
    BY <1>4, <2>1
  <2> QED
    BY <1>2, <2>2, OrReads
<1>5. Nat \subseteq T
  <2> HIDE DEF T
  <2> QED
    BY <1>3, <1>4, NatSets
<1>6. maxFilterDepth + 1 \in T
  <2> HIDE DEF T
  <2> QED
    BY <1>1, <1>5
<1>7. 0 \in 0..maxFilterDepth /\ 0 + (maxFilterDepth + 1) > maxFilterDepth
  BY <1>1
<1>8. ReadsAt(t, M, 0, P)
  BY <1>6, <1>7
<1> QED
  BY <1>8 DEF P

LEMMA FilterMeans ==
  ASSUME NEW S, expr \in Seq(S), filter = Filters!parseFilter(expr)
  PROVE  Filters!MeansWhatItSays
<1> DEFINE t == expr
           len == Len(t)
           M == Filters!Meaning(t)
           P == Filters!filterParser(t)
           all == P[<<1, 0>>]
           K == {"and"} \cup {"or"}
           deep == maxFilterDepth
<1> SUFFICES ASSUME t # <<>>
             PROVE  /\ filter.ok <=> M[<<1, len>>].ok /\ ~Filters!TooDeep
                    /\ filter.ok => filter.accepted = M[<<1, len>>].accepted
  BY DEF Filters!MeansWhatItSays
<1>1. len \in Nat \ {0} /\ deep \in Nat
  BY FiltersAssumption, EmptySeq DEF Filters!FilterAssumption
<1>2. Means(t, M)
  BY MeaningIs
<1>3. /\ SoundAt(t, M, {}, K, 0, 1, all)
      /\ CompleteAt(t, M, {}, K, 0, 1, all)
  <2>1. 1 \in 1..len + 1
    BY <1>1
  <2>2. ReadsAt(t, M, 0, P)
    BY <1>2, ParserReads
  <2> HIDE DEF M, P, len
  <2> QED
    BY <2>1, <2>2 DEF ReadsAt, Reads, len
<1>4. filter = IF all.ok /\ all.pos = len + 1 THEN all ELSE Filters!errFilter
  BY DEF Filters!parseFilter
<1>5. \A q \in 1..len + 1 : NoneOf(t, q, K) <=> q = len + 1 \/ ~(t[q].kind \in K)
  BY <1>1 DEF NoneOf, Filters!Is
<1>6. Low(t, 1, len, deep) <=> ~Filters!TooDeep
  <2>1. Level(t, 1 - 1) = 0
    BY LevelIs
  <2>2. DOMAIN t = 1..len
    OBVIOUS
  <2>3. \A k \in 1..len : Level(t, k) \in Int
    BY LevelIs
  <2> HIDE DEF len
  <2>4. \A k \in 1..len : Level(t, k) - 0 <= deep <=> ~(Level(t, k) > deep)
    BY <1>1, <2>3
  <2> QED
    BY <2>1, <2>2, <2>4 DEF Low, Filters!TooDeep, Level
<1>7. <<1, len>> \in Segments(t)
  BY <1>1 DEF Segments
<1>8. <<1, len>> \in Class(t, M, {}) <=> M[<<1, len>>].ok
  BY <1>7 DEF Class
<1>9. (len + 1) - 1 = len /\ len + 1 \in 1 + 1..len + 1 /\ len + 1 \in 1..len + 1 /\ deep - 0 = deep
  BY <1>1
<1> DEFINE end == len + 1
<1>10. (end - 1) = len /\ end \in 1 + 1..end /\ NoneOf(t, end, K)
  BY <1>5, <1>9
<1> HIDE DEF M, P, K
<1>11. ASSUME filter.ok
       PROVE  M[<<1, len>>].ok /\ ~Filters!TooDeep /\ filter.accepted = M[<<1, len>>].accepted
  <2>1. filter = all /\ all.ok /\ all.pos = end
    BY <1>4, <1>11 DEF Filters!errFilter
  <2>2. ReadTo(t, M, {}, 0, 1, all)
    BY <1>3, <2>1 DEF SoundAt
  <2> HIDE DEF end, len
  <2>3. <<1, len>> \in Class(t, M, {}) /\ Low(t, 1, len, deep) /\ all.accepted = M[<<1, len>>].accepted
    <3>1. all.pos - 1 = len /\ deep - 0 = deep
      BY <1>9, <1>10, <2>1
    <3>2. /\ <<1, all.pos - 1>> \in Class(t, M, {}) /\ Low(t, 1, all.pos - 1, deep - 0)
          /\ all.accepted = M[<<1, all.pos - 1>>].accepted
      BY <2>2, ParsedIs DEF ReadTo
    <3> QED
      BY <3>1, <3>2
  <2> QED
    BY <1>6, <1>8, <2>1, <2>3
<1>12. ASSUME M[<<1, len>>].ok, ~Filters!TooDeep PROVE filter.ok
  <2>1. <<1, len>> \in Class(t, M, {}) /\ Low(t, 1, len, deep)
    BY <1>6, <1>8, <1>12
  <2>2. all.ok /\ all.pos = end
    BY <1>3, <1>9, <1>10, <2>1 DEF CompleteAt
  <2> QED
    BY <1>4, <2>2
<1> QED
  BY <1>11, <1>12

Tokens == UNION {Filters!ToSet(phrase) : phrase \in Phrase}

FilterInv == expr \in Seq(Tokens) /\ filter = Filters!parseFilter(expr)

LEMMA FilterInit == Filters!Init => FilterInv
  BY DEF Filters!Init, FilterInv

LEMMA FilterStep == FilterInv /\ [Filters!Next]_Filters!filterVars => FilterInv'
<1> SUFFICES ASSUME FilterInv, [Filters!Next]_Filters!filterVars PROVE FilterInv'
  OBVIOUS
<1>1. ASSUME NEW phrase \in Phrase, Filters!Query(phrase) PROVE FilterInv'
  <2>1. phrase \in Seq(Filters!ToSet(phrase)) /\ Filters!ToSet(phrase) \subseteq Tokens
    BY FiltersAssumption DEF Filters!FilterAssumption, Tokens
  <2>2. phrase \in Seq(Tokens)
    BY <2>1
  <2>3. expr' \in Seq(Tokens)
    BY <1>1, <2>2 DEF Filters!Query, FilterInv
  <2>4. filter' = Filters!parseFilter(expr')
    BY <1>1 DEF Filters!Query
  <2>5. FilterInv' = (expr' \in Seq(Tokens) /\ filter' = Filters!parseFilter(expr'))
    BY DEF FilterInv, Filters!parseFilter
  <2> QED
    BY <2>3, <2>4, <2>5
<1>2. CASE UNCHANGED Filters!filterVars
  BY <1>2 DEF Filters!filterVars, FilterInv, Tokens
<1> QED
  BY <1>1, <1>2 DEF Filters!Next

(* A filter is refused exactly if it is malformed or nested too deeply,    *)
(* and accepts what it means, however it is put together (FiltersMean;     *)
(* parseOr, parseAnd, parsePrimary).                                       *)
THEOREM FiltersAccept == AnySpec => []FiltersMean
<1>1. AnyInit => FilterInv
  BY FilterInit DEF AnyInit
<1>2. [AnyNext]_allVars => [Filters!Next]_Filters!filterVars
  BY DEF AnyNext, allVars, serviceVars, filterVars, Filters!filterVars
<1>3. FilterInv => FiltersMean
  BY FilterMeans DEF FilterInv, FiltersMean
<1> QED
  BY <1>1, <1>2, <1>3, FilterStep, PTL DEF AnySpec
=============================================================================
