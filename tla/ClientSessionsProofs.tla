------------------------- MODULE ClientSessionsProofs -------------------------
(***************************************************************************)
(* Theorems about ClientSessions, for any number of records, requests,     *)
(* natural keys, queries, subscriptions and calls.                         *)
(***************************************************************************)
EXTENDS ClientSessions, DataStoreProofs

(***************************************************************************)
(* Sets of numbers.                                                        *)
(***************************************************************************)
LEMMA SmallestNumber ==
  ASSUME NEW S \in SUBSET Nat, S # {}
  PROVE  Smallest(S) \in S /\ \A y \in S : Smallest(S) <= y
  BY LeastNumber DEF Smallest

LEMMA GreatestNumber ==
  ASSUME NEW n \in Nat, NEW S \in SUBSET (0..n), S # {}
  PROVE  Greatest(S) \in S /\ \A y \in S : Greatest(S) >= y
<1> DEFINE D == {n - x : x \in S}
<1>1. D \in SUBSET Nat /\ D # {}
  <2>1. ASSUME NEW y \in D PROVE y \in Nat
    <3>1. PICK x \in S : y = n - x
      OBVIOUS
    <3>2. x \in 0..n
      OBVIOUS
    <3> QED
      BY <3>1, <3>2
  <2>2. PICK x \in S : TRUE
    OBVIOUS
  <2>3. n - x \in D
    OBVIOUS
  <2> QED
    BY <2>1, <2>3
<1>2. PICK d \in D : \A y \in D : d <= y
  BY <1>1, LeastNumber
<1>3. PICK x \in S : d = n - x
  BY <1>2
<1>4. \A y \in S : n - y \in D
  OBVIOUS
<1>5. ASSUME NEW y \in S PROVE x >= y
  <2>1. n - x <= n - y /\ x \in 0..n /\ y \in 0..n
    BY <1>2, <1>3, <1>4
  <2> QED
    BY <2>1
<1> QED
  BY <1>3, <1>5 DEF Greatest

\* The first n of a set: with one of them come all that are smaller.
LEMMA FirstBegins ==
  ASSUME NEW S, IsFiniteSet(S), S \subseteq Nat, NEW n \in Nat
  PROVE  /\ First(n, S) \subseteq S
         /\ \A x \in First(n, S), y \in S : y <= x => y \in First(n, S)
         /\ n # 0 /\ S # {} => First(n, S) # {}
<1>1. First(n, S) \subseteq S
  BY DEF First
<1>2. ASSUME NEW x \in First(n, S), NEW y \in S, y <= x
      PROVE  y \in First(n, S)
  <2> DEFINE Below(z) == {w \in S : w < z}
  <2>1. Below(x) \subseteq S /\ Below(y) \subseteq Below(x)
    <3>1. x \in Nat /\ y \in Nat /\ \A w \in S : w \in Nat
      BY <1>1
    <3>2. \A w \in S : w < y => w < x
      BY <1>2, <3>1
    <3> QED
      BY <3>2
  <2>2. IsFiniteSet(Below(x)) /\ IsFiniteSet(Below(y))
    BY <2>1, FS_Subset
  <2>3. Cardinality(Below(y)) <= Cardinality(Below(x))
    BY <2>1, <2>2, FS_Subset
  <2>4. Cardinality(Below(x)) < n
    BY DEF First
  <2>5. Cardinality(Below(x)) \in Nat /\ Cardinality(Below(y)) \in Nat
    BY <2>2, FS_CardinalityType
  <2> HIDE DEF Below
  <2>6. Cardinality(Below(y)) < n
    BY <2>3, <2>4, <2>5
  <2> QED
    BY <2>6 DEF First, Below
<1>3. ASSUME n # 0, S # {}
      PROVE  First(n, S) # {}
  <2>1. PICK x \in S : \A y \in S : x <= y
    BY <1>3, LeastNumber
  <2>2. {y \in S : y < x} = {}
    <3>1. ASSUME NEW y \in S PROVE ~(y < x)
      <4>1. x \in Nat /\ y \in Nat /\ x <= y
        BY <2>1
      <4> QED
        BY <4>1
    <3> QED
      BY <3>1
  <2>3. Cardinality({y \in S : y < x}) = 0
    BY <2>2, FS_EmptySet
  <2>4. x \in First(n, S)
    BY <1>3, <2>3 DEF First
  <2> QED
    BY <2>4
<1> QED
  BY <1>1, <1>2, <1>3

\* What is not among the first n has n before it.
LEMMA NotFirst ==
  ASSUME NEW S, IsFiniteSet(S), NEW n \in Nat, NEW x \in S, S \subseteq Nat,
         x \notin First(n, S)
  PROVE  Cardinality(S) > n
<1> DEFINE B == {y \in S : y < x}
<1>1. B \subseteq S /\ IsFiniteSet(B) /\ Cardinality(B) \in Nat /\ Cardinality(S) \in Nat
  BY FS_Subset, FS_CardinalityType
<1>2. Cardinality(B) >= n
  BY <1>1 DEF First
<1>3. B # S
  <2>1. x \in Nat /\ ~(x < x)
    OBVIOUS
  <2> QED
    BY <2>1
<1>4. Cardinality(B) < Cardinality(S)
  <2> HIDE DEF B
  <2>1. Cardinality(B) <= Cardinality(S) /\ Cardinality(B) # Cardinality(S)
    BY <1>1, <1>3, FS_Subset
  <2> QED
    BY <1>1, <2>1
<1> QED
  BY <1>1, <1>2, <1>4

\* Sets of numbers up to a bound are finite.
LEMMA NumbersFinite ==
  ASSUME NEW m \in Nat, NEW S \in SUBSET (0..m)
  PROVE  IsFiniteSet(S) /\ S \subseteq Nat /\ Cardinality(S) \in Nat
<1>1. IsFiniteSet(0..m)
  BY FS_Interval
<1>2. IsFiniteSet(S)
  BY <1>1, FS_Subset
<1> QED
  BY <1>2, FS_CardinalityType

\* A part counts no more than the whole, and a union no more than both sets.
LEMMA Counted ==
  ASSUME NEW m \in Nat, NEW S \in SUBSET (0..m), NEW T \in SUBSET (0..m)
  PROVE  /\ S \subseteq T => Cardinality(S) <= Cardinality(T)
         /\ Cardinality(S \cup T) <= Cardinality(S) + Cardinality(T)
<1>1. /\ IsFiniteSet(S) /\ Cardinality(S) \in Nat
      /\ IsFiniteSet(T) /\ Cardinality(T) \in Nat
  BY NumbersFinite
<1>2. S \subseteq T => Cardinality(S) <= Cardinality(T)
  BY <1>1, FS_Subset
<1>3. Cardinality(S \cup T) = Cardinality(S) + Cardinality(T) - Cardinality(S \cap T)
  BY <1>1, FS_Union
<1>4. S \cap T \in SUBSET (0..m)
  OBVIOUS
<1>5. Cardinality(S \cap T) \in Nat
  BY <1>4, NumbersFinite
<1> QED
  BY <1>1, <1>2, <1>3, <1>5

Splits(W, S, T) == S \cup T = W /\ S \cap T = {}

\* A set counts as much as the two parts it is split into.
LEMMA CountedApart ==
  ASSUME NEW W, IsFiniteSet(W), NEW S, NEW T, Splits(W, S, T)
  PROVE  Cardinality(W) = Cardinality(S) + Cardinality(T)
<1>1. S \in SUBSET W /\ T \in SUBSET W /\ S \cup T = W /\ S \cap T = {}
  BY DEF Splits
<1>2. IsFiniteSet(S) /\ IsFiniteSet(T)
  BY <1>1, FS_Subset
<1>3. Cardinality(S) \in Nat /\ Cardinality(T) \in Nat
  BY <1>2, FS_CardinalityType
<1>4. Cardinality(S \cup T) = Cardinality(S) + Cardinality(T) - Cardinality(S \cap T)
  BY <1>2, FS_Union
<1>5. Cardinality(S \cap T) = 0
  BY <1>1, FS_EmptySet
<1>6. Cardinality(S \cup T) = Cardinality(S) + Cardinality(T)
  BY <1>3, <1>4, <1>5
<1> QED
  BY <1>1, <1>6, Zenon

\* The first n are n, unless they are all.
LEMMA FirstCounts ==
  ASSUME NEW m \in Nat, NEW S \in SUBSET (0..m), NEW n \in Nat
  PROVE  /\ Cardinality(First(n, S)) <= n
         /\ First(n, S) # S => Cardinality(First(n, S)) = n
<1> DEFINE A == First(n, S)
           Below(x) == {y \in S : y < x}
<1>1. A \in SUBSET S /\ A \in SUBSET (0..m) /\ IsFiniteSet(S) /\ S \subseteq Nat
  BY NumbersFinite DEF First
<1>2. Cardinality(A) \in Nat /\ IsFiniteSet(A)
  BY <1>1, NumbersFinite
<1>3. \A x : Below(x) \in SUBSET (0..m) /\ Cardinality(Below(x)) \in Nat
  <2> TAKE x
  <2>1. Below(x) \in SUBSET (0..m)
    OBVIOUS
  <2> QED
    BY <2>1, NumbersFinite
<1>4. \A x \in S : x \in A <=> Cardinality(Below(x)) < n
  BY DEF First
<1>5. Cardinality(A) <= n
  <2>1. CASE A = {}
    BY <2>1, FS_EmptySet
  <2>2. CASE A # {}
    <3>1. PICK x \in A : \A y \in A : x >= y
      BY <1>1, <2>2, GreatestNumber
    <3>2. A \subseteq Below(x) \cup {x}
      <4> SUFFICES ASSUME NEW y \in A, y # x PROVE y < x
        BY <1>1
      <4>1. x >= y /\ x \in Nat /\ y \in Nat
        BY <1>1, <3>1
      <4> QED
        BY <4>1
    <3>3. Cardinality({x}) = 1 /\ {x} \in SUBSET (0..m) /\ Cardinality(Below(x)) < n
      BY <1>1, <1>4, FS_Singleton
    <3> HIDE DEF A, Below
    <3>4. Cardinality(Below(x) \cup {x}) <= Cardinality(Below(x)) + Cardinality({x})
      BY <1>3, <3>3, Counted
    <3>5. /\ Below(x) \cup {x} \in SUBSET (0..m)
          /\ Cardinality(Below(x) \cup {x}) \in Nat
      BY <1>3, <3>3, NumbersFinite
    <3>6. Cardinality(A) <= Cardinality(Below(x) \cup {x})
      BY <1>1, <3>2, <3>5, Counted
    <3> QED
      BY <1>2, <1>3, <3>3, <3>4, <3>5, <3>6
  <2> QED
    BY <2>1, <2>2
<1>6. ASSUME A # S PROVE Cardinality(A) >= n
  <2>1. S \ A # {} /\ S \ A \in SUBSET Nat
    BY <1>1, <1>6
  <2>2. PICK x \in S \ A : \A y \in S \ A : x <= y
    BY <2>1, LeastNumber
  <2>3. Below(x) \subseteq A
    <3> SUFFICES ASSUME NEW y \in S, y < x, y \notin A PROVE FALSE
      OBVIOUS
    <3>1. x <= y /\ x \in Nat /\ y \in Nat
      BY <1>1, <2>2
    <3> QED
      BY <3>1
  <2>4. ~(Cardinality(Below(x)) < n)
    BY <1>4, <2>2
  <2> HIDE DEF A, Below
  <2>5. Cardinality(Below(x)) <= Cardinality(A)
    BY <1>1, <1>3, <2>3, Counted
  <2> QED
    BY <1>2, <1>3, <2>4, <2>5
<1> QED
  BY <1>2, <1>5, <1>6

\* When a set changes, no more of what stays come to be among its first n than
\* leave them.
LEMMA PushedForward ==
  ASSUME NEW m \in Nat, NEW S \in SUBSET (0..m), NEW T \in SUBSET (0..m), NEW n \in Nat
  PROVE  Cardinality((S \cap First(n, T)) \ First(n, S)) <= Cardinality(First(n, S) \ T)
<1> DEFINE A == First(n, S)
           B == First(n, T)
           P == (S \cap B) \ A
           In == A \cap T
           Out == A \ T
<1>1. /\ IsFiniteSet(S) /\ S \subseteq Nat /\ IsFiniteSet(T) /\ T \subseteq Nat
  BY NumbersFinite
<1>2. /\ A \subseteq S /\ \A x \in A, y \in S : y <= x => y \in A
      /\ B \subseteq T /\ \A x \in B, y \in T : y <= x => y \in B
  BY <1>1, FirstBegins
<1>3. Cardinality(A) <= n /\ (A # S => Cardinality(A) = n) /\ Cardinality(B) <= n
  BY FirstCounts
<1>4. /\ A \in SUBSET (0..m) /\ In \in SUBSET (0..m) /\ Out \in SUBSET (0..m)
      /\ B \in SUBSET (0..m) /\ P \in SUBSET (0..m)
  BY <1>2
<1> HIDE DEF A, B
<1>5. /\ IsFiniteSet(A) /\ IsFiniteSet(B) /\ IsFiniteSet(In \cup P)
  BY <1>4, NumbersFinite
<1>6. /\ Cardinality(A) \in Nat /\ Cardinality(In) \in Nat /\ Cardinality(Out) \in Nat
      /\ Cardinality(B) \in Nat /\ Cardinality(P) \in Nat
  BY <1>4, NumbersFinite
<1>7. CASE P = {}
  <2>1. Cardinality(P) = 0
    BY <1>7, FS_EmptySet
  <2> QED
    BY <1>6, <2>1 DEF A, B
<1>8. CASE P # {}
  <2>1. PICK x \in P : TRUE
    BY <1>8
  <2>2. In \subseteq B
    <3> SUFFICES ASSUME NEW y \in A, y \in T PROVE y \in B
      OBVIOUS
    <3>1. ~(x <= y)
      BY <1>2, <2>1
    <3>2. x \in Nat /\ y \in Nat
      BY <1>1, <1>2, <2>1
    <3>3. y <= x
      BY <3>1, <3>2
    <3> QED
      BY <1>2, <2>1, <3>3
  <2>3. A # S
    BY <2>1
  <2>4. In \cup P \subseteq B /\ Splits(In \cup P, In, P)
    BY <2>2 DEF Splits
  <2>5. Splits(A, In, Out)
    BY DEF Splits
  <2> HIDE DEF P, In, Out
  <2>6. Cardinality(In \cup P) = Cardinality(In) + Cardinality(P)
    BY <1>5, <2>4, CountedApart
  <2>7. Cardinality(In \cup P) <= Cardinality(B)
    BY <1>4, <2>4, Counted
  <2>8. Cardinality(A) = Cardinality(In) + Cardinality(Out)
    BY <1>5, <2>5, CountedApart
  <2>9. Cardinality(A) = n
    BY <1>3, <2>3
  <2>10. Cardinality(P) <= Cardinality(Out)
    BY <1>3, <1>6, <2>6, <2>7, <2>8, <2>9
  <2> QED
    BY <2>10 DEF A, B, P, Out
<1> QED
  BY <1>7, <1>8

\* What matched all the time, has not been returned and is before the offset;
\* and what has been returned and is not.
Skipped(S, n, steady, got) == (steady \ got) \cap First(n, S)
Again(S, n, got) == (got \cap S) \ First(n, S)

\* A write makes a query skip no more records than left the result ...
LEMMA SkippedMore ==
  ASSUME NEW m \in Nat, NEW S \in SUBSET (0..m), NEW T \in SUBSET (0..m), NEW n \in Nat,
         NEW U \in SUBSET S, NEW got
  PROVE  Cardinality(Skipped(T, n, U \cap T, got))
           <= Cardinality(Skipped(S, n, U, got)) + Cardinality(S \ T)
<1> DEFINE K == Skipped(S, n, U, got)
           L == Skipped(T, n, U \cap T, got)
           P == (S \cap First(n, T)) \ First(n, S)
           Q == First(n, S) \ T
           D == S \ T
<1>1. /\ K \in SUBSET (0..m) /\ L \in SUBSET (0..m) /\ P \in SUBSET (0..m)
      /\ Q \in SUBSET (0..m) /\ D \in SUBSET (0..m)
  BY DEF Skipped, First
<1>2. L \subseteq K \cup P /\ Q \subseteq D
  BY DEF Skipped, First
<1>3. Cardinality(P) <= Cardinality(Q)
  BY PushedForward
<1> HIDE DEF K, L, P, Q, D
<1>4. K \cup P \in SUBSET (0..m)
  BY <1>1
<1>5. /\ Cardinality(K) \in Nat /\ Cardinality(L) \in Nat /\ Cardinality(P) \in Nat
      /\ Cardinality(Q) \in Nat /\ Cardinality(D) \in Nat /\ Cardinality(K \cup P) \in Nat
  BY <1>1, <1>4, NumbersFinite
<1>6. /\ Cardinality(L) <= Cardinality(K \cup P)
      /\ Cardinality(K \cup P) <= Cardinality(K) + Cardinality(P)
      /\ Cardinality(Q) <= Cardinality(D)
  BY <1>1, <1>2, <1>4, Counted
<1>7. Cardinality(L) <= Cardinality(K) + Cardinality(D)
  BY <1>3, <1>5, <1>6
<1> QED
  BY <1>7 DEF K, L, D

\* ... and come again to no more than entered it.
LEMMA AgainMore ==
  ASSUME NEW m \in Nat, NEW S \in SUBSET (0..m), NEW T \in SUBSET (0..m), NEW n \in Nat,
         NEW got
  PROVE  Cardinality(Again(T, n, got)) <= Cardinality(Again(S, n, got)) + Cardinality(T \ S)
<1> DEFINE K == Again(S, n, got)
           L == Again(T, n, got)
           P == (T \cap First(n, S)) \ First(n, T)
           Q == First(n, T) \ S
           E == T \ (S \cup First(n, T))
           D == T \ S
<1>1. /\ K \in SUBSET (0..m) /\ L \in SUBSET (0..m) /\ P \in SUBSET (0..m)
      /\ Q \in SUBSET (0..m) /\ E \in SUBSET (0..m) /\ D \in SUBSET (0..m)
  BY DEF Again, First
<1>2. L \subseteq K \cup (P \cup E)
  BY DEF Again, First
<1>3. Splits(D, Q, E)
  BY DEF Splits, First
<1>4. Cardinality(P) <= Cardinality(Q)
  BY PushedForward
<1> HIDE DEF K, L, P, Q, E, D
<1>5. P \cup E \in SUBSET (0..m) /\ K \cup (P \cup E) \in SUBSET (0..m)
  BY <1>1
<1>6. /\ Cardinality(K) \in Nat /\ Cardinality(L) \in Nat /\ Cardinality(P) \in Nat
      /\ Cardinality(Q) \in Nat /\ Cardinality(E) \in Nat /\ Cardinality(D) \in Nat
      /\ Cardinality(P \cup E) \in Nat /\ Cardinality(K \cup (P \cup E)) \in Nat
      /\ IsFiniteSet(D)
  BY <1>1, <1>5, NumbersFinite
<1>7. Cardinality(D) = Cardinality(Q) + Cardinality(E)
  BY <1>3, <1>6, CountedApart
<1>8. Cardinality(P \cup E) <= Cardinality(P) + Cardinality(E)
  BY <1>1, Counted
<1>9. /\ Cardinality(L) <= Cardinality(K \cup (P \cup E))
      /\ Cardinality(K \cup (P \cup E)) <= Cardinality(K) + Cardinality(P \cup E)
  BY <1>1, <1>2, <1>5, Counted
<1>10. Cardinality(L) <= Cardinality(K) + Cardinality(D)
  BY <1>4, <1>6, <1>7, <1>8, <1>9
<1> QED
  BY <1>10 DEF K, L, D

\* A page of at most l after the first n.
PageOf(S, n, l) == First(n + l, S) \ First(n, S)

\* What a page returns again is what the query had to come to again.
Balanced(S, n, l, got, page) ==
  Cardinality(page) + Cardinality(Again(S, n + l, got \cup page)) + Cardinality(got)
    = Cardinality(got \cup page) + Cardinality(Again(S, n, got))

\* Reading a page skips nothing.
LEMMA PageSkips ==
  ASSUME NEW S, NEW n, NEW l, NEW U, NEW got
  PROVE  Skipped(S, n + l, U, got \cup PageOf(S, n, l)) \subseteq Skipped(S, n, U, got)
  BY DEF Skipped, PageOf

LEMMA PageRepeats ==
  ASSUME NEW m \in Nat, NEW S \in SUBSET (0..m), NEW n \in Nat, NEW l \in Nat,
         NEW got \in SUBSET (0..m), NEW page, page = PageOf(S, n, l)
  PROVE  Balanced(S, n, l, got, page)
<1> DEFINE K == Again(S, n, got)
           L == Again(S, n + l, got \cup page)
           Old == page \cap got
           New == page \ got
           All == got \cup page
<1>1. First(n, S) \subseteq First(n + l, S)
  <2> SUFFICES ASSUME NEW x \in First(n, S) PROVE x \in First(n + l, S)
    OBVIOUS
  <2> DEFINE B == {y \in S : y < x}
  <2>1. B \in SUBSET (0..m) /\ Cardinality(B) < n /\ x \in S
    BY DEF First
  <2>2. Cardinality(B) \in Nat
    BY <2>1, NumbersFinite
  <2> HIDE DEF B
  <2>3. Cardinality(B) < n + l
    BY <2>1, <2>2
  <2> QED
    BY <2>1, <2>3 DEF First, B
<1>2. page = First(n + l, S) \ First(n, S) /\ page \in SUBSET S
  BY DEF PageOf, First
<1>3. /\ K \in SUBSET (0..m) /\ L \in SUBSET (0..m) /\ page \in SUBSET (0..m)
      /\ Old \in SUBSET (0..m) /\ New \in SUBSET (0..m) /\ All \in SUBSET (0..m)
  BY <1>2 DEF Again
<1>4. Splits(K, Old, L)
  BY <1>1, <1>2 DEF Splits, Again
<1>5. Splits(page, Old, New) /\ Splits(All, got, New)
  BY DEF Splits
<1> HIDE DEF K, L, Old, New, All
<1>6. /\ IsFiniteSet(K) /\ IsFiniteSet(page) /\ IsFiniteSet(All)
      /\ Cardinality(K) \in Nat /\ Cardinality(L) \in Nat /\ Cardinality(page) \in Nat
      /\ Cardinality(Old) \in Nat /\ Cardinality(New) \in Nat /\ Cardinality(got) \in Nat
      /\ Cardinality(All) \in Nat
  BY <1>3, NumbersFinite
<1>7. /\ Cardinality(K) = Cardinality(Old) + Cardinality(L)
      /\ Cardinality(page) = Cardinality(Old) + Cardinality(New)
      /\ Cardinality(All) = Cardinality(got) + Cardinality(New)
  BY <1>4, <1>5, <1>6, CountedApart
<1>8. Cardinality(page) + Cardinality(L) + Cardinality(got) = Cardinality(All) + Cardinality(K)
  BY <1>6, <1>7
<1> QED
  BY <1>8 DEF Balanced, K, L, All

(***************************************************************************)
(* Images that grow.                                                       *)
(***************************************************************************)
LEMMA EventNumbers ==
  ASSUME NEW d, Kept(d)
  PROVE  /\ Len(d.events) \in Nat
         /\ \A i \in 1..Len(d.events) : d.events[i] \in Events
         /\ IsFiniteSet(1..Len(d.events)) /\ 1..Len(d.events) \subseteq Nat
         /\ \A r : EventsOf(d, r) \subseteq 1..Len(d.events)
         /\ \A k : ReceiptsFor(d, k) \subseteq 1..Len(d.events)
         /\ LedgerMatchesLog(d)
<1>1. Len(d.events) \in Nat
  BY DEF Kept, Images
<1>2. IsFiniteSet(1..Len(d.events))
  BY <1>1, FS_Interval
<1> QED
  BY <1>1, <1>2 DEF Kept, Images, EventsOf, ReceiptsFor, LogSound

\* What was found in the log is found again.
LEMMA LogGrows ==
  ASSUME NEW d, Kept(d), NEW e, Kept(e), Extends(d, e)
  PROVE  /\ Len(d.events) <= Len(e.events)
         /\ \A i \in 1..Len(d.events) : i \in 1..Len(e.events) /\ e.events[i] = d.events[i]
         /\ \A r : EventsOf(d, r) \subseteq EventsOf(e, r)
         /\ \A k : ReceiptsFor(d, k) \subseteq ReceiptsFor(e, k)
         /\ \A k, r : ReceiptNames(d, k, r) => ReceiptNames(e, k, r)
         /\ \A k \in Keys : ReceiptsFor(d, k) # {} => ReceiptsFor(e, k) = ReceiptsFor(d, k)
<1>1. /\ Len(d.events) <= Len(e.events)
      /\ \A i \in 1..Len(d.events) : i \in 1..Len(e.events) /\ e.events[i] = d.events[i]
  BY EventNumbers DEF Extends
<1>2. /\ \A r : EventsOf(d, r) \subseteq EventsOf(e, r)
      /\ \A k : ReceiptsFor(d, k) \subseteq ReceiptsFor(e, k)
      /\ \A k, r : ReceiptNames(d, k, r) => ReceiptNames(e, k, r)
  BY <1>1 DEF EventsOf, ReceiptsFor, ReceiptNames
<1>3. ASSUME NEW k \in Keys, ReceiptsFor(d, k) # {}
      PROVE  ReceiptsFor(e, k) = ReceiptsFor(d, k)
  <2>1. LedgerMatchesLog(e)
    BY EventNumbers
  <2>2. ReceiptsFor(e, k) # {}
    BY <1>2, <1>3
  <2>3. PICK i : ReceiptsFor(e, k) = {i}
    BY <2>1, <2>2 DEF LedgerMatchesLog
  <2> QED
    BY <1>2, <1>3, <2>3
<1> QED
  BY <1>1, <1>2, <1>3

(***************************************************************************)
(* Creation by natural key.                                                *)
(***************************************************************************)
LEMMA AdmissionType ==
  ASSUME NEW n \in Admissions
  PROVE  /\ n.create \in Mutations /\ n.create.key \in Keys /\ n.create.data \in Data
         /\ n.create.op = "data.record.create" /\ n.create.expected = 0
         /\ n.actor \in Actors /\ n.field \in Fields
         /\ n.create.data[n.field] \in Ids
  BY ClientAssumption DEF Mutations

\* The receipt of a key is the only one, and its entry is what it was answered.
LEMMA ReceiptOfEntry ==
  ASSUME NEW d, Kept(d), NEW k \in Keys, d.idem[k] # Nil,
         d.idem[k].op = "data.record.create"
  PROVE  LET r == d.idem[k].result.snapshots[1].rec
         IN  r \in Ids /\ ReceiptNames(d, k, r)
<1>1. PICK i \in ReceiptsFor(d, k) : ReceiptsFor(d, k) = {i} /\ EntryMatchesEvent(d, k, i)
  BY EventNumbers DEF LedgerMatchesLog
<1>2. i \in 1..Len(d.events) /\ d.events[i] \in Events /\ d.events[i].op = "data.record.create"
  BY <1>1, EventNumbers DEF EntryMatchesEvent
<1>3. d.events[i].rec # Nil /\ d.events[i].rec \in Ids
  BY <1>2 DEF Kept, Exportable, EventReadsBack, Events
<1> QED
  BY <1>1, <1>2, <1>3 DEF EntryMatchesEvent, ReceiptNames

LEMMA NamedOnce ==
  ASSUME NEW d, Kept(d), NEW k \in Keys, NEW r, NEW t,
         ReceiptNames(d, k, r), ReceiptNames(d, k, t)
  PROVE  r = t /\ ~Fresh(d, k)
<1>1. d.idem[k] # Nil /\ \E i \in ReceiptsFor(d, k) : ReceiptsFor(d, k) = {i}
  BY EventNumbers DEF LedgerMatchesLog, ReceiptNames
<1> QED
  BY <1>1 DEF ReceiptNames, Fresh

\* A key that has been answered with r.
LEMMA NamedAnswer ==
  ASSUME NEW d, Kept(d), NEW k \in Keys, NEW r, ReceiptNames(d, k, r),
         d.idem[k].op = "data.record.create"
  PROVE  d.idem[k].result.snapshots[1].rec = r
<1>1. d.idem[k] # Nil
  BY NamedOnce DEF Fresh
<1> QED
  BY <1>1, ReceiptOfEntry, NamedOnce

\* The cases of a creation by natural key.
LEMMA AdmissionCases ==
  ASSUME NEW d, Kept(d), NEW n \in Admissions, NEW new \in Ids
  PROVE  LET o == Admission(d, n, new)
             k == n.create.key
         IN  \/ o = Refused(d)
             \/ /\ o = Answered(d, o.rec)
                /\ o.rec \in Ids
                /\ ReceiptNames(d, k, o.rec)
             \/ /\ CurrentSchema(d)[n.field] # Undeclared
                /\ Holders(d, n.field, n.create.data[n.field]) = {}
                /\ MayMutate(d, n.create, new)
                /\ o = Answered(Mutated(d, n.create, new, n.actor, 0), new)
<1> DEFINE o == Admission(d, n, new)
           m == n.create
           found == Holders(d, n.field, m.data[n.field])
           replay == found = {} /\ Replays(d, m.key, m.op, AsRequest(m, n.actor))
           fresh == found = {} /\ MayMutate(d, m, new)
           held == Cardinality(found) = 1 /\ \A r \in found : ReceiptNames(d, m.key, r)
<1>1. m.key \in Keys /\ m.op = "data.record.create"
  BY AdmissionType
<1>2. ~(replay /\ fresh)
  BY DEF Replays, MayMutate, Fresh
<1>3. ~(held /\ found = {})
  BY FS_EmptySet
<1>4. CASE CurrentSchema(d)[n.field] = Undeclared
  BY <1>4 DEF Admission
<1>5. CASE CurrentSchema(d)[n.field] # Undeclared /\ replay
  <2>1. o = Answered(d, d.idem[m.key].result.snapshots[1].rec)
    BY <1>2, <1>3, <1>5 DEF Admission
  <2>2. d.idem[m.key] # Nil /\ d.idem[m.key].op = "data.record.create"
    BY <1>1, <1>5 DEF Replays
  <2>3. PICK r : r = d.idem[m.key].result.snapshots[1].rec
    OBVIOUS
  <2>4. r \in Ids /\ ReceiptNames(d, m.key, r)
    <3>1. PICK k : k = m.key
      OBVIOUS
    <3>2. k \in Keys /\ d.idem[k] # Nil /\ d.idem[k].op = "data.record.create"
          /\ r = d.idem[k].result.snapshots[1].rec
      BY <1>1, <2>2, <2>3, <3>1
    <3>3. r \in Ids /\ ReceiptNames(d, k, r)
      BY <3>2, ReceiptOfEntry
    <3> QED
      BY <3>1, <3>3
  <2>5. o = Answered(d, r)
    <3> HIDE DEF o, m
    <3> QED
      BY <2>1, <2>3, Zenon
  <2>6. o.rec = r
    BY <2>5 DEF Answered
  <2>7. o = Answered(d, o.rec) /\ o.rec \in Ids /\ ReceiptNames(d, m.key, o.rec)
    <3> HIDE DEF o
    <3> QED
      BY <2>4, <2>5, <2>6
  <2> QED
    BY <2>7
<1>6. CASE CurrentSchema(d)[n.field] # Undeclared /\ fresh
  <2>1. o = Answered(Mutated(d, m, new, n.actor, 0), new)
    BY <1>2, <1>3, <1>6 DEF Admission
  <2> QED
    BY <1>6, <2>1
<1>7. CASE CurrentSchema(d)[n.field] # Undeclared /\ held
  <2>1. o = Answered(d, CHOOSE r \in found : TRUE)
    BY <1>3, <1>7 DEF Admission
  <2>2. found # {} /\ found \subseteq Ids
    BY <1>3, <1>7 DEF Holders
  <2>3. (CHOOSE r \in found : TRUE) \in found
    BY <2>2
  <2> QED
    BY <1>7, <2>1, <2>2, <2>3 DEF Answered
<1>8. CASE CurrentSchema(d)[n.field] # Undeclared /\ ~replay /\ ~fresh /\ ~held
  <2>1. o = Refused(d)
    BY <1>8 DEF Admission
  <2> QED
    BY <2>1
<1> QED
  BY <1>4, <1>5, <1>6, <1>7, <1>8

\* What an answered creation leaves behind.
LEMMA AdmissionKept ==
  ASSUME NEW d, Kept(d), NEW n \in Admissions, NEW new \in Ids,
         NEW o, o = Admission(d, n, new), o.ok
  PROVE  /\ Kept(o.image)
         /\ Extends(d, o.image)
         /\ o.rec \in Ids
         /\ ReceiptNames(o.image, n.create.key, o.rec)
<1>1. CASE o = Refused(d)
  BY <1>1 DEF Refused
<1>2. CASE o = Answered(d, o.rec) /\ o.rec \in Ids /\ ReceiptNames(d, n.create.key, o.rec)
  <2>1. o.image = d
    BY <1>2 DEF Answered
  <2> QED
    BY <1>2, <2>1, ExtendsReflexive DEF Kept
<1>3. CASE /\ MayMutate(d, n.create, new)
           /\ o = Answered(Mutated(d, n.create, new, n.actor, 0), new)
  <2> DEFINE e == Mutated(d, n.create, new, n.actor, 0)
  <2>1. o.image = e /\ o.rec = new
    BY <1>3 DEF Answered
  <2>2. OneMore(d, e, n.create, new)
    BY <1>3, AdmissionType, MutatedKept
  <2>3. PICK row, refs : e = Written(d, new, row, refs, n.create, n.actor, 0)
    BY <1>3, MutatedWrites
  <2>4. e.events = Append(d.events, EventOf(new, row, n.create, n.actor, 0))
    BY <2>3 DEF Written
  <2>5. d.events \in Seq(Events)
    BY DEF Kept, Images
  <2> HIDE DEF e
  <2>6. /\ Len(d.events) + 1 \in 1..Len(e.events)
        /\ e.events[Len(d.events) + 1] = EventOf(new, row, n.create, n.actor, 0)
    BY <2>4, <2>5
  <2>7. ReceiptNames(e, n.create.key, new)
    BY <2>6, AdmissionType DEF ReceiptNames, ReceiptsFor, EventOf
  <2> QED
    BY <2>1, <2>2, <2>7 DEF OneMore
<1> QED
  BY <1>1, <1>2, <1>3, AdmissionCases

\* A creation that has its receipt is not carried out again.
LEMMA RepeatedAdmission ==
  ASSUME NEW d, Kept(d), NEW n \in Admissions, NEW new \in Ids, NEW r,
         ReceiptNames(d, n.create.key, r), NEW o, o = Admission(d, n, new)
  PROVE  o.image = d /\ (o.ok => o.rec = r)
<1>1. n.create.key \in Keys
  BY AdmissionType
<1>2. ~MayMutate(d, n.create, new)
  BY <1>1, NamedOnce DEF MayMutate
<1>3. CASE o = Refused(d)
  BY <1>3 DEF Refused
<1>4. CASE o = Answered(d, o.rec) /\ ReceiptNames(d, n.create.key, o.rec)
  <2>1. o.image = d
    BY <1>4 DEF Answered
  <2> QED
    BY <1>1, <1>4, <2>1, NamedOnce
<1> QED
  BY <1>2, <1>3, <1>4, AdmissionCases

(***************************************************************************)
(* What a request writes into a field.                                     *)
(***************************************************************************)
\* An active record of e holds in the field what it held in d, or one of V.
WritesOnly(d, e, f, V) ==
  \A r \in Ids : Active(e, r) /\ e.records[r].data[f] \notin V =>
    Active(d, r) /\ d.records[r].data[f] = e.records[r].data[f]

\* The values that a mutation m leaves in the field of a record of d.
Brings(d, m, f, V) ==
  /\ m.data[f] \in V
  /\ CurrentSchema(d)[f] # Undeclared => CurrentSchema(d)[f].default \in V

LEMMA WritesOnlyTransitive ==
  ASSUME NEW d, NEW e, NEW g, NEW f, NEW V, WritesOnly(d, e, f, V), WritesOnly(e, g, f, V)
  PROVE  WritesOnly(d, g, f, V)
  BY DEF WritesOnly

LEMMA MutatedWritesOnly ==
  ASSUME NEW d \in Images, NEW m \in Mutations, NEW r \in Ids, NEW actor, NEW tx,
         MayMutate(d, m, r), NEW f \in Fields, NEW V, Brings(d, m, f, V)
  PROVE  WritesOnly(d, Mutated(d, m, r, actor, tx), f, V)
<1> DEFINE e == Mutated(d, m, r, actor, tx)
           schema == CurrentSchema(d)
<1>1. d.records \in [Ids -> Rows \cup {Nil}]
  BY DEF Images
<1>2. ASSUME NEW data, WithDefaults(schema, data)[f] \notin V
      PROVE  WithDefaults(schema, data)[f] = data[f]
  BY <1>2 DEF WithDefaults, Defaulted, Brings
<1>3. ASSUME NEW row, NEW refs, e = Written(d, r, row, refs, m, actor, tx),
             row.data[f] \in V \/ row.deleted
                \/ (Active(d, r) /\ row.data[f] = d.records[r].data[f])
      PROVE  WritesOnly(d, e, f, V)
  <2>1. e.records = [d.records EXCEPT ![r] = row]
    BY <1>3 DEF Written
  <2> HIDE DEF e
  <2> SUFFICES ASSUME NEW t \in Ids, Active(e, t), e.records[t].data[f] \notin V
               PROVE  Active(d, t) /\ d.records[t].data[f] = e.records[t].data[f]
    BY DEF WritesOnly
  <2>2. CASE t = r
    BY <1>1, <1>3, <2>1, <2>2 DEF Active
  <2>3. CASE t # r
    BY <1>1, <2>1, <2>3 DEF Active
  <2> QED
    BY <2>2, <2>3
<1>4. CASE MayCreate(d, m, r)
  <2>1. e = Written(d, r, CreatedRow(d, m, actor),
                    RefsOf(schema, CreatedRow(d, m, actor).data), m, actor, tx)
    BY <1>4 DEF MayCreate, Mutated, Created
  <2>2. CreatedRow(d, m, actor).data = WithDefaults(schema, m.data)
    BY DEF CreatedRow
  <2>3. CreatedRow(d, m, actor).data[f] \in V
    BY <1>2, <2>2 DEF Brings
  <2> QED
    BY <1>3, <2>1, <2>3
<1>5. CASE r = m.rec /\ MayUpdate(d, m)
  <2>1. e = Written(d, r, UpdatedRow(d, m, actor),
                    RefsOf(schema, UpdatedRow(d, m, actor).data), m, actor, tx)
    BY <1>5 DEF MayUpdate, Mutated, Updated
  <2>2. UpdatedRow(d, m, actor).data = WithDefaults(schema, Merge(d.records[r].data, m.data))
    BY <1>5 DEF UpdatedRow
  <2>3. Merge(d.records[r].data, m.data)[f] \in {m.data[f], d.records[r].data[f]}
    BY DEF Merge
  <2>4. \/ UpdatedRow(d, m, actor).data[f] \in V
        \/ UpdatedRow(d, m, actor).data[f] = d.records[r].data[f]
    BY <1>2, <2>2, <2>3 DEF Brings
  <2>5. Active(d, r)
    BY <1>5 DEF MayUpdate
  <2> QED
    BY <1>3, <2>1, <2>4, <2>5
<1>6. CASE r = m.rec /\ MayDelete(d, m)
  <2>1. e = Written(d, r, DeletedRow(d, m, actor), NoRefs, m, actor, tx)
    BY <1>6 DEF MayDelete, Mutated, Deleted
  <2>2. DeletedRow(d, m, actor).deleted
    BY DEF DeletedRow
  <2> QED
    BY <1>3, <2>1, <2>2
<1> QED
  BY <1>4, <1>5, <1>6 DEF MayMutate

\* What the mutations of a request hold in a field, and what names resolve to.
Bringing(d, req, f, V) ==
  /\ \A n \in 1..Len(req.ops) : req.ops[n].data[f] \in V
  /\ (\E n \in 1..Len(req.ops) : req.ops[n].data[f] \in Markers) => Ids \subseteq V
  /\ CurrentSchema(d)[f] # Undeclared => CurrentSchema(d)[f].default \in V

LEMMA ResolvedBrings ==
  ASSUME NEW d \in Images, NEW m \in Mutations, NEW refs \in [Markers -> Ids \cup {Nil}],
         Resolvable(d, m, refs), NEW f \in Fields, NEW V, m.data[f] \in V,
         m.data[f] \in Markers => Ids \subseteq V
  PROVE  Resolved(d, m, refs).data[f] \in V
<1>1. Resolved(d, m, refs).data[f] = IF IsMarked(CurrentSchema(d), m, f)
                                       THEN refs[m.data[f]] ELSE m.data[f]
  BY DEF Resolved, Mutations
<1>2. CASE IsMarked(CurrentSchema(d), m, f)
  <2>1. m.data[f] \in Markers /\ refs[m.data[f]] \in Ids
    BY <1>2 DEF IsMarked, Resolvable
  <2> QED
    BY <1>1, <1>2, <2>1
<1> QED
  BY <1>1, <1>2

LEMMA ContinuedWritesOnly ==
  ASSUME NEW d, Kept(d), NEW req, Acceptable(req), NEW n \in 1..Len(req.ops),
         NEW o \in Outputs, o.ok => Reached(d, req, n - 1, o), NEW r \in Ids, NEW tx \in Nat,
         NEW f \in Fields, NEW V, Bringing(d, req, f, V),
         o.ok => WritesOnly(d, o.image, f, V)
  PROVE  LET c == Continued(o, req.ops[n], r, req.actor, tx)
         IN  c.ok => WritesOnly(d, c.image, f, V)
<1> DEFINE m == req.ops[n]
           c == Continued(o, m, r, req.actor, tx)
           resolved == Resolved(o.image, m, o.refs)
           image == Mutated(o.image, resolved, r, req.actor, tx)
<1>1. CASE ~Goes(o, m, r)
  <2>1. c = [o EXCEPT !.ok = FALSE]
    BY <1>1 DEF Goes, Continued
  <2> QED
    BY <2>1 DEF Outputs
<1>2. CASE Goes(o, m, r)
  <2>1. /\ o.ok /\ o.image \in Images /\ Resolvable(o.image, m, o.refs)
        /\ MayMutate(o.image, resolved, r)
        /\ o.refs \in [Markers -> Ids \cup {Nil}]
        /\ o.image.schemas = d.schemas
    BY <1>2 DEF Goes, Reached, Outputs
  <2>2. m \in Mutations
    BY AcceptableType
  <2>3. resolved \in Mutations /\ resolved.data[f] \in V
    BY <2>1, <2>2, ResolvedType, ResolvedBrings DEF Bringing
  <2>4. CurrentSchema(o.image) = CurrentSchema(d)
    BY <2>1 DEF CurrentSchema, SchemaVersion
  <2>5. Brings(o.image, resolved, f, V)
    BY <2>3, <2>4 DEF Brings, Bringing
  <2>6. c = [ok        |-> TRUE,
             image     |-> image,
             refs      |-> Bind(o.refs, m, r),
             children  |-> Append(o.children, Len(image.events)),
             snapshots |-> Append(o.snapshots, [rec |-> r, row |-> image.records[r]])]
    BY <1>2, ContinuedGoes
  <2> HIDE DEF resolved, image, m, c
  <2>7. WritesOnly(o.image, image, f, V)
    BY <2>1, <2>3, <2>5, MutatedWritesOnly DEF image
  <2>8. c.image = image
    BY <2>6
  <2> QED
    BY <2>1, <2>7, <2>8, WritesOnlyTransitive DEF c, m
<1> QED
  BY <1>1, <1>2

LEMMA OutcomeWritesOnly ==
  ASSUME NEW d, Kept(d), NEW req, Acceptable(req), NEW tx \in Nat,
         NEW o \in Outcomes(d, req, tx), NEW f \in Fields, NEW V, Bringing(d, req, f, V)
  PROVE  WritesOnly(d, o.image, f, V)
<1> DEFINE T == {x \in Nat \X Outputs :
                   x[2].ok => Reached(d, req, x[1], x[2]) /\ WritesOnly(d, x[2].image, f, V)}
<1>1. PICK recs \in [1..Len(req.ops) -> Ids] : o = Outcome(d, req, recs, tx) /\ o.ok
  BY DEF Outcomes
<1>2. <<0, Begun(d)>> \in T
  <2>1. WritesOnly(d, Begun(d).image, f, V)
    BY DEF WritesOnly, Begun
  <2> QED
    BY <2>1, BegunReached
<1>3. ASSUME NEW n \in 1..Len(req.ops), NEW x, <<n - 1, x>> \in T
      PROVE  <<n, Continued(x, req.ops[n], recs[n], req.actor, tx)>> \in T
  <2>1. /\ x \in Outputs /\ n \in Nat /\ recs[n] \in Ids
        /\ x.ok => Reached(d, req, n - 1, x)
        /\ x.ok => WritesOnly(d, x.image, f, V)
    BY <1>1, <1>3, AcceptableType
  <2> QED
    BY <2>1, ContinuedReached, ContinuedWritesOnly
<1>4. Len(req.ops) \in Nat
  BY AcceptableType
<1>5. <<Len(req.ops), o>> \in T
  <2> HIDE DEF T
  <2> QED
    BY <1>1, <1>2, <1>3, <1>4, OutcomeInduction
<1> QED
  BY <1>1, <1>5

\* What a request does to a field: to its values, and to its declaration.
LEMMA PerformedWritesOnly ==
  ASSUME NEW d, Kept(d), NEW req, Acceptable(req), MayPerform(d, req),
         NEW e \in Performed(d, req), NEW f \in Fields, NEW V, Bringing(d, req, f, V)
  PROVE  /\ WritesOnly(d, e, f, V)
         /\ CurrentSchema(e)[f] \in {CurrentSchema(d)[f], req.adds[f]}
<1> DEFINE tx == Len(d.events) + 1
<1>1. tx \in Nat /\ d \in Images
  BY DEF Kept, Images
<1>2. ASSUME NEW t \in Nat, NEW o \in Outcomes(d, req, t)
      PROVE  WritesOnly(d, o.image, f, V) /\ o.image.schemas = d.schemas
  <2>1. Reached(d, req, Len(req.ops), o)
    BY OutcomeReached
  <2>2. WritesOnly(d, o.image, f, V)
    BY OutcomeWritesOnly
  <2> QED
    BY <2>1, <2>2 DEF Reached
<1>3. CASE req.kind = "record"
  <2>1. PICK o \in Outcomes(d, req, 0) : e = o.image
    BY <1>3 DEF Performed
  <2> QED
    BY <1>2, <2>1 DEF CurrentSchema, SchemaVersion
<1>4. CASE req.kind = "transaction"
  <2>1. PICK o \in Outcomes(d, req, tx) :
          e = Closed(o.image, req, tx, o.children, o.snapshots)
    BY <1>4 DEF Performed
  <2>2. e.records = o.image.records /\ e.schemas = o.image.schemas
    BY <2>1 DEF Closed
  <2> QED
    BY <1>1, <1>2, <2>2 DEF CurrentSchema, SchemaVersion, WritesOnly, Active
<1>5. CASE req.kind = "ensure"
  <2> DEFINE missing == Missing(CurrentSchema(d), req.adds)
             schema == WithFields(CurrentSchema(d), missing)
  <2>1. PICK g \in {d, Evolved(d, schema)} : e = Closed(g, req, tx, <<>>, <<>>)
    BY <1>5 DEF Performed, Ensured
  <2>2. e.records = d.records /\ e.schemas = g.schemas
    BY <2>1 DEF Closed, Evolved
  <2>3. WritesOnly(d, e, f, V)
    BY <2>2 DEF WritesOnly, Active
  <2>4. schema[f] \in {CurrentSchema(d)[f], req.adds[f]}
    BY DEF WithFields, Missing
  <2> HIDE DEF schema
  <2>5. CASE g = d
    BY <2>2, <2>3, <2>5 DEF CurrentSchema, SchemaVersion
  <2>6. CASE g = Evolved(d, schema)
    <3>1. e.schemas = Append(d.schemas, schema) /\ d.schemas \in Seq(Schemas)
      BY <1>1, <2>2, <2>6 DEF Evolved, Images
    <3>2. CurrentSchema(e) = schema
      BY <3>1 DEF CurrentSchema, SchemaVersion
    <3> QED
      BY <2>3, <2>4, <3>2
  <2> QED
    BY <2>1, <2>5, <2>6
<1>6. req.kind \in {"record", "transaction", "ensure"}
  BY AcceptableType DEF Requests
<1> QED
  BY <1>3, <1>4, <1>5, <1>6

(***************************************************************************)
(* What the other callers write.                                           *)
(***************************************************************************)
\* The declared fields have the defaults that somebody declared.
DefaultsKnown(d) ==
  \A f \in Fields : CurrentSchema(d)[f] # Undeclared =>
    CurrentSchema(d)[f].default \in Defaults(f)

LEMMA DefaultsIn ==
  ASSUME NEW f, NEW c \in {BaseSchema} \cup Evolutions \cup {s.adds : s \in Submissions},
         c[f] # Undeclared
  PROVE  c[f].default \in Defaults(f)
  BY DEF Defaults

LEMMA OthersBring ==
  ASSUME NEW d, DefaultsKnown(d), NEW req \in Submissions, NEW f \in Fields
  PROVE  Bringing(d, req, f, OthersWrite(f))
<1>1. ASSUME NEW n \in 1..Len(req.ops)
      PROVE  req.ops[n].data[f] \in OthersHold(f)
  BY DEF OthersHold
<1>2. OthersHold(f) \subseteq OthersWrite(f) /\ Defaults(f) \subseteq OthersWrite(f)
  BY DEF OthersWrite
<1>3. OthersHold(f) \cap Markers # {} => Ids \subseteq OthersWrite(f)
  BY DEF OthersWrite
<1> QED
  BY <1>1, <1>2, <1>3 DEF Bringing, DefaultsKnown

LEMMA OthersRequested ==
  ASSUME NEW d, Kept(d), DefaultsKnown(d), NEW e \in Requested(d, Submissions, Evolutions)
  PROVE  DefaultsKnown(e) /\ \A f \in Fields : WritesOnly(d, e, f, OthersWrite(f))
<1>1. CASE \E req \in Submissions : MayPerform(d, req) /\ e \in Performed(d, req)
  <2>1. PICK req \in Submissions : MayPerform(d, req) /\ e \in Performed(d, req)
    BY <1>1
  <2>2. Acceptable(req)
    BY ClientAssumption DEF AcceptableCalls
  <2> SUFFICES ASSUME NEW f \in Fields
               PROVE  /\ WritesOnly(d, e, f, OthersWrite(f))
                      /\ CurrentSchema(e)[f] # Undeclared =>
                           CurrentSchema(e)[f].default \in Defaults(f)
    BY DEF DefaultsKnown
  <2>3. /\ WritesOnly(d, e, f, OthersWrite(f))
        /\ CurrentSchema(e)[f] \in {CurrentSchema(d)[f], req.adds[f]}
    BY <2>1, <2>2, OthersBring, PerformedWritesOnly
  <2>4. req.adds[f] # Undeclared => req.adds[f].default \in Defaults(f)
    BY DefaultsIn
  <2> QED
    BY <2>3, <2>4 DEF DefaultsKnown
<1>2. CASE \E adds \in Evolutions :
              /\ MayAddFields(CurrentSchema(d), adds)
              /\ e = Evolved(d, WithFields(CurrentSchema(d), adds))
  <2>1. PICK adds \in Evolutions : e = Evolved(d, WithFields(CurrentSchema(d), adds))
    BY <1>2
  <2> DEFINE schema == WithFields(CurrentSchema(d), adds)
  <2>2. e.schemas = Append(d.schemas, schema) /\ d.schemas \in Seq(Schemas)
        /\ e.records = d.records
    BY <2>1 DEF Evolved, Kept, Images
  <2>3. ASSUME NEW f \in Fields
        PROVE  schema[f] # Undeclared => schema[f].default \in Defaults(f)
    <3>1. schema[f] \in {CurrentSchema(d)[f], adds[f]}
      BY DEF WithFields
    <3>2. adds[f] # Undeclared => adds[f].default \in Defaults(f)
      BY DefaultsIn
    <3> QED
      BY <3>1, <3>2 DEF DefaultsKnown
  <2> HIDE DEF schema
  <2>4. CurrentSchema(e) = schema
    BY <2>2 DEF CurrentSchema, SchemaVersion
  <2> QED
    BY <2>2, <2>3, <2>4 DEF DefaultsKnown, WritesOnly, Active
<1> QED
  BY <1>1, <1>2, RequestedCases

(***************************************************************************)
(* One record for a natural key.                                           *)
(***************************************************************************)
\* The records of d that hold v in the field are one at most.
HeldOnce(d, f, v) ==
  \A r, t \in Ids :
    (/\ Active(d, r) /\ d.records[r].data[f] = v
     /\ Active(d, t) /\ d.records[t].data[f] = v) => r = t

OneForAll(d) == \A n \in Admissions : \A v \in OwnedValues(n.field) : HeldOnce(d, n.field, v)

LEMMA HeldOnceKept ==
  ASSUME NEW d, NEW e, NEW f, NEW v, NEW V, HeldOnce(d, f, v), WritesOnly(d, e, f, V), v \notin V
  PROVE  HeldOnce(e, f, v)
  BY DEF HeldOnce, WritesOnly

LEMMA OwnedByAdmissions ==
  ASSUME NEW f, NEW v \in OwnedValues(f)
  PROVE  /\ v \notin OthersWrite(f)
         /\ \A n \in Admissions : n.field # f => n.create.data[f] # v
  BY DEF OwnedValues

LEMMA OthersKeepOne ==
  ASSUME NEW d, Kept(d), DefaultsKnown(d), OneForAll(d),
         NEW e \in Requested(d, Submissions, Evolutions)
  PROVE  OneForAll(e)
<1> SUFFICES ASSUME NEW n \in Admissions, NEW v \in OwnedValues(n.field)
             PROVE  HeldOnce(e, n.field, v)
  BY DEF OneForAll
<1>1. WritesOnly(d, e, n.field, OthersWrite(n.field))
  BY OthersRequested, AdmissionType
<1>2. HeldOnce(d, n.field, v) /\ v \notin OthersWrite(n.field)
  BY OwnedByAdmissions DEF OneForAll
<1> QED
  BY <1>1, <1>2, HeldOnceKept

\* A creation by natural key does its lookup and its write on one image.
LEMMA CreationKeepsOne ==
  ASSUME NEW d, Kept(d), DefaultsKnown(d), OneForAll(d), NEW n \in Admissions,
         NEW new \in Ids, Holders(d, n.field, n.create.data[n.field]) = {},
         MayMutate(d, n.create, new),
         NEW e, e = Mutated(d, n.create, new, n.actor, 0)
  PROVE  DefaultsKnown(e) /\ OneForAll(e)
<1> DEFINE m == n.create
           schema == CurrentSchema(d)
           row == CreatedRow(d, m, n.actor)
<1>1. m.op = "data.record.create" /\ n.field \in Fields
  BY AdmissionType
<1>2. MayCreate(d, m, new)
  BY <1>1 DEF MayMutate, MayUpdate, MayDelete
<1>3. /\ e.schemas = d.schemas
      /\ e.records = [d.records EXCEPT ![new] = row]
      /\ d.records \in [Ids -> Rows \cup {Nil}]
  BY <1>1, <1>2 DEF Mutated, Created, Written, Kept, Images
<1>4. DefaultsKnown(e)
  BY <1>3 DEF DefaultsKnown, CurrentSchema, SchemaVersion
<1>5. ASSUME NEW f \in Fields, m.data[f] # Absent
      PROVE  row.data[f] = m.data[f]
  BY <1>5 DEF CreatedRow, WithDefaults, Defaulted
<1>6. ASSUME NEW f \in Fields
      PROVE  row.data[f] = m.data[f] \/ row.data[f] \in OthersWrite(f)
  BY DEF CreatedRow, WithDefaults, Defaulted, OthersWrite, DefaultsKnown
<1> HIDE DEF row, schema
<1>7. ASSUME NEW p \in Admissions, NEW v \in OwnedValues(p.field)
      PROVE  HeldOnce(e, p.field, v)
  <2>1. HeldOnce(d, p.field, v) /\ p.field \in Fields
    BY AdmissionType DEF OneForAll
  <2>2. CASE row.data[p.field] # v
    BY <1>3, <2>1, <2>2 DEF HeldOnce, Active
  <2>3. CASE row.data[p.field] = v
    <3>1. row.data[p.field] = m.data[p.field]
      BY <1>6, <2>1, <2>3, OwnedByAdmissions
    <3>2. p.field = n.field
      BY <2>3, <3>1, OwnedByAdmissions
    <3>3. \A r \in Ids : ~(Active(d, r) /\ d.records[r].data[p.field] = v)
      BY <2>3, <3>1, <3>2 DEF Holders
    <3> QED
      BY <1>3, <3>3 DEF HeldOnce, Active
  <2> QED
    BY <2>2, <2>3
<1> QED
  BY <1>4, <1>7 DEF OneForAll

(***************************************************************************)
(* Subscriptions.                                                          *)
(***************************************************************************)
FeedRecords(f) == [cursor : [after : Nat, rec : {f.rec}], delivered : SUBSET Nat]

\* What is kept for the subscription f, of a log of which nothing was jumped.
Follows(d, f, x) ==
  /\ x \in FeedRecords(f)
  /\ x.cursor.after <= Len(d.events)
  /\ x.delivered \subseteq Deliverable(d, f)
  /\ \A i \in Deliverable(d, f) :
       (i <= x.cursor.after \/ \E j \in x.delivered : i < j) => i \in x.delivered

LEMMA ScopeType ==
  ASSUME NEW d, Kept(d), NEW f, NEW after \in Nat
  PROVE  /\ InScope(d, f, after) \subseteq Nat /\ IsFiniteSet(InScope(d, f, after))
         /\ InScope(d, f, after) \subseteq 1..Len(d.events)
         /\ \A i : i \in InScope(d, f, after) <=> i \in InScope(d, f, 0) /\ i > after
<1>1. InScope(d, f, after) \subseteq 1..Len(d.events)
  BY DEF InScope
<1>2. IsFiniteSet(InScope(d, f, after))
  BY <1>1, EventNumbers, FS_Subset
<1>3. ASSUME NEW i
      PROVE  i \in InScope(d, f, after) <=> i \in InScope(d, f, 0) /\ i > after
  <2>1. i \in 1..Len(d.events) /\ i > after => i > 0
    BY EventNumbers
  <2> QED
    BY <2>1 DEF InScope
<1> QED
  BY <1>1, <1>2, <1>3, EventNumbers

LEMMA FollowsOn ==
  ASSUME NEW d, Kept(d), NEW e, Kept(e), Extends(d, e), NEW f, NEW x, Follows(d, f, x)
  PROVE  Follows(e, f, x)
<1>1. /\ Len(d.events) \in Nat /\ Len(e.events) \in Nat /\ Len(d.events) <= Len(e.events)
      /\ \A i \in 1..Len(d.events) : i \in 1..Len(e.events) /\ e.events[i] = d.events[i]
  BY EventNumbers, LogGrows
<1>2. Deliverable(d, f) \subseteq Deliverable(e, f)
  BY <1>1 DEF Deliverable, InScope
<1>3. ASSUME NEW i \in Deliverable(e, f), i <= Len(d.events)
      PROVE  i \in Deliverable(d, f)
  <2>1. i \in 1..Len(d.events)
    BY <1>1, <1>3 DEF Deliverable, InScope
  <2> QED
    BY <1>1, <2>1 DEF Deliverable, InScope
<1>4. /\ x \in FeedRecords(f) /\ x.cursor.after \in Nat /\ x.cursor.after <= Len(d.events)
      /\ x.delivered \subseteq Deliverable(d, f)
  BY DEF Follows, FeedRecords
<1>5. ASSUME NEW i \in Deliverable(e, f),
             i <= x.cursor.after \/ \E j \in x.delivered : i < j
      PROVE  i \in x.delivered
  <2>1. i \in Nat
    BY <1>1 DEF Deliverable, InScope
  <2>2. \A j \in x.delivered : j \in Nat /\ j <= Len(d.events)
    BY <1>1, <1>4 DEF Deliverable, InScope
  <2>3. i <= Len(d.events)
    BY <1>1, <1>4, <1>5, <2>1, <2>2
  <2> QED
    BY <1>3, <1>5, <2>3 DEF Follows
<1> QED
  BY <1>1, <1>2, <1>4, <1>5 DEF Follows

\* One more page.
LEMMA FollowsPage ==
  ASSUME NEW d, Kept(d), NEW f \in Feeds, NEW x, Follows(d, f, x),
         NEW page, page = EventPage(d, f, x.cursor.after),
         NEW next \in IF page = InScope(d, f, x.cursor.after)
                        THEN {0, x.cursor.after}
                        ELSE {NextCursor(d, f, x.cursor.after)}
  PROVE  Follows(d, f, [cursor    |-> [after |-> next, rec |-> f.rec],
                        delivered |-> x.delivered \cup (page \cap Deliverable(d, f))])
<1> DEFINE scope == InScope(d, f, x.cursor.after)
           y == [cursor    |-> [after |-> next, rec |-> f.rec],
                 delivered |-> x.delivered \cup (page \cap Deliverable(d, f))]
<1>1. /\ x.cursor.after \in Nat /\ x.cursor.after <= Len(d.events) /\ x.delivered \subseteq Nat
      /\ x.delivered \subseteq Deliverable(d, f) /\ Len(d.events) \in Nat
      /\ f.limit \in Nat \ {0}
  BY EventNumbers, ClientAssumption DEF Follows, FeedRecords
<1>2. /\ scope \subseteq Nat /\ IsFiniteSet(scope) /\ scope \subseteq 1..Len(d.events)
      /\ \A i : i \in scope <=> i \in InScope(d, f, 0) /\ i > x.cursor.after
  BY <1>1, ScopeType
<1>3. Deliverable(d, f) \subseteq Nat /\ Deliverable(d, f) \subseteq InScope(d, f, 0)
  BY ScopeType DEF Deliverable
<1> HIDE DEF scope
<1>4. /\ page \subseteq scope
      /\ \A i \in page, j \in scope : j <= i => j \in page
      /\ scope # {} => page # {}
  BY <1>1, <1>2, FirstBegins DEF EventPage, scope
<1>5. \/ next = 0 \/ next = x.cursor.after
      \/ next \in page
  <2>1. CASE page = scope
    BY <2>1 DEF scope
  <2>2. CASE page # scope
    <3>1. next = Greatest(page)
      BY <2>2 DEF NextCursor, scope
    <3>2. page # {}
      BY <1>4, <2>2
    <3>3. \A i \in page : i \in 0..Len(d.events)
      BY <1>1, <1>2, <1>4
    <3> QED
      BY <1>1, <3>1, <3>2, <3>3, GreatestNumber
  <2> QED
    BY <2>1, <2>2
<1>6. next \in Nat /\ next <= Len(d.events)
  BY <1>1, <1>2, <1>4, <1>5
<1>7. ASSUME NEW i \in Deliverable(d, f), NEW j \in page, i <= j
      PROVE  i \in x.delivered \/ i \in page
  <2>1. CASE i <= x.cursor.after
    BY <2>1 DEF Follows
  <2>2. CASE ~(i <= x.cursor.after)
    <3>1. i \in Nat /\ i > x.cursor.after
      BY <1>1, <1>3, <2>2
    <3> QED
      BY <1>2, <1>3, <1>4, <1>7, <3>1
  <2> QED
    BY <2>1, <2>2
<1>8. ASSUME NEW i \in Deliverable(d, f),
             i <= next \/ \E j \in y.delivered : i < j
      PROVE  i \in y.delivered
  <2>0. i \in Nat
    BY <1>3
  <2>1. CASE \E j \in page : i <= j
    BY <1>7, <2>1
  <2>2. CASE i <= x.cursor.after \/ \E j \in x.delivered : i < j
    BY <2>2 DEF Follows
  <2>3. CASE i <= 0
    <3>1. i > 0
      BY <1>3 DEF InScope
    <3> QED
      BY <2>0, <2>3, <3>1
  <2>4. \A j \in page : j \in Nat /\ (i < j => i <= j)
    BY <1>2, <1>4, <2>0
  <2> QED
    BY <1>5, <1>8, <2>1, <2>2, <2>3, <2>4
<1>9. y \in FeedRecords(f) /\ y.cursor.after = next
  BY <1>1, <1>3, <1>6 DEF FeedRecords
<1>10. y.delivered \subseteq Deliverable(d, f)
  BY <1>1
<1> HIDE DEF y
<1>11. Follows(d, f, y)
  BY <1>6, <1>8, <1>9, <1>10 DEF Follows
<1> QED
  BY <1>11 DEF y

(***************************************************************************)
(* Evidence.                                                               *)
(***************************************************************************)
EvidenceRecords ==
  [at : {"none", "record", "answered"}, by : {"event", "key"}, event : Nat,
   key : Keys \cup {Nil}, known : BOOLEAN, rec : Ids \cup {Nil}, version : Nat,
   receipt : Nat \cup {Nil}]

\* The event is one of the record, and not of a later version than was read.
OfEvent(d, x) ==
  /\ x.event \in 1..Len(d.events)
  /\ d.events[x.event].rec = x.rec
  /\ d.events[x.event].after <= x.version

\* So is a receipt that the key had before.
OfKey(d, x) ==
  /\ x.key \in Keys
  /\ x.known =>
       /\ ReceiptsFor(d, x.key) # {}
       /\ \A i \in ReceiptsFor(d, x.key) :
            d.events[i].rec = x.rec => d.events[i].after <= x.version

\* The receipt is what was looked for; an event's is missing behind a full page.
AnswerFits(d, x) ==
  IF x.receipt = Nil
    THEN x.by = "event" => Cardinality(EventsOf(d, x.rec)) > Window
    ELSE x.receipt \in IF x.by = "event" THEN {x.event} ELSE ReceiptsFor(d, x.key)

Evident(d, x) ==
  /\ x \in EvidenceRecords
  /\ x.at # "none" => IF x.by = "event" THEN OfEvent(d, x) ELSE OfKey(d, x)
  /\ x.at = "answered" => AnswerFits(d, x)

LEMMA EvidentOn ==
  ASSUME NEW d, Kept(d), NEW e, Kept(e), Extends(d, e), NEW x, Evident(d, x)
  PROVE  Evident(e, x)
<1>1. OfEvent(d, x) => OfEvent(e, x)
  BY LogGrows DEF OfEvent
<1>2. ASSUME OfKey(d, x) PROVE OfKey(e, x)
  <2>1. CASE ~x.known
    BY <1>2, <2>1 DEF OfKey
  <2>2. CASE x.known
    <3>1. x.key \in Keys /\ ReceiptsFor(d, x.key) # {}
      BY <1>2, <2>2 DEF OfKey
    <3>2. ReceiptsFor(e, x.key) = ReceiptsFor(d, x.key)
      BY <3>1, LogGrows
    <3>3. \A i \in ReceiptsFor(d, x.key) : e.events[i] = d.events[i]
      BY LogGrows DEF ReceiptsFor
    <3> QED
      BY <1>2, <2>2, <3>2, <3>3 DEF OfKey
  <2> QED
    BY <2>1, <2>2
<1>3. ASSUME AnswerFits(d, x) PROVE AnswerFits(e, x)
  <2>1. CASE x.receipt = Nil /\ x.by = "event"
    <3>1. EventsOf(d, x.rec) \subseteq EventsOf(e, x.rec)
      BY LogGrows
    <3>2. IsFiniteSet(EventsOf(e, x.rec)) /\ IsFiniteSet(EventsOf(d, x.rec))
      BY EventNumbers, FS_Subset
    <3>3. Cardinality(EventsOf(d, x.rec)) <= Cardinality(EventsOf(e, x.rec))
      BY <3>1, <3>2, FS_Subset
    <3>4. Cardinality(EventsOf(d, x.rec)) \in Nat /\ Cardinality(EventsOf(e, x.rec)) \in Nat
      BY <3>2, FS_CardinalityType
    <3>5. Cardinality(EventsOf(d, x.rec)) > Window /\ Window \in Nat
      BY <1>3, <2>1, ClientAssumption DEF AnswerFits
    <3>6. Cardinality(EventsOf(e, x.rec)) > Window
      BY <3>3, <3>4, <3>5
    <3> QED
      BY <2>1, <3>6 DEF AnswerFits
  <2>2. CASE ~(x.receipt = Nil /\ x.by = "event")
    BY <1>3, <2>2, LogGrows DEF AnswerFits
  <2> QED
    BY <2>1, <2>2
<1> QED
  BY <1>1, <1>2, <1>3 DEF Evident

\* The events of a record are of its versions so far.
LEMMA EventsOfVersions ==
  ASSUME NEW d, Kept(d), NEW r \in Ids, Active(d, r)
  PROVE  /\ d.records[r].version \in Nat
         /\ \A i \in EventsOf(d, r) : d.events[i].after <= d.records[r].version
<1>1. d.records[r] # Nil /\ d.records[r] \in Rows
  BY DEF Active, Kept, Images
<1>2. d.records[r].version \in Nat
  BY <1>1 DEF Rows
<1>3. \A i \in EventsOf(d, r) : d.events[i].after \in 1..d.records[r].version
  BY <1>1 DEF Kept, LogSound, VersionsLogged, HistoryLogged
<1> QED
  BY <1>2, <1>3

(***************************************************************************)
(* The inductive invariant.                                                *)
(***************************************************************************)
AdmissionsInOrder ==
  \A a \in admitted :
    a.n \in Admissions /\ a.rec \in Ids /\ ReceiptNames(store, a.n.create.key, a.rec)

FeedsInOrder ==
  /\ feed = [f \in Feeds |-> feed[f]]
  /\ \A f \in Feeds : Follows(store, f, feed[f])

\* The database is in order, what was answered is in its log, and what its
\* readers remember agrees with it.
IInv ==
  /\ Kept(store)
  /\ DefaultsKnown(store)
  /\ OneForAll(store)
  /\ AdmissionsInOrder
  /\ FeedsInOrder
  /\ Evident(store, evidence)

LEMMA InitInOrder == Init => IInv
<1> SUFFICES ASSUME Init PROVE IInv
  OBVIOUS
<1>1. BaseSchema \in Schemas /\ store = EmptyImage(BaseSchema)
  BY ClientAssumption DEF AcceptableCalls, Init
<1>2. Kept(store)
  BY <1>1, EmptyKept
<1>3. CurrentSchema(store) = BaseSchema /\ \A r \in Ids : ~Active(store, r)
  BY <1>1 DEF EmptyImage, CurrentSchema, SchemaVersion, Active
<1>4. DefaultsKnown(store)
  BY <1>3, DefaultsIn DEF DefaultsKnown
<1>5. OneForAll(store)
  BY <1>3 DEF OneForAll, HeldOnce
<1>6. AdmissionsInOrder
  BY DEF Init, AdmissionsInOrder
<1>7. FeedsInOrder
  <2>1. feed = [f \in Feeds |-> [cursor |-> [after |-> 0, rec |-> f.rec], delivered |-> {}]]
    BY DEF Init
  <2>2. \A f \in Feeds : Follows(store, f, feed[f])
    <3> SUFFICES ASSUME NEW f \in Feeds
                 PROVE  Follows(store, f, feed[f])
      OBVIOUS
    <3>1. feed[f] = [cursor |-> [after |-> 0, rec |-> f.rec], delivered |-> {}]
      BY <2>1
    <3>2. \A i \in Deliverable(store, f) : i \in Nat /\ ~(i <= 0)
      BY <1>2, EventNumbers DEF Deliverable, InScope
    <3>3. Len(store.events) \in Nat
      BY <1>2, EventNumbers
    <3> QED
      BY <3>1, <3>2, <3>3 DEF Follows, FeedRecords
  <2> QED
    BY <2>1, <2>2 DEF FeedsInOrder
<1>8. Evident(store, evidence)
  BY DEF Init, NoEvidence, Evident, EvidenceRecords
<1> QED
  BY <1>2, <1>4, <1>5, <1>6, <1>7, <1>8 DEF IInv

\* A database that grows leaves in order what is remembered of it.
LEMMA RememberedOn ==
  ASSUME IInv, Kept(store'), Extends(store, store'), feed' = feed, evidence' = evidence
  PROVE  FeedsInOrder' /\ Evident(store', evidence')
<1>1. Kept(store) /\ FeedsInOrder /\ Evident(store, evidence)
  BY DEF IInv
<1>2. Evident(store', evidence)
  BY <1>1, EvidentOn
<1>3. \A f \in Feeds : Follows(store', f, feed[f])
  BY <1>1, FollowsOn DEF FeedsInOrder
<1> QED
  BY <1>1, <1>2, <1>3 DEF FeedsInOrder

LEMMA AdmissionsOn ==
  ASSUME IInv, Kept(store'), Extends(store, store'), NEW a \in admitted
  PROVE  a.n \in Admissions /\ a.rec \in Ids /\ ReceiptNames(store', a.n.create.key, a.rec)
<1>1. Kept(store) /\ a.n \in Admissions /\ a.rec \in Ids
      /\ ReceiptNames(store, a.n.create.key, a.rec)
  BY DEF IInv, AdmissionsInOrder
<1> QED
  BY <1>1, LogGrows

LEMMA WriteInOrder ==
  ASSUME IInv, Write
  PROVE  IInv'
<1>1. store' \in Requested(store, Submissions, Evolutions) /\ Kept(store)
  BY DEF Write, IInv
<1>2. Kept(store') /\ Extends(store, store')
  BY <1>1, ClientAssumption, RequestedKept
<1>3. DefaultsKnown(store') /\ OneForAll(store')
  BY <1>1, OthersRequested, OthersKeepOne DEF IInv
<1>4. admitted' = admitted /\ feed' = feed /\ evidence' = evidence
  BY DEF Write
<1>5. AdmissionsInOrder'
  BY <1>2, <1>4, AdmissionsOn DEF AdmissionsInOrder
<1>6. FeedsInOrder' /\ Evident(store', evidence')
  BY <1>2, <1>4, RememberedOn
<1> QED
  BY <1>2, <1>3, <1>5, <1>6 DEF IInv

LEMMA CreateInOrder ==
  ASSUME IInv, NEW n \in Admissions, NEW new \in Ids, CreateByNaturalKey(n, new)
  PROVE  IInv'
<1>1. Kept(store) /\ DefaultsKnown(store) /\ OneForAll(store)
  BY DEF IInv
<1>2. PICK o : o = Admission(store, n, new)
  OBVIOUS
<1>3. /\ o.ok /\ store' = o.image /\ admitted' = admitted \cup {[n |-> n, rec |-> o.rec]}
      /\ feed' = feed /\ evidence' = evidence
  BY <1>2 DEF CreateByNaturalKey
<1>4. /\ Kept(store') /\ Extends(store, store')
      /\ o.rec \in Ids /\ ReceiptNames(store', n.create.key, o.rec)
  BY <1>1, <1>2, <1>3, AdmissionKept
<1>5. DefaultsKnown(store') /\ OneForAll(store')
  <2>1. CASE o = Refused(store)
    BY <1>1, <1>3, <2>1 DEF Refused
  <2>2. CASE o = Answered(store, o.rec)
    <3>1. o.image = store
      BY <2>2 DEF Answered
    <3> QED
      BY <1>1, <1>3, <3>1
  <2>3. CASE /\ Holders(store, n.field, n.create.data[n.field]) = {}
             /\ MayMutate(store, n.create, new)
             /\ o = Answered(Mutated(store, n.create, new, n.actor, 0), new)
    <3>1. store' = Mutated(store, n.create, new, n.actor, 0)
      BY <1>3, <2>3 DEF Answered
    <3> QED
      BY <1>1, <2>3, <3>1, CreationKeepsOne
  <2> QED
    BY <1>1, <1>2, <2>1, <2>2, <2>3, AdmissionCases
<1>6. AdmissionsInOrder'
  <2>1. \A a \in admitted :
          a.n \in Admissions /\ a.rec \in Ids /\ ReceiptNames(store', a.n.create.key, a.rec)
    BY <1>4, AdmissionsOn
  <2> QED
    BY <1>3, <1>4, <2>1 DEF AdmissionsInOrder
<1>7. FeedsInOrder' /\ Evident(store', evidence')
  BY <1>3, <1>4, RememberedOn
<1> QED
  BY <1>4, <1>5, <1>6, <1>7 DEF IInv

\* A reader changes nothing but what it remembers.
LEMMA ReadersInOrder ==
  ASSUME IInv, store' = store, admitted' = admitted, FeedsInOrder', Evident(store, evidence')
  PROVE  IInv'
<1>1. AdmissionsInOrder'
  BY DEF IInv, AdmissionsInOrder
<1> QED
  BY <1>1 DEF IInv

LEMMA PollInOrder ==
  ASSUME IInv, NEW f \in Feeds, NEW g \in Feeds, Poll(f, g)
  PROVE  IInv'
<1>1. Kept(store) /\ FeedsInOrder /\ Follows(store, g, feed[g]) /\ Follows(store, f, feed[f])
  BY DEF IInv, FeedsInOrder
<1>2. f = g
  <2>1. feed[g].cursor.rec = g.rec
    BY <1>1 DEF Follows, FeedRecords
  <2> QED
    BY <2>1, ClientAssumption DEF Poll, CursorFits
<1> DEFINE page == EventPage(store, f, feed[f].cursor.after)
<1>3. PICK next \in IF page = InScope(store, f, feed[f].cursor.after)
                      THEN {0, feed[f].cursor.after}
                      ELSE {NextCursor(store, f, feed[f].cursor.after)} :
        feed' = [feed EXCEPT
          ![f] = [cursor    |-> [after |-> next, rec |-> f.rec],
                  delivered |-> feed[f].delivered \cup (page \cap Deliverable(store, f))]]
  BY <1>1, <1>2 DEF Poll
<1>4. Follows(store, f, [cursor    |-> [after |-> next, rec |-> f.rec],
                         delivered |-> feed[f].delivered
                                         \cup (page \cap Deliverable(store, f))])
  BY <1>1, <1>3, FollowsPage
<1> HIDE DEF page
<1>5. store' = store /\ admitted' = admitted /\ evidence' = evidence
  BY DEF Poll
<1>6. FeedsInOrder'
  <2>1. feed = [h \in Feeds |-> feed[h]]
    BY <1>1 DEF FeedsInOrder
  <2>2. /\ feed' = [h \in Feeds |-> feed'[h]]
        /\ \A h \in Feeds : h # f => feed'[h] = feed[h]
        /\ feed'[f] = [cursor    |-> [after |-> next, rec |-> f.rec],
                       delivered |-> feed[f].delivered
                                       \cup (page \cap Deliverable(store, f))]
    BY <1>3, <2>1
  <2>3. ASSUME NEW h \in Feeds PROVE Follows(store, h, feed'[h])
    BY <1>1, <1>4, <2>2 DEF FeedsInOrder
  <2> QED
    BY <1>5, <2>2, <2>3 DEF FeedsInOrder
<1> QED
  BY <1>5, <1>6, ReadersInOrder DEF IInv

LEMMA LookUpEventInOrder ==
  ASSUME IInv, NEW i \in 1..Len(store.events), LookUpEvent(i)
  PROVE  IInv'
<1> DEFINE r == store.events[i].rec
<1>1. /\ Kept(store) /\ i \in Nat /\ store.events[i] \in Events
  BY EventNumbers DEF IInv
<1>2. r \in Ids /\ Active(store, r) /\ i \in EventsOf(store, r)
  BY <1>1 DEF LookUpEvent, Events, EventsOf
<1>3. /\ store.records[r].version \in Nat
      /\ store.events[i].after <= store.records[r].version
  BY <1>1, <1>2, EventsOfVersions
<1>4. evidence' = [at |-> "record", by |-> "event", event |-> i, key |-> Nil, known |-> TRUE,
                   rec |-> r, version |-> store.records[r].version, receipt |-> Nil]
  BY DEF LookUpEvent, NoEvidence
<1> HIDE DEF r
<1>5. evidence' \in EvidenceRecords
  BY <1>1, <1>2, <1>3, <1>4 DEF EvidenceRecords
<1>6. OfEvent(store, evidence')
  BY <1>3, <1>4 DEF OfEvent, r
<1>7. Evident(store, evidence')
  BY <1>4, <1>5, <1>6 DEF Evident
<1>8. store' = store /\ admitted' = admitted /\ feed' = feed
  BY DEF LookUpEvent
<1>9. FeedsInOrder'
  BY <1>8 DEF IInv, FeedsInOrder
<1> QED
  BY <1>7, <1>8, <1>9, ReadersInOrder

LEMMA LookUpKeyInOrder ==
  ASSUME IInv, NEW k \in Keys, NEW r \in Ids, LookUpKey(k, r)
  PROVE  IInv'
<1>1. Kept(store) /\ Active(store, r)
  BY DEF IInv, LookUpKey
<1>2. /\ store.records[r].version \in Nat
      /\ \A i \in EventsOf(store, r) : store.events[i].after <= store.records[r].version
  BY <1>1, EventsOfVersions
<1>3. evidence' = [at |-> "record", by |-> "key", event |-> 0, key |-> k,
                   known |-> (ReceiptsFor(store, k) # {}),
                   rec |-> r, version |-> store.records[r].version, receipt |-> Nil]
  BY DEF LookUpKey, NoEvidence
<1>4. evidence' \in EvidenceRecords
  BY <1>2, <1>3 DEF EvidenceRecords
<1>5. OfKey(store, evidence')
  <2>1. ASSUME NEW i \in ReceiptsFor(store, k), store.events[i].rec = r
        PROVE  store.events[i].after <= store.records[r].version
    BY <1>2, <2>1 DEF ReceiptsFor, EventsOf
  <2> QED
    BY <1>3, <2>1 DEF OfKey
<1>6. Evident(store, evidence')
  BY <1>3, <1>4, <1>5 DEF Evident
<1>7. store' = store /\ admitted' = admitted /\ feed' = feed
  BY DEF LookUpKey
<1>8. FeedsInOrder'
  BY <1>7 DEF IInv, FeedsInOrder
<1> QED
  BY <1>6, <1>7, <1>8, ReadersInOrder

LEMMA LookUpReceiptInOrder ==
  ASSUME IInv, LookUpReceipt
  PROVE  IInv'
<1>1. /\ Kept(store) /\ Evident(store, evidence) /\ evidence \in EvidenceRecords
      /\ evidence.at = "record"
  BY DEF IInv, LookUpReceipt, Evident
<1>2. Evident(store, evidence')
  <2>1. CASE evidence.by = "event"
    <3> DEFINE i == evidence.event
               x == ReceiptOfEvent(store, i)
               window == First(Window, EventsOf(store, evidence.rec))
    <3>1. OfEvent(store, evidence)
      BY <1>1, <2>1 DEF Evident
    <3>2. /\ i \in Nat /\ i \in EventsOf(store, evidence.rec)
          /\ store.events[i].rec = evidence.rec
      BY <1>1, <3>1 DEF OfEvent, EvidenceRecords, EventsOf
    <3>3. evidence' = [evidence EXCEPT !.at = "answered", !.receipt = x]
      BY <2>1 DEF LookUpReceipt
    <3>4. x = IF i \in window THEN i ELSE Nil
      BY <3>2 DEF ReceiptOfEvent
    <3>5. i \notin window => Cardinality(EventsOf(store, evidence.rec)) > Window
      <4>1. IsFiniteSet(EventsOf(store, evidence.rec))
            /\ EventsOf(store, evidence.rec) \subseteq Nat /\ Window \in Nat
        BY <1>1, EventNumbers, FS_Subset, ClientAssumption
      <4> QED
        BY <3>2, <4>1, NotFirst
    <3> HIDE DEF x, window
    <3>6. evidence' \in EvidenceRecords /\ evidence'.receipt = x
          /\ evidence'.by = "event" /\ evidence'.event = i /\ evidence'.rec = evidence.rec
          /\ evidence'.version = evidence.version
      BY <1>1, <2>1, <3>2, <3>3, <3>4 DEF EvidenceRecords
    <3>7. OfEvent(store, evidence')
      BY <3>1, <3>6 DEF OfEvent
    <3>8. AnswerFits(store, evidence')
      <4>1. i # Nil
        BY <3>2, ClientAssumption
      <4> QED
        BY <3>4, <3>5, <3>6, <4>1 DEF AnswerFits
    <3> QED
      BY <3>6, <3>7, <3>8 DEF Evident
  <2>2. CASE evidence.by = "key" /\ ReceiptsFor(store, evidence.key) = {}
    <3>1. evidence' = NoEvidence
      BY <2>2 DEF LookUpReceipt
    <3> QED
      BY <3>1 DEF NoEvidence, Evident, EvidenceRecords
  <2>3. CASE evidence.by = "key" /\ ReceiptsFor(store, evidence.key) # {}
    <3> DEFINE x == Smallest(ReceiptsFor(store, evidence.key))
    <3>1. OfKey(store, evidence)
      BY <1>1, <2>3 DEF Evident
    <3>2. evidence' = [evidence EXCEPT !.at = "answered", !.receipt = x]
      BY <2>3 DEF LookUpReceipt
    <3>3. x \in ReceiptsFor(store, evidence.key) /\ x \in Nat
      <4>1. ReceiptsFor(store, evidence.key) \in SUBSET Nat
        BY <1>1, EventNumbers
      <4> QED
        BY <2>3, <4>1, SmallestNumber
    <3> HIDE DEF x
    <3>4. x # Nil
      BY <3>3, ClientAssumption
    <3>5. evidence' \in EvidenceRecords /\ evidence'.receipt = x
          /\ evidence'.by = "key" /\ evidence'.key = evidence.key
          /\ evidence'.known = evidence.known /\ evidence'.rec = evidence.rec
          /\ evidence'.version = evidence.version
      BY <1>1, <2>3, <3>2, <3>3 DEF EvidenceRecords
    <3>6. OfKey(store, evidence')
      BY <3>1, <3>5 DEF OfKey
    <3>7. AnswerFits(store, evidence')
      BY <3>3, <3>4, <3>5 DEF AnswerFits
    <3> QED
      BY <3>5, <3>6, <3>7 DEF Evident
  <2> QED
    BY <1>1, <2>1, <2>2, <2>3 DEF EvidenceRecords
<1>3. store' = store /\ admitted' = admitted /\ feed' = feed
  BY DEF LookUpReceipt
<1>4. FeedsInOrder'
  BY <1>3 DEF IInv, FeedsInOrder
<1> QED
  BY <1>2, <1>3, <1>4, ReadersInOrder

LEMMA StepInOrder == IInv /\ [Next]_vars => IInv'
<1> SUFFICES ASSUME IInv, [Next]_vars PROVE IInv'
  OBVIOUS
<1>1. ASSUME UNCHANGED <<store, admitted, feed, evidence>>
      PROVE  IInv'
  <2>1. FeedsInOrder' /\ Evident(store, evidence')
    BY <1>1 DEF IInv, FeedsInOrder
  <2> QED
    BY <1>1, <2>1, ReadersInOrder
<1>2. CASE Write
  BY <1>2, WriteInOrder
<1>3. CASE \E n \in Admissions, new \in Ids : CreateByNaturalKey(n, new)
  BY <1>3, CreateInOrder
<1>4. CASE \E q \in Queries : StartQuery(q)
  BY <1>1, <1>4 DEF StartQuery
<1>5. CASE ReadPage
  BY <1>1, <1>5 DEF ReadPage
<1>6. CASE \E f, g \in Feeds : Poll(f, g)
  BY <1>6, PollInOrder
<1>7. CASE \E i \in 1..Len(store.events) : LookUpEvent(i)
  BY <1>7, LookUpEventInOrder
<1>8. CASE \E k \in Keys, r \in Ids : LookUpKey(k, r)
  BY <1>8, LookUpKeyInOrder
<1>9. CASE LookUpReceipt
  BY <1>9, LookUpReceiptInOrder
<1>10. CASE UNCHANGED vars
  BY <1>1, <1>10 DEF vars
<1> QED
  BY <1>2, <1>3, <1>4, <1>5, <1>6, <1>7, <1>8, <1>9, <1>10 DEF Next

\* Whatever the callers write and the readers ask, the database stays in order,
\* every answered creation has its receipt, and cursors and evidence agree with
\* the log.
THEOREM ClientsInvariance == Spec => []IInv
  BY InitInOrder, StepInOrder, PTL DEF Spec

(***************************************************************************)
(* What the clients rely on.                                               *)
(***************************************************************************)
\* Competing creations by natural key leave one active record for a value that
\* nobody else writes (createRecordByNaturalKey).
THEOREM NaturalKeysUnique == Spec => []OneRecordPerNaturalKey
<1>1. IInv => OneRecordPerNaturalKey
  BY DEF IInv, OneForAll, HeldOnce, OneRecordPerNaturalKey
<1> QED
  BY <1>1, ClientsInvariance, PTL

\* A creation by natural key that was answered is not carried out again, and its
\* retries get the same record or are refused (createRecordByNaturalKey).
THEOREM AdmissionsRepeat == Spec => []AdmissionsRepeatable
<1>1. ASSUME IInv PROVE AdmissionsRepeatable
  <2> SUFFICES ASSUME NEW a \in admitted, NEW new \in Ids, NEW o, o = Admission(store, a.n, new)
               PROVE  o.image = store /\ (o.ok => o.rec = a.rec)
    BY DEF AdmissionsRepeatable
  <2>1. Kept(store) /\ a.n \in Admissions /\ ReceiptNames(store, a.n.create.key, a.rec)
    BY <1>1 DEF IInv, AdmissionsInOrder
  <2>2. ASSUME NEW d, NEW n, NEW r, d = store, n = a.n, r = a.rec
        PROVE  o.image = d /\ (o.ok => o.rec = r)
    <3>1. Kept(d) /\ n \in Admissions /\ ReceiptNames(d, n.create.key, r)
      BY <2>1, <2>2
    <3>2. o = Admission(d, n, new)
      BY <2>2
    <3> QED
      BY <3>1, <3>2, RepeatedAdmission, SMTT(60)
  <2> QED
    BY <2>2
<1> QED
  BY <1>1, ClientsInvariance, PTL

\* A subscriber that polls with the cursors it was given never jumps over an
\* event that its subscription asks for (events.poll).
THEOREM FeedsComplete == Spec => []FeedsLoseNothing
<1>1. ASSUME IInv PROVE FeedsLoseNothing
  <2>1. ASSUME NEW f \in Feeds
        PROVE  /\ feed[f].cursor.after \in 0..Len(store.events)
               /\ feed[f].delivered \subseteq Deliverable(store, f)
               /\ \A i \in Deliverable(store, f) :
                    (i <= feed[f].cursor.after \/ \E j \in feed[f].delivered : i < j)
                      => i \in feed[f].delivered
    <3>1. Follows(store, f, feed[f])
      BY <1>1 DEF IInv, FeedsInOrder
    <3>2. Len(store.events) \in Nat
      BY <1>1, EventNumbers DEF IInv
    <3> QED
      BY <3>1, <3>2 DEF Follows, FeedRecords
  <2>2. evidence.at = "answered" => evidence.receipt \in {Nil} \cup 1..Len(store.events)
    <3> SUFFICES ASSUME evidence.at = "answered", evidence.receipt # Nil
                 PROVE  evidence.receipt \in 1..Len(store.events)
      OBVIOUS
    <3>1. AnswerFits(store, evidence) /\ (evidence.by = "event" => OfEvent(store, evidence))
      BY <1>1 DEF IInv, Evident
    <3> QED
      BY <3>1 DEF AnswerFits, OfEvent, ReceiptsFor
  <2>3. TypeOK
    BY <1>1, <2>1, <2>2 DEF TypeOK, IInv, AdmissionsInOrder
  <2> QED
    BY <2>1, <2>3 DEF FeedsLoseNothing
<1> QED
  BY <1>1, ClientsInvariance, PTL

\* The receipt that the bridge shows with a record belongs to it and is not of a
\* later version, unless its key was unknown when the lookup began (recordEvidence).
THEOREM EvidenceBelongsTogether == Spec => []EvidenceBelongs
<1>1. ASSUME IInv PROVE EvidenceBelongs
  <2> SUFFICES ASSUME evidence.at = "answered"
               PROVE  IF evidence.receipt = Nil
                        THEN evidence.by = "event" =>
                               Cardinality(EventsOf(store, evidence.rec)) > Window
                        ELSE LET e == store.events[evidence.receipt] IN
                             /\ evidence.by = "event" => e.rec = evidence.rec
                             /\ (e.rec = evidence.rec /\ e.after > evidence.version) =>
                                  ~evidence.known
    BY DEF EvidenceBelongs
  <2>1. /\ Kept(store) /\ evidence \in EvidenceRecords /\ AnswerFits(store, evidence)
        /\ IF evidence.by = "event" THEN OfEvent(store, evidence) ELSE OfKey(store, evidence)
    BY <1>1 DEF IInv, Evident
  <2>2. CASE evidence.receipt = Nil
    BY <2>1, <2>2 DEF AnswerFits
  <2>3. CASE evidence.receipt # Nil /\ evidence.by = "event"
    <3>1. evidence.receipt = evidence.event /\ OfEvent(store, evidence)
      BY <2>1, <2>3 DEF AnswerFits
    <3>2. store.events[evidence.event] \in Events /\ evidence.version \in Nat
      BY <2>1, <3>1, EventNumbers DEF OfEvent, EvidenceRecords
    <3>3. store.events[evidence.event].after \in Nat
      BY <3>2 DEF Events
    <3> QED
      BY <2>3, <3>1, <3>2, <3>3 DEF OfEvent
  <2>4. CASE evidence.receipt # Nil /\ evidence.by # "event"
    <3>1. evidence.receipt \in ReceiptsFor(store, evidence.key) /\ OfKey(store, evidence)
      BY <2>1, <2>4 DEF AnswerFits
    <3>2. store.events[evidence.receipt] \in Events /\ evidence.version \in Nat
      BY <2>1, <3>1, EventNumbers DEF ReceiptsFor, EvidenceRecords
    <3>3. store.events[evidence.receipt].after \in Nat
      BY <3>2 DEF Events
    <3> QED
      BY <2>1, <2>4, <3>1, <3>2, <3>3 DEF OfKey, EvidenceRecords
  <2> QED
    BY <2>2, <2>3, <2>4
<1> QED
  BY <1>1, ClientsInvariance, PTL

(***************************************************************************)
(* The pages of a query.  Nothing is asked of the writes between them.     *)
(***************************************************************************)
Places == 1..Len(Order)

Scans ==
  [at : {"open", "done"}, query : Queries, offset : Nat, got : SUBSET Places,
   returned : Nat, steady : SUBSET Places, left : Nat, entered : Nat]

\* While the query goes on: what it has skipped left the result to those that are
\* gone, and what it returned twice, or will, to those that came.
OpenInOrder(found, s) ==
  /\ s.steady \subseteq found
  /\ s.offset = 0 \/ s.offset < Len(Order)
  /\ Cardinality(Skipped(found, s.offset, s.steady, s.got)) <= s.left
  /\ s.returned + Cardinality(Again(found, s.offset, s.got))
       <= Cardinality(s.got) + s.entered

\* When it has ended: what it missed, and what it returned twice.
DoneInOrder(s) ==
  /\ Cardinality(s.steady \ s.got) <= s.left
  /\ s.returned <= Cardinality(s.got) + s.entered

ScanInOrder(d, s) ==
  \/ s = NoScan
  \/ /\ s \in Scans
     /\ s.at = "open" => OpenInOrder(Found(d, s.query), s)
     /\ s.at = "done" => DoneInOrder(s)

\* What a query finds are places in the order.
LEMMA FoundPlaces ==
  ASSUME NEW d, NEW q
  PROVE  /\ Len(Order) \in Nat
         /\ Found(d, q) \in SUBSET Places
         /\ Places \in SUBSET (0..Len(Order))
<1>1. Len(Order) \in Nat
  BY ClientAssumption
<1> QED
  BY <1>1 DEF Found, Places

\* The scan when it begins.
LEMMA StartInOrder ==
  ASSUME NEW d, NEW q \in Queries
  PROVE  ScanInOrder(d, OpenScan(d, q))
<1> DEFINE s == OpenScan(d, q)
<1>1. Found(d, q) \in SUBSET Places
  BY FoundPlaces
<1>2. s = [at |-> "open", query |-> q, offset |-> 0, got |-> {}, returned |-> 0,
           steady |-> Found(d, q), left |-> 0, entered |-> 0]
  BY DEF OpenScan
<1> HIDE DEF s
<1>3. s \in Scans /\ s.at = "open" /\ s.query = q
  BY <1>1, <1>2 DEF Scans
<1>4. Skipped(Found(d, q), 0, Found(d, q), {}) = {}
  <2> SUFFICES ASSUME NEW i \in First(0, Found(d, q)) PROVE FALSE
    BY DEF Skipped
  <2>1. Cardinality(First(0, Found(d, q))) <= 0 /\ First(0, Found(d, q)) \in SUBSET Places
    BY <1>1, FoundPlaces, FirstCounts DEF First
  <2>2. IsFiniteSet(First(0, Found(d, q))) /\ Cardinality(First(0, Found(d, q))) \in Nat
    BY <2>1, FoundPlaces, NumbersFinite
  <2>3. Cardinality(First(0, Found(d, q))) = 0
    BY <2>1, <2>2
  <2> QED
    BY <2>2, <2>3, FS_EmptySet
<1>5. Again(Found(d, q), 0, {}) = {}
  BY DEF Again
<1>6. OpenInOrder(Found(d, q), s)
  BY <1>2, <1>4, <1>5, FS_EmptySet DEF OpenInOrder
<1> QED
  BY <1>3, <1>6 DEF ScanInOrder, s

\* The scan after a write: which it watched, and how many left and entered.
LEMMA WatchedInOrder ==
  ASSUME NEW d, NEW e, NEW s, ScanInOrder(d, s)
  PROVE  ScanInOrder(e, Watched(s, d, e))
<1>1. CASE s.at # "open"
  BY <1>1 DEF Watched, ScanInOrder, NoScan
<1>2. CASE s.at = "open"
  <2> DEFINE m == Len(Order)
             old == Found(d, s.query)
             now == Found(e, s.query)
             t == Watched(s, d, e)
             u == s.steady \cap now
             l == Cardinality(old \ now)
             c == Cardinality(now \ old)
  <2>1. s \in Scans /\ OpenInOrder(old, s)
    BY <1>2 DEF ScanInOrder, NoScan
  <2>2. /\ m \in Nat /\ Places \in SUBSET (0..m)
        /\ old \in SUBSET Places /\ now \in SUBSET Places
    BY FoundPlaces
  <2>3. t = [s EXCEPT !.steady = u, !.left = @ + l, !.entered = @ + c]
    BY <1>2 DEF Watched
  <2> HIDE DEF m, old, now, t
  <2>4. l \in Nat /\ c \in Nat
    <3>1. old \ now \in SUBSET (0..m) /\ now \ old \in SUBSET (0..m)
      BY <2>2
    <3> QED
      BY <2>2, <3>1, NumbersFinite
  <2>5. u \in SUBSET Places /\ u \in SUBSET now /\ u = s.steady \cap now
    BY <2>2
  <2> HIDE DEF u, l, c
  <2>6. t \in Scans /\ t.at = "open" /\ t.query = s.query /\ t.offset = s.offset
        /\ t.got = s.got /\ t.returned = s.returned /\ t.steady = u
        /\ t.left = s.left + l /\ t.entered = s.entered + c
    <3>1. u \in SUBSET Places
      BY <2>5
    <3>2. s.left + l \in Nat /\ s.entered + c \in Nat
      BY <2>1, <2>4 DEF Scans
    <3>3. PICK x, y : x = s.left + l /\ y = s.entered + c
      OBVIOUS
    <3>4. t = [s EXCEPT !.steady = u, !.left = x, !.entered = y]
      BY <2>3, <3>3
    <3>5. t \in Scans
      BY <2>1, <3>1, <3>2, <3>3, <3>4 DEF Scans
    <3>6. /\ t.at = "open" /\ t.query = s.query /\ t.offset = s.offset /\ t.got = s.got
          /\ t.returned = s.returned /\ t.steady = u /\ t.left = x /\ t.entered = y
      BY <1>2, <2>1, <3>4 DEF Scans
    <3> QED
      BY <3>3, <3>5, <3>6
  <2>7. /\ s.offset \in Nat /\ s.returned \in Nat /\ s.left \in Nat /\ s.entered \in Nat
        /\ s.got \in SUBSET (0..m) /\ s.steady \in SUBSET old
    BY <2>1, <2>2 DEF Scans, OpenInOrder
  <2>8. /\ old \in SUBSET (0..m) /\ now \in SUBSET (0..m)
    BY <2>2
  <2> DEFINE n   == s.offset
             K   == Cardinality(Skipped(old, n, s.steady, s.got))
             K1  == Cardinality(Skipped(now, n, u, s.got))
             A   == Cardinality(Again(old, n, s.got))
             A1  == Cardinality(Again(now, n, s.got))
             G   == Cardinality(s.got)
  <2>9. K1 <= K + l
    <3>1. Cardinality(Skipped(now, n, s.steady \cap now, s.got)) <= K + Cardinality(old \ now)
      BY <2>2, <2>7, <2>8, SkippedMore
    <3> QED
      BY <2>5, <3>1 DEF l
  <2>10. A1 <= A + c
    BY <2>2, <2>7, <2>8, AgainMore DEF c
  <2>11. K \in Nat /\ K1 \in Nat /\ A \in Nat /\ A1 \in Nat /\ G \in Nat
    <3>1. /\ Skipped(old, n, s.steady, s.got) \in SUBSET (0..m)
          /\ Skipped(now, n, u, s.got) \in SUBSET (0..m)
          /\ Again(old, n, s.got) \in SUBSET (0..m) /\ Again(now, n, s.got) \in SUBSET (0..m)
      BY <2>5, <2>7, <2>8 DEF Skipped, Again
    <3> QED
      BY <2>2, <2>7, <3>1, NumbersFinite
  <2>12. K <= s.left /\ s.returned + A <= G + s.entered
    BY <2>1 DEF OpenInOrder
  <2>13. n = 0 \/ n < Len(Order)
    BY <2>1 DEF OpenInOrder
  <2> HIDE DEF K, K1, A, A1, G
  <2>14. /\ K1 <= s.left + l
         /\ s.returned + A1 <= G + (s.entered + c)
    BY <2>4, <2>7, <2>9, <2>10, <2>11, <2>12
  <2>15. OpenInOrder(now, t)
    BY <2>5, <2>6, <2>13, <2>14 DEF OpenInOrder, K1, A1, G
  <2>16. ScanInOrder(e, t)
    BY <2>6, <2>15 DEF ScanInOrder, now
  <2> QED
    BY <2>16 DEF t
<1> QED
  BY <1>1, <1>2

\* The scan after a page.
PageTaken(d, s) ==
  LET page == Page(d, s.query, s.offset)
      r    == [s EXCEPT !.got = @ \cup page, !.returned = @ + Cardinality(page)]
  IN  IF HasMore(d, s.query, s.offset)
        THEN [r EXCEPT !.offset = NextOffset(s.query, @)] ELSE [r EXCEPT !.at = "done"]

LEMMA PageInOrder ==
  ASSUME NEW d, NEW s \in Scans, s.at = "open", OpenInOrder(Found(d, s.query), s)
  PROVE  ScanInOrder(d, PageTaken(d, s))
<1> DEFINE m == Len(Order)
           found == Found(d, s.query)
           page == Page(d, s.query, s.offset)
           t == PageTaken(d, s)
<1>1. PICK n, l, u, old, got, c :
        /\ n = s.offset /\ l = s.query.limit /\ u = s.steady /\ old = s.got /\ got = old \cup page
        /\ c = s.returned + Cardinality(page)
  OBVIOUS
<1>2. /\ m \in Nat /\ Places \in SUBSET (0..m) /\ found \in SUBSET Places
      /\ found \in SUBSET (0..m)
  BY FoundPlaces
<1>3. /\ n \in Nat /\ s.returned \in Nat /\ s.left \in Nat /\ s.entered \in Nat
      /\ old \in SUBSET Places /\ old \in SUBSET (0..m) /\ s.query \in Queries
      /\ u \in SUBSET Places /\ u \in SUBSET found
  BY <1>1, <1>2 DEF Scans, OpenInOrder
<1>4. l \in Nat
  BY <1>1, <1>3, ClientAssumption
<1>5. page = PageOf(found, n, l)
  BY <1>1 DEF Page, PageOf
<1>6. t = IF Cardinality(found) > n + l
            THEN [s EXCEPT !.got = got, !.returned = c, !.offset = n + l]
            ELSE [s EXCEPT !.got = got, !.returned = c, !.at = "done"]
  BY <1>1 DEF PageTaken, HasMore, NextOffset
<1> HIDE DEF m, found, page, t
<1>7. /\ page \in SUBSET found
      /\ Skipped(found, n + l, u, old \cup page) \subseteq Skipped(found, n, u, old)
      /\ Cardinality(page) + Cardinality(Again(found, n + l, old \cup page))
           + Cardinality(old)
           = Cardinality(old \cup page) + Cardinality(Again(found, n, old))
  <2>1. /\ m \in Nat /\ found \in SUBSET (0..m) /\ n \in Nat /\ l \in Nat
        /\ old \in SUBSET (0..m)
    BY <1>2, <1>3, <1>4
  <2>2. page \in SUBSET found
    BY <1>5 DEF PageOf, First
  <2>3. Skipped(found, n + l, u, old \cup page) \subseteq Skipped(found, n, u, old)
    BY <1>5, PageSkips
  <2>4. Cardinality(page) + Cardinality(Again(found, n + l, old \cup page)) + Cardinality(old)
           = Cardinality(old \cup page) + Cardinality(Again(found, n, old))
    <3>1. Balanced(found, n, l, old, page)
      BY <1>5, <2>1, PageRepeats
    <3> QED
      BY <3>1 DEF Balanced
  <2> QED
    BY <2>2, <2>3, <2>4
<1>8. got \in SUBSET Places
  BY <1>1, <1>2, <1>3, <1>7
<1> DEFINE K  == Cardinality(Skipped(found, n, u, old))
           K1 == Cardinality(Skipped(found, n + l, u, got))
           A  == Cardinality(Again(found, n, old))
           A1 == Cardinality(Again(found, n + l, got))
           P  == Cardinality(page)
           G  == Cardinality(old)
           G1 == Cardinality(got)
<1>9. /\ Skipped(found, n, u, old) \in SUBSET (0..m)
      /\ Skipped(found, n + l, u, got) \in SUBSET (0..m)
      /\ Again(found, n, old) \in SUBSET (0..m) /\ Again(found, n + l, got) \in SUBSET (0..m)
      /\ page \in SUBSET (0..m) /\ got \in SUBSET (0..m)
  BY <1>2, <1>3, <1>7, <1>8 DEF Skipped, Again
<1>10. /\ K \in Nat /\ K1 \in Nat /\ A \in Nat /\ A1 \in Nat /\ P \in Nat /\ G \in Nat
       /\ G1 \in Nat
  BY <1>2, <1>3, <1>9, NumbersFinite
<1>11. K1 <= K /\ P + A1 + G = G1 + A
  <2>1. Skipped(found, n + l, u, got) \subseteq Skipped(found, n, u, old)
    BY <1>1, <1>7
  <2>2. K1 <= K
    BY <1>2, <1>9, <2>1, Counted
  <2> QED
    BY <1>1, <1>7, <2>2
<1>12. K <= s.left /\ s.returned + A <= G + s.entered
  BY <1>1 DEF OpenInOrder, found
<1> HIDE DEF K, K1, A, A1, G, G1
<1>13. c = s.returned + P
  BY <1>1
<1> HIDE DEF P
<1>14. c \in Nat /\ K1 <= s.left /\ c + A1 <= G1 + s.entered
  BY <1>3, <1>10, <1>11, <1>12, <1>13
<1>15. CASE Cardinality(found) > n + l
  <2>1. t = [s EXCEPT !.got = got, !.returned = c, !.offset = n + l]
    BY <1>6, <1>15
  <2>2. n + l < m
    <3>1. Cardinality(found) <= Cardinality(Places)
      BY <1>2, Counted
    <3>2. Cardinality(Places) = m
      <4>1. Cardinality(1..m) = IF 1 > m THEN 0 ELSE m - 1 + 1
        BY <1>2, FS_Interval
      <4> QED
        BY <1>2, <4>1 DEF Places, m
    <3>3. Cardinality(found) \in Nat
      BY <1>2, NumbersFinite
    <3> QED
      BY <1>2, <1>3, <1>4, <1>15, <3>1, <3>2, <3>3
  <2>3. n + l \in Nat
    BY <1>3, <1>4
  <2>4. t \in Scans
    BY <1>8, <1>14, <2>1, <2>3 DEF Scans
  <2>5. /\ t.at = "open" /\ t.query = s.query /\ t.offset = n + l /\ t.got = got
        /\ t.returned = c /\ t.steady = u /\ t.left = s.left /\ t.entered = s.entered
    BY <1>1, <2>1 DEF Scans
  <2>6. OpenInOrder(found, t)
    BY <1>3, <1>14, <2>2, <2>5 DEF OpenInOrder, K1, A1, G1, m
  <2>7. ScanInOrder(d, t)
    BY <2>4, <2>5, <2>6 DEF ScanInOrder, found
  <2> QED
    BY <2>7 DEF t
<1>16. CASE ~(Cardinality(found) > n + l)
  <2>1. t = [s EXCEPT !.got = got, !.returned = c, !.at = "done"]
    BY <1>6, <1>16
  <2>2. t \in Scans
    BY <1>8, <1>14, <2>1 DEF Scans
  <2>3. /\ t.at = "done" /\ t.got = got /\ t.returned = c /\ t.steady = u
        /\ t.left = s.left /\ t.entered = s.entered
    BY <1>1, <2>1 DEF Scans
  <2>4. found \subseteq First(n + l, found)
    <3> SUFFICES ASSUME NEW i \in found, i \notin First(n + l, found) PROVE FALSE
      OBVIOUS
    <3>1. IsFiniteSet(found) /\ found \subseteq Nat
      BY <1>2, NumbersFinite
    <3>2. n + l \in Nat
      BY <1>3, <1>4
    <3> QED
      BY <1>16, <3>1, <3>2, NotFirst
  <2>5. u \ got = Skipped(found, n + l, u, got)
    BY <1>3, <2>4 DEF Skipped
  <2>6. Cardinality(u \ got) <= s.left
    BY <1>14, <2>5 DEF K1
  <2>7. c <= G1 + s.entered
    BY <1>3, <1>10, <1>14
  <2>8. DoneInOrder(t)
    BY <2>3, <2>6, <2>7 DEF DoneInOrder, G1
  <2>9. ScanInOrder(d, t)
    BY <2>2, <2>3, <2>8 DEF ScanInOrder
  <2> QED
    BY <2>9 DEF t
<1> QED
  BY <1>15, <1>16

\* The invariant holds at the start and is kept by every step.
LEMMA ScanStarts == Init => ScanInOrder(store, scan)
  BY DEF Init, ScanInOrder

LEMMA ScanStays == ScanInOrder(store, scan) /\ [Next]_vars => ScanInOrder(store, scan)'
<1> SUFFICES ASSUME ScanInOrder(store, scan), [Next]_vars
             PROVE  ScanInOrder(store', scan')
  OBVIOUS
<1>1. CASE scan' = Watched(scan, store, store')
  BY <1>1, WatchedInOrder
<1>2. CASE store' = store /\ scan' = scan
  BY <1>2
<1>3. ASSUME NEW q \in Queries, StartQuery(q)
      PROVE  ScanInOrder(store', scan')
  BY <1>3, StartInOrder DEF StartQuery
<1>4. CASE ReadPage
  <2>1. scan \in Scans /\ scan.at = "open" /\ OpenInOrder(Found(store, scan.query), scan)
    BY <1>4 DEF ReadPage, ScanInOrder, NoScan
  <2>2. store' = store /\ scan' = PageTaken(store, scan)
    BY <1>4 DEF ReadPage, PageTaken
  <2>3. ScanInOrder(store, scan')
    BY <2>1, <2>2, PageInOrder
  <2> QED
    BY <2>2, <2>3
<1>5. CASE Next
  <2>1. CASE Write
    BY <1>1, <2>1 DEF Write
  <2>2. CASE \E n \in Admissions, new \in Ids : CreateByNaturalKey(n, new)
    BY <1>1, <2>2 DEF CreateByNaturalKey
  <2>3. CASE \E f, g \in Feeds : Poll(f, g)
    BY <1>2, <2>3 DEF Poll
  <2>4. CASE \E i \in 1..Len(store.events) : LookUpEvent(i)
    BY <1>2, <2>4 DEF LookUpEvent
  <2>5. CASE \E k \in Keys, r \in Ids : LookUpKey(k, r)
    BY <1>2, <2>5 DEF LookUpKey
  <2>6. CASE LookUpReceipt
    BY <1>2, <2>6 DEF LookUpReceipt
  <2> QED
    BY <1>3, <1>4, <1>5, <2>1, <2>2, <2>3, <2>4, <2>5, <2>6 DEF Next
<1> QED
  BY <1>2, <1>5 DEF vars

\* A query that was read to its end missed no more of the records that matched
\* all the time than left its result meanwhile, and returned no more twice than
\* entered it (the pages of DataQuery, cut by offset from the live table).
THEOREM PagesLoseOnlyToWrites == Spec => []PagingLosesOnlyToWrites
<1>1. ASSUME ScanInOrder(store, scan) PROVE PagingLosesOnlyToWrites
  <2>1. CASE scan = NoScan
    BY <2>1 DEF NoScan, PagingLosesOnlyToWrites
  <2>2. CASE scan \in Scans
    <3>1. scan.at = "open" =>
            scan.query \in Queries /\ (scan.offset = 0 \/ scan.offset < Len(Order))
      BY <1>1, <2>2 DEF ScanInOrder, OpenInOrder, NoScan, Scans
    <3>2. ASSUME scan.at = "done"
          PROVE  /\ Cardinality(scan.steady \ scan.got) <= scan.left
                 /\ scan.returned - Cardinality(scan.got) <= scan.entered
      <4>1. DoneInOrder(scan)
        BY <1>1, <3>2 DEF ScanInOrder, NoScan
      <4>2. scan.returned \in Nat /\ scan.entered \in Nat /\ scan.got \in SUBSET Places
        BY <2>2 DEF Scans
      <4>3. Cardinality(scan.got) \in Nat
        <5>1. scan.got \in SUBSET (0..Len(Order)) /\ Len(Order) \in Nat
          BY <4>2, FoundPlaces
        <5> QED
          BY <5>1, NumbersFinite
      <4> QED
        BY <4>1, <4>2, <4>3 DEF DoneInOrder
    <3> QED
      BY <3>1, <3>2 DEF PagingLosesOnlyToWrites
  <2> QED
    BY <1>1, <2>1, <2>2 DEF ScanInOrder
<1> QED
  BY <1>1, ScanStarts, ScanStays, PTL DEF Spec
==============================================================================
