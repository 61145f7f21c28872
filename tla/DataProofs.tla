----------------------------- MODULE DataProofs -----------------------------
(***************************************************************************)
(* What List operations do to the elements of a list, and when they keep   *)
(* it free of duplicates; and the least, the greatest and the k-th of a set*)
(* of numbers, for the modules that search maps and tables.  The proofs use*)
(* nothing else about sequences and about Min and Max; quotients and       *)
(* remainders.                                                             *)
(***************************************************************************)
EXTENDS Lists, FiniteSetsExt, FiniteSetTheorems, TLAPS

(* The elements of a list are of its type; an element has a position.      *)
LEMMA ElemsType ==
    ASSUME NEW S, NEW seq \in Seq(S)
    PROVE  /\ Elems(seq) \subseteq S
           /\ \A x : x \in Elems(seq) <=> \E i \in 1 .. Len(seq) : seq[i] = x
  BY DEF Elems

(* The empty list has no elements, and only it. *)
LEMMA EmptyElems ==
    /\ Elems(<<>>) = {} /\ NoDuplicates(<<>>)
    /\ \A S : \A seq \in Seq(S) : Elems(seq) = {} <=> seq = <<>>
<1>1. Elems(<<>>) = {} /\ NoDuplicates(<<>>)
  BY DEF Elems, NoDuplicates
<1>2. ASSUME NEW S, NEW seq \in Seq(S), seq # <<>>
      PROVE  Elems(seq) # {}
  <2>1. 1 \in DOMAIN seq
    BY <1>2
  <2> QED BY <2>1 DEF Elems
<1> QED BY <1>1, <1>2

(* Appending to a list adds one element, and keeps the list free of        *)
(* duplicates if the element is new: ReadyToRun, and Append in P.          *)
LEMMA AppendElems ==
    ASSUME NEW S, NEW seq \in Seq(S), NEW x \in S
    PROVE  /\ Append(seq, x) \in Seq(S)
           /\ Elems(Append(seq, x)) = Elems(seq) \union {x}
           /\ NoDuplicates(seq) /\ x \notin Elems(seq) => NoDuplicates(Append(seq, x))
<1> DEFINE new == Append(seq, x)
<1>1. /\ new \in Seq(S) /\ Len(new) = Len(seq) + 1
      /\ \A i \in 1 .. Len(seq) : new[i] = seq[i]
      /\ new[Len(seq) + 1] = x /\ Len(seq) \in Nat
      /\ DOMAIN new = 1 .. Len(seq) + 1 /\ DOMAIN seq = 1 .. Len(seq)
  OBVIOUS
<1> HIDE DEF new
<1>2. Elems(new) = Elems(seq) \union {x}
  <2>1. ASSUME NEW y \in Elems(new) PROVE y \in Elems(seq) \union {x}
    <3>1. PICK i \in 1 .. Len(seq) + 1 : new[i] = y
      BY <1>1, <2>1 DEF Elems
    <3>2. i \in 1 .. Len(seq) \/ i = Len(seq) + 1
      BY <1>1
    <3> QED BY <1>1, <3>1, <3>2 DEF Elems
  <2>2. ASSUME NEW y \in Elems(seq) PROVE y \in Elems(new)
    <3>1. PICK i \in 1 .. Len(seq) : seq[i] = y
      BY <1>1 DEF Elems
    <3>2. i \in 1 .. Len(seq) + 1 /\ new[i] = y
      BY <1>1, <3>1
    <3> QED BY <1>1, <3>2 DEF Elems
  <2>3. x \in Elems(new)
    <3>1. Len(seq) + 1 \in 1 .. Len(seq) + 1
      BY <1>1
    <3> QED BY <1>1, <3>1 DEF Elems
  <2> QED BY <2>1, <2>2, <2>3
<1>3. ASSUME NoDuplicates(seq), x \notin Elems(seq) PROVE NoDuplicates(new)
  <2>1. SUFFICES ASSUME NEW i \in 1 .. Len(seq) + 1, NEW j \in 1 .. Len(seq) + 1,
                        new[i] = new[j]
                 PROVE  i = j
    BY <1>1 DEF NoDuplicates
  <2>2. \A k \in 1 .. Len(seq) : new[k] # x
    BY <1>1, <1>3 DEF Elems
  <2>3. \A k \in 1 .. Len(seq) + 1 : k \in 1 .. Len(seq) \/ k = Len(seq) + 1
    BY <1>1
  <2> QED BY <1>1, <1>3, <2>1, <2>2, <2>3 DEF NoDuplicates
<1> QED BY <1>1, <1>2, <1>3 DEF new

(* Removing the head of a nonempty list takes out that element, and no     *)
(* other if the list has no duplicates: FindNextToRun, and Remove in V.    *)
LEMMA TailElems ==
    ASSUME NEW S, NEW seq \in Seq(S), seq # <<>>
    PROVE  /\ Head(seq) \in S /\ Head(seq) \in Elems(seq)
           /\ Tail(seq) \in Seq(S)
           /\ Elems(seq) = Elems(Tail(seq)) \union {Head(seq)}
           /\ NoDuplicates(seq) =>
                 NoDuplicates(Tail(seq)) /\ Head(seq) \notin Elems(Tail(seq))
<1> DEFINE rest == Tail(seq)
<1>1. /\ rest \in Seq(S) /\ Len(rest) = Len(seq) - 1
      /\ Len(seq) \in Nat \ {0}
      /\ \A i \in 1 .. Len(seq) - 1 : rest[i] = seq[i + 1]
      /\ Head(seq) = seq[1] /\ Head(seq) \in S
      /\ DOMAIN rest = 1 .. Len(seq) - 1 /\ DOMAIN seq = 1 .. Len(seq)
  OBVIOUS
<1> HIDE DEF rest
<1>2. Head(seq) \in Elems(seq)
  <2>1. 1 \in 1 .. Len(seq)
    BY <1>1
  <2> QED BY <1>1, <2>1 DEF Elems
<1>3. Elems(seq) = Elems(rest) \union {Head(seq)}
  <2>1. ASSUME NEW y \in Elems(rest) PROVE y \in Elems(seq)
    <3>1. PICK i \in 1 .. Len(seq) - 1 : rest[i] = y
      BY <1>1, <2>1 DEF Elems
    <3>2. i + 1 \in 1 .. Len(seq) /\ seq[i + 1] = y
      BY <1>1, <3>1
    <3> QED BY <1>1, <3>2 DEF Elems
  <2>2. ASSUME NEW y \in Elems(seq) PROVE y \in Elems(rest) \union {Head(seq)}
    <3>1. PICK i \in 1 .. Len(seq) : seq[i] = y
      BY <1>1 DEF Elems
    <3>2. i = 1 \/ (i - 1 \in 1 .. Len(seq) - 1 /\ rest[i - 1] = y)
      BY <1>1, <3>1
    <3> QED BY <1>1, <3>1, <3>2 DEF Elems
  <2> QED BY <1>2, <2>1, <2>2
<1>4. ASSUME NoDuplicates(seq) PROVE NoDuplicates(rest)
  <2>1. SUFFICES ASSUME NEW i \in 1 .. Len(seq) - 1, NEW j \in 1 .. Len(seq) - 1,
                        rest[i] = rest[j]
                 PROVE  i = j
    BY <1>1 DEF NoDuplicates
  <2>2. /\ i + 1 \in 1 .. Len(seq) /\ j + 1 \in 1 .. Len(seq)
        /\ seq[i + 1] = seq[j + 1]
    BY <1>1, <2>1
  <2>3. i + 1 = j + 1
    BY <1>1, <1>4, <2>2 DEF NoDuplicates
  <2> QED BY <2>3
<1>5. ASSUME NoDuplicates(seq) PROVE Head(seq) \notin Elems(rest)
  <2>1. SUFFICES ASSUME NEW i \in 1 .. Len(seq) - 1, rest[i] = Head(seq)
                 PROVE  FALSE
    BY <1>1 DEF Elems
  <2>2. /\ i + 1 \in 1 .. Len(seq) /\ 1 \in 1 .. Len(seq)
        /\ seq[i + 1] = seq[1]
    BY <1>1, <2>1
  <2>3. i + 1 = 1
    BY <1>1, <1>5, <2>2 DEF NoDuplicates
  <2> QED BY <2>3
<1> QED BY <1>1, <1>2, <1>3, <1>4, <1>5 DEF rest

(* Concatenating two lists unites their elements: the loop of Destroy.     *)
LEMMA ConcatElems ==
    ASSUME NEW S, NEW seq \in Seq(S), NEW other \in Seq(S)
    PROVE  /\ seq \o other \in Seq(S)
           /\ Elems(seq \o other) = Elems(seq) \union Elems(other)
           /\ /\ NoDuplicates(seq) /\ NoDuplicates(other)
              /\ Elems(seq) \intersect Elems(other) = {}
              => NoDuplicates(seq \o other)
<1> DEFINE both == seq \o other
           m == Len(seq)
           n == Len(other)
<1>1. /\ both \in Seq(S) /\ m \in Nat /\ n \in Nat
      /\ \A i \in 1 .. m : both[i] = seq[i]
      /\ \A i \in 1 .. n : both[m + i] = other[i]
      /\ DOMAIN both = 1 .. m + n /\ DOMAIN seq = 1 .. m /\ DOMAIN other = 1 .. n
  OBVIOUS
<1> HIDE DEF both, m, n
<1>2. \A i \in 1 .. m + n :
         \/ i \in 1 .. m /\ both[i] = seq[i]
         \/ i - m \in 1 .. n /\ both[i] = other[i - m]
  <2> TAKE i \in 1 .. m + n
  <2>1. i \in 1 .. m \/ (i - m \in 1 .. n /\ m + (i - m) = i)
    BY <1>1
  <2> QED BY <1>1, <2>1
<1>3. Elems(both) = Elems(seq) \union Elems(other)
  <2>1. ASSUME NEW y \in Elems(both) PROVE y \in Elems(seq) \union Elems(other)
    BY <1>1, <1>2, <2>1 DEF Elems
  <2>2. ASSUME NEW y \in Elems(seq) PROVE y \in Elems(both)
    <3>1. PICK i \in 1 .. m : seq[i] = y
      BY <1>1 DEF Elems
    <3>2. i \in 1 .. m + n /\ both[i] = y
      BY <1>1, <3>1
    <3> QED BY <1>1, <3>2 DEF Elems
  <2>3. ASSUME NEW y \in Elems(other) PROVE y \in Elems(both)
    <3>1. PICK i \in 1 .. n : other[i] = y
      BY <1>1 DEF Elems
    <3>2. m + i \in 1 .. m + n /\ both[m + i] = y
      BY <1>1, <3>1
    <3> QED BY <1>1, <3>2 DEF Elems
  <2> QED BY <2>1, <2>2, <2>3
<1>4. ASSUME NoDuplicates(seq), NoDuplicates(other),
             Elems(seq) \intersect Elems(other) = {}
      PROVE  NoDuplicates(both)
  <2>1. SUFFICES ASSUME NEW i \in 1 .. m + n, NEW j \in 1 .. m + n,
                        both[i] = both[j]
                 PROVE  i = j
    BY <1>1 DEF NoDuplicates
  <2>2. CASE i \in 1 .. m /\ j \in 1 .. m
    BY <1>1, <1>4, <2>1, <2>2 DEF NoDuplicates
  <2>3. CASE i - m \in 1 .. n /\ j - m \in 1 .. n
    <3>1. other[i - m] = other[j - m]
      BY <1>1, <1>2, <2>1, <2>3
    <3>2. i - m = j - m
      BY <1>1, <1>4, <2>3, <3>1 DEF NoDuplicates
    <3> QED BY <1>1, <3>2
  <2>4. \A k \in 1 .. m : seq[k] \in Elems(seq)
    BY <1>1 DEF Elems
  <2>5. \A k \in 1 .. n : other[k] \in Elems(other)
    BY <1>1 DEF Elems
  <2>6. CASE i \in 1 .. m /\ j - m \in 1 .. n
    BY <1>1, <1>2, <1>4, <2>1, <2>4, <2>5, <2>6
  <2>7. CASE i - m \in 1 .. n /\ j \in 1 .. m
    BY <1>1, <1>2, <1>4, <2>1, <2>4, <2>5, <2>7
  <2> QED BY <1>2, <2>2, <2>3, <2>6, <2>7
<1> QED BY <1>1, <1>3, <1>4 DEF both

-----------------------------------------------------------------------------
(* A set of natural numbers that is not empty has a least element. *)
LEMMA LeastNumber ==
    ASSUME NEW S, S \subseteq Nat, S # {}
    PROVE  \E m \in S : \A n \in S : m <= n
<1>1. \E m \in S : \A n \in S : ~(<<n, m>> \in OpToRel(<, Nat))
  BY NatLessThanWellFounded, WFMin
<1>2. \A m, n \in S : <<n, m>> \in OpToRel(<, Nat) <=> n < m
  BY DEF OpToRel
<1>3. PICK m \in S : \A n \in S : ~(n < m)
  BY <1>1, <1>2
<1>4. \A n \in S : m <= n
  BY <1>3
<1> QED BY <1>4

(* Min is that element. *)
LEMMA MinNat ==
    ASSUME NEW S, S \subseteq Nat, S # {}
    PROVE  Min(S) \in S /\ \A n \in S : Min(S) <= n
  BY LeastNumber DEF Min

(* A finite set of numbers has a greatest element: the least of its bounds *)
(* is in it.                                                               *)
LEMMA MaxNat ==
    ASSUME NEW S, S \subseteq Nat, S # {}, IsFiniteSet(S)
    PROVE  Max(S) \in S /\ \A n \in S : Max(S) >= n
<1> DEFINE B == {b \in Nat : \A n \in S : n <= b}
<1>1. B # {}
  <2> DEFINE C == {c \in Nat : \E T \in SUBSET S : Cardinality(T) = c /\ \A b \in Nat : \E n \in T : n > b}
  <2>1. SUFFICES C = {}
    <3>1. Cardinality(S) \in Nat BY FS_CardinalityType
    <3>2. ~\A b \in Nat : \E n \in S : n > b BY <2>1, <3>1
    <3> QED BY <3>2
  <2>2. SUFFICES ASSUME C # {} PROVE FALSE OBVIOUS
  <2>3. PICK c \in C : \A d \in C : c <= d
     BY <2>2, LeastNumber
  <2>4. PICK T \in SUBSET S : Cardinality(T) = c /\ \A b \in Nat : \E n \in T : n > b
     BY <2>3
  <2>5. PICK x \in T : TRUE
     BY <2>4
  <2>6. IsFiniteSet(T) BY FS_Subset
  <2>7. Cardinality(T \ {x}) = c - 1 /\ c - 1 \in Nat
     <3>1. /\ Cardinality(T \ {x}) = Cardinality(T) - 1
           /\ IsFiniteSet(T \ {x})
       BY <2>6, <2>5, FS_RemoveElement
     <3>2. Cardinality(T \ {x}) \in Nat
       BY <3>1, FS_CardinalityType
     <3> QED BY <3>1, <3>2, <2>4
  <2>8. T \ {x} \in SUBSET S OBVIOUS
  <2>9. c - 1 \notin C BY <2>3, <2>7
  <2>10. PICK b \in Nat : \A n \in T \ {x} : ~(n > b)
     BY <2>7, <2>8, <2>9
  <2>11. x \in Nat BY <2>5
  <2>12. PICK b2 \in Nat : b2 >= b /\ b2 >= x BY <2>11
  <2>13. \A n \in T : ~(n > b2) BY <2>10, <2>11, <2>12
  <2> QED BY <2>4, <2>13
<1>2. PICK b \in B : \A d \in B : b <= d
  BY <1>1, LeastNumber
<1>3. b \in S
  <2>1. SUFFICES ASSUME b \notin S PROVE FALSE OBVIOUS
  <2>2. b > 0
    <3>1. PICK n \in S : TRUE
      OBVIOUS
    <3>2. n \in Nat /\ n <= b /\ n # b /\ b \in Nat
      BY <1>2, <2>1
    <3> QED BY <3>2
  <2>3. \A n \in S : n <= b - 1 BY <1>2, <2>1
  <2> QED BY <1>2, <2>2, <2>3
<1>4. \A n \in S : b >= n BY <1>2
<1> QED BY <1>3, <1>4 DEF Max

(* A finite set has a k-th smallest element, which is how BitMap::Find is  *)
(* modelled when it is called several times in a row.                      *)
LEMMA KthSmallest ==
    ASSUME NEW S, S \subseteq Nat, IsFiniteSet(S), NEW k \in Nat, k < Cardinality(S)
    PROVE  \E b \in S : Cardinality({c \in S : c < b}) = k
<1> DEFINE Below(b) == {c \in S : c < b}
           Bad == {j \in Nat : j < Cardinality(S) /\ \A b \in S : Cardinality(Below(b)) # j}
<1>1. SUFFICES ASSUME Bad # {} PROVE FALSE
  OBVIOUS
<1>2. PICK j \in Bad : \A i \in Bad : j <= i
  BY <1>1, LeastNumber
<1>3. Cardinality(S) \in Nat
  BY FS_CardinalityType
<1>4. CASE j = 0
  <2>1. S # {}
    BY <1>2, <1>4, FS_EmptySet
  <2>3. PICK m \in S : \A n \in S : m <= n
    BY <2>1, LeastNumber
  <2>4. \A n \in S : ~(n < m)
    BY <2>3
  <2>2. Below(m) = {}
    BY <2>4
  <2> QED BY <1>2, <1>4, <2>2, FS_EmptySet
<1>5. CASE j # 0
  <2>1. j - 1 \in Nat /\ j - 1 < Cardinality(S) /\ j - 1 \notin Bad
    BY <1>2, <1>3, <1>5
  <2>2. PICK b \in S : Cardinality(Below(b)) = j - 1
    BY <2>1
  <2> DEFINE low == Below(b) \union {b}
  <2>3. IsFiniteSet(Below(b)) /\ b \notin Below(b)
    BY FS_Subset
  <2>4. IsFiniteSet(low) /\ Cardinality(low) = j
    <3>1. IsFiniteSet(low) /\ Cardinality(low) = Cardinality(Below(b)) + 1
      BY <2>3, FS_AddElement
    <3> QED BY <2>2, <3>1
  <2>5. S \ low # {}
    <3>1. low \subseteq S
      OBVIOUS
    <3>2. S # low
      BY <1>2, <2>4
    <3> QED BY <3>1, <3>2
  <2>6. PICK m \in S \ low : \A n \in S \ low : m <= n
    BY <2>5, LeastNumber
  <2>7. m > b
    BY <2>6
  <2>8. \A c \in S : c < m <=> c \in low
    BY <2>6, <2>7
  <2>9. Below(m) = low
    BY <2>8
  <2> QED BY <1>2, <2>4, <2>6, <2>9
<1> QED BY <1>4, <1>5

-----------------------------------------------------------------------------
(* Quotients and remainders of natural numbers *)
LEMMA Divided ==
    ASSUME NEW a \in Nat, NEW b \in Nat \ {0}
    PROVE  a % b \in 0 .. b - 1 /\ a \div b \in Nat
  OBVIOUS

(* A number is the quotient times the divisor and the remainder. *)
LEMMA Division ==
    ASSUME NEW a \in Nat, NEW b \in Nat \ {0}
    PROVE  a = (b * (a \div b)) + (a % b)
  OBVIOUS

(* Products grow with their factors. *)
LEMMA Product ==
    ASSUME NEW b \in Nat, NEW p \in Nat, NEW q \in Nat
    PROVE  /\ b * p \in Nat
           /\ b * (p + q) = (b * p) + (b * q)
           /\ p <= q => b * p <= b * q
           /\ b * (p + 1) = (b * p) + b
<1>1. b * p \in Nat
  OBVIOUS
<1>2. b * (p + q) = (b * p) + (b * q)
  OBVIOUS
<1>3. b * (p + 1) = (b * p) + b
  OBVIOUS
<1>4. p <= q => b * p <= b * q
  <2> SUFFICES ASSUME p <= q PROVE b * p <= b * q
    OBVIOUS
  <2>1. PICK d \in Nat : q = p + d
    <3>1. q - p \in Nat /\ q = p + (q - p)
      OBVIOUS
    <3> QED BY <3>1
  <2>2. b * q = (b * p) + (b * d) /\ b * d \in Nat
    BY <2>1
  <2> QED BY <1>1, <2>2
<1> QED BY <1>1, <1>2, <1>3, <1>4

(* There is only one quotient and remainder. *)
LEMMA Quotient ==
    ASSUME NEW a \in Nat, NEW b \in Nat \ {0}, NEW q \in Nat, NEW r \in 0 .. b - 1, a = (b * q) + r
    PROVE  a \div b = q /\ a % b = r
<1> DEFINE p == a \div b
           t == a % b
<1>1. t \in 0 .. b - 1 /\ p \in Nat /\ a = (b * p) + t
  BY Divided, Division
<1> HIDE DEF p, t
<1>2. \A x, y \in Nat : x < y => (b * x) + b <= b * y
  <2> SUFFICES ASSUME NEW x \in Nat, NEW y \in Nat, x < y PROVE (b * x) + b <= b * y
    OBVIOUS
  <2>1. b * (x + 1) <= b * y
    BY Product
  <2>2. b * (x + 1) = (b * x) + b
    BY Product
  <2> QED BY <2>1, <2>2
<1>3. ~(p < q) /\ ~(q < p)
  <2>1. b * p \in Nat /\ b * q \in Nat
    BY <1>1, Product
  <2>2. p < q => (b * p) + b <= b * q
    BY <1>1, <1>2
  <2>3. q < p => (b * q) + b <= b * p
    BY <1>1, <1>2
  <2> QED BY <1>1, <2>1, <2>2, <2>3
<1>4. p = q
  BY <1>1, <1>3
<1>5. t = r
  <2>1. b * q \in Nat
    BY Product
  <2> QED BY <1>1, <1>4, <2>1
<1> QED BY <1>4, <1>5 DEF p, t
=============================================================================
