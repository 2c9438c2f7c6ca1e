------------------------ MODULE CommandMatch_proofs ------------------------
(***************************************************************************)
(* Proofs about CommandMatch, for every set of commands and patterns and   *)
(* every answer of realpath.  The flags of a command are numbered by the   *)
(* sort; two commands whose flags correspond one to one are normalized     *)
(* alike, because a sorted sequence is determined by what is in it; and    *)
(* each other spelling of a command has such a correspondence.             *)
(***************************************************************************)
EXTENDS CommandMatch, SequenceTheorems, FiniteSetTheorems, WellFoundedInduction, TLAPS

(* A function on 1..n is a sequence.                                       *)
LEMMA FunctionIsSeq ==
  ASSUME NEW n \in Nat, NEW S, NEW f \in [1..n -> S]
  PROVE  f \in Seq(S) /\ Len(f) = n
<1>1. f = [i \in 1..n |-> f[i]] /\ \A i \in 1..n : f[i] \in S
  OBVIOUS
<1>2. QED
  BY <1>1

(* A sequence of two elements.                                             *)
LEMMA TwoJoined ==
  ASSUME NEW S, NEW x \in S, NEW y \in S, NEW s, s = <<x>> \o <<y>>
  PROVE  s \in Seq(S) /\ Len(s) = 2 /\ s[1] = x /\ s[2] = y /\ s # <<>>
<1> DEFINE a == <<x>>  b == <<y>>
<1>1. /\ a \in Seq(S) /\ Len(a) = 1 /\ a[1] = x
      /\ b \in Seq(S) /\ Len(b) = 1 /\ b[1] = y /\ s = a \o b
  OBVIOUS
<1> HIDE DEF a, b
<1>2. s \in Seq(S) /\ Len(s) = Len(a) + Len(b)
      /\ \A m \in 1..(Len(a) + Len(b)) :
            s[m] = IF m <= Len(a) THEN a[m] ELSE b[m - Len(a)]
  BY <1>1, ConcatProperties
<1>3. s \in Seq(S) /\ Len(s) = 2
  BY <1>1, <1>2
<1>4. s[1] = x
  BY <1>1, <1>2
<1>5. s[2] = y
  <2>1. s[2] = b[2 - 1]
    BY <1>1, <1>2
  <2>2. QED
    BY <1>1, <2>1
<1>6. QED
  BY <1>3, <1>4, <1>5

(* A set of natural numbers has a least element.                           *)
LEMMA LeastPlace ==
  ASSUME NEW T, T \subseteq Nat, T # {}
  PROVE  \E x \in T : \A y \in T : x <= y
<1> DEFINE R == {ss \in Nat \X Nat : ss[1] < ss[2]}
<1>1. IsWellFoundedOn(R, Nat)
  BY NatLessThanWellFounded, Zenon DEF OpToRel
<1>2. \A x, y \in Nat : x < y => <<x, y>> \in R
  OBVIOUS
<1> HIDE DEF R
<1>3. PICK x \in T : \A y \in T : ~(<<y, x>> \in R)
  BY <1>1, WFMin
<1>4. ASSUME NEW y \in T PROVE x <= y
  <2>1. ~(y < x)
    BY <1>2, <1>3
  <2>2. QED
    BY <2>1
<1>5. QED
  BY <1>4

(* A word as a sequence of numbers.                                        *)
LEMMA WordParts ==
  ASSUME NEW v \in Word
  PROVE  /\ v \in Seq(Nat) /\ v # <<>> /\ Len(v) \in Nat \ {0}
         /\ \A k \in 1..Len(v) : v[k] \in Nat
<1>1. v \in Seq(Char) /\ v # <<>> /\ Char \subseteq Nat
  BY DEF Word, Char
<1>2. v \in Seq(Nat)
  BY <1>1, SeqMonotonic
<1>3. QED
  BY <1>1, <1>2

(* operator< on strings is a strict total order on words: nothing is less  *)
(* than itself,                                                            *)
LEMMA LessIrreflexive ==
  ASSUME NEW v \in Word
  PROVE  ~Less(v, v)
  BY WordParts DEF Less

(* of two words one is less (at the first character in which they differ,  *)
(* or by length),                                                          *)
LEMMA LessTotal ==
  ASSUME NEW v \in Word, NEW w \in Word, v # w
  PROVE  Less(v, w) \/ Less(w, v)
<1> DEFINE D == {k \in 1..Len(v) : k <= Len(w) /\ v[k] # w[k]}
<1>1. /\ v \in Seq(Nat) /\ w \in Seq(Nat) /\ Len(v) \in Nat /\ Len(w) \in Nat
      /\ \A k \in 1..Len(v) : v[k] \in Nat
      /\ \A k \in 1..Len(w) : w[k] \in Nat
  BY WordParts
<1>2. CASE D = {}
  <2>1. \A k \in 1..Len(v) : k <= Len(w) => v[k] = w[k]
    BY <1>2
  <2>2. Len(v) # Len(w)
    <3>1. SUFFICES ASSUME Len(v) = Len(w) PROVE FALSE
      OBVIOUS
    <3>2. \A k \in 1..Len(v) : v[k] = w[k]
      BY <1>1, <2>1, <3>1
    <3>3. v = w
      BY <1>1, <3>1, <3>2, SeqEqual
    <3>4. QED
      BY <3>3
  <2>3. CASE Len(v) < Len(w)
    BY <1>1, <2>1, <2>3 DEF Less
  <2>4. CASE Len(w) < Len(v)
    BY <1>1, <2>1, <2>4 DEF Less
  <2>5. QED
    BY <1>1, <2>2, <2>3, <2>4
<1>3. CASE D # {}
  <2> HIDE DEF D
  <2>0. D \subseteq Nat
    BY DEF D
  <2>1. PICK k \in D : \A j \in D : k <= j
    BY <1>3, <2>0, LeastPlace
  <2> USE DEF D
  <2>2. ASSUME NEW j \in 1..(k - 1) PROVE v[j] = w[j]
    <3>1. j \notin D /\ j \in 1..Len(v) /\ j <= Len(w)
      BY <1>1, <2>1
    <3>2. QED
      BY <3>1
  <2>3. v[k] < w[k] \/ w[k] < v[k]
    BY <1>1
  <2>4. QED
    BY <1>1, <2>2, <2>3 DEF Less
<1>4. QED
  BY <1>2, <1>3

(* and what is less than the less is less.                                 *)
LEMMA LessTransitive ==
  ASSUME NEW u \in Word, NEW v \in Word, NEW w \in Word, Less(u, v), Less(v, w)
  PROVE  Less(u, w)
<1>1. /\ Len(u) \in Nat /\ Len(v) \in Nat /\ Len(w) \in Nat
      /\ \A k \in 1..Len(u) : u[k] \in Nat
      /\ \A k \in 1..Len(v) : v[k] \in Nat
      /\ \A k \in 1..Len(w) : w[k] \in Nat
  BY WordParts
<1>2. CASE Len(u) < Len(v) /\ \A k \in 1..Len(u) : u[k] = v[k]
  <2>1. CASE Len(v) < Len(w) /\ \A k \in 1..Len(v) : v[k] = w[k]
    BY <1>1, <1>2, <2>1 DEF Less
  <2>2. CASE \E k \in 1..Len(v) : /\ k <= Len(w) /\ v[k] < w[k]
                                  /\ \A j \in 1..(k - 1) : v[j] = w[j]
    <3>1. PICK k \in 1..Len(v) : /\ k <= Len(w) /\ v[k] < w[k]
                                 /\ \A j \in 1..(k - 1) : v[j] = w[j]
      BY <2>2
    <3>2. CASE k <= Len(u)
      BY <1>1, <1>2, <3>1, <3>2 DEF Less
    <3>3. CASE ~(k <= Len(u))
      BY <1>1, <1>2, <3>1, <3>3 DEF Less
    <3>4. QED
      BY <3>2, <3>3
  <2>3. QED
    BY <2>1, <2>2 DEF Less
<1>3. CASE \E k \in 1..Len(u) : /\ k <= Len(v) /\ u[k] < v[k]
                                /\ \A j \in 1..(k - 1) : u[j] = v[j]
  <2>1. PICK k \in 1..Len(u) : /\ k <= Len(v) /\ u[k] < v[k]
                               /\ \A j \in 1..(k - 1) : u[j] = v[j]
    BY <1>3
  <2>2. CASE Len(v) < Len(w) /\ \A j \in 1..Len(v) : v[j] = w[j]
    <3>1. k <= Len(w) /\ u[k] < w[k] /\ \A j \in 1..(k - 1) : u[j] = w[j]
      BY <1>1, <2>1, <2>2
    <3>2. QED
      BY <3>1 DEF Less
  <2>3. CASE \E l \in 1..Len(v) : /\ l <= Len(w) /\ v[l] < w[l]
                                  /\ \A j \in 1..(l - 1) : v[j] = w[j]
    <3>1. PICK l \in 1..Len(v) : /\ l <= Len(w) /\ v[l] < w[l]
                                 /\ \A j \in 1..(l - 1) : v[j] = w[j]
      BY <2>3
    <3>2. CASE l < k
      <4>1. /\ l \in 1..Len(u) /\ l <= Len(w) /\ u[l] < w[l]
            /\ \A j \in 1..(l - 1) : u[j] = w[j]
        BY <1>1, <2>1, <3>1, <3>2
      <4>2. QED
        BY <4>1 DEF Less
    <3>3. CASE ~(l < k)
      <4>1. k <= Len(w) /\ v[k] <= w[k]
        BY <1>1, <2>1, <3>1, <3>3
      <4>2. u[k] < w[k] /\ \A j \in 1..(k - 1) : u[j] = w[j]
        BY <1>1, <2>1, <3>1, <3>3, <4>1
      <4>3. QED
        BY <4>1, <4>2 DEF Less
    <3>4. QED
      BY <3>2, <3>3
  <2>4. QED
    BY <2>2, <2>3 DEF Less
<1>4. QED
  BY <1>2, <1>3 DEF Less
-----------------------------------------------------------------------------
(* In a finite set with a total order, the number of elements up to an     *)
(* element numbers the elements from 1, in order.                          *)
LEMMA RankBijection ==
  ASSUME NEW S, IsFiniteSet(S), NEW R, NEW rank,
         \A x \in S : <<x, x>> \in R,
         \A x, y \in S : <<x, y>> \in R \/ <<y, x>> \in R,
         \A x, y \in S : <<x, y>> \in R /\ <<y, x>> \in R => x = y,
         \A x, y, z \in S : <<x, y>> \in R /\ <<y, z>> \in R => <<x, z>> \in R,
         rank = [x \in S |-> Cardinality({y \in S : <<y, x>> \in R})]
  PROVE  /\ rank \in Bijection(S, 1..Cardinality(S))
         /\ \A x, y \in S : <<x, y>> \in R => rank[x] <= rank[y]
<1> DEFINE Down(x) == {y \in S : <<y, x>> \in R}
<1>1. Cardinality(S) \in Nat
  BY FS_CardinalityType
<1>2. ASSUME NEW x \in S
      PROVE  /\ IsFiniteSet(Down(x)) /\ Cardinality(Down(x)) \in 1..Cardinality(S)
             /\ rank[x] = Cardinality(Down(x))
  <2>1. Down(x) \in SUBSET S /\ Down(x) # {}
    OBVIOUS
  <2>2. IsFiniteSet(Down(x)) /\ Cardinality(Down(x)) <= Cardinality(S)
    BY <2>1, FS_Subset
  <2>3. Cardinality(Down(x)) \in Nat /\ Cardinality(Down(x)) # 0
    BY <2>1, <2>2, FS_EmptySet, FS_CardinalityType
  <2>4. QED
    BY <1>1, <2>2, <2>3
<1>3. ASSUME NEW x \in S, NEW y \in S, <<x, y>> \in R
      PROVE  rank[x] <= rank[y] /\ (rank[x] = rank[y] => x = y)
  <2>1. Down(x) \in SUBSET Down(y)
    BY <1>3
  <2>2. /\ Cardinality(Down(x)) <= Cardinality(Down(y))
        /\ Cardinality(Down(x)) = Cardinality(Down(y)) => Down(x) = Down(y)
    BY <1>2, <2>1, FS_Subset
  <2>3. Down(x) = Down(y) => x = y
    BY <1>3
  <2>4. QED
    BY <1>2, <2>2, <2>3
<1>4. rank \in Injection(S, 1..Cardinality(S))
  <2>1. rank \in [S -> 1..Cardinality(S)]
    BY <1>2
  <2>2. \A x, y \in S : rank[x] = rank[y] => x = y
    BY <1>3
  <2>3. DOMAIN rank = S
    BY <2>1
  <2>4. QED
    BY <2>1, <2>2, <2>3 DEF Injection, IsInjective
<1>5. rank \in Surjection(S, 1..Cardinality(S))
  BY <1>1, <1>4, FS_Injection, FS_Interval
<1>6. QED
  BY <1>3, <1>4, <1>5 DEF Bijection

(* A sorted sequence is determined by how often each word is in it: of two *)
(* sorted sequences of the same words, neither has a lesser word at any    *)
(* place.  If s[i] were less than t[i], the i words of s up to place i     *)
(* would all be among the i - 1 words of t before it.                      *)
LEMMA SortUnique ==
  ASSUME NEW n \in Nat, NEW s \in [1..n -> Word], NEW t \in [1..n -> Word],
         \A i, j \in 1..n : i < j => ~Less(s[j], s[i]),
         \A i, j \in 1..n : i < j => ~Less(t[j], t[i]),
         NEW h \in Injection(1..n, 1..n), \A i \in 1..n : t[h[i]] = s[i],
         NEW i \in 1..n
  PROVE  ~Less(s[i], t[i])
<1> SUFFICES ASSUME Less(s[i], t[i]) PROVE FALSE
  OBVIOUS
<1>1. h \in [1..n -> 1..n] /\ \A j, k \in 1..n : h[j] = h[k] => j = k
  BY DEF Injection, IsInjective
<1>2. ASSUME NEW j \in 1..i PROVE h[j] \in 1..(i - 1)
  <2>1. j \in 1..n /\ h[j] \in 1..n
    BY <1>1
  <2>2. ~Less(s[i], s[j])
    BY <2>1, LessIrreflexive
  <2>3. SUFFICES ASSUME ~(h[j] < i) PROVE FALSE
    BY <2>1
  <2>4. ~Less(s[j], t[i])
    BY <2>1, <2>3, LessIrreflexive
  <2>5. s[j] = s[i] \/ Less(s[j], s[i])
    BY <2>1, <2>2, LessTotal
  <2>6. QED
    BY <2>1, <2>4, <2>5, LessTransitive
<1> DEFINE g == [j \in 1..i |-> h[j]]
<1> DEFINE A == 1..i  B == 1..(i - 1)
<1>3. g \in [A -> B] /\ \A j \in A : g[j] = h[j]
  BY <1>2
<1>4. IsFiniteSet(A) /\ IsFiniteSet(B) /\ Cardinality(B) < Cardinality(A)
  <2>1. /\ IsFiniteSet(A) /\ Cardinality(A) = i
        /\ IsFiniteSet(B) /\ Cardinality(B) = i - 1
    BY FS_Interval
  <2>2. QED
    BY <2>1
<1>5. A \subseteq 1..n
  OBVIOUS
<1> HIDE DEF g, A, B
<1>6. \E x, y \in A : x # y /\ g[x] = g[y]
  BY <1>3, <1>4, FS_PigeonHole
<1>7. PICK j \in A, k \in A : j # k /\ g[j] = g[k]
  BY <1>6
<1>8. QED
  BY <1>1, <1>3, <1>5, <1>7
-----------------------------------------------------------------------------
(* A word as a sequence of characters.                                     *)
LEMMA CharsOfWord ==
  ASSUME NEW w \in Word
  PROVE  /\ w \in Seq(Char) /\ w # <<>> /\ Len(w) \in Nat /\ Len(w) >= 1
         /\ \A m \in 1..Len(w) : w[m] \in Char
  BY DEF Word

(* A dash is a character of words.                                         *)
LEMMA DashIsChar == Dash \in Char
  BY DEF Dash, Char

(* normalizeCommand takes a group such as -rf apart,                       *)
LEMMA PiecesOfGroup ==
  ASSUME NEW w \in Word, w[1] = Dash, Len(w) > 2, w[2] # Dash
  PROVE  /\ Pieces(w) = [m \in 1..(Len(w) - 1) |-> <<Dash, w[m + 1]>>]
         /\ Len(Pieces(w)) = Len(w) - 1 /\ Pieces(w) \in Seq(Word)
<1>1. Pieces(w) = [m \in 1..(Len(w) - 1) |-> <<Dash, w[m + 1]>>]
  BY DEF Pieces
<1>2. ASSUME NEW m \in 1..(Len(w) - 1) PROVE <<Dash, w[m + 1]>> \in Word
  <2>1. m + 1 \in 1..Len(w)
    BY CharsOfWord
  <2>2. w[m + 1] \in Char
    BY <2>1, CharsOfWord
  <2>3. QED
    BY <2>2, DashIsChar DEF Word
<1>3. Len(w) - 1 \in Nat
  BY CharsOfWord
<1>4. QED
  BY <1>1, <1>2, <1>3

(* keeps -, -r and --force,                                                *)
LEMMA PiecesOfFlag ==
  ASSUME NEW w \in Word, w[1] = Dash, ~(Len(w) > 2 /\ w[2] # Dash)
  PROVE  Pieces(w) = <<w>>
  BY DEF Pieces

(* and gives words.                                                        *)
LEMMA PiecesType ==
  ASSUME NEW w \in Word
  PROVE  /\ Pieces(w) \in Seq(Word) /\ Len(Pieces(w)) \in Nat
         /\ DOMAIN Pieces(w) = 1..Len(Pieces(w))
         /\ \A j \in DOMAIN Pieces(w) : Pieces(w)[j] \in Word
<1>1. Pieces(w) \in Seq(Word)
  <2>1. CASE w[1] = Dash /\ Len(w) > 2 /\ w[2] # Dash
    BY <2>1, PiecesOfGroup
  <2>2. CASE w[1] = Dash /\ ~(Len(w) > 2 /\ w[2] # Dash)
    <3>1. Pieces(w) = <<w>>
      BY <2>2, PiecesOfFlag
    <3>2. QED
      BY <3>1
  <2>3. CASE w[1] # Dash
    <3>1. canonicalizePath(w) \in Word
      BY CommandAssumption DEF canonicalizePath
    <3>2. QED
      BY <2>3, <3>1 DEF Pieces
  <2>4. QED
    BY <2>1, <2>2, <2>3
<1>2. QED
  BY <1>1

(* The flags of a command: finitely many, each in a word after the first.  *)
LEMMA PushedFlags ==
  ASSUME NEW c \in Seq(Word)
  PROVE  /\ IsFiniteSet(Pushed(c))
         /\ \A k, j : <<k, j>> \in Pushed(c)
                <=> k \in 2..Len(c) /\ j \in 1..Len(Pieces(c[k]))
         /\ \A at \in Pushed(c) :
                /\ at[1] \in 2..Len(c) /\ at[2] \in 1..Len(Pieces(c[at[1]]))
                /\ at[1] \in Nat /\ at[2] \in Nat /\ at = <<at[1], at[2]>>
                /\ Piece(c, at) \in Word
                /\ \E a \in 2..Len(c) : \E b \in 1..Len(Pieces(c[a])) : at = <<a, b>>
<1> DEFINE F == [k \in 2..Len(c) |-> {k} \X DOMAIN Pieces(c[k])]
           T == {{k} \X DOMAIN Pieces(c[k]) : k \in 2..Len(c)}
<1>1. ASSUME NEW k \in 2..Len(c)
      PROVE  /\ c[k] \in Word /\ DOMAIN Pieces(c[k]) = 1..Len(Pieces(c[k]))
             /\ Len(Pieces(c[k])) \in Nat
             /\ \A j \in 1..Len(Pieces(c[k])) : Pieces(c[k])[j] \in Word
  <2>1. c[k] \in Word
    OBVIOUS
  <2>2. QED
    BY <2>1, PiecesType
<1>2. IsFiniteSet(2..Len(c))
  BY FS_Interval
<1>3. F \in Surjection(2..Len(c), T)
  <2>1. F \in [2..Len(c) -> T] /\ \A t \in T : \E k \in 2..Len(c) : F[k] = t
    OBVIOUS
  <2>2. QED
    BY <2>1 DEF Surjection
<1>4. IsFiniteSet(T)
  BY <1>2, <1>3, FS_Surjection
<1>5. ASSUME NEW t \in T PROVE IsFiniteSet(t)
  <2>1. PICK k \in 2..Len(c) : t = {k} \X (1..Len(Pieces(c[k])))
    BY <1>1
  <2>2. IsFiniteSet({k}) /\ IsFiniteSet(1..Len(Pieces(c[k])))
    <3>1. IsFiniteSet({k})
      BY FS_Singleton
    <3>2. Len(Pieces(c[k])) \in Int /\ 1 \in Int
      BY <1>1
    <3>3. IsFiniteSet(1..Len(Pieces(c[k])))
      BY <3>2, FS_Interval
    <3>4. QED
      BY <3>1, <3>3
  <2>3. QED
    BY <2>1, <2>2, FS_Product
<1>6. IsFiniteSet(Pushed(c))
  BY <1>4, <1>5, FS_UNION DEF Pushed
<1>7. \A k, j : <<k, j>> \in Pushed(c)
          <=> k \in 2..Len(c) /\ j \in 1..Len(Pieces(c[k]))
  BY <1>1 DEF Pushed
<1>8. ASSUME NEW at \in Pushed(c)
      PROVE  /\ at[1] \in 2..Len(c) /\ at[2] \in 1..Len(Pieces(c[at[1]]))
             /\ at = <<at[1], at[2]>>
  <2>1. PICK k \in 2..Len(c) : at \in {k} \X DOMAIN Pieces(c[k])
    BY DEF Pushed
  <2>2. PICK j \in DOMAIN Pieces(c[k]) : at = <<k, j>>
    BY <2>1
  <2>3. QED
    BY <1>1, <2>2
<1>9. QED
  BY <1>1, <1>6, <1>7, <1>8 DEF Piece

(* Flags is what a sort of them returns: every flag once, none less than   *)
(* one before it.                                                          *)
THEOREM FlagsSorted ==
  ASSUME NEW c \in Seq(Word)
  PROVE  LET n == Cardinality(Pushed(c)) IN
         /\ n \in Nat /\ Flags(c) \in [1..n -> Word]
         /\ \A i, j \in 1..n : i < j => ~Less(Flags(c)[j], Flags(c)[i])
         /\ \E g \in Bijection(1..n, Pushed(c)) :
                \A i \in 1..n : Flags(c)[i] = Piece(c, g[i])
<1> DEFINE n == Cardinality(Pushed(c))
           R == {p \in Pushed(c) \X Pushed(c) : InOrder(c, p[1], p[2])}
           rank == [by \in Pushed(c) |-> Place(c, by)]
           g == [i \in 1..n |-> CHOOSE by \in Pushed(c) : Place(c, by) = i]
<1>1. IsFiniteSet(Pushed(c)) /\ n \in Nat
  BY PushedFlags, FS_CardinalityType
<1>2. \A x, y \in Pushed(c) : <<x, y>> \in R <=> InOrder(c, x, y)
  OBVIOUS
<1>3. \A x \in Pushed(c) : /\ Piece(c, x) \in Word /\ x[1] \in Nat /\ x[2] \in Nat
                            /\ x = <<x[1], x[2]>>
  BY PushedFlags
<1>4. /\ \A x \in Pushed(c) : Before(x, x)
      /\ \A x, y \in Pushed(c) : Before(x, y) \/ Before(y, x)
      /\ \A x, y \in Pushed(c) : Before(x, y) /\ Before(y, x) => x = y
      /\ \A x, y, z \in Pushed(c) : Before(x, y) /\ Before(y, z) => Before(x, z)
  BY <1>3 DEF Before
<1>5. /\ \A x \in Pushed(c) : InOrder(c, x, x)
      /\ \A x, y \in Pushed(c) : InOrder(c, x, y) \/ InOrder(c, y, x)
      /\ \A x, y \in Pushed(c) : InOrder(c, x, y) /\ InOrder(c, y, x) => x = y
      /\ \A x, y, z \in Pushed(c) :
            InOrder(c, x, y) /\ InOrder(c, y, z) => InOrder(c, x, z)
  BY <1>3, <1>4, LessIrreflexive, LessTotal, LessTransitive DEF InOrder
<1>6. rank = [x \in Pushed(c) |-> Cardinality({y \in Pushed(c) : <<y, x>> \in R})]
  BY DEF Place
<1> HIDE DEF R
<1>7. /\ rank \in Bijection(Pushed(c), 1..n)
      /\ \A x, y \in Pushed(c) : <<x, y>> \in R => rank[x] <= rank[y]
  <2> HIDE DEF rank
  <2>1. QED
    BY <1>1, <1>2, <1>5, <1>6, RankBijection
<1>8. /\ \A x \in Pushed(c) : Place(c, x) \in 1..n
      /\ \A x, y \in Pushed(c) : Place(c, x) = Place(c, y) => x = y
      /\ \A i \in 1..n : \E x \in Pushed(c) : Place(c, x) = i
  BY <1>7 DEF Bijection, Injection, Surjection, IsInjective
<1>9. \A i \in 1..n : g[i] \in Pushed(c) /\ Place(c, g[i]) = i
  BY <1>8
<1>10. \A x \in Pushed(c) : g[Place(c, x)] = x
  BY <1>8, <1>9
<1>11. Flags(c) = [i \in 1..n |-> Piece(c, g[i])]
  BY DEF Flags
<1> HIDE DEF g
<1>12. g \in Bijection(1..n, Pushed(c))
  <2>1. g \in [1..n -> Pushed(c)] /\ DOMAIN g = 1..n
    BY <1>9 DEF g
  <2>2. QED
    BY <1>8, <1>9, <1>10, <2>1 DEF Bijection, Injection, Surjection, IsInjective
<1>13. ASSUME NEW i \in 1..n, NEW j \in 1..n, i < j
       PROVE  ~Less(Flags(c)[j], Flags(c)[i])
  <2>1. SUFFICES ASSUME Less(Piece(c, g[j]), Piece(c, g[i])) PROVE FALSE
    BY <1>11
  <2>2. <<g[j], g[i]>> \in R
    BY <1>2, <1>9, <2>1 DEF InOrder
  <2>3. Place(c, g[j]) <= Place(c, g[i])
    BY <1>7, <1>9, <2>2
  <2>4. QED
    BY <1>9, <1>13, <2>3
<1>14. Flags(c) \in [1..n -> Word]
  BY <1>3, <1>9, <1>11
<1>15. QED
  BY <1>1, <1>11, <1>12, <1>13, <1>14

(* Commands with the same flags, in whatever words and places, have the    *)
(* same flags after the sort.                                              *)
LEMMA SamePieces ==
  ASSUME NEW c \in Seq(Word), NEW d \in Seq(Word),
         NEW f \in [Pushed(c) -> Pushed(d)], NEW e \in [Pushed(d) -> Pushed(c)],
         \A at \in Pushed(c) : e[f[at]] = at /\ Piece(d, f[at]) = Piece(c, at),
         \A at \in Pushed(d) : f[e[at]] = at
  PROVE  Flags(c) = Flags(d)
<1> DEFINE n == Cardinality(Pushed(c))
<1>1. f \in Bijection(Pushed(c), Pushed(d))
  BY DEF Bijection, Injection, Surjection, IsInjective
<1>2. Cardinality(Pushed(d)) = n
  BY <1>1, PushedFlags, FS_Bijection DEF ExistsBijection
<1>3. /\ n \in Nat /\ Flags(c) \in [1..n -> Word] /\ Flags(d) \in [1..n -> Word]
      /\ \A i, j \in 1..n : i < j => ~Less(Flags(c)[j], Flags(c)[i])
      /\ \A i, j \in 1..n : i < j => ~Less(Flags(d)[j], Flags(d)[i])
  BY <1>2, FlagsSorted
<1>4. PICK g \in Bijection(1..n, Pushed(c)) :
            \A i \in 1..n : Flags(c)[i] = Piece(c, g[i])
  BY FlagsSorted
<1>5. PICK l \in Bijection(1..n, Pushed(d)) :
            \A i \in 1..n : Flags(d)[i] = Piece(d, l[i])
  BY <1>2, FlagsSorted
<1> DEFINE h == [i \in 1..n |-> CHOOSE j \in 1..n : l[j] = f[g[i]]]
           k == [i \in 1..n |-> CHOOSE j \in 1..n : g[j] = e[l[i]]]
<1>6. /\ \A i \in 1..n : g[i] \in Pushed(c) /\ l[i] \in Pushed(d)
      /\ \A i, j \in 1..n : g[i] = g[j] => i = j
      /\ \A i, j \in 1..n : l[i] = l[j] => i = j
      /\ \A at \in Pushed(c) : \E i \in 1..n : g[i] = at
      /\ \A at \in Pushed(d) : \E i \in 1..n : l[i] = at
  BY DEF Bijection, Injection, Surjection, IsInjective
<1>7. \A i \in 1..n : /\ h[i] \in 1..n /\ l[h[i]] = f[g[i]]
                      /\ k[i] \in 1..n /\ g[k[i]] = e[l[i]]
  BY <1>6
<1>8. h \in [1..n -> 1..n] /\ k \in [1..n -> 1..n] /\ DOMAIN h = 1..n /\ DOMAIN k = 1..n
  BY <1>7
<1> HIDE DEF n, h, k
<1>9. h \in Injection(1..n, 1..n)
  <2>1. \A i, j \in 1..n : h[i] = h[j] => i = j
    BY <1>6, <1>7
  <2>2. QED
    BY <1>8, <2>1 DEF Injection, IsInjective
<1>10. k \in Injection(1..n, 1..n)
  <2>1. ASSUME NEW i \in 1..n, NEW j \in 1..n, k[i] = k[j] PROVE i = j
    <3>1. e[l[i]] = e[l[j]]
      BY <1>7, <2>1
    <3>2. f[e[l[i]]] = l[i] /\ f[e[l[j]]] = l[j]
      BY <1>6
    <3>3. QED
      BY <1>6, <3>1, <3>2
  <2>2. QED
    BY <1>8, <2>1 DEF Injection, IsInjective
<1>11. ASSUME NEW i \in 1..n PROVE Flags(d)[h[i]] = Flags(c)[i]
  <2>1. Piece(d, f[g[i]]) = Piece(c, g[i])
    BY <1>6
  <2>2. QED
    BY <1>4, <1>5, <1>7, <2>1
<1>12. ASSUME NEW i \in 1..n PROVE Flags(c)[k[i]] = Flags(d)[i]
  <2>1. f[e[l[i]]] = l[i] /\ e[l[i]] \in Pushed(c)
    BY <1>6
  <2>2. Piece(d, l[i]) = Piece(c, e[l[i]])
    BY <2>1
  <2>3. QED
    BY <1>4, <1>5, <1>7, <2>2
<1>13. ASSUME NEW i \in 1..n PROVE Flags(c)[i] = Flags(d)[i]
  <2>1. ~Less(Flags(c)[i], Flags(d)[i])
    BY <1>3, <1>9, <1>11, SortUnique
  <2>2. ~Less(Flags(d)[i], Flags(c)[i])
    BY <1>3, <1>10, <1>12, SortUnique
  <2>3. QED
    BY <1>3, <2>1, <2>2, LessTotal
<1>14. QED
  BY <1>3, <1>13
-----------------------------------------------------------------------------
(* Two words after the program swapped: the same flags.                    *)
LEMMA SwappedFlags ==
  ASSUME NEW c \in Seq(Word), NEW d \in Swapped(c)
  PROVE  d \in Seq(Word) /\ Len(d) = Len(c) /\ d[1] = c[1] /\ Flags(c) = Flags(d)
<1>1. PICK i \in 2..Len(c), j \in 2..Len(c) : d = [c EXCEPT ![i] = c[j], ![j] = c[i]]
  BY DEF Swapped
<1> DEFINE sw(k) == IF k = i THEN j ELSE IF k = j THEN i ELSE k
           f == [at \in Pushed(c) |-> <<sw(at[1]), at[2]>>]
           e == [at \in Pushed(d) |-> <<sw(at[1]), at[2]>>]
<1>2. /\ d \in Seq(Word) /\ Len(d) = Len(c) /\ d[1] = c[1]
      /\ \A k \in 2..Len(c) : d[k] = c[sw(k)]
  BY <1>1
<1>3. \A k \in 2..Len(c) : sw(k) \in 2..Len(c) /\ sw(sw(k)) = k
  OBVIOUS
<1>4. \A k \in 2..Len(c) : c[k] = d[sw(k)]
  BY <1>2, <1>3
<1> HIDE DEF sw
<1>5. ASSUME NEW at \in Pushed(c)
      PROVE  f[at] \in Pushed(d) /\ Piece(d, f[at]) = Piece(c, at) /\ e[f[at]] = at
  <2>1. /\ at[1] \in 2..Len(c) /\ at[2] \in 1..Len(Pieces(c[at[1]]))
        /\ at = <<at[1], at[2]>>
    BY PushedFlags
  <2>2. f[at] = <<sw(at[1]), at[2]>>
    OBVIOUS
  <2>3. f[at] \in Pushed(d)
    BY <1>2, <1>3, <1>4, <2>1, <2>2, PushedFlags
  <2>4. QED
    BY <1>3, <1>4, <2>1, <2>2, <2>3 DEF Piece
<1>6. ASSUME NEW at \in Pushed(d)
      PROVE  e[at] \in Pushed(c) /\ f[e[at]] = at
  <2>1. /\ at[1] \in 2..Len(c) /\ at[2] \in 1..Len(Pieces(d[at[1]]))
        /\ at = <<at[1], at[2]>>
    BY <1>2, PushedFlags
  <2>2. e[at] = <<sw(at[1]), at[2]>>
    OBVIOUS
  <2>3. e[at] \in Pushed(c)
    BY <1>2, <1>3, <1>4, <2>1, <2>2, PushedFlags
  <2>4. QED
    BY <1>3, <2>1, <2>2, <2>3
<1>7. f \in [Pushed(c) -> Pushed(d)] /\ e \in [Pushed(d) -> Pushed(c)]
  BY <1>5, <1>6
<1> HIDE DEF f, e
<1>8. Flags(c) = Flags(d)
  BY <1>2, <1>5, <1>6, <1>7, SamePieces
<1>9. QED
  BY <1>2, <1>8

(* What makes a word a group of flags.                                     *)
LEMMA GroupParts ==
  ASSUME NEW c \in Seq(Word), NEW k \in FlagGroups(c), NEW w, w = c[k]
  PROVE  /\ k \in 2..Len(c) /\ w \in Word /\ w[1] = Dash /\ Len(w) > 2
         /\ \A m \in 2..Len(w) : w[m] # Dash
  BY DEF FlagGroups


(* The flags of one word in reverse: the same flags.                       *)
LEMMA TurnedPieces ==
  ASSUME NEW c \in Seq(Word), NEW d \in Seq(Word), NEW k \in 2..Len(c), NEW N \in Nat,
         Len(d) = Len(c), \A m \in 2..Len(c) : m # k => d[m] = c[m],
         Len(Pieces(c[k])) = N, Len(Pieces(d[k])) = N,
         \A m \in 1..N : Pieces(d[k])[N + 1 - m] = Pieces(c[k])[m]
  PROVE  Flags(c) = Flags(d)
<1> DEFINE turn(a, b) == IF a = k THEN <<k, N + 1 - b>> ELSE <<a, b>>
           f == [at \in Pushed(c) |-> turn(at[1], at[2])]
           e == [at \in Pushed(d) |-> turn(at[1], at[2])]
<1>1. ASSUME NEW a \in 2..Len(c), NEW b \in 1..Len(Pieces(c[a]))
      PROVE  /\ turn(a, b) \in Pushed(d)
             /\ turn(turn(a, b)[1], turn(a, b)[2]) = <<a, b>>
             /\ Piece(d, turn(a, b)) = Pieces(c[a])[b]
  <2>1. CASE a = k
    <3>1. b \in 1..N /\ N + 1 - b \in 1..N /\ N + 1 - (N + 1 - b) = b
      BY <2>1
    <3>2. turn(a, b) = <<k, N + 1 - b>>
      BY <2>1
    <3>3. <<k, N + 1 - b>> \in Pushed(d)
      BY <3>1, PushedFlags
    <3>4. QED
      BY <2>1, <3>1, <3>2, <3>3 DEF Piece
  <2>2. CASE a # k
    <3>1. turn(a, b) = <<a, b>> /\ d[a] = c[a]
      BY <2>2
    <3>2. <<a, b>> \in Pushed(d)
      BY <3>1, PushedFlags
    <3>3. QED
      BY <2>2, <3>1, <3>2 DEF Piece
  <2>3. QED
    BY <2>1, <2>2
<1>2. ASSUME NEW a \in 2..Len(c), NEW b \in 1..Len(Pieces(d[a]))
      PROVE  /\ turn(a, b) \in Pushed(c)
             /\ turn(turn(a, b)[1], turn(a, b)[2]) = <<a, b>>
  <2>1. CASE a = k
    <3>1. b \in 1..N /\ N + 1 - b \in 1..N /\ N + 1 - (N + 1 - b) = b
      BY <2>1
    <3>2. turn(a, b) = <<k, N + 1 - b>>
      BY <2>1
    <3>3. <<k, N + 1 - b>> \in Pushed(c)
      BY <3>1, PushedFlags
    <3>4. QED
      BY <2>1, <3>1, <3>2, <3>3
  <2>2. CASE a # k
    <3>1. turn(a, b) = <<a, b>> /\ d[a] = c[a]
      BY <2>2
    <3>2. <<a, b>> \in Pushed(c)
      BY <3>1, PushedFlags
    <3>3. QED
      BY <2>2, <3>1, <3>2
  <2>3. QED
    BY <2>1, <2>2
<1> HIDE DEF turn
<1>3. ASSUME NEW at \in Pushed(c)
      PROVE  f[at] \in Pushed(d) /\ e[f[at]] = at /\ Piece(d, f[at]) = Piece(c, at)
  <2>1. PICK a \in 2..Len(c) : \E b \in 1..Len(Pieces(c[a])) : at = <<a, b>>
    BY PushedFlags
  <2>2. QED
    BY <1>1, <2>1 DEF Piece
<1>4. ASSUME NEW at \in Pushed(d) PROVE e[at] \in Pushed(c) /\ f[e[at]] = at
  <2>1. PICK a \in 2..Len(c) : \E b \in 1..Len(Pieces(d[a])) : at = <<a, b>>
    BY PushedFlags
  <2>2. QED
    BY <1>2, <2>1
<1>5. f \in [Pushed(c) -> Pushed(d)] /\ e \in [Pushed(d) -> Pushed(c)]
  BY <1>3, <1>4
<1> HIDE DEF f, e
<1>6. QED
  BY <1>3, <1>4, <1>5, SamePieces

(* -rf and -fr have the same flags.                                        *)
LEMMA TurnedFlags ==
  ASSUME NEW c \in Seq(Word), NEW d \in TurnedAround(c)
  PROVE  d \in Seq(Word) /\ Len(d) = Len(c) /\ d[1] = c[1] /\ Flags(c) = Flags(d)
<1>1. PICK k \in FlagGroups(c) : d = [c EXCEPT ![k] = <<Dash>> \o Reverse(Tail(c[k]))]
  BY DEF TurnedAround
<1> DEFINE w == c[k]
           L == Len(w)
           r == Reverse(Tail(w))
           v == <<Dash>> \o r
<1>2. /\ k \in 2..Len(c) /\ w \in Word /\ w[1] = Dash /\ Len(w) > 2
      /\ \A m \in 2..Len(w) : w[m] # Dash
  BY GroupParts
<1>3. d = [c EXCEPT ![k] = v]
  BY <1>1
<1> HIDE DEF w
<1>4. w \in Seq(Char) /\ L \in Nat /\ w # <<>> /\ \A m \in 1..L : w[m] \in Char
  BY <1>2, CharsOfWord
<1>5. /\ Tail(w) \in Seq(Char) /\ Len(Tail(w)) = L - 1
      /\ \A m \in 1..(L - 1) : Tail(w)[m] = w[m + 1]
  BY <1>4, HeadTailProperties
<1>6. r = [m \in 1..(L - 1) |-> Tail(w)[(L - 1 - m) + 1]]
  BY <1>5 DEF Reverse
<1>7. /\ r \in Seq(Char) /\ Len(r) = L - 1
      /\ \A m \in 1..(L - 1) : r[m] = w[L - m + 1]
  <2>1. ASSUME NEW m \in 1..(L - 1)
        PROVE  /\ Tail(w)[(L - 1 - m) + 1] = w[L - m + 1]
               /\ w[L - m + 1] \in Char
    <3>1. /\ (L - 1 - m) + 1 \in 1..(L - 1) /\ ((L - 1 - m) + 1) + 1 = L - m + 1
          /\ L - m + 1 \in 1..L
      BY <1>4
    <3>2. QED
      BY <1>4, <1>5, <3>1
  <2>2. r = [m \in 1..(L - 1) |-> w[L - m + 1]]
    BY <1>6, <2>1
  <2>3. L - 1 \in Nat
    BY <1>2, <1>4
  <2> HIDE DEF r, L
  <2>4. QED
    BY <2>1, <2>2, <2>3
<1> HIDE DEF r
<1>8. /\ v \in Word /\ Len(v) = L /\ v[1] = Dash
      /\ \A m \in 1..(L - 1) : v[m + 1] = w[L - m + 1]
  <2>1. /\ <<Dash>> \in Seq(Char) /\ Len(<<Dash>>) = 1 /\ <<Dash>>[1] = Dash
    BY DashIsChar
  <2>2. /\ v \in Seq(Char) /\ Len(v) = 1 + (L - 1)
        /\ \A m \in 1..(1 + (L - 1)) : v[m] = IF m <= 1 THEN <<Dash>>[m] ELSE r[m - 1]
    <3> HIDE DEF L
    <3>1. QED
      BY <1>7, <2>1, ConcatProperties
  <2>3. Len(v) = L /\ v[1] = Dash /\ v # <<>>
    BY <1>2, <1>4, <2>1, <2>2
  <2>4. ASSUME NEW m \in 1..(L - 1) PROVE v[m + 1] = w[L - m + 1]
    <3>1. m + 1 \in 1..(1 + (L - 1)) /\ ~(m + 1 <= 1) /\ (m + 1) - 1 = m
      BY <1>4
    <3>2. v[m + 1] = r[m]
      BY <2>2, <3>1
    <3>3. QED
      BY <1>7, <3>2
  <2>5. QED
    BY <2>2, <2>3, <2>4 DEF Word
<1> HIDE DEF v
<1>9. /\ d \in Seq(Word) /\ Len(d) = Len(c) /\ d[1] = c[1] /\ d[k] = v
      /\ \A m \in 2..Len(c) : m # k => d[m] = c[m]
  BY <1>2, <1>3, <1>8
<1>10. /\ Pieces(w) = [m \in 1..(L - 1) |-> <<Dash, w[m + 1]>>] /\ Len(Pieces(w)) = L - 1
  BY <1>2, <1>4, PiecesOfGroup
<1>11. /\ Pieces(v) = [m \in 1..(L - 1) |-> <<Dash, v[m + 1]>>] /\ Len(Pieces(v)) = L - 1
  <2>1. v[1 + 1] = w[L - 1 + 1] /\ L - 1 + 1 \in 2..L
    BY <1>2, <1>4, <1>8
  <2>2. v[2] # Dash
    BY <1>2, <2>1
  <2>3. QED
    BY <1>2, <1>8, <2>2, PiecesOfGroup
<1> DEFINE N == L - 1
<1>12. ASSUME NEW m \in 1..N PROVE Pieces(v)[N + 1 - m] = Pieces(w)[m]
  <2> DEFINE n == N + 1 - m
  <2>1. n \in 1..(L - 1) /\ L - n + 1 = m + 1
    BY <1>4
  <2> HIDE DEF n
  <2>2. v[n + 1] = w[L - n + 1]
    BY <1>8, <2>1
  <2>3. Pieces(v)[n] = Pieces(w)[m]
    BY <1>10, <1>11, <2>1, <2>2
  <2>4. QED
    BY <2>3 DEF n
<1>13. /\ N \in Nat /\ Len(Pieces(c[k])) = N /\ Len(Pieces(d[k])) = N
       /\ \A m \in 1..N : Pieces(d[k])[N + 1 - m] = Pieces(c[k])[m]
  <2>1. c[k] = w /\ N \in Nat
    BY <1>2, <1>4 DEF w
  <2>2. QED
    BY <1>9, <1>10, <1>11, <1>12, <2>1
<1> HIDE DEF N
<1>14. Flags(c) = Flags(d)
  BY <1>2, <1>9, <1>13, TurnedPieces
<1>15. QED
  BY <1>9, <1>14

(* Word k of c, with N flags, is words k and k + 1 of d: its first flag    *)
(* and the others.                                                         *)
SplitAt(c, d, k, N) ==
    /\ Len(d) = Len(c) + 1
    /\ \A m \in 2..(k - 1) : d[m] = c[m]
    /\ \A m \in (k + 1)..Len(c) : d[m + 1] = c[m]
    /\ Len(Pieces(c[k])) = N /\ Len(Pieces(d[k])) = 1 /\ Len(Pieces(d[k + 1])) = N - 1
    /\ Pieces(d[k])[1] = Pieces(c[k])[1]
    /\ \A m \in 1..(N - 1) : Pieces(d[k + 1])[m] = Pieces(c[k])[m + 1]

(* One word with the flags of two: the same flags.                         *)
LEMMA ApartPieces ==
  ASSUME NEW c \in Seq(Word), NEW d \in Seq(Word), NEW k \in 2..Len(c),
         NEW N \in Nat \ {0}, SplitAt(c, d, k, N)
  PROVE  Flags(c) = Flags(d)
<1> DEFINE to(a, b) == IF a < k \/ (a = k /\ b = 1) THEN <<a, b>>
                       ELSE IF a = k THEN <<k + 1, b - 1>> ELSE <<a + 1, b>>
           fro(a, b) == IF a <= k THEN <<a, b>>
                        ELSE IF a = k + 1 THEN <<k, b + 1>> ELSE <<a - 1, b>>
           f == [at \in Pushed(c) |-> to(at[1], at[2])]
           e == [at \in Pushed(d) |-> fro(at[1], at[2])]
<1>0. /\ k \in Nat /\ 2 <= k /\ k <= Len(c) /\ Len(c) \in Nat
      /\ Len(d) = Len(c) + 1 /\ N \in Nat /\ N >= 1
  BY DEF SplitAt
<1>1. ASSUME NEW a \in 2..Len(c), NEW b \in 1..Len(Pieces(c[a]))
      PROVE  /\ to(a, b) \in Pushed(d)
             /\ fro(to(a, b)[1], to(a, b)[2]) = <<a, b>>
             /\ Piece(d, to(a, b)) = Pieces(c[a])[b]
  <2>0. Len(Pieces(c[a])) \in Nat /\ b \in Nat /\ b >= 1 /\ b <= Len(Pieces(c[a]))
    <3>1. c[a] \in Word
      OBVIOUS
    <3>2. QED
      BY <3>1, PiecesType
  <2>1. CASE a < k
    <3>0. a \in 2..(k - 1) /\ a \in 2..Len(d) /\ a <= k
      BY <1>0, <2>1
    <3>1. to(a, b) = <<a, b>> /\ d[a] = c[a] /\ a \in 2..Len(d)
      BY <2>1, <3>0 DEF SplitAt
    <3>2. <<a, b>> \in Pushed(d)
      BY <2>0, <3>1, PushedFlags DEF SplitAt
    <3>3. fro(a, b) = <<a, b>>
      BY <3>0
    <3>4. QED
      BY <3>1, <3>2, <3>3 DEF Piece
  <2>2. CASE a = k /\ b = 1
    <3>1. to(a, b) = <<k, 1>> /\ fro(k, 1) = <<k, 1>> /\ k \in 2..Len(d) /\ 1 \in 1..1
      BY <1>0, <2>2 DEF SplitAt
    <3>2. <<k, 1>> \in Pushed(d)
      BY <2>0, <3>1, PushedFlags DEF SplitAt
    <3>3. QED
      BY <2>2, <3>1, <3>2 DEF Piece, SplitAt
  <2>3. CASE a = k /\ b # 1
    <3>1. to(a, b) = <<k + 1, b - 1>> /\ fro(k + 1, b - 1) = <<k, (b - 1) + 1>>
      BY <1>0, <2>3
    <3>2. b - 1 \in 1..(N - 1) /\ (b - 1) + 1 = b /\ k + 1 \in 2..Len(d)
      BY <1>0, <2>0, <2>3 DEF SplitAt
    <3>3. <<k + 1, b - 1>> \in Pushed(d)
      BY <2>0, <3>2, PushedFlags DEF SplitAt
    <3>4. Pieces(d[k + 1])[b - 1] = Pieces(c[k])[b]
      BY <3>2 DEF SplitAt
    <3>5. QED
      BY <2>3, <3>1, <3>2, <3>3, <3>4 DEF Piece
  <2>4. CASE a > k
    <3>1. /\ to(a, b) = <<a + 1, b>> /\ fro(a + 1, b) = <<(a + 1) - 1, b>>
          /\ (a + 1) - 1 = a /\ a + 1 \in 2..Len(d) /\ a \in (k + 1)..Len(c)
      BY <1>0, <2>4
    <3>2. d[a + 1] = c[a]
      BY <3>1 DEF SplitAt
    <3>3. <<a + 1, b>> \in Pushed(d)
      BY <2>0, <3>1, <3>2, PushedFlags
    <3>4. QED
      BY <3>1, <3>2, <3>3 DEF Piece
  <2>5. QED
    BY <1>0, <2>1, <2>2, <2>3, <2>4
<1>2. ASSUME NEW a \in 2..Len(d), NEW b \in 1..Len(Pieces(d[a]))
      PROVE  /\ fro(a, b) \in Pushed(c)
             /\ to(fro(a, b)[1], fro(a, b)[2]) = <<a, b>>
  <2>0. Len(Pieces(d[a])) \in Nat /\ b \in Nat /\ b >= 1 /\ b <= Len(Pieces(d[a]))
    <3>1. d[a] \in Word
      OBVIOUS
    <3>2. QED
      BY <3>1, PiecesType
  <2>1. CASE a < k
    <3>0. a \in 2..(k - 1) /\ a \in 2..Len(c) /\ a <= k
      BY <1>0, <2>1
    <3>1. fro(a, b) = <<a, b>> /\ to(a, b) = <<a, b>> /\ d[a] = c[a] /\ a \in 2..Len(c)
      BY <2>1, <3>0 DEF SplitAt
    <3>2. <<a, b>> \in Pushed(c)
      BY <2>0, <3>1, PushedFlags DEF SplitAt
    <3>3. QED
      BY <3>1, <3>2
  <2>2. CASE a = k
    <3>0. Len(Pieces(d[a])) = 1
      BY <2>2 DEF SplitAt
    <3>1. b = 1 /\ 1 \in 1..N
      BY <1>0, <2>0, <3>0
    <3>2. fro(a, b) = <<k, 1>> /\ to(k, 1) = <<k, 1>>
      BY <1>0, <2>2, <3>1
    <3>3. <<k, 1>> \in Pushed(c)
      BY <2>0, <3>1, PushedFlags DEF SplitAt
    <3>4. QED
      BY <2>2, <3>1, <3>2, <3>3
  <2>3. CASE a = k + 1
    <3>1. b \in 1..(N - 1)
      BY <2>0, <2>3 DEF SplitAt
    <3>2. b + 1 \in 1..N /\ b + 1 # 1 /\ (b + 1) - 1 = b
      BY <3>1
    <3>3. fro(a, b) = <<k, b + 1>> /\ to(k, b + 1) = <<k + 1, (b + 1) - 1>>
      BY <1>0, <2>3, <3>2
    <3>4. <<k, b + 1>> \in Pushed(c)
      BY <2>0, <3>2, PushedFlags DEF SplitAt
    <3>5. QED
      BY <2>3, <3>2, <3>3, <3>4
  <2>4. CASE a > k + 1
    <3>1. /\ fro(a, b) = <<a - 1, b>> /\ to(a - 1, b) = <<(a - 1) + 1, b>>
          /\ (a - 1) + 1 = a /\ a - 1 \in 2..Len(c) /\ a - 1 \in (k + 1)..Len(c)
      BY <1>0, <2>4
    <3>2. d[(a - 1) + 1] = c[a - 1]
      BY <3>1 DEF SplitAt
    <3>3. <<a - 1, b>> \in Pushed(c)
      BY <2>0, <3>1, <3>2, PushedFlags
    <3>4. QED
      BY <3>1, <3>3
  <2>5. QED
    BY <1>0, <2>1, <2>2, <2>3, <2>4
<1> HIDE DEF to, fro
<1>3. ASSUME NEW at \in Pushed(c)
      PROVE  f[at] \in Pushed(d) /\ e[f[at]] = at /\ Piece(d, f[at]) = Piece(c, at)
  <2>1. PICK a \in 2..Len(c) : \E b \in 1..Len(Pieces(c[a])) : at = <<a, b>>
    BY PushedFlags
  <2>2. PICK b \in 1..Len(Pieces(c[a])) : at = <<a, b>>
    BY <2>1
  <2>3. QED
    BY <1>1, <2>2 DEF Piece
<1>4. ASSUME NEW at \in Pushed(d) PROVE e[at] \in Pushed(c) /\ f[e[at]] = at
  <2>1. PICK a \in 2..Len(d) : \E b \in 1..Len(Pieces(d[a])) : at = <<a, b>>
    BY PushedFlags
  <2>2. PICK b \in 1..Len(Pieces(d[a])) : at = <<a, b>>
    BY <2>1
  <2>3. QED
    BY <1>2, <2>2
<1>5. f \in [Pushed(c) -> Pushed(d)] /\ e \in [Pushed(d) -> Pushed(c)]
  BY <1>3, <1>4
<1> HIDE DEF f, e
<1>6. QED
  BY <1>3, <1>4, <1>5, SamePieces

(* -rf and -r -f have the same flags.                                      *)
LEMMA ApartFlags ==
  ASSUME NEW c \in Seq(Word), NEW d \in TakenApart(c)
  PROVE  d \in Seq(Word) /\ Len(d) = Len(c) + 1 /\ d[1] = c[1] /\ Flags(c) = Flags(d)
<1>1. PICK k \in FlagGroups(c) :
        d = SubSeq(c, 1, k - 1)
              \o <<SubSeq(c[k], 1, 2), <<Dash>> \o SubSeq(c[k], 3, Len(c[k]))>>
              \o SubSeq(c, k + 1, Len(c))
  BY DEF TakenApart
<1> DEFINE w == c[k]
           L == Len(w)
           r == SubSeq(w, 3, L)
           v == SubSeq(w, 1, 2)
           u == <<Dash>> \o r
           p == SubSeq(c, 1, k - 1)
           q == SubSeq(c, k + 1, Len(c))
           h == p \o <<v, u>>
<1>2. /\ k \in 2..Len(c) /\ w \in Word /\ w[1] = Dash /\ Len(w) > 2
      /\ \A m \in 2..Len(w) : w[m] # Dash
  BY GroupParts
<1>3. d = h \o q
  BY <1>1
<1>4. /\ k \in Nat /\ 2 <= k /\ k <= Len(c) /\ Len(c) \in Nat
      /\ \A m \in 1..Len(c) : c[m] \in Word
  BY <1>2
<1> HIDE DEF w
<1>5. w \in Seq(Char) /\ L \in Nat /\ \A m \in 1..L : w[m] \in Char
  BY <1>2, CharsOfWord
<1>6. /\ v \in Word /\ Len(v) = 2 /\ v[1] = Dash /\ v[2] = w[2]
  <2>1. \A m \in 1..2 : w[m] \in Char
    BY <1>2, <1>5
  <2>2. /\ v \in Seq(Char) /\ Len(v) = IF 1 <= 2 THEN 2 - 1 + 1 ELSE 0
        /\ \A m \in 1..(2 - 1 + 1) : v[m] = w[1 + m - 1]
    BY <2>1, SubSeqProperties
  <2> HIDE DEF v
  <2>3. Len(v) = 2 /\ v # <<>> /\ v[1] = w[1] /\ v[2] = w[2]
    <3>1. 1 \in 1..(2 - 1 + 1) /\ 2 \in 1..(2 - 1 + 1) /\ 1 + 1 - 1 = 1 /\ 1 + 2 - 1 = 2
      OBVIOUS
    <3>2. v[1] = w[1 + 1 - 1] /\ v[2] = w[1 + 2 - 1]
      BY <2>2, <3>1, Zenon
    <3>3. Len(v) = 2
      BY <2>2
    <3>4. Len(<<>>) = 0
      OBVIOUS
    <3>5. v[1] = w[1] /\ v[2] = w[2]
      BY <3>1, <3>2
    <3>6. v # <<>>
      <4>1. SUFFICES ASSUME v = <<>> PROVE FALSE
        OBVIOUS
      <4>2. Len(v) = 0
        BY <3>4, <4>1, Zenon
      <4>3. QED
        BY <3>3, <4>2
    <3>7. QED
      BY <3>3, <3>5, <3>6
  <2>4. QED
    BY <1>2, <2>2, <2>3 DEF Word
<1>7. /\ r \in Seq(Char) /\ Len(r) = L - 2
      /\ \A m \in 1..(L - 2) : r[m] = w[m + 2]
  <2>1. \A m \in 3..L : w[m] \in Char
    BY <1>5
  <2> HIDE DEF L
  <2>2. /\ r \in Seq(Char) /\ Len(r) = IF 3 <= L THEN L - 3 + 1 ELSE 0
        /\ \A m \in 1..(L - 3 + 1) : r[m] = w[3 + m - 1]
    BY <1>5, <2>1, SubSeqProperties
  <2>3. 3 <= L /\ L - 3 + 1 = L - 2
    BY <1>2, <1>5 DEF L
  <2>4. \A m \in 1..(L - 2) : 3 + m - 1 = m + 2
    BY <1>5
  <2> HIDE DEF r
  <2>5. QED
    BY <2>2, <2>3, <2>4
<1> HIDE DEF r, v
<1>8. /\ u \in Word /\ Len(u) = L - 1 /\ u[1] = Dash
      /\ \A m \in 1..(L - 2) : u[m + 1] = w[m + 2]
  <2>1. /\ <<Dash>> \in Seq(Char) /\ Len(<<Dash>>) = 1 /\ <<Dash>>[1] = Dash
    BY DashIsChar
  <2>2. /\ u \in Seq(Char) /\ Len(u) = 1 + (L - 2)
        /\ \A m \in 1..(1 + (L - 2)) : u[m] = IF m <= 1 THEN <<Dash>>[m] ELSE r[m - 1]
    <3> HIDE DEF L
    <3>1. QED
      BY <1>7, <2>1, ConcatProperties
  <2>3. Len(u) = L - 1 /\ u[1] = Dash /\ u # <<>>
    BY <1>2, <1>5, <2>1, <2>2
  <2>4. ASSUME NEW m \in 1..(L - 2) PROVE u[m + 1] = w[m + 2]
    <3>1. m + 1 \in 1..(1 + (L - 2)) /\ ~(m + 1 <= 1) /\ (m + 1) - 1 = m
      BY <1>5
    <3>2. u[m + 1] = r[m]
      BY <2>2, <3>1
    <3>3. QED
      BY <1>7, <3>2
  <2>5. QED
    BY <2>2, <2>3, <2>4 DEF Word
<1> HIDE DEF u
<1>9. /\ p \in Seq(Word) /\ Len(p) = k - 1 /\ \A m \in 1..(k - 1) : p[m] = c[m]
  <2>1. \A m \in 1..(k - 1) : c[m] \in Word
    BY <1>4
  <2>2. /\ p \in Seq(Word) /\ Len(p) = IF 1 <= k - 1 THEN (k - 1) - 1 + 1 ELSE 0
        /\ \A m \in 1..((k - 1) - 1 + 1) : p[m] = c[1 + m - 1]
    BY <1>4, <2>1, SubSeqProperties
  <2>3. 1 <= k - 1 /\ (k - 1) - 1 + 1 = k - 1 /\ \A m \in 1..(k - 1) : 1 + m - 1 = m
    BY <1>4
  <2> HIDE DEF p
  <2>4. QED
    BY <2>2, <2>3
<1>10. /\ q \in Seq(Word) /\ Len(q) = Len(c) - k
       /\ \A m \in 1..(Len(c) - k) : q[m] = c[k + m]
  <2>1. \A m \in (k + 1)..Len(c) : c[m] \in Word
    BY <1>4
  <2>2. /\ q \in Seq(Word)
        /\ Len(q) = IF k + 1 <= Len(c) THEN Len(c) - (k + 1) + 1 ELSE 0
        /\ \A m \in 1..(Len(c) - (k + 1) + 1) : q[m] = c[(k + 1) + m - 1]
    BY <1>4, <2>1, SubSeqProperties
  <2>3. /\ Len(c) - (k + 1) + 1 = Len(c) - k /\ (~(k + 1 <= Len(c)) => Len(c) - k = 0)
        /\ \A m \in 1..(Len(c) - k) : (k + 1) + m - 1 = k + m
    BY <1>4
  <2> HIDE DEF q
  <2>4. QED
    BY <2>2, <2>3
<1> HIDE DEF p, q
<1>11. /\ h \in Seq(Word) /\ Len(h) = k + 1 /\ \A m \in 1..(k - 1) : h[m] = c[m]
       /\ h[k] = v /\ h[k + 1] = u
  <2>1. /\ <<v, u>> \in Seq(Word) /\ Len(<<v, u>>) = 2
        /\ <<v, u>>[1] = v /\ <<v, u>>[2] = u
    BY <1>6, <1>8
  <2> DEFINE vu == <<v, u>>
  <2> HIDE DEF vu
  <2>2. /\ h \in Seq(Word) /\ Len(h) = (k - 1) + 2
        /\ \A m \in 1..((k - 1) + 2) : h[m] = IF m <= k - 1 THEN p[m] ELSE vu[m - (k - 1)]
    BY <1>9, <2>1, ConcatProperties DEF vu
  <2>3. k - (k - 1) = 1 /\ (k + 1) - (k - 1) = 2 /\ ~(k <= k - 1) /\ ~(k + 1 <= k - 1)
    BY <1>4
  <2>4. /\ (k - 1) + 2 = k + 1 /\ k \in 1..((k - 1) + 2) /\ k + 1 \in 1..((k - 1) + 2)
        /\ \A m \in 1..(k - 1) : m \in 1..((k - 1) + 2) /\ m <= k - 1
    BY <1>4
  <2> HIDE DEF h
  <2>5. h[k] = vu[1] /\ h[k + 1] = vu[2]
    BY <2>2, <2>3, <2>4
  <2>6. \A m \in 1..(k - 1) : h[m] = c[m]
    BY <1>9, <2>2, <2>4
  <2>7. QED
    BY <2>1, <2>2, <2>4, <2>5, <2>6 DEF vu
<1> HIDE DEF h
<1>12. /\ d \in Seq(Word) /\ Len(d) = Len(c) + 1 /\ d[1] = c[1]
       /\ d[k] = v /\ d[k + 1] = u
       /\ \A m \in 2..(k - 1) : d[m] = c[m]
       /\ \A m \in (k + 1)..Len(c) : d[m + 1] = c[m]
  <2>1. /\ d \in Seq(Word) /\ Len(d) = (k + 1) + (Len(c) - k)
        /\ \A m \in 1..((k + 1) + (Len(c) - k)) :
                d[m] = IF m <= k + 1 THEN h[m] ELSE q[m - (k + 1)]
    <3>1. /\ d \in Seq(Word) /\ Len(d) = Len(h) + Len(q)
          /\ \A m \in 1..(Len(h) + Len(q)) :
                d[m] = IF m <= Len(h) THEN h[m] ELSE q[m - Len(h)]
      BY <1>3, <1>10, <1>11, ConcatProperties
    <3>2. QED
      BY <1>10, <1>11, <3>1
  <2>2. /\ (k + 1) + (Len(c) - k) = Len(c) + 1
        /\ \A m \in 1..(k + 1) : m \in 1..(Len(c) + 1) /\ m <= k + 1
        /\ \A m \in (k + 1)..Len(c) :
              /\ m + 1 \in 1..(Len(c) + 1) /\ ~(m + 1 <= k + 1)
              /\ (m + 1) - (k + 1) \in 1..(Len(c) - k)
              /\ k + ((m + 1) - (k + 1)) = m
        /\ k \in 1..(k + 1) /\ k + 1 \in 1..(k + 1) /\ 1 \in 1..(k - 1)
        /\ \A m \in 1..(k - 1) : m \in 1..(k + 1)
        /\ \A m \in 2..(k - 1) : m \in 1..(k - 1)
    BY <1>4
  <2>3. \A m \in 1..(k + 1) : d[m] = h[m]
    BY <2>1, <2>2
  <2>4. ASSUME NEW m \in (k + 1)..Len(c) PROVE d[m + 1] = c[m]
    <3>1. d[m + 1] = q[(m + 1) - (k + 1)]
      BY <2>1, <2>2
    <3>2. q[(m + 1) - (k + 1)] = c[k + ((m + 1) - (k + 1))]
      BY <1>10, <2>2
    <3>3. QED
      BY <2>2, <3>1, <3>2
  <2>5. QED
    BY <1>11, <2>1, <2>2, <2>3, <2>4
<1>13. /\ Pieces(w) = [m \in 1..(L - 1) |-> <<Dash, w[m + 1]>>] /\ Len(Pieces(w)) = L - 1
  BY <1>2, PiecesOfGroup
<1>14. Pieces(v) = <<v>> /\ v = Pieces(w)[1]
  <2>1. Pieces(v) = <<v>>
    <3>1. ~(Len(v) > 2 /\ v[2] # Dash)
      BY <1>6
    <3>2. QED
      BY <1>6, <3>1, PiecesOfFlag
  <2>2. Pieces(w)[1] = <<Dash, w[1 + 1]>>
    BY <1>2, <1>5, <1>13
  <2>3. v = <<v[1], v[2]>>
    BY <1>6, CharsOfWord
  <2>4. QED
    BY <1>6, <2>1, <2>2, <2>3
<1>15. /\ Len(Pieces(u)) = L - 2
       /\ \A m \in 1..(L - 2) : Pieces(u)[m] = <<Dash, u[m + 1]>>
  <2>1. CASE L = 3
    <3>1. Len(u) = 2
      BY <1>8, <2>1
    <3>2. Pieces(u) = <<u>>
      <4>1. ~(Len(u) > 2 /\ u[2] # Dash)
        BY <3>1
      <4>2. QED
        BY <1>8, <4>1, PiecesOfFlag
    <3>3. u = <<u[1], u[2]>>
      BY <1>8, <3>1, CharsOfWord
    <3>4. QED
      BY <1>8, <2>1, <3>2, <3>3
  <2>2. CASE L > 3
    <3>1. 1 \in 1..(L - 2) /\ 1 + 2 \in 2..L /\ Len(u) > 2
      BY <1>5, <1>8, <2>2
    <3>2. u[2] # Dash
      <4>1. u[1 + 1] = w[1 + 2]
        BY <1>8, <3>1
      <4>2. QED
        BY <1>2, <3>1, <4>1
    <3>3. /\ Pieces(u) = [m \in 1..(Len(u) - 1) |-> <<Dash, u[m + 1]>>]
          /\ Len(Pieces(u)) = Len(u) - 1
      BY <1>8, <3>1, <3>2, PiecesOfGroup
    <3>4. Len(u) - 1 = L - 2
      BY <1>5, <1>8
    <3>5. QED
      BY <3>3, <3>4
  <2>3. L = 3 \/ L > 3
    <3>1. L \in Nat /\ L > 2
      BY <1>2, <1>5
    <3> HIDE DEF L
    <3>2. QED
      BY <3>1
  <2>4. QED
    BY <2>1, <2>2, <2>3
<1> DEFINE N == L - 1
<1>16. /\ N \in Nat \ {0} /\ Len(Pieces(c[k])) = N /\ Len(Pieces(d[k])) = 1
       /\ Len(Pieces(d[k + 1])) = N - 1 /\ Pieces(d[k])[1] = Pieces(c[k])[1]
       /\ \A m \in 1..(N - 1) : Pieces(d[k + 1])[m] = Pieces(c[k])[m + 1]
  <2>1. c[k] = w /\ N \in Nat \ {0} /\ N - 1 = L - 2
    BY <1>2, <1>5 DEF w
  <2>2. ASSUME NEW m \in 1..(L - 2) PROVE Pieces(u)[m] = Pieces(w)[m + 1]
    <3>1. m + 1 \in 1..(L - 1) /\ (m + 1) + 1 = m + 2
      BY <1>5
    <3>2. Pieces(w)[m + 1] = <<Dash, w[m + 2]>>
      BY <1>13, <3>1
    <3>3. QED
      BY <1>8, <1>15, <3>2
  <2>3. Len(Pieces(v)) = 1 /\ Pieces(v)[1] = Pieces(w)[1]
    BY <1>14
  <2>4. QED
    BY <1>12, <1>13, <1>15, <2>1, <2>2, <2>3
<1> HIDE DEF N
<1>17. Flags(c) = Flags(d)
  <2>1. SplitAt(c, d, k, N)
    BY <1>12, <1>16 DEF SplitAt
  <2>2. QED
    BY <1>2, <1>12, <1>16, <2>1, ApartPieces
<1>18. QED
  BY <1>12, <1>17
-----------------------------------------------------------------------------
(* The spellings that SpellingIrrelevant is about. *)
OtherSpellings(c) == Swapped(c) \cup TurnedAround(c) \cup TakenApart(c)

(* So the other spellings of a command are normalized to the same text.    *)
LEMMA SameNormalized ==
  ASSUME NEW c \in Seq(Word), NEW d \in OtherSpellings(c)
  PROVE  d \in Seq(Word) /\ normalizeCommand(d) = normalizeCommand(c)
<1>1. d \in Seq(Word) /\ Len(d) >= Len(c) /\ d[1] = c[1] /\ Flags(c) = Flags(d)
  BY SwappedFlags, TurnedFlags, ApartFlags DEF OtherSpellings
<1>2. PICK k \in 2..Len(c) : TRUE
  <2>1. CASE d \in Swapped(c)
    BY <2>1 DEF Swapped
  <2>2. CASE d \in TurnedAround(c)
    BY <2>2 DEF TurnedAround, FlagGroups
  <2>3. CASE d \in TakenApart(c)
    BY <2>3 DEF TakenApart, FlagGroups
  <2>4. QED
    BY <2>1, <2>2, <2>3 DEF OtherSpellings
<1>3. c # <<>> /\ d # <<>>
  BY <1>1, <1>2
<1>4. QED
  BY <1>1, <1>3 DEF normalizeCommand

(* A command's own name is a pattern that it matches. *)
LEMMA MatchesItself ==
  ASSUME NEW c \in Seq(Word)
  PROVE  isCommandMatch(c, c)
BY DEF isCommandMatch, isSubstringMatch

(* What is asked is a command. *)
AskedOK == asked \in Commands \cup {NoCommand}

LEMMA AskedIsCommand == CommandSpec => []AskedOK
<1>1. CommandInit => AskedOK
  BY DEF CommandInit, AskedOK
<1>2. AskedOK /\ [Ask]_asked => AskedOK'
  BY DEF AskedOK, Ask
<1>3. QED
  BY <1>1, <1>2, PTL DEF CommandSpec

(* SpellingIrrelevant: isCommandMatch does not tell rm -rf, rm -fr and rm  *)
(* -r -f apart, whatever the command, the patterns and what realpath       *)
(* answers.                                                                *)
THEOREM SpellingDoesNotMatter == CommandSpec => []SpellingIrrelevant
<1>1. AskedOK => SpellingIrrelevant
  <2> SUFFICES ASSUME AskedOK, asked # NoCommand, NEW d \in OtherSpellings(asked),
                      NEW p \in Patterns
               PROVE  /\ isCommandMatch(asked, p) <=> isCommandMatch(d, p)
                      /\ isCommandMatch(p, asked) <=> isCommandMatch(p, d)
    BY DEF SpellingIrrelevant, OtherSpellings
  <2>1. asked \in Seq(Word)
    BY CommandAssumption DEF AskedOK
  <2>2. normalizeCommand(d) = normalizeCommand(asked)
    BY <2>1, SameNormalized
  <2>3. QED
    BY <2>2 DEF isCommandMatch
<1>2. QED
  BY <1>1, AskedIsCommand, PTL
=============================================================================
