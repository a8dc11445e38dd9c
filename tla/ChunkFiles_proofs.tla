-------------------------- MODULE ChunkFiles_proofs --------------------------
(***************************************************************************)
(* The lines of a table are read in the order in which they were           *)
(* committed, and the row pointers a handle keeps read the live rows, for  *)
(* any names, sizes, handles, batches and interrupted writes.              *)
(***************************************************************************)
EXTENDS ChunkFiles, FiniteSetTheorems, WellFoundedInduction, TLAPS

-------------------------------------------------------------------------------
(* Induction and recursion over numbers. *)

\* A set of numbers has a least one.
LEMMA LeastOf == ASSUME NEW S \in SUBSET Nat, S # {} PROVE \E x \in S : \A y \in S : x <= y
<1> DEFINE R == OpToRel(<, Nat)
<1>1. PICK x \in S : \A y \in S : <<y, x>> \notin R
  BY NatLessThanWellFounded, WFMin
<1>2. \A y \in S : y < x => <<y, x>> \in R
  BY DEF OpToRel
<1> HIDE DEF R
<1>3. \A y \in S : ~(y < x)
  BY <1>1, <1>2
<1> QED
  BY <1>3

\* A set with 0 and each number's successor up to n has the numbers up to n.
LEMMA UpwardsTo ==
    ASSUME NEW n \in Nat, NEW S, 0 \in S, \A k \in 0..n : k \in S /\ k < n => k + 1 \in S
    PROVE  0..n \subseteq S
<1> DEFINE Bad == (0..n) \ S
<1> SUFFICES ASSUME Bad # {} PROVE FALSE
  OBVIOUS
<1>1. PICK x \in Bad : \A y \in Bad : x <= y
  <2>1. Bad \in SUBSET Nat
    OBVIOUS
  <2> HIDE DEF Bad
  <2> QED
    BY <2>1, LeastOf
<1>2. x # 0 /\ x \in 1..n /\ x \notin S
  OBVIOUS
<1>3. x - 1 \in 0..n /\ x - 1 < n /\ (x - 1) + 1 = x /\ ~(x <= x - 1)
  BY <1>2
<1>4. x - 1 \in S
  BY <1>1, <1>3
<1> QED
  BY <1>2, <1>3, <1>4

\* f is the function on 0..n with f[0] = a that takes `step' from each number to the next.
Follows(f, S, a, step, n) ==
    f \in [0..n -> S] /\ f[0] = a /\ \A i \in 1..n : f[i] = step[i][f[i - 1]]

\* Such a function exists.
LEMMA Recursion ==
    ASSUME NEW S, NEW a \in S, NEW step \in [Nat -> [S -> S]], NEW n \in Nat
    PROVE  \E f : Follows(f, S, a, step, n)
<1> DEFINE Ok(k) == \E f \in [0..k -> S] : f[0] = a /\ \A i \in 1..k : f[i] = step[i][f[i - 1]]
           Good == {k \in 0..n : Ok(k)}
<1>1. Ok(0)
  <2> DEFINE f == [i \in 0..0 |-> a]
  <2>1. f \in [0..0 -> S] /\ f[0] = a
    OBVIOUS
  <2>2. \A i \in 1..0 : f[i] = step[i][f[i - 1]]
    OBVIOUS
  <2> HIDE DEF f
  <2> QED
    BY <2>1, <2>2
<1>2. ASSUME NEW k \in Nat, Ok(k) PROVE Ok(k + 1)
  <2>1. PICK f \in [0..k -> S] : f[0] = a /\ \A i \in 1..k : f[i] = step[i][f[i - 1]]
    BY <1>2
  <2> DEFINE g == [i \in 0..(k + 1) |-> IF i = k + 1 THEN step[k + 1][f[k]] ELSE f[i]]
  <2>2. g \in [0..(k + 1) -> S]
    <3>1. f[k] \in S /\ k + 1 \in Nat
      OBVIOUS
    <3>2. step[k + 1][f[k]] \in S
      BY <3>1
    <3> QED
      BY <3>2
  <2>3. g[0] = a
    BY <2>1
  <2>4. \A i \in 1..(k + 1) : g[i] = step[i][g[i - 1]]
    BY <2>1
  <2> QED
    BY <2>2, <2>3, <2>4
<1> HIDE DEF Ok
<1>3. 0..n \subseteq Good
  <2>1. 0 \in Good /\ \A k \in 0..n : k \in Good /\ k < n => k + 1 \in Good
    BY <1>1, <1>2
  <2> HIDE DEF Good
  <2> QED
    BY <2>1, UpwardsTo
<1>4. Ok(n)
  BY <1>3
<1> QED
  BY <1>4 DEF Ok, Follows

-------------------------------------------------------------------------------
(* Names. *)

\* How many names there are.
LEMMA PowerFacts ==
    /\ Power \in [0..Width -> Nat \ {0}] /\ Power[0] = 1
    /\ \A k \in 1..Width : Power[k] = Base * Power[k - 1]
<1> DEFINE S == Nat \ {0}
           step == [i \in Nat |-> [x \in S |-> Base * x]]
<1>1. Base \in Nat \ {0, 1} /\ Width \in Nat \ {0}
  BY NameAssumption
<1>2. step \in [Nat -> [S -> S]] /\ 1 \in S
  BY <1>1
<1>3. PICK f \in [0..Width -> S] : f[0] = 1 /\ \A i \in 1..Width : f[i] = step[i][f[i - 1]]
  <2> DEFINE one == 1
  <2>1. one \in S /\ Width \in Nat /\ step \in [Nat -> [S -> S]]
    BY <1>1, <1>2
  <2> HIDE DEF S, step, one
  <2>2. PICK f : Follows(f, S, one, step, Width)
    BY <2>1, Recursion
  <2> QED
    BY <2>2 DEF one, Follows
<1>4. \A i \in 1..Width : f[i] = Base * f[i - 1]
  <2>1. \A i \in 1..Width : i \in Nat /\ f[i - 1] \in S
    BY <1>1
  <2> QED
    BY <1>3, <2>1
<1>5. f = [k \in 0..Width |-> IF k = 0 THEN 1 ELSE Base * f[k - 1]]
  BY <1>1, <1>3, <1>4
<1>6. Power = [k \in 0..Width |-> IF k = 0 THEN 1 ELSE Base * Power[k - 1]]
  BY <1>5 DEF Power
<1>7. Power[0] = 1 /\ \A k \in 1..Width : Power[k] = Base * Power[k - 1]
  BY <1>1, <1>6
<1>8. Power \in [0..Width -> Nat \ {0}]
  <2> DEFINE Same == {k \in 0..Width : Power[k] = f[k]}
  <2>1. 0 \in Same
    BY <1>1, <1>3, <1>7
  <2>2. \A k \in 0..Width : k \in Same /\ k < Width => k + 1 \in Same
    <3>1. ASSUME NEW k \in 0..Width, k \in Same, k < Width PROVE k + 1 \in Same
      <4>1. k + 1 \in 1..Width /\ (k + 1) - 1 = k
        BY <1>1, <3>1
      <4>2. Power[k + 1] = Base * Power[k] /\ f[k + 1] = Base * f[k]
        BY <1>4, <1>7, <4>1
      <4> QED
        BY <3>1, <4>1, <4>2
    <3> QED
      BY <3>1
  <2>3. 0..Width \subseteq Same
    <3> HIDE DEF Same
    <3> QED
      BY <1>1, <2>1, <2>2, UpwardsTo
  <2>4. \A k \in 0..Width : Power[k] \in Nat \ {0}
    BY <2>3
  <2>5. Power = [k \in 0..Width |-> Power[k]]
    BY <1>6
  <2> QED
    BY <2>4, <2>5
<1> QED
  BY <1>7, <1>8

\* What is left of a number after each division.
LEMMA RestFacts ==
    ASSUME NEW n \in Nat
    PROVE  /\ Rest(n) \in [0..Width -> Nat] /\ Rest(n)[0] = n
           /\ \A k \in 1..Width : Rest(n)[k] = Rest(n)[k - 1] \div Base
<1> DEFINE step == [i \in Nat |-> [x \in Nat |-> x \div Base]]
<1>1. Base \in Nat \ {0, 1} /\ Width \in Nat \ {0}
  BY NameAssumption
<1>2. step \in [Nat -> [Nat -> Nat]]
  BY <1>1
<1>3. PICK f \in [0..Width -> Nat] : f[0] = n /\ \A i \in 1..Width : f[i] = step[i][f[i - 1]]
  <2> DEFINE S == Nat
  <2>1. n \in S /\ Width \in Nat /\ step \in [Nat -> [S -> S]]
    BY <1>1, <1>2
  <2> HIDE DEF S, step
  <2>2. PICK f : Follows(f, S, n, step, Width)
    BY <2>1, Recursion
  <2> QED
    BY <2>2 DEF S, Follows
<1>4. \A i \in 1..Width : f[i] = f[i - 1] \div Base
  <2>1. \A i \in 1..Width : i \in Nat /\ f[i - 1] \in Nat
    BY <1>1
  <2> QED
    BY <1>3, <2>1
<1>5. f = [k \in 0..Width |-> IF k = 0 THEN n ELSE f[k - 1] \div Base]
  BY <1>1, <1>3, <1>4
<1> DEFINE r == Rest(n)
<1>6. r = [k \in 0..Width |-> IF k = 0 THEN n ELSE r[k - 1] \div Base]
  BY <1>5 DEF Rest
<1> HIDE DEF r
<1>7. r[0] = n /\ \A k \in 1..Width : r[k] = r[k - 1] \div Base
  BY <1>1, <1>6
<1>8. r \in [0..Width -> Nat]
  <2> DEFINE Same == {k \in 0..Width : r[k] = f[k]}
  <2>1. 0 \in Same
    BY <1>1, <1>3, <1>7
  <2>2. \A k \in 0..Width : k \in Same /\ k < Width => k + 1 \in Same
    <3>1. ASSUME NEW k \in 0..Width, k \in Same, k < Width PROVE k + 1 \in Same
      <4>1. k + 1 \in 1..Width /\ (k + 1) - 1 = k
        BY <1>1, <3>1
      <4>2. r[k + 1] = r[k] \div Base /\ f[k + 1] = f[k] \div Base
        BY <1>4, <1>7, <4>1
      <4> QED
        BY <3>1, <4>1, <4>2
    <3> QED
      BY <3>1
  <2>3. 0..Width \subseteq Same
    <3> HIDE DEF Same
    <3> QED
      BY <1>1, <2>1, <2>2, UpwardsTo
  <2>4. \A k \in 0..Width : r[k] \in Nat
    BY <2>3
  <2>5. r = [k \in 0..Width |-> r[k]]
    BY <1>6
  <2> QED
    BY <2>4, <2>5
<1> QED
  BY <1>7, <1>8 DEF r

\* Dividing keeps the order.
LEMMA RestMonotone ==
    ASSUME NEW m \in Nat, NEW n \in Nat, m <= n
    PROVE  \A k \in 0..Width : Rest(m)[k] <= Rest(n)[k]
<1> DEFINE r == Rest(m)
           s == Rest(n)
           Good == {k \in 0..Width : r[k] <= s[k]}
<1>1. Base \in Nat \ {0} /\ Width \in Nat
  BY NameAssumption
<1>2. /\ r \in [0..Width -> Nat] /\ r[0] = m /\ \A k \in 1..Width : r[k] = r[k - 1] \div Base
      /\ s \in [0..Width -> Nat] /\ s[0] = n /\ \A k \in 1..Width : s[k] = s[k - 1] \div Base
  BY RestFacts
<1> HIDE DEF r, s
<1>3. 0 \in Good
  BY <1>1, <1>2
<1>4. ASSUME NEW k \in 0..Width, k \in Good, k < Width PROVE k + 1 \in Good
  <2>1. k + 1 \in 1..Width /\ (k + 1) - 1 = k
    BY <1>1, <1>4
  <2>2. r[k + 1] = r[k] \div Base /\ s[k + 1] = s[k] \div Base
    BY <1>2, <2>1
  <2>3. r[k] \in Nat /\ s[k] \in Nat /\ r[k] <= s[k]
    BY <1>2, <1>4
  <2>4. r[k] \div Base <= s[k] \div Base
    BY <1>1, <2>3
  <2> QED
    BY <2>1, <2>2, <2>4
<1>5. 0..Width \subseteq Good
  <2> HIDE DEF Good
  <2> QED
    BY <1>1, <1>3, <1>4, UpwardsTo
<1> QED
  BY <1>5 DEF r, s

\* After all divisions nothing is left of a counter.
LEMMA RestEnds ==
    ASSUME NEW n \in Nat, n < MaxChunks
    PROVE  Rest(n)[Width] = 0
<1> DEFINE r == Rest(n)
           Good == {k \in 0..Width : r[k] < Power[Width - k]}
<1>1. Base \in Nat \ {0} /\ Width \in Nat
  BY NameAssumption
<1>2. r \in [0..Width -> Nat] /\ r[0] = n /\ \A k \in 1..Width : r[k] = r[k - 1] \div Base
  BY RestFacts
<1> HIDE DEF r
<1>3. 0 \in Good
  <2>1. Width - 0 = Width
    BY <1>1
  <2> QED
    BY <1>1, <1>2, <2>1 DEF MaxChunks
<1>4. ASSUME NEW k \in 0..Width, k \in Good, k < Width PROVE k + 1 \in Good
  <2>1. /\ k + 1 \in 1..Width /\ (k + 1) - 1 = k /\ Width - k \in 1..Width
        /\ (Width - k) - 1 = Width - (k + 1) /\ Width - (k + 1) \in 0..Width
    BY <1>1, <1>4
  <2>2. r[k + 1] = r[k] \div Base /\ Power[Width - k] = Base * Power[Width - (k + 1)]
    BY <1>2, <2>1, PowerFacts
  <2> DEFINE a == r[k]
             p == Power[Width - (k + 1)]
  <2>3. a \in Nat /\ p \in Nat /\ a < Base * p
    BY <1>2, <1>4, <2>1, <2>2, PowerFacts
  <2>4. r[k + 1] = a \div Base
    BY <2>2
  <2> HIDE DEF a, p
  <2>5. a \div Base < p
    BY <1>1, <2>3
  <2> QED
    BY <2>1, <2>4, <2>5 DEF p
<1>5. 0..Width \subseteq Good
  <2> HIDE DEF Good
  <2> QED
    BY <1>1, <1>3, <1>4, UpwardsTo
<1>6. r[Width] < Power[Width - Width] /\ Width - Width = 0
  BY <1>1, <1>5
<1>7. r[Width] < 1 /\ r[Width] \in Nat
  BY <1>1, <1>2, <1>6, PowerFacts
<1> QED
  BY <1>7 DEF r

\* Digits are compared like the numbers they stand for.
LEMMA DigitsInOrder ==
    ASSUME NEW m \in Nat, NEW n \in Nat, m < n, n < MaxChunks
    PROVE  \E i \in 1..Width :
             /\ Digits(m)[i] < Digits(n)[i]
             /\ \A j \in 1..(i - 1) : Digits(m)[j] = Digits(n)[j]
<1> DEFINE r == Rest(m)
           s == Rest(n)
           D == {i \in 0..Width : r[Width - i] # s[Width - i]}
<1>1. Base \in Nat \ {0} /\ Width \in Nat \ {0}
  BY NameAssumption
<1>2. /\ r \in [0..Width -> Nat] /\ r[0] = m /\ \A k \in 1..Width : r[k] = r[k - 1] \div Base
      /\ s \in [0..Width -> Nat] /\ s[0] = n /\ \A k \in 1..Width : s[k] = s[k - 1] \div Base
  BY RestFacts
<1>3. \A k \in 0..Width : r[k] <= s[k]
  BY RestMonotone
<1>4. r[Width] = 0 /\ s[Width] = 0
  <2>1. m < MaxChunks
    <3>1. MaxChunks \in Nat
      BY <1>1, PowerFacts DEF MaxChunks
    <3> QED
      BY <3>1
  <2> QED
    BY <2>1, RestEnds
<1>5. \A i \in 1..Width : /\ Digits(m)[i] = r[Width - i] % Base
                          /\ Digits(n)[i] = s[Width - i] % Base
  BY DEF Digits
<1> HIDE DEF r, s
<1>6. Width \in D
  <2>1. Width - Width = 0 /\ Width \in 0..Width
    BY <1>1
  <2> QED
    BY <1>2, <2>1
<1>7. PICK i \in D : \A j \in D : i <= j
  <2>1. D \in SUBSET Nat /\ D # {}
    <3>1. \A x \in D : x \in Nat
      OBVIOUS
    <3> HIDE DEF D
    <3> QED
      BY <1>6, <3>1
  <2> HIDE DEF D
  <2> QED
    BY <2>1, LeastOf
<1>8. i \in 1..Width /\ i - 1 \in 0..Width /\ i - 1 \notin D
  <2>1. i # 0
    <3>1. Width - 0 = Width
      BY <1>1
    <3> QED
      BY <1>4, <3>1
  <2>2. i \in 1..Width /\ i - 1 \in 0..Width /\ ~(i <= i - 1)
    BY <1>1, <2>1
  <2> QED
    BY <1>7, <2>2
<1>9. \A j \in 1..(i - 1) : Digits(m)[j] = Digits(n)[j]
  <2>1. ASSUME NEW j \in 1..(i - 1) PROVE Digits(m)[j] = Digits(n)[j]
    <3>1. j \in 0..Width /\ j \in 1..Width /\ ~(i <= j)
      BY <1>1, <1>8
    <3>2. j \notin D
      BY <1>7, <3>1
    <3> QED
      BY <1>5, <3>1, <3>2
  <2> QED
    BY <2>1
<1>10. Digits(m)[i] < Digits(n)[i]
  <2> DEFINE a == r[Width - i]
             b == s[Width - i]
             p == r[Width - (i - 1)]
  <2>1. /\ Width - i \in 0..Width /\ Width - (i - 1) \in 1..Width
        /\ (Width - (i - 1)) - 1 = Width - i
    BY <1>1, <1>8
  <2>2. a # b /\ a <= b /\ a \in Nat /\ b \in Nat
    BY <1>2, <1>3, <1>7, <2>1
  <2>3. p = s[Width - (i - 1)]
    BY <1>8
  <2>4. p = a \div Base /\ p = b \div Base
    BY <1>2, <2>1, <2>3
  <2>5. Digits(m)[i] = a % Base /\ Digits(n)[i] = b % Base
    BY <1>5, <1>8
  <2> HIDE DEF a, b, p
  <2>6. a = (Base * (a \div Base)) + (a % Base) /\ b = (Base * (b \div Base)) + (b % Base)
    BY <1>1, <2>2
  <2>7. a % Base \in Nat /\ b % Base \in Nat
    BY <1>1, <2>2
  <2> DEFINE c == Base * p
  <2>8. c \in Int /\ a = c + (a % Base) /\ b = c + (b % Base)
    <3>1. p \in Nat
      BY <1>1, <2>2, <2>4
    <3> QED
      BY <1>1, <2>4, <2>6, <3>1
  <2> HIDE DEF c
  <2>9. a % Base < b % Base
    BY <2>2, <2>7, <2>8
  <2> QED
    BY <2>5, <2>9
<1> QED
  BY <1>8, <1>9, <1>10

\* Sorting the names the other way round puts the chunks in the order of their counters.
THEOREM NamesInOrder ==
    ASSUME NEW a \in Counters, NEW b \in Counters
    PROVE  ReadBefore(a, b) <=> a < b
<1>1. MaxChunks \in Nat \ {0} /\ Width \in Nat
  BY NameAssumption, PowerFacts DEF MaxChunks
<1>2. ASSUME NEW x \in Counters, NEW y \in Counters, x < y PROVE ReadBefore(x, y)
  <2> DEFINE m == MaxChunks - 1 - y
             n == MaxChunks - 1 - x
  <2>1. m \in Nat /\ n \in Nat /\ m < n /\ n < MaxChunks
    BY <1>1, <1>2 DEF Counters
  <2>2. ChunkName[x] = Digits(n) /\ ChunkName[y] = Digits(m)
    BY DEF ChunkName
  <2> HIDE DEF m, n
  <2>3. PICK i \in 1..Width : /\ Digits(m)[i] < Digits(n)[i]
                              /\ \A j \in 1..(i - 1) : Digits(m)[j] = Digits(n)[j]
    BY <2>1, DigitsInOrder
  <2>4. Digits(m)[i] \in Int /\ Digits(n)[i] \in Int
    <3>1. Width - i \in 0..Width /\ Base \in Nat \ {0}
      BY <1>1, NameAssumption
    <3>2. Rest(m)[Width - i] \in Nat /\ Rest(n)[Width - i] \in Nat
      BY <2>1, <3>1, RestFacts
    <3> QED
      BY <3>1, <3>2 DEF Digits
  <2>5. Digits(n)[i] > Digits(m)[i]
    BY <2>3, <2>4
  <2> QED
    BY <2>2, <2>3, <2>5 DEF ReadBefore
<1>3. ASSUME ReadBefore(a, b), ~(a < b) PROVE FALSE
  <2>1. \A x \in Counters, i \in 1..Width : ChunkName[x][i] \in Int
    <3>1. ASSUME NEW x \in Counters, NEW i \in 1..Width PROVE ChunkName[x][i] \in Int
      <4> DEFINE n == MaxChunks - 1 - x
      <4>1. n \in Nat /\ Width - i \in 0..Width /\ Base \in Nat \ {0}
        BY <1>1, NameAssumption DEF Counters
      <4>2. ChunkName[x] = Digits(n)
        BY DEF ChunkName
      <4> HIDE DEF n
      <4>3. Rest(n)[Width - i] \in Nat
        BY <4>1, RestFacts
      <4> QED
        BY <4>1, <4>2, <4>3 DEF Digits
    <3> QED
      BY <3>1
  <2>2. PICK i \in 1..Width : /\ ChunkName[a][i] > ChunkName[b][i]
                              /\ \A j \in 1..i-1 : ChunkName[a][j] = ChunkName[b][j]
    BY <1>3 DEF ReadBefore
  <2>3. a # b
    BY <2>1, <2>2
  <2>4. ReadBefore(b, a)
    <3>1. b < a
      BY <1>1, <1>3, <2>3 DEF Counters
    <3> QED
      BY <1>2, <3>1
  <2>5. PICK k \in 1..Width : /\ ChunkName[b][k] > ChunkName[a][k]
                              /\ \A j \in 1..k-1 : ChunkName[b][j] = ChunkName[a][j]
    BY <2>4 DEF ReadBefore
  <2>6. ChunkName[a][i] \in Int /\ ChunkName[b][i] \in Int /\ ChunkName[a][k] \in Int /\ ChunkName[b][k] \in Int
    BY <2>1
  <2>7. CASE i = k
    BY <2>2, <2>5, <2>6, <2>7
  <2>8. CASE i < k
    BY <2>2, <2>5, <2>6, <2>8
  <2>9. CASE k < i
    BY <2>2, <2>5, <2>6, <2>9
  <2> QED
    BY <1>1, <2>7, <2>8, <2>9
<1> QED
  BY <1>2, <1>3

-------------------------------------------------------------------------------
(* Sizes and offsets. *)

\* Every line takes some room.
LEMMA SizeFacts == \A line \in Line : Size(line) \in Nat \ {0}
<1> TAKE line \in Line
<1>1. line.row # None => line.row \in Nat \ {0}
  BY SizeAssumption DEF Line
<1>2. CASE line.row = None
  BY <1>2 DEF Size
<1>3. CASE line.row # None
  BY <1>1, <1>3 DEF Size
<1> QED
  BY <1>2, <1>3

\* Where the lines of a chunk end.
LEMMA EndsFacts ==
    ASSUME NEW l \in Seq(Line)
    PROVE  /\ Ends(l) \in [0..Len(l) -> Nat] /\ Ends(l)[0] = Preamble
           /\ \A i \in 1..Len(l) : Ends(l)[i] = Ends(l)[i - 1] + Size(l[i])
<1> DEFINE S == Nat
           n == Len(l)
           size == [i \in Nat |-> IF i \in 1..n THEN Size(l[i]) ELSE 0]
           step == [i \in Nat |-> [x \in Nat |-> x + size[i]]]
<1>1. n \in Nat /\ Preamble \in Nat /\ \A i \in 1..n : Size(l[i]) \in Nat
  BY SizeAssumption, SizeFacts
<1>2. size \in [Nat -> Nat] /\ \A i \in 1..n : size[i] = Size(l[i])
  <2> HIDE DEF n
  <2> QED
    BY <1>1
<1> HIDE DEF n, size
<1>3. step \in [Nat -> [Nat -> Nat]]
  BY <1>2
<1>4. PICK f : f \in [0..n -> Nat] /\ f[0] = Preamble /\ \A i \in 1..n : f[i] = step[i][f[i - 1]]
  <2>1. Preamble \in S /\ n \in Nat /\ step \in [Nat -> [S -> S]]
    BY <1>1, <1>3
  <2> HIDE DEF S, step
  <2>2. PICK f : Follows(f, S, Preamble, step, n)
    BY <2>1, Recursion
  <2> QED
    BY <2>2 DEF S, Follows
<1>5. \A i \in 1..n : f[i] = f[i - 1] + Size(l[i])
  <2>1. \A i \in 1..n : i \in Nat /\ f[i - 1] \in Nat
    BY <1>1, <1>4
  <2> QED
    BY <1>2, <1>4, <2>1
<1>6. f = [i \in 0..n |-> IF i = 0 THEN Preamble ELSE f[i - 1] + Size(l[i])]
  BY <1>1, <1>4, <1>5
<1> DEFINE r == Ends(l)
<1>7. r = [i \in 0..n |-> IF i = 0 THEN Preamble ELSE r[i - 1] + Size(l[i])]
  BY <1>6 DEF Ends, n
<1> HIDE DEF r
<1>8. r[0] = Preamble /\ \A i \in 1..n : r[i] = r[i - 1] + Size(l[i])
  BY <1>1, <1>7
<1>9. r \in [0..n -> Nat]
  <2> DEFINE Same == {i \in 0..n : r[i] = f[i]}
  <2>1. 0 \in Same
    BY <1>1, <1>4, <1>8
  <2>2. ASSUME NEW i \in 0..n, i \in Same, i < n PROVE i + 1 \in Same
    <3>1. i + 1 \in 1..n /\ (i + 1) - 1 = i
      BY <1>1, <2>2
    <3>2. r[i + 1] = r[i] + Size(l[i + 1]) /\ f[i + 1] = f[i] + Size(l[i + 1])
      BY <1>5, <1>8, <3>1
    <3> QED
      BY <2>2, <3>1, <3>2
  <2>3. 0..n \subseteq Same
    <3> HIDE DEF Same
    <3> QED
      BY <1>1, <2>1, <2>2, UpwardsTo
  <2>4. \A i \in 0..n : r[i] \in Nat
    BY <1>4, <2>3
  <2>5. r = [i \in 0..n |-> r[i]]
    BY <1>7
  <2> QED
    BY <2>4, <2>5
<1> QED
  BY <1>8, <1>9 DEF r, n

\* The lines of a chunk stay where they are when others are added behind them.
LEMMA EndsOfPrefix ==
    ASSUME NEW l \in Seq(Line), NEW m \in Seq(Line)
    PROVE  \A i \in 0..Len(l) : Ends(l \o m)[i] = Ends(l)[i]
<1> DEFINE k == l \o m
           a == Ends(l)
           b == Ends(k)
           n == Len(l)
           Same == {i \in 0..n : b[i] = a[i]}
<1>1. k \in Seq(Line) /\ n \in Nat /\ Len(k) \in Nat /\ Len(k) >= n /\ \A i \in 1..n : k[i] = l[i]
  OBVIOUS
<1> HIDE DEF k
<1>2. /\ a[0] = Preamble /\ \A i \in 1..n : a[i] = a[i - 1] + Size(l[i])
      /\ b[0] = Preamble /\ \A i \in 1..Len(k) : b[i] = b[i - 1] + Size(k[i])
  BY <1>1, EndsFacts
<1> HIDE DEF a, b, n
<1>3. 0 \in Same
  BY <1>1, <1>2
<1>4. ASSUME NEW i \in 0..n, i \in Same, i < n PROVE i + 1 \in Same
  <2>1. i + 1 \in 1..n /\ i + 1 \in 1..Len(k) /\ (i + 1) - 1 = i
    BY <1>1, <1>4
  <2>2. a[i + 1] = a[i] + Size(l[i + 1]) /\ b[i + 1] = b[i] + Size(k[i + 1])
    BY <1>2, <2>1
  <2> QED
    BY <1>1, <1>4, <2>1, <2>2
<1>5. 0..n \subseteq Same
  <2> HIDE DEF Same
  <2> QED
    BY <1>1, <1>3, <1>4, UpwardsTo
<1> QED
  BY <1>5 DEF a, b, n, k

\* Added lines follow one another like in a chunk of their own.
LEMMA EndsOfAdded ==
    ASSUME NEW l \in Seq(Line), NEW m \in Seq(Line)
    PROVE  \A i \in 0..Len(m) :
             Ends(l \o m)[Len(l) + i] = (Ends(l)[Len(l)] + Ends(m)[i]) - Preamble
<1> DEFINE k == l \o m
           a == Ends(m)
           b == Ends(k)
           n == Len(l)
           e == Ends(l)[n]
           Same == {i \in 0..Len(m) : b[n + i] = (e + a[i]) - Preamble}
<1>1. /\ k \in Seq(Line) /\ n \in Nat /\ Len(m) \in Nat /\ Len(k) = n + Len(m)
      /\ \A i \in 1..Len(m) : k[n + i] = m[i]
  OBVIOUS
<1>2. b[n] = e
  BY EndsOfPrefix
<1> HIDE DEF k
<1>3. /\ a \in [0..Len(m) -> Nat] /\ a[0] = Preamble
      /\ \A i \in 1..Len(m) : a[i] = a[i - 1] + Size(m[i])
      /\ \A i \in 1..Len(k) : b[i] = b[i - 1] + Size(k[i])
  BY <1>1, EndsFacts
<1>4. e \in Nat /\ Preamble \in Nat /\ \A i \in 1..Len(m) : Size(m[i]) \in Nat
  <2>1. Ends(l) \in [0..Len(l) -> Nat] /\ Len(l) \in 0..Len(l)
    BY EndsFacts
  <2>2. \A i \in 1..Len(m) : m[i] \in Line
    OBVIOUS
  <2> QED
    BY <2>1, <2>2, SizeFacts, SizeAssumption
<1> HIDE DEF a, b, e, n
<1>5. 0 \in Same
  BY <1>1, <1>2, <1>3, <1>4
<1>6. ASSUME NEW i \in 0..Len(m), i \in Same, i < Len(m) PROVE i + 1 \in Same
  <2>1. /\ i + 1 \in 1..Len(m) /\ (i + 1) - 1 = i
        /\ n + (i + 1) \in 1..Len(k) /\ (n + (i + 1)) - 1 = n + i
    BY <1>1, <1>6
  <2>2. a[i + 1] = a[i] + Size(m[i + 1])
    BY <1>3, <2>1
  <2>3. b[n + (i + 1)] = b[n + i] + Size(k[n + (i + 1)])
    BY <1>3, <2>1
  <2>4. k[n + (i + 1)] = m[i + 1] /\ Size(m[i + 1]) \in Nat /\ a[i] \in Nat
    BY <1>1, <1>3, <1>4, <2>1
  <2> QED
    BY <1>4, <1>6, <2>1, <2>2, <2>3, <2>4
<1>7. 0..Len(m) \subseteq Same
  <2> HIDE DEF Same
  <2> QED
    BY <1>1, <1>5, <1>6, UpwardsTo
<1> QED
  BY <1>7 DEF a, b, e, n, k

-------------------------------------------------------------------------------
(* Chunks, their lines and the order of the lines. *)

Chunk == [readable : BOOLEAN, torn : BOOLEAN, lines : Seq(Line)]

\* The chunks of a table are the first n counters.
Chunked(f, n) == n \in 0..MaxChunks /\ f \in [0..(n - 1) -> Chunk]

\* There is at least one name.
LEMMA MaxChunksNat == MaxChunks \in Nat \ {0}
  BY NameAssumption, PowerFacts DEF MaxChunks

\* The chunks of a table.
LEMMA ChunkFacts ==
    ASSUME NEW f, NEW n, Chunked(f, n)
    PROVE  /\ n \in Nat /\ DOMAIN f = 0..(n - 1) /\ DOMAIN f \subseteq Counters
           /\ \A c \in DOMAIN f : f[c] \in Chunk /\ f[c].lines \in Seq(Line)
<1>1. n \in Nat /\ n <= MaxChunks /\ MaxChunks \in Nat
  BY MaxChunksNat DEF Chunked
<1>2. DOMAIN f = 0..(n - 1) /\ \A c \in DOMAIN f : f[c] \in Chunk
  BY DEF Chunked
<1>3. DOMAIN f \subseteq Counters
  BY <1>1, <1>2 DEF Counters
<1>4. \A c \in DOMAIN f : f[c].lines \in Seq(Line)
  BY <1>2 DEF Chunk
<1> QED
  BY <1>1, <1>2, <1>3, <1>4

\* The places of a table are those of the lines of its chunks.
LEMMA PlaceFacts ==
    ASSUME NEW f, NEW n, Chunked(f, n)
    PROVE  /\ \A c \in DOMAIN f : \A i \in 1..Len(f[c].lines) :
                /\ <<c, i>> \in Places(f) /\ LineAt(f, <<c, i>>) = f[c].lines[i]
           /\ \A p \in Places(f) :
                /\ p[1] \in DOMAIN f /\ p[1] \in Counters /\ p = <<p[1], p[2]>>
                /\ p[2] \in 1..Len(f[p[1]].lines) /\ LineAt(f, p) = f[p[1]].lines[p[2]]
                /\ LineAt(f, p) \in Line
<1>1. \A c \in DOMAIN f : f[c].lines \in Seq(Line) /\ DOMAIN f[c].lines = 1..Len(f[c].lines)
  BY ChunkFacts
<1>2. \A p : p \in Places(f) <=> \E c \in DOMAIN f : p \in {c} \X DOMAIN f[c].lines
  BY DEF Places
<1>3. ASSUME NEW c \in DOMAIN f, NEW i \in 1..Len(f[c].lines)
      PROVE  <<c, i>> \in Places(f) /\ LineAt(f, <<c, i>>) = f[c].lines[i]
  <2>1. <<c, i>> \in {c} \X DOMAIN f[c].lines
    BY <1>1
  <2> QED
    BY <1>2, <2>1 DEF LineAt
<1>4. ASSUME NEW p \in Places(f)
      PROVE  /\ p[1] \in DOMAIN f /\ p[1] \in Counters /\ p = <<p[1], p[2]>>
             /\ p[2] \in 1..Len(f[p[1]].lines) /\ LineAt(f, p) = f[p[1]].lines[p[2]]
             /\ LineAt(f, p) \in Line
  <2>1. PICK c \in DOMAIN f : p \in {c} \X DOMAIN f[c].lines
    BY <1>2
  <2>2. p = <<p[1], p[2]>> /\ p[1] = c /\ p[2] \in 1..Len(f[c].lines)
    BY <1>1, <2>1
  <2>3. c \in Counters
    BY ChunkFacts
  <2>4. LineAt(f, p) = f[p[1]].lines[p[2]]
    BY DEF LineAt
  <2>5. f[c].lines[p[2]] \in Line
    BY <1>1, <2>2
  <2> QED
    BY <2>2, <2>3, <2>4, <2>5
<1> QED
  BY <1>3, <1>4

\* Places are compared by counter and line number.
LEMMA EarlierIs ==
    ASSUME NEW p, NEW q, p[1] \in Counters, q[1] \in Counters
    PROVE  Earlier(p, q) <=> (p[1] < q[1] \/ (p[1] = q[1] /\ p[2] < q[2]))
  BY NamesInOrder DEF Earlier

\* g has the lines of f and, at the end of its last chunk c, the lines ls.
OldLines(f, c) == IF c \in DOMAIN f THEN f[c].lines ELSE <<>>

Grown(f, g, c, ls) ==
    /\ DOMAIN g = DOMAIN f \cup {c} /\ ls \in Seq(Line)
    /\ \A d \in DOMAIN f : d <= c
    /\ \A d \in DOMAIN f \ {c} : g[d].lines = f[d].lines
    /\ g[c].lines = OldLines(f, c) \o ls

\* Where line i of the added ones is.
At(f, c, i) == <<c, Len(OldLines(f, c)) + i>>

\* Old lines stay where they are, and added ones are behind all of them.
LEMMA GrownPlaces ==
    ASSUME NEW f, NEW n, Chunked(f, n), NEW g, NEW m, Chunked(g, m),
           NEW c, NEW ls, Grown(f, g, c, ls)
    PROVE  /\ \A p \in Places(f) : p \in Places(g) /\ LineAt(g, p) = LineAt(f, p)
           /\ \A i \in 1..Len(ls) : At(f, c, i) \in Places(g) /\ LineAt(g, At(f, c, i)) = ls[i]
           /\ \A q \in Places(g) : q \in Places(f) \/ \E i \in 1..Len(ls) : q = At(f, c, i)
           /\ \A p \in Places(f), i \in 1..Len(ls) :
                Earlier(p, At(f, c, i)) /\ ~Earlier(At(f, c, i), p) /\ p # At(f, c, i)
           /\ \A i, j \in 1..Len(ls) : Earlier(At(f, c, i), At(f, c, j)) <=> i < j
<1> DEFINE old == OldLines(f, c)
           k == Len(old)
           at(i) == <<c, k + i>>
<1>1. old \in Seq(Line) /\ k \in Nat
  <2>1. c \in DOMAIN f => old \in Seq(Line)
    BY ChunkFacts DEF OldLines
  <2>2. c \notin DOMAIN f => old \in Seq(Line)
    BY DEF OldLines
  <2> QED
    BY <2>1, <2>2
<1>2. ls \in Seq(Line) /\ Len(ls) \in Nat
  BY DEF Grown
<1>3. /\ g[c].lines = old \o ls /\ Len(g[c].lines) = k + Len(ls)
      /\ \A i \in 1..k : g[c].lines[i] = old[i]
      /\ \A i \in 1..Len(ls) : g[c].lines[k + i] = ls[i]
  <2>1. g[c].lines = old \o ls
    BY DEF Grown
  <2> HIDE DEF old
  <2> QED
    BY <1>1, <1>2, <2>1
<1>4. c \in DOMAIN g /\ c \in Counters /\ DOMAIN f \subseteq DOMAIN g
  BY ChunkFacts DEF Grown
<1>5. c \in DOMAIN f => old = f[c].lines
  BY DEF OldLines
<1>6. c \notin DOMAIN f => k = 0
  BY DEF OldLines
<1> HIDE DEF old, k
<1>7. ASSUME NEW p \in Places(f) PROVE p \in Places(g) /\ LineAt(g, p) = LineAt(f, p)
  <2>1. /\ p[1] \in DOMAIN f /\ p[1] \in DOMAIN g /\ p = <<p[1], p[2]>>
        /\ p[2] \in 1..Len(f[p[1]].lines) /\ LineAt(f, p) = f[p[1]].lines[p[2]]
    BY <1>4, PlaceFacts
  <2>2. CASE p[1] = c
    <3>1. p[2] \in 1..k /\ p[2] \in 1..Len(g[c].lines) /\ LineAt(f, p) = old[p[2]]
      BY <1>1, <1>2, <1>3, <1>5, <2>1, <2>2 DEF k
    <3>2. g[c].lines[p[2]] = old[p[2]]
      BY <1>3, <3>1
    <3> QED
      BY <2>1, <2>2, <3>1, <3>2, PlaceFacts
  <2>3. CASE p[1] # c
    <3>1. g[p[1]].lines = f[p[1]].lines
      BY <2>1, <2>3 DEF Grown
    <3> QED
      BY <2>1, <3>1, PlaceFacts
  <2> QED
    BY <2>2, <2>3
<1>8. ASSUME NEW i \in 1..Len(ls) PROVE at(i) \in Places(g) /\ LineAt(g, at(i)) = ls[i]
  <2>1. k + i \in 1..Len(g[c].lines)
    BY <1>1, <1>2, <1>3
  <2> QED
    BY <1>3, <1>4, <2>1, PlaceFacts
<1>9. ASSUME NEW q \in Places(g) PROVE q \in Places(f) \/ \E i \in 1..Len(ls) : q = at(i)
  <2>1. q[1] \in DOMAIN g /\ q = <<q[1], q[2]>> /\ q[2] \in 1..Len(g[q[1]].lines)
    BY PlaceFacts
  <2>2. CASE q[1] # c
    <3>1. q[1] \in DOMAIN f /\ g[q[1]].lines = f[q[1]].lines
      BY <2>1, <2>2 DEF Grown
    <3> QED
      BY <2>1, <3>1, PlaceFacts
  <2>3. CASE q[1] = c /\ q[2] <= k
    <3>1. c \in DOMAIN f /\ q[2] \in 1..k
      BY <1>1, <1>6, <2>1, <2>3
    <3>2. q[2] \in 1..Len(f[c].lines)
      BY <1>5, <3>1 DEF k
    <3> QED
      BY <2>1, <2>3, <3>1, <3>2, PlaceFacts
  <2>4. CASE q[1] = c /\ ~(q[2] <= k)
    <3> DEFINE i == q[2] - k
    <3>1. i \in 1..Len(ls) /\ k + i = q[2]
      BY <1>1, <1>2, <1>3, <2>1, <2>4
    <3> QED
      BY <2>1, <2>4, <3>1
  <2> QED
    BY <2>2, <2>3, <2>4
<1>10. ASSUME NEW p \in Places(f), NEW i \in 1..Len(ls)
       PROVE  Earlier(p, at(i)) /\ ~Earlier(at(i), p) /\ p # at(i)
  <2>1. /\ p[1] \in DOMAIN f /\ p[1] \in Counters /\ p[2] \in 1..Len(f[p[1]].lines)
    BY PlaceFacts
  <2>2. p[1] <= c
    BY <2>1 DEF Grown
  <2>3. p[1] = c => p[2] \in 1..k
    BY <1>5, <2>1 DEF k
  <2> DEFINE q == at(i)
  <2>4. q[1] = c /\ q[2] = k + i /\ k + i \in Nat
    BY <1>1, <1>2
  <2>5. p[1] \in Int /\ c \in Int /\ p[2] \in Nat
    <3>1. Len(f[p[1]].lines) \in Nat
      BY <2>1, ChunkFacts
    <3> QED
      BY <1>4, <2>1, <3>1 DEF Counters
  <2>6. p[1] < c \/ (p[1] = c /\ p[2] < k + i)
    BY <1>1, <1>2, <2>2, <2>3, <2>5
  <2> HIDE DEF q
  <2>7. /\ Earlier(p, q) <=> (p[1] < q[1] \/ (p[1] = q[1] /\ p[2] < q[2]))
        /\ Earlier(q, p) <=> (q[1] < p[1] \/ (q[1] = p[1] /\ q[2] < p[2]))
    BY <1>4, <2>1, <2>4, EarlierIs
  <2>8. Earlier(p, q) /\ ~Earlier(q, p)
    BY <2>4, <2>5, <2>6, <2>7
  <2>9. p # q
    BY <2>8
  <2> QED
    BY <2>8, <2>9 DEF q
<1>11. ASSUME NEW i \in 1..Len(ls), NEW j \in 1..Len(ls)
       PROVE  Earlier(at(i), at(j)) <=> i < j
  <2> DEFINE p == at(i)
             q == at(j)
  <2>1. p[1] = c /\ q[1] = c /\ p[2] = k + i /\ q[2] = k + j
    OBVIOUS
  <2> HIDE DEF p, q
  <2>2. Earlier(p, q) <=> (p[1] < q[1] \/ (p[1] = q[1] /\ p[2] < q[2]))
    BY <1>4, <2>1, EarlierIs
  <2>3. c \in Int /\ k \in Nat /\ i \in Int /\ j \in Int
    BY <1>1, <1>2, <1>4 DEF Counters
  <2>4. Earlier(p, q) <=> i < j
    BY <2>1, <2>2, <2>3
  <2> QED
    BY <2>4 DEF p, q
<1> QED
  BY <1>7, <1>8, <1>9, <1>10, <1>11 DEF old, k, At

\* An added line is the latest of its id.
LEMMA GrownLatest ==
    ASSUME NEW f, NEW n, Chunked(f, n), NEW g, NEW m, Chunked(g, m),
           NEW c, NEW ls, Grown(f, g, c, ls), NEW id
    PROVE  /\ \A i \in 1..Len(ls) :
                ls[i].id = id /\ (\A j \in 1..Len(ls) : ls[j].id = id => j = i)
                  => Latest(g, id) = {At(f, c, i)}
           /\ (\A j \in 1..Len(ls) : ls[j].id # id) => Latest(g, id) = Latest(f, id)
<1>1. /\ \A p \in Places(f) : p \in Places(g) /\ LineAt(g, p) = LineAt(f, p)
      /\ \A i \in 1..Len(ls) : At(f, c, i) \in Places(g) /\ LineAt(g, At(f, c, i)) = ls[i]
      /\ \A q \in Places(g) : q \in Places(f) \/ \E i \in 1..Len(ls) : q = At(f, c, i)
      /\ \A p \in Places(f), i \in 1..Len(ls) :
           Earlier(p, At(f, c, i)) /\ ~Earlier(At(f, c, i), p) /\ p # At(f, c, i)
      /\ \A i \in 1..Len(ls) : ~Earlier(At(f, c, i), At(f, c, i))
  <2>1. \A i \in 1..Len(ls) : ~(i < i)
    BY DEF Grown
  <2> QED
    BY <2>1, GrownPlaces
<1>2. ASSUME NEW i \in 1..Len(ls), ls[i].id = id, \A j \in 1..Len(ls) : ls[j].id = id => j = i
      PROVE  Latest(g, id) = {At(f, c, i)}
  <2>1. At(f, c, i) \in Latest(g, id)
    <3>1. ASSUME NEW q \in Places(g), LineAt(g, q).id = id PROVE ~Earlier(At(f, c, i), q)
      BY <1>1, <1>2, <3>1
    <3> QED
      BY <1>1, <1>2, <3>1 DEF Latest
  <2>2. ASSUME NEW q \in Latest(g, id) PROVE q = At(f, c, i)
    <3>1. q \in Places(g) /\ LineAt(g, q).id = id /\ ~Earlier(q, At(f, c, i))
      BY <1>1, <1>2 DEF Latest
    <3> QED
      BY <1>1, <1>2, <3>1
  <2> QED
    BY <2>1, <2>2
<1>3. ASSUME \A j \in 1..Len(ls) : ls[j].id # id PROVE Latest(g, id) = Latest(f, id)
  <2>1. ASSUME NEW q \in Places(g), LineAt(g, q).id = id PROVE q \in Places(f)
    BY <1>1, <1>3, <2>1
  <2>2. ASSUME NEW p \in Latest(g, id) PROVE p \in Latest(f, id)
    <3>1. /\ p \in Places(g) /\ LineAt(g, p).id = id
          /\ \A q \in Places(g) : LineAt(g, q).id = id => ~Earlier(p, q)
      BY DEF Latest
    <3>2. p \in Places(f) /\ LineAt(f, p).id = id
      BY <1>1, <2>1, <3>1
    <3>3. \A q \in Places(f) : LineAt(f, q).id = id => ~Earlier(p, q)
      BY <1>1, <3>1
    <3> QED
      BY <3>2, <3>3 DEF Latest
  <2>3. ASSUME NEW p \in Latest(f, id) PROVE p \in Latest(g, id)
    <3>1. /\ p \in Places(f) /\ LineAt(f, p).id = id
          /\ \A q \in Places(f) : LineAt(f, q).id = id => ~Earlier(p, q)
      BY DEF Latest
    <3>2. p \in Places(g) /\ LineAt(g, p).id = id
      BY <1>1, <3>1
    <3>3. \A q \in Places(g) : LineAt(g, q).id = id => ~Earlier(p, q)
      BY <1>1, <2>1, <3>1
    <3> QED
      BY <3>2, <3>3 DEF Latest
  <2> QED
    BY <2>2, <2>3
<1> QED
  BY <1>2, <1>3

\* The lines are in the order of their transactions.
InOrder(f) ==
    \A p, q \in Places(f) : Earlier(p, q) => LineAt(f, p).tx < LineAt(f, q).tx

\* The lines are those of the transactions up to `next', its predecessor among them.
HandedOut(f, next) ==
    /\ next \in Nat \ {0}
    /\ \A p \in Places(f) : LineAt(f, p).tx < next
    /\ next # 1 => \E p \in Places(f) : LineAt(f, p).tx = next - 1

\* The added lines are the latest transactions.
LEMMA GrownInOrder ==
    ASSUME NEW f, NEW n, Chunked(f, n), NEW g, NEW m, Chunked(g, m),
           NEW c, NEW ls, Grown(f, g, c, ls), InOrder(f),
           NEW next \in Nat \ {0}, \A p \in Places(f) : LineAt(f, p).tx < next,
           Len(ls) # 0 \/ HandedOut(f, next), \A i \in 1..Len(ls) : ls[i].tx = next + i - 1
    PROVE  InOrder(g) /\ HandedOut(g, next + Len(ls))
<1>1. /\ \A p \in Places(f) : p \in Places(g) /\ LineAt(g, p) = LineAt(f, p)
      /\ \A i \in 1..Len(ls) : At(f, c, i) \in Places(g) /\ LineAt(g, At(f, c, i)) = ls[i]
      /\ \A q \in Places(g) : q \in Places(f) \/ \E i \in 1..Len(ls) : q = At(f, c, i)
      /\ \A p \in Places(f), i \in 1..Len(ls) :
           Earlier(p, At(f, c, i)) /\ ~Earlier(At(f, c, i), p) /\ p # At(f, c, i)
      /\ \A i, j \in 1..Len(ls) : Earlier(At(f, c, i), At(f, c, j)) <=> i < j
  BY GrownPlaces
<1>2. next \in Nat \ {0} /\ \A p \in Places(f) : LineAt(f, p).tx < next
  OBVIOUS
<1>3. Len(ls) \in Nat
  BY DEF Grown
<1>4. \A p \in Places(f) : LineAt(f, p).tx \in Nat
  <2>1. \A p \in Places(f) : LineAt(f, p) \in Line
    BY PlaceFacts
  <2> QED
    BY <2>1 DEF Line
<1>5. ASSUME NEW p \in Places(g), NEW q \in Places(g), Earlier(p, q)
      PROVE  LineAt(g, p).tx < LineAt(g, q).tx
  <2>1. CASE p \in Places(f) /\ q \in Places(f)
    BY <1>1, <1>5, <2>1 DEF InOrder
  <2>2. CASE p \in Places(f) /\ q \notin Places(f)
    <3>1. PICK i \in 1..Len(ls) : q = At(f, c, i)
      BY <1>1, <2>2
    <3>2. LineAt(g, q).tx = next + i - 1 /\ i \in Nat \ {0}
      BY <1>1, <1>3, <3>1
    <3>3. LineAt(g, p).tx < next /\ LineAt(g, p).tx \in Nat
      BY <1>1, <1>2, <1>4, <2>2
    <3> QED
      BY <1>2, <3>2, <3>3
  <2>3. CASE p \notin Places(f)
    <3>1. PICK i \in 1..Len(ls) : p = At(f, c, i)
      BY <1>1, <2>3
    <3>2. q \notin Places(f)
      BY <1>1, <1>5, <3>1
    <3>3. PICK j \in 1..Len(ls) : q = At(f, c, j)
      BY <1>1, <3>2
    <3>4. i < j /\ LineAt(g, p).tx = next + i - 1 /\ LineAt(g, q).tx = next + j - 1
      BY <1>1, <1>5, <3>1, <3>3
    <3> QED
      BY <1>2, <1>3, <3>4
  <2> QED
    BY <2>1, <2>2, <2>3
<1>6. ASSUME NEW p \in Places(g) PROVE LineAt(g, p).tx < next + Len(ls)
  <2>1. CASE p \in Places(f)
    <3>1. LineAt(g, p).tx \in Nat /\ LineAt(g, p).tx < next
      BY <1>1, <1>2, <1>4, <2>1
    <3> QED
      BY <1>2, <1>3, <3>1
  <2>2. CASE p \notin Places(f)
    <3>1. PICK i \in 1..Len(ls) : p = At(f, c, i)
      BY <1>1, <2>2
    <3>2. LineAt(g, p).tx = next + i - 1
      BY <1>1, <3>1
    <3> QED
      BY <1>2, <1>3, <3>2
  <2> QED
    BY <2>1, <2>2
<1>7. ASSUME next + Len(ls) # 1
      PROVE  \E p \in Places(g) : LineAt(g, p).tx = (next + Len(ls)) - 1
  <2>1. CASE Len(ls) = 0
    <3>1. next # 1 /\ next + Len(ls) = next
      BY <1>2, <1>7, <2>1
    <3>2. PICK p \in Places(f) : LineAt(f, p).tx = next - 1
      BY <2>1, <3>1 DEF HandedOut
    <3> QED
      BY <1>1, <3>1, <3>2
  <2>2. CASE Len(ls) # 0
    <3> DEFINE k == Len(ls)
    <3>1. k \in 1..Len(ls)
      BY <1>3, <2>2
    <3>2. LineAt(g, At(f, c, k)) = ls[k] /\ At(f, c, k) \in Places(g)
      BY <1>1, <3>1
    <3>3. ls[k].tx = next + k - 1
      BY <3>1
    <3> HIDE DEF k
    <3>4. LineAt(g, At(f, c, k)).tx = (next + k) - 1
      BY <1>2, <1>3, <3>1, <3>2, <3>3
    <3> QED
      BY <3>2, <3>4 DEF k
  <2> QED
    BY <2>1, <2>2
<1>8. next + Len(ls) \in Nat \ {0}
  BY <1>2, <1>3
<1> QED
  BY <1>5, <1>6, <1>7, <1>8 DEF InOrder, HandedOut

\* The added lines change the rows they name and the pointers to them.
LEMMA GrownRows ==
    ASSUME NEW f, NEW n, Chunked(f, n), NEW g, NEW m, Chunked(g, m),
           NEW c, NEW ls, Grown(f, g, c, ls), NEW id \in Ids
    PROVE  /\ \A i \in 1..Len(ls) :
                ls[i].id = id /\ (\A j \in 1..Len(ls) : ls[j].id = id => j = i)
                  => /\ LiveRow(g, id) = ls[i].row
                     /\ Index(g)[id] = IF ls[i].row = None THEN None
                                       ELSE PointerTo(g, At(f, c, i))
           /\ (\A j \in 1..Len(ls) : ls[j].id # id)
                => LiveRow(g, id) = LiveRow(f, id) /\ Index(g)[id] = Index(f)[id]
<1>1. ASSUME NEW i \in 1..Len(ls), ls[i].id = id, \A j \in 1..Len(ls) : ls[j].id = id => j = i
      PROVE  /\ LiveRow(g, id) = ls[i].row
             /\ Index(g)[id] = IF ls[i].row = None THEN None ELSE PointerTo(g, At(f, c, i))
  <2> DEFINE at == At(f, c, i)
  <2>1. Latest(g, id) = {at} /\ LineAt(g, at) = ls[i]
    BY <1>1, GrownLatest, GrownPlaces
  <2> HIDE DEF at
  <2>2. LatestPlace(g, id) = at /\ Latest(g, id) # {}
    BY <2>1 DEF LatestPlace
  <2>3. LiveRow(g, id) = ls[i].row
    BY <2>1, <2>2 DEF LiveRow
  <2>4. Index(g)[id] = IF LiveRow(g, id) = None THEN None ELSE PointerTo(g, at)
    BY <2>2 DEF Index
  <2> QED
    BY <2>3, <2>4 DEF at
<1>2. ASSUME \A j \in 1..Len(ls) : ls[j].id # id
      PROVE  LiveRow(g, id) = LiveRow(f, id) /\ Index(g)[id] = Index(f)[id]
  <2> DEFINE p == LatestPlace(f, id)
  <2>1. Latest(g, id) = Latest(f, id)
    BY <1>2, GrownLatest
  <2>2. p = LatestPlace(g, id)
    BY <2>1 DEF LatestPlace
  <2>3. Latest(f, id) # {} => p \in Latest(f, id)
    BY DEF LatestPlace
  <2>4. p = LatestPlace(f, id)
    OBVIOUS
  <2> HIDE DEF p
  <2>5. ASSUME Latest(f, id) # {}
        PROVE  LineAt(g, p) = LineAt(f, p) /\ PointerTo(g, p) = PointerTo(f, p)
    <3>1. p \in Places(f)
      BY <2>3, <2>5 DEF Latest
    <3>2. p \in Places(g) /\ LineAt(g, p) = LineAt(f, p)
      BY <3>1, GrownPlaces
    <3>3. p[1] \in DOMAIN f /\ p[2] \in 1..Len(f[p[1]].lines)
      BY <3>1, PlaceFacts
    <3> DEFINE l == f[p[1]].lines
    <3>4. l \in Seq(Line) /\ p[2] - 1 \in 0..Len(l)
      <4>1. l \in Seq(Line)
        BY <3>3, ChunkFacts
      <4>2. Len(l) \in Nat
        BY <4>1
      <4> QED
        BY <3>3, <4>1, <4>2
    <3>5. Offset(g[p[1]].lines, p[2]) = Offset(l, p[2])
      <4>1. CASE p[1] = c
        <5>1. ls \in Seq(Line) /\ g[p[1]].lines = l \o ls
          BY <3>3, <4>1 DEF Grown, OldLines
        <5> HIDE DEF l
        <5> QED
          BY <3>4, <5>1, EndsOfPrefix DEF Offset
      <4>2. CASE p[1] # c
        BY <3>3, <4>2 DEF Grown
      <4> QED
        BY <4>1, <4>2
    <3> QED
      BY <3>2, <3>5 DEF PointerTo
  <2>6. LiveRow(g, id) = IF Latest(f, id) = {} THEN None ELSE LineAt(g, p).row
    BY <2>1, <2>2 DEF LiveRow
  <2>7. LiveRow(f, id) = IF Latest(f, id) = {} THEN None ELSE LineAt(f, p).row
    BY <2>4 DEF LiveRow
  <2>8. LiveRow(g, id) = LiveRow(f, id)
    BY <2>5, <2>6, <2>7
  <2>9. LiveRow(f, id) # None => Latest(f, id) # {}
    BY <2>7
  <2>10. /\ Index(g)[id] = IF LiveRow(g, id) = None THEN None ELSE PointerTo(g, p)
         /\ Index(f)[id] = IF LiveRow(f, id) = None THEN None ELSE PointerTo(f, p)
    BY <2>2, <2>4 DEF Index
  <2> QED
    BY <2>5, <2>8, <2>9, <2>10
<1> QED
  BY <1>1, <1>2

\* Where the added lines are: behind the old end.
LEMMA GrownPointers ==
    ASSUME NEW f, NEW n, Chunked(f, n), NEW g, NEW m, Chunked(g, m),
           NEW c, NEW ls, Grown(f, g, c, ls), NEW i \in 1..Len(ls)
    PROVE  PointerTo(g, At(f, c, i)) =
             [chunk |-> c, len |-> Size(ls[i]),
              offset |-> Offset(OldLines(f, c), Len(OldLines(f, c)) + 1)
                           + Offset(ls, i) - Preamble]
<1> DEFINE old == OldLines(f, c)
           k == Len(old)
           at == At(f, c, i)
<1>1. old \in Seq(Line) /\ ls \in Seq(Line) /\ g[c].lines = old \o ls
  <2>1. c \in DOMAIN f => old \in Seq(Line)
    BY ChunkFacts DEF OldLines
  <2>2. c \notin DOMAIN f => old \in Seq(Line)
    BY DEF OldLines
  <2> QED
    BY <2>1, <2>2 DEF Grown
<1>2. LineAt(g, at) = ls[i] /\ at[1] = c /\ at[2] = k + i
  <2>1. LineAt(g, at) = ls[i]
    BY GrownPlaces
  <2> QED
    BY <2>1 DEF At
<1> HIDE DEF old, at
<1>3. k \in Nat /\ Len(ls) \in Nat /\ i - 1 \in 0..Len(ls)
  BY <1>1
<1>4. Ends(old)[k] \in Int /\ Ends(ls)[i - 1] \in Int /\ Preamble \in Int
  <2>1. Ends(old)[k] \in Nat
    BY <1>1, <1>3, EndsFacts
  <2>2. Ends(ls)[i - 1] \in Nat
    BY <1>1, <1>3, EndsFacts
  <2> QED
    BY <2>1, <2>2, SizeAssumption
<1>5. Ends(old \o ls)[k + (i - 1)] = (Ends(old)[k] + Ends(ls)[i - 1]) - Preamble
  BY <1>1, <1>3, EndsOfAdded
<1>6. (k + i) - 1 = k + (i - 1) /\ (k + 1) - 1 = k
  BY <1>3
<1>7. Offset(g[c].lines, k + i) = Offset(old, k + 1) + Offset(ls, i) - Preamble
  BY <1>1, <1>4, <1>5, <1>6 DEF Offset
<1> QED
  BY <1>2, <1>7 DEF PointerTo, old, at

\* A live row is that of a line.
LEMMA LiveRowFacts ==
    ASSUME NEW f, NEW n, Chunked(f, n), NEW id \in Ids
    PROVE  /\ LiveRow(f, id) \in Rows \cup {None}
           /\ LiveRow(f, id) # None =>
                LET p == LatestPlace(f, id)
                IN  p \in Places(f) /\ LineAt(f, p).id = id /\ LineAt(f, p).row = LiveRow(f, id)
<1> DEFINE p == LatestPlace(f, id)
<1>1. CASE Latest(f, id) = {}
  BY <1>1 DEF LiveRow
<1>2. CASE Latest(f, id) # {}
  <2>1. p \in Latest(f, id)
    BY <1>2 DEF LatestPlace
  <2> HIDE DEF p
  <2>2. p \in Places(f) /\ LineAt(f, p).id = id
    BY <2>1 DEF Latest
  <2>3. LineAt(f, p) \in Line
    BY <2>2, PlaceFacts
  <2>4. LineAt(f, p).row \in Rows \cup {None}
    BY <2>3 DEF Line
  <2>5. LiveRow(f, id) = LineAt(f, p).row
    BY <1>2 DEF LiveRow, p
  <2> QED
    BY <2>2, <2>4, <2>5 DEF p
<1> QED
  BY <1>1, <1>2

\* What only the lines of the chunks decide.
LEMMA SameLines ==
    ASSUME NEW f, NEW n, Chunked(f, n), NEW g, Chunked(g, n),
           \A c \in DOMAIN f : g[c].lines = f[c].lines
    PROVE  /\ Places(g) = Places(f) /\ \A p \in Places(f) : LineAt(g, p) = LineAt(f, p)
           /\ \A id \in Ids : LiveRow(g, id) = LiveRow(f, id)
           /\ InOrder(f) => InOrder(g)
           /\ \A next : HandedOut(f, next) => HandedOut(g, next)
<1>1. DOMAIN g = DOMAIN f
  BY DEF Chunked
<1>2. \A p \in Places(f) : p \in Places(g) /\ LineAt(g, p) = LineAt(f, p)
  <2> TAKE p \in Places(f)
  <2>1. /\ p[1] \in DOMAIN f /\ p = <<p[1], p[2]>> /\ p[2] \in 1..Len(f[p[1]].lines)
        /\ LineAt(f, p) = f[p[1]].lines[p[2]]
    BY PlaceFacts
  <2> QED
    BY <1>1, <2>1, PlaceFacts
<1>3. \A p \in Places(g) : p \in Places(f)
  <2> TAKE p \in Places(g)
  <2>1. p[1] \in DOMAIN g /\ p = <<p[1], p[2]>> /\ p[2] \in 1..Len(g[p[1]].lines)
    BY PlaceFacts
  <2> QED
    BY <1>1, <2>1, PlaceFacts
<1>4. Places(g) = Places(f)
  BY <1>2, <1>3
<1>5. ASSUME NEW id \in Ids PROVE LiveRow(g, id) = LiveRow(f, id)
  <2>1. Latest(g, id) = Latest(f, id)
    <3>1. ASSUME NEW p PROVE p \in Latest(g, id) <=> p \in Latest(f, id)
      BY <1>2, <1>4 DEF Latest
    <3> QED
      BY <3>1
  <2>2. LatestPlace(g, id) = LatestPlace(f, id)
    BY <2>1 DEF LatestPlace
  <2>3. CASE Latest(f, id) = {}
    BY <2>1, <2>3 DEF LiveRow
  <2>4. CASE Latest(f, id) # {}
    <3>1. LatestPlace(f, id) \in Places(f)
      BY <2>4 DEF LatestPlace, Latest
    <3> QED
      BY <1>2, <2>1, <2>2, <3>1 DEF LiveRow
  <2> QED
    BY <2>3, <2>4
<1>6. InOrder(f) => InOrder(g)
  BY <1>2, <1>4 DEF InOrder
<1>7. \A next : HandedOut(f, next) => HandedOut(g, next)
  BY <1>2, <1>4 DEF HandedOut
<1> QED
  BY <1>2, <1>4, <1>5, <1>6, <1>7

\* The newest chunk has the largest counter.
LEMMA LastChunkIs ==
    ASSUME NEW f, NEW n, Chunked(f, n), n # 0
    PROVE  n - 1 \in DOMAIN f /\ IsLastChunk(f, n - 1)
<1> DEFINE c == n - 1
<1>1. n \in Nat /\ DOMAIN f = 0..c /\ DOMAIN f \subseteq Counters
  BY ChunkFacts
<1>2. c \in DOMAIN f /\ c \in Counters /\ c \in Int
  BY <1>1
<1> HIDE DEF c
<1>3. ASSUME NEW d \in DOMAIN f PROVE ~ReadBefore(c, d)
  <2>1. d \in Counters /\ d \in Int /\ ~(c < d)
    BY <1>1, <1>2
  <2> QED
    BY <1>2, <2>1, NamesInOrder
<1> QED
  BY <1>2, <1>3 DEF IsLastChunk, c

-------------------------------------------------------------------------------
(* The inductive invariant. *)

\* What a handle caches is what the chunks hold.
CacheOk(m, f, n) ==
    /\ m = [next |-> m.next, len |-> m.len, bytes |-> m.bytes, index |-> m.index]
    /\ m.next \in {None, n}
    /\ \A c \in DOMAIN m.len : c \in DOMAIN f /\ m.len[c] = Length(f[c])
    /\ \A c \in DOMAIN m.bytes : c \in DOMAIN f /\ m.bytes[c] = f[c].lines
    /\ m.index # None => m.index = Index(f)

FilesInv(n) ==
    /\ Chunked(files, n)
    /\ metaChunk \in {None} \cup 0..n
    /\ InOrder(files)
    /\ HandedOut(files, nextTx)

\* A clean revision names the chunks; no handle observed a later one.
RevisionInv ==
    /\ observed \in [Handles -> Nat \cup {None, Dirty}]
    /\ revision \in {nextTx, Dirty} \/ (revision = 0 /\ nextTx = 1)
    /\ \A h \in Handles : observed[h] \in Nat =>
         observed[h] <= IF revision = Dirty THEN nextTx ELSE revision

CachesInv(n) ==
    /\ DOMAIN cache = Handles
    /\ \A h \in Handles : observed[h] = None => cache[h] = NoCache
    /\ \A h \in Handles : Coherent(h) => CacheOk(cache[h], files, n)

Inv == ~lapsed => \E n \in 0..MaxChunks : FilesInv(n) /\ RevisionInv /\ CachesInv(n)

\* Empty caches contradict nothing.
LEMMA NoCacheOk == ASSUME NEW f, NEW n PROVE CacheOk(NoCache, f, n)
  BY DEF CacheOk, NoCache, Nothing

\* On a clean workspace a refreshed cache is what the chunks hold.
LEMMA RefreshedOk ==
    ASSUME NEW n, CachesInv(n), NEW h \in Handles, revision # Dirty
    PROVE  CacheOk(Refreshed(h), files, n)
<1>1. CASE observed[h] \notin {revision, None}
  BY <1>1, NoCacheOk DEF Refreshed
<1>2. CASE observed[h] = None
  BY <1>2, NoCacheOk DEF Refreshed, CachesInv
<1>3. CASE observed[h] = revision
  BY <1>3 DEF Refreshed, CachesInv, Coherent
<1> QED
  BY <1>1, <1>2, <1>3

\* Recovery and the checks before a write keep the lines and leave no torn tail.
LEMMA PreparedFacts ==
    ASSUME NEW n, FilesInv(n)
    PROVE  /\ Chunked(PreparedFiles, n)
           /\ \A c \in DOMAIN files : PreparedFiles[c].lines = files[c].lines
           /\ revision # Dirty => PreparedFiles = files
           /\ MayWrite /\ n # 0 => ~PreparedFiles[n - 1].torn
<1>1. Chunked(files, n)
  BY DEF FilesInv
<1>2. DOMAIN files = 0..(n - 1) /\ \A c \in DOMAIN files : files[c] \in Chunk
  BY <1>1, ChunkFacts
<1>3. n # 0 => n - 1 \in DOMAIN files /\ IsLastChunk(files, n - 1)
  BY <1>1, LastChunkIs
<1>4. CASE revision # Dirty
  <2>1. PreparedFiles = files
    BY <1>4 DEF PreparedFiles
  <2>2. MayWrite /\ n # 0 => ~files[n - 1].torn
    BY <1>3, <1>4 DEF MayWrite, TornTail
  <2> QED
    BY <1>1, <2>1, <2>2, <1>4
<1>5. CASE revision = Dirty
  <2> DEFINE P == PreparedFiles
             cut(c) == [files[c] EXCEPT !.torn = FALSE]
  <2>1. P = [c \in DOMAIN files |-> IF IsLastChunk(files, c) THEN cut(c) ELSE files[c]]
    BY <1>5 DEF PreparedFiles, CutTail
  <2>2. \A c \in DOMAIN files : cut(c) \in Chunk /\ cut(c).lines = files[c].lines /\ ~cut(c).torn
    BY <1>2 DEF Chunk
  <2> HIDE DEF P, cut
  <2>3. /\ \A c \in DOMAIN files : P[c] \in Chunk /\ P[c].lines = files[c].lines
        /\ DOMAIN P = DOMAIN files
    BY <1>2, <2>1, <2>2
  <2>4. n # 0 => ~P[n - 1].torn
    BY <1>3, <2>1, <2>2
  <2>5. P \in [0..(n - 1) -> Chunk]
    <3>1. P = [c \in DOMAIN files |-> P[c]]
      BY <2>1
    <3> QED
      BY <1>2, <2>3, <3>1
  <2>6. Chunked(P, n)
    BY <1>1, <2>5 DEF Chunked
  <2> QED
    BY <1>5, <2>3, <2>4, <2>6 DEF P
<1> QED
  BY <1>4, <1>5

\* A writer's caches are what the repaired chunks hold.
LEMMA PreparedCacheOk ==
    ASSUME NEW n, FilesInv(n), CachesInv(n), NEW h \in Handles
    PROVE  CacheOk(PreparedCache(h), PreparedFiles, n)
<1>1. CASE revision = Dirty
  BY <1>1, NoCacheOk DEF PreparedCache
<1>2. CASE revision # Dirty
  BY <1>2, PreparedFacts, RefreshedOk DEF PreparedCache
<1> QED
  BY <1>1, <1>2

\* Cache, metadata and directory agree on the next counter.
LEMMA NextChunkIs ==
    ASSUME NEW n, FilesInv(n), NEW m, NEW f, CacheOk(m, f, n)
    PROVE  NextChunk(m) = n
<1>1. n \in Nat /\ DOMAIN files = 0..(n - 1)
  BY ChunkFacts DEF FilesInv
<1>2. Cardinality(DOMAIN files) = n
  <2> DEFINE a == 0
             b == n - 1
  <2>1. a \in Int /\ b \in Int
    BY <1>1
  <2>2. IF a > b THEN n = 0 ELSE (b - a) + 1 = n
    BY <1>1
  <2> HIDE DEF a, b
  <2>3. Cardinality(a..b) = IF a > b THEN 0 ELSE (b - a) + 1
    BY <2>1, FS_Interval
  <2> QED
    BY <1>1, <2>2, <2>3 DEF a, b
<1>3. m.next = None \/ m.next = n
  BY DEF CacheOk
<1>4. metaChunk = None \/ ~(metaChunk > n)
  <2>1. metaChunk # None => metaChunk \in 0..n
    BY DEF FilesInv
  <2> QED
    BY <1>1, <2>1
<1>5. n # None
  BY <1>1, SentinelAssumption
<1> QED
  BY <1>2, <1>3, <1>4, <1>5 DEF NextChunk

-------------------------------------------------------------------------------
(* An append. *)

\* The target of an append is the end of the last chunk or a new one behind it.
IsTarget(t, n) ==
    /\ t.chunk = t.next - 1
    /\ t.offset = Offset(OldLines(PreparedFiles, t.chunk),
                         Len(OldLines(PreparedFiles, t.chunk)) + 1)
    /\ \/ t.isNew /\ t.chunk = n /\ t.next = n + 1 /\ n < MaxChunks
       \/ ~t.isNew /\ t.next = n /\ n # 0 /\ ~PreparedFiles[t.chunk].torn

\* Whatever a writer has cached, it appends at the end of the last chunk or to a new one.
LEMMA TargetFacts ==
    ASSUME NEW n, FilesInv(n), CachesInv(n), NEW h \in Handles, NEW size,
           MayWrite, Available(AppendTarget(PreparedCache(h), size))
    PROVE  IsTarget(AppendTarget(PreparedCache(h), size), n)
<1> DEFINE m == PreparedCache(h)
           P == PreparedFiles
           t == AppendTarget(m, size)
           c == n - 1
<1>1. /\ Chunked(P, n) /\ n \in Nat /\ DOMAIN P = 0..c
      /\ n # 0 => c \in DOMAIN P /\ P[c].lines \in Seq(Line) /\ ~P[c].torn
  <2>1. Chunked(P, n) /\ (n # 0 => ~P[c].torn)
    BY PreparedFacts
  <2> HIDE DEF P
  <2>2. n \in Nat /\ DOMAIN P = 0..c
    BY <2>1, ChunkFacts
  <2>3. n # 0 => c \in DOMAIN P /\ P[c].lines \in Seq(Line)
    BY <2>1, ChunkFacts, LastChunkIs
  <2> QED
    BY <2>1, <2>2, <2>3
<1>2. CacheOk(m, P, n) /\ NextChunk(m) = n
  BY PreparedCacheOk, NextChunkIs
<1>3. n # 0 => CachedLength(m, c) = Offset(P[c].lines, Len(P[c].lines) + 1)
  <2>1. CachedLength(m, c) = Length(P[c])
    BY <1>2 DEF CacheOk, CachedLength
  <2> DEFINE l == P[c].lines
  <2>2. ASSUME n # 0 PROVE Length(P[c]) = Offset(l, Len(l) + 1)
    <3>1. l \in Seq(Line) /\ ~P[c].torn
      BY <1>1, <2>2
    <3>2. Length(P[c]) = Offset(l, Len(l) + 1) + 0
      BY <3>1 DEF Length
    <3> HIDE DEF l
    <3>3. Len(l) \in Nat /\ (Len(l) + 1) - 1 = Len(l) /\ Len(l) \in 0..Len(l)
      BY <3>1
    <3>4. Offset(l, Len(l) + 1) \in Nat
      BY <3>1, <3>3, EndsFacts DEF Offset
    <3> QED
      BY <3>2, <3>4
  <2> QED
    BY <2>1, <2>2
<1>4. t = IF c \in DOMAIN P /\ CachedLength(m, c) + size <= Capacity
          THEN [chunk |-> c, offset |-> CachedLength(m, c), next |-> n, isNew |-> FALSE]
          ELSE [chunk |-> n, offset |-> Preamble, next |-> n + 1, isNew |-> TRUE]
  BY <1>2 DEF AppendTarget
<1>5. t.isNew => t.chunk \in Counters
  BY DEF Available
<1> HIDE DEF m, P, t
<1>6. CASE c \in DOMAIN P /\ CachedLength(m, c) + size <= Capacity
  <2>1. n # 0
    BY <1>1, <1>6
  <2>2. t = [chunk |-> c, offset |-> CachedLength(m, c), next |-> n, isNew |-> FALSE]
    BY <1>4, <1>6
  <2>3. OldLines(P, c) = P[c].lines
    BY <1>6 DEF OldLines
  <2>4. t.offset = Offset(OldLines(P, c), Len(OldLines(P, c)) + 1)
    BY <1>3, <2>1, <2>2, <2>3
  <2>5. t.chunk = c /\ t.next = n /\ t.isNew = FALSE /\ ~P[c].torn
    BY <1>1, <2>1, <2>2
  <2> QED
    BY <2>1, <2>4, <2>5 DEF IsTarget, P, t, m
<1>7. CASE ~(c \in DOMAIN P /\ CachedLength(m, c) + size <= Capacity)
  <2>1. t = [chunk |-> n, offset |-> Preamble, next |-> n + 1, isNew |-> TRUE]
    BY <1>4, <1>7
  <2>2. n < MaxChunks
    BY <1>1, <1>5, <2>1, MaxChunksNat DEF Counters
  <2>3. OldLines(P, n) = <<>>
    BY <1>1 DEF OldLines
  <2>4. Offset(<<>>, Len(<<>>) + 1) = Preamble
    <3> DEFINE l == <<>>
    <3>1. l \in Seq(Line) /\ Len(l) = 0 /\ (Len(l) + 1) - 1 = 0
      OBVIOUS
    <3> HIDE DEF l
    <3>2. Offset(l, Len(l) + 1) = Preamble
      BY <3>1, EndsFacts DEF Offset
    <3> QED
      BY <3>2 DEF l
  <2>5. t.chunk = n /\ t.next = n + 1 /\ t.isNew = TRUE /\ t.offset = Preamble
    BY <2>1
  <2>6. n = (n + 1) - 1
    BY <1>1
  <2> QED
    BY <2>2, <2>3, <2>4, <2>5, <2>6 DEF IsTarget, P, t, m
<1> QED
  BY <1>6, <1>7

\* Its parts make a chunk.
LEMMA ChunkRecord ==
    ASSUME NEW r \in BOOLEAN, NEW s \in BOOLEAN, NEW l \in Seq(Line)
    PROVE  [readable |-> r, torn |-> s, lines |-> l] \in Chunk
  BY DEF Chunk

\* An append makes its chunk grow and leaves the others.
LEMMA AppendedFacts ==
    ASSUME NEW n, FilesInv(n), NEW t, IsTarget(t, n), NEW ls \in Seq(Line), NEW torn \in BOOLEAN
    PROVE  /\ Chunked(Appended(t, ls, torn), t.next) /\ t.next \in n..MaxChunks
           /\ Grown(PreparedFiles, Appended(t, ls, torn), t.chunk, ls)
           /\ Grown(files, Appended(t, ls, torn), t.chunk, ls)
           /\ OldLines(files, t.chunk) = OldLines(PreparedFiles, t.chunk)
           /\ \A d \in DOMAIN PreparedFiles \ {t.chunk} :
                Appended(t, ls, torn)[d] = PreparedFiles[d]
           /\ Appended(t, ls, torn)[t.chunk].torn = torn
           /\ t.isNew => OldLines(PreparedFiles, t.chunk) = <<>>
<1> DEFINE P == PreparedFiles
           c == t.chunk
           old == OldLines(P, c)
           g == Appended(t, ls, torn)
           last == g[c]
<1>1. /\ Chunked(P, n) /\ Chunked(files, n) /\ DOMAIN P = DOMAIN files
      /\ \A d \in DOMAIN files : P[d].lines = files[d].lines
  <2>1. Chunked(P, n) /\ Chunked(files, n) /\ \A d \in DOMAIN files : P[d].lines = files[d].lines
    BY PreparedFacts DEF FilesInv
  <2> QED
    BY <2>1 DEF Chunked
<1>2. n \in Nat /\ DOMAIN P = 0..(n - 1) /\ \A d \in DOMAIN P : P[d] \in Chunk /\ P[d].lines \in Seq(Line)
  BY <1>1, ChunkFacts
<1>3. /\ c = t.next - 1
      /\ (t.isNew /\ c = n /\ t.next = n + 1 /\ n < MaxChunks) \/ (~t.isNew /\ t.next = n /\ n # 0 /\ ~P[c].torn)
  BY DEF IsTarget
<1>4. /\ t.isNew => c \notin DOMAIN P /\ old = <<>>
      /\ ~t.isNew => c \in DOMAIN P /\ old = P[c].lines
  BY <1>2, <1>3 DEF OldLines
<1>5. /\ DOMAIN g = DOMAIN P \cup {c} /\ g = [d \in DOMAIN g |-> g[d]]
      /\ \A d \in DOMAIN P \ {c} : g[d] = P[d]
      /\ t.isNew => last = [readable |-> TRUE, torn |-> torn, lines |-> ls]
      /\ ~t.isNew => last = [readable |-> P[c].readable /\ ~P[c].torn, torn |-> torn,
                             lines |-> P[c].lines \o ls]
  BY DEF Appended, With
<1> HIDE DEF P, g, old
<1>6. last \in Chunk /\ last.lines = old \o ls /\ last.torn = torn
  <2>1. CASE t.isNew
    <3>1. old = <<>> /\ <<>> \o ls = ls
      BY <1>4, <2>1
    <3> HIDE DEF last
    <3>2. last \in Chunk
      BY <1>5, <2>1, ChunkRecord
    <3> QED
      BY <1>5, <2>1, <3>1, <3>2
  <2>2. CASE ~t.isNew
    <3>1. P[c].lines \in Seq(Line) /\ P[c] \in Chunk /\ old = P[c].lines
      BY <1>2, <1>4, <2>2
    <3>3. P[c].lines \o ls \in Seq(Line)
      BY <3>1
    <3>4. (P[c].readable /\ ~P[c].torn) \in BOOLEAN
      OBVIOUS
    <3> HIDE DEF last
    <3>5. last \in Chunk
      BY <1>5, <2>2, <3>3, <3>4, ChunkRecord
    <3> QED
      BY <1>5, <2>2, <3>1, <3>5
  <2> QED
    BY <2>1, <2>2
<1>7. t.next \in n..MaxChunks /\ DOMAIN g = 0..(t.next - 1) /\ \A d \in DOMAIN P : d <= c
  <2>1. n \in 0..MaxChunks /\ MaxChunks \in Nat
    BY <1>1, MaxChunksNat DEF Chunked
  <2>2. CASE t.isNew
    <3>1. c = n /\ n < MaxChunks
      BY <1>3, <2>2
    <3>2. t.next = n + 1
      BY <1>3, <2>2
    <3> QED
      BY <1>2, <1>5, <2>1, <3>1, <3>2
  <2>3. CASE ~t.isNew
    BY <1>2, <1>3, <1>5, <2>1, <2>3
  <2> QED
    BY <2>2, <2>3
<1>8. Chunked(g, t.next)
  <2>1. \A d \in DOMAIN g : g[d] \in Chunk
    BY <1>2, <1>5, <1>6
  <2>2. g \in [0..(t.next - 1) -> Chunk]
    BY <1>5, <1>7, <2>1
  <2>3. t.next \in 0..MaxChunks
    BY <1>2, <1>7
  <2> QED
    BY <2>2, <2>3 DEF Chunked
<1>9. OldLines(files, c) = old
  BY <1>1 DEF OldLines, old
<1>10. Grown(P, g, c, ls)
  BY <1>5, <1>6, <1>7 DEF Grown, old
<1>11. Grown(files, g, c, ls)
  BY <1>1, <1>5, <1>6, <1>7, <1>9 DEF Grown
<1> QED
  BY <1>4, <1>5, <1>6, <1>7, <1>8, <1>9, <1>10, <1>11 DEF P, g, old

\* The lines of a batch.
LEMMA StampedFacts ==
    ASSUME NEW b \in Batches, nextTx \in Nat \ {0}
    PROVE  /\ Stamped(b) \in Seq(Line) /\ Len(b) \in Nat \ {0} /\ Len(Stamped(b)) = Len(b)
           /\ \A i \in 1..Len(b) : Stamped(b)[i].tx = nextTx + i - 1
           /\ \A i, j \in 1..Len(b) : Stamped(b)[i].id = Stamped(b)[j].id => i = j
<1>1. PICK n \in 1..MaxBatch : b \in [1..n -> Change]
  BY DEF Batches
<1>2. n \in Nat \ {0} /\ b \in Seq(Change) /\ Len(b) = n /\ DOMAIN b = 1..n
  <2>1. n \in Nat \ {0}
    BY BoundAssumption
  <2> QED
    BY <1>1, <2>1
<1>3. \A i, j \in 1..n : i # j => b[i].id # b[j].id
  BY <1>2 DEF Batches
<1>4. ASSUME NEW i \in 1..n PROVE [tx |-> nextTx + i - 1, id |-> b[i].id, row |-> b[i].row] \in Line
  <2>1. b[i] \in Change
    BY <1>1
  <2>2. b[i].id \in Ids /\ b[i].row \in Rows \cup {None}
    BY <2>1 DEF Change
  <2>3. nextTx + i - 1 \in Nat \ {0}
    BY <1>2
  <2> QED
    BY <2>2, <2>3 DEF Line
<1> DEFINE ls == Stamped(b)
<1>5. ls = [i \in 1..n |-> [tx |-> nextTx + i - 1, id |-> b[i].id, row |-> b[i].row]]
  BY <1>2 DEF Stamped
<1> HIDE DEF ls
<1>6. ls \in [1..n -> Line]
  BY <1>4, <1>5
<1>7. ls \in Seq(Line) /\ Len(ls) = n
  BY <1>2, <1>6
<1>8. \A i \in 1..n : ls[i].tx = nextTx + i - 1 /\ ls[i].id = b[i].id
  BY <1>5
<1>9. \A i, j \in 1..n : ls[i].id = ls[j].id => i = j
  BY <1>3, <1>8
<1> QED
  BY <1>2, <1>7, <1>8, <1>9 DEF ls

\* The caches of the writer follow its append.
LEMMA RememberedOk ==
    ASSUME NEW n, FilesInv(n), CachesInv(n), NEW h \in Handles,
           NEW t, IsTarget(t, n), NEW ls \in Seq(Line),
           \A i, j \in 1..Len(ls) : ls[i].id = ls[j].id => i = j
    PROVE  CacheOk(Remembered(PreparedCache(h), t, ls), Appended(t, ls, FALSE), t.next)
<1> DEFINE P == PreparedFiles
           c == t.chunk
           g == Appended(t, ls, FALSE)
           m == PreparedCache(h)
           r == Remembered(m, t, ls)
           idx == IF m.index # None THEN m.index ELSE Index(P)
           new == Preamble + BatchSize(ls)
<1>1. Chunked(P, n)
  BY PreparedFacts
<1>2. /\ Chunked(g, t.next) /\ Grown(P, g, c, ls)
      /\ \A d \in DOMAIN P \ {c} : g[d] = P[d]
      /\ ~g[c].torn /\ (t.isNew => OldLines(P, c) = <<>>)
  <2> DEFINE no == FALSE
  <2>1. no \in BOOLEAN /\ (Appended(t, ls, no)[c].torn = no)
    BY AppendedFacts
  <2> QED
    BY <2>1, AppendedFacts
<1>3. CacheOk(m, P, n)
  BY PreparedCacheOk
<1>4. /\ r.next = t.next /\ r.index = Applied(idx, t, ls)
      /\ r.len = IF t.isNew THEN With(m.len, c, new) ELSE Without(m.len, c)
      /\ r.bytes = IF t.isNew THEN With(m.bytes, c, ls) ELSE Without(m.bytes, c)
      /\ r = [next |-> r.next, len |-> r.len, bytes |-> r.bytes, index |-> r.index]
  BY DEF Remembered
<1>5. /\ t.offset = Offset(OldLines(P, c), Len(OldLines(P, c)) + 1)
  BY DEF IsTarget
<1> HIDE DEF P, g, m, r, idx, new, c
<1>6. DOMAIN g = DOMAIN P \cup {c} /\ g[c].lines = OldLines(P, c) \o ls
  BY <1>2 DEF Grown
<1>7. t.isNew => g[c].lines = ls
  <2>1. <<>> \o ls = ls
    OBVIOUS
  <2> QED
    BY <1>2, <1>6, <2>1
<1>8. t.isNew => Length(g[c]) = new
  <2>1. Len(ls) \in Nat /\ (Len(ls) + 1) - 1 = Len(ls) /\ Len(ls) \in 0..Len(ls)
    OBVIOUS
  <2>2. Offset(ls, Len(ls) + 1) \in Int /\ Preamble \in Int
    BY <2>1, EndsFacts, SizeAssumption DEF Offset
  <2>3. new = Offset(ls, Len(ls) + 1)
    BY <2>2 DEF new, BatchSize
  <2>4. t.isNew => Length(g[c]) = Offset(ls, Len(ls) + 1) + 0
    BY <1>2, <1>7 DEF Length
  <2> QED
    BY <2>2, <2>3, <2>4
<1>9. ASSUME NEW d \in DOMAIN r.len PROVE d \in DOMAIN g /\ r.len[d] = Length(g[d])
  <2>1. CASE t.isNew
    <3>1. r.len = With(m.len, c, new)
      BY <1>4, <2>1
    <3>2. d \in DOMAIN m.len \cup {c} /\ r.len[d] = IF d = c THEN new ELSE m.len[d]
      BY <1>9, <3>1 DEF With
    <3> QED
      BY <1>2, <1>3, <1>6, <1>8, <2>1, <3>2 DEF CacheOk
  <2>2. CASE ~t.isNew
    <3>1. r.len = Without(m.len, c)
      BY <1>4, <2>2
    <3>2. d \in DOMAIN m.len \ {c} /\ r.len[d] = m.len[d]
      BY <1>9, <3>1 DEF Without
    <3> QED
      BY <1>2, <1>3, <1>6, <3>2 DEF CacheOk
  <2> QED
    BY <2>1, <2>2
<1>10. ASSUME NEW d \in DOMAIN r.bytes PROVE d \in DOMAIN g /\ r.bytes[d] = g[d].lines
  <2>1. CASE t.isNew
    <3>1. r.bytes = With(m.bytes, c, ls)
      BY <1>4, <2>1
    <3>2. d \in DOMAIN m.bytes \cup {c} /\ r.bytes[d] = IF d = c THEN ls ELSE m.bytes[d]
      BY <1>10, <3>1 DEF With
    <3> QED
      BY <1>2, <1>3, <1>6, <1>7, <2>1, <3>2 DEF CacheOk
  <2>2. CASE ~t.isNew
    <3>1. r.bytes = Without(m.bytes, c)
      BY <1>4, <2>2
    <3>2. d \in DOMAIN m.bytes \ {c} /\ r.bytes[d] = m.bytes[d]
      BY <1>10, <3>1 DEF Without
    <3> QED
      BY <1>2, <1>3, <1>6, <3>2 DEF CacheOk
  <2> QED
    BY <2>1, <2>2
<1>11. r.index = Index(g)
  <2>1. idx = Index(P)
    BY <1>3 DEF CacheOk, idx
  <2>2. ASSUME NEW id \in Ids PROVE Applied(idx, t, ls)[id] = Index(g)[id]
    <3> DEFINE touched == {i \in DOMAIN ls : ls[i].id = id}
               k == CHOOSE j \in touched : TRUE
    <3>1. DOMAIN ls = 1..Len(ls)
      OBVIOUS
    <3>2. Applied(idx, t, ls)[id] =
            IF touched = {} THEN idx[id]
            ELSE IF ls[k].row = None THEN None
            ELSE [chunk |-> c, len |-> Size(ls[k]), offset |-> t.offset + Offset(ls, k) - Preamble]
      BY DEF Applied, c
    <3>3. touched # {} => k \in touched
      OBVIOUS
    <3> HIDE DEF k
    <3>4. CASE touched = {}
      <4>1. \A j \in 1..Len(ls) : ls[j].id # id
        BY <3>1, <3>4
      <4>2. Index(g)[id] = Index(P)[id]
        BY <1>1, <1>2, <4>1, GrownRows
      <4> QED
        BY <2>1, <3>2, <3>4, <4>2
    <3>5. CASE touched # {}
      <4>1. k \in 1..Len(ls) /\ ls[k].id = id
        BY <3>1, <3>3, <3>5
      <4>2. \A j \in 1..Len(ls) : ls[j].id = id => j = k
        BY <4>1
      <4>3. Index(g)[id] = IF ls[k].row = None THEN None ELSE PointerTo(g, At(P, c, k))
        BY <1>1, <1>2, <4>1, <4>2, GrownRows
      <4>4. PointerTo(g, At(P, c, k)) =
              [chunk |-> c, len |-> Size(ls[k]),
               offset |-> Offset(OldLines(P, c), Len(OldLines(P, c)) + 1)
                            + Offset(ls, k) - Preamble]
        BY <1>1, <1>2, <4>1, GrownPointers
      <4> QED
        BY <1>5, <3>2, <3>5, <4>3, <4>4 DEF c
    <3> QED
      BY <3>4, <3>5
  <2>3. /\ Applied(idx, t, ls) = [id \in Ids |-> Applied(idx, t, ls)[id]]
        /\ Index(g) = [id \in Ids |-> Index(g)[id]]
    BY DEF Applied, Index
  <2>4. Applied(idx, t, ls) = Index(g)
    BY <2>2, <2>3
  <2> QED
    BY <1>4, <2>4
<1>12. CacheOk(r, g, t.next)
  BY <1>4, <1>9, <1>10, <1>11 DEF CacheOk
<1> QED
  BY <1>12 DEF r, m, g

-------------------------------------------------------------------------------
(* Compaction. *)

\* The ranks of the live ids are the numbers below their number.
LEMMA RankFacts ==
    /\ IsFiniteSet(LiveIds) /\ Cardinality(LiveIds) \in Nat
    /\ \A x \in LiveIds : Rank(x) \in 0..(Cardinality(LiveIds) - 1)
    /\ \A x, y \in LiveIds : Rank(x) = Rank(y) => x = y
    /\ \A k \in 0..(Cardinality(LiveIds) - 1) : \E x \in LiveIds : Rank(x) = k
<1> DEFINE S == LiveIds
           N == Cardinality(S)
           Below(x) == {i \in S : i < x}
<1>1. S \subseteq Ids /\ S \subseteq Nat /\ IsFiniteSet(S) /\ N \in Nat
  <2>1. S \in SUBSET Ids /\ IsFiniteSet(Ids)
    BY IdAssumption DEF LiveIds
  <2>2. IsFiniteSet(S)
    BY <2>1, FS_Subset
  <2> HIDE DEF S
  <2> QED
    BY <2>1, <2>2, IdAssumption, FS_CardinalityType
<1>2. \A x \in S : Rank(x) = Cardinality(Below(x))
  BY DEF Rank
<1> HIDE DEF S
<1>3. ASSUME NEW x \in S PROVE IsFiniteSet(Below(x)) /\ Rank(x) \in 0..(N - 1)
  <2> DEFINE T == Below(x)
  <2>1. T \in SUBSET S /\ x \notin T
    BY <1>1
  <2> HIDE DEF T
  <2>2. IsFiniteSet(T) /\ Cardinality(T) <= N /\ Cardinality(T) # N
    BY <1>1, <2>1, FS_Subset
  <2>3. Cardinality(T) \in Nat
    BY <2>2, FS_CardinalityType
  <2>4. Cardinality(T) \in 0..(N - 1)
    BY <1>1, <2>2, <2>3
  <2> QED
    BY <1>2, <2>2, <2>4 DEF T
<1>4. ASSUME NEW x \in S, NEW y \in S, x < y PROVE Rank(x) < Rank(y)
  <2> DEFINE T == Below(x)
             U == Below(y)
  <2>1. T \in SUBSET U /\ x \in U /\ x \notin T
    <3>1. \A i \in S : i \in Nat
      BY <1>1
    <3>2. \A i \in S : i < x => i < y
      BY <1>4, <3>1
    <3>3. ~(x < x)
      BY <3>1
    <3> QED
      BY <1>4, <3>2, <3>3
  <2>2. IsFiniteSet(U) /\ IsFiniteSet(T)
    BY <1>3
  <2> HIDE DEF T, U
  <2>3. Cardinality(T) <= Cardinality(U) /\ Cardinality(T) # Cardinality(U)
    BY <2>1, <2>2, FS_Subset
  <2>4. Cardinality(T) \in Nat /\ Cardinality(U) \in Nat
    BY <2>2, FS_CardinalityType
  <2>5. Cardinality(T) < Cardinality(U)
    BY <2>3, <2>4
  <2> QED
    BY <1>2, <2>5 DEF T, U
<1>5. ASSUME NEW x \in S, NEW y \in S, Rank(x) = Rank(y) PROVE x = y
  <2>1. Rank(x) \in 0..(N - 1) /\ Rank(y) \in 0..(N - 1)
    BY <1>3
  <2>2. x \in Nat /\ y \in Nat
    BY <1>1
  <2>3. \A k \in 0..(N - 1) : ~(k < k)
    OBVIOUS
  <2>4. ~(x < y) /\ ~(y < x)
    BY <1>4, <1>5, <2>1, <2>3
  <2> QED
    BY <2>2, <2>4
<1>6. \A k \in 0..(N - 1) : \E x \in S : Rank(x) = k
  <2> DEFINE a == 0
             b == N - 1
             f == [x \in S |-> Rank(x)]
  <2>1. f \in [S -> a..b] /\ \A x, y \in S : f[x] = f[y] => x = y
    BY <1>3, <1>5
  <2>2. a \in Int /\ b \in Int /\ (IF a > b THEN N = 0 ELSE (b - a) + 1 = N)
    BY <1>1
  <2>3. \A k \in a..b : (\E x \in S : f[x] = k) => \E x \in S : Rank(x) = k
    OBVIOUS
  <2> HIDE DEF a, b, f
  <2>4. IsFiniteSet(a..b) /\ Cardinality(a..b) = N
    BY <2>2, FS_Interval
  <2> DEFINE T == a..b
  <2>5. f \in Injection(S, T)
    BY <2>1 DEF Injection, IsInjective
  <2>6. IsFiniteSet(T) /\ Cardinality(T) = N
    BY <2>4
  <2>7. \A k \in a..b : (\E x \in S : f[x] = k) <=> (\E x \in S : f[x] = k)
    OBVIOUS
  <2> HIDE DEF T
  <2>8. f \in Surjection(S, T)
    BY <2>5, <2>6, FS_Injection
  <2>9. \A k \in T : \E x \in S : f[x] = k
    BY <2>8 DEF Surjection
  <2> QED
    BY <2>3, <2>9 DEF T, a, b
<1> QED
  BY <1>1, <1>3, <1>5, <1>6 DEF S

\* The transaction id that a scan finds is the next one.
LEMMA DiscoveredIs ==
    ASSUME NEW n, FilesInv(n)
    PROVE  DiscoveredTx = nextTx
<1> DEFINE txs == {0} \cup {LineAt(files, p).tx : p \in Places(files)}
<1>1. nextTx \in Nat \ {0} /\ \A p \in Places(files) : LineAt(files, p).tx < nextTx
  BY DEF FilesInv, HandedOut
<1>2. \A p \in Places(files) : LineAt(files, p).tx \in Nat
  <2>1. \A p \in Places(files) : LineAt(files, p) \in Line
    BY PlaceFacts DEF FilesInv
  <2> QED
    BY <2>1 DEF Line
<1>3. \A x \in txs : x \in Nat /\ x <= nextTx - 1
  <2>1. \A p \in Places(files) : LineAt(files, p).tx <= nextTx - 1
    BY <1>1, <1>2
  <2> QED
    BY <1>1, <1>2, <2>1
<1>4. nextTx - 1 \in txs
  <2>1. CASE nextTx = 1
    BY <2>1
  <2>2. CASE nextTx # 1
    <3>1. PICK p \in Places(files) : LineAt(files, p).tx = nextTx - 1
      BY <2>2 DEF FilesInv, HandedOut
    <3> QED
      BY <3>1
  <2> QED
    BY <2>1, <2>2
<1> HIDE DEF txs
<1> DEFINE max == CHOOSE m \in txs : \A x \in txs : x <= m
<1>5. max \in txs /\ \A x \in txs : x <= max
  BY <1>3, <1>4
<1> HIDE DEF max
<1>6. max = nextTx - 1
  BY <1>1, <1>3, <1>4, <1>5
<1>7. DiscoveredTx = max + 1
  BY DEF DiscoveredTx, max, txs
<1> QED
  BY <1>1, <1>6, <1>7

\* Compaction writes one line for each live row.
LEMMA CompactedFacts ==
    ASSUME NEW n, FilesInv(n)
    PROVE  /\ CompactedLines \in Seq(Line) /\ Len(CompactedLines) = Cardinality(LiveIds)
           /\ \A i \in 1..Len(CompactedLines) :
                /\ CompactedLines[i].tx = nextTx + i - 1
                /\ CompactedLines[i].id \in LiveIds
                /\ CompactedLines[i].row = LiveRow(files, CompactedLines[i].id)
           /\ \A i, j \in 1..Len(CompactedLines) :
                CompactedLines[i].id = CompactedLines[j].id => i = j
           /\ \A id \in LiveIds : \E i \in 1..Len(CompactedLines) : CompactedLines[i].id = id
<1> DEFINE N == Cardinality(LiveIds)
           idOf(i) == CHOOSE x \in LiveIds : Rank(x) = i - 1
           L == CompactedLines
<1>1. N \in Nat /\ nextTx \in Nat \ {0} /\ DiscoveredTx = nextTx
  BY RankFacts, DiscoveredIs DEF FilesInv, HandedOut
<1>2. \A i \in 1..N : idOf(i) \in LiveIds /\ Rank(idOf(i)) = i - 1
  <2> TAKE i \in 1..N
  <2>1. i - 1 \in 0..(N - 1)
    BY <1>1
  <2>2. \E x \in LiveIds : Rank(x) = i - 1
    BY <2>1, RankFacts
  <2> QED
    BY <2>2
<1>3. L = [i \in 1..N |-> [tx |-> nextTx + i - 1, id |-> idOf(i), row |-> LiveRow(files, idOf(i))]]
  BY <1>1 DEF CompactedLines
<1> HIDE DEF L, idOf, N
<1>4. ASSUME NEW i \in 1..N
      PROVE  [tx |-> nextTx + i - 1, id |-> idOf(i), row |-> LiveRow(files, idOf(i))] \in Line
  <2>1. idOf(i) \in Ids
    BY <1>2 DEF LiveIds
  <2>2. LiveRow(files, idOf(i)) \in Rows \cup {None}
    BY <2>1, LiveRowFacts DEF FilesInv
  <2>3. nextTx + i - 1 \in Nat \ {0}
    BY <1>1
  <2> QED
    BY <2>1, <2>2, <2>3 DEF Line
<1>5. L \in [1..N -> Line]
  BY <1>3, <1>4
<1>6. L \in Seq(Line) /\ Len(L) = N
  BY <1>1, <1>5
<1>7. \A i \in 1..N : L[i].tx = nextTx + i - 1 /\ L[i].id = idOf(i) /\ L[i].row = LiveRow(files, idOf(i))
  BY <1>3
<1>8. \A i \in 1..N : L[i].id \in LiveIds /\ L[i].row = LiveRow(files, L[i].id) /\ Rank(L[i].id) = i - 1
  BY <1>2, <1>7
<1>9. ASSUME NEW i \in 1..N, NEW j \in 1..N, L[i].id = L[j].id PROVE i = j
  <2>1. i - 1 = j - 1
    BY <1>8, <1>9
  <2> QED
    BY <1>1, <2>1
<1>10. ASSUME NEW id \in LiveIds PROVE \E i \in 1..N : L[i].id = id
  <2> DEFINE i == Rank(id) + 1
  <2>1. Rank(id) \in 0..(N - 1)
    BY RankFacts DEF N
  <2>2. i \in 1..N /\ i - 1 = Rank(id)
    BY <1>1, <2>1
  <2> HIDE DEF i
  <2>3. Rank(L[i].id) = Rank(id) /\ L[i].id \in LiveIds
    BY <1>8, <2>2
  <2>4. L[i].id = id
    BY <2>3, RankFacts
  <2> QED
    BY <2>2, <2>4
<1> QED
  BY <1>6, <1>7, <1>8, <1>9, <1>10 DEF L, N

-------------------------------------------------------------------------------
(* Steps of the revision and the caches. *)

\* What is observed is not ahead of the next transaction.
LEMMA RevisionIs ==
    ASSUME RevisionInv, nextTx \in Nat \ {0}
    PROVE  /\ revision \in Nat \cup {Dirty} /\ revision # None
           /\ \A x \in Handles : observed[x] \in Nat => observed[x] <= nextTx
<1>1. revision \in {nextTx, Dirty} \/ (revision = 0 /\ nextTx = 1)
  BY DEF RevisionInv
<1>2. revision \in Nat \cup {Dirty} /\ revision # None
  BY <1>1, SentinelAssumption
<1>3. revision # Dirty => revision \in Nat /\ revision <= nextTx
  BY <1>1
<1>4. ASSUME NEW x \in Handles, observed[x] \in Nat PROVE observed[x] <= nextTx
  <2>1. observed[x] <= IF revision = Dirty THEN nextTx ELSE revision
    BY <1>4 DEF RevisionInv
  <2> QED
    BY <1>3, <1>4, <2>1
<1> QED
  BY <1>2, <1>4

\* A handle observes the revision it finds.
LEMMA ObservesRevision ==
    ASSUME RevisionInv, nextTx \in Nat \ {0}, NEW h \in Handles,
           observed' = [observed EXCEPT ![h] = revision], UNCHANGED <<revision, nextTx>>
    PROVE  RevisionInv'
<1>1. revision \in Nat \cup {Dirty} /\ revision # None
  BY RevisionIs
<1>2. observed' \in [Handles -> Nat \cup {None, Dirty}]
  BY <1>1 DEF RevisionInv
<1>3. ASSUME NEW x \in Handles, observed'[x] \in Nat
      PROVE  observed'[x] <= IF revision = Dirty THEN nextTx ELSE revision
  <2>1. CASE x = h
    <3>1. observed'[x] = revision
      BY <2>1 DEF RevisionInv
    <3>2. revision # Dirty
      BY <1>3, <3>1, SentinelAssumption
    <3> QED
      BY <1>3, <3>1, <3>2
  <2>2. CASE x # h
    BY <1>3, <2>2 DEF RevisionInv
  <2> QED
    BY <2>1, <2>2
<1> QED
  BY <1>2, <1>3 DEF RevisionInv

\* A handle publishes the dirty marker or the next transaction id.
LEMMA PublishesRevision ==
    ASSUME RevisionInv, nextTx \in Nat \ {0}, nextTx' \in Nat, nextTx' >= nextTx,
           NEW h \in Handles, NEW o, observed' = [observed EXCEPT ![h] = o],
           (revision' = Dirty /\ o \in {None, Dirty}) \/ (revision' = nextTx' /\ o = nextTx')
    PROVE  RevisionInv'
<1>2. observed' \in [Handles -> Nat \cup {None, Dirty}]
  BY SentinelAssumption DEF RevisionInv
<1>3. ASSUME NEW x \in Handles, observed'[x] \in Nat PROVE observed'[x] <= nextTx'
  <2>1. CASE x = h
    <3>1. observed'[x] = o
      BY <2>1 DEF RevisionInv
    <3>2. o = nextTx'
      BY <1>3, <3>1, SentinelAssumption
    <3> QED
      BY <3>1, <3>2
  <2>2. CASE x # h
    <3>1. observed'[x] = observed[x]
      BY <2>2 DEF RevisionInv
    <3>2. observed[x] <= nextTx
      BY <1>3, <3>1, RevisionIs
    <3> QED
      BY <1>3, <3>1, <3>2
  <2> QED
    BY <2>1, <2>2
<1>4. revision' \in {nextTx', Dirty}
  OBVIOUS
<1>5. nextTx' # Dirty
  BY SentinelAssumption
<1> QED
  BY <1>2, <1>3, <1>4, <1>5 DEF RevisionInv

\* Only the cache of one handle changes.
LEMMA CachesStep ==
    ASSUME NEW n, CachesInv(n), RevisionInv, NEW h \in Handles, NEW o, NEW k,
           observed' = [observed EXCEPT ![h] = o], cache' = [cache EXCEPT ![h] = k],
           o = None => k = NoCache, NEW m,
           \/ revision' = Dirty
           \/ /\ CacheOk(k, files', m)
              /\ \A x \in Handles : observed[x] = revision' => CacheOk(cache[x], files', m)
    PROVE  CachesInv(m)'
<1>1. DOMAIN cache = Handles /\ DOMAIN observed = Handles
  BY DEF CachesInv, RevisionInv
<1>2. DOMAIN cache' = Handles
  BY <1>1
<1>3. /\ observed'[h] = o /\ cache'[h] = k
      /\ \A x \in Handles \ {h} : observed'[x] = observed[x] /\ cache'[x] = cache[x]
  BY <1>1
<1>4. \A x \in Handles : observed'[x] = None => cache'[x] = NoCache
  BY <1>3 DEF CachesInv
<1>5. ASSUME NEW x \in Handles, observed'[x] = revision', revision' # Dirty
      PROVE  CacheOk(cache'[x], files', m)
  <2>1. CASE x = h
    BY <1>3, <1>5, <2>1
  <2>2. CASE x # h
    BY <1>3, <1>5, <2>2
  <2> QED
    BY <2>1, <2>2
<1>6. \A x \in Handles : Coherent(x)' => CacheOk(cache[x], files, m)'
  BY <1>5 DEF Coherent, CacheOk
<1> QED
  BY <1>2, <1>4, <1>6 DEF CachesInv

\* A chunk that was read may be cached.
LEMMA ReadChunkOk ==
    ASSUME NEW m, NEW n, CacheOk(m, files, n), NEW c
    PROVE  CacheOk(ReadChunk(m, c), files, n)
<1> DEFINE k == ReadChunk(m, c)
<1>1. CASE c \in DOMAIN m.bytes \/ c \notin DOMAIN files
  BY <1>1 DEF ReadChunk
<1>2. CASE ~(c \in DOMAIN m.bytes \/ c \notin DOMAIN files)
  <2>1. m = [next |-> m.next, len |-> m.len, bytes |-> m.bytes, index |-> m.index]
    BY DEF CacheOk
  <2>2. k = [m EXCEPT !.bytes = With(m.bytes, c, files[c].lines),
                      !.len = With(m.len, c, Length(files[c]))]
    BY <1>2 DEF ReadChunk
  <2> HIDE DEF k
  <2>3. k = [next |-> m.next, len |-> With(m.len, c, Length(files[c])),
             bytes |-> With(m.bytes, c, files[c].lines), index |-> m.index]
    BY <2>1, <2>2
  <2>4. /\ k = [next |-> k.next, len |-> k.len, bytes |-> k.bytes, index |-> k.index]
        /\ k.next = m.next /\ k.index = m.index
        /\ k.len = With(m.len, c, Length(files[c])) /\ k.bytes = With(m.bytes, c, files[c].lines)
    BY <2>3
  <2>5. \A d \in DOMAIN k.len : d \in DOMAIN files /\ k.len[d] = Length(files[d])
    BY <1>2, <2>4 DEF CacheOk, With
  <2>6. \A d \in DOMAIN k.bytes : d \in DOMAIN files /\ k.bytes[d] = files[d].lines
    BY <1>2, <2>4 DEF CacheOk, With
  <2> QED
    BY <2>4, <2>5, <2>6 DEF CacheOk, k
<1> QED
  BY <1>1, <1>2

\* A handle that works on the clean revision and publishes nothing.
LEMMA CachesOnRevision ==
    ASSUME NEW n, CachesInv(n), RevisionInv, nextTx \in Nat \ {0}, NEW h \in Handles, NEW k,
           observed' = [observed EXCEPT ![h] = revision], cache' = [cache EXCEPT ![h] = k],
           UNCHANGED <<files, revision>>,
           revision # Dirty => CacheOk(k, files, n)
    PROVE  CachesInv(n)'
<1>1. revision # None
  BY RevisionIs
<1>2. ASSUME revision # Dirty, NEW x \in Handles, observed[x] = revision
      PROVE  CacheOk(cache[x], files, n)
  BY <1>2 DEF CachesInv, Coherent
<1>3. \/ revision' = Dirty
      \/ /\ CacheOk(k, files', n)
         /\ \A x \in Handles : observed[x] = revision' => CacheOk(cache[x], files', n)
  BY <1>2
<1> QED
  BY <1>1, <1>3, CachesStep

\* A refresh.
LEMMA ObserveInv ==
    ASSUME NEW n \in 0..MaxChunks, FilesInv(n), RevisionInv, CachesInv(n),
           NEW h \in Handles, Observe(h)
    PROVE  FilesInv(n)' /\ RevisionInv' /\ CachesInv(n)'
<1>1. nextTx \in Nat \ {0}
  BY DEF FilesInv, HandedOut
<1>2. FilesInv(n)'
  BY DEF Observe, FilesInv, InOrder, HandedOut
<1>3. RevisionInv'
  BY <1>1, ObservesRevision DEF Observe
<1>4. CachesInv(n)'
  <2>1. revision # Dirty => CacheOk(Refreshed(h), files, n)
    BY RefreshedOk
  <2>2. /\ observed' = [observed EXCEPT ![h] = revision]
        /\ cache' = [cache EXCEPT ![h] = Refreshed(h)]
        /\ UNCHANGED <<files, revision>>
    BY DEF Observe
  <2> QED
    BY <1>1, <2>1, <2>2, CachesOnRevision
<1> QED
  BY <1>2, <1>3, <1>4

\* So may the index of the chunks and the next counter.
LEMMA WithIndexOk ==
    ASSUME NEW m, NEW n, CacheOk(m, files, n), NEW next \in {m.next, n}
    PROVE  CacheOk([m EXCEPT !.index = Index(files), !.next = next], files, n)
<1> DEFINE k == [m EXCEPT !.index = Index(files), !.next = next]
<1>1. m = [next |-> m.next, len |-> m.len, bytes |-> m.bytes, index |-> m.index]
  BY DEF CacheOk
<1>2. k = [next |-> next, len |-> m.len, bytes |-> m.bytes, index |-> Index(files)]
  <2> DEFINE a == m.next
             b == m.len
             c == m.bytes
             d == m.index
             i == Index(files)
  <2>1. m = [next |-> a, len |-> b, bytes |-> c, index |-> d]
    BY <1>1
  <2>2. k = [m EXCEPT !.index = i, !.next = next]
    OBVIOUS
  <2> HIDE DEF a, b, c, d, i, k
  <2>3. k = [next |-> next, len |-> b, bytes |-> c, index |-> i]
    BY <2>1, <2>2
  <2> QED
    BY <2>3 DEF b, c, i
<1> HIDE DEF k
<1>3. /\ k = [next |-> k.next, len |-> k.len, bytes |-> k.bytes, index |-> k.index]
      /\ k.next = next /\ k.len = m.len /\ k.bytes = m.bytes /\ k.index = Index(files)
  BY <1>2
<1>4. CacheOk(k, files, n)
  BY <1>3 DEF CacheOk
<1> QED
  BY <1>4 DEF k

\* A read of a row.
LEMMA ReadInv ==
    ASSUME NEW n \in 0..MaxChunks, FilesInv(n), RevisionInv, CachesInv(n),
           NEW h \in Handles, NEW id \in Ids, Read(h, id)
    PROVE  FilesInv(n)' /\ RevisionInv' /\ CachesInv(n)'
<1> DEFINE m == Refreshed(h)
           index == IF m.index # None THEN m.index ELSE Index(files)
           indexed == [m EXCEPT !.index = index]
           k == IF index[id] = None THEN indexed ELSE ReadChunk(indexed, index[id].chunk)
<1>1. /\ observed' = [observed EXCEPT ![h] = revision]
      /\ cache' = [cache EXCEPT ![h] = k]
      /\ UNCHANGED <<files, metaChunk, revision, nextTx>>
  BY DEF Read
<1>2. nextTx \in Nat \ {0}
  BY DEF FilesInv, HandedOut
<1>3. FilesInv(n)'
  BY <1>1 DEF FilesInv, InOrder, HandedOut
<1>4. RevisionInv'
  BY <1>1, <1>2, ObservesRevision
<1>5. ASSUME revision # Dirty PROVE CacheOk(k, files, n)
  <2>1. CacheOk(m, files, n)
    BY <1>5, RefreshedOk
  <2>2. index = Index(files)
    BY <2>1 DEF CacheOk
  <2>3. CacheOk([m EXCEPT !.index = Index(files), !.next = m.next], files, n)
    BY <2>1, WithIndexOk
  <2>4. indexed = [m EXCEPT !.index = Index(files), !.next = m.next]
    <3> HIDE DEF m, index
    <3>1. m = [next |-> m.next, len |-> m.len, bytes |-> m.bytes, index |-> m.index]
      BY <2>1 DEF CacheOk
    <3> QED
      BY <2>2, <3>1
  <2> HIDE DEF m, index, indexed
  <2>5. CacheOk(indexed, files, n)
    BY <2>3, <2>4
  <2> QED
    BY <2>5, ReadChunkOk
<1> HIDE DEF k
<1>6. CachesInv(n)'
  BY <1>1, <1>2, <1>5, CachesOnRevision
<1> QED
  BY <1>3, <1>4, <1>6

\* A clean revision of init is that of the chunks it read.
LEMMA InitStoreInv ==
    ASSUME NEW n \in 0..MaxChunks, FilesInv(n), RevisionInv, CachesInv(n),
           NEW h \in Handles, InitStore(h), revision # Dirty
    PROVE  FilesInv(n)' /\ RevisionInv' /\ CachesInv(n)'
<1> DEFINE m == Refreshed(h)
           k == [m EXCEPT !.index = Index(files), !.next = NextChunk(m)]
<1>1. /\ observed' = [observed EXCEPT ![h] = nextTx] /\ cache' = [cache EXCEPT ![h] = k]
      /\ metaChunk' = NextChunk(m) /\ revision' = nextTx /\ UNCHANGED <<files, nextTx>>
  BY DEF InitStore, Publish
<1>2. nextTx \in Nat \ {0}
  BY DEF FilesInv, HandedOut
<1>3. CacheOk(m, files, n) /\ NextChunk(m) = n
  BY RefreshedOk, NextChunkIs
<1>4. CacheOk(k, files, n)
  <2> HIDE DEF m
  <2> QED
    BY <1>3, WithIndexOk
<1> HIDE DEF k, m
<1>5. FilesInv(n)'
  <2>1. metaChunk' \in {None} \cup 0..n
    <3>1. n \in Nat
      BY MaxChunksNat
    <3> QED
      BY <1>1, <1>3, <3>1
  <2> QED
    BY <1>1, <2>1 DEF FilesInv, InOrder, HandedOut
<1>6. RevisionInv'
  <2>1. nextTx' \in Nat /\ nextTx' >= nextTx /\ revision' = nextTx' /\ nextTx = nextTx'
    BY <1>1, <1>2
  <2> QED
    BY <1>1, <1>2, <2>1, PublishesRevision
<1>7. ASSUME NEW x \in Handles, observed[x] = nextTx PROVE CacheOk(cache[x], files, n)
  <2>1. revision = nextTx
    <3>1. observed[x] <= revision
      BY <1>2, <1>7 DEF RevisionInv
    <3>2. revision = nextTx \/ (revision = 0 /\ nextTx = 1)
      BY DEF RevisionInv
    <3> QED
      BY <1>7, <3>1, <3>2
  <2> QED
    BY <1>7, <2>1 DEF CachesInv, Coherent
<1>8. CachesInv(n)'
  <2>1. nextTx # None
    BY <1>2, SentinelAssumption
  <2>2. /\ CacheOk(k, files', n)
        /\ \A x \in Handles : observed[x] = revision' => CacheOk(cache[x], files', n)
    BY <1>1, <1>4, <1>7
  <2> QED
    BY <1>1, <2>1, <2>2, CachesStep
<1> QED
  BY <1>5, <1>6, <1>8

\* An append adds the next transactions behind all others.
LEMMA GrowthInv ==
    ASSUME NEW n \in 0..MaxChunks, FilesInv(n), NEW m \in n..MaxChunks, NEW c,
           NEW ls, Chunked(files', m), Grown(files, files', c, ls),
           \A i \in 1..Len(ls) : ls[i].tx = nextTx + i - 1,
           nextTx' = nextTx + Len(ls), metaChunk' \in {metaChunk, m}
    PROVE  FilesInv(m)'
<1>1. InOrder(files') /\ HandedOut(files', nextTx + Len(ls))
  <2>1. /\ Chunked(files, n) /\ InOrder(files) /\ HandedOut(files, nextTx)
        /\ nextTx \in Nat \ {0} /\ \A p \in Places(files) : LineAt(files, p).tx < nextTx
    BY DEF FilesInv, HandedOut
  <2> QED
    BY <2>1, GrownInOrder
<1>2. metaChunk' \in {None} \cup 0..m
  <2>1. n \in Nat /\ m \in Nat /\ n <= m
    BY MaxChunksNat
  <2>2. metaChunk \in {None} \cup 0..n
    BY DEF FilesInv
  <2>3. 0..n \subseteq 0..m /\ m \in 0..m
    BY <2>1
  <2> QED
    BY <2>2, <2>3
<1>3. HandedOut(files', nextTx')
  BY <1>1
<1>4. InOrder(files)' /\ HandedOut(files, nextTx)'
  BY <1>1, <1>3 DEF InOrder, HandedOut
<1> QED
  BY <1>2, <1>4 DEF FilesInv, Chunked

\* A committed batch, or one whose revision could not be published.
LEMMA WriteInv ==
    ASSUME NEW n \in 0..MaxChunks, FilesInv(n), RevisionInv, CachesInv(n),
           NEW h \in Handles, NEW b \in Batches, Write(h, b)
    PROVE  \E m \in 0..MaxChunks : FilesInv(m)' /\ RevisionInv' /\ CachesInv(m)'
<1> DEFINE t == TargetOf(h, b)
           ls == Stamped(b)
           k == Remembered(PreparedCache(h), t, ls)
           no == FALSE
<1> PICK m : m = t.next
  OBVIOUS
<1>1. /\ MayWrite /\ Available(t) /\ files' = Appended(t, ls, no)
      /\ cache' = [cache EXCEPT ![h] = k] /\ nextTx' = nextTx + Len(b)
      /\ metaChunk' \in {metaChunk, m}
      /\ Publish(h, nextTx') \/ Publish(h, Dirty)
  BY DEF Write, Appendable, SaveMetadata
<1>2. nextTx \in Nat \ {0}
  BY DEF FilesInv, HandedOut
<1>3. /\ ls \in Seq(Line) /\ Len(b) \in Nat \ {0} /\ Len(ls) = Len(b)
      /\ \A i \in 1..Len(ls) : ls[i].tx = nextTx + i - 1
      /\ \A i, j \in 1..Len(ls) : ls[i].id = ls[j].id => i = j
  BY <1>2, StampedFacts
<1>4. IsTarget(t, n)
  BY <1>1, TargetFacts DEF TargetOf
<1>5. CacheOk(k, Appended(t, ls, no), m)
  <2> HIDE DEF t, ls
  <2> QED
    BY <1>3, <1>4, RememberedOk
<1> HIDE DEF t, ls, k
<1>6. m \in n..MaxChunks /\ Chunked(files', m) /\ Grown(files, files', t.chunk, ls)
  <2>1. no \in BOOLEAN
    OBVIOUS
  <2> HIDE DEF no
  <2> QED
    BY <1>1, <1>3, <1>4, <2>1, AppendedFacts
<1> HIDE DEF no
<1>7. FilesInv(m)'
  BY <1>1, <1>3, <1>6, GrowthInv
<1>8. nextTx' \in Nat /\ nextTx' >= nextTx /\ ~(nextTx' <= nextTx)
  BY <1>1, <1>2, <1>3
<1>9. RevisionInv'
  BY <1>1, <1>2, <1>8, PublishesRevision DEF Publish
<1>10. ASSUME NEW x \in Handles PROVE observed[x] # nextTx'
  BY <1>2, <1>8, RevisionIs
<1>11. CachesInv(m)'
  <2>1. CASE Publish(h, Dirty)
    BY <1>1, <2>1, CachesStep, SentinelAssumption DEF Publish
  <2>2. CASE Publish(h, nextTx')
    <3>1. nextTx' # None
      BY <1>8, SentinelAssumption
    <3>2. /\ observed' = [observed EXCEPT ![h] = nextTx'] /\ revision' = nextTx'
          /\ CacheOk(k, files', m)
          /\ \A x \in Handles : observed[x] = revision' => CacheOk(cache[x], files', m)
      BY <1>1, <1>5, <1>10, <2>2 DEF Publish
    <3> QED
      BY <1>1, <3>1, <3>2, CachesStep
  <2> QED
    BY <1>1, <2>1, <2>2
<1>12. m \in 0..MaxChunks
  BY <1>6, MaxChunksNat
<1> QED
  BY <1>7, <1>9, <1>11, <1>12

\* A refused write.
LEMMA RefuseWriteInv ==
    ASSUME NEW n \in 0..MaxChunks, FilesInv(n), RevisionInv, CachesInv(n),
           NEW h \in Handles, RefuseWrite(h)
    PROVE  FilesInv(n)' /\ RevisionInv' /\ CachesInv(n)'
<1>1. /\ files' = PreparedFiles /\ revision' = Dirty
      /\ observed' = [observed EXCEPT ![h] = Dirty] /\ cache' = [cache EXCEPT ![h] = NoCache]
      /\ UNCHANGED <<metaChunk, nextTx>>
  BY DEF RefuseWrite, Publish
<1>2. nextTx \in Nat \ {0}
  BY DEF FilesInv, HandedOut
<1>3. Chunked(files', n) /\ InOrder(files') /\ HandedOut(files', nextTx')
  <2>1. Chunked(files', n) /\ \A c \in DOMAIN files : files'[c].lines = files[c].lines
    BY <1>1, PreparedFacts
  <2> QED
    BY <1>1, <2>1, SameLines DEF FilesInv
<1>4. FilesInv(n)'
  BY <1>1, <1>3 DEF FilesInv, InOrder, HandedOut, Chunked
<1>5. RevisionInv'
  <2>1. nextTx' \in Nat /\ nextTx' >= nextTx
    BY <1>1, <1>2
  <2> QED
    BY <1>1, <1>2, <2>1, PublishesRevision
<1>6. CachesInv(n)'
  BY <1>1, CachesStep
<1> QED
  BY <1>4, <1>5, <1>6

\* What a dead or failed writer leaves behind the dirty marker.
LEMMA InterruptedInv ==
    ASSUME NEW n, RevisionInv, CachesInv(n), NEW m, NEW h \in Handles, revision' = Dirty,
           observed' \in {[observed EXCEPT ![h] = r] : r \in {Dirty, None}},
           cache' = [cache EXCEPT ![h] = NoCache],
           nextTx \in Nat \ {0}, nextTx' \in Nat, nextTx' >= nextTx
    PROVE  RevisionInv' /\ CachesInv(m)'
<1>1. PICK r \in {Dirty, None} : observed' = [observed EXCEPT ![h] = r]
  OBVIOUS
<1>2. RevisionInv'
  BY <1>1, PublishesRevision
<1>3. CachesInv(m)'
  BY <1>1, CachesStep
<1> QED
  BY <1>2, <1>3

\* A write that is cut short in the lines.
LEMMA InterruptWriteInv ==
    ASSUME NEW n \in 0..MaxChunks, FilesInv(n), RevisionInv, CachesInv(n),
           NEW h \in Handles, NEW b \in Batches, InterruptWrite(h, b)
    PROVE  \E m \in 0..MaxChunks : FilesInv(m)' /\ RevisionInv' /\ CachesInv(m)'
<1> DEFINE t == TargetOf(h, b)
           all == Stamped(b)
<1> PICK m : m = t.next
  OBVIOUS
<1>1. /\ MayWrite /\ Available(t) /\ revision' = Dirty
      /\ observed' \in {[observed EXCEPT ![h] = r] : r \in {Dirty, None}}
      /\ cache' = [cache EXCEPT ![h] = NoCache] /\ UNCHANGED metaChunk
  BY DEF InterruptWrite, Appendable
<1>2. PICK i \in 0..Len(b), torn \in BOOLEAN :
        files' = Appended(t, SubSeq(all, 1, i), torn) /\ nextTx' = nextTx + i
  BY DEF InterruptWrite
<1> DEFINE ls == SubSeq(all, 1, i)
<1>3. nextTx \in Nat \ {0}
  BY DEF FilesInv, HandedOut
<1>4. /\ all \in Seq(Line) /\ Len(b) \in Nat \ {0} /\ Len(all) = Len(b)
      /\ \A j \in 1..Len(all) : all[j].tx = nextTx + j - 1
  BY <1>3, StampedFacts
<1>5. IsTarget(t, n)
  BY <1>1, TargetFacts DEF TargetOf
<1> HIDE DEF t, all
<1>6. ls \in Seq(Line) /\ Len(ls) = i /\ \A j \in 1..i : ls[j] = all[j] /\ j \in 1..Len(all)
  BY <1>4
<1> HIDE DEF ls
<1>7. \A j \in 1..Len(ls) : ls[j].tx = nextTx + j - 1
  BY <1>4, <1>6
<1>8. m \in n..MaxChunks /\ Chunked(files', m) /\ Grown(files, files', t.chunk, ls)
  BY <1>2, <1>5, <1>6, AppendedFacts DEF ls
<1>9. nextTx' = nextTx + Len(ls)
  BY <1>2, <1>6
<1>10. FilesInv(m)'
  BY <1>1, <1>7, <1>8, <1>9, GrowthInv
<1>11. nextTx' \in Nat /\ nextTx' >= nextTx
  BY <1>2, <1>3, <1>4
<1>12. RevisionInv' /\ CachesInv(m)'
  BY <1>1, <1>3, <1>11, InterruptedInv
<1>13. m \in 0..MaxChunks
  BY <1>8, MaxChunksNat
<1> QED
  BY <1>10, <1>12, <1>13

\* A chunk that was cut inside its preamble has no lines.
LEMMA PreambleGrows ==
    ASSUME NEW n, FilesInv(n), n < MaxChunks, NEW chunk \in Chunk, chunk.lines = <<>>,
           NEW g, g = With(PreparedFiles, n, chunk)
    PROVE  n + 1 \in n..MaxChunks /\ Chunked(g, n + 1) /\ Grown(files, g, n, <<>>)
<1> DEFINE P == PreparedFiles
<1>1. /\ Chunked(P, n) /\ Chunked(files, n) /\ \A d \in DOMAIN files : P[d].lines = files[d].lines
  BY PreparedFacts DEF FilesInv
<1>2. /\ n \in Nat /\ DOMAIN P = 0..(n - 1) /\ DOMAIN files = 0..(n - 1)
      /\ \A d \in DOMAIN P : P[d] \in Chunk
  BY <1>1, ChunkFacts
<1> HIDE DEF P
<1>3. /\ DOMAIN g = DOMAIN P \cup {n} /\ g = [d \in DOMAIN g |-> g[d]] /\ g[n] = chunk
      /\ \A d \in DOMAIN P \ {n} : g[d] = P[d]
  BY DEF With, P
<1>4. DOMAIN g = 0..((n + 1) - 1)
  BY <1>2, <1>3
<1>5. g \in [0..((n + 1) - 1) -> Chunk]
  BY <1>2, <1>3, <1>4
<1>6. n + 1 \in n..MaxChunks /\ n + 1 \in 0..MaxChunks
  BY <1>2, MaxChunksNat
<1>7. Grown(files, g, n, <<>>)
  <2>1. n \notin DOMAIN files /\ \A d \in DOMAIN files : d <= n
    BY <1>2
  <2>2. OldLines(files, n) = <<>> /\ <<>> \o <<>> = <<>> /\ <<>> \in Seq(Line)
    BY <2>1 DEF OldLines
  <2> QED
    BY <1>1, <1>2, <1>3, <2>1, <2>2 DEF Grown
<1> QED
  BY <1>5, <1>6, <1>7 DEF Chunked

\* A write that is cut short in the preamble of a new chunk.
LEMMA InterruptPreambleInv ==
    ASSUME NEW n \in 0..MaxChunks, FilesInv(n), RevisionInv, CachesInv(n),
           NEW h \in Handles, NEW b \in Batches, InterruptPreamble(h, b)
    PROVE  \E m \in 0..MaxChunks : FilesInv(m)' /\ RevisionInv' /\ CachesInv(m)'
<1> DEFINE t == TargetOf(h, b)
           chunk == [readable |-> FALSE, torn |-> TRUE, lines |-> <<>>]
           m == n + 1
<1>1. /\ MayWrite /\ Available(t) /\ t.isNew /\ revision' = Dirty
      /\ observed' \in {[observed EXCEPT ![h] = r] : r \in {Dirty, None}}
      /\ cache' = [cache EXCEPT ![h] = NoCache] /\ UNCHANGED <<metaChunk, nextTx>>
      /\ files' = With(PreparedFiles, t.chunk, chunk)
  BY DEF InterruptPreamble, Appendable
<1>2. IsTarget(t, n)
  BY <1>1, TargetFacts DEF TargetOf
<1> HIDE DEF t
<1>3. t.chunk = n /\ n < MaxChunks
  BY <1>1, <1>2 DEF IsTarget
<1>4. chunk \in Chunk /\ chunk.lines = <<>>
  BY DEF Chunk
<1>5. nextTx \in Nat \ {0}
  BY DEF FilesInv, HandedOut
<1> HIDE DEF chunk
<1> DEFINE ls == <<>>
<1>6. m \in n..MaxChunks /\ Chunked(files', m) /\ Grown(files, files', n, ls)
  BY <1>1, <1>3, <1>4, PreambleGrows
<1>7. Len(ls) = 0 /\ nextTx' = nextTx + Len(ls) /\ nextTx' \in Nat /\ nextTx' >= nextTx
  BY <1>1, <1>5
<1>8. \A i \in 1..Len(ls) : ls[i].tx = nextTx + i - 1
  BY <1>7
<1> HIDE DEF m, ls
<1>9. FilesInv(m)'
  BY <1>1, <1>6, <1>7, <1>8, GrowthInv
<1>10. RevisionInv' /\ CachesInv(m)'
  BY <1>1, <1>5, <1>7, InterruptedInv
<1>11. m \in 0..MaxChunks
  BY <1>6, MaxChunksNat
<1> QED
  BY <1>9, <1>10, <1>11

\* Compaction writes a table of one chunk with the live rows.
LEMMA CompactedGrown ==
    ASSUME NEW n, FilesInv(n)
    PROVE  /\ Chunked(Nothing, 0) /\ Places(Nothing) = {}
           /\ Chunked(CompactedFiles, 1)
           /\ Grown(Nothing, CompactedFiles, 0, CompactedLines)
           /\ \A id \in Ids : LiveRow(CompactedFiles, id) = LiveRow(files, id)
<1> DEFINE L == CompactedLines
           g == CompactedFiles
           z == Nothing
           chunk == [readable |-> TRUE, torn |-> FALSE, lines |-> L]
<1>1. L \in Seq(Line)
  BY CompactedFacts
<1>2. chunk \in Chunk /\ chunk.lines = L
  <2> HIDE DEF L
  <2> QED
    BY <1>1 DEF Chunk
<1>3. g = [c \in {0} |-> chunk]
  BY DEF CompactedFiles
<1>4. DOMAIN z = {} /\ z \in [{} -> Chunk]
  BY DEF Nothing
<1> HIDE DEF chunk, g, L, z
<1>5. 0..(0 - 1) = {} /\ 0..(1 - 1) = {0} /\ 0 \in 0..MaxChunks /\ 1 \in 0..MaxChunks
  BY MaxChunksNat
<1>6. Chunked(z, 0)
  BY <1>4, <1>5 DEF Chunked
<1>7. DOMAIN g = {0} /\ g[0] = chunk /\ g \in [{0} -> Chunk]
  BY <1>2, <1>3
<1>8. Chunked(g, 1)
  BY <1>5, <1>7 DEF Chunked
<1>9. Places(z) = {}
  BY <1>4 DEF Places
<1>10. Grown(z, g, 0, L)
  <2>1. OldLines(z, 0) = <<>> /\ <<>> \o L = L
    BY <1>1, <1>4 DEF OldLines
  <2> QED
    BY <1>1, <1>2, <1>4, <1>7, <2>1 DEF Grown
<1>11. ASSUME NEW id \in Ids PROVE LiveRow(g, id) = LiveRow(files, id)
  <2> DEFINE none == 0
             one == 1
  <2>1. Chunked(z, none) /\ Chunked(g, one) /\ Grown(z, g, none, L)
    BY <1>6, <1>8, <1>10
  <2> HIDE DEF none, one
  <2>2. /\ \A i \in 1..Len(L) : L[i].id \in LiveIds /\ L[i].row = LiveRow(files, L[i].id)
        /\ \A i, j \in 1..Len(L) : L[i].id = L[j].id => i = j
        /\ \A x \in LiveIds : \E i \in 1..Len(L) : L[i].id = x
    BY CompactedFacts DEF L
  <2>3. CASE id \in LiveIds
    <3>1. PICK i \in 1..Len(L) : L[i].id = id
      BY <2>2, <2>3
    <3>2. \A j \in 1..Len(L) : L[j].id = id => j = i
      BY <2>2, <3>1
    <3>3. LiveRow(g, id) = L[i].row
      BY <2>1, <3>1, <3>2, GrownRows
    <3> QED
      BY <2>2, <3>1, <3>3
  <2>4. CASE id \notin LiveIds
    <3>1. \A j \in 1..Len(L) : L[j].id # id
      BY <2>2, <2>4
    <3>2. LiveRow(g, id) = LiveRow(z, id)
      BY <2>1, <3>1, GrownRows
    <3>3. LiveRow(z, id) = None
      BY <1>9 DEF LiveRow, Latest
    <3>4. LiveRow(files, id) = None
      BY <2>4 DEF LiveIds
    <3> QED
      BY <3>2, <3>3, <3>4
  <2> QED
    BY <2>3, <2>4
<1> QED
  BY <1>6, <1>8, <1>9, <1>10, <1>11 DEF g, L, z

\* A compaction of a table with live rows.
LEMMA CompactTableInv ==
    ASSUME NEW n \in 0..MaxChunks, FilesInv(n), RevisionInv, CachesInv(n),
           NEW h \in Handles, CompactTable(h), LiveIds # {}
    PROVE  FilesInv(1)' /\ RevisionInv' /\ CachesInv(1)'
<1> DEFINE L == CompactedLines
           g == CompactedFiles
           z == Nothing
           N == Cardinality(LiveIds)
           k == [next  |-> 1,
                 len   |-> With(z, 0, Length(g[0])),
                 bytes |-> With(z, 0, L),
                 index |-> Index(g)]
<1>1. /\ files' = g /\ nextTx' = DiscoveredTx + N /\ metaChunk' = 1
      /\ cache' = [cache EXCEPT ![h] = k]
      /\ observed' = [observed EXCEPT ![h] = nextTx'] /\ revision' = nextTx'
  BY DEF CompactTable, CompactedCache, Publish
<1>2. nextTx \in Nat \ {0} /\ DiscoveredTx = nextTx
  BY DiscoveredIs DEF FilesInv, HandedOut
<1>3. N \in Nat \ {0}
  <2>1. IsFiniteSet(LiveIds) /\ N \in Nat
    BY RankFacts
  <2>2. N # 0
    BY <2>1, FS_EmptySet
  <2> QED
    BY <2>1, <2>2
<1>4. /\ Chunked(z, 0) /\ Places(z) = {} /\ Chunked(g, 1) /\ Grown(z, g, 0, L)
  BY CompactedGrown
<1>5. L \in Seq(Line) /\ Len(L) = N /\ \A i \in 1..Len(L) : L[i].tx = nextTx + i - 1
  BY CompactedFacts
<1>6. DOMAIN z = {} /\ DOMAIN g = {0} /\ g[0].lines = L
  BY DEF Nothing, CompactedFiles
<1>7. /\ k = [next |-> k.next, len |-> k.len, bytes |-> k.bytes, index |-> k.index]
      /\ k.next = 1 /\ k.index = Index(g)
      /\ k.len = With(z, 0, Length(g[0])) /\ k.bytes = With(z, 0, L)
  OBVIOUS
<1> HIDE DEF L, g, z, k, N
<1>8. InOrder(g) /\ HandedOut(g, nextTx + Len(L))
  <2> DEFINE none == 0
             one == 1
  <2>1. Chunked(z, none) /\ Chunked(g, one) /\ Grown(z, g, none, L)
    BY <1>4
  <2>2. InOrder(z) /\ \A p \in Places(z) : LineAt(z, p).tx < nextTx
    BY <1>4 DEF InOrder
  <2>3. Len(L) # 0
    BY <1>3, <1>5
  <2> HIDE DEF none, one
  <2> QED
    BY <1>2, <1>5, <2>1, <2>2, <2>3, GrownInOrder
<1>9. FilesInv(1)'
  <2>1. Chunked(files', 1) /\ InOrder(files') /\ HandedOut(files', nextTx')
    BY <1>1, <1>2, <1>4, <1>5, <1>8
  <2>2. metaChunk' \in {None} \cup 0..1
    BY <1>1
  <2> QED
    BY <2>1, <2>2 DEF FilesInv, Chunked, InOrder, HandedOut
<1>10. nextTx' \in Nat /\ nextTx' >= nextTx /\ ~(nextTx' <= nextTx)
  BY <1>1, <1>2, <1>3
<1>11. RevisionInv'
  BY <1>1, <1>2, <1>10, PublishesRevision
<1>12. CacheOk(k, g, 1)
  <2>1. \A d \in DOMAIN k.len : d \in DOMAIN g /\ k.len[d] = Length(g[d])
    BY <1>6, <1>7 DEF With
  <2>2. \A d \in DOMAIN k.bytes : d \in DOMAIN g /\ k.bytes[d] = g[d].lines
    BY <1>6, <1>7 DEF With
  <2> QED
    BY <1>7, <2>1, <2>2 DEF CacheOk
<1>13. CachesInv(1)'
  <2> DEFINE one == 1
  <2>1. \A x \in Handles : observed[x] # nextTx'
    BY <1>2, <1>10, RevisionIs
  <2>2. nextTx' # None
    BY <1>10, SentinelAssumption
  <2>3. CacheOk(k, files', one) /\ \A x \in Handles : observed[x] = revision' => CacheOk(cache[x], files', one)
    BY <1>1, <1>12, <2>1
  <2> HIDE DEF one
  <2>4. CachesInv(one)'
    BY <1>1, <2>2, <2>3, CachesStep
  <2> QED
    BY <2>4 DEF one
<1> QED
  BY <1>9, <1>11, <1>13

-------------------------------------------------------------------------------
(* The invariant. *)

\* An empty workspace.
LEMMA InitInv == Init => Inv
<1> SUFFICES ASSUME Init PROVE FilesInv(0) /\ RevisionInv /\ CachesInv(0) /\ 0 \in 0..MaxChunks
  BY DEF Inv
<1>1. /\ files = Nothing /\ metaChunk = None /\ revision = 0 /\ nextTx = 1
      /\ observed = [h \in Handles |-> None] /\ cache = [h \in Handles |-> NoCache]
  BY DEF Init
<1>2. 0 \in 0..MaxChunks /\ 0..(0 - 1) = {}
  BY MaxChunksNat
<1>3. Chunked(files, 0) /\ Places(files) = {}
  <2>1. DOMAIN Nothing = {} /\ Nothing \in [{} -> Chunk]
    BY DEF Nothing
  <2> QED
    BY <1>1, <1>2, <2>1 DEF Chunked, Places
<1>4. FilesInv(0)
  BY <1>1, <1>3 DEF FilesInv, InOrder, HandedOut
<1>5. RevisionInv
  BY <1>1, SentinelAssumption DEF RevisionInv
<1>6. CachesInv(0)
  BY <1>1, SentinelAssumption DEF CachesInv, Coherent
<1> QED
  BY <1>2, <1>4, <1>5, <1>6

\* Every step.
LEMMA NextInv == Inv /\ [Next]_vars => Inv'
<1> SUFFICES ASSUME Inv, [Next]_vars, ~lapsed'
             PROVE  \E m \in 0..MaxChunks : FilesInv(m)' /\ RevisionInv' /\ CachesInv(m)'
  BY DEF Inv
<1>1. ~lapsed
  <2>1. CASE UNCHANGED vars
    BY <2>1 DEF vars
  <2>2. CASE Next
    <3>1. PICK h \in Handles :
            \/ Observe(h) \/ RefuseWrite(h) \/ InitStore(h) \/ CompactTable(h)
            \/ InterruptCompaction(h) \/ \E id \in Ids : Read(h, id)
            \/ \E b \in Batches : Write(h, b) \/ InterruptWrite(h, b) \/ InterruptPreamble(h, b)
      BY <2>2 DEF Next
    <3>2. lapsed' = lapsed \/ (lapsed => lapsed')
      BY <3>1 DEF Observe, RefuseWrite, InitStore, CompactTable, Read, Write, InterruptWrite,
                  InterruptPreamble, InterruptCompaction
    <3> QED
      BY <3>2
  <2> QED
    BY <2>1, <2>2
<1>2. PICK n \in 0..MaxChunks : FilesInv(n) /\ RevisionInv /\ CachesInv(n)
  BY <1>1 DEF Inv
<1>3. CASE UNCHANGED vars
  BY <1>2, <1>3 DEF vars, FilesInv, RevisionInv, CachesInv, InOrder, HandedOut, Coherent
<1>4. ASSUME NEW h \in Handles, Observe(h) \/ \E id \in Ids : Read(h, id)
      PROVE  FilesInv(n)' /\ RevisionInv' /\ CachesInv(n)'
  BY <1>2, <1>4, ObserveInv, ReadInv
<1>5. ASSUME NEW h \in Handles, NEW b \in Batches, Write(h, b)
      PROVE  \E m \in 0..MaxChunks : FilesInv(m)' /\ RevisionInv' /\ CachesInv(m)'
  BY <1>2, <1>5, WriteInv
<1>6. ASSUME NEW h \in Handles, NEW b \in Batches, InterruptWrite(h, b)
      PROVE  \E m \in 0..MaxChunks : FilesInv(m)' /\ RevisionInv' /\ CachesInv(m)'
  BY <1>2, <1>6, InterruptWriteInv
<1>7. ASSUME NEW h \in Handles, NEW b \in Batches, InterruptPreamble(h, b)
      PROVE  \E m \in 0..MaxChunks : FilesInv(m)' /\ RevisionInv' /\ CachesInv(m)'
  BY <1>2, <1>7, InterruptPreambleInv
<1>8. ASSUME NEW h \in Handles, RefuseWrite(h)
      PROVE  FilesInv(n)' /\ RevisionInv' /\ CachesInv(n)'
  BY <1>2, <1>8, RefuseWriteInv
<1>9. ASSUME NEW h \in Handles, InitStore(h)
      PROVE  FilesInv(n)' /\ RevisionInv' /\ CachesInv(n)'
  <2>1. revision # Dirty
    BY <1>9 DEF InitStore
  <2> QED
    BY <1>2, <1>9, <2>1, InitStoreInv
<1>10. ASSUME NEW h \in Handles, CompactTable(h)
       PROVE  \E m \in 0..MaxChunks : FilesInv(m)' /\ RevisionInv' /\ CachesInv(m)'
  <2>1. LiveIds # {} /\ 1 \in 0..MaxChunks
    <3>1. lapsed' = (lapsed \/ LiveIds = {})
      BY <1>10 DEF CompactTable
    <3>2. LiveIds # {}
      BY <3>1
    <3> QED
      BY <3>2, MaxChunksNat
  <2>2. FilesInv(1)' /\ RevisionInv' /\ CachesInv(1)'
    BY <1>2, <1>10, <2>1, CompactTableInv
  <2> QED
    BY <2>1, <2>2
<1>11. ASSUME NEW h \in Handles PROVE ~InterruptCompaction(h)
  BY <1>1 DEF InterruptCompaction
<1> QED
  BY <1>3, <1>4, <1>5, <1>6, <1>7, <1>8, <1>9, <1>10, <1>11 DEF Next

\* The chunks are the first counters, the lines in them those of the transactions
\* handed out, and a coherent handle caches what the chunks hold.
THEOREM Invariant == Spec => []Inv
  BY InitInv, NextInv, PTL DEF Spec

\* The lines of a table are read in the order in which they were committed, however
\* many chunks they fill and whatever writes were interrupted between them
\* (encode_reverse_base36 against append_target).
THEOREM ReadOrder == Spec => []TransactionsInReadOrder
<1>1. Inv => TransactionsInReadOrder
  BY DEF Inv, FilesInv, InOrder, TransactionsInReadOrder
<1> QED
  BY <1>1, Invariant, PTL

\* Every row pointer that a coherent handle keeps reads the live row of its id, from
\* the bytes it cached or from the file (apply_operation and read_row_pointer).
THEOREM PointersRead == Spec => []PointersReadLiveRows
<1>1. Inv => PointersReadLiveRows
  <2> SUFFICES ASSUME Inv, ~lapsed, NEW h \in Handles, Coherent(h), cache[h].index # None, NEW id \in Ids
               PROVE  LET ptr   == cache[h].index[id]
                          lines == IF ptr.chunk \in DOMAIN cache[h].bytes THEN cache[h].bytes[ptr.chunk]
                                   ELSE files[ptr.chunk].lines
                      IN  IF ptr = None THEN LiveRow(files, id) = None
                          ELSE /\ LiveRow(files, id) # None
                               /\ \E line \in LineUnder(lines, ptr) :
                                    line.id = id /\ line.row = LiveRow(files, id)
    BY DEF PointersReadLiveRows
  <2> DEFINE ptr   == cache[h].index[id]
             lines == IF ptr.chunk \in DOMAIN cache[h].bytes THEN cache[h].bytes[ptr.chunk]
                      ELSE files[ptr.chunk].lines
             p     == LatestPlace(files, id)
             l     == files[p[1]].lines
  <2>1. PICK n \in 0..MaxChunks : Chunked(files, n) /\ CacheOk(cache[h], files, n)
    BY DEF Inv, FilesInv, CachesInv
  <2>2. ptr = IF LiveRow(files, id) = None THEN None ELSE PointerTo(files, p)
    <3>1. cache[h].index = Index(files)
      BY <2>1 DEF CacheOk
    <3> QED
      BY <3>1 DEF Index
  <2>3. CASE LiveRow(files, id) = None
    <3>1. ptr = None
      BY <2>2, <2>3
    <3> QED
      BY <2>3, <3>1
  <2>4. CASE LiveRow(files, id) # None
    <3>1. /\ p \in Places(files) /\ LineAt(files, p).id = id
          /\ LineAt(files, p).row = LiveRow(files, id)
      BY <2>1, <2>4, LiveRowFacts
    <3> HIDE DEF p
    <3>2. /\ p[1] \in DOMAIN files /\ p[2] \in 1..Len(l) /\ LineAt(files, p) = l[p[2]]
          /\ LineAt(files, p) \in Line
      BY <2>1, <3>1, PlaceFacts
    <3>3. l \in Seq(Line)
      BY <2>1, <3>2, ChunkFacts
    <3>4. /\ ptr = PointerTo(files, p) /\ ptr.chunk = p[1]
          /\ ptr.offset = Offset(l, p[2]) /\ ptr.len = Size(l[p[2]])
      BY <2>2, <2>4, <3>2 DEF PointerTo
    <3>5. ptr # None
      <4>1. Offset(l, p[2]) \in Nat
        <5>1. Len(l) \in Nat /\ p[2] - 1 \in 0..Len(l)
          BY <3>2, <3>3
        <5> HIDE DEF l
        <5> QED
          BY <3>3, <5>1, EndsFacts DEF Offset
      <4>2. Size(l[p[2]]) \in Nat /\ p[1] \in Nat
        <5>1. Size(LineAt(files, p)) \in Nat
          BY <3>2, SizeFacts
        <5>2. p[1] \in Nat
          BY <2>1, <3>2, ChunkFacts
        <5> QED
          BY <3>2, <5>1, <5>2
      <4>3. PointerTo(files, p) \in [chunk : Nat, offset : Nat, len : Nat]
        BY <3>2, <4>1, <4>2 DEF PointerTo
      <4> QED
        BY <3>4, <4>3, SentinelAssumption
    <3>6. lines = l
      BY <2>1, <3>4 DEF CacheOk
    <3> HIDE DEF lines, l
    <3>7. l[p[2]] \in LineUnder(l, ptr)
      <4>1. p[2] \in DOMAIN l
        BY <3>2, <3>3
      <4> HIDE DEF ptr
      <4> QED
        BY <3>4, <4>1 DEF LineUnder
    <3>8. l[p[2]].id = id /\ l[p[2]].row = LiveRow(files, id)
      BY <3>1, <3>2
    <3>9. \E line \in LineUnder(lines, ptr) : line.id = id /\ line.row = LiveRow(files, id)
      BY <3>6, <3>7, <3>8
    <3> QED
      BY <2>4, <3>5, <3>9 DEF lines
  <2> QED
    BY <2>3, <2>4
<1> QED
  BY <1>1, Invariant, PTL

-------------------------------------------------------------------------------
(* What a step does to the lines. *)

Appends == \A p \in Places(files) :
             /\ p \in Places(files') /\ LineAt(files', p) = LineAt(files, p)
             /\ \A q \in Places(files') \ Places(files) : Earlier(p, q)

KeepsRows == \A id \in Ids : LiveRow(files', id) = LiveRow(files, id)

\* A chunk that grows at its end changes no line.
LEMMA GrowthAppends ==
    ASSUME NEW n, FilesInv(n), NEW m, Chunked(files', m), NEW c, NEW ls, Grown(files, files', c, ls)
    PROVE  Appends
<1>1. Chunked(files, n)
  BY DEF FilesInv
<1>2. /\ \A p \in Places(files) : p \in Places(files') /\ LineAt(files', p) = LineAt(files, p)
      /\ \A q \in Places(files') : q \in Places(files) \/ \E i \in 1..Len(ls) : q = At(files, c, i)
      /\ \A p \in Places(files), i \in 1..Len(ls) : Earlier(p, At(files, c, i))
  BY <1>1, GrownPlaces
<1> QED
  BY <1>2 DEF Appends

\* Writes only append, however they end.
LEMMA StepAppends ==
    ASSUME NEW n \in 0..MaxChunks, FilesInv(n), CachesInv(n), NEW h \in Handles, NEW b \in Batches,
           Write(h, b) \/ InterruptWrite(h, b) \/ InterruptPreamble(h, b)
    PROVE  Appends
<1> DEFINE t == TargetOf(h, b)
           all == Stamped(b)
<1>1. MayWrite /\ Available(t)
  BY DEF Write, InterruptWrite, InterruptPreamble, Appendable
<1>2. IsTarget(t, n)
  BY <1>1, TargetFacts DEF TargetOf
<1>3. all \in Seq(Line) /\ Len(all) = Len(b) /\ Len(b) \in Nat
  BY StampedFacts DEF FilesInv, HandedOut
<1>4. ASSUME NEW ls \in Seq(Line), NEW torn \in BOOLEAN, files' = Appended(t, ls, torn)
      PROVE  Appends
  <2> HIDE DEF t
  <2>1. Chunked(files', t.next) /\ Grown(files, files', t.chunk, ls)
    BY <1>2, <1>4, AppendedFacts
  <2> QED
    BY <2>1, GrowthAppends
<1>5. CASE Write(h, b)
  <2>1. files' = Appended(t, all, FALSE)
    BY <1>5 DEF Write
  <2> HIDE DEF t, all
  <2> DEFINE no == FALSE
  <2>2. no \in BOOLEAN /\ files' = Appended(t, all, no)
    BY <2>1
  <2> HIDE DEF no
  <2> QED
    BY <1>3, <1>4, <2>2
<1>6. CASE InterruptWrite(h, b)
  <2>1. PICK i \in 0..Len(b), torn \in BOOLEAN : files' = Appended(t, SubSeq(all, 1, i), torn)
    BY <1>6 DEF InterruptWrite
  <2> HIDE DEF t, all
  <2>2. SubSeq(all, 1, i) \in Seq(Line)
    BY <1>3
  <2> QED
    BY <1>4, <2>1, <2>2
<1>7. CASE InterruptPreamble(h, b)
  <2> DEFINE chunk == [readable |-> FALSE, torn |-> TRUE, lines |-> <<>>]
             m == n + 1
             ls == <<>>
  <2>1. files' = With(PreparedFiles, t.chunk, chunk) /\ t.isNew
    BY <1>7 DEF InterruptPreamble
  <2> HIDE DEF t
  <2>2. t.chunk = n /\ n < MaxChunks
    BY <1>2, <2>1 DEF IsTarget
  <2>3. chunk \in Chunk /\ chunk.lines = <<>>
    BY DEF Chunk
  <2> HIDE DEF chunk
  <2>4. Chunked(files', m) /\ Grown(files, files', n, ls)
    BY <2>1, <2>2, <2>3, PreambleGrows
  <2> HIDE DEF m, ls
  <2> QED
    BY <2>4, GrowthAppends
<1> QED
  BY <1>5, <1>6, <1>7

\* A step adds lines behind all others, or it leaves every row as it was: no
\* rollover, repair or completed compaction changes a row (append_target,
\* compact_table, truncate_incomplete_tail).
THEOREM LinesAppended == Spec => LinesOnlyAppended
<1>1. ASSUME Inv, ~lapsed, [Next]_vars
      PROVE  (lapsed' /\ faults' = faults + 1) \/ Appends \/ KeepsRows
  <2>1. PICK n \in 0..MaxChunks : FilesInv(n) /\ RevisionInv /\ CachesInv(n)
    BY <1>1 DEF Inv
  <2>2. CASE UNCHANGED files
    BY <2>2 DEF KeepsRows
  <2>3. ASSUME NEW h \in Handles, RefuseWrite(h) PROVE KeepsRows
    <3>1. /\ Chunked(files, n) /\ Chunked(files', n)
          /\ \A c \in DOMAIN files : files'[c].lines = files[c].lines
      BY <2>1, <2>3, PreparedFacts DEF RefuseWrite, FilesInv
    <3> QED
      BY <3>1, SameLines DEF KeepsRows
  <2>4. ASSUME NEW h \in Handles, CompactTable(h) PROVE KeepsRows
    BY <2>1, <2>4, CompactedGrown DEF CompactTable, KeepsRows
  <2>5. ASSUME NEW h \in Handles, NEW b \in Batches,
               Write(h, b) \/ InterruptWrite(h, b) \/ InterruptPreamble(h, b)
        PROVE  Appends
    BY <2>1, <2>5, StepAppends
  <2>6. ASSUME NEW h \in Handles, Observe(h) \/ InitStore(h) \/ \E id \in Ids : Read(h, id)
        PROVE  UNCHANGED files
    BY <2>6 DEF Observe, InitStore, Read
  <2>7. ASSUME NEW h \in Handles, InterruptCompaction(h) PROVE lapsed' /\ faults' = faults + 1
    BY <2>7 DEF InterruptCompaction
  <2> QED
    BY <1>1, <2>2, <2>3, <2>4, <2>5, <2>6, <2>7 DEF Next, vars
<1>2. Inv /\ [Next]_vars =>
        [\/ lapsed
         \/ lapsed' /\ faults' = faults + 1
         \/ \A p \in Places(files) :
              /\ p \in Places(files') /\ LineAt(files', p) = LineAt(files, p)
              /\ \A q \in Places(files') \ Places(files) : Earlier(p, q)
         \/ \A id \in Ids : LiveRow(files', id) = LiveRow(files, id)]_files
  BY <1>1 DEF Appends, KeepsRows
<1> QED
  BY <1>2, Invariant, PTL DEF Spec, LinesOnlyAppended

\* The latest line of an id is the only one.
LEMMA OneLatest ==
    ASSUME NEW f, NEW n, Chunked(f, n), NEW id,
           NEW p \in Latest(f, id), NEW q \in Latest(f, id)
    PROVE  p = q
<1>1. /\ p \in Places(f) /\ q \in Places(f) /\ ~Earlier(p, q) /\ ~Earlier(q, p)
  BY DEF Latest
<1>2. /\ p[1] \in Counters /\ p = <<p[1], p[2]>> /\ p[2] \in Nat
      /\ q[1] \in Counters /\ q = <<q[1], q[2]>> /\ q[2] \in Nat
  <2>1. \A r \in Places(f) : r[1] \in DOMAIN f /\ r[1] \in Counters /\ r = <<r[1], r[2]>>
                             /\ r[2] \in 1..Len(f[r[1]].lines)
    BY PlaceFacts
  <2> QED
    BY <1>1, <2>1
<1>3. /\ ~(p[1] < q[1]) /\ ~(p[1] = q[1] /\ p[2] < q[2])
      /\ ~(q[1] < p[1]) /\ ~(q[1] = p[1] /\ q[2] < p[2])
  BY <1>1, <1>2, EarlierIs
<1>4. p[1] \in Int /\ q[1] \in Int
  BY <1>2, MaxChunksNat DEF Counters
<1>5. p[1] = q[1] /\ p[2] = q[2]
  BY <1>2, <1>3, <1>4
<1> QED
  BY <1>2, <1>5

\* Removing the chunks in read order removes older lines before the ones that
\* overrule them.
LEMMA RemovedRows ==
    ASSUME NEW n, Chunked(files, n), NEW c \in DOMAIN files, NEW id
    PROVE  LiveRow(AfterRemoving(c), id) \in {LiveRow(files, id), None}
<1> DEFINE g == AfterRemoving(c)
<1>1. /\ DOMAIN g = {e \in DOMAIN files : ReadBefore(c, e)}
      /\ \A e \in DOMAIN g : g[e] = files[e]
  BY DEF AfterRemoving
<1>2. DOMAIN files \subseteq Counters /\ Counters \subseteq Int
  <2>1. DOMAIN files \subseteq Counters
    BY ChunkFacts
  <2> QED
    BY <2>1, MaxChunksNat DEF Counters
<1>3. \A e \in DOMAIN files : ReadBefore(c, e) <=> c < e
  BY <1>2, NamesInOrder
<1> HIDE DEF g
<1>4. ASSUME NEW p \in Places(g)
      PROVE  p \in Places(files) /\ LineAt(g, p) = LineAt(files, p) /\ c < p[1]
  <2>1. PICK e \in DOMAIN g : p \in {e} \X DOMAIN g[e].lines
    BY DEF Places
  <2>2. e \in DOMAIN files /\ c < e /\ g[e] = files[e] /\ p[1] = e
    BY <1>1, <1>3, <2>1
  <2> QED
    BY <2>1, <2>2 DEF Places, LineAt
<1>5. ASSUME NEW p \in Places(files), c < p[1]
      PROVE  p \in Places(g)
  <2>1. PICK e \in DOMAIN files : p \in {e} \X DOMAIN files[e].lines
    BY DEF Places
  <2>2. p[1] = e
    BY <2>1
  <2>3. e \in DOMAIN g /\ g[e] = files[e]
    BY <1>1, <1>3, <1>5, <2>2
  <2> QED
    BY <2>1, <2>3 DEF Places
<1>6. ASSUME NEW p \in Latest(g, id) PROVE p \in Latest(files, id)
  <2>1. p \in Places(g) /\ LineAt(g, p).id = id
    BY DEF Latest
  <2>2. p \in Places(files) /\ LineAt(files, p).id = id /\ c < p[1]
    BY <1>4, <2>1
  <2>3. ASSUME NEW q \in Places(files), LineAt(files, q).id = id PROVE ~Earlier(p, q)
    <3>1. p[1] \in Counters /\ q[1] \in Counters
      BY <2>2, PlaceFacts
    <3>2. CASE c < q[1]
      <4>1. q \in Places(g) /\ LineAt(g, q).id = id
        BY <1>4, <1>5, <2>3, <3>2
      <4> QED
        BY <4>1 DEF Latest
    <3>3. CASE ~(c < q[1])
      <4>1. p[1] \in Int /\ q[1] \in Int /\ c \in Int
        BY <1>2, <3>1
      <4>2. ~(p[1] < q[1]) /\ p[1] # q[1]
        BY <2>2, <3>3, <4>1
      <4> QED
        BY <3>1, <4>2, EarlierIs
    <3> QED
      BY <3>2, <3>3
  <2> QED
    BY <2>2, <2>3 DEF Latest
<1>7. CASE Latest(g, id) = {}
  BY <1>7 DEF LiveRow, g
<1>8. CASE Latest(g, id) # {}
  <2>1. LatestPlace(g, id) \in Latest(g, id)
    BY <1>8 DEF LatestPlace
  <2>2. LatestPlace(g, id) \in Latest(files, id)
    BY <1>6, <2>1
  <2>3. LatestPlace(files, id) \in Latest(files, id)
    BY <2>2 DEF LatestPlace
  <2>4. LatestPlace(g, id) = LatestPlace(files, id)
    BY <2>2, <2>3, OneLatest
  <2>5. LatestPlace(g, id) \in Places(g)
    BY <2>1 DEF Latest
  <2>6. LiveRow(g, id) = LineAt(g, LatestPlace(g, id)).row
    BY <1>8 DEF LiveRow
  <2>7. LiveRow(files, id) = LineAt(files, LatestPlace(files, id)).row
    BY <2>3 DEF LiveRow
  <2> QED
    BY <1>4, <2>4, <2>5, <2>6, <2>7 DEF g
<1> QED
  BY <1>7, <1>8

\* Wherever a compaction dies, the rows it leaves are live rows as they were:
\* nothing that was deleted or replaced comes back (compact_table,
\* six_files_in_read_order).
THEOREM OldRowsStayGone == Spec => NoOldRowReturns
<1> DEFINE Kept == \A id \in Ids : LiveRow(files', id) \in {LiveRow(files, id), None}
<1>1. ASSUME Inv, ~lapsed, lapsed', [Next]_vars PROVE Kept
  <2>1. PICK n \in 0..MaxChunks : FilesInv(n)
    BY <1>1 DEF Inv
  <2>2. PICK h \in Handles : InitStore(h) \/ CompactTable(h) \/ InterruptCompaction(h)
    <3>1. ~UNCHANGED lapsed
      BY <1>1, Zenon
    <3> QED
      BY <1>1, <3>1 DEF Next, vars, Observe, RefuseWrite, Read, Write, InterruptWrite,
                        InterruptPreamble
  <2>3. CASE InitStore(h)
    BY <2>3 DEF InitStore
  <2>4. CASE files' = CompactedFiles
    BY <2>1, <2>4, CompactedGrown
  <2>5. ASSUME NEW c \in DOMAIN files, files' = AfterRemoving(c) PROVE Kept
    BY <2>1, <2>5, RemovedRows DEF FilesInv
  <2> QED
    BY <2>2, <2>3, <2>4, <2>5 DEF CompactTable, InterruptCompaction
<1>2. Inv /\ [Next]_vars => [~lapsed /\ lapsed' => Kept]_files
  BY <1>1
<1> QED
  BY <1>2, Invariant, PTL DEF Spec, NoOldRowReturns
===============================================================================
