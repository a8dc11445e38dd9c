---------------------------- MODULE SixFormat_proofs ----------------------------
(***************************************************************************)
(* What is written to a chunk is what a scan, a row pointer and an index   *)
(* file of it return, for any ids, values and batches and wherever an      *)
(* append or an index file stopped.                                        *)
(***************************************************************************)
EXTENDS SixFormat, WellFoundedInduction, TLAPS

-------------------------------------------------------------------------------
(* Induction and recursion over numbers. *)

\* A set of numbers has a least one.
LEMMA LeastOf == ASSUME NEW S \in SUBSET Nat, S # {} PROVE \E x \in S : \A y \in S : x <= y
<1> DEFINE R == OpToRel(<, Nat)
<1>1. PICK x \in S : \A y \in S : <<y, x>> \notin R
  BY NatLessThanWellFounded, WFMin
<1>2. \A y \in S : y < x => <<y, x>> \in R
  BY DEF OpToRel
<1> HIDE DEF R
<1>3. \A y \in S : ~(y < x)
  BY <1>1, <1>2
<1> QED
  BY <1>3

\* A set with 0 and each number's successor up to n has the numbers up to n.
LEMMA UpwardsTo ==
    ASSUME NEW n \in Nat, NEW S, 0 \in S, \A k \in 0..n : k \in S /\ k < n => k + 1 \in S
    PROVE  0..n \subseteq S
<1> DEFINE Bad == (0..n) \ S
<1> SUFFICES ASSUME Bad # {} PROVE FALSE
  OBVIOUS
<1>1. PICK x \in Bad : \A y \in Bad : x <= y
  <2>1. Bad \in SUBSET Nat
    OBVIOUS
  <2> HIDE DEF Bad
  <2> QED
    BY <2>1, LeastOf
<1>2. x # 0 /\ x \in 1..n /\ x \notin S
  OBVIOUS
<1>3. x - 1 \in 0..n /\ x - 1 < n /\ (x - 1) + 1 = x /\ ~(x <= x - 1)
  BY <1>2
<1>4. x - 1 \in S
  BY <1>1, <1>3
<1> QED
  BY <1>2, <1>3, <1>4

\* f is the function on 0..n with f[0] = a that takes `step' from each number to the next.
Follows(f, S, a, step, n) ==
    f \in [0..n -> S] /\ f[0] = a /\ \A i \in 1..n : f[i] = step[i][f[i - 1]]

\* Such a function exists.
LEMMA Recursion ==
    ASSUME NEW S, NEW a \in S, NEW step \in [Nat -> [S -> S]], NEW n \in Nat
    PROVE  \E f : Follows(f, S, a, step, n)
<1> DEFINE Ok(k) == \E f \in [0..k -> S] : f[0] = a /\ \A i \in 1..k : f[i] = step[i][f[i - 1]]
           Good == {k \in 0..n : Ok(k)}
<1>1. Ok(0)
  <2> DEFINE f == [i \in 0..0 |-> a]
  <2>1. f \in [0..0 -> S] /\ f[0] = a
    OBVIOUS
  <2>2. \A i \in 1..0 : f[i] = step[i][f[i - 1]]
    OBVIOUS
  <2> HIDE DEF f
  <2> QED
    BY <2>1, <2>2
<1>2. ASSUME NEW k \in Nat, Ok(k) PROVE Ok(k + 1)
  <2>1. PICK f \in [0..k -> S] : f[0] = a /\ \A i \in 1..k : f[i] = step[i][f[i - 1]]
    BY <1>2
  <2> DEFINE g == [i \in 0..(k + 1) |-> IF i = k + 1 THEN step[k + 1][f[k]] ELSE f[i]]
  <2>2. g \in [0..(k + 1) -> S]
    <3>1. f[k] \in S /\ k + 1 \in Nat
      OBVIOUS
    <3>2. step[k + 1][f[k]] \in S
      BY <3>1
    <3> QED
      BY <3>2
  <2>3. g[0] = a
    BY <2>1
  <2>4. \A i \in 1..(k + 1) : g[i] = step[i][g[i - 1]]
    BY <2>1
  <2> QED
    BY <2>2, <2>3, <2>4
<1> HIDE DEF Ok
<1>3. 0..n \subseteq Good
  <2>1. 0 \in Good /\ \A k \in 0..n : k \in Good /\ k < n => k + 1 \in Good
    BY <1>1, <1>2
  <2> HIDE DEF Good
  <2> QED
    BY <2>1, UpwardsTo
<1>4. Ok(n)
  BY <1>3
<1> QED
  BY <1>4 DEF Ok, Follows
\* Two functions that start alike and go on alike are alike.
StepAlike(f, g, n) == f[0] = g[0] /\ \A k \in 1..n : f[k - 1] = g[k - 1] => f[k] = g[k]

\* Two functions that start alike and take the same steps are equal.
LEMMA Alike ==
    ASSUME NEW n \in Nat, NEW f, NEW g, StepAlike(f, g, n)
    PROVE  \A k \in 0..n : f[k] = g[k]
<1> DEFINE Same == {k \in 0..n : f[k] = g[k]}
<1>1. 0 \in Same
  BY DEF StepAlike
<1>2. ASSUME NEW k \in 0..n, k \in Same, k < n PROVE k + 1 \in Same
  <2>1. k + 1 \in 1..n /\ (k + 1) - 1 = k
    BY <1>2
  <2> QED
    BY <1>2, <2>1 DEF StepAlike
<1>3. 0..n \subseteq Same
  <2> HIDE DEF Same
  <2> QED
    BY <1>1, <1>2, UpwardsTo
<1> QED
  BY <1>3

\* Three parts of a sequence.
LEMMA Associative ==
    ASSUME NEW B, NEW s \in Seq(B), NEW t \in Seq(B), NEW u \in Seq(B)
    PROVE  (s \o t) \o u = s \o (t \o u) /\ s \o t \in Seq(B)
OBVIOUS

\* Sequences of the same elements are the same.
LEMMA SameElements ==
    ASSUME NEW B, NEW s \in Seq(B), NEW t \in Seq(B), Len(s) = Len(t),
           \A i \in 1..Len(s) : s[i] = t[i]
    PROVE  s = t
<1>1. /\ s = [i \in 1..Len(s) |-> s[i]] /\ t = [i \in 1..Len(t) |-> t[i]]
  OBVIOUS
<1> QED
  BY <1>1

\* One element more.
LEMMA AppendIs ==
    ASSUME NEW B, NEW s \in Seq(B), NEW x \in B
    PROVE  /\ Append(s, x) \in Seq(B) /\ Len(Append(s, x)) = Len(s) + 1 /\ Len(s) \in Nat
           /\ Append(s, x)[Len(s) + 1] = x /\ \A i \in 1..Len(s) : Append(s, x)[i] = s[i]
OBVIOUS

\* The elements of a concatenation.
LEMMA CatIs ==
    ASSUME NEW B, NEW s \in Seq(B), NEW t \in Seq(B)
    PROVE  /\ s \o t \in Seq(B) /\ Len(s \o t) = Len(s) + Len(t) /\ Len(s) \in Nat /\ Len(t) \in Nat
           /\ (\A i \in 1..Len(s) : (s \o t)[i] = s[i])
           /\ \A i \in 1..Len(t) : (s \o t)[Len(s) + i] = t[i]
OBVIOUS

\* A concatenation with one element appends it.
LEMMA OneMore ==
    ASSUME NEW B, NEW s \in Seq(B), NEW a \in B PROVE s \o <<a>> = Append(s, a)
OBVIOUS

\* Sequences of a few elements.
LEMMA AppendOne == ASSUME NEW B, NEW a \in B PROVE Append(<<>>, a) = <<a>>
OBVIOUS

\* A second element.
LEMMA AppendTwo ==
    ASSUME NEW B, NEW a \in B, NEW b \in B PROVE Append(<<a>>, b) = <<a, b>>
<1> DEFINE s == <<a>>
           t == Append(s, b)
<1>1. s \in Seq(B) /\ Len(s) = 1 /\ s[1] = a
  OBVIOUS
<1> HIDE DEF s
<1>2. t \in Seq(B) /\ Len(t) = 2 /\ t[2] = b /\ \A i \in 1..1 : t[i] = s[i]
  <2>1. s \in Seq(B) /\ b \in B
    BY <1>1
  <2>2. t \in Seq(B) /\ Len(t) = Len(s) + 1 /\ t[Len(s) + 1] = b /\ \A i \in 1..Len(s) : t[i] = s[i]
    BY <2>1, AppendIs
  <2> QED
    BY <1>1, <2>2
<1> HIDE DEF t
<1>3. t[1] = a /\ t[2] = b
  BY <1>1, <1>2
<1>4. t = <<a, b>>
  BY <1>2, <1>3
<1> QED
  BY <1>4 DEF t, s

\* A third one.
LEMMA AppendThree ==
    ASSUME NEW B, NEW a \in B, NEW b \in B, NEW c \in B PROVE Append(<<a, b>>, c) = <<a, b, c>>
<1> DEFINE s == <<a, b>>
           t == Append(s, c)
<1>1. s \in Seq(B) /\ Len(s) = 2 /\ s[1] = a /\ s[2] = b
  OBVIOUS
<1> HIDE DEF s
<1>2. t \in Seq(B) /\ Len(t) = 3 /\ t[3] = c /\ \A i \in 1..2 : t[i] = s[i]
  <2>1. s \in Seq(B) /\ c \in B
    BY <1>1
  <2>2. t \in Seq(B) /\ Len(t) = Len(s) + 1 /\ t[Len(s) + 1] = c /\ \A i \in 1..Len(s) : t[i] = s[i]
    BY <2>1, AppendIs
  <2> QED
    BY <1>1, <2>2
<1> HIDE DEF t
<1>3. t[1] = a /\ t[2] = b /\ t[3] = c
  BY <1>1, <1>2
<1>4. t = <<a, b, c>>
  BY <1>2, <1>3
<1> QED
  BY <1>4 DEF t, s

\* A fourth one.
LEMMA AppendFour ==
    ASSUME NEW B, NEW a \in B, NEW b \in B, NEW c \in B, NEW d \in B PROVE Append(<<a, b, c>>, d) = <<a, b, c, d>>
<1> DEFINE s == <<a, b, c>>
           t == Append(s, d)
<1>1. s \in Seq(B) /\ Len(s) = 3 /\ s[1] = a /\ s[2] = b /\ s[3] = c
  OBVIOUS
<1> HIDE DEF s
<1>2. t \in Seq(B) /\ Len(t) = 4 /\ t[4] = d /\ \A i \in 1..3 : t[i] = s[i]
  <2>1. s \in Seq(B) /\ d \in B
    BY <1>1
  <2>2. t \in Seq(B) /\ Len(t) = Len(s) + 1 /\ t[Len(s) + 1] = d /\ \A i \in 1..Len(s) : t[i] = s[i]
    BY <2>1, AppendIs
  <2> QED
    BY <1>1, <2>2
<1> HIDE DEF t
<1>3. t[1] = a /\ t[2] = b /\ t[3] = c /\ t[4] = d
  BY <1>1, <1>2
<1>4. t = <<a, b, c, d>>
  BY <1>2, <1>3
<1> QED
  BY <1>4 DEF t, s

\* Sequences built from the empty one by Append are all there are.
LEMMA ByAppending ==
    ASSUME NEW B, NEW S, <<>> \in S,
           \A s \in Seq(B), x \in B : s \in S => Append(s, x) \in S
    PROVE  Seq(B) \subseteq S
<1> SUFFICES ASSUME NEW s \in Seq(B) PROVE s \in S
  OBVIOUS
<1> DEFINE n == Len(s)
           Good == {k \in 0..n : SubSeq(s, 1, k) \in S}
<1>1. n \in Nat /\ SubSeq(s, 1, 0) = <<>> /\ SubSeq(s, 1, n) = s
  OBVIOUS
<1>2. ASSUME NEW k \in 0..n, k < n
      PROVE  /\ SubSeq(s, 1, k) \in Seq(B) /\ s[k + 1] \in B
             /\ SubSeq(s, 1, k + 1) = Append(SubSeq(s, 1, k), s[k + 1])
  BY <1>2
<1> HIDE DEF n
<1>3. 0 \in Good
  <2>1. 0 \in 0..n
    BY <1>1
  <2>2. SubSeq(s, 1, 0) \in S
    BY <1>1, Zenon
  <2> QED
    BY <2>1, <2>2
<1>4. ASSUME NEW k \in 0..n, k \in Good, k < n PROVE k + 1 \in Good
  <2>1. SubSeq(s, 1, k) \in S
    BY <1>4
  <2>2. SubSeq(s, 1, k + 1) \in S
    BY <1>2, <1>4, <2>1
  <2>3. k + 1 \in 0..n
    BY <1>1, <1>4
  <2> QED
    BY <2>2, <2>3
<1>5. 0..n \subseteq Good
  <2> HIDE DEF Good
  <2> QED
    BY <1>1, <1>3, <1>4, UpwardsTo
<1>6. n \in Good
  BY <1>1, <1>5
<1> QED
  BY <1>1, <1>6

-------------------------------------------------------------------------------
(* Concat. *)

\* Concat is the last value of a run that adds one sequence at a time.
LEMMA ConcatIs ==
    ASSUME NEW B, NEW ss \in Seq(Seq(B))
    PROVE  \E r \in [0..Len(ss) -> Seq(B)] :
             /\ r[0] = <<>> /\ \A k \in 1..Len(ss) : r[k] = r[k - 1] \o ss[k]
             /\ Concat(ss) = r[Len(ss)]
<1> DEFINE S == Seq(B)
           n == Len(ss)
           e == <<>>
           piece == [k \in Nat |-> IF k \in 1..n THEN ss[k] ELSE <<>>]
           step == [k \in Nat |-> [x \in S |-> x \o piece[k]]]
           r == CHOOSE g : g = [k \in 0..n |-> IF k = 0 THEN <<>> ELSE g[k - 1] \o ss[k]]
<1>1. n \in Nat /\ e \in S /\ (\A k \in 1..n : ss[k] \in S) /\ \A x, y \in S : x \o y \in S
  OBVIOUS
<1>2. Concat(ss) = r[n]
  BY DEF Concat
<1> HIDE DEF n, S
<1>3. piece \in [Nat -> S] /\ \A k \in 1..n : k \in Nat /\ k - 1 \in 0..n /\ k \in 0..n /\ piece[k] = ss[k]
  BY <1>1
<1> HIDE DEF piece
<1>4. step \in [Nat -> [S -> S]]
  BY <1>1, <1>3
<1>5. PICK f : Follows(f, S, e, step, n)
  <2> HIDE DEF e, step
  <2> QED
    BY <1>1, <1>4, Recursion
<1>6. f \in [0..n -> S] /\ f[0] = <<>> /\ \A k \in 1..n : f[k] = step[k][f[k - 1]]
  BY <1>5 DEF Follows
<1>7. \A k \in 1..n : f[k] = f[k - 1] \o ss[k]
  BY <1>3, <1>6
<1>8. f = [k \in 0..n |-> IF k = 0 THEN <<>> ELSE f[k - 1] \o ss[k]]
  <2>1. \A k \in 0..n : k = 0 \/ k \in 1..n
    BY <1>1
  <2> QED
    BY <1>6, <1>7, <2>1
<1>9. r = [k \in 0..n |-> IF k = 0 THEN <<>> ELSE r[k - 1] \o ss[k]]
  BY <1>8
<1> HIDE DEF r
<1>10. r[0] = <<>> /\ \A k \in 1..n : r[k] = r[k - 1] \o ss[k]
  <2>1. 0 \in 0..n /\ \A k \in 1..n : k # 0
    BY <1>1
  <2> QED
    BY <1>3, <1>9, <2>1
<1>11. \A k \in 0..n : r[k] = f[k]
  <2>1. \A k \in 1..n : r[k - 1] = f[k - 1] => r[k] = f[k]
    BY <1>7, <1>10
  <2>2. r[0] = f[0]
    BY <1>6, <1>10
  <2> QED
    <3>1. StepAlike(r, f, n)
      BY <2>1, <2>2 DEF StepAlike
    <3> QED
      BY <1>1, <3>1, Alike
<1>12. r \in [0..n -> S]
  BY <1>6, <1>9, <1>11
<1> QED
  BY <1>2, <1>10, <1>12 DEF n, S

\* No sequences concatenate to nothing.
LEMMA ConcatEmpty == Concat(<<>>) = <<>>
<1> DEFINE e == <<>>
<1>1. e \in Seq(Seq({})) /\ Len(e) = 0
  OBVIOUS
<1> HIDE DEF e
<1>2. Concat(e) = <<>>
  BY <1>1, ConcatIs
<1> QED
  BY <1>2 DEF e

\* One more sequence comes after the concatenation of the others.
LEMMA ConcatAppend ==
    ASSUME NEW B, NEW ss \in Seq(Seq(B)), NEW x \in Seq(B)
    PROVE  Concat(ss) \in Seq(B) /\ Concat(Append(ss, x)) = Concat(ss) \o x
<1> DEFINE t == Append(ss, x)
           n == Len(ss)
<1>1. /\ t \in Seq(Seq(B)) /\ n \in Nat /\ Len(t) = n + 1 /\ t[n + 1] = x
      /\ \A k \in 1..n : t[k] = ss[k]
  OBVIOUS
<1> HIDE DEF t
<1>2. PICK r \in [0..n -> Seq(B)] :
             /\ r[0] = <<>> /\ \A k \in 1..n : r[k] = r[k - 1] \o ss[k]
             /\ Concat(ss) = r[n]
  BY ConcatIs
<1>3. PICK q \in [0..Len(t) -> Seq(B)] :
             /\ q[0] = <<>> /\ \A k \in 1..Len(t) : q[k] = q[k - 1] \o t[k]
             /\ Concat(t) = q[Len(t)]
  BY <1>1, ConcatIs
<1> HIDE DEF n
<1>4. \A k \in 0..n : r[k] = q[k]
  <2>1. \A k \in 1..n : k \in 1..Len(t)
    BY <1>1
  <2>2. \A k \in 1..n : r[k - 1] = q[k - 1] => r[k] = q[k]
    BY <1>1, <1>2, <1>3, <2>1
  <2>3. r[0] = q[0]
    BY <1>2, <1>3
  <2> QED
    <3>1. StepAlike(r, q, n)
      BY <2>2, <2>3 DEF StepAlike
    <3>2. n \in Nat
      BY <1>1
    <3> QED
      BY <3>1, <3>2, Alike
<1>5. q[n + 1] = q[n] \o x
  <2>1. n + 1 \in 1..Len(t) /\ (n + 1) - 1 = n
    BY <1>1
  <2> QED
    BY <1>1, <1>3, <2>1
<1>6. Concat(ss) \in Seq(B) /\ r[n] = q[n] /\ Concat(t) = q[n + 1]
  BY <1>1, <1>2, <1>3, <1>4
<1> QED
  BY <1>2, <1>5, <1>6 DEF t

\* A concatenation of sequences over B is one over B.
LEMMA ConcatTyped == ASSUME NEW B, NEW ss \in Seq(Seq(B)) PROVE Concat(ss) \in Seq(B)
<1>1. <<>> \in Seq(B)
  OBVIOUS
<1> QED
  BY <1>1, ConcatAppend

\* A sequence is what it starts with and what follows.
LEMMA CutIs ==
    ASSUME NEW S, NEW s \in Seq(S), NEW n \in 0..Len(s)
    PROVE  /\ SubSeq(s, 1, n) \in Seq(S) /\ Len(SubSeq(s, 1, n)) = n
           /\ SubSeq(s, n + 1, Len(s)) \in Seq(S) /\ Len(SubSeq(s, n + 1, Len(s))) = Len(s) - n
           /\ s = SubSeq(s, 1, n) \o SubSeq(s, n + 1, Len(s))
           /\ \A i \in 1..n : SubSeq(s, 1, n)[i] = s[i]
<1> DEFINE f == SubSeq(s, 1, n)
           g == SubSeq(s, n + 1, Len(s))
<1>1. f \in Seq(S) /\ Len(f) = n /\ \A i \in 1..n : f[i] = s[i]
  OBVIOUS
<1>2. g \in Seq(S) /\ Len(g) = Len(s) - n /\ \A i \in 1..(Len(s) - n) : g[i] = s[n + i]
  OBVIOUS
<1> HIDE DEF f, g
<1>3. /\ f \o g \in Seq(S) /\ Len(f \o g) = Len(f) + Len(g) /\ (\A i \in 1..Len(f) : (f \o g)[i] = f[i])
      /\ \A i \in 1..Len(g) : (f \o g)[Len(f) + i] = g[i]
  BY <1>1, <1>2, CatIs
<1> DEFINE h == f \o g
<1> HIDE DEF h
<1>4. h \in Seq(S) /\ Len(h) = Len(s) /\ Len(s) \in Nat /\ n \in Nat
  BY <1>1, <1>2, <1>3 DEF h
<1>5. \A i \in 1..Len(s) : h[i] = s[i]
  <2> TAKE i \in 1..Len(s)
  <2>1. CASE i \in 1..n
    BY <1>1, <1>3, <2>1 DEF h
  <2>2. CASE i \notin 1..n
    <3>1. i - n \in 1..(Len(s) - n) /\ n + (i - n) = i
      BY <1>4, <2>2
    <3>2. h[n + (i - n)] = g[i - n] /\ g[i - n] = s[n + (i - n)]
      BY <1>1, <1>2, <1>3, <3>1 DEF h
    <3> QED
      BY <3>1, <3>2
  <2> QED
    BY <2>1, <2>2
<1>6. h = s
  BY <1>4, <1>5
<1> QED
  BY <1>1, <1>2, <1>6 DEF f, g, h

-------------------------------------------------------------------------------
(* Split. *)

\* Pieces; there is always a last one.
Divisions(B) == Seq(Seq(B)) \ {<<>>}

OnePiece == << <<>> >>

\* An element more keeps at least one piece and adds at most one.
LEMMA SplitStepTyped ==
    ASSUME NEW B, NEW c \in B, NEW sep, NEW limit, NEW ps \in Divisions(B)
    PROVE  /\ SplitStep(ps, c, sep, limit) \in Divisions(B)
           /\ Len(SplitStep(ps, c, sep, limit)) <= Len(ps) + 1
<1> DEFINE n == Len(ps)
           e == <<>>
           a == Append(ps, e)
           x == [ps EXCEPT ![n] = Append(ps[n], c)]
<1>1. n \in Nat \ {0} /\ ps \in Seq(Seq(B)) /\ e \in Seq(B)
  BY DEF Divisions
<1>2. ps[n] \in Seq(B)
  BY <1>1
<1>3. a \in Seq(Seq(B)) /\ Len(a) = n + 1
  <2> HIDE DEF e, n
  <2> QED
    BY <1>1 DEF n
<1>4. x \in Seq(Seq(B)) /\ Len(x) = n
  <2>1. Append(ps[n], c) \in Seq(B)
    BY <1>2
  <2> HIDE DEF n
  <2> QED
    BY <1>1, <2>1 DEF n
<1>5. a # <<>> /\ x # <<>>
  <2> HIDE DEF n, a, x
  <2> QED
    BY <1>1, <1>3, <1>4
<1>6. SplitStep(ps, c, sep, limit) = a \/ SplitStep(ps, c, sep, limit) = x
  BY DEF SplitStep
<1> HIDE DEF a, x, n
<1> QED
  BY <1>1, <1>3, <1>4, <1>5, <1>6 DEF n, Divisions

\* r holds the pieces of every prefix of s.
SplitRun(r, B, s, sep, limit) ==
    /\ r \in [0..Len(s) -> Divisions(B)]
    /\ r[0] = OnePiece /\ \A k \in 1..Len(s) : r[k] = SplitStep(r[k - 1], s[k], sep, limit)
    /\ SplitN(s, sep, limit) = r[Len(s)]

\* SplitN is the last value of a run that takes one element at a time.
LEMMA SplitNIs ==
    ASSUME NEW B, NEW s \in Seq(B), NEW sep, NEW limit
    PROVE  \E r : SplitRun(r, B, s, sep, limit)
<1> DEFINE S == Divisions(B)
           n == Len(s)
           e == OnePiece
           step == [k \in Nat |-> [x \in S |-> IF k \in 1..n THEN SplitStep(x, s[k], sep, limit) ELSE x]]
           r == CHOOSE g : g = [k \in 0..n |-> IF k = 0 THEN OnePiece ELSE SplitStep(g[k - 1], s[k], sep, limit)]
<1>1. n \in Nat /\ e \in S /\ \A k \in 1..n : \A x \in S : SplitStep(x, s[k], sep, limit) \in S
  <2>1. n \in Nat /\ \A k \in 1..n : s[k] \in B
    OBVIOUS
  <2>2. e \in S
    <3>1. OnePiece \in Seq(Seq(B)) /\ OnePiece # <<>>
      BY DEF OnePiece
    <3> QED
      BY <3>1 DEF Divisions
  <2> HIDE DEF n, e
  <2> QED
    BY <2>1, <2>2, SplitStepTyped
<1>2. SplitN(s, sep, limit) = r[n]
  BY DEF SplitN, OnePiece
<1> HIDE DEF n, S
<1>3. \A k \in 1..n : k \in Nat /\ k # 0 /\ k - 1 \in 0..n /\ k \in 0..n
  BY <1>1
<1>4. step \in [Nat -> [S -> S]]
  BY <1>1
<1>5. PICK f : Follows(f, S, e, step, n)
  <2> HIDE DEF e, step
  <2> QED
    BY <1>1, <1>4, Recursion
<1>6. f \in [0..n -> S] /\ f[0] = e /\ \A k \in 1..n : f[k] = step[k][f[k - 1]]
  BY <1>5 DEF Follows
<1>7. \A k \in 1..n : f[k] = SplitStep(f[k - 1], s[k], sep, limit)
  BY <1>3, <1>6
<1>8. f = [k \in 0..n |-> IF k = 0 THEN OnePiece ELSE SplitStep(f[k - 1], s[k], sep, limit)]
  <2>1. \A k \in 0..n : k = 0 \/ k \in 1..n
    BY <1>1
  <2> QED
    BY <1>6, <1>7, <2>1
<1>9. r = [k \in 0..n |-> IF k = 0 THEN OnePiece ELSE SplitStep(r[k - 1], s[k], sep, limit)]
  BY <1>8
<1> HIDE DEF r
<1>10. r[0] = e /\ \A k \in 1..n : r[k] = SplitStep(r[k - 1], s[k], sep, limit)
  <2>1. 0 \in 0..n
    BY <1>1
  <2> QED
    BY <1>3, <1>9, <2>1
<1>11. StepAlike(r, f, n)
  <2>1. \A k \in 1..n : r[k - 1] = f[k - 1] => r[k] = f[k]
    BY <1>7, <1>10
  <2>2. r[0] = f[0]
    BY <1>6, <1>10
  <2> QED
    BY <2>1, <2>2 DEF StepAlike
<1>12. \A k \in 0..n : r[k] = f[k]
  <2>1. n \in Nat
    BY <1>1
  <2> QED
    BY <1>11, <2>1, Alike
<1>13. r \in [0..n -> S]
  BY <1>6, <1>9, <1>12
<1> QED
  BY <1>2, <1>10, <1>13 DEF n, S, e, SplitRun

\* Splitting one element more is one more step.
LEMMA SplitNAppend ==
    ASSUME NEW B, NEW s \in Seq(B), NEW x \in B, NEW sep, NEW limit
    PROVE  /\ SplitN(s, sep, limit) \in Divisions(B)
           /\ SplitN(Append(s, x), sep, limit) = SplitStep(SplitN(s, sep, limit), x, sep, limit)
<1> DEFINE t == Append(s, x)
           n == Len(s)
<1>1. /\ t \in Seq(B) /\ n \in Nat /\ Len(t) = n + 1 /\ t[n + 1] = x
      /\ \A k \in 1..n : t[k] = s[k]
  OBVIOUS
<1> HIDE DEF t
<1>a. PICK r : SplitRun(r, B, s, sep, limit)
  BY SplitNIs, Zenon
<1>b. PICK q : SplitRun(q, B, t, sep, limit)
  BY <1>1, SplitNIs, Zenon
<1>2. /\ r \in [0..n -> Divisions(B)] /\ r[0] = OnePiece
      /\ \A k \in 1..n : r[k] = SplitStep(r[k - 1], s[k], sep, limit)
      /\ SplitN(s, sep, limit) = r[n]
  BY <1>a DEF SplitRun
<1>3. /\ q \in [0..Len(t) -> Divisions(B)] /\ q[0] = OnePiece
      /\ \A k \in 1..Len(t) : q[k] = SplitStep(q[k - 1], t[k], sep, limit)
      /\ SplitN(t, sep, limit) = q[Len(t)]
  BY <1>b DEF SplitRun
<1> HIDE DEF n
<1>4. StepAlike(r, q, n)
  <2>1. \A k \in 1..n : k \in 1..Len(t)
    BY <1>1
  <2>2. \A k \in 1..n : r[k - 1] = q[k - 1] => r[k] = q[k]
    BY <1>1, <1>2, <1>3, <2>1
  <2>3. r[0] = q[0]
    BY <1>2, <1>3
  <2> QED
    BY <2>2, <2>3 DEF StepAlike
<1>5. \A k \in 0..n : r[k] = q[k]
  <2>1. n \in Nat
    BY <1>1
  <2> QED
    BY <1>4, <2>1, Alike
<1>6. q[n + 1] = SplitStep(q[n], x, sep, limit)
  <2>1. n + 1 \in 1..Len(t) /\ (n + 1) - 1 = n
    BY <1>1
  <2>2. q[n + 1] = SplitStep(q[(n + 1) - 1], t[(n + 1)], sep, limit)
    BY <1>3, <2>1
  <2> QED
    BY <1>1, <2>1, <2>2
<1>7. n \in 0..n
  BY <1>1
<1>8. SplitN(s, sep, limit) \in Divisions(B) /\ r[n] = q[n] /\ SplitN(t, sep, limit) = q[n + 1]
  BY <1>1, <1>2, <1>3, <1>5, <1>7
<1> QED
  BY <1>6, <1>8, <1>2 DEF t

\* Nothing splits into one empty piece.
LEMMA SplitNEmpty == ASSUME NEW sep, NEW limit PROVE SplitN(<<>>, sep, limit) = OnePiece
<1> DEFINE e == <<>>
<1>1. e \in Seq({}) /\ Len(e) = 0
  OBVIOUS
<1> HIDE DEF e
<1>2. PICK r : SplitRun(r, {}, e, sep, limit)
  BY <1>1, SplitNIs, Zenon
<1>3. SplitN(e, sep, limit) = OnePiece
  BY <1>1, <1>2 DEF SplitRun
<1> QED
  BY <1>3 DEF e

\* The pieces of s are those of qs and the last one l.
SplitsTo(s, sep, limit, qs, l) == SplitN(s, sep, limit) = Append(qs, l)

\* The step of one more element.
LEMMA SplitStepIs ==
    ASSUME NEW B, NEW qs \in Seq(Seq(B)), NEW l \in Seq(B), NEW c \in B, NEW sep, NEW limit
    PROVE  SplitStep(Append(qs, l), c, sep, limit) =
             IF c = sep /\ Len(qs) + 1 < limit THEN Append(Append(qs, l), <<>>)
             ELSE Append(qs, Append(l, c))
<1> DEFINE p == Append(qs, l)
           n == Len(p)
           a == Append(qs, Append(l, c))
           x == [p EXCEPT ![n] = Append(p[n], c)]
<1>2. /\ p \in Seq(Seq(B)) /\ n = Len(qs) + 1 /\ p[n] = l /\ Len(qs) \in Nat
      /\ \A i \in 1..n-1 : p[i] = qs[i]
  OBVIOUS
<1>3. /\ a \in Seq(Seq(B)) /\ Len(a) = n /\ a[n] = Append(l, c)
      /\ \A i \in 1..n-1 : a[i] = qs[i]
  BY <1>2
<1> HIDE DEF p, n, a
<1>4. Append(l, c) \in Seq(B) /\ x \in Seq(Seq(B)) /\ Len(x) = n /\ DOMAIN x = 1..n
  BY <1>2 DEF n
<1>5. \A i \in 1..n : x[i] = a[i]
  <2>1. ASSUME NEW i \in 1..n-1 PROVE x[i] = a[i]
    <3>1. i # n /\ i \in 1..n
      BY <1>2
    <3>2. x[i] = p[i]
      BY <1>2, <3>1 DEF n
    <3> QED
      BY <1>2, <1>3, <3>2
  <2>2. n \in 1..n /\ x[n] = Append(p[n], c)
    BY <1>2 DEF n
  <2>3. \A i \in 1..n : i = n \/ i \in 1..n-1
    BY <1>2
  <2> QED
    BY <1>2, <1>3, <2>1, <2>2, <2>3
<1> HIDE DEF x
<1>6. x = a
  BY <1>3, <1>4, <1>5
<1>7. SplitStep(p, c, sep, limit) = IF c = sep /\ n < limit THEN Append(p, <<>>) ELSE x
  BY DEF SplitStep, x, n
<1> QED
  BY <1>2, <1>6, <1>7 DEF p, a

\* A separator starts a piece, as long as more are allowed.
LEMMA SplitCut ==
    ASSUME NEW B, NEW s \in Seq(B), NEW c \in B, NEW limit,
           NEW qs \in Seq(Seq(B)), NEW l \in Seq(B), SplitsTo(s, c, limit, qs, l), Len(qs) + 1 < limit
    PROVE  SplitsTo(Append(s, c), c, limit, Append(qs, l), <<>>)
<1>1. SplitN(Append(s, c), c, limit) = SplitStep(SplitN(s, c, limit), c, c, limit)
  BY SplitNAppend
<1>2. SplitN(s, c, limit) = Append(qs, l)
  BY DEF SplitsTo
<1>3. SplitStep(Append(qs, l), c, c, limit) = Append(Append(qs, l), <<>>)
  BY SplitStepIs
<1> QED
  BY <1>1, <1>2, <1>3 DEF SplitsTo

\* Any other element belongs to the last piece.
LEMMA SplitGrow ==
    ASSUME NEW B, NEW s \in Seq(B), NEW c \in B, NEW sep, NEW limit,
           NEW qs \in Seq(Seq(B)), NEW l \in Seq(B), SplitsTo(s, sep, limit, qs, l),
           c # sep \/ ~(Len(qs) + 1 < limit)
    PROVE  SplitsTo(Append(s, c), sep, limit, qs, Append(l, c))
<1>1. SplitN(Append(s, c), sep, limit) = SplitStep(SplitN(s, sep, limit), c, sep, limit)
  BY SplitNAppend
<1>2. SplitN(s, sep, limit) = Append(qs, l)
  BY DEF SplitsTo
<1>3. SplitStep(Append(qs, l), c, sep, limit) = Append(qs, Append(l, c))
  BY SplitStepIs
<1> QED
  BY <1>1, <1>2, <1>3 DEF SplitsTo

\* So do all the elements of a sequence without a separator, and of one behind the last piece.
LEMMA SplitPlain ==
    ASSUME NEW B, NEW s \in Seq(B), NEW sep, NEW limit,
           NEW qs \in Seq(Seq(B)), NEW l \in Seq(B), SplitsTo(s, sep, limit, qs, l),
           NEW C \in SUBSET B, NEW t \in Seq(C), sep \notin C \/ ~(Len(qs) + 1 < limit)
    PROVE  SplitsTo(s \o t, sep, limit, qs, l \o t)
<1> DEFINE S == {u \in Seq(C) : SplitsTo(s \o u, sep, limit, qs, l \o u)}
<1>1. <<>> \in S
  <2>1. s \o <<>> = s /\ l \o <<>> = l /\ <<>> \in Seq(C)
    OBVIOUS
  <2> QED
    BY <2>1
<1>2. ASSUME NEW u \in Seq(C), NEW x \in C, u \in S PROVE Append(u, x) \in S
  <2>1. /\ u \in Seq(B) /\ x \in B /\ s \o u \in Seq(B) /\ l \o u \in Seq(B)
        /\ s \o Append(u, x) = Append(s \o u, x) /\ l \o Append(u, x) = Append(l \o u, x)
        /\ Append(u, x) \in Seq(C)
    OBVIOUS
  <2> DEFINE v == s \o u
             w == l \o u
  <2>2. SplitsTo(v, sep, limit, qs, w)
    BY <1>2
  <2>3. x # sep \/ ~(Len(qs) + 1 < limit)
    OBVIOUS
  <2>4. v \in Seq(B) /\ w \in Seq(B) /\ x \in B
    BY <2>1
  <2> HIDE DEF v, w, S
  <2>5. SplitsTo(Append(v, x), sep, limit, qs, Append(w, x))
    BY <2>2, <2>3, <2>4, SplitGrow
  <2> QED
    BY <2>1, <2>5 DEF S, v, w
<1> HIDE DEF S
<1>3. Seq(C) \subseteq S
  BY <1>1, <1>2, ByAppending
<1> QED
  BY <1>3 DEF S

-------------------------------------------------------------------------------
(* Sequences mapped element by element. *)

\* The sequences f gives for the elements of s one after the other.
Mapped(f, s) == Concat([i \in DOMAIN s |-> f[s[i]]])

Maps(f, A, T) == f \in [A -> T]

\* A sequence mapped through a function is a sequence of its values.
LEMMA MapAppend ==
    ASSUME NEW A, NEW T, NEW f, Maps(f, A, T), NEW s \in Seq(A), NEW x \in A
    PROVE  /\ [i \in DOMAIN s |-> f[s[i]]] \in Seq(T)
           /\ [i \in DOMAIN Append(s, x) |-> f[Append(s, x)[i]]] = Append([i \in DOMAIN s |-> f[s[i]]], f[x])
<1> DEFINE t == Append(s, x)
           n == Len(s)
           m == [i \in DOMAIN s |-> f[s[i]]]
           k == [i \in DOMAIN t |-> f[t[i]]]
           a == Append(m, f[x])
<1>1. /\ t \in Seq(A) /\ n \in Nat /\ Len(t) = n + 1 /\ t[n + 1] = x
      /\ \A i \in 1..n : t[i] = s[i] /\ s[i] \in A
      /\ DOMAIN s = 1..n
  OBVIOUS
<1>2. m \in [1..n -> T]
  <2> HIDE DEF n
  <2> QED
    BY <1>1 DEF Maps
<1>3. m \in Seq(T) /\ Len(m) = n
  BY <1>1, <1>2
<1> HIDE DEF t, m
<1>4. DOMAIN t = 1..(n + 1)
  BY <1>1
<1>5. f[x] \in T
  BY DEF Maps
<1>6. a \in Seq(T) /\ Len(a) = n + 1 /\ a[n + 1] = f[x] /\ \A i \in 1..n : a[i] = m[i]
  BY <1>3, <1>5
<1> HIDE DEF n, a
<1>7. \A i \in 1..(n + 1) : f[t[i]] = a[i]
  <2>1. \A i \in 1..n : f[t[i]] = a[i]
    BY <1>1, <1>6 DEF m
  <2>2. \A i \in 1..(n + 1) : i \in 1..n \/ i = n + 1
    BY <1>1
  <2> QED
    BY <1>1, <1>6, <2>1, <2>2
<1>8. k = a
  <2>1. k = [i \in 1..(n + 1) |-> f[t[i]]]
    BY <1>4
  <2>2. a = [i \in 1..(n + 1) |-> a[i]]
    BY <1>6
  <2> QED
    BY <1>7, <2>1, <2>2
<1> QED
  BY <1>3, <1>8 DEF t, m, a

\* One element more adds what it maps to.
LEMMA MappedAppend ==
    ASSUME NEW A, NEW T, NEW f, Maps(f, A, Seq(T)), NEW s \in Seq(A), NEW x \in A
    PROVE  /\ Mapped(f, s) \in Seq(T)
           /\ Mapped(f, Append(s, x)) = Mapped(f, s) \o f[x]
<1> DEFINE m == [i \in DOMAIN s |-> f[s[i]]]
           t == Append(s, x)
           k == [i \in DOMAIN t |-> f[t[i]]]
<1>0. Mapped(f, s) = Concat(m) /\ Mapped(f, t) = Concat(k)
  <2> HIDE DEF t
  <2> QED
    BY DEF Mapped
<1>1. m \in Seq(Seq(T)) /\ k = Append(m, f[x])
  BY MapAppend
<1>2. f[x] \in Seq(T)
  BY DEF Maps
<1> HIDE DEF m, k
<1>3. Concat(m) \in Seq(T) /\ Concat(Append(m, f[x])) = Concat(m) \o f[x]
  BY <1>1, <1>2, ConcatAppend
<1> QED
  BY <1>0, <1>1, <1>3

\* Nothing maps to nothing.
LEMMA MappedEmpty == ASSUME NEW f PROVE Mapped(f, <<>>) = <<>>
<1>1. [i \in DOMAIN <<>> |-> f[<<>>[i]]] = <<>>
  OBVIOUS
<1> QED
  BY <1>1, ConcatEmpty DEF Mapped

\* What a sequence maps to is a sequence.
LEMMA MappedTyped ==
    ASSUME NEW A, NEW T, NEW f, Maps(f, A, Seq(T)), NEW s \in Seq(A)
    PROVE  Mapped(f, s) \in Seq(T)
<1> DEFINE S == {u \in Seq(A) : Mapped(f, u) \in Seq(T)}
<1>1. <<>> \in S
  <2>1. <<>> \in Seq(T) /\ <<>> \in Seq(A)
    OBVIOUS
  <2> QED
    BY <2>1, MappedEmpty
<1>2. ASSUME NEW u \in Seq(A), NEW x \in A, u \in S PROVE Append(u, x) \in S
  <2>1. Mapped(f, Append(u, x)) = Mapped(f, u) \o f[x] /\ Mapped(f, u) \in Seq(T)
    BY MappedAppend
  <2>2. f[x] \in Seq(T) /\ Append(u, x) \in Seq(A)
    BY DEF Maps
  <2>3. Mapped(f, u) \o f[x] \in Seq(T)
    BY <2>1, <2>2
  <2> QED
    BY <2>1, <2>2, <2>3
<1> HIDE DEF S
<1>3. Seq(A) \subseteq S
  BY <1>1, <1>2, ByAppending
<1> QED
  BY <1>3 DEF S

\* Two parts after another.
LEMMA MappedParts ==
    ASSUME NEW A, NEW T, NEW f, Maps(f, A, Seq(T)), NEW s \in Seq(A), NEW t \in Seq(A)
    PROVE  Mapped(f, s \o t) = Mapped(f, s) \o Mapped(f, t)
<1> DEFINE S == {u \in Seq(A) : Mapped(f, s \o u) = Mapped(f, s) \o Mapped(f, u)}
<1>1. <<>> \in S
  <2>1. s \o <<>> = s /\ Mapped(f, s) \in Seq(T) /\ <<>> \in Seq(A)
    BY MappedTyped
  <2>2. Mapped(f, s) \o <<>> = Mapped(f, s)
    BY <2>1
  <2> QED
    BY <2>1, <2>2, MappedEmpty
<1>2. ASSUME NEW u \in Seq(A), NEW x \in A, u \in S PROVE Append(u, x) \in S
  <2>1. s \o Append(u, x) = Append(s \o u, x) /\ s \o u \in Seq(A) /\ Append(u, x) \in Seq(A)
    OBVIOUS
  <2>2. Mapped(f, s \o Append(u, x)) = (Mapped(f, s) \o Mapped(f, u)) \o f[x]
    <3> DEFINE v == s \o u
    <3>1. v \in Seq(A)
      BY <2>1
    <3> HIDE DEF v
    <3>2. Mapped(f, Append(v, x)) = Mapped(f, v) \o f[x]
      BY <3>1, MappedAppend
    <3> QED
      BY <1>2, <2>1, <3>2 DEF v
  <2>3. Mapped(f, Append(u, x)) = Mapped(f, u) \o f[x]
    BY MappedAppend
  <2>4. Mapped(f, s) \in Seq(T) /\ Mapped(f, u) \in Seq(T) /\ f[x] \in Seq(T)
    BY MappedTyped DEF Maps
  <2>5. (Mapped(f, s) \o Mapped(f, u)) \o f[x] = Mapped(f, s) \o (Mapped(f, u) \o f[x])
    <3> DEFINE a == Mapped(f, s)
               b == Mapped(f, u)
               c == f[x]
    <3>1. a \in Seq(T) /\ b \in Seq(T) /\ c \in Seq(T)
      BY <2>4
    <3> HIDE DEF a, b, c
    <3>2. (a \o b) \o c = a \o (b \o c)
      BY <3>1, Associative, SMTT(90)
    <3> QED
      BY <3>2 DEF a, b, c
  <2> QED
    BY <2>1, <2>2, <2>3, <2>5
<1> HIDE DEF S
<1>3. Seq(A) \subseteq S
  BY <1>1, <1>2, ByAppending
<1> QED
  BY <1>3 DEF S

-------------------------------------------------------------------------------
(* Characters and bytes. *)

NumberBytes == {NumberByte[n] : n \in Numbers}

\* The characters of an operation line, and those of the lines that are written.
Text == Characters \cup NumberBytes
        \cup {"R", "D", Tab, Newline, Return, Backslash, "t", "n", "r"}
Plain == Text \ {Tab, Newline, Return}
LineText == Text \ {Newline, Return}

\* What is written for the characters of A, what is read from bytes, and what
\* a value is written as.
Coded(A) == A \cup {"hi", "lo"}
Read(A) == A \cup {TwoBytes}
Safe(A) == (A \ {Tab, Newline, Return}) \cup {Backslash, "t", "n", "r"}

\* The bytes of one character.
LEMMA Utf8One == ASSUME NEW A, NEW c \in A PROVE BytesOf(c) \in Seq(Coded(A))
<1>1. <<"hi", "lo">> \in Seq(Coded(A)) /\ <<c>> \in Seq(Coded(A))
  BY DEF Coded
<1> QED
  BY <1>1 DEF BytesOf

\* The characters of one byte.
LEMMA CharsOne == ASSUME NEW A, NEW c \in A PROVE CharOf(c) \in Seq(Read(A))
<1>1. <<TwoBytes>> \in Seq(Read(A)) /\ <<c>> \in Seq(Read(A)) /\ <<>> \in Seq(Read(A))
  BY DEF Read
<1> QED
  BY <1>1 DEF CharOf

\* An escaped character holds no separator.
LEMMA EscapeOne == ASSUME NEW A, NEW c \in A PROVE EscapeOf(c) \in Seq(Safe(A))
<1>1. /\ <<Backslash, Backslash>> \in Seq(Safe(A)) /\ <<Backslash, "t">> \in Seq(Safe(A))
      /\ <<Backslash, "n">> \in Seq(Safe(A)) /\ <<Backslash, "r">> \in Seq(Safe(A))
  BY DEF Safe
<1>2. c \notin {Tab, Newline, Return} => <<c>> \in Seq(Safe(A))
  BY DEF Safe
<1> QED
  BY <1>1, <1>2 DEF EscapeOf

\* What is written character by character.
LEMMA Utf8Mapped ==
    ASSUME NEW A, NEW s \in Seq(A)
    PROVE  /\ Maps([c \in A |-> BytesOf(c)], A, Seq(Coded(A)))
           /\ Utf8(s) = Mapped([c \in A |-> BytesOf(c)], s)
<1> DEFINE f == [c \in A |-> BytesOf(c)]
<1>1. \A c \in A : BytesOf(c) \in Seq(Coded(A))
  BY Utf8One
<1>2. Maps(f, A, Seq(Coded(A)))
  BY <1>1 DEF Maps
<1>3. \A i \in DOMAIN s : f[s[i]] = BytesOf(s[i])
  OBVIOUS
<1>4. [i \in DOMAIN s |-> f[s[i]]] = [i \in DOMAIN s |-> BytesOf(s[i])]
  BY <1>3
<1> HIDE DEF f
<1>5. Utf8(s) = Mapped(f, s)
  BY <1>4 DEF Utf8, Mapped
<1> QED
  BY <1>2, <1>5 DEF f

\* No characters have no bytes.
LEMMA Utf8Empty == Utf8(<<>>) = <<>>
<1>1. [i \in DOMAIN <<>> |-> BytesOf(<<>>[i])] = <<>>
  OBVIOUS
<1> QED
  BY <1>1, ConcatEmpty DEF Utf8

\* One character more adds its bytes.
LEMMA Utf8Append ==
    ASSUME NEW A, NEW s \in Seq(A), NEW x \in A
    PROVE  /\ Utf8(s) \in Seq(Coded(A)) /\ BytesOf(x) \in Seq(Coded(A))
           /\ Utf8(Append(s, x)) = Utf8(s) \o BytesOf(x)
<1> DEFINE f == [c \in A |-> BytesOf(c)]
           t == Append(s, x)
<1>1. t \in Seq(A) /\ f[x] = BytesOf(x)
  OBVIOUS
<1> HIDE DEF f
<1>2. Maps(f, A, Seq(Coded(A))) /\ Utf8(s) = Mapped(f, s)
  BY Utf8Mapped DEF f
<1>3. Utf8(t) = Mapped(f, t)
  <2> HIDE DEF t
  <2> QED
    BY <1>1, Utf8Mapped DEF f
<1>4. Mapped(f, s) \in Seq(Coded(A)) /\ Mapped(f, t) = Mapped(f, s) \o f[x]
  BY <1>2, MappedAppend
<1>5. BytesOf(x) \in Seq(Coded(A))
  BY Utf8One
<1> QED
  BY <1>1, <1>2, <1>3, <1>4, <1>5

\* The bytes of a concatenation are those of its parts.
LEMMA Utf8Parts ==
    ASSUME NEW A, NEW s \in Seq(A), NEW t \in Seq(A)
    PROVE  Utf8(s \o t) = Utf8(s) \o Utf8(t) /\ Utf8(s) \in Seq(Coded(A)) /\ Utf8(t) \in Seq(Coded(A))
<1> DEFINE f == [c \in A |-> BytesOf(c)]
           u == s \o t
<1>1. u \in Seq(A)
  OBVIOUS
<1> HIDE DEF f
<1>2. Maps(f, A, Seq(Coded(A)))
  BY Utf8Mapped DEF f
<1>6. Utf8(s) = Mapped(f, s) /\ Utf8(t) = Mapped(f, t)
  BY Utf8Mapped DEF f
<1>3. Utf8(u) = Mapped(f, u)
  <2> HIDE DEF u
  <2> QED
    BY <1>1, Utf8Mapped DEF f
<1>4. Mapped(f, u) = Mapped(f, s) \o Mapped(f, t)
  BY <1>2, MappedParts
<1>5. Mapped(f, s) \in Seq(Coded(A)) /\ Mapped(f, t) \in Seq(Coded(A))
  BY <1>2, MappedTyped
<1> QED
  BY <1>3, <1>4, <1>5, <1>6

\* What is read byte by byte.
LEMMA CharsMapped ==
    ASSUME NEW A, NEW s \in Seq(A)
    PROVE  /\ Maps([c \in A |-> CharOf(c)], A, Seq(Read(A)))
           /\ Chars(s) = Mapped([c \in A |-> CharOf(c)], s)
<1> DEFINE f == [c \in A |-> CharOf(c)]
<1>1. \A c \in A : CharOf(c) \in Seq(Read(A))
  BY CharsOne
<1>2. Maps(f, A, Seq(Read(A)))
  BY <1>1 DEF Maps
<1>3. \A i \in DOMAIN s : f[s[i]] = CharOf(s[i])
  OBVIOUS
<1>4. [i \in DOMAIN s |-> f[s[i]]] = [i \in DOMAIN s |-> CharOf(s[i])]
  BY <1>3
<1> HIDE DEF f
<1>5. Chars(s) = Mapped(f, s)
  BY <1>4 DEF Chars, Mapped
<1> QED
  BY <1>2, <1>5 DEF f

\* No bytes have no characters.
LEMMA CharsEmpty == Chars(<<>>) = <<>>
<1>1. [i \in DOMAIN <<>> |-> CharOf(<<>>[i])] = <<>>
  OBVIOUS
<1> QED
  BY <1>1, ConcatEmpty DEF Chars

\* One byte more adds its character.
LEMMA CharsAppend ==
    ASSUME NEW A, NEW s \in Seq(A), NEW x \in A
    PROVE  /\ Chars(s) \in Seq(Read(A)) /\ CharOf(x) \in Seq(Read(A))
           /\ Chars(Append(s, x)) = Chars(s) \o CharOf(x)
<1> DEFINE f == [c \in A |-> CharOf(c)]
           t == Append(s, x)
<1>1. t \in Seq(A) /\ f[x] = CharOf(x)
  OBVIOUS
<1> HIDE DEF f
<1>2. Maps(f, A, Seq(Read(A))) /\ Chars(s) = Mapped(f, s)
  BY CharsMapped DEF f
<1>3. Chars(t) = Mapped(f, t)
  <2> HIDE DEF t
  <2> QED
    BY <1>1, CharsMapped DEF f
<1>4. Mapped(f, s) \in Seq(Read(A)) /\ Mapped(f, t) = Mapped(f, s) \o f[x]
  BY <1>2, MappedAppend
<1>5. CharOf(x) \in Seq(Read(A))
  BY CharsOne
<1> QED
  BY <1>1, <1>2, <1>3, <1>4, <1>5

\* The characters of a concatenation are those of its parts.
LEMMA CharsParts ==
    ASSUME NEW A, NEW s \in Seq(A), NEW t \in Seq(A)
    PROVE  Chars(s \o t) = Chars(s) \o Chars(t) /\ Chars(s) \in Seq(Read(A)) /\ Chars(t) \in Seq(Read(A))
<1> DEFINE f == [c \in A |-> CharOf(c)]
           u == s \o t
<1>1. u \in Seq(A)
  OBVIOUS
<1> HIDE DEF f
<1>2. Maps(f, A, Seq(Read(A)))
  BY CharsMapped DEF f
<1>6. Chars(s) = Mapped(f, s) /\ Chars(t) = Mapped(f, t)
  BY CharsMapped DEF f
<1>3. Chars(u) = Mapped(f, u)
  <2> HIDE DEF u
  <2> QED
    BY <1>1, CharsMapped DEF f
<1>4. Mapped(f, u) = Mapped(f, s) \o Mapped(f, t)
  BY <1>2, MappedParts
<1>5. Mapped(f, s) \in Seq(Read(A)) /\ Mapped(f, t) \in Seq(Read(A))
  BY <1>2, MappedTyped
<1> QED
  BY <1>3, <1>4, <1>5, <1>6

\* What is escaped character by character.
LEMMA EscapeMapped ==
    ASSUME NEW A, NEW s \in Seq(A)
    PROVE  /\ Maps([c \in A |-> EscapeOf(c)], A, Seq(Safe(A)))
           /\ escape_six_value(s) = Mapped([c \in A |-> EscapeOf(c)], s)
<1> DEFINE f == [c \in A |-> EscapeOf(c)]
<1>1. \A c \in A : EscapeOf(c) \in Seq(Safe(A))
  BY EscapeOne
<1>2. Maps(f, A, Seq(Safe(A)))
  BY <1>1 DEF Maps
<1>3. \A i \in DOMAIN s : f[s[i]] = EscapeOf(s[i])
  OBVIOUS
<1>4. [i \in DOMAIN s |-> f[s[i]]] = [i \in DOMAIN s |-> EscapeOf(s[i])]
  BY <1>3
<1> HIDE DEF f
<1>5. escape_six_value(s) = Mapped(f, s)
  BY <1>4 DEF escape_six_value, Mapped
<1> QED
  BY <1>2, <1>5 DEF f

\* Nothing is escaped as nothing.
LEMMA EscapeEmpty == escape_six_value(<<>>) = <<>>
<1>1. [i \in DOMAIN <<>> |-> EscapeOf(<<>>[i])] = <<>>
  OBVIOUS
<1> QED
  BY <1>1, ConcatEmpty DEF escape_six_value

\* One character more adds what it is escaped as.
LEMMA EscapeAppend ==
    ASSUME NEW A, NEW s \in Seq(A), NEW x \in A
    PROVE  /\ escape_six_value(s) \in Seq(Safe(A)) /\ EscapeOf(x) \in Seq(Safe(A))
           /\ escape_six_value(Append(s, x)) = escape_six_value(s) \o EscapeOf(x)
<1> DEFINE f == [c \in A |-> EscapeOf(c)]
           t == Append(s, x)
<1>1. t \in Seq(A) /\ f[x] = EscapeOf(x)
  OBVIOUS
<1> HIDE DEF f
<1>2. Maps(f, A, Seq(Safe(A))) /\ escape_six_value(s) = Mapped(f, s)
  BY EscapeMapped DEF f
<1>3. escape_six_value(t) = Mapped(f, t)
  <2> HIDE DEF t
  <2> QED
    BY <1>1, EscapeMapped DEF f
<1>4. Mapped(f, s) \in Seq(Safe(A)) /\ Mapped(f, t) = Mapped(f, s) \o f[x]
  BY <1>2, MappedAppend
<1>5. EscapeOf(x) \in Seq(Safe(A))
  BY EscapeOne
<1> QED
  BY <1>1, <1>2, <1>3, <1>4, <1>5

\* No character of a line is one of the two bytes of TwoBytes.
LEMMA TextIs == "hi" \notin Text /\ "lo" \notin Text /\ Backslash \in Text
<1>1. "hi" \notin Characters /\ "lo" \notin Characters
  BY CharacterAssumption
<1>2. "hi" \notin NumberBytes /\ "lo" \notin NumberBytes
  BY NumberAssumption DEF NumberBytes
<1> QED
  BY <1>1, <1>2 DEF Text, Tab, Newline, Return, Backslash

\* Two elements more.
LEMMA TwoMore ==
    ASSUME NEW B, NEW s \in Seq(B), NEW a \in B, NEW b \in B
    PROVE  s \o <<a>> = Append(s, a) /\ s \o <<a, b>> = Append(Append(s, a), b)
OBVIOUS

\* The bytes of a character are read as this character.
LEMMA BytesBack == ASSUME NEW c \in Text PROVE Chars(BytesOf(c)) = <<c>>
<1> DEFINE e == <<>>
           A == Coded(Text)
<1>1. e \in Seq(A) /\ e \o <<c>> = <<c>> /\ e \o <<"hi", "lo">> = <<"hi", "lo">>
  OBVIOUS
<1>2. c \in A /\ "hi" \in A /\ "lo" \in A
  BY DEF Coded
<1>3. Chars(e) = <<>>
  BY CharsEmpty
<1>4. CASE c = TwoBytes
  <2> HIDE DEF e, A
  <2>1. Append(e, "hi") \in Seq(A)
    BY <1>1, <1>2
  <2>2. Chars(Append(e, "hi")) = Chars(e) \o CharOf("hi")
    BY <1>1, <1>2, CharsAppend
  <2>3. Chars(Append(Append(e, "hi"), "lo")) = Chars(Append(e, "hi")) \o CharOf("lo")
    BY <1>2, <2>1, CharsAppend
  <2>4. <<"hi", "lo">> = Append(Append(e, "hi"), "lo")
    BY <1>1, <1>2, TwoMore
  <2>5. CharOf("hi") = <<TwoBytes>> /\ CharOf("lo") = <<>>
    BY DEF CharOf
  <2>6. (<<>> \o <<TwoBytes>>) \o <<>> = <<TwoBytes>>
    OBVIOUS
  <2>7. Chars(<<"hi", "lo">>) = (<<>> \o <<TwoBytes>>) \o <<>>
    BY <1>3, <2>2, <2>3, <2>4, <2>5
  <2> QED
    BY <1>4, <2>6, <2>7 DEF BytesOf
<1>5. CASE c # TwoBytes
  <2> HIDE DEF e, A
  <2>1. Chars(Append(e, c)) = Chars(e) \o CharOf(c)
    BY <1>1, <1>2, CharsAppend
  <2>2. <<c>> = Append(e, c)
    BY <1>1, <1>2, TwoMore
  <2>3. CharOf(c) = <<c>>
    BY TextIs DEF CharOf
  <2>4. <<>> \o <<c>> = <<c>>
    OBVIOUS
  <2> QED
    BY <1>3, <1>5, <2>1, <2>2, <2>3, <2>4 DEF BytesOf
<1> QED
  BY <1>4, <1>5

\* So the bytes of a text are read as this text.
LEMMA CharsBack == ASSUME NEW s \in Seq(Text) PROVE Chars(Utf8(s)) = s
<1> DEFINE S == {u \in Seq(Text) : Chars(Utf8(u)) = u}
<1>1. <<>> \in S
  <2>1. <<>> \in Seq(Text)
    OBVIOUS
  <2> QED
    BY <2>1, CharsEmpty, Utf8Empty
<1>2. ASSUME NEW u \in Seq(Text), NEW x \in Text, u \in S PROVE Append(u, x) \in S
  <2>1. /\ Utf8(u) \in Seq(Coded(Text)) /\ BytesOf(x) \in Seq(Coded(Text))
        /\ Utf8(Append(u, x)) = Utf8(u) \o BytesOf(x)
    BY Utf8Append
  <2>2. Chars(Utf8(u) \o BytesOf(x)) = Chars(Utf8(u)) \o Chars(BytesOf(x))
    BY <2>1, CharsParts
  <2>3. Chars(Utf8(u)) = u /\ Chars(BytesOf(x)) = <<x>>
    BY <1>2, BytesBack
  <2>4. u \o <<x>> = Append(u, x) /\ Append(u, x) \in Seq(Text)
    OBVIOUS
  <2> QED
    BY <2>1, <2>2, <2>3, <2>4
<1> HIDE DEF S
<1>3. Seq(Text) \subseteq S
  BY <1>1, <1>2, ByAppending
<1> QED
  BY <1>3 DEF S

\* One more character leaves bytes valid.
LEMMA ValidMore ==
    ASSUME NEW b \in Seq(Coded(Text)), ValidUtf8(b), NEW c \in Text
    PROVE  ValidUtf8(b \o BytesOf(c))
<1>1. CASE c = TwoBytes
  <2> DEFINE d == b \o <<"hi", "lo">>
             n == Len(b)
  <2>1. /\ n \in Nat /\ DOMAIN d = 1..(n + 2) /\ Len(d) = n + 2
        /\ d[n + 1] = "hi" /\ d[n + 2] = "lo" /\ \A i \in 1..n : d[i] = b[i]
    BY DEF Coded
  <2>2. \A i \in 1..n : /\ b[i] = "hi" => i < n /\ b[i + 1] = "lo"
                        /\ b[i] = "lo" => i > 1 /\ b[i - 1] = "hi"
    BY DEF ValidUtf8
  <2>3. BytesOf(c) = <<"hi", "lo">>
    BY <1>1 DEF BytesOf
  <2> HIDE DEF d, n
  <2>4. ASSUME NEW i \in 1..(n + 2)
        PROVE  /\ d[i] = "hi" => i < n + 2 /\ d[i + 1] = "lo"
               /\ d[i] = "lo" => i > 1 /\ d[i - 1] = "hi"
    <3>1. CASE i \in 1..n
      BY <2>1, <2>2, <3>1
    <3>2. CASE i = n + 1
      <4>1. (n + 1) + 1 = n + 2 /\ n + 1 < n + 2
        BY <2>1
      <4> QED
        BY <2>1, <3>2, <4>1
    <3>3. CASE i = n + 2
      <4>1. (n + 2) - 1 = n + 1 /\ n + 2 > 1
        BY <2>1
      <4> QED
        BY <2>1, <3>3, <4>1
    <3> QED
      BY <2>1, <3>1, <3>2, <3>3
  <2>5. ValidUtf8(d)
    BY <2>1, <2>4 DEF ValidUtf8
  <2> QED
    BY <2>3, <2>5 DEF d
<1>2. CASE c # TwoBytes
  <2> DEFINE d == b \o <<c>>
             n == Len(b)
  <2>1. /\ n \in Nat /\ DOMAIN d = 1..(n + 1) /\ Len(d) = n + 1
        /\ d[n + 1] = c /\ \A i \in 1..n : d[i] = b[i]
    BY DEF Coded
  <2>2. \A i \in 1..n : /\ b[i] = "hi" => i < n /\ b[i + 1] = "lo"
                        /\ b[i] = "lo" => i > 1 /\ b[i - 1] = "hi"
    BY DEF ValidUtf8
  <2>3. BytesOf(c) = <<c>> /\ c # "hi" /\ c # "lo"
    BY <1>2, TextIs DEF BytesOf
  <2> HIDE DEF d, n
  <2>4. ASSUME NEW i \in 1..(n + 1)
        PROVE  /\ d[i] = "hi" => i < n + 1 /\ d[i + 1] = "lo"
               /\ d[i] = "lo" => i > 1 /\ d[i - 1] = "hi"
    <3>1. CASE i \in 1..n
      <4>1. d[i] = b[i] /\ i \in Nat /\ i < n + 1
        BY <2>1, <3>1
      <4>2. i < n => i + 1 \in 1..n
        BY <2>1, <3>1
      <4>3. i > 1 => i - 1 \in 1..n
        BY <2>1, <3>1
      <4>4. b[i] = "hi" => i < n + 1 /\ d[i + 1] = "lo"
        BY <2>1, <2>2, <3>1, <4>1, <4>2
      <4>5. b[i] = "lo" => i > 1 /\ d[i - 1] = "hi"
        BY <2>1, <2>2, <3>1, <4>3
      <4> QED
        BY <4>1, <4>4, <4>5
    <3>2. CASE i = n + 1
      BY <2>1, <2>3, <3>2
    <3> QED
      BY <2>1, <3>1, <3>2
  <2>5. ValidUtf8(d)
    BY <2>1, <2>4 DEF ValidUtf8
  <2> QED
    BY <2>3, <2>5 DEF d
<1> QED
  BY <1>1, <1>2

\* The bytes of a text are valid.
LEMMA ValidText == ASSUME NEW s \in Seq(Text) PROVE ValidUtf8(Utf8(s))
<1> DEFINE S == {u \in Seq(Text) : ValidUtf8(Utf8(u))}
<1>1. <<>> \in S
  <2>1. <<>> \in Seq(Text) /\ ValidUtf8(<<>>)
    BY DEF ValidUtf8
  <2> QED
    BY <2>1, Utf8Empty
<1>2. ASSUME NEW u \in Seq(Text), NEW x \in Text, u \in S PROVE Append(u, x) \in S
  <2>1. Utf8(u) \in Seq(Coded(Text)) /\ Utf8(Append(u, x)) = Utf8(u) \o BytesOf(x)
    BY Utf8Append
  <2>2. ValidUtf8(Utf8(u) \o BytesOf(x))
    BY <1>2, <2>1, ValidMore
  <2>3. Append(u, x) \in Seq(Text)
    OBVIOUS
  <2> QED
    BY <2>1, <2>2, <2>3
<1> HIDE DEF S
<1>3. Seq(Text) \subseteq S
  BY <1>1, <1>2, ByAppending
<1> QED
  BY <1>3 DEF S

-------------------------------------------------------------------------------
(* Escaped values. *)

Unescaping == [text : Seq(Text), waits : BOOLEAN, ok : BOOLEAN]
Unread == [text |-> <<>>, waits |-> FALSE, ok |-> TRUE]

\* A character more keeps the type of what is unescaped.
LEMMA UnescapeTyped ==
    ASSUME NEW r \in Unescaping, NEW c \in Text PROVE Unescape(r, c) \in Unescaping
<1>1. UnescapeOf(c) \in Text
  BY DEF UnescapeOf, Text
<1>2. Append(r.text, UnescapeOf(c)) \in Seq(Text) /\ Append(r.text, c) \in Seq(Text)
  BY <1>1 DEF Unescaping
<1> QED
  BY <1>2 DEF Unescape, Unescaping

\* Unescaped is the last value of a run that takes one character at a time.
LEMMA UnescapedIs ==
    ASSUME NEW s \in Seq(Text)
    PROVE  \E r \in [0..Len(s) -> Unescaping] :
             /\ r[0] = Unread /\ \A k \in 1..Len(s) : r[k] = Unescape(r[k - 1], s[k])
             /\ Unescaped(s) = r[Len(s)]
<1> DEFINE S == Unescaping
           n == Len(s)
           e == Unread
           step == [k \in Nat |-> [x \in S |-> IF k \in 1..n THEN Unescape(x, s[k]) ELSE x]]
           r == CHOOSE g : g = [k \in 0..n |-> IF k = 0 THEN Unread ELSE Unescape(g[k - 1], s[k])]
<1>1. n \in Nat /\ e \in S /\ \A k \in 1..n : \A x \in S : Unescape(x, s[k]) \in S
  <2>1. n \in Nat /\ \A k \in 1..n : s[k] \in Text
    OBVIOUS
  <2>2. e \in S
    BY DEF Unread, Unescaping
  <2> HIDE DEF n, e
  <2> QED
    BY <2>1, <2>2, UnescapeTyped
<1>2. Unescaped(s) = r[n]
  BY DEF Unescaped, Unread
<1> HIDE DEF n, S
<1>3. \A k \in 1..n : k \in Nat /\ k # 0 /\ k - 1 \in 0..n /\ k \in 0..n
  BY <1>1
<1>4. step \in [Nat -> [S -> S]]
  BY <1>1
<1>5. PICK f : Follows(f, S, e, step, n)
  <2> HIDE DEF e, step
  <2> QED
    BY <1>1, <1>4, Recursion
<1>6. f \in [0..n -> S] /\ f[0] = e /\ \A k \in 1..n : f[k] = step[k][f[k - 1]]
  BY <1>5 DEF Follows
<1>7. \A k \in 1..n : f[k] = Unescape(f[k - 1], s[k])
  BY <1>3, <1>6
<1>8. f = [k \in 0..n |-> IF k = 0 THEN Unread ELSE Unescape(f[k - 1], s[k])]
  <2>1. \A k \in 0..n : k = 0 \/ k \in 1..n
    BY <1>1
  <2> QED
    BY <1>6, <1>7, <2>1
<1>9. r = [k \in 0..n |-> IF k = 0 THEN Unread ELSE Unescape(r[k - 1], s[k])]
  BY <1>8
<1> HIDE DEF r
<1>10. r[0] = e /\ \A k \in 1..n : r[k] = Unescape(r[k - 1], s[k])
  <2>1. 0 \in 0..n
    BY <1>1
  <2> QED
    BY <1>3, <1>9, <2>1
<1>11. StepAlike(r, f, n)
  <2>1. \A k \in 1..n : r[k - 1] = f[k - 1] => r[k] = f[k]
    BY <1>7, <1>10
  <2>2. r[0] = f[0]
    BY <1>6, <1>10
  <2> QED
    BY <2>1, <2>2 DEF StepAlike
<1>12. \A k \in 0..n : r[k] = f[k]
  <2>1. n \in Nat
    BY <1>1
  <2> QED
    BY <1>11, <2>1, Alike
<1>13. r \in [0..n -> S]
  BY <1>6, <1>9, <1>12
<1> QED
  BY <1>2, <1>10, <1>13 DEF n, S, e

\* Unescaping one character more is one more step.
LEMMA UnescapedAppend ==
    ASSUME NEW s \in Seq(Text), NEW x \in Text
    PROVE  /\ Unescaped(s) \in Unescaping
           /\ Unescaped(Append(s, x)) = Unescape(Unescaped(s), x)
<1> DEFINE t == Append(s, x)
           n == Len(s)
<1>1. /\ t \in Seq(Text) /\ n \in Nat /\ Len(t) = n + 1 /\ t[n + 1] = x
      /\ \A k \in 1..n : t[k] = s[k]
  OBVIOUS
<1> HIDE DEF t
<1>2. PICK r \in [0..n -> Unescaping] :
             /\ r[0] = Unread /\ \A k \in 1..n : r[k] = Unescape(r[k - 1], s[k])
             /\ Unescaped(s) = r[n]
  BY UnescapedIs
<1>3. PICK q \in [0..Len(t) -> Unescaping] :
             /\ q[0] = Unread /\ \A k \in 1..Len(t) : q[k] = Unescape(q[k - 1], t[k])
             /\ Unescaped(t) = q[Len(t)]
  BY <1>1, UnescapedIs
<1> HIDE DEF n
<1>4. StepAlike(r, q, n)
  <2>1. \A k \in 1..n : k \in 1..Len(t)
    BY <1>1
  <2>2. \A k \in 1..n : r[k - 1] = q[k - 1] => r[k] = q[k]
    BY <1>1, <1>2, <1>3, <2>1
  <2>3. r[0] = q[0]
    BY <1>2, <1>3
  <2> QED
    BY <2>2, <2>3 DEF StepAlike
<1>5. \A k \in 0..n : r[k] = q[k]
  <2>1. n \in Nat
    BY <1>1
  <2> QED
    BY <1>4, <2>1, Alike
<1>6. q[n + 1] = Unescape(q[n], x)
  <2>1. n + 1 \in 1..Len(t) /\ (n + 1) - 1 = n
    BY <1>1
  <2>2. q[n + 1] = Unescape(q[(n + 1) - 1], t[(n + 1)])
    BY <1>3, <2>1
  <2> QED
    BY <1>1, <2>1, <2>2
<1>7. n \in 0..n
  BY <1>1
<1>8. Unescaped(s) \in Unescaping /\ r[n] = q[n] /\ Unescaped(t) = q[n + 1]
  BY <1>1, <1>2, <1>3, <1>5, <1>7
<1> QED
  BY <1>6, <1>8, <1>2 DEF t

\* Before the first character nothing is unescaped and nothing waits.
LEMMA UnescapedEmpty == Unescaped(<<>>) = Unread
<1> DEFINE e == <<>>
<1>1. e \in Seq(Text) /\ Len(e) = 0
  OBVIOUS
<1> HIDE DEF e
<1>2. Unescaped(e) = Unread
  BY <1>1, UnescapedIs
<1> QED
  BY <1>2 DEF e

\* After the text t nothing waits and nothing failed.
Done(t) == [text |-> t, waits |-> FALSE, ok |-> TRUE]
Waiting(t) == [text |-> t, waits |-> TRUE, ok |-> TRUE]

\* An escape is read as the character it stands for.
LEMMA UnescapePair ==
    ASSUME NEW s \in Seq(Text), NEW t \in Seq(Text), NEW c \in Text, Unescaped(s) = Done(t), c \in Escaped
    PROVE  Unescaped(s \o <<Backslash, c>>) = Done(Append(t, UnescapeOf(c)))
<1> DEFINE u == Append(s, Backslash)
<1>1. Backslash \in Text
  BY TextIs
<1>2. s \o <<Backslash, c>> = Append(u, c) /\ u \in Seq(Text)
  BY <1>1, TwoMore
<1>3. Unescaped(u) = Unescape(Unescaped(s), Backslash)
  BY <1>1, UnescapedAppend
<1>4. Unescape(Done(t), Backslash) = Waiting(t)
  BY DEF Unescape, Done, Waiting
<1>5. Unescape(Waiting(t), c) = Done(Append(t, UnescapeOf(c)))
  BY DEF Unescape, Done, Waiting
<1> HIDE DEF u
<1>6. Unescaped(Append(u, c)) = Unescape(Unescaped(u), c)
  BY <1>2, UnescapedAppend
<1> QED
  BY <1>2, <1>3, <1>4, <1>5, <1>6

\* After an escaped text, what a character is escaped as gives back that character.
LEMMA UnescapeMore ==
    ASSUME NEW s \in Seq(Text), NEW t \in Seq(Text), NEW c \in Text, Unescaped(s) = Done(t)
    PROVE  Unescaped(s \o EscapeOf(c)) = Done(Append(t, c))
<1>1. CASE c \in {Backslash, Tab, Newline, Return}
  <2>1. PICK d \in Escaped : EscapeOf(c) = <<Backslash, d>> /\ UnescapeOf(d) = c
    BY <1>1 DEF EscapeOf, Escaped, UnescapeOf, Backslash, Tab, Newline, Return
  <2>2. d \in Text
    BY DEF Escaped, Text
  <2> QED
    BY <2>1, <2>2, UnescapePair
<1>2. CASE c \notin {Backslash, Tab, Newline, Return}
  <2>1. EscapeOf(c) = <<c>>
    BY <1>2 DEF EscapeOf
  <2>2. s \o <<c>> = Append(s, c)
    OBVIOUS
  <2>3. Unescaped(Append(s, c)) = Unescape(Unescaped(s), c)
    BY UnescapedAppend
  <2>4. Unescape(Done(t), c) = Done(Append(t, c))
    BY <1>2 DEF Unescape, Done
  <2> QED
    BY <2>1, <2>2, <2>3, <2>4
<1> QED
  BY <1>1, <1>2

\* What is written without separators is a text.
LEMMA SafeText == Safe(Text) = Plain /\ Plain \subseteq LineText /\ LineText \subseteq Text
  BY DEF Safe, Plain, LineText, Text, Tab, Newline, Return, Backslash

\* An escaped value is read as this value.
LEMMA EscapeBack ==
    ASSUME NEW s \in Seq(Text)
    PROVE  /\ escape_six_value(s) \in Seq(Plain)
           /\ Unescaped(escape_six_value(s)) = Done(s)
<1> DEFINE S == {u \in Seq(Text) : escape_six_value(u) \in Seq(Plain)
                                   /\ Unescaped(escape_six_value(u)) = Done(u)}
<1>1. <<>> \in S
  <2>1. <<>> \in Seq(Text) /\ <<>> \in Seq(Plain)
    OBVIOUS
  <2>2. Unescaped(<<>>) = Done(<<>>)
    BY UnescapedEmpty DEF Unread, Done
  <2> QED
    BY <2>1, <2>2, EscapeEmpty
<1>2. ASSUME NEW u \in Seq(Text), NEW x \in Text, u \in S PROVE Append(u, x) \in S
  <2> DEFINE t == Append(u, x)
             e == escape_six_value(u)
             f == escape_six_value(t)
  <2>1. e \in Seq(Plain) /\ EscapeOf(x) \in Seq(Plain) /\ f = e \o EscapeOf(x)
    BY EscapeAppend, SafeText
  <2>2. t \in Seq(Text)
    OBVIOUS
  <2>3. Unescaped(e) = Done(u)
    BY <1>2
  <2> HIDE DEF e, f, t
  <2>4. f \in Seq(Plain)
    BY <2>1
  <2>5. e \in Seq(Text)
    BY <2>1, SafeText
  <2>6. Unescaped(e \o EscapeOf(x)) = Done(Append(u, x))
    BY <2>3, <2>5, UnescapeMore
  <2>7. t \in S
    BY <2>1, <2>2, <2>4, <2>6 DEF f, t
  <2> QED
    BY <2>7 DEF t
<1> HIDE DEF S
<1>3. Seq(Text) \subseteq S
  BY <1>1, <1>2, ByAppending
<1> QED
  BY <1>3 DEF S

-------------------------------------------------------------------------------
(* Operation lines. *)

\* The byte of a number is read as this number.
LEMMA NumberBack ==
    ASSUME NEW n \in Numbers
    PROVE  /\ IsNumber(NumberByte[n]) /\ ParseNumber(NumberByte[n]) = n
           /\ NumberByte[n] \in NumberBytes /\ NumberByte[n] \in LineText
           /\ NumberByte[n] # TwoBytes /\ NumberByte[n] # Tab
<1>1. IsNumber(NumberByte[n]) /\ NumberByte[n] \in NumberBytes
  BY DEF IsNumber, NumberBytes
<1>2. \A m \in Numbers : NumberByte[m] = NumberByte[n] => m = n
  BY NumberAssumption
<1>3. ParseNumber(NumberByte[n]) = n
  BY <1>2 DEF ParseNumber
<1>4. NumberByte[n] \notin {Tab, Newline, Return, Backslash, TwoBytes}
  BY NumberAssumption
<1> QED
  BY <1>1, <1>3, <1>4 DEF LineText, Text

\* One and two parts.
LEMMA ConcatOne == ASSUME NEW B, NEW x \in Seq(B) PROVE Concat(<<x>>) = x
<1> DEFINE e == <<>>
<1>1. e \in Seq(Seq(B)) /\ <<x>> = Append(e, x) /\ <<>> \o x = x
  OBVIOUS
<1> HIDE DEF e
<1>2. Concat(Append(e, x)) = Concat(e) \o x
  BY <1>1, ConcatAppend
<1> QED
  BY <1>1, <1>2, ConcatEmpty DEF e

\* A concatenation of two sequences.
LEMMA ConcatTwo == ASSUME NEW B, NEW x \in Seq(B), NEW y \in Seq(B) PROVE Concat(<<x, y>>) = x \o y
<1> DEFINE e == <<x>>
<1>1. e \in Seq(Seq(B)) /\ <<x, y>> = Append(e, y)
  OBVIOUS
<1>2. Concat(e) = x
  BY ConcatOne
<1> HIDE DEF e
<1>3. Concat(Append(e, y)) = Concat(e) \o y
  BY <1>1, ConcatAppend
<1> QED
  BY <1>1, <1>2, <1>3

\* The columns of a delete and of a put.
LEMMA JoinedOne == ASSUME NEW id \in Seq(Text) PROVE Joined(<<id>>) = escape_six_value(id)
<1> DEFINE e == escape_six_value(id)
           c == <<id>>
<1>1. e \in Seq(Plain)
  BY EscapeBack
<1> HIDE DEF e
<1>2. <<>> \o e = e
  BY <1>1
<1>3. DOMAIN c = 1..1 /\ c[1] = id
  OBVIOUS
<1>4. [i \in DOMAIN c |-> (IF i = 1 THEN <<>> ELSE <<Tab>>) \o escape_six_value(c[i])] = <<e>>
  BY <1>2, <1>3 DEF e
<1>5. Concat(<<e>>) = e
  BY <1>1, ConcatOne
<1> HIDE DEF c
<1>6. Joined(c) = e
  BY <1>4, <1>5 DEF Joined
<1> QED
  BY <1>6 DEF c, e

\* The two columns of a put are joined by a tab.
LEMMA JoinedTwo ==
    ASSUME NEW id \in Seq(Text), NEW v \in Seq(Text)
    PROVE  Joined(<<id, v>>) = escape_six_value(id) \o (<<Tab>> \o escape_six_value(v))
<1> DEFINE e == escape_six_value(id)
           f == escape_six_value(v)
           g == <<Tab>> \o f
           c == <<id, v>>
<1>1. e \in Seq(Plain) /\ f \in Seq(Plain)
  BY EscapeBack
<1> HIDE DEF e, f
<1>2. <<>> \o e = e /\ e \in Seq(Plain \cup {Tab}) /\ g \in Seq(Plain \cup {Tab})
  BY <1>1
<1>3. DOMAIN c = 1..2 /\ c[1] = id /\ c[2] = v
  OBVIOUS
<1> HIDE DEF g
<1>4. [i \in DOMAIN c |-> (IF i = 1 THEN <<>> ELSE <<Tab>>) \o escape_six_value(c[i])] = <<e, g>>
  <2> DEFINE h == [i \in DOMAIN c |-> (IF i = 1 THEN <<>> ELSE <<Tab>>) \o escape_six_value(c[i])]
  <2>1. h[1] = e
    BY <1>2, <1>3 DEF e
  <2>2. h[2] = g
    BY <1>3 DEF f, g
  <2>3. DOMAIN h = 1..2
    BY <1>3
  <2>4. h = [i \in 1..2 |-> h[i]]
    BY <2>3
  <2> HIDE DEF h
  <2>5. h = <<e, g>>
    BY <2>1, <2>2, <2>4
  <2> QED
    BY <2>5 DEF h
<1>5. Concat(<<e, g>>) = e \o g
  BY <1>2, ConcatTwo
<1> HIDE DEF c
<1>6. Joined(c) = e \o g
  BY <1>4, <1>5 DEF Joined
<1> QED
  BY <1>6 DEF c, e, f, g

\* What an operation is made of.
IsPut(o, id, v) == o.tag = "R" /\ o.columns = <<id, v>> /\ id \in Seq(Text) /\ v \in Seq(Text)
IsDelete(o, id) == o.tag = "D" /\ o.columns = <<id>> /\ id \in Seq(Text)

\* An operation is a put with an id and a value or a delete with an id.
LEMMA OperationIs ==
    ASSUME NEW o \in Operation
    PROVE  /\ o = [tag |-> o.tag, tx |-> o.tx, columns |-> o.columns]
           /\ o.tx \in Numbers /\ o.tx \in Nat \ {0}
           /\ o.tag \in {"R", "D"} /\ o.tag \in LineText /\ o.tag \notin {Tab, TwoBytes}
           /\ (\E id, v : IsPut(o, id, v)) \/ (\E id : IsDelete(o, id))
<1>1. \A s \in Seq(Characters) : s \in Seq(Text)
  <2>1. Characters \subseteq Text
    BY DEF Text
  <2> QED
    BY <2>1
<1>2. \A id \in Ids : id \in Seq(Text)
  BY <1>1, CharacterAssumption
<1>3. \A v \in Values : v \in Seq(Text)
  BY <1>1, CharacterAssumption
<1>4. 1..MaxTx \subseteq Numbers /\ 1..MaxTx \subseteq Nat \ {0}
  BY BoundsAssumption DEF Numbers
<1>5. o.tx \in 1..MaxTx /\ o.tag \in {"R", "D"} /\ o = [tag |-> o.tag, tx |-> o.tx, columns |-> o.columns]
  BY DEF Operation
<1>6. CASE o.tag = "R"
  <2>1. PICK id \in Ids, v \in Values : o.columns = <<id, v>>
    BY <1>6 DEF Operation
  <2>2. IsPut(o, id, v)
    BY <1>2, <1>3, <1>6, <2>1 DEF IsPut
  <2> QED
    BY <1>4, <1>5, <2>2 DEF LineText, Text, Tab, Newline, Return, TwoBytes
<1>7. CASE o.tag = "D"
  <2>1. PICK id \in Ids : o.columns = <<id>>
    BY <1>7 DEF Operation
  <2>2. IsDelete(o, id)
    BY <1>2, <1>7, <2>1 DEF IsDelete
  <2> QED
    BY <1>4, <1>5, <2>2 DEF LineText, Text, Tab, Newline, Return, TwoBytes
<1> QED
  BY <1>5, <1>6, <1>7

\* The joined columns have no line break.
LEMMA JoinedIs == ASSUME NEW o \in Operation PROVE Joined(o.columns) \in Seq(LineText)
<1>1. Plain \subseteq LineText /\ Tab \in LineText
  BY DEF Plain, LineText, Text, Tab, Newline, Return
<1>2. \A s \in Seq(Plain) : s \in Seq(LineText)
  BY <1>1
<1>3. CASE \E id, v : IsPut(o, id, v)
  <2>1. PICK id, v : IsPut(o, id, v)
    BY <1>3
  <2>2. id \in Seq(Text) /\ v \in Seq(Text) /\ o.columns = <<id, v>>
    BY <2>1 DEF IsPut
  <2> DEFINE e == escape_six_value(id)
             f == escape_six_value(v)
  <2>3. e \in Seq(LineText) /\ f \in Seq(LineText)
    BY <1>2, <2>2, EscapeBack
  <2>4. Joined(o.columns) = e \o (<<Tab>> \o f)
    BY <2>2, JoinedTwo
  <2> HIDE DEF e, f
  <2> QED
    BY <1>1, <2>3, <2>4
<1>4. CASE \E id : IsDelete(o, id)
  <2>1. PICK id : IsDelete(o, id)
    BY <1>4
  <2> QED
    BY <1>2, <2>1, EscapeBack, JoinedOne DEF IsDelete
<1> QED
  BY <1>3, <1>4, OperationIs

\* A line is cut in three at its first two tabs.
LEMMA FixedParts ==
    ASSUME NEW tag \in LineText, NEW num \in LineText, tag # Tab, num # Tab, NEW j \in Seq(LineText)
    PROVE  SplitN(<<tag, Tab, num, Tab>> \o j, Tab, 3) = << <<tag>>, <<num>>, j>>
<1> DEFINE e == <<>>
           B == LineText
           s1 == Append(e, tag)
           s2 == Append(s1, Tab)
           n1 == Append(e, num)
           s3 == Append(s2, num)
           s4 == Append(s3, Tab)
           q1 == Append(e, s1)
           q2 == Append(q1, n1)
<1>1. Tab \in B
  BY DEF LineText, Text, Tab, Newline, Return
<1>2. /\ e \in Seq(B) /\ s1 \in Seq(B) /\ s2 \in Seq(B) /\ n1 \in Seq(B) /\ s3 \in Seq(B)
      /\ s4 \in Seq(B)
  BY <1>1
<1>3. e \in Seq(Seq(B)) /\ q1 \in Seq(Seq(B)) /\ Len(e) = 0 /\ Len(q1) = 1
  BY <1>2
<1>4. q2 \in Seq(Seq(B)) /\ Len(q2) = 2
  <2> HIDE DEF B, q1, n1, s1, s2, s3, s4
  <2>1. n1 \in Seq(B) /\ q1 \in Seq(Seq(B)) /\ Len(q1) = 1
    BY <1>2, <1>3
  <2>2. Append(q1, n1) \in Seq(Seq(B)) /\ Len(Append(q1, n1)) = Len(q1) + 1
    BY <2>1, AppendIs
  <2> QED
    BY <2>1, <2>2 DEF q2
<1>5. SplitsTo(e, Tab, 3, e, e)
  <2>1. OnePiece = Append(e, e)
    BY DEF OnePiece
  <2> QED
    BY <2>1, SplitNEmpty DEF SplitsTo
<1>6. s4 = <<tag, Tab, num, Tab>> /\ Append(q2, j) = << <<tag>>, <<num>>, j>>
  <2>1. s1 = <<tag>> /\ n1 = <<num>> /\ q1 = <<s1>>
    OBVIOUS
  <2>2. s4 = <<tag, Tab, num, Tab>>
    <3>1. s1 = <<tag>>
      BY AppendOne
    <3>2. Append(<<tag>>, Tab) = <<tag, Tab>>
      BY <1>1, AppendTwo
    <3>3. Append(<<tag, Tab>>, num) = <<tag, Tab, num>>
      BY <1>1, AppendThree
    <3>4. Append(<<tag, Tab, num>>, Tab) = <<tag, Tab, num, Tab>>
      BY <1>1, AppendFour
    <3> HIDE DEF n1, q1, q2, B
    <3> QED
      BY <3>1, <3>2, <3>3, <3>4
  <2>3. Append(Append(<<s1>>, n1), j) = <<s1, n1, j>>
    <3> DEFINE C == Seq(B)
    <3>1. s1 \in C /\ n1 \in C /\ j \in C
      BY <1>2
    <3> HIDE DEF B, C, s1, s2, s3, s4, n1, q1, q2
    <3>2. Append(<<s1>>, n1) = <<s1, n1>>
      BY <3>1, AppendTwo
    <3>3. Append(<<s1, n1>>, j) = <<s1, n1, j>>
      BY <3>1, AppendThree
    <3> QED
      BY <3>2, <3>3
  <2> HIDE DEF s4
  <2> QED
    BY <2>1, <2>2, <2>3
<1>7. <<>> \o j = j
  OBVIOUS
<1> HIDE DEF B, s1, s2, s3, s4, n1, q1, q2
<1>8. SplitsTo(s1, Tab, 3, e, s1)
  <2> HIDE DEF e
  <2> QED
    BY <1>1, <1>2, <1>3, <1>5, SplitGrow DEF s1, B
<1>9. SplitsTo(s2, Tab, 3, q1, e)
  <2> HIDE DEF e
  <2>1. Len(e) + 1 < 3
    BY <1>3
  <2>2. SplitsTo(Append(s1, Tab), Tab, 3, Append(e, s1), <<>>)
    BY <1>1, <1>2, <1>3, <1>8, <2>1, SplitCut
  <2> QED
    BY <2>2 DEF s2, q1, e
<1>10. SplitsTo(s3, Tab, 3, q1, n1)
  <2> HIDE DEF e
  <2> QED
    BY <1>1, <1>2, <1>3, <1>9, SplitGrow DEF s3, n1, B
<1>11. SplitsTo(s4, Tab, 3, q2, e)
  <2> HIDE DEF e
  <2>1. Len(q1) + 1 < 3
    BY <1>3
  <2>2. SplitsTo(Append(s3, Tab), Tab, 3, Append(q1, n1), <<>>)
    BY <1>1, <1>2, <1>3, <1>10, <2>1, SplitCut
  <2> QED
    BY <2>2 DEF s4, q2, e
<1>12. SplitsTo(s4 \o j, Tab, 3, q2, e \o j)
  <2> HIDE DEF e
  <2>1. ~(Len(q2) + 1 < 3) /\ j \in Seq(B) /\ B \in SUBSET B
    BY <1>4 DEF B
  <2> QED
    BY <1>2, <1>4, <1>11, <2>1, SplitPlain
<1> QED
  BY <1>6, <1>7, <1>12 DEF SplitsTo

\* Two values are parted at the tab between them.
LEMMA TwoParts ==
    ASSUME NEW e \in Seq(Plain), NEW f \in Seq(Plain)
    PROVE  Split(e \o (<<Tab>> \o f), Tab) = <<e, f>>
<1> DEFINE B == LineText
           z == <<>>
           j == e \o (<<Tab>> \o f)
           l == Len(j) + 1
           s == Append(e, Tab)
           q == Append(z, e)
<1>1. Plain \in SUBSET B /\ Tab \in B /\ Tab \notin Plain
  BY DEF Plain, LineText, Text, Tab, Newline, Return
<1>2. e \in Seq(B) /\ f \in Seq(B)
  BY <1>1
<1> HIDE DEF B
<1>3. j = s \o f /\ Len(j) = Len(e) + 1 + Len(f) /\ Len(e) \in Nat /\ Len(f) \in Nat
  BY <1>1, <1>2
<1>4. s \in Seq(B) /\ z \in Seq(B) /\ z \in Seq(Seq(B)) /\ q \in Seq(Seq(B)) /\ Len(z) = 0 /\ Len(q) = 1
  BY <1>1, <1>2
<1>5. <<>> \o e = e /\ <<>> \o f = f /\ Append(q, f) = <<e, f>> /\ OnePiece = Append(z, z)
  <2>1. <<>> \o e = e /\ <<>> \o f = f
    OBVIOUS
  <2>2. q = <<e>> /\ Append(<<e>>, f) = <<e, f>>
    <3> DEFINE C == Seq(B)
    <3>1. e \in C /\ f \in C
      BY <1>2
    <3> HIDE DEF B, C, j, l, s
    <3>2. Append(<<>>, e) = <<e>> /\ Append(<<e>>, f) = <<e, f>>
      BY <3>1, AppendOne, AppendTwo
    <3> QED
      BY <3>2
  <2>3. OnePiece = Append(z, z)
    BY DEF OnePiece
  <2> QED
    BY <2>1, <2>2, <2>3
<1>6. l \in Nat /\ l > 1
  BY <1>3
<1> HIDE DEF z, j, l, s, q
<1>7. SplitsTo(z, Tab, l, z, z)
  BY <1>5, SplitNEmpty DEF SplitsTo, z
<1>8. SplitsTo(z \o e, Tab, l, z, z \o e)
  BY <1>1, <1>4, <1>7, SplitPlain
<1>9. SplitsTo(e, Tab, l, z, e)
  BY <1>5, <1>8 DEF z
<1>10. SplitsTo(s, Tab, l, q, z)
  <2>1. Len(z) + 1 < l
    BY <1>4, <1>6
  <2>2. SplitsTo(Append(e, Tab), Tab, l, Append(z, e), <<>>)
    BY <1>1, <1>2, <1>4, <1>9, <2>1, SplitCut
  <2> QED
    BY <2>2 DEF s, q, z
<1>11. SplitsTo(s \o f, Tab, l, q, z \o f)
  BY <1>1, <1>4, <1>10, SplitPlain
<1>12. SplitN(j, Tab, l) = Append(q, f)
  BY <1>3, <1>5, <1>11 DEF SplitsTo, z
<1> QED
  BY <1>5, <1>12 DEF Split, j, l

\* A line decodes to the operation it was encoded from.
LEMMA EncodeIs ==
    ASSUME NEW o \in Operation
    PROVE  /\ encode_six_operation(o) \in Seq(LineText)
           /\ SplitN(encode_six_operation(o), Tab, 3) = << <<o.tag>>, <<NumberByte[o.tx]>>, Joined(o.columns)>>
<1> DEFINE num == NumberByte[o.tx]
           j == Joined(o.columns)
<1>1. o.tag \in LineText /\ o.tag # Tab
  BY OperationIs
<1>2. num \in LineText /\ num # Tab
  BY OperationIs, NumberBack
<1>3. j \in Seq(LineText) /\ Tab \in LineText
  BY JoinedIs DEF LineText, Text, Tab, Newline, Return
<1>4. encode_six_operation(o) = <<o.tag, Tab, num, Tab>> \o j
  BY DEF encode_six_operation
<1> HIDE DEF num, j
<1>5. SplitN(<<o.tag, Tab, num, Tab>> \o j, Tab, 3) = << <<o.tag>>, <<num>>, j>>
  <2> DEFINE tag == o.tag
  <2>1. tag \in LineText /\ tag # Tab
    BY <1>1
  <2> HIDE DEF tag
  <2>2. SplitN(<<tag, Tab, num, Tab>> \o j, Tab, 3) = << <<tag>>, <<num>>, j>>
    BY <1>2, <1>3, <2>1, FixedParts
  <2> QED
    BY <2>2 DEF tag
<1>6. <<o.tag, Tab, num, Tab>> \o j \in Seq(LineText)
  <2>1. <<o.tag, Tab, num, Tab>> \in Seq(LineText)
    BY <1>1, <1>2, <1>3
  <2> QED
    BY <1>3, <2>1
<1> QED
  BY <1>4, <1>5, <1>6 DEF num, j

\* A line decodes to the operation it was encoded from, whatever characters the
\* id and the value hold (format.rs, encode_six_operation and decode_six_operation).
LEMMA DecodeEncode ==
    ASSUME NEW o \in Operation PROVE decode_six_operation(encode_six_operation(o)) = o
<1> DEFINE line == encode_six_operation(o)
           fixed == SplitN(line, Tab, 3)
           parts == IF fixed[1] = <<"R">> THEN Split(fixed[3], Tab) ELSE <<fixed[3]>>
           num == NumberByte[o.tx]
           j == Joined(o.columns)
           columns == [i \in DOMAIN parts |-> unescape_six_value(parts[i])]
<1>1. Len(fixed) = 3 /\ fixed[1] = <<o.tag>> /\ fixed[2] = <<num>> /\ fixed[3] = j
  BY EncodeIs
<1>2. IsNumber(num) /\ ParseNumber(num) = o.tx
  BY OperationIs, NumberBack
<1>3. Len(<<num>>) = 1 /\ <<num>>[1] = num /\ <<o.tag>>[1] = o.tag
  OBVIOUS
<1>4. /\ fixed[1] = <<"R">> => Len(parts) = 2
      /\ \A i \in DOMAIN parts : Unescapes(parts[i])
      /\ columns = o.columns
  <2> HIDE DEF fixed, line
  <2>1. CASE \E id, v : IsPut(o, id, v)
    <3>1. PICK id, v : IsPut(o, id, v)
      BY <2>1
    <3>2. o.tag = "R" /\ id \in Seq(Text) /\ v \in Seq(Text) /\ o.columns = <<id, v>>
      BY <3>1 DEF IsPut
    <3> DEFINE e == escape_six_value(id)
               f == escape_six_value(v)
    <3>3. e \in Seq(Plain) /\ f \in Seq(Plain) /\ Unescaped(e) = Done(id) /\ Unescaped(f) = Done(v)
      BY <3>2, EscapeBack
    <3>4. j = e \o (<<Tab>> \o f)
      BY <3>2, JoinedTwo
    <3> HIDE DEF e, f, j
    <3>5. Split(j, Tab) = <<e, f>>
      BY <3>3, <3>4, TwoParts
    <3>6. parts = <<e, f>>
      BY <1>1, <3>2, <3>5
    <3>7. Unescapes(e) /\ Unescapes(f) /\ unescape_six_value(e) = id /\ unescape_six_value(f) = v
      BY <3>3 DEF Unescapes, unescape_six_value, Done
    <3> HIDE DEF parts
    <3>8. Len(parts) = 2 /\ DOMAIN parts = 1..2 /\ parts[1] = e /\ parts[2] = f
      BY <3>6
    <3>9. \A i \in 1..2 : i = 1 \/ i = 2
      OBVIOUS
    <3>10. \A i \in DOMAIN parts : Unescapes(parts[i])
      BY <3>7, <3>8, <3>9
    <3>11. columns = <<id, v>>
      <4>1. columns = [i \in 1..2 |-> unescape_six_value(parts[i])]
        BY <3>8
      <4>2. columns[1] = id /\ columns[2] = v /\ DOMAIN columns = 1..2
        BY <3>7, <3>8, <4>1
      <4>3. columns = [i \in 1..2 |-> columns[i]]
        BY <4>1, <4>2
      <4> HIDE DEF columns
      <4> QED
        BY <4>2, <4>3
    <3> QED
      BY <3>2, <3>8, <3>10, <3>11
  <2>2. CASE \E id : IsDelete(o, id)
    <3>1. PICK id : IsDelete(o, id)
      BY <2>2
    <3>2. o.tag = "D" /\ id \in Seq(Text) /\ o.columns = <<id>>
      BY <3>1 DEF IsDelete
    <3>3. j = escape_six_value(id)
      BY <3>2, JoinedOne
    <3> HIDE DEF j
    <3>4. Unescapes(j) /\ unescape_six_value(j) = id
      BY <3>2, <3>3, EscapeBack DEF Unescapes, unescape_six_value, Done
    <3>5. fixed[1] # <<"R">>
      <4>1. <<"D">>[1] = "D" /\ <<"R">>[1] = "R"
        OBVIOUS
      <4> QED
        BY <1>1, <3>2, <4>1
    <3>6. parts = <<j>>
      BY <1>1, <3>5
    <3> HIDE DEF parts
    <3>7. DOMAIN parts = 1..1 /\ parts[1] = j /\ \A i \in 1..1 : i = 1
      BY <3>6
    <3>8. \A i \in DOMAIN parts : Unescapes(parts[i])
      BY <3>4, <3>7
    <3>9. columns = <<id>>
      <4>1. columns = [i \in 1..1 |-> unescape_six_value(parts[i])]
        BY <3>7
      <4>2. columns[1] = id /\ DOMAIN columns = 1..1
        BY <3>4, <3>7, <4>1
      <4>3. columns = [i \in 1..1 |-> columns[i]]
        BY <4>1, <4>2
      <4> HIDE DEF columns
      <4> QED
        BY <4>2, <4>3
    <3> QED
      BY <3>2, <3>5, <3>8, <3>9
  <2> QED
    BY <2>1, <2>2, OperationIs
<1>5. fixed[1] \in {<<"R">>, <<"D">>}
  BY <1>1, OperationIs
<1>6. decode_six_operation(line) =
        IF /\ Len(fixed) = 3
           /\ Len(fixed[2]) = 1 /\ IsNumber(fixed[2][1])
           /\ fixed[1] \in {<<"R">>, <<"D">>}
           /\ fixed[1] = <<"R">> => Len(parts) = 2
           /\ \A i \in DOMAIN parts : Unescapes(parts[i])
        THEN [tag |-> fixed[1][1], tx |-> ParseNumber(fixed[2][1]), columns |-> columns]
        ELSE Refused
  <2> HIDE DEF line
  <2> QED
    BY DEF decode_six_operation
<1> HIDE DEF line, fixed, parts, num, j, columns
<1>7. decode_six_operation(line) = [tag |-> o.tag, tx |-> o.tx, columns |-> o.columns]
  BY <1>1, <1>2, <1>3, <1>4, <1>5, <1>6
<1>8. o = [tag |-> o.tag, tx |-> o.tx, columns |-> o.columns]
  BY OperationIs
<1> QED
  BY <1>7, <1>8 DEF line

\* The line of an operation, and the bytes of lines.
Line(o) == Utf8(encode_six_operation(o))
LineByte == Coded(LineText) \cup {"SIX", "table", "@field", "@lookup", "@data"}

\* A line starts with its tag and its number.
LEMMA LineHead ==
    ASSUME NEW o \in Operation
    PROVE  /\ Len(Line(o)) >= 4 /\ Len(Line(o)) \in Nat
           /\ Line(o)[1] = o.tag /\ Line(o)[2] = Tab /\ Line(o)[3] = NumberByte[o.tx]
           /\ \E y \in Seq(LineByte) : Line(o) = <<o.tag, Tab, NumberByte[o.tx], Tab>> \o y /\ y = Utf8(Joined(o.columns))
           /\ Line(o) \in Seq(LineByte)
<1> DEFINE num == NumberByte[o.tx]
           tag == o.tag
           j == Joined(o.columns)
           u == Utf8(j)
           e == <<>>
           h == <<tag, Tab, num, Tab>>
<1>1. tag \in LineText /\ tag # TwoBytes
  BY OperationIs
<1>2. num \in LineText /\ num # TwoBytes
  BY OperationIs, NumberBack
<1>3. Tab \in LineText /\ Tab # TwoBytes
  BY DEF LineText, Text, Tab, Newline, Return, TwoBytes
<1>4. encode_six_operation(o) = h \o j
  BY DEF encode_six_operation
<1>5. j \in Seq(LineText)
  BY JoinedIs
<1> HIDE DEF num, tag, j
<1>6. h \in Seq(LineText)
  BY <1>1, <1>2, <1>3
<1>7. Utf8(h) = h
  <2>1. e \in Seq(LineText)
    OBVIOUS
  <2>2. BytesOf(tag) = <<tag>> /\ BytesOf(Tab) = <<Tab>> /\ BytesOf(num) = <<num>>
    BY <1>1, <1>2, <1>3 DEF BytesOf
  <2>3. <<tag>> \in Seq(LineText) /\ <<tag, Tab>> \in Seq(LineText) /\ <<tag, Tab, num>> \in Seq(LineText)
    BY <1>1, <1>2, <1>3
  <2>4. Append(e, tag) = <<tag>>
    BY <1>1, AppendOne
  <2>5. Append(<<tag>>, Tab) = <<tag, Tab>>
    BY <1>1, <1>3, AppendTwo
  <2>6. Append(<<tag, Tab>>, num) = <<tag, Tab, num>>
    BY <1>1, <1>2, <1>3, AppendThree
  <2>7. Append(<<tag, Tab, num>>, Tab) = h
    BY <1>1, <1>2, <1>3, AppendFour
  <2>8. e \o <<tag>> = <<tag>> /\ <<tag>> \o <<Tab>> = <<tag, Tab>>
        /\ <<tag, Tab>> \o <<num>> = <<tag, Tab, num>> /\ <<tag, Tab, num>> \o <<Tab>> = h
    <3>1. e \o <<tag>> = Append(e, tag)
      BY <1>1, <2>1, OneMore
    <3>2. <<tag>> \o <<Tab>> = Append(<<tag>>, Tab)
      BY <1>3, <2>3, OneMore
    <3>3. <<tag, Tab>> \o <<num>> = Append(<<tag, Tab>>, num)
      BY <1>2, <2>3, OneMore
    <3>4. <<tag, Tab, num>> \o <<Tab>> = Append(<<tag, Tab, num>>, Tab)
      BY <1>3, <2>3, OneMore
    <3> HIDE DEF e, h
    <3> QED
      BY <2>4, <2>5, <2>6, <2>7, <3>1, <3>2, <3>3, <3>4
  <2> HIDE DEF h, e
  <2>9. Utf8(Append(e, tag)) = Utf8(e) \o BytesOf(tag)
    BY <1>1, <2>1, Utf8Append
  <2>10. Utf8(Append(<<tag>>, Tab)) = Utf8(<<tag>>) \o BytesOf(Tab)
    BY <1>3, <2>3, Utf8Append
  <2>11. Utf8(Append(<<tag, Tab>>, num)) = Utf8(<<tag, Tab>>) \o BytesOf(num)
    BY <1>2, <2>3, Utf8Append
  <2>12. Utf8(Append(<<tag, Tab, num>>, Tab)) = Utf8(<<tag, Tab, num>>) \o BytesOf(Tab)
    BY <1>3, <2>3, Utf8Append
  <2>13. Utf8(<<tag>>) = <<tag>>
    BY <2>2, <2>4, <2>8, <2>9, Utf8Empty DEF e
  <2>14. Utf8(<<tag, Tab>>) = <<tag, Tab>>
    BY <2>2, <2>5, <2>8, <2>10, <2>13
  <2>15. Utf8(<<tag, Tab, num>>) = <<tag, Tab, num>>
    BY <2>2, <2>6, <2>8, <2>11, <2>14
  <2> QED
    BY <2>2, <2>7, <2>8, <2>12, <2>15
<1>8. Utf8(h \o j) = h \o u /\ u \in Seq(Coded(LineText))
  <2> HIDE DEF h
  <2> QED
    BY <1>5, <1>6, <1>7, Utf8Parts
<1>9. Line(o) = h \o u
  BY <1>4, <1>8 DEF Line
<1>10. \A s \in Seq(Coded(LineText)) : s \in Seq(LineByte)
  BY DEF LineByte
<1>11. \A s \in Seq(LineText) : s \in Seq(LineByte)
  BY DEF LineByte, Coded
<1>12. h \in Seq(LineByte) /\ u \in Seq(LineByte)
  BY <1>6, <1>8, <1>10, <1>11
<1> HIDE DEF u
<1>13. Len(h \o u) >= 4 /\ (h \o u)[1] = tag /\ (h \o u)[2] = Tab /\ (h \o u)[3] = num /\ Len(h \o u) \in Nat
  BY <1>12
<1>14. h \o u \in Seq(LineByte)
  BY <1>12
<1> HIDE DEF h
<1> QED
  BY <1>9, <1>12, <1>13, <1>14 DEF num, tag, u, j, h

\* A line is read back as its operation, is valid, and is a data line.
LEMMA LineBack ==
    ASSUME NEW o \in Operation
    PROVE  decode_six_operation(Chars(Line(o))) = o /\ ValidUtf8(Line(o)) /\ IsDataLine(Line(o))
<1>1. encode_six_operation(o) \in Seq(Text)
  <2>1. \A s \in Seq(LineText) : s \in Seq(Text)
    BY DEF LineText
  <2> QED
    BY <2>1, EncodeIs
<1>2. Chars(Line(o)) = encode_six_operation(o) /\ ValidUtf8(Line(o))
  BY <1>1, CharsBack, ValidText DEF Line
<1>3. decode_six_operation(Chars(Line(o))) = o
  BY <1>2, DecodeEncode
<1>4. Line(o)[1] = o.tag /\ Len(Line(o)) >= 4 /\ o.tag \in {"R", "D"}
  BY LineHead, OperationIs
<1>5. Line(o) # <<>>
  <2>1. Len(<<>>) = 0
    OBVIOUS
  <2> QED
    BY <1>4, <2>1
<1> QED
  BY <1>2, <1>3, <1>4, <1>5 DEF IsDataLine

-------------------------------------------------------------------------------
(* Lines. *)

Whole(ls) == Concat([i \in DOMAIN ls |-> Ended(ls[i])])
Broken(B) == B \cup {Newline}

\* A line with its newline.
LEMMA WholeOne ==
    ASSUME NEW B, NEW c \in Seq(B)
    PROVE  Ended(c) \in Seq(Broken(B)) /\ Ended(c) = c \o <<Newline>> /\ Len(Ended(c)) = Len(c) + 1
<1>1. c \in Seq(Broken(B)) /\ Newline \in Broken(B)
  BY DEF Broken
<1> QED
  BY <1>1, AppendIs, OneMore DEF Ended

\* Lines with their newlines, one after the other.
LEMMA WholeMapped ==
    ASSUME NEW B, NEW s \in Seq(Seq(B))
    PROVE  /\ Maps([c \in Seq(B) |-> Ended(c)], Seq(B), Seq(Broken(B)))
           /\ Whole(s) = Mapped([c \in Seq(B) |-> Ended(c)], s)
<1> DEFINE f == [c \in Seq(B) |-> Ended(c)]
<1>1. \A c \in Seq(B) : Ended(c) \in Seq(Broken(B))
  BY WholeOne
<1>2. Maps(f, Seq(B), Seq(Broken(B)))
  BY <1>1 DEF Maps
<1>3. \A i \in DOMAIN s : f[s[i]] = Ended(s[i])
  OBVIOUS
<1>4. [i \in DOMAIN s |-> f[s[i]]] = [i \in DOMAIN s |-> Ended(s[i])]
  BY <1>3
<1> HIDE DEF f
<1>5. Whole(s) = Mapped(f, s)
  BY <1>4 DEF Whole, Mapped
<1> QED
  BY <1>2, <1>5 DEF f

\* No lines have no bytes.
LEMMA WholeEmpty == Whole(<<>>) = <<>>
<1>1. [i \in DOMAIN <<>> |-> Ended(<<>>[i])] = <<>>
  OBVIOUS
<1> QED
  BY <1>1, ConcatEmpty DEF Whole

\* One line more adds it with its newline.
LEMMA WholeAppend ==
    ASSUME NEW B, NEW s \in Seq(Seq(B)), NEW x \in Seq(B)
    PROVE  /\ Whole(s) \in Seq(Broken(B)) /\ Ended(x) \in Seq(Broken(B))
           /\ Whole(Append(s, x)) = Whole(s) \o Ended(x)
<1> DEFINE f == [c \in Seq(B) |-> Ended(c)]
           t == Append(s, x)
<1>1. t \in Seq(Seq(B)) /\ f[x] = Ended(x)
  OBVIOUS
<1> HIDE DEF f
<1>2. Maps(f, Seq(B), Seq(Broken(B))) /\ Whole(s) = Mapped(f, s)
  BY WholeMapped DEF f
<1>3. Whole(t) = Mapped(f, t)
  <2> HIDE DEF t
  <2> QED
    BY <1>1, WholeMapped DEF f
<1>4. Mapped(f, s) \in Seq(Broken(B)) /\ Mapped(f, t) = Mapped(f, s) \o f[x]
  BY <1>2, MappedAppend
<1>5. Ended(x) \in Seq(Broken(B))
  BY WholeOne
<1> QED
  BY <1>1, <1>2, <1>3, <1>4, <1>5

\* The bytes of a concatenation of lines are those of its parts.
LEMMA WholeParts ==
    ASSUME NEW B, NEW s \in Seq(Seq(B)), NEW t \in Seq(Seq(B))
    PROVE  Whole(s \o t) = Whole(s) \o Whole(t) /\ Whole(s) \in Seq(Broken(B)) /\ Whole(t) \in Seq(Broken(B))
<1> DEFINE f == [c \in Seq(B) |-> Ended(c)]
           u == s \o t
<1>1. u \in Seq(Seq(B))
  OBVIOUS
<1> HIDE DEF f
<1>2. Maps(f, Seq(B), Seq(Broken(B)))
  BY WholeMapped DEF f
<1>6. Whole(s) = Mapped(f, s) /\ Whole(t) = Mapped(f, t)
  BY WholeMapped DEF f
<1>3. Whole(u) = Mapped(f, u)
  <2> HIDE DEF u
  <2> QED
    BY <1>1, WholeMapped DEF f
<1>4. Mapped(f, u) = Mapped(f, s) \o Mapped(f, t)
  BY <1>2, MappedParts
<1>5. Mapped(f, s) \in Seq(Broken(B)) /\ Mapped(f, t) \in Seq(Broken(B))
  BY <1>2, MappedTyped
<1> QED
  BY <1>3, <1>4, <1>5, <1>6

\* Whole lines split at their newlines.
LEMMA SplitWhole ==
    ASSUME NEW B, Newline \notin B, NEW ls \in Seq(Seq(B)), NEW limit \in Nat, limit > Len(Whole(ls))
    PROVE  SplitsTo(Whole(ls), Newline, limit, ls, <<>>)
<1> DEFINE Fits(u) == \A n \in Nat : n > Len(Whole(u)) => SplitsTo(Whole(u), Newline, n, u, <<>>)
           S == {u \in Seq(Seq(B)) : Len(u) <= Len(Whole(u)) /\ Fits(u)}
           e == <<>>
<1>1. e \in S
  <2>1. e \in Seq(Seq(B)) /\ Len(e) = 0 /\ OnePiece = Append(e, e)
    BY DEF OnePiece
  <2>2. Whole(e) = e
    BY WholeEmpty
  <2>3. \A n : SplitsTo(e, Newline, n, e, e)
    BY <2>1, SplitNEmpty DEF SplitsTo
  <2>4. Fits(e)
    BY <2>2, <2>3
  <2> HIDE DEF e, Fits
  <2> QED
    BY <2>1, <2>2, <2>4
<1>2. ASSUME NEW u \in Seq(Seq(B)), NEW x \in Seq(B), u \in S PROVE Append(u, x) \in S
  <2> DEFINE w == Whole(u)
             t == Append(u, x)
             C == Broken(B)
  <2>1. w \in Seq(C) /\ Ended(x) \in Seq(C) /\ Whole(t) = w \o Ended(x)
    BY WholeAppend
  <2>2. Ended(x) = x \o <<Newline>> /\ Newline \in C /\ B \in SUBSET C
    BY WholeOne DEF Broken
  <2>3. x \in Seq(C)
    BY <2>2
  <2>4. u \in Seq(Seq(C))
    BY <2>2
  <2>5. t \in Seq(Seq(B)) /\ Len(t) = Len(u) + 1 /\ Len(u) \in Nat
    BY AppendIs
  <2>6. Len(u) <= Len(w) /\ \A n \in Nat : n > Len(w) => SplitsTo(w, Newline, n, u, e)
    BY <1>2
  <2> HIDE DEF w, C, e
  <2>7. Whole(t) = Append(w \o x, Newline) /\ w \o x \in Seq(C) /\ Len(Whole(t)) = Len(w) + Len(x) + 1
        /\ Len(w) \in Nat /\ Len(x) \in Nat
    <3>1. w \o Ended(x) = Append(w \o x, Newline) /\ w \o x \in Seq(C) /\ Len(w \o x) = Len(w) + Len(x)
          /\ Len(w) \in Nat /\ Len(x) \in Nat
      BY <2>1, <2>2, <2>3
    <3> DEFINE y == w \o x
    <3>2. Len(Append(y, Newline)) = Len(y) + 1
      <4>1. y \in Seq(C)
        BY <3>1
      <4> HIDE DEF y
      <4> QED
        BY <2>2, <4>1, AppendIs
    <3> HIDE DEF t
    <3> QED
      BY <2>1, <3>1, <3>2
  <2>8. ASSUME NEW n \in Nat, n > Len(Whole(t)) PROVE SplitsTo(Whole(t), Newline, n, t, e)
    <3>1. n > Len(w) /\ Len(u) + 1 < n
      BY <2>5, <2>6, <2>7, <2>8
    <3>2. SplitsTo(w, Newline, n, u, e) /\ e \in Seq(C) /\ e \o x = x
      BY <2>3, <2>6, <3>1 DEF e
    <3>3. SplitsTo(w \o x, Newline, n, u, e \o x)
      BY <2>1, <2>2, <2>4, <3>2, SplitPlain
    <3>4. SplitsTo(w \o x, Newline, n, u, x)
      BY <3>2, <3>3
    <3> DEFINE y == w \o x
    <3>5. y \in Seq(C) /\ SplitsTo(y, Newline, n, u, x)
      BY <2>7, <3>4
    <3> HIDE DEF y
    <3>6. SplitsTo(Append(y, Newline), Newline, n, Append(u, x), <<>>)
      BY <2>2, <2>3, <2>4, <3>1, <3>5, SplitCut
    <3> QED
      BY <2>7, <3>6 DEF y, e
  <2>9. Len(t) <= Len(Whole(t))
    BY <2>5, <2>6, <2>7
  <2> HIDE DEF t
  <2>10. t \in S
    BY <2>5, <2>8, <2>9 DEF e
  <2> QED
    BY <2>10 DEF t
<1> HIDE DEF S
<1>3. Seq(Seq(B)) \subseteq S
  <2> DEFINE D == Seq(B)
  <2>1. <<>> \in S /\ \A u \in Seq(D), x \in D : u \in S => Append(u, x) \in S
    BY <1>1, <1>2
  <2> HIDE DEF D
  <2>2. Seq(D) \subseteq S
    BY <2>1, ByAppending
  <2> QED
    BY <2>2 DEF D
<1> QED
  BY <1>3 DEF S

\* What read_line finds in whole lines and a rest.
LEMMA PiecesIs ==
    ASSUME NEW B, Newline \notin B, NEW ls \in Seq(Seq(B)), NEW rest \in Seq(B)
    PROVE  /\ Pieces(Whole(ls) \o rest) = Append(ls, rest)
           /\ Lines(Whole(ls) \o rest) = ls
           /\ Tail6(Whole(ls) \o rest) = rest
<1> DEFINE w == Whole(ls)
           C == Broken(B)
           b == w \o rest
           n == Len(b) + 1
           p == Append(ls, rest)
           e == <<>>
<1>1. w \in Seq(C) /\ B \in SUBSET C /\ Newline \in C
  BY WholeParts DEF Broken
<1>2. rest \in Seq(C) /\ ls \in Seq(Seq(C)) /\ e \in Seq(C) /\ e \o rest = rest
  BY <1>1
<1> HIDE DEF w, C, e
<1>3. Len(b) = Len(w) + Len(rest) /\ Len(w) \in Nat /\ Len(rest) \in Nat
  BY <1>1, <1>2
<1>4. n \in Nat /\ n > Len(w)
  BY <1>3
<1> HIDE DEF n
<1>5. SplitsTo(w, Newline, n, ls, e)
  BY <1>4, SplitWhole DEF w, e
<1>6. SplitsTo(b, Newline, n, ls, e \o rest)
  BY <1>1, <1>2, <1>5, SplitPlain
<1> HIDE DEF b
<1>7. Pieces(b) = p
  BY <1>2, <1>6 DEF Pieces, Split, SplitsTo, n
<1>8. Len(p) = Len(ls) + 1 /\ p[Len(ls) + 1] = rest /\ SubSeq(p, 1, Len(ls)) = ls /\ Len(ls) \in Nat
  <2> DEFINE D == Seq(B)
  <2>1. ls \in Seq(D) /\ rest \in D
    OBVIOUS
  <2> HIDE DEF D
  <2> QED
    BY <2>1
<1> HIDE DEF p
<1>9. Lines(b) = ls
  <2>1. (Len(ls) + 1) - 1 = Len(ls)
    BY <1>8
  <2> QED
    BY <1>7, <1>8, <2>1 DEF Lines
<1>10. Tail6(b) = rest
  BY <1>7, <1>8 DEF Tail6
<1> QED
  BY <1>7, <1>9, <1>10 DEF p, b, w

\* A line without breaks is not trimmed.
LEMMA TrimmedIs == ASSUME NEW B, Return \notin B, NEW line \in Seq(B) PROVE Trimmed(line) = line
<1> DEFINE n == Len(line)
           Kept(k) == /\ k > 0 => line[k] # Return
                      /\ \A i \in (k + 1)..n : line[i] = Return
<1>1. n \in 0..n /\ n \in Nat /\ (\A i \in 1..n : line[i] # Return) /\ SubSeq(line, 1, n) = line
  OBVIOUS
<1>2. Kept(n)
  BY <1>1
<1> HIDE DEF n
<1>3. ASSUME NEW k \in 0..n, Kept(k) PROVE k = n
  <2> SUFFICES ASSUME k # n PROVE FALSE
    OBVIOUS
  <2>0. k < n
    BY <1>1, <1>3
  <2>1. n \in (k + 1)..n /\ n \in 1..n
    BY <1>1, <2>0
  <2>2. line[n] = Return
    BY <1>3, <2>1
  <2> QED
    BY <1>1, <2>1, <2>2
<1>4. (CHOOSE k \in 0..n : Kept(k)) = n
  <2> HIDE DEF Kept
  <2> QED
    BY <1>1, <1>2, <1>3
<1>5. Trimmed(line) = SubSeq(line, 1, CHOOSE k \in 0..n : Kept(k))
  BY DEF Trimmed, n
<1> HIDE DEF Kept
<1> QED
  BY <1>1, <1>4, <1>5

NatSeq == Seq(Nat)

\* r holds the numbers up to each one.
AscendingRun(r, K, n) ==
    /\ r \in [0..n -> NatSeq] /\ r[0] = <<>>
    /\ \A k \in 1..n : r[k] = (IF k \in K THEN Append(r[k - 1], k) ELSE r[k - 1])
    /\ Ascending(K, n) = r[n]

\* Ascending is the last value of a run that looks at one number at a time.
LEMMA AscendingIs ==
    ASSUME NEW K, NEW n \in Nat
    PROVE  \E r : AscendingRun(r, K, n)
<1> DEFINE S == NatSeq
           e == <<>>
           step == [k \in Nat |-> [x \in S |-> IF k \in 1..n THEN (IF k \in K THEN Append(x, k) ELSE x) ELSE x]]
           r == CHOOSE g : g = [k \in 0..n |-> IF k = 0 THEN <<>> ELSE (IF k \in K THEN Append(g[k - 1], k) ELSE g[k - 1])]
<1>1. n \in Nat /\ e \in S /\ \A k \in 1..n : \A x \in S : (IF k \in K THEN Append(x, k) ELSE x) \in S
  <2>1. n \in Nat /\ \A k \in 1..n : k \in Nat
    OBVIOUS
  <2>2. e \in Seq(Nat)
    OBVIOUS
  <2> HIDE DEF e
  <2> QED
    BY <2>1, <2>2, AppendIs DEF NatSeq
<1>2. Ascending(K, n) = r[n]
  BY DEF Ascending
<1> HIDE DEF S
<1>3. \A k \in 1..n : k \in Nat /\ k # 0 /\ k - 1 \in 0..n /\ k \in 0..n
  BY <1>1
<1>4. step \in [Nat -> [S -> S]]
  BY <1>1
<1>5. PICK f : Follows(f, S, e, step, n)
  <2> HIDE DEF e, step
  <2> QED
    BY <1>1, <1>4, Recursion
<1>6. f \in [0..n -> S] /\ f[0] = e /\ \A k \in 1..n : f[k] = step[k][f[k - 1]]
  BY <1>5 DEF Follows
<1>7. \A k \in 1..n : f[k] = (IF k \in K THEN Append(f[k - 1], k) ELSE f[k - 1])
  BY <1>3, <1>6
<1>8. f = [k \in 0..n |-> IF k = 0 THEN <<>> ELSE (IF k \in K THEN Append(f[k - 1], k) ELSE f[k - 1])]
  <2>1. \A k \in 0..n : k = 0 \/ k \in 1..n
    BY <1>1
  <2> QED
    BY <1>6, <1>7, <2>1
<1>9. r = [k \in 0..n |-> IF k = 0 THEN <<>> ELSE (IF k \in K THEN Append(r[k - 1], k) ELSE r[k - 1])]
  BY <1>8
<1> HIDE DEF r
<1>10. r[0] = e /\ \A k \in 1..n : r[k] = (IF k \in K THEN Append(r[k - 1], k) ELSE r[k - 1])
  <2>1. 0 \in 0..n
    BY <1>1
  <2> QED
    BY <1>3, <1>9, <2>1
<1>11. StepAlike(r, f, n)
  <2>1. \A k \in 1..n : r[k - 1] = f[k - 1] => r[k] = f[k]
    BY <1>7, <1>10
  <2>2. r[0] = f[0]
    BY <1>6, <1>10
  <2> QED
    BY <2>1, <2>2 DEF StepAlike
<1>12. \A k \in 0..n : r[k] = f[k]
  <2>1. n \in Nat
    BY <1>1
  <2> QED
    BY <1>11, <2>1, Alike
<1>13. r \in [0..n -> S]
  BY <1>6, <1>9, <1>12
<1> QED
  BY <1>2, <1>10, <1>13 DEF S, e, AscendingRun

\* One number more.
LEMMA AscendingStep ==
    ASSUME NEW K, NEW n \in Nat
    PROVE  /\ Ascending(K, 0) = <<>>
           /\ Ascending(K, n + 1) = IF n + 1 \in K THEN Append(Ascending(K, n), n + 1) ELSE Ascending(K, n)
<1> DEFINE m == n + 1
<1>0. m \in Nat /\ 0 \in Nat
  OBVIOUS
<1> HIDE DEF m
<1>a. PICK r : AscendingRun(r, K, n)
  BY AscendingIs
<1>b. PICK q : AscendingRun(q, K, m)
  BY <1>0, AscendingIs
<1>1. /\ r[0] = <<>> /\ \A k \in 1..n : r[k] = (IF k \in K THEN Append(r[k - 1], k) ELSE r[k - 1])
      /\ Ascending(K, n) = r[n]
  BY <1>a DEF AscendingRun
<1>2. /\ q[0] = <<>> /\ \A k \in 1..(n + 1) : q[k] = (IF k \in K THEN Append(q[k - 1], k) ELSE q[k - 1])
      /\ Ascending(K, n + 1) = q[n + 1]
  BY <1>b DEF AscendingRun, m
<1>3. StepAlike(r, q, n)
  <2>1. \A k \in 1..n : k \in 1..(n + 1)
    OBVIOUS
  <2>2. \A k \in 1..n : r[k - 1] = q[k - 1] => r[k] = q[k]
    BY <1>1, <1>2, <2>1
  <2>3. r[0] = q[0]
    BY <1>1, <1>2
  <2> QED
    BY <2>2, <2>3 DEF StepAlike
<1>4. r[n] = q[n]
  <2>1. \A k \in 0..n : r[k] = q[k]
    BY <1>3, Alike
  <2>2. n \in 0..n
    OBVIOUS
  <2> QED
    BY <2>1, <2>2
<1>5. q[n + 1] = IF n + 1 \in K THEN Append(q[n], n + 1) ELSE q[n]
  <2>1. n + 1 \in 1..(n + 1) /\ (n + 1) - 1 = n
    OBVIOUS
  <2> QED
    BY <1>2, <2>1
<1>6. Ascending(K, 0) = <<>>
  <2>1. PICK p : AscendingRun(p, K, 0)
    BY <1>0, AscendingIs
  <2> QED
    BY <2>1 DEF AscendingRun
<1> QED
  BY <1>1, <1>2, <1>4, <1>5, <1>6

-------------------------------------------------------------------------------
(* The chunk. *)

\* The lines of operations.
LinesSeq(w) == [i \in DOMAIN w |-> Line(w[i])]

\* There is one line per operation.
LEMMA LinesSeqIs ==
    ASSUME NEW w \in Seq(Operation)
    PROVE  /\ LinesSeq(w) \in Seq(Seq(LineByte)) /\ Len(LinesSeq(w)) = Len(w) /\ Len(w) \in Nat
           /\ \A i \in 1..Len(w) : LinesSeq(w)[i] = Line(w[i]) /\ w[i] \in Operation
<1> DEFINE n == Len(w)
           D == Seq(LineByte)
<1>1. n \in Nat /\ DOMAIN w = 1..n /\ \A i \in 1..n : w[i] \in Operation
  OBVIOUS
<1>2. \A i \in 1..n : Line(w[i]) \in D
  BY <1>1, LineHead
<1> HIDE DEF n, D
<1>3. LinesSeq(w) = [i \in 1..n |-> Line(w[i])]
  BY <1>1 DEF LinesSeq
<1>4. LinesSeq(w) \in [1..n -> D]
  BY <1>2, <1>3
<1>5. LinesSeq(w) \in Seq(D) /\ Len(LinesSeq(w)) = n
  BY <1>1, <1>3, <1>4
<1> QED
  BY <1>1, <1>3, <1>5 DEF n, D

\* The lines of two batches after another.
LEMMA LinesSeqParts ==
    ASSUME NEW v \in Seq(Operation), NEW w \in Seq(Operation)
    PROVE  v \o w \in Seq(Operation) /\ LinesSeq(v \o w) = LinesSeq(v) \o LinesSeq(w)
<1> DEFINE a == LinesSeq(v)
           b == LinesSeq(w)
           m == Len(v)
           n == Len(w)
           u == v \o w
           c == LinesSeq(u)
           D == Seq(LineByte)
<1>1. /\ u \in Seq(Operation) /\ Len(u) = m + n /\ m \in Nat /\ n \in Nat
      /\ (\A i \in 1..m : u[i] = v[i]) /\ \A i \in 1..n : u[m + i] = w[i]
  OBVIOUS
<1>2. /\ a \in Seq(D) /\ Len(a) = m /\ \A i \in 1..m : a[i] = Line(v[i])
  BY LinesSeqIs
<1>3. /\ b \in Seq(D) /\ Len(b) = n /\ \A i \in 1..n : b[i] = Line(w[i])
  BY LinesSeqIs
<1> HIDE DEF u, m, n
<1>4. /\ c \in Seq(D) /\ Len(c) = m + n /\ \A i \in 1..(m + n) : c[i] = Line(u[i])
  <2>1. c \in Seq(Seq(LineByte)) /\ Len(c) = Len(u) /\ \A i \in 1..Len(u) : c[i] = Line(u[i])
    BY <1>1, LinesSeqIs
  <2> QED
    BY <1>1, <2>1
<1> HIDE DEF D, a, b, c
<1>5. /\ a \o b \in Seq(D) /\ Len(a \o b) = m + n
      /\ (\A i \in 1..m : (a \o b)[i] = a[i]) /\ \A i \in 1..n : (a \o b)[m + i] = b[i]
  <2>1. a \in Seq(D) /\ b \in Seq(D)
    BY <1>2, <1>3
  <2>2. /\ a \o b \in Seq(D) /\ Len(a \o b) = Len(a) + Len(b)
        /\ (\A i \in 1..Len(a) : (a \o b)[i] = a[i])
        /\ \A i \in 1..Len(b) : (a \o b)[Len(a) + i] = b[i]
    BY <2>1, CatIs
  <2>3. Len(a) = m /\ Len(b) = n
    BY <1>2, <1>3
  <2> QED
    BY <2>2, <2>3
<1>6. \A i \in 1..(m + n) : c[i] = (a \o b)[i]
  <2> TAKE i \in 1..(m + n)
  <2>1. CASE i \in 1..m
    BY <1>1, <1>2, <1>4, <1>5, <2>1
  <2>2. CASE i \notin 1..m
    <3>1. i - m \in 1..n /\ m + (i - m) = i
      BY <1>1, <2>2
    <3>2. u[i] = w[i - m] /\ (a \o b)[i] = b[i - m]
      BY <1>1, <1>5, <3>1
    <3> QED
      BY <1>3, <1>4, <3>1, <3>2
  <2> QED
    BY <2>1, <2>2
<1> DEFINE d == a \o b
<1>7. c = d
  <2> HIDE DEF d
  <2>1. d \in Seq(D) /\ Len(d) = m + n /\ \A i \in 1..(m + n) : c[i] = d[i]
    BY <1>5, <1>6 DEF d
  <2> QED
    BY <1>4, <2>1
<1> QED
  BY <1>1, <1>7 DEF a, b, c, u

\* Lines of a preamble, none of which is taken for a data line.
Heading(pre) ==
    /\ pre \in Seq(Seq(LineByte))
    /\ \A i \in DOMAIN pre : /\ ~IsDataLine(pre[i]) /\ ValidUtf8(pre[i])
                             /\ Len(pre[i]) >= 3 => pre[i][1] \notin {"R", "D"}

\* A chunk with the lines of a preamble, those of the operations of w and the rest of a line.
AllLines(pre, w) == pre \o LinesSeq(w)

Holds(b, pre, w, rest) ==
    /\ Heading(pre) /\ w \in Seq(Operation) /\ rest \in Seq(LineByte)
    /\ b = Whole(AllLines(pre, w)) \o rest

\* A line holds no line break: both are escaped.
LEMMA LineByteIs == Newline \notin LineByte /\ Return \notin LineByte
  BY DEF LineByte, Coded, LineText, Newline, Return

\* The lines of the heading come before those of the operations.
LEMMA AllLinesIs ==
    ASSUME NEW pre, NEW w, Heading(pre), w \in Seq(Operation)
    PROVE  /\ AllLines(pre, w) \in Seq(Seq(LineByte))
           /\ Len(AllLines(pre, w)) = Len(pre) + Len(w) /\ Len(pre) \in Nat /\ Len(w) \in Nat
           /\ \A i \in 1..Len(pre) : AllLines(pre, w)[i] = pre[i]
           /\ \A i \in 1..Len(w) : AllLines(pre, w)[Len(pre) + i] = Line(w[i]) /\ w[i] \in Operation
<1> DEFINE D == Seq(LineByte)
           a == LinesSeq(w)
           n == Len(w)
<1>1. a \in Seq(D) /\ Len(a) = n /\ n \in Nat /\ \A i \in 1..n : a[i] = Line(w[i]) /\ w[i] \in Operation
  BY LinesSeqIs
<1>2. pre \in Seq(D)
  BY DEF Heading
<1> HIDE DEF D, a, n
<1>3. /\ pre \o a \in Seq(D) /\ Len(pre \o a) = Len(pre) + n /\ Len(pre) \in Nat
      /\ \A i \in 1..Len(pre) : (pre \o a)[i] = pre[i]
      /\ \A i \in 1..n : (pre \o a)[Len(pre) + i] = a[i]
  BY <1>1, <1>2
<1> QED
  BY <1>1, <1>3 DEF AllLines, D, a, n

\* The lines of such a chunk.
LEMMA HoldsLines ==
    ASSUME NEW b, NEW pre, NEW w, NEW rest, Holds(b, pre, w, rest)
    PROVE  /\ Lines(b) = AllLines(pre, w) /\ Tail6(b) = rest
           /\ Pieces(b) = Append(AllLines(pre, w), rest)
<1>1. Heading(pre) /\ w \in Seq(Operation) /\ rest \in Seq(LineByte) /\ b = Whole(AllLines(pre, w)) \o rest
  BY DEF Holds
<1>2. AllLines(pre, w) \in Seq(Seq(LineByte))
  BY <1>1, AllLinesIs
<1> QED
  BY <1>1, <1>2, PiecesIs, LineByteIs

\* The numbers after the first p, if no smaller one is wanted.
LEMMA AscendingFrom ==
    ASSUME NEW K, NEW p \in Nat, NEW n \in Nat, \A k \in 1..p : k \notin K, \A k \in 1..n : p + k \in K
    PROVE  Ascending(K, p + n) = [i \in 1..n |-> p + i]
<1> DEFINE S == {k \in 0..p : Ascending(K, k) = <<>>}
           T == {k \in 0..n : Ascending(K, p + k) = [i \in 1..k |-> p + i]}
<1>1. 0 \in S
  BY AscendingStep
<1>2. ASSUME NEW k \in 0..p, k \in S, k < p PROVE k + 1 \in S
  <2>1. k \in Nat /\ k + 1 \in 1..p /\ k + 1 \in 0..p
    BY <1>2
  <2>2. Ascending(K, k + 1) = Ascending(K, k)
    BY <2>1, AscendingStep
  <2> QED
    BY <1>2, <2>1, <2>2
<1>3. 0..p \subseteq S
  <2> HIDE DEF S
  <2> QED
    BY <1>1, <1>2, UpwardsTo
<1>4. 0 \in T
  <2>1. p \in S /\ p + 0 = p /\ 0 \in 0..n
    BY <1>3
  <2>2. [i \in 1..0 |-> p + i] = <<>>
    OBVIOUS
  <2>3. Ascending(K, p + 0) = <<>>
    BY <2>1
  <2> QED
    BY <2>1, <2>2, <2>3
<1>5. ASSUME NEW k \in 0..n, k \in T, k < n PROVE k + 1 \in T
  <2> DEFINE f == [i \in 1..k |-> p + i]
             g == [i \in 1..(k + 1) |-> p + i]
             m == p + k
  <2>1. k \in Nat /\ k + 1 \in 1..n /\ k + 1 \in 0..n /\ m \in Nat /\ p + (k + 1) = m + 1
    BY <1>5
  <2>2. Ascending(K, m) = f
    BY <1>5
  <2>3. m + 1 \in K
    BY <2>1
  <2>4. f \in Seq(Nat) /\ Len(f) = k
    BY <2>1
  <2>5. Append(f, m + 1) = g
    <3> DEFINE h == Append(f, m + 1)
    <3>1. m + 1 \in Nat
      BY <2>1
    <3>2. h \in Seq(Nat) /\ Len(h) = k + 1 /\ h[k + 1] = m + 1 /\ \A i \in 1..k : h[i] = f[i]
      <4> HIDE DEF f, m
      <4> QED
        BY <2>4, <3>1, AppendIs
    <3>3. g \in Seq(Nat) /\ Len(g) = k + 1
      BY <2>1
    <3>4. \A i \in 1..(k + 1) : h[i] = g[i]
      <4> TAKE i \in 1..(k + 1)
      <4>1. i \in 1..k \/ i = k + 1
        BY <2>1
      <4>2. i \in 1..k => f[i] = p + i
        OBVIOUS
      <4>3. g[i] = p + i
        OBVIOUS
      <4> HIDE DEF h, g, f
      <4> QED
        BY <2>1, <3>2, <4>1, <4>2, <4>3
    <3> HIDE DEF h, g
    <3> QED
      BY <3>2, <3>3, <3>4 DEF h
  <2> HIDE DEF f, g, m
  <2>6. Ascending(K, m + 1) = g
    BY <2>1, <2>2, <2>3, <2>5, AscendingStep
  <2> QED
    BY <2>1, <2>6 DEF g
<1>6. 0..n \subseteq T
  <2> HIDE DEF T
  <2> QED
    BY <1>4, <1>5, UpwardsTo
<1>7. n \in T
  BY <1>6
<1> QED
  BY <1>7

\* The data lines are those after the preamble.
LEMMA HoldsDataLines ==
    ASSUME NEW b, NEW pre, NEW w, NEW rest, Holds(b, pre, w, rest)
    PROVE  DataLines(b) = [i \in 1..Len(w) |-> Len(pre) + i]
<1> DEFINE ls == AllLines(pre, w)
           p == Len(pre)
           n == Len(w)
           K == {k \in DOMAIN ls : IsDataLine(Trimmed(ls[k]))}
<1>1. Heading(pre) /\ w \in Seq(Operation)
  BY DEF Holds
<1>2. /\ ls \in Seq(Seq(LineByte)) /\ Len(ls) = p + n /\ p \in Nat /\ n \in Nat
      /\ \A i \in 1..p : ls[i] = pre[i]
      /\ \A i \in 1..n : ls[p + i] = Line(w[i]) /\ w[i] \in Operation
  BY <1>1, AllLinesIs
<1>3. Lines(b) = ls
  BY HoldsLines
<1> HIDE DEF ls
<1>4. \A k \in 1..(p + n) : ls[k] \in Seq(LineByte)
  BY <1>2
<1>5. DOMAIN ls = 1..(p + n) /\ \A k \in 1..(p + n) : Trimmed(ls[k]) = ls[k]
  BY <1>2, <1>4, LineByteIs, TrimmedIs
<1>6. \A k \in 1..p : k \notin K
  <2>1. \A k \in 1..p : ~IsDataLine(pre[k]) /\ k \in 1..(p + n)
    BY <1>1, <1>2 DEF Heading
  <2> QED
    BY <1>2, <1>5, <2>1
<1>7. \A k \in 1..n : p + k \in K
  <2>1. \A k \in 1..n : p + k \in 1..(p + n) /\ IsDataLine(Line(w[k]))
    BY <1>2, LineBack
  <2> QED
    BY <1>2, <1>5, <2>1
<1>8. DataLines(b) = Ascending(K, p + n)
  BY <1>2, <1>3 DEF DataLines
<1> HIDE DEF K, p, n
<1>9. Ascending(K, p + n) = [i \in 1..n |-> p + i]
  <2>1. p \in Nat /\ n \in Nat
    BY <1>2
  <2> QED
    BY <1>6, <1>7, <2>1, AscendingFrom
<1> QED
  BY <1>8, <1>9 DEF p, n

\* What a scan of such a chunk returns.
EntryOf(pre, w, i) ==
    [operation |-> w[i], offset |-> Len(Whole(SubSeq(AllLines(pre, w), 1, Len(pre) + i - 1))),
     len |-> Len(Line(w[i])) + 1, raw_line |-> Ended(Line(w[i]))]
EntriesOf(pre, w) == [i \in 1..Len(w) |-> EntryOf(pre, w, i)]

\* Some first lines.
LEMMA WholeFront ==
    ASSUME NEW B, NEW ls \in Seq(Seq(B)), NEW k \in 0..Len(ls)
    PROVE  Concat([j \in 1..k |-> Ended(ls[j])]) = Whole(SubSeq(ls, 1, k))
<1> DEFINE f == SubSeq(ls, 1, k)
<1>1. DOMAIN f = 1..k /\ \A j \in 1..k : f[j] = ls[j]
  OBVIOUS
<1> HIDE DEF f
<1>2. [j \in DOMAIN f |-> Ended(f[j])] = [j \in 1..k |-> Ended(ls[j])]
  BY <1>1
<1>3. Whole(f) = Concat([j \in DOMAIN f |-> Ended(f[j])])
  BY DEF Whole
<1> QED
  BY <1>2, <1>3 DEF f

\* The scan returns the operations with their places.
LEMMA HoldsEntry ==
    ASSUME NEW b, NEW pre, NEW w, NEW rest, Holds(b, pre, w, rest), NEW i \in 1..Len(w)
    PROVE  Entry(b, Len(pre) + i) = EntryOf(pre, w, i)
<1> DEFINE ls == AllLines(pre, w)
           p == Len(pre)
           k == p + i
<1>1. Heading(pre) /\ w \in Seq(Operation)
  BY DEF Holds
<1>2. /\ ls \in Seq(Seq(LineByte)) /\ Len(ls) = p + Len(w) /\ p \in Nat /\ Len(w) \in Nat
      /\ ls[k] = Line(w[i]) /\ w[i] \in Operation
  BY <1>1, AllLinesIs
<1>3. Lines(b) = ls
  BY HoldsLines
<1> HIDE DEF ls
<1>4. k - 1 \in 0..Len(ls) /\ k - 1 = p + i - 1
  BY <1>2
<1> HIDE DEF k, p
<1>5. Trimmed(ls[k]) = ls[k]
  BY <1>2, LineHead, LineByteIs, TrimmedIs
<1>6. LineStart(b, k) = Len(Whole(SubSeq(ls, 1, p + i - 1)))
  <2>1. Concat([j \in 1..(k - 1) |-> Ended(ls[j])]) = Whole(SubSeq(ls, 1, k - 1))
    BY <1>2, <1>4, WholeFront
  <2>2. LineStart(b, k) = Len(Concat([j \in 1..(k - 1) |-> Ended(ls[j])]))
    BY <1>3 DEF LineStart
  <2> QED
    BY <1>4, <2>1, <2>2
<1>7. decode_six_operation(Chars(Trimmed(ls[k]))) = w[i]
  BY <1>2, <1>5, LineBack
<1>8. Entry(b, k) = [operation |-> w[i], offset |-> Len(Whole(SubSeq(ls, 1, p + i - 1))),
                     len |-> Len(ls[k]) + 1, raw_line |-> Ended(ls[k])]
  BY <1>3, <1>6, <1>7 DEF Entry
<1> QED
  BY <1>2, <1>8 DEF EntryOf, ls, k, p

\* The scan of such a chunk finds exactly the operations written.
LEMMA HoldsScanned ==
    ASSUME NEW b, NEW pre, NEW w, NEW rest, Holds(b, pre, w, rest)
    PROVE  /\ Scanned(b) = EntriesOf(pre, w) /\ DOMAIN Scanned(b) = 1..Len(w)
           /\ raw_six_data_lines(b) = [i \in DOMAIN Scanned(b) |-> Scanned(b)[i].raw_line]
           /\ Len(raw_six_data_lines(b)) = Len(w)
           /\ Operations(b) = w
<1> DEFINE n == Len(w)
           p == Len(pre)
           ks == DataLines(b)
<1>1. w \in Seq(Operation) /\ Heading(pre) /\ Lines(b) = AllLines(pre, w)
  BY HoldsLines DEF Holds
<1>2. n \in Nat /\ w = [i \in 1..n |-> w[i]] /\ \A i \in 1..n : AllLines(pre, w)[p + i] = Line(w[i])
  BY <1>1, AllLinesIs
<1>3. ks = [i \in 1..n |-> p + i]
  BY HoldsDataLines
<1>4. \A i \in 1..n : Entry(b, p + i) = EntryOf(pre, w, i)
  BY HoldsEntry
<1>5. DOMAIN ks = 1..n /\ \A i \in 1..n : ks[i] = p + i
  BY <1>3
<1>6. Scanned(b) = [i \in DOMAIN ks |-> Entry(b, ks[i])]
  BY DEF Scanned
<1>7. raw_six_data_lines(b) = [i \in DOMAIN ks |-> Ended(Lines(b)[ks[i]])]
  BY DEF raw_six_data_lines
<1> HIDE DEF ks, n, p
<1>8. Scanned(b) = [i \in 1..n |-> EntryOf(pre, w, i)]
  BY <1>4, <1>5, <1>6
<1>9. raw_six_data_lines(b) = [i \in 1..n |-> Ended(Line(w[i]))]
  BY <1>1, <1>2, <1>5, <1>7
<1>10. \A i \in 1..n : EntryOf(pre, w, i).raw_line = Ended(Line(w[i])) /\ EntryOf(pre, w, i).operation = w[i]
  BY DEF EntryOf
<1>11. DOMAIN Scanned(b) = 1..n /\ \A i \in 1..n : Scanned(b)[i] = EntryOf(pre, w, i)
  BY <1>8
<1>12. Operations(b) = [i \in 1..n |-> w[i]]
  BY <1>10, <1>11 DEF Operations
<1>13. Len(raw_six_data_lines(b)) = n
  <2>1. n \in Nat
    BY <1>2
  <2> QED
    BY <1>9, <2>1
<1>14. raw_six_data_lines(b) = [i \in DOMAIN Scanned(b) |-> Scanned(b)[i].raw_line]
  BY <1>9, <1>10, <1>11
<1> QED
  BY <1>2, <1>8, <1>11, <1>12, <1>13, <1>14 DEF EntriesOf, n

\* A line among others.
LEMMA WholeAt ==
    ASSUME NEW B, NEW ls \in Seq(Seq(B)), NEW k \in 1..Len(ls)
    PROVE  /\ Whole(SubSeq(ls, 1, k - 1)) \in Seq(Broken(B)) /\ ls[k] \in Seq(Broken(B))
           /\ \E y \in Seq(Broken(B)) :
                Whole(ls) = (Whole(SubSeq(ls, 1, k - 1)) \o ls[k]) \o (<<Newline>> \o y)
<1> DEFINE C == Broken(B)
           D == Seq(B)
           a == SubSeq(ls, 1, k - 1)
           f == SubSeq(ls, 1, k)
           c == SubSeq(ls, k + 1, Len(ls))
           x == ls[k]
           wa == Whole(a)
           wc == Whole(c)
<1>1. a \in Seq(D) /\ c \in Seq(D) /\ x \in D /\ ls = f \o c /\ f = Append(a, x) /\ f \in Seq(D)
  <2> HIDE DEF D
  <2>1. ls \in Seq(D)
    BY DEF D
  <2>2. a \in Seq(D) /\ c \in Seq(D) /\ x \in D /\ f \in Seq(D)
    BY <2>1
  <2>3. ls = f \o c
    BY <2>1
  <2>4. f = Append(a, x)
    BY <2>1
  <2> QED
    BY <2>2, <2>3, <2>4
<1> HIDE DEF a, c, f, x, C
<1>2. Whole(f) = wa \o Ended(x) /\ wa \in Seq(C) /\ Ended(x) \in Seq(C)
  BY <1>1, WholeAppend DEF C, D
<1>3. Whole(f \o c) = Whole(f) \o wc /\ wc \in Seq(C)
  BY <1>1, WholeParts DEF C, D
<1>4. Ended(x) = x \o <<Newline>> /\ x \in Seq(C) /\ <<Newline>> \in Seq(C)
  <2>1. Newline \in C /\ \A s \in Seq(B) : s \in Seq(C)
    BY DEF C, Broken
  <2>2. Ended(x) = x \o <<Newline>>
    BY <1>1, WholeOne DEF D
  <2> QED
    BY <1>1, <2>1, <2>2 DEF D
<1> HIDE DEF wa, wc, D
<1>5. (wa \o (x \o <<Newline>>)) \o wc = (wa \o x) \o (<<Newline>> \o wc)
  <2> DEFINE e == <<Newline>>
  <2>1. wa \in Seq(C) /\ x \in Seq(C) /\ e \in Seq(C) /\ wc \in Seq(C)
    BY <1>2, <1>3, <1>4
  <2> HIDE DEF e
  <2>2. wa \o (x \o e) = (wa \o x) \o e /\ wa \o x \in Seq(C)
    BY <2>1, Associative, SMTT(90)
  <2>3. ((wa \o x) \o e) \o wc = (wa \o x) \o (e \o wc)
    BY <2>1, <2>2, Associative, SMTT(90)
  <2>4. (wa \o (x \o e)) \o wc = (wa \o x) \o (e \o wc)
    BY <2>2, <2>3
  <2> QED
    BY <2>4 DEF e
<1>6. Whole(ls) = (wa \o x) \o (<<Newline>> \o wc)
  BY <1>1, <1>2, <1>3, <1>4, <1>5
<1> QED
  BY <1>2, <1>3, <1>4, <1>6 DEF wa, a, x, C

\* The middle of three parts.
LEMMA MiddlePart ==
    ASSUME NEW C, NEW a \in Seq(C), NEW x \in Seq(C), NEW y \in Seq(C)
    PROVE  SubSeq((a \o x) \o y, Len(a) + 1, Len(a) + Len(x)) = x
<1> DEFINE b == (a \o x) \o y
           m == Len(a)
           n == Len(x)
           s == SubSeq(b, m + 1, m + n)
<1>1. /\ b \in Seq(C) /\ Len(b) = m + n + Len(y) /\ m \in Nat /\ n \in Nat /\ Len(y) \in Nat
      /\ \A i \in 1..n : b[m + i] = x[i]
  <2>1. /\ a \o x \in Seq(C) /\ Len(a \o x) = m + n /\ m \in Nat /\ n \in Nat
        /\ \A i \in 1..n : (a \o x)[m + i] = x[i]
    BY CatIs
  <2> DEFINE u == a \o x
  <2>2. u \in Seq(C) /\ Len(u) = m + n /\ \A i \in 1..n : u[m + i] = x[i]
    BY <2>1
  <2> HIDE DEF u
  <2>3. u \o y \in Seq(C) /\ Len(u \o y) = Len(u) + Len(y) /\ Len(y) \in Nat /\ \A i \in 1..Len(u) : (u \o y)[i] = u[i]
    <3>1. u \in Seq(C) /\ y \in Seq(C)
      BY <2>2
    <3> HIDE DEF b, m, n, s
    <3> QED
      BY <3>1, CatIs
  <2>4. \A i \in 1..n : m + i \in 1..(m + n)
    BY <2>1
  <2> HIDE DEF m, n
  <2>5. \A i \in 1..n : (u \o y)[m + i] = x[i]
    BY <2>2, <2>3, <2>4
  <2> QED
    BY <2>1, <2>2, <2>3, <2>5 DEF u
<1> HIDE DEF b
<1>2. x \in Seq(C) /\ Len(x) = n
  OBVIOUS
<1> HIDE DEF m, n
<1>3. s \in Seq(C) /\ Len(s) = n /\ \A i \in 1..n : s[i] = b[m + i]
  <2>1. m + 1 \in 1..(Len(b) + 1) /\ m + n \in m..Len(b)
    BY <1>1
  <2>2. \A i \in 1..n : b[m + i] \in C
    BY <1>1, <1>2
  <2>3. s = [i \in 1..n |-> b[m + i]]
    BY <1>1, <2>1
  <2> HIDE DEF s
  <2>4. s \in [1..n -> C]
    BY <2>2, <2>3
  <2> QED
    BY <1>1, <2>3, <2>4
<1> HIDE DEF s
<1>4. \A i \in 1..n : s[i] = x[i]
  BY <1>1, <1>3
<1>5. s = x
  BY <1>2, <1>3, <1>4, SameElements
<1> QED
  BY <1>5 DEF s, b, m, n

\* The place of an entry reads back as its operation.
LEMMA HoldsPointer ==
    ASSUME NEW b, NEW pre, NEW w, NEW rest, Holds(b, pre, w, rest), NEW i \in 1..Len(w)
    PROVE  ReadPointer(b, EntryOf(pre, w, i)) = w[i]
<1> DEFINE ls == AllLines(pre, w)
           k == Len(pre) + i
           a == Whole(SubSeq(ls, 1, k - 1))
           x == Line(w[i])
           C == Broken(LineByte)
           e == EntryOf(pre, w, i)
<1>1. /\ ls \in Seq(Seq(LineByte)) /\ k \in 1..Len(ls) /\ ls[k] = x /\ w[i] \in Operation
      /\ k - 1 = Len(pre) + i - 1
  <2>1. /\ ls \in Seq(Seq(LineByte))
        /\ Len(ls) = Len(pre) + Len(w) /\ Len(pre) \in Nat /\ Len(w) \in Nat
        /\ \A j \in 1..Len(w) : ls[Len(pre) + j] = Line(w[j]) /\ w[j] \in Operation
    BY AllLinesIs DEF Holds
  <2> HIDE DEF ls
  <2>2. k \in 1..Len(ls) /\ k - 1 = Len(pre) + i - 1
    BY <2>1
  <2> QED
    BY <2>1, <2>2
<1>2. rest \in Seq(LineByte) /\ b = Whole(ls) \o rest
  BY DEF Holds
<1>3. e.offset = Len(a) /\ e.len = Len(x) + 1
  BY <1>1 DEF EntryOf
<1> HIDE DEF ls, e
<1>4. a \in Seq(C) /\ x \in Seq(C) /\ \E y \in Seq(C) : Whole(ls) = (a \o x) \o (<<Newline>> \o y)
  <2> HIDE DEF k
  <2>1. /\ Whole(SubSeq(ls, 1, k - 1)) \in Seq(Broken(LineByte)) /\ ls[k] \in Seq(Broken(LineByte))
        /\ \E y \in Seq(Broken(LineByte)) :
                Whole(ls) = (Whole(SubSeq(ls, 1, k - 1)) \o ls[k]) \o (<<Newline>> \o y)
    BY <1>1, WholeAt
  <2> QED
    BY <1>1, <2>1
<1>5. PICK y \in Seq(C) : Whole(ls) = (a \o x) \o (<<Newline>> \o y)
  BY <1>4
<1>6. rest \in Seq(C) /\ <<Newline>> \in Seq(C)
  <2>1. Newline \in C /\ \A s \in Seq(LineByte) : s \in Seq(C)
    BY DEF Broken
  <2> QED
    BY <1>2, <2>1
<1> HIDE DEF a, x, C
<1>7. b = (a \o x) \o ((<<Newline>> \o y) \o rest) /\ (<<Newline>> \o y) \o rest \in Seq(C)
  <2> DEFINE z == <<Newline>> \o y
  <2>1. z \in Seq(C)
    BY <1>6
  <2> HIDE DEF z
  <2>2. /\ ((a \o x) \o z) \o rest = (a \o x) \o (z \o rest)
        /\ z \o rest \in Seq(C)
    <3>1. a \o x \in Seq(C) /\ z \in Seq(C) /\ rest \in Seq(C)
      BY <1>4, <1>6, <2>1, CatIs
    <3> DEFINE u == a \o x
    <3> HIDE DEF u
    <3>2. (u \o z) \o rest = u \o (z \o rest)
      BY <3>1, Associative, SMTT(90) DEF u
    <3>3. z \o rest \in Seq(C)
      BY <3>1, CatIs
    <3> QED
      BY <3>2, <3>3 DEF u
  <2> QED
    BY <1>2, <1>5, <2>2 DEF z
<1>8. SubSeq(b, Len(a) + 1, Len(a) + Len(x)) = x
  BY <1>4, <1>7, MiddlePart
<1>9. e.offset + e.len - 1 = Len(a) + Len(x)
  BY <1>3, <1>4
<1>10. ReadPointer(b, e) = decode_six_operation(Chars(x))
  BY <1>3, <1>8, <1>9 DEF ReadPointer
<1>11. decode_six_operation(Chars(Line(w[i]))) = w[i]
  BY <1>1, LineBack
<1> QED
  BY <1>10, <1>11 DEF x, e

\* The greatest transaction id found in the lines is that of the last operation.
Numbered(w) == \A i \in 1..Len(w) : w[i].tx = i

\* Its transaction counter is that of the last operation written.
LEMMA HoldsMaxTx ==
    ASSUME NEW b, NEW pre, NEW w, NEW rest, Holds(b, pre, w, rest), Numbered(w)
    PROVE  max_tx_in_six_file(b) = Len(w)
<1> DEFINE ls == AllLines(pre, w)
           p == Len(pre)
           n == Len(w)
           Named(l) == Len(l) >= 3 /\ l[1] \in {"R", "D"} /\ l[2] = Tab /\ IsNumber(l[3])
           heads == {Lines(b)[k] : k \in DOMAIN Lines(b)}
           txs == {0} \cup {ParseNumber(line[3]) : line \in {l \in heads : Named(l)}}
<1>1. Heading(pre) /\ w \in Seq(Operation)
  BY DEF Holds
<1>2. /\ ls \in Seq(Seq(LineByte)) /\ Len(ls) = p + n /\ p \in Nat /\ n \in Nat
      /\ \A i \in 1..p : ls[i] = pre[i]
      /\ \A i \in 1..n : ls[p + i] = Line(w[i]) /\ w[i] \in Operation
  BY <1>1, AllLinesIs
<1>3. Lines(b) = ls
  BY HoldsLines
<1>4. max_tx_in_six_file(b) = CHOOSE m \in txs : \A k \in txs : k <= m
  BY DEF max_tx_in_six_file
<1> HIDE DEF ls, p, n
<1>5. DOMAIN ls = 1..(p + n) /\ heads = {ls[k] : k \in 1..(p + n)}
  <2>1. DOMAIN ls = 1..(p + n)
    BY <1>2
  <2>2. heads = {ls[k] : k \in DOMAIN ls}
    BY <1>3
  <2> QED
    BY <2>1, <2>2
<1>6. \A i \in 1..p : ~Named(pre[i])
  <2>1. \A i \in 1..p : i \in DOMAIN pre
    BY <1>1 DEF Heading, p
  <2> QED
    BY <1>1, <2>1 DEF Heading
<1>7. \A i \in 1..n : Named(Line(w[i])) /\ ParseNumber(Line(w[i])[3]) = i
  <2> TAKE i \in 1..n
  <2>1. w[i] \in Operation
    BY <1>2
  <2>2. w[i].tx = i
    BY DEF Numbered, n
  <2>3. /\ Len(Line(w[i])) >= 4 /\ Len(Line(w[i])) \in Nat
        /\ Line(w[i])[1] = w[i].tag /\ Line(w[i])[2] = Tab /\ Line(w[i])[3] = NumberByte[w[i].tx]
    BY <2>1, LineHead
  <2>4. w[i].tx \in Numbers /\ w[i].tag \in {"R", "D"}
    BY <2>1, OperationIs
  <2>5. IsNumber(NumberByte[w[i].tx]) /\ ParseNumber(NumberByte[w[i].tx]) = w[i].tx
    BY <2>4, NumberBack
  <2> QED
    BY <2>2, <2>3, <2>4, <2>5
<1> HIDE DEF Named
<1>8. ASSUME NEW l \in heads, Named(l) PROVE \E i \in 1..n : ParseNumber(l[3]) = i
  <2>1. PICK k \in 1..(p + n) : l = ls[k]
    BY <1>5
  <2>2. k \notin 1..p
    BY <1>2, <1>6, <1>8, <2>1
  <2>3. k - p \in 1..n /\ p + (k - p) = k
    BY <1>2, <2>2
  <2>4. l = Line(w[k - p])
    BY <1>2, <2>1, <2>3
  <2> QED
    BY <1>7, <2>3, <2>4
<1>9. \A i \in 1..n : Line(w[i]) \in heads
  <2>1. \A i \in 1..n : p + i \in 1..(p + n)
    BY <1>2
  <2> QED
    BY <1>2, <1>5, <2>1
<1> HIDE DEF heads
<1>10. \A m \in txs : m \in 0..n
  <2>1. 0 \in 0..n /\ \A i \in 1..n : i \in 0..n
    BY <1>2
  <2> QED
    BY <1>8, <2>1
<1>11. n \in txs
  <2>1. CASE n = 0
    BY <2>1
  <2>2. CASE n # 0
    <3>1. n \in 1..n
      BY <1>2, <2>2
    <3>2. Line(w[n]) \in heads /\ Named(Line(w[n])) /\ ParseNumber(Line(w[n])[3]) = n
      BY <1>7, <1>9, <3>1
    <3> QED
      BY <3>2
  <2> QED
    BY <2>1, <2>2
<1> HIDE DEF txs
<1>12. \A k \in txs : k <= n
  BY <1>10
<1>13. \A m \in txs : (\A k \in txs : k <= m) => m = n
  BY <1>10, <1>11
<1>14. (CHOOSE m \in txs : \A k \in txs : k <= m) = n
  BY <1>11, <1>12, <1>13
<1> QED
  BY <1>4, <1>14 DEF n

-------------------------------------------------------------------------------
(* The preamble. *)

\* The preamble up to the newline of "@data".
TornLines == << <<"SIX", Tab, "table">>, <<"@field">>, <<"@lookup">> >>
Torn == Whole(TornLines) \o <<"@data">>

\* The preamble is a heading, with and without the line "@data".
LEMMA HeadingIs ==
    /\ Heading(PreambleLines) /\ Heading(TornLines) /\ <<"@data">> \in Seq(LineByte)
    /\ PreambleLines = Append(TornLines, <<"@data">>)
<1> DEFINE a == <<"SIX", Tab, "table">>
           b == <<"@field">>
           c == <<"@lookup">>
           d == <<"@data">>
           D == Seq(LineByte)
<1>1. Tab \in LineByte /\ Tab \notin {"hi", "lo"}
  BY DEF LineByte, Coded, LineText, Text, Tab, Newline, Return
<1>2. a \in D /\ b \in D /\ c \in D /\ d \in D
  BY <1>1 DEF LineByte
<1>3. ~IsDataLine(a) /\ ~IsDataLine(b) /\ ~IsDataLine(c) /\ ~IsDataLine(d)
  BY DEF IsDataLine
<1>4. ValidUtf8(a) /\ ValidUtf8(b) /\ ValidUtf8(c) /\ ValidUtf8(d)
  BY <1>1 DEF ValidUtf8
<1>5. a[1] \notin {"R", "D"} /\ b[1] \notin {"R", "D"} /\ c[1] \notin {"R", "D"} /\ d[1] \notin {"R", "D"}
  OBVIOUS
<1> DEFINE Fine(l) == /\ ~IsDataLine(l) /\ ValidUtf8(l)
                      /\ Len(l) >= 3 => l[1] \notin {"R", "D"}
<1>6. Fine(a) /\ Fine(b) /\ Fine(c) /\ Fine(d)
  BY <1>3, <1>4, <1>5
<1> HIDE DEF a, b, c, d, D, Fine
<1>7. TornLines = <<a, b, c>> /\ PreambleLines = <<a, b, c, d>>
  BY DEF TornLines, PreambleLines, a, b, c, d
<1>8. Append(<<a, b, c>>, d) = <<a, b, c, d>>
  BY <1>2, AppendFour
<1>9. TornLines \in Seq(D) /\ PreambleLines \in Seq(D)
  BY <1>2, <1>7
<1>10. \A i \in DOMAIN TornLines : Fine(TornLines[i])
  <2>1. DOMAIN TornLines = 1..3 /\ TornLines[1] = a /\ TornLines[2] = b /\ TornLines[3] = c
    BY <1>7
  <2>2. \A i \in 1..3 : i = 1 \/ i = 2 \/ i = 3
    OBVIOUS
  <2> QED
    BY <1>6, <2>1, <2>2
<1>11. \A i \in DOMAIN PreambleLines : Fine(PreambleLines[i])
  <2>1. DOMAIN PreambleLines = 1..4 /\ PreambleLines[1] = a /\ PreambleLines[2] = b
        /\ PreambleLines[3] = c /\ PreambleLines[4] = d
    BY <1>7
  <2>2. \A i \in 1..4 : i = 1 \/ i = 2 \/ i = 3 \/ i = 4
    OBVIOUS
  <2> QED
    BY <1>6, <2>1, <2>2
<1> QED
  BY <1>2, <1>7, <1>8, <1>9, <1>10, <1>11 DEF Heading, D, d, Fine

\* The bytes of the preamble.
LEMMA PreambleIs ==
    /\ Preamble = Whole(PreambleLines) /\ Preamble = Append(Torn, Newline)
    /\ Preamble \in Seq(Broken(LineByte)) /\ Torn \in Seq(Broken(LineByte))
    /\ Whole(TornLines) \in Seq(Broken(LineByte)) /\ Len(Torn) = Len(Whole(TornLines)) + 1
    /\ Len(Preamble) = Len(Torn) + 1 /\ Len(Torn) \in Nat
<1> DEFINE d == <<"@data">>
           C == Broken(LineByte)
           t == Whole(TornLines)
<1>1. TornLines \in Seq(Seq(LineByte)) /\ d \in Seq(LineByte) /\ PreambleLines = Append(TornLines, d)
  BY HeadingIs DEF Heading
<1>2. Preamble = Whole(PreambleLines)
  BY DEF Preamble, Whole
<1>3. Len(d) = 1
  OBVIOUS
<1> HIDE DEF d
<1>4. Whole(PreambleLines) = t \o Ended(d) /\ t \in Seq(C)
  BY <1>1, WholeAppend
<1>5. Ended(d) = d \o <<Newline>> /\ Newline \in C /\ d \in Seq(C)
  <2>1. \A s \in Seq(LineByte) : s \in Seq(C)
    BY DEF Broken
  <2> QED
    BY <1>1, <2>1, WholeOne DEF Broken
<1> HIDE DEF t, C
<1>6. t \o (d \o <<Newline>>) = (t \o d) \o <<Newline>> /\ t \o d \in Seq(C) /\ Len(t \o d) = Len(t) + 1
  <2> DEFINE e == <<Newline>>
  <2>1. t \in Seq(C) /\ d \in Seq(C) /\ e \in Seq(C)
    BY <1>4, <1>5
  <2> HIDE DEF e
  <2>2. t \o (d \o e) = (t \o d) \o e
    BY <2>1, Associative
  <2>3. t \o d \in Seq(C) /\ Len(t \o d) = Len(t) + Len(d)
    BY <2>1, CatIs
  <2> QED
    BY <1>3, <2>2, <2>3 DEF e
<1> DEFINE u == t \o d
<1>7. u \in Seq(C)
  BY <1>6
<1> HIDE DEF u
<1>8. u \o <<Newline>> = Append(u, Newline) /\ Append(u, Newline) \in Seq(C)
      /\ Len(Append(u, Newline)) = Len(u) + 1 /\ Len(u) \in Nat
  BY <1>5, <1>7, OneMore, AppendIs
<1>9. Torn = u
  BY DEF Torn, u, t, d
<1> QED
  BY <1>2, <1>4, <1>5, <1>6, <1>8, <1>9 DEF u, t, C

\* The bytes of lines after another.
LEMMA LinesOfIs ==
    ASSUME NEW w \in Seq(Operation)
    PROVE  /\ LinesOf(w) \in Seq(Broken(LineByte)) /\ LinesOf(w) = Whole(LinesSeq(w))
           /\ Whole(AllLines(PreambleLines, w)) = Preamble \o LinesOf(w)
<1> DEFINE ls == LinesSeq(w)
<1>1. ls \in Seq(Seq(LineByte)) /\ DOMAIN ls = DOMAIN w /\ \A i \in DOMAIN w : ls[i] = Line(w[i])
  BY LinesSeqIs DEF LinesSeq
<1> HIDE DEF ls
<1>2. [i \in DOMAIN w |-> Bytes(w[i])] = [i \in DOMAIN ls |-> Ended(ls[i])]
  BY <1>1 DEF Bytes, Line
<1>3. LinesOf(w) = Whole(ls)
  BY <1>2 DEF LinesOf, Whole
<1>4. PreambleLines \in Seq(Seq(LineByte))
  BY HeadingIs DEF Heading
<1>5. Whole(PreambleLines \o ls) = Whole(PreambleLines) \o Whole(ls) /\ Whole(ls) \in Seq(Broken(LineByte))
  BY <1>1, <1>4, WholeParts
<1> QED
  BY <1>3, <1>5, PreambleIs DEF AllLines, ls

\* The lines of a concatenation of batches are those of its parts.
LEMMA LinesOfParts ==
    ASSUME NEW v \in Seq(Operation), NEW w \in Seq(Operation)
    PROVE  LinesOf(v \o w) = LinesOf(v) \o LinesOf(w)
<1> DEFINE u == v \o w
<1>1. u \in Seq(Operation) /\ LinesSeq(u) = LinesSeq(v) \o LinesSeq(w)
  BY LinesSeqParts
<1>2. LinesSeq(v) \in Seq(Seq(LineByte)) /\ LinesSeq(w) \in Seq(Seq(LineByte))
  BY LinesSeqIs
<1>3. Whole(LinesSeq(v) \o LinesSeq(w)) = Whole(LinesSeq(v)) \o Whole(LinesSeq(w))
  BY <1>2, WholeParts
<1> HIDE DEF u
<1>4. LinesOf(u) = Whole(LinesSeq(u)) /\ LinesOf(v) = Whole(LinesSeq(v)) /\ LinesOf(w) = Whole(LinesSeq(w))
  BY <1>1, LinesOfIs
<1> QED
  BY <1>1, <1>3, <1>4 DEF u

\* No operations have no lines.
LEMMA NoLines == <<>> \in Seq(Operation) /\ LinesOf(<<>>) = <<>> /\ LinesSeq(<<>>) = <<>> /\ Numbered(<<>>)
<1>1. <<>> \in Seq(Operation) /\ [i \in DOMAIN <<>> |-> Bytes(<<>>[i])] = <<>>
      /\ [i \in DOMAIN <<>> |-> Line(<<>>[i])] = <<>> /\ 1..Len(<<>>) = {}
  OBVIOUS
<1> QED
  BY <1>1, ConcatEmpty DEF LinesOf, LinesSeq, Numbered

-------------------------------------------------------------------------------
(* The chunk in every state. *)

\* A chunk with the operations of w: not even its preamble is complete, or it holds them.
TornPreamble(c) == \E k \in 0..(Len(Preamble) - 1) : c = SubSeq(Preamble, 1, k)

ChunkShape(c, w) ==
    /\ w \in Seq(Operation) /\ Numbered(w)
    /\ \/ TornPreamble(c) /\ w = <<>>
       \/ \E rest : Holds(c, PreambleLines, w, rest)
    /\ w # <<>> => Len(Preamble \o LinesOf(w)) <= MaxNumber

ChunkInv == ChunkShape(chunk, written)

\* A torn preamble does not start with the preamble; if its header is read, only
\* the newline of "@data" is missing.
LEMMA TornIs ==
    ASSUME NEW c, TornPreamble(c)
    PROVE  /\ ~StartsWith(c, Preamble) /\ c \in Seq(Broken(LineByte))
           /\ Ended(c) = Preamble => c = Torn
<1> DEFINE C == Broken(LineByte)
<1>1. PICK k \in 0..(Len(Preamble) - 1) : c = SubSeq(Preamble, 1, k)
  BY DEF TornPreamble
<1>2. Preamble \in Seq(C) /\ Torn \in Seq(C) /\ Preamble = Append(Torn, Newline) /\ Newline \in C
  BY PreambleIs DEF Broken
<1> DEFINE q == Preamble
           t == Torn
           n == Len(q)
<1> HIDE DEF C, q, t
<1>3. c \in Seq(C) /\ Len(c) = k /\ n \in Nat /\ k < n
  BY <1>1, <1>2 DEF q
<1>4. ~StartsWith(c, q)
  BY <1>3 DEF StartsWith
<1>5. ASSUME Append(c, Newline) = Append(t, Newline) PROVE c = t
  <2>1. Len(Append(c, Newline)) = Len(c) + 1 /\ \A i \in 1..Len(c) : Append(c, Newline)[i] = c[i]
    BY <1>2, <1>3, AppendIs
  <2>2. t \in Seq(C) /\ Newline \in C
    BY <1>2 DEF t
  <2>3. Len(Append(t, Newline)) = Len(t) + 1 /\ \A i \in 1..Len(t) : Append(t, Newline)[i] = t[i]
    BY <2>2, AppendIs
  <2>4. Len(c) = Len(t) /\ Len(c) \in Nat
    BY <1>3, <1>5, <2>1, <2>2, <2>3
  <2>5. \A i \in 1..Len(c) : c[i] = t[i]
    BY <1>5, <2>1, <2>3, <2>4
  <2> QED
    BY <1>3, <2>2, <2>4, <2>5
<1> QED
  BY <1>2, <1>3, <1>4, <1>5 DEF Ended, C, q, t

\* A preamble that lacks its last newline holds no operation.
LEMMA HoldsTorn == Holds(Torn, TornLines, <<>>, <<"@data">>)
<1>1. AllLines(TornLines, <<>>) = TornLines
  <2>1. TornLines \o <<>> = TornLines
    BY HeadingIs DEF Heading
  <2> QED
    BY <2>1, NoLines DEF AllLines
<1> QED
  BY <1>1, NoLines, HeadingIs DEF Holds, Torn

\* A chunk whose header is read holds the operations, after one of two preambles.
LEMMA HeaderRead ==
    ASSUME NEW c, NEW w, ChunkShape(c, w), HeaderOk(c)
    PROVE  \/ c = Torn /\ w = <<>> /\ Holds(c, TornLines, w, <<"@data">>)
           \/ \E rest : Holds(c, PreambleLines, w, rest)
<1>1. CASE TornPreamble(c) /\ w = <<>>
  <2>1. c = Torn
    BY <1>1, TornIs DEF HeaderOk
  <2> QED
    BY <1>1, <2>1, HoldsTorn
<1> QED
  BY <1>1 DEF ChunkShape

\* A chunk with a complete preamble starts with it and is not empty.
LEMMA HoldsStarts ==
    ASSUME NEW c, NEW w, NEW rest, Holds(c, PreambleLines, w, rest)
    PROVE  /\ StartsWith(c, Preamble) /\ c # <<>> /\ c \in Seq(Broken(LineByte))
           /\ rest \in Seq(LineByte) /\ c = (Preamble \o LinesOf(w)) \o rest
           /\ Preamble \o LinesOf(w) \in Seq(Broken(LineByte))
<1> DEFINE C == Broken(LineByte)
           q == Preamble
           l == LinesOf(w)
<1>1. w \in Seq(Operation) /\ rest \in Seq(LineByte) /\ c = Whole(AllLines(PreambleLines, w)) \o rest
  BY DEF Holds
<1>2. q \in Seq(C) /\ l \in Seq(C) /\ Whole(AllLines(PreambleLines, w)) = q \o l /\ Len(q) > 0
  BY <1>1, LinesOfIs, PreambleIs
<1>3. rest \in Seq(C)
  <2>1. \A s \in Seq(LineByte) : s \in Seq(C)
    BY DEF Broken
  <2> QED
    BY <1>1, <2>1
<1> HIDE DEF C, q, l
<1> DEFINE d == q \o l
<1>4. d \in Seq(C) /\ Len(d) = Len(q) + Len(l) /\ Len(q) \in Nat /\ Len(l) \in Nat /\ \A i \in 1..Len(q) : d[i] = q[i]
  BY <1>2, CatIs
<1> HIDE DEF d
<1>5. d \o rest \in Seq(C) /\ Len(d \o rest) = Len(d) + Len(rest) /\ Len(rest) \in Nat
      /\ \A i \in 1..Len(d) : (d \o rest)[i] = d[i]
  BY <1>3, <1>4, CatIs
<1>6. c = d \o rest
  BY <1>1, <1>2 DEF d
<1>7. c \in Seq(C) /\ Len(q) <= Len(c) /\ \A i \in 1..Len(q) : c[i] = q[i]
  BY <1>4, <1>5, <1>6
<1>8. SubSeq(c, 1, Len(q)) = q
  BY <1>2, <1>4, <1>7
<1>9. c # <<>>
  BY <1>2, <1>4, <1>7
<1> QED
  BY <1>1, <1>4, <1>6, <1>7, <1>8, <1>9 DEF StartsWith, C, q, l, d

\* What an append starts from holds the operations and no rest.
LEMMA OpenedIs ==
    ASSUME ChunkInv, Appendable
    PROVE  Opened = Preamble \o LinesOf(written) /\ max_tx_in_six_file(chunk) = Len(written)
<1>1. CASE chunk = <<>>
  <2>1. written = <<>>
    BY <1>1, HoldsStarts DEF ChunkInv, ChunkShape
  <2>2. Preamble \o <<>> = Preamble
    BY PreambleIs
  <2>3. max_tx_in_six_file(chunk) = 0
    <3> DEFINE n == <<>>
    <3>1. n \in Seq(Seq(LineByte)) /\ n \in Seq(LineByte) /\ Len(n) = 0 /\ n \o n = n /\ n \in Seq(Operation)
      OBVIOUS
    <3>2. Heading(n)
      <4>1. DOMAIN n = {}
        OBVIOUS
      <4> HIDE DEF n
      <4> QED
        BY <3>1, <4>1 DEF Heading
    <3>3. AllLines(n, n) = n /\ Whole(n) = n
      BY <3>1, NoLines, WholeEmpty DEF AllLines
    <3> HIDE DEF n
    <3>4. Holds(n, n, n, n) /\ Numbered(n)
      BY <3>1, <3>2, <3>3, NoLines DEF Holds, n
    <3>5. max_tx_in_six_file(n) = Len(n)
      BY <3>4, HoldsMaxTx
    <3> QED
      BY <1>1, <3>1, <3>5 DEF n
  <2>4. Len(<<>>) = 0
    OBVIOUS
  <2> QED
    BY <1>1, <2>1, <2>2, <2>3, <2>4, NoLines DEF Opened
<1>2. CASE chunk # <<>>
  <2>1. HeaderOk(chunk) /\ Tail6(chunk) = <<>>
    BY <1>2 DEF Appendable, Complete
  <2>2. \/ Holds(chunk, TornLines, written, <<"@data">>)
        \/ \E rest : Holds(chunk, PreambleLines, written, rest)
    BY <2>1, HeaderRead DEF ChunkInv
  <2>3. ~Holds(chunk, TornLines, written, <<"@data">>)
    <3>1. <<"@data">> # <<>>
      OBVIOUS
    <3> QED
      BY <2>1, <3>1, HoldsLines
  <2>4. PICK rest : Holds(chunk, PreambleLines, written, rest)
    BY <2>2, <2>3
  <2>5. rest = <<>>
    BY <2>1, <2>4, HoldsLines
  <2>6. max_tx_in_six_file(chunk) = Len(written)
    BY <2>4, HoldsMaxTx DEF ChunkInv, ChunkShape
  <2>7. /\ chunk = (Preamble \o LinesOf(written)) \o <<>>
        /\ Preamble \o LinesOf(written) \in Seq(Broken(LineByte))
    BY <2>4, <2>5, HoldsStarts
  <2> DEFINE d == Preamble \o LinesOf(written)
  <2>8. d \in Seq(Broken(LineByte)) /\ chunk = d \o <<>>
    BY <2>7
  <2> HIDE DEF d
  <2>9. d \o <<>> = d
    BY <2>8
  <2> QED
    BY <1>2, <2>6, <2>8, <2>9 DEF Opened, d
<1> QED
  BY <1>1, <1>2

\* The operations of a batch and their transaction ids.
LEMMA BatchIs ==
    ASSUME ChunkInv, Appendable, NEW ops \in NextBatches
    PROVE  /\ ops \in Seq(Operation) /\ Len(ops) \in Nat
           /\ \A i \in 1..Len(ops) : ops[i].tx = Len(written) + i
           /\ Len((Preamble \o LinesOf(written)) \o LinesOf(ops)) <= MaxNumber
<1> DEFINE next == max_tx_in_six_file(chunk) + 1
           m == Len(written)
<1>1. next = m + 1 /\ Opened = Preamble \o LinesOf(written)
  BY OpenedIs
<1>2. m \in Nat
  BY DEF ChunkInv, ChunkShape
<1>3. PICK n \in 1..MaxBatch : ops \in [1..n -> {o \in Operation : o.tx \in next..(next + n - 1)}]
  BY DEF NextBatches
<1>4. /\ \A i \in DOMAIN ops : ops[i].tx = next + i - 1
      /\ Len(Opened \o LinesOf(ops)) <= MaxNumber
  BY DEF NextBatches
<1> HIDE DEF next, m
<1>5. n \in Nat
  BY <1>3
<1>6. ops \in [1..n -> Operation]
  BY <1>3
<1>7. ops \in Seq(Operation) /\ Len(ops) = n /\ DOMAIN ops = 1..n
  BY <1>5, <1>6
<1>8. \A i \in 1..n : ops[i].tx = m + i
  <2> TAKE i \in 1..n
  <2>1. ops[i].tx = next + i - 1
    BY <1>4, <1>7
  <2>2. next + i - 1 = m + i
    BY <1>1, <1>2
  <2> QED
    BY <2>1, <2>2
<1> QED
  BY <1>1, <1>4, <1>5, <1>7, <1>8 DEF m

\* More lines, and a rest, keep the shape of a chunk.
LEMMA Appended ==
    ASSUME NEW w, NEW v, NEW rest, w \in Seq(Operation), v \in Seq(Operation), rest \in Seq(LineByte),
           Numbered(w), \A i \in 1..Len(v) : v[i].tx = Len(w) + i,
           Len((Preamble \o LinesOf(w)) \o LinesOf(v)) <= MaxNumber
    PROVE  ChunkShape(((Preamble \o LinesOf(w)) \o LinesOf(v)) \o rest, w \o v)
<1> DEFINE u == w \o v
           C == Broken(LineByte)
           q == Preamble
           lw == LinesOf(w)
           lv == LinesOf(v)
           m == Len(w)
           n == Len(v)
<1>1. /\ u \in Seq(Operation) /\ Len(u) = m + n /\ m \in Nat /\ n \in Nat
      /\ (\A i \in 1..m : u[i] = w[i]) /\ \A i \in 1..n : u[m + i] = v[i]
  BY CatIs
<1>2. Numbered(u)
  <2>1. \A i \in 1..m : w[i].tx = i
    BY DEF Numbered
  <2> HIDE DEF u, m, n
  <2>2. ASSUME NEW i \in 1..(m + n) PROVE u[i].tx = i
    <3>1. CASE i \in 1..m
      BY <1>1, <2>1, <3>1
    <3>2. CASE i \notin 1..m
      <4>1. i - m \in 1..n /\ m + (i - m) = i
        BY <1>1, <3>2
      <4>2. u[i] = v[i - m] /\ v[i - m].tx = m + (i - m)
        BY <1>1, <4>1 DEF m, n
      <4> QED
        BY <4>1, <4>2
    <3> QED
      BY <3>1, <3>2
  <2> QED
    BY <1>1, <2>2 DEF Numbered
<1>3. LinesOf(u) = lw \o lv /\ q \in Seq(C) /\ lw \in Seq(C) /\ lv \in Seq(C)
  BY LinesOfParts, LinesOfIs, PreambleIs
<1>4. (q \o lw) \o lv = q \o (lw \o lv)
  <2> HIDE DEF q, lw, lv, C
  <2> QED
    BY <1>3, Associative
<1>5. (q \o lw) \o lv = q \o LinesOf(u)
  BY <1>3, <1>4
<1> HIDE DEF u
<1>6. Whole(AllLines(PreambleLines, u)) = q \o LinesOf(u)
  BY <1>1, LinesOfIs
<1>7. Holds((q \o LinesOf(u)) \o rest, PreambleLines, u, rest)
  BY <1>1, <1>6, HeadingIs DEF Holds
<1> QED
  BY <1>1, <1>2, <1>5, <1>7 DEF ChunkShape, u

\* Fewer lines are no longer.
LEMMA LinesOfFront ==
    ASSUME NEW ops \in Seq(Operation), NEW n \in 0..Len(ops), NEW d \in Seq(Broken(LineByte))
    PROVE  /\ SubSeq(ops, 1, n) \in Seq(Operation) /\ Len(SubSeq(ops, 1, n)) = n
           /\ (\A i \in 1..n : SubSeq(ops, 1, n)[i] = ops[i])
           /\ Len(d \o LinesOf(SubSeq(ops, 1, n))) <= Len(d \o LinesOf(ops))
<1> DEFINE f == SubSeq(ops, 1, n)
           g == SubSeq(ops, n + 1, Len(ops))
           C == Broken(LineByte)
           lf == LinesOf(f)
           lg == LinesOf(g)
           l == LinesOf(ops)
<1>1. f \in Seq(Operation) /\ g \in Seq(Operation) /\ Len(f) = n /\ ops = f \o g /\ \A i \in 1..n : f[i] = ops[i]
  BY CutIs, ZenonT(60)
<1> HIDE DEF f, g
<1>2. l = lf \o lg /\ lf \in Seq(C) /\ lg \in Seq(C)
  BY <1>1, LinesOfParts, LinesOfIs
<1> HIDE DEF lf, lg, l, C
<1>3. d \in Seq(C)
  BY DEF C
<1>4. Len(d \o lf) = Len(d) + Len(lf) /\ Len(lf) \in Nat /\ Len(d) \in Nat
  BY <1>2, <1>3, CatIs
<1>5. Len(lf \o lg) = Len(lf) + Len(lg) /\ Len(lg) \in Nat /\ lf \o lg \in Seq(C)
  BY <1>2, CatIs
<1>6. Len(d \o l) = Len(d) + Len(l)
  BY <1>2, <1>3, <1>5, CatIs
<1>7. Len(d \o lf) <= Len(d \o l)
  BY <1>2, <1>4, <1>5, <1>6
<1> QED
  BY <1>1, <1>7 DEF f, lf, l

\* A batch is appended to a chunk that ends in a complete line.
LEMMA AppendKeeps == ASSUME ChunkInv, AppendBatch PROVE ChunkInv'
<1> DEFINE e == <<>>
<1>1. PICK ops \in NextBatches : chunk' = Opened \o LinesOf(ops) /\ written' = written \o ops
  BY DEF AppendBatch
<1>2. Appendable
  BY DEF AppendBatch
<1>3. /\ ops \in Seq(Operation)
      /\ \A i \in 1..Len(ops) : ops[i].tx = Len(written) + i
      /\ Len((Preamble \o LinesOf(written)) \o LinesOf(ops)) <= MaxNumber
  BY <1>2, BatchIs
<1>4. Opened = Preamble \o LinesOf(written)
  BY <1>2, OpenedIs
<1>5. written \in Seq(Operation) /\ Numbered(written)
  BY DEF ChunkInv, ChunkShape
<1>6. e \in Seq(LineByte)
  OBVIOUS
<1> DEFINE d == (Preamble \o LinesOf(written)) \o LinesOf(ops)
<1>7. ChunkShape(d \o e, written \o ops)
  <2> HIDE DEF e
  <2> QED
    BY <1>3, <1>5, <1>6, Appended
<1>8. d \o e = d
  <2>1. /\ Preamble \in Seq(Broken(LineByte)) /\ LinesOf(written) \in Seq(Broken(LineByte))
        /\ LinesOf(ops) \in Seq(Broken(LineByte))
    BY <1>3, <1>5, LinesOfIs, PreambleIs
  <2>2. d \in Seq(Broken(LineByte))
    BY <2>1
  <2> HIDE DEF d
  <2> QED
    BY <2>2
<1> QED
  BY <1>1, <1>4, <1>7, <1>8 DEF ChunkInv

\* A preamble that is not complete holds no operation.
LEMMA PreambleKeeps == ASSUME ChunkInv, InterruptedPreamble PROVE ChunkInv'
<1>1. chunk = <<>> /\ written' = written
  BY DEF InterruptedPreamble
<1>2. PICK k \in 1..Len(Preamble)-1 : chunk' = SubSeq(Preamble, 1, k)
  BY DEF InterruptedPreamble
<1>3. written = <<>>
  BY <1>1, HoldsStarts DEF ChunkInv, ChunkShape
<1>4. TornPreamble(chunk')
  <2>1. k \in 0..(Len(Preamble) - 1)
    OBVIOUS
  <2> QED
    BY <1>2, <2>1 DEF TornPreamble
<1> QED
  BY <1>1, <1>3, <1>4, NoLines DEF ChunkInv, ChunkShape

\* An append that stopped wrote whole lines and a part of the next one.
LEMMA InterruptedKeeps == ASSUME ChunkInv, InterruptedAppend PROVE ChunkInv'
<1>1. Appendable
  BY DEF InterruptedAppend
<1>2. PICK ops \in NextBatches : \E n \in 0..Len(ops)-1 : \E k \in 0..Len(Bytes(ops[n + 1]))-1 :
           /\ chunk' = Opened \o LinesOf(SubSeq(ops, 1, n)) \o SubSeq(Bytes(ops[n + 1]), 1, k)
           /\ written' = written \o SubSeq(ops, 1, n)
  BY DEF InterruptedAppend
<1>3. PICK n \in 0..Len(ops)-1 : \E k \in 0..Len(Bytes(ops[n + 1]))-1 :
           /\ chunk' = Opened \o LinesOf(SubSeq(ops, 1, n)) \o SubSeq(Bytes(ops[n + 1]), 1, k)
           /\ written' = written \o SubSeq(ops, 1, n)
  BY <1>2
<1>31. PICK k \in 0..Len(Bytes(ops[n + 1]))-1 :
           /\ chunk' = Opened \o LinesOf(SubSeq(ops, 1, n)) \o SubSeq(Bytes(ops[n + 1]), 1, k)
           /\ written' = written \o SubSeq(ops, 1, n)
  BY <1>3
<1>4. /\ ops \in Seq(Operation) /\ Len(ops) \in Nat
      /\ \A i \in 1..Len(ops) : ops[i].tx = Len(written) + i
      /\ Len((Preamble \o LinesOf(written)) \o LinesOf(ops)) <= MaxNumber
  BY <1>1, BatchIs
<1>5. Opened = Preamble \o LinesOf(written)
  BY <1>1, OpenedIs
<1>6. written \in Seq(Operation) /\ Numbered(written)
  BY DEF ChunkInv, ChunkShape
<1> DEFINE v == SubSeq(ops, 1, n)
           o == ops[n + 1]
           rest == SubSeq(Bytes(o), 1, k)
           d == Preamble \o LinesOf(written)
<1>7. n \in 0..Len(ops) /\ o \in Operation
  BY <1>4
<1>8. d \in Seq(Broken(LineByte))
  <2>1. Preamble \in Seq(Broken(LineByte)) /\ LinesOf(written) \in Seq(Broken(LineByte))
    BY <1>6, LinesOfIs, PreambleIs
  <2> QED
    BY <2>1
<1> HIDE DEF d
<1>9. /\ v \in Seq(Operation) /\ Len(v) = n /\ (\A i \in 1..n : v[i] = ops[i])
      /\ Len(d \o LinesOf(v)) <= Len(d \o LinesOf(ops))
  BY <1>4, <1>7, <1>8, LinesOfFront
<1>10. rest \in Seq(LineByte)
  <2> DEFINE l == Line(o)
  <2>1. l \in Seq(LineByte) /\ Bytes(o) = Append(l, Newline)
    BY <1>7, LineHead DEF Bytes, Ended, Line
  <2> HIDE DEF l, o
  <2> DEFINE a == Append(l, Newline)
  <2>2. l \in Seq(Broken(LineByte)) /\ Newline \in Broken(LineByte)
    <3>1. \A s \in Seq(LineByte) : s \in Seq(Broken(LineByte))
      BY DEF Broken
    <3> QED
      BY <2>1, <3>1 DEF Broken
  <2>3. a \in Seq(Broken(LineByte)) /\ Len(a) = Len(l) + 1 /\ Len(l) \in Nat /\ \A i \in 1..Len(l) : a[i] = l[i]
    BY <2>2, AppendIs
  <2> HIDE DEF a
  <2>4. Bytes(o) = a
    BY <2>1 DEF a
  <2>5. k \in 0..Len(l)
    BY <2>3, <2>4 DEF o
  <2>6. \A i \in 1..k : a[i] \in LineByte
    <3>1. \A i \in 1..k : i \in 1..Len(l)
      BY <2>3, <2>5
    <3> QED
      BY <2>1, <2>3, <3>1
  <2>7. SubSeq(a, 1, k) = [i \in 1..k |-> a[i]]
    BY <2>3, <2>5
  <2> DEFINE s == SubSeq(a, 1, k)
  <2>8. s \in [1..k -> LineByte]
    BY <2>6, <2>7
  <2> HIDE DEF s
  <2>9. s \in Seq(LineByte)
    <3>1. k \in Nat
      BY <2>3, <2>5
    <3> QED
      BY <2>8, <3>1
  <2> QED
    BY <2>4, <2>9 DEF s
<1> HIDE DEF v, rest, o
<1>11. \A i \in 1..Len(v) : v[i].tx = Len(written) + i
  <2>1. \A i \in 1..n : i \in 1..Len(ops)
    BY <1>4
  <2> QED
    BY <1>4, <1>9, <2>1
<1>12. Len(d \o LinesOf(v)) <= MaxNumber
  <2> DEFINE a == Len(d \o LinesOf(v))
             b == Len(d \o LinesOf(ops))
  <2>1. a \in Nat /\ b \in Nat
    <3>1. LinesOf(v) \in Seq(Broken(LineByte)) /\ LinesOf(ops) \in Seq(Broken(LineByte))
      BY <1>4, <1>9, LinesOfIs
    <3> QED
      BY <1>8, <3>1
  <2>2. a <= b /\ b <= MaxNumber /\ MaxNumber \in Nat
    BY <1>4, <1>9, BoundsAssumption DEF d
  <2> HIDE DEF a, b
  <2>3. a <= MaxNumber
    BY <2>1, <2>2
  <2> QED
    BY <2>3 DEF a
<1>13. ChunkShape((d \o LinesOf(v)) \o rest, written \o v)
  BY <1>6, <1>9, <1>10, <1>11, <1>12, Appended DEF d
<1> QED
  BY <1>31, <1>5, <1>13 DEF ChunkInv, d, v, rest, o

\* A chunk cut after its last newline.
LEMMA HoldsCut ==
    ASSUME NEW c, NEW w, NEW pre, NEW rest, Holds(c, pre, w, rest)
    PROVE  CutTail(c) = Whole(AllLines(pre, w)) /\ Holds(CutTail(c), pre, w, <<>>)
<1> DEFINE a == Whole(AllLines(pre, w))
           C == Broken(LineByte)
<1>1. Heading(pre) /\ w \in Seq(Operation) /\ rest \in Seq(LineByte) /\ c = a \o rest /\ Tail6(c) = rest
  BY HoldsLines DEF Holds
<1>2. a \in Seq(C)
  <2>1. AllLines(pre, w) \in Seq(Seq(LineByte))
    BY <1>1, AllLinesIs
  <2> QED
    BY <2>1, WholeParts
<1>3. rest \in Seq(C)
  <2>1. \A s \in Seq(LineByte) : s \in Seq(C)
    BY DEF Broken
  <2> QED
    BY <1>1, <2>1
<1> HIDE DEF a, C
<1>4. Len(c) = Len(a) + Len(rest) /\ Len(a) \in Nat /\ Len(rest) \in Nat /\ \A i \in 1..Len(a) : c[i] = a[i]
  BY <1>1, <1>2, <1>3, CatIs
<1>5. c \in Seq(C)
  BY <1>1, <1>2, <1>3
<1>6. SubSeq(c, 1, Len(a)) = a
  BY <1>2, <1>4, <1>5
<1>7. Len(c) - Len(rest) = Len(a)
  BY <1>4
<1>8. CutTail(c) = a
  BY <1>1, <1>6, <1>7 DEF CutTail
<1>9. a = a \o <<>> /\ <<>> \in Seq(LineByte)
  BY <1>2
<1>10. Holds(a, pre, w, <<>>)
  BY <1>1, <1>9 DEF Holds, a
<1> QED
  BY <1>8, <1>10 DEF a

\* The cut removes the tail and nothing else.
LEMMA TruncateKeeps == ASSUME ChunkInv, truncate_incomplete_tail PROVE ChunkInv'
<1>1. HeaderOk(chunk) /\ chunk' = CutTail(chunk) /\ written' = written
  BY DEF truncate_incomplete_tail
<1>2. CASE chunk = Torn /\ written = <<>> /\ Holds(chunk, TornLines, written, <<"@data">>)
  <2> DEFINE t == Whole(TornLines)
             d == <<"@data">>
  <2>1. CutTail(chunk) = Whole(AllLines(TornLines, written))
    BY <1>2, HoldsCut
  <2>2. AllLines(TornLines, <<>>) = TornLines
    <3>1. TornLines \o <<>> = TornLines
      BY HeadingIs DEF Heading
    <3> QED
      BY <3>1, NoLines DEF AllLines
  <2>3. chunk' = t
    BY <1>1, <1>2, <2>1, <2>2
  <2>4. t = SubSeq(Preamble, 1, Len(t)) /\ Len(t) \in 0..(Len(Preamble) - 1)
    <3> DEFINE C == Broken(LineByte)
               u == t \o d
               q == Append(u, Newline)
    <3>1. t \in Seq(C) /\ Preamble = q /\ Len(Preamble) = Len(t) + 2 /\ Len(t) \in Nat
      BY PreambleIs DEF Torn
    <3>2. d \in Seq(C)
      <4>1. \A s \in Seq(LineByte) : s \in Seq(C)
        BY DEF Broken
      <4> QED
        BY <4>1, HeadingIs
    <3>3. Newline \in C
      BY DEF Broken
    <3> HIDE DEF C, t, d
    <3>4. u \in Seq(C) /\ Len(u) = Len(t) + Len(d) /\ Len(d) \in Nat /\ \A i \in 1..Len(t) : u[i] = t[i]
      BY <3>1, <3>2, CatIs
    <3> HIDE DEF u
    <3>5. q \in Seq(C) /\ \A i \in 1..Len(u) : q[i] = u[i]
      BY <3>3, <3>4, AppendIs
    <3> HIDE DEF q
    <3>6. \A i \in 1..Len(t) : q[i] = t[i]
      BY <3>1, <3>4, <3>5
    <3>7. SubSeq(q, 1, Len(t)) = t
      BY <3>1, <3>5, <3>6
    <3> QED
      BY <3>1, <3>7
  <2>5. TornPreamble(chunk')
    BY <2>3, <2>4 DEF TornPreamble
  <2> QED
    BY <1>1, <1>2, <2>5, NoLines DEF ChunkInv, ChunkShape
<1>3. CASE \E rest : Holds(chunk, PreambleLines, written, rest)
  <2>1. PICK rest : Holds(chunk, PreambleLines, written, rest)
    BY <1>3
  <2>2. Holds(CutTail(chunk), PreambleLines, written, <<>>)
    BY <2>1, HoldsCut
  <2> QED
    BY <1>1, <2>2 DEF ChunkInv, ChunkShape
<1> QED
  BY <1>1, <1>2, <1>3, HeaderRead DEF ChunkInv

\* A table that has no chunk yet.
LEMMA ChunkInvInit == Init => ChunkInv
<1> SUFFICES ASSUME Init PROVE ChunkInv
  OBVIOUS
<1>1. chunk = <<>> /\ written = <<>>
  BY DEF Init
<1>2. SubSeq(Preamble, 1, 0) = <<>> /\ 0 \in 0..(Len(Preamble) - 1)
  <2>1. Preamble \in Seq(Broken(LineByte)) /\ Len(Preamble) = Len(Torn) + 1 /\ Len(Torn) \in Nat
    BY PreambleIs
  <2> QED
    BY <2>1
<1>3. TornPreamble(<<>>)
  BY <1>2 DEF TornPreamble
<1> QED
  BY <1>1, <1>3, NoLines DEF ChunkInv, ChunkShape

\* Every step keeps the shape of the chunk.
LEMMA ChunkInvNext == ChunkInv /\ [Next]_vars => ChunkInv'
<1> SUFFICES ASSUME ChunkInv, [Next]_vars PROVE ChunkInv'
  OBVIOUS
<1>1. CASE AppendBatch
  BY <1>1, AppendKeeps
<1>2. CASE InterruptedPreamble
  BY <1>2, PreambleKeeps
<1>3. CASE InterruptedAppend
  BY <1>3, InterruptedKeeps
<1>4. CASE truncate_incomplete_tail
  BY <1>4, TruncateKeeps
<1>5. CASE rebuild_sixb
  BY <1>5 DEF rebuild_sixb, ChunkInv
<1>6. CASE LoseSixbTail
  BY <1>6 DEF LoseSixbTail, ChunkInv
<1>7. CASE UNCHANGED vars
  BY <1>7 DEF vars, ChunkInv
<1> QED
  BY <1>1, <1>2, <1>3, <1>4, <1>5, <1>6, <1>7 DEF Next

\* At any time the chunk is empty, a part of the preamble, or the preamble, the
\* lines of the operations written, numbered from 1, and a part of one line more
\* (append.rs, append_batch_inner and truncate_incomplete_tail).
THEOREM ChunkInvariant == Spec => []ChunkInv
  BY ChunkInvInit, ChunkInvNext, PTL DEF Spec


-------------------------------------------------------------------------------
(* What the chunk is read as. *)

\* Of a chunk whose header is read, the scan returns what was written.
LEMMA ScanReads == ChunkInv => ScanIsWritten
<1> SUFFICES ASSUME ChunkInv, HeaderOk(chunk)
             PROVE  Operations(chunk) = written /\ max_tx_in_six_file(chunk) = Len(written)
  BY DEF ScanIsWritten
<1>1. PICK pre, rest : Holds(chunk, pre, written, rest)
  BY HeaderRead DEF ChunkInv
<1>2. Numbered(written)
  BY DEF ChunkInv, ChunkShape
<1> QED
  BY <1>1, <1>2, HoldsScanned, HoldsMaxTx

\* The places of its entries read back as their operations.
LEMMA EntriesRead == ChunkInv => EntriesReadBack
<1> SUFFICES ASSUME ChunkInv, HeaderOk(chunk)
             PROVE  /\ raw_six_data_lines(chunk) = [i \in DOMAIN Scanned(chunk) |-> Scanned(chunk)[i].raw_line]
                    /\ \A i \in DOMAIN Scanned(chunk) :
                         ReadPointer(chunk, Scanned(chunk)[i]) = Scanned(chunk)[i].operation
  BY DEF EntriesReadBack
<1>1. PICK pre, rest : Holds(chunk, pre, written, rest)
  BY HeaderRead DEF ChunkInv
<1>2. /\ Scanned(chunk) = EntriesOf(pre, written) /\ DOMAIN Scanned(chunk) = 1..Len(written)
      /\ raw_six_data_lines(chunk) = [i \in DOMAIN Scanned(chunk) |-> Scanned(chunk)[i].raw_line]
  BY <1>1, HoldsScanned
<1>3. ASSUME NEW i \in DOMAIN Scanned(chunk)
      PROVE  ReadPointer(chunk, Scanned(chunk)[i]) = Scanned(chunk)[i].operation
  <2>1. i \in 1..Len(written)
    BY <1>2
  <2>2. Scanned(chunk)[i] = EntryOf(pre, written, i)
    BY <1>2, <2>1 DEF EntriesOf
  <2>3. EntryOf(pre, written, i).operation = written[i]
    BY DEF EntryOf
  <2>4. ReadPointer(chunk, EntryOf(pre, written, i)) = written[i]
    BY <1>1, <2>1, HoldsPointer
  <2> QED
    BY <2>2, <2>3, <2>4
<1> QED
  BY <1>2, <1>3

\* A chunk with whole lines only is scanned without an error.
LEMMA HoldsSucceeds ==
    ASSUME NEW c, NEW w, Holds(c, PreambleLines, w, <<>>)
    PROVE  ScanSucceeds(c) /\ Operations(c) = w /\ Complete(c)
<1> DEFINE pre == PreambleLines
           ls == AllLines(pre, w)
           p == Len(pre)
           n == Len(w)
<1>1. HeaderOk(c)
  BY HoldsStarts DEF HeaderOk
<1>2. /\ ls \in Seq(Seq(LineByte)) /\ Len(ls) = p + n /\ p \in Nat /\ n \in Nat
      /\ \A i \in 1..p : ls[i] = pre[i]
      /\ \A i \in 1..n : ls[p + i] = Line(w[i]) /\ w[i] \in Operation
  BY AllLinesIs DEF Holds
<1>3. Pieces(c) = Append(ls, <<>>) /\ Tail6(c) = <<>>
  BY HoldsLines
<1>4. Heading(pre) /\ DOMAIN pre = 1..p
  BY DEF Holds, Heading
<1> HIDE DEF pre, ls, p, n
<1>5. \A k \in 1..(p + n) : ValidUtf8(ls[k])
  <2> TAKE k \in 1..(p + n)
  <2>1. CASE k \in 1..p
    BY <1>2, <1>4, <2>1 DEF Heading
  <2>2. CASE k \notin 1..p
    <3>1. k - p \in 1..n /\ p + (k - p) = k
      BY <1>2, <2>2
    <3>2. ls[p + (k - p)] = Line(w[k - p]) /\ w[k - p] \in Operation
      BY <1>2, <3>1
    <3>3. ValidUtf8(Line(w[k - p]))
      BY <3>2, LineBack
    <3> QED
      BY <3>1, <3>2, <3>3
  <2> QED
    BY <2>1, <2>2
<1>6. Readable(c)
  <2> DEFINE e == <<>>
             ps == Append(ls, e)
  <2>1. e \in Seq(LineByte) /\ ValidUtf8(e)
    BY DEF ValidUtf8
  <2> HIDE DEF e
  <2>2. /\ ps \in Seq(Seq(LineByte)) /\ Len(ps) = p + n + 1 /\ ps[p + n + 1] = e
        /\ \A k \in 1..(p + n) : ps[k] = ls[k]
    BY <1>2, <2>1, AppendIs
  <2> HIDE DEF ps
  <2>3. DOMAIN ps = 1..(p + n + 1)
    BY <2>2
  <2>4. \A k \in 1..(p + n + 1) : k \in 1..(p + n) \/ k = p + n + 1
    BY <1>2
  <2>5. \A k \in DOMAIN ps : ValidUtf8(ps[k])
    BY <1>5, <2>1, <2>2, <2>3, <2>4
  <2>6. Pieces(c) = ps
    BY <1>3 DEF ps, e
  <2> QED
    BY <2>5, <2>6 DEF Readable
<1>7. Scanned(c) = EntriesOf(pre, w) /\ DOMAIN Scanned(c) = 1..n /\ Operations(c) = w
  BY HoldsScanned DEF pre, n
<1>8. ASSUME NEW i \in DOMAIN Scanned(c) PROVE Scanned(c)[i].operation # Refused
  <2>1. i \in 1..n
    BY <1>7
  <2>2. Scanned(c)[i] = EntryOf(pre, w, i)
    BY <1>7, <2>1 DEF EntriesOf, n
  <2>3. Scanned(c)[i].operation = w[i]
    BY <2>2 DEF EntryOf
  <2>4. w[i].tag \in {"R", "D"}
    BY <1>2, <2>1, OperationIs
  <2>5. Refused.tag = "error"
    BY DEF Refused
  <2> QED
    BY <2>3, <2>4, <2>5
<1> QED
  BY <1>1, <1>3, <1>6, <1>7, <1>8 DEF ScanSucceeds, Complete

\* A cut chunk with a complete preamble has whole lines only.
LEMMA CutReads == ChunkInv => CuttingKeepsLines
<1> SUFFICES ASSUME ChunkInv, StartsWith(chunk, Preamble)
             PROVE  /\ ScanSucceeds(CutTail(chunk))
                    /\ Operations(CutTail(chunk)) = written
                    /\ Complete(CutTail(chunk))
  BY DEF CuttingKeepsLines
<1>1. ~TornPreamble(chunk)
  BY TornIs
<1>2. PICK rest : Holds(chunk, PreambleLines, written, rest)
  BY <1>1 DEF ChunkInv, ChunkShape
<1>3. Holds(CutTail(chunk), PreambleLines, written, <<>>)
  BY <1>2, HoldsCut
<1> QED
  BY <1>3, HoldsSucceeds

\* Wherever an append stopped, the scan of a chunk whose header is read returns
\* the operations whose lines were completed, and its transaction counter is theirs.
THEOREM ScanReturnsWritten == Spec => []ScanIsWritten
  BY ChunkInvariant, ScanReads, PTL

\* The places of all entries read back as the entries' operations.
THEOREM PlacesReadBack == Spec => []EntriesReadBack
  BY ChunkInvariant, EntriesRead, PTL

\* Cutting off a tail keeps the lines and leaves a chunk that can be read.
THEOREM CutKeepsLines == Spec => []CuttingKeepsLines
  BY ChunkInvariant, CutReads, PTL

-------------------------------------------------------------------------------
(* Readers of an index file. *)

SixbByte == Coded(Text) \cup {"SIXB", "2"}
Readers(b) == [bytes : {b}, offset : Nat, out : Seq(SixbByte), ok : BOOLEAN]

\* A reader that has not failed has taken k bytes.
Reads(r, b, k) == r \in Readers(b) /\ (r.ok => r.offset = k /\ k <= Len(b))

\* As far as b reaches, x comes after its first k bytes.
Part(b, k, x) == \A i \in 1..Len(x) : k + i <= Len(b) => b[k + i] = x[i]

\* Two parts after another.
LEMMA PartParts ==
    ASSUME NEW B, NEW b, NEW k \in Nat, NEW x \in Seq(B), NEW y \in Seq(B), Part(b, k, x \o y)
    PROVE  Part(b, k, x) /\ Part(b, k + Len(x), y)
<1> DEFINE z == x \o y
           m == Len(x)
           n == Len(y)
<1>1. /\ Len(z) = m + n /\ m \in Nat /\ n \in Nat
      /\ (\A i \in 1..m : z[i] = x[i]) /\ \A i \in 1..n : z[m + i] = y[i]
  BY CatIs
<1>2. \A i \in 1..Len(z) : k + i <= Len(b) => b[k + i] = z[i]
  BY DEF Part
<1> HIDE DEF z, m, n
<1>3. \A i \in 1..m : k + i <= Len(b) => b[k + i] = x[i]
  <2>1. \A i \in 1..m : i \in 1..Len(z)
    BY <1>1
  <2> QED
    BY <1>1, <1>2, <2>1
<1>4. ASSUME NEW i \in 1..n, (k + m) + i <= Len(b) PROVE b[(k + m) + i] = y[i]
  <2>1. m + i \in 1..Len(z) /\ k + (m + i) = (k + m) + i
    BY <1>1
  <2> DEFINE j == m + i
  <2>2. j \in 1..Len(z) /\ k + j = (k + m) + i /\ z[j] = y[i]
    BY <1>1, <2>1
  <2> HIDE DEF j
  <2>3. k + j <= Len(b)
    BY <1>4, <2>2
  <2>4. b[k + j] = z[j]
    BY <1>2, <2>2, <2>3
  <2> QED
    BY <2>2, <2>4
<1>5. Part(b, k, x)
  BY <1>3 DEF Part, m
<1>6. Part(b, k + m, y)
  BY <1>4 DEF Part, n
<1> QED
  BY <1>5, <1>6 DEF m

\* A call of take, by the bytes that are left.
Short(r, n) == ~r.ok \/ r.offset + n > Len(r.bytes)
Failed(r) == [r EXCEPT !.ok = FALSE]
Taken(r, n) == [bytes |-> r.bytes, offset |-> r.offset + n,
                out |-> SubSeq(r.bytes, r.offset + 1, r.offset + n), ok |-> TRUE]
\* A reader takes the next bytes or fails.
LEMMA TakeIs ==
    ASSUME NEW r, NEW n
    PROVE  (Short(r, n) => Take(r, n) = Failed(r)) /\ (~Short(r, n) => Take(r, n) = Taken(r, n))
<1>1. Take(r, n) = IF Short(r, n) THEN Failed(r) ELSE Taken(r, n)
  BY SMTT(90) DEF Take, Short, Failed, Taken
<1>2. CASE Short(r, n)
  BY <1>1, <1>2, Zenon
<1>3. CASE ~Short(r, n)
  BY <1>1, <1>3, Zenon
<1> QED
  BY <1>2, <1>3, Zenon

\* The readers before and after a call that fails, and one that does not.
LEMMA TakenIs ==
    ASSUME NEW b, b \in Seq(SixbByte), NEW r \in Readers(b), NEW n \in Nat
    PROVE  /\ r.bytes = b /\ r.offset \in Nat /\ r.ok \in BOOLEAN /\ r.out \in Seq(SixbByte)
           /\ Failed(r) \in Readers(b) /\ ~Failed(r).ok
           /\ r.offset + n <= Len(b) =>
                /\ Taken(r, n) \in Readers(b) /\ Taken(r, n).ok
                /\ Taken(r, n).offset = r.offset + n
                /\ Taken(r, n).out = SubSeq(b, r.offset + 1, r.offset + n)
<1>1. r.bytes = b /\ r.offset \in Nat /\ r.ok \in BOOLEAN /\ r.out \in Seq(SixbByte)
  BY DEF Readers
<1>2. Failed(r) \in Readers(b) /\ ~Failed(r).ok
  BY DEF Readers, Failed
<1>3. ASSUME r.offset + n <= Len(b)
      PROVE  /\ Taken(r, n) \in Readers(b) /\ Taken(r, n).ok
             /\ Taken(r, n).offset = r.offset + n
             /\ Taken(r, n).out = SubSeq(b, r.offset + 1, r.offset + n)
  <2> DEFINE o == SubSeq(b, r.offset + 1, r.offset + n)
             k == r.offset + n
  <2>1. k \in Nat /\ k <= Len(b)
    BY <1>1, <1>3
  <2>2. o \in Seq(SixbByte)
    BY <1>1, <2>1
  <2>3. Taken(r, n) = [bytes |-> b, offset |-> k, out |-> o, ok |-> TRUE]
    BY <1>1 DEF Taken
  <2> HIDE DEF o, k
  <2>4. /\ Taken(r, n) \in Readers(b) /\ Taken(r, n).ok
        /\ Taken(r, n).offset = k /\ Taken(r, n).out = o
    BY <2>1, <2>2, <2>3 DEF Readers
  <2> QED
    BY <2>4 DEF o, k
<1> QED
  BY <1>1, <1>2, <1>3

\* A call leaves a reader a reader, and one that has failed failed.
LEMMA TakeTyped ==
    ASSUME NEW b, b \in Seq(SixbByte), NEW r \in Readers(b), NEW n \in Nat
    PROVE  Take(r, n) \in Readers(b) /\ (Take(r, n).ok => r.ok)
<1>1. r.bytes = b /\ r.offset \in Nat /\ Len(b) \in Nat
  BY TakenIs
<1>2. CASE Short(r, n)
  BY <1>2, TakeIs, TakenIs
<1>3. CASE ~Short(r, n)
  <2>1. r.offset + n <= Len(b)
    BY <1>1, <1>3 DEF Short
  <2>2. Taken(r, n) \in Readers(b) /\ Take(r, n) = Taken(r, n)
    BY <1>1, <1>3, <2>1, TakeIs, TakenIs
  <2>3. r.ok
    BY <1>3 DEF Short
  <2> QED
    BY <2>2, <2>3
<1> QED
  BY <1>2, <1>3

\* From the reader r, t has taken x and is at k.
Takes(t, b, k, r, x) == Reads(t, b, k) /\ (t.ok => r.ok /\ t.out = x)

\* It takes the bytes that come next.
LEMMA TakeReads ==
    ASSUME NEW b, NEW r, NEW k, NEW x, NEW n, b \in Seq(SixbByte), k \in Nat, Reads(r, b, k),
           x \in Seq(SixbByte), n = Len(x), Part(b, k, x)
    PROVE  Takes(Take(r, n), b, k + n, r, x)
<1>1. r \in Readers(b) /\ n \in Nat /\ (r.ok => r.offset = k /\ k <= Len(b))
  BY DEF Reads
<1>2. Take(r, n) \in Readers(b) /\ (Take(r, n).ok => r.ok)
  BY <1>1, TakeTyped
<1>3. r.bytes = b /\ r.offset \in Nat /\ Len(b) \in Nat
  BY <1>1, TakenIs
<1>4. ASSUME Take(r, n).ok PROVE Take(r, n).offset = k + n /\ k + n <= Len(b) /\ Take(r, n).out = x
  <2>1. r.ok /\ r.offset = k
    BY <1>1, <1>2, <1>4
  <2>2. ~Short(r, n)
    BY <1>1, <1>4, TakeIs, TakenIs
  <2>3. k + n <= Len(b)
    BY <1>1, <1>3, <2>1, <2>2 DEF Short
  <2> DEFINE o == SubSeq(b, k + 1, k + n)
  <2>4. Take(r, n).offset = k + n /\ Take(r, n).out = o
    <3>1. Take(r, n) = Taken(r, n)
      BY <2>2, TakeIs
    <3>2. r.offset + n <= Len(b)
      BY <2>1, <2>3
    <3>3. Taken(r, n).offset = r.offset + n /\ Taken(r, n).out = SubSeq(b, r.offset + 1, r.offset + n)
      BY <1>1, <3>2, TakenIs
    <3> QED
      BY <2>1, <3>1, <3>3
  <2>5. o = x
    <3>1. o \in Seq(SixbByte) /\ Len(o) = n /\ \A i \in 1..n : o[i] = b[k + i]
      BY <1>1, <2>3
    <3>2. \A i \in 1..n : k + i <= Len(b)
      BY <1>1, <1>3, <2>3
    <3>3. \A i \in 1..n : b[k + i] = x[i]
      BY <3>2 DEF Part
    <3> HIDE DEF o
    <3> QED
      BY <3>1, <3>3
  <2> QED
    BY <2>3, <2>4, <2>5
<1> QED
  BY <1>1, <1>2, <1>4 DEF Reads, Takes

\* A number is read as itself, and is one whatever is read.
LEMMA NumberReads ==
    ASSUME NEW r
    PROVE  /\ Number(r) \in Numbers /\ Number(r) \in Nat
           /\ \A n \in Numbers : r.ok /\ r.out = <<NumberByte[n]>> => Number(r) = n
<1>1. Numbers \subseteq Nat /\ 0 \in Numbers
  BY BoundsAssumption DEF Numbers
<1>2. ASSUME IsNumber(r.out[1]) PROVE ParseNumber(r.out[1]) \in Numbers
  <2> DEFINE x == r.out[1]
  <2>1. \E n \in Numbers : NumberByte[n] = x
    BY <1>2 DEF IsNumber
  <2> HIDE DEF x
  <2>2. (CHOOSE n \in Numbers : NumberByte[n] = x) \in Numbers
    BY <2>1
  <2> QED
    BY <2>2 DEF ParseNumber, x
<1>3. ASSUME NEW n \in Numbers, r.ok, r.out = <<NumberByte[n]>> PROVE Number(r) = n
  <2>1. r.out[1] = NumberByte[n]
    BY <1>3
  <2> QED
    BY <1>3, <2>1, NumberBack DEF Number
<1>4. Number(r) \in Numbers
  BY <1>1, <1>2 DEF Number
<1> QED
  BY <1>1, <1>3, <1>4

\* The reader behind the bytes of a string, before they are found valid.
StringText(r) == Take(Take(r, 1), Number(Take(r, 1)))

\* Reading a string only fails more often than taking its bytes.
LEMMA StringIs ==
    ASSUME NEW r PROVE ReadString(r) = StringText(r) \/ ReadString(r) = Failed(StringText(r))
<1> DEFINE t == StringText(r)
<1>1. ReadString(r) = IF t.ok /\ ~ValidUtf8(t.out) THEN Failed(t) ELSE t
  BY Zenon DEF ReadString, StringText, Failed
<1> HIDE DEF t
<1>2. ReadString(r) = t \/ ReadString(r) = Failed(t)
  BY <1>1
<1> QED
  BY <1>2 DEF t

\* It leaves a reader a reader, and one that has failed failed.
LEMMA StringTyped ==
    ASSUME NEW b, b \in Seq(SixbByte), NEW r \in Readers(b)
    PROVE  ReadString(r) \in Readers(b) /\ (ReadString(r).ok => r.ok)
<1> DEFINE l == Take(r, 1)
           t == StringText(r)
<1>1. l \in Readers(b) /\ (l.ok => r.ok)
  BY TakeTyped
<1>2. t \in Readers(b) /\ (t.ok => l.ok)
  <2> DEFINE n == Number(l)
  <2>1. n \in Nat
    BY NumberReads
  <2>2. t = Take(l, n)
    BY DEF StringText
  <2> HIDE DEF l, n, t
  <2> QED
    BY <1>1, <2>1, <2>2, TakeTyped
<1> HIDE DEF l, t
<1>3. Failed(t) \in Readers(b) /\ ~Failed(t).ok
  <2>1. 1 \in Nat
    OBVIOUS
  <2> QED
    BY <1>2, <2>1, TakenIs
<1>4. ReadString(r) = t \/ ReadString(r) = Failed(t)
  BY StringIs DEF t
<1> QED
  BY <1>1, <1>2, <1>3, <1>4

\* The bytes of a string.
LEMMA StringBytes ==
    ASSUME NEW s \in Seq(Text), Len(Utf8(s)) \in Numbers
    PROVE  /\ SixbString(s) \in Seq(SixbByte) /\ Len(SixbString(s)) = 1 + Len(Utf8(s))
           /\ SixbString(s) = <<NumberByte[Len(Utf8(s))]>> \o Utf8(s)
           /\ Utf8(s) \in Seq(SixbByte) /\ <<NumberByte[Len(Utf8(s))]>> \in Seq(SixbByte)
<1> DEFINE u == Utf8(s)
           y == NumberByte[Len(u)]
           x == <<y>>
<1>1. u \in Seq(Coded(Text))
  <2>1. <<>> \in Seq(Text)
    OBVIOUS
  <2> QED
    BY <2>1, Utf8Parts
<1>2. u \in Seq(SixbByte)
  BY <1>1 DEF SixbByte
<1>3. y \in SixbByte
  BY NumberBack DEF SixbByte, Coded, Text
<1>4. x \in Seq(SixbByte) /\ Len(x) = 1
  <2> HIDE DEF y
  <2> QED
    BY <1>3
<1>5. SixbString(s) = x \o u
  BY DEF SixbString
<1> HIDE DEF u, x
<1>6. x \o u \in Seq(SixbByte) /\ Len(x \o u) = Len(x) + Len(u)
  BY <1>2, <1>4, CatIs
<1> QED
  BY <1>2, <1>4, <1>5, <1>6 DEF u, x

\* A string is read back.
LEMMA StringReads ==
    ASSUME NEW b, b \in Seq(SixbByte), NEW r, NEW k \in Nat, Reads(r, b, k),
           NEW s \in Seq(Text), Len(Utf8(s)) \in Numbers, Part(b, k, SixbString(s))
    PROVE  /\ Reads(ReadString(r), b, k + Len(SixbString(s)))
           /\ ReadString(r).ok => r.ok /\ Chars(ReadString(r).out) = s
<1> DEFINE u == Utf8(s)
           n == Len(u)
           x == <<NumberByte[n]>>
           l == Take(r, 1)
           t == StringText(r)
           j == k + 1
<1>1. /\ SixbString(s) = x \o u /\ u \in Seq(SixbByte) /\ x \in Seq(SixbByte)
      /\ Len(SixbString(s)) = 1 + n
  BY StringBytes
<1>2. Len(x) = 1 /\ n \in Numbers /\ n \in Nat /\ j \in Nat
  BY BoundsAssumption DEF Numbers
<1> HIDE DEF u, x, l, t, n
<1>3. Part(b, k, x) /\ Part(b, j, u)
  <2>1. Part(b, k, x \o u)
    BY <1>1
  <2> QED
    BY <1>1, <1>2, <2>1, PartParts
<1> HIDE DEF j
<1>4. Reads(l, b, j) /\ (l.ok => r.ok /\ l.out = x)
  <2>1. Reads(Take(r, 1), b, k + 1) /\ (Take(r, 1).ok => r.ok /\ Take(r, 1).out = x)
    <3> DEFINE m == 1
    <3>1. m = Len(x)
      BY <1>2
    <3> HIDE DEF m
    <3>2. Takes(Take(r, m), b, k + m, r, x)
      BY <1>1, <1>3, <3>1, TakeReads
    <3> QED
      BY <3>2 DEF m, Takes
  <2> QED
    BY <2>1 DEF l, j
<1>5. l \in Readers(b)
  BY <1>4 DEF Reads
<1>6. t = Take(l, Number(l)) /\ Number(l) \in Nat
  BY NumberReads DEF t, l, StringText
<1>7. t \in Readers(b) /\ (t.ok => l.ok)
  BY <1>5, <1>6, TakeTyped
<1>8. Reads(t, b, j + n) /\ (t.ok => r.ok /\ t.out = u)
  <2>1. CASE l.ok
    <3>1. Number(l) = n
      BY <1>2, <1>4, <2>1, NumberReads DEF x
    <3>2. Takes(Take(l, n), b, j + n, l, u)
      <4>1. n = Len(u) /\ j \in Nat
        BY <1>2 DEF n
      <4> QED
        BY <1>1, <1>3, <1>4, <4>1, TakeReads
    <3> QED
      BY <1>4, <1>6, <3>1, <3>2 DEF Takes
  <2>2. CASE ~l.ok
    <3>1. ~t.ok
      BY <1>7, <2>2
    <3> QED
      BY <1>7, <3>1 DEF Reads
  <2> QED
    BY <2>1, <2>2
<1>9. Failed(t) \in Readers(b) /\ ~Failed(t).ok
  <2>1. 1 \in Nat
    OBVIOUS
  <2> QED
    BY <1>7, <2>1, TakenIs
<1>10. ReadString(r) = t \/ ReadString(r) = Failed(t)
  BY StringIs DEF t
<1>11. j + n = k + Len(SixbString(s))
  BY <1>1, <1>2 DEF j
<1>12. Chars(u) = s
  BY CharsBack DEF u
<1>13. CASE ReadString(r) = t
  BY <1>8, <1>11, <1>12, <1>13
<1>14. CASE ReadString(r) = Failed(t)
  BY <1>9, <1>14 DEF Reads
<1> QED
  BY <1>10, <1>13, <1>14

\* A number is read back.
LEMMA NumberTaken ==
    ASSUME NEW b, b \in Seq(SixbByte), NEW r, NEW k \in Nat, Reads(r, b, k),
           NEW n \in Numbers, Part(b, k, <<NumberByte[n]>>)
    PROVE  Reads(Take(r, 1), b, k + 1) /\ (Take(r, 1).ok => r.ok /\ Number(Take(r, 1)) = n)
<1> DEFINE x == <<NumberByte[n]>>
           m == 1
<1>1. x \in Seq(SixbByte) /\ m = Len(x)
  <2> DEFINE y == NumberByte[n]
  <2>1. y \in SixbByte
    BY NumberBack DEF SixbByte, Coded, Text
  <2> HIDE DEF y
  <2> QED
    BY <2>1 DEF y
<1> HIDE DEF m
<1>2. Takes(Take(r, m), b, k + m, r, x)
  <2> HIDE DEF x
  <2>1. Part(b, k, x)
    BY DEF x
  <2> QED
    BY <1>1, <2>1, TakeReads
<1>3. Take(r, m).ok => Number(Take(r, m)) = n
  BY <1>2, NumberReads DEF Takes
<1> QED
  BY <1>2, <1>3 DEF m, Takes

\* Three bytes are one after the other.
LEMMA PartThree ==
    ASSUME NEW b, NEW k \in Nat, NEW x, NEW y, NEW z, Part(b, k, <<x, y, z>>)
    PROVE  Part(b, k, <<x>>) /\ Part(b, k + 1, <<y>>) /\ Part(b, (k + 1) + 1, <<z>>)
<1> DEFINE s == <<x, y, z>>
<1>1. Len(s) = 3 /\ s[1] = x /\ s[2] = y /\ s[3] = z
  OBVIOUS
<1>2. \A i \in 1..3 : k + i <= Len(b) => b[k + i] = s[i]
  BY <1>1 DEF Part
<1> HIDE DEF s
<1>3. (k + 1 <= Len(b) => b[k + 1] = x) /\ (k + 2 <= Len(b) => b[k + 2] = y) /\ (k + 3 <= Len(b) => b[k + 3] = z)
  BY <1>1, <1>2
<1>4. (k + 1) + 1 = k + 2 /\ ((k + 1) + 1) + 1 = k + 3
  OBVIOUS
<1>5. \A v : Len(<<v>>) = 1 /\ <<v>>[1] = v
  OBVIOUS
<1>6. Part(b, k, <<x>>)
  BY <1>3, <1>5 DEF Part
<1>7. Part(b, k + 1, <<y>>)
  BY <1>3, <1>4, <1>5 DEF Part
<1>8. Part(b, (k + 1) + 1, <<z>>)
  BY <1>3, <1>4, <1>5 DEF Part
<1> QED
  BY <1>6, <1>7, <1>8

\* What an entry of an index is made of, and that its numbers fit.
Fits(s) == s \in Seq(Text) /\ Len(Utf8(s)) \in Numbers
RowFits(row) ==
    /\ row = [id |-> row.id, offset |-> row.offset, len |-> row.len, tx |-> row.tx]
    /\ Fits(row.id) /\ row.offset \in Numbers /\ row.len \in Numbers /\ row.tx \in Numbers
LookupFits(lookup) ==
    lookup = [key |-> lookup.key, id |-> lookup.id] /\ Fits(lookup.key) /\ Fits(lookup.id)

AtOf(r, kind) == IF kind = "row" THEN RowAt(r) ELSE LookupAt(r)

\* The reader a behind the bytes up to k has read the entry e from the reader r.
ReadsTo(r, b, k, a, kind, e) == Reads(a, b, k) /\ (a.ok => r.ok /\ AtOf(r, kind) = e)
ReadsEntry(b, kind, x, e) ==
    \A r, k : k \in Nat /\ Reads(r, b, k) /\ Part(b, k, x) =>
                  ReadsTo(r, b, k + Len(x), AfterEntry(r, kind), kind, e)

\* The readers of a row and of a lookup.
LEMMA AfterIs ==
    ASSUME NEW r
    PROVE  /\ AfterEntry(r, "row") = Take(Take(Take(ReadString(r), 1), 1), 1)
           /\ AtOf(r, "row") = [id |-> Chars(ReadString(r).out), offset |-> Number(Take(ReadString(r), 1)),
                  len |-> Number(Take(Take(ReadString(r), 1), 1)),
                  tx |-> Number(Take(Take(Take(ReadString(r), 1), 1), 1))]
           /\ AfterEntry(r, "lookup") = ReadString(ReadString(r))
           /\ AtOf(r, "lookup") = [key |-> Chars(ReadString(r).out), id |-> Chars(ReadString(ReadString(r)).out)]
<1> DEFINE s == ReadString(r)
           o == Take(s, 1)
           l == Take(o, 1)
           t == Take(l, 1)
           v == ReadString(s)
<1>1. RowFields(r) = <<s, o, l, t>> /\ LookupFields(r) = <<s, v>>
  BY DEF RowFields, LookupFields
<1> HIDE DEF s, o, l, t, v
<1>2. /\ RowFields(r)[1] = s /\ RowFields(r)[2] = o /\ RowFields(r)[3] = l /\ RowFields(r)[4] = t
      /\ LookupFields(r)[1] = s /\ LookupFields(r)[2] = v
  BY <1>1
<1>3. AfterEntry(r, "row") = t /\ AfterEntry(r, "lookup") = v
  BY <1>2 DEF AfterEntry
<1>4. RowAt(r) = [id |-> Chars(s.out), offset |-> Number(o), len |-> Number(l), tx |-> Number(t)]
  BY <1>2 DEF RowAt
<1>5. LookupAt(r) = [key |-> Chars(s.out), id |-> Chars(v.out)]
  BY <1>2 DEF LookupAt
<1> QED
  BY <1>3, <1>4, <1>5 DEF AtOf, s, o, l, t, v

\* An entry read leaves a reader a reader, and one that has failed failed.
LEMMA AfterTyped ==
    ASSUME NEW b, b \in Seq(SixbByte), NEW r \in Readers(b), NEW kind \in {"row", "lookup"}
    PROVE  AfterEntry(r, kind) \in Readers(b) /\ (AfterEntry(r, kind).ok => r.ok)
<1> DEFINE s == ReadString(r)
           o == Take(s, 1)
           l == Take(o, 1)
           t == Take(l, 1)
           v == ReadString(s)
<1>1. 1 \in Nat
  OBVIOUS
<1>2. s \in Readers(b) /\ (s.ok => r.ok)
  BY StringTyped
<1>3. AfterEntry(r, "row") = t /\ AfterEntry(r, "lookup") = v
  BY AfterIs
<1> HIDE DEF s, t, v
<1>4. o \in Readers(b) /\ (o.ok => s.ok)
  BY <1>1, <1>2, TakeTyped
<1> HIDE DEF o
<1>5. l \in Readers(b) /\ (l.ok => o.ok)
  BY <1>1, <1>4, TakeTyped
<1> HIDE DEF l
<1>6. t \in Readers(b) /\ (t.ok => l.ok)
  BY <1>1, <1>5, TakeTyped DEF t
<1>7. v \in Readers(b) /\ (v.ok => s.ok)
  BY <1>2, StringTyped DEF v
<1> QED
  BY <1>2, <1>3, <1>4, <1>5, <1>6, <1>7

\* The bytes of a row and of a lookup are read as this row and this lookup.
LEMMA RowReads ==
    ASSUME NEW b, b \in Seq(SixbByte), NEW row, RowFits(row)
    PROVE  RowBytes(row) \in Seq(SixbByte) /\ ReadsEntry(b, "row", RowBytes(row), row)
<1> DEFINE x == SixbString(row.id)
           z == <<NumberByte[row.offset], NumberByte[row.len], NumberByte[row.tx]>>
           m == Len(x)
<1>1. Fits(row.id) /\ row.offset \in Numbers /\ row.len \in Numbers /\ row.tx \in Numbers
  BY DEF RowFits
<1>2. x \in Seq(SixbByte)
  BY <1>1, StringBytes DEF Fits
<1>3. z \in Seq(SixbByte) /\ Len(z) = 3
  <2> DEFINE d == NumberByte[row.offset]
             e == NumberByte[row.len]
             f == NumberByte[row.tx]
  <2>1. d \in SixbByte /\ e \in SixbByte /\ f \in SixbByte
    BY <1>1, NumberBack DEF SixbByte, Coded, Text
  <2> HIDE DEF d, e, f
  <2>2. <<d, e, f>> \in Seq(SixbByte) /\ Len(<<d, e, f>>) = 3
    BY <2>1
  <2> QED
    BY <2>2 DEF d, e, f
<1>4. RowBytes(row) = x \o z
  BY DEF RowBytes
<1> HIDE DEF x, z
<1>5. x \o z \in Seq(SixbByte) /\ Len(x \o z) = m + 3 /\ m \in Nat
  <2>1. x \in Seq(SixbByte) /\ z \in Seq(SixbByte)
    BY <1>2, <1>3
  <2>2. x \o z \in Seq(SixbByte) /\ Len(x \o z) = Len(x) + Len(z) /\ Len(x) \in Nat
    BY <2>1, CatIs
  <2> QED
    BY <1>3, <2>2
<1> HIDE DEF m
<1>6. ASSUME NEW r, NEW k \in Nat, Reads(r, b, k), Part(b, k, x \o z)
      PROVE  ReadsTo(r, b, k + (m + 3), AfterEntry(r, "row"), "row", row)
  <2> DEFINE s == ReadString(r)
             o == Take(s, 1)
             l == Take(o, 1)
             t == Take(l, 1)
             j == k + m
  <2>1. Part(b, k, x) /\ Part(b, j, z) /\ j \in Nat
    BY <1>2, <1>3, <1>5, <1>6, PartParts DEF m
  <2>2. Reads(s, b, j) /\ (s.ok => r.ok /\ Chars(s.out) = row.id)
    BY <1>1, <1>6, <2>1, StringReads DEF x, m, Fits
  <2> HIDE DEF s, j
  <2>3. /\ Part(b, j, <<NumberByte[row.offset]>>) /\ Part(b, j + 1, <<NumberByte[row.len]>>)
        /\ Part(b, (j + 1) + 1, <<NumberByte[row.tx]>>)
    BY <2>1, PartThree DEF z
  <2>4. Reads(o, b, j + 1) /\ (o.ok => s.ok /\ Number(o) = row.offset)
    BY <1>1, <2>1, <2>2, <2>3, NumberTaken
  <2> HIDE DEF o
  <2> DEFINE j1 == j + 1
             j2 == j1 + 1
  <2>5. j1 \in Nat /\ j2 \in Nat /\ j2 + 1 = k + (m + 3)
    BY <1>5, <2>1 DEF j
  <2> HIDE DEF j1
  <2>6. Reads(l, b, j1 + 1) /\ (l.ok => o.ok /\ Number(l) = row.len)
    <3>1. Reads(o, b, j1) /\ Part(b, j1, <<NumberByte[row.len]>>)
      BY <2>3, <2>4 DEF j1
    <3> QED
      BY <1>1, <2>5, <3>1, NumberTaken
  <2> HIDE DEF l, j2
  <2>7. Reads(t, b, j2 + 1) /\ (t.ok => l.ok /\ Number(t) = row.tx)
    <3>1. Reads(l, b, j2) /\ Part(b, j2, <<NumberByte[row.tx]>>)
      BY <2>3, <2>6 DEF j1, j2
    <3> QED
      BY <1>1, <2>5, <3>1, NumberTaken
  <2> HIDE DEF t
  <2>8. /\ AfterEntry(r, "row") = t
        /\ AtOf(r, "row") = [id |-> Chars(s.out), offset |-> Number(o), len |-> Number(l), tx |-> Number(t)]
    BY AfterIs DEF s, o, l, t
  <2>9. row = [id |-> row.id, offset |-> row.offset, len |-> row.len, tx |-> row.tx]
    BY DEF RowFits
  <2>10. t.ok => r.ok /\ AtOf(r, "row") = row
    BY <2>2, <2>4, <2>6, <2>7, <2>8, <2>9
  <2> QED
    BY <2>5, <2>7, <2>8, <2>10 DEF ReadsTo
<1> DEFINE w == x \o z
<1>7. ASSUME NEW r, NEW k, k \in Nat /\ Reads(r, b, k) /\ Part(b, k, w)
      PROVE  ReadsTo(r, b, k + Len(w), AfterEntry(r, "row"), "row", row)
  BY <1>5, <1>6, <1>7
<1>8. ReadsEntry(b, "row", w, row)
  <2> HIDE DEF w
  <2> QED
    BY <1>7 DEF ReadsEntry
<1> QED
  BY <1>4, <1>5, <1>8

\* The bytes of a lookup entry are read back as that entry.
LEMMA LookupReads ==
    ASSUME NEW b, b \in Seq(SixbByte), NEW lookup, LookupFits(lookup)
    PROVE  LookupBytes(lookup) \in Seq(SixbByte) /\ ReadsEntry(b, "lookup", LookupBytes(lookup), lookup)
<1> DEFINE x == SixbString(lookup.key)
           z == SixbString(lookup.id)
           m == Len(x)
           n == Len(z)
<1>1. Fits(lookup.key) /\ Fits(lookup.id)
  BY DEF LookupFits
<1>2. x \in Seq(SixbByte) /\ z \in Seq(SixbByte)
  BY <1>1, StringBytes DEF Fits
<1>3. LookupBytes(lookup) = x \o z
  BY DEF LookupBytes
<1> HIDE DEF x, z
<1>4. x \o z \in Seq(SixbByte) /\ Len(x \o z) = m + n /\ m \in Nat /\ n \in Nat
  BY <1>2, CatIs
<1> HIDE DEF m, n
<1>5. ASSUME NEW r, NEW k \in Nat, Reads(r, b, k), Part(b, k, x \o z)
      PROVE  ReadsTo(r, b, k + (m + n), AfterEntry(r, "lookup"), "lookup", lookup)
  <2> DEFINE s == ReadString(r)
             v == ReadString(s)
             j == k + m
  <2>1. Part(b, k, x) /\ Part(b, j, z) /\ j \in Nat
    BY <1>2, <1>4, <1>5, PartParts DEF m
  <2>2. Reads(s, b, j) /\ (s.ok => r.ok /\ Chars(s.out) = lookup.key)
    BY <1>1, <1>5, <2>1, StringReads DEF x, m, Fits
  <2> HIDE DEF s, j
  <2>3. Reads(v, b, j + n) /\ (v.ok => s.ok /\ Chars(v.out) = lookup.id)
    BY <1>1, <2>1, <2>2, StringReads DEF z, n, Fits
  <2>4. j + n = k + (m + n)
    BY <1>4 DEF j
  <2> HIDE DEF v
  <2>5. AfterEntry(r, "lookup") = v /\ AtOf(r, "lookup") = [key |-> Chars(s.out), id |-> Chars(v.out)]
    BY AfterIs DEF s, v
  <2>6. lookup = [key |-> lookup.key, id |-> lookup.id]
    BY DEF LookupFits
  <2>7. v.ok => r.ok /\ AtOf(r, "lookup") = lookup
    BY <2>2, <2>3, <2>5, <2>6
  <2> QED
    BY <2>3, <2>4, <2>5, <2>7 DEF ReadsTo
<1> DEFINE w == x \o z
<1>6. ASSUME NEW r, NEW k, k \in Nat /\ Reads(r, b, k) /\ Part(b, k, w)
      PROVE  ReadsTo(r, b, k + Len(w), AfterEntry(r, "lookup"), "lookup", lookup)
  BY <1>4, <1>5, <1>6
<1>7. ReadsEntry(b, "lookup", w, lookup)
  <2> HIDE DEF w
  <2> QED
    BY <1>6 DEF ReadsEntry
<1> QED
  BY <1>3, <1>4, <1>7

\* The readers before and after each entry.
LEMMA EntriesIs ==
    ASSUME NEW b, b \in Seq(SixbByte), NEW r \in Readers(b), NEW kind \in {"row", "lookup"}
    PROVE  \E f \in [0..Number(r) -> Readers(b)] :
             /\ f[0] = r /\ (\A k \in 1..Number(r) : f[k] = AfterEntry(f[k - 1], kind))
             /\ Entries(r, kind) = f /\ AfterLast(r, kind) = f[Number(r)]
<1> DEFINE n == Number(r)
           S == Readers(b)
           step == [k \in Nat |-> [a \in S |-> AfterEntry(a, kind)]]
           after[k \in 0..n] == IF k = 0 THEN r ELSE AfterEntry(after[k - 1], kind)
           Run(f) == f = [k \in 0..n |-> IF k = 0 THEN r ELSE AfterEntry(f[k - 1], kind)]
<1>1. n \in Nat
  BY NumberReads
<1>2. step \in [Nat -> [S -> S]]
  BY AfterTyped
<1> HIDE DEF n, S
<1>3. PICK f : Follows(f, S, r, step, n)
  <2>1. r \in S
    BY DEF S
  <2> HIDE DEF step
  <2> QED
    BY <1>1, <1>2, <2>1, Recursion
<1>4. f \in [0..n -> S] /\ f[0] = r /\ \A k \in 1..n : f[k] = AfterEntry(f[k - 1], kind)
  <2>1. f \in [0..n -> S] /\ f[0] = r /\ \A k \in 1..n : f[k] = step[k][f[k - 1]]
    BY <1>3 DEF Follows
  <2>2. \A k \in 1..n : k \in Nat /\ k - 1 \in 0..n
    BY <1>1
  <2> QED
    BY <2>1, <2>2
<1> HIDE DEF step
<1>5. Run(f)
  <2> DEFINE g == [k \in 0..n |-> IF k = 0 THEN r ELSE AfterEntry(f[k - 1], kind)]
  <2>1. \A k \in 0..n : k # 0 => k \in 1..n
    BY <1>1
  <2>2. \A k \in 0..n : f[k] = g[k]
    BY <1>4, <2>1
  <2>3. f = g
    BY <1>4, <2>2
  <2> QED
    BY <2>3
<1>6. after = CHOOSE g : Run(g)
  OBVIOUS
<1> HIDE DEF after
<1>7. Run(after)
  BY <1>5, <1>6
<1> HIDE DEF Run
<1>8. after[0] = r /\ \A k \in 1..n : after[k] = AfterEntry(after[k - 1], kind)
  <2>1. 0 \in 0..n /\ \A k \in 1..n : k \in 0..n /\ k # 0
    BY <1>1
  <2> QED
    BY <1>7, <2>1 DEF Run
<1>9. \A k \in 0..n : after[k] = f[k]
  <2>1. StepAlike(after, f, n)
    BY <1>4, <1>8 DEF StepAlike
  <2> QED
    BY <1>1, <2>1, Alike
<1>10. after = f
  <2>1. after = [k \in 0..n |-> after[k]]
    BY <1>7 DEF Run
  <2> QED
    BY <1>4, <1>9, <2>1
<1>11. Entries(r, kind) = after
  BY DEF Entries, after, n
<1> QED
  BY <1>4, <1>10, <1>11 DEF n, S, AfterLast

\* Reading entries leaves a reader a reader, and one that has failed failed.
LEMMA EntriesTyped ==
    ASSUME NEW b, b \in Seq(SixbByte), NEW r \in Readers(b), NEW kind \in {"row", "lookup"}
    PROVE  AfterLast(r, kind) \in Readers(b) /\ (AfterLast(r, kind).ok => r.ok)
<1> DEFINE n == Number(r)
<1>1. n \in Nat
  BY NumberReads
<1>2. PICK f \in [0..n -> Readers(b)] :
        /\ f[0] = r /\ (\A k \in 1..n : f[k] = AfterEntry(f[k - 1], kind))
        /\ Entries(r, kind) = f /\ AfterLast(r, kind) = f[n]
  BY EntriesIs
<1> HIDE DEF n
<1> DEFINE Good == {k \in 0..n : f[k].ok => r.ok}
<1>3. 0..n \subseteq Good
  <2>1. 0 \in Good
    BY <1>1, <1>2
  <2>2. ASSUME NEW k \in 0..n, k \in Good, k < n PROVE k + 1 \in Good
    <3> DEFINE m == k + 1
    <3>1. m \in 1..n /\ m - 1 = k /\ m \in 0..n
      BY <1>1, <2>2
    <3> HIDE DEF m
    <3>2. f[m] = AfterEntry(f[k], kind)
      BY <1>2, <3>1
    <3>3. f[m].ok => f[k].ok
      <4>1. f[k] \in Readers(b)
        BY <1>2
      <4> QED
        BY <3>2, <4>1, AfterTyped
    <3> QED
      BY <2>2, <3>1, <3>3 DEF m
  <2> HIDE DEF Good
  <2> QED
    BY <1>1, <2>1, <2>2, UpwardsTo
<1>4. n \in 0..n
  BY <1>1
<1>5. f[n].ok => r.ok
  BY <1>3, <1>4
<1> QED
  BY <1>2, <1>4, <1>5

\* The readers f read the first i of the entries es, of which c holds the bytes.
ReadsUpTo(f, c, es, b, k, kind, i) ==
    Part(b, k, c[i]) =>
      /\ Reads(f[i], b, k + Len(c[i]))
      /\ f[i].ok => f[0].ok /\ \A j \in 1..i : AtOf(f[j - 1], kind) = es[j]

\* One entry more.
LEMMA ReadsMore ==
    ASSUME NEW f, NEW c, NEW es, NEW b, NEW k \in Nat, NEW kind, NEW i \in Nat, NEW x,
           c[i] \in Seq(SixbByte), x \in Seq(SixbByte), c[i + 1] = c[i] \o x,
           f[i + 1] = AfterEntry(f[i], kind), ReadsEntry(b, kind, x, es[i + 1]),
           ReadsUpTo(f, c, es, b, k, kind, i)
    PROVE  ReadsUpTo(f, c, es, b, k, kind, i + 1)
<1> DEFINE m == i + 1
           a == c[i]
           l == k + Len(a)
<1> SUFFICES ASSUME Part(b, k, c[m])
             PROVE  /\ Reads(f[m], b, k + Len(c[m]))
                    /\ f[m].ok => f[0].ok /\ \A j \in 1..m : AtOf(f[j - 1], kind) = es[j]
  BY DEF ReadsUpTo
<1>1. c[m] = a \o x /\ a \in Seq(SixbByte)
  OBVIOUS
<1>2. f[m] = AfterEntry(f[i], kind) /\ ReadsEntry(b, kind, x, es[m])
  OBVIOUS
<1>3. m \in Nat /\ m - 1 = i /\ \A j \in 1..m : j = m \/ j \in 1..i
  OBVIOUS
<1> HIDE DEF m, a
<1>4. Part(b, k, a) /\ Part(b, l, x)
  <2>1. Part(b, k, a \o x)
    BY <1>1
  <2> QED
    BY <1>1, <2>1, PartParts
<1>5. Len(c[m]) = Len(a) + Len(x) /\ Len(a) \in Nat /\ Len(x) \in Nat
  BY <1>1, CatIs
<1>6. l \in Nat /\ l + Len(x) = k + Len(c[m])
  BY <1>5
<1> HIDE DEF l
<1>7. Reads(f[i], b, l) /\ (f[i].ok => f[0].ok /\ \A j \in 1..i : AtOf(f[j - 1], kind) = es[j])
  BY <1>4 DEF ReadsUpTo, a, l
<1>8. ReadsTo(f[i], b, l + Len(x), f[m], kind, es[m])
  BY <1>2, <1>4, <1>6, <1>7 DEF ReadsEntry
<1>9. Reads(f[m], b, l + Len(x)) /\ (f[m].ok => f[i].ok /\ AtOf(f[i], kind) = es[m])
  BY <1>8 DEF ReadsTo
<1>10. ASSUME f[m].ok PROVE f[0].ok /\ \A j \in 1..m : AtOf(f[j - 1], kind) = es[j]
  <2>1. f[0].ok /\ \A j \in 1..i : AtOf(f[j - 1], kind) = es[j]
    BY <1>7, <1>9, <1>10
  <2>2. AtOf(f[m - 1], kind) = es[m]
    BY <1>3, <1>9, <1>10
  <2> QED
    BY <1>3, <2>1, <2>2
<1> QED
  BY <1>6, <1>9, <1>10

\* In b, behind its first k bytes, come the bytes bss of the entries es, and r has
\* read how many; all of them are read.
EntriesCome(b, r, k, kind, bss, es) ==
    /\ k \in Nat /\ Reads(r, b, k) /\ kind \in {"row", "lookup"} /\ bss \in Seq(Seq(SixbByte))
    /\ (r.ok => Number(r) = Len(bss)) /\ Part(b, k, Concat(bss))
    /\ \A i \in 1..Len(bss) : ReadsEntry(b, kind, bss[i], es[i])
EntriesReadAs(b, r, k, kind, bss, es) ==
    /\ Reads(AfterLast(r, kind), b, k + Len(Concat(bss)))
    /\ AfterLast(r, kind).ok =>
         r.ok /\ \A i \in 1..Len(bss) : AtOf(Entries(r, kind)[i - 1], kind) = es[i]

\* The bytes of entries are read as these entries.
LEMMA EntriesReadTo ==
    ASSUME NEW b, b \in Seq(SixbByte), NEW r, NEW k, NEW kind, NEW bss, NEW es,
           EntriesCome(b, r, k, kind, bss, es)
    PROVE  EntriesReadAs(b, r, k, kind, bss, es)
<1>0. /\ k \in Nat /\ Reads(r, b, k) /\ kind \in {"row", "lookup"} /\ bss \in Seq(Seq(SixbByte))
      /\ (r.ok => Number(r) = Len(bss)) /\ Part(b, k, Concat(bss))
      /\ \A i \in 1..Len(bss) : ReadsEntry(b, kind, bss[i], es[i])
  BY DEF EntriesCome
<1> DEFINE n == Len(bss)
           a == AfterLast(r, kind)
<1>1. r \in Readers(b) /\ n \in Nat
  BY <1>0 DEF Reads
<1>2. a \in Readers(b) /\ (a.ok => r.ok)
  BY <1>0, <1>1, EntriesTyped
<1>3. CASE ~r.ok
  BY <1>2, <1>3 DEF Reads, EntriesReadAs
<1>4. CASE r.ok
  <2>1. Number(r) = n
    BY <1>0, <1>4
  <2>2. PICK f \in [0..n -> Readers(b)] :
          /\ f[0] = r /\ (\A j \in 1..n : f[j] = AfterEntry(f[j - 1], kind))
          /\ Entries(r, kind) = f /\ a = f[n]
    BY <1>0, <1>1, <2>1, EntriesIs
  <2>3. PICK c \in [0..n -> Seq(SixbByte)] :
          c[0] = <<>> /\ (\A j \in 1..n : c[j] = c[j - 1] \o bss[j]) /\ Concat(bss) = c[n]
    BY <1>0, ConcatIs
  <2>4. \A i \in 1..n : ReadsEntry(b, kind, bss[i], es[i]) /\ bss[i] \in Seq(SixbByte)
    BY <1>0
  <2> HIDE DEF n, a
  <2> DEFINE Good == {i \in 0..n : ReadsUpTo(f, c, es, b, k, kind, i)}
  <2>5. 0 \in Good
    <3>1. Len(c[0]) = 0 /\ k + 0 = k /\ 1..0 = {}
      BY <1>0, <2>3
    <3>2. Reads(f[0], b, k + Len(c[0]))
      BY <1>0, <2>2, <3>1
    <3>3. ReadsUpTo(f, c, es, b, k, kind, 0)
      BY <3>1, <3>2 DEF ReadsUpTo
    <3> QED
      BY <1>1, <3>3
  <2>6. ASSUME NEW i \in 0..n, i \in Good, i < n PROVE i + 1 \in Good
    <3> DEFINE m == i + 1
    <3>1. m \in 1..n /\ m \in 0..n /\ m - 1 = i /\ i \in Nat
      BY <1>1, <2>6
    <3>2. c[m] = c[i] \o bss[m] /\ f[m] = AfterEntry(f[i], kind) /\ c[i] \in Seq(SixbByte)
      BY <2>2, <2>3, <3>1
    <3>3. ReadsEntry(b, kind, bss[m], es[m]) /\ bss[m] \in Seq(SixbByte)
      BY <2>4, <3>1
    <3>4. ReadsUpTo(f, c, es, b, k, kind, i)
      BY <2>6
    <3>5. ReadsUpTo(f, c, es, b, k, kind, i + 1)
      <4> DEFINE x == bss[m]
      <4>1. x \in Seq(SixbByte) /\ c[i + 1] = c[i] \o x /\ ReadsEntry(b, kind, x, es[i + 1])
        BY <3>2, <3>3
      <4>2. f[i + 1] = AfterEntry(f[i], kind)
        BY <3>2
      <4> HIDE DEF x, m
      <4> QED
        BY <1>0, <3>1, <3>2, <3>4, <4>1, <4>2, ReadsMore
    <3> QED
      BY <3>1, <3>5
  <2>7. n \in Good
    <3> HIDE DEF Good
    <3>1. 0..n \subseteq Good
      BY <1>1, <2>5, <2>6, UpwardsTo
    <3> QED
      BY <1>1, <3>1
  <2>8. Part(b, k, c[n])
    BY <1>0, <2>3
  <2>9. Reads(f[n], b, k + Len(c[n])) /\ (f[n].ok => f[0].ok /\ \A j \in 1..n : AtOf(f[j - 1], kind) = es[j])
    BY <2>7, <2>8 DEF ReadsUpTo
  <2> QED
    BY <2>2, <2>3, <2>9 DEF n, a, EntriesReadAs
<1> QED
  BY <1>3, <1>4

\* Four bytes at the start.
LEMMA PartFour ==
    ASSUME NEW b, NEW w, NEW x, NEW y, NEW z, Part(b, 0, <<w, x, y, z>>)
    PROVE  Part(b, 0, <<w>>) /\ Part(b, 1, <<x>>) /\ Part(b, 2, <<y>>) /\ Part(b, 3, <<z>>)
<1> DEFINE s == <<w, x, y, z>>
<1>1. Len(s) = 4 /\ s[1] = w /\ s[2] = x /\ s[3] = y /\ s[4] = z
  OBVIOUS
<1>2. \A i \in 1..4 : 0 + i <= Len(b) => b[0 + i] = s[i]
  BY <1>1 DEF Part
<1> HIDE DEF s
<1>3. \A i \in 1..4 : i <= Len(b) => b[i] = s[i]
  <2>1. \A i \in 1..4 : 0 + i = i
    OBVIOUS
  <2> QED
    BY <1>2, <2>1
<1>4. (1 <= Len(b) => b[1] = w) /\ (2 <= Len(b) => b[2] = x) /\ (3 <= Len(b) => b[3] = y) /\ (4 <= Len(b) => b[4] = z)
  BY <1>1, <1>3
<1>5. \A v : Len(<<v>>) = 1 /\ <<v>>[1] = v
  OBVIOUS
<1>6. 0 + 1 = 1 /\ 1 + 1 = 2 /\ 2 + 1 = 3 /\ 3 + 1 = 4 /\ \A i \in 1..1 : i = 1
  OBVIOUS
<1>7. Part(b, 0, <<w>>)
  BY <1>4, <1>5, <1>6 DEF Part
<1>8. Part(b, 1, <<x>>)
  BY <1>4, <1>5, <1>6 DEF Part
<1>9. Part(b, 2, <<y>>)
  BY <1>4, <1>5, <1>6 DEF Part
<1>10. Part(b, 3, <<z>>)
  BY <1>4, <1>5, <1>6 DEF Part
<1> QED
  BY <1>7, <1>8, <1>9, <1>10

\* One byte is taken.
LEMMA ByteTaken ==
    ASSUME NEW b, b \in Seq(SixbByte), NEW r, NEW k \in Nat, Reads(r, b, k), NEW y \in SixbByte, Part(b, k, <<y>>)
    PROVE  Reads(Take(r, 1), b, k + 1)
<1> DEFINE x == <<y>>
           m == 1
<1>1. x \in Seq(SixbByte) /\ m = Len(x)
  OBVIOUS
<1> HIDE DEF m
<1>2. Takes(Take(r, m), b, k + m, r, x)
  <2> HIDE DEF x
  <2>1. Part(b, k, x)
    BY DEF x
  <2> QED
    BY <1>1, <2>1, TakeReads
<1> QED
  BY <1>2 DEF m, Takes

\* The readers behind the source, the number of rows, that of lookups, and all of them.
SourceReader(b) == Take(Take(Take(Reader(b), 1), 1), 1)
RowsReader(b) == Take(SourceReader(b), 1)
KeysReader(b) == Take(AfterLast(RowsReader(b), "row"), 1)
EndReader(b) == AfterLast(KeysReader(b), "lookup")

\* An index that decodes was read without an error.
LEMMA DecodeIs ==
    ASSUME NEW b, decode_sixb_cache(b) # NoIndex
    PROVE  /\ EndReader(b).ok
           /\ decode_sixb_cache(b) = [source |-> Number(SourceReader(b)), rows |-> RowsFrom(RowsReader(b)),
                                      lookups |-> LookupsFrom(KeysReader(b))]
<1> DEFINE e == EndReader(b)
           c == [source |-> Number(SourceReader(b)), rows |-> RowsFrom(RowsReader(b)),
                 lookups |-> LookupsFrom(KeysReader(b))]
<1>1. decode_sixb_cache(b) = IF ~e.ok \/ e.offset # Len(b) THEN NoIndex ELSE c
  BY Zenon DEF decode_sixb_cache, SourceReader, RowsReader, KeysReader, EndReader
<1> HIDE DEF e, c
<1>2. e.ok /\ decode_sixb_cache(b) = c
  BY <1>1
<1> QED
  BY <1>2 DEF e, c

\* An index whose numbers fit, and the bytes of its rows and lookups.
CacheFits(c) ==
    /\ c = [source |-> c.source, rows |-> c.rows, lookups |-> c.lookups]
    /\ c.source \in Numbers /\ Len(c.rows) \in Numbers /\ Len(c.lookups) \in Numbers
    /\ c.rows = [i \in 1..Len(c.rows) |-> c.rows[i]] /\ \A i \in 1..Len(c.rows) : RowFits(c.rows[i])
    /\ c.lookups = [i \in 1..Len(c.lookups) |-> c.lookups[i]]
    /\ \A i \in 1..Len(c.lookups) : LookupFits(c.lookups[i])
RowParts(c) == [i \in DOMAIN c.rows |-> RowBytes(c.rows[i])]
LookupParts(c) == [i \in DOMAIN c.lookups |-> LookupBytes(c.lookups[i])]
IndexHead(c) == <<"SIXB", "2", NumberByte[c.source], NumberByte[Len(c.rows)]>>

\* The parts of an index file.
LEMMA PartsIs ==
    ASSUME NEW b, b \in Seq(SixbByte), NEW c, CacheFits(c)
    PROVE  /\ RowParts(c) \in Seq(Seq(SixbByte)) /\ Len(RowParts(c)) = Len(c.rows)
           /\ \A i \in 1..Len(c.rows) : ReadsEntry(b, "row", RowParts(c)[i], c.rows[i])
           /\ LookupParts(c) \in Seq(Seq(SixbByte)) /\ Len(LookupParts(c)) = Len(c.lookups)
           /\ \A i \in 1..Len(c.lookups) : ReadsEntry(b, "lookup", LookupParts(c)[i], c.lookups[i])
<1> DEFINE n == Len(c.rows)
           m == Len(c.lookups)
<1>1. n \in Nat /\ m \in Nat
  BY BoundsAssumption DEF CacheFits, Numbers
<1>2. DOMAIN c.rows = 1..n /\ DOMAIN c.lookups = 1..m
  BY DEF CacheFits
<1>3. /\ \A i \in 1..n : RowBytes(c.rows[i]) \in Seq(SixbByte) /\ ReadsEntry(b, "row", RowBytes(c.rows[i]), c.rows[i])
      /\ \A i \in 1..m : /\ LookupBytes(c.lookups[i]) \in Seq(SixbByte)
                         /\ ReadsEntry(b, "lookup", LookupBytes(c.lookups[i]), c.lookups[i])
  BY RowReads, LookupReads DEF CacheFits
<1> HIDE DEF n, m
<1> DEFINE S == Seq(SixbByte)
<1>4. RowParts(c) = [i \in 1..n |-> RowBytes(c.rows[i])] /\ LookupParts(c) = [i \in 1..m |-> LookupBytes(c.lookups[i])]
  BY <1>2 DEF RowParts, LookupParts
<1> HIDE DEF S
<1>5. RowParts(c) \in [1..n -> S] /\ LookupParts(c) \in [1..m -> S]
  BY <1>3, <1>4 DEF S
<1>6. RowParts(c) \in Seq(S) /\ Len(RowParts(c)) = n /\ LookupParts(c) \in Seq(S) /\ Len(LookupParts(c)) = m
  BY <1>1, <1>5
<1> QED
  BY <1>3, <1>4, <1>6 DEF n, m, S

\* As far as b reaches, the parts of the file of c are in it.
FileParts(b, c) ==
    /\ Part(b, 0, IndexHead(c)) /\ Part(b, 4, Concat(RowParts(c)))
    /\ Part(b, 4 + Len(Concat(RowParts(c))), <<NumberByte[Len(c.lookups)]>>)
    /\ Part(b, (4 + Len(Concat(RowParts(c)))) + 1, Concat(LookupParts(c)))
    /\ Len(Concat(RowParts(c))) \in Nat

\* The bytes of an index file.
LEMMA FileIs ==
    ASSUME NEW c, CacheFits(c)
    PROVE  /\ encode_sixb_cache(c) \in Seq(SixbByte)
           /\ \A b : Part(b, 0, encode_sixb_cache(c)) => FileParts(b, c)
<1> DEFINE h == IndexHead(c)
           x == Concat(RowParts(c))
           y == NumberByte[Len(c.lookups)]
           q == <<y>>
           z == Concat(LookupParts(c))
           B == SixbByte
<1>1. x \in Seq(B) /\ z \in Seq(B)
  <2>1. <<>> \in Seq(SixbByte)
    OBVIOUS
  <2>2. RowParts(c) \in Seq(Seq(SixbByte)) /\ LookupParts(c) \in Seq(Seq(SixbByte))
    BY <2>1, PartsIs
  <2> QED
    BY <2>2, ConcatTyped
<1>2. q \in Seq(B) /\ Len(q) = 1
  <2>1. y \in SixbByte
    BY NumberBack DEF CacheFits, SixbByte, Coded, Text
  <2> HIDE DEF y
  <2> QED
    BY <2>1
<1>3. h \in Seq(B) /\ Len(h) = 4
  <2> DEFINE d == NumberByte[c.source]
             e == NumberByte[Len(c.rows)]
  <2>1. d \in SixbByte /\ e \in SixbByte /\ "SIXB" \in SixbByte /\ "2" \in SixbByte
    BY NumberBack DEF CacheFits, SixbByte, Coded, Text
  <2>2. h = <<"SIXB", "2", d, e>>
    BY DEF IndexHead
  <2> HIDE DEF d, e
  <2> QED
    BY <2>1, <2>2
<1>4. encode_sixb_cache(c) = ((h \o x) \o q) \o z
  BY DEF encode_sixb_cache, IndexHead, RowParts, LookupParts
<1> HIDE DEF h, x, q, z, B
<1> DEFINE s == h \o x
<1>5. s \in Seq(B) /\ Len(s) = 4 + Len(x) /\ Len(x) \in Nat
  <2>1. s \in Seq(B) /\ Len(s) = Len(h) + Len(x) /\ Len(x) \in Nat
    BY <1>1, <1>3, CatIs
  <2> QED
    BY <1>3, <2>1
<1> HIDE DEF s
<1> DEFINE t == s \o q
<1>6. t \in Seq(B) /\ Len(t) = Len(s) + 1 /\ Len(s) \in Nat
  <2>1. t \in Seq(B) /\ Len(t) = Len(s) + Len(q) /\ Len(s) \in Nat
    BY <1>2, <1>5, CatIs
  <2> QED
    BY <1>2, <2>1
<1> HIDE DEF t
<1>7. encode_sixb_cache(c) = t \o z /\ t \o z \in Seq(B)
  <2>1. t \o z \in Seq(B)
    BY <1>1, <1>6, CatIs
  <2> QED
    BY <1>4, <2>1 DEF t, s
<1>8. ASSUME NEW b, Part(b, 0, t \o z) PROVE FileParts(b, c)
  <2>1. 0 \in Nat /\ 0 + Len(t) = (4 + Len(x)) + 1 /\ 0 + Len(s) = 4 + Len(x) /\ 0 + Len(h) = 4
    BY <1>3, <1>5, <1>6
  <2>2. Part(b, 0, t) /\ Part(b, 0 + Len(t), z)
    <3>1. 0 \in Nat
      OBVIOUS
    <3> QED
      BY <1>1, <1>6, <1>8, <3>1, PartParts
  <2>3. Part(b, 0, s) /\ Part(b, 0 + Len(s), q)
    <3>1. 0 \in Nat /\ Part(b, 0, s \o q)
      BY <2>2 DEF t
    <3> QED
      BY <1>2, <1>5, <3>1, PartParts
  <2>4. Part(b, 0, h) /\ Part(b, 0 + Len(h), x)
    <3>1. 0 \in Nat /\ Part(b, 0, h \o x)
      BY <2>3 DEF s
    <3> QED
      BY <1>1, <1>3, <3>1, PartParts
  <2> QED
    BY <1>5, <2>1, <2>2, <2>3, <2>4 DEF FileParts, h, x, q, z
<1> QED
  BY <1>7, <1>8 DEF B

\* Whatever of the file of c is left, what is decoded from it is c.
LEMMA DecodeReads ==
    ASSUME NEW b, b \in Seq(SixbByte), NEW c, CacheFits(c), Part(b, 0, encode_sixb_cache(c)),
           decode_sixb_cache(b) # NoIndex
    PROVE  decode_sixb_cache(b) = c
<1> DEFINE n == Len(c.rows)
           m == Len(c.lookups)
           x == Concat(RowParts(c))
           z == Concat(LookupParts(c))
           r0 == Reader(b)
           r1 == Take(r0, 1)
           r2 == Take(r1, 1)
           r3 == SourceReader(b)
           r4 == RowsReader(b)
           r5 == AfterLast(r4, "row")
           r6 == KeysReader(b)
           r7 == EndReader(b)
           k == 4 + Len(x)
<1>1. FileParts(b, c)
  BY FileIs
<1>2. /\ Part(b, 0, IndexHead(c)) /\ Part(b, 4, x) /\ Part(b, k, <<NumberByte[m]>>) /\ Part(b, k + 1, z)
      /\ Len(x) \in Nat
  BY <1>1 DEF FileParts
<1>3. /\ Part(b, 0, <<"SIXB">>) /\ Part(b, 1, <<"2">>) /\ Part(b, 2, <<NumberByte[c.source]>>)
      /\ Part(b, 3, <<NumberByte[n]>>)
  BY <1>2, PartFour DEF IndexHead
<1>4. c.source \in Numbers /\ n \in Numbers /\ m \in Numbers
  BY DEF CacheFits
<1>5. "SIXB" \in SixbByte /\ "2" \in SixbByte
  BY DEF SixbByte
<1>6. Reads(r0, b, 0)
  BY DEF Reads, Reader, Readers
<1>7. r3 = Take(r2, 1) /\ r4 = Take(r3, 1) /\ r6 = Take(r5, 1) /\ r7 = AfterLast(r6, "lookup")
  BY DEF SourceReader, RowsReader, KeysReader, EndReader
<1> HIDE DEF n, m, x, z, r0, r3, r4, r5, r6, r7
<1>8. Reads(r1, b, 1)
  <2>1. 0 \in Nat /\ 0 + 1 = 1
    OBVIOUS
  <2>2. Reads(r1, b, 0 + 1)
    BY <1>3, <1>5, <1>6, <2>1, ByteTaken
  <2> QED
    BY <2>1, <2>2
<1> HIDE DEF r1
<1>9. Reads(r2, b, 2)
  <2>1. 1 \in Nat /\ 1 + 1 = 2
    OBVIOUS
  <2>2. Reads(r2, b, 1 + 1)
    BY <1>3, <1>5, <1>8, <2>1, ByteTaken
  <2> QED
    BY <2>1, <2>2
<1> HIDE DEF r2
<1>10. Reads(r3, b, 3) /\ (r3.ok => Number(r3) = c.source)
  <2>1. 2 \in Nat /\ 2 + 1 = 3
    OBVIOUS
  <2>2. Reads(r3, b, 2 + 1) /\ (r3.ok => Number(r3) = c.source)
    BY <1>3, <1>4, <1>7, <1>9, <2>1, NumberTaken
  <2> QED
    BY <2>1, <2>2
<1>11. Reads(r4, b, 4) /\ (r4.ok => r3.ok /\ Number(r4) = n)
  <2>1. 3 \in Nat /\ 3 + 1 = 4
    OBVIOUS
  <2>2. Reads(r4, b, 3 + 1) /\ (r4.ok => r3.ok /\ Number(r4) = n)
    BY <1>3, <1>4, <1>7, <1>10, <2>1, NumberTaken
  <2> QED
    BY <2>1, <2>2
<1> DEFINE bs == RowParts(c)
           ls == LookupParts(c)
<1>12. /\ bs \in Seq(Seq(SixbByte)) /\ Len(bs) = n /\ \A i \in 1..n : ReadsEntry(b, "row", bs[i], c.rows[i])
       /\ ls \in Seq(Seq(SixbByte)) /\ Len(ls) = m /\ \A i \in 1..m : ReadsEntry(b, "lookup", ls[i], c.lookups[i])
  BY PartsIs DEF n, m
<1> HIDE DEF bs, ls, k
<1>13. Reads(r5, b, k) /\ (r5.ok => r4.ok /\ \A i \in 1..n : AtOf(Entries(r4, "row")[i - 1], "row") = c.rows[i])
  <2> DEFINE l == 4
             es == c.rows
             kind == "row"
  <2>1. l \in Nat /\ Reads(r4, b, l) /\ kind \in {"row", "lookup"} /\ bs \in Seq(Seq(SixbByte))
    BY <1>11, <1>12
  <2>2. r4.ok => Number(r4) = Len(bs)
    BY <1>11, <1>12
  <2>3. \A i \in 1..Len(bs) : ReadsEntry(b, kind, bs[i], es[i])
    BY <1>12
  <2>4. Part(b, l, Concat(bs))
    BY <1>2 DEF bs, x
  <2> HIDE DEF l, es, kind
  <2>5. EntriesCome(b, r4, l, kind, bs, es)
    BY <2>1, <2>2, <2>3, <2>4 DEF EntriesCome
  <2>6. EntriesReadAs(b, r4, l, kind, bs, es)
    BY <2>5, EntriesReadTo
  <2> QED
    BY <1>12, <2>6 DEF l, es, kind, k, x, bs, r5, EntriesReadAs
<1>14. Reads(r6, b, k + 1) /\ (r6.ok => r5.ok /\ Number(r6) = m)
  <2>1. k \in Nat
    BY <1>2 DEF k
  <2> QED
    BY <1>2, <1>4, <1>7, <1>13, <2>1, NumberTaken
<1>15. r7.ok => r6.ok /\ \A i \in 1..m : AtOf(Entries(r6, "lookup")[i - 1], "lookup") = c.lookups[i]
  <2> DEFINE l == k + 1
             es == c.lookups
             kind == "lookup"
  <2>1. l \in Nat /\ Reads(r6, b, l) /\ kind \in {"row", "lookup"} /\ ls \in Seq(Seq(SixbByte))
    BY <1>2, <1>12, <1>14 DEF k
  <2>2. r6.ok => Number(r6) = Len(ls)
    BY <1>12, <1>14
  <2>3. \A i \in 1..Len(ls) : ReadsEntry(b, kind, ls[i], es[i])
    BY <1>12
  <2>4. Part(b, l, Concat(ls))
    BY <1>2 DEF ls, z
  <2> HIDE DEF l, es, kind
  <2>5. EntriesCome(b, r6, l, kind, ls, es)
    BY <2>1, <2>2, <2>3, <2>4 DEF EntriesCome
  <2>6. EntriesReadAs(b, r6, l, kind, ls, es)
    BY <2>5, EntriesReadTo
  <2> QED
    BY <1>7, <1>12, <2>6 DEF es, kind, EntriesReadAs
<1>16. /\ r7.ok
       /\ decode_sixb_cache(b) = [source |-> Number(r3), rows |-> RowsFrom(r4), lookups |-> LookupsFrom(r6)]
  BY DecodeIs DEF r3, r4, r6, r7
<1>17. Number(r3) = c.source /\ Number(r4) = n /\ Number(r6) = m
  BY <1>10, <1>11, <1>13, <1>14, <1>15, <1>16
<1>18. RowsFrom(r4) = c.rows
  <2>1. \A i \in 1..n : RowAt(Entries(r4, "row")[i - 1]) = c.rows[i]
    BY <1>13, <1>14, <1>15, <1>16 DEF AtOf
  <2>2. c.rows = [i \in 1..n |-> c.rows[i]]
    BY DEF CacheFits, n
  <2>3. RowsFrom(r4) = [i \in 1..n |-> RowAt(Entries(r4, "row")[i - 1])]
    BY <1>17 DEF RowsFrom
  <2> QED
    BY <2>1, <2>2, <2>3
<1>19. LookupsFrom(r6) = c.lookups
  <2>1. \A i \in 1..m : LookupAt(Entries(r6, "lookup")[i - 1]) = c.lookups[i]
    BY <1>15, <1>16 DEF AtOf
  <2>2. c.lookups = [i \in 1..m |-> c.lookups[i]]
    BY DEF CacheFits, m
  <2>3. LookupsFrom(r6) = [i \in 1..m |-> LookupAt(Entries(r6, "lookup")[i - 1])]
    BY <1>17 DEF LookupsFrom
  <2> QED
    BY <2>1, <2>2, <2>3
<1>20. c = [source |-> c.source, rows |-> c.rows, lookups |-> c.lookups]
  BY DEF CacheFits
<1> QED
  BY <1>16, <1>17, <1>18, <1>19, <1>20

-------------------------------------------------------------------------------
(* The numbers of an index fit. *)

\* An escaped character has no fewer bytes.
LEMMA EscapeLonger ==
    ASSUME NEW x \in Text PROVE Len(BytesOf(x)) <= Len(Utf8(EscapeOf(x))) /\ Len(BytesOf(x)) \in Nat
<1> DEFINE Sizes(c) == IF c = TwoBytes THEN 2 ELSE 1
<1>1. \A c : Len(BytesOf(c)) = Sizes(c)
  <2>1. \A c : Len(<<c>>) = 1
    OBVIOUS
  <2>2. Len(<<"hi", "lo">>) = 2
    OBVIOUS
  <2> QED
    BY <2>1, <2>2 DEF BytesOf
<1>2. CASE EscapeOf(x) = <<x>>
  <2> DEFINE e == <<>>
  <2>1. e \in Seq(Text) /\ Append(e, x) = <<x>>
    OBVIOUS
  <2>2. Utf8(e) = e
    BY Utf8Empty
  <2> HIDE DEF e
  <2>3. Utf8(Append(e, x)) = e \o BytesOf(x) /\ BytesOf(x) \in Seq(Coded(Text))
    BY <2>1, <2>2, Utf8Append
  <2>4. e \o BytesOf(x) = BytesOf(x)
    BY <2>3 DEF e
  <2>5. Len(BytesOf(x)) \in Nat
    BY <2>3
  <2> QED
    BY <1>2, <2>1, <2>3, <2>4, <2>5
<1>3. CASE EscapeOf(x) # <<x>>
  <2>1. /\ x \in {Backslash, Tab, Newline, Return}
        /\ EscapeOf(x) = <<Backslash, Backslash>> \/ EscapeOf(x) = <<Backslash, "t">>
           \/ EscapeOf(x) = <<Backslash, "n">> \/ EscapeOf(x) = <<Backslash, "r">>
    BY <1>3 DEF EscapeOf
  <2>2. PICK y \in Text : EscapeOf(x) = <<Backslash, y>>
    <3>1. "t" \in Text /\ "n" \in Text /\ "r" \in Text /\ Backslash \in Text
      BY DEF Text
    <3> QED
      BY <2>1, <3>1
  <2> DEFINE s == <<Backslash>>
  <2>3. s \in Seq(Text) /\ Append(s, y) = <<Backslash, y>>
    <3>1. Backslash \in Text
      BY TextIs
    <3> QED
      BY <3>1, AppendTwo
  <2> HIDE DEF s
  <2>4. Utf8(s) \in Seq(Coded(Text)) /\ BytesOf(y) \in Seq(Coded(Text)) /\ Utf8(Append(s, y)) = Utf8(s) \o BytesOf(y)
    BY <2>3, Utf8Append
  <2> DEFINE a == Utf8(s)
             d == BytesOf(y)
  <2>5. a \in Seq(Coded(Text)) /\ d \in Seq(Coded(Text)) /\ Utf8(EscapeOf(x)) = a \o d
    BY <2>2, <2>3, <2>4
  <2>6. Len(d) >= 1
    BY <1>1
  <2> HIDE DEF a, d
  <2>7. Len(a \o d) = Len(a) + Len(d) /\ Len(a) \in Nat /\ Len(d) \in Nat
    BY <2>5, CatIs
  <2>8. Len(BytesOf(x)) = 1
    <3>1. x # TwoBytes
      BY <2>1 DEF TwoBytes, Backslash, Tab, Newline, Return
    <3> QED
      BY <1>1, <3>1
  <2> QED
    BY <2>5, <2>6, <2>7, <2>8
<1> QED
  BY <1>2, <1>3

\* Nor has an escaped value.
LEMMA TextSize ==
    ASSUME NEW s \in Seq(Text)
    PROVE  /\ Len(Utf8(s)) <= Len(Utf8(escape_six_value(s)))
           /\ Len(Utf8(s)) \in Nat /\ Len(Utf8(escape_six_value(s))) \in Nat
<1> DEFINE Sized(u) == /\ Len(Utf8(u)) <= Len(Utf8(escape_six_value(u)))
                       /\ Len(Utf8(u)) \in Nat /\ Len(Utf8(escape_six_value(u))) \in Nat
           S == {u \in Seq(Text) : Sized(u)}
<1>1. <<>> \in S
  <2>1. <<>> \in Seq(Text) /\ Len(<<>>) = 0
    OBVIOUS
  <2> QED
    BY <2>1, EscapeEmpty, Utf8Empty
<1>2. ASSUME NEW u \in Seq(Text), NEW x \in Text, u \in S PROVE Append(u, x) \in S
  <2> DEFINE t == Append(u, x)
             e == escape_six_value(u)
             g == EscapeOf(x)
             a == Utf8(u)
             d == BytesOf(x)
             p == Utf8(e)
             q == Utf8(g)
             C == Coded(Text)
  <2>1. e \in Seq(Text) /\ g \in Seq(Text) /\ escape_six_value(t) = e \o g
    <3>1. e \in Seq(Plain) /\ g \in Seq(Plain) /\ escape_six_value(t) = e \o g
      BY EscapeAppend, SafeText
    <3> HIDE DEF e, g
    <3> QED
      BY <3>1, SafeText
  <2>2. a \in Seq(C) /\ d \in Seq(C) /\ Utf8(t) = a \o d
    BY Utf8Append
  <2>3. t \in Seq(Text)
    OBVIOUS
  <2>4. Len(a) <= Len(p) /\ Len(d) <= Len(q)
    BY <1>2, EscapeLonger
  <2> HIDE DEF t, e, g, a, d, p, q, C
  <2>5. Utf8(e \o g) = p \o q /\ p \in Seq(C) /\ q \in Seq(C)
    BY <2>1, Utf8Parts DEF p, q, C
  <2>6. Len(a \o d) = Len(a) + Len(d) /\ Len(a) \in Nat /\ Len(d) \in Nat
    BY <2>2, CatIs
  <2>7. Len(p \o q) = Len(p) + Len(q) /\ Len(p) \in Nat /\ Len(q) \in Nat
    BY <2>5, CatIs
  <2>8. Len(a \o d) <= Len(p \o q) /\ Len(a \o d) \in Nat /\ Len(p \o q) \in Nat
    BY <2>4, <2>6, <2>7
  <2>9. Sized(t)
    BY <2>1, <2>2, <2>5, <2>8
  <2> QED
    BY <2>3, <2>9 DEF t
<1> HIDE DEF S
<1>3. Seq(Text) \subseteq S
  BY <1>1, <1>2, ByAppending
<1> QED
  BY <1>3 DEF S

\* The parts of a sequence of bytes are not longer than it.
LEMMA PartSizes ==
    ASSUME NEW B, NEW s \in Seq(B), NEW t \in Seq(B)
    PROVE  Len(s) <= Len(s \o t) /\ Len(t) <= Len(s \o t) /\ Len(s \o t) \in Nat /\ Len(s) \in Nat /\ Len(t) \in Nat
<1>1. Len(s \o t) = Len(s) + Len(t) /\ Len(s) \in Nat /\ Len(t) \in Nat
  BY CatIs
<1> QED
  BY <1>1

\* The strings of a put are not longer than its line.
LEMMA PutSizes ==
    ASSUME NEW o \in Operation, NEW id, NEW v, IsPut(o, id, v)
    PROVE  /\ Len(Utf8(id)) <= Len(Line(o)) /\ Len(Utf8(v)) <= Len(Line(o))
           /\ Len(Utf8(id)) \in Nat /\ Len(Utf8(v)) \in Nat /\ Len(Line(o)) \in Nat
<1> DEFINE e == escape_six_value(id)
           f == escape_six_value(v)
           g == <<Tab>> \o f
           C == Coded(Text)
<1>1. o.columns = <<id, v>> /\ id \in Seq(Text) /\ v \in Seq(Text)
  BY DEF IsPut
<1>2. Joined(o.columns) = e \o g
  BY <1>1, JoinedTwo
<1>3. e \in Seq(Text) /\ f \in Seq(Text)
  <2>1. e \in Seq(Plain) /\ f \in Seq(Plain)
    BY <1>1, EscapeBack
  <2> HIDE DEF e, f
  <2> QED
    BY <2>1, SafeText
<1>4. <<Tab>> \in Seq(Text)
  <2>1. Tab \in Text
    BY DEF Text
  <2> QED
    BY <2>1
<1> HIDE DEF e, f, C
<1> DEFINE h == <<Tab>>
<1>5. g = h \o f /\ h \in Seq(Text)
  BY <1>4
<1> HIDE DEF g, h
<1>6. g \in Seq(Text)
  BY <1>3, <1>5, CatIs
<1>7. Utf8(e \o g) = Utf8(e) \o Utf8(g) /\ Utf8(e) \in Seq(C) /\ Utf8(g) \in Seq(C)
  BY <1>3, <1>6, Utf8Parts DEF C
<1>8. Utf8(h \o f) = Utf8(h) \o Utf8(f) /\ Utf8(h) \in Seq(C) /\ Utf8(f) \in Seq(C)
  BY <1>3, <1>5, Utf8Parts DEF C
<1> DEFINE l == Line(o)
<1>9. PICK y \in Seq(LineByte) : l = <<o.tag, Tab, NumberByte[o.tx], Tab>> \o y /\ y = Utf8(Joined(o.columns))
  BY LineHead
<1>10. Len(l) \in Nat /\ Len(y) <= Len(l) /\ Len(y) \in Nat
  <2> DEFINE q == <<o.tag, Tab, NumberByte[o.tx], Tab>>
  <2>1. q \in Seq(LineByte)
    <3> DEFINE tag == o.tag
               num == NumberByte[o.tx]
    <3>1. tag \in LineByte /\ num \in LineByte /\ Tab \in LineByte
      <4>1. o.tag \in LineText /\ o.tx \in Numbers
        BY OperationIs
      <4>2. NumberByte[o.tx] \in LineText
        BY <4>1, NumberBack
      <4>3. Tab \in LineText
        BY DEF LineText, Text, Tab, Newline, Return
      <4> QED
        BY <4>1, <4>2, <4>3 DEF LineByte, Coded
    <3> HIDE DEF tag, num
    <3>2. <<tag, Tab, num, Tab>> \in Seq(LineByte)
      BY <3>1
    <3> QED
      BY <3>2 DEF tag, num
  <2>2. l = q \o y
    BY <1>9
  <2> HIDE DEF q, l
  <2> QED
    BY <2>1, <2>2, PartSizes
<1> HIDE DEF l
<1>11. y = Utf8(e) \o Utf8(g) /\ Utf8(g) = Utf8(h) \o Utf8(f)
  BY <1>2, <1>5, <1>7, <1>8, <1>9
<1>12. Len(Utf8(e)) <= Len(y) /\ Len(Utf8(g)) <= Len(y) /\ Len(Utf8(e)) \in Nat /\ Len(Utf8(g)) \in Nat
  BY <1>7, <1>11, PartSizes
<1>13. Len(Utf8(f)) <= Len(Utf8(g)) /\ Len(Utf8(f)) \in Nat
  BY <1>8, <1>11, PartSizes
<1>14. /\ Len(Utf8(id)) <= Len(Utf8(e)) /\ Len(Utf8(id)) \in Nat
       /\ Len(Utf8(v)) <= Len(Utf8(f)) /\ Len(Utf8(v)) \in Nat
  BY <1>1, TextSize DEF e, f
<1> QED
  BY <1>10, <1>12, <1>13, <1>14 DEF l

\* Chosen numbers are members, and no more than there are.
Members(s, K, n) == s \in Seq(Nat) /\ Len(s) <= n /\ \A i \in 1..Len(s) : s[i] \in K
\* Ascending gives the members of K up to n, no more than n of them.
LEMMA AscendingMembers ==
    ASSUME NEW K, NEW n \in Nat PROVE Members(Ascending(K, n), K, n)
<1> DEFINE Good == {k \in 0..n : Members(Ascending(K, k), K, k)}
<1>1. 0 \in Good
  <2>1. Ascending(K, 0) = <<>>
    BY AscendingStep
  <2>2. Members(<<>>, K, 0)
    BY DEF Members
  <2> QED
    BY <2>1, <2>2
<1>2. ASSUME NEW k \in 0..n, k \in Good, k < n PROVE k + 1 \in Good
  <2> DEFINE m == k + 1
             s == Ascending(K, k)
             t == Append(s, m)
  <2>1. k \in Nat /\ m \in 0..n /\ m \in Nat /\ k <= m
    BY <1>2
  <2>2. Ascending(K, k + 1) = IF k + 1 \in K THEN Append(s, k + 1) ELSE s
    BY <2>1, AscendingStep
  <2>3. s \in Seq(Nat) /\ Len(s) <= k /\ \A i \in 1..Len(s) : s[i] \in K
    BY <1>2 DEF Members
  <2> HIDE DEF s
  <2>4. CASE m \in K
    <3>1. t \in Seq(Nat) /\ Len(t) = Len(s) + 1 /\ Len(s) \in Nat /\ t[Len(s) + 1] = m /\ \A i \in 1..Len(s) : t[i] = s[i]
      <4> HIDE DEF m
      <4> QED
        BY <2>1, <2>3, AppendIs
    <3> HIDE DEF t
    <3>2. Len(t) <= m
      BY <2>1, <2>3, <3>1
    <3>3. \A i \in 1..Len(t) : i \in 1..Len(s) \/ i = Len(s) + 1
      BY <3>1
    <3>4. \A i \in 1..Len(t) : t[i] \in K
      <4> HIDE DEF m
      <4> QED
        BY <2>3, <2>4, <3>1, <3>3
    <3>5. Members(t, K, m)
      <4> HIDE DEF m
      <4> QED
        BY <3>1, <3>2, <3>4 DEF Members
    <3>6. Ascending(K, m) = t
      BY <2>2, <2>4 DEF t
    <3> QED
      BY <2>1, <3>5, <3>6
  <2>5. CASE m \notin K
    <3>1. Members(s, K, m)
      <4> HIDE DEF m
      <4> QED
        BY <2>1, <2>3 DEF Members
    <3>2. Ascending(K, m) = s
      BY <2>2, <2>5
    <3> QED
      BY <2>1, <3>1, <3>2
  <2> QED
    BY <2>4, <2>5
<1>3. 0..n \subseteq Good
  <2> HIDE DEF Good
  <2> QED
    BY <1>1, <1>2, UpwardsTo
<1> QED
  BY <1>3

\* The entries of live rows.
LEMMA LiveIs ==
    ASSUME NEW es, NEW n \in Nat, es = [i \in 1..n |-> es[i]]
    PROVE  /\ Len(LiveEntries(es)) \in Nat /\ Len(LiveEntries(es)) <= n
           /\ LiveEntries(es) = [i \in 1..Len(LiveEntries(es)) |-> LiveEntries(es)[i]]
           /\ \A i \in 1..Len(LiveEntries(es)) :
                \E j \in 1..n : es[j].operation.tag = "R" /\ LiveEntries(es)[i] = es[j]
<1> DEFINE K == Live(es)
           a == Ascending(K, n)
           l == [i \in DOMAIN a |-> es[a[i]]]
<1>1. DOMAIN es = 1..n /\ Len(es) = n
  OBVIOUS
<1>2. a \in Seq(Nat) /\ Len(a) <= n /\ \A i \in 1..Len(a) : a[i] \in K
  BY AscendingMembers DEF Members
<1>3. \A j \in K : j \in 1..n /\ es[j].operation.tag = "R"
  BY <1>1 DEF Live
<1>4. LiveEntries(es) = l
  BY <1>1 DEF LiveEntries
<1> HIDE DEF K, a
<1>5. DOMAIN a = 1..Len(a) /\ Len(a) \in Nat
  BY <1>2
<1>6. l = [i \in 1..Len(a) |-> es[a[i]]]
  BY <1>5
<1>7. Len(l) = Len(a) /\ l = [i \in 1..Len(l) |-> l[i]] /\ \A i \in 1..Len(l) : l[i] = es[a[i]]
  BY <1>5, <1>6
<1> HIDE DEF l
<1>8. \A i \in 1..Len(l) : \E j \in 1..n : es[j].operation.tag = "R" /\ l[i] = es[j]
  BY <1>2, <1>3, <1>7
<1> QED
  BY <1>2, <1>4, <1>5, <1>7, <1>8

\* The index of operations, whatever chunk they are in.
IndexWith(n, live) ==
    [source |-> n, rows |-> [i \in DOMAIN live |-> RowOf(live[i])],
     lookups |-> [i \in DOMAIN live |-> LookupOf(live[i])]]
IndexFor(v) == IndexWith(Len(v), LiveEntries(EntriesOf(PreambleLines, v)))

\* The index of a chunk that holds the operations w depends on w alone.
LEMMA IndexIs ==
    ASSUME NEW c, NEW w, ChunkShape(c, w), HeaderOk(c)
    PROVE  IndexOf(c) = IndexFor(w) /\ Len(raw_six_data_lines(c)) = Len(w)
<1>1. ASSUME NEW pre, NEW rest, Holds(c, pre, w, rest)
      PROVE  /\ IndexOf(c) = IndexWith(Len(w), LiveEntries(EntriesOf(pre, w)))
             /\ Len(raw_six_data_lines(c)) = Len(w)
  <2>1. Scanned(c) = EntriesOf(pre, w) /\ Len(raw_six_data_lines(c)) = Len(w)
    BY <1>1, HoldsScanned
  <2> QED
    BY <2>1 DEF IndexOf, IndexWith
<1>2. CASE w = <<>> /\ Holds(c, TornLines, w, <<"@data">>)
  <2>1. EntriesOf(TornLines, <<>>) = EntriesOf(PreambleLines, <<>>)
    <3>1. 1..Len(<<>>) = {}
      OBVIOUS
    <3>2. EntriesOf(TornLines, <<>>) = [i \in {} |-> EntryOf(TornLines, <<>>, i)]
          /\ EntriesOf(PreambleLines, <<>>) = [i \in {} |-> EntryOf(PreambleLines, <<>>, i)]
      BY <3>1 DEF EntriesOf
    <3>3. [i \in {} |-> EntryOf(TornLines, <<>>, i)] = [i \in {} |-> EntryOf(PreambleLines, <<>>, i)]
      OBVIOUS
    <3> QED
      BY <3>2, <3>3
  <2> QED
    BY <1>1, <1>2, <2>1 DEF IndexFor
<1>3. CASE \E rest : Holds(c, PreambleLines, w, rest)
  BY <1>1, <1>3 DEF IndexFor
<1> QED
  BY <1>2, <1>3, HeaderRead

\* The lines of operations are not longer than a number.
Bounded(v) == v # <<>> => Len(Preamble \o LinesOf(v)) <= MaxNumber

\* The place of a line is within the chunk.
LEMMA PlaceFits ==
    ASSUME NEW v \in Seq(Operation), Bounded(v), NEW i \in 1..Len(v)
    PROVE  /\ EntryOf(PreambleLines, v, i).offset \in Numbers /\ EntryOf(PreambleLines, v, i).len \in Numbers
           /\ Len(Line(v[i])) \in Numbers
<1> DEFINE pre == PreambleLines
           ls == AllLines(pre, v)
           p == Len(pre)
           k == p + i
           a == Whole(SubSeq(ls, 1, k - 1))
           x == Line(v[i])
           C == Broken(LineByte)
           e == EntryOf(pre, v, i)
<1>1. Heading(pre)
  BY HeadingIs
<1>2. ls \in Seq(Seq(LineByte)) /\ Len(ls) = p + Len(v) /\ p \in Nat /\ Len(v) \in Nat /\ ls[k] = x
  BY <1>1, AllLinesIs
<1>3. k \in 1..Len(ls)
  BY <1>2
<1>4. e.offset = Len(a) /\ e.len = Len(x) + 1
  BY DEF EntryOf
<1>5. Len(Whole(ls)) <= MaxNumber
  <2>1. v # <<>>
    OBVIOUS
  <2> QED
    BY <2>1, LinesOfIs DEF Bounded
<1> HIDE DEF pre, ls, p, k, x, C, e
<1>6. PICK y \in Seq(C) : a \in Seq(C) /\ x \in Seq(C) /\ Whole(ls) = (a \o x) \o (<<Newline>> \o y)
  BY <1>2, <1>3, WholeAt DEF C
<1> HIDE DEF a
<1> DEFINE q == <<Newline>>
           s == a \o x
           t == q \o y
<1>7. q \in Seq(C) /\ Len(q) = 1
  <2>1. Newline \in C
    BY DEF C, Broken
  <2> QED
    BY <2>1
<1> HIDE DEF q
<1>8. Len(s) = Len(a) + Len(x) /\ s \in Seq(C) /\ Len(a) \in Nat /\ Len(x) \in Nat
  BY <1>6, CatIs
<1>9. t \in Seq(C) /\ Len(t) = Len(q) + Len(y) /\ Len(y) \in Nat
  BY <1>6, <1>7, CatIs
<1> HIDE DEF s, t
<1>10. Len(s \o t) = Len(s) + Len(t)
  BY <1>8, <1>9, CatIs
<1>11. Whole(ls) = s \o t
  BY <1>6 DEF s, t, q
<1>12. Len(a) + Len(x) + 1 + Len(y) <= MaxNumber
  BY <1>5, <1>7, <1>8, <1>9, <1>10, <1>11
<1>13. MaxNumber \in Nat
  BY BoundsAssumption
<1>14. Len(a) \in 0..MaxNumber /\ Len(x) + 1 \in 0..MaxNumber /\ Len(x) \in 0..MaxNumber
  <2> DEFINE g == Len(a)
             h == Len(x)
             f == Len(y)
  <2>1. g \in Nat /\ h \in Nat /\ f \in Nat /\ g + h + 1 + f <= MaxNumber
    BY <1>8, <1>9, <1>12
  <2> HIDE DEF g, h, f
  <2>2. g \in 0..MaxNumber /\ h + 1 \in 0..MaxNumber /\ h \in 0..MaxNumber
    BY <1>13, <2>1
  <2> QED
    BY <2>2 DEF g, h
<1> QED
  BY <1>4, <1>14 DEF Numbers, e, x, pre

\* The rows and lookups of an index fit.
LEMMA EntryFits ==
    ASSUME NEW v \in Seq(Operation), Bounded(v), NEW i \in 1..Len(v), NEW e,
           e = EntryOf(PreambleLines, v, i), e.operation.tag = "R"
    PROVE  RowFits(RowOf(e)) /\ LookupFits(LookupOf(e))
<1> DEFINE o == v[i]
<1>1. o \in Operation /\ e.operation = o /\ o.tag = "R"
  BY DEF EntryOf
<1>2. PICK id, val : IsPut(o, id, val)
  <2>1. \A id : ~IsDelete(o, id)
    BY <1>1 DEF IsDelete
  <2> QED
    BY <1>1, <2>1, OperationIs
<1>3. o.columns[1] = id /\ o.columns[2] = val /\ id \in Seq(Text) /\ val \in Seq(Text)
  BY <1>2 DEF IsPut
<1>4. e.offset \in Numbers /\ e.len \in Numbers /\ Len(Line(o)) \in Numbers
  BY PlaceFits
<1>5. o.tx \in Numbers
  BY <1>1, OperationIs
<1> HIDE DEF o
<1>6. Fits(id) /\ Fits(val)
  <2>1. /\ Len(Utf8(id)) <= Len(Line(o)) /\ Len(Utf8(val)) <= Len(Line(o))
        /\ Len(Utf8(id)) \in Nat /\ Len(Utf8(val)) \in Nat
    BY <1>1, <1>2, PutSizes
  <2> DEFINE f == Len(Utf8(id))
             g == Len(Utf8(val))
             h == Len(Line(o))
  <2>2. f <= h /\ g <= h /\ f \in Nat /\ g \in Nat /\ h \in 0..MaxNumber /\ MaxNumber \in Nat
    BY <1>4, <2>1, BoundsAssumption DEF Numbers
  <2> HIDE DEF f, g, h
  <2>3. f \in 0..MaxNumber /\ g \in 0..MaxNumber
    BY <2>2
  <2> QED
    BY <1>3, <2>3 DEF Fits, Numbers, f, g
<1>7. RowOf(e) = [id |-> id, offset |-> e.offset, len |-> e.len, tx |-> o.tx]
  BY <1>1, <1>3 DEF RowOf
<1>8. LookupOf(e) = [key |-> val, id |-> id]
  BY <1>1, <1>3 DEF LookupOf
<1>9. RowFits(RowOf(e))
  <2> DEFINE r == RowOf(e)
  <2>1. r.id = id /\ r.offset = e.offset /\ r.len = e.len /\ r.tx = o.tx
    BY <1>7
  <2>2. r = [id |-> r.id, offset |-> r.offset, len |-> r.len, tx |-> r.tx]
    BY <1>7, <2>1
  <2> HIDE DEF r
  <2>3. RowFits(r)
    BY <1>4, <1>5, <1>6, <2>1, <2>2 DEF RowFits
  <2> QED
    BY <2>3 DEF r
<1>10. LookupFits(LookupOf(e))
  <2> DEFINE r == LookupOf(e)
  <2>1. r.key = val /\ r.id = id
    BY <1>8
  <2>2. r = [key |-> r.key, id |-> r.id]
    BY <1>8, <2>1
  <2> HIDE DEF r
  <2>3. LookupFits(r)
    BY <1>6, <2>1, <2>2 DEF LookupFits
  <2> QED
    BY <2>3 DEF r
<1> QED
  BY <1>9, <1>10

\* The index of numbered operations fits.
LEMMA IndexFits ==
    ASSUME NEW v, v \in Seq(Operation), Numbered(v), Bounded(v)
    PROVE  CacheFits(IndexFor(v)) /\ IndexFor(v).source = Len(v)
<1> DEFINE n == Len(v)
           es == EntriesOf(PreambleLines, v)
           live == LiveEntries(es)
           m == Len(live)
           rows == [i \in 1..m |-> RowOf(live[i])]
           lookups == [i \in 1..m |-> LookupOf(live[i])]
           c == IndexFor(v)
<1>1. n \in Nat
  OBVIOUS
<1>2. es = [i \in 1..n |-> EntryOf(PreambleLines, v, i)]
  BY DEF EntriesOf
<1>3. n \in Numbers
  <2>1. CASE n = 0
    BY <2>1, BoundsAssumption DEF Numbers
  <2>2. CASE n # 0
    <3>1. n \in 1..n /\ v[n] \in Operation
      BY <1>1, <2>2
    <3>2. v[n].tx = n /\ v[n].tx \in Numbers
      BY <3>1, OperationIs DEF Numbered
    <3> QED
      BY <3>2
  <2> QED
    BY <2>1, <2>2
<1>4. \A j \in 1..n : es[j] = EntryOf(PreambleLines, v, j)
  BY <1>2
<1> HIDE DEF es
<1>5. es = [i \in 1..n |-> es[i]]
  BY <1>2, <1>4
<1>6. /\ m \in Nat /\ m <= n
      /\ live = [i \in 1..m |-> live[i]]
      /\ \A i \in 1..m : \E j \in 1..n : es[j].operation.tag = "R" /\ live[i] = es[j]
  <2> HIDE DEF n
  <2> QED
    BY <1>1, <1>5, LiveIs
<1>7. m \in Numbers
  <2>1. n \in 0..MaxNumber /\ MaxNumber \in Nat
    BY <1>3, BoundsAssumption DEF Numbers
  <2> HIDE DEF n, m
  <2> QED
    BY <1>6, <2>1 DEF Numbers
<1> HIDE DEF live
<1>8. \A i \in 1..m : RowFits(RowOf(live[i])) /\ LookupFits(LookupOf(live[i]))
  <2> TAKE i \in 1..m
  <2>1. PICK j \in 1..n : es[j].operation.tag = "R" /\ live[i] = es[j]
    BY <1>6
  <2> DEFINE e == live[i]
  <2>2. e = EntryOf(PreambleLines, v, j) /\ e.operation.tag = "R"
    BY <1>4, <2>1
  <2> HIDE DEF e
  <2>3. RowFits(RowOf(e)) /\ LookupFits(LookupOf(e))
    BY <2>1, <2>2, EntryFits
  <2> QED
    BY <2>3 DEF e
<1>9. DOMAIN live = 1..m
  BY <1>6
<1>10. c = [source |-> n, rows |-> rows, lookups |-> lookups]
  BY <1>9 DEF IndexFor, IndexWith, live, es
<1>11. Len(rows) = m /\ Len(lookups) = m
  <2> HIDE DEF m
  <2> QED
    BY <1>6
<1>12. /\ rows = [i \in 1..m |-> rows[i]] /\ lookups = [i \in 1..m |-> lookups[i]]
       /\ \A i \in 1..m : RowFits(rows[i]) /\ LookupFits(lookups[i])
  BY <1>8
<1> HIDE DEF c, rows, lookups, m, n
<1>13. c.source = n /\ c.rows = rows /\ c.lookups = lookups
  BY <1>10
<1>14. CacheFits(c)
  BY <1>3, <1>7, <1>10, <1>11, <1>12, <1>13 DEF CacheFits
<1> QED
  BY <1>13, <1>14 DEF c, n

-------------------------------------------------------------------------------
(* The index file in every state. *)

\* The index file of operations; s is what is left of that of the first m ones.
FileOf(v) == encode_sixb_cache(IndexFor(v))
LeftOf(s, w, m) == \E n \in 0..Len(FileOf(SubSeq(w, 1, m))) : s = SubSeq(FileOf(SubSeq(w, 1, m)), 1, n)
SixbInv == \E m \in 0..Len(written) : LeftOf(sixb, written, m)

\* Operations as they are written one after the other.
Counted(w) == w \in Seq(Operation) /\ Numbered(w) /\ Bounded(w)

\* The first operations have an index that fits.
LEMMA FirstFit ==
    ASSUME NEW w, Counted(w), NEW m \in 0..Len(w), NEW v, v = SubSeq(w, 1, m)
    PROVE  /\ CacheFits(IndexFor(v)) /\ IndexFor(v).source = m /\ FileOf(v) \in Seq(SixbByte)
           /\ m = Len(w) => v = w
<1>1. w \in Seq(Operation) /\ Numbered(w) /\ Bounded(w)
  BY DEF Counted
<1>2. Preamble \in Seq(Broken(LineByte))
  BY PreambleIs
<1>3. /\ v \in Seq(Operation) /\ Len(v) = m /\ (\A i \in 1..m : v[i] = w[i])
      /\ Len(Preamble \o LinesOf(v)) <= Len(Preamble \o LinesOf(w))
  BY <1>1, <1>2, LinesOfFront
<1>4. Numbered(v)
  <2>1. \A i \in 1..m : i \in 1..Len(w)
    BY <1>1
  <2> QED
    BY <1>1, <1>3, <2>1 DEF Numbered
<1>5. Bounded(v)
  <2> DEFINE a == Len(Preamble \o LinesOf(v))
             d == Len(Preamble \o LinesOf(w))
  <2>1. a \in Nat /\ d \in Nat
    <3>1. LinesOf(v) \in Seq(Broken(LineByte)) /\ LinesOf(w) \in Seq(Broken(LineByte))
      BY <1>1, <1>3, LinesOfIs
    <3> QED
      BY <1>2, <3>1
  <2>2. SUFFICES ASSUME v # <<>> PROVE a <= MaxNumber
    BY DEF Bounded
  <2>3. w # <<>>
    BY <1>1, <1>3, <2>2
  <2>4. d <= MaxNumber /\ MaxNumber \in Nat /\ a <= d
    BY <1>1, <1>3, <2>3, BoundsAssumption DEF Bounded
  <2> HIDE DEF a, d
  <2> QED
    BY <2>1, <2>4
<1>6. CacheFits(IndexFor(v)) /\ IndexFor(v).source = m
  BY <1>3, <1>4, <1>5, IndexFits
<1>7. FileOf(v) \in Seq(SixbByte)
  BY <1>6, FileIs DEF FileOf
<1>8. m = Len(w) => v = w
  BY <1>1, <1>3
<1> QED
  BY <1>6, <1>7, <1>8

\* What was written is such operations.
LEMMA WrittenFits == ChunkInv => Counted(written)
  BY DEF ChunkInv, ChunkShape, Counted, Bounded

\* More operations leave the first ones.
LEMMA FirstKeeps ==
    ASSUME NEW w \in Seq(Operation), NEW ops \in Seq(Operation), NEW m \in 0..Len(w)
    PROVE  SubSeq(w \o ops, 1, m) = SubSeq(w, 1, m) /\ m \in 0..Len(w \o ops)
<1> DEFINE u == w \o ops
<1>1. u \in Seq(Operation) /\ Len(u) = Len(w) + Len(ops) /\ Len(w) \in Nat /\ Len(ops) \in Nat
      /\ \A i \in 1..Len(w) : u[i] = w[i]
  BY CatIs
<1> HIDE DEF u
<1>2. m \in 0..Len(u) /\ \A i \in 1..m : u[i] = w[i]
  BY <1>1
<1>3. SubSeq(u, 1, m) = [i \in 1..m |-> u[i]] /\ SubSeq(w, 1, m) = [i \in 1..m |-> w[i]]
  BY <1>1, <1>2
<1> QED
  BY <1>2, <1>3 DEF u

\* No index file has been written.
LEMMA SixbInvInit == Init => SixbInv
<1> SUFFICES ASSUME Init PROVE SixbInv
  OBVIOUS
<1> DEFINE e == <<>>
           f == FileOf(e)
<1>1. written = e /\ sixb = e
  BY DEF Init
<1>2. Counted(e)
  BY NoLines DEF Counted, Bounded
<1>3. 0 \in 0..Len(e) /\ SubSeq(e, 1, 0) = e
  OBVIOUS
<1> HIDE DEF e
<1>4. f \in Seq(SixbByte)
  BY <1>2, <1>3, FirstFit
<1> HIDE DEF f
<1>5. 0 \in 0..Len(f) /\ SubSeq(f, 1, 0) = <<>>
  BY <1>4
<1>6. LeftOf(e, e, 0)
  BY <1>3, <1>5 DEF LeftOf, f, e
<1> QED
  BY <1>1, <1>3, <1>6 DEF SixbInv

\* Losing the end of the file leaves less of it.
LEMMA LoseKeeps == ASSUME ChunkInv, SixbInv, LoseSixbTail PROVE SixbInv'
<1>1. PICK m \in 0..Len(written) : LeftOf(sixb, written, m)
  BY DEF SixbInv
<1> DEFINE f == FileOf(SubSeq(written, 1, m))
<1>2. f \in Seq(SixbByte)
  BY WrittenFits, FirstFit
<1>3. PICK n \in 0..Len(f) : sixb = SubSeq(f, 1, n)
  BY <1>1 DEF LeftOf
<1>4. PICK k \in 0..(Len(sixb) - 1) : sixb' = SubSeq(sixb, 1, k)
  BY DEF LoseSixbTail
<1>5. written' = written
  BY DEF LoseSixbTail
<1> HIDE DEF f
<1>6. Len(sixb) = n /\ sixb \in Seq(SixbByte) /\ n \in Nat /\ \A i \in 1..n : sixb[i] = f[i]
  BY <1>2, <1>3
<1>7. k \in 0..Len(f) /\ k \in 0..n
  BY <1>2, <1>4, <1>6
<1>8. SubSeq(sixb, 1, k) = [i \in 1..k |-> sixb[i]] /\ SubSeq(f, 1, k) = [i \in 1..k |-> f[i]]
  BY <1>2, <1>6, <1>7
<1>9. \A i \in 1..k : i \in 1..n
  BY <1>6, <1>7
<1>10. sixb' = SubSeq(f, 1, k)
  BY <1>4, <1>6, <1>8, <1>9
<1>11. LeftOf(sixb', written, m)
  BY <1>7, <1>10 DEF LeftOf, f
<1> QED
  BY <1>5, <1>11 DEF SixbInv

\* A new index file is that of all operations.
LEMMA RebuildKeeps == ASSUME ChunkInv, rebuild_sixb PROVE SixbInv'
<1>1. HeaderOk(chunk) /\ sixb' = encode_sixb_cache(IndexOf(chunk)) /\ written' = written
  BY DEF rebuild_sixb, ScanSucceeds
<1>2. IndexOf(chunk) = IndexFor(written)
  BY <1>1, IndexIs DEF ChunkInv
<1> DEFINE m == Len(written)
           v == SubSeq(written, 1, m)
           f == FileOf(v)
<1>3. m \in 0..Len(written)
  BY DEF ChunkInv, ChunkShape
<1>4. f \in Seq(SixbByte) /\ v = written
  <2> HIDE DEF m
  <2>1. FileOf(v) \in Seq(SixbByte) /\ (m = Len(written) => v = written)
    BY <1>3, WrittenFits, FirstFit
  <2> QED
    BY <2>1 DEF m
<1>5. sixb' = f
  BY <1>1, <1>2, <1>4 DEF FileOf
<1> HIDE DEF f
<1>6. Len(f) \in 0..Len(f) /\ SubSeq(f, 1, Len(f)) = f
  BY <1>4
<1>7. LeftOf(sixb', written, m)
  BY <1>5, <1>6 DEF LeftOf, f
<1> QED
  BY <1>1, <1>3, <1>7 DEF SixbInv

\* More lines leave the file what it was.
LEMMA MoreKeeps ==
    ASSUME ChunkInv, SixbInv, NEW ops \in Seq(Operation), written' = written \o ops, sixb' = sixb
    PROVE  SixbInv'
<1>1. PICK m \in 0..Len(written) : LeftOf(sixb, written, m)
  BY DEF SixbInv
<1>2. written \in Seq(Operation)
  BY DEF ChunkInv, ChunkShape
<1>3. SubSeq(written', 1, m) = SubSeq(written, 1, m) /\ m \in 0..Len(written')
  BY <1>2, FirstKeeps
<1>4. LeftOf(sixb', written', m)
  BY <1>1, <1>3 DEF LeftOf
<1> QED
  BY <1>3, <1>4 DEF SixbInv

\* Every step keeps the index file a prefix of an index of earlier operations.
LEMMA SixbInvNext == ChunkInv /\ SixbInv /\ [Next]_vars => SixbInv'
<1> SUFFICES ASSUME ChunkInv, SixbInv, [Next]_vars PROVE SixbInv'
  OBVIOUS
<1>1. CASE AppendBatch
  <2>1. PICK ops \in NextBatches : written' = written \o ops
    BY <1>1 DEF AppendBatch
  <2>2. ops \in Seq(Operation)
    BY <1>1, BatchIs DEF AppendBatch
  <2>3. sixb' = sixb
    BY <1>1 DEF AppendBatch
  <2> QED
    BY <2>1, <2>2, <2>3, MoreKeeps
<1>2. CASE InterruptedAppend
  <2>1. PICK ops \in NextBatches : \E n \in 0..Len(ops)-1 : written' = written \o SubSeq(ops, 1, n)
    BY <1>2 DEF InterruptedAppend
  <2>2. PICK n \in 0..Len(ops)-1 : written' = written \o SubSeq(ops, 1, n)
    BY <2>1
  <2>3. ops \in Seq(Operation) /\ Len(ops) \in Nat
    BY <1>2, BatchIs DEF InterruptedAppend
  <2>4. SubSeq(ops, 1, n) \in Seq(Operation)
    BY <2>3
  <2>5. sixb' = sixb
    BY <1>2 DEF InterruptedAppend
  <2> QED
    BY <2>2, <2>4, <2>5, MoreKeeps
<1>3. CASE InterruptedPreamble
  BY <1>3 DEF InterruptedPreamble, SixbInv
<1>4. CASE truncate_incomplete_tail
  BY <1>4 DEF truncate_incomplete_tail, SixbInv
<1>5. CASE rebuild_sixb
  BY <1>5, RebuildKeeps
<1>6. CASE LoseSixbTail
  BY <1>6, LoseKeeps
<1>7. CASE UNCHANGED vars
  BY <1>7 DEF vars, SixbInv
<1> QED
  BY <1>1, <1>2, <1>3, <1>4, <1>5, <1>6, <1>7 DEF Next

\* In every state the index file is what is left of that of the first operations.
THEOREM SixbInvariant == Spec => []SixbInv
<1>1. Init => SixbInv
  BY SixbInvInit
<1>2. ChunkInv /\ SixbInv /\ [Next]_vars => SixbInv'
  BY SixbInvNext
<1> QED
  BY <1>1, <1>2, ChunkInvariant, PTL DEF Spec

\* What is left of the file of an index is read as this index or not at all.
LEMMA LeftReads ==
    ASSUME ChunkInv, NEW m \in 0..Len(written), LeftOf(sixb, written, m), decode_sixb_cache(sixb) # NoIndex
    PROVE  /\ decode_sixb_cache(sixb) = IndexFor(SubSeq(written, 1, m))
           /\ decode_sixb_cache(sixb).source = m /\ (m = Len(written) => SubSeq(written, 1, m) = written)
<1> DEFINE v == SubSeq(written, 1, m)
           c == IndexFor(v)
           f == FileOf(v)
<1>1. CacheFits(c) /\ c.source = m /\ f \in Seq(SixbByte) /\ (m = Len(written) => v = written)
  BY WrittenFits, FirstFit
<1>2. PICK n \in 0..Len(f) : sixb = SubSeq(f, 1, n)
  BY DEF LeftOf
<1>3. f = encode_sixb_cache(c)
  BY DEF FileOf
<1> HIDE DEF f, c
<1>4. sixb \in Seq(SixbByte) /\ Len(sixb) = n /\ n \in Nat /\ \A i \in 1..n : sixb[i] = f[i]
  BY <1>1, <1>2
<1>5. Part(sixb, 0, f)
  <2>1. ASSUME NEW i \in 1..Len(f), 0 + i <= Len(sixb) PROVE sixb[0 + i] = f[i]
    <3>1. 0 + i = i /\ i \in 1..n
      BY <1>1, <1>4, <2>1
    <3> QED
      BY <1>4, <3>1
  <2> QED
    BY <2>1 DEF Part
<1>6. decode_sixb_cache(sixb) = c
  BY <1>1, <1>3, <1>4, <1>5, DecodeReads
<1> QED
  BY <1>1, <1>6 DEF c

\* An index that is accepted is that of the chunk.
LEMMA AcceptedReads == ChunkInv /\ SixbInv => AcceptedIndexIsCurrent
<1> SUFFICES ASSUME ChunkInv, SixbInv, HeaderOk(chunk), Accepted(sixb)
             PROVE  decode_sixb_cache(sixb) = IndexOf(chunk)
  BY DEF AcceptedIndexIsCurrent
<1>1. decode_sixb_cache(sixb) # NoIndex /\ decode_sixb_cache(sixb).source = Len(raw_six_data_lines(chunk))
  BY DEF Accepted
<1>2. IndexOf(chunk) = IndexFor(written) /\ Len(raw_six_data_lines(chunk)) = Len(written)
  BY IndexIs DEF ChunkInv
<1>3. PICK m \in 0..Len(written) : LeftOf(sixb, written, m)
  BY DEF SixbInv
<1>4. /\ decode_sixb_cache(sixb) = IndexFor(SubSeq(written, 1, m))
      /\ decode_sixb_cache(sixb).source = m /\ (m = Len(written) => SubSeq(written, 1, m) = written)
  BY <1>1, <1>3, LeftReads
<1>5. m = Len(written)
  BY <1>1, <1>2, <1>4
<1> QED
  BY <1>2, <1>4, <1>5

\* An index file that is accepted, whatever was appended since it was written
\* and wherever it was cut off, is the index of the chunk.
THEOREM AcceptedIsCurrent == Spec => []AcceptedIndexIsCurrent
  BY ChunkInvariant, SixbInvariant, AcceptedReads, PTL
===============================================================================
