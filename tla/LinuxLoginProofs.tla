--------------------------- MODULE LinuxLoginProofs ---------------------------
(***************************************************************************)
(* What installing, removing and configuring leave behind on Linux, and    *)
(* what a login may rely on meanwhile, for every number of logins, clicks  *)
(* and faults, all texts the files may have at first and all versions.     *)
(*                                                                         *)
(* First what FlattenSeq and the operators on texts give, by an induction  *)
(* on numbers that is stated without an operator (Induction); then the     *)
(* lists of steps that the clicks make; then the invariant of the          *)
(* installer, one part after the other, and that of a login.               *)
(***************************************************************************)
EXTENDS LinuxLogin, FiniteSetTheorems, WellFoundedInduction, SequenceTheorems, TLAPS

-----------------------------------------------------------------------------
(* Sequences that are made of sequences.  *)

\* The natural numbers are well founded.
LEMMA Less ==
    \E R : IsWellFoundedOn(R, Nat) /\ \A x, y \in Nat : x < y => <<x, y>> \in R
  <1>1. IsWellFoundedOn(OpToRel(<,Nat), Nat)
    BY NatLessThanWellFounded
  <1>2. \A x, y \in Nat : x < y => <<x,y>> \in OpToRel(<,Nat)
    BY DEF OpToRel
  <1> QED
    BY <1>1, <1>2, Zenon

\* A set of natural numbers has a least one.
LEMMA Least ==
    ASSUME NEW T, T \subseteq Nat, T # {}
    PROVE  \E x \in T : \A y \in T : x <= y
  <1>1. PICK R : IsWellFoundedOn(R, Nat) /\ \A x, y \in Nat : x < y => <<x,y>> \in R
    BY Less
  <1>0. IsWellFoundedOn(R, Nat) /\ T \subseteq Nat /\ T # {}
    BY <1>1
  <1>2. \E x \in T : \A y \in T : ~ (<<y, x>> \in R)
    BY ONLY <1>0, WFMin
  <1>3. PICK x \in T : \A y \in T : ~ (<<y, x>> \in R)
    BY <1>2
  <1>4. \A y \in T : ~(y < x)
    BY <1>1, <1>3
  <1> QED
   BY <1>4

\* Induction up to n, for a set.
LEMMA Induction ==
    ASSUME NEW n \in Nat, NEW S, 0 \in S, \A k \in 0..n - 1 : k \in S => k + 1 \in S
    PROVE  \A k \in 0..n : k \in S
  <1> SUFFICES ASSUME (0..n) \ S # {} PROVE FALSE
    OBVIOUS
  <1> DEFINE T == (0..n) \ S
  <1>0. T \subseteq Nat /\ T # {}
    OBVIOUS
  <1>1. PICK x \in T : \A y \in T : x <= y
    <2> HIDE DEF T
    <2> QED
      BY <1>0, Least
  <1>2. x # 0
    OBVIOUS
  <1>3. x - 1 \in 0..n - 1 /\ x - 1 \notin (0..n) \ S
    BY <1>1, <1>2
  <1> QED
    BY <1>1, <1>3

\* f is what FlattenSeq computes.
Flattens(f, ss) == f = [i \in 1..Len(ss) |-> IF i = 1 THEN ss[i] ELSE f[i-1] \o ss[i]]

\* FlattenSeq is defined on every sequence of sequences.
LEMMA FlattenExists ==
    ASSUME NEW A, NEW ss \in Seq(Seq(A))
    PROVE  \E f : Flattens(f, ss)
  <1> DEFINE G(k, f) == f = [i \in 1..k |-> IF i = 1 THEN ss[i] ELSE f[i-1] \o ss[i]]
             S == {k \in Nat : \E f : G(k, f)}
             n == Len(ss)
  <1>1. 0 \in S
    <2>1. G(0, [i \in 1..0 |-> 0])
      OBVIOUS
    <2> QED
      BY <2>1
  <1>2. ASSUME NEW k \in Nat, k \in S PROVE k + 1 \in S
    <2>1. PICK f : G(k, f)
      BY <1>2
    <2> DEFINE g == [i \in 1..k+1 |-> IF i <= k THEN f[i]
                                      ELSE IF i = 1 THEN ss[i] ELSE f[i-1] \o ss[i]]
    <2>2. ASSUME NEW i \in 1..k+1 PROVE g[i] = IF i = 1 THEN ss[i] ELSE g[i-1] \o ss[i]
      <3>1. CASE i <= k
        <4>1. g[i] = f[i] /\ i \in 1..k
          BY <3>1
        <4>2. i # 1 => g[i - 1] = f[i - 1]
          BY <3>1
        <4>3. f[i] = IF i = 1 THEN ss[i] ELSE f[i-1] \o ss[i]
          BY <2>1, <4>1
        <4> QED
          BY <4>1, <4>2, <4>3
      <3>2. CASE i = k + 1
        <4>1. g[i] = IF i = 1 THEN ss[i] ELSE f[i-1] \o ss[i]
          BY <3>2
        <4>2. i # 1 => g[i - 1] = f[i - 1]
          BY <3>2
        <4> QED
          BY <4>1, <4>2
      <3> QED
        BY <3>1, <3>2
    <2>3. g = [i \in 1..k+1 |-> IF i = 1 THEN ss[i] ELSE g[i-1] \o ss[i]]
      BY <2>2
    <2>4. G(k + 1, g)
      BY <2>3
    <2>5. \E h : G(k + 1, h)
      <3> HIDE DEF G, g
      <3> QED
        BY <2>4
    <2>6. k + 1 \in Nat
      OBVIOUS
    <2> QED
      <3> HIDE DEF G
      <3> QED
        BY <2>5, <2>6
  <1>3. n \in S
    <2>1. n \in Nat
      OBVIOUS
    <2>3. \A k \in 0..n - 1 : k \in S => k + 1 \in S
      BY <1>2
    <2> HIDE DEF S, n
    <2>2. \A k \in 0..n : k \in S
      BY <1>1, <2>3, <2>1, Induction
    <2> QED
      BY <2>1, <2>2
  <1> QED
    BY <1>3 DEF Flattens

\* What it gives is the last of the sequences it makes.
LEMMA FlattenIs ==
    ASSUME NEW A, NEW ss \in Seq(Seq(A)), Len(ss) # 0
    PROVE  \E f : Flattens(f, ss) /\ FlattenSeq(ss) = f[Len(ss)]
  <1> DEFINE f == CHOOSE f : Flattens(f, ss)
  <1>1. Flattens(f, ss)
    BY FlattenExists
  <1>2. FlattenSeq(ss) = f[Len(ss)]
    BY DEF FlattenSeq, Flattens
  <1> QED
    BY <1>1, <1>2

\* The sequences that FlattenSeq makes, one after the other.
Grows(f, ss) ==
    /\ f[0] = <<>> /\ f[Len(ss)] = FlattenSeq(ss)
    /\ \A i \in 1..Len(ss) : f[i] = f[i - 1] \o ss[i]

\* They grow by one of the sequences each.
LEMMA Flattened ==
    ASSUME NEW A, NEW ss \in Seq(Seq(A))
    PROVE  \E f \in [0..Len(ss) -> Seq(A)] : Grows(f, ss)
  <1> DEFINE n == Len(ss)
  <1>0. n \in Nat
    OBVIOUS
  <1>1. CASE n = 0
    <2> DEFINE f == [i \in 0..0 |-> <<>>]
    <2>1. ss = <<>> /\ FlattenSeq(ss) = <<>>
      BY <1>1 DEF FlattenSeq
    <2>2. f \in [0..n -> Seq(A)] /\ Grows(f, ss)
      BY <1>1, <2>1 DEF Grows
    <2> HIDE DEF f
    <2> QED
      BY <2>2
  <1>2. CASE n # 0
    <2>1. PICK g : Flattens(g, ss) /\ FlattenSeq(ss) = g[n]
      BY <1>2, FlattenIs
    <2>0. \A i \in 1..n : g[i] = IF i = 1 THEN ss[i] ELSE g[i - 1] \o ss[i]
      <3>1. g = [i \in 1..n |-> IF i = 1 THEN ss[i] ELSE g[i - 1] \o ss[i]]
        BY <2>1 DEF Flattens
      <3> QED
        BY <3>1
    <2>2. g[1] = ss[1] /\ \A i \in 2..n : g[i] = g[i - 1] \o ss[i]
      <3> HIDE DEF n
      <3>1. 1 \in 1..n
        BY <1>0, <1>2
      <3>2. ASSUME NEW i \in 2..n PROVE i \in 1..n /\ i # 1
        BY <1>0
      <3> QED
        BY <2>0, <3>1, <3>2, Zenon
    <2> DEFINE S == {k \in 0..n : k = 0 \/ g[k] \in Seq(A)}
    <2>3. \A k \in 0..n : k \in S
      <3>1. 0 \in S
        BY <1>0
      <3>2. ASSUME NEW k \in 0..n - 1, k \in S PROVE k + 1 \in S
        <4>1. k + 1 \in 1..n /\ ss[k + 1] \in Seq(A)
          BY <1>0
        <4>2. CASE k = 0
          BY <4>1, <4>2, <2>2
        <4>3. CASE k # 0
          <5>0. k + 1 \in 2..n /\ (k + 1) - 1 = k
            BY <4>1, <4>3
          <5>1. g[k] \in Seq(A) /\ g[k + 1] = g[k] \o ss[k + 1]
            BY <3>2, <4>3, <5>0, <2>2
          <5>2. g[k] \o ss[k + 1] \in Seq(A)
            BY <4>1, <5>1
          <5>3. k + 1 \in 0..n
            OBVIOUS
          <5> QED
            BY <5>1, <5>2, <5>3, Zenon
        <4> QED
          BY <4>2, <4>3
      <3> HIDE DEF S, n
      <3> QED
        BY <1>0, <3>1, <3>2, Induction
    <2> DEFINE f == [i \in 0..n |-> IF i = 0 THEN <<>> ELSE g[i]]
    <2>4. f \in [0..n -> Seq(A)]
      BY <2>3
    <2>5. ASSUME NEW i \in 1..n PROVE f[i] = f[i - 1] \o ss[i]
      <3>1. ss[i] \in Seq(A) /\ <<>> \o ss[i] = ss[i]
        OBVIOUS
      <3>2. CASE i = 1
        BY <1>0, <2>2, <3>1, <3>2
      <3>3. CASE i # 1
        <4>1. f[i] = g[i] /\ f[i - 1] = g[i - 1]
          BY <1>0, <3>3
        <4>2. i \in 2..n
          BY <3>3
        <4>3. g[i] = g[i - 1] \o ss[i]
          <5> HIDE DEF n
          <5> QED
            BY <4>2, <2>2
        <4> QED
          BY <4>1, <4>3
      <3> QED
        BY <3>2, <3>3
    <2>6. f[0] = <<>> /\ f[n] = FlattenSeq(ss)
      BY <1>0, <1>2, <2>1
    <2> HIDE DEF f
    <2> QED
      BY <2>4, <2>5, <2>6 DEF Grows
  <1> QED
    BY <1>1, <1>2

\* What it gives has the elements of the sequences.
LEMMA FlattenType ==
    ASSUME NEW A, NEW ss \in Seq(Seq(A))
    PROVE  FlattenSeq(ss) \in Seq(A)
  <1>1. PICK f \in [0..Len(ss) -> Seq(A)] : Grows(f, ss)
    BY Flattened
  <1>2. Len(ss) \in 0..Len(ss)
    OBVIOUS
  <1> QED
    BY <1>1, <1>2 DEF Grows

\* The lines of a file, each replaced by some of its kind.
Pieces(file, L) == [i \in DOMAIN file |-> IF file[i] \in L THEN <<>> ELSE <<file[i]>>]

\* Without puts one piece, or none, in the place of each line.
LEMMA WithoutPieces ==
    ASSUME NEW A, NEW file \in Seq(A), NEW L
    PROVE  /\ Without(file, L) = FlattenSeq(Pieces(file, L))
           /\ Pieces(file, L) \in Seq(Seq(A \ L))
           /\ Len(Pieces(file, L)) = Len(file)
           /\ Without(file, L) \in Seq(A \ L)
  <1>1. Without(file, L) = FlattenSeq(Pieces(file, L))
    BY DEF Without, Replaced, Pieces
  <1>2. ASSUME NEW i \in DOMAIN file
        PROVE (IF file[i] \in L THEN <<>> ELSE <<file[i]>>) \in Seq(A \ L)
    <2>1. CASE file[i] \in L
      BY <2>1
    <2>2. CASE file[i] \notin L
      <3>1. file[i] \in A \ L
        BY <2>2
      <3> QED
        BY <3>1, <2>2
    <2> QED
      BY <2>1, <2>2
  <1>3. DOMAIN file = 1..Len(file) /\ Len(file) \in Nat
    OBVIOUS
  <1>4. Pieces(file, L) \in Seq(Seq(A \ L)) /\ Len(Pieces(file, L)) = Len(file)
    BY <1>2, <1>3 DEF Pieces
  <1>5. FlattenSeq(Pieces(file, L)) \in Seq(A \ L)
    BY <1>4, FlattenType
  <1> QED
    BY <1>1, <1>4, <1>5

\* A line of Without is the piece of its line.
LEMMA PieceAt ==
    ASSUME NEW A, NEW file \in Seq(A), NEW L, NEW i \in 1..Len(file)
    PROVE  Pieces(file, L)[i] = (IF file[i] \in L THEN <<>> ELSE <<file[i]>>)
  BY DEF Pieces

\* Of a single line.
LEMMA WithoutOne ==
    ASSUME NEW A, NEW x \in A, NEW L
    PROVE  Without(<<x>>, L) = (IF x \in L THEN <<>> ELSE <<x>>)
  <1> DEFINE ss == Pieces(<<x>>, L)
  <1>1. <<x>> \in Seq(A) /\ Len(<<x>>) = 1
    OBVIOUS
  <1>2. /\ Without(<<x>>, L) = FlattenSeq(ss) /\ ss \in Seq(Seq(A \ L)) /\ Len(ss) = 1
        /\ ss[1] = IF x \in L THEN <<>> ELSE <<x>>
    <2>1. Without(<<x>>, L) = FlattenSeq(ss) /\ ss \in Seq(Seq(A \ L)) /\ Len(ss) = 1
      BY <1>1, WithoutPieces
    <2>2. DOMAIN <<x>> = {1} /\ <<x>>[1] = x
      OBVIOUS
    <2>3. ss[1] = IF x \in L THEN <<>> ELSE <<x>>
      BY <2>2 DEF Pieces
    <2> QED
      BY <2>1, <2>3
  <1> HIDE DEF ss
  <1>3. PICK f \in [0..Len(ss) -> Seq(A \ L)] : Grows(f, ss)
    BY <1>2, Flattened
  <1>4. f[1] = f[0] \o ss[1] /\ f[0] = <<>> /\ f[1] = FlattenSeq(ss)
    BY <1>2, <1>3 DEF Grows
  <1>5. ss[1] \in Seq(A \ L)
    BY <1>2
  <1> QED
    BY <1>2, <1>4, <1>5

\* Of two texts in a row.
LEMMA WithoutConcat ==
    ASSUME NEW A, NEW s \in Seq(A), NEW t \in Seq(A), NEW L
    PROVE  Without(s \o t, L) = Without(s, L) \o Without(t, L)
  <1> DEFINE n == Len(s)
             m == Len(t)
             ps == Pieces(s, L)
             pt == Pieces(t, L)
             p == Pieces(s \o t, L)
             B == A \ L
  <1>1. n \in Nat /\ m \in Nat /\ s \o t \in Seq(A) /\ Len(s \o t) = n + m
    OBVIOUS
  <1>2. ps \in Seq(Seq(B)) /\ Len(ps) = n /\ Without(s, L) = FlattenSeq(ps)
    BY WithoutPieces
  <1>3. pt \in Seq(Seq(B)) /\ Len(pt) = m /\ Without(t, L) = FlattenSeq(pt)
    BY WithoutPieces
  <1>4. p \in Seq(Seq(B)) /\ Len(p) = n + m /\ Without(s \o t, L) = FlattenSeq(p)
    BY <1>1, WithoutPieces
  <1>5. ASSUME NEW i \in 1..n PROVE p[i] = ps[i]
    <2>1. i \in 1..Len(s \o t) /\ (s \o t)[i] = s[i]
      BY <1>1
    <2>2. p[i] = IF (s \o t)[i] \in L THEN <<>> ELSE <<(s \o t)[i]>>
      <3> DEFINE u == s \o t
      <3>1. u \in Seq(A) /\ i \in 1..Len(u)
        BY <1>1, <2>1
      <3> HIDE DEF u
      <3>2. Pieces(u, L)[i] = (IF u[i] \in L THEN <<>> ELSE <<u[i]>>)
        BY <3>1, PieceAt
      <3> QED
        BY <3>2 DEF u
    <2>3. ps[i] = IF s[i] \in L THEN <<>> ELSE <<s[i]>>
      BY PieceAt
    <2> HIDE DEF p, ps
    <2> QED
      BY <2>1, <2>2, <2>3
  <1>6. ASSUME NEW i \in 1..m PROVE p[n + i] = pt[i]
    <2>1. n + i \in 1..Len(s \o t) /\ (s \o t)[n + i] = t[i]
      BY <1>1
    <2>2. p[n + i] = IF (s \o t)[n + i] \in L THEN <<>> ELSE <<(s \o t)[n + i]>>
      <3> DEFINE u == s \o t
                 j == n + i
      <3>1. u \in Seq(A) /\ j \in 1..Len(u)
        BY <1>1, <2>1
      <3> HIDE DEF u, j
      <3>2. Pieces(u, L)[j] = (IF u[j] \in L THEN <<>> ELSE <<u[j]>>)
        BY <3>1, PieceAt
      <3> QED
        BY <3>2 DEF u, j
    <2>3. pt[i] = IF t[i] \in L THEN <<>> ELSE <<t[i]>>
      BY PieceAt
    <2> HIDE DEF p, pt
    <2> QED
      BY <2>1, <2>2, <2>3
  <1> HIDE DEF ps, pt, p, B, n, m
  <1>7. PICK f \in [0..n -> Seq(B)] : Grows(f, ps)
    BY <1>2, Flattened
  <1>8. PICK g \in [0..m -> Seq(B)] : Grows(g, pt)
    BY <1>3, Flattened
  <1>9. PICK h \in [0..n + m -> Seq(B)] : Grows(h, p)
    BY <1>4, Flattened
  <1>10. \A k \in 0..n : h[k] = f[k]
    <2> DEFINE S == {k \in 0..n : h[k] = f[k]}
    <2>1. 0 \in S
      BY <1>1, <1>7, <1>9 DEF Grows
    <2>2. ASSUME NEW k \in 0..n - 1, k \in S PROVE k + 1 \in S
      <3>1. k + 1 \in 1..n /\ k + 1 \in 1..n + m /\ (k + 1) - 1 = k
        BY <1>1
      <3>2. h[k + 1] = h[k] \o p[k + 1] /\ f[k + 1] = f[k] \o ps[k + 1]
        BY <1>2, <1>4, <1>7, <1>9, <3>1 DEF Grows
      <3>3. p[k + 1] = ps[k + 1] /\ h[k] = f[k]
        BY <1>5, <2>2, <3>1
      <3>4. h[k + 1] = f[k + 1]
        BY <3>2, <3>3
      <3> QED
        BY <3>1, <3>4
    <2>3. \A k \in 0..n : k \in S
      <3> HIDE DEF S
      <3> QED
        BY <1>1, <2>1, <2>2, Induction
    <2> QED
      BY <2>3
  <1>11. \A k \in 0..m : h[n + k] = f[n] \o g[k]
    <2> DEFINE S == {k \in 0..m : h[n + k] = f[n] \o g[k]}
    <2>0. f[n] \in Seq(B)
      BY <1>1, <1>7
    <2>1. 0 \in S
      <3>1. g[0] = <<>> /\ f[n] \o <<>> = f[n]
        BY <1>8, <2>0 DEF Grows
      <3>2. h[n + 0] = f[n]
        BY <1>1, <1>10
      <3>3. h[n + 0] = f[n] \o g[0]
        BY <3>1, <3>2
      <3> QED
        BY <1>1, <3>3
    <2>2. ASSUME NEW k \in 0..m - 1, k \in S PROVE k + 1 \in S
      <3>1. /\ k + 1 \in 1..m /\ n + (k + 1) \in 1..n + m /\ (k + 1) - 1 = k
            /\ (n + (k + 1)) - 1 = n + k
        BY <1>1
      <3>2. h[n + (k + 1)] = h[n + k] \o p[n + (k + 1)] /\ g[k + 1] = g[k] \o pt[k + 1]
        BY <1>3, <1>4, <1>8, <1>9, <3>1 DEF Grows
      <3>3. p[n + (k + 1)] = pt[k + 1] /\ h[n + k] = f[n] \o g[k]
        BY <1>6, <2>2, <3>1
      <3>4. g[k] \in Seq(B) /\ pt[k + 1] \in Seq(B)
        BY <1>3, <1>8, <3>1
      <3>5. (f[n] \o g[k]) \o pt[k + 1] = f[n] \o (g[k] \o pt[k + 1])
        <4> DEFINE a == f[n]
                   b == g[k]
                   c == pt[k + 1]
        <4> HIDE DEF a, b, c
        <4>1. a \in Seq(B) /\ b \in Seq(B) /\ c \in Seq(B)
          BY <2>0, <3>4 DEF a, b, c
        <4>2. (a \o b) \o c = a \o (b \o c)
          BY <4>1, ConcatAssociative
        <4> QED
          BY <4>2 DEF a, b, c
      <3>6. h[n + (k + 1)] = f[n] \o g[k + 1]
        BY <3>2, <3>3, <3>5
      <3>7. k + 1 \in 0..m
        BY <3>1
      <3> QED
        BY <3>6, <3>7, Zenon
    <2>3. \A k \in 0..m : k \in S
      <3> HIDE DEF S
      <3> QED
        BY <1>1, <2>1, <2>2, Induction
    <2> QED
      BY <2>3
  <1>12. FlattenSeq(p) = h[n + m] /\ FlattenSeq(ps) = f[n] /\ FlattenSeq(pt) = g[m]
    BY <1>2, <1>3, <1>4, <1>7, <1>8, <1>9 DEF Grows
  <1>13. h[n + m] = f[n] \o g[m]
    BY <1>1, <1>11
  <1> QED
    BY <1>2, <1>3, <1>4, <1>12, <1>13

\* Lines that are put in for a line make no difference if they are left out with it.
LEMMA WithoutReplaced ==
    ASSUME NEW A, NEW file \in Seq(A), NEW ss \in Seq(Seq(A)), NEW L, Len(ss) = Len(file),
           \A i \in 1..Len(file) :
               Without(ss[i], L) = IF file[i] \in L THEN <<>> ELSE <<file[i]>>
    PROVE  Without(FlattenSeq(ss), L) = Without(file, L)
  <1> DEFINE n == Len(file)
             p == Pieces(file, L)
             B == A \ L
  <1>1. n \in Nat /\ p \in Seq(Seq(B)) /\ Len(p) = n /\ Without(file, L) = FlattenSeq(p)
    <2>1. n \in Nat
      OBVIOUS
    <2> QED
      BY <2>1, WithoutPieces
  <1>2. ASSUME NEW i \in 1..n PROVE Without(ss[i], L) = p[i] /\ ss[i] \in Seq(A)
    <2>1. p[i] = (IF file[i] \in L THEN <<>> ELSE <<file[i]>>)
      <3>1. i \in 1..Len(file) /\ DOMAIN file = 1..Len(file)
        OBVIOUS
      <3> QED
        BY <3>1 DEF Pieces
    <2>2. ss[i] \in Seq(A)
      OBVIOUS
    <2> QED
      BY <2>1, <2>2
  <1> HIDE DEF n, p
  <1>3. PICK f \in [0..n -> Seq(A)] : Grows(f, ss)
    BY Flattened DEF n
  <1>4. PICK g \in [0..n -> Seq(B)] : Grows(g, p)
    BY <1>1, Flattened
  <1> DEFINE S == {k \in 0..n : Without(f[k], L) = g[k]}
  <1>5. 0 \in S
    <2>1. <<>> \in Seq(A) /\ Without(<<>>, L) = <<>>
      BY DEF Without, Replaced, FlattenSeq
    <2> QED
      BY <1>1, <1>3, <1>4, <2>1 DEF Grows
  <1>6. ASSUME NEW k \in 0..n - 1, k \in S PROVE k + 1 \in S
    <2>1. k + 1 \in 1..n /\ (k + 1) - 1 = k /\ Len(ss) = n
      BY <1>1 DEF n
    <2>2. f[k + 1] = f[k] \o ss[k + 1] /\ g[k + 1] = g[k] \o p[k + 1]
      BY <1>1, <1>3, <1>4, <2>1 DEF Grows
    <2>3. Without(f[k], L) = g[k] /\ Without(ss[k + 1], L) = p[k + 1] /\ ss[k + 1] \in Seq(A)
      <3>1. Without(f[k], L) = g[k]
        BY <1>6
      <3>2. Without(ss[k + 1], L) = p[k + 1] /\ ss[k + 1] \in Seq(A)
        BY <1>2, <2>1
      <3> QED
        BY <3>1, <3>2
    <2>4. f[k] \in Seq(A)
      <3>1. k \in 0..n
        BY <1>1
      <3> QED
        BY <1>3, <3>1
    <2>5. Without(f[k] \o ss[k + 1], L) = Without(f[k], L) \o Without(ss[k + 1], L)
      <3> DEFINE a == f[k]
                 b == ss[k + 1]
      <3> HIDE DEF a, b
      <3>1. a \in Seq(A) /\ b \in Seq(A)
        BY <2>3, <2>4 DEF a, b
      <3>2. Without(a \o b, L) = Without(a, L) \o Without(b, L)
        BY <3>1, WithoutConcat
      <3> QED
        BY <3>2 DEF a, b
    <2>6. Without(f[k + 1], L) = g[k + 1]
      BY <2>2, <2>3, <2>5
    <2>7. k + 1 \in 0..n
      BY <2>1
    <2> QED
      BY <2>6, <2>7, Zenon
  <1>7. n \in S
    <2> HIDE DEF S
    <2>1. \A k \in 0..n : k \in S
      BY <1>1, <1>5, <1>6, Induction
    <2> QED
      BY <1>1, <2>1
  <1> QED
    BY <1>1, <1>3, <1>4, <1>7 DEF Grows, n

-----------------------------------------------------------------------------
(* The texts of the files.  *)

Existing == {Include(i) : i \in Includes}
Missing == {Include(i) : i \in {"system-auth", "common-auth"} \ Includes}

\* What has to follow a line that skips the next one.
Link(s, x, y) == x = UnixFirst => s = "sddm" /\ y = Module
Leads == {UnixFirst}

\* A text that includes a file, if there is one to include.
Refers(text) == Includes # {} => ToSet(text) \cap Existing # {}

\* A text that does not keep anybody out: nothing but the module's line is skipped,
\* and what it includes exists, but for the one generated where nothing exists.
Linked(s, text) ==
    \A k \in 1..Len(text) :
        text[k] \in Leads => k < Len(text) /\ Link(s, text[k], text[k + 1])
Text(s, text) ==
    /\ text \in Seq(Lines)
    /\ Linked(s, text)
    /\ ToSet(text) \cap Missing # {} => Includes = {} /\ Own \notin ToSet(text)

\* Lines that differ.
LEMMA LinesDiffer ==
    /\ UnixFirst \notin {Header, Generated, Module, Comment, Own, Session}
    /\ Module \notin {Header, Generated, Comment, Own, Session}
    /\ Generated \notin {Header, Comment, Own, Session}
    /\ Own \notin {Header, Comment, Session}
    /\ Header \notin {Comment, Session}
    /\ \A i : Include(i) \notin {UnixFirst, Module, Generated, Header, Own, Comment, Session}
    /\ Include("system-auth") # Include("common-auth")
  BY Zenon DEF UnixFirst, Header, Generated, Module, Comment, Own, Session, Include

\* The entries: their last line is the module, and what they skip is that line.
LEMMA Entries ==
    ASSUME NEW s
    PROVE  /\ Entry(s) \in Seq({UnixFirst, Module}) /\ Entry(s) \in Seq(Lines)
           /\ Len(Entry(s)) \in {1, 2} /\ Entry(s)[Len(Entry(s))] = Module
           /\ ToSet(Entry(s)) = {Entry(s)[i] : i \in 1..Len(Entry(s))}
           /\ ToSet(Entry(s)) \subseteq {UnixFirst, Module}
           /\ s = "sddm" => ToSet(Entry(s)) = {UnixFirst, Module}
           /\ s # "sddm" => ToSet(Entry(s)) = {Module}
           /\ Linked(s, Entry(s))
  <1>1. CASE s = "sddm"
    <2>1. Entry(s) = <<UnixFirst, Module>>
      BY <1>1 DEF Entry
    <2>2. ToSet(<<UnixFirst, Module>>) = {UnixFirst, Module}
      BY DEF ToSet
    <2> DEFINE e == <<UnixFirst, Module>>
    <2>4. /\ Len(e) = 2 /\ e[1] = UnixFirst /\ e[2] = Module /\ DOMAIN e = 1..2
          /\ e \in Seq({UnixFirst, Module}) /\ e \in Seq(Lines)
      BY DEF Lines
    <2> HIDE DEF e
    <2>3. Linked(s, e)
      <3> SUFFICES ASSUME NEW k \in 1..2, e[k] \in Leads PROVE k < 2 /\ Link(s, e[k], e[k + 1])
        BY <2>4 DEF Linked
      <3>1. k = 1
        BY <2>4, LinesDiffer DEF Leads
      <3> QED
        BY <1>1, <2>4, <3>1, LinesDiffer DEF Link
    <2>5. ToSet(e) = {e[i] : i \in 1..Len(e)}
      BY <2>4 DEF ToSet
    <2> QED
      BY <1>1, <2>1, <2>2, <2>3, <2>4, <2>5, LinesDiffer DEF e
  <1>2. CASE s # "sddm"
    <2>1. Entry(s) = <<Module>>
      BY <1>2 DEF Entry
    <2>2. ToSet(<<Module>>) = {Module}
      BY DEF ToSet
    <2> DEFINE e == <<Module>>
    <2>4. /\ Len(e) = 1 /\ e[1] = Module /\ DOMAIN e = 1..1
          /\ e \in Seq({UnixFirst, Module}) /\ e \in Seq(Lines)
      BY DEF Lines
    <2> HIDE DEF e
    <2>3. Linked(s, e)
      BY <2>4, LinesDiffer DEF Linked, Leads
    <2>5. ToSet(e) = {e[i] : i \in 1..Len(e)}
      BY <2>4 DEF ToSet
    <2> QED
      BY <1>2, <2>1, <2>2, <2>3, <2>4, <2>5, LinesDiffer DEF e
  <1> QED
    BY <1>1, <1>2

\* The elements of a sequence.
LEMMA Elements ==
    ASSUME NEW A, NEW t \in Seq(A)
    PROVE  /\ ToSet(t) = {t[i] : i \in 1..Len(t)} /\ ToSet(t) \subseteq A
           /\ t \in Seq(ToSet(t))
           /\ \A x : Contains(t, x) <=> x \in ToSet(t)
  BY DEF ToSet, Contains

\* Two linked texts in a row, the first of which ends with a line that leads nowhere.
LEMMA LinkedConcat ==
    ASSUME NEW s, NEW a \in Seq(Lines), NEW b \in Seq(Lines), Linked(s, a), Linked(s, b)
    PROVE  Linked(s, a \o b)
  <1> DEFINE t == a \o b
             n == Len(a)
             m == Len(b)
  <1>1. n \in Nat /\ m \in Nat /\ Len(t) = n + m
    OBVIOUS
  <1>2. \A k \in 1..n : t[k] = a[k]
    OBVIOUS
  <1>3. \A k \in 1..m : t[n + k] = b[k]
    OBVIOUS
  <1> SUFFICES ASSUME NEW k \in 1..n + m, t[k] \in Leads
               PROVE  k < n + m /\ Link(s, t[k], t[k + 1])
    BY <1>1 DEF Linked
  <1> HIDE DEF t
  <1>4. CASE k <= n
    <2>1. t[k] = a[k] /\ k \in 1..n
      BY <1>1, <1>2, <1>4
    <2>2. k < n /\ Link(s, a[k], a[k + 1])
      BY <2>1 DEF Linked
    <2> HIDE DEF n, m
    <2>3. k + 1 \in 1..n /\ t[k + 1] = a[k + 1]
      BY <1>1, <1>2, <2>1, <2>2
    <2> QED
      BY <1>1, <2>1, <2>2, <2>3
  <1>5. CASE k > n
    <2> DEFINE j == k - n
    <2>1. j \in 1..m /\ k = n + j
      BY <1>1, <1>5
    <2>2. t[k] = b[j]
      <3> HIDE DEF j, n, m
      <3> QED
        BY <1>3, <2>1
    <2>3. j < m /\ Link(s, b[j], b[j + 1])
      <3> HIDE DEF j
      <3> QED
        BY <2>1, <2>2 DEF Linked
    <2>4. j + 1 \in 1..m /\ k + 1 = n + (j + 1)
      <3> HIDE DEF n, m
      <3> QED
        BY <1>1, <2>1, <2>3
    <2>5. t[k + 1] = b[j + 1]
      <3> HIDE DEF n, m, j
      <3> QED
        BY <1>3, <2>4
    <2> HIDE DEF n, m, j
    <2> QED
      BY <1>1, <2>1, <2>2, <2>3, <2>5
  <1> QED
    BY <1>1, <1>4, <1>5

\* Those of two sequences in a row.
LEMMA ConcatElements ==
    ASSUME NEW A, NEW a \in Seq(A), NEW b \in Seq(A)
    PROVE  ToSet(a \o b) = ToSet(a) \cup ToSet(b)
  <1> DEFINE n == Len(a)
             m == Len(b)
             t == a \o b
  <1>1. n \in Nat /\ m \in Nat /\ Len(t) = n + m /\ t \in Seq(A)
    OBVIOUS
  <1>2. \A k \in 1..n : t[k] = a[k]
    OBVIOUS
  <1>3. \A k \in 1..m : t[n + k] = b[k]
    OBVIOUS
  <1>4. /\ ToSet(a) = {a[k] : k \in 1..n} /\ ToSet(b) = {b[k] : k \in 1..m}
        /\ ToSet(t) = {t[k] : k \in 1..n + m}
    BY <1>1, Elements
  <1> HIDE DEF n, m, t
  <1>5. \A k \in 1..n : k \in 1..n + m
    BY <1>1
  <1>6. \A k \in 1..m : n + k \in 1..n + m
    BY <1>1
  <1>7. \A k \in 1..n + m : k \in 1..n \/ (k - n \in 1..m /\ n + (k - n) = k)
    BY <1>1
  <1> QED
    <2>1. ToSet(a) \subseteq ToSet(t)
      BY <1>2, <1>4, <1>5
    <2>2. ToSet(b) \subseteq ToSet(t)
      BY <1>3, <1>4, <1>6
    <2>3. ASSUME NEW k \in 1..n + m PROVE t[k] \in ToSet(a) \cup ToSet(b)
      <3>1. CASE k \in 1..n
        BY <1>2, <1>4, <3>1
      <3>2. CASE k - n \in 1..m /\ n + (k - n) = k
        <4>1. t[n + (k - n)] = b[k - n]
          BY <1>3, <3>2
        <4>2. t[k] = b[k - n]
          BY <4>1, <3>2
        <4> QED
          BY <1>4, <3>2, <4>2
      <3> QED
        BY <1>7, <3>1, <3>2
    <2> QED
      BY <1>4, <2>1, <2>2, <2>3 DEF t

\* The lines that include another file.
LEMMA ExistingLines ==
    /\ Existing \subseteq Lines /\ Missing \subseteq Lines /\ Existing \cap Missing = {}
    /\ \A x \in Existing \cup Missing : x \notin {UnixFirst, Module, Generated, Header, Own}
  <1> DEFINE names == {"system-auth", "common-auth"}
  <1>1. \A i, j \in names : Include(i) = Include(j) => i = j
    BY LinesDiffer
  <1>2. Includes \subseteq names
    BY InstallerAssumption
  <1> HIDE DEF names
  <1>3. Existing = {Include(i) : i \in Includes} /\ Missing = {Include(i) : i \in names \ Includes}
    BY DEF Existing, Missing, names
  <1>4. Existing \cap Missing = {}
    BY <1>1, <1>2, <1>3
  <1>5. Existing \subseteq Lines /\ Missing \subseteq Lines
    BY <1>2, <1>3 DEF Lines, names
  <1>6. \A x \in Existing \cup Missing : \E i : x = Include(i)
    BY <1>3
  <1> QED
    BY <1>4, <1>5, <1>6, LinesDiffer

\* A generated file keeps nobody out, and has the entry.
LEMMA GeneratedText ==
    ASSUME NEW s
    PROVE  LET text == GeneratedConfig(Entry(s), Includes)
           IN  /\ Text(s, text) /\ IsConfigGenerated(text) /\ Refers(text)
               /\ ToSet(Entry(s)) \subseteq ToSet(text)
  <1> DEFINE i == IF "system-auth" \in Includes THEN "system-auth" ELSE "common-auth"
             inc == Include(i)
             h == <<Header>>
             e == Entry(s)
             g == <<Generated, inc>>
             t == (h \o e) \o g
  <1>1. GeneratedConfig(Entry(s), Includes) = t
    BY DEF GeneratedConfig
  <1>2. /\ inc \in Lines /\ (Includes # {} => inc \in Existing)
        /\ inc \notin {UnixFirst, Module, Generated, Header, Own}
    BY InstallerAssumption, LinesDiffer DEF Lines, Existing
  <1> HIDE DEF inc
  <1>3. Header \in Lines /\ Generated \in Lines
    BY DEF Lines
  <1>4. h \in Seq(Lines) /\ Len(h) = 1 /\ h[1] = Header /\ ToSet(h) = {Header}
    <2>1. h \in Seq(Lines) /\ Len(h) = 1 /\ h[1] = Header
      BY <1>3
    <2> HIDE DEF h
    <2>2. ToSet(h) = {h[k] : k \in 1..1}
      BY <2>1, Elements
    <2> QED
      BY <2>1, <2>2
  <1>5. Linked(s, h)
    <2> HIDE DEF h
    <2> QED
      BY <1>4, LinesDiffer DEF Linked, Leads
  <1>6. g \in Seq(Lines) /\ Len(g) = 2 /\ g[1] = Generated /\ g[2] = inc
    BY <1>2, <1>3
  <1>7. ToSet(g) = {Generated, inc}
    <2> HIDE DEF g
    <2>1. ToSet(g) = {g[k] : k \in 1..2}
      BY <1>6, Elements
    <2> QED
      BY <1>6, <2>1
  <1>8. Linked(s, g)
    <2> HIDE DEF g
    <2>1. ASSUME NEW k \in 1..2 PROVE g[k] \notin Leads
      BY <1>2, <1>6, LinesDiffer DEF Leads
    <2> QED
      BY <1>6, <2>1 DEF Linked
  <1>9. e \in Seq(Lines) /\ Linked(s, e) /\ ToSet(e) \subseteq {UnixFirst, Module}
    BY Entries
  <1> HIDE DEF h, e, g
  <1>10. h \o e \in Seq(Lines) /\ t \in Seq(Lines)
    BY <1>4, <1>6, <1>9
  <1>11. Linked(s, h \o e)
    BY <1>4, <1>5, <1>9, LinkedConcat
  <1>12. Linked(s, t)
    BY <1>6, <1>8, <1>10, <1>11, LinkedConcat
  <1>13. ToSet(t) = (ToSet(h) \cup ToSet(e)) \cup ToSet(g)
    <2>1. ToSet(h \o e) = ToSet(h) \cup ToSet(e)
      BY <1>4, <1>9, ConcatElements
    <2> DEFINE he == h \o e
    <2>2. he \in Seq(Lines)
      BY <1>10
    <2> HIDE DEF he
    <2>3. ToSet(he \o g) = ToSet(he) \cup ToSet(g)
      BY <2>2, <1>6, ConcatElements
    <2> QED
      BY <2>1, <2>3 DEF he
  <1>14. Generated \in ToSet(t) /\ Own \notin ToSet(t)
    BY <1>2, <1>4, <1>7, <1>9, <1>13, LinesDiffer
  <1>15. ToSet(t) \cap Missing # {} => Includes = {}
    BY <1>2, <1>4, <1>7, <1>9, <1>13, ExistingLines
  <1>18. Refers(t)
    BY <1>2, <1>7, <1>13 DEF Refers
  <1> HIDE DEF t
  <1>16. Contains(t, Generated)
    BY <1>10, <1>14, Elements
  <1>17. ToSet(Entry(s)) \subseteq ToSet(t)
    BY <1>13 DEF e
  <1> QED
    BY <1>1, <1>10, <1>12, <1>14, <1>15, <1>16, <1>17, <1>18 DEF Text, IsConfigGenerated

\* Nor does a file that an entry is taken out of.
LEMMA RemovedText ==
    ASSUME NEW s, NEW text, Text(s, text)
    PROVE  LET new == RemoveEntryFromFile(text, Entry(s))
           IN  Text(s, new) /\ (~IsConfigGenerated(text) => ~IsConfigGenerated(new))
  <1> DEFINE new == Without(text, ToSet(Entry(s)))
  <1>1. text \in Seq(ToSet(text)) /\ text \in Seq(Lines) /\ ToSet(text) \subseteq Lines
    BY Elements DEF Text
  <1>2. new \in Seq(ToSet(text) \ ToSet(Entry(s)))
    BY <1>1, WithoutPieces
  <1> HIDE DEF new
  <1>3. ToSet(new) \subseteq ToSet(text) \ ToSet(Entry(s)) /\ new \in Seq(Lines)
    <2>1. new \in Seq(Lines)
      BY <1>1, <1>2
    <2>2. ToSet(new) \subseteq ToSet(text) \ ToSet(Entry(s))
      BY <1>2, Elements
    <2> QED
      BY <2>1, <2>2
  <1>4. ~IsConfigGenerated(text) => Generated \notin ToSet(new)
    BY <1>1, <1>3, Elements DEF IsConfigGenerated
  <1>5. UnixFirst \notin ToSet(new)
    <2>1. CASE s = "sddm"
      BY <1>3, <2>1, Entries
    <2>2. CASE s # "sddm"
      <3>1. UnixFirst \notin ToSet(text)
        <4>1. ASSUME NEW k \in 1..Len(text), text[k] = UnixFirst PROVE FALSE
          BY <2>2, <4>1 DEF Text, Linked, Leads, Link
        <4> QED
          BY <1>1, <4>1, Elements
      <3> QED
        BY <1>3, <3>1
    <2> QED
      BY <2>1, <2>2
  <1>6. Linked(s, new)
    <2>1. ASSUME NEW k \in 1..Len(new) PROVE new[k] \notin Leads
      <3>1. new[k] \in ToSet(new)
        BY <1>3, Elements
      <3> QED
        BY <1>5, <3>1 DEF Leads
    <2> QED
      BY <2>1 DEF Linked
  <1>7. Text(s, new)
    BY <1>3, <1>6 DEF Text
  <1>8. ~IsConfigGenerated(text) => ~IsConfigGenerated(new)
    BY <1>3, <1>4, Elements DEF IsConfigGenerated
  <1> QED
    BY <1>7, <1>8 DEF RemoveEntryFromFile, new

\* Linked, but for the last line, which may be x and lead to what is to come.
Open(s, a, x) ==
    \A j \in 1..Len(a) :
        a[j] \in Leads => \/ j < Len(a) /\ Link(s, a[j], a[j + 1])
                          \/ j = Len(a) /\ a[j] = x

\* A text that is open, and what its last line leads to.
LEMMA OpenConcat ==
    ASSUME NEW s, NEW a \in Seq(Lines), NEW b \in Seq(Lines), NEW x, NEW y,
           Open(s, a, x), Open(s, b, y), Len(b) > 0, x \in Leads => Link(s, x, b[1])
    PROVE  Open(s, a \o b, y)
  <1> DEFINE t == a \o b
             n == Len(a)
             m == Len(b)
  <1>1. n \in Nat /\ m \in Nat /\ m > 0 /\ Len(t) = n + m
    OBVIOUS
  <1>2. \A k \in 1..n : t[k] = a[k]
    OBVIOUS
  <1>3. \A k \in 1..m : t[n + k] = b[k]
    OBVIOUS
  <1> SUFFICES ASSUME NEW k \in 1..n + m, t[k] \in Leads
               PROVE  \/ k < n + m /\ Link(s, t[k], t[k + 1])
                      \/ k = n + m /\ t[k] = y
    BY <1>1 DEF Open
  <1> HIDE DEF t
  <1>4. CASE k <= n
    <2>1. t[k] = a[k] /\ k \in 1..n
      BY <1>1, <1>2, <1>4
    <2>2. CASE k < n /\ Link(s, a[k], a[k + 1])
      <3> HIDE DEF n, m
      <3>1. k + 1 \in 1..n /\ t[k + 1] = a[k + 1]
        BY <1>1, <1>2, <2>1, <2>2
      <3> QED
        BY <1>1, <2>1, <2>2, <3>1
    <2>3. CASE k = n /\ a[k] = x
      <3> HIDE DEF n, m
      <3>1. t[n + 1] = b[1] /\ n < n + m
        BY <1>1, <1>3
      <3> QED
        BY <2>1, <2>3, <3>1
    <2> QED
      BY <2>1, <2>2, <2>3 DEF Open
  <1>5. CASE k > n
    <2> DEFINE j == k - n
    <2>1. j \in 1..m /\ k = n + j
      BY <1>1, <1>5
    <2>2. t[k] = b[j]
      <3> HIDE DEF j, n, m
      <3> QED
        BY <1>3, <2>1
    <2>3. (j < m /\ Link(s, b[j], b[j + 1])) \/ (j = m /\ b[j] = y)
      <3> HIDE DEF j
      <3> QED
        BY <2>1, <2>2 DEF Open
    <2> HIDE DEF n, m, j
    <2>4. CASE j < m /\ Link(s, b[j], b[j + 1])
      <3>1. j + 1 \in 1..m /\ k + 1 = n + (j + 1)
        <4>1. n \in Nat /\ m \in Nat
          BY <1>1
        <4>2. j \in 1..m /\ k = n + j /\ j < m
          BY <2>1, <2>4
        <4>3. j + 1 \in 1..m
          BY <4>1, <4>2
        <4>4. k + 1 = n + (j + 1)
          BY <4>1, <4>2
        <4> QED
          BY <4>3, <4>4
      <3>2. t[k + 1] = b[j + 1]
        BY <1>3, <3>1
      <3> QED
        BY <1>1, <2>1, <2>2, <2>4, <3>2
    <2>5. CASE j = m /\ b[j] = y
      BY <1>1, <2>1, <2>2, <2>5
    <2> QED
      BY <2>3, <2>4, <2>5
  <1> QED
    BY <1>1, <1>4, <1>5

\* The elements of each sequence are among those of all.
LEMMA FlattenElements ==
    ASSUME NEW A, NEW ss \in Seq(Seq(A))
    PROVE  \A i \in 1..Len(ss) : ToSet(ss[i]) \subseteq ToSet(FlattenSeq(ss))
  <1> DEFINE n == Len(ss)
  <1>1. n \in Nat
    OBVIOUS
  <1>2. PICK f \in [0..n -> Seq(A)] : Grows(f, ss)
    BY Flattened
  <1> DEFINE S == {k \in 0..n : \A i \in 1..k : ToSet(ss[i]) \subseteq ToSet(f[k])}
  <1>3. 0 \in S
    BY <1>1
  <1>4. ASSUME NEW k \in 0..n - 1, k \in S PROVE k + 1 \in S
    <2>1. k + 1 \in 1..n /\ (k + 1) - 1 = k /\ k \in 0..n
      BY <1>1
    <2>2. f[k + 1] = f[k] \o ss[k + 1] /\ f[k] \in Seq(A) /\ ss[k + 1] \in Seq(A)
      <3>1. ss[k + 1] \in Seq(A)
        BY <2>1
      <3>2. f[k] \in Seq(A)
        BY <1>2, <2>1
      <3>3. f[k + 1] = f[k] \o ss[k + 1]
        BY <1>2, <2>1 DEF Grows
      <3> QED
        BY <3>1, <3>2, <3>3
    <2> DEFINE a == f[k]
               b == ss[k + 1]
    <2> HIDE DEF a, b
    <2>3. ToSet(a \o b) = ToSet(a) \cup ToSet(b)
      BY <2>2, ConcatElements DEF a, b
    <2>4. ToSet(f[k + 1]) = ToSet(f[k]) \cup ToSet(ss[k + 1])
      BY <2>2, <2>3 DEF a, b
    <2>5. \A i \in 1..k : ToSet(ss[i]) \subseteq ToSet(f[k])
      BY <1>4
    <2>6. \A i \in 1..k + 1 : i \in 1..k \/ i = k + 1
      OBVIOUS
    <2>7. \A i \in 1..k + 1 : ToSet(ss[i]) \subseteq ToSet(f[k + 1])
      BY <2>4, <2>5, <2>6
    <2> QED
      BY <2>1, <2>7
  <1>5. n \in S
    <2> HIDE DEF S, n
    <2>1. \A k \in 0..n : k \in S
      BY <1>1, <1>3, <1>4, Induction
    <2> QED
      BY <1>1, <2>1
  <1> QED
    BY <1>2, <1>5 DEF Grows

\* A text with one more line before it.
LEMMA LineBefore ==
    ASSUME NEW A, NEW x \in A, NEW t \in Seq(A)
    PROVE  <<x>> \o t \in Seq(A) /\ Len(<<x>> \o t) > 0 /\ (<<x>> \o t)[1] = x
  OBVIOUS

AddPieces(file, entry) ==
    [i \in DOMAIN file |-> IF file[i] = Header THEN <<file[i]>> \o entry ELSE <<file[i]>>]

\* What AddEntryToFile makes, piece by piece.
LEMMA AddIs ==
    ASSUME NEW s, NEW text \in Seq(Lines)
    PROVE  LET p == AddPieces(text, Entry(s))
               a == IF Contains(text, Header) THEN <<>> ELSE <<Header>> \o Entry(s)
           IN  /\ AddEntryToFile(text, Entry(s)) = a \o FlattenSeq(p)
               /\ a \in Seq(Lines) /\ Linked(s, a)
               /\ ToSet(a) \subseteq {Header, UnixFirst, Module}
               /\ Header \in ToSet(text) \/ ToSet(Entry(s)) \subseteq ToSet(a)
               /\ Len(p) = Len(text) /\ p \in Seq(Seq(Lines))
               /\ p \in Seq(Seq(ToSet(text) \cup {UnixFirst, Module}))
               /\ \A i \in 1..Len(text) :
                     p[i] = IF text[i] = Header THEN <<Header>> \o Entry(s) ELSE <<text[i]>>
  <1> DEFINE p == AddPieces(text, Entry(s))
             h == <<Header>>
             e == Entry(s)
             he == h \o e
             a == IF Contains(text, Header) THEN <<>> ELSE he
             A == ToSet(text) \cup {UnixFirst, Module}
  <1>1. AddEntryToFile(text, Entry(s)) = a \o FlattenSeq(p)
    BY DEF AddEntryToFile, Replaced, AddPieces
  <1>2. /\ Header \in Lines /\ ToSet(text) \subseteq Lines /\ A \subseteq Lines
        /\ \A i \in 1..Len(text) : text[i] \in ToSet(text)
    BY Elements DEF Lines
  <1>3. /\ e \in Seq(Lines) /\ e \in Seq({UnixFirst, Module}) /\ Linked(s, e)
        /\ ToSet(e) \subseteq {UnixFirst, Module}
    BY Entries
  <1>4. h \in Seq(Lines) /\ Len(h) = 1 /\ h[1] = Header
    BY <1>2
  <1>5. Linked(s, h) /\ ToSet(h) = {Header}
    <2> HIDE DEF h
    <2>1. ToSet(h) = {h[k] : k \in 1..1}
      BY <1>4, Elements
    <2> QED
      BY <1>4, <2>1, LinesDiffer DEF Linked, Leads
  <1>6. he \in Seq(Lines) /\ Linked(s, he) /\ ToSet(he) = {Header} \cup ToSet(e)
    <2> HIDE DEF h, e
    <2>1. ToSet(he) = ToSet(h) \cup ToSet(e)
      BY <1>3, <1>4, ConcatElements
    <2>2. Linked(s, he)
      BY <1>3, <1>4, <1>5, LinkedConcat
    <2> QED
      BY <1>3, <1>4, <1>5, <2>1, <2>2
  <1>7. a \in Seq(Lines) /\ Linked(s, a) /\ ToSet(a) \subseteq {Header, UnixFirst, Module}
    <2>1. <<>> \in Seq(Lines) /\ Linked(s, <<>>) /\ ToSet(<<>>) = {}
      BY DEF Linked, ToSet
    <2> HIDE DEF he
    <2> QED
      BY <1>3, <1>6, <2>1
  <1>8. Header \in ToSet(text) \/ ToSet(e) \subseteq ToSet(a)
    <2> HIDE DEF he, e
    <2> QED
      BY <1>6, Elements
  <1>9. ASSUME NEW i \in 1..Len(text)
        PROVE  p[i] = (IF text[i] = Header THEN <<Header>> \o Entry(s) ELSE <<text[i]>>)
    BY DEF AddPieces
  <1>10. ASSUME NEW i \in 1..Len(text) PROVE p[i] \in Seq(A)
    <2>1. CASE text[i] = Header
      <3>1. Header \in A
        BY <1>2, <2>1
      <3>2. <<Header>> \in Seq(A)
        BY <3>1
      <3>3. Entry(s) \in Seq(A)
        BY <1>3
      <3> HIDE DEF A
      <3>4. <<Header>> \o Entry(s) \in Seq(A)
        BY <3>2, <3>3
      <3>5. p[i] = <<Header>> \o Entry(s)
        BY <1>9, <2>1
      <3> HIDE DEF p
      <3> QED
        BY <3>4, <3>5
    <2>2. CASE text[i] # Header
      <3>1. text[i] \in A
        BY <1>2
      <3> HIDE DEF A
      <3>2. <<text[i]>> \in Seq(A)
        BY <3>1
      <3>3. p[i] = <<text[i]>>
        BY <1>9, <2>2
      <3> HIDE DEF p
      <3> QED
        BY <3>2, <3>3
    <2> QED
      BY <2>1, <2>2
  <1>11. DOMAIN p = 1..Len(text) /\ Len(text) \in Nat
    BY DEF AddPieces
  <1>12. Len(p) = Len(text) /\ p \in Seq(Seq(A)) /\ p \in Seq(Seq(Lines))
    <2>1. p = [i \in 1..Len(text) |-> p[i]]
      BY DEF AddPieces
    <2> HIDE DEF p, A
    <2>2. Len(p) = Len(text) /\ p \in Seq(Seq(A))
      BY <1>10, <1>11, <2>1
    <2>3. Seq(A) \subseteq Seq(Lines)
      BY <1>2
    <2>4. p \in Seq(Seq(Lines))
      BY <1>10, <1>11, <2>1, <2>3
    <2> QED
      BY <2>2, <2>4
  <1> HIDE DEF p, h, e
  <1> QED
    BY <1>1, <1>7, <1>8, <1>9, <1>12 DEF p, h, e

\* A file that an entry is put into keeps nobody out, and has the entry.
LEMMA AddedText ==
    ASSUME NEW s, NEW text, Text(s, text)
    PROVE  LET new == AddEntryToFile(text, Entry(s))
           IN  /\ Text(s, new)
               /\ IsConfigGenerated(new) <=> IsConfigGenerated(text)
               /\ ToSet(Entry(s)) \cup ToSet(text) \subseteq ToSet(new)
  <1> DEFINE e == Entry(s)
             p == AddPieces(text, e)
             a == IF Contains(text, Header) THEN <<>> ELSE <<Header>> \o e
             b == FlattenSeq(p)
             new == a \o b
             A == ToSet(text) \cup {UnixFirst, Module}
             n == Len(text)
  <1>1. text \in Seq(Lines) /\ Linked(s, text) /\ n \in Nat
    BY DEF Text
  <1>2. /\ AddEntryToFile(text, e) = new
        /\ a \in Seq(Lines) /\ Linked(s, a) /\ ToSet(a) \subseteq {Header, UnixFirst, Module}
        /\ Header \in ToSet(text) \/ ToSet(e) \subseteq ToSet(a)
        /\ Len(p) = n /\ p \in Seq(Seq(Lines)) /\ p \in Seq(Seq(A))
        /\ \A i \in 1..n : p[i] = IF text[i] = Header THEN <<Header>> \o e ELSE <<text[i]>>
    BY <1>1, AddIs
  <1>3. /\ e \in Seq(Lines) /\ Linked(s, e) /\ ToSet(e) \subseteq {UnixFirst, Module}
    BY Entries
  <1>4. /\ ToSet(text) = {text[i] : i \in 1..n} /\ ToSet(text) \subseteq Lines
        /\ \A x : Contains(text, x) <=> x \in ToSet(text)
    BY <1>1, Elements
  <1> HIDE DEF e, p, a, n
  \* A piece begins with the line in the place of which it stands, and is open there.
  <1>5. ASSUME NEW i \in 1..n
        PROVE  /\ p[i] \in Seq(Lines) /\ Len(p[i]) > 0 /\ p[i][1] = text[i]
               /\ Open(s, p[i], text[i]) /\ text[i] \in ToSet(p[i])
               /\ text[i] = Header => ToSet(e) \subseteq ToSet(p[i])
    <2>1. text[i] \in Lines
      BY <1>4
    <2>2. CASE text[i] = Header
      <3> DEFINE h == <<Header>>
                 he == h \o e
      <3>1. h \in Seq(Lines) /\ Len(h) = 1 /\ h[1] = Header
        BY <2>1, <2>2
      <3>2. Linked(s, h) /\ ToSet(h) = {Header}
        <4> HIDE DEF h
        <4>1. ToSet(h) = {h[k] : k \in 1..1}
          BY <3>1, Elements
        <4> QED
          BY <3>1, <4>1, LinesDiffer DEF Linked, Leads
      <3>3. p[i] = he
        BY <1>2, <2>2
      <3> HIDE DEF h
      <3>4. he \in Seq(Lines) /\ Len(he) > 0 /\ he[1] = Header
        <4>1. Header \in Lines /\ e \in Seq(Lines)
          BY <1>3, <2>1, <2>2
        <4> QED
          BY <4>1, LineBefore DEF h
      <3>5. Linked(s, he)
        BY <1>3, <3>1, <3>2, LinkedConcat
      <3>6. ToSet(he) = ToSet(h) \cup ToSet(e)
        BY <1>3, <3>1, ConcatElements
      <3> HIDE DEF he
      <3>7. Open(s, he, text[i])
        BY <3>5 DEF Linked, Open
      <3> QED
        BY <2>2, <3>2, <3>3, <3>4, <3>6, <3>7
    <2>3. CASE text[i] # Header
      <3> DEFINE t == <<text[i]>>
      <3>1. t \in Seq(Lines) /\ Len(t) = 1 /\ t[1] = text[i]
        BY <2>1
      <3>2. p[i] = t
        BY <1>2, <2>3
      <3> HIDE DEF t
      <3>3. Open(s, t, text[i])
        BY <3>1 DEF Open
      <3>4. text[i] \in ToSet(t)
        BY <3>1, Elements
      <3> QED
        BY <2>3, <3>1, <3>2, <3>3, <3>4
    <2> QED
      BY <2>2, <2>3
  <1>6. b \in Seq(Lines) /\ b \in Seq(A)
    BY <1>2, FlattenType
  <1>7. \A i \in 1..n : ToSet(p[i]) \subseteq ToSet(b)
    BY <1>2, FlattenElements
  <1>8. PICK f \in [0..n -> Seq(Lines)] : Grows(f, p)
    BY <1>2, Flattened
  <1> DEFINE S == {k \in 0..n : Open(s, f[k], IF k = 0 THEN Header ELSE text[k])}
  <1>9. 0 \in S
    BY <1>1, <1>8 DEF Grows, Open
  <1>10. ASSUME NEW k \in 0..n - 1, k \in S PROVE k + 1 \in S
    <2> DEFINE x == IF k = 0 THEN Header ELSE text[k]
    <2>1. k + 1 \in 1..n /\ (k + 1) - 1 = k /\ k \in 0..n /\ k + 1 # 0
      BY <1>1
    <2>2. f[k + 1] = f[k] \o p[k + 1]
      BY <1>2, <1>8, <2>1 DEF Grows
    <2>3. f[k] \in Seq(Lines)
      BY <1>8, <2>1
    <2>4. Open(s, f[k], x)
      BY <1>10
    <2>5. x \in Leads => Link(s, x, text[k + 1])
      <3>1. CASE k = 0
        BY <3>1, LinesDiffer DEF Leads
      <3>2. CASE k # 0
        <4>1. k \in 1..n
          BY <2>1, <3>2
        <4> QED
          BY <1>1, <3>2, <4>1 DEF Linked, n
      <3> QED
        BY <3>1, <3>2
    <2>6. /\ p[k + 1] \in Seq(Lines) /\ Len(p[k + 1]) > 0 /\ p[k + 1][1] = text[k + 1]
          /\ Open(s, p[k + 1], text[k + 1])
      BY <1>5, <2>1
    <2> DEFINE u == f[k]
               v == p[k + 1]
               y == text[k + 1]
    <2>7. Open(s, u \o v, y)
      <3> HIDE DEF u, v, x, y
      <3>1. /\ u \in Seq(Lines) /\ v \in Seq(Lines) /\ Len(v) > 0 /\ Open(s, u, x) /\ Open(s, v, y)
            /\ x \in Leads => Link(s, x, v[1])
        BY <2>3, <2>4, <2>5, <2>6 DEF u, v, y
      <3> QED
        BY <3>1, OpenConcat
    <2>8. Open(s, f[k + 1], text[k + 1])
      BY <2>2, <2>7
    <2> QED
      BY <2>1, <2>8
  <1>11. Open(s, b, IF n = 0 THEN Header ELSE text[n])
    <2>1. n \in S
      <3> HIDE DEF S
      <3>1. \A k \in 0..n : k \in S
        BY <1>1, <1>9, <1>10, Induction
      <3> QED
        BY <1>1, <3>1
    <2> QED
      BY <1>2, <1>8, <2>1 DEF Grows
  <1>12. Linked(s, b)
    <2>1. (IF n = 0 THEN Header ELSE text[n]) \notin Leads
      <3>1. CASE n = 0
        BY <3>1, LinesDiffer DEF Leads
      <3>2. CASE n # 0
        BY <1>1, <3>2 DEF Linked, n
      <3> QED
        BY <3>1, <3>2
    <2> HIDE DEF b
    <2> QED
      BY <1>11, <2>1 DEF Open, Linked
  <1> HIDE DEF b
  <1>13. new \in Seq(Lines) /\ Linked(s, new) /\ ToSet(new) = ToSet(a) \cup ToSet(b)
    <2>1. Linked(s, new)
      BY <1>2, <1>6, <1>12, LinkedConcat
    <2>2. ToSet(new) = ToSet(a) \cup ToSet(b)
      BY <1>2, <1>6, ConcatElements
    <2> QED
      BY <1>2, <1>6, <2>1, <2>2
  <1>14. ToSet(b) \subseteq A
    BY <1>6, Elements
  <1>15. ToSet(text) \subseteq ToSet(b)
    BY <1>4, <1>5, <1>7
  <1>16. Header \in ToSet(text) => ToSet(e) \subseteq ToSet(b)
    BY <1>4, <1>5, <1>7
  <1> HIDE DEF new
  <1>17. Generated \in ToSet(new) <=> Generated \in ToSet(text)
    BY <1>2, <1>13, <1>14, <1>15, LinesDiffer
  <1>18. Own \in ToSet(new) <=> Own \in ToSet(text)
    BY <1>2, <1>13, <1>14, <1>15, LinesDiffer
  <1>19. ToSet(new) \cap Missing = ToSet(text) \cap Missing
    BY <1>2, <1>13, <1>14, <1>15, ExistingLines
  <1>20. Text(s, new)
    BY <1>13, <1>18, <1>19 DEF Text
  <1>21. IsConfigGenerated(new) <=> IsConfigGenerated(text)
    BY <1>1, <1>13, <1>17, Elements DEF IsConfigGenerated
  <1>22. ToSet(e) \cup ToSet(text) \subseteq ToSet(new)
    BY <1>2, <1>13, <1>15, <1>16
  <1> QED
    BY <1>2, <1>20, <1>21, <1>22 DEF e

-----------------------------------------------------------------------------
(* The invariant of the installer.  *)

\* The steps that lists are made of: those on the file of a service, those on the
\* unit, and the others, which are about something else.
FileOps == {"SetConfigEntry", "AddToConfig", "RemoveFromConfig"}
OtherOps == {"SetPassword", "WriteExe", "Setuid", "WriteModule", "Allow", "Policy", "RemoveExe",
             "RemoveModule", "Disallow", "Apply", "Clear", "SetInstalledVersion"}
Objects == {"settings", "exe", "lib", "lib64", "ports", "policy"}
Lift    == <<"SetPolkitRestrictions", "polkit-1", FALSE>>
Confine == <<"SetPolkitRestrictions", "polkit-1", TRUE>>
Plain == (FileOps \X Services \X BOOLEAN) \cup (OtherOps \X Objects \X BOOLEAN)
         \cup {Lift, Confine}
Writes == {"Write"} \X Services \X Seq(Lines)

\* Those that may stand behind another one, and at the head of a list when it is made.
Routine == {st \in Plain : st[1] \notin {"RemoveFromConfig", "RemoveExe"} /\ st # Lift}
Fresh == Routine \cup {<<"RemoveExe", "exe", TRUE>>}

Writing(s) == ~Idle /\ Step[1] = "Write" /\ Step[2] = s

\* A file is there when an entry is to be taken out of it; what is written to it
\* keeps nobody out.
StepsInv ==
    ~Idle => /\ todo = <<Step>> \o Rest /\ Step \in Plain \cup Writes /\ Rest \in Seq(Routine)
             /\ Step[1] = "RemoveFromConfig" => files[Step[2]] # Absent
             /\ Step[1] = "Write" => Text(Step[2], Step[3])

FilesInv ==
    /\ files \in [Services -> Seq(Lines) \cup {Absent}]
    /\ \A s \in Services : files[s] # Absent => Text(s, files[s])

\* Nothing is newer than the application on the disk, which is the one that runs.
SettingsInv ==
    /\ settings \in [port : Nat, setPassword : BOOLEAN, version : Nat]
    /\ release \in 1..Len(Versions) /\ app \in {0, release}
    /\ exe \in 0..release /\ settings.version <= release
    /\ app = 0 => Idle

\* A text that has the lines of the original, or is one of the installer's own.
KeptText(s, text) ==
    IF original.files[s] = Absent
    THEN text = Absent \/ (IsConfigGenerated(text) /\ Refers(text))
    ELSE /\ text # Absent /\ ~IsConfigGenerated(text) /\ OwnLines(text) = OwnLines(original.files[s])
         /\ original.files[s] \in Seq(Lines)

KeptInv ==
    \A s \in Services \ hurt : KeptText(s, IF Writing(s) THEN Step[3] ELSE files[s])

Restored ==
    /\ \A s \in Switches : original.unit.switch[s] => unit.switch[s]
    /\ \A d \in Directives : original.unit.hashes[d] = 0 => unit.hashes[d] = 0

HasModule(text) == text # Absent /\ Module \in ToSet(text)

\* A step on polkit is at hand, other than the choice of its steps.
OnTheWay == ~Idle /\ Step[2] = "polkit-1" /\ Step[1] # "SetConfigEntry"

\* What takes the module out of polkit's file.
Removing ==
    /\ ~Idle /\ Step[2] = "polkit-1"
    /\ Step[1] = "RemoveFromConfig" \/ (Step[1] = "Write" /\ ~HasModule(Step[3]))

\* The helper is as restricted as it was, or the module is in polkit's file, or one of
\* the two is on its way.
SandboxInv ==
    original.unit # Absent /\ "polkit-1" \notin hurt =>
        /\ original.unit \in PolkitUnits /\ unit \in PolkitUnits
        /\ \A d \in Directives : original.unit.hashes[d] = 0 => unit.hashes[d] <= 1
        /\ Restored \/ OnTheWay \/ HasModule(files["polkit-1"])
        /\ ~Idle /\ Step = Lift =>
              Restored /\ Rest # <<>> /\ Head(Rest) = <<"AddToConfig", "polkit-1", TRUE>>
        /\ Removing => Rest # <<>> /\ Head(Rest) = Confine

\* What the steps of a list do.
Ops(list) == {st[1] : st \in ToSet(list)}
Pending(op) == op \in Ops(todo)

\* The program is written before a port is opened, and a port closed when it goes.
PortOrder(list) ==
    /\ \E a, b \in Seq(Plain \cup Writes) :
          list = a \o b /\ "Allow" \notin Ops(a) /\ "WriteExe" \notin Ops(b)
    /\ "RemoveExe" \in Ops(list) => "Disallow" \in Ops(list)

PortsInv ==
    /\ PortOrder(todo)
    /\ Pending("Allow") => Pending("WriteExe") \/ (exe # 0 /\ ~Pending("RemoveExe"))
    /\ "ports" \notin hurt /\ ~moved =>
          /\ settings.port = 1 /\ rules \subseteq {1}
          /\ exe # 0 \/ rules = {} \/ Pending("Disallow")

ProgramInv ==
    "exe" \notin hurt =>
        /\ Pending("WriteModule") =>
              Pending("WriteExe") \/ (exe = app /\ ~Pending("RemoveExe"))
        /\ IsInstalled =>
              /\ settings.version <= exe \/ Pending("WriteExe")
              /\ app # 0 => exe = app \/ Pending("WriteExe") \/ Pending("RemoveExe")

-----------------------------------------------------------------------------
(* The lists of steps.  *)

\* The routine steps that do some things.
With(ops) == {st \in Routine : st[1] \in ops}

\* A list with one more step before it.
LEMMA HeadTail ==
    ASSUME NEW A, NEW x \in A, NEW r \in Seq(A)
    PROVE  /\ <<x>> \o r \in Seq(A) /\ <<x>> \o r # <<>>
           /\ Head(<<x>> \o r) = x /\ Tail(<<x>> \o r) = r
           /\ ToSet(<<x>> \o r) = {x} \cup ToSet(r)
           /\ Ops(<<x>> \o r) = {x[1]} \cup Ops(r)
  <1>1. <<x>> \o r \in Seq(A)
    OBVIOUS
  <1>2. <<x>> \o r # <<>>
    OBVIOUS
  <1>3. Head(<<x>> \o r) = x
    OBVIOUS
  <1>4. Tail(<<x>> \o r) = r
    OBVIOUS
  <1>5. ToSet(<<x>> \o r) = {x} \cup ToSet(r)
    <2>1. <<x>> \in Seq(A)
      OBVIOUS
    <2>2. ToSet(<<x>> \o r) = ToSet(<<x>>) \cup ToSet(r)
      BY <2>1, ConcatElements
    <2>3. ToSet(<<x>>) = {x}
      BY DEF ToSet
    <2> QED
      BY <2>2, <2>3, Zenon
  <1>6. Ops(<<x>> \o r) = {x[1]} \cup Ops(r)
    <2>1. {st[1] : st \in {x} \cup ToSet(r)} = {x[1]} \cup {st[1] : st \in ToSet(r)}
      OBVIOUS
    <2> QED
      BY <1>5, <2>1, Zenon DEF Ops
  <1> QED
    BY <1>1, <1>2, <1>3, <1>4, <1>5, <1>6, Zenon

\* A list is its head and its tail.
LEMMA Uncons ==
    ASSUME NEW A, NEW t \in Seq(A), t # <<>>
    PROVE  Head(t) \in A /\ Tail(t) \in Seq(A) /\ t = <<Head(t)>> \o Tail(t)
  OBVIOUS

\* Steps that differ in what they do.
LEMMA OpsOf ==
    ASSUME NEW ops, NEW list \in Seq(With(ops))
    PROVE  Ops(list) \subseteq ops /\ list \in Seq(Routine)
  <1>1. ToSet(list) \subseteq With(ops)
    BY Elements
  <1> QED
    BY <1>1 DEF Ops, With

\* What two lists in a row do.
LEMMA OpsConcat ==
    ASSUME NEW A, NEW a \in Seq(A), NEW b \in Seq(A)
    PROVE  Ops(a \o b) = Ops(a) \cup Ops(b)
  BY ConcatElements DEF Ops

\* An empty list does nothing.
LEMMA OpsEmpty == Ops(<<>>) = {}
  BY DEF Ops, ToSet

\* Routine steps are steps.
LEMMA RoutineSeq ==
    ASSUME NEW ops
    PROVE  Seq(With(ops)) \subseteq Seq(Plain \cup Writes) /\ Seq(Routine) \subseteq Seq(Plain \cup Writes)
  <1> DEFINE A == Plain \cup Writes
  <1>1. Routine \subseteq A /\ With(ops) \subseteq A
    BY DEF Routine, With
  <1> HIDE DEF A
  <1>2. Seq(With(ops)) \subseteq Seq(A) /\ Seq(Routine) \subseteq Seq(A)
    BY <1>1
  <1> QED
    BY <1>2 DEF A

\* A list that opens no port, or writes no program.
LEMMA OrderAlone ==
    ASSUME NEW list \in Seq(Plain \cup Writes),
           "Allow" \notin Ops(list) \/ "WriteExe" \notin Ops(list),
           "RemoveExe" \in Ops(list) => "Disallow" \in Ops(list)
    PROVE  PortOrder(list)
  <1> DEFINE A == Plain \cup Writes
             e == <<>>
  <1>1. e \in Seq(A) /\ list \in Seq(A) /\ list = e \o list /\ list = list \o e
    OBVIOUS
  <1>2. "Allow" \notin Ops(e) /\ "WriteExe" \notin Ops(e)
    BY OpsEmpty
  <1>3. ASSUME NEW a \in Seq(A), NEW b \in Seq(A), list = a \o b,
               "Allow" \notin Ops(a), "WriteExe" \notin Ops(b)
        PROVE  PortOrder(list)
    BY <1>3 DEF PortOrder
  <1> HIDE DEF A, e
  <1>4. CASE "Allow" \notin Ops(list)
    BY <1>1, <1>2, <1>3, <1>4
  <1>5. CASE "WriteExe" \notin Ops(list)
    BY <1>1, <1>2, <1>3, <1>5
  <1> QED
    BY <1>4, <1>5

\* Nor does one without steps.
LEMMA EmptyOrder == PortOrder(<<>>)
  <1> DEFINE e == <<>>
  <1>1. e \in Seq(Plain \cup Writes) /\ Ops(e) = {}
    BY OpsEmpty
  <1> HIDE DEF e
  <1>2. PortOrder(e)
    BY <1>1, OrderAlone
  <1> QED
    BY <1>2 DEF e

\* Steps before a list that open no port.
LEMMA OrderBefore ==
    ASSUME NEW pre \in Seq(Plain \cup Writes), NEW list \in Seq(Plain \cup Writes),
           "Allow" \notin Ops(pre), "RemoveExe" \in Ops(pre) => "Disallow" \in Ops(pre),
           PortOrder(list)
    PROVE  PortOrder(pre \o list)
  <1> DEFINE A == Plain \cup Writes
  <1>1. PICK a \in Seq(A), b \in Seq(A) :
           list = a \o b /\ "Allow" \notin Ops(a) /\ "WriteExe" \notin Ops(b)
    BY DEF PortOrder
  <1>2. pre \in Seq(A)
    OBVIOUS
  <1>3. Ops(pre \o list) = Ops(pre) \cup Ops(list)
    BY OpsConcat
  <1>4. ASSUME NEW c \in Seq(A), NEW d \in Seq(A), pre \o list = c \o d,
               "Allow" \notin Ops(c), "WriteExe" \notin Ops(d)
        PROVE  PortOrder(pre \o list)
    BY <1>3, <1>4 DEF PortOrder
  <1> HIDE DEF A
  <1>5. pre \o a \in Seq(A) /\ Ops(pre \o a) = Ops(pre) \cup Ops(a)
    BY <1>1, <1>2, OpsConcat
  <1>6. pre \o (a \o b) = (pre \o a) \o b
    BY <1>1, <1>2, ConcatAssociative
  <1> QED
    BY <1>1, <1>4, <1>5, <1>6

\* Steps after it that write no program.
LEMMA OrderAfter ==
    ASSUME NEW list \in Seq(Plain \cup Writes), NEW post \in Seq(Plain \cup Writes),
           Ops(post) \cap {"WriteExe", "RemoveExe"} = {}, PortOrder(list)
    PROVE  PortOrder(list \o post)
  <1> DEFINE A == Plain \cup Writes
  <1>1. PICK a \in Seq(A), b \in Seq(A) :
           list = a \o b /\ "Allow" \notin Ops(a) /\ "WriteExe" \notin Ops(b)
    BY DEF PortOrder
  <1>2. post \in Seq(A)
    OBVIOUS
  <1>3. Ops(list \o post) = Ops(list) \cup Ops(post)
    BY OpsConcat
  <1>4. ASSUME NEW c \in Seq(A), NEW d \in Seq(A), list \o post = c \o d,
               "Allow" \notin Ops(c), "WriteExe" \notin Ops(d)
        PROVE  PortOrder(list \o post)
    BY <1>3, <1>4 DEF PortOrder
  <1> HIDE DEF A
  <1>5. b \o post \in Seq(A) /\ Ops(b \o post) = Ops(b) \cup Ops(post)
    BY <1>1, <1>2, OpsConcat
  <1>6. (a \o b) \o post = a \o (b \o post)
    BY <1>1, <1>2, ConcatAssociative
  <1> QED
    BY <1>1, <1>4, <1>5, <1>6

\* What is left when a step is taken.
LEMMA OrderRest ==
    ASSUME StepsInv, ~Idle, PortOrder(todo)
    PROVE  /\ PortOrder(Rest)
           /\ Step[1] = "Allow" => "WriteExe" \notin Ops(todo)
  <1> DEFINE A == Plain \cup Writes
  <1>1. PICK a \in Seq(A), b \in Seq(A) :
           todo = a \o b /\ "Allow" \notin Ops(a) /\ "WriteExe" \notin Ops(b)
    BY DEF PortOrder
  <1>2. Step \in A /\ Rest \in Seq(A) /\ todo = <<Step>> \o Rest /\ todo # <<>>
    BY RoutineSeq DEF StepsInv, Idle
  <1>3. "RemoveExe" \notin Ops(Rest)
    <2>1. ToSet(Rest) \subseteq Routine
      BY Elements DEF StepsInv
    <2> QED
      BY <2>1 DEF Ops, Routine
  <1>4. CASE a = <<>>
    <2> HIDE DEF A
    <2>1. todo = b
      BY <1>1, <1>4
    <2>2. Ops(todo) = {Step[1]} \cup Ops(Rest)
      BY <1>2, HeadTail
    <2>3. "WriteExe" \notin Ops(Rest) /\ "WriteExe" \notin Ops(todo)
      BY <1>1, <2>1, <2>2
    <2> QED
      BY <1>2, <1>3, <2>3, OrderAlone DEF A
  <1>5. CASE a # <<>>
    <2> DEFINE h == Head(a)
               t == Tail(a)
    <2> HIDE DEF A
    <2>1. h \in A /\ t \in Seq(A) /\ a = <<h>> \o t
      BY <1>1, <1>5, Uncons
    <2> HIDE DEF h, t
    <2>2. <<h>> \in Seq(A) /\ t \o b \in Seq(A)
      BY <1>1, <2>1
    <2>3. todo = <<h>> \o (t \o b)
      BY <1>1, <2>1, <2>2, ConcatAssociative
    <2>4. Head(<<h>> \o (t \o b)) = h /\ Tail(<<h>> \o (t \o b)) = t \o b
      BY <2>1, <2>2, HeadTail
    <2>5. Step = h /\ Rest = t \o b
      BY <2>3, <2>4 DEF Step, Rest
    <2>6. Ops(a) = {h[1]} \cup Ops(t)
      BY <2>1, HeadTail
    <2> QED
      BY <1>1, <1>3, <2>1, <2>5, <2>6 DEF PortOrder, A
  <1> QED
    BY <1>4, <1>5

\* The steps the lists are made of.
LEMMA RoutineStep ==
    /\ \A st \in Plain : st[1] \in FileOps \cup OtherOps \cup {"SetPolkitRestrictions"}
    /\ \A op \in {"SetConfigEntry", "AddToConfig"}, s \in Services, b \in BOOLEAN :
          <<op, s, b>> \in Routine
    /\ \A s \in Services, b \in BOOLEAN : <<"RemoveFromConfig", s, b>> \in Plain
    /\ \A op \in OtherOps \ {"RemoveExe"}, o \in Objects, b \in BOOLEAN : <<op, o, b>> \in Routine
    /\ Confine \in Routine /\ Lift \in Plain /\ <<"RemoveExe", "exe", TRUE>> \in Plain
  <1>1. ASSUME NEW op \in FileOps, NEW s \in Services, NEW b \in BOOLEAN
        PROVE  <<op, s, b>> \in Plain /\ <<op, s, b>>[1] = op /\ <<op, s, b>> # Lift
    BY DEF Plain, Lift, FileOps
  <1>2. ASSUME NEW op \in OtherOps, NEW s \in Objects, NEW b \in BOOLEAN
        PROVE  <<op, s, b>> \in Plain /\ <<op, s, b>>[1] = op /\ <<op, s, b>> # Lift
    BY DEF Plain, Lift, OtherOps
  <1>3. ASSUME NEW st \in Plain
        PROVE  st[1] \in FileOps \cup OtherOps \cup {"SetPolkitRestrictions"}
    <2>1. CASE st \in FileOps \X Services \X BOOLEAN
      BY <2>1
    <2>2. CASE st \in OtherOps \X Objects \X BOOLEAN
      BY <2>2
    <2>3. CASE st = Lift
      BY <2>3 DEF Lift
    <2>4. CASE st = Confine
      BY <2>4 DEF Confine
    <2> QED
      BY <2>1, <2>2, <2>3, <2>4 DEF Plain
  <1>4. /\ Lift \in Plain /\ Confine \in Plain /\ Lift # Confine
        /\ Lift[1] = "SetPolkitRestrictions" /\ Confine[1] = "SetPolkitRestrictions"
    BY DEF Plain, Lift, Confine
  <1> HIDE DEF Plain, Lift, Confine
  <1>5. ASSUME NEW op \in {"SetConfigEntry", "AddToConfig"}, NEW s \in Services, NEW b \in BOOLEAN
        PROVE  <<op, s, b>> \in Routine
    <2>1. op \in FileOps /\ op \notin {"RemoveFromConfig", "RemoveExe"}
      BY DEF FileOps
    <2> DEFINE st == <<op, s, b>>
    <2>2. st \in Plain /\ st[1] = op /\ st # Lift
      BY <1>1, <2>1
    <2> HIDE DEF st
    <2>3. st \in Routine
      BY <2>1, <2>2 DEF Routine
    <2> QED
      BY <2>3 DEF st
  <1>6. ASSUME NEW op \in OtherOps \ {"RemoveExe"}, NEW o \in Objects, NEW b \in BOOLEAN
        PROVE  <<op, o, b>> \in Routine
    <2>1. op \notin {"RemoveFromConfig", "RemoveExe"}
      BY DEF OtherOps
    <2> DEFINE st == <<op, o, b>>
    <2>2. st \in Plain /\ st[1] = op /\ st # Lift
      BY <1>2
    <2> HIDE DEF st
    <2>3. st \in Routine
      BY <2>1, <2>2 DEF Routine
    <2> QED
      BY <2>3 DEF st
  <1>7. \A s \in Services, b \in BOOLEAN : <<"RemoveFromConfig", s, b>> \in Plain
    BY <1>1 DEF FileOps
  <1>8. <<"RemoveExe", "exe", TRUE>> \in Plain
    BY <1>2 DEF OtherOps, Objects
  <1>9. Confine \in Routine
    BY <1>4 DEF Routine
  <1> QED
    BY <1>3, <1>4, <1>5, <1>6, <1>7, <1>8, <1>9

\* A list that does some of the things does no others.
LEMMA WithType ==
    ASSUME NEW ops, NEW list \in Seq(With(ops)), NEW more, ops \subseteq more
    PROVE  list \in Seq(With(more)) /\ list \in Seq(Routine)
  <1>1. With(ops) \subseteq With(more) /\ With(ops) \subseteq Routine
    BY DEF With
  <1> QED
    BY <1>1

\* Lists of one step.
LEMMA OneStep ==
    /\ \A s \in Services, b \in BOOLEAN :
          << <<"SetConfigEntry", s, b>> >> \in Seq(With({"SetConfigEntry"}))
    /\ \A op \in OtherOps \ {"RemoveExe"}, o \in Objects, b \in BOOLEAN :
          << <<op, o, b>> >> \in Seq(With({op})) /\ Ops(<< <<op, o, b>> >>) = {op}
  <1>1. ASSUME NEW s \in Services, NEW b \in BOOLEAN
        PROVE  << <<"SetConfigEntry", s, b>> >> \in Seq(With({"SetConfigEntry"}))
    <2> DEFINE st == <<"SetConfigEntry", s, b>>
    <2>1. st \in Routine /\ st[1] = "SetConfigEntry"
      BY RoutineStep
    <2> HIDE DEF st
    <2>2. st \in With({"SetConfigEntry"})
      BY <2>1 DEF With
    <2>3. <<st>> \in Seq(With({"SetConfigEntry"}))
      BY <2>2
    <2> QED
      BY <2>3 DEF st
  <1>2. ASSUME NEW op \in OtherOps \ {"RemoveExe"}, NEW o \in Objects, NEW b \in BOOLEAN
        PROVE  << <<op, o, b>> >> \in Seq(With({op})) /\ Ops(<< <<op, o, b>> >>) = {op}
    <2> DEFINE st == <<op, o, b>>
    <2>1. st \in Routine /\ st[1] = op
      BY RoutineStep
    <2> HIDE DEF st
    <2>2. st \in With({op})
      BY <2>1 DEF With
    <2>3. <<st>> \in Seq(With({op}))
      BY <2>2
    <2>4. ToSet(<<st>>) = {st}
      BY DEF ToSet
    <2>5. {x[1] : x \in {st}} = {op}
      BY <2>1
    <2>6. Ops(<<st>>) = {op}
      BY <2>4, <2>5, Zenon DEF Ops
    <2> QED
      BY <2>3, <2>6 DEF st
  <1> QED
    BY <1>1, <1>2

\* Two of them in a row.
LEMMA WithConcat ==
    ASSUME NEW ops, NEW a \in Seq(With(ops)), NEW b \in Seq(With(ops))
    PROVE  a \o b \in Seq(With(ops))
  OBVIOUS

\* The services that the code names.
LEMMA ServiceNames ==
    /\ "sudo" \in Services /\ "polkit-1" \in Services
    /\ \A i \in DOMAIN LoginPrograms : ConfigOf[LoginPrograms[i]] \in Services
    /\ DOMAIN LoginPrograms = 1..6
  <1>1. DOMAIN LoginPrograms = 1..6
    BY DEF LoginPrograms
  <1>2. \A i \in DOMAIN LoginPrograms : LoginPrograms[i] \in ToSet(LoginPrograms)
    BY DEF ToSet
  <1> QED
    BY <1>1, <1>2, Zenon DEF Services

\* The integrations are turned on and off by steps on the files and one on the settings.
Applies == {"SetConfigEntry", "SetPassword"}

\* ApplySettings, whatever the toggles are.
LEMMA ApplyList ==
    ASSUME NEW on, {on.sudo, on.polkit, on.login, on.pamSetPassword} \subseteq BOOLEAN
    PROVE  ApplySettings(on) \in Seq(With(Applies))
  <1> DEFINE W == With(Applies)
             a == << <<"SetConfigEntry", "sudo", on.sudo>>,
                     <<"SetConfigEntry", "polkit-1", on.polkit>> >>
             p == [i \in DOMAIN LoginPrograms |->
                     LET q == LoginPrograms[i]
                     IN  IF IsProgramInstalled(q)
                         THEN << <<"SetConfigEntry", ConfigOf[q], on.login>> >> ELSE <<>>]
             c == << <<"SetPassword", "settings", on.pamSetPassword>> >>
  <1>1. ASSUME NEW s \in Services, NEW b \in BOOLEAN
        PROVE  << <<"SetConfigEntry", s, b>> >> \in Seq(W) /\ <<"SetConfigEntry", s, b>> \in W
    <2> DEFINE st == <<"SetConfigEntry", s, b>>
    <2>1. <<st>> \in Seq(With({"SetConfigEntry"}))
      BY OneStep
    <2> HIDE DEF st
    <2>2. <<st>> \in Seq(W)
      BY <2>1, WithType DEF Applies
    <2>3. st \in W
      BY <2>2
    <2> QED
      BY <2>2, <2>3 DEF st
  <1>2. c \in Seq(W)
    <2> DEFINE st == <<"SetPassword", "settings", on.pamSetPassword>>
    <2>1. <<st>> \in Seq(With({"SetPassword"}))
      BY OneStep DEF OtherOps, Objects
    <2> HIDE DEF st
    <2>2. <<st>> \in Seq(W)
      BY <2>1, WithType DEF Applies
    <2> QED
      BY <2>2 DEF st
  <1>3. a \in Seq(W)
    <2>1. /\ <<"SetConfigEntry", "sudo", on.sudo>> \in W
          /\ <<"SetConfigEntry", "polkit-1", on.polkit>> \in W
      BY <1>1, ServiceNames
    <2> HIDE DEF W
    <2> QED
      BY <2>1
  <1>4. FlattenSeq(p) \in Seq(W)
    <2> DEFINE e(i) == LET q == LoginPrograms[i]
                       IN  IF IsProgramInstalled(q)
                           THEN << <<"SetConfigEntry", ConfigOf[q], on.login>> >> ELSE <<>>
    <2>1. ASSUME NEW i \in 1..6 PROVE e(i) \in Seq(W)
      <3>1. ConfigOf[LoginPrograms[i]] \in Services
        BY ServiceNames
      <3>2. << <<"SetConfigEntry", ConfigOf[LoginPrograms[i]], on.login>> >> \in Seq(W)
        BY <1>1, <3>1
      <3>3. <<>> \in Seq(W)
        OBVIOUS
      <3> HIDE DEF W
      <3> QED
        BY <3>2, <3>3, Zenon
    <2>2. p = [i \in 1..6 |-> e(i)]
      BY ServiceNames
    <2>3. p \in Seq(Seq(W))
      <3> HIDE DEF W, e, p
      <3> QED
        BY <2>1, <2>2
    <2> HIDE DEF p, W
    <2> QED
      BY <2>3, FlattenType
  <1>5. ApplySettings(on) = a \o FlattenSeq(p) \o c
    BY Zenon DEF ApplySettings
  <1> HIDE DEF a, p, c
  <1>6. a \o FlattenSeq(p) \in Seq(W)
    BY <1>3, <1>4, WithConcat
  <1>7. (a \o FlattenSeq(p)) \o c \in Seq(W)
    <2> DEFINE d == a \o FlattenSeq(p)
    <2> HIDE DEF d, W
    <2> QED
      BY <1>2, <1>6 DEF d
  <1> QED
    BY <1>5, <1>7

\* The module goes to each directory and out of it.
LEMMA EachDirList ==
    ASSUME NEW op \in {"WriteModule", "RemoveModule"}
    PROVE  InEachDir(op) \in Seq(With({op}))
  <1> DEFINE n == Cardinality(PamDirs)
             d(i) == IF i = 1 THEN "lib" ELSE "lib64"
             e(i) == <<op, d(i), TRUE>>
  <1>1. n \in Nat
    <2>1. IsFiniteSet({"lib"} \cup {"lib64"})
      BY FS_Singleton, FS_Union
    <2>2. PamDirs \subseteq {"lib"} \cup {"lib64"}
      BY InstallerAssumption
    <2> QED
      BY <2>1, <2>2, FS_Subset, FS_CardinalityType
  <1>2. ASSUME NEW i \in 1..n PROVE e(i) \in With({op})
    <2>1. d(i) \in Objects
      BY DEF Objects
    <2>2. op \in OtherOps \ {"RemoveExe"}
      BY DEF OtherOps
    <2> DEFINE st == <<op, d(i), TRUE>>
    <2>3. <<st>> \in Seq(With({op}))
      <3> HIDE DEF d
      <3> QED
        BY <2>1, <2>2, OneStep
    <2> HIDE DEF st
    <2>4. st \in With({op})
      BY <2>3
    <2> QED
      BY <2>4 DEF st
  <1>3. InEachDir(op) = [i \in 1..n |-> e(i)]
    BY DEF InEachDir
  <1>4. [i \in 1..n |-> e(i)] \in Seq(With({op}))
    <2> DEFINE W == With({op})
    <2>1. \A i \in 1..n : e(i) \in W
      BY <1>2
    <2> HIDE DEF n, e, W
    <2>2. [i \in 1..n |-> e(i)] \in Seq(W)
      BY <1>1, <2>1
    <2> QED
      BY <2>2 DEF W
  <1> HIDE DEF n, e
  <1> QED
    BY <1>3, <1>4, Zenon

\* What installing and removing are made of.
Installs == {"WriteExe", "Setuid", "WriteModule", "Allow", "Policy"}
Uninstalls == {"RemoveModule", "Disallow", "Policy"}

\* The policy, if there are policies.
LEMMA SELinuxList == SELinux("Policy") \in Seq(With({"Policy"}))
  <1>1. << <<"Policy", "policy", TRUE>> >> \in Seq(With({"Policy"}))
    BY OneStep DEF OtherOps, Objects
  <1>2. <<>> \in Seq(With({"Policy"}))
    OBVIOUS
  <1> QED
    BY <1>1, <1>2, Zenon DEF SELinux

\* An installation writes the program.
LEMMA InstallList ==
    /\ Install \in Seq(With(Installs)) /\ Install # <<>>
    /\ "WriteExe" \in Ops(Install) /\ PortOrder(Install)
  <1> DEFINE W == With(Installs)
             x == <<"WriteExe", "exe", TRUE>>
             y == <<"Setuid", "exe", TRUE>>
             d == InEachDir("WriteModule")
             p == << <<"Allow", "ports", TRUE>> >>
             l == SELinux("Policy")
  <1>1. x \in W /\ x[1] = "WriteExe" /\ y \in W /\ y[1] = "Setuid"
    <2>1. x \in Routine /\ x[1] = "WriteExe" /\ y \in Routine /\ y[1] = "Setuid"
      BY RoutineStep DEF OtherOps, Objects
    <2> HIDE DEF x, y
    <2> QED
      BY <2>1 DEF With, Installs
  <1>2. d \in Seq(W) /\ Ops(d) \subseteq {"WriteModule"}
    <2>1. d \in Seq(With({"WriteModule"}))
      BY EachDirList
    <2> HIDE DEF d
    <2> QED
      BY <2>1, WithType, OpsOf DEF Installs
  <1>3. p \in Seq(W) /\ Ops(p) \subseteq {"Allow"}
    <2>1. p \in Seq(With({"Allow"}))
      BY OneStep DEF OtherOps, Objects
    <2> HIDE DEF p
    <2> QED
      BY <2>1, WithType, OpsOf DEF Installs
  <1>4. l \in Seq(W) /\ Ops(l) \subseteq {"Policy"}
    <2>1. l \in Seq(With({"Policy"}))
      BY SELinuxList
    <2> HIDE DEF l
    <2> QED
      BY <2>1, WithType, OpsOf DEF Installs
  <1> DEFINE xy == <<x, y>>
  <1>5. Install = ((xy \o d) \o p) \o l
    BY Zenon DEF Install
  <1> HIDE DEF W, x, y, d, p, l
  <1>6. xy \in Seq(W) /\ ToSet(xy) = {x, y}
    <2>1. xy \in Seq(W) /\ DOMAIN xy = 1..2 /\ xy[1] = x /\ xy[2] = y
      BY <1>1
    <2> QED
      BY <2>1 DEF ToSet
  <1> HIDE DEF xy
  <1>7. xy \o d \in Seq(W) /\ Ops(xy \o d) = Ops(xy) \cup Ops(d)
    BY <1>2, <1>6, OpsConcat
  <1>8. (xy \o d) \o p \in Seq(W) /\ Ops((xy \o d) \o p) = Ops(xy \o d) \cup Ops(p)
    <2> DEFINE u == xy \o d
    <2>1. u \in Seq(W)
      BY <1>7
    <2> HIDE DEF u
    <2>2. u \o p \in Seq(W) /\ Ops(u \o p) = Ops(u) \cup Ops(p)
      BY <1>3, <2>1, OpsConcat
    <2> QED
      BY <2>2 DEF u
  <1> DEFINE v == (xy \o d) \o p
  <1>9. v \o l \in Seq(W) /\ Ops(v \o l) = Ops(v) \cup Ops(l)
    <2>1. v \in Seq(W)
      BY <1>8
    <2> HIDE DEF v
    <2> QED
      BY <1>4, <2>1, OpsConcat
  <1>10. x[1] \in Ops(xy)
    BY <1>6 DEF Ops
  <1>11. "WriteExe" \in Ops(v)
    BY <1>1, <1>7, <1>8, <1>10, Zenon
  <1>12. Install \in Seq(W) /\ "WriteExe" \in Ops(Install)
    BY <1>5, <1>9, <1>11, Zenon
  <1>14. Install # <<>>
    BY <1>12, OpsEmpty
  <1>15. W \subseteq Plain \cup Writes /\ Seq(W) \subseteq Seq(Plain \cup Writes)
    BY RoutineSeq DEF W, With, Routine
  <1>16. PortOrder(xy \o d)
    <2>1. Ops(xy) = {"WriteExe", "Setuid"}
      BY <1>1, <1>6 DEF Ops
    <2>2. Ops(xy \o d) \cap {"Allow", "RemoveExe"} = {}
      BY <1>2, <1>7, <2>1
    <2> QED
      BY <1>7, <1>15, <2>2, OrderAlone
  <1>17. PortOrder((xy \o d) \o p)
    <2> DEFINE w == xy \o d
    <2>1. PortOrder(w) /\ w \in Seq(Plain \cup Writes) /\ p \in Seq(Plain \cup Writes)
      BY <1>3, <1>7, <1>15, <1>16
    <2> HIDE DEF w
    <2>2. PortOrder(w \o p)
      BY <1>3, <2>1, OrderAfter
    <2> QED
      BY <2>2 DEF w
  <1>18. PortOrder(v \o l)
    <2>1. PortOrder(v) /\ v \in Seq(Plain \cup Writes) /\ l \in Seq(Plain \cup Writes)
      BY <1>4, <1>8, <1>15, <1>17
    <2> HIDE DEF v
    <2> QED
      BY <1>4, <2>1, OrderAfter
  <1> QED
    BY <1>5, <1>12, <1>14, <1>18 DEF W

\* The program is removed first; the rest is routine.
LEMMA UninstallList ==
    \E u \in Seq(With(Uninstalls)) :
        /\ Uninstall = << <<"RemoveExe", "exe", TRUE>> >> \o u
        /\ "Disallow" \in Ops(u)
  <1> DEFINE W == With(Uninstalls)
             x == << <<"RemoveExe", "exe", TRUE>> >>
             d == InEachDir("RemoveModule")
             p == << <<"Disallow", "ports", TRUE>> >>
             l == SELinux("Policy")
             B == With(Uninstalls) \cup {<<"RemoveExe", "exe", TRUE>>}
  <1>1. x \in Seq(B)
    OBVIOUS
  <1>2. d \in Seq(W)
    <2>1. d \in Seq(With({"RemoveModule"}))
      BY EachDirList
    <2> HIDE DEF d
    <2> QED
      BY <2>1, WithType DEF Uninstalls
  <1>3. p \in Seq(W) /\ Ops(p) = {"Disallow"}
    <2>1. p \in Seq(With({"Disallow"})) /\ Ops(p) = {"Disallow"}
      BY OneStep DEF OtherOps, Objects
    <2> HIDE DEF p
    <2> QED
      BY <2>1, WithType DEF Uninstalls
  <1>4. l \in Seq(W)
    <2>1. l \in Seq(With({"Policy"}))
      BY SELinuxList
    <2> HIDE DEF l
    <2> QED
      BY <2>1, WithType DEF Uninstalls
  <1>5. Uninstall = ((x \o d) \o p) \o l
    BY Zenon DEF Uninstall
  <1>6. Seq(W) \subseteq Seq(B)
    <2>1. W \subseteq B
      OBVIOUS
    <2> HIDE DEF W, B
    <2> QED
      BY <2>1
  <1> HIDE DEF W, B, x, d, p, l
  <1> DEFINE u == (d \o p) \o l
  <1>7. d \o p \in Seq(W) /\ Ops(d \o p) = Ops(d) \cup Ops(p)
    BY <1>2, <1>3, OpsConcat
  <1>8. u \in Seq(W) /\ Ops(u) = Ops(d \o p) \cup Ops(l)
    <2> DEFINE v == d \o p
    <2>1. v \in Seq(W)
      BY <1>7
    <2> HIDE DEF v
    <2>2. v \o l \in Seq(W) /\ Ops(v \o l) = Ops(v) \cup Ops(l)
      BY <1>4, <2>1, OpsConcat
    <2> QED
      BY <2>2 DEF v
  <1>9. ((x \o d) \o p) \o l = x \o u
    <2>1. /\ x \in Seq(B) /\ d \in Seq(B) /\ p \in Seq(B) /\ l \in Seq(B) /\ d \o p \in Seq(B)
      BY <1>1, <1>2, <1>3, <1>4, <1>6, <1>7
    <2>2. (x \o d) \o p = x \o (d \o p)
      BY <2>1, ConcatAssociative
    <2>3. (x \o (d \o p)) \o l = x \o ((d \o p) \o l)
      <3> DEFINE v == d \o p
      <3>1. v \in Seq(B)
        BY <2>1
      <3> HIDE DEF v
      <3>2. (x \o v) \o l = x \o (v \o l)
        BY <2>1, <3>1, ConcatAssociative
      <3> QED
        BY <3>2 DEF v
    <2> QED
      BY <2>2, <2>3, Zenon
  <1>10. "Disallow" \in Ops(u)
    BY <1>3, <1>7, <1>8, Zenon
  <1>11. Uninstall = x \o u /\ u \in Seq(W) /\ "Disallow" \in Ops(u)
    BY <1>5, <1>8, <1>9, <1>10, Zenon
  <1> QED
    BY <1>11, Zenon DEF x, W

\* What the form shows, and what an installation turns on, is yes or no.
LEMMA SettingsShown ==
    ASSUME settings.setPassword \in BOOLEAN, NEW unread
    PROVE  /\ GetSettings(unread).enabled \in [Toggles -> BOOLEAN]
           /\ GetSettings(unread).defaultVal \in [Toggles -> BOOLEAN]
  <1>1. \A s : Found(s, unread) \in BOOLEAN
    BY DEF Found
  <1>2. /\ IsProgramInstalled("sudo") \in BOOLEAN /\ IsProgramInstalled("pkexec") \in BOOLEAN
    BY DEF IsProgramInstalled
  <1> DEFINE login1 == \E p \in ToSet(LoginPrograms) : Found(ConfigOf[p], unread)
             login2 == \E p \in ToSet(LoginPrograms) : IsProgramInstalled(p)
             sudo1 == Found("sudo", unread)
             polkit1 == Found("polkit-1", unread)
             sudo2 == IsProgramInstalled("sudo")
             polkit2 == IsProgramInstalled("pkexec")
  <1>3. login1 \in BOOLEAN /\ login2 \in BOOLEAN
    OBVIOUS
  <1>4. /\ GetSettings(unread).enabled =
               [sudo |-> sudo1, polkit |-> polkit1, login |-> login1,
                pamSetPassword |-> settings.setPassword]
        /\ GetSettings(unread).defaultVal =
               [sudo |-> sudo2, polkit |-> polkit2, login |-> login2, pamSetPassword |-> FALSE]
    BY DEF GetSettings
  <1>5. /\ sudo1 \in BOOLEAN /\ polkit1 \in BOOLEAN /\ sudo2 \in BOOLEAN /\ polkit2 \in BOOLEAN
    BY <1>1, <1>2
  <1>6. ASSUME NEW s \in BOOLEAN, NEW p \in BOOLEAN, NEW l \in BOOLEAN, NEW w \in BOOLEAN
        PROVE  [sudo |-> s, polkit |-> p, login |-> l, pamSetPassword |-> w]
                   \in [Toggles -> BOOLEAN]
    BY DEF Toggles
  <1> HIDE DEF login1, login2, sudo1, polkit1, sudo2, polkit2
  <1>7. [sudo |-> sudo1, polkit |-> polkit1, login |-> login1,
         pamSetPassword |-> settings.setPassword]
            \in [Toggles -> BOOLEAN]
    BY <1>3, <1>5, <1>6, Zenon
  <1>8. [sudo |-> sudo2, polkit |-> polkit2, login |-> login2, pamSetPassword |-> FALSE]
            \in [Toggles -> BOOLEAN]
    <2>1. FALSE \in BOOLEAN
      OBVIOUS
    <2> QED
      BY <1>3, <1>5, <1>6, <2>1, Zenon
  <1> QED
    BY <1>4, <1>7, <1>8, Zenon

\* ApplySettings in terms of what its steps do.
LEMMA AppliesAll ==
    ASSUME NEW on \in [Toggles -> BOOLEAN]
    PROVE  /\ ApplySettings(on) \in Seq(Routine)
           /\ Ops(ApplySettings(on)) \subseteq Applies
  <1>1. {on.sudo, on.polkit, on.login, on.pamSetPassword} \subseteq BOOLEAN
    BY DEF Toggles
  <1>2. ApplySettings(on) \in Seq(With(Applies))
    BY <1>1, ApplyList
  <1> QED
    BY <1>2, OpsOf

\* A list is routine, but for the removal it may begin with.
Made(list) ==
    \/ list \in Seq(Routine)
    \/ \E r \in Seq(Routine) : list = << <<"RemoveExe", "exe", TRUE>> >> \o r

Removes(list) ==
    /\ {"RemoveExe", "Disallow"} \subseteq Ops(list)
    /\ {"WriteExe", "WriteModule", "Allow"} \cap Ops(list) = {}

\* The removal of the program.
LEMMA RemoveStep ==
    LET x == <<"RemoveExe", "exe", TRUE>>
    IN  x \in Plain /\ x[1] = "RemoveExe" /\ x[2] = "exe"
  BY RoutineStep

\* What follows a list of steps.
LEMMA RemovesThen ==
    ASSUME NEW r \in Seq(Routine)
    PROVE  LET list == Uninstall \o r
           IN  /\ Made(list)
               /\ Ops(list) \subseteq {"RemoveExe"} \cup Uninstalls \cup Ops(r)
               /\ {"RemoveExe", "Disallow"} \cup Ops(r) \subseteq Ops(list)
               /\ PortOrder(r) => PortOrder(list)
  <1> DEFINE x == <<"RemoveExe", "exe", TRUE>>
  <1>1. PICK u \in Seq(With(Uninstalls)) : Uninstall = <<x>> \o u /\ "Disallow" \in Ops(u)
    BY UninstallList
  <1>2. u \in Seq(Routine) /\ Ops(u) \subseteq Uninstalls
    BY OpsOf
  <1>3. u \o r \in Seq(Routine) /\ Ops(u \o r) = Ops(u) \cup Ops(r)
    BY <1>2, OpsConcat
  <1> DEFINE A == Routine \cup {x}
             v == u \o r
  <1>4. u \in Seq(A) /\ r \in Seq(A) /\ v \in Seq(A) /\ <<x>> \in Seq(A)
    <2>1. Routine \subseteq A /\ x \in A
      OBVIOUS
    <2>2. v \in Seq(Routine)
      BY <1>3
    <2> HIDE DEF A, v, x
    <2> QED
      BY <1>2, <2>1, <2>2
  <1>5. (<<x>> \o u) \o r = <<x>> \o v
    <2> HIDE DEF A, x
    <2> QED
      BY <1>4, ConcatAssociative
  <1>6. Ops(<<x>> \o v) = {x[1]} \cup Ops(v)
    <2>1. x \in A
      OBVIOUS
    <2> HIDE DEF A, x, v
    <2> QED
      BY <1>4, <2>1, HeadTail
  <1>7. x[1] = "RemoveExe"
    OBVIOUS
  <1>8. Uninstall \o r = <<x>> \o v
    BY <1>1, <1>5, Zenon
  <1>9. v \in Seq(Routine) /\ Ops(v) = Ops(u) \cup Ops(r)
    BY <1>3
  <1> HIDE DEF v
  <1>10. Made(Uninstall \o r)
    BY <1>8, <1>9 DEF Made
  <1>11. Ops(Uninstall \o r) = {"RemoveExe"} \cup Ops(u) \cup Ops(r)
    BY <1>6, <1>7, <1>8, <1>9
  <1>12. /\ Uninstall \in Seq(Plain \cup Writes) /\ r \in Seq(Plain \cup Writes)
         /\ Ops(Uninstall) = {"RemoveExe"} \cup Ops(u)
    <2> DEFINE B == Plain \cup Writes
    <2>1. x \in B
      BY RemoveStep
    <2>2. u \in Seq(B) /\ r \in Seq(B)
      BY <1>2, RoutineSeq
    <2> HIDE DEF x, B
    <2>3. <<x>> \o u \in Seq(B) /\ Ops(<<x>> \o u) = {x[1]} \cup Ops(u)
      BY <2>1, <2>2, HeadTail
    <2> QED
      BY <1>1, <1>7, <2>2, <2>3 DEF B
  <1> HIDE DEF x
  <1>13. PortOrder(r) => PortOrder(Uninstall \o r)
    BY <1>1, <1>2, <1>12, OrderBefore DEF Uninstalls
  <1> QED
    BY <1>1, <1>2, <1>10, <1>11, <1>13

\* What the clicks on the buttons make.
LEMMA ButtonLists ==
    /\ Made(Reinstall) /\ "WriteExe" \in Ops(Reinstall) /\ PortOrder(Reinstall)
    /\ Made(InstallClicked) /\ PortOrder(InstallClicked)
    /\ IsInstalled => Removes(InstallClicked)
    /\ ~IsInstalled => "WriteExe" \in Ops(InstallClicked)
  <1> DEFINE l(b, op) == <<op, "settings", b>>
             two(a, b, op) == <<l(a, op), l(b, "SetInstalledVersion")>>
  <1>1. ASSUME NEW a \in BOOLEAN, NEW b \in BOOLEAN, NEW op \in {"Apply", "Clear"}
        PROVE  /\ two(a, b, op) \in Seq(Routine)
               /\ Ops(two(a, b, op)) = {op, "SetInstalledVersion"}
    <2>1. /\ l(a, op) \in Routine /\ l(b, "SetInstalledVersion") \in Routine
          /\ l(a, op)[1] = op /\ l(b, "SetInstalledVersion")[1] = "SetInstalledVersion"
      BY RoutineStep DEF OtherOps, Objects
    <2> HIDE DEF l
    <2>2. two(a, b, op) \in Seq(Routine)
      BY <2>1
    <2>3. ToSet(two(a, b, op)) = {l(a, op), l(b, "SetInstalledVersion")}
      BY DEF ToSet
    <2> HIDE DEF two
    <2> QED
      BY <2>1, <2>2, <2>3 DEF Ops
  <1>2. /\ Install \in Seq(Routine) /\ "WriteExe" \in Ops(Install) /\ PortOrder(Install)
    BY InstallList, OpsOf
  <1>3. ASSUME NEW a \in BOOLEAN
        PROVE  LET i == Install \o two(a, TRUE, "Apply")
               IN  i \in Seq(Routine) /\ "WriteExe" \in Ops(i) /\ PortOrder(i)
    <2> DEFINE t == two(a, TRUE, "Apply")
    <2>1. t \in Seq(Routine) /\ Ops(t) = {"Apply", "SetInstalledVersion"}
      BY <1>1
    <2> HIDE DEF two
    <2> HIDE DEF t
    <2>2. Install \o t \in Seq(Routine) /\ Ops(Install \o t) = Ops(Install) \cup Ops(t)
      BY <1>2, <2>1, OpsConcat
    <2>3. "WriteExe" \in Ops(Install \o t)
      BY <1>2, <2>2
    <2>4. PortOrder(Install \o t)
      BY <1>2, <2>1, RoutineSeq, OrderAfter
    <2> QED
      BY <2>2, <2>3, <2>4 DEF t
  <1> DEFINE i(a) == Install \o two(a, TRUE, "Apply")
  <1>4. ASSUME IsInstalled
        PROVE  Made(Reinstall) /\ "WriteExe" \in Ops(Reinstall) /\ PortOrder(Reinstall)
    <2> DEFINE r == i(FALSE)
    <2>1. r \in Seq(Routine) /\ "WriteExe" \in Ops(r) /\ PortOrder(r)
      BY <1>3
    <2>2. Reinstall = Uninstall \o Install \o two(FALSE, TRUE, "Apply")
      BY <1>4 DEF Reinstall
    <2>3. (Uninstall \o Install) \o two(FALSE, TRUE, "Apply") = Uninstall \o r
      <3> DEFINE t == two(FALSE, TRUE, "Apply")
      <3>1. t \in Seq(Routine)
        BY <1>1
      <3> DEFINE x == <<"RemoveExe", "exe", TRUE>>
                 A == Routine \cup {x}
      <3>2. PICK u \in Seq(With(Uninstalls)) : Uninstall = <<x>> \o u
        BY UninstallList
      <3>3. u \in Seq(Routine)
        BY OpsOf
      <3> HIDE DEF x
      <3>4. <<x>> \in Seq(A) /\ Routine \subseteq A
        OBVIOUS
      <3> HIDE DEF t, A
      <3>5. u \in Seq(A) /\ t \in Seq(A) /\ Install \in Seq(A)
        BY <1>2, <3>1, <3>3, <3>4
      <3>6. Uninstall \in Seq(A)
        BY <3>2, <3>4, <3>5
      <3>7. (Uninstall \o Install) \o t = Uninstall \o (Install \o t)
        BY <3>5, <3>6, ConcatAssociative
      <3> QED
        BY <3>7 DEF t
    <2>4. /\ Made(Uninstall \o r) /\ Ops(r) \subseteq Ops(Uninstall \o r)
          /\ PortOrder(Uninstall \o r)
      <3> HIDE DEF r
      <3> QED
        BY <2>1, RemovesThen
    <2> HIDE DEF r, two
    <2> QED
      BY <2>1, <2>2, <2>3, <2>4
  <1>5. ASSUME ~IsInstalled
        PROVE  Made(Reinstall) /\ "WriteExe" \in Ops(Reinstall) /\ PortOrder(Reinstall)
    <2>1. Reinstall = <<>> \o Install \o two(FALSE, TRUE, "Apply")
      BY <1>5 DEF Reinstall
    <2>2. <<>> \o Install = Install
      BY <1>2
    <2>3. Reinstall = i(FALSE)
      BY <2>1, <2>2
    <2> DEFINE r == i(FALSE)
    <2>4. r \in Seq(Routine) /\ "WriteExe" \in Ops(r) /\ PortOrder(r)
      BY <1>3
    <2> HIDE DEF r
    <2> QED
      BY <2>3, <2>4 DEF Made, r
  <1>6. ASSUME IsInstalled
        PROVE  Made(InstallClicked) /\ Removes(InstallClicked) /\ PortOrder(InstallClicked)
    <2> DEFINE t == two(TRUE, FALSE, "Clear")
    <2>1. t \in Seq(Routine) /\ Ops(t) = {"Clear", "SetInstalledVersion"}
      BY <1>1
    <2>2. InstallClicked = Uninstall \o t
      BY <1>6 DEF InstallClicked
    <2> HIDE DEF t
    <2>3. PortOrder(t)
      BY <2>1, RoutineSeq, OrderAlone
    <2> QED
      BY <2>1, <2>2, <2>3, RemovesThen DEF Removes, Uninstalls
  <1>7. ASSUME ~IsInstalled
        PROVE  Made(InstallClicked) /\ "WriteExe" \in Ops(InstallClicked) /\ PortOrder(InstallClicked)
    <2> DEFINE r == i(TRUE)
    <2>1. InstallClicked = r
      BY <1>7 DEF InstallClicked
    <2>2. r \in Seq(Routine) /\ "WriteExe" \in Ops(r) /\ PortOrder(r)
      BY <1>3
    <2> HIDE DEF r
    <2> QED
      BY <2>1, <2>2 DEF Made
  <1> QED
    BY <1>4, <1>5, <1>6, <1>7

-----------------------------------------------------------------------------
(* The steps of the installer keep lists, files and settings in order.  *)

\* What a step is about, by what it does.
LEMMA StepKinds ==
    ASSUME NEW x \in Plain \cup Writes
    PROVE  /\ x[1] \in FileOps => x[2] \in Services /\ x[3] \in BOOLEAN /\ x = <<x[1], x[2], x[3]>>
           /\ x[1] \in OtherOps => x[2] \in Objects /\ x[3] \in BOOLEAN
           /\ x[1] = "Write" => x[2] \in Services /\ x[3] \in Seq(Lines)
           /\ x[1] = "SetPolkitRestrictions" => x \in {Lift, Confine}
           /\ x[1] \in FileOps \cup OtherOps \cup {"Write", "SetPolkitRestrictions"}
  <1>1. CASE x \in FileOps \X Services \X BOOLEAN
    <2>1. x[1] \in FileOps /\ x[2] \in Services /\ x[3] \in BOOLEAN /\ x = <<x[1], x[2], x[3]>>
      BY <1>1
    <2> QED
      BY <2>1 DEF FileOps, OtherOps
  <1>2. CASE x \in OtherOps \X Objects \X BOOLEAN
    <2>1. x[1] \in OtherOps /\ x[2] \in Objects /\ x[3] \in BOOLEAN
      BY <1>2
    <2> QED
      BY <2>1 DEF FileOps, OtherOps
  <1>3. CASE x \in Writes
    <2>1. x[1] = "Write" /\ x[2] \in Services /\ x[3] \in Seq(Lines)
      BY <1>3 DEF Writes
    <2> QED
      BY <2>1 DEF FileOps, OtherOps
  <1>4. CASE x = Lift
    <2>1. x[1] = "SetPolkitRestrictions"
      BY <1>4 DEF Lift
    <2> QED
      BY <1>4, <2>1 DEF FileOps, OtherOps
  <1>5. CASE x = Confine
    <2>1. x[1] = "SetPolkitRestrictions"
      BY <1>5 DEF Confine
    <2> QED
      BY <1>5, <2>1 DEF FileOps, OtherOps
  <1> QED
    BY <1>1, <1>2, <1>3, <1>4, <1>5 DEF Plain

\* A routine step takes nothing out of a file and removes no program.
LEMMA RoutineKinds ==
    ASSUME NEW x \in Routine
    PROVE  x[1] \notin {"Write", "RemoveFromConfig", "RemoveExe"} /\ x # Lift /\ x \in Plain
  <1>1. x \in Plain /\ x[1] \in FileOps \cup OtherOps \cup {"SetPolkitRestrictions"}
    BY RoutineStep DEF Routine
  <1> QED
    BY <1>1 DEF Routine, FileOps, OtherOps

\* The steps after a step that is followed by routine ones only.
LEMMA RoutineNext ==
    ASSUME todo' \in Seq(Routine)
    PROVE  StepsInv' /\ (Idle' \/ Step' \in Routine)
  <1>1. CASE todo' = <<>>
    BY <1>1 DEF StepsInv, Idle
  <1>2. CASE todo' # <<>>
    <2>1. /\ Step' \in Routine /\ Rest' \in Seq(Routine) /\ todo' = <<Step'>> \o Rest'
      BY <1>2, Uncons DEF Step, Rest
    <2>2. Step'[1] \notin {"Write", "RemoveFromConfig"} /\ Step' \in Plain
      BY <2>1, RoutineKinds
    <2> QED
      BY <2>1, <2>2 DEF StepsInv
  <1> QED
    BY <1>1, <1>2

\* The steps after a step that puts another one at the head.
LEMMA HeadNext ==
    ASSUME NEW x \in Plain \cup Writes, NEW r \in Seq(Routine), todo' = <<x>> \o r,
           x[1] = "RemoveFromConfig" => files'[x[2]] # Absent,
           x[1] = "Write" => Text(x[2], x[3])
    PROVE  StepsInv' /\ ~Idle' /\ Step' = x /\ Rest' = r
  <1> DEFINE A == Plain \cup Writes
  <1>1. r \in Seq(A)
    <2>1. Routine \subseteq A
      BY DEF Routine
    <2> HIDE DEF A
    <2> QED
      BY <2>1
  <1>2. todo' # <<>> /\ Head(todo') = x /\ Tail(todo') = r
    <2> HIDE DEF A
    <2> SUFFICES x \in A
      BY <1>1, HeadTail
    <2> QED
      BY DEF A
  <1>3. ~Idle' /\ Step' = x /\ Rest' = r
    BY <1>2 DEF Idle, Step, Rest
  <1> QED
    BY <1>3 DEF StepsInv

\* The steps after a click.
LEMMA MadeNext ==
    ASSUME Made(todo')
    PROVE  StepsInv' /\ (Idle' \/ Step' \in Fresh)
  <1>1. CASE todo' \in Seq(Routine)
    BY <1>1, RoutineNext DEF Fresh
  <1>2. CASE \E r \in Seq(Routine) : todo' = << <<"RemoveExe", "exe", TRUE>> >> \o r
    <2> DEFINE x == <<"RemoveExe", "exe", TRUE>>
    <2>1. PICK r \in Seq(Routine) : todo' = <<x>> \o r
      BY <1>2
    <2>2. x \in Plain /\ x[1] = "RemoveExe" /\ x \in Fresh
      BY RemoveStep DEF Fresh
    <2> HIDE DEF x
    <2> QED
      BY <2>1, <2>2, HeadNext
  <1> QED
    BY <1>1, <1>2 DEF Made

\* The texts that a step on a file makes.
LEMMA NewTexts ==
    ASSUME StepsInv, FilesInv, ~Idle, Step[1] \in {"AddToConfig", "RemoveFromConfig"}
    PROVE  Text(Step[2], NewText)
  <1> DEFINE s == Step[2]
  <1>1. s \in Services
    BY StepKinds DEF StepsInv, FileOps
  <1>2. CASE Step[1] = "RemoveFromConfig"
    <2>1. Text(s, files[s])
      BY <1>1, <1>2 DEF StepsInv, FilesInv
    <2>2. NewText = RemoveEntryFromFile(files[s], Entry(s))
      BY <1>2 DEF NewText
    <2> QED
      BY <2>1, <2>2, RemovedText
  <1>3. CASE Step[1] = "AddToConfig" /\ files[s] = Absent
    <2>1. NewText = GeneratedConfig(Entry(s), Includes)
      BY <1>3 DEF NewText
    <2> QED
      BY <2>1, GeneratedText
  <1>4. CASE Step[1] = "AddToConfig" /\ files[s] # Absent
    <2>1. Text(s, files[s])
      BY <1>1, <1>4 DEF FilesInv
    <2>2. NewText = AddEntryToFile(files[s], Entry(s))
      BY <1>4 DEF NewText
    <2>3. Text(s, AddEntryToFile(files[s], Entry(s)))
      <3> DEFINE text == files[s]
      <3> HIDE DEF s, text
      <3>1. Text(s, text)
        BY <2>1 DEF text
      <3>2. Text(s, AddEntryToFile(text, Entry(s)))
        BY <3>1, AddedText
      <3> QED
        BY <3>2 DEF text
    <2> QED
      BY <2>2, <2>3, Zenon
  <1> QED
    BY <1>2, <1>3, <1>4

\* An empty file keeps nobody out.
LEMMA EmptyText == \A s : Text(s, <<>>)
  <1>1. <<>> \in Seq(Lines) /\ Len(<<>>) = 0 /\ ToSet(<<>>) = {}
    BY DEF ToSet
  <1> QED
    BY <1>1 DEF Text, Linked

\* A file is replaced by nothing, by an empty one, or by a text of the kind it may have.
LEMMA FileReplaced ==
    ASSUME FilesInv, NEW s \in Services, NEW text, text = Absent \/ Text(s, text),
           files' = [files EXCEPT ![s] = text]
    PROVE  FilesInv'
  <1>1. text \in Seq(Lines) \cup {Absent}
    BY DEF Text
  <1> QED
    BY <1>1 DEF FilesInv

\* What the form leaves to be done when its settings are saved.
LEMMA Saved ==
    ASSUME OnSaveSettingsClicked
    PROVE  todo' \in Seq(Routine) /\ Ops(todo') \subseteq Applies
  <1>1. \E on \in [Toggles -> BOOLEAN] : todo' = ApplySettings(on)
    BY DEF OnSaveSettingsClicked, Click
  <1> QED
    BY <1>1, AppliesAll

\* Starting, clicking and closing.
LEMMA ClickTypes ==
    ASSUME StepsInv, FilesInv, SettingsInv,
           Start \/ OnInstallClicked \/ OnReinstallClicked \/ OnSaveSettingsClicked \/ Close
    PROVE  StepsInv' /\ FilesInv' /\ SettingsInv'
  <1>0. settings.setPassword \in BOOLEAN
    BY DEF SettingsInv
  <1>1. CASE Start
    <2>1. Made(todo') /\ UNCHANGED <<files, settings, exe, release>> /\ app' = release
      <3>1. <<>> \in Seq(Routine)
        OBVIOUS
      <3>2. todo' = Reinstall \/ todo' = <<>>
        BY <1>1 DEF Start, Click
      <3> QED
        BY <1>1, <3>1, <3>2, ButtonLists DEF Start, Click, Made
    <2>2. StepsInv'
      BY <2>1, MadeNext
    <2> QED
      BY <2>1, <2>2 DEF FilesInv, SettingsInv
  <1>2. CASE OnInstallClicked \/ OnReinstallClicked
    <2>1. Made(todo') /\ UNCHANGED <<files, settings, exe, release, app>> /\ app # 0
      BY <1>2, ButtonLists DEF OnInstallClicked, OnReinstallClicked, Click
    <2>2. StepsInv'
      BY <2>1, MadeNext
    <2> QED
      BY <2>1, <2>2 DEF FilesInv, SettingsInv
  <1>3. CASE OnSaveSettingsClicked
    <2>2. todo' \in Seq(Routine)
      BY <1>3, Saved
    <2>3. StepsInv'
      BY <2>2, RoutineNext
    <2>4. UNCHANGED <<files, exe, release, app>> /\ app # 0
      BY <1>3 DEF OnSaveSettingsClicked, Click
    <2>5. settings' \in {settings, [settings EXCEPT !.port = 2]}
      BY <1>3 DEF OnSaveSettingsClicked
    <2> QED
      BY <2>3, <2>4, <2>5 DEF FilesInv, SettingsInv
  <1>4. CASE Close
    <2>1. Idle' /\ UNCHANGED <<files, exe, settings, todo>> /\ app' = 0
      BY <1>4 DEF Close, Idle
    <2>2. release' \in {release, IF release < Len(Versions) THEN release + 1 ELSE release}
      BY <1>4 DEF Close
    <2>3. Len(Versions) \in Nat
      BY InstallerAssumption
    <2>4. StepsInv' /\ FilesInv'
      BY <2>1 DEF StepsInv, FilesInv
    <2> QED
      BY <2>1, <2>2, <2>3, <2>4 DEF SettingsInv
  <1> QED
    BY <1>1, <1>2, <1>3, <1>4

\* A step is taken, and the rest is left to do.
LEMMA RestNext ==
    ASSUME StepsInv, ~Idle, todo' = Rest
    PROVE  StepsInv' /\ (Idle' \/ Step' \in Routine)
  BY RoutineNext DEF StepsInv

\* What the installation of the program, its removal and the firewall are about.
Watched == {"WriteExe", "RemoveExe", "WriteModule", "Allow", "Disallow"}

\* A list is another one with steps before it that are not watched.
Watches(list, rest) ==
    \E pre \in Seq(Plain \cup Writes) : list = pre \o rest /\ Ops(pre) \cap Watched = {}

\* With none before it.
LEMMA WatchesSelf ==
    ASSUME NEW A, NEW r \in Seq(A)
    PROVE  Watches(r, r)
  <1> DEFINE e == <<>>
  <1>1. e \in Seq(Plain \cup Writes) /\ r = e \o r
    OBVIOUS
  <1>2. Ops(e) \cap Watched = {}
    BY OpsEmpty
  <1> HIDE DEF e
  <1> QED
    BY <1>1, <1>2 DEF Watches

\* A step that is not watched may stand before a list.
LEMMA WatchesHead ==
    ASSUME NEW x \in Plain \cup Writes, x[1] \notin Watched,
           NEW r, NEW rest \in Seq(Routine), Watches(r, rest)
    PROVE  Watches(<<x>> \o r, rest)
  <1> DEFINE A == Plain \cup Writes
  <1>1. PICK pre \in Seq(A) : r = pre \o rest /\ Ops(pre) \cap Watched = {}
    BY DEF Watches
  <1>2. rest \in Seq(A) /\ x \in A
    BY RoutineSeq
  <1>3. ASSUME NEW p \in Seq(A), <<x>> \o r = p \o rest, Ops(p) \cap Watched = {}
        PROVE  Watches(<<x>> \o r, rest)
    BY <1>3 DEF Watches
  <1> HIDE DEF A
  <1>4. <<x>> \o pre \in Seq(A) /\ Ops(<<x>> \o pre) = {x[1]} \cup Ops(pre)
    BY <1>1, <1>2, HeadTail
  <1>5. <<x>> \o (pre \o rest) = (<<x>> \o pre) \o rest
    <2>1. <<x>> \in Seq(A)
      BY <1>2
    <2> QED
      BY <1>1, <1>2, <2>1, ConcatAssociative
  <1> QED
    BY <1>1, <1>3, <1>4, <1>5

\* What is watched is in the rest, and in the same order.
LEMMA WatchesOps ==
    ASSUME NEW list, NEW rest \in Seq(Routine), Watches(list, rest)
    PROVE  /\ Ops(rest) \subseteq Ops(list) /\ Ops(list) \cap Watched \subseteq Ops(rest)
           /\ PortOrder(rest) => PortOrder(list)
  <1>1. PICK pre \in Seq(Plain \cup Writes) : list = pre \o rest /\ Ops(pre) \cap Watched = {}
    BY DEF Watches
  <1>2. rest \in Seq(Plain \cup Writes)
    BY RoutineSeq
  <1>3. Ops(list) = Ops(pre) \cup Ops(rest)
    BY <1>1, <1>2, OpsConcat
  <1>4. "Allow" \notin Ops(pre) /\ "RemoveExe" \notin Ops(pre)
    BY <1>1 DEF Watched
  <1>5. PortOrder(rest) => PortOrder(list)
    BY <1>1, <1>2, <1>4, OrderBefore
  <1> QED
    BY <1>1, <1>3, <1>5

\* The choice of the steps that turn an integration on or off.
Choice(s, has) ==
    \/ todo' = Rest /\ (Step[3] <=> has)
    \/ ~Idle' /\ ~has /\ s # "polkit-1" /\ Step' = <<"AddToConfig", s, TRUE>>
    \/ /\ ~Idle' /\ ~has /\ s = "polkit-1" /\ Step' = Lift
       /\ Rest' # <<>> /\ Head(Rest') = <<"AddToConfig", "polkit-1", TRUE>>
    \/ /\ ~Idle' /\ has /\ Step' = <<"RemoveFromConfig", s, TRUE>>
       /\ s = "polkit-1" => Rest' # <<>> /\ Head(Rest') = Confine

\* The steps chosen for an integration are on its file and, for polkit, on the unit.
LEMMA Chosen ==
    ASSUME StepsInv, ~Idle, Step[1] = "SetConfigEntry", UNCHANGED files,
           NEW has \in BOOLEAN, has => files[Step[2]] # Absent,
           todo' = ConfigSteps(Step[2], Step[3], has) \o Rest
    PROVE  /\ Step[2] \in Services
           /\ Choice(Step[2], has)
           /\ StepsInv'
           /\ Watches(todo', Rest)
  <1> DEFINE s == Step[2]
             b == Step[3]
             add == <<"AddToConfig", s, TRUE>>
             remove == <<"RemoveFromConfig", s, TRUE>>
             polkit == IF s = "polkit-1" THEN << <<"SetPolkitRestrictions", s, ~b>> >> ELSE <<>>
  <1>1. ~Idle /\ Step \in Plain \cup Writes /\ Rest \in Seq(Routine) /\ UNCHANGED files
    BY DEF StepsInv
  <1>2. s \in Services /\ b \in BOOLEAN
    BY <1>1, StepKinds DEF FileOps
  <1>3. \/ b /\ ~has /\ todo' = polkit \o <<add>> \o Rest
        \/ ~b /\ has /\ todo' = <<remove>> \o polkit \o Rest
        \/ todo' = Rest /\ (b <=> has)
    <2>1. <<>> \o Rest = Rest
      BY <1>1
    <2> QED
      BY <1>2, <2>1 DEF ConfigSteps
  <1>4. Watches(Rest, Rest)
    BY <1>1, WatchesSelf
  <1>6. CASE todo' = Rest /\ (b <=> has)
    <2>1. StepsInv'
      BY <1>1, <1>6, RestNext
    <2> QED
      BY <1>2, <1>4, <1>6, <2>1, Zenon DEF Choice
  <1>7. CASE ~b /\ has /\ todo' = <<remove>> \o polkit \o Rest
    <2>1. remove \in Plain /\ remove[1] = "RemoveFromConfig" /\ remove[2] = s
      BY <1>2, RoutineStep
    <2>2. files'[s] # Absent
      BY <1>1, <1>7
    <2> DEFINE r == polkit \o Rest
    <2>3. /\ r \in Seq(Routine) /\ Watches(r, Rest) /\ polkit \in Seq(Routine)
          /\ s = "polkit-1" => r # <<>> /\ Head(r) = Confine
      <3>1. CASE s = "polkit-1"
        <4>1. polkit = <<Confine>>
          BY <1>7, <3>1 DEF Confine
        <4>2. Confine \in Routine /\ Confine \in Plain /\ Confine[1] \notin Watched
          BY RoutineStep, RoutineKinds DEF Confine, Watched
        <4>3. <<Confine>> \in Seq(Routine)
          BY <4>2
        <4>4. /\ <<Confine>> \o Rest \in Seq(Routine) /\ <<Confine>> \o Rest # <<>>
              /\ Head(<<Confine>> \o Rest) = Confine
          BY <1>1, <4>2, HeadTail
        <4>5. Watches(<<Confine>> \o Rest, Rest)
          BY <1>1, <1>4, <4>2, WatchesHead
        <4>6. r = <<Confine>> \o Rest
          BY <4>1, Zenon
        <4> HIDE DEF r, polkit
        <4> QED
          BY <4>1, <4>3, <4>4, <4>5, <4>6
      <3>2. CASE s # "polkit-1"
        <4>1. polkit = <<>> /\ <<>> \o Rest = Rest /\ <<>> \in Seq(Routine)
          BY <1>1, <3>2
        <4>2. r = Rest
          BY <4>1, Zenon
        <4> HIDE DEF r, polkit
        <4> QED
          BY <1>1, <1>4, <3>2, <4>1, <4>2
      <3> QED
        BY <3>1, <3>2
    <2>4. todo' = <<remove>> \o r
      <3>1. (<<remove>> \o polkit) \o Rest = <<remove>> \o (polkit \o Rest)
        <4> DEFINE A == Routine \cup {remove}
        <4> HIDE DEF remove, polkit
        <4>1. <<remove>> \in Seq(A) /\ Routine \subseteq A
          OBVIOUS
        <4> HIDE DEF A
        <4>2. polkit \in Seq(A) /\ Rest \in Seq(A)
          BY <1>1, <2>3, <4>1
        <4> QED
          BY <4>1, <4>2, ConcatAssociative
      <3> QED
        BY <1>7, <3>1
    <2>5. remove[1] # "Write" /\ remove[1] \notin Watched
      BY DEF Watched
    <2>6. StepsInv' /\ ~Idle' /\ Step' = remove /\ Rest' = r
      <3> HIDE DEF remove, r
      <3> QED
        BY <2>1, <2>2, <2>3, <2>4, <2>5, HeadNext
    <2>7. Watches(todo', Rest)
      <3> HIDE DEF remove, r
      <3> QED
        BY <1>1, <2>1, <2>3, <2>4, <2>5, WatchesHead
    <2>8. Choice(s, has)
      BY <1>7, <2>3, <2>6, Zenon DEF Choice
    <2> QED
      BY <1>2, <2>6, <2>7, <2>8, Zenon
  <1>8. CASE b /\ ~has /\ todo' = polkit \o <<add>> \o Rest
    <2> DEFINE r == <<add>> \o Rest
    <2>1. add \in Routine /\ add \in Plain /\ add[1] \notin Watched
      BY <1>2, RoutineStep, RoutineKinds DEF Watched
    <2>2. r \in Seq(Routine) /\ r # <<>> /\ Head(r) = add /\ Tail(r) = Rest
      <3> HIDE DEF add
      <3> QED
        BY <1>1, <2>1, HeadTail
    <2>3. Watches(r, Rest)
      <3> HIDE DEF add
      <3> QED
        BY <1>1, <1>4, <2>1, WatchesHead
    <2>4. CASE s = "polkit-1"
      <3>1. polkit = <<Lift>>
        BY <1>8, <2>4 DEF Lift
      <3>2. (<<Lift>> \o <<add>>) \o Rest = <<Lift>> \o r
        <4> DEFINE A == Routine \cup {Lift}
        <4> HIDE DEF add
        <4>1. <<Lift>> \in Seq(A) /\ Routine \subseteq A /\ <<add>> \in Seq(A)
          BY <2>1
        <4> HIDE DEF A
        <4>2. Rest \in Seq(A)
          BY <1>1, <4>1
        <4> QED
          BY <4>1, <4>2, ConcatAssociative
      <3>3. todo' = <<Lift>> \o r
        BY <1>8, <3>1, <3>2, Zenon
      <3>4. /\ Lift \in Plain /\ Lift[1] = "SetPolkitRestrictions" /\ Lift[1] \notin Watched
        BY RoutineStep DEF Lift, Watched
      <3>5. StepsInv' /\ ~Idle' /\ Step' = Lift /\ Rest' = r
        <4> HIDE DEF r
        <4> QED
          BY <2>2, <3>3, <3>4, HeadNext
      <3>6. Watches(todo', Rest)
        <4> HIDE DEF r
        <4> QED
          BY <1>1, <2>2, <2>3, <3>3, <3>4, WatchesHead
      <3>7. add = <<"AddToConfig", "polkit-1", TRUE>>
        BY <2>4
      <3>8. Rest' # <<>> /\ Head(Rest') = <<"AddToConfig", "polkit-1", TRUE>>
        BY <2>2, <3>5, <3>7, Zenon
      <3>9. Choice(s, has)
        BY <1>8, <2>4, <3>5, <3>8, Zenon DEF Choice
      <3> QED
        BY <1>2, <3>5, <3>6, <3>9, Zenon
    <2>5. CASE s # "polkit-1"
      <3>1. polkit = <<>>
        BY <2>5
      <3>2. (<<>> \o <<add>>) \o Rest = r
        OBVIOUS
      <3>3. todo' = r
        BY <1>8, <3>1, <3>2, Zenon
      <3>4. StepsInv'
        BY <2>2, <3>3, RoutineNext
      <3>5. ~Idle' /\ Step' = add
        <4> HIDE DEF r, add
        <4> QED
          BY <2>2, <3>3 DEF Idle, Step
      <3>6. Choice(s, has)
        BY <1>8, <2>5, <3>5, Zenon DEF Choice
      <3>7. Watches(todo', Rest)
        <4> HIDE DEF r
        <4> QED
          BY <2>3, <3>3
      <3> QED
        BY <1>2, <3>4, <3>6, <3>7, Zenon
    <2> QED
      BY <2>4, <2>5
  <1> QED
    BY <1>3, <1>6, <1>7, <1>8

\* The steps are chosen by whether the entry was found, in a file that may not have
\* been read.
LEMMA Turned ==
    ASSUME StepsInv, SetConfigEntry \/ EntryMissed
    PROVE  /\ ~Idle /\ Step[1] = "SetConfigEntry" /\ Step[2] \in Services
           /\ \E unread \in SUBSET {Step[2]} :
                 /\ Choice(Step[2], Found(Step[2], unread))
                 /\ unread = {} \/ Step[2] \in hurt'
           /\ StepsInv' /\ Watches(todo', Rest) /\ hurt \subseteq hurt'
           /\ UNCHANGED <<files, unit, exe, modules, settings, rules, app, release, original, moved>>
  <1> DEFINE s == Step[2]
  <1>1. /\ ~Idle /\ Step[1] = "SetConfigEntry" /\ hurt \subseteq hurt'
        /\ UNCHANGED <<files, unit, exe, modules, settings, rules, app, release, original, moved>>
    BY DEF SetConfigEntry, EntryMissed, Does, InClick, Continue, Fault
  <1>2. ASSUME NEW unread
        PROVE  Found(s, unread) \in BOOLEAN /\ (Found(s, unread) => files[s] # Absent)
    BY DEF Found, HasConfigEntry
  <1>3. PICK unread \in SUBSET {s} :
           /\ todo' = ConfigSteps(s, Step[3], Found(s, unread)) \o Rest
           /\ unread = {} \/ s \in hurt'
    <2>1. CASE SetConfigEntry
      BY <2>1 DEF SetConfigEntry, Continue
    <2>2. CASE EntryMissed
      BY <2>2 DEF EntryMissed, About
    <2> QED
      BY <2>1, <2>2
  <1> DEFINE has == Found(s, unread)
  <1>4. has \in BOOLEAN /\ (has => files[s] # Absent)
    BY <1>2
  <1>5. todo' = ConfigSteps(Step[2], Step[3], has) \o Rest
    BY <1>3
  <1> HIDE DEF has
  <1>6. s \in Services /\ Choice(s, has) /\ StepsInv' /\ Watches(todo', Rest)
    BY <1>1, <1>4, <1>5, Chosen
  <1> QED
    BY <1>1, <1>3, <1>6 DEF has

\* A list that is worked out when its turn comes is routine.
LEMMA Expanded ==
    ASSUME StepsInv, SettingsInv, Expand \/ SettingMissed
    PROVE  /\ ~Idle /\ Step[1] \in {"Apply", "Clear"}
           /\ todo' \in Seq(Routine) /\ Watches(todo', Rest)
           /\ UNCHANGED <<files, unit, exe, modules, settings, rules, app, release, original,
                          hurt, moved>>
  <1>1. /\ ~Idle /\ Step[1] \in {"Apply", "Clear"} /\ Rest \in Seq(Routine)
        /\ UNCHANGED <<files, unit, exe, modules, settings, rules, app, release, original,
                       hurt, moved>>
    BY DEF Expand, SettingMissed, Does, InClick, StepsInv, Continue, Fault
  <1>2. \E on \in [Toggles -> BOOLEAN] : todo' = ApplySettings(on) \o Rest
    <2>1. ASSUME NEW unread
          PROVE  /\ GetSettings(unread).enabled \in [Toggles -> BOOLEAN]
                 /\ GetSettings(unread).defaultVal \in [Toggles -> BOOLEAN]
      BY SettingsShown DEF SettingsInv
    <2>2. CASE Expand
      <3>1. \/ todo' = ApplySettings(GetSettings({}).enabled) \o Rest
            \/ todo' = ApplySettings(GetSettings({}).defaultVal) \o Rest
        BY <2>2 DEF Expand, Continue, ClearSettings
      <3> QED
        BY <2>1, <3>1
    <2>3. CASE SettingMissed
      <3>1. \E t \in Services : todo' = ApplySettings(GetSettings({t}).enabled) \o Rest
        BY <2>3 DEF SettingMissed, ClearSettings
      <3> QED
        BY <2>1, <3>1
    <2> QED
      BY <2>2, <2>3
  <1>3. PICK on \in [Toggles -> BOOLEAN] : todo' = ApplySettings(on) \o Rest
    BY <1>2
  <1> DEFINE l == ApplySettings(on)
  <1>4. l \in Seq(Routine) /\ Ops(l) \subseteq Applies
    BY AppliesAll
  <1> HIDE DEF l
  <1>5. l \o Rest \in Seq(Routine) /\ l \in Seq(Plain \cup Writes)
    BY <1>1, <1>4, RoutineSeq
  <1>6. todo' = l \o Rest
    BY <1>3 DEF l
  <1>7. Ops(l) \cap Watched = {}
    BY <1>4 DEF Watched, Applies
  <1>8. Watches(todo', Rest)
    BY <1>5, <1>6, <1>7 DEF Watches
  <1> QED
    BY <1>1, <1>5, <1>6, <1>8

\* The steps that leave the files alone.
LEMMA PlainTypes ==
    ASSUME StepsInv, FilesInv, SettingsInv,
           \/ Copy \/ Firewall \/ Expand \/ Settings \/ SetConfigEntry \/ RestrictPolkit
           \/ EntryMissed \/ SettingMissed
    PROVE  StepsInv' /\ FilesInv' /\ SettingsInv'
  <1>1. InClick /\ UNCHANGED <<files, app, release>>
    BY DEF Copy, Firewall, Expand, Settings, SetConfigEntry, RestrictPolkit, EntryMissed,
           SettingMissed, Fault, Does, Continue
  <1>2. ~Idle /\ app # 0 /\ app = release /\ Step \in Plain \cup Writes /\ Rest \in Seq(Routine)
    BY <1>1 DEF InClick, StepsInv, SettingsInv
  <1>3. FilesInv'
    BY <1>1 DEF FilesInv
  <1>4. CASE Copy
    <2>1. todo' = Rest /\ UNCHANGED settings
      BY <1>4 DEF Copy, Continue
    <2>2. exe' \in {exe, app, 0}
      BY <1>4 DEF Copy
    <2> QED
      BY <1>1, <1>2, <1>3, <2>1, <2>2, RestNext DEF SettingsInv
  <1>5. CASE Firewall \/ RestrictPolkit
    <2>1. todo' = Rest /\ UNCHANGED <<settings, exe>>
      BY <1>5 DEF Firewall, RestrictPolkit, Continue
    <2> QED
      BY <1>1, <1>2, <1>3, <2>1, RestNext DEF SettingsInv
  <1>6. CASE Settings
    <2>1. todo' = Rest /\ UNCHANGED exe
      BY <1>6 DEF Settings, Continue
    <2>2. \/ Step[3] \in BOOLEAN /\ settings' = [settings EXCEPT !.setPassword = Step[3]]
          \/ \E v \in {app, 0} : settings' = [settings EXCEPT !.version = v]
      <3>1. CASE Does("SetPassword") /\ settings' = [settings EXCEPT !.setPassword = Step[3]]
        BY <1>2, <3>1, StepKinds DEF Does, OtherOps
      <3>2. CASE settings' = [settings EXCEPT !.version =
                                 IF Step[3] \/ IsInstalled THEN app ELSE 0]
        BY <3>2
      <3> QED
        BY <1>6, <3>1, <3>2 DEF Settings
    <2> QED
      BY <1>1, <1>2, <1>3, <2>1, <2>2, RestNext DEF SettingsInv
  <1>7. CASE Expand \/ SettingMissed
    <2>1. todo' \in Seq(Routine) /\ UNCHANGED <<settings, exe>>
      BY <1>7, Expanded
    <2> QED
      BY <1>1, <1>2, <1>3, <2>1, RoutineNext DEF SettingsInv
  <1>8. CASE SetConfigEntry \/ EntryMissed
    <2>1. StepsInv' /\ UNCHANGED <<settings, exe>>
      BY <1>8, Turned
    <2> QED
      BY <1>1, <1>2, <1>3, <2>1 DEF SettingsInv
  <1> QED
    BY <1>4, <1>5, <1>6, <1>7, <1>8

\* A file is deleted, or emptied in order to be written.
LEMMA Opened ==
    ASSUME StepsInv, FilesInv, OpenFile
    PROVE  LET s == Step[2]
           IN  /\ s \in Services /\ StepsInv' /\ FilesInv' /\ Watches(todo', Rest)
               /\ ~Idle /\ Step[1] \in {"AddToConfig", "RemoveFromConfig"}
               /\ \/ /\ Step[1] = "RemoveFromConfig" /\ IsConfigGenerated(files[s])
                     /\ files' = [files EXCEPT ![s] = Absent] /\ todo' = Rest
                  \/ /\ Step[1] = "RemoveFromConfig" => ~IsConfigGenerated(files[s])
                     /\ files' = [files EXCEPT ![s] = <<>>]
                     /\ ~Idle' /\ Step' = <<"Write", s, NewText>> /\ Rest' = Rest
  <1> DEFINE s == Step[2]
             x == <<"Write", s, NewText>>
  <1>1. /\ ~Idle /\ Step \in Plain \cup Writes /\ Rest \in Seq(Routine)
        /\ Step[1] \in {"AddToConfig", "RemoveFromConfig"}
    BY DEF StepsInv, OpenFile, Does, InClick
  <1>2. s \in Services
    BY <1>1, StepKinds DEF FileOps
  <1>3. CASE Step[1] = "RemoveFromConfig" /\ IsConfigGenerated(files[s])
    <2>1. files' = [files EXCEPT ![s] = Absent] /\ todo' = Rest
      BY <1>3 DEF OpenFile, Continue
    <2>2. StepsInv' /\ FilesInv'
      BY <1>1, <1>2, <2>1, RestNext, FileReplaced
    <2>3. Watches(todo', Rest)
      BY <1>1, <2>1, WatchesSelf
    <2> QED
      BY <1>1, <1>2, <1>3, <2>1, <2>2, <2>3
  <1>4. CASE Step[1] = "RemoveFromConfig" => ~IsConfigGenerated(files[s])
    <2>1. files' = [files EXCEPT ![s] = <<>>] /\ todo' = <<x>> \o Rest
      BY <1>4 DEF OpenFile, Continue
    <2>2. Text(s, NewText)
      BY <1>1, <1>4, NewTexts
    <2>3. x \in Writes /\ x[1] = "Write" /\ x[2] = s /\ x[3] = NewText
      BY <1>2, <2>2 DEF Writes, Text
    <2>4. StepsInv' /\ ~Idle' /\ Step' = x /\ Rest' = Rest
      <3> HIDE DEF x
      <3> QED
        BY <1>1, <2>1, <2>2, <2>3, HeadNext
    <2>5. Watches(todo', Rest)
      <3>1. Watches(Rest, Rest)
        BY <1>1, WatchesSelf
      <3> HIDE DEF x
      <3> QED
        BY <1>1, <2>1, <2>3, <3>1, WatchesHead DEF Watched
    <2>6. FilesInv'
      BY <1>2, <2>1, EmptyText, FileReplaced
    <2> QED
      BY <1>1, <1>2, <1>4, <2>1, <2>4, <2>5, <2>6
  <1> QED
    BY <1>3, <1>4

\* A text is written to its file.
LEMMA Written ==
    ASSUME StepsInv, FilesInv, WriteFile
    PROVE  /\ Step[2] \in Services /\ Step[3] \in Seq(Lines) /\ ~Idle /\ Step[1] = "Write"
           /\ files' = [files EXCEPT ![Step[2]] = Step[3]] /\ todo' = Rest
           /\ StepsInv' /\ FilesInv'
  <1>1. ~Idle /\ Step[1] = "Write" /\ Step \in Plain \cup Writes
    BY DEF StepsInv, WriteFile, Does, InClick
  <1>2. Step[2] \in Services /\ Step[3] \in Seq(Lines) /\ Text(Step[2], Step[3])
    BY <1>1, StepKinds DEF StepsInv
  <1>3. files' = [files EXCEPT ![Step[2]] = Step[3]] /\ todo' = Rest
    BY DEF WriteFile, Continue
  <1> QED
    BY <1>1, <1>2, <1>3, FileReplaced, RestNext

\* A file that was not read is written anew.
LEMMA NotRead ==
    ASSUME StepsInv, FilesInv, Unread
    PROVE  LET s == Step[2]
           IN  /\ s \in Services /\ StepsInv' /\ FilesInv' /\ s \in hurt' /\ hurt' = hurt \cup About
               /\ ~Idle' /\ Step'[1] = "Write" /\ Step'[2] = s /\ Watches(todo', Rest)
               /\ files' = [files EXCEPT ![s] = <<>>] /\ ~Idle
               /\ Step[1] \in {"AddToConfig", "RemoveFromConfig"}
  <1> DEFINE s == Step[2]
             text == UnreadText
             x == <<"Write", s, text>>
  <1>1. /\ ~Idle /\ Step[1] \in {"AddToConfig", "RemoveFromConfig"}
        /\ Step \in Plain \cup Writes /\ Rest \in Seq(Routine) /\ files[s] # Absent
    BY DEF StepsInv, Unread, Does, InClick
  <1>2. s \in Services
    BY <1>1, StepKinds DEF FileOps
  <1>3. Text(s, text)
    <2> DEFINE e == <<>>
               old == IF IsConfigGenerated(files[s]) THEN files[s] ELSE e
    <2>1. Text(s, e) /\ Text(s, old)
      BY <1>1, <1>2, EmptyText DEF FilesInv
    <2>2. text = IF Step[1] = "AddToConfig" THEN AddEntryToFile(e, Entry(s))
                 ELSE RemoveEntryFromFile(old, Entry(s))
      BY DEF UnreadText
    <2> HIDE DEF e, old, s
    <2>3. Text(s, AddEntryToFile(e, Entry(s))) /\ Text(s, RemoveEntryFromFile(old, Entry(s)))
      BY <2>1, AddedText, RemovedText
    <2> HIDE DEF text
    <2> QED
      BY <2>2, <2>3
  <1>4. /\ files' = [files EXCEPT ![s] = <<>>] /\ todo' = <<x>> \o Rest
        /\ hurt' = hurt \cup About /\ s \in About
    BY DEF Unread, About
  <1>5. x \in Writes /\ x[1] = "Write" /\ x[2] = s /\ x[3] = text
    BY <1>2, <1>3 DEF Writes, Text
  <1>6. StepsInv' /\ ~Idle' /\ Step' = x /\ Rest' = Rest
    <2> HIDE DEF x
    <2> QED
      BY <1>1, <1>3, <1>4, <1>5, HeadNext
  <1>7. Watches(todo', Rest)
    <2>1. Watches(Rest, Rest)
      BY <1>1, WatchesSelf
    <2> HIDE DEF x
    <2> QED
      BY <1>1, <1>4, <1>5, <2>1, WatchesHead DEF Watched
  <1>8. FilesInv'
    BY <1>2, <1>4, EmptyText, FileReplaced
  <1> HIDE DEF x
  <1> QED
    BY <1>1, <1>2, <1>4, <1>5, <1>6, <1>7, <1>8

\* Every step of the installer.
LEMMA InstallerTypes ==
    ASSUME StepsInv, FilesInv, SettingsInv, InstallerNext
    PROVE  StepsInv' /\ FilesInv' /\ SettingsInv'
  <1>1. CASE OpenFile \/ WriteFile
    <2>1. StepsInv' /\ FilesInv'
      BY <1>1, Opened, Written
    <2>2. UNCHANGED <<settings, release, app, exe>> /\ app # 0
      BY <1>1 DEF OpenFile, WriteFile, Continue, Does, InClick
    <2> QED
      BY <2>1, <2>2 DEF SettingsInv
  <1>2. CASE Unread
    <2>1. StepsInv' /\ FilesInv'
      BY <1>2, NotRead
    <2>2. UNCHANGED <<settings, release, app, exe>> /\ app # 0
      BY <1>2 DEF Unread, Fault, Does, InClick
    <2> QED
      BY <2>1, <2>2 DEF SettingsInv
  <1>3. CASE Interrupt
    <2>1. Idle' /\ app' \in {app, 0} /\ UNCHANGED <<settings, release, exe, files>>
      BY <1>3 DEF Interrupt, Fault, Throws, Idle
    <2> QED
      BY <2>1 DEF StepsInv, FilesInv, SettingsInv
  <1>4. CASE Ignored
    <2>1. /\ ~Idle /\ todo' = Rest /\ app # 0
          /\ UNCHANGED <<settings, release, exe, files, app>>
      BY <1>4 DEF Ignored, Fault, InClick
    <2>2. StepsInv'
      BY <2>1, RestNext
    <2> QED
      BY <2>1, <2>2 DEF FilesInv, SettingsInv
  <1> QED
    BY <1>1, <1>2, <1>3, <1>4, ClickTypes, PlainTypes DEF InstallerNext

\* The system's own files keep nobody out and are not generated.
LEMMA OriginalText ==
    ASSUME NEW s \in Services, NEW text \in Originals[s], text # Absent
    PROVE  Text(s, text) /\ ~IsConfigGenerated(text)
  <1> DEFINE A == {Header, Comment, Own, Session} \cup Existing
  <1>1. text \in Seq(A)
    BY OriginalsAssumption DEF Existing
  <1>2. A \subseteq Lines /\ {UnixFirst, Generated, Module} \cap A = {} /\ A \cap Missing = {}
    <2>1. A \subseteq Lines
      BY ExistingLines DEF Lines
    <2>2. {UnixFirst, Generated, Module} \cap A = {}
      BY ExistingLines, LinesDiffer
    <2>3. A \cap Missing = {}
      BY ExistingLines, LinesDiffer DEF Missing
    <2> QED
      BY <2>1, <2>2, <2>3
  <1> HIDE DEF A
  <1>3. text \in Seq(Lines) /\ \A k \in 1..Len(text) : text[k] \in A
    BY <1>1, <1>2
  <1>4. ToSet(text) \subseteq A /\ (IsConfigGenerated(text) => Generated \in ToSet(text))
    BY <1>1, Elements DEF IsConfigGenerated
  <1>5. Linked(s, text)
    BY <1>2, <1>3 DEF Linked, Leads
  <1> QED
    BY <1>2, <1>3, <1>4, <1>5 DEF Text

\* Nothing is to be done at first.
LEMMA InstallerTypesInit == InstallerInit => StepsInv /\ FilesInv /\ SettingsInv
  <1> SUFFICES ASSUME InstallerInit PROVE StepsInv /\ FilesInv /\ SettingsInv
    OBVIOUS
  <1>1. StepsInv
    BY DEF InstallerInit, StepsInv, Idle
  <1>2. DOMAIN files = Services /\ files = [s \in Services |-> files[s]]
        /\ \A s \in Services : files[s] \in Originals[s]
    BY DEF InstallerInit
  <1>3. \A s \in Services : files[s] # Absent => Text(s, files[s])
    BY <1>2, OriginalText
  <1>4. \A s \in Services : files[s] \in Seq(Lines) \cup {Absent}
    BY <1>3 DEF Text
  <1>5. FilesInv
    BY <1>2, <1>3, <1>4 DEF FilesInv
  <1>6. SettingsInv
    BY InstallerAssumption DEF InstallerInit, SettingsInv, Idle
  <1> QED
    BY <1>1, <1>5, <1>6

-----------------------------------------------------------------------------
(* The system's own lines.  *)

Ours == {Header, Generated, Module, UnixFirst}

\* Nothing is left of a text all of whose lines go.
LEMMA WithoutAll ==
    ASSUME NEW A, NEW t \in Seq(A), NEW L, ToSet(t) \subseteq L
    PROVE  Without(t, L) = <<>>
  <1> DEFINE B == ToSet(t)
             w == Without(t, L)
  <1>1. t \in Seq(B)
    BY Elements
  <1>2. w \in Seq(B \ L)
    <2> HIDE DEF B
    <2> QED
      BY <1>1, WithoutPieces
  <1>3. B \ L = {}
    OBVIOUS
  <1> HIDE DEF B, w
  <1>4. w \in Seq({})
    BY <1>2, <1>3
  <1>5. w = <<>>
    BY <1>4
  <1> QED
    BY <1>5 DEF w

\* Putting an entry in leaves the system's own lines alone.
LEMMA AddedOwn ==
    ASSUME NEW s, NEW text \in Seq(Lines)
    PROVE  OwnLines(AddEntryToFile(text, Entry(s))) = OwnLines(text)
  <1> DEFINE e == Entry(s)
             he == <<Header>> \o e
             p == AddPieces(text, e)
             a == IF Contains(text, Header) THEN <<>> ELSE he
             b == FlattenSeq(p)
             L == Ours
  <1>1. /\ AddEntryToFile(text, e) = a \o b
        /\ a \in Seq(Lines) /\ ToSet(a) \subseteq {Header, UnixFirst, Module}
        /\ Len(p) = Len(text) /\ p \in Seq(Seq(Lines))
        /\ \A i \in 1..Len(text) : p[i] = IF text[i] = Header THEN he ELSE <<text[i]>>
    BY AddIs
  <1>2. e \in Seq(Lines) /\ ToSet(e) \subseteq {UnixFirst, Module}
    BY Entries
  <1>3. {Header, UnixFirst, Module} \subseteq L
    BY DEF Ours
  <1> HIDE DEF e, p, a, L
  <1>4. ASSUME NEW i \in 1..Len(text)
        PROVE  Without(p[i], L) = IF text[i] \in L THEN <<>> ELSE <<text[i]>>
    <2>1. CASE text[i] = Header
      <3>1. he \in Seq(Lines) /\ ToSet(he) \subseteq L
        <4>1. Header \in Lines
          BY DEF Lines
        <4>2. ToSet(he) = {Header} \cup ToSet(e)
          BY <1>2, <4>1, HeadTail
        <4>3. he \in Seq(Lines)
          BY <1>2, <4>1, HeadTail
        <4> QED
          BY <1>2, <1>3, <4>2, <4>3
      <3> HIDE DEF he
      <3>2. Without(he, L) = <<>>
        BY <3>1, WithoutAll
      <3> QED
        BY <1>1, <1>3, <2>1, <3>2
    <2>2. CASE text[i] # Header
      <3>1. p[i] = <<text[i]>>
        <4> HIDE DEF he
        <4> QED
          BY <1>1, <2>2
      <3>2. text[i] \in Lines
        OBVIOUS
      <3> QED
        BY <3>1, <3>2, WithoutOne
    <2> QED
      BY <2>1, <2>2
  <1>5. Without(b, L) = Without(text, L)
    BY <1>1, <1>4, WithoutReplaced
  <1>6. b \in Seq(Lines)
    BY <1>1, FlattenType
  <1>7. Without(a, L) = <<>>
    BY <1>1, <1>3, WithoutAll
  <1> HIDE DEF b
  <1>8. Without(a \o b, L) = Without(a, L) \o Without(b, L)
    BY <1>1, <1>6, WithoutConcat
  <1>9. Without(text, L) \in Seq(Lines \ L)
    BY WithoutPieces
  <1>10. Without(a \o b, L) = Without(text, L)
    <2> DEFINE w == Without(text, L)
    <2> HIDE DEF w
    <2>1. <<>> \o w = w
      BY <1>9 DEF w
    <2> QED
      BY <1>5, <1>7, <1>8, <2>1 DEF w
  <1> QED
    BY <1>1, <1>10 DEF OwnLines, L, Ours, e

\* So does taking it out.
LEMMA RemovedOwn ==
    ASSUME NEW s, NEW text \in Seq(Lines)
    PROVE  OwnLines(RemoveEntryFromFile(text, Entry(s))) = OwnLines(text)
  <1> DEFINE E == ToSet(Entry(s))
             p == Pieces(text, E)
             L == Ours
  <1>1. E \subseteq L
    BY Entries DEF Ours
  <1>2. /\ RemoveEntryFromFile(text, Entry(s)) = FlattenSeq(p)
        /\ p \in Seq(Seq(Lines \ E)) /\ Len(p) = Len(text)
    BY WithoutPieces DEF RemoveEntryFromFile
  <1>3. p \in Seq(Seq(Lines))
    <2>1. Lines \ E \subseteq Lines
      OBVIOUS
    <2>2. Seq(Lines \ E) \subseteq Seq(Lines)
      BY <2>1
    <2> HIDE DEF p, E
    <2> QED
      BY <1>2, <2>2
  <1> HIDE DEF E, L
  <1>4. ASSUME NEW i \in 1..Len(text)
        PROVE  Without(p[i], L) = IF text[i] \in L THEN <<>> ELSE <<text[i]>>
    <2>1. p[i] = IF text[i] \in E THEN <<>> ELSE <<text[i]>>
      BY PieceAt
    <2>2. CASE text[i] \in E
      <3>1. <<>> \in Seq(Lines) /\ ToSet(<<>>) \subseteq L
        BY DEF ToSet
      <3>2. Without(<<>>, L) = <<>>
        BY <3>1, WithoutAll
      <3> QED
        BY <1>1, <2>1, <2>2, <3>2
    <2>3. CASE text[i] \notin E
      <3>1. text[i] \in Lines
        OBVIOUS
      <3> QED
        BY <2>1, <2>3, <3>1, WithoutOne
    <2> QED
      BY <2>2, <2>3
  <1> HIDE DEF p
  <1>5. Without(FlattenSeq(p), L) = Without(text, L)
    BY <1>2, <1>3, <1>4, WithoutReplaced
  <1> QED
    BY <1>2, <1>5 DEF OwnLines, L, Ours

\* What the installer writes keeps the lines, or is its own.
LEMMA KeptAdded ==
    ASSUME FilesInv, NEW s \in Services, KeptText(s, files[s])
    PROVE  LET new == IF files[s] = Absent THEN GeneratedConfig(Entry(s), Includes)
                      ELSE AddEntryToFile(files[s], Entry(s))
           IN  KeptText(s, new)
  <1>1. CASE files[s] = Absent
    <2>1. /\ Text(s, GeneratedConfig(Entry(s), Includes))
          /\ IsConfigGenerated(GeneratedConfig(Entry(s), Includes))
          /\ Refers(GeneratedConfig(Entry(s), Includes))
      BY GeneratedText
    <2>2. original.files[s] = Absent
      BY <1>1 DEF KeptText
    <2> QED
      BY <1>1, <2>1, <2>2 DEF KeptText
  <1>2. CASE files[s] # Absent
    <2> DEFINE text == files[s]
               new == AddEntryToFile(text, Entry(s))
    <2>1. Text(s, text)
      BY <1>2 DEF FilesInv
    <2>2. text \in Seq(Lines)
      BY <2>1 DEF Text
    <2> HIDE DEF text
    <2>3. /\ Text(s, new) /\ (IsConfigGenerated(new) <=> IsConfigGenerated(text))
          /\ Refers(text) => Refers(new)
      BY <2>1, AddedText DEF Refers
    <2>4. OwnLines(new) = OwnLines(text)
      BY <2>2, AddedOwn
    <2>5. new # Absent
      BY <2>3, InstallerAssumption DEF Text
    <2> HIDE DEF new
    <2>6. KeptText(s, text) => KeptText(s, new)
      BY <1>2, <2>3, <2>4, <2>5 DEF KeptText, text
    <2>7. KeptText(s, new)
      BY <2>6 DEF text
    <2> QED
      BY <1>2, <2>7 DEF new, text
  <1> QED
    BY <1>1, <1>2

\* What is left when an entry is taken out keeps the lines.
LEMMA KeptRemoved ==
    ASSUME FilesInv, NEW s \in Services, KeptText(s, files[s]), files[s] # Absent,
           ~IsConfigGenerated(files[s])
    PROVE  KeptText(s, RemoveEntryFromFile(files[s], Entry(s)))
  <1> DEFINE text == files[s]
             new == RemoveEntryFromFile(text, Entry(s))
  <1>1. Text(s, text) /\ ~IsConfigGenerated(text)
    BY DEF FilesInv
  <1>2. KeptText(s, text) /\ text # Absent
    OBVIOUS
  <1> HIDE DEF text
  <1>3. Text(s, new) /\ ~IsConfigGenerated(new)
    BY <1>1, RemovedText
  <1>4. OwnLines(new) = OwnLines(text)
    BY <1>1, RemovedOwn DEF Text
  <1>5. new # Absent
    BY <1>3, InstallerAssumption DEF Text
  <1> HIDE DEF new
  <1>6. KeptText(s, new)
    BY <1>1, <1>2, <1>3, <1>4, <1>5 DEF KeptText
  <1> QED
    BY <1>6 DEF new, text

\* What has to be shown of the files after a step.
LEMMA KeptNext ==
    ASSUME UNCHANGED original,
           \A t \in Services \ hurt' :
               KeptText(t, IF Writing(t)' THEN Step'[3] ELSE files'[t])
    PROVE  KeptInv'
  BY DEF KeptInv, KeptText

\* No text is at hand when the head is another step.
LEMMA NotWriting ==
    ASSUME Idle \/ Step[1] # "Write"
    PROVE  \A t : ~Writing(t)
  BY DEF Writing

\* Nor when a routine step is next.
LEMMA RoutineNotWriting ==
    ASSUME Idle' \/ Step' \in Routine
    PROVE  \A t : ~Writing(t)'
  <1>1. Idle' \/ Step'[1] # "Write"
    BY RoutineKinds
  <1> QED
    BY <1>1 DEF Writing

\* A file is emptied only when a text is at hand that keeps its lines.
LEMMA KeptOpened ==
    ASSUME StepsInv, FilesInv, KeptInv, OpenFile
    PROVE  KeptInv'
  <1> DEFINE s == Step[2]
  <1>1. UNCHANGED <<original, hurt>>
    BY DEF OpenFile, Continue
  <1>2. /\ s \in Services /\ ~Idle /\ Rest \in Seq(Routine)
        /\ Step[1] \in {"AddToConfig", "RemoveFromConfig"}
        /\ DOMAIN files = Services
    BY Opened DEF StepsInv, FilesInv
  <1>3. ASSUME NEW t \in Services \ hurt
        PROVE  KeptText(t, files[t])
    <2>1. ~Writing(t)
      BY <1>2, NotWriting
    <2> QED
      BY <2>1 DEF KeptInv
  <1>4. CASE /\ Step[1] = "RemoveFromConfig" /\ IsConfigGenerated(files[s])
             /\ files' = [files EXCEPT ![s] = Absent] /\ todo' = Rest
    <2>1. \A t : ~Writing(t)'
      BY <1>2, <1>4, RestNext, RoutineNotWriting
    <2>2. ASSUME NEW t \in Services \ hurt
          PROVE  KeptText(t, files'[t])
      <3>1. CASE t = s
        <4>1. files'[t] = Absent
          BY <1>2, <1>4, <3>1
        <4>2. KeptText(t, files[t]) /\ IsConfigGenerated(files[t])
          BY <1>3, <1>4, <3>1
        <4> QED
          BY <4>1, <4>2 DEF KeptText
      <3>2. CASE t # s
        <4>1. files'[t] = files[t]
          BY <1>2, <1>4, <3>2
        <4> QED
          BY <1>3, <4>1
      <3> QED
        BY <3>1, <3>2
    <2> QED
      BY <1>1, <2>1, <2>2, KeptNext
  <1>5. CASE /\ Step[1] = "RemoveFromConfig" => ~IsConfigGenerated(files[s])
             /\ files' = [files EXCEPT ![s] = <<>>]
             /\ ~Idle' /\ Step' = <<"Write", s, NewText>>
    <2>1. \A t : Writing(t)' <=> t = s
      BY <1>5 DEF Writing
    <2>2. Step'[3] = NewText
      BY <1>5
    <2>3. ASSUME s \notin hurt PROVE KeptText(s, NewText)
      <3>1. KeptText(s, files[s])
        BY <1>2, <1>3, <2>3
      <3>2. CASE Step[1] = "RemoveFromConfig"
        <4>1. files[s] # Absent
          BY <1>2, <3>2 DEF StepsInv
        <4>2. KeptText(s, RemoveEntryFromFile(files[s], Entry(s)))
          BY <1>2, <1>5, <3>1, <3>2, <4>1, KeptRemoved
        <4> QED
          BY <3>2, <4>2 DEF NewText
      <3>3. CASE Step[1] # "RemoveFromConfig"
        <4>1. NewText = IF files[s] = Absent THEN GeneratedConfig(Entry(s), Includes)
                        ELSE AddEntryToFile(files[s], Entry(s))
          BY <3>3 DEF NewText
        <4> HIDE DEF s
        <4> QED
          BY <1>2, <3>1, <4>1, KeptAdded
      <3> QED
        BY <3>2, <3>3
    <2>4. ASSUME NEW t \in Services \ hurt
          PROVE  KeptText(t, IF Writing(t)' THEN Step'[3] ELSE files'[t])
      <3>1. CASE t = s
        BY <2>1, <2>2, <2>3, <3>1
      <3>2. CASE t # s
        <4>1. files'[t] = files[t]
          BY <1>2, <1>5, <3>2
        <4> QED
          BY <1>3, <2>1, <3>2, <4>1
      <3> QED
        BY <3>1, <3>2
    <2> QED
      BY <1>1, <2>4, KeptNext
  <1> QED
    BY <1>4, <1>5, Opened

\* Nothing is put into a file that has none of its own.
LEMMA KeptRest ==
    ASSUME StepsInv, KeptInv, ~Idle, Step[1] # "Write", UNCHANGED <<original, files>>,
           hurt \subseteq hurt', Idle' \/ Step'[1] # "Write"
    PROVE  KeptInv'
  <1>1. \A t : ~Writing(t) /\ ~Writing(t)'
    BY DEF Writing
  <1> QED
    BY <1>1 DEF KeptInv, KeptText

\* What an interruption changes.
LEMMA Interrupted ==
    ASSUME Interrupt
    PROVE  /\ ~Idle /\ Idle' /\ hurt' = hurt \cup About /\ Step[2] \in hurt' /\ app' \in {app, 0}
           /\ Step[1] # "SetPolkitRestrictions" => UNCHANGED unit
           /\ UNCHANGED <<files, exe, modules, rules, settings, original, moved>>
  BY DEF Interrupt, Fault, InClick, Idle, About, Throws, UnitLeft

\* What a click changes.
LEMMA Clicked ==
    ASSUME Start \/ OnInstallClicked \/ OnReinstallClicked \/ OnSaveSettingsClicked \/ Close,
           SettingsInv
    PROVE  /\ Idle
           /\ Made(todo') \/ Idle'
           /\ UNCHANGED <<files, unit, exe, modules, rules, original, hurt>>
  <1>1. Idle /\ UNCHANGED <<files, unit, exe, modules, rules, original, hurt>>
    BY DEF Start, OnInstallClicked, OnReinstallClicked, OnSaveSettingsClicked, Close, Click,
           SettingsInv
  <1>2. CASE Start
    <2>1. todo' = Reinstall \/ Idle'
      BY <1>2 DEF Start, Click, Idle
    <2> QED
      BY <1>1, <2>1, ButtonLists
  <1>3. CASE OnInstallClicked \/ OnReinstallClicked
    BY <1>1, <1>3, ButtonLists DEF OnInstallClicked, OnReinstallClicked, Click
  <1>4. CASE OnSaveSettingsClicked
    <2>1. todo' \in Seq(Routine)
      BY <1>4, Saved DEF SettingsInv
    <2> QED
      BY <1>1, <2>1 DEF Made
  <1>5. CASE Close
    BY <1>1, <1>5 DEF Close, Idle
  <1> QED
    BY <1>2, <1>3, <1>4, <1>5

\* Every step of the installer.
LEMMA KeptStep ==
    ASSUME StepsInv, FilesInv, SettingsInv, KeptInv, InstallerNext
    PROVE  KeptInv'
  <1>1. CASE Start \/ OnInstallClicked \/ OnReinstallClicked \/ OnSaveSettingsClicked \/ Close
    <2>2. Idle' \/ Step' \in Fresh
      BY <1>1, Clicked, MadeNext
    <2>3. Idle' \/ Step'[1] # "Write"
      BY <2>2, RoutineKinds, RemoveStep DEF Fresh
    <2>4. \A t : ~Writing(t) /\ ~Writing(t)'
      BY <1>1, <2>3, Clicked DEF Writing
    <2> QED
      BY <1>1, <2>4, Clicked DEF KeptInv, KeptText
  <1>2. CASE Copy \/ Firewall \/ Settings \/ RestrictPolkit \/ Ignored
    <2>1. /\ ~Idle /\ Step[1] # "Write" /\ todo' = Rest /\ UNCHANGED <<original, files>>
          /\ hurt \subseteq hurt'
      BY <1>2 DEF Copy, Firewall, Settings, RestrictPolkit, Ignored, Does, InClick, Continue, Fault
    <2>2. Idle' \/ Step'[1] # "Write"
      BY <2>1, RestNext, RoutineKinds
    <2> QED
      BY <2>1, <2>2, KeptRest
  <1>3. CASE Expand \/ SettingMissed
    <2>1. ~Idle /\ Step[1] # "Write" /\ UNCHANGED <<original, files, hurt>>
      BY <1>3, Expanded
    <2>2. Idle' \/ Step'[1] # "Write"
      BY <1>3, Expanded, RoutineNext, RoutineKinds
    <2> QED
      BY <2>1, <2>2, KeptRest
  <1>4. CASE SetConfigEntry \/ EntryMissed
    <2>1. ~Idle /\ Step[1] # "Write" /\ UNCHANGED <<original, files>> /\ hurt \subseteq hurt'
      BY <1>4, Turned
    <2>2. Idle' \/ Step'[1] # "Write"
      <3>1. CASE todo' = Rest
        BY <2>1, <3>1, RestNext, RoutineKinds
      <3>2. CASE todo' # Rest
        <4>1. \/ Step' = Lift
              \/ Step' = <<"AddToConfig", Step[2], TRUE>>
              \/ Step' = <<"RemoveFromConfig", Step[2], TRUE>>
          BY <1>4, <3>2, Turned DEF Choice
        <4>2. CASE Step' = Lift
          BY <4>2 DEF Lift
        <4>3. CASE Step' = <<"AddToConfig", Step[2], TRUE>>
          BY <4>3
        <4>4. CASE Step' = <<"RemoveFromConfig", Step[2], TRUE>>
          BY <4>4
        <4> QED
          BY <4>1, <4>2, <4>3, <4>4
      <3> QED
        BY <3>1, <3>2
    <2> QED
      BY <2>1, <2>2, KeptRest
  <1>5. CASE OpenFile
    BY <1>5, KeptOpened
  <1>6. CASE WriteFile
    <2> DEFINE s == Step[2]
    <2>1. /\ s \in Services /\ ~Idle /\ Step[1] = "Write" /\ todo' = Rest
          /\ files' = [files EXCEPT ![s] = Step[3]] /\ UNCHANGED <<original, hurt>>
          /\ DOMAIN files = Services
      BY <1>6, Written DEF WriteFile, Continue, FilesInv
    <2>2. \A t : ~Writing(t)'
      BY <2>1, RestNext, RoutineNotWriting
    <2>3. \A t : Writing(t) <=> t = s
      BY <2>1 DEF Writing
    <2>4. ASSUME NEW t \in Services \ hurt
          PROVE  KeptText(t, files'[t])
      <3>1. KeptText(t, IF t = s THEN Step[3] ELSE files[t])
        BY <2>3 DEF KeptInv
      <3>2. files'[t] = IF t = s THEN Step[3] ELSE files[t]
        BY <2>1
      <3> QED
        BY <3>1, <3>2
    <2> QED
      BY <2>1, <2>2, <2>4, KeptNext
  <1>7. CASE Interrupt
    <2>1. \A t : ~Writing(t)'
      BY <1>7, Interrupted, RoutineNotWriting
    <2>2. ASSUME NEW t \in Services \ hurt'
          PROVE  KeptText(t, files'[t])
      <3>1. ~Writing(t) /\ t \in Services \ hurt /\ files' = files
        BY <1>7, Interrupted DEF Writing
      <3> QED
        BY <3>1 DEF KeptInv
    <2> QED
      BY <1>7, <2>1, <2>2, Interrupted, KeptNext
  <1>8. CASE Unread
    <2> DEFINE s == Step[2]
    <2>1. /\ s \in Services /\ s \in hurt' /\ hurt \subseteq hurt'
          /\ ~Idle' /\ Step'[2] = s /\ Step[1] \in {"AddToConfig", "RemoveFromConfig"}
          /\ files' = [files EXCEPT ![s] = <<>>] /\ DOMAIN files = Services
      BY <1>8, NotRead DEF FilesInv
    <2>2. UNCHANGED original
      BY <1>8 DEF Unread, Fault
    <2>3. ASSUME NEW t \in Services \ hurt'
          PROVE  KeptText(t, IF Writing(t)' THEN Step'[3] ELSE files'[t])
      <3>1. ~Writing(t) /\ ~Writing(t)' /\ t \in Services \ hurt /\ files'[t] = files[t]
        BY <2>1 DEF Writing
      <3> QED
        BY <3>1 DEF KeptInv
    <2> QED
      BY <2>2, <2>3, KeptNext
  <1> QED
    BY <1>1, <1>2, <1>3, <1>4, <1>5, <1>6, <1>7, <1>8 DEF InstallerNext

\* The files are the original ones at first.
LEMMA KeptInit == InstallerInit => KeptInv
  <1> SUFFICES ASSUME InstallerInit PROVE KeptInv
    OBVIOUS
  <1>1. ASSUME NEW s \in Services
        PROVE  files[s] \in Originals[s] /\ original.files[s] = files[s] /\ ~Writing(s)
    BY DEF InstallerInit, Writing, Idle
  <1>2. ASSUME NEW s \in Services PROVE KeptText(s, files[s])
    BY <1>1, OriginalText DEF KeptText, Text
  <1> QED
    BY <1>1, <1>2 DEF KeptInv

-----------------------------------------------------------------------------
(* Polkit is as restricted as it was.  *)

\* Only the steps on polkit's file and on its unit name polkit.
LEMMA OnPolkit ==
    ASSUME NEW x \in Plain \cup Writes, x[2] = "polkit-1"
    PROVE  x[1] \in FileOps \cup {"Write", "SetPolkitRestrictions"}
  BY StepKinds DEF Objects

\* A text with the module's line is found to have polkit's entry.
LEMMA ModuleFound ==
    ASSUME NEW text \in Seq(Lines), HasModule(text)
    PROVE  HasConfigEntry(text, Entry("polkit-1"))
  <1>1. PICK i \in 1..Len(text) : text[i] = Module
    BY Elements DEF HasModule
  <1> DEFINE e == <<Module>>
  <1>2. Entry("polkit-1") = e /\ Len(e) = 1 /\ e[1] = Module
    BY DEF Entry
  <1> HIDE DEF e
  <1>3. i + 1 - 1 = i /\ Len(text) \in Nat
    OBVIOUS
  <1>4. \A k \in 1..Len(e) : Holds(text[i + k - 1], e[k], k = 1)
    BY <1>1, <1>2, <1>3 DEF Holds
  <1>5. i + Len(e) - 1 <= Len(text)
    BY <1>2, <1>3
  <1>6. HasConfigEntry(text, e)
    BY <1>4, <1>5 DEF HasConfigEntry, HasModule
  <1> QED
    BY <1>2, <1>6

\* What is written when polkit's entry is added has the module's line.
LEMMA ModuleAdded ==
    ASSUME FilesInv
    PROVE  LET new == IF files["polkit-1"] = Absent
                      THEN GeneratedConfig(Entry("polkit-1"), Includes)
                      ELSE AddEntryToFile(files["polkit-1"], Entry("polkit-1"))
           IN  HasModule(new)
  <1> DEFINE s == "polkit-1"
  <1>1. Module \in ToSet(Entry(s)) /\ s \in Services
    BY Entries, ServiceNames
  <1>2. CASE files[s] = Absent
    <2> DEFINE new == GeneratedConfig(Entry(s), Includes)
    <2>1. Text(s, new) /\ Module \in ToSet(new)
      BY <1>1, GeneratedText
    <2>2. new # Absent
      BY <2>1, InstallerAssumption DEF Text
    <2> QED
      BY <1>2, <2>1, <2>2 DEF HasModule
  <1>3. CASE files[s] # Absent
    <2> DEFINE text == files[s]
               new == AddEntryToFile(text, Entry(s))
    <2>1. Text(s, text)
      BY <1>1, <1>3 DEF FilesInv
    <2> HIDE DEF text
    <2>2. Text(s, new) /\ Module \in ToSet(new)
      BY <1>1, <2>1, AddedText
    <2>3. new # Absent
      BY <2>2, InstallerAssumption DEF Text
    <2> HIDE DEF new
    <2>4. HasModule(new)
      BY <2>2, <2>3 DEF HasModule
    <2> QED
      BY <1>3, <2>4 DEF new, text
  <1> QED
    BY <1>2, <1>3

\* A step that has nothing to do with polkit.
LEMMA SandboxSame ==
    ASSUME SandboxInv, ~OnTheWay, hurt \subseteq hurt',
           UNCHANGED <<unit, original>>, files'["polkit-1"] = files["polkit-1"],
           \/ Idle'
           \/ /\ Step' # Lift
              /\ Step'[2] # "polkit-1" \/ Step'[1] \notin {"RemoveFromConfig", "Write"}
    PROVE  SandboxInv'
  <1>1. ~Removing' /\ ~(~Idle' /\ Step' = Lift)
    BY DEF Removing
  <1>2. Restored => Restored'
    BY DEF Restored
  <1>3. HasModule(files["polkit-1"]) => HasModule(files'["polkit-1"])
    OBVIOUS
  <1> QED
    BY <1>1, <1>2, <1>3 DEF SandboxInv

\* The heads that follow neither lift restrictions nor remove an entry.
LEMMA FreshHeads ==
    ASSUME NEW x \in Fresh
    PROVE  x # Lift /\ x[1] \notin {"RemoveFromConfig", "Write"}
  <1>1. CASE x \in Routine
    BY <1>1, RoutineKinds
  <1>2. CASE x = <<"RemoveExe", "exe", TRUE>>
    BY <1>2 DEF Lift
  <1> QED
    BY <1>1, <1>2 DEF Fresh

\* Steps that are not on polkit.
LEMMA NotOnTheWay ==
    ASSUME StepsInv, Idle \/ Step[2] # "polkit-1"
                     \/ Step[1] \in OtherOps \cup {"SetConfigEntry"}
    PROVE  ~OnTheWay
  <1>1. CASE ~Idle /\ Step[1] \in OtherOps
    <2>1. Step[2] \in Objects
      BY <1>1, StepKinds DEF StepsInv
    <2> QED
      BY <2>1 DEF OnTheWay, Objects
  <1> QED
    BY <1>1 DEF OnTheWay

\* One of those is taken, and the rest is left.
LEMMA SandboxRest ==
    ASSUME StepsInv, SandboxInv, ~OnTheWay, hurt \subseteq hurt', ~Idle, todo' = Rest,
           UNCHANGED <<unit, original>>, files'["polkit-1"] = files["polkit-1"]
    PROVE  SandboxInv'
  <1>1. Idle' \/ Step' \in Fresh
    BY RestNext DEF Fresh
  <1> QED
    BY <1>1, FreshHeads, SandboxSame

\* The restrictions are lifted only when there is no entry, before it is added.
LEMMA SandboxChosen ==
    ASSUME StepsInv, FilesInv, SandboxInv, SetConfigEntry \/ EntryMissed
    PROVE  SandboxInv'
  <1> DEFINE s == Step[2]
  <1>1. /\ ~Idle /\ Step[1] = "SetConfigEntry" /\ s \in Services
        /\ UNCHANGED <<files, unit, original>> /\ hurt \subseteq hurt'
    BY Turned
  <1>0. PICK unread \in SUBSET {s} : Choice(s, Found(s, unread)) /\ (unread = {} \/ s \in hurt')
    BY Turned
  <1> DEFINE has == Found(s, unread)
  <1>2. ~OnTheWay
    BY <1>1, NotOnTheWay
  <1>3. CASE todo' = Rest
    BY <1>1, <1>2, <1>3, SandboxRest
  <1>4. CASE /\ ~Idle'
             /\ Step' = <<"AddToConfig", s, TRUE>>
                \/ (s # "polkit-1" /\ Step' = <<"RemoveFromConfig", s, TRUE>>)
    <2>1. CASE Step' = <<"AddToConfig", s, TRUE>>
      BY <1>1, <1>2, <2>1, SandboxSame DEF Lift
    <2>2. CASE s # "polkit-1" /\ Step' = <<"RemoveFromConfig", s, TRUE>>
      BY <1>1, <1>2, <2>2, SandboxSame DEF Lift
    <2> QED
      BY <1>4, <2>1, <2>2
  <1>5. CASE /\ ~Idle' /\ ~has /\ s = "polkit-1" /\ Step' = Lift
             /\ Rest' # <<>> /\ Head(Rest') = <<"AddToConfig", "polkit-1", TRUE>>
    <2> SUFFICES ASSUME original.unit # Absent, "polkit-1" \notin hurt'
                 PROVE  SandboxInv'
      BY <1>1 DEF SandboxInv
    <2>0. ~HasConfigEntry(files["polkit-1"], Entry("polkit-1"))
      BY <1>0, <1>5 DEF Found
    <2>1. ~HasModule(files["polkit-1"])
      <3>1. SUFFICES ASSUME HasModule(files["polkit-1"]) PROVE FALSE
        OBVIOUS
      <3>2. files["polkit-1"] \in Seq(Lines)
        BY <1>1, <1>5, <3>1 DEF FilesInv, HasModule
      <3> QED
        BY <2>0, <3>1, <3>2, ModuleFound
    <2>2. original.unit # Absent /\ "polkit-1" \notin hurt => Restored
      BY <1>2, <2>1 DEF SandboxInv
    <2>3. Restored => Restored'
      BY <1>1 DEF Restored
    <2>4. ~Removing'
      BY <1>5 DEF Removing, Lift
    <2> QED
      BY <1>1, <1>5, <2>2, <2>3, <2>4 DEF SandboxInv
  <1>6. CASE /\ ~Idle' /\ Step' = <<"RemoveFromConfig", s, TRUE>> /\ s = "polkit-1"
             /\ Rest' # <<>> /\ Head(Rest') = Confine
    <2>1. OnTheWay'
      BY <1>6 DEF OnTheWay
    <2>2. Step' # Lift
      BY <1>6 DEF Lift
    <2> QED
      BY <1>1, <1>6, <2>1, <2>2 DEF SandboxInv
  <1> QED
    BY <1>0, <1>3, <1>4, <1>5, <1>6 DEF Choice

\* They are lifted once, and put back by what puts them back once.
LEMMA SandboxRestricted ==
    ASSUME StepsInv, SandboxInv, RestrictPolkit
    PROVE  SandboxInv'
  <1>1. /\ ~Idle /\ Step[1] = "SetPolkitRestrictions" /\ todo' = Rest
        /\ unit' = SetPolkitRestrictions(unit, Step[3])
        /\ UNCHANGED <<files, original, hurt>>
    BY DEF RestrictPolkit, Does, InClick, Continue
  <1>2. Step \in {Lift, Confine}
    BY <1>1, StepKinds DEF StepsInv
  <1>3. Idle' \/ Step' \in Fresh
    BY <1>1, RestNext DEF Fresh
  <1>4. ~Removing' /\ ~(~Idle' /\ Step' = Lift)
    BY <1>3, FreshHeads DEF Removing
  <1> SUFFICES ASSUME original.unit # Absent, "polkit-1" \notin hurt
               PROVE  SandboxInv'
    BY <1>1 DEF SandboxInv
  <1>5. original.unit \in PolkitUnits /\ unit \in PolkitUnits /\ unit # Absent
    BY InstallerAssumption DEF SandboxInv
  <1> DEFINE b == Step[3]
             h == [d \in Directives |->
                      IF ~b THEN unit.hashes[d] + 1
                      ELSE IF unit.hashes[d] = 0 THEN 0 ELSE unit.hashes[d] - 1]
  <1>6. /\ unit' = [switch |-> [s \in Switches |-> b], hashes |-> h]
    BY <1>1, <1>5 DEF SetPolkitRestrictions
  <1>7. unit.hashes \in [Directives -> Nat]
    BY <1>5 DEF PolkitUnits
  <1>8. h \in [Directives -> Nat]
    BY <1>7
  <1>9. b \in BOOLEAN
    <2>1. Lift[3] = FALSE /\ Confine[3] = TRUE
      BY DEF Lift, Confine
    <2> QED
      BY <1>2, <2>1
  <1> HIDE DEF b
  <1>10. /\ \A s \in Switches : unit'.switch[s] = b
         /\ \A d \in Directives : unit'.hashes[d] = h[d]
    BY <1>6
  <1>11. unit' \in PolkitUnits
    <2> HIDE DEF h
    <2> QED
      BY <1>6, <1>8, <1>9 DEF PolkitUnits
  <1>12. CASE Step = Lift
    <2>1. ~b
      BY <1>12 DEF Lift, b
    <2>2. Restored /\ Rest # <<>> /\ Head(Rest) = <<"AddToConfig", "polkit-1", TRUE>>
      BY <1>1, <1>12 DEF SandboxInv
    <2>3. OnTheWay'
      BY <1>1, <2>2 DEF OnTheWay, Idle, Step
    <2>4. \A d \in Directives : original.unit.hashes[d] = 0 => unit'.hashes[d] <= 1
      BY <1>10, <2>1, <2>2 DEF Restored
    <2> QED
      BY <1>1, <1>4, <1>5, <1>11, <2>3, <2>4 DEF SandboxInv
  <1>13. CASE Step = Confine
    <2>1. b
      BY <1>13 DEF Confine, b
    <2>2. \A d \in Directives : original.unit.hashes[d] = 0 => unit.hashes[d] <= 1
      BY DEF SandboxInv
    <2>3. \A d \in Directives : original.unit.hashes[d] = 0 => unit'.hashes[d] = 0
      BY <1>7, <1>10, <2>1, <2>2
    <2>4. Restored'
      BY <1>1, <1>10, <2>1, <2>3 DEF Restored
    <2>5. \A d \in Directives : original.unit.hashes[d] = 0 => unit'.hashes[d] <= 1
      BY <2>3
    <2> QED
      BY <1>1, <1>4, <1>5, <1>11, <2>4, <2>5 DEF SandboxInv
  <1> QED
    BY <1>2, <1>12, <1>13

\* The restrictions that follow the removal of an entry are next.
LEMMA ConfineNext ==
    ASSUME SandboxInv, Removing, original.unit # Absent, "polkit-1" \notin hurt,
           todo' = Rest
    PROVE  OnTheWay'
  <1>1. Rest # <<>> /\ Head(Rest) = Confine
    BY DEF SandboxInv
  <1> QED
    BY <1>1 DEF OnTheWay, Idle, Step, Confine

\* The entry is on its way into the file, or the restrictions follow its removal.
LEMMA SandboxOpened ==
    ASSUME StepsInv, FilesInv, SandboxInv, OpenFile
    PROVE  SandboxInv'
  <1> DEFINE s == Step[2]
  <1>1. /\ s \in Services /\ ~Idle /\ Step[1] \in {"AddToConfig", "RemoveFromConfig"}
        /\ UNCHANGED <<unit, original, hurt>> /\ DOMAIN files = Services
    BY Opened DEF OpenFile, Continue, FilesInv
  <1>2. CASE s # "polkit-1"
    <2>4. \E text : files' = [files EXCEPT ![s] = text]
      BY Opened
    <2>1. ~OnTheWay /\ files'["polkit-1"] = files["polkit-1"]
      BY <1>1, <1>2, <2>4 DEF OnTheWay
    <2>2. CASE todo' = Rest
      BY <1>1, <2>1, <2>2, SandboxRest
    <2>3. CASE ~Idle' /\ Step' = <<"Write", s, NewText>>
      BY <1>1, <1>2, <2>1, <2>3, SandboxSame DEF Lift
    <2> QED
      BY <2>2, <2>3, Opened
  <1>3. CASE s = "polkit-1"
    <2> SUFFICES ASSUME original.unit # Absent, "polkit-1" \notin hurt
                 PROVE  SandboxInv'
      BY <1>1 DEF SandboxInv
    <2>1. /\ original.unit \in PolkitUnits /\ unit \in PolkitUnits
          /\ \A d \in Directives : original.unit.hashes[d] = 0 => unit.hashes[d] <= 1
      BY DEF SandboxInv
    <2>2. CASE Step[1] = "RemoveFromConfig" /\ todo' = Rest
      <3>1. Removing
        BY <1>1, <1>3, <2>2 DEF Removing
      <3>2. OnTheWay'
        BY <2>2, <3>1, ConfineNext
      <3>3. Idle' \/ Step' \in Fresh
        BY <1>1, <2>2, RestNext DEF Fresh
      <3>4. ~Removing' /\ ~(~Idle' /\ Step' = Lift)
        BY <3>3, FreshHeads DEF Removing
      <3> QED
        BY <1>1, <2>1, <3>2, <3>4 DEF SandboxInv
    <2>3. CASE ~Idle' /\ Step' = <<"Write", s, NewText>> /\ Rest' = Rest
      <3>1. OnTheWay' /\ Step' # Lift
        BY <1>3, <2>3 DEF OnTheWay, Lift
      <3>2. Removing' => Rest' # <<>> /\ Head(Rest') = Confine
        <4>1. CASE Step[1] = "RemoveFromConfig"
          <5>1. Removing
            BY <1>1, <1>3, <4>1 DEF Removing
          <5> QED
            BY <2>3, <5>1 DEF SandboxInv
        <4>2. CASE Step[1] # "RemoveFromConfig"
          <5>1. HasModule(NewText)
            BY <1>3, <4>2, ModuleAdded DEF NewText
          <5>2. Step'[3] = NewText
            BY <2>3
          <5> QED
            BY <2>3, <5>1, <5>2 DEF Removing
        <4> QED
          BY <4>1, <4>2
      <3> QED
        BY <1>1, <2>1, <3>1, <3>2 DEF SandboxInv
    <2> QED
      BY <2>2, <2>3, Opened
  <1> QED
    BY <1>2, <1>3

\* The file has the entry, or the restrictions are next.
LEMMA SandboxWritten ==
    ASSUME StepsInv, FilesInv, SandboxInv, WriteFile
    PROVE  SandboxInv'
  <1> DEFINE s == Step[2]
  <1>1. /\ s \in Services /\ ~Idle /\ Step[1] = "Write" /\ todo' = Rest
        /\ files' = [files EXCEPT ![s] = Step[3]] /\ DOMAIN files = Services
        /\ UNCHANGED <<unit, original, hurt>>
    BY Written DEF WriteFile, Continue, FilesInv
  <1>2. CASE s # "polkit-1"
    <2>1. ~OnTheWay /\ files'["polkit-1"] = files["polkit-1"]
      BY <1>1, <1>2 DEF OnTheWay
    <2> QED
      BY <1>1, <2>1, SandboxRest
  <1>3. CASE s = "polkit-1"
    <2> SUFFICES ASSUME original.unit # Absent, "polkit-1" \notin hurt
                 PROVE  SandboxInv'
      BY <1>1 DEF SandboxInv
    <2>1. /\ original.unit \in PolkitUnits /\ unit \in PolkitUnits
          /\ \A d \in Directives : original.unit.hashes[d] = 0 => unit.hashes[d] <= 1
      BY DEF SandboxInv
    <2>2. Idle' \/ Step' \in Fresh
      BY <1>1, RestNext DEF Fresh
    <2>3. ~Removing' /\ ~(~Idle' /\ Step' = Lift)
      BY <2>2, FreshHeads DEF Removing
    <2>4. OnTheWay' \/ HasModule(files'["polkit-1"])
      <3>1. files'["polkit-1"] = Step[3]
        BY <1>1, <1>3
      <3>2. CASE ~HasModule(Step[3])
        <4>1. Removing
          BY <1>1, <1>3, <3>2 DEF Removing
        <4> QED
          BY <1>1, <4>1, ConfineNext
      <3> QED
        BY <3>1, <3>2
    <2> QED
      BY <1>1, <2>1, <2>3, <2>4 DEF SandboxInv
  <1> QED
    BY <1>2, <1>3

\* Every step of the installer.
LEMMA SandboxStep ==
    ASSUME StepsInv, FilesInv, SettingsInv, SandboxInv, InstallerNext
    PROVE  SandboxInv'
  <1>1. CASE Start \/ OnInstallClicked \/ OnReinstallClicked \/ OnSaveSettingsClicked \/ Close
    <2>1. /\ Idle /\ UNCHANGED <<files, unit, original, hurt>>
          /\ Idle' \/ Step' \in Fresh
      BY <1>1, Clicked, MadeNext
    <2>2. ~OnTheWay
      BY <2>1, NotOnTheWay
    <2> QED
      BY <2>1, <2>2, FreshHeads, SandboxSame
  <1>2. CASE Copy \/ Firewall \/ Settings
    <2>1. /\ ~Idle /\ Step[1] \in OtherOps /\ todo' = Rest
          /\ UNCHANGED <<original, files, unit, hurt>>
      BY <1>2 DEF Copy, Firewall, Settings, Does, InClick, Continue, OtherOps
    <2>2. ~OnTheWay
      BY <2>1, NotOnTheWay
    <2> QED
      BY <2>1, <2>2, SandboxRest
  <1>3. CASE Expand \/ SettingMissed
    <2>1. ~Idle /\ Step[1] \in OtherOps /\ UNCHANGED <<original, files, unit, hurt>>
      BY <1>3, Expanded DEF OtherOps
    <2>2. ~OnTheWay
      BY <2>1, NotOnTheWay
    <2>3. Idle' \/ Step' \in Fresh
      BY <1>3, Expanded, RoutineNext DEF Fresh
    <2> QED
      BY <2>1, <2>2, <2>3, FreshHeads, SandboxSame
  <1>4. CASE Interrupt
    <2>1. CASE Step[2] # "polkit-1"
      <3>1. ~OnTheWay
        BY <2>1, NotOnTheWay
      <3>2. ~Idle /\ Step[1] # "SetPolkitRestrictions"
        <4>1. Step = Lift \/ Step = Confine \/ Step[1] # "SetPolkitRestrictions"
          BY <1>4, Interrupted, StepKinds DEF StepsInv
        <4>2. Lift[2] = "polkit-1" /\ Confine[2] = "polkit-1"
          BY DEF Lift, Confine
        <4> QED
          BY <1>4, <2>1, <4>1, <4>2, Interrupted
      <3> QED
        BY <1>4, <3>1, <3>2, Interrupted, SandboxSame
    <2>2. CASE Step[2] = "polkit-1"
      BY <1>4, <2>2, Interrupted DEF SandboxInv
    <2> QED
      BY <2>1, <2>2
  <1>5. CASE Ignored
    <2>1. /\ ~Idle /\ todo' = Rest /\ Step[2] \in hurt' /\ hurt \subseteq hurt'
          /\ UNCHANGED <<original, files>>
          /\ Step[1] \in {"SetPolkitRestrictions", "Allow", "Disallow"}
          /\ Step[1] # "SetPolkitRestrictions" => UNCHANGED unit
      BY <1>5 DEF Ignored, InClick, Fault, About, UnitLeft
    <2>2. CASE Step[1] = "SetPolkitRestrictions"
      <3>1. Step[2] = "polkit-1"
        <4>1. Step \in {Lift, Confine}
          BY <2>1, <2>2, StepKinds DEF StepsInv
        <4>2. Lift[2] = "polkit-1" /\ Confine[2] = "polkit-1"
          BY DEF Lift, Confine
        <4> QED
          BY <4>1, <4>2
      <3> QED
        BY <2>1, <3>1 DEF SandboxInv
    <2>3. CASE Step[1] # "SetPolkitRestrictions"
      <3>1. ~OnTheWay
        BY <2>1, <2>3, NotOnTheWay DEF OtherOps
      <3> QED
        BY <2>1, <2>3, <3>1, SandboxRest
    <2> QED
      BY <2>2, <2>3
  <1>6. CASE Unread
    <2> DEFINE s == Step[2]
    <2>1. /\ s \in Services /\ s \in hurt' /\ hurt \subseteq hurt' /\ ~Idle
          /\ ~Idle' /\ Step'[2] = s /\ Step'[1] = "Write"
          /\ files' = [files EXCEPT ![s] = <<>>] /\ DOMAIN files = Services
          /\ UNCHANGED <<unit, original>>
      BY <1>6, NotRead DEF FilesInv, Unread, Fault
    <2>2. CASE s = "polkit-1"
      BY <2>1, <2>2 DEF SandboxInv
    <2>3. CASE s # "polkit-1"
      <3>1. ~OnTheWay
        BY <2>3, NotOnTheWay
      <3>2. files'["polkit-1"] = files["polkit-1"]
        BY <2>1, <2>3
      <3>3. Lift[1] # "Write"
        BY DEF Lift
      <3> QED
        BY <2>1, <2>3, <3>1, <3>2, <3>3, SandboxSame
    <2> QED
      BY <2>2, <2>3
  <1> QED
    BY <1>1, <1>2, <1>3, <1>4, <1>5, <1>6, SandboxChosen, SandboxRestricted, SandboxOpened,
       SandboxWritten DEF InstallerNext

\* The unit is the original one at first.
LEMMA SandboxInit == InstallerInit => SandboxInv
  <1> SUFFICES ASSUME InstallerInit, original.unit # Absent PROVE SandboxInv
    BY DEF SandboxInv
  <1>1. original.unit = unit /\ Idle
    BY DEF InstallerInit, Idle
  <1>2. unit \in PolkitUnits
    BY <1>1, OriginalsAssumption DEF InstallerInit
  <1> QED
    BY <1>1, <1>2 DEF SandboxInv, Restored, Removing

\* Without the entry, polkit is as restricted as it was.
LEMMA SandboxIs == FilesInv /\ SandboxInv => SandboxRestored
  <1> SUFFICES ASSUME FilesInv, SandboxInv, Idle, original.unit # Absent, "polkit-1" \notin hurt,
                      ~HasConfigEntry(files["polkit-1"], Entry("polkit-1"))
               PROVE  Restored
    BY DEF SandboxRestored, Restored
  <1>1. ~OnTheWay
    BY DEF OnTheWay
  <1>2. ~HasModule(files["polkit-1"])
    <2> SUFFICES ASSUME HasModule(files["polkit-1"]) PROVE FALSE
      OBVIOUS
    <2>1. files["polkit-1"] \in Seq(Lines)
      BY ServiceNames DEF FilesInv, HasModule
    <2> QED
      BY <2>1, ModuleFound
  <1> QED
    BY <1>1, <1>2 DEF SandboxInv

-----------------------------------------------------------------------------
(* No port stays open, and the program that runs has installed its own version.  *)

\* What is to be done is the step and the rest, which removes no program.
LEMMA PendingHead ==
    ASSUME StepsInv, ~Idle
    PROVE  /\ Ops(todo) = {Step[1]} \cup Ops(Rest)
           /\ "RemoveExe" \notin Ops(Rest)
  <1> DEFINE A == Plain \cup Writes
  <1>1. Step \in A /\ Rest \in Seq(Routine) /\ todo = <<Step>> \o Rest
    BY DEF StepsInv
  <1>2. Rest \in Seq(A)
    <2>1. Routine \subseteq A
      BY DEF Routine
    <2> HIDE DEF A
    <2> QED
      BY <1>1, <2>1
  <1> HIDE DEF A
  <1>3. Ops(<<Step>> \o Rest) = {Step[1]} \cup Ops(Rest)
    BY <1>1, <1>2, HeadTail
  <1>4. ToSet(Rest) \subseteq Routine
    BY <1>1, Elements
  <1>5. \A st \in ToSet(Rest) : st[1] # "RemoveExe"
    BY <1>4, RoutineKinds
  <1> QED
    BY <1>1, <1>3, <1>5 DEF Ops

\* Nothing is to be done when there is no step.
LEMMA NothingPending ==
    /\ Idle => Ops(todo) = {}
    /\ Idle' => Ops(todo)' = {}
  <1>1. ToSet(<<>>) = {}
    BY DEF ToSet
  <1>2. Ops(<<>>) = {}
    BY <1>1 DEF Ops
  <1> QED
    BY <1>2 DEF Idle

\* A step that is none of the watched changes nothing about them.
LEMMA PendingSame ==
    ASSUME StepsInv, ~Idle, Step[1] \notin Watched, Watches(todo', Rest)
    PROVE  \A op \in Watched : Pending(op)' <=> Pending(op)
  <1>1. Ops(todo) = {Step[1]} \cup Ops(Rest)
    BY PendingHead
  <1>2. Ops(Rest) \subseteq Ops(todo)' /\ Ops(todo)' \cap Watched \subseteq Ops(Rest)
    BY WatchesOps DEF StepsInv
  <1> QED
    BY <1>1, <1>2 DEF Pending

\* Taking a step changes nothing about the others.
LEMMA WatchesRest ==
    ASSUME StepsInv, ~Idle
    PROVE  Watches(Rest, Rest)
  BY WatchesSelf DEF StepsInv

\* The steps that are about something else.
LEMMA Elsewhere ==
    ASSUME StepsInv, FilesInv, SettingsInv,
           \/ Expand \/ Settings \/ SetConfigEntry \/ RestrictPolkit \/ OpenFile \/ WriteFile
           \/ Unread \/ EntryMissed \/ SettingMissed
    PROVE  /\ \A op \in Watched : Pending(op)' <=> Pending(op)
           /\ UNCHANGED <<exe, modules, rules, app>> /\ InClick
           /\ PortOrder(todo) => PortOrder(todo')
  <1>1. /\ UNCHANGED <<exe, modules, rules, app>> /\ InClick /\ ~Idle
        /\ Step[1] \in {"Apply", "Clear", "SetPassword", "SetInstalledVersion", "SetConfigEntry",
                        "SetPolkitRestrictions", "AddToConfig", "RemoveFromConfig", "Write"}
    BY DEF Expand, Settings, SetConfigEntry, RestrictPolkit, OpenFile, WriteFile, Unread,
           EntryMissed, SettingMissed, Does, InClick, Continue
  <1>2. Watches(todo', Rest)
    <2>1. CASE Settings \/ RestrictPolkit \/ WriteFile
      <3>1. todo' = Rest
        BY <2>1 DEF Settings, RestrictPolkit, WriteFile, Continue
      <3> QED
        BY <1>1, <3>1, WatchesRest
    <2> QED
      BY <2>1, Expanded, Turned, Opened, NotRead
  <1>3. Step[1] \notin Watched
    BY <1>1 DEF Watched
  <1>4. PortOrder(todo) => PortOrder(todo')
    <2>1. PortOrder(todo) => PortOrder(Rest)
      BY <1>1, OrderRest
    <2>2. PortOrder(Rest) => PortOrder(todo')
      BY <1>1, <1>2, WatchesOps DEF StepsInv
    <2> QED
      BY <2>1, <2>2
  <1> QED
    BY <1>1, <1>2, <1>3, <1>4, PendingSame

\* What a click leaves to be done writes the program, removes it, or is about something
\* else.
LEMMA ClickKinds ==
    ASSUME SettingsInv,
           Start \/ OnInstallClicked \/ OnReinstallClicked \/ OnSaveSettingsClicked \/ Close
    PROVE  /\ Pending("WriteExe")' \/ Removes(todo') \/ Ops(todo)' \cap Watched = {}
           /\ PortOrder(todo')
  <1>1. CASE Start \/ Close
    <2>1. todo' = Reinstall \/ Idle'
      BY <1>1 DEF Start, Close, Click, Idle, SettingsInv
    <2>2. PortOrder(<<>>)
      BY EmptyOrder
    <2> QED
      BY <2>1, <2>2, ButtonLists, NothingPending DEF Pending, Idle
  <1>2. CASE OnReinstallClicked
    BY <1>2, ButtonLists DEF OnReinstallClicked, Click, Pending
  <1>3. CASE OnInstallClicked
    BY <1>3, ButtonLists DEF OnInstallClicked, Click, Pending
  <1>4. CASE OnSaveSettingsClicked
    <2>1. todo' \in Seq(Routine) /\ Ops(todo') \subseteq Applies
      BY <1>4, Saved
    <2>2. PortOrder(todo')
      BY <2>1, RoutineSeq, OrderAlone DEF Applies
    <2> QED
      BY <2>1, <2>2 DEF Applies, Watched
  <1> QED
    BY <1>1, <1>2, <1>3, <1>4

\* A step that is about something else.
LEMMA PortsSame ==
    ASSUME PortsInv, PortOrder(todo'), hurt \subseteq hurt', ~moved' => ~moved,
           UNCHANGED <<exe, rules>>, ~moved' => settings'.port = settings.port,
           \A op \in Watched : Pending(op)' <=> Pending(op)
    PROVE  PortsInv'
  <1>1. \A op \in {"WriteExe", "RemoveExe", "Allow", "Disallow"} : Pending(op)' <=> Pending(op)
    BY DEF Watched
  <1> QED
    BY <1>1 DEF PortsInv

\* The program is removed only with its port, and the port opened only with it.
LEMMA PortsClicked ==
    ASSUME SettingsInv, PortsInv,
           Start \/ OnInstallClicked \/ OnReinstallClicked \/ OnSaveSettingsClicked \/ Close
    PROVE  PortsInv'
  <1>1. /\ Idle /\ UNCHANGED <<exe, rules, hurt>>
    BY Clicked
  <1>2. ~moved' => ~moved /\ UNCHANGED settings
    BY DEF Start, OnInstallClicked, OnReinstallClicked, OnSaveSettingsClicked, Close
  <1>3. \A op : ~Pending(op)
    BY <1>1, NothingPending DEF Pending
  <1>0. PortOrder(todo')
    BY ClickKinds
  <1>4. CASE Pending("WriteExe")'
    BY <1>0, <1>1, <1>2, <1>3, <1>4 DEF PortsInv
  <1>5. CASE Removes(todo')
    <2>1. /\ Pending("RemoveExe")' /\ Pending("Disallow")'
          /\ ~Pending("WriteExe")' /\ ~Pending("Allow")'
      BY <1>5 DEF Removes, Pending
    <2> QED
      BY <1>0, <1>1, <1>2, <1>3, <2>1 DEF PortsInv
  <1>6. CASE Ops(todo)' \cap Watched = {}
    <2>1. \A op \in Watched : Pending(op)' <=> Pending(op)
      BY <1>3, <1>6 DEF Pending
    <2> QED
      BY <1>0, <1>1, <1>2, <2>1, PortsSame
  <1> QED
    BY <1>4, <1>5, <1>6, ClickKinds

\* What was about the ports when the list was interrupted.
LEMMA AboutPorts ==
    ASSUME ~Idle, "ports" \notin About
    PROVE  ~Pending("Disallow") /\ Step[2] # "ports"
  <1>1. \A i \in DOMAIN todo : todo[i][1] # "Disallow"
    BY DEF About
  <1>2. \A st \in ToSet(todo) : st[1] # "Disallow"
    BY <1>1 DEF ToSet
  <1> QED
    BY <1>2 DEF Pending, Ops, About

\* A step on the program or on the ports: the program comes first, and the port goes
\* with it.
LEMMA PortsTaken ==
    ASSUME StepsInv, SettingsInv, PortsInv, Copy \/ Firewall
    PROVE  PortsInv'
  <1>1. /\ ~Idle /\ app # 0 /\ todo' = Rest /\ UNCHANGED <<settings, hurt, moved>>
    BY DEF Copy, Firewall, Continue, Does, InClick
  <1>2. /\ \A op : Pending(op) <=> op = Step[1] \/ Pending(op)'
        /\ ~Pending("RemoveExe")'
    BY <1>1, PendingHead DEF Pending
  <1>3. PortOrder(todo) /\ PortOrder(todo')
    BY <1>1, OrderRest DEF PortsInv
  <1>4. Pending("Allow") => Pending("WriteExe") \/ (exe # 0 /\ ~Pending("RemoveExe"))
    BY DEF PortsInv
  <1>5. "ports" \notin hurt /\ ~moved =>
           /\ settings.port = 1 /\ rules \subseteq {1}
           /\ exe # 0 \/ rules = {} \/ Pending("Disallow")
    BY DEF PortsInv
  <1>6. CASE Does("WriteExe") /\ exe' = app /\ UNCHANGED rules
    BY <1>1, <1>2, <1>3, <1>5, <1>6 DEF PortsInv
  <1>7. CASE Does("RemoveExe") /\ exe' = 0 /\ UNCHANGED rules
    <2>1. Step[1] = "RemoveExe" /\ Pending("RemoveExe")
      BY <1>2, <1>7 DEF Does
    <2>2. Pending("Disallow")'
      BY <1>2, <1>3, <2>1 DEF PortOrder, Pending
    <2> QED
      BY <1>1, <1>2, <1>3, <1>4, <1>5, <1>7, <2>1, <2>2 DEF PortsInv
  <1>8. CASE Does("Allow") /\ rules' = rules \cup {settings.port} /\ UNCHANGED exe
    <2>1. Step[1] = "Allow" /\ Pending("Allow")
      BY <1>2, <1>8 DEF Does
    <2>2. ~Pending("WriteExe")
      BY <1>1, <1>3, <2>1, OrderRest DEF Pending
    <2>3. exe # 0
      BY <1>4, <2>1, <2>2
    <2> QED
      BY <1>1, <1>2, <1>3, <1>5, <1>8, <2>1, <2>3 DEF PortsInv
  <1>9. CASE Does("Disallow") /\ rules' = rules \ {settings.port} /\ UNCHANGED exe
    <2>1. Step[1] = "Disallow"
      BY <1>9 DEF Does
    <2> QED
      BY <1>1, <1>2, <1>3, <1>4, <1>5, <1>9, <2>1 DEF PortsInv
  <1>10. CASE /\ Step[1] \in {"WriteModule", "RemoveModule", "Setuid", "Policy"}
              /\ UNCHANGED <<exe, rules>>
    BY <1>1, <1>2, <1>3, <1>4, <1>5, <1>10 DEF PortsInv
  <1> QED
    BY <1>6, <1>7, <1>8, <1>9, <1>10 DEF Copy, Firewall, Does

\* Every step of the installer.
LEMMA PortsStep ==
    ASSUME StepsInv, FilesInv, SettingsInv, PortsInv, InstallerNext
    PROVE  PortsInv'
  <1>1. CASE Start \/ OnInstallClicked \/ OnReinstallClicked \/ OnSaveSettingsClicked \/ Close
    BY <1>1, PortsClicked
  <1>2. CASE Copy \/ Firewall
    BY <1>2, PortsTaken
  <1>3. CASE Interrupt \/ Ignored
    <2>1. /\ ~Idle /\ hurt' = hurt \cup About /\ UNCHANGED <<exe, rules, settings, moved>>
          /\ Idle' \/ (todo' = Rest /\ Step[1] \in {"SetPolkitRestrictions", "Allow", "Disallow"})
      BY <1>3 DEF Interrupt, Ignored, InClick, Fault, Idle
    <2>2. PortOrder(todo')
      <3>1. PortOrder(Rest) /\ PortOrder(<<>>)
        BY <2>1, OrderRest, EmptyOrder DEF PortsInv
      <3> QED
        BY <2>1, <3>1 DEF Idle
    <2>3. \A op \in Watched : Pending(op)' => Pending(op)
      <3>1. CASE Idle'
        BY <3>1, NothingPending DEF Pending
      <3>2. CASE todo' = Rest
        BY <2>1, <3>2, PendingHead DEF Pending
      <3> QED
        BY <2>1, <3>1, <3>2
    <2>4. Pending("WriteExe") => Pending("WriteExe")' \/ Idle'
      BY <2>1, PendingHead DEF Pending
    <2>5. Pending("Allow")' => Pending("WriteExe")' \/ (exe' # 0 /\ ~Pending("RemoveExe")')
      <3>1. Idle' => ~Pending("Allow")'
        BY NothingPending DEF Pending
      <3> QED
        BY <2>1, <2>3, <2>4, <3>1 DEF PortsInv, Watched
    <2>6. "ports" \notin hurt' => "ports" \notin hurt /\ ~Pending("Disallow")
      BY <2>1, AboutPorts
    <2> QED
      BY <2>1, <2>2, <2>5, <2>6 DEF PortsInv
  <1>4. CASE \/ Expand \/ Settings \/ SetConfigEntry \/ RestrictPolkit \/ OpenFile \/ WriteFile
             \/ Unread \/ EntryMissed \/ SettingMissed
    <2>1. hurt \subseteq hurt' /\ UNCHANGED moved
      BY <1>4 DEF Expand, Settings, SetConfigEntry, RestrictPolkit, OpenFile, WriteFile, Unread,
                  EntryMissed, SettingMissed, Continue, Fault
    <2>2. settings'.port = settings.port
      <3>1. CASE Settings
        <4>1. \/ settings' = [settings EXCEPT !.setPassword = Step[3]]
              \/ \E v : settings' = [settings EXCEPT !.version = v]
          BY <3>1 DEF Settings
        <4> QED
          BY <4>1 DEF SettingsInv
      <3>2. CASE UNCHANGED settings
        BY <3>2
      <3> QED
        BY <1>4, <3>1, <3>2
        DEF Expand, SetConfigEntry, RestrictPolkit, OpenFile, WriteFile, Unread, EntryMissed,
            SettingMissed, Fault
    <2>3. /\ \A op \in Watched : Pending(op)' <=> Pending(op)
          /\ UNCHANGED <<exe, rules>>
          /\ PortOrder(todo')
      BY <1>4, Elsewhere DEF PortsInv
    <2> QED
      BY <2>1, <2>2, <2>3, PortsSame
  <1> QED
    BY <1>1, <1>2, <1>3, <1>4 DEF InstallerNext

\* The version that is found to be the installed one at a start is that of the
\* application, and so is the program's.
LEMMA NotOlder ==
    ASSUME SettingsInv, settings.version # 0, settings.version <= exe,
           CompareVersion(Versions[settings.version], Versions[release]) # 1
    PROVE  exe = release
  <1>1. /\ settings.version \in Nat /\ release \in 1..Len(Versions) /\ exe \in 0..release
        /\ settings.version <= release /\ Len(Versions) \in Nat
    BY InstallerAssumption DEF SettingsInv
  <1>2. settings.version \in 1..Len(Versions)
    BY <1>1
  <1>3. ~(settings.version < release)
    BY <1>1, <1>2, VersionsAssumption
  <1> QED
    BY <1>1, <1>3

\* A step that is about something else.
LEMMA ProgramSame ==
    ASSUME ProgramInv, hurt \subseteq hurt', UNCHANGED <<exe, app>>, IsInstalled' => IsInstalled,
           settings'.version = settings.version,
           \A op \in {"WriteExe", "WriteModule", "RemoveExe"} : Pending(op)' <=> Pending(op)
    PROVE  ProgramInv'
  BY DEF ProgramInv

\* At a start the program is that of the application, or is written anew.
LEMMA ProgramClicked ==
    ASSUME SettingsInv, ProgramInv,
           Start \/ OnInstallClicked \/ OnReinstallClicked \/ OnSaveSettingsClicked \/ Close
    PROVE  ProgramInv'
  <1>1. /\ Idle /\ UNCHANGED <<exe, modules, hurt>>
    BY Clicked
  <1>2. IsInstalled' = IsInstalled /\ \A op : ~Pending(op)
    BY <1>1, NothingPending DEF Pending, IsInstalled
  <1>3. settings'.version = settings.version
    BY DEF SettingsInv, Start, OnInstallClicked, OnReinstallClicked, OnSaveSettingsClicked, Close
  <1>4. CASE Pending("WriteExe")'
    BY <1>1, <1>4 DEF ProgramInv
  <1> SUFFICES ASSUME ~Pending("WriteExe")', "exe" \notin hurt
               PROVE  ProgramInv'
    BY <1>1, <1>4 DEF ProgramInv
  <1>5. ~Pending("WriteModule")'
    BY ClickKinds DEF Removes, Pending, Watched
  <1>6. IsInstalled => settings.version <= exe
    BY <1>2 DEF ProgramInv
  <1>7. CASE Start
    <2>1. app' = release /\ Idle'
      BY <1>7, ButtonLists DEF Start, Click, Idle, Pending
    <2>2. IsInstalled => exe = release
      <3>1. CASE IsInstalled /\ todo' = Reinstall
        BY <3>1, ButtonLists DEF Pending
      <3>2. CASE /\ IsInstalled /\ settings.version # 0
                 /\ CompareVersion(Versions[settings.version], Versions[release]) # 1
        BY <1>6, <3>2, NotOlder
      <3> QED
        BY <1>7, <3>1, <3>2 DEF Start, Click
    <2> QED
      BY <1>1, <1>2, <1>3, <1>5, <1>6, <2>1, <2>2 DEF ProgramInv
  <1>8. CASE Close
    BY <1>1, <1>2, <1>3, <1>5, <1>6, <1>8 DEF ProgramInv, Close
  <1>9. CASE OnInstallClicked \/ OnReinstallClicked \/ OnSaveSettingsClicked
    <2>1. UNCHANGED app
      BY <1>9 DEF OnInstallClicked, OnReinstallClicked, OnSaveSettingsClicked
    <2>2. IsInstalled /\ app # 0 => exe = app
      BY <1>2 DEF ProgramInv
    <2> QED
      BY <1>1, <1>2, <1>3, <1>5, <1>6, <2>1, <2>2 DEF ProgramInv
  <1> QED
    BY <1>7, <1>8, <1>9

\* Every step of the installer: the program comes before the modules.
LEMMA ProgramStep ==
    ASSUME StepsInv, FilesInv, SettingsInv, ProgramInv, InstallerNext
    PROVE  ProgramInv'
  <1> DEFINE three == {"WriteExe", "WriteModule", "RemoveExe"}
  <1>1. CASE Start \/ OnInstallClicked \/ OnReinstallClicked \/ OnSaveSettingsClicked \/ Close
    BY <1>1, ProgramClicked
  <1>2. CASE Copy
    <2>1. /\ ~Idle /\ app # 0 /\ app = release /\ todo' = Rest
          /\ UNCHANGED <<settings, hurt, app>>
      BY <1>2 DEF Copy, Continue, Does, InClick, SettingsInv
    <2>2. /\ \A op : Pending(op) <=> op = Step[1] \/ Pending(op)'
          /\ ~Pending("RemoveExe")'
      BY <2>1, PendingHead DEF Pending
    <2>3. settings.version <= release
      BY DEF SettingsInv
    <2> SUFFICES ASSUME "exe" \notin hurt
                 PROVE  ProgramInv'
      BY <2>1 DEF ProgramInv
    <2>4. CASE Does("WriteExe") /\ exe' = app
      BY <2>1, <2>2, <2>3, <2>4 DEF ProgramInv
    <2>5. CASE Does("RemoveExe") /\ exe' = 0
      <3>1. Step[1] = "RemoveExe" /\ Pending("RemoveExe")
        BY <2>2, <2>5 DEF Does
      <3>2. Pending("WriteModule")' => Pending("WriteExe")'
        BY <2>2, <3>1 DEF ProgramInv
      <3> QED
        BY <2>5, <3>2 DEF ProgramInv, IsInstalled
    <2>6. CASE Does("WriteModule") /\ UNCHANGED exe
      <3>1. Step[1] = "WriteModule" /\ Pending("WriteModule")
        BY <2>2, <2>6 DEF Does
      <3>2. Pending("WriteExe")' \/ exe = app
        BY <2>2, <3>1 DEF ProgramInv
      <3> QED
        BY <2>1, <2>2, <2>3, <2>6, <3>2 DEF ProgramInv
    <2>7. CASE /\ Step[1] \in {"RemoveModule", "Setuid", "Policy"}
               /\ UNCHANGED exe /\ modules' \subseteq modules
      <3>1. IsInstalled' => IsInstalled
        BY <2>7 DEF IsInstalled
      <3>2. \A op \in three : Pending(op)' <=> Pending(op)
        BY <2>2, <2>7
      <3> QED
        BY <2>1, <2>7, <3>1, <3>2, ProgramSame
    <2> QED
      BY <1>2, <2>4, <2>5, <2>6, <2>7 DEF Copy, Does
  <1>3. CASE Firewall \/ Ignored
    <2>1. /\ ~Idle /\ todo' = Rest /\ UNCHANGED <<settings, exe, modules, app>>
          /\ hurt \subseteq hurt' /\ Step[1] \notin three
      BY <1>3 DEF Firewall, Ignored, Continue, Does, InClick, Fault
    <2>2. \A op \in three : Pending(op)' <=> Pending(op)
      BY <2>1, PendingHead DEF Pending
    <2>3. IsInstalled' => IsInstalled
      BY <2>1 DEF IsInstalled
    <2> QED
      BY <2>1, <2>2, <2>3, ProgramSame
  <1>4. CASE Interrupt
    <2>1. /\ ~Idle /\ Idle' /\ hurt' = hurt \cup About /\ app' \in {app, 0}
          /\ UNCHANGED <<exe, modules, settings>>
      BY <1>4, Interrupted
    <2>2. IsInstalled' = IsInstalled
      BY <2>1 DEF IsInstalled
    <2> SUFFICES ASSUME "exe" \notin hurt'
                 PROVE  ProgramInv'
      BY DEF ProgramInv
    <2>3. \A op : ~Pending(op)'
      BY <2>1, NothingPending DEF Pending
    <2>4. \A op \in three : ~Pending(op)
      <3>1. \A i \in DOMAIN todo : todo[i][1] \notin three
        BY <2>1 DEF About
      <3>2. \A st \in ToSet(todo) : st[1] \notin three
        BY <3>1 DEF ToSet
      <3> QED
        BY <3>2 DEF Pending, Ops
    <2>5. /\ IsInstalled => settings.version <= exe
          /\ IsInstalled /\ app # 0 => exe = app
      BY <2>1, <2>4 DEF ProgramInv
    <2> QED
      BY <2>1, <2>2, <2>3, <2>5 DEF ProgramInv
  <1>5. CASE Settings
    <2>1. /\ \A op \in three : Pending(op)' <=> Pending(op)
          /\ UNCHANGED <<exe, modules, app>> /\ InClick
      BY <1>5, Elsewhere DEF Watched
    <2>2. IsInstalled' = IsInstalled /\ app # 0 /\ ~Idle
      BY <2>1 DEF IsInstalled, InClick
    <2>3. todo' = Rest /\ UNCHANGED hurt
      BY <1>5 DEF Settings, Continue
    <2>4. CASE settings' = [settings EXCEPT !.setPassword = Step[3]]
      <3>1. settings'.version = settings.version
        BY <2>4 DEF SettingsInv
      <3> QED
        BY <2>1, <2>2, <2>3, <3>1, ProgramSame
    <2>5. CASE settings' = [settings EXCEPT !.version = IF Step[3] \/ IsInstalled THEN app ELSE 0]
      <3> SUFFICES ASSUME "exe" \notin hurt
                   PROVE  ProgramInv'
        BY <2>3 DEF ProgramInv
      <3>1. IsInstalled => settings'.version = app
        BY <2>5 DEF SettingsInv
      <3>2. ~Pending("RemoveExe")
        BY <2>1, <2>2, <2>3, PendingHead DEF Pending
      <3>3. IsInstalled => exe = app \/ Pending("WriteExe")
        BY <2>2, <3>2 DEF ProgramInv
      <3>4. app <= app
        BY InstallerAssumption DEF SettingsInv
      <3> QED
        BY <2>1, <2>2, <2>3, <3>1, <3>2, <3>3, <3>4 DEF ProgramInv
    <2> QED
      BY <1>5, <2>4, <2>5 DEF Settings
  <1>6. CASE \/ Expand \/ SetConfigEntry \/ RestrictPolkit \/ OpenFile \/ WriteFile \/ Unread
             \/ EntryMissed \/ SettingMissed
    <2>1. /\ \A op \in three : Pending(op)' <=> Pending(op)
          /\ UNCHANGED <<exe, modules, app>>
      BY <1>6, Elsewhere DEF Watched
    <2>2. UNCHANGED settings /\ hurt \subseteq hurt'
      BY <1>6 DEF Expand, SetConfigEntry, RestrictPolkit, OpenFile, WriteFile, Unread,
                  EntryMissed, SettingMissed, Continue, Fault
    <2>3. IsInstalled' => IsInstalled
      BY <2>1 DEF IsInstalled
    <2> QED
      BY <2>1, <2>2, <2>3, ProgramSame
  <1> QED
    BY <1>1, <1>2, <1>3, <1>4, <1>5, <1>6 DEF InstallerNext

\* Nothing is installed at first.
LEMMA WatchedInit == InstallerInit => PortsInv /\ ProgramInv
  <1> SUFFICES ASSUME InstallerInit PROVE PortsInv /\ ProgramInv
    OBVIOUS
  <1>1. Idle
    BY DEF InstallerInit, Idle
  <1>2. \A op : ~Pending(op)
    BY <1>1, NothingPending DEF Pending
  <1>3. PortOrder(todo)
    BY <1>1, EmptyOrder DEF Idle
  <1> QED
    BY <1>2, <1>3 DEF InstallerInit, PortsInv, ProgramInv, IsInstalled

\* What is left when nothing is to be done.
LEMMA WatchedAre == PortsInv /\ ProgramInv => PortsClosed /\ ProgramUpToDate
  <1>1. Idle => \A op : ~Pending(op)
    BY NothingPending DEF Pending
  <1> QED
    BY <1>1 DEF PortsInv, ProgramInv, PortsClosed, ProgramUpToDate

-----------------------------------------------------------------------------
(* The installer as a whole.  *)

InstallerInv ==
    /\ StepsInv /\ FilesInv /\ SettingsInv
    /\ KeptInv /\ SandboxInv /\ PortsInv /\ ProgramInv

\* The installer starts as the invariant says.
LEMMA InstallerStarts == Init => InstallerInv
  BY InstallerTypesInit, KeptInit, SandboxInit, WatchedInit DEF Init, InstallerInv

\* The steps of the installer; those of a login leave it alone.
LEMMA InstallerStep ==
    ASSUME InstallerInv, [Next]_vars
    PROVE  InstallerInv'
  <1>1. CASE InstallerNext
    BY <1>1, InstallerTypes, KeptStep, SandboxStep, PortsStep, ProgramStep DEF InstallerInv
  <1>2. CASE UNCHANGED ivars
    <2>1. /\ \A op : Pending(op)' <=> Pending(op)
          /\ \A s : Writing(s)' <=> Writing(s)
      BY <1>2 DEF ivars, Pending, Ops, Writing, Idle, Step
    <2>2. StepsInv' /\ FilesInv' /\ SettingsInv'
      BY <1>2 DEF ivars, InstallerInv, StepsInv, FilesInv, SettingsInv, Idle, Step, Rest
    <2>3. KeptInv'
      BY <1>2, <2>1 DEF ivars, InstallerInv, KeptInv, KeptText, Step
    <2>4. SandboxInv'
      BY <1>2 DEF ivars, InstallerInv, SandboxInv, Restored, OnTheWay, Removing, Idle, Step, Rest
    <2>5. PortsInv' /\ ProgramInv'
      <3>1. PortOrder(todo) <=> PortOrder(todo')
        BY <1>2 DEF ivars
      <3> QED
        BY <1>2, <2>1, <3>1 DEF ivars, InstallerInv, PortsInv, ProgramInv, IsInstalled
    <2> QED
      BY <2>2, <2>3, <2>4, <2>5 DEF InstallerInv
  <1> QED
    BY <1>1, <1>2 DEF Next, vars, Leave, Begin, RunLine, EndOfStack, pam_sm_authenticate,
                      runMain, Check, Return, ChangePassword, Becomes

\* Between two clicks every line of the system's own is there, in its place among the
\* others, but for the headers, which the installer adds too; polkit is as restricted
\* as it was where it has no entry; no port is open when the program is gone; and the
\* installed program is that of the application (PAMHelper, ServiceInstaller,
\* MainWindow, SettingsForm).  Each holds but for its own exception: a step about that
\* file, about polkit, about the ports or about the program failed or was interrupted,
\* or could not read the file; and the port was changed, for the ports.
THEOREM LoginSystemRestored == Spec => []SystemRestored
  <1>1. Init => InstallerInv
    BY InstallerStarts
  <1>2. InstallerInv /\ [Next]_vars => InstallerInv'
    BY InstallerStep
  <1>3. InstallerInv => SystemRestored
    <2> SUFFICES ASSUME InstallerInv PROVE OwnLinesKept
      BY SandboxIs, WatchedAre DEF InstallerInv, SystemRestored
    <2> SUFFICES ASSUME Idle, NEW s \in Services \ hurt
                 PROVE  KeptText(s, files[s])
      BY DEF OwnLinesKept, KeptText
    <2>1. ~Writing(s)
      BY DEF Writing
    <2> QED
      BY <2>1 DEF InstallerInv, KeptInv
  <1> QED
    BY <1>1, <1>2, <1>3, PTL DEF Spec

-----------------------------------------------------------------------------
(* The invariant of a login.  *)

Fields == {"pc", "service", "stack", "at", "typed", "authtok", "pipe", "pw", "exit",
           "written", "passed", "failed", "approved", "granted", "torn"}

LoginFields ==
    /\ DOMAIN login = Fields
    /\ {login.typed, login.passed, login.failed, login.approved, login.granted} \subseteq BOOLEAN
    /\ password \in Nat \ {0}

\* Where an approval can be between the phone and the end of the stack.
ApprovalTraced ==
    /\ login.authtok # None => login.approved
    /\ login.written # None => login.approved
    /\ login.pc = "return" /\ login.exit = 0 => login.approved
    /\ login.passed => login.typed \/ login.approved
    /\ login.granted => login.typed \/ login.approved

LoginInv == LoginFields /\ ApprovalTraced

\* The login and the account start as the invariant says.
LEMMA LoginInvInit == Init => LoginInv
  BY DEF Init, LoginInit, NoLogin, LoginInv, LoginFields, ApprovalTraced, Fields, None

\* No step of libpam, of the module, of pcbu_auth or of the installer breaks it.
LEMMA LoginInvStep == LoginInv /\ [Next]_vars => LoginInv'
  <1> USE DEF LoginInv, LoginFields, Fields, None
  <1> SUFFICES ASSUME LoginInv, [Next]_vars PROVE LoginInv'
    OBVIOUS
  <1>1. CASE UNCHANGED lvars
    BY <1>1 DEF lvars, ApprovalTraced
  <1>2. CASE Leave
    BY <1>2 DEF Leave, Becomes, NoLogin, ApprovalTraced
  <1>3. CASE Begin
    BY <1>3 DEF Begin, NoLogin, ApprovalTraced
  <1>4. CASE RunLine
    <2>1. ASSUME NEW i, login' = [login EXCEPT !.at = i], UNCHANGED password
          PROVE  LoginInv'
      BY <2>1 DEF ApprovalTraced
    <2>2. ASSUME login' = Next1(login), UNCHANGED password PROVE LoginInv'
      BY <2>2 DEF Next1, ApprovalTraced
    <2>6. ASSUME login' = Next1([login EXCEPT !.failed = TRUE]), UNCHANGED password
          PROVE  LoginInv'
      BY <2>6 DEF Next1, ApprovalTraced
    <2>4. ASSUME NEW passed \in BOOLEAN, NEW failed \in BOOLEAN, UNCHANGED password,
                 login' = Next1([login EXCEPT !.passed = passed, !.failed = failed]),
                 passed => login.passed \/ RightPassword
          PROVE  LoginInv'
      <3>1. RightPassword => login.typed \/ login.approved
        BY DEF RightPassword, ApprovalTraced
      <3> QED
        BY <2>4, <3>1 DEF Next1, ApprovalTraced
    <2>5. ASSUME login' = Next1([login EXCEPT !.passed = @ \/ RightPassword,
                                             !.failed = @ \/ ~RightPassword]),
                 UNCHANGED password
          PROVE  LoginInv'
      BY <2>4, <2>5
    <2>3. ASSUME login' = [login EXCEPT !.pc = "module"], UNCHANGED password
          PROVE  LoginInv'
      BY <2>3 DEF ApprovalTraced
    <2> QED
      BY <1>4, <2>1, <2>2, <2>3, <2>5, <2>6 DEF RunLine, Becomes
  <1>5. CASE EndOfStack
    BY <1>5 DEF EndOfStack, Becomes, ApprovalTraced
  <1>6. CASE pam_sm_authenticate
    <2>1. CASE Becomes(PAM_IGNORE(login))
      BY <2>1 DEF Becomes, PAM_IGNORE, Next1, ApprovalTraced
    <2>2. ASSUME NEW hasPipe \in BOOLEAN,
                 Becomes([login EXCEPT !.pc = "ask", !.pipe = hasPipe, !.pw = stored])
          PROVE  LoginInv'
      BY <2>2 DEF Becomes, ApprovalTraced
    <2> QED
      BY <1>6, <2>1, <2>2 DEF pam_sm_authenticate
  <1>7. CASE runMain
    <2>1. CASE Becomes([login EXCEPT !.pc = "check"])
      BY <2>1 DEF Becomes, ApprovalTraced
    <2>2. ASSUME NEW code \in {-1, 1},
                 Becomes([login EXCEPT !.pc = "return", !.exit = code])
          PROVE  LoginInv'
      BY <2>2 DEF Becomes, ApprovalTraced
    <2> QED
      BY <1>7, <2>1, <2>2 DEF runMain
  <1>8. CASE Check
    <2>1. ASSUME NEW code, NEW written, NEW approved \in BOOLEAN, UNCHANGED password,
                 login' = [login EXCEPT !.pc = "return", !.exit = code,
                                        !.written = written, !.approved = approved],
                 login.approved => approved,
                 code = 0 \/ written # None => approved
          PROVE  LoginInv'
      BY <2>1 DEF ApprovalTraced
    <2> DEFINE ok == CheckLogin(login.pw)
    <2> DEFINE code == IF ok THEN 0 ELSE 1
    <2> DEFINE written == IF ok /\ settings.setPassword /\ login.pipe THEN login.pw ELSE None
    <2> DEFINE approved == login.approved \/ login.pw = password
    <2>2. /\ UNCHANGED password
          /\ login' = [login EXCEPT !.pc = "return", !.exit = code,
                                    !.written = written, !.approved = approved]
      BY <1>8 DEF Check, Becomes
    <2>3. /\ approved \in BOOLEAN
          /\ login.approved => approved
          /\ code = 0 \/ written # None => approved
      BY DEF CheckLogin
    <2> HIDE DEF code, written, approved
    <2> QED
      BY <2>1, <2>2, <2>3
  <1>9. CASE Return
    <2>0. At("return") BY <1>9 DEF Return
    <2>1. CASE Becomes(PAM_IGNORE([login EXCEPT !.authtok = login.written]))
      BY <2>1 DEF Becomes, PAM_IGNORE, Next1, ApprovalTraced
    <2>2. CASE Becomes(PAM_SUCCESS(login)) /\ login.exit = 0
      BY <2>0, <2>2 DEF At, Becomes, PAM_SUCCESS, Next1, ApprovalTraced
    <2>3. CASE Becomes(Next1(login))
      BY <2>3 DEF Becomes, Next1, ApprovalTraced
    <2> QED
      BY <1>9, <2>1, <2>2, <2>3 DEF Return, PAM_IGNORE, PAM_AUTH_ERR
  <1>10. CASE ChangePassword
    BY <1>10 DEF ChangePassword, ApprovalTraced
  <1> QED
    BY <1>1, <1>2, <1>3, <1>4, <1>5, <1>6, <1>7, <1>8, <1>9, <1>10
    DEF Next, vars, lvars

\* A service lets in nobody who neither typed the password nor has an approval
\* with the password that was valid (pam_sm_authenticate and runMain).
THEOREM LoginNeedsApproval == Spec => []GrantsOnlyApproved
  <1>1. LoginInv => GrantsOnlyApproved
    BY DEF LoginInv, ApprovalTraced, GrantsOnlyApproved
  <1> QED
    BY <1>1, LoginInvInit, LoginInvStep, PTL DEF Spec

\* The lines that the right password passes.
Rule(line) == line = Own \/ line \in Existing

\* While somebody with the right password is logging in, a rule for it is still to
\* come, or has been passed.
OwnInv ==
    /\ login.pc # "none" => Text(login.service, login.stack)
    /\ login.at \in Nat \ {0}
    /\ login.pc \in {"module", "ask", "check", "return"} =>
          login.at <= Len(login.stack) /\ Line = Module
    /\ login.pc # "none" /\ login.typed /\ HasRule(login.stack) =>
          IF login.pc = "done" THEN login.granted
          ELSE /\ ~login.failed
               /\ \/ login.passed
                  \/ \E j \in login.at..Len(login.stack) : Rule(login.stack[j])

\* A line that is no rule for the password is passed.
LEMMA LinePassed ==
    ASSUME LoginInv, OwnInv, login.pc \in {"stack", "module", "ask", "check", "return"},
           login.at <= Len(login.stack), ~Rule(Line), Line # UnixFirst,
           NEW tok, login' = Next1([login EXCEPT !.authtok = tok])
    PROVE  OwnInv'
  <1> DEFINE l == login
             n == Len(login.stack)
  <1>1. /\ login'.pc = "stack" /\ login'.service = l.service /\ login'.stack = l.stack
        /\ login'.at = l.at + 1 /\ login'.typed = l.typed
        /\ login'.passed = l.passed /\ login'.failed = l.failed
    BY DEF Next1, LoginInv, LoginFields, Fields
  <1>2. l.at \in Nat \ {0} /\ Text(l.service, l.stack) /\ n \in Nat
    BY DEF OwnInv, Text
  <1>3. ASSUME l.typed, HasRule(l.stack)
        PROVE  /\ ~l.failed
               /\ l.passed \/ \E j \in l.at + 1..n : Rule(l.stack[j])
    BY <1>2, <1>3 DEF OwnInv, Line
  <1> QED
    BY <1>1, <1>2, <1>3 DEF OwnInv

\* What has a rule can be passed.
LEMMA RuleThere ==
    ASSUME NEW s, NEW text, Text(s, text), HasRule(text)
    PROVE  /\ \E j \in 1..Len(text) : Rule(text[j])
           /\ ToSet(text) \cap Missing = {}
  <1>1. text \in Seq(Lines) /\ Len(text) \in Nat
    BY DEF Text
  <1>2. /\ ToSet(text) = {text[i] : i \in 1..Len(text)}
        /\ \A x : Contains(text, x) <=> x \in ToSet(text)
    BY <1>1, Elements
  <1>3. PICK x \in ToSet(text) : Rule(x)
    BY DEF HasRule, Rule, Existing
  <1>4. Own \in ToSet(text) \/ Includes # {}
    BY <1>3 DEF Rule, Existing
  <1> QED
    BY <1>2, <1>3, <1>4 DEF Text

\* What is left of a text are the lines that do not go.
LEMMA WithoutSet ==
    ASSUME NEW A, NEW t \in Seq(A), NEW L
    PROVE  ToSet(Without(t, L)) = ToSet(t) \ L
  <1> DEFINE B == ToSet(t)
             p == Pieces(t, L)
             w == Without(t, L)
  <1>1. t \in Seq(B) /\ Len(t) \in Nat /\ ToSet(t) = {t[i] : i \in 1..Len(t)}
    BY Elements
  <1>2. w = FlattenSeq(p) /\ p \in Seq(Seq(A \ L)) /\ Len(p) = Len(t)
    BY WithoutPieces
  <1>3. w \in Seq(B \ L)
    <2> HIDE DEF B
    <2> QED
      BY <1>1, WithoutPieces
  <1>4. \A i \in 1..Len(t) : p[i] = IF t[i] \in L THEN <<>> ELSE <<t[i]>>
    BY PieceAt
  <1> HIDE DEF p, w, B
  <1>5. ToSet(w) \subseteq B \ L
    BY <1>3, Elements
  <1>6. \A i \in 1..Len(p) : ToSet(p[i]) \subseteq ToSet(w)
    BY <1>2, FlattenElements
  <1>7. ASSUME NEW i \in 1..Len(t), t[i] \notin L PROVE t[i] \in ToSet(w)
    <2> DEFINE x == t[i]
               r == <<x>>
    <2>1. p[i] = r
      BY <1>4, <1>7
    <2>2. x \in ToSet(r)
      BY DEF ToSet
    <2> HIDE DEF r, x
    <2>3. x \in ToSet(w)
      BY <1>2, <1>6, <2>1, <2>2
    <2> QED
      BY <2>3 DEF x
  <1> QED
    BY <1>1, <1>5, <1>7 DEF B, w

\* A file that was not torn has a rule where the system has one.
LEMMA RuleKept ==
    ASSUME FilesInv, KeptInv, NEW s \in Services, files[s] # Absent, ~Torn(s), Ruled(s)
    PROVE  HasRule(files[s])
  <1> DEFINE text == files[s]
             old == original.files[s]
  <1>1. KeptText(s, text) /\ Text(s, text)
    BY DEF Torn, Writing, KeptInv, FilesInv
  <1>2. CASE old = Absent
    <2>1. Refers(text) /\ Includes # {}
      BY <1>1, <1>2 DEF KeptText, Ruled
    <2> QED
      BY <2>1 DEF Refers, Existing, HasRule
  <1>3. CASE old # Absent
    <2>1. OwnLines(text) = OwnLines(old) /\ old \in Seq(Lines) /\ text \in Seq(Lines)
      BY <1>1, <1>3 DEF KeptText, Text
    <2>2. HasRule(old)
      BY <1>3 DEF Ruled
    <2>3. Own \notin Ours /\ \A i \in Includes : Include(i) \notin Ours
      BY LinesDiffer, ExistingLines DEF Ours, Existing
    <2> HIDE DEF text, old
    <2>4. /\ ToSet(OwnLines(text)) = ToSet(text) \ Ours
          /\ ToSet(OwnLines(old)) = ToSet(old) \ Ours
      BY <2>1, WithoutSet DEF OwnLines, Ours
    <2>5. HasRule(text)
      BY <2>1, <2>2, <2>3, <2>4 DEF HasRule
    <2> QED
      BY <2>5 DEF text
  <1> QED
    BY <1>2, <1>3

\* There is no login at first.
LEMMA OwnInvInit == Init => OwnInv
  BY DEF Init, LoginInit, NoLogin, OwnInv

\* A file is read that has a rule, if the service has one.
LEMMA OwnInvBegin ==
    ASSUME FilesInv, Begin
    PROVE  OwnInv'
  <1>1. PICK s \in Services, typed \in BOOLEAN :
           /\ files[s] # Absent
           /\ login' = [NoLogin EXCEPT !.pc = "stack", !.service = s, !.stack = files[s],
                                       !.typed = typed, !.torn = Torn(s)]
    BY DEF Begin
  <1> DEFINE text == files[s]
  <1>2. Text(s, text)
    BY <1>1 DEF FilesInv
  <1>3. /\ login'.pc = "stack" /\ login'.service = s /\ login'.stack = text /\ login'.at = 1
        /\ login'.failed = FALSE
    BY <1>1 DEF NoLogin
  <1> HIDE DEF text
  <1>4. HasRule(text) => \E j \in 1..Len(text) : Rule(text[j])
    BY <1>2, RuleThere
  <1> QED
    BY <1>2, <1>3, <1>4 DEF OwnInv

\* A line that is not the module's is run: only rules for the password fail or pass.
LEMMA OwnInvRunLine ==
    ASSUME LoginInv, OwnInv, RunLine
    PROVE  OwnInv'
  <1> DEFINE n == Len(login.stack)
             stack == login.stack
             at == login.at
  <1>1. /\ login.pc = "stack" /\ at \in 1..n /\ n \in Nat /\ Text(login.service, stack)
        /\ login.at <= Len(login.stack)
    <2>1. login.pc = "stack" /\ at <= n
      BY DEF RunLine, At
    <2>2. Text(login.service, stack) /\ at \in Nat \ {0}
      BY <2>1 DEF OwnInv
    <2> QED
      BY <2>1, <2>2 DEF Text
  <1>2. DOMAIN login = Fields
    BY DEF LoginInv, LoginFields
  <1>3. Line \in ToSet(stack)
    BY <1>1, Elements DEF Text, Line
  <1>4. ASSUME login.typed, HasRule(stack)
        PROVE  /\ ~login.failed
               /\ login.passed \/ \E j \in at..n : Rule(stack[j])
    BY <1>1, <1>4 DEF OwnInv
  \* A line is of one kind only.
  <1>5. \/ Line = UnixFirst /\ ~Rule(Line) /\ Line \notin Missing /\ Line # Module
        \/ Line # UnixFirst /\ Rule(Line) /\ Line \notin Missing /\ Line # Module
        \/ Line # UnixFirst /\ ~Rule(Line) /\ Line \in Missing /\ Line # Module
        \/ Line # UnixFirst /\ ~Rule(Line) /\ Line \notin Missing /\ Line = Module
        \/ Line # UnixFirst /\ ~Rule(Line) /\ Line \notin Missing /\ Line # Module
    BY LinesDiffer, ExistingLines DEF Rule
  <1>6. /\ Rule(Line) <=> Line = Own \/ Line \in {Include(i) : i \in Includes}
        /\ Line \in Missing <=>
               Line \in {Include(i) : i \in {"system-auth", "common-auth"} \ Includes}
    BY DEF Rule, Existing, Missing
  <1>7. CASE Line = UnixFirst
    <2>1. login' = [login EXCEPT !.at = IF login.typed THEN @ + 2 ELSE @ + 1]
      BY <1>7, LinesDiffer DEF RunLine, Becomes
    <2>2. at < n /\ stack[at + 1] = Module
      BY <1>1, <1>7 DEF Text, Linked, Leads, Link, Line
    <2>3. ~Rule(UnixFirst) /\ ~Rule(Module)
      BY LinesDiffer, ExistingLines DEF Rule
    <2>4. ASSUME login.typed, NEW j \in at..n, Rule(stack[j]) PROVE j \in at + 2..n
      BY <1>1, <1>7, <2>2, <2>3, <2>4 DEF Line
    <2>5. /\ login'.pc = "stack" /\ login'.service = login.service /\ login'.stack = stack
          /\ login'.typed = login.typed /\ login'.passed = login.passed
          /\ login'.failed = login.failed
          /\ login'.at = IF login.typed THEN at + 2 ELSE at + 1
      BY <1>1, <1>2, <2>1 DEF Fields
    <2> QED
      BY <1>1, <1>4, <2>4, <2>5 DEF OwnInv
  <1>8. CASE Rule(Line)
    <2>2. login' = Next1([login EXCEPT !.passed = @ \/ RightPassword,
                                       !.failed = @ \/ ~RightPassword])
      BY <1>8, <1>5, <1>6 DEF RunLine, Becomes
    <2>3. /\ login'.pc = "stack" /\ login'.service = login.service /\ login'.stack = stack
          /\ login'.typed = login.typed /\ login'.at = at + 1
          /\ login'.passed = (login.passed \/ RightPassword)
          /\ login'.failed = (login.failed \/ ~RightPassword)
      BY <1>2, <2>2 DEF Next1, Fields
    <2>4. login.typed /\ HasRule(stack) => ~login'.failed /\ login'.passed
      BY <1>4, <2>3 DEF RightPassword
    <2> QED
      BY <1>1, <2>3, <2>4 DEF OwnInv
  <1>9. CASE Line \in Missing
    <2>1. ~HasRule(stack)
      BY <1>1, <1>3, <1>9, RuleThere
    <2>3. login' = Next1([login EXCEPT !.failed = TRUE])
      BY <1>9, <1>5, <1>6 DEF RunLine, Becomes
    <2>4. /\ login'.pc = "stack" /\ login'.service = login.service /\ login'.stack = stack
          /\ login'.at = at + 1
      BY <1>2, <2>3 DEF Next1, Fields
    <2> QED
      BY <1>1, <2>1, <2>4 DEF OwnInv
  <1>10. CASE Line = Module
    <2>1. /\ Line # UnixFirst /\ ~Rule(Line) /\ Line # Own
          /\ Line \notin Existing /\ Line \notin Missing
      BY <1>10, LinesDiffer, ExistingLines DEF Rule
    <2>2. login' = IF modules = {} THEN Next1(login) ELSE [login EXCEPT !.pc = "module"]
      BY <1>10, <2>1 DEF RunLine, Becomes, Existing, Missing
    <2>3. CASE modules = {}
      <3>1. login' = Next1([login EXCEPT !.authtok = login.authtok])
        BY <1>2, <2>2, <2>3 DEF Next1, Fields
      <3> QED
        BY <1>1, <2>1, <3>1, LinePassed
    <2>4. CASE modules # {}
      <3>1. login' = [login EXCEPT !.pc = "module"]
        BY <2>2, <2>4
      <3>2. /\ login'.pc = "module" /\ login'.service = login.service /\ login'.stack = stack
            /\ login'.typed = login.typed /\ login'.passed = login.passed
            /\ login'.failed = login.failed /\ login'.at = at
        BY <1>2, <3>1 DEF Fields
      <3> QED
        BY <1>1, <1>4, <1>10, <3>2 DEF OwnInv, Line
    <2> QED
      BY <2>3, <2>4
  <1>11. CASE Line # UnixFirst /\ ~Rule(Line) /\ Line \notin Missing /\ Line # Module
    <2>1. login' = Next1(login)
      BY <1>11 DEF RunLine, Becomes, Rule, Existing, Missing
    <2>2. login' = Next1([login EXCEPT !.authtok = login.authtok])
      BY <1>2, <2>1 DEF Next1, Fields
    <2> QED
      BY <1>1, <1>11, <2>2, LinePassed
  <1> QED
    BY <1>7, <1>8, <1>9, <1>10, <1>11

\* While the module runs only its own state changes.
LEMMA OwnInvModule ==
    ASSUME LoginInv, OwnInv, login.pc \in {"module", "ask", "check"},
           NEW pc \in {"ask", "check", "return"}, login'.pc = pc,
           login'.service = login.service, login'.stack = login.stack, login'.at = login.at,
           login'.typed = login.typed, login'.passed = login.passed, login'.failed = login.failed
    PROVE  OwnInv'
  BY DEF OwnInv, Line

\* Every step: of the login, of the account and of the installer.
LEMMA OwnInvStep ==
    ASSUME LoginInv, OwnInv, FilesInv, [Next]_vars
    PROVE  OwnInv'
  <1>1. DOMAIN login = Fields
    BY DEF LoginInv, LoginFields
  <1>2. ~Rule(Module) /\ Module # UnixFirst
    BY LinesDiffer, ExistingLines DEF Rule
  <1>3. CASE UNCHANGED login
    BY <1>3 DEF OwnInv, Line
  <1>4. CASE Leave
    BY <1>4 DEF Leave, Becomes, NoLogin, OwnInv
  <1>5. CASE Begin
    BY <1>5, OwnInvBegin
  <1>6. CASE RunLine
    BY <1>6, OwnInvRunLine
  <1>7. CASE EndOfStack
    <2>1. /\ login.pc = "stack" /\ login.at > Len(login.stack)
          /\ login' = [login EXCEPT !.pc = "done", !.granted = login.passed /\ ~login.failed]
      BY <1>7 DEF EndOfStack, At, Becomes
    <2>2. /\ login'.pc = "done" /\ login'.service = login.service /\ login'.stack = login.stack
          /\ login'.typed = login.typed /\ login'.at = login.at
          /\ login'.granted = (login.passed /\ ~login.failed)
      BY <1>1, <2>1 DEF Fields
    <2>3. Text(login.service, login.stack) /\ login.at \in Nat /\ Len(login.stack) \in Nat
      BY <2>1 DEF OwnInv, Text
    <2>4. login.typed /\ HasRule(login.stack) => login.passed /\ ~login.failed
      BY <2>1, <2>3 DEF OwnInv
    <2> QED
      BY <2>1, <2>2, <2>4 DEF OwnInv
  <1>8. CASE pam_sm_authenticate
    <2>1. login.pc = "module" /\ login.at <= Len(login.stack) /\ Line = Module
      BY <1>8 DEF pam_sm_authenticate, At, OwnInv
    <2>2. CASE login' = Next1(login)
      <3>1. login' = Next1([login EXCEPT !.authtok = login.authtok])
        BY <1>1, <2>2 DEF Next1, Fields
      <3> QED
        BY <1>2, <2>1, <3>1, LinePassed
    <2>3. CASE \E hasPipe \in BOOLEAN :
                  login' = [login EXCEPT !.pc = "ask", !.pipe = hasPipe, !.pw = stored]
      <3>1. PICK hasPipe \in BOOLEAN :
               login' = [login EXCEPT !.pc = "ask", !.pipe = hasPipe, !.pw = stored]
        BY <2>3
      <3>2. /\ login'.pc = "ask" /\ login'.service = login.service /\ login'.stack = login.stack
            /\ login'.typed = login.typed /\ login'.passed = login.passed
            /\ login'.failed = login.failed /\ login'.at = login.at
        BY <1>1, <3>1 DEF Fields
      <3> QED
        BY <2>1, <3>2, OwnInvModule
    <2> QED
      BY <1>8, <2>2, <2>3 DEF pam_sm_authenticate, Becomes, PAM_IGNORE
  <1>9. CASE runMain
    <2>1. login.pc = "ask"
      BY <1>9 DEF runMain, At
    <2>2. \/ login' = [login EXCEPT !.pc = "check"]
          \/ \E x \in {1, -1} : login' = [login EXCEPT !.pc = "return", !.exit = x]
      BY <1>9 DEF runMain, Becomes
    <2>3. /\ login'.pc \in {"check", "return"}
          /\ login'.service = login.service /\ login'.stack = login.stack
          /\ login'.typed = login.typed /\ login'.passed = login.passed
          /\ login'.failed = login.failed /\ login'.at = login.at
      BY <1>1, <2>2 DEF Fields
    <2> QED
      BY <2>1, <2>3, OwnInvModule
  <1>10. CASE Check
    <2>1. login.pc = "check"
      BY <1>10 DEF Check, At
    <2>2. \E x, w, a : login' = [login EXCEPT !.pc = "return", !.exit = x, !.written = w,
                                              !.approved = a]
      BY <1>10 DEF Check, Becomes
    <2>3. /\ login'.pc = "return"
          /\ login'.service = login.service /\ login'.stack = login.stack
          /\ login'.typed = login.typed /\ login'.passed = login.passed
          /\ login'.failed = login.failed /\ login'.at = login.at
      BY <1>1, <2>2 DEF Fields
    <2> QED
      BY <2>1, <2>3, OwnInvModule
  <1>11. CASE Return
    <2>1. login.pc = "return" /\ login.at <= Len(login.stack) /\ Line = Module
      BY <1>11 DEF Return, At, OwnInv
    <2>2. \/ login' = Next1([login EXCEPT !.authtok = login.written])
          \/ login' = Next1(login)
          \/ login' = [login EXCEPT !.pc = "done", !.granted = TRUE]
      BY <1>11 DEF Return, Becomes, PAM_IGNORE, PAM_AUTH_ERR, PAM_SUCCESS
    <2>3. CASE login' = [login EXCEPT !.pc = "done", !.granted = TRUE]
      <3>1. /\ login'.pc = "done" /\ login'.service = login.service
            /\ login'.stack = login.stack /\ login'.at = login.at /\ login'.granted
        BY <1>1, <2>3 DEF Fields
      <3> QED
        BY <2>1, <3>1 DEF OwnInv
    <2>4. CASE \E tok : login' = Next1([login EXCEPT !.authtok = tok])
      BY <1>2, <2>1, <2>4, LinePassed
    <2>5. Next1(login) = Next1([login EXCEPT !.authtok = login.authtok])
      BY <1>1 DEF Next1, Fields
    <2> QED
      BY <2>2, <2>3, <2>4, <2>5
  <1> QED
    BY <1>3, <1>4, <1>5, <1>6, <1>7, <1>8, <1>9, <1>10, <1>11
    DEF Next, vars, lvars, ChangePassword

\* What was read for a service with a rule has one, unless the file was torn.
RuleInv == login.pc # "none" /\ Ruled(login.service) => HasRule(login.stack) \/ login.torn

\* What a login read stays the same until it is over.
LEMMA Remembered ==
    ASSUME LoginInv, [Next]_vars, ~Begin
    PROVE  /\ UNCHANGED original
           /\ \/ login'.pc = "none"
              \/ /\ login.pc # "none" \/ UNCHANGED login
                 /\ login'.service = login.service /\ login'.stack = login.stack
                 /\ login'.torn = login.torn
  <1> USE DEF LoginInv, LoginFields, Fields
  <1>1. CASE InstallerNext /\ UNCHANGED lvars
    BY <1>1 DEF InstallerNext, Start, OnInstallClicked, OnReinstallClicked, OnSaveSettingsClicked,
                Close, Click, Copy, Firewall, Expand, Settings, SetConfigEntry, RestrictPolkit,
                OpenFile, WriteFile, Interrupt, Ignored, Unread, EntryMissed, SettingMissed,
                Continue, Fault, lvars
  <1>2. CASE Leave
    BY <1>2 DEF Leave, Becomes, NoLogin, ivars
  <1>3. CASE RunLine \/ EndOfStack
    <2>1. login.pc = "stack" /\ UNCHANGED original
      BY <1>3 DEF RunLine, EndOfStack, At, Becomes, ivars
    <2>2. \/ \E i : login' = [login EXCEPT !.at = i]
          \/ \E p, f : login' = Next1([login EXCEPT !.passed = p, !.failed = f])
          \/ \E f : login' = Next1([login EXCEPT !.failed = f])
          \/ login' = Next1(login) \/ login' = [login EXCEPT !.pc = "module"]
          \/ \E g : login' = [login EXCEPT !.pc = "done", !.granted = g]
      BY <1>3 DEF RunLine, EndOfStack, Becomes
    <2> QED
      BY <2>1, <2>2 DEF Next1
  <1>4. CASE pam_sm_authenticate \/ runMain \/ Check
    <2>1. login.pc # "none" /\ UNCHANGED original
      BY <1>4 DEF pam_sm_authenticate, runMain, Check, At, Becomes, ivars
    <2>2. \/ \E h : login' = [login EXCEPT !.pc = "ask", !.pipe = h, !.pw = stored]
          \/ login' = Next1(login) \/ login' = [login EXCEPT !.pc = "check"]
          \/ \E x : login' = [login EXCEPT !.pc = "return", !.exit = x]
          \/ \E x, w, a : login' = [login EXCEPT !.pc = "return", !.exit = x, !.written = w,
                                                  !.approved = a]
      <3>1. CASE pam_sm_authenticate
        BY <3>1 DEF pam_sm_authenticate, Becomes, PAM_IGNORE
      <3>2. CASE runMain
        BY <3>2 DEF runMain, Becomes
      <3>3. CASE Check
        BY <3>3 DEF Check, Becomes
      <3> QED
        BY <1>4, <3>1, <3>2, <3>3
    <2> QED
      BY <2>1, <2>2 DEF Next1
  <1>5. CASE Return
    <2>1. login.pc # "none" /\ UNCHANGED original
      BY <1>5 DEF Return, At, Becomes, ivars
    <2>2. \/ login' = Next1([login EXCEPT !.authtok = login.written])
          \/ login' = Next1(login)
          \/ login' = [login EXCEPT !.pc = "done", !.granted = TRUE]
      BY <1>5 DEF Return, Becomes, PAM_IGNORE, PAM_AUTH_ERR, PAM_SUCCESS
    <2> QED
      BY <2>1, <2>2 DEF Next1
  <1>6. CASE ChangePassword \/ UNCHANGED vars
    BY <1>6 DEF ChangePassword, vars, ivars, lvars
  <1> QED
    BY <1>1, <1>2, <1>3, <1>4, <1>5, <1>6 DEF Next

\* Every step.
LEMMA RuleInvStep ==
    ASSUME FilesInv, KeptInv, LoginInv, RuleInv, [Next]_vars
    PROVE  RuleInv'
  <1>1. CASE Begin
    <2>1. PICK s \in Services, typed \in BOOLEAN :
             /\ files[s] # Absent
             /\ login' = [NoLogin EXCEPT !.pc = "stack", !.service = s, !.stack = files[s],
                                         !.typed = typed, !.torn = Torn(s)]
      BY <1>1 DEF Begin
    <2>2. login'.service = s /\ login'.stack = files[s] /\ login'.torn = Torn(s)
      BY <2>1 DEF NoLogin
    <2>3. UNCHANGED original
      BY <1>1 DEF Begin, ivars
    <2>4. Ruled(s) => HasRule(files[s]) \/ Torn(s)
      BY <2>1, RuleKept
    <2> QED
      BY <2>2, <2>3, <2>4 DEF RuleInv, Ruled
  <1>2. CASE ~Begin
    BY <1>2, Remembered DEF RuleInv, Ruled
  <1> QED
    BY <1>1, <1>2

\* Whatever the phone, the module and an installation under way do, the right password
\* succeeds where it did before, unless the file was read while it was being written
\* or after a step about it had failed; and without it no login succeeds but by an
\* approval with the password that was valid (pam_sm_authenticate, runMain, PAMHelper,
\* ServiceInstaller).
THEOREM LoginDecided == Spec => []LoginsDecided
  <1> DEFINE Inv == InstallerInv /\ LoginInv /\ OwnInv /\ RuleInv
  <1>1. Init => Inv
    <2>1. Init => RuleInv
      BY DEF Init, LoginInit, NoLogin, RuleInv
    <2> QED
      BY <2>1, InstallerStarts, LoginInvInit, OwnInvInit
  <1>2. Inv /\ [Next]_vars => Inv'
    BY InstallerStep, LoginInvStep, OwnInvStep, RuleInvStep DEF InstallerInv
  <1>3. Inv => LoginsDecided
    <2>1. LoginInv => GrantsOnlyApproved
      BY DEF LoginInv, ApprovalTraced, GrantsOnlyApproved
    <2>2. OwnInv /\ RuleInv => OwnPasswordWorks
      BY DEF OwnInv, RuleInv, OwnPasswordWorks, At
    <2> QED
      BY <2>1, <2>2 DEF LoginsDecided
  <1> QED
    BY <1>1, <1>2, <1>3, PTL DEF Spec
=============================================================================
