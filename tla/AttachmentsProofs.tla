------------------------- MODULE AttachmentsProofs --------------------------
(***************************************************************************)
(* For any answers of Claude, any messages and any number of workers: an   *)
(* answer is divided into sends so that each of its files is sent once or  *)
(* reported, every album is one that Telegram takes, and no fetched file   *)
(* is left behind.                                                         *)
(*                                                                         *)
(* The first half is about data: FlattenSeq, the chunks of a group, the    *)
(* members of a group in order, and with them Partition.  The second half  *)
(* is the inductive invariant IInv of the jobs (Sound: a worker has what   *)
(* its next step takes, and the account of its answer is whole).           *)
(***************************************************************************)
EXTENDS Attachments, SequenceTheorems, FunctionTheorems, FiniteSetTheorems,
        WellFoundedInduction, TLAPS

-----------------------------------------------------------------------------
(* Induction, with a set in place of the operator that the library's        *)
(* theorems take.                                                          *)
LEMMA NatOrder == OpToRel(<, Nat) = {ss \in Nat \X Nat : ss[1] < ss[2]}
  BY DEF OpToRel

LEMMA Induction ==
  ASSUME NEW S, 0 \in S, \A n \in Nat : n \in S => n + 1 \in S
  PROVE  \A n \in Nat : n \in S
<1> DEFINE R == {ss \in Nat \X Nat : ss[1] < ss[2]}
           T == {n \in Nat : n \notin S}
<1>1. IsWellFoundedOn(R, Nat)
  <2>1. IsWellFoundedOn(OpToRel(<, Nat), Nat)
    BY NatLessThanWellFounded
  <2> QED BY <2>1, NatOrder
<1>2. CASE T # {}
  <2>1. T \subseteq Nat
    OBVIOUS
  <2>2. PICK m \in T : \A n \in T : ~(<<n, m>> \in R)
    <3> HIDE DEF R, T
    <3> QED BY <1>1, <1>2, <2>1, WFMin
  <2>3. m \in Nat /\ m # 0 /\ m - 1 \in Nat /\ m - 1 + 1 = m
    BY <2>2
  <2>4. m - 1 \notin S
    BY <2>2, <2>3
  <2>5. m - 1 \in T /\ <<m - 1, m>> \in R
    BY <2>3, <2>4
  <2> QED BY <2>2, <2>5
<1> QED BY <1>2

-----------------------------------------------------------------------------
(* FlattenSeq.                                                             *)

\* What the recursion in FlattenSeq defines.
Flattens(f, q) ==
  f = [i \in 1 .. Len(q) |-> IF i = 1 THEN q[i] ELSE f[i - 1] \o q[i]]

LEMMA FlattensUnique ==
  ASSUME NEW q, Len(q) \in Nat, NEW f, Flattens(f, q), NEW g, Flattens(g, q)
  PROVE  f = g
<1> DEFINE S == {i \in Nat : i \in 1 .. Len(q) => f[i] = g[i]}
<1>1. 0 \in S
  OBVIOUS
<1>2. \A i \in 1 .. Len(q) :
        /\ f[i] = IF i = 1 THEN q[i] ELSE f[i - 1] \o q[i]
        /\ g[i] = IF i = 1 THEN q[i] ELSE g[i - 1] \o q[i]
  BY DEF Flattens
<1>3. ASSUME NEW n \in Nat, n \in S PROVE n + 1 \in S
  <2> SUFFICES ASSUME n + 1 \in 1 .. Len(q) PROVE f[n + 1] = g[n + 1]
    OBVIOUS
  <2>1. CASE n = 0
    BY <1>2, <2>1
  <2>2. CASE n # 0
    <3>1. n \in 1 .. Len(q) /\ f[n] = g[n]
      BY <1>3, <2>2
    <3> QED BY <1>2, <2>2, <3>1
  <2> QED BY <2>1, <2>2
<1>4. \A i \in Nat : i \in S
  <2> HIDE DEF S
  <2> QED BY <1>1, <1>3, Induction
<1>5. \A i \in 1 .. Len(q) : f[i] = g[i]
  BY <1>4
<1>6. DOMAIN f = 1 .. Len(q) /\ DOMAIN g = 1 .. Len(q)
     /\ f = [i \in DOMAIN f |-> f[i]] /\ g = [i \in DOMAIN g |-> g[i]]
  BY DEF Flattens
<1> QED BY <1>5, <1>6

LEMMA FlattenIs ==
  ASSUME NEW q, Len(q) \in Nat, Len(q) # 0, NEW f, Flattens(f, q)
  PROVE  SX!FlattenSeq(q) = f[Len(q)]
<1>1. \A g : Flattens(g, q) <=> g = f
  BY FlattensUnique
<1>2. f = CHOOSE g : g = [i \in 1 .. Len(q) |-> IF i = 1 THEN q[i] ELSE g[i - 1] \o q[i]]
  BY <1>1 DEF Flattens
<1> QED BY <1>2 DEF SX!FlattenSeq

LEMMA FlattensExists ==
  ASSUME NEW X
  PROVE  \A q \in Seq(Seq(X)) : \E f \in Seq(Seq(X)) : Flattens(f, q) /\ Len(f) = Len(q)
<1> DEFINE Has(q) == \E f \in Seq(Seq(X)) : Flattens(f, q) /\ Len(f) = Len(q)
           S == {n \in Nat : \A q \in Seq(Seq(X)) : Len(q) = n => Has(q)}
<1>1. 0 \in S
  <2> SUFFICES ASSUME NEW q \in Seq(Seq(X)), Len(q) = 0 PROVE Has(q)
    OBVIOUS
  <2>1. Flattens(<<>>, q) /\ <<>> \in Seq(Seq(X)) /\ Len(<<>>) = 0
    BY DEF Flattens
  <2> QED BY <2>1
<1>2. ASSUME NEW n \in Nat, n \in S PROVE n + 1 \in S
  <2> SUFFICES ASSUME NEW q \in Seq(Seq(X)), Len(q) = n + 1 PROVE Has(q)
    OBVIOUS
  <2> DEFINE front == SubSeq(q, 1, n)
  <2>1. front \in Seq(Seq(X)) /\ Len(front) = n /\ \A i \in 1 .. n : front[i] = q[i]
    BY SubSeqProperties
  <2>2. PICK f \in Seq(Seq(X)) : Flattens(f, front) /\ Len(f) = n
    BY <1>2, <2>1
  <2>3. q[n + 1] \in Seq(X) /\ \A i \in 1 .. n : f[i] \in Seq(X)
    BY <2>2, ElementOfSeq
  <2> DEFINE last == IF n = 0 THEN q[n + 1] ELSE f[n] \o q[n + 1]
             g == Append(f, last)
  <2>4. last \in Seq(X)
    BY <2>3, ConcatProperties
  <2>5. g \in Seq(Seq(X)) /\ Len(g) = n + 1 /\ (\A i \in 1 .. n : g[i] = f[i])
        /\ g[n + 1] = last /\ DOMAIN g = 1 .. n + 1
    <3> HIDE DEF last
    <3> QED BY <2>2, <2>4, AppendProperties, LenProperties
  <2>6. \A i \in 1 .. n : f[i] = IF i = 1 THEN q[i] ELSE f[i - 1] \o q[i]
    BY <2>1, <2>2 DEF Flattens
  <2>7. \A i \in 1 .. n : g[i] = IF i = 1 THEN q[i] ELSE g[i - 1] \o q[i]
    <3> TAKE i \in 1 .. n
    <3>1. CASE i = 1
      BY <2>5, <2>6, <3>1
    <3>2. CASE i # 1
      <4>1. i - 1 \in 1 .. n
        BY <3>2
      <4> QED BY <2>5, <2>6, <3>2, <4>1
    <3> QED BY <3>1, <3>2
  <2>8. g[n + 1] = IF n + 1 = 1 THEN q[n + 1] ELSE g[n] \o q[n + 1]
    BY <2>5
  <2>9. \A i \in 1 .. n + 1 : g[i] = IF i = 1 THEN q[i] ELSE g[i - 1] \o q[i]
    <3> HIDE DEF g
    <3> TAKE i \in 1 .. n + 1
    <3>1. CASE i \in 1 .. n
      BY <2>7, <3>1
    <3>2. CASE i = n + 1
      <4>1. n + 1 - 1 = n
        OBVIOUS
      <4> QED BY <2>8, <3>2, <4>1
    <3> QED BY <3>1, <3>2
  <2>10. Flattens(g, q)
    <3> HIDE DEF g
    <3>1. g = [i \in 1 .. n + 1 |-> g[i]]
      BY <2>5, LenProperties
    <3> QED BY <2>9, <3>1 DEF Flattens
  <2> QED BY <2>5, <2>10
<1>3. \A n \in Nat : n \in S
  <2> HIDE DEF S
  <2> QED BY <1>1, <1>2, Induction
<1> QED BY <1>3

\* FlattenSeq is built up from the end.
LEMMA FlattenEmpty == SX!FlattenSeq(<<>>) = <<>>
  BY DEF SX!FlattenSeq

LEMMA FlattenAppend ==
  ASSUME NEW X, NEW q \in Seq(Seq(X)), NEW x \in Seq(X)
  PROVE  SX!FlattenSeq(Append(q, x)) = SX!FlattenSeq(q) \o x
<1> DEFINE p == Append(q, x)
           n == Len(q)
<1>1. p \in Seq(Seq(X)) /\ Len(p) = n + 1 /\ n \in Nat /\ p[n + 1] = x
      /\ \A i \in 1 .. n : p[i] = q[i]
  BY AppendProperties
<1>2. PICK f \in Seq(Seq(X)) : Flattens(f, p) /\ Len(f) = n + 1
  <2> HIDE DEF p
  <2> QED BY <1>1, FlattensExists
<1>3. \A i \in 1 .. n + 1 : f[i] = IF i = 1 THEN p[i] ELSE f[i - 1] \o p[i]
  <2> HIDE DEF p
  <2> QED BY <1>1, <1>2 DEF Flattens
<1>4. SX!FlattenSeq(p) = f[n + 1]
  <2> HIDE DEF p
  <2> QED BY <1>1, <1>2, FlattenIs
<1>5. CASE n = 0
  <2>1. q = <<>> /\ SX!FlattenSeq(p) = x
    BY <1>1, <1>3, <1>4, <1>5
  <2> QED BY <2>1, FlattenEmpty, ConcatEmptySeq
<1>6. CASE n # 0
  <2>1. PICK h \in Seq(Seq(X)) : Flattens(h, q) /\ Len(h) = n
    BY <1>1, FlattensExists
  <2> DEFINE k == [i \in 1 .. n |-> f[i]]
  <2>2. \A i \in 1 .. n : f[i] = IF i = 1 THEN q[i] ELSE f[i - 1] \o q[i]
    <3> HIDE DEF p
    <3> QED BY <1>1, <1>3
  <2>3. Flattens(k, q)
    <3>1. \A i \in 1 .. n : k[i] = IF i = 1 THEN q[i] ELSE k[i - 1] \o q[i]
      <4> TAKE i \in 1 .. n
      <4>1. i # 1 => i - 1 \in 1 .. n
        BY <1>1
      <4> QED BY <2>2, <4>1
    <3> QED BY <3>1 DEF Flattens
  <2>4. SX!FlattenSeq(q) = k[n] /\ k[n] = f[n]
    <3>1. k[n] = f[n]
      BY <1>1, <1>6
    <3> HIDE DEF k
    <3> QED BY <1>1, <1>6, <2>3, <3>1, FlattenIs
  <2>5. f[n + 1] = f[n] \o x
    <3> HIDE DEF p
    <3>1. ASSUME NEW i, i = n + 1 PROVE f[i] = f[n] \o x
      <4>1. i \in 1 .. n + 1 /\ i # 1 /\ i - 1 = n
        BY <1>1, <1>6, <3>1
      <4>2. f[i] = f[i - 1] \o p[i]
        BY <1>3, <4>1
      <4>3. p[i] = x
        BY <1>1, <3>1
      <4> QED BY <4>1, <4>2, <4>3
    <3> QED BY <3>1
  <2> QED BY <1>4, <2>4, <2>5
<1> QED BY <1>5, <1>6

\* Whatever holds of the empty sequence and is kept by Append holds of all.
LEMMA SeqInduction ==
  ASSUME NEW X, NEW S, <<>> \in S,
         \A s \in Seq(X) : s \in S => \A e \in X : Append(s, e) \in S
  PROVE  \A s \in Seq(X) : s \in S
<1> DEFINE N == {n \in Nat : \A s \in Seq(X) : Len(s) = n => s \in S}
<1>1. 0 \in N
  BY EmptySeq
<1>2. ASSUME NEW n \in Nat, n \in N PROVE n + 1 \in N
  <2> SUFFICES ASSUME NEW s \in Seq(X), Len(s) = n + 1 PROVE s \in S
    OBVIOUS
  <2>1. s # <<>>
    BY EmptySeq
  <2>2. PICK r \in Seq(X), e \in X : s = Append(r, e)
    BY <2>1, SequenceEmptyOrAppend
  <2>3. Len(r) = n
    BY <2>2, AppendProperties, LenProperties
  <2> QED BY <1>2, <2>2, <2>3
<1>3. \A n \in Nat : n \in N
  <2> HIDE DEF N
  <2> QED BY <1>1, <1>2, Induction
<1> QED BY <1>3, LenProperties

LEMMA FlattenType ==
  ASSUME NEW X
  PROVE  \A q \in Seq(Seq(X)) : SX!FlattenSeq(q) \in Seq(X)
<1> DEFINE S == {q \in Seq(Seq(X)) : SX!FlattenSeq(q) \in Seq(X)}
<1>1. <<>> \in S
  BY FlattenEmpty, EmptySeq
<1>2. \A q \in Seq(Seq(X)) : q \in S => \A x \in Seq(X) : Append(q, x) \in S
  BY FlattenAppend, AppendProperties, ConcatProperties
<1>3. \A q \in Seq(Seq(X)) : q \in S
  <2> HIDE DEF S
  <2> QED BY <1>1, <1>2, SeqInduction
<1> QED BY <1>3

LEMMA FlattenOne ==
  ASSUME NEW X, NEW x \in Seq(X)
  PROVE  SX!FlattenSeq(<<x>>) = x
<1>1. <<x>> = Append(<<>>, x) /\ <<>> \in Seq(Seq(X))
  BY EmptySeq
<1>2. SX!FlattenSeq(Append(<<>>, x)) = SX!FlattenSeq(<<>>) \o x
  BY <1>1, FlattenAppend
<1> QED BY <1>1, <1>2, FlattenEmpty, ConcatEmptySeq

LEMMA FlattenConcat ==
  ASSUME NEW X, NEW p \in Seq(Seq(X))
  PROVE  \A q \in Seq(Seq(X)) : SX!FlattenSeq(p \o q) = SX!FlattenSeq(p) \o SX!FlattenSeq(q)
<1> DEFINE S == {q \in Seq(Seq(X)) :
                   SX!FlattenSeq(p \o q) = SX!FlattenSeq(p) \o SX!FlattenSeq(q)}
<1>1. <<>> \in S
  BY FlattenEmpty, FlattenType, EmptySeq, ConcatEmptySeq
<1>2. ASSUME NEW q \in Seq(Seq(X)), q \in S, NEW x \in Seq(X)
      PROVE  Append(q, x) \in S
  <2>1. p \o Append(q, x) = Append(p \o q, x) /\ p \o q \in Seq(Seq(X))
    BY AppendIsConcat, ConcatAssociative, ConcatProperties, <<x>> \in Seq(Seq(X))
  <2>2. SX!FlattenSeq(p \o Append(q, x)) = (SX!FlattenSeq(p) \o SX!FlattenSeq(q)) \o x
    BY <1>2, <2>1, FlattenAppend
  <2>3. SX!FlattenSeq(p) \in Seq(X) /\ SX!FlattenSeq(q) \in Seq(X)
    BY FlattenType
  <2>4. SX!FlattenSeq(p \o Append(q, x)) = SX!FlattenSeq(p) \o (SX!FlattenSeq(q) \o x)
    BY <2>2, <2>3, ConcatAssociative
  <2> QED BY <2>4, FlattenAppend, AppendProperties
<1>3. \A q \in Seq(Seq(X)) : q \in S
  <2> HIDE DEF S
  <2> QED BY <1>1, <1>2, SeqInduction
<1> QED BY <1>3

\* Flattening twice, from the outside or from the inside.
LEMMA FlattenTwice ==
  ASSUME NEW X
  PROVE  \A q \in Seq(Seq(Seq(X))) :
           SX!FlattenSeq(SX!FlattenSeq(q))
             = SX!FlattenSeq([i \in DOMAIN q |-> SX!FlattenSeq(q[i])])
<1> DEFINE In(q) == [i \in DOMAIN q |-> SX!FlattenSeq(q[i])]
           S == {q \in Seq(Seq(Seq(X))) :
                   SX!FlattenSeq(SX!FlattenSeq(q)) = SX!FlattenSeq(In(q))}
<1>1. <<>> \in S
  <2>1. In(<<>>) = <<>>
    OBVIOUS
  <2> HIDE DEF In
  <2> QED BY <2>1, FlattenEmpty, EmptySeq
<1>2. ASSUME NEW q \in Seq(Seq(Seq(X))), q \in S, NEW x \in Seq(Seq(X))
      PROVE  Append(q, x) \in S
  <2> DEFINE p == Append(q, x)
  <2>1. p \in Seq(Seq(Seq(X))) /\ Len(p) = Len(q) + 1 /\ p[Len(q) + 1] = x
        /\ (\A i \in 1 .. Len(q) : p[i] = q[i]) /\ DOMAIN p = 1 .. Len(q) + 1
        /\ DOMAIN q = 1 .. Len(q) /\ Len(q) \in Nat
    BY AppendProperties, LenProperties
  <2>2. In(q) \in Seq(Seq(X)) /\ SX!FlattenSeq(x) \in Seq(X) /\ Len(In(q)) = Len(q)
    <3>1. \A i \in 1 .. Len(q) : q[i] \in Seq(Seq(X))
      BY ElementOfSeq
    <3> QED BY <2>1, <3>1, FlattenType
  <2>3. In(p) \in Seq(Seq(X)) /\ Len(In(p)) = Len(q) + 1
    <3>1. \A i \in 1 .. Len(p) : p[i] \in Seq(Seq(X))
      <4> HIDE DEF p
      <4> QED BY <2>1, ElementOfSeq
    <3> HIDE DEF p
    <3> QED BY <2>1, <3>1, FlattenType
  <2>4. In(p) = Append(In(q), SX!FlattenSeq(x))
    <3>1. \A i \in 1 .. Len(q) + 1 : In(p)[i] = Append(In(q), SX!FlattenSeq(x))[i]
      <4> HIDE DEF p
      <4> TAKE i \in 1 .. Len(q) + 1
      <4>1. CASE i \in 1 .. Len(q)
        <5>1. In(p)[i] = In(q)[i]
          BY <2>1, <4>1
        <5> HIDE DEF In
        <5> QED BY <2>2, <4>1, <5>1, AppendProperties
      <4>2. CASE i = Len(q) + 1
        <5>1. In(p)[i] = SX!FlattenSeq(x)
          BY <2>1, <4>2
        <5> HIDE DEF In
        <5> QED BY <2>2, <4>2, <5>1, AppendProperties
      <4> QED BY <2>1, <4>1, <4>2
    <3>2. Append(In(q), SX!FlattenSeq(x)) \in Seq(Seq(X))
          /\ Len(Append(In(q), SX!FlattenSeq(x))) = Len(q) + 1
      <4> HIDE DEF In
      <4> QED BY <2>2, AppendProperties
    <3> HIDE DEF In, p
    <3> QED BY <2>3, <3>1, <3>2, SeqEqual
  <2>5. SX!FlattenSeq(In(p)) = SX!FlattenSeq(In(q)) \o SX!FlattenSeq(x)
    <3> HIDE DEF In
    <3> QED BY <2>2, <2>4, FlattenAppend
  <2>6. SX!FlattenSeq(q) \in Seq(Seq(X)) /\ SX!FlattenSeq(p) = SX!FlattenSeq(q) \o x
    BY FlattenType, FlattenAppend
  <2>7. SX!FlattenSeq(SX!FlattenSeq(p))
          = SX!FlattenSeq(SX!FlattenSeq(q)) \o SX!FlattenSeq(x)
    BY <2>6, FlattenConcat
  <2>8. SX!FlattenSeq(SX!FlattenSeq(p)) = SX!FlattenSeq(In(p))
    <3> HIDE DEF In
    <3> QED BY <1>2, <2>5, <2>7
  <2>9. p \in S
    <3> HIDE DEF In, p
    <3> QED BY <2>1, <2>8
  <2> QED BY <2>9
<1>3. \A q \in Seq(Seq(Seq(X))) : q \in S
  <2> HIDE DEF S
  <2> QED BY <1>1, <1>2, SeqInduction
<1> QED BY <1>3

-----------------------------------------------------------------------------
(* The elements of sequences, and whether one occurs twice.                *)
LEMMA SetIn ==
  ASSUME NEW X, NEW s \in Seq(X)
  PROVE  SX!ToSet(s) = {s[i] : i \in 1 .. Len(s)} /\ SX!ToSet(s) \subseteq X
  BY LenProperties, ElementOfSeq DEF SX!ToSet

LEMMA ConcatSet ==
  ASSUME NEW X, NEW s \in Seq(X), NEW t \in Seq(X)
  PROVE  SX!ToSet(s \o t) = SX!ToSet(s) \cup SX!ToSet(t)
<1> DEFINE m == Len(s)
           n == Len(t)
           r == s \o t
<1>1. m \in Nat /\ n \in Nat /\ r \in Seq(X) /\ Len(r) = m + n
      /\ \A i \in 1 .. m + n : r[i] = IF i <= m THEN s[i] ELSE t[i - m]
  BY ConcatProperties, LenProperties
<1>2. SX!ToSet(r) = {r[i] : i \in 1 .. m + n}
  BY <1>1, SetIn
<1>3. SX!ToSet(s) = {s[i] : i \in 1 .. m} /\ SX!ToSet(t) = {t[i] : i \in 1 .. n}
  BY SetIn
<1> HIDE DEF m, n, r
<1>4. \A i \in 1 .. m : i \in 1 .. m + n /\ r[i] = s[i]
  BY <1>1
<1>5. \A i \in 1 .. n : i + m \in 1 .. m + n /\ r[i + m] = t[i]
  <2> TAKE i \in 1 .. n
  <2>1. \A k : k = i + m => k \in 1 .. m + n /\ ~(k <= m) /\ k - m = i
    BY <1>1
  <2>2. \A k : k = i + m => r[k] = t[i]
    BY <1>1, <2>1
  <2> QED BY <2>1, <2>2
<1>6. \A i \in 1 .. m + n : i \in 1 .. m \/ i - m \in 1 .. n
  BY <1>1
<1>7. \A i \in 1 .. m + n : r[i] \in {s[k] : k \in 1 .. m} \cup {t[k] : k \in 1 .. n}
  <2> TAKE i \in 1 .. m + n
  <2>1. CASE i <= m
    BY <1>1, <2>1
  <2>2. CASE ~(i <= m)
    <3>1. i - m \in 1 .. n
      BY <1>1, <2>2
    <3> QED BY <1>1, <2>2, <3>1
  <2> QED BY <2>1, <2>2
<1>8. SX!ToSet(r) = SX!ToSet(s) \cup SX!ToSet(t)
  BY <1>2, <1>3, <1>4, <1>5, <1>7
<1> QED BY <1>8 DEF r

LEMMA ConcatInjective ==
  ASSUME NEW X, NEW s \in Seq(X), NEW t \in Seq(X)
  PROVE  SX!IsInjective(s \o t) <=> /\ SX!IsInjective(s) /\ SX!IsInjective(t)
                                    /\ SX!ToSet(s) \cap SX!ToSet(t) = {}
<1> DEFINE m == Len(s)
           n == Len(t)
           r == s \o t
<1>1. m \in Nat /\ n \in Nat /\ r \in Seq(X) /\ DOMAIN r = 1 .. m + n
      /\ DOMAIN s = 1 .. m /\ DOMAIN t = 1 .. n
      /\ \A i \in 1 .. m + n : r[i] = IF i <= m THEN s[i] ELSE t[i - m]
  BY ConcatProperties, LenProperties
<1>2. SX!ToSet(s) = {s[i] : i \in 1 .. m} /\ SX!ToSet(t) = {t[i] : i \in 1 .. n}
  BY SetIn
<1> HIDE DEF m, n, r
<1>3. \A i \in 1 .. m : i \in 1 .. m + n /\ r[i] = s[i]
  BY <1>1
<1>4. ASSUME NEW i \in 1 .. n PROVE \E k \in 1 .. m + n : k = i + m /\ r[k] = t[i]
  <2>1. \A k : k = i + m => k \in 1 .. m + n /\ ~(k <= m) /\ k - m = i
    BY <1>1
  <2>2. \A k : k = i + m => r[k] = t[i]
    BY <1>1, <2>1
  <2> QED BY <2>1, <2>2
<1>5. ASSUME NEW i \in 1 .. m + n, ~(i <= m)
      PROVE  \E k \in 1 .. n : i = k + m /\ r[i] = t[k]
  <2>1. i - m \in 1 .. n /\ i = (i - m) + m
    BY <1>1, <1>5
  <2> QED BY <1>1, <1>5, <2>1
<1>6. ASSUME SX!IsInjective(r)
      PROVE  SX!IsInjective(s) /\ SX!IsInjective(t) /\ SX!ToSet(s) \cap SX!ToSet(t) = {}
  <2>1. \A a, b \in 1 .. m + n : r[a] = r[b] => a = b
    BY <1>1, <1>6 DEF SX!IsInjective
  <2>2. SX!IsInjective(s)
    BY <1>1, <1>3, <2>1 DEF SX!IsInjective
  <2>3. \A a, b \in 1 .. n : t[a] = t[b] => a = b
    <3> TAKE a, b \in 1 .. n
    <3>1. PICK c \in 1 .. m + n : c = a + m /\ r[c] = t[a]
      BY <1>4
    <3>2. PICK d \in 1 .. m + n : d = b + m /\ r[d] = t[b]
      BY <1>4
    <3> QED BY <1>1, <2>1, <3>1, <3>2
  <2>4. \A a \in 1 .. m, b \in 1 .. n : s[a] # t[b]
    <3> TAKE a \in 1 .. m, b \in 1 .. n
    <3>1. PICK d \in 1 .. m + n : d = b + m /\ r[d] = t[b]
      BY <1>4
    <3>2. a # d
      BY <1>1, <3>1
    <3> QED BY <1>3, <2>1, <3>1, <3>2
  <2> QED BY <1>1, <1>2, <2>2, <2>3, <2>4 DEF SX!IsInjective
<1>7. ASSUME SX!IsInjective(s), SX!IsInjective(t), SX!ToSet(s) \cap SX!ToSet(t) = {}
      PROVE  SX!IsInjective(r)
  <2>1. \A a, b \in 1 .. m : s[a] = s[b] => a = b
    BY <1>1, <1>7 DEF SX!IsInjective
  <2>2. \A a, b \in 1 .. n : t[a] = t[b] => a = b
    BY <1>1, <1>7 DEF SX!IsInjective
  <2>3. \A a \in 1 .. m, b \in 1 .. n : s[a] # t[b]
    BY <1>2, <1>7
  <2>4. \A a, b \in 1 .. m + n : r[a] = r[b] => a = b
    <3> TAKE a, b \in 1 .. m + n
    <3>1. (a <= m => a \in 1 .. m /\ r[a] = s[a]) /\ (b <= m => b \in 1 .. m /\ r[b] = s[b])
      BY <1>1
    <3>2. CASE a <= m /\ b <= m
      BY <2>1, <3>1, <3>2
    <3>3. CASE a <= m /\ ~(b <= m)
      BY <1>5, <2>3, <3>1, <3>3
    <3>4. CASE ~(a <= m) /\ b <= m
      BY <1>5, <2>3, <3>1, <3>4
    <3>5. CASE ~(a <= m) /\ ~(b <= m)
      BY <1>5, <2>2, <3>5
    <3> QED BY <3>2, <3>3, <3>4, <3>5
  <2> QED BY <1>1, <2>4 DEF SX!IsInjective
<1> QED BY <1>6, <1>7 DEF r

LEMMA FlattenSet ==
  ASSUME NEW X
  PROVE  \A q \in Seq(Seq(X)) :
           SX!ToSet(SX!FlattenSeq(q)) = UNION {SX!ToSet(q[i]) : i \in DOMAIN q}
<1> DEFINE All(q) == UNION {SX!ToSet(q[i]) : i \in DOMAIN q}
           S == {q \in Seq(Seq(X)) : SX!ToSet(SX!FlattenSeq(q)) = All(q)}
<1>1. <<>> \in S
  <2>1. All(<<>>) = {} /\ SX!ToSet(<<>>) = {}
    BY DEF SX!ToSet
  <2> HIDE DEF All
  <2> QED BY <2>1, FlattenEmpty, EmptySeq
<1>2. ASSUME NEW q \in Seq(Seq(X)), q \in S, NEW x \in Seq(X)
      PROVE  Append(q, x) \in S
  <2> DEFINE p == Append(q, x)
             n == Len(q)
  <2>1. p \in Seq(Seq(X)) /\ p[n + 1] = x /\ (\A i \in 1 .. n : p[i] = q[i])
        /\ DOMAIN p = 1 .. n + 1 /\ DOMAIN q = 1 .. n /\ n \in Nat
    BY AppendProperties, LenProperties
  <2>2. SX!ToSet(SX!FlattenSeq(p)) = SX!ToSet(SX!FlattenSeq(q)) \cup SX!ToSet(x)
    <3>1. SX!FlattenSeq(p) = SX!FlattenSeq(q) \o x /\ SX!FlattenSeq(q) \in Seq(X)
      BY FlattenAppend, FlattenType
    <3> QED BY <3>1, ConcatSet
  <2>3. All(p) = All(q) \cup SX!ToSet(x)
    <3> HIDE DEF p, n
    <3>1. \A i : i \in 1 .. n + 1 <=> i \in 1 .. n \/ i = n + 1
      BY <2>1
    <3> QED BY <2>1, <3>1
  <2>4. p \in S
    <3> HIDE DEF p, All
    <3> QED BY <1>2, <2>1, <2>2, <2>3
  <2> QED BY <2>4
<1>3. \A q \in Seq(Seq(X)) : q \in S
  <2> HIDE DEF S
  <2> QED BY <1>1, <1>2, SeqInduction
<1> QED BY <1>3

LEMMA FlattenInjective ==
  ASSUME NEW X
  PROVE  \A q \in Seq(Seq(X)) :
           /\ \A i \in DOMAIN q : SX!IsInjective(q[i])
           /\ \A i, j \in DOMAIN q : i # j => SX!ToSet(q[i]) \cap SX!ToSet(q[j]) = {}
           => SX!IsInjective(SX!FlattenSeq(q))
<1> DEFINE Apart(q) ==
             /\ \A i \in DOMAIN q : SX!IsInjective(q[i])
             /\ \A i, j \in DOMAIN q : i # j => SX!ToSet(q[i]) \cap SX!ToSet(q[j]) = {}
           S == {q \in Seq(Seq(X)) : Apart(q) => SX!IsInjective(SX!FlattenSeq(q))}
<1>1. <<>> \in S
  <2>1. SX!IsInjective(<<>>)
    BY DEF SX!IsInjective
  <2> QED BY <2>1, FlattenEmpty, EmptySeq
<1>2. ASSUME NEW q \in Seq(Seq(X)), q \in S, NEW x \in Seq(X)
      PROVE  Append(q, x) \in S
  <2> DEFINE p == Append(q, x)
             n == Len(q)
  <2>1. p \in Seq(Seq(X)) /\ p[n + 1] = x /\ (\A i \in 1 .. n : p[i] = q[i])
        /\ DOMAIN p = 1 .. n + 1 /\ DOMAIN q = 1 .. n /\ n \in Nat
    BY AppendProperties, LenProperties
  <2>2. ASSUME Apart(p) PROVE SX!IsInjective(SX!FlattenSeq(p))
    <3>0. n + 1 \in 1 .. n + 1 /\ \A i \in 1 .. n : i \in 1 .. n + 1 /\ i # n + 1
      BY <2>1
    <3>1. Apart(q) /\ SX!IsInjective(x) /\ \A i \in 1 .. n : SX!ToSet(q[i]) \cap SX!ToSet(x) = {}
      <4> HIDE DEF p, n
      <4> QED BY <2>1, <2>2, <3>0
    <3>2. SX!ToSet(SX!FlattenSeq(q)) \cap SX!ToSet(x) = {}
      <4>1. SX!ToSet(SX!FlattenSeq(q)) = UNION {SX!ToSet(q[i]) : i \in DOMAIN q}
        BY FlattenSet
      <4> HIDE DEF n
      <4> QED BY <2>1, <3>1, <4>1
    <3>3. SX!FlattenSeq(p) = SX!FlattenSeq(q) \o x /\ SX!FlattenSeq(q) \in Seq(X)
      BY FlattenAppend, FlattenType
    <3>4. SX!IsInjective(SX!FlattenSeq(q))
      <4> HIDE DEF Apart
      <4> QED BY <1>2, <3>1
    <3> QED BY <3>1, <3>2, <3>3, <3>4, ConcatInjective
  <2>3. p \in S
    <3> HIDE DEF p, Apart
    <3> QED BY <2>1, <2>2
  <2> QED BY <2>3
<1>3. \A q \in Seq(Seq(X)) : q \in S
  <2> HIDE DEF S
  <2> QED BY <1>1, <1>2, SeqInduction
<1> QED BY <1>3

-----------------------------------------------------------------------------
(* The sends of an answer.                                                 *)
LEMMA FlattenSingly ==
  ASSUME NEW X
  PROVE  \A s \in Seq(X) : SX!FlattenSeq(Singly(s)) = s
<1> DEFINE S == {s \in Seq(X) : SX!FlattenSeq(Singly(s)) = s}
<1>1. <<>> \in S
  <2>1. Singly(<<>>) = <<>>
    BY DEF Singly
  <2> QED BY <2>1, FlattenEmpty, EmptySeq
<1>2. ASSUME NEW s \in Seq(X), s \in S, NEW x \in X
      PROVE  Append(s, x) \in S
  <2> DEFINE r == Append(s, x)
             n == Len(s)
  <2>1. r \in Seq(X) /\ r[n + 1] = x /\ (\A i \in 1 .. n : r[i] = s[i])
        /\ DOMAIN r = 1 .. n + 1 /\ DOMAIN s = 1 .. n /\ n \in Nat
        /\ \A i \in 1 .. n : s[i] \in X
    BY AppendProperties, LenProperties, ElementOfSeq
  <2>2. Singly(s) \in Seq(Seq(X)) /\ Len(Singly(s)) = n /\ <<x>> \in Seq(X)
        /\ \A i \in 1 .. n : Singly(s)[i] = <<s[i]>>
    <3> HIDE DEF n
    <3> QED BY <2>1 DEF Singly
  <2>3. Singly(r) \in Seq(Seq(X)) /\ Len(Singly(r)) = n + 1
        /\ \A i \in 1 .. n + 1 : Singly(r)[i] = <<r[i]>>
    <3>1. \A i \in 1 .. n + 1 : r[i] \in X
      <4> HIDE DEF r
      <4> QED BY <2>1, ElementOfSeq, LenProperties
    <3> HIDE DEF r, n
    <3> QED BY <2>1, <3>1 DEF Singly
  <2>4. Singly(r) = Append(Singly(s), <<x>>)
    <3>1. Append(Singly(s), <<x>>) \in Seq(Seq(X)) /\ Len(Append(Singly(s), <<x>>)) = n + 1
          /\ Append(Singly(s), <<x>>)[n + 1] = <<x>>
          /\ \A i \in 1 .. n : Append(Singly(s), <<x>>)[i] = <<s[i]>>
      <4> HIDE DEF n
      <4> QED BY <2>2, AppendProperties
    <3>2. \A i \in 1 .. n + 1 : Singly(r)[i] = Append(Singly(s), <<x>>)[i]
      <4> HIDE DEF r, n
      <4> TAKE i \in 1 .. n + 1
      <4>1. i \in 1 .. n \/ i = n + 1
        BY <2>1
      <4> QED BY <2>1, <2>3, <3>1, <4>1
    <3> HIDE DEF r, n
    <3> QED BY <2>3, <3>1, <3>2, SeqEqual
  <2>5. SX!FlattenSeq(Singly(r)) = s \o <<x>>
    BY <1>2, <2>2, <2>4, FlattenAppend
  <2>6. r \in S
    <3> HIDE DEF r
    <3> QED BY <2>1, <2>5, AppendIsConcat DEF r
  <2> QED BY <2>6
<1>3. \A s \in Seq(X) : s \in S
  <2> HIDE DEF S
  <2> QED BY <1>1, <1>2, SeqInduction
<1> QED BY <1>3

\* How many chunks there are.
LEMMA ChunkCount ==
  ASSUME NEW n \in Nat, NEW g \in Nat \ {0}
  PROVE  LET k == (n + g - 1) \div g
         IN  k \in Nat /\ n <= k * g /\ k * g < n + g
  OBVIOUS

LEMMA ChunkBefore ==
  ASSUME NEW c \in Nat, NEW k \in Nat, NEW g \in Nat \ {0}, c < k
  PROVE  c * g \in Nat /\ c * g + g <= k * g
<1>1. (k - c - 1) * g >= 0 /\ (k - c - 1) * g = k * g - c * g - g
  OBVIOUS
<1> QED BY <1>1

LEMMA ChunkBounds ==
  ASSUME NEW n \in Nat, NEW c \in 1 .. (n + GroupMax - 1) \div GroupMax
  PROVE  LET end == IF c * GroupMax < n THEN c * GroupMax ELSE n
         IN  /\ (c - 1) * GroupMax \in 0 .. n - 1
             /\ c * GroupMax = (c - 1) * GroupMax + GroupMax
             /\ end \in (c - 1) * GroupMax + 1 .. n
             /\ end - (c - 1) * GroupMax \in 1 .. GroupMax
<1> DEFINE k == (n + GroupMax - 1) \div GroupMax
<1>1. GroupMax \in Nat \ {0}
  BY AttachmentsAssumption
<1>2. k \in Nat /\ n <= k * GroupMax /\ k * GroupMax < n + GroupMax
  BY <1>1, ChunkCount
<1> HIDE DEF k
<1>3. c \in Nat /\ c - 1 \in Nat /\ c - 1 < k
  BY <1>2 DEF k
<1>4. (c - 1) * GroupMax \in Nat /\ (c - 1) * GroupMax + GroupMax <= k * GroupMax
  BY <1>1, <1>2, <1>3, ChunkBefore
<1>5. c * GroupMax = (c - 1) * GroupMax + GroupMax
  BY <1>1, <1>3
<1> QED BY <1>1, <1>2, <1>4, <1>5

LEMMA ChunkTypes ==
  ASSUME NEW X, NEW s \in Seq(X)
  PROVE  /\ Chunks(s) \in Seq(Seq(X))
         /\ Len(Chunks(s)) = (Len(s) + GroupMax - 1) \div GroupMax
         /\ \A c \in DOMAIN Chunks(s) :
              /\ Len(Chunks(s)[c]) \in 1 .. GroupMax
              /\ SX!ToSet(Chunks(s)[c]) \subseteq SX!ToSet(s)
<1> DEFINE n == Len(s)
           k == (n + GroupMax - 1) \div GroupMax
           End(c) == IF c * GroupMax < n THEN c * GroupMax ELSE n
           Chunk(c) == SubSeq(s, (c - 1) * GroupMax + 1, End(c))
<1>1. GroupMax \in Nat \ {0} /\ n \in Nat /\ s \in [1 .. n -> X]
  BY AttachmentsAssumption, LenProperties
<1>2. k \in Nat
  BY <1>1, ChunkCount
<1>3. ASSUME NEW c \in 1 .. k
      PROVE  /\ Chunk(c) \in Seq(X) /\ Len(Chunk(c)) \in 1 .. GroupMax
             /\ SX!ToSet(Chunk(c)) \subseteq SX!ToSet(s)
  <2> DEFINE a == (c - 1) * GroupMax
             e == End(c)
  <2>1. a \in 0 .. n - 1 /\ e \in a + 1 .. n /\ e - a \in 1 .. GroupMax
    BY <1>1, ChunkBounds
  <2> HIDE DEF a, e
  <2>2. a + 1 \in Int /\ e \in Int /\ \A i \in a + 1 .. e : s[i] \in X /\ i \in 1 .. n
    BY <1>1, <2>1
  <2>3. SubSeq(s, a + 1, e) \in Seq(X) /\ Len(SubSeq(s, a + 1, e)) = e - a
        /\ \A i \in 1 .. e - a : SubSeq(s, a + 1, e)[i] = s[a + i]
    BY <2>1, <2>2, SubSeqProperties
  <2>4. \A i \in 1 .. e - a : a + i \in 1 .. n
    BY <1>1, <2>1
  <2>5. SX!ToSet(s) = {s[i] : i \in 1 .. n}
        /\ SX!ToSet(SubSeq(s, a + 1, e)) = {SubSeq(s, a + 1, e)[i] : i \in 1 .. e - a}
    <3> DEFINE r == SubSeq(s, a + 1, e)
    <3>1. SX!ToSet(s) = {s[i] : i \in 1 .. n}
      BY SetIn
    <3>2. r \in Seq(X) /\ Len(r) = e - a
      BY <2>3
    <3>3. SX!ToSet(r) = {r[i] : i \in 1 .. e - a}
      <4> HIDE DEF r
      <4> QED BY <3>2, SetIn
    <3> QED BY <3>1, <3>3
  <2>6. SX!ToSet(SubSeq(s, a + 1, e)) \subseteq SX!ToSet(s)
    BY <2>3, <2>4, <2>5
  <2> QED BY <2>1, <2>3, <2>6 DEF a, e
<1>4. Chunks(s) = [c \in 1 .. k |-> Chunk(c)]
  BY DEF Chunks
<1> HIDE DEF k, Chunk, n
<1>5. Chunks(s) \in Seq(Seq(X)) /\ Len(Chunks(s)) = k /\ DOMAIN Chunks(s) = 1 .. k
  BY <1>2, <1>3, <1>4
<1>6. \A c \in 1 .. k : Chunks(s)[c] = Chunk(c)
  BY <1>4
<1> QED BY <1>3, <1>5, <1>6 DEF k, n

LEMMA FlattenChunks ==
  ASSUME NEW X, NEW s \in Seq(X)
  PROVE  SX!FlattenSeq(Chunks(s)) = s
<1> DEFINE n == Len(s)
           k == (n + GroupMax - 1) \div GroupMax
           End(c) == IF c * GroupMax < n THEN c * GroupMax ELSE n
           Chunk(c) == SubSeq(s, (c - 1) * GroupMax + 1, End(c))
           First(m) == [c \in 1 .. m |-> Chunk(c)]
           S == {m \in Nat : m <= k => SX!FlattenSeq(First(m)) = SubSeq(s, 1, End(m))}
<1>1. GroupMax \in Nat \ {0} /\ n \in Nat
  BY AttachmentsAssumption, LenProperties
<1>2. k \in Nat /\ n <= k * GroupMax
  BY <1>1, ChunkCount
<1>3. Chunks(s) = First(k) /\ \A c \in 1 .. k : Chunk(c) \in Seq(X)
  <2>1. Chunks(s) = First(k)
    BY DEF Chunks
  <2>2. \A c \in 1 .. k : Chunk(c) = Chunks(s)[c]
    BY <2>1
  <2>3. Chunks(s) \in Seq(Seq(X)) /\ DOMAIN Chunks(s) = 1 .. k
    BY <2>1, ChunkTypes
  <2>4. \A c \in 1 .. k : Chunks(s)[c] \in Seq(X)
    BY <2>3, ElementOfSeq, LenProperties
  <2> HIDE DEF Chunk, First, k
  <2> QED BY <2>1, <2>2, <2>4
<1>4. 0 \in S
  <2>1. First(0) = <<>> /\ End(0) = 0
    BY <1>1
  <2>2. SubSeq(s, 1, 0) = <<>>
    BY SubSeqEmpty
  <2>3. SX!FlattenSeq(First(0)) = SubSeq(s, 1, End(0))
    <3> HIDE DEF First, End
    <3> QED BY <2>1, <2>2, FlattenEmpty
  <2> HIDE DEF First, End
  <2> QED BY <2>3
<1>5. ASSUME NEW m \in Nat, m \in S PROVE m + 1 \in S
  <2>1. ASSUME m + 1 <= k
        PROVE  SX!FlattenSeq(First(m + 1)) = SubSeq(s, 1, End(m + 1))
    <3> DEFINE c == m + 1
               e == End(c)
    <3>1. c \in 1 .. k /\ c - 1 = m
      BY <1>2, <2>1
    <3>2. m * GroupMax \in 0 .. n - 1 /\ e \in m * GroupMax + 1 .. n
      <4>1. (c - 1) * GroupMax \in 0 .. n - 1 /\ e \in (c - 1) * GroupMax + 1 .. n
        <5> HIDE DEF c
        <5> QED BY <1>1, <3>1, ChunkBounds
      <4> HIDE DEF c, e
      <4> QED BY <3>1, <4>1
    <3>3. End(m) = m * GroupMax
      BY <1>1, <3>2
    <3>4. Chunk(c) = SubSeq(s, m * GroupMax + 1, e) /\ Chunk(c) \in Seq(X)
      <4>1. Chunk(c) \in Seq(X)
        <5> HIDE DEF Chunk, c
        <5> QED BY <1>3, <3>1
      <4> QED BY <3>1, <4>1
    <3>5. First(m) \in Seq(Seq(X)) /\ Len(First(m)) = m /\ First(c) \in Seq(Seq(X))
          /\ Len(First(c)) = c
      <4> HIDE DEF Chunk, k
      <4> QED BY <1>2, <1>3, <3>1
    <3>6. First(c) = Append(First(m), Chunk(c))
      <4>1. Append(First(m), Chunk(c)) \in Seq(Seq(X))
            /\ Len(Append(First(m), Chunk(c))) = c
            /\ Append(First(m), Chunk(c))[c] = Chunk(c)
            /\ \A i \in 1 .. m : Append(First(m), Chunk(c))[i] = First(m)[i]
        <5> HIDE DEF First, Chunk
        <5> QED BY <3>4, <3>5, AppendProperties
      <4>2. \A i \in 1 .. c : First(c)[i] = Append(First(m), Chunk(c))[i]
        <5> HIDE DEF Chunk
        <5> TAKE i \in 1 .. c
        <5>1. First(c)[i] = Chunk(i)
          OBVIOUS
        <5>2. i \in 1 .. m => First(m)[i] = Chunk(i)
          OBVIOUS
        <5>3. i \in 1 .. m \/ i = c
          OBVIOUS
        <5> HIDE DEF First, c
        <5> QED BY <4>1, <5>1, <5>2, <5>3
      <4> HIDE DEF First, Chunk, c
      <4> QED BY <3>5, <4>1, <4>2, SeqEqual
    <3>7. SX!FlattenSeq(First(c)) = SubSeq(s, 1, m * GroupMax) \o SubSeq(s, m * GroupMax + 1, e)
      <4>1. SX!FlattenSeq(First(m)) = SubSeq(s, 1, m * GroupMax)
        <5>1. m <= k
          BY <1>2, <2>1
        <5> HIDE DEF First, End, k
        <5> QED BY <1>5, <3>3, <5>1
      <4>2. SX!FlattenSeq(Append(First(m), Chunk(c))) = SX!FlattenSeq(First(m)) \o Chunk(c)
        <5> HIDE DEF First, Chunk, c
        <5> QED BY <3>4, <3>5, FlattenAppend
      <4> HIDE DEF First, Chunk, c, e
      <4> QED BY <3>4, <3>6, <4>1, <4>2
    <3>8. SubSeq(s, 1, m * GroupMax) \o SubSeq(s, m * GroupMax + 1, e) = SubSeq(s, 1, e)
      <4>1. 1 \in 1 .. Len(s) + 1 /\ m * GroupMax \in 1 - 1 .. Len(s)
            /\ e \in m * GroupMax .. Len(s)
        <5> HIDE DEF e
        <5> QED BY <1>1, <3>2
      <4> HIDE DEF e
      <4> QED BY <4>1, ConcatAdjacentSubSeq
    <3> HIDE DEF First, End
    <3> QED BY <3>7, <3>8
  <2> HIDE DEF First, End, k
  <2> QED BY <2>1
<1>6. \A m \in Nat : m \in S
  <2> HIDE DEF S
  <2> QED BY <1>4, <1>5, Induction
<1>7. End(k) = n
  <2> HIDE DEF k
  <2> QED BY <1>1, <1>2
<1>8. SX!FlattenSeq(First(k)) = SubSeq(s, 1, n)
  <2> HIDE DEF First, k, End
  <2> QED BY <1>2, <1>6, <1>7
<1> HIDE DEF First, k
<1> QED BY <1>3, <1>8, SubSeqFull

\* A finite set of numbers can be put in order.
Increasing(order) == \A m, n \in DOMAIN order : m < n => order[m] < order[n]

LEMMA OrderExists ==
  \A n \in Nat : \A S \in SUBSET (1 .. n) : \E order \in SX!SetToSeqs(S) : Increasing(order)
<1> DEFINE Has(S) == \E order \in SX!SetToSeqs(S) : Increasing(order)
           N == {n \in Nat : \A S \in SUBSET (1 .. n) : Has(S)}
<1>0. \A S : SX!SetToSeqs(S) = {f \in [1 .. Cardinality(S) -> S] :
                                 \A i, j \in 1 .. Cardinality(S) : i # j => f[i] # f[j]}
  BY DEF SX!SetToSeqs, SX!Cardinality, Cardinality
<1>1. 0 \in N
  <2>1. Cardinality({}) = 0 /\ SUBSET (1 .. 0) = {{}}
    BY FS_EmptySet
  <2>2. <<>> \in SX!SetToSeqs({}) /\ Increasing(<<>>)
    <3>1. <<>> \in [1 .. 0 -> {}]
      OBVIOUS
    <3> QED BY <1>0, <2>1, <3>1 DEF Increasing
  <2> QED BY <2>1, <2>2
<1>2. ASSUME NEW n \in Nat, n \in N PROVE n + 1 \in N
  <2> SUFFICES ASSUME NEW S \in SUBSET (1 .. n + 1) PROVE Has(S)
    OBVIOUS
  <2>1. CASE n + 1 \notin S
    <3>1. S \in SUBSET (1 .. n)
      BY <2>1
    <3> HIDE DEF Has
    <3> QED BY <1>2, <3>1
  <2>2. CASE n + 1 \in S
    <3> DEFINE R == S \ {n + 1}
               k == Cardinality(R)
    <3>1. R \in SUBSET (1 .. n) /\ R \subseteq S
      OBVIOUS
    <3>2. IsFiniteSet(S) /\ IsFiniteSet(R)
      <4>1. IsFiniteSet(1 .. n + 1) /\ IsFiniteSet(1 .. n)
        BY FS_Interval
      <4> HIDE DEF R
      <4> QED BY <3>1, <4>1, FS_Subset
    <3>3. k \in Nat /\ Cardinality(S) = k + 1
      BY <2>2, <3>2, FS_RemoveElement, FS_CardinalityType
    <3>4. PICK order \in SX!SetToSeqs(R) : Increasing(order)
      BY <1>2, <3>1
    <3> HIDE DEF R, k
    <3>5. order \in [1 .. k -> R] /\ \A i, j \in 1 .. k : i # j => order[i] # order[j]
      BY <1>0 DEF k
    <3>6. \A i \in 1 .. k : order[i] \in R /\ order[i] \in S /\ order[i] < n + 1
      <4>1. \A j \in R : j \in S /\ j < n + 1
        BY <3>1
      <4> QED BY <3>5, <4>1
    <3> DEFINE more == [i \in 1 .. k + 1 |-> IF i = k + 1 THEN n + 1 ELSE order[i]]
    <3>7. \A i \in 1 .. k : more[i] = order[i] /\ i # k + 1
      BY <3>3
    <3>8. more[k + 1] = n + 1
      BY <3>3
    <3>9. \A i \in 1 .. k + 1 : more[i] \in S
      BY <2>2, <3>3, <3>6
    <3>10. more \in [1 .. k + 1 -> S] /\ DOMAIN more = 1 .. k + 1
      BY <3>9
    <3> HIDE DEF more
    <3>11. \A i \in 1 .. k + 1 : i \in 1 .. k \/ i = k + 1
      BY <3>3
    <3>12. \A i, j \in 1 .. k + 1 : i # j => more[i] # more[j]
      BY <3>5, <3>6, <3>7, <3>8, <3>11
    <3>13. \A i, j \in 1 .. k + 1 : i < j => more[i] < more[j]
      <4> TAKE i, j \in 1 .. k + 1
      <4> HAVE i < j
      <4>1. i \in 1 .. k
        BY <3>3
      <4>2. CASE j = k + 1
        BY <3>6, <3>7, <3>8, <4>1, <4>2
      <4>3. CASE j \in 1 .. k
        BY <3>4, <3>5, <3>7, <4>1, <4>3 DEF Increasing
      <4> QED BY <3>11, <4>2, <4>3
    <3> QED BY <1>0, <3>3, <3>10, <3>12, <3>13 DEF Increasing
  <2> QED BY <2>1, <2>2
<1>3. \A n \in Nat : n \in N
  <2> HIDE DEF N
  <2> QED BY <1>1, <1>2, Induction
<1> QED BY <1>3

\* The group of a file of an answer, in order, each member once.
LEMMA MembersAre ==
  ASSUME NEW answer \in Answers, NEW i \in DOMAIN answer
  PROVE  LET group == {j \in DOMAIN answer : answer[j].group = answer[i].group}
             members == Members(answer, answer[i].group)
         IN  /\ members \in Seq(DOMAIN answer) /\ members # <<>>
             /\ SX!IsInjective(members) /\ SX!ToSet(members) = group
             /\ Head(members) \in group
<1> DEFINE group == {j \in DOMAIN answer : answer[j].group = answer[i].group}
           members == Members(answer, answer[i].group)
           k == Cardinality(group)
<1>1. Len(answer) \in Nat /\ DOMAIN answer = 1 .. Len(answer)
  BY AttachmentsAssumption, LenProperties
<1>2. group \in SUBSET (1 .. Len(answer))
  BY <1>1
<1>3. members \in SX!SetToSeqs(group)
  <2>1. \E order \in SX!SetToSeqs(group) : Increasing(order)
    <3> HIDE DEF group
    <3> QED BY <1>1, <1>2, OrderExists
  <2>2. members = CHOOSE order \in SX!SetToSeqs(group) : Increasing(order)
    BY DEF Members, Increasing
  <2> HIDE DEF group, members
  <2> QED BY <2>1, <2>2
<1>4. members \in [1 .. k -> group] /\ \A a, b \in 1 .. k : a # b => members[a] # members[b]
  BY <1>3 DEF SX!SetToSeqs, SX!Cardinality, Cardinality
<1>5. i \in group /\ group \subseteq DOMAIN answer
  OBVIOUS
<1>6. IsFiniteSet(group) /\ k \in Nat
  <2>1. IsFiniteSet(1 .. Len(answer))
    BY <1>1, FS_Interval
  <2> HIDE DEF group
  <2>2. IsFiniteSet(group)
    BY <1>2, <2>1, FS_Subset
  <2> QED BY <2>2, FS_CardinalityType
<1> HIDE DEF group, members
<1>7. IsFiniteSet(1 .. k) /\ Cardinality(1 .. k) = k
  <2> HIDE DEF k
  <2> QED BY <1>6, FS_Interval
<1>8. members \in Surjection(1 .. k, group)
  <2>1. members \in Injection(1 .. k, group)
    BY <1>4 DEF Injection, IsInjective
  <2> QED BY <1>6, <1>7, <2>1, FS_Injection
<1>9. \A j \in group : \E a \in 1 .. k : members[a] = j
  BY <1>8 DEF Surjection
<1>10. k # 0
  BY <1>5, <1>6, <1>9
<1> HIDE DEF k
<1>11. members \in Seq(group) /\ Len(members) = k /\ DOMAIN members = 1 .. k
  BY <1>4, <1>6
<1>12. members \in Seq(DOMAIN answer)
  BY <1>5, <1>11, SeqMonotonic
<1>13. SX!ToSet(members) = group
  <2>1. SX!ToSet(members) = {members[a] : a \in 1 .. k}
    BY <1>11, SetIn
  <2> QED BY <1>4, <1>9, <2>1
<1>14. SX!IsInjective(members)
  BY <1>4, <1>11 DEF SX!IsInjective
<1>15. members # <<>> /\ Head(members) \in group
  BY <1>10, <1>11, EmptySeq, HeadTailProperties
<1> QED BY <1>12, <1>13, <1>14, <1>15 DEF group, members

LEMMA TwoOfASet ==
  ASSUME NEW S, IsFiniteSet(S), ~(Cardinality(S) > 1), NEW x \in S, NEW y \in S
  PROVE  x = y
<1> SUFFICES ASSUME x # y PROVE FALSE
  OBVIOUS
<1>1. IsFiniteSet({x}) /\ Cardinality({x}) = 1
  BY FS_Singleton
<1>2. Cardinality({x} \cup {y}) = 2
  BY <1>1, FS_AddElement
<1>3. {x} \cup {y} \in SUBSET S
  OBVIOUS
<1>4. Cardinality({x} \cup {y}) <= Cardinality(S)
  BY <1>3, FS_Subset
<1>5. Cardinality(S) \in Nat
  BY FS_CardinalityType
<1> QED BY <1>2, <1>4, <1>5

\* What sendMediaGroup takes, or a single send.
Acceptable(answer, album) ==
  Len(album) # 1 =>
    /\ Len(album) \in 2 .. GroupMax
    /\ \E kind \in {"visual", "document", "audio"} :
         \A m \in DOMAIN album : GroupKind(answer[album[m]].kind) = kind

LEMMA PlanIsAcceptable ==
  ASSUME NEW answer, NEW members \in Seq(DOMAIN answer)
  PROVE  /\ Plan(answer, members) \in Seq(Seq(DOMAIN answer))
         /\ SX!FlattenSeq(Plan(answer, members)) = members
         /\ \A c \in DOMAIN Plan(answer, members) : Acceptable(answer, Plan(answer, members)[c])
<1> DEFINE D == DOMAIN answer
           n == Len(members)
           kinds == {GroupKind(answer[i].kind) : i \in SX!ToSet(members)}
           alone == n < 2 \/ Cardinality(kinds) > 1 \/ None \in kinds
           plan == Plan(answer, members)
<1>1. n \in Nat /\ DOMAIN members = 1 .. n /\ \A a \in 1 .. n : members[a] \in D
  BY LenProperties, ElementOfSeq
<1>2. plan = IF alone THEN Singly(members) ELSE Chunks(members)
  BY DEF Plan
<1> HIDE DEF plan
<1>3. CASE alone
  <2>1. plan = Singly(members) /\ Singly(members) = [i \in 1 .. n |-> <<members[i]>>]
    BY <1>1, <1>2, <1>3 DEF Singly
  <2>2. plan \in Seq(Seq(D)) /\ DOMAIN plan = 1 .. n
        /\ \A i \in 1 .. n : plan[i] = <<members[i]>>
    <3> HIDE DEF D, n, alone
    <3> QED BY <1>1, <2>1
  <2>3. \A i \in DOMAIN plan : Acceptable(answer, plan[i])
    <3> TAKE i \in DOMAIN plan
    <3>1. plan[i] = <<members[i]>>
      BY <2>2
    <3>2. Len(<<members[i]>>) = 1
      OBVIOUS
    <3> QED BY <3>1, <3>2 DEF Acceptable
  <2>4. SX!FlattenSeq(plan) = members
    BY <2>1, FlattenSingly
  <2> QED BY <2>2, <2>3, <2>4 DEF plan
<1>4. CASE ~alone
  <2>1. plan = Chunks(members)
    BY <1>2, <1>4
  <2>2. /\ plan \in Seq(Seq(D))
        /\ \A c \in DOMAIN plan : /\ Len(plan[c]) \in 1 .. GroupMax
                                  /\ SX!ToSet(plan[c]) \subseteq SX!ToSet(members)
    BY <2>1, ChunkTypes
  <2>3. IsFiniteSet(kinds)
    <3> DEFINE f == [a \in 1 .. n |-> GroupKind(answer[members[a]].kind)]
    <3>1. SX!ToSet(members) = {members[a] : a \in 1 .. n}
      BY SetIn
    <3>2. \A a \in 1 .. n : f[a] \in kinds
      BY <3>1
    <3>3. \A x \in kinds : \E a \in 1 .. n : f[a] = x
      BY <3>1
    <3>4. f \in [1 .. n -> kinds]
      BY <3>2
    <3>5. f \in Surjection(1 .. n, kinds)
      <4> HIDE DEF f, kinds, n
      <4> QED BY <3>3, <3>4 DEF Surjection
    <3>6. IsFiniteSet(1 .. n)
      BY <1>1, FS_Interval
    <3> HIDE DEF f, kinds, n
    <3> QED BY <3>5, <3>6, FS_Surjection
  <2>4. \A x, y \in kinds : x = y
    <3>1. ~(Cardinality(kinds) > 1)
      BY <1>4
    <3> HIDE DEF kinds
    <3> QED BY <2>3, <3>1, TwoOfASet
  <2>5. \A x \in kinds : x \in {"visual", "document", "audio"}
    <3>1. None \notin kinds
      BY <1>4
    <3>2. \A kind : GroupKind(kind) \in {"visual", "document", "audio"} \cup {None}
      BY DEF GroupKind
    <3> QED BY <3>1, <3>2
  <2>6. ASSUME NEW c \in DOMAIN plan PROVE Acceptable(answer, plan[c])
    <3>1. Len(plan[c]) \in 1 .. GroupMax /\ SX!ToSet(plan[c]) \subseteq SX!ToSet(members)
      BY <2>2
    <3>2. plan[c] \in Seq(D)
      BY <2>2, ElementOfSeq, LenProperties
    <3>3. \A m \in DOMAIN plan[c] : GroupKind(answer[plan[c][m]].kind) \in kinds
      BY <3>1 DEF SX!ToSet
    <3>4. PICK m \in DOMAIN plan[c] : TRUE
      <4>1. 1 \in DOMAIN plan[c]
        BY <3>1, <3>2, LenProperties, AttachmentsAssumption
      <4> QED BY <4>1
    <3>5. GroupKind(answer[plan[c][m]].kind) \in {"visual", "document", "audio"}
      BY <2>5, <3>3
    <3>6. \A k \in DOMAIN plan[c] :
            GroupKind(answer[plan[c][k]].kind) = GroupKind(answer[plan[c][m]].kind)
      BY <2>4, <3>3
    <3>7. Len(plan[c]) # 1 => Len(plan[c]) \in 2 .. GroupMax
      <4>1. GroupMax \in Nat
        BY AttachmentsAssumption
      <4>2. \A l \in 1 .. GroupMax : l # 1 => l \in 2 .. GroupMax
        BY <4>1
      <4> QED BY <3>1, <4>2
    <3> HIDE DEF kinds
    <3> QED BY <3>5, <3>6, <3>7 DEF Acceptable
  <2>7. SX!FlattenSeq(plan) = members
    BY <2>1, FlattenChunks
  <2> QED BY <2>2, <2>6, <2>7 DEF plan
<1> QED BY <1>3, <1>4

\* Which files the sends at a place of the answer carry.
Carried(answer, i) ==
  IF answer[i].group = None THEN <<i>>
  ELSE LET members == Members(answer, answer[i].group)
       IN  IF i = Head(members) THEN members ELSE <<>>

LEMMA SendsAtAre ==
  ASSUME NEW answer \in Answers, NEW i \in DOMAIN answer
  PROVE  /\ SendsAt(answer, i) \in Seq(Seq(DOMAIN answer))
         /\ SX!FlattenSeq(SendsAt(answer, i)) = Carried(answer, i)
         /\ \A c \in DOMAIN SendsAt(answer, i) : Acceptable(answer, SendsAt(answer, i)[c])
<1> DEFINE D == DOMAIN answer
           members == Members(answer, answer[i].group)
<1>1. CASE answer[i].group = None
  <2>1. SendsAt(answer, i) = <<<<i>>>> /\ Carried(answer, i) = <<i>>
    BY <1>1 DEF SendsAt, Carried
  <2>2. <<i>> \in Seq(D) /\ <<<<i>>>> \in Seq(Seq(D)) /\ Acceptable(answer, <<i>>)
    BY DEF Acceptable
  <2>3. SX!FlattenSeq(<<<<i>>>>) = <<i>>
    BY <2>2, FlattenOne
  <2> QED BY <2>1, <2>2, <2>3
<1>2. CASE answer[i].group # None /\ i = Head(members)
  <2>1. SendsAt(answer, i) = Plan(answer, members) /\ Carried(answer, i) = members
    BY <1>2 DEF SendsAt, Carried
  <2>2. members \in Seq(D)
    BY MembersAre
  <2> HIDE DEF members
  <2> QED BY <2>1, <2>2, PlanIsAcceptable
<1>3. CASE answer[i].group # None /\ i # Head(members)
  <2>1. SendsAt(answer, i) = <<>> /\ Carried(answer, i) = <<>>
    BY <1>3 DEF SendsAt, Carried
  <2> QED BY <2>1, FlattenEmpty, EmptySeq
<1> QED BY <1>1, <1>2, <1>3

\* partition_sends: each file is in one send, once, and every send is one that
\* Telegram takes.
LEMMA PartitionIs ==
  ASSUME NEW answer \in Answers
  PROVE  LET q == [i \in DOMAIN answer |-> SendsAt(answer, i)]
         IN  /\ Partition(answer) = SX!FlattenSeq(q)
             /\ q \in Seq(Seq(Seq(DOMAIN answer)))
             /\ DOMAIN q = DOMAIN answer
             /\ DOMAIN answer = 1 .. Len(answer)
<1>1. DOMAIN answer = 1 .. Len(answer) /\ Len(answer) \in Nat
  BY AttachmentsAssumption, LenProperties
<1>2. \A i \in DOMAIN answer : SendsAt(answer, i) \in Seq(Seq(DOMAIN answer))
  BY SendsAtAre
<1> QED BY <1>1, <1>2 DEF Partition

LEMMA PartitionIsAcceptable ==
  ASSUME NEW answer \in Answers
  PROVE  /\ Partition(answer) \in Seq(Seq(DOMAIN answer))
         /\ \A c \in DOMAIN Partition(answer) : Acceptable(answer, Partition(answer)[c])
<1> DEFINE D == DOMAIN answer
           q == [i \in D |-> SendsAt(answer, i)]
           sends == Partition(answer)
<1>1. sends = SX!FlattenSeq(q) /\ q \in Seq(Seq(Seq(D))) /\ DOMAIN q = D
  BY PartitionIs
<1>2. \A i \in D : q[i] = SendsAt(answer, i)
  OBVIOUS
<1> HIDE DEF q, sends
<1>3. sends \in Seq(Seq(D))
  BY <1>1, FlattenType
<1>4. SX!ToSet(sends) = UNION {SX!ToSet(q[i]) : i \in D}
  BY <1>1, FlattenSet
<1>5. ASSUME NEW c \in DOMAIN sends PROVE Acceptable(answer, sends[c])
  <2>1. sends[c] \in SX!ToSet(sends)
    BY DEF SX!ToSet
  <2>2. PICK i \in D : sends[c] \in SX!ToSet(q[i])
    BY <1>4, <2>1
  <2>3. PICK b \in DOMAIN SendsAt(answer, i) : sends[c] = SendsAt(answer, i)[b]
    BY <1>2, <2>2 DEF SX!ToSet
  <2> QED BY <2>3, SendsAtAre
<1> QED BY <1>3, <1>5 DEF sends

LEMMA PartitionIsWhole ==
  ASSUME NEW answer \in Answers
  PROVE  /\ SX!IsInjective(SX!FlattenSeq(Partition(answer)))
         /\ SX!ToSet(SX!FlattenSeq(Partition(answer))) = DOMAIN answer
<1> DEFINE D == DOMAIN answer
           q == [i \in D |-> SendsAt(answer, i)]
           c == [i \in D |-> Carried(answer, i)]
           Group(i) == {j \in D : answer[j].group = answer[i].group}
<1>1. Partition(answer) = SX!FlattenSeq(q) /\ q \in Seq(Seq(Seq(D))) /\ DOMAIN q = D
  BY PartitionIs
<1>2. SX!FlattenSeq(Partition(answer)) = SX!FlattenSeq(c)
  <2>1. c = [i \in DOMAIN q |-> SX!FlattenSeq(q[i])]
    BY SendsAtAre
  <2> HIDE DEF q, c, D
  <2> QED BY <1>1, <2>1, FlattenTwice
<1>3. ASSUME NEW i \in D
      PROVE  /\ Carried(answer, i) \in Seq(D) /\ SX!IsInjective(Carried(answer, i))
             /\ \A j \in SX!ToSet(Carried(answer, i)) :
                  IF answer[i].group = None THEN j = i
                  ELSE /\ answer[j].group = answer[i].group
                       /\ i = Head(Members(answer, answer[i].group))
  <2> DEFINE members == Members(answer, answer[i].group)
  <2>1. CASE answer[i].group = None
    <3>1. Carried(answer, i) = <<i>>
      BY <2>1 DEF Carried
    <3>2. <<i>> \in Seq(D) /\ SX!ToSet(<<i>>) = {i} /\ SX!IsInjective(<<i>>)
      BY DEF SX!ToSet, SX!IsInjective
    <3> QED BY <2>1, <3>1, <3>2
  <2>2. CASE answer[i].group # None /\ i = Head(members)
    <3>1. Carried(answer, i) = members
      BY <2>2 DEF Carried
    <3>2. members \in Seq(D) /\ SX!IsInjective(members) /\ SX!ToSet(members) = Group(i)
      BY MembersAre
    <3> HIDE DEF members
    <3> QED BY <2>2, <3>1, <3>2 DEF members
  <2>3. CASE answer[i].group # None /\ i # Head(members)
    <3>1. Carried(answer, i) = <<>>
      BY <2>3 DEF Carried
    <3> QED BY <3>1, EmptySeq DEF SX!ToSet, SX!IsInjective
  <2> QED BY <2>1, <2>2, <2>3
<1>4. c \in Seq(Seq(D)) /\ DOMAIN c = D /\ \A i \in D : c[i] = Carried(answer, i)
  <2>1. D = 1 .. Len(answer) /\ Len(answer) \in Nat
    BY AttachmentsAssumption, LenProperties
  <2> HIDE DEF D
  <2> QED BY <1>3, <2>1
<1> HIDE DEF q, c
<1>5. SX!IsInjective(SX!FlattenSeq(c))
  <2>1. ASSUME NEW i \in D, NEW j \in D, i # j,
               NEW k \in SX!ToSet(Carried(answer, i)), k \in SX!ToSet(Carried(answer, j))
        PROVE  FALSE
    BY <1>3, <2>1
  <2>2. \A i \in DOMAIN c : SX!IsInjective(c[i])
    BY <1>3, <1>4
  <2>3. \A i, j \in DOMAIN c : i # j => SX!ToSet(c[i]) \cap SX!ToSet(c[j]) = {}
    BY <1>4, <2>1
  <2> QED BY <1>4, <2>2, <2>3, FlattenInjective
<1>6. SX!ToSet(SX!FlattenSeq(c)) = D
  <2>1. SX!ToSet(SX!FlattenSeq(c)) = UNION {SX!ToSet(Carried(answer, i)) : i \in D}
    BY <1>4, FlattenSet
  <2>2. \A i \in D : SX!ToSet(Carried(answer, i)) \subseteq D
    BY <1>3, SetIn
  <2>3. ASSUME NEW j \in D PROVE \E i \in D : j \in SX!ToSet(Carried(answer, i))
    <3>1. CASE answer[j].group = None
      <4>1. Carried(answer, j) = <<j>>
        BY <3>1 DEF Carried
      <4> QED BY <4>1 DEF SX!ToSet
    <3>2. CASE answer[j].group # None
      <4> DEFINE members == Members(answer, answer[j].group)
                 i == Head(members)
      <4>1. SX!ToSet(members) = Group(j) /\ i \in Group(j)
        BY MembersAre
      <4>2. i \in D /\ answer[i].group = answer[j].group
        BY <4>1
      <4>3. Carried(answer, i) = members
        BY <3>2, <4>2 DEF Carried
      <4>4. j \in Group(j)
        OBVIOUS
      <4> HIDE DEF members, Group
      <4> QED BY <4>1, <4>2, <4>3, <4>4
    <3> QED BY <3>1, <3>2
  <2> QED BY <2>1, <2>2, <2>3
<1> QED BY <1>2, <1>5, <1>6

-----------------------------------------------------------------------------
(* The account of an answer: what arrived, what is still to be sent, what   *)
(* failed, and which captions are shown.                                   *)
Captions == UNION {{answer[i].caption : i \in DOMAIN answer} : answer \in Answers}
CaptionsOf(answer, files) == [m \in DOMAIN files |-> OwnCaption(answer[files[m]])]

Whole(answer, arrived, rest, failed, shown) ==
  /\ SX!IsInjective(arrived \o SX!FlattenSeq(rest))
  /\ DOMAIN answer = SX!ToSet(arrived \o SX!FlattenSeq(rest)) \cup failed
  /\ shown = SX!FlattenSeq(CaptionsOf(answer, arrived))

LEMMA CaptionsType ==
  ASSUME NEW answer \in Answers, NEW s \in Seq(DOMAIN answer)
  PROVE  CaptionsOf(answer, s) \in Seq(Seq(Captions)) /\ Len(CaptionsOf(answer, s)) = Len(s)
<1>1. DOMAIN s = 1 .. Len(s) /\ Len(s) \in Nat /\ \A m \in 1 .. Len(s) : s[m] \in DOMAIN answer
  BY LenProperties, ElementOfSeq
<1>2. \A i \in DOMAIN answer : OwnCaption(answer[i]) \in Seq(Captions)
  <2> TAKE i \in DOMAIN answer
  <2>1. answer[i].caption \in Captions
    BY DEF Captions
  <2>2. \A c \in Captions : <<c>> \in Seq(Captions)
    OBVIOUS
  <2>3. OwnCaption(answer[i]) = <<>> \/ OwnCaption(answer[i]) = <<answer[i].caption>>
    BY DEF OwnCaption
  <2> QED BY <2>1, <2>2, <2>3, EmptySeq
<1> QED BY <1>1, <1>2 DEF CaptionsOf

LEMMA CaptionsConcat ==
  ASSUME NEW answer \in Answers, NEW s \in Seq(DOMAIN answer), NEW t \in Seq(DOMAIN answer)
  PROVE  SX!FlattenSeq(CaptionsOf(answer, s \o t))
           = SX!FlattenSeq(CaptionsOf(answer, s)) \o SX!FlattenSeq(CaptionsOf(answer, t))
<1> DEFINE C(q) == CaptionsOf(answer, q)
           m == Len(s)
           n == Len(t)
           r == s \o t
<1>1. r \in Seq(DOMAIN answer) /\ Len(r) = m + n /\ m \in Nat /\ n \in Nat
      /\ DOMAIN r = 1 .. m + n /\ DOMAIN s = 1 .. m /\ DOMAIN t = 1 .. n
      /\ \A i \in 1 .. m + n : r[i] = IF i <= m THEN s[i] ELSE t[i - m]
  BY ConcatProperties, LenProperties
<1>2. C(r) \in Seq(Seq(Captions)) /\ Len(C(r)) = m + n
  <2> HIDE DEF r
  <2> QED BY <1>1, CaptionsType
<1>3. C(s) \in Seq(Seq(Captions)) /\ Len(C(s)) = m /\ C(t) \in Seq(Seq(Captions)) /\ Len(C(t)) = n
  BY CaptionsType
<1>4. (C(s) \o C(t)) \in Seq(Seq(Captions)) /\ Len(C(s) \o C(t)) = m + n
      /\ \A i \in 1 .. m + n : (C(s) \o C(t))[i] = IF i <= m THEN C(s)[i] ELSE C(t)[i - m]
  <2> HIDE DEF C, m, n
  <2> QED BY <1>3, ConcatProperties
<1>5. ASSUME NEW i \in 1 .. m + n PROVE C(r)[i] = (C(s) \o C(t))[i]
  <2>1. C(r)[i] = OwnCaption(answer[r[i]])
    <3> HIDE DEF r, m, n
    <3> QED BY <1>1 DEF CaptionsOf
  <2>2. CASE i <= m
    <3>1. i \in 1 .. m /\ r[i] = s[i]
      BY <1>1, <2>2
    <3>2. C(s)[i] = OwnCaption(answer[s[i]])
      BY <1>1, <3>1 DEF CaptionsOf
    <3> HIDE DEF C, r, m, n
    <3> QED BY <1>4, <2>1, <2>2, <3>1, <3>2
  <2>3. CASE ~(i <= m)
    <3>1. i - m \in 1 .. n /\ r[i] = t[i - m]
      <4> HIDE DEF r, m, n
      <4> QED BY <1>1, <2>3
    <3>2. \A k \in 1 .. n : C(t)[k] = OwnCaption(answer[t[k]])
      BY <1>1 DEF CaptionsOf
    <3> HIDE DEF C, r, m, n
    <3> QED BY <1>4, <2>1, <2>3, <3>1, <3>2
  <2> QED BY <2>2, <2>3
<1>6. C(r) = C(s) \o C(t)
  <2> HIDE DEF C, r, m, n
  <2> QED BY <1>2, <1>4, <1>5, SeqEqual
<1>7. SX!FlattenSeq(C(s) \o C(t)) = SX!FlattenSeq(C(s)) \o SX!FlattenSeq(C(t))
  <2> HIDE DEF C
  <2> QED BY <1>3, FlattenConcat
<1> QED BY <1>6, <1>7

LEMMA Pieces ==
  ASSUME NEW X, NEW s \in Seq(X), NEW t \in Seq(X), NEW u \in Seq(X)
  PROVE  /\ s \o (t \o u) = (s \o t) \o u
         /\ SX!ToSet(s \o (t \o u)) = SX!ToSet(s) \cup SX!ToSet(t) \cup SX!ToSet(u)
         /\ SX!ToSet(s \o u) = SX!ToSet(s) \cup SX!ToSet(u)
         /\ SX!IsInjective(s \o (t \o u)) => SX!IsInjective(s \o u)
<1> DEFINE r == t \o u
<1>1. s \o (t \o u) = (s \o t) \o u
  BY ConcatAssociative
<1>2. r \in Seq(X)
  BY ConcatProperties
<1>3. SX!ToSet(r) = SX!ToSet(t) \cup SX!ToSet(u)
  BY ConcatSet
<1>4. SX!IsInjective(r) => SX!IsInjective(u)
  BY ConcatInjective
<1> HIDE DEF r
<1>5. SX!ToSet(s \o r) = SX!ToSet(s) \cup SX!ToSet(r)
  BY <1>2, ConcatSet
<1>6. SX!ToSet(s \o u) = SX!ToSet(s) \cup SX!ToSet(u)
  BY ConcatSet
<1>7. ASSUME SX!IsInjective(s \o r) PROVE SX!IsInjective(s \o u)
  <2>1. SX!IsInjective(s) /\ SX!IsInjective(r) /\ SX!ToSet(s) \cap SX!ToSet(r) = {}
    BY <1>2, <1>7, ConcatInjective
  <2>2. SX!IsInjective(u) /\ SX!ToSet(s) \cap SX!ToSet(u) = {}
    BY <1>3, <1>4, <2>1
  <2> QED BY <2>1, <2>2, ConcatInjective
<1> QED BY <1>1, <1>3, <1>5, <1>6, <1>7 DEF r

\* The first of the sends is made, or given up, or both.
LEMMA AccountKept ==
  ASSUME NEW answer \in Answers, NEW arrived \in Seq(Nat), NEW rest \in Seq(Seq(Nat)),
         NEW failed, NEW shown, rest # <<>>, Whole(answer, arrived, rest, failed, shown)
  PROVE  LET files == rest[1]
         IN  /\ Whole(answer, arrived, Tail(rest), failed \cup SX!ToSet(files), shown)
             /\ files # <<>> =>
                  /\ shown \o Shown(answer, files) \in Seq(Captions)
                  /\ \A more \in SUBSET SX!ToSet(files) :
                       Whole(answer, arrived \o files, Tail(rest), failed \cup more,
                             shown \o Shown(answer, files))
<1> DEFINE files == rest[1]
           todo == SX!FlattenSeq(Tail(rest))
           D == DOMAIN answer
<1>1. files \in Seq(Nat) /\ Tail(rest) \in Seq(Seq(Nat)) /\ rest = <<files>> \o Tail(rest)
  <2>1. Len(rest) \in Nat \ {0}
    BY EmptySeq
  <2>2. files \in Seq(Nat) /\ Tail(rest) \in Seq(Seq(Nat))
    BY <2>1, ElementOfSeq, HeadTailProperties
  <2>3. SubSeq(rest, 1, Len(rest)) = <<rest[1]>> \o SubSeq(rest, 2, Len(rest))
    BY <2>1, SubSeqRecursiveFirst
  <2>4. SubSeq(rest, 1, Len(rest)) = rest /\ SubSeq(rest, 2, Len(rest)) = Tail(rest)
    BY SubSeqFull, TailIsSubSeq
  <2> QED BY <2>2, <2>3, <2>4
<1>2. todo \in Seq(Nat)
  BY <1>1, FlattenType
<1>3. SX!FlattenSeq(rest) = files \o todo
  <2>1. <<files>> \in Seq(Seq(Nat)) /\ SX!FlattenSeq(<<files>>) = files
    BY <1>1, FlattenOne
  <2> HIDE DEF files
  <2> QED BY <1>1, <2>1, FlattenConcat
<1> HIDE DEF files, todo
<1>4. /\ arrived \o (files \o todo) = (arrived \o files) \o todo
      /\ SX!ToSet(arrived \o (files \o todo))
           = SX!ToSet(arrived) \cup SX!ToSet(files) \cup SX!ToSet(todo)
      /\ SX!ToSet(arrived \o todo) = SX!ToSet(arrived) \cup SX!ToSet(todo)
      /\ SX!IsInjective(arrived \o (files \o todo)) => SX!IsInjective(arrived \o todo)
  BY <1>1, <1>2, Pieces
<1>5. SX!IsInjective(arrived \o (files \o todo))
      /\ D = SX!ToSet(arrived \o (files \o todo)) \cup failed
      /\ shown = SX!FlattenSeq(CaptionsOf(answer, arrived))
  BY <1>3 DEF Whole
<1>6. SX!IsInjective(arrived \o todo)
  BY <1>4, <1>5
<1>7. Whole(answer, arrived, Tail(rest), failed \cup SX!ToSet(files), shown)
  <2>1. D = SX!ToSet(arrived \o todo) \cup (failed \cup SX!ToSet(files))
    BY <1>4, <1>5
  <2> QED BY <1>5, <1>6, <2>1 DEF Whole, todo
<1>8. ASSUME files # <<>>
      PROVE  /\ shown \o Shown(answer, files) \in Seq(Captions)
             /\ \A more \in SUBSET SX!ToSet(files) :
                  Whole(answer, arrived \o files, Tail(rest), failed \cup more,
                        shown \o Shown(answer, files))
  <2>1. arrived \in Seq(D) /\ files \in Seq(D)
    <3>1. SX!ToSet(arrived) \subseteq D /\ SX!ToSet(files) \subseteq D
      BY <1>4, <1>5
    <3>2. \A s \in Seq(Nat) : SX!ToSet(s) \subseteq D => s \in Seq(D)
      <4> TAKE s \in Seq(Nat)
      <4> HAVE SX!ToSet(s) \subseteq D
      <4>1. SX!ToSet(s) = {s[i] : i \in 1 .. Len(s)}
        BY SetIn
      <4>2. s \in [1 .. Len(s) -> D] /\ Len(s) \in Nat
        BY <4>1, LenProperties
      <4>3. \A n \in Nat : [1 .. n -> D] \subseteq Seq(D)
        <5> HIDE DEF D
        <5> QED BY SeqDef
      <4> HIDE DEF D
      <4> QED BY <4>2, <4>3
    <3> QED BY <1>1, <3>1, <3>2
  <2>2. Shown(answer, files) = SX!FlattenSeq(CaptionsOf(answer, files))
    <3>1. 1 \in DOMAIN files
      BY <1>1, <1>8, EmptySeq, LenProperties
    <3> QED BY <3>1 DEF Shown, MergeCaptions, CaptionsOf
  <2>3. shown \o Shown(answer, files) = SX!FlattenSeq(CaptionsOf(answer, arrived \o files))
    BY <1>5, <2>1, <2>2, CaptionsConcat
  <2>4. shown \o Shown(answer, files) \in Seq(Captions)
    <3>1. CaptionsOf(answer, arrived) \in Seq(Seq(Captions))
          /\ CaptionsOf(answer, files) \in Seq(Seq(Captions))
      BY <2>1, CaptionsType
    <3>2. shown \in Seq(Captions) /\ Shown(answer, files) \in Seq(Captions)
      BY <1>5, <2>2, <3>1, FlattenType
    <3> QED BY <3>2, ConcatProperties
  <2>5. ASSUME NEW more \in SUBSET SX!ToSet(files)
        PROVE  D = SX!ToSet((arrived \o files) \o todo) \cup (failed \cup more)
    BY <1>4, <1>5
  <2>6. SX!IsInjective((arrived \o files) \o todo)
    BY <1>4, <1>5
  <2> QED BY <2>3, <2>4, <2>5, <2>6 DEF Whole, todo
<1> QED BY <1>7, <1>8 DEF files

-----------------------------------------------------------------------------
(* Types, and what a worker's job is at each of its steps.                 *)
SendJobs ==
  [op : {"send"}, answer : Answers, sends : Seq(Seq(Nat)),
   step : {"fetch", "measure", "send", "tidy"}, got : Seq(Nat), arrived : Seq(Nat),
   shown : Seq(Captions), failed : SUBSET Nat]
ReceiveJobs ==
  [op : {"receive"}, mail : Mail, at : Nat \ {0}, step : {"fetch", "upload", "remove"},
   told : SUBSET FileNames]
Chats == {mail.chat : mail \in Mail}
Stored(whose) == [of : whose, old : BOOLEAN]
TypeOK ==
  /\ job \in [Workers -> SendJobs \cup ReceiveJobs \cup {NoJob}]
  /\ outbox \in [Names -> Stored((Workers \X Nat) \cup {None}) \cup {None}]
  /\ intake \in [FileNames -> Stored(Chats) \cup {None}]
  /\ inbox \in [FileNames -> Stored(Chats) \cup {None}]
  /\ jobs \in Nat /\ deaths \in Nat

\* A send that is done with is taken off at the next step only.
Rest(j) == IF j.step = "tidy" THEN Tail(j.sends) ELSE j.sends
Sound(j) ==
  /\ \A c \in DOMAIN j.sends : Acceptable(j.answer, j.sends[c])
  /\ j.step # "fetch" => j.sends # <<>>
  /\ j.step \in {"fetch", "measure"} /\ j.sends # <<>> => Len(j.got) < Len(j.sends[1])
  /\ Whole(j.answer, j.arrived, Rest(j), j.failed, j.shown)
Placed(j) == j.step # "fetch" => j.at \in DOMAIN j.mail.kinds

Proper(j) ==
  \/ j = NoJob
  \/ j \in SendJobs /\ Sound(j)
  \/ j \in ReceiveJobs /\ Placed(j)
JobsInv == \A w \in Workers : Proper(job[w])

LEMMA JobStep ==
  ASSUME TypeOK, JobsInv, NEW w \in Workers, NEW j, Proper(j), job' = [job EXCEPT ![w] = j]
  PROVE  /\ job' \in [Workers -> SendJobs \cup ReceiveJobs \cup {NoJob}]
         /\ JobsInv'
<1>1. job' \in [Workers -> SendJobs \cup ReceiveJobs \cup {NoJob}]
  BY DEF TypeOK, Proper
<1>2. ASSUME NEW v \in Workers PROVE Proper(job'[v])
  BY DEF TypeOK, JobsInv
<1> QED BY <1>1, <1>2 DEF JobsInv

\* The kinds of jobs are told apart by "op".
LEMMA SendKind ==
  ASSUME JobsInv, NEW w \in Workers, job[w].op = "send"
  PROVE  job[w] \in SendJobs /\ Sound(job[w])
  BY DEF JobsInv, Proper, ReceiveJobs, NoJob

LEMMA ReceiveKind ==
  ASSUME JobsInv, NEW w \in Workers, job[w].op = "receive"
  PROVE  job[w] \in ReceiveJobs /\ Placed(job[w])
  BY DEF JobsInv, Proper, SendJobs, NoJob

-----------------------------------------------------------------------------
(* An answer's steps.                                                      *)
LEMMA SendingProper ==
  ASSUME NEW answer \in Answers
  PROVE  Proper(Sending(answer))
<1> DEFINE j == Sending(answer)
           D == DOMAIN answer
<1>1. D = 1 .. Len(answer) /\ Len(answer) \in Nat
  BY AttachmentsAssumption, LenProperties
<1>2. Partition(answer) \in Seq(Seq(D))
      /\ \A c \in DOMAIN Partition(answer) : Acceptable(answer, Partition(answer)[c])
  BY PartitionIsAcceptable
<1>3. Partition(answer) \in Seq(Seq(Nat)) /\ SX!FlattenSeq(Partition(answer)) \in Seq(Nat)
  <2>1. Seq(D) \subseteq Seq(Nat)
    BY <1>1
  <2>2. Partition(answer) \in Seq(Seq(Nat))
    <3> HIDE DEF D
    <3> QED BY <1>2, <2>1, SeqMonotonic
  <2> QED BY <2>2, FlattenType
<1>4. /\ j.op = "send" /\ j.answer = answer /\ j.sends = Partition(answer) /\ j.step = "fetch"
      /\ j.got = <<>> /\ j.arrived = <<>> /\ j.shown = <<>> /\ j.failed = {}
  BY DEF Sending
<1>5. j \in SendJobs
  <2>1. <<>> \in Seq(Nat) /\ <<>> \in Seq(Captions) /\ {} \in SUBSET Nat
    BY EmptySeq
  <2> QED BY <1>3, <2>1 DEF Sending, SendJobs
<1>6. Rest(j) = Partition(answer)
  BY <1>4 DEF Rest
<1>7. Whole(answer, <<>>, Partition(answer), {}, <<>>)
  <2>1. <<>> \o SX!FlattenSeq(Partition(answer)) = SX!FlattenSeq(Partition(answer))
    BY <1>3, ConcatEmptySeq
  <2>2. CaptionsOf(answer, <<>>) = <<>>
    BY DEF CaptionsOf
  <2> QED BY <2>1, <2>2, PartitionIsWhole, FlattenEmpty DEF Whole
<1>8. ASSUME Partition(answer) # <<>> PROVE 0 < Len(Partition(answer)[1])
  <2>1. 1 \in DOMAIN Partition(answer) /\ Partition(answer)[1] \in Seq(Nat)
    BY <1>3, <1>8, EmptySeq, LenProperties, ElementOfSeq
  <2>2. Len(Partition(answer)[1]) \in Nat /\ Acceptable(answer, Partition(answer)[1])
    BY <1>2, <2>1, LenProperties
  <2> QED BY <2>2 DEF Acceptable
<1>9. Sound(j)
  <2>1. Len(<<>>) = 0
    OBVIOUS
  <2> HIDE DEF j
  <2> QED BY <1>2, <1>4, <1>6, <1>7, <1>8, <2>1 DEF Sound
<1> QED BY <1>5, <1>9 DEF Proper

LEMMA NextSend ==
  ASSUME NEW j \in SendJobs, Sound(j), j.sends # <<>>
  PROVE  /\ j.sends[1] \in Seq(Nat) /\ j.sends[1] # <<>>
         /\ Len(j.sends[1]) \in Nat \ {0} /\ 1 \in DOMAIN j.sends
         /\ SX!ToSet(j.sends[1]) \subseteq Nat
<1>1. j.sends \in Seq(Seq(Nat))
  BY DEF SendJobs
<1>2. 1 \in DOMAIN j.sends /\ j.sends[1] \in Seq(Nat)
  BY <1>1, EmptySeq, LenProperties, ElementOfSeq
<1>3. Len(j.sends[1]) \in Nat /\ Acceptable(j.answer, j.sends[1])
  BY <1>2, LenProperties DEF Sound
<1>4. Len(j.sends[1]) # 0
  BY <1>3 DEF Acceptable
<1> QED BY <1>2, <1>3, <1>4, EmptySeq, SetIn

LEMMA FetchedProper ==
  ASSUME NEW j \in SendJobs, Sound(j), j.sends # <<>>, j.step = "fetch"
  PROVE  Proper([j EXCEPT !.step = "measure"])
<1> DEFINE k == [j EXCEPT !.step = "measure"]
<1>1. k \in SendJobs /\ k.step = "measure" /\ k.answer = j.answer /\ k.sends = j.sends
      /\ k.got = j.got /\ k.arrived = j.arrived /\ k.shown = j.shown /\ k.failed = j.failed
  BY DEF SendJobs
<1> HIDE DEF k
<1>2. Sound(k)
  BY <1>1 DEF Sound, Rest
<1> QED BY <1>1, <1>2 DEF Proper, k

LEMMA GivenUpProper ==
  ASSUME NEW j \in SendJobs, Sound(j), j.sends # <<>>, j.step # "tidy"
  PROVE  Proper([j EXCEPT !.step = "tidy", !.failed = @ \cup SX!ToSet(j.sends[1])])
<1> DEFINE more == j.failed \cup SX!ToSet(j.sends[1])
           h == [j EXCEPT !.failed = more]
           k == [h EXCEPT !.step = "tidy"]
<1>1. more \in SUBSET Nat
  BY NextSend DEF SendJobs
<1> HIDE DEF more
<1>2. h \in SendJobs /\ h.failed = more /\ h.answer = j.answer /\ h.sends = j.sends
      /\ h.got = j.got /\ h.arrived = j.arrived /\ h.shown = j.shown
  BY <1>1 DEF SendJobs
<1> HIDE DEF h
<1>3. k \in SendJobs /\ k.step = "tidy" /\ k.failed = more /\ k.answer = j.answer
      /\ k.sends = j.sends /\ k.got = j.got /\ k.arrived = j.arrived /\ k.shown = j.shown
  BY <1>2 DEF SendJobs
<1>4. Whole(j.answer, j.arrived, Tail(j.sends), more, j.shown)
  BY AccountKept DEF Sound, Rest, SendJobs, more
<1>5. k = [j EXCEPT !.step = "tidy", !.failed = @ \cup SX!ToSet(j.sends[1])]
  BY DEF h, more, SendJobs
<1> HIDE DEF k
<1>6. Sound(k)
  BY <1>3, <1>4 DEF Sound, Rest
<1> QED BY <1>3, <1>5, <1>6 DEF Proper

LEMMA MeasuredProper ==
  ASSUME NEW j \in SendJobs, Sound(j), j.step = "measure"
  PROVE  Proper([j EXCEPT
           !.got = Append(@, j.sends[1][Len(j.got) + 1]),
           !.step = IF Len(j.got) + 1 = Len(j.sends[1]) THEN "send" ELSE "fetch"])
<1> DEFINE file == j.sends[1][Len(j.got) + 1]
           got == Append(j.got, file)
           step == IF Len(j.got) + 1 = Len(j.sends[1]) THEN "send" ELSE "fetch"
           h == [j EXCEPT !.got = got]
           k == [h EXCEPT !.step = step]
<1>1. j.got \in Seq(Nat) /\ j.sends # <<>> /\ Len(j.got) \in Nat
      /\ Len(j.got) < Len(j.sends[1]) /\ Len(j.sends[1]) \in Nat /\ j.sends[1] \in Seq(Nat)
  BY NextSend, LenProperties DEF SendJobs, Sound
<1>2. file \in Nat
  BY <1>1, ElementOfSeq, SMTT(30)
<1>3. got \in Seq(Nat) /\ Len(got) = Len(j.got) + 1
  <2> HIDE DEF file
  <2> QED BY <1>1, <1>2, AppendProperties
<1>4. step \in {"send", "fetch"} /\ (step = "fetch" => Len(got) < Len(j.sends[1]))
  <2> HIDE DEF got
  <2> QED BY <1>1, <1>3
<1> HIDE DEF got, step
<1>5. h \in SendJobs /\ h.got = got /\ h.answer = j.answer /\ h.sends = j.sends
      /\ h.failed = j.failed /\ h.arrived = j.arrived /\ h.shown = j.shown
  BY <1>3 DEF SendJobs
<1> HIDE DEF h
<1>6. k \in SendJobs /\ k.step = step /\ k.got = got /\ k.answer = j.answer /\ k.sends = j.sends
      /\ k.failed = j.failed /\ k.arrived = j.arrived /\ k.shown = j.shown
  BY <1>4, <1>5 DEF SendJobs
<1>7. k = [j EXCEPT !.got = Append(@, file),
                    !.step = IF Len(j.got) + 1 = Len(j.sends[1]) THEN "send" ELSE "fetch"]
  BY DEF h, got, step, SendJobs
<1> HIDE DEF k, file
<1>8. Rest(k) = Rest(j) /\ Rest(j) = j.sends
  BY <1>4, <1>6 DEF Rest
<1>9. Sound(k)
  BY <1>1, <1>4, <1>6, <1>8 DEF Sound
<1> QED BY <1>6, <1>7, <1>9 DEF Proper, file

LEMMA RequestedProper ==
  ASSUME NEW j \in SendJobs, Sound(j), j.step = "send", NEW heard \in BOOLEAN
  PROVE  Proper([j EXCEPT
           !.step = "tidy",
           !.arrived = @ \o j.sends[1],
           !.shown = @ \o Shown(j.answer, j.sends[1]),
           !.failed = IF heard THEN @ ELSE @ \cup SX!ToSet(j.sends[1])])
<1> DEFINE arrived == j.arrived \o j.sends[1]
           shown == j.shown \o Shown(j.answer, j.sends[1])
           more == IF heard THEN {} ELSE SX!ToSet(j.sends[1])
           failed == IF heard THEN j.failed ELSE j.failed \cup SX!ToSet(j.sends[1])
           f == [j EXCEPT !.arrived = arrived]
           g == [f EXCEPT !.shown = shown]
           h == [g EXCEPT !.failed = failed]
           k == [h EXCEPT !.step = "tidy"]
<1>1. j.sends # <<>> /\ j.arrived \in Seq(Nat) /\ j.sends \in Seq(Seq(Nat))
      /\ j.answer \in Answers /\ Whole(j.answer, j.arrived, j.sends, j.failed, j.shown)
  BY DEF SendJobs, Sound, Rest
<1>2. j.sends[1] \in Seq(Nat) /\ j.sends[1] # <<>> /\ SX!ToSet(j.sends[1]) \subseteq Nat
  BY <1>1, NextSend
<1>3. arrived \in Seq(Nat)
  BY <1>1, <1>2, ConcatProperties
<1>4. shown \in Seq(Captions)
  BY <1>1, <1>2, AccountKept
<1>5. failed \in SUBSET Nat /\ failed = j.failed \cup more /\ more \in SUBSET SX!ToSet(j.sends[1])
  BY <1>2 DEF SendJobs
<1>6. Whole(j.answer, arrived, Tail(j.sends), failed, shown)
  <2> HIDE DEF more, failed
  <2> QED BY <1>1, <1>2, <1>5, AccountKept
<1> HIDE DEF arrived, shown, failed
<1>7. f \in SendJobs /\ f.arrived = arrived /\ f.answer = j.answer /\ f.sends = j.sends
      /\ f.got = j.got
  BY <1>3 DEF SendJobs
<1> HIDE DEF f
<1>8. g \in SendJobs /\ g.arrived = arrived /\ g.shown = shown /\ g.answer = j.answer
      /\ g.sends = j.sends /\ g.got = j.got
  BY <1>4, <1>7 DEF SendJobs
<1> HIDE DEF g
<1>9. h \in SendJobs /\ h.arrived = arrived /\ h.shown = shown /\ h.failed = failed
      /\ h.answer = j.answer /\ h.sends = j.sends /\ h.got = j.got
  BY <1>5, <1>8 DEF SendJobs
<1> HIDE DEF h
<1>10. k \in SendJobs /\ k.arrived = arrived /\ k.shown = shown /\ k.failed = failed
       /\ k.step = "tidy" /\ k.answer = j.answer /\ k.sends = j.sends /\ k.got = j.got
  BY <1>9 DEF SendJobs
<1>11. k = [j EXCEPT !.step = "tidy", !.arrived = @ \o j.sends[1],
                     !.shown = @ \o Shown(j.answer, j.sends[1]),
                     !.failed = IF heard THEN @ ELSE @ \cup SX!ToSet(j.sends[1])]
  BY DEF f, g, h, arrived, shown, failed, SendJobs
<1> HIDE DEF k
<1>12. Sound(k)
  BY <1>1, <1>6, <1>10 DEF Sound, Rest
<1> QED BY <1>10, <1>11, <1>12 DEF Proper

LEMMA TidiedProper ==
  ASSUME NEW j \in SendJobs, Sound(j), j.step = "tidy"
  PROVE  /\ j.got = <<>> => Proper([j EXCEPT !.sends = Tail(@), !.step = "fetch"])
         /\ j.got # <<>> => Proper([j EXCEPT !.got = Tail(@)])
<1>1. j.sends # <<>> /\ j.sends \in Seq(Seq(Nat)) /\ j.got \in Seq(Nat)
      /\ Whole(j.answer, j.arrived, Tail(j.sends), j.failed, j.shown)
  BY DEF SendJobs, Sound, Rest
<1>2. ASSUME j.got = <<>> PROVE Proper([j EXCEPT !.sends = Tail(@), !.step = "fetch"])
  <2> DEFINE sends == Tail(j.sends)
             h == [j EXCEPT !.sends = sends]
             k == [h EXCEPT !.step = "fetch"]
  <2>1. sends \in Seq(Seq(Nat)) /\ Len(sends) = Len(j.sends) - 1 /\ Len(j.sends) \in Nat \ {0}
        /\ \A c \in 1 .. Len(sends) : sends[c] = j.sends[c + 1]
    BY <1>1, HeadTailProperties, EmptySeq
  <2> HIDE DEF sends
  <2>2. \A c \in DOMAIN sends : Acceptable(j.answer, sends[c])
    <3> TAKE c \in DOMAIN sends
    <3>1. c \in 1 .. Len(sends) /\ c + 1 \in DOMAIN j.sends
      BY <1>1, <2>1, LenProperties, SMTT(30)
    <3> QED BY <2>1, <3>1 DEF Sound
  <2>3. h \in SendJobs /\ h.sends = sends /\ h.answer = j.answer /\ h.got = j.got
        /\ h.failed = j.failed /\ h.arrived = j.arrived /\ h.shown = j.shown
    BY <2>1 DEF SendJobs
  <2> HIDE DEF h
  <2>4. k \in SendJobs /\ k.sends = sends /\ k.answer = j.answer /\ k.got = j.got
        /\ k.step = "fetch" /\ k.failed = j.failed /\ k.arrived = j.arrived /\ k.shown = j.shown
    BY <2>3 DEF SendJobs
  <2>5. k = [j EXCEPT !.sends = Tail(@), !.step = "fetch"]
    BY DEF h, sends, SendJobs
  <2> HIDE DEF k
  <2>6. sends # <<>> => Len(k.got) < Len(sends[1])
    <3> HAVE sends # <<>>
    <3>1. 1 \in DOMAIN sends /\ sends[1] \in Seq(Nat)
      BY <2>1, EmptySeq, LenProperties, ElementOfSeq
    <3>2. Len(sends[1]) \in Nat /\ Acceptable(j.answer, sends[1])
      BY <2>2, <3>1, LenProperties
    <3>3. Len(k.got) = 0
      BY <1>2, <2>4
    <3>4. Len(sends[1]) # 0
      BY <3>2, SMTT(30) DEF Acceptable
    <3> HIDE DEF sends
    <3> QED BY <3>2, <3>3, <3>4
  <2>7. Whole(j.answer, j.arrived, sends, j.failed, j.shown)
    BY <1>1 DEF sends
  <2>8. Sound(k)
    BY <2>2, <2>4, <2>6, <2>7 DEF Sound, Rest
  <2> QED BY <2>4, <2>5, <2>8 DEF Proper
<1>3. ASSUME j.got # <<>> PROVE Proper([j EXCEPT !.got = Tail(@)])
  <2> DEFINE got == Tail(j.got)
             k == [j EXCEPT !.got = got]
  <2>1. got \in Seq(Nat)
    BY <1>1, <1>3, HeadTailProperties
  <2> HIDE DEF got
  <2>2. k \in SendJobs /\ k.got = got /\ k.sends = j.sends /\ k.answer = j.answer
        /\ k.step = j.step /\ k.failed = j.failed /\ k.arrived = j.arrived /\ k.shown = j.shown
    BY <2>1 DEF SendJobs
  <2>3. k = [j EXCEPT !.got = Tail(@)]
    BY DEF got, SendJobs
  <2> HIDE DEF k
  <2>4. Sound(k)
    BY <2>2 DEF Sound, Rest
  <2> QED BY <2>2, <2>3, <2>4 DEF Proper
<1> QED BY <1>2, <1>3

-----------------------------------------------------------------------------
(* Files on the host and the jobs that use them.                           *)
Uses(j, n) ==
  /\ j.op = "send" /\ j.sends # <<>>
  /\ \/ \E i \in DOMAIN j.got : j.answer[j.got[i]].name = n
     \/ j.step = "measure" /\ j.answer[j.sends[1][Len(j.got) + 1]].name = n

LEMMA UsersUse ==
  FilesHaveUsers <=>
    \A n \in Names : outbox[n] # None /\ outbox[n].of # None => \E w \in Workers : Uses(job[w], n)
  BY DEF FilesHaveUsers, Uses, Name, NextFile, Files

LEMMA UsersUseNext ==
  FilesHaveUsers' <=>
    \A n \in Names : outbox'[n] # None /\ outbox'[n].of # None => \E w \in Workers : Uses(job'[w], n)
  BY DEF FilesHaveUsers, Uses, Name, NextFile, Files

IInv == TypeOK /\ JobsInv /\ FilesHaveUsers

Owned(files) == {n \in Names : files[n] # None /\ files[n].of # None}

\* One worker's job changes: the files it no longer uses are gone or no one's,
\* and what is new in the outbox it uses.
LEMMA StepKeepsUsers ==
  ASSUME IInv, NEW w \in Workers, NEW j, job' = [job EXCEPT ![w] = j],
         \A n \in Owned(outbox') : Uses(job[w], n) \/ n \notin Owned(outbox) => Uses(j, n)
  PROVE  FilesHaveUsers'
<1>1. job'[w] = j /\ \A v \in Workers : v # w => job'[v] = job[v]
  BY DEF IInv, TypeOK
<1>2. ASSUME NEW n \in Names, outbox'[n] # None, outbox'[n].of # None
      PROVE  \E v \in Workers : Uses(job'[v], n)
  <2>1. n \in Owned(outbox')
    BY <1>2 DEF Owned
  <2>2. CASE Uses(j, n)
    BY <1>1, <2>2
  <2>3. CASE ~Uses(j, n)
    <3>1. n \in Owned(outbox) /\ ~Uses(job[w], n)
      BY <2>1, <2>3
    <3>2. outbox[n] # None /\ outbox[n].of # None
      BY <3>1 DEF Owned
    <3>3. PICK v \in Workers : Uses(job[v], n)
      BY <3>2, UsersUse DEF IInv
    <3> QED BY <1>1, <3>1, <3>3
  <2> QED BY <2>2, <2>3
<1> QED BY <1>2, UsersUseNext

\* The outbox stays as it is, and the job uses what it used.
LEMMA StepKeeps ==
  ASSUME IInv, NEW w \in Workers, NEW j, job' = [job EXCEPT ![w] = j], Proper(j),
         \A n \in Names : Uses(job[w], n) => Uses(j, n),
         UNCHANGED outbox, intake' \in [FileNames -> Stored(Chats) \cup {None}],
         inbox' \in [FileNames -> Stored(Chats) \cup {None}], jobs' \in Nat, UNCHANGED deaths
  PROVE  IInv'
<1>1. job' \in [Workers -> SendJobs \cup ReceiveJobs \cup {NoJob}] /\ JobsInv'
  BY JobStep DEF IInv
<1>2. TypeOK'
  BY <1>1 DEF IInv, TypeOK
<1>3. \A n \in Owned(outbox') : Uses(job[w], n) \/ n \notin Owned(outbox) => Uses(j, n)
  BY DEF Owned
<1>4. FilesHaveUsers'
  BY <1>3, StepKeepsUsers
<1> QED BY <1>1, <1>2, <1>4 DEF IInv

\* The job and one name in the outbox change.
LEMMA StepInOutbox ==
  ASSUME IInv, NEW w \in Workers, NEW j, job' = [job EXCEPT ![w] = j], Proper(j),
         NEW name, NEW file, outbox' = [outbox EXCEPT ![name] = file],
         file \in Stored((Workers \X Nat) \cup {None}) \cup {None},
         file # None => Uses(j, name),
         \A n \in Names \ {name} : Uses(job[w], n) => Uses(j, n),
         UNCHANGED <<intake, inbox, jobs, deaths>>
  PROVE  IInv'
<1>1. job' \in [Workers -> SendJobs \cup ReceiveJobs \cup {NoJob}] /\ JobsInv'
  BY JobStep DEF IInv
<1>2. outbox' \in [Names -> Stored((Workers \X Nat) \cup {None}) \cup {None}]
  BY DEF IInv, TypeOK
<1>3. TypeOK'
  BY <1>1, <1>2 DEF IInv, TypeOK
<1>4. ASSUME NEW n \in Owned(outbox'), Uses(job[w], n) \/ n \notin Owned(outbox)
      PROVE  Uses(j, n)
  <2>1. CASE n = name
    <3>1. outbox'[n] = file
      BY <2>1 DEF Owned, IInv, TypeOK
    <3> QED BY <2>1, <3>1 DEF Owned
  <2>2. CASE n # name
    <3>1. outbox'[n] = outbox[n]
      BY <2>2 DEF Owned, IInv, TypeOK
    <3> QED BY <1>4, <2>2, <3>1 DEF Owned
  <2> QED BY <2>1, <2>2
<1>5. FilesHaveUsers'
  <2> HIDE DEF IInv
  <2> QED BY <1>4, StepKeepsUsers
<1> QED BY <1>1, <1>3, <1>5 DEF IInv

-----------------------------------------------------------------------------
(* The actions.                                                            *)
LEMMA BeginKeeps == ASSUME IInv, NEW w \in Workers, Begin(w) PROVE IInv'
<1> SUFFICES ASSUME NEW j, Proper(j), job' = [job EXCEPT ![w] = j] PROVE IInv'
  <2>1. CASE \E answer \in Answers : Becomes(w, Sending(answer))
    BY <2>1, SendingProper DEF Becomes
  <2>2. CASE \E mail \in Mail : Becomes(w, Receiving(mail))
    <3>1. ASSUME NEW mail \in Mail PROVE Proper(Receiving(mail))
      <4>1. Receiving(mail) \in ReceiveJobs /\ Placed(Receiving(mail))
        BY DEF Receiving, ReceiveJobs, Placed
      <4> QED BY <4>1 DEF Proper
    <3> QED BY <2>2, <3>1 DEF Becomes
  <2> QED BY <2>1, <2>2 DEF Begin
<1>1. \A n \in Names : ~Uses(job[w], n)
  BY DEF Begin, Uses, NoJob
<1>2. jobs' \in Nat /\ UNCHANGED <<outbox, deaths>>
      /\ intake' \in [FileNames -> Stored(Chats) \cup {None}]
      /\ inbox' \in [FileNames -> Stored(Chats) \cup {None}]
  BY DEF Begin, IInv, TypeOK
<1> QED BY <1>1, <1>2, StepKeeps

\* The job of a worker that sends, at its next file.
LEMMA SendStep ==
  ASSUME IInv, NEW w \in Workers, NEW step, Is(w, "send", step)
  PROVE  /\ job[w] \in SendJobs /\ Sound(job[w]) /\ job[w].step = step
         /\ job[w].op = "send"
         /\ step \in {"fetch", "measure"} /\ job[w].sends # <<>> => NextFile(w) \in Nat
<1>1. job[w] \in SendJobs /\ Sound(job[w]) /\ job[w].step = step
      /\ job[w].op = "send"
  BY SendKind DEF IInv, Is
<1>2. ASSUME step \in {"fetch", "measure"}, job[w].sends # <<>> PROVE NextFile(w) \in Nat
  <2> DEFINE files == job[w].sends[1]
             n == Len(job[w].got)
  <2>1. files \in Seq(Nat)
    BY <1>1, <1>2, NextSend
  <2>2. n \in Nat /\ n < Len(files)
    BY <1>1, <1>2, LenProperties DEF SendJobs, Sound
  <2>3. n + 1 \in DOMAIN files /\ NextFile(w) = files[n + 1]
    <3>1. NextFile(w) = files[n + 1]
      BY DEF NextFile, Files
    <3> HIDE DEF files, n
    <3> QED BY <2>1, <2>2, <3>1, LenProperties
  <2> HIDE DEF files, n
  <2> QED BY <2>1, <2>3, ElementOfSeq
<1> QED BY <1>1, <1>2

LEMMA GiveUpIs ==
  ASSUME IInv, NEW w \in Workers, Is(w, "send", job[w].step), job[w].step # "tidy",
         job[w].sends # <<>>, GiveUp(w)
  PROVE  \E j : /\ Proper(j) /\ job' = [job EXCEPT ![w] = j]
                /\ j.op = "send" /\ j.answer = job[w].answer /\ j.sends = job[w].sends
                /\ j.got = job[w].got
<1> DEFINE b == job[w]
           j == [b EXCEPT !.step = "tidy", !.failed = @ \cup SX!ToSet(b.sends[1])]
<1>1. b \in SendJobs /\ Sound(b) /\ b.op = "send"
  BY SendStep
<1>2. Proper(j)
  <2> HIDE DEF b
  <2> QED BY <1>1, GivenUpProper DEF b
<1>3. job' = [job EXCEPT ![w] = j]
  BY DEF GiveUp, Becomes, Files
<1>4. j.op = "send" /\ j.answer = b.answer /\ j.sends = b.sends /\ j.got = b.got
  <2> HIDE DEF b
  <2> QED BY <1>1 DEF SendJobs
<1> QED BY <1>2, <1>3, <1>4

LEMMA FetchKeeps == ASSUME IInv, NEW w \in Workers, Fetch(w) PROVE IInv'
<1> DEFINE b == job[w]
<1>1. b \in SendJobs /\ Sound(b) /\ b.step = "fetch" /\ b.op = "send" /\ b.sends # <<>>
      /\ NextFile(w) \in Nat
  BY SendStep DEF Fetch
<1>2. UNCHANGED <<intake, inbox, jobs, deaths>>
  BY DEF Fetch
<1>3. CASE /\ outbox' = [outbox EXCEPT ![Name(w, NextFile(w))] = Recent(<<w, NextFile(w)>>)]
           /\ Becomes(w, [b EXCEPT !.step = "measure"])
  <2> DEFINE j == [b EXCEPT !.step = "measure"]
             name == Name(w, NextFile(w))
             file == Recent(<<w, NextFile(w)>>)
  <2>1. Proper(j)
    <3> HIDE DEF b
    <3> QED BY <1>1, FetchedProper
  <2>2. j.op = "send" /\ j.sends = b.sends /\ j.got = b.got /\ j.answer = b.answer
        /\ j.step = "measure"
    <3> HIDE DEF b
    <3> QED BY <1>1 DEF SendJobs
  <2>3. Uses(j, name)
    <3>1. name = b.answer[b.sends[1][Len(b.got) + 1]].name
      BY DEF Name, NextFile, Files
    <3> HIDE DEF b, j, name
    <3> QED BY <1>1, <2>2, <3>1 DEF Uses
  <2>4. \A n \in Names : Uses(b, n) => Uses(j, n)
    <3> HIDE DEF b, j
    <3> QED BY <1>1, <2>2 DEF Uses
  <2>5. file \in Stored((Workers \X Nat) \cup {None})
    BY <1>1 DEF Recent, Stored
  <2>6. job' = [job EXCEPT ![w] = j] /\ outbox' = [outbox EXCEPT ![name] = file]
    BY <1>3 DEF Becomes
  <2> HIDE DEF j, name, file
  <2> QED BY <1>2, <2>1, <2>3, <2>4, <2>5, <2>6, StepInOutbox
<1>4. CASE GiveUp(w) /\ UNCHANGED outbox
  <2>1. PICK j : /\ Proper(j) /\ job' = [job EXCEPT ![w] = j]
                 /\ j.op = "send" /\ j.answer = b.answer /\ j.sends = b.sends /\ j.got = b.got
    BY <1>1, <1>4, GiveUpIs DEF Is
  <2>2. \A n \in Names : Uses(b, n) => Uses(j, n)
    BY <1>1, <2>1 DEF Uses
  <2> QED BY <1>2, <1>4, <2>1, <2>2, StepKeeps DEF IInv, TypeOK
<1> QED BY <1>3, <1>4 DEF Fetch

LEMMA MeasureKeeps == ASSUME IInv, NEW w \in Workers, Measure(w) PROVE IInv'
<1> DEFINE b == job[w]
           file == NextFile(w)
           name == Name(w, file)
<1>1. b \in SendJobs /\ Sound(b) /\ b.step = "measure" /\ b.op = "send" /\ b.sends # <<>>
  BY SendStep DEF Measure, Sound
<1>2. UNCHANGED <<intake, inbox, jobs, deaths>>
  BY DEF Measure
<1>3. name = b.answer[file].name /\ file = b.sends[1][Len(b.got) + 1]
  BY DEF Name, NextFile, Files
<1>4. CASE /\ UNCHANGED outbox
           /\ Becomes(w, [b EXCEPT
                !.got = Append(@, NextFile(w)),
                !.step = IF Len(b.got) + 1 = Len(Files(w)) THEN "send" ELSE "fetch"])
  <2> DEFINE step == IF Len(b.got) + 1 = Len(b.sends[1]) THEN "send" ELSE "fetch"
             j == [b EXCEPT !.got = Append(@, b.sends[1][Len(b.got) + 1]), !.step = step]
  <2>1. Proper(j)
    <3> HIDE DEF b
    <3> QED BY <1>1, MeasuredProper
  <2>2. j.op = "send" /\ j.sends = b.sends /\ j.answer = b.answer /\ j.got = Append(b.got, file)
    <3> HIDE DEF b, step, file
    <3> QED BY <1>1, <1>3 DEF SendJobs
  <2>3. job' = [job EXCEPT ![w] = j]
    BY <1>4 DEF Becomes, NextFile, Files
  <2>4. b.got \in Seq(Nat) /\ file \in Nat
    <3>1. file \in Nat
      BY <1>1, SendStep DEF Measure
    <3> HIDE DEF b, file
    <3> QED BY <1>1, <3>1 DEF SendJobs
  <2> HIDE DEF b, file, j, name
  <2>5. /\ DOMAIN b.got \subseteq DOMAIN j.got /\ Len(b.got) + 1 \in DOMAIN j.got
        /\ \A i \in DOMAIN b.got : j.got[i] = b.got[i]
        /\ j.got[Len(b.got) + 1] = file
    BY <2>2, <2>4
  <2>6. \A n \in Names : Uses(b, n) => Uses(j, n)
    BY <1>1, <1>3, <2>2, <2>5 DEF Uses
  <2> QED BY <1>2, <1>4, <2>1, <2>3, <2>6, StepKeeps DEF IInv, TypeOK, b
<1>5. CASE GiveUp(w) /\ outbox' = [outbox EXCEPT ![name] = None]
  <2>1. PICK j : /\ Proper(j) /\ job' = [job EXCEPT ![w] = j]
                 /\ j.op = "send" /\ j.answer = b.answer /\ j.sends = b.sends /\ j.got = b.got
    BY <1>1, <1>5, GiveUpIs DEF Is
  <2> HIDE DEF b, file, name
  <2>2. \A n \in Names \ {name} : Uses(b, n) => Uses(j, n)
    BY <1>1, <1>3, <2>1 DEF Uses
  <2> QED BY <1>2, <1>5, <2>1, <2>2, StepInOutbox DEF b
<1> QED BY <1>4, <1>5 DEF Measure

LEMMA RequestKeeps == ASSUME IInv, NEW w \in Workers, Is(w, "send", "send"), Request(w) PROVE IInv'
<1> DEFINE b == job[w]
           Follows(j) == /\ Proper(j) /\ job' = [job EXCEPT ![w] = j] /\ j.op = "send"
                         /\ j.answer = b.answer /\ j.sends = b.sends /\ j.got = b.got
<1>1. b \in SendJobs /\ Sound(b) /\ b.step = "send" /\ b.op = "send" /\ b.sends # <<>>
  BY SendStep DEF Sound
<1>2. UNCHANGED <<outbox, intake, inbox, jobs, deaths>>
  BY DEF Request
<1>3. \E j : Follows(j)
  <2>1. CASE GiveUp(w)
    BY <1>1, <2>1, GiveUpIs DEF Is
  <2>2. ASSUME NEW heard \in BOOLEAN,
               Becomes(w, [b EXCEPT !.step = "tidy", !.arrived = @ \o Files(w),
                                    !.shown = @ \o Shown(b.answer, Files(w)),
                                    !.failed = IF heard THEN @ ELSE @ \cup SX!ToSet(Files(w))])
        PROVE  \E j : Follows(j)
    <3> DEFINE arrived == b.arrived \o b.sends[1]
               shown == b.shown \o Shown(b.answer, b.sends[1])
               failed == IF heard THEN b.failed ELSE b.failed \cup SX!ToSet(b.sends[1])
               j == [b EXCEPT !.step = "tidy", !.arrived = arrived, !.shown = shown,
                              !.failed = failed]
    <3>1. Proper([b EXCEPT !.step = "tidy", !.arrived = @ \o b.sends[1],
                           !.shown = @ \o Shown(b.answer, b.sends[1]),
                           !.failed = IF heard THEN @ ELSE @ \cup SX!ToSet(b.sends[1])])
      <4> HIDE DEF b
      <4> QED BY <1>1, RequestedProper
    <3>2. job' = [job EXCEPT ![w] = j]
      BY <2>2 DEF Becomes, Files
    <3>3. j.op = "send" /\ j.answer = b.answer /\ j.sends = b.sends /\ j.got = b.got
      <4> HIDE DEF b, arrived, shown, failed
      <4> QED BY <1>1 DEF SendJobs
    <3> QED BY <3>1, <3>2, <3>3
  <2> QED BY <2>1, <2>2 DEF Request
<1>4. PICK j : Follows(j)
  BY <1>3
<1>5. \A n \in Names : Uses(b, n) => Uses(j, n)
  <2> HIDE DEF b
  <2> QED BY <1>1, <1>4 DEF Uses
<1> QED BY <1>2, <1>4, <1>5, StepKeeps DEF IInv, TypeOK

LEMMA TidyKeeps == ASSUME IInv, NEW w \in Workers, Tidy(w) PROVE IInv'
<1> DEFINE b == job[w]
<1>1. b \in SendJobs /\ Sound(b) /\ b.step = "tidy" /\ b.op = "send"
  BY SendStep DEF Tidy
<1>2. UNCHANGED <<intake, inbox, jobs, deaths>>
  BY DEF Tidy
<1>3. CASE b.got = <<>>
  <2> DEFINE j == [b EXCEPT !.sends = Tail(@), !.step = "fetch"]
  <2>1. Proper(j)
    <3> HIDE DEF b
    <3> QED BY <1>1, <1>3, TidiedProper
  <2>2. \A n \in Names : ~Uses(b, n)
    <3> HIDE DEF b
    <3> QED BY <1>1, <1>3 DEF Uses
  <2>3. job' = [job EXCEPT ![w] = j] /\ UNCHANGED outbox
    BY <1>3 DEF Tidy, Becomes
  <2> HIDE DEF j
  <2> QED BY <1>2, <2>1, <2>2, <2>3, StepKeeps DEF IInv, TypeOK
<1>4. CASE b.got # <<>>
  <2> DEFINE j == [b EXCEPT !.got = Tail(@)]
             name == Name(w, Head(b.got))
  <2>1. Proper(j)
    <3> HIDE DEF b
    <3> QED BY <1>1, <1>4, TidiedProper
  <2>2. j.op = "send" /\ j.answer = b.answer /\ j.sends = b.sends /\ j.step = "tidy"
        /\ j.got = Tail(b.got)
    <3> HIDE DEF b
    <3> QED BY <1>1 DEF SendJobs
  <2>3. name = b.answer[Head(b.got)].name
    BY DEF Name
  <2>4. job' = [job EXCEPT ![w] = j] /\ outbox' = [outbox EXCEPT ![name] = None]
    BY <1>4 DEF Tidy, Becomes
  <2>5. b.got \in Seq(Nat)
    <3> HIDE DEF b
    <3> QED BY <1>1 DEF SendJobs
  <2> HIDE DEF b, j, name
  <2>6. \A i \in DOMAIN b.got : \/ b.got[i] = Head(b.got)
                                \/ \E k \in DOMAIN j.got : j.got[k] = b.got[i]
    <3> TAKE i \in DOMAIN b.got
    <3>1. i \in 1 .. Len(b.got) /\ Len(b.got) \in Nat
      BY <2>5, LenProperties
    <3>2. CASE i = 1
      BY <3>2
    <3>3. CASE i # 1
      <4>1. j.got \in Seq(Nat) /\ Len(j.got) = Len(b.got) - 1
            /\ \A k \in 1 .. Len(j.got) : j.got[k] = b.got[k + 1]
        BY <1>4, <2>2, <2>5, HeadTailProperties
      <4>2. i - 1 \in 1 .. Len(j.got) /\ i - 1 + 1 = i
        BY <3>1, <3>3, <4>1
      <4>3. i - 1 \in DOMAIN j.got /\ j.got[i - 1] = b.got[i]
        BY <4>1, <4>2, LenProperties
      <4> QED BY <4>3
    <3> QED BY <3>2, <3>3
  <2>7. \A n \in Names \ {name} : Uses(b, n) => Uses(j, n)
    BY <1>1, <2>2, <2>3, <2>6 DEF Uses
  <2> QED BY <1>2, <2>1, <2>4, <2>7, StepInOutbox DEF b
<1> QED BY <1>3, <1>4

LEMMA SentKeeps == ASSUME IInv, NEW w \in Workers, Sent(w) PROVE IInv'
<1>1. \A n \in Names : ~Uses(job[w], n)
  BY DEF Sent, Uses
<1>2. Proper(NoJob) /\ job' = [job EXCEPT ![w] = NoJob]
      /\ UNCHANGED <<outbox, intake, inbox, jobs, deaths>>
  BY DEF Sent, Becomes, Proper
<1> QED BY <1>1, <1>2, StepKeeps DEF IInv, TypeOK

-----------------------------------------------------------------------------
(* A message's steps.                                                      *)
LEMMA ReceiveStep ==
  ASSUME IInv, NEW w \in Workers, NEW step, Is(w, "receive", step)
  PROVE  /\ job[w] \in ReceiveJobs /\ Placed(job[w]) /\ job[w].step = step
         /\ job[w].mail \in Mail /\ job[w].at \in Nat \ {0}
         /\ DOMAIN job[w].mail.kinds = 1 .. Len(job[w].mail.kinds)
         /\ Len(job[w].mail.kinds) \in Nat
         /\ job[w].mail.chat \in Chats
         /\ job[w].at \in DOMAIN job[w].mail.kinds => Current(w) \in FileNames
         /\ \A n \in Names : ~Uses(job[w], n)
<1>1. job[w] \in ReceiveJobs /\ Placed(job[w]) /\ job[w].step = step /\ job[w].op = "receive"
  BY ReceiveKind DEF IInv, Is
<1>2. job[w].mail \in Mail /\ job[w].at \in Nat \ {0}
  BY <1>1 DEF ReceiveJobs
<1>3. job[w].mail.kinds \in Seq(AttachmentKind)
  BY <1>2, AttachmentsAssumption
<1>4. job[w].at \in DOMAIN job[w].mail.kinds => Current(w) \in FileNames
  BY <1>2 DEF Current, FileNames
<1> QED BY <1>1, <1>2, <1>3, <1>4, LenProperties DEF Chats, Uses

\* A message's step leaves the outbox alone.
LEMMA ReceiveKeeps ==
  ASSUME IInv, NEW w \in Workers, NEW step, Is(w, "receive", step),
         NEW j, Becomes(w, j), Proper(j),
         UNCHANGED <<outbox, jobs, deaths>>,
         intake' \in [FileNames -> Stored(Chats) \cup {None}],
         inbox' \in [FileNames -> Stored(Chats) \cup {None}]
  PROVE  IInv'
<1>1. \A n \in Names : ~Uses(job[w], n)
  BY ReceiveStep
<1> QED BY <1>1, StepKeeps DEF Becomes, IInv, TypeOK

LEMMA OnwardProper ==
  ASSUME NEW b \in ReceiveJobs, NEW told \in SUBSET FileNames
  PROVE  Proper([b EXCEPT !.at = @ + 1, !.step = "fetch", !.told = told])
<1> DEFINE at == b.at + 1
           j == [b EXCEPT !.at = at, !.step = "fetch", !.told = told]
<1>1. at \in Nat \ {0}
  BY DEF ReceiveJobs
<1> HIDE DEF at
<1>2. j \in ReceiveJobs /\ j.step = "fetch"
  BY <1>1 DEF ReceiveJobs
<1>3. Proper(j)
  <2> HIDE DEF j
  <2> QED BY <1>2 DEF Proper, Placed
<1> QED BY <1>3 DEF at

LEMMA OnwardIs ==
  ASSUME NEW w, NEW told, Onward(w, told)
  PROVE  Becomes(w, [job[w] EXCEPT !.at = @ + 1, !.step = "fetch", !.told = told])
  BY DEF Onward

LEMMA SteppedProper ==
  ASSUME NEW b \in ReceiveJobs, NEW step \in {"upload", "remove"}, b.at \in DOMAIN b.mail.kinds
  PROVE  Proper([b EXCEPT !.step = step])
<1> DEFINE j == [b EXCEPT !.step = step]
<1>1. j \in ReceiveJobs /\ j.at = b.at /\ j.mail = b.mail
  BY DEF ReceiveJobs
<1> HIDE DEF j
<1> QED BY <1>1 DEF Proper, Placed, j

LEMMA PullKeeps == ASSUME IInv, NEW w \in Workers, Pull(w) PROVE IInv'
<1>1. Is(w, "receive", "fetch") /\ UNCHANGED <<outbox, jobs, deaths>> /\ UNCHANGED inbox
  BY DEF Pull
<1>2. /\ job[w] \in ReceiveJobs /\ job[w].at \in DOMAIN job[w].mail.kinds
      /\ job[w].mail.chat \in Chats /\ Current(w) \in FileNames
      /\ job[w].told \in SUBSET FileNames
  <2>1. job[w].at \in DOMAIN job[w].mail.kinds
    BY <1>1, ReceiveStep DEF Pull
  <2> QED BY <1>1, <2>1, ReceiveStep DEF ReceiveJobs
<1>3. intake' \in [FileNames -> Stored(Chats) \cup {None}]
  <2>1. Recent(job[w].mail.chat) \in Stored(Chats)
    BY <1>2 DEF Recent, Stored
  <2>2. intake' = [intake EXCEPT ![Current(w)] = Recent(job[w].mail.chat)] \/ UNCHANGED intake
    BY DEF Pull
  <2> QED BY <2>1, <2>2 DEF IInv, TypeOK
<1>4. inbox' \in [FileNames -> Stored(Chats) \cup {None}]
  BY <1>1 DEF IInv, TypeOK
<1>5. \E j : Becomes(w, j) /\ Proper(j)
  <2>1. CASE Onward(w, job[w].told)
    BY <1>2, <2>1, OnwardIs, OnwardProper
  <2>2. CASE Becomes(w, [job[w] EXCEPT !.step = "upload"])
    BY <1>2, <2>2, SteppedProper
  <2>3. CASE Abandon(w)
    BY <2>3 DEF Abandon, Proper
  <2> QED BY <2>1, <2>2, <2>3 DEF Pull
<1> QED BY <1>1, <1>3, <1>4, <1>5, ReceiveKeeps

LEMMA TranscribeKeeps == ASSUME IInv, NEW w \in Workers, Transcribe(w) PROVE IInv'
<1>1. Is(w, "receive", "upload") /\ UNCHANGED <<outbox, jobs, deaths>> /\ UNCHANGED inbox
      /\ Onward(w, job[w].told)
  BY DEF Transcribe
<1>2. job[w] \in ReceiveJobs /\ job[w].told \in SUBSET FileNames
  BY <1>1, ReceiveStep DEF ReceiveJobs
<1>3. intake' \in [FileNames -> Stored(Chats) \cup {None}]
      /\ inbox' \in [FileNames -> Stored(Chats) \cup {None}]
  BY DEF Transcribe, IInv, TypeOK
<1>4. \E j : Becomes(w, j) /\ Proper(j)
  BY <1>1, <1>2, OnwardIs, OnwardProper
<1> QED BY <1>1, <1>3, <1>4, ReceiveKeeps

LEMMA UploadKeeps == ASSUME IInv, NEW w \in Workers, Upload(w) PROVE IInv'
<1>1. Is(w, "receive", "upload") /\ UNCHANGED <<outbox, jobs, deaths>> /\ UNCHANGED intake
  BY DEF Upload
<1>2. job[w] \in ReceiveJobs /\ job[w].at \in DOMAIN job[w].mail.kinds /\ Current(w) \in FileNames
  <2>1. job[w].at \in DOMAIN job[w].mail.kinds
    BY <1>1, ReceiveStep DEF Placed
  <2> QED BY <1>1, <2>1, ReceiveStep
<1>3. intake' \in [FileNames -> Stored(Chats) \cup {None}]
      /\ inbox' \in [FileNames -> Stored(Chats) \cup {None}]
  BY <1>2 DEF Upload, IInv, TypeOK
<1>4. \E j : Becomes(w, j) /\ Proper(j)
  <2>1. CASE Becomes(w, [job[w] EXCEPT !.step = "remove"])
    BY <1>2, <2>1, SteppedProper
  <2>2. CASE Abandon(w)
    BY <2>2 DEF Abandon, Proper
  <2> QED BY <2>1, <2>2 DEF Upload
<1> QED BY <1>1, <1>3, <1>4, ReceiveKeeps

LEMMA RemoveKeeps == ASSUME IInv, NEW w \in Workers, Remove(w) PROVE IInv'
<1>1. Is(w, "receive", "remove") /\ UNCHANGED <<outbox, jobs, deaths>> /\ UNCHANGED inbox
      /\ Onward(w, job[w].told \cup {Current(w)})
  BY DEF Remove
<1>2. job[w] \in ReceiveJobs /\ job[w].told \cup {Current(w)} \in SUBSET FileNames
  <2>1. Current(w) \in FileNames
    BY <1>1, ReceiveStep DEF Placed
  <2> QED BY <1>1, <2>1, ReceiveStep DEF ReceiveJobs
<1>3. intake' \in [FileNames -> Stored(Chats) \cup {None}]
      /\ inbox' \in [FileNames -> Stored(Chats) \cup {None}]
  BY DEF Remove, IInv, TypeOK
<1>4. \E j : Becomes(w, j) /\ Proper(j)
  BY <1>1, <1>2, OnwardIs, OnwardProper
<1> QED BY <1>1, <1>3, <1>4, ReceiveKeeps

LEMMA ReceivedKeeps == ASSUME IInv, NEW w \in Workers, Received(w) PROVE IInv'
<1>1. Is(w, "receive", "fetch") /\ UNCHANGED <<outbox, intake, inbox, jobs, deaths>>
      /\ Becomes(w, NoJob) /\ Proper(NoJob)
  BY DEF Received, Abandon, Proper
<1>2. intake' \in [FileNames -> Stored(Chats) \cup {None}]
      /\ inbox' \in [FileNames -> Stored(Chats) \cup {None}]
  BY <1>1 DEF IInv, TypeOK
<1> QED BY <1>1, <1>2, ReceiveKeeps

-----------------------------------------------------------------------------
(* What concerns all workers.                                              *)
LEMMA DieKeeps == ASSUME IInv, Die PROVE IInv'
<1>1. job' = [w \in Workers |-> NoJob] /\ UNCHANGED <<intake, inbox, jobs>> /\ deaths' = deaths + 1
      /\ outbox' = [n \in Names |-> IF outbox[n] = None THEN None ELSE [outbox[n] EXCEPT !.of = None]]
  BY DEF Die
<1>2. ASSUME NEW n \in Names
      PROVE  /\ outbox'[n] \in Stored((Workers \X Nat) \cup {None}) \cup {None}
             /\ outbox'[n] = None \/ outbox'[n].of = None
  <2>1. outbox[n] = None \/ outbox[n] \in Stored((Workers \X Nat) \cup {None})
    BY DEF IInv, TypeOK
  <2> QED BY <1>1, <2>1 DEF Stored
<1>3. TypeOK'
  <2>1. outbox' \in [Names -> Stored((Workers \X Nat) \cup {None}) \cup {None}]
    <3> DEFINE Marked(n) == IF outbox[n] = None THEN None ELSE [outbox[n] EXCEPT !.of = None]
    <3>1. outbox' = [n \in Names |-> Marked(n)]
      BY <1>1
    <3> HIDE DEF Marked
    <3> QED BY <1>2, <3>1
  <2>2. job' \in [Workers -> SendJobs \cup ReceiveJobs \cup {NoJob}] /\ deaths' \in Nat
    BY <1>1 DEF IInv, TypeOK
  <2> QED BY <1>1, <2>1, <2>2 DEF IInv, TypeOK
<1>4. JobsInv'
  BY <1>1 DEF JobsInv, Proper
<1>5. FilesHaveUsers'
  BY <1>2, UsersUseNext
<1> QED BY <1>3, <1>4, <1>5 DEF IInv

\* Time and the cleanup age files and remove them; they make none.
LEMMA ShrinkKeeps ==
  ASSUME IInv, UNCHANGED <<job, jobs, deaths>>,
         intake' \in [FileNames -> Stored(Chats) \cup {None}],
         inbox' \in [FileNames -> Stored(Chats) \cup {None}],
         outbox' \in [Names -> Stored((Workers \X Nat) \cup {None}) \cup {None}],
         \A n \in Names : outbox'[n] # None => outbox[n] # None /\ outbox'[n].of = outbox[n].of
  PROVE  IInv'
<1>1. TypeOK' /\ JobsInv'
  BY DEF IInv, TypeOK, JobsInv
<1>2. FilesHaveUsers'
  BY UsersUse, UsersUseNext DEF IInv
<1> QED BY <1>1, <1>2 DEF IInv

LEMMA AgedIs ==
  ASSUME NEW S, NEW T, NEW files \in [S -> Stored(T) \cup {None}]
  PROVE  /\ Aged(files) \in [S -> Stored(T) \cup {None}]
         /\ \A n \in S : Aged(files)[n] # None =>
              files[n] # None /\ Aged(files)[n].of = files[n].of
<1>1. ASSUME NEW n \in S, files[n] # None
      PROVE  /\ [files[n] EXCEPT !.old = TRUE] \in Stored(T)
             /\ [files[n] EXCEPT !.old = TRUE].of = files[n].of
  <2>1. files[n] \in Stored(T)
    BY <1>1
  <2> QED BY <2>1 DEF Stored
<1>2. DOMAIN files = S
  OBVIOUS
<1> QED BY <1>1, <1>2 DEF Aged

LEMMA KeptIs ==
  ASSUME NEW S, NEW T, NEW files \in [S -> Stored(T) \cup {None}]
  PROVE  /\ Kept(files) \in [S -> Stored(T) \cup {None}]
         /\ \A n \in S : Kept(files)[n] # None => Kept(files)[n] = files[n]
  BY DEF Kept

LEMMA DaysPassKeeps == ASSUME IInv, DaysPass PROVE IInv'
<1>1. UNCHANGED <<job, jobs, deaths>> /\ outbox' = Aged(outbox) /\ intake' = Aged(intake)
      /\ inbox' = Aged(inbox)
  BY DEF DaysPass
<1>2. /\ outbox \in [Names -> Stored((Workers \X Nat) \cup {None}) \cup {None}]
      /\ intake \in [FileNames -> Stored(Chats) \cup {None}]
      /\ inbox \in [FileNames -> Stored(Chats) \cup {None}]
  BY DEF IInv, TypeOK
<1>3. /\ outbox' \in [Names -> Stored((Workers \X Nat) \cup {None}) \cup {None}]
      /\ \A n \in Names : outbox'[n] # None => outbox[n] # None /\ outbox'[n].of = outbox[n].of
  <2> DEFINE T == (Workers \X Nat) \cup {None}
  <2>1. outbox \in [Names -> Stored(T) \cup {None}]
    BY <1>2
  <2> HIDE DEF T
  <2>2. /\ Aged(outbox) \in [Names -> Stored(T) \cup {None}]
        /\ \A n \in Names : Aged(outbox)[n] # None =>
             outbox[n] # None /\ Aged(outbox)[n].of = outbox[n].of
    BY <2>1, AgedIs
  <2> QED BY <1>1, <2>2 DEF T
<1>4. intake' \in [FileNames -> Stored(Chats) \cup {None}]
      /\ inbox' \in [FileNames -> Stored(Chats) \cup {None}]
  BY <1>1, <1>2, AgedIs
<1> QED BY <1>1, <1>3, <1>4, ShrinkKeeps

LEMMA CleanupKeeps == ASSUME IInv, Cleanup PROVE IInv'
<1>1. UNCHANGED <<job, jobs, deaths>> /\ inbox' = Kept(inbox)
      /\ (outbox' = Kept(outbox) \/ outbox' = outbox) /\ (intake' = Kept(intake) \/ intake' = intake)
  BY DEF Cleanup
<1>2. /\ outbox \in [Names -> Stored((Workers \X Nat) \cup {None}) \cup {None}]
      /\ intake \in [FileNames -> Stored(Chats) \cup {None}]
      /\ inbox \in [FileNames -> Stored(Chats) \cup {None}]
  BY DEF IInv, TypeOK
<1>3. /\ outbox' \in [Names -> Stored((Workers \X Nat) \cup {None}) \cup {None}]
      /\ \A n \in Names : outbox'[n] # None => outbox[n] # None /\ outbox'[n].of = outbox[n].of
  <2> DEFINE T == (Workers \X Nat) \cup {None}
  <2>1. outbox \in [Names -> Stored(T) \cup {None}]
    BY <1>2
  <2> HIDE DEF T
  <2>2. /\ Kept(outbox) \in [Names -> Stored(T) \cup {None}]
        /\ \A n \in Names : Kept(outbox)[n] # None => Kept(outbox)[n] = outbox[n]
    BY <2>1, KeptIs
  <2>3. CASE outbox' = outbox
    BY <2>1, <2>3 DEF T
  <2>4. CASE outbox' = Kept(outbox)
    BY <2>2, <2>4 DEF T
  <2> QED BY <1>1, <2>3, <2>4
<1>4. intake' \in [FileNames -> Stored(Chats) \cup {None}]
      /\ inbox' \in [FileNames -> Stored(Chats) \cup {None}]
  BY <1>1, <1>2, KeptIs
<1> QED BY <1>1, <1>3, <1>4, ShrinkKeeps

-----------------------------------------------------------------------------
LEMMA InitInv == ASSUME Init PROVE IInv
<1>1. TypeOK
  BY DEF Init, TypeOK
<1>2. JobsInv
  BY DEF Init, JobsInv, Proper
<1>3. FilesHaveUsers
  BY DEF Init, FilesHaveUsers
<1> QED BY <1>1, <1>2, <1>3 DEF IInv

LEMMA StutterKeeps == ASSUME IInv, UNCHANGED vars PROVE IInv'
<1> USE DEF vars
<1>1. TypeOK'
  BY DEF IInv, TypeOK
<1>2. JobsInv'
  BY DEF IInv, JobsInv
<1>3. FilesHaveUsers'
  BY UsersUse, UsersUseNext DEF IInv
<1> QED BY <1>1, <1>2, <1>3 DEF IInv

LEMMA StepInv == ASSUME IInv, [Next]_vars PROVE IInv'
<1>1. ASSUME NEW w \in Workers, Begin(w) PROVE IInv'
  BY <1>1, BeginKeeps
<1>2. ASSUME NEW w \in Workers, Fetch(w) PROVE IInv'
  BY <1>2, FetchKeeps
<1>3. ASSUME NEW w \in Workers, Measure(w) PROVE IInv'
  BY <1>3, MeasureKeeps
<1>4. ASSUME NEW w \in Workers, SendSingle(w) \/ SendGroup(w) PROVE IInv'
  BY <1>4, RequestKeeps DEF SendSingle, SendGroup
<1>5. ASSUME NEW w \in Workers, Tidy(w) PROVE IInv'
  BY <1>5, TidyKeeps
<1>6. ASSUME NEW w \in Workers, Sent(w) PROVE IInv'
  BY <1>6, SentKeeps
<1>7. ASSUME NEW w \in Workers, Pull(w) PROVE IInv'
  BY <1>7, PullKeeps
<1>8. ASSUME NEW w \in Workers, Transcribe(w) PROVE IInv'
  BY <1>8, TranscribeKeeps
<1>9. ASSUME NEW w \in Workers, Upload(w) PROVE IInv'
  BY <1>9, UploadKeeps
<1>10. ASSUME NEW w \in Workers, Remove(w) PROVE IInv'
  BY <1>10, RemoveKeeps
<1>11. ASSUME NEW w \in Workers, Received(w) PROVE IInv'
  BY <1>11, ReceivedKeeps
<1>12. CASE Die
  BY <1>12, DieKeeps
<1>13. CASE DaysPass
  BY <1>13, DaysPassKeeps
<1>14. CASE Cleanup
  BY <1>14, CleanupKeeps
<1>15. CASE UNCHANGED vars
  BY <1>15, StutterKeeps
<1> QED BY <1>1, <1>2, <1>3, <1>4, <1>5, <1>6, <1>7, <1>8, <1>9, <1>10, <1>11, <1>12, <1>13,
           <1>14, <1>15 DEF Next

\* Whatever Claude answers and whoever writes, every job is one its worker can
\* go on with: what was fetched is less than its send has files, what arrived,
\* what is to be sent and what failed are the whole answer, and each file of
\* the outbox has a user (the jobs of send_attachments and of the download).
THEOREM JobsAreSound == Spec => []IInv
<1>1. Init => IInv
  BY InitInv
<1>2. IInv /\ [Next]_vars => IInv'
  BY StepInv
<1> QED BY <1>1, <1>2, PTL DEF Spec

\* For any answer, however its albums are split, degraded to single sends or
\* given up: each file is sent, still to be sent, or named in the error that
\* send_attachments returns, none is sent twice, and the captions of all that
\* was sent are shown, save those of video notes and stickers
\* (classify_media_group, partition_sends, merge_group_captions, send_single).
THEOREM FilesAreAccounted == Spec => []AccountedOnce
<1>1. IInv => AccountedOnce
  <2> SUFFICES ASSUME IInv, NEW w \in Workers, Is(w, "send", "fetch")
               PROVE  Whole(job[w].answer, job[w].arrived, job[w].sends, job[w].failed, job[w].shown)
    BY DEF AccountedOnce, Whole, CaptionsOf
  <2>1. Sound(job[w]) /\ job[w].step = "fetch"
    BY SendStep
  <2> QED BY <2>1 DEF Sound, Rest
<1> QED BY <1>1, JobsAreSound, PTL

\* Every call of sendMediaGroup has 2 to MEDIA_GROUP_MAX files of kinds that
\* may stand together; all else goes by single sends.
THEOREM AlbumsAreAccepted == Spec => []AlbumsAreAcceptable
<1>1. IInv => AlbumsAreAcceptable
  <2> SUFFICES ASSUME IInv, NEW w \in Workers, job[w].op = "send", NEW i \in DOMAIN job[w].sends
               PROVE  Acceptable(job[w].answer, job[w].sends[i])
    BY DEF AlbumsAreAcceptable, Acceptable
  <2> QED BY SendKind DEF IInv, Sound
<1> QED BY <1>1, JobsAreSound, PTL

\* No file that was fetched into tmp/outbox is forgotten there, whichever way
\* its send ends and whoever else uses its name, except by a bot that dies.
THEOREM FilesAreInHands == Spec => []FilesHaveUsers
<1>1. IInv => FilesHaveUsers
  BY DEF IInv
<1> QED BY <1>1, JobsAreSound, PTL
=============================================================================
