------------------------------- MODULE KissLemmas -------------------------------
(***************************************************************************)
(* What the theorems about the serial service rest on: induction in a form *)
(* first-order provers can use, the KISS coding for every payload, and the *)
(* line cut at a FEND, with octets of many Sends on it.                    *)
(*                                                                         *)
(* The claim of an induction is given as the set of those numbers, or of   *)
(* those sequences, of which it is true.                                   *)
(***************************************************************************)
EXTENDS Integers, Routers, SequencesExt, SequenceTheorems, WellFoundedInduction, TLAPS

------------------------------------------------------------------------------
(* Induction.                                                              *)

\* A set of naturals that is not empty has a least element.
LEMMA LeastNat ==
    ASSUME NEW Claim \in SUBSET Nat, Claim # {}
    PROVE  \E n \in Claim : \A m \in Claim : n <= m
<1> DEFINE R == {ss \in Nat \X Nat : ss[1] < ss[2]}
<1>1. R = OpToRel(<, Nat)
  BY Zenon DEF OpToRel
<1>2. IsWellFoundedOn(R, Nat)
  BY <1>1, NatLessThanWellFounded, Zenon
<1> HIDE DEF R
<1>3. PICK x \in Claim : \A y \in Claim : ~(<<y, x>> \in R)
  BY <1>2, WFMin
<1>4. ASSUME NEW y \in Claim PROVE x <= y
  <2>1. ~(<<y, x>> \in R) /\ x \in Nat /\ y \in Nat
    BY <1>3
  <2>2. ~(y < x)
    BY <2>1 DEF R
  <2> QED
    BY <2>1, <2>2
<1> QED
  BY <1>3, <1>4

\* A set of naturals with 0 and with the successor of each of its members.
LEMMA Induct ==
    ASSUME NEW Claim \in SUBSET Nat, 0 \in Claim, \A n \in Claim : n + 1 \in Claim
    PROVE  Claim = Nat
<1>1. SUFFICES ASSUME Nat \ Claim # {} PROVE FALSE
  OBVIOUS
<1>2. PICK n \in Nat \ Claim : \A m \in Nat \ Claim : n <= m
  BY <1>1, LeastNat
<1>3. n # 0 /\ n - 1 \in Nat /\ ~(n <= n - 1)
  BY <1>2
<1>4. n - 1 \in Claim
  BY <1>2, <1>3
<1> QED
  BY <1>2, <1>4

------------------------------------------------------------------------------
(* Going through a sequence.                                               *)

\* f has gone through the first n elements of s: it starts from a and takes one
\* step per element.
Goes(f, step, a, s, n) ==
    /\ f[0] = a
    /\ \A i \in 1 .. n : f[i] = step[<<f[i - 1], s[i]>>]

\* There is such an f for every step and every sequence, with values of its type.
LEMMA GoesExists ==
    ASSUME NEW A, NEW B, NEW step \in [A \X B -> A], NEW a \in A, NEW s \in Seq(B)
    PROVE  \E f \in [0 .. Len(s) -> A] : Goes(f, step, a, s, Len(s))
<1> DEFINE Claim == {n \in Nat : n <= Len(s) => \E f \in [0 .. n -> A] : Goes(f, step, a, s, n)}
<1>1. 0 \in Claim
  <2>1. [i \in 0 .. 0 |-> a] \in [0 .. 0 -> A] /\ Goes([i \in 0 .. 0 |-> a], step, a, s, 0)
    BY DEF Goes
  <2> QED
    BY <2>1
<1>2. ASSUME NEW n \in Claim PROVE n + 1 \in Claim
  <2>1. SUFFICES ASSUME n + 1 <= Len(s)
                 PROVE  \E f \in [0 .. n + 1 -> A] : Goes(f, step, a, s, n + 1)
    OBVIOUS
  <2>2. PICK f \in [0 .. n -> A] : Goes(f, step, a, s, n)
    BY <2>1
  <2> DEFINE x == step[<<f[n], s[n + 1]>>]
             g == [i \in 0 .. n + 1 |-> IF i = n + 1 THEN x ELSE f[i]]
  <2>3. x \in A
    BY <2>1, <2>2
  <2> HIDE DEF x
  <2>4. g \in [0 .. n + 1 -> A]
    BY <2>2, <2>3
  <2>5. Goes(g, step, a, s, n + 1)
    <3>1. g[0] = a
      BY <2>2 DEF Goes
    <3>2. ASSUME NEW i \in 1 .. n + 1 PROVE g[i] = step[<<g[i - 1], s[i]>>]
      <4>1. g[i] = IF i = n + 1 THEN x ELSE f[i]
        OBVIOUS
      <4>2. g[i - 1] = f[i - 1]
        OBVIOUS
      <4> HIDE DEF g
      <4>3. CASE i = n + 1
        <5>1. g[i] = x /\ i - 1 = n
          BY <4>1, <4>3
        <5> QED
          BY <4>2, <4>3, <5>1 DEF x
      <4>4. CASE i # n + 1
        BY <4>1, <4>2, <4>4, <2>2 DEF Goes
      <4> QED
        BY <4>3, <4>4
    <3> QED
      BY <3>1, <3>2 DEF Goes
  <2> QED
    BY <2>4, <2>5
<1> HIDE DEF Claim
<1>3. Claim \in SUBSET Nat
  BY DEF Claim
<1>4. Claim = Nat
  BY <1>1, <1>2, <1>3, Induct
<1>5. Len(s) \in Nat
  OBVIOUS
<1> QED
  BY <1>4, <1>5 DEF Claim

\* s and t have the same first n elements.
Agree(s, t, n) == \A i \in 1 .. n : s[i] = t[i]

\* f depends on nothing but the elements it went through.
LEMMA GoesUnique ==
    ASSUME NEW step, NEW a, NEW s, NEW t, NEW n \in Nat, NEW f, NEW g,
           Agree(s, t, n), Goes(f, step, a, s, n), Goes(g, step, a, t, n)
    PROVE  f[n] = g[n]
<1> DEFINE Claim == {m \in Nat : m <= n => f[m] = g[m]}
<1>1. 0 \in Claim
  BY DEF Goes
<1>2. ASSUME NEW m \in Claim PROVE m + 1 \in Claim
  <2>1. SUFFICES ASSUME m + 1 <= n PROVE f[m + 1] = g[m + 1]
    OBVIOUS
  <2>2. m + 1 \in 1 .. n /\ (m + 1) - 1 = m /\ f[m] = g[m]
    BY <2>1
  <2>3. f[m + 1] = step[<<f[m], s[m + 1]>>] /\ g[m + 1] = step[<<g[m], t[m + 1]>>]
        /\ s[m + 1] = t[m + 1]
    BY <2>2 DEF Goes, Agree
  <2> QED
    BY <2>2, <2>3
<1> HIDE DEF Claim
<1>3. Claim \in SUBSET Nat
  BY DEF Claim
<1>4. Claim = Nat
  BY <1>1, <1>2, <1>3, Induct
<1> QED
  BY <1>4 DEF Claim

------------------------------------------------------------------------------
(* Sequences.                                                              *)

\* Induction on the length of a sequence: Claim is the set of those of which the
\* claim is true.
LEMMA SeqInduct ==
    ASSUME NEW T, NEW Claim, <<>> \in Claim,
           \A s \in Seq(T), o \in T : s \in Claim => Append(s, o) \in Claim
    PROVE  \A s \in Seq(T) : s \in Claim
<1> DEFINE L == {n \in Nat : \A s \in Seq(T) : Len(s) = n => s \in Claim}
<1>1. 0 \in L
  BY EmptySeq
<1>2. ASSUME NEW n \in L PROVE n + 1 \in L
  <2>1. SUFFICES ASSUME NEW s \in Seq(T), Len(s) = n + 1 PROVE s \in Claim
    OBVIOUS
  <2>2. s # <<>>
    BY <2>1, EmptySeq
  <2>3. PICK q \in Seq(T), o \in T : s = Append(q, o)
    BY <2>2, SequenceEmptyOrAppend
  <2>4. Len(q) = n
    BY <2>1, <2>3, AppendProperties
  <2>5. q \in Claim
    BY <2>3, <2>4
  <2> QED
    BY <2>3, <2>5
<1> HIDE DEF L
<1>3. L \in SUBSET Nat
  BY DEF L
<1>4. L = Nat
  BY <1>1, <1>2, <1>3, Induct
<1> QED
  BY <1>4 DEF L

\* Where the elements of two sequences lie in one put behind the other.
LEMMA ConcatParts ==
    ASSUME NEW T, NEW s \in Seq(T), NEW t \in Seq(T)
    PROVE  /\ DOMAIN (s \o t) = 1 .. Len(s) + Len(t)
           /\ \A i \in 1 .. Len(s) : (s \o t)[i] = s[i]
           /\ \A i \in 1 .. Len(t) : (s \o t)[Len(s) + i] = t[i]
  BY SMTT(30)

\* A function on 1 .. n is a sequence of n elements.
LEMMA SeqOfNat ==
    ASSUME NEW n \in Nat, NEW f \in [1 .. n -> Nat]
    PROVE  f \in Seq(Nat) /\ Len(f) = n
OBVIOUS

\* One or two elements put behind a sequence.
LEMMA TwoMore ==
    ASSUME NEW T, NEW w \in Seq(T), NEW a \in T, NEW b \in T
    PROVE  w \o <<a>> = Append(w, a) /\ w \o <<a, b>> = Append(Append(w, a), b)
           /\ Append(w, a) \in Seq(T)
<1> DEFINE x == w \o <<a, b>>
           y == Append(Append(w, a), b)
<1>1. Append(w, a) \in Seq(T) /\ Len(Append(w, a)) = Len(w) + 1 /\ Append(w, a)[Len(w) + 1] = a
      /\ \A i \in 1 .. Len(w) : Append(w, a)[i] = w[i]
  BY AppendProperties
<1>2. y \in Seq(T) /\ Len(y) = Len(w) + 2 /\ y[Len(w) + 2] = b /\ y[Len(w) + 1] = a
      /\ \A i \in 1 .. Len(w) : y[i] = w[i]
  <2> DEFINE v == Append(w, a)
  <2> HIDE DEF v
  <2>1. v \in Seq(T) /\ Len(v) = Len(w) + 1 /\ v[Len(w) + 1] = a
        /\ \A i \in 1 .. Len(w) : v[i] = w[i]
    BY <1>1 DEF v
  <2>2. Append(v, b) \in Seq(T) /\ Len(Append(v, b)) = Len(v) + 1
        /\ Append(v, b)[Len(v) + 1] = b
        /\ \A i \in 1 .. Len(v) : Append(v, b)[i] = v[i]
    BY <2>1, AppendProperties
  <2>3. y = Append(v, b)
    BY DEF v
  <2> QED
    BY <2>1, <2>2, <2>3
<1>3. x \in Seq(T) /\ Len(x) = Len(w) + 2 /\ x[Len(w) + 2] = b /\ x[Len(w) + 1] = a
      /\ \A i \in 1 .. Len(w) : x[i] = w[i]
  <2> DEFINE v == <<a, b>>
  <2>1. v \in Seq(T) /\ Len(v) = 2 /\ v[1] = a /\ v[2] = b
    OBVIOUS
  <2> HIDE DEF v
  <2>2. w \o v \in Seq(T) /\ Len(w \o v) = Len(w) + Len(v)
        /\ \A i \in 1 .. Len(w) + Len(v) :
              (w \o v)[i] = IF i <= Len(w) THEN w[i] ELSE v[i - Len(w)]
    BY <2>1, ConcatProperties
  <2>3. Len(w) \in Nat
    OBVIOUS
  <2> DEFINE z == w \o v
  <2> HIDE DEF z
  <2>4. z \in Seq(T) /\ Len(z) = Len(w) + 2
        /\ \A i \in 1 .. Len(w) + 2 : z[i] = IF i <= Len(w) THEN w[i] ELSE v[i - Len(w)]
    BY <2>1, <2>2 DEF z
  <2>5. z[Len(w) + 1] = a /\ z[Len(w) + 2] = b /\ \A i \in 1 .. Len(w) : z[i] = w[i]
    BY <2>1, <2>3, <2>4
  <2>6. x = z
    BY DEF v, z
  <2> QED
    BY <2>4, <2>5, <2>6
<1> HIDE DEF x, y
<1>4. x = y
  <2>1. ASSUME NEW i \in 1 .. Len(x) PROVE x[i] = y[i]
    BY <1>2, <1>3
  <2> QED
    BY <1>2, <1>3, <2>1, SeqEqual
<1>5. w \o <<a>> = Append(w, a)
  BY AppendIsConcat
<1> QED
  BY <1>1, <1>4, <1>5 DEF x, y

\* Appending to the second of two sequences.
LEMMA ConcatAppend ==
    ASSUME NEW T, NEW a \in Seq(T), NEW b \in Seq(T), NEW o \in T
    PROVE  a \o Append(b, o) = Append(a \o b, o)
<1> DEFINE w == <<o>>
<1>1. w \in Seq(T)
  OBVIOUS
<1>2. Append(b, o) = b \o w /\ a \o b \in Seq(T)
  BY AppendIsConcat, ConcatProperties
<1>3. Append(a \o b, o) = (a \o b) \o w
  BY <1>2, AppendIsConcat
<1> HIDE DEF w
<1>4. (a \o b) \o w = a \o (b \o w)
  BY <1>1, ConcatAssociative
<1> QED
  BY <1>2, <1>3, <1>4

\* Putting one sequence behind another.
Joining(T) == [p \in Seq(T) \X Seq(T) |-> p[1] \o p[2]]

\* FlattenSeq goes through its sequences and puts each behind the others.
LEMMA FlattenGoes ==
    ASSUME NEW T, NEW s \in Seq(Seq(T))
    PROVE  \E f \in [0 .. Len(s) -> Seq(T)] :
              Goes(f, Joining(T), <<>>, s, Len(s)) /\ FlattenSeq(s) = f[Len(s)]
<1> DEFINE n == Len(s)
           F(f) == f = [i \in 1 .. n |-> IF i = 1 THEN s[i] ELSE f[i - 1] \o s[i]]
           u == CHOOSE f : F(f)
<1>0. n \in Nat /\ <<>> \in Seq(T)
  OBVIOUS
<1>1. Joining(T) \in [Seq(T) \X Seq(T) -> Seq(T)]
  <2>1. ASSUME NEW p \in Seq(T) \X Seq(T) PROVE p[1] \o p[2] \in Seq(T)
    BY ConcatProperties
  <2> QED
    BY <2>1 DEF Joining
<1>2. PICK f \in [0 .. n -> Seq(T)] : Goes(f, Joining(T), <<>>, s, n)
  BY <1>0, <1>1, GoesExists
<1> DEFINE g == [i \in 1 .. n |-> f[i]]
<1>3. ASSUME NEW i \in 1 .. n
      PROVE  f[i] = f[i - 1] \o s[i] /\ (i = 1 => f[i] = s[i])
  <2>1. f[i - 1] \in Seq(T) /\ s[i] \in Seq(T)
    <3>1. i - 1 \in 0 .. n
      BY <1>0
    <3> QED
      BY <1>2, <3>1, ElementOfSeq
  <2>2. f[i] = f[i - 1] \o s[i]
    BY <1>2, <2>1 DEF Goes, Joining
  <2>3. i = 1 => f[i - 1] = <<>>
    BY <1>2 DEF Goes
  <2> QED
    BY <2>1, <2>2, <2>3, ConcatEmptySeq
<1>4. F(g)
  <2>1. ASSUME NEW i \in 1 .. n
        PROVE  g[i] = IF i = 1 THEN s[i] ELSE g[i - 1] \o s[i]
    <3>1. i # 1 => g[i - 1] = f[i - 1]
      BY <1>0
    <3> QED
      BY <1>3, <3>1
  <2> QED
    BY <2>1
<1>5. F(u)
  <2> HIDE DEF g
  <2> QED
    BY <1>4
<1>6. CASE n = 0
  <2>1. s = <<>>
    BY <1>6, EmptySeq
  <2> QED
    BY <1>2, <1>6, <2>1 DEF FlattenSeq, Goes
<1>7. CASE n # 0
  <2>1. FlattenSeq(s) = u[n]
    BY <1>7 DEF FlattenSeq
  <2>2. u[n] = f[n]
    <3> DEFINE Claim == {m \in Nat : m + 1 <= n => u[m + 1] = f[m + 1]}
    <3> HIDE DEF u
    <3>1. 0 \in Claim
      <4>1. SUFFICES ASSUME 1 <= n PROVE u[1] = f[1]
        OBVIOUS
      <4>2. u[1] = s[1]
        BY <1>0, <1>5, <4>1
      <4>3. 1 \in 1 .. n
        BY <1>0, <4>1
      <4>4. f[1] = s[1]
        BY <1>3, <4>3
      <4> QED
        BY <4>2, <4>4
    <3>2. ASSUME NEW m \in Claim PROVE m + 1 \in Claim
      <4>1. SUFFICES ASSUME m + 2 <= n PROVE u[m + 2] = f[m + 2]
        OBVIOUS
      <4>2. m + 2 \in 1 .. n /\ m + 2 # 1 /\ (m + 2) - 1 = m + 1 /\ u[m + 1] = f[m + 1]
        BY <1>0, <4>1
      <4> HIDE DEF n
      <4>3. u[m + 2] = u[m + 1] \o s[m + 2] /\ f[m + 2] = f[m + 1] \o s[m + 2]
        BY <1>3, <1>5, <4>2
      <4> QED
        BY <4>2, <4>3
    <3> HIDE DEF Claim
    <3>3. Claim \in SUBSET Nat
      BY DEF Claim
    <3>4. Claim = Nat
      BY <3>1, <3>2, <3>3, Induct
    <3>5. n - 1 \in Claim /\ (n - 1) + 1 = n
      BY <1>0, <1>7, <3>4
    <3> QED
      BY <1>0, <3>5 DEF Claim
  <2> QED
    BY <1>2, <2>1, <2>2
<1> QED
  BY <1>6, <1>7

\* One sequence more goes behind all the others.
LEMMA FlattenAppend ==
    ASSUME NEW T, NEW s \in Seq(Seq(T)), NEW c \in Seq(T)
    PROVE  /\ FlattenSeq(s) \in Seq(T)
           /\ FlattenSeq(Append(s, c)) = FlattenSeq(s) \o c
<1> DEFINE t == Append(s, c)
           n == Len(s)
<1>1. t \in Seq(Seq(T)) /\ Len(t) = n + 1 /\ t[n + 1] = c /\ n \in Nat
      /\ Agree(s, t, n)
  BY AppendProperties DEF Agree
<1>2. PICK f \in [0 .. n -> Seq(T)] :
         Goes(f, Joining(T), <<>>, s, n) /\ FlattenSeq(s) = f[n]
  BY FlattenGoes
<1> HIDE DEF t
<1>3. PICK g \in [0 .. n + 1 -> Seq(T)] :
         Goes(g, Joining(T), <<>>, t, n + 1) /\ FlattenSeq(t) = g[n + 1]
  BY <1>1, FlattenGoes
<1> HIDE DEF n
<1>4. Goes(g, Joining(T), <<>>, t, n)
  <2>1. 1 .. n \subseteq 1 .. n + 1
    BY <1>1
  <2> QED
    BY <1>3, <2>1, Zenon DEF Goes
<1>5. f[n] = g[n]
  BY <1>1, <1>2, <1>4, GoesUnique
<1>6. f[n] \in Seq(T) /\ g[n] \in Seq(T)
  BY <1>1, <1>2, <1>3
<1>7. g[n + 1] = Joining(T)[<<g[n], c>>]
  <2>1. n + 1 \in 1 .. n + 1 /\ (n + 1) - 1 = n
    BY <1>1
  <2>2. g[n + 1] = Joining(T)[<<g[(n + 1) - 1], t[n + 1]>>]
    BY <1>3, <2>1, Zenon DEF Goes
  <2> QED
    BY <1>1, <2>1, <2>2
<1>8. Joining(T)[<<g[n], c>>] = g[n] \o c
  BY <1>6 DEF Joining
<1> QED
  BY <1>2, <1>3, <1>5, <1>6, <1>7, <1>8 DEF t

------------------------------------------------------------------------------
(* The KISS coding.                                                        *)

Escaping == [out : Seq(S!Octet), escape : BOOLEAN, invalid : BOOLEAN]
Nothing == [out |-> <<>>, escape |-> FALSE, invalid |-> FALSE]
OctetStep == [p \in Escaping \X S!Octet |-> S!unescape_octet(p[1], p[2])]

\* One octet more leaves kiss_unescape in a state of its type.
LEMMA UnescapeType ==
    ASSUME NEW a \in Escaping, NEW o \in S!Octet
    PROVE  S!unescape_octet(a, o) \in Escaping
<1>1. S!FESC \in S!Octet /\ S!FEND \in S!Octet
  BY DEF S!FESC, S!FEND, S!Octet
<1>2. Append(a.out, o) \in Seq(S!Octet) /\ Append(a.out, S!FESC) \in Seq(S!Octet)
      /\ Append(a.out, S!FEND) \in Seq(S!Octet)
  BY <1>1, AppendProperties DEF Escaping
<1> QED
  BY <1>2 DEF S!unescape_octet, Escaping

\* So does the step as a function.
LEMMA OctetStepType == OctetStep \in [Escaping \X S!Octet -> Escaping] /\ Nothing \in Escaping
<1>1. ASSUME NEW p \in Escaping \X S!Octet PROVE S!unescape_octet(p[1], p[2]) \in Escaping
  BY UnescapeType
<1>2. <<>> \in Seq(S!Octet)
  OBVIOUS
<1> QED
  BY <1>1, <1>2 DEF OctetStep, Nothing, Escaping

\* The loop of kiss_unescape goes through the octets by that step.
LEMMA UnescapedGoes ==
    ASSUME NEW s \in Seq(S!Octet)
    PROVE  \E f \in [0 .. Len(s) -> Escaping] :
              Goes(f, OctetStep, Nothing, s, Len(s)) /\ S!Unescaped(s) = f[Len(s)]
<1> DEFINE n == Len(s)
           F(f) == f = [i \in 0 .. n |-> IF i = 0 THEN Nothing
                                         ELSE S!unescape_octet(f[i - 1], s[i])]
           u == CHOOSE f : F(f)
<1>0. n \in Nat
  OBVIOUS
<1>1. PICK f \in [0 .. n -> Escaping] : Goes(f, OctetStep, Nothing, s, n)
  BY GoesExists, OctetStepType
<1>2. F(f)
  <2>1. ASSUME NEW i \in 0 .. n
        PROVE  f[i] = IF i = 0 THEN Nothing ELSE S!unescape_octet(f[i - 1], s[i])
    <3>1. CASE i = 0
      BY <1>1, <3>1 DEF Goes
    <3>2. CASE i # 0
      <4>1. i \in 1 .. n /\ f[i - 1] \in Escaping /\ s[i] \in S!Octet
        BY <1>1, <3>2, ElementOfSeq
      <4> QED
        BY <1>1, <3>2, <4>1 DEF Goes, OctetStep
    <3> QED
      BY <3>1, <3>2
  <2> QED
    BY <1>1, <2>1
<1>3. F(u)
  BY <1>2
<1>4. S!Unescaped(s) = u[n]
  BY DEF S!Unescaped, Nothing
<1>5. u[n] = f[n]
  <2> DEFINE Same == {m \in Nat : m <= n => u[m] = f[m]}
  <2> HIDE DEF u
  <2>1. 0 \in Same
    BY <1>0, <1>2, <1>3
  <2>2. ASSUME NEW m \in Same PROVE m + 1 \in Same
    <3>1. SUFFICES ASSUME m + 1 <= n PROVE u[m + 1] = f[m + 1]
      OBVIOUS
    <3>2. m + 1 \in 0 .. n /\ m + 1 # 0 /\ (m + 1) - 1 = m /\ u[m] = f[m]
      BY <1>0, <3>1
    <3> HIDE DEF n
    <3>3. u[m + 1] = S!unescape_octet(u[m], s[m + 1]) /\ f[m + 1] = S!unescape_octet(f[m], s[m + 1])
      BY <1>2, <1>3, <3>2
    <3> QED
      BY <3>2, <3>3
  <2> HIDE DEF Same
  <2>3. Same \in SUBSET Nat
    BY DEF Same
  <2>4. Same = Nat
    BY <2>1, <2>2, <2>3, Induct
  <2> QED
    BY <1>0, <2>4 DEF Same
<1> QED
  BY <1>1, <1>4, <1>5

\* kiss_unescape takes its octets one by one.
LEMMA UnescapedAppend ==
    ASSUME NEW s \in Seq(S!Octet), NEW o \in S!Octet
    PROVE  /\ S!Unescaped(s) \in Escaping
           /\ S!Unescaped(Append(s, o)) = S!unescape_octet(S!Unescaped(s), o)
<1> DEFINE t == Append(s, o)
           n == Len(s)
<1>1. t \in Seq(S!Octet) /\ Len(t) = n + 1 /\ t[n + 1] = o /\ n \in Nat
      /\ Agree(s, t, n)
  BY AppendProperties DEF Agree
<1>2. PICK f \in [0 .. n -> Escaping] :
         Goes(f, OctetStep, Nothing, s, n) /\ S!Unescaped(s) = f[n]
  BY UnescapedGoes
<1> HIDE DEF t
<1>3. PICK g \in [0 .. n + 1 -> Escaping] :
         Goes(g, OctetStep, Nothing, t, n + 1) /\ S!Unescaped(t) = g[n + 1]
  BY <1>1, UnescapedGoes
<1> HIDE DEF n
<1>4. Goes(g, OctetStep, Nothing, t, n)
  BY <1>1, <1>3 DEF Goes
<1>5. f[n] = g[n]
  BY <1>1, <1>2, <1>4, GoesUnique
<1>6. f[n] \in Escaping /\ g[n] \in Escaping
  BY <1>1, <1>2, <1>3
<1>7. g[n + 1] = OctetStep[<<g[n], o>>]
  BY <1>1, <1>3 DEF Goes
<1>8. OctetStep[<<g[n], o>>] = S!unescape_octet(g[n], o)
  BY <1>6 DEF OctetStep
<1> QED
  BY <1>2, <1>3, <1>5, <1>6, <1>7, <1>8 DEF t

\* Before the first octet it has made nothing.
LEMMA UnescapedEmpty == S!Unescaped(<<>>) = Nothing
<1>1. <<>> \in Seq(S!Octet) /\ Len(<<>>) = 0
  OBVIOUS
<1>2. PICK f \in [0 .. 0 -> Escaping] :
         Goes(f, OctetStep, Nothing, <<>>, 0) /\ S!Unescaped(<<>>) = f[0]
  BY <1>1, UnescapedGoes
<1> QED
  BY <1>2 DEF Goes

code(o) == CASE o = S!FESC -> <<S!FESC, S!TFESC>>
             [] o = S!FEND -> <<S!FESC, S!TFEND>>
             [] OTHER    -> <<o>>
Codes(s) == [i \in 1 .. Len(s) |-> code(s[i])]

\* What one octet is escaped to is octets.
LEMMA CodeType ==
    ASSUME NEW o \in S!Octet
    PROVE  code(o) \in Seq(S!Octet)
<1>1. S!FESC \in S!Octet /\ S!TFESC \in S!Octet /\ S!TFEND \in S!Octet /\ S!FEND \in S!Octet
  BY DEF S!FESC, S!FEND, S!TFEND, S!TFESC, S!Octet
<1> QED
  BY <1>1 DEF code

\* kiss_escape puts the codes of its octets one behind the other.
LEMMA CodesType ==
    ASSUME NEW s \in Seq(S!Octet)
    PROVE  Codes(s) \in Seq(Seq(S!Octet)) /\ Len(Codes(s)) = Len(s)
           /\ S!kiss_escape(s) = FlattenSeq(Codes(s))
<1>1. ASSUME NEW i \in 1 .. Len(s) PROVE code(s[i]) \in Seq(S!Octet)
  BY CodeType, ElementOfSeq
<1> QED
  BY <1>1 DEF Codes, S!kiss_escape, code, FlattenSeq, S!FlattenSeq

\* An octet more in the payload is its code more in the frame.
LEMMA EscapeAppend ==
    ASSUME NEW s \in Seq(S!Octet), NEW o \in S!Octet
    PROVE  /\ S!kiss_escape(s) \in Seq(S!Octet)
           /\ S!kiss_escape(Append(s, o)) = S!kiss_escape(s) \o code(o)
<1> DEFINE t == Append(s, o)
           n == Len(s)
<1>1. t \in Seq(S!Octet) /\ Len(t) = n + 1 /\ t[n + 1] = o /\ n \in Nat
      /\ \A i \in 1 .. n : s[i] = t[i]
  BY AppendProperties
<1>2. Codes(s) \in Seq(Seq(S!Octet)) /\ code(o) \in Seq(S!Octet) /\ Len(Codes(s)) = n
      /\ S!kiss_escape(s) = FlattenSeq(Codes(s))
  BY CodesType, CodeType
<1> HIDE DEF t
<1>3. Codes(t) \in Seq(Seq(S!Octet)) /\ Len(Codes(t)) = n + 1
      /\ S!kiss_escape(t) = FlattenSeq(Codes(t))
  BY <1>1, CodesType
<1>4. Codes(t) = Append(Codes(s), code(o))
  <2> DEFINE x == Codes(s)
             c == code(o)
             y == Append(x, c)
  <2>0. \A i \in 1 .. n : x[i] = code(s[i])
    BY DEF Codes
  <2> HIDE DEF x, c
  <2>1. y \in Seq(Seq(S!Octet)) /\ Len(y) = n + 1 /\ y[n + 1] = c
        /\ \A i \in 1 .. n : y[i] = x[i]
    BY <1>2, AppendProperties DEF x, c
  <2> HIDE DEF y, n
  <2>2. ASSUME NEW i \in 1 .. n + 1 PROVE Codes(t)[i] = y[i]
    <3>1. Codes(t)[i] = code(t[i])
      BY <1>1 DEF Codes
    <3>2. CASE i = n + 1
      BY <1>1, <2>1, <3>1, <3>2 DEF c
    <3>3. CASE i \in 1 .. n
      BY <1>1, <2>0, <2>1, <3>1, <3>3
    <3> QED
      BY <1>1, <3>2, <3>3
  <2>3. Codes(t) = y
    BY <1>3, <2>1, <2>2, SeqEqual
  <2> QED
    BY <2>3 DEF y, x, c
<1> QED
  BY <1>2, <1>3, <1>4, FlattenAppend DEF t

\* No payload escapes to no octets.
LEMMA EscapeEmpty == S!kiss_escape(<<>>) = <<>>
<1>1. <<>> \in Seq(S!Octet) /\ Len(<<>>) = 0
  OBVIOUS
<1> QED
  BY <1>1 DEF S!kiss_escape, S!FlattenSeq

\* No FEND is left in what was escaped.
LEMMA EscapeHidesFend ==
    ASSUME NEW s \in Seq(S!Octet), NEW i \in 1 .. Len(S!kiss_escape(s))
    PROVE  S!kiss_escape(s)[i] # S!FEND
<1> DEFINE P(r) == \A j \in 1 .. Len(S!kiss_escape(r)) : S!kiss_escape(r)[j] # S!FEND
           Holds == {r \in Seq(S!Octet) : P(r)}
<1>1. <<>> \in Holds
  BY EscapeEmpty, EmptySeq
<1>2. ASSUME NEW r \in Seq(S!Octet), NEW o \in S!Octet, r \in Holds PROVE Append(r, o) \in Holds
  <2> DEFINE e == S!kiss_escape(r)
             c == code(o)
             t == Append(r, o)
  <2>1. e \in Seq(S!Octet) /\ c \in Seq(S!Octet) /\ S!kiss_escape(t) = e \o c /\ t \in Seq(S!Octet)
    BY EscapeAppend, CodeType, AppendProperties
  <2>2. \A j \in 1 .. Len(e) : e[j] # S!FEND
    BY <1>2
  <2>3. \A j \in 1 .. Len(c) : c[j] # S!FEND
    BY DEF code, S!FESC, S!FEND, S!TFESC, S!TFEND
  <2> HIDE DEF e, c, t
  <2>4. \A j \in 1 .. Len(e \o c) : (e \o c)[j] # S!FEND
    <3>1. Len(e \o c) = Len(e) + Len(c) /\ Len(e) \in Nat /\ Len(c) \in Nat
          /\ \A j \in 1 .. Len(e) + Len(c) :
                (e \o c)[j] = IF j <= Len(e) THEN e[j] ELSE c[j - Len(e)]
      BY <2>1, ConcatProperties
    <3>2. ASSUME NEW j \in 1 .. Len(e) + Len(c) PROVE (e \o c)[j] # S!FEND
      <4>1. CASE j <= Len(e)
        <5>1. j \in 1 .. Len(e)
          BY <3>1, <4>1
        <5> QED
          BY <2>2, <3>1, <4>1, <5>1
      <4>2. CASE ~(j <= Len(e))
        <5>1. j - Len(e) \in 1 .. Len(c)
          BY <3>1, <4>2
        <5> QED
          BY <2>3, <3>1, <4>2, <5>1
      <4> QED
        BY <4>1, <4>2
    <3> QED
      BY <3>1, <3>2
  <2> QED
    BY <2>1, <2>4 DEF t
<1> HIDE DEF Holds
<1>3. s \in Holds
  BY <1>1, <1>2, SeqInduct
<1> QED
  BY <1>3 DEF Holds

\* kiss_unescape in the middle of valid octets, having made q of them.
Plain(q) == [out |-> q, escape |-> FALSE, invalid |-> FALSE]

\* The same after a FESC.
Half(q) == [out |-> q, escape |-> TRUE, invalid |-> FALSE]

\* What an octet does to kiss_unescape when all before it were valid.
LEMMA OctetSteps ==
    ASSUME NEW q \in Seq(S!Octet), NEW o \in S!Octet
    PROVE  /\ S!unescape_octet(Plain(q), S!FESC) = Half(q)
           /\ o # S!FESC => S!unescape_octet(Plain(q), o) = Plain(Append(q, o))
           /\ S!unescape_octet(Half(q), S!TFESC) = Plain(Append(q, S!FESC))
           /\ S!unescape_octet(Half(q), S!TFEND) = Plain(Append(q, S!FEND))
<1> DEFINE x == Append(q, o)
           y == Append(q, S!FESC)
           z == Append(q, S!FEND)
<1>1. S!TFESC # S!TFEND
  BY DEF S!TFESC, S!TFEND
<1>2. S!unescape_octet(Plain(q), S!FESC) = Half(q)
  BY DEF S!unescape_octet, Plain, Half
<1>3. o # S!FESC => S!unescape_octet(Plain(q), o) = Plain(x)
  BY DEF S!unescape_octet, Plain
<1>4. S!unescape_octet(Half(q), S!TFESC) = Plain(y)
  BY <1>1 DEF S!unescape_octet, Plain, Half
<1>5. S!unescape_octet(Half(q), S!TFEND) = Plain(z)
  BY <1>1 DEF S!unescape_octet, Plain, Half
<1> QED
  BY <1>2, <1>3, <1>4, <1>5

\* The code of one octet gives that octet back; its first half gives nothing.
LEMMA CodeUnescapes ==
    ASSUME NEW w \in Seq(S!Octet), NEW q \in Seq(S!Octet), NEW o \in S!Octet,
           S!Unescaped(w) = Plain(q)
    PROVE  /\ S!Unescaped(w \o code(o)) = Plain(Append(q, o))
           /\ Len(code(o)) \in {1, 2}
           /\ Len(code(o)) = 2 => /\ S!Unescaped(Append(w, code(o)[1])).escape
                                  /\ ~S!Unescaped(Append(w, code(o)[1])).invalid
<1>0. S!FESC \in S!Octet /\ S!TFESC \in S!Octet /\ S!TFEND \in S!Octet
      /\ S!FESC # S!FEND /\ S!TFESC # S!TFEND /\ S!FESC # S!TFESC
  BY DEF S!FESC, S!FEND, S!TFEND, S!TFESC, S!Octet
<1>1. CASE o = S!FESC \/ o = S!FEND
  <2> DEFINE b == IF o = S!FESC THEN S!TFESC ELSE S!TFEND
             v == Append(w, S!FESC)
             u == S!Unescaped(v)
             y == Append(v, b)
             x == Append(q, o)
  <2>1. code(o) = <<S!FESC, b>> /\ b \in S!Octet
    BY <1>0, <1>1 DEF code
  <2>2. v \in Seq(S!Octet) /\ w \o code(o) = y
    BY <1>0, <2>1, TwoMore
  <2>3. u = Half(q)
    BY <1>0, UnescapedAppend, OctetSteps
  <2>4. S!unescape_octet(Half(q), b) = Plain(x)
    BY <1>1, OctetSteps
  <2> HIDE DEF v, x, b
  <2>5. S!Unescaped(y) = S!unescape_octet(u, b)
    BY <2>1, <2>2, UnescapedAppend
  <2> HIDE DEF u, y
  <2>6. S!Unescaped(w \o code(o)) = Plain(x)
    BY <2>2, <2>3, <2>4, <2>5
  <2>7. Len(code(o)) = 2 /\ code(o)[1] = S!FESC
    BY <2>1
  <2>8. u.escape /\ ~u.invalid
    BY <2>3 DEF Half
  <2> QED
    BY <2>6, <2>7, <2>8 DEF x, u, v
<1>2. CASE o # S!FESC /\ o # S!FEND
  <2> DEFINE x == Append(q, o)
             v == Append(w, o)
  <2>1. code(o) = <<o>> /\ Len(code(o)) = 1
    BY <1>2 DEF code
  <2>2. w \o code(o) = v
    BY <2>1, TwoMore
  <2>3. S!unescape_octet(Plain(q), o) = Plain(x)
    BY <1>2, OctetSteps
  <2>4. S!Unescaped(v) = S!unescape_octet(Plain(q), o)
    BY UnescapedAppend
  <2> HIDE DEF x, v
  <2>5. S!Unescaped(w \o code(o)) = Plain(x)
    BY <2>2, <2>3, <2>4
  <2> QED
    BY <2>1, <2>5 DEF x
<1> QED
  BY <1>1, <1>2

\* The data octets between the FENDs of a frame that carries s, or as many of
\* them as were written.
Data(s, m) == <<0>> \o SubSeq(S!kiss_escape(s), 1, m)

\* What kiss_unescape makes of a frame that was cut short.
Sound(s, m) ==
    LET u == S!Unescaped(Data(s, m))
    IN  /\ ~u.invalid
        /\ u.escape \/ \E n \in 0 .. Len(s) : u.out = <<0>> \o SubSeq(s, 1, n)

\* Where the data octets of a frame lie.
LEMMA DataIs ==
    ASSUME NEW s \in Seq(S!Octet), NEW m \in 0 .. Len(S!kiss_escape(s))
    PROVE  /\ Data(s, m) \in Seq(S!Octet) /\ Len(Data(s, m)) = m + 1 /\ Data(s, m)[1] = 0
           /\ \A i \in 1 .. m : Data(s, m)[i + 1] = S!kiss_escape(s)[i]
<1> DEFINE e == S!kiss_escape(s)
           z == <<0>>
           p == SubSeq(e, 1, m)
           d == z \o p
<1>1. e \in Seq(S!Octet) /\ 0 \in S!Octet
  BY EscapeAppend DEF S!Octet
<1>2. z \in Seq(S!Octet) /\ Len(z) = 1 /\ z[1] = 0
  BY <1>1
<1>3. Len(e) \in Nat /\ m \in Nat /\ m <= Len(e)
  BY <1>1, LenProperties
<1> HIDE DEF e, z
<1>4. p \in Seq(S!Octet) /\ Len(p) = m /\ \A i \in 1 .. m : p[i] = e[i]
  <2>1. \A i \in 1 .. m : e[i] \in S!Octet
    BY <1>1, <1>3, ElementOfSeq
  <2> QED
    BY <1>3, <2>1, SubSeqProperties
<1> HIDE DEF p
<1>5. d \in Seq(S!Octet) /\ Len(d) = Len(z) + Len(p)
      /\ \A i \in 1 .. Len(z) + Len(p) : d[i] = IF i <= Len(z) THEN z[i] ELSE p[i - Len(z)]
  BY <1>2, <1>4, ConcatProperties
<1> HIDE DEF d
<1>6. d \in Seq(S!Octet) /\ Len(d) = m + 1 /\ d[1] = 0 /\ \A i \in 1 .. m : d[i + 1] = e[i]
  BY <1>2, <1>3, <1>4, <1>5
<1>7. Data(s, m) = d
  BY DEF Data, d, z, p, e
<1> QED
  BY <1>6, <1>7 DEF e

\* How the data octets grow with the payload.
LEMMA DataGrows ==
    ASSUME NEW s \in Seq(S!Octet), NEW o \in S!Octet
    PROVE  LET t == Append(s, o)
               n == Len(S!kiss_escape(s))
               c == code(o)
           IN  /\ Len(S!kiss_escape(t)) = n + Len(c)
               /\ \A m \in 0 .. n : Data(t, m) = Data(s, m)
               /\ Data(t, n + Len(c)) = Data(s, n) \o c
               /\ Len(c) = 2 => Data(t, n + 1) = Append(Data(s, n), c[1])
<1> DEFINE t == Append(s, o)
           e == S!kiss_escape(s)
           c == code(o)
           n == Len(e)
           k == Len(c)
           x == S!kiss_escape(t)
           d == Data(s, n)
<1>1. e \in Seq(S!Octet) /\ c \in Seq(S!Octet) /\ x = e \o c /\ t \in Seq(S!Octet)
  BY EscapeAppend, CodeType, AppendProperties
<1>2. n \in Nat /\ k \in Nat
  BY <1>1, LenProperties
<1>3. x \in Seq(S!Octet) /\ Len(x) = n + k
      /\ \A i \in 1 .. n + k : x[i] = IF i <= n THEN e[i] ELSE c[i - n]
  BY <1>1, ConcatProperties
<1>0. n = Len(S!kiss_escape(s)) /\ e = S!kiss_escape(s)
  OBVIOUS
<1> HIDE DEF x, t, e, c, n
<1>4. ASSUME NEW m \in 0 .. n
      PROVE  Data(t, m) = Data(s, m)
  <2> DEFINE a == Data(t, m)
             b == Data(s, m)
  <2>1. /\ a \in Seq(S!Octet) /\ Len(a) = m + 1 /\ a[1] = 0
        /\ \A i \in 1 .. m : a[i + 1] = x[i]
    <3>1. m \in 0 .. Len(S!kiss_escape(t))
      BY <1>2, <1>3 DEF x
    <3> QED
      BY <1>1, <3>1, DataIs DEF x
  <2>2. /\ b \in Seq(S!Octet) /\ Len(b) = m + 1 /\ b[1] = 0
        /\ \A i \in 1 .. m : b[i + 1] = e[i]
    BY <1>0, DataIs
  <2> HIDE DEF a, b
  <2>3. ASSUME NEW i \in 1 .. Len(a) PROVE a[i] = b[i]
    <3>1. CASE i = 1
      BY <2>1, <2>2, <3>1
    <3>2. CASE i # 1
      <4>1. i - 1 \in 1 .. m /\ i - 1 \in 1 .. n + k /\ i - 1 <= n /\ i = (i - 1) + 1
        BY <1>2, <2>1, <3>2
      <4>2. a[i] = x[i - 1] /\ b[i] = e[i - 1] /\ x[i - 1] = e[i - 1]
        BY <1>3, <2>1, <2>2, <4>1
      <4> QED
        BY <4>2
    <3> QED
      BY <3>1, <3>2
  <2>4. a = b
    BY <2>1, <2>2, <2>3, SeqEqual
  <2> QED
    BY <2>4 DEF a, b
<1>5. /\ d \in Seq(S!Octet) /\ Len(d) = n + 1 /\ d[1] = 0
      /\ \A i \in 1 .. n : d[i + 1] = e[i]
  <2>1. n \in 0 .. Len(S!kiss_escape(s))
    BY <1>0, <1>2
  <2> QED
    BY <1>0, <2>1, DataIs
<1> HIDE DEF d
<1>6. ASSUME NEW w \in Seq(S!Octet), Len(w) <= k, \A i \in 1 .. Len(w) : w[i] = c[i]
      PROVE  Data(t, n + Len(w)) = d \o w
  <2> DEFINE m == n + Len(w)
             a == Data(t, m)
             b == d \o w
  <2>0. Len(w) \in Nat /\ m \in 0 .. n + k
    BY <1>2, <1>6
  <2>1. /\ a \in Seq(S!Octet) /\ Len(a) = m + 1 /\ a[1] = 0
        /\ \A i \in 1 .. m : a[i + 1] = x[i]
    <3>1. m \in 0 .. Len(S!kiss_escape(t))
      BY <1>3, <2>0 DEF x
    <3> HIDE DEF m
    <3> QED
      BY <1>1, <3>1, DataIs DEF x
  <2>2. /\ b \in Seq(S!Octet) /\ Len(b) = m + 1
        /\ \A i \in 1 .. m + 1 : b[i] = IF i <= n + 1 THEN d[i] ELSE w[i - (n + 1)]
    <3>1. /\ b \in Seq(S!Octet) /\ Len(b) = Len(d) + Len(w)
          /\ \A i \in 1 .. Len(d) + Len(w) : b[i] = IF i <= Len(d) THEN d[i] ELSE w[i - Len(d)]
      BY <1>5, ConcatProperties
    <3> HIDE DEF b
    <3> QED
      BY <1>2, <1>5, <2>0, <3>1
  <2> HIDE DEF a, b
  <2>3. ASSUME NEW i \in 1 .. Len(a) PROVE a[i] = b[i]
    <3>1. CASE i = 1
      BY <1>2, <1>5, <2>0, <2>1, <2>2, <3>1
    <3>2. CASE i # 1 /\ i <= n + 1
      <4>1. i - 1 \in 1 .. m /\ i - 1 \in 1 .. n /\ i - 1 \in 1 .. n + k /\ i = (i - 1) + 1
            /\ i \in 1 .. m + 1
        BY <1>2, <2>0, <2>1, <3>2
      <4>2. d[i] = e[i - 1]
        BY <1>5, <4>1
      <4>3. a[i] = x[i - 1] /\ b[i] = d[i]
        BY <2>1, <2>2, <3>2, <4>1
      <4>4. x[i - 1] = e[i - 1]
        BY <1>3, <4>1
      <4> QED
        BY <4>2, <4>3, <4>4
    <3>3. CASE ~(i <= n + 1)
      <4>1. i - 1 \in 1 .. m /\ i - 1 \in 1 .. n + k /\ ~(i - 1 <= n) /\ i = (i - 1) + 1
            /\ i \in 1 .. m + 1 /\ i - (n + 1) \in 1 .. Len(w) /\ (i - 1) - n = i - (n + 1)
        BY <1>2, <2>0, <2>1, <3>3
      <4>2. a[i] = x[i - 1] /\ b[i] = w[i - (n + 1)] /\ x[i - 1] = c[(i - 1) - n]
        BY <1>3, <2>1, <2>2, <3>3, <4>1
      <4> QED
        BY <1>6, <4>1, <4>2
    <3> QED
      BY <3>1, <3>2, <3>3
  <2>4. a = b
    BY <2>1, <2>2, <2>3, SeqEqual
  <2> QED
    BY <2>4 DEF a, b
<1>7. Data(t, n + k) = d \o c
  <2>1. k <= k /\ \A i \in 1 .. k : c[i] = c[i]
    BY <1>2
  <2> QED
    BY <1>1, <1>6, <2>1
<1>8. ASSUME k = 2 PROVE Data(t, n + 1) = Append(d, c[1])
  <2> DEFINE a == c[1]
             w == <<a>>
  <2>1. a \in S!Octet
    <3>1. 1 \in 1 .. Len(c)
      BY <1>8
    <3> QED
      BY <1>1, <3>1, ElementOfSeq
  <2>2. w \in Seq(S!Octet) /\ Len(w) = 1 /\ w[1] = a
    BY <2>1
  <2>3. d \o w = Append(d, a)
    BY <1>5, <2>1, TwoMore
  <2>4. Len(w) <= k /\ \A i \in 1 .. Len(w) : w[i] = c[i]
    BY <1>8, <2>2
  <2> HIDE DEF w
  <2>5. Data(t, n + Len(w)) = d \o w
    BY <1>6, <2>2, <2>4
  <2> QED
    BY <2>2, <2>3, <2>5
<1> QED
  BY <1>3, <1>4, <1>7, <1>8 DEF x, d, t, e, c, n

\* What a Send has written comes out of kiss_unescape as what it was, and if it
\* was cut short, as its beginning or as nothing.
LEMMA EscapeInverts ==
    ASSUME NEW s \in Seq(S!Octet)
    PROVE  /\ S!Unescaped(Data(s, Len(S!kiss_escape(s)))) = Plain(<<0>> \o s)
           /\ \A m \in 0 .. Len(S!kiss_escape(s)) : Sound(s, m)
<1> DEFINE z == <<0>>
           P(r) == /\ S!Unescaped(Data(r, Len(S!kiss_escape(r)))) = Plain(z \o r)
                   /\ \A m \in 0 .. Len(S!kiss_escape(r)) : Sound(r, m)
           Holds == {r \in Seq(S!Octet) : P(r)}
<1>0. z \in Seq(S!Octet) /\ 0 \in S!Octet /\ <<>> \in Seq(S!Octet)
  BY DEF S!Octet
<1>1. <<>> \in Holds
  <2>1. S!kiss_escape(<<>>) = <<>> /\ Len(<<>>) = 0
    BY EscapeEmpty
  <2>2. Data(<<>>, 0) = Append(<<>>, 0)
    <3>1. SubSeq(S!kiss_escape(<<>>), 1, 0) = <<>>
      BY SubSeqEmpty
    <3>2. z \o <<>> = z
      BY <1>0, ConcatEmptySeq
    <3>3. Append(<<>>, 0) = z
      OBVIOUS
    <3> QED
      BY <3>1, <3>2, <3>3, Zenon DEF Data
  <2>3. S!Unescaped(Data(<<>>, 0)) = Plain(z)
    <3>1. S!Unescaped(Append(<<>>, 0)) = S!unescape_octet(Plain(<<>>), 0)
      BY <1>0, UnescapedAppend, UnescapedEmpty DEF Plain, Nothing
    <3>2. 0 # S!FESC
      BY DEF S!FESC
    <3>3. S!unescape_octet(Plain(<<>>), 0) = Plain(Append(<<>>, 0))
      BY <1>0, <3>2, OctetSteps
    <3>4. Append(<<>>, 0) = z
      OBVIOUS
    <3> QED
      BY <2>2, <3>1, <3>3, <3>4
  <2>4. z \o <<>> = z /\ SubSeq(<<>>, 1, 0) = <<>>
    BY <1>0, ConcatEmptySeq, SubSeqEmpty
  <2>5. Sound(<<>>, 0)
    <3>1. 0 \in 0 .. Len(<<>>) /\ z = <<0>> \o SubSeq(<<>>, 1, 0)
      BY <2>1, <2>4
    <3> DEFINE u == S!Unescaped(Data(<<>>, 0))
    <3>2. ~u.invalid /\ u.out = z
      BY <2>3 DEF Plain
    <3> HIDE DEF u
    <3>3. \E n \in 0 .. Len(<<>>) : u.out = <<0>> \o SubSeq(<<>>, 1, n)
      BY <3>1, <3>2
    <3> QED
      BY <3>2, <3>3, Zenon DEF Sound, u
  <2> QED
    BY <1>0, <2>1, <2>3, <2>4, <2>5
<1>2. ASSUME NEW r \in Seq(S!Octet), NEW o \in S!Octet, r \in Holds PROVE Append(r, o) \in Holds
  <2> DEFINE t == Append(r, o)
             e == S!kiss_escape(r)
             c == code(o)
             n == Len(e)
             k == Len(c)
             w == Data(r, n)
             q == z \o r
             qo == Append(q, o)
  <2>1. t \in Seq(S!Octet) /\ e \in Seq(S!Octet) /\ c \in Seq(S!Octet)
        /\ Len(t) = Len(r) + 1 /\ \A i \in 1 .. Len(r) : t[i] = r[i]
    BY AppendProperties, EscapeAppend, CodeType
  <2>2. n \in Nat /\ k \in Nat
    BY <2>1, LenProperties
  <2>3. w \in Seq(S!Octet)
    BY <2>2, DataIs
  <2>4. S!Unescaped(w) = Plain(q) /\ q \in Seq(S!Octet)
    BY <1>0, <1>2, ConcatProperties
  <2>5. z \o t = qo
    BY <1>0, ConcatAppend
  <2>7. \A m \in 0 .. n : Sound(r, m)
    BY <1>2
  <2>6. /\ Len(S!kiss_escape(t)) = n + k
        /\ \A m \in 0 .. n : Data(t, m) = Data(r, m)
        /\ Data(t, n + k) = w \o c
        /\ k = 2 => Data(t, n + 1) = Append(w, c[1])
    BY DataGrows
  <2>11. c = code(o)
    OBVIOUS
  <2> HIDE DEF t, e, n, z, q, c, w
  <2>8. /\ S!Unescaped(w \o c) = Plain(qo)
        /\ k \in {1, 2}
        /\ k = 2 => S!Unescaped(Append(w, c[1])).escape /\ ~S!Unescaped(Append(w, c[1])).invalid
    BY <2>11, <2>3, <2>4, CodeUnescapes
  <2> HIDE DEF c, k, qo
  <2>9. S!Unescaped(Data(t, n + k)) = Plain(z \o t)
    BY <2>5, <2>6, <2>8
  <2>10. ASSUME NEW m \in 0 .. n + k PROVE Sound(t, m)
    <3>1. CASE m \in 0 .. n
      <4> DEFINE u == S!Unescaped(Data(r, m))
      <4>1. S!Unescaped(Data(t, m)) = u
        BY <2>6, <3>1
      <4>2. ~u.invalid /\ (u.escape \/ \E i \in 0 .. Len(r) : u.out = <<0>> \o SubSeq(r, 1, i))
        BY <2>7, <3>1 DEF Sound
      <4> HIDE DEF u
      <4>3. \A i \in 0 .. Len(r) : i \in 0 .. Len(t) /\ SubSeq(r, 1, i) = SubSeq(t, 1, i)
        BY <2>1, SMTT(30)
      <4> QED
        BY <4>1, <4>2, <4>3 DEF Sound
    <3>2. CASE m = n + k
      <4>1. S!Unescaped(Data(t, m)) = Plain(z \o t)
        BY <2>9, <3>2
      <4>2. SubSeq(t, 1, Len(t)) = t /\ Len(t) \in 0 .. Len(t)
        BY <2>1, SubSeqFull
      <4> DEFINE u == S!Unescaped(Data(t, m))
      <4>3. ~u.invalid /\ u.out = <<0>> \o SubSeq(t, 1, Len(t))
        BY <4>1, <4>2 DEF Plain, z
      <4> HIDE DEF u
      <4>4. \E i \in 0 .. Len(t) : u.out = <<0>> \o SubSeq(t, 1, i)
        BY <4>2, <4>3
      <4> QED
        BY <4>3, <4>4, Zenon DEF Sound, u
    <3>3. CASE m = n + 1 /\ k = 2
      BY <2>6, <2>8, <3>3 DEF Sound
    <3> QED
      BY <2>2, <2>8, <3>1, <3>2, <3>3
  <2> QED
    BY <2>1, <2>6, <2>9, <2>10 DEF t
<1> HIDE DEF Holds
<1>3. s \in Holds
  BY <1>1, <1>2, SeqInduct
<1> QED
  BY <1>3 DEF Holds

------------------------------------------------------------------------------
(* The frames and their octets.                                            *)

Frame == Seq(S!Octet)
Sent == [payload : Range(Payload), whole : BOOLEAN]

\* Every payload is octets.
LEMMA Payloads ==
    /\ Payload \in Seq(Frame) /\ Len(Payload) \in Nat
    /\ \A i \in 1 .. Len(Payload) : Payload[i] \in Range(Payload)
    /\ \A p \in Range(Payload) : p \in Frame
<1>1. Payload \in Seq(Frame)
  BY PayloadAssumption DEF Frame
<1> QED
  BY <1>1 DEF Range

\* What is escaped is octets,
LEMMA EscapeTyped ==
    ASSUME NEW p \in Seq(S!Octet)
    PROVE  S!kiss_escape(p) \in Seq(S!Octet)
<1>1. 0 \in S!Octet
  BY DEF S!Octet
<1> QED
  BY <1>1, EscapeAppend

\* and so is the whole frame,
LEMMA FrameTyped ==
    ASSUME NEW p \in Frame
    PROVE  S!KissFrame(p) \in Frame
<1>1. S!kiss_escape(p) \in Frame
  BY EscapeTyped DEF Frame
<1>2. <<S!FEND, 0>> \in Frame /\ <<S!FEND>> \in Frame
  BY DEF Frame, S!FEND, S!Octet
<1> QED
  BY <1>1, <1>2 DEF S!KissFrame, Frame

\* and what kiss_unescape makes of any octets.
LEMMA UnescapeTyped ==
    ASSUME NEW s \in Frame
    PROVE  S!kiss_unescape(s) \in Frame
<1>1. 0 \in S!Octet
  BY DEF S!Octet
<1>2. S!Unescaped(s) \in Escaping
  BY <1>1, UnescapedAppend DEF Frame
<1> QED
  BY <1>2 DEF S!kiss_unescape, Frame, Escaping

------------------------------------------------------------------------------
(* Which octet of which Send is where.                                     *)

\* Where the octets of a frame lie: a FEND is at its two ends only.
LEMMA KissShape ==
    ASSUME NEW p \in Frame
    PROVE  LET e == S!kiss_escape(p)
               k == S!KissFrame(p)
           IN  /\ k \in Frame /\ e \in Frame /\ Len(e) \in Nat /\ Len(k) = Len(e) + 3
               /\ k[1] = S!FEND /\ k[Len(k)] = S!FEND /\ k[2] = 0
               /\ \A i \in 1 .. Len(e) : k[i + 2] = e[i]
               /\ \A i \in 2 .. Len(k) - 1 : k[i] # S!FEND
<1> DEFINE e == S!kiss_escape(p)
           h == <<S!FEND, 0>>
           t == <<S!FEND>>
           k == S!KissFrame(p)
<1>1. e \in Seq(S!Octet) /\ h \in Seq(S!Octet) /\ t \in Seq(S!Octet)
      /\ Len(h) = 2 /\ Len(t) = 1 /\ h[1] = S!FEND /\ h[2] = 0 /\ t[1] = S!FEND
  BY EscapeTyped DEF Frame, S!FEND, S!Octet
<1>2. k = (h \o e) \o t
  BY DEF S!KissFrame
<1>3. \A i \in 1 .. Len(e) : e[i] # S!FEND
  BY EscapeHidesFend DEF Frame
<1> HIDE DEF e, h, t, k
<1>4. /\ h \o e \in Seq(S!Octet) /\ Len(h \o e) = Len(e) + 2
      /\ (h \o e)[1] = S!FEND /\ (h \o e)[2] = 0
      /\ \A i \in 1 .. Len(e) : (h \o e)[2 + i] = e[i]
  <2>1. h \o e \in Seq(S!Octet) /\ Len(h \o e) = Len(h) + Len(e)
    BY <1>1, ConcatProperties
  <2>2. \A i \in 1 .. Len(h) : (h \o e)[i] = h[i]
    BY <1>1, ConcatParts
  <2>3. \A i \in 1 .. Len(e) : (h \o e)[Len(h) + i] = e[i]
    <3>1. h \in Seq(S!Octet) /\ e \in Seq(S!Octet) /\ Len(h) \in Nat /\ Len(e) \in Nat
      BY <1>1
    <3>2. ASSUME NEW i \in 1 .. Len(e) PROVE (h \o e)[Len(h) + i] = e[i]
      <4>1. h \in Seq(S!Octet) /\ e \in Seq(S!Octet) => \A j \in 1 .. Len(e) : (h \o e)[Len(h) + j] = e[j]
        BY ConcatParts
      <4> QED
        BY <3>1, <4>1
    <3> QED
      BY <3>2
  <2> QED
    BY <1>1, <2>1, <2>2, <2>3
<1> DEFINE g == h \o e
<1> HIDE DEF g
<1>5. /\ g \in Seq(S!Octet) /\ Len(g) = Len(e) + 2 /\ g[1] = S!FEND /\ g[2] = 0
      /\ \A i \in 1 .. Len(e) : g[2 + i] = e[i]
  BY <1>4 DEF g
<1>6. k \in Seq(S!Octet) /\ Len(k) = Len(g) + 1
      /\ (\A i \in 1 .. Len(g) : k[i] = g[i]) /\ k[Len(g) + 1] = S!FEND
  <2>1. k \in Seq(S!Octet) /\ Len(k) = Len(g) + Len(t)
    BY <1>1, <1>2, <1>5, ConcatProperties DEF g
  <2>2. /\ \A i \in 1 .. Len(g) : (g \o t)[i] = g[i]
        /\ \A i \in 1 .. Len(t) : (g \o t)[Len(g) + i] = t[i]
    BY <1>1, <1>5, ConcatParts
  <2> QED
    BY <1>1, <1>2, <2>1, <2>2 DEF g
<1>7. Len(e) \in Nat
  BY <1>1
<1>8. ASSUME NEW i \in 2 .. Len(k) - 1 PROVE k[i] # S!FEND
  <2>1. CASE i = 2
    BY <1>5, <1>6, <1>7, <2>1 DEF S!FEND
  <2>2. CASE i # 2
    <3> DEFINE j == i - 2
    <3>1. j \in 1 .. Len(e) /\ 2 + j = i /\ i \in 1 .. Len(g)
      BY <1>5, <1>6, <1>7, <2>2
    <3> HIDE DEF j
    <3>2. k[i] = g[2 + j] /\ g[2 + j] = e[j] /\ e[j] # S!FEND
      BY <1>3, <1>5, <1>6, <3>1
    <3> QED
      BY <3>2
  <2> QED
    BY <2>1, <2>2
<1>9. /\ k[1] = S!FEND /\ k[2] = 0 /\ \A i \in 1 .. Len(e) : k[i + 2] = e[i]
  BY <1>5, <1>6, <1>7
<1>10. Len(k) = Len(e) + 3 /\ k[Len(k)] = S!FEND
  BY <1>5, <1>6, <1>7
<1> QED
  BY <1>1, <1>6, <1>7, <1>8, <1>9, <1>10 DEF k, e, Frame

\* The octets Send k of sub writes; with k = 0, what was left over.
Text(l, sub, k) == IF k = 0 THEN l ELSE S!KissFrame(sub[k].payload)

\* Octet i is the last that is written of Send k, unless it failed.
Ended(l, sub, k, i) == (k # 0 => sub[k].whole) => i = Len(Text(l, sub, k))

\* Octet p + 1 follows octet p.
Follows(l, sub, own, off, p) ==
    \/ own[p + 1] = own[p] /\ off[p + 1] = off[p] + 1
    \/ own[p + 1] > own[p] /\ off[p + 1] = 1 /\ Ended(l, sub, own[p], off[p])

\* Octet p of w is octet off[p] of the Send own[p], for each p; the octets of a
\* Send are next to each other, from the first to the last one written, but for
\* the Send that comes first, which may lack a beginning.
Labelled(l, sub, w, own, off) ==
    /\ own \in Seq(Nat) /\ off \in Seq(Nat) /\ Len(own) = Len(w) /\ Len(off) = Len(w)
    /\ \A p \in 1 .. Len(w) :
          /\ own[p] <= Len(sub)
          /\ off[p] \in 1 .. Len(Text(l, sub, own[p]))
          /\ w[p] = Text(l, sub, own[p])[off[p]]
    /\ \A p \in 1 .. Len(w) - 1 : Follows(l, sub, own, off, p)
    /\ Len(w) > 0 => Ended(l, sub, own[Len(w)], off[Len(w)])

\* What a labelling says of one octet, and of two neighbours.
LEMMA LabelAt ==
    ASSUME NEW l, NEW sub, NEW w, NEW own, NEW off, Labelled(l, sub, w, own, off),
           NEW p, p \in 1 .. Len(w)
    PROVE  /\ own[p] <= Len(sub)
           /\ off[p] \in 1 .. Len(Text(l, sub, own[p]))
           /\ w[p] = Text(l, sub, own[p])[off[p]]
  BY Zenon DEF Labelled

LEMMA FollowsAt ==
    ASSUME NEW l, NEW sub, NEW w, NEW own, NEW off, Labelled(l, sub, w, own, off),
           NEW p, p \in 1 .. Len(w) - 1
    PROVE  Follows(l, sub, own, off, p)
  BY Zenon DEF Labelled

\* Later octets are of later Sends.
LEMMA OwnersGrow ==
    ASSUME NEW l, NEW sub, NEW w \in Frame, NEW own, NEW off, Labelled(l, sub, w, own, off),
           NEW p \in 1 .. Len(w), NEW n \in Nat, p + n <= Len(w)
    PROVE  own[p] <= own[p + n]
<1> DEFINE Good == {m \in Nat : p + m <= Len(w) => own[p] <= own[p + m]}
<1>0. Len(w) \in Nat /\ \A q \in 1 .. Len(w) : own[q] \in Nat
  BY DEF Labelled, Frame
<1>1. 0 \in Good
  BY <1>0
<1>2. ASSUME NEW m \in Good PROVE m + 1 \in Good
  <2>1. SUFFICES ASSUME p + (m + 1) <= Len(w) PROVE own[p] <= own[p + (m + 1)]
    OBVIOUS
  <2>2. p + m \in 1 .. Len(w) - 1 /\ p + (m + 1) = (p + m) + 1 /\ own[p] <= own[p + m]
        /\ p + m \in 1 .. Len(w) /\ p + m + 1 \in 1 .. Len(w)
    BY <1>0, <2>1
  <2>3. own[p + m + 1] = own[p + m] \/ own[p + m + 1] > own[p + m]
    BY <2>2 DEF Labelled, Follows
  <2> QED
    BY <1>0, <2>2, <2>3
<1> HIDE DEF Good
<1>3. Good \in SUBSET Nat
  BY DEF Good
<1>4. n \in Good
  BY <1>1, <1>2, <1>3, Induct
<1> QED
  BY <1>4 DEF Good

\* Up to the next FEND the octets are those of one Send, in their order.
LEMMA OneOwner ==
    ASSUME NEW l, NEW sub \in Seq(Sent), NEW w \in Frame, NEW own, NEW off,
           Labelled(l, sub, w, own, off),
           NEW n \in Nat, n < Len(w), \A p \in 2 .. n + 1 : w[p] # S!FEND
    PROVE  own[n + 1] = own[1] /\ off[n + 1] = off[1] + n
<1> DEFINE Good == {m \in Nat : m <= n => own[m + 1] = own[1] /\ off[m + 1] = off[1] + m}
<1>0. Len(w) \in Nat /\ \A q \in 1 .. Len(w) : own[q] \in Nat /\ off[q] \in Nat
  BY DEF Labelled, Frame
<1>1. 0 \in Good
  BY <1>0
<1>2. ASSUME NEW m \in Good PROVE m + 1 \in Good
  <2>1. SUFFICES ASSUME m + 1 <= n
                 PROVE  own[m + 1 + 1] = own[1] /\ off[m + 1 + 1] = off[1] + (m + 1)
    OBVIOUS
  <2> DEFINE p == m + 1
  <2>2. p \in 1 .. Len(w) - 1 /\ p + 1 \in 1 .. Len(w) /\ p + 1 \in 2 .. n + 1
        /\ own[p] = own[1] /\ off[p] = off[1] + m
    BY <1>0, <2>1
  <2>3. w[p + 1] # S!FEND
    BY <2>2
  <2> HIDE DEF p
  <2>4. Follows(l, sub, own, off, p) /\ own[p + 1] <= Len(sub)
        /\ w[p + 1] = Text(l, sub, own[p + 1])[off[p + 1]]
    BY <2>2, LabelAt, FollowsAt
  <2>5. ~(own[p + 1] > own[p] /\ off[p + 1] = 1)
    <3> SUFFICES ASSUME own[p + 1] > own[p], off[p + 1] = 1 PROVE FALSE
      OBVIOUS
    <3> DEFINE k == own[p + 1]
    <3>1. k \in 1 .. Len(sub)
      <4>1. own[p] \in Nat /\ own[p + 1] \in Nat
        BY <1>0, <2>2
      <4> QED
        BY <2>4, <4>1
    <3>2. sub[k].payload \in Frame
      <4>1. sub[k] \in Sent
        BY <3>1, ElementOfSeq
      <4> QED
        BY <4>1, Payloads DEF Sent
    <3>3. Text(l, sub, k)[1] = S!FEND
      BY <3>1, <3>2, KissShape DEF Text
    <3> QED
      BY <2>3, <2>4, <3>3
  <2>6. own[p + 1] = own[p] /\ off[p + 1] = off[p] + 1
    BY <2>4, <2>5 DEF Follows
  <2> QED
    BY <1>0, <2>2, <2>6 DEF p
<1> HIDE DEF Good
<1>3. Good \in SUBSET Nat
  BY DEF Good
<1>4. n \in Good
  BY <1>1, <1>2, <1>3, Induct
<1> QED
  BY <1>4 DEF Good

\* The octets from the n-th on stay labelled when those before them are gone.
LEMMA DropLabels ==
    ASSUME NEW l, NEW sub, NEW w \in Frame, NEW own, NEW off, Labelled(l, sub, w, own, off),
           NEW n \in 0 .. Len(w)
    PROVE  Labelled(l, sub, SubSeq(w, n + 1, Len(w)), SubSeq(own, n + 1, Len(w)),
                    SubSeq(off, n + 1, Len(w)))
<1> DEFINE v == SubSeq(w, n + 1, Len(w))
           own1 == SubSeq(own, n + 1, Len(w))
           off1 == SubSeq(off, n + 1, Len(w))
           m == Len(w) - n
<1>0. Len(w) \in Nat /\ own \in Seq(Nat) /\ off \in Seq(Nat) /\ Len(own) = Len(w) /\ Len(off) = Len(w)
      /\ m \in Nat
  BY DEF Labelled, Frame
<1>1. Len(v) = m /\ \A p \in 1 .. m : v[p] = w[n + p]
  BY <1>0 DEF Frame
<1>2. own1 \in Seq(Nat) /\ Len(own1) = m /\ \A p \in 1 .. m : own1[p] = own[n + p]
  BY <1>0
<1>3. off1 \in Seq(Nat) /\ Len(off1) = m /\ \A p \in 1 .. m : off1[p] = off[n + p]
  BY <1>0
<1> HIDE DEF v, own1, off1
<1>4. ASSUME NEW p \in 1 .. m
      PROVE  /\ own1[p] <= Len(sub)
             /\ off1[p] \in 1 .. Len(Text(l, sub, own1[p]))
             /\ v[p] = Text(l, sub, own1[p])[off1[p]]
  <2>1. n + p \in 1 .. Len(w)
    BY <1>0
  <2> QED
    BY <1>1, <1>2, <1>3, <2>1 DEF Labelled
<1>5. ASSUME NEW p \in 1 .. m - 1 PROVE Follows(l, sub, own1, off1, p)
  <2>1. n + p \in 1 .. Len(w) - 1 /\ p \in 1 .. m /\ p + 1 \in 1 .. m /\ (n + p) + 1 = n + (p + 1)
    BY <1>0
  <2>2. Follows(l, sub, own, off, n + p)
    BY <2>1 DEF Labelled
  <2>3. own1[p] = own[n + p] /\ off1[p] = off[n + p]
        /\ own1[p + 1] = own[n + (p + 1)] /\ off1[p + 1] = off[n + (p + 1)]
    BY <1>2, <1>3, <2>1
  <2> QED
    BY <2>1, <2>2, <2>3 DEF Follows
<1>6. ASSUME m > 0 PROVE Ended(l, sub, own1[m], off1[m])
  <2>1. m \in 1 .. m /\ n + m = Len(w) /\ Len(w) > 0
    BY <1>0, <1>6
  <2> QED
    BY <1>2, <1>3, <2>1 DEF Labelled
<1> QED
  BY <1>1, <1>2, <1>3, <1>4, <1>5, <1>6 DEF Labelled, v, own1, off1

\* A Send of p begins.
WithSend(sub, p) == Append(sub, [payload |-> p, whole |-> TRUE])

\* The labels own1 and off1 are own and off, and after them those of a Send of p.
Appended(l, sub, w, own, off, p, own1, off1) ==
    /\ own1 \in Seq(Nat) /\ off1 \in Seq(Nat)
    /\ Labelled(l, WithSend(sub, p), w \o S!KissFrame(p), own1, off1)
    /\ \A q \in 1 .. Len(w) : own1[q] = own[q] /\ off1[q] = off[q]
    /\ \A i \in 1 .. Len(S!KissFrame(p)) :
          own1[Len(w) + i] = Len(sub) + 1 /\ off1[Len(w) + i] = i

\* The octets of a Send come after those that are there.
LEMMA AppendLabels ==
    ASSUME NEW l, NEW sub \in Seq(Sent), NEW w \in Frame, NEW own, NEW off,
           Labelled(l, sub, w, own, off), NEW p \in Range(Payload)
    PROVE  \E own1, off1 : Appended(l, sub, w, own, off, p, own1, off1)
<1> DEFINE k == S!KissFrame(p)
           n == Len(sub) + 1
           new == [payload |-> p, whole |-> TRUE]
           sub1 == Append(sub, new)
           a == Len(w)
           b == Len(k)
           v == w \o k
           own1 == [q \in 1 .. a + b |-> IF q <= a THEN own[q] ELSE n]
           off1 == [q \in 1 .. a + b |-> IF q <= a THEN off[q] ELSE q - a]
<1>1. p \in Frame /\ k \in Frame /\ b \in Nat \ {0} /\ a \in Nat /\ new \in Sent
  <2>1. p \in Frame
    BY Payloads
  <2>2. k \in Frame /\ Len(k) = Len(S!kiss_escape(p)) + 3 /\ Len(S!kiss_escape(p)) \in Nat
    BY <2>1, KissShape
  <2> QED
    BY <2>1, <2>2 DEF Sent, Frame
<1>2. /\ Len(sub1) = n /\ n \in Nat \ {0} /\ sub1[n] = new
      /\ \A j \in 1 .. Len(sub) : sub1[j] = sub[j]
  BY <1>1, AppendProperties
<1>3. Text(l, sub1, n) = k /\ \A i : Ended(l, sub1, n, i) <=> i = b
  <2>1. sub1[n].payload = p /\ sub1[n].whole = TRUE
    BY <1>2
  <2> HIDE DEF sub1, n
  <2> QED
    BY <1>2, <2>1 DEF Text, Ended
<1>4. ASSUME NEW j \in Nat, j <= Len(sub)
      PROVE  Text(l, sub1, j) = Text(l, sub, j) /\ \A i : Ended(l, sub1, j, i) <=> Ended(l, sub, j, i)
  <2>1. j = 0 \/ sub1[j] = sub[j]
    BY <1>2, <1>4
  <2> HIDE DEF sub1
  <2> QED
    BY <2>1 DEF Text, Ended
<1>5. v \in Frame /\ Len(v) = a + b /\ (\A q \in 1 .. a : v[q] = w[q]) /\ \A i \in 1 .. b : v[a + i] = k[i]
  <2> HIDE DEF k
  <2>1. w \in Seq(S!Octet) /\ k \in Seq(S!Octet)
    BY <1>1 DEF Frame
  <2>2. v \in Seq(S!Octet) /\ Len(v) = a + b
    BY <2>1, ConcatProperties
  <2>3. \A q \in 1 .. a : v[q] = w[q]
    BY <2>1, ConcatParts
  <2>4. \A i \in 1 .. b : v[a + i] = k[i]
    BY <2>1, ConcatParts
  <2> QED
    BY <2>2, <2>3, <2>4 DEF Frame
<1>6. ASSUME NEW q \in 1 .. a
      PROVE  own1[q] = own[q] /\ off1[q] = off[q] /\ own[q] \in Nat /\ off[q] \in Nat
             /\ own[q] <= Len(sub)
  BY <1>1 DEF Labelled
<1>7. ASSUME NEW i \in 1 .. b PROVE own1[a + i] = n /\ off1[a + i] = i
  BY <1>1
<1>8. own1 \in Seq(Nat) /\ off1 \in Seq(Nat) /\ Len(own1) = a + b /\ Len(off1) = a + b
  <2>1. ASSUME NEW q \in 1 .. a + b
        PROVE  (IF q <= a THEN own[q] ELSE n) \in Nat /\ (IF q <= a THEN off[q] ELSE q - a) \in Nat
    <3>1. CASE q <= a
      <4>1. q \in 1 .. a
        BY <1>1, <3>1
      <4> QED
        BY <1>6, <3>1, <4>1
    <3>2. CASE q > a
      BY <1>1, <1>2, <3>2
    <3> QED
      BY <1>1, <3>1, <3>2
  <2>2. a + b \in Nat
    BY <1>1
  <2>3. own1 \in [1 .. a + b -> Nat] /\ off1 \in [1 .. a + b -> Nat]
    <3> HIDE DEF n, a, b
    <3> QED
      BY <2>1
  <2> HIDE DEF n, a, b, own1, off1
  <2> QED
    BY <2>2, <2>3, SeqOfNat
<1> HIDE DEF k, sub1, a, b, v, own1, off1
<1>9. ASSUME NEW q \in 1 .. Len(v)
      PROVE  /\ own1[q] <= Len(sub1)
             /\ off1[q] \in 1 .. Len(Text(l, sub1, own1[q]))
             /\ v[q] = Text(l, sub1, own1[q])[off1[q]]
  <2>1. CASE q \in 1 .. a
    <3>1. off[q] \in 1 .. Len(Text(l, sub, own[q])) /\ w[q] = Text(l, sub, own[q])[off[q]]
      BY <2>1 DEF Labelled, a
    <3>2. Text(l, sub1, own[q]) = Text(l, sub, own[q])
      BY <1>4, <1>6, <2>1
    <3>3. own[q] <= Len(sub1)
      BY <1>2, <1>6, <2>1
    <3> QED
      BY <1>5, <1>6, <2>1, <3>1, <3>2, <3>3
  <2>2. CASE q \notin 1 .. a
    <3> DEFINE i == q - a
    <3>1. i \in 1 .. b /\ q = a + i
      BY <1>1, <1>5, <2>2
    <3> HIDE DEF i
    <3>2. own1[q] = n /\ off1[q] = i /\ v[q] = k[i]
      BY <1>5, <1>7, <3>1
    <3>3. off1[q] \in 1 .. Len(k)
      BY <3>1, <3>2 DEF b
    <3> QED
      BY <1>2, <1>3, <3>2, <3>3
  <2> QED
    BY <2>1, <2>2
<1>10. ASSUME NEW q \in 1 .. Len(v) - 1 PROVE Follows(l, sub1, own1, off1, q)
  <2>1. CASE q + 1 \in 1 .. a
    <3>1. q \in 1 .. a - 1 /\ q \in 1 .. a
      BY <1>1, <2>1
    <3>2. Follows(l, sub, own, off, q)
      BY <3>1 DEF Labelled, a
    <3>3. Ended(l, sub1, own[q], off[q]) <=> Ended(l, sub, own[q], off[q])
      BY <1>4, <1>6, <3>1
    <3>4. own1[q] = own[q] /\ off1[q] = off[q] /\ own1[q + 1] = own[q + 1] /\ off1[q + 1] = off[q + 1]
      BY <1>6, <2>1, <3>1
    <3> QED
      BY <3>2, <3>3, <3>4 DEF Follows
  <2>2. CASE q = a
    <3>1. a > 0 /\ a \in 1 .. a /\ 1 \in 1 .. b
      BY <1>1, <2>2
    <3>2. Ended(l, sub, own[a], off[a])
      BY <3>1 DEF Labelled, a
    <3>3. Ended(l, sub1, own[a], off[a])
      BY <1>4, <1>6, <3>1, <3>2
    <3>4. own1[a] = own[a] /\ off1[a] = off[a] /\ own1[a + 1] = n /\ off1[a + 1] = 1 /\ own[a] < n
      BY <1>2, <1>6, <1>7, <3>1
    <3> QED
      BY <2>2, <3>3, <3>4 DEF Follows
  <2>3. CASE q > a
    <3> DEFINE i == q - a
    <3>1. i \in 1 .. b /\ i + 1 \in 1 .. b /\ q = a + i /\ q + 1 = a + (i + 1)
      BY <1>1, <1>5, <2>3
    <3> HIDE DEF i
    <3>2. own1[q] = n /\ off1[q] = i /\ own1[q + 1] = n /\ off1[q + 1] = i + 1
      BY <1>7, <3>1
    <3> QED
      BY <3>2 DEF Follows
  <2> QED
    BY <1>1, <1>5, <2>1, <2>2, <2>3
<1>11. Ended(l, sub1, own1[Len(v)], off1[Len(v)])
  <2>1. b \in 1 .. b
    BY <1>1
  <2> QED
    BY <1>3, <1>5, <1>7, <2>1
<1>12. Labelled(l, sub1, v, own1, off1)
  BY <1>5, <1>8, <1>9, <1>10, <1>11 DEF Labelled
<1>13. Appended(l, sub, w, own, off, p, own1, off1)
  BY <1>6, <1>7, <1>8, <1>12 DEF k, sub1, a, b, v, WithSend, Appended, n
<1> QED
  BY <1>13

\* A Send that fails leaves the octets before the m-th of them.
LEMMA CutLabels ==
    ASSUME NEW l, NEW sub \in Seq(Sent), NEW w \in Frame, NEW own, NEW off,
           Labelled(l, sub, w, own, off), Len(sub) > 0,
           NEW m \in Nat, m < Len(w), \A p \in m + 1 .. Len(w) : own[p] = Len(sub)
    PROVE  Labelled(l, [sub EXCEPT ![Len(sub)].whole = FALSE], SubSeq(w, 1, m), SubSeq(own, 1, m),
                    SubSeq(off, 1, m))
<1> DEFINE n == Len(sub)
           sub1 == [sub EXCEPT ![n].whole = FALSE]
           v == SubSeq(w, 1, m)
           own1 == SubSeq(own, 1, m)
           off1 == SubSeq(off, 1, m)
<1>0. Len(w) \in Nat /\ n \in Nat \ {0} /\ own \in Seq(Nat) /\ off \in Seq(Nat)
      /\ Len(own) = Len(w) /\ Len(off) = Len(w)
  BY DEF Labelled, Frame
<1>1. /\ Len(sub1) = n
      /\ \A j \in 1 .. n : sub1[j].payload = sub[j].payload /\ (j # n => sub1[j].whole = sub[j].whole)
      /\ sub1[n].whole = FALSE
  <2>1. \A j \in 1 .. n : sub[j] \in Sent
    BY ElementOfSeq
  <2>2. n \in 1 .. n
    BY <1>0
  <2>3. sub1 = [sub EXCEPT ![n] = [sub[n] EXCEPT !.whole = FALSE]]
    OBVIOUS
  <2>4. [sub[n] EXCEPT !.whole = FALSE] \in Sent
        /\ [sub[n] EXCEPT !.whole = FALSE].payload = sub[n].payload
        /\ [sub[n] EXCEPT !.whole = FALSE].whole = FALSE
    BY <2>1, <2>2 DEF Sent
  <2> DEFINE x == [sub[n] EXCEPT !.whole = FALSE]
  <2> HIDE DEF x
  <2>5. sub1 = [sub EXCEPT ![n] = x] /\ x \in Sent /\ x.payload = sub[n].payload /\ x.whole = FALSE
    BY <2>3, <2>4 DEF x
  <2>6. Len([sub EXCEPT ![n] = x]) = n
        /\ \A j \in 1 .. n : [sub EXCEPT ![n] = x][j] = IF j = n THEN x ELSE sub[j]
    BY <2>2, <2>5, ExceptSeq
  <2> HIDE DEF sub1
  <2> QED
    BY <2>2, <2>5, <2>6
<1>2. Len(v) = m /\ \A p \in 1 .. m : v[p] = w[p]
  BY <1>0 DEF Frame
<1>3. own1 \in Seq(Nat) /\ Len(own1) = m /\ \A p \in 1 .. m : own1[p] = own[p]
  BY <1>0
<1>4. off1 \in Seq(Nat) /\ Len(off1) = m /\ \A p \in 1 .. m : off1[p] = off[p]
  BY <1>0
<1> HIDE DEF sub1, v, own1, off1
<1>5. ASSUME NEW j \in Nat, j <= n
      PROVE  /\ Text(l, sub1, j) = Text(l, sub, j)
             /\ \A i : Ended(l, sub, j, i) => Ended(l, sub1, j, i)
             /\ j = n => \A i : Ended(l, sub1, j, i)
  <2>1. j = 0 \/ j \in 1 .. n
    BY <1>0, <1>5
  <2>2. Text(l, sub1, j) = Text(l, sub, j)
    BY <1>1, <2>1 DEF Text
  <2>3. CASE j = n
    BY <1>0, <1>1, <2>2, <2>3 DEF Ended
  <2>4. CASE j # n
    BY <1>1, <2>1, <2>2, <2>4 DEF Ended
  <2> QED
    BY <2>2, <2>3, <2>4
<1>6. ASSUME NEW p \in 1 .. m PROVE p \in 1 .. Len(w) /\ own[p] \in Nat /\ own[p] <= n
  BY <1>0 DEF Labelled
<1>7. ASSUME NEW p \in 1 .. m
      PROVE  /\ own1[p] <= Len(sub1)
             /\ off1[p] \in 1 .. Len(Text(l, sub1, own1[p]))
             /\ v[p] = Text(l, sub1, own1[p])[off1[p]]
  <2>1. off[p] \in 1 .. Len(Text(l, sub, own[p])) /\ w[p] = Text(l, sub, own[p])[off[p]]
    BY <1>6 DEF Labelled
  <2>2. Text(l, sub1, own[p]) = Text(l, sub, own[p])
    BY <1>5, <1>6
  <2> QED
    BY <1>1, <1>2, <1>3, <1>4, <1>6, <2>1, <2>2
<1>8. ASSUME NEW p \in 1 .. m - 1 PROVE Follows(l, sub1, own1, off1, p)
  <2>1. p \in 1 .. Len(w) - 1 /\ p \in 1 .. m /\ p + 1 \in 1 .. m
    BY <1>0
  <2>2. Follows(l, sub, own, off, p)
    BY <2>1, FollowsAt
  <2>3. Ended(l, sub, own[p], off[p]) => Ended(l, sub1, own[p], off[p])
    BY <1>5, <1>6, <2>1
  <2> QED
    BY <1>3, <1>4, <2>1, <2>2, <2>3 DEF Follows
<1>9. ASSUME m > 0 PROVE Ended(l, sub1, own1[m], off1[m])
  <2>1. m \in 1 .. m /\ m \in 1 .. Len(w) - 1 /\ m + 1 \in m + 1 .. Len(w)
    BY <1>0, <1>9
  <2>2. own[m + 1] = n /\ own[m] \in Nat /\ own[m] <= n
    BY <1>6, <2>1
  <2>3. own[m] = n \/ Ended(l, sub, own[m], off[m])
    BY <2>1, <2>2, FollowsAt DEF Follows
  <2>4. Ended(l, sub1, own[m], off[m])
    BY <1>5, <2>2, <2>3
  <2> QED
    BY <1>3, <1>4, <2>1, <2>4
<1> QED
  BY <1>2, <1>3, <1>4, <1>7, <1>8, <1>9 DEF Labelled, sub1, v, own1, off1

------------------------------------------------------------------------------
(* What the reader makes of it.                                            *)

\* The octet at p comes right behind a FEND, or begins a Send.
Resumed(l, own, off, p) ==
    IF own[p] = 0 THEN off[p] > 1 /\ l[off[p] - 1] = S!FEND ELSE off[p] \in {1, 2}

\* A frame may be passed on for a Send.
Carried(send, out) ==
    IF send.whole THEN out = send.payload ELSE S!IsPrefix(out, send.payload)

\* What comes after a FEND is at the beginning of a frame, or of its data.
LEMMA AfterFend ==
    ASSUME NEW l, NEW sub \in Seq(Sent), NEW w \in Frame, NEW own, NEW off,
           Labelled(l, sub, w, own, off), NEW p \in 1 .. Len(w) - 1, w[p] = S!FEND
    PROVE  Resumed(l, own, off, p + 1)
<1>1. p \in 1 .. Len(w) /\ p + 1 \in 1 .. Len(w)
  BY DEF Frame
<1>2. /\ own[p] \in Nat /\ own[p + 1] \in Nat /\ own[p + 1] <= Len(sub)
      /\ off[p] \in 1 .. Len(Text(l, sub, own[p])) /\ w[p] = Text(l, sub, own[p])[off[p]]
      /\ off[p + 1] \in 1 .. Len(Text(l, sub, own[p + 1]))
      /\ off[p] \in Nat /\ off[p + 1] \in Nat
      /\ Follows(l, sub, own, off, p)
  <2>1. own \in Seq(Nat) /\ off \in Seq(Nat) /\ Len(own) = Len(w) /\ Len(off) = Len(w)
    BY DEF Labelled
  <2>2. own[p] \in Nat /\ own[p + 1] \in Nat /\ off[p] \in Nat /\ off[p + 1] \in Nat
    BY <1>1, <2>1
  <2>3. Follows(l, sub, own, off, p)
    BY FollowsAt
  <2> DEFINE q == p + 1
  <2>4. q \in 1 .. Len(w)
    BY <1>1
  <2> HIDE DEF q
  <2>5. own[q] <= Len(sub) /\ off[q] \in 1 .. Len(Text(l, sub, own[q]))
    BY <2>4, LabelAt
  <2>6. off[p] \in 1 .. Len(Text(l, sub, own[p])) /\ w[p] = Text(l, sub, own[p])[off[p]]
    BY <1>1, LabelAt
  <2> QED
    BY <2>2, <2>3, <2>5, <2>6 DEF q
<1>3. CASE own[p + 1] > own[p] /\ off[p + 1] = 1
  BY <1>2, <1>3 DEF Resumed
<1>4. CASE own[p + 1] = own[p] /\ off[p + 1] = off[p] + 1 /\ own[p] = 0
  <2>1. l[off[p]] = S!FEND /\ off[p + 1] - 1 = off[p] /\ off[p + 1] > 1
    BY <1>2, <1>4 DEF Text
  <2> QED
    BY <1>4, <2>1 DEF Resumed
<1>5. CASE own[p + 1] = own[p] /\ off[p + 1] = off[p] + 1 /\ own[p] # 0
  <2> DEFINE s == sub[own[p]].payload
             k == S!KissFrame(s)
  <2>1. own[p] \in 1 .. Len(sub)
    BY <1>2, <1>5
  <2>2. sub[own[p]] \in Sent
    BY <2>1, ElementOfSeq
  <2>3. s \in Frame
    BY <2>2, Payloads DEF Sent
  <2>4. Text(l, sub, own[p]) = k
    BY <1>5 DEF Text
  <2>5. \A i \in 2 .. Len(k) - 1 : k[i] # S!FEND
    BY <2>3, KissShape
  <2>6. Len(k) \in Nat
    BY <2>3, KissShape
  <2> HIDE DEF k
  <2>7. k[off[p]] = S!FEND /\ off[p] \in 1 .. Len(k) - 1
    BY <1>2, <1>5, <2>4, <2>6
  <2>8. off[p] = 1
    BY <2>5, <2>6, <2>7
  <2> QED
    BY <1>5, <2>8 DEF Resumed
<1> QED
  BY <1>2, <1>3, <1>4, <1>5 DEF Follows

\* One octet and a sequence, without the octet.
LEMMA TailOfOne ==
    ASSUME NEW T, NEW o \in T, NEW s \in Seq(T)
    PROVE  Tail(<<o>> \o s) = s /\ <<o>> \o s # <<>> /\ (<<o>> \o s)[1] = o
<1> DEFINE z == <<o>>
           c == z \o s
<1>1. z \in Seq(T) /\ Len(z) = 1 /\ z[1] = o
  OBVIOUS
<1> HIDE DEF z
<1>2. c \in Seq(T) /\ Len(c) = 1 + Len(s)
  BY <1>1, ConcatProperties
<1>3. (\A i \in 1 .. 1 : c[i] = z[i]) /\ \A i \in 1 .. Len(s) : c[1 + i] = s[i]
  <2>1. \A i \in 1 .. Len(z) : c[i] = z[i]
    BY <1>1, ConcatParts
  <2>2. \A i \in 1 .. Len(s) : c[Len(z) + i] = s[i]
    <3>1. z \in Seq(T) => \A j \in 1 .. Len(s) : (z \o s)[Len(z) + j] = s[j]
      BY ConcatParts
    <3> QED
      BY <1>1, <3>1
  <2> HIDE DEF c
  <2> QED
    BY <1>1, <2>1, <2>2
<1> HIDE DEF c
<1>4. c # <<>> /\ c[1] = o
  BY <1>1, <1>2, <1>3
<1>5. Tail(c) \in Seq(T) /\ Len(Tail(c)) = Len(s) /\ \A i \in 1 .. Len(s) : Tail(c)[i] = c[i + 1]
  BY <1>2, <1>4, HeadTailProperties
<1>6. Tail(c) = s
  BY <1>3, <1>5, SeqEqual
<1> QED
  BY <1>4, <1>6 DEF c, z

\* Of a Send that failed, its beginning may be passed on.
LEMMA CarriedIs ==
    ASSUME NEW send \in Sent, NEW n \in 0 .. Len(send.payload)
    PROVE  /\ Carried(send, send.payload)
           /\ ~send.whole => Carried(send, SubSeq(send.payload, 1, n))
<1> DEFINE s == send.payload
           b == SubSeq(s, 1, n)
<1>1. s \in Seq(S!Octet) /\ Len(s) \in Nat
  BY Payloads DEF Sent, Frame
<1> HIDE DEF s
<1>2. b \in Seq(S!Octet) /\ Len(b) = n
  BY <1>1 DEF s
<1>3. SubSeq(b, 1, n) = b /\ SubSeq(s, 1, Len(s)) = s
  BY <1>1, <1>2, SubSeqFull
<1> HIDE DEF b
<1>4. S!IsPrefix(s, s)
  BY <1>1, <1>3 DEF S!IsPrefix
<1>5. S!IsPrefix(b, s)
  <2>1. Len(b) <= Len(s)
    BY <1>1, <1>2 DEF s
  <2>2. SubSeq(b, 1, Len(b)) = SubSeq(s, 1, Len(b))
    BY <1>2, <1>3 DEF b
  <2> QED
    BY <2>1, <2>2 DEF S!IsPrefix
<1> QED
  BY <1>4, <1>5 DEF Carried, s, b

\* What lies before the next FEND, after another.
LEMMA CutFrame ==
    ASSUME NEW l \in Leftover, NEW sub \in Seq(Sent), NEW w \in Frame, NEW own, NEW off,
           Labelled(l, sub, w, own, off), NEW n \in 1 .. Len(w), w[n] = S!FEND,
           \A p \in 1 .. n - 1 : w[p] # S!FEND,
           Resumed(l, own, off, 1),
           NEW d \in Frame, Len(d) = n - 1, \A p \in 1 .. n - 1 : d[p] = w[p],
           ~S!Invalid(d), S!kiss_unescape(d) # <<>>, S!kiss_unescape(d)[1] = 0
    PROVE  /\ own[1] \in 1 .. Len(sub)
           /\ Carried(sub[own[1]], Tail(S!kiss_unescape(d)))
           /\ \A p \in n + 1 .. Len(w) : own[p] > own[1]
<1>a. 1 \in 1 .. Len(w) /\ n \in 1 .. Len(w)
  BY DEF Frame
<1>b. /\ own[1] <= Len(sub) /\ off[1] \in 1 .. Len(Text(l, sub, own[1]))
      /\ w[1] = Text(l, sub, own[1])[off[1]]
      /\ own[n] <= Len(sub) /\ off[n] \in 1 .. Len(Text(l, sub, own[n]))
      /\ w[n] = Text(l, sub, own[n])[off[n]]
  BY ONLY <1>a, Labelled(l, sub, w, own, off), LabelAt
<1> DEFINE k == own[1]
           j == off[1]
<1>0. Len(w) \in Nat /\ n \in Nat \ {0} /\ own \in Seq(Nat) /\ off \in Seq(Nat)
      /\ Len(own) = Len(w) /\ Len(off) = Len(w) /\ k \in Nat /\ j \in Nat /\ 1 \in 1 .. Len(w)
  BY DEF Labelled, Frame
<1>1. n # 1
  <2> SUFFICES ASSUME n = 1 PROVE FALSE
    OBVIOUS
  <2>1. d = <<>>
    BY EmptySeq DEF Frame
  <2>2. S!kiss_unescape(d) = <<>>
    BY <2>1, UnescapedEmpty DEF S!kiss_unescape, Nothing
  <2> QED
    BY <2>2
<1>2. /\ k <= Len(sub) /\ j \in 1 .. Len(Text(l, sub, k)) /\ w[1] = Text(l, sub, k)[j]
  BY <1>b
<1>3. ASSUME NEW p \in 1 .. n - 1
      PROVE  /\ own[p] = k /\ off[p] = j + (p - 1)
             /\ d[p] = Text(l, sub, k)[j + (p - 1)]
             /\ j + (p - 1) \in 1 .. Len(Text(l, sub, k))
  <2> DEFINE m == p - 1
  <2>1. m \in Nat /\ m < Len(w) /\ p = m + 1 /\ p \in 1 .. Len(w)
        /\ \A q \in 2 .. m + 1 : w[q] # S!FEND
    BY <1>0
  <2> HIDE DEF m
  <2>2. own[m + 1] = own[1] /\ off[m + 1] = off[1] + m
    BY <2>1, OneOwner
  <2>3. own[p] = k /\ off[p] = j + (p - 1)
    BY <2>1, <2>2 DEF m
  <2>4. w[p] = Text(l, sub, own[p])[off[p]] /\ off[p] \in 1 .. Len(Text(l, sub, own[p]))
    BY <2>1, LabelAt
  <2> QED
    BY <2>3, <2>4
<1>4. n - 1 \in 1 .. n - 1 /\ n - 1 \in 1 .. Len(w) - 1 /\ (n - 1) + 1 = n
  BY <1>0, <1>1
<1>5. own[n - 1] = k /\ off[n - 1] = j + n - 2
  <2>1. own[n - 1] = k /\ off[n - 1] = j + ((n - 1) - 1)
    BY <1>3, <1>4
  <2> QED
    BY <1>0, <2>1
<1>6. /\ own[n] \in Nat /\ own[n] <= Len(sub)
      /\ off[n] \in 1 .. Len(Text(l, sub, own[n]))
      /\ S!FEND = Text(l, sub, own[n])[off[n]]
  <2>1. own[n] \in Nat
    BY <1>0
  <2> QED
    BY <1>b, <2>1
<1>7. \/ own[n] = k /\ off[n] = j + n - 1
      \/ own[n] > k /\ off[n] = 1 /\ Ended(l, sub, k, j + n - 2)
  <2> DEFINE m == n - 1
  <2>1. Follows(l, sub, own, off, m) /\ own[m] = k /\ off[m] = j + n - 2 /\ m + 1 = n
    BY <1>4, <1>5, FollowsAt
  <2> HIDE DEF m
  <2>2. (own[m] = own[n] /\ off[n] = off[m] + 1) \/ (own[n] > own[m] /\ off[n] = 1 /\ Ended(l, sub, own[m], off[m]))
    BY <2>1 DEF Follows
  <2> QED
    BY <1>0, <2>1, <2>2
<1> HIDE DEF k, j
<1>8. k # 0
  <2> SUFFICES ASSUME k = 0 PROVE FALSE
    OBVIOUS
  <2>1. j > 1 /\ l[j - 1] = S!FEND
    BY DEF Resumed, k, j
  <2> DEFINE a == j - 1
             b == j + n - 1
  <2>2. /\ l \in Seq(S!Octet) /\ Len(l) \in Nat
        /\ a \in 1 .. Len(l) /\ b \in a + 1 .. Len(l) + 1 /\ l[a] = S!FEND
        /\ j + n - 2 <= Len(l)
    <3>1. l \in Seq(S!Octet) /\ Text(l, sub, k) = l
      BY LeftoverAssumption DEF Text
    <3>2. j + ((n - 1) - 1) \in 1 .. Len(l) /\ j \in 1 .. Len(l)
      BY <1>2, <1>3, <1>4, <3>1
    <3> QED
      BY <1>0, <1>1, <2>1, <3>1, <3>2
  <2>3. b = Len(l) + 1 \/ l[b] = S!FEND
    <3>1. CASE own[n] = k /\ off[n] = j + n - 1
      BY <1>6, <3>1 DEF Text
    <3>2. CASE Ended(l, sub, k, j + n - 2)
      <4>1. j + n - 2 = Len(l)
        BY <3>2 DEF Ended, Text
      <4>2. n \in Nat /\ j \in Nat /\ Len(l) \in Nat
        BY <1>0, <2>2
      <4>3. j + n - 1 = Len(l) + 1
        BY <4>1, <4>2
      <4> QED
        BY <4>3
    <3> QED
      BY <1>7, <3>1, <3>2
  <2>4. ASSUME NEW i \in a + 1 .. b - 1 PROVE l[i] # S!FEND /\ d[i - a] = l[i] /\ i - a \in 1 .. n - 1
    <3> DEFINE p == i - a
    <3>1. p \in 1 .. n - 1 /\ i = j + (p - 1)
      BY <1>0, <2>1, <2>2
    <3> HIDE DEF p
    <3>2. d[p] = l[i] /\ d[p] # S!FEND
      BY <1>3, <3>1 DEF Text
    <3> QED
      BY <3>1, <3>2 DEF p
  <2>5. SubSeq(l, a + 1, b - 1) = d
    <3> HIDE DEF a, b
    <3>1. a \in Nat /\ b \in Nat /\ b - a - 1 = n - 1 /\ a + 1 <= b - 1
      BY <1>0, <1>1, <2>1, <2>2 DEF a, b
    <3> DEFINE v == SubSeq(l, a + 1, b - 1)
    <3>2. v \in Seq(S!Octet) /\ Len(v) = n - 1 /\ \A i \in 1 .. n - 1 : v[i] = l[a + i]
      BY <2>2, <3>1
    <3> HIDE DEF v
    <3>3. ASSUME NEW i \in 1 .. n - 1 PROVE v[i] = d[i]
      <4>1. a + i \in a + 1 .. b - 1 /\ (a + i) - a = i
        BY <3>1
      <4>2. d[(a + i) - a] = l[a + i]
        BY <2>4, <4>1
      <4> QED
        BY <3>2, <4>1, <4>2
    <3>4. v = d
      BY <3>2, <3>3, SeqEqual DEF Frame
    <3> QED
      BY <3>4 DEF v
  <2>6. NoFrame(SubSeq(l, a + 1, b - 1))
    <3> HIDE DEF a, b
    <3>1. \A i \in a + 1 .. b - 1 : l[i] # S!FEND
      BY <2>4
    <3> QED
      BY <2>2, <2>3, <3>1, LeftoverAssumption
  <2>7. NoFrame(d)
    BY <2>5, <2>6
  <2> QED
    BY <2>7 DEF NoFrame
<1>9. k \in 1 .. Len(sub)
  BY <1>0, <1>2, <1>8 DEF k
<1> DEFINE send == sub[k]
           s == send.payload
           e == S!kiss_escape(s)
           x == S!KissFrame(s)
<1>10. send \in Sent
  BY <1>9, ElementOfSeq
<1>11. s \in Frame /\ s \in Seq(S!Octet) /\ Len(s) \in Nat
  BY <1>10, Payloads DEF Sent, Frame
<1>12. /\ x \in Frame /\ e \in Frame /\ Len(e) \in Nat /\ Len(x) = Len(e) + 3
       /\ x[1] = S!FEND /\ x[Len(x)] = S!FEND /\ x[2] = 0
       /\ \A i \in 1 .. Len(e) : x[i + 2] = e[i]
       /\ \A i \in 2 .. Len(x) - 1 : x[i] # S!FEND
  BY <1>11, KissShape
<1>13. Text(l, sub, k) = x
  BY <1>8 DEF Text
<1>14. Len(e) = Len(S!kiss_escape(s))
  OBVIOUS
<1> HIDE DEF send, x
<1>15. j = 2
  <2>1. j \in {1, 2}
    BY <1>8 DEF Resumed, k, j
  <2>2. 1 \in 1 .. n - 1
    BY <1>0, <1>1
  <2>3. w[1] # S!FEND
    BY <2>2
  <2> QED
    BY <1>2, <1>12, <1>13, <2>1, <2>3
<1> DEFINE m == n - 2
<1>16. m \in 0 .. Len(e)
  <2>1. j + ((n - 1) - 1) \in 1 .. Len(x) /\ d[n - 1] = x[j + ((n - 1) - 1)] /\ d[n - 1] # S!FEND
    BY <1>3, <1>4, <1>13
  <2>2. j + ((n - 1) - 1) = n
    BY <1>0, <1>15
  <2>3. n <= Len(e) + 3 /\ n # Len(e) + 3
    BY <1>12, <2>1, <2>2
  <2> QED
    BY <1>0, <1>1, <1>12, <2>3
<1>17. d = Data(s, m)
  <2> DEFINE v == Data(s, m)
  <2>1. v \in Seq(S!Octet) /\ Len(v) = m + 1 /\ v[1] = 0 /\ \A i \in 1 .. m : v[i + 1] = e[i]
    BY <1>11, <1>16, DataIs
  <2> HIDE DEF v, e, m
  <2>2. ASSUME NEW p \in 1 .. n - 1 PROVE d[p] = v[p]
    <3>1. d[p] = x[p + 1]
      <4>1. j + (p - 1) = p + 1
        BY <1>0, <1>15
      <4>2. d[p] = x[j + (p - 1)]
        BY <1>3, <1>13
      <4> QED
        BY <4>1, <4>2
    <3>2. CASE p = 1
      BY <1>12, <2>1, <3>1, <3>2
    <3>3. CASE p # 1
      <4> DEFINE i == p - 1
      <4>1. i \in 1 .. m /\ i \in 1 .. Len(e) /\ p = i + 1 /\ p + 1 = i + 2
        BY <1>0, <1>12, <1>16, <3>3 DEF m
      <4> HIDE DEF i
      <4>2. v[i + 1] = e[i] /\ x[i + 2] = e[i]
        BY <1>12, <2>1, <4>1
      <4> QED
        BY <3>1, <4>1, <4>2
    <3> QED
      BY <3>2, <3>3
  <2>3. Len(v) = n - 1
    BY <1>0, <2>1 DEF m
  <2>4. d = v
    BY <2>1, <2>2, <2>3, SeqEqual DEF Frame
  <2> QED
    BY <2>4 DEF v
<1>18. \A p \in n + 1 .. Len(w) : own[p] >= own[n]
  <2> SUFFICES ASSUME NEW p \in n + 1 .. Len(w) PROVE own[p] >= own[n]
    OBVIOUS
  <2> DEFINE i == p - n
  <2>1. i \in Nat /\ n + i <= Len(w) /\ p = n + i
    BY <1>0
  <2> HIDE DEF i
  <2>2. own[n] <= own[n + i]
    BY <2>1, OwnersGrow
  <2> QED
    BY <1>0, <1>6, <2>1, <2>2
<1> DEFINE u == S!kiss_unescape(d)
<1>19. CASE own[n] = k /\ off[n] = j + n - 1
  <2>1. n = Len(e) + 2
    <3>1. x[n + 1] = S!FEND /\ n + 1 \in 1 .. Len(x) /\ n + 1 # 1
      BY <1>0, <1>6, <1>13, <1>15, <1>19
    <3> QED
      BY <1>0, <1>12, <3>1
  <2>2. S!Unescaped(d) = Plain(<<0>> \o s)
    <3>1. m = Len(e)
      BY <1>12, <2>1
    <3> QED
      BY <1>11, <1>17, <3>1, EscapeInverts
  <2>3. u = <<0>> \o s
    BY <2>2 DEF S!kiss_unescape, Plain
  <2>4. Tail(u) = s
    <3>1. 0 \in S!Octet
      BY DEF S!Octet
    <3> QED
      BY <1>11, <2>3, <3>1, TailOfOne
  <2>5. Carried(send, Tail(u))
    <3>1. 0 \in 0 .. Len(send.payload)
      BY <1>11
    <3> QED
      BY <1>10, <2>4, <3>1, CarriedIs
  <2>6. ASSUME NEW p \in n + 1 .. Len(w) PROVE own[p] > k
    <3>1. n \in 1 .. Len(w) - 1 /\ n + 1 \in 1 .. Len(w) /\ n + 1 \in n + 1 .. Len(w)
      BY <1>0
    <3>2. Follows(l, sub, own, off, n)
      BY <3>1, FollowsAt
    <3>3. own[n + 1] # k
      <4> SUFFICES ASSUME own[n + 1] = k PROVE FALSE
        OBVIOUS
      <4> DEFINE q == n + 1
      <4>1. q \in 1 .. Len(w) /\ own[q] = k
        BY <3>1
      <4> HIDE DEF q
      <4>2. off[q] \in 1 .. Len(x)
        BY <1>13, <4>1, LabelAt
      <4>3. off[q] = off[n] + 1
        BY <1>0, <1>19, <3>2, <4>1 DEF Follows, q, k
      <4>4. n \in Nat /\ Len(e) \in Nat /\ Len(x) = Len(e) + 3
        BY <1>0, <1>12
      <4>5. off[n] = n + 1
        BY <1>15, <1>19, <4>4
      <4> QED
        BY <2>1, <4>2, <4>3, <4>4, <4>5
    <3>4. own[n + 1] > k
      BY <1>0, <1>19, <3>2, <3>3 DEF Follows, k
    <3> DEFINE i == p - (n + 1)
    <3>5. i \in Nat /\ (n + 1) + i <= Len(w) /\ p = (n + 1) + i
      BY <1>0
    <3> HIDE DEF i
    <3> DEFINE q == n + 1
    <3>6. q \in 1 .. Len(w) /\ q + i <= Len(w) /\ p = q + i /\ own[q] > k
      BY <3>1, <3>4, <3>5
    <3> HIDE DEF q
    <3>7. own[q] <= own[q + i]
      BY <3>5, <3>6, OwnersGrow
    <3>8. p \in 1 .. Len(w) /\ own[p] \in Nat /\ own[q] \in Nat /\ k \in Nat
      <4>1. p \in 1 .. Len(w)
        BY <1>0
      <4>2. own[p] \in Nat
        BY <1>0, <4>1
      <4>3. own[q] \in Nat
        <5>1. \A r \in 1 .. Len(w) : own[r] \in Nat
          BY <1>0
        <5>2. q \in 1 .. Len(w)
          BY <3>6
        <5> QED
          BY <5>1, <5>2
      <4> QED
        BY <1>0, <4>1, <4>2, <4>3
    <3> QED
      BY <3>6, <3>7, <3>8
  <2> QED
    BY <1>9, <2>5, <2>6 DEF k, send
<1>20. CASE own[n] > k /\ off[n] = 1 /\ Ended(l, sub, k, j + n - 2)
  <2>1. ~send.whole
    <3> SUFFICES ASSUME send.whole PROVE FALSE
      OBVIOUS
    <3>1. j + n - 2 = Len(x)
      BY <1>13, <1>20 DEF Ended, send
    <3> QED
      BY <1>0, <1>12, <1>15, <1>16, <3>1
  <2>2. Sound(s, m)
    BY <1>11, <1>16, EscapeInverts
  <2> DEFINE z == S!Unescaped(d)
  <2>3. ~z.escape /\ u = z.out
    BY DEF S!kiss_unescape
  <2>4. z.escape \/ \E i \in 0 .. Len(s) : z.out = <<0>> \o SubSeq(s, 1, i)
    BY <1>17, <2>2 DEF Sound
  <2> HIDE DEF z, u
  <2>5. PICK i \in 0 .. Len(s) : z.out = <<0>> \o SubSeq(s, 1, i)
    BY <2>3, <2>4
  <2>6. SubSeq(s, 1, i) \in Seq(S!Octet)
    BY <1>11
  <2>7. Tail(u) = SubSeq(s, 1, i)
    <3>1. 0 \in S!Octet
      BY DEF S!Octet
    <3> DEFINE b == SubSeq(s, 1, i)
    <3>2. b \in Seq(S!Octet) /\ u = <<0>> \o b
      BY <2>3, <2>5, <2>6
    <3> HIDE DEF b
    <3>3. Tail(u) = b
      BY <3>1, <3>2, TailOfOne
    <3> QED
      BY <3>3 DEF b
  <2>8. Carried(send, Tail(u))
    BY <1>10, <2>1, <2>7, CarriedIs
  <2>9. ASSUME NEW p \in n + 1 .. Len(w) PROVE own[p] > k
    <3>1. p \in 1 .. Len(w) /\ own[p] >= own[n]
      BY <1>0, <1>18
    <3>2. own[p] \in Nat /\ own[n] \in Nat /\ k \in Nat
      BY <1>0, <3>1
    <3> QED
      BY <1>20, <3>1, <3>2
  <2> QED
    BY <1>9, <2>8, <2>9 DEF k, send, u
<1> QED
  BY <1>7, <1>19, <1>20

\* A sequence without its first n elements.
LEMMA DropIs ==
    ASSUME NEW T, NEW s \in Seq(T), NEW n \in 0 .. Len(s)
    PROVE  /\ SubSeq(s, n + 1, Len(s)) \in Seq(T)
           /\ Len(SubSeq(s, n + 1, Len(s))) = Len(s) - n
           /\ \A i \in 1 .. Len(s) - n : SubSeq(s, n + 1, Len(s))[i] = s[n + i]
OBVIOUS

\* Octets taken from the front of two sequences, one behind the other.
LEMMA DropOfConcat ==
    ASSUME NEW T, NEW s \in Seq(T), NEW t \in Seq(T), NEW n \in 0 .. Len(s)
    PROVE  SubSeq(s \o t, n + 1, Len(s \o t)) = SubSeq(s, n + 1, Len(s)) \o t
<1> DEFINE c == s \o t
           a == SubSeq(s, n + 1, Len(s))
           x == SubSeq(c, n + 1, Len(c))
           y == a \o t
<1>1. c \in Seq(T) /\ Len(c) = Len(s) + Len(t) /\ Len(s) \in Nat /\ Len(t) \in Nat
  BY ConcatProperties
<1>2. \A i \in 1 .. Len(s) : c[i] = s[i]
  BY ConcatParts
<1>3. \A i \in 1 .. Len(t) : c[Len(s) + i] = t[i]
  BY ConcatParts
<1>4. a \in Seq(T) /\ Len(a) = Len(s) - n /\ \A i \in 1 .. Len(s) - n : a[i] = s[n + i]
  OBVIOUS
<1> HIDE DEF c, a
<1>5. x \in Seq(T) /\ Len(x) = Len(s) - n + Len(t) /\ \A i \in 1 .. Len(x) : x[i] = c[n + i]
  BY <1>1
<1>6. y \in Seq(T) /\ Len(y) = Len(s) - n + Len(t)
  <2>1. y \in Seq(T) /\ Len(y) = Len(a) + Len(t)
    BY <1>4, ConcatProperties
  <2> HIDE DEF y
  <2> QED
    BY <1>1, <1>4, <2>1
<1>7. \A i \in 1 .. Len(a) : y[i] = a[i]
  BY <1>4, ConcatParts
<1>8. \A i \in 1 .. Len(t) : y[Len(a) + i] = t[i]
  <2>1. a \in Seq(T) => \A i \in 1 .. Len(t) : (a \o t)[Len(a) + i] = t[i]
    BY ConcatParts
  <2> QED
    BY <1>4, <2>1
<1> HIDE DEF x, y
<1>9. ASSUME NEW i \in 1 .. Len(x) PROVE x[i] = y[i]
  <2>1. CASE i <= Len(s) - n
    <3>1. n + i \in 1 .. Len(s) /\ i \in 1 .. Len(a) /\ i \in 1 .. Len(s) - n
      BY <1>1, <1>4, <2>1
    <3> QED
      BY <1>2, <1>4, <1>5, <1>7, <3>1
  <2>2. CASE i > Len(s) - n
    <3> DEFINE j == i - (Len(s) - n)
    <3>1. j \in 1 .. Len(t) /\ n + i = Len(s) + j /\ i = Len(a) + j
      BY <1>1, <1>4, <1>5, <2>2
    <3> HIDE DEF j
    <3>2. x[i] = c[Len(s) + j] /\ c[Len(s) + j] = t[j] /\ y[Len(a) + j] = t[j]
      BY <1>3, <1>5, <1>8, <3>1
    <3> QED
      BY <3>1, <3>2
  <2> QED
    BY <1>1, <1>5, <2>1, <2>2
<1>10. x = y
  BY <1>5, <1>6, <1>9, SeqEqual
<1> QED
  BY <1>10 DEF x, y, c, a

\* Three sequences, one behind the other.
LEMMA Regroup ==
    ASSUME NEW T
    PROVE  \A r, s, t \in Seq(T) : (r \o s) \o t = r \o (s \o t)
BY ConcatAssociative

\* What is in front of two sequences, one behind the other.
LEMMA FrontOfConcat ==
    ASSUME NEW T, NEW s \in Seq(T), NEW t \in Seq(T)
    PROVE  /\ s \o t \in Seq(T) /\ Len(s \o t) = Len(s) + Len(t)
           /\ SubSeq(s \o t, 1, Len(s)) = s
           /\ s \o <<>> = s /\ <<>> \o s = s
<1>1. s \o t \in Seq(T) /\ Len(s \o t) = Len(s) + Len(t)
  BY ConcatProperties
<1>2. s \o <<>> = s /\ <<>> \o s = s
  BY ConcatEmptySeq
<1>3. SubSeq(s \o t, 1, Len(s)) = SubSeq(s, 1, Len(s))
  BY SubSeqOfConcat1
<1>4. SubSeq(s, 1, Len(s)) = s
  BY SubSeqFull
<1> QED
  BY <1>1, <1>2, <1>3, <1>4
==============================================================================
