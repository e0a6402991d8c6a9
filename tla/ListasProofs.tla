--------------------------- MODULE ListasProofs ---------------------------
(***************************************************************************)
(* What the operations on lists of the scheduler (list_add, list_remove,   *)
(* queue_pop, list_add_in_index and the scans for the first element) do to *)
(* the elements of a list and to whether they are there once: the facts    *)
(* about Append, Tail, InsertAt, RemoveAt and \o that the proofs about its  *)
(* lists share.                                                            *)
(***************************************************************************)
EXTENDS Integers, Sequences, FiniteSets, SequencesExt, SequenceTheorems, FiniteSetTheorems,
        WellFoundedInduction, TLAPS

\* A set of positions of a list has a first one.
LEMMA HayPrimero ==
    ASSUME NEW T \in SUBSET Nat, T # {}
    PROVE  Min(T) \in T /\ \A j \in T : Min(T) <= j
<1> DEFINE R == {ss \in Nat \X Nat : ss[1] < ss[2]}
<1>1. IsWellFoundedOn(R, Nat)
  BY NatLessThanWellFounded, Zenon DEF OpToRel
<1>2. \E i \in T : \A j \in T : ~ (<<j, i>> \in R)
  <2> HIDE DEF R
  <2> QED BY <1>1, WFMin, Zenon
<1>3. \A i, j \in Nat : j < i => <<j, i>> \in R
  OBVIOUS
<1>4. PICK i \in T : \A j \in T : ~ (<<j, i>> \in R)
  BY <1>2
<1>5. ASSUME NEW j \in T PROVE i <= j
  <2> HIDE DEF R
  <2>1. ~ (j < i)
    BY <1>3, <1>4
  <2>2. QED
    BY <2>1
<1>6. \E x \in T : \A y \in T : x =< y
  BY <1>5
<1>7. QED
  BY <1>6 DEF Min

\* A list with an element more at its end.
LEMMA AlFinal ==
    ASSUME NEW S, NEW s \in Seq(S), NEW p \in S
    PROVE  /\ Append(s, p) \in Seq(S)
           /\ ToSet(Append(s, p)) = ToSet(s) \cup {p}
           /\ IsInjective(s) /\ p \notin ToSet(s) => IsInjective(Append(s, p))
<1>1. /\ Len(Append(s, p)) = Len(s) + 1 /\ Len(s) \in Nat
      /\ \A i \in 1 .. Len(s) : Append(s, p)[i] = s[i]
      /\ Append(s, p)[Len(s) + 1] = p
      /\ DOMAIN s = 1 .. Len(s) /\ DOMAIN Append(s, p) = 1 .. Len(s) + 1
      /\ Append(s, p) \in Seq(S)
  BY AppendProperties
<1> HIDE DEF Append
<1>2. ToSet(Append(s, p)) = ToSet(s) \cup {p}
  BY <1>1 DEF ToSet
<1>3. ASSUME IsInjective(s), p \notin ToSet(s)
      PROVE  IsInjective(Append(s, p))
  BY <1>1, <1>3 DEF IsInjective, ToSet
<1>4. QED
  BY <1>1, <1>2, <1>3

\* A list without its first element.
LEMMA SinElPrimero ==
    ASSUME NEW S, NEW s \in Seq(S), s # <<>>
    PROVE  /\ Head(s) \in S /\ Tail(s) \in Seq(S) /\ Len(Tail(s)) = Len(s) - 1
           /\ ToSet(s) = ToSet(Tail(s)) \cup {Head(s)}
           /\ IsInjective(s) => Head(s) \notin ToSet(Tail(s)) /\ IsInjective(Tail(s))
<1>1. /\ Head(s) \in S /\ Tail(s) \in Seq(S)
      /\ Len(Tail(s)) = Len(s) - 1 /\ Len(s) \in Nat \ {0}
      /\ \A i \in 1 .. Len(s) - 1 : Tail(s)[i] = s[i + 1]
      /\ Head(s) = s[1]
      /\ DOMAIN s = 1 .. Len(s) /\ DOMAIN Tail(s) = 1 .. Len(s) - 1
  BY HeadTailProperties
<1>2. ToSet(s) = ToSet(Tail(s)) \cup {Head(s)}
  <2>1. \A x \in ToSet(Tail(s)) : x \in ToSet(s)
    BY <1>1 DEF ToSet
  <2>2. Head(s) \in ToSet(s)
    BY <1>1 DEF ToSet
  <2>3. ASSUME NEW x \in ToSet(s), x # Head(s) PROVE x \in ToSet(Tail(s))
    <3>1. PICK i \in 1 .. Len(s) : x = s[i]
      BY <1>1 DEF ToSet
    <3>2. i - 1 \in 1 .. Len(s) - 1 /\ Tail(s)[i - 1] = x
      BY <1>1, <2>3, <3>1
    <3>3. QED
      BY <1>1, <3>2 DEF ToSet
  <2>4. QED
    BY <2>1, <2>2, <2>3
<1>3. ASSUME IsInjective(s)
      PROVE  Head(s) \notin ToSet(Tail(s)) /\ IsInjective(Tail(s))
  <2>1. Head(s) \notin ToSet(Tail(s))
    BY <1>1, <1>3 DEF IsInjective, ToSet
  <2>2. \A i, j \in 1 .. Len(s) - 1 : Tail(s)[i] = Tail(s)[j] => i = j
    <3>1. \A i \in 1 .. Len(s) - 1 : i + 1 \in 1 .. Len(s)
      BY <1>1
    <3>2. QED
      BY <1>1, <1>3, <3>1 DEF IsInjective
  <2>3. QED
    BY <1>1, <2>1, <2>2 DEF IsInjective
<1>4. QED
  BY <1>1, <1>2, <1>3

\* The same list with an element more at position i: those from i on move up.
LEMMA PonerEn ==
    ASSUME NEW S, NEW s \in Seq(S), NEW i \in 1 .. Len(s) + 1, NEW p \in S
    PROVE  LET t == InsertAt(s, i, p)
           IN  /\ t \in Seq(S) /\ Len(t) = Len(s) + 1
               /\ \A j \in 1 .. Len(s) + 1 :
                     t[j] = IF j < i THEN s[j] ELSE IF j = i THEN p ELSE s[j - 1]
<1> DEFINE a == SubSeq(s, 1, i - 1)
           b == SubSeq(s, i, Len(s))
           t == InsertAt(s, i, p)
<1>1. /\ Len(s) \in Nat /\ DOMAIN s = 1 .. Len(s) /\ \A j \in 1 .. Len(s) : s[j] \in S
      /\ i \in Int /\ 1 <= i /\ i <= Len(s) + 1
  BY ElementOfSeq
<1>2. a \in Seq(S) /\ Len(a) = i - 1 /\ \A j \in 1 .. i - 1 : a[j] = s[j]
  <2>1. /\ a \in Seq(S) /\ Len(a) = IF 1 <= i - 1 THEN i - 1 - 1 + 1 ELSE 0
        /\ \A j \in 1 .. i - 1 - 1 + 1 : a[j] = s[1 + j - 1]
    <3>1. 1 \in Int /\ i - 1 \in Int /\ \A k \in 1 .. i - 1 : s[k] \in S
      BY <1>1
    <3>2. QED
      BY <3>1, SubSeqProperties
  <2> HIDE DEF a, b, t
  <2>2. Len(a) = i - 1
    BY <1>1, <2>1
  <2>3. ASSUME NEW j \in 1 .. i - 1 PROVE a[j] = s[j]
    <3>1. j \in 1 .. i - 1 - 1 + 1 /\ 1 + j - 1 = j
      BY <1>1
    <3>2. a[j] = s[1 + j - 1]
      BY <2>1, <3>1
    <3>3. QED
      BY <3>1, <3>2
  <2>4. QED
    BY <2>1, <2>2, <2>3
<1>3. b \in Seq(S) /\ Len(b) = Len(s) - i + 1 /\ \A j \in 1 .. Len(s) - i + 1 : b[j] = s[i + j - 1]
  <2>1. /\ b \in Seq(S) /\ Len(b) = IF i <= Len(s) THEN Len(s) - i + 1 ELSE 0
        /\ \A j \in 1 .. Len(s) - i + 1 : b[j] = s[i + j - 1]
    <3>1. i \in Int /\ Len(s) \in Int /\ \A k \in i .. Len(s) : s[k] \in S
      BY <1>1
    <3>2. QED
      BY <3>1, SubSeqProperties
  <2> HIDE DEF a, b, t
  <2>2. QED
    BY <1>1, <2>1
<1>4. <<p>> \in Seq(S) /\ Len(<<p>>) = 1 /\ <<p>>[1] = p
  OBVIOUS
<1> HIDE DEF a, b
<1>5. /\ a \o <<p>> \in Seq(S) /\ Len(a \o <<p>>) = i
      /\ \A j \in 1 .. i : (a \o <<p>>)[j] = IF j <= i - 1 THEN a[j] ELSE <<p>>[j - (i - 1)]
  BY <1>1, <1>2, <1>4, ConcatProperties
<1>6. /\ t \in Seq(S) /\ Len(t) = Len(s) + 1
      /\ \A j \in 1 .. Len(s) + 1 : t[j] = IF j <= i THEN (a \o <<p>>)[j] ELSE b[j - i]
  <2>1. t = (a \o <<p>>) \o b
    BY DEF InsertAt, a, b
  <2> HIDE DEF t
  <2>2. Len(a \o <<p>>) = i /\ Len(b) = Len(s) - i + 1 /\ i + (Len(s) - i + 1) = Len(s) + 1
    BY <1>1, <1>3, <1>5
  <2> DEFINE ap == a \o <<p>>
  <2>3. /\ ap \o b \in Seq(S) /\ Len(ap \o b) = Len(ap) + Len(b)
        /\ \A j \in 1 .. Len(ap) + Len(b) :
              (ap \o b)[j] = IF j <= Len(ap) THEN ap[j] ELSE b[j - Len(ap)]
    <3>1. ap \in Seq(S) /\ b \in Seq(S)
      BY <1>3, <1>5
    <3> HIDE DEF ap
    <3>2. QED
      BY <3>1, ConcatProperties
  <2> HIDE DEF ap
  <2>4. t = ap \o b /\ Len(ap) = i /\ Len(ap) + Len(b) = Len(s) + 1
    BY <2>1, <2>2 DEF ap
  <2>5. \A j \in 1 .. Len(s) + 1 : t[j] = IF j <= i THEN ap[j] ELSE b[j - i]
    BY <2>3, <2>4
  <2>6. QED
    BY <2>3, <2>4, <2>5 DEF ap
<1> HIDE DEF t
<1>7. /\ \A j \in 1 .. i - 1 : t[j] = s[j]
      /\ t[i] = p
      /\ \A j \in i + 1 .. Len(s) + 1 : t[j] = s[j - 1]
  <2>1. ASSUME NEW j \in 1 .. i - 1 PROVE t[j] = s[j]
    <3>1. j \in 1 .. Len(s) + 1 /\ j \in 1 .. i /\ j <= i - 1 /\ j <= i
      BY <1>1
    <3>2. t[j] = (a \o <<p>>)[j] /\ (a \o <<p>>)[j] = a[j]
      BY <1>5, <1>6, <3>1
    <3>3. QED
      BY <1>2, <3>2
  <2>2. t[i] = p
    BY <1>1, <1>4, <1>5, <1>6
  <2>3. ASSUME NEW j \in i + 1 .. Len(s) + 1 PROVE t[j] = s[j - 1]
    <3>1. t[j] = b[j - i] /\ j - i \in 1 .. Len(s) - i + 1 /\ i + (j - i) - 1 = j - 1
      BY <1>1, <1>6
    <3>2. b[j - i] = s[i + (j - i) - 1]
      BY <1>3, <3>1
    <3>3. QED
      BY <3>1, <3>2
  <2>4. QED
    BY <2>1, <2>2, <2>3
<1>8. ASSUME NEW j \in 1 .. Len(s) + 1
      PROVE  t[j] = IF j < i THEN s[j] ELSE IF j = i THEN p ELSE s[j - 1]
  <2>1. j \in Int /\ (j < i => j \in 1 .. i - 1) /\ (j > i => j \in i + 1 .. Len(s) + 1)
    BY <1>1
  <2>2. QED
    BY <1>1, <1>7, <2>1
<1>9. QED
  BY <1>6, <1>8 DEF t

\* What it has then, if it was not there.
LEMMA EnMedio ==
    ASSUME NEW S, NEW s \in Seq(S), NEW i \in 1 .. Len(s) + 1, NEW p \in S
    PROVE  /\ InsertAt(s, i, p) \in Seq(S)
           /\ ToSet(InsertAt(s, i, p)) = ToSet(s) \cup {p}
           /\ IsInjective(s) /\ p \notin ToSet(s) => IsInjective(InsertAt(s, i, p))
<1> DEFINE t == InsertAt(s, i, p)
<1>1. /\ Len(s) \in Nat /\ DOMAIN s = 1 .. Len(s) /\ \A j \in 1 .. Len(s) : s[j] \in S
      /\ i \in Int /\ 1 <= i /\ i <= Len(s) + 1
  BY ElementOfSeq
<1>2. /\ t \in Seq(S) /\ Len(t) = Len(s) + 1
      /\ \A j \in 1 .. Len(s) + 1 :
            t[j] = IF j < i THEN s[j] ELSE IF j = i THEN p ELSE s[j - 1]
  BY PonerEn
<1> HIDE DEF t
<1>3. /\ \A j \in 1 .. i - 1 : t[j] = s[j]
      /\ t[i] = p
      /\ \A j \in i + 1 .. Len(s) + 1 : t[j] = s[j - 1]
  BY <1>1, <1>2
<1>4. DOMAIN t = 1 .. Len(s) + 1
  BY <1>2
<1>5. ToSet(t) = ToSet(s) \cup {p}
  <2>1. ASSUME NEW x \in ToSet(t) PROVE x \in ToSet(s) \cup {p}
    <3>1. PICK j \in 1 .. Len(s) + 1 : x = t[j]
      BY <1>4 DEF ToSet
    <3>2. j < i \/ j = i \/ (j > i /\ j - 1 \in 1 .. Len(s))
      BY <1>1
    <3>3. QED
      BY <1>1, <1>3, <3>1, <3>2 DEF ToSet
  <2>2. ASSUME NEW x \in ToSet(s) PROVE x \in ToSet(t)
    <3>1. PICK j \in 1 .. Len(s) : x = s[j]
      BY <1>1 DEF ToSet
    <3>2. CASE j < i
      BY <1>1, <1>3, <1>4, <3>1, <3>2 DEF ToSet
    <3>3. CASE j >= i
      <4>1. j + 1 \in i + 1 .. Len(s) + 1 /\ t[j + 1] = x
        BY <1>1, <1>3, <3>1, <3>3
      <4>2. QED
        BY <1>1, <1>4, <4>1 DEF ToSet
    <3>4. QED
      BY <1>1, <3>2, <3>3
  <2>3. p \in ToSet(t)
    BY <1>1, <1>3, <1>4 DEF ToSet
  <2>4. QED
    BY <2>1, <2>2, <2>3
<1>6. ASSUME IsInjective(s), p \notin ToSet(s)
       PROVE  IsInjective(t)
  <2>1. SUFFICES ASSUME NEW j \in 1 .. Len(s) + 1, NEW k \in 1 .. Len(s) + 1, t[j] = t[k]
                 PROVE  j = k
    BY <1>4 DEF IsInjective
  <2>2. \A m \in 1 .. Len(s) : s[m] # p
    BY <1>1, <1>6 DEF ToSet
  <2>3. \A m, n \in 1 .. Len(s) : s[m] = s[n] => m = n
    BY <1>1, <1>6 DEF IsInjective
  <2> DEFINE v(m) == IF m < i THEN m ELSE m - 1
  <2>4. \A m \in 1 .. Len(s) + 1 : m # i => v(m) \in 1 .. Len(s) /\ t[m] = s[v(m)]
    BY <1>1, <1>3
  <2>5. CASE j = i \/ k = i
    BY <1>3, <2>1, <2>2, <2>4, <2>5
  <2>6. CASE j # i /\ k # i
    <3>1. v(j) = v(k)
      BY <2>1, <2>3, <2>4, <2>6
    <3>2. QED
      BY <1>1, <2>6, <3>1
  <2>7. QED
    BY <2>5, <2>6
<1>7. QED
  BY <1>2, <1>5, <1>6 DEF t

\* The same list without the element at position i: those after it move down.
LEMMA QuitarEn ==
    ASSUME NEW S, NEW s \in Seq(S), NEW i \in 1 .. Len(s)
    PROVE  LET t == RemoveAt(s, i)
           IN  /\ t \in Seq(S) /\ Len(t) = Len(s) - 1
               /\ \A m \in 1 .. Len(s) - 1 : t[m] = s[IF m < i THEN m ELSE m + 1]
<1> DEFINE a == SubSeq(s, 1, i - 1)
           b == SubSeq(s, i + 1, Len(s))
           t == RemoveAt(s, i)
           v(m) == IF m < i THEN m ELSE m + 1
<1>1. /\ Len(s) \in Nat /\ DOMAIN s = 1 .. Len(s) /\ \A j \in 1 .. Len(s) : s[j] \in S
      /\ i \in Int /\ 1 <= i /\ i <= Len(s)
  BY ElementOfSeq
<1>2. a \in Seq(S) /\ Len(a) = i - 1 /\ \A j \in 1 .. i - 1 : a[j] = s[j]
  BY <1>1, SubSeqProperties
<1>3. b \in Seq(S) /\ Len(b) = Len(s) - i /\ \A j \in 1 .. Len(s) - i : b[j] = s[i + j]
  <2>1. /\ b \in Seq(S) /\ Len(b) = IF i + 1 <= Len(s) THEN Len(s) - (i + 1) + 1 ELSE 0
        /\ \A j \in 1 .. Len(s) - (i + 1) + 1 : b[j] = s[i + 1 + j - 1]
    <3>1. i + 1 \in Int /\ Len(s) \in Int /\ \A k \in i + 1 .. Len(s) : s[k] \in S
      BY <1>1
    <3>2. QED
      BY <3>1, SubSeqProperties
  <2> HIDE DEF b
  <2>2. Len(b) = Len(s) - i
    <3>1. i \in Nat /\ Len(s) \in Nat /\ i <= Len(s)
      BY <1>1
    <3>2. Len(b) = IF i + 1 <= Len(s) THEN Len(s) - (i + 1) + 1 ELSE 0
      BY <2>1
    <3> HIDE DEF v, t, a
    <3>3. CASE i = Len(s)
      <4>1. ~(i + 1 <= Len(s)) /\ Len(s) - i = 0
        BY <3>1, <3>3
      <4>2. QED
        BY <3>2, <4>1
    <3>4. CASE i < Len(s)
      <4>1. i + 1 <= Len(s) /\ Len(s) - (i + 1) + 1 = Len(s) - i
        BY <3>1, <3>4
      <4>2. QED
        BY <3>2, <4>1
    <3>5. QED
      BY <3>1, <3>3, <3>4
  <2>3. ASSUME NEW j \in 1 .. Len(s) - i PROVE b[j] = s[i + j]
    <3>1. j \in 1 .. Len(s) - (i + 1) + 1 /\ i + 1 + j - 1 = i + j
      BY <1>1
    <3>2. b[j] = s[i + 1 + j - 1]
      BY <2>1, <3>1
    <3>3. QED
      BY <3>1, <3>2
  <2>4. QED
    BY <2>1, <2>2, <2>3
<1>4. /\ t \in Seq(S) /\ Len(t) = Len(s) - 1
      /\ \A j \in 1 .. Len(s) - 1 : t[j] = IF j <= i - 1 THEN a[j] ELSE b[j - (i - 1)]
  <2>1. t = a \o b
    BY DEF RemoveAt
  <2> HIDE DEF a, b, t
  <2>2. Len(a) = i - 1 /\ Len(a) + Len(b) = Len(s) - 1
    BY <1>1, <1>2, <1>3
  <2>3. /\ t \in Seq(S) /\ Len(t) = Len(a) + Len(b)
        /\ \A j \in 1 .. Len(a) + Len(b) : t[j] = IF j <= Len(a) THEN a[j] ELSE b[j - Len(a)]
    BY <1>2, <1>3, <2>1, ConcatProperties
  <2>4. QED
    BY <2>2, <2>3
<1> HIDE DEF a, b, t
<1>5. \A m \in 1 .. Len(s) - 1 : v(m) \in 1 .. Len(s) /\ v(m) # i /\ t[m] = s[v(m)]
  <2>1. SUFFICES ASSUME NEW m \in 1 .. Len(s) - 1
                 PROVE  v(m) \in 1 .. Len(s) /\ v(m) # i /\ t[m] = s[v(m)]
    OBVIOUS
  <2>2. CASE m < i
    BY <1>1, <1>2, <1>4, <2>2
  <2>3. CASE m >= i
    <3>1. ~(m <= i - 1) /\ m - (i - 1) \in 1 .. Len(s) - i /\ i + (m - (i - 1)) = m + 1
      BY <1>1, <2>3
    <3>2. t[m] = b[m - (i - 1)]
      BY <1>4, <3>1
    <3>3. b[m - (i - 1)] = s[m + 1]
      BY <1>3, <3>1
    <3>4. v(m) = m + 1 /\ m + 1 \in 1 .. Len(s) /\ m + 1 # i
      BY <1>1, <2>3
    <3>5. QED
      BY <3>2, <3>3, <3>4
  <2>4. QED
    BY <1>1, <2>2, <2>3
<1>6. QED
  BY <1>4, <1>5 DEF t

\* What it has then, if it was there once.
LEMMA SinEl ==
    ASSUME NEW S, NEW s \in Seq(S), NEW i \in 1 .. Len(s)
    PROVE  /\ RemoveAt(s, i) \in Seq(S)
           /\ s[i] \in ToSet(s)
           /\ IsInjective(s) => /\ ToSet(RemoveAt(s, i)) = ToSet(s) \ {s[i]}
                                /\ IsInjective(RemoveAt(s, i))
<1> DEFINE t == RemoveAt(s, i)
           v(m) == IF m < i THEN m ELSE m + 1
<1>1. /\ Len(s) \in Nat /\ DOMAIN s = 1 .. Len(s) /\ \A j \in 1 .. Len(s) : s[j] \in S
      /\ i \in Int /\ 1 <= i /\ i <= Len(s)
  BY ElementOfSeq
<1>2. /\ t \in Seq(S) /\ Len(t) = Len(s) - 1
      /\ \A m \in 1 .. Len(s) - 1 : t[m] = s[v(m)]
  BY QuitarEn
<1> HIDE DEF t
<1>3. \A m \in 1 .. Len(s) - 1 : v(m) \in 1 .. Len(s) /\ v(m) # i /\ t[m] = s[v(m)]
  BY <1>1, <1>2
<1>4. DOMAIN t = 1 .. Len(s) - 1
  BY <1>1, <1>2
<1>5. ASSUME IsInjective(s)
      PROVE  ToSet(t) = ToSet(s) \ {s[i]} /\ IsInjective(t)
  <2>1. \A m, n \in 1 .. Len(s) : s[m] = s[n] => m = n
    BY <1>1, <1>5 DEF IsInjective
  <2>2. ASSUME NEW x \in ToSet(t) PROVE x \in ToSet(s) \ {s[i]}
    <3>1. PICK m \in 1 .. Len(s) - 1 : x = t[m]
      BY <1>4 DEF ToSet
    <3>2. QED
      BY <1>1, <1>3, <2>1, <3>1 DEF ToSet
  <2>3. ASSUME NEW x \in ToSet(s), x # s[i] PROVE x \in ToSet(t)
    <3>1. PICK n \in 1 .. Len(s) : x = s[n]
      BY <1>1 DEF ToSet
    <3>2. CASE n < i
      <4>1. n \in 1 .. Len(s) - 1 /\ v(n) = n
        BY <1>1, <3>2
      <4>2. QED
        BY <1>3, <1>4, <3>1, <4>1 DEF ToSet
    <3>3. CASE n > i
      <4>1. n - 1 \in 1 .. Len(s) - 1 /\ v(n - 1) = n
        BY <1>1, <3>3
      <4>2. QED
        BY <1>3, <1>4, <3>1, <4>1 DEF ToSet
    <3>4. QED
      BY <1>1, <2>3, <3>1, <3>2, <3>3
  <2>4. ASSUME NEW j \in 1 .. Len(s) - 1, NEW k \in 1 .. Len(s) - 1, t[j] = t[k]
        PROVE  j = k
    <3>1. v(j) = v(k)
      BY <1>3, <2>1, <2>4
    <3>2. QED
      BY <1>1, <3>1
  <2>5. QED
    BY <1>4, <2>2, <2>3, <2>4 DEF IsInjective
<1>6. s[i] \in ToSet(s)
  BY <1>1 DEF ToSet
<1>7. QED
  BY <1>2, <1>5, <1>6 DEF t

\* An element of two lists put together is of one of them.
LEMMA DosTramos ==
    ASSUME NEW S, NEW a \in Seq(S), NEW b \in Seq(S), NEW i \in DOMAIN (a \o b)
    PROVE  \/ i \in DOMAIN a /\ (a \o b)[i] = a[i]
           \/ i - Len(a) \in DOMAIN b /\ (a \o b)[i] = b[i - Len(a)]
<1> DEFINE t == a \o b
<1>1. /\ t \in Seq(S) /\ Len(t) = Len(a) + Len(b)
      /\ \A j \in 1 .. Len(a) + Len(b) : t[j] = IF j <= Len(a) THEN a[j] ELSE b[j - Len(a)]
  BY ConcatProperties
<1>2. /\ Len(a) \in Nat /\ Len(b) \in Nat
      /\ DOMAIN a = 1 .. Len(a) /\ DOMAIN b = 1 .. Len(b)
  OBVIOUS
<1> HIDE DEF t
<1>3. DOMAIN t = 1 .. Len(a) + Len(b)
  BY <1>1
<1>4. i \in 1 .. Len(a) + Len(b)
  BY <1>3 DEF t
<1>5. CASE i <= Len(a)
  <2>1. i \in 1 .. Len(a)
    BY <1>2, <1>4, <1>5
  <2>2. QED
    BY <1>1, <1>2, <1>4, <1>5, <2>1 DEF t
<1>6. CASE i > Len(a)
  <2>1. i - Len(a) \in 1 .. Len(b) /\ ~(i <= Len(a))
    BY <1>2, <1>4, <1>6
  <2>2. QED
    BY <1>1, <1>2, <1>4, <2>1 DEF t
<1>7. QED
  BY <1>2, <1>4, <1>5, <1>6

\* list_remove_element takes the process out of a list, if it is there.
LEMMA SacarQuita ==
    ASSUME NEW S, NEW s \in Seq(S), NEW p \in S
    PROVE  /\ RemoveFirst(s, p) \in Seq(S)
           /\ IsInjective(s) => /\ ToSet(RemoveFirst(s, p)) = ToSet(s) \ {p}
                                /\ IsInjective(RemoveFirst(s, p))
<1> DEFINE T == {i \in 1 .. Len(s) : s[i] = p}
<1>1. CASE \E i \in 1 .. Len(s) : s[i] = p
  <2>1. T # {}
    BY <1>1
  <2>2. RemoveFirst(s, p) = RemoveAt(s, Min(T))
    BY <1>1, <2>1, Zenon DEF RemoveFirst, SelectInSeq
  <2>3. Min(T) \in T
    <3>1. T \in SUBSET Nat
      OBVIOUS
    <3> HIDE DEF T
    <3>2. QED
      BY <2>1, <3>1, HayPrimero
  <2>4. Min(T) \in 1 .. Len(s) /\ s[Min(T)] = p
    BY <2>3
  <2> HIDE DEF T
  <2>5. QED
    BY <2>2, <2>4, SinEl
<1>2. CASE ~(\E i \in 1 .. Len(s) : s[i] = p)
  <2>1. RemoveFirst(s, p) = s
    BY <1>2, Zenon DEF RemoveFirst
  <2>2. p \notin ToSet(s)
    BY <1>2 DEF ToSet
  <2>3. QED
    BY <2>1, <2>2
<1>3. QED
  BY <1>1, <1>2

\* An order of a finite set has each of its elements once.
LEMMA OrdenDe ==
    ASSUME NEW S, IsFiniteSet(S), NEW s \in SetToSeqs(S)
    PROVE  s \in Seq(S) /\ IsInjective(s) /\ ToSet(s) = S
<1> DEFINE n == Cardinality(S)
<1>1. n \in Nat
  BY FS_CardinalityType
<1>2. s \in [1 .. n -> S] /\ \A i, j \in 1 .. n : i # j => s[i] # s[j]
  BY Zenon DEF SetToSeqs
<1> HIDE DEF n
<1>3. s \in Seq(S) /\ DOMAIN s = 1 .. n
  BY <1>1, <1>2
<1>4. IsInjective(s)
  BY <1>2, <1>3 DEF IsInjective
<1>5. s \in Injection(1 .. n, S)
  BY <1>2, <1>4 DEF Injection
<1>6. Cardinality(1 .. n) = Cardinality(S)
  <2>1. Cardinality(1 .. n) = IF 1 > n THEN 0 ELSE n - 1 + 1
    BY <1>1, FS_Interval
  <2>2. QED
    BY <1>1, <2>1 DEF n
<1>7. s \in Surjection(1 .. n, S)
  BY <1>5, <1>6, FS_Injection
<1>8. ToSet(s) = S
  BY <1>2, <1>3, <1>7 DEF Surjection, ToSet
<1>9. QED
  BY <1>3, <1>4, <1>8
=============================================================================
