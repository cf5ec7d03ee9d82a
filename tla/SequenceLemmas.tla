-------------------------- MODULE SequenceLemmas --------------------------
(***************************************************************************)
(* What the proofs of several modules need of numbers and sequences.       *)
(* Induction takes the form of a least counterexample and, for sequences,  *)
(* of a set that is closed under Append.                                   *)
(***************************************************************************)
EXTENDS Selections, SequencesExt, SequenceTheorems, WellFoundedInduction, TLAPS

-----------------------------------------------------------------------------
(* Induction over numbers and over sequences.                              *)

Less == {ss \in Nat \X Nat : ss[1] < ss[2]}

LEMMA LeastNumber ==
    ASSUME NEW S \in SUBSET Nat, S # {}
    PROVE  \E n \in S : \A m \in S : n <= m
<1>1. IsWellFoundedOn(Less, Nat)
  BY NatLessThanWellFounded DEF OpToRel, Less
<1>2. PICK n \in S : \A m \in S : <<m, n>> \notin Less
  BY <1>1, WFMin
<1>3. ASSUME NEW m \in S PROVE n <= m
  <2>1. <<m, n>> \in Nat \X Nat /\ <<m, n>> \notin Less
    BY <1>2
  <2>2. ~(m < n)
    BY <2>1 DEF Less
  <2>. QED
    BY <2>2
<1>. QED
  BY <1>3

LEMMA GreatestNumber ==
    ASSUME NEW n \in Nat, NEW S \in SUBSET (1..n), S # {}
    PROVE  \E k \in S : \A m \in S : k >= m
<1>. DEFINE T == {j \in Nat : n - j \in S}
<1>1. PICK k \in S : TRUE
  OBVIOUS
<1>2. n - k \in T
  <2>1. k \in 1..n
    BY <1>1
  <2>2. n - k \in Nat /\ n - (n - k) = k
    BY <2>1
  <2>. QED
    BY <1>1, <2>2
<1>3. PICK j \in T : \A i \in T : j <= i
  BY <1>2, LeastNumber
<1>4. ASSUME NEW m \in S PROVE n - j >= m
  <2>1. m \in 1..n /\ n - m \in Nat /\ n - (n - m) = m
    OBVIOUS
  <2>2. j <= n - m
    BY <1>3, <2>1
  <2>3. j \in Nat
    BY <1>3
  <2>. QED
    BY <2>1, <2>2, <2>3
<1>. QED
  BY <1>3, <1>4

(* A set of sequences that has the empty one and all that are one longer   *)
(* than one it has, has them all.                                          *)
LEMMA SequenceInduction ==
    ASSUME NEW M, NEW S \in SUBSET Seq(M), <<>> \in S,
           \A s \in S, e \in M : Append(s, e) \in S
    PROVE  S = Seq(M)
<1>. DEFINE Bad == {n \in Nat : \E s \in Seq(M) : Len(s) = n /\ s \notin S}
<1>1. SUFFICES ASSUME NEW t \in Seq(M), t \notin S PROVE FALSE
  OBVIOUS
<1>2. Len(t) \in Bad
  BY <1>1, LenProperties
<1>3. PICK n \in Bad : \A m \in Bad : n <= m
  <2>1. Bad \in SUBSET Nat
    OBVIOUS
  <2>. HIDE DEF Bad
  <2>. QED
    BY <1>2, <2>1, LeastNumber
<1>4. PICK s \in Seq(M) : Len(s) = n /\ s \notin S
  BY <1>3
<1>5. s # <<>>
  BY <1>4
<1>6. PICK u \in Seq(M), e \in M : s = Append(u, e)
  BY <1>4, <1>5, SequenceEmptyOrAppend
<1>7. u \notin S
  BY <1>4, <1>6
<1>8. Len(u) \in Nat /\ Len(s) = Len(u) + 1
  BY <1>6, AppendProperties, LenProperties
<1>9. Len(u) \in Bad
  BY <1>7, <1>8
<1>. HIDE DEF Bad
<1>. QED
  BY <1>3, <1>4, <1>8, <1>9

(* The recursive function of Chosen is the function it says it is.         *)
UpTo(f, s, I, m) ==
    [i \in 0..m |-> IF i = 0 THEN <<>>
                    ELSE IF i \in I THEN Append(f[i - 1], s[i]) ELSE f[i - 1]]

LEMMA UpToExists ==
    ASSUME NEW s, NEW I, NEW n \in Nat
    PROVE  \E f : f = UpTo(f, s, I, n)
<1>. DEFINE Bad == {m \in Nat : ~\E f : f = UpTo(f, s, I, m)}
<1>1. SUFFICES ASSUME Bad # {} PROVE FALSE
  OBVIOUS
<1>2. PICK m \in Bad : \A k \in Bad : m <= k
  <2>1. Bad \in SUBSET Nat
    OBVIOUS
  <2>. HIDE DEF Bad
  <2>. QED
    BY <1>1, <2>1, LeastNumber
<1>3. m # 0
  <2>. DEFINE f == [i \in 0..0 |-> <<>>]
  <2>1. f = UpTo(f, s, I, 0)
    BY DEF UpTo
  <2>. QED
    BY <1>2, <2>1
<1>4. m \in Nat /\ m - 1 \in Nat /\ ~(m <= m - 1)
  BY <1>3
<1>5. m - 1 \notin Bad
  <2>. HIDE DEF Bad
  <2>. QED
    BY <1>2, <1>4
<1>6. PICK f : f = UpTo(f, s, I, m - 1)
  BY <1>4, <1>5
<1>. DEFINE step == IF m \in I THEN Append(f[m - 1], s[m]) ELSE f[m - 1]
            g == [i \in 0..m |-> IF i = m THEN step ELSE f[i]]
<1>7. ASSUME NEW i \in 0..m
      PROVE  g[i] = IF i = 0 THEN <<>>
                    ELSE IF i \in I THEN Append(g[i - 1], s[i]) ELSE g[i - 1]
  <2>1. CASE i = m
    <3>1. m - 1 \in 0..m /\ m - 1 # m /\ i # 0
      BY <1>3, <1>4, <2>1
    <3>2. g[i] = step /\ g[m - 1] = f[m - 1]
      BY <2>1, <3>1
    <3>. QED
      BY <2>1, <3>1, <3>2
  <2>2. CASE i # m
    <3>1. i \in 0..(m - 1)
      BY <1>4, <2>2
    <3>2. g[i] = f[i]
      BY <2>2
    <3>3. f[i] = IF i = 0 THEN <<>>
                 ELSE IF i \in I THEN Append(f[i - 1], s[i]) ELSE f[i - 1]
      BY <1>6, <3>1 DEF UpTo
    <3>4. i # 0 => i - 1 \in 0..m /\ i - 1 # m
      BY <1>4, <3>1
    <3>5. i # 0 => g[i - 1] = f[i - 1]
      BY <3>4
    <3>. QED
      BY <3>2, <3>3, <3>5
  <2>. QED
    BY <2>1, <2>2
<1>8. g = [i \in 0..m |-> g[i]]
  OBVIOUS
<1>. HIDE DEF g
<1>9. g = UpTo(g, s, I, m)
  BY <1>7, <1>8 DEF UpTo
<1>. QED
  BY <1>2, <1>9

LEMMA ChosenUnfolds ==
    ASSUME NEW s, NEW I, Len(s) \in Nat
    PROVE  \E f : f = UpTo(f, s, I, Len(s)) /\ Chosen(s, I) = f[Len(s)]
<1>1. \E f : f = UpTo(f, s, I, Len(s))
  BY UpToExists
<1>. DEFINE f == CHOOSE f : f = UpTo(f, s, I, Len(s))
<1>2. f = UpTo(f, s, I, Len(s))
  BY <1>1
<1>3. Chosen(s, I) = f[Len(s)]
  BY DEF Chosen, UpTo
<1>. QED
  BY <1>2, <1>3

(* One more element: it is chosen or it is not.                            *)
LEMMA ChosenAppend ==
    ASSUME NEW M, NEW s \in Seq(M), NEW e \in M, NEW I, NEW J,
           \A i \in 1..Len(s) : i \in I <=> i \in J
    PROVE  Chosen(Append(s, e), J) =
              IF Len(s) + 1 \in J THEN Append(Chosen(s, I), e) ELSE Chosen(s, I)
<1>. DEFINE n == Len(s)
            t == Append(s, e)
<1>1. n \in Nat /\ Len(t) = n + 1 /\ t[n + 1] = e /\ \A i \in 1..n : t[i] = s[i]
  BY AppendProperties, LenProperties
<1>2. PICK f : f = UpTo(f, s, I, n) /\ Chosen(s, I) = f[n]
  BY <1>1, ChosenUnfolds
<1>3. PICK g : g = UpTo(g, t, J, n + 1) /\ Chosen(t, J) = g[n + 1]
  <2>1. Len(t) \in Nat
    BY <1>1
  <2>2. \E g : g = UpTo(g, t, J, Len(t)) /\ Chosen(t, J) = g[Len(t)]
    BY <2>1, ChosenUnfolds
  <2>. QED
    BY <1>1, <2>2
<1>4. \A i \in 0..n : f[i] = IF i = 0 THEN <<>>
                             ELSE IF i \in I THEN Append(f[i - 1], s[i]) ELSE f[i - 1]
  BY <1>2 DEF UpTo
<1>5. \A i \in 0..(n + 1) : g[i] = IF i = 0 THEN <<>>
                                   ELSE IF i \in J THEN Append(g[i - 1], t[i]) ELSE g[i - 1]
  BY <1>3 DEF UpTo
<1>. DEFINE Bad == {i \in 0..n : g[i] # f[i]}
<1>6. ASSUME Bad # {} PROVE FALSE
  <2>1. PICK m \in Bad : \A k \in Bad : m <= k
    <3>1. Bad \in SUBSET Nat
      OBVIOUS
    <3>. HIDE DEF Bad
    <3>. QED
      BY <1>6, <3>1, LeastNumber
  <2>2. m \in 0..n /\ g[m] # f[m]
    BY <2>1
  <2>3. m # 0
    BY <1>1, <1>4, <1>5, <2>2
  <2>4. m \in 1..n /\ m \in 0..(n + 1) /\ m - 1 \in 0..n /\ ~(m <= m - 1)
    BY <1>1, <2>2, <2>3
  <2>5. m - 1 \notin Bad
    <3>. HIDE DEF Bad
    <3>. QED
      BY <2>1, <2>4
  <2>6. g[m - 1] = f[m - 1]
    BY <2>4, <2>5
  <2>7. f[m] = IF m \in I THEN Append(f[m - 1], s[m]) ELSE f[m - 1]
    BY <1>4, <2>2, <2>3
  <2>8. g[m] = IF m \in J THEN Append(g[m - 1], t[m]) ELSE g[m - 1]
    BY <1>5, <2>3, <2>4
  <2>. QED
    BY <1>1, <2>2, <2>4, <2>6, <2>7, <2>8
<1>7. g[n] = f[n]
  BY <1>1, <1>6
<1>8. n + 1 \in 0..(n + 1) /\ n + 1 # 0 /\ n + 1 - 1 = n
  BY <1>1
<1>9. g[n + 1] = IF n + 1 \in J THEN Append(g[n], t[n + 1]) ELSE g[n]
  BY <1>5, <1>8
<1>. QED
  BY <1>1, <1>2, <1>3, <1>7, <1>9

LEMMA ChosenNone == ASSUME NEW I PROVE Chosen(<<>>, I) = <<>>
<1>1. PICK f : f = UpTo(f, <<>>, I, 0) /\ Chosen(<<>>, I) = f[0]
  BY ChosenUnfolds
<1>. QED
  BY <1>1 DEF UpTo

(* The elements of s that are in K, in their order: what the session and   *)
(* the invariants choose by.                                               *)
Among(s, K) == Chosen(s, {i \in DOMAIN s : s[i] \in K})

LEMMA AmongNone == ASSUME NEW K PROVE Among(<<>>, K) = <<>>
BY ChosenNone DEF Among

LEMMA AmongAppend ==
    ASSUME NEW M, NEW s \in Seq(M), NEW e \in M, NEW K
    PROVE  Among(Append(s, e), K) = IF e \in K THEN Append(Among(s, K), e) ELSE Among(s, K)
<1>. DEFINE t == Append(s, e)
            I == {i \in DOMAIN s : s[i] \in K}
            J == {i \in DOMAIN t : t[i] \in K}
<1>1. /\ Len(s) \in Nat /\ DOMAIN s = 1..Len(s) /\ DOMAIN t = 1..(Len(s) + 1)
      /\ t[Len(s) + 1] = e /\ \A i \in 1..Len(s) : t[i] = s[i]
  BY AppendProperties, LenProperties
<1>2. \A i \in 1..Len(s) : i \in I <=> i \in J
  BY <1>1
<1>3. Len(s) + 1 \in J <=> e \in K
  BY <1>1
<1>. HIDE DEF I, J
<1>4. Chosen(t, J) = IF Len(s) + 1 \in J THEN Append(Chosen(s, I), e) ELSE Chosen(s, I)
  BY <1>2, ChosenAppend
<1>. QED
  BY <1>3, <1>4 DEF Among, I, J

LEMMA AmongSeq ==
    ASSUME NEW M, NEW K PROVE \A s \in Seq(M) : Among(s, K) \in Seq(M \cap K)
<1>. DEFINE S == {s \in Seq(M) : Among(s, K) \in Seq(M \cap K)}
<1>1. <<>> \in S
  BY AmongNone, EmptySeq
<1>2. ASSUME NEW s \in S, NEW e \in M PROVE Append(s, e) \in S
  <2>1. s \in Seq(M) /\ Among(s, K) \in Seq(M \cap K) /\ Append(s, e) \in Seq(M)
    BY AppendProperties
  <2>2. Among(Append(s, e), K) = IF e \in K THEN Append(Among(s, K), e) ELSE Among(s, K)
    BY <2>1, AmongAppend
  <2>3. e \in K => Append(Among(s, K), e) \in Seq(M \cap K)
    BY <2>1, AppendProperties
  <2>. QED
    BY <2>1, <2>2, <2>3
<1>3. S \in SUBSET Seq(M)
  OBVIOUS
<1>. HIDE DEF S
<1>4. S = Seq(M)
  BY <1>1, <1>2, <1>3, SequenceInduction
<1>. QED
  BY <1>4 DEF S

LEMMA AppendConcat ==
    ASSUME NEW M, NEW s \in Seq(M), NEW t \in Seq(M), NEW e \in M
    PROVE  s \o Append(t, e) = Append(s \o t, e)
<1>1. <<e>> \in Seq(M) /\ s \o t \in Seq(M)
  BY ConcatProperties
<1>2. Append(t, e) = t \o <<e>> /\ Append(s \o t, e) = (s \o t) \o <<e>>
  BY <1>1, AppendIsConcat
<1>. QED
  BY <1>1, <1>2, ConcatAssociative

LEMMA AmongConcat ==
    ASSUME NEW M, NEW K, NEW s \in Seq(M)
    PROVE  \A t \in Seq(M) : Among(s \o t, K) = Among(s, K) \o Among(t, K)
<1>. DEFINE S == {t \in Seq(M) : Among(s \o t, K) = Among(s, K) \o Among(t, K)}
<1>1. Among(s, K) \in Seq(M \cap K)
  BY AmongSeq
<1>2. <<>> \in S
  <2>1. s \o <<>> = s /\ Among(s, K) \o <<>> = Among(s, K)
    BY <1>1, ConcatEmptySeq
  <2>. QED
    BY <2>1, AmongNone, EmptySeq
<1>3. ASSUME NEW t \in S, NEW e \in M PROVE Append(t, e) \in S
  <2>1. t \in Seq(M) /\ Among(s \o t, K) = Among(s, K) \o Among(t, K)
    OBVIOUS
  <2>2. Append(t, e) \in Seq(M) /\ s \o t \in Seq(M)
    BY <2>1, AppendProperties, ConcatProperties
  <2>3. s \o Append(t, e) = Append(s \o t, e)
    BY <2>1, AppendConcat
  <2>4. Among(s \o Append(t, e), K) =
           IF e \in K THEN Append(Among(s, K) \o Among(t, K), e)
           ELSE Among(s, K) \o Among(t, K)
    <3>1. \A u \in Seq(M) :
             Among(Append(u, e), K) = IF e \in K THEN Append(Among(u, K), e) ELSE Among(u, K)
      BY AmongAppend
    <3>. QED
      BY <2>1, <2>2, <2>3, <3>1
  <2>5. Among(Append(t, e), K) = IF e \in K THEN Append(Among(t, K), e) ELSE Among(t, K)
    BY <2>1, AmongAppend
  <2>6. Among(t, K) \in Seq(M \cap K)
    BY <2>1, AmongSeq
  <2>7. e \in K => Among(s, K) \o Append(Among(t, K), e) = Append(Among(s, K) \o Among(t, K), e)
    BY <1>1, <2>6, AppendConcat
  <2>. QED
    BY <2>2, <2>4, <2>5, <2>7
<1>4. S \in SUBSET Seq(M)
  OBVIOUS
<1>. HIDE DEF S
<1>5. S = Seq(M)
  BY <1>2, <1>3, <1>4, SequenceInduction
<1>. QED
  BY <1>5 DEF S

LEMMA RangeAppend ==
    ASSUME NEW M, NEW s \in Seq(M), NEW e \in M
    PROVE  Range(Append(s, e)) = Range(s) \cup {e}
<1>. DEFINE t == Append(s, e)
<1>1. /\ Len(s) \in Nat /\ DOMAIN s = 1..Len(s) /\ DOMAIN t = 1..(Len(s) + 1)
      /\ t[Len(s) + 1] = e /\ \A i \in 1..Len(s) : t[i] = s[i]
  BY AppendProperties, LenProperties
<1>. HIDE DEF t
<1>2. DOMAIN t = DOMAIN s \cup {Len(s) + 1}
  BY <1>1
<1>3. Range(t) = Range(s) \cup {t[Len(s) + 1]}
  BY <1>1, <1>2 DEF Range
<1>. QED
  BY <1>1, <1>3 DEF t

LEMMA AmongRange ==
    ASSUME NEW M, NEW K PROVE \A s \in Seq(M) : Range(Among(s, K)) = Range(s) \cap K
<1>. DEFINE S == {s \in Seq(M) : Range(Among(s, K)) = Range(s) \cap K}
<1>1. <<>> \in S
  BY AmongNone, EmptySeq DEF Range
<1>2. ASSUME NEW s \in S, NEW e \in M PROVE Append(s, e) \in S
  <2>1. s \in Seq(M) /\ Append(s, e) \in Seq(M) /\ Among(s, K) \in Seq(M \cap K)
    BY AppendProperties, AmongSeq
  <2>2. Among(Append(s, e), K) = IF e \in K THEN Append(Among(s, K), e) ELSE Among(s, K)
    BY <2>1, AmongAppend
  <2>3. Range(Append(s, e)) = Range(s) \cup {e}
    BY <2>1, RangeAppend
  <2>4. e \in K => Range(Append(Among(s, K), e)) = Range(Among(s, K)) \cup {e}
    BY <2>1, RangeAppend
  <2>. QED
    BY <2>1, <2>2, <2>3, <2>4
<1>3. S \in SUBSET Seq(M)
  OBVIOUS
<1>. HIDE DEF S
<1>4. S = Seq(M)
  BY <1>1, <1>2, <1>3, SequenceInduction
<1>. QED
  BY <1>4 DEF S

(* A sequence that is not empty, as its front and its last element.       *)
LEMMA FrontLast ==
    ASSUME NEW M, NEW s \in Seq(M), s # <<>>
    PROVE  Front(s) \in Seq(M) /\ Last(s) \in M /\ s = Append(Front(s), Last(s))
<1>1. PICK t \in Seq(M), e \in M : s = Append(t, e)
  BY SequenceEmptyOrAppend
<1>2. Len(t) \in Nat /\ Len(s) = Len(t) + 1 /\ s[Len(t) + 1] = e
      /\ \A i \in 1..Len(t) : s[i] = t[i] /\ t[i] \in M
  BY <1>1, AppendProperties, LenProperties
<1>3. Last(s) = e
  BY <1>2 DEF Last
<1>4. Front(s) = SubSeq(s, 1, Len(t))
  BY <1>2 DEF Front
<1>5. SubSeq(s, 1, Len(t)) = t
  <2>1. /\ SubSeq(s, 1, Len(t)) \in Seq(M)
        /\ Len(SubSeq(s, 1, Len(t))) = IF 1 <= Len(t) THEN Len(t) - 1 + 1 ELSE 0
        /\ \A i \in 1..(Len(t) - 1 + 1) : SubSeq(s, 1, Len(t))[i] = s[1 + i - 1]
    BY <1>2, SubSeqProperties
  <2>2. Len(SubSeq(s, 1, Len(t))) = Len(t)
    BY <1>2, <2>1
  <2>3. \A i \in 1..Len(t) : SubSeq(s, 1, Len(t))[i] = t[i]
    BY <1>2, <2>1
  <2>. QED
    BY <2>1, <2>2, <2>3, SeqEqual
<1>. QED
  BY <1>1, <1>3, <1>4, <1>5

LEMMA SubSeqIs ==
    ASSUME NEW M, NEW s \in Seq(M), NEW n \in 1..(Len(s) + 1), NEW m \in (n - 1)..Len(s)
    PROVE  /\ SubSeq(s, n, m) \in Seq(M) /\ Len(SubSeq(s, n, m)) = m - n + 1
           /\ \A i \in 1..(m - n + 1) : SubSeq(s, n, m)[i] = s[n + i - 1]
<1>1. n \in Int /\ m \in Int /\ \A i \in n..m : i \in 1..Len(s)
  BY LenProperties
<1>2. \A i \in n..m : s[i] \in M
  BY <1>1, LenProperties
<1>3. /\ SubSeq(s, n, m) \in Seq(M)
      /\ Len(SubSeq(s, n, m)) = IF n <= m THEN m - n + 1 ELSE 0
      /\ \A i \in 1..(m - n + 1) : SubSeq(s, n, m)[i] = s[n + i - 1]
  BY <1>1, <1>2, SubSeqProperties
<1>. QED
  BY <1>1, <1>3, LenProperties

LEMMA ChosenAll ==
    ASSUME NEW M, NEW s \in Seq(M), NEW I, \A i \in DOMAIN s : i \in I
    PROVE  Chosen(s, I) = s
<1>. DEFINE S == {t \in Seq(M) : \A J : DOMAIN t \subseteq J => Chosen(t, J) = t}
<1>1. <<>> \in S
  BY ChosenNone, EmptySeq
<1>2. ASSUME NEW t \in S, NEW e \in M PROVE Append(t, e) \in S
  <2>1. t \in Seq(M) /\ \A J : DOMAIN t \subseteq J => Chosen(t, J) = t
    OBVIOUS
  <2>2. /\ Append(t, e) \in Seq(M) /\ Len(t) \in Nat /\ DOMAIN t = 1..Len(t)
        /\ DOMAIN Append(t, e) = 1..(Len(t) + 1)
    BY <2>1, AppendProperties, LenProperties
  <2>. HIDE DEF S
  <2>3. ASSUME NEW J, DOMAIN Append(t, e) \subseteq J PROVE Chosen(Append(t, e), J) = Append(t, e)
    <3>1. DOMAIN t \subseteq J /\ Len(t) + 1 \in J
      BY <2>2, <2>3
    <3>2. Chosen(Append(t, e), J) =
             IF Len(t) + 1 \in J THEN Append(Chosen(t, J), e) ELSE Chosen(t, J)
      BY <2>1, ChosenAppend
    <3>. QED
      BY <2>1, <3>1, <3>2
  <2>. QED
    BY <2>2, <2>3 DEF S
<1>3. S \in SUBSET Seq(M)
  OBVIOUS
<1>. HIDE DEF S
<1>4. S = Seq(M)
  BY <1>1, <1>2, <1>3, SequenceInduction
<1>. QED
  BY <1>4 DEF S

(* The elements that are chosen come from places of their own, in order,   *)
(* and from all that are in I.                                             *)
PlacedBy(t, s, I, h) ==
    /\ h \in [1..Len(t) -> DOMAIN s]
    /\ \A i \in 1..Len(t) : h[i] \in I /\ t[i] = s[h[i]]
    /\ \A i, j \in 1..Len(t) : i < j => h[i] < h[j]
    /\ \A k \in DOMAIN s : k \in I => \E i \in 1..Len(t) : h[i] = k

LEMMA ChosenPlaces ==
    ASSUME NEW M, NEW I
    PROVE  \A s \in Seq(M) : Chosen(s, I) \in Seq(M) /\ \E h : PlacedBy(Chosen(s, I), s, I, h)
<1>. DEFINE S == {s \in Seq(M) : Chosen(s, I) \in Seq(M) /\ \E h : PlacedBy(Chosen(s, I), s, I, h)}
<1>1. <<>> \in S
  <2>1. Len(<<>>) = 0 /\ <<>> \in Seq(M) /\ 1..0 = {}
    BY EmptySeq
  <2>. DEFINE h == [i \in 1..0 |-> 0]
  <2>2. h \in [1..Len(<<>>) -> DOMAIN <<>>]
    BY <2>1
  <2>3. PlacedBy(<<>>, <<>>, I, h)
    BY <2>1, <2>2 DEF PlacedBy
  <2>. QED
    BY <2>1, <2>3, ChosenNone
<1>2. ASSUME NEW s \in S, NEW e \in M PROVE Append(s, e) \in S
  <2>. DEFINE t == Chosen(s, I)
              s1 == Append(s, e)
              t1 == Chosen(s1, I)
              n == Len(t)
              m == Len(s)
  <2>1. s \in Seq(M) /\ t \in Seq(M)
    OBVIOUS
  <2>2. PICK h : PlacedBy(t, s, I, h)
    OBVIOUS
  <2>3. /\ s1 \in Seq(M) /\ m \in Nat /\ n \in Nat /\ DOMAIN s = 1..m /\ DOMAIN s1 = 1..(m + 1)
        /\ s1[m + 1] = e /\ \A i \in 1..m : s1[i] = s[i]
    BY <2>1, AppendProperties, LenProperties
  <2>4. t1 = IF m + 1 \in I THEN Append(t, e) ELSE t
    BY <2>1, ChosenAppend
  <2>. HIDE DEF t, s1, t1, m
  <2>5. CASE m + 1 \notin I
    <3>1. t1 = t
      BY <2>4, <2>5
    <3>2. /\ h \in [1..n -> 1..m]
          /\ \A i \in 1..n : h[i] \in I /\ t[i] = s[h[i]]
          /\ \A i, j \in 1..n : i < j => h[i] < h[j]
          /\ \A k \in 1..m : k \in I => \E i \in 1..n : h[i] = k
      BY <2>2, <2>3 DEF PlacedBy
    <3>3. /\ h \in [1..n -> 1..(m + 1)]
          /\ \A i \in 1..n : s1[h[i]] = s[h[i]]
      <4>1. 1..m \subseteq 1..(m + 1)
        BY <2>3
      <4>2. h = [i \in 1..n |-> h[i]] /\ \A i \in 1..n : h[i] \in 1..m
        BY <3>2
      <4>. QED
        BY <2>3, <4>1, <4>2
    <3>. \A k \in 1..(m + 1) : k \in I => k \in 1..m
      BY <2>3, <2>5
    <3>4. PlacedBy(t1, s1, I, h)
      BY <2>3, <3>1, <3>2, <3>3 DEF PlacedBy
    <3>. QED
      BY <2>1, <2>3, <3>1, <3>4 DEF t1, s1
  <2>6. CASE m + 1 \in I
    <3>. DEFINE g == [i \in 1..(n + 1) |-> IF i = n + 1 THEN m + 1 ELSE h[i]]
    <3>1. /\ t1 \in Seq(M) /\ Len(t1) = n + 1 /\ t1[n + 1] = e
          /\ \A i \in 1..n : t1[i] = t[i]
      BY <2>1, <2>4, <2>6, AppendProperties
    <3>2. ASSUME NEW i \in 1..(n + 1)
          PROVE  g[i] \in DOMAIN s1 /\ g[i] \in I /\ t1[i] = s1[g[i]]
      <4>1. CASE i = n + 1
        BY <2>3, <2>6, <3>1, <4>1
      <4>2. CASE i # n + 1
        <5>1. i \in 1..n
          BY <2>3, <4>2
        <5>2. h[i] \in 1..m /\ h[i] \in I /\ t[i] = s[h[i]] /\ g[i] = h[i]
          BY <2>2, <2>3, <4>2, <5>1 DEF PlacedBy
        <5>. QED
          BY <2>3, <3>1, <5>1, <5>2
      <4>. QED
        BY <4>1, <4>2
    <3>3. ASSUME NEW i \in 1..(n + 1), NEW j \in 1..(n + 1), i < j PROVE g[i] < g[j]
      <4>1. i \in 1..n /\ g[i] = h[i]
        BY <2>3, <3>3
      <4>. h[i] \in 1..m
        BY <2>2, <2>3, <4>1 DEF PlacedBy
      <4>2. CASE j = n + 1
        BY <2>3, <4>1, <4>2
      <4>3. CASE j # n + 1
        <5>1. j \in 1..n /\ g[j] = h[j]
          BY <2>3, <4>3
        <5>. QED
          BY <2>2, <3>3, <4>1, <5>1 DEF PlacedBy
      <4>. QED
        BY <4>2, <4>3
    <3>4. g \in [1..Len(t1) -> DOMAIN s1]
      BY <3>1, <3>2
    <3>5. ASSUME NEW k \in 1..(m + 1), k \in I PROVE \E i \in 1..(n + 1) : g[i] = k
      <4>1. CASE k = m + 1
        <5>1. n + 1 \in 1..(n + 1) /\ g[n + 1] = m + 1
          BY <2>3
        <5>. QED
          BY <4>1, <5>1
      <4>2. CASE k # m + 1
        <5>1. k \in 1..m
          BY <2>3, <4>2
        <5>2. PICK i \in 1..n : h[i] = k
          BY <2>2, <2>3, <3>5, <5>1 DEF PlacedBy
        <5>3. i \in 1..(n + 1) /\ g[i] = k
          BY <2>3, <5>2
        <5>. QED
          BY <5>3
      <4>. QED
        BY <4>1, <4>2
    <3>. HIDE DEF g
    <3>6. PlacedBy(t1, s1, I, g)
      BY <2>3, <3>1, <3>2, <3>3, <3>4, <3>5 DEF PlacedBy
    <3>. QED
      BY <2>3, <3>1, <3>6 DEF t1, s1
  <2>. QED
    BY <2>5, <2>6
<1>3. S \in SUBSET Seq(M)
  OBVIOUS
<1>. HIDE DEF S
<1>4. S = Seq(M)
  BY <1>1, <1>2, <1>3, SequenceInduction
<1>. QED
  BY <1>4 DEF S

(* There is one way to go through the same numbers in ascending order.     *)
Ascends(h, m)       == h \in [1..m -> Nat] /\ \A i, j \in 1..m : i < j => h[i] < h[j]
Covered(h, m, g, n) == \A i \in 1..m : \E j \in 1..n : g[j] = h[i]

LEMMA ListedOnce ==
    ASSUME NEW m \in Nat, NEW n \in Nat, NEW h, NEW g, Ascends(h, m), Ascends(g, n),
           Covered(h, m, g, n), Covered(g, n, h, m)
    PROVE  m = n /\ \A i \in 1..m : h[i] = g[i]
<1>. USE DEF Ascends, Covered
<1>. DEFINE Both == {i \in 1..m : i <= n}
            Bad  == {i \in Both : h[i] # g[i]}
<1>1. ASSUME Bad # {} PROVE FALSE
  <2>1. PICK i \in Bad : \A j \in Bad : i <= j
    <3>1. Bad \in SUBSET Nat
      OBVIOUS
    <3>. HIDE DEF Bad
    <3>. QED
      BY <1>1, <3>1, LeastNumber
  <2>2. i \in 1..m /\ i \in 1..n /\ h[i] # g[i] /\ h[i] \in Nat /\ g[i] \in Nat
    BY <2>1
  <2>3. ASSUME NEW j \in 1..m, j < i PROVE j \in 1..n /\ h[j] = g[j]
    <3>1. j \in 1..n /\ j \in Both /\ ~(i <= j)
      BY <2>2, <2>3
    <3>2. j \notin Bad
      <4>. HIDE DEF Bad
      <4>. QED
        BY <2>1, <3>1
    <3>. QED
      BY <3>1, <3>2
  <2>4. CASE h[i] < g[i]
    <3>1. PICK j \in 1..n : g[j] = h[i]
      BY <2>2
    <3>2. j < i
      <4>1. ~(i < j)
        <5>1. i < j => g[i] < g[j]
          BY <2>2
        <5>. QED
          BY <2>2, <2>4, <3>1, <5>1
      <4>2. i # j
        BY <2>2, <3>1
      <4>. QED
        BY <2>2, <4>1, <4>2
    <3>3. j \in 1..m
      BY <2>2, <3>2
    <3>4. h[j] = g[j]
      BY <2>3, <3>2, <3>3
    <3>5. h[j] < h[i]
      BY <2>2, <3>2, <3>3
    <3>. QED
      BY <2>2, <3>1, <3>4, <3>5
  <2>5. CASE g[i] < h[i]
    <3>1. PICK j \in 1..m : h[j] = g[i]
      BY <2>2
    <3>2. j < i
      <4>1. ~(i < j)
        <5>1. i < j => h[i] < h[j]
          BY <2>2
        <5>. QED
          BY <2>2, <2>5, <3>1, <5>1
      <4>2. i # j
        BY <2>2, <3>1
      <4>. QED
        BY <2>2, <4>1, <4>2
    <3>3. j \in 1..n /\ h[j] = g[j]
      BY <2>3, <3>2
    <3>4. g[j] < g[i]
      BY <2>2, <3>2, <3>3
    <3>. QED
      BY <2>2, <3>1, <3>3, <3>4
  <2>. QED
    BY <2>2, <2>4, <2>5
<1>2. \A i \in 1..m : i <= n => h[i] = g[i]
  BY <1>1
<1>3. ASSUME m < n PROVE FALSE
  <2>1. m + 1 \in 1..n
    BY <1>3
  <2>2. PICK i \in 1..m : h[i] = g[m + 1]
    BY <2>1
  <2>3. i \in 1..n /\ h[i] = g[i] /\ i < m + 1
    BY <1>2, <1>3
  <2>4. g[i] < g[m + 1] /\ g[i] \in Nat
    BY <2>1, <2>3
  <2>. QED
    BY <2>2, <2>3, <2>4
<1>4. ASSUME n < m PROVE FALSE
  <2>1. n + 1 \in 1..m
    BY <1>4
  <2>2. PICK j \in 1..n : g[j] = h[n + 1]
    BY <2>1
  <2>3. j \in 1..m /\ h[j] = g[j] /\ j < n + 1
    BY <1>2, <1>4
  <2>4. h[j] < h[n + 1] /\ h[j] \in Nat
    BY <2>1, <2>3
  <2>. QED
    BY <2>2, <2>3, <2>4
<1>5. m = n
  BY <1>3, <1>4
<1>. QED
  BY <1>2, <1>5

(* What is chosen of what was chosen.                                      *)
LEMMA PlacedTwice ==
    ASSUME NEW t, NEW x, NEW s, NEW I, NEW J, NEW h, NEW g, Len(t) \in Nat, Len(x) \in Nat,
           DOMAIN x = 1..Len(x), DOMAIN s \subseteq Nat,
           PlacedBy(x, s, I, h), PlacedBy(t, x, J, g)
    PROVE  PlacedBy(t, s, {h[i] : i \in {j \in 1..Len(x) : j \in J}}, [i \in 1..Len(t) |-> h[g[i]]])
<1>. DEFINE K == {h[i] : i \in {j \in 1..Len(x) : j \in J}}
            f == [i \in 1..Len(t) |-> h[g[i]]]
<1>1. /\ h \in [1..Len(x) -> DOMAIN s]
      /\ \A i \in 1..Len(x) : x[i] = s[h[i]]
      /\ \A i, j \in 1..Len(x) : i < j => h[i] < h[j]
  BY DEF PlacedBy
<1>2. /\ g \in [1..Len(t) -> 1..Len(x)]
      /\ \A i \in 1..Len(t) : g[i] \in J /\ t[i] = x[g[i]]
      /\ \A i, j \in 1..Len(t) : i < j => g[i] < g[j]
      /\ \A k \in 1..Len(x) : k \in J => \E i \in 1..Len(t) : g[i] = k
  BY DEF PlacedBy
<1>3. \A i \in 1..Len(t) : g[i] \in 1..Len(x) /\ f[i] = h[g[i]] /\ f[i] \in DOMAIN s
  BY <1>1, <1>2
<1>4. \A i \in 1..Len(t) : f[i] \in K /\ t[i] = s[f[i]]
  BY <1>1, <1>2, <1>3
<1>5. \A i, j \in 1..Len(t) : i < j => f[i] < f[j]
  BY <1>1, <1>2, <1>3
<1>6. \A k \in DOMAIN s : k \in K => \E i \in 1..Len(t) : f[i] = k
  BY <1>2, <1>3
<1>7. f \in [1..Len(t) -> DOMAIN s]
  BY <1>3
<1>. HIDE DEF f, K
<1>8. PlacedBy(t, s, K, f)
  BY <1>4, <1>5, <1>6, <1>7 DEF PlacedBy
<1>. QED
  BY <1>8 DEF f, K

(* Two pieces of a sequence, put together.                                 *)
LEMMA SlicesPlaced ==
    ASSUME NEW M, NEW s \in Seq(M), NEW a \in 1..(Len(s) + 1), NEW b \in (a - 1)..Len(s),
           NEW c \in (b + 1)..(Len(s) + 1), NEW x, x = SubSeq(s, a, b) \o SubSeq(s, c, Len(s))
    PROVE  /\ x \in Seq(M)
           /\ \E h : PlacedBy(x, s, (a..b) \cup (c..Len(s)), h)
<1>. DEFINE n == Len(s)
            u == SubSeq(s, a, b)
            v == SubSeq(s, c, n)
            d == b - a + 1
            e == n - c + 1
            K == (a..b) \cup (c..n)
<1>1. n \in Nat /\ DOMAIN s = 1..n /\ a \in Nat /\ b \in Nat /\ c \in Nat
      /\ a >= 1 /\ a <= b + 1 /\ b < c /\ c <= n + 1 /\ d \in Nat /\ e \in Nat
  <2>1. n \in Nat /\ DOMAIN s = 1..n
    BY LenProperties
  <2>2. a \in Nat /\ a >= 1 /\ b \in Int /\ b >= a - 1
    BY <2>1
  <2>3. b \in Nat
    BY <2>2
  <2>. QED
    BY <2>1, <2>2, <2>3
<1>2. u \in Seq(M) /\ Len(u) = d /\ \A i \in 1..d : u[i] = s[a + i - 1]
  BY SubSeqIs
<1>3. v \in Seq(M) /\ Len(v) = e /\ \A i \in 1..e : v[i] = s[c + i - 1]
  <2>1. c \in 1..(n + 1) /\ n \in (c - 1)..n
    BY <1>1
  <2>. QED
    BY <2>1, SubSeqIs
<1>. HIDE DEF u, v
<1>4. /\ x \in Seq(M) /\ Len(x) = d + e
      /\ \A i \in 1..(d + e) : x[i] = IF i <= d THEN u[i] ELSE v[i - d]
  <2>1. x = u \o v
    BY DEF u, v
  <2>2. /\ u \o v \in Seq(M) /\ Len(u \o v) = Len(u) + Len(v)
        /\ \A i \in 1..(Len(u) + Len(v)) :
              (u \o v)[i] = IF i <= Len(u) THEN u[i] ELSE v[i - Len(u)]
    BY <1>2, <1>3, ConcatProperties
  <2>. QED
    BY <1>2, <1>3, <2>1, <2>2
<1>. DEFINE h == [i \in 1..(d + e) |-> IF i <= d THEN a + i - 1 ELSE c + (i - d) - 1]
<1>5. ASSUME NEW i \in 1..(d + e)
      PROVE  /\ h[i] \in 1..n /\ h[i] \in K /\ x[i] = s[h[i]]
             /\ IF i <= d THEN h[i] = a + i - 1 ELSE h[i] = c + (i - d) - 1
  <2>1. CASE i <= d
    <3>1. h[i] = a + i - 1 /\ i \in 1..d /\ h[i] \in a..b /\ h[i] \in 1..n
      BY <1>1, <2>1
    <3>. QED
      BY <1>2, <1>4, <2>1, <3>1
  <2>2. CASE ~(i <= d)
    <3>1. h[i] = c + (i - d) - 1 /\ i - d \in 1..e /\ h[i] \in c..n /\ h[i] \in 1..n
      BY <1>1, <2>2
    <3>. QED
      BY <1>3, <1>4, <2>2, <3>1
  <2>. QED
    BY <2>1, <2>2
<1>6. h \in [1..Len(x) -> DOMAIN s]
  BY <1>1, <1>4, <1>5
<1>. HIDE DEF h
<1>7. ASSUME NEW i \in 1..(d + e), NEW j \in 1..(d + e), i < j PROVE h[i] < h[j]
  <2>1. CASE j <= d
    <3>1. i <= d
      BY <1>1, <1>7, <2>1
    <3>2. h[i] = a + i - 1 /\ h[j] = a + j - 1
      BY <1>5, <2>1, <3>1
    <3>. QED
      BY <1>1, <1>7, <3>2
  <2>2. CASE ~(j <= d) /\ i <= d
    <3>1. h[i] = a + i - 1 /\ h[j] = c + (j - d) - 1
      BY <1>5, <2>2
    <3>. QED
      BY <1>1, <2>2, <3>1
  <2>3. CASE ~(j <= d) /\ ~(i <= d)
    <3>1. h[i] = c + (i - d) - 1 /\ h[j] = c + (j - d) - 1
      BY <1>5, <2>3
    <3>. QED
      BY <1>1, <1>7, <2>3, <3>1
  <2>. QED
    BY <2>1, <2>2, <2>3
<1>8. ASSUME NEW k \in K PROVE \E i \in 1..(d + e) : h[i] = k
  <2>1. CASE k \in a..b
    <3>1. k - a + 1 \in 1..(d + e) /\ k - a + 1 <= d
      BY <1>1, <2>1
    <3>2. h[k - a + 1] = a + (k - a + 1) - 1
      BY <1>5, <3>1
    <3>. QED
      BY <1>1, <2>1, <3>1, <3>2
  <2>2. CASE k \in c..n
    <3>. DEFINE i == k - c + 1 + d
    <3>1. i \in 1..(d + e) /\ ~(i <= d) /\ c + (i - d) - 1 = k
      BY <1>1, <2>2
    <3>. HIDE DEF i
    <3>2. h[i] = c + (i - d) - 1
      BY <1>5, <3>1
    <3>. QED
      BY <3>1, <3>2
  <2>. QED
    BY <2>1, <2>2
<1>. HIDE DEF K, d, e
<1>9. PlacedBy(x, s, K, h)
  BY <1>4, <1>5, <1>6, <1>7, <1>8 DEF PlacedBy
<1>. QED
  BY <1>4, <1>9 DEF K

===========================================================================
