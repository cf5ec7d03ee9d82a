------------------------ MODULE AgentSessionProofs ------------------------
(***************************************************************************)
(* What the coding agent's session keeps right: its entries and the        *)
(* agent's messages, the queues it shows, and the retries it makes.        *)
(*                                                                         *)
(* The operators on messages come first (the last answer, the context that *)
(* is built from the entries), by induction on the length.                 *)
(* Then what a step may do to the conversation and to the queues, the      *)
(* types, and one invariant after the other; Consistent is all of them     *)
(* together, and each theorem at the end follows from it.                  *)
(***************************************************************************)
EXTENDS AgentSession, SequenceLemmas, FiniteSetTheorems

-----------------------------------------------------------------------------
(* Messages: what they are, and the last answer in a sequence of them, as  *)
(* a set with this answer or without any.                                  *)

Kinds == ReplyKinds \cup {"aborted"}
Records == [role : Roles, kind : Kinds \cup {""}, text : Texts \cup {""}, id : Nat,
            first : Nat, covers : SUBSET Nat, noHistory : BOOLEAN]
Msg   == {m \in Records : m.role = "assistant" <=> m.kind # ""}
Plain == {m \in Msg : IsMessage(m)}
Stays == {m \in Msg : ~TakenBack(m)}

LastAnswer(s) ==
    {s[i] : i \in {j \in DOMAIN s :
                     IsAssistant(s[j]) /\ \A l \in DOMAIN s : l > j => ~IsAssistant(s[l])}}

LEMMA MessagesAmong == ASSUME NEW s \in Seq(Msg) PROVE MessagesOf(s) = Among(s, Plain)
<1>1. \A i \in DOMAIN s : s[i] \in Msg
  BY LenProperties
<1>2. {i \in DOMAIN s : IsMessage(s[i])} = {i \in DOMAIN s : s[i] \in Plain}
  BY <1>1 DEF Plain
<1>. QED
  BY <1>2 DEF MessagesOf, Among

LEMMA LastingAmong == ASSUME NEW s \in Seq(Msg) PROVE Lasting(s) = Among(s, Stays)
<1>1. \A i \in DOMAIN s : s[i] \in Msg
  BY LenProperties
<1>2. {i \in DOMAIN s : ~TakenBack(s[i])} = {i \in DOMAIN s : s[i] \in Stays}
  BY <1>1 DEF Stays
<1>. QED
  BY <1>2 DEF Lasting, Among

LEMMA AnswerNone == LastAnswer(<<>>) = {}
BY DEF LastAnswer

LEMMA AnswerAppend ==
    ASSUME NEW M, NEW s \in Seq(M), NEW e \in M
    PROVE  LastAnswer(Append(s, e)) = IF IsAssistant(e) THEN {e} ELSE LastAnswer(s)
<1>. DEFINE t == Append(s, e)
            n == Len(s)
            I(u) == {j \in DOMAIN u :
                       IsAssistant(u[j]) /\ \A l \in DOMAIN u : l > j => ~IsAssistant(u[l])}
<1>1. /\ n \in Nat /\ DOMAIN s = 1..n /\ DOMAIN t = 1..(n + 1)
      /\ t[n + 1] = e /\ \A i \in 1..n : t[i] = s[i]
  BY AppendProperties, LenProperties
<1>2. ASSUME IsAssistant(e) PROVE I(t) = {n + 1}
  BY <1>1, <1>2
<1>3. ASSUME ~IsAssistant(e) PROVE I(t) = I(s)
  BY <1>1, <1>3
<1>4. LastAnswer(t) = {t[i] : i \in I(t)} /\ LastAnswer(s) = {s[i] : i \in I(s)}
  BY DEF LastAnswer
<1>5. \A i \in I(s) : t[i] = s[i]
  BY <1>1
<1>. HIDE DEF I, t, n
<1>6. ASSUME IsAssistant(e) PROVE LastAnswer(t) = {e}
  BY <1>1, <1>2, <1>4, <1>6
<1>7. ASSUME ~IsAssistant(e) PROVE LastAnswer(t) = LastAnswer(s)
  BY <1>3, <1>4, <1>5, <1>7
<1>. QED
  BY <1>6, <1>7 DEF t

LEMMA AnswerConcat ==
    ASSUME NEW M, NEW s \in Seq(M)
    PROVE  \A t \in Seq(M) : LastAnswer(s \o t) = IF LastAnswer(t) = {} THEN LastAnswer(s)
                                                  ELSE LastAnswer(t)
<1>. DEFINE S == {t \in Seq(M) : LastAnswer(s \o t) = IF LastAnswer(t) = {} THEN LastAnswer(s)
                                                      ELSE LastAnswer(t)}
<1>1. <<>> \in S
  BY AnswerNone, ConcatEmptySeq, EmptySeq
<1>2. ASSUME NEW t \in S, NEW e \in M PROVE Append(t, e) \in S
  <2>1. t \in Seq(M) /\ s \o t \in Seq(M) /\ Append(t, e) \in Seq(M)
    BY AppendProperties, ConcatProperties
  <2>2. s \o Append(t, e) = Append(s \o t, e)
    BY <2>1, AppendConcat
  <2>3. \A u \in Seq(M) :
           LastAnswer(Append(u, e)) = IF IsAssistant(e) THEN {e} ELSE LastAnswer(u)
    BY AnswerAppend
  <2>. QED
    BY <2>1, <2>2, <2>3
<1>3. S \in SUBSET Seq(M)
  OBVIOUS
<1>. HIDE DEF S
<1>4. S = Seq(M)
  BY <1>1, <1>2, <1>3, SequenceInduction
<1>. QED
  BY <1>4 DEF S

LEMMA AnswerAmong ==
    ASSUME NEW M, NEW K, \A m \in M : IsAssistant(m) => m \in K
    PROVE  \A s \in Seq(M) : LastAnswer(Among(s, K)) = LastAnswer(s)
<1>. DEFINE S == {s \in Seq(M) : LastAnswer(Among(s, K)) = LastAnswer(s)}
<1>1. <<>> \in S
  BY AmongNone, EmptySeq
<1>2. ASSUME NEW s \in S, NEW e \in M PROVE Append(s, e) \in S
  <2>1. s \in Seq(M) /\ Append(s, e) \in Seq(M) /\ Among(s, K) \in Seq(M \cap K)
    BY AppendProperties, AmongSeq
  <2>2. Among(Append(s, e), K) = IF e \in K THEN Append(Among(s, K), e) ELSE Among(s, K)
    BY <2>1, AmongAppend
  <2>3. LastAnswer(Append(s, e)) = IF IsAssistant(e) THEN {e} ELSE LastAnswer(s)
    BY <2>1, AnswerAppend
  <2>4. \A u \in Seq(M \cap K) : e \in K =>
           LastAnswer(Append(u, e)) = IF IsAssistant(e) THEN {e} ELSE LastAnswer(u)
    BY AnswerAppend
  <2>. QED
    BY <2>1, <2>2, <2>3, <2>4
<1>3. S \in SUBSET Seq(M)
  OBVIOUS
<1>. HIDE DEF S
<1>4. S = Seq(M)
  BY <1>1, <1>2, <1>3, SequenceInduction
<1>. QED
  BY <1>4 DEF S

(* SelectLastInSeq finds it.                                               *)
LEMMA AnswerIndex ==
    ASSUME NEW M, NEW s \in Seq(M), NEW k, k = SelectLastInSeq(s, IsAssistant)
    PROVE  /\ k = 0 => LastAnswer(s) = {}
           /\ k # 0 => k \in 1..Len(s) /\ LastAnswer(s) = {s[k]} /\ IsAssistant(s[k])
<1>. DEFINE J == {i \in 1..Len(s) : IsAssistant(s[i])}
<1>1. Len(s) \in Nat /\ DOMAIN s = 1..Len(s)
  BY LenProperties
<1>2. k = IF J # {} THEN Max(J) ELSE 0
  BY DEF SelectLastInSeq
<1>3. CASE J = {}
  BY <1>1, <1>2, <1>3 DEF LastAnswer
<1>4. CASE J # {}
  <2>1. PICK m \in J : \A j \in J : m >= j
    <3>1. J \in SUBSET (1..Len(s))
      OBVIOUS
    <3>. HIDE DEF J
    <3>. QED
      BY <1>1, <1>4, <3>1, GreatestNumber
  <2>2. k \in J /\ \A j \in J : k >= j
    BY <1>2, <1>4, <2>1 DEF Max
  <2>3. k \in 1..Len(s) /\ IsAssistant(s[k])
    BY <2>2
  <2>. DEFINE I == {j \in DOMAIN s :
                     IsAssistant(s[j]) /\ \A l \in DOMAIN s : l > j => ~IsAssistant(s[l])}
  <2>4. I = {k}
    <3>1. k \in I
      <4>1. ASSUME NEW l \in DOMAIN s, l > k PROVE ~IsAssistant(s[l])
        <5>1. l \in 1..Len(s) /\ ~(k >= l)
          BY <1>1, <2>3, <4>1
        <5>. QED
          BY <2>2, <5>1
      <4>. QED
        BY <1>1, <2>3, <4>1
    <3>2. ASSUME NEW j \in I PROVE j = k
      <4>1. j \in 1..Len(s) /\ IsAssistant(s[j]) /\ ~(k > j)
        BY <1>1, <2>3
      <4>2. k >= j
        BY <2>2, <4>1
      <4>. QED
        BY <2>3, <4>1, <4>2
    <3>. HIDE DEF I
    <3>. QED
      BY <3>1, <3>2
  <2>. HIDE DEF I
  <2>5. LastAnswer(s) = {s[i] : i \in I}
    BY DEF LastAnswer, I
  <2>. QED
    BY <1>1, <2>3, <2>4, <2>5
<1>. QED
  BY <1>3, <1>4

LEMMA AnswerLast ==
    ASSUME NEW M, NEW s \in Seq(M), s # <<>>, IsAssistant(Last(s))
    PROVE  LastAnswer(s) = {Last(s)}
<1>1. PICK t \in Seq(M), e \in M : s = Append(t, e)
  BY SequenceEmptyOrAppend
<1>2. Last(s) = e
  BY <1>1, AppendProperties, LenProperties DEF Last
<1>. QED
  BY <1>1, <1>2, AnswerAppend

-----------------------------------------------------------------------------
(* The context that is built from the entries of a session.                *)

(* p covers a message, or after n entries of es it is forgotten: one of    *)
(* them covers it, and a later one, or p, has no history.                  *)
Accounted(es, n, p, id) ==
    \/ id \in p.covers
    \/ \E i \in 1..n :
          id \in es[i].covers /\ (p.noHistory \/ \E l \in (i + 1)..n : es[l].noHistory)

(* An entry c among the first n of es begins what p keeps: it is a message *)
(* that no tool call precedes, and those before it are accounted for.      *)
SplitAt(es, n, p, c) ==
    /\ c \in 1..n
    /\ es[c].id = p.first
    /\ IsMessage(es[c]) /\ es[c].role # "toolResult"
    /\ \A i \in 1..(c - 1) : IsMessage(es[i]) => Accounted(es, n, p, es[i].id)
Splits(es, n, p) == \E c \in 1..n : SplitAt(es, n, p, c)

(* The compactions of a session split what comes before them.              *)
AllSplit(es) == \A k \in 1..Len(es) : IsCompaction(es[k]) => Splits(es, k - 1, es[k])

LEMMA LatestIndex ==
    ASSUME NEW es \in Seq(Msg), NEW k, k = LatestCompaction(es)
    PROVE  /\ k = 0 => \A i \in 1..Len(es) : IsMessage(es[i])
           /\ k # 0 => /\ k \in 1..Len(es) /\ IsCompaction(es[k])
                       /\ \A i \in (k + 1)..Len(es) : IsMessage(es[i])
<1>. DEFINE J == {i \in 1..Len(es) : IsCompaction(es[i])}
<1>1. Len(es) \in Nat
  BY LenProperties
<1>2. k = IF J # {} THEN Max(J) ELSE 0
  BY DEF LatestCompaction, SelectLastInSeq
<1>3. CASE J = {}
  BY <1>1, <1>2, <1>3 DEF IsMessage
<1>4. CASE J # {}
  <2>1. PICK m \in J : \A j \in J : m >= j
    <3>1. J \in SUBSET (1..Len(es))
      OBVIOUS
    <3>. HIDE DEF J
    <3>. QED
      BY <1>1, <1>4, <3>1, GreatestNumber
  <2>2. k \in J /\ \A j \in J : k >= j
    BY <1>2, <1>4, <2>1 DEF Max
  <2>3. k \in 1..Len(es) /\ IsCompaction(es[k])
    BY <2>2
  <2>4. ASSUME NEW i \in (k + 1)..Len(es) PROVE IsMessage(es[i])
    <3>1. i \in 1..Len(es) /\ ~(k >= i)
      BY <1>1, <2>3
    <3>. QED
      BY <2>2, <3>1 DEF IsMessage
  <2>. QED
    BY <1>1, <2>3, <2>4
<1>. QED
  BY <1>3, <1>4

LEMMA LatestIs ==
    ASSUME NEW es \in Seq(Msg), NEW k \in 1..Len(es), IsCompaction(es[k]),
           \A i \in (k + 1)..Len(es) : IsMessage(es[i])
    PROVE  LatestCompaction(es) = k
<1>. DEFINE l == LatestCompaction(es)
<1>1. /\ l = 0 => \A i \in 1..Len(es) : IsMessage(es[i])
      /\ l # 0 => /\ l \in 1..Len(es) /\ IsCompaction(es[l])
                  /\ \A i \in (l + 1)..Len(es) : IsMessage(es[i])
  BY LatestIndex
<1>. HIDE DEF l
<1>2. Len(es) \in Nat
  BY LenProperties
<1>3. l # 0
  BY <1>1 DEF IsMessage
<1>4. ~(l < k)
  BY <1>1, <1>2, <1>3 DEF IsMessage
<1>5. ~(k < l)
  BY <1>1, <1>2, <1>3 DEF IsMessage
<1>6. l = k
  BY <1>1, <1>2, <1>3, <1>4, <1>5
<1>. QED
  BY <1>6 DEF l

LEMMA LatestNone ==
    ASSUME NEW es \in Seq(Msg), \A i \in 1..Len(es) : IsMessage(es[i])
    PROVE  LatestCompaction(es) = 0
BY LatestIndex DEF IsMessage

LEMMA KeptIndex ==
    ASSUME NEW es \in Seq(Msg), NEW k, NEW n, NEW c, SplitAt(es, n, es[k], c), n \in 0..Len(es)
    PROVE  /\ FirstKept(es, k) \in 1..c /\ es[FirstKept(es, k)].id = es[k].first
           /\ \A i \in 1..Len(es) : es[i].id = es[k].first => FirstKept(es, k) <= i
<1>. DEFINE J == {i \in 1..Len(es) : es[i].id = es[k].first}
            f == FirstKept(es, k)
<1>1. Len(es) \in Nat /\ c \in 1..n /\ es[c].id = es[k].first
  BY LenProperties DEF SplitAt
<1>2. c \in J
  BY <1>1
<1>3. f = Min(J)
  BY <1>2 DEF FirstKept, SelectInSeq
<1>4. PICK m \in J : \A j \in J : m <= j
  <2>1. J \in SUBSET Nat
    OBVIOUS
  <2>. HIDE DEF J
  <2>. QED
    BY <1>2, <2>1, LeastNumber
<1>5. f \in J /\ \A j \in J : f <= j
  BY <1>3, <1>4 DEF Min
<1>. HIDE DEF f
<1>6. f \in 1..Len(es) /\ es[f].id = es[k].first /\ f <= c
  BY <1>2, <1>5
<1>7. f \in 1..c
  BY <1>1, <1>6
<1>8. \A i \in 1..Len(es) : es[i].id = es[k].first => f <= i
  BY <1>5
<1>. QED
  BY <1>6, <1>7, <1>8 DEF f

(* Only what comes after matters: entries added later change neither.      *)
LEMMA SplitsLonger ==
    ASSUME NEW es \in Seq(Msg), NEW t \in Seq(Msg), NEW n \in 0..Len(es), NEW p, Splits(es, n, p)
    PROVE  Splits(es \o t, n, p)
<1>1. Len(es) \in Nat /\ \A i \in 1..Len(es) : (es \o t)[i] = es[i]
  BY ConcatProperties, LenProperties
<1>2. PICK c \in 1..n : SplitAt(es, n, p, c)
  BY DEF Splits
<1>3. c \in 1..Len(es) /\ \A i \in 1..(c - 1) : i \in 1..Len(es)
  BY <1>1
<1>4. ASSUME NEW id, Accounted(es, n, p, id) PROVE Accounted(es \o t, n, p, id)
  <2>1. \A i \in 1..n : (es \o t)[i] = es[i]
    BY <1>1
  <2>2. \A i \in 1..n : \A l \in (i + 1)..n : (es \o t)[l] = es[l]
    BY <2>1
  <2>. QED
    BY <1>4, <2>1, <2>2 DEF Accounted
<1>5. SplitAt(es \o t, n, p, c)
  BY <1>1, <1>2, <1>3, <1>4 DEF SplitAt
<1>. QED
  BY <1>5 DEF Splits

LEMMA AllSplitLonger ==
    ASSUME NEW es \in Seq(Msg), NEW t \in Seq(Plain), AllSplit(es)
    PROVE  AllSplit(es \o t)
<1>1. t \in Seq(Msg) /\ \A i \in 1..Len(t) : IsMessage(t[i])
  BY LenProperties DEF Plain
<1>2. /\ Len(es) \in Nat /\ Len(t) \in Nat /\ Len(es \o t) = Len(es) + Len(t)
      /\ \A i \in 1..(Len(es) + Len(t)) :
            (es \o t)[i] = IF i <= Len(es) THEN es[i] ELSE t[i - Len(es)]
  BY <1>1, ConcatProperties, LenProperties
<1>3. ASSUME NEW k \in 1..Len(es \o t), IsCompaction((es \o t)[k])
      PROVE  Splits(es \o t, k - 1, (es \o t)[k])
  <2>1. k <= Len(es)
    <3>1. ASSUME ~(k <= Len(es)) PROVE FALSE
      <4>1. k - Len(es) \in 1..Len(t) /\ (es \o t)[k] = t[k - Len(es)]
        BY <1>2, <3>1
      <4>. QED
        BY <1>1, <1>3, <4>1 DEF IsMessage
    <3>. QED
      BY <3>1
  <2>2. k \in 1..Len(es) /\ (es \o t)[k] = es[k] /\ k - 1 \in 0..Len(es)
    BY <1>2, <2>1
  <2>3. Splits(es, k - 1, es[k])
    BY <1>3, <2>2 DEF AllSplit
  <2>. QED
    BY <1>1, <2>2, <2>3, SplitsLonger
<1>. QED
  BY <1>3 DEF AllSplit

LEMMA AllSplitCompaction ==
    ASSUME NEW es \in Seq(Msg), NEW e \in Msg, AllSplit(es), Splits(es, Len(es), e)
    PROVE  AllSplit(Append(es, e))
<1>1. /\ Len(es) \in Nat /\ Len(Append(es, e)) = Len(es) + 1
      /\ Append(es, e)[Len(es) + 1] = e /\ \A i \in 1..Len(es) : Append(es, e)[i] = es[i]
  BY AppendProperties, LenProperties
<1>2. <<e>> \in Seq(Msg) /\ Append(es, e) = es \o <<e>>
  BY AppendIsConcat
<1>3. ASSUME NEW k \in 1..Len(Append(es, e)), IsCompaction(Append(es, e)[k])
      PROVE  Splits(Append(es, e), k - 1, Append(es, e)[k])
  <2>1. CASE k = Len(es) + 1
    <3>1. Splits(es \o <<e>>, Len(es), e)
      <4>1. Len(es) \in 0..Len(es)
        BY <1>1
      <4>. QED
        BY <1>2, <4>1, SplitsLonger
    <3>2. k - 1 = Len(es)
      BY <1>1, <2>1
    <3>. QED
      BY <1>1, <1>2, <2>1, <3>1, <3>2
  <2>2. CASE k # Len(es) + 1
    <3>1. k \in 1..Len(es) /\ k - 1 \in 0..Len(es) /\ Append(es, e)[k] = es[k]
      BY <1>1, <2>2
    <3>2. Splits(es, k - 1, es[k])
      BY <1>3, <3>1 DEF AllSplit
    <3>. QED
      BY <1>2, <3>1, <3>2, SplitsLonger
  <2>. QED
    BY <2>1, <2>2
<1>. QED
  BY <1>3 DEF AllSplit

LEMMA PlainSeq == ASSUME NEW s \in Seq(Plain) PROVE s \in Seq(Msg)
<1>1. Plain \subseteq Msg
  BY DEF Plain
<1>. QED
  BY <1>1, SeqMonotonic

(* What the context consists of, after a compaction at k.                  *)
KeptPart(es, k)  == Among(SubSeq(es, FirstKept(es, k), k - 1), Plain)
LaterPart(es, k) == SubSeq(es, k + 1, Len(es))

LEMMA BuiltParts ==
    ASSUME NEW es \in Seq(Msg), AllSplit(es), NEW k, k = LatestCompaction(es), k # 0
    PROVE  /\ k \in 1..Len(es) /\ IsCompaction(es[k]) /\ es[k] \in Msg
           /\ \A i \in (k + 1)..Len(es) : IsMessage(es[i])
           /\ \E c \in 1..(k - 1) : SplitAt(es, k - 1, es[k], c) /\ FirstKept(es, k) \in 1..c
           /\ FirstKept(es, k) \in 1..(k - 1)
           /\ es[FirstKept(es, k)].id = es[k].first
           /\ SubSeq(es, FirstKept(es, k), k - 1) \in Seq(Msg)
           /\ KeptPart(es, k) \in Seq(Plain) /\ LaterPart(es, k) \in Seq(Plain)
           /\ BuildSessionContext(es) = (<<es[k]>> \o KeptPart(es, k)) \o LaterPart(es, k)
<1>1. /\ Len(es) \in Nat /\ k \in 1..Len(es) /\ IsCompaction(es[k])
      /\ \A i \in (k + 1)..Len(es) : IsMessage(es[i])
      /\ \A i \in 1..Len(es) : es[i] \in Msg
  BY LatestIndex, LenProperties
<1>2. PICK c \in 1..(k - 1) : SplitAt(es, k - 1, es[k], c)
  BY <1>1 DEF AllSplit, Splits
<1>3. k - 1 \in 0..Len(es)
  BY <1>1
<1>4. FirstKept(es, k) \in 1..c /\ es[FirstKept(es, k)].id = es[k].first
  BY <1>2, <1>3, KeptIndex
<1>5. FirstKept(es, k) \in 1..(k - 1)
  BY <1>1, <1>2, <1>4
<1>. DEFINE f == FirstKept(es, k)
            u == SubSeq(es, f, k - 1)
<1>6. u \in Seq(Msg)
  <2>1. f \in Int /\ k - 1 \in Int /\ \A i \in f..(k - 1) : i \in 1..Len(es)
    BY <1>1, <1>5
  <2>2. \A i \in f..(k - 1) : es[i] \in Msg
    BY <1>1, <2>1
  <2>. HIDE DEF f
  <2>. QED
    BY <2>1, <2>2, SubSeqProperties
<1>7. MessagesOf(u) = Among(u, Plain)
  BY <1>6, MessagesAmong
<1>8. Among(u, Plain) \in Seq(Plain)
  <2>1. Among(u, Plain) \in Seq(Msg \cap Plain)
    BY <1>6, AmongSeq
  <2>2. Msg \cap Plain = Plain
    BY DEF Plain
  <2>. QED
    BY <2>1, <2>2
<1>9. SubSeq(es, k + 1, Len(es)) \in Seq(Plain)
  <2>1. k + 1 \in Int /\ Len(es) \in Int /\ \A i \in (k + 1)..Len(es) : i \in 1..Len(es)
    BY <1>1
  <2>2. \A i \in (k + 1)..Len(es) : es[i] \in Plain
    BY <1>1, <2>1 DEF Plain
  <2>. QED
    BY <2>1, <2>2, SubSeqProperties
<1>10. BuildSessionContext(es) = <<es[k]>> \o MessagesOf(u) \o SubSeq(es, k + 1, Len(es))
  BY DEF BuildSessionContext
<1>. QED
  BY <1>1, <1>2, <1>4, <1>5, <1>6, <1>7, <1>8, <1>9, <1>10 DEF KeptPart, LaterPart

LEMMA BuiltWhole ==
    ASSUME NEW es \in Seq(Msg), LatestCompaction(es) = 0
    PROVE  BuildSessionContext(es) = es
BY DEF BuildSessionContext

LEMMA BuiltSeq ==
    ASSUME NEW es \in Seq(Msg), AllSplit(es)
    PROVE  BuildSessionContext(es) \in Seq(Msg)
<1>. DEFINE k == LatestCompaction(es)
<1>1. CASE k = 0
  BY <1>1, BuiltWhole
<1>2. CASE k # 0
  <2>1. /\ es[k] \in Msg /\ KeptPart(es, k) \in Seq(Plain) /\ LaterPart(es, k) \in Seq(Plain)
        /\ BuildSessionContext(es) = (<<es[k]>> \o KeptPart(es, k)) \o LaterPart(es, k)
    BY <1>2, BuiltParts
  <2>2. <<es[k]>> \in Seq(Msg) /\ KeptPart(es, k) \in Seq(Msg) /\ LaterPart(es, k) \in Seq(Msg)
    BY <2>1, PlainSeq
  <2>. HIDE DEF k
  <2>3. <<es[k]>> \o KeptPart(es, k) \in Seq(Msg)
    BY <2>2, ConcatProperties
  <2>. QED
    BY <2>1, <2>2, <2>3, ConcatProperties
<1>. QED
  BY <1>1, <1>2

LEMMA SubSeqEnd ==
    ASSUME NEW M, NEW s \in Seq(M), NEW t \in Seq(M), NEW n \in 1..(Len(s) + 1)
    PROVE  SubSeq(s \o t, n, Len(s \o t)) = SubSeq(s, n, Len(s)) \o t
<1>. DEFINE l == Len(s)
            u == SubSeq(s, n, l)
            v == s \o t
            w == SubSeq(v, n, Len(v))
<1>1. /\ l \in Nat /\ Len(t) \in Nat /\ v \in Seq(M) /\ Len(v) = l + Len(t)
      /\ \A i \in 1..(l + Len(t)) : v[i] = IF i <= l THEN s[i] ELSE t[i - l]
  BY ConcatProperties, LenProperties
<1>. HIDE DEF v, l
<1>2. n \in 1..(l + 1) /\ l \in (n - 1)..l
  BY <1>1 DEF l
<1>3. /\ u \in Seq(M) /\ Len(u) = l - n + 1
      /\ \A i \in 1..(l - n + 1) : u[i] = s[n + i - 1]
  BY <1>2, SubSeqIs DEF l
<1>4. /\ w \in Seq(M) /\ Len(w) = Len(v) - n + 1
      /\ \A i \in 1..(Len(v) - n + 1) : w[i] = v[n + i - 1]
  <2>1. n \in 1..(Len(v) + 1) /\ Len(v) \in (n - 1)..Len(v)
    BY <1>1, <1>2
  <2>. QED
    BY <1>1, <2>1, SubSeqIs
<1>. HIDE DEF u, w
<1>5. Len(u) = l - n + 1 /\ Len(w) = l + Len(t) - n + 1
  BY <1>1, <1>3, <1>4
<1>6. /\ u \o t \in Seq(M) /\ Len(u \o t) = Len(u) + Len(t)
      /\ \A i \in 1..(Len(u) + Len(t)) : (u \o t)[i] = IF i <= Len(u) THEN u[i] ELSE t[i - Len(u)]
  BY <1>3, ConcatProperties
<1>7. ASSUME NEW i \in 1..Len(w) PROVE w[i] = (u \o t)[i]
  <2>1. w[i] = v[n + i - 1] /\ n + i - 1 \in 1..(l + Len(t))
    BY <1>1, <1>4, <1>5
  <2>2. i \in 1..(Len(u) + Len(t))
    BY <1>1, <1>5
  <2>3. CASE i <= Len(u)
    <3>1. n + i - 1 <= l /\ i \in 1..(l - n + 1)
      BY <1>1, <1>5, <2>2, <2>3
    <3>. QED
      BY <1>1, <1>3, <1>6, <2>1, <2>2, <2>3, <3>1
  <2>4. CASE ~(i <= Len(u))
    <3>1. ~(n + i - 1 <= l) /\ n + i - 1 - l = i - Len(u)
      BY <1>1, <1>5, <2>2, <2>4
    <3>2. v[n + i - 1] = t[n + i - 1 - l]
      BY <1>1, <2>1, <3>1
    <3>3. (u \o t)[i] = t[i - Len(u)]
      BY <1>6, <2>2, <2>4
    <3>. QED
      BY <2>1, <3>1, <3>2, <3>3
  <2>. QED
    BY <2>3, <2>4
<1>8. Len(w) = Len(u \o t)
  BY <1>1, <1>5, <1>6
<1>9. w = u \o t
  BY <1>4, <1>6, <1>7, <1>8, SeqEqual
<1>. QED
  BY <1>9 DEF u, v, w, l

(* A message that is appended comes at the end of the context.             *)
LEMMA BuiltLonger ==
    ASSUME NEW es \in Seq(Msg), NEW t \in Seq(Plain), AllSplit(es)
    PROVE  /\ BuildSessionContext(es \o t) = BuildSessionContext(es) \o t
           /\ LatestCompaction(es \o t) = LatestCompaction(es)
<1>. DEFINE k == LatestCompaction(es)
            ls == es \o t
<1>1. t \in Seq(Msg) /\ ls \in Seq(Msg) /\ \A i \in 1..Len(t) : IsMessage(t[i])
  BY PlainSeq, ConcatProperties, LenProperties DEF Plain
<1>2. /\ Len(es) \in Nat /\ Len(t) \in Nat /\ Len(ls) = Len(es) + Len(t)
      /\ \A i \in 1..(Len(es) + Len(t)) :
            ls[i] = IF i <= Len(es) THEN es[i] ELSE t[i - Len(es)]
  BY <1>1, ConcatProperties, LenProperties
<1>. HIDE DEF ls
<1>3. ASSUME NEW n \in 0..Len(es), \A i \in (n + 1)..Len(es) : IsMessage(es[i])
      PROVE  \A i \in (n + 1)..Len(ls) : IsMessage(ls[i])
  <2>1. SUFFICES ASSUME NEW i \in (n + 1)..Len(ls) PROVE IsMessage(ls[i])
    OBVIOUS
  <2>2. CASE i <= Len(es)
    BY <1>2, <1>3, <2>2
  <2>3. CASE ~(i <= Len(es))
    <3>1. i - Len(es) \in 1..Len(t) /\ ls[i] = t[i - Len(es)]
      BY <1>2, <2>3
    <3>. QED
      BY <1>1, <3>1
  <2>. QED
    BY <2>2, <2>3
<1>4. CASE k = 0
  <2>1. \A i \in 1..Len(es) : IsMessage(es[i])
    BY <1>4, LatestIndex
  <2>2. \A i \in 1..Len(ls) : IsMessage(ls[i])
    BY <1>2, <1>3, <2>1
  <2>3. LatestCompaction(ls) = 0
    BY <1>1, <2>2, LatestNone
  <2>. QED
    BY <1>1, <1>4, <2>3, BuiltWhole DEF ls
<1>5. CASE k # 0
  <2>. DEFINE f == FirstKept(es, k)
              g == FirstKept(ls, k)
  <2>1. /\ k \in 1..Len(es) /\ IsCompaction(es[k]) /\ es[k] \in Msg
        /\ \A i \in (k + 1)..Len(es) : IsMessage(es[i])
        /\ f \in 1..(k - 1) /\ es[f].id = es[k].first
        /\ KeptPart(es, k) \in Seq(Plain) /\ LaterPart(es, k) \in Seq(Plain)
        /\ BuildSessionContext(es) = (<<es[k]>> \o KeptPart(es, k)) \o LaterPart(es, k)
    BY <1>5, BuiltParts
  <2>2. PICK c \in 1..(k - 1) : SplitAt(es, k - 1, es[k], c)
    BY <1>5, BuiltParts
  <2>. HIDE DEF k
  <2>3. k \in 1..Len(ls) /\ ls[k] = es[k] /\ \A i \in (k + 1)..Len(ls) : IsMessage(ls[i])
    <3>1. k \in 0..Len(es) /\ k \in 1..(Len(es) + Len(t)) /\ k <= Len(es)
      BY <1>2, <2>1
    <3>. QED
      BY <1>2, <1>3, <2>1, <3>1
  <2>4. LatestCompaction(ls) = k
    BY <1>1, <2>1, <2>3, LatestIs
  <2>5. AllSplit(ls)
    BY AllSplitLonger DEF ls
  <2>6. /\ g \in 1..(k - 1) /\ ls[g].id = ls[k].first
        /\ BuildSessionContext(ls) = (<<ls[k]>> \o KeptPart(ls, k)) \o LaterPart(ls, k)
    BY <1>1, <1>5, <2>4, <2>5, BuiltParts
  <2>7. f = g
    <3>1. k - 1 \in 0..Len(es) /\ k - 1 \in 0..Len(ls)
      BY <1>2, <2>1
    <3>2. \A i \in 1..Len(es) : es[i].id = es[k].first => f <= i
      BY <2>2, <3>1, KeptIndex
    <3>3. g \in 1..Len(es) /\ es[g].id = es[k].first
      BY <1>2, <2>1, <2>3, <2>6
    <3>4. PICK d \in 1..(k - 1) : SplitAt(ls, k - 1, ls[k], d)
      BY <1>1, <1>5, <2>4, <2>5, BuiltParts
    <3>5. \A i \in 1..Len(ls) : ls[i].id = ls[k].first => g <= i
      BY <1>1, <3>1, <3>4, KeptIndex
    <3>6. f \in 1..Len(ls) /\ ls[f].id = ls[k].first
      <4>. HIDE DEF f
      <4>1. f \in 1..(Len(es) + Len(t)) /\ f <= Len(es)
        BY <1>2, <2>1
      <4>. QED
        BY <1>2, <2>1, <2>3, <4>1
    <3>7. f <= g /\ g <= f
      BY <3>2, <3>3, <3>5, <3>6
    <3>. HIDE DEF f, g
    <3>. QED
      BY <1>2, <2>1, <2>6, <3>7
  <2>8. SubSeq(ls, f, k - 1) = SubSeq(es, f, k - 1)
    <3>1. f \in 1..Len(es) /\ k - 1 \in 1..Len(es)
      BY <1>2, <2>1
    <3>. HIDE DEF f
    <3>. QED
      BY <1>1, <3>1, SubSeqOfConcat1 DEF ls
  <2>9. KeptPart(ls, k) = KeptPart(es, k)
    BY <2>7, <2>8 DEF KeptPart
  <2>10. LaterPart(ls, k) = LaterPart(es, k) \o t
    <3>1. k + 1 \in 1..(Len(es) + 1)
      BY <1>2, <2>1
    <3>. QED
      BY <1>1, <3>1, SubSeqEnd DEF LaterPart, ls
  <2>11. <<es[k]>> \o KeptPart(es, k) \in Seq(Msg) /\ LaterPart(es, k) \in Seq(Msg)
    BY <2>1, PlainSeq, ConcatProperties
  <2>12. BuildSessionContext(ls) = ((<<es[k]>> \o KeptPart(es, k)) \o LaterPart(es, k)) \o t
    <3>1. \A x, y \in Seq(Msg) : (x \o y) \o t = x \o (y \o t)
      BY <1>1, ConcatAssociative
    <3>. QED
      BY <2>3, <2>6, <2>9, <2>10, <2>11, <3>1
  <2>. QED
    BY <2>1, <2>4, <2>12 DEF ls, k
<1>. QED
  BY <1>4, <1>5

-----------------------------------------------------------------------------
(* prepareCompaction: what it returns splits the session.                  *)

(* The entries, split where the context built from them begins to be kept. *)
KeptRaw(es, k) == SubSeq(es, FirstKept(es, k), k - 1)

LEMMA EntriesParts ==
    ASSUME NEW es \in Seq(Msg), AllSplit(es), NEW k, k = LatestCompaction(es), k # 0
    PROVE  /\ KeptRaw(es, k) \in Seq(Msg) /\ es[k] \in Msg
           /\ \E a \in Seq(Msg) : es = ((a \o KeptRaw(es, k)) \o <<es[k]>>) \o LaterPart(es, k)
<1>. DEFINE f == FirstKept(es, k)
            a == SubSeq(es, 1, f - 1)
<1>1. /\ k \in 1..Len(es) /\ es[k] \in Msg /\ f \in 1..(k - 1)
      /\ SubSeq(es, f, k - 1) \in Seq(Msg)
  BY BuiltParts
<1>. HIDE DEF f
<1>2. Len(es) \in Nat /\ k \in Nat /\ f \in Nat
  BY <1>1, LenProperties
<1>3. /\ 1 \in 1..(Len(es) + 1) /\ f - 1 \in (1 - 1)..Len(es) /\ k - 1 \in (f - 1)..Len(es)
      /\ k \in (1 - 1)..Len(es) /\ Len(es) \in k..Len(es) /\ (f - 1) + 1 = f
      /\ 1 \in 1..Len(es) /\ k \in 1..Len(es)
  BY <1>1, <1>2
<1>4. a \in Seq(Msg)
  BY <1>3, SubSeqIs
<1>5. a \o SubSeq(es, (f - 1) + 1, k - 1) = SubSeq(es, 1, k - 1)
  BY <1>3, ConcatAdjacentSubSeq
<1>6. SubSeq(es, 1, k) = SubSeq(es, 1, k - 1) \o <<es[k]>>
  BY <1>3, SubSeqRecursiveSecond
<1>7. SubSeq(es, 1, k) \o SubSeq(es, k + 1, Len(es)) = SubSeq(es, 1, Len(es))
  BY <1>3, ConcatAdjacentSubSeq
<1>8. SubSeq(es, 1, Len(es)) = es
  BY SubSeqFull
<1>9. es = ((a \o SubSeq(es, f, k - 1)) \o <<es[k]>>) \o SubSeq(es, k + 1, Len(es))
  BY <1>3, <1>5, <1>6, <1>7, <1>8
<1>. HIDE DEF a
<1>. QED
  BY <1>1, <1>4, <1>9 DEF KeptRaw, LaterPart, f

(* The last answer of the context is that of the session.                  *)
LEMMA BuiltAnswer ==
    ASSUME NEW es \in Seq(Msg), AllSplit(es), LastAnswer(BuildSessionContext(es)) # {}
    PROVE  LastAnswer(BuildSessionContext(es)) = LastAnswer(es)
<1>. DEFINE k == LatestCompaction(es)
<1>1. CASE k = 0
  BY <1>1, BuiltWhole
<1>2. CASE k # 0
  <2>. DEFINE u == KeptRaw(es, k)
              w == LaterPart(es, k)
              c == <<es[k]>>
              g == KeptPart(es, k)
  <2>1. /\ IsCompaction(es[k]) /\ es[k] \in Msg /\ g = Among(u, Plain)
        /\ g \in Seq(Msg) /\ w \in Seq(Msg) /\ u \in Seq(Msg)
        /\ BuildSessionContext(es) = (c \o g) \o w
    BY <1>2, BuiltParts, PlainSeq DEF KeptPart, KeptRaw
  <2>2. PICK a \in Seq(Msg) : es = ((a \o u) \o c) \o w
    BY <1>2, EntriesParts
  <2>3. c \in Seq(Msg) /\ LastAnswer(c) = {}
    <3>1. ~IsAssistant(es[k])
      BY <2>1 DEF IsCompaction, IsAssistant
    <3>2. Append(<<>>, es[k]) = c /\ <<>> \in Seq(Msg)
      OBVIOUS
    <3>3. LastAnswer(Append(<<>>, es[k])) = LastAnswer(<<>>)
      BY <2>1, <3>1, <3>2, AnswerAppend
    <3>4. c \in Seq(Msg)
      BY <2>1
    <3>. HIDE DEF c
    <3>. QED
      BY <3>2, <3>3, <3>4, AnswerNone
  <2>4. LastAnswer(g) = LastAnswer(u)
    <3>1. \A m \in Msg : IsAssistant(m) => m \in Plain
      BY DEF Plain, IsAssistant, IsMessage, IsCompaction
    <3>. QED
      BY <2>1, <3>1, AnswerAmong
  <2>. HIDE DEF k, u, w, c, g
  <2>5. /\ c \o g \in Seq(Msg) /\ a \o u \in Seq(Msg) /\ (a \o u) \o c \in Seq(Msg)
    BY <2>1, <2>3, ConcatProperties
  <2>6. \A s, t \in Seq(Msg) :
          LastAnswer(s \o t) = IF LastAnswer(t) = {} THEN LastAnswer(s) ELSE LastAnswer(t)
    BY AnswerConcat
  <2>7. LastAnswer((c \o g) \o w) = IF LastAnswer(w) = {} THEN LastAnswer(g) ELSE LastAnswer(w)
    BY <2>1, <2>3, <2>5, <2>6
  <2>8. LastAnswer(((a \o u) \o c) \o w) =
          IF LastAnswer(w) = {} THEN LastAnswer(a \o u) ELSE LastAnswer(w)
    <3>1. LastAnswer((a \o u) \o c) = LastAnswer(a \o u)
      BY <2>3, <2>5, <2>6
    <3>. QED
      BY <2>1, <2>5, <2>6, <3>1
  <2>9. LastAnswer(a \o u) = IF LastAnswer(u) = {} THEN LastAnswer(a) ELSE LastAnswer(u)
    BY <2>1, <2>6
  <2>. QED
    BY <2>1, <2>2, <2>4, <2>7, <2>8, <2>9
<1>. QED
  BY <1>1, <1>2

Preps == [first : Nat, covers : SUBSET Nat, noHistory : BOOLEAN]

LEMMA MovedBackIs ==
    ASSUME NEW es, NEW start \in Nat, NEW i \in Nat, start <= i, NEW c, c = MovedBack(es, start, i)
    PROVE  c \in start..i /\ \A j \in c..(i - 1) : es[j].role = "custom"
<1>. DEFINE S == {d \in start..i : \A j \in d..(i - 1) : es[j].role = "custom"}
<1>1. i \in S
  OBVIOUS
<1>2. PICK d \in S : \A e \in S : d <= e
  <2>1. S \in SUBSET Nat
    OBVIOUS
  <2>. HIDE DEF S
  <2>. QED
    BY <1>1, <2>1, LeastNumber
<1>3. d \in start..i /\ \A j \in d..(i - 1) : es[j].role = "custom"
  BY <1>2
<1>4. ASSUME d > start PROVE es[d - 1].role # "custom"
  <2>1. SUFFICES ASSUME es[d - 1].role = "custom" PROVE FALSE
    OBVIOUS
  <2>2. /\ d - 1 \in start..i /\ ~(d <= d - 1)
        /\ \A j \in (d - 1)..(i - 1) : j = d - 1 \/ j \in d..(i - 1)
    BY <1>3, <1>4
  <2>3. d - 1 \in S
    BY <1>3, <2>1, <2>2
  <2>. HIDE DEF S
  <2>. QED
    BY <1>2, <2>2, <2>3
<1>. QED
  BY <1>3, <1>4 DEF MovedBack

LEMMA PreparationSplits ==
    ASSUME NEW es \in Seq(Msg), AllSplit(es), NEW p \in Preparations(es)
    PROVE  /\ p \in Preps /\ Splits(es, Len(es), p)
           /\ es # <<>> /\ IsMessage(Last(es))
<1>. DEFINE k == LatestCompaction(es)
            start == BoundaryStart(es, k)
<1>1. k # Len(es) /\ \E i \in Cuts(es, start) : p = Preparation(es, k, start, MovedBack(es, start, i))
  BY DEF Preparations
<1>2. PICK i \in Cuts(es, start) : p = Preparation(es, k, start, MovedBack(es, start, i))
  BY <1>1
<1>. DEFINE c == MovedBack(es, start, i)
            Summarized == {es[j].id : j \in {l \in start..(c - 1) : IsMessage(es[l])}}
<1>3. Len(es) \in Nat /\ \A j \in 1..Len(es) : es[j] \in Msg
  BY LenProperties
<1>4. /\ k = 0 => start = 1 /\ \A j \in 1..Len(es) : IsMessage(es[j])
      /\ k # 0 => /\ k \in 1..Len(es) /\ es[k] \in Msg
                  /\ \A j \in (k + 1)..Len(es) : IsMessage(es[j])
                  /\ start = FirstKept(es, k)
                  /\ \E d \in 1..(k - 1) : SplitAt(es, k - 1, es[k], d) /\ start \in 1..d
  <2>1. ASSUME k = 0 PROVE start = 1 /\ \A j \in 1..Len(es) : IsMessage(es[j])
    BY <2>1, LatestIndex DEF BoundaryStart
  <2>2. ASSUME k # 0
        PROVE  /\ k \in 1..Len(es) /\ es[k] \in Msg
               /\ \A j \in (k + 1)..Len(es) : IsMessage(es[j])
               /\ start = FirstKept(es, k)
               /\ \E d \in 1..(k - 1) : SplitAt(es, k - 1, es[k], d) /\ start \in 1..d
    <3>1. start = FirstKept(es, k)
      BY <2>2 DEF BoundaryStart
    <3>2. /\ k \in 1..Len(es) /\ es[k] \in Msg
          /\ \A j \in (k + 1)..Len(es) : IsMessage(es[j])
          /\ \E d \in 1..(k - 1) : SplitAt(es, k - 1, es[k], d) /\ FirstKept(es, k) \in 1..d
      BY <2>2, BuiltParts
    <3>. HIDE DEF k
    <3>. QED
      BY <3>1, <3>2
  <2>. QED
    BY <2>1, <2>2
<1>5. i \in start..Len(es) /\ es[i].role \notin {"toolResult", "compaction"}
  BY DEF Cuts, CutPoints
<1>. HIDE DEF k, start
<1>6. start \in Nat /\ start >= 1
  BY <1>4
<1>7. i \in 1..Len(es) /\ start <= i /\ i \in Nat
  BY <1>3, <1>5, <1>6
<1>8. c \in start..i /\ \A j \in c..(i - 1) : es[j].role = "custom"
  BY <1>6, <1>7, MovedBackIs
<1>. HIDE DEF c
<1>9. c \in 1..Len(es) /\ es[c] \in Msg
  BY <1>3, <1>6, <1>7, <1>8
<1>10. es[c].role \notin {"toolResult", "compaction"}
  <2>1. CASE c = i
    BY <1>5, <2>1
  <2>2. CASE c # i
    <3>1. c \in c..(i - 1)
      BY <1>7, <1>8, <1>9, <2>2
    <3>. QED
      BY <1>8, <3>1
  <2>. QED
    BY <2>1, <2>2
<1>11. /\ p = [first     |-> es[c].id,
                noHistory |-> NoHistory(es, start, c),
                covers    |-> Summarized \cup (IF k = 0 \/ NoHistory(es, start, c) THEN {}
                                               ELSE es[k].covers)]
       /\ NoHistory(es, start, c) \in BOOLEAN
  BY <1>2 DEF c, Preparation, NoHistory
<1>12. ASSUME NEW j \in 1..(c - 1), IsMessage(es[j]) PROVE Accounted(es, Len(es), p, es[j].id)
  <2>1. CASE j >= start
    <3>1. j \in start..(c - 1)
      BY <1>6, <1>9, <2>1
    <3>2. es[j].id \in p.covers
      BY <1>11, <1>12, <3>1
    <3>. QED
      BY <3>2 DEF Accounted
  <2>2. CASE ~(j >= start)
    <3>1. k # 0
      BY <1>4, <1>9, <2>2
    <3>2. PICK d \in 1..(k - 1) : SplitAt(es, k - 1, es[k], d) /\ start \in 1..d
      BY <1>4, <3>1
    <3>3. k \in Nat /\ d \in Nat
      BY <1>3, <1>4, <3>1
    <3>4. j \in 1..(d - 1)
      BY <1>9, <2>2, <3>2, <3>3
    <3>5. Accounted(es, k - 1, es[k], es[j].id)
      BY <1>12, <3>2, <3>4 DEF SplitAt
    <3>6. CASE es[j].id \in es[k].covers
      <4>1. es[j].id \in p.covers \/ p.noHistory
        BY <1>11, <3>1, <3>6
      <4>. QED
        BY <1>4, <3>1, <3>6, <4>1 DEF Accounted
    <3>7. CASE ~(es[j].id \in es[k].covers)
      <4>1. PICK e \in 1..(k - 1) :
               /\ es[j].id \in es[e].covers
               /\ es[k].noHistory \/ \E l \in (e + 1)..(k - 1) : es[l].noHistory
        BY <3>5, <3>7 DEF Accounted
      <4>2. e \in 1..Len(es) /\ \A l \in (e + 1)..(k - 1) : l \in (e + 1)..Len(es)
        BY <1>3, <1>4, <3>1
      <4>3. k \in (e + 1)..Len(es)
        BY <1>3, <1>4, <3>1, <4>1
      <4>. QED
        BY <4>1, <4>2, <4>3 DEF Accounted
    <3>. QED
      BY <3>6, <3>7
  <2>. QED
    BY <2>1, <2>2
<1>13. Splits(es, Len(es), p)
  <2>1. SplitAt(es, Len(es), p, c)
    BY <1>9, <1>10, <1>11, <1>12 DEF SplitAt, IsMessage, IsCompaction
  <2>. QED
    BY <1>9, <2>1 DEF Splits
<1>14. p \in Preps
  <2>1. \A j \in start..(c - 1) : j \in 1..Len(es)
    BY <1>3, <1>6, <1>9
  <2>2. Summarized \subseteq Nat
    BY <1>3, <2>1 DEF Msg, Records
  <2>3. k # 0 => es[k].covers \subseteq Nat
    BY <1>4 DEF Msg, Records
  <2>4. es[c].id \in Nat
    BY <1>9 DEF Msg, Records
  <2>. HIDE DEF Summarized
  <2>. QED
    BY <1>11, <2>2, <2>3, <2>4 DEF Preps
<1>15. es # <<>> /\ IsMessage(Last(es))
  <2>1. Len(es) \in 1..Len(es) /\ es # <<>>
    BY <1>3, <1>7, EmptySeq
  <2>2. IsMessage(es[Len(es)])
    BY <1>1, <1>3, <1>4, <2>1 DEF k
  <2>. QED
    BY <2>1, <2>2 DEF Last
<1>. QED
  BY <1>13, <1>14, <1>15

-----------------------------------------------------------------------------
(* Types, and where the loops and the operations may be.                   *)

Given == {m \in Msg : m.role \in {"user", "custom"}}
Bash  == {m \in Msg : m.role = "bash"}

TextTypes ==
    /\ messages \in Seq(Msg) /\ entries \in Seq(Msg) /\ AllSplit(entries)
    /\ pendingBashMessages \in Seq(Bash) /\ lastId \in Nat
Words   == Texts \cup {""}
Held(M) == {q \in Seq(M) : Len(q) <= 1}

WaitingTypes ==
    /\ pending \in Held(Given) /\ writing \in Held(Plain)
    /\ steeringQueue \in Seq(Given) /\ followUpQueue \in Seq(Given)
    /\ steeringMessages \in Seq(Texts) /\ followUpMessages \in Seq(Texts)
    /\ unlisted \subseteq Words
RunTypes ==
    /\ lastAssistantMessage \in Held(Plain) /\ retryAttempt \in 0..MaxRetries
    /\ overflowRecoveryAttempted \in BOOLEAN /\ cancelledAt \in Nat
    /\ heard \in BOOLEAN /\ firstPoll \in BOOLEAN /\ aborted \in BOOLEAN
PrepTypes ==
    /\ prepared \in Held(Preps) /\ manualPrepared \in Held(Preps)
    /\ prepared # <<>> => Splits(entries, Len(entries), prepared[1])
    /\ manualPrepared # <<>> => Splits(entries, Len(entries), manualPrepared[1])
Places ==
    /\ phase \in {"idle", "poll", "deliver", "writing", "call", "tool", "end"}
    /\ pc \in {"idle", "checking", "hook", "run", "ran", "sleep", "cancelled",
               "compacting", "compacted", "continue"}
    /\ phase # "idle" <=> pc = "run"
    /\ phase = "deliver" <=> pending # <<>>
    /\ phase = "writing" <=> writing # <<>>
    /\ stage \in {"check", "before", "main"} /\ reason \in {"none", "overflow", "threshold"}
    /\ manual \in {"none", "waiting", "ready", "summarizing", "saved"}
    /\ manual = "none" <=> connected = TRUE
    /\ connected \in BOOLEAN
    /\ manual = "summarizing" <=> manualPrepared # <<>>
    /\ prepared # <<>> => pc = "compacting"

TypeInv == TextTypes /\ WaitingTypes /\ RunTypes /\ PrepTypes /\ Places

LEMMA HeldIs ==
    ASSUME NEW M
    PROVE  /\ <<>> \in Held(M) /\ \A m \in M : <<m>> \in Held(M) /\ <<m>> # <<>>
           /\ \A q \in Held(M) :
                q # <<>> => /\ q[1] \in M /\ Head(q) = q[1] /\ q = <<q[1]>>
                            /\ Tail(q) = <<>> /\ Len(q) = 1
<1>1. <<>> \in Held(M) /\ \A m \in M : <<m>> \in Held(M) /\ <<m>> # <<>>
  BY EmptySeq DEF Held
<1>2. ASSUME NEW q \in Held(M), q # <<>>
      PROVE  q[1] \in M /\ Head(q) = q[1] /\ q = <<q[1]>> /\ Tail(q) = <<>> /\ Len(q) = 1
  <2>1. q \in Seq(M) /\ Len(q) \in Nat /\ Len(q) <= 1
    BY LenProperties DEF Held
  <2>2. Len(q) = 1
    <3>1. Len(q) # 0
      BY <1>2, <2>1, EmptySeq
    <3>2. \A n \in Nat : n <= 1 /\ n # 0 => n = 1
      OBVIOUS
    <3>. HIDE DEF Held
    <3>. QED
      BY <2>1, <3>1, <3>2
  <2>3. q[1] \in M /\ Head(q) = q[1]
    BY <2>1, <2>2, LenProperties, HeadTailProperties, <1>2
  <2>4. <<q[1]>> \in Seq(M) /\ Len(<<q[1]>>) = 1 /\ <<q[1]>>[1] = q[1]
    BY <2>3
  <2>5. q = <<q[1]>>
    <3>1. \A i \in 1..Len(q) : q[i] = <<q[1]>>[i]
      BY <2>2, <2>4
    <3>. QED
      BY <2>1, <2>2, <2>4, <3>1, SeqEqual
  <2>6. Tail(q) \in Seq(M) /\ Len(Tail(q)) = 0
    BY <1>2, <2>1, <2>2, HeadTailProperties
  <2>7. Tail(q) = <<>>
    BY <2>6, EmptySeq
  <2>. QED
    BY <2>2, <2>3, <2>5, <2>7
<1>. QED
  BY <1>1, <1>2

(* What a step does to the conversation: nothing; a message is said; its   *)
(* listeners have returned; results that waited are added; an answer is    *)
(* taken back; something is recorded; a result waits; or what was prepared *)
(* is compacted.                                                           *)
textVars == <<messages, entries, pendingBashMessages>>
Silent == UNCHANGED textVars /\ UNCHANGED <<writing, heard>>
Says(m) ==
    /\ m \in Plain /\ phase # "writing" /\ phase' = "writing"
    /\ writing' = <<m>> /\ heard' = connected
    /\ messages' = Append(messages, m) /\ UNCHANGED <<entries, pendingBashMessages>>
Hears ==
    /\ phase = "writing" /\ phase' # "writing" /\ writing' = <<>> /\ UNCHANGED heard
    /\ entries' = IF heard THEN Append(entries, writing[1]) ELSE entries
    /\ UNCHANGED <<messages, pendingBashMessages>>
Flushes == phase = "idle" /\ Flush /\ UNCHANGED <<writing, heard, lastId>>
Takes ==
    /\ phase = "idle" /\ messages' = WithoutLastAssistant
    /\ UNCHANGED <<entries, pendingBashMessages, writing, heard, lastId>>
Recording(m) ==
    /\ phase = "idle" /\ m \in Plain /\ m.role \in {"custom", "bash"}
    /\ m.id = lastId + 1 /\ lastId' = lastId + 1
    /\ Recorded(m) /\ UNCHANGED <<pendingBashMessages, writing, heard>>
Waits(m) ==
    /\ m \in Bash /\ m.id = lastId + 1 /\ lastId' = lastId + 1
    /\ pendingBashMessages' = Append(pendingBashMessages, m)
    /\ UNCHANGED <<messages, entries, writing, heard>>
Compacts(p) ==
    /\ p \in Preps /\ Splits(entries, Len(entries), p)
    /\ Compacted(p) /\ UNCHANGED <<pendingBashMessages, writing, heard>>

LEMMA MadeTypes ==
    ASSUME lastId \in Nat
    PROVE  /\ Made("user", "") \in Given /\ Made("custom", "") \in Given
           /\ \A text \in Texts : /\ Written(text) \in Given /\ Written(text).role = "user"
                                  /\ Written(text).id = lastId + 1
                                  /\ Written(text).text = text
           /\ Made("toolResult", "") \in Plain /\ Made("bash", "") \in Bash
           /\ \A k \in Kinds : Made("assistant", k) \in Plain
<1>1. lastId + 1 \in Nat /\ 0 \in Nat
  OBVIOUS
<1>2. ASSUME NEW r \in Roles, NEW k \in Kinds \cup {""}, r = "assistant" <=> k # ""
      PROVE  Made(r, k) \in Msg /\ Made(r, k).role = r
  <2>1. Made(r, k) \in Records
    BY <1>1 DEF Made, Records
  <2>2. Made(r, k).role = r /\ Made(r, k).kind = k
    BY DEF Made
  <2>. QED
    BY <1>2, <2>1, <2>2 DEF Msg
<1>3. /\ "user" \in Roles /\ "custom" \in Roles /\ "toolResult" \in Roles
      /\ "bash" \in Roles /\ "assistant" \in Roles
  BY DEF Roles
<1>4. "" \notin Kinds
  BY DEF Kinds, ReplyKinds
<1>5. ASSUME NEW r \in Roles \ {"assistant"}
      PROVE  Made(r, "") \in Msg /\ Made(r, "").role = r
  BY <1>2
<1>6. ASSUME NEW k \in Kinds
      PROVE  Made("assistant", k) \in Msg /\ Made("assistant", k).role = "assistant"
  BY <1>2, <1>3, <1>4
<1>7. \A k \in Kinds : Made("assistant", k) \in Plain
  BY <1>6 DEF Plain, IsMessage, IsCompaction
<1>8. ASSUME NEW text \in Texts
      PROVE  /\ Written(text) \in Given /\ Written(text).role = "user"
             /\ Written(text).id = lastId + 1 /\ Written(text).text = text
  <2>. DEFINE n == Made("user", "")
              m == [n EXCEPT !.text = text]
  <2>1. n \in Records /\ n.role = "user" /\ n.kind = "" /\ n.id = lastId + 1
    BY <1>1, <1>3 DEF Made, Records
  <2>. HIDE DEF n
  <2>2. /\ m.role = "user" /\ m.kind = "" /\ m.id = lastId + 1 /\ m.text = text
        /\ m \in Records
    BY <2>1 DEF Records
  <2>3. Written(text) = m
    BY DEF Written, n
  <2>. HIDE DEF m
  <2>4. m \in Given
    BY <2>2 DEF Given, Msg
  <2>. QED
    BY <2>2, <2>3, <2>4
<1>. QED
  BY <1>3, <1>5, <1>7, <1>8 DEF Given, Plain, Bash, IsMessage, IsCompaction

(* What is said of a message is the message without its text.              *)
LEMMA SaidIs ==
    ASSUME NEW m \in Given
    PROVE  /\ Said(m) \in Given /\ Said(m).role = m.role /\ Said(m).kind = m.kind
           /\ Said(m).id = m.id
<1>1. m \in Msg /\ m \in Records
  BY DEF Given, Msg
<1>2. Said(m) \in Records /\ Said(m).role = m.role /\ Said(m).kind = m.kind /\ Said(m).id = m.id
  BY <1>1 DEF Said, Records
<1>. QED
  BY <1>1, <1>2 DEF Given, Msg

LEMMA GivenPlain == Given \subseteq Plain /\ Bash \subseteq Plain /\ Plain \subseteq Msg
BY DEF Given, Bash, Plain, IsMessage, IsCompaction

LEMMA FinishedSays ==
    ASSUME phase # "writing", NEW m \in Plain, Finished(m)
    PROVE  Says(m)
BY DEF Finished, Says

LEMMA AgentText ==
    ASSUME TypeInv, AgentStep
    PROVE  Silent \/ Hears \/ \E m \in Plain : Says(m)
<1>1. lastId \in Nat /\ pending \in Held(Given)
  BY DEF TypeInv, TextTypes, WaitingTypes
<1>2. CASE Deliver
  <2>1. pending # <<>>
    BY <1>2 DEF Deliver, TypeInv, Places
  <2>2. Said(Head(pending)) \in Plain
    BY <1>1, <2>1, HeldIs, GivenPlain, SaidIs
  <2>. QED
    BY <1>2, <2>2, FinishedSays DEF Deliver
<1>3. CASE ToolEnds
  BY <1>1, <1>3, MadeTypes, FinishedSays DEF ToolEnds
<1>4. ASSUME NEW k \in ReplyKinds \cup {"aborted"}, Respond(k)
      PROVE  \E m \in Plain : Says(m)
  BY <1>1, <1>4, MadeTypes, FinishedSays DEF Respond, Kinds
<1>5. CASE MessagePersisted
  <2>1. phase' # "writing"
    BY <1>5 DEF MessagePersisted, AfterMessage, Poll, GoTo, TakeSteering, TakeFollowUp
  <2>. QED
    BY <1>5, <2>1 DEF MessagePersisted, Hears, Persisted
<1>6. CASE FirstPoll \/ FinishRun
  BY <1>6 DEF FirstPoll, FinishRun, Silent, textVars
<1>. QED
  BY <1>2, <1>3, <1>4, <1>5, <1>6 DEF AgentStep

LEMMA NothingText == ASSUME NothingToContinue PROVE Flush \/ UNCHANGED textVars
BY DEF NothingToContinue, LoopEnds, textVars

LEMMA CheckText ==
    ASSUME NEW m, CheckCompaction(m)
    PROVE  \/ Flush \/ UNCHANGED textVars
           \/ messages' = WithoutLastAssistant /\ UNCHANGED <<entries, pendingBashMessages>>
BY NothingText DEF CheckCompaction, textVars

LEMMA PromptText ==
    ASSUME TypeInv, PromptStep \/ Prompt
    PROVE  Silent \/ Flushes \/ Takes \/ \E p \in Preps : Compacts(p)
<1>1. phase = "idle"
  BY DEF TypeInv, Places, PromptStep, Prompt, CheckBeforePrompt, HandlePostAgentRun, Cancelled,
         Continue, ContinueRefused, Slept, CompactionFails, CompactionSaved, CompactionEnds,
         RunPrompt
<1>2. CASE CheckBeforePrompt
  BY <1>2, <1>1, NothingText, CheckText
  DEF CheckBeforePrompt, agentVars, Silent, textVars, Flushes, Takes
<1>3. CASE HandlePostAgentRun
  <2>1. UNCHANGED <<writing, heard, lastId>>
    BY <1>3 DEF HandlePostAgentRun, agentVars
  <2>2. \/ Flush \/ UNCHANGED textVars
        \/ messages' = WithoutLastAssistant /\ UNCHANGED <<entries, pendingBashMessages>>
    BY <1>3, CheckText DEF HandlePostAgentRun, LoopEnds, WaitForRetry, GiveUp
  <2>. QED
    BY <1>1, <2>1, <2>2 DEF Silent, Flushes, Takes
<1>4. CASE Cancelled
  BY <1>4, <1>1, CheckText DEF Cancelled, agentVars, Silent, textVars, Flushes, Takes
<1>5. CASE Continue
  BY <1>5 DEF Continue, StartRun, Silent, textVars
<1>6. CASE ContinueRefused \/ Prompt
  BY <1>6, <1>1 DEF ContinueRefused, Prompt, Flushes, agentVars
<1>7. CASE Slept \/ RunPrompt
  BY <1>7 DEF Slept, RunPrompt, StartRun, Silent, textVars, agentVars
<1>8. CASE CompactionFails
  BY <1>8, <1>1, NothingText DEF CompactionFails, Silent, textVars, Flushes, agentVars
<1>9. CASE CompactionSaved
  <2>1. prepared \in Held(Preps) /\ prepared # <<>>
        /\ Splits(entries, Len(entries), prepared[1])
    BY <1>9 DEF CompactionSaved, TypeInv, PrepTypes
  <2>2. prepared[1] \in Preps
    BY <2>1, HeldIs
  <2>. QED
    BY <1>9, <2>1, <2>2 DEF CompactionSaved, Compacts, agentVars
<1>10. CASE CompactionEnds
  <2>1. UNCHANGED <<writing, heard, lastId>>
    BY <1>10 DEF CompactionEnds, agentVars
  <2>2. \/ Flush \/ UNCHANGED textVars
        \/ messages' = WithoutLastAssistant /\ UNCHANGED <<entries, pendingBashMessages>>
    BY <1>10, NothingText DEF CompactionEnds, textVars
  <2>. QED
    BY <1>1, <2>1, <2>2 DEF Silent, Flushes, Takes
<1>. QED
  BY <1>2, <1>3, <1>4, <1>5, <1>6, <1>7, <1>8, <1>9, <1>10 DEF PromptStep

LEMMA ApplicationCustom ==
    ASSUME TypeInv, sendCustomMessage
    PROVE  Silent \/ \E m \in Plain : Recording(m)
<1>1. lastId \in Nat
  BY DEF TypeInv, TextTypes
<1>2. /\ Made("custom", "") \in Plain /\ Made("custom", "").id = lastId + 1
      /\ Made("custom", "").role = "custom"
  BY <1>1, MadeTypes, GivenPlain DEF Made
<1>. QED
  BY <1>2 DEF sendCustomMessage, agentVars, isStreaming, Recording, Silent, textVars

LEMMA ApplicationBash ==
    ASSUME TypeInv, recordBashResult
    PROVE  (\E m \in Plain : Recording(m)) \/ \E n \in Bash : Waits(n)
<1>1. lastId \in Nat
  BY DEF TypeInv, TextTypes
<1>2. /\ Made("bash", "") \in Bash /\ Made("bash", "") \in Plain
      /\ Made("bash", "").id = lastId + 1 /\ Made("bash", "").role = "bash"
  BY <1>1, MadeTypes, GivenPlain DEF Made
<1>. QED
  BY <1>2 DEF recordBashResult, agentVars, isStreaming, Recording, Waits

LEMMA ApplicationText ==
    ASSUME TypeInv, Application \/ compact \/ CompactStep
    PROVE  \/ Silent \/ \E m \in Plain : Recording(m)
           \/ \E n \in Bash : Waits(n)
           \/ \E p \in Preps : Compacts(p)
<1>1. CASE steer \/ followUp \/ clearQueue \/ abortRetry \/ abort \/ abortCompaction \/ compact
  BY <1>1 DEF steer, followUp, clearQueue, abortRetry, abort, abortCompaction, compact, agentVars,
              Silent, textVars
<1>2. CASE sendCustomMessage \/ recordBashResult
  BY <1>2, ApplicationCustom, ApplicationBash
<1>3. CASE ManualPrepare \/ ManualFails \/ ManualEnds
  BY <1>3 DEF ManualPrepare, ManualFails, ManualEnds, Silent, textVars, agentVars
<1>4. CASE ManualSaved
  <2>1. manualPrepared \in Held(Preps) /\ manualPrepared # <<>>
        /\ Splits(entries, Len(entries), manualPrepared[1])
    BY <1>4 DEF ManualSaved, TypeInv, PrepTypes, Places
  <2>2. manualPrepared[1] \in Preps
    BY <2>1, HeldIs
  <2>. QED
    BY <1>4, <2>1, <2>2 DEF ManualSaved, Compacts, agentVars
<1>. QED
  BY <1>1, <1>2, <1>3, <1>4 DEF Application, CompactStep

(* What a step does to the conversation.                                   *)
TextStep ==
    \/ Silent \/ Hears \/ Flushes \/ Takes
    \/ \E m \in Plain : Says(m) \/ Recording(m)
    \/ \E n \in Bash : Waits(n)
    \/ \E p \in Preps : Compacts(p)

LEMMA NextText == ASSUME TypeInv, [Next]_vars PROVE TextStep
<1>1. CASE UNCHANGED vars
  BY <1>1 DEF vars, agentVars, TextStep, Silent, textVars
<1>2. CASE Next
  BY <1>2, AgentText, PromptText, ApplicationText DEF Next, TextStep
<1>. QED
  BY <1>1, <1>2

LEMMA CounterGrows ==
    ASSUME [Next]_vars PROVE lastId' = lastId \/ lastId' = lastId + 1
<1>1. CASE UNCHANGED vars
  BY <1>1 DEF vars
<1>2. CASE AgentStep
  BY <1>2 DEF AgentStep, Deliver, ToolEnds, MessagePersisted, FirstPoll, FinishRun, Respond
<1>3. CASE PromptStep \/ Prompt
  BY <1>3 DEF PromptStep, Prompt, CheckBeforePrompt, HandlePostAgentRun, Cancelled, Continue,
              ContinueRefused, Slept, CompactionFails, CompactionSaved, CompactionEnds, RunPrompt,
              Compacted
<1>4. CASE CompactStep \/ compact
  BY <1>4 DEF CompactStep, compact, ManualPrepare, ManualFails, ManualSaved, ManualEnds, Compacted
<1>5. CASE Application
  BY <1>5 DEF Application, steer, followUp, sendCustomMessage, recordBashResult, clearQueue,
              abortRetry, abort, abortCompaction
<1>. QED
  BY <1>1, <1>2, <1>3, <1>4, <1>5 DEF Next

LEMMA SayLonger ==
    ASSUME NEW es \in Seq(Msg), NEW e \in Plain, AllSplit(es)
    PROVE  AllSplit(Append(es, e))
<1>1. <<e>> \in Seq(Plain) /\ Append(es, e) = es \o <<e>>
  BY AppendIsConcat, GivenPlain
<1>. QED
  BY <1>1, AllSplitLonger

LEMMA BashSeq == ASSUME NEW s \in Seq(Bash) PROVE s \in Seq(Plain)
<1>1. s \in Seq(Bash) /\ \A i \in 1..Len(s) : s[i] \in Plain
  BY LenProperties, GivenPlain
<1>. QED
  BY <1>1, ExceptSeq, SeqDef

LEMMA CompactionText ==
    ASSUME TypeInv, NEW p \in Preps, Compacts(p)
    PROVE  /\ CompactionEntry(p) \in Msg /\ IsCompaction(CompactionEntry(p))
           /\ entries' = Append(entries, CompactionEntry(p))
           /\ entries' \in Seq(Msg) /\ AllSplit(entries')
           /\ messages' = BuildSessionContext(entries')
<1>. DEFINE e == CompactionEntry(p)
<1>1. entries \in Seq(Msg) /\ AllSplit(entries) /\ lastId \in Nat
  BY DEF TypeInv, TextTypes
<1>2. /\ e.role = "compaction" /\ e.kind = "" /\ e.first = p.first /\ e.covers = p.covers
      /\ e.noHistory = p.noHistory
  BY DEF CompactionEntry
<1>3. e \in Msg
  <2>1. /\ lastId + 1 \in Nat /\ p.first \in Nat /\ p.covers \in SUBSET Nat
        /\ p.noHistory \in BOOLEAN
    BY <1>1 DEF Preps
  <2>2. e \in Records
    BY <2>1 DEF CompactionEntry, Records, Roles
  <2>. QED
    BY <1>2, <2>2 DEF Msg
<1>4. Splits(entries, Len(entries), e)
  BY <1>2 DEF Compacts, Splits, SplitAt, Accounted
<1>5. entries' = Append(entries, e) /\ messages' = BuildSessionContext(entries')
  BY DEF Compacts, Compacted
<1>6. IsCompaction(e)
  BY <1>2 DEF IsCompaction
<1>. HIDE DEF e
<1>7. Append(entries, e) \in Seq(Msg)
  BY <1>1, <1>3
<1>8. AllSplit(Append(entries, e))
  BY <1>1, <1>3, <1>4, AllSplitCompaction
<1>9. entries' \in Seq(Msg) /\ AllSplit(entries')
  BY <1>5, <1>7, <1>8
<1>. QED
  BY <1>3, <1>5, <1>6, <1>9 DEF e

LEMMA TypeText ==
    ASSUME TypeInv, TextStep, lastId' = lastId \/ lastId' = lastId + 1
    PROVE  TextTypes'
<1>1. /\ messages \in Seq(Msg) /\ entries \in Seq(Msg) /\ AllSplit(entries)
      /\ pendingBashMessages \in Seq(Bash) /\ lastId \in Nat
  BY DEF TypeInv, TextTypes
<1>2. lastId' \in Nat
  BY <1>1
<1>3. Plain \subseteq Msg
  BY GivenPlain
<1>4. CASE Silent
  BY <1>1, <1>2, <1>4 DEF Silent, textVars, TextTypes
<1>5. CASE Hears
  <2>1. writing[1] \in Plain
    BY <1>5, HeldIs DEF Hears, TypeInv, WaitingTypes, Places
  <2>2. Append(entries, writing[1]) \in Seq(Msg) /\ AllSplit(Append(entries, writing[1]))
    BY <1>1, <1>3, <2>1, SayLonger
  <2>. QED
    BY <1>1, <1>2, <1>5, <2>2 DEF Hears, TextTypes
<1>6. CASE Flushes
  <2>1. pendingBashMessages \in Seq(Plain)
    BY <1>1, BashSeq
  <2>2. pendingBashMessages \in Seq(Msg)
    BY <2>1, PlainSeq
  <2>3. /\ messages \o pendingBashMessages \in Seq(Msg)
        /\ entries \o pendingBashMessages \in Seq(Msg)
        /\ AllSplit(entries \o pendingBashMessages)
    BY <1>1, <2>1, <2>2, AllSplitLonger, ConcatProperties
  <2>4. <<>> \in Seq(Bash)
    OBVIOUS
  <2>. QED
    BY <1>2, <1>6, <2>3, <2>4 DEF Flushes, Flush, TextTypes
<1>7. CASE Takes
  <2>1. WithoutLastAssistant \in Seq(Msg)
    BY <1>1, FrontLast DEF WithoutLastAssistant
  <2>. QED
    BY <1>1, <1>2, <1>7, <2>1 DEF Takes, TextTypes
<1>8. ASSUME NEW m \in Plain, Says(m) PROVE TextTypes'
  <2>1. Append(messages, m) \in Seq(Msg)
    BY <1>1, <1>3
  <2>. QED
    BY <1>1, <1>2, <1>8, <2>1 DEF Says, TextTypes
<1>9. ASSUME NEW m \in Plain, Recording(m) PROVE TextTypes'
  <2>1. Append(messages, m) \in Seq(Msg) /\ Append(entries, m) \in Seq(Msg)
    BY <1>1, <1>3
  <2>2. AllSplit(Append(entries, m))
    BY <1>1, SayLonger
  <2>. QED
    BY <1>1, <1>2, <1>9, <2>1, <2>2 DEF Recording, Recorded, TextTypes
<1>10. ASSUME NEW n \in Bash, Waits(n) PROVE TextTypes'
  <2>1. Append(pendingBashMessages, n) \in Seq(Bash)
    BY <1>1
  <2>. QED
    BY <1>1, <1>2, <1>10, <2>1 DEF Waits, TextTypes
<1>11. ASSUME NEW p \in Preps, Compacts(p) PROVE TextTypes'
  <2>1. entries' \in Seq(Msg) /\ AllSplit(entries') /\ messages' = BuildSessionContext(entries')
    BY <1>11, CompactionText
  <2>2. messages' \in Seq(Msg)
    BY <2>1, BuiltSeq
  <2>. QED
    BY <1>1, <1>2, <1>11, <2>1, <2>2 DEF Compacts, TextTypes
<1>. QED
  BY <1>4, <1>5, <1>6, <1>7, <1>8, <1>9, <1>10, <1>11 DEF TextStep

(* Entries are only appended.                                              *)
LEMMA EntriesGrow ==
    ASSUME TypeInv, TextStep
    PROVE  /\ \E t \in Seq(Msg) : entries' = entries \o t
           /\ \A p : Splits(entries, Len(entries), p) => Splits(entries', Len(entries'), p)
<1>1. /\ entries \in Seq(Msg) /\ pendingBashMessages \in Seq(Bash)
      /\ writing \in Held(Plain) /\ phase = "writing" <=> writing # <<>>
  BY DEF TypeInv, TextTypes, WaitingTypes, Places
<1>2. \A m \in Msg : <<m>> \in Seq(Msg) /\ Append(entries, m) = entries \o <<m>>
  BY <1>1, AppendIsConcat
<1>3. <<>> \in Seq(Msg) /\ entries = entries \o <<>>
  BY <1>1, ConcatEmptySeq
<1>4. ASSUME Flushes PROVE \E t \in Seq(Msg) : entries' = entries \o t
  BY <1>1, <1>4, BashSeq, PlainSeq DEF Flushes, Flush
<1>5. ASSUME Hears PROVE \E t \in Seq(Msg) : entries' = entries \o t
  BY <1>1, <1>2, <1>3, <1>5, HeldIs, GivenPlain DEF Hears
<1>6. ASSUME NEW p \in Preps, Compacts(p) PROVE \E t \in Seq(Msg) : entries' = entries \o t
  BY <1>2, <1>6, CompactionText
<1>7. ASSUME NEW m \in Plain, Says(m) \/ Recording(m)
      PROVE  \E t \in Seq(Msg) : entries' = entries \o t
  BY <1>2, <1>3, <1>7, GivenPlain DEF Says, Recording, Recorded
<1>8. ASSUME Silent \/ Takes \/ \E n \in Bash : Waits(n)
      PROVE  \E t \in Seq(Msg) : entries' = entries \o t
  BY <1>3, <1>8 DEF Silent, textVars, Takes, Waits
<1>9. \E t \in Seq(Msg) : entries' = entries \o t
  BY <1>4, <1>5, <1>6, <1>7, <1>8 DEF TextStep
<1>10. ASSUME NEW p, Splits(entries, Len(entries), p) PROVE Splits(entries', Len(entries'), p)
  <2>1. PICK t \in Seq(Msg) : entries' = entries \o t
    BY <1>9
  <2>2. Len(entries) \in 0..Len(entries) /\ Len(entries) \in Nat /\ Len(t) \in Nat
    BY <1>1, LenProperties
  <2>3. Splits(entries \o t, Len(entries), p)
    BY <1>1, <1>10, <2>2, SplitsLonger
  <2>4. Len(entries \o t) = Len(entries) + Len(t)
    BY <1>1, ConcatProperties
  <2>5. \A c \in 1..Len(entries) : c \in 1..(Len(entries) + Len(t))
    BY <2>2
  <2>6. ASSUME NEW id, Accounted(entries \o t, Len(entries), p, id)
        PROVE  Accounted(entries \o t, Len(entries) + Len(t), p, id)
    <3>1. \A i \in 1..Len(entries) : \A l \in (i + 1)..Len(entries) :
             l \in (i + 1)..(Len(entries) + Len(t))
      BY <2>2
    <3>. QED
      BY <2>5, <2>6, <3>1 DEF Accounted
  <2>7. Splits(entries \o t, Len(entries \o t), p)
    BY <2>3, <2>4, <2>5, <2>6 DEF Splits, SplitAt
  <2>. QED
    BY <2>1, <2>7
<1>. QED
  BY <1>9, <1>10

(* What a step does to the queues and their mirrors: nothing; a message is *)
(* delivered; one is taken; the prompt's own is given; one is queued; or   *)
(* they are cleared.                                                       *)
mirrors == <<steeringMessages, followUpMessages>>
Leaves == UNCHANGED <<pending, queueVars>>
Delivers ==
    /\ phase = "deliver" /\ pending # <<>> /\ pending' = Tail(pending)
    /\ UNCHANGED <<steeringQueue, followUpQueue>>
    /\ unlisted' = unlisted \cap (UserTexts(steeringQueue) \cup UserTexts(followUpQueue))
    /\ IF connected /\ Head(pending).role = "user"
       THEN Unmirror(Head(pending).text) ELSE UNCHANGED mirrors
TakesOne ==
    /\ pending = <<>> /\ UNCHANGED <<mirrors, unlisted>>
    /\ \/ steeringQueue # <<>> /\ TakeSteering
       \/ followUpQueue # <<>> /\ TakeFollowUp
Gives(text) ==
    /\ pending = <<>> /\ pending' = <<Written(text)>> /\ lastId' = lastId + 1
    /\ unlisted' = unlisted \cup {text}
    /\ UNCHANGED <<steeringQueue, followUpQueue, mirrors>>
Fresh(m) == m \in Given /\ m.id = lastId + 1 /\ lastId' = lastId + 1
Steers(m) ==
    /\ Fresh(m) /\ steeringQueue' = Append(steeringQueue, m)
    /\ IF m.role = "user"
       THEN m.text \in Texts /\ steeringMessages' = Append(steeringMessages, m.text)
       ELSE UNCHANGED steeringMessages
    /\ UNCHANGED <<pending, followUpQueue, followUpMessages, unlisted>>
Follows(m) ==
    /\ Fresh(m) /\ followUpQueue' = Append(followUpQueue, m)
    /\ IF m.role = "user"
       THEN m.text \in Texts /\ followUpMessages' = Append(followUpMessages, m.text)
       ELSE UNCHANGED followUpMessages
    /\ UNCHANGED <<pending, steeringQueue, steeringMessages, unlisted>>
Clears ==
    /\ steeringMessages' = <<>> /\ followUpMessages' = <<>>
    /\ steeringQueue' = <<>> /\ followUpQueue' = <<>> /\ UNCHANGED pending
    /\ unlisted' = UserTexts(pending)

QueueStep ==
    \/ Leaves \/ Delivers \/ TakesOne \/ Clears
    \/ \E text \in Texts : Gives(text)
    \/ \E m \in Given : Steers(m) \/ Follows(m)

LEMMA AgentQueue ==
    ASSUME TypeInv, AgentStep PROVE Leaves \/ Delivers \/ TakesOne
<1>1. phase = "deliver" <=> pending # <<>>
  BY DEF TypeInv, Places
<1>2. CASE Deliver
  BY <1>1, <1>2 DEF Deliver, Delivers, mirrors
<1>3. CASE ToolEnds \/ FinishRun
  BY <1>3 DEF ToolEnds, FinishRun, Leaves, queueVars
<1>4. ASSUME NEW k \in ReplyKinds \cup {"aborted"}, Respond(k) PROVE Leaves
  BY <1>4 DEF Respond, Leaves, queueVars
<1>5. ASSUME NEW p, Poll(p), pending = <<>>, UNCHANGED <<mirrors, unlisted>>
      PROVE  Leaves \/ TakesOne
  BY <1>5 DEF Poll, GoTo, Leaves, TakesOne, queueVars, mirrors
<1>6. CASE MessagePersisted
  <2>1. pending = <<>> /\ UNCHANGED <<mirrors, unlisted>>
    BY <1>1, <1>6 DEF MessagePersisted, mirrors
  <2>2. ASSUME NEW p, GoTo(p) PROVE Leaves
    BY <2>1, <2>2 DEF GoTo, Leaves, queueVars, mirrors
  <2>3. ASSUME followUpQueue # <<>>, TakeFollowUp PROVE TakesOne
    BY <2>1, <2>3 DEF TakesOne
  <2>4. AfterMessage(writing[1])
    BY <1>6 DEF MessagePersisted
  <2>5. \/ \E p : GoTo(p) \/ Poll(p)
        \/ followUpQueue # <<>> /\ TakeFollowUp
    BY <2>4 DEF AfterMessage
  <2>. QED
    BY <1>5, <2>1, <2>2, <2>3, <2>5
<1>7. CASE FirstPoll
  <2>1. pending = <<>> /\ UNCHANGED <<mirrors, unlisted>> /\ Poll("call")
    BY <1>1, <1>7 DEF FirstPoll, mirrors
  <2>. QED
    BY <1>5, <2>1
<1>. QED
  BY <1>2, <1>3, <1>4, <1>6, <1>7 DEF AgentStep

LEMMA PromptQueue ==
    ASSUME TypeInv, PromptStep \/ Prompt
    PROVE  Leaves \/ TakesOne \/ \E text \in Texts : Gives(text)
<1>1. phase = "idle" /\ pending = <<>>
  BY DEF TypeInv, Places, PromptStep, Prompt, CheckBeforePrompt, HandlePostAgentRun, Cancelled,
         Continue, ContinueRefused, Slept, CompactionFails, CompactionSaved, CompactionEnds,
         RunPrompt
<1>2. CASE CheckBeforePrompt \/ HandlePostAgentRun \/ Cancelled \/ ContinueRefused \/ Prompt
           \/ Slept \/ CompactionFails \/ CompactionSaved \/ CompactionEnds
  BY <1>2 DEF CheckBeforePrompt, HandlePostAgentRun, Cancelled, ContinueRefused, Prompt,
              Slept, CompactionFails, CompactionSaved, CompactionEnds, agentVars, queueVars, Leaves
<1>3. CASE RunPrompt
  BY <1>1, <1>3 DEF RunPrompt, StartRun, Gives, mirrors
<1>4. CASE Continue
  <2>1. UNCHANGED <<mirrors, unlisted>>
    BY <1>4 DEF Continue, mirrors
  <2>2. CASE ~IsAssistant(Last(messages))
    BY <1>1, <1>4, <2>1, <2>2 DEF Continue, StartRun, Leaves, queueVars, mirrors
  <2>3. CASE IsAssistant(Last(messages)) /\ steeringQueue # <<>>
    BY <1>1, <1>4, <2>1, <2>3, HeldIs DEF Continue, StartRun, TakesOne, TakeSteering
  <2>4. CASE IsAssistant(Last(messages)) /\ steeringQueue = <<>>
    BY <1>1, <1>4, <2>1, <2>4, HeldIs
    DEF Continue, ContinueThrows, hasQueuedMessages, StartRun, TakesOne, TakeFollowUp
  <2>. QED
    BY <2>2, <2>3, <2>4
<1>. QED
  BY <1>2, <1>3, <1>4 DEF PromptStep

LEMMA ApplicationQueue ==
    ASSUME TypeInv, Application \/ compact \/ CompactStep
    PROVE  Leaves \/ Clears \/ \E m \in Given : Steers(m) \/ Follows(m)
<1>1. lastId \in Nat
  BY DEF TypeInv, TextTypes
<1>2. CASE abortRetry \/ abort \/ abortCompaction \/ compact \/ recordBashResult \/ CompactStep
  BY <1>2 DEF abortRetry, abort, abortCompaction, compact, recordBashResult, CompactStep,
              ManualPrepare, ManualFails, ManualSaved, ManualEnds, agentVars, Leaves, queueVars
<1>3. CASE clearQueue
  BY <1>3 DEF clearQueue, Clears, agentVars
<1>4. /\ \A text \in Texts : /\ Written(text) \in Given /\ Written(text).role = "user"
                            /\ Written(text).id = lastId + 1 /\ Written(text).text = text
      /\ Made("custom", "") \in Given /\ Made("custom", "").role = "custom"
      /\ Made("custom", "").id = lastId + 1
  BY <1>1, MadeTypes DEF Made
<1>5. CASE steer
  BY <1>4, <1>5 DEF steer, Steers, Fresh, agentVars
<1>6. CASE followUp
  BY <1>4, <1>6 DEF followUp, Follows, Fresh, agentVars
<1>7. CASE sendCustomMessage
  BY <1>4, <1>7 DEF sendCustomMessage, Steers, Follows, Fresh, Leaves, queueVars, agentVars
<1>. QED
  BY <1>2, <1>3, <1>5, <1>6, <1>7 DEF Application

LEMMA NextQueue == ASSUME TypeInv, [Next]_vars PROVE QueueStep
<1>1. CASE UNCHANGED vars
  BY <1>1 DEF vars, agentVars, QueueStep, Leaves
<1>2. CASE Next
  BY <1>2, AgentQueue, PromptQueue, ApplicationQueue DEF Next, QueueStep
<1>. QED
  BY <1>1, <1>2

(* Removing the first occurrence of e.                                     *)
Spliced(M, s, e, r) == \E a, b \in Seq(M) : r = a \o b /\ s = (a \o <<e>>) \o b

LEMMA Removed ==
    ASSUME NEW M, NEW s \in Seq(M), NEW e \in Range(s)
    PROVE  Spliced(M, s, e, RemoveFirst(s, e))
<1>. DEFINE J == {i \in 1..Len(s) : s[i] = e}
            f == SelectInSeq(s, LAMBDA v : v = e)
<1>1. Len(s) \in Nat /\ DOMAIN s = 1..Len(s) /\ \A i \in 1..Len(s) : s[i] \in M
  BY LenProperties
<1>2. PICK i0 \in 1..Len(s) : s[i0] = e
  BY <1>1 DEF Range
<1>3. f = Min(J)
  BY <1>2 DEF SelectInSeq
<1>4. PICK m \in J : \A j \in J : m <= j
  <2>1. J \in SUBSET Nat /\ i0 \in J
    BY <1>2
  <2>. HIDE DEF J
  <2>. QED
    BY <2>1, LeastNumber
<1>5. f \in J
  BY <1>3, <1>4 DEF Min
<1>6. RemoveFirst(s, e) = SubSeq(s, 1, f - 1) \o SubSeq(s, f + 1, Len(s))
  BY <1>2 DEF RemoveFirst, RemoveAt
<1>. HIDE DEF f
<1>7. f \in 1..Len(s) /\ s[f] = e /\ e \in M
  BY <1>1, <1>5
<1>. DEFINE a == SubSeq(s, 1, f - 1)
            b == SubSeq(s, f + 1, Len(s))
<1>8. 1 \in 1..(Len(s) + 1) /\ f - 1 \in (1 - 1)..Len(s)
  BY <1>1, <1>7
<1>9. f + 1 \in 1..(Len(s) + 1) /\ Len(s) \in ((f + 1) - 1)..Len(s)
  BY <1>1, <1>7
<1>10. /\ a \in Seq(M) /\ Len(a) = (f - 1) - 1 + 1
       /\ \A i \in 1..((f - 1) - 1 + 1) : a[i] = s[1 + i - 1]
  BY <1>8, SubSeqIs
<1>11. /\ b \in Seq(M) /\ Len(b) = Len(s) - (f + 1) + 1
       /\ \A i \in 1..(Len(s) - (f + 1) + 1) : b[i] = s[(f + 1) + i - 1]
  BY <1>9, SubSeqIs
<1>12. RemoveFirst(s, e) = a \o b
  BY <1>6
<1>. HIDE DEF a, b
<1>13. Len(a) = f - 1 /\ Len(b) = Len(s) - f
  BY <1>1, <1>7, <1>10, <1>11
<1>. DEFINE c == Append(a, e)
            t == c \o b
<1>14. /\ c \in Seq(M) /\ Len(c) = f /\ c[f] = e
       /\ \A i \in 1..Len(a) : c[i] = a[i]
  <2>1. /\ c \in Seq(M) /\ Len(c) = Len(a) + 1 /\ c[Len(a) + 1] = e
        /\ \A i \in 1..Len(a) : c[i] = a[i]
    BY <1>7, <1>10, AppendProperties
  <2>2. Len(a) + 1 = f
    BY <1>7, <1>13
  <2>. HIDE DEF c
  <2>. QED
    BY <2>1, <2>2
<1>. HIDE DEF c
<1>15. /\ t \in Seq(M) /\ Len(t) = Len(c) + Len(b)
       /\ \A i \in 1..(Len(c) + Len(b)) :
             t[i] = IF i <= Len(c) THEN c[i] ELSE b[i - Len(c)]
  BY <1>11, <1>14, ConcatProperties
<1>. HIDE DEF t
<1>16. Len(t) = Len(s)
  BY <1>1, <1>7, <1>13, <1>14, <1>15
<1>17. ASSUME NEW i \in 1..Len(s) PROVE t[i] = s[i]
  <2>1. i \in 1..(Len(c) + Len(b))
    BY <1>15, <1>16
  <2>2. CASE i < f
    <3>1. i <= Len(c) /\ i \in 1..Len(a) /\ i \in 1..((f - 1) - 1 + 1) /\ 1 + i - 1 = i
      BY <1>1, <1>7, <1>13, <1>14, <2>2
    <3>. QED
      BY <1>10, <1>14, <1>15, <2>1, <3>1
  <2>3. CASE i = f
    BY <1>7, <1>14, <1>15, <2>1, <2>3
  <2>4. CASE i > f
    <3>1. /\ ~(i <= Len(c)) /\ i - Len(c) \in 1..(Len(s) - (f + 1) + 1)
          /\ (f + 1) + (i - Len(c)) - 1 = i
      BY <1>1, <1>7, <1>14, <2>4
    <3>. QED
      BY <1>11, <1>15, <2>1, <3>1
  <2>. QED
    BY <1>1, <1>7, <2>2, <2>3, <2>4
<1>18. t = s
  BY <1>15, <1>16, <1>17, SeqEqual
<1>19. c = a \o <<e>>
  BY <1>7, <1>10, AppendIsConcat DEF c
<1>. QED
  BY <1>10, <1>11, <1>12, <1>18, <1>19 DEF t, Spliced

LEMMA UnmirrorTypes ==
    ASSUME NEW text, Unmirror(text),
           steeringMessages \in Seq(Texts), followUpMessages \in Seq(Texts)
    PROVE  steeringMessages' \in Seq(Texts) /\ followUpMessages' \in Seq(Texts)
<1>1. ASSUME NEW s \in Seq(Texts) PROVE RemoveFirst(s, text) \in Seq(Texts)
  <2>1. CASE text \in Range(s)
    <3>1. Spliced(Texts, s, text, RemoveFirst(s, text))
      BY <2>1, Removed
    <3>2. PICK a, b \in Seq(Texts) : RemoveFirst(s, text) = a \o b
      BY <3>1 DEF Spliced
    <3>. QED
      BY <3>2, ConcatProperties
  <2>2. CASE text \notin Range(s)
    <3>1. DOMAIN s = 1..Len(s)
      BY LenProperties
    <3>2. RemoveFirst(s, text) = s
      BY <2>2, <3>1 DEF RemoveFirst, Range
    <3>. QED
      BY <3>2
  <2>. QED
    BY <2>1, <2>2
<1>. QED
  BY <1>1 DEF Unmirror

LEMMA UserTextsIn == \A q \in Seq(Given) : UserTexts(q) \subseteq Words
<1>1. \A m \in Given : m.text \in Words
  BY DEF Given, Msg, Records, Words
<1>2. \A q \in Seq(Given) : Range(q) \subseteq Given
  BY LenProperties DEF Range
<1>. QED
  BY <1>1, <1>2 DEF UserTexts

LEMMA TypeWaiting ==
    ASSUME TypeInv, TextStep, QueueStep
    PROVE  WaitingTypes'
<1>1. /\ pending \in Held(Given) /\ writing \in Held(Plain) /\ pending \in Seq(Given)
      /\ steeringQueue \in Seq(Given) /\ followUpQueue \in Seq(Given)
      /\ steeringMessages \in Seq(Texts) /\ followUpMessages \in Seq(Texts)
      /\ unlisted \subseteq Words /\ lastId \in Nat
  BY DEF TypeInv, TextTypes, WaitingTypes, Held
<1>2. writing' \in Held(Plain)
  BY <1>1, HeldIs DEF TextStep, Silent, Hears, Says, Flushes, Takes, Recording, Waits, Compacts
<1>3. CASE Leaves
  BY <1>1, <1>2, <1>3 DEF Leaves, queueVars, WaitingTypes
<1>4. CASE Delivers
  <2>1. pending' \in Held(Given)
    BY <1>1, <1>4, HeldIs DEF Delivers
  <2>2. steeringMessages' \in Seq(Texts) /\ followUpMessages' \in Seq(Texts)
    BY <1>1, <1>4, UnmirrorTypes DEF Delivers, mirrors
  <2>3. unlisted' \subseteq Words
    BY <1>1, <1>4 DEF Delivers
  <2>. QED
    BY <1>1, <1>2, <1>4, <2>1, <2>2, <2>3 DEF Delivers, WaitingTypes
<1>5. CASE TakesOne
  <2>1. \A q \in Seq(Given) : q # <<>> => <<Head(q)>> \in Held(Given) /\ Tail(q) \in Seq(Given)
    BY HeadTailProperties, HeldIs
  <2>. QED
    BY <1>1, <1>2, <1>5, <2>1 DEF TakesOne, TakeSteering, TakeFollowUp, mirrors, WaitingTypes
<1>6. ASSUME NEW text \in Texts, Gives(text) PROVE WaitingTypes'
  <2>1. pending' \in Held(Given) /\ unlisted' \subseteq Words
    BY <1>1, <1>6, MadeTypes, HeldIs DEF Gives, Words
  <2>. QED
    BY <1>1, <1>2, <1>6, <2>1 DEF Gives, mirrors, WaitingTypes
<1>7. CASE Clears
  BY <1>1, <1>2, <1>7, UserTextsIn DEF Clears, WaitingTypes
<1>8. ASSUME NEW m \in Given, Steers(m) \/ Follows(m) PROVE WaitingTypes'
  <2>1. \A q \in Seq(Given) : Append(q, m) \in Seq(Given)
    OBVIOUS
  <2>2. \A q \in Seq(Texts) : m.text \in Texts => Append(q, m.text) \in Seq(Texts)
    OBVIOUS
  <2>. QED
    BY <1>1, <1>2, <1>8, <2>1, <2>2 DEF Steers, Follows, WaitingTypes
<1>. QED
  BY <1>3, <1>4, <1>5, <1>6, <1>7, <1>8 DEF QueueStep

(* What a check decides about where the prompt goes.                       *)
LEMMA EndsAt ==
    ASSUME NothingToContinue
    PROVE  /\ pc' \in {"hook", "continue", "idle"} /\ stage' \in {stage, "main"}
           /\ UNCHANGED textVars \/ Flush
BY DEF NothingToContinue, LoopEnds, textVars

Begins ==
    /\ pc' = "compacting" /\ entries' = entries
    /\ reason' \in {"overflow", "threshold"} /\ stage' = stage
    /\ prepared' = <<>> \/ \E p \in Preparations(entries) : prepared' = <<p>>
Settles ==
    /\ pc' \in {"hook", "continue", "idle"} /\ stage' \in {stage, "main"}
    /\ UNCHANGED <<reason, prepared, overflowRecoveryAttempted>>
    /\ NothingToContinue

LEMMA CheckIs ==
    ASSUME NEW m, CheckCompaction(m)
    PROVE  /\ Begins \/ Settles
           /\ overflowRecoveryAttempted' \in {TRUE, overflowRecoveryAttempted}
<1>1. ASSUME NEW why \in {"overflow", "threshold"}, BeginCompaction(why), entries' = entries,
             stage' = stage
      PROVE  Begins
  BY <1>1 DEF BeginCompaction, Prepared, Begins
<1>2. CASE BeginCompaction("overflow")
  BY <1>1, <1>2, EndsAt DEF CheckCompaction, RecoveryAttempted, Settles
<1>3. CASE BeginCompaction("threshold")
  BY <1>1, <1>3, EndsAt DEF CheckCompaction, RecoveryAttempted, Settles
<1>4. CASE ~BeginCompaction("overflow") /\ ~BeginCompaction("threshold")
  BY <1>4, EndsAt DEF CheckCompaction, Settles
<1>. QED
  BY <1>2, <1>3, <1>4

(* The steps that leave everything about the run as it is.                 *)
LEMMA RunQuiet ==
    ASSUME CompactStep \/ Application \/ compact \/ Prompt \/ ContinueRefused \/ Slept
           \/ CompactionFails \/ CompactionSaved \/ CompactionEnds
    PROVE  UNCHANGED runVars
BY DEF CompactStep, ManualPrepare, ManualFails, ManualSaved, ManualEnds, Application, steer,
       followUp, sendCustomMessage, recordBashResult, clearQueue, abortRetry, abort,
       abortCompaction, compact, Prompt, ContinueRefused, Slept, CompactionFails,
       CompactionSaved, CompactionEnds

LEMMA TypeRun ==
    ASSUME TypeInv, [Next]_vars
    PROVE  RunTypes'
<1>1. /\ lastAssistantMessage \in Held(Plain) /\ retryAttempt \in 0..MaxRetries
      /\ overflowRecoveryAttempted \in BOOLEAN /\ cancelledAt \in Nat
      /\ heard \in BOOLEAN /\ firstPoll \in BOOLEAN /\ aborted \in BOOLEAN
      /\ connected \in BOOLEAN /\ MaxRetries \in Nat
  BY BoundAssumption DEF TypeInv, RunTypes, Places
<1>2. /\ heard' \in BOOLEAN /\ firstPoll' \in BOOLEAN /\ aborted' \in BOOLEAN
  <2>1. CASE UNCHANGED vars
    BY <1>1, <2>1 DEF vars, agentVars
  <2>2. CASE AgentStep
    BY <1>1, <2>2
    DEF AgentStep, Deliver, ToolEnds, MessagePersisted, FirstPoll, FinishRun, Respond, Finished
  <2>3. CASE PromptStep \/ Prompt
    BY <1>1, <2>3
    DEF PromptStep, Prompt, CheckBeforePrompt, HandlePostAgentRun, Cancelled, Continue,
        ContinueRefused, Slept, CompactionFails, CompactionSaved, CompactionEnds, RunPrompt,
        StartRun, agentVars
  <2>4. CASE CompactStep \/ compact
    BY <1>1, <2>4
    DEF CompactStep, compact, ManualPrepare, ManualFails, ManualSaved, ManualEnds, AbortAgent,
        agentVars
  <2>5. CASE Application
    BY <1>1, <2>5
    DEF Application, steer, followUp, sendCustomMessage, recordBashResult, clearQueue,
        abortRetry, abort, abortCompaction, AbortAgent, agentVars
  <2>. QED
    BY <2>1, <2>2, <2>3, <2>4, <2>5 DEF Next
<1>3. ASSUME UNCHANGED runVars PROVE RunTypes'
  BY <1>1, <1>2, <1>3 DEF runVars, RunTypes
<1>4. CASE UNCHANGED vars
  BY <1>3, <1>4 DEF vars
<1>5. CASE AgentStep
  <2>1. CASE ToolEnds \/ FirstPoll \/ FinishRun \/ \E k \in ReplyKinds \cup {"aborted"} : Respond(k)
    BY <1>3, <2>1 DEF ToolEnds, FirstPoll, FinishRun, Respond
  <2>2. CASE Deliver
    <3>1. /\ UNCHANGED <<lastAssistantMessage, retryAttempt, cancelledAt>>
          /\ overflowRecoveryAttempted' \in {FALSE, overflowRecoveryAttempted}
      BY <2>2 DEF Deliver
    <3>. QED
      BY <1>1, <1>2, <3>1 DEF RunTypes
  <2>3. CASE MessagePersisted
    <3>1. writing[1] \in Plain
      BY <2>3, HeldIs DEF MessagePersisted, TypeInv, WaitingTypes, Places
    <3>2. /\ lastAssistantMessage' \in {<<writing[1]>>, lastAssistantMessage}
          /\ retryAttempt' \in {0, retryAttempt}
          /\ overflowRecoveryAttempted' \in {FALSE, overflowRecoveryAttempted}
          /\ cancelledAt' = cancelledAt
      BY <2>3 DEF MessagePersisted, TrackAssistant
    <3>3. lastAssistantMessage' \in Held(Plain)
      BY <1>1, <3>1, <3>2, HeldIs
    <3>4. retryAttempt' \in 0..MaxRetries
      BY <1>1, <3>2
    <3>. QED
      BY <1>1, <1>2, <3>2, <3>3, <3>4 DEF RunTypes
  <2>. QED
    BY <1>5, <2>1, <2>2, <2>3 DEF AgentStep
<1>6. CASE PromptStep
  <2>1. CASE Continue \/ RunPrompt
    BY <1>3, <2>1 DEF Continue, RunPrompt
  <2>2. CASE CheckBeforePrompt
    <3>1. /\ UNCHANGED <<lastAssistantMessage, retryAttempt, cancelledAt>>
          /\ overflowRecoveryAttempted' \in {TRUE, overflowRecoveryAttempted}
      BY <2>2, CheckIs DEF CheckBeforePrompt
    <3>. QED
      BY <1>1, <1>2, <3>1 DEF RunTypes
  <2>3. CASE HandlePostAgentRun
    <3>1. lastAssistantMessage' = <<>> /\ cancelledAt' = cancelledAt
      BY <2>3 DEF HandlePostAgentRun
    <3>2. overflowRecoveryAttempted' \in {TRUE, overflowRecoveryAttempted}
      BY <2>3, CheckIs DEF HandlePostAgentRun, WaitForRetry, GiveUp
    <3>3. \/ retryAttempt' \in {0, retryAttempt}
          \/ retryAttempt' = retryAttempt + 1 /\ retryAttempt < MaxRetries
      BY <2>3 DEF HandlePostAgentRun, WaitForRetry, GiveUp, MayRetry
    <3>4. retryAttempt' \in 0..MaxRetries
      BY <1>1, <3>3
    <3>5. lastAssistantMessage' \in Held(Plain)
      BY <3>1, HeldIs
    <3>. QED
      BY <1>1, <1>2, <3>1, <3>2, <3>4, <3>5 DEF RunTypes
  <2>4. CASE Cancelled
    <3>1. /\ lastAssistantMessage' = lastAssistantMessage
          /\ retryAttempt' = 0 /\ cancelledAt' = Len(entries)
          /\ overflowRecoveryAttempted' \in {TRUE, overflowRecoveryAttempted}
      BY <2>4, CheckIs DEF Cancelled
    <3>2. Len(entries) \in Nat
      BY LenProperties DEF TypeInv, TextTypes
    <3>3. retryAttempt' \in 0..MaxRetries
      BY <1>1, <3>1
    <3>. QED
      BY <1>1, <1>2, <3>1, <3>2, <3>3 DEF RunTypes
  <2>. QED
    BY <1>3, <1>6, <2>1, <2>2, <2>3, <2>4, RunQuiet DEF PromptStep
<1>7. CASE CompactStep \/ Application \/ compact \/ Prompt
  BY <1>3, <1>7, RunQuiet
<1>. QED
  BY <1>4, <1>5, <1>6, <1>7 DEF Next

LEMMA PreparedNow ==
    ASSUME TypeInv, entries' = entries, NEW p \in Preparations(entries)
    PROVE  /\ <<p>> \in Held(Preps) /\ <<p>>[1] = p
           /\ Splits(entries', Len(entries'), p)
<1>1. entries \in Seq(Msg) /\ AllSplit(entries)
  BY DEF TypeInv, TextTypes
<1>2. p \in Preps /\ Splits(entries, Len(entries), p)
  BY <1>1, PreparationSplits
<1>3. <<p>> \in Held(Preps)
  BY <1>2, HeldIs
<1>. QED
  BY <1>2, <1>3

Kept(q, r) ==
    \/ r = <<>>
    \/ r = q
    \/ entries' = entries /\ \E p \in Preparations(entries) : r = <<p>>

LEMMA TypePrep ==
    ASSUME TypeInv, [Next]_vars, TextStep
    PROVE  PrepTypes'
<1>1. Kept(prepared, prepared')
  <2>1. Begins \/ Settles => Kept(prepared, prepared')
    BY DEF Begins, Settles, Kept
  <2>2. CASE CheckBeforePrompt \/ HandlePostAgentRun \/ Cancelled
    BY <2>1, <2>2, CheckIs
    DEF Kept, CheckBeforePrompt, HandlePostAgentRun, Cancelled, WaitForRetry, GiveUp
  <2>3. CASE UNCHANGED vars \/ AgentStep
    BY <2>3 DEF Kept, vars, loopVars, AgentStep, Deliver, ToolEnds, MessagePersisted, FirstPoll,
                FinishRun, Respond, Finished
  <2>4. CASE Prompt \/ Continue \/ ContinueRefused \/ Slept \/ RunPrompt
    BY <2>4 DEF Kept, Prompt, Continue, ContinueRefused, Slept, RunPrompt
  <2>5. CASE CompactionFails \/ CompactionSaved \/ CompactionEnds
    BY <2>5 DEF Kept, CompactionFails, CompactionSaved, CompactionEnds, AutoCompactionOver
  <2>6. CASE CompactStep \/ Application \/ compact
    BY <2>6 DEF Kept, CompactStep, ManualPrepare, ManualFails, ManualSaved, ManualEnds, Application,
                steer, followUp, sendCustomMessage, recordBashResult, clearQueue, abortRetry,
                abort, abortCompaction, compact, loopVars
  <2>. QED
    BY <2>2, <2>3, <2>4, <2>5, <2>6 DEF Next, PromptStep
<1>2. Kept(manualPrepared, manualPrepared')
  <2>1. CASE UNCHANGED vars \/ AgentStep
    BY <2>1 DEF Kept, vars, manualVars, AgentStep, Deliver, ToolEnds, MessagePersisted, FirstPoll,
                FinishRun, Respond, Finished
  <2>2. CASE PromptStep \/ Prompt
    BY <2>2 DEF Kept, manualVars, PromptStep, Prompt, CheckBeforePrompt, HandlePostAgentRun,
                Cancelled, Continue, ContinueRefused, Slept, CompactionFails, CompactionSaved,
                CompactionEnds, RunPrompt
  <2>3. CASE CompactStep
    BY <2>3 DEF Kept, CompactStep, ManualPrepare, ManualFails, ManualSaved, ManualEnds, Prepared
  <2>4. CASE Application \/ compact
    BY <2>4 DEF Kept, Application, steer, followUp, sendCustomMessage, recordBashResult, clearQueue,
                abortRetry, abort, abortCompaction, compact, manualVars
  <2>. QED
    BY <2>1, <2>2, <2>3, <2>4 DEF Next
<1>3. ASSUME NEW q \in Held(Preps), NEW r, Kept(q, r),
             q # <<>> => Splits(entries, Len(entries), q[1])
      PROVE  r \in Held(Preps) /\ (r # <<>> => Splits(entries', Len(entries'), r[1]))
  <2>1. CASE r = <<>>
    BY <2>1, HeldIs
  <2>2. CASE r = q
    BY <1>3, <2>2, EntriesGrow DEF Kept
  <2>3. CASE entries' = entries /\ \E p \in Preparations(entries) : r = <<p>>
    BY <2>3, PreparedNow
  <2>. QED
    BY <1>3, <2>1, <2>2, <2>3 DEF Kept
<1>. QED
  BY <1>1, <1>2, <1>3 DEF TypeInv, PrepTypes

(* Where the agent's loop and the prompt may be.                           *)
Phases == {"idle", "poll", "deliver", "writing", "call", "tool", "end"}
Awaiting == {"checking", "hook", "ran", "sleep", "cancelled", "compacting", "compacted", "continue"}

AgentPlaces ==
    /\ phase \in Phases
    /\ phase = "deliver" <=> pending # <<>>
    /\ phase = "writing" <=> writing # <<>>
LoopPlaces ==
    /\ pc \in Awaiting \cup {"idle", "run"}
    /\ phase # "idle" <=> pc = "run"
    /\ stage \in {"check", "before", "main"} /\ reason \in {"none", "overflow", "threshold"}
    /\ prepared # <<>> => pc = "compacting"
ManualPlaces ==
    /\ manual \in {"none", "waiting", "ready", "summarizing", "saved"}
    /\ connected \in BOOLEAN /\ (manual = "none" <=> connected = TRUE)
    /\ manual = "summarizing" <=> manualPrepared # <<>>

LEMMA PlacesParts ==
    /\ Places <=> AgentPlaces /\ LoopPlaces /\ ManualPlaces
    /\ Places' <=> AgentPlaces' /\ LoopPlaces' /\ ManualPlaces'
BY DEF Places, AgentPlaces, LoopPlaces, ManualPlaces, Phases, Awaiting

LEMMA PlacesAgent ==
    ASSUME TypeInv, AgentStep PROVE Places'
<1>1. Places /\ pending \in Held(Given) /\ AgentPlaces /\ LoopPlaces /\ ManualPlaces
  BY PlacesParts DEF TypeInv, WaitingTypes
<1>2. ManualPlaces'
  BY <1>1 DEF AgentStep, Deliver, ToolEnds, MessagePersisted, FirstPoll, FinishRun, Respond,
              Finished, ManualPlaces, manualVars
<1>3. ASSUME phase' \in Phases \ {"idle"}, UNCHANGED loopVars, phase # "idle" PROVE LoopPlaces'
  BY <1>1, <1>3 DEF LoopPlaces, loopVars
<1>4. ASSUME NEW m \in Plain, Finished(m), phase # "idle", pending' = <<>>
      PROVE  AgentPlaces' /\ LoopPlaces'
  <2>1. writing' # <<>> /\ phase' = "writing" /\ UNCHANGED loopVars
    BY <1>4, HeldIs DEF Finished
  <2>2. "writing" \in Phases \ {"idle"} /\ "writing" # "deliver"
    BY DEF Phases
  <2>. QED
    BY <1>3, <1>4, <2>1, <2>2 DEF AgentPlaces
<1>5. CASE Deliver
  <2>1. pending # <<>> /\ pending' = <<>> /\ Said(Head(pending)) \in Plain
    BY <1>1, <1>5, HeldIs, GivenPlain, SaidIs DEF Deliver, AgentPlaces
  <2>. QED
    BY <1>2, <1>4, <1>5, <2>1, PlacesParts DEF Deliver
<1>6. CASE ToolEnds
  <2>1. pending' = <<>> /\ lastId \in Nat
    BY <1>1, <1>6 DEF ToolEnds, AgentPlaces, TypeInv, TextTypes
  <2>. QED
    BY <1>2, <1>4, <1>6, <2>1, MadeTypes, PlacesParts DEF ToolEnds
<1>7. ASSUME NEW k \in ReplyKinds \cup {"aborted"}, Respond(k) PROVE Places'
  <2>1. pending' = <<>> /\ lastId \in Nat
    BY <1>1, <1>7 DEF Respond, AgentPlaces, TypeInv, TextTypes
  <2>2. Made("assistant", k) \in Plain
    BY <2>1, MadeTypes DEF Kinds
  <2>. QED
    BY <1>2, <1>4, <1>7, <2>1, <2>2, PlacesParts DEF Respond
<1>8. \A q \in Seq(Given) : <<Head(q)>> # <<>>
  BY HeldIs
<1>9. ASSUME NEW p \in {"call", "end", "tool"}, GoTo(p), pending = <<>>, writing' = <<>>,
             UNCHANGED loopVars, phase # "idle"
      PROVE  Places'
  <2>1. AgentPlaces' /\ phase' \in Phases \ {"idle"}
    BY <1>9 DEF AgentPlaces, GoTo, Phases
  <2>. QED
    BY <1>2, <1>3, <1>9, <2>1, PlacesParts
<1>10. ASSUME TakeSteering \/ TakeFollowUp, writing' = <<>>, UNCHANGED loopVars, phase # "idle"
       PROVE  Places'
  <2>1. AgentPlaces' /\ phase' \in Phases \ {"idle"}
    BY <1>10, HeldIs DEF AgentPlaces, TakeSteering, TakeFollowUp, Phases
  <2>. QED
    BY <1>2, <1>3, <1>10, <2>1, PlacesParts
<1>11. CASE MessagePersisted
  <2>1. /\ phase = "writing" /\ pending = <<>> /\ writing' = <<>> /\ UNCHANGED loopVars
        /\ AfterMessage(writing[1])
    BY <1>1, <1>11 DEF MessagePersisted, AgentPlaces
  <2>2. \/ \E p \in {"call", "end", "tool"} : GoTo(p)
        \/ TakeSteering \/ TakeFollowUp
    BY <2>1 DEF AfterMessage, Poll
  <2>. QED
    BY <1>9, <1>10, <2>1, <2>2
<1>12. CASE FirstPoll
  <2>1. /\ phase = "poll" /\ pending = <<>> /\ writing' = <<>> /\ UNCHANGED loopVars
        /\ Poll("call")
    BY <1>1, <1>12 DEF FirstPoll, AgentPlaces
  <2>2. GoTo("call") \/ TakeSteering
    BY <2>1 DEF Poll
  <2>. QED
    BY <1>9, <1>10, <2>1, <2>2
<1>13. CASE FinishRun
  BY <1>1, <1>2, <1>13, PlacesParts DEF FinishRun, AgentPlaces, LoopPlaces, Phases, Awaiting
<1>. QED
  BY <1>5, <1>6, <1>7, <1>11, <1>12, <1>13 DEF AgentStep

LEMMA PlacesPrompt ==
    ASSUME TypeInv, PromptStep \/ Prompt PROVE Places'
<1>1. Places /\ AgentPlaces /\ LoopPlaces /\ ManualPlaces
  BY PlacesParts DEF TypeInv
<1>2. phase = "idle" /\ pending = <<>> /\ writing = <<>>
  BY DEF TypeInv, Places, PromptStep, Prompt, CheckBeforePrompt, HandlePostAgentRun, Cancelled,
         Continue, ContinueRefused, Slept, CompactionFails, CompactionSaved, CompactionEnds,
         RunPrompt
<1>3. ManualPlaces'
  BY <1>1 DEF ManualPlaces, manualVars, PromptStep, Prompt, CheckBeforePrompt,
              HandlePostAgentRun, Cancelled, Continue, ContinueRefused, Slept, CompactionFails,
              CompactionSaved, CompactionEnds, RunPrompt
<1>4. ASSUME UNCHANGED agentVars, LoopPlaces' PROVE Places'
  BY <1>1, <1>3, <1>4, PlacesParts DEF AgentPlaces, agentVars
<1>5. ASSUME UNCHANGED agentVars, Begins PROVE Places'
  BY <1>1, <1>2, <1>4, <1>5 DEF Begins, LoopPlaces, agentVars, Awaiting
<1>6. ASSUME UNCHANGED agentVars, pc' \in {"idle"} \cup (Awaiting \ {"compacting"}),
             stage' \in {"check", "before", "main"}, reason' \in {reason, "none"},
             prepared' = <<>> \/ (prepared' = prepared /\ pc # "compacting")
      PROVE  Places'
  <2>1. LoopPlaces'
    BY <1>1, <1>2, <1>6 DEF LoopPlaces, agentVars, Awaiting
  <2>. QED
    BY <1>4, <1>6, <2>1
<1>7. ASSUME UNCHANGED agentVars, Settles, pc # "compacting" PROVE Places'
  BY <1>1, <1>6, <1>7 DEF Settles, LoopPlaces, Awaiting
<1>8. CASE CheckBeforePrompt \/ Cancelled
  <2>1. CASE Begins \/ Settles
    BY <1>5, <1>7, <1>8, <2>1 DEF CheckBeforePrompt, Cancelled
  <2>2. CASE NothingToContinue /\ UNCHANGED <<overflowRecoveryAttempted, reason, prepared>>
    BY <1>1, <1>6, <1>8, <2>2, EndsAt DEF CheckBeforePrompt, Cancelled, Awaiting, LoopPlaces
  <2>. QED
    BY <1>8, <2>1, <2>2, CheckIs DEF CheckBeforePrompt, Cancelled
<1>9. CASE HandlePostAgentRun
  <2>1. UNCHANGED agentVars /\ pc = "ran"
    BY <1>9 DEF HandlePostAgentRun
  <2>2. CASE Begins \/ Settles
    BY <1>5, <1>7, <2>1, <2>2
  <2>3. ASSUME NEW m, WaitForRetry(m) PROVE Places'
    BY <1>1, <1>6, <2>1, <2>3 DEF WaitForRetry, Awaiting, LoopPlaces
  <2>4. CASE LoopEnds /\ UNCHANGED <<reason, prepared>>
    BY <1>1, <1>6, <2>1, <2>4 DEF LoopEnds, Awaiting
  <2>. QED
    BY <1>9, <2>2, <2>3, <2>4, CheckIs DEF HandlePostAgentRun, GiveUp
<1>10. CASE ContinueRefused \/ Prompt \/ Slept
  BY <1>1, <1>6, <1>10 DEF ContinueRefused, Prompt, Slept, Awaiting, LoopPlaces
<1>11. CASE CompactionFails
  BY <1>1, <1>6, <1>11, EndsAt DEF CompactionFails, AutoCompactionOver, Awaiting, LoopPlaces
<1>12. CASE CompactionSaved
  BY <1>1, <1>6, <1>12 DEF CompactionSaved, Awaiting, LoopPlaces
<1>13. CASE CompactionEnds
  BY <1>1, <1>6, <1>13, EndsAt
  DEF CompactionEnds, AutoCompactionOver, ToContinue, Awaiting, LoopPlaces
<1>14. ASSUME NEW ms, NEW poll, StartRun(ms, poll), pc' = "run", pc # "compacting",
              UNCHANGED <<stage, reason, prepared>>
       PROVE  Places'
  <2>1. AgentPlaces' /\ phase' \in Phases \ {"idle"}
    BY <1>2, <1>14 DEF StartRun, AgentPlaces, Phases
  <2>2. LoopPlaces'
    BY <1>1, <1>14, <2>1 DEF LoopPlaces
  <2>. QED
    BY <1>3, <2>1, <2>2, PlacesParts
<1>15. CASE Continue \/ RunPrompt
  BY <1>14, <1>15 DEF Continue, RunPrompt
<1>. QED
  BY <1>8, <1>9, <1>10, <1>11, <1>12, <1>13, <1>15 DEF PromptStep

LEMMA PlacesApplication ==
    ASSUME TypeInv, Application \/ compact \/ CompactStep PROVE Places'
<1>1. Places /\ AgentPlaces /\ LoopPlaces /\ ManualPlaces
  BY PlacesParts DEF TypeInv
<1>2. AgentPlaces'
  BY <1>1 DEF AgentPlaces, agentVars, Application, steer, followUp, sendCustomMessage,
              recordBashResult, clearQueue, abortRetry, abort, abortCompaction, compact,
              CompactStep, ManualPrepare, ManualFails, ManualSaved, ManualEnds
<1>3. /\ UNCHANGED <<phase, stage, reason, prepared>>
      /\ pc' \in {pc, IF pc = "sleep" THEN "cancelled" ELSE pc}
  <2>1. CASE steer \/ followUp \/ sendCustomMessage \/ recordBashResult \/ clearQueue
             \/ CompactStep
    BY <2>1 DEF agentVars, loopVars, steer, followUp, sendCustomMessage, recordBashResult,
                clearQueue, CompactStep, ManualPrepare, ManualFails, ManualSaved, ManualEnds
  <2>2. CASE abortRetry \/ abort \/ abortCompaction \/ compact
    BY <2>2 DEF agentVars, AbortRetry, abortRetry, abort, abortCompaction, compact
  <2>. QED
    BY <2>1, <2>2 DEF Application
<1>4. LoopPlaces'
  BY <1>1, <1>3 DEF LoopPlaces, Awaiting
<1>5. CASE steer \/ followUp \/ sendCustomMessage \/ recordBashResult \/ clearQueue
           \/ abortRetry \/ abort
  <2>1. ManualPlaces'
    BY <1>1, <1>5 DEF steer, followUp, sendCustomMessage, recordBashResult, clearQueue,
                      abortRetry, abort, manualVars, ManualPlaces
  <2>. QED
    BY <1>2, <1>4, <2>1, PlacesParts
<1>6. CASE abortCompaction
  BY <1>1, <1>2, <1>4, <1>6, PlacesParts DEF abortCompaction, ManualPlaces
<1>7. CASE compact
  <2>1. ManualPlaces'
    BY <1>1, <1>7 DEF compact, ManualPlaces
  <2>. QED
    BY <1>2, <1>4, <2>1, PlacesParts
<1>8. CASE CompactStep
  <2>1. \A p : <<p>> # <<>>
    OBVIOUS
  <2>2. ManualPlaces'
    BY <1>1, <1>8, <2>1 DEF CompactStep, ManualPrepare, ManualFails, ManualSaved, ManualEnds,
                            Prepared, ManualPlaces
  <2>. QED
    BY <1>2, <1>4, <2>2, PlacesParts
<1>. QED
  BY <1>5, <1>6, <1>7, <1>8 DEF Application

LEMMA TypePlaces == ASSUME TypeInv, [Next]_vars PROVE Places'
<1>1. CASE UNCHANGED vars
  BY <1>1 DEF vars, agentVars, loopVars, manualVars, TypeInv, Places
<1>2. CASE Next
  BY <1>2, PlacesAgent, PlacesPrompt, PlacesApplication DEF Next
<1>. QED
  BY <1>1, <1>2

LEMMA InitTypes == Init => TypeInv
<1>. SUFFICES ASSUME Init PROVE TypeInv
  OBVIOUS
<1>1. AllSplit(<<>>) /\ <<>> \in Seq(Msg) /\ <<>> \in Seq(Bash) /\ <<>> \in Seq(Given)
      /\ <<>> \in Seq(Texts)
  BY DEF AllSplit
<1>2. TextTypes
  BY <1>1 DEF Init, TextTypes
<1>3. WaitingTypes /\ PrepTypes
  BY <1>1, HeldIs DEF Init, WaitingTypes, PrepTypes
<1>4. RunTypes
  <2>1. 0 \in 0..MaxRetries /\ 0 \in Nat
    BY BoundAssumption
  <2>2. <<>> \in Held(Plain)
    BY HeldIs
  <2>. QED
    BY <2>1, <2>2 DEF Init, RunTypes
<1>5. Places
  BY DEF Init, Places
<1>. QED
  BY <1>2, <1>3, <1>4, <1>5 DEF TypeInv

LEMMA NextTypes == TypeInv /\ [Next]_vars => TypeInv'
<1>. SUFFICES ASSUME TypeInv, [Next]_vars PROVE TypeInv'
  OBVIOUS
<1>1. TextStep /\ QueueStep
  BY NextText, NextQueue
<1>2. TextTypes' /\ WaitingTypes'
  BY <1>1, TypeText, TypeWaiting, CounterGrows
<1>3. RunTypes' /\ PrepTypes' /\ Places'
  BY <1>1, TypeRun, TypePrep, TypePlaces
<1>. QED
  BY <1>2, <1>3 DEF TypeInv

(* Whatever the provider answers and the application does, with any number *)
(* of messages, compactions and retries: the variables of the session have *)
(* their types, prompt(), the run and compact() are at places where they   *)
(* may be together, and each compaction, saved or prepared, accounts for   *)
(* the messages before the first one it keeps, which is no tool result: it *)
(* covers them, or an earlier compaction did and its summary is dropped by *)
(* the "No prior history." of a split turn.                                *)
THEOREM Types == Spec => []TypeInv
BY InitTypes, NextTypes, PTL DEF Spec

-----------------------------------------------------------------------------
(* compact() is only called while nothing runs.                            *)

Quiet ==
    /\ manual # "none" => pc = "idle" /\ manual # "waiting"
    /\ phase = "writing" => heard = TRUE
    /\ pc = "idle" => pendingBashMessages = <<>>

LEMMA InitQuiet == Init => Quiet
BY DEF Init, Quiet

LEMMA NextQuiet ==
    ASSUME QuietCompact = TRUE, TypeInv, Quiet, [Next]_vars PROVE Quiet'
<1>1. /\ phase # "idle" <=> pc = "run"
      /\ manual = "none" <=> connected = TRUE
      /\ phase = "writing" <=> writing # <<>>
      /\ manual # "none" => pc = "idle" /\ manual # "waiting"
      /\ phase = "writing" => heard = TRUE
      /\ pc = "idle" => pendingBashMessages = <<>>
  BY DEF TypeInv, Places, Quiet
<1>2. CASE UNCHANGED vars
  BY <1>2 DEF Quiet, vars, agentVars, loopVars, manualVars
<1>3. CASE AgentStep
  <2>1. pc = "run" /\ manual = "none" /\ connected = TRUE
    BY <1>1, <1>3 DEF AgentStep, Deliver, ToolEnds, MessagePersisted, FirstPoll, FinishRun, Respond
  <2>2. pc' \in {"run", "ran"} /\ manual' = "none"
    BY <1>3, <2>1 DEF AgentStep, Deliver, ToolEnds, MessagePersisted, FirstPoll, FinishRun,
                     Respond, Finished, loopVars, manualVars
  <2>3. CASE Deliver \/ ToolEnds \/ \E k \in ReplyKinds \cup {"aborted"} : Respond(k)
    BY <2>1, <2>2, <2>3 DEF Deliver, ToolEnds, Respond, Finished, Quiet
  <2>4. CASE MessagePersisted \/ FirstPoll \/ FinishRun
    <3>1. phase' # "writing"
      BY <2>4 DEF MessagePersisted, FirstPoll, FinishRun, AfterMessage, Poll, GoTo, TakeSteering,
                  TakeFollowUp
    <3>. QED
      BY <2>2, <3>1 DEF Quiet
  <2>. QED
    BY <1>3, <2>3, <2>4 DEF AgentStep
<1>4. CASE PromptStep \/ Prompt
  <2>1. phase = "idle" /\ manual = "none" /\ UNCHANGED manual /\ phase' # "writing"
    BY <1>1, <1>4
    DEF PromptStep, Prompt, CheckBeforePrompt, HandlePostAgentRun, Cancelled, Continue,
        ContinueRefused, Slept, CompactionFails, CompactionSaved, CompactionEnds, RunPrompt,
        StartRun, manualVars, agentVars
  <2>2. NothingToContinue => (pc' = "idle" => pendingBashMessages' = <<>>)
    BY DEF NothingToContinue, LoopEnds, Flush
  <2>3. \A m : CheckCompaction(m) => (pc' = "idle" => pendingBashMessages' = <<>>)
    BY <2>2 DEF CheckCompaction, BeginCompaction
  <2>4. pc' = "idle" => pendingBashMessages' = <<>>
    BY <1>4, <2>2, <2>3
    DEF PromptStep, Prompt, CheckBeforePrompt, HandlePostAgentRun, Cancelled, Continue,
        ContinueRefused, Slept, CompactionFails, CompactionSaved, CompactionEnds, RunPrompt,
        LoopEnds, Flush, ToContinue, GiveUp, WaitForRetry
  <2>. QED
    BY <2>1, <2>4 DEF Quiet
<1>5. CASE CompactStep
  BY <1>1, <1>5 DEF CompactStep, ManualPrepare, ManualFails, ManualSaved, ManualEnds, agentVars,
                    loopVars, Quiet
<1>6. CASE compact
  BY <1>1, <1>6 DEF compact, AbortRetry, isStreaming, Quiet
<1>7. CASE Application
  <2>1. CASE recordBashResult
    BY <1>1, <2>1 DEF recordBashResult, agentVars, loopVars, manualVars, isStreaming, Quiet
  <2>2. CASE steer \/ followUp \/ sendCustomMessage \/ clearQueue
    BY <1>1, <2>2 DEF steer, followUp, sendCustomMessage, clearQueue, agentVars, loopVars,
                      manualVars, Quiet
  <2>3. CASE abortRetry \/ abort \/ abortCompaction
    BY <1>1, <2>3 DEF abortRetry, abort, abortCompaction, AbortRetry, agentVars, manualVars, Quiet
  <2>. QED
    BY <1>7, <2>1, <2>2, <2>3 DEF Application
<1>. QED
  BY <1>2, <1>3, <1>4, <1>5, <1>6, <1>7 DEF Next

-----------------------------------------------------------------------------
(* What the messages, the entries and the last answer have to do with each *)
(* other.                                                                  *)

(* The message whose listeners run is the last one said.                   *)
WriteInv == writing # <<>> => messages # <<>> /\ Last(messages) = writing[1]

(* A run ends with an answer that has been written.                        *)
Ended == phase = "end" \/ pc = "ran"
EndsInv ==
    Ended =>
        /\ messages # <<>> /\ entries # <<>> /\ Last(messages) = Last(entries)
        /\ lastAssistantMessage = <<Last(messages)>> /\ IsAssistant(Last(messages))

(* A retry waits after an error.                                           *)
SleepInv ==
    pc \in {"sleep", "cancelled"} =>
        LastAnswer(entries) # {} /\ \A e \in LastAnswer(entries) : e.kind = "error"

(* The last answer of the session is the agent's, or was taken back.       *)
AnswerInv ==
    LastAnswer(messages) # {} =>
        \A e \in LastAnswer(entries \o writing) : e \in LastAnswer(messages) \/ TakenBack(e)

(* A compaction for an overflow follows an answer that was taken back.     *)
OverflowInv ==
    pc \in {"compacting", "compacted"} /\ reason = "overflow" =>
        \A e \in LastAnswer(entries) : TakenBack(e)

(* After a compaction the last answer is the session's.                    *)
RebuiltInv == pc = "compacted" => LastAnswer(messages) \subseteq LastAnswer(entries)

(* What lasts of the agent's messages is what a restart would rebuild.     *)
ContextInv ==
    Among(messages, Stays) =
        Among(BuildSessionContext(entries), Stays) \o Among(writing, Stays)

Conversation ==
    /\ WriteInv /\ EndsInv /\ SleepInv /\ AnswerInv /\ OverflowInv /\ RebuiltInv
    /\ ContextInv

LEMMA LastAppend ==
    ASSUME NEW M, NEW s \in Seq(M), NEW e \in M
    PROVE  Append(s, e) # <<>> /\ Last(Append(s, e)) = e
BY AppendProperties, LenProperties DEF Last

(* What a check takes back overflowed.                                     *)
LEMMA CheckTakes ==
    ASSUME NEW m, CheckCompaction(m)
    PROVE  \/ Flush \/ UNCHANGED textVars
           \/ /\ messages' = WithoutLastAssistant /\ UNCHANGED <<entries, pendingBashMessages>>
              /\ ContextOverflow(m)
BY NothingText DEF CheckCompaction, textVars

TakesBack ==
    /\ Takes
    /\ messages # <<>> /\ IsAssistant(Last(messages)) => TakenBack(Last(messages))

LEMMA PromptTakes ==
    ASSUME TypeInv, Conversation, PromptStep
    PROVE  Silent \/ Flushes \/ TakesBack \/ \E p \in Preps : Compacts(p)
<1>1. /\ messages \in Seq(Msg) /\ entries \in Seq(Msg)
      /\ EndsInv /\ SleepInv /\ OverflowInv /\ RebuiltInv
  BY DEF TypeInv, TextTypes, Conversation
<1>2. \A m : ContextOverflow(m) => TakenBack(m)
  BY DEF ContextOverflow, TakenBack
<1>3. ASSUME messages # <<>>, IsAssistant(Last(messages))
      PROVE  LastAnswer(messages) = {Last(messages)}
  BY <1>1, <1>3, AnswerLast
<1>4. ASSUME CheckBeforePrompt PROVE Silent \/ Flushes \/ TakesBack
  <2>. DEFINE i == SelectLastInSeq(messages, IsAssistant)
  <2>1. phase = "idle" /\ UNCHANGED <<writing, heard, lastId>>
    BY <1>4 DEF CheckBeforePrompt, agentVars, TypeInv, Places
  <2>2. CASE i = 0
    BY <1>4, <2>1, <2>2, NothingText DEF CheckBeforePrompt, Silent, Flushes
  <2>3. CASE i # 0
    <3>1. CheckCompaction(messages[i]) /\ LastAnswer(messages) = {messages[i]}
      BY <1>1, <1>4, <2>3, AnswerIndex DEF CheckBeforePrompt
    <3>. HIDE DEF i
    <3>2. ContextOverflow(messages[i]) =>
            (messages # <<>> /\ IsAssistant(Last(messages)) => TakenBack(Last(messages)))
      BY <1>2, <1>3, <3>1
    <3>. QED
      BY <2>1, <3>1, <3>2, CheckTakes DEF Silent, Flushes, TakesBack, Takes
  <2>. QED
    BY <2>2, <2>3
<1>5. ASSUME HandlePostAgentRun PROVE Silent \/ Flushes \/ TakesBack
  <2>1. phase = "idle" /\ UNCHANGED <<writing, heard, lastId>>
    BY <1>5 DEF HandlePostAgentRun, agentVars, TypeInv, Places
  <2>2. lastAssistantMessage = <<Last(messages)>>
    BY <1>1, <1>5 DEF HandlePostAgentRun, EndsInv, Ended
  <2>3. WaitForRetry(Last(messages)) \/ GiveUp(Last(messages))
    BY <1>5, <2>2 DEF HandlePostAgentRun
  <2>4. CASE WaitForRetry(Last(messages))
    BY <2>1, <2>4 DEF WaitForRetry, MayRetry, TakesBack, Takes, TakenBack
  <2>5. CASE GiveUp(Last(messages))
    BY <1>2, <2>1, <2>5, CheckTakes DEF GiveUp, Silent, Flushes, TakesBack, Takes
  <2>. QED
    BY <2>3, <2>4, <2>5
<1>6. ASSUME Cancelled PROVE Silent \/ Flushes
  <2>. DEFINE i == SelectLastInSeq(entries, IsAssistant)
  <2>1. phase = "idle" /\ UNCHANGED <<writing, heard, lastId>>
    BY <1>6 DEF Cancelled, agentVars, TypeInv, Places
  <2>2. LastAnswer(entries) # {} /\ \A e \in LastAnswer(entries) : e.kind = "error"
    BY <1>1, <1>6 DEF Cancelled, SleepInv
  <2>3. entries[i].kind = "error"
    BY <1>1, <2>2, AnswerIndex
  <2>4. CheckCompaction(entries[i])
    BY <1>6 DEF Cancelled
  <2>. HIDE DEF i
  <2>. QED
    BY <2>1, <2>3, <2>4, CheckTakes DEF ContextOverflow, Silent, Flushes
<1>7. ASSUME CompactionEnds PROVE Silent \/ Flushes \/ TakesBack
  <2>1. phase = "idle" /\ UNCHANGED <<writing, heard, lastId>>
    BY <1>7 DEF CompactionEnds, agentVars, TypeInv, Places
  <2>2. CASE reason = "overflow"
    <3>1. messages # <<>> /\ IsAssistant(Last(messages)) => TakenBack(Last(messages))
      BY <1>1, <1>3, <1>7, <2>2 DEF CompactionEnds, OverflowInv, RebuiltInv
    <3>. QED
      BY <1>7, <2>1, <2>2, <3>1 DEF CompactionEnds, Silent, textVars, TakesBack, Takes
  <2>3. CASE reason # "overflow"
    BY <1>7, <2>1, <2>3, NothingText DEF CompactionEnds, Silent, textVars, Flushes
  <2>. QED
    BY <2>2, <2>3
<1>8. CASE Continue \/ RunPrompt \/ Slept
  BY <1>8 DEF Continue, RunPrompt, Slept, StartRun, Silent, textVars, agentVars
<1>9. CASE ContinueRefused \/ CompactionFails
  BY <1>9, NothingText
  DEF ContinueRefused, CompactionFails, TypeInv, Places, Silent, textVars, Flushes, agentVars
<1>10. CASE CompactionSaved
  <2>1. prepared \in Held(Preps) /\ prepared # <<>> /\ Splits(entries, Len(entries), prepared[1])
    BY <1>10 DEF CompactionSaved, TypeInv, PrepTypes
  <2>2. prepared[1] \in Preps
    BY <2>1, HeldIs
  <2>. QED
    BY <1>10, <2>1, <2>2 DEF CompactionSaved, Compacts, agentVars
<1>. QED
  BY <1>4, <1>5, <1>6, <1>7, <1>8, <1>9, <1>10 DEF PromptStep

QuietText ==
    \/ Silent \/ Hears \/ Flushes \/ TakesBack
    \/ \E m \in Plain : Says(m) \/ Recording(m)
    \/ \E n \in Bash : Waits(n)
    \/ \E p \in Preps : phase = "idle" /\ Compacts(p)

LEMMA NextQuietText ==
    ASSUME TypeInv, Quiet, Conversation, [Next]_vars PROVE QuietText
<1>1. CASE UNCHANGED vars
  BY <1>1 DEF vars, agentVars, QuietText, Silent, textVars
<1>2. CASE AgentStep
  BY <1>2, AgentText DEF QuietText
<1>3. CASE Prompt
  BY <1>3 DEF Prompt, isStreaming, Flushes, agentVars, QuietText
<1>4. CASE PromptStep
  <2>1. phase = "idle"
    BY <1>4
    DEF TypeInv, Places, PromptStep, CheckBeforePrompt, HandlePostAgentRun, Cancelled,
        Continue, ContinueRefused, Slept, CompactionFails, CompactionSaved, CompactionEnds,
        RunPrompt
  <2>. QED
    BY <1>4, <2>1, PromptTakes DEF QuietText
<1>5. CASE ManualSaved
  <2>1. phase = "idle"
    BY <1>5 DEF ManualSaved, TypeInv, Places, Quiet
  <2>2. \E p \in Preps : Compacts(p)
    <3>1. manualPrepared \in Held(Preps) /\ manualPrepared # <<>>
          /\ Splits(entries, Len(entries), manualPrepared[1])
      BY <1>5 DEF ManualSaved, TypeInv, PrepTypes, Places
    <3>2. manualPrepared[1] \in Preps
      BY <3>1, HeldIs
    <3>. QED
      BY <1>5, <3>1, <3>2 DEF ManualSaved, Compacts, agentVars
  <2>. QED
    BY <2>1, <2>2 DEF QuietText
<1>6. CASE ManualPrepare \/ ManualFails \/ ManualEnds \/ compact
  BY <1>6 DEF ManualPrepare, ManualFails, ManualEnds, compact, QuietText, Silent, textVars,
              agentVars
<1>7. CASE Application
  <2>1. CASE steer \/ followUp \/ clearQueue \/ abortRetry \/ abort \/ abortCompaction
    BY <2>1 DEF steer, followUp, clearQueue, abortRetry, abort, abortCompaction, agentVars,
                QuietText, Silent, textVars
  <2>2. CASE sendCustomMessage \/ recordBashResult
    BY <2>2, ApplicationCustom, ApplicationBash DEF QuietText
  <2>. QED
    BY <1>7, <2>1, <2>2 DEF Application
<1>. QED
  BY <1>2, <1>3, <1>4, <1>5, <1>6, <1>7, <1>1 DEF Next, CompactStep

LEMMA WriteNext ==
    ASSUME TypeInv, Quiet, Conversation, QuietText PROVE WriteInv'
<1>1. /\ messages \in Seq(Msg) /\ writing \in Held(Plain) /\ WriteInv
      /\ phase = "writing" <=> writing # <<>>
  BY DEF TypeInv, TextTypes, WaitingTypes, Places, Conversation
<1>2. CASE Silent
  BY <1>1, <1>2 DEF Silent, textVars, WriteInv
<1>3. CASE Hears
  BY <1>3 DEF Hears, WriteInv
<1>4. CASE Flushes \/ TakesBack \/ \E m \in Plain : Recording(m)
  BY <1>1, <1>4 DEF Flushes, TakesBack, Takes, Recording, WriteInv
<1>5. ASSUME NEW m \in Plain, Says(m) PROVE WriteInv'
  <2>1. messages' = Append(messages, m) /\ writing'[1] = m
    BY <1>5 DEF Says
  <2>. QED
    BY <1>1, <2>1, LastAppend, GivenPlain DEF WriteInv
<1>6. ASSUME NEW n \in Bash, Waits(n) PROVE WriteInv'
  BY <1>1, <1>6 DEF Waits, WriteInv
<1>7. ASSUME NEW p \in Preps, phase = "idle", Compacts(p) PROVE WriteInv'
  BY <1>1, <1>7 DEF Compacts, WriteInv
<1>. QED
  BY <1>2, <1>3, <1>4, <1>5, <1>6, <1>7 DEF QuietText

(* Messages that are no answers, at the end.                               *)
LEMMA AnswerSaid ==
    ASSUME NEW t \in Seq(Msg), \A i \in 1..Len(t) : ~IsAssistant(t[i])
    PROVE  \A s \in Seq(Msg) : LastAnswer(s \o t) = LastAnswer(s)
<1>1. LastAnswer(t) = {}
  BY LenProperties DEF LastAnswer
<1>. QED
  BY <1>1, AnswerConcat

LEMMA HearsIs ==
    ASSUME TypeInv, Quiet, Hears
    PROVE  /\ entries' = entries \o writing /\ writing \in Seq(Plain) /\ writing' = <<>>
           /\ entries \o writing \in Seq(Msg) /\ entries' \o writing' = entries \o writing
<1>1. entries \in Seq(Msg) /\ writing \in Held(Plain) /\ writing # <<>> /\ heard = TRUE
  BY DEF TypeInv, TextTypes, WaitingTypes, Places, Quiet, Hears
<1>2. writing[1] \in Plain /\ writing = <<writing[1]>> /\ writing \in Seq(Plain)
  BY <1>1, HeldIs DEF Held
<1>3. Append(entries, writing[1]) = entries \o <<writing[1]>>
  BY <1>1, <1>2, AppendIsConcat, GivenPlain
<1>4. entries' = entries \o writing /\ writing' = <<>>
  BY <1>1, <1>2, <1>3 DEF Hears
<1>5. entries \o writing \in Seq(Msg)
  BY <1>1, <1>2, PlainSeq, ConcatProperties
<1>6. \A u \in Seq(Msg) : u \o <<>> = u
  BY ConcatEmptySeq
<1>. QED
  BY <1>2, <1>4, <1>5, <1>6

LEMMA AnswerNext ==
    ASSUME TypeInv, Quiet, Conversation, QuietText, TypeInv' PROVE AnswerInv'
<1>1. /\ messages \in Seq(Msg) /\ entries \in Seq(Msg) /\ writing \in Held(Plain) /\ AnswerInv
      /\ phase = "writing" <=> writing # <<>>
      /\ entries' \in Seq(Msg) /\ AllSplit(entries')
  BY DEF TypeInv, TextTypes, WaitingTypes, Places, Conversation
<1>2. \A u \in Seq(Msg) : u \o <<>> = u
  BY ConcatEmptySeq
<1>3. \A u \in Seq(Msg), m \in Msg :
        LastAnswer(Append(u, m)) = IF IsAssistant(m) THEN {m} ELSE LastAnswer(u)
  BY AnswerAppend
<1>4. CASE Silent
  BY <1>1, <1>4 DEF Silent, textVars, AnswerInv
<1>5. CASE Hears
  BY <1>1, <1>5, HearsIs DEF Hears, AnswerInv
<1>6. CASE Flushes
  <2>. DEFINE t == pendingBashMessages
  <2>1. t \in Seq(Bash) /\ writing = <<>> /\ writing' = <<>>
    BY <1>1, <1>6 DEF Flushes, TypeInv, TextTypes
  <2>2. t \in Seq(Msg) /\ \A i \in 1..Len(t) : ~IsAssistant(t[i])
    <3>1. \A i \in 1..Len(t) : t[i] \in Bash
      BY <2>1, LenProperties
    <3>. QED
      BY <2>1, <3>1, BashSeq, PlainSeq DEF Bash, IsAssistant
  <2>3. messages' = messages \o t /\ entries' = entries \o t
    BY <1>6 DEF Flushes, Flush
  <2>. HIDE DEF t
  <2>4. LastAnswer(messages') = LastAnswer(messages) /\ LastAnswer(entries') = LastAnswer(entries)
    BY <1>1, <2>2, <2>3, AnswerSaid
  <2>5. entries' \o writing' = entries' /\ entries \o writing = entries
    BY <1>1, <1>2, <2>1
  <2>. QED
    BY <1>1, <2>4, <2>5 DEF AnswerInv
<1>7. CASE TakesBack
  <2>1. /\ UNCHANGED <<entries, writing>> /\ messages' = WithoutLastAssistant
        /\ writing = <<>>
    BY <1>1, <1>7 DEF TakesBack, Takes
  <2>2. CASE messages # <<>> /\ IsAssistant(Last(messages))
    <3>1. LastAnswer(messages) = {Last(messages)} /\ TakenBack(Last(messages))
      BY <1>1, <1>7, <2>2, AnswerLast DEF TakesBack
    <3>2. \A e \in LastAnswer(entries \o writing) : TakenBack(e)
      BY <1>1, <3>1 DEF AnswerInv
    <3>. QED
      BY <2>1, <3>2 DEF AnswerInv
  <2>3. CASE ~(messages # <<>> /\ IsAssistant(Last(messages)))
    BY <1>1, <2>1, <2>3 DEF WithoutLastAssistant, AnswerInv
  <2>. QED
    BY <2>2, <2>3
<1>8. ASSUME NEW m \in Plain, Says(m) PROVE AnswerInv'
  <2>1. /\ writing = <<>> /\ entries' = entries /\ writing' = <<m>>
        /\ messages' = Append(messages, m) /\ m \in Msg
    BY <1>1, <1>8, GivenPlain DEF Says
  <2>2. entries \o <<m>> = Append(entries, m)
    BY <1>1, <2>1, AppendIsConcat
  <2>3. entries \o <<>> = entries
    BY <1>1, <1>2
  <2>4. LastAnswer(Append(entries, m)) = IF IsAssistant(m) THEN {m} ELSE LastAnswer(entries)
    BY <1>1, <1>3, <2>1
  <2>5. LastAnswer(Append(messages, m)) = IF IsAssistant(m) THEN {m} ELSE LastAnswer(messages)
    BY <1>1, <1>3, <2>1
  <2>. QED
    BY <1>1, <2>1, <2>2, <2>3, <2>4, <2>5 DEF AnswerInv
<1>9. ASSUME NEW m \in Plain, Recording(m) PROVE AnswerInv'
  <2>1. /\ writing = <<>> /\ writing' = <<>> /\ entries' = Append(entries, m)
        /\ messages' = Append(messages, m) /\ m \in Msg /\ ~IsAssistant(m)
    BY <1>1, <1>9, GivenPlain DEF Recording, Recorded, IsAssistant
  <2>2. LastAnswer(messages') = LastAnswer(messages) /\ LastAnswer(entries') = LastAnswer(entries)
    BY <1>1, <1>3, <2>1
  <2>3. entries' \o writing' = entries' /\ entries \o writing = entries
    BY <1>1, <1>2, <2>1
  <2>. QED
    BY <1>1, <2>2, <2>3 DEF AnswerInv
<1>10. ASSUME NEW n \in Bash, Waits(n) PROVE AnswerInv'
  BY <1>1, <1>10 DEF Waits, AnswerInv
<1>11. ASSUME NEW p \in Preps, phase = "idle", Compacts(p) PROVE AnswerInv'
  <2>1. writing' = <<>> /\ messages' = BuildSessionContext(entries')
    BY <1>1, <1>11 DEF Compacts, Compacted
  <2>2. entries' \o writing' = entries'
    BY <1>1, <1>2, <2>1
  <2>. DEFINE es == entries'
  <2>. HIDE DEF es
  <2>3. es \in Seq(Msg) /\ AllSplit(es)
    BY <1>1 DEF es
  <2>4. LastAnswer(BuildSessionContext(es)) # {}
          => LastAnswer(BuildSessionContext(es)) = LastAnswer(es)
    BY <2>3, BuiltAnswer
  <2>. QED
    BY <2>1, <2>2, <2>4 DEF AnswerInv, es
<1>. QED
  BY <1>4, <1>5, <1>6, <1>7, <1>8, <1>9, <1>10, <1>11 DEF QuietText

(* What is said lasts in both.                                             *)
LEMMA ContextGrows ==
    ASSUME TypeInv, ContextInv, writing = <<>>
    PROVE  \A t \in Seq(Plain) :
              /\ Among(messages \o t, Stays) = Among(messages, Stays) \o Among(t, Stays)
              /\ Among(messages \o t, Stays) = Among(BuildSessionContext(entries \o t), Stays)
<1>. SUFFICES ASSUME NEW t \in Seq(Plain)
     PROVE  /\ Among(messages \o t, Stays) = Among(messages, Stays) \o Among(t, Stays)
            /\ Among(messages \o t, Stays) = Among(BuildSessionContext(entries \o t), Stays)
  OBVIOUS
<1>. DEFINE c == BuildSessionContext(entries)
<1>1. /\ messages \in Seq(Msg) /\ entries \in Seq(Msg) /\ AllSplit(entries)
      /\ t \in Seq(Msg)
  BY PlainSeq DEF TypeInv, TextTypes
<1>2. BuildSessionContext(entries \o t) = c \o t /\ c \in Seq(Msg)
  BY <1>1, BuiltLonger, BuiltSeq
<1>3. \A s \in Seq(Msg) : Among(s \o t, Stays) = Among(s, Stays) \o Among(t, Stays)
  BY <1>1, AmongConcat
<1>4. Among(messages, Stays) = Among(c, Stays)
  <2>1. Among(c, Stays) \in Seq(Msg \cap Stays)
    BY <1>2, AmongSeq
  <2>2. Among(c, Stays) \o <<>> = Among(c, Stays)
    BY <2>1, ConcatEmptySeq
  <2>. QED
    BY <2>2, AmongNone DEF ContextInv
<1>. HIDE DEF c
<1>. QED
  BY <1>1, <1>2, <1>3, <1>4

Rebuilt(es) == Among(BuildSessionContext(es), Stays)

LEMMA ContextNext ==
    ASSUME TypeInv, Quiet, Conversation, QuietText, TypeInv' PROVE ContextInv'
<1>1. /\ messages \in Seq(Msg) /\ entries \in Seq(Msg) /\ writing \in Held(Plain) /\ ContextInv
      /\ phase = "writing" <=> writing # <<>>
      /\ AllSplit(entries)
      /\ entries' \in Seq(Msg) /\ AllSplit(entries')
  BY DEF TypeInv, TextTypes, WaitingTypes, Places, Conversation
<1>2. \A es \in Seq(Msg) :
        AllSplit(es) => /\ Rebuilt(es) \in Seq(Msg)
                        /\ Rebuilt(es) \o Among(<<>>, Stays) = Rebuilt(es)
  <2>1. ASSUME NEW es \in Seq(Msg), AllSplit(es) PROVE Rebuilt(es) \in Seq(Msg)
    <3>1. Rebuilt(es) \in Seq(Msg \cap Stays) /\ Msg \cap Stays \subseteq Msg
      BY <2>1, BuiltSeq, AmongSeq DEF Rebuilt
    <3>. QED
      BY <3>1, SeqMonotonic
  <2>2. \A u \in Seq(Msg) : u \o <<>> = u
    BY ConcatEmptySeq
  <2>. QED
    BY <2>1, <2>2, AmongNone
<1>3. ASSUME writing' = <<>>, Among(messages', Stays) = Rebuilt(entries') PROVE ContextInv'
  BY <1>1, <1>2, <1>3 DEF ContextInv, Rebuilt
<1>4. ASSUME writing = <<>> PROVE Among(messages, Stays) = Rebuilt(entries)
  <2>1. Among(messages, Stays) = Rebuilt(entries) \o Among(<<>>, Stays)
    BY <1>1, <1>4 DEF ContextInv, Rebuilt
  <2>2. Rebuilt(entries) \o Among(<<>>, Stays) = Rebuilt(entries)
    BY <1>1, <1>2
  <2>. QED
    BY <2>1, <2>2
<1>5. CASE Silent
  BY <1>1, <1>5 DEF Silent, textVars, ContextInv
<1>6. CASE Hears
  <2>1. entries' = entries \o writing /\ writing \in Seq(Plain) /\ writing' = <<>>
        /\ messages' = messages
    BY <1>6, HearsIs DEF Hears
  <2>. DEFINE c == BuildSessionContext(entries)
  <2>2. BuildSessionContext(entries \o writing) = c \o writing
        /\ c \in Seq(Msg) /\ writing \in Seq(Msg)
    <3>1. writing \in Seq(Msg) /\ BuildSessionContext(entries) \in Seq(Msg)
      BY <1>1, <2>1, BuiltSeq, PlainSeq
    <3>2. \A t \in Seq(Plain) : BuildSessionContext(entries \o t) = c \o t
      BY <1>1, BuiltLonger
    <3>. QED
      BY <2>1, <3>1, <3>2
  <2>3. Among(messages, Stays) = Among(c, Stays) \o Among(writing, Stays)
    BY <1>1 DEF ContextInv
  <2>. HIDE DEF c
  <2>4. Among(c \o writing, Stays) = Among(c, Stays) \o Among(writing, Stays)
    BY <2>2, AmongConcat
  <2>. QED
    BY <1>3, <2>1, <2>2, <2>3, <2>4 DEF Rebuilt
<1>7. CASE Flushes
  <2>1. /\ pendingBashMessages \in Seq(Plain) /\ writing = <<>> /\ writing' = <<>>
        /\ messages' = messages \o pendingBashMessages
        /\ entries' = entries \o pendingBashMessages
    BY <1>1, <1>7, BashSeq DEF Flushes, Flush, TypeInv, TextTypes
  <2>. QED
    BY <1>1, <1>3, <2>1, ContextGrows DEF Rebuilt
<1>8. CASE TakesBack
  <2>1. /\ entries' = entries /\ messages' = WithoutLastAssistant
        /\ writing = <<>> /\ writing' = <<>>
    BY <1>1, <1>8 DEF TakesBack, Takes
  <2>2. CASE messages # <<>> /\ IsAssistant(Last(messages))
    <3>. DEFINE f == Front(messages)
                m == Last(messages)
    <3>1. f \in Seq(Msg) /\ m \in Msg /\ messages = Append(f, m) /\ m \notin Stays
      BY <1>1, <1>8, <2>2, FrontLast DEF TakesBack, Stays
    <3>2. messages' = f
      BY <2>1, <2>2 DEF WithoutLastAssistant
    <3>. HIDE DEF f, m
    <3>3. Among(Append(f, m), Stays) = Among(f, Stays)
      BY <3>1, AmongAppend
    <3>. QED
      BY <1>3, <1>4, <2>1, <3>1, <3>2, <3>3
  <2>3. CASE ~(messages # <<>> /\ IsAssistant(Last(messages)))
    BY <1>3, <1>4, <2>1, <2>3 DEF WithoutLastAssistant
  <2>. QED
    BY <2>2, <2>3
<1>9. ASSUME NEW m \in Plain, Says(m) PROVE ContextInv'
  <2>1. /\ writing = <<>> /\ entries' = entries /\ writing' = <<m>>
        /\ messages' = Append(messages, m) /\ m \in Msg /\ <<m>> \in Seq(Plain)
    BY <1>1, <1>9, GivenPlain DEF Says
  <2>2. Append(messages, m) = messages \o <<m>>
    BY <1>1, <2>1, AppendIsConcat
  <2>3. Among(messages \o <<m>>, Stays) = Among(messages, Stays) \o Among(<<m>>, Stays)
    BY <1>1, <2>1, ContextGrows
  <2>. QED
    BY <1>4, <2>1, <2>2, <2>3 DEF ContextInv, Rebuilt
<1>10. ASSUME NEW m \in Plain, Recording(m) PROVE ContextInv'
  <2>1. /\ writing = <<>> /\ writing' = <<>> /\ entries' = Append(entries, m)
        /\ messages' = Append(messages, m) /\ m \in Msg /\ <<m>> \in Seq(Plain)
    <3>1. writing = <<>> /\ writing' = <<>>
      BY <1>1, <1>10 DEF Recording
    <3>2. entries' = Append(entries, m) /\ messages' = Append(messages, m)
      BY <1>10 DEF Recording, Recorded
    <3>. QED
      BY <3>1, <3>2, GivenPlain
  <2>2. Append(messages, m) = messages \o <<m>> /\ Append(entries, m) = entries \o <<m>>
    BY <1>1, <2>1, AppendIsConcat
  <2>3. Among(messages \o <<m>>, Stays) = Rebuilt(entries \o <<m>>)
    BY <1>1, <2>1, ContextGrows DEF Rebuilt
  <2>. QED
    BY <1>3, <2>1, <2>2, <2>3
<1>11. ASSUME NEW n \in Bash, Waits(n) PROVE ContextInv'
  BY <1>1, <1>11 DEF Waits, ContextInv
<1>12. ASSUME NEW p \in Preps, phase = "idle", Compacts(p) PROVE ContextInv'
  <2>1. writing' = <<>> /\ messages' = BuildSessionContext(entries')
    <3>1. writing' = <<>>
      BY <1>1, <1>12 DEF Compacts
    <3>. QED
      BY <1>12, <3>1 DEF Compacts, Compacted
  <2>. QED
    BY <1>3, <2>1 DEF Rebuilt
<1>. QED
  BY <1>5, <1>6, <1>7, <1>8, <1>9, <1>10, <1>11, <1>12 DEF QuietText

(* What the application does while the prompt waits changes no answers.    *)
LEMMA WaitingStep ==
    ASSUME TypeInv, Quiet, pc \in Awaiting, Application \/ compact \/ CompactStep,
           QuietCompact = TRUE
    PROVE  /\ LastAnswer(messages') = LastAnswer(messages)
           /\ LastAnswer(entries') = LastAnswer(entries)
           /\ UNCHANGED reason
           /\ pc' \in {pc, IF pc = "sleep" THEN "cancelled" ELSE pc}
<1>1. /\ messages \in Seq(Msg) /\ entries \in Seq(Msg) /\ pc # "idle" /\ pc # "run"
      /\ phase = "idle" /\ manual = "none"
  BY DEF Awaiting, TypeInv, TextTypes, Places, Quiet
<1>2. ~compact /\ ~CompactStep
  BY <1>1 DEF compact, CompactStep, ManualPrepare, ManualFails, ManualSaved, ManualEnds
<1>3. ASSUME NEW m \in Plain, Recording(m)
      PROVE  /\ LastAnswer(messages') = LastAnswer(messages)
             /\ LastAnswer(entries') = LastAnswer(entries)
  <2>1. /\ messages' = Append(messages, m) /\ entries' = Append(entries, m)
        /\ m \in Msg /\ ~IsAssistant(m)
    BY <1>3, GivenPlain DEF Recording, Recorded, IsAssistant
  <2>. QED
    BY <1>1, <2>1, AnswerAppend
<1>4. CASE steer \/ followUp \/ clearQueue
  BY <1>4 DEF steer, followUp, clearQueue, loopVars
<1>5. CASE abortRetry \/ abort \/ abortCompaction
  BY <1>5 DEF abortRetry, abort, abortCompaction, AbortRetry
<1>6. CASE sendCustomMessage
  <2>1. UNCHANGED <<pc, reason>>
    BY <1>6 DEF sendCustomMessage, loopVars
  <2>. QED
    BY <1>3, <1>6, <2>1, ApplicationCustom DEF Silent, textVars
<1>7. CASE recordBashResult
  <2>1. UNCHANGED <<pc, reason>>
    BY <1>7 DEF recordBashResult, loopVars
  <2>. QED
    BY <1>3, <1>7, <2>1, ApplicationBash DEF Waits
<1>. QED
  BY <1>2, <1>4, <1>5, <1>6, <1>7 DEF Application

LEMMA EndsNext ==
    ASSUME TypeInv, Quiet, Conversation, [Next]_vars, QuietCompact = TRUE
    PROVE  EndsInv'
<1>1. /\ messages \in Seq(Msg) /\ entries \in Seq(Msg) /\ writing \in Held(Plain)
      /\ EndsInv /\ WriteInv
      /\ phase # "idle" <=> pc = "run"
      /\ phase = "writing" <=> writing # <<>>
  BY DEF TypeInv, TextTypes, WaitingTypes, Places, Conversation
<1>2. ASSUME UNCHANGED <<messages, entries, lastAssistantMessage>>, Ended PROVE EndsInv'
  BY <1>1, <1>2 DEF EndsInv
<1>3. ASSUME ~Ended' PROVE EndsInv'
  BY <1>3 DEF EndsInv
<1>4. CASE UNCHANGED vars
  BY <1>2, <1>3, <1>4 DEF vars, agentVars, loopVars, runVars, Ended
<1>5. CASE AgentStep
  <2>1. pc = "run"
    BY <1>1, <1>5 DEF AgentStep, Deliver, ToolEnds, MessagePersisted, FirstPoll, FinishRun, Respond
  <2>2. CASE Deliver \/ ToolEnds \/ \E k \in ReplyKinds \cup {"aborted"} : Respond(k)
    BY <1>3, <2>1, <2>2 DEF Deliver, ToolEnds, Respond, Finished, loopVars, Ended
  <2>3. CASE FirstPoll
    BY <1>3, <2>1, <2>3 DEF FirstPoll, Poll, TakeSteering, GoTo, loopVars, Ended
  <2>4. CASE FinishRun
    BY <1>2, <2>4 DEF FinishRun, runVars, Ended
  <2>5. CASE MessagePersisted
    <3>. DEFINE m == writing[1]
    <3>1. /\ heard = TRUE /\ messages # <<>> /\ Last(messages) = m /\ m \in Msg
      BY <1>1, <2>5, HeldIs, GivenPlain DEF MessagePersisted, Quiet, WriteInv
    <3>2. messages' = messages /\ entries' = Append(entries, m)
      BY <2>5, <3>1 DEF MessagePersisted, Persisted
    <3>3. CASE IsAssistant(m)
      <4>1. lastAssistantMessage' = <<m>>
        BY <2>5, <3>1, <3>3 DEF MessagePersisted, TrackAssistant
      <4>2. entries' # <<>> /\ Last(entries') = m
        BY <1>1, <3>1, <3>2, LastAppend
      <4>. HIDE DEF m
      <4>. QED
        BY <3>1, <3>2, <3>3, <4>1, <4>2 DEF EndsInv
    <3>4. CASE ~IsAssistant(m)
      <4>1. phase' # "end" /\ pc' = pc
        BY <2>5, <3>4 DEF MessagePersisted, AfterMessage, Poll, TakeSteering, GoTo, loopVars
      <4>. QED
        BY <1>3, <2>1, <4>1 DEF Ended
    <3>. QED
      BY <3>3, <3>4
  <2>. QED
    BY <1>5, <2>2, <2>3, <2>4, <2>5 DEF AgentStep
<1>6. CASE PromptStep \/ Prompt
  <2>1. phase' # "end"
    BY <1>1, <1>6
    DEF PromptStep, Prompt, CheckBeforePrompt, HandlePostAgentRun, Cancelled, Continue,
        ContinueRefused, Slept, CompactionFails, CompactionSaved, CompactionEnds, RunPrompt,
        StartRun, agentVars, isStreaming
  <2>2. \A m : CheckCompaction(m) => pc' # "ran"
    BY EndsAt DEF CheckCompaction, BeginCompaction
  <2>3. pc' # "ran"
    BY <1>6, <2>2, EndsAt
    DEF PromptStep, Prompt, CheckBeforePrompt, HandlePostAgentRun, Cancelled, Continue,
        ContinueRefused, Slept, CompactionFails, CompactionSaved, CompactionEnds, RunPrompt,
        GiveUp, WaitForRetry, ToContinue, LoopEnds
  <2>. QED
    BY <1>3, <2>1, <2>3 DEF Ended
<1>7. CASE CompactStep
  BY <1>1, <1>3, <1>7 DEF CompactStep, ManualPrepare, ManualFails, ManualSaved, ManualEnds, Quiet,
                          Ended, loopVars, agentVars
<1>8. CASE compact
  BY <1>1, <1>3, <1>8 DEF compact, AbortRetry, Ended
<1>9. CASE Application
  <2>1. CASE steer \/ followUp \/ clearQueue \/ abortRetry \/ abort \/ abortCompaction
    BY <1>2, <1>3, <2>1 DEF steer, followUp, clearQueue, abortRetry, abort, abortCompaction,
                            AbortRetry, agentVars, loopVars, runVars, Ended
  <2>2. CASE sendCustomMessage \/ recordBashResult
    <3>1. UNCHANGED <<pc, phase, lastAssistantMessage>> /\ pc # "ran"
      BY <2>2 DEF sendCustomMessage, recordBashResult, agentVars, loopVars, runVars, Op,
                  NoContinuation
    <3>2. CASE Ended
      <4>1. UNCHANGED <<messages, entries>>
        BY <1>1, <2>2, <3>1, <3>2 DEF sendCustomMessage, recordBashResult, isStreaming, Ended
      <4>. QED
        BY <1>2, <3>1, <3>2, <4>1
    <3>3. CASE ~Ended
      BY <1>3, <3>1, <3>3 DEF Ended
    <3>. QED
      BY <3>2, <3>3
  <2>. QED
    BY <1>9, <2>1, <2>2 DEF Application
<1>. QED
  BY <1>4, <1>5, <1>6, <1>7, <1>8, <1>9 DEF Next

(* A step that is not the prompt's cannot take it to where it waits.       *)
LEMMA WaitsOn ==
    ASSUME TypeInv, Quiet, [Next]_vars, ~PromptStep, QuietCompact = TRUE,
           pc' \in {"sleep", "cancelled", "compacting", "compacted"}
    PROVE  /\ pc \in Awaiting /\ reason' = reason
           /\ pc' \in {pc, IF pc = "sleep" THEN "cancelled" ELSE pc}
           /\ LastAnswer(messages') = LastAnswer(messages)
           /\ LastAnswer(entries') = LastAnswer(entries)
<1>1. phase # "idle" <=> pc = "run"
  BY DEF TypeInv, Places
<1>2. CASE UNCHANGED vars
  BY <1>2 DEF vars, loopVars, Awaiting
<1>3. ~AgentStep
  BY <1>1 DEF AgentStep, Deliver, ToolEnds, MessagePersisted, FirstPoll, FinishRun, Respond,
              Finished, loopVars
<1>4. ~Prompt
  BY DEF Prompt
<1>5. CASE Application \/ compact \/ CompactStep
  <2>1. pc' \in {pc, IF pc = "sleep" THEN "cancelled" ELSE pc}
    <3>1. CASE steer \/ followUp \/ sendCustomMessage \/ recordBashResult \/ clearQueue
               \/ CompactStep
      BY <3>1 DEF steer, followUp, sendCustomMessage, recordBashResult, clearQueue, CompactStep,
                  ManualPrepare, ManualFails, ManualSaved, ManualEnds, loopVars
    <3>2. CASE abortRetry \/ abort \/ abortCompaction \/ compact
      BY <3>2 DEF abortRetry, abort, abortCompaction, compact, AbortRetry
    <3>. QED
      BY <1>5, <3>1, <3>2 DEF Application
  <2>2. pc \in Awaiting
    BY <2>1 DEF Awaiting
  <2>. QED
    BY <1>5, <2>1, <2>2, WaitingStep
<1>. QED
  BY <1>2, <1>3, <1>4, <1>5 DEF Next

LEMMA SleepNext ==
    ASSUME TypeInv, Quiet, Conversation, [Next]_vars, QuietCompact = TRUE
    PROVE  SleepInv'
<1>1. /\ messages \in Seq(Msg) /\ entries \in Seq(Msg) /\ EndsInv /\ SleepInv
  BY DEF TypeInv, TextTypes, Conversation
<1>2. ASSUME pc' \notin {"sleep", "cancelled"} PROVE SleepInv'
  BY <1>2 DEF SleepInv
<1>3. CASE ~PromptStep
  <2>1. ASSUME pc' \in {"sleep", "cancelled"} PROVE SleepInv'
    <3>1. pc \in {"sleep", "cancelled"} /\ LastAnswer(entries') = LastAnswer(entries)
      BY <1>3, <2>1, WaitsOn
    <3>. QED
      BY <1>1, <3>1 DEF SleepInv
  <2>. QED
    BY <1>2, <2>1
<1>4. \A m : CheckCompaction(m) => pc' \notin {"sleep", "cancelled"}
  BY EndsAt DEF CheckCompaction, BeginCompaction
<1>5. ASSUME PromptStep, ~HandlePostAgentRun PROVE SleepInv'
  <2>1. pc' \notin {"sleep", "cancelled"}
    BY <1>4, <1>5, EndsAt
    DEF PromptStep, CheckBeforePrompt, Cancelled, Continue, ContinueRefused, Slept,
        CompactionFails, CompactionSaved, CompactionEnds, RunPrompt, ToContinue
  <2>. QED
    BY <1>2, <2>1
<1>6. ASSUME HandlePostAgentRun PROVE SleepInv'
  <2>1. /\ entries # <<>> /\ Last(messages) = Last(entries) /\ IsAssistant(Last(messages))
        /\ lastAssistantMessage = <<Last(messages)>>
    BY <1>1, <1>6 DEF HandlePostAgentRun, EndsInv, Ended
  <2>2. WaitForRetry(Last(messages)) \/ GiveUp(Last(messages))
    BY <1>6, <2>1 DEF HandlePostAgentRun
  <2>3. CASE WaitForRetry(Last(messages))
    <3>1. LastAnswer(entries) = {Last(entries)} /\ Last(entries).kind = "error"
      BY <1>1, <2>1, <2>3, AnswerLast DEF WaitForRetry, MayRetry
    <3>2. entries' = entries
      BY <2>3 DEF WaitForRetry
    <3>. QED
      BY <3>1, <3>2 DEF SleepInv
  <2>4. CASE GiveUp(Last(messages))
    BY <1>2, <1>4, <2>4 DEF GiveUp
  <2>. QED
    BY <2>2, <2>3, <2>4
<1>. QED
  BY <1>3, <1>5, <1>6

LEMMA CompactionAnswer ==
    ASSUME TypeInv, CompactionSaved
    PROVE  /\ LastAnswer(entries') = LastAnswer(entries)
           /\ LastAnswer(messages') \subseteq LastAnswer(entries')
<1>1. prepared \in Held(Preps) /\ prepared # <<>> /\ Splits(entries, Len(entries), prepared[1])
  BY DEF CompactionSaved, TypeInv, PrepTypes
<1>2. prepared[1] \in Preps
  BY <1>1, HeldIs
<1>3. Compacts(prepared[1])
  BY <1>1, <1>2 DEF CompactionSaved, Compacts, agentVars
<1>. DEFINE e == CompactionEntry(prepared[1])
            es == entries'
<1>4. /\ e \in Msg /\ IsCompaction(e) /\ es = Append(entries, e) /\ es \in Seq(Msg)
      /\ AllSplit(es) /\ messages' = BuildSessionContext(es) /\ entries \in Seq(Msg)
  BY <1>2, <1>3, CompactionText DEF TypeInv, TextTypes
<1>5. ~IsAssistant(e)
  BY <1>4 DEF IsCompaction, IsAssistant
<1>. HIDE DEF e, es
<1>6. LastAnswer(es) = LastAnswer(entries)
  BY <1>4, <1>5, AnswerAppend
<1>7. LastAnswer(BuildSessionContext(es)) \subseteq LastAnswer(es)
  BY <1>4, BuiltAnswer
<1>. QED
  BY <1>4, <1>6, <1>7 DEF es

LEMMA OverflowNext ==
    ASSUME TypeInv, Quiet, Conversation, [Next]_vars, QuietCompact = TRUE
    PROVE  OverflowInv'
<1>1. /\ messages \in Seq(Msg) /\ entries \in Seq(Msg)
      /\ EndsInv /\ SleepInv /\ OverflowInv /\ AnswerInv
      /\ phase = "writing" <=> writing # <<>>
      /\ phase # "idle" <=> pc = "run"
  BY DEF TypeInv, TextTypes, Conversation, Places
<1>2. ASSUME pc' \notin {"compacting", "compacted"} \/ reason' # "overflow" PROVE OverflowInv'
  BY <1>2 DEF OverflowInv
<1>3. CASE ~PromptStep
  <2>1. ASSUME pc' \in {"compacting", "compacted"} PROVE OverflowInv'
    <3>1. pc' = pc /\ reason' = reason /\ LastAnswer(entries') = LastAnswer(entries)
      BY <1>3, <2>1, WaitsOn DEF Awaiting
    <3>. QED
      BY <1>1, <3>1 DEF OverflowInv
  <2>. QED
    BY <1>2, <2>1
<1>4. ASSUME NEW m, CheckCompaction(m), \A e \in LastAnswer(entries) : e = m \/ TakenBack(e)
      PROVE  OverflowInv'
  <2>1. CASE ContextOverflow(m) /\ UNCHANGED entries
    BY <1>4, <2>1 DEF ContextOverflow, TakenBack, OverflowInv
  <2>2. CASE ~ContextOverflow(m) \/ ~UNCHANGED entries
    <3>1. pc' \notin {"compacting", "compacted"} \/ reason' # "overflow"
      BY <1>4, <2>2, EndsAt DEF CheckCompaction, BeginCompaction
    <3>. QED
      BY <1>2, <3>1
  <2>. QED
    BY <2>1, <2>2
<1>5. CASE CheckBeforePrompt
  <2>. DEFINE i == SelectLastInSeq(messages, IsAssistant)
  <2>1. CASE i = 0
    <3>1. pc' \notin {"compacting", "compacted"}
      BY <1>5, <2>1, EndsAt DEF CheckBeforePrompt
    <3>. QED
      BY <1>2, <3>1
  <2>2. CASE i # 0
    <3>1. CheckCompaction(messages[i])
      BY <1>5, <2>2 DEF CheckBeforePrompt
    <3>2. LastAnswer(messages) = {messages[i]}
      BY <1>1, <2>2, AnswerIndex
    <3>. HIDE DEF i
    <3>3. writing = <<>>
      BY <1>1, <1>5 DEF CheckBeforePrompt
    <3>4. entries \o writing = entries
      BY <1>1, <3>3, ConcatEmptySeq
    <3>5. \A e \in LastAnswer(entries) : e = messages[i] \/ TakenBack(e)
      BY <1>1, <3>2, <3>4 DEF AnswerInv
    <3>. QED
      BY <1>4, <3>1, <3>5
  <2>. QED
    BY <2>1, <2>2
<1>6. CASE HandlePostAgentRun
  <2>1. /\ entries # <<>> /\ Last(messages) = Last(entries) /\ IsAssistant(Last(messages))
        /\ lastAssistantMessage = <<Last(messages)>>
    BY <1>1, <1>6 DEF HandlePostAgentRun, EndsInv, Ended
  <2>2. WaitForRetry(Last(messages)) \/ GiveUp(Last(messages))
    BY <1>6, <2>1 DEF HandlePostAgentRun
  <2>3. LastAnswer(entries) = {Last(messages)}
    BY <1>1, <2>1, AnswerLast
  <2>. QED
    BY <1>2, <1>4, <2>2, <2>3 DEF WaitForRetry, GiveUp
<1>7. CASE Cancelled
  <2>. DEFINE i == SelectLastInSeq(entries, IsAssistant)
  <2>1. LastAnswer(entries) # {}
    BY <1>1, <1>7 DEF Cancelled, SleepInv
  <2>2. LastAnswer(entries) = {entries[i]}
    BY <1>1, <2>1, AnswerIndex
  <2>3. CheckCompaction(entries[i])
    BY <1>7 DEF Cancelled
  <2>. HIDE DEF i
  <2>. QED
    BY <1>4, <2>2, <2>3
<1>8. CASE Continue \/ ContinueRefused \/ Slept \/ RunPrompt \/ CompactionFails \/ CompactionEnds
  <2>1. pc' \notin {"compacting", "compacted"}
    BY <1>8, EndsAt DEF Continue, ContinueRefused, Slept, RunPrompt, CompactionFails,
                        CompactionEnds, ToContinue
  <2>. QED
    BY <1>2, <2>1
<1>9. CASE CompactionSaved
  <2>1. pc = "compacting" /\ reason' = reason
    BY <1>9 DEF CompactionSaved
  <2>. QED
    BY <1>1, <1>9, <2>1, CompactionAnswer DEF OverflowInv
<1>. QED
  BY <1>3, <1>5, <1>6, <1>7, <1>8, <1>9 DEF PromptStep

LEMMA RebuiltNext ==
    ASSUME TypeInv, Quiet, Conversation, [Next]_vars, QuietCompact = TRUE
    PROVE  RebuiltInv'
<1>1. RebuiltInv
  BY DEF Conversation
<1>2. ASSUME pc' # "compacted" PROVE RebuiltInv'
  BY <1>2 DEF RebuiltInv
<1>3. CASE ~PromptStep
  <2>1. ASSUME pc' = "compacted" PROVE RebuiltInv'
    <3>1. /\ pc' = pc /\ LastAnswer(entries') = LastAnswer(entries)
          /\ LastAnswer(messages') = LastAnswer(messages)
      BY <1>3, <2>1, WaitsOn DEF Awaiting
    <3>. QED
      BY <1>1, <3>1 DEF RebuiltInv
  <2>. QED
    BY <1>2, <2>1
<1>4. CASE CompactionSaved
  BY <1>4, CompactionAnswer DEF RebuiltInv
<1>5. ASSUME PromptStep, ~CompactionSaved PROVE RebuiltInv'
  <2>1. \A m : CheckCompaction(m) => pc' # "compacted"
    BY EndsAt DEF CheckCompaction, BeginCompaction
  <2>2. pc' # "compacted"
    BY <1>5, <2>1, EndsAt
    DEF PromptStep, CheckBeforePrompt, HandlePostAgentRun, Cancelled, Continue,
        ContinueRefused, Slept, CompactionFails, CompactionEnds, RunPrompt,
        GiveUp, WaitForRetry, ToContinue, LoopEnds
  <2>. QED
    BY <1>2, <2>2
<1>. QED
  BY <1>3, <1>4, <1>5

LEMMA InitConversation == Init => Conversation
<1>. SUFFICES ASSUME Init PROVE Conversation
  OBVIOUS
<1>1. /\ messages = <<>> /\ entries = <<>> /\ writing = <<>> /\ pc = "idle" /\ phase = "idle"
  BY DEF Init
<1>2. BuildSessionContext(<<>>) = <<>>
  <2>1. <<>> \in Seq(Msg) /\ \A i \in 1..Len(<<>>) : IsMessage(<<>>[i])
    OBVIOUS
  <2>2. LatestCompaction(<<>>) = 0
    BY <2>1, LatestNone
  <2>. QED
    BY <2>1, <2>2, BuiltWhole
<1>3. ContextInv
  <2>1. Among(<<>>, Stays) = <<>>
    BY AmongNone
  <2>2. <<>> \o <<>> = <<>>
    OBVIOUS
  <2>. QED
    BY <1>1, <1>2, <2>1, <2>2 DEF ContextInv
<1>4. AnswerInv
  BY <1>1, AnswerNone DEF AnswerInv
<1>. QED
  BY <1>1, <1>3, <1>4
  DEF Conversation, WriteInv, EndsInv, Ended, SleepInv, OverflowInv, RebuiltInv

LEMMA NextConversation ==
    ASSUME QuietCompact = TRUE, TypeInv, Quiet, Conversation, [Next]_vars
    PROVE  Conversation'
<1>1. QuietText /\ TypeInv'
  BY NextQuietText, NextTypes
<1>2. WriteInv' /\ AnswerInv' /\ ContextInv'
  BY <1>1, WriteNext, AnswerNext, ContextNext
<1>3. EndsInv' /\ SleepInv' /\ OverflowInv' /\ RebuiltInv'
  BY EndsNext, SleepNext, OverflowNext, RebuiltNext
<1>. QED
  BY <1>2, <1>3 DEF Conversation

LEMMA ContextIsKept ==
    ASSUME TypeInv, Quiet, Conversation PROVE SessionIsContext
<1>1. /\ messages \in Seq(Msg) /\ entries \in Seq(Msg) /\ AllSplit(entries)
      /\ writing \in Seq(Plain) /\ ContextInv
      /\ phase = "writing" <=> writing # <<>>
  BY DEF TypeInv, TextTypes, WaitingTypes, Held, Places, Conversation
<1>2. (IF heard THEN writing ELSE <<>>) = writing
  BY <1>1 DEF Quiet
<1>. DEFINE c == BuildSessionContext(entries)
<1>3. c \in Seq(Msg) /\ writing \in Seq(Msg)
  BY <1>1, BuiltSeq, PlainSeq
<1>4. Among(messages, Stays) = Among(c, Stays) \o Among(writing, Stays)
  BY <1>1 DEF ContextInv
<1>. HIDE DEF c
<1>5. Among(c \o writing, Stays) = Among(c, Stays) \o Among(writing, Stays)
  BY <1>3, AmongConcat
<1>6. c \o writing \in Seq(Msg)
  BY <1>3, ConcatProperties
<1>7. Lasting(messages) = Among(messages, Stays)
      /\ Lasting(c \o writing) = Among(c \o writing, Stays)
  BY <1>1, <1>6, LastingAmong
<1>. QED
  BY <1>2, <1>4, <1>5, <1>7 DEF SessionIsContext, c

-----------------------------------------------------------------------------
(* Every entry is in the context, or covered by the summary it begins with. *)

LEMMA RangeConcat ==
    ASSUME NEW M, NEW s \in Seq(M), NEW t \in Seq(M)
    PROVE  Range(s \o t) = Range(s) \cup Range(t)
<1>1. /\ Len(s) \in Nat /\ Len(t) \in Nat /\ DOMAIN s = 1..Len(s) /\ DOMAIN t = 1..Len(t)
      /\ DOMAIN (s \o t) = 1..(Len(s) + Len(t))
      /\ \A i \in 1..(Len(s) + Len(t)) :
            (s \o t)[i] = IF i <= Len(s) THEN s[i] ELSE t[i - Len(s)]
  BY ConcatProperties, LenProperties
<1>2. ASSUME NEW x \in Range(s \o t) PROVE x \in Range(s) \cup Range(t)
  <2>1. PICK i \in 1..(Len(s) + Len(t)) : x = (s \o t)[i]
    BY <1>1 DEF Range
  <2>2. i \in 1..Len(s) \/ i - Len(s) \in 1..Len(t)
    BY <1>1
  <2>. QED
    BY <1>1, <2>1, <2>2 DEF Range
<1>3. ASSUME NEW x \in Range(s) PROVE x \in Range(s \o t)
  <2>1. PICK i \in 1..Len(s) : x = s[i]
    BY <1>1 DEF Range
  <2>2. i \in 1..(Len(s) + Len(t)) /\ (s \o t)[i] = s[i]
    BY <1>1
  <2>. QED
    BY <1>1, <2>1, <2>2 DEF Range
<1>4. ASSUME NEW x \in Range(t) PROVE x \in Range(s \o t)
  <2>1. PICK i \in 1..Len(t) : x = t[i]
    BY <1>1 DEF Range
  <2>2. i + Len(s) \in 1..(Len(s) + Len(t)) /\ (s \o t)[i + Len(s)] = t[i]
    BY <1>1
  <2>. QED
    BY <1>1, <2>1, <2>2 DEF Range
<1>. QED
  BY <1>2, <1>3, <1>4

LEMMA BuiltCovers ==
    ASSUME NEW es \in Seq(Msg), AllSplit(es), NEW i \in 1..Len(es), IsMessage(es[i]),
           NEW k, k = LatestCompaction(es)
    PROVE  \/ es[i] \in Range(BuildSessionContext(es))
           \/ k # 0 /\ Accounted(es, k - 1, es[k], es[i].id)
<1>1. Len(es) \in Nat /\ DOMAIN es = 1..Len(es) /\ es[i] \in Msg
  BY LenProperties
<1>2. CASE k = 0
  BY <1>1, <1>2, BuiltWhole DEF Range
<1>3. CASE k # 0
  <2>. DEFINE f == FirstKept(es, k)
              u == SubSeq(es, f, k - 1)
              v == LaterPart(es, k)
  <2>1. /\ k \in 1..Len(es) /\ IsCompaction(es[k]) /\ es[k] \in Msg
        /\ f \in 1..(k - 1) /\ u \in Seq(Msg)
        /\ KeptPart(es, k) \in Seq(Plain) /\ v \in Seq(Plain)
        /\ BuildSessionContext(es) = (<<es[k]>> \o KeptPart(es, k)) \o v
    BY <1>3, BuiltParts
  <2>2. PICK c \in 1..(k - 1) : SplitAt(es, k - 1, es[k], c) /\ f \in 1..c
    BY <1>3, BuiltParts
  <2>3. Range(BuildSessionContext(es)) =
          (Range(<<es[k]>>) \cup Range(KeptPart(es, k))) \cup Range(v)
    <3>1. <<es[k]>> \in Seq(Msg) /\ KeptPart(es, k) \in Seq(Msg) /\ v \in Seq(Msg)
      BY <2>1, PlainSeq
    <3>. DEFINE a == <<es[k]>>
                b == KeptPart(es, k)
    <3>2. BuildSessionContext(es) = (a \o b) \o v
      BY <2>1
    <3>3. a \in Seq(Msg) /\ b \in Seq(Msg) /\ v \in Seq(Msg)
      BY <3>1
    <3>. HIDE DEF v, a, b
    <3>4. \A x, y \in Seq(Msg) : x \o y \in Seq(Msg) /\ Range(x \o y) = Range(x) \cup Range(y)
      BY RangeConcat, ConcatProperties
    <3>5. Range((a \o b) \o v) = (Range(a) \cup Range(b)) \cup Range(v)
      <4>1. a \o b \in Seq(Msg) /\ Range(a \o b) = Range(a) \cup Range(b)
        BY ONLY <3>3, <3>4, Zenon
      <4>2. Range((a \o b) \o v) = Range(a \o b) \cup Range(v)
        BY ONLY <3>3, <3>4, <4>1, Zenon
      <4>. QED
        BY <4>1, <4>2
    <3>. QED
      BY <3>2, <3>5 DEF a, b
  <2>4. CASE i > k
    <3>1. k + 1 \in 1..(Len(es) + 1) /\ Len(es) \in k..Len(es) /\ k + 1 - 1 = k
      BY <1>1, <2>1
    <3>2. /\ v \in Seq(Msg) /\ Len(v) = Len(es) - (k + 1) + 1
          /\ \A j \in 1..(Len(es) - (k + 1) + 1) : v[j] = es[k + 1 + j - 1]
      BY <3>1, SubSeqIs DEF LaterPart
    <3>3. i - k \in 1..(Len(es) - (k + 1) + 1) /\ k + 1 + (i - k) - 1 = i
      BY <1>1, <2>1, <2>4
    <3>4. v[i - k] = es[i] /\ DOMAIN v = 1..(Len(es) - (k + 1) + 1)
      BY <3>2, <3>3, LenProperties
    <3>. QED
      BY <2>3, <3>3, <3>4 DEF Range
  <2>5. CASE i = k
    BY <2>1, <2>5 DEF IsMessage
  <2>6. CASE i < k /\ f <= i
    <3>1. f \in 1..(Len(es) + 1) /\ k - 1 \in (f - 1)..Len(es)
      BY <1>1, <2>1
    <3>. HIDE DEF f
    <3>2. /\ Len(u) = k - 1 - f + 1
          /\ \A j \in 1..(k - 1 - f + 1) : u[j] = es[f + j - 1]
      BY <3>1, SubSeqIs
    <3>3. i - f + 1 \in 1..(k - 1 - f + 1) /\ f + (i - f + 1) - 1 = i
      BY <1>1, <2>1, <2>6
    <3>4. u[i - f + 1] = es[i] /\ DOMAIN u = 1..(k - 1 - f + 1)
      BY <2>1, <3>2, <3>3, LenProperties
    <3>5. es[i] \in Range(u) /\ es[i] \in Plain
      BY <1>1, <3>3, <3>4 DEF Range, Plain
    <3>. HIDE DEF u
    <3>6. Range(Among(u, Plain)) = Range(u) \cap Plain
      BY <2>1, AmongRange
    <3>7. KeptPart(es, k) = Among(u, Plain)
      BY DEF KeptPart, u, f
    <3>. QED
      BY <2>3, <3>5, <3>6, <3>7
  <2>7. CASE i < k /\ ~(f <= i)
    <3>1. i \in 1..(c - 1)
      BY <1>1, <2>1, <2>2, <2>7
    <3>. QED
      BY <1>3, <2>2, <3>1 DEF SplitAt
  <2>. QED
    BY <1>1, <2>1, <2>4, <2>5, <2>6, <2>7
<1>. QED
  BY <1>2, <1>3

(* The agent's messages begin with the latest compaction.                  *)
HeadInv ==
    LatestCompaction(entries) # 0 =>
        messages # <<>> /\ Head(messages) = entries[LatestCompaction(entries)]

LEMMA HeadAppend ==
    ASSUME NEW M, NEW s \in Seq(M), s # <<>>
    PROVE  /\ \A e \in M : Append(s, e) # <<>> /\ Head(Append(s, e)) = Head(s)
           /\ \A t \in Seq(M) : s \o t # <<>> /\ Head(s \o t) = Head(s)
<1>1. Len(s) \in Nat /\ 1 \in 1..Len(s) /\ Head(s) = s[1]
  BY LenProperties, EmptySeq, HeadTailProperties
<1>2. ASSUME NEW t \in Seq(M) PROVE s \o t # <<>> /\ Head(s \o t) = Head(s)
  <2>1. /\ s \o t \in Seq(M) /\ Len(s \o t) = Len(s) + Len(t) /\ Len(t) \in Nat
        /\ \A i \in 1..(Len(s) + Len(t)) : (s \o t)[i] = IF i <= Len(s) THEN s[i] ELSE t[i - Len(s)]
    BY ConcatProperties, LenProperties
  <2>2. (s \o t)[1] = s[1] /\ Len(s \o t) # 0
    BY <1>1, <2>1
  <2>3. s \o t # <<>>
    BY <2>2
  <2>. QED
    BY <1>1, <2>1, <2>2, <2>3, HeadTailProperties
<1>3. ASSUME NEW e \in M PROVE Append(s, e) # <<>> /\ Head(Append(s, e)) = Head(s)
  BY <1>2, AppendIsConcat
<1>. QED
  BY <1>2, <1>3

LEMMA HeadNext ==
    ASSUME TypeInv, HeadInv, TextStep, TypeInv' PROVE HeadInv'
<1>1. /\ messages \in Seq(Msg) /\ entries \in Seq(Msg) /\ writing \in Held(Plain)
      /\ AllSplit(entries) /\ entries' \in Seq(Msg) /\ AllSplit(entries')
      /\ phase = "writing" <=> writing # <<>>
      /\ pendingBashMessages \in Seq(Plain)
  BY BashSeq DEF TypeInv, TextTypes, WaitingTypes, Places
<1>. DEFINE k == LatestCompaction(entries)
<1>2. ASSUME NEW t \in Seq(Plain), entries' = entries \o t
      PROVE  /\ LatestCompaction(entries') = k
             /\ k # 0 => entries'[k] = entries[k]
  <2>1. LatestCompaction(entries') = k
    BY <1>1, <1>2, BuiltLonger
  <2>2. t \in Seq(Msg)
    BY PlainSeq
  <2>3. k # 0 => k \in 1..Len(entries)
    BY <1>1, LatestIndex
  <2>. HIDE DEF k
  <2>4. k # 0 => (entries \o t)[k] = entries[k]
    BY <1>1, <2>2, <2>3, ConcatProperties, LenProperties
  <2>. QED
    BY <1>2, <2>1, <2>4
<1>3. ASSUME NEW t \in Seq(Plain), entries' = entries \o t,
             messages # <<>> => messages' # <<>> /\ Head(messages') = Head(messages)
      PROVE  HeadInv'
  <2>1. LatestCompaction(entries') = k /\ (k # 0 => entries'[k] = entries[k])
    BY <1>2, <1>3
  <2>2. k # 0 => messages # <<>> /\ Head(messages) = entries[k]
    BY DEF HeadInv
  <2>. HIDE DEF k
  <2>. QED
    BY <1>3, <2>1, <2>2 DEF HeadInv
<1>4. ASSUME UNCHANGED entries,
             k # 0 => messages' # <<>> /\ Head(messages') = Head(messages)
      PROVE  HeadInv'
  BY <1>4 DEF HeadInv
<1>5. CASE Silent \/ (Hears /\ heard # TRUE)
  <2>1. UNCHANGED <<messages, entries>>
    <3>1. CASE Silent
      BY <3>1 DEF Silent, textVars
    <3>2. CASE Hears /\ heard # TRUE
      <4>1. heard \in BOOLEAN
        BY DEF TypeInv, RunTypes
      <4>. QED
        BY <3>2, <4>1 DEF Hears
    <3>. QED
      BY <1>5, <3>1, <3>2
  <2>. QED
    BY <2>1 DEF HeadInv
<1>6. CASE Hears /\ heard = TRUE
  <2>1. writing[1] \in Plain /\ <<writing[1]>> \in Seq(Plain) /\ writing[1] \in Msg
    BY <1>1, <1>6, HeldIs, GivenPlain DEF Hears
  <2>2. entries' = entries \o <<writing[1]>> /\ messages' = messages
    BY <1>1, <1>6, <2>1, AppendIsConcat DEF Hears
  <2>. QED
    BY <1>3, <2>1, <2>2
<1>7. CASE Flushes
  <2>1. /\ messages' = messages \o pendingBashMessages /\ pendingBashMessages \in Seq(Msg)
        /\ entries' = entries \o pendingBashMessages
    BY <1>1, <1>7, PlainSeq DEF Flushes, Flush
  <2>. QED
    BY <1>1, <1>3, <2>1, HeadAppend
<1>8. CASE Takes
  <2>1. entries' = entries /\ messages' = WithoutLastAssistant
    BY <1>8 DEF Takes
  <2>2. ASSUME k # 0 PROVE messages' # <<>> /\ Head(messages') = Head(messages)
    <3>1. messages # <<>> /\ Head(messages) = entries[k] /\ IsCompaction(entries[k])
      BY <1>1, <2>2, LatestIndex DEF HeadInv
    <3>. HIDE DEF k
    <3>2. CASE IsAssistant(Last(messages))
      <4>. DEFINE f == Front(messages)
                  m == Last(messages)
      <4>1. f \in Seq(Msg) /\ m \in Msg /\ messages = Append(f, m) /\ messages' = f
        BY <1>1, <2>1, <3>1, <3>2, FrontLast DEF WithoutLastAssistant
      <4>2. IsAssistant(m)
        BY <3>2
      <4>. HIDE DEF f, m
      <4>3. f # <<>>
        <5>1. ASSUME f = <<>> PROVE FALSE
          <6>1. Head(Append(<<>>, m)) = m
            OBVIOUS
          <6>2. Head(messages) = m
            BY <4>1, <5>1, <6>1
          <6>. QED
            BY <3>1, <4>2, <6>2 DEF IsAssistant, IsCompaction
        <5>. QED
          BY <5>1
      <4>. QED
        BY <4>1, <4>3, HeadAppend
    <3>3. CASE ~IsAssistant(Last(messages))
      BY <2>1, <3>1, <3>3 DEF WithoutLastAssistant
    <3>. QED
      BY <3>2, <3>3
  <2>. QED
    BY <1>4, <2>1, <2>2
<1>9. ASSUME NEW m \in Plain, Says(m) PROVE HeadInv'
  <2>1. /\ m \in Msg /\ messages' = Append(messages, m) /\ entries' = entries
    BY <1>9, GivenPlain DEF Says
  <2>2. k # 0 => messages # <<>>
    BY DEF HeadInv
  <2>. QED
    BY <1>1, <1>4, <2>1, <2>2, HeadAppend
<1>10. ASSUME NEW m \in Plain, Recording(m) PROVE HeadInv'
  <2>1. /\ m \in Msg /\ <<m>> \in Seq(Plain)
        /\ messages' = Append(messages, m) /\ entries' = Append(entries, m)
    BY <1>10, GivenPlain DEF Recording, Recorded
  <2>2. entries' = entries \o <<m>>
    BY <1>1, <2>1, AppendIsConcat
  <2>. QED
    BY <1>1, <1>3, <2>1, <2>2, HeadAppend
<1>11. ASSUME NEW n \in Bash, Waits(n) PROVE HeadInv'
  BY <1>11 DEF Waits, HeadInv
<1>12. ASSUME NEW p \in Preps, Compacts(p) PROVE HeadInv'
  <2>. DEFINE l == LatestCompaction(entries')
  <2>1. messages' = BuildSessionContext(entries')
    BY <1>12 DEF Compacts, Compacted
  <2>2. ASSUME l # 0 PROVE messages' # <<>> /\ Head(messages') = entries'[l]
    <3>1. /\ entries'[l] \in Msg
          /\ KeptPart(entries', l) \in Seq(Plain) /\ LaterPart(entries', l) \in Seq(Plain)
          /\ messages' = (<<entries'[l]>> \o KeptPart(entries', l)) \o LaterPart(entries', l)
      BY <1>1, <2>1, <2>2, BuiltParts
    <3>2. /\ <<entries'[l]>> \in Seq(Msg) /\ <<entries'[l]>> # <<>>
          /\ Head(<<entries'[l]>>) = entries'[l]
          /\ KeptPart(entries', l) \in Seq(Msg) /\ LaterPart(entries', l) \in Seq(Msg)
      BY <3>1, PlainSeq
    <3>. HIDE DEF l
    <3>3. <<entries'[l]>> \o KeptPart(entries', l) \in Seq(Msg)
      BY <3>2, ConcatProperties
    <3>4. /\ <<entries'[l]>> \o KeptPart(entries', l) # <<>>
          /\ Head(<<entries'[l]>> \o KeptPart(entries', l)) = entries'[l]
      BY <3>2, HeadAppend
    <3>. QED
      BY <3>1, <3>2, <3>3, <3>4, HeadAppend
  <2>. QED
    BY <2>2 DEF HeadInv
<1>. QED
  BY <1>5, <1>6, <1>7, <1>8, <1>9, <1>10, <1>11, <1>12 DEF TextStep

LEMMA NothingIsForgotten ==
    ASSUME TypeInv, Quiet, ContextInv, HeadInv PROVE NothingForgotten
<1>1. /\ messages \in Seq(Msg) /\ entries \in Seq(Msg) /\ AllSplit(entries)
      /\ writing \in Held(Plain)
  BY DEF TypeInv, TextTypes, WaitingTypes
<1>. DEFINE c == BuildSessionContext(entries)
            k == LatestCompaction(entries)
<1>2. c \in Seq(Msg) /\ writing \in Seq(Msg)
  BY <1>1, BuiltSeq, PlainSeq DEF Held
<1>3. Among(messages, Stays) = Among(c, Stays) \o Among(writing, Stays)
  BY DEF ContextInv
<1>4. ASSUME NEW e \in Range(entries)
      PROVE  Remembered(e) \/ Forgotten(e)
  <2>1. PICK i \in 1..Len(entries) : e = entries[i]
    BY <1>1, LenProperties DEF Range
  <2>2. CASE IsCompaction(e) \/ TakenBack(e)
    BY <2>2 DEF Remembered
  <2>3. CASE ~IsCompaction(e) /\ ~TakenBack(e)
    <3>1. e \in Msg /\ e \in Stays /\ IsMessage(entries[i])
      BY <1>1, <2>1, <2>3, LenProperties DEF Stays, IsMessage
    <3>2. e \in Range(c) \/ (k # 0 /\ Accounted(entries, k - 1, entries[k], e.id))
      BY <1>1, <2>1, <3>1, BuiltCovers
    <3>3. CASE e \in Range(c)
      <4>. HIDE DEF c
      <4>1. e \in Range(Among(c, Stays))
        BY <1>2, <3>1, <3>3, AmongRange
      <4>2. Among(c, Stays) \in Seq(Msg \cap Stays) /\ Among(writing, Stays) \in Seq(Msg \cap Stays)
        BY <1>2, AmongSeq
      <4>3. e \in Range(Among(messages, Stays))
        BY <1>3, <4>1, <4>2, RangeConcat
      <4>4. e \in Range(messages)
        BY <1>1, <4>3, AmongRange
      <4>. QED
        BY <4>4 DEF Range, Ids, Remembered
    <3>4. CASE k # 0 /\ e.id \in entries[k].covers
      BY <3>4 DEF HeadInv, Remembered
    <3>5. CASE k # 0 /\ Accounted(entries, k - 1, entries[k], e.id) /\ e.id \notin entries[k].covers
      <4>1. Len(entries) \in Nat /\ DOMAIN entries = 1..Len(entries) /\ k \in 1..Len(entries)
        BY <1>1, <3>5, LatestIndex, LenProperties
      <4>. HIDE DEF k
      <4>2. PICK j \in 1..(k - 1) :
               /\ e.id \in entries[j].covers
               /\ entries[k].noHistory \/ \E l \in (j + 1)..(k - 1) : entries[l].noHistory
        BY <3>5 DEF Accounted
      <4>3. /\ j \in DOMAIN entries /\ k \in DOMAIN entries /\ j < k
            /\ \A l \in (j + 1)..(k - 1) : l \in DOMAIN entries /\ j < l
        BY <4>1, <4>2
      <4>. QED
        BY <4>2, <4>3 DEF Forgotten
    <3>. QED
      BY <3>2, <3>3, <3>4, <3>5
  <2>. QED
    BY <2>2, <2>3
<1>. QED
  BY <1>4 DEF NothingForgotten, Quiet

-----------------------------------------------------------------------------
(* Messages have identities: those that are in the conversation or in a    *)
(* queue, as they will be said, and have the same one are the same.        *)
Spoken  == Range(messages) \cup Range(entries) \cup Range(writing) \cup Range(pendingBashMessages)
Unsaid  == Range(pending) \cup Range(steeringQueue) \cup Range(followUpQueue)
Queued  == {Said(m) : m \in Unsaid}
Known   == Spoken \cup Queued
KnownInv ==
    /\ \A m \in Known : m.id <= lastId
    /\ \A m, n \in Known : m.id = n.id => m = n

(* Only a message that is made with the next number becomes known.         *)
New(m) == m \in Msg /\ m.id = lastId + 1 /\ lastId' = lastId + 1
KnownGrows ==
    \/ Known' \subseteq Known
    \/ \E m \in Msg : New(m) /\ Known' \subseteq Known \cup {m}

LEMMA RangePart ==
    ASSUME NEW M, NEW s \in Seq(M), s # <<>>
    PROVE  /\ Range(Front(s)) \subseteq Range(s) /\ Range(Tail(s)) \subseteq Range(s)
           /\ Head(s) \in Range(s) /\ Head(s) \in M
           /\ \A m : Range(<<m>>) = {m}
           /\ Range(s) = {Head(s)} \cup Range(Tail(s))
<1>1. /\ Len(s) \in Nat /\ 1 \in 1..Len(s) /\ Head(s) = s[1] /\ DOMAIN s = 1..Len(s)
      /\ s[1] \in M
  BY LenProperties, EmptySeq, HeadTailProperties
<1>2. Range(Front(s)) \subseteq Range(s)
  <2>1. Front(s) \in Seq(M) /\ Last(s) \in M /\ s = Append(Front(s), Last(s))
    BY FrontLast
  <2>. DEFINE f == Front(s)
              l == Last(s)
  <2>2. f \in Seq(M) /\ l \in M /\ s = Append(f, l)
    BY <2>1
  <2>. HIDE DEF f, l
  <2>3. Range(Append(f, l)) = Range(f) \cup {l}
    BY <2>2, RangeAppend
  <2>. QED
    BY <2>2, <2>3 DEF f
<1>3. Range(s) = {Head(s)} \cup Range(Tail(s))
  <2>1. /\ Tail(s) \in Seq(M) /\ Len(Tail(s)) = Len(s) - 1
        /\ \A i \in 1..Len(Tail(s)) : Tail(s)[i] = s[i + 1]
    BY HeadTailProperties
  <2>2. DOMAIN Tail(s) = 1..(Len(s) - 1)
    BY <2>1, LenProperties
  <2>3. ASSUME NEW x \in Range(s) PROVE x \in {Head(s)} \cup Range(Tail(s))
    <3>1. PICK i \in 1..Len(s) : x = s[i]
      BY <1>1 DEF Range
    <3>2. CASE i # 1
      <4>1. i - 1 \in 1..(Len(s) - 1) /\ i - 1 + 1 = i
        BY <1>1, <3>2
      <4>. QED
        BY <2>1, <2>2, <3>1, <4>1 DEF Range
    <3>. QED
      BY <1>1, <3>1, <3>2
  <2>4. ASSUME NEW x \in Range(Tail(s)) PROVE x \in Range(s)
    <3>1. PICK i \in 1..(Len(s) - 1) : x = Tail(s)[i]
      BY <2>2 DEF Range
    <3>2. i + 1 \in 1..Len(s) /\ i \in 1..Len(Tail(s))
      BY <1>1, <2>1
    <3>. QED
      BY <1>1, <2>1, <3>1, <3>2 DEF Range
  <2>5. Head(s) \in Range(s)
    BY <1>1 DEF Range
  <2>. QED
    BY <2>3, <2>4, <2>5
<1>4. ASSUME NEW m PROVE Range(<<m>>) = {m}
  BY DEF Range
<1>. QED
  BY <1>1, <1>2, <1>3, <1>4

LEMMA RangeNone == Range(<<>>) = {}
BY DEF Range

LEMMA RangeSub ==
    ASSUME NEW M, NEW s \in Seq(M), NEW n \in 1..(Len(s) + 1), NEW m \in (n - 1)..Len(s)
    PROVE  Range(SubSeq(s, n, m)) \subseteq Range(s)
<1>1. /\ SubSeq(s, n, m) \in Seq(M) /\ Len(SubSeq(s, n, m)) = m - n + 1
      /\ \A i \in 1..(m - n + 1) : SubSeq(s, n, m)[i] = s[n + i - 1]
      /\ Len(s) \in Nat /\ DOMAIN s = 1..Len(s)
  BY SubSeqIs, LenProperties
<1>2. DOMAIN SubSeq(s, n, m) = 1..(m - n + 1)
  BY <1>1, LenProperties
<1>3. \A i \in 1..(m - n + 1) : n + i - 1 \in 1..Len(s)
  BY <1>1
<1>. QED
  BY <1>1, <1>2, <1>3 DEF Range

LEMMA BuiltRange ==
    ASSUME NEW es \in Seq(Msg), AllSplit(es)
    PROVE  Range(BuildSessionContext(es)) \subseteq Range(es)
<1>. DEFINE k == LatestCompaction(es)
<1>1. CASE k = 0
  BY <1>1, BuiltWhole
<1>2. CASE k # 0
  <2>. DEFINE f == FirstKept(es, k)
              u == SubSeq(es, f, k - 1)
              a == <<es[k]>>
              b == KeptPart(es, k)
              v == LaterPart(es, k)
  <2>1. /\ k \in 1..Len(es) /\ es[k] \in Msg /\ f \in 1..(k - 1) /\ u \in Seq(Msg)
        /\ b \in Seq(Msg) /\ v \in Seq(Msg) /\ a \in Seq(Msg)
        /\ BuildSessionContext(es) = (a \o b) \o v
    BY <1>2, BuiltParts, PlainSeq
  <2>2. Len(es) \in Nat /\ DOMAIN es = 1..Len(es)
    BY LenProperties
  <2>3. Range(a) \subseteq Range(es)
    BY <2>1, <2>2 DEF Range
  <2>4. Range(b) \subseteq Range(es)
    <3>1. f \in 1..(Len(es) + 1) /\ k - 1 \in (f - 1)..Len(es)
      BY <2>1, <2>2
    <3>. HIDE DEF f, k
    <3>2. Range(u) \subseteq Range(es)
      BY <3>1, RangeSub
    <3>3. b = Among(u, Plain)
      BY DEF KeptPart, f
    <3>. HIDE DEF u, b
    <3>4. Range(Among(u, Plain)) = Range(u) \cap Plain
      BY <2>1, AmongRange
    <3>. QED
      BY <3>2, <3>3, <3>4
  <2>5. Range(v) \subseteq Range(es)
    <3>1. k + 1 \in 1..(Len(es) + 1) /\ Len(es) \in (k + 1 - 1)..Len(es)
      BY <2>1, <2>2
    <3>. HIDE DEF k
    <3>. QED
      BY <3>1, RangeSub DEF LaterPart
  <2>. HIDE DEF a, b, v
  <2>6. \A x, y \in Seq(Msg) : x \o y \in Seq(Msg) /\ Range(x \o y) = Range(x) \cup Range(y)
    BY RangeConcat, ConcatProperties
  <2>7. a \o b \in Seq(Msg) /\ Range(a \o b) = Range(a) \cup Range(b)
    BY ONLY <2>1, <2>6, Zenon
  <2>8. Range((a \o b) \o v) = Range(a \o b) \cup Range(v)
    BY ONLY <2>1, <2>6, <2>7, Zenon
  <2>. QED
    BY <2>1, <2>3, <2>4, <2>5, <2>7, <2>8
<1>. QED
  BY <1>1, <1>2

LEMMA TextsGrow ==
    ASSUME TypeInv
    PROVE  /\ Silent \/ Hears \/ Flushes \/ Takes => Spoken' \subseteq Spoken
           /\ \A m \in Plain :
                 Says(m) \/ Recording(m) \/ Waits(m) => Spoken' \subseteq Spoken \cup {m}
           /\ \A p \in Preps : Compacts(p) => Spoken' \subseteq Spoken \cup {CompactionEntry(p)}
<1>1. /\ messages \in Seq(Msg) /\ entries \in Seq(Msg) /\ writing \in Held(Plain)
      /\ phase = "writing" <=> writing # <<>>
      /\ pendingBashMessages \in Seq(Bash) /\ pendingBashMessages \in Seq(Msg)
  BY BashSeq, PlainSeq DEF TypeInv, TextTypes, WaitingTypes, Places
<1>2. \A x, y \in Seq(Msg) : Range(x \o y) = Range(x) \cup Range(y)
  BY RangeConcat
<1>3. \A x \in Seq(Msg), m \in Msg : Range(Append(x, m)) = Range(x) \cup {m}
  BY RangeAppend
<1>4. CASE Silent
  BY <1>4 DEF Silent, textVars, Spoken
<1>5. CASE Hears
  <2>1. writing[1] \in Msg /\ writing[1] \in Range(writing)
    BY <1>1, <1>5, HeldIs, GivenPlain DEF Hears, Range
  <2>2. Range(entries') \subseteq Range(entries) \cup {writing[1]}
    BY <1>1, <1>3, <1>5, <2>1 DEF Hears
  <2>3. Range(writing') = {}
    BY <1>5, RangeNone DEF Hears
  <2>4. Range(messages') = Range(messages)
        /\ Range(pendingBashMessages') = Range(pendingBashMessages)
    BY <1>5 DEF Hears
  <2>. QED
    BY <2>1, <2>2, <2>3, <2>4 DEF Spoken
<1>6. CASE Flushes
  <2>1. /\ Range(messages') = Range(messages) \cup Range(pendingBashMessages)
        /\ Range(entries') = Range(entries) \cup Range(pendingBashMessages)
        /\ Range(pendingBashMessages') = {} /\ writing' = writing
    BY <1>1, <1>2, <1>6, RangeNone DEF Flushes, Flush
  <2>. QED
    BY <2>1 DEF Spoken
<1>7. CASE Takes
  <2>1. Range(messages') \subseteq Range(messages)
    BY <1>1, <1>7, RangePart DEF Takes, WithoutLastAssistant
  <2>. QED
    BY <1>7, <2>1 DEF Takes, Spoken
<1>8. ASSUME NEW m \in Plain, Says(m) PROVE Spoken' \subseteq Spoken \cup {m}
  <2>1. m \in Msg /\ Range(writing') = {m}
    BY <1>8, GivenPlain DEF Says, Range
  <2>2. Range(messages') = Range(messages) \cup {m}
    BY <1>1, <1>3, <1>8, <2>1 DEF Says
  <2>. QED
    BY <1>8, <2>1, <2>2 DEF Says, Spoken
<1>9. ASSUME NEW m \in Plain, Recording(m) PROVE Spoken' \subseteq Spoken \cup {m}
  <2>1. m \in Msg
    BY GivenPlain
  <2>2. Range(messages') = Range(messages) \cup {m} /\ Range(entries') = Range(entries) \cup {m}
    BY <1>1, <1>3, <1>9, <2>1 DEF Recording, Recorded
  <2>. QED
    BY <1>9, <2>2 DEF Recording, Spoken
<1>10. ASSUME NEW m \in Plain, Waits(m) PROVE Spoken' \subseteq Spoken \cup {m}
  <2>1. m \in Msg
    BY GivenPlain
  <2>2. Range(pendingBashMessages') = Range(pendingBashMessages) \cup {m}
    BY <1>1, <1>3, <1>10, <2>1 DEF Waits
  <2>. QED
    BY <1>10, <2>2 DEF Waits, Spoken
<1>11. ASSUME NEW p \in Preps, Compacts(p)
       PROVE  Spoken' \subseteq Spoken \cup {CompactionEntry(p)}
  <2>1. /\ CompactionEntry(p) \in Msg /\ entries' = Append(entries, CompactionEntry(p))
        /\ entries' \in Seq(Msg) /\ AllSplit(entries')
        /\ messages' = BuildSessionContext(entries')
    BY <1>11, CompactionText
  <2>2. Range(messages') \subseteq Range(entries')
    BY <2>1, BuiltRange
  <2>3. Range(entries') = Range(entries) \cup {CompactionEntry(p)}
    BY <1>1, <1>3, <2>1
  <2>. QED
    BY <1>11, <2>2, <2>3 DEF Compacts, Spoken
<1>. QED
  BY <1>4, <1>5, <1>6, <1>7, <1>8, <1>9, <1>10, <1>11

LEMMA UnsaidGrow ==
    ASSUME TypeInv
    PROVE  /\ Leaves \/ Delivers \/ TakesOne \/ Clears => Unsaid' \subseteq Unsaid
           /\ \A text \in Texts : Gives(text) => Unsaid' \subseteq Unsaid \cup {Written(text)}
           /\ \A m \in Given : Steers(m) \/ Follows(m) => Unsaid' \subseteq Unsaid \cup {m}
<1>1. /\ pending \in Seq(Given) /\ steeringQueue \in Seq(Given) /\ followUpQueue \in Seq(Given)
  BY DEF TypeInv, WaitingTypes, Held
<1>2. \A q \in Seq(Given) : q # <<>> => /\ Range(Tail(q)) \subseteq Range(q)
                                        /\ Range(<<Head(q)>>) \subseteq Range(q)
  BY RangePart
<1>3. \A q \in Seq(Given), m \in Given : Range(Append(q, m)) = Range(q) \cup {m}
  BY RangeAppend
<1>4. CASE Leaves
  BY <1>4 DEF Leaves, queueVars, Unsaid
<1>5. CASE Delivers
  <2>1. Range(pending') \subseteq Range(pending)
    BY <1>1, <1>2, <1>5 DEF Delivers
  <2>. QED
    BY <1>5, <2>1 DEF Delivers, Unsaid
<1>6. CASE TakesOne
  <2>1. CASE steeringQueue # <<>> /\ TakeSteering
    <3>1. /\ Range(pending') \subseteq Range(steeringQueue)
          /\ Range(steeringQueue') \subseteq Range(steeringQueue)
      BY <1>1, <1>2, <2>1 DEF TakeSteering
    <3>. QED
      BY <2>1, <3>1 DEF TakeSteering, Unsaid
  <2>2. CASE followUpQueue # <<>> /\ TakeFollowUp
    <3>1. /\ Range(pending') \subseteq Range(followUpQueue)
          /\ Range(followUpQueue') \subseteq Range(followUpQueue)
      BY <1>1, <1>2, <2>2 DEF TakeFollowUp
    <3>. QED
      BY <2>2, <3>1 DEF TakeFollowUp, Unsaid
  <2>. QED
    BY <1>6, <2>1, <2>2 DEF TakesOne
<1>7. CASE Clears
  BY <1>7, RangeNone DEF Clears, Unsaid
<1>8. ASSUME NEW text \in Texts, Gives(text) PROVE Unsaid' \subseteq Unsaid \cup {Written(text)}
  <2>. DEFINE m == Written(text)
  <2>1. pending' = <<m>> /\ steeringQueue' = steeringQueue /\ followUpQueue' = followUpQueue
    BY <1>8 DEF Gives
  <2>. HIDE DEF m
  <2>2. Range(pending') = {m}
    BY <2>1 DEF Range
  <2>. QED
    BY <2>1, <2>2 DEF Unsaid, m
<1>9. ASSUME NEW m \in Given, Steers(m) PROVE Unsaid' \subseteq Unsaid \cup {m}
  <2>1. Range(steeringQueue') = Range(steeringQueue) \cup {m}
    BY <1>1, <1>3, <1>9 DEF Steers
  <2>. QED
    BY <1>9, <2>1 DEF Steers, Unsaid
<1>10. ASSUME NEW m \in Given, Follows(m) PROVE Unsaid' \subseteq Unsaid \cup {m}
  <2>1. Range(followUpQueue') = Range(followUpQueue) \cup {m}
    BY <1>1, <1>3, <1>10 DEF Follows
  <2>. QED
    BY <1>10, <2>1 DEF Follows, Unsaid
<1>. QED
  BY <1>4, <1>5, <1>6, <1>7, <1>8, <1>9, <1>10

LEMMA QueuedGrow ==
    ASSUME TypeInv
    PROVE  /\ Leaves \/ Delivers \/ TakesOne \/ Clears => Queued' \subseteq Queued
           /\ \A text \in Texts : Gives(text) => Queued' \subseteq Queued \cup {Said(Written(text))}
           /\ \A m \in Given : Steers(m) \/ Follows(m) => Queued' \subseteq Queued \cup {Said(m)}
<1>1. ASSUME Leaves \/ Delivers \/ TakesOne \/ Clears PROVE Queued' \subseteq Queued
  <2>1. Unsaid' \subseteq Unsaid
    BY <1>1, UnsaidGrow
  <2>. QED
    BY <2>1 DEF Queued, Said
<1>2. ASSUME NEW m, Unsaid' \subseteq Unsaid \cup {m} PROVE Queued' \subseteq Queued \cup {Said(m)}
  BY <1>2 DEF Queued, Said
<1>. QED
  BY <1>1, <1>2, UnsaidGrow

(* What is said of a message that is made is made.                         *)
LEMMA NewSaid ==
    ASSUME NEW m \in Given, m.id = lastId + 1, lastId' = lastId + 1
    PROVE  New(Said(m))
<1>1. Said(m) \in Msg /\ Said(m).id = m.id
  BY SaidIs, GivenPlain
<1>. QED
  BY <1>1 DEF New

LEMMA AgentKnown ==
    ASSUME TypeInv, AgentStep PROVE KnownGrows
<1>1. lastId \in Nat /\ pending \in Held(Given) /\ Given \subseteq Plain /\ Plain \subseteq Msg
  BY GivenPlain DEF TypeInv, TextTypes, WaitingTypes
<1>2. CASE Deliver
  <2>. DEFINE m == Said(Head(pending))
  <2>1. pending # <<>>
    BY <1>2 DEF Deliver, TypeInv, Places
  <2>2. m \in Plain /\ m \in Queued
    <3>1. Head(pending) \in Given /\ Head(pending) \in Range(pending)
      BY <1>1, <2>1, HeldIs, RangePart DEF Held
    <3>. QED
      BY <1>1, <3>1, SaidIs DEF Queued, Unsaid
  <2>3. Says(m)
    BY <1>2, <2>2, FinishedSays DEF Deliver
  <2>4. Delivers
    BY <1>2, <2>1 DEF Deliver, Delivers, mirrors
  <2>. HIDE DEF m
  <2>5. Spoken' \subseteq Spoken \cup {m} /\ Queued' \subseteq Queued
    BY <2>2, <2>3, <2>4, TextsGrow, QueuedGrow
  <2>. QED
    BY <2>2, <2>5 DEF KnownGrows, Known
<1>3. ASSUME NEW m \in Plain, m.id = lastId + 1, lastId' = lastId + 1, phase # "writing",
             Finished(m), UNCHANGED <<pending, queueVars>>
      PROVE  KnownGrows
  <2>1. Says(m) /\ Leaves
    BY <1>3, FinishedSays DEF Leaves
  <2>2. Spoken' \subseteq Spoken \cup {m} /\ Queued' \subseteq Queued
    BY <2>1, TextsGrow, QueuedGrow
  <2>. QED
    BY <1>1, <1>3, <2>2 DEF KnownGrows, Known, New
<1>4. CASE ToolEnds
  <2>. DEFINE m == Made("toolResult", "")
  <2>1. m \in Plain /\ m.id = lastId + 1
    BY <1>1, MadeTypes DEF Made
  <2>2. /\ phase # "writing" /\ Finished(m) /\ UNCHANGED <<pending, queueVars>>
        /\ lastId' = lastId + 1
    BY <1>4 DEF ToolEnds
  <2>. HIDE DEF m
  <2>. QED
    BY <1>3, <2>1, <2>2
<1>5. ASSUME NEW k \in ReplyKinds \cup {"aborted"}, Respond(k) PROVE KnownGrows
  <2>. DEFINE m == Made("assistant", k)
  <2>1. m \in Plain /\ m.id = lastId + 1
    BY <1>1, MadeTypes DEF Made, Kinds
  <2>2. /\ phase # "writing" /\ Finished(m) /\ UNCHANGED <<pending, queueVars>>
        /\ lastId' = lastId + 1
    BY <1>5 DEF Respond
  <2>. HIDE DEF m
  <2>. QED
    BY <1>3, <2>1, <2>2
<1>6. CASE MessagePersisted \/ FirstPoll \/ FinishRun
  <2>1. Silent \/ Hears
    <3>1. CASE MessagePersisted
      <4>1. phase' # "writing"
        BY <3>1 DEF MessagePersisted, AfterMessage, Poll, GoTo, TakeSteering, TakeFollowUp
      <4>. QED
        BY <3>1, <4>1 DEF MessagePersisted, Hears, Persisted
    <3>2. CASE FirstPoll \/ FinishRun
      BY <3>2 DEF FirstPoll, FinishRun, Silent, textVars
    <3>. QED
      BY <1>6, <3>1, <3>2
  <2>2. Leaves \/ Delivers \/ TakesOne
    BY AgentQueue
  <2>. QED
    BY <2>1, <2>2, TextsGrow, QueuedGrow DEF KnownGrows, Known
<1>. QED
  BY <1>2, <1>4, <1>5, <1>6 DEF AgentStep

LEMMA PromptKnown ==
    ASSUME TypeInv, PromptStep \/ Prompt PROVE KnownGrows
<1>1. lastId \in Nat
  BY DEF TypeInv, TextTypes
<1>2. CASE RunPrompt
  <2>1. Silent
    BY <1>2 DEF RunPrompt, StartRun, Silent, textVars
  <2>2. PICK text \in Texts : Gives(text)
    <3>1. pending = <<>>
      BY <1>2 DEF RunPrompt, TypeInv, Places
    <3>. QED
      BY <1>2, <3>1 DEF RunPrompt, StartRun, Gives, mirrors
  <2>. DEFINE m == Said(Written(text))
  <2>3. m \in Msg /\ New(m)
    <3>1. Written(text) \in Given /\ Written(text).id = lastId + 1 /\ lastId' = lastId + 1
      BY <1>1, <1>2, MadeTypes DEF RunPrompt
    <3>2. New(m)
      BY <3>1, NewSaid
    <3>. QED
      BY <3>2 DEF New
  <2>4. Spoken' \subseteq Spoken /\ Queued' \subseteq Queued \cup {m}
    BY <2>1, <2>2, TextsGrow, QueuedGrow
  <2>. HIDE DEF m
  <2>. QED
    BY <2>3, <2>4 DEF KnownGrows, Known
<1>3. CASE ~RunPrompt
  <2>1. Leaves \/ TakesOne
    <3>1. CASE Continue
      <4>1. ASSUME NEW text \in Texts, Gives(text) PROVE FALSE
        <5>1. lastId' = lastId /\ lastId' = lastId + 1
          BY <3>1, <4>1 DEF Continue, Gives
        <5>. QED
          BY <1>1, <5>1
      <4>. QED
        BY <1>3, <4>1, PromptQueue
    <3>2. CASE ~Continue
      BY <1>3, <3>2
      DEF PromptStep, CheckBeforePrompt, HandlePostAgentRun, Cancelled, ContinueRefused, Prompt,
          Slept, CompactionFails, CompactionSaved, CompactionEnds, agentVars, queueVars, Leaves
    <3>. QED
      BY <3>1, <3>2
  <2>2. Silent \/ Flushes \/ Takes \/ \E p \in Preps : Compacts(p)
    BY PromptText
  <2>3. CASE Silent \/ Flushes \/ Takes
    BY <2>1, <2>3, TextsGrow, QueuedGrow DEF KnownGrows, Known
  <2>4. ASSUME NEW p \in Preps, Compacts(p) PROVE KnownGrows
    <3>. DEFINE m == CompactionEntry(p)
    <3>1. m \in Msg /\ m.id = lastId + 1 /\ lastId' = lastId + 1
      <4>1. m \in Msg
        BY <2>4, CompactionText
      <4>2. m.id = lastId + 1
        BY DEF CompactionEntry
      <4>3. lastId' = lastId + 1
        BY <2>4 DEF Compacts, Compacted
      <4>. QED
        BY <4>1, <4>2, <4>3
    <3>2. Spoken' \subseteq Spoken \cup {m} /\ Queued' \subseteq Queued
      BY <2>1, <2>4, TextsGrow, QueuedGrow
    <3>. HIDE DEF m
    <3>. QED
      BY <3>1, <3>2 DEF KnownGrows, Known, New
  <2>. QED
    BY <2>2, <2>3, <2>4
<1>. QED
  BY <1>2, <1>3

LEMMA ApplicationKnown ==
    ASSUME TypeInv, Application \/ compact \/ CompactStep PROVE KnownGrows
<1>1. lastId \in Nat /\ Given \subseteq Msg /\ Plain \subseteq Msg /\ Bash \subseteq Plain
  BY GivenPlain DEF TypeInv, TextTypes
<1>2. CASE recordBashResult \/ CompactStep
  <2>1. Leaves
    BY <1>2 DEF recordBashResult, CompactStep, ManualPrepare, ManualFails, ManualSaved, ManualEnds,
                agentVars, Leaves, queueVars
  <2>2. Queued' \subseteq Queued
    BY <2>1, QueuedGrow
  <2>3. CASE Silent
    BY <2>2, <2>3, TextsGrow DEF KnownGrows, Known
  <2>4. ASSUME NEW m \in Plain, Recording(m) PROVE KnownGrows
    BY <1>1, <2>2, <2>4, TextsGrow DEF KnownGrows, Known, New, Recording
  <2>5. ASSUME NEW m \in Bash, Waits(m) PROVE KnownGrows
    BY <1>1, <2>2, <2>5, TextsGrow DEF KnownGrows, Known, New, Waits
  <2>6. ASSUME NEW p \in Preps, Compacts(p) PROVE KnownGrows
    <3>. DEFINE m == CompactionEntry(p)
    <3>1. m \in Msg
      BY <2>6, CompactionText
    <3>2. m.id = lastId + 1
      BY DEF CompactionEntry
    <3>3. lastId' = lastId + 1
      BY <2>6 DEF Compacts, Compacted
    <3>4. Spoken' \subseteq Spoken \cup {m}
      BY <2>6, TextsGrow
    <3>. HIDE DEF m
    <3>. QED
      BY <2>2, <3>1, <3>2, <3>3, <3>4 DEF KnownGrows, Known, New
  <2>. QED
    BY <2>3, <2>4, <2>5, <2>6, ApplicationText
<1>3. CASE steer \/ followUp \/ clearQueue \/ abortRetry \/ abort \/ abortCompaction \/ compact
           \/ (sendCustomMessage /\ isStreaming)
  <2>1. Silent
    BY <1>3 DEF steer, followUp, clearQueue, abortRetry, abort, abortCompaction, compact, agentVars,
                sendCustomMessage, Silent, textVars
  <2>2. Spoken' \subseteq Spoken
    BY <2>1, TextsGrow
  <2>3. CASE Leaves \/ Clears
    BY <2>2, <2>3, QueuedGrow DEF KnownGrows, Known
  <2>4. ASSUME NEW m \in Given, Steers(m) \/ Follows(m) PROVE KnownGrows
    <3>1. New(Said(m)) /\ Said(m) \in Msg
      <4>1. m.id = lastId + 1 /\ lastId' = lastId + 1
        BY <2>4 DEF Steers, Follows, Fresh
      <4>2. New(Said(m))
        BY <4>1, NewSaid
      <4>. QED
        BY <4>2 DEF New
    <3>2. Queued' \subseteq Queued \cup {Said(m)}
      BY <2>4, QueuedGrow
    <3>. QED
      BY <2>2, <3>1, <3>2 DEF KnownGrows, Known
  <2>. QED
    BY <2>3, <2>4, ApplicationQueue
<1>4. CASE sendCustomMessage /\ ~isStreaming
  <2>1. Leaves
    BY <1>4 DEF sendCustomMessage, agentVars, Leaves, queueVars
  <2>. DEFINE m == Made("custom", "")
  <2>2. m \in Plain /\ m.id = lastId + 1 /\ m.role = "custom"
    BY <1>1, MadeTypes, GivenPlain DEF Made
  <2>3. Recording(m)
    BY <1>4, <2>2 DEF sendCustomMessage, agentVars, isStreaming, Recording
  <2>. HIDE DEF m
  <2>. QED
    BY <1>1, <2>1, <2>2, <2>3, TextsGrow, QueuedGrow DEF KnownGrows, Known, New, Recording
<1>. QED
  BY <1>2, <1>3, <1>4 DEF Application

LEMMA NextKnown == ASSUME TypeInv, [Next]_vars PROVE KnownGrows
<1>1. CASE UNCHANGED vars
  BY <1>1 DEF vars, agentVars, queueVars, KnownGrows, Known, Spoken, Queued, Unsaid
<1>2. CASE Next
  BY <1>2, AgentKnown, PromptKnown, ApplicationKnown DEF Next
<1>. QED
  BY <1>1, <1>2

LEMMA KnownNext ==
    ASSUME TypeInv, KnownInv, [Next]_vars PROVE KnownInv'
<1>1. lastId \in Nat /\ (lastId' = lastId \/ lastId' = lastId + 1)
  BY CounterGrows DEF TypeInv, TextTypes
<1>2. \A m \in Known : m.id \in Nat
  <2>1. \A s \in Seq(Msg) : \A m \in Range(s) : m \in Msg
    BY LenProperties DEF Range
  <2>2. /\ messages \in Seq(Msg) /\ entries \in Seq(Msg) /\ writing \in Seq(Msg)
        /\ pendingBashMessages \in Seq(Msg)
    BY BashSeq, PlainSeq DEF TypeInv, TextTypes, WaitingTypes, Held
  <2>3. \A m \in Msg : m.id \in Nat
    BY DEF Msg, Records
  <2>4. Known \subseteq Msg
    <3>1. Unsaid \subseteq Given
      BY LenProperties DEF TypeInv, WaitingTypes, Held, Unsaid, Range
    <3>2. Queued \subseteq Msg
      BY <3>1, SaidIs, GivenPlain DEF Queued
    <3>. QED
      BY <2>1, <2>2, <3>2 DEF Known, Spoken
  <2>. QED
    BY <2>3, <2>4
<1>3. CASE Known' \subseteq Known
  <2>1. ASSUME NEW m \in Known' PROVE m.id <= lastId'
    BY <1>1, <1>2, <1>3, <2>1 DEF KnownInv
  <2>. QED
    BY <1>3, <2>1 DEF KnownInv
<1>4. ASSUME NEW m \in Msg, New(m), Known' \subseteq Known \cup {m} PROVE KnownInv'
  <2>1. ASSUME NEW n \in Known' PROVE n.id <= lastId'
    BY <1>1, <1>2, <1>4, <2>1 DEF KnownInv, New
  <2>2. \A n \in Known : n.id # m.id
    BY <1>1, <1>2, <1>4 DEF KnownInv, New
  <2>. QED
    BY <1>4, <2>1, <2>2 DEF KnownInv
<1>. QED
  BY <1>3, <1>4, NextKnown DEF KnownGrows

LEMMA InitKnown == Init => HeadInv /\ KnownInv
<1>. SUFFICES ASSUME Init PROVE HeadInv /\ KnownInv
  OBVIOUS
<1>1. Known = {}
  BY RangeNone DEF Init, Known, Spoken, Queued, Unsaid
<1>2. LatestCompaction(<<>>) = 0
  <2>1. <<>> \in Seq(Msg) /\ \A i \in 1..Len(<<>>) : IsMessage(<<>>[i])
    OBVIOUS
  <2>. QED
    BY <2>1, LatestNone
<1>. QED
  BY <1>1, <1>2 DEF Init, HeadInv, KnownInv

-----------------------------------------------------------------------------
(* Tool calls and their results.                                           *)

(* Whether s ends with a tool call.                                        *)
Open(s) == s # <<>> /\ Last(s).kind = "toolUse"
Result(m) == m.role = "toolResult"

LEMMA OpenAppend ==
    ASSUME NEW M, NEW s \in Seq(M), NEW e \in M
    PROVE  Open(Append(s, e)) <=> e.kind = "toolUse"
BY LastAppend DEF Open

LEMMA AdjacentNone == Adjacent(<<>>) /\ ~Open(<<>>) /\ \A e : Adjacent(<<e>>)
<1>1. Len(<<>>) = 0 /\ \A e : Len(<<e>>) = 1
  OBVIOUS
<1>. QED
  BY <1>1 DEF Adjacent, Open

LEMMA AdjacentAppend ==
    ASSUME NEW M, NEW s \in Seq(M), NEW e \in M
    PROVE  Adjacent(Append(s, e)) <=> Adjacent(s) /\ (s # <<>> => (Open(s) <=> Result(e)))
<1>. DEFINE n == Len(s)
            t == Append(s, e)
<1>1. /\ n \in Nat /\ Len(t) = n + 1 /\ t[n + 1] = e /\ \A i \in 1..n : t[i] = s[i]
      /\ s # <<>> <=> n # 0
  BY AppendProperties, LenProperties, EmptySeq
<1>2. s # <<>> => Last(s) = s[n]
  BY DEF Last
<1>. HIDE DEF t
<1>3. ASSUME Adjacent(t) PROVE Adjacent(s)
  <2>1. ASSUME NEW i \in 1..(n - 1) PROVE s[i].kind = "toolUse" <=> s[i + 1].role = "toolResult"
    <3>1. i \in 1..n /\ i + 1 \in 1..n /\ i \in 1..(Len(t) - 1)
      BY <1>1
    <3>. QED
      BY <1>1, <1>3, <3>1 DEF Adjacent
  <2>. QED
    BY <2>1 DEF Adjacent
<1>4. ASSUME Adjacent(t), s # <<>> PROVE Open(s) <=> Result(e)
  <2>1. n \in 1..(Len(t) - 1) /\ n \in 1..n
    BY <1>1, <1>4
  <2>. QED
    BY <1>1, <1>2, <1>4, <2>1 DEF Adjacent, Open, Result
<1>5. ASSUME Adjacent(s), s # <<>> => (Open(s) <=> Result(e)) PROVE Adjacent(t)
  <2>1. ASSUME NEW i \in 1..n PROVE t[i].kind = "toolUse" <=> t[i + 1].role = "toolResult"
    <3>1. CASE i = n
      BY <1>1, <1>2, <1>5, <3>1 DEF Open, Result
    <3>2. CASE i # n
      <4>1. i \in 1..(n - 1) /\ i + 1 \in 1..n
        BY <1>1, <3>2
      <4>. QED
        BY <1>1, <1>5, <4>1 DEF Adjacent
    <3>. QED
      BY <3>1, <3>2
  <2>. QED
    BY <1>1, <2>1 DEF Adjacent
<1>. QED
  BY <1>3, <1>4, <1>5 DEF t

(* Two sequences after each other.                                         *)
LEMMA AdjacentConcat ==
    ASSUME NEW M, NEW s \in Seq(M), Adjacent(s)
    PROVE  \A t \in Seq(M) :
              Adjacent(t) /\ (s # <<>> /\ t # <<>> => (Open(s) <=> Result(Head(t)))) =>
                 /\ Adjacent(s \o t)
                 /\ Open(s \o t) <=> (IF t = <<>> THEN Open(s) ELSE Open(t))
<1>. DEFINE P(t) == Adjacent(t) /\ (s # <<>> /\ t # <<>> => (Open(s) <=> Result(Head(t)))) =>
                       /\ Adjacent(s \o t)
                       /\ Open(s \o t) <=> (IF t = <<>> THEN Open(s) ELSE Open(t))
            S == {t \in Seq(M) : P(t)}
<1>1. <<>> \in S
  <2>1. s \o <<>> = s
    BY ConcatEmptySeq
  <2>. QED
    BY <2>1, EmptySeq
<1>2. ASSUME NEW t \in S, NEW e \in M PROVE Append(t, e) \in S
  <2>1. /\ t \in Seq(M) /\ P(t) /\ Append(t, e) \in Seq(M)
        /\ s \o Append(t, e) = Append(s \o t, e) /\ s \o t \in Seq(M)
    BY AppendProperties, ConcatProperties, AppendConcat
  <2>2. Adjacent(Append(t, e)) <=> Adjacent(t) /\ (t # <<>> => (Open(t) <=> Result(e)))
    BY <2>1, AdjacentAppend
  <2>. DEFINE u == s \o t
  <2>3. s \o Append(t, e) = Append(u, e) /\ u \in Seq(M)
    BY <2>1
  <2>4. t # <<>> => Head(Append(t, e)) = Head(t)
    BY <2>1, HeadAppend
  <2>5. t = <<>> => Head(Append(t, e)) = e /\ u = s
    BY ConcatEmptySeq
  <2>6. t # <<>> => u # <<>>
    <3>1. Len(t) # 0 => Len(u) # 0
      BY <2>1, ConcatProperties, LenProperties
    <3>2. t # <<>> => Len(t) # 0
      BY <2>1, EmptySeq
    <3>. QED
      BY <3>1, <3>2
  <2>7. P(t) <=> (Adjacent(t) /\ (s # <<>> /\ t # <<>> => (Open(s) <=> Result(Head(t)))) =>
                     Adjacent(u) /\ (Open(u) <=> (IF t = <<>> THEN Open(s) ELSE Open(t))))
    OBVIOUS
  <2>8. Append(t, e) # <<>> /\ Append(u, e) # <<>>
    OBVIOUS
  <2>. HIDE DEF u
  <2>9. Adjacent(Append(u, e)) <=> Adjacent(u) /\ (u # <<>> => (Open(u) <=> Result(e)))
    BY <2>3, AdjacentAppend
  <2>10. (Open(Append(u, e)) <=> e.kind = "toolUse") /\ (Open(Append(t, e)) <=> e.kind = "toolUse")
    BY <2>1, <2>3, OpenAppend
  <2>11. ASSUME Adjacent(Append(t, e)),
                s # <<>> => (Open(s) <=> Result(Head(Append(t, e))))
         PROVE  Adjacent(Append(u, e)) /\ (Open(Append(u, e)) <=> Open(Append(t, e)))
    <3>1. CASE t = <<>>
      BY <2>5, <2>9, <2>10, <2>11, <3>1
    <3>2. CASE t # <<>>
      BY <2>1, <2>2, <2>4, <2>6, <2>7, <2>9, <2>10, <2>11, <3>2
    <3>. QED
      BY <3>1, <3>2
  <2>12. P(Append(t, e))
    BY <2>3, <2>8, <2>11
  <2>. QED
    BY <2>1, <2>12
<1>3. S \in SUBSET Seq(M)
  OBVIOUS
<1>. HIDE DEF S
<1>4. S = Seq(M)
  BY <1>1, <1>2, <1>3, SequenceInduction
<1>. QED
  BY <1>4 DEF S

(* Leaving out the compactions.                                            *)
LEMMA AdjacentPlain ==
    \A s \in Seq(Msg) :
       /\ Adjacent(s) => Adjacent(Among(s, Plain)) /\ (Open(Among(s, Plain)) <=> Open(s))
       /\ s # <<>> /\ Head(s) \in Plain =>
             Among(s, Plain) # <<>> /\ Head(Among(s, Plain)) = Head(s)
<1>. DEFINE Q(s, u) == /\ s # <<>> /\ Head(s) \in Plain => u # <<>> /\ Head(u) = Head(s)
                       /\ s = <<>> => u = <<>>
                       /\ Adjacent(s) => Adjacent(u) /\ (Open(u) <=> Open(s))
            S == {s \in Seq(Msg) : Q(s, Among(s, Plain))}
<1>1. <<>> \in S
  BY AmongNone, EmptySeq
<1>2. ASSUME NEW s \in S, NEW e \in Msg PROVE Append(s, e) \in S
  <2>. DEFINE u == Among(s, Plain)
              v == Among(Append(s, e), Plain)
  <2>1. s \in Seq(Msg) /\ Q(s, u) /\ Append(s, e) \in Seq(Msg) /\ u \in Seq(Msg)
    <3>1. s \in Seq(Msg) /\ Q(s, u)
      OBVIOUS
    <3>2. u \in Seq(Msg \cap Plain) /\ Msg \cap Plain \subseteq Msg
      BY <3>1, AmongSeq
    <3>. QED
      BY <3>1, <3>2, AppendProperties, SeqMonotonic
  <2>2. v = IF e \in Plain THEN Append(u, e) ELSE u
    BY <2>1, AmongAppend
  <2>. HIDE DEF u, v
  <2>3. Adjacent(Append(s, e)) <=> Adjacent(s) /\ (s # <<>> => (Open(s) <=> Result(e)))
    BY <2>1, AdjacentAppend
  <2>4. Adjacent(Append(u, e)) <=> Adjacent(u) /\ (u # <<>> => (Open(u) <=> Result(e)))
    BY <2>1, AdjacentAppend
  <2>5. (Open(Append(s, e)) <=> e.kind = "toolUse") /\ (Open(Append(u, e)) <=> e.kind = "toolUse")
    BY <2>1, OpenAppend
  <2>6. /\ s # <<>> => Head(Append(s, e)) = Head(s)
        /\ u # <<>> => Head(Append(u, e)) = Head(u)
        /\ Head(Append(<<>>, e)) = e
    BY <2>1, HeadAppend
  <2>7. Append(s, e) # <<>> /\ Append(u, e) # <<>>
    OBVIOUS
  <2>8. CASE e \in Plain
    <3>1. v = Append(u, e)
      BY <2>2, <2>8
    <3>2. Head(Append(s, e)) \in Plain => Head(v) = Head(Append(s, e))
      BY <2>1, <2>6, <3>1
    <3>3. u # <<>> => s # <<>>
      BY <2>1
    <3>4. Adjacent(Append(s, e)) => Adjacent(v) /\ (Open(v) <=> Open(Append(s, e)))
      BY <2>1, <2>3, <2>4, <2>5, <3>1, <3>3
    <3>5. Q(Append(s, e), v)
      BY <2>7, <3>1, <3>2, <3>4
    <3>. QED
      BY <2>1, <3>5 DEF v
  <2>9. CASE e \notin Plain
    <3>1. v = u /\ e.role = "compaction" /\ ~Result(e) /\ e.kind # "toolUse"
      <4>1. e.role = "compaction"
        BY <2>9 DEF Plain, IsMessage, IsCompaction
      <4>2. e.kind = ""
        BY <4>1 DEF Msg
      <4>. QED
        BY <2>2, <2>9, <4>1, <4>2 DEF Result
    <3>2. Head(Append(s, e)) \in Plain => s # <<>>
      BY <2>6, <2>9
    <3>3. Adjacent(Append(s, e)) => Adjacent(v) /\ (Open(v) <=> Open(Append(s, e)))
      <4>1. s = <<>> => ~Open(u)
        BY <2>1 DEF Open
      <4>. QED
        BY <2>1, <2>3, <2>5, <3>1, <4>1
    <3>4. Q(Append(s, e), v)
      BY <2>1, <2>6, <2>7, <3>1, <3>2, <3>3
    <3>. QED
      BY <2>1, <3>4 DEF v
  <2>. QED
    BY <2>8, <2>9
<1>3. S \in SUBSET Seq(Msg)
  OBVIOUS
<1>. HIDE DEF S
<1>4. S = Seq(Msg)
  BY <1>1, <1>2, <1>3, SequenceInduction
<1>. QED
  BY <1>4 DEF S

LEMMA AdjacentSub ==
    ASSUME NEW M, NEW s \in Seq(M), Adjacent(s),
           NEW n \in 1..(Len(s) + 1), NEW m \in (n - 1)..Len(s)
    PROVE  /\ Adjacent(SubSeq(s, n, m))
           /\ n <= m => /\ SubSeq(s, n, m) # <<>> /\ Head(SubSeq(s, n, m)) = s[n]
                        /\ Open(SubSeq(s, n, m)) <=> s[m].kind = "toolUse"
           /\ ~(n <= m) => SubSeq(s, n, m) = <<>>
<1>. DEFINE u == SubSeq(s, n, m)
            l == m - n + 1
<1>1. /\ u \in Seq(M) /\ Len(u) = l /\ Len(s) \in Nat
      /\ \A i \in 1..l : u[i] = s[n + i - 1]
  BY SubSeqIs, LenProperties
<1>. HIDE DEF u
<1>2. ASSUME NEW i \in 1..(l - 1) PROVE u[i].kind = "toolUse" <=> u[i + 1].role = "toolResult"
  <2>1. i \in 1..l /\ i + 1 \in 1..l /\ n + i - 1 \in 1..(Len(s) - 1)
        /\ n + (i + 1) - 1 = (n + i - 1) + 1
    BY <1>1
  <2>2. u[i] = s[n + i - 1] /\ u[i + 1] = s[(n + i - 1) + 1]
    BY <1>1, <2>1
  <2>. QED
    BY <2>1, <2>2 DEF Adjacent
<1>3. Adjacent(u)
  BY <1>1, <1>2 DEF Adjacent
<1>4. ASSUME n <= m PROVE u # <<>> /\ Head(u) = s[n] /\ (Open(u) <=> s[m].kind = "toolUse")
  <2>1. 1 \in 1..l /\ l \in 1..l /\ n + 1 - 1 = n /\ n + l - 1 = m /\ l # 0
    BY <1>1, <1>4
  <2>2. u[1] = s[n] /\ u[l] = s[m]
    BY <1>1, <2>1
  <2>3. u # <<>> /\ Head(u) = u[1] /\ Last(u) = u[l]
    BY <1>1, <2>1, EmptySeq, HeadTailProperties DEF Last
  <2>. QED
    BY <2>2, <2>3 DEF Open
<1>5. ASSUME ~(n <= m) PROVE u = <<>>
  <2>1. Len(u) = 0
    BY <1>1, <1>5
  <2>. QED
    BY <1>1, <2>1, EmptySeq
<1>. QED
  BY <1>3, <1>4, <1>5 DEF u

Distinct(es) == \A i, j \in 1..Len(es) : es[i].id = es[j].id => es[i] = es[j]

LEMMA BuiltAdjacent ==
    ASSUME NEW es \in Seq(Msg), AllSplit(es), Distinct(es), Adjacent(es)
    PROVE  /\ Adjacent(BuildSessionContext(es))
           /\ Open(BuildSessionContext(es)) => Open(es)
<1>. DEFINE k == LatestCompaction(es)
<1>1. CASE k = 0
  BY <1>1, BuiltWhole
<1>2. CASE k # 0
  <2>. DEFINE f == FirstKept(es, k)
              u == SubSeq(es, f, k - 1)
              a == <<es[k]>>
              b == Among(u, Plain)
              v == SubSeq(es, k + 1, Len(es))
  <2>1. /\ k \in 1..Len(es) /\ IsCompaction(es[k]) /\ es[k] \in Msg
        /\ f \in 1..(k - 1) /\ u \in Seq(Msg) /\ es[f].id = es[k].first
        /\ b \in Seq(Plain) /\ v \in Seq(Plain)
        /\ BuildSessionContext(es) = (a \o b) \o v
    BY <1>2, BuiltParts DEF KeptPart, LaterPart
  <2>2. PICK c \in 1..(k - 1) : SplitAt(es, k - 1, es[k], c)
    BY <1>2, BuiltParts
  <2>3. a \in Seq(Msg) /\ b \in Seq(Msg) /\ v \in Seq(Msg)
    BY <2>1, PlainSeq
  <2>. HIDE DEF a, b, u, v, f, k
  <2>4. Len(es) \in Nat /\ \A i \in 1..Len(es) : es[i] \in Msg
    BY LenProperties
  <2>5. es[f] \in Plain /\ ~Result(es[f])
    <3>1. f \in 1..Len(es) /\ c \in 1..Len(es)
      BY <2>1, <2>2, <2>4
    <3>2. es[c].id = es[k].first /\ IsMessage(es[c]) /\ es[c].role # "toolResult"
      BY <2>2 DEF SplitAt
    <3>3. es[f] = es[c]
      BY <2>1, <3>1, <3>2 DEF Distinct
    <3>. QED
      BY <2>4, <3>1, <3>2, <3>3 DEF Plain, Result
  <2>6. es[k].kind = "" /\ ~Result(es[k])
    BY <2>1 DEF IsCompaction, Msg, Result
  <2>7. es[k - 1].kind # "toolUse"
    <3>1. k - 1 \in 1..(Len(es) - 1) /\ k - 1 + 1 = k
      BY <2>1, <2>2, <2>4
    <3>. QED
      BY <2>6, <3>1 DEF Adjacent, Result
  <2>8. Adjacent(u) /\ u # <<>> /\ Head(u) = es[f] /\ ~Open(u)
    <3>1. f \in 1..(Len(es) + 1) /\ k - 1 \in (f - 1)..Len(es) /\ f <= k - 1
      BY <2>1, <2>4
    <3>. QED
      BY <2>7, <3>1, AdjacentSub DEF u
  <2>9. /\ Adjacent(v)
        /\ v # <<>> => ~Result(Head(v)) /\ (Open(v) <=> es[Len(es)].kind = "toolUse")
    <3>1. k + 1 \in 1..(Len(es) + 1) /\ Len(es) \in (k + 1 - 1)..Len(es)
      BY <2>1, <2>4
    <3>2. /\ Adjacent(v)
          /\ k + 1 <= Len(es) => /\ Head(v) = es[k + 1]
                                 /\ Open(v) <=> es[Len(es)].kind = "toolUse"
          /\ ~(k + 1 <= Len(es)) => v = <<>>
      BY <3>1, AdjacentSub DEF v
    <3>3. k + 1 <= Len(es) => ~Result(es[k + 1])
      <4>1. k + 1 <= Len(es) => k \in 1..(Len(es) - 1)
        BY <2>1, <2>4
      <4>. QED
        BY <2>6, <4>1 DEF Adjacent, Result
    <3>. QED
      BY <3>2, <3>3
  <2>10. Adjacent(b) /\ ~Open(b) /\ b # <<>> /\ ~Result(Head(b))
    BY <2>1, <2>5, <2>8, AdjacentPlain DEF b
  <2>11. Adjacent(a) /\ ~Open(a)
    BY <2>6, AdjacentNone DEF Open, Last, a
  <2>12. Adjacent(a \o b) /\ ~Open(a \o b)
    BY <2>3, <2>10, <2>11, AdjacentConcat
  <2>. DEFINE w == a \o b
  <2>13. w \in Seq(Msg) /\ Adjacent(w) /\ ~Open(w)
    BY <2>3, <2>12, ConcatProperties
  <2>. HIDE DEF w
  <2>14. Adjacent(w \o v) /\ (Open(w \o v) <=> (IF v = <<>> THEN Open(w) ELSE Open(v)))
    BY <2>3, <2>9, <2>13, AdjacentConcat
  <2>15. es # <<>> /\ Last(es) = es[Len(es)]
    BY <2>1, <2>4 DEF Last
  <2>. QED
    BY <2>1, <2>9, <2>13, <2>14, <2>15 DEF Open, w
<1>. QED
  BY <1>1, <1>2

ToolInv ==
    /\ Adjacent(messages) /\ Adjacent(entries)
    /\ phase = "tool" => Open(messages) /\ Open(entries)
    /\ Open(messages) => phase \in {"tool", "writing"}
    /\ Open(entries) => phase = "tool" \/ (phase = "writing" /\ Result(writing[1]))
    /\ phase = "writing" /\ Result(writing[1]) => Open(entries)

(* What a step does, with whether it begins or ends a tool call.           *)
SamePlace ==
    /\ phase' = "tool" <=> phase = "tool"
    /\ phase' = "writing" <=> phase = "writing"
ToolStep ==
    \/ SamePlace /\ ~Hears /\ \A m \in Plain : ~Says(m)
    \/ Hears /\ (phase' = "tool" <=> writing[1].kind = "toolUse")
    \/ \E m \in Plain : Says(m) /\ (Result(m) <=> phase = "tool")

LEMMA AgentTools ==
    ASSUME TypeInv, AgentStep PROVE ToolStep
<1>1. /\ lastId \in Nat /\ pending \in Held(Given) /\ writing \in Held(Plain)
      /\ phase = "writing" <=> writing # <<>>
      /\ Given \subseteq Plain /\ Plain \subseteq Msg
  BY GivenPlain DEF TypeInv, TextTypes, WaitingTypes, Places
<1>2. CASE Deliver
  <2>. DEFINE m == Said(Head(pending))
  <2>1. pending # <<>>
    BY <1>2 DEF Deliver, TypeInv, Places
  <2>2. m \in Given /\ m \in Plain /\ ~Result(m)
    <3>1. m \in Given
      BY <1>1, <2>1, HeldIs, SaidIs
    <3>. HIDE DEF m
    <3>. QED
      BY <1>1, <3>1 DEF Given, Result
  <2>3. Says(m)
    BY <1>2, <2>2, FinishedSays DEF Deliver
  <2>4. phase = "deliver"
    BY <1>2 DEF Deliver
  <2>. HIDE DEF m
  <2>. QED
    BY <2>2, <2>3, <2>4 DEF ToolStep
<1>3. CASE ToolEnds
  <2>. DEFINE m == Made("toolResult", "")
  <2>1. m \in Plain /\ Result(m)
    BY <1>1, MadeTypes DEF Made, Result
  <2>2. phase = "tool" /\ Finished(m)
    BY <1>3 DEF ToolEnds
  <2>. HIDE DEF m
  <2>3. Says(m)
    BY <2>1, <2>2, FinishedSays
  <2>. QED
    BY <2>1, <2>2, <2>3 DEF ToolStep
<1>4. ASSUME NEW k \in ReplyKinds \cup {"aborted"}, Respond(k) PROVE ToolStep
  <2>. DEFINE m == Made("assistant", k)
  <2>1. m \in Plain /\ ~Result(m)
    BY <1>1, MadeTypes DEF Made, Result, Kinds
  <2>2. phase = "call" /\ Finished(m)
    BY <1>4 DEF Respond
  <2>. HIDE DEF m
  <2>3. Says(m)
    BY <2>1, <2>2, FinishedSays
  <2>. QED
    BY <2>1, <2>2, <2>3 DEF ToolStep
<1>5. CASE MessagePersisted
  <2>. DEFINE m == writing[1]
  <2>1. m \in Msg /\ AfterMessage(m)
    BY <1>1, <1>5, HeldIs DEF MessagePersisted
  <2>. HIDE DEF m
  <2>2. \A p : Poll(p) => phase' \in {p, "deliver"}
    BY DEF Poll, GoTo, TakeSteering
  <2>3. m.kind = "toolUse" => m.role = "assistant" /\ m.role # "toolResult"
    BY <2>1 DEF Msg
  <2>4. phase' # "writing" /\ (phase' = "tool" <=> m.kind = "toolUse")
    BY <2>1, <2>2, <2>3 DEF AfterMessage, GoTo, TakeFollowUp, IsAssistant, StopError
  <2>5. Hears
    BY <1>5, <2>4 DEF MessagePersisted, Hears, Persisted
  <2>. QED
    BY <2>4, <2>5 DEF ToolStep, m
<1>6. CASE FirstPoll \/ FinishRun
  <2>1. phase \in {"poll", "end"} /\ phase' \in {"call", "deliver", "idle"}
    BY <1>6 DEF FirstPoll, FinishRun, Poll, GoTo, TakeSteering
  <2>. QED
    BY <2>1 DEF ToolStep, SamePlace, Hears, Says
<1>. QED
  BY <1>2, <1>3, <1>4, <1>5, <1>6 DEF AgentStep

LEMMA NextTools == ASSUME TypeInv, [Next]_vars PROVE ToolStep
<1>1. ASSUME SamePlace PROVE ToolStep
  BY <1>1 DEF ToolStep, SamePlace, Hears, Says
<1>2. CASE UNCHANGED vars
  <2>1. phase' = phase
    BY <1>2 DEF vars, agentVars
  <2>. QED
    BY <1>1, <2>1 DEF SamePlace
<1>3. CASE PromptStep \/ Prompt
  <2>1. phase = "idle"
    BY <1>3
    DEF TypeInv, Places, PromptStep, Prompt, CheckBeforePrompt, HandlePostAgentRun, Cancelled,
           Continue, ContinueRefused, Slept, CompactionFails, CompactionSaved, CompactionEnds,
           RunPrompt
  <2>2. phase' \in {"idle", "poll", "deliver"}
    BY <1>3, <2>1
    DEF PromptStep, CheckBeforePrompt, HandlePostAgentRun, Cancelled, ContinueRefused, Prompt,
        Slept, CompactionFails, CompactionSaved, CompactionEnds, Continue, RunPrompt, StartRun,
        agentVars
  <2>. QED
    BY <1>1, <2>1, <2>2 DEF SamePlace
<1>4. CASE Application \/ compact \/ CompactStep
  <2>1. phase' = phase
    BY <1>4 DEF Application, steer, followUp, sendCustomMessage, recordBashResult, clearQueue,
                abortRetry, abort, abortCompaction, compact, CompactStep, ManualPrepare,
                ManualFails, ManualSaved, ManualEnds, agentVars
  <2>. QED
    BY <1>1, <2>1 DEF SamePlace
<1>. QED
  BY <1>2, <1>3, <1>4, AgentTools DEF Next

LEMMA DistinctEntries ==
    ASSUME KnownInv, entries \in Seq(Msg) PROVE Distinct(entries)
<1>1. \A i \in 1..Len(entries) : entries[i] \in Known
  BY LenProperties DEF Known, Spoken, Range
<1>. QED
  BY <1>1 DEF KnownInv, Distinct

(* What is neither a call nor a result, at the end.                        *)
LEMMA AdjacentSaid ==
    ASSUME NEW t \in Seq(Msg), \A i \in 1..Len(t) : ~IsAssistant(t[i]) /\ ~Result(t[i])
    PROVE  \A s \in Seq(Msg) :
              Adjacent(s) /\ ~Open(s) => Adjacent(s \o t) /\ ~Open(s \o t)
<1>1. Len(t) \in Nat /\ \A i \in 1..Len(t) : t[i] \in Msg
  BY LenProperties
<1>2. \A i \in 1..Len(t) : t[i].kind # "toolUse" /\ t[i].role # "toolResult"
  BY <1>1 DEF Msg, IsAssistant, Result
<1>3. Adjacent(t)
  <2>1. \A i \in 1..(Len(t) - 1) : i \in 1..Len(t) /\ i + 1 \in 1..Len(t)
    BY <1>1
  <2>. QED
    BY <1>2, <2>1 DEF Adjacent
<1>4. t # <<>> => ~Result(Head(t)) /\ ~Open(t)
  <2>1. t # <<>> => /\ 1 \in 1..Len(t) /\ Len(t) \in 1..Len(t)
                    /\ Head(t) = t[1] /\ Last(t) = t[Len(t)]
    BY <1>1, EmptySeq, HeadTailProperties DEF Last
  <2>. QED
    BY <1>2, <2>1 DEF Open, Result
<1>5. ASSUME NEW s \in Seq(Msg), Adjacent(s), ~Open(s) PROVE Adjacent(s \o t) /\ ~Open(s \o t)
  <2>1. /\ Adjacent(s \o t)
        /\ Open(s \o t) <=> (IF t = <<>> THEN Open(s) ELSE Open(t))
    BY <1>3, <1>4, <1>5, AdjacentConcat
  <2>. QED
    BY <1>4, <1>5, <2>1
<1>. QED
  BY <1>5

LEMMA ToolNext ==
    ASSUME TypeInv, Quiet, WriteInv, ToolInv, QuietText, ToolStep, TypeInv', KnownInv'
    PROVE  ToolInv'
<1>1. /\ messages \in Seq(Msg) /\ entries \in Seq(Msg) /\ writing \in Held(Plain)
      /\ phase = "writing" <=> writing # <<>>
      /\ entries' \in Seq(Msg) /\ AllSplit(entries')
      /\ phase' = "writing" <=> writing' # <<>>
      /\ ToolInv
  BY DEF TypeInv, TextTypes, WaitingTypes, Places
<1>2. CASE Hears
  <2>. DEFINE m == writing[1]
  <2>1. /\ m \in Msg /\ entries' = Append(entries, m) /\ messages' = messages
        /\ phase = "writing" /\ phase' # "writing" /\ heard = TRUE
        /\ messages # <<>> /\ Last(messages) = m
    <3>1. writing # <<>> /\ heard = TRUE
      BY <1>1, <1>2 DEF Hears, Quiet
    <3>. QED
      BY <1>1, <1>2, <3>1, HeldIs, GivenPlain DEF Hears, WriteInv
  <2>2. phase' = "tool" <=> m.kind = "toolUse"
    BY <1>2, <2>1 DEF ToolStep, SamePlace, Says
  <2>3. Open(entries) <=> Result(m)
    BY <1>1, <2>1 DEF ToolInv
  <2>. HIDE DEF m
  <2>4. Adjacent(Append(entries, m)) /\ (Open(Append(entries, m)) <=> m.kind = "toolUse")
    BY <1>1, <2>1, <2>3, AdjacentAppend, OpenAppend DEF ToolInv
  <2>5. Open(messages) <=> m.kind = "toolUse"
    BY <2>1 DEF Open
  <2>. QED
    BY <1>1, <2>1, <2>2, <2>4, <2>5 DEF ToolInv
<1>3. ASSUME NEW m \in Plain, Says(m) PROVE ToolInv'
  <2>1. /\ m \in Msg /\ messages' = Append(messages, m) /\ entries' = entries
        /\ phase # "writing" /\ phase' = "writing" /\ writing' = <<m>> /\ writing'[1] = m
    BY <1>3, GivenPlain DEF Says
  <2>2. Result(m) <=> phase = "tool"
    <3>1. ASSUME NEW n \in Plain, Says(n) PROVE n = m
      <4>1. <<n>> = <<m>> /\ <<n>>[1] = n /\ <<m>>[1] = m
        BY <1>3, <3>1 DEF Says
      <4>. QED
        BY <4>1
    <3>2. ~SamePlace /\ ~Hears
      BY <2>1 DEF SamePlace, Hears
    <3>. QED
      BY <3>1, <3>2 DEF ToolStep
  <2>3. (Open(messages) <=> Result(m)) /\ (Open(entries) <=> Result(m))
    BY <1>1, <2>1, <2>2 DEF ToolInv
  <2>4. Adjacent(Append(messages, m))
    BY <1>1, <2>1, <2>3, AdjacentAppend DEF ToolInv
  <2>. QED
    BY <1>1, <2>1, <2>3, <2>4 DEF ToolInv
<1>4. CASE ~Hears /\ \A m \in Plain : ~Says(m)
  <2>1. /\ phase' = "tool" <=> phase = "tool"
        /\ phase' = "writing" <=> phase = "writing"
    BY <1>4 DEF ToolStep, SamePlace
  <2>2. ASSUME UNCHANGED <<messages, entries, writing>> PROVE ToolInv'
    BY <1>1, <2>1, <2>2 DEF ToolInv
  <2>3. ASSUME phase = "idle", Adjacent(messages'), ~Open(messages'), Adjacent(entries'),
               ~Open(entries')
        PROVE  ToolInv'
    BY <2>1, <2>3 DEF ToolInv
  <2>4. ASSUME phase = "idle"
        PROVE  Adjacent(messages) /\ ~Open(messages) /\ Adjacent(entries) /\ ~Open(entries)
    BY <1>1, <2>4 DEF ToolInv
  <2>5. CASE Silent \/ \E n \in Bash : Waits(n)
    BY <2>2, <2>5 DEF Silent, textVars, Waits
  <2>6. CASE Flushes
    <3>. DEFINE t == pendingBashMessages
    <3>1. /\ t \in Seq(Msg) /\ phase = "idle"
          /\ messages' = messages \o t /\ entries' = entries \o t
      BY <2>6, BashSeq, PlainSeq DEF Flushes, Flush, TypeInv, TextTypes
    <3>2. \A i \in 1..Len(t) : ~IsAssistant(t[i]) /\ ~Result(t[i])
      <4>1. t \in Seq(Bash)
        BY DEF TypeInv, TextTypes
      <4>. QED
        BY <4>1, LenProperties DEF Bash, IsAssistant, Result
    <3>. HIDE DEF t
    <3>. QED
      BY <1>1, <2>3, <2>4, <3>1, <3>2, AdjacentSaid
  <2>7. CASE TakesBack
    <3>1. phase = "idle" /\ messages' = WithoutLastAssistant /\ entries' = entries
      BY <2>7 DEF TakesBack, Takes
    <3>2. CASE messages # <<>> /\ IsAssistant(Last(messages))
      <4>. DEFINE f == Front(messages)
                  m == Last(messages)
      <4>1. f \in Seq(Msg) /\ m \in Msg /\ messages = Append(f, m) /\ messages' = f
        BY <1>1, <3>1, <3>2, FrontLast DEF WithoutLastAssistant
      <4>2. ~Result(m)
        BY <3>2 DEF IsAssistant, Result
      <4>. HIDE DEF f, m
      <4>3. Adjacent(f) /\ ~Open(f)
        BY <2>4, <3>1, <4>1, <4>2, AdjacentAppend DEF Open
      <4>. QED
        BY <2>3, <2>4, <3>1, <4>1, <4>3
    <3>3. CASE ~(messages # <<>> /\ IsAssistant(Last(messages)))
      BY <2>3, <2>4, <3>1, <3>3 DEF WithoutLastAssistant
    <3>. QED
      BY <3>2, <3>3
  <2>8. ASSUME NEW m \in Plain, Recording(m) PROVE ToolInv'
    <3>1. /\ phase = "idle" /\ m \in Msg /\ messages' = Append(messages, m)
          /\ entries' = Append(entries, m) /\ ~Result(m) /\ m.kind # "toolUse"
      BY <2>8, GivenPlain DEF Recording, Recorded, Result, Msg
    <3>. QED
      BY <1>1, <2>3, <2>4, <3>1, AdjacentAppend, OpenAppend
  <2>9. ASSUME NEW p \in Preps, phase = "idle", Compacts(p) PROVE ToolInv'
    <3>. DEFINE m == CompactionEntry(p)
    <3>1. /\ m \in Msg /\ entries' = Append(entries, m) /\ messages' = BuildSessionContext(entries')
          /\ IsCompaction(m)
      BY <2>9, CompactionText
    <3>2. ~Result(m) /\ m.kind # "toolUse"
      BY <3>1 DEF IsCompaction, Result, Msg
    <3>. HIDE DEF m
    <3>3. Adjacent(entries') /\ ~Open(entries')
      BY <1>1, <2>4, <2>9, <3>1, <3>2, AdjacentAppend, OpenAppend
    <3>4. Distinct(entries')
      <4>1. \A i \in 1..Len(entries') : entries'[i] \in Known'
        BY <1>1, LenProperties DEF Known, Spoken, Range
      <4>. QED
        BY <4>1 DEF KnownInv, Distinct
    <3>5. Adjacent(messages') /\ ~Open(messages')
      BY <1>1, <3>1, <3>3, <3>4, BuiltAdjacent
    <3>. QED
      BY <2>3, <2>9, <3>3, <3>5
  <2>. QED
    BY <1>4, <2>5, <2>6, <2>7, <2>8, <2>9 DEF QuietText
<1>. QED
  BY <1>2, <1>3, <1>4

LEMMA ToolResultsDoFollow ==
    ASSUME TypeInv, KnownInv, ToolInv PROVE ToolResultsFollow
<1>1. entries \in Seq(Msg) /\ AllSplit(entries) /\ (pc # "run" => phase = "idle")
  BY DEF TypeInv, TextTypes, Places
<1>2. Distinct(entries)
  BY <1>1, DistinctEntries
<1>3. Adjacent(BuildSessionContext(entries))
  BY <1>1, <1>2, BuiltAdjacent DEF ToolInv
<1>4. pc # "run" => ~Open(messages) /\ ~Open(entries)
  BY <1>1 DEF ToolInv
<1>. QED
  BY <1>3, <1>4 DEF ToolInv, ToolResultsFollow, Open

-----------------------------------------------------------------------------
(* The queues and what is shown of them.                                   *)

(* How many elements of a sequence are in K.                               *)
Tally(s, K) == Len(Among(s, K))
One(e, K)   == IF e \in K THEN 1 ELSE 0

LEMMA TallyNone == ASSUME NEW K PROVE Tally(<<>>, K) = 0
BY AmongNone DEF Tally

LEMMA TallyNat == ASSUME NEW M, NEW s \in Seq(M), NEW K PROVE Tally(s, K) \in Nat
<1>1. Among(s, K) \in Seq(M \cap K)
  BY AmongSeq
<1>. QED
  BY <1>1, LenProperties DEF Tally

LEMMA TallyAppend ==
    ASSUME NEW M, NEW s \in Seq(M), NEW e \in M, NEW K
    PROVE  Tally(Append(s, e), K) = Tally(s, K) + One(e, K)
<1>. DEFINE a == Among(s, K)
<1>1. a \in Seq(M) /\ Len(a) \in Nat
  <2>1. a \in Seq(M \cap K)
    BY AmongSeq
  <2>. HIDE DEF a
  <2>. QED
    BY <2>1, SeqMonotonic, LenProperties
<1>2. Among(Append(s, e), K) = IF e \in K THEN Append(a, e) ELSE a
  BY AmongAppend
<1>. HIDE DEF a
<1>3. Len(Append(a, e)) = Len(a) + 1
  BY <1>1, AppendProperties
<1>4. CASE e \in K
  BY <1>2, <1>3, <1>4 DEF Tally, One, a
<1>5. CASE e \notin K
  BY <1>1, <1>2, <1>5 DEF Tally, One, a
<1>. QED
  BY <1>4, <1>5

LEMMA TallyConcat ==
    ASSUME NEW M, NEW s \in Seq(M), NEW t \in Seq(M), NEW K
    PROVE  Tally(s \o t, K) = Tally(s, K) + Tally(t, K)
<1>. DEFINE a == Among(s, K)
            b == Among(t, K)
<1>1. a \in Seq(M \cap K) /\ b \in Seq(M \cap K)
  BY AmongSeq
<1>2. Among(s \o t, K) = a \o b
  BY AmongConcat
<1>. HIDE DEF a, b
<1>3. Len(a \o b) = Len(a) + Len(b)
  BY <1>1, ConcatProperties
<1>. QED
  BY <1>2, <1>3 DEF Tally, a, b

LEMMA TallyOne == ASSUME NEW M, NEW e \in M, NEW K PROVE Tally(<<e>>, K) = One(e, K)
<1>1. <<>> \in Seq(M) /\ Append(<<>>, e) = <<e>>
  BY EmptySeq
<1>2. Tally(Append(<<>>, e), K) = Tally(<<>>, K) + One(e, K)
  BY <1>1, TallyAppend
<1>3. One(e, K) \in Nat
  BY DEF One
<1>. QED
  BY <1>1, <1>2, <1>3, TallyNone

LEMMA TallyHead ==
    ASSUME NEW M, NEW s \in Seq(M), s # <<>>, NEW K
    PROVE  Tally(s, K) = Tally(<<Head(s)>>, K) + Tally(Tail(s), K)
<1>. DEFINE h == <<Head(s)>>
            t == Tail(s)
<1>1. h \in Seq(M) /\ t \in Seq(M) /\ s = h \o t
  <2>1. /\ h \in Seq(M) /\ t \in Seq(M) /\ Len(t) = Len(s) - 1 /\ Len(s) \in Nat
        /\ Len(h) = 1 /\ h[1] = s[1] /\ \A i \in 1..Len(t) : t[i] = s[i + 1]
    BY HeadTailProperties, LenProperties
  <2>2. Len(s) # 0
    BY EmptySeq
  <2>. HIDE DEF h, t
  <2>. DEFINE u == h \o t
  <2>3. /\ u \in Seq(M) /\ Len(u) = Len(h) + Len(t)
        /\ \A i \in 1..(Len(h) + Len(t)) : u[i] = IF i <= Len(h) THEN h[i] ELSE t[i - Len(h)]
    <3>1. h \in Seq(M) /\ t \in Seq(M)
      BY <2>1
    <3>. QED
      BY <3>1, ConcatProperties
  <2>. HIDE DEF u
  <2>4. Len(u) = Len(s)
    BY <2>1, <2>3
  <2>5. ASSUME NEW i \in 1..Len(s) PROVE u[i] = s[i]
    <3>1. i \in 1..(Len(h) + Len(t))
      BY <2>1
    <3>2. CASE i = 1
      BY <2>1, <2>3, <3>1, <3>2
    <3>3. CASE i # 1
      <4>1. ~(i <= Len(h)) /\ i - Len(h) \in 1..Len(t) /\ (i - Len(h)) + 1 = i
        BY <2>1, <3>3
      <4>. QED
        BY <2>1, <2>3, <3>1, <4>1
    <3>. QED
      BY <3>2, <3>3
  <2>. QED
    BY <2>1, <2>3, <2>4, <2>5, SeqEqual DEF u
<1>. HIDE DEF h, t
<1>2. Tally(h \o t, K) = Tally(h, K) + Tally(t, K)
  BY <1>1, TallyConcat DEF h, t
<1>. QED
  BY <1>1, <1>2 DEF h, t

LEMMA TallyAbsent ==
    ASSUME NEW M, NEW s \in Seq(M), NEW K, Range(s) \cap K = {}
    PROVE  Tally(s, K) = 0
<1>1. Among(s, K) \in Seq(M \cap K) /\ Range(Among(s, K)) = Range(s) \cap K
  BY AmongSeq, AmongRange
<1>. DEFINE a == Among(s, K)
<1>. HIDE DEF a
<1>2. Len(a) = 0
  <2>1. Len(a) \in Nat /\ DOMAIN a = 1..Len(a) /\ Range(a) = {}
    BY <1>1, LenProperties DEF a
  <2>2. Len(a) # 0 => 1 \in 1..Len(a)
    BY <2>1
  <2>. QED
    BY <2>1, <2>2 DEF Range
<1>. QED
  BY <1>2 DEF Tally, a

LEMMA TallyRemoved ==
    ASSUME NEW M, NEW s \in Seq(M), NEW e, NEW K
    PROVE  Tally(RemoveFirst(s, e), K) =
              Tally(s, K) - (IF e \in Range(s) THEN One(e, K) ELSE 0)
<1>1. Tally(s, K) \in Nat
  BY TallyNat
<1>2. CASE e \notin Range(s)
  <2>1. DOMAIN s = 1..Len(s)
    BY LenProperties
  <2>2. RemoveFirst(s, e) = s
    BY <1>2, <2>1 DEF RemoveFirst, Range
  <2>. QED
    BY <1>1, <1>2, <2>2
<1>3. CASE e \in Range(s)
  <2>0. Spliced(M, s, e, RemoveFirst(s, e))
    BY <1>3, Removed
  <2>1. PICK a, b \in Seq(M) : RemoveFirst(s, e) = a \o b /\ s = (a \o <<e>>) \o b
    BY <2>0 DEF Spliced
  <2>2. e \in M
    BY <1>3, LenProperties DEF Range
  <2>3. <<e>> \in Seq(M) /\ a \o <<e>> \in Seq(M)
    BY <2>2, ConcatProperties
  <2>. DEFINE c == a \o <<e>>
  <2>4. Tally(c, K) = Tally(a, K) + One(e, K)
    <3>1. Tally(a \o <<e>>, K) = Tally(a, K) + Tally(<<e>>, K)
      BY <2>3, TallyConcat
    <3>2. Tally(<<e>>, K) = One(e, K)
      BY <2>2, TallyOne
    <3>. QED
      BY <3>1, <3>2
  <2>. HIDE DEF c
  <2>5. Tally(c \o b, K) = Tally(c, K) + Tally(b, K) /\ Tally(a \o b, K) = Tally(a, K) + Tally(b, K)
    BY <2>3, TallyConcat DEF c
  <2>6. Tally(a, K) \in Nat /\ Tally(b, K) \in Nat /\ One(e, K) \in Nat
    BY TallyNat DEF One
  <2>7. Tally(s, K) = Tally(a, K) + One(e, K) + Tally(b, K)
        /\ Tally(RemoveFirst(s, e), K) = Tally(a, K) + Tally(b, K)
    BY <2>1, <2>4, <2>5 DEF c
  <2>. QED
    BY <1>3, <2>6, <2>7
<1>. QED
  BY <1>2, <1>3

(* The copies of a text in the queues and in what is shown of them.        *)
Of(text) == {m \in Given : m.role = "user" /\ m.text = text}

LEMMA CopiesIs == ASSUME NEW q \in Seq(Given), NEW text PROVE Copies(q, text) = Tally(q, Of(text))
<1>1. \A i \in DOMAIN q : q[i] \in Given
  BY LenProperties
<1>2. {i \in DOMAIN q : q[i].role = "user" /\ q[i].text = text}
          = {i \in DOMAIN q : q[i] \in Of(text)}
  BY <1>1 DEF Of
<1>. QED
  BY <1>2 DEF Copies, Tally, Among

LEMMA ShownIs == ASSUME NEW s, NEW text PROVE Shown(s, text) = Tally(s, {text})
<1>1. {i \in DOMAIN s : s[i] = text} = {i \in DOMAIN s : s[i] \in {text}}
  OBVIOUS
<1>. QED
  BY <1>1 DEF Shown, Tally, Among

Single(m, text) == IF m.role = "user" /\ m.text = text THEN 1 ELSE 0

LEMMA CopiesRules ==
    ASSUME NEW text
    PROVE  /\ Copies(<<>>, text) = 0
           /\ \A q \in Seq(Given) :
                 /\ Copies(q, text) \in Nat
                 /\ \A m \in Given : Copies(Append(q, m), text) = Copies(q, text) + Single(m, text)
                 /\ q # <<>> => Copies(q, text) = Copies(<<Head(q)>>, text) + Copies(Tail(q), text)
                 /\ text \notin UserTexts(q) => Copies(q, text) = 0
           /\ \A m \in Given : Copies(<<m>>, text) = Single(m, text)
<1>1. ASSUME NEW m \in Given PROVE One(m, Of(text)) = Single(m, text)
  BY DEF One, Of, Single
<1>2. Copies(<<>>, text) = 0
  <2>1. <<>> \in Seq(Given)
    BY EmptySeq
  <2>. QED
    BY <2>1, CopiesIs, TallyNone
<1>3. ASSUME NEW m \in Given PROVE Copies(<<m>>, text) = Single(m, text)
  <2>1. <<m>> \in Seq(Given)
    OBVIOUS
  <2>2. Tally(<<m>>, Of(text)) = One(m, Of(text))
    BY TallyOne
  <2>. QED
    BY <1>1, <2>1, <2>2, CopiesIs
<1>4. ASSUME NEW q \in Seq(Given) PROVE Copies(q, text) \in Nat
  BY CopiesIs, TallyNat
<1>5. ASSUME NEW q \in Seq(Given), NEW m \in Given
      PROVE  Copies(Append(q, m), text) = Copies(q, text) + Single(m, text)
  <2>1. Append(q, m) \in Seq(Given)
    OBVIOUS
  <2>2. Tally(Append(q, m), Of(text)) = Tally(q, Of(text)) + One(m, Of(text))
    BY TallyAppend
  <2>. QED
    BY <1>1, <2>1, <2>2, CopiesIs
<1>6. ASSUME NEW q \in Seq(Given), q # <<>>
      PROVE  Copies(q, text) = Copies(<<Head(q)>>, text) + Copies(Tail(q), text)
  <2>1. <<Head(q)>> \in Seq(Given) /\ Tail(q) \in Seq(Given)
    BY <1>6, HeadTailProperties
  <2>2. Tally(q, Of(text)) = Tally(<<Head(q)>>, Of(text)) + Tally(Tail(q), Of(text))
    BY <1>6, TallyHead
  <2>. QED
    BY <2>1, <2>2, CopiesIs
<1>7. ASSUME NEW q \in Seq(Given), text \notin UserTexts(q) PROVE Copies(q, text) = 0
  <2>1. Range(q) \cap Of(text) = {}
    BY <1>7 DEF UserTexts, Of
  <2>. QED
    BY <2>1, TallyAbsent, CopiesIs
<1>. QED
  BY <1>2, <1>3, <1>4, <1>5, <1>6, <1>7

Match(e, text) == IF e = text THEN 1 ELSE 0

LEMMA ShownRules ==
    ASSUME NEW text
    PROVE  /\ Shown(<<>>, text) = 0
           /\ \A s \in Seq(Texts) :
                 /\ Shown(s, text) \in Nat
                 /\ text \notin Range(s) => Shown(s, text) = 0
                 /\ \A e \in Texts : Shown(Append(s, e), text) = Shown(s, text) + Match(e, text)
                 /\ \A e : Shown(RemoveFirst(s, e), text) =
                              Shown(s, text) - (IF e \in Range(s) THEN Match(e, text) ELSE 0)
<1>1. \A e : One(e, {text}) = Match(e, text)
  BY DEF One, Match
<1>2. Shown(<<>>, text) = 0
  BY ShownIs, TallyNone
<1>3. ASSUME NEW s \in Seq(Texts) PROVE Shown(s, text) \in Nat
  BY ShownIs, TallyNat
<1>4. ASSUME NEW s \in Seq(Texts), text \notin Range(s) PROVE Shown(s, text) = 0
  <2>1. Range(s) \cap {text} = {}
    BY <1>4
  <2>. QED
    BY <2>1, ShownIs, TallyAbsent
<1>5. ASSUME NEW s \in Seq(Texts), NEW e \in Texts
      PROVE  Shown(Append(s, e), text) = Shown(s, text) + Match(e, text)
  <2>1. Tally(Append(s, e), {text}) = Tally(s, {text}) + One(e, {text})
    BY TallyAppend
  <2>. QED
    BY <1>1, <2>1, ShownIs
<1>6. ASSUME NEW s \in Seq(Texts), NEW e
      PROVE  Shown(RemoveFirst(s, e), text) =
                Shown(s, text) - (IF e \in Range(s) THEN Match(e, text) ELSE 0)
  <2>1. Tally(RemoveFirst(s, e), {text}) =
           Tally(s, {text}) - (IF e \in Range(s) THEN One(e, {text}) ELSE 0)
    BY TallyRemoved
  <2>. QED
    BY <1>1, <2>1, ShownIs
<1>. QED
  BY <1>2, <1>3, <1>4, <1>5, <1>6

(* QueueShown for one text.                                                *)
Blank(text) == text = ""
Fits(text) ==
    IF Blank(text)
    THEN /\ Copies(steeringQueue, "") <= Shown(steeringMessages, "")
         /\ Copies(followUpQueue, "") <= Shown(followUpMessages, "")
    ELSE /\ \/ Listed(text) = Waiting(text)
            \/ text \in unlisted /\ Listed(text) < Waiting(text)
         /\ Shown(steeringMessages, text) <= Copies(steeringQueue, text) + Copies(pending, text)

LEMMA QueueShownIs ==
    /\ QueueShown <=> \A text \in Words : Fits(text)
    /\ QueueShown' <=> (\A text \in Words : Fits(text))'
<1>1. Words \ {""} = Texts \ {""} /\ "" \in Words
  BY DEF Words
<1>2. QueueShown <=> \A text \in Words : Fits(text)
  BY <1>1 DEF QueueShown, Fits, Blank
<1>3. QueueShown' <=> (\A text \in Words : Fits(text))'
  BY <1>1 DEF QueueShown, Fits, Blank
<1>. QED
  BY <1>2, <1>3

LEMMA InitQueues == Init => QueueShown
<1>. SUFFICES ASSUME Init PROVE QueueShown
  OBVIOUS
<1>1. ASSUME NEW text \in Words PROVE Fits(text)
  <2>1. Copies(<<>>, text) = 0 /\ Shown(<<>>, text) = 0
    BY CopiesRules, ShownRules
  <2>2. Blank(text) => Copies(<<>>, "") = 0 /\ Shown(<<>>, "") = 0
    BY <2>1 DEF Blank
  <2>3. /\ steeringQueue = <<>> /\ followUpQueue = <<>> /\ pending = <<>>
        /\ steeringMessages = <<>> /\ followUpMessages = <<>>
    BY DEF Init
  <2>4. /\ Copies(steeringQueue, text) = 0 /\ Copies(followUpQueue, text) = 0
        /\ Copies(pending, text) = 0 /\ Shown(steeringMessages, text) = 0
        /\ Shown(followUpMessages, text) = 0
    BY <2>1, <2>3
  <2>5. Blank(text) => /\ Copies(steeringQueue, "") = 0 /\ Copies(followUpQueue, "") = 0
                       /\ Shown(steeringMessages, "") = 0 /\ Shown(followUpMessages, "") = 0
    BY <2>2, <2>3
  <2>6. CASE Blank(text)
    <3>1. /\ Copies(steeringQueue, "") <= Shown(steeringMessages, "")
          /\ Copies(followUpQueue, "") <= Shown(followUpMessages, "")
      <4>. DEFINE blank == ""
      <4>1. /\ Copies(steeringQueue, blank) = 0 /\ Copies(followUpQueue, blank) = 0
            /\ Shown(steeringMessages, blank) = 0 /\ Shown(followUpMessages, blank) = 0
        BY <2>5, <2>6
      <4>. HIDE DEF blank
      <4>2. /\ Copies(steeringQueue, blank) <= Shown(steeringMessages, blank)
            /\ Copies(followUpQueue, blank) <= Shown(followUpMessages, blank)
        BY <4>1
      <4>. QED
        BY <4>2 DEF blank
    <3>. QED
      BY Zenon, <2>6, <3>1 DEF Fits
  <2>7. CASE ~Blank(text)
    <3>1. Listed(text) = 0 /\ Waiting(text) = 0
      BY <2>4 DEF Listed, Waiting
    <3>. QED
      BY <2>4, <2>7, <3>1 DEF Fits
  <2>. QED
    BY <2>6, <2>7
<1>. QED
  BY <1>1, QueueShownIs

LEMMA QueueNext ==
    ASSUME QuietCompact = TRUE, TypeInv, Quiet, QueueShown, [Next]_vars
    PROVE  QueueShown'
<1>. SUFFICES ASSUME NEW text \in Words PROVE Fits(text)'
  BY QueueShownIs
<1>0. Fits(text)
  BY QueueShownIs
<1>1. /\ pending \in Held(Given) /\ pending \in Seq(Given)
      /\ steeringQueue \in Seq(Given) /\ followUpQueue \in Seq(Given)
      /\ steeringMessages \in Seq(Texts) /\ followUpMessages \in Seq(Texts)
      /\ lastId \in Nat
  BY DEF TypeInv, TextTypes, WaitingTypes, Held
<1>. DEFINE sq == Copies(steeringQueue, text)
            fq == Copies(followUpQueue, text)
            pq == Copies(pending, text)
            sm == Shown(steeringMessages, text)
            fm == Shown(followUpMessages, text)
<1>2. sq \in Nat /\ fq \in Nat /\ pq \in Nat /\ sm \in Nat /\ fm \in Nat
  BY <1>1, CopiesRules, ShownRules
<1>3. /\ Blank(text) => sq <= sm /\ fq <= fm
      /\ ~Blank(text) => /\ sm <= sq + pq
                         /\ \/ sm + fm = sq + fq + pq
                            \/ text \in unlisted /\ sm + fm < sq + fq + pq
  BY <1>0 DEF Fits, Listed, Waiting, Blank
<1>. DEFINE sq2 == Copies(steeringQueue', text)
            fq2 == Copies(followUpQueue', text)
            pq2 == Copies(pending', text)
            sm2 == Shown(steeringMessages', text)
            fm2 == Shown(followUpMessages', text)
<1>4. ASSUME Blank(text) => sq2 <= sm2 /\ fq2 <= fm2,
             ~Blank(text) => /\ sm2 <= sq2 + pq2
                             /\ \/ sm2 + fm2 = sq2 + fq2 + pq2
                                \/ text \in unlisted' /\ sm2 + fm2 < sq2 + fq2 + pq2
      PROVE  Fits(text)'
  BY <1>4 DEF Fits, Listed, Waiting, Copies, Shown, Blank
<1>5. CASE Leaves
  BY <1>3, <1>4, <1>5 DEF Leaves, queueVars
<1>6. CASE Clears
  <2>1. /\ Copies(steeringQueue', text) = 0 /\ Copies(followUpQueue', text) = 0
        /\ Copies(pending', text) = pq /\ Shown(steeringMessages', text) = 0
        /\ Shown(followUpMessages', text) = 0
    BY <1>6, CopiesRules, ShownRules DEF Clears
  <2>2. pq = 0 \/ text \in unlisted'
    BY <1>1, <1>6, CopiesRules DEF Clears
  <2>. HIDE DEF pq
  <2>3. /\ 0 <= 0 + pq
        /\ \/ 0 + 0 = 0 + 0 + pq
           \/ text \in unlisted' /\ 0 + 0 < 0 + 0 + pq
    BY <1>2, <2>2
  <2>. QED
    BY <1>4, <2>1, <2>3
<1>7. ASSUME NEW t \in Texts, Gives(t) PROVE Fits(text)'
  <2>1. Written(t) \in Given /\ Written(t).role = "user" /\ Written(t).text = t
    BY <1>1, MadeTypes
  <2>2. /\ Copies(steeringQueue', text) = sq /\ Copies(followUpQueue', text) = fq
        /\ Shown(steeringMessages', text) = sm /\ Shown(followUpMessages', text) = fm
    BY <1>7 DEF Gives, mirrors
  <2>3. pq = 0 /\ Copies(pending', text) = Match(t, text)
    BY <1>7, <2>1, CopiesRules DEF Gives, Single, Match
  <2>4. unlisted' = unlisted \cup {t}
    BY <1>7 DEF Gives
  <2>. HIDE DEF sq, fq, pq, sm, fm
  <2>5. ~Blank(text) =>
           /\ \/ sm + fm = sq + fq + Match(t, text)
              \/ text \in unlisted' /\ sm + fm < sq + fq + Match(t, text)
           /\ sm <= sq + Match(t, text)
    <3>1. CASE t = text
      <4>1. text \in unlisted' /\ Match(t, text) = 1
        BY <2>4, <3>1 DEF Match
      <4>. QED
        BY <1>2, <1>3, <2>3, <4>1
    <3>2. CASE t # text
      <4>1. (text \in unlisted' <=> text \in unlisted) /\ Match(t, text) = 0
        BY <2>4, <3>2 DEF Match
      <4>. QED
        BY <1>2, <1>3, <2>3, <4>1
    <3>. QED
      BY <3>1, <3>2
  <2>. QED
    BY <1>3, <1>4, <2>2, <2>3, <2>5
<1>8. CASE Delivers
  <2>. DEFINE m == Head(pending)
  <2>1. pending = <<m>> /\ pending' = <<>> /\ m \in Given
    BY <1>1, <1>8, HeldIs DEF Delivers
  <2>2. connected = TRUE
    BY <1>8 DEF Delivers, TypeInv, Places, Quiet
  <2>3. /\ IF m.role = "user" THEN Unmirror(m.text) ELSE UNCHANGED mirrors
        /\ unlisted' = unlisted \cap (UserTexts(steeringQueue) \cup UserTexts(followUpQueue))
    BY <1>8, <2>2 DEF Delivers
  <2>. HIDE DEF m
  <2>4. pq = Single(m, text) /\ Copies(pending', text) = 0
    BY <2>1, CopiesRules
  <2>5. Copies(steeringQueue', text) = sq /\ Copies(followUpQueue', text) = fq
    BY <1>8 DEF Delivers
  <2>6. (sq = 0 /\ fq = 0) \/ (text \in unlisted => text \in unlisted')
    BY <1>1, <2>3, CopiesRules
  <2>. HIDE DEF sq, fq, pq
  <2>7. CASE ~(m.role = "user" /\ m.text = text)
    <3>1. Shown(steeringMessages', text) = sm /\ Shown(followUpMessages', text) = fm
      <4>1. Match(m.text, text) = 0 \/ UNCHANGED mirrors
        BY <2>3, <2>7 DEF Match
      <4>2. CASE UNCHANGED mirrors
        BY <4>2 DEF mirrors
      <4>3. CASE m.role = "user" /\ Match(m.text, text) = 0
        <5>1. \A s \in Seq(Texts) : Shown(RemoveFirst(s, m.text), text) = Shown(s, text) - 0
          BY <4>3, ShownRules
        <5>2. \A s \in Seq(Texts) : Shown(s, text) \in Nat
          BY ShownRules
        <5>3. \A s \in Seq(Texts) : Shown(RemoveFirst(s, m.text), text) = Shown(s, text)
          BY <5>1, <5>2
        <5>. QED
          BY <1>1, <2>3, <4>3, <5>3 DEF Unmirror, Blank
      <4>. QED
        BY <2>3, <4>1, <4>2, <4>3
    <3>2. pq = 0
      BY <2>4, <2>7 DEF Single
    <3>. HIDE DEF sm, fm
    <3>3. ~Blank(text) => /\ sm <= sq + 0
                          /\ \/ sm + fm = sq + fq + 0
                             \/ text \in unlisted' /\ sm + fm < sq + fq + 0
      BY <1>2, <1>3, <2>6, <3>2
    <3>. QED
      BY <1>3, <1>4, <2>4, <2>5, <3>1, <3>3 DEF sq, fq, sm, fm
  <2>8. CASE m.role = "user" /\ m.text = text /\ Blank(text)
    <3>1. Shown(steeringMessages', text) = sm /\ Shown(followUpMessages', text) = fm
      BY <2>3, <2>8 DEF Unmirror, Blank
    <3>. QED
      BY <1>3, <1>4, <2>4, <2>5, <2>8, <3>1
  <2>9. CASE m.role = "user" /\ m.text = text /\ ~Blank(text)
    <3>0. /\ ~Blank(text)
          /\ Shown(steeringMessages', text) \in Nat /\ Shown(followUpMessages', text) \in Nat
      <4>1. steeringMessages' \in Seq(Texts) /\ followUpMessages' \in Seq(Texts)
        BY <1>1, <2>3, <2>9, UnmirrorTypes
      <4>. QED
        BY <2>9, <4>1, ShownRules
    <3>1. pq = 1
      BY <2>4, <2>9 DEF Single
    <3>2. CASE text \in Range(steeringMessages)
      <4>1. Shown(steeringMessages', text) = sm - 1 /\ Shown(followUpMessages', text) = fm
        BY <1>1, <2>3, <2>9, <3>2, ShownRules DEF Unmirror, Blank, Match
      <4>2. sm - 1 \in Nat
        BY <3>0, <4>1
      <4>. HIDE DEF sm, fm
      <4>3. /\ sm - 1 <= sq + 0
            /\ \/ (sm - 1) + fm = sq + fq + 0
               \/ text \in unlisted' /\ (sm - 1) + fm < sq + fq + 0
        BY <1>2, <1>3, <2>6, <3>0, <3>1, <4>2
      <4>. QED
        BY <1>4, <2>4, <2>5, <2>9, <4>1, <4>3
    <3>3. CASE text \notin Range(steeringMessages) /\ text \in Range(followUpMessages)
      <4>1. Shown(steeringMessages', text) = sm /\ Shown(followUpMessages', text) = fm - 1
        BY <1>1, <2>3, <2>9, <3>3, ShownRules DEF Unmirror, Blank, Match
      <4>2. sm = 0 /\ fm - 1 \in Nat
        BY <1>1, <3>0, <3>3, <4>1, ShownRules
      <4>. HIDE DEF sm, fm
      <4>3. /\ sm <= sq + 0
            /\ \/ sm + (fm - 1) = sq + fq + 0
               \/ text \in unlisted' /\ sm + (fm - 1) < sq + fq + 0
        BY <1>2, <1>3, <2>6, <3>0, <3>1, <4>2
      <4>. QED
        BY <1>4, <2>4, <2>5, <2>9, <4>1, <4>3
    <3>4. CASE text \notin Range(steeringMessages) /\ text \notin Range(followUpMessages)
      <4>1. Shown(steeringMessages', text) = sm /\ Shown(followUpMessages', text) = fm - 0
        <5>1. /\ steeringMessages' = steeringMessages
              /\ followUpMessages' = RemoveFirst(followUpMessages, text)
          BY <2>3, <2>9, <3>4 DEF Unmirror, Blank
        <5>2. Shown(RemoveFirst(followUpMessages, text), text) = fm - 0
          BY <1>1, <3>4, ShownRules
        <5>. QED
          BY <5>1, <5>2
      <4>2. sm = 0 /\ fm = 0
        BY <1>1, <3>4, ShownRules
      <4>. HIDE DEF sm, fm
      <4>3. text \in unlisted
        BY <1>2, <1>3, <3>0, <3>1, <4>2
      <4>4. /\ sm <= sq + 0
            /\ \/ sm + (fm - 0) = sq + fq + 0
               \/ text \in unlisted' /\ sm + (fm - 0) < sq + fq + 0
        BY <1>2, <2>6, <4>2, <4>3
      <4>. QED
        BY <1>4, <2>4, <2>5, <2>9, <4>1, <4>4
    <3>. QED
      BY <3>2, <3>3, <3>4
  <2>. QED
    BY <2>7, <2>8, <2>9
<1>9. CASE TakesOne
  <2>1. /\ pending = <<>> /\ unlisted' = unlisted
        /\ Shown(steeringMessages', text) = sm /\ Shown(followUpMessages', text) = fm
    BY <1>9 DEF TakesOne, mirrors
  <2>2. pq = 0
    BY <2>1, CopiesRules
  <2>3. CASE steeringQueue # <<>> /\ TakeSteering
    <3>. DEFINE hq == Copies(<<Head(steeringQueue)>>, text)
                tq == Copies(Tail(steeringQueue), text)
    <3>1. Copies(pending', text) = hq /\ Copies(steeringQueue', text) = tq
          /\ Copies(followUpQueue', text) = fq
      BY <2>3 DEF TakeSteering
    <3>2. sq = hq + tq
      BY <1>1, <2>3, CopiesRules
    <3>3. hq \in Nat /\ tq \in Nat
      <4>1. <<Head(steeringQueue)>> \in Seq(Given) /\ Tail(steeringQueue) \in Seq(Given)
        BY <1>1, <2>3, HeadTailProperties
      <4>. QED
        BY <4>1, CopiesRules
    <3>. HIDE DEF hq, tq, sq, fq, pq, sm, fm
    <3>4. /\ Blank(text) => tq <= sm /\ fq <= fm
          /\ ~Blank(text) => /\ \/ sm + fm = tq + fq + hq
                                \/ text \in unlisted' /\ sm + fm < tq + fq + hq
                             /\ sm <= tq + hq
      BY <1>2, <1>3, <2>1, <2>2, <3>2, <3>3
    <3>. QED
      BY <1>4, <2>1, <3>1, <3>4
  <2>4. CASE followUpQueue # <<>> /\ TakeFollowUp
    <3>. DEFINE hq == Copies(<<Head(followUpQueue)>>, text)
                tq == Copies(Tail(followUpQueue), text)
    <3>1. Copies(pending', text) = hq /\ Copies(followUpQueue', text) = tq
          /\ Copies(steeringQueue', text) = sq
      BY <2>4 DEF TakeFollowUp
    <3>2. fq = hq + tq
      BY <1>1, <2>4, CopiesRules
    <3>3. hq \in Nat /\ tq \in Nat
      <4>1. <<Head(followUpQueue)>> \in Seq(Given) /\ Tail(followUpQueue) \in Seq(Given)
        BY <1>1, <2>4, HeadTailProperties
      <4>. QED
        BY <4>1, CopiesRules
    <3>. HIDE DEF hq, tq, sq, fq, pq, sm, fm
    <3>4. /\ Blank(text) => sq <= sm /\ tq <= fm
          /\ ~Blank(text) => /\ \/ sm + fm = sq + tq + hq
                                \/ text \in unlisted' /\ sm + fm < sq + tq + hq
                             /\ sm <= sq + hq
      BY <1>2, <1>3, <2>1, <2>2, <3>2, <3>3
    <3>. QED
      BY <1>4, <2>1, <3>1, <3>4
  <2>. QED
    BY <1>9, <2>3, <2>4 DEF TakesOne
<1>10. ASSUME NEW m \in Given, Steers(m) PROVE Fits(text)'
  <2>1. /\ Copies(steeringQueue', text) = sq + Single(m, text)
        /\ Copies(followUpQueue', text) = fq /\ Copies(pending', text) = pq
        /\ Shown(followUpMessages', text) = fm /\ unlisted' = unlisted
    BY <1>1, <1>10, CopiesRules DEF Steers
  <2>2. Shown(steeringMessages', text) = sm + Single(m, text)
    <3>1. CASE m.role = "user"
      <4>1. m.text \in Texts /\ steeringMessages' = Append(steeringMessages, m.text)
        BY <1>10, <3>1 DEF Steers
      <4>2. Shown(steeringMessages', text) = sm + Match(m.text, text)
        BY <1>1, <4>1, ShownRules
      <4>. QED
        BY <3>1, <4>2 DEF Match, Single
    <3>2. CASE m.role # "user"
      <4>1. Shown(steeringMessages', text) = sm /\ Single(m, text) = 0
        BY <1>10, <3>2 DEF Steers, Single
      <4>. QED
        BY <1>2, <4>1
    <3>. QED
      BY <3>1, <3>2
  <2>. DEFINE one == Single(m, text)
  <2>3. one \in Nat
    BY DEF Single
  <2>. HIDE DEF one, sq, fq, pq, sm, fm
  <2>4. /\ Blank(text) => sq + one <= sm + one /\ fq <= fm
        /\ ~Blank(text) => /\ \/ (sm + one) + fm = (sq + one) + fq + pq
                              \/ text \in unlisted' /\ (sm + one) + fm < (sq + one) + fq + pq
                           /\ sm + one <= (sq + one) + pq
    BY <1>2, <1>3, <2>1, <2>3
  <2>. QED
    BY <1>4, <2>1, <2>2, <2>4 DEF one
<1>11. ASSUME NEW m \in Given, Follows(m) PROVE Fits(text)'
  <2>1. /\ Copies(followUpQueue', text) = fq + Single(m, text)
        /\ Copies(steeringQueue', text) = sq /\ Copies(pending', text) = pq
        /\ Shown(steeringMessages', text) = sm /\ unlisted' = unlisted
    BY <1>1, <1>11, CopiesRules DEF Follows
  <2>2. Shown(followUpMessages', text) = fm + Single(m, text)
    <3>1. CASE m.role = "user"
      <4>1. m.text \in Texts /\ followUpMessages' = Append(followUpMessages, m.text)
        BY <1>11, <3>1 DEF Follows
      <4>2. Shown(followUpMessages', text) = fm + Match(m.text, text)
        BY <1>1, <4>1, ShownRules
      <4>. QED
        BY <3>1, <4>2 DEF Match, Single
    <3>2. CASE m.role # "user"
      <4>1. Shown(followUpMessages', text) = fm /\ Single(m, text) = 0
        BY <1>11, <3>2 DEF Follows, Single
      <4>. QED
        BY <1>2, <4>1
    <3>. QED
      BY <3>1, <3>2
  <2>. DEFINE one == Single(m, text)
  <2>3. one \in Nat
    BY DEF Single
  <2>. HIDE DEF one, sq, fq, pq, sm, fm
  <2>4. /\ Blank(text) => sq <= sm /\ fq + one <= fm + one
        /\ ~Blank(text) => /\ \/ sm + (fm + one) = sq + (fq + one) + pq
                              \/ text \in unlisted' /\ sm + (fm + one) < sq + (fq + one) + pq
                           /\ sm <= sq + pq
    BY <1>2, <1>3, <2>1, <2>3
  <2>. QED
    BY <1>4, <2>1, <2>2, <2>4 DEF one
<1>. QED
  BY <1>5, <1>6, <1>7, <1>8, <1>9, <1>10, <1>11, NextQueue DEF QueueStep

-----------------------------------------------------------------------------
(* What counts as a failure and as an overflow, in any sequence.           *)
FailsFrom(es, i) == \A j \in i..Len(es) : IsCompaction(es[j]) \/ es[j].kind = "error"
Fails(es, c) == {i \in DOMAIN es : i > c /\ es[i].kind = "error" /\ FailsFrom(es, i)}

FullFrom(es, i) ==
    \A j \in i..Len(es) : ~Delivered(es[j]) /\ (IsAssistant(es[j]) => StopError(es[j]))
Fulls(es) == {i \in DOMAIN es : es[i].kind = "overflow" /\ FullFrom(es, i)}

LEMMA CountsAre ==
    /\ Failures = Fails(entries, cancelledAt)
    /\ Overflows = Fulls(entries)
BY DEF Failures, FailedLast, Fails, FailsFrom, Overflows, Fulls, FullFrom

LEMMA CountsFinite ==
    ASSUME NEW M, NEW es \in Seq(M), NEW c
    PROVE  /\ IsFiniteSet(Fails(es, c)) /\ Cardinality(Fails(es, c)) \in Nat
           /\ IsFiniteSet(Fulls(es)) /\ Cardinality(Fulls(es)) \in Nat
<1>1. Len(es) \in Nat /\ DOMAIN es = 1..Len(es)
  BY LenProperties
<1>2. Fails(es, c) \subseteq 1..Len(es) /\ Fulls(es) \subseteq 1..Len(es)
  BY <1>1 DEF Fails, Fulls
<1>3. IsFiniteSet(1..Len(es))
  BY <1>1, FS_Interval
<1>. QED
  BY <1>2, <1>3, FS_Subset, FS_CardinalityType

LEMMA FailsAppend ==
    ASSUME NEW es \in Seq(Msg), NEW e \in Msg, NEW c
    PROVE  /\ IsCompaction(e) => Fails(Append(es, e), c) \subseteq Fails(es, c)
           /\ e.kind = "error" => Fails(Append(es, e), c) \subseteq Fails(es, c) \cup {Len(es) + 1}
           /\ ~IsCompaction(e) /\ e.kind # "error" => Fails(Append(es, e), c) = {}
<1>. DEFINE n == Len(es)
            t == Append(es, e)
<1>1. /\ n \in Nat /\ DOMAIN es = 1..n /\ DOMAIN t = 1..(n + 1) /\ Len(t) = n + 1
      /\ t[n + 1] = e /\ \A i \in 1..n : t[i] = es[i]
  BY AppendProperties, LenProperties
<1>. HIDE DEF t
<1>2. ASSUME NEW i \in Fails(t, c), i # n + 1 PROVE i \in Fails(es, c)
  <2>1. i \in 1..n /\ t[i].kind = "error" /\ FailsFrom(t, i) /\ i > c
    BY <1>1, <1>2 DEF Fails
  <2>2. \A j \in i..n : j \in 1..n /\ j \in i..(n + 1)
    BY <1>1, <2>1
  <2>3. FailsFrom(es, i)
    BY <1>1, <2>1, <2>2 DEF FailsFrom
  <2>. QED
    BY <1>1, <2>1, <2>3 DEF Fails
<1>3. ASSUME NEW i \in Fails(t, c) PROVE IsCompaction(e) \/ e.kind = "error"
  <2>1. n + 1 \in i..Len(t) /\ FailsFrom(t, i)
    BY <1>1 DEF Fails
  <2>. QED
    BY <1>1, <2>1 DEF FailsFrom
<1>4. IsCompaction(e) => e.kind # "error"
  BY DEF IsCompaction, Msg
<1>5. IsCompaction(e) => n + 1 \notin Fails(t, c)
  BY <1>1, <1>4 DEF Fails
<1>. QED
  BY <1>2, <1>3, <1>5 DEF t

LEMMA FullsAppend ==
    ASSUME NEW es \in Seq(Msg), NEW e \in Msg
    PROVE  /\ Delivered(e) \/ (IsAssistant(e) /\ ~StopError(e)) => Fulls(Append(es, e)) = {}
           /\ e.kind # "overflow" => Fulls(Append(es, e)) \subseteq Fulls(es)
           /\ Fulls(Append(es, e)) \subseteq Fulls(es) \cup {Len(es) + 1}
<1>. DEFINE n == Len(es)
            t == Append(es, e)
<1>1. /\ n \in Nat /\ DOMAIN es = 1..n /\ DOMAIN t = 1..(n + 1) /\ Len(t) = n + 1
      /\ t[n + 1] = e /\ \A i \in 1..n : t[i] = es[i]
  BY AppendProperties, LenProperties
<1>. HIDE DEF t
<1>2. ASSUME NEW i \in Fulls(t), i # n + 1 PROVE i \in Fulls(es)
  <2>1. i \in 1..n /\ t[i].kind = "overflow" /\ FullFrom(t, i)
    BY <1>1, <1>2 DEF Fulls
  <2>2. \A j \in i..n : j \in 1..n /\ j \in i..(n + 1)
    BY <1>1, <2>1
  <2>3. FullFrom(es, i)
    BY <1>1, <2>1, <2>2 DEF FullFrom
  <2>. QED
    BY <1>1, <2>1, <2>3 DEF Fulls
<1>3. ASSUME NEW i \in Fulls(t) PROVE ~Delivered(e) /\ (IsAssistant(e) => StopError(e))
  <2>1. n + 1 \in i..Len(t) /\ FullFrom(t, i)
    BY <1>1 DEF Fulls
  <2>. QED
    BY <1>1, <2>1 DEF FullFrom
<1>4. n + 1 \in Fulls(t) => e.kind = "overflow"
  BY <1>1 DEF Fulls
<1>. QED
  BY <1>2, <1>3, <1>4 DEF t

(* Results of commands end a series of failures, not one of overflows.     *)
LEMMA FailsSaid ==
    ASSUME NEW es \in Seq(Msg), NEW t \in Seq(Bash), NEW c
    PROVE  t # <<>> => Fails(es \o t, c) = {}
<1>1. SUFFICES ASSUME t # <<>> PROVE Fails(es \o t, c) = {}
  OBVIOUS
<1>2. PICK u \in Seq(Bash), b \in Bash : t = Append(u, b)
  BY <1>1, SequenceEmptyOrAppend
<1>3. u \in Seq(Msg) /\ b \in Msg /\ ~IsCompaction(b) /\ b.kind # "error"
  <2>1. u \in Seq(Plain)
    BY BashSeq
  <2>2. b \in Msg /\ b.role = "bash"
    BY GivenPlain DEF Bash
  <2>. QED
    BY <2>1, <2>2, PlainSeq DEF IsCompaction, Msg
<1>4. es \o t = Append(es \o u, b)
  BY <1>2, <1>3, AppendConcat
<1>. DEFINE v == es \o u
<1>5. v \in Seq(Msg) /\ es \o t = Append(v, b)
  BY <1>3, <1>4, ConcatProperties
<1>. HIDE DEF v
<1>6. Fails(Append(v, b), c) = {}
  BY <1>3, <1>5, FailsAppend
<1>. QED
  BY <1>5, <1>6

LEMMA FullsSaid ==
    ASSUME NEW es \in Seq(Msg)
    PROVE  \A t \in Seq(Bash) : Fulls(es \o t) \subseteq Fulls(es)
<1>. DEFINE S == {t \in Seq(Bash) : Fulls(es \o t) \subseteq Fulls(es)}
<1>1. <<>> \in S
  <2>1. es \o <<>> = es
    BY ConcatEmptySeq
  <2>. QED
    BY <2>1, EmptySeq
<1>2. ASSUME NEW t \in S, NEW b \in Bash PROVE Append(t, b) \in S
  <2>1. t \in Seq(Bash) /\ Fulls(es \o t) \subseteq Fulls(es) /\ Append(t, b) \in Seq(Bash)
    BY AppendProperties
  <2>2. b \in Msg /\ b.kind # "overflow"
    BY GivenPlain DEF Bash, Msg
  <2>3. t \in Seq(Msg)
    BY <2>1, BashSeq, PlainSeq
  <2>. DEFINE v == es \o t
  <2>4. v \in Seq(Msg) /\ es \o Append(t, b) = Append(v, b)
    BY <2>2, <2>3, ConcatProperties, AppendConcat
  <2>. HIDE DEF v
  <2>5. Fulls(Append(v, b)) \subseteq Fulls(v)
    BY <2>2, <2>4, FullsAppend
  <2>. QED
    BY <2>1, <2>4, <2>5 DEF v
<1>3. S \in SUBSET Seq(Bash)
  OBVIOUS
<1>. HIDE DEF S
<1>4. S = Seq(Bash)
  BY <1>1, <1>2, <1>3, SequenceInduction
<1>. QED
  BY <1>4 DEF S

(* After failures the context ends with a failure.                         *)
LEMMA AmongFailed ==
    \A s \in Seq(Msg) :
       (\E i \in 1..Len(s) : s[i].kind = "error" /\ FailsFrom(s, i)) =>
          Among(s, Plain) # <<>> /\ Last(Among(s, Plain)).kind = "error"
<1>. DEFINE W(s) == \E i \in 1..Len(s) : s[i].kind = "error" /\ FailsFrom(s, i)
            S == {s \in Seq(Msg) : W(s) => /\ Among(s, Plain) # <<>>
                                           /\ Last(Among(s, Plain)).kind = "error"}
<1>1. <<>> \in S
  BY EmptySeq
<1>2. ASSUME NEW s \in S, NEW e \in Msg PROVE Append(s, e) \in S
  <2>. DEFINE u == Among(s, Plain)
              t == Append(s, e)
  <2>1. /\ s \in Seq(Msg) /\ (W(s) => u # <<>> /\ Last(u).kind = "error")
        /\ u \in Seq(Msg) /\ t \in Seq(Msg)
    <3>1. u \in Seq(Msg \cap Plain) /\ Msg \cap Plain \subseteq Msg
      BY AmongSeq
    <3>. QED
      BY <3>1, SeqMonotonic, AppendProperties
  <2>2. Among(t, Plain) = IF e \in Plain THEN Append(u, e) ELSE u
    BY <2>1, AmongAppend
  <2>3. Append(u, e) # <<>> /\ Last(Append(u, e)) = e
    BY <2>1, LastAppend
  <2>4. /\ Len(s) \in Nat /\ Len(t) = Len(s) + 1 /\ t[Len(s) + 1] = e
        /\ \A i \in 1..Len(s) : t[i] = s[i]
    BY <2>1, AppendProperties, LenProperties
  <2>. HIDE DEF u, t
  <2>5. ASSUME NEW i \in 1..Len(t), t[i].kind = "error", FailsFrom(t, i)
        PROVE  Among(t, Plain) # <<>> /\ Last(Among(t, Plain)).kind = "error"
    <3>1. IsCompaction(e) \/ e.kind = "error"
      <4>1. Len(s) + 1 \in i..Len(t)
        BY <2>4
      <4>. QED
        BY <2>4, <2>5, <4>1 DEF FailsFrom
    <3>2. CASE e \in Plain
      BY <2>2, <2>3, <3>1, <3>2 DEF Plain, IsMessage
    <3>3. CASE e \notin Plain
      <4>1. e.kind # "error"
        BY <3>3 DEF Plain, IsMessage, IsCompaction, Msg
      <4>2. i \in 1..Len(s) /\ \A j \in i..Len(s) : j \in 1..Len(s) /\ j \in i..Len(t)
        <5>1. i # Len(s) + 1
          BY <2>4, <2>5, <4>1
        <5>. QED
          BY <2>4, <5>1
      <4>3. s[i].kind = "error" /\ FailsFrom(s, i)
        BY <2>4, <2>5, <4>2 DEF FailsFrom
      <4>. QED
        BY <2>1, <2>2, <3>3, <4>2, <4>3
    <3>. QED
      BY <3>2, <3>3
  <2>. QED
    BY <2>1, <2>5 DEF t
<1>3. S \in SUBSET Seq(Msg)
  OBVIOUS
<1>. HIDE DEF S
<1>4. S = Seq(Msg)
  BY <1>1, <1>2, <1>3, SequenceInduction
<1>. QED
  BY <1>4 DEF S

FailCount(es, c) == Cardinality(Fails(es, c))
FullCount(es)    == Cardinality(Fulls(es))

LEMMA Smaller ==
    ASSUME NEW T, IsFiniteSet(T), NEW x
    PROVE  \A S : /\ S \subseteq T => Cardinality(S) <= Cardinality(T)
                  /\ S \subseteq T \cup {x} => Cardinality(S) <= Cardinality(T) + 1
<1>1. IsFiniteSet(T \cup {x}) /\ Cardinality(T) \in Nat /\ Cardinality(T \cup {x}) \in Nat
      /\ Cardinality(T \cup {x}) <= Cardinality(T) + 1
  <2>1. /\ IsFiniteSet(T \cup {x})
        /\ Cardinality(T \cup {x}) = IF x \in T THEN Cardinality(T) ELSE Cardinality(T) + 1
    BY FS_AddElement
  <2>2. Cardinality(T) \in Nat
    BY FS_CardinalityType
  <2>. QED
    BY <2>1, <2>2
<1>2. ASSUME NEW S, S \subseteq T PROVE Cardinality(S) <= Cardinality(T)
  BY <1>2, FS_Subset
<1>3. ASSUME NEW S, S \subseteq T \cup {x} PROVE Cardinality(S) <= Cardinality(T) + 1
  <2>1. Cardinality(S) <= Cardinality(T \cup {x}) /\ Cardinality(S) \in Nat
    BY <1>1, <1>3, FS_Subset, FS_CardinalityType
  <2>. QED
    BY <1>1, <2>1
<1>. QED
  BY <1>2, <1>3

LEMMA CountType ==
    ASSUME NEW es \in Seq(Msg), NEW c
    PROVE  FailCount(es, c) \in Nat /\ FullCount(es) \in Nat
BY CountsFinite DEF FailCount, FullCount

LEMMA CountAppend ==
    ASSUME NEW es \in Seq(Msg), NEW e \in Msg, NEW c
    PROVE  /\ IsCompaction(e) => FailCount(Append(es, e), c) <= FailCount(es, c)
           /\ e.kind = "error" => FailCount(Append(es, e), c) <= FailCount(es, c) + 1
           /\ ~IsCompaction(e) /\ e.kind # "error" => FailCount(Append(es, e), c) = 0
           /\ Delivered(e) \/ (IsAssistant(e) /\ ~StopError(e)) => FullCount(Append(es, e)) = 0
           /\ e.kind # "overflow" => FullCount(Append(es, e)) <= FullCount(es)
           /\ FullCount(Append(es, e)) <= FullCount(es) + 1
<1>. DEFINE A == Fails(es, c)
            B == Fulls(es)
            A1 == Fails(Append(es, e), c)
            B1 == Fulls(Append(es, e))
            x == Len(es) + 1
<1>1. IsFiniteSet(A) /\ IsFiniteSet(B)
  BY CountsFinite
<1>2. /\ IsCompaction(e) => A1 \subseteq A
      /\ e.kind = "error" => A1 \subseteq A \cup {x}
      /\ ~IsCompaction(e) /\ e.kind # "error" => A1 = {}
  BY FailsAppend
<1>3. /\ Delivered(e) \/ (IsAssistant(e) /\ ~StopError(e)) => B1 = {}
      /\ e.kind # "overflow" => B1 \subseteq B
      /\ B1 \subseteq B \cup {x}
  BY FullsAppend
<1>. HIDE DEF A, B, A1, B1, x
<1>4. /\ IsCompaction(e) => Cardinality(A1) <= Cardinality(A)
      /\ e.kind = "error" => Cardinality(A1) <= Cardinality(A) + 1
      /\ ~IsCompaction(e) /\ e.kind # "error" => Cardinality(A1) = 0
  BY <1>1, <1>2, Smaller, FS_EmptySet
<1>5. /\ Delivered(e) \/ (IsAssistant(e) /\ ~StopError(e)) => Cardinality(B1) = 0
      /\ e.kind # "overflow" => Cardinality(B1) <= Cardinality(B)
      /\ Cardinality(B1) <= Cardinality(B) + 1
  BY <1>1, <1>3, Smaller, FS_EmptySet
<1>. QED
  BY <1>4, <1>5 DEF A, B, A1, B1, FailCount, FullCount

LEMMA CountSaid ==
    ASSUME NEW es \in Seq(Msg), NEW t \in Seq(Bash), NEW c
    PROVE  /\ FailCount(es \o t, c) <= FailCount(es, c)
           /\ t # <<>> => FailCount(es \o t, c) = 0
           /\ FullCount(es \o t) <= FullCount(es)
<1>1. /\ es \o <<>> = es
      /\ FailCount(es, c) \in Nat
  BY ConcatEmptySeq, CountType
<1>2. t # <<>> => FailCount(es \o t, c) = 0
  BY FailsSaid, FS_EmptySet DEF FailCount
<1>3. FailCount(es \o t, c) <= FailCount(es, c)
  <2>1. CASE t = <<>>
    BY <1>1, <2>1
  <2>2. CASE t # <<>>
    BY <1>1, <1>2, <2>2
  <2>. QED
    BY <2>1, <2>2
<1>4. Fulls(es \o t) \subseteq Fulls(es) /\ IsFiniteSet(Fulls(es))
  BY FullsSaid, CountsFinite
<1>5. FullCount(es \o t) <= FullCount(es)
  BY <1>4, FS_Subset DEF FullCount
<1>. QED
  BY <1>2, <1>3, <1>5

(* A cancelled retry begins a new series.                                  *)
LEMMA CountAt ==
    ASSUME NEW es \in Seq(Msg), NEW t \in Seq(Bash)
    PROVE  FailCount(es, Len(es)) = 0 /\ FailCount(es \o t, Len(es)) = 0
<1>1. FailCount(es, Len(es)) = 0
  <2>1. Fails(es, Len(es)) = {}
    BY LenProperties DEF Fails
  <2>. QED
    BY <2>1, FS_EmptySet DEF FailCount
<1>2. t # <<>> => FailCount(es \o t, Len(es)) = 0
  BY CountSaid
<1>3. es \o <<>> = es
  BY ConcatEmptySeq
<1>. QED
  BY <1>1, <1>2, <1>3

LEMMA HeardEntry ==
    ASSUME TypeInv, Quiet, phase = "writing"
    PROVE  /\ entries \in Seq(Msg) /\ writing[1] \in Msg /\ ~IsCompaction(writing[1])
           /\ heard = TRUE /\ writing # <<>> /\ writing = <<writing[1]>>
           /\ Hears => entries' = Append(entries, writing[1])
<1>1. entries \in Seq(Msg) /\ writing \in Held(Plain) /\ writing # <<>> /\ heard = TRUE
  BY DEF TypeInv, TextTypes, WaitingTypes, Places, Quiet, Hears
<1>2. writing[1] \in Plain /\ writing = <<writing[1]>>
  BY <1>1, HeldIs
<1>. QED
  BY <1>1, <1>2 DEF Hears, Plain, IsMessage

(* What a step does to the number of failures and of overflows.            *)
LEMMA CountNext ==
    ASSUME TypeInv, Quiet, QuietText, NEW c
    PROVE  /\ \/ FailCount(entries', c) <= FailCount(entries, c)
              \/ /\ Hears /\ writing[1].kind = "error"
                 /\ FailCount(entries', c) <= FailCount(entries, c) + 1
           /\ \/ FullCount(entries') <= FullCount(entries)
              \/ /\ Hears /\ writing[1].kind = "overflow"
                 /\ FullCount(entries') <= FullCount(entries) + 1
<1>1. entries \in Seq(Msg) /\ pendingBashMessages \in Seq(Bash)
  BY DEF TypeInv, TextTypes
<1>2. FailCount(entries, c) \in Nat /\ FullCount(entries) \in Nat
  BY <1>1, CountType
<1>3. CASE UNCHANGED entries
  BY <1>2, <1>3
<1>4. CASE Hears
  <2>1. /\ writing[1] \in Msg /\ ~IsCompaction(writing[1])
        /\ entries' = Append(entries, writing[1])
    BY <1>4, HeardEntry DEF Hears
  <2>2. \A e \in Msg : ~IsCompaction(e) =>
          /\ e.kind = "error" => FailCount(Append(entries, e), c) <= FailCount(entries, c) + 1
          /\ e.kind # "error" => FailCount(Append(entries, e), c) = 0
          /\ e.kind # "overflow" => FullCount(Append(entries, e)) <= FullCount(entries)
          /\ FullCount(Append(entries, e)) <= FullCount(entries) + 1
    BY <1>1, CountAppend
  <2>. QED
    BY <1>2, <1>4, <2>1, <2>2
<1>5. CASE Flushes
  BY <1>1, <1>5, CountSaid DEF Flushes, Flush
<1>6. ASSUME NEW m \in Plain, Recording(m)
      PROVE  /\ FailCount(entries', c) <= FailCount(entries, c)
             /\ FullCount(entries') <= FullCount(entries)
  <2>1. /\ m \in Msg /\ ~IsCompaction(m) /\ m.kind = "" /\ entries' = Append(entries, m)
    BY <1>6, GivenPlain DEF Recording, Recorded, IsCompaction, Msg
  <2>2. \A e \in Msg : ~IsCompaction(e) /\ e.kind = "" =>
          /\ FailCount(Append(entries, e), c) = 0
          /\ FullCount(Append(entries, e)) <= FullCount(entries)
    BY <1>1, CountAppend
  <2>3. FailCount(Append(entries, m), c) = 0 /\ FullCount(Append(entries, m)) <= FullCount(entries)
    BY <2>1, <2>2
  <2>4. 0 <= FailCount(entries, c)
    BY <1>2
  <2>5. FailCount(entries', c) = 0
    BY <2>1, <2>3
  <2>. QED
    BY <2>1, <2>3, <2>4, <2>5, Zenon
<1>7. ASSUME NEW p \in Preps, Compacts(p)
      PROVE  /\ FailCount(entries', c) <= FailCount(entries, c)
             /\ FullCount(entries') <= FullCount(entries)
  <2>. DEFINE e == CompactionEntry(p)
  <2>1. e \in Msg /\ IsCompaction(e) /\ entries' = Append(entries, e)
    BY <1>7, CompactionText
  <2>2. e.kind # "overflow"
    BY DEF CompactionEntry
  <2>. HIDE DEF e
  <2>. QED
    BY <1>1, <2>1, <2>2, CountAppend
<1>. QED
  BY <1>3, <1>4, <1>5, <1>6, <1>7
  DEF QuietText, Silent, textVars, TakesBack, Takes, Says, Waits

LEMMA LastConcat ==
    ASSUME NEW M, NEW s \in Seq(M)
    PROVE  \A t \in Seq(M) : t # <<>> => s \o t # <<>> /\ Last(s \o t) = Last(t)
<1>1. ASSUME NEW t \in Seq(M), t # <<>> PROVE s \o t # <<>> /\ Last(s \o t) = Last(t)
  <2>1. Len(s) \in Nat /\ Len(t) \in Nat /\ Len(t) > 0
    BY <1>1, LenProperties, EmptySeq
  <2>2. Len(s \o t) = Len(s) + Len(t) /\ (s \o t)[Len(s) + Len(t)] = t[Len(t)]
    BY <2>1, ConcatProperties
  <2>3. Len(s \o t) > 0
    BY <2>1, <2>2
  <2>. QED
    BY <2>2, <2>3, EmptySeq DEF Last
<1>. QED
  BY <1>1

(* The context that is rebuilt after failures ends with one.               *)
Failed(s) == s # <<>> /\ Last(s).kind = "error"

LEMMA FailedRebuilt ==
    ASSUME NEW t \in Seq(Msg), AllSplit(t), t # <<>>, IsCompaction(Last(t)),
           NEW i \in 1..Len(t), t[i].kind = "error", FailsFrom(t, i)
    PROVE  Failed(BuildSessionContext(t))
<1>. DEFINE n == Len(t)
<1>1. n \in Nat /\ n >= 1 /\ Last(t) = t[n] /\ n \in 1..n
  BY LenProperties, EmptySeq DEF Last
<1>2. LatestCompaction(t) = n
  BY <1>1, LatestIs
<1>. HIDE DEF n
<1>. DEFINE f == FirstKept(t, n)
            raw == SubSeq(t, f, n - 1)
            g == KeptPart(t, n)
<1>3. /\ \E c \in 1..(n - 1) : SplitAt(t, n - 1, t[n], c) /\ f \in 1..c
      /\ f \in 1..(n - 1) /\ t[n] \in Msg
      /\ raw \in Seq(Msg) /\ g \in Seq(Plain) /\ LaterPart(t, n) \in Seq(Plain)
      /\ BuildSessionContext(t) = (<<t[n]>> \o g) \o LaterPart(t, n)
  <2>1. n = LatestCompaction(t) /\ n # 0
    BY <1>1, <1>2
  <2>. QED
    BY ONLY <2>1, t \in Seq(Msg), AllSplit(t), BuiltParts, Zenon
<1>4. PICK c \in 1..(n - 1) : IsMessage(t[c]) /\ f \in 1..c
  BY <1>3 DEF SplitAt
<1>5. g = Among(raw, Plain)
  BY DEF KeptPart
<1>6. LaterPart(t, n) = <<>>
  BY <1>1 DEF LaterPart, n
<1>7. /\ f \in 1..(Len(t) + 1) /\ n - 1 \in (f - 1)..Len(t)
  BY <1>1, <1>3 DEF n
<1>8. /\ Len(raw) = (n - 1) - f + 1
      /\ \A j \in 1..((n - 1) - f + 1) : raw[j] = t[f + j - 1]
  BY <1>7, SubSeqIs
<1>9. f \in Nat /\ i \in Nat /\ c \in Nat /\ f <= c /\ c <= n - 1 /\ f <= n - 1 /\ i <= n
  BY <1>1, <1>3, <1>4 DEF n
<1>10. IsCompaction(t[n]) => t[n].kind # "error"
  BY <1>3 DEF IsCompaction, Msg
<1>. HIDE DEF f, raw, g
<1>11. i # n /\ i <= n - 1
  BY <1>1, <1>9, <1>10
<1>12. \E j \in f..(n - 1) : t[j].kind = "error" /\ i <= j
  <2>1. CASE i >= f
    BY <1>9, <1>11, <2>1
  <2>2. CASE i < f
    <3>1. c \in i..Len(t)
      BY <1>9, <2>2 DEF n
    <3>2. t[c].kind = "error"
      BY <1>4, <3>1 DEF FailsFrom, IsMessage
    <3>. QED
      BY <1>9, <2>2, <3>2
  <2>. QED
    BY <1>9, <2>1, <2>2
<1>13. PICK j \in f..(n - 1) : t[j].kind = "error" /\ i <= j
  BY <1>12
<1>. DEFINE h == j - f + 1
<1>14. h \in 1..Len(raw) /\ f + h - 1 = j /\ raw[h] = t[j]
  BY <1>1, <1>8, <1>9, <1>13
<1>15. FailsFrom(raw, h)
  <2>1. ASSUME NEW l \in h..Len(raw) PROVE IsCompaction(raw[l]) \/ raw[l].kind = "error"
    <3>1. l \in 1..Len(raw) /\ f + l - 1 \in i..Len(t)
      BY <1>1, <1>8, <1>9, <1>13, <1>14 DEF n
    <3>2. raw[l] = t[f + l - 1]
      BY <1>8, <3>1
    <3>. QED
      BY <3>1, <3>2 DEF FailsFrom
  <2>. QED
    BY <2>1 DEF FailsFrom
<1>. HIDE DEF h
<1>16. g # <<>> /\ Last(g).kind = "error"
  BY <1>3, <1>5, <1>13, <1>14, <1>15, AmongFailed
<1>17. <<t[n]>> \in Seq(Msg) /\ g \in Seq(Msg) /\ <<t[n]>> \o g \in Seq(Msg)
  BY <1>3, PlainSeq, ConcatProperties
<1>18. (<<t[n]>> \o g) \o <<>> = <<t[n]>> \o g
  BY <1>17, ConcatEmptySeq
<1>19. <<t[n]>> \o g # <<>> /\ Last(<<t[n]>> \o g) = Last(g)
  BY <1>16, <1>17, LastConcat
<1>. QED
  BY <1>3, <1>6, <1>16, <1>18, <1>19 DEF Failed

-----------------------------------------------------------------------------
(* Where a failure that is not retried any more may leave the prompt.      *)
Resting ==
    \/ phase = "deliver"
    \/ pc \in {"idle", "checking", "hook", "continue"}
    \/ pc \in {"compacting", "compacted"} /\ reason # "overflow"
Delivering == phase = "writing" /\ writing[1].role \in {"user", "custom"}
FlushesNow == phase = "idle" /\ Flush
Keeps ==
    \/ UNCHANGED <<messages, entries>>
    \/ FlushesNow
    \/ \E m \in Plain : Recording(m)
    \/ \E p \in Preps : phase = "idle" /\ Compacts(p)

LEMMA RestsIdle ==
    ASSUME Flush \/ UNCHANGED textVars, phase = "idle" PROVE Keeps
BY DEF Keeps, FlushesNow, textVars

(* An error is checked like any answer, but never for an overflow.         *)
LEMMA ErrorRests ==
    ASSUME NEW m, m.kind = "error", CheckCompaction(m), phase = "idle"
    PROVE  Resting' /\ Keeps
<1>1. ~ContextOverflow(m)
  BY DEF ContextOverflow
<1>2. CASE NothingToContinue
  BY <1>2, EndsAt, NothingText, RestsIdle DEF Resting
<1>3. CASE BeginCompaction("threshold") /\ UNCHANGED <<messages, entries>>
  BY <1>3 DEF BeginCompaction, Resting, Keeps
<1>. QED
  BY <1>1, <1>2, <1>3 DEF CheckCompaction

LEMMA LastIsAnswer ==
    ASSUME NEW s \in Seq(Msg), s # <<>>, StopError(Last(s))
    PROVE  IsAssistant(Last(s)) /\ LastAnswer(s) = {Last(s)}
<1>1. Last(s) \in Msg
  BY FrontLast
<1>2. IsAssistant(Last(s))
  BY <1>1 DEF StopError, Msg, IsAssistant
<1>. QED
  BY <1>2, AnswerLast

LEMMA RestingNext ==
    ASSUME TypeInv, Quiet, Conversation, [Next]_vars, Resting, Failed(messages)
    PROVE  Delivering' \/ (Resting' /\ Keeps)
<1>1. /\ messages \in Seq(Msg) /\ messages # <<>> /\ Last(messages).kind = "error"
      /\ phase # "idle" <=> pc = "run"
  BY DEF TypeInv, TextTypes, Places, Failed
<1>2. IsAssistant(Last(messages)) /\ LastAnswer(messages) = {Last(messages)}
  BY <1>1, LastIsAnswer DEF StopError
<1>3. pc # "idle" => manual = "none"
  BY DEF Quiet
<1>4. ASSUME UNCHANGED <<messages, entries, phase, pc, reason>> PROVE Resting' /\ Keeps
  BY <1>4 DEF Resting, Keeps
<1>5. CASE UNCHANGED vars
  BY <1>4, <1>5 DEF vars, agentVars, loopVars
<1>6. CASE AgentStep
  <2>1. phase = "deliver"
    BY <1>1, <1>6 DEF AgentStep, Deliver, ToolEnds, MessagePersisted, FirstPoll, FinishRun,
                      Respond, Resting
  <2>2. Deliver
    BY <1>6, <2>1 DEF AgentStep, Deliver, ToolEnds, MessagePersisted, FirstPoll, FinishRun,
                      Respond
  <2>3. Said(Head(pending)) \in Given
    <3>1. pending \in Held(Given) /\ pending # <<>>
      BY <2>1 DEF TypeInv, WaitingTypes, Places
    <3>. QED
      BY <3>1, HeldIs, SaidIs
  <2>4. phase' = "writing" /\ writing' = <<Said(Head(pending))>>
    BY <2>2 DEF Deliver, Finished
  <2>. QED
    BY <2>3, <2>4 DEF Delivering, Given
<1>7. CASE Prompt
  BY <1>1, <1>7 DEF Prompt, isStreaming, Resting, Keeps, FlushesNow
<1>8. CASE PromptStep
  <2>1. phase = "idle"
    BY <1>1, <1>8
    DEF PromptStep, CheckBeforePrompt, HandlePostAgentRun, Cancelled, Continue, ContinueRefused,
        Slept, CompactionFails, CompactionSaved, CompactionEnds, RunPrompt
  <2>2. ~HandlePostAgentRun /\ ~Cancelled /\ ~Slept
    BY <2>1 DEF HandlePostAgentRun, Cancelled, Slept, Resting
  <2>3. CASE CheckBeforePrompt
    <3>. DEFINE i == SelectLastInSeq(messages, IsAssistant)
    <3>1. i # 0 /\ messages[i] = Last(messages)
      BY <1>1, <1>2, AnswerIndex
    <3>2. CheckCompaction(messages[i])
      BY <2>3, <3>1 DEF CheckBeforePrompt
    <3>. HIDE DEF i
    <3>. QED
      BY <1>1, <2>1, <3>1, <3>2, ErrorRests
  <2>4. CASE Continue
    <3>1. /\ phase' = "deliver" /\ UNCHANGED <<messages, entries>>
      BY <1>2, <2>4 DEF Continue, StartRun
    <3>. QED
      BY <3>1 DEF Resting, Keeps
  <2>5. CASE RunPrompt
    <3>1. /\ phase' = "deliver" /\ UNCHANGED <<messages, entries>>
      BY <2>5 DEF RunPrompt, StartRun
    <3>. QED
      BY <3>1 DEF Resting, Keeps
  <2>6. CASE ContinueRefused
    BY <2>1, <2>6 DEF ContinueRefused, Resting, Keeps, FlushesNow
  <2>7. CASE CompactionFails
    BY <2>1, <2>7, EndsAt, NothingText, RestsIdle DEF CompactionFails, Resting
  <2>8. CASE CompactionSaved
    <3>1. reason # "overflow"
      BY <2>1, <2>8 DEF CompactionSaved, Resting
    <3>2. pc' = "compacted" /\ reason' = reason
      BY <2>8 DEF CompactionSaved
    <3>3. \E p \in Preps : Compacts(p)
      <4>1. /\ prepared \in Held(Preps) /\ prepared # <<>>
            /\ Splits(entries, Len(entries), prepared[1])
        BY <2>8 DEF CompactionSaved, TypeInv, PrepTypes
      <4>2. prepared[1] \in Preps
        BY <4>1, HeldIs
      <4>. QED
        BY <2>8, <4>1, <4>2 DEF CompactionSaved, Compacts, agentVars
    <3>. QED
      BY <2>1, <3>1, <3>2, <3>3 DEF Resting, Keeps
  <2>9. CASE CompactionEnds
    <3>1. reason # "overflow"
      BY <2>1, <2>9 DEF CompactionEnds, Resting
    <3>2. (ToContinue /\ UNCHANGED <<messages, entries>>) \/ NothingToContinue
      BY <2>9, <3>1 DEF CompactionEnds
    <3>3. ToContinue => pc' = "continue"
      BY DEF ToContinue
    <3>. QED
      BY <2>1, <3>2, <3>3, EndsAt, NothingText, RestsIdle DEF Resting, Keeps
  <2>. QED
    BY <1>8, <2>2, <2>3, <2>4, <2>5, <2>6, <2>7, <2>8, <2>9 DEF PromptStep
<1>9. CASE ManualSaved
  <2>1. phase = "idle" /\ UNCHANGED <<phase, pc>> /\ pc = "idle"
    BY <1>1, <1>3, <1>9 DEF ManualSaved, agentVars, loopVars
  <2>2. \E p \in Preps : Compacts(p)
    <3>1. manualPrepared \in Held(Preps) /\ manualPrepared # <<>>
          /\ Splits(entries, Len(entries), manualPrepared[1])
      BY <1>9 DEF ManualSaved, TypeInv, PrepTypes, Places
    <3>2. manualPrepared[1] \in Preps
      BY <3>1, HeldIs
    <3>. QED
      BY <1>9, <3>1, <3>2 DEF ManualSaved, Compacts, agentVars
  <2>. QED
    BY <2>1, <2>2 DEF Resting, Keeps
<1>10. CASE ManualPrepare \/ ManualFails \/ ManualEnds
  BY <1>4, <1>10 DEF ManualPrepare, ManualFails, ManualEnds, agentVars, loopVars
<1>11. pc # "sleep"
  BY <1>1 DEF Resting
<1>12. CASE compact \/ abortRetry \/ abort \/ abortCompaction
  <2>1. UNCHANGED <<messages, entries, phase, pc, reason>>
    BY <1>11, <1>12 DEF compact, abortRetry, abort, abortCompaction, AbortRetry, agentVars
  <2>. QED
    BY <1>4, <2>1
<1>13. CASE steer \/ followUp \/ clearQueue
  BY <1>4, <1>13 DEF steer, followUp, clearQueue, agentVars, loopVars
<1>14. CASE sendCustomMessage \/ recordBashResult
  <2>1. UNCHANGED <<phase, pc, reason>>
    BY <1>14 DEF sendCustomMessage, recordBashResult, agentVars, loopVars
  <2>2. UNCHANGED <<messages, entries>> \/ \E m \in Plain : Recording(m)
    BY <1>14, ApplicationCustom, ApplicationBash DEF Silent, textVars, Waits
  <2>. QED
    BY <2>1, <2>2 DEF Resting, Keeps
<1>. QED
  BY <1>5, <1>6, <1>7, <1>8, <1>9, <1>10, <1>12, <1>13, <1>14 DEF Next, CompactStep, Application

(* What is kept, or no failure counts any more.                            *)
LEMMA KeepsFailed ==
    ASSUME TypeInv, Keeps, Failed(messages), NEW c
    PROVE  /\ FailCount(entries', c) <= FailCount(entries, c)
           /\ FailCount(entries', c) = 0 \/ Failed(messages')
<1>1. entries \in Seq(Msg) /\ messages \in Seq(Msg) /\ pendingBashMessages \in Seq(Bash)
  BY DEF TypeInv, TextTypes
<1>2. FailCount(entries, c) \in Nat
  BY <1>1, CountType
<1>3. CASE UNCHANGED <<messages, entries>>
  BY <1>2, <1>3
<1>4. CASE FlushesNow
  <2>1. CASE pendingBashMessages = <<>>
    <3>1. entries \o <<>> = entries /\ messages \o <<>> = messages
      BY <1>1, ConcatEmptySeq
    <3>2. UNCHANGED <<messages, entries>>
      BY <1>4, <2>1, <3>1 DEF FlushesNow, Flush
    <3>. QED
      BY <1>2, <3>2
  <2>2. CASE pendingBashMessages # <<>>
    BY <1>1, <1>2, <1>4, <2>2, CountSaid DEF FlushesNow, Flush
  <2>. QED
    BY <2>1, <2>2
<1>5. ASSUME NEW m \in Plain, Recording(m)
      PROVE  FailCount(entries', c) = 0 /\ 0 <= FailCount(entries, c)
  <2>1. /\ m \in Msg /\ ~IsCompaction(m) /\ m.kind # "error" /\ entries' = Append(entries, m)
    BY <1>5, GivenPlain DEF Recording, Recorded, IsCompaction, Msg
  <2>2. FailCount(Append(entries, m), c) = 0
    BY <1>1, <2>1, CountAppend
  <2>. QED
    BY <1>2, <2>1, <2>2
<1>6. ASSUME NEW p \in Preps, Compacts(p)
      PROVE  /\ FailCount(entries', c) <= FailCount(entries, c)
             /\ FailCount(entries', c) = 0 \/ Failed(messages')
  <2>. DEFINE e == CompactionEntry(p)
  <2>1. /\ e \in Msg /\ IsCompaction(e) /\ entries' = Append(entries, e)
        /\ entries' \in Seq(Msg) /\ AllSplit(entries')
        /\ messages' = BuildSessionContext(entries')
    BY <1>6, CompactionText
  <2>. HIDE DEF e
  <2>2. FailCount(entries', c) <= FailCount(entries, c)
    BY <1>1, <2>1, CountAppend
  <2>3. entries' # <<>> /\ Last(entries') = e
    BY <1>1, <2>1, LastAppend
  <2>4. ASSUME Fails(entries', c) # {} PROVE Failed(messages')
    <3>1. PICK i \in Fails(entries', c) : TRUE
      BY <2>4
    <3>2. i \in 1..Len(entries') /\ entries'[i].kind = "error" /\ FailsFrom(entries', i)
      BY <2>1, <3>1, LenProperties DEF Fails
    <3>. QED
      BY <2>1, <2>3, <3>2, FailedRebuilt
  <2>5. Fails(entries', c) = {} => FailCount(entries', c) = 0
    BY FS_EmptySet DEF FailCount
  <2>. QED
    BY <2>2, <2>4, <2>5
<1>. QED
  BY <1>2, <1>3, <1>4, <1>5, <1>6 DEF Keeps

(* What changes the account of retries, and what a run's end leaves.       *)
LEMMA AccountsKept ==
    ASSUME [Next]_vars, ~MessagePersisted, ~HandlePostAgentRun, ~Cancelled
    PROVE  UNCHANGED <<retryAttempt, cancelledAt>>
<1>1. CASE UNCHANGED vars
  BY <1>1 DEF vars, runVars
<1>2. CASE AgentStep
  BY <1>2 DEF AgentStep, Deliver, ToolEnds, FirstPoll, FinishRun, Respond, runVars
<1>3. CASE CheckBeforePrompt \/ Continue \/ RunPrompt
  BY <1>3 DEF CheckBeforePrompt, Continue, RunPrompt, runVars
<1>4. CASE CompactStep \/ Application \/ compact \/ Prompt \/ ContinueRefused \/ Slept
           \/ CompactionFails \/ CompactionSaved \/ CompactionEnds
  BY <1>4, RunQuiet DEF runVars
<1>. QED
  BY <1>1, <1>2, <1>3, <1>4 DEF Next, PromptStep

LEMMA EndedNext ==
    ASSUME TypeInv, Quiet, [Next]_vars, Ended, ~HandlePostAgentRun
    PROVE  Ended' /\ UNCHANGED <<messages, entries, runVars>>
<1>1. phase # "idle" <=> pc = "run"
  BY DEF TypeInv, Places
<1>2. ASSUME UNCHANGED <<messages, entries, phase, pc, runVars>>
      PROVE  Ended' /\ UNCHANGED <<messages, entries, runVars>>
  BY <1>2 DEF Ended
<1>3. CASE UNCHANGED vars
  BY <1>2, <1>3 DEF vars, agentVars, loopVars
<1>4. CASE AgentStep
  BY <1>1, <1>4 DEF AgentStep, Deliver, ToolEnds, MessagePersisted, FirstPoll, FinishRun,
                    Respond, Ended, NoContinuation
<1>5. ~PromptStep /\ ~Prompt
  BY <1>1 DEF PromptStep, Prompt, CheckBeforePrompt, Cancelled, Continue, ContinueRefused,
              Slept, CompactionFails, CompactionSaved, CompactionEnds, RunPrompt, Ended
<1>6. ~CompactStep
  BY <1>1 DEF CompactStep, ManualPrepare, ManualFails, ManualSaved, ManualEnds, Quiet, Ended
<1>7. CASE compact \/ abortRetry \/ abort \/ abortCompaction
  <2>1. pc # "sleep"
    BY <1>1 DEF Ended
  <2>. QED
    BY <1>2, <1>7, <2>1 DEF compact, abortRetry, abort, abortCompaction, AbortRetry, agentVars
<1>8. CASE steer \/ followUp \/ clearQueue
  BY <1>2, <1>8 DEF steer, followUp, clearQueue, agentVars, loopVars
<1>9. CASE sendCustomMessage \/ recordBashResult
  <2>1. phase # "idle"
    BY <1>1, <1>9 DEF sendCustomMessage, recordBashResult, Op, NoContinuation, Ended
  <2>. QED
    BY <1>2, <1>9, <2>1 DEF sendCustomMessage, recordBashResult, isStreaming, agentVars, loopVars
<1>. QED
  BY <1>3, <1>4, <1>5, <1>6, <1>7, <1>8, <1>9 DEF Next, Application

LEMMA WritingNext ==
    ASSUME TypeInv, Quiet, [Next]_vars, phase = "writing", ~MessagePersisted
    PROVE  UNCHANGED <<phase, writing, messages, entries, runVars>>
<1>1. phase # "idle" /\ pc = "run" /\ manual = "none"
  BY DEF TypeInv, Places, Quiet
<1>2. CASE UNCHANGED vars
  BY <1>2 DEF vars, agentVars
<1>3. ~AgentStep
  BY DEF AgentStep, Deliver, ToolEnds, FirstPoll, FinishRun, Respond
<1>4. ~PromptStep /\ ~Prompt
  BY <1>1 DEF PromptStep, Prompt, CheckBeforePrompt, HandlePostAgentRun, Cancelled, Continue,
              ContinueRefused, Slept, CompactionFails, CompactionSaved, CompactionEnds, RunPrompt
<1>5. ~CompactStep
  BY <1>1 DEF CompactStep, ManualPrepare, ManualFails, ManualSaved, ManualEnds
<1>6. CASE compact \/ abortRetry \/ abort \/ abortCompaction
  BY <1>6 DEF compact, abortRetry, abort, abortCompaction, agentVars
<1>7. CASE steer \/ followUp \/ clearQueue
  BY <1>7 DEF steer, followUp, clearQueue, agentVars
<1>8. CASE sendCustomMessage \/ recordBashResult
  BY <1>1, <1>8 DEF sendCustomMessage, recordBashResult, isStreaming, agentVars
<1>. QED
  BY <1>2, <1>3, <1>4, <1>5, <1>6, <1>7, <1>8 DEF Next, Application

LEMMA PersistedHears ==
    ASSUME TypeInv, MessagePersisted
    PROVE  /\ Hears /\ phase = "writing" /\ UNCHANGED <<messages, cancelledAt>>
           /\ writing[1].kind = "error" \/ writing[1].kind = "overflow" =>
                /\ heard => UNCHANGED <<retryAttempt, overflowRecoveryAttempted>>
                /\ phase' = "end"
<1>1. Hears
  <2>1. writing \in Held(Plain) /\ phase = "writing"
    BY DEF MessagePersisted, TypeInv, WaitingTypes
  <2>2. \A m : AfterMessage(m) => phase' # "writing"
    BY DEF AfterMessage, Poll, TakeSteering, TakeFollowUp, GoTo
  <2>. QED
    BY <2>1, <2>2 DEF MessagePersisted, Hears, Persisted
<1>2. phase = "writing" /\ UNCHANGED <<messages, cancelledAt>>
  BY DEF MessagePersisted
<1>. DEFINE m == writing[1]
<1>3. ASSUME m.kind \in {"error", "overflow"}
      PROVE  /\ heard => UNCHANGED <<retryAttempt, overflowRecoveryAttempted>>
             /\ phase' = "end"
  <2>1. m \in Msg /\ IsAssistant(m) /\ StopError(m) /\ m.role # "toolResult"
    <3>1. writing \in Held(Plain) /\ writing # <<>>
      BY <1>2 DEF TypeInv, WaitingTypes, Places
    <3>2. m \in Msg
      BY <3>1, HeldIs, GivenPlain
    <3>. QED
      BY <1>3, <3>2 DEF Msg, IsAssistant, StopError
  <2>2. AfterMessage(m) /\ (heard => TrackAssistant(m))
    BY <2>1 DEF MessagePersisted
  <2>. HIDE DEF m
  <2>3. phase' = "end"
    BY <1>3, <2>1, <2>2 DEF AfterMessage, GoTo
  <2>4. heard => UNCHANGED <<retryAttempt, overflowRecoveryAttempted>>
    BY <2>1, <2>2 DEF TrackAssistant
  <2>. QED
    BY <2>3, <2>4
<1>. QED
  BY <1>1, <1>2, <1>3

(* A run that failed once more than it was retried has been retried as     *)
(* often as is allowed, or is retried now, or is not retried any more.     *)
Few(n) == FailCount(entries, cancelledAt) <= n

FailInv ==
    \/ Few(retryAttempt)
    \/ Ended /\ Few(retryAttempt + 1)
    \/ Few(MaxRetries + 1) /\ ((Resting /\ Failed(messages)) \/ Delivering)

LEMMA FewIs ==
    ASSUME TypeInv
    PROVE  /\ FailCount(entries, cancelledAt) \in Nat /\ retryAttempt \in Nat /\ MaxRetries \in Nat
           /\ FailInv => Few(MaxRetries + 1)
<1>1. entries \in Seq(Msg) /\ retryAttempt \in 0..MaxRetries /\ MaxRetries \in Nat
  BY BoundAssumption DEF TypeInv, TextTypes, RunTypes
<1>2. FailCount(entries, cancelledAt) \in Nat
  BY <1>1, CountType
<1>. QED
  BY <1>1, <1>2 DEF FailInv, Few

LEMMA FewIsNext ==
    ASSUME TypeInv'
    PROVE  FailCount(entries', cancelledAt') \in Nat /\ retryAttempt' \in Nat
<1>1. entries' \in Seq(Msg) /\ retryAttempt' \in 0..MaxRetries /\ MaxRetries \in Nat
  BY BoundAssumption DEF TypeInv, TextTypes, RunTypes
<1>2. FailCount(entries', cancelledAt') \in Nat
  BY <1>1, CountType
<1>. QED
  BY <1>1, <1>2

LEMMA NoneFails ==
    ASSUME TypeInv', FailCount(entries', cancelledAt') = 0 PROVE FailInv'
<1>1. FailCount(entries', cancelledAt') <= retryAttempt'
  BY FewIsNext
<1>. QED
  BY <1>1 DEF FailInv, Few

LEMMA FailEnds ==
    ASSUME TypeInv, TypeInv', Quiet, Conversation, HandlePostAgentRun, FailInv PROVE FailInv'
<1>1. /\ messages \in Seq(Msg) /\ entries \in Seq(Msg) /\ pendingBashMessages \in Seq(Bash)
      /\ pc = "ran" /\ phase = "idle" /\ Ended
      /\ messages # <<>> /\ entries # <<>> /\ Last(messages) = Last(entries)
      /\ lastAssistantMessage = <<Last(messages)>> /\ IsAssistant(Last(messages))
  BY DEF TypeInv, TextTypes, Places, Conversation, EndsInv, Ended, HandlePostAgentRun
<1>2. Few(retryAttempt + 1)
  <2>1. ~Resting /\ ~Delivering
    BY <1>1 DEF Resting, Delivering
  <2>. QED
    BY <2>1, FewIs DEF FailInv, Few
<1>. DEFINE m == Last(messages)
<1>3. WaitForRetry(m) \/ GiveUp(m)
  BY <1>1 DEF HandlePostAgentRun
<1>4. cancelledAt' = cancelledAt
  BY DEF HandlePostAgentRun
<1>5. m \in Msg
  BY <1>1, FrontLast
<1>6. retryAttempt' \in Nat /\ retryAttempt \in 0..MaxRetries /\ MaxRetries \in Nat
  BY BoundAssumption DEF TypeInv, RunTypes
<1>7. ASSUME FailCount(entries, cancelledAt) = 0 PROVE Few(retryAttempt)'
  <2>1. QuietText
    BY NextQuietText DEF Next, PromptStep
  <2>2. FailCount(entries', cancelledAt) = 0
    <3>1. ~Hears
      BY <1>1 DEF Hears
    <3>2. FailCount(entries', cancelledAt) <= FailCount(entries, cancelledAt)
      BY <2>1, <3>1, CountNext
    <3>3. FailCount(entries', cancelledAt') \in Nat
      BY FewIsNext
    <3>. QED
      BY <1>4, <1>7, <3>2, <3>3
  <2>. QED
    BY <1>4, <1>6, <2>2 DEF Few
<1>. HIDE DEF m
<1>8. CASE WaitForRetry(m)
  BY <1>2, <1>4, <1>8 DEF WaitForRetry, Few, FailInv
<1>9. CASE GiveUp(m)
  <2>1. CASE m.kind = "error"
    <3>1. retryAttempt = MaxRetries /\ CheckCompaction(m)
      BY <1>6, <1>9, <2>1 DEF GiveUp, MayRetry
    <3>2. Resting' /\ Keeps
      BY <1>1, <2>1, <3>1, ErrorRests
    <3>3. Failed(messages)
      BY <1>1, <2>1 DEF m, Failed
    <3>4. /\ FailCount(entries', cancelledAt) <= FailCount(entries, cancelledAt)
          /\ FailCount(entries', cancelledAt) = 0 \/ Failed(messages')
      BY <3>2, <3>3, KeepsFailed
    <3>5. FailCount(entries, cancelledAt) \in Nat /\ FailCount(entries', cancelledAt) \in Nat
      <4>1. FailCount(entries', cancelledAt') \in Nat
        BY FewIsNext
      <4>. QED
        BY <1>4, <4>1, FewIs
    <3>6. Few(MaxRetries + 1)'
      BY <1>2, <1>4, <1>6, <3>1, <3>4, <3>5 DEF Few
    <3>7. CASE FailCount(entries', cancelledAt) = 0
      BY <1>4, <3>7, NoneFails
    <3>8. CASE Failed(messages')
      BY <3>2, <3>6, <3>8 DEF FailInv
    <3>. QED
      BY <3>4, <3>7, <3>8
  <2>2. CASE m.kind # "error"
    <3>1. Fails(entries, cancelledAt) = {}
      <4>1. ASSUME NEW i \in Fails(entries, cancelledAt) PROVE FALSE
        <5>1. Len(entries) \in i..Len(entries) /\ FailsFrom(entries, i)
          BY <1>1, LenProperties DEF Fails
        <5>2. entries[Len(entries)] = m
          BY <1>1 DEF m, Last
        <5>3. ~IsCompaction(m)
          BY <1>1 DEF m, IsCompaction, IsAssistant
        <5>. QED
          BY <2>2, <5>1, <5>2, <5>3 DEF FailsFrom
      <4>. QED
        BY <4>1
    <3>2. FailCount(entries, cancelledAt) = 0
      BY <3>1, FS_EmptySet DEF FailCount
    <3>. QED
      BY <1>7, <3>2 DEF FailInv
  <2>. QED
    BY <2>1, <2>2
<1>. QED
  BY <1>3, <1>8, <1>9

LEMMA FailNext ==
    ASSUME TypeInv, TypeInv', Quiet, Conversation, [Next]_vars, FailInv PROVE FailInv'
<1>. DEFINE c == cancelledAt
            N == FailCount(entries, c)
            M == FailCount(entries', cancelledAt')
<1>1. /\ N \in Nat /\ M \in Nat /\ retryAttempt \in Nat /\ retryAttempt' \in Nat
      /\ MaxRetries \in Nat
  BY FewIs, FewIsNext
<1>2. M = 0 => FailInv'
  BY NoneFails
<1>3. QuietText
  BY NextQuietText
<1>4. /\ entries \in Seq(Msg) /\ pendingBashMessages \in Seq(Bash)
      /\ phase # "idle" <=> pc = "run"
      /\ phase = "writing" <=> writing # <<>>
  BY DEF TypeInv, TextTypes, Places
<1>5. CASE HandlePostAgentRun
  BY <1>5, FailEnds
<1>6. CASE Cancelled
  <2>1. cancelledAt' = Len(entries) /\ phase = "idle"
    BY <1>4, <1>6 DEF Cancelled
  <2>2. entries' = entries \/ entries' = entries \o pendingBashMessages
    <3>1. \A m : CheckCompaction(m) =>
                   entries' = entries \/ entries' = entries \o pendingBashMessages
      BY CheckTakes DEF Flush, textVars
    <3>. QED
      BY <1>6, <3>1 DEF Cancelled
  <2>3. M = 0
    BY <1>4, <2>1, <2>2, CountAt
  <2>. QED
    BY <1>2, <2>3
<1>7. CASE MessagePersisted
  <2>. DEFINE m == writing[1]
  <2>1. /\ Hears /\ cancelledAt' = cancelledAt /\ phase = "writing"
        /\ m \in Msg /\ ~IsCompaction(m) /\ heard = TRUE /\ entries' = Append(entries, m)
    BY <1>7, PersistedHears, HeardEntry
  <2>2. CASE m.kind = "error"
    <3>1. /\ retryAttempt' = retryAttempt /\ phase' = "end"
      BY <1>7, <2>1, <2>2, PersistedHears
    <3>2. M <= N + 1
      BY <1>4, <2>1, <2>2, CountAppend
    <3>3. Few(retryAttempt)
      <4>1. ~Ended /\ ~Resting /\ ~Delivering
        <5>1. m.role = "assistant"
          BY <2>1, <2>2 DEF Msg
        <5>. QED
          BY <1>4, <2>1, <5>1 DEF Ended, Resting, Delivering
      <4>. QED
        BY <4>1 DEF FailInv
    <3>4. Ended'
      BY <3>1 DEF Ended
    <3>5. M <= retryAttempt' + 1
      BY <1>1, <3>1, <3>2, <3>3 DEF Few
    <3>. QED
      BY <3>4, <3>5 DEF FailInv, Few
  <2>3. CASE m.kind # "error"
    <3>1. M = 0
      BY <1>4, <2>1, <2>3, CountAppend
    <3>. QED
      BY <1>2, <3>1
  <2>. QED
    BY <2>2, <2>3
<1>8. CASE ~HandlePostAgentRun /\ ~Cancelled /\ ~MessagePersisted
  <2>1. retryAttempt' = retryAttempt /\ cancelledAt' = cancelledAt
    BY <1>8, AccountsKept
  <2>2. M <= N
    <3>1. ~Hears
      BY <1>8, WritingNext DEF Hears
    <3>. QED
      BY <1>3, <2>1, <3>1, CountNext
  <2>3. CASE Few(retryAttempt)
    BY <1>1, <2>1, <2>2, <2>3 DEF Few, FailInv
  <2>4. CASE Ended /\ Few(retryAttempt + 1)
    <3>1. Ended'
      BY <1>8, <2>4, EndedNext
    <3>2. M <= retryAttempt' + 1
      BY <1>1, <2>1, <2>2, <2>4 DEF Few
    <3>. QED
      BY <3>1, <3>2 DEF Few, FailInv
  <2>5. CASE Few(MaxRetries + 1) /\ Resting /\ Failed(messages)
    <3>1. M <= MaxRetries + 1
      BY <1>1, <2>2, <2>5 DEF Few
    <3>2. Delivering' \/ (Resting' /\ Keeps)
      BY <2>5, RestingNext
    <3>3. CASE Delivering'
      BY <3>1, <3>3 DEF Few, FailInv
    <3>4. CASE Resting' /\ Keeps
      <4>1. M = 0 \/ Failed(messages')
        BY <2>1, <2>5, <3>4, KeepsFailed
      <4>. QED
        BY <1>2, <3>1, <3>4, <4>1 DEF Few, FailInv
    <3>. QED
      BY <3>2, <3>3, <3>4
  <2>6. CASE Few(MaxRetries + 1) /\ Delivering
    <3>1. M <= MaxRetries + 1
      BY <1>1, <2>2, <2>6 DEF Few
    <3>2. UNCHANGED <<phase, writing>>
      BY <1>8, <2>6, WritingNext DEF Delivering
    <3>3. Delivering'
      BY <2>6, <3>2 DEF Delivering
    <3>. QED
      BY <3>1, <3>3 DEF Few, FailInv
  <2>. QED
    BY <2>3, <2>4, <2>5, <2>6 DEF FailInv
<1>. QED
  BY <1>5, <1>6, <1>7, <1>8

-----------------------------------------------------------------------------
(* Nothing has been compacted since the answer that a run ends with.       *)
Answered == Ended \/ (phase = "writing" /\ IsAssistant(writing[1]))
NewerInv ==
    Answered => \A e \in Range(entries) : IsCompaction(e) => e.id < Last(messages).id

StageInv == pc = "checking" => stage = "check"

LEMMA StageNext ==
    ASSUME StageInv, [Next]_vars PROVE StageInv'
<1>1. ASSUME UNCHANGED <<pc, stage>> PROVE StageInv'
  BY <1>1 DEF StageInv
<1>2. ASSUME pc' # "checking" PROVE StageInv'
  BY <1>2 DEF StageInv
<1>3. CASE UNCHANGED vars
  BY <1>1, <1>3 DEF vars, loopVars
<1>4. CASE AgentStep
  BY <1>1, <1>2, <1>4 DEF AgentStep, Deliver, ToolEnds, MessagePersisted, FirstPoll, FinishRun,
                          Respond, Finished, loopVars
<1>5. CASE Prompt
  BY <1>5 DEF Prompt, StageInv
<1>6. CASE PromptStep
  <2>1. \A m : CheckCompaction(m) => pc' # "checking"
    BY EndsAt DEF CheckCompaction, BeginCompaction
  <2>. QED
    BY <1>2, <1>6, <2>1, EndsAt
    DEF PromptStep, CheckBeforePrompt, HandlePostAgentRun, Cancelled, Continue, ContinueRefused,
        Slept, CompactionFails, CompactionSaved, CompactionEnds, RunPrompt, GiveUp, WaitForRetry,
        LoopEnds, ToContinue
<1>7. CASE CompactStep \/ steer \/ followUp \/ clearQueue \/ sendCustomMessage \/ recordBashResult
  BY <1>1, <1>7 DEF CompactStep, ManualPrepare, ManualFails, ManualSaved, ManualEnds, steer,
                    followUp, clearQueue, sendCustomMessage, recordBashResult, loopVars
<1>8. CASE compact \/ abortRetry \/ abort \/ abortCompaction
  BY <1>1, <1>2, <1>8 DEF compact, abortRetry, abort, abortCompaction, AbortRetry
<1>. QED
  BY <1>3, <1>4, <1>5, <1>6, <1>7, <1>8 DEF Next, Application

(* Where an answer begins to be written.                                   *)
LEMMA AnsweredNext ==
    ASSUME TypeInv, Quiet, [Next]_vars, Answered', ~Answered
    PROVE  \E k \in ReplyKinds \cup {"aborted"} : Respond(k)
<1>1. /\ phase # "idle" <=> pc = "run"
      /\ pending \in Held(Given)
      /\ phase = "deliver" <=> pending # <<>>
      /\ writing \in Held(Plain)
      /\ phase = "writing" <=> writing # <<>>
  BY DEF TypeInv, Places, WaitingTypes
<1>2. ASSUME UNCHANGED <<phase, pc, writing>> PROVE FALSE
  BY <1>2 DEF Answered, Ended
<1>3. ASSUME phase' \notin {"end", "writing"}, pc' # "ran" PROVE FALSE
  BY <1>3 DEF Answered, Ended
<1>4. CASE UNCHANGED vars
  BY <1>2, <1>4 DEF vars, agentVars, loopVars
<1>5. CASE AgentStep
  <2>1. ~FirstPoll
    BY <1>1, <1>3 DEF FirstPoll, Poll, TakeSteering, GoTo, loopVars
  <2>2. ~FinishRun
    BY DEF FinishRun, Answered, Ended
  <2>3. ~ToolEnds
    <3>1. ASSUME ToolEnds PROVE FALSE
      <4>1. phase' = "writing" /\ writing'[1].role = "toolResult" /\ UNCHANGED pc
        BY <3>1 DEF ToolEnds, Finished, Made, loopVars
      <4>2. pc # "ran"
        BY <1>1, <3>1 DEF ToolEnds
      <4>. QED
        BY <4>1, <4>2 DEF Answered, Ended, IsAssistant
    <3>. QED
      BY <3>1
  <2>4. ~Deliver
    <3>1. ASSUME Deliver PROVE FALSE
      <4>1. Said(Head(pending)) \in Given
        BY <1>1, <3>1, HeldIs, SaidIs DEF Deliver
      <4>2. phase' = "writing" /\ writing' = <<Said(Head(pending))>> /\ UNCHANGED pc
        BY <3>1 DEF Deliver, Finished, loopVars
      <4>3. pc # "ran"
        BY <1>1, <3>1 DEF Deliver
      <4>. QED
        BY <4>1, <4>2, <4>3 DEF Answered, Ended, IsAssistant, Given
    <3>. QED
      BY <3>1
  <2>5. ~MessagePersisted
    <3>1. ASSUME MessagePersisted PROVE FALSE
      <4>. DEFINE m == writing[1]
      <4>1. ~IsAssistant(m) /\ phase = "writing" /\ UNCHANGED pc /\ AfterMessage(m)
        BY <3>1 DEF MessagePersisted, Answered, loopVars
      <4>. HIDE DEF m
      <4>2. phase' \notin {"end", "writing"}
        BY <4>1 DEF AfterMessage, Poll, TakeSteering, GoTo
      <4>3. pc' # "ran"
        BY <1>1, <4>1
      <4>. QED
        BY <1>3, <4>2, <4>3
    <3>. QED
      BY <3>1
  <2>. QED
    BY <1>5, <2>1, <2>2, <2>3, <2>4, <2>5 DEF AgentStep
<1>6. CASE PromptStep \/ Prompt
  <2>1. phase' \notin {"end", "writing"}
    BY <1>1, <1>6
    DEF PromptStep, Prompt, CheckBeforePrompt, HandlePostAgentRun, Cancelled, Continue,
        ContinueRefused, Slept, CompactionFails, CompactionSaved, CompactionEnds, RunPrompt,
        StartRun, agentVars, isStreaming
  <2>2. \A m : CheckCompaction(m) => pc' # "ran"
    BY EndsAt DEF CheckCompaction, BeginCompaction
  <2>3. pc' # "ran"
    BY <1>6, <2>2, EndsAt
    DEF PromptStep, Prompt, CheckBeforePrompt, HandlePostAgentRun, Cancelled, Continue,
        ContinueRefused, Slept, CompactionFails, CompactionSaved, CompactionEnds, RunPrompt,
        GiveUp, WaitForRetry, ToContinue, LoopEnds
  <2>. QED
    BY <1>3, <2>1, <2>3
<1>7. CASE CompactStep \/ steer \/ followUp \/ clearQueue \/ sendCustomMessage \/ recordBashResult
  BY <1>2, <1>7 DEF CompactStep, ManualPrepare, ManualFails, ManualSaved, ManualEnds, steer,
                    followUp, clearQueue, sendCustomMessage, recordBashResult, loopVars, agentVars
<1>8. CASE compact \/ abortRetry \/ abort \/ abortCompaction
  <2>1. UNCHANGED <<phase, writing>> /\ pc' \in {pc, "cancelled"}
    BY <1>8 DEF compact, abortRetry, abort, abortCompaction, AbortRetry, agentVars
  <2>. QED
    BY <1>2, <2>1 DEF Answered, Ended
<1>. QED
  BY <1>4, <1>5, <1>6, <1>7, <1>8 DEF Next, Application

LEMMA NewerNext ==
    ASSUME TypeInv, Quiet, Conversation, KnownInv, NewerInv, [Next]_vars PROVE NewerInv'
<1>1. /\ messages \in Seq(Msg) /\ entries \in Seq(Msg) /\ lastId \in Nat /\ WriteInv
      /\ phase = "writing" <=> writing # <<>>
  BY DEF TypeInv, TextTypes, Places, Conversation
<1>2. \A e \in Range(entries) : e.id <= lastId /\ e \in Msg
  <2>1. Range(entries) \subseteq Known
    BY DEF Known, Spoken
  <2>2. \A e \in Range(entries) : e \in Msg
    BY <1>1, LenProperties DEF Range
  <2>. QED
    BY <2>1, <2>2 DEF KnownInv
<1>3. ASSUME ~Answered' PROVE NewerInv'
  BY <1>3 DEF NewerInv
<1>4. ASSUME Answered', ~Answered PROVE NewerInv'
  <2>1. PICK k \in ReplyKinds \cup {"aborted"} : Respond(k)
    BY <1>4, AnsweredNext
  <2>. DEFINE m == Made("assistant", k)
  <2>2. messages' = Append(messages, m) /\ entries' = entries
    BY <2>1 DEF Respond, Finished
  <2>3. m \in Msg /\ m.id = lastId + 1
    BY <1>1, MadeTypes, GivenPlain DEF Kinds, Made
  <2>. HIDE DEF m
  <2>4. Last(messages') = m
    BY <1>1, <2>2, <2>3, LastAppend
  <2>5. \A e \in Range(entries) : e.id < lastId + 1
    <3>1. \A e \in Msg : e.id \in Nat
      BY DEF Msg, Records
    <3>. QED
      BY <1>1, <1>2, <3>1
  <2>. QED
    BY <2>2, <2>3, <2>4, <2>5 DEF NewerInv
<1>5. ASSUME Answered', Answered PROVE NewerInv'
  <2>1. CASE Ended /\ ~HandlePostAgentRun
    <3>1. UNCHANGED <<messages, entries>>
      BY <2>1, EndedNext
    <3>. QED
      BY <1>5, <3>1 DEF NewerInv
  <2>2. CASE Ended /\ HandlePostAgentRun
    <3>1. phase' # "end" /\ phase' # "writing"
      BY <2>2 DEF HandlePostAgentRun, agentVars, TypeInv, Places
    <3>2. \A m : CheckCompaction(m) => pc' # "ran"
      BY EndsAt DEF CheckCompaction, BeginCompaction
    <3>3. pc' # "ran"
      BY <2>2, <3>2, EndsAt DEF HandlePostAgentRun, GiveUp, WaitForRetry, LoopEnds
    <3>. QED
      BY <1>5, <3>1, <3>3 DEF Answered, Ended
  <2>3. CASE phase = "writing" /\ IsAssistant(writing[1]) /\ ~MessagePersisted
    <3>1. UNCHANGED <<messages, entries>>
      BY <2>3, WritingNext
    <3>. QED
      BY <1>5, <3>1 DEF NewerInv
  <2>4. CASE phase = "writing" /\ IsAssistant(writing[1]) /\ MessagePersisted
    <3>1. /\ writing[1] \in Msg /\ ~IsCompaction(writing[1]) /\ messages' = messages
          /\ entries' = Append(entries, writing[1])
      BY <2>4, HeardEntry, PersistedHears
    <3>2. Range(entries') = Range(entries) \cup {writing[1]}
      BY <1>1, <3>1, RangeAppend
    <3>. QED
      BY <1>5, <3>1, <3>2 DEF NewerInv
  <2>. QED
    BY <1>5, <2>1, <2>2, <2>3, <2>4 DEF Answered
<1>. QED
  BY <1>3, <1>4, <1>5

(* Where a prompt may be that overflowed again after the recovery.         *)
Full(s) == \A e \in LastAnswer(s) : e.kind = "overflow"

Stuck ==
    /\ Full(entries)
    /\ \/ Ended
       \/ pc \in {"idle", "checking"} /\ Full(messages)
       \/ pc = "hook"
       \/ pc = "continue" /\ messages # <<>> /\ Last(messages).kind = "overflow"
       \/ phase = "deliver"
       \/ Delivering

OverInv ==
    /\ overflowRecoveryAttempted = TRUE =>
         FullCount(entries) <= 1 \/ (FullCount(entries) <= 2 /\ Stuck)
    /\ overflowRecoveryAttempted = FALSE =>
         \/ FullCount(entries) = 0
         \/ FullCount(entries) <= 1 /\ Ended /\ Full(entries)
         \/ FullCount(entries) <= 2 /\ phase = "writing" /\ writing[1].role = "user"

LEMMA OverIs ==
    ASSUME TypeInv
    PROVE  /\ FullCount(entries) \in Nat /\ overflowRecoveryAttempted \in BOOLEAN
           /\ OverInv => FullCount(entries) <= 2
<1>1. entries \in Seq(Msg) /\ overflowRecoveryAttempted \in BOOLEAN
  BY DEF TypeInv, TextTypes, RunTypes
<1>2. FullCount(entries) \in Nat
  BY <1>1, CountType
<1>. QED
  BY <1>1, <1>2 DEF OverInv

LEMMA OverIsNext ==
    ASSUME TypeInv'
    PROVE  /\ FullCount(entries') \in Nat /\ overflowRecoveryAttempted' \in BOOLEAN
           /\ FullCount(entries') = 0 => OverInv'
<1>1. entries' \in Seq(Msg) /\ overflowRecoveryAttempted' \in BOOLEAN
  BY DEF TypeInv, TextTypes, RunTypes
<1>2. FullCount(entries') \in Nat
  BY <1>1, CountType
<1>3. ASSUME FullCount(entries') = 0 PROVE OverInv'
  <2>1. FullCount(entries') <= 1
    BY <1>3
  <2>. QED
    BY <1>3, <2>1 DEF OverInv
<1>. QED
  BY <1>1, <1>2, <1>3

LEMMA FlushAnswers ==
    ASSUME TypeInv, Flush
    PROVE  /\ LastAnswer(messages') = LastAnswer(messages)
           /\ LastAnswer(entries') = LastAnswer(entries)
<1>1. /\ messages \in Seq(Msg) /\ entries \in Seq(Msg)
      /\ pendingBashMessages \in Seq(Bash) /\ pendingBashMessages \in Seq(Plain)
      /\ pendingBashMessages \in Seq(Msg)
  BY BashSeq, PlainSeq DEF TypeInv, TextTypes
<1>2. \A i \in 1..Len(pendingBashMessages) : ~IsAssistant(pendingBashMessages[i])
  BY <1>1, LenProperties DEF Bash, IsAssistant
<1>3. \A s \in Seq(Msg) : LastAnswer(s \o pendingBashMessages) = LastAnswer(s)
  BY <1>1, <1>2, AnswerSaid
<1>. QED
  BY <1>1, <1>3 DEF Flush

LEMMA StuckGoesOn ==
    ASSUME TypeInv, NothingToContinue, Full(entries), Full(messages), phase = "idle",
           stage # "check" => messages # <<>> /\ Last(messages).kind = "overflow"
    PROVE  Stuck'
<1>1. CASE stage = "check"
  BY <1>1 DEF NothingToContinue, Stuck, Full
<1>2. CASE stage # "check" /\ pc' = "continue" /\ UNCHANGED <<messages, entries>>
  BY <1>2 DEF Stuck, Full
<1>3. CASE LoopEnds
  BY <1>3, FlushAnswers DEF LoopEnds, Stuck, Full
<1>. QED
  BY <1>1, <1>2, <1>3 DEF NothingToContinue

LEMMA OverEnds ==
    ASSUME TypeInv, TypeInv', Quiet, Conversation, NewerInv, HandlePostAgentRun, OverInv
    PROVE  OverInv'
<1>1. /\ messages \in Seq(Msg) /\ entries \in Seq(Msg)
      /\ pc = "ran" /\ phase = "idle" /\ Ended
      /\ messages # <<>> /\ entries # <<>> /\ Last(messages) = Last(entries)
      /\ lastAssistantMessage = <<Last(messages)>> /\ IsAssistant(Last(messages))
  BY DEF TypeInv, TextTypes, Places, Conversation, EndsInv, Ended, HandlePostAgentRun
<1>. DEFINE m == Last(messages)
<1>2. WaitForRetry(m) \/ GiveUp(m)
  BY <1>1 DEF HandlePostAgentRun
<1>3. LastAnswer(messages) = {m} /\ LastAnswer(entries) = {m}
  BY <1>1, AnswerLast
<1>4. FullCount(entries') <= FullCount(entries)
  <2>1. QuietText
    BY NextQuietText DEF Next, PromptStep
  <2>2. ~Hears
    BY <1>1 DEF Hears
  <2>. QED
    BY <2>1, <2>2, CountNext
<1>5. /\ FullCount(entries) \in Nat /\ FullCount(entries') \in Nat
      /\ overflowRecoveryAttempted \in BOOLEAN /\ overflowRecoveryAttempted' \in BOOLEAN
  BY OverIs, OverIsNext
<1>6. m \in Msg /\ \A e \in Range(entries) : IsCompaction(e) => e.id < m.id
  BY <1>1, FrontLast DEF NewerInv, Answered
<1>. HIDE DEF m
<1>7. overflowRecoveryAttempted = TRUE => overflowRecoveryAttempted' = TRUE
  BY <1>2, CheckIs DEF WaitForRetry, GiveUp
<1>8. CASE overflowRecoveryAttempted = TRUE /\ FullCount(entries) <= 1
  <2>1. FullCount(entries') <= 1
    BY <1>4, <1>5, <1>8
  <2>. QED
    BY <1>7, <1>8, <2>1 DEF OverInv
<1>9. CASE overflowRecoveryAttempted = TRUE /\ FullCount(entries) <= 2 /\ Stuck
  <2>1. m.kind = "overflow" /\ Full(messages) /\ Full(entries)
    BY <1>3, <1>9 DEF Stuck, Full
  <2>2. CheckCompaction(m)
    BY <1>2, <2>1 DEF WaitForRetry, MayRetry, GiveUp
  <2>3. NothingToContinue
    BY <1>9, <2>1, <2>2 DEF CheckCompaction, ContextOverflow
  <2>4. messages # <<>> /\ Last(messages).kind = "overflow"
    BY <1>1, <2>1 DEF m
  <2>5. Stuck'
    BY <1>1, <2>1, <2>3, <2>4, StuckGoesOn
  <2>6. FullCount(entries') <= 2
    BY <1>4, <1>5, <1>9
  <2>. QED
    BY <1>7, <1>9, <2>5, <2>6 DEF OverInv
<1>10. CASE FullCount(entries) = 0
  <2>1. FullCount(entries') = 0
    BY <1>4, <1>5, <1>10
  <2>. QED
    BY <2>1, OverIsNext
<1>11. CASE overflowRecoveryAttempted = FALSE /\ FullCount(entries) <= 1 /\ Full(entries)
  <2>1. m.kind = "overflow"
    BY <1>3, <1>11 DEF Full
  <2>2. CheckCompaction(m)
    BY <1>2, <2>1 DEF WaitForRetry, MayRetry, GiveUp
  <2>3. Checked(m) /\ ContextOverflow(m)
    <3>1. ~BeforeCompaction(m)
      <4>. DEFINE k == LatestCompaction(entries)
      <4>1. ASSUME k # 0 PROVE ~(m.id < entries[k].id)
        <5>1. k \in 1..Len(entries) /\ IsCompaction(entries[k])
          BY <1>1, <4>1, LatestIndex
        <5>2. entries[k] \in Range(entries) /\ entries[k] \in Msg
          BY <1>1, <5>1, LenProperties DEF Range
        <5>. HIDE DEF k
        <5>3. entries[k].id < m.id /\ entries[k].id \in Nat /\ m.id \in Nat
          BY <1>6, <5>1, <5>2 DEF Msg, Records
        <5>. QED
          BY <5>3
      <4>. QED
        BY <4>1 DEF BeforeCompaction
    <3>. QED
      BY <2>1, <3>1 DEF Checked, ContextOverflow
  <2>4. overflowRecoveryAttempted' = TRUE
    BY <1>11, <2>2, <2>3 DEF CheckCompaction, RecoveryAttempted
  <2>5. FullCount(entries') <= 1
    BY <1>4, <1>5, <1>11
  <2>. QED
    BY <2>4, <2>5 DEF OverInv
<1>. QED
  BY <1>1, <1>5, <1>8, <1>9, <1>10, <1>11 DEF OverInv

LEMMA StuckNext ==
    ASSUME TypeInv, Quiet, Conversation, [Next]_vars, Stuck,
           ~MessagePersisted, ~HandlePostAgentRun, ~Cancelled, ~CheckBeforePrompt, ~Deliver
    PROVE  Stuck' \/ FullCount(entries') = 0
<1>1. /\ messages \in Seq(Msg) /\ entries \in Seq(Msg)
      /\ phase # "idle" <=> pc = "run"
  BY DEF TypeInv, TextTypes, Places
<1>2. CASE Ended
  BY <1>2, EndedNext DEF Stuck, Full
<1>3. CASE phase = "writing"
  BY <1>1, <1>3, WritingNext DEF Stuck, Full, Delivering, Ended
<1>4. CASE ~Ended /\ phase # "writing"
  <2>1. phase \in {"deliver", "idle"}
    BY <1>1, <1>4 DEF Stuck, Delivering
  <2>2. pc \in {"run", "idle", "checking", "hook", "continue"}
    BY <1>1, <1>4, <2>1 DEF Stuck, Delivering
  <2>3. ASSUME UNCHANGED <<messages, entries, phase, pc, writing>> PROVE Stuck'
    BY <2>3 DEF Stuck, Full, Ended, Delivering
  <2>4. CASE UNCHANGED vars
    BY <2>3, <2>4 DEF vars, agentVars, loopVars
  <2>5. ~AgentStep
    BY <2>1 DEF AgentStep, ToolEnds, FirstPoll, FinishRun, Respond
  <2>6. CASE Prompt
    <3>1. Full(messages) /\ Full(entries) /\ Flush /\ pc' = "checking"
      BY <1>1, <1>4, <2>6 DEF Prompt, Stuck, Delivering, isStreaming
    <3>. QED
      BY <3>1, FlushAnswers DEF Stuck, Full
  <2>7. CASE PromptStep
    <3>1. Continue \/ ContinueRefused \/ RunPrompt
      BY <2>2, <2>7 DEF PromptStep, Slept, CompactionFails, CompactionSaved, CompactionEnds
    <3>2. CASE RunPrompt
      <4>1. phase' = "deliver" /\ entries' = entries
        BY <3>2 DEF RunPrompt, StartRun
      <4>. QED
        BY <4>1 DEF Stuck, Full
    <3>3. ASSUME pc = "continue"
          PROVE  /\ messages # <<>> /\ Last(messages).kind = "overflow"
                 /\ Full(messages) /\ IsAssistant(Last(messages))
      <4>1. messages # <<>> /\ Last(messages).kind = "overflow"
        BY <1>1, <1>4, <3>3 DEF Stuck, Delivering
      <4>2. IsAssistant(Last(messages)) /\ LastAnswer(messages) = {Last(messages)}
        BY <1>1, <4>1, LastIsAnswer DEF StopError
      <4>. QED
        BY <4>1, <4>2 DEF Full
    <3>4. CASE Continue
      <4>1. phase' = "deliver" /\ entries' = entries
        BY <3>3, <3>4 DEF Continue, StartRun
      <4>. QED
        BY <4>1 DEF Stuck, Full
    <3>5. CASE ContinueRefused
      <4>1. Flush /\ pc' = "idle" /\ pc = "continue"
        BY <3>5 DEF ContinueRefused
      <4>. QED
        BY <3>3, <4>1, FlushAnswers DEF Stuck, Full
    <3>. QED
      BY <3>1, <3>2, <3>4, <3>5
  <2>8. CASE ManualSaved
    <3>1. pc = "idle" /\ phase = "idle" /\ UNCHANGED pc
      BY <1>1, <2>8 DEF ManualSaved, Quiet, loopVars
    <3>2. PICK p \in Preps : Compacts(p)
      <4>1. manualPrepared \in Held(Preps) /\ manualPrepared # <<>>
            /\ Splits(entries, Len(entries), manualPrepared[1])
        BY <2>8 DEF ManualSaved, TypeInv, PrepTypes, Places
      <4>2. manualPrepared[1] \in Preps
        BY <4>1, HeldIs
      <4>. QED
        BY <2>8, <4>1, <4>2 DEF ManualSaved, Compacts, agentVars
    <3>. DEFINE e == CompactionEntry(p)
    <3>3. /\ e \in Msg /\ IsCompaction(e) /\ entries' = Append(entries, e)
          /\ entries' \in Seq(Msg) /\ AllSplit(entries')
          /\ messages' = BuildSessionContext(entries')
      BY <3>2, CompactionText
    <3>. HIDE DEF e
    <3>4. ~IsAssistant(e)
      BY <3>3 DEF IsCompaction, IsAssistant
    <3>5. LastAnswer(entries') = LastAnswer(entries)
      BY <1>1, <3>3, <3>4, AnswerAppend
    <3>6. LastAnswer(messages') \subseteq LastAnswer(entries')
      BY <3>3, BuiltAnswer
    <3>. QED
      BY <3>1, <3>5, <3>6 DEF Stuck, Full
  <2>9. CASE ManualPrepare \/ ManualFails \/ ManualEnds
    BY <2>3, <2>9 DEF ManualPrepare, ManualFails, ManualEnds, agentVars, loopVars
  <2>10. CASE compact \/ abortRetry \/ abort \/ abortCompaction
    <3>1. pc # "sleep"
      BY <2>2
    <3>2. UNCHANGED <<messages, entries, phase, pc, writing>>
      BY <2>10, <3>1 DEF compact, abortRetry, abort, abortCompaction, AbortRetry, agentVars
    <3>. QED
      BY <2>3, <3>2
  <2>11. CASE steer \/ followUp \/ clearQueue
    BY <2>3, <2>11 DEF steer, followUp, clearQueue, agentVars, loopVars
  <2>12. CASE sendCustomMessage \/ recordBashResult
    <3>1. /\ UNCHANGED <<phase, pc, writing>> /\ pc \in {"run", "idle", "hook"}
      BY <2>2, <2>12 DEF sendCustomMessage, recordBashResult, agentVars, loopVars, Op,
                         NoContinuation
    <3>2. UNCHANGED <<messages, entries>> \/ \E m \in Plain : Recording(m)
      BY <2>12, ApplicationCustom, ApplicationBash DEF Silent, textVars, Waits
    <3>3. ASSUME NEW m \in Plain, Recording(m) PROVE Stuck' \/ FullCount(entries') = 0
      <4>1. /\ m \in Msg /\ m.role \in {"custom", "bash"} /\ ~IsAssistant(m)
            /\ messages' = Append(messages, m) /\ entries' = Append(entries, m) /\ phase = "idle"
        BY <3>3, GivenPlain DEF Recording, Recorded, IsAssistant
      <4>2. CASE m.role = "custom"
        BY <1>1, <4>1, <4>2, CountAppend DEF Delivered
      <4>3. CASE m.role = "bash"
        <5>1. /\ LastAnswer(messages') = LastAnswer(messages)
              /\ LastAnswer(entries') = LastAnswer(entries)
          BY <1>1, <4>1, AnswerAppend
        <5>2. pc \in {"idle", "hook"}
          BY <1>1, <3>1, <4>1
        <5>. QED
          BY <1>4, <3>1, <4>1, <5>1, <5>2 DEF Stuck, Full, Delivering
      <4>. QED
        BY <4>1, <4>2, <4>3
    <3>. QED
      BY <2>3, <3>1, <3>2, <3>3
  <2>. QED
    BY <2>4, <2>5, <2>6, <2>7, <2>8, <2>9, <2>10, <2>11, <2>12
    DEF Next, CompactStep, Application
<1>. QED
  BY <1>2, <1>3, <1>4

LEMMA RecoveryKept ==
    ASSUME [Next]_vars, ~MessagePersisted, ~HandlePostAgentRun, ~Cancelled, ~CheckBeforePrompt,
           ~Deliver
    PROVE  overflowRecoveryAttempted' = overflowRecoveryAttempted
<1>1. CASE UNCHANGED vars
  BY <1>1 DEF vars, runVars
<1>2. CASE AgentStep
  BY <1>2 DEF AgentStep, ToolEnds, FirstPoll, FinishRun, Respond, runVars
<1>3. CASE Continue \/ RunPrompt
  BY <1>3 DEF Continue, RunPrompt, runVars
<1>4. CASE CompactStep \/ Application \/ compact \/ Prompt \/ ContinueRefused \/ Slept
           \/ CompactionFails \/ CompactionSaved \/ CompactionEnds
  BY <1>4, RunQuiet DEF runVars
<1>. QED
  BY <1>1, <1>2, <1>3, <1>4 DEF Next, PromptStep

LEMMA OverHeard ==
    ASSUME TypeInv, TypeInv', Quiet, MessagePersisted, OverInv PROVE OverInv'
<1>. DEFINE m == writing[1]
<1>1. /\ entries \in Seq(Msg) /\ phase = "writing" /\ pc = "run" /\ heard = TRUE
      /\ m \in Msg /\ ~IsCompaction(m) /\ entries' = Append(entries, m) /\ ~Ended
  BY HeardEntry, PersistedHears DEF TypeInv, TextTypes, Places, Ended
<1>2. /\ FullCount(entries) \in Nat /\ FullCount(entries') \in Nat
      /\ overflowRecoveryAttempted \in BOOLEAN /\ overflowRecoveryAttempted' \in BOOLEAN
  BY OverIs, OverIsNext
<1>3. m.kind = "overflow" => UNCHANGED overflowRecoveryAttempted /\ phase' = "end"
  BY <1>1, PersistedHears
<1>4. ~IsAssistant(m) \/ StopError(m) => UNCHANGED overflowRecoveryAttempted
  BY <1>1 DEF MessagePersisted, TrackAssistant
<1>5. LastAnswer(entries') = IF IsAssistant(m) THEN {m} ELSE LastAnswer(entries)
  BY <1>1, AnswerAppend
<1>6. /\ Delivered(m) \/ (IsAssistant(m) /\ ~StopError(m)) => FullCount(entries') = 0
      /\ m.kind # "overflow" => FullCount(entries') <= FullCount(entries)
      /\ FullCount(entries') <= FullCount(entries) + 1
  BY <1>1, CountAppend
<1>7. Delivering => Delivered(m)
  BY DEF Delivering, Delivered
<1>8. Stuck => Delivering
  BY <1>1 DEF Stuck
<1>9. m.role = "user" => Delivered(m)
  BY DEF Delivered
<1>10. m.kind = "overflow" => IsAssistant(m) /\ StopError(m) /\ ~Delivered(m)
  BY <1>1 DEF Msg, IsAssistant, StopError, Delivered
<1>11. ~Delivered(m) =>
         /\ overflowRecoveryAttempted = TRUE => FullCount(entries) <= 1
         /\ overflowRecoveryAttempted = FALSE => FullCount(entries) = 0
  BY <1>1, <1>7, <1>8, <1>9 DEF OverInv
<1>. HIDE DEF m
<1>12. CASE Delivered(m) \/ (IsAssistant(m) /\ ~StopError(m))
  BY <1>6, <1>12, OverIsNext
<1>13. CASE m.kind = "overflow"
  <2>1. Ended' /\ Full(entries')
    BY <1>3, <1>5, <1>10, <1>13 DEF Ended, Full
  <2>2. Stuck'
    BY <2>1 DEF Stuck
  <2>3. /\ overflowRecoveryAttempted = TRUE => FullCount(entries') <= 2
        /\ overflowRecoveryAttempted = FALSE => FullCount(entries') <= 1
    BY <1>2, <1>6, <1>10, <1>11, <1>13
  <2>. QED
    BY <1>3, <1>13, <2>1, <2>2, <2>3 DEF OverInv
<1>14. CASE m.kind # "overflow" /\ ~Delivered(m) /\ (~IsAssistant(m) \/ StopError(m))
  <2>1. /\ overflowRecoveryAttempted = TRUE => FullCount(entries') <= 1
        /\ overflowRecoveryAttempted = FALSE => FullCount(entries') = 0
    BY <1>2, <1>6, <1>11, <1>14
  <2>. QED
    BY <1>4, <1>14, <2>1 DEF OverInv
<1>. QED
  BY <1>12, <1>13, <1>14

LEMMA OverDelivers ==
    ASSUME TypeInv, Quiet, Deliver, OverInv PROVE OverInv'
<1>1. /\ phase = "deliver" /\ pc = "run" /\ connected = TRUE /\ ~Ended
      /\ pending \in Held(Given) /\ pending # <<>>
  BY DEF Deliver, TypeInv, Places, WaitingTypes, Quiet, Ended
<1>2. Head(pending) \in Given /\ Said(Head(pending)).role = Head(pending).role
  BY <1>1, HeldIs, SaidIs
<1>3. entries' = entries /\ phase' = "writing" /\ writing' = <<Said(Head(pending))>>
  BY DEF Deliver, Finished
<1>4. FullCount(entries) <= 2 /\ FullCount(entries) \in Nat
  BY OverIs
<1>5. CASE Head(pending).role = "user"
  <2>1. overflowRecoveryAttempted' = FALSE
    BY <1>1, <1>5 DEF Deliver
  <2>. QED
    BY <1>2, <1>3, <1>4, <1>5, <2>1 DEF OverInv
<1>6. CASE Head(pending).role = "custom"
  <2>1. overflowRecoveryAttempted' = overflowRecoveryAttempted
    BY <1>6 DEF Deliver
  <2>2. Stuck => Stuck'
    BY <1>2, <1>3, <1>6 DEF Stuck, Full, Delivering
  <2>. QED
    BY <1>1, <1>3, <2>1, <2>2 DEF OverInv
<1>. QED
  BY <1>2, <1>5, <1>6 DEF Given

LEMMA OverNext ==
    ASSUME TypeInv, TypeInv', Quiet, Conversation, NewerInv, StageInv, [Next]_vars, OverInv
    PROVE  OverInv'
<1>1. /\ FullCount(entries) \in Nat /\ FullCount(entries') \in Nat
      /\ overflowRecoveryAttempted \in BOOLEAN /\ overflowRecoveryAttempted' \in BOOLEAN
  BY OverIs, OverIsNext
<1>2. /\ messages \in Seq(Msg)
      /\ phase # "idle" <=> pc = "run"
  BY DEF TypeInv, TextTypes, Places
<1>3. CASE HandlePostAgentRun
  BY <1>3, OverEnds
<1>4. CASE MessagePersisted
  BY <1>4, OverHeard
<1>5. CASE Deliver
  BY <1>5, OverDelivers
<1>6. ASSUME ~MessagePersisted PROVE FullCount(entries') <= FullCount(entries)
  <2>1. ~Hears
    BY <1>6, WritingNext DEF Hears
  <2>. QED
    BY <2>1, NextQuietText, CountNext
<1>7. CASE CheckBeforePrompt
  <2>1. /\ pc = "checking" /\ phase = "idle" /\ stage = "check" /\ ~Ended /\ ~Delivering
        /\ ~MessagePersisted
    BY <1>2, <1>7 DEF CheckBeforePrompt, StageInv, Ended, Delivering, MessagePersisted
  <2>. DEFINE i == SelectLastInSeq(messages, IsAssistant)
  <2>2. i = 0 => NothingToContinue /\ UNCHANGED overflowRecoveryAttempted
    BY <1>7 DEF CheckBeforePrompt
  <2>3. i # 0 => CheckCompaction(messages[i]) /\ LastAnswer(messages) = {messages[i]}
    BY <1>2, <1>7, AnswerIndex DEF CheckBeforePrompt
  <2>. HIDE DEF i
  <2>4. overflowRecoveryAttempted = TRUE => overflowRecoveryAttempted' = TRUE
    BY <2>2, <2>3, CheckIs
  <2>5. CASE overflowRecoveryAttempted = FALSE
    <3>1. FullCount(entries) = 0
      BY <2>1, <2>5 DEF OverInv
    <3>2. FullCount(entries') = 0
      BY <1>1, <1>6, <2>1, <3>1
    <3>. QED
      BY <3>2, OverIsNext
  <2>6. CASE overflowRecoveryAttempted = TRUE /\ FullCount(entries) <= 1
    <3>1. FullCount(entries') <= 1
      BY <1>1, <1>6, <2>1, <2>6
    <3>. QED
      BY <2>4, <2>6, <3>1 DEF OverInv
  <2>7. CASE overflowRecoveryAttempted = TRUE /\ FullCount(entries) <= 2 /\ Stuck
    <3>1. Full(messages) /\ Full(entries)
      BY <2>1, <2>7 DEF Stuck
    <3>2. NothingToContinue
      <4>1. i # 0 => messages[i].kind = "overflow"
        BY <2>3, <3>1 DEF Full
      <4>. QED
        BY <2>2, <2>3, <2>7, <4>1 DEF CheckCompaction, ContextOverflow
    <3>3. Stuck'
      BY <2>1, <3>1, <3>2, StuckGoesOn
    <3>4. FullCount(entries') <= 2
      BY <1>1, <1>6, <2>1, <2>7
    <3>. QED
      BY <2>4, <2>7, <3>3, <3>4 DEF OverInv
  <2>. QED
    BY <1>1, <2>5, <2>6, <2>7 DEF OverInv
<1>8. CASE Cancelled
  <2>1. phase = "idle" /\ pc = "cancelled" /\ ~Ended /\ ~Stuck /\ ~MessagePersisted
    BY <1>2, <1>8 DEF Cancelled, Ended, Stuck, Delivering, MessagePersisted
  <2>2. overflowRecoveryAttempted = TRUE => overflowRecoveryAttempted' = TRUE
    BY <1>8, CheckIs DEF Cancelled
  <2>3. FullCount(entries) <= 1 /\ (overflowRecoveryAttempted = FALSE => FullCount(entries) = 0)
    BY <1>1, <2>1 DEF OverInv
  <2>4. /\ FullCount(entries') <= 1
        /\ overflowRecoveryAttempted = FALSE => FullCount(entries') = 0
    BY <1>1, <1>6, <2>1, <2>3
  <2>. QED
    BY <1>1, <2>2, <2>4, OverIsNext DEF OverInv
<1>9. CASE /\ ~MessagePersisted /\ ~HandlePostAgentRun /\ ~Cancelled /\ ~CheckBeforePrompt
           /\ ~Deliver
  <2>1. overflowRecoveryAttempted' = overflowRecoveryAttempted
    BY <1>9, RecoveryKept
  <2>2. FullCount(entries') <= FullCount(entries)
    BY <1>6, <1>9
  <2>3. CASE overflowRecoveryAttempted = TRUE /\ FullCount(entries) <= 1
    <3>1. FullCount(entries') <= 1
      BY <1>1, <2>2, <2>3
    <3>. QED
      BY <2>1, <2>3, <3>1 DEF OverInv
  <2>4. CASE overflowRecoveryAttempted = TRUE /\ FullCount(entries) <= 2 /\ Stuck
    <3>1. FullCount(entries') <= 2
      BY <1>1, <2>2, <2>4
    <3>2. Stuck' \/ FullCount(entries') = 0
      BY <1>9, <2>4, StuckNext
    <3>. QED
      BY <2>1, <2>4, <3>1, <3>2, OverIsNext DEF OverInv
  <2>5. CASE FullCount(entries) = 0
    <3>1. FullCount(entries') = 0
      BY <1>1, <2>2, <2>5
    <3>. QED
      BY <3>1, OverIsNext
  <2>6. CASE overflowRecoveryAttempted = FALSE /\ FullCount(entries) <= 1 /\ Ended /\ Full(entries)
    <3>1. Ended' /\ entries' = entries
      BY <1>9, <2>6, EndedNext
    <3>. QED
      BY <2>1, <2>6, <3>1 DEF OverInv, Full
  <2>7. CASE /\ overflowRecoveryAttempted = FALSE /\ FullCount(entries) <= 2
             /\ phase = "writing" /\ writing[1].role = "user"
    <3>1. UNCHANGED <<phase, writing, entries>>
      BY <1>9, <2>7, WritingNext
    <3>. QED
      BY <2>1, <2>7, <3>1 DEF OverInv
  <2>. QED
    BY <1>1, <2>3, <2>4, <2>5, <2>6, <2>7 DEF OverInv
<1>. QED
  BY <1>3, <1>4, <1>5, <1>7, <1>8, <1>9

LEMMA CountNone == FailCount(<<>>, 0) = 0 /\ FullCount(<<>>) = 0
<1>1. Fails(<<>>, 0) = {} /\ Fulls(<<>>) = {}
  BY DEF Fails, Fulls
<1>. QED
  BY <1>1, FS_EmptySet DEF FailCount, FullCount

LEMMA BoundIs ==
    ASSUME TypeInv, FailInv, OverInv PROVE RetriesBounded
<1>1. FailCount(entries, cancelledAt) <= MaxRetries + 1
  BY FewIs DEF Few
<1>2. FullCount(entries) <= 2
  BY OverIs
<1>. QED
  BY <1>1, <1>2, CountsAre DEF RetriesBounded, FailCount, FullCount

-----------------------------------------------------------------------------
(* The invariants together, and what they say.                             *)

Consistent ==
    /\ TypeInv /\ Quiet /\ Conversation /\ HeadInv /\ KnownInv /\ ToolInv /\ QueueShown
    /\ NewerInv /\ StageInv /\ FailInv /\ OverInv

LEMMA InitConsistent == Init => Consistent
<1>. SUFFICES ASSUME Init PROVE Consistent
  OBVIOUS
<1>1. TypeInv /\ Quiet /\ Conversation /\ HeadInv /\ KnownInv
  BY InitTypes, InitQuiet, InitConversation, InitKnown
<1>2. ToolInv
  BY AdjacentNone DEF Init, ToolInv
<1>3. QueueShown
  BY InitQueues
<1>4. NewerInv /\ StageInv
  BY DEF Init, NewerInv, Answered, Ended, StageInv
<1>5. FailInv /\ OverInv
  BY CountNone DEF Init, FailInv, Few, OverInv
<1>. QED
  BY <1>1, <1>2, <1>3, <1>4, <1>5 DEF Consistent

LEMMA NextConsistent ==
    QuietCompact = TRUE => (Consistent /\ [Next]_vars => Consistent')
<1>. SUFFICES ASSUME QuietCompact = TRUE, Consistent, [Next]_vars PROVE Consistent'
  OBVIOUS
<1>1. TypeInv' /\ Quiet' /\ Conversation'
  BY NextTypes, NextQuiet, NextConversation DEF Consistent
<1>2. HeadInv' /\ KnownInv'
  BY <1>1, NextText, HeadNext, KnownNext DEF Consistent
<1>3. ToolInv'
  BY <1>1, <1>2, NextQuietText, NextTools, ToolNext DEF Consistent, Conversation
<1>4. QueueShown'
  BY QueueNext DEF Consistent
<1>5. NewerInv' /\ StageInv'
  BY NewerNext, StageNext DEF Consistent
<1>6. FailInv' /\ OverInv'
  BY <1>1, FailNext, OverNext DEF Consistent
<1>. QED
  BY <1>1, <1>2, <1>3, <1>4, <1>5, <1>6 DEF Consistent

LEMMA ConsistentSays ==
    Consistent =>
        /\ SessionIsContext /\ NothingForgotten /\ ToolResultsFollow /\ QueueShown
        /\ RetriesBounded
<1>. SUFFICES ASSUME Consistent
              PROVE  /\ SessionIsContext /\ NothingForgotten /\ ToolResultsFollow /\ QueueShown
                     /\ RetriesBounded
  OBVIOUS
<1>1. SessionIsContext /\ NothingForgotten /\ ToolResultsFollow
  BY ContextIsKept, NothingIsForgotten, ToolResultsDoFollow DEF Consistent, Conversation
<1>2. RetriesBounded
  BY BoundIs DEF Consistent
<1>. QED
  BY <1>1, <1>2 DEF Consistent

LEMMA AlwaysConsistent == QuietCompact = TRUE => (Spec => []Consistent)
<1>. SUFFICES ASSUME QuietCompact = TRUE PROVE Spec => []Consistent
  OBVIOUS
<1>1. Consistent /\ [Next]_vars => Consistent'
  BY NextConsistent
<1>. QED
  BY <1>1, InitConsistent, PTL DEF Spec

(* compact() of the session is only called while nothing runs, as the      *)
(* interactive mode calls it.  Then what a restart would rebuild from the  *)
(* session's entries is what the agent has in its messages, but for the    *)
(* answers that were taken back for a retry.                               *)
THEOREM ContextKept == QuietCompact = TRUE => (Spec => []SessionIsContext)
<1>. SUFFICES ASSUME QuietCompact = TRUE PROVE Spec => []SessionIsContext
  OBVIOUS
<1>1. Spec => []Consistent
  BY AlwaysConsistent
<1>2. Consistent => SessionIsContext
  BY ConsistentSays
<1>. QED
  BY <1>1, <1>2, PTL

(* Then each entry is in the agent's messages, was taken back for a retry, *)
(* or is covered by the summary they begin with, through any number of     *)
(* compactions - unless a compaction covered it and a later one that split *)
(* a turn said "No prior history."  That is the only way to forget.  And   *)
(* no command's result waits when the prompt is over.                      *)
THEOREM EverythingRemembered == QuietCompact = TRUE => (Spec => []NothingForgotten)
<1>. SUFFICES ASSUME QuietCompact = TRUE PROVE Spec => []NothingForgotten
  OBVIOUS
<1>1. Spec => []Consistent
  BY AlwaysConsistent
<1>2. Consistent => NothingForgotten
  BY ConsistentSays
<1>. QED
  BY <1>1, <1>2, PTL

(* Then a tool call is followed by its result and by nothing else, in the  *)
(* agent's messages and in those a restart would rebuild, whatever the     *)
(* user runs, queues or compacts meanwhile.                                *)
THEOREM ToolsAnswered == QuietCompact = TRUE => (Spec => []ToolResultsFollow)
<1>. SUFFICES ASSUME QuietCompact = TRUE PROVE Spec => []ToolResultsFollow
  OBVIOUS
<1>1. Spec => []Consistent
  BY AlwaysConsistent
<1>2. Consistent => ToolResultsFollow
  BY ConsistentSays
<1>. QED
  BY <1>1, <1>2, PTL

(* Then the lists that _handleAgentEvent and clearQueue() show have each   *)
(* text as often as it waits, although they are matched by text: never     *)
(* more often, nor more often as steering than is queued so, and less only *)
(* while a message of that text that was not shown is or was on its way.   *)
(* Messages of images only are shown at least as long as they are queued.  *)
THEOREM QueueAlwaysShown == QuietCompact = TRUE => (Spec => []QueueShown)
<1>. SUFFICES ASSUME QuietCompact = TRUE PROVE Spec => []QueueShown
  OBVIOUS
<1>1. Spec => []Consistent
  BY AlwaysConsistent
<1>2. Consistent => QueueShown
  BY ConsistentSays
<1>. QED
  BY <1>1, <1>2, PTL

(* Then, with no message delivered or recorded and no other answer in      *)
(* between, a request fails at most once more than it may be retried, and  *)
(* overflows at most once after _checkCompaction has recovered from an     *)
(* overflow: the two loops of _runAgentPrompt end.                         *)
THEOREM RetriesEnd == QuietCompact = TRUE => (Spec => []RetriesBounded)
<1>. SUFFICES ASSUME QuietCompact = TRUE PROVE Spec => []RetriesBounded
  OBVIOUS
<1>1. Spec => []Consistent
  BY AlwaysConsistent
<1>2. Consistent => RetriesBounded
  BY ConsistentSays
<1>. QED
  BY <1>1, <1>2, PTL

=============================================================================
