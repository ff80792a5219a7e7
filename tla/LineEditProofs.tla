--------------------------- MODULE LineEditProofs ---------------------------
(***************************************************************************)
(* Proofs about LineEdit for every terminal width, every length of lines   *)
(* and of the history, and every set of characters and completions: the    *)
(* indices stay inside their arrays, an input leaves the history as it was *)
(* with the line behind it, and the line entered last survives.            *)
(***************************************************************************)
EXTENDS LineEdit, SequenceTheorems, WellFoundedInduction, TLAPS

-----------------------------------------------------------------------------
(* Induction over the natural numbers, with a set for the predicate. *)

LEMMA Order ==
  \E R : IsWellFoundedOn(R, Nat) /\ \A x, y \in Nat : x < y => <<x, y>> \in R
  <1>1. \A x, y \in Nat : x < y => <<x, y>> \in OpToRel(<, Nat)
    BY Zenon DEF OpToRel
  <1>. QED BY <1>1, NatLessThanWellFounded, Zenon

LEMMA LeastElement ==
  ASSUME NEW T, T \subseteq Nat, T # {}
  PROVE  \E x \in T : \A y \in T : x <= y
  <1>1. PICK R : IsWellFoundedOn(R, Nat) /\ \A x, y \in Nat : x < y => <<x, y>> \in R
    BY Order
  <1>2. PICK x \in T : \A y \in T : ~(<<y, x>> \in R)
    <2>1. IsWellFoundedOn(R, Nat)
      BY <1>1
    <2>. QED BY <2>1, WFMin
  <1>3. ASSUME NEW y \in T PROVE ~(y < x)
    BY <1>1, <1>2
  <1>. QED BY <1>3

LEMMA Induction ==
  ASSUME NEW n \in Nat, NEW S, 0 \in S, \A k \in 0 .. n - 1 : k \in S => k + 1 \in S
  PROVE  0 .. n \subseteq S
  <1>. DEFINE T == (0 .. n) \ S
  <1>. SUFFICES ASSUME T # {} PROVE FALSE
    OBVIOUS
  <1>1. PICK x \in T : \A y \in T : x <= y
    <2>1. T \subseteq Nat
      OBVIOUS
    <2>. QED BY <2>1, LeastElement, Zenon
  <1>2. x - 1 \in 0 .. n - 1 /\ x - 1 \notin T /\ x = (x - 1) + 1
    BY <1>1
  <1>. QED BY <1>1, <1>2

-----------------------------------------------------------------------------
(* Sequences *)

LEMMA LastOfAppend ==
  ASSUME NEW S, NEW s \in Seq(S), NEW x \in S
  PROVE  /\ Append(s, x) \in Seq(S) /\ Len(Append(s, x)) = Len(s) + 1 /\ Append(s, x) # <<>>
         /\ Last(Append(s, x)) = x /\ Front(Append(s, x)) = s
  <1>1. /\ Append(s, x) \in Seq(S) /\ Len(Append(s, x)) = Len(s) + 1
        /\ Append(s, x)[Len(s) + 1] = x
    BY AppendProperties
  <1>2. Front(Append(s, x)) = s
    <2>1. Len(Append(s, x)) - 1 = Len(s) /\ Len(s) \in Nat
      BY <1>1, LenProperties
    <2>2. SubSeq(Append(s, x), 1, Len(s)) = s
      BY <1>1, <2>1, AppendProperties, SubSeqProperties, SeqEqual, LenProperties
    <2>. QED BY <2>1, <2>2 DEF Front
  <1>. QED BY <1>1, <1>2, LenProperties, AppendProperties DEF Last

LEMMA FrontIs ==
  ASSUME NEW S, NEW s \in Seq(S), s # <<>>
  PROVE  Front(s) \in Seq(S) /\ Len(Front(s)) = Len(s) - 1 /\ Last(s) \in S
  <1>1. Len(s) \in Nat \ {0}
    BY LenProperties, EmptySeq
  <1>2. Last(s) \in S
    BY <1>1, ElementOfSeq DEF Last
  <1>3. SubSeq(s, 1, Len(s) - 1) \in Seq(S) /\ Len(SubSeq(s, 1, Len(s) - 1)) = Len(s) - 1
    <2>1. PICK n \in Nat : n = Len(s) - 1
      BY <1>1
    <2>2. \A i \in 1 .. n : s[i] \in S
      BY <1>1, <2>1, ElementOfSeq
    <2>3. SubSeq(s, 1, n) \in Seq(S) /\ Len(SubSeq(s, 1, n)) = IF 1 <= n THEN n - 1 + 1 ELSE 0
      BY <2>2, SubSeqProperties, n \in Int, 1 \in Int
    <2>. QED BY <2>1, <2>3
  <1>. QED BY <1>2, <1>3 DEF Front

LEMMA CutIs ==
  ASSUME NEW S, NEW s \in Seq(S), NEW m \in Nat \ {0}, NEW n \in Nat, n <= Len(s)
  PROVE  /\ SubSeq(s, m, n) \in Seq(S) /\ Len(SubSeq(s, m, n)) = IF m <= n THEN n - m + 1 ELSE 0
         /\ Len(SubSeq(s, m, n)) <= n
         /\ \A i \in 1 .. n - m + 1 : SubSeq(s, m, n)[i] = s[m + i - 1]
  <1>1. \A i \in m .. n : s[i] \in S
    BY LenProperties, ElementOfSeq
  <1>2. /\ SubSeq(s, m, n) \in Seq(S) /\ Len(SubSeq(s, m, n)) = IF m <= n THEN n - m + 1 ELSE 0
        /\ \A i \in 1 .. n - m + 1 : SubSeq(s, m, n)[i] = s[m + i - 1]
    BY <1>1, SubSeqProperties, n \in Int, m \in Int
  <1>. QED BY <1>2

LEMMA PrefixGrows ==
  ASSUME NEW S, NEW s \in Seq(S), NEW k \in Nat, k + 1 <= Len(s)
  PROVE  Len(SubSeq(s, 1, k)) = k /\ Append(SubSeq(s, 1, k), s[k + 1]) = SubSeq(s, 1, k + 1)
  <1>1. Len(s) \in Nat /\ 1 \in Nat \ {0} /\ k <= Len(s) /\ k + 1 \in Nat
    BY LenProperties
  <1>2. PICK a : a = SubSeq(s, 1, k)
    OBVIOUS
  <1>3. a \in Seq(S) /\ Len(a) = k /\ \A i \in 1 .. k : a[i] = s[i]
    BY <1>1, <1>2, CutIs
  <1>4. PICK b : b = SubSeq(s, 1, k + 1)
    OBVIOUS
  <1>5. b \in Seq(S) /\ Len(b) = k + 1 /\ \A i \in 1 .. k + 1 : b[i] = s[i]
    BY <1>1, <1>4, CutIs
  <1>6. s[k + 1] \in S
    BY <1>1, ElementOfSeq
  <1>7. PICK c : c = Append(a, s[k + 1])
    OBVIOUS
  <1>8. /\ c \in Seq(S) /\ Len(c) = k + 1 /\ c[k + 1] = s[k + 1]
        /\ \A i \in 1 .. k : c[i] = a[i]
    BY <1>3, <1>6, <1>7, AppendProperties
  <1>9. \A i \in 1 .. k + 1 : c[i] = b[i]
    BY <1>3, <1>5, <1>8
  <1>10. c = b
    BY <1>5, <1>8, <1>9, SeqEqual
  <1>. QED BY <1>2, <1>3, <1>4, <1>7, <1>10

-----------------------------------------------------------------------------
(* The history *)

LEMMA EmptyText == <<>> \in Seq(Text) /\ <<>> \in Text
  BY EmptySeq DEF Text

(* A history of at most max lines. *)
IsHistory(h, max) == h \in Seq(Text) /\ Len(h) <= max

LEMMA HistoryAddIs ==
  ASSUME NEW max \in Nat \ {0}, NEW h, IsHistory(h, max), NEW l \in Text
  PROVE  /\ IsHistory(HistoryAdd(h, max, l), max)
         /\ HistoryAdd(h, max, l) # <<>> /\ Last(HistoryAdd(h, max, l)) = l
  <1>1. h \in Seq(Text) /\ Len(h) \in Nat /\ Len(h) <= max
    BY LenProperties DEF IsHistory
  <1>2. CASE h # <<>> /\ Last(h) = l
    BY <1>1, <1>2 DEF HistoryAdd, IsHistory
  <1>3. CASE ~(h # <<>> /\ Last(h) = l) /\ Len(h) = max
    <2>1. h # <<>>
      BY <1>1, <1>3, EmptySeq
    <2>2. Tail(h) \in Seq(Text) /\ Len(Tail(h)) = Len(h) - 1
      BY <1>1, <2>1, HeadTailProperties
    <2>3. HistoryAdd(h, max, l) = Append(Tail(h), l)
      BY <1>3 DEF HistoryAdd
    <2>4. PICK t \in Seq(Text) : t = Tail(h) /\ Len(t) + 1 = max
      <3>1. PICK t : t = Tail(h)
        OBVIOUS
      <3>2. t \in Seq(Text) /\ Len(t) = Len(h) - 1
        BY <2>2, <3>1, Zenon
      <3>. QED BY <1>1, <1>3, <3>1, <3>2
    <2>5. /\ Append(t, l) \in Seq(Text) /\ Len(Append(t, l)) = Len(t) + 1
          /\ Append(t, l) # <<>> /\ Last(Append(t, l)) = l
      BY LastOfAppend
    <2>. QED BY <2>3, <2>4, <2>5 DEF IsHistory
  <1>4. CASE ~(h # <<>> /\ Last(h) = l) /\ Len(h) # max
    <2>1. HistoryAdd(h, max, l) = Append(h, l)
      BY <1>4 DEF HistoryAdd
    <2>. QED BY <1>1, <1>4, <2>1, LastOfAppend DEF IsHistory
  <1>. QED BY <1>2, <1>3, <1>4

LEMMA HistorySetMaxLenIs ==
  ASSUME NEW max \in Nat \ {0}, NEW h, IsHistory(h, max), NEW len \in Int
  PROVE  LET set == HistorySetMaxLen(h, max, len)
         IN  set.max \in Nat \ {0} /\ IsHistory(set.history, set.max)
  <1>1. h \in Seq(Text) /\ Len(h) \in Nat /\ Len(h) <= max
    BY LenProperties DEF IsHistory
  <1>2. CASE len < 1
    BY <1>2 DEF HistorySetMaxLen
  <1>3. CASE len >= 1 /\ len < Len(h)
    <2>2. PICK n \in Nat : n = Len(h) /\ len < n
      BY <1>1, <1>3
    <2>1. PICK m \in Nat \ {0} : m = n - len + 1 /\ m <= n
      <3>1. n - len + 1 \in Nat \ {0} /\ n - len + 1 <= n
        BY <1>3, <2>2
      <3>. QED BY <3>1
    <2>3. SubSeq(h, m, n) \in Seq(Text) /\ Len(SubSeq(h, m, n)) = n - m + 1
      BY <1>1, <2>1, <2>2, CutIs
    <2>4. HistorySetMaxLen(h, max, len) = [history |-> SubSeq(h, m, n), max |-> len]
      BY <1>3, <2>1, <2>2 DEF HistorySetMaxLen
    <2>. QED BY <1>1, <1>3, <2>1, <2>2, <2>3, <2>4 DEF IsHistory
  <1>4. CASE len >= 1 /\ ~(len < Len(h))
    BY <1>1, <1>4 DEF HistorySetMaxLen, IsHistory
  <1>. QED BY <1>2, <1>3, <1>4

(* The loops of the load are well defined: each step is made from the one
   before it. *)
LEMMA FgetsLoop ==
  ASSUME NEW t, Len(t) \in Nat
  PROVE  \E r : /\ r[0] = [parts |-> <<>>, open |-> <<>>]
                /\ \A i \in 1 .. Len(t) : r[i] = FgetsChar(r[i - 1], t[i])
                /\ Fgets(t) = r[Len(t)]
  <1>. DEFINE F(r, k) == [i \in 0 .. k |-> IF i = 0 THEN [parts |-> <<>>, open |-> <<>>] ELSE FgetsChar(r[i - 1], t[i])]
              S == {k \in Nat : \E r : r = F(r, k)}
  <1>1. Len(t) \in Nat
    OBVIOUS
  <1>2. 0 \in S
    <2>1. [i \in 0 .. 0 |-> [parts |-> <<>>, open |-> <<>>]] = F([i \in 0 .. 0 |-> [parts |-> <<>>, open |-> <<>>]], 0)
      OBVIOUS
    <2>. QED BY <2>1
  <1>3. ASSUME NEW k \in 0 .. Len(t) - 1, k \in S PROVE k + 1 \in S
    <2>1. PICK r : r = F(r, k)
      BY <1>3
    <2>. DEFINE q == [i \in 0 .. k + 1 |-> IF i = k + 1 THEN FgetsChar(r[k], t[k + 1]) ELSE r[i]]
    <2>2. q = F(q, k + 1)
      <3>1. k \in Nat
        OBVIOUS
      <3>2. ASSUME NEW i \in 0 .. k + 1
            PROVE  q[i] = IF i = 0 THEN [parts |-> <<>>, open |-> <<>>] ELSE FgetsChar(q[i - 1], t[i])
        <4>1. CASE i = k + 1
          BY <3>1, <4>1
        <4>2. CASE i # k + 1
          <5>1. r[i] = IF i = 0 THEN [parts |-> <<>>, open |-> <<>>] ELSE FgetsChar(r[i - 1], t[i])
            BY <2>1, <3>1, <4>2
          <5>2. q[i] = r[i] /\ (i # 0 => q[i - 1] = r[i - 1])
            BY <3>1, <4>2
          <5>. QED BY <5>1, <5>2
        <4>. QED BY <4>1, <4>2
      <3>. QED BY <3>2
    <2>3. \E p : p = F(p, k + 1)
      BY <2>2, Zenon
    <2>4. k + 1 \in Nat
      OBVIOUS
    <2>. HIDE DEF F
    <2>. QED BY <2>3, <2>4
  <1>4. PICK r : r = F(r, Len(t))
    <2>. HIDE DEF S
    <2>1. PICK n \in Nat : n = Len(t)
      BY <1>1
    <2>2. \A k \in 0 .. n - 1 : k \in S => k + 1 \in S
      BY <1>3, <2>1
    <2>3. 0 .. n \subseteq S
      BY <1>2, <2>2, Induction
    <2>4. n \in S
      BY <2>3
    <2>. QED BY <2>1, <2>4 DEF S
  <1>5. (CHOOSE q : q = F(q, Len(t))) = F(CHOOSE q : q = F(q, Len(t)), Len(t))
    BY <1>4, Zenon
  <1>6. Fgets(t) = (CHOOSE q : q = F(q, Len(t)))[Len(t)]
    BY Zenon DEF Fgets
  <1>7. PICK q : q = F(q, Len(t)) /\ Fgets(t) = q[Len(t)]
    BY <1>5, <1>6, Zenon
  <1>8. \A i \in 0 .. Len(t) : q[i] = IF i = 0 THEN [parts |-> <<>>, open |-> <<>>] ELSE FgetsChar(q[i - 1], t[i])
    BY <1>7
  <1>9. q[0] = [parts |-> <<>>, open |-> <<>>] /\ \A i \in 1 .. Len(t) : q[i] = FgetsChar(q[i - 1], t[i])
    <2>. HIDE DEF F
    <2>. QED BY <1>1, <1>8
  <1>. QED BY <1>7, <1>9, Zenon

LEMMA PartsLoop ==
  ASSUME NEW h, NEW max, NEW p, Len(p) \in Nat
  PROVE  \E r : /\ r[0] = h
                /\ \A i \in 1 .. Len(p) : r[i] = HistoryAdd(r[i - 1], max, UpToReturn(p[i]))
                /\ HistoryLoadParts(h, max, p) = r[Len(p)]
  <1>. DEFINE F(r, k) == [i \in 0 .. k |-> IF i = 0 THEN h ELSE HistoryAdd(r[i - 1], max, UpToReturn(p[i]))]
              S == {k \in Nat : \E r : r = F(r, k)}
  <1>1. Len(p) \in Nat
    OBVIOUS
  <1>2. 0 \in S
    <2>1. [i \in 0 .. 0 |-> h] = F([i \in 0 .. 0 |-> h], 0)
      OBVIOUS
    <2>. QED BY <2>1
  <1>3. ASSUME NEW k \in 0 .. Len(p) - 1, k \in S PROVE k + 1 \in S
    <2>1. PICK r : r = F(r, k)
      BY <1>3
    <2>. DEFINE q == [i \in 0 .. k + 1 |-> IF i = k + 1 THEN HistoryAdd(r[k], max, UpToReturn(p[k + 1])) ELSE r[i]]
    <2>2. q = F(q, k + 1)
      <3>1. k \in Nat
        OBVIOUS
      <3>2. ASSUME NEW i \in 0 .. k + 1
            PROVE  q[i] = IF i = 0 THEN h ELSE HistoryAdd(q[i - 1], max, UpToReturn(p[i]))
        <4>1. CASE i = k + 1
          BY <3>1, <4>1
        <4>2. CASE i # k + 1
          <5>1. r[i] = IF i = 0 THEN h ELSE HistoryAdd(r[i - 1], max, UpToReturn(p[i]))
            BY <2>1, <3>1, <4>2
          <5>2. q[i] = r[i] /\ (i # 0 => q[i - 1] = r[i - 1])
            BY <3>1, <4>2
          <5>. QED BY <5>1, <5>2
        <4>. QED BY <4>1, <4>2
      <3>. QED BY <3>2
    <2>3. \E x : x = F(x, k + 1)
      BY <2>2, Zenon
    <2>4. k + 1 \in Nat
      OBVIOUS
    <2>. HIDE DEF F
    <2>. QED BY <2>3, <2>4
  <1>4. PICK r : r = F(r, Len(p))
    <2>. HIDE DEF S
    <2>1. PICK n \in Nat : n = Len(p)
      BY <1>1
    <2>2. \A k \in 0 .. n - 1 : k \in S => k + 1 \in S
      BY <1>3, <2>1
    <2>3. 0 .. n \subseteq S
      BY <1>2, <2>2, Induction
    <2>4. n \in S
      BY <2>3
    <2>. QED BY <2>1, <2>4 DEF S
  <1>5. (CHOOSE q : q = F(q, Len(p))) = F(CHOOSE q : q = F(q, Len(p)), Len(p))
    BY <1>4, Zenon
  <1>6. HistoryLoadParts(h, max, p) = (CHOOSE q : q = F(q, Len(p)))[Len(p)]
    BY Zenon DEF HistoryLoadParts
  <1>7. PICK q : q = F(q, Len(p)) /\ HistoryLoadParts(h, max, p) = q[Len(p)]
    BY <1>5, <1>6, Zenon
  <1>8. \A i \in 0 .. Len(p) : q[i] = IF i = 0 THEN h ELSE HistoryAdd(q[i - 1], max, UpToReturn(p[i]))
    BY <1>7
  <1>9. q[0] = h /\ \A i \in 1 .. Len(p) : q[i] = HistoryAdd(q[i - 1], max, UpToReturn(p[i]))
    <2>. HIDE DEF F
    <2>. QED BY <1>1, <1>8
  <1>. QED BY <1>7, <1>9, Zenon

LEMMA LinesLoop ==
  ASSUME NEW h, NEW max, NEW f, Len(f) \in Nat
  PROVE  \E r : /\ r[0] = h
                /\ \A i \in 1 .. Len(f) : r[i] = HistoryLoadParts(r[i - 1], max, LineParts(f[i]))
                /\ HistoryLoadLines(h, max, f) = r[Len(f)]
  <1>. DEFINE F(r, k) == [i \in 0 .. k |-> IF i = 0 THEN h ELSE HistoryLoadParts(r[i - 1], max, LineParts(f[i]))]
              S == {k \in Nat : \E r : r = F(r, k)}
  <1>1. Len(f) \in Nat
    OBVIOUS
  <1>2. 0 \in S
    <2>1. [i \in 0 .. 0 |-> h] = F([i \in 0 .. 0 |-> h], 0)
      OBVIOUS
    <2>. QED BY <2>1
  <1>3. ASSUME NEW k \in 0 .. Len(f) - 1, k \in S PROVE k + 1 \in S
    <2>1. PICK r : r = F(r, k)
      BY <1>3
    <2>. DEFINE q == [i \in 0 .. k + 1 |-> IF i = k + 1 THEN HistoryLoadParts(r[k], max, LineParts(f[k + 1])) ELSE r[i]]
    <2>2. q = F(q, k + 1)
      <3>1. k \in Nat
        OBVIOUS
      <3>2. ASSUME NEW i \in 0 .. k + 1
            PROVE  q[i] = IF i = 0 THEN h ELSE HistoryLoadParts(q[i - 1], max, LineParts(f[i]))
        <4>1. CASE i = k + 1
          BY <3>1, <4>1
        <4>2. CASE i # k + 1
          <5>1. r[i] = IF i = 0 THEN h ELSE HistoryLoadParts(r[i - 1], max, LineParts(f[i]))
            BY <2>1, <3>1, <4>2
          <5>2. q[i] = r[i] /\ (i # 0 => q[i - 1] = r[i - 1])
            BY <3>1, <4>2
          <5>. QED BY <5>1, <5>2
        <4>. QED BY <4>1, <4>2
      <3>. QED BY <3>2
    <2>3. \E p : p = F(p, k + 1)
      BY <2>2, Zenon
    <2>4. k + 1 \in Nat
      OBVIOUS
    <2>. HIDE DEF F
    <2>. QED BY <2>3, <2>4
  <1>4. PICK r : r = F(r, Len(f))
    <2>. HIDE DEF S
    <2>1. PICK n \in Nat : n = Len(f)
      BY <1>1
    <2>2. \A k \in 0 .. n - 1 : k \in S => k + 1 \in S
      BY <1>3, <2>1
    <2>3. 0 .. n \subseteq S
      BY <1>2, <2>2, Induction
    <2>4. n \in S
      BY <2>3
    <2>. QED BY <2>1, <2>4 DEF S
  <1>5. (CHOOSE q : q = F(q, Len(f))) = F(CHOOSE q : q = F(q, Len(f)), Len(f))
    BY <1>4, Zenon
  <1>6. HistoryLoadLines(h, max, f) = (CHOOSE q : q = F(q, Len(f)))[Len(f)]
    BY Zenon DEF HistoryLoadLines
  <1>7. PICK q : q = F(q, Len(f)) /\ HistoryLoadLines(h, max, f) = q[Len(f)]
    BY <1>5, <1>6, Zenon
  <1>8. \A i \in 0 .. Len(f) : q[i] = IF i = 0 THEN h ELSE HistoryLoadParts(q[i - 1], max, LineParts(f[i]))
    BY <1>7
  <1>9. q[0] = h /\ \A i \in 1 .. Len(f) : q[i] = HistoryLoadParts(q[i - 1], max, LineParts(f[i]))
    <2>. HIDE DEF F
    <2>. QED BY <1>1, <1>8
  <1>. QED BY <1>7, <1>9, Zenon

(* What one character adds to what was read. *)
LEMMA FgetsCharIs ==
  ASSUME NEW r, NEW c \in Characters, r.parts \in Seq(Text), r.open \in Text
  PROVE  /\ FgetsChar(r, c).parts \in Seq(Text) /\ FgetsChar(r, c).open \in Text
         /\ c # LF => IF Len(r.open) + 2 = LINENOISE_MAX_LINE
                      THEN /\ FgetsChar(r, c).parts = Append(r.parts, Append(r.open, c))
                           /\ FgetsChar(r, c).open = <<>>
                      ELSE /\ FgetsChar(r, c).parts = r.parts
                           /\ FgetsChar(r, c).open = Append(r.open, c)
  <1>1. Append(r.open, c) \in Text /\ <<>> \in Text
    BY AppendProperties DEF Text
  <1>2. Append(r.parts, r.open) \in Seq(Text) /\ Append(r.parts, Append(r.open, c)) \in Seq(Text)
    BY <1>1, AppendProperties
  <1>. QED BY <1>1, <1>2 DEF FgetsChar

LEMMA FgetsIs ==
  ASSUME NEW t \in Text
  PROVE  /\ Fgets(t).parts \in Seq(Text) /\ Fgets(t).open \in Text
         /\ OneLine(t) => IF Len(t) < LINENOISE_MAX_LINE - 1
                          THEN Fgets(t).parts = <<>> /\ Fgets(t).open = t
                          ELSE Fgets(t).parts = <<t>> /\ Fgets(t).open = <<>>
  <1>1. PICK n \in Nat : n = Len(t)
    BY LenProperties DEF Text
  <1>2. PICK r : /\ r[0] = [parts |-> <<>>, open |-> <<>>]
                 /\ \A i \in 1 .. n : r[i] = FgetsChar(r[i - 1], t[i])
                 /\ Fgets(t) = r[n]
    BY <1>1, FgetsLoop
  <1>3. \A i \in 1 .. n : t[i] \in Characters
    BY <1>1, ElementOfSeq DEF Text
  <1>4. \A i \in 0 .. n : r[i].parts \in Seq(Text) /\ r[i].open \in Text
    <2>. DEFINE S == {i \in 0 .. n : r[i].parts \in Seq(Text) /\ r[i].open \in Text}
    <2>1. 0 \in S
      <3>1. r[0].parts = <<>> /\ r[0].open = <<>>
        BY <1>2
      <3>2. r[0].parts \in Seq(Text) /\ r[0].open \in Text
        BY <3>1, EmptyText, Zenon
      <3>. QED BY <3>2
    <2>2. ASSUME NEW k \in 0 .. n - 1, k \in S PROVE k + 1 \in S
      <3>1. r[k + 1] = FgetsChar(r[k], t[k + 1]) /\ t[k + 1] \in Characters
        BY <1>2, <1>3
      <3>2. r[k].parts \in Seq(Text) /\ r[k].open \in Text
        BY <2>2
      <3>3. r[k + 1].parts \in Seq(Text) /\ r[k + 1].open \in Text
        BY <3>1, <3>2, FgetsCharIs
      <3>. QED BY <3>3
    <2>3. 0 .. n \subseteq S
      <3>. HIDE DEF S
      <3>. QED BY <2>1, <2>2, Induction
    <2>. QED BY <2>3
  <1>5. ASSUME OneLine(t)
        PROVE  IF n < LINENOISE_MAX_LINE - 1
               THEN r[n].parts = <<>> /\ r[n].open = t
               ELSE r[n].parts = <<t>> /\ r[n].open = <<>>
    <2>1. n < LINENOISE_MAX_LINE /\ \A i \in 1 .. n : t[i] # LF
      BY <1>1, <1>5, LenProperties DEF OneLine, Text
    <2>2. PICK m \in Nat : LINENOISE_MAX_LINE = m + 2 /\ m > 0
      <3>1. LINENOISE_MAX_LINE - 2 \in Nat /\ LINENOISE_MAX_LINE - 2 > 0
            /\ LINENOISE_MAX_LINE = (LINENOISE_MAX_LINE - 2) + 2
        BY MaxLineAssumption
      <3>. QED BY <3>1
    <2>. DEFINE Read(i) == /\ i <= m => r[i].parts = <<>> /\ r[i].open = SubSeq(t, 1, i)
                           /\ i > m => r[i].parts = <<SubSeq(t, 1, i)>> /\ r[i].open = <<>>
                S == {i \in 0 .. n : Read(i)}
    <2>3. 0 \in S
      <3>1. SubSeq(t, 1, 0) = <<>>
        BY SubSeqEmpty, 0 \in Int, 1 \in Int
      <3>2. r[0].parts = <<>> /\ r[0].open = SubSeq(t, 1, 0)
        BY <1>2, <3>1
      <3>. QED BY <2>2, <3>2
    <2>4. ASSUME NEW k \in 0 .. n - 1, k \in S PROVE k + 1 \in S
      <3>1. k <= m /\ k + 1 \in 1 .. n /\ k \in Nat
        BY <2>1, <2>2
      <3>2. r[k].parts = <<>> /\ r[k].open = SubSeq(t, 1, k)
        BY <2>4, <3>1
      <3>3. r[k + 1] = FgetsChar(r[k], t[k + 1]) /\ t[k + 1] \in Characters /\ t[k + 1] # LF
        BY <1>2, <1>3, <2>1, <3>1
      <3>4. Len(SubSeq(t, 1, k)) = k /\ Append(SubSeq(t, 1, k), t[k + 1]) = SubSeq(t, 1, k + 1)
        <4>1. t \in Seq(Characters) /\ k + 1 <= Len(t) /\ k <= Len(t)
          BY <1>1, <3>1 DEF Text
        <4>. QED BY <3>1, <4>1, PrefixGrows
      <3>5. r[k].parts \in Seq(Text) /\ r[k].open \in Text
        BY <1>4
      <3>6. IF k + 2 = m + 2
            THEN r[k + 1].parts = Append(<<>>, SubSeq(t, 1, k + 1)) /\ r[k + 1].open = <<>>
            ELSE r[k + 1].parts = <<>> /\ r[k + 1].open = SubSeq(t, 1, k + 1)
        <4>1. PICK q : q = r[k]
          OBVIOUS
        <4>2. PICK c \in Characters : c = t[k + 1]
          BY <3>3
        <4>3. IF Len(q.open) + 2 = LINENOISE_MAX_LINE
              THEN /\ FgetsChar(q, c).parts = Append(q.parts, Append(q.open, c))
                   /\ FgetsChar(q, c).open = <<>>
              ELSE /\ FgetsChar(q, c).parts = q.parts
                   /\ FgetsChar(q, c).open = Append(q.open, c)
          <5>1. q.parts \in Seq(Text) /\ q.open \in Text /\ c # LF
            BY <3>3, <3>5, <4>1, <4>2
          <5>. QED BY <5>1, FgetsCharIs
        <4>4. q.parts = <<>> /\ q.open = SubSeq(t, 1, k) /\ r[k + 1] = FgetsChar(q, c)
          BY <3>2, <3>3, <4>1, <4>2
        <4>5. Len(q.open) = k /\ Append(q.open, c) = SubSeq(t, 1, k + 1)
          BY <3>4, <4>2, <4>4
        <4>. QED BY <2>2, <4>3, <4>4, <4>5
      <3>7. Append(<<>>, SubSeq(t, 1, k + 1)) = <<SubSeq(t, 1, k + 1)>>
        OBVIOUS
      <3>8. Read(k + 1)
        BY <3>1, <3>6, <3>7
      <3>. QED BY <3>1, <3>8
    <2>5. 0 .. n \subseteq S
      <3>. HIDE DEF S
      <3>. QED BY <2>3, <2>4, Induction
    <2>6. Read(n)
      BY <2>5
    <2>7. SubSeq(t, 1, n) = t
      BY <1>1, SubSeqFull DEF Text
    <2>. QED BY <2>1, <2>2, <2>6, <2>7
  <1>. QED BY <1>1, <1>2, <1>4, <1>5

(* What is read of a line with its end, and of the text behind the last end. *)
LEMMA PartsAre ==
  ASSUME NEW t \in Text
  PROVE  /\ LineParts(t) \in Seq(Text) /\ LineParts(t) # <<>> /\ CutParts(t) \in Seq(Text)
         /\ OneLine(t) => LineParts(t) = IF Len(t) < LINENOISE_MAX_LINE - 1 THEN <<t>> ELSE <<t, <<>>>>
  <1>1. Fgets(t).parts \in Seq(Text) /\ Fgets(t).open \in Text
    BY FgetsIs
  <1>2. LineParts(t) \in Seq(Text) /\ LineParts(t) # <<>>
    BY <1>1, LastOfAppend DEF LineParts
  <1>3. CutParts(t) \in Seq(Text)
    BY <1>1, <1>2 DEF CutParts
  <1>4. ASSUME OneLine(t)
        PROVE  LineParts(t) = IF Len(t) < LINENOISE_MAX_LINE - 1 THEN <<t>> ELSE <<t, <<>>>>
    <2>1. Append(<<>>, t) = <<t>> /\ Append(<<t>>, <<>>) = <<t, <<>>>>
      <3>1. PICK e \in Text : e = <<>>
        BY EmptyText
      <3>2. ASSUME NEW x \in Text, NEW y \in Text PROVE Append(<<x>>, y) = <<x, y>>
        <4>1. PICK s : s = <<x>> /\ s \in Seq(Text) /\ Len(s) = 1 /\ s[1] = x
          <5>1. <<x>> \in Seq(Text) /\ Len(<<x>>) = 1 /\ <<x>>[1] = x
            OBVIOUS
          <5>. QED BY <5>1, Zenon
        <4>2. PICK a : a = Append(s, y)
          OBVIOUS
        <4>3. a \in Seq(Text) /\ Len(a) = 2 /\ a[1] = x /\ a[2] = y
          BY <4>1, <4>2, AppendProperties
        <4>4. a = [i \in 1 .. 2 |-> a[i]]
          BY <4>3
        <4>5. a = [i \in 1 .. 2 |-> IF i = 1 THEN x ELSE y]
          BY <4>3, <4>4
        <4>6. a = <<x, y>>
          BY <4>5
        <4>. QED BY <4>1, <4>2, <4>6, Zenon
      <3>3. Append(<<t>>, e) = <<t, e>>
        BY <3>2
      <3>4. Append(<<>>, t) = <<t>>
        OBVIOUS
      <3>. QED BY <3>1, <3>3, <3>4, Zenon
    <2>. QED BY <1>4, <2>1, FgetsIs DEF LineParts
  <1>. QED BY <1>2, <1>3, <1>4

LEMMA NothingCut == CutParts(<<>>) = <<>>
  <1>1. Len(<<>>) = 0 /\ Len(<<>>) \in Nat
    OBVIOUS
  <1>2. PICK r : r[0] = [parts |-> <<>>, open |-> <<>>] /\ Fgets(<<>>) = r[Len(<<>>)]
    BY <1>1, FgetsLoop
  <1>3. Fgets(<<>>) = [parts |-> <<>>, open |-> <<>>]
    BY <1>1, <1>2
  <1>. QED BY <1>3 DEF CutParts

LEMMA UpToReturnIs ==
  ASSUME NEW p \in Text
  PROVE  UpToReturn(p) \in Text /\ (OneLine(p) => UpToReturn(p) = p)
  <1>. DEFINE R == {i \in DOMAIN p : p[i] = CR}
  <1>1. CASE R = {}
    BY <1>1 DEF UpToReturn
  <1>2. CASE R # {}
    <2>1. DOMAIN p = 1 .. Len(p) /\ Len(p) \in Nat
      BY LenProperties DEF Text
    <2>2. PICK x \in R : \A y \in R : x <= y
      <3>1. R \subseteq Nat
        BY <2>1
      <3>. QED BY <1>2, <3>1, LeastElement
    <2>3. Min(R) \in R
      BY <2>2, Zenon DEF Min
    <2>4. PICK k \in Nat : k = Min(R) - 1 /\ k <= Len(p)
      <3>1. Min(R) \in 1 .. Len(p)
        BY <2>1, <2>3
      <3>2. Min(R) - 1 \in Nat /\ Min(R) - 1 <= Len(p)
        BY <2>1, <3>1
      <3>. QED BY <3>2
    <2>5. UpToReturn(p) = SubSeq(p, 1, k)
      BY <1>2, <2>4 DEF UpToReturn
    <2>6. SubSeq(p, 1, k) \in Text
      <3>1. p \in Seq(Characters) /\ 1 \in Nat \ {0} /\ k <= Len(p)
        BY <2>4 DEF Text
      <3>2. SubSeq(p, 1, k) \in Seq(Characters)
        BY <3>1, CutIs
      <3>. QED BY <3>2 DEF Text
    <2>7. ~OneLine(p)
      BY <2>2 DEF OneLine
    <2>. QED BY <2>5, <2>6, <2>7
  <1>. QED BY <1>1, <1>2

(* The parts of a text are added to a history one by one. *)
LEMMA LoadPartsIs ==
  ASSUME NEW max \in Nat \ {0}, NEW h, IsHistory(h, max), NEW p \in Seq(Text)
  PROVE  /\ IsHistory(HistoryLoadParts(h, max, p), max)
         /\ p = <<>> => HistoryLoadParts(h, max, p) = h
  <1>1. PICK n \in Nat : n = Len(p)
    BY LenProperties
  <1>2. PICK r : /\ r[0] = h
                 /\ \A i \in 1 .. n : r[i] = HistoryAdd(r[i - 1], max, UpToReturn(p[i]))
                 /\ HistoryLoadParts(h, max, p) = r[n]
    <2>1. Len(p) \in Nat
      BY <1>1
    <2>2. \E r : /\ r[0] = h
                 /\ \A i \in 1 .. Len(p) : r[i] = HistoryAdd(r[i - 1], max, UpToReturn(p[i]))
                 /\ HistoryLoadParts(h, max, p) = r[Len(p)]
      BY <2>1, PartsLoop
    <2>. QED BY <1>1, <2>2, Zenon
  <1>3. \A i \in 1 .. n : UpToReturn(p[i]) \in Text
    BY <1>1, ElementOfSeq, UpToReturnIs
  <1>4. \A i \in 0 .. n : IsHistory(r[i], max)
    <2>. DEFINE S == {i \in 0 .. n : IsHistory(r[i], max)}
    <2>1. 0 \in S
      BY <1>2
    <2>2. ASSUME NEW k \in 0 .. n - 1, k \in S PROVE k + 1 \in S
      <3>1. r[k + 1] = HistoryAdd(r[k], max, UpToReturn(p[k + 1])) /\ UpToReturn(p[k + 1]) \in Text
        BY <1>2, <1>3
      <3>2. IsHistory(r[k], max)
        BY <2>2
      <3>3. IsHistory(r[k + 1], max)
        BY <3>1, <3>2, HistoryAddIs
      <3>. QED BY <3>3
    <2>3. 0 .. n \subseteq S
      <3>. HIDE DEF S
      <3>. QED BY <2>1, <2>2, Induction
    <2>. QED BY <2>3
  <1>5. p = <<>> => n = 0
    BY <1>1
  <1>. QED BY <1>2, <1>4, <1>5

(* A line that fgets takes at once is in the history that was made of it. *)
LEMMA LoadLineIs ==
  ASSUME NEW max \in Nat \ {0}, NEW h, IsHistory(h, max), NEW l \in Text
  PROVE  /\ IsHistory(HistoryLoadParts(h, max, LineParts(l)), max)
         /\ max > 1 /\ OneLine(l) => Contains(HistoryLoadParts(h, max, LineParts(l)), l)
  <1>1. PICK n \in Nat : n = Len(LineParts(l)) /\ n > 0
    BY PartsAre, EmptySeq
  <1>2. PICK r : /\ r[0] = h
                 /\ \A i \in 1 .. n : r[i] = HistoryAdd(r[i - 1], max, UpToReturn(LineParts(l)[i]))
                 /\ HistoryLoadParts(h, max, LineParts(l)) = r[n]
    BY <1>1, PartsLoop
  <1>4. IsHistory(HistoryLoadParts(h, max, LineParts(l)), max)
    BY PartsAre, LoadPartsIs
  <1>5. ASSUME max > 1, OneLine(l) PROVE Contains(r[n], l)
    <2>1. r[1] = HistoryAdd(h, max, UpToReturn(LineParts(l)[1]))
      BY <1>1, <1>2
    <2>2. /\ Len(l) \in Nat /\ LINENOISE_MAX_LINE \in Nat /\ Len(l) < LINENOISE_MAX_LINE
          /\ UpToReturn(l) = l /\ UpToReturn(<<>>) = <<>>
      <3>1. OneLine(<<>>) /\ <<>> \in Text
        BY MaxLineAssumption DEF OneLine, Text
      <3>. QED BY <1>5, <3>1, LenProperties, MaxLineAssumption, UpToReturnIs DEF Text, OneLine
    <2>3. CASE Len(l) < LINENOISE_MAX_LINE - 1
      <3>1. LineParts(l) = <<l>>
        BY <1>5, <2>3, PartsAre
      <3>2. n = 1 /\ r[1] = HistoryAdd(h, max, l)
        BY <1>1, <2>1, <2>2, <3>1
      <3>3. IsHistory(r[1], max) /\ r[1] # <<>> /\ Last(r[1]) = l
        BY <3>2, HistoryAddIs
      <3>. QED BY <3>2, <3>3, EmptySeq DEF Contains, Last, IsHistory
    <2>4. CASE Len(l) = LINENOISE_MAX_LINE - 1
      <3>1. LineParts(l) = <<l, <<>>>>
        BY <1>5, <2>2, <2>4, PartsAre
      <3>2. n = 2 /\ r[1] = HistoryAdd(h, max, l) /\ r[2] = HistoryAdd(r[1], max, <<>>)
        BY <1>1, <1>2, <2>1, <2>2, <3>1
      <3>3. IsHistory(r[1], max) /\ r[1] # <<>> /\ Last(r[1]) = l
        <4>1. IsHistory(HistoryAdd(h, max, l), max)
              /\ HistoryAdd(h, max, l) # <<>> /\ Last(HistoryAdd(h, max, l)) = l
          BY HistoryAddIs
        <4>. QED BY <3>2, <4>1, Zenon
      <3>. DEFINE p == r[1]
      <3>4. p \in Seq(Text) /\ Len(p) \in Nat \ {0} /\ p[Len(p)] = l
        BY <3>3, EmptySeq DEF Last, IsHistory
      <3>. HIDE DEF p
      <3>5. CASE r[2] = p
        BY <3>2, <3>4, <3>5 DEF Contains
      <3>6. CASE r[2] = Append(p, <<>>)
        <4>1. Len(Append(p, <<>>)) = Len(p) + 1 /\ Append(p, <<>>)[Len(p)] = p[Len(p)]
          BY <3>4, AppendProperties, <<>> \in Text DEF Text
        <4>. QED BY <3>2, <3>4, <3>6, <4>1 DEF Contains
      <3>7. CASE r[2] = Append(Tail(p), <<>>) /\ Len(p) = max
        <4>1. PICK t : t = Tail(p)
          OBVIOUS
        <4>2. t \in Seq(Text) /\ Len(t) = Len(p) - 1 /\ \A i \in 1 .. Len(t) : t[i] = p[i + 1]
          <5>1. p # <<>>
            BY <3>3 DEF p
          <5>. QED BY <3>4, <4>1, <5>1, HeadTailProperties
        <4>3. Len(t) \in Nat \ {0} /\ t[Len(t)] = l
          BY <1>5, <3>4, <3>7, <4>2
        <4>4. Len(Append(t, <<>>)) = Len(t) + 1 /\ Append(t, <<>>)[Len(t)] = t[Len(t)]
          BY <4>2, <4>3, AppendProperties, <<>> \in Text DEF Text
        <4>. QED BY <3>2, <3>7, <4>1, <4>3, <4>4 DEF Contains
      <3>. QED BY <3>2, <3>5, <3>6, <3>7 DEF HistoryAdd, p
    <2>. QED BY <1>5, <2>2, <2>3, <2>4
  <1>. QED BY <1>1, <1>2, <1>4, <1>5

LEMMA LoadLinesIs ==
  ASSUME NEW max \in Nat \ {0}, NEW f \in Seq(Text)
  PROVE  /\ IsHistory(HistoryLoadLines(<<>>, max, f), max)
         /\ max > 1 /\ f # <<>> /\ OneLine(Last(f)) =>
              Contains(HistoryLoadLines(<<>>, max, f), Last(f))
  <1>1. PICK n \in Nat : n = Len(f)
    BY LenProperties
  <1>2. PICK r : /\ r[0] = <<>>
                 /\ \A i \in 1 .. n : r[i] = HistoryLoadParts(r[i - 1], max, LineParts(f[i]))
                 /\ HistoryLoadLines(<<>>, max, f) = r[n]
    <2>1. Len(f) \in Nat
      BY <1>1
    <2>2. \E r : /\ r[0] = <<>>
                 /\ \A i \in 1 .. Len(f) : r[i] = HistoryLoadParts(r[i - 1], max, LineParts(f[i]))
                 /\ HistoryLoadLines(<<>>, max, f) = r[Len(f)]
      <3>1. PICK h : h = <<>>
        OBVIOUS
      <3>2. \E r : /\ r[0] = h
                   /\ \A i \in 1 .. Len(f) : r[i] = HistoryLoadParts(r[i - 1], max, LineParts(f[i]))
                   /\ HistoryLoadLines(h, max, f) = r[Len(f)]
        BY <2>1, LinesLoop, SMTT(30)
      <3>. QED BY <3>1, <3>2, Zenon
    <2>. QED BY <1>1, <2>2, Zenon
  <1>3. \A i \in 1 .. n : f[i] \in Text
    BY <1>1, ElementOfSeq
  <1>4. \A i \in 0 .. n : IsHistory(r[i], max)
    <2>. DEFINE S == {i \in 0 .. n : IsHistory(r[i], max)}
    <2>1. 0 \in S
      <3>1. <<>> \in Seq(Text) /\ Len(<<>>) = 0
        BY EmptySeq
      <3>2. IsHistory(<<>>, max)
        BY <3>1 DEF IsHistory
      <3>. QED BY <1>2, <3>2
    <2>2. ASSUME NEW k \in 0 .. n - 1, k \in S PROVE k + 1 \in S
      <3>1. r[k + 1] = HistoryLoadParts(r[k], max, LineParts(f[k + 1])) /\ f[k + 1] \in Text
        BY <1>2, <1>3
      <3>2. IsHistory(r[k], max)
        BY <2>2
      <3>3. IsHistory(r[k + 1], max)
        BY <3>1, <3>2, LoadLineIs
      <3>. QED BY <3>3
    <2>3. 0 .. n \subseteq S
      <3>. HIDE DEF S
      <3>. QED BY <2>1, <2>2, Induction
    <2>. QED BY <2>3
  <1>5. ASSUME max > 1, f # <<>>, OneLine(Last(f))
        PROVE  Contains(r[n], Last(f))
    <2>1. n > 0 /\ Last(f) = f[n]
      BY <1>1, <1>5, EmptySeq DEF Last
    <2>2. r[n] = HistoryLoadParts(r[n - 1], max, LineParts(f[n])) /\ IsHistory(r[n - 1], max) /\ f[n] \in Text
      BY <1>2, <1>3, <1>4, <2>1
    <2>. QED BY <1>5, <2>1, <2>2, LoadLineIs
  <1>. QED BY <1>2, <1>4, <1>5

(* What a file of entries and a cut makes of an empty history. *)
LEMMA LoadIs ==
  ASSUME NEW max \in Nat \ {0}, NEW f, f.entries \in Seq(Text), f.cut \in Text
  PROVE  /\ IsHistory(HistoryLoad(<<>>, max, f), max)
         /\ max > 1 /\ f.entries # <<>> /\ f.cut = <<>> /\ OneLine(Last(f.entries)) =>
              Contains(HistoryLoad(<<>>, max, f), Last(f.entries))
  <1>1. PICK h : h = HistoryLoadLines(<<>>, max, f.entries)
    OBVIOUS
  <1>2. /\ IsHistory(h, max)
        /\ max > 1 /\ f.entries # <<>> /\ OneLine(Last(f.entries)) => Contains(h, Last(f.entries))
    BY <1>1, LoadLinesIs, Zenon
  <1>3. CutParts(f.cut) \in Seq(Text) /\ (f.cut = <<>> => CutParts(f.cut) = <<>>)
    BY PartsAre, NothingCut
  <1>4. HistoryLoad(<<>>, max, f) = HistoryLoadParts(h, max, CutParts(f.cut))
    BY <1>1, Zenon DEF HistoryLoad
  <1>. QED BY <1>2, <1>3, <1>4, LoadPartsIs

-----------------------------------------------------------------------------
(* The state of the editor *)

Fields == {"buf", "pos", "oldpos", "oldrows", "history_index", "in_completion",
           "completion_idx", "tty"}

(* The indices of an edit state point into its buffer and into a history of  *)
(* n entries.                                                              *)
EditState(l, n) ==
  /\ DOMAIN l = Fields
  /\ l.buf \in Text /\ Len(l.buf) <= buflen
  /\ l.pos \in 0 .. Len(l.buf)
  /\ l.history_index \in 0 .. n - 1
  /\ l.in_completion \in BOOLEAN /\ l.completion_idx \in Nat

(* The history an input leaves in front of its line. *)
Kept(h, max) ==
  IF h # <<>> /\ Last(h) = <<>> THEN Front(h)
  ELSE IF Len(h) = max THEN Tail(h)
  ELSE h

Editing == stage \in {"edit", "hidden"}

(* No index of the editor leaves its array: the line fits the buffer with    *)
(* the zero behind it, the cursor is in the line or behind its last          *)
(* character, the entry that is shown is one of the history, and the history *)
(* is not longer than its array. *)
WithinArrays ==
  /\ history_max_len \in Nat \ {0} /\ IsHistory(history, history_max_len)
  /\ Editing => EditState(ls, Len(history))

(* Until a history key is used, the history is the one before with an empty  *)
(* entry for the edited line; without that entry once the line is returned. *)
HistoryOfInput ==
  /\ Editing /\ before # NoLine =>
       /\ IsHistory(before, history_max_len)
       /\ history = HistoryAdd(before, history_max_len, <<>>)
  /\ stage = "returned" /\ before # NoLine /\ line # NoLine =>
       history = Kept(before, history_max_len)

(* The file that was closed in full ends with the line that was entered last
   before; while a line is saved it is at the end of the history; and but for
   a save that did not go through it is the saved one. *)
FileOfInput ==
  /\ file.entries \in Seq(Text) /\ file.cut \in Text
  /\ saved # NoLine => /\ file.entries # <<>> /\ Last(file.entries) = saved
                       /\ file.cut = <<>>
  /\ stage = "returned" /\ line # NoLine => line \in Text
  /\ stage \in {"saving", "writing"} => history # <<>> /\ Last(history) = entered
  /\ stage = "writing" => saved = NoLine
  /\ stage \notin {"saving", "writing"} /\ excuse = "none" => saved = entered

IndInv ==
  /\ mode \in Modes
  /\ WithinArrays /\ HistoryOfInput /\ FileOfInput /\ UntouchedHistory

(* What a refresh leaves alone. *)
Same(k, l) ==
  /\ DOMAIN k = Fields
  /\ k.buf = l.buf /\ k.pos = l.pos /\ k.history_index = l.history_index
  /\ k.in_completion = l.in_completion /\ k.completion_idx = l.completion_idx

LEMMA SameState ==
  ASSUME NEW n, NEW l, EditState(l, n), NEW k, Same(k, l)
  PROVE  EditState(k, n)
  BY DEF EditState, Same

LEMMA TtySame ==
  ASSUME NEW l, DOMAIN l = Fields, NEW t
  PROVE  Same([l EXCEPT !.tty = t], l)
  BY DEF Same, Fields

LEMMA RefreshSame ==
  ASSUME NEW l, DOMAIN l = Fields, NEW clean, NEW write
  PROVE  Same(refreshLineWithFlags(l, clean, write), l)
  <1>1. \E t : refreshSingleLine(l, clean, write, mode.hints) = [l EXCEPT !.tty = t]
    BY Zenon DEF refreshSingleLine
  <1>2. \E r, p, t : refreshMultiLine(l, clean, write, mode.hints)
                       = [l EXCEPT !.oldrows = r, !.oldpos = p, !.tty = t]
    BY Zenon DEF refreshMultiLine
  <1>3. ASSUME NEW r, NEW p, NEW t
        PROVE  Same([l EXCEPT !.oldrows = r, !.oldpos = p, !.tty = t], l)
    BY DEF Same, Fields
  <1>4. Same(refreshSingleLine(l, clean, write, mode.hints), l)
    BY <1>1, TtySame
  <1>5. Same(refreshMultiLine(l, clean, write, mode.hints), l)
    <2>1. PICK r, p, t : refreshMultiLine(l, clean, write, mode.hints)
                           = [l EXCEPT !.oldrows = r, !.oldpos = p, !.tty = t]
      BY <1>2
    <2>2. Same([l EXCEPT !.oldrows = r, !.oldpos = p, !.tty = t], l)
      BY <1>3
    <2>. QED BY <2>1, <2>2, Zenon
  <1>. QED BY <1>4, <1>5, Zenon DEF refreshLineWithFlags

LEMMA RefreshState ==
  ASSUME NEW n, NEW l, EditState(l, n)
  PROVE  EditState(refreshLine(l), n)
  <1>1. Same(refreshLine(l), l)
    BY RefreshSame DEF refreshLine, EditState
  <1>. QED BY <1>1, SameState

(* A line that fits, with the cursor in it. *)
LEMMA LineState ==
  ASSUME NEW n, NEW l, EditState(l, n),
         NEW b \in Text, Len(b) <= buflen, NEW p \in 0 .. Len(b)
  PROVE  EditState([l EXCEPT !.buf = b, !.pos = p], n)
  BY DEF EditState, Fields

LEMMA BufState ==
  ASSUME NEW n, NEW l, EditState(l, n),
         NEW b \in Text, Len(b) <= buflen, l.pos \in 0 .. Len(b)
  PROVE  EditState([l EXCEPT !.buf = b], n)
  BY DEF EditState, Fields

LEMMA PosState ==
  ASSUME NEW n, NEW l, EditState(l, n), NEW p \in 0 .. Len(l.buf)
  PROVE  EditState([l EXCEPT !.pos = p], n)
  BY DEF EditState, Fields

LEMMA TtyState ==
  ASSUME NEW n, NEW l, EditState(l, n), NEW t
  PROVE  EditState([l EXCEPT !.tty = t], n)
  BY TtySame, SameState DEF EditState

LEMMA Buflen == buflen \in Nat /\ buflen > 1
  BY MaxLineAssumption DEF buflen

(* The numbers of an edit state. *)
LEMMA StateNumbers ==
  ASSUME NEW n, NEW l, EditState(l, n)
  PROVE  /\ l.buf \in Text /\ Len(l.buf) \in Nat /\ Len(l.buf) <= buflen
         /\ l.pos \in Nat /\ l.pos <= Len(l.buf)
  BY LenProperties DEF EditState, Text

LEMMA Extrema ==
  ASSUME NEW a \in Int, NEW b \in Int
  PROVE  Min({a, b}) = (IF a <= b THEN a ELSE b) /\ Max({a, b}) = (IF a >= b THEN a ELSE b)
  <1>1. Min({a, b}) = (IF a <= b THEN a ELSE b)
    BY DEF Min
  <1>2. Max({a, b}) = (IF a >= b THEN a ELSE b)
    BY DEF Max
  <1>. QED BY <1>1, <1>2

(* A line that fits the buffer. *)
LEMMA LinesIs ==
  ASSUME NEW l
  PROVE  l \in Lines <=> l \in Text /\ Len(l) <= buflen
  <1>. DEFINE C == Characters
  <1>1. ASSUME l \in Lines PROVE l \in Text /\ Len(l) <= buflen
    <2>1. PICK m \in 0 .. buflen : l \in [1 .. m -> C]
      BY <1>1 DEF Lines, SeqOf
    <2>2. m \in Nat /\ m <= buflen
      BY Buflen
    <2>. HIDE DEF C
    <2>3. l \in Seq(C) /\ Len(l) = m
      BY <2>1, <2>2
    <2>. QED BY <2>2, <2>3 DEF Text, C
  <1>2. ASSUME l \in Text, Len(l) <= buflen PROVE l \in Lines
    <2>. HIDE DEF C
    <2>1. Len(l) \in Nat /\ l \in [1 .. Len(l) -> C]
      BY <1>2, LenProperties DEF Text, C
    <2>2. Len(l) \in 0 .. buflen
      BY <1>2, <2>1, Buflen
    <2>. QED BY <2>1, <2>2, Zenon DEF Lines, SeqOf, C
  <1>. QED BY <1>1, <1>2

LEMMA Proposal ==
  ASSUME NEW n, NEW l, EditState(l, n), NEW i \in Nat, i < Len(Completions(l.buf))
  PROVE  /\ Completions(l.buf)[i + 1] \in Text /\ Len(Completions(l.buf)[i + 1]) \in Nat
         /\ Len(Completions(l.buf)[i + 1]) <= buflen
  <1>1. Completions(l.buf) \in Seq(Lines)
    BY LinesIs, CompletionsAssumption DEF EditState
  <1>2. PICK c : c = Completions(l.buf)
    OBVIOUS
  <1>3. i + 1 \in 1 .. Len(c) /\ c \in Seq(Lines)
    BY <1>1, <1>2, LenProperties
  <1>4. c[i + 1] \in Lines
    BY <1>3, ElementOfSeq
  <1>. QED BY <1>2, <1>4, LinesIs, LenProperties DEF Text

LEMMA ShowState ==
  ASSUME NEW n, NEW l, EditState(l, n), NEW clean, NEW write
  PROVE  EditState(refreshLineWithCompletion(l, clean, write), n)
  <1>. DEFINE lc == Completions(l.buf)
              shown == [l EXCEPT !.buf = lc[l.completion_idx + 1], !.pos = Len(lc[l.completion_idx + 1])]
  <1>1. PICK k : /\ refreshLineWithCompletion(l, clean, write)
                      = [refreshLineWithFlags(k, clean, write) EXCEPT !.buf = l.buf, !.pos = l.pos]
                 /\ k = IF l.completion_idx < Len(lc) THEN shown ELSE l
    BY Zenon DEF refreshLineWithCompletion
  <1>2. EditState(k, n)
    <2>1. CASE l.completion_idx < Len(lc)
      <3>1. PICK b : b = lc[l.completion_idx + 1]
        OBVIOUS
      <3>2. b \in Text /\ Len(b) \in Nat /\ Len(b) <= buflen
        BY <2>1, <3>1, Proposal DEF EditState
      <3>3. EditState([l EXCEPT !.buf = b, !.pos = Len(b)], n)
        <4>1. Len(b) \in 0 .. Len(b)
          BY <3>2
        <4>. QED BY <3>2, <4>1, LineState
      <3>. QED BY <1>1, <2>1, <3>1, <3>3, Zenon
    <2>2. CASE ~(l.completion_idx < Len(lc))
      BY <1>1, <2>2, Zenon
    <2>. QED BY <2>1, <2>2
  <1>3. PICK d : d = refreshLineWithFlags(k, clean, write)
    OBVIOUS
  <1>4. Same(d, k)
    BY <1>2, <1>3, RefreshSame DEF EditState
  <1>5. EditState(d, n)
    BY <1>2, <1>4, SameState
  <1>6. EditState([d EXCEPT !.buf = l.buf, !.pos = l.pos], n)
    <2>1. l.buf \in Text /\ Len(l.buf) <= buflen /\ l.pos \in 0 .. Len(l.buf)
      BY DEF EditState
    <2>. QED BY <1>5, <2>1, LineState
  <1>. QED BY <1>1, <1>3, <1>6, Zenon

-----------------------------------------------------------------------------
(* The keys *)

LEMMA InsertState ==
  ASSUME NEW n, NEW l, EditState(l, n), NEW c \in Characters
  PROVE  EditState(linenoiseEditInsert(l, c), n)
  <1>. DEFINE b == InsertAt(l.buf, l.pos + 1, c)
              typed == [l EXCEPT !.buf = b, !.pos = l.pos + 1]
  <1>1. CASE Len(l.buf) >= buflen
    BY <1>1, Zenon DEF linenoiseEditInsert
  <1>2. CASE ~(Len(l.buf) >= buflen)
    <2>1. l.buf \in Text /\ Len(l.buf) \in Nat /\ l.pos \in Nat /\ l.pos <= Len(l.buf)
      BY StateNumbers
    <2>2. b \in Text /\ Len(b) = Len(l.buf) + 1
      <3>1. PICK s, k, p : s = l.buf /\ k = Len(s) /\ p = l.pos
        OBVIOUS
      <3>2. s \in Seq(Characters) /\ k \in Nat /\ p \in Nat /\ p <= k
        BY <2>1, <3>1 DEF Text
      <3>3. SubSeq(s, 1, p) \in Seq(Characters) /\ Len(SubSeq(s, 1, p)) = p
        BY <3>1, <3>2, CutIs
      <3>4. SubSeq(s, p + 1, k) \in Seq(Characters) /\ Len(SubSeq(s, p + 1, k)) = k - p
        <4>1. p + 1 \in Nat \ {0}
          BY <3>2
        <4>2. /\ SubSeq(s, p + 1, k) \in Seq(Characters)
              /\ Len(SubSeq(s, p + 1, k)) = IF p + 1 <= k THEN k - (p + 1) + 1 ELSE 0
          BY <3>1, <3>2, <4>1, CutIs
        <4>. QED BY <3>2, <4>2
      <3>5. PICK x, y : x = SubSeq(s, 1, p) /\ y = SubSeq(s, p + 1, k)
        OBVIOUS
      <3>6. <<c>> \in Seq(Characters) /\ Len(<<c>>) = 1
        OBVIOUS
      <3>7. x \o <<c>> \in Seq(Characters) /\ Len(x \o <<c>>) = p + 1
        BY <3>3, <3>5, <3>6, ConcatProperties
      <3>8. (x \o <<c>>) \o y \in Seq(Characters) /\ Len((x \o <<c>>) \o y) = k + 1
        <4>1. Len((x \o <<c>>) \o y) = Len(x \o <<c>>) + Len(y) /\ (x \o <<c>>) \o y \in Seq(Characters)
          BY <3>4, <3>5, <3>7, ConcatProperties
        <4>. QED BY <3>2, <3>4, <3>5, <3>7, <4>1
      <3>9. (p + 1) - 1 = p
        BY <3>2
      <3>10. b = (x \o <<c>>) \o y
        <4>1. b = SubSeq(s, 1, (p + 1) - 1) \o <<c>> \o SubSeq(s, p + 1, k)
          <5>1. InsertAt(s, p + 1, c) = SubSeq(s, 1, (p + 1) - 1) \o <<c>> \o SubSeq(s, p + 1, Len(s))
            BY DEF InsertAt
          <5>. QED BY <3>1, <5>1
        <4>. QED BY <3>5, <3>9, <4>1, Zenon
      <3>. QED BY <3>1, <3>8, <3>10 DEF Text
    <2>. HIDE DEF b
    <2>3. EditState(typed, n)
      <3>1. Len(b) <= buflen /\ l.pos + 1 \in 0 .. Len(b)
        BY <1>2, <2>1, <2>2, Buflen
      <3>. QED BY <2>2, <3>1, LineState
    <2>4. linenoiseEditInsert(l, c) \in {[typed EXCEPT !.tty = Put(@, Masked(<<c>>))], refreshLine(typed)}
      BY <1>2, Zenon DEF linenoiseEditInsert, b
    <2>. HIDE DEF typed
    <2>5. EditState([typed EXCEPT !.tty = Put(@, Masked(<<c>>))], n) /\ EditState(refreshLine(typed), n)
      BY <2>3, TtyState, RefreshState
    <2>. QED BY <2>4, <2>5
  <1>. QED BY <1>1, <1>2

LEMMA MoveToState ==
  ASSUME NEW n, NEW l, EditState(l, n), NEW p \in 0 .. Len(l.buf)
  PROVE  EditState(MoveTo(l, p), n)
  BY PosState, RefreshState DEF MoveTo

LEMMA MoveState ==
  ASSUME NEW n, NEW l, EditState(l, n), NEW key \in MoveKeys
  PROVE  EditState(linenoiseEditMove(l, key), n)
  <1>1. Len(l.buf) \in Nat /\ l.pos \in Nat /\ l.pos <= Len(l.buf)
    BY StateNumbers
  <1>2. Max({0, l.pos - 1}) \in 0 .. Len(l.buf) /\ Min({Len(l.buf), l.pos + 1}) \in 0 .. Len(l.buf)
    <2>1. Max({0, l.pos - 1}) = IF 0 >= l.pos - 1 THEN 0 ELSE l.pos - 1
      <3>1. 0 \in Int /\ l.pos - 1 \in Int
        BY <1>1
      <3>. QED BY <3>1, Extrema, Zenon
    <2>2. Min({Len(l.buf), l.pos + 1}) = IF Len(l.buf) <= l.pos + 1 THEN Len(l.buf) ELSE l.pos + 1
      BY <1>1, Extrema
    <2>. QED BY <1>1, <2>1, <2>2
  <1>3. 0 \in 0 .. Len(l.buf) /\ Len(l.buf) \in 0 .. Len(l.buf)
    BY <1>1
  <1>4. CASE key = "left"
    BY <1>2, <1>4, MoveToState DEF linenoiseEditMove
  <1>5. CASE key = "right"
    BY <1>2, <1>5, MoveToState DEF linenoiseEditMove
  <1>6. CASE key = "home"
    BY <1>3, <1>6, MoveToState DEF linenoiseEditMove
  <1>7. CASE key = "end"
    BY <1>3, <1>7, MoveToState DEF linenoiseEditMove
  <1>. QED BY <1>4, <1>5, <1>6, <1>7 DEF MoveKeys

LEMMA RemoveAtIs ==
  ASSUME NEW S, NEW s \in Seq(S), NEW i \in 1 .. Len(s)
  PROVE  RemoveAt(s, i) \in Seq(S) /\ Len(RemoveAt(s, i)) = Len(s) - 1
  <1>1. PICK k \in Nat : k = Len(s)
    BY LenProperties
  <1>2. i \in Nat /\ 1 <= i /\ i <= k
    BY <1>1
  <1>3. PICK x \in Seq(S) : x = SubSeq(s, 1, i - 1) /\ Len(x) = i - 1
    <2>1. PICK j \in Nat : j = i - 1 /\ j <= k
      BY <1>2
    <2>2. SubSeq(s, 1, j) \in Seq(S) /\ Len(SubSeq(s, 1, j)) = IF 1 <= j THEN j - 1 + 1 ELSE 0
      BY <1>1, <2>1, CutIs
    <2>3. (IF 1 <= j THEN j - 1 + 1 ELSE 0) = i - 1
      BY <2>1
    <2>. QED BY <2>1, <2>2, <2>3
  <1>4. PICK y \in Seq(S) : y = SubSeq(s, i + 1, k) /\ Len(y) = k - i
    <2>1. PICK j \in Nat \ {0} : j = i + 1 /\ j <= k + 1
      BY <1>2
    <2>2. SubSeq(s, j, k) \in Seq(S) /\ Len(SubSeq(s, j, k)) = IF j <= k THEN k - j + 1 ELSE 0
      BY <1>1, <2>1, CutIs
    <2>3. (IF j <= k THEN k - j + 1 ELSE 0) = k - i
      BY <1>2, <2>1
    <2>. QED BY <2>1, <2>2, <2>3
  <1>5. x \o y \in Seq(S) /\ Len(x \o y) = Len(x) + Len(y)
    BY ConcatProperties
  <1>6. RemoveAt(s, i) = x \o y
    BY <1>1, <1>3, <1>4, Zenon DEF RemoveAt
  <1>7. Len(x) + Len(y) = k - 1
    BY <1>2, <1>3, <1>4
  <1>. QED BY <1>1, <1>5, <1>6, <1>7, Zenon

(* The greatest element of a set of numbers up to p. *)
LEMMA GreatestIs ==
  ASSUME NEW p \in Nat, NEW S \in SUBSET (1 .. p)
  PROVE  Max({0} \cup S) \in 0 .. p
  <1>. DEFINE T == {0} \cup S
              D == {p - x : x \in T}
  <1>1. T \subseteq 0 .. p /\ 0 \in T
    OBVIOUS
  <1>2. D \subseteq Nat /\ D # {}
    BY <1>1
  <1>3. PICK d \in D : \A e \in D : d <= e
    <2>. HIDE DEF D
    <2>. QED BY <1>2, LeastElement, Zenon
  <1>4. PICK x \in T : d = p - x
    BY <1>3
  <1>5. \A y \in T : x >= y
    BY <1>1, <1>3, <1>4
  <1>6. Max(T) \in T
    <2>. HIDE DEF T
    <2>. QED BY <1>5, Zenon DEF Max
  <1>. QED BY <1>1, <1>6

LEMMA DeleteState ==
  ASSUME NEW n, NEW l, EditState(l, n)
  PROVE  EditState(linenoiseEditDelete(l), n)
  <1>1. l.buf \in Text /\ Len(l.buf) \in Nat /\ Len(l.buf) <= buflen /\ l.pos \in Nat
    BY StateNumbers
  <1>2. CASE l.pos < Len(l.buf)
    <2>1. PICK b : b = RemoveAt(l.buf, l.pos + 1)
      OBVIOUS
    <2>2. l.pos + 1 \in 1 .. Len(l.buf)
      BY <1>1, <1>2
    <2>3. b \in Text /\ Len(b) = Len(l.buf) - 1
      BY <1>1, <2>1, <2>2, RemoveAtIs DEF Text
    <2>4. Len(b) <= buflen /\ l.pos \in 0 .. Len(b)
      BY <1>1, <1>2, <2>3, Buflen
    <2>5. EditState([l EXCEPT !.buf = b], n)
      BY <2>3, <2>4, BufState
    <2>6. EditState(refreshLine([l EXCEPT !.buf = b]), n)
      BY <2>5, RefreshState
    <2>. QED BY <1>2, <2>1, <2>6, Zenon DEF linenoiseEditDelete
  <1>3. CASE ~(l.pos < Len(l.buf))
    BY <1>3, Zenon DEF linenoiseEditDelete
  <1>. QED BY <1>2, <1>3

LEMMA BackspaceState ==
  ASSUME NEW n, NEW l, EditState(l, n)
  PROVE  EditState(linenoiseEditBackspace(l), n)
  <1>1. l.buf \in Text /\ Len(l.buf) \in Nat /\ Len(l.buf) <= buflen /\ l.pos \in Nat /\ l.pos <= Len(l.buf)
    BY StateNumbers
  <1>2. CASE l.pos > 0
    <2>1. PICK b : b = RemoveAt(l.buf, l.pos)
      OBVIOUS
    <2>2. l.pos \in 1 .. Len(l.buf)
      BY <1>1, <1>2
    <2>3. b \in Text /\ Len(b) = Len(l.buf) - 1
      BY <1>1, <2>1, <2>2, RemoveAtIs DEF Text
    <2>4. Len(b) <= buflen /\ l.pos - 1 \in 0 .. Len(b)
      BY <1>1, <1>2, <2>3, Buflen
    <2>5. EditState([l EXCEPT !.buf = b, !.pos = l.pos - 1], n)
      BY <2>3, <2>4, LineState
    <2>6. EditState(refreshLine([l EXCEPT !.buf = b, !.pos = l.pos - 1]), n)
      BY <2>5, RefreshState
    <2>. QED BY <1>2, <2>1, <2>6, Zenon DEF linenoiseEditBackspace
  <1>3. CASE ~(l.pos > 0)
    BY <1>3, Zenon DEF linenoiseEditBackspace
  <1>. QED BY <1>2, <1>3

LEMMA DeletePrevWordState ==
  ASSUME NEW n, NEW l, EditState(l, n)
  PROVE  EditState(linenoiseEditDeletePrevWord(l), n)
  <1>1. PICK s \in Text, k \in Nat, p \in Nat : s = l.buf /\ k = Len(s) /\ k <= buflen /\ p = l.pos /\ p <= k
    BY StateNumbers
  <1>2. PICK e \in 0 .. p : e = Max({0} \cup {i \in 1 .. l.pos : l.buf[i] # Space})
    <2>1. {i \in 1 .. l.pos : l.buf[i] # Space} \in SUBSET (1 .. p)
      BY <1>1
    <2>. QED BY <2>1, GreatestIs
  <1>3. PICK w \in 0 .. p : w = Max({0} \cup {i \in 1 .. e : l.buf[i] = Space})
    <2>1. {i \in 1 .. e : l.buf[i] = Space} \in SUBSET (1 .. e) /\ e \in Nat
      BY <1>2
    <2>2. Max({0} \cup {i \in 1 .. e : l.buf[i] = Space}) \in 0 .. e
      BY <2>1, GreatestIs
    <2>3. 0 .. e \subseteq 0 .. p
      BY <1>2
    <2>. QED BY <2>2, <2>3, Zenon
  <1>4. PICK x \in Text : x = SubSeq(s, 1, w) /\ Len(x) = w
    <2>1. w \in Nat /\ w <= k
      BY <1>1, <1>3
    <2>2. SubSeq(s, 1, w) \in Text /\ Len(SubSeq(s, 1, w)) = IF 1 <= w THEN w - 1 + 1 ELSE 0
      BY <1>1, <2>1, CutIs DEF Text
    <2>3. (IF 1 <= w THEN w - 1 + 1 ELSE 0) = w
      BY <2>1
    <2>. QED BY <2>2, <2>3
  <1>5. PICK y \in Text : y = SubSeq(s, p + 1, k) /\ Len(y) = k - p
    <2>1. PICK j \in Nat \ {0} : j = p + 1
      BY <1>1
    <2>2. SubSeq(s, j, k) \in Text /\ Len(SubSeq(s, j, k)) = IF j <= k THEN k - j + 1 ELSE 0
      BY <1>1, <2>1, CutIs DEF Text
    <2>3. (IF j <= k THEN k - j + 1 ELSE 0) = k - p
      BY <1>1, <2>1
    <2>. QED BY <2>1, <2>2, <2>3
  <1>6. PICK b : b = x \o y
    OBVIOUS
  <1>7. b \in Text /\ Len(b) = w + (k - p)
    BY <1>4, <1>5, <1>6, ConcatProperties DEF Text
  <1>8. Len(b) <= buflen /\ w \in 0 .. Len(b)
    BY <1>1, <1>3, <1>7, Buflen
  <1>9. EditState([l EXCEPT !.buf = b, !.pos = w], n)
    BY <1>7, <1>8, LineState
  <1>10. linenoiseEditDeletePrevWord(l) = refreshLine([l EXCEPT !.buf = b, !.pos = w])
    BY <1>1, <1>2, <1>3, <1>4, <1>5, <1>6, Zenon DEF linenoiseEditDeletePrevWord
  <1>. QED BY <1>9, <1>10, RefreshState

LEMMA SwapCharsState ==
  ASSUME NEW n, NEW l, EditState(l, n)
  PROVE  EditState(SwapChars(l), n)
  <1>1. PICK s \in Text, k \in Nat, p \in Nat : s = l.buf /\ k = Len(s) /\ k <= buflen /\ p = l.pos /\ p <= k
    BY StateNumbers
  <1>2. CASE p > 0 /\ p < k
    <2>1. PICK b : b = [s EXCEPT ![p] = s[p + 1], ![p + 1] = s[p]]
      OBVIOUS
    <2>2. p \in 1 .. k /\ p + 1 \in 1 .. k
      BY <1>2
    <2>3. s[p] \in Characters /\ s[p + 1] \in Characters
      BY <1>1, <2>2, ElementOfSeq DEF Text
    <2>4. b \in Text /\ Len(b) = k
      <3>1. PICK t : t = [s EXCEPT ![p] = s[p + 1]]
        OBVIOUS
      <3>2. t \in Text /\ Len(t) = k
        BY <1>1, <2>2, <2>3, <3>1, ExceptSeq DEF Text
      <3>3. b = [t EXCEPT ![p + 1] = s[p]]
        BY <2>1, <3>1
      <3>. QED BY <2>2, <2>3, <3>2, <3>3, ExceptSeq DEF Text
    <2>5. PICK q \in 0 .. k : q = IF l.pos # Len(l.buf) - 1 THEN l.pos + 1 ELSE l.pos
      BY <1>1, <1>2
    <2>6. EditState([l EXCEPT !.buf = b, !.pos = q], n)
      BY <1>1, <2>4, <2>5, LineState
    <2>7. SwapChars(l) = refreshLine([l EXCEPT !.buf = b, !.pos = q])
      BY <1>1, <1>2, <2>1, <2>5, Zenon DEF SwapChars
    <2>. QED BY <2>6, <2>7, RefreshState
  <1>3. CASE ~(p > 0 /\ p < k)
    BY <1>1, <1>3, Zenon DEF SwapChars
  <1>. QED BY <1>2, <1>3

LEMMA KillState ==
  ASSUME NEW n, NEW l, EditState(l, n), NEW key \in KillKeys
  PROVE  EditState(linenoiseEditKill(l, key), n)
  <1>1. CASE key = "delete"
    BY <1>1, DeleteState DEF linenoiseEditKill
  <1>2. CASE key = "backspace"
    BY <1>2, BackspaceState DEF linenoiseEditKill
  <1>3. CASE key = "ctrl_t"
    BY <1>3, SwapCharsState DEF linenoiseEditKill
  <1>4. CASE key = "ctrl_w"
    BY <1>4, DeletePrevWordState DEF linenoiseEditKill
  <1>5. CASE key = "ctrl_u"
    <2>1. <<>> \in Text /\ Len(<<>>) = 0
      BY EmptySeq DEF Text
    <2>2. EditState([l EXCEPT !.buf = <<>>, !.pos = 0], n)
      <3>1. Len(<<>>) <= buflen /\ 0 \in 0 .. Len(<<>>)
        BY <2>1, Buflen
      <3>. QED BY <2>1, <3>1, LineState, Zenon
    <2>. QED BY <1>5, <2>2, RefreshState DEF linenoiseEditKill
  <1>6. CASE key = "ctrl_k"
    <2>1. l.buf \in Text /\ Len(l.buf) \in Nat /\ Len(l.buf) <= buflen /\ l.pos \in Nat /\ l.pos <= Len(l.buf)
      BY StateNumbers
    <2>2. PICK b : b = SubSeq(l.buf, 1, l.pos)
      OBVIOUS
    <2>3. b \in Text /\ Len(b) = IF 1 <= l.pos THEN l.pos - 1 + 1 ELSE 0
      BY <2>1, <2>2, CutIs DEF Text
    <2>4. Len(b) <= buflen /\ l.pos \in 0 .. Len(b)
      BY <2>1, <2>3, Buflen
    <2>5. EditState([l EXCEPT !.buf = b], n)
      BY <2>3, <2>4, BufState
    <2>. QED BY <1>6, <2>2, <2>5, RefreshState DEF linenoiseEditKill
  <1>. QED BY <1>1, <1>2, <1>3, <1>4, <1>5, <1>6 DEF KillKeys

LEMMA HistoryNextState ==
  ASSUME NEW max \in Nat, IsHistory(history, max), NEW l, EditState(l, Len(history)),
         NEW key \in HistoryKeys
  PROVE  LET next == linenoiseEditHistoryNext(l, key)
         IN  /\ IsHistory(next.history, max) /\ Len(next.history) = Len(history)
             /\ EditState(next.ls, Len(history))
  <1>1. PICK h \in Seq(Text), k \in Nat, x \in Nat :
          h = history /\ k = Len(h) /\ k <= max /\ x = l.history_index /\ x <= k - 1
    BY LenProperties DEF IsHistory, EditState
  <1>2. PICK stored \in Seq(Text) :
          Len(stored) = k /\ stored = [history EXCEPT ![Len(history) - l.history_index] = l.buf]
    <2>1. k - x \in 1 .. Len(h) /\ l.buf \in Text
      BY <1>1 DEF EditState
    <2>2. PICK i, b : i = k - x /\ b = l.buf
      OBVIOUS
    <2>3. [h EXCEPT ![i] = b] \in Seq(Text) /\ Len([h EXCEPT ![i] = b]) = Len(h)
      BY <2>1, <2>2, ExceptSeq
    <2>. QED BY <1>1, <2>2, <2>3
  <1>3. PICK index \in Int : index = IF key = "prev" THEN l.history_index + 1 ELSE l.history_index - 1
    BY <1>1
  <1>4. CASE Len(history) <= 1
    <2>1. linenoiseEditHistoryNext(l, key) = [ls |-> l, history |-> history]
      BY <1>4, Zenon DEF linenoiseEditHistoryNext
    <2>. QED BY <2>1
  <1>5. CASE ~(Len(history) <= 1) /\ index < 0
    <2>1. linenoiseEditHistoryNext(l, key) = [ls |-> [l EXCEPT !.history_index = 0], history |-> stored]
      BY <1>2, <1>3, <1>5, Zenon DEF linenoiseEditHistoryNext
    <2>2. EditState([l EXCEPT !.history_index = 0], Len(history))
      BY <1>1, <1>5 DEF EditState, Fields
    <2>. QED BY <1>1, <1>2, <2>1, <2>2 DEF IsHistory
  <1>6. CASE ~(Len(history) <= 1) /\ ~(index < 0) /\ index >= Len(history)
    <2>1. linenoiseEditHistoryNext(l, key)
            = [ls |-> [l EXCEPT !.history_index = Len(history) - 1], history |-> stored]
      BY <1>2, <1>3, <1>6, Zenon DEF linenoiseEditHistoryNext
    <2>2. EditState([l EXCEPT !.history_index = Len(history) - 1], Len(history))
      BY <1>1, <1>6 DEF EditState, Fields
    <2>. QED BY <1>1, <1>2, <2>1, <2>2 DEF IsHistory
  <1>7. CASE ~(Len(history) <= 1) /\ ~(index < 0) /\ ~(index >= Len(history))
    <2>1. PICK entry : entry = stored[Len(history) - index]
      OBVIOUS
    <2>2. PICK text : text = SubSeq(entry, 1, Min({Len(entry), buflen - 1}))
      OBVIOUS
    <2>3. entry \in Text /\ Len(entry) \in Nat
      <3>1. Len(history) - index \in 1 .. Len(stored)
        BY <1>1, <1>2, <1>7
      <3>2. entry \in Text
        BY <1>2, <2>1, <3>1, ElementOfSeq
      <3>. QED BY <3>2, LenProperties DEF Text
    <2>4. text \in Text /\ Len(text) \in Nat /\ Len(text) <= buflen
      <3>1. PICK m \in Nat : m = Min({Len(entry), buflen - 1}) /\ m <= Len(entry) /\ m <= buflen
        <4>1. Len(entry) \in Int /\ buflen - 1 \in Int
          BY <2>3, Buflen
        <4>2. Min({Len(entry), buflen - 1}) = IF Len(entry) <= buflen - 1 THEN Len(entry) ELSE buflen - 1
          BY <4>1, Extrema, Zenon
        <4>. QED BY <2>3, <4>2, Buflen
      <3>2. text \in Text /\ Len(text) <= m
        <4>1. SubSeq(entry, 1, m) \in Text /\ Len(SubSeq(entry, 1, m)) <= m
          <5>1. m <= Len(entry) /\ entry \in Seq(Characters) /\ 1 \in Nat \ {0}
            BY <2>3, <3>1 DEF Text
          <5>. QED BY <5>1, CutIs DEF Text
        <4>. QED BY <2>2, <3>1, <4>1, Zenon
      <3>3. Len(text) \in Nat
        BY <3>2, LenProperties DEF Text
      <3>. QED BY <3>1, <3>2, <3>3, Buflen
    <2>5. EditState([l EXCEPT !.history_index = index, !.buf = text, !.pos = Len(text)], Len(history))
      <3>1. index \in 0 .. Len(history) - 1 /\ Len(text) \in 0 .. Len(text)
        BY <1>1, <1>7, <2>4
      <3>. QED BY <2>4, <3>1 DEF EditState, Fields
    <2>6. linenoiseEditHistoryNext(l, key)
            = [ls |-> refreshLine([l EXCEPT !.history_index = index, !.buf = text, !.pos = Len(text)]),
               history |-> stored]
      BY <1>2, <1>3, <1>7, <2>1, <2>2, Zenon DEF linenoiseEditHistoryNext
    <2>. QED BY <1>1, <1>2, <2>5, <2>6, RefreshState DEF IsHistory
  <1>. QED BY <1>4, <1>5, <1>6, <1>7

LEMMA CompletionState ==
  ASSUME NEW n, NEW l, EditState(l, n), NEW key
  PROVE  EditState(completeLine(l, key).ls, n)
  <1>. DEFINE lc == Completions(l.buf)
              next == IF l.in_completion THEN (l.completion_idx + 1) % (Len(lc) + 1) ELSE 0
              proposed == [l EXCEPT !.in_completion = TRUE, !.completion_idx = next]
              left == [l EXCEPT !.in_completion = FALSE]
              taken == IF l.completion_idx < Len(lc)
                       THEN [left EXCEPT !.buf = lc[l.completion_idx + 1],
                                         !.pos = Len(lc[l.completion_idx + 1])]
                       ELSE left
              reshown == IF l.completion_idx < Len(lc) THEN refreshLine(left) ELSE left
  <1>1. Len(lc) \in Nat
    <2>1. lc \in Seq(Lines)
      BY LinesIs, CompletionsAssumption DEF EditState
    <2>. QED BY <2>1, LenProperties
  <1>2. EditState(left, n)
    BY DEF EditState, Fields
  <1>3. EditState(proposed, n)
    <2>1. next \in Nat
      BY <1>1 DEF EditState
    <2>. HIDE DEF next
    <2>. QED BY <2>1 DEF EditState, Fields
  <1>4. EditState(taken, n)
    <2>1. CASE l.completion_idx < Len(lc)
      <3>1. PICK b : b = lc[l.completion_idx + 1]
        OBVIOUS
      <3>2. b \in Text /\ Len(b) \in Nat /\ Len(b) <= buflen
        BY <2>1, <3>1, Proposal DEF EditState
      <3>3. Len(b) \in 0 .. Len(b)
        BY <3>2
      <3>4. EditState([left EXCEPT !.buf = b, !.pos = Len(b)], n)
        <4>. HIDE DEF left
        <4>. QED BY <1>2, <3>2, <3>3, LineState
      <3>. QED BY <2>1, <3>1, <3>4, Zenon
    <2>. HIDE DEF left
    <2>. QED BY <1>2, <2>1
  <1>5. EditState(reshown, n)
    <2>. HIDE DEF left
    <2>. QED BY <1>2, RefreshState
  <1>6. completeLine(l, key).ls \in {left, refreshLineWithCompletion(proposed, TRUE, TRUE),
                                     refreshLine(reshown), refreshLine(taken)}
    <2>. DEFINE unused == IF key \in HighChars THEN "null" ELSE key
    <2>1. completeLine(l, key) =
            IF lc = <<>> THEN [ls |-> left, key |-> unused]
            ELSE CASE key = "tab" -> [ls |-> refreshLineWithCompletion(proposed, TRUE, TRUE), key |-> "more"]
                   [] key = "escape" -> [ls |-> refreshLine(reshown), key |-> "more"]
                   [] OTHER -> [ls |-> refreshLine(taken), key |-> unused]
      BY Zenon DEF completeLine
    <2>. HIDE DEF lc, left, proposed, reshown, taken, unused
    <2>. QED BY <2>1
  <1>. HIDE DEF left, proposed, reshown, taken
  <1>7. EditState(refreshLineWithCompletion(proposed, TRUE, TRUE), n)
    BY <1>3, ShowState
  <1>8. EditState(refreshLine(reshown), n) /\ EditState(refreshLine(taken), n)
    BY <1>4, <1>5, RefreshState
  <1>. QED BY <1>2, <1>6, <1>7, <1>8

LEMMA FedState ==
  ASSUME NEW n, EditState(ls, n), NEW key
  PROVE  EditState(Fed(key).ls, n)
  BY CompletionState DEF Fed

-----------------------------------------------------------------------------
(* The invariant *)

LEMMA NewStateIs ==
  ASSUME NEW n \in Nat, n > 0
  PROVE  EditState(NewState, n)
  <1>1. <<>> \in Text /\ Len(<<>>) = 0
    BY EmptySeq DEF Text
  <1>2. DOMAIN NewState = Fields
    BY DEF NewState, Fields
  <1>3. /\ NewState.buf = <<>> /\ NewState.pos = 0 /\ NewState.history_index = 0
        /\ NewState.in_completion = FALSE /\ NewState.completion_idx = 0
    BY DEF NewState
  <1>4. 0 \in 0 .. Len(<<>>) /\ Len(<<>>) <= buflen /\ 0 \in 0 .. n - 1
    BY <1>1, Buflen
  <1>5. NewState.buf \in Text /\ Len(NewState.buf) <= buflen /\ NewState.pos \in 0 .. Len(NewState.buf)
    BY <1>1, <1>3, <1>4, Zenon
  <1>6. /\ NewState.history_index \in 0 .. n - 1 /\ NewState.in_completion \in BOOLEAN
        /\ NewState.completion_idx \in Nat
    <2>1. FALSE \in BOOLEAN /\ 0 \in Nat
      OBVIOUS
    <2>. QED BY <1>3, <1>4, <2>1, Zenon
  <1>. QED BY <1>2, <1>5, <1>6, Zenon DEF EditState

LEMMA InitInv == Init => IndInv
  <1>. SUFFICES ASSUME Init PROVE IndInv
    OBVIOUS
  <1>1. /\ mode \in Modes /\ stage = "idle" /\ line = NoLine
        /\ entered = NoLine /\ saved = NoLine /\ before = NoLine
    BY DEF Init
  <1>2. <<>> \in Seq(Text) /\ Len(<<>>) = 0
    BY EmptySeq
  <1>3. IsHistory(<<>>, DefaultMaxLen)
    BY <1>2, HistoryAssumption DEF IsHistory
  <1>4. history = <<>> /\ history_max_len = DefaultMaxLen /\ file = NoText
    BY DEF Init
  <1>5. WithinArrays
    BY <1>1, <1>3, <1>4, HistoryAssumption DEF WithinArrays, Editing
  <1>6. HistoryOfInput /\ UntouchedHistory
    BY <1>1 DEF HistoryOfInput, Editing, UntouchedHistory
  <1>7. FileOfInput
    <2>1. <<>> \in Text
      BY EmptySeq DEF Text
    <2>. QED BY <1>1, <1>2, <1>4, <2>1 DEF FileOfInput, FileUntouched, NoText
  <1>. QED BY <1>1, <1>5, <1>6, <1>7 DEF IndInv

(* What the invariant says while a line is edited. *)
LEMMA EditingIs ==
  ASSUME IndInv, Editing
  PROVE  /\ history_max_len \in Nat \ {0} /\ IsHistory(history, history_max_len)
         /\ EditState(ls, Len(history)) /\ history # <<>> /\ Len(history) \in Nat
  <1>1. /\ history_max_len \in Nat \ {0} /\ IsHistory(history, history_max_len)
        /\ EditState(ls, Len(history))
    BY DEF IndInv, WithinArrays
  <1>2. history \in Seq(Text)
    BY <1>1 DEF IsHistory
  <1>3. Len(history) \in Nat
    BY <1>2, LenProperties
  <1>4. Len(history) # 0
    BY <1>1, <1>3 DEF EditState
  <1>. QED BY <1>1, <1>3, <1>4, EmptySeq

(* The edit goes on with the history it has. *)
LEMMA EditGoesOn ==
  ASSUME IndInv, Editing, Editing', EditState(ls', Len(history)),
         UNCHANGED <<history, history_max_len, mode, before>>, FileUntouched
  PROVE  IndInv'
  <1>1. WithinArrays'
    BY DEF IndInv, WithinArrays
  <1>2. HistoryOfInput'
    BY DEF IndInv, HistoryOfInput, Editing
  <1>3. FileOfInput' /\ UntouchedHistory'
    BY DEF IndInv, FileOfInput, FileUntouched, UntouchedHistory, Editing
  <1>. QED BY <1>1, <1>2, <1>3 DEF IndInv

LEMMA MoreStep ==
  ASSUME IndInv, stage = "edit", NEW l, EditState(l, Len(history)), More(l),
         UNCHANGED <<history, before>>
  PROVE  IndInv'
  BY EditGoesOn DEF More, Editing

(* The edit ends without a line. *)
LEMMA NullStep ==
  ASSUME IndInv, stage = "edit", NEW l, Returns(l, NoLine), IsHistory(history', history_max_len)
  PROVE  IndInv'
  <1>1. WithinArrays'
    BY DEF IndInv, WithinArrays, Returns, Editing, FileUntouched
  <1>2. HistoryOfInput' /\ FileOfInput' /\ UntouchedHistory'
    BY DEF IndInv, HistoryOfInput, FileOfInput, FileUntouched, UntouchedHistory, Returns, Editing
  <1>. QED BY <1>1, <1>2 DEF IndInv, Returns

LEMMA FrontIsHistory ==
  ASSUME NEW max \in Nat, NEW h, IsHistory(h, max), h # <<>>
  PROVE  IsHistory(Front(h), max)
  <1>1. h \in Seq(Text) /\ Len(h) <= max /\ Len(h) \in Nat
    BY LenProperties DEF IsHistory
  <1>2. Front(h) \in Seq(Text) /\ Len(Front(h)) = Len(h) - 1
    BY <1>1, FrontIs
  <1>. QED BY <1>1, <1>2 DEF IsHistory

(* Without the entry of the edited line, the history is what was kept. *)
LEMMA FrontIsKept ==
  ASSUME NEW max \in Nat \ {0}, NEW h, IsHistory(h, max)
  PROVE  Front(HistoryAdd(h, max, <<>>)) = Kept(h, max)
  <1>1. h \in Seq(Text) /\ Len(h) \in Nat /\ <<>> \in Text
    BY LenProperties, EmptySeq DEF IsHistory, Text
  <1>2. CASE h # <<>> /\ Last(h) = <<>>
    BY <1>2, Zenon DEF HistoryAdd, Kept
  <1>3. CASE ~(h # <<>> /\ Last(h) = <<>>)
    <2>1. PICK k : k = IF Len(h) = max THEN Tail(h) ELSE h
      OBVIOUS
    <2>2. k \in Seq(Text)
      <3>1. CASE Len(h) = max
        <4>1. h # <<>>
          BY <1>1, <3>1, EmptySeq
        <4>2. Tail(h) \in Seq(Text)
          BY <1>1, <4>1, HeadTailProperties
        <4>. QED BY <2>1, <3>1, <4>2, Zenon
      <3>. QED BY <1>1, <2>1, <3>1, Zenon
    <2>3. Front(Append(k, <<>>)) = k
      BY <1>1, <2>2, LastOfAppend
    <2>4. Kept(h, max) = k
      BY <1>3, <2>1, Zenon DEF Kept
    <2>5. HistoryAdd(h, max, <<>>) = Append(k, <<>>)
      <3>1. max # 0
        OBVIOUS
      <3>. QED BY <1>3, <2>1, <3>1, Zenon DEF HistoryAdd
    <2>. QED BY <2>3, <2>4, <2>5
  <1>. QED BY <1>2, <1>3

-----------------------------------------------------------------------------
(* The steps *)

LEMMA EditStartStep == IndInv /\ EditStart => IndInv'
  <1>. SUFFICES ASSUME IndInv, EditStart PROVE IndInv'
    OBVIOUS
  <1>1. history_max_len \in Nat \ {0} /\ IsHistory(history, history_max_len)
    BY DEF IndInv, WithinArrays
  <1>2. <<>> \in Text
    BY EmptySeq DEF Text
  <1>3. history' = HistoryAdd(history, history_max_len, <<>>)
    BY DEF EditStart
  <1>4. IsHistory(history', history_max_len) /\ history' # <<>>
    BY <1>1, <1>2, <1>3, HistoryAddIs
  <1>5. Len(history') \in Nat /\ Len(history') > 0
    BY <1>4, LenProperties, EmptySeq DEF IsHistory
  <1>6. EditState(ls', Len(history'))
    BY <1>5, NewStateIs DEF EditStart
  <1>7. WithinArrays'
    BY <1>1, <1>4, <1>6 DEF WithinArrays, EditStart
  <1>8. HistoryOfInput'
    BY <1>1, <1>3 DEF HistoryOfInput, EditStart, Editing
  <1>9. FileOfInput' /\ UntouchedHistory'
    BY DEF IndInv, FileOfInput, FileUntouched, UntouchedHistory, EditStart
  <1>. QED BY <1>7, <1>8, <1>9 DEF IndInv, EditStart

(* The line is put at the end of the history. *)
LEMMA AddStep ==
  ASSUME IndInv, stage = "returned", NEW l \in Text, l = line, l # NoLine, add_to_history(l),
         UNCHANGED <<history_max_len, mode, line, before>>
  PROVE  IndInv'
  <1>1. history_max_len \in Nat \ {0} /\ IsHistory(history, history_max_len)
    BY DEF IndInv, WithinArrays
  <1>2. /\ history' = HistoryAdd(history, history_max_len, l) /\ entered' = l
        /\ stage' = "saving" /\ UNCHANGED <<file, saved, excuse>>
    BY DEF add_to_history
  <1>3. IsHistory(history', history_max_len) /\ history' # <<>> /\ Last(history') = l
    BY <1>1, <1>2, HistoryAddIs
  <1>4. WithinArrays' /\ HistoryOfInput' /\ FileOfInput'
    BY <1>1, <1>2, <1>3 DEF IndInv, WithinArrays, HistoryOfInput, FileOfInput, Editing
  <1>5. UntouchedHistory'
    <2>1. before # NoLine => history = Kept(before, history_max_len)
      BY DEF IndInv, HistoryOfInput
    <2>2. before # NoLine => history' = HistoryAdd(Kept(before, history_max_len), history_max_len, line)
      BY <1>2, <2>1, Zenon
    <2>. QED BY <1>2, <2>2, Zenon DEF UntouchedHistory, Kept
  <1>. QED BY <1>4, <1>5 DEF IndInv

LEMMA EditStopStep == IndInv /\ EditStop => IndInv'
  <1>. SUFFICES ASSUME IndInv, EditStop PROVE IndInv'
    OBVIOUS
  <1>2. stage = "returned" /\ UNCHANGED <<history_max_len, mode, line, before>>
    BY DEF EditStop
  <1>3. CASE line = NoLine
    <2>1. stage' = "idle" /\ FileUntouched /\ UNCHANGED history
      BY <1>3 DEF EditStop
    <2>. QED BY <1>2, <1>3, <2>1 DEF IndInv, WithinArrays, HistoryOfInput, FileOfInput,
                                     FileUntouched, UntouchedHistory, Editing
  <1>4. CASE line # NoLine
    <2>1. add_to_history(line)
      BY <1>4 DEF EditStop
    <2>2. line \in Text
      BY <1>2, <1>4 DEF IndInv, FileOfInput
    <2>. QED BY <1>2, <1>4, <2>1, <2>2, AddStep
  <1>. QED BY <1>3, <1>4

(* The steps of a save leave the history alone. *)
LEMMA SaveStep ==
  ASSUME IndInv, stage \in {"saving", "writing"}, stage' \in {"saving", "writing", "idle"},
         UNCHANGED <<history, history_max_len, mode, line, before>>, FileOfInput'
  PROVE  IndInv'
  <1>1. WithinArrays' /\ HistoryOfInput'
    BY DEF IndInv, WithinArrays, HistoryOfInput, Editing
  <1>2. UntouchedHistory'
    BY Zenon DEF IndInv, UntouchedHistory
  <1>. QED BY <1>1, <1>2 DEF IndInv

LEMMA OpenStep == IndInv /\ HistoryOpen => IndInv'
  <1>. SUFFICES ASSUME IndInv, HistoryOpen PROVE IndInv'
    OBVIOUS
  <1>1. stage = "saving" /\ UNCHANGED <<history, history_max_len, mode, line, before, entered>>
    BY DEF HistoryOpen
  <1>2. FileOfInput
    BY DEF IndInv
  <1>3. CASE stage' = "writing" /\ file' = NoText /\ saved' = NoLine
    <2>1. FileOfInput'
      BY <1>1, <1>2, <1>3, EmptyText DEF FileOfInput, NoText
    <2>. QED BY <1>1, <1>3, <2>1, SaveStep
  <1>4. CASE stage' = "idle" /\ excuse' = "refused" /\ UNCHANGED <<file, saved>>
    <2>1. FileOfInput'
      BY <1>1, <1>2, <1>4 DEF FileOfInput
    <2>. QED BY <1>1, <1>4, <2>1, SaveStep
  <1>. QED BY <1>3, <1>4 DEF HistoryOpen

LEMMA FlushStep == IndInv /\ HistoryFlush => IndInv'
  <1>. SUFFICES ASSUME IndInv, HistoryFlush PROVE IndInv'
    OBVIOUS
  <1>1. /\ stage = "writing" /\ file' \in HistoryCuts(history)
        /\ UNCHANGED <<history, history_max_len, mode, stage, line, before, entered, saved, excuse>>
    BY DEF HistoryFlush
  <1>2. FileOfInput /\ history \in Seq(Text)
    BY DEF IndInv, WithinArrays, IsHistory
  <1>3. PICK n \in DOMAIN history : file' \in {[entries |-> SubSeq(history, 1, n - 1),
                 cut |-> SubSeq(history[n], 1, k)] : k \in 0 .. Len(history[n])}
    BY <1>1 DEF HistoryCuts
  <1>4. PICK k \in 0 .. Len(history[n]) :
          file' = [entries |-> SubSeq(history, 1, n - 1), cut |-> SubSeq(history[n], 1, k)]
    BY <1>3
  <1>5. n \in 1 .. Len(history) /\ Len(history) \in Nat
    BY <1>2, LenProperties
  <1>6. history[n] \in Seq(Characters) /\ Len(history[n]) \in Nat
    BY <1>2, <1>5, ElementOfSeq, LenProperties DEF Text
  <1>7. SubSeq(history, 1, n - 1) \in Seq(Text)
    <2>1. PICK m \in Nat : m = n - 1 /\ m <= Len(history)
      <3>1. n - 1 \in Nat /\ n - 1 <= Len(history)
        BY <1>5
      <3>. QED BY <3>1
    <2>2. SubSeq(history, 1, m) \in Seq(Text)
      BY <1>2, <2>1, CutIs, 1 \in Nat \ {0}
    <2>. QED BY <2>1, <2>2
  <1>8. SubSeq(history[n], 1, k) \in Text
    <2>1. k \in Nat /\ k <= Len(history[n])
      BY <1>6
    <2>2. SubSeq(history[n], 1, k) \in Seq(Characters)
      BY <1>6, <2>1, CutIs, 1 \in Nat \ {0}
    <2>. QED BY <2>2 DEF Text
  <1>9. file'.entries \in Seq(Text) /\ file'.cut \in Text
    BY <1>4, <1>7, <1>8
  <1>10. FileOfInput'
    BY <1>1, <1>2, <1>9 DEF FileOfInput
  <1>. QED BY <1>1, <1>10, SaveStep

LEMMA CloseStep == IndInv /\ HistoryClose => IndInv'
  <1>. SUFFICES ASSUME IndInv, HistoryClose PROVE IndInv'
    OBVIOUS
  <1>1. /\ stage = "writing" /\ stage' = "idle"
        /\ UNCHANGED <<history, history_max_len, mode, line, before, entered>>
    BY DEF HistoryClose
  <1>2. FileOfInput /\ history \in Seq(Text)
    BY DEF IndInv, WithinArrays, IsHistory
  <1>3. CASE file' = HistorySave(history) /\ saved' = entered /\ excuse' = "none"
    <2>1. file'.entries = history /\ file'.cut = <<>>
      BY <1>3 DEF HistorySave
    <2>2. FileOfInput'
      BY <1>1, <1>2, <1>3, <2>1, EmptyText DEF FileOfInput
    <2>. QED BY <1>1, <2>2, SaveStep
  <1>4. CASE excuse' = "short" /\ UNCHANGED <<file, saved>>
    <2>1. FileOfInput'
      BY <1>1, <1>2, <1>4 DEF FileOfInput
    <2>. QED BY <1>1, <2>1, SaveStep
  <1>. QED BY <1>3, <1>4 DEF HistoryClose

LEMMA RestartStep == IndInv /\ Restart => IndInv'
  <1>. SUFFICES ASSUME IndInv, Restart PROVE IndInv'
    OBVIOUS
  <1>1. /\ history' = HistoryLoad(<<>>, DefaultMaxLen, file) /\ history_max_len' = DefaultMaxLen
        /\ stage' = "idle" /\ line' = NoLine /\ before' = NoLine
        /\ excuse' = (IF stage \in {"saving", "writing"} THEN "ended" ELSE excuse)
        /\ UNCHANGED <<file, mode, entered, saved>>
    BY DEF Restart
  <1>2. file.entries \in Seq(Text) /\ file.cut \in Text /\ DefaultMaxLen \in Nat \ {0}
    BY HistoryAssumption DEF IndInv, FileOfInput, FileUntouched
  <1>3. IsHistory(history', DefaultMaxLen)
    BY <1>1, <1>2, LoadIs
  <1>4. WithinArrays'
    BY <1>1, <1>2, <1>3 DEF WithinArrays, Editing
  <1>5. HistoryOfInput' /\ FileOfInput' /\ UntouchedHistory'
    BY <1>1 DEF IndInv, HistoryOfInput, FileOfInput, FileUntouched, UntouchedHistory, Editing
  <1>. QED BY <1>1, <1>4, <1>5 DEF IndInv

LEMMA HideShowStep == IndInv /\ (Hide \/ Show) => IndInv'
  <1>1. ASSUME IndInv, Hide PROVE IndInv'
    <2>1. Editing /\ Editing'
      BY <1>1 DEF Hide, Editing
    <2>2. EditState(ls, Len(history))
      BY <1>1, <2>1, EditingIs
    <2>3. Same(linenoiseHide(ls), ls)
      BY <2>2, RefreshSame DEF linenoiseHide, EditState
    <2>4. EditState(ls', Len(history))
      BY <1>1, <2>2, <2>3, SameState DEF Hide
    <2>. QED BY <1>1, <2>1, <2>4, EditGoesOn DEF Hide
  <1>2. ASSUME IndInv, Show PROVE IndInv'
    <2>1. Editing /\ Editing'
      BY <1>2 DEF Show, Editing
    <2>2. EditState(ls, Len(history))
      BY <1>2, <2>1, EditingIs
    <2>3. Same(refreshLineWithFlags(ls, FALSE, TRUE), ls)
      BY <2>2, RefreshSame DEF EditState
    <2>4. EditState(refreshLineWithFlags(ls, FALSE, TRUE), Len(history))
      BY <2>2, <2>3, SameState
    <2>5. EditState(refreshLineWithCompletion(ls, FALSE, TRUE), Len(history))
      BY <2>2, ShowState
    <2>6. EditState(ls', Len(history))
      BY <1>2, <2>4, <2>5, Zenon DEF Show, linenoiseShow
    <2>. QED BY <1>2, <2>1, <2>6, EditGoesOn DEF Show
  <1>. QED BY <1>1, <1>2

LEMMA EnterStep == IndInv /\ FeedEnter => IndInv'
  <1>. SUFFICES ASSUME IndInv, FeedEnter PROVE IndInv'
    OBVIOUS
  <1>1. Editing
    BY DEF FeedEnter, Editing
  <1>2. /\ history_max_len \in Nat \ {0} /\ IsHistory(history, history_max_len)
        /\ EditState(ls, Len(history)) /\ history # <<>>
    BY <1>1, EditingIs
  <1>3. PICK l : l = Fed("enter").ls /\ Returns(Finish(l), l.buf)
    BY DEF FeedEnter
  <1>4. l.buf \in Text
    BY <1>2, <1>3, FedState DEF EditState
  <1>5. /\ line' = l.buf /\ stage' = "returned"
        /\ FileUntouched /\ UNCHANGED <<history_max_len, mode, before>>
    BY <1>3 DEF Returns
  <1>6. history' = Front(history)
    BY DEF FeedEnter
  <1>7. WithinArrays'
    <2>1. IsHistory(history', history_max_len)
      BY <1>2, <1>6, FrontIsHistory
    <2>. QED BY <1>2, <1>5, <2>1 DEF WithinArrays, Editing
  <1>8. HistoryOfInput'
    <2>1. before # NoLine => history' = Kept(before, history_max_len)
      <3>. SUFFICES ASSUME before # NoLine PROVE history' = Kept(before, history_max_len)
        OBVIOUS
      <3>1. IsHistory(before, history_max_len) /\ history = HistoryAdd(before, history_max_len, <<>>)
        BY <1>1 DEF IndInv, HistoryOfInput
      <3>. QED BY <1>2, <1>6, <3>1, FrontIsKept
    <2>. QED BY <1>5, <2>1 DEF HistoryOfInput, Editing
  <1>9. FileOfInput' /\ UntouchedHistory'
    BY <1>1, <1>4, <1>5 DEF IndInv, FileOfInput, FileUntouched, UntouchedHistory, Editing
  <1>. QED BY <1>5, <1>7, <1>8, <1>9 DEF IndInv

(* The keys that end the edit without a line. *)
LEMMA InterruptStep == IndInv /\ FeedInterrupt => IndInv'
  <1>. SUFFICES ASSUME IndInv, FeedInterrupt PROVE IndInv'
    OBVIOUS
  <1>1. IsHistory(history, history_max_len) /\ stage = "edit" /\ history' = history
    BY DEF IndInv, WithinArrays, FeedInterrupt
  <1>. QED BY <1>1, NullStep DEF FeedInterrupt

LEMMA EofStep == IndInv /\ FeedEof => IndInv'
  <1>. SUFFICES ASSUME IndInv, FeedEof PROVE IndInv'
    OBVIOUS
  <1>1. stage = "edit" /\ Editing
    BY DEF FeedEof, Editing
  <1>2. /\ history_max_len \in Nat \ {0} /\ IsHistory(history, history_max_len)
        /\ EditState(ls, Len(history)) /\ history # <<>>
    BY <1>1, EditingIs
  <1>3. PICK l : /\ l = Fed("ctrl_d").ls
                 /\ IF l.buf # <<>>
                    THEN More(linenoiseEditDelete(l)) /\ UNCHANGED <<history, cleared, before>>
                    ELSE Returns(l, NoLine) /\ history' = Front(history)
    BY DEF FeedEof
  <1>4. CASE l.buf # <<>>
    <2>1. EditState(linenoiseEditDelete(l), Len(history))
      BY <1>2, <1>3, FedState, DeleteState
    <2>. QED BY <1>1, <1>3, <1>4, <2>1, MoreStep
  <1>5. CASE l.buf = <<>>
    <2>1. IsHistory(history', history_max_len)
      BY <1>2, <1>3, <1>5, FrontIsHistory
    <2>. QED BY <1>1, <1>3, <1>5, <2>1, NullStep
  <1>. QED BY <1>4, <1>5

(* The keys that leave the history alone. *)
LEMMA KeyStep ==
  ASSUME IndInv, FeedClearScreen \/ (\E c \in mode.chars : FeedInsert(c))
                 \/ (\E key \in MoveKeys : FeedMove(key)) \/ (\E key \in KillKeys : FeedKill(key))
  PROVE  IndInv'
  <1>1. Editing /\ stage = "edit" /\ UNCHANGED <<history, before>>
    BY DEF FeedClearScreen, FeedInsert, FeedMove, FeedKill, Editing
  <1>2. EditState(ls, Len(history))
    BY <1>1, EditingIs
  <1>3. CASE FeedClearScreen
    <2>1. PICK l : l = Fed("ctrl_l").ls /\ More(refreshLine([l EXCEPT !.tty = HomeAndClear(@)]))
      BY <1>3 DEF FeedClearScreen
    <2>2. EditState([l EXCEPT !.tty = HomeAndClear(@)], Len(history))
      BY <1>2, <2>1, FedState, TtyState
    <2>3. EditState(refreshLine([l EXCEPT !.tty = HomeAndClear(@)]), Len(history))
      BY <2>2, RefreshState
    <2>. QED BY <1>1, <2>1, <2>3, MoreStep
  <1>4. ASSUME NEW c \in mode.chars, FeedInsert(c) PROVE IndInv'
    <2>1. c \in Chars \cup Controls
      BY InputAssumption DEF IndInv
    <2>2. EditState(linenoiseEditInsert(Fed(c).ls, c), Len(history))
      BY <1>2, <2>1, FedState, InsertState DEF Characters
    <2>3. More(linenoiseEditInsert(Fed(c).ls, c))
      BY <1>4 DEF FeedInsert
    <2>. QED BY <1>1, <2>2, <2>3, MoreStep
  <1>5. ASSUME NEW key \in MoveKeys, FeedMove(key) PROVE IndInv'
    <2>1. EditState(linenoiseEditMove(Fed(key).ls, key), Len(history))
      BY <1>2, FedState, MoveState
    <2>2. More(linenoiseEditMove(Fed(key).ls, key))
      BY <1>5 DEF FeedMove
    <2>. QED BY <1>1, <2>1, <2>2, MoreStep
  <1>6. ASSUME NEW key \in KillKeys, FeedKill(key) PROVE IndInv'
    <2>1. EditState(linenoiseEditKill(Fed(key).ls, key), Len(history))
      BY <1>2, FedState, KillState
    <2>2. More(linenoiseEditKill(Fed(key).ls, key))
      BY <1>6 DEF FeedKill
    <2>. QED BY <1>1, <2>1, <2>2, MoreStep
  <1>. QED BY <1>3, <1>4, <1>5, <1>6

LEMMA CompletionStep ==
  ASSUME IndInv, NEW key, FeedCompletion(key)
  PROVE  IndInv'
  <1>1. Editing /\ stage = "edit"
    BY DEF FeedCompletion, Editing
  <1>2. EditState(ls, Len(history)) /\ IsHistory(history, history_max_len)
    BY <1>1, EditingIs
  <1>3. PICK l : /\ l = Fed(key).ls
                 /\ \/ More(l) /\ UNCHANGED <<history, cleared, before>>
                    \/ Returns(l, NoLine) /\ UNCHANGED history
    BY DEF FeedCompletion
  <1>4. EditState(l, Len(history))
    BY <1>2, <1>3, FedState
  <1>5. CASE More(l) /\ UNCHANGED <<history, cleared, before>>
    BY <1>1, <1>4, <1>5, MoreStep
  <1>6. CASE Returns(l, NoLine) /\ UNCHANGED history
    BY <1>1, <1>2, <1>6, NullStep
  <1>. QED BY <1>3, <1>5, <1>6

LEMMA HistoryStep ==
  ASSUME IndInv, NEW key \in HistoryKeys, FeedHistory(key)
  PROVE  IndInv'
  <1>1. Editing /\ stage = "edit"
    BY DEF FeedHistory, Editing
  <1>2. /\ history_max_len \in Nat \ {0} /\ IsHistory(history, history_max_len)
        /\ EditState(ls, Len(history))
    BY <1>1, EditingIs
  <1>3. PICK next : /\ next = linenoiseEditHistoryNext(Fed(key).ls, key)
                    /\ More(next.ls) /\ history' = next.history
    BY DEF FeedHistory
  <1>4. EditState(Fed(key).ls, Len(history))
    BY <1>2, FedState
  <1>5. /\ IsHistory(next.history, history_max_len) /\ Len(next.history) = Len(history)
        /\ EditState(next.ls, Len(history))
    BY <1>2, <1>3, <1>4, HistoryNextState
  <1>6. /\ before' = NoLine /\ stage' = stage /\ ls' = next.ls
        /\ FileUntouched /\ UNCHANGED <<history_max_len, mode, line>>
    BY <1>3 DEF FeedHistory, More
  <1>7. WithinArrays'
    BY <1>2, <1>3, <1>5, <1>6 DEF WithinArrays
  <1>8. HistoryOfInput' /\ FileOfInput' /\ UntouchedHistory'
    BY <1>1, <1>6 DEF IndInv, HistoryOfInput, FileOfInput, FileUntouched, UntouchedHistory
  <1>. QED BY <1>6, <1>7, <1>8 DEF IndInv

LEMMA PlainStep ==
  ASSUME IndInv, NEW l \in PlainLines, InputPlain(l)
  PROVE  IndInv'
  <1>1. history_max_len \in Nat \ {0} /\ IsHistory(history, history_max_len) /\ l \in Text
    BY InputAssumption DEF IndInv, WithinArrays
  <1>2. /\ stage = "idle" /\ stage' = "returned" /\ before' = NoLine /\ line' = l
        /\ FileUntouched /\ UNCHANGED <<history, history_max_len, mode>>
    BY DEF InputPlain
  <1>3. WithinArrays' /\ HistoryOfInput' /\ UntouchedHistory'
    BY <1>1, <1>2 DEF WithinArrays, HistoryOfInput, UntouchedHistory, Editing
  <1>4. FileOfInput'
    BY <1>1, <1>2 DEF IndInv, FileOfInput, FileUntouched
  <1>. QED BY <1>2, <1>3, <1>4 DEF IndInv

LEMMA SetLengthStep ==
  ASSUME IndInv, NEW len \in Lengths, set_history_length(len)
  PROVE  IndInv'
  <1>1. history_max_len \in Nat \ {0} /\ IsHistory(history, history_max_len) /\ len \in Int
    BY HistoryAssumption DEF IndInv, WithinArrays
  <1>2. /\ stage = "idle" /\ before' = NoLine
        /\ history' = HistorySetMaxLen(history, history_max_len, len).history
        /\ history_max_len' = HistorySetMaxLen(history, history_max_len, len).max
        /\ FileUntouched /\ UNCHANGED <<mode, stage, line>>
    BY DEF set_history_length
  <1>3. history_max_len' \in Nat \ {0} /\ IsHistory(history', history_max_len')
    BY <1>1, <1>2, HistorySetMaxLenIs
  <1>4. WithinArrays'
    BY <1>2, <1>3 DEF WithinArrays, Editing
  <1>5. HistoryOfInput' /\ FileOfInput' /\ UntouchedHistory'
    BY <1>2 DEF IndInv, HistoryOfInput, FileOfInput, FileUntouched, UntouchedHistory
  <1>. QED BY <1>2, <1>4, <1>5 DEF IndInv

LEMMA StutterStep == IndInv /\ UNCHANGED vars => IndInv'
  <1>. SUFFICES ASSUME IndInv, UNCHANGED vars PROVE IndInv'
    OBVIOUS
  <1>1. /\ UNCHANGED <<ls, history, history_max_len, mode, stage, line, before>>
        /\ FileUntouched
    BY DEF vars, FileUntouched
  <1>2. WithinArrays' /\ HistoryOfInput'
    BY <1>1 DEF IndInv, WithinArrays, HistoryOfInput, Editing
  <1>3. FileOfInput' /\ UntouchedHistory'
    BY <1>1 DEF IndInv, FileOfInput, FileUntouched, UntouchedHistory
  <1>. QED BY <1>1, <1>2, <1>3 DEF IndInv

-----------------------------------------------------------------------------
(* The theorems *)

(* The invariant holds of every behaviour of the editor: every key, the API  *)
(* calls and a restart at any point keep it. *)
THEOREM Invariance == Spec => []IndInv
  <1>1. Init => IndInv
    BY InitInv
  <1>2. IndInv /\ [Next]_vars => IndInv'
    <2>. SUFFICES ASSUME IndInv, [Next]_vars PROVE IndInv'
      OBVIOUS
    <2>. QED BY EditStartStep, EditStopStep, OpenStep, FlushStep, CloseStep, RestartStep, HideShowStep, EnterStep, InterruptStep,
                EofStep, KeyStep, CompletionStep, HistoryStep, PlainStep, SetLengthStep,
                StutterStep DEF Next
  <1>. QED BY <1>1, <1>2, PTL DEF Spec

(* linenoiseEditFeed and what it calls never index outside of buf or of the  *)
(* history, whatever keys, completions, lengths and restarts come: the text  *)
(* and its zero fit the buffer, the cursor is in the text or behind it, and   *)
(* history_index names an entry. *)
THEOREM EditsWithinArrays == Spec => []WithinArrays
  <1>1. IndInv => WithinArrays
    BY DEF IndInv
  <1>. QED BY <1>1, Invariance, PTL

(* An input without a history key leaves the history with the line behind   *)
(* it and the entry of the edited line gone, for every length of history. *)
THEOREM InputKeepsHistory == Spec => []UntouchedHistory
  <1>1. IndInv => UntouchedHistory
    BY DEF IndInv
  <1>. QED BY <1>1, Invariance, PTL

(* Loading the file brings back the line that was entered last before it was *)
(* closed in full, wherever the process ends and whatever save was refused,  *)
(* cut short or never closed before; and that is the line entered last of    *)
(* all unless its own save was. *)
THEOREM EnteredLineSurvives == Spec => []EnteredSurvives
  <1>1. IndInv => EnteredSurvives
    <2>. SUFFICES ASSUME IndInv PROVE EnteredSurvives
      OBVIOUS
    <2>1. FileOfInput
      BY DEF IndInv
    <2>2. DefaultMaxLen \in Nat \ {0} /\ DefaultMaxLen > 1
      BY HistoryAssumption
    <2>3. ASSUME saved # NoLine, OneLine(saved)
          PROVE  Contains(HistoryLoad(<<>>, DefaultMaxLen, file), saved)
      <3>1. /\ file.entries \in Seq(Text) /\ file.cut \in Text /\ file.entries # <<>>
            /\ Last(file.entries) = saved /\ file.cut = <<>>
        BY <2>1, <2>3 DEF FileOfInput
      <3>2. Contains(HistoryLoad(<<>>, DefaultMaxLen, file), Last(file.entries))
        <4>1. OneLine(Last(file.entries))
          BY <2>3, <3>1
        <4>. QED BY <2>2, <3>1, <4>1, LoadIs
      <3>. QED BY <3>1, <3>2
    <2>4. stage \notin {"saving", "writing"} /\ excuse = "none" => saved = entered
      BY <2>1 DEF FileOfInput
    <2>. QED BY <2>3, <2>4 DEF EnteredSurvives
  <1>. QED BY <1>1, Invariance, PTL
=============================================================================
