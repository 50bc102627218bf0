------------------------- MODULE BufferEditsProofs -------------------------
(***************************************************************************)
(* Proofs about BufferEdits: places stay in the text and between the       *)
(* characters they were between, what is inserted is visible, and undo     *)
(* restores the text, for any number of indirect buffers and markers, any  *)
(* text and any number of edits, undos and changes of view.                *)
(***************************************************************************)
EXTENDS BufferEdits, SequenceTheorems, FiniteSetTheorems,
        WellFoundedInduction, TLAPS

-----------------------------------------------------------------------------
(* The inductive invariant.                                                *)

Place == Nat \ {0}
Insertions == {e \in [kind : {"insert"}, beg : Place, end : Nat] : e.beg < e.end}
Deletions  == [kind : {"delete"}, text : Seq(Nat) \ {<<>>}, beg : Place, after : BOOLEAN]
Shifts     == [kind : {"adjust"}, marker : Markers, by : Int]
Firsts     == [kind : {"first"}, time : Nat]
Points     == [kind : {"point"}, at : Nat]
Boundaries == [kind : {"boundary"}, text : Seq(Nat), mark : Places, still : SUBSET Markers]
Entries    == Insertions \cup Deletions \cup Shifts \cup Firsts \cup Points \cup Boundaries

ViewSet == [point : Nat, begv : Nat, zv : Nat, undo : Seq(Entries), before : Nat]
Buffers == [text : Seq(Nat), view : [Views -> ViewSet], mark : Places,
            modified : BOOLEAN, time : Nat]

InText(w, n) == w.begv <= w.zv /\ w.zv <= n /\ w.point <= n
Typed(b) == b \in Buffers /\ \A v \in Views : InText(b.view[v], Len(b.text))

\* The text without the characters from I up to J, and with S after the first I.
Cut(x, i, j) == SubSeq(x, 1, i) \o SubSeq(x, j + 1, Len(x))
Put(x, i, s) == SubSeq(x, 1, i) \o s \o SubSeq(x, i + 1, Len(x))

\* Taking back the edit of a record makes the text Y of X.
Undoes(e, x, y) ==
    CASE e.kind = "insert"   -> e.end - 1 <= Len(x) /\ y = Cut(x, e.beg - 1, e.end - 1)
      [] e.kind = "delete"   -> e.beg - 1 <= Len(x) /\ y = Put(x, e.beg - 1, e.text)
      [] e.kind = "boundary" -> y = x /\ e.text = x
      [] OTHER               -> y = x

\* The texts on the way back.
Replay(t, x, list, y) ==
    /\ t \in [0 .. Len(list) -> Seq(Nat)]
    /\ t[0] = x /\ t[Len(list)] = y
    /\ \A k \in 1 .. Len(list) : Undoes(list[k], t[k - 1], t[k])

\* Taking back what is on a list leads from the text X to Y.
Leads(x, list, y) == \E t : Replay(t, x, list, y)

IInv ==
    /\ Typed(buf) /\ current \in Views
    /\ still \in SUBSET Markers
    /\ Leads(buf.text, List, Original)
    /\ pending # None => pending \in Seq(Entries) /\ Leads(buf.text, pending, Original)
    /\ goal # None => goal \in Goals
    /\ UndoRestores

-----------------------------------------------------------------------------
(* Pieces of sequences.                                                    *)

LEMMA LeastIndex ==
    ASSUME NEW T \in SUBSET Nat, T # {}
    PROVE  \E x \in T : \A y \in T : x <= y
<1> DEFINE R == {ss \in Nat \X Nat : ss[1] < ss[2]}
<1>1. IsWellFoundedOn(R, Nat)
  BY NatLessThanWellFounded DEF OpToRel
<1>2. PICK x \in T : \A y \in T : ~(<<y, x>> \in R)
  BY <1>1, WFMin
<1>3. ASSUME NEW y \in T, y < x PROVE FALSE
  <2>1. <<y, x>> \in Nat \X Nat /\ <<y, x>>[1] < <<y, x>>[2]
    BY <1>3
  <2> QED BY <1>2, <2>1
<1> QED BY <1>3

LEMMA PartFacts ==
    ASSUME NEW S, NEW x \in Seq(S), NEW i \in Nat, NEW j \in Nat, i <= j, j <= Len(x)
    PROVE  /\ SubSeq(x, i + 1, j) \in Seq(S) /\ Len(SubSeq(x, i + 1, j)) = j - i
           /\ \A k \in 1 .. j - i : SubSeq(x, i + 1, j)[k] = x[i + k]
<1>1. Len(x) \in Nat /\ i + 1 \in 1 .. Len(x) + 1 /\ j \in i .. Len(x)
  BY LenProperties
<1>2. \A k \in i + 1 .. j : x[k] \in S
  BY <1>1, ElementOfSeq
<1>3. SubSeq(x, i + 1, j) \in Seq(S)
  BY <1>1, <1>2, SubSeqProperties
<1>4. Len(SubSeq(x, i + 1, j)) = j - i
  BY <1>1, <1>2, SubSeqProperties
<1>5. \A k \in 1 .. j - i : SubSeq(x, i + 1, j)[k] = x[i + k]
  BY <1>1, <1>2, SubSeqProperties
<1> QED BY <1>3, <1>4, <1>5

LEMMA BeginFacts ==
    ASSUME NEW S, NEW x \in Seq(S), NEW j \in Nat, j <= Len(x)
    PROVE  /\ SubSeq(x, 1, j) \in Seq(S) /\ Len(SubSeq(x, 1, j)) = j
           /\ \A k \in 1 .. j : SubSeq(x, 1, j)[k] = x[k]
<1>1. 0 \in Nat /\ 0 <= j /\ 0 + 1 = 1 /\ j - 0 = j /\ \A k \in 1 .. j : 0 + k = k
  OBVIOUS
<1> QED BY <1>1, PartFacts

LEMMA JoinFacts ==
    ASSUME NEW S, NEW x \in Seq(S), NEW y \in Seq(S)
    PROVE  /\ x \o y \in Seq(S) /\ Len(x \o y) = Len(x) + Len(y)
           /\ \A k \in 1 .. Len(x) + Len(y) :
                (x \o y)[k] = IF k <= Len(x) THEN x[k] ELSE y[k - Len(x)]
BY ConcatProperties

\* A region of a sequence, and the sequence without it.
Region(S, x, i, j) == x \in Seq(S) /\ i \in Nat /\ j \in Nat /\ i <= j /\ j <= Len(x)
IsCut(S, z, x, i, j) ==
    /\ z \in Seq(S) /\ Len(z) = Len(x) - (j - i)
    /\ \A k \in 1 .. Len(x) - (j - i) : z[k] = IF k <= i THEN x[k] ELSE x[k + (j - i)]

\* A gap in a sequence, and the sequence with S in it.
Gap(S, x, i, s) == x \in Seq(S) /\ s \in Seq(S) /\ i \in Nat /\ i <= Len(x)
IsPut(S, z, x, i, s) ==
    /\ z \in Seq(S) /\ Len(z) = Len(x) + Len(s)
    /\ \A k \in 1 .. Len(x) + Len(s) :
         z[k] = IF k <= i THEN x[k]
                ELSE IF k <= i + Len(s) THEN s[k - i] ELSE x[k - Len(s)]

LEMMA CutFacts ==
    ASSUME NEW S, NEW x, NEW i, NEW j, Region(S, x, i, j)
    PROVE  IsCut(S, Cut(x, i, j), x, i, j)
<1>0. x \in Seq(S) /\ i \in Nat /\ j \in Nat /\ i <= j /\ j <= Len(x)
  BY DEF Region
<1> DEFINE a == SubSeq(x, 1, i)
           n == Len(x)
           b == SubSeq(x, j + 1, n)
<1>1. n \in Nat /\ i <= n /\ n <= n
  BY <1>0, LenProperties
<1>2. a \in Seq(S) /\ Len(a) = i /\ \A k \in 1 .. i : a[k] = x[k]
  BY <1>0, <1>1, BeginFacts
<1>3. b \in Seq(S) /\ Len(b) = n - j /\ \A k \in 1 .. n - j : b[k] = x[j + k]
  BY <1>0, <1>1, PartFacts
<1> HIDE DEF a, b, n
<1>4. /\ a \o b \in Seq(S) /\ Len(a \o b) = i + (n - j)
      /\ \A k \in 1 .. i + (n - j) : (a \o b)[k] = IF k <= i THEN a[k] ELSE b[k - i]
  <2>1. /\ a \o b \in Seq(S) /\ Len(a \o b) = Len(a) + Len(b)
        /\ \A k \in 1 .. Len(a) + Len(b) :
             (a \o b)[k] = IF k <= Len(a) THEN a[k] ELSE b[k - Len(a)]
    BY <1>2, <1>3, JoinFacts
  <2> QED BY <1>2, <1>3, <2>1
<1>5. i + (n - j) = n - (j - i)
  BY <1>0, <1>1
<1>6. ASSUME NEW k \in 1 .. n - (j - i)
      PROVE  (a \o b)[k] = IF k <= i THEN x[k] ELSE x[k + (j - i)]
  <2>1. CASE k <= i
    BY <1>0, <1>2, <1>4, <1>5, <2>1
  <2>2. CASE ~(k <= i)
    <3>1. k - i \in 1 .. n - j /\ j + (k - i) = k + (j - i)
      BY <1>0, <1>1, <2>2
    <3>2. (a \o b)[k] = b[k - i]
      BY <1>4, <1>5, <2>2
    <3> QED BY <1>3, <2>2, <3>1, <3>2
  <2> QED BY <2>1, <2>2
<1> QED BY <1>4, <1>5, <1>6 DEF IsCut, Cut, a, b, n

LEMMA PutFacts ==
    ASSUME NEW S, NEW x, NEW i, NEW s, Gap(S, x, i, s)
    PROVE  IsPut(S, Put(x, i, s), x, i, s)
<1>0. x \in Seq(S) /\ s \in Seq(S) /\ i \in Nat /\ i <= Len(x)
  BY DEF Gap
<1> DEFINE a == SubSeq(x, 1, i)
           n == Len(x)
           m == Len(s)
           b == SubSeq(x, i + 1, n)
<1>1. n \in Nat /\ m \in Nat /\ i <= n /\ n <= n
  BY <1>0, LenProperties
<1>2. a \in Seq(S) /\ Len(a) = i /\ \A k \in 1 .. i : a[k] = x[k]
  BY <1>0, <1>1, BeginFacts
<1>3. b \in Seq(S) /\ Len(b) = n - i /\ \A k \in 1 .. n - i : b[k] = x[i + k]
  BY <1>0, <1>1, PartFacts
<1> HIDE DEF a, b, n
<1> DEFINE c == a \o s
<1>4. /\ c \in Seq(S) /\ Len(c) = i + m
      /\ \A k \in 1 .. i + m : c[k] = IF k <= i THEN a[k] ELSE s[k - i]
  BY <1>0, <1>2, JoinFacts
<1> HIDE DEF c, m
<1>5. /\ c \o b \in Seq(S) /\ Len(c \o b) = (i + m) + (n - i)
      /\ \A k \in 1 .. (i + m) + (n - i) : (c \o b)[k] = IF k <= i + m THEN c[k] ELSE b[k - (i + m)]
  <2>1. /\ c \o b \in Seq(S) /\ Len(c \o b) = Len(c) + Len(b)
        /\ \A k \in 1 .. Len(c) + Len(b) :
             (c \o b)[k] = IF k <= Len(c) THEN c[k] ELSE b[k - Len(c)]
    BY <1>3, <1>4, JoinFacts
  <2> QED BY <1>3, <1>4, <2>1
<1>6. (i + m) + (n - i) = n + m
  BY <1>0, <1>1
<1>7. ASSUME NEW k \in 1 .. n + m
      PROVE  (c \o b)[k] = IF k <= i THEN x[k] ELSE IF k <= i + m THEN s[k - i] ELSE x[k - m]
  <2>1. CASE k <= i
    BY <1>0, <1>1, <1>2, <1>4, <1>5, <1>6, <2>1
  <2>2. CASE ~(k <= i) /\ k <= i + m
    BY <1>0, <1>1, <1>4, <1>5, <1>6, <2>2
  <2>3. CASE ~(k <= i + m)
    <3>1. k - (i + m) \in 1 .. n - i /\ i + (k - (i + m)) = k - m /\ ~(k <= i)
      BY <1>0, <1>1, <2>3
    <3>2. (c \o b)[k] = b[k - (i + m)]
      BY <1>5, <1>6, <2>3
    <3> QED BY <1>3, <2>3, <3>1, <3>2
  <2> QED BY <1>0, <1>1, <2>1, <2>2, <2>3
<1> QED BY <1>5, <1>6, <1>7 DEF IsPut, Put, a, b, c, n, m

\* What is put in before the end of a region goes out with it.
LEMMA CutOfPut ==
    ASSUME NEW S, NEW x, NEW i, NEW j, NEW s, Region(S, x, i, j), Gap(S, x, j, s)
    PROVE  Cut(Put(x, j, s), i, j + Len(s)) = Cut(x, i, j)
<1> DEFINE n == Len(x)
           m == Len(s)
           y == Put(x, j, s)
           e == j + m
           z == Cut(y, i, e)
           w == Cut(x, i, j)
<1>1. /\ n \in Nat /\ m \in Nat /\ i \in Nat /\ j \in Nat /\ i <= j /\ j <= n
      /\ Gap(S, x, j, s)
  BY LenProperties DEF Region, Gap
<1>2. IsPut(S, y, x, j, s)
  BY <1>1, PutFacts
<1> HIDE DEF y
<1>3. e \in Nat /\ i <= e /\ e <= Len(y) /\ y \in Seq(S)
  BY <1>1, <1>2 DEF IsPut
<1> HIDE DEF e
<1>4. IsCut(S, z, y, i, e) /\ IsCut(S, w, x, i, j)
  BY <1>1, <1>3, CutFacts DEF Region
<1> HIDE DEF z, w, n, m
<1>5. /\ Len(y) = n + m /\ Len(y) - (e - i) = n - (j - i)
  <2>1. Len(y) = n + m
    BY <1>2 DEF IsPut, n, m
  <2> QED BY <1>1, <2>1 DEF e
<1>6. ASSUME NEW k \in 1 .. n - (j - i) PROVE z[k] = w[k]
  <2>1. /\ z[k] = IF k <= i THEN y[k] ELSE y[k + (e - i)]
        /\ w[k] = IF k <= i THEN x[k] ELSE x[k + (j - i)]
    BY <1>4, <1>5 DEF IsCut, n
  <2>2. CASE k <= i
    <3>1. k \in 1 .. n + m /\ k <= j
      BY <1>1, <2>2
    <3>2. y[k] = x[k]
      BY <1>2, <3>1 DEF IsPut, n, m
    <3> QED BY <2>1, <2>2, <3>2
  <2>3. CASE ~(k <= i)
    <3> DEFINE l == k + (e - i)
    <3>1. /\ l \in 1 .. n + m /\ ~(l <= e) /\ ~(l <= j) /\ l - m = k + (j - i)
      BY <1>1, <1>3, <2>3 DEF e
    <3> HIDE DEF l
    <3>2. y[l] = x[l - m]
      BY <1>2, <3>1 DEF IsPut, n, m, e
    <3>3. z[k] = y[l] /\ w[k] = x[l - m]
      BY <2>1, <2>3, <3>1 DEF l
    <3> QED BY <3>2, <3>3
  <2> QED BY <2>2, <2>3
<1>7. z = w
  <2>1. z \in Seq(S) /\ w \in Seq(S) /\ Len(z) = n - (j - i) /\ Len(w) = n - (j - i)
    BY <1>4, <1>5 DEF IsCut, n
  <2> QED BY <1>6, <2>1, SeqEqual
<1> QED BY <1>7 DEF z, w, y, e, m

LEMMA CutNothing ==
    ASSUME NEW S, NEW x, NEW i, Region(S, x, i, i)
    PROVE  Cut(x, i, i) = x
<1>1. Len(x) \in Nat /\ x \in Seq(S) /\ i \in Nat
  BY LenProperties DEF Region
<1>2. IsCut(S, Cut(x, i, i), x, i, i)
  BY CutFacts
<1>3. /\ Len(Cut(x, i, i)) = Len(x) /\ Cut(x, i, i) \in Seq(S)
      /\ \A k \in 1 .. Len(x) : Cut(x, i, i)[k] = x[k]
  <2>1. Len(x) - (i - i) = Len(x) /\ \A k \in 1 .. Len(x) : k + (i - i) = k
    BY <1>1
  <2> QED BY <1>2, <2>1 DEF IsCut
<1> QED BY <1>1, <1>3, SeqEqual

\* X and Y are the same outside a region.
Outside(x, y, i, j) ==
    Len(y) = Len(x) /\ \A k \in 1 .. Len(x) : k <= i \/ k > j => y[k] = x[k]

\* A region of Y is exchanged for that of X.
Exchanged(x, y, i, j) == Put(Cut(y, i, j), i, SubSeq(x, i + 1, j))
IsExchanged(S, z, x, y, i, j) ==
    /\ z \in Seq(S) /\ Len(z) = Len(y)
    /\ \A k \in 1 .. Len(y) : z[k] = IF k <= i \/ k > j THEN y[k] ELSE x[k]

LEMMA ExchangedFacts ==
    ASSUME NEW S, NEW x, NEW y, NEW i, NEW j, Region(S, x, i, j), Region(S, y, i, j)
    PROVE  /\ IsExchanged(S, Exchanged(x, y, i, j), x, y, i, j)
           /\ Cut(y, i, j) \in Seq(S) /\ i <= Len(Cut(y, i, j))
<1> DEFINE n == Len(y)
           s == SubSeq(x, i + 1, j)
           c == Cut(y, i, j)
           z == Put(c, i, s)
           m == j - i
<1>1. /\ n \in Nat /\ i \in Nat /\ j \in Nat /\ i <= j /\ j <= n /\ j <= Len(x)
      /\ x \in Seq(S)
  BY LenProperties DEF Region
<1>2. s \in Seq(S) /\ Len(s) = m /\ \A k \in 1 .. m : s[k] = x[i + k]
  BY <1>1, PartFacts
<1>3. IsCut(S, c, y, i, j)
  BY CutFacts
<1> HIDE DEF s, c
<1>4. /\ Gap(S, c, i, s) /\ Len(c) = n - m /\ Len(c) + Len(s) = n
      /\ m \in Nat /\ i + m = j /\ c \in Seq(S)
  <2>1. c \in Seq(S) /\ Len(c) = n - m /\ Len(s) = m /\ s \in Seq(S)
    BY <1>2, <1>3 DEF IsCut
  <2>2. m \in Nat /\ i + m = j /\ n - m + m = n /\ i <= n - m
    BY <1>1
  <2> QED BY <1>1, <2>1, <2>2 DEF Gap
<1>5. IsPut(S, z, c, i, s)
  BY <1>4, PutFacts
<1> HIDE DEF n, m, z
<1>6. ASSUME NEW k \in 1 .. n PROVE z[k] = IF k <= i \/ k > j THEN y[k] ELSE x[k]
  <2>0. z[k] = IF k <= i THEN c[k] ELSE IF k <= j THEN s[k - i] ELSE c[k - m]
    BY <1>2, <1>4, <1>5 DEF IsPut
  <2>1. CASE k <= i
    <3>1. k \in 1 .. n - m
      BY <1>1, <1>4, <2>1
    <3>2. c[k] = y[k]
      BY <1>3, <2>1, <3>1 DEF IsCut, n, m
    <3> QED BY <2>0, <2>1, <3>2
  <2>2. CASE ~(k <= i) /\ k <= j
    <3>1. k - i \in 1 .. m /\ i + (k - i) = k
      BY <1>1, <1>4, <2>2
    <3>2. s[k - i] = x[k]
      BY <1>2, <3>1
    <3>3. ~(k <= i \/ k > j) /\ z[k] = x[k]
      BY <1>1, <2>0, <2>2, <3>2
    <3> QED BY <3>3
  <2>3. CASE ~(k <= j)
    <3> DEFINE l == k - m
    <3>1. l \in 1 .. n - m /\ ~(l <= i) /\ l + m = k /\ ~(k <= i)
      BY <1>1, <1>4, <2>3
    <3> HIDE DEF l
    <3>2. c[l] = y[l + m]
      BY <1>3, <3>1 DEF IsCut, n, m
    <3>3. z[k] = c[l]
      BY <2>0, <2>3, <3>1 DEF l
    <3>4. z[k] = y[k] /\ k > j
      BY <1>1, <2>3, <3>1, <3>2, <3>3
    <3> QED BY <3>4
  <2> QED BY <1>1, <2>1, <2>2, <2>3
<1>7. z \in Seq(S) /\ Len(z) = n
  BY <1>4, <1>5 DEF IsPut
<1>8. i <= Len(c) /\ c \in Seq(S)
  BY <1>4 DEF Gap
<1> QED BY <1>6, <1>7, <1>8 DEF IsExchanged, Exchanged, n, z, c, s

LEMMA ExchangedBack ==
    ASSUME NEW S, NEW x, NEW y, NEW i, NEW j, Region(S, x, i, j), Region(S, y, i, j),
           Outside(x, y, i, j)
    PROVE  Exchanged(x, y, i, j) = x
<1> DEFINE z == Exchanged(x, y, i, j)
<1>1. IsExchanged(S, z, x, y, i, j)
  BY ExchangedFacts
<1> HIDE DEF z
<1>2. x \in Seq(S) /\ z \in Seq(S) /\ Len(z) = Len(x) /\ \A k \in 1 .. Len(z) : z[k] = x[k]
  BY <1>1 DEF IsExchanged, Outside, Region
<1>3. z = x
  BY <1>2, SeqEqual
<1> QED BY <1>3 DEF z

\* A region is replaced by S.
Swapped(x, i, j, s) == SubSeq(x, 1, i) \o s \o SubSeq(x, j + 1, Len(x))
IsSwapped(S, z, x, i, j, s) ==
    /\ z \in Seq(S) /\ Len(z) = Len(x) - (j - i) + Len(s)
    /\ \A k \in 1 .. Len(x) - (j - i) + Len(s) :
         z[k] = IF k <= i THEN x[k]
                ELSE IF k <= i + Len(s) THEN s[k - i] ELSE x[k - Len(s) + (j - i)]

\* Z is A followed by B.
IsJoin(S, z, a, b) ==
    /\ z \in Seq(S) /\ Len(z) = Len(a) + Len(b)
    /\ \A k \in 1 .. Len(a) + Len(b) : z[k] = IF k <= Len(a) THEN a[k] ELSE b[k - Len(a)]

\* Z is the region of X from I up to J.
IsPart(S, z, x, i, j) ==
    /\ z \in Seq(S) /\ Len(z) = j - i
    /\ \A k \in 1 .. j - i : z[k] = x[i + k]

LEMMA JoinIs ==
    ASSUME NEW S, NEW a, NEW b, a \in Seq(S), b \in Seq(S)
    PROVE  IsJoin(S, a \o b, a, b)
BY JoinFacts DEF IsJoin

LEMMA PartIs ==
    ASSUME NEW S, NEW x, NEW i, NEW j, Region(S, x, i, j)
    PROVE  IsPart(S, SubSeq(x, i + 1, j), x, i, j)
<1>1. x \in Seq(S) /\ i \in Nat /\ j \in Nat /\ i <= j /\ j <= Len(x)
  BY DEF Region
<1> QED BY <1>1, PartFacts DEF IsPart

LEMMA BeginIs ==
    ASSUME NEW S, NEW x, NEW i, NEW j, Region(S, x, i, j)
    PROVE  IsPart(S, SubSeq(x, 1, i), x, 0, i)
<1>1. /\ x \in Seq(S) /\ i \in Nat /\ 0 \in Nat /\ 0 <= i /\ i <= Len(x) /\ 0 + 1 = 1
  BY LenProperties DEF Region
<1>2. Region(S, x, 0, i)
  BY <1>1 DEF Region
<1>3. IsPart(S, SubSeq(x, 0 + 1, i), x, 0, i)
  BY <1>2, PartIs
<1> QED BY <1>1, <1>3

LEMMA RestIs ==
    ASSUME NEW S, NEW x, NEW i, NEW j, Region(S, x, i, j)
    PROVE  IsPart(S, SubSeq(x, j + 1, Len(x)), x, j, Len(x))
<1>1. Region(S, x, j, Len(x))
  BY LenProperties DEF Region
<1> QED BY <1>1, PartIs

LEMMA SwappedFacts ==
    ASSUME NEW S, NEW x, NEW i, NEW j, NEW s, Region(S, x, i, j), s \in Seq(S)
    PROVE  IsSwapped(S, Swapped(x, i, j, s), x, i, j, s)
<1> DEFINE n == Len(x)
           m == Len(s)
           a == SubSeq(x, 1, i)
           b == SubSeq(x, j + 1, n)
           c == a \o s
           z == c \o b
<1>1. n \in Nat /\ m \in Nat /\ i \in Nat /\ j \in Nat /\ i <= j /\ j <= n
  BY LenProperties DEF Region
<1>2. IsPart(S, a, x, 0, i) /\ IsPart(S, b, x, j, n)
  BY BeginIs, RestIs
<1> HIDE DEF a, b
<1>3. IsJoin(S, c, a, s)
  BY <1>2, JoinIs DEF IsPart
<1> HIDE DEF c
<1>4. IsJoin(S, z, c, b)
  <2>1. c \in Seq(S) /\ b \in Seq(S)
    BY <1>2, <1>3 DEF IsPart, IsJoin
  <2> QED BY <2>1, JoinIs
<1> HIDE DEF z, n, m
<1>5. Len(a) = i /\ Len(b) = n - j /\ Len(c) = i + m /\ Len(z) = n - (j - i) + m
  <2>1. Len(a) = i - 0 /\ Len(b) = n - j /\ Len(c) = Len(a) + m /\ Len(z) = Len(c) + Len(b)
    BY <1>2, <1>3, <1>4 DEF IsPart, IsJoin, m
  <2> QED BY <1>1, <2>1
<1>6. ASSUME NEW k \in 1 .. n - (j - i) + m
      PROVE  z[k] = IF k <= i THEN x[k] ELSE IF k <= i + m THEN s[k - i] ELSE x[k - m + (j - i)]
  <2>1. k \in 1 .. Len(c) + Len(b)
    BY <1>1, <1>5
  <2>2. z[k] = IF k <= i + m THEN c[k] ELSE b[k - (i + m)]
    BY <1>4, <1>5, <2>1 DEF IsJoin
  <2>3. CASE k <= i + m
    <3>1. k \in 1 .. Len(a) + Len(s) /\ Len(s) = m
      BY <1>1, <1>5, <2>3 DEF m
    <3>2. c[k] = IF k <= i THEN a[k] ELSE s[k - i]
      BY <1>3, <1>5, <3>1 DEF IsJoin
    <3>3. k <= i => a[k] = x[k]
      <4> SUFFICES ASSUME k <= i PROVE a[k] = x[k]
        OBVIOUS
      <4>1. k \in 1 .. i - 0 /\ 0 + k = k
        BY <1>1
      <4> QED BY <1>2, <4>1 DEF IsPart
    <3> QED BY <2>2, <2>3, <3>2, <3>3
  <2>4. CASE ~(k <= i + m)
    <3> DEFINE l == k - (i + m)
    <3>1. l \in 1 .. n - j /\ ~(k <= i) /\ j + l = k - m + (j - i)
      BY <1>1, <2>4
    <3> HIDE DEF l
    <3>2. b[l] = x[j + l]
      BY <1>2, <3>1 DEF IsPart
    <3>3. z[k] = b[l]
      BY <2>2, <2>4 DEF l
    <3> QED BY <2>4, <3>1, <3>2, <3>3
  <2> QED BY <2>3, <2>4
<1>7. z \in Seq(S)
  BY <1>4 DEF IsJoin
<1> QED BY <1>5, <1>6, <1>7 DEF IsSwapped, Swapped, z, c, a, b, n, m

\* The replaced text is put back in front of what replaced it.
LEMMA PutOfSwapped ==
    ASSUME NEW S, NEW x, NEW i, NEW j, NEW s, Region(S, x, i, j), s \in Seq(S)
    PROVE  /\ Put(Swapped(x, i, j, s), i, SubSeq(x, i + 1, j)) = Put(x, j, s)
           /\ Gap(S, Swapped(x, i, j, s), i, SubSeq(x, i + 1, j))
<1> DEFINE n == Len(x)
           m == Len(s)
           p == SubSeq(x, i + 1, j)
           y == Swapped(x, i, j, s)
           z == Put(y, i, p)
           w == Put(x, j, s)
           d == j - i
<1>1. /\ n \in Nat /\ m \in Nat /\ i \in Nat /\ j \in Nat /\ i <= j /\ j <= n
      /\ x \in Seq(S) /\ d \in Nat /\ i + d = j
  BY LenProperties DEF Region
<1>2. IsPart(S, p, x, i, j) /\ IsSwapped(S, y, x, i, j, s)
  BY PartIs, SwappedFacts
<1>3. IsPut(S, w, x, j, s)
  BY <1>1, PutFacts DEF Gap
<1> HIDE DEF p, y, w
<1>4. Len(p) = d /\ Len(y) = n - d + m /\ Gap(S, y, i, p)
  <2>1. Len(p) = d /\ Len(y) = n - d + m /\ p \in Seq(S) /\ y \in Seq(S)
    BY <1>2 DEF IsPart, IsSwapped
  <2>2. i <= n - d + m
    BY <1>1
  <2> QED BY <1>1, <2>1, <2>2 DEF Gap
<1>5. IsPut(S, z, y, i, p)
  BY <1>4, PutFacts
<1> HIDE DEF z, n, m, d
<1>6. Len(y) + Len(p) = n + m /\ Len(s) = m /\ Len(x) = n
  BY <1>1, <1>4 DEF n, m
<1>7. ASSUME NEW k \in 1 .. n + m PROVE z[k] = w[k]
  <2>1. /\ z[k] = IF k <= i THEN y[k] ELSE IF k <= j THEN p[k - i] ELSE y[k - d]
        /\ w[k] = IF k <= j THEN x[k] ELSE IF k <= j + m THEN s[k - j] ELSE x[k - m]
    BY <1>1, <1>3, <1>4, <1>5, <1>6 DEF IsPut
  <2>2. \A l \in 1 .. n - d + m :
           y[l] = IF k <= i /\ l = k THEN x[k]
                  ELSE IF l <= i THEN x[l]
                  ELSE IF l <= i + m THEN s[l - i] ELSE x[l - m + d]
    BY <1>2, <1>6 DEF IsSwapped, d
  <2>3. CASE k <= i
    <3>1. k \in 1 .. n - d + m /\ k <= j
      BY <1>1, <2>3
    <3> QED BY <2>1, <2>2, <2>3, <3>1
  <2>4. CASE ~(k <= i) /\ k <= j
    <3>1. k - i \in 1 .. j - i /\ i + (k - i) = k
      BY <1>1, <2>4
    <3>2. p[k - i] = x[k]
      BY <1>2, <3>1 DEF IsPart
    <3> QED BY <2>1, <2>4, <3>2
  <2>5. CASE ~(k <= j)
    <3> DEFINE l == k - d
    <3>1. /\ l \in 1 .. n - d + m /\ ~(l <= i) /\ ~(k <= i) /\ l - i = k - j
          /\ l - m + d = k - m /\ (l <= i + m <=> k <= j + m)
      BY <1>1, <2>5
    <3>2. z[k] = y[l]
      BY <2>1, <2>5, <3>1
    <3> HIDE DEF l
    <3>3. y[l] = IF l <= i + m THEN s[l - i] ELSE x[l - m + d]
      BY <2>2, <3>1
    <3>4. w[k] = IF k <= j + m THEN s[k - j] ELSE x[k - m]
      BY <2>1, <2>5
    <3> QED BY <3>1, <3>2, <3>3, <3>4
  <2> QED BY <2>3, <2>4, <2>5
<1>8. z = w
  <2>1. z \in Seq(S) /\ w \in Seq(S) /\ Len(z) = n + m /\ Len(w) = n + m
    BY <1>3, <1>5, <1>6 DEF IsPut
  <2> QED BY <1>7, <2>1, SeqEqual
<1> QED BY <1>4, <1>8 DEF z, w, y, p, n

\* Two regions change places.
Transposed(x, s1, e1, s2, e2) ==
    SubSeq(x, 1, s1) \o SubSeq(x, s2 + 1, e2) \o SubSeq(x, e1 + 1, s2)
      \o SubSeq(x, s1 + 1, e1) \o SubSeq(x, e2 + 1, Len(x))
IsTransposed(S, z, x, s1, e1, s2, e2) ==
    /\ z \in Seq(S) /\ Len(z) = Len(x)
    /\ \A k \in 1 .. Len(x) :
         z[k] = IF k <= s1 \/ k > e2 THEN x[k]
                ELSE IF k <= s1 + (e2 - s2) THEN x[k + (s2 - s1)]
                ELSE IF k <= s1 + (e2 - e1) THEN x[k + (e1 - s1) - (e2 - s2)]
                ELSE x[k - (e2 - e1)]
Regions(S, x, s1, e1, s2, e2) ==
    /\ x \in Seq(S) /\ {s1, e1, s2, e2} \in SUBSET Nat
    /\ s1 < e1 /\ e1 <= s2 /\ s2 < e2 /\ e2 <= Len(x)

LEMMA TransposedFacts ==
    ASSUME NEW S, NEW x, NEW s1, NEW e1, NEW s2, NEW e2, Regions(S, x, s1, e1, s2, e2)
    PROVE  IsTransposed(S, Transposed(x, s1, e1, s2, e2), x, s1, e1, s2, e2)
<1> DEFINE n == Len(x)
           a == SubSeq(x, 1, s1)
           b == SubSeq(x, s2 + 1, e2)
           c == SubSeq(x, e1 + 1, s2)
           d == SubSeq(x, s1 + 1, e1)
           e == SubSeq(x, e2 + 1, n)
           ab == a \o b
           abc == ab \o c
           abcd == abc \o d
           z == abcd \o e
<1>1. /\ n \in Nat /\ s1 \in Nat /\ e1 \in Nat /\ s2 \in Nat /\ e2 \in Nat
      /\ s1 < e1 /\ e1 <= s2 /\ s2 < e2 /\ e2 <= n /\ x \in Seq(S)
  BY LenProperties DEF Regions
<1>2. IsPart(S, a, x, 0, s1) /\ IsPart(S, d, x, s1, e1)
  <2>1. Region(S, x, s1, e1)
    BY <1>1 DEF Region
  <2> QED BY <2>1, BeginIs, PartIs
<1>3. IsPart(S, b, x, s2, e2) /\ IsPart(S, e, x, e2, n)
  <2>1. Region(S, x, s2, e2)
    BY <1>1 DEF Region
  <2> QED BY <2>1, RestIs, PartIs
<1>4. IsPart(S, c, x, e1, s2)
  <2>1. Region(S, x, e1, s2)
    BY <1>1 DEF Region
  <2> QED BY <2>1, PartIs
<1> HIDE DEF a, b, c, d, e
<1>5. a \in Seq(S) /\ b \in Seq(S) /\ c \in Seq(S) /\ d \in Seq(S) /\ e \in Seq(S)
  BY <1>2, <1>3, <1>4 DEF IsPart
<1>6. IsJoin(S, ab, a, b)
  BY <1>5, JoinIs
<1>7. ab \in Seq(S)
  BY <1>6 DEF IsJoin
<1> HIDE DEF ab
<1>8. IsJoin(S, abc, ab, c)
  BY <1>5, <1>7, JoinIs
<1>9. abc \in Seq(S)
  BY <1>8 DEF IsJoin
<1> HIDE DEF abc
<1>10. IsJoin(S, abcd, abc, d)
  BY <1>5, <1>9, JoinIs
<1>11. abcd \in Seq(S)
  BY <1>10 DEF IsJoin
<1> HIDE DEF abcd
<1>12. IsJoin(S, z, abcd, e)
  BY <1>5, <1>11, JoinIs
<1> HIDE DEF z, n
<1>13. /\ Len(a) = s1 /\ Len(b) = e2 - s2 /\ Len(c) = s2 - e1 /\ Len(d) = e1 - s1
       /\ Len(e) = n - e2
  <2>1. Len(a) = s1 - 0
    BY <1>2 DEF IsPart
  <2> QED BY <1>1, <1>2, <1>3, <1>4, <2>1 DEF IsPart
<1>14. /\ Len(ab) = s1 + (e2 - s2) /\ Len(abc) = s1 + (e2 - e1) /\ Len(abcd) = e2
       /\ Len(z) = n
  <2>1. /\ Len(ab) = Len(a) + Len(b) /\ Len(abc) = Len(ab) + Len(c)
        /\ Len(abcd) = Len(abc) + Len(d) /\ Len(z) = Len(abcd) + Len(e)
    BY <1>6, <1>8, <1>10, <1>12 DEF IsJoin
  <2> QED BY <1>1, <1>13, <2>1
<1>15. ASSUME NEW k \in 1 .. n
       PROVE  z[k] = IF k <= s1 \/ k > e2 THEN x[k]
                     ELSE IF k <= s1 + (e2 - s2) THEN x[k + (s2 - s1)]
                     ELSE IF k <= s1 + (e2 - e1) THEN x[k + (e1 - s1) - (e2 - s2)]
                     ELSE x[k - (e2 - e1)]
  <2>1. z[k] = IF k <= e2 THEN abcd[k] ELSE e[k - e2]
    <3>1. k \in 1 .. Len(abcd) + Len(e)
      BY <1>1, <1>13, <1>14
    <3> QED BY <1>12, <1>14, <3>1 DEF IsJoin
  <2>2. k <= e2 => abcd[k] = IF k <= s1 + (e2 - e1) THEN abc[k] ELSE d[k - (s1 + (e2 - e1))]
    <3>1. k <= e2 => k \in 1 .. Len(abc) + Len(d)
      BY <1>1, <1>13, <1>14
    <3> QED BY <1>10, <1>14, <3>1 DEF IsJoin
  <2>3. k <= s1 + (e2 - e1) =>
          abc[k] = IF k <= s1 + (e2 - s2) THEN ab[k] ELSE c[k - (s1 + (e2 - s2))]
    <3>1. k <= s1 + (e2 - e1) => k \in 1 .. Len(ab) + Len(c)
      BY <1>1, <1>13, <1>14
    <3> QED BY <1>8, <1>14, <3>1 DEF IsJoin
  <2>4. k <= s1 + (e2 - s2) => ab[k] = IF k <= s1 THEN a[k] ELSE b[k - s1]
    <3>1. k <= s1 + (e2 - s2) => k \in 1 .. Len(a) + Len(b)
      BY <1>1, <1>13, <1>14
    <3> QED BY <1>6, <1>13, <3>1 DEF IsJoin
  <2>5. CASE k <= s1
    <3>1. k \in 1 .. s1 - 0 /\ 0 + k = k /\ k <= e2 /\ k <= s1 + (e2 - e1) /\ k <= s1 + (e2 - s2)
      BY <1>1, <2>5
    <3>2. a[k] = x[k]
      BY <1>2, <3>1 DEF IsPart
    <3> QED BY <2>1, <2>2, <2>3, <2>4, <2>5, <3>1, <3>2
  <2>6. CASE ~(k <= s1) /\ k <= s1 + (e2 - s2)
    <3> DEFINE l == k - s1
    <3>1. /\ l \in 1 .. e2 - s2 /\ s2 + l = k + (s2 - s1)
          /\ k <= e2 /\ ~(k > e2) /\ k <= s1 + (e2 - e1)
      BY <1>1, <2>6
    <3>2. z[k] = b[l]
      BY <2>1, <2>2, <2>3, <2>4, <2>6, <3>1
    <3> HIDE DEF l
    <3>3. b[l] = x[s2 + l]
      BY <1>3, <3>1 DEF IsPart
    <3> QED BY <2>6, <3>1, <3>2, <3>3
  <2>7. CASE ~(k <= s1 + (e2 - s2)) /\ k <= s1 + (e2 - e1)
    <3> DEFINE l == k - (s1 + (e2 - s2))
    <3>1. /\ l \in 1 .. s2 - e1 /\ e1 + l = k + (e1 - s1) - (e2 - s2) /\ k <= e2
          /\ ~(k > e2) /\ ~(k <= s1)
      BY <1>1, <2>7
    <3>2. z[k] = c[l]
      BY <2>1, <2>2, <2>3, <2>7, <3>1
    <3> HIDE DEF l
    <3>3. c[l] = x[e1 + l]
      BY <1>4, <3>1 DEF IsPart
    <3> QED BY <2>7, <3>1, <3>2, <3>3
  <2>8. CASE ~(k <= s1 + (e2 - e1)) /\ k <= e2
    <3> DEFINE l == k - (s1 + (e2 - e1))
    <3>1. /\ l \in 1 .. e1 - s1 /\ s1 + l = k - (e2 - e1) /\ ~(k > e2) /\ ~(k <= s1)
          /\ ~(k <= s1 + (e2 - s2))
      BY <1>1, <2>8
    <3>2. z[k] = d[l]
      BY <2>1, <2>2, <2>8, <3>1
    <3> HIDE DEF l
    <3>3. d[l] = x[s1 + l]
      BY <1>2, <3>1 DEF IsPart
    <3> QED BY <2>8, <3>1, <3>2, <3>3
  <2>9. CASE ~(k <= e2)
    <3> DEFINE l == k - e2
    <3>1. l \in 1 .. n - e2 /\ e2 + l = k /\ k > e2
      BY <1>1, <2>9
    <3>2. z[k] = e[l]
      BY <2>1, <2>9
    <3> HIDE DEF l
    <3>3. e[l] = x[e2 + l]
      BY <1>3, <3>1 DEF IsPart
    <3> QED BY <3>1, <3>2, <3>3
  <2>10. k \in Int
    OBVIOUS
  <2> QED BY <1>1, <2>5, <2>6, <2>7, <2>8, <2>9, <2>10
<1>16. z \in Seq(S)
  BY <1>12 DEF IsJoin
<1> QED BY <1>14, <1>15, <1>16 DEF IsTransposed, Transposed, z, abcd, abc, ab, a, b, c, d, e, n

\* Outside the span of the two regions nothing changes, and between them nothing
\* if they have one length.
LEMMA TransposedOutside ==
    ASSUME NEW S, NEW x, NEW s1, NEW e1, NEW s2, NEW e2, Regions(S, x, s1, e1, s2, e2),
           NEW z, z = Transposed(x, s1, e1, s2, e2)
    PROVE  /\ Outside(x, z, s1, e2) /\ Region(S, x, s1, e2) /\ Region(S, z, s1, e2)
           /\ e1 - s1 = e2 - s2 => \A k \in e1 + 1 .. s2 : z[k] = x[k]
           /\ z[s1 + 1] = x[s2 + 1] /\ z[s1 + 1 + (e2 - e1)] = x[s1 + 1]
<1> DEFINE n == Len(x)
<1>1. /\ n \in Nat /\ s1 \in Nat /\ e1 \in Nat /\ s2 \in Nat /\ e2 \in Nat
      /\ s1 < e1 /\ e1 <= s2 /\ s2 < e2 /\ e2 <= n /\ x \in Seq(S)
  BY LenProperties DEF Regions
<1>2. IsTransposed(S, z, x, s1, e1, s2, e2)
  BY TransposedFacts
<1>3. Len(z) = n /\ z \in Seq(S)
  BY <1>2 DEF IsTransposed
<1>4. Region(S, x, s1, e2) /\ Region(S, z, s1, e2)
  BY <1>1, <1>3 DEF Region
<1>5. Outside(x, z, s1, e2)
  BY <1>2 DEF IsTransposed, Outside
<1>6. ASSUME e1 - s1 = e2 - s2, NEW k \in e1 + 1 .. s2 PROVE z[k] = x[k]
  <2>1. /\ k \in 1 .. n /\ ~(k <= s1 \/ k > e2) /\ ~(k <= s1 + (e2 - s2))
        /\ k <= s1 + (e2 - e1) /\ k + (e1 - s1) - (e2 - s2) = k
    BY <1>1, <1>6
  <2> QED BY <1>2, <2>1 DEF IsTransposed
<1>7. z[s1 + 1] = x[s2 + 1]
  <2> DEFINE k == s1 + 1
  <2>1. k \in 1 .. n /\ ~(k <= s1 \/ k > e2) /\ k <= s1 + (e2 - s2) /\ k + (s2 - s1) = s2 + 1
    BY <1>1
  <2> HIDE DEF k
  <2>2. z[k] = x[k + (s2 - s1)]
    BY <1>2, <2>1 DEF IsTransposed
  <2> QED BY <2>1, <2>2 DEF k
<1>8. z[s1 + 1 + (e2 - e1)] = x[s1 + 1]
  <2> DEFINE k == s1 + 1 + (e2 - e1)
  <2>1. /\ k \in 1 .. n /\ ~(k <= s1 \/ k > e2) /\ ~(k <= s1 + (e2 - s2))
        /\ ~(k <= s1 + (e2 - e1)) /\ k - (e2 - e1) = s1 + 1
    BY <1>1
  <2> HIDE DEF k
  <2>2. z[k] = x[k - (e2 - e1)]
    BY <1>2, <2>1 DEF IsTransposed
  <2> QED BY <2>1, <2>2 DEF k
<1> QED BY <1>4, <1>5, <1>6, <1>7, <1>8

\* Regions of one length that have changed places are exchanged back one by one.
LEMMA TransposedBack ==
    ASSUME NEW S, NEW x, NEW s1, NEW e1, NEW s2, NEW e2, Regions(S, x, s1, e1, s2, e2),
           NEW z, z = Transposed(x, s1, e1, s2, e2), e1 - s1 = e2 - s2
    PROVE  /\ Exchanged(x, Exchanged(x, z, s2, e2), s1, e1) = x
           /\ Region(S, x, s1, e1) /\ Region(S, x, s2, e2) /\ Region(S, z, s2, e2)
           /\ Region(S, Exchanged(x, z, s2, e2), s1, e1)
<1> DEFINE n == Len(x)
           y == Exchanged(x, z, s2, e2)
<1>1. /\ n \in Nat /\ s1 \in Nat /\ e1 \in Nat /\ s2 \in Nat /\ e2 \in Nat
      /\ s1 < e1 /\ e1 <= s2 /\ s2 < e2 /\ e2 <= n /\ x \in Seq(S)
  BY LenProperties DEF Regions
<1>2. /\ Outside(x, z, s1, e2) /\ Region(S, z, s1, e2)
      /\ \A k \in e1 + 1 .. s2 : z[k] = x[k]
  BY TransposedOutside
<1>3. Len(z) = n /\ Region(S, x, s1, e1) /\ Region(S, x, s2, e2) /\ Region(S, z, s2, e2)
  BY <1>1, <1>2 DEF Outside, Region
<1>4. IsExchanged(S, y, x, z, s2, e2)
  BY <1>3, ExchangedFacts
<1> HIDE DEF y
<1>5. Region(S, y, s1, e1)
  BY <1>1, <1>3, <1>4 DEF Region, IsExchanged
<1>6. ASSUME NEW k \in 1 .. n, k <= s1 \/ k > e1 PROVE y[k] = x[k]
  <2>1. y[k] = IF k <= s2 \/ k > e2 THEN z[k] ELSE x[k]
    BY <1>3, <1>4 DEF IsExchanged
  <2>2. k <= s2 \/ k > e2 => k <= s1 \/ k > e2 \/ k \in e1 + 1 .. s2
    BY <1>1, <1>6
  <2>3. k <= s2 \/ k > e2 => z[k] = x[k]
    BY <1>2, <2>2 DEF Outside
  <2> QED BY <2>1, <2>3
<1>7. Outside(x, y, s1, e1)
  BY <1>3, <1>4, <1>6 DEF Outside, IsExchanged
<1>8. Exchanged(x, y, s1, e1) = x
  BY <1>3, <1>5, <1>7, ExchangedBack
<1> QED BY <1>3, <1>5, <1>8 DEF y

-----------------------------------------------------------------------------
(* Records, and the texts they lead to.                                    *)

Quiet(e) == e.kind \in {"adjust", "first", "point"}

LEMMA EntryFacts ==
    ASSUME NEW e \in Entries
    PROVE  /\ e.kind \in {"insert", "delete", "boundary"} \/ Quiet(e)
           /\ e.kind = "insert" => e.beg \in Place /\ e.end \in Nat /\ e.beg < e.end
           /\ e.kind = "delete" => /\ e.text \in Seq(Nat) /\ e.text # <<>>
                                   /\ e.beg \in Place /\ e.after \in BOOLEAN
           /\ e.kind = "adjust" => e.marker \in Markers /\ e.by \in Int
           /\ e.kind = "first" => e.time \in Nat
           /\ e.kind = "point" => e.at \in Nat
           /\ e.kind = "boundary" => /\ e.text \in Seq(Nat) /\ e.mark \in Places
                                     /\ e.still \in SUBSET Markers
BY DEF Entries, Insertions, Deletions, Shifts, Firsts, Points, Boundaries, Quiet

LEMMA InsertedType ==
    ASSUME NEW beg \in Place, NEW end \in Nat, beg < end
    PROVE  /\ Inserted(beg, end) \in Entries /\ Inserted(beg, end).kind = "insert"
           /\ Inserted(beg, end).beg = beg /\ Inserted(beg, end).end = end
BY DEF Inserted, Entries, Insertions

LEMMA DeletedType ==
    ASSUME NEW s \in Seq(Nat), s # <<>>, NEW beg \in Place, NEW after \in BOOLEAN
    PROVE  /\ Deleted(s, beg, after) \in Entries /\ Deleted(s, beg, after).kind = "delete"
           /\ Deleted(s, beg, after).beg = beg /\ Deleted(s, beg, after).text = s
BY DEF Deleted, Entries, Deletions

LEMMA QuietTypes ==
    /\ \A m \in Markers, by \in Int : Adjusted(m, by) \in Entries /\ Quiet(Adjusted(m, by))
    /\ \A time \in Nat : FirstChange(time) \in Entries /\ Quiet(FirstChange(time))
    /\ \A p \in Nat : PointAt(p) \in Entries /\ Quiet(PointAt(p))
BY DEF Adjusted, FirstChange, PointAt, Entries, Shifts, Firsts, Points, Quiet

LEMMA UndoesQuiet ==
    ASSUME NEW e, Quiet(e), NEW x
    PROVE  Undoes(e, x, x)
BY DEF Quiet, Undoes

LEMMA LeadsNowhere ==
    ASSUME NEW x \in Seq(Nat)
    PROVE  Leads(x, <<>>, x)
<1> DEFINE t == [k \in 0 .. 0 |-> x]
<1>1. Len(<<>>) = 0 /\ t \in [0 .. 0 -> Seq(Nat)] /\ t[0] = x /\ 1 .. 0 = {}
  OBVIOUS
<1> HIDE DEF t
<1>2. Replay(t, x, <<>>, x)
  BY <1>1 DEF Replay
<1> QED BY <1>2 DEF Leads

LEMMA LeadsType ==
    ASSUME NEW x, NEW list \in Seq(Entries), NEW y, Leads(x, list, y)
    PROVE  x \in Seq(Nat) /\ y \in Seq(Nat)
<1>1. PICK t : Replay(t, x, list, y)
  BY DEF Leads
<1>2. Len(list) \in Nat /\ 0 \in 0 .. Len(list) /\ Len(list) \in 0 .. Len(list)
  BY LenProperties
<1> QED BY <1>1, <1>2 DEF Replay

\* A record alone leads to the text from before its edit.
LEMMA LeadsOne ==
    ASSUME NEW e, NEW x \in Seq(Nat), NEW y \in Seq(Nat), Undoes(e, x, y)
    PROVE  Leads(x, <<e>>, y)
<1> DEFINE t == [k \in 0 .. 1 |-> IF k = 0 THEN x ELSE y]
<1>1. /\ Len(<<e>>) = 1 /\ <<e>>[1] = e /\ t \in [0 .. 1 -> Seq(Nat)]
      /\ t[0] = x /\ t[1] = y
  OBVIOUS
<1> HIDE DEF t
<1>2. \A k \in 1 .. 1 : Undoes(<<e>>[k], t[k - 1], t[k])
  <2>1. \A k \in 1 .. 1 : k = 1 /\ k - 1 = 0
    OBVIOUS
  <2> QED BY <1>1, <2>1
<1>3. Replay(t, x, <<e>>, y)
  BY <1>1, <1>2 DEF Replay
<1> QED BY <1>3 DEF Leads

\* What leads from X to Y, followed by what leads from Y to Z, leads from X to Z.
LEMMA LeadsOn ==
    ASSUME NEW l \in Seq(Entries), NEW r \in Seq(Entries), NEW x, NEW y, NEW z,
           Leads(x, l, y), Leads(y, r, z)
    PROVE  l \o r \in Seq(Entries) /\ Leads(x, l \o r, z)
<1>1. PICK t : Replay(t, x, l, y)
  BY DEF Leads
<1>2. PICK u : Replay(u, y, r, z)
  BY DEF Leads
<1> DEFINE n == Len(l)
           m == Len(r)
           lr == l \o r
           w == [k \in 0 .. n + m |-> IF k <= n THEN t[k] ELSE u[k - n]]
<1>3. n \in Nat /\ m \in Nat /\ IsJoin(Entries, lr, l, r)
  BY JoinIs, LenProperties
<1> HIDE DEF n, m, lr
<1>4. /\ t \in [0 .. n -> Seq(Nat)] /\ t[0] = x /\ t[n] = y
      /\ \A k \in 1 .. n : Undoes(l[k], t[k - 1], t[k])
  BY <1>1 DEF Replay, n
<1>5. /\ u \in [0 .. m -> Seq(Nat)] /\ u[0] = y /\ u[m] = z
      /\ \A k \in 1 .. m : Undoes(r[k], u[k - 1], u[k])
  BY <1>2 DEF Replay, m
<1>6. Len(lr) = n + m /\ lr \in Seq(Entries)
      /\ \A k \in 1 .. n + m : lr[k] = IF k <= n THEN l[k] ELSE r[k - n]
  BY <1>3 DEF IsJoin, n, m
<1>7. \A k \in 0 .. n + m : w[k] = IF k <= n THEN t[k] ELSE u[k - n]
  OBVIOUS
<1>8. w \in [0 .. n + m -> Seq(Nat)]
  <2>1. ASSUME NEW k \in 0 .. n + m PROVE (IF k <= n THEN t[k] ELSE u[k - n]) \in Seq(Nat)
    <3>1. CASE k <= n
      <4>1. k \in 0 .. n
        BY <1>3, <3>1
      <4> QED BY <1>4, <3>1, <4>1
    <3>2. CASE ~(k <= n)
      <4>1. k - n \in 0 .. m
        BY <1>3, <3>2
      <4> QED BY <1>5, <3>2, <4>1
    <3> QED BY <3>1, <3>2
  <2> QED BY <2>1
<1> HIDE DEF w
<1>9. w[0] = x /\ w[n + m] = z
  <2>1. 0 \in 0 .. n + m /\ n + m \in 0 .. n + m /\ 0 <= n
    BY <1>3
  <2>2. w[0] = x
    BY <1>4, <1>7, <2>1
  <2>3. CASE m = 0
    <3>1. n + m = n /\ n <= n
      BY <1>3, <2>3
    <3>2. w[n + m] = t[n]
      <4>1. n \in 0 .. n + m
        BY <2>1, <3>1
      <4>2. w[n] = t[n]
        BY <1>7, <3>1, <4>1
      <4> QED BY <3>1, <4>2
    <3>3. t[n] = z
      BY <1>4, <1>5, <2>3
    <3> QED BY <2>2, <3>2, <3>3
  <2>4. CASE m # 0
    <3> DEFINE k == n + m
    <3>1. k \in 0 .. n + m /\ ~(k <= n) /\ k - n = m
      BY <1>3, <2>4
    <3> HIDE DEF k
    <3>2. w[k] = u[m]
      BY <1>7, <3>1
    <3> QED BY <1>5, <2>2, <3>2 DEF k
  <2> QED BY <2>3, <2>4
<1>10. ASSUME NEW k \in 1 .. n + m PROVE Undoes(lr[k], w[k - 1], w[k])
  <2>1. k \in 0 .. n + m /\ k - 1 \in 0 .. n + m
    BY <1>3
  <2>2. CASE k <= n
    <3>1. k \in 1 .. n /\ k - 1 <= n
      BY <1>3, <2>2
    <3> QED BY <1>4, <1>6, <1>7, <2>1, <2>2, <3>1
  <2>3. CASE ~(k <= n)
    <3> DEFINE i == k - n
    <3>1. i \in 1 .. m /\ lr[k] = r[i] /\ w[k] = u[i]
      BY <1>3, <1>6, <1>7, <2>1, <2>3
    <3>2. w[k - 1] = u[i - 1]
      <4>1. CASE k - 1 <= n
        <5>1. k - 1 = n /\ i - 1 = 0
          BY <1>3, <2>3, <4>1
        <5> QED BY <1>4, <1>5, <1>7, <2>1, <4>1, <5>1
      <4>2. CASE ~(k - 1 <= n)
        <5>1. k - 1 - n = i - 1
          BY <1>3
        <5> QED BY <1>7, <2>1, <4>2, <5>1
      <4> QED BY <4>1, <4>2
    <3> HIDE DEF i
    <3> QED BY <1>5, <3>1, <3>2
  <2> QED BY <2>2, <2>3
<1>11. Replay(w, x, lr, z)
  BY <1>6, <1>8, <1>9, <1>10, SMTT(20) DEF Replay
<1> QED BY <1>6, <1>11 DEF Leads, lr

\* The way can be left and taken up at any record.
LEMMA LeadsVia ==
    ASSUME NEW l \in Seq(Entries), NEW x, NEW y, NEW t, Replay(t, x, l, y),
           NEW n \in Nat, n <= Len(l)
    PROVE  Leads(x, SubSeq(l, 1, n), t[n]) /\ Leads(t[n], SubSeq(l, n + 1, Len(l)), y)
<1> DEFINE m == Len(l)
           a == SubSeq(l, 1, n)
           b == SubSeq(l, n + 1, m)
           u == [k \in 0 .. n |-> t[k]]
           w == [k \in 0 .. m - n |-> t[n + k]]
<1>1. m \in Nat /\ m - n \in Nat /\ n + (m - n) = m
  BY LenProperties
<1>2. /\ t \in [0 .. m -> Seq(Nat)] /\ t[0] = x /\ t[m] = y
      /\ \A k \in 1 .. m : Undoes(l[k], t[k - 1], t[k])
  BY DEF Replay
<1>3. /\ Len(a) = n /\ \A k \in 1 .. n : a[k] = l[k]
  BY <1>1, BeginFacts
<1>4. Len(b) = m - n /\ \A k \in 1 .. m - n : b[k] = l[n + k]
  <2>1. m <= Len(l) /\ n <= m
    BY <1>1
  <2> QED BY <1>1, <2>1, PartFacts
<1> HIDE DEF a, b, m
<1>5. u \in [0 .. n -> Seq(Nat)] /\ \A k \in 0 .. n : u[k] = t[k]
  <2>1. \A k \in 0 .. n : k \in 0 .. m
    BY <1>1
  <2>2. \A k \in 0 .. n : t[k] \in Seq(Nat)
    BY <1>2, <2>1
  <2> QED BY <2>2
<1>6. w \in [0 .. m - n -> Seq(Nat)] /\ \A k \in 0 .. m - n : w[k] = t[n + k]
  <2>1. \A k \in 0 .. m - n : n + k \in 0 .. m
    BY <1>1
  <2>2. \A k \in 0 .. m - n : t[n + k] \in Seq(Nat)
    BY <1>2, <2>1
  <2> QED BY <2>2
<1> HIDE DEF u, w
<1>7. Replay(u, x, a, t[n])
  <2>1. u[0] = x /\ u[n] = t[n]
    BY <1>2, <1>5
  <2>2. ASSUME NEW k \in 1 .. n PROVE Undoes(a[k], u[k - 1], u[k])
    <3>1. k \in 1 .. m /\ k \in 0 .. n /\ k - 1 \in 0 .. n
      BY <1>1
    <3>2. a[k] = l[k] /\ u[k] = t[k] /\ u[k - 1] = t[k - 1]
      BY <1>3, <1>5, <3>1
    <3> QED BY <1>2, <3>1, <3>2
  <2> QED BY <1>3, <1>5, <2>1, <2>2 DEF Replay
<1>8. Replay(w, t[n], b, y)
  <2>1. w[0] = t[n] /\ w[m - n] = y
    <3>1. 0 \in 0 .. m - n /\ m - n \in 0 .. m - n /\ n + 0 = n
      BY <1>1
    <3> QED BY <1>1, <1>2, <1>6, <3>1
  <2>2. ASSUME NEW k \in 1 .. m - n PROVE Undoes(b[k], w[k - 1], w[k])
    <3>1. n + k \in 1 .. m /\ k \in 0 .. m - n /\ k - 1 \in 0 .. m - n /\ n + (k - 1) = n + k - 1
      BY <1>1
    <3>2. b[k] = l[n + k] /\ w[k] = t[n + k] /\ w[k - 1] = t[n + k - 1]
      BY <1>4, <1>6, <3>1
    <3> QED BY <1>2, <3>1, <3>2
  <2> QED BY <1>4, <1>6, <2>1, <2>2 DEF Replay
<1> QED BY <1>7, <1>8 DEF Leads, a, b, m

\* What a list leads to is reached by its first record and then the others.
LEMMA LeadsPast ==
    ASSUME NEW l \in Seq(Entries), l # <<>>, NEW x, NEW y, Leads(x, l, y)
    PROVE  /\ Head(l) \in Entries /\ Tail(l) \in Seq(Entries)
           /\ \E w \in Seq(Nat) : Undoes(Head(l), x, w) /\ Leads(w, Tail(l), y)
<1>1. PICK t : Replay(t, x, l, y)
  BY DEF Leads
<1>2. /\ Head(l) \in Entries /\ Tail(l) \in Seq(Entries) /\ Len(l) \in Nat /\ 1 <= Len(l)
      /\ Head(l) = l[1] /\ Tail(l) = SubSeq(l, 2, Len(l))
  <2>1. Len(l) \in Nat /\ Len(l) # 0
    BY EmptySeq, LenProperties
  <2>2. Head(l) = l[1] /\ l[1] \in Entries
    <3>1. 1 \in 1 .. Len(l)
      BY <2>1
    <3> QED BY <3>1, HeadTailProperties, ElementOfSeq
  <2> QED BY <2>1, <2>2, HeadTailProperties, TailIsSubSeq
<1>3. Leads(t[1], Tail(l), y)
  <2>1. Leads(t[1], SubSeq(l, 1 + 1, Len(l)), y)
    BY <1>1, <1>2, LeadsVia
  <2>2. 1 + 1 = 2
    OBVIOUS
  <2> QED BY <1>2, <2>1, <2>2
<1>4. /\ Undoes(l[1], t[0], t[1]) /\ t[0] = x /\ t[1] \in Seq(Nat)
  <2>1. 1 \in 1 .. Len(l) /\ 1 \in 0 .. Len(l) /\ 1 - 1 = 0
    BY <1>2
  <2> QED BY <1>1, <2>1 DEF Replay
<1> QED BY <1>2, <1>3, <1>4

\* A record that takes an edit back, in front of a list that leads from the text
\* before the edit.
LEMMA LeadsBack ==
    ASSUME NEW e \in Entries, NEW l \in Seq(Entries), NEW x \in Seq(Nat), NEW y, NEW z,
           Undoes(e, x, y), Leads(y, l, z)
    PROVE  <<e>> \o l \in Seq(Entries) /\ Leads(x, <<e>> \o l, z)
<1>1. y \in Seq(Nat)
  BY LeadsType
<1>2. Leads(x, <<e>>, y) /\ <<e>> \in Seq(Entries)
  BY <1>1, LeadsOne
<1> QED BY <1>2, LeadsOn

\* Records that are quiet lead nowhere.
AllQuiet(list) == \A k \in 1 .. Len(list) : Quiet(list[k])

LEMMA LeadsQuietly ==
    ASSUME NEW x \in Seq(Nat), NEW list \in Seq(Entries), AllQuiet(list)
    PROVE  Leads(x, list, x)
<1> DEFINE n == Len(list)
           t == [k \in 0 .. n |-> x]
<1>1. n \in Nat
  BY LenProperties
<1> HIDE DEF n
<1>2. t \in [0 .. n -> Seq(Nat)] /\ \A k \in 0 .. n : t[k] = x
  OBVIOUS
<1> HIDE DEF t
<1>3. ASSUME NEW k \in 1 .. n PROVE Undoes(list[k], t[k - 1], t[k])
  <2>1. Quiet(list[k]) /\ k \in 0 .. n /\ k - 1 \in 0 .. n
    BY <1>1 DEF AllQuiet, n
  <2> QED BY <1>2, <2>1, UndoesQuiet
<1>4. t[0] = x /\ t[n] = x
  BY <1>1, <1>2
<1>5. Replay(t, x, list, x)
  BY <1>2, <1>3, <1>4 DEF Replay, n
<1> QED BY <1>5 DEF Leads
-----------------------------------------------------------------------------
(* Buffers and their fields.                                               *)

LEMMA TypedFacts ==
    ASSUME NEW b, Typed(b)
    PROVE  /\ b = [text |-> b.text, view |-> b.view, mark |-> b.mark,
                   modified |-> b.modified, time |-> b.time]
           /\ b.text \in Seq(Nat) /\ Len(b.text) \in Nat
           /\ b.view \in [Views -> ViewSet] /\ b.mark \in Places
           /\ b.modified \in BOOLEAN /\ b.time \in Nat
           /\ \A v \in Views : InText(b.view[v], Len(b.text))
<1>1. b \in Buffers
  BY DEF Typed
<1>2. b.text \in Seq(Nat)
  BY <1>1 DEF Buffers
<1> QED BY <1>1, <1>2, LenProperties DEF Buffers, Typed

LEMMA ViewFacts ==
    ASSUME NEW b, Typed(b), NEW v \in Views
    PROVE  /\ b.view[v] \in ViewSet
           /\ b.view[v].point \in Nat /\ b.view[v].begv \in Nat /\ b.view[v].zv \in Nat
           /\ b.view[v].undo \in Seq(Entries) /\ b.view[v].before \in Nat
           /\ b.view[v].begv <= b.view[v].zv /\ b.view[v].zv <= Len(b.text)
           /\ b.view[v].point <= Len(b.text) /\ Len(b.text) \in Nat
<1>1. b.view[v] \in ViewSet /\ InText(b.view[v], Len(b.text)) /\ Len(b.text) \in Nat
  BY TypedFacts
<1> QED BY <1>1 DEF ViewSet, InText

LEMMA MarkFacts ==
    ASSUME NEW b, Typed(b), NEW m \in Markers
    PROVE  /\ b.mark[m] \in [view : Views, pos : Nat, adv : BOOLEAN]
           /\ b.mark[m].pos \in Nat /\ b.mark[m].view \in Views /\ b.mark[m].adv \in BOOLEAN
<1>1. b.mark \in Places
  BY TypedFacts
<1> QED BY <1>1 DEF Places

\* C is B but for the undo list of V.
Relisted(c, b, v) ==
    /\ Typed(c) /\ c.text = b.text /\ c.mark = b.mark
    /\ c.modified = b.modified /\ c.time = b.time
    /\ \A w \in Views : /\ c.view[w].point = b.view[w].point
                        /\ c.view[w].begv = b.view[w].begv
                        /\ c.view[w].zv = b.view[w].zv
                        /\ c.view[w].before = b.view[w].before
                        /\ w # v => c.view[w].undo = b.view[w].undo

LEMMA WithUndoFacts ==
    ASSUME NEW b, Typed(b), NEW v \in Views, NEW list \in Seq(Entries)
    PROVE  Relisted(WithUndo(b, v, list), b, v) /\ WithUndo(b, v, list).view[v].undo = list
<1> DEFINE c == WithUndo(b, v, list)
           r == [b.view[v] EXCEPT !.undo = list]
           f == [b.view EXCEPT ![v] = r]
<1>1. /\ b.view \in [Views -> ViewSet] /\ b.view[v] \in ViewSet /\ b \in Buffers
      /\ \A w \in Views : InText(b.view[w], Len(b.text))
  BY TypedFacts DEF Typed
<1>2. /\ r \in ViewSet /\ r.undo = list /\ r.point = b.view[v].point /\ r.begv = b.view[v].begv
      /\ r.zv = b.view[v].zv /\ r.before = b.view[v].before
  BY <1>1 DEF ViewSet
<1>3. c = [b EXCEPT !.view = f]
  BY <1>1 DEF WithUndo, Buffers
<1> HIDE DEF r
<1>4. f \in [Views -> ViewSet] /\ \A w \in Views : f[w] = IF w = v THEN r ELSE b.view[w]
  BY <1>1, <1>2
<1> HIDE DEF f
<1>5. /\ c \in Buffers /\ c.view = f /\ c.text = b.text /\ c.mark = b.mark
      /\ c.modified = b.modified /\ c.time = b.time
  BY <1>1, <1>3, <1>4 DEF Buffers
<1> HIDE DEF c
<1>6. \A w \in Views : /\ c.view[w].point = b.view[w].point
                       /\ c.view[w].begv = b.view[w].begv
                       /\ c.view[w].zv = b.view[w].zv
                       /\ c.view[w].before = b.view[w].before
                       /\ w # v => c.view[w].undo = b.view[w].undo
  BY <1>2, <1>4, <1>5
<1>7. Typed(c)
  BY <1>1, <1>5, <1>6 DEF Typed, InText
<1>8. c.view[v].undo = list
  BY <1>2, <1>4, <1>5
<1>9. Relisted(c, b, v)
  BY <1>5, <1>6, <1>7 DEF Relisted
<1> QED BY <1>8, <1>9 DEF c

\* The new text, markers and places of views of a buffer.
Reshaped(b, text, mark, view) ==
    [b EXCEPT !.text = text, !.mark = mark, !.view = view, !.modified = TRUE]

Shape(text, mark, view) ==
    /\ text \in Seq(Nat) /\ mark \in Places /\ view \in [Views -> ViewSet]
    /\ \A w \in Views : InText(view[w], Len(text))
Shaped(c, text, mark, view) == Typed(c) /\ c.text = text /\ c.mark = mark /\ c.view = view

LEMMA ReshapedFacts ==
    ASSUME NEW b, Typed(b), NEW text, NEW mark, NEW view, Shape(text, mark, view)
    PROVE  Shaped(Reshaped(b, text, mark, view), text, mark, view)
<1> DEFINE c == Reshaped(b, text, mark, view)
<1>1. /\ b \in Buffers /\ text \in Seq(Nat) /\ mark \in Places /\ view \in [Views -> ViewSet]
      /\ \A w \in Views : InText(view[w], Len(text))
  BY DEF Typed, Shape
<1>2. c \in Buffers /\ c.text = text /\ c.mark = mark /\ c.view = view
  BY <1>1 DEF Buffers, Reshaped
<1> HIDE DEF c
<1>3. Shaped(c, text, mark, view)
  BY <1>1, <1>2 DEF Typed, Shaped
<1> QED BY <1>3 DEF c

SameLists(c, b) == \A w \in Views : c.view[w].undo = b.view[w].undo

\* New places for the markers, and for the points and narrowings of the views.
Replaced(b, text, pos, point, begv, zv) ==
    Reshaped(b, text, [m \in Markers |-> [b.mark[m] EXCEPT !.pos = pos[m]]],
             [w \in Views |-> [b.view[w] EXCEPT !.point = point[w], !.begv = begv[w],
                                                !.zv = zv[w]]])

Fits(text, pos, point, begv, zv) ==
    /\ text \in Seq(Nat) /\ pos \in [Markers -> Nat]
    /\ point \in [Views -> Nat] /\ begv \in [Views -> Nat] /\ zv \in [Views -> Nat]
    /\ \A w \in Views : /\ begv[w] <= zv[w] /\ zv[w] <= Len(text)
                        /\ point[w] <= Len(text)

IsReplaced(c, b, text, pos, point, begv, zv) ==
    /\ Typed(c) /\ SameLists(c, b) /\ c.text = text
    /\ \A m \in Markers : c.mark[m].pos = pos[m]
    /\ \A w \in Views : /\ c.view[w].point = point[w] /\ c.view[w].begv = begv[w]
                        /\ c.view[w].zv = zv[w]

LEMMA ReplacedFacts ==
    ASSUME NEW b, Typed(b), NEW text, NEW pos, NEW point, NEW begv, NEW zv,
           Fits(text, pos, point, begv, zv)
    PROVE  IsReplaced(Replaced(b, text, pos, point, begv, zv), b, text, pos, point, begv, zv)
<1> DEFINE c == Replaced(b, text, pos, point, begv, zv)
           mark == [m \in Markers |-> [b.mark[m] EXCEPT !.pos = pos[m]]]
           view == [w \in Views |-> [b.view[w] EXCEPT !.point = point[w], !.begv = begv[w],
                                                      !.zv = zv[w]]]
<1>1. /\ text \in Seq(Nat) /\ pos \in [Markers -> Nat]
      /\ point \in [Views -> Nat] /\ begv \in [Views -> Nat] /\ zv \in [Views -> Nat]
      /\ \A w \in Views : /\ begv[w] <= zv[w] /\ zv[w] <= Len(text)
                          /\ point[w] <= Len(text)
  BY DEF Fits
<1>2. ASSUME NEW m \in Markers
      PROVE  mark[m] \in [view : Views, pos : Nat, adv : BOOLEAN] /\ mark[m].pos = pos[m]
  <2>1. b.mark[m] \in [view : Views, pos : Nat, adv : BOOLEAN] /\ pos[m] \in Nat
    BY <1>1, MarkFacts
  <2> QED BY <2>1
<1>3. ASSUME NEW w \in Views
      PROVE  /\ view[w] \in ViewSet /\ view[w].point = point[w] /\ view[w].begv = begv[w]
             /\ view[w].zv = zv[w] /\ view[w].undo = b.view[w].undo
             /\ InText(view[w], Len(text))
  <2>1. b.view[w] \in ViewSet /\ point[w] \in Nat /\ begv[w] \in Nat /\ zv[w] \in Nat
    BY <1>1, ViewFacts
  <2>2. view[w] = [b.view[w] EXCEPT !.point = point[w], !.begv = begv[w], !.zv = zv[w]]
    OBVIOUS
  <2> HIDE DEF view
  <2>3. /\ view[w] \in ViewSet /\ view[w].point = point[w] /\ view[w].begv = begv[w]
        /\ view[w].zv = zv[w] /\ view[w].undo = b.view[w].undo
    BY <2>1, <2>2 DEF ViewSet
  <2> QED BY <1>1, <2>3 DEF InText
<1>4. mark \in Places /\ view \in [Views -> ViewSet]
  BY <1>2, <1>3 DEF Places
<1>5. c = Reshaped(b, text, mark, view)
  BY DEF Replaced
<1> HIDE DEF c, mark, view
<1>6. Shape(text, mark, view)
  BY <1>1, <1>3, <1>4 DEF Shape
<1>7. Shaped(c, text, mark, view)
  BY <1>5, <1>6, ReshapedFacts
<1>8. IsReplaced(c, b, text, pos, point, begv, zv)
  BY <1>2, <1>3, <1>7 DEF IsReplaced, Shaped, SameLists
<1> QED BY <1>8 DEF c

\* The place P has become Q where N characters were inserted at AT.
Shifted(q, p, at, n) ==
    /\ q \in Nat
    /\ p > at => q = p + n
    /\ p < at => q = p
    /\ p = at => q = p \/ q = p + n

LEMMA AfterInsertFacts ==
    ASSUME NEW p, NEW at, NEW n, NEW sticks, p \in Nat, at \in Nat, n \in Nat
    PROVE  /\ Shifted(AfterInsert(p, at, n, sticks), p, at, n)
           /\ p = at /\ sticks => AfterInsert(p, at, n, sticks) = p + n
           /\ p = at /\ ~sticks => AfterInsert(p, at, n, sticks) = p
<1>1. CASE p > at \/ (p = at /\ sticks)
  BY <1>1 DEF AfterInsert, Shifted
<1>2. CASE ~(p > at \/ (p = at /\ sticks))
  BY <1>2 DEF AfterInsert, Shifted
<1> QED BY <1>1, <1>2

LEMMA ShiftedBound ==
    ASSUME NEW p, NEW at, NEW n, NEW q, NEW k, p \in Nat, at \in Nat, n \in Nat, k \in Nat,
           Shifted(q, p, at, n), p <= k
    PROVE  q \in Nat /\ q <= k + n
BY DEF Shifted

\* C is B with S inserted at AT through V, whose point becomes POINT.
InsertedIn(c, b, v, at, s, before, point) ==
    /\ c.text = Put(b.text, at, s)
    /\ \A m \in Markers : Shifted(c.mark[m].pos, b.mark[m].pos, at, Len(s))
    /\ \A w \in Views :
         /\ w # v => Shifted(c.view[w].point, b.view[w].point, at, Len(s))
         /\ Shifted(c.view[w].begv, b.view[w].begv, at, Len(s))
         /\ Shifted(c.view[w].zv, b.view[w].zv, at, Len(s))
         /\ b.view[w].zv = at => c.view[w].zv = at + Len(s)
    /\ c.view[v].point = point
    /\ b.view[v].begv = at => c.view[v].begv = at

InsertArgs(b, v, at, s, before, point) ==
    /\ Typed(b) /\ v \in Views /\ Gap(Nat, b.text, at, s) /\ before \in BOOLEAN
    /\ point \in Nat /\ point <= Len(b.text) + Len(s)

LEMMA InsertTextFacts ==
    ASSUME NEW b, NEW v, NEW at, NEW s, NEW before, NEW point,
           InsertArgs(b, v, at, s, before, point)
    PROVE  /\ Typed(InsertText(b, v, at, s, before, point))
           /\ SameLists(InsertText(b, v, at, s, before, point), b)
           /\ InsertedIn(InsertText(b, v, at, s, before, point), b, v, at, s, before, point)
<1> DEFINE c == InsertText(b, v, at, s, before, point)
           n == Len(s)
           k == Len(b.text)
           text == Put(b.text, at, s)
           pos == [m \in Markers |->
                     AfterInsert(b.mark[m].pos, at, n, before \/ b.mark[m].adv)]
           pt == [w \in Views |-> IF w = v THEN point
                                  ELSE AfterInsert(b.view[w].point, at, n, before)]
           bg == [w \in Views |-> AfterInsert(b.view[w].begv, at, n, StartSticks(before, w = v))]
           zv == [w \in Views |-> AfterInsert(b.view[w].zv, at, n, TRUE)]
<1>0. /\ Typed(b) /\ v \in Views /\ Gap(Nat, b.text, at, s) /\ before \in BOOLEAN
      /\ point \in Nat /\ point <= k + n
  BY DEF InsertArgs
<1>1. c = Replaced(b, text, pos, pt, bg, zv)
  BY DEF InsertText, Replaced, Reshaped, Put
<1>2. /\ at \in Nat /\ at <= k /\ s \in Seq(Nat) /\ n \in Nat /\ k \in Nat
  BY <1>0, LenProperties DEF Gap
<1>3. IsPut(Nat, text, b.text, at, s)
  BY <1>0, PutFacts
<1> HIDE DEF text, n, c, k
<1>4. text \in Seq(Nat) /\ Len(text) = k + n
  BY <1>3 DEF IsPut, n, k
<1>5. ASSUME NEW m \in Markers PROVE Shifted(pos[m], b.mark[m].pos, at, n)
  BY <1>0, <1>2, AfterInsertFacts, MarkFacts
<1>6. ASSUME NEW w \in Views
      PROVE  /\ w # v => Shifted(pt[w], b.view[w].point, at, n)
             /\ w = v => pt[w] = point
             /\ Shifted(bg[w], b.view[w].begv, at, n)
             /\ Shifted(zv[w], b.view[w].zv, at, n)
             /\ b.view[w].zv = at => zv[w] = at + n
             /\ w = v /\ b.view[w].begv = at => bg[w] = at
  <2>1. b.view[w].point \in Nat /\ b.view[w].begv \in Nat /\ b.view[w].zv \in Nat
    BY <1>0, ViewFacts
  <2>2. /\ Shifted(AfterInsert(b.view[w].point, at, n, before), b.view[w].point, at, n)
        /\ Shifted(zv[w], b.view[w].zv, at, n)
        /\ Shifted(bg[w], b.view[w].begv, at, n)
    BY <1>2, <2>1, AfterInsertFacts
  <2>3. b.view[w].zv = at => zv[w] = at + n
    BY <1>2, <2>1 DEF AfterInsert
  <2>4. w = v /\ b.view[w].begv = at => bg[w] = at
    <3> SUFFICES ASSUME w = v, b.view[w].begv = at PROVE bg[w] = at
      OBVIOUS
    <3>1. ~StartSticks(before, w = v)
      BY DEF StartSticks
    <3>2. AfterInsert(b.view[w].begv, at, n, StartSticks(before, w = v)) = b.view[w].begv
      BY <1>2, <2>1, <3>1, AfterInsertFacts
    <3> QED BY <3>2
  <2>5. (w # v => pt[w] = AfterInsert(b.view[w].point, at, n, before)) /\ (w = v => pt[w] = point)
    OBVIOUS
  <2> HIDE DEF pt, bg, zv
  <2> QED BY <2>2, <2>3, <2>4, <2>5
<1>7. DOMAIN pos = Markers /\ DOMAIN pt = Views /\ DOMAIN bg = Views /\ DOMAIN zv = Views
      /\ pos = [m \in Markers |-> pos[m]] /\ pt = [w \in Views |-> pt[w]]
      /\ bg = [w \in Views |-> bg[w]] /\ zv = [w \in Views |-> zv[w]]
  OBVIOUS
<1> HIDE DEF pos, pt, bg, zv
<1>8. ASSUME NEW w \in Views
      PROVE  /\ pt[w] \in Nat /\ pt[w] <= k + n /\ bg[w] \in Nat /\ zv[w] \in Nat
             /\ zv[w] <= k + n /\ bg[w] <= zv[w]
  <2>1. /\ b.view[w].point \in Nat /\ b.view[w].begv \in Nat /\ b.view[w].zv \in Nat
        /\ b.view[w].begv <= b.view[w].zv /\ b.view[w].zv <= k /\ b.view[w].point <= k
    BY <1>0, ViewFacts DEF k
  <2>2. pt[w] \in Nat /\ pt[w] <= k + n
    <3>1. CASE w = v
      BY <1>0, <1>6, <3>1
    <3>2. CASE w # v
      BY <1>2, <1>6, <2>1, <3>2, ShiftedBound
    <3> QED BY <3>1, <3>2
  <2>3. zv[w] \in Nat /\ zv[w] <= k + n
    BY <1>2, <1>6, <2>1, ShiftedBound
  <2>4. bg[w] \in Nat /\ bg[w] <= zv[w]
    <3> DEFINE x == b.view[w].begv
               y == b.view[w].zv
    <3>1. /\ x \in Nat /\ y \in Nat /\ x <= y /\ Shifted(bg[w], x, at, n)
          /\ Shifted(zv[w], y, at, n) /\ (y = at => zv[w] = at + n)
      BY <1>6, <2>1
    <3> HIDE DEF x, y
    <3> QED BY <1>2, <3>1 DEF Shifted
  <2> QED BY <2>2, <2>3, <2>4
<1>9. Fits(text, pos, pt, bg, zv)
  <2>1. \A m \in Markers : pos[m] \in Nat
    BY <1>5 DEF Shifted
  <2>2. /\ pos \in [Markers -> Nat] /\ pt \in [Views -> Nat] /\ bg \in [Views -> Nat]
        /\ zv \in [Views -> Nat]
    BY <1>7, <1>8, <2>1
  <2> QED BY <1>4, <1>8, <2>2 DEF Fits
<1>10. IsReplaced(c, b, text, pos, pt, bg, zv)
  BY <1>0, <1>1, <1>9, ReplacedFacts
<1>11. InsertedIn(c, b, v, at, s, before, point)
  BY <1>0, <1>5, <1>6, <1>10 DEF InsertedIn, IsReplaced, text, n
<1> QED BY <1>10, <1>11 DEF IsReplaced, c

\* C is B without the text from START up to END.
Pulled(q, p, start, end) ==
    /\ q \in Nat
    /\ p >= end => q = p - (end - start)
    /\ p > start /\ p < end => q = start
    /\ p <= start => q = p

LEMMA AfterDeleteFacts ==
    ASSUME NEW p, NEW start, NEW end, p \in Nat, start \in Nat, end \in Nat, start <= end
    PROVE  Pulled(AfterDelete(p, start, end), p, start, end)
<1>1. CASE p >= end
  BY <1>1 DEF AfterDelete, Pulled
<1>2. CASE ~(p >= end) /\ p > start
  BY <1>2 DEF AfterDelete, Pulled
<1>3. CASE ~(p >= end) /\ ~(p > start)
  BY <1>3 DEF AfterDelete, Pulled
<1> QED BY <1>1, <1>2, <1>3

LEMMA PulledBound ==
    ASSUME NEW p, NEW start, NEW end, NEW q, NEW k, p \in Nat, start \in Nat, end \in Nat,
           k \in Nat, start <= end, end <= k, Pulled(q, p, start, end), p <= k
    PROVE  q \in Nat /\ q <= k - (end - start)
BY DEF Pulled

LEMMA PulledOrder ==
    ASSUME NEW p, NEW start, NEW end, NEW q, NEW x, NEW y, p \in Nat, start \in Nat, end \in Nat,
           x \in Nat, start <= end, Pulled(q, p, start, end), Pulled(y, x, start, end), p <= x
    PROVE  q <= y
BY DEF Pulled

DeletedIn(c, b, start, end) ==
    /\ c.text = Cut(b.text, start, end)
    /\ \A m \in Markers : Pulled(c.mark[m].pos, b.mark[m].pos, start, end)
    /\ \A w \in Views : /\ Pulled(c.view[w].point, b.view[w].point, start, end)
                        /\ Pulled(c.view[w].begv, b.view[w].begv, start, end)
                        /\ Pulled(c.view[w].zv, b.view[w].zv, start, end)

LEMMA DeleteTextFacts ==
    ASSUME NEW b, NEW start, NEW end, Typed(b), Region(Nat, b.text, start, end)
    PROVE  /\ Typed(DeleteText(b, start, end)) /\ SameLists(DeleteText(b, start, end), b)
           /\ DeletedIn(DeleteText(b, start, end), b, start, end)
<1> DEFINE c == DeleteText(b, start, end)
           k == Len(b.text)
           text == Cut(b.text, start, end)
           pos == [m \in Markers |-> AfterDelete(b.mark[m].pos, start, end)]
           pt == [w \in Views |-> AfterDelete(b.view[w].point, start, end)]
           bg == [w \in Views |-> AfterDelete(b.view[w].begv, start, end)]
           zv == [w \in Views |-> AfterDelete(b.view[w].zv, start, end)]
<1>1. c = Replaced(b, text, pos, pt, bg, zv)
  BY DEF DeleteText, Replaced, Reshaped, Cut
<1>2. /\ start \in Nat /\ end \in Nat /\ start <= end /\ end <= k /\ k \in Nat
  BY LenProperties DEF Region
<1>3. IsCut(Nat, text, b.text, start, end)
  BY CutFacts
<1> HIDE DEF text, c, k
<1>4. text \in Seq(Nat) /\ Len(text) = k - (end - start)
  BY <1>3 DEF IsCut, k
<1>5. ASSUME NEW m \in Markers PROVE Pulled(pos[m], b.mark[m].pos, start, end)
  BY <1>2, AfterDeleteFacts, MarkFacts
<1>6. ASSUME NEW w \in Views
      PROVE  /\ Pulled(pt[w], b.view[w].point, start, end)
             /\ Pulled(bg[w], b.view[w].begv, start, end)
             /\ Pulled(zv[w], b.view[w].zv, start, end)
  BY <1>2, AfterDeleteFacts, ViewFacts
<1>7. DOMAIN pos = Markers /\ DOMAIN pt = Views /\ DOMAIN bg = Views /\ DOMAIN zv = Views
      /\ pos = [m \in Markers |-> pos[m]] /\ pt = [w \in Views |-> pt[w]]
      /\ bg = [w \in Views |-> bg[w]] /\ zv = [w \in Views |-> zv[w]]
  OBVIOUS
<1> HIDE DEF pos, pt, bg, zv
<1>8. ASSUME NEW w \in Views
      PROVE  /\ pt[w] \in Nat /\ pt[w] <= Len(text) /\ bg[w] \in Nat /\ zv[w] \in Nat
             /\ zv[w] <= Len(text) /\ bg[w] <= zv[w]
  <2>1. /\ b.view[w].point \in Nat /\ b.view[w].begv \in Nat /\ b.view[w].zv \in Nat
        /\ b.view[w].begv <= b.view[w].zv /\ b.view[w].zv <= k /\ b.view[w].point <= k
    BY ViewFacts DEF k
  <2>2. pt[w] \in Nat /\ pt[w] <= Len(text) /\ zv[w] \in Nat /\ zv[w] <= Len(text)
    BY <1>2, <1>4, <1>6, <2>1, PulledBound
  <2>3. bg[w] \in Nat /\ bg[w] <= zv[w]
    <3>1. bg[w] \in Nat
      BY <1>6 DEF Pulled
    <3>2. bg[w] <= zv[w]
      BY <1>2, <1>6, <2>1, PulledOrder
    <3> QED BY <3>1, <3>2
  <2> QED BY <2>2, <2>3
<1>9. Fits(text, pos, pt, bg, zv)
  <2>1. \A m \in Markers : pos[m] \in Nat
    BY <1>5 DEF Pulled
  <2>2. /\ pos \in [Markers -> Nat] /\ pt \in [Views -> Nat] /\ bg \in [Views -> Nat]
        /\ zv \in [Views -> Nat]
    BY <1>7, <1>8, <2>1
  <2> QED BY <1>4, <1>8, <2>2 DEF Fits
<1>10. IsReplaced(c, b, text, pos, pt, bg, zv)
  BY <1>1, <1>9, ReplacedFacts
<1>11. DeletedIn(c, b, start, end)
  BY <1>5, <1>6, <1>10 DEF DeletedIn, IsReplaced, text
<1> QED BY <1>10, <1>11 DEF IsReplaced, c

\* C is B with S, of N characters, in the place of the text from START up to END.
Resettled(q, p, start, end, n) ==
    /\ q \in Nat
    /\ p >= end => q = p - (end - start) + n
    /\ p > start /\ p < end => q \in start .. start + n
    /\ p <= start => q = p

LEMMA RelocatedFacts ==
    ASSUME NEW p, NEW start, NEW end, NEW n, p \in Nat, start \in Nat, end \in Nat, n \in Nat,
           start < end
    PROVE  /\ Resettled(IF p >= end THEN p - (end - start) + n ELSE IF p > start THEN start ELSE p,
                    p, start, end, n)
           /\ Resettled(IF p > start THEN start + n + Max2(p - end, 0) ELSE p, p, start, end, n)
<1>1. CASE p >= end
  <2>1. p > start /\ p - end \in Nat /\ Max2(p - end, 0) = p - end
    BY <1>1 DEF Max2
  <2> QED BY <1>1, <2>1 DEF Resettled
<1>2. CASE ~(p >= end) /\ p > start
  <2>1. Max2(p - end, 0) = 0
    BY <1>2 DEF Max2
  <2> QED BY <1>2, <2>1 DEF Resettled
<1>3. CASE ~(p >= end) /\ ~(p > start)
  BY <1>3 DEF Resettled
<1> QED BY <1>1, <1>2, <1>3

LEMMA ResettledBound ==
    ASSUME NEW p, NEW start, NEW end, NEW n, NEW q, NEW k, p \in Nat, start \in Nat, end \in Nat,
           n \in Nat, k \in Nat, start <= end, end <= k, Resettled(q, p, start, end, n), p <= k
    PROVE  q \in Nat /\ q <= k - (end - start) + n
BY DEF Resettled

SwappedIn(c, b, start, end, s) ==
    /\ c.text = Swapped(b.text, start, end, s)
    /\ \A m \in Markers : Resettled(c.mark[m].pos, b.mark[m].pos, start, end, Len(s))
    /\ \A w \in Views : /\ Resettled(c.view[w].point, b.view[w].point, start, end, Len(s))
                        /\ Resettled(c.view[w].begv, b.view[w].begv, start, end, Len(s))
                        /\ Resettled(c.view[w].zv, b.view[w].zv, start, end, Len(s))

ReplaceArgs(b, v, start, end, s) ==
    /\ Typed(b) /\ v \in Views /\ Region(Nat, b.text, start, end) /\ start < end
    /\ s \in Seq(Nat)

LEMMA ReplaceTextFacts ==
    ASSUME NEW b, NEW v, NEW start, NEW end, NEW s, ReplaceArgs(b, v, start, end, s)
    PROVE  /\ Typed(ReplaceText(b, v, start, end, s))
           /\ SameLists(ReplaceText(b, v, start, end, s), b)
           /\ SwappedIn(ReplaceText(b, v, start, end, s), b, start, end, s)
<1> DEFINE c == ReplaceText(b, v, start, end, s)
           k == Len(b.text)
           n == Len(s)
           text == Swapped(b.text, start, end, s)
           Relocate(p) == IF p >= end THEN p - (end - start) + n
                          ELSE IF p > start THEN start ELSE p
           Active(p) == IF p > start THEN start + n + Max2(p - end, 0) ELSE p
           pos == [m \in Markers |-> Relocate(b.mark[m].pos)]
           pt == [w \in Views |-> IF w = v THEN Active(b.view[w].point)
                                  ELSE Relocate(b.view[w].point)]
           bg == [w \in Views |-> Relocate(b.view[w].begv)]
           zv == [w \in Views |-> Relocate(b.view[w].zv)]
<1>0. /\ Typed(b) /\ v \in Views /\ Region(Nat, b.text, start, end) /\ start < end
      /\ s \in Seq(Nat)
  BY DEF ReplaceArgs
<1>1. c = Replaced(b, text, pos, pt, bg, zv)
  BY ZenonT(40) DEF ReplaceText, Replaced, Reshaped, Swapped
<1>2. /\ start \in Nat /\ end \in Nat /\ start <= end /\ end <= k /\ k \in Nat /\ n \in Nat
  BY <1>0, LenProperties DEF Region
<1>3. IsSwapped(Nat, text, b.text, start, end, s)
  BY <1>0, SwappedFacts
<1> HIDE DEF text, c, k, n
<1>4. text \in Seq(Nat) /\ Len(text) = k - (end - start) + n
  BY <1>3 DEF IsSwapped, k, n
<1>r. ASSUME NEW p, p \in Nat
      PROVE  Resettled(Relocate(p), p, start, end, n) /\ Resettled(Active(p), p, start, end, n)
  BY <1>0, <1>2, <1>r, RelocatedFacts
<1> HIDE DEF Relocate, Active
<1>5. ASSUME NEW m \in Markers PROVE Resettled(pos[m], b.mark[m].pos, start, end, n)
  BY <1>0, <1>r, MarkFacts
<1>6. ASSUME NEW w \in Views
      PROVE  /\ Resettled(pt[w], b.view[w].point, start, end, n)
             /\ bg[w] = Relocate(b.view[w].begv) /\ zv[w] = Relocate(b.view[w].zv)
             /\ Resettled(bg[w], b.view[w].begv, start, end, n)
             /\ Resettled(zv[w], b.view[w].zv, start, end, n)
  BY <1>0, <1>r, ViewFacts
<1>7. DOMAIN pos = Markers /\ DOMAIN pt = Views /\ DOMAIN bg = Views /\ DOMAIN zv = Views
      /\ pos = [m \in Markers |-> pos[m]] /\ pt = [w \in Views |-> pt[w]]
      /\ bg = [w \in Views |-> bg[w]] /\ zv = [w \in Views |-> zv[w]]
  OBVIOUS
<1> HIDE DEF pos, pt, bg, zv
<1>8. ASSUME NEW w \in Views
      PROVE  /\ pt[w] \in Nat /\ pt[w] <= Len(text) /\ bg[w] \in Nat /\ zv[w] \in Nat
             /\ zv[w] <= Len(text) /\ bg[w] <= zv[w]
  <2>1. /\ b.view[w].point \in Nat /\ b.view[w].begv \in Nat /\ b.view[w].zv \in Nat
        /\ b.view[w].begv <= b.view[w].zv /\ b.view[w].zv <= k /\ b.view[w].point <= k
    BY <1>0, ViewFacts DEF k
  <2>2. pt[w] \in Nat /\ pt[w] <= Len(text) /\ zv[w] \in Nat /\ zv[w] <= Len(text)
    BY <1>2, <1>4, <1>6, <2>1, ResettledBound
  <2>3. bg[w] \in Nat /\ bg[w] <= zv[w]
    <3>1. bg[w] \in Nat
      BY <1>6 DEF Resettled
    <3> DEFINE x == b.view[w].begv
               y == b.view[w].zv
    <3>2. x \in Nat /\ y \in Nat /\ x <= y /\ bg[w] = Relocate(x) /\ zv[w] = Relocate(y)
      BY <1>6, <2>1
    <3> HIDE DEF x, y
    <3>3. Relocate(x) <= Relocate(y)
      BY <1>0, <1>2, <3>2 DEF Relocate
    <3> QED BY <3>1, <3>2, <3>3
  <2> QED BY <2>2, <2>3
<1>9. Fits(text, pos, pt, bg, zv)
  <2>1. \A m \in Markers : pos[m] \in Nat
    BY <1>5 DEF Resettled
  <2>2. /\ pos \in [Markers -> Nat] /\ pt \in [Views -> Nat] /\ bg \in [Views -> Nat]
        /\ zv \in [Views -> Nat]
    BY <1>7, <1>8, <2>1
  <2> QED BY <1>4, <1>8, <2>2 DEF Fits
<1>10. IsReplaced(c, b, text, pos, pt, bg, zv)
  BY <1>0, <1>1, <1>9, ReplacedFacts
<1>11. SwappedIn(c, b, start, end, s)
  BY <1>5, <1>6, <1>10 DEF SwappedIn, IsReplaced, text, n
<1> QED BY <1>10, <1>11 DEF IsReplaced, c

TransposeArgs(b, v, s1, e1, s2, e2) ==
    Typed(b) /\ v \in Views /\ Regions(Nat, b.text, s1, e1, s2, e2)

LEMMA TransposeTextFacts ==
    ASSUME NEW b, NEW v, NEW s1, NEW e1, NEW s2, NEW e2, TransposeArgs(b, v, s1, e1, s2, e2)
    PROVE  /\ Typed(TransposeText(b, v, s1, e1, s2, e2))
           /\ SameLists(TransposeText(b, v, s1, e1, s2, e2), b)
           /\ TransposeText(b, v, s1, e1, s2, e2).text = Transposed(b.text, s1, e1, s2, e2)
<1> DEFINE c == TransposeText(b, v, s1, e1, s2, e2)
           k == Len(b.text)
           text == Transposed(b.text, s1, e1, s2, e2)
           Map(p) == IF p < s1 \/ p >= e2 THEN p
                     ELSE IF p < e1 THEN p + e2 - e1
                     ELSE IF p < s2 THEN p + (e2 - s2) - (e1 - s1)
                     ELSE p - (s2 - s1)
           pos == [m \in Markers |-> Map(b.mark[m].pos)]
           pt == [w \in Views |-> Map(b.view[w].point)]
           bg == [w \in Views |-> IF w = v THEN b.view[w].begv
                                  ELSE Min2(Map(b.view[w].begv), Map(b.view[w].zv))]
           zv == [w \in Views |-> IF w = v THEN b.view[w].zv
                                  ELSE Max2(Map(b.view[w].begv), Map(b.view[w].zv))]
           view == [w \in Views |-> [b.view[w] EXCEPT !.point = pt[w], !.begv = bg[w],
                                                      !.zv = zv[w]]]
           View(w) == IF w = v THEN [b.view[w] EXCEPT !.point = Map(@)]
                      ELSE LET ends == InOrderEnds(Map(b.view[w].begv), Map(b.view[w].zv))
                           IN  [b.view[w] EXCEPT !.point = Map(@), !.begv = ends[1],
                                                 !.zv = ends[2]]
<1>0. /\ Typed(b) /\ v \in Views /\ Regions(Nat, b.text, s1, e1, s2, e2)
  BY DEF TransposeArgs
<1>1. c = Replaced(b, text, pos, pt, bg, zv)
  <2>1. ASSUME NEW w \in Views PROVE View(w) = view[w]
    <3>1. b.view[w] \in ViewSet
      BY <1>0, ViewFacts
    <3>2. CASE w = v
      <4>1. view[w] = [b.view[w] EXCEPT !.point = Map(b.view[w].point), !.begv = b.view[w].begv,
                                        !.zv = b.view[w].zv]
        BY <3>2
      <4>2. View(w) = [b.view[w] EXCEPT !.point = Map(b.view[w].point)]
        BY <3>2
      <4> HIDE DEF view, View, Map
      <4> QED BY <3>1, <4>1, <4>2 DEF ViewSet
    <3>3. CASE w # v
      <4> HIDE DEF Map
      <4> QED BY <3>3 DEF InOrderEnds
    <3> QED BY <3>2, <3>3
  <2>2. view = [w \in Views |-> View(w)]
    <3> HIDE DEF View, pt, bg, zv
    <3>1. view = [w \in Views |-> view[w]]
      OBVIOUS
    <3> HIDE DEF view
    <3>2. [w \in Views |-> view[w]] = [w \in Views |-> View(w)]
      BY <2>1
    <3> QED BY <3>1, <3>2
  <2>3. c = Reshaped(b, text, [m \in Markers |-> [b.mark[m] EXCEPT !.pos = Map(@)]],
                     [w \in Views |-> View(w)])
    <3> HIDE DEF pos, pt, bg, zv, view
    <3> QED BY DEF TransposeText, Reshaped, Transposed
  <2>4. [m \in Markers |-> [b.mark[m] EXCEPT !.pos = Map(@)]]
          = [m \in Markers |-> [b.mark[m] EXCEPT !.pos = pos[m]]]
    <3> HIDE DEF Map
    <3> QED OBVIOUS
  <2> HIDE DEF pos, View, Map, pt, bg, zv
  <2> QED BY <2>2, <2>3, <2>4 DEF Replaced
<1>2. /\ s1 \in Nat /\ e1 \in Nat /\ s2 \in Nat /\ e2 \in Nat /\ k \in Nat
      /\ s1 < e1 /\ e1 <= s2 /\ s2 < e2 /\ e2 <= k
  BY <1>0, LenProperties DEF Regions
<1>3. IsTransposed(Nat, text, b.text, s1, e1, s2, e2)
  BY <1>0, TransposedFacts
<1> HIDE DEF text, c, k, view, View
<1>4. text \in Seq(Nat) /\ Len(text) = k
  BY <1>3 DEF IsTransposed, k
<1>5. ASSUME NEW p, p \in Nat PROVE Map(p) \in Nat /\ (p <= k => Map(p) <= k)
  BY <1>2, <1>5
<1> HIDE DEF Map
<1>6. ASSUME NEW m \in Markers PROVE pos[m] \in Nat
  BY <1>0, <1>5, MarkFacts
<1>7. ASSUME NEW w \in Views
      PROVE  /\ pt[w] \in Nat /\ pt[w] <= Len(text) /\ bg[w] \in Nat /\ zv[w] \in Nat
             /\ zv[w] <= Len(text) /\ bg[w] <= zv[w]
  <2>1. /\ b.view[w].point \in Nat /\ b.view[w].begv \in Nat /\ b.view[w].zv \in Nat
        /\ b.view[w].begv <= b.view[w].zv /\ b.view[w].zv <= k /\ b.view[w].point <= k
        /\ b.view[w].begv <= k
    BY <1>0, <1>2, ViewFacts DEF k
  <2>2. pt[w] \in Nat /\ pt[w] <= Len(text)
    BY <1>4, <1>5, <2>1
  <2>3. CASE w = v
    BY <1>4, <2>1, <2>2, <2>3
  <2>4. CASE w # v
    <3> DEFINE x == Map(b.view[w].begv)
               y == Map(b.view[w].zv)
    <3>1. x \in Nat /\ y \in Nat /\ x <= k /\ y <= k /\ bg[w] = Min2(x, y) /\ zv[w] = Max2(x, y)
      BY <1>5, <2>1, <2>4
    <3> HIDE DEF x, y
    <3> QED BY <1>2, <1>4, <2>2, <3>1, SMTT(20) DEF Min2, Max2
  <2> QED BY <2>3, <2>4
<1>8. DOMAIN pos = Markers /\ DOMAIN pt = Views /\ DOMAIN bg = Views /\ DOMAIN zv = Views
      /\ pos = [m \in Markers |-> pos[m]] /\ pt = [w \in Views |-> pt[w]]
      /\ bg = [w \in Views |-> bg[w]] /\ zv = [w \in Views |-> zv[w]]
  OBVIOUS
<1> HIDE DEF pos, pt, bg, zv
<1>9. Fits(text, pos, pt, bg, zv)
  <2>1. /\ pos \in [Markers -> Nat] /\ pt \in [Views -> Nat] /\ bg \in [Views -> Nat]
        /\ zv \in [Views -> Nat]
    BY <1>6, <1>7, <1>8
  <2> QED BY <1>4, <1>7, <2>1 DEF Fits
<1>10. IsReplaced(c, b, text, pos, pt, bg, zv)
  BY <1>0, <1>1, <1>9, ReplacedFacts
<1> QED BY <1>10 DEF IsReplaced, c, text

\* A place of a view that Clamp has put in its narrowing.
LEMMA ClampFacts ==
    ASSUME NEW b, Typed(b), NEW v \in Views, NEW p, p \in Int
    PROVE  /\ Clamp(b, v, p) \in Nat /\ Clamp(b, v, p) <= Len(b.text)
           /\ b.view[v].begv <= Clamp(b, v, p) /\ Clamp(b, v, p) <= b.view[v].zv
           /\ b.view[v].begv <= p /\ p <= b.view[v].zv => Clamp(b, v, p) = p
<1>1. /\ b.view[v].begv \in Nat /\ b.view[v].zv \in Nat /\ Len(b.text) \in Nat
      /\ b.view[v].begv <= b.view[v].zv /\ b.view[v].zv <= Len(b.text)
  BY ViewFacts
<1> QED BY <1>1 DEF Clamp, Min2, Max2

\* C is B but for the point of V.
Pointed(c, b, v) ==
    /\ Typed(c) /\ SameLists(c, b) /\ c.text = b.text /\ c.mark = b.mark
    /\ c.modified = b.modified /\ c.time = b.time
    /\ \A w \in Views : c.view[w].begv = b.view[w].begv /\ c.view[w].zv = b.view[w].zv

LEMMA SetPointFacts ==
    ASSUME NEW b, Typed(b), NEW v \in Views, NEW p, p \in Int
    PROVE  /\ Pointed(SetPoint(b, v, p), b, v)
           /\ SetPoint(b, v, p).view[v].point = Clamp(b, v, p)
<1> DEFINE c == SetPoint(b, v, p)
           q == Clamp(b, v, p)
           r == [b.view[v] EXCEPT !.point = q]
           f == [b.view EXCEPT ![v] = r]
<1>1. /\ b.view \in [Views -> ViewSet] /\ b.view[v] \in ViewSet /\ b \in Buffers
      /\ \A w \in Views : InText(b.view[w], Len(b.text))
  BY TypedFacts DEF Typed
<1>2. q \in Nat /\ q <= Len(b.text)
  BY ClampFacts
<1>3. c = [b EXCEPT !.view = f]
  BY <1>1 DEF SetPoint, Buffers
<1> HIDE DEF q
<1>4. /\ r \in ViewSet /\ r.undo = b.view[v].undo /\ r.point = q /\ r.begv = b.view[v].begv
      /\ r.zv = b.view[v].zv
  BY <1>1, <1>2 DEF ViewSet
<1> HIDE DEF r
<1>5. f \in [Views -> ViewSet] /\ \A w \in Views : f[w] = IF w = v THEN r ELSE b.view[w]
  BY <1>1, <1>4
<1> HIDE DEF f
<1>6. /\ c \in Buffers /\ c.view = f /\ c.text = b.text /\ c.mark = b.mark
      /\ c.modified = b.modified /\ c.time = b.time
  BY <1>1, <1>3, <1>5 DEF Buffers
<1> HIDE DEF c
<1>7. \A w \in Views : InText(c.view[w], Len(c.text))
  BY <1>1, <1>2, <1>4, <1>5, <1>6 DEF InText
<1>8. \A w \in Views : /\ c.view[w].begv = b.view[w].begv /\ c.view[w].zv = b.view[w].zv
                       /\ c.view[w].undo = b.view[w].undo
  BY <1>4, <1>5, <1>6
<1>9. Pointed(c, b, v) /\ c.view[v].point = q
  BY <1>4, <1>5, <1>6, <1>7, <1>8 DEF Pointed, Typed, SameLists
<1> QED BY <1>9 DEF c, q

\* C is B but for the undo list of V and the point that it remembers.
LEMMA AddBoundaryFacts ==
    ASSUME NEW b, Typed(b), NEW v \in Views, NEW tracked \in SUBSET Markers
    PROVE  /\ Typed(AddBoundary(b, v, tracked))
           /\ AddBoundary(b, v, tracked).text = b.text
           /\ AddBoundary(b, v, tracked).mark = b.mark
           /\ \A w \in Views :
                /\ AddBoundary(b, v, tracked).view[w].begv = b.view[w].begv
                /\ AddBoundary(b, v, tracked).view[w].zv = b.view[w].zv
                /\ AddBoundary(b, v, tracked).view[w].point = b.view[w].point
           /\ \A y : Leads(b.text, b.view[v].undo, y) =>
                Leads(b.text, AddBoundary(b, v, tracked).view[v].undo, y)
<1> DEFINE c == AddBoundary(b, v, tracked)
           q == Point(b, v) + 1
           list == b.view[v].undo
           e == Boundary(b, tracked)
           new == IF AtBoundary(list) THEN list ELSE <<e>> \o list
           r == [b.view[v] EXCEPT !.undo = new, !.before = q]
           f == [b.view EXCEPT ![v] = r]
<1>1. /\ b.view \in [Views -> ViewSet] /\ b.view[v] \in ViewSet /\ b \in Buffers
      /\ b.text \in Seq(Nat) /\ b.mark \in Places
      /\ \A w \in Views : InText(b.view[w], Len(b.text))
  BY TypedFacts DEF Typed
<1>2. q \in Nat
  <2>1. Point(b, v) \in Nat
    BY ViewFacts, ClampFacts DEF Point
  <2> QED BY <2>1
<1>3. list \in Seq(Entries)
  BY ViewFacts
<1>4. c = [b EXCEPT !.view = f]
  <2> HIDE DEF q, e
  <2>1. r = [[b.view[v] EXCEPT !.undo = new] EXCEPT !.before = q]
    OBVIOUS
  <2>2. c = [b EXCEPT !.view = [[b.view EXCEPT ![v] = [b.view[v] EXCEPT !.undo = new]]
                                   EXCEPT ![v] = [@ EXCEPT !.before = q]]]
    BY <1>1 DEF AddBoundary, Buffers, q, e
  <2> HIDE DEF new
  <2>3. [[b.view EXCEPT ![v] = [b.view[v] EXCEPT !.undo = new]]
                                   EXCEPT ![v] = [@ EXCEPT !.before = q]] = f
    BY <1>1
  <2> QED BY <2>2, <2>3
<1>5. e \in Entries /\ e.kind = "boundary" /\ e.text = b.text
  BY <1>1 DEF Boundary, Entries, Boundaries
<1>6. Undoes(e, b.text, b.text)
  BY <1>5 DEF Undoes
<1> HIDE DEF q, e
<1>7. new \in Seq(Entries) /\ \A y : Leads(b.text, list, y) => Leads(b.text, new, y)
  <2> HIDE DEF list
  <2>1. <<e>> \o list \in Seq(Entries)
    BY <1>3, <1>5
  <2>2. ASSUME NEW y, Leads(b.text, list, y) PROVE Leads(b.text, <<e>> \o list, y)
    BY <1>1, <1>3, <1>5, <1>6, <2>2, LeadsBack
  <2> QED BY <1>3, <2>1, <2>2
<1> HIDE DEF new
<1>8. /\ r \in ViewSet /\ r.undo = new /\ r.point = b.view[v].point /\ r.begv = b.view[v].begv
      /\ r.zv = b.view[v].zv
  BY <1>1, <1>2, <1>7 DEF ViewSet
<1> HIDE DEF r
<1>9. f \in [Views -> ViewSet] /\ \A w \in Views : f[w] = IF w = v THEN r ELSE b.view[w]
  BY <1>1, <1>8
<1> HIDE DEF f
<1>10. /\ c \in Buffers /\ c.view = f /\ c.text = b.text /\ c.mark = b.mark
  BY <1>1, <1>4, <1>9 DEF Buffers
<1> HIDE DEF c
<1>11. \A w \in Views : /\ c.view[w].begv = b.view[w].begv /\ c.view[w].zv = b.view[w].zv
                        /\ c.view[w].point = b.view[w].point
  BY <1>8, <1>9, <1>10
<1>12. Typed(c)
  BY <1>1, <1>10, <1>11 DEF Typed, InText
<1>13. c.view[v].undo = new
  BY <1>8, <1>9, <1>10
<1> QED BY <1>7, <1>10, <1>11, <1>12, <1>13 DEF c, list

-----------------------------------------------------------------------------
(* Recording edits.                                                        *)

\* L is LIST with more in front that does not change the text.
Grown(l, list) ==
    /\ l \in Seq(Entries) /\ Len(l) >= Len(list)
    /\ \A x, y : Leads(x, list, y) => Leads(x, l, y)

LEMMA GrownFacts ==
    ASSUME NEW q, NEW list, q \in Seq(Entries), list \in Seq(Entries), AllQuiet(q)
    PROVE  Grown(q \o list, list)
<1>1. q \o list \in Seq(Entries) /\ Len(q \o list) >= Len(list)
  <2>1. IsJoin(Entries, q \o list, q, list) /\ Len(q) \in Nat /\ Len(list) \in Nat
    BY JoinIs, LenProperties
  <2> QED BY <2>1 DEF IsJoin
<1>2. ASSUME NEW x, NEW y, Leads(x, list, y) PROVE Leads(x, q \o list, y)
  <2>1. x \in Seq(Nat)
    BY <1>2, LeadsType
  <2>2. Leads(x, q, x)
    BY <2>1, LeadsQuietly
  <2> QED BY <1>2, <2>2, LeadsOn
<1> QED BY <1>1, <1>2 DEF Grown

LEMMA AtMostOne ==
    ASSUME NEW e, e \in Entries, Quiet(e)
    PROVE  /\ <<e>> \in Seq(Entries) /\ AllQuiet(<<e>>) /\ Len(<<e>>) = 1 /\ <<e>>[1] = e
           /\ <<>> \in Seq(Entries) /\ AllQuiet(<<>>) /\ Len(<<>>) = 0
BY DEF AllQuiet

LEMMA AllQuietJoin ==
    ASSUME NEW p, NEW q, p \in Seq(Entries), q \in Seq(Entries), AllQuiet(p), AllQuiet(q)
    PROVE  p \o q \in Seq(Entries) /\ AllQuiet(p \o q)
<1>1. IsJoin(Entries, p \o q, p, q) /\ Len(p) \in Nat /\ Len(q) \in Nat
  BY JoinIs, LenProperties
<1>2. ASSUME NEW k \in 1 .. Len(p) + Len(q) PROVE Quiet((p \o q)[k])
  <2>1. CASE k <= Len(p)
    <3>1. k \in 1 .. Len(p) /\ (p \o q)[k] = p[k]
      BY <1>1, <2>1 DEF IsJoin
    <3> QED BY <3>1 DEF AllQuiet
  <2>2. CASE ~(k <= Len(p))
    <3>1. k - Len(p) \in 1 .. Len(q) /\ (p \o q)[k] = q[k - Len(p)]
      BY <1>1, <2>2 DEF IsJoin
    <3> QED BY <3>1 DEF AllQuiet
  <2> QED BY <2>1, <2>2
<1> QED BY <1>1, <1>2 DEF IsJoin, AllQuiet

\* Nothing can be merged with the records that go before a boundary.
Unmerged(list) == list # <<>> => Head(list).kind # "insert"

LEMMA ModTimeType ==
    ASSUME NEW b, Typed(b), NEW v
    PROVE  ModTime(b, v) \in Nat
BY TypedFacts DEF ModTime

LEMMA RecordPointFacts ==
    ASSUME NEW b, Typed(b), NEW v \in Views, NEW beg
    PROVE  /\ Grown(RecordPoint(b, v, beg), b.view[v].undo)
           /\ AtBoundary(b.view[v].undo) => Unmerged(RecordPoint(b, v, beg))
<1> DEFINE list == b.view[v].undo
           first == IF b.modified THEN <<>> ELSE <<FirstChange(ModTime(b, v))>>
           point == IF AtBoundary(list) /\ b.view[v].before \notin {0, beg}
                    THEN <<PointAt(b.view[v].before)>> ELSE <<>>
           q == point \o first
<1>1. list \in Seq(Entries) /\ b.view[v].before \in Nat /\ ModTime(b, v) \in Nat
  BY ViewFacts, ModTimeType
<1>2. RecordPoint(b, v, beg) = q \o list
  BY DEF RecordPoint
<1>3. first \in Seq(Entries) /\ AllQuiet(first)
  <2>1. FirstChange(ModTime(b, v)) \in Entries /\ Quiet(FirstChange(ModTime(b, v)))
    BY <1>1, QuietTypes
  <2> QED BY <2>1, AtMostOne
<1>4. point \in Seq(Entries) /\ AllQuiet(point)
  <2>1. PointAt(b.view[v].before) \in Entries /\ Quiet(PointAt(b.view[v].before))
    BY <1>1, QuietTypes
  <2> QED BY <2>1, AtMostOne
<1> HIDE DEF first, point
<1>5. q \in Seq(Entries) /\ AllQuiet(q)
  BY <1>3, <1>4, AllQuietJoin
<1> HIDE DEF q, list
<1>6. Grown(q \o list, list)
  BY <1>1, <1>5, GrownFacts
<1>7. ASSUME AtBoundary(list) PROVE Unmerged(q \o list)
  <2>1. CASE q = <<>>
    <3>1. q \o list = list
      BY <1>1, <2>1, ConcatEmptySeq
    <3> QED BY <1>7, <3>1 DEF AtBoundary, Unmerged
  <2>2. CASE q # <<>>
    <3> DEFINE w == q \o list
    <3>1. IsJoin(Entries, w, q, list) /\ Len(q) \in Nat /\ Len(list) \in Nat /\ Len(q) # 0
      BY <1>1, <1>5, <2>2, JoinIs, LenProperties, EmptySeq
    <3> HIDE DEF w
    <3>2. 1 \in 1 .. Len(q) /\ 1 \in 1 .. Len(q) + Len(list)
      BY <3>1
    <3>3. w[1] = q[1] /\ w \in Seq(Entries)
      BY <3>1, <3>2 DEF IsJoin
    <3>4. Quiet(w[1])
      BY <1>5, <3>2, <3>3 DEF AllQuiet
    <3>5. w # <<>> => Head(w) = w[1]
      BY <3>3, HeadTailProperties
    <3>6. Unmerged(w)
      BY <3>4, <3>5 DEF Unmerged, Quiet
    <3> QED BY <3>6 DEF w
  <2> QED BY <2>1, <2>2
<1> QED BY <1>2, <1>6, <1>7 DEF list

\* What is added to an undo list when it holds no change, and otherwise.
Lengthened(l, list) == Len(l) >= Len(list) /\ (AtBoundary(list) => Len(l) > Len(list))

LEMMA ConsFacts ==
    ASSUME NEW e, NEW list, e \in Entries, list \in Seq(Entries)
    PROVE  <<e>> \o list \in Seq(Entries) /\ Len(<<e>> \o list) = Len(list) + 1
<1>1. <<e>> \in Seq(Entries) /\ Len(<<e>>) = 1 /\ Len(list) \in Nat
  BY LenProperties
<1>2. IsJoin(Entries, <<e>> \o list, <<e>>, list)
  BY <1>1, JoinIs
<1> QED BY <1>1, <1>2 DEF IsJoin

IsMerged(l, list, x, at, s) ==
    /\ l \in Seq(Entries) /\ Len(l) >= Len(list)
    /\ Unmerged(list) => Len(l) = Len(list) + 1
    /\ \A y : Leads(x, list, y) => Leads(Put(x, at, s), l, y)

LEMMA MergedFacts ==
    ASSUME NEW list, NEW x, NEW at, NEW s, list \in Seq(Entries), Gap(Nat, x, at, s), s # <<>>
    PROVE  IsMerged(Merged(list, at + 1, Len(s)), list, x, at, s)
<1> DEFINE n == Len(s)
           z == Put(x, at, s)
           joins == list # <<>> /\ Head(list).kind = "insert" /\ Head(list).end = at + 1
           l == Merged(list, at + 1, n)
<1>1. /\ x \in Seq(Nat) /\ s \in Seq(Nat) /\ at \in Nat /\ at <= Len(x) /\ n \in Nat /\ n # 0
      /\ Len(list) \in Nat /\ Len(x) \in Nat
  BY LenProperties, EmptySeq DEF Gap
<1>2. IsPut(Nat, z, x, at, s)
  BY PutFacts
<1> HIDE DEF n, z
<1>3. z \in Seq(Nat) /\ Len(z) = Len(x) + n
  BY <1>2 DEF IsPut, n
<1>4. CASE joins
  <2> DEFINE e == Head(list)
             f == Inserted(e.beg, at + 1 + n)
  <2>1. e \in Entries /\ Tail(list) \in Seq(Entries) /\ Len(Tail(list)) = Len(list) - 1
    BY <1>4, HeadTailProperties
  <2>2. e.beg \in Place /\ e.end \in Nat /\ e.beg < e.end /\ e.kind = "insert" /\ e.end = at + 1
    BY <1>4, <2>1, EntryFacts
  <2>3. e \in Insertions
    BY <2>1, <2>2 DEF Entries, Deletions, Shifts, Firsts, Points, Boundaries
  <2>4. [e EXCEPT !.end = at + 1 + n] = f
    <3> HIDE DEF e
    <3> QED BY <2>2, <2>3 DEF Insertions, Inserted
  <2>5. l = <<f>> \o Tail(list)
    <3> HIDE DEF f
    <3> QED BY <1>4, <2>4 DEF Merged
  <2> HIDE DEF e, f, l
  <2>6. e.beg \in Nat /\ e.beg - 1 \in Nat /\ e.beg - 1 <= at /\ at + 1 + n \in Nat
        /\ e.beg < at + 1 + n
    BY <1>1, <2>2 DEF Place
  <2>7. f \in Entries /\ f.kind = "insert" /\ f.beg = e.beg /\ f.end = at + 1 + n
    BY <2>2, <2>6, InsertedType DEF f
  <2>8. l \in Seq(Entries) /\ Len(l) = Len(Tail(list)) + 1
    BY <2>1, <2>5, <2>7, ConsFacts
  <2>9. Len(l) >= Len(list) /\ ~Unmerged(list)
    BY <1>1, <1>4, <2>1, <2>8 DEF Unmerged
  <2>10. ASSUME NEW y, Leads(x, list, y) PROVE Leads(z, l, y)
    <3>1. PICK w \in Seq(Nat) : Undoes(e, x, w) /\ Leads(w, Tail(list), y)
      BY <1>4, <2>10, LeadsPast DEF e
    <3>2. w = Cut(x, e.beg - 1, at)
      <4>1. e.end - 1 = at
        BY <1>1, <2>2
      <4> QED BY <2>2, <3>1, <4>1 DEF Undoes
    <3>3. Region(Nat, x, e.beg - 1, at)
      BY <1>1, <2>6 DEF Region
    <3>4. Cut(Put(x, at, s), e.beg - 1, at + Len(s)) = Cut(x, e.beg - 1, at)
      BY <1>1, <3>3, CutOfPut
    <3>5. w = Cut(z, e.beg - 1, at + n)
      BY <3>2, <3>4 DEF z, n
    <3>6. f.end - 1 = at + n /\ f.beg - 1 = e.beg - 1 /\ at + n <= Len(z)
      BY <1>1, <1>3, <2>7
    <3>7. Undoes(f, z, w)
      BY <2>7, <3>5, <3>6 DEF Undoes
    <3> QED BY <1>3, <2>1, <2>5, <2>7, <3>1, <3>7, LeadsBack
  <2> QED BY <2>8, <2>9, <2>10 DEF IsMerged, l, z, n
<1>5. CASE ~joins
  <2> DEFINE f == Inserted(at + 1, at + 1 + n)
  <2>1. l = <<f>> \o list
    <3> HIDE DEF f
    <3>1. l = <<Inserted(at + 1, (at + 1) + n)>> \o list
      BY <1>5 DEF Merged
    <3> QED BY <3>1 DEF f
  <2> HIDE DEF f, l
  <2>2. at + 1 \in Place /\ at + 1 + n \in Nat /\ at + 1 < at + 1 + n
    BY <1>1 DEF Place
  <2>3. f \in Entries /\ f.kind = "insert" /\ f.beg = at + 1 /\ f.end = at + 1 + n
    BY <2>2, InsertedType DEF f
  <2>4. l \in Seq(Entries) /\ Len(l) = Len(list) + 1
    BY <2>1, <2>3, ConsFacts
  <2>5. ASSUME NEW y, Leads(x, list, y) PROVE Leads(z, l, y)
    <3>1. Region(Nat, x, at, at)
      BY <1>1 DEF Region
    <3>2. Cut(Put(x, at, s), at, at + Len(s)) = Cut(x, at, at) /\ Cut(x, at, at) = x
      BY <1>1, <3>1, CutOfPut, CutNothing
    <3>3. x = Cut(z, at, at + n)
      BY <3>2 DEF z, n
    <3>4. f.end - 1 = at + n /\ f.beg - 1 = at /\ at + n <= Len(z)
      BY <1>1, <1>3, <2>3
    <3>5. Undoes(f, z, x)
      BY <2>3, <3>3, <3>4 DEF Undoes
    <3> QED BY <1>1, <1>3, <2>1, <2>3, <2>5, <3>5, LeadsBack
  <2> QED BY <1>1, <2>4, <2>5 DEF IsMerged, l, z, n
<1> QED BY <1>4, <1>5

\* C is B with a record that leads from the text X, changed, back to X.
RecordsInsertion(c, b, v, x, at, s) ==
    /\ Relisted(c, b, v) /\ Lengthened(c.view[v].undo, b.view[v].undo)
    /\ \A y : Leads(x, b.view[v].undo, y) => Leads(Put(x, at, s), c.view[v].undo, y)

LEMMA RecordInsertFacts ==
    ASSUME NEW b, Typed(b), NEW v \in Views, NEW x, NEW at, NEW s, Gap(Nat, x, at, s), s # <<>>
    PROVE  RecordsInsertion(RecordInsert(b, v, at, Len(s)), b, v, x, at, s)
<1> DEFINE list == b.view[v].undo
           p == RecordPoint(b, v, at + 1)
           l == Merged(p, at + 1, Len(s))
           c == RecordInsert(b, v, at, Len(s))
<1>1. Grown(p, list) /\ (AtBoundary(list) => Unmerged(p))
  BY RecordPointFacts
<1>2. c = WithUndo(b, v, l)
  BY DEF RecordInsert
<1>0. Len(list) \in Nat
  BY ViewFacts, LenProperties
<1> HIDE DEF p
<1>3. p \in Seq(Entries) /\ Len(p) >= Len(list) /\ Len(p) \in Nat
  BY <1>1, LenProperties DEF Grown
<1>4. IsMerged(l, p, x, at, s)
  BY <1>3, MergedFacts
<1> HIDE DEF l, c, list
<1>5. l \in Seq(Entries) /\ Len(l) \in Nat
  BY <1>4, LenProperties DEF IsMerged
<1>6. Relisted(c, b, v) /\ c.view[v].undo = l
  BY <1>2, <1>5, WithUndoFacts
<1>7. Lengthened(l, list)
  BY <1>0, <1>1, <1>3, <1>4, <1>5 DEF Lengthened, IsMerged
<1>8. ASSUME NEW y, Leads(x, list, y) PROVE Leads(Put(x, at, s), l, y)
  <2>1. Leads(x, p, y)
    BY <1>1, <1>8 DEF Grown
  <2> QED BY <1>4, <2>1 DEF IsMerged
<1> QED BY <1>6, <1>7, <1>8 DEF RecordsInsertion, c, list

\* C is B with a record that puts S back at AT.
RecordsDeletion(c, b, v, at, s) ==
    /\ Relisted(c, b, v) /\ Lengthened(c.view[v].undo, b.view[v].undo)
    /\ \A x, y : Gap(Nat, x, at, s) /\ Leads(Put(x, at, s), b.view[v].undo, y)
                   => Leads(x, c.view[v].undo, y)

LEMMA RecordDeleteFacts ==
    ASSUME NEW b, Typed(b), NEW v \in Views, NEW start, NEW end, NEW moved,
           Region(Nat, b.text, start, end), start < end, moved \in Seq(Entries), AllQuiet(moved)
    PROVE  RecordsDeletion(RecordDelete(b, v, start, end, moved), b, v, start,
                           SubSeq(b.text, start + 1, end))
<1> DEFINE list == b.view[v].undo
           p == RecordPoint(b, v, start + 1)
           s == SubSeq(b.text, start + 1, end)
           e == Deleted(s, start + 1, b.view[v].point = end)
           head == <<e>> \o moved
           l == head \o p
           c == RecordDelete(b, v, start, end, moved)
<1>1. Grown(p, list)
  BY RecordPointFacts
<1>2. c = WithUndo(b, v, l)
  BY DEF RecordDelete
<1>3. IsPart(Nat, s, b.text, start, end)
  BY PartIs
<1>4. /\ start \in Nat /\ end \in Nat /\ Len(list) \in Nat /\ list \in Seq(Entries)
  BY ViewFacts, LenProperties DEF Region
<1> HIDE DEF p, list, s, c
<1>5. s \in Seq(Nat) /\ s # <<>> /\ Len(s) \in Nat
  BY <1>3, <1>4, EmptySeq DEF IsPart
<1>6. p \in Seq(Entries) /\ Len(p) >= Len(list) /\ Len(p) \in Nat
  BY <1>1, LenProperties DEF Grown
<1>7. e \in Entries /\ e.kind = "delete" /\ e.beg = start + 1 /\ e.text = s
  <2>1. start + 1 \in Place /\ (b.view[v].point = end) \in BOOLEAN
    BY <1>4 DEF Place
  <2> QED BY <1>5, <2>1, DeletedType
<1> HIDE DEF e
<1>8. head \in Seq(Entries) /\ Len(head) = Len(moved) + 1 /\ Len(moved) \in Nat
  BY <1>7, ConsFacts, LenProperties
<1>9. l \in Seq(Entries) /\ Len(l) = Len(head) + Len(p)
  <2> HIDE DEF head
  <2>1. IsJoin(Entries, l, head, p)
    BY <1>6, <1>8, JoinIs
  <2> QED BY <2>1 DEF IsJoin
<1>10. Lengthened(l, list)
  BY <1>4, <1>6, <1>8, <1>9 DEF Lengthened
<1>11. ASSUME NEW x, NEW y, Gap(Nat, x, start, s), Leads(Put(x, start, s), list, y)
       PROVE  Leads(x, l, y)
  <2> DEFINE w == Put(x, start, s)
  <2>1. x \in Seq(Nat) /\ start <= Len(x)
    BY <1>11 DEF Gap
  <2>2. e.beg - 1 = start
    BY <1>4, <1>7
  <2>3. Undoes(e, x, w)
    BY <1>7, <2>1, <2>2 DEF Undoes
  <2>4. w \in Seq(Nat)
    BY <1>4, <1>11, LeadsType
  <2> HIDE DEF w
  <2>5. Leads(w, moved, w)
    BY <2>4, LeadsQuietly
  <2>6. Leads(x, head, w)
    BY <1>7, <2>1, <2>3, <2>5, LeadsBack
  <2> HIDE DEF head
  <2>7. Leads(w, p, y)
    BY <1>1, <1>11 DEF Grown, w
  <2> QED BY <1>6, <1>8, <2>6, <2>7, LeadsOn
<1> HIDE DEF l
<1>12. Relisted(c, b, v) /\ c.view[v].undo = l
  BY <1>2, <1>9, WithUndoFacts
<1> QED BY <1>10, <1>11, <1>12 DEF RecordsDeletion, c, list, s

\* C is B with the records of a change of the text from START up to END.
RecordsChange(c, b, v, start, end) ==
    /\ Relisted(c, b, v) /\ Lengthened(c.view[v].undo, b.view[v].undo)
    /\ \A x, y : Region(Nat, x, start, end)
                   /\ Leads(Exchanged(b.text, x, start, end), b.view[v].undo, y)
                   => Leads(x, c.view[v].undo, y)

LEMMA RelistedTwice ==
    ASSUME NEW b, NEW c, NEW d, NEW v \in Views, Relisted(c, b, v), Relisted(d, c, v)
    PROVE  Relisted(d, b, v)
BY DEF Relisted

LEMMA LengthenedTwice ==
    ASSUME NEW k, NEW l, NEW m, k \in Seq(Entries), l \in Seq(Entries), m \in Seq(Entries),
           Lengthened(l, k), Lengthened(m, l)
    PROVE  Lengthened(m, k)
<1>1. Len(k) \in Nat /\ Len(l) \in Nat /\ Len(m) \in Nat
  BY LenProperties
<1> QED BY <1>1 DEF Lengthened

LEMMA RecordChangeFacts ==
    ASSUME NEW b, Typed(b), NEW v \in Views, NEW start, NEW end,
           Region(Nat, b.text, start, end), start < end
    PROVE  RecordsChange(RecordChange(b, v, start, end), b, v, start, end)
<1> DEFINE c == RecordDelete(b, v, start, end, <<>>)
           d == RecordInsert(c, v, start, end - start)
           s == SubSeq(b.text, start + 1, end)
<1>1. RecordsDeletion(c, b, v, start, s)
  <2>1. <<>> \in Seq(Entries) /\ AllQuiet(<<>>)
    BY DEF AllQuiet
  <2> QED BY <2>1, RecordDeleteFacts
<1>2. IsPart(Nat, s, b.text, start, end)
  BY PartIs
<1>3. start \in Nat /\ end \in Nat /\ b.text \in Seq(Nat) /\ end <= Len(b.text)
  BY DEF Region
<1>4. RecordChange(b, v, start, end) = d
  BY DEF RecordChange
<1> HIDE DEF c, s
<1>5. Typed(c) /\ c.text = b.text /\ s \in Seq(Nat) /\ Len(s) = end - start
  BY <1>1, <1>2 DEF RecordsDeletion, Relisted, IsPart
<1>6. ASSUME NEW x, Region(Nat, x, start, end)
      PROVE  /\ RecordsInsertion(d, c, v, Cut(x, start, end), start, SubSeq(x, start + 1, end))
             /\ Put(Cut(x, start, end), start, SubSeq(x, start + 1, end)) = x
             /\ Gap(Nat, Cut(x, start, end), start, s)
  <2> DEFINE t == SubSeq(x, start + 1, end)
             w == Cut(x, start, end)
  <2>1. IsPart(Nat, t, x, start, end) /\ IsCut(Nat, w, x, start, end)
    BY <1>6, PartIs, CutFacts
  <2>2. Len(x) \in Nat /\ end <= Len(x) /\ x \in Seq(Nat)
    BY <1>6, LenProperties DEF Region
  <2>3. Outside(x, x, start, end)
    BY DEF Outside
  <2>4. Put(w, start, t) = x
    BY <1>6, <2>3, ExchangedBack DEF Exchanged
  <2> HIDE DEF t, w
  <2>5. /\ t \in Seq(Nat) /\ Len(t) = end - start /\ w \in Seq(Nat)
        /\ Len(w) = Len(x) - (end - start)
    BY <2>1 DEF IsPart, IsCut
  <2>6. t # <<>> /\ start <= Len(w)
    BY <1>3, <2>2, <2>5, EmptySeq
  <2>7. Gap(Nat, w, start, t) /\ Gap(Nat, w, start, s)
    BY <1>3, <1>5, <2>5, <2>6 DEF Gap
  <2>8. RecordsInsertion(RecordInsert(c, v, start, Len(t)), c, v, w, start, t)
    BY <1>5, <2>6, <2>7, RecordInsertFacts
  <2> QED BY <2>4, <2>5, <2>7, <2>8 DEF t, w
<1> HIDE DEF d
<1>7. RecordsInsertion(d, c, v, Cut(b.text, start, end), start, SubSeq(b.text, start + 1, end))
  BY <1>6
<1>8. Relisted(d, b, v)
  BY <1>1, <1>7, RelistedTwice DEF RecordsDeletion, RecordsInsertion
<1>9. Lengthened(d.view[v].undo, b.view[v].undo)
  <2>1. Typed(d)
    BY <1>8 DEF Relisted
  <2>2. d.view[v].undo \in Seq(Entries) /\ c.view[v].undo \in Seq(Entries)
        /\ b.view[v].undo \in Seq(Entries)
    BY <1>5, <2>1, ViewFacts
  <2> QED BY <1>1, <1>7, <2>2, LengthenedTwice DEF RecordsDeletion, RecordsInsertion
<1>10. ASSUME NEW x, NEW y, Region(Nat, x, start, end),
              Leads(Exchanged(b.text, x, start, end), b.view[v].undo, y)
       PROVE  Leads(x, d.view[v].undo, y)
  <2> DEFINE w == Cut(x, start, end)
             t == SubSeq(x, start + 1, end)
  <2>1. RecordsInsertion(d, c, v, w, start, t) /\ Put(w, start, t) = x /\ Gap(Nat, w, start, s)
    BY <1>6, <1>10
  <2>2. Leads(Put(w, start, s), b.view[v].undo, y)
    BY <1>10 DEF Exchanged, s
  <2> HIDE DEF w, t
  <2>3. Leads(w, c.view[v].undo, y)
    BY <1>1, <2>1, <2>2 DEF RecordsDeletion
  <2> QED BY <2>1, <2>3 DEF RecordsInsertion
<1> QED BY <1>4, <1>8, <1>9, <1>10 DEF RecordsChange

\* The adjustments of a deletion are records that change no text.
LEMMA AdjustmentsFacts ==
    ASSUME NEW b, Typed(b), NEW v, NEW start, NEW end, start \in Nat, end \in Nat
    PROVE  /\ Adjustments(b, v, start, end) \in Seq(Entries)
           /\ AllQuiet(Adjustments(b, v, start, end))
<1> DEFINE inside == {m \in Markers : /\ b.mark[m].view = v
                                      /\ b.mark[m].pos \in start .. end
                                      /\ Adjustment(b, m, start, end) # 0}
           n == Cardinality(inside)
           order == SetToSeq(inside)
           E(k) == Adjusted(order[k], Adjustment(b, order[k], start, end))
           a == Adjustments(b, v, start, end)
<1>1. IsFiniteSet(inside) /\ inside \subseteq Markers
  BY EditsAssumption, FS_Subset
<1> HIDE DEF inside
<1>2. n \in Nat /\ ExistsBijection(1 .. n, inside)
  BY <1>1, FS_CardinalityType
<1>3. PICK f \in [1 .. n -> inside] : IsInjective(f)
  BY <1>2 DEF ExistsBijection, Bijection, Injection, IsInjective
<1>4. order \in [1 .. n -> inside]
  BY <1>3 DEF SetToSeq
<1> HIDE DEF n, order
<1>5. ASSUME NEW k \in 1 .. n PROVE E(k) \in Entries /\ Quiet(E(k))
  <2> DEFINE m == order[k]
  <2>1. m \in Markers
    BY <1>1, <1>4
  <2> HIDE DEF m
  <2>2. b.mark[m].pos \in Nat
    BY <2>1, MarkFacts
  <2>3. Adjustment(b, m, start, end) \in Int
    BY <2>2 DEF Adjustment
  <2>4. Adjusted(m, Adjustment(b, m, start, end)) \in Entries
        /\ Quiet(Adjusted(m, Adjustment(b, m, start, end)))
    BY <2>1, <2>3, QuietTypes
  <2> QED BY <2>4 DEF m
<1>6. a = [k \in 1 .. n |-> E(k)]
  BY DEF Adjustments, n, order, inside
<1> HIDE DEF E, a
<1>7. a \in Seq(Entries)
  BY <1>2, <1>5, <1>6
<1>8. Len(a) = n /\ \A k \in 1 .. n : a[k] = E(k)
  BY <1>2, <1>6
<1>9. AllQuiet(a)
  BY <1>5, <1>8 DEF AllQuiet
<1> QED BY <1>7, <1>9 DEF a

-----------------------------------------------------------------------------
(* The primitives.                                                         *)

\* C is B after an edit through V that has left its records.
Recorded(c, b, v) ==
    /\ Typed(c) /\ Lengthened(c.view[v].undo, b.view[v].undo)
    /\ \A y : Leads(b.text, b.view[v].undo, y) => Leads(c.text, c.view[v].undo, y)

LEMMA InsertedRelisted ==
    ASSUME NEW b, NEW d, NEW c, NEW v \in Views, Relisted(d, b, v),
           NEW at, NEW s, NEW before, NEW point,
           InsertedIn(c, d, v, at, s, before, point)
    PROVE  InsertedIn(c, b, v, at, s, before, point)
BY DEF InsertedIn, Relisted

\* An insertion at AT through V that has left its record.
InsertionArgs(b, v, at, s, before, point) ==
    InsertArgs(b, v, at, s, before, point) /\ s # <<>>

LEMMA InsertRecorded ==
    ASSUME NEW b, NEW v, NEW at, NEW s, NEW before, NEW point,
           InsertionArgs(b, v, at, s, before, point),
           NEW c, c = InsertText(RecordInsert(b, v, at, Len(s)), v, at, s, before, point)
    PROVE  Recorded(c, b, v) /\ InsertedIn(c, b, v, at, s, before, point)
<1> DEFINE d == RecordInsert(b, v, at, Len(s))
<1>1. /\ Typed(b) /\ v \in Views /\ Gap(Nat, b.text, at, s) /\ before \in BOOLEAN
      /\ point \in Nat /\ point <= Len(b.text) + Len(s) /\ s # <<>>
  BY DEF InsertionArgs, InsertArgs
<1>2. RecordsInsertion(d, b, v, b.text, at, s)
  BY <1>1, RecordInsertFacts
<1>3. c = InsertText(d, v, at, s, before, point)
  OBVIOUS
<1> HIDE DEF d
<1>4. Typed(d) /\ d.text = b.text /\ Relisted(d, b, v)
  BY <1>2 DEF RecordsInsertion, Relisted
<1>5. InsertArgs(d, v, at, s, before, point)
  BY <1>1, <1>4 DEF InsertArgs
<1>6. Typed(c) /\ SameLists(c, d) /\ InsertedIn(c, d, v, at, s, before, point)
  BY <1>3, <1>5, InsertTextFacts
<1>7. InsertedIn(c, b, v, at, s, before, point)
  BY <1>1, <1>4, <1>6, InsertedRelisted
<1>8. c.text = Put(b.text, at, s) /\ c.view[v].undo = d.view[v].undo
  BY <1>1, <1>6, <1>7 DEF SameLists, InsertedIn
<1>9. Recorded(c, b, v)
  BY <1>2, <1>6, <1>8 DEF Recorded, RecordsInsertion
<1> QED BY <1>7, <1>9

LEMMA DoInsertFacts ==
    ASSUME NEW b, Typed(b), NEW v \in Views, NEW s, s \in Seq(Nat), s # <<>>,
           NEW before \in BOOLEAN
    PROVE  /\ Recorded(DoInsert(b, v, s, before), b, v)
           /\ InsertedIn(DoInsert(b, v, s, before), b, v, Point(b, v), s, before,
                         Point(b, v) + Len(s))
<1> DEFINE at == Point(b, v)
           point == at + Len(s)
           c == DoInsert(b, v, s, before)
<1>1. /\ at \in Nat /\ at <= Len(b.text) /\ Len(s) \in Nat
      /\ Len(b.text) \in Nat /\ b.text \in Seq(Nat)
  BY ViewFacts, ClampFacts, TypedFacts, LenProperties DEF Point
<1>2. c = InsertText(RecordInsert(b, v, at, Len(s)), v, at, s, before, point)
  BY DEF DoInsert
<1> HIDE DEF at, c
<1>3. InsertionArgs(b, v, at, s, before, point)
  BY <1>1 DEF InsertionArgs, InsertArgs, Gap
<1> HIDE DEF point
<1>4. Recorded(c, b, v) /\ InsertedIn(c, b, v, at, s, before, point)
  BY <1>2, <1>3, InsertRecorded
<1> QED BY <1>4 DEF c, at, point

LEMMA DoInsertAtFacts ==
    ASSUME NEW b, Typed(b), NEW v \in Views, NEW at \in Nat, at <= Len(b.text),
           NEW s, s \in Seq(Nat), s # <<>>
    PROVE  \E point : /\ Shifted(point, b.view[v].point, at, Len(s))
                      /\ Recorded(DoInsertAt(b, v, at, s), b, v)
                      /\ InsertedIn(DoInsertAt(b, v, at, s), b, v, at, s, FALSE, point)
<1> DEFINE p == b.view[v].point
           point == IF p >= at THEN p + Len(s) ELSE p
           c == DoInsertAt(b, v, at, s)
<1>1. /\ p \in Nat /\ p <= Len(b.text) /\ Len(s) \in Nat /\ Len(b.text) \in Nat
      /\ b.text \in Seq(Nat)
  BY ViewFacts, TypedFacts, LenProperties
<1>2. c = InsertText(RecordInsert(b, v, at, Len(s)), v, at, s, FALSE, point)
  BY DEF DoInsertAt
<1> HIDE DEF p, c
<1>3. InsertionArgs(b, v, at, s, FALSE, point)
  BY <1>1 DEF InsertionArgs, InsertArgs, Gap
<1>4. Shifted(point, p, at, Len(s))
  BY <1>1 DEF Shifted
<1> HIDE DEF point
<1>5. Recorded(c, b, v) /\ InsertedIn(c, b, v, at, s, FALSE, point)
  BY <1>2, <1>3, InsertRecorded
<1> QED BY <1>4, <1>5 DEF c, p

LEMMA DoDeleteFacts ==
    ASSUME NEW b, Typed(b), NEW v \in Views, NEW start, NEW end,
           Region(Nat, b.text, start, end), start < end
    PROVE  /\ Recorded(DoDelete(b, v, start, end), b, v)
           /\ DeletedIn(DoDelete(b, v, start, end), b, start, end)
<1> DEFINE moved == Adjustments(b, v, start, end)
           d == RecordDelete(b, v, start, end, moved)
           s == SubSeq(b.text, start + 1, end)
           c == DoDelete(b, v, start, end)
           x == b.text
           w == Cut(x, start, end)
<1>1. start \in Nat /\ end \in Nat /\ x \in Seq(Nat) /\ end <= Len(x) /\ Len(x) \in Nat
  BY LenProperties DEF Region
<1>2. RecordsDeletion(d, b, v, start, s)
  <2>1. moved \in Seq(Entries) /\ AllQuiet(moved)
    BY <1>1, AdjustmentsFacts
  <2> HIDE DEF moved
  <2> QED BY <2>1, RecordDeleteFacts
<1>3. c = DeleteText(d, start, end)
  BY <1>1 DEF DoDelete
<1> HIDE DEF d, c
<1>4. Typed(d) /\ d.text = x /\ Relisted(d, b, v)
  BY <1>2 DEF RecordsDeletion, Relisted
<1>5. Typed(c) /\ SameLists(c, d) /\ DeletedIn(c, d, start, end)
  BY <1>3, <1>4, DeleteTextFacts
<1>6. DeletedIn(c, b, start, end)
  BY <1>4, <1>5 DEF DeletedIn, Relisted
<1>7. c.text = w /\ c.view[v].undo = d.view[v].undo
  BY <1>5, <1>6 DEF DeletedIn, SameLists
<1>8. Put(w, start, s) = x /\ Gap(Nat, w, start, s)
  <2>1. Outside(x, x, start, end)
    BY DEF Outside
  <2>2. Put(w, start, s) = x
    BY <2>1, ExchangedBack DEF Exchanged
  <2>3. IsPart(Nat, s, x, start, end) /\ IsCut(Nat, w, x, start, end)
    BY PartIs, CutFacts
  <2> HIDE DEF w, s, x
  <2>4. s \in Seq(Nat) /\ w \in Seq(Nat) /\ Len(w) = Len(x) - (end - start)
    BY <2>3 DEF IsPart, IsCut
  <2>5. start <= Len(w)
    BY <1>1, <2>4
  <2> QED BY <1>1, <2>2, <2>4, <2>5 DEF Gap
<1> HIDE DEF w, s
<1>9. \A y : Leads(x, b.view[v].undo, y) => Leads(c.text, c.view[v].undo, y)
  BY <1>2, <1>7, <1>8 DEF RecordsDeletion
<1>10. Recorded(c, b, v)
  BY <1>2, <1>5, <1>7, <1>9 DEF Recorded, RecordsDeletion
<1> QED BY <1>6, <1>10 DEF c

LEMMA DoReplaceFacts ==
    ASSUME NEW b, NEW v, NEW start, NEW end, NEW s, ReplaceArgs(b, v, start, end, s), s # <<>>
    PROVE  /\ Recorded(DoReplace(b, v, start, end, s), b, v)
           /\ SwappedIn(DoReplace(b, v, start, end, s), b, start, end, s)
<1> DEFINE x == b.text
           d == RecordInsert(b, v, end, Len(s))
           e == RecordDelete(d, v, start, end, <<>>)
           part == SubSeq(x, start + 1, end)
           c == DoReplace(b, v, start, end, s)
           w == Swapped(x, start, end, s)
<1>1. /\ Typed(b) /\ v \in Views /\ Region(Nat, x, start, end) /\ start < end /\ s \in Seq(Nat)
  BY DEF ReplaceArgs
<1>2. Gap(Nat, x, end, s)
  BY <1>1 DEF Region, Gap
<1>3. RecordsInsertion(d, b, v, x, end, s)
  BY <1>1, <1>2, RecordInsertFacts
<1>4. c = ReplaceText(e, v, start, end, s)
  BY DEF DoReplace
<1> HIDE DEF d, c
<1>5. Typed(d) /\ d.text = x /\ Relisted(d, b, v)
  BY <1>3 DEF RecordsInsertion, Relisted
<1>6. RecordsDeletion(e, d, v, start, part)
  <2>1. <<>> \in Seq(Entries) /\ AllQuiet(<<>>)
    BY DEF AllQuiet
  <2>2. RecordsDeletion(e, d, v, start, SubSeq(d.text, start + 1, end))
    BY <1>1, <1>5, <2>1, RecordDeleteFacts
  <2> QED BY <1>5, <2>2
<1> HIDE DEF e
<1>7. Typed(e) /\ e.text = x /\ Relisted(e, b, v)
  BY <1>1, <1>5, <1>6, RelistedTwice DEF RecordsDeletion, Relisted
<1>8. Typed(c) /\ SameLists(c, e) /\ SwappedIn(c, e, start, end, s)
  <2>1. ReplaceArgs(e, v, start, end, s)
    BY <1>1, <1>7 DEF ReplaceArgs
  <2> QED BY <1>4, <2>1, ReplaceTextFacts
<1>9. SwappedIn(c, b, start, end, s)
  BY <1>7, <1>8 DEF SwappedIn, Relisted
<1>10. c.text = w /\ c.view[v].undo = e.view[v].undo
  BY <1>1, <1>8, <1>9 DEF SwappedIn, SameLists
<1>11. Put(w, start, part) = Put(x, end, s) /\ Gap(Nat, w, start, part)
  BY <1>1, PutOfSwapped
<1> HIDE DEF w, part, x
<1>12. \A y : Leads(x, b.view[v].undo, y) => Leads(c.text, c.view[v].undo, y)
  <2>1. ASSUME NEW y, Leads(x, b.view[v].undo, y) PROVE Leads(w, e.view[v].undo, y)
    <3>1. Leads(Put(x, end, s), d.view[v].undo, y)
      BY <1>3, <2>1 DEF RecordsInsertion
    <3> QED BY <1>6, <1>11, <3>1 DEF RecordsDeletion
  <2> QED BY <1>10, <2>1
<1>13. Lengthened(e.view[v].undo, b.view[v].undo)
  <2>1. e.view[v].undo \in Seq(Entries) /\ d.view[v].undo \in Seq(Entries)
        /\ b.view[v].undo \in Seq(Entries)
    BY <1>1, <1>5, <1>7, ViewFacts
  <2> QED BY <1>3, <1>6, <2>1, LengthenedTwice DEF RecordsDeletion, RecordsInsertion
<1>14. Recorded(c, b, v)
  BY <1>8, <1>10, <1>12, <1>13 DEF Recorded, x
<1> QED BY <1>9, <1>14 DEF c

LEMMA DoTransposeFacts ==
    ASSUME NEW b, NEW v, NEW s1, NEW e1, NEW s2, NEW e2, TransposeArgs(b, v, s1, e1, s2, e2)
    PROVE  /\ Typed(DoTranspose(b, v, s1, e1, s2, e2))
           /\ \A y : Leads(b.text, b.view[v].undo, y) =>
                Leads(DoTranspose(b, v, s1, e1, s2, e2).text,
                      DoTranspose(b, v, s1, e1, s2, e2).view[v].undo, y)
           /\ DoTranspose(b, v, s1, e1, s2, e2).text = Transposed(b.text, s1, e1, s2, e2)
<1> DEFINE x == b.text
           list == b.view[v].undo
           more == <<FirstChange(ModTime(b, v))>> \o list
           first == IF b.modified THEN b ELSE WithUndo(b, v, more)
           marked == [first EXCEPT !.modified = TRUE]
           two == e1 - s1 = e2 - s2 /\ e1 # s2
           half == RecordChange(marked, v, s1, e1)
           change == IF two THEN RecordChange(half, v, s2, e2)
                     ELSE RecordChange(marked, v, s1, e2)
           c == DoTranspose(b, v, s1, e1, s2, e2)
           z == Transposed(x, s1, e1, s2, e2)
           y1 == Exchanged(x, z, s2, e2)
<1>1. Typed(b) /\ v \in Views /\ Regions(Nat, x, s1, e1, s2, e2)
  BY DEF TransposeArgs
<1>2. c = TransposeText(change, v, s1, e1, s2, e2)
  BY DEF DoTranspose
<1>3. list \in Seq(Entries)
  BY <1>1, ViewFacts
<1>4. Grown(more, list)
  <2>1. FirstChange(ModTime(b, v)) \in Entries /\ Quiet(FirstChange(ModTime(b, v)))
    BY <1>1, ModTimeType, QuietTypes
  <2>2. <<FirstChange(ModTime(b, v))>> \in Seq(Entries) /\ AllQuiet(<<FirstChange(ModTime(b, v))>>)
    BY <2>1, AtMostOne
  <2> HIDE DEF list
  <2> QED BY <1>3, <2>2, GrownFacts
<1>5. Typed(first) /\ first.text = x /\ \A y : Leads(x, list, y) => Leads(x, first.view[v].undo, y)
  <2>1. CASE b.modified
    BY <1>1, <2>1
  <2>2. CASE ~b.modified
    <3> HIDE DEF more, list
    <3>1. more \in Seq(Entries)
      BY <1>4 DEF Grown
    <3>2. Relisted(WithUndo(b, v, more), b, v) /\ WithUndo(b, v, more).view[v].undo = more
      BY <1>1, <3>1, WithUndoFacts
    <3>3. first = WithUndo(b, v, more)
      BY <2>2
    <3> QED BY <1>4, <3>2, <3>3 DEF Grown, Relisted
  <2> QED BY <2>1, <2>2
<1> HIDE DEF first, list, c
<1>6. /\ Typed(marked) /\ marked.text = x
      /\ \A y : Leads(x, list, y) => Leads(x, marked.view[v].undo, y)
  <2>1. first \in Buffers
    BY <1>5 DEF Typed
  <2>2. marked \in Buffers /\ marked.text = first.text /\ marked.view = first.view
    BY <2>1 DEF Buffers
  <2> HIDE DEF marked
  <2> QED BY <1>5, <2>2 DEF Typed
<1> HIDE DEF marked
<1>7. /\ s1 \in Nat /\ e1 \in Nat /\ s2 \in Nat /\ e2 \in Nat
      /\ s1 < e1 /\ e1 <= s2 /\ s2 < e2 /\ s1 < e2
  BY <1>1 DEF Regions
<1>8. Outside(x, z, s1, e2) /\ Region(Nat, x, s1, e2) /\ Region(Nat, z, s1, e2)
  BY <1>1, TransposedOutside
<1>9. /\ Typed(change) /\ change.text = x
      /\ \A y : Leads(x, list, y) => Leads(z, change.view[v].undo, y)
  <2>1. CASE two
    <3>1. /\ Exchanged(x, y1, s1, e1) = x
          /\ Region(Nat, x, s1, e1) /\ Region(Nat, x, s2, e2) /\ Region(Nat, z, s2, e2)
          /\ Region(Nat, y1, s1, e1)
      BY <1>1, <2>1, TransposedBack
    <3>2. RecordsChange(half, marked, v, s1, e1)
      BY <1>1, <1>6, <1>7, <3>1, RecordChangeFacts
    <3> HIDE DEF half, z
    <3>3. Typed(half) /\ half.text = x
      BY <1>6, <3>2 DEF RecordsChange, Relisted
    <3>4. RecordsChange(change, half, v, s2, e2)
      <4>1. change = RecordChange(half, v, s2, e2)
        BY <2>1
      <4> HIDE DEF change
      <4> QED BY <1>1, <1>7, <3>1, <3>3, <4>1, RecordChangeFacts
    <3> HIDE DEF change
    <3>5. Typed(change) /\ change.text = x
      BY <3>3, <3>4 DEF RecordsChange, Relisted
    <3>6. ASSUME NEW y, Leads(x, list, y) PROVE Leads(z, change.view[v].undo, y)
      <4>1. Leads(x, marked.view[v].undo, y)
        BY <1>6, <3>6
      <4>2. Leads(Exchanged(marked.text, y1, s1, e1), marked.view[v].undo, y)
        BY <1>6, <3>1, <4>1
      <4>3. Leads(y1, half.view[v].undo, y)
        BY <3>1, <3>2, <4>2 DEF RecordsChange
      <4>4. Leads(Exchanged(half.text, z, s2, e2), half.view[v].undo, y)
        BY <3>3, <4>3
      <4> QED BY <3>1, <3>4, <4>4 DEF RecordsChange
    <3> QED BY <3>5, <3>6
  <2>2. CASE ~two
    <3>1. change = RecordChange(marked, v, s1, e2)
      BY <2>2
    <3> HIDE DEF change, z
    <3>2. RecordsChange(change, marked, v, s1, e2)
      BY <1>1, <1>6, <1>7, <1>8, <3>1, RecordChangeFacts
    <3>3. Typed(change) /\ change.text = x
      BY <1>6, <3>2 DEF RecordsChange, Relisted
    <3>4. Exchanged(x, z, s1, e2) = x
      BY <1>8, ExchangedBack
    <3>5. ASSUME NEW y, Leads(x, list, y) PROVE Leads(z, change.view[v].undo, y)
      <4>1. Leads(Exchanged(marked.text, z, s1, e2), marked.view[v].undo, y)
        BY <1>6, <3>4, <3>5
      <4> QED BY <1>8, <3>2, <4>1 DEF RecordsChange
    <3> QED BY <3>3, <3>5
  <2> QED BY <2>1, <2>2
<1> HIDE DEF change, two
<1>10. TransposeArgs(change, v, s1, e1, s2, e2)
  BY <1>1, <1>9 DEF TransposeArgs
<1>11. Typed(c) /\ SameLists(c, change) /\ c.text = z
  <2>1. Typed(c) /\ SameLists(c, change) /\ c.text = Transposed(change.text, s1, e1, s2, e2)
    BY <1>2, <1>10, TransposeTextFacts
  <2> QED BY <1>9, <2>1
<1> HIDE DEF z
<1>12. c.view[v].undo = change.view[v].undo
  BY <1>1, <1>11 DEF SameLists
<1> QED BY <1>9, <1>11, <1>12 DEF c, z, list

-----------------------------------------------------------------------------
(* Undo.                                                                   *)

LEMMA UpTo ==
    ASSUME NEW n \in Nat, NEW T, 0 \in T, \A k \in 1 .. n : k - 1 \in T => k \in T
    PROVE  \A k \in 0 .. n : k \in T
<1> DEFINE W == {k \in 0 .. n : k \notin T}
<1>1. SUFFICES ASSUME W # {} PROVE FALSE
  OBVIOUS
<1>2. W \in SUBSET Nat
  OBVIOUS
<1>3. PICK k \in W : \A y \in W : k <= y
  <2> HIDE DEF W
  <2> QED BY <1>1, <1>2, LeastIndex
<1>4. k \in 1 .. n /\ k - 1 \in 0 .. n /\ ~(k <= k - 1)
  BY <1>3
<1>5. k - 1 \in T
  BY <1>3, <1>4
<1> QED BY <1>3, <1>4, <1>5

\* C is B but for points and markers.
Steady(c, b) == Typed(c) /\ SameLists(c, b) /\ c.text = b.text

LEMMA MovedFacts ==
    ASSUME NEW b, Typed(b), NEW entries, \A e \in entries : e.by \in Int
    PROVE  Steady(Moved(b, entries), b)
<1> DEFINE by(m) == (CHOOSE e \in entries : e.marker = m).by
           new == [m \in Markers |->
                     IF \E e \in entries : e.marker = m
                     THEN [b.mark[m] EXCEPT !.pos = Max2(b.mark[m].pos + 1 - by(m), 0)]
                     ELSE b.mark[m]]
           c == Moved(b, entries)
<1>1. b \in Buffers
  BY DEF Typed
<1>2. c = [b EXCEPT !.mark = new]
  <2>1. ASSUME NEW m \in Markers
        PROVE  [b.mark[m] EXCEPT !.pos = Max2(@ + 1 - by(m), 0)]
                 = [b.mark[m] EXCEPT !.pos = Max2(b.mark[m].pos + 1 - by(m), 0)]
    OBVIOUS
  <2> QED BY <1>1, <2>1 DEF Moved
<1>3. ASSUME NEW m \in Markers PROVE new[m] \in [view : Views, pos : Nat, adv : BOOLEAN]
  <2>1. b.mark[m] \in [view : Views, pos : Nat, adv : BOOLEAN] /\ b.mark[m].pos \in Nat
    BY MarkFacts
  <2>2. CASE \E e \in entries : e.marker = m
    <3>1. by(m) \in Int
      BY <2>2
    <3> DEFINE q == Max2(b.mark[m].pos + 1 - by(m), 0)
    <3>2. new[m] = [b.mark[m] EXCEPT !.pos = q]
      BY <2>2
    <3> HIDE DEF by, new
    <3>3. q \in Nat
      BY <2>1, <3>1 DEF Max2
    <3> HIDE DEF q
    <3> QED BY <2>1, <3>2, <3>3
  <2>3. CASE ~\E e \in entries : e.marker = m
    BY <2>1, <2>3
  <2> QED BY <2>2, <2>3
<1>4. new \in Places
  <2>1. DOMAIN new = Markers /\ new = [m \in Markers |-> new[m]]
    OBVIOUS
  <2> HIDE DEF new
  <2> QED BY <1>3, <2>1 DEF Places
<1> HIDE DEF new, c
<1>5. c \in Buffers /\ c.view = b.view /\ c.text = b.text
  BY <1>1, <1>2, <1>4 DEF Buffers
<1>6. Typed(c)
  BY <1>5 DEF Typed
<1>7. Steady(c, b)
  BY <1>5, <1>6 DEF Steady, SameLists
<1> QED BY <1>7 DEF c

LEMMA StillThereFacts ==
    ASSUME NEW b, NEW v, NEW group \in Seq(Entries), NEW k \in 1 .. Len(group)
    PROVE  \A e \in StillThere(b, v, group, k) : e.by \in Int
<1> SUFFICES ASSUME NEW e \in StillThere(b, v, group, k) PROVE e.by \in Int
  OBVIOUS
<1>0. Len(group) \in Nat
  BY LenProperties
<1>1. PICK j \in k + 1 .. Len(group) :
        e = group[j] /\ \A i \in k + 1 .. j : group[i].kind = "adjust"
  BY DEF StillThere
<1>2. j \in 1 .. Len(group) /\ j \in k + 1 .. j
  BY <1>0, <1>1
<1>3. e \in Entries /\ e.kind = "adjust"
  BY <1>1, <1>2, ElementOfSeq
<1> QED BY <1>3, EntryFacts

\* C is B, of V, after the undoing of a record that makes its text Y.
AppliedTo(c, b, v, y) ==
    /\ Typed(c) /\ c.text = y
    /\ \A z : Leads(b.text, b.view[v].undo, z) => Leads(c.text, c.view[v].undo, z)
    /\ \/ c.text = b.text /\ c.view[v].undo = b.view[v].undo
       \/ Lengthened(c.view[v].undo, b.view[v].undo)

LEMMA SteadyApplied ==
    ASSUME NEW c, NEW b, NEW v \in Views, Steady(c, b)
    PROVE  AppliedTo(c, b, v, b.text)
BY DEF Steady, AppliedTo, SameLists

LEMMA PointedSteady ==
    ASSUME NEW c, NEW b, NEW v, Pointed(c, b, v)
    PROVE  Steady(c, b)
BY DEF Steady, Pointed

LEMMA SteadyTwice ==
    ASSUME NEW b, NEW c, NEW d, Steady(c, b), Steady(d, c)
    PROVE  Steady(d, b)
BY DEF Steady, SameLists

\* What is undone by an edit between two changes of places.
LEMMA AppliedAround ==
    ASSUME NEW b, NEW c, NEW d, NEW e, NEW v \in Views, NEW y,
           Steady(c, b), Recorded(d, c, v), d.text = y, Steady(e, d)
    PROVE  AppliedTo(e, b, v, y)
BY DEF Steady, AppliedTo, Recorded, SameLists

LEMMA AppliedFacts ==
    ASSUME NEW b, Typed(b), NEW v \in Views, NEW group \in Seq(Entries),
           NEW k \in 1 .. Len(group), group[k].kind # "boundary",
           Reachable(b, v, group[k]), NEW y, Undoes(group[k], b.text, y)
    PROVE  AppliedTo(Applied(b, v, group, k), b, v, y)
<1> DEFINE e == group[k]
           c == Applied(b, v, group, k)
<1>1. e \in Entries
  BY ElementOfSeq
<1> DEFINE p == e.beg - 1
           d == SetPoint(b, v, p)
<1>2. /\ e.kind # "boundary" /\ Undoes(e, b.text, y) /\ Reachable(b, v, e)
  OBVIOUS
<1>3. /\ c = CASE e.kind = "point"  -> SetPoint(b, v, e.at - 1)
               [] e.kind = "first"  -> IF e.time = ModTime(b, v) THEN [b EXCEPT !.modified = FALSE] ELSE b
               [] e.kind = "insert" -> DoDelete(d, v, p, e.end - 1)
               [] e.kind = "delete" ->
                    Moved(IF e.after THEN DoInsert(d, v, e.text, FALSE)
                          ELSE SetPoint(DoInsert(d, v, e.text, FALSE), v, p),
                          StillThere(b, v, group, k))
               [] e.kind = "adjust" -> b
  BY DEF Applied
<1> HIDE DEF e, c
<1>4. Steady(b, b)
  BY DEF Steady, SameLists
<1>5. CASE e.kind = "point"
  <2>1. c = SetPoint(b, v, e.at - 1) /\ y = b.text
    BY <1>2, <1>3, <1>5 DEF Undoes
  <2>2. e.at - 1 \in Int
    BY <1>1, <1>5, EntryFacts
  <2>3. Steady(c, b)
    BY <2>1, <2>2, SetPointFacts, PointedSteady
  <2> QED BY <2>1, <2>3, SteadyApplied DEF c
<1>6. CASE e.kind = "first"
  <2>1. c \in {b, [b EXCEPT !.modified = FALSE]} /\ y = b.text
    BY <1>2, <1>3, <1>6 DEF Undoes
  <2>2. Steady([b EXCEPT !.modified = FALSE], b)
    <3> DEFINE f == [b EXCEPT !.modified = FALSE]
    <3>1. b \in Buffers
      BY DEF Typed
    <3>2. f \in Buffers /\ f.text = b.text /\ f.view = b.view
      BY <3>1 DEF Buffers
    <3> HIDE DEF f
    <3>3. Steady(f, b)
      BY <3>2 DEF Steady, SameLists, Typed
    <3> QED BY <3>3 DEF f
  <2>3. Steady(c, b)
    BY <1>4, <2>1, <2>2
  <2> QED BY <2>1, <2>3, SteadyApplied DEF c
<1>7. CASE e.kind = "adjust"
  <2>1. c = b /\ y = b.text
    BY <1>2, <1>3, <1>7 DEF Undoes
  <2> QED BY <1>4, <2>1, SteadyApplied DEF c
<1>8. CASE e.kind = "insert"
  <2>1. e.beg \in Nat /\ e.beg > 0 /\ e.end \in Nat /\ e.beg < e.end
    BY <1>1, <1>8, EntryFacts DEF Place
  <2>2. c = DoDelete(d, v, p, e.end - 1)
    BY <1>3, <1>8
  <2>3. e.end - 1 <= Len(b.text) /\ y = Cut(b.text, p, e.end - 1)
    BY <1>2, <1>8 DEF Undoes
  <2> DEFINE q == e.end - 1
  <2>4. p \in Nat /\ q \in Nat /\ p < q /\ p \in Int
    BY <2>1
  <2> HIDE DEF p
  <2>5. Steady(d, b)
    BY <2>4, SetPointFacts, PointedSteady
  <2> HIDE DEF d, q
  <2>6. Region(Nat, d.text, p, q) /\ Typed(d) /\ d.text = b.text
    BY <2>3, <2>4, <2>5, TypedFacts DEF Steady, Region, q
  <2>7. Recorded(c, d, v) /\ DeletedIn(c, d, p, q)
    BY <2>2, <2>4, <2>6, DoDeleteFacts DEF q
  <2>8. c.text = y /\ Typed(c)
    BY <2>3, <2>6, <2>7 DEF DeletedIn, Recorded, q
  <2>9. Steady(c, c)
    BY <2>8 DEF Steady, SameLists
  <2> QED BY <2>5, <2>7, <2>8, <2>9, AppliedAround DEF c
<1>9. CASE e.kind = "delete"
  <2> DEFINE s == e.text
             put == DoInsert(d, v, s, FALSE)
             back == IF e.after THEN put ELSE SetPoint(put, v, p)
             entries == StillThere(b, v, group, k)
  <2>1. s \in Seq(Nat) /\ s # <<>> /\ e.beg \in Nat /\ e.beg > 0
    BY <1>1, <1>9, EntryFacts DEF Place
  <2>2. c = Moved(back, entries)
    BY <1>3, <1>9
  <2>3. p <= Len(b.text) /\ y = Put(b.text, p, s)
    BY <1>2, <1>9 DEF Undoes
  <2>4. p \in Nat /\ p \in Int
    BY <2>1
  <2>5. b.view[v].begv <= p /\ p <= b.view[v].zv
    <3>1. b.view[v].begv \in Nat /\ b.view[v].zv \in Nat
      BY ViewFacts
    <3>2. e.beg >= b.view[v].begv + 1 /\ e.beg <= b.view[v].zv + 1
      BY <1>2, <1>9 DEF Reachable, Visible
    <3> QED BY <2>1, <3>1, <3>2
  <2> HIDE DEF p
  <2>6. Pointed(d, b, v) /\ d.view[v].point = p
    <3>1. Pointed(d, b, v) /\ d.view[v].point = Clamp(b, v, p) /\ Clamp(b, v, p) = p
      BY <2>4, <2>5, SetPointFacts, ClampFacts
    <3> QED BY <3>1
  <2> HIDE DEF d, s
  <2>7. Steady(d, b) /\ Typed(d) /\ d.text = b.text
    BY <2>6, PointedSteady DEF Pointed
  <2>8. Point(d, v) = p
    <3>1. d.view[v].begv <= p /\ p <= d.view[v].zv
      BY <2>5, <2>6 DEF Pointed
    <3>2. Clamp(d, v, p) = p
      BY <2>4, <2>7, <3>1, ClampFacts
    <3> QED BY <2>6, <3>2 DEF Point
  <2>9. Recorded(put, d, v) /\ InsertedIn(put, d, v, Point(d, v), s, FALSE, Point(d, v) + Len(s))
    BY <2>1, <2>7, DoInsertFacts
  <2> HIDE DEF put
  <2>10. put.text = y /\ Typed(put)
    BY <2>3, <2>7, <2>8, <2>9 DEF InsertedIn, Recorded, s
  <2>11. Steady(back, put)
    <3>1. Steady(put, put)
      BY <2>10 DEF Steady, SameLists
    <3>2. Steady(SetPoint(put, v, p), put)
      BY <2>4, <2>10, SetPointFacts, PointedSteady
    <3> QED BY <3>1, <3>2
  <2> HIDE DEF back, entries
  <2>12. Steady(c, back)
    <3>1. \A x \in entries : x.by \in Int
      BY StillThereFacts DEF entries
    <3>2. Typed(back)
      BY <2>11 DEF Steady
    <3> QED BY <2>2, <3>1, <3>2, MovedFacts
  <2>13. Steady(c, put)
    BY <2>11, <2>12, SteadyTwice
  <2> QED BY <2>7, <2>9, <2>10, <2>13, AppliedAround DEF c
<1> QED BY <1>1, <1>2, <1>5, <1>6, <1>7, <1>8, <1>9, EntryFacts DEF Quiet

\* What is known of a group after K of its records; T are the texts on the way.
Underway(acc, b, v, t, k) ==
    /\ acc.ok \in BOOLEAN /\ Typed(acc.b)
    /\ \A z : Leads(b.text, b.view[v].undo, z) => Leads(acc.b.text, acc.b.view[v].undo, z)
    /\ \/ acc.b.text = b.text /\ acc.b.view[v].undo = b.view[v].undo
       \/ Len(acc.b.view[v].undo) > Len(b.view[v].undo)
    /\ acc.ok => acc.b.text = t[k]
    /\ ~acc.ok => acc.b.view[v].begv > 0 \/ acc.b.view[v].zv < Len(acc.b.text)

LEMMA ApplyNextFacts ==
    ASSUME NEW b, Typed(b), NEW v \in Views, AtBoundary(b.view[v].undo),
           NEW group \in Seq(Entries), NEW t, NEW k \in 1 .. Len(group),
           group[k].kind # "boundary", Undoes(group[k], t[k - 1], t[k]),
           NEW acc, Underway(acc, b, v, t, k - 1)
    PROVE  Underway(ApplyNext(acc, v, group, k), b, v, t, k)
<1> DEFINE a == acc.b
           e == group[k]
           next == ApplyNext(acc, v, group, k)
<1>1. /\ acc.ok \in BOOLEAN /\ Typed(a)
      /\ \A z : Leads(b.text, b.view[v].undo, z) => Leads(a.text, a.view[v].undo, z)
      /\ \/ a.text = b.text /\ a.view[v].undo = b.view[v].undo
         \/ Len(a.view[v].undo) > Len(b.view[v].undo)
      /\ acc.ok => a.text = t[k - 1]
      /\ ~acc.ok => a.view[v].begv > 0 \/ a.view[v].zv < Len(a.text)
  BY DEF Underway
<1>2. next = IF ~acc.ok \/ ~Reachable(a, v, e) THEN [ok |-> FALSE, b |-> a]
             ELSE [ok |-> TRUE, b |-> Applied(a, v, group, k)]
  BY DEF ApplyNext
<1> HIDE DEF next, a
<1> SUFFICES Underway(next, b, v, t, k)
  BY DEF next
<1>3. CASE ~acc.ok \/ ~Reachable(a, v, e)
  <2>1. next = [ok |-> FALSE, b |-> a]
    BY <1>2, <1>3
  <2>2. ASSUME acc.ok, ~Reachable(a, v, e)
        PROVE  a.view[v].begv > 0 \/ a.view[v].zv < Len(a.text)
    <3>1. e \in Entries
      BY ElementOfSeq
    <3>2. /\ a.view[v].begv \in Nat /\ a.view[v].zv \in Nat /\ Len(a.text) \in Nat
      BY <1>1, ViewFacts
    <3>3. Undoes(e, a.text, t[k])
      BY <1>1, <2>2
    <3> HIDE DEF e
    <3>4. CASE e.kind = "insert" /\ ~Visible(a, v, e.beg, e.end)
      <4>1. e.beg \in Nat /\ e.beg > 0 /\ e.end \in Nat
        BY <3>1, <3>4, EntryFacts DEF Place
      <4>2. e.end - 1 <= Len(a.text)
        BY <3>3, <3>4 DEF Undoes
      <4>3. ~(e.beg >= a.view[v].begv + 1 /\ e.end <= a.view[v].zv + 1)
        BY <3>4 DEF Visible
      <4> DEFINE begv == a.view[v].begv
                 zv == a.view[v].zv
                 len == Len(a.text)
                 beg == e.beg
                 end == e.end
      <4>4. /\ begv \in Nat /\ zv \in Nat /\ len \in Nat /\ beg \in Nat /\ beg > 0 /\ end \in Nat
            /\ end - 1 <= len /\ ~(beg >= begv + 1 /\ end <= zv + 1)
        BY <3>2, <4>1, <4>2, <4>3
      <4> HIDE DEF begv, zv, len, beg, end
      <4>5. begv > 0 \/ zv < len
        BY <4>4
      <4> QED BY <4>5 DEF begv, zv, len
    <3>5. CASE e.kind = "delete" /\ ~Visible(a, v, e.beg, e.beg)
      <4>1. e.beg \in Nat /\ e.beg > 0
        BY <3>1, <3>5, EntryFacts DEF Place
      <4>2. e.beg - 1 <= Len(a.text)
        BY <3>3, <3>5 DEF Undoes
      <4>3. ~(e.beg >= a.view[v].begv + 1 /\ e.beg <= a.view[v].zv + 1)
        BY <3>5 DEF Visible
      <4> QED BY <3>2, <4>1, <4>2, <4>3
    <3> QED BY <2>2, <3>4, <3>5 DEF Reachable
  <2>3. next.b = a /\ next.ok = FALSE
    BY <2>1
  <2>4. a.view[v].begv > 0 \/ a.view[v].zv < Len(a.text)
    BY <1>1, <1>3, <2>2
  <2>5. next.ok \in BOOLEAN /\ ~next.ok
    BY <2>1, <2>3
  <2> HIDE DEF next
  <2> QED BY <1>1, <2>3, <2>4, <2>5 DEF Underway
<1>4. CASE acc.ok /\ Reachable(a, v, e)
  <2> DEFINE c == Applied(a, v, group, k)
  <2>1. AppliedTo(c, a, v, t[k])
    BY <1>1, <1>4, AppliedFacts
  <2>2. next = [ok |-> TRUE, b |-> c]
    BY <1>2, <1>4
  <2> HIDE DEF c
  <2>3. next.b = c /\ next.ok = TRUE
    BY <2>2
  <2>4. /\ Typed(c) /\ c.text = t[k]
        /\ \A z : Leads(b.text, b.view[v].undo, z) => Leads(c.text, c.view[v].undo, z)
    BY <1>1, <2>1 DEF AppliedTo
  <2>5. \/ c.text = b.text /\ c.view[v].undo = b.view[v].undo
        \/ Len(c.view[v].undo) > Len(b.view[v].undo)
    <3>1. Len(c.view[v].undo) \in Nat /\ Len(a.view[v].undo) \in Nat /\ Len(b.view[v].undo) \in Nat
      BY <1>1, <2>4, ViewFacts, LenProperties
    <3>2. CASE c.text = a.text /\ c.view[v].undo = a.view[v].undo
      BY <1>1, <3>2
    <3>3. CASE Lengthened(c.view[v].undo, a.view[v].undo)
      <4>1. CASE a.text = b.text /\ a.view[v].undo = b.view[v].undo
        BY <3>3, <4>1 DEF Lengthened
      <4>2. CASE Len(a.view[v].undo) > Len(b.view[v].undo)
        <5> DEFINE n == Len(c.view[v].undo)
                   m == Len(a.view[v].undo)
                   l == Len(b.view[v].undo)
        <5>1. n \in Nat /\ m \in Nat /\ l \in Nat /\ n >= m /\ m > l
          BY <3>1, <3>3, <4>2 DEF Lengthened
        <5> HIDE DEF n, m, l
        <5>2. n > l
          BY <5>1
        <5> QED BY <5>2 DEF n, l
      <4> QED BY <1>1, <4>1, <4>2
    <3> QED BY <2>1, <3>2, <3>3 DEF AppliedTo
  <2>6. next.ok \in BOOLEAN
    BY <2>2, <2>3
  <2> HIDE DEF next
  <2> QED BY <2>3, <2>4, <2>5, <2>6 DEF Underway
<1> QED BY <1>1, <1>3, <1>4

\* F are the results of the records of a group in turn, up to the one at N.
Applying(f, b, v, group, n) ==
    f = [k \in 0 .. n |-> IF k = 0 THEN [ok |-> TRUE, b |-> b]
                          ELSE ApplyNext(f[k - 1], v, group, k)]

LEMMA ApplyingFacts ==
    ASSUME NEW f, NEW b, NEW v, NEW group, NEW n \in Nat, Applying(f, b, v, group, n)
    PROVE  /\ f[0] = [ok |-> TRUE, b |-> b]
           /\ \A k \in 1 .. n : f[k] = ApplyNext(f[k - 1], v, group, k)
<1>1. \A k \in 0 .. n : f[k] = IF k = 0 THEN [ok |-> TRUE, b |-> b]
                               ELSE ApplyNext(f[k - 1], v, group, k)
  BY Zenon DEF Applying
<1>2. 0 \in 0 .. n /\ \A k \in 1 .. n : k \in 0 .. n /\ k # 0
  OBVIOUS
<1> QED BY <1>1, <1>2, Zenon

LEMMA ApplyingExists ==
    ASSUME NEW b, NEW v, NEW group, NEW n \in Nat
    PROVE  \E f : Applying(f, b, v, group, n)
<1> DEFINE T == {m \in 0 .. n : \E f : Applying(f, b, v, group, m)}
<1>1. 0 \in T
  <2> DEFINE f == [k \in 0 .. 0 |-> [ok |-> TRUE, b |-> b]]
  <2>1. \A k \in 0 .. 0 : k = 0
    OBVIOUS
  <2>2. Applying(f, b, v, group, 0)
    BY <2>1 DEF Applying
  <2> QED BY <2>2
<1>2. ASSUME NEW k \in 1 .. n, k - 1 \in T PROVE k \in T
  <2>1. PICK h : Applying(h, b, v, group, k - 1)
    BY <1>2
  <2> DEFINE last == ApplyNext(h[k - 1], v, group, k)
             f == [m \in 0 .. k |-> IF m = k THEN last ELSE h[m]]
  <2>2. h[0] = [ok |-> TRUE, b |-> b]
        /\ \A m \in 1 .. k - 1 : h[m] = ApplyNext(h[m - 1], v, group, m)
    <3>1. k - 1 \in Nat
      OBVIOUS
    <3> QED BY <2>1, <3>1, ApplyingFacts
  <2>3. ASSUME NEW m \in 0 .. k
        PROVE  f[m] = IF m = 0 THEN [ok |-> TRUE, b |-> b]
                      ELSE ApplyNext(f[m - 1], v, group, m)
    <3>1. CASE m = 0
      BY <2>2, <3>1
    <3>2. CASE m = k
      <4>1. m # 0 /\ k - 1 \in 0 .. k /\ k - 1 # k
        BY <3>2
      <4>2. f[m] = last /\ f[m - 1] = h[k - 1]
        BY <3>2, <4>1
      <4> QED BY <3>2, <4>1, <4>2
    <3>3. CASE m # 0 /\ m # k
      <4>1. m \in 1 .. k - 1 /\ m - 1 \in 0 .. k /\ m - 1 # k
        BY <3>3
      <4>2. f[m] = h[m] /\ f[m - 1] = h[m - 1]
        BY <3>3, <4>1
      <4> QED BY <2>2, <3>3, <4>1, <4>2
    <3> QED BY <3>1, <3>2, <3>3
  <2>4. f = [m \in 0 .. k |-> f[m]]
    OBVIOUS
  <2> HIDE DEF f
  <2>5. Applying(f, b, v, group, k)
    BY <2>3, <2>4 DEF Applying
  <2> QED BY <2>5
<1>3. n \in 0 .. n
  OBVIOUS
<1> HIDE DEF T
<1>4. n \in T
  BY <1>1, <1>2, <1>3, UpTo
<1> QED BY <1>4 DEF T

LEMMA ApplyGroupFacts ==
    ASSUME NEW b, Typed(b), NEW v \in Views, AtBoundary(b.view[v].undo),
           NEW group \in Seq(Entries), \A k \in 1 .. Len(group) : group[k].kind # "boundary",
           NEW t, NEW y, Replay(t, b.text, group, y)
    PROVE  Underway(ApplyGroup(b, v, group), b, v, t, Len(group))
<1> DEFINE n == Len(group)
           f == CHOOSE f : Applying(f, b, v, group, n)
           T == {k \in 0 .. n : Underway(f[k], b, v, t, k)}
<1>1. n \in Nat
  BY LenProperties
<1>2. Applying(f, b, v, group, n)
  BY <1>1, ApplyingExists
<1>3. ApplyGroup(b, v, group) = f[n]
  BY DEF ApplyGroup, Applying
<1> HIDE DEF f
<1>4. f[0] = [ok |-> TRUE, b |-> b] /\ \A k \in 1 .. n : f[k] = ApplyNext(f[k - 1], v, group, k)
  BY <1>1, <1>2, ApplyingFacts
<1>5. 0 \in T
  <2>1. t[0] = b.text
    BY DEF Replay
  <2>2. f[0].ok = TRUE /\ f[0].b = b /\ 0 \in 0 .. n
    BY <1>1, <1>4
  <2>3. Underway(f[0], b, v, t, 0)
    BY <1>4, <2>1, <2>2 DEF Underway
  <2> QED BY <2>2, <2>3
<1>6. ASSUME NEW k \in 1 .. n, k - 1 \in T PROVE k \in T
  <2>1. Underway(f[k - 1], b, v, t, k - 1) /\ k \in 0 .. n
    BY <1>6
  <2>2. Undoes(group[k], t[k - 1], t[k])
    BY DEF Replay
  <2>3. Underway(ApplyNext(f[k - 1], v, group, k), b, v, t, k)
    BY <2>1, <2>2, ApplyNextFacts
  <2> QED BY <1>4, <2>1, <2>3
<1>7. n \in T
  <2> HIDE DEF T
  <2>1. n \in 0 .. n
    BY <1>1
  <2> QED BY <1>1, <1>5, <1>6, <2>1, UpTo
<1> QED BY <1>3, <1>7

\* F are the records that are kept of the first N.
Keeping(f, list, n) ==
    f = [k \in 0 .. n |-> IF k = 0 THEN <<>>
                          ELSE IF k \in Dropped(list) THEN f[k - 1]
                          ELSE Append(f[k - 1], list[k])]

LEMMA KeepingFacts ==
    ASSUME NEW f, NEW list, NEW n \in Nat, Keeping(f, list, n)
    PROVE  /\ f[0] = <<>>
           /\ \A k \in 1 .. n : f[k] = IF k \in Dropped(list) THEN f[k - 1]
                                       ELSE Append(f[k - 1], list[k])
<1>1. \A k \in 0 .. n : f[k] = IF k = 0 THEN <<>>
                               ELSE IF k \in Dropped(list) THEN f[k - 1]
                               ELSE Append(f[k - 1], list[k])
  BY Zenon DEF Keeping
<1>2. 0 \in 0 .. n /\ \A k \in 1 .. n : k \in 0 .. n /\ k # 0
  OBVIOUS
<1> QED BY <1>1, <1>2, Zenon

LEMMA KeepingExists ==
    ASSUME NEW list, NEW n \in Nat
    PROVE  \E f : Keeping(f, list, n)
<1> DEFINE T == {m \in 0 .. n : \E f : Keeping(f, list, m)}
<1>1. 0 \in T
  <2> DEFINE f == [k \in 0 .. 0 |-> <<>>]
  <2>1. \A k \in 0 .. 0 : k = 0
    OBVIOUS
  <2>2. Keeping(f, list, 0)
    BY <2>1 DEF Keeping
  <2> QED BY <2>2
<1>2. ASSUME NEW k \in 1 .. n, k - 1 \in T PROVE k \in T
  <2>1. PICK h : Keeping(h, list, k - 1)
    BY <1>2
  <2> DEFINE last == IF k \in Dropped(list) THEN h[k - 1] ELSE Append(h[k - 1], list[k])
             f == [m \in 0 .. k |-> IF m = k THEN last ELSE h[m]]
  <2>2. /\ h[0] = <<>>
        /\ \A m \in 1 .. k - 1 : h[m] = IF m \in Dropped(list) THEN h[m - 1]
                                        ELSE Append(h[m - 1], list[m])
    <3>1. k - 1 \in Nat
      OBVIOUS
    <3> QED BY <2>1, <3>1, KeepingFacts
  <2>3. ASSUME NEW m \in 0 .. k
        PROVE  f[m] = IF m = 0 THEN <<>>
                      ELSE IF m \in Dropped(list) THEN f[m - 1]
                      ELSE Append(f[m - 1], list[m])
    <3>1. CASE m = 0
      BY <2>2, <3>1
    <3>2. CASE m = k
      <4>1. m # 0 /\ k - 1 \in 0 .. k /\ k - 1 # k
        BY <3>2
      <4>2. f[m] = last /\ f[m - 1] = h[k - 1]
        BY <3>2, <4>1
      <4> QED BY <3>2, <4>1, <4>2
    <3>3. CASE m # 0 /\ m # k
      <4>1. m \in 1 .. k - 1 /\ m - 1 \in 0 .. k /\ m - 1 # k
        BY <3>3
      <4>2. f[m] = h[m] /\ f[m - 1] = h[m - 1]
        BY <3>3, <4>1
      <4> QED BY <2>2, <3>3, <4>1, <4>2
    <3> QED BY <3>1, <3>2, <3>3
  <2>4. f = [m \in 0 .. k |-> f[m]]
    OBVIOUS
  <2> HIDE DEF f
  <2>5. Keeping(f, list, k)
    BY <2>3, <2>4 DEF Keeping
  <2> QED BY <2>5
<1>3. n \in 0 .. n
  OBVIOUS
<1> HIDE DEF T
<1>4. n \in T
  BY <1>1, <1>2, <1>3, UpTo
<1> QED BY <1>4 DEF T

LEMMA GroupLenFacts ==
    ASSUME NEW list \in Seq(Entries)
    PROVE  /\ GroupLen(list) \in Nat /\ GroupLen(list) <= Len(list)
           /\ \A k \in 1 .. GroupLen(list) : list[k].kind # "boundary"
           /\ GroupLen(list) < Len(list) => list[GroupLen(list) + 1].kind = "boundary"
<1> DEFINE T == {k \in 1 .. Len(list) : list[k].kind = "boundary"}
           First(k) == /\ list[k].kind = "boundary"
                       /\ \A j \in 1 .. k - 1 : list[j].kind # "boundary"
           n == GroupLen(list)
<1>1. Len(list) \in Nat /\ DOMAIN list = 1 .. Len(list)
  BY LenProperties
<1>2. n = IF \E k \in 1 .. Len(list) : list[k].kind = "boundary"
          THEN (CHOOSE k \in 1 .. Len(list) : First(k)) - 1 ELSE Len(list)
  BY <1>1 DEF GroupLen
<1> HIDE DEF n
<1>3. CASE T = {}
  BY <1>1, <1>2, <1>3 DEF n
<1>4. CASE T # {}
  <2>1. PICK i \in T : \A y \in T : i <= y
    <3>1. T \in SUBSET Nat
      BY <1>1
    <3> HIDE DEF T
    <3> QED BY <1>4, <3>1, LeastIndex
  <2>2. i \in 1 .. Len(list) /\ First(i)
    BY <1>1, <2>1
  <2> DEFINE k == CHOOSE k \in 1 .. Len(list) : First(k)
  <2>3. k \in 1 .. Len(list) /\ First(k)
    <3> HIDE DEF First
    <3> QED BY <2>2
  <2>4. n = k - 1
    BY <1>2, <1>4
  <2> HIDE DEF k
  <2>5. n \in Nat /\ n <= Len(list) /\ n + 1 = k
    BY <1>1, <2>3, <2>4
  <2> QED BY <2>3, <2>4, <2>5 DEF n
<1> QED BY <1>3, <1>4

\* Without the positions a list leads where it led.
LEMMA WithoutPointFacts ==
    ASSUME NEW list \in Seq(Entries), NEW x, NEW y, Leads(x, list, y)
    PROVE  WithoutPoint(list) \in Seq(Entries) /\ Leads(x, WithoutPoint(list), y)
<1> DEFINE n == GroupLen(list)
           f == CHOOSE f : Keeping(f, list, n)
           rest == SubSeq(list, n + 1, Len(list))
<1>1. n \in Nat /\ n <= Len(list) /\ Len(list) \in Nat
  BY GroupLenFacts, LenProperties
<1>2. Keeping(f, list, n)
  BY <1>1, KeepingExists
<1>3. WithoutPoint(list) = f[n] \o rest
  BY DEF WithoutPoint, Keeping
<1>4. PICK t : Replay(t, x, list, y)
  BY DEF Leads
<1> HIDE DEF f, n, rest
<1>5. /\ f[0] = <<>>
      /\ \A k \in 1 .. n : f[k] = IF k \in Dropped(list) THEN f[k - 1]
                                  ELSE Append(f[k - 1], list[k])
  BY <1>1, <1>2, KeepingFacts
<1>6. /\ t[0] = x /\ \A k \in 0 .. n : t[k] \in Seq(Nat)
      /\ \A k \in 1 .. n : k \in 1 .. Len(list) /\ Undoes(list[k], t[k - 1], t[k])
  <2>1. /\ \A k \in 0 .. n : k \in 0 .. Len(list)
        /\ \A k \in 1 .. n : k \in 1 .. Len(list)
    BY <1>1
  <2> QED BY <1>4, <2>1 DEF Replay
<1> DEFINE T == {k \in 0 .. n : f[k] \in Seq(Entries) /\ Leads(x, f[k], t[k])}
<1>7. 0 \in T
  <2>1. 0 \in 0 .. n /\ <<>> \in Seq(Entries) /\ x \in Seq(Nat)
    BY <1>1, <1>6
  <2>2. Leads(x, <<>>, x)
    BY <2>1, LeadsNowhere
  <2> QED BY <1>5, <1>6, <2>1, <2>2
<1>8. ASSUME NEW k \in 1 .. n, k - 1 \in T PROVE k \in T
  <2> DEFINE e == list[k]
             g == f[k - 1]
  <2>1. /\ k \in 1 .. Len(list) /\ k \in 0 .. n /\ Undoes(e, t[k - 1], t[k])
        /\ g \in Seq(Entries) /\ Leads(x, g, t[k - 1])
        /\ t[k] \in Seq(Nat) /\ t[k - 1] \in Seq(Nat)
    <3>1. k \in 0 .. n /\ k - 1 \in 0 .. n
      BY <1>1
    <3> QED BY <1>6, <1>8, <3>1
  <2>2. e \in Entries
    BY <2>1, ElementOfSeq
  <2>3. CASE k \in Dropped(list)
    <3>1. e.kind = "point"
      BY <2>3 DEF Dropped, Positions
    <3>2. f[k] = g /\ t[k] = t[k - 1]
      BY <1>5, <2>1, <2>3, <3>1 DEF Undoes
    <3> QED BY <2>1, <3>2
  <2>4. CASE k \notin Dropped(list)
    <3>1. f[k] = Append(g, e)
      BY <1>5, <2>4
    <3> HIDE DEF g, e
    <3>2. Append(g, e) = g \o <<e>> /\ <<e>> \in Seq(Entries)
      BY <2>1, <2>2, AppendIsConcat
    <3>3. Leads(t[k - 1], <<e>>, t[k])
      BY <2>1, LeadsOne
    <3>4. g \o <<e>> \in Seq(Entries) /\ Leads(x, g \o <<e>>, t[k])
      BY <2>1, <3>2, <3>3, LeadsOn
    <3> QED BY <2>1, <3>1, <3>2, <3>4
  <2> QED BY <2>3, <2>4
<1>9. f[n] \in Seq(Entries) /\ Leads(x, f[n], t[n])
  <2>1. n \in 0 .. n
    BY <1>1
  <2> HIDE DEF T
  <2>2. n \in T
    BY <1>1, <1>7, <1>8, <2>1, UpTo
  <2> QED BY <2>2 DEF T
<1>10. rest \in Seq(Entries) /\ Leads(t[n], rest, y)
  <2>1. Leads(t[n], rest, y)
    BY <1>1, <1>4, LeadsVia DEF rest
  <2>2. IsPart(Entries, rest, list, n, Len(list))
    <3>1. Region(Entries, list, n, Len(list))
      BY <1>1 DEF Region
    <3> QED BY <3>1, PartIs DEF rest
  <2> QED BY <2>1, <2>2 DEF IsPart
<1> QED BY <1>3, <1>9, <1>10, LeadsOn

\* What is left to undo after the group at the head of a list, and its boundary.
LEMMA AfterGroup ==
    ASSUME NEW list \in Seq(Entries), NEW x, NEW t, NEW n, n = GroupLen(list),
           Replay(t, x, list, Original)
    PROVE  /\ SubSeq(list, n + 2, Len(list)) \in Seq(Entries)
           /\ Leads(t[n], SubSeq(list, n + 2, Len(list)), Original)
           /\ n < Len(list) => t[n] = list[n + 1].text
           /\ ~(n < Len(list)) => t[n] = Original
           /\ n < Len(list) => list[n + 1] \in Boundaries
<1>1. n \in Nat /\ n <= Len(list) /\ Len(list) \in Nat
      /\ (n < Len(list) => list[n + 1].kind = "boundary")
  BY GroupLenFacts, LenProperties
<1>2. CASE n < Len(list)
  <2> DEFINE k == n + 1
  <2>1. k \in 1 .. Len(list) /\ k \in Nat /\ k <= Len(list) /\ k - 1 = n /\ k + 1 = n + 2
    BY <1>1, <1>2
  <2> HIDE DEF k
  <2>2. Undoes(list[k], t[k - 1], t[k]) /\ list[k].kind = "boundary"
    BY <1>1, <1>2, <2>1 DEF Replay, k
  <2>3. t[k] = t[n] /\ list[k].text = t[n]
    BY <2>1, <2>2 DEF Undoes
  <2>4. Leads(t[k], SubSeq(list, k + 1, Len(list)), Original)
    BY <2>1, LeadsVia
  <2>5. IsPart(Entries, SubSeq(list, k + 1, Len(list)), list, k, Len(list))
    <3>1. Region(Entries, list, k, Len(list))
      BY <1>1, <2>1 DEF Region
    <3> QED BY <3>1, PartIs
  <2>6. list[k] \in Boundaries
    <3>1. list[k] \in Entries
      BY <2>1, ElementOfSeq
    <3> QED BY <2>2, <3>1 DEF Entries, Insertions, Deletions, Shifts, Firsts, Points
  <2> QED BY <1>2, <2>1, <2>3, <2>4, <2>5, <2>6 DEF IsPart, k
<1>3. CASE ~(n < Len(list))
  <2>1. n = Len(list)
    BY <1>1, <1>3
  <2>2. t[n] = Original /\ Original \in Seq(Nat)
    BY <2>1 DEF Replay, Original
  <2>3. SubSeq(list, n + 2, Len(list)) = <<>>
    BY <1>1, <2>1, SubSeqEmpty
  <2>4. <<>> \in Seq(Entries)
    OBVIOUS
  <2> QED BY <1>3, <2>2, <2>3, <2>4, LeadsNowhere
<1> QED BY <1>2, <1>3

LEMMA CurrentFacts ==
    ASSUME IInv
    PROVE  /\ Typed(buf) /\ current \in Views /\ List \in Seq(Entries)
           /\ Leads(buf.text, List, Original) /\ still \in SUBSET Markers
BY ViewFacts DEF IInv, List

LEMMA UndoStep ==
    ASSUME IInv, Undo
    PROVE  IInv' /\ goal' # None
<1> DEFINE from   == IF pending = None THEN Tail(List) ELSE pending
           n      == GroupLen(from)
           group  == SubSeq(from, 1, n)
           result == ApplyGroup(buf, current, group)
           made   == result.b.view[current].undo
           target == IF n < Len(from) THEN from[n + 1]
                     ELSE [text |-> Original, mark |-> <<>>]
           put    == WithUndo(result.b, current, WithoutPoint(made))
<1>1. /\ List # <<>> /\ Between /\ from # <<>>
      /\ buf' = IF result.ok THEN AddBoundary(put, current, {}) ELSE result.b
      /\ pending' = IF result.ok THEN SubSeq(from, n + 2, Len(from))
                    ELSE IF made = List THEN pending ELSE None
      /\ goal' = [ok |-> result.ok, text |-> target.text, mark |-> target.mark,
                  tracked |-> IF pending = None THEN still \cap Head(List).still ELSE {}]
      /\ still' = IF result.ok THEN Markers ELSE {}
      /\ current' = current
  BY DEF Undo
<1>2. /\ Typed(buf) /\ current \in Views /\ List \in Seq(Entries)
      /\ Leads(buf.text, List, Original) /\ still \in SUBSET Markers
  BY CurrentFacts
<1>3. from \in Seq(Entries) /\ Leads(buf.text, from, Original)
  <2>1. CASE pending = None
    <3>1. Head(List).kind = "boundary"
      BY <1>1 DEF Between, AtBoundary
    <3>2. PICK w \in Seq(Nat) : Undoes(Head(List), buf.text, w) /\ Leads(w, Tail(List), Original)
      BY <1>1, <1>2, LeadsPast
    <3>3. w = buf.text
      BY <3>1, <3>2 DEF Undoes
    <3>4. Tail(List) \in Seq(Entries)
      BY <1>1, <1>2, LeadsPast
    <3> QED BY <2>1, <3>2, <3>3, <3>4
  <2>2. CASE pending # None
    BY <2>2 DEF IInv
  <2> QED BY <2>1, <2>2
<1> HIDE DEF from
<1>4. PICK t : Replay(t, buf.text, from, Original)
  BY <1>3 DEF Leads
<1>5. /\ n \in Nat /\ n <= Len(from) /\ Len(from) \in Nat
      /\ \A k \in 1 .. n : from[k].kind # "boundary"
  BY <1>3, GroupLenFacts, LenProperties
<1>6. /\ SubSeq(from, n + 2, Len(from)) \in Seq(Entries)
      /\ Leads(t[n], SubSeq(from, n + 2, Len(from)), Original)
      /\ n < Len(from) => t[n] = from[n + 1].text
      /\ ~(n < Len(from)) => t[n] = Original
      /\ n < Len(from) => from[n + 1] \in Boundaries
  BY <1>3, <1>4, AfterGroup
<1>7. /\ group \in Seq(Entries) /\ Len(group) = n
      /\ \A k \in 1 .. n : group[k].kind # "boundary"
  <2>1. /\ group \in Seq(Entries) /\ Len(group) = n /\ \A k \in 1 .. n : group[k] = from[k]
    BY <1>3, <1>5, BeginFacts
  <2> QED BY <1>5, <2>1
<1>8. Leads(buf.text, group, t[n])
  BY <1>3, <1>4, <1>5, LeadsVia
<1> HIDE DEF n, group
<1>9. PICK u : Replay(u, buf.text, group, t[n])
  BY <1>8 DEF Leads
<1>10. Underway(result, buf, current, u, n) /\ u[n] = t[n]
  <2>1. AtBoundary(buf.view[current].undo)
    BY <1>1 DEF Between, List
  <2>2. Underway(result, buf, current, u, Len(group))
    BY <1>2, <1>7, <1>9, <2>1, ApplyGroupFacts
  <2> QED BY <1>7, <1>9, <2>2 DEF Replay
<1> HIDE DEF result
<1>11. /\ result.ok \in BOOLEAN /\ Typed(result.b)
       /\ Leads(result.b.text, made, Original)
       /\ \/ result.b.text = buf.text /\ made = List
          \/ Len(made) > Len(List)
       /\ result.ok => result.b.text = t[n]
       /\ ~result.ok => \/ result.b.view[current].begv > 0
                        \/ result.b.view[current].zv < Len(result.b.text)
  BY <1>2, <1>10 DEF Underway, List
<1>12. made \in Seq(Entries)
  BY <1>2, <1>11, ViewFacts
<1>13. target.text = t[n] /\ target.mark \in Places \cup {<<>>} /\ t[n] \in Seq(Nat)
  <2>1. t[n] \in Seq(Nat)
    BY <1>7, <1>8, LeadsType
  <2>2. CASE n < Len(from)
    <3>1. from[n + 1].mark \in Places
      BY <1>6, <2>2 DEF Boundaries
    <3> QED BY <1>6, <2>1, <2>2, <3>1
  <2>3. CASE ~(n < Len(from))
    BY <1>6, <2>1, <2>3
  <2> QED BY <2>2, <2>3
<1> HIDE DEF target, made
<1>14. goal' \in Goals
  <2> DEFINE tracked == IF pending = None THEN still \cap Head(List).still ELSE {}
  <2>1. tracked \in SUBSET Markers
    BY <1>2
  <2> HIDE DEF tracked
  <2>2. goal' = [ok |-> result.ok, text |-> target.text, mark |-> target.mark,
                 tracked |-> tracked]
    BY <1>1 DEF tracked
  <2> QED BY <1>11, <1>13, <2>1, <2>2 DEF Goals
<1>15. goal' # None
  BY <1>14, NoneAssumption
<1>16. goal'.ok = result.ok /\ goal'.text = t[n]
  BY <1>1, <1>13
<1>17. CASE result.ok
  <2>1. WithoutPoint(made) \in Seq(Entries) /\ Leads(t[n], WithoutPoint(made), Original)
    BY <1>11, <1>12, <1>17, WithoutPointFacts
  <2>2. Relisted(put, result.b, current) /\ put.view[current].undo = WithoutPoint(made)
    BY <1>2, <1>11, <2>1, WithUndoFacts
  <2> HIDE DEF put
  <2>3. Typed(put) /\ put.text = t[n] /\ Leads(put.text, put.view[current].undo, Original)
    BY <1>11, <1>17, <2>1, <2>2 DEF Relisted
  <2>4. buf' = AddBoundary(put, current, {}) /\ {} \in SUBSET Markers
    BY <1>1, <1>17
  <2>5. Typed(buf') /\ buf'.text = t[n] /\ Leads(buf'.text, buf'.view[current].undo, Original)
    BY <1>2, <2>3, <2>4, AddBoundaryFacts
  <2>6. List' = buf'.view[current].undo
    BY <1>1 DEF List
  <2>7. pending' \in Seq(Entries) /\ Leads(buf'.text, pending', Original)
    BY <1>1, <1>6, <1>17, <2>5
  <2>8. UndoRestores'
    BY <1>16, <1>17, <2>5 DEF UndoRestores
  <2>9. still' \in SUBSET Markers
    BY <1>1, <1>17
  <2> QED BY <1>1, <1>2, <1>14, <1>15, <2>5, <2>6, <2>7, <2>8, <2>9 DEF IInv
<1>18. CASE ~result.ok
  <2>1. buf' = result.b
    BY <1>1, <1>18
  <2>2. List' = made
    BY <1>1, <2>1 DEF List, made
  <2>3. pending' # None => pending' \in Seq(Entries) /\ Leads(buf'.text, pending', Original)
    <3> SUFFICES ASSUME pending' # None
                 PROVE  pending' \in Seq(Entries) /\ Leads(buf'.text, pending', Original)
      OBVIOUS
    <3>1. made = List /\ pending' = pending
      BY <1>1, <1>18
    <3>2. Len(List) \in Nat
      BY <1>2, LenProperties
    <3>3. result.b.text = buf.text
      BY <1>11, <3>1, <3>2
    <3> QED BY <2>1, <3>1, <3>3 DEF IInv
  <2>4. UndoRestores'
    <3>1. buf'.view[current].begv > 0 \/ buf'.view[current].zv < Len(buf'.text)
      BY <1>11, <1>18, <2>1
    <3> QED BY <1>1, <1>16, <1>18, <3>1 DEF UndoRestores, TextLen
  <2>5. still' \in SUBSET Markers
    BY <1>1, <1>18
  <2> QED BY <1>1, <1>2, <1>11, <1>14, <1>15, <2>1, <2>2, <2>3, <2>4, <2>5 DEF IInv
<1> QED BY <1>11, <1>15, <1>17, <1>18

-----------------------------------------------------------------------------
(* New characters.                                                         *)

LEMMA ImageFinite ==
    ASSUME NEW S, IsFiniteSet(S), NEW T, NEW f \in [S -> T]
    PROVE  IsFiniteSet({f[x] : x \in S})
<1> DEFINE R == {f[x] : x \in S}
<1>1. f \in [S -> R] /\ \A y \in R : \E x \in S : f[x] = y
  OBVIOUS
<1> HIDE DEF R
<1>2. f \in Surjection(S, R)
  BY <1>1 DEF Surjection
<1>3. IsFiniteSet(R)
  BY <1>2, FS_Surjection
<1> QED BY <1>3 DEF R

LEMMA CharactersFinite ==
    ASSUME NEW S, NEW s, s \in Seq(S)
    PROVE  IsFiniteSet(Range(s))
<1> DEFINE D == 1 .. Len(s)
<1>1. Len(s) \in Nat /\ s \in [D -> S] /\ Range(s) = {s[i] : i \in D}
  BY LenProperties, RangeEquality
<1>2. IsFiniteSet(D)
  BY <1>1, FS_Interval
<1> HIDE DEF D
<1>3. IsFiniteSet({s[i] : i \in D})
  BY <1>1, <1>2, ImageFinite, ZenonT(40)
<1> QED BY <1>1, <1>3

LEMMA UsedFinite ==
    ASSUME Typed(buf)
    PROVE  IsFiniteSet(Used)
<1> DEFINE strings(e) == IF e.kind \in {"delete", "boundary"} THEN Range(e.text) ELSE {}
           lists == [v \in Views |-> Range(buf.view[v].undo)]
           L == {lists[v] : v \in Views}
           D == UNION L
           texts == [e \in D |-> strings(e)]
           W == {texts[e] : e \in D}
<1>1. IsFiniteSet(Views)
  BY EditsAssumption, FS_AddElement DEF Views
<1>2. IsFiniteSet(L)
  <2>1. lists \in [Views -> {lists[v] : v \in Views}]
    OBVIOUS
  <2> HIDE DEF lists
  <2> QED BY <1>1, <2>1, ImageFinite
<1>3. \A v \in Views : IsFiniteSet(lists[v])
  <2>1. \A v \in Views : lists[v] = Range(buf.view[v].undo) /\ buf.view[v].undo \in Seq(Entries)
    BY ViewFacts
  <2> QED BY <2>1, CharactersFinite
<1>4. IsFiniteSet(D)
  <2>1. \A T \in L : IsFiniteSet(T)
    BY <1>3
  <2> HIDE DEF L
  <2> QED BY <1>2, <2>1, FS_UNION
<1>5. \A e \in D : e \in Entries
  <2> SUFFICES ASSUME NEW v \in Views, NEW e \in Range(buf.view[v].undo) PROVE e \in Entries
    OBVIOUS
  <2>1. buf.view[v].undo \in Seq(Entries)
    BY ViewFacts
  <2>2. Range(buf.view[v].undo) = {buf.view[v].undo[i] : i \in 1 .. Len(buf.view[v].undo)}
    BY <2>1, RangeEquality
  <2> QED BY <2>1, <2>2, ElementOfSeq
<1>6. D = UNION {Range(buf.view[v].undo) : v \in Views}
  OBVIOUS
<1> HIDE DEF D
<1>7. \A e \in D : IsFiniteSet(texts[e])
  <2> SUFFICES ASSUME NEW e \in D PROVE IsFiniteSet(texts[e])
    OBVIOUS
  <2>1. e.kind \in {"delete", "boundary"} => e.text \in Seq(Nat)
    BY <1>5, EntryFacts
  <2>2. IsFiniteSet({})
    BY FS_EmptySet
  <2>3. texts[e] = strings(e)
    OBVIOUS
  <2> HIDE DEF texts
  <2> QED BY <2>1, <2>2, <2>3, CharactersFinite
<1>8. IsFiniteSet(W)
  <2>1. texts \in [D -> {texts[e] : e \in D}]
    OBVIOUS
  <2> HIDE DEF texts
  <2> QED BY <1>4, <2>1, ImageFinite
<1>9. IsFiniteSet(UNION W)
  <2>1. \A T \in W : IsFiniteSet(T)
    <3> HIDE DEF texts
    <3> QED BY <1>7
  <2> HIDE DEF W
  <2> QED BY <1>8, <2>1, FS_UNION
<1>10. UNION W = UNION {strings(e) : e \in D}
  <2> HIDE DEF strings
  <2>1. \A e \in D : texts[e] = strings(e)
    OBVIOUS
  <2> HIDE DEF texts
  <2>2. W = {strings(e) : e \in D}
    BY <2>1
  <2> QED BY <2>2
<1>11. IsFiniteSet(Range(buf.text)) /\ IsFiniteSet(Range(Original))
  <2>1. buf.text \in Seq(Nat) /\ Original \in Seq(Nat)
    BY TypedFacts DEF Original
  <2> QED BY <2>1, CharactersFinite
<1>12. Used = Range(buf.text) \cup Range(Original) \cup UNION W
  BY <1>6, <1>10 DEF Used
<1> HIDE DEF W
<1> QED BY <1>9, <1>11, <1>12, FS_Union

LEMMA FreshFacts ==
    ASSUME Typed(buf)
    PROVE  /\ Fresh \in Nat /\ Fresh \notin Range(buf.text)
           /\ <<Fresh>> \in Seq(Nat) /\ <<Fresh>> # <<>> /\ Len(<<Fresh>>) = 1
<1> DEFINE n == Cardinality(Used)
           T == {c \in 1 .. n + 1 : c \notin Used}
           Is(c) == c \notin Used /\ \A d \in 1 .. c - 1 : d \in Used
<1>1. IsFiniteSet(Used) /\ n \in Nat
  BY UsedFinite, FS_CardinalityType
<1> HIDE DEF n
<1>2. ASSUME T = {} PROVE FALSE
  <2>1. 1 .. n + 1 \in SUBSET Used
    BY <1>2
  <2>2. Cardinality(1 .. n + 1) <= n
    BY <1>1, <2>1, FS_Subset DEF n
  <2>3. Cardinality(1 .. n + 1) = n + 1
    <3>1. 1 \in Int /\ n + 1 \in Int /\ ~(1 > n + 1) /\ n + 1 - 1 + 1 = n + 1
      BY <1>1
    <3> QED BY <3>1, FS_Interval
  <2> QED BY <1>1, <2>2, <2>3
<1>3. PICK c \in T : \A d \in T : c <= d
  <2>1. T \in SUBSET Nat
    BY <1>1
  <2> HIDE DEF T
  <2> QED BY <1>2, <2>1, LeastIndex
<1>4. c \in 1 .. n + 1 /\ Is(c)
  BY <1>1, <1>3
<1>5. Fresh = CHOOSE e \in 1 .. n + 1 : Is(e)
  BY DEF Fresh, n
<1>6. Fresh \in 1 .. n + 1 /\ Is(Fresh)
  <2> HIDE DEF Is
  <2> QED BY <1>4, <1>5
<1>7. Fresh \in Nat /\ Fresh \notin Range(buf.text)
  BY <1>1, <1>6 DEF Used
<1> HIDE DEF Is
<1> QED BY <1>7

-----------------------------------------------------------------------------
(* Steps.                                                                  *)

LEMMA EditStep ==
    ASSUME IInv, Typed(buf'), current' = current, pending' = None,
           goal' = None, still' \in SUBSET Markers,
           \A y : Leads(buf.text, buf.view[current].undo, y) =>
                    Leads(buf'.text, buf'.view[current].undo, y)
    PROVE  IInv'
<1>1. current \in Views /\ Leads(buf.text, buf.view[current].undo, Original)
  BY CurrentFacts DEF List
<1>2. Leads(buf'.text, List', Original)
  BY <1>1 DEF List
<1> QED BY <1>1, <1>2 DEF IInv, UndoRestores

LEMMA InsertMade ==
    ASSUME IInv, NEW before \in BOOLEAN, Insert(before)
    PROVE  /\ Recorded(buf', buf, current) /\ current' = current /\ pending' = None
           /\ goal' = None /\ still' \in SUBSET Markers
           /\ InsertedIn(buf', buf, current, Point(buf, current), <<Fresh>>, before,
                         Point(buf, current) + 1)
<1>1. Typed(buf) /\ current \in Views /\ still \in SUBSET Markers
  BY CurrentFacts
<1> DEFINE s == <<Fresh>>
<1>2. s \in Seq(Nat) /\ s # <<>> /\ Len(s) = 1
  BY <1>1, FreshFacts
<1>3. /\ buf' = DoInsert(buf, current, s, before) /\ still' = still
      /\ pending' = None /\ goal' = None /\ current' = current
  BY DEF Insert, Edited
<1> HIDE DEF s
<1>4. /\ Recorded(buf', buf, current)
      /\ InsertedIn(buf', buf, current, Point(buf, current), s, before,
                    Point(buf, current) + Len(s))
  BY <1>1, <1>2, <1>3, DoInsertFacts
<1> QED BY <1>1, <1>2, <1>3, <1>4 DEF s

LEMMA InsertElsewhereMade ==
    ASSUME IInv, NEW at \in Accessible, InsertElsewhere(at)
    PROVE  /\ Recorded(buf', buf, current) /\ current' = current /\ pending' = None
           /\ goal' = None /\ still' \in SUBSET Markers
           /\ \E point : /\ Shifted(point, buf.view[current].point, at, 1)
                         /\ InsertedIn(buf', buf, current, at, <<Fresh>>, FALSE, point)
<1>1. Typed(buf) /\ current \in Views /\ still \in SUBSET Markers
  BY CurrentFacts
<1> DEFINE s == <<Fresh>>
<1>2. s \in Seq(Nat) /\ s # <<>> /\ Len(s) = 1
  BY <1>1, FreshFacts
<1>3. /\ buf' = DoInsertAt(buf, current, at, s) /\ still' = still
      /\ pending' = None /\ goal' = None /\ current' = current
  BY DEF InsertElsewhere, Edited
<1> HIDE DEF s
<1>4. at \in Nat /\ at <= Len(buf.text)
  BY <1>1, ViewFacts DEF Accessible
<1>5. \E point : /\ Shifted(point, buf.view[current].point, at, Len(s))
                 /\ Recorded(buf', buf, current)
                 /\ InsertedIn(buf', buf, current, at, s, FALSE, point)
  BY <1>1, <1>2, <1>3, <1>4, DoInsertAtFacts
<1> QED BY <1>1, <1>2, <1>3, <1>5 DEF s

LEMMA DeleteMade ==
    ASSUME IInv, NEW start \in Accessible, NEW end \in Accessible, Delete(start, end)
    PROVE  /\ Recorded(buf', buf, current) /\ current' = current /\ pending' = None
           /\ goal' = None /\ still' \in SUBSET Markers
           /\ Region(Nat, buf.text, start, end) /\ DeletedIn(buf', buf, start, end)
<1>1. Typed(buf) /\ current \in Views /\ still \in SUBSET Markers
  BY CurrentFacts
<1>2. /\ buf' = DoDelete(buf, current, start, end) /\ start < end
      /\ still' = {m \in still : buf.mark[m].view = current}
      /\ pending' = None /\ goal' = None /\ current' = current
  BY DEF Delete, Edited
<1>3. Region(Nat, buf.text, start, end)
  BY <1>1, <1>2, ViewFacts, TypedFacts DEF Accessible, Region
<1>4. Recorded(buf', buf, current) /\ DeletedIn(buf', buf, start, end)
  BY <1>1, <1>2, <1>3, DoDeleteFacts
<1>5. still' \in SUBSET Markers
  BY <1>1, <1>2
<1> QED BY <1>2, <1>3, <1>4, <1>5

LEMMA ReplaceMade ==
    ASSUME IInv, NEW start \in Accessible, NEW end \in Accessible, Replace(start, end)
    PROVE  /\ Recorded(buf', buf, current) /\ current' = current /\ pending' = None
           /\ goal' = None /\ still' \in SUBSET Markers
           /\ Region(Nat, buf.text, start, end) /\ start < end
           /\ SwappedIn(buf', buf, start, end, <<Fresh>>)
<1>1. Typed(buf) /\ current \in Views /\ still \in SUBSET Markers
  BY CurrentFacts
<1> DEFINE s == <<Fresh>>
<1>2. s \in Seq(Nat) /\ s # <<>> /\ Len(s) = 1
  BY <1>1, FreshFacts
<1>3. /\ buf' = DoReplace(buf, current, start, end, s) /\ start < end /\ still' = {}
      /\ pending' = None /\ goal' = None /\ current' = current
  BY DEF Replace, Edited
<1> HIDE DEF s
<1>4. Region(Nat, buf.text, start, end)
  BY <1>1, <1>3, ViewFacts, TypedFacts DEF Accessible, Region
<1>5. ReplaceArgs(buf, current, start, end, s)
  BY <1>1, <1>2, <1>3, <1>4 DEF ReplaceArgs
<1>6. Recorded(buf', buf, current) /\ SwappedIn(buf', buf, start, end, s)
  BY <1>2, <1>3, <1>5, DoReplaceFacts
<1>7. still' \in SUBSET Markers
  BY <1>3
<1> QED BY <1>3, <1>4, <1>6, <1>7 DEF s

LEMMA TransposeMade ==
    ASSUME IInv, NEW s1 \in Accessible, NEW e1 \in Accessible, NEW s2 \in Accessible,
           NEW e2 \in Accessible, Transpose(s1, e1, s2, e2)
    PROVE  /\ Typed(buf') /\ current' = current /\ pending' = None
           /\ goal' = None /\ still' \in SUBSET Markers
           /\ \A y : Leads(buf.text, buf.view[current].undo, y) =>
                    Leads(buf'.text, buf'.view[current].undo, y)
           /\ Regions(Nat, buf.text, s1, e1, s2, e2)
           /\ buf'.text = Transposed(buf.text, s1, e1, s2, e2)
<1>1. Typed(buf) /\ current \in Views /\ still \in SUBSET Markers
  BY CurrentFacts
<1>2. /\ buf' = DoTranspose(buf, current, s1, e1, s2, e2) /\ still' = {}
      /\ s1 < e1 /\ e1 <= s2 /\ s2 < e2
      /\ pending' = None /\ goal' = None /\ current' = current
  BY DEF Transpose, Edited
<1>3. Regions(Nat, buf.text, s1, e1, s2, e2)
  <2>1. buf.view[current].begv \in Nat /\ buf.view[current].zv \in Nat
        /\ buf.view[current].zv <= Len(buf.text) /\ buf.text \in Seq(Nat)
        /\ Len(buf.text) \in Nat
    BY <1>1, ViewFacts, TypedFacts
  <2>2. \A p \in Accessible : p \in Nat /\ p <= Len(buf.text)
    BY <2>1 DEF Accessible
  <2> QED BY <1>2, <2>1, <2>2 DEF Regions
<1>4. TransposeArgs(buf, current, s1, e1, s2, e2)
  BY <1>1, <1>3 DEF TransposeArgs
<1>5. /\ Typed(buf')
      /\ \A y : Leads(buf.text, buf.view[current].undo, y) =>
                    Leads(buf'.text, buf'.view[current].undo, y)
      /\ buf'.text = Transposed(buf.text, s1, e1, s2, e2)
  BY <1>2, <1>4, DoTransposeFacts
<1>6. still' \in SUBSET Markers
  BY <1>2
<1> QED BY <1>2, <1>3, <1>5, <1>6

LEMMA EndCommandMade ==
    ASSUME IInv, EndCommand
    PROVE  IInv' /\ buf'.text = buf.text
<1>1. Typed(buf) /\ current \in Views /\ still \in SUBSET Markers
      /\ Leads(buf.text, buf.view[current].undo, Original)
  BY CurrentFacts DEF List
<1>2. /\ buf' = AddBoundary(buf, current, still) /\ still' = Markers /\ goal' = None
      /\ current' = current /\ pending' = pending
  BY DEF EndCommand
<1>3. Typed(buf') /\ buf'.text = buf.text /\ Leads(buf'.text, buf'.view[current].undo, Original)
  BY <1>1, <1>2, AddBoundaryFacts
<1>4. List' = buf'.view[current].undo
  BY <1>2 DEF List
<1>5. pending' # None => pending' \in Seq(Entries) /\ Leads(buf'.text, pending', Original)
  BY <1>2, <1>3 DEF IInv
<1>6. still' \in SUBSET Markers
  BY <1>2
<1> QED BY <1>1, <1>2, <1>3, <1>4, <1>5, <1>6 DEF IInv, UndoRestores

\* A buffer with a text that its list leads from, before the boundary is added.
LEMMA PlacedStep ==
    ASSUME IInv, NEW b, Typed(b), NEW v \in Views, b.text = buf.text,
           Leads(b.text, b.view[v].undo, Original)
    PROVE  /\ Typed(AddBoundary(b, v, {})) /\ AddBoundary(b, v, {}).text = buf.text
           /\ Leads(AddBoundary(b, v, {}).text, AddBoundary(b, v, {}).view[v].undo, Original)
<1>1. {} \in SUBSET Markers
  OBVIOUS
<1> QED BY <1>1, AddBoundaryFacts

LEMMA PlacedDone ==
    ASSUME current' \in Views, still' \in SUBSET Markers, Typed(buf'),
           Leads(buf'.text, buf'.view[current'].undo, Original),
           pending' = None, goal' = None
    PROVE  IInv'
BY DEF IInv, UndoRestores, List

LEMMA GotoMade ==
    ASSUME IInv, NEW p \in Accessible, Goto(p)
    PROVE  IInv' /\ buf'.text = buf.text
<1> DEFINE b == SetPoint(buf, current, p)
<1>1. Typed(buf) /\ current \in Views /\ still \in SUBSET Markers
      /\ Leads(buf.text, buf.view[current].undo, Original)
  BY CurrentFacts DEF List
<1>2. /\ buf' = AddBoundary(b, current, {}) /\ still' = still /\ goal' = None
      /\ current' = current /\ pending' = None
  BY DEF Goto, Placed
<1>3. p \in Int
  BY <1>1, ViewFacts DEF Accessible
<1>4. Steady(b, buf)
  BY <1>1, <1>3, SetPointFacts, PointedSteady
<1> HIDE DEF b
<1>5. Typed(b) /\ b.text = buf.text /\ b.view[current].undo = buf.view[current].undo
  BY <1>1, <1>4 DEF Steady, SameLists
<1>6. Typed(buf') /\ buf'.text = buf.text /\ Leads(buf'.text, buf'.view[current].undo, Original)
  BY <1>1, <1>2, <1>5, PlacedStep
<1> QED BY <1>1, <1>2, <1>6, PlacedDone

LEMMA NarrowMade ==
    ASSUME IInv, NEW start \in Nat, NEW end \in Nat, start <= end, end <= TextLen(buf),
           Narrow(start, end)
    PROVE  IInv' /\ buf'.text = buf.text
<1> DEFINE v == current
           q == Min2(Max2(buf.view[v].point, start), end)
           r == [buf.view[v] EXCEPT !.begv = start, !.zv = end, !.point = q]
           f == [buf.view EXCEPT ![v] = r]
           b == [buf EXCEPT !.view[current].begv = start, !.view[current].zv = end,
                            !.view[current].point = Min2(Max2(@, start), end)]
<1>1. Typed(buf) /\ current \in Views /\ still \in SUBSET Markers
      /\ Leads(buf.text, buf.view[current].undo, Original)
  BY CurrentFacts DEF List
<1>2. /\ buf' = AddBoundary(b, current, {}) /\ still' = still /\ goal' = None
      /\ current' = current /\ pending' = None
  BY DEF Narrow, Placed
<1>3. /\ buf.view \in [Views -> ViewSet] /\ buf.view[v] \in ViewSet /\ buf \in Buffers
      /\ \A w \in Views : InText(buf.view[w], Len(buf.text))
  BY <1>1, TypedFacts DEF Typed
<1>4. q \in Nat /\ q <= Len(buf.text)
  <2>1. buf.view[v].point \in Nat /\ Len(buf.text) \in Nat
    BY <1>1, ViewFacts
  <2> QED BY <2>1 DEF Min2, Max2, TextLen
<1>5. b = [buf EXCEPT !.view = f]
  <2> DEFINE one == [buf.view[v] EXCEPT !.begv = start]
             two == [one EXCEPT !.zv = end]
             three == [two EXCEPT !.point = Min2(Max2(@, start), end)]
  <2> DEFINE c1 == [buf EXCEPT !.view[v].begv = start]
             c2 == [c1 EXCEPT !.view[v].zv = end]
             c3 == [c2 EXCEPT !.view[v].point = Min2(Max2(@, start), end)]
             f1 == [buf.view EXCEPT ![v] = one]
             f2 == [f1 EXCEPT ![v] = two]
             f3 == [f2 EXCEPT ![v] = three]
  <2>1. b = c3
    OBVIOUS
  <2>2. three = r /\ one \in ViewSet /\ two \in ViewSet
    BY <1>3 DEF ViewSet
  <2>3. c1 = [buf EXCEPT !.view = f1]
    BY <1>1, <1>3 DEF Buffers
  <2>4. c2 = [c1 EXCEPT !.view = [c1.view EXCEPT ![v] = [c1.view[v] EXCEPT !.zv = end]]]
    OBVIOUS
  <2>5. c3 = [c2 EXCEPT !.view = [c2.view EXCEPT ![v] =
                 [c2.view[v] EXCEPT !.point = Min2(Max2(@, start), end)]]]
    OBVIOUS
  <2> HIDE DEF c1, c2, c3, one, two, three
  <2>6. f1 \in [Views -> ViewSet] /\ f1[v] = one
    BY <1>1, <1>3, <2>2
  <2>7. c1 \in Buffers /\ c1.view = f1
    BY <1>3, <2>3, <2>6 DEF Buffers
  <2>8. c2 = [c1 EXCEPT !.view = f2]
    BY <2>4, <2>6, <2>7 DEF two
  <2>9. f2 \in [Views -> ViewSet] /\ f2[v] = two
    BY <1>1, <2>2, <2>6
  <2>10. c2 \in Buffers /\ c2.view = f2
    BY <2>7, <2>8, <2>9 DEF Buffers
  <2>11. c3 = [c2 EXCEPT !.view = f3]
    BY <2>5, <2>9, <2>10 DEF three
  <2>12. f3 = [buf.view EXCEPT ![v] = three]
    BY <1>1, <1>3
  <2> HIDE DEF f1, f2, f3
  <2>13. c3 = [buf EXCEPT !.view = f3]
    BY <1>3, <2>3, <2>8, <2>11 DEF Buffers
  <2> QED BY <2>1, <2>2, <2>12, <2>13
<1> HIDE DEF b, q
<1>6. /\ r \in ViewSet /\ r.undo = buf.view[v].undo /\ r.point = q /\ r.begv = start
      /\ r.zv = end
  BY <1>3, <1>4 DEF ViewSet
<1> HIDE DEF r
<1>7. f \in [Views -> ViewSet] /\ \A w \in Views : f[w] = IF w = v THEN r ELSE buf.view[w]
  BY <1>1, <1>3, <1>6
<1> HIDE DEF f
<1>8. b \in Buffers /\ b.view = f /\ b.text = buf.text
  BY <1>3, <1>5, <1>7 DEF Buffers
<1>9. \A w \in Views : InText(b.view[w], Len(b.text))
  BY <1>3, <1>4, <1>6, <1>7, <1>8 DEF InText, TextLen
<1>10. Typed(b) /\ b.view[v].undo = buf.view[v].undo
  BY <1>1, <1>6, <1>7, <1>8, <1>9 DEF Typed
<1>11. Typed(buf') /\ buf'.text = buf.text /\ Leads(buf'.text, buf'.view[current].undo, Original)
  BY <1>1, <1>2, <1>8, <1>10, PlacedStep
<1> QED BY <1>1, <1>2, <1>11, PlacedDone

LEMMA SetMarkerMade ==
    ASSUME IInv, NEW m \in Markers, NEW p \in Nat, SetMarker(m, p)
    PROVE  IInv' /\ buf'.text = buf.text
<1> DEFINE r == [buf.mark[m] EXCEPT !.view = current, !.pos = p]
           f == [buf.mark EXCEPT ![m] = r]
           b == [buf EXCEPT !.mark[m].view = current, !.mark[m].pos = p]
<1>1. Typed(buf) /\ current \in Views /\ still \in SUBSET Markers
      /\ Leads(buf.text, buf.view[current].undo, Original)
  BY CurrentFacts DEF List
<1>2. /\ buf' = AddBoundary(b, current, {}) /\ still' = still \ {m} /\ goal' = None
      /\ current' = current /\ pending' = None
  BY DEF SetMarker, Placed
<1>3. /\ buf.mark \in [Markers -> [view : Views, pos : Nat, adv : BOOLEAN]] /\ buf \in Buffers
      /\ \A w \in Views : InText(buf.view[w], Len(buf.text))
  BY <1>1, TypedFacts DEF Typed, Places
<1>4. b = [buf EXCEPT !.mark = f]
  <2> DEFINE one == [buf.mark[m] EXCEPT !.view = current]
             two == [one EXCEPT !.pos = p]
  <2>1. b = [buf EXCEPT !.mark = [[buf.mark EXCEPT ![m] = one] EXCEPT ![m] = two]]
    BY <1>3 DEF Buffers
  <2>2. two = r
    BY <1>3
  <2> HIDE DEF one, two
  <2>3. [[buf.mark EXCEPT ![m] = one] EXCEPT ![m] = two] = [buf.mark EXCEPT ![m] = two]
    BY <1>3
  <2> QED BY <2>1, <2>2, <2>3
<1> HIDE DEF b
<1>5. r \in [view : Views, pos : Nat, adv : BOOLEAN]
  BY <1>1, <1>3
<1> HIDE DEF r
<1>6. f \in Places
  BY <1>3, <1>5 DEF Places
<1> HIDE DEF f
<1>7. b \in Buffers /\ b.view = buf.view /\ b.text = buf.text
  BY <1>3, <1>4, <1>6 DEF Buffers
<1>8. Typed(b)
  BY <1>3, <1>7 DEF Typed
<1>9. Typed(buf') /\ buf'.text = buf.text /\ Leads(buf'.text, buf'.view[current].undo, Original)
  BY <1>1, <1>2, <1>7, <1>8, PlacedStep
<1>10. still' \in SUBSET Markers
  BY <1>1, <1>2
<1> QED BY <1>1, <1>2, <1>9, <1>10, PlacedDone

LEMMA SetBufferMade ==
    ASSUME IInv, NEW w \in Views, SetBuffer(w)
    PROVE  IInv' /\ buf'.text = buf.text
<1> DEFINE c == WithUndo(buf, current, <<>>)
           b == WithUndo(c, w, List)
<1>1. Typed(buf) /\ current \in Views /\ still \in SUBSET Markers /\ List \in Seq(Entries)
      /\ Leads(buf.text, List, Original)
  BY CurrentFacts
<1>2. /\ buf' = AddBoundary(b, current', {}) /\ still' = still /\ goal' = None
      /\ current' = w /\ pending' = None
  BY DEF SetBuffer, Placed
<1>3. Relisted(c, buf, current)
  <2>1. <<>> \in Seq(Entries)
    OBVIOUS
  <2> QED BY <1>1, <2>1, WithUndoFacts
<1> HIDE DEF c
<1>4. Typed(c) /\ c.text = buf.text
  BY <1>3 DEF Relisted
<1>5. Relisted(b, c, w) /\ b.view[w].undo = List
  BY <1>1, <1>4, WithUndoFacts
<1> HIDE DEF b
<1>6. Typed(b) /\ b.text = buf.text
  BY <1>4, <1>5 DEF Relisted
<1>7. Typed(buf') /\ buf'.text = buf.text /\ Leads(buf'.text, buf'.view[w].undo, Original)
  BY <1>1, <1>2, <1>5, <1>6, PlacedStep
<1> QED BY <1>1, <1>2, <1>7, PlacedDone

LEMMA SaveMade ==
    ASSUME IInv, Save
    PROVE  IInv' /\ buf'.text = buf.text
<1> DEFINE b == [buf EXCEPT !.modified = FALSE, !.time = @ + 1]
<1>1. Typed(buf) /\ current \in Views /\ still \in SUBSET Markers
      /\ Leads(buf.text, buf.view[current].undo, Original)
  BY CurrentFacts DEF List
<1>2. /\ buf' = AddBoundary(b, current', {}) /\ still' = still /\ goal' = None
      /\ current' = current /\ pending' = None
  BY DEF Save, Placed
<1>3. buf \in Buffers
  BY <1>1 DEF Typed
<1>4. b \in Buffers /\ b.view = buf.view /\ b.text = buf.text
  <2> DEFINE c == [buf EXCEPT !.modified = FALSE]
  <2>1. b = [c EXCEPT !.time = @ + 1]
    OBVIOUS
  <2>2. c \in Buffers /\ c.view = buf.view /\ c.text = buf.text
    BY <1>3 DEF Buffers
  <2> HIDE DEF c
  <2>3. [c EXCEPT !.time = @ + 1] \in Buffers
        /\ [c EXCEPT !.time = @ + 1].view = c.view /\ [c EXCEPT !.time = @ + 1].text = c.text
    BY <2>2 DEF Buffers
  <2> HIDE DEF b
  <2> QED BY <2>1, <2>2, <2>3
<1> HIDE DEF b
<1>5. Typed(b)
  BY <1>1, <1>4 DEF Typed
<1>6. Typed(buf') /\ buf'.text = buf.text /\ Leads(buf'.text, buf'.view[current].undo, Original)
  BY <1>1, <1>2, <1>4, <1>5, PlacedStep
<1> QED BY <1>1, <1>2, <1>6, PlacedDone

LEMMA InitSafe ==
    ASSUME Init
    PROVE  IInv
<1>1. PICK adv \in [Markers -> BOOLEAN] :
        buf = [text |-> Original,
               view |-> [v \in Views |-> [point |-> 0, begv |-> 0, zv |-> Len(Original),
                                          undo |-> <<>>, before |-> 0]],
               mark |-> [m \in Markers |-> [view |-> Base, pos |-> 1, adv |-> adv[m]]],
               modified |-> FALSE, time |-> 1]
  BY DEF Init
<1>2. current = Base /\ pending = None /\ goal = None /\ still = Markers
  BY DEF Init
<1>3. Original \in Seq(Nat) /\ Len(Original) = 2 /\ Base \in Views
  BY DEF Original, Views
<1> DEFINE w == [point |-> 0, begv |-> 0, zv |-> Len(Original), undo |-> <<>>, before |-> 0]
           view == [v \in Views |-> w]
           mark == [m \in Markers |-> [view |-> Base, pos |-> 1, adv |-> adv[m]]]
<1>4. w \in ViewSet /\ InText(w, 2) /\ w.undo = <<>>
  <2>1. <<>> \in Seq(Entries)
    OBVIOUS
  <2> QED BY <1>3, <2>1 DEF ViewSet, InText
<1> HIDE DEF w
<1>5. view \in [Views -> ViewSet] /\ \A v \in Views : view[v] = w
  BY <1>4
<1>6. mark \in Places
  BY <1>3 DEF Places
<1>7. buf = [text |-> Original, view |-> view, mark |-> mark, modified |-> FALSE, time |-> 1]
  BY <1>1 DEF w
<1> HIDE DEF view, mark
<1>8. buf \in Buffers /\ buf.view = view /\ buf.text = Original
  BY <1>3, <1>5, <1>6, <1>7 DEF Buffers
<1>9. Typed(buf)
  BY <1>3, <1>4, <1>5, <1>8 DEF Typed
<1>10. List = <<>>
  BY <1>2, <1>3, <1>4, <1>5, <1>8 DEF List
<1>11. Leads(Original, <<>>, Original)
  <2> DEFINE t == [k \in 0 .. 0 |-> Original]
  <2>1. t \in [0 .. Len(<<>>) -> Seq(Nat)] /\ t[0] = Original /\ t[Len(<<>>)] = Original
    BY <1>3
  <2> HIDE DEF t
  <2>2. Replay(t, Original, <<>>, Original)
    BY <2>1 DEF Replay
  <2> QED BY <2>2 DEF Leads
<1> QED BY <1>2, <1>3, <1>8, <1>9, <1>10, <1>11 DEF IInv, UndoRestores

\* The actions that edit nothing.
Quietly == \/ EndCommand
           \/ \E p \in Accessible : Goto(p)
           \/ \E r \in Narrowings : r[2] <= TextLen(buf) /\ Narrow(r[1], r[2])
           \/ Widen
           \/ \E m \in Markers, p \in 0 .. TextLen(buf) : SetMarker(m, p)
           \/ \E w \in Views : SetBuffer(w)
           \/ Save

LEMMA QuietStep ==
    ASSUME IInv, Quietly
    PROVE  IInv' /\ buf'.text = buf.text
<1>1. CASE EndCommand
  BY <1>1, EndCommandMade
<1>2. CASE \E p \in Accessible : Goto(p)
  BY <1>2, GotoMade
<1>3. CASE \E r \in Narrowings : r[2] <= TextLen(buf) /\ Narrow(r[1], r[2])
  <2>1. PICK r \in Narrowings : r[2] <= TextLen(buf) /\ Narrow(r[1], r[2])
    BY <1>3
  <2>2. r[1] \in Nat /\ r[2] \in Nat /\ r[1] <= r[2]
    BY EditsAssumption
  <2> QED BY <2>1, <2>2, NarrowMade
<1>4. CASE Widen
  <2>1. TextLen(buf) \in Nat /\ 0 \in Nat /\ 0 <= TextLen(buf) /\ TextLen(buf) <= TextLen(buf)
    BY CurrentFacts, TypedFacts DEF TextLen
  <2>2. Narrow(0, TextLen(buf))
    BY <1>4 DEF Widen
  <2> QED BY <2>1, <2>2, NarrowMade
<1>5. CASE \E m \in Markers, p \in 0 .. TextLen(buf) : SetMarker(m, p)
  <2>1. PICK m \in Markers, p \in 0 .. TextLen(buf) : SetMarker(m, p)
    BY <1>5
  <2>2. p \in Nat
    BY CurrentFacts, TypedFacts DEF TextLen
  <2> QED BY <2>1, <2>2, SetMarkerMade
<1>6. CASE \E w \in Views : SetBuffer(w)
  BY <1>6, SetBufferMade
<1>7. CASE Save
  BY <1>7, SaveMade
<1> QED BY <1>1, <1>2, <1>3, <1>4, <1>5, <1>6, <1>7 DEF Quietly

LEMMA NextStep ==
    ASSUME IInv, [Next]_vars
    PROVE  IInv'
<1>1. ASSUME NEW before \in BOOLEAN, Insert(before)
      PROVE  IInv'
  BY <1>1, InsertMade, EditStep DEF Recorded
<1>2. ASSUME NEW at \in Accessible, InsertElsewhere(at)
      PROVE  IInv'
  BY <1>2, InsertElsewhereMade, EditStep DEF Recorded
<1>3. ASSUME NEW start \in Accessible, NEW end \in Accessible, Delete(start, end)
      PROVE  IInv'
  BY <1>3, DeleteMade, EditStep DEF Recorded
<1>4. ASSUME NEW start \in Accessible, NEW end \in Accessible, Replace(start, end)
      PROVE  IInv'
  BY <1>4, ReplaceMade, EditStep DEF Recorded
<1>5. ASSUME NEW s1 \in Accessible, NEW e1 \in Accessible, NEW s2 \in Accessible,
             NEW e2 \in Accessible, Transpose(s1, e1, s2, e2)
      PROVE  IInv'
  BY <1>5, TransposeMade, EditStep
<1>6. CASE Quietly
  BY <1>6, QuietStep
<1>7. CASE Undo
  BY <1>7, UndoStep
<1>8. CASE UNCHANGED vars
  BY <1>8 DEF vars, IInv, List, UndoRestores, TextLen
<1> QED BY <1>1, <1>2, <1>3, <1>4, <1>5, <1>6, <1>7, <1>8 DEF Next, Quietly

\* The inductive invariant: places in the text, and an undo list that leads
\* from the text of the buffer back to the one it began with.
THEOREM Invariant == Spec => []IInv
<1>1. Init => IInv
  BY InitSafe
<1>2. IInv /\ [Next]_vars => IInv'
  BY NextStep
<1> QED BY <1>1, <1>2, PTL DEF Spec

\* Whatever is edited through whichever view, undone and narrowed, the point
\* and the narrowing of every view stay in the text, and its ends in order.
THEOREM TypeCorrect == Spec => []TypeOK
<1>1. IInv => TypeOK
  <2> SUFFICES ASSUME IInv PROVE TypeOK
    OBVIOUS
  <2>1. Typed(buf) /\ current \in Views
    BY CurrentFacts
  <2>2. \A m \in Markers : buf.mark[m].pos \in Nat
    BY <2>1, MarkFacts
  <2>3. ASSUME NEW v \in Views
        PROVE  /\ 0 <= buf.view[v].begv /\ buf.view[v].begv <= buf.view[v].zv
               /\ buf.view[v].zv <= TextLen(buf) /\ buf.view[v].point \in 0 .. TextLen(buf)
    BY <2>1, ViewFacts DEF TextLen
  <2> QED BY <2>1, <2>2, <2>3 DEF TypeOK
<1>2. Spec => []IInv
  BY Invariant
<1> QED BY <1>1, <1>2, PTL

\* Undoing a command brings back the text that the command began with, whatever
\* was edited, undone, narrowed or selected before it and since, and fails only
\* in a narrowed buffer: primitive-undo takes back what the records say, and
\* the records say what was done.
THEOREM UndoRestoresText == Spec => []UndoRestores
<1>1. IInv => UndoRestores
  BY DEF IInv
<1>2. Spec => []IInv
  BY Invariant
<1> QED BY <1>1, <1>2, PTL

-----------------------------------------------------------------------------
(* Where characters are.                                                   *)

LEMMA IndexOfFacts ==
    ASSUME NEW x, x \in Seq(Nat), NEW c \in Range(x)
    PROVE  IndexOf(c, x) \in 1 .. Len(x) /\ x[IndexOf(c, x)] = c
<1>1. DOMAIN x = 1 .. Len(x) /\ \E i \in 1 .. Len(x) : x[i] = c
  BY LenProperties, RangeEquality
<1> QED BY <1>1 DEF IndexOf

LEMMA IndexFacts ==
    ASSUME NEW x, x \in Seq(Nat), IsInjective(x), NEW i \in 1 .. Len(x)
    PROVE  IndexOf(x[i], x) = i /\ x[i] \in Range(x)
<1>1. DOMAIN x = 1 .. Len(x) /\ x[i] \in Range(x)
  BY LenProperties, RangeEquality
<1>2. IndexOf(x[i], x) \in 1 .. Len(x) /\ x[IndexOf(x[i], x)] = x[i]
  BY <1>1, IndexOfFacts
<1> QED BY <1>1, <1>2 DEF IsInjective

LEMMA SameIndex ==
    ASSUME NEW x, x \in Seq(Nat), IsInjective(x), NEW i \in 1 .. Len(x),
           NEW j \in 1 .. Len(x), x[i] = x[j]
    PROVE  i = j
<1>1. DOMAIN x = 1 .. Len(x)
  BY LenProperties
<1> QED BY <1>1 DEF IsInjective

\* The place P in X and the place Q in Z are between the same characters.
Along(x, z, p, q) ==
    \A i \in 1 .. Len(x), j \in 1 .. Len(z) : x[i] = z[j] => (i <= p <=> j <= q)

LEMMA AlongTheSame ==
    ASSUME NEW x, NEW z, NEW p, NEW q, x \in Seq(Nat), z \in Seq(Nat), Along(x, z, p, q)
    PROVE  \A c \in Range(x) \cap Range(z) : IndexOf(c, x) <= p <=> IndexOf(c, z) <= q
<1> SUFFICES ASSUME NEW c \in Range(x) \cap Range(z)
             PROVE  IndexOf(c, x) <= p <=> IndexOf(c, z) <= q
  OBVIOUS
<1>1. /\ IndexOf(c, x) \in 1 .. Len(x) /\ x[IndexOf(c, x)] = c
      /\ IndexOf(c, z) \in 1 .. Len(z) /\ z[IndexOf(c, z)] = c
  BY IndexOfFacts
<1> QED BY <1>1 DEF Along

LEMMA AlongClamped ==
    ASSUME NEW x, NEW z, x \in Seq(Nat), z \in Seq(Nat),
           NEW p, NEW q, p \in Nat, q \in Nat, Along(x, z, p, q),
           NEW f, NEW g, f \in Nat, g \in Nat, Along(x, z, f, g),
           NEW k, NEW l, k \in Nat, l \in Nat, Along(x, z, k, l)
    PROVE  Along(x, z, Min2(Max2(p, f), k), Min2(Max2(q, g), l))
<1> SUFFICES ASSUME NEW i \in 1 .. Len(x), NEW j \in 1 .. Len(z), x[i] = z[j]
             PROVE  i <= Min2(Max2(p, f), k) <=> j <= Min2(Max2(q, g), l)
  BY DEF Along
<1>1. (i <= p <=> j <= q) /\ (i <= f <=> j <= g) /\ (i <= k <=> j <= l)
  BY DEF Along
<1>2. i \in Nat /\ j \in Nat
  BY LenProperties
<1>3. i <= Min2(Max2(p, f), k) <=> (i <= p \/ i <= f) /\ i <= k
  BY <1>2, SMTT(20) DEF Min2, Max2
<1>4. j <= Min2(Max2(q, g), l) <=> (j <= q \/ j <= g) /\ j <= l
  BY <1>2 DEF Min2, Max2
<1> QED BY <1>1, <1>3, <1>4

LEMMA PutAlong ==
    ASSUME NEW x, NEW at, NEW s, Gap(Nat, x, at, s),
           NEW z, z = Put(x, at, s), IsInjective(z),
           NEW p, NEW q, p \in Nat, Shifted(q, p, at, Len(s))
    PROVE  Along(x, z, p, q)
<1> DEFINE n == Len(s)
           k == Len(x)
<1>1. /\ x \in Seq(Nat) /\ s \in Seq(Nat) /\ at \in Nat /\ at <= k /\ n \in Nat /\ k \in Nat
      /\ IsPut(Nat, z, x, at, s)
  BY LenProperties, PutFacts DEF Gap
<1>2. /\ z \in Seq(Nat) /\ Len(z) = k + n
      /\ \A i \in 1 .. k : z[IF i <= at THEN i ELSE i + n] = x[i]
  <2>1. z \in Seq(Nat) /\ Len(z) = k + n
    BY <1>1 DEF IsPut
  <2>2. ASSUME NEW i \in 1 .. k, i <= at PROVE z[i] = x[i]
    <3>1. i \in 1 .. k + n
      BY <1>1
    <3> QED BY <1>1, <2>2, <3>1 DEF IsPut
  <2>3. ASSUME NEW i \in 1 .. k, ~(i <= at) PROVE z[i + n] = x[i]
    <3>1. \A l \in 1 .. k + n : ~(l <= at) /\ ~(l <= at + n) => z[l] = x[l - n]
      BY <1>1 DEF IsPut
    <3> DEFINE l == i + n
    <3> HIDE DEF k, n
    <3>2. l \in 1 .. k + n /\ ~(l <= at) /\ ~(l <= at + n) /\ l - n = i
      BY <1>1, <2>3
    <3> HIDE DEF l
    <3>3. z[l] = x[l - n]
      BY <3>1, <3>2, Zenon
    <3> QED BY <3>2, <3>3 DEF l
  <2> QED BY <2>1, <2>2, <2>3
<1> SUFFICES ASSUME NEW i \in 1 .. k, NEW j \in 1 .. Len(z), x[i] = z[j]
             PROVE  i <= p <=> j <= q
  BY DEF Along
<1> HIDE DEF k
<1>3. j = IF i <= at THEN i ELSE i + n
  <2> DEFINE l == IF i <= at THEN i ELSE i + n
  <2>1. l \in 1 .. Len(z) /\ z[l] = z[j]
    <3>1. l \in 1 .. Len(z)
      BY <1>1, <1>2
    <3>2. z[l] = x[i]
      BY <1>2
    <3> QED BY <3>1, <3>2
  <2> HIDE DEF l
  <2>2. l = j
    BY <1>2, <2>1, SameIndex
  <2> QED BY <2>2 DEF l
<1>4. i \in Nat
  BY <1>1
<1> HIDE DEF n
<1>5. Shifted(q, p, at, n)
  BY DEF n
<1> QED BY <1>1, <1>3, <1>4, <1>5 DEF Shifted

LEMMA CutAlong ==
    ASSUME NEW x, NEW start, NEW end, Region(Nat, x, start, end), IsInjective(x),
           NEW z, z = Cut(x, start, end),
           NEW p, NEW q, p \in Nat, Pulled(q, p, start, end)
    PROVE  Along(x, z, p, q)
<1> DEFINE k == Len(x)
           d == end - start
<1>1. /\ x \in Seq(Nat) /\ start \in Nat /\ end \in Nat /\ start <= end /\ end <= k /\ k \in Nat
      /\ IsCut(Nat, z, x, start, end)
  BY LenProperties, CutFacts DEF Region
<1>2. d \in Nat /\ k - d \in Nat /\ k = (k - d) + d /\ end = start + d
  BY <1>1
<1>3. /\ z \in Seq(Nat) /\ Len(z) = k - d
      /\ \A j \in 1 .. k - d : x[IF j <= start THEN j ELSE j + d] = z[j]
  BY <1>1 DEF IsCut
<1> SUFFICES ASSUME NEW i \in 1 .. k, NEW j \in 1 .. Len(z), x[i] = z[j]
             PROVE  i <= p <=> j <= q
  BY DEF Along
<1> HIDE DEF k, d
<1>4. i = IF j <= start THEN j ELSE j + d
  <2> DEFINE l == IF j <= start THEN j ELSE j + d
  <2>1. l \in 1 .. k
    BY <1>1, <1>2, <1>3
  <2>2. x[l] = x[i]
    BY <1>3
  <2> HIDE DEF l
  <2>3. l = i
    BY <1>1, <2>1, <2>2, SameIndex DEF k
  <2> QED BY <2>3 DEF l
<1>5. j \in Nat
  BY <1>2, <1>3
<1>6. /\ q \in Nat
      /\ p >= end => q = p - d
      /\ p > start /\ p < end => q = start
      /\ p <= start => q = p
  BY DEF Pulled, d
<1> QED BY <1>1, <1>2, <1>4, <1>5, <1>6

LEMMA SwappedAlong ==
    ASSUME NEW x, NEW start, NEW end, NEW s, Region(Nat, x, start, end), s \in Seq(Nat),
           start < end, IsInjective(x),
           \A m \in 1 .. Len(s) : s[m] \notin Range(x),
           NEW z, z = Swapped(x, start, end, s), IsInjective(z),
           NEW p, NEW q, p \in Nat, Resettled(q, p, start, end, Len(s))
    PROVE  Along(x, z, p, q)
<1> DEFINE k == Len(x)
           n == Len(s)
           d == end - start
<1>1. /\ x \in Seq(Nat) /\ start \in Nat /\ end \in Nat /\ start <= end /\ end <= k /\ k \in Nat
      /\ n \in Nat /\ IsSwapped(Nat, z, x, start, end, s)
  BY LenProperties, SwappedFacts DEF Region
<1>2. d \in Nat /\ k - d \in Nat /\ k = (k - d) + d /\ end = start + d
  BY <1>1
<1>3. /\ z \in Seq(Nat) /\ Len(z) = (k - d) + n
      /\ \A j \in 1 .. (k - d) + n :
            z[j] = IF j <= start THEN x[j]
                   ELSE IF j <= start + n THEN s[j - start] ELSE x[j - n + d]
  BY <1>1 DEF IsSwapped
<1> SUFFICES ASSUME NEW i \in 1 .. k, NEW j \in 1 .. Len(z), x[i] = z[j]
             PROVE  i <= p <=> j <= q
  BY DEF Along
<1>4. x[i] \in Range(x)
  BY <1>1, IndexFacts
<1> HIDE DEF k, d, n
<1>5. ~(j > start /\ j <= start + n)
  <2> SUFFICES ASSUME j > start, j <= start + n PROVE FALSE
    OBVIOUS
  <2>1. j - start \in 1 .. n /\ ~(j <= start) /\ j \in 1 .. (k - d) + n
    BY <1>1, <1>2, <1>3
  <2>2. z[j] = s[j - start]
    BY <1>3, <2>1
  <2> QED BY <1>4, <2>1, <2>2 DEF n
<1>6. i = IF j <= start THEN j ELSE j - n + d
  <2> DEFINE l == IF j <= start THEN j ELSE j - n + d
  <2>1. l \in 1 .. k
    BY <1>1, <1>2, <1>3, <1>5
  <2>2. x[l] = x[i]
    <3>1. j <= start \/ ~(j <= start + n)
      BY <1>1, <1>3, <1>5, <1>2
    <3>2. j <= start => z[j] = x[j]
      BY <1>3
    <3>3. ~(j <= start) /\ ~(j <= start + n) => z[j] = x[j - n + d]
      BY <1>3
    <3> QED BY <3>1, <3>2, <3>3
  <2> HIDE DEF l
  <2>3. l = i
    BY <1>1, <2>1, <2>2, SameIndex DEF k
  <2> QED BY <2>3 DEF l
<1>7. j \in Nat
  BY <1>1, <1>2, <1>3
<1>8. /\ q \in Nat
      /\ p >= end => q = p - d + n
      /\ p > start /\ p < end => q \in start .. start + n
      /\ p <= start => q = p
  BY DEF Resettled, d, n
<1>9. CASE j <= start
  BY <1>1, <1>2, <1>6, <1>7, <1>8, <1>9
<1>10. CASE j > start + n
  <2>1. i = j - n + d /\ i > end
    BY <1>1, <1>2, <1>6, <1>7, <1>10
  <2>2. CASE p >= end
    BY <1>1, <1>2, <1>7, <1>8, <1>10, <2>1, <2>2
  <2>3. CASE p < end /\ p > start
    BY <1>1, <1>2, <1>7, <1>8, <1>10, <2>1, <2>3
  <2>4. CASE p <= start
    BY <1>1, <1>2, <1>7, <1>8, <1>10, <2>1, <2>4
  <2> QED BY <1>1, <2>2, <2>3, <2>4
<1> QED BY <1>1, <1>5, <1>7, <1>9, <1>10

-----------------------------------------------------------------------------
(* An edit leaves every place between the characters it was between.       *)

AllAlong(c, b) ==
    /\ \A m \in Markers : Along(b.text, c.text, b.mark[m].pos, c.mark[m].pos)
    /\ \A w \in Views : /\ Along(b.text, c.text, Point(b, w), Point(c, w))
                        /\ Along(b.text, c.text, b.view[w].begv, c.view[w].begv)
                        /\ Along(b.text, c.text, b.view[w].zv, c.view[w].zv)

LEMMA PointAlong ==
    ASSUME NEW b, NEW c, Typed(b), Typed(c), NEW w \in Views,
           Along(b.text, c.text, b.view[w].point, c.view[w].point),
           Along(b.text, c.text, b.view[w].begv, c.view[w].begv),
           Along(b.text, c.text, b.view[w].zv, c.view[w].zv)
    PROVE  Along(b.text, c.text, Point(b, w), Point(c, w))
<1>1. /\ b.view[w].point \in Nat /\ b.view[w].begv \in Nat /\ b.view[w].zv \in Nat
      /\ c.view[w].point \in Nat /\ c.view[w].begv \in Nat /\ c.view[w].zv \in Nat
      /\ b.text \in Seq(Nat) /\ c.text \in Seq(Nat)
  BY ViewFacts, TypedFacts
<1>2. Along(b.text, c.text,
            Min2(Max2(b.view[w].point, b.view[w].begv), b.view[w].zv),
            Min2(Max2(c.view[w].point, c.view[w].begv), c.view[w].zv))
  BY <1>1, AlongClamped
<1> QED BY <1>2 DEF Point, Clamp

\* An insertion at point carries the point of the view to the end of the text
\* inserted, one elsewhere carries it along with the other places.
Carried(b, v, at, s, point) ==
    \/ Shifted(point, b.view[v].point, at, Len(s))
    \/ at = Point(b, v) /\ point = at + Len(s)

LEMMA InsertedAlong ==
    ASSUME NEW b, NEW c, NEW v, NEW at, NEW s, NEW before, NEW point,
           Typed(b), Typed(c), v \in Views, Gap(Nat, b.text, at, s), IsInjective(c.text),
           InsertedIn(c, b, v, at, s, before, point), Carried(b, v, at, s, point)
    PROVE  AllAlong(c, b)
<1> DEFINE n == Len(s)
           Same(p, q) == Along(b.text, c.text, p, q)
<1>1. c.text = Put(b.text, at, s)
  BY DEF InsertedIn
<1>2. n \in Nat /\ at \in Nat
  BY LenProperties DEF Gap
<1>3. ASSUME NEW p \in Nat, NEW q, Shifted(q, p, at, n)
      PROVE  Same(p, q)
  <2>1. IsInjective(c.text) /\ Shifted(q, p, at, Len(s)) /\ Gap(Nat, b.text, at, s)
    BY <1>3
  <2> QED BY <1>1, <2>1, PutAlong
<1>4. \A m \in Markers : Shifted(c.mark[m].pos, b.mark[m].pos, at, n) /\ b.mark[m].pos \in Nat
  BY MarkFacts DEF InsertedIn
<1>5. \A w \in Views : /\ w # v => Shifted(c.view[w].point, b.view[w].point, at, n)
                       /\ Shifted(c.view[w].begv, b.view[w].begv, at, n)
                       /\ Shifted(c.view[w].zv, b.view[w].zv, at, n)
                       /\ b.view[w].zv = at => c.view[w].zv = at + n
                       /\ b.view[w].begv \in Nat /\ b.view[w].zv \in Nat
                       /\ b.view[w].point \in Nat
  BY ViewFacts DEF InsertedIn
<1>6. c.view[v].point = point /\ (b.view[v].begv = at => c.view[v].begv = at)
  BY DEF InsertedIn
<1>7. Shifted(point, b.view[v].point, at, n) \/ (at = Point(b, v) /\ point = at + n)
  BY DEF Carried
<1> HIDE DEF n, Same
<1>8. \A m \in Markers : Same(b.mark[m].pos, c.mark[m].pos)
  BY <1>3, <1>4
<1>9. \A w \in Views : Same(b.view[w].begv, c.view[w].begv) /\ Same(b.view[w].zv, c.view[w].zv)
  BY <1>3, <1>5
<1>10. ASSUME NEW w \in Views, Shifted(c.view[w].point, b.view[w].point, at, n)
       PROVE  Same(Point(b, w), Point(c, w))
  <2>1. Same(b.view[w].point, c.view[w].point)
    BY <1>3, <1>5, <1>10
  <2> QED BY <1>9, <2>1, PointAlong DEF Same
<1>11. CASE Shifted(point, b.view[v].point, at, n)
  <2>1. \A w \in Views : Same(Point(b, w), Point(c, w))
    BY <1>5, <1>6, <1>10, <1>11
  <2> QED BY <1>8, <1>9, <2>1 DEF AllAlong, Same
<1>12. CASE at = Point(b, v) /\ point = at + n
  <2>1. b.view[v].begv <= at /\ at <= b.view[v].zv
    <3>1. b.view[v].point \in Int
      BY <1>5
    <3> QED BY <1>12, <3>1, ClampFacts DEF Point
  <2>2. c.view[v].begv \in Nat /\ c.view[v].begv <= at
    BY <1>2, <1>5, <1>6, <2>1 DEF Shifted
  <2>3. c.view[v].zv \in Nat /\ at + n <= c.view[v].zv
    BY <1>2, <1>5, <2>1 DEF Shifted
  <2>4. Point(c, v) = at + n
    <3> DEFINE f == c.view[v].begv
               g == c.view[v].zv
    <3>1. Point(c, v) = Min2(Max2(at + n, f), g)
      BY <1>6, <1>12 DEF Point, Clamp
    <3>2. f \in Nat /\ g \in Nat /\ f <= at /\ at + n <= g
      BY <2>2, <2>3
    <3> HIDE DEF f, g
    <3>3. Max2(at + n, f) = at + n
      BY <1>2, <3>2 DEF Max2
    <3>4. Min2(at + n, g) = at + n
      BY <1>2, <3>2 DEF Min2
    <3> QED BY <3>1, <3>3, <3>4
  <2>5. Shifted(at + n, at, at, n)
    BY <1>2 DEF Shifted
  <2>6. Same(Point(b, v), Point(c, v))
    BY <1>2, <1>3, <1>12, <2>4, <2>5
  <2>7. \A w \in Views : Same(Point(b, w), Point(c, w))
    BY <1>5, <1>10, <2>6
  <2> QED BY <1>8, <1>9, <2>7 DEF AllAlong, Same
<1> QED BY <1>7, <1>11, <1>12

LEMMA DeletedAlong ==
    ASSUME NEW b, NEW c, NEW start, NEW end, Typed(b), Typed(c),
           Region(Nat, b.text, start, end), IsInjective(b.text), DeletedIn(c, b, start, end)
    PROVE  AllAlong(c, b)
<1> DEFINE Same(p, q) == Along(b.text, c.text, p, q)
<1>1. c.text = Cut(b.text, start, end)
  BY DEF DeletedIn
<1>2. ASSUME NEW p \in Nat, NEW q, Pulled(q, p, start, end)
      PROVE  Same(p, q)
  <2>1. IsInjective(b.text) /\ Pulled(q, p, start, end) /\ Region(Nat, b.text, start, end)
    BY <1>2
  <2> QED BY <1>1, <2>1, CutAlong
<1>3. \A m \in Markers : Pulled(c.mark[m].pos, b.mark[m].pos, start, end) /\ b.mark[m].pos \in Nat
  BY MarkFacts DEF DeletedIn
<1>4. \A w \in Views : /\ Pulled(c.view[w].point, b.view[w].point, start, end)
                       /\ Pulled(c.view[w].begv, b.view[w].begv, start, end)
                       /\ Pulled(c.view[w].zv, b.view[w].zv, start, end)
                       /\ b.view[w].begv \in Nat /\ b.view[w].zv \in Nat
                       /\ b.view[w].point \in Nat
  BY ViewFacts DEF DeletedIn
<1> HIDE DEF Same
<1>5. \A m \in Markers : Same(b.mark[m].pos, c.mark[m].pos)
  BY <1>2, <1>3
<1>6. \A w \in Views : /\ Same(b.view[w].begv, c.view[w].begv)
                       /\ Same(b.view[w].zv, c.view[w].zv)
                       /\ Same(b.view[w].point, c.view[w].point)
  BY <1>2, <1>4
<1>7. \A w \in Views : Same(Point(b, w), Point(c, w))
  BY <1>6, PointAlong DEF Same
<1> QED BY <1>5, <1>6, <1>7 DEF AllAlong, Same

LEMMA SwappedInAlong ==
    ASSUME NEW b, NEW c, NEW start, NEW end, NEW s, Typed(b), Typed(c),
           Region(Nat, b.text, start, end), start < end, s \in Seq(Nat),
           \A m \in 1 .. Len(s) : s[m] \notin Range(b.text),
           IsInjective(b.text), IsInjective(c.text), SwappedIn(c, b, start, end, s)
    PROVE  AllAlong(c, b)
<1> DEFINE Same(p, q) == Along(b.text, c.text, p, q)
           n == Len(s)
<1>1. c.text = Swapped(b.text, start, end, s)
  BY DEF SwappedIn
<1>2. ASSUME NEW p \in Nat, NEW q, Resettled(q, p, start, end, n)
      PROVE  Same(p, q)
  <2>1. Resettled(q, p, start, end, Len(s))
    BY <1>2
  <2> HIDE DEF Same, n
  <2>2. Along(b.text, c.text, p, q)
    BY <1>1, <2>1, SwappedAlong
  <2> QED BY <2>2 DEF Same
<1>3. \A m \in Markers : Resettled(c.mark[m].pos, b.mark[m].pos, start, end, n)
                           /\ b.mark[m].pos \in Nat
  BY MarkFacts DEF SwappedIn
<1>4. \A w \in Views : /\ Resettled(c.view[w].point, b.view[w].point, start, end, n)
                       /\ Resettled(c.view[w].begv, b.view[w].begv, start, end, n)
                       /\ Resettled(c.view[w].zv, b.view[w].zv, start, end, n)
                       /\ b.view[w].begv \in Nat /\ b.view[w].zv \in Nat
                       /\ b.view[w].point \in Nat
  BY ViewFacts DEF SwappedIn
<1> HIDE DEF Same, n
<1>5. \A m \in Markers : Same(b.mark[m].pos, c.mark[m].pos)
  BY <1>2, <1>3
<1>6. \A w \in Views : /\ Same(b.view[w].begv, c.view[w].begv)
                       /\ Same(b.view[w].zv, c.view[w].zv)
                       /\ Same(b.view[w].point, c.view[w].point)
  BY <1>2, <1>4
<1>7. \A w \in Views : Same(Point(b, w), Point(c, w))
  BY <1>6, PointAlong DEF Same
<1> QED BY <1>5, <1>6, <1>7 DEF AllAlong, Same

-----------------------------------------------------------------------------
(* What is inserted is shown.                                              *)

LEMMA InsertedShown ==
    ASSUME NEW b, NEW c, NEW v, NEW at, NEW s, NEW before, NEW point,
           Typed(b), Typed(c), v \in Views, Gap(Nat, b.text, at, s),
           InsertedIn(c, b, v, at, s, before, point),
           b.view[v].begv <= at, at <= b.view[v].zv
    PROVE  Range(c.text) \ Range(b.text) \subseteq Shown(c, v)
<1> DEFINE x == b.text
           z == c.text
           n == Len(s)
           k == Len(x)
<1>1. /\ x \in Seq(Nat) /\ s \in Seq(Nat) /\ at \in Nat /\ at <= k /\ n \in Nat /\ k \in Nat
      /\ IsPut(Nat, z, x, at, s)
  BY LenProperties, PutFacts DEF Gap, InsertedIn
<1>2. /\ z \in Seq(Nat) /\ Len(z) = k + n
      /\ \A j \in 1 .. k + n : z[j] = IF j <= at THEN x[j]
                                      ELSE IF j <= at + n THEN s[j - at] ELSE x[j - n]
  BY <1>1 DEF IsPut
<1>3. c.view[v].begv \in Nat /\ c.view[v].zv \in Nat
      /\ c.view[v].begv <= at /\ at + n <= c.view[v].zv
  <2>1. /\ b.view[v].begv \in Nat /\ b.view[v].zv \in Nat
        /\ Shifted(c.view[v].begv, b.view[v].begv, at, n)
        /\ Shifted(c.view[v].zv, b.view[v].zv, at, n)
        /\ b.view[v].zv = at => c.view[v].zv = at + n
        /\ b.view[v].begv = at => c.view[v].begv = at
    BY ViewFacts DEF InsertedIn
  <2> HIDE DEF n
  <2> QED BY <1>1, <2>1 DEF Shifted
<1> SUFFICES ASSUME NEW d \in Range(z), d \notin Range(x)
             PROVE  d \in Shown(c, v)
  OBVIOUS
<1>4. PICK j \in 1 .. k + n : z[j] = d
  BY <1>2, RangeEquality
<1>5. \A i \in 1 .. k : x[i] \in Range(x)
  BY <1>1, RangeEquality
<1> HIDE DEF x, z, n, k
<1>6. j > at /\ j <= at + n
  <2>1. CASE j <= at
    <3>1. z[j] = x[j] /\ j \in 1 .. k
      BY <1>1, <1>2, <2>1
    <3> QED BY <1>4, <1>5, <3>1
  <2>2. CASE j > at + n
    <3> DEFINE i == j - n
    <3>1. z[j] = x[i]
      BY <1>1, <1>2, <2>2
    <3>2. i \in 1 .. k
      BY <1>1, <2>2
    <3> HIDE DEF i
    <3> QED BY <1>4, <1>5, <3>1, <3>2
  <2> QED BY <1>1, <2>1, <2>2
<1>7. j \in c.view[v].begv + 1 .. c.view[v].zv
  BY <1>1, <1>3, <1>6
<1> QED BY <1>4, <1>7 DEF Shown, z

LEMMA DeletedShown ==
    ASSUME NEW b, NEW c, NEW start, NEW end, Region(Nat, b.text, start, end),
           DeletedIn(c, b, start, end)
    PROVE  Range(c.text) \subseteq Range(b.text)
<1> DEFINE x == b.text
           z == c.text
           k == Len(x)
           d == end - start
<1>1. /\ x \in Seq(Nat) /\ start \in Nat /\ end \in Nat /\ start <= end /\ end <= k /\ k \in Nat
      /\ IsCut(Nat, z, x, start, end)
  BY LenProperties, CutFacts DEF Region, DeletedIn
<1>2. /\ z \in Seq(Nat) /\ Len(z) = k - d
      /\ \A j \in 1 .. k - d : z[j] = x[IF j <= start THEN j ELSE j + d]
  BY <1>1 DEF IsCut
<1>3. d \in Nat /\ k - d \in Nat /\ \A j \in 1 .. k - d : j \in 1 .. k /\ j + d \in 1 .. k
  BY <1>1
<1>4. \A i \in 1 .. k : x[i] \in Range(x)
  BY <1>1, RangeEquality
<1>5. Range(z) = {z[j] : j \in 1 .. k - d}
  BY <1>2, RangeEquality
<1> HIDE DEF x, z, k, d
<1>6. \A j \in 1 .. k - d : z[j] \in Range(x)
  BY <1>2, <1>3, <1>4
<1> QED BY <1>5, <1>6 DEF x, z

LEMMA SwappedShown ==
    ASSUME NEW b, NEW c, NEW v \in Views, NEW start, NEW end, NEW s, Typed(b), Typed(c),
           Region(Nat, b.text, start, end), s \in Seq(Nat), SwappedIn(c, b, start, end, s),
           b.view[v].begv <= start, end <= b.view[v].zv
    PROVE  Range(c.text) \ Range(b.text) \subseteq Shown(c, v)
<1> DEFINE x == b.text
           z == c.text
           k == Len(x)
           n == Len(s)
           e == end - start
<1>1. /\ x \in Seq(Nat) /\ start \in Nat /\ end \in Nat /\ start <= end /\ end <= k /\ k \in Nat
      /\ n \in Nat /\ IsSwapped(Nat, z, x, start, end, s)
  <2>1. z = Swapped(x, start, end, s)
    BY DEF SwappedIn
  <2>2. IsSwapped(Nat, Swapped(x, start, end, s), x, start, end, s)
    BY SwappedFacts
  <2> HIDE DEF z
  <2> QED BY <2>1, <2>2, LenProperties DEF Region
<1> HIDE DEF k
<1>2. e \in Nat /\ k - e \in Nat /\ k = (k - e) + e /\ end = start + e
  BY <1>1
<1>3. /\ z \in Seq(Nat) /\ Len(z) = (k - e) + n
      /\ \A j \in 1 .. (k - e) + n :
            z[j] = IF j <= start THEN x[j]
                   ELSE IF j <= start + n THEN s[j - start] ELSE x[j - n + e]
  BY <1>1 DEF IsSwapped, k
<1>4. c.view[v].begv \in Nat /\ c.view[v].zv \in Nat
      /\ c.view[v].begv <= start /\ start + n <= c.view[v].zv
  <2>1. /\ b.view[v].begv \in Nat /\ b.view[v].zv \in Nat
        /\ Resettled(c.view[v].begv, b.view[v].begv, start, end, n)
        /\ Resettled(c.view[v].zv, b.view[v].zv, start, end, n)
    BY ViewFacts DEF SwappedIn
  <2> HIDE DEF n, e, k
  <2>2. c.view[v].begv \in Nat /\ c.view[v].begv <= start
    BY <1>1, <2>1 DEF Resettled
  <2>3. c.view[v].zv = b.view[v].zv - (end - start) + n /\ c.view[v].zv \in Nat
    BY <2>1 DEF Resettled
  <2> QED BY <1>1, <2>1, <2>2, <2>3
<1> SUFFICES ASSUME NEW d \in Range(z), d \notin Range(x)
             PROVE  d \in Shown(c, v)
  OBVIOUS
<1>5. PICK j \in 1 .. (k - e) + n : z[j] = d
  <2>1. Range(z) = {z[l] : l \in 1 .. Len(z)}
    BY <1>3, RangeEquality
  <2> HIDE DEF z, x, n, e
  <2> QED BY <1>3, <2>1
<1>6. \A i \in 1 .. k : x[i] \in Range(x)
  BY <1>1, RangeEquality DEF k
<1> HIDE DEF x, z, n, k, e
<1>7. j > start /\ j <= start + n
  <2>1. CASE j <= start
    <3>1. z[j] = x[j] /\ j \in 1 .. k
      BY <1>1, <1>2, <1>3, <2>1
    <3> QED BY <1>5, <1>6, <3>1
  <2>2. CASE j > start + n
    <3> DEFINE i == j - n + e
    <3>1. z[j] = x[i]
      BY <1>1, <1>3, <2>2
    <3>2. i \in 1 .. k
      BY <1>1, <1>2, <2>2
    <3> HIDE DEF i
    <3> QED BY <1>5, <1>6, <3>1, <3>2
  <2> QED BY <1>1, <1>2, <2>1, <2>2
<1>8. j \in c.view[v].begv + 1 .. c.view[v].zv
  <2> DEFINE f == c.view[v].begv
             g == c.view[v].zv
  <2>1. f \in Nat /\ g \in Nat /\ f <= start /\ start + n <= g
    BY <1>4
  <2> HIDE DEF f, g
  <2>2. j \in Nat
    BY <1>1, <1>2
  <2>3. j \in f + 1 .. g
    BY <1>1, <1>7, <2>1, <2>2
  <2> QED BY <2>3 DEF f, g
<1> QED BY <1>5, <1>8 DEF Shown, z

\* A transposition does not leave the characters in their order.
LEMMA TransposedOrder ==
    ASSUME NEW x, NEW s1, NEW e1, NEW s2, NEW e2, Regions(Nat, x, s1, e1, s2, e2),
           NEW z, z = Transposed(x, s1, e1, s2, e2), IsInjective(x), IsInjective(z)
    PROVE  \E c, d \in Range(x) \cap Range(z) :
             IndexOf(c, x) < IndexOf(d, x) /\ ~(IndexOf(c, z) < IndexOf(d, z))
<1>1. /\ x \in Seq(Nat) /\ Len(x) \in Nat /\ s1 \in Nat /\ e1 \in Nat /\ s2 \in Nat /\ e2 \in Nat
      /\ s1 < e1 /\ e1 <= s2 /\ s2 < e2 /\ e2 <= Len(x)
  BY LenProperties DEF Regions
<1>2. z \in Seq(Nat) /\ Len(z) = Len(x)
  BY TransposedFacts DEF IsTransposed
<1> DEFINE i == s1 + 1
           j == s2 + 1
           k == s1 + 1 + (e2 - e1)
<1>3. z[i] = x[j] /\ z[k] = x[i]
  BY TransposedOutside
<1>4. /\ i \in 1 .. Len(x) /\ j \in 1 .. Len(x) /\ k \in 1 .. Len(x)
      /\ i < j /\ i < k /\ ~(k < i)
  BY <1>1
<1> HIDE DEF i, j, k
<1>5. /\ IndexOf(x[i], x) = i /\ x[i] \in Range(x)
      /\ IndexOf(x[j], x) = j /\ x[j] \in Range(x)
  BY <1>1, <1>4, IndexFacts
<1>6. i \in 1 .. Len(z) /\ k \in 1 .. Len(z)
  BY <1>2, <1>4
<1>7. /\ IndexOf(z[i], z) = i /\ z[i] \in Range(z)
      /\ IndexOf(z[k], z) = k /\ z[k] \in Range(z)
  BY <1>2, <1>6, IndexFacts
<1> QED BY <1>3, <1>4, <1>5, <1>7

-----------------------------------------------------------------------------
(* Every step that edits the text.                                         *)

Kept == /\ AllAlong(buf', buf)
        /\ Range(buf'.text) \ Range(buf.text) \subseteq Shown(buf', current)

LEMMA InsertKept ==
    ASSUME IInv, NEW before \in BOOLEAN, Insert(before), IsInjective(buf'.text)
    PROVE  Kept
<1> DEFINE at == Point(buf, current)
           s == <<Fresh>>
<1>1. Typed(buf) /\ current \in Views
  BY CurrentFacts
<1>2. s \in Seq(Nat) /\ Len(s) = 1
  BY <1>1, FreshFacts
<1>3. Typed(buf') /\ InsertedIn(buf', buf, current, at, s, before, at + 1)
  BY InsertMade DEF Recorded
<1>4. /\ at \in Nat /\ at <= Len(buf.text)
      /\ buf.view[current].begv <= at /\ at <= buf.view[current].zv
  <2>1. buf.view[current].point \in Int
    BY <1>1, ViewFacts
  <2> QED BY <1>1, <2>1, ClampFacts DEF Point
<1>5. Gap(Nat, buf.text, at, s)
  <2>1. buf.text \in Seq(Nat)
    BY <1>1, TypedFacts
  <2> QED BY <1>2, <1>4, <2>1 DEF Gap
<1>6. Carried(buf, current, at, s, at + 1)
  BY <1>2 DEF Carried
<1> HIDE DEF at, s
<1>7. AllAlong(buf', buf)
  BY <1>1, <1>3, <1>5, <1>6, InsertedAlong
<1>8. Range(buf'.text) \ Range(buf.text) \subseteq Shown(buf', current)
  BY <1>1, <1>3, <1>4, <1>5, InsertedShown
<1> QED BY <1>7, <1>8 DEF Kept

LEMMA InsertElsewhereKept ==
    ASSUME IInv, NEW at \in Accessible, InsertElsewhere(at), IsInjective(buf'.text)
    PROVE  Kept
<1> DEFINE s == <<Fresh>>
<1>1. Typed(buf) /\ current \in Views
  BY CurrentFacts
<1>2. s \in Seq(Nat) /\ Len(s) = 1
  BY <1>1, FreshFacts
<1>3. /\ Typed(buf')
      /\ \E point : /\ Shifted(point, buf.view[current].point, at, 1)
                    /\ InsertedIn(buf', buf, current, at, s, FALSE, point)
  BY InsertElsewhereMade DEF Recorded
<1> HIDE DEF s
<1>4. PICK point : /\ Shifted(point, buf.view[current].point, at, 1)
                   /\ InsertedIn(buf', buf, current, at, s, FALSE, point)
  BY <1>3
<1>5. /\ at \in Nat /\ at <= Len(buf.text)
      /\ buf.view[current].begv <= at /\ at <= buf.view[current].zv
  <2>1. /\ buf.view[current].begv \in Nat /\ buf.view[current].zv \in Nat
        /\ buf.view[current].zv <= Len(buf.text) /\ Len(buf.text) \in Nat
    BY <1>1, ViewFacts
  <2> QED BY <2>1 DEF Accessible
<1>6. Gap(Nat, buf.text, at, s)
  <2>1. buf.text \in Seq(Nat)
    BY <1>1, TypedFacts
  <2> QED BY <1>2, <1>5, <2>1 DEF Gap
<1>7. Carried(buf, current, at, s, point)
  BY <1>2, <1>4 DEF Carried
<1>8. AllAlong(buf', buf)
  BY <1>1, <1>3, <1>4, <1>6, <1>7, InsertedAlong
<1>9. Range(buf'.text) \ Range(buf.text) \subseteq Shown(buf', current)
  BY <1>1, <1>3, <1>4, <1>5, <1>6, InsertedShown
<1> QED BY <1>8, <1>9 DEF Kept

LEMMA DeleteKept ==
    ASSUME IInv, NEW start \in Accessible, NEW end \in Accessible, Delete(start, end),
           IsInjective(buf.text)
    PROVE  Kept
<1>1. Typed(buf) /\ current \in Views
  BY CurrentFacts
<1>2. Typed(buf') /\ Region(Nat, buf.text, start, end) /\ DeletedIn(buf', buf, start, end)
  BY DeleteMade DEF Recorded
<1>3. AllAlong(buf', buf)
  BY <1>1, <1>2, DeletedAlong
<1>4. Range(buf'.text) \subseteq Range(buf.text)
  BY <1>2, DeletedShown
<1> QED BY <1>3, <1>4 DEF Kept

LEMMA ReplaceKept ==
    ASSUME IInv, NEW start \in Accessible, NEW end \in Accessible, Replace(start, end),
           IsInjective(buf.text), IsInjective(buf'.text)
    PROVE  Kept
<1> DEFINE s == <<Fresh>>
<1>1. Typed(buf) /\ current \in Views
  BY CurrentFacts
<1>2. s \in Seq(Nat) /\ \A m \in 1 .. Len(s) : s[m] \notin Range(buf.text)
  <2>1. Fresh \notin Range(buf.text) /\ s \in Seq(Nat) /\ Len(s) = 1 /\ s[1] = Fresh
    BY <1>1, FreshFacts
  <2> HIDE DEF s
  <2> QED BY <2>1
<1>3. /\ Typed(buf') /\ Region(Nat, buf.text, start, end) /\ start < end
      /\ SwappedIn(buf', buf, start, end, s)
  BY ReplaceMade DEF Recorded
<1> HIDE DEF s
<1>4. buf.view[current].begv <= start /\ end <= buf.view[current].zv
  <2>1. buf.view[current].begv \in Nat /\ buf.view[current].zv \in Nat
    BY <1>1, ViewFacts
  <2> QED BY <2>1 DEF Accessible
<1>5. AllAlong(buf', buf)
  BY <1>1, <1>2, <1>3, SwappedInAlong
<1>6. Range(buf'.text) \ Range(buf.text) \subseteq Shown(buf', current)
  BY <1>1, <1>2, <1>3, <1>4, SwappedShown
<1> QED BY <1>5, <1>6 DEF Kept

LEMMA NoTransposition ==
    ASSUME IInv, NEW s1 \in Accessible, NEW e1 \in Accessible, NEW s2 \in Accessible,
           NEW e2 \in Accessible, Transpose(s1, e1, s2, e2),
           IsInjective(buf.text), IsInjective(buf'.text)
    PROVE  ~InOrder
<1>1. Regions(Nat, buf.text, s1, e1, s2, e2)
      /\ buf'.text = Transposed(buf.text, s1, e1, s2, e2)
  BY TransposeMade
<1>2. \E c, d \in Range(buf.text) \cap Range(buf'.text) :
         /\ IndexOf(c, buf.text) < IndexOf(d, buf.text)
         /\ ~(IndexOf(c, buf'.text) < IndexOf(d, buf'.text))
  BY <1>1, TransposedOrder
<1> QED BY <1>2, Zenon DEF InOrder, Survivors

LEMMA EditKept ==
    ASSUME IInv, Next, Edit
    PROVE  Kept
<1>1. /\ IsInjective(buf.text) /\ IsInjective(buf'.text) /\ InOrder
      /\ buf'.text # buf.text /\ goal' = None
  BY DEF Edit
<1>2. CASE \E before \in BOOLEAN : Insert(before)
  BY <1>1, <1>2, InsertKept
<1>3. CASE \E at \in Accessible : InsertElsewhere(at)
  BY <1>1, <1>3, InsertElsewhereKept
<1>4. CASE \E start, end \in Accessible : Delete(start, end)
  BY <1>1, <1>4, DeleteKept
<1>5. CASE \E start, end \in Accessible : Replace(start, end)
  BY <1>1, <1>5, ReplaceKept
<1>6. CASE \E s1, e1, s2, e2 \in Accessible : Transpose(s1, e1, s2, e2)
  BY <1>1, <1>6, NoTransposition
<1>7. CASE Quietly
  BY <1>1, <1>7, QuietStep
<1>8. CASE Undo
  BY <1>1, <1>8, UndoStep
<1> QED BY <1>2, <1>3, <1>4, <1>5, <1>6, <1>7, <1>8 DEF Next, Quietly

\* An edit through one view leaves the markers, and the point and narrowing of
\* every view, between the characters they were between, for texts of distinct
\* characters: insert, delete and replace move the places of all the views.
THEOREM PlacesAreKept == Spec => PlacesKept
<1> DEFINE Stay == /\ \A m \in Markers : SamePlace(buf.mark[m].pos, buf'.mark[m].pos)
                   /\ \A v \in Views : /\ SamePlace(Point(buf, v), Point(buf', v))
                                        /\ SamePlace(buf.view[v].begv, buf'.view[v].begv)
                                        /\ SamePlace(buf.view[v].zv, buf'.view[v].zv)
<1>1. ASSUME IInv, IInv', Next, Edit PROVE Stay
  <2>1. buf.text \in Seq(Nat) /\ buf'.text \in Seq(Nat)
    BY <1>1, TypedFacts DEF IInv
  <2>2. AllAlong(buf', buf)
    BY <1>1, EditKept DEF Kept
  <2>3. \A m \in Markers : SamePlace(buf.mark[m].pos, buf'.mark[m].pos)
    BY <2>1, <2>2, AlongTheSame DEF AllAlong, SamePlace, Survivors
  <2>4. \A v \in Views : /\ SamePlace(Point(buf, v), Point(buf', v))
                         /\ SamePlace(buf.view[v].begv, buf'.view[v].begv)
                         /\ SamePlace(buf.view[v].zv, buf'.view[v].zv)
    BY <2>1, <2>2, AlongTheSame DEF AllAlong, SamePlace, Survivors
  <2> QED BY <2>3, <2>4
<1>2. IInv /\ IInv' /\ [Next]_vars => [Edit => Stay]_vars
  BY <1>1
<1>3. Spec => []IInv
  BY Invariant
<1> QED BY <1>2, <1>3, PTL DEF Spec, PlacesKept

\* What is inserted through a narrowed view, at its start or its end too, is
\* in its narrowing afterwards.
THEOREM InsertionsAreShown == Spec => EditsStayVisible
<1> DEFINE Show == Range(buf'.text) \ Range(buf.text) \subseteq Shown(buf', current)
<1>1. ASSUME IInv, Next, Edit PROVE Show
  BY <1>1, EditKept DEF Kept
<1>2. IInv /\ [Next]_vars => [Edit => Show]_vars
  BY <1>1
<1>3. Spec => []IInv
  BY Invariant
<1> QED BY <1>2, <1>3, PTL DEF Spec, EditsStayVisible
=============================================================================
