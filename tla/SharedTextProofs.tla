-------------------------- MODULE SharedTextProofs --------------------------
(***************************************************************************)
(* Proofs about the gap buffer alone, and about the gap buffer with an     *)
(* incremental parser, for all characters, texts, regions, edits and sizes *)
(* of the gap.  The count of bytes is exact and never exceeds the slots,   *)
(* and the buffer implements a plain text; sharing changes nothing of      *)
(* that, and the parser's text is always that of its region.  No induction *)
(* over texts is needed, because the bytes of a text are counted as a      *)
(* cardinality.                                                            *)
(***************************************************************************)
EXTENDS SharedText, FiniteSetTheorems, TLAPS

-----------------------------------------------------------------------------
(***************************************************************************)
(* Bytes of texts.                                                         *)
(***************************************************************************)

\* A character has one to five bytes.
LEMMA WidthType ==
    ASSUME NEW c \in Chars, NEW mb \in BOOLEAN
    PROVE  StorageBytes(c, mb) \in 1 .. 5
<1>1. StorageBytes(c, mb) \in {1, 2, 3, 4, 5}
    BY Zenon DEF StorageBytes
<1> QED
    BY <1>1

\* A text is finite, so that its bytes can be counted.
LEMMA CellsFinite ==
    ASSUME NEW t, NEW a \in Int, NEW b \in Int, NEW mb
    PROVE  IsFiniteSet(Cells(t, a, b, mb)) /\ TextBytes(t, a, b, mb) \in Nat
<1>1. IsFiniteSet(a .. (b - 1)) /\ IsFiniteSet(1 .. 5)
  <2>1. b - 1 \in Int /\ 1 \in Int /\ 5 \in Int
    OBVIOUS
  <2> QED
    BY <2>1, FS_Interval
<1>2. IsFiniteSet((a .. (b - 1)) \X (1 .. 5))
    BY <1>1, FS_Product
<1>3. Cells(t, a, b, mb) \in SUBSET ((a .. (b - 1)) \X (1 .. 5))
    BY DEF Cells
<1>4. IsFiniteSet(Cells(t, a, b, mb))
    BY <1>2, <1>3, FS_Subset
<1> QED
    BY <1>4, FS_CardinalityType DEF TextBytes

\* The bytes of two pieces of a text are those of the two together.
LEMMA BytesSplit ==
    ASSUME NEW t, NEW a \in Int, NEW m \in Int, NEW b \in Int, NEW mb, a <= m, m <= b
    PROVE  TextBytes(t, a, b, mb) = TextBytes(t, a, m, mb) + TextBytes(t, m, b, mb)
<1> DEFINE S == Cells(t, a, m, mb)
           T == Cells(t, m, b, mb)
<1>1. Cells(t, a, b, mb) = S \cup T
    BY DEF Cells
<1>2. S \cap T = {}
    BY DEF Cells
<1>3. IsFiniteSet(S) /\ IsFiniteSet(T) /\ Cardinality(S) \in Nat /\ Cardinality(T) \in Nat
    BY CellsFinite DEF TextBytes
<1> HIDE DEF S, T
<1>4. Cardinality(S \cup T) = Cardinality(S) + Cardinality(T) - Cardinality(S \cap T)
    BY <1>3, FS_Union
<1>5. Cardinality(S \cap T) = 0
    BY <1>2, FS_EmptySet
<1>6. Cardinality(S \cup T) = Cardinality(S) + Cardinality(T)
    BY <1>3, <1>4, <1>5
<1> QED
    BY <1>1, <1>6 DEF TextBytes, S, T

\* A piece of text has the same bytes wherever it stands.
LEMMA BytesShift ==
    ASSUME NEW t, NEW u, NEW a \in Int, NEW b \in Int, NEW c \in Int, NEW e \in Int, NEW mb,
           e - c = b - a,
           \A i \in a .. (b - 1) : u[i + (c - a)] = t[i]
    PROVE  TextBytes(u, c, e, mb) = TextBytes(t, a, b, mb)
<1> DEFINE d == c - a
           S == Cells(t, a, b, mb)
           T == Cells(u, c, e, mb)
           f == [cell \in S |-> <<cell[1] + d, cell[2]>>]
<1>1. f \in [S -> T]
    BY DEF Cells
<1>2. \A x, y \in S : f[x] = f[y] => x = y
    BY DEF Cells
<1>3. \A y \in T : \E x \in S : f[x] = y
  <2> SUFFICES ASSUME NEW y \in T
               PROVE  \E x \in S : f[x] = y
    OBVIOUS
  <2>1. y \in (c .. (e - 1)) \X (1 .. 5) /\ y[2] <= StorageBytes(u[y[1]], mb)
    BY DEF Cells
  <2>2. y[1] - d \in a .. (b - 1) /\ u[y[1]] = t[y[1] - d]
    BY <2>1
  <2>3. <<y[1] - d, y[2]>> \in S
    BY <2>1, <2>2 DEF Cells
  <2>4. f[<<y[1] - d, y[2]>>] = y
    BY <2>1, <2>3
  <2> QED
    BY <2>3, <2>4
<1>4. f \in Bijection(S, T)
    BY <1>1, <1>2, <1>3 DEF Bijection, Injection, Surjection, IsInjective
<1>5. IsFiniteSet(S)
    BY CellsFinite
<1> HIDE DEF S, T, f
<1>6. Cardinality(T) = Cardinality(S)
    BY <1>4, <1>5, FS_Bijection DEF ExistsBijection
<1> QED
    BY <1>6 DEF TextBytes, S, T

\* Every character has at least one.
LEMMA BytesAtLeast ==
    ASSUME NEW t, NEW a \in Int, NEW b \in Int, NEW mb \in BOOLEAN, a <= b,
           \A i \in a .. (b - 1) : t[i] \in Chars
    PROVE  TextBytes(t, a, b, mb) >= b - a
<1> DEFINE S == a .. (b - 1)
           T == Cells(t, a, b, mb)
           f == [i \in S |-> <<i, 1>>]
<1>1. \A i \in S : 1 <= StorageBytes(t[i], mb)
    BY WidthType
<1>2. f \in [S -> T]
    BY <1>1 DEF Cells
<1>3. f \in Injection(S, T)
    BY <1>2 DEF Injection, IsInjective
<1>4. IsFiniteSet(T) /\ Cardinality(T) \in Nat
    BY CellsFinite DEF TextBytes
<1>5. Cardinality(S) <= Cardinality(T)
    BY <1>3, <1>4, FS_Injection
<1>6. Cardinality(S) = b - a
    BY FS_Interval
<1> QED
    BY <1>4, <1>5, <1>6 DEF TextBytes

\* No characters, no bytes.
LEMMA BytesNone ==
    ASSUME NEW t, NEW a \in Int, NEW mb
    PROVE  TextBytes(t, a, a, mb) = 0
<1>1. Cells(t, a, a, mb) = {}
    BY DEF Cells
<1> QED
    BY <1>1, FS_EmptySet DEF TextBytes

\* One character, its bytes.
LEMMA BytesOne ==
    ASSUME NEW t, NEW a \in Int, NEW mb \in BOOLEAN, t[a] \in Chars
    PROVE  TextBytes(t, a, a + 1, mb) = StorageBytes(t[a], mb)
<1> DEFINE w == StorageBytes(t[a], mb)
           S == 1 .. w
           T == Cells(t, a, a + 1, mb)
           f == [k \in S |-> <<a, k>>]
<1>1. w \in 1 .. 5
    BY WidthType
<1> HIDE DEF w
<1>2. T = {cell \in {a} \X (1 .. 5) : cell[2] <= w}
    BY DEF Cells, w
<1>3. f \in [S -> T] /\ \A x, y \in S : f[x] = f[y] => x = y
    BY <1>1, <1>2
<1>4. \A y \in T : \E k \in S : f[k] = y
    BY <1>1, <1>2
<1>5. f \in Bijection(S, T)
    BY <1>3, <1>4 DEF Bijection, Injection, Surjection, IsInjective
<1>6. IsFiniteSet(S) /\ Cardinality(S) = w
  <2>1. 1 \in Int /\ w \in Int /\ ~(1 > w) /\ w - 1 + 1 = w
    BY <1>1
  <2>2. IsFiniteSet(1 .. w) /\ Cardinality(1 .. w) = IF 1 > w THEN 0 ELSE w - 1 + 1
    BY <2>1, FS_Interval
  <2> QED
    BY <2>1, <2>2
<1> HIDE DEF S, T, f
<1>7. Cardinality(T) = w
    BY <1>5, <1>6, FS_Bijection DEF ExistsBijection
<1> QED
    BY <1>7 DEF TextBytes, T, w

\* What is put in adds its bytes.
LEMMA InsertedBytes ==
    ASSUME NEW t, NEW n \in Nat, NEW s, NEW m \in Nat, NEW pos \in 0 .. n, NEW mb,
           NEW len, len = n + m
    PROVE  TextBytes(Plain!Inserted(t, n, pos, m, s), 0, len, mb)
             = TextBytes(t, 0, n, mb) + TextBytes(s, 0, m, mb)
<1> DEFINE u == Plain!Inserted(t, n, pos, m, s)
<1>1. /\ \A i \in 0 .. (pos - 1) : u[i] = t[i]
      /\ \A i \in 0 .. (m - 1) : u[i + pos] = s[i]
      /\ \A i \in pos .. (n - 1) : u[i + m] = t[i]
  <2>1. \A i \in 0 .. (pos - 1) : u[i] = t[i]
    BY DEF Plain!Inserted, Plain!Slots
  <2>2. \A i \in 0 .. (m - 1) : u[i + pos] = s[i]
    BY DEF Plain!Inserted, Plain!Slots
  <2>3. \A i \in pos .. (n - 1) : u[i + m] = t[i]
    BY DEF Plain!Inserted, Plain!Slots
  <2> QED
    BY <2>1, <2>2, <2>3
<1> HIDE DEF u
<1>2. /\ TextBytes(u, 0, pos, mb) = TextBytes(t, 0, pos, mb)
      /\ TextBytes(u, pos, pos + m, mb) = TextBytes(s, 0, m, mb)
      /\ TextBytes(u, pos + m, n + m, mb) = TextBytes(t, pos, n, mb)
    BY <1>1, BytesShift
<1>3. /\ TextBytes(t, 0, n, mb) = TextBytes(t, 0, pos, mb) + TextBytes(t, pos, n, mb)
      /\ TextBytes(u, 0, n + m, mb) = TextBytes(u, 0, pos, mb) + TextBytes(u, pos, n + m, mb)
      /\ TextBytes(u, pos, n + m, mb)
            = TextBytes(u, pos, pos + m, mb) + TextBytes(u, pos + m, n + m, mb)
    BY BytesSplit
<1>4. /\ TextBytes(t, 0, pos, mb) \in Nat /\ TextBytes(t, pos, n, mb) \in Nat
      /\ TextBytes(s, 0, m, mb) \in Nat
    BY CellsFinite
<1> QED
    BY <1>2, <1>3, <1>4 DEF u

\* What is deleted takes its bytes with it.
LEMMA DeletedBytes ==
    ASSUME NEW t, NEW n \in Nat, NEW start \in 0 .. n, NEW end \in start .. n, NEW mb,
           NEW len, len = n - (end - start)
    PROVE  TextBytes(Plain!Deleted(t, n, start, end), 0, len, mb)
             = TextBytes(t, 0, n, mb) - TextBytes(t, start, end, mb)
<1> DEFINE u == Plain!Deleted(t, n, start, end)
<1>1. /\ \A i \in 0 .. (start - 1) : u[i] = t[i]
      /\ \A i \in end .. (n - 1) : u[i + (start - end)] = t[i]
    BY DEF Plain!Deleted, Plain!Slots
<1>2. len \in Int /\ len - start = n - end /\ start <= len
    OBVIOUS
<1> HIDE DEF u
<1>3. /\ TextBytes(u, 0, start, mb) = TextBytes(t, 0, start, mb)
      /\ TextBytes(u, start, len, mb) = TextBytes(t, end, n, mb)
  <2>1. TextBytes(u, 0, start, mb) = TextBytes(t, 0, start, mb)
    BY <1>1, BytesShift
  <2>2. start \in Int /\ end \in Int /\ n \in Int
    OBVIOUS
  <2>3. \A i \in end .. (n - 1) : u[i + (start - end)] = t[i]
    BY <1>1
  <2>4. TextBytes(u, start, len, mb) = TextBytes(t, end, n, mb)
    BY <1>2, <2>2, <2>3, BytesShift
  <2> QED
    BY <2>1, <2>4
<1>5. /\ TextBytes(t, 0, n, mb) = TextBytes(t, 0, start, mb) + TextBytes(t, start, n, mb)
      /\ TextBytes(t, start, n, mb) = TextBytes(t, start, end, mb) + TextBytes(t, end, n, mb)
      /\ TextBytes(u, 0, len, mb) = TextBytes(u, 0, start, mb) + TextBytes(u, start, len, mb)
    BY <1>2, BytesSplit
<1>6. /\ TextBytes(t, 0, start, mb) \in Nat /\ TextBytes(t, start, end, mb) \in Nat
      /\ TextBytes(t, end, n, mb) \in Nat
    BY CellsFinite
<1> QED
    BY <1>2, <1>3, <1>5, <1>6 DEF u

\* Overwriting exchanges the bytes of the one for those of the other.
LEMMA OverwrittenBytes ==
    ASSUME NEW t, NEW n \in Nat, NEW m \in Nat, NEW start \in 0 .. (n - m), NEW s, NEW mb,
           NEW end, end = start + m
    PROVE  TextBytes(Plain!Overwritten(t, n, start, m, s), 0, n, mb)
             = TextBytes(t, 0, n, mb) - TextBytes(t, start, end, mb) + TextBytes(s, 0, m, mb)
<1> DEFINE u == Plain!Overwritten(t, n, start, m, s)
<1>1. /\ \A i \in 0 .. (start - 1) : u[i] = t[i]
      /\ \A i \in 0 .. (m - 1) : u[i + start] = s[i]
      /\ \A i \in (start + m) .. (n - 1) : u[i] = t[i]
    BY DEF Plain!Overwritten, Plain!Slots
<1> HIDE DEF u
<1>2. /\ TextBytes(u, 0, start, mb) = TextBytes(t, 0, start, mb)
      /\ TextBytes(u, start, start + m, mb) = TextBytes(s, 0, m, mb)
      /\ TextBytes(u, start + m, n, mb) = TextBytes(t, start + m, n, mb)
    BY <1>1, BytesShift
<1>3. /\ TextBytes(t, 0, n, mb) = TextBytes(t, 0, start, mb) + TextBytes(t, start, n, mb)
      /\ TextBytes(t, start, n, mb)
            = TextBytes(t, start, start + m, mb) + TextBytes(t, start + m, n, mb)
      /\ TextBytes(u, 0, n, mb) = TextBytes(u, 0, start, mb) + TextBytes(u, start, n, mb)
      /\ TextBytes(u, start, n, mb)
            = TextBytes(u, start, start + m, mb) + TextBytes(u, start + m, n, mb)
    BY BytesSplit
<1>4. /\ TextBytes(t, 0, start, mb) \in Nat /\ TextBytes(t, start, start + m, mb) \in Nat
      /\ TextBytes(t, start + m, n, mb) \in Nat /\ TextBytes(s, 0, m, mb) \in Nat
    BY CellsFinite
<1> QED
    BY <1>2, <1>3, <1>4 DEF u

\* Equal texts have equal bytes.
LEMMA SameBytes ==
    ASSUME NEW t, NEW u, NEW a \in Int, NEW b \in Int, NEW mb, \A i \in a .. (b - 1) : u[i] = t[i]
    PROVE  TextBytes(u, a, b, mb) = TextBytes(t, a, b, mb)
<1>1. Cells(u, a, b, mb) = Cells(t, a, b, mb)
    BY DEF Cells
<1> QED
    BY <1>1 DEF TextBytes

-----------------------------------------------------------------------------
(***************************************************************************)
(* The vector and its gap.                                                 *)
(***************************************************************************)
\* What is at a slot after a copy.
LEMMA CopiedAt ==
    ASSUME NEW a, NEW from \in Int, NEW to \in Int, NEW n \in Int, NEW x \in DOMAIN a
    PROVE  Copied(a, from, to, n)[x] = IF to <= x /\ x < to + n THEN a[x - to + from] ELSE a[x]
BY DEF Copied

\* The character at I in a vector with a gap from START up to END.
At(buf, start, end, i) == IF i < start THEN buf[i] ELSE buf[i + (end - start)]

\* A gap that moves to the left leaves every character at its place in the text.
LEMMA MovedLeft ==
    ASSUME NEW a, NEW cap \in Nat, NEW gs \in Nat, NEW ge \in Nat, NEW pos \in Nat, NEW i \in Nat,
           gs <= ge, ge <= cap, pos < gs, i < cap - (ge - gs), DOMAIN a = Slots(cap),
           NEW e, e = ge - (gs - pos), NEW b, b = Copied(a, pos, e, gs - pos)
    PROVE  At(b, pos, e, i) = At(a, gs, ge, i)
<1> DEFINE x == i + (ge - gs)
<1>1. /\ e \in Int /\ gs - pos \in Int /\ x \in Int /\ x = i + (e - pos)
      /\ i \in DOMAIN a /\ x \in DOMAIN a
    BY DEF Slots
<1>2. CASE i < pos
  <2>1. ~(e <= i) /\ i < gs
    BY <1>2
  <2>2. b[i] = a[i]
    BY <1>1, <2>1, CopiedAt
  <2> QED
    BY <1>2, <2>1, <2>2 DEF At
<1>3. CASE ~(i < pos) /\ i < gs
  <2>1. e <= x /\ x < e + (gs - pos) /\ x - e + pos = i
    BY <1>3
  <2>2. b[x] = a[x - e + pos]
    BY <1>1, <2>1, CopiedAt
  <2> QED
    BY <1>1, <1>3, <2>1, <2>2 DEF At
<1>4. CASE ~(i < pos) /\ ~(i < gs)
  <2>1. ~(x < e + (gs - pos))
    BY <1>4
  <2>2. b[x] = a[x]
    BY <1>1, <2>1, CopiedAt
  <2> QED
    BY <1>1, <1>4, <2>1, <2>2 DEF At
<1> QED
    BY <1>2, <1>3, <1>4

\* So does one that moves to the right.
LEMMA MovedRight ==
    ASSUME NEW a, NEW cap \in Nat, NEW gs \in Nat, NEW ge \in Nat, NEW pos \in Nat, NEW i \in Nat,
           gs <= ge, ge <= cap, gs <= pos, pos <= cap - (ge - gs), i < cap - (ge - gs),
           DOMAIN a = Slots(cap),
           NEW e, e = ge + (pos - gs), NEW b, b = Copied(a, ge, gs, pos - gs)
    PROVE  At(b, pos, e, i) = At(a, gs, ge, i)
<1> DEFINE x == i + (ge - gs)
<1>1. /\ pos - gs \in Int /\ x \in Int /\ x = i + (e - pos)
      /\ i \in DOMAIN a /\ x \in DOMAIN a
    BY DEF Slots
<1>2. CASE i < gs
  <2>1. ~(gs <= i) /\ i < pos
    BY <1>2
  <2>2. b[i] = a[i]
    BY <1>1, <2>1 DEF Copied
  <2> QED
    BY <1>2, <2>1, <2>2 DEF At
<1>3. CASE ~(i < gs) /\ i < pos
  <2>1. gs <= i /\ i < gs + (pos - gs) /\ i - gs + ge = x
    BY <1>3
  <2>2. b[i] = a[i - gs + ge]
    BY <1>1, <2>1, CopiedAt
  <2> QED
    BY <1>1, <1>3, <2>1, <2>2 DEF At
<1>4. CASE ~(i < gs) /\ ~(i < pos)
  <2>1. ~(x < gs + (pos - gs))
    BY <1>4
  <2>2. b[x] = a[x]
    BY <1>1, <2>1, CopiedAt
  <2> QED
    BY <1>1, <1>4, <2>1, <2>2 DEF At
<1> QED
    BY <1>2, <1>3, <1>4

\* A longer vector holds the text before the gap where it was, and that behind it at the end.
LEMMA GrownAt ==
    ASSUME NEW a, NEW gs \in Nat, NEW ge \in Nat, NEW e \in Nat, NEW n \in Nat, NEW i \in Nat,
           gs <= ge, ge <= e, i < gs + n,
           NEW larger, larger = [x \in Slots(n + e) |-> IF x < n + ge THEN a[x] ELSE Nul]
    PROVE  At(Copied(larger, ge, e, n), gs, e, i) = At(a, gs, ge, i)
<1> DEFINE x == i + (e - gs)
           b == Copied(larger, ge, e, n)
<1>1. i \in DOMAIN larger /\ x \in DOMAIN larger /\ DOMAIN larger = Slots(n + e)
    BY DEF Slots
<1>2. CASE i < gs
  <2>1. ~(e <= i) /\ i < n + ge
    BY <1>2
  <2>2. b[i] = larger[i]
    BY <1>1, <2>1 DEF Copied
  <2>3. larger[i] = a[i]
    BY <1>1, <2>1
  <2> QED
    BY <1>2, <2>2, <2>3 DEF At
<1>3. CASE ~(i < gs)
  <2>1. /\ e <= x /\ x < e + n /\ x - e + ge = i + (ge - gs)
        /\ i + (ge - gs) < n + ge /\ i + (ge - gs) \in Slots(n + e)
    BY <1>3 DEF Slots
  <2>2. b[x] = larger[x - e + ge]
    BY <1>1, <2>1 DEF Copied
  <2>3. larger[i + (ge - gs)] = a[i + (ge - gs)]
    BY <2>1
  <2> QED
    BY <1>3, <2>1, <2>2, <2>3 DEF At
<1> QED
    BY <1>2, <1>3

\* A copy within a vector keeps its kind, if it copies from within.
LEMMA CopiedType ==
    ASSUME NEW cap \in Nat, NEW a \in [Slots(cap) -> Nat], NEW from \in Nat, NEW to \in Nat, NEW n \in Nat,
           from + n <= cap
    PROVE  Copied(a, from, to, n) \in [Slots(cap) -> Nat]
<1> SUFFICES ASSUME NEW x \in Slots(cap)
             PROVE  (IF to <= x /\ x < to + n THEN a[x - to + from] ELSE a[x]) \in Nat
    BY DEF Copied
<1>1. CASE to <= x /\ x < to + n
  <2>1. x - to + from \in Slots(cap)
    BY <1>1 DEF Slots
  <2> QED
    BY <1>1, <2>1
<1>2. CASE ~(to <= x /\ x < to + n)
    BY <1>2
<1> QED
    BY <1>1, <1>2

IsRecord(g) ==
    g = [buf |-> g.buf, capacity |-> g.capacity, gap_start |-> g.gap_start,
         gap_end |-> g.gap_end, text_bytes |-> g.text_bytes, multibyte |-> g.multibyte,
         flat |-> g.flat, mod_count |-> g.mod_count, lines |-> g.lines]

\* A gap buffer by its shape: the gap lies in the vector.
Vector(g) ==
    /\ IsRecord(g)
    /\ g.capacity \in Nat /\ g.gap_start \in Nat /\ g.gap_end \in Nat
    /\ g.gap_start <= g.gap_end /\ g.gap_end <= g.capacity
    /\ g.buf \in [Slots(g.capacity) -> Nat]

\* What the methods of the vector leave alone.
Rest(g) == <<g.text_bytes, g.multibyte, g.flat, g.mod_count, g.lines>>

\* The text of a gap buffer has its length, which is no more than the slots.
LEMMA VectorFacts ==
    ASSUME NEW g, Vector(g)
    PROVE  /\ TextLen(g) \in Nat /\ GapSlots(g) \in Nat
           /\ TextLen(g) + GapSlots(g) = g.capacity
           /\ g.gap_start <= TextLen(g)
BY DEF Vector, TextLen, GapSlots

\* Moving the gap leaves the text and the vector's length.
LEMMA MoveGapKeeps ==
    ASSUME NEW g, Vector(g), NEW pos \in 0 .. TextLen(g)
    PROVE  /\ Vector(MoveGap(g, pos))
           /\ MoveGap(g, pos).gap_start = pos
           /\ MoveGap(g, pos).capacity = g.capacity
           /\ TextLen(MoveGap(g, pos)) = TextLen(g)
           /\ Text(MoveGap(g, pos)) = Text(g)
           /\ Rest(MoveGap(g, pos)) = Rest(g)
<1> DEFINE h == MoveGap(g, pos)
           a == g.buf
           cap == g.capacity
           gs == g.gap_start
           ge == g.gap_end
           b == IF pos < gs THEN Copied(a, pos, ge - (gs - pos), gs - pos) ELSE Copied(a, ge, gs, pos - gs)
           e == IF pos < gs THEN ge - (gs - pos) ELSE ge + (pos - gs)
<1>1. /\ cap \in Nat /\ gs \in Nat /\ ge \in Nat /\ gs <= ge /\ ge <= cap
      /\ a \in [Slots(cap) -> Nat] /\ pos \in Nat /\ pos <= cap - (ge - gs)
    BY DEF Vector, TextLen, GapSlots
<1>2. h = [g EXCEPT !.buf = b, !.gap_start = pos, !.gap_end = e]
    BY DEF MoveGap
<1>3. /\ h.buf = b /\ h.gap_start = pos /\ h.gap_end = e /\ h.capacity = cap
      /\ Rest(h) = Rest(g) /\ IsRecord(h)
  <2> HIDE DEF b, e, h
  <2> QED
    BY <1>2 DEF Vector, IsRecord, Rest
<1> HIDE DEF h, a, cap, gs, ge, b, e
<1>4. e \in Nat /\ pos <= e /\ e <= cap /\ e - pos = ge - gs
    BY <1>1 DEF e
<1>5. b \in [Slots(cap) -> Nat]
  <2>1. CASE pos < gs
    <3>1. gs - pos \in Nat /\ ge - (gs - pos) \in Nat /\ pos + (gs - pos) <= cap
      BY <1>1, <2>1
    <3> QED
      BY <1>1, <2>1, <3>1, CopiedType DEF b
  <2>2. CASE ~(pos < gs)
    <3>1. pos - gs \in Nat /\ ge + (pos - gs) <= cap
      BY <1>1, <2>2
    <3> QED
      BY <1>1, <2>2, <3>1, CopiedType DEF b
  <2> QED
    BY <2>1, <2>2
<1>6. TextLen(h) = cap - (ge - gs) /\ TextLen(g) = cap - (ge - gs)
  <2>1. TextLen(h) = cap - (e - pos)
    BY <1>3 DEF TextLen, GapSlots
  <2>2. TextLen(g) = cap - (ge - gs)
    BY DEF TextLen, GapSlots, cap, ge, gs
  <2> QED
    BY <1>4, <2>1, <2>2
<1>7. \A i \in Slots(cap - (ge - gs)) : CharAt(h, i) = CharAt(g, i)
  <2> SUFFICES ASSUME NEW i \in Slots(cap - (ge - gs))
               PROVE  CharAt(h, i) = CharAt(g, i)
    OBVIOUS
  <2>1. i \in Nat /\ i < cap - (ge - gs) /\ DOMAIN a = Slots(cap)
    BY <1>1 DEF Slots
  <2>2. CharAt(g, i) = At(a, gs, ge, i)
    BY DEF CharAt, GapSlots, At, a, gs, ge
  <2>3. CharAt(h, i) = At(b, pos, e, i)
    BY <1>3 DEF CharAt, GapSlots, At
  <2>4. CASE pos < gs
    <3>1. e = ge - (gs - pos) /\ b = Copied(a, pos, e, gs - pos)
      BY <2>4 DEF b, e
    <3> QED
      BY <1>1, <2>1, <2>2, <2>3, <2>4, <3>1, MovedLeft
  <2>5. CASE ~(pos < gs)
    <3>1. e = ge + (pos - gs) /\ b = Copied(a, ge, gs, pos - gs) /\ gs <= pos
      BY <1>1, <2>5 DEF b, e
    <3> QED
      BY <1>1, <2>1, <2>2, <2>3, <3>1, MovedRight
  <2> QED
    BY <2>4, <2>5
<1>8. Text(h) = Text(g)
    BY <1>6, <1>7 DEF Text
<1> QED
    BY <1>1, <1>3, <1>4, <1>5, <1>6, <1>8 DEF Vector, h, cap

\* Making the gap larger leaves the text, and there is room for what is needed.
LEMMA EnsureGapKeeps ==
    ASSUME NEW g, Vector(g), g.text_bytes \in Nat, NEW need \in Int
    PROVE  /\ Vector(EnsureGap(g, need))
           /\ EnsureGap(g, need).gap_start = g.gap_start
           /\ EnsureGap(g, need).capacity >= g.capacity
           /\ EnsureGap(g, need).capacity - g.text_bytes >= need
           /\ TextLen(EnsureGap(g, need)) = TextLen(g)
           /\ Text(EnsureGap(g, need)) = Text(g)
           /\ Rest(EnsureGap(g, need)) = Rest(g)
<1>1. CASE GapSize(g) >= need
    BY <1>1 DEF EnsureGap, GapSize, Vector
<1>2. CASE ~(GapSize(g) >= need)
  <2> DEFINE h == EnsureGap(g, need)
             grow == Growth(g, need)
             a == g.buf
             cap == g.capacity
             gs == g.gap_start
             ge == g.gap_end
             larger == [x \in Slots(cap + grow) |-> IF x < cap THEN a[x] ELSE Nul]
             b == Copied(larger, ge, ge + grow, cap - ge)
  <2>1. grow \in Nat /\ grow >= need - GapSize(g)
    <3>1. GapSize(g) \in Int /\ need - GapSize(g) \in Nat
      BY <1>2 DEF GapSize, Vector
    <3>2. TextLen(g) \div GapShare \in Int
      <4>1. TextLen(g) \in Int
        BY VectorFacts
      <4>2. GapShare \in Nat \ {0}
        BY GapAssumption
      <4> QED
        BY <4>1, <4>2
    <3>3. GapSpare \in Nat
      BY GapAssumption
    <3> DEFINE share == TextLen(g) \div GapShare
    <3> HIDE DEF share
    <3>4. Growth(g, need) = (IF need - GapSize(g) < share THEN share ELSE need - GapSize(g)) + GapSpare
      BY DEF Growth, Larger, share
    <3>5. share \in Int
      BY <3>2 DEF share
    <3> QED
      BY <3>1, <3>3, <3>4, <3>5
  <2>2. /\ cap \in Nat /\ gs \in Nat /\ ge \in Nat /\ gs <= ge /\ ge <= cap
        /\ a \in [Slots(cap) -> Nat]
    BY DEF Vector
  <2>3. h = [g EXCEPT !.buf = b, !.capacity = cap + grow, !.gap_end = ge + grow]
    BY <1>2 DEF EnsureGap
  <2>4. /\ h.buf = b /\ h.capacity = cap + grow /\ h.gap_end = ge + grow
        /\ h.gap_start = gs /\ Rest(h) = Rest(g) /\ IsRecord(h)
    <3> HIDE DEF b, grow, h
    <3> QED
      BY <2>3 DEF Vector, IsRecord, Rest
  <2> HIDE DEF h, grow, a, cap, gs, ge, b, larger
  <2>5. b \in [Slots(cap + grow) -> Nat]
    <3>1. larger \in [Slots(cap + grow) -> Nat]
      <4>1. \A x \in Slots(cap + grow) : x < cap => x \in Slots(cap)
        BY <2>1, <2>2 DEF Slots
      <4> QED
        BY <2>2, <4>1 DEF larger, Nul
    <3>2. cap + grow \in Nat /\ ge + grow \in Nat /\ cap - ge \in Nat /\ ge + (cap - ge) <= cap + grow
      BY <2>1, <2>2
    <3> QED
      BY <2>2, <3>1, <3>2, CopiedType DEF b
  <2>6. TextLen(h) = cap - (ge - gs) /\ TextLen(g) = cap - (ge - gs)
    <3>1. TextLen(h) = (cap + grow) - ((ge + grow) - gs)
      BY <2>4 DEF TextLen, GapSlots
    <3>2. TextLen(g) = cap - (ge - gs)
      BY DEF TextLen, GapSlots, cap, ge, gs
    <3> QED
      BY <2>1, <2>2, <3>1, <3>2
  <2>7. \A i \in Slots(cap - (ge - gs)) : CharAt(h, i) = CharAt(g, i)
    <3> SUFFICES ASSUME NEW i \in Slots(cap - (ge - gs))
                 PROVE  CharAt(h, i) = CharAt(g, i)
      OBVIOUS
    <3>1. i \in Nat /\ i < cap - (ge - gs)
      BY <2>2 DEF Slots
    <3>2. CharAt(g, i) = At(a, gs, ge, i)
      BY DEF CharAt, GapSlots, At, a, gs, ge
    <3>3. CharAt(h, i) = At(b, gs, ge + grow, i)
      BY <2>4 DEF CharAt, GapSlots, At
    <3> DEFINE e == ge + grow
               n == cap - ge
    <3>4. e \in Nat /\ n \in Nat /\ ge <= e /\ i < gs + n /\ n + e = cap + grow /\ n + ge = cap
      BY <2>1, <2>2, <3>1
    <3>5. b = Copied(larger, ge, e, n)
      BY DEF b
    <3> HIDE DEF e, n
    <3>6. larger = [x \in Slots(n + e) |-> IF x < n + ge THEN a[x] ELSE Nul]
      BY <3>4 DEF larger
    <3>7. At(Copied(larger, ge, e, n), gs, e, i) = At(a, gs, ge, i)
      BY <2>2, <3>1, <3>4, <3>6, GrownAt
    <3> QED
      BY <3>2, <3>3, <3>5, <3>7 DEF e
  <2>8. Text(h) = Text(g)
    BY <2>6, <2>7 DEF Text
  <2>9. Vector(h)
    <3>1. cap + grow \in Nat /\ ge + grow \in Nat /\ gs <= ge + grow /\ ge + grow <= cap + grow
      BY <2>1, <2>2
    <3> QED
      BY <2>2, <2>4, <2>5, <3>1 DEF Vector
  <2>10. h.capacity >= cap /\ h.capacity - g.text_bytes >= need
    BY <2>1, <2>2, <2>4 DEF GapSize, cap
  <2> QED
    BY <2>4, <2>6, <2>8, <2>9, <2>10 DEF h, gs, cap
<1> QED
    BY <1>1, <1>2

-----------------------------------------------------------------------------
(***************************************************************************)
(* The methods that change the text.                                       *)
(***************************************************************************)

\* The text is one of characters, and its bytes are counted and fit.
Sound(g) ==
    /\ Vector(g)
    /\ Text(g) \in Strings(TextLen(g))
    /\ g.multibyte \in BOOLEAN
    /\ g.mod_count \in Nat
    /\ g.text_bytes = TextBytes(Text(g), 0, TextLen(g), g.multibyte)
    /\ g.text_bytes <= g.capacity

Single(lines) == \A l, m \in lines : l = m

\* The caches are of the text as it is, or known to be old.
Caches(g) ==
    /\ g.flat \subseteq {Text(g)}
    /\ Single(g.lines)
    /\ \A l \in g.lines :
         /\ l.tick \in Nat /\ l.tick <= g.mod_count
         /\ l.tick = g.mod_count => l.at = Plain!NewlinesOf(Text(g), TextLen(g))

\* They are empty, or known to be old.
Aged(g) ==
    /\ g.flat = {}
    /\ Single(g.lines)
    /\ \A l \in g.lines : l.tick \in Nat /\ l.tick < g.mod_count

\* Old caches say nothing of the text.
LEMMA AgedCaches ==
    ASSUME NEW g, g.mod_count \in Nat, Aged(g)
    PROVE  Caches(g)
BY DEF Aged, Caches

\* No character is without a byte, so the free slots are no fewer than the free bytes.
LEMMA SoundFacts ==
    ASSUME NEW g, Sound(g)
    PROVE  g.text_bytes \in Nat /\ TextLen(g) <= g.text_bytes
<1>1. TextLen(g) \in Nat
    BY VectorFacts DEF Sound
<1>2. \A i \in 0 .. (TextLen(g) - 1) : Text(g)[i] \in Chars
    BY DEF Sound, Strings, Slots
<1>3. g.multibyte \in BOOLEAN /\ g.text_bytes = TextBytes(Text(g), 0, TextLen(g), g.multibyte)
    BY DEF Sound
<1>4. g.text_bytes \in Nat
    BY <1>1, <1>3, CellsFinite
<1>5. TextBytes(Text(g), 0, TextLen(g), g.multibyte) >= TextLen(g) - 0
    BY <1>1, <1>2, <1>3, BytesAtLeast
<1> QED
    BY <1>1, <1>3, <1>4, <1>5

\* A change is counted, and leaves old caches behind.
LEMMA TouchedKeeps ==
    ASSUME NEW g, Vector(g), g.mod_count \in Nat, Caches(g)
    PROVE  /\ Vector(Touched(g)) /\ Aged(Touched(g))
           /\ Touched(g).mod_count = g.mod_count + 1
           /\ TextLen(Touched(g)) = TextLen(g) /\ Text(Touched(g)) = Text(g)
           /\ Touched(g).text_bytes = g.text_bytes /\ Touched(g).multibyte = g.multibyte
           /\ Touched(g).capacity = g.capacity /\ Touched(g).gap_start = g.gap_start
<1> DEFINE h == Touched(g)
<1>0. h = [g EXCEPT !.mod_count = g.mod_count + 1, !.flat = {}]
    BY DEF Touched
<1>1. /\ IsRecord(h) /\ h.buf = g.buf /\ h.capacity = g.capacity
      /\ h.gap_start = g.gap_start /\ h.gap_end = g.gap_end
      /\ h.text_bytes = g.text_bytes /\ h.multibyte = g.multibyte
      /\ h.flat = {} /\ h.mod_count = g.mod_count + 1 /\ h.lines = g.lines
  <2> HIDE DEF h
  <2> QED
    BY <1>0 DEF Vector, IsRecord
<1> HIDE DEF h
<1>2. Vector(h)
    BY <1>1 DEF Vector
<1>3. TextLen(h) = TextLen(g)
    BY <1>1 DEF TextLen, GapSlots
<1>4. \A i : CharAt(h, i) = CharAt(g, i)
    BY <1>1 DEF CharAt, GapSlots
<1>5. Text(h) = Text(g)
    BY <1>3, <1>4 DEF Text
<1>6. Aged(h)
    BY <1>1 DEF Aged, Caches
<1> QED
    BY <1>1, <1>2, <1>3, <1>5, <1>6 DEF h

\* Insertion: the text is the plain one, its bytes are counted, and there was room.
LEMMA InsertRight ==
    ASSUME NEW g, Sound(g), Caches(g), NEW pos \in 0 .. TextLen(g), NEW n \in Nat, NEW s \in Strings(n)
    PROVE  /\ Sound(Insert(g, pos, n, s)) /\ Caches(Insert(g, pos, n, s))
           /\ TextLen(Insert(g, pos, n, s)) = TextLen(g) + n
           /\ Text(Insert(g, pos, n, s)) = Plain!Inserted(Text(g), TextLen(g), pos, n, s)
<1>0. TextLen(g) \in Nat /\ pos \in Nat /\ pos <= TextLen(g)
    BY VectorFacts DEF Sound
<1>1. CASE n = 0
  <2>1. Insert(g, pos, n, s) = g
    BY <1>1 DEF Insert
  <2>2. TextLen(g) + n = TextLen(g)
    BY <1>0, <1>1
  <2>3. Plain!Inserted(Text(g), TextLen(g), pos, n, s) = [i \in Slots(TextLen(g)) |-> Text(g)[i]]
    BY <1>0, <1>1, <2>2 DEF Plain!Inserted, Plain!Slots, Slots
  <2>4. [i \in Slots(TextLen(g)) |-> Text(g)[i]] = Text(g)
    BY DEF Text
  <2> QED
    BY <2>1, <2>2, <2>3, <2>4
<1>2. CASE n # 0
  <2> DEFINE h == Insert(g, pos, n, s)
             bytes == TextBytes(s, 0, n, g.multibyte)
             g1 == Touched(g)
             g2 == MoveGap(g1, pos)
             g3 == EnsureGap(g2, bytes)
             a == g3.buf
             ge == g3.gap_end
             cap == g3.capacity
             b == Written(a, pos, n, s)
  <2>1. /\ Vector(g1) /\ Aged(g1) /\ g1.mod_count = g.mod_count + 1
        /\ TextLen(g1) = TextLen(g) /\ Text(g1) = Text(g)
        /\ g1.text_bytes = g.text_bytes /\ g1.multibyte = g.multibyte
    BY TouchedKeeps DEF Sound
  <2> HIDE DEF g1
  <2>2. /\ Vector(g2) /\ g2.gap_start = pos /\ TextLen(g2) = TextLen(g) /\ Text(g2) = Text(g)
        /\ Rest(g2) = Rest(g1)
    BY <1>0, <2>1, MoveGapKeeps
  <2> HIDE DEF g2
  <2>3. bytes \in Nat /\ bytes >= n
    <3>1. \A i \in 0 .. (n - 1) : s[i] \in Chars
      BY DEF Strings, Slots
    <3>2. bytes >= n - 0
      BY <3>1, BytesAtLeast DEF Sound
    <3> QED
      BY <3>2, CellsFinite
  <2> HIDE DEF bytes
  <2>4. g2.text_bytes = g.text_bytes /\ g.text_bytes \in Nat
    BY <2>1, <2>2, SoundFacts DEF Rest
  <2>5. /\ Vector(g3) /\ g3.gap_start = pos /\ cap - g2.text_bytes >= bytes
        /\ TextLen(g3) = TextLen(g) /\ Text(g3) = Text(g) /\ Rest(g3) = Rest(g1)
    BY <2>2, <2>3, <2>4, EnsureGapKeeps
  <2>6. h = [g3 EXCEPT !.buf = b, !.gap_start = pos + n, !.text_bytes = g3.text_bytes + bytes]
    BY <1>2, <2>5 DEF Insert, g1, g2, bytes
  <2> HIDE DEF g3
  <2>7. /\ h.buf = b /\ h.gap_start = pos + n /\ h.text_bytes = g3.text_bytes + bytes
        /\ h.capacity = cap /\ h.gap_end = ge /\ IsRecord(h)
        /\ h.multibyte = g3.multibyte /\ h.flat = g3.flat /\ h.mod_count = g3.mod_count
        /\ h.lines = g3.lines
    <3> HIDE DEF b, h
    <3> QED
      BY <2>5, <2>6 DEF Vector, IsRecord
  <2>8. /\ g3.text_bytes = g.text_bytes /\ g3.multibyte = g.multibyte /\ g3.flat = g1.flat
        /\ g3.mod_count = g1.mod_count /\ g3.lines = g1.lines
    BY <2>1, <2>5 DEF Rest
  <2>9. /\ cap \in Nat /\ ge \in Nat /\ ge <= cap /\ pos <= ge /\ a \in [Slots(cap) -> Nat]
        /\ TextLen(g) = cap - (ge - pos)
    BY <2>5 DEF Vector, TextLen, GapSlots
  <2> HIDE DEF h, a, ge, cap, b
  <2>10. pos + n <= ge
    <3>1. TextLen(g) <= g.text_bytes
      BY SoundFacts
    <3> QED
      BY <1>0, <2>3, <2>4, <2>5, <2>9, <3>1
  <2>11. b \in [Slots(cap) -> Nat]
    <3>1. \A x \in Slots(cap) : (pos <= x /\ x < pos + n) => s[x - pos] \in Nat
      <4> SUFFICES ASSUME NEW x \in Slots(cap), pos <= x, x < pos + n
                   PROVE  s[x - pos] \in Nat
        OBVIOUS
      <4>1. x - pos \in Slots(n)
        BY <1>0, <2>9 DEF Slots
      <4>2. s[x - pos] \in Chars
        BY <4>1 DEF Strings
      <4>3. Chars \subseteq Nat
        BY GapAssumption
      <4> QED
        BY <4>2, <4>3
    <3>2. \A x \in Slots(cap) : a[x] \in Nat
      BY <2>9
    <3>3. DOMAIN a = Slots(cap)
      BY <2>9
    <3> QED
      BY <3>1, <3>2, <3>3 DEF b, Written
  <2>12. Vector(h)
    <3>1. pos + n \in Nat
      BY <1>0
    <3> QED
      BY <2>7, <2>9, <2>10, <2>11, <3>1 DEF Vector
  <2>13. TextLen(h) = TextLen(g) + n
    <3>1. TextLen(h) = cap - (ge - (pos + n))
      BY <2>7 DEF TextLen, GapSlots
    <3> QED
      BY <1>0, <2>9, <3>1
  <2>14. \A i \in Slots(TextLen(g) + n) :
            CharAt(h, i) = IF i < pos THEN Text(g)[i]
                           ELSE IF i < pos + n THEN s[i - pos] ELSE Text(g)[i - n]
    <3> SUFFICES ASSUME NEW i \in Slots(TextLen(g) + n)
                 PROVE  CharAt(h, i) = IF i < pos THEN Text(g)[i]
                                       ELSE IF i < pos + n THEN s[i - pos] ELSE Text(g)[i - n]
      OBVIOUS
    <3>1. i \in Nat /\ i < TextLen(g) + n /\ i < cap - (ge - (pos + n)) /\ DOMAIN a = Slots(cap)
      BY <1>0, <2>9 DEF Slots
    <3>2. CharAt(h, i) = At(b, pos + n, ge, i)
      BY <2>7 DEF CharAt, GapSlots, At
    <3>3. At(b, pos + n, ge, i) = IF i < pos THEN At(a, pos, ge, i)
                                  ELSE IF i < pos + n THEN s[i - pos] ELSE At(a, pos, ge, i - n)
      <4>1. CASE i < pos
        <5>1. i \in DOMAIN a /\ i < pos + n
          BY <1>0, <2>9, <2>10, <3>1, <4>1 DEF Slots
        <5> QED
          BY <3>1, <4>1, <5>1 DEF b, Written, At
      <4>2. CASE ~(i < pos) /\ i < pos + n
        <5>1. i \in DOMAIN a
          BY <1>0, <2>9, <2>10, <3>1, <4>2 DEF Slots
        <5>2. b[i] = s[i - pos]
          BY <1>0, <3>1, <4>2, <5>1 DEF b, Written
        <5> QED
          BY <4>2, <5>2 DEF At
      <4>3. CASE ~(i < pos) /\ ~(i < pos + n)
        <5> DEFINE x == i + (ge - (pos + n))
        <5>1. x \in DOMAIN a /\ ~(x < pos + n)
          BY <1>0, <2>9, <2>10, <3>1, <4>3 DEF Slots
        <5>2. b[x] = a[x]
          BY <5>1 DEF b, Written
        <5>3. ~(i - n < pos) /\ (i - n) + (ge - pos) = x
          BY <1>0, <2>9, <3>1, <4>3
        <5> QED
          BY <4>3, <5>2, <5>3 DEF At
      <4> QED
        BY <4>1, <4>2, <4>3
    <3>4. \A k \in Slots(TextLen(g)) : Text(g)[k] = At(a, pos, ge, k)
      BY <2>5 DEF Text, CharAt, GapSlots, At, a, ge
    <3>5. i < pos => i \in Slots(TextLen(g))
      BY <1>0, <3>1 DEF Slots
    <3>6. ~(i < pos + n) => i - n \in Slots(TextLen(g))
      BY <1>0, <3>1 DEF Slots
    <3>7. ~(i < pos + n) => ~(i < pos)
      BY <1>0, <3>1
    <3> QED
      BY <3>2, <3>3, <3>4, <3>5, <3>6, <3>7
  <2>15. Text(h) = Plain!Inserted(Text(g), TextLen(g), pos, n, s)
    BY <2>13, <2>14 DEF Text, Plain!Inserted, Plain!Slots, Slots
  <2>16. Text(h) \in Strings(TextLen(h))
    <3>1. \A i \in Slots(TextLen(g) + n) : CharAt(h, i) \in Chars
      <4> SUFFICES ASSUME NEW i \in Slots(TextLen(g) + n)
                   PROVE  CharAt(h, i) \in Chars
        OBVIOUS
      <4>1. \A k \in Slots(TextLen(g)) : Text(g)[k] \in Chars
        BY DEF Sound, Strings
      <4>2. \A k \in Slots(n) : s[k] \in Chars
        BY DEF Strings
      <4>3. /\ i < pos => i \in Slots(TextLen(g))
            /\ ~(i < pos) /\ i < pos + n => i - pos \in Slots(n)
            /\ ~(i < pos + n) => i - n \in Slots(TextLen(g))
        BY <1>0 DEF Slots
      <4> QED
        BY <2>14, <4>1, <4>2, <4>3
    <3> QED
      BY <2>13, <3>1 DEF Text, Strings
  <2>17. h.text_bytes = TextBytes(Text(h), 0, TextLen(h), h.multibyte)
    <3> DEFINE len == TextLen(h)
    <3>1. len = TextLen(g) + n
      BY <2>13
    <3> HIDE DEF len
    <3>2. TextBytes(Plain!Inserted(Text(g), TextLen(g), pos, n, s), 0, len, g.multibyte)
             = TextBytes(Text(g), 0, TextLen(g), g.multibyte) + TextBytes(s, 0, n, g.multibyte)
      BY <1>0, <3>1, InsertedBytes
    <3> QED
      BY <2>7, <2>8, <2>15, <3>2 DEF Sound, bytes, len
  <2>18. h.text_bytes <= h.capacity
    BY <2>3, <2>4, <2>5, <2>7, <2>8, <2>9
  <2>19. Aged(h) /\ h.mod_count \in Nat
    BY <2>1, <2>7, <2>8 DEF Aged, Sound
  <2>20. Caches(h)
    BY <2>19, AgedCaches
  <2>21. Sound(h)
    BY <2>7, <2>8, <2>12, <2>16, <2>17, <2>18, <2>19 DEF Sound
  <2> QED
    BY <2>13, <2>15, <2>20, <2>21 DEF h
<1> QED
    BY <1>1, <1>2

\* Deletion: the gap comes to the text and swallows it, with its bytes.
LEMMA DeleteRight ==
    ASSUME NEW g, Sound(g), Caches(g), NEW start \in 0 .. TextLen(g), NEW end \in 0 .. TextLen(g),
           start < end
    PROVE  /\ Sound(Delete(g, start, end)) /\ Caches(Delete(g, start, end))
           /\ TextLen(Delete(g, start, end)) = TextLen(g) - (end - start)
           /\ Text(Delete(g, start, end)) = Plain!Deleted(Text(g), TextLen(g), start, end)
<1> DEFINE h == Delete(g, start, end)
           d == end - start
           bytes == TextBytes(Text(g), start, end, g.multibyte)
           g1 == Touched(g)
           g2 == MoveGap(g1, start)
           a == g2.buf
           ge == g2.gap_end
           cap == g2.capacity
<1>0. /\ TextLen(g) \in Nat /\ start \in Nat /\ end \in Nat /\ end <= TextLen(g)
      /\ d \in Nat /\ d = end - start
    BY VectorFacts DEF Sound
<1>1. /\ Vector(g1) /\ Aged(g1) /\ g1.mod_count = g.mod_count + 1
      /\ TextLen(g1) = TextLen(g) /\ Text(g1) = Text(g) /\ g1.capacity = g.capacity
      /\ g1.text_bytes = g.text_bytes /\ g1.multibyte = g.multibyte
    BY TouchedKeeps DEF Sound
<1> HIDE DEF g1
<1>2. /\ Vector(g2) /\ g2.gap_start = start /\ TextLen(g2) = TextLen(g) /\ Text(g2) = Text(g)
      /\ Rest(g2) = Rest(g1) /\ g2.capacity = g.capacity
    BY <1>0, <1>1, MoveGapKeeps
<1>3. h = [g2 EXCEPT !.gap_end = g2.gap_end + (end - start), !.text_bytes = g2.text_bytes - bytes]
    BY DEF Delete, g1
<1> HIDE DEF g2, bytes
<1>4. /\ h.buf = a /\ h.gap_start = start /\ h.text_bytes = g2.text_bytes - bytes
      /\ h.capacity = cap /\ h.gap_end = ge + d /\ IsRecord(h)
      /\ h.multibyte = g2.multibyte /\ h.flat = g2.flat /\ h.mod_count = g2.mod_count
      /\ h.lines = g2.lines
  <2> HIDE DEF h
  <2> QED
    BY <1>2, <1>3 DEF Vector, IsRecord
<1>5. /\ g2.text_bytes = g.text_bytes /\ g2.multibyte = g.multibyte /\ g2.flat = g1.flat
      /\ g2.mod_count = g1.mod_count /\ g2.lines = g1.lines
    BY <1>1, <1>2 DEF Rest
<1>6. /\ cap \in Nat /\ ge \in Nat /\ ge <= cap /\ start <= ge /\ a \in [Slots(cap) -> Nat]
      /\ TextLen(g) = cap - (ge - start)
    BY <1>2 DEF Vector, TextLen, GapSlots
<1> HIDE DEF h, d, a, ge, cap
<1>7. ge + d \in Nat /\ start <= ge + d /\ ge + d <= cap
    BY <1>0, <1>6
<1>8. Vector(h)
    BY <1>0, <1>4, <1>6, <1>7 DEF Vector
<1>9. TextLen(h) = TextLen(g) - d
  <2>1. TextLen(h) = cap - ((ge + d) - start)
    BY <1>4 DEF TextLen, GapSlots
  <2> QED
    BY <1>0, <1>6, <2>1
<1>10. \A i \in Slots(TextLen(g) - d) :
          CharAt(h, i) = IF i < start THEN Text(g)[i] ELSE Text(g)[i + d]
  <2> SUFFICES ASSUME NEW i \in Slots(TextLen(g) - d)
               PROVE  CharAt(h, i) = IF i < start THEN Text(g)[i] ELSE Text(g)[i + d]
    OBVIOUS
  <2>1. i \in Nat /\ i < TextLen(g) - d
    BY <1>0 DEF Slots
  <2>2. CharAt(h, i) = IF i < start THEN a[i] ELSE a[i + ((ge + d) - start)]
    BY <1>4 DEF CharAt, GapSlots
  <2>3. \A k \in Slots(TextLen(g)) : Text(g)[k] = IF k < start THEN a[k] ELSE a[k + (ge - start)]
    BY <1>2 DEF Text, CharAt, GapSlots, a, ge
  <2>4. i \in Slots(TextLen(g)) /\ i + d \in Slots(TextLen(g))
    BY <1>0, <2>1 DEF Slots
  <2>5. ~(i < start) => ~(i + d < start) /\ (i + d) + (ge - start) = i + ((ge + d) - start)
    BY <1>0, <1>6, <2>1
  <2> QED
    BY <2>2, <2>3, <2>4, <2>5
<1>11. Text(h) = Plain!Deleted(Text(g), TextLen(g), start, end)
    BY <1>0, <1>9, <1>10 DEF Text, Plain!Deleted, Plain!Slots, Slots
<1>12. Text(h) \in Strings(TextLen(h))
  <2>1. \A i \in Slots(TextLen(g) - d) : i \in Slots(TextLen(g)) /\ i + d \in Slots(TextLen(g))
    BY <1>0 DEF Slots
  <2>2. \A k \in Slots(TextLen(g)) : Text(g)[k] \in Chars
    BY DEF Sound, Strings
  <2>3. \A i \in Slots(TextLen(g) - d) : CharAt(h, i) \in Chars
    BY <1>10, <2>1, <2>2
  <2> QED
    BY <1>9, <2>3 DEF Text, Strings
<1>13. bytes \in Nat /\ g.text_bytes \in Nat
    BY <1>0, CellsFinite, SoundFacts DEF bytes
<1>14. h.text_bytes = TextBytes(Text(h), 0, TextLen(h), h.multibyte)
  <2> DEFINE len == TextLen(h)
  <2>1. len = TextLen(g) - (end - start) /\ end \in start .. TextLen(g)
    BY <1>0, <1>9
  <2> HIDE DEF len
  <2>2. TextBytes(Plain!Deleted(Text(g), TextLen(g), start, end), 0, len, g.multibyte)
           = TextBytes(Text(g), 0, TextLen(g), g.multibyte) - TextBytes(Text(g), start, end, g.multibyte)
    BY <1>0, <2>1, DeletedBytes
  <2> QED
    BY <1>4, <1>5, <1>11, <2>2 DEF Sound, bytes, len
<1>15. h.text_bytes <= h.capacity
  <2>1. g.text_bytes <= cap
    BY <1>2 DEF Sound, cap
  <2> QED
    BY <1>4, <1>5, <1>6, <1>13, <2>1
<1>16. Aged(h) /\ h.mod_count \in Nat
    BY <1>1, <1>4, <1>5 DEF Aged, Sound
<1>17. Caches(h)
    BY <1>16, AgedCaches
<1>18. Sound(h)
    BY <1>4, <1>5, <1>8, <1>12, <1>14, <1>15, <1>16 DEF Sound
<1> QED
    BY <1>9, <1>11, <1>17, <1>18 DEF h, d

\* A new text for all of it.
LEMMA SetTextRight ==
    ASSUME NEW g, Sound(g), Caches(g), NEW n \in Nat, NEW s \in Strings(n)
    PROVE  /\ Sound(SetText(g, n, s)) /\ Caches(SetText(g, n, s))
           /\ TextLen(SetText(g, n, s)) = n /\ Text(SetText(g, n, s)) = s
<1> DEFINE h == Delete(g, 0, TextLen(g))
           k == Insert(h, 0, n, s)
<1>1. TextLen(g) \in Nat
    BY VectorFacts DEF Sound
<1>2. Sound(h) /\ Caches(h) /\ TextLen(h) = 0
  <2>1. CASE TextLen(g) = 0
    BY <2>1 DEF Delete
  <2>2. CASE TextLen(g) # 0
    <3>1. 0 \in 0 .. TextLen(g) /\ TextLen(g) \in 0 .. TextLen(g) /\ 0 < TextLen(g)
      BY <1>1, <2>2
    <3>2. Sound(h) /\ Caches(h) /\ TextLen(h) = TextLen(g) - (TextLen(g) - 0)
      BY <3>1, DeleteRight
    <3> QED
      BY <1>1, <3>2
  <2> QED
    BY <2>1, <2>2
<1> HIDE DEF h
<1>3. /\ Sound(k) /\ Caches(k) /\ TextLen(k) = 0 + n
      /\ Text(k) = Plain!Inserted(Text(h), 0, 0, n, s)
  <2>1. 0 \in 0 .. TextLen(h)
    BY <1>2
  <2> QED
    BY <1>2, <2>1, InsertRight
<1>4. Plain!Inserted(Text(h), 0, 0, n, s) = [i \in Slots(n) |-> s[i]]
    BY DEF Plain!Inserted, Plain!Slots, Slots
<1>5. [i \in Slots(n) |-> s[i]] = s
    BY DEF Strings
<1>6. SetText(g, n, s) = k
    BY DEF SetText, h
<1> QED
    BY <1>3, <1>4, <1>5, <1>6

\* What is written over a region that the gap is not inside of, is there in the text.
LEMMA WrittenOver ==
    ASSUME NEW h, Vector(h), NEW n \in Nat, NEW start \in 0 .. (TextLen(h) - n), NEW s \in Strings(n),
           ~(start < h.gap_start /\ h.gap_start < start + n),
           NEW k, IsRecord(k), k.buf = Written(h.buf, Physical(h, start), n, s),
           k.capacity = h.capacity, k.gap_start = h.gap_start, k.gap_end = h.gap_end
    PROVE  /\ Vector(k) /\ TextLen(k) = TextLen(h)
           /\ Text(k) = Plain!Overwritten(Text(h), TextLen(h), start, n, s)
<1> DEFINE a == h.buf
           b == k.buf
           cap == h.capacity
           gs == h.gap_start
           ge == h.gap_end
           p == Physical(h, start)
           len == TextLen(h)
<1>1. /\ cap \in Nat /\ gs \in Nat /\ ge \in Nat /\ gs <= ge /\ ge <= cap
      /\ a \in [Slots(cap) -> Nat] /\ len = cap - (ge - gs) /\ len \in Nat
      /\ start \in Nat /\ start + n <= len /\ ~(start < gs /\ gs < start + n)
    BY VectorFacts DEF Vector, TextLen, GapSlots
<1>2. p = IF start < gs THEN start ELSE start + (ge - gs)
    BY DEF Physical, GapSlots
<1>3. TextLen(k) = len
    BY DEF TextLen, GapSlots
<1>4. /\ \A i : CharAt(h, i) = At(a, gs, ge, i)
      /\ \A i : CharAt(k, i) = At(b, gs, ge, i)
    BY DEF CharAt, GapSlots, At
<1>5. b = Written(a, p, n, s)
    OBVIOUS
<1>6. IsRecord(k) /\ k.buf = b /\ k.capacity = cap /\ k.gap_start = gs /\ k.gap_end = ge
    OBVIOUS
<1>7. Text(h) = [i \in Slots(len) |-> CharAt(h, i)] /\ Text(k) = [i \in Slots(len) |-> CharAt(k, i)]
    BY <1>3 DEF Text
<1> HIDE DEF a, b, cap, gs, ge, p, len
<1>8. p \in Nat
    BY <1>1, <1>2
<1>9. b \in [Slots(cap) -> Nat]
  <2> SUFFICES ASSUME NEW x \in Slots(cap)
               PROVE  (IF p <= x /\ x < p + n THEN s[x - p] ELSE a[x]) \in Nat
    BY <1>1, <1>5 DEF Written
  <2>1. CASE p <= x /\ x < p + n
    <3>1. x - p \in Slots(n)
      BY <1>1, <1>8, <2>1 DEF Slots
    <3>2. s[x - p] \in Chars
      BY <3>1 DEF Strings
    <3> QED
      BY <2>1, <3>2, GapAssumption
  <2>2. CASE ~(p <= x /\ x < p + n)
    BY <1>1, <2>2
  <2> QED
    BY <2>1, <2>2
<1>10. Vector(k)
    BY <1>1, <1>6, <1>9 DEF Vector
<1>11. \A i \in Slots(len) :
          At(b, gs, ge, i) = IF start <= i /\ i < start + n THEN s[i - start] ELSE At(a, gs, ge, i)
  <2> SUFFICES ASSUME NEW i \in Slots(len)
               PROVE  At(b, gs, ge, i) = IF start <= i /\ i < start + n THEN s[i - start]
                                         ELSE At(a, gs, ge, i)
    OBVIOUS
  <2> DEFINE x == IF i < gs THEN i ELSE i + (ge - gs)
  <2>1. i \in Nat /\ i < len
    BY <1>1 DEF Slots
  <2>2. At(b, gs, ge, i) = b[x] /\ At(a, gs, ge, i) = a[x]
    BY DEF At
  <2>3. x \in DOMAIN a
    BY <1>1, <2>1 DEF Slots
  <2>4. b[x] = IF p <= x /\ x < p + n THEN s[x - p] ELSE a[x]
    BY <1>5, <2>3 DEF Written
  <2>5. (p <= x /\ x < p + n) <=> (start <= i /\ i < start + n)
    BY <1>1, <1>2, <2>1
  <2>6. (start <= i /\ i < start + n) => x - p = i - start
    BY <1>1, <1>2, <2>1
  <2> HIDE DEF x
  <2> QED
    BY <2>2, <2>4, <2>5, <2>6
<1>12. Text(k) = Plain!Overwritten(Text(h), len, start, n, s)
    BY <1>4, <1>7, <1>11 DEF Plain!Overwritten, Plain!Slots, Slots
<1> QED
    BY <1>3, <1>10, <1>12 DEF len

\* Overwriting, with the bytes exchanged in the count, leaves a sound buffer.
LEMMA RewriteRight ==
    ASSUME NEW g, Sound(g), Caches(g), NEW n \in Nat, NEW start \in 0 .. (TextLen(g) - n),
           NEW s \in Strings(n), NEW end, end = start + n,
           NEW h, Vector(h), TextLen(h) = TextLen(g), Text(h) = Text(g),
           ~(start < h.gap_start /\ h.gap_start < end),
           NEW k, IsRecord(k), k.buf = Written(h.buf, Physical(h, start), n, s),
           k.capacity = h.capacity, k.gap_start = h.gap_start, k.gap_end = h.gap_end,
           k.text_bytes = g.text_bytes - TextBytes(Text(g), start, end, g.multibyte)
                            + TextBytes(s, 0, n, g.multibyte),
           k.text_bytes <= k.capacity, k.multibyte = g.multibyte,
           k.mod_count = g.mod_count + 1, k.flat = {}, k.lines = g.lines
    PROVE  /\ Sound(k) /\ Caches(k) /\ TextLen(k) = TextLen(g)
           /\ Text(k) = Plain!Overwritten(Text(g), TextLen(g), start, n, s)
<1>1. /\ Vector(k) /\ TextLen(k) = TextLen(g)
      /\ Text(k) = Plain!Overwritten(Text(g), TextLen(g), start, n, s)
    BY WrittenOver
<1>2. TextLen(g) \in Nat /\ start \in Nat /\ start + n <= TextLen(g)
    BY VectorFacts DEF Sound
<1>3. k.text_bytes = TextBytes(Text(k), 0, TextLen(k), k.multibyte)
  <2>1. TextBytes(Plain!Overwritten(Text(g), TextLen(g), start, n, s), 0, TextLen(g), g.multibyte)
           = TextBytes(Text(g), 0, TextLen(g), g.multibyte)
               - TextBytes(Text(g), start, end, g.multibyte) + TextBytes(s, 0, n, g.multibyte)
    BY <1>2, OverwrittenBytes
  <2> QED
    BY <1>1, <2>1 DEF Sound
<1>4. Text(k) \in Strings(TextLen(k))
  <2>1. \A i \in Slots(TextLen(g)) : Text(g)[i] \in Chars
    BY DEF Sound, Strings
  <2>2. \A i \in Slots(TextLen(g)) : (start <= i /\ i < start + n) => s[i - start] \in Chars
    <3> SUFFICES ASSUME NEW i \in Slots(TextLen(g)), start <= i, i < start + n
                 PROVE  s[i - start] \in Chars
      OBVIOUS
    <3>1. i - start \in Slots(n)
      BY <1>2 DEF Slots
    <3> QED
      BY <3>1 DEF Strings
  <2> QED
    BY <1>1, <2>1, <2>2 DEF Plain!Overwritten, Plain!Slots, Slots, Strings
<1>5. Aged(k) /\ k.mod_count \in Nat
    BY DEF Aged, Caches, Sound
<1>6. Caches(k)
    BY <1>5, AgedCaches
<1> QED
    BY <1>1, <1>3, <1>4, <1>5, <1>6 DEF Sound

\* One character for another: the gap stays where it is, and a wider one finds its bytes.
LEMMA SetCharAtRight ==
    ASSUME NEW g, Sound(g), Caches(g), NEW i \in Slots(TextLen(g)), NEW c \in Chars
    PROVE  LET h == SetCharAt(g, i, c)
           IN  /\ Sound(h) /\ Caches(h) /\ TextLen(h) = TextLen(g)
               /\ Text(h) = Plain!Overwritten(Text(g), TextLen(g), i, 1, [x \in Slots(1) |-> c])
<1> DEFINE before == StorageBytes(CharAt(g, i), g.multibyte)
           after == StorageBytes(c, g.multibyte)
           g1 == Touched(g)
           h == EnsureGap(g1, after - before)
           k == SetCharAt(g, i, c)
           s == [x \in Slots(1) |-> c]
           p == Physical(h, i)
           end == i + 1
<1>0. TextLen(g) \in Nat /\ i \in Nat /\ i < TextLen(g)
    BY VectorFacts DEF Sound, Slots
<1>1. CharAt(g, i) = Text(g)[i] /\ Text(g)[i] \in Chars /\ g.multibyte \in BOOLEAN
    BY DEF Text, Sound, Strings
<1>2. before = TextBytes(Text(g), i, end, g.multibyte) /\ before \in 1 .. 5
  <2>1. TextBytes(Text(g), i, i + 1, g.multibyte) = StorageBytes(Text(g)[i], g.multibyte)
    BY <1>0, <1>1, BytesOne
  <2>2. StorageBytes(Text(g)[i], g.multibyte) \in 1 .. 5
    BY <1>1, WidthType
  <2> QED
    BY <1>1, <2>1, <2>2
<1>3. after = TextBytes(s, 0, 1, g.multibyte) /\ after \in 1 .. 5 /\ s \in Strings(1)
  <2>1. s[0] = c /\ s \in Strings(1)
    BY DEF Slots, Strings
  <2> HIDE DEF s
  <2>2. TextBytes(s, 0, 0 + 1, g.multibyte) = StorageBytes(s[0], g.multibyte)
    BY <1>1, <2>1, BytesOne
  <2> QED
    BY <1>1, <2>1, <2>2, WidthType
<1>4. k = [h EXCEPT !.buf = [h.buf EXCEPT ![p] = c], !.text_bytes = h.text_bytes - before + after]
    BY DEF SetCharAt
<1> HIDE DEF before, after, s, end
<1>5. /\ Vector(g1) /\ TextLen(g1) = TextLen(g) /\ Text(g1) = Text(g)
      /\ g1.text_bytes = g.text_bytes /\ g1.multibyte = g.multibyte
      /\ g1.mod_count = g.mod_count + 1 /\ g1.flat = {} /\ g1.lines = g.lines
  <2>1. /\ Vector(g1) /\ TextLen(g1) = TextLen(g) /\ Text(g1) = Text(g)
        /\ g1.text_bytes = g.text_bytes /\ g1.multibyte = g.multibyte
        /\ g1.mod_count = g.mod_count + 1 /\ Aged(g1)
    BY TouchedKeeps DEF Sound
  <2>2. g1.lines = g.lines
    BY DEF Touched, Sound, Vector, IsRecord
  <2> QED
    BY <2>1, <2>2 DEF Aged
<1> HIDE DEF g1
<1>6. g.text_bytes \in Nat
    BY SoundFacts
<1>7. after - before \in Int
    BY <1>2, <1>3
<1>8. /\ Vector(h) /\ TextLen(h) = TextLen(g) /\ Text(h) = Text(g) /\ Rest(h) = Rest(g1)
      /\ h.capacity - g.text_bytes >= after - before
    BY <1>5, <1>6, <1>7, EnsureGapKeeps
<1> HIDE DEF h, k
<1>9. /\ IsRecord(k) /\ k.buf = [h.buf EXCEPT ![p] = c] /\ k.capacity = h.capacity
      /\ k.gap_start = h.gap_start /\ k.gap_end = h.gap_end
      /\ k.text_bytes = h.text_bytes - before + after /\ k.multibyte = h.multibyte
      /\ k.flat = h.flat /\ k.mod_count = h.mod_count /\ k.lines = h.lines
  <2> DEFINE b == [h.buf EXCEPT ![p] = c]
             n == h.text_bytes - before + after
  <2> HIDE DEF b, n
  <2>1. k = [h EXCEPT !.buf = b, !.text_bytes = n]
    BY <1>4 DEF b, n
  <2>2. /\ IsRecord(k) /\ k.buf = b /\ k.capacity = h.capacity
        /\ k.gap_start = h.gap_start /\ k.gap_end = h.gap_end
        /\ k.text_bytes = n /\ k.multibyte = h.multibyte
        /\ k.flat = h.flat /\ k.mod_count = h.mod_count /\ k.lines = h.lines
    BY <1>8, <2>1 DEF Vector, IsRecord
  <2> QED
    BY <2>2 DEF b, n
<1>10. /\ h.text_bytes = g.text_bytes /\ h.multibyte = g.multibyte /\ h.flat = {}
       /\ h.mod_count = g.mod_count + 1 /\ h.lines = g.lines
    BY <1>5, <1>8 DEF Rest
<1>11. p \in Nat
    BY <1>0, <1>8 DEF Vector, Physical, GapSlots
<1>12. k.buf = Written(h.buf, p, 1, s)
  <2> HIDE DEF p
  <2>1. DOMAIN h.buf \subseteq Int
    BY <1>8 DEF Vector, Slots
  <2>2. \A x \in DOMAIN h.buf : (p <= x /\ x < p + 1) <=> x = p
    BY <1>11, <2>1
  <2>3. s[p - p] = c
    BY <1>11 DEF s, Slots
  <2>4. [h.buf EXCEPT ![p] = c] = [x \in DOMAIN h.buf |-> IF x = p THEN c ELSE h.buf[x]]
    OBVIOUS
  <2> QED
    BY <1>9, <2>2, <2>3, <2>4 DEF Written
<1>13. k.text_bytes <= k.capacity
    BY <1>2, <1>3, <1>6, <1>8, <1>9, <1>10 DEF Vector
<1>14. i \in 0 .. (TextLen(g) - 1) /\ end = i + 1 /\ ~(i < h.gap_start /\ h.gap_start < end)
    BY <1>0, <1>8 DEF Vector, end
<1>15. k.text_bytes = g.text_bytes - TextBytes(Text(g), i, end, g.multibyte)
                        + TextBytes(s, 0, 1, g.multibyte)
    BY <1>2, <1>3, <1>9, <1>10
<1> HIDE DEF p
<1>16. /\ Sound(k) /\ Caches(k) /\ TextLen(k) = TextLen(g)
       /\ Text(k) = Plain!Overwritten(Text(g), TextLen(g), i, 1, s)
    BY <1>3, <1>8, <1>9, <1>10, <1>12, <1>13, <1>14, <1>15, RewriteRight DEF p
<1> QED
    BY <1>16 DEF k, s

\* A region for one of the same length: a gap inside it moves to one of its ends.
LEMMA ReplaceRight ==
    ASSUME NEW g, Sound(g), Caches(g), NEW n \in Nat, NEW start \in 0 .. (TextLen(g) - n),
           NEW s \in Strings(n)
    PROVE  LET h == ReplaceSameLength(g, start, n, s)
           IN  /\ Sound(h) /\ Caches(h) /\ TextLen(h) = TextLen(g)
               /\ Text(h) = Plain!Overwritten(Text(g), TextLen(g), start, n, s)
<1> DEFINE end == start + n
           before == TextBytes(Text(g), start, end, g.multibyte)
           after == TextBytes(s, 0, n, g.multibyte)
           g1 == EnsureGap(g, after - before)
           h == OutOfTheWay(g1, start, end)
           b == Written(h.buf, Physical(h, start), n, s)
           w == [h EXCEPT !.buf = b, !.text_bytes = h.text_bytes - before + after]
           k == ReplaceSameLength(g, start, n, s)
<1>0. /\ TextLen(g) \in Nat /\ start \in Nat /\ end \in Nat /\ start + n <= TextLen(g)
      /\ end = start + n /\ Vector(g)
    BY VectorFacts DEF Sound
<1>1. k = Touched(w)
    BY DEF ReplaceSameLength
<1> HIDE DEF end
<1>2. before \in Nat /\ after \in Nat /\ g.text_bytes \in Nat
    BY <1>0, CellsFinite, SoundFacts
<1> HIDE DEF before, after
<1>3. after - before \in Int
    BY <1>2
<1>4. /\ Vector(g1) /\ TextLen(g1) = TextLen(g) /\ Text(g1) = Text(g) /\ Rest(g1) = Rest(g)
      /\ g1.capacity - g.text_bytes >= after - before
    BY <1>0, <1>2, <1>3, EnsureGapKeeps
<1> HIDE DEF g1
<1>5. /\ Vector(h) /\ TextLen(h) = TextLen(g) /\ Text(h) = Text(g) /\ Rest(h) = Rest(g)
      /\ h.capacity = g1.capacity /\ ~(start < h.gap_start /\ h.gap_start < end)
  <2> DEFINE to == IF g1.gap_start - start < end - g1.gap_start THEN start ELSE end
  <2>1. CASE start < g1.gap_start /\ g1.gap_start < end
    <3>1. h = MoveGap(g1, to)
      BY <2>1 DEF OutOfTheWay
    <3>2. to \in 0 .. TextLen(g1) /\ (to = start \/ to = end)
      BY <1>0, <1>4
    <3> HIDE DEF to, h
    <3>3. /\ Vector(h) /\ TextLen(h) = TextLen(g1) /\ Text(h) = Text(g1) /\ Rest(h) = Rest(g1)
          /\ h.capacity = g1.capacity /\ h.gap_start = to
      BY <1>4, <3>1, <3>2, MoveGapKeeps
    <3>4. ~(start < to /\ to < end)
      BY <1>0, <3>2
    <3> QED
      BY <1>4, <3>3, <3>4
  <2>2. CASE ~(start < g1.gap_start /\ g1.gap_start < end)
    <3>1. h = g1
      BY <2>2 DEF OutOfTheWay
    <3> QED
      BY <1>4, <2>2, <3>1
  <2> QED
    BY <2>1, <2>2
<1>6. /\ h.text_bytes = g.text_bytes /\ h.multibyte = g.multibyte
      /\ h.mod_count = g.mod_count /\ h.lines = g.lines
    BY <1>5 DEF Rest
<1> DEFINE total == h.text_bytes - before + after
<1>7. k = [h EXCEPT !.buf = b, !.text_bytes = total, !.mod_count = h.mod_count + 1, !.flat = {}]
  <2> HIDE DEF b, total, h
  <2>1. w = [h EXCEPT !.buf = b, !.text_bytes = total]
    BY DEF total
  <2>2. w.mod_count = h.mod_count
    BY <1>5, <2>1 DEF Vector, IsRecord
  <2> HIDE DEF w
  <2>3. Touched(w) = [w EXCEPT !.mod_count = h.mod_count + 1, !.flat = {}]
    BY <2>2 DEF Touched
  <2> QED
    BY <1>1, <1>5, <2>1, <2>3 DEF Vector, IsRecord
<1>8. /\ IsRecord(k) /\ k.buf = b /\ k.capacity = h.capacity
      /\ k.gap_start = h.gap_start /\ k.gap_end = h.gap_end
      /\ k.text_bytes = total /\ k.multibyte = h.multibyte
      /\ k.flat = {} /\ k.mod_count = h.mod_count + 1 /\ k.lines = h.lines
  <2> HIDE DEF b, total, h, k
  <2> QED
    BY <1>5, <1>7 DEF Vector, IsRecord
<1> HIDE DEF h, k, w
<1>9. k.text_bytes <= k.capacity
    BY <1>2, <1>4, <1>5, <1>6, <1>8 DEF Vector
<1>10. k.text_bytes = g.text_bytes - TextBytes(Text(g), start, end, g.multibyte)
                        + TextBytes(s, 0, n, g.multibyte)
    BY <1>6, <1>8 DEF before, after
<1>11. k.buf = Written(h.buf, Physical(h, start), n, s)
    BY <1>8
<1> HIDE DEF b, total
<1>12. /\ Sound(k) /\ Caches(k) /\ TextLen(k) = TextLen(g)
       /\ Text(k) = Plain!Overwritten(Text(g), TextLen(g), start, n, s)
    BY <1>0, <1>5, <1>6, <1>8, <1>9, <1>10, <1>11, RewriteRight
<1> QED
    BY <1>12 DEF k

\* Another representation: the same text, its bytes counted anew and given room.
LEMMA SetMultibyteRight ==
    ASSUME NEW g, Sound(g), Caches(g), NEW mb \in BOOLEAN
    PROVE  LET h == SetMultibyte(g, mb)
           IN  Sound(h) /\ Caches(h) /\ TextLen(h) = TextLen(g) /\ Text(h) = Text(g)
<1>1. CASE g.multibyte = mb
    BY <1>1 DEF SetMultibyte
<1>2. CASE g.multibyte # mb
  <2> DEFINE bytes == TextBytes(Text(g), 0, TextLen(g), mb)
             h == EnsureGap(g, bytes - g.text_bytes)
             k == SetMultibyte(g, mb)
  <2>1. k = [h EXCEPT !.text_bytes = bytes, !.multibyte = mb]
    BY <1>2 DEF SetMultibyte
  <2>2. TextLen(g) \in Nat /\ g.text_bytes \in Nat /\ Vector(g)
    BY VectorFacts, SoundFacts DEF Sound
  <2>3. bytes \in Nat
    BY <2>2, CellsFinite
  <2> HIDE DEF bytes
  <2>4. bytes - g.text_bytes \in Int
    BY <2>2, <2>3
  <2>5. /\ Vector(h) /\ TextLen(h) = TextLen(g) /\ Text(h) = Text(g) /\ Rest(h) = Rest(g)
        /\ h.capacity - g.text_bytes >= bytes - g.text_bytes
    BY <2>2, <2>4, EnsureGapKeeps
  <2> HIDE DEF h, k
  <2>6. /\ IsRecord(k) /\ k.buf = h.buf /\ k.capacity = h.capacity
        /\ k.gap_start = h.gap_start /\ k.gap_end = h.gap_end
        /\ k.text_bytes = bytes /\ k.multibyte = mb
        /\ k.flat = h.flat /\ k.mod_count = h.mod_count /\ k.lines = h.lines
    BY <2>1, <2>5 DEF Vector, IsRecord
  <2>7. h.flat = g.flat /\ h.mod_count = g.mod_count /\ h.lines = g.lines
    BY <2>5 DEF Rest
  <2>8. Vector(k)
    BY <2>5, <2>6 DEF Vector
  <2>9. TextLen(k) = TextLen(g)
    BY <2>5, <2>6 DEF TextLen, GapSlots
  <2>10. Text(k) = Text(h)
    BY <2>6 DEF Text, CharAt, TextLen, GapSlots
  <2>11. Text(k) = Text(g)
    BY <2>5, <2>10
  <2>12. k.text_bytes <= k.capacity
    BY <2>2, <2>3, <2>5, <2>6 DEF Vector
  <2>13. k.text_bytes = TextBytes(Text(k), 0, TextLen(k), k.multibyte)
    BY <2>6, <2>9, <2>11 DEF bytes
  <2>14. Sound(k)
    BY <2>6, <2>7, <2>8, <2>9, <2>11, <2>12, <2>13 DEF Sound
  <2>15. Caches(k)
    BY <2>6, <2>7, <2>9, <2>11 DEF Caches
  <2> QED
    BY <2>9, <2>11, <2>14, <2>15 DEF k
<1> QED
    BY <1>1, <1>2

\* What is loaded from a dump is what was dumped, without the caches.
LEMMA RestoredRight ==
    ASSUME NEW g, Sound(g)
    PROVE  LET h == Restored(g)
           IN  Sound(h) /\ Caches(h) /\ TextLen(h) = TextLen(g) /\ Text(h) = Text(g)
<1> DEFINE cap == g.capacity
           gs == g.gap_start
           ge == g.gap_end
           len == TextLen(g)
           t == Text(g)
           b == [x \in DOMAIN g.buf |-> IF x < gs THEN t[x]
                                        ELSE IF x < ge THEN Nul ELSE t[x - GapSlots(g)]]
           bytes == TextBytes(t, 0, len, g.multibyte)
           k == Restored(g)
<1>1. k = [g EXCEPT !.buf = b, !.text_bytes = bytes, !.flat = {}, !.lines = {}]
    BY DEF Restored
<1>2. /\ cap \in Nat /\ gs \in Nat /\ ge \in Nat /\ gs <= ge /\ ge <= cap
      /\ DOMAIN g.buf = Slots(cap) /\ len = cap - (ge - gs) /\ len \in Nat
      /\ GapSlots(g) = ge - gs /\ IsRecord(g)
    BY VectorFacts DEF Sound, Vector, TextLen, GapSlots
<1>3. bytes = g.text_bytes /\ bytes <= cap
    BY DEF Sound
<1>4. \A i \in Slots(len) : t[i] \in Chars
    BY DEF Sound, Strings
<1>5. \A i : CharAt(g, i) = At(g.buf, gs, ge, i)
    BY DEF CharAt, GapSlots, At
<1>6. t = [i \in Slots(len) |-> CharAt(g, i)]
    BY DEF Text
<1> HIDE DEF cap, gs, ge, len, t, bytes
<1>7. b = [x \in Slots(cap) |-> IF x < gs THEN t[x] ELSE IF x < ge THEN Nul ELSE t[x - (ge - gs)]]
    BY <1>2
<1> HIDE DEF b, k
<1>8. /\ IsRecord(k) /\ k.buf = b /\ k.capacity = cap /\ k.gap_start = gs /\ k.gap_end = ge
      /\ k.text_bytes = bytes /\ k.multibyte = g.multibyte
      /\ k.flat = {} /\ k.mod_count = g.mod_count /\ k.lines = {}
    BY <1>1, <1>2 DEF IsRecord, cap, gs, ge
<1>9. b \in [Slots(cap) -> Nat]
  <2> SUFFICES ASSUME NEW x \in Slots(cap)
               PROVE  (IF x < gs THEN t[x] ELSE IF x < ge THEN Nul ELSE t[x - (ge - gs)]) \in Nat
    BY <1>7
  <2>1. x < gs => x \in Slots(len)
    BY <1>2 DEF Slots
  <2>2. ~(x < ge) => x - (ge - gs) \in Slots(len)
    BY <1>2 DEF Slots
  <2>3. \A i \in Slots(len) : t[i] \in Nat
    BY <1>4, GapAssumption
  <2> QED
    BY <2>1, <2>2, <2>3 DEF Nul
<1>10. Vector(k)
    BY <1>2, <1>8, <1>9 DEF Vector
<1>11. TextLen(k) = len
    BY <1>2, <1>8 DEF TextLen, GapSlots
<1>12. \A i \in Slots(len) : CharAt(k, i) = t[i]
  <2> SUFFICES ASSUME NEW i \in Slots(len)
               PROVE  CharAt(k, i) = t[i]
    OBVIOUS
  <2>1. CharAt(k, i) = IF i < gs THEN b[i] ELSE b[i + (ge - gs)]
    BY <1>8 DEF CharAt, GapSlots
  <2>2. CASE i < gs
    <3>1. i \in Slots(cap)
      BY <1>2 DEF Slots
    <3> QED
      BY <1>7, <2>1, <2>2, <3>1
  <2>3. CASE ~(i < gs)
    <3> DEFINE x == i + (ge - gs)
    <3>1. x \in Slots(cap) /\ ~(x < gs) /\ ~(x < ge) /\ x - (ge - gs) = i
      BY <1>2, <2>3 DEF Slots
    <3> QED
      BY <1>7, <2>1, <2>3, <3>1
  <2> QED
    BY <2>2, <2>3
<1>13. Text(k) = t
    BY <1>6, <1>11, <1>12 DEF Text
<1>14. Caches(k)
    BY <1>8 DEF Caches, Single
<1>15. Sound(k)
    BY <1>3, <1>4, <1>8, <1>10, <1>11, <1>13 DEF Sound, bytes, t, len
<1> QED
    BY <1>11, <1>13, <1>14, <1>15 DEF k, t, len

-----------------------------------------------------------------------------
(***************************************************************************)
(* Reading.                                                                *)
(***************************************************************************)
\* The text in one piece is the text, wherever the gap is.
LEMMA ProjectedRight ==
    ASSUME NEW g, Sound(g), Caches(g)
    PROVE  LET h == Projected(g)
           IN  /\ Sound(h) /\ Caches(h) /\ TextLen(h) = TextLen(g) /\ Text(h) = Text(g)
               /\ AsSlice(h) = Text(g)
<1> DEFINE h == Projected(g)
<1>0. /\ g.gap_start \in Nat /\ g.gap_end \in Nat /\ g.capacity \in Nat
      /\ g.gap_start <= g.gap_end /\ g.gap_end <= g.capacity /\ IsRecord(g)
    BY DEF Sound, Vector
<1>1. CASE g.gap_end = g.capacity
  <2>1. h = g
    BY <1>1 DEF Projected
  <2>2. TextLen(g) = g.gap_start
    BY <1>0, <1>1 DEF TextLen, GapSlots
  <2>3. AsSlice(g) = [i \in Slots(g.gap_start) |-> g.buf[i]]
    BY <1>1 DEF AsSlice
  <2>4. \A i \in Slots(g.gap_start) : CharAt(g, i) = g.buf[i]
    BY <1>0 DEF CharAt, Slots
  <2> QED
    BY <2>1, <2>2, <2>3, <2>4 DEF Text
<1>2. CASE g.gap_end # g.capacity /\ g.gap_start = 0
  <2>1. h = g
    BY <1>2 DEF Projected
  <2>2. TextLen(g) = g.capacity - g.gap_end
    BY <1>0, <1>2 DEF TextLen, GapSlots
  <2>3. AsSlice(g) = [i \in Slots(g.capacity - g.gap_end) |-> g.buf[i + g.gap_end]]
    BY <1>2 DEF AsSlice
  <2>4. \A i \in Slots(g.capacity - g.gap_end) : CharAt(g, i) = g.buf[i + g.gap_end]
    BY <1>0, <1>2 DEF CharAt, GapSlots, Slots
  <2> QED
    BY <2>1, <2>2, <2>3, <2>4 DEF Text
<1>3. CASE g.gap_end # g.capacity /\ g.gap_start # 0 /\ g.flat # {}
  <2>1. h = g
    BY <1>3 DEF Projected
  <2>2. g.flat = {Text(g)}
    BY <1>3 DEF Caches
  <2>3. AsSlice(g) = CHOOSE t \in {Text(g)} : TRUE
    BY <1>3, <2>2 DEF AsSlice
  <2> QED
    BY <2>1, <2>3
<1>4. CASE g.gap_end # g.capacity /\ g.gap_start # 0 /\ g.flat = {}
  <2>1. h = [g EXCEPT !.flat = {Text(g)}]
    BY <1>4 DEF Projected
  <2> HIDE DEF h
  <2>2. /\ IsRecord(h) /\ h.buf = g.buf /\ h.capacity = g.capacity
        /\ h.gap_start = g.gap_start /\ h.gap_end = g.gap_end
        /\ h.text_bytes = g.text_bytes /\ h.multibyte = g.multibyte
        /\ h.flat = {Text(g)} /\ h.mod_count = g.mod_count /\ h.lines = g.lines
    BY <1>0, <2>1 DEF IsRecord
  <2>3. TextLen(h) = TextLen(g) /\ Text(h) = Text(g)
    BY <2>2 DEF Text, CharAt, TextLen, GapSlots
  <2>4. Sound(h)
    BY <2>2, <2>3 DEF Sound, Vector
  <2>5. Caches(h)
    BY <2>2, <2>3 DEF Caches
  <2>6. AsSlice(h) = CHOOSE t \in {Text(g)} : TRUE
    BY <1>4, <2>2 DEF AsSlice
  <2>7. AsSlice(h) = Text(g)
    BY <2>6
  <2> QED
    BY <2>3, <2>4, <2>5, <2>7 DEF h
<1> QED
    BY <1>1, <1>2, <1>3, <1>4

\* The newlines are those of the text, whether they were looked for now or before.
LEMMA IndexedRight ==
    ASSUME NEW g, Sound(g), Caches(g)
    PROVE  LET h == Indexed(g)
           IN  /\ Sound(h) /\ Caches(h) /\ TextLen(h) = TextLen(g) /\ Text(h) = Text(g)
               /\ NewlineIndex(g) = Plain!NewlinesOf(Text(g), TextLen(g))
<1> DEFINE h == Indexed(g)
           found == Plain!NewlinesOf(Text(g), TextLen(g))
<1>1. CASE Current(g) # {}
  <2>1. h = g
    BY <1>1 DEF Indexed
  <2>2. PICK l \in g.lines : l.tick = g.mod_count
    BY <1>1 DEF Current
  <2>3. g.lines = {l} /\ l.at = found
    BY <2>2 DEF Caches, Single
  <2>4. NewlineIndex(g) = (CHOOSE m \in {l} : TRUE).at
    BY <2>1, <2>3 DEF NewlineIndex
  <2>5. (CHOOSE m \in {l} : TRUE) = l
    OBVIOUS
  <2> QED
    BY <2>1, <2>3, <2>4, <2>5
<1>2. CASE Current(g) = {}
  <2> DEFINE at == {i \in Slots(TextLen(g)) : CharAt(g, i) = Plain!NewlineChar}
             line == [tick |-> g.mod_count, at |-> at]
  <2>1. h = [g EXCEPT !.lines = {line}]
    BY <1>2 DEF Indexed
  <2>2. at = found
    BY DEF Text, Plain!NewlinesOf, Plain!Slots, Slots
  <2> HIDE DEF at, found
  <2>3. line.tick = g.mod_count /\ line.at = found
    BY <2>2
  <2> HIDE DEF h, line
  <2>4. IsRecord(g)
    BY DEF Sound, Vector
  <2>5. /\ IsRecord(h) /\ h.buf = g.buf /\ h.capacity = g.capacity
        /\ h.gap_start = g.gap_start /\ h.gap_end = g.gap_end
        /\ h.text_bytes = g.text_bytes /\ h.multibyte = g.multibyte
        /\ h.flat = g.flat /\ h.mod_count = g.mod_count /\ h.lines = {line}
    BY <2>1, <2>4 DEF IsRecord
  <2>6. TextLen(h) = TextLen(g) /\ Text(h) = Text(g)
    BY <2>5 DEF Text, CharAt, TextLen, GapSlots
  <2>7. Sound(h)
    BY <2>5, <2>6 DEF Sound, Vector
  <2>8. Caches(h)
    BY <2>3, <2>5, <2>6 DEF Caches, Single, Sound, found
  <2>9. NewlineIndex(g) = (CHOOSE m \in {line} : TRUE).at
    BY <2>5 DEF NewlineIndex, h
  <2>10. NewlineIndex(g) = found
    BY <2>3, <2>9
  <2> QED
    BY <2>6, <2>7, <2>8, <2>10 DEF h, found
<1> QED
    BY <1>1, <1>2

-----------------------------------------------------------------------------
(***************************************************************************)
(* The buffer as it goes: what its methods keep, they keep for ever.       *)
(***************************************************************************)
IInv == Sound(gap) /\ Caches(gap)

\* A fresh buffer is sound, and its text is empty.
LEMMA InitRight ==
    ASSUME Init
    PROVE  IInv /\ Plain!Init
<1> DEFINE b == [x \in Slots(GapInit) |-> Nul]
<1>1. /\ IsRecord(gap) /\ gap.buf = b /\ gap.capacity = GapInit
      /\ gap.gap_start = 0 /\ gap.gap_end = GapInit /\ gap.text_bytes = 0
      /\ gap.multibyte = TRUE /\ gap.flat = {} /\ gap.mod_count = 0 /\ gap.lines = {}
    BY DEF Init, New, IsRecord
<1>2. GapInit \in Nat
    BY GapAssumption
<1>3. b \in [Slots(GapInit) -> Nat]
    BY DEF Nul
<1> HIDE DEF b
<1>4. Vector(gap)
    BY <1>1, <1>2, <1>3 DEF Vector
<1>5. TextLen(gap) = 0
    BY <1>1, <1>2 DEF TextLen, GapSlots
<1>6. Slots(0) = {}
    BY DEF Slots
<1>7. Text(gap) \in Strings(0)
    BY <1>5, <1>6 DEF Text, Strings
<1>8. TextBytes(Text(gap), 0, 0, gap.multibyte) = 0
  <2> DEFINE t == Text(gap)
             mb == gap.multibyte
  <2> HIDE DEF t, mb
  <2>1. TextBytes(t, 0, 0, mb) = 0
    BY BytesNone
  <2> QED
    BY <2>1 DEF t, mb
<1>9. Sound(gap)
  <2>1. gap.text_bytes = TextBytes(Text(gap), 0, TextLen(gap), gap.multibyte)
    BY <1>1, <1>5, <1>8
  <2>2. gap.text_bytes <= gap.capacity /\ gap.mod_count \in Nat
    BY <1>1, <1>2
  <2>3. gap.multibyte \in BOOLEAN
    BY <1>1
  <2>4. Text(gap) \in Strings(TextLen(gap))
    BY <1>5, <1>7
  <2> QED
    BY <1>4, <2>1, <2>2, <2>3, <2>4 DEF Sound
<1>10. Caches(gap)
    BY <1>1 DEF Caches, Single
<1>11. Plain!Init
    BY <1>5, <1>7 DEF Init, Plain!Init, Plain!Strings, Plain!Slots, Strings, Slots
<1> QED
    BY <1>9, <1>10, <1>11 DEF IInv

\* Every operation keeps the buffer sound, and is one of a plain text.
LEMMA NextRight ==
    ASSUME IInv, Next
    PROVE  IInv' /\ Plain!Next
<1> USE DEF IInv, Change, Answer
<1>0. Sound(gap) /\ Caches(gap) /\ TextLen(gap) \in Nat
    BY VectorFacts DEF Sound
<1>1. \A n : Plain!Strings(n) = Strings(n)
    BY DEF Plain!Strings, Plain!Slots, Strings, Slots
<1>2. Sizes \subseteq Nat
    BY GapAssumption
<1>3. ASSUME NEW n \in Sizes, NEW s \in Strings(n), NEW pos \in 0 .. TextLen(gap), DoInsert(pos, n, s)
      PROVE  IInv' /\ Plain!Next
  <2>1. gap' = Insert(gap, pos, n, s) /\ answer' = {}
    BY <1>3 DEF DoInsert
  <2>2. /\ Sound(gap') /\ Caches(gap') /\ TextLen(gap') = TextLen(gap) + n
        /\ Text(gap') = Plain!Inserted(Text(gap), TextLen(gap), pos, n, s)
    BY <1>0, <1>2, <2>1, InsertRight
  <2>3. Plain!Insert
    BY <1>1, <2>1, <2>2 DEF Plain!Insert, Plain!Become
  <2> QED
    BY <2>2, <2>3 DEF Plain!Next
<1>4. ASSUME NEW n \in Sizes, NEW s \in Strings(n), NEW start \in 0 .. (TextLen(gap) - n),
             DoReplace(start, n, s)
      PROVE  IInv' /\ Plain!Next
  <2>1. gap' = ReplaceSameLength(gap, start, n, s) /\ answer' = {}
    BY <1>4 DEF DoReplace
  <2>2. /\ Sound(gap') /\ Caches(gap') /\ TextLen(gap') = TextLen(gap)
        /\ Text(gap') = Plain!Overwritten(Text(gap), TextLen(gap), start, n, s)
    BY <1>0, <1>2, <2>1, ReplaceRight
  <2>3. start \in 0 .. TextLen(gap) /\ n \in 0 .. (TextLen(gap) - start)
    BY <1>0, <1>2
  <2>4. Plain!Overwrite
    BY <1>1, <2>1, <2>2, <2>3 DEF Plain!Overwrite, Plain!Become
  <2> QED
    BY <2>2, <2>4 DEF Plain!Next
<1>5. ASSUME NEW n \in Sizes, NEW s \in Strings(n), DoSetText(n, s)
      PROVE  IInv' /\ Plain!Next
  <2>1. gap' = SetText(gap, n, s) /\ answer' = {}
    BY <1>5 DEF DoSetText
  <2>2. Sound(gap') /\ Caches(gap') /\ TextLen(gap') = n /\ Text(gap') = s
    BY <1>0, <1>2, <2>1, SetTextRight
  <2>3. Plain!SetText
    BY <1>1, <2>1, <2>2 DEF Plain!SetText, Plain!Become
  <2> QED
    BY <2>2, <2>3 DEF Plain!Next
<1>6. ASSUME NEW start \in 0 .. TextLen(gap), NEW end \in 0 .. TextLen(gap), DoDelete(start, end)
      PROVE  IInv' /\ Plain!Next
  <2>1. gap' = Delete(gap, start, end) /\ answer' = {}
    BY <1>6 DEF DoDelete
  <2>2. CASE start < end
    <3>1. /\ Sound(gap') /\ Caches(gap') /\ TextLen(gap') = TextLen(gap) - (end - start)
          /\ Text(gap') = Plain!Deleted(Text(gap), TextLen(gap), start, end)
      BY <1>0, <2>1, <2>2, DeleteRight
    <3>2. Plain!Delete
      BY <2>1, <2>2, <3>1 DEF Plain!Delete, Plain!Become
    <3> QED
      BY <3>1, <3>2 DEF Plain!Next
  <2>3. CASE ~(start < end)
    <3>1. gap' = gap
      BY <1>0, <2>1, <2>3 DEF Delete
    <3> QED
      BY <1>0, <2>1, <3>1 DEF Plain!Next, Plain!Forget
  <2> QED
    BY <2>2, <2>3
<1>7. ASSUME NEW i \in Slots(TextLen(gap)), NEW c \in Chars, DoSetCharAt(i, c)
      PROVE  IInv' /\ Plain!Next
  <2> DEFINE s == [x \in Slots(1) |-> c]
  <2>1. gap' = SetCharAt(gap, i, c) /\ answer' = {}
    BY <1>7 DEF DoSetCharAt
  <2>2. /\ Sound(gap') /\ Caches(gap') /\ TextLen(gap') = TextLen(gap)
        /\ Text(gap') = Plain!Overwritten(Text(gap), TextLen(gap), i, 1, s)
    BY <1>0, <2>1, SetCharAtRight
  <2>3. s \in Strings(1)
    BY DEF Strings
  <2>4. i \in 0 .. TextLen(gap) /\ 1 \in 0 .. (TextLen(gap) - i)
    BY <1>0 DEF Slots
  <2> HIDE DEF s
  <2>5. Plain!Overwrite
    BY <1>1, <2>1, <2>2, <2>3, <2>4 DEF Plain!Overwrite, Plain!Become
  <2> QED
    BY <2>2, <2>5 DEF Plain!Next
<1>8. ASSUME NEW mb \in BOOLEAN, DoSetMultibyte(mb)
      PROVE  IInv' /\ Plain!Next
  <2>1. gap' = SetMultibyte(gap, mb) /\ answer' = {}
    BY <1>8 DEF DoSetMultibyte
  <2>2. Sound(gap') /\ Caches(gap') /\ TextLen(gap') = TextLen(gap) /\ Text(gap') = Text(gap)
    BY <1>0, <2>1, SetMultibyteRight
  <2> QED
    BY <2>1, <2>2 DEF Plain!Next, Plain!Forget
<1>9. ASSUME DoRestore
      PROVE  IInv' /\ Plain!Next
  <2>1. gap' = Restored(gap) /\ answer' = {}
    BY <1>9 DEF DoRestore
  <2>2. Sound(gap') /\ Caches(gap') /\ TextLen(gap') = TextLen(gap) /\ Text(gap') = Text(gap)
    BY <1>0, <2>1, RestoredRight
  <2> QED
    BY <2>1, <2>2 DEF Plain!Next, Plain!Forget
<1>10. ASSUME DoRead
       PROVE  IInv' /\ Plain!Next
  <2>1. gap' = Projected(gap) /\ answer' = {<<"text", AsSlice(gap')>>}
    BY <1>10 DEF DoRead
  <2>2. /\ Sound(gap') /\ Caches(gap') /\ TextLen(gap') = TextLen(gap) /\ Text(gap') = Text(gap)
        /\ AsSlice(gap') = Text(gap)
    BY <1>0, <2>1, ProjectedRight
  <2>3. Plain!Answered(<<"text", Text(gap)>>)
    BY <2>1, <2>2 DEF Plain!Answered
  <2> QED
    BY <2>2, <2>3 DEF Plain!Next, Plain!Read
<1>11. ASSUME DoLines
       PROVE  IInv' /\ Plain!Next
  <2>1. gap' = Indexed(gap) /\ answer' = {<<"lines", Plain!Lines(NewlineIndex(gap), TextLen(gap))>>}
    BY <1>11 DEF DoLines
  <2>2. /\ Sound(gap') /\ Caches(gap') /\ TextLen(gap') = TextLen(gap) /\ Text(gap') = Text(gap)
        /\ NewlineIndex(gap) = Plain!NewlinesOf(Text(gap), TextLen(gap))
    BY <1>0, <2>1, IndexedRight
  <2>3. Plain!Answered(<<"lines", Plain!Lines(Plain!NewlinesOf(Text(gap), TextLen(gap)), TextLen(gap))>>)
    BY <2>1, <2>2 DEF Plain!Answered
  <2> QED
    BY <2>2, <2>3 DEF Plain!Next, Plain!Read
<1> QED
    BY <1>3, <1>4, <1>5, <1>6, <1>7, <1>8, <1>9, <1>10, <1>11 DEF Next

\* The buffer is always sound.
LEMMA AlwaysSound == Spec => []IInv
<1>1. Init => IInv
    BY InitRight
<1>2. IInv /\ [Next]_vars => IInv'
  <2>1. IInv /\ Next => IInv'
    BY NextRight
  <2>2. IInv /\ UNCHANGED vars => IInv'
    BY DEF IInv, vars
  <2> QED
    BY <2>1, <2>2
<1> QED
    BY <1>1, <1>2, PTL DEF Spec

\* The count of bytes is exact and never exceeds the vector's length, whatever is put in,
\* taken out, overwritten, given another representation, dumped and loaded: what is
\* inserted always finds a free slot for each character.
THEOREM BudgetIsKept == Spec => []BudgetKept
<1>1. IInv => BudgetKept
    BY DEF IInv, Sound, BudgetKept
<1> QED
    BY <1>1, AlwaysSound, PTL

\* A set of at most one value has at most that many.
LEMMA SingleCounts ==
    ASSUME NEW S, Single(S)
    PROVE  Cardinality(S) <= 1
<1>1. CASE S = {}
    BY <1>1, FS_EmptySet
<1>2. CASE S # {}
  <2>1. PICK x \in S : TRUE
    BY <1>2
  <2>2. S = {x}
    BY <2>1 DEF Single
  <2> QED
    BY <2>2, FS_Singleton
<1> QED
    BY <1>1, <1>2

\* The gap lies in the vector, with characters on both sides of it.
THEOREM ShapeIsKept == Spec => []TypeOK
<1>1. IInv => TypeOK
  <2> SUFFICES ASSUME IInv
               PROVE  TypeOK
    OBVIOUS
  <2>1. Sound(gap) /\ Vector(gap)
    BY DEF IInv, Sound
  <2>2. gap.text_bytes \in Nat
    BY <2>1, SoundFacts
  <2>3. Single(gap.flat) /\ Single(gap.lines)
    BY DEF IInv, Caches, Single
  <2>4. Cardinality(gap.flat) <= 1 /\ Cardinality(gap.lines) <= 1
    BY <2>3, SingleCounts
  <2>5. DOMAIN gap.buf = Slots(gap.capacity)
    BY <2>1 DEF Vector
  <2> QED
    BY <2>1, <2>2, <2>4, <2>5 DEF TypeOK, Sound, Vector
<1> QED
    BY <1>1, AlwaysSound, PTL

\* The buffer implements a plain text: however the gap moves, the vector grows and the
\* caches fall behind, it changes as a text does and every read answers for it as it is.
THEOREM ImplementsPlainText == Spec => PlainTextSpec
<1>1. Init => Plain!Init
    BY InitRight
<1>2. IInv /\ [Next]_vars => [Plain!Next]_(Plain!vars)
  <2>1. IInv /\ Next => Plain!Next
    BY NextRight
  <2>2. UNCHANGED vars => UNCHANGED Plain!vars
    BY DEF vars, Plain!vars
  <2> QED
    BY <2>1, <2>2
<1> QED
    BY <1>1, <1>2, AlwaysSound, PTL DEF Spec, PlainTextSpec, Plain!Spec

-----------------------------------------------------------------------------
(***************************************************************************)
(* The parser that follows the text.                                       *)
(***************************************************************************)

IsPending(p) == p = [tree |-> p.tree, text |-> p.text, begv |-> p.begv, zv |-> p.zv]

\* P has the text of its region of T, which has N characters.
Follows(p, t, n) ==
    p.tree =>
        /\ p.begv \in Nat /\ p.zv \in Nat /\ p.begv <= p.zv /\ p.zv <= n
        /\ p.text = [i \in Slots(p.zv - p.begv) |-> t[p.begv + i]]

\* What goes in before, in, at the ends of or after the region.
LEMMA InsertFollows ==
    ASSUME NEW p, IsPending(p), NEW t, NEW n \in Nat, Follows(p, t, n),
           NEW pos \in 0 .. n, NEW m \in Nat, NEW s, NEW len, len = n + m
    PROVE  /\ IsPending(OnInsert(p, pos, m, s))
           /\ Follows(OnInsert(p, pos, m, s), Plain!Inserted(t, n, pos, m, s), len)
<1> DEFINE u == Plain!Inserted(t, n, pos, m, s)
           q == OnInsert(p, pos, m, s)
           b == p.begv
           z == p.zv
           x == p.text
<1>1. CASE ~p.tree
    BY <1>1 DEF OnInsert, Follows
<1>2. ASSUME p.tree
      PROVE  IsPending(q) /\ Follows(q, u, len)
  <2>1. /\ b \in Nat /\ z \in Nat /\ b <= z /\ z <= n /\ pos \in Nat /\ pos <= n
        /\ x = [i \in Slots(z - b) |-> t[b + i]]
    BY <1>2 DEF Follows
  <2>2. u = [i \in Slots(n + m) |-> IF i < pos THEN t[i]
                                    ELSE IF i < pos + m THEN s[i - pos] ELSE t[i - m]]
    BY DEF Plain!Inserted, Plain!Slots, Slots
  <2> HIDE DEF u
  <2>3. CASE pos < b
    <3>1. q = [p EXCEPT !.begv = b + m, !.zv = z + m]
      BY <1>2, <2>3 DEF OnInsert
    <3> HIDE DEF q
    <3>2. IsPending(q) /\ q.tree = p.tree /\ q.text = x /\ q.begv = b + m /\ q.zv = z + m
      BY <3>1 DEF IsPending
    <3> HIDE DEF b, z, x
    <3>3. \A i \in Slots(z - b) : u[(b + m) + i] = t[b + i]
      BY <2>1, <2>2, <2>3 DEF Slots
    <3>4. (z + m) - (b + m) = z - b /\ b + m \in Nat /\ z + m \in Nat
          /\ b + m <= z + m /\ z + m <= len
      BY <2>1
    <3> QED
      BY <2>1, <3>2, <3>3, <3>4 DEF Follows
  <2>4. CASE ~(pos < b) /\ pos <= z
    <3> DEFINE y == Spliced(x, z - b, pos - b, pos - b, m, s)
    <3>1. q = [p EXCEPT !.text = y, !.zv = z + m]
      BY <1>2, <2>4 DEF OnInsert, Seen
    <3> HIDE DEF q, y
    <3>2. IsPending(q) /\ q.tree = p.tree /\ q.text = y /\ q.begv = b /\ q.zv = z + m
      BY <3>1 DEF IsPending
    <3> HIDE DEF b, z, x
    <3>3. /\ z - b \in Nat /\ pos - b \in Nat
          /\ (z - b) - ((pos - b) - (pos - b)) = z - b /\ (z - b) + m = (z + m) - b
      BY <2>1, <2>4
    <3> DEFINE w == Plain!Deleted(x, z - b, pos - b, pos - b)
    <3>4. w = [i \in Slots(z - b) |-> IF i < pos - b THEN x[i] ELSE x[i + ((pos - b) - (pos - b))]]
      BY <3>3 DEF Plain!Deleted, Plain!Slots, Slots
    <3>5. \A i \in Slots(z - b) : w[i] = t[b + i]
      BY <2>1, <3>3, <3>4 DEF Slots
    <3>6. y = Plain!Inserted(w, z - b, pos - b, m, s)
      BY <3>3 DEF y, Spliced
    <3> HIDE DEF w
    <3>7. y = [i \in Slots((z + m) - b) |->
                 IF i < pos - b THEN w[i]
                 ELSE IF i < (pos - b) + m THEN s[i - (pos - b)] ELSE w[i - m]]
      BY <3>3, <3>6 DEF Plain!Inserted, Plain!Slots, Slots
    <3>8. \A i \in Slots((z + m) - b) : y[i] = u[b + i]
      <4> SUFFICES ASSUME NEW i \in Slots((z + m) - b)
                   PROVE  y[i] = u[b + i]
        OBVIOUS
      <4>1. i \in Nat /\ i < (z + m) - b
        BY <2>1 DEF Slots
      <4>2. b + i \in Slots(n + m)
        BY <2>1, <4>1 DEF Slots
      <4>3. CASE i < pos - b
        <5>1. i \in Slots(z - b) /\ b + i < pos
          BY <2>1, <2>4, <4>1, <4>3 DEF Slots
        <5> QED
          BY <2>2, <3>5, <3>7, <4>2, <4>3, <5>1
      <4>4. CASE ~(i < pos - b) /\ i < (pos - b) + m
        <5>1. ~(b + i < pos) /\ b + i < pos + m /\ (b + i) - pos = i - (pos - b)
          BY <2>1, <4>1, <4>4
        <5> QED
          BY <2>2, <3>7, <4>2, <4>4, <5>1
      <4>5. CASE ~(i < pos - b) /\ ~(i < (pos - b) + m)
        <5>1. ~(b + i < pos) /\ ~(b + i < pos + m) /\ (b + i) - m = b + (i - m)
              /\ i - m \in Slots(z - b)
          BY <2>1, <2>4, <4>1, <4>5 DEF Slots
        <5> QED
          BY <2>2, <3>5, <3>7, <4>2, <4>5, <5>1
      <4> QED
        BY <4>3, <4>4, <4>5
    <3>9. y = [i \in Slots((z + m) - b) |-> u[b + i]]
      BY <3>7, <3>8
    <3>10. b <= z + m /\ z + m <= len /\ z + m \in Nat
      BY <2>1
    <3> QED
      BY <2>1, <3>2, <3>9, <3>10 DEF Follows
  <2>5. CASE ~(pos < b) /\ ~(pos <= z)
    <3>1. q = p
      BY <1>2, <2>5 DEF OnInsert
    <3> HIDE DEF q
    <3>2. \A i \in Slots(z - b) : u[b + i] = t[b + i]
      <4> HIDE DEF b, z, x
      <4> QED
        BY <2>1, <2>2, <2>5 DEF Slots
    <3>3. z <= len
      BY <2>1
    <3> QED
      BY <2>1, <3>1, <3>2, <3>3 DEF Follows
  <2> QED
    BY <2>3, <2>4, <2>5
<1> QED
    BY <1>1, <1>2

\* What is deleted before, in, across the ends of or around the region.
LEMMA DeleteFollows ==
    ASSUME NEW p, IsPending(p), NEW t, NEW n \in Nat, Follows(p, t, n),
           NEW start \in 0 .. n, NEW end \in 0 .. n, start < end,
           NEW len, len = n - (end - start)
    PROVE  /\ IsPending(OnDelete(p, start, end))
           /\ Follows(OnDelete(p, start, end), Plain!Deleted(t, n, start, end), len)
<1> DEFINE u == Plain!Deleted(t, n, start, end)
           q == OnDelete(p, start, end)
           b == p.begv
           z == p.zv
           x == p.text
           lo == Larger(start, b)
           hi == Lower(end, z)
           b1 == Adjusted(b, start, end)
           z1 == Adjusted(z, start, end)
           y == IF lo < hi THEN Plain!Deleted(x, z - b, lo - b, hi - b) ELSE x
<1>1. CASE ~p.tree
    BY <1>1 DEF OnDelete, Follows
<1>2. ASSUME p.tree
      PROVE  IsPending(q) /\ Follows(q, u, len)
  <2>1. /\ b \in Nat /\ z \in Nat /\ b <= z /\ z <= n /\ start \in Nat /\ end \in Nat
        /\ start < end /\ end <= n
        /\ x = [i \in Slots(z - b) |-> t[b + i]]
    BY <1>2 DEF Follows
  <2>2. u = [i \in Slots(len) |-> IF i < start THEN t[i] ELSE t[i + (end - start)]]
    BY DEF Plain!Deleted, Plain!Slots, Slots
  <2>3. q = [p EXCEPT !.text = y, !.begv = b1, !.zv = z1]
    <3>1. ~(start >= end)
      BY <2>1
    <3> QED
      BY <1>2, <3>1 DEF OnDelete, Seen
  <2>4. /\ lo = IF start < b THEN b ELSE start
        /\ hi = IF end < z THEN end ELSE z
        /\ b1 = IF b >= end THEN b - (end - start) ELSE IF b < start THEN b ELSE start
        /\ z1 = IF z >= end THEN z - (end - start) ELSE IF z < start THEN z ELSE start
    BY DEF Larger, Lower, Adjusted
  <2> HIDE DEF u, q, y, b1, z1
  <2>5. IsPending(q) /\ q.tree = p.tree /\ q.text = y /\ q.begv = b1 /\ q.zv = z1
    BY <2>3 DEF IsPending
  <2>6. y = IF lo < hi
            THEN [i \in Slots((z - b) - ((hi - b) - (lo - b))) |->
                    IF i < lo - b THEN x[i] ELSE x[i + ((hi - b) - (lo - b))]]
            ELSE x
    BY DEF y, Plain!Deleted, Plain!Slots, Slots
  <2> HIDE DEF b, z, x, lo, hi
  <2>7. b1 \in Nat /\ z1 \in Nat /\ b1 <= z1 /\ z1 <= len
    BY <2>1, <2>4
  <2>8. y = [i \in Slots(z1 - b1) |-> u[b1 + i]]
    <3>1. CASE lo < hi
      <4>1. (z - b) - ((hi - b) - (lo - b)) = z1 - b1
        BY <2>1, <2>4, <3>1
      <4>2. \A i \in Slots(z1 - b1) :
               (IF i < lo - b THEN x[i] ELSE x[i + ((hi - b) - (lo - b))]) = u[b1 + i]
        <5> SUFFICES ASSUME NEW i \in Slots(z1 - b1)
                     PROVE  (IF i < lo - b THEN x[i] ELSE x[i + ((hi - b) - (lo - b))]) = u[b1 + i]
          OBVIOUS
        <5>1. i \in Nat /\ i < z1 - b1
          BY <2>7 DEF Slots
        <5>2. b1 + i \in Slots(len)
          BY <2>1, <2>7, <5>1 DEF Slots
        <5>3. CASE i < lo - b
          <6>1. i \in Slots(z - b) /\ b1 + i < start /\ b1 = b
            BY <2>1, <2>4, <3>1, <5>1, <5>3 DEF Slots
          <6> QED
            BY <2>1, <2>2, <5>2, <5>3, <6>1
        <5>4. CASE ~(i < lo - b)
          <6>1. /\ i + ((hi - b) - (lo - b)) \in Slots(z - b) /\ ~(b1 + i < start)
                /\ b + (i + ((hi - b) - (lo - b))) = (b1 + i) + (end - start)
            BY <2>1, <2>4, <3>1, <5>1, <5>4 DEF Slots
          <6> QED
            BY <2>1, <2>2, <5>2, <5>4, <6>1
        <5> QED
          BY <5>3, <5>4
      <4> QED
        BY <2>6, <3>1, <4>1, <4>2
    <3>2. CASE ~(lo < hi)
      <4>1. z1 - b1 = z - b
        BY <2>1, <2>4, <3>2
      <4>2. \A i \in Slots(z - b) : t[b + i] = u[b1 + i]
        <5> SUFFICES ASSUME NEW i \in Slots(z - b)
                     PROVE  t[b + i] = u[b1 + i]
          OBVIOUS
        <5>1. i \in Nat /\ i < z - b
          BY <2>1 DEF Slots
        <5>2. b1 + i \in Slots(len)
          BY <2>1, <2>7, <4>1, <5>1 DEF Slots
        <5>3. \/ b1 + i < start /\ b1 + i = b + i
              \/ ~(b1 + i < start) /\ (b1 + i) + (end - start) = b + i
          BY <2>1, <2>4, <3>2, <5>1
        <5> QED
          BY <2>2, <5>2, <5>3
      <4> QED
        BY <2>1, <2>6, <3>2, <4>1, <4>2
    <3> QED
      BY <3>1, <3>2
  <2> QED
    BY <2>5, <2>7, <2>8 DEF Follows
<1> QED
    BY <1>1, <1>2

\* What is overwritten in, across the ends of or around the region.
LEMMA OverwriteFollows ==
    ASSUME NEW p, IsPending(p), NEW t, NEW n \in Nat, Follows(p, t, n),
           NEW m \in Nat, NEW start \in 0 .. (n - m), NEW s
    PROVE  /\ IsPending(OnOverwrite(p, start, m, s))
           /\ Follows(OnOverwrite(p, start, m, s), Plain!Overwritten(t, n, start, m, s), n)
<1> DEFINE u == Plain!Overwritten(t, n, start, m, s)
           q == OnOverwrite(p, start, m, s)
           b == p.begv
           z == p.zv
           x == p.text
           lo == Larger(start, b)
           hi == Lower(start + m, z)
           r == [i \in Slots(hi - lo) |-> s[i + (lo - start)]]
           y == Plain!Overwritten(x, z - b, lo - b, hi - lo, r)
<1>1. CASE ~p.tree
    BY <1>1 DEF OnOverwrite, Follows
<1>2. ASSUME p.tree
      PROVE  IsPending(q) /\ Follows(q, u, n)
  <2>1. /\ b \in Nat /\ z \in Nat /\ b <= z /\ z <= n /\ start \in Nat /\ start + m <= n
        /\ x = [i \in Slots(z - b) |-> t[b + i]]
    BY <1>2 DEF Follows
  <2>2. u = [i \in Slots(n) |-> IF start <= i /\ i < start + m THEN s[i - start] ELSE t[i]]
    BY DEF Plain!Overwritten, Plain!Slots, Slots
  <2>3. /\ lo = IF start < b THEN b ELSE start
        /\ hi = IF start + m < z THEN start + m ELSE z
    BY DEF Larger, Lower
  <2> HIDE DEF u
  <2>4. CASE lo >= hi
    <3>1. q = p
      BY <1>2, <2>4 DEF OnOverwrite
    <3> HIDE DEF q, lo, hi
    <3>2. \A i \in Slots(z - b) : u[b + i] = t[b + i]
      <4> HIDE DEF b, z, x
      <4> QED
        BY <2>1, <2>2, <2>3, <2>4 DEF Slots
    <3> QED
      BY <2>1, <3>1, <3>2 DEF Follows
  <2>5. CASE ~(lo >= hi)
    <3>1. q = [p EXCEPT !.text = y]
      BY <1>2, <2>5 DEF OnOverwrite, Seen
    <3>2. y = [i \in Slots(z - b) |->
                 IF lo - b <= i /\ i < (lo - b) + (hi - lo) THEN r[i - (lo - b)] ELSE x[i]]
      BY DEF Plain!Overwritten, Plain!Slots, Slots
    <3> HIDE DEF q, y
    <3>3. IsPending(q) /\ q.tree = p.tree /\ q.text = y /\ q.begv = b /\ q.zv = z
      BY <3>1 DEF IsPending
    <3> HIDE DEF b, z, x, lo, hi
    <3>4. \A i \in Slots(z - b) :
             (IF lo - b <= i /\ i < (lo - b) + (hi - lo) THEN r[i - (lo - b)] ELSE x[i]) = u[b + i]
      <4> SUFFICES ASSUME NEW i \in Slots(z - b)
                   PROVE  (IF lo - b <= i /\ i < (lo - b) + (hi - lo) THEN r[i - (lo - b)] ELSE x[i])
                            = u[b + i]
        OBVIOUS
      <4>1. i \in Nat /\ i < z - b /\ b + i \in Slots(n)
        BY <2>1 DEF Slots
      <4>2. CASE lo - b <= i /\ i < (lo - b) + (hi - lo)
        <5>1. /\ i - (lo - b) \in Slots(hi - lo)
              /\ (i - (lo - b)) + (lo - start) = (b + i) - start
              /\ start <= b + i /\ b + i < start + m
          BY <2>1, <2>3, <2>5, <4>1, <4>2 DEF Slots
        <5> QED
          BY <2>2, <4>1, <4>2, <5>1
      <4>3. CASE ~(lo - b <= i /\ i < (lo - b) + (hi - lo))
        <5>1. ~(start <= b + i /\ b + i < start + m)
          BY <2>1, <2>3, <2>5, <4>1, <4>3
        <5> QED
          BY <2>1, <2>2, <4>1, <4>3, <5>1
      <4> QED
        BY <4>2, <4>3
    <3> QED
      BY <2>1, <3>2, <3>3, <3>4 DEF Follows
  <2> QED
    BY <2>4, <2>5
<1> QED
    BY <1>1, <1>2

\* A new text for all of it.
LEMMA ResetFollows ==
    ASSUME NEW p, IsPending(p), NEW n \in Nat, NEW s \in Strings(n)
    PROVE  IsPending(OnReset(p, n, s)) /\ Follows(OnReset(p, n, s), s, n)
<1> DEFINE q == OnReset(p, n, s)
<1>1. CASE ~p.tree
    BY <1>1 DEF OnReset, Follows
<1>2. CASE p.tree
  <2>1. q = [p EXCEPT !.text = s, !.begv = 0, !.zv = n]
    BY <1>2 DEF OnReset
  <2> HIDE DEF q
  <2>2. IsPending(q) /\ q.tree = p.tree /\ q.text = s /\ q.begv = 0 /\ q.zv = n
    BY <2>1 DEF IsPending
  <2>3. n - 0 = n /\ \A i \in Slots(n) : 0 + i = i
    BY DEF Slots
  <2>4. s = [i \in Slots(n) |-> s[i]]
    BY DEF Strings
  <2>5. s = [i \in Slots(n - 0) |-> s[0 + i]]
    BY <2>3, <2>4
  <2> QED
    BY <2>2, <2>5 DEF Follows, q
<1> QED
    BY <1>1, <1>2

-----------------------------------------------------------------------------
SharedInv ==
    /\ IInv
    /\ IsPending(pending)
    /\ Follows(pending, Text(gap), TextLen(gap))

\* Whatever is reported, the buffer's own step is taken, and the parser follows it.
LEMMA SharedNextRight ==
    ASSUME SharedInv, SharedNext
    PROVE  SharedInv' /\ [Next]_vars
<1> USE DEF IInv, Change, Report
<1>0. /\ Sound(gap) /\ Caches(gap) /\ TextLen(gap) \in Nat /\ IsPending(pending)
      /\ Follows(pending, Text(gap), TextLen(gap)) /\ IInv
    BY VectorFacts DEF Sound, SharedInv
<1>1. Sizes \subseteq Nat
    BY GapAssumption
<1>2. Next => IInv'
    BY <1>0, NextRight
<1>3. ASSUME NEW n \in Sizes, NEW s \in Strings(n), NEW pos \in 0 .. TextLen(gap), ShareInsert(pos, n, s)
      PROVE  SharedInv' /\ [Next]_vars
  <2>1. gap' = Insert(gap, pos, n, s) /\ pending' = OnInsert(pending, pos, n, s)
    BY <1>3 DEF ShareInsert, DoInsert
  <2>2. TextLen(gap') = TextLen(gap) + n /\ Text(gap') = Plain!Inserted(Text(gap), TextLen(gap), pos, n, s)
    BY <1>0, <1>1, <2>1, InsertRight
  <2>3. IsPending(pending') /\ Follows(pending', Text(gap'), TextLen(gap'))
    BY <1>0, <1>1, <2>1, <2>2, InsertFollows
  <2>4. Next
    BY <1>3 DEF ShareInsert, Next
  <2> QED
    BY <1>2, <2>3, <2>4 DEF SharedInv
<1>4. ASSUME NEW n \in Sizes, NEW s \in Strings(n), NEW start \in 0 .. (TextLen(gap) - n),
             ShareReplace(start, n, s)
      PROVE  SharedInv' /\ [Next]_vars
  <2>1. gap' = ReplaceSameLength(gap, start, n, s) /\ pending' = OnOverwrite(pending, start, n, s)
    BY <1>4 DEF ShareReplace, DoReplace
  <2>2. TextLen(gap') = TextLen(gap) /\ Text(gap') = Plain!Overwritten(Text(gap), TextLen(gap), start, n, s)
    BY <1>0, <1>1, <2>1, ReplaceRight
  <2>3. IsPending(pending') /\ Follows(pending', Text(gap'), TextLen(gap'))
    BY <1>0, <1>1, <2>1, <2>2, OverwriteFollows
  <2>4. Next
    BY <1>4 DEF ShareReplace, Next
  <2> QED
    BY <1>2, <2>3, <2>4 DEF SharedInv
<1>5. ASSUME NEW n \in Sizes, NEW s \in Strings(n), ShareSetText(n, s)
      PROVE  SharedInv' /\ [Next]_vars
  <2>1. gap' = SetText(gap, n, s) /\ pending' = OnReset(pending, n, s)
    BY <1>5 DEF ShareSetText, DoSetText
  <2>2. TextLen(gap') = n /\ Text(gap') = s
    BY <1>0, <1>1, <2>1, SetTextRight
  <2>3. IsPending(pending') /\ Follows(pending', Text(gap'), TextLen(gap'))
    BY <1>0, <1>1, <2>1, <2>2, ResetFollows
  <2>4. Next
    BY <1>5 DEF ShareSetText, Next
  <2> QED
    BY <1>2, <2>3, <2>4 DEF SharedInv
<1>6. ASSUME NEW start \in 0 .. TextLen(gap), NEW end \in 0 .. TextLen(gap), ShareDelete(start, end)
      PROVE  SharedInv' /\ [Next]_vars
  <2>1. gap' = Delete(gap, start, end) /\ pending' = OnDelete(pending, start, end)
    BY <1>6 DEF ShareDelete, DoDelete
  <2>2. IsPending(pending') /\ Follows(pending', Text(gap'), TextLen(gap'))
    <3>1. CASE start < end
      <4>1. /\ TextLen(gap') = TextLen(gap) - (end - start)
            /\ Text(gap') = Plain!Deleted(Text(gap), TextLen(gap), start, end)
        BY <1>0, <2>1, <3>1, DeleteRight
      <4> QED
        BY <1>0, <2>1, <3>1, <4>1, DeleteFollows
    <3>2. CASE ~(start < end)
      <4>1. gap' = gap /\ pending' = pending
        BY <1>0, <2>1, <3>2 DEF Delete, OnDelete
      <4> QED
        BY <1>0, <4>1
    <3> QED
      BY <3>1, <3>2
  <2>3. Next
    BY <1>6 DEF ShareDelete, Next
  <2> QED
    BY <1>2, <2>2, <2>3 DEF SharedInv
<1>7. ASSUME NEW i \in Slots(TextLen(gap)), NEW c \in Chars, ShareSetCharAt(i, c)
      PROVE  SharedInv' /\ [Next]_vars
  <2> DEFINE s == [x \in Slots(1) |-> c]
  <2>1. gap' = SetCharAt(gap, i, c) /\ pending' = OnOverwrite(pending, i, 1, s)
    BY <1>7 DEF ShareSetCharAt, DoSetCharAt
  <2>2. TextLen(gap') = TextLen(gap) /\ Text(gap') = Plain!Overwritten(Text(gap), TextLen(gap), i, 1, s)
    BY <1>0, <2>1, SetCharAtRight
  <2>3. i \in 0 .. (TextLen(gap) - 1) /\ 1 \in Nat
    BY DEF Slots
  <2> HIDE DEF s
  <2>4. IsPending(pending') /\ Follows(pending', Text(gap'), TextLen(gap'))
    BY <1>0, <2>1, <2>2, <2>3, OverwriteFollows
  <2>5. Next
    BY <1>7 DEF ShareSetCharAt, Next
  <2> QED
    BY <1>2, <2>4, <2>5 DEF SharedInv
<1>8. ASSUME NEW mb \in BOOLEAN, DoSetMultibyte(mb), Unreported
      PROVE  SharedInv' /\ [Next]_vars
  <2>1. TextLen(gap') = TextLen(gap) /\ Text(gap') = Text(gap) /\ pending' = pending
    BY <1>0, <1>8, SetMultibyteRight DEF DoSetMultibyte, Unreported
  <2>2. Next
    BY <1>8 DEF Next
  <2> QED
    BY <1>0, <1>2, <2>1, <2>2 DEF SharedInv
<1>9. ASSUME ShareRestore
      PROVE  SharedInv' /\ [Next]_vars
  <2>1. IsPending(pending') /\ Follows(pending', Text(gap'), TextLen(gap'))
    BY <1>9 DEF ShareRestore, NoTree, IsPending, Follows
  <2>2. Next
    BY <1>9 DEF ShareRestore, Next
  <2> QED
    BY <1>2, <2>1, <2>2 DEF SharedInv
<1>10. ASSUME DoRead \/ DoLines, Unreported
       PROVE  SharedInv' /\ [Next]_vars
  <2>1. gap' = Projected(gap) \/ gap' = Indexed(gap)
    BY <1>10 DEF DoRead, DoLines, Answer
  <2>2. TextLen(gap') = TextLen(gap) /\ Text(gap') = Text(gap) /\ pending' = pending
    BY <1>0, <1>10, <2>1, ProjectedRight, IndexedRight DEF Unreported
  <2>3. Next
    BY <1>10 DEF Next
  <2> QED
    BY <1>0, <1>2, <2>2, <2>3 DEF SharedInv
<1>11. ASSUME NEW r \in Regions, Parse(r[1], r[2])
       PROVE  SharedInv' /\ [Next]_vars
  <2> DEFINE b == r[1]
             z == r[2]
  <2>1. b \in Nat /\ z \in Nat /\ b <= z /\ z <= TextLen(gap)
    BY <1>11, RegionsAssumption DEF Parse
  <2>2. pending' = Parsed(b, z) /\ UNCHANGED vars
    BY <1>11 DEF Parse
  <2> HIDE DEF b, z
  <2>3. IsPending(pending') /\ Follows(pending', Text(gap), TextLen(gap))
    BY <2>1, <2>2 DEF Parsed, IsPending, Follows
  <2>4. gap' = gap
    BY <2>2 DEF vars
  <2> QED
    BY <1>0, <2>2, <2>3, <2>4 DEF SharedInv
<1> QED
    BY <1>3, <1>4, <1>5, <1>6, <1>7, <1>8, <1>9, <1>10, <1>11 DEF SharedNext

\* Without the parser, this is the gap buffer.
LEMMA AlwaysShared == SharedSpec => [](SharedInv) /\ Spec
<1>1. SharedInit => SharedInv /\ Init
    BY InitRight DEF SharedInit, SharedInv, NoTree, IsPending, Follows
<1>2. SharedInv /\ [SharedNext]_sharedVars => SharedInv' /\ [Next]_vars
  <2>1. SharedInv /\ SharedNext => SharedInv' /\ [Next]_vars
    BY SharedNextRight
  <2>2. SharedInv /\ UNCHANGED sharedVars => SharedInv' /\ UNCHANGED vars
    BY DEF SharedInv, IInv, sharedVars, vars
  <2> QED
    BY <2>1, <2>2
<1> QED
    BY <1>1, <1>2, PTL DEF SharedSpec, Spec

\* Whatever is put in, removed or overwritten, before, in, across the ends of or after its
\* region, a parser that has a tree has the text of its region: the byte ranges by which
\* the tree is edited are never taken from another text or outside of it.
THEOREM ParserFollows == SharedSpec => []TreeFollows
<1>1. SharedInv => TreeFollows
    BY DEF SharedInv, Follows, TreeFollows
<1> QED
    BY <1>1, AlwaysShared, PTL

\* A parser that listens changes nothing of the text: the count of bytes stays exact and
\* within the slots.
THEOREM SharedBudgetIsKept == SharedSpec => []BudgetKept
BY AlwaysShared, BudgetIsKept, PTL

\* With a parser that listens, too, the buffer changes and answers as a plain text does.
THEOREM SharedImplementsPlainText == SharedSpec => PlainTextSpec
BY AlwaysShared, ImplementsPlainText
=============================================================================
