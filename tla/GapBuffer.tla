------------------------------ MODULE GapBuffer ------------------------------
(***************************************************************************)
(* The storage of a buffer's text (crates/runtime/src/buffer/gapbuf.rs):   *)
(* a vector of character slots with a gap at the place of editing.  The    *)
(* vector's length is also the budget for the bytes of the text, so there  *)
(* may be more free slots than free bytes and never fewer.  Two caches     *)
(* hang on it: a contiguous copy of the text, dropped by every change, and *)
(* the positions of the newlines, kept with the count of changes they were *)
(* taken at.                                                               *)
(*                                                                         *)
(* The structure is a record and its methods are operators on it.  The     *)
(* vector is a function on 0..capacity-1; an Option is a set of at most    *)
(* one value; the sorted list of newlines is the set of its members.  The  *)
(* count of changes is a natural number: it would wrap after 2^64 of them. *)
(***************************************************************************)
EXTENDS Integers, FiniteSets

CONSTANTS
    Chars,     \* the characters, by their codes
    Sizes,     \* bound: the lengths of the texts that are put in
    GapInit,   \* GAP_INIT: the gap of a fresh buffer
    GapSpare,  \* GAP_BYTES_DFL: what a growing gap gets beyond the need
    GapShare,  \* the part of the text, 1/GapShare, that a gap grows by at least
    Longest,   \* bound: characters in the text
    Edits      \* bound: changes of the text

Nul == 0

ASSUME GapAssumption ==
    /\ Chars \subseteq Nat /\ \A c \in Chars : c < 2^22
    /\ Sizes \subseteq Nat
    /\ {GapInit, GapSpare, Longest, Edits} \subseteq Nat /\ GapShare \in Nat \ {0}

VARIABLES
    gap,     \* the GapBuffer
    answer   \* what the last read returned; the empty set after a change

vars == <<gap, answer>>

Slots(n) == 0 .. (n - 1)
Strings(n) == [Slots(n) -> Chars]

\* The last 128 codes stand for raw bytes.
StorageBytes(c, multibyte) ==
    IF ~multibyte \/ c < 2^7 THEN 1
    ELSE IF c < 2^11 \/ c >= 2^22 - 2^7 THEN 2
    ELSE IF c < 2^16 THEN 3
    ELSE IF c < 2^21 THEN 4 ELSE 5

\* The bytes of the characters of T from A up to B, one cell for each.
Cells(t, a, b, multibyte) ==
    {cell \in (a .. (b - 1)) \X (1 .. 5) : cell[2] <= StorageBytes(t[cell[1]], multibyte)}

TextBytes(t, a, b, multibyte) == Cardinality(Cells(t, a, b, multibyte))

-----------------------------------------------------------------------------
(***************************************************************************)
(* Reading the structure.                                                  *)
(***************************************************************************)
GapSlots(g) == g.gap_end - g.gap_start
TextLen(g) == g.capacity - GapSlots(g)
GapSize(g) == g.capacity - g.text_bytes

CharAt(g, i) == IF i < g.gap_start THEN g.buf[i] ELSE g.buf[i + GapSlots(g)]

Text(g) == [i \in Slots(TextLen(g)) |-> CharAt(g, i)]

\* The plain text this storage stands for; its lines are found with the same operators.
Plain == INSTANCE PlainText WITH text <- Text(gap), length <- TextLen(gap)

-----------------------------------------------------------------------------
(***************************************************************************)
(* Moving the gap and making it larger.                                    *)
(***************************************************************************)

\* copy_within: N slots from FROM on are copied to those from TO on.
Copied(buf, from, to, n) ==
    [x \in DOMAIN buf |-> IF to <= x /\ x < to + n THEN buf[x - to + from] ELSE buf[x]]

MoveGap(g, pos) ==
    IF pos < g.gap_start
    THEN LET n == g.gap_start - pos
         IN  [g EXCEPT !.buf = Copied(g.buf, pos, g.gap_end - n, n),
                       !.gap_start = pos, !.gap_end = g.gap_end - n]
    ELSE LET n == pos - g.gap_start
         IN  [g EXCEPT !.buf = Copied(g.buf, g.gap_end, g.gap_start, n),
                       !.gap_start = pos, !.gap_end = g.gap_end + n]

Larger(i, j) == IF i < j THEN j ELSE i

Growth(g, need) == Larger(need - GapSize(g), TextLen(g) \div GapShare) + GapSpare

\* Mutant: the vector is made longer, and the text behind the gap stays where it was.
EnsureInPlace(g, need) ==
    IF GapSize(g) >= need THEN g
    ELSE LET grow == Growth(g, need)
         IN  [g EXCEPT !.buf = [x \in Slots(g.capacity + grow) |->
                                  IF x < g.capacity THEN g.buf[x] ELSE Nul],
                       !.capacity = g.capacity + grow, !.gap_end = g.gap_end + grow]

EnsureGap(g, need) ==
    IF GapSize(g) >= need THEN g
    ELSE LET grow == Growth(g, need)
             larger == [x \in Slots(g.capacity + grow) |-> IF x < g.capacity THEN g.buf[x] ELSE Nul]
         IN  [g EXCEPT !.buf = Copied(larger, g.gap_end, g.gap_end + grow, g.capacity - g.gap_end),
                       !.capacity = g.capacity + grow,
                       !.gap_end = g.gap_end + grow]

-----------------------------------------------------------------------------
(***************************************************************************)
(* Changing the text.                                                      *)
(***************************************************************************)

\* Every change counts, and drops the contiguous copy.
Touched(g) == [g EXCEPT !.mod_count = g.mod_count + 1, !.flat = {}]

\* The N characters of S go to the slots from AT on.
Written(buf, at, n, s) ==
    [x \in DOMAIN buf |-> IF at <= x /\ x < at + n THEN s[x - at] ELSE buf[x]]

Insert(g, pos, n, s) ==
    IF n = 0 THEN g
    ELSE LET bytes == TextBytes(s, 0, n, g.multibyte)
             h == EnsureGap(MoveGap(Touched(g), pos), bytes)
         IN  [h EXCEPT !.buf = Written(h.buf, h.gap_start, n, s),
                       !.gap_start = h.gap_start + n,
                       !.text_bytes = h.text_bytes + bytes]

\* Mutant: the bytes are counted after the gap has moved, in the slots it now covers.
DeleteLate(g, start, end) ==
    IF start >= end THEN g
    ELSE LET h == MoveGap(Touched(g), start)
         IN  [h EXCEPT !.gap_end = h.gap_end + (end - start),
                       !.text_bytes = h.text_bytes - TextBytes(h.buf, start, end, g.multibyte)]

Delete(g, start, end) ==
    IF start >= end THEN g
    ELSE LET h == MoveGap(Touched(g), start)
         IN  [h EXCEPT !.gap_end = h.gap_end + (end - start),
                       !.text_bytes = h.text_bytes - TextBytes(Text(g), start, end, g.multibyte)]

\* The slot of the character at I.
Physical(g, i) == IF i < g.gap_start THEN i ELSE i + GapSlots(g)

SetCharAt(g, i, c) ==
    LET before == StorageBytes(CharAt(g, i), g.multibyte)
        after == StorageBytes(c, g.multibyte)
        h == EnsureGap(Touched(g), after - before)
    IN  [h EXCEPT !.buf = [h.buf EXCEPT ![Physical(h, i)] = c],
                  !.text_bytes = h.text_bytes - before + after]

SetText(g, n, s) == Insert(Delete(g, 0, TextLen(g)), 0, n, s)

\* A gap inside the region moves to its nearer end first, one outside stays.
OutOfTheWay(g, start, end) ==
    IF start < g.gap_start /\ g.gap_start < end
    THEN MoveGap(g, IF g.gap_start - start < end - g.gap_start THEN start ELSE end)
    ELSE g

ReplaceSameLength(g, start, n, s) ==
    LET before == TextBytes(Text(g), start, start + n, g.multibyte)
        after == TextBytes(s, 0, n, g.multibyte)
        h == OutOfTheWay(EnsureGap(g, after - before), start, start + n)
    IN  Touched([h EXCEPT !.buf = Written(h.buf, Physical(h, start), n, s),
                          !.text_bytes = h.text_bytes - before + after])

\* The text stays; what changes is how many bytes its characters take.
SetMultibyte(g, multibyte) ==
    IF g.multibyte = multibyte THEN g
    ELSE LET bytes == TextBytes(Text(g), 0, TextLen(g), multibyte)
             h == EnsureGap(g, bytes - g.text_bytes)
         IN  [h EXCEPT !.text_bytes = bytes, !.multibyte = multibyte]

-----------------------------------------------------------------------------
(***************************************************************************)
(* The two caches.                                                         *)
(***************************************************************************)

\* A gap at either end leaves the text in one piece; else the copy is made, once.
Projected(g) ==
    IF g.gap_end = g.capacity \/ g.gap_start = 0 \/ g.flat # {} THEN g
    ELSE [g EXCEPT !.flat = {Text(g)}]

AsSlice(g) ==
    IF g.gap_end = g.capacity THEN [i \in Slots(g.gap_start) |-> g.buf[i]]
    ELSE IF g.gap_start = 0 THEN [i \in Slots(g.capacity - g.gap_end) |-> g.buf[i + g.gap_end]]
    ELSE CHOOSE t \in g.flat : TRUE

\* Mutant: an index is good for ever.
AnyIndex(g) == g.lines

Current(g) == {l \in g.lines : l.tick = g.mod_count}

Indexed(g) ==
    IF Current(g) # {} THEN g
    ELSE [g EXCEPT !.lines = {[tick |-> g.mod_count,
                               at |-> {i \in Slots(TextLen(g)) : CharAt(g, i) = Plain!NewlineChar}]}]

NewlineIndex(g) == (CHOOSE l \in Indexed(g).lines : TRUE).at

-----------------------------------------------------------------------------
(***************************************************************************)
(* The dump writes the text with the gap's place and slots, the count and  *)
(* the flag; loading refuses one whose bytes exceed its slots.             *)
(***************************************************************************)
Restored(g) ==
    [g EXCEPT !.buf = [x \in DOMAIN g.buf |->
                         IF x < g.gap_start THEN Text(g)[x]
                         ELSE IF x < g.gap_end THEN Nul ELSE Text(g)[x - GapSlots(g)]],
              !.text_bytes = TextBytes(Text(g), 0, TextLen(g), g.multibyte),
              !.flat = {}, !.lines = {}]

-----------------------------------------------------------------------------
New == [buf |-> [x \in Slots(GapInit) |-> Nul], capacity |-> GapInit,
        gap_start |-> 0, gap_end |-> GapInit, text_bytes |-> 0, multibyte |-> TRUE,
        flat |-> {}, mod_count |-> 0, lines |-> {}]

Init == gap = New /\ answer = {}

Change(g) == gap' = g /\ answer' = {}

CanEdit == gap.mod_count < Edits

DoInsert(pos, n, s) == TextLen(gap) + n <= Longest /\ CanEdit /\ Change(Insert(gap, pos, n, s))
DoDelete(start, end) == CanEdit /\ Change(Delete(gap, start, end))
DoSetCharAt(i, c) == CanEdit /\ Change(SetCharAt(gap, i, c))
DoReplace(start, n, s) == CanEdit /\ Change(ReplaceSameLength(gap, start, n, s))
DoSetText(n, s) == n <= Longest /\ gap.mod_count + 1 < Edits /\ Change(SetText(gap, n, s))
DoSetMultibyte(multibyte) == Change(SetMultibyte(gap, multibyte))
DoRestore == GapSize(Restored(gap)) >= 0 /\ Change(Restored(gap))

\* What is read, and what the reading leaves in the caches.
Answer(g, a) == gap' = g /\ answer' = {a}

DoRead == Answer(Projected(gap), <<"text", AsSlice(Projected(gap))>>)

DoLines == Answer(Indexed(gap), <<"lines", Plain!Lines(NewlineIndex(gap), TextLen(gap))>>)

Next ==
    \/ \E n \in Sizes : \E s \in Strings(n) :
        \/ \E pos \in 0 .. TextLen(gap) : DoInsert(pos, n, s)
        \/ \E start \in 0 .. (TextLen(gap) - n) : DoReplace(start, n, s)
        \/ DoSetText(n, s)
    \/ \E start, end \in 0 .. TextLen(gap) : DoDelete(start, end)
    \/ \E i \in Slots(TextLen(gap)), c \in Chars : DoSetCharAt(i, c)
    \/ \E multibyte \in BOOLEAN : DoSetMultibyte(multibyte)
    \/ DoRestore \/ DoRead \/ DoLines

Spec == Init /\ [][Next]_vars

-----------------------------------------------------------------------------
(***************************************************************************)
(* Properties.                                                             *)
(***************************************************************************)
\* The gap lies within the vector, and only characters that were put in are outside it.
TypeOK ==
    /\ DOMAIN gap.buf = Slots(gap.capacity)
    /\ Text(gap) \in Strings(TextLen(gap))
    /\ {gap.capacity, gap.gap_start, gap.gap_end, gap.text_bytes, gap.mod_count} \subseteq Nat
    /\ gap.gap_start <= gap.gap_end /\ gap.gap_end <= gap.capacity
    /\ gap.multibyte \in BOOLEAN
    /\ Cardinality(gap.flat) <= 1 /\ Cardinality(gap.lines) <= 1

\* The count of bytes is that of the text, after every insertion, deletion, overwriting
\* and change of representation, and it never exceeds the vector's length: what is put in
\* finds a free slot for each character, and a dumped buffer can be loaded again.
BudgetKept ==
    /\ gap.text_bytes = TextBytes(Text(gap), 0, TextLen(gap), gap.multibyte)
    /\ gap.text_bytes <= gap.capacity

\* Whatever the gap's place, the growth of the vector and the state of the caches, the
\* buffer changes as a plain text does under the same edits, and every read, from the
\* slots, the contiguous copy or the kept newlines, answers for the text as it is.
PlainTextSpec == Plain!Spec
=============================================================================
