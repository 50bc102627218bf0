------------------------------ MODULE PlainText ------------------------------
(***************************************************************************)
(* What a gap buffer promises: a plain text, changed and read at positions *)
(* that count from 0, with nothing of gaps, byte budgets or caches.        *)
(*                                                                         *)
(* A text of n characters is a function on 0..n-1.                         *)
(***************************************************************************)
EXTENDS Integers, FiniteSets

CONSTANTS
    Chars,   \* the characters, by their codes
    Sizes    \* the lengths of the texts that are put in

VARIABLES
    text,    \* the characters
    length,  \* how many there are
    answer   \* what the last read returned; the empty set after an edit

NewlineChar == 10

Slots(n) == 0 .. (n - 1)
Strings(n) == [Slots(n) -> Chars]

-----------------------------------------------------------------------------
(***************************************************************************)
(* What edits make of a text T of N characters.                            *)
(***************************************************************************)
Inserted(t, n, pos, m, s) ==
    [i \in Slots(n + m) |-> IF i < pos THEN t[i]
                            ELSE IF i < pos + m THEN s[i - pos] ELSE t[i - m]]

Deleted(t, n, start, end) ==
    [i \in Slots(n - (end - start)) |-> IF i < start THEN t[i] ELSE t[i + (end - start)]]

Overwritten(t, n, start, m, s) ==
    [i \in Slots(n) |-> IF start <= i /\ i < start + m THEN s[i - start] ELSE t[i]]

-----------------------------------------------------------------------------
(***************************************************************************)
(* What is asked of it: lines, by the positions of its newlines.           *)
(***************************************************************************)
NewlinesOf(t, n) == {i \in Slots(n) : t[i] = NewlineChar}

Before(places, pos) == Cardinality({i \in places : i < pos})

LineOfPos(places, pos) == Before(places, pos)

\* Lines count from 0; the start of one past the last is the end of the text.
LineStart(places, n, line) ==
    LET ends == {i \in places : Before(places, i) = line - 1}
    IN  IF line = 0 THEN 0
        ELSE IF ends = {} THEN n ELSE (CHOOSE i \in ends : TRUE) + 1

LineEnd(places, n, pos) ==
    LET after == {i \in places : i >= pos /\ \A j \in places : j >= pos => i <= j}
    IN  IF after = {} THEN n ELSE CHOOSE i \in after : TRUE

-----------------------------------------------------------------------------
Become(t, n) == length' = n /\ answer' = {} /\ text' = t

Init == text \in Strings(0) /\ length = 0 /\ answer = {}

Insert == \E pos \in 0 .. length, m \in Sizes : \E s \in Strings(m) :
    Become(Inserted(text, length, pos, m, s), length + m)

Delete == \E start, end \in 0 .. length :
    start < end /\ Become(Deleted(text, length, start, end), length - (end - start))

Overwrite == \E start \in 0 .. length : \E m \in 0 .. (length - start) : \E s \in Strings(m) :
    Become(Overwritten(text, length, start, m, s), length)

SetText == \E m \in Sizes : \E s \in Strings(m) : Become(s, m)

Answered(a) == answer' = {a} /\ UNCHANGED <<text, length>>

\* The answers to every question about the lines of a text with newlines at PLACES.
Lines(places, n) ==
    [of |-> [pos \in 0 .. n |-> LineOfPos(places, pos)],
     end |-> [pos \in 0 .. n |-> LineEnd(places, n, pos)],
     start |-> [line \in 0 .. (n + 1) |-> LineStart(places, n, line)]]

Read ==
    \/ Answered(<<"text", text>>)
    \/ Answered(<<"lines", Lines(NewlinesOf(text, length), length)>>)

\* An answer need not outlast what is done next.
Forget == answer' = {} /\ UNCHANGED <<text, length>>

Next == Insert \/ Delete \/ Overwrite \/ SetText \/ Read \/ Forget

vars == <<text, length, answer>>
Spec == Init /\ [][Next]_vars
=============================================================================
