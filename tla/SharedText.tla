----------------------------- MODULE SharedText -----------------------------
(***************************************************************************)
(* The text that buffers share and the parsers that follow it              *)
(* (crates/runtime/src/buffer/gapbuf.rs, lisp/builtins/treesit.rs).  Every *)
(* change of the gap buffer is reported, once it is complete, to the       *)
(* parser's PendingTree.  That edits its own copy of the region the parser *)
(* sees, and the old tree by the byte ranges of that copy, so that the     *)
(* next parse can start from the edited tree.                              *)
(*                                                                         *)
(* The tree itself is left out but for whether there is one: without one   *)
(* the reports are ignored and the next parse takes the text afresh.       *)
(***************************************************************************)
EXTENDS GapBuffer

CONSTANTS
    Regions,  \* bound: the regions the buffer may be narrowed to
    Parses    \* bound: parses

ASSUME RegionsAssumption ==
    /\ Parses \in Nat
    /\ \A r \in Regions : r \in Nat \X Nat /\ r[1] <= r[2]

VARIABLES
    pending,  \* the PendingTree
    parses    \* how often it was parsed

NoTree == [tree |-> FALSE, text |-> <<>>, begv |-> 0, zv |-> 0]

SharedInit == Init /\ pending = NoTree /\ parses = 0

Lower(i, j) == IF i < j THEN i ELSE j

-----------------------------------------------------------------------------
(***************************************************************************)
(* What the parser makes of the reports.                                   *)
(***************************************************************************)

\* PendingTree::replace: the characters of its text from START up to END become S.
Spliced(t, n, start, end, m, s) ==
    Plain!Inserted(Plain!Deleted(t, n, start, end), n - (end - start), start, m, s)

Seen(p) == p.zv - p.begv

\* Mutant: text that goes in at the end of the region is not seen.
OnInsertWithin(p, at, m, s) ==
    IF ~p.tree THEN p
    ELSE IF at < p.begv THEN [p EXCEPT !.begv = p.begv + m, !.zv = p.zv + m]
    ELSE IF at < p.zv
    THEN [p EXCEPT !.text = Spliced(p.text, Seen(p), at - p.begv, at - p.begv, m, s),
                   !.zv = p.zv + m]
    ELSE IF at = p.zv THEN [p EXCEPT !.zv = p.zv + m] ELSE p

OnInsert(p, at, m, s) ==
    IF ~p.tree THEN p
    ELSE IF at < p.begv THEN [p EXCEPT !.begv = p.begv + m, !.zv = p.zv + m]
    ELSE IF at <= p.zv
    THEN [p EXCEPT !.text = Spliced(p.text, Seen(p), at - p.begv, at - p.begv, m, s),
                   !.zv = p.zv + m]
    ELSE p

\* Where a position is after a deletion.
Adjusted(position, start, end) ==
    IF position >= end THEN position - (end - start) ELSE Lower(position, start)

OnDelete(p, start, end) ==
    LET lo == Larger(start, p.begv)
        hi == Lower(end, p.zv)
    IN  IF ~p.tree \/ start >= end THEN p
        ELSE [p EXCEPT !.text = IF lo < hi
                                THEN Plain!Deleted(p.text, Seen(p), lo - p.begv, hi - p.begv)
                                ELSE p.text,
                       !.begv = Adjusted(p.begv, start, end),
                       !.zv = Adjusted(p.zv, start, end)]

\* A character, or several, overwritten: the part that is in the region.
OnOverwrite(p, start, n, s) ==
    LET lo == Larger(start, p.begv)
        hi == Lower(start + n, p.zv)
    IN  IF ~p.tree \/ lo >= hi THEN p
        ELSE [p EXCEPT !.text = Plain!Overwritten(p.text, Seen(p), lo - p.begv, hi - lo,
                                                  [i \in Slots(hi - lo) |-> s[i + (lo - start)]])]

OnReset(p, n, s) == IF ~p.tree THEN p ELSE [p EXCEPT !.text = s, !.begv = 0, !.zv = n]

\* sync_context and the parse: the region as it is now, and a tree for it.
Parsed(begv, zv) ==
    [tree |-> TRUE, text |-> [i \in Slots(zv - begv) |-> Text(gap)[begv + i]],
     begv |-> begv, zv |-> zv]

-----------------------------------------------------------------------------
(***************************************************************************)
(* The methods of SharedText, each with its report.                        *)
(***************************************************************************)
Report(p) == pending' = p /\ UNCHANGED parses

ShareInsert(pos, n, s) == DoInsert(pos, n, s) /\ Report(OnInsert(pending, pos, n, s))
ShareDelete(start, end) == DoDelete(start, end) /\ Report(OnDelete(pending, start, end))
ShareSetCharAt(i, c) == DoSetCharAt(i, c) /\ Report(OnOverwrite(pending, i, 1, [x \in Slots(1) |-> c]))
ShareReplace(start, n, s) == DoReplace(start, n, s) /\ Report(OnOverwrite(pending, start, n, s))
ShareSetText(n, s) == DoSetText(n, s) /\ Report(OnReset(pending, n, s))

\* A loaded buffer has no parser yet.
ShareRestore == DoRestore /\ Report(NoTree)

Unreported == UNCHANGED <<pending, parses>>

\* The next parse, of what the narrowing shows.
Parse(begv, zv) ==
    /\ zv <= TextLen(gap) /\ parses < Parses
    /\ pending' = Parsed(begv, zv) /\ parses' = parses + 1
    /\ UNCHANGED vars

SharedNext ==
    \/ \E n \in Sizes : \E s \in Strings(n) :
        \/ \E pos \in 0 .. TextLen(gap) : ShareInsert(pos, n, s)
        \/ \E start \in 0 .. (TextLen(gap) - n) : ShareReplace(start, n, s)
        \/ ShareSetText(n, s)
    \/ \E start, end \in 0 .. TextLen(gap) : ShareDelete(start, end)
    \/ \E i \in Slots(TextLen(gap)), c \in Chars : ShareSetCharAt(i, c)
    \/ \E multibyte \in BOOLEAN : DoSetMultibyte(multibyte) /\ Unreported
    \/ ShareRestore
    \/ (DoRead \/ DoLines) /\ Unreported
    \/ \E r \in Regions : Parse(r[1], r[2])

sharedVars == <<gap, answer, pending, parses>>
SharedSpec == SharedInit /\ [][SharedNext]_sharedVars

-----------------------------------------------------------------------------
\* A parser that has a tree has the very text its region holds, whatever was put in,
\* removed or overwritten before, across or after the region's ends: the byte ranges by
\* which its tree is edited are those of the buffer, and never outside its copy.
TreeFollows ==
    pending.tree =>
        /\ pending.begv <= pending.zv /\ pending.zv <= TextLen(gap)
        /\ pending.text = [i \in Slots(pending.zv - pending.begv) |-> Text(gap)[pending.begv + i]]
=============================================================================
