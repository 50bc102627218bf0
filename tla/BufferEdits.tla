----------------------------- MODULE BufferEdits -----------------------------
(***************************************************************************)
(* The text of a buffer, the views on it, the places in it, and undo       *)
(* (crates/runtime/src/buffer/mod.rs, buffer/primitives.rs).  A base       *)
(* buffer and its indirect buffers share one text; each view has its own   *)
(* point, narrowing and markers, and every edit through one of them moves  *)
(* the places of all of them.  Edits push records on the undo list of the  *)
(* current view; the list travels between the views as they are selected.  *)
(*                                                                         *)
(* Characters are told apart by numbers.  Positions count from 0 as in     *)
(* Buffer, those in undo records from 1 as in Lisp.  Text properties,      *)
(* overlays, change hooks and modification counts are left out; of the     *)
(* counts only the comparison of MODIFF with SAVE_MODIFF matters here.     *)
(***************************************************************************)
EXTENDS Integers, Sequences, FiniteSets, SequencesExt

CONSTANTS
    Base, Indirects,  \* the buffers that share the text
    Markers,
    Narrowings,       \* bound: the regions a view is narrowed to
    Length,           \* bound: characters in the text
    Edits, Moves,     \* bounds: changes of the text, and of places and buffers
    History,          \* bound: commands on the undo list
    Saves,            \* bound: the file's modification time, which counts its saves
    None

Views == {Base} \cup Indirects

ASSUME EditsAssumption ==
    /\ Base \notin Indirects
    /\ IsFiniteSet(Indirects) /\ IsFiniteSet(Markers)
    /\ {Length, Edits, Moves, History, Saves} \subseteq Nat /\ Length > 1
    /\ \A r \in Narrowings : r \in Nat \X Nat /\ r[1] <= r[2]

VARIABLES
    buf,      \* text; view: point, begv, zv, undo, before; mark; modified; time
    current,  \* the current buffer
    pending,  \* pending-undo-list, while undo commands follow one another
    saved,    \* the text in the file
    goal,     \* history: what the last step, an undo, ought to have restored
    still,    \* history: the markers that only recorded edits have moved
    left      \* the edits and moves left under the bounds

vars == <<buf, current, pending, saved, goal, still, left>>

Min2(i, j) == IF i < j THEN i ELSE j
Max2(i, j) == IF i < j THEN j ELSE i

TextLen(b) == Len(b.text)
Clamp(b, v, p) == Min2(Max2(p, b.view[v].begv), b.view[v].zv)
Point(b, v) == Clamp(b, v, b.view[v].point)

-----------------------------------------------------------------------------
(***************************************************************************)
(* Places: markers, point, and the ends of the narrowing.                  *)
(***************************************************************************)

\* A place at AT moves with the text inserted there if it sticks to what follows.
AfterInsert(p, at, n, sticks) == IF p > at \/ (p = at /\ sticks) THEN p + n ELSE p

\* Mutant: a place up to the end of the deleted text stays where it was.
AfterDeleteShort(p, start, end) == IF p > end THEN p - (end - start) ELSE p

AfterDelete(p, start, end) ==
    IF p >= end THEN p - (end - start) ELSE IF p > start THEN start ELSE p

\* Mutant: text inserted before markers at the start of the narrowing is hidden.
StartMoves(before, active) == before

\* Whether the start of a narrowing moves with text inserted there.
StartSticks(before, active) == before /\ ~active

\* raw_insert, raw_insert_at, raw_insert_before_markers: `point' is the
\* inserting view's point afterwards.
InsertText(b, v, at, s, before, point) ==
    LET n == Len(s)
        Sticky(p, sticks) == AfterInsert(p, at, n, sticks)
    IN [b EXCEPT
        !.text = SubSeq(@, 1, at) \o s \o SubSeq(@, at + 1, Len(@)),
        !.mark = [m \in Markers |-> [b.mark[m] EXCEPT !.pos = Sticky(@, before \/ b.mark[m].adv)]],
        !.view = [w \in Views |-> [b.view[w] EXCEPT
                    !.point = IF w = v THEN point ELSE Sticky(@, before),
                    !.begv  = Sticky(@, StartSticks(before, w = v)),
                    !.zv    = Sticky(@, TRUE)]],
        !.modified = TRUE]

\* raw_delete_region_with_undo, without the record.
DeleteText(b, start, end) ==
    [b EXCEPT
        !.text = SubSeq(@, 1, start) \o SubSeq(@, end + 1, Len(@)),
        !.mark = [m \in Markers |-> [b.mark[m] EXCEPT !.pos = AfterDelete(@, start, end)]],
        !.view = [w \in Views |-> [b.view[w] EXCEPT
                    !.point = AfterDelete(@, start, end),
                    !.begv  = AfterDelete(@, start, end),
                    !.zv    = AfterDelete(@, start, end)]],
        !.modified = TRUE]

\* raw_replace_region_with_undo of a nonempty region, without the records: the
\* two ends of the region stay apart.
ReplaceText(b, v, start, end, s) ==
    LET Relocate(p) == IF p >= end THEN p - (end - start) + Len(s)
                       ELSE IF p > start THEN start ELSE p
        Active(p) == IF p > start THEN start + Len(s) + Max2(p - end, 0) ELSE p
    IN [b EXCEPT
        !.text = SubSeq(@, 1, start) \o s \o SubSeq(@, end + 1, Len(@)),
        !.mark = [m \in Markers |-> [b.mark[m] EXCEPT !.pos = Relocate(@)]],
        !.view = [w \in Views |-> [b.view[w] EXCEPT
                    !.point = IF w = v THEN Active(@) ELSE Relocate(@),
                    !.begv  = Relocate(@),
                    !.zv    = Relocate(@)]],
        !.modified = TRUE]

\* Mutant: the ends of a narrowing are taken as they were moved.
AsMoved(begv, zv) == <<begv, zv>>

\* The ends of an inactive narrowing may have crossed.
InOrderEnds(begv, zv) == <<Min2(begv, zv), Max2(begv, zv)>>

\* transpose_markers and replace_same_length; the active narrowing stays.
TransposeText(b, v, s1, e1, s2, e2) ==
    LET Map(p) == IF p < s1 \/ p >= e2 THEN p
                  ELSE IF p < e1 THEN p + e2 - e1
                  ELSE IF p < s2 THEN p + (e2 - s2) - (e1 - s1)
                  ELSE p - (s2 - s1)
    IN [b EXCEPT
        !.text = SubSeq(@, 1, s1) \o SubSeq(@, s2 + 1, e2) \o SubSeq(@, e1 + 1, s2)
                   \o SubSeq(@, s1 + 1, e1) \o SubSeq(@, e2 + 1, Len(@)),
        !.mark = [m \in Markers |-> [b.mark[m] EXCEPT !.pos = Map(@)]],
        !.view = [w \in Views |->
                    IF w = v THEN [b.view[w] EXCEPT !.point = Map(@)]
                    ELSE LET ends == InOrderEnds(Map(b.view[w].begv), Map(b.view[w].zv))
                         IN  [b.view[w] EXCEPT !.point = Map(@), !.begv = ends[1], !.zv = ends[2]]],
        !.modified = TRUE]

-----------------------------------------------------------------------------
(***************************************************************************)
(* Undo records; the newest is the head of the list.                       *)
(***************************************************************************)

Inserted(beg, end)     == [kind |-> "insert", beg |-> beg, end |-> end]
Deleted(s, beg, after) == [kind |-> "delete", text |-> s, beg |-> beg, after |-> after]
Adjusted(m, by)        == [kind |-> "adjust", marker |-> m, by |-> by]
FirstChange(time)      == [kind |-> "first", time |-> time]
PointAt(p)             == [kind |-> "point", at |-> p]

\* nil in the code; the text and the markers are history.
Boundary(b, tracked) ==
    [kind |-> "boundary", text |-> b.text, mark |-> b.mark, still |-> tracked]

AtBoundary(list) == list # <<>> => Head(list).kind = "boundary"

\* visited-file-modtime: only the base buffer visits a file; 0 stands for none.
ModTime(b, v) == IF v = Base THEN b.time ELSE 0

\* record_point: the undo list once the first change and point are recorded.
RecordPoint(b, v, beg) ==
    LET list  == b.view[v].undo
        first == IF b.modified THEN <<>> ELSE <<FirstChange(ModTime(b, v))>>
        point == IF AtBoundary(list) /\ b.view[v].before \notin {0, beg}
                 THEN <<PointAt(b.view[v].before)>> ELSE <<>>
    IN  point \o first \o list

\* Mutant: an insertion is merged into the one before it wherever it is.
MergedAnywhere(list, beg, n) ==
    IF list # <<>> /\ Head(list).kind = "insert"
    THEN <<[Head(list) EXCEPT !.end = @ + n]>> \o Tail(list)
    ELSE <<Inserted(beg, beg + n)>> \o list

\* Consecutive insertions share a record.
Merged(list, beg, n) ==
    IF list # <<>> /\ Head(list).kind = "insert" /\ Head(list).end = beg
    THEN <<[Head(list) EXCEPT !.end = beg + n]>> \o Tail(list)
    ELSE <<Inserted(beg, beg + n)>> \o list

WithUndo(b, v, list) == [b EXCEPT !.view[v].undo = list]

RecordInsert(b, v, at, n) == WithUndo(b, v, Merged(RecordPoint(b, v, at + 1), at + 1, n))

\* How far a marker will be from where the reinserted text leaves it.
Adjustment(b, m, start, end) ==
    (IF b.mark[m].adv THEN end ELSE start) - b.mark[m].pos

\* record_marker_adjustments: the current buffer's own markers in the region.
Adjustments(b, v, start, end) ==
    LET inside == {m \in Markers : /\ b.mark[m].view = v
                                   /\ b.mark[m].pos \in start .. end
                                   /\ Adjustment(b, m, start, end) # 0}
    IN  [k \in 1 .. Cardinality(inside) |->
            LET m == SetToSeq(inside)[k] IN Adjusted(m, Adjustment(b, m, start, end))]

\* record_delete_with_markers; `moved' are the marker adjustments to record.
RecordDelete(b, v, start, end, moved) ==
    WithUndo(b, v,
        <<Deleted(SubSeq(b.text, start + 1, end), start + 1, b.view[v].point = end)>>
          \o moved \o RecordPoint(b, v, start + 1))

\* record_change.
RecordChange(b, v, start, end) ==
    RecordInsert(RecordDelete(b, v, start, end, <<>>), v, start, end - start)

\* undo_boundary.
AddBoundary(b, v, tracked) ==
    LET list == b.view[v].undo IN
    [b EXCEPT !.view[v].undo = IF AtBoundary(list) THEN list
                               ELSE <<Boundary(b, tracked)>> \o list,
              !.view[v].before = Point(b, v) + 1]

-----------------------------------------------------------------------------
(***************************************************************************)
(* The primitives, each with its record.                                   *)
(***************************************************************************)

DoInsert(b, v, s, before) ==
    LET p == Point(b, v)
    IN  InsertText(RecordInsert(b, v, p, Len(s)), v, p, s, before, p + Len(s))

DoInsertAt(b, v, at, s) ==
    LET p == b.view[v].point
    IN  InsertText(RecordInsert(b, v, at, Len(s)), v, at, s, FALSE,
                   IF p >= at THEN p + Len(s) ELSE p)

DoDelete(b, v, start, end) ==
    IF start >= end THEN b
    ELSE DeleteText(RecordDelete(b, v, start, end, Adjustments(b, v, start, end)), start, end)

\* The insertion is recorded before the deletion, and no marker.
DoReplace(b, v, start, end, s) ==
    ReplaceText(RecordDelete(RecordInsert(b, v, end, Len(s)), v, start, end, <<>>),
                v, start, end, s)

\* Two regions of one length that do not touch are two changes.
DoTranspose(b, v, s1, e1, s2, e2) ==
    LET first == IF b.modified THEN b
                 ELSE WithUndo(b, v, <<FirstChange(ModTime(b, v))>> \o b.view[v].undo)
        marked == [first EXCEPT !.modified = TRUE]
        change == IF e1 - s1 = e2 - s2 /\ e1 # s2
                  THEN RecordChange(RecordChange(marked, v, s1, e1), v, s2, e2)
                  ELSE RecordChange(marked, v, s1, e2)
    IN  TransposeText(change, v, s1, e1, s2, e2)

SetPoint(b, v, p) == [b EXCEPT !.view[v].point = Clamp(b, v, p)]

-----------------------------------------------------------------------------
(***************************************************************************)
(* primitive-undo.                                                         *)
(***************************************************************************)

Visible(b, v, beg, end) == beg >= b.view[v].begv + 1 /\ end <= b.view[v].zv + 1

\* The marker adjustments that follow entry k, for markers that are still there.
StillThere(b, v, group, k) ==
    LET e == group[k]
        run == {j \in k + 1 .. Len(group) :
                  \A i \in k + 1 .. j : group[i].kind = "adjust"}
    IN  {group[j] : j \in {j \in run : LET m == group[j].marker IN
                              b.mark[m].view = v /\ b.mark[m].pos = e.beg - 1}}

\* undo_marker_adjust: a position from 1 becomes one from 0.
Moved(b, entries) ==
    [b EXCEPT !.mark = [m \in Markers |->
        IF \E e \in entries : e.marker = m
        THEN [b.mark[m] EXCEPT !.pos = Max2(@ + 1 - (CHOOSE e \in entries : e.marker = m).by, 0)]
        ELSE @[m]]]

\* undo_apply_one, of a record that is visible.  Adjustments are applied with
\* the deletion they precede.
Applied(b, v, group, k) ==
    LET e == group[k] IN
    CASE e.kind = "point"  -> SetPoint(b, v, e.at - 1)
      [] e.kind = "first"  -> IF e.time = ModTime(b, v) THEN [b EXCEPT !.modified = FALSE] ELSE b
      [] e.kind = "insert" -> DoDelete(SetPoint(b, v, e.beg - 1), v, e.beg - 1, e.end - 1)
      [] e.kind = "delete" ->
           LET put  == DoInsert(SetPoint(b, v, e.beg - 1), v, e.text, FALSE)
               back == IF e.after THEN put ELSE SetPoint(put, v, e.beg - 1)
           IN  Moved(back, StillThere(b, v, group, k))
      [] e.kind = "adjust" -> b

Reachable(b, v, e) ==
    /\ e.kind = "insert" => Visible(b, v, e.beg, e.end)
    /\ e.kind = "delete" => Visible(b, v, e.beg, e.beg)

\* The first record that is out of sight stops a group.
ApplyNext(acc, v, group, k) ==
    IF ~acc.ok \/ ~Reachable(acc.b, v, group[k]) THEN [ok |-> FALSE, b |-> acc.b]
    ELSE [ok |-> TRUE, b |-> Applied(acc.b, v, group, k)]

\* The records of a group in turn.
ApplyGroup(b, v, group) ==
    LET after[k \in 0 .. Len(group)] ==
            IF k = 0 THEN [ok |-> TRUE, b |-> b]
            ELSE LET acc == after[k - 1] IN ApplyNext(acc, v, group, k)
    IN  after[Len(group)]

\* The group at the head of a list, and what is left after its boundary.
GroupLen(list) ==
    IF \E k \in DOMAIN list : list[k].kind = "boundary"
    THEN (CHOOSE k \in DOMAIN list : /\ list[k].kind = "boundary"
                                     /\ \A j \in 1 .. k - 1 : list[j].kind # "boundary") - 1
    ELSE Len(list)

\* The undo command takes the first position out of the records it has made,
\* and those that are equal to it; other positions stay.
Positions(list) == {k \in 1 .. GroupLen(list) : list[k].kind = "point"}
Dropped(list)   == {k \in Positions(list) : list[k].at = list[Min(Positions(list))].at}

WithoutPoint(list) ==
    LET n == GroupLen(list)
        kept[k \in 0 .. n] ==
            IF k = 0 THEN <<>>
            ELSE IF k \in Dropped(list) THEN kept[k - 1]
            ELSE Append(kept[k - 1], list[k])
    IN  kept[n] \o SubSeq(list, n + 1, Len(list))

-----------------------------------------------------------------------------
(***************************************************************************)
(* Commands.                                                               *)
(***************************************************************************)

Original == <<1, 2>>

\* Markers as a boundary record remembers them, and what an undo is held to.
Places == [Markers -> [view : Views, pos : Nat, adv : BOOLEAN]]
Goals  == [ok : BOOLEAN, text : Seq(Nat), mark : Places \cup {<<>>},
           tracked : SUBSET Markers]

ASSUME NoneAssumption == None \notin Goals

Init ==
    /\ \E adv \in [Markers -> BOOLEAN] :
         buf = [text |-> Original,
                view |-> [v \in Views |-> [point |-> 0, begv |-> 0, zv |-> Len(Original),
                                           undo |-> <<>>, before |-> 0]],
                mark |-> [m \in Markers |-> [view |-> Base, pos |-> 1, adv |-> adv[m]]],
                modified |-> FALSE, time |-> 1]
    /\ current = Base /\ pending = None
    /\ saved = Original
    /\ goal = None /\ still = Markers
    /\ left = [edits |-> Edits, moves |-> Moves]

\* The characters in use: in the text and in undo records.
Used ==
    LET strings(e) == IF e.kind \in {"delete", "boundary"} THEN Range(e.text) ELSE {}
    IN  Range(buf.text) \cup Range(Original)
          \cup UNION {strings(e) : e \in UNION {Range(buf.view[v].undo) : v \in Views}}
Fresh == CHOOSE c \in 1 .. Cardinality(Used) + 1 :
            c \notin Used /\ \A d \in 1 .. c - 1 : d \in Used

List == buf.view[current].undo
Commands == Cardinality({k \in DOMAIN List : List[k].kind = "boundary"})

\* Commands that edit nothing, and undo, are taken between those that edit;
\* the command loop ends them as it does the others.
Between == AtBoundary(List)

Edited(b) ==
    /\ left.edits > 0 /\ left' = [left EXCEPT !.edits = @ - 1]
    /\ buf' = b
    /\ pending' = None /\ goal' = None
    /\ UNCHANGED <<current, saved>>

Placed(b) ==
    /\ Between
    /\ left.moves > 0 /\ left' = [left EXCEPT !.moves = @ - 1]
    /\ buf' = AddBoundary(b, current', {})
    /\ pending' = None /\ goal' = None

Insert(before) ==
    /\ TextLen(buf) < Length
    /\ Edited(DoInsert(buf, current, <<Fresh>>, before))
    /\ UNCHANGED still

InsertElsewhere(at) ==
    /\ TextLen(buf) < Length
    /\ Edited(DoInsertAt(buf, current, at, <<Fresh>>))
    /\ UNCHANGED still

Accessible == buf.view[current].begv .. buf.view[current].zv

Delete(start, end) ==
    /\ start < end
    /\ Edited(DoDelete(buf, current, start, end))
    /\ still' = {m \in still : buf.mark[m].view = current}

Replace(start, end) ==
    /\ start < end
    /\ Edited(DoReplace(buf, current, start, end, <<Fresh>>))
    /\ still' = {}

Transpose(s1, e1, s2, e2) ==
    /\ s1 < e1 /\ e1 <= s2 /\ s2 < e2
    /\ Edited(DoTranspose(buf, current, s1, e1, s2, e2))
    /\ still' = {}

\* post_command_undo_boundary: the edits since the last one are one change.
EndCommand ==
    /\ ~Between
    /\ buf' = AddBoundary(buf, current, still)
    /\ still' = Markers
    /\ goal' = None
    /\ UNCHANGED <<current, pending, saved, left>>

Goto(p) ==
    /\ p # buf.view[current].point
    /\ UNCHANGED <<current, saved, still>>
    /\ Placed(SetPoint(buf, current, p))

Narrow(start, end) ==
    /\ UNCHANGED <<current, saved, still>>
    /\ Placed([buf EXCEPT !.view[current].begv = start,
                          !.view[current].zv = end,
                          !.view[current].point = Min2(Max2(@, start), end)])

Widen == Narrow(0, TextLen(buf))

SetMarker(m, p) ==
    /\ still' = still \ {m}
    /\ UNCHANGED <<current, saved>>
    /\ Placed([buf EXCEPT !.mark[m].view = current, !.mark[m].pos = p])

\* set_current_buffer: an indirect buffer's list is parked in the base buffer
\* and taken from there.  The copy left behind is never read: it is written
\* again before it can be.
SetBuffer(w) ==
    /\ w # current /\ current' = w
    /\ UNCHANGED <<saved, still>>
    /\ Placed(WithUndo(WithUndo(buf, current, <<>>), w, List))

\* save-buffer writes the text up to the end of the narrowing.
Save ==
    /\ current = Base /\ buf.time < Saves
    /\ saved' = SubSeq(buf.text, 1, buf.view[current].zv)
    /\ UNCHANGED <<current, still>>
    /\ Placed([buf EXCEPT !.modified = FALSE, !.time = @ + 1])

\* The undo command: another one in a row goes on where the last one ended.
Undo ==
    LET from   == IF pending = None THEN Tail(List) ELSE pending
        n      == GroupLen(from)
        result == ApplyGroup(buf, current, SubSeq(from, 1, n))
        made   == result.b.view[current].undo
        target == IF n < Len(from) THEN from[n + 1]
                  ELSE [text |-> Original, mark |-> <<>>]
    IN  /\ List # <<>> /\ Between /\ from # <<>>
        /\ Commands <= History
        /\ buf' = IF result.ok
                  THEN AddBoundary(WithUndo(result.b, current, WithoutPoint(made)), current, {})
                  ELSE result.b
        /\ pending' = IF result.ok THEN SubSeq(from, n + 2, Len(from))
                      ELSE IF made = List THEN pending ELSE None
        /\ goal' = [ok |-> result.ok, text |-> target.text, mark |-> target.mark,
                    tracked |-> IF pending = None THEN still \cap Head(List).still ELSE {}]
        /\ still' = IF result.ok THEN Markers ELSE {}
        /\ UNCHANGED <<current, saved, left>>

Next ==
    \/ \E before \in BOOLEAN : Insert(before)
    \/ \E at \in Accessible : InsertElsewhere(at)
    \/ \E start, end \in Accessible : Delete(start, end)
    \/ \E start, end \in Accessible : Replace(start, end)
    \/ \E s1, e1, s2, e2 \in Accessible : Transpose(s1, e1, s2, e2)
    \/ EndCommand
    \/ \E p \in Accessible : Goto(p)
    \/ \E r \in Narrowings : r[2] <= TextLen(buf) /\ Narrow(r[1], r[2])
    \/ Widen
    \/ \E m \in Markers, p \in 0 .. TextLen(buf) : SetMarker(m, p)
    \/ \E w \in Views : SetBuffer(w)
    \/ Save
    \/ Undo

Spec == Init /\ [][Next]_vars

-----------------------------------------------------------------------------
(***************************************************************************)
(* Properties.                                                             *)
(***************************************************************************)

\* Every place of every view lies in the text, whichever view edited it.  A
\* marker that undo has adjusted may be one past the end (MarkersComeBack).
TypeOK ==
    /\ current \in Views
    /\ \A v \in Views :
         LET w == buf.view[v] IN
         /\ 0 <= w.begv /\ w.begv <= w.zv /\ w.zv <= TextLen(buf)
         /\ w.point \in 0 .. TextLen(buf)
    /\ \A m \in Markers : buf.mark[m].pos \in Nat

IndexOf(c, text) == CHOOSE i \in DOMAIN text : text[i] = c
Survivors == Range(buf.text) \cap Range(buf'.text)
InOrder == \A c, d \in Survivors :
    IndexOf(c, buf.text) < IndexOf(d, buf.text) <=> IndexOf(c, buf'.text) < IndexOf(d, buf'.text)

\* A place keeps the characters before it before it and those after it after it.
SamePlace(p, q) ==
    \A c \in Survivors : IndexOf(c, buf.text) <= p <=> IndexOf(c, buf'.text) <= q

\* An edit that does not transpose text; an undo is made of such edits.  A
\* transposition that is half undone when undo fails leaves a character twice.
Edit == /\ buf'.text # buf.text /\ goal' = None
        /\ IsInjective(buf.text) /\ IsInjective(buf'.text) /\ InOrder

\* An edit through one view leaves the points, narrowings and markers of every
\* view between the characters they were between.
PlacesKept ==
    [][Edit =>
        /\ \A m \in Markers : SamePlace(buf.mark[m].pos, buf'.mark[m].pos)
        /\ \A v \in Views : /\ SamePlace(Point(buf, v), Point(buf', v))
                             /\ SamePlace(buf.view[v].begv, buf'.view[v].begv)
                             /\ SamePlace(buf.view[v].zv, buf'.view[v].zv)]_vars

Shown(b, v) == {b.text[i] : i \in b.view[v].begv + 1 .. b.view[v].zv}

\* What is inserted through a narrowed view can be seen in it.
EditsStayVisible ==
    [][Edit => Range(buf'.text) \ Range(buf.text) \subseteq Shown(buf', current)]_vars

\* Undoing a command brings back the text it began with, across all the edits,
\* undos and changes of view before and after it; it can fail only in a
\* narrowed buffer.
UndoRestores ==
    goal # None =>
        /\ goal.ok => buf.text = goal.text
        /\ ~goal.ok => buf.view[current].begv > 0 \/ buf.view[current].zv < TextLen(buf)

\* Undoing the last command puts the markers of the buffer that it moved back.
MarkersComeBack ==
    goal # None =>
        (goal.ok => \A m \in goal.tracked \cap DOMAIN goal.mark :
                        goal.mark[m].view = current => buf.mark[m].pos = goal.mark[m].pos)

\* A buffer that is not marked modified holds what its file holds.
UnmodifiedMeansSaved == buf.modified \/ buf.text = saved
=============================================================================
