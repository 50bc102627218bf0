---------------------------- MODULE DeepBinding ----------------------------
(***************************************************************************)
(* What `let' promises in a program of several threads: each thread has a  *)
(* stack of bindings of its own over one value shared by all.  There is no *)
(* switch of threads and no swapping here; ThreadBindings implements this. *)
(***************************************************************************)
EXTENDS Naturals, Sequences

CONSTANTS Threads, Buffers, Values, Nil, Void, None, Default, Home

VARIABLES
    shared,  \* the value outside any let: the default and each buffer's local
    binds,   \* the bindings each thread has made, the innermost last
    buffer,  \* the current buffer of each thread
    live,    \* the buffers that have not been killed
    automatic  \* whether assignments make the variable local

vars == <<shared, binds, buffer, live, automatic>>

Init == /\ shared = [p \in Buffers \cup {Default} |->
                        IF p = Default THEN Void ELSE None]
        /\ binds = [t \in Threads |-> << >>]
        /\ buffer = [t \in Threads |-> Home]
        /\ live = Buffers
        /\ automatic = FALSE

On(t, p)    == {i \in DOMAIN binds[t] : binds[t][i].place = p}
Top(t, p)   == CHOOSE i \in On(t, p) : \A j \in On(t, p) : j <= i
Seen(t, p)  == IF On(t, p) = {} THEN shared[p] ELSE binds[t][Top(t, p)].val
Local(t)    == Seen(t, buffer[t]) # None

\* t gives place p, as it sees it, the value v.
Put(t, p, v) == IF On(t, p) = {}
                THEN shared' = [shared EXCEPT ![p] = v] /\ UNCHANGED binds
                ELSE binds' = [binds EXCEPT ![t][Top(t, p)].val = v]
                     /\ UNCHANGED shared

Let(t, v) ==
    /\ binds' = [binds EXCEPT ![t] = Append(@,
          [place  |-> IF Local(t) THEN buffer[t] ELSE Default,
           origin |-> IF automatic /\ ~Local(t) THEN buffer[t] ELSE None,
           val    |-> v])]
    /\ UNCHANGED <<shared, buffer, live, automatic>>

\* The innermost binding ends.  A value killed under it stays killed.
Unlet(t) ==
    /\ binds[t] # << >>
    /\ LET n    == Len(binds[t])
           p    == binds[t][n].place
           rest == SubSeq(binds[t], 1, n - 1)
           gone == binds[t][n].val = None
           below == {i \in DOMAIN rest : rest[i].place = p} IN
       /\ binds' = [binds EXCEPT ![t] =
             [i \in DOMAIN rest |->
                IF gone /\ i \in below /\ \A j \in below : j <= i
                THEN [rest[i] EXCEPT !.val = None] ELSE rest[i]]]
       /\ shared' = IF gone /\ below = {} THEN [shared EXCEPT ![p] = None]
                    ELSE shared
    /\ UNCHANGED <<buffer, live, automatic>>

\* Assignments: to the local value when there is one or must be one.
Set(t, v) ==
    /\ LET shadowed == \E i \in DOMAIN binds[t] : binds[t][i].origin = buffer[t]
           here     == Local(t) \/ (automatic /\ ~shadowed) IN
       IF here THEN IF buffer[t] \in live THEN Put(t, buffer[t], v)
                    ELSE UNCHANGED <<shared, binds>>
       ELSE Put(t, Default, v)
    /\ UNCHANGED <<buffer, live, automatic>>

SetDefault(t, v) == Put(t, Default, v) /\ UNCHANGED <<buffer, live, automatic>>

MakeUnbound(t) ==
    /\ IF Local(t) \/ automatic
       THEN IF buffer[t] \in live THEN Put(t, buffer[t], Void)
            ELSE UNCHANGED <<shared, binds>>
       ELSE Put(t, Default, Void)
    /\ UNCHANGED <<buffer, live, automatic>>

\* A defvar initializes what t sees as the default, or the shared one.
Defvar(t, v) == /\ \/ Put(t, Default, v)
                   \/ shared' = [shared EXCEPT ![Default] = v] /\ UNCHANGED binds
                /\ UNCHANGED <<buffer, live, automatic>>

MakeLocal(t) == /\ buffer[t] \in live /\ ~Local(t)
                /\ Put(t, buffer[t], Seen(t, Default))
                /\ UNCHANGED <<buffer, live, automatic>>

KillLocal(t) == /\ buffer[t] \in live
                /\ Put(t, buffer[t], None)
                /\ UNCHANGED <<buffer, live, automatic>>

\* From now on assignments make the variable local; a void default gets a value.
MakeAutomatic(t) == /\ automatic' = TRUE
                    /\ IF Seen(t, Default) = Void THEN Put(t, Default, Nil)
                       ELSE UNCHANGED <<shared, binds>>
                    /\ UNCHANGED <<buffer, live>>

SetBuffer(t, b) == /\ b \in live
                   /\ buffer' = [buffer EXCEPT ![t] = b]
                   /\ UNCHANGED <<shared, binds, live, automatic>>

\* A new thread starts in its creator's buffer.
Start(t, u) == /\ binds[u] = << >>
               /\ buffer' = [buffer EXCEPT ![u] = buffer[t]]
               /\ UNCHANGED <<shared, binds, live, automatic>>

\* The bindings of a thread end with it.
End(t) == /\ binds' = [binds EXCEPT ![t] = << >>]
          /\ UNCHANGED <<shared, buffer, live, automatic>>

KillBuffer(t, b) ==
    /\ b \in live /\ live # {b}
    /\ live' = live \ {b}
    /\ shared' = [shared EXCEPT ![b] = None]
    /\ binds' = [u \in Threads |-> [i \in DOMAIN binds[u] |->
                   IF binds[u][i].place = b THEN [binds[u][i] EXCEPT !.val = None]
                   ELSE binds[u][i]]]
    /\ \/ UNCHANGED buffer
       \/ \E d \in live' : buffer' = [buffer EXCEPT ![t] = d]
    /\ UNCHANGED automatic

Next == \E t \in Threads :
    \/ \E v \in Values : Let(t, v) \/ Set(t, v) \/ SetDefault(t, v) \/ Defvar(t, v)
    \/ Unlet(t) \/ MakeUnbound(t) \/ MakeLocal(t) \/ KillLocal(t) \/ End(t)
    \/ MakeAutomatic(t)
    \/ \E b \in Buffers : SetBuffer(t, b) \/ KillBuffer(t, b)
    \/ \E u \in Threads : Start(t, u)

Spec == Init /\ [][Next]_vars
=============================================================================
