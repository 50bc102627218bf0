------------------------------ MODULE Delivery ------------------------------
(***************************************************************************)
(* What Lisp is promised about the output of one subprocess and the news   *)
(* of its end.  The channels of a process are queues; a call of the filter *)
(* takes from their heads and nothing is skipped; the sentinel is told of  *)
(* the end once, when all that was written has been handed over, and the   *)
(* filter is not called after it.  A process that Lisp has muted (its      *)
(* filter is t, or it was deleted) may lose what is still queued.          *)
(***************************************************************************)
EXTENDS Naturals, Sequences, SequencesExt

CONSTANTS Procs, Channels

VARIABLES
    queue,   \* queue[p][ch]: units written and not yet handed over
    muted,   \* the processes Lisp does not listen to
    told,    \* the processes whose sentinel has been called for the end
    calls    \* the callbacks that run, the innermost last

vars == <<queue, muted, told, calls>>

Init ==
    /\ queue = [p \in Procs |-> [ch \in Channels |-> <<>>]]
    /\ told \in SUBSET Procs /\ muted = told /\ calls = <<>>

Shorter(short, long) ==
    \E n \in 0 .. Len(long) : short = SubSeq(long, n + 1, Len(long))

OthersKept(p) == \A q \in Procs \ {p} : queue'[q] = queue[q]

\* The process writes one unit.
Write(p, ch) ==
    /\ UNCHANGED <<muted, told, calls>>
    /\ OthersKept(p)
    /\ queue'[p][ch] # <<>> /\ Front(queue'[p][ch]) = queue[p][ch]
    /\ \A c \in Channels \ {ch} : queue'[p][c] = queue[p][c]

\* The filter is called with what comes next.
Filter(p) ==
    /\ p \notin told
    /\ UNCHANGED <<muted, told>>
    /\ calls' = Append(calls, <<"filter", p>>)
    /\ OthersKept(p)
    /\ queue'[p] # queue[p]
    /\ \A ch \in Channels : Shorter(queue'[p][ch], queue[p][ch])

\* Nobody listens to p, now or before.
MutedOnly(p) == p \in muted' /\ muted \subseteq muted' /\ muted' \subseteq muted \cup {p}

\* The sentinel is called: nothing is left, or nobody listens.
Sentinel(p) ==
    /\ p \notin told /\ told' = told \cup {p}
    /\ calls' = Append(calls, <<"sentinel", p>>)
    /\ OthersKept(p)
    /\ \/ MutedOnly(p)
       \/ /\ muted' = muted /\ queue' = queue
          /\ \A ch \in Channels : queue[p][ch] = <<>>

\* What a muted process wrote is thrown away.
Discard(p) ==
    /\ UNCHANGED <<told, calls>>
    /\ MutedOnly(p)
    /\ OthersKept(p)
    /\ \A ch \in Channels : Range(queue'[p][ch]) \subseteq Range(queue[p][ch])

Mute(p) ==
    /\ muted' \in {muted \cup {p}, muted \ {p}}
    /\ UNCHANGED <<queue, told, calls>>

\* A callback returns, or throws past the callbacks it runs in.
Return ==
    /\ Len(calls') < Len(calls)
    /\ calls' = SubSeq(calls, 1, Len(calls'))
    /\ UNCHANGED <<queue, muted, told>>

Next ==
    \/ Return
    \/ \E p \in Procs : Filter(p) \/ Sentinel(p) \/ Discard(p) \/ Mute(p)
    \/ \E p \in Procs, ch \in Channels : Write(p, ch)

Spec == Init /\ [][Next]_vars
=============================================================================
