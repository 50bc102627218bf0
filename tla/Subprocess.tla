----------------------------- MODULE Subprocess -----------------------------
(***************************************************************************)
(* Subprocesses and the waits that serve them                              *)
(* (crates/runtime/src/lisp/process.rs).  One Lisp thread polls the pipes  *)
(* of its processes, runs their filters and sentinels, and sends input;    *)
(* the processes run beside it.  A filter may wait, send or delete in its  *)
(* turn, so every Rust function that calls Lisp can find the state of a    *)
(* process changed when the call returns, or never be returned to.         *)
(*                                                                         *)
(* A frame of `stack' is the activation of such a function or of Lisp      *)
(* itself.  A unit of output is what one read returns; a "part" ends       *)
(* within a character and waits in the decoder for the next unit.  Timers, *)
(* other Lisp threads, stopped processes and sockets are left out.  A wait *)
(* with a time limit takes one round.                                      *)
(***************************************************************************)
EXTENDS Naturals, Sequences, FiniteSets, SequencesExt

CONSTANTS
    Children,   \* processes with a program (ProcIo::Child)
    Pipes,      \* pipe processes, written to by programs (ProcIo::Pipe)
    Split,      \* the children whose :stderr is t
    Terminals,  \* the children whose input is a pty (pty_input)
    Turns,      \* polls of one process in a row: 64 in the code
    Nesting,    \* bound: callbacks that run at once
    Capacity,   \* bound: units in an operating system pipe
    Queued,     \* bound: units process-send-string has queued
    Torn,       \* the processes whose output may end within a character
    Removes,    \* the values of delete-exited-processes that are tried
    JustThis,   \* the values of JUST-THIS-ONE that waits are tried with
    TimeLimit   \* whether they are tried with a time limit

Procs == Children \cup Pipes

ASSUME ProcAssumption ==
    /\ Children \cap Pipes = {} /\ Split \cup Terminals \subseteq Children
    /\ IsFiniteSet(Procs)
    /\ Turns \in Nat \ {0} /\ {Nesting, Capacity, Queued} \subseteq Nat
    /\ Torn \subseteq Procs /\ JustThis \cup TimeLimit \cup Removes \subseteq BOOLEAN

VARIABLES
    world,   \* of each process: the program and what is in its pipes
    proc,    \* of each process: the Proc object
    stack,   \* the activations, the innermost last
    asked    \* history: how many input units were sent and not written

vars == <<world, proc, stack, asked>>

Channels == {"out", "err"}

Frame(kind, p) ==
    [kind |-> kind, p |-> p, stage |-> "start", left |-> 0, turn |-> 0,
     main |-> FALSE, exited |-> FALSE, events |-> <<>>,
     todo |-> {}, only |-> FALSE, timed |-> FALSE]

NoProc   == "none"
Top      == Last(stack)
InLisp   == {"top", "filter", "sentinel"}
Alive(p) == proc[p].status \in {"run", "open"}
Deaf(p)  == proc[p].paused \/ proc[p].dead

\* The callbacks that run, the innermost last.
CallsOf(frames) ==
    LET calls[n \in 0 .. Len(frames)] ==
          IF n = 0 THEN <<>>
          ELSE IF frames[n].kind \in {"filter", "sentinel"}
          THEN Append(calls[n - 1], <<frames[n].kind, frames[n].p>>)
          ELSE calls[n - 1]
    IN  calls[Len(frames)]

Callbacks == CallsOf(stack)

\* The list Interp::processes, and which of its processes comes first.
Listed == {p \in Procs : proc[p].listed}
Order  == SetToSeq(Procs)
First(list) == Order[Min({k \in DOMAIN Order : Order[k] \in list})]

\* A process just made, with its input open or closed by process-send-eof, and
\* one that was deleted.
Fresh(p, input) ==
    [status |-> IF p \in Children THEN "run" ELSE "open",
     dead |-> FALSE, reported |-> FALSE, listed |-> TRUE, paused |-> FALSE,
     held |-> <<>>, input |-> input /\ p \in Children, pending |-> <<>>]

Gone(p) ==
    [Fresh(p, FALSE) EXCEPT !.status = "closed", !.dead = TRUE,
                            !.reported = TRUE, !.listed = FALSE]

Starts(p) == {Fresh(p, TRUE), Fresh(p, p \in Terminals), Gone(p)}

Init ==
    /\ proc \in {f \in [Procs -> UNION {Starts(p) : p \in Procs}] :
                   \A p \in Procs : f[p] \in Starts(p)}
    /\ world = [p \in Procs |->
         [runs |-> ~proc[p].dead, out |-> <<>>, err |-> <<>>, stdin |-> 0, owes |-> FALSE]]
    /\ stack = <<[Frame("top", NoProc) EXCEPT !.left = 1]>>
    /\ asked = [p \in Procs |-> 0]

-----------------------------------------------------------------------------
(***************************************************************************)
(* The programs: they write, read their input, echo it, and end.  One that *)
(* must echo and finds its output full does nothing else.                  *)
(***************************************************************************)

\* The unit of a channel that was read and not handed over yet: between a read
\* and the callbacks no other activation starts.
InFlight(p, ch) ==
    IF Top.p = p /\ Top.events # <<>> /\ Head(Top.events).ch = ch
    THEN <<Head(Top.events).unit>> ELSE <<>>

Waiting(p, ch) ==
    (IF ch = "out" THEN proc[p].held ELSE <<>>) \o InFlight(p, ch) \o world[p][ch]

\* Units are told apart while they wait.
Unit(p, ch, form) ==
    [id   |-> CHOOSE n \in 1 .. Len(Waiting(p, ch)) + 1 :
                /\ \A u \in Range(Waiting(p, ch)) : u.id # n
                /\ \A m \in 1 .. n - 1 : \E u \in Range(Waiting(p, ch)) : u.id = m,
     form |-> form]

Write(p, ch, form) ==
    /\ world[p].runs /\ ~world[p].owes
    /\ Len(world[p][ch]) < Capacity
    /\ ch = "err" => p \in Split
    /\ form = "part" => p \in Torn /\ \A u \in Range(Waiting(p, ch)) : u.form = "whole"
    /\ world' = [world EXCEPT ![p][ch] = Append(@, Unit(p, ch, form))]
    /\ UNCHANGED <<proc, stack, asked>>

ReadInput(p) ==
    /\ world[p].runs /\ ~world[p].owes /\ world[p].stdin > 0
    /\ world' = [world EXCEPT ![p].stdin = @ - 1, ![p].owes = TRUE]
    /\ UNCHANGED <<proc, stack, asked>>

Echo(p) ==
    /\ world[p].runs /\ world[p].owes /\ Len(world[p].out) < Capacity
    /\ world' = [world EXCEPT ![p].out = Append(@, Unit(p, "out", "whole")),
                              ![p].owes = FALSE]
    /\ UNCHANGED <<proc, stack, asked>>

\* The program exits; the last writer of a pipe process is gone.
Finish(p) ==
    /\ world[p].runs
    /\ world' = [world EXCEPT ![p].runs = FALSE, ![p].owes = FALSE, ![p].stdin = 0]
    /\ UNCHANGED <<proc, stack, asked>>

-----------------------------------------------------------------------------
(***************************************************************************)
(* Calls and returns.                                                      *)
(***************************************************************************)

Becomes(f) == Append(Front(stack), f)
Calls(f, callee) == Append(Becomes(f), callee)

\* A callback: at the bound it does nothing that waits.
Callback(kind, p) ==
    [Frame(kind, p) EXCEPT !.left = IF Len(Callbacks) < Nesting THEN 1 ELSE 0]

\* The innermost activation returns; the wait that polled its process learns
\* whether stdout was among what it read.
Returned ==
    LET rest == Front(stack)
        below == Last(rest)
    IN  IF Top.kind = "poll" /\ below.kind = "wait" /\ below.stage = "others"
        THEN Append(Front(rest), [below EXCEPT !.main = Top.main])
        ELSE rest

-----------------------------------------------------------------------------
(***************************************************************************)
(* poll_proc and poll_proc_once.                                           *)
(***************************************************************************)

Polling(stage) == Top.kind = "poll" /\ Top.stage = stage

Final(p) == ~Alive(p)

\* Mutant: one turn too many.
OneMoreTurn(f) ==
    IF f.turn < Turns
    THEN [f EXCEPT !.turn = @ + 1, !.stage = "start", !.exited = FALSE]
    ELSE [f EXCEPT !.stage = "over", !.exited = FALSE]

\* After output poll_proc takes another turn, up to the bound.
NextTurn(f) ==
    IF f.turn + 1 < Turns
    THEN [f EXCEPT !.turn = @ + 1, !.stage = "start", !.exited = FALSE]
    ELSE [f EXCEPT !.stage = "over", !.exited = FALSE]

\* output.any: this poll_proc has delivered something.
AnyOutput(f) == f.turn > 0

\* Mutant: a process whose filter is t is not polled at all.
PausedSkips(p) == proc[p].paused

\* A paused child is still polled, so that it is reaped.
SkippedWhilePaused(p) == proc[p].paused /\ p \notin Children

\* try_wait comes before the reads.
PollStart ==
    LET p == Top.p IN
    /\ Polling("start")
    /\ stack' = IF \/ proc[p].dead
                   \/ proc[p].reported /\ Final(p)
                   \/ SkippedWhilePaused(p)
                THEN Returned
                ELSE Becomes([Top EXCEPT !.stage = "first", !.exited = ~world[p].runs])
    /\ UNCHANGED <<world, proc, asked>>

\* The channel that is read first and, when it was empty, the other one.
FirstChannel(f) ==
    IF proc[f.p].paused \/ f.turn % 2 # 0 THEN "err" ELSE "out"
SecondChannel(f) ==
    IF FirstChannel(f) = "out" THEN "err" ELSE "out"

Read(p, ch) ==
    /\ world[p][ch] # <<>>
    /\ world' = [world EXCEPT ![p][ch] = Tail(@)]

Event(ch, unit) == [ch |-> ch, unit |-> unit]

\* At most one channel's chunk before the callbacks.
WithEvent(f, ch) ==
    Becomes([f EXCEPT !.stage = "deliver",
                      !.events = <<Event(ch, Head(world[f.p][ch]))>>])

ReadChild ==
    LET p == Top.p
        ch == IF Top.stage = "first" THEN FirstChannel(Top) ELSE SecondChannel(Top)
    IN
    /\ Polling("first") \/ Polling("second")
    /\ p \in Children
    /\ \/ /\ Read(p, ch) /\ stack' = WithEvent(Top, ch)
       \/ /\ world[p][ch] = <<>> /\ UNCHANGED world
          /\ stack' = Becomes([Top EXCEPT !.stage =
                        IF Top.events # <<>> THEN "deliver"
                        ELSE IF Top.stage = "first" /\ ~proc[p].paused
                        THEN "second" ELSE "act"])
    /\ UNCHANGED <<proc, asked>>

\* Mutant: try_wait after the reads.
ExitNow(f) == ~world[f.p].runs

\* An exit observed before the reads, which found nothing.
ExitSeen(f) == f.exited

\* The descriptors are closed: what they still hold is gone.
Closed(p) ==
    world' = [world EXCEPT ![p].runs = FALSE, ![p].owes = FALSE,
                           ![p].stdin = 0, ![p].out = <<>>, ![p].err = <<>>]

\* No output: the exit is acted on, unless this poll_proc delivered some.
ActOnExit ==
    LET p == Top.p IN
    /\ Polling("act")
    /\ IF ExitSeen(Top) /\ ~AnyOutput(Top)
       THEN /\ Closed(p)
            /\ proc' = [proc EXCEPT ![p].status = "exit", ![p].input = FALSE,
                                    ![p].pending = <<>>]
            /\ asked' = [asked EXCEPT ![p] = 0]
            /\ stack' = Becomes([Top EXCEPT !.stage = "finish"])
       ELSE stack' = Returned /\ UNCHANGED <<world, proc, asked>>

\* A pipe process: one read, and end of file once every writer is gone.
ReadPipe ==
    LET p == Top.p IN
    /\ Polling("first") /\ p \in Pipes
    /\ UNCHANGED asked
    /\ \/ /\ Read(p, "out") /\ stack' = WithEvent(Top, "out") /\ UNCHANGED proc
       \/ /\ world[p].out = <<>> /\ UNCHANGED world
          /\ IF ~world[p].runs /\ proc[p].status # "closed"
             THEN /\ proc' = [proc EXCEPT ![p].status = "closed"]
                  /\ stack' = Becomes([Top EXCEPT !.stage = "finish"])
             ELSE stack' = Returned /\ UNCHANGED proc

\* deliver_output: the decoder keeps a part; a filter of t discards.
Deliver ==
    LET p == Top.p
        event == Head(Top.events)
        left == [Top EXCEPT !.events = Tail(@), !.main = @ \/ event.ch = "out"]
        rest == IF left.events = <<>> THEN NextTurn(left) ELSE left
    IN
    /\ Polling("deliver")
    /\ IF event.unit.form = "part"
       THEN /\ proc' = [proc EXCEPT ![p].held = Append(@, event.unit)]
            /\ stack' = Becomes(rest)
       ELSE /\ proc' = [proc EXCEPT ![p].held = <<>>]
            /\ stack' = IF proc[p].paused
                        THEN Becomes(rest) ELSE Calls(rest, Callback("filter", p))
    /\ UNCHANGED <<world, asked>>

\* Ev::Exit, first half: finish_output flushes the decoder.
FlushDecoder ==
    LET p == Top.p
        over == [Top EXCEPT !.stage = "exit"]
    IN
    /\ Polling("finish")
    /\ proc' = [proc EXCEPT ![p].held = <<>>]
    /\ stack' = IF proc[p].held # <<>> /\ ~proc[p].paused
                THEN Calls(over, Callback("filter", p)) ELSE Becomes(over)
    /\ UNCHANGED <<world, asked>>

\* deactivate_exited_process: off the list, if delete-exited-processes says so.
Report(p, removed) ==
    [proc EXCEPT ![p].listed = @ /\ ~removed, ![p].reported = TRUE]

\* Second half: the transport is given up and the sentinel is called, unless a
\* callback of the first half had that done already.
TellSentinel ==
    LET p == Top.p
        over == [Top EXCEPT !.stage = "over"]
    IN
    /\ Polling("exit")
    /\ \E removed \in Removes : proc' = Report(p, removed)
    /\ stack' = IF proc[p].reported THEN Becomes(over)
                ELSE Calls(over, Callback("sentinel", p))
    /\ UNCHANGED <<world, asked>>

PollOver ==
    /\ Polling("over")
    /\ stack' = Returned
    /\ UNCHANGED <<world, proc, asked>>

\* poll_all_except, over a copy of the list.
PollAll(except) ==
    [Frame("all", NoProc) EXCEPT !.todo = Listed \ {except}]

PollNext ==
    /\ Top.kind = "all"
    /\ stack' =
         IF Top.todo = {} THEN Returned
         ELSE LET p == First(Top.todo)
                  rest == [Top EXCEPT !.todo = @ \ {p}]
              IN  IF proc[p].dead THEN Becomes(rest) ELSE Calls(rest, Frame("poll", p))
    /\ UNCHANGED <<world, proc, asked>>

-----------------------------------------------------------------------------
(***************************************************************************)
(* accept-process-output.                                                  *)
(***************************************************************************)

WaitIn(stage) == Top.kind = "wait" /\ Top.stage = stage

\* A target that is not alive is polled once.
WaitPoll ==
    /\ WaitIn("start")
    /\ stack' = Calls([Top EXCEPT !.stage = "others", !.main = FALSE,
                                  !.timed = @ \/ ~Alive(Top.p)],
                      Frame("poll", Top.p))
    /\ UNCHANGED <<world, proc, asked>>

WaitOthers ==
    LET decide == [Top EXCEPT !.stage = "decide"] IN
    /\ WaitIn("others")
    /\ stack' = IF Top.only THEN Becomes(decide) ELSE Calls(decide, PollAll(Top.p))
    /\ UNCHANGED <<world, proc, asked>>

WaitDecide ==
    /\ WaitIn("decide")
    /\ stack' = IF Top.main \/ Top.timed THEN Returned
                ELSE Becomes([Top EXCEPT !.stage = "start"])
    /\ UNCHANGED <<world, proc, asked>>

-----------------------------------------------------------------------------
(***************************************************************************)
(* process-send-string and process-send-eof to a child.                    *)
(***************************************************************************)

CanSend(p) == p \in Children /\ ~proc[p].dead /\ proc[p].status = "run"

\* Mutant: a send writes its own bytes before what is still queued.
Prepend(queue, n) == <<n>> \o queue

\* The unsent bytes are one queue, shared by nested sends.
Enqueue(queue, n) == Append(queue, n)

\* A unit of input is its rank among those not written yet, in the order in
\* which the sends were called.
Written(queue) ==
    [k \in DOMAIN Tail(queue) |->
        IF Tail(queue)[k] > Head(queue) THEN Tail(queue)[k] - 1 ELSE Tail(queue)[k]]

SendUnit(p) ==
    /\ asked[p] < Queued
    /\ proc' = [proc EXCEPT ![p].pending = Enqueue(@, asked[p] + 1)]
    /\ asked' = [asked EXCEPT ![p] = @ + 1]
    /\ stack' = Calls([Top EXCEPT !.left = 0], Frame("send", p))

\* write_eof: what is sent after the end of file goes nowhere.
SendString(p) ==
    /\ CanSend(p)
    /\ \/ proc[p].input /\ SendUnit(p)
       \/ /\ ~proc[p].input
          /\ stack' = Becomes([Top EXCEPT !.left = 0])
          /\ UNCHANGED <<proc, asked>>
    /\ UNCHANGED world

\* A terminal is sent the character C-d, one more unit, and its input stays open.
SendEof(p) ==
    /\ CanSend(p) /\ proc[p].input
    /\ \/ p \in Terminals /\ SendUnit(p)
       \/ /\ p \notin Terminals
          /\ stack' = Calls([Top EXCEPT !.left = 0], Frame("eof", p))
          /\ UNCHANGED <<proc, asked>>
    /\ UNCHANGED world

Sending == Top.kind \in {"send", "eof"}

\* The loop of write_child_input can write to the descriptor.
CanWrite(p) == CanSend(p) /\ proc[p].input /\ proc[p].pending # <<>>

\* The send returns, and process-send-eof closes the descriptor then.
InputDone(p, rest) ==
    /\ proc' = [proc EXCEPT ![p].pending = rest,
                            ![p].input = @ /\ (Top.kind = "send" \/ rest # <<>>)]
    /\ stack' = IF rest = <<>> THEN Returned ELSE stack

\* One turn of the loop that writes.
WriteInput ==
    LET p == Top.p IN
    /\ Sending /\ CanWrite(p)
    /\ world[p].runs /\ world[p].stdin < Capacity
    /\ world' = [world EXCEPT ![p].stdin = @ + 1]
    /\ InputDone(p, Written(proc[p].pending))
    /\ asked' = [asked EXCEPT ![p] = @ - 1]

\* Mutant: the wait for room in the pipe serves nobody.
JustPause(f) == Becomes(f)

\* WouldBlock: the child may have to be read before it reads.
PumpOutput(f) == Calls(f, PollAll(NoProc))

InputFull ==
    LET p == Top.p IN
    /\ Sending /\ CanWrite(p)
    /\ world[p].runs /\ world[p].stdin = Capacity
    /\ stack' = PumpOutput(Top)
    /\ UNCHANGED <<world, proc, asked>>

\* A nested send has written it all, or has closed the descriptor; or
\* process-send-eof finds nothing to write.
NothingToWrite ==
    LET p == Top.p IN
    /\ Sending /\ CanSend(p) /\ ~CanWrite(p)
    /\ InputDone(p, <<>>)
    /\ UNCHANGED <<world, asked>>

\* The process is gone, or nobody reads the pipe any more: an error.
SendFails ==
    LET p == Top.p IN
    /\ Sending
    /\ ~CanSend(p) \/ (CanWrite(p) /\ ~world[p].runs)
    /\ stack' = Returned
    /\ UNCHANGED <<world, proc, asked>>

\* maybe_quit hears C-g: in a callback inhibit-quit is bound.
QuitSend ==
    /\ Sending /\ Callbacks = <<>>
    /\ stack' = SubSeq(stack, 1, 1)
    /\ UNCHANGED <<world, proc, asked>>

-----------------------------------------------------------------------------
(***************************************************************************)
(* Lisp: the command loop, and the callbacks.                              *)
(***************************************************************************)

Runs(kinds) == Top.kind \in kinds

\* Between two commands the command loop polls (thread_wait_events).
Idle ==
    /\ Runs({"top"})
    /\ stack' = Calls([Top EXCEPT !.left = 1], PollAll(NoProc))
    /\ UNCHANGED <<world, proc, asked>>

Accept(p, only, timed) ==
    /\ Runs(InLisp) /\ Top.left > 0
    /\ stack' = Calls([Top EXCEPT !.left = 0],
                      [Frame("wait", p) EXCEPT !.only = only, !.timed = timed])
    /\ UNCHANGED <<world, proc, asked>>

\* Without a process it is one poll of all.
AcceptAny ==
    /\ Runs({"filter", "sentinel"}) /\ Top.left > 0
    /\ stack' = Calls([Top EXCEPT !.left = 0], PollAll(NoProc))
    /\ UNCHANGED <<world, proc, asked>>

Send(p) == Runs(InLisp) /\ Top.left > 0 /\ (SendString(p) \/ SendEof(p))

\* set-process-filter, to t and back.
SetFilter(p) ==
    /\ Runs(InLisp) /\ Top.left > 0
    /\ proc' = [proc EXCEPT ![p].paused = ~@]
    /\ stack' = Becomes([Top EXCEPT !.left = 0])
    /\ UNCHANGED <<world, asked>>

\* delete-process: the child is killed and reaped here.
Delete(p) ==
    /\ Runs(InLisp) /\ Top.left > 0
    /\ Closed(p)
    /\ proc' = [proc EXCEPT ![p].dead = TRUE, ![p].pending = <<>>, ![p].input = FALSE,
                            ![p].listed = FALSE, ![p].reported = TRUE,
                            ![p].status = IF p \in Pipes THEN "closed"
                                          ELSE IF Alive(p) THEN "signal" ELSE @]
    /\ asked' = [asked EXCEPT ![p] = 0]
    /\ LET rest == [Top EXCEPT !.left = 0] IN
       stack' = IF proc[p].reported THEN Becomes(rest)
                ELSE Calls(rest, Callback("sentinel", p))

\* The callback returns, or its error is caught by call_process_callback.
CallbackReturns ==
    /\ Runs({"filter", "sentinel"})
    /\ stack' = Returned
    /\ UNCHANGED <<world, proc, asked>>

\* throw to a catch of Lisp further out.
Throw ==
    /\ Runs({"filter", "sentinel"})
    /\ \E k \in 1 .. Len(stack) - 1 :
         /\ stack[k].kind \in InLisp
         /\ stack' = SubSeq(stack, 1, k)
    /\ UNCHANGED <<world, proc, asked>>

-----------------------------------------------------------------------------
Poll ==
    \/ PollStart \/ ReadChild \/ ActOnExit \/ ReadPipe \/ Deliver
    \/ FlushDecoder \/ TellSentinel \/ PollOver \/ PollNext

Wait == WaitPoll \/ WaitOthers \/ WaitDecide

SendLoop == WriteInput \/ InputFull \/ NothingToWrite \/ SendFails

\* Bound: Lisp does nothing more with a process it has deleted.
Kept == {p \in Procs : ~proc[p].dead}

Lisp ==
    \/ Idle \/ AcceptAny \/ CallbackReturns \/ Throw
    \/ \E p \in Kept : Send(p) \/ SetFilter(p) \/ Delete(p)
    \/ \E p \in Kept, only \in JustThis, timed \in TimeLimit : Accept(p, only, timed)

Programs ==
    \E p \in Procs :
        \/ \E form \in {"whole", "part"} : Write(p, "out", form)
        \/ Write(p, "err", "whole")
        \/ ReadInput(p) \/ Echo(p) \/ Finish(p)

Emacs == Poll \/ Wait \/ SendLoop \/ Lisp

Next == Emacs \/ QuitSend \/ Programs

\* The Lisp thread runs; a program that can read its input or write its echo
\* does so.  No program has to write, to end, or to be interrupted.
Fairness ==
    /\ WF_vars(Emacs)
    /\ \A p \in Children : WF_vars(ReadInput(p) \/ Echo(p))

Spec == Init /\ [][Next]_vars /\ Fairness

-----------------------------------------------------------------------------
(***************************************************************************)
(* Properties.                                                             *)
(***************************************************************************)

UnitSet  == [id : Nat \ {0}, form : {"whole", "part"}]
FrameSet ==
    [kind : InLisp \cup {"poll", "all", "wait", "send", "eof"},
     p : Procs \cup {NoProc},
     stage : {"start", "first", "second", "act", "deliver", "finish", "exit",
              "over", "others", "decide"},
     left : 0 .. 1, turn : 0 .. Turns - 1, main : BOOLEAN, exited : BOOLEAN,
     events : Seq([ch : Channels, unit : UnitSet]),
     todo : SUBSET Procs, only : BOOLEAN, timed : BOOLEAN]

\* The shape of the state; the pipes and the queue within their bounds.
TypeOK ==
    /\ world \in [Procs -> [runs : BOOLEAN, out : Seq(UnitSet), err : Seq(UnitSet),
                            stdin : 0 .. Capacity, owes : BOOLEAN]]
    /\ \A p \in Procs, ch \in Channels : Len(world[p][ch]) <= Capacity
    /\ proc \in [Procs -> [status : {"run", "open", "exit", "signal", "closed"},
                           dead : BOOLEAN, reported : BOOLEAN, listed : BOOLEAN,
                           paused : BOOLEAN, held : Seq(UnitSet), input : BOOLEAN,
                           pending : Seq(1 .. Queued)]]
    /\ asked \in [Procs -> 0 .. Queued]
    /\ stack \in Seq(FrameSet) /\ stack # <<>> /\ stack[1].kind = "top"

\* What a filter and a sentinel are promised, whatever they do to each other:
\* see Delivery.  Units wait in the pipe, in the poll that read them, or in
\* the decoder.
Promise == INSTANCE Delivery WITH
    queue <- [p \in Procs |-> [ch \in Channels |->
                [k \in DOMAIN Waiting(p, ch) |-> Waiting(p, ch)[k].id]]],
    muted <- {p \in Procs : Deaf(p)},
    told  <- {p \in Procs : proc[p].reported},
    calls <- Callbacks

DeliverySpec == Promise!Spec

\* Sends that interrupt one another, in filters that run while a send waits for
\* room, write their units in the order in which they were called; a C-g or a
\* throw leaves the rest to the next send; and process-send-eof closes the
\* input only when everything sent before it is written (write_child_input).
InputInOrder ==
    [][\A p \in Procs :
         /\ world'[p].stdin > world[p].stdin => Head(proc[p].pending) = 1
         /\ proc[p].input /\ ~proc'[p].input /\ Alive(p)' => asked'[p] = 0]_vars

\* A wait for just another process may hold the news of an end back, if that
\* one stays silent.
WaitsElsewhere(p) ==
    \E k \in DOMAIN stack : stack[k].kind = "wait" /\ stack[k].only /\ stack[k].p # p

\* poll_proc_once gives a pipe process the status "closed" before it flushes
\* the decoder to the filter, and finds no end again in one that is closed: its
\* end is told by the activation that found it, or never.  So it waits for a
\* flushed filter that waits for another process; and one throw out of that
\* filter loses it, for the `?' of finish_output leaves before the sentinel.
ItsEnd(p) == {k \in DOMAIN stack : stack[k].p = p /\ stack[k].stage \in {"finish", "exit"}}

FilterWaits(p) ==
    /\ p \in Pipes
    /\ \E j \in ItsEnd(p), k \in DOMAIN stack :
         j < k /\ stack[k].kind = "wait" /\ stack[k].p # p

ThrownAway(p) ==
    p \in Pipes /\ proc[p].status = "closed" /\ ~proc[p].reported /\ ItsEnd(p) = {}

\* A program that has ended is reported, whatever waits and sends are under
\* way.  For a child nothing else may come of it: a busy channel does not hold
\* the news back, a filter of t does not (poll_proc_once reaps it), and after a
\* throw out of the flushed filter try_wait gives the exit again.  The end of a
\* pipe process is held back by a filter of t, and held back or lost as above,
\* and by no other step than a throw is it lost.  Callbacks of a process before
\* it on the list may throw for ever.
ExitReported ==
    /\ [][\A p \in Procs : ThrownAway(p)' => ThrownAway(p) \/ Throw]_vars
    /\ \/ []<><<Throw>>_vars
       \/ \A p \in Procs :
            ~world[p].runs ~> \/ proc[p].reported
                              \/ p \in Pipes /\ proc[p].paused
                              \/ FilterWaits(p) \/ ThrownAway(p)
                              \/ WaitsElsewhere(p)

\* A send that has not come to its end keeps writing, although the child must be
\* read before it reads (write_child_input pumps the output), unless Lisp has
\* paused the output or waits within.  Only callbacks that send again and again
\* keep the outer send from returning: they share its queue.
SendsTo(p) == \E k \in DOMAIN stack : stack[k].kind \in {"send", "eof"} /\ stack[k].p = p
WaitsIn == \E k \in DOMAIN stack : stack[k].kind = "wait"

SendProgresses ==
    \A p \in Children :
        \/ []<>(~SendsTo(p) \/ proc[p].paused \/ WaitsIn)
        \/ []<><<world'[p].stdin > world[p].stdin>>_vars
=============================================================================
