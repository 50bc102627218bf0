---------------------------- MODULE QuitRequest ----------------------------
(***************************************************************************)
(* C-g between two OS threads.  The UI thread of the GUI counts a quit key *)
(* in a QuitRequest and then queues the key event                          *)
(* (crates/gui/src/logic.rs, FrameEventSender::send); the logic thread     *)
(* hears it either from Interp::maybe_quit, while Lisp runs                *)
(* (crates/runtime/src/lisp/eval/control.rs), or as a key when it polls    *)
(* for input.  Two atomic counters tell the two apart                      *)
(* (crates/runtime/src/frontend/mod.rs).                                   *)
(*                                                                         *)
(* Every access to an atomic is a step of its own.  The counters do not    *)
(* say which key they count: presses are numbered here, and the sets of    *)
(* numbers at the end of VARIABLES are history that no guard reads.        *)
(***************************************************************************)
EXTENDS Naturals, Sequences, FiniteSets

CONSTANT MaxPresses   \* bound: how often the user types C-g

ASSUME PressAssumption == MaxPresses \in Nat

VARIABLES
    pending,     \* QuitRequest::pending
    consumed,    \* QuitRequest::consumed
    queue,       \* the C-g events in the mpsc channel ChanIo::events reads
    presses,     \* how many C-g the UI thread has counted
    sending,     \* the UI thread is between request() and sender.send()
    pc,          \* where the logic thread is
    count,       \* take_for_eval's local: the requests it has swapped out
    key,         \* the C-g discard_quit_key is asked about, or 0
    flag,        \* quit-flag (Interp::quit_flag is moved into it at once)
    inhibit,     \* inhibit-quit
    delivered,   \* history: presses maybe_quit has heard
    owed,        \* history: those no quit has been signalled for since
    discarded,   \* history: presses whose key was thrown away
    typed        \* history: presses whose key reached the command loop

counters == <<pending, consumed>>
ui       == <<presses, sending>>
history  == <<delivered, owed, discarded, typed>>
vars     == <<counters, queue, ui, pc, count, key, flag, inhibit, history>>

\* The presses whose requests are still pending: the latest ones.
Unheard == (presses - pending + 1) .. presses

\* A press counted whose event is not queued yet, and one whose event has
\* been received but not decided about.
Unsent == IF sending THEN 1 ELSE 0
InHand == IF pc \in {"discard", "clear"} THEN 1 ELSE 0

Init ==
    /\ pending = 0 /\ consumed = 0 /\ queue = <<>>
    /\ presses = 0 /\ sending = FALSE
    /\ pc = "input" /\ count = 0 /\ key = 0
    /\ flag = FALSE /\ inhibit = FALSE
    /\ delivered = {} /\ owed = {} /\ discarded = {} /\ typed = {}

(***************************************************************************)
(* The UI thread.                                                          *)
(***************************************************************************)

\* GuiEvent::Key(7): request() comes before the event is queued.
Request ==
    /\ ~sending /\ presses < MaxPresses
    /\ presses' = presses + 1 /\ sending' = TRUE
    /\ pending' = pending + 1
    /\ UNCHANGED <<consumed, queue, pc, count, key, flag, inhibit, history>>

Send ==
    /\ sending
    /\ sending' = FALSE
    /\ queue' = Append(queue, presses)
    /\ UNCHANGED <<counters, presses, pc, count, key, flag, inhibit, history>>

(***************************************************************************)
(* The logic thread running Lisp: maybe_quit, in three steps.              *)
(***************************************************************************)

\* take_for_eval: pending.swap(0).
TakeSwap ==
    /\ pc = "eval"
    /\ count' = pending /\ pending' = 0
    /\ delivered' = delivered \cup Unheard
    /\ owed' = owed \cup Unheard
    /\ pc' = IF pending = 0 THEN "check" ELSE "add"
    /\ UNCHANGED <<consumed, queue, ui, key, flag, inhibit, discarded, typed>>

\* Mutant: take_for_eval that records one delivery however many it took.
TakeAddOne ==
    /\ pc = "add"
    /\ consumed' = consumed + 1
    /\ count' = 0 /\ flag' = TRUE
    /\ pc' = "check"
    /\ UNCHANGED <<pending, queue, ui, key, inhibit, history>>

\* take_for_eval: consumed += count; its caller then sets quit-flag.
TakeAdd ==
    /\ pc = "add"
    /\ consumed' = consumed + count
    /\ count' = 0 /\ flag' = TRUE
    /\ pc' = "check"
    /\ UNCHANGED <<pending, queue, ui, key, inhibit, history>>

\* The rest of maybe_quit.  A quit unwinds to the command loop, or to a
\* condition-case in the Lisp that runs.
SignalQuit ==
    /\ pc = "check" /\ flag /\ ~inhibit
    /\ flag' = FALSE /\ owed' = {}
    /\ pc' \in {"eval", "input"}
    /\ UNCHANGED <<counters, queue, ui, count, key, inhibit,
                   delivered, discarded, typed>>

\* Mutant: maybe_quit that clears quit-flag before it looks at inhibit-quit.
NoQuitClears ==
    /\ pc = "check" /\ (~flag \/ inhibit)
    /\ pc' = "eval" /\ flag' = FALSE
    /\ UNCHANGED <<counters, queue, ui, count, key, inhibit, history>>

NoQuit ==
    /\ pc = "check" /\ (~flag \/ inhibit)
    /\ pc' = "eval"
    /\ UNCHANGED <<counters, queue, ui, count, key, flag, inhibit, history>>

\* Lisp binds or unbinds inhibit-quit.
BindInhibitQuit ==
    /\ pc = "eval"
    /\ inhibit' = ~inhibit
    /\ UNCHANGED <<counters, queue, ui, pc, count, key, flag, history>>

\* command_error and its caller: an error reaches the command loop, which
\* clears quit-flag and inhibit-quit.
CommandError ==
    /\ pc = "eval"
    /\ flag' = FALSE /\ inhibit' = FALSE /\ owed' = {}
    /\ pc' = "input"
    /\ UNCHANGED <<counters, queue, ui, count, key, delivered, discarded, typed>>

\* The command returns.
Return ==
    /\ pc = "eval"
    /\ pc' = "input"
    /\ UNCHANGED <<counters, queue, ui, count, key, flag, inhibit, history>>

(***************************************************************************)
(* The logic thread reading input: recv_timeout, then discard_quit_key.    *)
(***************************************************************************)

PollTimeout ==
    /\ pc = "input" /\ queue = <<>>
    /\ pc' = "eval"
    /\ UNCHANGED <<counters, queue, ui, count, key, flag, inhibit, history>>

PollKey ==
    /\ pc = "input" /\ queue # <<>>
    /\ key' = Head(queue) /\ queue' = Tail(queue)
    /\ pc' = "discard"
    /\ UNCHANGED <<counters, ui, count, flag, inhibit, history>>

\* Mutant: discard_queued_key with a plain fetch_sub on the delivered requests.
DiscardUnchecked ==
    /\ pc = "discard"
    /\ consumed' = consumed - 1
    /\ discarded' = discarded \cup {key}
    /\ key' = 0 /\ pc' = "eval"
    /\ UNCHANGED <<pending, queue, ui, count, flag, inhibit,
                   delivered, owed, typed>>

\* Mutant: discard_queued_key that clears a pending request before it looks at the
\* requests already delivered.
DiscardPendingFirst ==
    /\ pc = "discard"
    /\ IF pending = 0 /\ consumed > 0
       THEN /\ consumed' = consumed - 1
            /\ discarded' = discarded \cup {key}
            /\ key' = 0 /\ pc' = "eval"
       ELSE /\ pc' = "clear"
            /\ UNCHANGED <<consumed, discarded, key>>
    /\ UNCHANGED <<pending, queue, ui, count, flag, inhibit,
                   delivered, owed, typed>>

\* decrement_if_positive(&consumed): the key is dropped if that succeeds.
DiscardQueuedKey ==
    /\ pc = "discard"
    /\ IF consumed > 0
       THEN /\ consumed' = consumed - 1
            /\ discarded' = discarded \cup {key}
            /\ key' = 0 /\ pc' = "eval"
       ELSE /\ pc' = "clear"
            /\ UNCHANGED <<consumed, discarded, key>>
    /\ UNCHANGED <<pending, queue, ui, count, flag, inhibit,
                   delivered, owed, typed>>

\* Mutant: discard_queued_key that clears every pending request, as the swap does.
ClearAllRequests ==
    /\ pc = "clear"
    /\ pending' = 0
    /\ typed' = typed \cup {key}
    /\ key' = 0 /\ pc' = "eval"
    /\ UNCHANGED <<consumed, queue, ui, count, flag, inhibit,
                   delivered, owed, discarded>>

\* Otherwise decrement_if_positive(&pending), and the key is an input.
ClearRequest ==
    /\ pc = "clear"
    /\ pending' = IF pending > 0 THEN pending - 1 ELSE pending
    /\ typed' = typed \cup {key}
    /\ key' = 0 /\ pc' = "eval"
    /\ UNCHANGED <<consumed, queue, ui, count, flag, inhibit,
                   delivered, owed, discarded>>

-----------------------------------------------------------------------------
UiStep    == Request \/ Send
TakeStep  == TakeSwap \/ TakeAdd \/ SignalQuit \/ NoQuit
InputStep == PollTimeout \/ PollKey \/ DiscardQueuedKey \/ ClearRequest
LogicStep == TakeStep \/ InputStep \/ CommandError \/ Return

Next == UiStep \/ LogicStep \/ BindInhibitQuit

Spec == Init /\ [][Next]_vars

\* The operating system runs both threads: an event whose request was
\* counted is sent, and the logic thread takes steps for ever.  What the
\* user types and what Lisp does with inhibit-quit is free.
FairSpec == Spec /\ WF_vars(Send) /\ WF_vars(LogicStep)

-----------------------------------------------------------------------------
TypeOK ==
    /\ pending \in Nat /\ consumed \in Nat /\ count \in Nat
    /\ presses \in 0..MaxPresses /\ key \in 0..MaxPresses
    /\ queue \in Seq(1..MaxPresses)
    /\ sending \in BOOLEAN /\ flag \in BOOLEAN /\ inhibit \in BOOLEAN
    /\ pc \in {"input", "discard", "clear", "eval", "add", "check"}
    /\ delivered \subseteq 1..MaxPresses /\ owed \subseteq delivered
    /\ discarded \subseteq 1..MaxPresses /\ typed \subseteq 1..MaxPresses

\* The two counters, whatever step either thread is in, count exactly the C-g
\* whose events the logic thread has still to decide about: request() and the
\* event queue never drift apart, so the discard count of one press can never
\* be left over for a later one.
CountsAgree ==
    pending + consumed + count = Len(queue) + Unsent + InHand

\* One C-g has one effect.  A key is thrown away only if that very press was
\* delivered to the interpreter as a quit, and a press that was delivered
\* never also reaches the command loop as a key (the contract in the comment
\* on QuitRequest), though the counters are anonymous and the requests of the
\* UI thread fall between any two of the logic thread's accesses.
OneEffect ==
    /\ discarded \subseteq delivered
    /\ typed \cap delivered = {}

\* Outside the few steps of maybe_quit, quit-flag is set exactly while some
\* delivered C-g has not yet led to a quit: no quit without a press behind
\* it, and none forgotten while inhibit-quit holds it back.
FlagMeansOwed == pc # "add" => (flag <=> owed # {})

\* Every C-g is heard in the end, by the evaluation it interrupts or by the
\* command loop, even when the Lisp that runs never returns.
EveryPressHeard ==
    \A press \in 1..MaxPresses :
      presses >= press ~> press \in delivered \cup typed
=============================================================================
