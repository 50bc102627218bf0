--------------------------- MODULE QuitUnwinding ---------------------------
(***************************************************************************)
(* Non-local exits of one Lisp thread, and the C-g that arrives while one  *)
(* is under way (crates/runtime/src/lisp/eval/control.rs).  A signal is    *)
(* offered to the observers of handler-bind and to condition-case in       *)
(* dynamic order before anything is unwound; the exit then unwinds the     *)
(* Rust frames of the evaluator one by one.  So that the cleanup forms on  *)
(* the way are not interrupted, quit-flag is moved into                    *)
(* Interp::unwind_quit for the time of the unwinding, and every eval keeps *)
(* the value of that register it was entered with.                         *)
(*                                                                         *)
(* A frame of `stack' stands for the evaluation of one special form, the   *)
(* eval around it included.  The depth limit, the debugger's reserve, the  *)
(* signal hook and kill-emacs are left out.                                *)
(***************************************************************************)
EXTENDS Naturals, Sequences, FiniteSets, FiniteSetsExt, SequencesExt

CONSTANTS
    Depth,       \* bound: frames on the stack
    MaxPresses   \* bound: how often the user types C-g

ASSUME BoundAssumption == Depth \in Nat /\ MaxPresses \in Nat

VARIABLES
    stack,     \* the Rust frames of the evaluator, the innermost last
    cases,     \* Interp::case_handlers: the conditions each condition-case names
    binds,     \* Interp::handler_bindings
    exit,      \* the Err(Flow) that frames return, or NoExit
    offer,     \* the signal offer_signal searches a handler for, or NoOffer
    flag,      \* quit-flag: "nil" or "t"
    register,  \* Interp::unwind_quit: "none" or the saved quit-flag
    inhibit,   \* inhibit-quit
    pending,   \* a C-g maybe_quit has not taken yet
    presses,   \* how many C-g were typed
    heard,     \* history: how often maybe_quit found one
    quits,     \* history: how many quits it signalled
    owed,      \* history: a C-g was heard and no quit signalled since
    replaced   \* history: ... and a cleanup has raised an exit of its own

control == <<stack, cases, binds>>
history == <<heard, quits, owed, replaced>>
vars == <<control, exit, offer, flag, register, inhibit, pending, presses, history>>

Conditions == {"error", "quit"}
\* (error ...) and the t that catches everything.
Clauses    == {{"error"}, Conditions}

NoExit  == [type |-> "none", frame |-> 0, target |-> 0, since |-> 0]
NoOffer == [cond |-> "none", bind |-> 0, case |-> 0]

Running == exit = NoExit /\ offer = NoOffer
Top     == stack[Len(stack)]
Below   == Front(stack)

\* An empty frame: `saved' is the register its eval took, `what' the
\* conditions it names, `mark' the length of the list it pushed on, `local'
\* and `under' what a cleanup restores and the exit it runs under, `hidden'
\* what an observer does not see.  `since' and `carried' are history: how many
\* C-g had been heard when the unwinding a cleanup belongs to began, and
\* whether one of them waits for it to be over.
Form(kind, saved) ==
    [kind |-> kind, saved |-> saved, what |-> {}, mark |-> 0,
     local |-> "none", under |-> NoExit, since |-> 0, carried |-> FALSE,
     hidden |-> [cases |-> <<>>, binds |-> <<>>, offer |-> NoOffer]]

Init ==
    /\ stack = <<>> /\ cases = <<>> /\ binds = <<>>
    /\ exit = NoExit /\ offer = NoOffer
    /\ flag = "nil" /\ register = "none" /\ inhibit = FALSE
    /\ pending = FALSE /\ presses = 0
    /\ heard = 0 /\ quits = 0 /\ owed = FALSE /\ replaced = FALSE

-----------------------------------------------------------------------------
(***************************************************************************)
(* The register.                                                           *)
(***************************************************************************)

\* finish_quit_unwind: quit-flag once `saved' is put back.
Restored(saved, current) ==
    IF saved = "t" /\ current = "nil" THEN saved ELSE current

\* begin_quit_unwind: quit-flag, `current' by now, moves into the register.
BeginQuitUnwind(current) == register' = current /\ flag' = "nil"

\* rebase_quit_unwind: a discarded scope ends one region of the unwinding.
RebaseQuitUnwind ==
    IF register = "none"
    THEN UNCHANGED <<register, flag, exit>>
    ELSE /\ exit' = [exit EXCEPT !.since = heard]
         /\ BeginQuitUnwind(Restored(register, flag))

\* The end of an eval that returned a value.
EvalReturns(saved) ==
    register' = saved /\ flag' = Restored(register, flag)

-----------------------------------------------------------------------------
(***************************************************************************)
(* Entering a form.  eval takes the register, then maybe_quit looks for a  *)
(* C-g.                                                                    *)
(***************************************************************************)

Press ==
    /\ presses < MaxPresses
    /\ presses' = presses + 1 /\ pending' = TRUE
    /\ UNCHANGED <<control, exit, offer, flag, register, inhibit, history>>

\* quit-flag after take_for_eval and synchronize_quit_request.
Synchronized == IF pending THEN "t" ELSE flag

Quits == Synchronized = "t" /\ ~inhibit

\* maybe_quit takes what is pending.
Take ==
    /\ pending' = FALSE
    /\ heard' = heard + (IF pending THEN 1 ELSE 0)

\* maybe_quit finds no reason to quit.
NoQuit ==
    /\ ~Quits
    /\ Take
    /\ owed' = (owed \/ pending)

\* A raise in the Lisp of a cleanup that runs under an exit: the register
\* eval took is never put back.
ReplacesExit == owed /\ register = "t"

\* offer_flow: the search starts with the innermost binding and case.
StartOffer(cond) ==
    offer' = [cond |-> cond, bind |-> Len(binds), case |-> Len(cases)]

QuitSignal ==
    /\ Running /\ Quits
    /\ Take
    /\ flag' = "nil" /\ register' = "none"
    /\ quits' = quits + 1 /\ owed' = FALSE /\ replaced' = FALSE
    /\ StartOffer("quit")
    /\ UNCHANGED <<control, exit, inhibit, presses>>

\* A form without subforms of interest, such as a constant in a call.
Leaf ==
    /\ Running /\ pending
    /\ NoQuit
    /\ flag' = Synchronized
    /\ UNCHANGED <<control, exit, offer, register, inhibit, presses, quits, replaced>>

SignalError ==
    /\ Running /\ stack # <<>>
    /\ NoQuit
    /\ flag' = Synchronized /\ register' = "none"
    /\ replaced' = (replaced \/ ReplacesExit)
    /\ StartOffer("error")
    /\ UNCHANGED <<control, exit, inhibit, presses, quits>>

\* f_throw to a tag some frame catches (without one it signals no-catch).
Throw ==
    /\ Running
    /\ \E p \in DOMAIN stack : stack[p].kind = "catch"
    /\ NoQuit
    /\ BeginQuitUnwind(Synchronized)
    /\ replaced' = (replaced \/ ReplacesExit)
    /\ exit' = [NoExit EXCEPT !.type = "throw", !.since = heard']
    /\ UNCHANGED <<control, offer, inhibit, presses, quits>>

\* What every special form does on entry.
Enter(frame) ==
    /\ Running /\ Len(stack) < Depth
    /\ NoQuit
    /\ stack' = Append(stack, frame)
    /\ flag' = Synchronized /\ register' = "none"
    /\ UNCHANGED <<exit, offer, presses, quits, replaced>>

\* sf_catch and sf_unwind_protect.
EnterCatch ==
    /\ Enter(Form("catch", register))
    /\ UNCHANGED <<cases, binds, inhibit>>

EnterUnwindProtect ==
    /\ Enter(Form("protect", register))
    /\ UNCHANGED <<cases, binds, inhibit>>

\* sf_condition_case pushes its clauses.
EnterConditionCase(conds) ==
    /\ Enter([Form("case", register) EXCEPT !.what = conds, !.mark = Len(cases) + 1])
    /\ cases' = Append(cases, conds)
    /\ UNCHANGED <<binds, inhibit>>

\* f_handler_bind_1 pushes its observer with the cases there are by now.
EnterHandlerBind(conds) ==
    /\ Enter([Form("bind", register) EXCEPT !.what = conds, !.mark = Len(binds)])
    /\ binds' = Append(binds, [conds |-> conds, depth |-> Len(cases), at |-> Len(stack) + 1])
    /\ UNCHANGED <<cases, inhibit>>

\* (let ((inhibit-quit t)) ...).
EnterInhibit ==
    /\ ~inhibit
    /\ Enter(Form("inhibit", register))
    /\ inhibit' = TRUE
    /\ UNCHANGED <<cases, binds>>

-----------------------------------------------------------------------------
(***************************************************************************)
(* offer_signal.                                                           *)
(***************************************************************************)

Innermost(S) == Max(S \cup {0})

MatchingCase == Innermost({k \in 1..offer.case : offer.cond \in cases[k]})
MatchingBind == Innermost({j \in 1..offer.bind : offer.cond \in binds[j].conds})

\* An inner condition-case stops the search before an outer observer.
CaseIsNext ==
    /\ MatchingCase # 0
    /\ MatchingBind # 0 => MatchingCase > binds[MatchingBind].depth

\* Where a handler for cond is, by dynamic scope alone: while an observer
\* runs, nothing from its handler-bind inwards is in scope.
InScope(p) ==
    \A o \in (p + 1)..Len(stack) :
      stack[o].kind = "observer" => p < stack[o].mark
Handlers(cond) ==
    {p \in DOMAIN stack : stack[p].kind = "case" /\ cond \in stack[p].what /\ InScope(p)}

\* A condition-case is selected; the unwinding begins.
SelectCase ==
    /\ offer # NoOffer /\ CaseIsNext
    /\ exit' = [type |-> offer.cond, frame |-> MatchingCase,
                target |-> Innermost(Handlers(offer.cond)), since |-> heard]
    /\ offer' = NoOffer
    /\ BeginQuitUnwind(flag)
    /\ UNCHANGED <<control, inhibit, pending, presses, history>>

\* Nobody handles it: no register is begun.
Unhandled ==
    /\ offer # NoOffer /\ MatchingCase = 0 /\ MatchingBind = 0
    /\ exit' = [NoExit EXCEPT !.type = offer.cond, !.since = heard]
    /\ offer' = NoOffer
    /\ UNCHANGED <<control, flag, register, inhibit, pending, presses, history>>

\* The frame of observer j, which sees only what is outside its binding.
Observer(j) ==
    [Form("observer", register) EXCEPT
       !.mark = binds[j].at,
       !.hidden = [cases |-> SubSeq(cases, binds[j].depth + 1, Len(cases)),
                   binds |-> SubSeq(binds, j, Len(binds)),
                   offer |-> [offer EXCEPT !.bind = j - 1,
                                           !.case = Min({@, binds[j].depth})]]]

\* Mutant: an observer that runs with its own binding still in force.
ObserveUnscoped ==
    /\ offer # NoOffer /\ MatchingBind # 0 /\ ~CaseIsNext
    /\ LET j == MatchingBind IN
       /\ stack' = Append(stack, [Observer(j) EXCEPT !.hidden.binds = <<>>])
       /\ cases' = SubSeq(cases, 1, binds[j].depth)
       /\ UNCHANGED binds
    /\ offer' = NoOffer /\ register' = "none"
    /\ UNCHANGED <<exit, flag, inhibit, pending, presses, history>>

\* An observer is called, with only the outer handlers in scope.
Observe ==
    /\ offer # NoOffer /\ MatchingBind # 0 /\ ~CaseIsNext
    /\ LET j == MatchingBind IN
       /\ stack' = Append(stack, Observer(j))
       /\ cases' = SubSeq(cases, 1, binds[j].depth)
       /\ binds' = SubSeq(binds, 1, j - 1)
    /\ offer' = NoOffer /\ register' = "none"
    /\ UNCHANGED <<exit, flag, inhibit, pending, presses, history>>

-----------------------------------------------------------------------------
(***************************************************************************)
(* A frame ends, with a value (exit = NoExit) or with the exit.            *)
(***************************************************************************)

Ends(kind) == offer = NoOffer /\ stack # <<>> /\ Top.kind = kind
Returns(kind) == Ends(kind) /\ exit = NoExit
Unwinds(kind) == Ends(kind) /\ exit # NoExit

Untouched == UNCHANGED <<pending, presses, history>>

\* Mutant: a condition-case that leaves its clauses on the list.
UnpushedBinds ==
    /\ cases' = cases
    /\ binds' = IF Top.kind = "bind" THEN SubSeq(binds, 1, Top.mark) ELSE binds
    /\ inhibit' = IF Top.kind = "inhibit" THEN FALSE ELSE inhibit

\* The handler list a form pushed on is as long as before again.
Unpushed ==
    /\ cases' = IF Top.kind = "case" THEN Front(cases) ELSE cases
    /\ binds' = IF Top.kind = "bind" THEN SubSeq(binds, 1, Top.mark) ELSE binds
    /\ inhibit' = IF Top.kind = "inhibit" THEN FALSE ELSE inhibit

FormReturns ==
    /\ \E kind \in {"catch", "case", "bind", "inhibit", "handler"} : Returns(kind)
    /\ stack' = Below /\ Unpushed
    /\ EvalReturns(Top.saved)
    /\ UNCHANGED <<exit, offer>> /\ Untouched

\* An exit passes a form that does not claim it.
Claims ==
    \/ Top.kind = "catch" /\ exit.type = "throw"
    \/ Top.kind = "case"  /\ exit.type # "throw" /\ exit.frame = Top.mark

FormUnwinds ==
    /\ \E kind \in {"catch", "case", "bind"} : Unwinds(kind)
    /\ ~Claims
    /\ stack' = Below /\ Unpushed
    /\ RebaseQuitUnwind
    /\ UNCHANGED offer /\ Untouched

BodyUnwinds ==
    /\ Unwinds("inhibit") \/ Unwinds("handler")
    /\ stack' = Below /\ Unpushed
    /\ UNCHANGED <<exit, offer, flag, register>> /\ Untouched

\* sf_catch: the value thrown is the value of the form.
Caught ==
    /\ Unwinds("catch") /\ Claims
    /\ stack' = Below /\ Unpushed
    /\ EvalReturns(Top.saved)
    /\ exit' = NoExit
    /\ UNCHANGED offer /\ Untouched

\* sf_condition_case: the unwinding is over, then the clause's body runs.
Handled ==
    /\ Unwinds("case") /\ Claims
    /\ stack' = Append(Below, Form("handler", Top.saved)) /\ Unpushed
    /\ register' = "none" /\ flag' = Restored(register, flag)
    /\ exit' = NoExit
    /\ UNCHANGED offer /\ Untouched

\* Mutant: with_quit_preserved without the test for an unwinding under way.
PreserveAlways ==
    /\ Ends("protect")
    /\ stack' = Append(Below, [Top EXCEPT
                  !.kind = "cleanup", !.under = exit, !.local = flag,
                  !.since = heard, !.carried = (flag = "t")])
    /\ flag' = "nil" /\ register' = "none"
    /\ exit' = NoExit
    /\ UNCHANGED <<cases, binds, offer, inhibit>> /\ Untouched

\* Mutant: with_quit_preserved that protects only what an exit has saved.
PreserveOnlyExits ==
    /\ Ends("protect")
    /\ exit' = NoExit
    /\ stack' = Append(Below, [Top EXCEPT
                  !.kind = "cleanup", !.under = exit,
                  !.since = IF register = "none" THEN heard ELSE exit.since,
                  !.carried = (register = "t")])
    /\ UNCHANGED <<cases, binds, offer, flag, register, inhibit>> /\ Untouched

\* sf_unwind_protect: however the body ended, the cleanup forms run under
\* with_quit_preserved.
StartCleanup ==
    /\ Ends("protect")
    /\ exit' = NoExit
    /\ IF register # "none"
       THEN /\ stack' = Append(Below, [Top EXCEPT
                          !.kind = "cleanup", !.under = exit,
                          !.since = exit.since, !.carried = (register = "t")])
            /\ UNCHANGED <<flag, register>>
       ELSE /\ stack' = Append(Below, [Top EXCEPT
                          !.kind = "cleanup", !.under = exit, !.local = flag,
                          !.since = heard, !.carried = (flag = "t")])
            /\ flag' = "nil" /\ UNCHANGED register
    /\ UNCHANGED <<cases, binds, offer, inhibit>> /\ Untouched

\* The cleanup forms are done: the exit goes on, or the form has its value.
CleanupReturns ==
    /\ Returns("cleanup")
    /\ stack' = Below
    /\ exit' = Top.under
    /\ LET current == Restored(Top.local, flag) IN
       IF Top.under = NoExit
       THEN register' = Top.saved /\ flag' = Restored(register, current)
       ELSE flag' = current /\ UNCHANGED register
    /\ UNCHANGED <<cases, binds, offer, inhibit>> /\ Untouched

\* The cleanup forms raise an exit of their own, which replaces the other.
CleanupUnwinds ==
    /\ Unwinds("cleanup")
    /\ stack' = Below
    /\ replaced' = (replaced \/ (owed /\ Top.carried))
    /\ UNCHANGED <<cases, binds, exit, offer, flag, register, inhibit,
                   pending, presses, heard, quits, owed>>

\* What the observer did not see is in scope again.
Unhidden ==
    /\ cases' = cases \o Top.hidden.cases
    /\ binds' = binds \o Top.hidden.binds

\* It declines: the search goes on where it was.
ObserverReturns ==
    /\ Returns("observer")
    /\ stack' = Below /\ Unhidden
    /\ offer' = Top.hidden.offer
    /\ EvalReturns(Top.saved)
    /\ UNCHANGED <<exit, inhibit>> /\ Untouched

\* Its own exit supersedes the signal.
ObserverUnwinds ==
    /\ Unwinds("observer")
    /\ stack' = Below /\ Unhidden
    /\ RebaseQuitUnwind
    /\ UNCHANGED <<offer, inhibit>> /\ Untouched

\* The command loop finishes the unwinding and reports the error, which
\* clears quit-flag.
CommandError ==
    /\ exit # NoExit /\ stack = <<>>
    /\ exit' = NoExit /\ register' = "none" /\ flag' = "nil" /\ inhibit' = FALSE
    /\ owed' = FALSE /\ replaced' = FALSE
    /\ UNCHANGED <<control, offer, pending, presses, heard, quits>>

-----------------------------------------------------------------------------
Raise  == QuitSignal \/ SignalError \/ Throw
Enters == \/ EnterCatch \/ EnterUnwindProtect \/ EnterInhibit
          \/ \E conds \in Clauses : EnterConditionCase(conds) \/ EnterHandlerBind(conds)
Offers == SelectCase \/ Unhandled \/ Observe
Unwind == FormUnwinds \/ BodyUnwinds \/ Caught \/ Handled \/ CleanupUnwinds
          \/ ObserverUnwinds \/ CommandError
Return == FormReturns \/ CleanupReturns \/ ObserverReturns

Next == Press \/ Leaf \/ Raise \/ Enters \/ Offers \/ StartCleanup \/ Unwind \/ Return

Spec == Init /\ [][Next]_vars

-----------------------------------------------------------------------------
Cells  == {"nil", "t"}
Frames == 0..(2 * Depth)

TypeOK ==
    /\ Len(stack) <= 2 * Depth
    /\ \A p \in DOMAIN stack :
         /\ stack[p].kind \in {"catch", "case", "bind", "protect", "inhibit",
                              "handler", "cleanup", "observer"}
         /\ stack[p].saved \in Cells \cup {"none"}
         /\ stack[p].local \in Cells \cup {"none"}
         /\ stack[p].mark \in Frames
    /\ cases \in Seq(Clauses) /\ Len(cases) <= Len(stack)
    /\ Len(binds) <= Len(stack)
    /\ \A j \in DOMAIN binds : binds[j].depth \in 0..Len(cases)
    /\ exit \in [type : Conditions \cup {"none", "throw"}, frame : Frames,
                target : Frames, since : 0..MaxPresses]
    /\ offer \in [cond : Conditions \cup {"none"}, bind : 0..Len(binds),
                 case : 0..Len(cases)]
    /\ flag \in Cells /\ register \in Cells \cup {"none"}
    /\ inhibit \in BOOLEAN /\ pending \in BOOLEAN
    /\ presses \in 0..MaxPresses /\ heard \in 0..MaxPresses
    /\ quits \in 0..MaxPresses /\ owed \in BOOLEAN /\ replaced \in BOOLEAN

\* The places a C-g that was heard may wait in: quit-flag, the register, what
\* an eval or a cleanup keeps of them.
One(held) == IF held THEN 1 ELSE 0
Waiting ==
    One(flag = "t") + One(register = "t")
    + Cardinality({p \in DOMAIN stack : stack[p].saved = "t"})
    + Cardinality({p \in DOMAIN stack : stack[p].local = "t"})

\* A C-g survives the exits that happen to be under way when it comes, however
\* they nest: until a quit is signalled for it, it is somewhere.  The one
\* exception is a cleanup form whose own exit replaces the one that carried it.
\* And it leads to one quit at most: saving quit-flag, restoring it and starting
\* the next region of an unwinding never make two of one.
QuitKept ==
    /\ Running /\ owed /\ ~replaced => Waiting > 0
    /\ quits + Waiting <= heard

\* Cleanup forms are not interrupted by a C-g from before the unwinding they
\* are part of: while they run, quit-flag means one that came since.  And only
\* they run with a value in the register, when an exit waits for them: one left
\* behind anywhere else would make with_quit_preserved protect nothing.
CleanupUndisturbed ==
    /\ \A p \in DOMAIN stack :
         stack[p].kind = "cleanup" /\ flag = "t" => heard > stack[p].since
    /\ exit = NoExit /\ register # "none" =>
         /\ offer = NoOffer /\ stack # <<>>
         /\ Top.kind = "cleanup" /\ Top.under # NoExit

\* A signal ends at the innermost condition-case in scope where it was raised
\* that names it, and at no other the exit passes, though the code knows it
\* only by its index in a list that observers cut short and extend again; and
\* an observer is never called while it, or an observer outside of which it
\* was bound, is already running.
HandlersScoped ==
    /\ exit.type \in Conditions =>
         /\ exit.frame = 0 <=> exit.target = 0
         /\ stack # <<>> /\ Top.kind = "case" =>
              (exit.frame = Top.mark <=> exit.target = Len(stack))
    /\ \A o, q \in DOMAIN stack :
         stack[o].kind = "observer" /\ stack[q].kind = "observer" /\ o < q
         => stack[q].mark > o \/ stack[q].mark < stack[o].mark
=============================================================================
