--------------------------- MODULE ThreadBindings ---------------------------
(***************************************************************************)
(* Dynamic bindings under cooperative threads: specbind and unbind         *)
(* (crates/runtime/src/lisp/eval/bindings.rs), assignments to a variable   *)
(* that may be local to buffers (lisp/eval/symbols.rs, buffer/primitives.rs*)
(* and builtins/data.rs), and exchange_bindings, which a switch of threads *)
(* runs over the stack of the thread that leaves and of the one that comes *)
(* (lisp/threads.rs).                                                      *)
(*                                                                         *)
(* One special variable, since no operation relates two.  Its value cells  *)
(* are shallow: they hold the innermost binding of the running thread and  *)
(* each stack entry holds the value it replaced.  Watchers are not here.   *)
(***************************************************************************)
EXTENDS Naturals, Sequences, FiniteSets, SequencesExt, FiniteSetsExt

CONSTANTS
    Main, Workers,
    Buffers,
    Home,       \* the buffer that is current at the start
    Values,     \* what programs assign
    Nil,        \* Value::Nil, apart from the values above
    Void,       \* sym::UNBOUND
    None,       \* no local value, no origin
    Default,    \* the obarray's cell, beside one cell per buffer
    MaxBind,    \* bound: bindings a thread nests
    MaxOps      \* bound: operations on the variable and on buffers

Threads == Workers \cup {Main}
Places  == Buffers \cup {Default}

ASSUME PlaceAssumption  == Home \in Buffers /\ Default \notin Buffers
                           /\ None \notin Places
ASSUME ThreadAssumption == Main \notin Workers
ASSUME ValueAssumption  == /\ {Nil, Void, None} \cap Values = {}
                           /\ Cardinality({Nil, Void, None}) = 3
ASSUME BoundAssumption  == MaxBind \in Nat /\ MaxOps \in Nat

VARIABLES
    current,  \* the thread that runs
    alive,    \* the workers that have been made and have not ended
    unborn,   \* the workers that have not been made
    buffer,   \* current_buffer, live for current and kept for the others
    live,     \* the ids with a buffer in the BufferSet
    cell,     \* the default cell, and locals[variable] of each buffer
    stack,    \* the SpecBind entries of each thread
    automatic, \* make_local_if_set
    ops

vars == <<current, alive, unborn, buffer, live, cell, stack, automatic, ops>>

Exists(p) == p = Default \/ p \in live

Init == /\ current = Main
        /\ alive = {}
        /\ unborn = Workers
        /\ buffer = [t \in Threads |-> Home]
        /\ live = Buffers
        /\ cell = [p \in Places |-> IF p = Default THEN Void ELSE None]
        /\ stack = [t \in Threads |-> << >>]
        /\ automatic = FALSE
        /\ ops = 0

-----------------------------------------------------------------------------
(* The primitives, run by the current thread.                              *)

Op == ops < MaxOps /\ ops' = ops + 1

Here(t)     == buffer[t]
IsLocal(t)  == cell[Here(t)] # None
\* specbind_shadows_current
Shadowed(t) == \E i \in DOMAIN stack[t] : stack[t][i].origin = Here(t)
BoundP(t)   == (IF IsLocal(t) THEN cell[Here(t)] ELSE cell[Default]) # Void

Store(p, v) == cell' = IF Exists(p) THEN [cell EXCEPT ![p] = v] ELSE cell

Specbind(t, v) ==
    /\ current = t /\ Op
    /\ Len(stack[t]) < MaxBind
    /\ LET p == IF IsLocal(t) THEN Here(t) ELSE Default IN
       /\ stack' = [stack EXCEPT ![t] = Append(@,
             [place  |-> p,
              origin |-> IF automatic /\ ~IsLocal(t) THEN Here(t) ELSE None,
              old    |-> cell[p]])]
       /\ Store(p, v)
    /\ UNCHANGED <<current, alive, unborn, buffer, live, automatic>>

\* A local binding is restored only while the buffer still has one.
Unbind(t) ==
    /\ current = t
    /\ stack[t] # << >>
    /\ LET sb == Last(stack[t]) IN
       cell' = IF cell[sb.place] = None THEN cell
               ELSE [cell EXCEPT ![sb.place] = sb.old]
    /\ stack' = [stack EXCEPT ![t] = Front(@)]
    /\ UNCHANGED <<current, alive, unborn, buffer, live, ops, automatic>>

SetSymbol(t, v) ==
    /\ current = t /\ Op
    /\ Store(IF IsLocal(t) \/ (automatic /\ ~Shadowed(t)) THEN Here(t)
             ELSE Default, v)
    /\ UNCHANGED <<current, alive, unborn, buffer, live, stack, automatic>>

SetSymbolDefault(t, v) ==
    /\ current = t /\ Op
    /\ Store(Default, v)
    /\ UNCHANGED <<current, alive, unborn, buffer, live, stack, automatic>>

Makunbound(t) ==
    /\ current = t /\ Op
    /\ Store(IF automatic \/ IsLocal(t) THEN Here(t) ELSE Default, Void)
    /\ UNCHANGED <<current, alive, unborn, buffer, live, stack, automatic>>

Global(t) == {i \in DOMAIN stack[t] : stack[t][i].place = Default}

\* Where defvar-1 puts the init value: in the default cell when the variable
\* is void, and else under the outermost binding if some binding saved a void.
DefvarTarget(t) == CASE ~BoundP(t) -> "default"
                     [] BoundP(t) /\ (\E i \in Global(t) : stack[t][i].old = Void)
                            -> "outermost"
                     [] OTHER -> "nothing"

Defvar1(t, v) ==
    /\ current = t /\ Op
    /\ \/ /\ DefvarTarget(t) = "default"
          /\ Store(Default, v)
          /\ UNCHANGED stack
       \/ /\ DefvarTarget(t) = "outermost"
          /\ stack' = [stack EXCEPT ![t][Min(Global(t))].old = v]
          /\ UNCHANGED cell
    /\ UNCHANGED <<current, alive, unborn, buffer, live, automatic>>

MakeLocalVariable(t) ==
    /\ current = t /\ Op
    /\ Here(t) \in live
    /\ ~IsLocal(t)
    /\ Store(Here(t), cell[Default])
    /\ UNCHANGED <<current, alive, unborn, buffer, live, stack, automatic>>

\* Mutant of KillLocalVariable: without a local value, the default is killed.
KillVariable(t) ==
    /\ current = t /\ Op
    /\ Here(t) \in live
    /\ Store(IF IsLocal(t) THEN Here(t) ELSE Default, None)
    /\ UNCHANGED <<current, alive, unborn, buffer, live, stack, automatic>>

KillLocalVariable(t) ==
    /\ current = t /\ Op
    /\ Here(t) \in live
    /\ Store(Here(t), None)
    /\ UNCHANGED <<current, alive, unborn, buffer, live, stack, automatic>>

\* make-variable-buffer-local: every call also gives a void default a value.
MakeVariableBufferLocal(t) ==
    /\ current = t /\ Op
    /\ automatic' = TRUE
    /\ cell' = [cell EXCEPT ![Default] = IF @ = Void THEN Nil ELSE @]
    /\ UNCHANGED <<current, alive, unborn, buffer, live, stack>>

SetBuffer(t, b) ==
    /\ current = t
    /\ b \in live
    /\ buffer' = [buffer EXCEPT ![t] = b]
    /\ UNCHANGED <<current, alive, unborn, live, cell, stack, ops, automatic>>

\* The last buffer is not killed here: a new *scratch* would replace it.
KillBuffer(t, b) ==
    /\ current = t /\ Op
    /\ b \in live /\ live # {b}
    /\ live' = live \ {b}
    /\ cell' = [cell EXCEPT ![b] = None]
    /\ \E d \in live' : buffer' = IF Here(t) = b THEN [buffer EXCEPT ![t] = d]
                                  ELSE buffer
    /\ UNCHANGED <<current, alive, unborn, stack, automatic>>

-----------------------------------------------------------------------------
(* Switching threads.                                                      *)

\* One turn of the loop in exchange_bindings: entry i and its cell swap
\* values, a missing local value among them; a killed buffer is skipped.
SwapOne(s, i) ==
    LET sb == s.stack[i] IN
    IF ~Exists(sb.place) THEN s
    ELSE [cell  |-> [s.cell EXCEPT ![sb.place] = sb.old],
          stack |-> [s.stack EXCEPT ![i].old = s.cell[sb.place]]]

\* Mutant of Exchange: both directions walk the stack upwards.
ExchangeUpwards(c, st, outgoing) ==
    LET swapped[n \in 0 .. Len(st)] ==
          IF n = 0 THEN [cell |-> c, stack |-> st] ELSE SwapOne(swapped[n - 1], n)
    IN swapped[Len(st)]

\* The outgoing stack is walked from its end, the incoming one from its start.
Exchange(c, st, outgoing) ==
    LET swapped[n \in 0 .. Len(st)] ==
          IF n = 0 THEN [cell |-> c, stack |-> st]
          ELSE SwapOne(swapped[n - 1], IF outgoing THEN Len(st) + 1 - n ELSE n)
    IN swapped[Len(st)]

\* ThreadContext::take of the one, then install of the other.
SwitchTo(t, u) ==
    LET out == Exchange(cell, stack[t], TRUE)
        in  == Exchange(out.cell, stack[u], FALSE) IN
    /\ current' = u
    /\ cell' = in.cell
    /\ stack' = [stack EXCEPT ![t] = out.stack, ![u] = in.stack]
    /\ UNCHANGED <<unborn, buffer, live, ops, automatic>>

MakeThread(t, u) ==
    /\ current = t
    /\ u \in unborn
    /\ unborn' = unborn \ {u}
    /\ alive' = alive \cup {u}
    /\ buffer' = [buffer EXCEPT ![u] = buffer[t]]
    /\ UNCHANGED <<current, live, cell, stack, ops, automatic>>

Resume(u)  == current = Main /\ u \in alive /\ SwitchTo(Main, u) /\ UNCHANGED alive
Suspend(t) == current = t /\ t # Main /\ SwitchTo(t, Main) /\ UNCHANGED alive

\* A worker ends.  Its bindings are unwound by then, but for a Rust panic,
\* which leaves its stack to the context that is taken and dropped.
Finish(t) ==
    /\ current = t /\ t # Main
    /\ LET out == Exchange(cell, stack[t], TRUE)
           in  == Exchange(out.cell, stack[Main], FALSE) IN
       /\ cell' = in.cell
       /\ stack' = [stack EXCEPT ![t] = << >>, ![Main] = in.stack]
    /\ current' = Main
    /\ alive' = alive \ {t}
    /\ UNCHANGED <<unborn, buffer, live, ops, automatic>>

-----------------------------------------------------------------------------
Next == \E t \in Threads :
    \/ \E v \in Values : \/ Specbind(t, v) \/ SetSymbol(t, v)
                         \/ SetSymbolDefault(t, v) \/ Defvar1(t, v)
    \/ Unbind(t) \/ Makunbound(t) \/ MakeLocalVariable(t) \/ KillLocalVariable(t)
    \/ MakeVariableBufferLocal(t)
    \/ \E b \in Buffers : SetBuffer(t, b) \/ KillBuffer(t, b)
    \/ \E u \in Workers : MakeThread(t, u)
    \/ Resume(t) \/ Suspend(t) \/ Finish(t)

Spec == Init /\ [][Next]_vars

-----------------------------------------------------------------------------
(* The deep bindings the shallow cells implement.                          *)

On(t, p)    == {i \in DOMAIN stack[t] : stack[t][i].place = p}
After(t, i) == {j \in On(t, stack[t][i].place) : j > i}

\* The value of binding i of t: in the next entry of its place, or the cell,
\* while t runs; in the entry itself while t is switched out.
ValueOf(t, i) ==
    LET p == stack[t][i].place IN
    IF ~Exists(p) THEN None
    ELSE IF t # current THEN stack[t][i].old
    ELSE IF After(t, i) = {} THEN cell[p] ELSE stack[t][Min(After(t, i))].old

Shared == [p \in Places |-> IF ~Exists(p) \/ On(current, p) = {} THEN cell[p]
                            ELSE stack[current][Min(On(current, p))].old]
Binds  == [t \in Threads |-> [i \in DOMAIN stack[t] |->
              [place |-> stack[t][i].place, origin |-> stack[t][i].origin,
               val   |-> ValueOf(t, i)]]]

Deep == INSTANCE DeepBinding WITH shared <- Shared, binds <- Binds

-----------------------------------------------------------------------------
(* Properties.                                                             *)

\* Every variable keeps its type; the default is never without a value.
TypeOK ==
    /\ current \in alive \cup {Main}
    /\ alive \subseteq Workers /\ unborn \subseteq Workers
    /\ buffer \in [Threads -> Buffers]
    /\ live \subseteq Buffers
    /\ cell \in [Places -> Values \cup {Nil, Void, None}]
    /\ cell[Default] # None
    /\ stack \in [Threads -> Seq([place  : Places,
                                 origin : Buffers \cup {None},
                                 old    : Values \cup {Nil, Void, None}])]
    /\ automatic \in BOOLEAN
    /\ ops \in 0 .. MaxOps

\* A thread's let is seen by that thread alone and ends where it ends: the
\* shallow cells with exchange_bindings behave as if each thread had its own
\* stack of bindings, through nesting, local values that come and go, killed
\* buffers and threads that end in the middle.
DeepBindingSpec == Deep!Spec

\* Main, switched back to, runs in a live buffer: the current_buffer that
\* ThreadContext::install puts back is one that exists.  kill-buffer repairs
\* current_buffer ("GNU always has a live buffer", its comment says), and
\* every primitive on the current buffer unwraps it.  Main ran before it was
\* switched out, so what is put back is always what take saved.
ReturnsToLiveBuffer == current = Main => buffer[Main] \in live
=============================================================================
