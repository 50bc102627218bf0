# remacs: models and proofs

TLA+ models of the parts of remacs, a Rust implementation of GNU Emacs, in which
the order of steps matters, with the TLC configurations that check them and TLAPS
proofs of their main invariants. Paths are relative to the repository; `runtime/`, `gui/`,
`cli/` stand for `crates/runtime/src/`, `crates/gui/src/`, `crates/cli/src/`.

## The system

remacs runs one Lisp interpreter (`Interp`, not `Send`) on one OS thread. In the
GUI a second OS thread runs the windows. Around that single interpreter there are
five kinds of concurrency or sharing, and they are what this project is about:

1. **Lisp threads** are coroutines on the interpreter's OS thread. They switch
   only when one suspends, so what matters is what a primitive reads before a
   suspension and uses after it.
2. **Switching** a Lisp thread swaps its dynamic bindings with the shared value
   cells, one by one, in both directions.
3. **The UI thread** sends input events, counts C-g presses in atomics, and draws
   snapshots; the logic thread polls, publishes and sometimes blocks on a reply.
4. **Callbacks into Lisp** (hooks, pre-redisplay functions, filters, unwind forms)
   run in the middle of primitives and may call nearly anything.
5. **Shared text.** Indirect buffers, undo records, caches and parsers all hold
   positions in one text, or copies of it, which every edit has to keep right.

### Inventory

| component | state | operations | interacts with | hard behaviour |
|---|---|---|---|---|
| Lisp threads (`runtime/lisp/threads.rs`, `lisp/builtins/misc/threads.rs`) | task vector, main's event queue, per thread: pending signal, blocker, wait; mutex owner and count; waiter lists | make-thread, yield, join, signal, mutexes, condition variables, run_one, wait | command loop, timers, bindings | waits cut short by signals, relocking, order of resumption, exit from a worker |
| Bindings (`lisp/eval/bindings.rs`, `lisp/eval/symbols.rs`) | value cells, buffer locals, specbind stack | let and unlet, set, set-default, defvar, kill-local-variable | threads (exchange), kill-buffer | order of the exchange, locals or buffers gone meanwhile |
| Quit requests (`frontend/mod.rs` `QuitRequest`, `lisp/eval/control.rs`) | two atomic counters, event queue, quit-flag, inhibit-quit | request, take_for_eval, discard_queued_key, maybe_quit | UI thread, command loop | a press that arrives twice, as a request and as a key |
| Non-local exits (`lisp/eval/control.rs`, `lisp/error.rs`; special forms of `lisp/special.rs`) | `Err(Flow)`, case_handlers, handler_bindings, unwind_quit, quit-flag | throw, signal, offer, catch, condition-case, handler-bind, unwind-protect | quit requests, every primitive that calls Lisp | observers run before unwinding, cleanups that exit or quit, a C-g on the way |
| GUI frames (`gui/logic.rs`, `gui/lib.rs`) | frames, cached snapshots, mailbox, request channel, windows | render, draw echo, prepare_frame, warp, delete-frame, open and remove windows | redisplay, Lisp hooks | coalescing against FIFO questions, re-entrant callbacks |
| Menu command tokens (`frontend/menu_commands.rs`) | id registry with strong and weak holders | intern, hold, select, sweep | native menus, tool bar | an id that outlives its command |
| Subprocesses (`lisp/process.rs`, `lisp/process/wait.rs`) | process list, pipes, decoder, unsent input, status | poll, deliver output, accept-process-output, send, delete | filters, sentinels, timers | every callback may wait, poll, send, delete or throw; both pipes full |
| Startup, shutdown (`cli/startup/*`, `lifecycle.rs`) | live argument queue, shutdown request | next action, rewrite queue, accept_shutdown | Lisp | the queue rewritten by its own actions |
| Gap buffer (`buffer/gapbuf.rs`) | slots, gap, byte count, two caches, observers | insert, delete, overwrite, replace, set text, representation, dump | parsers (`lisp/builtins/treesit.rs`), buffers | bytes against slots, stale caches, edits across the ends of a region |
| Buffers, markers, undo (`buffer/mod.rs`, `buffer/primitives.rs`) | views, narrowings, markers, undo list | edits, boundaries, undo, set-buffer, save | everything | places of every view at every edit, undo of undos, records from 1 and places from 0 |
| Windows, frames, keymaps (`editor/*`) | window trees, selection | split, delete, select | hooks | hooks that delete what is being worked on |
| Command loop, minibuffer, isearch (`frontend/command.rs`) | unread events, macros, recursion | read, dispatch, redraw | all | order of callbacks and drawing |
| Redisplay, views, dialogs (`frontend/render.rs`, `gui/view.rs`, ...) | caches | render | UI thread | pure computation, platform calls |
| Evaluator, bytecode, reader, printer, loader, regexps | Lisp heap | eval, read, print, load, match | all | unbounded data |
| GC and weak tables (`lisp/memory.rs`) | heap cells | collect | all | weak entries |
| Wrappers (file notification, D-Bus, SQLite, tree-sitter, terminal) | handles | library calls | event queue | external |

What makes each correct, and which of that is checked, is in the sections below;
`PROJECT.json` lists under `hazards` every hazard met so far, at its line, with
the properties that cover it or a note saying why none does.

## Modules

| module | models | EXTENDS / implements |
|---|---|---|
| `Monitor` | abstract: mutexes and condition variables as a monitor | - |
| `LispThreads` | scheduler and thread primitives | implements `Monitor` (`MonitorSpec`) |
| `LispThreadsProofs` | TLAPS proofs about it: types, mutexes; the task vector, waits, the refinement | `LispThreads` |
| `DeepBinding` | abstract: one binding stack per thread, no swapping | - |
| `ThreadBindings` | shallow cells, specbind stacks, the exchange | implements `DeepBinding` (`DeepBindingSpec`) |
| `ThreadBindingsProofs` | TLAPS proofs about it | `ThreadBindings` |
| `QuitRequest` | C-g between the two OS threads | - |
| `QuitRequestProofs` | TLAPS proofs about it | `QuitRequest` |
| `QuitUnwinding` | non-local exits of one thread, and a C-g during them | - |
| `QuitUnwindingProofs` | TLAPS proofs about it | `QuitUnwinding` |
| `LatestValue` | abstract: a mailbox of the newest value | - |
| `GuiFrames` | frames, mailbox, requests, native windows | implements `LatestValue` (`NewestIsDrawn`) |
| `GuiFramesProofs` | TLAPS proofs about it | `GuiFrames` |
| `Delivery` | abstract: output and the news of the end of a process, as queues | - |
| `Subprocess` | polls, filters, sentinels, waits and sends of several processes | implements `Delivery` (`DeliverySpec`) |
| `SubprocessProofs` | TLAPS proofs about it | `Subprocess` |
| `PlainText` | abstract: a text that is edited and read | - |
| `GapBuffer` | the vector with a gap, its byte budget and its caches | implements `PlainText` (`PlainTextSpec`) |
| `SharedText` | the text with a parser's copy that follows it | `GapBuffer` |
| `SharedTextProofs` | TLAPS proofs about both | `SharedText` |
| `BufferEdits` | buffers over one text: edits, places, undo, saving | - |
| `BufferEditsProofs` | TLAPS proofs about it: types, undo, places | `BufferEdits` |
| `MC...` | model values, symmetry and the function constants for TLC | the module they check |

Operators named as mutants in comments (`EligibleOnNil`, `AfterDeleteShort`, ...) are not
part of a specification. Each is a plausible bug; substituting it for the
definition next to it makes TLC find the property it belongs to violated, which
shows that the property can fail.

### LispThreads

A thread's program is arbitrary: while it runs (`pc = "run"`) it may call any
primitive. `pc` names the wait a suspended thread is in, `obj` what it waits for,
`owed` the error to raise when the primitive is over, `saved` the recursion count
a condition primitive put aside, `flow` the `Err(Flow)` on its way up. One action is
what a thread does between two suspensions, so `MutexLock` is one round of
`f_mutex_lock`'s loop and `LockRetry` each later one; `ConditionWait` is the code up to
the suspension, `ConditionWoken` the removal from the waiter list together with the
first try to relock. `tasks` is the vector `run_one` searches: it removes the first
eligible entry (`FirstEligible`), and `Suspend` appends it again. Main is not in the
vector: it runs `RunOne`, `PumpEvents` (thread_wait_events) and `WakeMain` in its wait loop,
as `wait` does for the thread without a yielder. Two variables are history: `depth`, the
levels of each mutex a thread's calls have taken and not given back, and `lost`, those of them that it no
longer has, because a second error cut the relocking of a condition primitive short (the `?` of
`lisp/builtins/misc/threads.rs:293` and 333).

`Monitor` knows no scheduler, signals or queue: enter, leave, wait, wake, and come
back at the old level. `MonitorSpec` is the refinement.

Left out: accessors, names, `thread-last-error`, main waiting again from inside a
timer or filter run by its own wait.

### ThreadBindings

One special variable (no operation relates two), a default cell and one cell per
buffer. An entry of `stack[t]` is a `SpecBind` record: the place that was bound, the buffer
of origin for automatically local variables, the old value. `Exchange` translates
`exchange_bindings`: outgoing, innermost first, each entry's `old` is swapped with the
cell; incoming the other way. `MakeThread`, `Suspend`, `Resume` and `Finish` contain the exchange
they perform. `DeepBinding` has no cells at all: each thread looks up its own stack,
then the shared value. The mapping computes `shared` by taking the current thread's
bindings off the cells. When defvar and make-variable-buffer-local give the default a value is `ThreadBindings`'s
matter (`Defvar1`, `MakeVariableBufferLocal`): `DeepBinding` lets them set it or not, so the refinement says where such
a value goes and not that the rule is right.

### QuitRequest

The UI thread performs two steps per C-g (`Request` adds to `pending`, `Send` queues the
event). The logic thread evaluates (`TakeSwap`, `TakeAdd`, then `SignalQuit` or `NoQuit`) or reads
input (`PollKey`, `DiscardQueuedKey`, `ClearRequest`); each atomic access of the code is a step of its
own. Presses are numbered, and `delivered`, `discarded`, `typed`, `owed` are history variables that
say what became of each, though the code only counts.

### QuitUnwinding

`stack` holds the Rust frames of the evaluator, one per special form with the `eval` around
it; `exit` is the `Err(Flow)` they return, `offer` the state of `offer_signal`'s search. A signal
first runs the observers of handler-bind (`Observe`: frames on top of everything, which see
only the handlers outside their own) and selects a condition-case (`SelectCase`); only then are frames
unwound, each in one action. `cases` and `binds` are the two lists of the interpreter, and a
handler is an index into them, as in the code; `target` is history, the place found by dynamic
scope on the stack. `flag` is quit-flag and `register` is `unwind_quit`: moved there when an unwinding
begins, put back where it ends (`Restored`), and rebased at each scope it discards. Every action
that enters a form takes the register and contains `maybe_quit`, so a C-g (`Press`) can end any of
them.

What the model leaves out: bytecode keeps a handler stack of its own and follows the same
protocol; depth limits; `signal-hook-function`; quit-flag values that only Lisp sets (kill-emacs, the value of
throw-on-input); Rust code that calls Lisp and discards an error.

### GuiFrames

A snapshot is the set of frames in it. `pc` is the logic thread's position: `Publish`
replaces the mailbox and, unless a notification is queued, leaves the thread at
`"notify"`, because the code sends after it has released the lock. `PrepareFrame` to
`Warped` is set-mouse-position: ask, maybe render, ask again, warp. `borrowed` says
that a pre-redisplay function runs, in which case `prepare_frame` publishes without
`render` (`WindowMissingInCallback`). `deleting` holds the delete-frame calls whose hook is
running. The UI thread receives requests in order; a notification is handled in two
steps (receive, then take and draw) and windows change only with `Draw`.

### Subprocess

`stack` holds the activations of the Rust functions that can call Lisp, and of Lisp: polls,
polls of all, waits, sends, filters, sentinels. Each does one step at a time and goes on with
whatever its callee left behind; `Throw` and `QuitSend` discard activations. A poll
(`PollStart` ... `PollOver`) looks whether the program has ended *before* it reads, reads at most
one channel, delivers, and takes another turn after output; `Turns` stands for the 64 of the code. `proc` is
the `Proc` object: `paused` is a filter of t, `dead` a deletion, `reported` that the
sentinel's turn has come, `held` what the decoder keeps of a torn character, `pending` the queue of
unsent input, shared by all sends to the process. `world` is the operating system's side. The
programs may write, read, echo and end at any moment. `asked` is history. `Terminals` are the children
behind a pty: process-send-eof sends them a unit (`\x04`) and leaves their input open, while it closes a
pipe after everything sent. `Removes` are the values of delete-exited-processes, looked at when the end is
reported.

`Delivery` has no pipes, polls or decoder: queues, of which a filter takes the
head, and a sentinel that is called for the end once, after everything was handed over, unless Lisp
has muted the process.

Read in the code and kept in the model, because they surprise: output read while
a process with `:stderr t` is paused is thrown away; a pipe process whose filter is t never
reports its close; the end of a pipe process is lost by one throw out of the filter that gets its last, torn
character, because the poll marks it closed (`lisp/process.rs:1306`) before that filter runs (1420) and tells the sentinel after it,
and it is held back as long as that filter waits for another process (a child has no such hole: `try_wait` gives
its exit again); an outer send may never return, since inner ones share its queue; the loop of
accept-process-output does not listen to C-g by itself; output that a nested wait
consumed is not noticed by the outer one, which goes on waiting.

Left out: creation, timers, stopped processes, sockets and TLS, stderr that goes to a buffer or
another process, the default filter with the process mark.

### GapBuffer and SharedText

The structure is a record, its methods are operators on it, and a text of n characters is a function on
`0..n-1`, as in `PlainText`. The vector's length is also the budget for the text's *bytes*
(`StorageBytes`, one to five), as in GNU Emacs, so a gap is measured in two units. `flat` and `lines` are the two
caches. `PlainText` has a text and the answers read from it.

`SharedText` adds what each change is reported to: `pending`, a parser's `PendingTree`, with a region, a copy of its text and
whether there is a tree. The actions `Share...` are the methods of `SharedText`: the change of the
gap buffer together with the report. What tree-sitter makes of the byte ranges is
external; the model keeps the copy that the ranges are computed from.

### BufferEdits

`buf` holds the text, one view per buffer (point, narrowing, undo list, `before`, which is
point before the command) and the markers. `InsertText`, `DeleteText`, `ReplaceText` and `TransposeText` are the raw
edits with their different rules for the places of the acting view and of the others; `Record...` are the
undo records; the primitives compose the two in the order of the code, which differs between them. `Undo` is
the undo command with `primitive-undo`: a run of undos follows `pending`, anything else
starts again, so undo undoes undos. `EndCommand` is the boundary after a command; as
long as it has not come, edits are one change. `SetBuffer` hands over the undo list. The boundary record also remembers the text and the
markers (history), which is what `UndoRestores` and `MarkersComeBack` compare with.

Left out: text properties, overlays, change hooks, killing, undo in a
region, apply records, and the table that makes redo skip undone undos.

## Runs

| run | question | bounds | result |
|---|---|---|---|
| `threads_safety` | do the thread primitives keep their invariants, implement `Monitor`, and end waits only for their cause? | main + 2 workers, 1 mutex, 1 condition, 8 calls, 2 levels, kill-emacs | holds, 0.8 M states |
| `threads_live` | does every thread that can go on get on, and do joins and signals take effect? | main + 2 workers, 5 calls, 1 level, kill-emacs | holds under `FairSpec`, 0.1 M states |
| `bindings_deep` | does the exchange implement per-thread bindings? | main + 1 worker, 2 buffers, 2 nested lets per thread, 5 operations | holds, 0.2 M states |
| `bindings_buffer` | is main's current buffer alive when main is switched back to? | main + 1 worker, 3 operations | **violated** |
| `quit_request` | do counters and queue agree, has each C-g one effect, is each heard? | 4 presses | holds under `FairSpec`, 3938 states |
| `quit_unwinding` | is a C-g lost, doubled, or early when exits nest? does each signal end at the handler in scope? | 4 nested forms (and the observers they call), 2 presses | holds, 3.1 M states |
| `frames` | is one notification on its way, does the pointer find its window, is the newest snapshot drawn, each question answered? | 2 frames, 2 nested deletions, failing windows, ends of both threads | holds under `FairSpec`, 0.4 M states |
| `process` | is output handed over once, in order and before the end, input written in order, each end reported, no send stuck? | 5 scenes of 1 or 2 processes, pipes of 1 unit, 1 callback at a time, 2 queued units, 2 turns | holds under `Fairness`, 0.3 M states |
| `edits` | do places stay where they were between characters, and does undo restore the text? | base + 1 indirect buffer, 1 marker, 3 characters, 2 edits, 2 moves, 3 commands | holds, 0.8 M states |
| `undo_markers` | does undo put markers back? | as `edits` | **violated** |
| `save_narrowed` | does a buffer that is not modified hold what its file holds? | as `edits` | **violated** |
| `shared_text` | does the gap buffer implement a plain text, and does a parser follow it? | characters of 1 and 3 bytes, strings of 1 and 2, 3 characters, 3 edits, 1 parse | holds, 0.3 M states |

**Why the bounds are enough.** Thread errors need a waiter, a notifier or signaler and
a third party that takes the mutex: that is main and two workers with one mutex and
one condition, and eight calls suffice for lock, wait, notify or signal twice, unlock
on both sides. `MaxEvents` and `MaxDepth` bound counters that the properties treat uniformly; `MaxOps`
counts primitives and not yields, so the schedules themselves are unbounded. The
exchange goes wrong for two nested bindings of the same variable in one thread
against a binding or a kill in another: two nested lets each and two buffers contain
that (three nested lets, 0.3 M states, were checked once).
Four presses are more than the logic thread can hold in different places (counter, in
hand, queue) at once. A C-g in a cleanup of an exit inside a cleanup takes three forms and two presses;
an observer between two handlers, with a handler of its own, takes four. Coalescing needs two snapshots and two frames; a third frame (8.3 M states,
checked once without the hook) behaved alike.

For processes, a pipe that holds one unit is full as soon as it is written to, which is the
case that matters for sends; two turns are a turn after output; a callback inside a send, and sends
to the same process from it, need one callback. A scene has what its question needs: a child written to by a pipe, and
one by a pty; a torn child with a separate stderr; a pipe process alone; a pipe process beside a child, where it ends within a
character and the flushed filter can poll, delete or wait for the other. Waits for just one process are left out of
`process` to keep it short (with them, 0.4 M states, it was checked once and held). An edit, and a
second edit between it and the undo or through the other view, are two edits; characters before,
inside and after a region are three. Two edits that merge, an undo and its undo are three
commands. In `shared_text`, bounds only have to reach a gap in every place relative to a region,
a budget that runs out before the slots, and each cache filled and dropped; the proofs cover the rest.

**Deadlock** is checked in `bindings_deep`, `bindings_buffer`, `quit_request`, `quit_unwinding` and `process`. In the
threads and frames runs the editor may end; in `edits`, `undo_markers`, `save_narrowed` and `shared_text` the
bounds end the behaviours.

**Fairness.** `LispThreads!FairSpec`: the interpreter keeps running (weak fairness of
everything it does), main's commands return to the command loop again and again
(strong fairness of `CommandLoop`: the loop is where yields and events happen, and
`run_editor_with_shared` never leaves it while the editor runs), and deadlines pass. The
liveness properties except the case that a worker has ended the editor (`Exited`). No worker
is given fairness of its own: that it is resumed is what `EligibleRuns` shows, from the
order of the vector. `QuitRequest!FairSpec`: the OS runs both threads; nothing is assumed of the
user or of what Lisp does with inhibit-quit. `GuiFrames!FairSpec`: the UI loop awaits its
channel for ever, the logic thread finishes an operation it has begun; Lisp owes
nothing. `Subprocess!Fairness`: the Lisp thread runs, and a program that can read its input or
write the echo it owes does so; no program has to write, to end or to be
interrupted. What excuses a report or a send that does not come is named in `ExitReported` and
`SendProgresses`: callbacks that throw for ever (those of a process before it on the list, in the same turn again and again),
callbacks that send for ever, a wait for just another process, and for a pipe process a filter of t and the flushed
filter that waits or has thrown. That nothing but a throw loses the end of a pipe process is part of `ExitReported`.

### What the violated runs show

- **Current buffer** (`lisp/threads.rs:110`). kill-buffer replaces the current buffer of the running
  thread only. Main makes a worker and yields, the worker kills the buffer that is current in main and suspends, and `install`
  puts the saved id back: main runs in a buffer that is gone. The property speaks of main because main has always run before it is
  switched back to; a worker's first turn in the buffer it inherited at make-thread (193, 201) would show the same.
- **Markers after undo** (`buffer/primitives.rs:15004`). An adjustment computes a position that
  counts from 1 and stores it where positions count from 0: undoing a deletion leaves a marker
  in the deleted text one character too far.
- **Saving a narrowed buffer** (`editor/mod.rs:16114`). save-buffer writes `text_len()` characters, which is
  the end of the narrowing; the manual says that the inaccessible text is saved too.

One more disagreement has no run of its own, because `threads_safety` already contains it: `lost`. The comment at
`lisp/builtins/misc/threads.rs:292` says that a signaled waiter still reacquires its mutex before it unwinds. But the relocking is itself a
wait, and its `?` (293; 333 in condition-notify) ends it with the next error: a worker locks and waits, main locks the mutex, signals the worker, and
signals it again while it waits for the mutex. It then unwinds without the mutex, through handlers written to run under it and an
unwind form whose mutex-unlock fails. `LevelsKept` says that levels go missing in no other way, and `MutualExclusion` holds for
levels that are not lost. The abstract `Monitor` admits the step (`GiveUp`): the refinement
is silent about it.

Seen while modelling, in earlier runs of these models or in the code, with no run now:
a void buffer-local binding makes defvar overwrite
a default that has a value (`lisp/builtins/data.rs:1115`); after a pre-redisplay function has waited for a new
frame's window, drawing the echo area publishes older snapshots and the window goes
(`gui/logic.rs:771`, 1625); delete-frame counts frames before its hook and relies on the count after it (`editor/mod.rs:6385`); a
handler that signals drops the rest of a batch of main's events (`lisp/threads.rs:70`); condition-notify may choose a waiter that
raises a signal instead (`lisp/builtins/misc/threads.rs:307`); the lost, late and missing ends of pipe processes above.
A handler's error that drops the rest of a batch is not shown by `SignalsArrive`, whose half about main says that the
queue is emptied.

## Proofs

`tlapm` proves, for all values of the constants that satisfy the assumptions:

| theorem | states |
|---|---|
| `LispThreadsProofs!TypesKept` | `Spec => []TypeOK` |
| `LispThreadsProofs!LevelsAreKept` | `Spec => []LevelsKept` |
| `LispThreadsProofs!MutexesExclude` | `Spec => []MutualExclusion` |
| `LispThreadsProofs!NoTaskIsLost` | `Spec => []NoTaskLost` |
| `LispThreadsProofs!WaiterListsExact` | `Spec => []WaiterListExact` |
| `LispThreadsProofs!BlockersTrue` | `Spec => []BlockerTruth` |
| `LispThreadsProofs!WaitsEndOnlyForCause` | `Spec => WaitsEndForCause` |
| `LispThreadsProofs!ImplementsMonitor` | `Spec => MonitorSpec` |
| `ThreadBindingsProofs!BindingTypesKept` | `Spec => []TypeOK` |
| `ThreadBindingsProofs!ImplementsDeepBinding` | `Spec => DeepBindingSpec` |
| `QuitRequestProofs!QuitTypesKept` | `Spec => []TypeOK` |
| `QuitRequestProofs!CountersAgreeWithQueue` | `Spec => []CountsAgree` |
| `QuitRequestProofs!EachPressHasOneEffect` | `Spec => []OneEffect` |
| `QuitRequestProofs!FlagMeansAQuitIsOwed` | `Spec => []FlagMeansOwed` |
| `QuitUnwindingProofs!UnwindingTypesKept` | `Spec => []TypeOK` |
| `QuitUnwindingProofs!SignalsFindTheirHandlers` | `Spec => []HandlersScoped` |
| `QuitUnwindingProofs!QuitsAreKept` | `Spec => []QuitKept` |
| `QuitUnwindingProofs!CleanupsRunUndisturbed` | `Spec => []CleanupUndisturbed` |
| `GuiFramesProofs!GuiTypesKept` | `Spec => []TypeOK` |
| `GuiFramesProofs!OneNotificationAtATime` | `Spec => []OneNotification` |
| `GuiFramesProofs!WarpsInOpenWindow` | `Spec => []WarpFindsWindow` |
| `GuiFramesProofs!DrawsOnlyTheNewest` | `Spec => Mailbox!Safety` |
| `SubprocessProofs!ProcessTypesKept` | `Spec => []TypeOK` |
| `SubprocessProofs!InputIsInOrder` | `Spec => InputInOrder` |
| `SubprocessProofs!ImplementsDelivery` | `Spec => DeliverySpec` |
| `SharedTextProofs!ShapeIsKept` | `Spec => []TypeOK` |
| `SharedTextProofs!BudgetIsKept` | `Spec => []BudgetKept` |
| `SharedTextProofs!ImplementsPlainText` | `Spec => PlainTextSpec` |
| `SharedTextProofs!ParserFollows` | `SharedSpec => []TreeFollows` |
| `SharedTextProofs!SharedBudgetIsKept` | `SharedSpec => []BudgetKept` |
| `SharedTextProofs!SharedImplementsPlainText` | `SharedSpec => PlainTextSpec` |
| `BufferEditsProofs!TypeCorrect` | `Spec => []TypeOK` |
| `BufferEditsProofs!UndoRestoresText` | `Spec => []UndoRestores` |
| `BufferEditsProofs!PlacesAreKept` | `Spec => PlacesKept` |
| `BufferEditsProofs!InsertionsAreShown` | `Spec => EditsStayVisible` |

Every inductive invariant below was also checked by TLC on the instance of its run.

**Threads.** `LevelsKept` is not inductive alone: an action that reads `MutexOf[obj[t]]` must know
that `obj[t]` is a condition variable while the thread is in a condition primitive, and a mutex
while it locks. `ObjOK` says that; the invariant is `IInv == TypeOK /\ ObjOK /\ LevelsKept`. The proof has a
lemma for each building block (`Suspend`, `Wake`, `Return`, acquiring, releasing all levels, relocking)
and one step per action. Mutual exclusion follows: a `depth` above `lost` outside a condition
primitive makes the thread the owner, and there is one owner. Assumptions used: main is
no worker, `MutexOf` maps conditions to mutexes, `None` is none of the objects or errors.

**Waits.** The invariant grows to `WInv == IInv /\ NoTaskLost /\ Waits`. `NoTaskLost` says that the task vector lists
each live worker other than the current thread exactly once, and that these are the parked ones; it needs what removing
the first eligible entry and appending one do to such a list, and main's depth in `run_one`. `Waits` has four parts:
the waiter list of a condition is exactly the threads in its wait (`WaiterListExact`), the blocker is what a thread
waits for (`BlockerTruth`), a thread runs on after a wait without an error only when what it waited for has come: the
target of its join has finished, its own cell is set (`Woken`), and no levels are put aside outside a condition
primitive (`PutAside`). `WaitsEndForCause`, about steps, follows from it. For the refinement, a step maps to enter,
leave, wait, wake or come back of `Monitor`, or to a stutter; only condition-notify needs more: the code sets the cell of the
first waiter in the list whose cell is unset, the monitor wakes any one waiter not yet woken, so
the proof needs that there is a least such place in the list (`LeastNat`).

**Bindings.** The loop of `exchange_bindings` is a recursive function over the stack, and what it computes has a closed
form. Once the entries above `n` of an outgoing stack have had their turn, a cell holds the `old` of the lowest entry above
`n` that binds its place, and an entry that of the next one above it, or the cell (`OutCell`, `OutStack`; `InCell` and
`InStack` for the other direction). `OutTurn` and `InTurn` show that one turn of the loop keeps the form. That the loop
then ends in it is not an induction but a uniqueness: the closed form satisfies the equation of the loop (`Walk`), and two functions that do
differ nowhere, because there is no least turn at which they do (`WalkUnique`). A buffer that does not exist any more complicates it:
its turns do nothing, in both directions. `InThenOut` says that swapping in and out again restores what the thread's stack said,
and leaves the other cells alone. The invariant is `BInv == TypeOK /\ Bindings`: a killed buffer has no local value, what a
binding of the default put away is a value, threads that are not there have no bindings, and no thread is both alive and
still to be made. The refinement has one lemma per operation: a push adds an entry to the view of the current thread and leaves the
rest (`PushView`), a pop removes it (`PopView`), an assignment puts into the innermost binding or the shared value what it
puts into the cell (`PutCell`), a switch changes nothing that is seen (`SwitchDeep`). Assumptions used: the
default is no buffer, the home buffer is one, main is no worker, and nil, void and none are three marks that are no values.

**Quit requests.** `CountsAgree` is about lengths, `OneEffect` about which press is where. What joins
them is that presses are handled in order: the queue, the press in hand and the one not
yet sent are consecutive numbers (`Consecutive`), the presses whose request has been delivered
are a prefix of all (`Prefix`), and those settled are exactly those before the queue (`Settled`). Then
`consumed > 0` says that the key in hand lies inside the delivered prefix. `Locals` fixes the
logic thread's locals at each `pc`. The invariant is the conjunction of these, and `IInv => OneEffect`.
`FlagMeansOwed` adds `Owing`: presses taken in the middle of `take_for_eval` are owed already.

**Non-local exits.** Two invariants, the second on top of the first.

`SInv` is about scope. Nothing in the state says what the two handler lists were when a frame further down was the top,
but every pop relies on it: condition-case takes one entry off, handler-bind cuts, an observer's end puts back what it hid. So
`Lists` says that there *are* lists `C` and `B` and a count of observers `O` for each height of the stack, that frame `n`
turns those of height `n - 1` into those of `n` (`LevelStep`), and that the last are the variables. Of each
height it says that the cases are those in scope, in order (`CasesInScope`), that each binding lies after the cases up
to its depth and before the others (`BindsInScope`), and how high the stack is (`Counted`: at most `Depth` frames besides
observers, and an observer hides at least its own binding). Beside this, an exit's index and its frame mean the same
condition-case (`ExitScoped`), for the exit under way and those that cleanups keep, and no case between an offer's place and the
end of the list names the condition (`OfferScoped`). A push extends the three functions by one place, a pop forgets one
(`PushLists`, `PopLists`), so that each action needs only one level. `SelectedIsTarget` is the heart of `HandlersScoped`: the
index `offer_signal` finds is that of the frame found by dynamic scope.

`RInv` is about the register. `FramesKept`: an eval keeps a value of it only directly above a cleanup
that an exit waits for (`Waits`), and what a frame keeps is later than the unwindings of all cleanups further out
(`Younger`); `Places` says the same of quit-flag and of the register, which Lisp can see set only while such a cleanup is the innermost
form; `Balanced` counts the places, frame by frame, against the C-g heard; `Owing` says that there is one, except while the exit of a nested
cleanup passes the cleanup that carried it. That exception and `Younger` of *every* saved value are what
`QuitKept` and `CleanupUndisturbed` lack to be inductive.

**Frames.** Drawing and warping depend on the order of snapshots, questions and answers. The invariant
follows one call of set-mouse-position: while it is under way its frame is alive (`Prepared`); its question is the last
request in the channel (`QuestionLast`); a snapshot it published holds the frame, also when `send_grid` publishes it again
(`Cached`); the frame is in the mailbox, open or refused (`Shown`); once answered, no notification is on its way
(`Steady`), so nothing can close the window before the warp. `DrawsOnlyTheNewest` maps every step to one of the
mailbox; only that it is drawn at all stays with TLC.

**Subprocesses.** The invariant is `IInv == TypeOK /\ ProcOK /\ StackOK`. `ProcOK` is about one process: a deleted one is
reported, a reported one has ended, an ended one has nothing left in its pipes (`Drained`); only `:stderr t` fills the second
channel, with whole units; and the queue of unsent input is `1 .. asked`, so that the unit written next is the oldest. `StackOK` is about
the activations, of which only the innermost knows something that it has just seen. An activation with another on top of it holds no output and
rests between turns (`Below`); whatever ran on top, an exit it saw is still final and its decoder still empty
(`EndsLast`: no step undoes the end of a process or fills the decoder of one that has ended). The innermost poll is described stage by stage (`PollOK`): its process is not
reported, what it read is there to be delivered, and an exit seen before two empty reads means that the pipes are empty, *now*, because
a program that has ended writes no more. That is why `try_wait` has to come first. Every action is a change of the innermost
activation, a call, a return or a cut, and for these there is one lemma each (`BecomeOK`, `CallOK`, `CutOK`), beside one for what the
action does to its process. That a unit always finds an id of its own is the pigeonhole principle on the units
that wait. Used of the constants: finitely many processes, at least one turn.

For `ImplementsDelivery` the callbacks that run are a recursive function over the stack (`CallsOf`). That this function exists and
is unique (`CallingExists`, `CallingUnique`) follows from the least index at which it would not be; so a change of the innermost
activation keeps the callbacks, a call of a filter or sentinel adds one (`PushCalls`), and a cut leaves a prefix (`CutCalls`). What
waits is a `Line`: the decoder, the unit a poll has read, the pipe. A read moves a unit from the pipe to the poll and a torn
character from the poll to the decoder, and the line stays as it is; `Emptied` takes the first two parts away, which a filter gets or,
muted, loses (`HandsOver`, `Loses`); `Shut` takes the last part away, which happens to a process that is muted, deleted, or has nothing
left there (`ActMaps`, `DeleteMaps`). The sentinel after an exit finds the line empty because of `StackOK` (`NothingWaits`). Every
other step is unseen (`Calm`, `Moves`).

**Gap buffer.** The invariant is `IInv == Sound(gap) /\ Caches(gap)`: the gap lies in the vector, the count of bytes is
that of the text and at most the vector's length, a copy is the text, and newlines with the current
count of changes are the text's. The lemmas follow the methods from the inside out:
`move_gap` and `ensure_gap` keep the text, a write into the gap is an insertion, and so on up
to one lemma per action, which shows at once that the invariant is kept and that the
plain text takes the same step. Bytes would be a sum over the text, and sums need
induction; they are counted here as the cardinality of a set of cells (`Cells`), so that the theorems on
finite sets suffice. Used of the constants: characters are below 2^22, lengths are natural
numbers.

**Shared text.** `SharedInv` adds that the pending tree `Follows` the text. Each report has a lemma that splits on where the
change lies relative to the region; the buffer's own steps are those of `Next`, so that
everything proved of the gap buffer carries over (`AlwaysShared`).

**Buffers and undo.** `UndoRestores` says what an undo has done; that it can is a fact about the lists. The invariant
is that the undo list of the current buffer, and what is pending of it, `Leads` from the text to the one that the buffer began
with: there are texts, one between each two records, such that taking back a record makes the next from the one before
(`Replay`), and at a boundary the text is the one that the boundary remembers. `Typed` gives the shape of buffers and records and
puts every place in the text. Then:

- An edit puts a record in front that takes it back (`Recorded`). The lemmas are about pieces of sequences: cutting out what was put
  in, putting back what was cut out (`Cut`, `Put`), and the two changes by which a transposition is recorded (`Exchanged`). A
  merged insertion changes the head of the list instead and takes two edits back at once (`MergedFacts`). A replacement is
  recorded as an insertion *behind* the region and a deletion, so that its list leads through a text that never was (`PutOfSwapped`).
- Undo walks along the texts. `Underway` says how far it has come: the buffer holds the text before the next
  record, or a record was out of sight and the buffer is narrowed; and whatever the buffer's list
  leads to, it still does, because undoing is made of edits that put their own records in front (`AppliedFacts`, `ApplyNextFacts`). At the
  end of the group the text is the boundary's, which is `goal.text`. Taking position records out of what undo has recorded (the
  first, and those equal to it) changes no text (`WithoutPointFacts`).
- A buffer that is selected takes over the list, and the text is the same one, so the list still leads from it. This is why the
  invariant needs nothing of the lists of the buffers that are not current.

Both loops, over the records of a group and over those undo has made, are recursive functions on an interval; each is followed to
its end (`ApplyGroupFacts`, `WithoutPointFacts`) with `UpTo`, which rests on the least index at which a claim would fail. Nothing is
claimed of where undo puts markers but that they are somewhere: that they are put one place too far is what `undo_markers` shows.

`PlacesKept` is about where characters are. For each kind of edit the places follow one rule (`Shifted`, `Pulled`, `Resettled`), and the
characters another; `PutAlong`, `CutAlong` and `SwappedAlong` show that the two agree for every character that is in both
texts, in which each occurs once. The point that is seen is the stored one clamped to the narrowing, and
clamping keeps the agreement (`AlongClamped`). Insertion at point does not follow the rule: its point may be outside the narrowing
before (`Carried`). `EditsStayVisible` needs the exceptions at the ends of the narrowing that the text is inserted through. That a new character is not in the text
yet rests on there always being one (`FreshFacts`): the characters in use are finitely many, as there are finitely many buffers and
records.

Used of the constants: finitely many indirect buffers and markers, narrowings with their ends in order, the base buffer is not
indirect, and None is not mistaken for what an undo is held to. The bounds on edits, moves and length are guards; the proofs use none of them.
That TLC could look at the invariant, the texts of `Leads` were computed by a fold.

**Out of the prover's reach, and checked by TLC only:** all liveness (`EligibleRuns`, `JoinReturns`,
`SignalsArrive`, `EveryPressHeard`, `EveryQuestionAnswered`, `ExitReported`, `SendProgresses`, the liveness half of
`NewestIsDrawn`), since it rests on fairness and ENABLED. What is computed by a recursion over data is within reach only in part: the library's
induction theorems take an operator as a parameter; where the induction is over numbers and
the statement names its set, it can be had from the least counterexample (`LeastNat`, `LeastNatural`, `LeastIndex`). No
module here has a RECURSIVE operator. Every safety property of every passing run is proved, but for the part of
`ExitReported` that says which step may lose the end of a pipe process.

## Plan

Done: scheduler, bindings across threads, quit requests, non-local exits, frames and windows,
subprocesses, gap buffer, parsers' text, buffers with undo; proofs of every safety property that a passing run
checks. Left, in order:

1. `BufferEdits` with change hooks, which may edit between the place being taken and the text being put in.
2. `Subprocess` with the default filter and its mark, and with timers.
3. The events of the GUI's channel (`gui/logic.rs:1547-2136`) on their way to the command loop, and the handler
   stack of bytecode (`lisp/bytecode.rs:395`).

## Not modelled

Evaluator, bytecode, reader, printer, regexps and redisplay: sequential computations over
unbounded data, compared with GNU Emacs by the repository's own tests. The loader, dump and
wrappers of external libraries other than the tree-sitter copy: I/O. Menu command tokens: `Weak::upgrade` decides
atomically, and the weak pointer in the registry keeps an address from being used again, so
what could go wrong is confined to two lines. Startup and shutdown: a loop over a queue and a
first-wins flag, well covered by tests. GPUI under `vendor/`: third party. Window trees and
keymaps: large, sequential, and only their frame selection meets the concurrency above.
