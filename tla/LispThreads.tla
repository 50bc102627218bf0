---------------------------- MODULE LispThreads ----------------------------
(***************************************************************************)
(* Cooperative Lisp threads (crates/runtime/src/lisp/threads.rs) and the   *)
(* thread, mutex and condition-variable primitives over them               *)
(* (crates/runtime/src/lisp/builtins/misc/threads.rs).                     *)
(*                                                                         *)
(* Every Lisp thread runs on the one OS thread of the interpreter.  A      *)
(* worker is a coroutine that runs until it suspends; only the main thread *)
(* schedules, by resuming the first eligible task of the scheduler's       *)
(* vector.  One action here is what one thread does between two points at  *)
(* which another thread could observe it.                                  *)
(*                                                                         *)
(* The Lisp programs themselves are arbitrary: a thread running Lisp may   *)
(* call any primitive whose arguments exist.                               *)
(***************************************************************************)
EXTENDS Naturals, Sequences, FiniteSets, SequencesExt

CONSTANTS
    Main,       \* i.threads[0], the thread without a yielder
    Workers,    \* the threads make-thread may create
    Mutexes,
    CondVars,
    MutexOf,    \* the mutex each condition variable was made with
    Signals,    \* the non-nil error symbols thread-signal may send
    NilSignal,  \* thread-signal called with a nil error symbol
    None,       \* Rust's Option::None, and Ok in a flow
    MaxOps,     \* bound: primitives all programs call (yields are free)
    MaxDepth,   \* bound: recursive mutex-lock levels
    MaxEvents,  \* bound: length of Scheduler::main_events
    CanExit     \* whether a worker may call kill-emacs

Threads == Workers \cup {Main}
Flows   == Signals \cup {"error", "exit"}

ASSUME ThreadAssumption == Main \notin Workers /\ IsFiniteSet(Workers)
ASSUME ObjectAssumption == MutexOf \in [CondVars -> Mutexes]
ASSUME NoneAssumption   == None \notin Threads \cup Mutexes \cup CondVars
                                          \cup Flows \cup {NilSignal}
ASSUME SignalAssumption == /\ NilSignal \notin Signals
                           /\ Signals \cap {"error", "exit"} = {}
ASSUME BoundAssumption  == /\ MaxOps \in Nat /\ MaxDepth \in Nat
                           /\ MaxEvents \in Nat
                           /\ CanExit \in BOOLEAN

VARIABLES
    current,       \* the thread whose coroutine holds the runtime
    tasks,         \* Scheduler::tasks, suspended workers in order
    mainEvents,    \* Scheduler::main_events
    parked,        \* threads inside suspend(), or main inside its wait loop
    pump,          \* main has called run_one and owes thread_wait_events
    pc,            \* what a thread does when it next runs
    obj,           \* the thread, mutex or condition variable it does it to
    flow,          \* the Err(Flow) travelling up its stack, or None
    owed,          \* error to raise once the primitive is complete
    saved,         \* mutex count a condition primitive will restore
    pendingSignal, \* Thread::pending_signal
    blocker,       \* Thread::blocker
    asleep,        \* sleeping workers whose deadline has not passed
    owner, count,  \* Mutex::owner, Mutex::count
    waiters,       \* CondVar::waiters, one cell per waiting thread
    notified,      \* threads whose waiter cell is true
    depth,         \* history: mutex-lock calls less mutex-unlock calls
    lost,          \* history: levels put aside and never taken back
    ops            \* primitives called so far, by all threads

sched   == <<current, tasks, parked, pump>>
frame   == <<pc, obj, flow, owed, saved>>
monitor == <<owner, count, waiters, notified, depth, lost>>
vars    == <<sched, frame, monitor, mainEvents, pendingSignal, blocker,
             asleep, ops>>

-----------------------------------------------------------------------------
(* Where a thread can be in its program.                                   *)

OneTurn   == {"yield", "notify"}     \* main: a single yield_now
Relocking == {"rewait", "renotify"}  \* f_mutex_lock at the end of a primitive
Apart     == {"cwait", "notify"} \cup Relocking  \* without its mutex
Polling   == {"join", "lock", "cwait"} \cup Relocking   \* wait() with a blocker
PCs       == {"unborn", "start", "run", "raise", "loop", "sleep", "finished",
             "exited"} \cup OneTurn \cup Polling

Live(t)  == pc[t] \notin {"unborn", "finished", "exited"}

\* Wait::ready for what t is waiting for.
Ready(t) == CASE pc[t] = "join"   -> pc[obj[t]] = "finished"
              [] pc[t] = "lock"   -> owner[obj[t]] = None
              [] pc[t] \in Relocking -> owner[MutexOf[obj[t]]] = None
              [] pc[t] = "cwait"  -> t \in notified
              [] pc[t] = "sleep"  -> t \notin asleep
              [] OTHER            -> TRUE

Signaled(t) == pendingSignal[t] \in Signals

\* Mutants of Eligible: the nil check of signaled is missing; signals wake nobody.
EligibleOnNil(t)      == Ready(t) \/ pendingSignal[t] # None
EligibleUnsignaled(t) == Ready(t)

Eligible(t) == Ready(t) \/ Signaled(t)

\* Mutant of FirstEligible: the vector is searched from its end.
LastEligible(i) == /\ i \in DOMAIN tasks
                   /\ Eligible(tasks[i])
                   /\ \A j \in (i + 1) .. Len(tasks) : ~Eligible(tasks[j])

\* run_one resumes the first eligible task of the vector.
FirstEligible(i) == /\ i \in DOMAIN tasks
                    /\ Eligible(tasks[i])
                    /\ \A j \in 1 .. (i - 1) : ~Eligible(tasks[j])

\* t executes Lisp code (it, and no one else).
InLisp(t)   == current = t /\ t \notin parked /\ pc[t] = "run"
\* t executes the rest of the primitive it was suspended in.
Resumed(t, p) == current = t /\ t \notin parked /\ pc[t] = p

Spend == ops < MaxOps /\ ops' = ops + 1

Free(t, m) == owner[m] \in {None, t}

\* Mutant of Suspend: main is queued like a worker.
SuspendMainToo(t) == /\ parked' = parked \cup {t}
                     /\ tasks' = Append(tasks, t)
                     /\ current' = Main
                     /\ UNCHANGED pump

\* suspend() of a worker hands the runtime back to main, which pushes the
\* task at the end of the vector; main itself just enters its wait loop.
Suspend(t) == /\ parked' = parked \cup {t}
              /\ tasks' = IF t = Main THEN tasks ELSE Append(tasks, t)
              /\ current' = Main
              /\ UNCHANGED pump

-----------------------------------------------------------------------------
Init == /\ current = Main
        /\ tasks = << >>
        /\ mainEvents = << >>
        /\ parked = {}
        /\ pump = FALSE
        /\ pc = [t \in Threads |-> IF t = Main THEN "run" ELSE "unborn"]
        /\ obj = [t \in Threads |-> None]
        /\ flow = [t \in Threads |-> None]
        /\ owed = [t \in Threads |-> None]
        /\ saved = [t \in Threads |-> 0]
        /\ pendingSignal = [t \in Threads |-> None]
        /\ blocker = [t \in Threads |-> None]
        /\ asleep = {}
        /\ owner = [m \in Mutexes |-> None]
        /\ count = [m \in Mutexes |-> 0]
        /\ waiters = [c \in CondVars |-> << >>]
        /\ notified = {}
        /\ depth = [t \in Threads |-> [m \in Mutexes |-> 0]]
        /\ lost = [t \in Threads |-> [m \in Mutexes |-> 0]]
        /\ ops = 0

-----------------------------------------------------------------------------
(* Building blocks of the primitives.                                      *)

\* A primitive of t ends, normally (f = None) or by raising f.
Return(t, f) == /\ pc' = [pc EXCEPT ![t] = IF f = None THEN "run" ELSE "raise"]
                /\ flow' = [flow EXCEPT ![t] = f]
                /\ obj' = [obj EXCEPT ![t] = None]
                /\ owed' = [owed EXCEPT ![t] = None]
                /\ saved' = [saved EXCEPT ![t] = 0]

\* wait(): t suspends in primitive p and reports b as its blocker.
Block(t, p, b) == /\ pc' = [pc EXCEPT ![t] = p]
                  /\ blocker' = [blocker EXCEPT ![t] = b]
                  /\ Suspend(t)

\* The end of wait(): check_signal takes the pending signal and raises it.
Wake(t) == /\ flow' = [flow EXCEPT ![t] = IF Signaled(t) THEN pendingSignal[t]
                                                        ELSE None]
           /\ pendingSignal' = [pendingSignal EXCEPT ![t] = None]
           /\ blocker' = [blocker EXCEPT ![t] = None]

Acquire(t, m) == /\ owner' = [owner EXCEPT ![m] = t]
                 /\ count' = [count EXCEPT ![m] = @ + 1]
                 /\ depth' = [depth EXCEPT ![t][m] = @ + 1]

\* One round of the loop in f_mutex_lock.
LockLoop(t, m) ==
    \/ /\ Free(t, m)
       /\ Acquire(t, m)
       /\ Return(t, None)
       /\ UNCHANGED <<sched, blocker>>
    \/ /\ ~Free(t, m)
       /\ Block(t, "lock", m)
       /\ obj' = [obj EXCEPT ![t] = m]
       /\ UNCHANGED <<flow, owed, saved, owner, count, depth>>

\* condition-wait and condition-notify give up every level of the mutex.
ReleaseAll(t, c) == /\ saved' = [saved EXCEPT ![t] = count[MutexOf[c]]]
                    /\ owner' = [owner EXCEPT ![MutexOf[c]] = None]
                    /\ count' = [count EXCEPT ![MutexOf[c]] = 0]

\* Mutant of TryRelock: the mutex is taken without a look at its owner.
TryRelockSteals(t, c, p, f) ==
    /\ owner' = [owner EXCEPT ![MutexOf[c]] = t]
    /\ count' = [count EXCEPT ![MutexOf[c]] = saved[t]]
    /\ Return(t, f)
    /\ UNCHANGED <<sched, blocker>>

\* ... and take them back (waiting for that as p), to raise f only then.
TryRelock(t, c, p, f) ==
    \/ /\ Free(t, MutexOf[c])
       /\ owner' = [owner EXCEPT ![MutexOf[c]] = t]
       /\ count' = [count EXCEPT ![MutexOf[c]] = saved[t]]
       /\ Return(t, f)
       /\ UNCHANGED <<sched, blocker>>
    \/ /\ ~Free(t, MutexOf[c])
       /\ Block(t, p, MutexOf[c])
       /\ flow' = [flow EXCEPT ![t] = None]
       /\ owed' = [owed EXCEPT ![t] = f]
       /\ UNCHANGED <<obj, saved, owner, count>>

\* The coroutine of worker t returns its last packet.
Die(t) == /\ pc' = [pc EXCEPT ![t] = "finished"]
          /\ current' = Main
          /\ UNCHANGED <<tasks, obj, owed, saved, pendingSignal, asleep>>

-----------------------------------------------------------------------------
(* Primitives a Lisp program calls.                                        *)

MakeThread(t, u) ==
    /\ InLisp(t) /\ Spend
    /\ pc[u] = "unborn"
    /\ pc' = [pc EXCEPT ![u] = "start"]
    /\ parked' = parked \cup {u}
    /\ tasks' = Append(tasks, u)
    /\ UNCHANGED <<current, pump, obj, flow, owed, saved, monitor, mainEvents,
                   pendingSignal, blocker, asleep>>

ThreadYield(t) ==
    /\ InLisp(t)
    /\ pc' = [pc EXCEPT ![t] = "yield"]
    /\ Suspend(t)
    /\ UNCHANGED <<obj, flow, owed, saved, monitor, mainEvents, pendingSignal,
                   blocker, asleep, ops>>

\* The command loop: one yield_now, then thread_wait_events.
CommandLoop ==
    /\ InLisp(Main)
    /\ pc' = [pc EXCEPT ![Main] = "loop"]
    /\ Suspend(Main)
    /\ UNCHANGED <<obj, flow, owed, saved, monitor, mainEvents, pendingSignal,
                   blocker, asleep, ops>>

SleepWorker(t) ==
    /\ t # Main /\ InLisp(t)
    /\ pc' = [pc EXCEPT ![t] = "sleep"]
    /\ asleep' = asleep \cup {t}
    /\ Suspend(t)
    /\ UNCHANGED <<obj, flow, owed, saved, monitor, mainEvents, pendingSignal,
                   blocker, ops>>

\* The target's pending signal is captured before the wait.
ThreadJoin(t, u) ==
    /\ InLisp(t) /\ Spend
    /\ u # t /\ pc[u] # "unborn"
    /\ LET captured == IF Signaled(u) THEN pendingSignal[u] ELSE None IN
       \/ /\ pc[u] = "finished"
          /\ Return(t, captured)
          /\ UNCHANGED <<sched, blocker>>
       \/ /\ pc[u] # "finished"
          /\ Block(t, "join", u)
          /\ obj' = [obj EXCEPT ![t] = u]
          /\ owed' = [owed EXCEPT ![t] = captured]
          /\ UNCHANGED <<flow, saved>>
    /\ UNCHANGED <<monitor, mainEvents, pendingSignal, asleep>>

MutexLock(t, m) ==
    /\ InLisp(t) /\ Spend
    /\ owner[m] = t => count[m] < MaxDepth
    /\ LockLoop(t, m)
    /\ UNCHANGED <<waiters, notified, lost, mainEvents, pendingSignal, asleep>>

\* Mutant of MutexUnlock: the owner goes with the first level.
MutexUnlockFully(t, m) ==
    /\ InLisp(t) /\ Spend
    /\ owner[m] = t
    /\ count' = [count EXCEPT ![m] = @ - 1]
    /\ owner' = [owner EXCEPT ![m] = None]
    /\ depth' = [depth EXCEPT ![t][m] = @ - 1]
    /\ UNCHANGED <<sched, frame, waiters, notified, lost, mainEvents,
                   pendingSignal, blocker, asleep>>

MutexUnlock(t, m) ==
    /\ InLisp(t) /\ Spend
    /\ owner[m] = t
    /\ count' = [count EXCEPT ![m] = @ - 1]
    /\ owner' = [owner EXCEPT ![m] = IF count[m] = 1 THEN None ELSE @]
    /\ depth' = [depth EXCEPT ![t][m] = @ - 1]
    /\ UNCHANGED <<sched, frame, waiters, notified, lost, mainEvents,
                   pendingSignal, blocker, asleep>>

ConditionWait(t, c) ==
    /\ InLisp(t) /\ Spend
    /\ owner[MutexOf[c]] = t
    /\ ReleaseAll(t, c)
    /\ waiters' = [waiters EXCEPT ![c] = Append(@, t)]
    /\ Block(t, "cwait", c)
    /\ obj' = [obj EXCEPT ![t] = c]
    /\ UNCHANGED <<flow, owed, notified, depth, lost, mainEvents,
                   pendingSignal, asleep>>

\* The cells a notification of c sets: all of them, or the oldest unset one.
Cells(c, all) ==
    {waiters[c][i] : i \in {j \in DOMAIN waiters[c] :
        /\ waiters[c][j] \notin notified
        /\ all \/ \A k \in 1 .. (j - 1) : waiters[c][k] \in notified}}

ConditionNotify(t, c, all) ==
    /\ InLisp(t) /\ Spend
    /\ owner[MutexOf[c]] = t
    /\ notified' = notified \cup Cells(c, all)
    /\ ReleaseAll(t, c)
    /\ pc' = [pc EXCEPT ![t] = "notify"]
    /\ obj' = [obj EXCEPT ![t] = c]
    /\ Suspend(t)
    /\ UNCHANGED <<flow, owed, waiters, depth, lost, mainEvents,
                   pendingSignal, blocker, asleep>>

\* To itself a signal is synchronous, to main an event, to others a slot.
ThreadSignal(t, u, s) ==
    /\ InLisp(t) /\ Spend
    /\ pc[u] # "unborn"
    /\ \/ /\ u = t
          /\ Return(t, IF s = NilSignal THEN "error" ELSE s)
          /\ UNCHANGED <<mainEvents, pendingSignal>>
       \/ /\ u # t /\ u = Main
          /\ Len(mainEvents) < MaxEvents
          /\ mainEvents' = Append(mainEvents, <<t, s>>)
          /\ UNCHANGED <<frame, pendingSignal>>
       \/ /\ u # t /\ u # Main
          /\ pendingSignal' = [pendingSignal EXCEPT ![u] = s]
          /\ UNCHANGED <<frame, mainEvents>>
    /\ UNCHANGED <<sched, monitor, blocker, asleep>>

\* Any other error: signal, a refused primitive, a failed stack allocation.
LispError(t) ==
    /\ InLisp(t) /\ Spend
    /\ Return(t, "error")
    /\ UNCHANGED <<sched, monitor, mainEvents, pendingSignal, blocker, asleep>>

\* condition-case, or for main the command loop.
Catch(t) ==
    /\ Resumed(t, "raise") /\ flow[t] # "exit"
    /\ Return(t, None)
    /\ UNCHANGED <<sched, monitor, mainEvents, pendingSignal, blocker, asleep,
                   ops>>

-----------------------------------------------------------------------------
(* The end of a worker, by its value, an error nobody caught or            *)
(* kill-emacs.  Mutexes it owns stay owned.                                *)

Finish(t) ==
    /\ t # Main
    /\ InLisp(t) \/ Resumed(t, "raise")
    /\ Die(t)
    /\ flow' = [flow EXCEPT ![t] = None]
    /\ UNCHANGED <<parked, pump, monitor, mainEvents, blocker, ops>>

\* Mutant of ExitPacket: the error leaves wait() before it resets the blocker.
ExitPacketKeepsBlocker(t) ==
    /\ CanExit
    /\ t # Main /\ InLisp(t)
    /\ Die(t)
    /\ flow' = [flow EXCEPT ![Main] = "exit"]
    /\ parked' = parked \ {Main}
    /\ pump' = FALSE
    /\ UNCHANGED <<blocker, monitor, mainEvents, ops>>

\* run_one returns Err(Flow::Exit) to whatever main was waiting for.
ExitPacket(t) ==
    /\ CanExit
    /\ t # Main /\ InLisp(t)
    /\ Die(t)
    /\ flow' = [flow EXCEPT ![Main] = "exit"]
    /\ parked' = parked \ {Main}
    /\ pump' = FALSE
    /\ blocker' = [blocker EXCEPT ![Main] = None]
    /\ UNCHANGED <<monitor, mainEvents, ops>>

MainExit ==
    /\ Resumed(Main, "raise") /\ flow[Main] = "exit"
    /\ pc' = [pc EXCEPT ![Main] = "exited"]
    /\ UNCHANGED <<sched, obj, flow, owed, saved, monitor, mainEvents,
                   pendingSignal, blocker, asleep, ops>>

-----------------------------------------------------------------------------
(* The rest of a primitive, when its thread runs again.                    *)

\* The body of a worker first checks for a signal, which nothing catches.
Started(t) ==
    /\ Resumed(t, "start")
    /\ \/ /\ flow[t] = None
          /\ Return(t, None)
          /\ UNCHANGED <<sched, pendingSignal, asleep>>
       \/ /\ flow[t] # None
          /\ Die(t)
          /\ flow' = [flow EXCEPT ![t] = None]
          /\ UNCHANGED <<parked, pump>>
    /\ UNCHANGED <<monitor, mainEvents, blocker, ops>>

TurnOver(t) ==
    /\ \E p \in {"yield", "loop", "sleep"} : Resumed(t, p)
    /\ Return(t, flow[t])
    /\ UNCHANGED <<sched, monitor, mainEvents, pendingSignal, blocker, asleep,
                   ops>>

JoinOver(t) ==
    /\ Resumed(t, "join")
    /\ Return(t, IF flow[t] = None THEN owed[t] ELSE flow[t])
    /\ UNCHANGED <<sched, monitor, mainEvents, pendingSignal, blocker, asleep,
                   ops>>

\* An error leaves the loop of mutex-lock; otherwise it goes round again.
LockRetry(t) ==
    /\ Resumed(t, "lock")
    /\ \/ /\ flow[t] # None
          /\ Return(t, flow[t])
          /\ UNCHANGED <<sched, owner, count, depth, blocker>>
       \/ /\ flow[t] = None
          /\ LockLoop(t, obj[t])
    /\ UNCHANGED <<waiters, notified, lost, mainEvents, pendingSignal, asleep,
                   ops>>

\* Mutant of ConditionWoken: `?` on the wait leaves the waiter in the list.
ConditionWokenLeaks(t) ==
    /\ Resumed(t, "cwait")
    /\ \E i \in DOMAIN waiters[obj[t]] :
          /\ waiters[obj[t]][i] = t
          /\ waiters' = IF flow[t] # None THEN waiters
                        ELSE [waiters EXCEPT ![obj[t]] = RemoveAt(@, i)]
    /\ notified' = notified \ {t}
    /\ TryRelock(t, obj[t], "rewait", flow[t])
    /\ UNCHANGED <<depth, lost, mainEvents, pendingSignal, asleep, ops>>

\* A condition wait is over, by a notification or by an error.
ConditionWoken(t) ==
    /\ Resumed(t, "cwait")
    /\ \E i \in DOMAIN waiters[obj[t]] :
          /\ waiters[obj[t]][i] = t
          /\ waiters' = [waiters EXCEPT ![obj[t]] = RemoveAt(@, i)]
    /\ notified' = notified \ {t}
    /\ TryRelock(t, obj[t], "rewait", flow[t])
    /\ UNCHANGED <<depth, lost, mainEvents, pendingSignal, asleep, ops>>

\* Mutant of NotifyTurnOver: `?` on yield_now skips the reacquisition.
NotifyTurnOverBails(t) ==
    /\ Resumed(t, "notify")
    /\ \/ /\ flow[t] # None
          /\ Return(t, flow[t])
          /\ UNCHANGED <<sched, owner, count, blocker>>
       \/ /\ flow[t] = None
          /\ TryRelock(t, obj[t], "renotify", None)
    /\ UNCHANGED <<waiters, notified, depth, lost, mainEvents, pendingSignal,
                   asleep, ops>>

NotifyTurnOver(t) ==
    /\ Resumed(t, "notify")
    /\ TryRelock(t, obj[t], "renotify", flow[t])
    /\ UNCHANGED <<waiters, notified, depth, lost, mainEvents, pendingSignal,
                   asleep, ops>>

\* Waiting to relock is over.  An error in flow returns at once, by the `?`
\* after f_mutex_lock: the mutex is not taken and the levels put aside are
\* dropped, although the program never unlocked them.
RelockRetry(t) ==
    /\ \E p \in Relocking : Resumed(t, p)
    /\ \/ /\ flow[t] # None
          /\ Return(t, flow[t])
          /\ lost' = [lost EXCEPT ![t][MutexOf[obj[t]]] = @ + saved[t]]
          /\ UNCHANGED <<sched, owner, count, blocker>>
       \/ /\ flow[t] = None
          /\ TryRelock(t, obj[t], pc[t], owed[t])
          /\ UNCHANGED lost
    /\ UNCHANGED <<waiters, notified, depth, mainEvents, pendingSignal, asleep,
                   ops>>

-----------------------------------------------------------------------------
(* Scheduling, by the main thread only.                                    *)

\* Mutant of Polls: the loop of a wait forgets its condition.
PollsAlways == current = Main /\ Main \in parked /\ ~pump

\* Main is about to call run_one: once, or because its wait is not over.
Polls == /\ current = Main /\ Main \in parked /\ ~pump
         /\ pc[Main] \in Polling => ~Eligible(Main)

\* Mutant of RunOne: the task is looked at, not taken out.
RunOnePeeks(i) ==
    /\ Polls
    /\ FirstEligible(i)
    /\ current' = tasks[i]
    /\ parked' = parked \ ({tasks[i]} \cup
                           IF pc[Main] \in OneTurn THEN {Main} ELSE {})
    /\ pump' = (pc[Main] \notin OneTurn)
    /\ asleep' = asleep \ {tasks[i]}
    /\ Wake(tasks[i])
    /\ UNCHANGED <<tasks, pc, obj, owed, saved, monitor, mainEvents, ops>>

RunOne(i) ==
    /\ Polls
    /\ FirstEligible(i)
    /\ current' = tasks[i]
    /\ tasks' = RemoveAt(tasks, i)
    /\ parked' = parked \ ({tasks[i]} \cup
                           IF pc[Main] \in OneTurn THEN {Main} ELSE {})
    /\ pump' = (pc[Main] \notin OneTurn)
    /\ asleep' = asleep \ {tasks[i]}
    /\ Wake(tasks[i])
    /\ UNCHANGED <<pc, obj, owed, saved, monitor, mainEvents, ops>>

\* run_one found nobody; a wait then sleeps 1 ms and polls again.
IdleTurn ==
    /\ Polls
    /\ ~\E i \in DOMAIN tasks : Eligible(tasks[i])
    /\ parked' = IF pc[Main] \in OneTurn THEN parked \ {Main} ELSE parked
    /\ pump' = (pc[Main] \notin OneTurn)
    /\ UNCHANGED <<current, tasks, frame, monitor, mainEvents, pendingSignal,
                   blocker, asleep, ops>>

\* thread_wait_events: drain_main_events takes the whole batch, so an error
\* in the handler of one event drops the ones behind it.  Timers, process
\* output and file notifications are handled after it and may fail as well.
PumpEvents ==
    /\ current = Main /\ pump
    /\ pump' = FALSE
    /\ mainEvents' = << >>
    /\ \/ /\ parked' = IF pc[Main] = "loop" THEN parked \ {Main} ELSE parked
          /\ UNCHANGED <<flow, blocker, ops>>
       \/ /\ Spend
          /\ parked' = parked \ {Main}
          /\ flow' = [flow EXCEPT ![Main] = "error"]
          /\ blocker' = [blocker EXCEPT ![Main] = None]
    /\ UNCHANGED <<current, tasks, pc, obj, owed, saved, monitor,
                   pendingSignal, asleep>>

\* What main waits for has come: its wait loop ends.
WakeMain ==
    /\ current = Main /\ Main \in parked /\ ~pump
    /\ pc[Main] \in Polling /\ Eligible(Main)
    /\ parked' = parked \ {Main}
    /\ Wake(Main)
    /\ UNCHANGED <<current, tasks, pump, pc, obj, owed, saved, monitor,
                   mainEvents, asleep, ops>>

\* Time: the deadline of a sleeping worker passes.
DeadlinePasses(t) ==
    /\ t \in asleep
    /\ asleep' = asleep \ {t}
    /\ UNCHANGED <<sched, frame, monitor, mainEvents, pendingSignal, blocker,
                   ops>>

-----------------------------------------------------------------------------
LispCall(t) ==
    \/ \E u \in Workers : MakeThread(t, u)
    \/ ThreadYield(t) \/ SleepWorker(t)
    \/ \E u \in Threads : ThreadJoin(t, u)
    \/ \E m \in Mutexes : MutexLock(t, m) \/ MutexUnlock(t, m)
    \/ \E c \in CondVars : \/ ConditionWait(t, c)
                           \/ \E all \in BOOLEAN : ConditionNotify(t, c, all)
    \/ \E u \in Threads, s \in Signals \cup {NilSignal} : ThreadSignal(t, u, s)
    \/ LispError(t) \/ Catch(t)
    \/ Finish(t) \/ ExitPacket(t)

Resumption(t) ==
    \/ Started(t) \/ TurnOver(t) \/ JoinOver(t) \/ LockRetry(t)
    \/ ConditionWoken(t) \/ NotifyTurnOver(t) \/ RelockRetry(t)

Scheduling ==
    \/ \E i \in 1 .. Cardinality(Workers) : RunOne(i)
    \/ IdleTurn \/ PumpEvents \/ WakeMain
    \/ CommandLoop \/ MainExit

Running == Scheduling \/ \E t \in Threads : LispCall(t) \/ Resumption(t)

Next == Running \/ \E t \in Workers : DeadlinePasses(t)

Spec == Init /\ [][Next]_vars

(* The interpreter's OS thread keeps running, every program calls its next *)
(* primitive or ends (MaxOps bounds all calls but yields), every command   *)
(* main runs returns to the command loop, and time passes.                 *)
Fairness == /\ WF_vars(Running)
            /\ SF_vars(CommandLoop)
            /\ \A t \in Workers : WF_vars(DeadlinePasses(t))

FairSpec == Spec /\ Fairness

-----------------------------------------------------------------------------
(* Properties.                                                             *)

\* Every variable keeps its type.
TypeOK ==
    /\ current \in Threads
    /\ tasks \in Seq(Workers)
    /\ mainEvents \in Seq(Threads \X (Signals \cup {NilSignal}))
    /\ parked \subseteq Threads
    /\ pump \in BOOLEAN
    /\ pc \in [Threads -> PCs]
    /\ obj \in [Threads -> Threads \cup Mutexes \cup CondVars \cup {None}]
    /\ flow \in [Threads -> Flows \cup {None}]
    /\ owed \in [Threads -> Flows \cup {None}]
    /\ saved \in [Threads -> Nat]
    /\ pendingSignal \in [Threads -> Signals \cup {NilSignal, None}]
    /\ blocker \in [Threads -> Threads \cup Mutexes \cup CondVars \cup {None}]
    /\ asleep \subseteq Workers
    /\ owner \in [Mutexes -> Threads \cup {None}]
    /\ count \in [Mutexes -> Nat]
    /\ waiters \in [CondVars -> Seq(Threads)]
    /\ notified \subseteq Threads
    /\ depth \in [Threads -> [Mutexes -> Nat]]
    /\ lost \in [Threads -> [Mutexes -> Nat]]
    /\ ops \in Nat

\* t has given up m inside condition-wait or condition-notify.
Released(t, m) == /\ pc[t] \in Apart
                  /\ MutexOf[obj[t]] = m

\* The levels that m has for t, or that t will give back to m.
LevelsOf(t, m) == IF owner[m] = t THEN count[m]
                  ELSE IF Released(t, m) THEN saved[t] ELSE 0

\* The task vector loses nobody: every live worker is either the current
\* thread or queued, exactly once, and nobody else is queued (run_one takes a
\* task out, and tasks spawned meanwhile are appended, before it comes back).
NoTaskLost ==
    /\ \A t \in Workers :
          Live(t) <=> (t = current \/ \E i \in DOMAIN tasks : tasks[i] = t)
    /\ \A i, j \in DOMAIN tasks : tasks[i] = tasks[j] => i = j
    /\ \A i \in DOMAIN tasks : tasks[i] # current
    /\ parked \ {Main} = {tasks[i] : i \in DOMAIN tasks}

\* Every level of a recursive lock is accounted for, whatever is interleaved: a
\* mutex has an owner exactly as long as it has levels, and what a program
\* locked and did not unlock is in the mutex, or put aside for it by
\* condition-wait and condition-notify, or was lost in the one way there is.
\* That way is an error that ends the wait to relock (a second signal; for main
\* also a failing event handler or an exit): the thread unwinds without its
\* mutex, against the comment "A signaled waiter still reacquires its mutex
\* before unwinding."  Nothing else loses or invents a level: not a
\* notification, a nil signal, or an error during the wait itself.
LevelsKept ==
    \A m \in Mutexes :
        /\ owner[m] = None <=> count[m] = 0
        /\ \A t \in Threads :
              /\ Released(t, m) => owner[m] # t /\ saved[t] > 0
              /\ depth[t][m] = lost[t][m] + LevelsOf(t, m)

\* t is between lock and unlock of m, and not inside a condition primitive.
\* Levels that relocking has lost (see LevelsKept) exclude nobody any more,
\* although the program that took them may go on as if it held the mutex.
Holds(t, m) == depth[t][m] > lost[t][m] /\ ~Released(t, m)

\* Two threads never hold one mutex, whatever condition waits, signals and
\* scheduling happened before.
MutualExclusion ==
    \A m \in Mutexes, t, u \in Threads : Holds(t, m) /\ Holds(u, m) => t = u

\* The waiter list of a condition variable is exactly the threads inside its
\* wait, each once, however they leave it, and only their cells are set.
WaiterListExact ==
    /\ \A c \in CondVars :
          /\ {waiters[c][i] : i \in DOMAIN waiters[c]}
                = {t \in Threads : pc[t] = "cwait" /\ obj[t] = c}
          /\ \A i, j \in DOMAIN waiters[c] : waiters[c][i] = waiters[c][j] => i = j
    /\ \A t \in notified : pc[t] = "cwait"

\* thread-blocker names what a suspended thread waits for, and nothing for a
\* thread that runs or has ended, also after its wait was cut short.
BlockerTruth ==
    \A t \in Threads : pc[t] # "exited" =>
        blocker[t] = IF t \notin parked \/ pc[t] \notin Polling THEN None
                     ELSE IF pc[t] \in Relocking THEN MutexOf[obj[t]] ELSE obj[t]

\* A wait ends normally only for what it waited for: thread-join when its
\* target has ended, condition-wait when this thread's own cell was set, and
\* never for a pending nil signal or a signal somebody else gets; and
\* condition-wait and condition-notify return only with the mutex held at the
\* very recursion level it had before.
WaitsEndForCause ==
    [][\A t \in Threads :
            /\ (pc[t] = "join" /\ pc'[t] = "run") => pc[obj[t]] = "finished"
            /\ (pc[t] = "cwait" /\ pc'[t] # "cwait")
                 => t \in notified \/ flow'[t] # None \/ owed'[t] # None
            /\ (pc[t] \in Apart /\ pc'[t] = "run") =>
                 /\ owner'[MutexOf[obj[t]]] = t
                 /\ count'[MutexOf[obj[t]]] = saved[t]]_vars

Exited == pc[Main] = "exited"

\* A worker that can go on is resumed, unless a worker ends the editor: no
\* other worker starves it.
EligibleRuns ==
    \A t \in Workers :
        (t \in parked /\ Eligible(t)) ~> (t \notin parked \/ ~Eligible(t) \/ Exited)

\* Whoever joins a thread that has ended gets past the join.
JoinReturns ==
    \A t \in Threads : (pc[t] = "join" /\ Ready(t)) ~> (pc[t] # "join" \/ Exited)

\* A signal arrives: a live worker gets out of whatever it waits for, and an
\* event sent to main is taken from the queue, also while main waits.
SignalsArrive ==
    /\ \A t \in Workers :
          (Live(t) /\ Signaled(t)) ~> (~Signaled(t) \/ t \notin parked \/ Exited)
    /\ (mainEvents # << >>) ~> (mainEvents = << >> \/ Exited)

-----------------------------------------------------------------------------
(* The abstract monitor these primitives implement.                        *)

Stage == [t \in Threads |-> IF pc[t] = "cwait" THEN "waiting"
                            ELSE IF pc[t] \in Apart THEN "entering" ELSE "out"]
About == [t \in Threads |-> IF Stage[t] = "out" THEN None ELSE obj[t]]

Mon == INSTANCE Monitor WITH levels <- count, stage <- Stage, about <- About,
                             kept <- saved, woken <- notified

\* Mutexes and condition variables behave like the abstract monitor: whatever
\* is scheduled, each step of theirs is one of its steps or changes nothing.
MonitorSpec == Mon!Spec
=============================================================================
