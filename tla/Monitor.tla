------------------------------ MODULE Monitor ------------------------------
(***************************************************************************)
(* What recursive mutexes and their condition variables promise to Lisp    *)
(* programs, with nothing of how threads are scheduled: no task vector, no *)
(* main thread, no signals in flight.  LispThreads implements this.        *)
(***************************************************************************)
EXTENDS Naturals

CONSTANTS Threads, Mutexes, CondVars, MutexOf, None

VARIABLES
    owner, levels,  \* who holds a mutex, and how many times
    stage,          \* a thread is "out", "waiting", or "entering" again
    about,          \* the condition variable it waits for or enters again
    kept,           \* the levels it had
    woken           \* the waiting threads a notification has chosen

vars == <<owner, levels, stage, about, kept, woken>>

Init == /\ owner = [m \in Mutexes |-> None]
        /\ levels = [m \in Mutexes |-> 0]
        /\ stage = [t \in Threads |-> "out"]
        /\ about = [t \in Threads |-> None]
        /\ kept = [t \in Threads |-> 0]
        /\ woken = {}

Unwoken(c) == {t \in Threads \ woken : stage[t] = "waiting" /\ about[t] = c}

Enter(t, m) == /\ stage[t] = "out"
               /\ owner[m] \in {None, t}
               /\ owner' = [owner EXCEPT ![m] = t]
               /\ levels' = [levels EXCEPT ![m] = @ + 1]
               /\ UNCHANGED <<stage, about, kept, woken>>

Leave(t, m) == /\ stage[t] = "out"
               /\ owner[m] = t
               /\ owner' = [owner EXCEPT ![m] = IF levels[m] = 1 THEN None ELSE t]
               /\ levels' = [levels EXCEPT ![m] = @ - 1]
               /\ UNCHANGED <<stage, about, kept, woken>>

\* t lets go of every level of the mutex of c, to get them back later.
LetGo(t, c, s) == /\ stage[t] = "out"
                  /\ owner[MutexOf[c]] = t
                  /\ owner' = [owner EXCEPT ![MutexOf[c]] = None]
                  /\ levels' = [levels EXCEPT ![MutexOf[c]] = 0]
                  /\ kept' = [kept EXCEPT ![t] = levels[MutexOf[c]]]
                  /\ about' = [about EXCEPT ![t] = c]
                  /\ stage' = [stage EXCEPT ![t] = s]

Wait(t, c) == LetGo(t, c, "waiting") /\ UNCHANGED woken

NotifyOne(t, c) == /\ LetGo(t, c, "entering")
                   /\ IF Unwoken(c) = {} THEN UNCHANGED woken
                      ELSE \E u \in Unwoken(c) : woken' = woken \cup {u}

NotifyAll(t, c) == /\ LetGo(t, c, "entering")
                   /\ woken' = woken \cup Unwoken(c)

\* A notification, or an error of the waiting thread, ends a wait.
EndWait(t) == /\ stage[t] = "waiting"
              /\ stage' = [stage EXCEPT ![t] = "entering"]
              /\ woken' = woken \ {t}
              /\ UNCHANGED <<owner, levels, about, kept>>

Out(t) == /\ stage' = [stage EXCEPT ![t] = "out"]
          /\ about' = [about EXCEPT ![t] = None]
          /\ kept' = [kept EXCEPT ![t] = 0]
          /\ woken' = woken \ {t}

\* All the levels come back at once, and only to a free mutex.
Reenter(t) == /\ stage[t] # "out"
              /\ owner[MutexOf[about[t]]] = None
              /\ owner' = [owner EXCEPT ![MutexOf[about[t]]] = t]
              /\ levels' = [levels EXCEPT ![MutexOf[about[t]]] = kept[t]]
              /\ Out(t)

\* An error while it waits to enter again leaves a thread without the mutex.
GiveUp(t) == /\ stage[t] = "entering"
             /\ Out(t)
             /\ UNCHANGED <<owner, levels>>

Next == \E t \in Threads :
            \/ \E m \in Mutexes : Enter(t, m) \/ Leave(t, m)
            \/ \E c \in CondVars : Wait(t, c) \/ NotifyOne(t, c) \/ NotifyAll(t, c)
            \/ EndWait(t) \/ Reenter(t) \/ GiveUp(t)

Spec == Init /\ [][Next]_vars
=============================================================================
