------------------------- MODULE QuitRequestProofs -------------------------
(***************************************************************************)
(* CountsAgree, OneEffect and FlagMeansOwed for any number of presses.     *)
(*                                                                         *)
(* The counters are anonymous, so neither is inductive alone: the proof    *)
(* follows the numbers of the presses.  The events in the queue are        *)
(* consecutive, the presses already decided are those before them, and     *)
(* among the undecided ones the delivered presses come first (`Prefix').   *)
(***************************************************************************)
EXTENDS QuitRequest, Integers, TLAPS

\* The last press polled, and the last whose effect is settled.
Polled  == presses - Unsent - Len(queue)
Decided == Polled - InHand

\* The events in the queue, and the key in hand, are the presses after
\* those polled before them.
Consecutive ==
    /\ Decided \in Nat
    /\ \A i \in 1..Len(queue) : queue[i] = Polled + i
    /\ pc \in {"discard", "clear"} => key = Polled

\* take_for_eval leaves its local empty; a key is an input only if no
\* delivered request is outstanding.
Locals ==
    /\ pc # "add" => count = 0
    /\ pc = "clear" => consumed = 0

\* Of the presses not decided yet, those delivered are the oldest.
Prefix ==
    /\ \A p \in delivered : p <= presses - pending
    /\ \A p \in (Decided + 1) .. (presses - pending) : p \in delivered

\* The settled effects belong to presses that are settled.
Settled ==
    /\ \A p \in typed : p <= Decided
    /\ \A p \in discarded : p <= Decided

IInv == TypeOK /\ CountsAgree /\ Consecutive /\ Locals /\ Prefix /\ Settled /\ OneEffect

LEMMA InitIInv == Init => IInv
<1> SUFFICES ASSUME Init PROVE IInv
  OBVIOUS
<1>1. Len(queue) = 0 /\ queue \in Seq(1..MaxPresses)
  BY DEF Init
<1>8. /\ pending = 0 /\ consumed = 0 /\ count = 0 /\ presses = 0 /\ key = 0
      /\ ~sending /\ sending \in BOOLEAN /\ pc = "input"
      /\ flag \in BOOLEAN /\ inhibit \in BOOLEAN
      /\ delivered = {} /\ owed = {} /\ discarded = {} /\ typed = {}
  BY DEF Init
<1>2. Decided = 0
  <2>1. InHand = 0
    BY <1>8 DEF InHand
  <2>2. Unsent = 0
    BY <1>8 DEF Unsent
  <2>3. Polled = 0
    <3>1. presses = 0 /\ Len(queue) = 0
      BY <1>1, <1>8
    <3> QED BY <2>2, <3>1 DEF Polled
  <2> QED BY <2>1, <2>3 DEF Decided
<1>3. TypeOK
  <2>1. 0 \in Nat /\ 0 \in 0..MaxPresses
    BY PressAssumption
  <2> QED BY <1>1, <1>8, <2>1 DEF TypeOK
<1>4. CountsAgree
  BY <1>1, <1>8 DEF CountsAgree, Unsent, InHand
<1>5. Consecutive
  BY <1>1, <1>2, <1>8 DEF Consecutive
<1>6. Locals /\ Settled /\ OneEffect
  BY DEF Init, Locals, Settled, OneEffect
<1>7. Prefix
  BY <1>2 DEF Init, Prefix
<1> QED BY <1>3, <1>4, <1>5, <1>6, <1>7 DEF IInv

\* The UI thread: request() and send() leave Polled and Decided alone.
LEMMA UiKeepsIInv ==
  ASSUME IInv, UiStep
  PROVE  IInv'
<1> USE PressAssumption DEF IInv
<1>1. CASE Request
  <2>1. /\ Polled' = Polled /\ Decided' = Decided
        /\ presses' - pending' = presses - pending
    BY <1>1 DEF Request, TypeOK, Polled, Decided, InHand, Unsent
  <2>2. TypeOK'
    BY <1>1 DEF Request, TypeOK, history
  <2>3. CountsAgree'
    BY <1>1 DEF Request, TypeOK, CountsAgree, InHand, Unsent
  <2>4. Consecutive' /\ Locals'
    BY <1>1, <2>1 DEF Request, Consecutive, Locals
  <2>5. Prefix' /\ Settled' /\ OneEffect'
    BY <1>1, <2>1 DEF Request, Prefix, Settled, OneEffect, history
  <2> QED BY <2>2, <2>3, <2>4, <2>5
<1>2. CASE Send
  <2>1. /\ Len(queue') = Len(queue) + 1
        /\ \A i \in 1..Len(queue) : queue'[i] = queue[i]
        /\ queue'[Len(queue) + 1] = presses
        /\ queue' \in Seq(1..MaxPresses)
        /\ Len(queue) \in Nat
    <3>1. presses \in 1..MaxPresses
      BY <1>2 DEF Send, TypeOK, CountsAgree, Consecutive, Decided, Polled, InHand, Unsent
    <3> QED BY <1>2, <3>1 DEF Send, TypeOK
  <2>2. Polled' = Polled /\ Decided' = Decided /\ InHand' = InHand
    BY <1>2, <2>1 DEF Send, TypeOK, Decided, Polled, InHand, Unsent
  <2>3. TypeOK'
    BY <1>2, <2>1 DEF Send, TypeOK, counters, history
  <2>6. CountsAgree'
    BY <1>2, <2>1 DEF Send, TypeOK, CountsAgree, counters, InHand, Unsent
  <2>4. Consecutive'
    <3>1. presses = Polled + (Len(queue) + 1)
      BY <1>2, <2>1 DEF Send, Polled, TypeOK, InHand, Unsent
    <3>2. ASSUME NEW i \in 1..Len(queue')
          PROVE  queue'[i] = Polled' + i
      <4>1. CASE i \in 1..Len(queue)
        BY <2>1, <2>2, <4>1 DEF Consecutive
      <4>2. CASE i = Len(queue) + 1
        BY <2>1, <2>2, <3>1, <4>2
      <4> QED BY <2>1, <4>1, <4>2
    <3> QED BY <1>2, <2>2, <3>2 DEF Send, Consecutive
  <2>5. Locals' /\ Prefix' /\ Settled' /\ OneEffect'
    BY <1>2, <2>2 DEF Send, Locals, Prefix, Settled, OneEffect, counters, history
  <2> QED BY <2>3, <2>4, <2>5, <2>6
<1> QED BY <1>1, <1>2 DEF UiStep

\* maybe_quit: a swap delivers every press still pending, which keeps the
\* delivered ones a prefix.
LEMMA TakeKeepsIInv ==
  ASSUME IInv, TakeStep
  PROVE  IInv'
<1> USE PressAssumption DEF IInv
<1>1. CASE TakeSwap
  <2>1. /\ Polled' = Polled /\ Decided' = Decided /\ InHand = 0
        /\ presses - pending = Decided + consumed + count /\ count = 0
    BY <1>1 DEF TakeSwap, ui, Polled, Decided, InHand, TypeOK, CountsAgree, Locals, Unsent
  <2>2. \A p \in Unheard : p \in 1..MaxPresses /\ p > Decided
    BY <2>1 DEF Unheard, TypeOK, Consecutive
  <2>7. TypeOK'
    BY <1>1, <2>2 DEF TakeSwap, ui, TypeOK
  <2>3. CountsAgree'
    BY <1>1, <2>1 DEF TakeSwap, ui, TypeOK, CountsAgree, InHand, Unsent
  <2>4. Consecutive' /\ Locals' /\ Settled'
    BY <1>1, <2>1 DEF TakeSwap, ui, Consecutive, Locals, Settled, TypeOK
  <2>5. Prefix'
    BY <1>1, <2>1 DEF TakeSwap, ui, Prefix, Unheard, TypeOK, Consecutive
  <2>6. OneEffect'
    <3>1. \A p \in Unheard : p \notin typed
      <4>1. ASSUME NEW p \in Unheard, p \in typed PROVE FALSE
        <5>1. p \in Nat /\ p > Decided /\ Decided \in Nat
          BY <2>2, <4>1 DEF Consecutive
        <5>2. p <= Decided
          BY <4>1 DEF Settled
        <5> QED BY <5>1, <5>2
      <4> QED BY <4>1
    <3> QED BY <1>1, <3>1 DEF TakeSwap, OneEffect
  <2> QED BY <2>3, <2>4, <2>5, <2>6, <2>7
<1>2. CASE TakeAdd
  BY <1>2 DEF TakeAdd, TypeOK, CountsAgree, Consecutive, Locals, Prefix, Settled,
              OneEffect, Decided, Polled, InHand, ui, history, Unsent
<1>3. CASE SignalQuit
  BY <1>3 DEF SignalQuit, TypeOK, CountsAgree, Consecutive, Locals, Prefix, Settled,
              OneEffect, Decided, Polled, InHand, ui, counters, Unsent
<1>4. CASE NoQuit
  BY <1>4 DEF NoQuit, TypeOK, CountsAgree, Consecutive, Locals, Prefix, Settled,
              OneEffect, Decided, Polled, InHand, ui, counters, history, Unsent
<1> QED BY <1>1, <1>2, <1>3, <1>4 DEF TakeStep

\* The key in hand is the first undecided press, and what CountsAgree says of
\* the numbers of the presses then.
LEMMA InHandKey ==
  ASSUME TypeOK, CountsAgree, Consecutive, Locals, pc \in {"discard", "clear"}
  PROVE  /\ key = Decided + 1 /\ InHand = 1
         /\ presses - pending = Decided + consumed
         /\ pending + consumed > 0
<1>1. InHand = 1 /\ key = Polled /\ count = 0
  BY DEF InHand, Consecutive, Locals
<1>2. Len(queue) \in Nat /\ presses \in Nat /\ key \in Nat
      /\ pending \in Nat /\ consumed \in Nat
  BY PressAssumption DEF TypeOK
<1>3. pending + consumed = Len(queue) + Unsent + 1
  BY <1>1, <1>2 DEF CountsAgree
<1>4. Polled = presses - Unsent - Len(queue) /\ Decided = Polled - 1
  BY <1>1 DEF Polled, Decided
<1>5. Unsent \in Nat
  BY DEF Unsent
<1> QED BY <1>1, <1>2, <1>3, <1>4, <1>5

\* A poll: the key in hand is the first undecided press, so it was delivered
\* exactly when some delivered request is outstanding.
LEMMA InputKeepsIInv ==
  ASSUME IInv, InputStep
  PROVE  IInv'
<1> USE PressAssumption DEF IInv
<1>1. CASE PollTimeout
  BY <1>1 DEF PollTimeout, TypeOK, CountsAgree, Consecutive, Locals, Prefix, Settled,
              OneEffect, Decided, Polled, InHand, ui, counters, history, Unsent
<1>2. CASE PollKey
  <2>1. /\ Len(queue) \in Nat \ {0}
        /\ Len(queue') = Len(queue) - 1
        /\ \A i \in 1..Len(queue') : queue'[i] = queue[i + 1]
        /\ queue' \in Seq(1..MaxPresses)
        /\ key' = queue[1] /\ key' \in 1..MaxPresses
    BY <1>2 DEF PollKey, TypeOK
  <2>2. Polled' = Polled + 1 /\ Decided' = Decided
    BY <1>2, <2>1 DEF PollKey, TypeOK, Decided, Polled, InHand, ui, Unsent
  <2>3. TypeOK' /\ CountsAgree'
    BY <1>2, <2>1 DEF PollKey, TypeOK, CountsAgree, ui, counters, history, InHand, Unsent
  <2>4. Consecutive'
    <3>1. key' = Polled'
      BY <2>1, <2>2 DEF Consecutive
    <3>2. ASSUME NEW i \in 1..Len(queue')
          PROVE  queue'[i] = Polled' + i
      BY <2>1, <2>2, <3>2 DEF Consecutive, Decided, InHand, Polled, TypeOK, Unsent
    <3> QED BY <2>2, <3>1, <3>2 DEF Consecutive
  <2>5. Locals' /\ Prefix' /\ Settled' /\ OneEffect'
    BY <1>2, <2>2 DEF PollKey, Locals, Prefix, Settled, OneEffect, counters, ui, history
  <2> QED BY <2>3, <2>4, <2>5
<1>3. CASE DiscardQueuedKey
  <2>1. /\ key = Decided + 1 /\ count = 0 /\ InHand = 1
        /\ presses - pending = Decided + consumed
    BY <1>3, InHandKey DEF DiscardQueuedKey, Locals
  <2>2. CASE consumed > 0
    <3>1. key \in delivered
      BY <2>1, <2>2 DEF Prefix, TypeOK, Consecutive
    <3>2. Decided' = Decided + 1 /\ Polled' = Polled
      BY <1>3, <2>2 DEF DiscardQueuedKey, Decided, Polled, InHand, ui, TypeOK, Unsent
    <3>3. TypeOK'
      <4>1. /\ consumed' = consumed - 1 /\ discarded' = discarded \cup {key}
            /\ key' = 0 /\ pc' = "eval"
            /\ UNCHANGED <<pending, queue, presses, sending, count, flag, inhibit,
                           delivered, owed, typed>>
        BY <1>3, <2>2 DEF DiscardQueuedKey, ui
      <4>2. consumed' \in Nat
        BY <2>2, <4>1 DEF TypeOK
      <4>3. discarded' \subseteq 1..MaxPresses /\ key' \in 0..MaxPresses
        BY <3>1, <4>1 DEF TypeOK
      <4> QED BY <4>1, <4>2, <4>3 DEF TypeOK
    <3>8. CountsAgree'
      <4>1. /\ consumed' = consumed - 1 /\ pc = "discard" /\ pc' = "eval"
            /\ UNCHANGED <<pending, count, queue, sending>>
        BY <1>3, <2>2 DEF DiscardQueuedKey, ui
      <4>2. consumed \in Nat /\ pending \in Nat /\ count \in Nat /\ Len(queue) \in Nat
        BY DEF TypeOK
      <4> QED BY <4>1, <4>2 DEF CountsAgree, InHand, Unsent
    <3>4. Consecutive' /\ Locals'
      BY <1>3, <2>1, <2>2, <3>2
      DEF DiscardQueuedKey, Consecutive, Locals, ui
    <3>7. Prefix'
      <4>1. /\ delivered' = delivered /\ presses' - pending' = presses - pending
            /\ Decided' = Decided + 1 /\ Decided \in Nat
            /\ presses - pending \in Int
        BY <1>3, <2>2, <3>2 DEF DiscardQueuedKey, ui, Consecutive, TypeOK
      <4>2. (Decided' + 1) .. (presses - pending) \subseteq (Decided + 1) .. (presses - pending)
        BY <4>1
      <4> QED BY <4>1, <4>2 DEF Prefix
    <3>5. Settled'
      <4>1. /\ discarded' = discarded \cup {key} /\ typed' = typed
            /\ key = Decided' /\ Decided' = Decided + 1 /\ Decided \in Nat
        BY <1>3, <2>1, <2>2, <3>2 DEF DiscardQueuedKey, Consecutive
      <4>2. \A p \in typed \cup discarded : p \in Nat /\ p <= Decided
        BY DEF Settled, TypeOK
      <4> QED BY <4>1, <4>2 DEF Settled
    <3>6. OneEffect'
      BY <1>3, <2>2, <3>1 DEF DiscardQueuedKey, OneEffect
    <3> QED BY <3>3, <3>4, <3>5, <3>6, <3>7, <3>8
  <2>3. CASE ~(consumed > 0)
    <3>1. /\ Decided' = Decided /\ Polled' = Polled /\ consumed = 0
          /\ pc = "discard" /\ pc' = "clear"
          /\ UNCHANGED <<consumed, discarded, key, pending, queue, ui, count, flag,
                         inhibit, delivered, owed, typed>>
      BY <1>3, <2>3 DEF DiscardQueuedKey, Decided, Polled, InHand, ui, TypeOK, Unsent
    <3>2. TypeOK' /\ CountsAgree'
      BY <3>1 DEF TypeOK, CountsAgree, ui, InHand, Unsent
    <3>3. Consecutive' /\ Locals' /\ Prefix' /\ Settled' /\ OneEffect'
      BY <3>1 DEF Consecutive, Locals, Prefix, Settled, OneEffect, ui
    <3> QED BY <3>2, <3>3
  <2> QED BY <2>2, <2>3
<1>4. CASE ClearRequest
  <2>1. /\ key = Decided + 1 /\ count = 0 /\ consumed = 0 /\ InHand = 1
        /\ presses - pending = Decided /\ pending > 0
    <3>1. count = 0 /\ consumed = 0
      BY <1>4 DEF ClearRequest, Locals
    <3>2. /\ key = Decided + 1 /\ InHand = 1
          /\ presses - pending = Decided + consumed
          /\ pending + consumed > 0
      BY <1>4, InHandKey DEF ClearRequest
    <3>3. pending \in Nat /\ Decided \in Nat
      BY DEF TypeOK, Consecutive
    <3> QED BY <3>1, <3>2, <3>3
  <2>2. Decided' = Decided + 1 /\ Polled' = Polled
    BY <1>4 DEF ClearRequest, Decided, Polled, InHand, ui, TypeOK, Unsent
  <2>3. TypeOK' /\ CountsAgree'
    BY <1>4, <2>1 DEF ClearRequest, TypeOK, CountsAgree, ui, Consecutive, InHand, Unsent
  <2>4. Consecutive' /\ Locals' /\ Prefix'
    BY <1>4, <2>1, <2>2
    DEF ClearRequest, Consecutive, Locals, Prefix, ui, TypeOK
  <2>5. Settled' /\ OneEffect'
    BY <1>4, <2>1, <2>2
    DEF ClearRequest, Consecutive, Settled, OneEffect, TypeOK, Prefix
  <2> QED BY <2>3, <2>4, <2>5
<1> QED BY <1>1, <1>2, <1>3, <1>4 DEF InputStep

LEMMA NextKeepsIInv == IInv /\ [Next]_vars => IInv'
<1> SUFFICES ASSUME IInv, [Next]_vars PROVE IInv'
  OBVIOUS
<1>1. CASE CommandError \/ Return \/ BindInhibitQuit
  <2>1. /\ UNCHANGED <<counters, queue, ui, count, key, delivered, discarded, typed>>
        /\ pc = "eval" /\ pc' \in {"eval", "input"}
        /\ owed' \subseteq owed /\ flag' \in BOOLEAN /\ inhibit' \in BOOLEAN
    BY <1>1 DEF CommandError, Return, BindInhibitQuit, IInv, TypeOK, history
  <2>2. Decided' = Decided /\ Polled' = Polled
    BY <2>1 DEF Decided, Polled, InHand, ui, Unsent
  <2>3. TypeOK' /\ CountsAgree'
    BY <2>1 DEF IInv, TypeOK, CountsAgree, ui, counters, InHand, Unsent
  <2> QED BY <2>1, <2>2, <2>3
      DEF IInv, Consecutive, Locals, Prefix, Settled, OneEffect, ui, counters
<1>2. CASE UNCHANGED vars
  BY <1>2 DEF vars, IInv, TypeOK, CountsAgree, Consecutive, Locals, Prefix, Settled,
              OneEffect, Decided, Polled, InHand, ui, counters, history, Unsent
<1> QED BY <1>1, <1>2, UiKeepsIInv, TakeKeepsIInv, InputKeepsIInv DEF Next, LogicStep

\* However the two threads interleave, the two counters count the C-g events
\* still to be decided about: none is left over, none is missing.
THEOREM CountersAgreeWithQueue == Spec => []CountsAgree
<1>1. IInv => CountsAgree
  BY DEF IInv
<1> QED BY InitIInv, NextKeepsIInv, <1>1, PTL DEF Spec

\* Every variable keeps its type: no counter is ever taken below zero.
THEOREM QuitTypesKept == Spec => []TypeOK
<1>1. IInv => TypeOK
  BY DEF IInv
<1> QED BY InitIInv, NextKeepsIInv, <1>1, PTL DEF Spec

\* However many C-g are typed, and at whatever moments, each has one effect:
\* its key is thrown away only if it was delivered as a quit, and a delivered
\* press never also reaches the command loop.
THEOREM EachPressHasOneEffect == Spec => []OneEffect
<1>1. IInv => OneEffect
  BY DEF IInv
<1> QED BY InitIInv, NextKeepsIInv, <1>1, PTL DEF Spec

\* Between the swap of take_for_eval and the moment quit-flag is set, the
\* presses it has taken are owed already.
Owing == pc = "add" => owed # {}

\* quit-flag is set exactly while some delivered C-g has not led to a quit yet,
\* however many there are and however long inhibit-quit holds them back.
THEOREM FlagMeansAQuitIsOwed == Spec => []FlagMeansOwed
<1> DEFINE FInv == IInv /\ FlagMeansOwed /\ Owing
<1>1. Init => FInv
  <2>1. Init => FlagMeansOwed /\ Owing
    BY DEF Init, FlagMeansOwed, Owing
  <2> QED BY <2>1, InitIInv
<1>2. FInv /\ [Next]_vars => FInv'
  <2> SUFFICES ASSUME FInv, [Next]_vars PROVE FInv'
    OBVIOUS
  <2>1. IInv'
    BY NextKeepsIInv
  <2>2. CASE UiStep
    BY <2>1, <2>2 DEF UiStep, Request, Send, FlagMeansOwed, Owing, history
  <2>3. CASE TakeSwap
    <3>1. presses \in Nat /\ pending \in Nat /\ presses - pending \in Nat
      <4>1. Decided \in Nat /\ count = 0 /\ InHand = 0
        BY <2>3 DEF IInv, Consecutive, Locals, InHand, TakeSwap
      <4>2. /\ presses \in Nat /\ pending \in Nat /\ consumed \in Nat /\ Len(queue) \in Nat
            /\ Unsent \in Nat
        BY PressAssumption DEF IInv, TypeOK, Unsent
      <4> QED BY <4>1, <4>2 DEF IInv, CountsAgree, Decided, Polled
    <3>2. pending = 0 => Unheard = {}
      BY <3>1 DEF Unheard
    <3>3. pending # 0 => presses \in Unheard
      BY <3>1 DEF Unheard
    <3>4. pc = "eval" /\ pc' = (IF pending = 0 THEN "check" ELSE "add")
          /\ owed' = owed \cup Unheard /\ flag' = flag
      BY <2>3 DEF TakeSwap
    <3>5. flag <=> owed # {}
      BY <3>4 DEF FlagMeansOwed
    <3> QED BY <2>1, <3>2, <3>3, <3>4, <3>5 DEF FlagMeansOwed, Owing
  <2>4. CASE TakeAdd
    <3>1. owed # {} /\ owed' = owed /\ flag' = TRUE /\ pc' = "check"
      BY <2>4 DEF TakeAdd, Owing, history
    <3> QED BY <2>1, <3>1 DEF FlagMeansOwed, Owing
  <2>5. CASE SignalQuit \/ CommandError
    <3>1. flag' = FALSE /\ owed' = {} /\ pc' \in {"eval", "input"}
      BY <2>5 DEF SignalQuit, CommandError
    <3> QED BY <2>1, <3>1 DEF FlagMeansOwed, Owing
  <2>6. CASE NoQuit \/ InputStep \/ Return \/ BindInhibitQuit \/ UNCHANGED vars
    <3>1. flag' = flag /\ owed' = owed /\ (pc' = "add" <=> pc = "add")
      BY <2>6 DEF NoQuit, InputStep, PollTimeout, PollKey, DiscardQueuedKey, ClearRequest,
                  Return, BindInhibitQuit, vars, history
    <3> QED BY <2>1, <3>1 DEF FlagMeansOwed, Owing
  <2> QED BY <2>2, <2>3, <2>4, <2>5, <2>6 DEF Next, LogicStep, TakeStep
<1>3. FInv => FlagMeansOwed
  OBVIOUS
<1> QED BY <1>1, <1>2, <1>3, PTL DEF Spec
=============================================================================
