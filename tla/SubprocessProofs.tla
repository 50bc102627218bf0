-------------------------- MODULE SubprocessProofs --------------------------
(***************************************************************************)
(* Proofs about Subprocess: types, the order of what is sent, and that     *)
(* filters and sentinels get what Delivery promises, for any number of     *)
(* processes and any depth of callbacks.                                   *)
(***************************************************************************)
EXTENDS Subprocess, SequenceTheorems, FiniteSetTheorems,
        WellFoundedInduction, TLAPS

-----------------------------------------------------------------------------
(* The inductive invariant.                                                *)

WorldSet == [runs : BOOLEAN, out : Seq(UnitSet), err : Seq(UnitSet),
             stdin : 0 .. Capacity, owes : BOOLEAN]
ProcSet  == [status : {"run", "open", "exit", "signal", "closed"},
             dead : BOOLEAN, reported : BOOLEAN, listed : BOOLEAN,
             paused : BOOLEAN, held : Seq(UnitSet), input : BOOLEAN,
             pending : Seq(1 .. Queued)]

\* Nothing is left in the pipes of a process that has ended.
Drained(w) == ~w.runs /\ w.out = <<>> /\ w.err = <<>>
Ended(q)   == q.status \notin {"run", "open"}

\* One process, its program and its history: what was sent and not written is
\* the queue.
ProcOK(w, q, n, p) ==
    /\ q.dead => q.reported
    /\ q.reported => Ended(q)
    /\ Ended(q) => Drained(w)
    /\ p \notin Split => w.err = <<>>
    /\ \A k \in DOMAIN w.err : w.err[k].form = "whole"
    /\ q.pending = [k \in 1 .. n |-> k]
    /\ ~q.input => n = 0

\* An activation; one that has another on top of it; and the innermost, which
\* knows what it has just seen of its process.
FrameOK(pr, f) ==
    /\ f.kind \notin {"top", "all"} => f.p \in Procs
    /\ f.kind = "poll" /\ f.stage = "exit" => Ended(pr[f.p]) /\ pr[f.p].held = <<>>

Below(f) == f.events = <<>> /\ (f.kind = "poll" => f.stage \in {"start", "exit", "over"})

Reading == {"first", "second", "act"}

FirstRead(q, f) == IF q.paused \/ f.turn % 2 # 0 THEN "err" ELSE "out"

PollOK(w, q, f) ==
    /\ f.stage \in Reading \cup {"deliver", "finish"} => ~q.reported
    /\ f.stage \in {"second", "act"} => f.p \in Children
    /\ f.stage = "deliver" =>
          /\ ~Ended(q)
          /\ Len(f.events) = 1
          /\ Head(f.events).unit.form = "part" => Head(f.events).ch = "out"
    /\ f.stage \in Reading /\ f.exited => ~w.runs
    /\ f.stage = "second" /\ f.exited => w[FirstRead(q, f)] = <<>>
    /\ f.stage = "act" /\ f.exited => q.paused \/ Drained(w)
    /\ f.stage = "finish" => Ended(q)

TopOK(wo, pr, f) ==
    /\ f.events # <<>> => f.kind = "poll" /\ f.stage = "deliver"
    /\ f.kind = "poll" => PollOK(wo[f.p], pr[f.p], f)

Frames(s) == s \in Seq(FrameSet) /\ s # <<>> /\ s[1].kind = "top"

StackOK(wo, pr, s) ==
    /\ Frames(s)
    /\ \A k \in 1 .. Len(s) : FrameOK(pr, s[k]) /\ (k < Len(s) => Below(s[k]))
    /\ TopOK(wo, pr, s[Len(s)])

IInv ==
    /\ TypeOK
    /\ \A p \in Procs : ProcOK(world[p], proc[p], asked[p], p)
    /\ StackOK(world, proc, stack)

\* The end of a process is final, and its decoder is not filled again.
EndsLast(pr, pr2) ==
    \A p \in Procs : Ended(pr[p]) =>
        /\ Ended(pr2[p])
        /\ pr[p].held = <<>> => pr2[p].held = <<>>

-----------------------------------------------------------------------------
(* The stack.                                                              *)

LEMMA StackFacts ==
    ASSUME NEW S, NEW s \in Seq(S), s # <<>>
    PROVE  /\ Len(s) \in Nat \ {0} /\ Last(s) = s[Len(s)] /\ Last(s) \in S
           /\ Front(s) \in Seq(S) /\ Len(Front(s)) = Len(s) - 1
           /\ \A i \in 1 .. Len(s) - 1 : Front(s)[i] = s[i]
<1>1. Len(s) \in Nat \ {0} /\ \A i \in 1 .. Len(s) : s[i] \in S
  BY EmptySeq, ElementOfSeq
<1>2. Front(s) = SubSeq(s, 1, Len(s) - 1)
  BY DEF Front
<1>3. \A i \in 1 .. Len(s) - 1 : s[i] \in S
  BY <1>1
<1>4. /\ Front(s) \in Seq(S) /\ Len(Front(s)) = Len(s) - 1
      /\ \A i \in 1 .. Len(s) - 1 : Front(s)[i] = s[i]
  <2> DEFINE n == Len(s) - 1
  <2>1. n \in Nat /\ \A i \in 1 .. n : s[i] \in S
    BY <1>1, <1>3
  <2> HIDE DEF n
  <2>2. /\ SubSeq(s, 1, n) \in Seq(S) /\ Len(SubSeq(s, 1, n)) = n
        /\ \A i \in 1 .. n : SubSeq(s, 1, n)[i] = s[i]
    BY <2>1, SubSeqProperties
  <2> QED BY <1>2, <2>2 DEF n
<1> QED BY <1>1, <1>4 DEF Last

LEMMA BecomeFacts ==
    ASSUME NEW S, NEW s \in Seq(S), s # <<>>, NEW f \in S
    PROVE  LET u == Append(Front(s), f) IN
           /\ u \in Seq(S) /\ u # <<>> /\ Len(u) = Len(s)
           /\ u[Len(s)] = f /\ Last(u) = f /\ Front(u) = Front(s)
           /\ \A i \in 1 .. Len(s) - 1 : u[i] = s[i]
<1> DEFINE u == Append(Front(s), f)
<1>1. /\ u \in Seq(S) /\ u # <<>> /\ Len(u) = Len(s)
      /\ u[Len(s)] = f
      /\ \A i \in 1 .. Len(s) - 1 : u[i] = s[i]
  BY StackFacts, AppendProperties
<1>2. Last(u) = f
  BY <1>1 DEF Last
<1>3. Front(u) = Front(s)
  <2>1. Front(u) \in Seq(S) /\ Front(s) \in Seq(S) /\ Len(Front(u)) = Len(Front(s))
        /\ \A i \in 1 .. Len(Front(u)) : Front(u)[i] = Front(s)[i]
    BY <1>1, StackFacts
  <2> QED BY <2>1, SeqEqual
<1> QED BY <1>1, <1>2, <1>3

LEMMA PushFacts ==
    ASSUME NEW S, NEW s \in Seq(S), NEW f \in S
    PROVE  LET u == Append(s, f) IN
           /\ u \in Seq(S) /\ u # <<>> /\ Len(u) = Len(s) + 1 /\ Len(s) \in Nat
           /\ u[Len(s) + 1] = f /\ Last(u) = f
           /\ \A i \in 1 .. Len(s) : u[i] = s[i]
BY AppendProperties, LenProperties DEF Last

\* What an activation on the stack keeps when the processes go on.
LEMMA FrameKept ==
    ASSUME NEW pr, NEW pr2, NEW f \in FrameSet, EndsLast(pr, pr2), FrameOK(pr, f)
    PROVE  FrameOK(pr2, f)
BY DEF FrameOK, EndsLast

LEMMA BelowIsTop ==
    ASSUME NEW wo, NEW pr, NEW f, Below(f)
    PROVE  TopOK(wo, pr, f)
BY DEF Below, TopOK, PollOK, Reading

LEMMA BecomeOK ==
    ASSUME NEW s, NEW wo, NEW pr, NEW wo2, NEW pr2, NEW f \in FrameSet,
           StackOK(wo, pr, s), EndsLast(pr, pr2), f.kind = Last(s).kind,
           FrameOK(pr2, f), TopOK(wo2, pr2, f)
    PROVE  StackOK(wo2, pr2, Append(Front(s), f))
<1> DEFINE u == Append(Front(s), f)
<1>1. s \in Seq(FrameSet) /\ s # <<>> /\ s[1].kind = "top"
      /\ \A k \in 1 .. Len(s) : FrameOK(pr, s[k]) /\ (k < Len(s) => Below(s[k]))
  BY DEF StackOK, Frames
<1>2. /\ u \in Seq(FrameSet) /\ u # <<>> /\ Len(u) = Len(s) /\ u[Len(s)] = f
      /\ \A i \in 1 .. Len(s) - 1 : u[i] = s[i]
      /\ Len(s) \in Nat \ {0} /\ Last(s) = s[Len(s)]
  <2>1. s \in Seq(FrameSet) /\ s # <<>>
    BY <1>1
  <2>2. Len(s) \in Nat \ {0} /\ Last(s) = s[Len(s)]
    BY <2>1, StackFacts
  <2> QED BY <2>1, <2>2, BecomeFacts
<1> HIDE DEF u
<1>3. u[1].kind = "top"
  BY <1>1, <1>2
<1>4. ASSUME NEW k \in 1 .. Len(u) PROVE FrameOK(pr2, u[k]) /\ (k < Len(u) => Below(u[k]))
  <2>1. CASE k = Len(s)
    BY <1>2, <2>1
  <2>2. CASE k # Len(s)
    <3>1. k \in 1 .. Len(s) /\ k < Len(s) /\ u[k] = s[k]
      BY <1>2, <2>2
    <3>2. s[k] \in FrameSet
      BY <1>1, <3>1, ElementOfSeq
    <3> QED BY <1>1, <3>1, <3>2, FrameKept
  <2> QED BY <2>1, <2>2
<1>5. StackOK(wo2, pr2, u)
  BY <1>2, <1>3, <1>4 DEF StackOK, Frames
<1> QED BY <1>5 DEF u

LEMMA PushOK ==
    ASSUME NEW s, NEW wo, NEW pr, NEW wo2, NEW g \in FrameSet,
           StackOK(wo, pr, s), Below(Last(s)), FrameOK(pr, g), TopOK(wo2, pr, g)
    PROVE  StackOK(wo2, pr, Append(s, g))
<1> DEFINE u == Append(s, g)
<1>1. s \in Seq(FrameSet) /\ s # <<>> /\ s[1].kind = "top"
      /\ \A k \in 1 .. Len(s) : FrameOK(pr, s[k]) /\ (k < Len(s) => Below(s[k]))
  BY DEF StackOK, Frames
<1>2. /\ u \in Seq(FrameSet) /\ u # <<>> /\ Len(u) = Len(s) + 1 /\ u[Len(s) + 1] = g
      /\ \A i \in 1 .. Len(s) : u[i] = s[i]
      /\ Len(s) \in Nat \ {0} /\ Last(s) = s[Len(s)]
  <2>1. s \in Seq(FrameSet) /\ s # <<>>
    BY <1>1
  <2>2. Len(s) \in Nat \ {0} /\ Last(s) = s[Len(s)]
    BY <2>1, StackFacts
  <2> QED BY <2>1, <2>2, PushFacts
<1> HIDE DEF u
<1>4. ASSUME NEW k \in 1 .. Len(u) PROVE FrameOK(pr, u[k]) /\ (k < Len(u) => Below(u[k]))
  <2>1. CASE k = Len(s) + 1
    BY <1>2, <2>1
  <2>2. CASE k # Len(s) + 1
    BY <1>1, <1>2, <2>2
  <2> QED BY <2>1, <2>2
<1>5. StackOK(wo2, pr, u)
  BY <1>1, <1>2, <1>4 DEF StackOK, Frames
<1> QED BY <1>5 DEF u

LEMMA CallOK ==
    ASSUME NEW s, NEW wo, NEW pr, NEW wo2, NEW pr2, NEW f \in FrameSet, NEW g \in FrameSet,
           StackOK(wo, pr, s), EndsLast(pr, pr2), f.kind = Last(s).kind,
           FrameOK(pr2, f), Below(f), FrameOK(pr2, g), TopOK(wo2, pr2, g)
    PROVE  StackOK(wo2, pr2, Append(Append(Front(s), f), g))
<1> DEFINE u == Append(Front(s), f)
<1>1. TopOK(wo2, pr2, f)
  BY BelowIsTop
<1>2. StackOK(wo2, pr2, u)
  BY <1>1, BecomeOK
<1>3. s \in Seq(FrameSet) /\ s # <<>>
  BY DEF StackOK, Frames
<1>4. Last(u) = f
  BY <1>3, BecomeFacts
<1> HIDE DEF u
<1>5. StackOK(wo2, pr2, Append(u, g))
  BY <1>2, <1>4, PushOK
<1> QED BY <1>5 DEF u

\* The stack cut off, by a throw, a C-g or a return.
LEMMA CutOK ==
    ASSUME NEW s, NEW wo, NEW pr, NEW wo2, NEW pr2, NEW k \in 1 .. Len(s) - 1,
           StackOK(wo, pr, s), EndsLast(pr, pr2)
    PROVE  /\ StackOK(wo2, pr2, SubSeq(s, 1, k))
           /\ Below(Last(SubSeq(s, 1, k)))
<1> DEFINE u == SubSeq(s, 1, k)
<1>1. s \in Seq(FrameSet) /\ s # <<>> /\ s[1].kind = "top"
      /\ \A i \in 1 .. Len(s) : FrameOK(pr, s[i]) /\ (i < Len(s) => Below(s[i]))
  BY DEF StackOK, Frames
<1>2. Len(s) \in Nat \ {0} /\ \A i \in 1 .. Len(s) : s[i] \in FrameSet
  BY <1>1, StackFacts, ElementOfSeq
<1>3. /\ u \in Seq(FrameSet) /\ Len(u) = k /\ k \in Nat
      /\ \A i \in 1 .. k : u[i] = s[i]
  BY <1>2, SubSeqProperties
<1>4. u # <<>>
  BY <1>2, <1>3, EmptySeq
<1>5. Last(u) = u[k]
  BY <1>3 DEF Last
<1> HIDE DEF u
<1>6. \A i \in 1 .. Len(u) : FrameOK(pr2, u[i]) /\ Below(u[i])
  BY <1>1, <1>2, <1>3, FrameKept
<1>7. TopOK(wo2, pr2, u[Len(u)])
  BY <1>3, <1>6, <1>2, BelowIsTop
<1>8. StackOK(wo2, pr2, u)
  BY <1>1, <1>2, <1>3, <1>4, <1>6, <1>7 DEF StackOK, Frames
<1> QED BY <1>2, <1>3, <1>5, <1>6, <1>8 DEF u

LEMMA FrontIsCut ==
    ASSUME NEW s, s \in Seq(FrameSet), s # <<>>
    PROVE  Front(s) = SubSeq(s, 1, Len(s) - 1)
BY DEF Front

-----------------------------------------------------------------------------
(* What the invariant says of the innermost activation.                    *)

LEMMA Typed ==
    ASSUME IInv
    PROVE  /\ world \in [Procs -> WorldSet] /\ proc \in [Procs -> ProcSet]
           /\ asked \in [Procs -> 0 .. Queued]
           /\ \A p \in Procs, ch \in Channels : Len(world[p][ch]) <= Capacity
           /\ \A p \in Procs : ProcOK(world[p], proc[p], asked[p], p)
           /\ \A p \in Procs : Alive(p) <=> ~Ended(proc[p])
           /\ Turns \in Nat \ {0} /\ Capacity \in Nat /\ Queued \in Nat
BY ProcAssumption DEF IInv, TypeOK, WorldSet, ProcSet, Alive, Ended

LEMMA TopFacts ==
    ASSUME IInv
    PROVE  /\ stack \in Seq(FrameSet) /\ stack # <<>> /\ StackOK(world, proc, stack)
           /\ Len(stack) \in Nat \ {0}
           /\ Top = stack[Len(stack)] /\ Top = Last(stack) /\ Top \in FrameSet
           /\ FrameOK(proc, Top) /\ TopOK(world, proc, Top)
           /\ Top.kind # "top" => Len(stack) - 1 \in 1 .. Len(stack) - 1
<1>1. stack \in Seq(FrameSet) /\ stack # <<>> /\ StackOK(world, proc, stack)
  BY DEF IInv, StackOK, Frames
<1>2. /\ Len(stack) \in Nat \ {0} /\ Top = stack[Len(stack)] /\ Top = Last(stack)
      /\ Top \in FrameSet
  <2>1. /\ Len(stack) \in Nat \ {0} /\ Last(stack) = stack[Len(stack)]
        /\ Last(stack) \in FrameSet
    BY <1>1, StackFacts
  <2> QED BY <2>1 DEF Top
<1>3. stack[1].kind = "top"
  BY <1>1 DEF StackOK, Frames
<1>4. FrameOK(proc, stack[Len(stack)]) /\ TopOK(world, proc, stack[Len(stack)])
  <2>1. Len(stack) \in 1 .. Len(stack)
    BY <1>2
  <2> QED BY <1>1, <2>1 DEF StackOK
<1>5. Top.kind # "top" => Len(stack) - 1 \in 1 .. Len(stack) - 1
  <2>1. Top.kind # "top" => Len(stack) # 1
    BY <1>2, <1>3
  <2>2. \A n \in Nat \ {0} : n # 1 => n - 1 \in 1 .. n - 1
    OBVIOUS
  <2>3. Len(stack) \in Nat \ {0}
    BY <1>2
  <2> QED BY <2>1, <2>2, <2>3
<1> QED BY <1>1, <1>2, <1>4, <1>5

LEMMA SameProcs ==
    ASSUME NEW pr
    PROVE  EndsLast(pr, pr)
BY DEF EndsLast

LEMMA Assembled ==
    ASSUME world' \in [Procs -> WorldSet], proc' \in [Procs -> ProcSet],
           asked' \in [Procs -> 0 .. Queued],
           \A p \in Procs, ch \in Channels : Len(world'[p][ch]) <= Capacity,
           \A p \in Procs : ProcOK(world'[p], proc'[p], asked'[p], p),
           StackOK(world', proc', stack')
    PROVE  IInv'
BY DEF IInv, TypeOK, WorldSet, ProcSet, StackOK, Frames

LEMMA OnlyStack ==
    ASSUME IInv, UNCHANGED <<world, proc, asked>>, StackOK(world, proc, stack')
    PROVE  IInv'
BY Typed, Assembled

LEMMA NewFrame ==
    ASSUME NEW kind \in InLisp \cup {"poll", "all", "wait", "send", "eof"},
           NEW p \in Procs \cup {NoProc}
    PROVE  /\ Frame(kind, p) \in FrameSet
           /\ Frame(kind, p).kind = kind /\ Frame(kind, p).p = p
           /\ Frame(kind, p).events = <<>> /\ Frame(kind, p).stage = "start"
<1>1. <<>> \in Seq([ch : Channels, unit : UnitSet])
  BY EmptySeq
<1> QED BY <1>1, ProcAssumption DEF Frame, FrameSet

\* A new activation has seen nothing yet.
Starting(g) == g \in FrameSet /\ g.events = <<>> /\ g.stage = "start"
              /\ (g.kind \notin {"top", "all"} => g.p \in Procs)

LEMMA NewOK ==
    ASSUME NEW g, Starting(g), NEW wo, NEW pr
    PROVE  FrameOK(pr, g) /\ TopOK(wo, pr, g)
BY DEF Starting, FrameOK, TopOK, PollOK, Reading

LEMMA StartsWith ==
    ASSUME NEW g, Starting(g)
    PROVE  /\ \A l \in 0 .. 1 : Starting([g EXCEPT !.left = l])
           /\ \A only, timed \in BOOLEAN : Starting([g EXCEPT !.only = only, !.timed = timed])
           /\ \A todo \in SUBSET Procs : Starting([g EXCEPT !.todo = todo])
<1>1. g \in FrameSet /\ g.events = <<>> /\ g.stage = "start"
      /\ (g.kind \notin {"top", "all"} => g.p \in Procs)
  BY DEF Starting
<1>2. ASSUME NEW l \in 0 .. 1 PROVE Starting([g EXCEPT !.left = l])
  <2>1. [g EXCEPT !.left = l] \in FrameSet
    BY <1>1 DEF FrameSet
  <2> QED BY <1>1, <2>1 DEF Starting, FrameSet
<1>3. ASSUME NEW only \in BOOLEAN, NEW timed \in BOOLEAN
      PROVE  Starting([g EXCEPT !.only = only, !.timed = timed])
  <2>1. [g EXCEPT !.only = only, !.timed = timed] \in FrameSet
    BY <1>1 DEF FrameSet
  <2> QED BY <1>1, <2>1 DEF Starting, FrameSet
<1>4. ASSUME NEW todo \in SUBSET Procs PROVE Starting([g EXCEPT !.todo = todo])
  <2>1. [g EXCEPT !.todo = todo] \in FrameSet
    BY <1>1 DEF FrameSet
  <2> QED BY <1>1, <2>1 DEF Starting, FrameSet
<1> QED BY <1>2, <1>3, <1>4

LEMMA NewFrames ==
    ASSUME NEW p \in Procs
    PROVE  /\ Starting(Frame("poll", p)) /\ Starting(Frame("send", p)) /\ Starting(Frame("eof", p))
           /\ Starting(Callback("filter", p)) /\ Starting(Callback("sentinel", p))
           /\ \A only, timed \in BOOLEAN :
                Starting([Frame("wait", p) EXCEPT !.only = only, !.timed = timed])
           /\ \A q : Starting(PollAll(q))
<1>1. \A k \in {"poll", "send", "eof", "filter", "sentinel", "wait"} :
         Starting(Frame(k, p)) /\ Frame(k, p).kind = k /\ Frame(k, p).p = p
  BY NewFrame DEF Starting, InLisp
<1>2. ASSUME NEW k \in {"filter", "sentinel"} PROVE Starting(Callback(k, p))
  <2>1. (IF Len(Callbacks) < Nesting THEN 1 ELSE 0) \in 0 .. 1
    OBVIOUS
  <2> QED BY <1>1, <2>1, StartsWith DEF Callback
<1>3. \A only, timed \in BOOLEAN :
         Starting([Frame("wait", p) EXCEPT !.only = only, !.timed = timed])
  BY <1>1, StartsWith
<1>4. Starting(Frame("all", NoProc))
  BY NewFrame DEF Starting
<1>5. ASSUME NEW q PROVE Starting(PollAll(q))
  <2>1. Listed \ {q} \in SUBSET Procs
    BY DEF Listed
  <2> QED BY <1>4, <2>1, StartsWith DEF PollAll
<1> QED BY <1>1, <1>2, <1>3, <1>5

\* Calls, returns and changes of the innermost activation.
LEMMA BecomesOK ==
    ASSUME IInv, NEW wo2, NEW pr2, NEW f \in FrameSet, EndsLast(proc, pr2),
           f.kind = Top.kind, FrameOK(pr2, f), TopOK(wo2, pr2, f)
    PROVE  StackOK(wo2, pr2, Becomes(f))
BY TopFacts, BecomeOK DEF Becomes

LEMMA CallsOK ==
    ASSUME IInv, NEW wo2, NEW pr2, NEW f \in FrameSet, NEW g, EndsLast(proc, pr2),
           f.kind = Top.kind, FrameOK(pr2, f), Below(f), Starting(g)
    PROVE  StackOK(wo2, pr2, Calls(f, g))
<1>1. g \in FrameSet /\ FrameOK(pr2, g) /\ TopOK(wo2, pr2, g)
  BY NewOK DEF Starting
<1> QED BY <1>1, TopFacts, CallOK DEF Becomes, Calls

LEMMA ReturnedOK ==
    ASSUME IInv, Top.kind # "top", NEW wo2, NEW pr2, EndsLast(proc, pr2)
    PROVE  StackOK(wo2, pr2, Returned)
<1> DEFINE rest == Front(stack)
           below == Last(rest)
           over == [below EXCEPT !.main = Top.main]
<1>1. StackOK(wo2, pr2, rest) /\ Below(below)
  BY TopFacts, FrontIsCut, CutOK
<1>2. rest \in Seq(FrameSet) /\ rest # <<>>
  BY <1>1 DEF StackOK, Frames
<1>3. below \in FrameSet /\ below = rest[Len(rest)] /\ Len(rest) \in Nat \ {0}
  BY <1>2, StackFacts
<1>4. FrameOK(pr2, below)
  BY <1>1, <1>3 DEF StackOK
<1>5. over \in FrameSet /\ over.kind = below.kind
  BY <1>3, TopFacts DEF FrameSet
<1>6. FrameOK(pr2, over) /\ Below(over)
  BY <1>1, <1>3, <1>4 DEF FrameOK, Below, FrameSet
<1>7. TopOK(wo2, pr2, over)
  BY <1>6, BelowIsTop
<1>8. StackOK(wo2, pr2, Append(Front(rest), over))
  <2> HIDE DEF rest, over
  <2> QED BY <1>1, <1>5, <1>6, <1>7, SameProcs, BecomeOK
<1> QED BY <1>1, <1>8 DEF Returned

-----------------------------------------------------------------------------
(* Polls keep the invariant.                                               *)

LEMMA PollTop ==
    ASSUME IInv, Top.kind = "poll"
    PROVE  /\ Top.p \in Procs /\ Top.kind # "top"
           /\ PollOK(world[Top.p], proc[Top.p], Top)
           /\ Top.stage = "exit" => Ended(proc[Top.p]) /\ proc[Top.p].held = <<>>
           /\ Top.stage # "deliver" => Top.events = <<>>
BY TopFacts DEF FrameOK, TopOK

\* The innermost activation at another stage.
LEMMA AtStage ==
    ASSUME IInv, NEW st \in {"start", "first", "second", "act", "deliver", "finish", "exit",
                             "over", "others", "decide"}
    PROVE  LET f == [Top EXCEPT !.stage = st] IN
           /\ f \in FrameSet /\ f.kind = Top.kind /\ f.p = Top.p /\ f.stage = st
           /\ f.events = Top.events /\ f.turn = Top.turn /\ f.exited = Top.exited
BY TopFacts DEF FrameSet

LEMMA PollStartIInv ==
    ASSUME IInv, PollStart
    PROVE  IInv'
<1> DEFINE p == Top.p
           f == [Top EXCEPT !.stage = "first", !.exited = ~world[p].runs]
<1>1. Top.kind = "poll" /\ Top.stage = "start" /\ UNCHANGED <<world, proc, asked>>
  BY DEF PollStart, Polling
<1>2. p \in Procs /\ Top.kind # "top" /\ Top.events = <<>>
  BY <1>1, PollTop
<1>3. CASE stack' = Returned
  BY <1>1, <1>2, <1>3, ReturnedOK, SameProcs, OnlyStack
<1>4. CASE stack' = Becomes(f) /\ ~proc[p].reported
  <2>1. world[p].runs \in BOOLEAN
    BY <1>2, Typed DEF WorldSet
  <2>2. /\ f \in FrameSet /\ f.kind = "poll" /\ f.p = p /\ f.stage = "first"
        /\ f.events = <<>> /\ f.exited = ~world[p].runs
    BY <1>1, <1>2, <2>1, TopFacts DEF FrameSet
  <2> HIDE DEF f
  <2>3. FrameOK(proc, f) /\ TopOK(world, proc, f)
    BY <1>2, <1>4, <2>2 DEF FrameOK, TopOK, PollOK
  <2> QED BY <1>1, <1>4, <2>2, <2>3, BecomesOK, SameProcs, OnlyStack
<1>5. stack' = Returned \/ (stack' = Becomes(f) /\ ~proc[p].reported)
  <2>1. ~proc[p].dead /\ ~(proc[p].reported /\ Final(p)) => ~proc[p].reported
    BY <1>2, Typed DEF ProcOK, Final
  <2> QED BY <2>1 DEF PollStart
<1> QED BY <1>3, <1>4, <1>5

\* What a read leaves.
LEMMA ReadFacts ==
    ASSUME IInv, NEW p \in Procs, NEW ch \in Channels, Read(p, ch)
    PROVE  /\ world' \in [Procs -> WorldSet]
           /\ \A q \in Procs : q # p => world'[q] = world[q]
           /\ world'[p].runs = world[p].runs /\ world'[p].stdin = world[p].stdin
           /\ world'[p][ch] = Tail(world[p][ch]) /\ world[p][ch] # <<>>
           /\ \A c \in Channels : c # ch => world'[p][c] = world[p][c]
           /\ Head(world[p][ch]) \in UnitSet
           /\ \A q \in Procs, c \in Channels : Len(world'[q][c]) <= Capacity
           /\ \/ world'[p].err = world[p].err
              \/ ch = "err" /\ world'[p].err = Tail(world[p].err)
<1>1. world[p] \in WorldSet /\ ch \in {"out", "err"} /\ world[p][ch] # <<>>
      /\ world' = [world EXCEPT ![p][ch] = Tail(@)] /\ world \in [Procs -> WorldSet]
  BY Typed DEF Read, Channels
<1>2. world[p][ch] \in Seq(UnitSet)
  BY <1>1 DEF WorldSet
<1>3. /\ Tail(world[p][ch]) \in Seq(UnitSet) /\ Head(world[p][ch]) \in UnitSet
      /\ Len(Tail(world[p][ch])) = Len(world[p][ch]) - 1 /\ Len(world[p][ch]) \in Nat
  BY <1>1, <1>2, HeadTailProperties, LenProperties
<1>4. /\ world' \in [Procs -> WorldSet]
      /\ \A q \in Procs : q # p => world'[q] = world[q]
      /\ world'[p].runs = world[p].runs /\ world'[p].stdin = world[p].stdin
      /\ world'[p][ch] = Tail(world[p][ch])
      /\ \A c \in Channels : c # ch => world'[p][c] = world[p][c]
  BY <1>1, <1>3 DEF WorldSet, Channels
<1>5. \A q \in Procs, c \in Channels : Len(world'[q][c]) <= Capacity
  <2> TAKE q \in Procs, c \in Channels
  <2>1. Len(world[q][c]) <= Capacity /\ Capacity \in Nat
    BY Typed
  <2>2. CASE q = p /\ c = ch
    <3>1. Len(world'[q][c]) = Len(world[q][c]) - 1 /\ Len(world[q][c]) \in Nat
      BY <1>3, <1>4, <2>2
    <3> QED BY <2>1, <3>1
  <2>3. CASE ~(q = p /\ c = ch)
    BY <1>4, <2>1, <2>3
  <2> QED BY <2>2, <2>3
<1>6. \/ world'[p].err = world[p].err
      \/ ch = "err" /\ world'[p].err = Tail(world[p].err)
  <2>1. CASE ch = "err"
    <3>1. world[p]["err"] = world[p].err /\ world'[p]["err"] = world'[p].err
      BY <1>1, <1>4 DEF WorldSet
    <3> QED BY <1>4, <2>1, <3>1
  <2>2. CASE ch = "out"
    <3>1. world[p]["err"] = world[p].err /\ world'[p]["err"] = world'[p].err
      BY <1>1, <1>4 DEF WorldSet
    <3> QED BY <1>4, <2>2, <3>1 DEF Channels
  <2> QED BY <1>1, <2>1, <2>2
<1> QED BY <1>1, <1>3, <1>4, <1>5, <1>6

LEMMA WholeTail ==
    ASSUME NEW s \in Seq(UnitSet), s # <<>>, \A k \in DOMAIN s : s[k].form = "whole"
    PROVE  /\ Head(s).form = "whole"
           /\ \A k \in DOMAIN Tail(s) : Tail(s)[k].form = "whole"
<1>1. DOMAIN s = 1 .. Len(s) /\ Len(s) \in Nat \ {0} /\ Head(s) = s[1]
  BY LenProperties, EmptySeq
<1>2. Tail(s) \in Seq(UnitSet) /\ Len(Tail(s)) = Len(s) - 1
      /\ \A i \in 1 .. Len(Tail(s)) : Tail(s)[i] = s[i + 1]
  BY HeadTailProperties
<1>3. DOMAIN Tail(s) = 1 .. Len(s) - 1
  BY <1>2, LenProperties
<1> QED BY <1>1, <1>2, <1>3

LEMMA ReadIInv ==
    ASSUME IInv, NEW ch \in Channels, Top.kind = "poll", Top.stage \in Reading,
           Read(Top.p, ch), stack' = WithEvent(Top, ch), UNCHANGED <<proc, asked>>
    PROVE  IInv'
<1> DEFINE p == Top.p
           e == Event(ch, Head(world[p][ch]))
           f == [Top EXCEPT !.stage = "deliver", !.events = <<e>>]
<1>1. p \in Procs /\ PollOK(world[p], proc[p], Top)
  BY PollTop
<1>2. /\ world' \in [Procs -> WorldSet]
      /\ \A q \in Procs : q # p => world'[q] = world[q]
      /\ world'[p].runs = world[p].runs
      /\ world[p][ch] # <<>> /\ Head(world[p][ch]) \in UnitSet
      /\ \A q \in Procs, c \in Channels : Len(world'[q][c]) <= Capacity
      /\ \/ world'[p].err = world[p].err
         \/ ch = "err" /\ world'[p].err = Tail(world[p].err)
  BY <1>1, ReadFacts
<1>3. world[p] \in WorldSet /\ proc \in [Procs -> ProcSet] /\ proc[p] \in ProcSet
      /\ ProcOK(world[p], proc[p], asked[p], p)
      /\ asked \in [Procs -> 0 .. Queued]
  BY <1>1, Typed
<1>4. world[p].err \in Seq(UnitSet) /\ world[p]["err"] = world[p].err /\ world[p]["out"] = world[p].out
  BY <1>3 DEF WorldSet
<1>5. ch \in {"out", "err"}
  BY DEF Channels
<1>6. ~Ended(proc[p]) /\ ~proc[p].reported
  <2>1. ~Drained(world[p])
    BY <1>2, <1>4, <1>5 DEF Drained
  <2> QED BY <1>1, <1>3, <2>1 DEF ProcOK, PollOK, Reading
<1>7. e \in [ch : Channels, unit : UnitSet] /\ e.ch = ch /\ e.unit = Head(world[p][ch])
  BY <1>2 DEF Event
<1>8. <<e>> \in Seq([ch : Channels, unit : UnitSet]) /\ Len(<<e>>) = 1 /\ Head(<<e>>) = e
  BY <1>7
<1> HIDE DEF e
<1>9. /\ f \in FrameSet /\ f.kind = "poll" /\ f.p = p /\ f.stage = "deliver"
      /\ f.events = <<e>>
  BY <1>8, TopFacts DEF FrameSet
<1> HIDE DEF f
<1>10. e.unit.form = "part" => ch = "out"
  <2>1. CASE ch = "err"
    <3>1. Head(world[p].err).form = "whole"
      BY <1>2, <1>3, <1>4, <2>1, WholeTail DEF ProcOK
    <3> QED BY <1>4, <1>7, <2>1, <3>1
  <2> QED BY <1>5, <2>1
<1>11. FrameOK(proc, f) /\ TopOK(world', proc, f)
  <2>1. FrameOK(proc, f)
    BY <1>1, <1>9 DEF FrameOK
  <2>2. PollOK(world'[p], proc[p], f)
    BY <1>6, <1>7, <1>8, <1>9, <1>10 DEF PollOK, Reading
  <2> QED BY <1>9, <2>1, <2>2 DEF TopOK
<1>12. StackOK(world', proc, Becomes(f))
  BY <1>9, <1>11, BecomesOK, SameProcs
<1>13. stack' = Becomes(f)
  BY DEF WithEvent, f, e
<1>14. ProcOK(world'[p], proc[p], asked[p], p)
  <2>1. CASE world'[p].err = world[p].err
    BY <1>3, <1>6, <2>1 DEF ProcOK
  <2>2. CASE ch = "err" /\ world'[p].err = Tail(world[p].err)
    <3>1. p \in Split
      BY <1>2, <1>3, <1>4, <2>2 DEF ProcOK
    <3>2. \A k \in DOMAIN world'[p].err : world'[p].err[k].form = "whole"
      BY <1>2, <1>3, <1>4, <2>2, WholeTail DEF ProcOK
    <3> QED BY <1>3, <1>6, <3>1, <3>2 DEF ProcOK
  <2> QED BY <1>2, <2>1, <2>2
<1>15. \A q \in Procs : ProcOK(world'[q], proc[q], asked[q], q)
  BY <1>2, <1>14, Typed
<1> QED BY <1>2, <1>3, <1>12, <1>13, <1>15, Assembled

LEMMA ReadChildIInv ==
    ASSUME IInv, ReadChild
    PROVE  IInv'
<1> DEFINE p == Top.p
           ch == IF Top.stage = "first" THEN FirstChannel(Top) ELSE SecondChannel(Top)
           st == IF Top.events # <<>> THEN "deliver"
                 ELSE IF Top.stage = "first" /\ ~proc[p].paused THEN "second" ELSE "act"
           f == [Top EXCEPT !.stage = st]
<1>1. /\ Top.kind = "poll" /\ Top.stage \in {"first", "second"} /\ p \in Children
      /\ UNCHANGED <<proc, asked>>
  BY DEF ReadChild, Polling
<1>2. ch \in Channels
  BY DEF FirstChannel, SecondChannel, Channels
<1>3. CASE Read(p, ch) /\ stack' = WithEvent(Top, ch)
  <2> HIDE DEF ch
  <2> QED BY <1>1, <1>2, <1>3, ReadIInv DEF Reading
<1>4. CASE world[p][ch] = <<>> /\ UNCHANGED world /\ stack' = Becomes(f)
  <2>1. p \in Procs /\ PollOK(world[p], proc[p], Top) /\ Top.events = <<>>
    BY <1>1, PollTop
  <2>2. st \in {"second", "act"} /\ f \in FrameSet /\ f.kind = "poll" /\ f.p = p
        /\ f.stage = st /\ f.events = <<>> /\ f.turn = Top.turn /\ f.exited = Top.exited
    BY <1>1, <2>1, AtStage
  <2>3. FirstRead(proc[p], f) = FirstChannel(Top) /\ FirstRead(proc[p], Top) = FirstChannel(Top)
    BY <2>2 DEF FirstRead, FirstChannel
  <2>4. world[p]["err"] = world[p].err /\ world[p]["out"] = world[p].out
    BY <2>1, Typed DEF WorldSet
  <2>5. st = "second" => Top.stage = "first"
    BY <2>1
  <2>6. st = "act" => proc[p].paused \/ Top.stage = "second"
    BY <1>1, <2>1
  <2>7. Top.stage = "second" /\ Top.exited => Drained(world[p])
    <3> HAVE Top.stage = "second" /\ Top.exited
    <3>1. world[p][FirstChannel(Top)] = <<>> /\ ~world[p].runs
      BY <2>1, <2>3 DEF PollOK, Reading
    <3>2. world[p][SecondChannel(Top)] = <<>>
      BY <1>4
    <3> QED BY <2>4, <3>1, <3>2 DEF Drained, FirstChannel, SecondChannel
  <2>8. st = "second" => world[p][FirstChannel(Top)] = <<>>
    BY <1>4, <2>5
  <2> HIDE DEF st, f
  <2>9. PollOK(world[p], proc[p], f)
    BY <1>1, <2>1, <2>2, <2>3, <2>6, <2>7, <2>8 DEF PollOK, Reading
  <2>10. FrameOK(proc, f) /\ TopOK(world, proc, f)
    BY <2>1, <2>2, <2>9 DEF FrameOK, TopOK
  <2>11. StackOK(world, proc, Becomes(f))
    BY <1>1, <2>2, <2>10, BecomesOK, SameProcs
  <2> QED BY <1>1, <1>4, <2>11, OnlyStack
<1> QED BY <1>3, <1>4 DEF ReadChild

\* The process is over: its pipes are closed, or every writer is gone.
LEMMA ClosedFacts ==
    ASSUME IInv, NEW p \in Procs, Closed(p)
    PROVE  /\ world' \in [Procs -> WorldSet]
           /\ \A q \in Procs : q # p => world'[q] = world[q]
           /\ Drained(world'[p]) /\ world'[p].stdin = 0
           /\ \A q \in Procs, c \in Channels : Len(world'[q][c]) <= Capacity
           /\ \A c \in Channels : world'[p][c] = <<>>
<1>1. world \in [Procs -> WorldSet] /\ Capacity \in Nat /\ world[p] \in WorldSet
  BY Typed
<1>2. <<>> \in Seq(UnitSet) /\ Len(<<>>) = 0
  BY EmptySeq
<1>3. /\ world' \in [Procs -> WorldSet]
      /\ \A q \in Procs : q # p => world'[q] = world[q]
      /\ world'[p].runs = FALSE /\ world'[p].stdin = 0
      /\ world'[p].out = <<>> /\ world'[p].err = <<>>
      /\ world'[p]["out"] = <<>> /\ world'[p]["err"] = <<>>
  <2> DEFINE w == [world[p] EXCEPT !.runs = FALSE, !.owes = FALSE, !.stdin = 0,
                                   !.out = <<>>, !.err = <<>>]
  <2>1. world' = [world EXCEPT ![p] = w]
    BY <1>1 DEF Closed, WorldSet
  <2>2. /\ w.runs = FALSE /\ w.stdin = 0 /\ w.out = <<>> /\ w.err = <<>>
    BY <1>1 DEF WorldSet
  <2>3. w["out"] = <<>> /\ w["err"] = <<>>
    BY <1>1 DEF WorldSet
  <2>4. 0 \in 0 .. Capacity /\ FALSE \in BOOLEAN
    BY <1>1
  <2>5. w \in WorldSet
    BY <1>1, <1>2, <2>4 DEF WorldSet
  <2> HIDE DEF w
  <2> QED BY <1>1, <2>1, <2>2, <2>3, <2>5
<1>4. \A c \in Channels : world'[p][c] = <<>>
  BY <1>3 DEF Channels
<1>5. \A q \in Procs, c \in Channels : Len(world'[q][c]) <= Capacity
  BY <1>1, <1>2, <1>3, <1>4, Typed
<1> QED BY <1>3, <1>4, <1>5 DEF Drained

\* A process record that is replaced.
LEMMA OneProc ==
    ASSUME IInv, NEW p \in Procs, NEW r \in ProcSet, proc' = [proc EXCEPT ![p] = r],
           Ended(proc[p]) => Ended(r) /\ (proc[p].held = <<>> => r.held = <<>>)
    PROVE  /\ proc' \in [Procs -> ProcSet] /\ proc'[p] = r
           /\ \A q \in Procs : q # p => proc'[q] = proc[q]
           /\ EndsLast(proc, proc')
BY Typed DEF EndsLast

LEMMA NoneAsked == <<>> = [k \in 1 .. 0 |-> k]
OBVIOUS

LEMMA ActOnExitIInv ==
    ASSUME IInv, ActOnExit
    PROVE  IInv'
<1> DEFINE p == Top.p
           r == [proc[p] EXCEPT !.status = "exit", !.input = FALSE, !.pending = <<>>]
           f == [Top EXCEPT !.stage = "finish"]
<1>1. Top.kind = "poll" /\ Top.stage = "act" /\ p \in Procs /\ Top.kind # "top"
      /\ PollOK(world[p], proc[p], Top) /\ Top.events = <<>>
  BY PollTop DEF ActOnExit, Polling
<1>2. CASE stack' = Returned /\ UNCHANGED <<world, proc, asked>>
  BY <1>1, <1>2, ReturnedOK, SameProcs, OnlyStack
<1>3. CASE /\ Closed(p) /\ stack' = Becomes(f)
           /\ proc' = [proc EXCEPT ![p].status = "exit", ![p].input = FALSE,
                                   ![p].pending = <<>>]
           /\ asked' = [asked EXCEPT ![p] = 0]
  <2>1. proc \in [Procs -> ProcSet] /\ asked \in [Procs -> 0 .. Queued] /\ Queued \in Nat
        /\ proc[p] \in ProcSet /\ ProcOK(world[p], proc[p], asked[p], p)
    BY <1>1, Typed
  <2>2. <<>> \in Seq(1 .. Queued)
    BY EmptySeq
  <2>3. /\ r \in ProcSet /\ r.status = "exit" /\ r.input = FALSE /\ r.pending = <<>>
        /\ r.held = proc[p].held /\ r.dead = proc[p].dead /\ r.reported = proc[p].reported
    BY <2>1, <2>2 DEF ProcSet
  <2>4. proc' = [proc EXCEPT ![p] = r]
    BY <1>3, <2>1 DEF ProcSet
  <2>5. Ended(r) /\ ~r.reported
    BY <1>1, <2>3 DEF Ended, PollOK, Reading
  <2>6. /\ proc' \in [Procs -> ProcSet] /\ proc'[p] = r
        /\ \A q \in Procs : q # p => proc'[q] = proc[q]
        /\ EndsLast(proc, proc')
    <3> HIDE DEF r
    <3> QED BY <1>1, <2>3, <2>4, <2>5, OneProc
  <2>7. /\ world' \in [Procs -> WorldSet]
        /\ \A q \in Procs : q # p => world'[q] = world[q]
        /\ Drained(world'[p])
        /\ \A q \in Procs, c \in Channels : Len(world'[q][c]) <= Capacity
    BY <1>1, <1>3, ClosedFacts
  <2>8. asked' \in [Procs -> 0 .. Queued] /\ asked'[p] = 0
        /\ \A q \in Procs : q # p => asked'[q] = asked[q]
    BY <1>1, <1>3, <2>1
  <2> HIDE DEF r
  <2>9. ProcOK(world'[p], proc'[p], asked'[p], p)
    BY <2>1, <2>3, <2>5, <2>6, <2>7, <2>8, NoneAsked DEF ProcOK, Drained
  <2>10. \A q \in Procs : ProcOK(world'[q], proc'[q], asked'[q], q)
    BY <2>6, <2>7, <2>8, <2>9, Typed
  <2>11. /\ f \in FrameSet /\ f.kind = "poll" /\ f.p = p /\ f.stage = "finish"
         /\ f.events = <<>>
    BY <1>1, AtStage
  <2> HIDE DEF f
  <2>12. FrameOK(proc', f) /\ TopOK(world', proc', f)
    BY <1>1, <2>5, <2>6, <2>11 DEF FrameOK, TopOK, PollOK, Reading
  <2>13. StackOK(world', proc', stack')
    BY <1>1, <1>3, <2>6, <2>11, <2>12, BecomesOK
  <2> QED BY <2>6, <2>7, <2>8, <2>10, <2>13, Assembled
<1> QED BY <1>2, <1>3 DEF ActOnExit

LEMMA ReadPipeIInv ==
    ASSUME IInv, ReadPipe
    PROVE  IInv'
<1> DEFINE p == Top.p
           r == [proc[p] EXCEPT !.status = "closed"]
           f == [Top EXCEPT !.stage = "finish"]
<1>1. Top.kind = "poll" /\ Top.stage = "first" /\ p \in Procs /\ Top.kind # "top"
      /\ PollOK(world[p], proc[p], Top) /\ Top.events = <<>> /\ p \in Pipes
      /\ UNCHANGED asked
  BY PollTop DEF ReadPipe, Polling
<1>2. CASE stack' = Returned /\ UNCHANGED <<world, proc, asked>>
  BY <1>1, <1>2, ReturnedOK, SameProcs, OnlyStack
<1>3. CASE Read(p, "out") /\ stack' = WithEvent(Top, "out") /\ UNCHANGED proc
  BY <1>1, <1>3, ReadIInv DEF Reading, Channels
<1>4. CASE /\ world[p].out = <<>> /\ UNCHANGED world /\ ~world[p].runs
           /\ proc' = [proc EXCEPT ![p].status = "closed"] /\ stack' = Becomes(f)
  <2>1. proc \in [Procs -> ProcSet] /\ asked \in [Procs -> 0 .. Queued]
        /\ proc[p] \in ProcSet /\ ProcOK(world[p], proc[p], asked[p], p)
        /\ world \in [Procs -> WorldSet]
        /\ \A q \in Procs, c \in Channels : Len(world[q][c]) <= Capacity
    BY <1>1, Typed
  <2>2. /\ r \in ProcSet /\ r.status = "closed" /\ r.input = proc[p].input
        /\ r.pending = proc[p].pending /\ r.held = proc[p].held /\ r.dead = proc[p].dead
        /\ r.reported = proc[p].reported
    BY <2>1 DEF ProcSet
  <2>3. proc' = [proc EXCEPT ![p] = r]
    BY <1>4, <2>1 DEF ProcSet
  <2>4. Ended(r) /\ ~r.reported
    BY <1>1, <2>2 DEF Ended, PollOK, Reading
  <2> HIDE DEF r
  <2>5. /\ proc' \in [Procs -> ProcSet] /\ proc'[p] = r
        /\ \A q \in Procs : q # p => proc'[q] = proc[q]
        /\ EndsLast(proc, proc')
    BY <1>1, <2>2, <2>3, <2>4, OneProc
  <2>6. Drained(world[p])
    <3>1. p \notin Split
      BY <1>1, ProcAssumption
    <3> QED BY <1>4, <2>1, <3>1 DEF Drained, ProcOK
  <2>7. ProcOK(world[p], proc'[p], asked[p], p)
    BY <2>1, <2>2, <2>5, <2>4, <2>6 DEF ProcOK
  <2>8. \A q \in Procs : ProcOK(world'[q], proc'[q], asked'[q], q)
    BY <1>1, <1>4, <2>5, <2>7, Typed
  <2>9. /\ f \in FrameSet /\ f.kind = "poll" /\ f.p = p /\ f.stage = "finish"
        /\ f.events = <<>>
    BY <1>1, AtStage
  <2> HIDE DEF f
  <2>10. FrameOK(proc', f) /\ TopOK(world', proc', f)
    BY <1>1, <2>4, <2>5, <2>9 DEF FrameOK, TopOK, PollOK, Reading
  <2>11. StackOK(world', proc', stack')
    BY <1>1, <1>4, <2>5, <2>9, <2>10, BecomesOK
  <2> QED BY <1>1, <1>4, <2>1, <2>5, <2>8, <2>11, Assembled
<1> QED BY <1>1, <1>2, <1>3, <1>4 DEF ReadPipe

\* The decoder is filled or emptied.
LEMMA HeldFacts ==
    ASSUME IInv, NEW p \in Procs, NEW h \in Seq(UnitSet),
           proc' = [proc EXCEPT ![p].held = h], Ended(proc[p]) => h = <<>>,
           UNCHANGED <<world, asked>>
    PROVE  /\ proc' \in [Procs -> ProcSet] /\ EndsLast(proc, proc')
           /\ \A q \in Procs : ProcOK(world'[q], proc'[q], asked'[q], q)
           /\ \A q \in Procs : /\ proc'[q].status = proc[q].status
                               /\ proc'[q].reported = proc[q].reported
                               /\ proc'[q].paused = proc[q].paused
                               /\ proc'[q].dead = proc[q].dead
                               /\ q # p => proc'[q] = proc[q]
           /\ proc'[p].held = h
<1> DEFINE r == [proc[p] EXCEPT !.held = h]
<1>1. proc \in [Procs -> ProcSet] /\ proc[p] \in ProcSet
      /\ \A q \in Procs : ProcOK(world[q], proc[q], asked[q], q)
  BY Typed
<1>2. /\ r \in ProcSet /\ r.status = proc[p].status /\ r.input = proc[p].input
      /\ r.pending = proc[p].pending /\ r.held = h /\ r.dead = proc[p].dead
      /\ r.reported = proc[p].reported /\ r.paused = proc[p].paused
  BY <1>1 DEF ProcSet
<1>3. proc' = [proc EXCEPT ![p] = r]
  BY <1>1 DEF ProcSet
<1> HIDE DEF r
<1>4. /\ proc' \in [Procs -> ProcSet] /\ proc'[p] = r
      /\ \A q \in Procs : q # p => proc'[q] = proc[q]
      /\ EndsLast(proc, proc')
  BY <1>2, <1>3, OneProc DEF Ended
<1>5. ProcOK(world[p], r, asked[p], p)
  BY <1>1, <1>2 DEF ProcOK, Ended
<1> QED BY <1>1, <1>2, <1>4, <1>5

\* The one event of a poll that delivers.
LEMMA EventFacts ==
    ASSUME IInv, Polling("deliver")
    PROVE  LET e == Head(Top.events) IN
           /\ Top.kind = "poll" /\ Top.kind # "top" /\ Top.p \in Procs
           /\ Top.stage = "deliver" /\ PollOK(world[Top.p], proc[Top.p], Top)
           /\ Top.events = <<e>> /\ Tail(Top.events) = <<>>
           /\ e \in [ch : Channels, unit : UnitSet]
           /\ proc[Top.p].held \in Seq(UnitSet) /\ ~Ended(proc[Top.p])
<1>1. Top.kind = "poll" /\ Top.stage = "deliver" /\ Top.p \in Procs /\ Top.kind # "top"
      /\ PollOK(world[Top.p], proc[Top.p], Top)
  BY PollTop DEF Polling
<1>2. Top.events \in Seq([ch : Channels, unit : UnitSet]) /\ Len(Top.events) = 1
  BY <1>1, TopFacts DEF FrameSet, PollOK
<1>3. Top.events # <<>>
  BY <1>2
<1>4. Head(Top.events) \in [ch : Channels, unit : UnitSet]
      /\ Head(Top.events) = Top.events[1]
  <2>1. Head(Top.events) \in [ch : Channels, unit : UnitSet]
    BY <1>2, <1>3, HeadTailProperties
  <2>2. \A S : \A s \in Seq(S) : s # <<>> => Head(s) = s[1]
    OBVIOUS
  <2> QED BY <1>2, <1>3, <2>1, <2>2
<1>5. Top.events = <<Head(Top.events)>>
  <2>1. <<Head(Top.events)>> \in Seq([ch : Channels, unit : UnitSet])
        /\ Len(<<Head(Top.events)>>) = 1
    BY <1>4
  <2>2. \A i \in 1 .. Len(Top.events) : Top.events[i] = <<Head(Top.events)>>[i]
    BY <1>2, <1>4
  <2> QED BY <1>2, <2>1, <2>2, SeqEqual
<1>6. Tail(Top.events) = <<>>
  <2>1. Tail(Top.events) \in Seq([ch : Channels, unit : UnitSet]) /\ Len(Tail(Top.events)) = 0
    BY <1>2, <1>3, HeadTailProperties
  <2> QED BY <2>1, EmptySeq
<1>7. proc[Top.p].held \in Seq(UnitSet)
  BY <1>1, Typed DEF ProcSet
<1> QED BY <1>1, <1>4, <1>5, <1>6, <1>7 DEF PollOK

\* After its events a poll starts again or is over.
LEMMA NextTurnFacts ==
    ASSUME IInv, Polling("deliver")
    PROVE  LET left == [Top EXCEPT !.events = Tail(@),
                                   !.main = @ \/ Head(Top.events).ch = "out"]
               f == NextTurn(left)
           IN  /\ left.events = <<>>
               /\ f \in FrameSet /\ f.kind = "poll" /\ f.p = Top.p /\ f.events = <<>>
               /\ f.stage \in {"start", "over"}
<1> DEFINE left == [Top EXCEPT !.events = Tail(@), !.main = @ \/ Head(Top.events).ch = "out"]
<1>1. Top \in FrameSet /\ Top.kind = "poll" /\ Tail(Top.events) = <<>>
  BY EventFacts, TopFacts
<1>2. (Top.main \/ Head(Top.events).ch = "out") \in BOOLEAN
  BY <1>1 DEF FrameSet
<1>3. <<>> \in Seq([ch : Channels, unit : UnitSet])
  BY EmptySeq
<1>4. left \in FrameSet /\ left.kind = "poll" /\ left.p = Top.p /\ left.events = <<>>
  BY <1>1, <1>2, <1>3 DEF FrameSet
<1> HIDE DEF left
<1>5. left.turn \in 0 .. Turns - 1 /\ Turns \in Nat \ {0}
  BY <1>4, Typed DEF FrameSet
<1>6. CASE left.turn + 1 < Turns
  <2>1. left.turn + 1 \in 0 .. Turns - 1
    BY <1>5, <1>6
  <2>2. NextTurn(left) = [left EXCEPT !.turn = left.turn + 1, !.stage = "start", !.exited = FALSE]
    BY <1>6 DEF NextTurn
  <2>3. NextTurn(left) \in FrameSet
    BY <1>4, <2>1, <2>2 DEF FrameSet
  <2>4. /\ NextTurn(left).kind = "poll" /\ NextTurn(left).p = Top.p
        /\ NextTurn(left).events = <<>> /\ NextTurn(left).stage = "start"
    BY <1>4, <2>2 DEF FrameSet
  <2> QED BY <1>4, <2>3, <2>4 DEF left
<1>7. CASE ~(left.turn + 1 < Turns)
  <2>1. NextTurn(left) = [left EXCEPT !.stage = "over", !.exited = FALSE]
    BY <1>7 DEF NextTurn
  <2>2. NextTurn(left) \in FrameSet /\ NextTurn(left).kind = "poll"
        /\ NextTurn(left).p = Top.p /\ NextTurn(left).events = <<>>
        /\ NextTurn(left).stage = "over"
    BY <1>4, <2>1 DEF FrameSet
  <2> QED BY <1>4, <2>2 DEF left
<1> QED BY <1>6, <1>7

\* What deliver_output does, in the terms of the proofs.
LEMMA DeliverIs ==
    ASSUME IInv, Deliver
    PROVE  \E f \in FrameSet, h \in Seq(UnitSet) :
             LET p == Top.p
                 u == Head(Top.events).unit
             IN
             /\ f.kind = "poll" /\ f.p = p /\ f.events = <<>> /\ f.stage \in {"start", "over"}
             /\ proc' = [proc EXCEPT ![p].held = h]
             /\ UNCHANGED <<world, asked>>
             /\ \/ u.form = "part" /\ h = Append(proc[p].held, u) /\ stack' = Becomes(f)
                \/ /\ u.form # "part" /\ h = <<>>
                   /\ stack' = IF proc[p].paused THEN Becomes(f)
                               ELSE Calls(f, Callback("filter", p))
<1> DEFINE p == Top.p
           e == Head(Top.events)
           left == [Top EXCEPT !.events = Tail(@), !.main = @ \/ e.ch = "out"]
           f == NextTurn(left)
           h == IF e.unit.form = "part" THEN Append(proc[p].held, e.unit) ELSE <<>>
<1>1. Polling("deliver")
  BY DEF Deliver
<1>2. /\ left.events = <<>> /\ f \in FrameSet /\ f.kind = "poll" /\ f.p = p
      /\ f.events = <<>> /\ f.stage \in {"start", "over"}
  BY <1>1, NextTurnFacts
<1>3. h \in Seq(UnitSet)
  <2>1. e.unit \in UnitSet /\ proc[p].held \in Seq(UnitSet)
    BY <1>1, EventFacts
  <2> HIDE DEF e
  <2> QED BY <2>1, AppendProperties, EmptySeq
<1>4. /\ IF e.unit.form = "part"
         THEN /\ proc' = [proc EXCEPT ![p].held = Append(@, e.unit)]
              /\ stack' = Becomes(f)
         ELSE /\ proc' = [proc EXCEPT ![p].held = <<>>]
              /\ stack' = IF proc[p].paused
                          THEN Becomes(f) ELSE Calls(f, Callback("filter", p))
      /\ UNCHANGED <<world, asked>>
  BY <1>2 DEF Deliver
<1> HIDE DEF f, e
<1>5. proc' = [proc EXCEPT ![p].held = h]
  <2>1. proc \in [Procs -> ProcSet] /\ p \in Procs
    BY <1>1, Typed, EventFacts
  <2> QED BY <1>4, <2>1 DEF ProcSet
<1>6. /\ f.kind = "poll" /\ f.p = p /\ f.events = <<>> /\ f.stage \in {"start", "over"}
      /\ \/ e.unit.form = "part" /\ h = Append(proc[p].held, e.unit) /\ stack' = Becomes(f)
         \/ /\ e.unit.form # "part" /\ h = <<>>
            /\ stack' = IF proc[p].paused THEN Becomes(f)
                        ELSE Calls(f, Callback("filter", p))
  BY <1>2, <1>4
<1> HIDE DEF h
<1> QED BY <1>2, <1>3, <1>4, <1>5, <1>6 DEF e

\* A frame that starts or is over knows nothing of its process.
LEMMA RestingOK ==
    ASSUME NEW f \in FrameSet, f.events = <<>>, f.stage \in {"start", "over"},
           f.kind \notin {"top", "all"} => f.p \in Procs, NEW wo, NEW pr
    PROVE  FrameOK(pr, f) /\ TopOK(wo, pr, f) /\ Below(f)
BY DEF FrameOK, TopOK, PollOK, Below, Reading

LEMMA DeliverIInv ==
    ASSUME IInv, Deliver
    PROVE  IInv'
<1>1. Top.kind = "poll" /\ Top.p \in Procs /\ ~Ended(proc[Top.p])
  BY EventFacts DEF Deliver
<1>2. PICK f \in FrameSet, h \in Seq(UnitSet) :
             /\ f.kind = "poll" /\ f.p = Top.p /\ f.events = <<>> /\ f.stage \in {"start", "over"}
             /\ proc' = [proc EXCEPT ![Top.p].held = h]
             /\ UNCHANGED <<world, asked>>
             /\ \/ stack' = Becomes(f)
                \/ stack' = Calls(f, Callback("filter", Top.p))
  BY DeliverIs
<1>3. /\ proc' \in [Procs -> ProcSet] /\ EndsLast(proc, proc')
      /\ \A q \in Procs : ProcOK(world'[q], proc'[q], asked'[q], q)
  BY <1>1, <1>2, HeldFacts
<1>4. FrameOK(proc', f) /\ TopOK(world', proc', f) /\ Below(f)
  BY <1>1, <1>2, RestingOK
<1>5. Starting(Callback("filter", Top.p))
  BY <1>1, NewFrames
<1>6. StackOK(world', proc', stack')
  BY <1>1, <1>2, <1>3, <1>4, <1>5, BecomesOK, CallsOK
<1> QED BY <1>2, <1>3, <1>6, Typed, Assembled

LEMMA FlushIInv ==
    ASSUME IInv, FlushDecoder
    PROVE  IInv'
<1> DEFINE p == Top.p
           f == [Top EXCEPT !.stage = "exit"]
<1>1. Top.kind = "poll" /\ Top.stage = "finish" /\ p \in Procs /\ Top.events = <<>>
      /\ Ended(proc[p])
  BY PollTop DEF FlushDecoder, Polling, PollOK
<1>2. /\ proc' \in [Procs -> ProcSet] /\ EndsLast(proc, proc')
      /\ \A q \in Procs : ProcOK(world'[q], proc'[q], asked'[q], q)
      /\ proc'[p].held = <<>> /\ proc'[p].status = proc[p].status
  <2>1. <<>> \in Seq(UnitSet)
    BY EmptySeq
  <2> QED BY <1>1, <2>1, HeldFacts DEF FlushDecoder
<1>3. /\ f \in FrameSet /\ f.kind = "poll" /\ f.p = p /\ f.stage = "exit" /\ f.events = <<>>
  BY <1>1, AtStage
<1>4. stack' = Becomes(f) \/ stack' = Calls(f, Callback("filter", p))
  BY DEF FlushDecoder
<1> HIDE DEF f
<1>5. FrameOK(proc', f) /\ TopOK(world', proc', f) /\ Below(f)
  BY <1>1, <1>2, <1>3 DEF FrameOK, TopOK, PollOK, Below, Ended, Reading
<1>6. Starting(Callback("filter", p))
  BY <1>1, NewFrames
<1>7. StackOK(world', proc', stack')
  BY <1>1, <1>2, <1>3, <1>4, <1>5, <1>6, BecomesOK, CallsOK
<1> QED BY <1>2, <1>7, Typed, Assembled DEF FlushDecoder

\* The news is told: only reported and listed change.
LEMMA ReportFacts ==
    ASSUME IInv, NEW p \in Procs, Ended(proc[p]),
           \E removed \in Removes : proc' = Report(p, removed),
           UNCHANGED <<world, asked>>
    PROVE  /\ proc' \in [Procs -> ProcSet] /\ EndsLast(proc, proc')
           /\ \A q \in Procs : ProcOK(world'[q], proc'[q], asked'[q], q)
           /\ \A q \in Procs : /\ proc'[q].status = proc[q].status
                               /\ proc'[q].paused = proc[q].paused
                               /\ proc'[q].dead = proc[q].dead
                               /\ proc'[q].held = proc[q].held
                               /\ proc'[q].reported = (proc[q].reported \/ q = p)
<1>0. PICK removed \in Removes : proc' = Report(p, removed)
  OBVIOUS
<1> DEFINE r == [proc[p] EXCEPT !.listed = proc[p].listed /\ ~removed, !.reported = TRUE]
<1>1. proc \in [Procs -> ProcSet] /\ proc[p] \in ProcSet
      /\ \A q \in Procs : ProcOK(world[q], proc[q], asked[q], q)
      /\ \A z \in Procs : proc[z].reported \in BOOLEAN
  BY Typed DEF ProcSet
<1>2. /\ r \in ProcSet /\ r.status = proc[p].status /\ r.input = proc[p].input
      /\ r.pending = proc[p].pending /\ r.held = proc[p].held /\ r.dead = proc[p].dead
      /\ r.reported = TRUE /\ r.paused = proc[p].paused
  BY <1>1 DEF ProcSet
<1>3. proc' = [proc EXCEPT ![p] = r]
  BY <1>0, <1>1 DEF ProcSet, Report
<1> HIDE DEF r
<1>4. /\ proc' \in [Procs -> ProcSet] /\ proc'[p] = r
      /\ \A q \in Procs : q # p => proc'[q] = proc[q]
      /\ EndsLast(proc, proc')
  BY <1>2, <1>3, OneProc DEF Ended
<1>5. ProcOK(world[p], r, asked[p], p)
  BY <1>1, <1>2 DEF ProcOK, Ended
<1>6. \A q \in Procs : ProcOK(world'[q], proc'[q], asked'[q], q)
  BY <1>1, <1>4, <1>5
<1>7. ASSUME NEW q \in Procs
      PROVE  /\ proc'[q].status = proc[q].status
             /\ proc'[q].paused = proc[q].paused
             /\ proc'[q].dead = proc[q].dead
             /\ proc'[q].held = proc[q].held
             /\ proc'[q].reported = (proc[q].reported \/ q = p)
  <2>1. CASE q = p
    BY <1>2, <1>4, <2>1
  <2>2. CASE q # p
    BY <1>1, <1>4, <2>2
  <2> QED BY <2>1, <2>2
<1> QED BY <1>4, <1>6, <1>7

LEMMA TellIInv ==
    ASSUME IInv, TellSentinel
    PROVE  IInv'
<1> DEFINE p == Top.p
           f == [Top EXCEPT !.stage = "over"]
<1>1. Top.kind = "poll" /\ Top.stage = "exit" /\ p \in Procs /\ Top.events = <<>>
      /\ Ended(proc[p])
  BY PollTop DEF TellSentinel, Polling
<1>2. /\ proc' \in [Procs -> ProcSet] /\ EndsLast(proc, proc')
      /\ \A q \in Procs : ProcOK(world'[q], proc'[q], asked'[q], q)
  BY <1>1, ReportFacts DEF TellSentinel
<1>3. /\ f \in FrameSet /\ f.kind = "poll" /\ f.p = p /\ f.stage = "over" /\ f.events = <<>>
  BY <1>1, AtStage
<1>4. stack' = Becomes(f) \/ stack' = Calls(f, Callback("sentinel", p))
  BY DEF TellSentinel
<1> HIDE DEF f
<1>5. FrameOK(proc', f) /\ TopOK(world', proc', f) /\ Below(f)
  BY <1>1, <1>3, RestingOK
<1>6. Starting(Callback("sentinel", p))
  BY <1>1, NewFrames
<1>7. StackOK(world', proc', stack')
  BY <1>1, <1>2, <1>3, <1>4, <1>5, <1>6, BecomesOK, CallsOK
<1> QED BY <1>2, <1>7, Typed, Assembled DEF TellSentinel

-----------------------------------------------------------------------------
(* The list of processes.                                                  *)

LEMMA LeastIndex ==
    ASSUME NEW T \in SUBSET Nat, T # {}
    PROVE  \E x \in T : \A y \in T : x <= y
<1> DEFINE R == {ss \in Nat \X Nat : ss[1] < ss[2]}
<1>1. IsWellFoundedOn(R, Nat)
  BY NatLessThanWellFounded DEF OpToRel
<1>2. PICK x \in T : \A y \in T : ~(<<y, x>> \in R)
  BY <1>1, WFMin
<1>3. ASSUME NEW y \in T, y < x PROVE FALSE
  <2>1. <<y, x>> \in Nat \X Nat /\ <<y, x>>[1] < <<y, x>>[2]
    BY <1>3
  <2> QED BY <1>2, <2>1
<1> QED BY <1>3

\* The first of a list is one of it: Order has all processes.
LEMMA FirstIs ==
    ASSUME NEW list \in SUBSET Procs, list # {}
    PROVE  First(list) \in list
<1> DEFINE n == Cardinality(Procs)
           T == {k \in DOMAIN Order : Order[k] \in list}
<1>1. IsFiniteSet(Procs)
  BY ProcAssumption
<1>2. n \in Nat /\ ExistsBijection(1 .. n, Procs)
  BY <1>1, FS_CardinalityType
<1>3. PICK b \in [1 .. n -> Procs] : IsInjective(b)
  BY <1>2 DEF ExistsBijection, Bijection, Injection, IsInjective
<1>4. Order \in [1 .. n -> Procs] /\ IsInjective(Order)
  BY <1>3 DEF Order, SetToSeq
<1>5. Order \in Injection(1 .. n, Procs)
  BY <1>4 DEF Injection, IsInjective
<1>6. Cardinality(1 .. n) = n
  BY <1>2, FS_Interval
<1>7. Order \in Surjection(1 .. n, Procs)
  BY <1>1, <1>5, <1>6, FS_Injection
<1>8. \E k \in 1 .. n : Order[k] \in list
  BY <1>7 DEF Surjection
<1>9. T \in SUBSET Nat /\ T # {}
  BY <1>2, <1>4, <1>8
<1>10. \E x \in T : \A y \in T : x <= y
  <2> HIDE DEF T
  <2> QED BY <1>9, LeastIndex
<1>11. Min(T) \in T
  BY <1>10 DEF Min
<1> QED BY <1>11 DEF First

\* Frames other than polls know nothing.
LEMMA OtherOK ==
    ASSUME NEW f \in FrameSet, f.kind # "poll", f.events = <<>>,
           f.kind \notin {"top", "all"} => f.p \in Procs, NEW wo, NEW pr
    PROVE  FrameOK(pr, f) /\ TopOK(wo, pr, f) /\ Below(f)
BY DEF FrameOK, TopOK, Below

LEMMA OtherTop ==
    ASSUME IInv, Top.kind # "poll"
    PROVE  /\ Top \in FrameSet /\ Top.events = <<>>
           /\ Top.kind \notin {"top", "all"} => Top.p \in Procs
BY TopFacts DEF TopOK, FrameOK

LEMMA PollNextIInv ==
    ASSUME IInv, PollNext
    PROVE  IInv'
<1> DEFINE p == First(Top.todo)
           f == [Top EXCEPT !.todo = @ \ {p}]
<1>1. Top.kind = "all" /\ UNCHANGED <<world, proc, asked>>
  BY DEF PollNext
<1>2. CASE stack' = Returned
  BY <1>1, <1>2, ReturnedOK, SameProcs, OnlyStack
<1>3. CASE Top.todo # {} /\ (stack' = Becomes(f) \/ stack' = Calls(f, Frame("poll", p)))
  <2>1. Top \in FrameSet /\ Top.events = <<>> /\ Top.todo \in SUBSET Procs
    BY <1>1, OtherTop DEF FrameSet
  <2>2. p \in Procs
    BY <1>3, <2>1, FirstIs
  <2>3. f \in FrameSet /\ f.kind = "all" /\ f.events = <<>>
    BY <1>1, <2>1 DEF FrameSet
  <2> HIDE DEF f, p
  <2>4. FrameOK(proc, f) /\ TopOK(world, proc, f) /\ Below(f)
    BY <2>3, OtherOK
  <2>5. Starting(Frame("poll", p))
    BY <2>2, NewFrames
  <2>6. StackOK(world, proc, stack')
    BY <1>1, <1>3, <2>3, <2>4, <2>5, SameProcs, BecomesOK, CallsOK
  <2> QED BY <1>1, <2>6, OnlyStack
<1> QED BY <1>2, <1>3 DEF PollNext

LEMMA PollIInv ==
    ASSUME IInv, Poll
    PROVE  IInv'
<1>1. CASE PollOver
  <2>1. Top.kind # "top" /\ UNCHANGED <<world, proc, asked>> /\ stack' = Returned
    BY <1>1 DEF PollOver, Polling
  <2> QED BY <2>1, ReturnedOK, SameProcs, OnlyStack
<1> QED BY <1>1, PollStartIInv, ReadChildIInv, ActOnExitIInv, ReadPipeIInv, DeliverIInv,
           FlushIInv, TellIInv, PollNextIInv DEF Poll

-----------------------------------------------------------------------------
(* Waits, sends and Lisp keep it.                                          *)

LEMMA WaitIInv ==
    ASSUME IInv, Wait
    PROVE  IInv'
<1>1. Top.kind = "wait" /\ Top.kind # "top" /\ UNCHANGED <<world, proc, asked>>
  BY DEF Wait, WaitPoll, WaitOthers, WaitDecide, WaitIn
<1>2. Top \in FrameSet /\ Top.events = <<>> /\ Top.p \in Procs
  BY <1>1, OtherTop
<1>3. Starting(Frame("poll", Top.p)) /\ Starting(PollAll(Top.p))
  BY <1>2, NewFrames
<1>4. ASSUME NEW f \in FrameSet, f.kind = "wait", f.p = Top.p, f.events = <<>>,
             \/ stack' = Becomes(f) \/ stack' = Calls(f, Frame("poll", Top.p))
             \/ stack' = Calls(f, PollAll(Top.p))
      PROVE  IInv'
  <2>1. FrameOK(proc, f) /\ TopOK(world, proc, f) /\ Below(f)
    BY <1>2, <1>4, OtherOK
  <2>2. StackOK(world, proc, stack')
    BY <1>1, <1>3, <1>4, <2>1, SameProcs, BecomesOK, CallsOK
  <2> QED BY <1>1, <2>2, OnlyStack
<1>5. CASE WaitPoll
  <2> DEFINE f == [Top EXCEPT !.stage = "others", !.main = FALSE, !.timed = @ \/ ~Alive(Top.p)]
  <2>1. (Top.timed \/ ~Alive(Top.p)) \in BOOLEAN
    BY <1>2 DEF FrameSet
  <2>2. f \in FrameSet /\ f.kind = "wait" /\ f.p = Top.p /\ f.events = <<>>
    BY <1>1, <1>2, <2>1 DEF FrameSet
  <2>3. stack' = Calls(f, Frame("poll", Top.p))
    BY <1>5 DEF WaitPoll
  <2> QED BY <1>4, <2>2, <2>3
<1>6. CASE WaitOthers
  <2> DEFINE f == [Top EXCEPT !.stage = "decide"]
  <2>1. f \in FrameSet /\ f.kind = "wait" /\ f.p = Top.p /\ f.events = <<>>
    BY <1>1, <1>2, AtStage
  <2>2. stack' = Becomes(f) \/ stack' = Calls(f, PollAll(Top.p))
    BY <1>6 DEF WaitOthers
  <2> QED BY <1>4, <2>1, <2>2
<1>7. CASE WaitDecide
  <2> DEFINE f == [Top EXCEPT !.stage = "start"]
  <2>1. f \in FrameSet /\ f.kind = "wait" /\ f.p = Top.p /\ f.events = <<>>
    BY <1>1, <1>2, AtStage
  <2>2. CASE stack' = Returned
    BY <1>1, <2>2, ReturnedOK, SameProcs, OnlyStack
  <2>3. stack' = Returned \/ stack' = Becomes(f)
    BY <1>7 DEF WaitDecide
  <2> QED BY <1>4, <2>1, <2>2, <2>3
<1> QED BY <1>5, <1>6, <1>7 DEF Wait

\* The queue of input.
LEMMA QueueFacts ==
    ASSUME NEW n \in Nat
    PROVE  LET queue == [k \in 1 .. n |-> k] IN
           /\ \A m \in Nat : n <= m => queue \in Seq(1 .. m)
           /\ Append(queue, n + 1) = [k \in 1 .. n + 1 |-> k]
           /\ queue = <<>> <=> n = 0
           /\ n > 0 => Head(queue) = 1 /\ Written(queue) = [k \in 1 .. n - 1 |-> k]
<1> DEFINE queue == [k \in 1 .. n |-> k]
<1>1. queue \in Seq(Nat) /\ Len(queue) = n /\ DOMAIN queue = 1 .. n
      /\ \A k \in 1 .. n : queue[k] = k
  OBVIOUS
<1>2. \A m \in Nat : n <= m => queue \in Seq(1 .. m)
  OBVIOUS
<1>3. Append(queue, n + 1) = [k \in 1 .. n + 1 |-> k]
  <2>1. Append(queue, n + 1) \in Seq(Nat) /\ Len(Append(queue, n + 1)) = n + 1
        /\ \A i \in 1 .. n : Append(queue, n + 1)[i] = i
        /\ Append(queue, n + 1)[n + 1] = n + 1
    <3> HIDE DEF queue
    <3>1. n + 1 \in Nat
      OBVIOUS
    <3> QED BY <1>1, <3>1, AppendProperties
  <2>2. [k \in 1 .. n + 1 |-> k] \in Seq(Nat) /\ Len([k \in 1 .. n + 1 |-> k]) = n + 1
        /\ \A i \in 1 .. n + 1 : [k \in 1 .. n + 1 |-> k][i] = i
    OBVIOUS
  <2>3. \A i \in 1 .. n + 1 : Append(queue, n + 1)[i] = [k \in 1 .. n + 1 |-> k][i]
    <3> TAKE i \in 1 .. n + 1
    <3>1. i = n + 1 \/ i \in 1 .. n
      OBVIOUS
    <3> HIDE DEF queue
    <3> QED BY <2>1, <2>2, <3>1
  <2> HIDE DEF queue
  <2> QED BY <2>1, <2>2, <2>3, SeqEqual
<1> HIDE DEF queue
<1>4. queue = <<>> <=> n = 0
  BY <1>1, EmptySeq
<1>5. ASSUME n > 0
      PROVE  Head(queue) = 1 /\ Written(queue) = [k \in 1 .. n - 1 |-> k]
  <2>1. queue # <<>>
    BY <1>4, <1>5
  <2>2. Head(queue) = 1
    BY <1>1, <1>5, <2>1
  <2>3. /\ Tail(queue) \in Seq(Nat) /\ Len(Tail(queue)) = n - 1
        /\ \A i \in 1 .. n - 1 : Tail(queue)[i] = i + 1
    BY <1>1, <2>1, HeadTailProperties
  <2>4. DOMAIN Tail(queue) = 1 .. n - 1
    BY <2>3, LenProperties
  <2>5. ASSUME NEW k \in 1 .. n - 1
        PROVE  Tail(queue)[k] > Head(queue) /\ Tail(queue)[k] - 1 = k
    <3>1. Tail(queue)[k] = k + 1
      BY <2>3, Zenon
    <3>2. k \in Nat /\ k >= 1
      OBVIOUS
    <3>3. \A j \in Nat : j >= 1 => j + 1 > 1 /\ (j + 1) - 1 = j
      OBVIOUS
    <3> QED BY <2>2, <3>1, <3>2, <3>3, Zenon
  <2> QED BY <2>2, <2>4, <2>5 DEF Written
<1> QED BY <1>2, <1>3, <1>4, <1>5 DEF queue

\* The input of a process and what was sent to it change.
LEMMA InputFacts ==
    ASSUME IInv, NEW p \in Procs, NEW n \in 0 .. Queued, NEW open \in BOOLEAN,
           proc' = [proc EXCEPT ![p].pending = [k \in 1 .. n |-> k], ![p].input = open],
           asked' = [asked EXCEPT ![p] = n], ~open => n = 0
    PROVE  /\ proc' \in [Procs -> ProcSet] /\ EndsLast(proc, proc')
           /\ asked' \in [Procs -> 0 .. Queued]
           /\ \A w \in [Procs -> WorldSet], q \in Procs :
                /\ ProcOK(world[q], proc[q], asked[q], q)
                /\ w[q].runs = world[q].runs /\ w[q].out = world[q].out
                /\ w[q].err = world[q].err
                => ProcOK(w[q], proc'[q], asked'[q], q)
           /\ \A q \in Procs : /\ proc'[q].status = proc[q].status
                               /\ proc'[q].reported = proc[q].reported
                               /\ proc'[q].paused = proc[q].paused
                               /\ proc'[q].dead = proc[q].dead
                               /\ proc'[q].held = proc[q].held
                               /\ q # p => proc'[q] = proc[q] /\ asked'[q] = asked[q]
           /\ proc'[p].input = open /\ asked'[p] = n
<1> DEFINE queue == [k \in 1 .. n |-> k]
           r == [proc[p] EXCEPT !.pending = queue, !.input = open]
<1>1. proc \in [Procs -> ProcSet] /\ proc[p] \in ProcSet
      /\ asked \in [Procs -> 0 .. Queued] /\ Queued \in Nat
      /\ \A q \in Procs : ProcOK(world[q], proc[q], asked[q], q)
  BY Typed
<1>2. queue \in Seq(1 .. Queued)
  BY <1>1, QueueFacts, SMTT(30)
<1> HIDE DEF queue
<1>3. /\ r \in ProcSet /\ r.status = proc[p].status /\ r.input = open
      /\ r.pending = queue /\ r.held = proc[p].held /\ r.dead = proc[p].dead
      /\ r.reported = proc[p].reported /\ r.paused = proc[p].paused
  BY <1>1, <1>2 DEF ProcSet
<1>4. proc' = [proc EXCEPT ![p] = r]
  BY <1>1 DEF ProcSet, queue
<1> HIDE DEF r
<1>5. /\ proc' \in [Procs -> ProcSet] /\ proc'[p] = r
      /\ \A q \in Procs : q # p => proc'[q] = proc[q]
      /\ EndsLast(proc, proc')
  BY <1>3, <1>4, OneProc DEF Ended
<1>6. asked' \in [Procs -> 0 .. Queued] /\ asked'[p] = n
      /\ \A q \in Procs : q # p => asked'[q] = asked[q]
  BY <1>1
<1>7. ASSUME NEW w \in [Procs -> WorldSet], NEW q \in Procs,
             ProcOK(world[q], proc[q], asked[q], q),
             w[q].runs = world[q].runs /\ w[q].out = world[q].out /\ w[q].err = world[q].err
      PROVE  ProcOK(w[q], proc'[q], asked'[q], q)
  <2>1. CASE q = p
    <3>1. r.pending = [k \in 1 .. n |-> k]
      BY <1>3 DEF queue
    <3> QED BY <1>3, <1>5, <1>6, <1>7, <2>1, <3>1 DEF ProcOK, Ended, Drained
  <2>2. CASE q # p
    BY <1>5, <1>6, <1>7, <2>2 DEF ProcOK, Drained
  <2> QED BY <2>1, <2>2
<1>8. ASSUME NEW q \in Procs
      PROVE  /\ proc'[q].status = proc[q].status
             /\ proc'[q].reported = proc[q].reported
             /\ proc'[q].paused = proc[q].paused
             /\ proc'[q].dead = proc[q].dead
             /\ proc'[q].held = proc[q].held
             /\ q # p => proc'[q] = proc[q] /\ asked'[q] = asked[q]
  BY <1>3, <1>5, <1>6
<1> QED BY <1>3, <1>5, <1>6, <1>7, <1>8

\* Lisp has done something that calls on nothing else.
LEMMA LispTop ==
    ASSUME IInv, Top.kind \in InLisp
    PROVE  LET f == [Top EXCEPT !.left = 0] IN
           /\ f \in FrameSet /\ f.kind = Top.kind
           /\ \A wo, pr : FrameOK(pr, f) /\ TopOK(wo, pr, f) /\ Below(f)
<1> DEFINE f == [Top EXCEPT !.left = 0]
<1>1. Top \in FrameSet /\ Top.events = <<>> /\ Top.kind # "poll"
      /\ (Top.kind \notin {"top", "all"} => Top.p \in Procs)
  BY OtherTop DEF InLisp
<1>2. f \in FrameSet /\ f.kind = Top.kind /\ f.p = Top.p /\ f.events = <<>>
  BY <1>1 DEF FrameSet
<1> HIDE DEF f
<1>3. \A wo, pr : FrameOK(pr, f) /\ TopOK(wo, pr, f) /\ Below(f)
  BY <1>1, <1>2, OtherOK
<1> QED BY <1>2, <1>3 DEF f

LEMMA LispCalls ==
    ASSUME IInv, Top.kind \in InLisp, NEW g, Starting(g), NEW wo2, NEW pr2,
           EndsLast(proc, pr2)
    PROVE  /\ StackOK(wo2, pr2, Calls([Top EXCEPT !.left = 0], g))
           /\ StackOK(wo2, pr2, Becomes([Top EXCEPT !.left = 0]))
BY LispTop, CallsOK, BecomesOK

LEMMA SendIInv ==
    ASSUME IInv, NEW p \in Procs, Send(p)
    PROVE  IInv'
<1> DEFINE f == [Top EXCEPT !.left = 0]
<1>1. Top.kind \in InLisp /\ p \in Children
  BY DEF Send, Runs, SendString, SendEof, CanSend
<1>2. Starting(Frame("send", p)) /\ Starting(Frame("eof", p))
  BY NewFrames
<1>3. CASE UNCHANGED <<world, proc, asked>>
           /\ \/ stack' = Becomes(f) \/ stack' = Calls(f, Frame("eof", p))
  BY <1>1, <1>2, <1>3, LispCalls, SameProcs, OnlyStack
<1>4. CASE /\ asked[p] < Queued /\ proc[p].input /\ UNCHANGED world
           /\ proc' = [proc EXCEPT ![p].pending = Enqueue(@, asked[p] + 1)]
           /\ asked' = [asked EXCEPT ![p] = @ + 1]
           /\ stack' = Calls(f, Frame("send", p))
  <2>1. proc \in [Procs -> ProcSet] /\ asked[p] \in 0 .. Queued /\ Queued \in Nat
        /\ ProcOK(world[p], proc[p], asked[p], p) /\ proc[p].input = TRUE
        /\ world \in [Procs -> WorldSet] /\ asked \in [Procs -> 0 .. Queued]
        /\ \A q \in Procs, c \in Channels : Len(world[q][c]) <= Capacity
    BY <1>4, Typed DEF ProcSet
  <2>2. Enqueue(proc[p].pending, asked[p] + 1) = [k \in 1 .. asked[p] + 1 |-> k]
    BY <2>1, QueueFacts DEF ProcOK, Enqueue
  <2>3. proc' = [proc EXCEPT ![p].pending = [k \in 1 .. asked[p] + 1 |-> k], ![p].input = TRUE]
    BY <1>4, <2>1, <2>2 DEF ProcSet
  <2>4. asked[p] + 1 \in 0 .. Queued /\ asked' = [asked EXCEPT ![p] = asked[p] + 1]
    BY <1>4, <2>1
  <2>5. /\ proc' \in [Procs -> ProcSet] /\ EndsLast(proc, proc')
        /\ asked' \in [Procs -> 0 .. Queued]
        /\ \A q \in Procs : ProcOK(world[q], proc[q], asked[q], q)
                            => ProcOK(world[q], proc'[q], asked'[q], q)
    BY <2>1, <2>3, <2>4, InputFacts
  <2>6. StackOK(world', proc', stack')
    BY <1>1, <1>2, <1>4, <2>5, LispCalls
  <2> QED BY <1>4, <2>1, <2>5, <2>6, Typed, Assembled
<1> QED BY <1>3, <1>4 DEF Send, SendString, SendEof, SendUnit

\* A send that writes, has nothing to write, fails or is quit.
LEMMA InputDoneIs ==
    ASSUME IInv, Sending, NEW n \in Nat,
           InputDone(Top.p, [k \in 1 .. n |-> k]), CanSend(Top.p), proc[Top.p].input \/ n = 0
    PROVE  /\ \E open \in BOOLEAN :
                /\ proc' = [proc EXCEPT ![Top.p].pending = [k \in 1 .. n |-> k],
                                        ![Top.p].input = open]
                /\ ~open => n = 0
                /\ open => proc[Top.p].input
           /\ stack' = Returned \/ stack' = stack
<1> DEFINE p == Top.p
           queue == [k \in 1 .. n |-> k]
           open == proc[p].input /\ (Top.kind = "send" \/ queue # <<>>)
<1>1. p \in Procs /\ proc \in [Procs -> ProcSet]
  <2>1. p \in Procs
    BY ProcAssumption DEF CanSend, Procs
  <2> QED BY <2>1, Typed
<1>2. proc[p].input \in BOOLEAN
  BY <1>1 DEF ProcSet
<1>3. open \in BOOLEAN
  BY <1>2
<1>4. queue = <<>> <=> n = 0
  BY QueueFacts
<1>5. ~open => n = 0
  BY <1>4
<1>6. proc' = [proc EXCEPT ![p].pending = queue, ![p].input = open]
  BY <1>1 DEF InputDone, ProcSet
<1>7. stack' = Returned \/ stack' = stack
  BY DEF InputDone
<1> QED BY <1>3, <1>5, <1>6, <1>7

\* The activations stay as they are.
LEMMA StackKept ==
    ASSUME IInv, NEW wo2, NEW pr2, EndsLast(proc, pr2), TopOK(wo2, pr2, Top)
    PROVE  StackOK(wo2, pr2, stack)
<1>1. StackOK(world, proc, stack) /\ Top = stack[Len(stack)] /\ stack \in Seq(FrameSet)
  BY TopFacts
<1>2. \A k \in 1 .. Len(stack) : stack[k] \in FrameSet
  BY <1>1, ElementOfSeq
<1>3. \A k \in 1 .. Len(stack) : FrameOK(pr2, stack[k]) /\ (k < Len(stack) => Below(stack[k]))
  BY <1>1, <1>2, FrameKept DEF StackOK
<1> QED BY <1>1, <1>3 DEF StackOK

LEMMA SendLoopIInv ==
    ASSUME IInv, SendLoop
    PROVE  IInv'
<1> DEFINE p == Top.p
           n == asked[p]
<1>1. Top.kind \in {"send", "eof"}
  BY DEF SendLoop, WriteInput, InputFull, NothingToWrite, SendFails, Sending
<1>2. Top \in FrameSet /\ Top.events = <<>> /\ p \in Procs /\ Top.kind \notin {"top", "poll"}
  BY <1>1, OtherTop
<1>3. /\ world \in [Procs -> WorldSet] /\ world[p] \in WorldSet
      /\ n \in 0 .. Queued /\ Queued \in Nat /\ Capacity \in Nat
      /\ proc[p].pending = [k \in 1 .. n |-> k]
      /\ ~proc[p].input => n = 0
      /\ \A q \in Procs : ProcOK(world[q], proc[q], asked[q], q)
      /\ \A q \in Procs, c \in Channels : Len(world[q][c]) <= Capacity
      /\ asked \in [Procs -> 0 .. Queued]
  BY <1>2, Typed DEF ProcOK
<1>4. \A wo, pr : TopOK(wo, pr, Top) /\ FrameOK(pr, Top) /\ Below(Top)
  BY <1>2, OtherOK
<1>5. ASSUME NEW m \in 0 .. Queued, NEW open \in BOOLEAN,
             proc' = [proc EXCEPT ![p].pending = [k \in 1 .. m |-> k], ![p].input = open],
             asked' = [asked EXCEPT ![p] = m], ~open => m = 0,
             stack' = Returned \/ stack' = stack,
             world' \in [Procs -> WorldSet],
             \A q \in Procs, c \in Channels : Len(world'[q][c]) <= Capacity,
             \A q \in Procs : /\ world'[q].runs = world[q].runs
                              /\ world'[q].out = world[q].out /\ world'[q].err = world[q].err
      PROVE  IInv'
  <2>1. /\ proc' \in [Procs -> ProcSet] /\ EndsLast(proc, proc')
        /\ asked' \in [Procs -> 0 .. Queued]
        /\ \A w \in [Procs -> WorldSet], q \in Procs :
             /\ ProcOK(world[q], proc[q], asked[q], q)
             /\ w[q].runs = world[q].runs /\ w[q].out = world[q].out
             /\ w[q].err = world[q].err
             => ProcOK(w[q], proc'[q], asked'[q], q)
    BY <1>2, <1>5, InputFacts
  <2>2. \A q \in Procs : ProcOK(world'[q], proc'[q], asked'[q], q)
    BY <1>3, <1>5, <2>1
  <2>3. StackOK(world', proc', stack')
    BY <1>2, <1>4, <1>5, <2>1, ReturnedOK, StackKept
  <2> QED BY <1>5, <2>1, <2>2, <2>3, Assembled
<1>6. CASE WriteInput
  <2>1. n > 0 /\ CanSend(p) /\ proc[p].input
    <3>1. proc[p].pending # <<>> /\ CanSend(p) /\ proc[p].input
      BY <1>6 DEF WriteInput, CanWrite
    <3>2. proc[p].pending = <<>> <=> n = 0
      BY <1>3, QueueFacts
    <3> QED BY <1>3, <3>1, <3>2
  <2>2. Written(proc[p].pending) = [k \in 1 .. n - 1 |-> k]
    <3>1. n \in Nat /\ n > 0 /\ proc[p].pending = [k \in 1 .. n |-> k]
      BY <1>3, <2>1
    <3> HIDE DEF n
    <3>2. Written([k \in 1 .. n |-> k]) = [k \in 1 .. n - 1 |-> k]
      BY <3>1, QueueFacts
    <3> QED BY <3>1, <3>2
  <2>3. Sending /\ InputDone(p, [k \in 1 .. n - 1 |-> k])
    BY <1>6, <2>2 DEF WriteInput
  <2>4. n - 1 \in 0 .. Queued /\ n - 1 \in Nat
    BY <1>3, <2>1
  <2>5. /\ \E open \in BOOLEAN :
             /\ proc' = [proc EXCEPT ![p].pending = [k \in 1 .. n - 1 |-> k],
                                     ![p].input = open]
             /\ ~open => n - 1 = 0
        /\ stack' = Returned \/ stack' = stack
    <3> HIDE DEF n
    <3> QED BY <2>1, <2>3, <2>4, InputDoneIs
  <2>6. asked' = [asked EXCEPT ![p] = n - 1]
    BY <1>6 DEF WriteInput
  <2>7. /\ world' \in [Procs -> WorldSet]
        /\ \A q \in Procs : /\ world'[q].runs = world[q].runs
                            /\ world'[q].out = world[q].out /\ world'[q].err = world[q].err
                            /\ \A c \in Channels : world'[q][c] = world[q][c]
    <3>1. world' = [world EXCEPT ![p].stdin = @ + 1] /\ world[p].stdin < Capacity
      BY <1>6 DEF WriteInput
    <3>2. world[p].stdin \in 0 .. Capacity
      BY <1>3 DEF WorldSet
    <3>3. world[p].stdin + 1 \in 0 .. Capacity
      BY <1>3, <3>1, <3>2
    <3> QED BY <1>2, <1>3, <3>1, <3>3 DEF WorldSet, Channels
  <2>8. \A q \in Procs, c \in Channels : Len(world'[q][c]) <= Capacity
    BY <1>3, <2>7
  <2> HIDE DEF n
  <2> QED BY <1>5, <2>4, <2>5, <2>6, <2>7, <2>8
<1>7. CASE InputFull
  <2>1. stack' = Calls(Top, PollAll(NoProc)) /\ UNCHANGED <<world, proc, asked>>
    BY <1>7 DEF InputFull, PumpOutput
  <2>2. Starting(PollAll(NoProc))
    BY <1>2, NewFrames
  <2> QED BY <1>2, <1>4, <2>1, <2>2, CallsOK, SameProcs, OnlyStack
<1>8. CASE NothingToWrite
  <2>1. Sending /\ CanSend(p) /\ ~CanWrite(p) /\ InputDone(p, <<>>) /\ UNCHANGED <<world, asked>>
    BY <1>8 DEF NothingToWrite
  <2>2. n = 0
    <3>1. proc[p].pending = <<>> <=> n = 0
      BY <1>3, QueueFacts
    <3> QED BY <1>3, <2>1, <3>1 DEF CanWrite
  <2>3. /\ \E open \in BOOLEAN :
             proc' = [proc EXCEPT ![p].pending = [k \in 1 .. 0 |-> k], ![p].input = open]
        /\ stack' = Returned \/ stack' = stack
    BY <2>1, NoneAsked, InputDoneIs
  <2>4. asked' = [asked EXCEPT ![p] = 0]
    BY <1>2, <1>3, <2>1, <2>2
  <2>5. world' = world /\ 0 \in 0 .. Queued
    BY <1>3, <2>1
  <2> HIDE DEF n
  <2>6. PICK open \in BOOLEAN :
           proc' = [proc EXCEPT ![p].pending = [k \in 1 .. 0 |-> k], ![p].input = open]
    BY <2>3
  <2> QED BY <1>3, <1>5, <2>3, <2>4, <2>5, <2>6
<1>9. CASE SendFails
  <2>1. stack' = Returned /\ UNCHANGED <<world, proc, asked>>
    BY <1>9 DEF SendFails
  <2> QED BY <1>2, <2>1, ReturnedOK, SameProcs, OnlyStack
<1> QED BY <1>6, <1>7, <1>8, <1>9 DEF SendLoop

LEMMA QuitSendIInv ==
    ASSUME IInv, QuitSend
    PROVE  IInv'
<1>1. /\ Top.kind # "top" /\ UNCHANGED <<world, proc, asked>>
      /\ stack' = SubSeq(stack, 1, 1)
  BY DEF QuitSend, Sending
<1>2. 1 \in 1 .. Len(stack) - 1 /\ StackOK(world, proc, stack)
  BY <1>1, TopFacts
<1> QED BY <1>1, <1>2, CutOK, SameProcs, OnlyStack

\* delete-process.
LEMMA DeleteFacts ==
    ASSUME IInv, NEW p \in Procs, Delete(p)
    PROVE  /\ proc' \in [Procs -> ProcSet] /\ EndsLast(proc, proc')
           /\ asked' \in [Procs -> 0 .. Queued]
           /\ \A q \in Procs : ProcOK(world'[q], proc'[q], asked'[q], q)
           /\ world' \in [Procs -> WorldSet]
           /\ \A q \in Procs, c \in Channels : Len(world'[q][c]) <= Capacity
           /\ \A q \in Procs : q # p => /\ proc'[q] = proc[q] /\ world'[q] = world[q]
                                        /\ asked'[q] = asked[q]
           /\ proc'[p].dead /\ proc'[p].reported /\ proc'[p].held = proc[p].held
           /\ Ended(proc'[p]) /\ world'[p].stdin = 0
           /\ \A c \in Channels : world'[p][c] = <<>>
<1> DEFINE st == IF p \in Pipes THEN "closed" ELSE IF Alive(p) THEN "signal" ELSE proc[p].status
           r == [proc[p] EXCEPT !.dead = TRUE, !.pending = <<>>, !.input = FALSE,
                                !.listed = FALSE, !.reported = TRUE, !.status = st]
<1>1. /\ world' \in [Procs -> WorldSet]
      /\ \A q \in Procs : q # p => world'[q] = world[q]
      /\ Drained(world'[p]) /\ world'[p].stdin = 0
      /\ \A q \in Procs, c \in Channels : Len(world'[q][c]) <= Capacity
      /\ \A c \in Channels : world'[p][c] = <<>>
  BY ClosedFacts DEF Delete
<1>2. /\ proc \in [Procs -> ProcSet] /\ proc[p] \in ProcSet
      /\ asked \in [Procs -> 0 .. Queued] /\ Queued \in Nat
      /\ \A q \in Procs : ProcOK(world[q], proc[q], asked[q], q)
  BY Typed
<1>3. st \in {"exit", "signal", "closed"}
  BY <1>2 DEF Alive, ProcSet
<1>4. proc' = [proc EXCEPT ![p] = r]
  <2>1. proc' = [proc EXCEPT ![p].dead = TRUE, ![p].pending = <<>>, ![p].input = FALSE,
                             ![p].listed = FALSE, ![p].reported = TRUE,
                             ![p].status = st]
    BY <1>2 DEF Delete, ProcSet
  <2> HIDE DEF st
  <2> QED BY <1>2, <2>1 DEF ProcSet
<1> HIDE DEF st
<1>5. /\ r.status = st /\ r.input = FALSE
      /\ r.pending = <<>> /\ r.held = proc[p].held /\ r.dead = TRUE
      /\ r.reported = TRUE /\ r.paused = proc[p].paused
  BY <1>2 DEF ProcSet
<1>6. r \in ProcSet
  <2>1. <<>> \in Seq(1 .. Queued) /\ st \in {"run", "open", "exit", "signal", "closed"}
        /\ TRUE \in BOOLEAN /\ FALSE \in BOOLEAN
    BY <1>3, EmptySeq
  <2> QED BY <1>2, <2>1 DEF ProcSet
<1> HIDE DEF r
<1>7. Ended(r)
  BY <1>3, <1>5 DEF Ended
<1>8. /\ proc' \in [Procs -> ProcSet] /\ proc'[p] = r
      /\ \A q \in Procs : q # p => proc'[q] = proc[q]
      /\ EndsLast(proc, proc')
  BY <1>4, <1>5, <1>6, <1>7, OneProc
<1>9. asked' \in [Procs -> 0 .. Queued] /\ asked'[p] = 0
      /\ \A q \in Procs : q # p => asked'[q] = asked[q]
  BY <1>2 DEF Delete
<1>10. ProcOK(world'[p], r, 0, p)
  BY <1>1, <1>5, <1>7, NoneAsked DEF ProcOK, Drained
<1>11. \A q \in Procs : ProcOK(world'[q], proc'[q], asked'[q], q)
  BY <1>1, <1>2, <1>8, <1>9, <1>10
<1> QED BY <1>1, <1>5, <1>7, <1>8, <1>9, <1>11

\* set-process-filter.
LEMMA SetFilterFacts ==
    ASSUME IInv, NEW p \in Procs, SetFilter(p)
    PROVE  /\ proc' \in [Procs -> ProcSet] /\ EndsLast(proc, proc')
           /\ \A q \in Procs : ProcOK(world[q], proc'[q], asked[q], q)
           /\ \A q \in Procs : q # p => proc'[q] = proc[q]
           /\ proc'[p].dead = proc[p].dead /\ proc'[p].reported = proc[p].reported
           /\ proc'[p].held = proc[p].held /\ proc'[p].input = proc[p].input
           /\ proc'[p].status = proc[p].status
<1> DEFINE r == [proc[p] EXCEPT !.paused = ~@]
<1>1. proc \in [Procs -> ProcSet] /\ proc[p] \in ProcSet
      /\ \A q \in Procs : ProcOK(world[q], proc[q], asked[q], q)
  BY Typed
<1>2. (~proc[p].paused) \in BOOLEAN
  OBVIOUS
<1>3. /\ r.status = proc[p].status /\ r.input = proc[p].input /\ r.pending = proc[p].pending
      /\ r.held = proc[p].held /\ r.dead = proc[p].dead /\ r.reported = proc[p].reported
  BY <1>1 DEF ProcSet
<1>4. r \in ProcSet
  BY <1>1, <1>2 DEF ProcSet
<1>5. proc' = [proc EXCEPT ![p] = r]
  BY <1>1 DEF ProcSet, SetFilter
<1> HIDE DEF r
<1>6. /\ proc' \in [Procs -> ProcSet] /\ proc'[p] = r
      /\ \A q \in Procs : q # p => proc'[q] = proc[q]
      /\ EndsLast(proc, proc')
  BY <1>3, <1>4, <1>5, OneProc DEF Ended
<1>7. ProcOK(world[p], r, asked[p], p)
  BY <1>1, <1>3 DEF ProcOK, Ended
<1> QED BY <1>1, <1>3, <1>6, <1>7

LEMMA LispIInv ==
    ASSUME IInv, Lisp
    PROVE  IInv'
<1>1. CASE Idle
  <2> DEFINE f == [Top EXCEPT !.left = 1]
  <2>1. Top.kind = "top" /\ stack' = Calls(f, PollAll(NoProc)) /\ UNCHANGED <<world, proc, asked>>
    BY <1>1 DEF Idle, Runs
  <2>2. Top \in FrameSet /\ Top.events = <<>>
    BY <2>1, OtherTop
  <2>3. f \in FrameSet /\ f.kind = "top" /\ f.events = <<>>
    BY <2>1, <2>2 DEF FrameSet
  <2>4. Starting(PollAll(NoProc))
    <3>1. Listed \ {NoProc} \in SUBSET Procs /\ Starting(Frame("all", NoProc))
      BY NewFrame DEF Listed, Starting
    <3> QED BY <3>1, StartsWith DEF PollAll
  <2> HIDE DEF f
  <2>5. FrameOK(proc, f) /\ TopOK(world, proc, f) /\ Below(f)
    BY <2>3, OtherOK
  <2> QED BY <2>1, <2>3, <2>4, <2>5, CallsOK, SameProcs, OnlyStack
<1>2. CASE AcceptAny
  <2>1. /\ Top.kind \in InLisp /\ UNCHANGED <<world, proc, asked>>
        /\ stack' = Calls([Top EXCEPT !.left = 0], PollAll(NoProc))
        /\ Top.kind \in {"filter", "sentinel"}
    BY <1>2 DEF AcceptAny, Runs, InLisp
  <2>2. Top.p \in Procs
    BY <2>1, OtherTop
  <2>3. Starting(PollAll(NoProc))
    BY <2>2, NewFrames
  <2> QED BY <2>1, <2>3, LispCalls, SameProcs, OnlyStack
<1>3. CASE CallbackReturns
  <2>1. Top.kind # "top" /\ UNCHANGED <<world, proc, asked>> /\ stack' = Returned
    BY <1>3 DEF CallbackReturns, Runs
  <2> QED BY <2>1, ReturnedOK, SameProcs, OnlyStack
<1>4. CASE Throw
  <2>1. PICK k \in 1 .. Len(stack) - 1 : stack' = SubSeq(stack, 1, k)
    BY <1>4 DEF Throw
  <2>2. UNCHANGED <<world, proc, asked>> /\ StackOK(world, proc, stack)
    BY <1>4, TopFacts DEF Throw
  <2> QED BY <2>1, <2>2, CutOK, SameProcs, OnlyStack
<1>5. ASSUME NEW p \in Kept, Send(p) \/ SetFilter(p) \/ Delete(p)
      PROVE  IInv'
  <2>1. p \in Procs
    BY DEF Kept
  <2>2. CASE Send(p)
    BY <2>1, <2>2, SendIInv
  <2>3. CASE SetFilter(p)
    <3>1. /\ Top.kind \in InLisp /\ UNCHANGED <<world, asked>>
          /\ stack' = Becomes([Top EXCEPT !.left = 0])
      BY <2>3 DEF SetFilter, Runs
    <3>2. /\ proc' \in [Procs -> ProcSet] /\ EndsLast(proc, proc')
          /\ \A q \in Procs : ProcOK(world[q], proc'[q], asked[q], q)
      BY <2>1, <2>3, SetFilterFacts
    <3>3. Starting(Frame("poll", p))
      BY <2>1, NewFrames
    <3>4. StackOK(world', proc', stack')
      BY <3>1, <3>2, <3>3, LispCalls
    <3> QED BY <3>1, <3>2, <3>4, Typed, Assembled
  <2>4. CASE Delete(p)
    <3>1. /\ Top.kind \in InLisp
          /\ \/ stack' = Becomes([Top EXCEPT !.left = 0])
             \/ stack' = Calls([Top EXCEPT !.left = 0], Callback("sentinel", p))
      BY <2>4 DEF Delete, Runs
    <3>2. Starting(Callback("sentinel", p))
      BY <2>1, NewFrames
    <3>3. EndsLast(proc, proc')
      BY <2>1, <2>4, DeleteFacts
    <3>4. StackOK(world', proc', stack')
      BY <3>1, <3>2, <3>3, LispCalls
    <3> QED BY <2>1, <2>4, <3>4, DeleteFacts, Assembled
  <2> QED BY <1>5, <2>2, <2>3, <2>4
<1>6. ASSUME NEW p \in Kept, NEW only \in JustThis, NEW timed \in TimeLimit,
             Accept(p, only, timed)
      PROVE  IInv'
  <2>1. p \in Procs /\ only \in BOOLEAN /\ timed \in BOOLEAN
    BY ProcAssumption DEF Kept
  <2> DEFINE g == [Frame("wait", p) EXCEPT !.only = only, !.timed = timed]
  <2>2. Starting(g)
    BY <2>1, NewFrames
  <2>3. /\ Top.kind \in InLisp /\ UNCHANGED <<world, proc, asked>>
        /\ stack' = Calls([Top EXCEPT !.left = 0], g)
    BY <1>6 DEF Accept, Runs
  <2> HIDE DEF g
  <2> QED BY <2>2, <2>3, LispCalls, SameProcs, OnlyStack
<1> QED BY <1>1, <1>2, <1>3, <1>4, <1>5, <1>6 DEF Lisp

-----------------------------------------------------------------------------
(* The programs keep it.                                                   *)

LEMMA WaitingType ==
    ASSUME IInv, NEW p \in Procs, NEW ch \in Channels
    PROVE  /\ proc[p].held \in Seq(UnitSet) /\ world[p][ch] \in Seq(UnitSet)
           /\ InFlight(p, ch) \in Seq(UnitSet)
           /\ (IF ch = "out" THEN proc[p].held ELSE <<>>) \in Seq(UnitSet)
           /\ Waiting(p, ch) \in Seq(UnitSet)
<1>1. proc[p].held \in Seq(UnitSet) /\ world[p][ch] \in Seq(UnitSet)
  BY Typed DEF ProcSet, WorldSet, Channels
<1>2. <<>> \in Seq(UnitSet)
  BY EmptySeq
<1>3. InFlight(p, ch) \in Seq(UnitSet)
  <2>1. Top.events \in Seq([ch : Channels, unit : UnitSet])
    BY TopFacts DEF FrameSet
  <2>2. Top.events # <<>> => Head(Top.events) \in [ch : Channels, unit : UnitSet]
    BY <2>1, HeadTailProperties
  <2>3. Top.events # <<>> => <<Head(Top.events).unit>> \in Seq(UnitSet)
    BY <2>2
  <2> QED BY <1>2, <2>3 DEF InFlight
<1>4. (IF ch = "out" THEN proc[p].held ELSE <<>>) \in Seq(UnitSet)
  BY <1>1, <1>2
<1> QED BY <1>1, <1>3, <1>4, ConcatProperties DEF Waiting

\* There is a number for the next unit: one of the first numbers is free.
LEMMA UnitType ==
    ASSUME IInv, NEW p \in Procs, NEW ch \in Channels, NEW form \in {"whole", "part"}
    PROVE  Unit(p, ch, form) \in UnitSet /\ Unit(p, ch, form).form = form
<1> DEFINE W == Waiting(p, ch)
           L == Len(W)
           Free(n) == \A u \in Range(W) : u.id # n
           T == {n \in 1 .. L + 1 : Free(n)}
           Is(n) == Free(n) /\ \A m \in 1 .. n - 1 : \E u \in Range(W) : u.id = m
<1>1. W \in Seq(UnitSet)
  BY WaitingType
<1>2. L \in Nat /\ Range(W) = {W[i] : i \in 1 .. L}
  BY <1>1, RangeEquality, LenProperties
<1> HIDE DEF W
<1>3. ASSUME T = {} PROVE FALSE
  <2> DEFINE f == [n \in 1 .. L + 1 |-> CHOOSE i \in 1 .. L : W[i].id = n]
  <2>1. \A n \in 1 .. L + 1 : \E i \in 1 .. L : W[i].id = n
    BY <1>2, <1>3
  <2>2. \A n \in 1 .. L + 1 : f[n] \in 1 .. L /\ W[f[n]].id = n
    BY <2>1
  <2>3. f \in [1 .. L + 1 -> 1 .. L]
    BY <2>2
  <2> HIDE DEF L, f
  <2>4. /\ IsFiniteSet(1 .. L) /\ Cardinality(1 .. L) = L
        /\ IsFiniteSet(1 .. L + 1) /\ Cardinality(1 .. L + 1) = L + 1
    BY <1>2, FS_Interval
  <2>5. \E x, y \in 1 .. L + 1 : x # y /\ f[x] = f[y]
    BY <1>2, <2>3, <2>4, FS_PigeonHole, SMTT(30)
  <2> QED BY <2>2, <2>5
<1>4. PICK n \in T : \A m \in T : n <= m
  <2>1. T \in SUBSET Nat
    BY <1>2
  <2> HIDE DEF T
  <2> QED BY <1>3, <2>1, LeastIndex
<1>5. Is(n) /\ n \in 1 .. L + 1
  BY <1>2, <1>4
<1> DEFINE id == CHOOSE m \in 1 .. L + 1 : Is(m)
<1>6. id \in 1 .. L + 1
  <2> HIDE DEF Is, L
  <2> QED BY <1>5
<1>7. Unit(p, ch, form) = [id |-> id, form |-> form]
  BY DEF Unit, W
<1> HIDE DEF id
<1>8. id \in Nat \ {0}
  BY <1>2, <1>6
<1> QED BY <1>7, <1>8 DEF UnitSet

\* A program writes a unit into a pipe that has room.
LEMMA WriteFacts ==
    ASSUME IInv, NEW p \in Procs, NEW ch \in Channels, NEW u \in UnitSet, NEW owes \in BOOLEAN,
           Len(world[p][ch]) < Capacity,
           world' = [world EXCEPT ![p][ch] = Append(@, u), ![p].owes = owes]
    PROVE  /\ world' \in [Procs -> WorldSet]
           /\ \A q \in Procs : q # p => world'[q] = world[q]
           /\ world'[p].runs = world[p].runs /\ world'[p].stdin = world[p].stdin
           /\ world'[p][ch] = Append(world[p][ch], u)
           /\ \A c \in Channels : c # ch => world'[p][c] = world[p][c]
           /\ \A q \in Procs, c \in Channels : Len(world'[q][c]) <= Capacity
<1> DEFINE v == Append(world[p][ch], u)
           w == [world[p] EXCEPT ![ch] = v, !.owes = owes]
<1>1. world \in [Procs -> WorldSet] /\ world[p] \in WorldSet /\ Capacity \in Nat
      /\ ch \in {"out", "err"}
  BY Typed DEF Channels
<1>2. world[p][ch] \in Seq(UnitSet)
  BY <1>1 DEF WorldSet
<1>3. v \in Seq(UnitSet) /\ Len(v) = Len(world[p][ch]) + 1 /\ Len(world[p][ch]) \in Nat
  BY <1>2, AppendProperties, LenProperties
<1>4. world' = [world EXCEPT ![p] = w]
  BY <1>1 DEF WorldSet
<1> HIDE DEF v
<1>5. /\ w \in WorldSet /\ w.runs = world[p].runs /\ w.stdin = world[p].stdin
      /\ w[ch] = v /\ \A c \in Channels : c # ch => w[c] = world[p][c]
  BY <1>1, <1>3 DEF WorldSet, Channels
<1> HIDE DEF w
<1>6. \A q \in Procs, c \in Channels : Len(world'[q][c]) <= Capacity
  <2> TAKE q \in Procs, c \in Channels
  <2>1. Len(world[q][c]) <= Capacity
    BY Typed
  <2>2. CASE q = p /\ c = ch
    <3>1. world'[q][c] = v
      BY <1>1, <1>4, <1>5, <2>2
    <3>2. Len(v) <= Capacity
      BY <1>1, <1>3
    <3> QED BY <3>1, <3>2
  <2>3. CASE ~(q = p /\ c = ch)
    BY <1>1, <1>4, <1>5, <2>1, <2>3
  <2> QED BY <2>2, <2>3
<1> QED BY <1>1, <1>4, <1>5, <1>6 DEF v

LEMMA WholeAppend ==
    ASSUME NEW s \in Seq(UnitSet), NEW u \in UnitSet, u.form = "whole",
           \A k \in DOMAIN s : s[k].form = "whole"
    PROVE  \A k \in DOMAIN Append(s, u) : Append(s, u)[k].form = "whole"
<1>1. /\ Append(s, u) \in Seq(UnitSet) /\ Len(Append(s, u)) = Len(s) + 1
      /\ \A k \in 1 .. Len(s) : Append(s, u)[k] = s[k]
      /\ Append(s, u)[Len(s) + 1] = u
  BY AppendProperties
<1>2. DOMAIN s = 1 .. Len(s) /\ Len(s) \in Nat /\ DOMAIN Append(s, u) = 1 .. Len(s) + 1
  BY <1>1, LenProperties
<1> QED BY <1>1, <1>2

\* A program that has not ended takes a step.
LEMMA ProgramIInv ==
    ASSUME IInv, NEW p \in Procs, world[p].runs, UNCHANGED <<proc, stack, asked>>,
           world' \in [Procs -> WorldSet],
           \A q \in Procs : q # p => world'[q] = world[q],
           \A q \in Procs, c \in Channels : Len(world'[q][c]) <= Capacity,
           p \notin Split => world'[p].err = <<>>,
           \A k \in DOMAIN world'[p].err : world'[p].err[k].form = "whole"
    PROVE  IInv'
<1>1. proc \in [Procs -> ProcSet] /\ asked \in [Procs -> 0 .. Queued]
      /\ \A q \in Procs : ProcOK(world[q], proc[q], asked[q], q)
  BY Typed
<1>2. ~Ended(proc[p])
  BY <1>1 DEF ProcOK, Drained
<1>3. \A q \in Procs : ProcOK(world'[q], proc[q], asked[q], q)
  BY <1>1, <1>2, SMTT(30) DEF ProcOK
<1>4. TopOK(world', proc, Top)
  <2>1. TopOK(world, proc, Top)
    BY TopFacts
  <2>2. CASE Top.kind = "poll" /\ Top.p = p
    <3>1. PollOK(world[p], proc[p], Top)
      BY <2>1, <2>2 DEF TopOK
    <3>2. ~(Top.stage \in Reading /\ Top.exited)
      BY <3>1 DEF PollOK
    <3>3. PollOK(world'[p], proc[p], Top)
      BY <3>1, <3>2 DEF PollOK, Reading
    <3> QED BY <2>1, <2>2, <3>3 DEF TopOK
  <2>3. CASE ~(Top.kind = "poll" /\ Top.p = p)
    <3>1. Top.kind = "poll" => Top.p \in Procs
      BY TopFacts DEF FrameOK
    <3> QED BY <2>1, <2>3, <3>1 DEF TopOK
  <2> QED BY <2>2, <2>3
<1>5. StackOK(world', proc, stack)
  BY <1>4, SameProcs, StackKept
<1> QED BY <1>1, <1>3, <1>5, Assembled

\* What a program writes comes after all that waits.
WritesTo(p, ch, u) ==
    /\ world[p].runs /\ u \in UnitSet /\ (u.form = "part" => ch = "out")
    /\ world'[p][ch] = Append(world[p][ch], u)
    /\ \A c \in Channels : c # ch => world'[p][c] = world[p][c]
    /\ \A q \in Procs : q # p => world'[q] = world[q]
    /\ world'[p].stdin = world[p].stdin
    /\ UNCHANGED <<proc, stack, asked>>

LEMMA WriteIs ==
    ASSUME IInv, NEW p \in Procs, NEW ch \in Channels, NEW form \in {"whole", "part"},
           \/ Write(p, ch, form) /\ (form = "part" => ch = "out")
           \/ Echo(p) /\ ch = "out" /\ form = "whole"
    PROVE  WritesTo(p, ch, Unit(p, ch, form)) /\ IInv'
<1> DEFINE u == Unit(p, ch, form)
           owes == IF Write(p, ch, form) THEN world[p].owes ELSE FALSE
<1>1. u \in UnitSet /\ u.form = form
  BY UnitType
<1>2. /\ world[p].runs /\ Len(world[p][ch]) < Capacity /\ UNCHANGED <<proc, stack, asked>>
      /\ ch = "err" => p \in Split
      /\ form = "part" => ch = "out"
  BY DEF Write, Echo
<1>3. world \in [Procs -> WorldSet] /\ world[p] \in WorldSet /\ owes \in BOOLEAN
      /\ ProcOK(world[p], proc[p], asked[p], p) /\ world[p].err \in Seq(UnitSet)
  BY Typed DEF WorldSet
<1> HIDE DEF u
<1>4. world' = [world EXCEPT ![p][ch] = Append(@, u), ![p].owes = owes]
  <2>1. CASE Write(p, ch, form)
    <3>1. world' = [world EXCEPT ![p][ch] = Append(@, u)]
      BY <2>1 DEF Write, u
    <3> QED BY <1>3, <2>1, <3>1 DEF WorldSet, Channels
  <2>2. CASE ~Write(p, ch, form)
    BY <2>2 DEF Echo, u
  <2> QED BY <2>1, <2>2
<1> HIDE DEF owes
<1>5. /\ world' \in [Procs -> WorldSet]
      /\ \A q \in Procs : q # p => world'[q] = world[q]
      /\ world'[p].runs = world[p].runs /\ world'[p].stdin = world[p].stdin
      /\ world'[p][ch] = Append(world[p][ch], u)
      /\ \A c \in Channels : c # ch => world'[p][c] = world[p][c]
      /\ \A q \in Procs, c \in Channels : Len(world'[q][c]) <= Capacity
  BY <1>1, <1>2, <1>3, <1>4, WriteFacts
<1>6. WritesTo(p, ch, u)
  BY <1>1, <1>2, <1>5 DEF WritesTo
<1>7. world[p]["err"] = world[p].err /\ world'[p]["err"] = world'[p].err
  BY <1>3, <1>5 DEF WorldSet
<1>8. /\ p \notin Split => world'[p].err = <<>>
      /\ \A k \in DOMAIN world'[p].err : world'[p].err[k].form = "whole"
  <2>1. CASE ch = "err"
    <3>1. world'[p].err = Append(world[p].err, u) /\ u.form = "whole" /\ p \in Split
      BY <1>1, <1>2, <1>5, <1>7, <2>1
    <3> QED BY <1>1, <1>3, <3>1, WholeAppend DEF ProcOK
  <2>2. CASE ch = "out"
    <3>1. world'[p].err = world[p].err
      BY <1>5, <1>7, <2>2 DEF Channels
    <3> QED BY <1>3, <3>1 DEF ProcOK
  <2> QED BY <2>1, <2>2 DEF Channels
<1>9. IInv'
  BY <1>2, <1>5, <1>8, ProgramIInv
<1> QED BY <1>6, <1>9 DEF u

\* A program reads its input or ends.
Quiet(p) ==
    /\ \A q \in Procs : q # p => world'[q] = world[q]
    /\ world'[p].out = world[p].out /\ world'[p].err = world[p].err
    /\ \A c \in Channels : world'[p][c] = world[p][c]
    /\ world'[p].stdin <= world[p].stdin
    /\ UNCHANGED <<proc, stack, asked>>

LEMMA QuietIs ==
    ASSUME IInv, NEW p \in Procs, ReadInput(p) \/ Finish(p)
    PROVE  Quiet(p) /\ IInv'
<1>1. world \in [Procs -> WorldSet] /\ world[p] \in WorldSet /\ Capacity \in Nat
      /\ ProcOK(world[p], proc[p], asked[p], p) /\ world[p].stdin \in 0 .. Capacity
      /\ \A q \in Procs, c \in Channels : Len(world[q][c]) <= Capacity
  BY Typed DEF WorldSet
<1>2. world[p].runs /\ UNCHANGED <<proc, stack, asked>>
  BY Zenon DEF ReadInput, Finish
<1>3. \E runs, owes \in BOOLEAN, n \in 0 .. Capacity :
        /\ world' = [world EXCEPT ![p].runs = runs, ![p].owes = owes, ![p].stdin = n]
        /\ n <= world[p].stdin
  <2>1. CASE ReadInput(p)
    <3>1. world' = [world EXCEPT ![p].stdin = @ - 1, ![p].owes = TRUE] /\ world[p].stdin > 0
      BY <2>1 DEF ReadInput
    <3>2. world[p].stdin - 1 \in 0 .. Capacity /\ world[p].stdin - 1 <= world[p].stdin
      BY <1>1, <3>1
    <3>3. world' = [world EXCEPT ![p].runs = TRUE, ![p].owes = TRUE,
                                 ![p].stdin = world[p].stdin - 1]
      BY <1>1, <1>2, <3>1 DEF WorldSet
    <3> QED BY <3>2, <3>3
  <2>2. CASE Finish(p)
    <3>1. world' = [world EXCEPT ![p].runs = FALSE, ![p].owes = FALSE, ![p].stdin = 0]
      BY <2>2 DEF Finish
    <3>2. 0 \in 0 .. Capacity /\ 0 <= world[p].stdin
      BY <1>1
    <3> QED BY <3>1, <3>2
  <2> QED BY <2>1, <2>2
<1>4. PICK runs \in BOOLEAN, owes \in BOOLEAN, n \in 0 .. Capacity :
        /\ world' = [world EXCEPT ![p].runs = runs, ![p].owes = owes, ![p].stdin = n]
        /\ n <= world[p].stdin
  BY <1>3
<1>5. /\ world' \in [Procs -> WorldSet]
      /\ \A q \in Procs : q # p => world'[q] = world[q]
      /\ world'[p].out = world[p].out /\ world'[p].err = world[p].err
      /\ \A c \in Channels : world'[p][c] = world[p][c]
      /\ world'[p].stdin = n
  BY <1>1, <1>4 DEF WorldSet, Channels
<1>6. Quiet(p)
  BY <1>2, <1>4, <1>5 DEF Quiet
<1>7. \A q \in Procs, c \in Channels : Len(world'[q][c]) <= Capacity
  BY <1>1, <1>5
<1>8. IInv'
  BY <1>1, <1>2, <1>5, <1>7, ProgramIInv DEF ProcOK
<1> QED BY <1>6, <1>8

LEMMA ProgramsIInv ==
    ASSUME IInv, Programs
    PROVE  IInv'
<1>1. PICK p \in Procs :
        \/ \E form \in {"whole", "part"} : Write(p, "out", form)
        \/ Write(p, "err", "whole")
        \/ ReadInput(p) \/ Echo(p) \/ Finish(p)
  BY DEF Programs
<1>2. "out" \in Channels /\ "err" \in Channels
  BY DEF Channels
<1> QED BY <1>1, <1>2, WriteIs, QuietIs

-----------------------------------------------------------------------------
LEMMA InitIInv == Init => IInv
<1> SUFFICES ASSUME Init PROVE IInv
  OBVIOUS
<1> DEFINE top == [Frame("top", NoProc) EXCEPT !.left = 1]
<1>1. /\ Queued \in Nat /\ Capacity \in Nat /\ <<>> \in Seq(UnitSet)
      /\ <<>> \in Seq(1 .. Queued) /\ Len(<<>>) = 0
  BY ProcAssumption, EmptySeq
<1>2. /\ \A p \in Procs : proc[p] \in Starts(p)
      /\ proc \in [Procs -> UNION {Starts(q) : q \in Procs}]
  BY DEF Init
<1>3. ASSUME NEW p \in Procs
      PROVE  /\ proc[p] \in ProcSet /\ proc[p].pending = <<>>
             /\ proc[p].dead = proc[p].reported
             /\ Ended(proc[p]) <=> proc[p].dead
             /\ proc[p].held = <<>>
  <2>1. (\E input \in BOOLEAN : proc[p] = Fresh(p, input)) \/ proc[p] = Gone(p)
    <3>1. TRUE \in BOOLEAN /\ (p \in Terminals) \in BOOLEAN
      OBVIOUS
    <3>2. proc[p] = Fresh(p, TRUE) \/ proc[p] = Fresh(p, p \in Terminals) \/ proc[p] = Gone(p)
      BY <1>2 DEF Starts
    <3> QED BY <3>1, <3>2, Zenon
  <2>2. \A input \in BOOLEAN :
           /\ Fresh(p, input) \in ProcSet /\ Fresh(p, input).pending = <<>>
           /\ Fresh(p, input).dead = FALSE /\ Fresh(p, input).reported = FALSE
           /\ Fresh(p, input).status \in {"run", "open"} /\ Fresh(p, input).held = <<>>
    BY <1>1 DEF Fresh, ProcSet
  <2>3. /\ Gone(p) \in ProcSet /\ Gone(p).pending = <<>>
        /\ Gone(p).dead = TRUE /\ Gone(p).reported = TRUE
        /\ Gone(p).status = "closed" /\ Gone(p).held = <<>>
    BY <2>2 DEF Gone, ProcSet
  <2> QED BY <2>1, <2>2, <2>3 DEF Ended
<1>4. proc \in [Procs -> ProcSet]
  <2>1. \A p \in Procs : proc[p] \in ProcSet
    BY <1>3
  <2>2. DOMAIN proc = Procs /\ proc = [p \in Procs |-> proc[p]]
    BY <1>2
  <2> QED BY <2>1, <2>2
<1>5. /\ world \in [Procs -> WorldSet]
      /\ \A p \in Procs : /\ world[p].out = <<>> /\ world[p].err = <<>>
                          /\ world[p].runs = ~proc[p].dead
                          /\ \A ch \in Channels : world[p][ch] = <<>>
  <2>1. world = [p \in Procs |-> [runs |-> ~proc[p].dead, out |-> <<>>, err |-> <<>>,
                                  stdin |-> 0, owes |-> FALSE]]
    BY DEF Init
  <2>2. \A p \in Procs : (~proc[p].dead) \in BOOLEAN
    OBVIOUS
  <2>3. ASSUME NEW b \in BOOLEAN
        PROVE  LET w == [runs |-> b, out |-> <<>>, err |-> <<>>, stdin |-> 0, owes |-> FALSE]
               IN  /\ w \in WorldSet /\ w.out = <<>> /\ w.err = <<>> /\ w.runs = b
                   /\ \A ch \in Channels : w[ch] = <<>>
    BY <1>1 DEF WorldSet, Channels
  <2>4. \A p \in Procs :
          /\ world[p] \in WorldSet
          /\ world[p].out = <<>> /\ world[p].err = <<>>
          /\ world[p].runs = ~proc[p].dead
          /\ \A ch \in Channels : world[p][ch] = <<>>
    BY <2>1, <2>2, <2>3
  <2> QED BY <2>1, <2>4
<1>6. asked \in [Procs -> 0 .. Queued] /\ \A p \in Procs : asked[p] = 0
  BY <1>1 DEF Init
<1>7. \A p \in Procs : ProcOK(world[p], proc[p], asked[p], p)
  <2> TAKE p \in Procs
  <2>1. /\ proc[p].pending = <<>> /\ proc[p].dead = proc[p].reported
        /\ Ended(proc[p]) <=> proc[p].dead
        /\ world[p].out = <<>> /\ world[p].err = <<>> /\ world[p].runs = ~proc[p].dead
        /\ asked[p] = 0
    BY <1>3, <1>5, <1>6
  <2>2. \A k \in DOMAIN world[p].err : world[p].err[k].form = "whole"
    BY <2>1
  <2> QED BY <2>1, <2>2, NoneAsked DEF ProcOK, Drained
<1>8. top \in FrameSet /\ top.kind = "top" /\ top.events = <<>>
  <2>1. /\ Frame("top", NoProc) \in FrameSet /\ Frame("top", NoProc).kind = "top"
        /\ Frame("top", NoProc).events = <<>>
    BY NewFrame DEF InLisp
  <2> QED BY <2>1 DEF FrameSet
<1>9. stack = <<top>>
  BY DEF Init
<1> HIDE DEF top
<1>10. /\ stack \in Seq(FrameSet) /\ Len(stack) = 1 /\ stack[1] = top /\ stack # <<>>
  BY <1>8, <1>9
<1>11. FrameOK(proc, top) /\ TopOK(world, proc, top)
  BY <1>8 DEF FrameOK, TopOK
<1>12. StackOK(world, proc, stack)
  BY <1>8, <1>10, <1>11 DEF StackOK, Frames
<1> QED BY <1>1, <1>4, <1>5, <1>6, <1>7, <1>10, <1>8, <1>12
        DEF IInv, TypeOK, WorldSet, ProcSet

LEMMA NextIInv == IInv /\ [Next]_vars => IInv'
<1> SUFFICES ASSUME IInv, [Next]_vars PROVE IInv'
  OBVIOUS
<1>1. CASE UNCHANGED vars
  <2>1. StackOK(world, proc, stack')
    BY <1>1, TopFacts DEF vars
  <2> QED BY <1>1, <2>1, OnlyStack DEF vars
<1> QED BY <1>1, PollIInv, WaitIInv, SendLoopIInv, LispIInv, QuitSendIInv, ProgramsIInv
        DEF Next, Emacs

LEMMA Invariance == Spec => []IInv
BY InitIInv, NextIInv, PTL DEF Spec

\* Processes, pipes, activations and the queue of input keep their types and
\* bounds whatever the callbacks of poll_proc do to the processes.
THEOREM ProcessTypesKept == Spec => []TypeOK
<1>1. IInv => TypeOK
  BY DEF IInv
<1> QED BY <1>1, Invariance, PTL

-----------------------------------------------------------------------------
(* Input reaches the program in the order in which it was sent.            *)

LEMMA WritesHead ==
    ASSUME IInv, WriteInput
    PROVE  Top.p \in Procs /\ Head(proc[Top.p].pending) = 1
<1>1. CanSend(Top.p) /\ proc[Top.p].pending # <<>>
  BY DEF WriteInput, CanWrite
<1>2. Top.p \in Procs
  BY <1>1 DEF CanSend, Procs
<1>3. asked[Top.p] \in 0 .. Queued /\ Queued \in Nat
      /\ proc[Top.p].pending = [k \in 1 .. asked[Top.p] |-> k]
  BY <1>2, Typed DEF ProcOK
<1>4. asked[Top.p] > 0
  BY <1>1, <1>3, QueueFacts
<1> QED BY <1>2, <1>3, <1>4, QueueFacts

LEMMA NoMoreInput ==
    ASSUME IInv, [Next]_vars, ~WriteInput, NEW p \in Procs
    PROVE  world'[p].stdin <= world[p].stdin
<1>1. world \in [Procs -> WorldSet] /\ world[p].stdin \in 0 .. Capacity /\ Capacity \in Nat
      /\ world[p].stdin <= world[p].stdin /\ 0 <= world[p].stdin
  BY Typed DEF WorldSet
<1>2. CASE UNCHANGED world
  BY <1>1, <1>2
<1>3. ASSUME NEW q \in Procs, NEW ch \in Channels, Read(q, ch)
      PROVE  world'[p].stdin <= world[p].stdin
  BY <1>1, <1>3, ReadFacts
<1>4. ASSUME NEW q \in Procs, Closed(q)
      PROVE  world'[p].stdin <= world[p].stdin
  BY <1>1, <1>4, ClosedFacts
<1>5. CASE Poll
  <2>1. CASE ReadChild
    <3> DEFINE ch == IF Top.stage = "first" THEN FirstChannel(Top) ELSE SecondChannel(Top)
    <3>1. Top.p \in Procs /\ ch \in Channels
      BY <2>1 DEF ReadChild, Procs, FirstChannel, SecondChannel, Channels
    <3>2. Read(Top.p, ch) \/ UNCHANGED world
      BY <2>1 DEF ReadChild
    <3> HIDE DEF ch
    <3> QED BY <1>2, <1>3, <3>1, <3>2
  <2>2. CASE ReadPipe
    <3>1. Top.p \in Procs /\ "out" \in Channels
      BY <2>2 DEF ReadPipe, Procs, Channels
    <3> QED BY <1>2, <1>3, <2>2, <3>1 DEF ReadPipe
  <2>3. CASE ActOnExit
    <3>1. Top.p \in Procs
      BY <2>3, PollTop DEF ActOnExit, Polling
    <3> QED BY <1>2, <1>4, <2>3, <3>1 DEF ActOnExit
  <2>4. CASE ~ReadChild /\ ~ReadPipe /\ ~ActOnExit
    BY <1>2, <1>5, <2>4
       DEF Poll, PollStart, Deliver, FlushDecoder, TellSentinel, PollOver, PollNext
  <2> QED BY <2>1, <2>2, <2>3, <2>4
<1>6. CASE Wait \/ SendLoop \/ QuitSend
  BY <1>2, <1>6 DEF Wait, WaitPoll, WaitOthers, WaitDecide, SendLoop, InputFull,
                    NothingToWrite, SendFails, QuitSend
<1>7. CASE Lisp
  <2>1. CASE \E q \in Kept : Delete(q)
    BY <1>4, <2>1 DEF Delete, Kept
  <2>2. CASE ~\E q \in Kept : Delete(q)
    BY <1>2, <1>7, <2>2 DEF Lisp, Idle, AcceptAny, CallbackReturns, Throw, Send, SendString,
                            SendEof, SetFilter, Accept
  <2> QED BY <2>1, <2>2
<1>8. CASE Programs
  <2>1. PICK q \in Procs :
        \/ \E form \in {"whole", "part"} : Write(q, "out", form)
        \/ Write(q, "err", "whole")
        \/ ReadInput(q) \/ Echo(q) \/ Finish(q)
    BY <1>8 DEF Programs
  <2>2. "out" \in Channels /\ "err" \in Channels
    BY DEF Channels
  <2>3. Quiet(q) \/ \E ch \in Channels, u \in UnitSet : WritesTo(q, ch, u)
    BY <2>1, <2>2, WriteIs, QuietIs DEF WritesTo
  <2> QED BY <1>1, <2>3 DEF Quiet, WritesTo
<1> QED BY <1>2, <1>5, <1>6, <1>7, <1>8 DEF Next, Emacs, vars

\* Nested sends share one queue and write it in the order of their calls; the
\* input is closed only when all of it is written (write_child_input).
THEOREM InputIsInOrder == Spec => InputInOrder
<1>1. ASSUME IInv, IInv', [Next]_vars, NEW p \in Procs
      PROVE  /\ world'[p].stdin > world[p].stdin => Head(proc[p].pending) = 1
             /\ proc[p].input /\ ~proc'[p].input /\ Alive(p)' => asked'[p] = 0
  <2>1. ~proc'[p].input => asked'[p] = 0
    BY <1>1 DEF IInv, ProcOK
  <2>2. world[p].stdin \in 0 .. Capacity /\ world'[p].stdin \in 0 .. Capacity
        /\ Capacity \in Nat
    BY <1>1, ProcAssumption DEF IInv, TypeOK
  <2>3. CASE WriteInput
    <3>1. p # Top.p => world'[p].stdin = world[p].stdin
      BY <2>3 DEF WriteInput
    <3> QED BY <1>1, <2>1, <2>2, <2>3, <3>1, WritesHead
  <2>4. CASE ~WriteInput
    BY <1>1, <2>1, <2>2, <2>4, NoMoreInput
  <2> QED BY <2>3, <2>4
<1>2. IInv /\ IInv' /\ [Next]_vars =>
        [\A p \in Procs :
           /\ world'[p].stdin > world[p].stdin => Head(proc[p].pending) = 1
           /\ proc[p].input /\ ~proc'[p].input /\ Alive(p)' => asked'[p] = 0]_vars
  BY <1>1
<1> QED BY <1>2, Invariance, PTL DEF Spec, InputInOrder
-----------------------------------------------------------------------------
(* The callbacks that run.                                                 *)

InCallback == {"filter", "sentinel"}
CallSeq    == Seq(InCallback \X (Procs \cup {NoProc}))

\* With one more activation, and the recursion of CallsOf up to the n-th.
CallStep(f, c) == IF f.kind \in InCallback THEN Append(c, <<f.kind, f.p>>) ELSE c

Calling(g, s, n) ==
    g = [m \in 0 .. n |-> IF m = 0 THEN <<>>
                          ELSE IF s[m].kind \in {"filter", "sentinel"}
                          THEN Append(g[m - 1], <<s[m].kind, s[m].p>>)
                          ELSE g[m - 1]]

Alike(s, t, n) == \A i \in 1 .. n : s[i].kind = t[i].kind /\ s[i].p = t[i].p

LEMMA CallingFacts ==
    ASSUME NEW s, NEW n \in Nat, NEW g, Calling(g, s, n)
    PROVE  g[0] = <<>> /\ \A m \in 1 .. n : g[m] = CallStep(s[m], g[m - 1])
<1>1. g[0] = <<>>
  BY DEF Calling
<1>2. ASSUME NEW m \in 1 .. n PROVE g[m] = CallStep(s[m], g[m - 1])
  <2>1. m \in 0 .. n /\ m # 0
    BY <1>2
  <2> QED BY <2>1 DEF Calling, CallStep, InCallback
<1> QED BY <1>1, <1>2

StepByStep(g, s, n) ==
    g[0] = <<>> /\ \A m \in 1 .. n : g[m] = CallStep(s[m], g[m - 1])

LEMMA CallingSteps ==
    ASSUME NEW s, NEW n \in Nat, NEW g, Calling(g, s, n)
    PROVE  StepByStep(g, s, n)
BY CallingFacts DEF StepByStep

LEMMA CallingExists ==
    ASSUME NEW s, NEW n \in Nat
    PROVE  \E g : Calling(g, s, n)
<1> DEFINE T == {m \in 0 .. n : ~\E g : Calling(g, s, m)}
<1>1. SUFFICES ASSUME T # {} PROVE FALSE
  <2>1. n \in 0 .. n
    OBVIOUS
  <2> QED BY <1>1, <2>1
<1>2. PICK k \in T : \A y \in T : k <= y
  <2>1. T \in SUBSET Nat
    OBVIOUS
  <2> HIDE DEF T
  <2> QED BY <1>1, <2>1, LeastIndex
<1>3. k # 0
  <2>1. Calling([m \in 0 .. 0 |-> <<>>], s, 0)
    BY DEF Calling
  <2> QED BY <1>2, <2>1
<1>4. k \in 1 .. n /\ k - 1 \in 0 .. n /\ k - 1 \notin T
  BY <1>2, <1>3
<1>5. PICK h : Calling(h, s, k - 1)
  BY <1>4
<1> DEFINE last == CallStep(s[k], h[k - 1])
           g == [m \in 0 .. k |-> IF m = k THEN last ELSE h[m]]
<1>6. h[0] = <<>> /\ \A m \in 1 .. k - 1 : h[m] = CallStep(s[m], h[m - 1])
  <2>1. k - 1 \in Nat
    BY <1>4
  <2> QED BY <1>5, <2>1, CallingFacts
<1>7. ASSUME NEW m \in 0 .. k
      PROVE  g[m] = IF m = 0 THEN <<>> ELSE CallStep(s[m], g[m - 1])
  <2>1. CASE m = 0
    BY <1>4, <1>6, <2>1
  <2>2. CASE m = k
    <3>1. m # 0 /\ k - 1 \in 0 .. k /\ k - 1 # k
      BY <1>4, <2>2
    <3>2. g[m] = last /\ g[m - 1] = h[k - 1]
      BY <2>2, <3>1
    <3> QED BY <2>2, <3>1, <3>2
  <2>3. CASE m # 0 /\ m # k
    <3>1. m \in 1 .. k - 1 /\ m - 1 \in 0 .. k /\ m - 1 # k
      BY <1>4, <2>3
    <3>2. g[m] = h[m] /\ g[m - 1] = h[m - 1]
      BY <2>3, <3>1
    <3> QED BY <1>6, <2>3, <3>1, <3>2
  <2> QED BY <2>1, <2>2, <2>3
<1>8. DOMAIN g = 0 .. k /\ g = [m \in 0 .. k |-> g[m]]
  OBVIOUS
<1> HIDE DEF g
<1>9. Calling(g, s, k)
  BY <1>7, <1>8 DEF Calling, CallStep, InCallback
<1> QED BY <1>2, <1>9

LEMMA CallingUnique ==
    ASSUME NEW s, NEW t, NEW n \in Nat, NEW g, NEW m \in Nat, NEW h,
           Calling(g, s, n), Calling(h, t, m), NEW k \in Nat, k <= n, k <= m, Alike(s, t, k)
    PROVE  g[k] = h[k]
<1> DEFINE T == {i \in 0 .. k : g[i] # h[i]}
<1>1. SUFFICES ASSUME T # {} PROVE FALSE
  <2>1. k \in 0 .. k
    OBVIOUS
  <2> QED BY <1>1, <2>1
<1>2. PICK i \in T : \A y \in T : i <= y
  <2>1. T \in SUBSET Nat
    OBVIOUS
  <2> HIDE DEF T
  <2> QED BY <1>1, <2>1, LeastIndex
<1>3. g[0] = <<>> /\ \A j \in 1 .. n : g[j] = CallStep(s[j], g[j - 1])
  <2>1. StepByStep(g, s, n)
    BY CallingSteps
  <2> QED BY <2>1 DEF StepByStep
<1>4. h[0] = <<>> /\ \A j \in 1 .. m : h[j] = CallStep(t[j], h[j - 1])
  <2>1. StepByStep(h, t, m)
    BY CallingSteps
  <2> QED BY <2>1 DEF StepByStep
<1>5. i \in 1 .. k /\ i - 1 \in 0 .. k /\ i - 1 \notin T /\ i \in 1 .. n /\ i \in 1 .. m
  BY <1>2, <1>3, <1>4
<1>6. g[i - 1] = h[i - 1]
  BY <1>5
<1>7. s[i].kind = t[i].kind /\ s[i].p = t[i].p
  BY <1>5 DEF Alike
<1>8. g[i] = h[i]
  BY <1>3, <1>4, <1>5, <1>6, <1>7 DEF CallStep
<1> QED BY <1>2, <1>8

LEMMA CallsOfIs ==
    ASSUME NEW s, Len(s) \in Nat
    PROVE  \E g : Calling(g, s, Len(s)) /\ CallsOf(s) = g[Len(s)]
<1> DEFINE g == CHOOSE h : Calling(h, s, Len(s))
<1>1. Calling(g, s, Len(s))
  <2>1. \E h : Calling(h, s, Len(s))
    BY CallingExists
  <2> QED BY <2>1
<1>2. CallsOf(s) = g[Len(s)]
  BY DEF CallsOf, Calling
<1> QED BY <1>1, <1>2

LEMMA CallsOfPart ==
    ASSUME NEW s \in Seq(FrameSet), NEW k \in 0 .. Len(s), NEW t \in Seq(FrameSet),
           Len(t) = k, Alike(s, t, k), NEW g, Calling(g, s, Len(s))
    PROVE  CallsOf(t) = g[k]
<1>1. Len(s) \in Nat /\ Len(t) \in Nat /\ k \in Nat /\ k <= Len(s) /\ k <= Len(t)
  BY LenProperties
<1>2. PICK h : Calling(h, t, Len(t)) /\ CallsOf(t) = h[Len(t)]
  BY <1>1, CallsOfIs
<1>3. g[k] = h[k]
  BY <1>1, <1>2, CallingUnique
<1> QED BY <1>2, <1>3

\* Only kinds and processes matter; a call adds the callback, if it is one.
LEMMA SameCalls ==
    ASSUME NEW s \in Seq(FrameSet), NEW t \in Seq(FrameSet),
           Len(t) = Len(s), Alike(s, t, Len(s))
    PROVE  CallsOf(t) = CallsOf(s)
<1>1. Len(s) \in Nat /\ Len(s) \in 0 .. Len(s)
  BY LenProperties
<1>2. PICK g : Calling(g, s, Len(s)) /\ CallsOf(s) = g[Len(s)]
  BY <1>1, CallsOfIs
<1> QED BY <1>1, <1>2, CallsOfPart

LEMMA PushCalls ==
    ASSUME NEW s \in Seq(FrameSet), NEW f \in FrameSet
    PROVE  CallsOf(Append(s, f)) = CallStep(f, CallsOf(s))
<1> DEFINE u == Append(s, f)
<1>1. /\ u \in Seq(FrameSet) /\ Len(u) = Len(s) + 1 /\ Len(s) \in Nat
      /\ u[Len(s) + 1] = f /\ \A i \in 1 .. Len(s) : u[i] = s[i]
  BY PushFacts
<1> HIDE DEF u
<1>2. PICK g : Calling(g, u, Len(u)) /\ CallsOf(u) = g[Len(u)]
  BY <1>1, CallsOfIs
<1>3. CallsOf(s) = g[Len(s)]
  <2>1. Len(s) \in 0 .. Len(u) /\ Alike(u, s, Len(s))
    BY <1>1 DEF Alike
  <2> QED BY <1>1, <1>2, <2>1, CallsOfPart
<1>4. g[Len(u)] = CallStep(u[Len(u)], g[Len(u) - 1])
  <2>1. Len(u) \in Nat /\ Len(u) \in 1 .. Len(u)
    BY <1>1
  <2> QED BY <1>2, <2>1, CallingFacts
<1>5. u[Len(u)] = f /\ Len(u) - 1 = Len(s)
  BY <1>1
<1> QED BY <1>2, <1>3, <1>4, <1>5 DEF u

\* What is left of a stack that is cut off is the beginning.
Prefix(a, b) == Len(a) <= Len(b) /\ \A i \in 1 .. Len(a) : a[i] = b[i]

LEMMA CallStepFacts ==
    ASSUME NEW f \in FrameSet, NEW c \in CallSeq
    PROVE  CallStep(f, c) \in CallSeq /\ Prefix(c, CallStep(f, c))
<1>1. CASE f.kind \in InCallback
  <2> DEFINE x == <<f.kind, f.p>>
  <2>1. x \in InCallback \X (Procs \cup {NoProc})
    BY <1>1 DEF FrameSet
  <2> HIDE DEF x
  <2>2. /\ Append(c, x) \in CallSeq /\ Len(Append(c, x)) = Len(c) + 1 /\ Len(c) \in Nat
        /\ \A i \in 1 .. Len(c) : Append(c, x)[i] = c[i]
    BY <2>1, AppendProperties, LenProperties DEF CallSeq
  <2>3. CallStep(f, c) = Append(c, x)
    BY <1>1 DEF CallStep, x
  <2> QED BY <2>2, <2>3 DEF Prefix
<1>2. CASE f.kind \notin InCallback
  <2>1. Len(c) \in Nat
    BY LenProperties DEF CallSeq
  <2> QED BY <1>2, <2>1 DEF CallStep, Prefix
<1> QED BY <1>1, <1>2

LEMMA CallingType ==
    ASSUME NEW s \in Seq(FrameSet), NEW g, Calling(g, s, Len(s)), NEW k \in 0 .. Len(s)
    PROVE  /\ g[k] \in CallSeq
           /\ \A j \in 0 .. Len(s) : k <= j => Prefix(g[k], g[j])
<1>1. Len(s) \in Nat /\ \A i \in 1 .. Len(s) : s[i] \in FrameSet
  BY LenProperties, ElementOfSeq
<1>2. g[0] = <<>> /\ \A j \in 1 .. Len(s) : g[j] = CallStep(s[j], g[j - 1])
  BY <1>1, CallingFacts
<1>3. \A j \in 0 .. Len(s) : g[j] \in CallSeq
  <2> DEFINE T == {i \in 0 .. Len(s) : g[i] \notin CallSeq}
  <2>1. SUFFICES ASSUME T # {} PROVE FALSE
    OBVIOUS
  <2>2. PICK i \in T : \A y \in T : i <= y
    <3>1. T \in SUBSET Nat
      BY <1>1
    <3> HIDE DEF T
    <3> QED BY <2>1, <3>1, LeastIndex
  <2>3. <<>> \in CallSeq
    BY EmptySeq DEF CallSeq
  <2>4. i \in 1 .. Len(s) /\ i - 1 \in 0 .. Len(s) /\ i - 1 \notin T
    BY <1>1, <1>2, <2>2, <2>3
  <2>5. g[i - 1] \in CallSeq
    BY <2>4
  <2> QED BY <1>1, <1>2, <2>2, <2>4, <2>5, CallStepFacts
<1>4. \A j \in 0 .. Len(s) : k <= j => Prefix(g[k], g[j])
  <2> DEFINE T == {i \in 0 .. Len(s) : k <= i /\ ~Prefix(g[k], g[i])}
  <2>1. SUFFICES ASSUME T # {} PROVE FALSE
    OBVIOUS
  <2>2. PICK i \in T : \A y \in T : i <= y
    <3>1. T \in SUBSET Nat
      BY <1>1
    <3> HIDE DEF T
    <3> QED BY <2>1, <3>1, LeastIndex
  <2>3. Prefix(g[k], g[k])
    <3>1. Len(g[k]) \in Nat
      BY <1>3, LenProperties DEF CallSeq
    <3> QED BY <3>1 DEF Prefix
  <2>4. k # i
    BY <2>2, <2>3
  <2>5. k <= i - 1 /\ i \in 1 .. Len(s) /\ i - 1 \in 0 .. Len(s) /\ i - 1 \notin T
    BY <1>1, <2>2, <2>4
  <2>6. Prefix(g[k], g[i - 1])
    BY <2>5
  <2>7. Prefix(g[i - 1], g[i])
    BY <1>1, <1>2, <1>3, <2>5, CallStepFacts
  <2>8. Len(g[k]) \in Nat /\ Len(g[i - 1]) \in Nat /\ Len(g[i]) \in Nat
    BY <1>3, <2>5, <2>2, LenProperties DEF CallSeq
  <2>9. Prefix(g[k], g[i])
    BY <2>6, <2>7, <2>8 DEF Prefix
  <2> QED BY <2>2, <2>9
<1> QED BY <1>3, <1>4

LEMMA CutCalls ==
    ASSUME NEW s \in Seq(FrameSet), NEW k \in 1 .. Len(s)
    PROVE  LET c == CallsOf(SubSeq(s, 1, k)) IN
           /\ CallsOf(s) \in CallSeq /\ c \in CallSeq
           /\ Prefix(c, CallsOf(s)) /\ c = SubSeq(CallsOf(s), 1, Len(c))
<1> DEFINE t == SubSeq(s, 1, k)
<1>1. Len(s) \in Nat /\ k \in 0 .. Len(s) /\ Len(s) \in 0 .. Len(s)
      /\ \A i \in 1 .. k : s[i] \in FrameSet
  BY LenProperties, ElementOfSeq
<1>2. t \in Seq(FrameSet) /\ Len(t) = k /\ Alike(s, t, k)
  <2>1. k \in Nat
    BY <1>1
  <2>2. /\ t \in Seq(FrameSet) /\ Len(t) = k /\ \A i \in 1 .. k : t[i] = s[i]
    BY <1>1, <2>1, SubSeqProperties
  <2> QED BY <2>2 DEF Alike
<1> HIDE DEF t
<1>3. PICK g : Calling(g, s, Len(s)) /\ CallsOf(s) = g[Len(s)]
  BY <1>1, CallsOfIs
<1>4. CallsOf(t) = g[k]
  BY <1>1, <1>2, <1>3, CallsOfPart
<1>5. CallsOf(s) \in CallSeq /\ CallsOf(t) \in CallSeq /\ Prefix(CallsOf(t), CallsOf(s))
  BY <1>1, <1>3, <1>4, CallingType
<1> DEFINE b == CallsOf(s)
           c == CallsOf(t)
<1>6. c = SubSeq(b, 1, Len(c))
  <2> HIDE DEF b, c
  <2> DEFINE n == Len(c)
  <2>1. n \in Nat /\ n <= Len(b) /\ Len(b) \in Nat
        /\ \A i \in 1 .. n : b[i] \in InCallback \X (Procs \cup {NoProc})
    BY <1>5, LenProperties, ElementOfSeq DEF b, c, CallSeq, Prefix
  <2>2. c \in CallSeq /\ \A i \in 1 .. n : c[i] = b[i]
    BY <1>5 DEF b, c, Prefix
  <2> DEFINE d == SubSeq(b, 1, n)
  <2>3. d \in CallSeq /\ Len(d) = n /\ \A i \in 1 .. n : d[i] = b[i]
    <3> HIDE DEF n
    <3> QED BY <2>1, SubSeqProperties DEF CallSeq
  <2> HIDE DEF d
  <2>4. c = d
    BY <2>2, <2>3, SeqEqual DEF CallSeq
  <2> QED BY <2>4 DEF d
<1> QED BY <1>5, <1>6 DEF t

-----------------------------------------------------------------------------
(* What waits, seen from Delivery.                                         *)

Ids(s) == [k \in DOMAIN s |-> s[k].id]

LEMMA IdsFacts ==
    ASSUME NEW s \in Seq(UnitSet)
    PROVE  /\ Ids(s) \in Seq(Nat \ {0}) /\ Len(Ids(s)) = Len(s) /\ Len(s) \in Nat
           /\ \A k \in 1 .. Len(s) : Ids(s)[k] = s[k].id
           /\ Ids(s) = <<>> <=> s = <<>>
<1>1. Len(s) \in Nat /\ DOMAIN s = 1 .. Len(s) /\ \A k \in 1 .. Len(s) : s[k] \in UnitSet
  BY LenProperties, ElementOfSeq
<1>2. Ids(s) = [k \in 1 .. Len(s) |-> s[k].id]
  BY <1>1 DEF Ids
<1>3. \A k \in 1 .. Len(s) : s[k].id \in Nat \ {0}
  BY <1>1 DEF UnitSet
<1>4. Ids(s) \in Seq(Nat \ {0}) /\ Len(Ids(s)) = Len(s)
  <2> DEFINE F(k) == s[k].id
             n == Len(s)
  <2>1. n \in Nat /\ \A k \in 1 .. n : F(k) \in Nat \ {0}
    BY <1>1, <1>3
  <2> HIDE DEF F, n
  <2>2. [k \in 1 .. n |-> F(k)] \in Seq(Nat \ {0}) /\ Len([k \in 1 .. n |-> F(k)]) = n
    BY <2>1
  <2> QED BY <1>2, <2>2 DEF F, n
<1>5. \A k \in 1 .. Len(s) : Ids(s)[k] = s[k].id
  BY <1>2
<1>6. Ids(s) = <<>> <=> s = <<>>
  BY <1>1, <1>4, EmptySeq
<1> QED BY <1>1, <1>4, <1>5, <1>6

\* What is left when the first units are taken away.
LEMMA SuffixIds ==
    ASSUME NEW a \in Seq(UnitSet), NEW b \in Seq(UnitSet)
    PROVE  LET x == Ids(a \o b) IN
           /\ Len(a) \in 0 .. Len(x) /\ Ids(b) = SubSeq(x, Len(a) + 1, Len(x))
           /\ \A k \in DOMAIN Ids(b) : \E j \in DOMAIN x : Ids(b)[k] = x[j]
           /\ a # <<>> => Ids(b) # x
<1> DEFINE x == Ids(a \o b)
           y == Ids(b)
           m == Len(a)
           n == Len(b)
<1>1. m \in Nat /\ n \in Nat
  BY LenProperties
<1>2. /\ a \o b \in Seq(UnitSet) /\ Len(a \o b) = m + n
      /\ \A k \in 1 .. n : (a \o b)[m + k] = b[k]
  <2>1. /\ a \o b \in Seq(UnitSet) /\ Len(a \o b) = m + n
        /\ \A i \in 1 .. m + n : (a \o b)[i] = IF i <= m THEN a[i] ELSE b[i - m]
    BY ConcatProperties
  <2>2. ASSUME NEW k \in 1 .. n PROVE (a \o b)[m + k] = b[k]
    <3>1. m + k \in 1 .. m + n /\ ~(m + k <= m) /\ (m + k) - m = k
      BY <1>1
    <3> QED BY <2>1, <3>1
  <2> QED BY <2>1, <2>2
<1>3. /\ x \in Seq(Nat \ {0}) /\ Len(x) = m + n
      /\ \A k \in 1 .. m + n : x[k] = (a \o b)[k].id
  BY <1>2, IdsFacts
<1>4. /\ y \in Seq(Nat \ {0}) /\ Len(y) = n
      /\ \A k \in 1 .. n : y[k] = b[k].id
  BY IdsFacts
<1>5. m = 0 => a = <<>>
  BY EmptySeq
<1> HIDE DEF x, y, m, n
<1>6. ASSUME NEW k \in 1 .. n PROVE y[k] = x[m + k] /\ m + k \in 1 .. m + n
  <2>1. m + k \in 1 .. m + n
    BY <1>1
  <2>2. x[m + k] = (a \o b)[m + k].id
    BY <1>3, <2>1
  <2>3. (a \o b)[m + k] = b[k]
    BY <1>2
  <2> QED BY <1>4, <2>1, <2>2, <2>3
<1>7. y = SubSeq(x, m + 1, m + n)
  <2> DEFINE z == SubSeq(x, m + 1, m + n)
  <2>1. \A i \in m + 1 .. m + n : x[i] \in Nat \ {0}
    <3>1. \A i \in 1 .. m + n : x[i] \in Nat \ {0}
      BY <1>3, ElementOfSeq
    <3> QED BY <1>1, <3>1
  <2>2. /\ z \in Seq(Nat \ {0}) /\ Len(z) = n
        /\ \A i \in 1 .. n : z[i] = x[m + i]
    <3>1. /\ z \in Seq(Nat \ {0})
          /\ Len(z) = IF m + 1 <= m + n THEN (m + n) - (m + 1) + 1 ELSE 0
          /\ \A i \in 1 .. (m + n) - (m + 1) + 1 : z[i] = x[(m + 1) + i - 1]
      <4>1. m + 1 \in Int /\ m + n \in Int
        BY <1>1
      <4> QED BY <2>1, <4>1, SubSeqProperties
    <3>2. Len(z) = n /\ (m + n) - (m + 1) + 1 = n
      BY <1>1, <3>1
    <3>3. \A i \in 1 .. n : (m + 1) + i - 1 = m + i
      BY <1>1
    <3> QED BY <3>1, <3>2, <3>3
  <2> HIDE DEF z
  <2>3. y = z
    BY <1>4, <1>6, <2>2, SeqEqual
  <2> QED BY <2>3 DEF z
<1>8. ASSUME NEW k \in DOMAIN y PROVE \E j \in DOMAIN x : y[k] = x[j]
  <2>1. k \in 1 .. n /\ DOMAIN x = 1 .. m + n
    BY <1>3, <1>4, LenProperties
  <2> QED BY <1>6, <2>1
<1>9. a # <<>> => y # x
  BY <1>1, <1>3, <1>4, <1>5
<1>10. m \in 0 .. m + n
  BY <1>1
<1> QED BY <1>3, <1>7, <1>8, <1>9, <1>10 DEF x, y, m

LEMMA AppendIds ==
    ASSUME NEW s \in Seq(UnitSet), NEW u \in UnitSet
    PROVE  /\ Ids(Append(s, u)) # <<>>
           /\ SubSeq(Ids(Append(s, u)), 1, Len(Ids(Append(s, u))) - 1) = Ids(s)
<1> DEFINE x == Ids(Append(s, u))
           y == Ids(s)
           n == Len(s)
<1>1. /\ Append(s, u) \in Seq(UnitSet) /\ Len(Append(s, u)) = n + 1 /\ n \in Nat
      /\ \A i \in 1 .. n : Append(s, u)[i] = s[i]
  BY AppendProperties, LenProperties
<1>2. /\ x \in Seq(Nat \ {0}) /\ Len(x) = n + 1
      /\ \A i \in 1 .. n + 1 : x[i] = Append(s, u)[i].id
  BY <1>1, IdsFacts
<1>3. /\ y \in Seq(Nat \ {0}) /\ Len(y) = n
      /\ \A i \in 1 .. n : y[i] = s[i].id
  BY IdsFacts
<1> HIDE DEF x, y, n
<1>4. ASSUME NEW i \in 1 .. n PROVE x[i] = y[i] /\ i \in 1 .. n + 1
  <2>1. i \in 1 .. n + 1
    BY <1>1
  <2>2. x[i] = Append(s, u)[i].id
    BY <1>2, <2>1
  <2>3. Append(s, u)[i] = s[i]
    BY <1>1
  <2> QED BY <1>3, <2>1, <2>2, <2>3
<1>5. Len(x) - 1 = n /\ x # <<>>
  BY <1>1, <1>2, EmptySeq
<1> DEFINE z == SubSeq(x, 1, n)
<1>6. z \in Seq(Nat \ {0}) /\ Len(z) = n /\ \A i \in 1 .. n : z[i] = x[i]
  <2>1. \A i \in 1 .. n : x[i] \in Nat \ {0}
    BY <1>2, <1>4, ElementOfSeq
  <2> QED BY <1>1, <2>1, SubSeqProperties
<1> HIDE DEF z
<1>7. z = y
  BY <1>3, <1>4, <1>6, SeqEqual
<1> QED BY <1>5, <1>7 DEF x, y, z

-----------------------------------------------------------------------------
(* The stack after a step: its top and the callbacks on it.                *)

LEMMA Becoming ==
    ASSUME IInv, NEW f \in FrameSet, f.kind = Top.kind, f.p = Top.p, stack' = Becomes(f)
    PROVE  Top' = f /\ Callbacks' = Callbacks
<1>1. stack \in Seq(FrameSet) /\ stack # <<>> /\ Len(stack) \in Nat \ {0}
      /\ Top = stack[Len(stack)]
  BY TopFacts
<1>2. /\ stack' \in Seq(FrameSet) /\ Len(stack') = Len(stack) /\ stack'[Len(stack)] = f
      /\ Last(stack') = f /\ \A i \in 1 .. Len(stack) - 1 : stack'[i] = stack[i]
  BY <1>1, BecomeFacts DEF Becomes
<1>3. Alike(stack, stack', Len(stack))
  <2> SUFFICES ASSUME NEW i \in 1 .. Len(stack)
               PROVE  stack[i].kind = stack'[i].kind /\ stack[i].p = stack'[i].p
    BY DEF Alike
  <2>1. CASE i = Len(stack)
    BY <1>1, <1>2, <2>1
  <2>2. CASE i # Len(stack)
    BY <1>1, <1>2, <2>2
  <2> QED BY <2>1, <2>2
<1>4. CallsOf(stack') = CallsOf(stack)
  BY <1>1, <1>2, <1>3, SameCalls
<1> QED BY <1>2, <1>4 DEF Top, Callbacks

LEMMA CallingOn ==
    ASSUME IInv, NEW f \in FrameSet, f.kind = Top.kind, f.p = Top.p, NEW g \in FrameSet,
           stack' = Calls(f, g)
    PROVE  Top' = g /\ Callbacks' = CallStep(g, Callbacks)
<1> DEFINE u == Becomes(f)
<1>1. stack \in Seq(FrameSet) /\ stack # <<>> /\ Len(stack) \in Nat \ {0}
      /\ Top = stack[Len(stack)]
  BY TopFacts
<1>2. /\ u \in Seq(FrameSet) /\ Len(u) = Len(stack) /\ u[Len(stack)] = f
      /\ \A i \in 1 .. Len(stack) - 1 : u[i] = stack[i]
  BY <1>1, BecomeFacts DEF Becomes
<1>3. stack' = Append(u, g)
  BY DEF Calls
<1> HIDE DEF u
<1>4. Alike(stack, u, Len(stack))
  <2> SUFFICES ASSUME NEW i \in 1 .. Len(stack)
               PROVE  stack[i].kind = u[i].kind /\ stack[i].p = u[i].p
    BY DEF Alike
  <2>1. CASE i = Len(stack)
    BY <1>1, <1>2, <2>1
  <2>2. CASE i # Len(stack)
    BY <1>1, <1>2, <2>2
  <2> QED BY <2>1, <2>2
<1>5. CallsOf(u) = CallsOf(stack)
  BY <1>1, <1>2, <1>4, SameCalls
<1>6. Last(stack') = g /\ CallsOf(stack') = CallStep(g, CallsOf(u))
  BY <1>2, <1>3, PushFacts, PushCalls
<1> QED BY <1>5, <1>6 DEF Top, Callbacks

\* The stack cut off, and the innermost activation gone.
LEMMA Cutting ==
    ASSUME IInv, NEW k \in 1 .. Len(stack) - 1, stack' = SubSeq(stack, 1, k)
    PROVE  /\ Top'.events = <<>> /\ Callbacks' \in CallSeq /\ Callbacks \in CallSeq
           /\ Prefix(Callbacks', Callbacks)
           /\ Callbacks' = SubSeq(Callbacks, 1, Len(Callbacks'))
           /\ Top.kind \in InCallback => Len(Callbacks') < Len(Callbacks)
<1>1. stack \in Seq(FrameSet) /\ stack # <<>> /\ Len(stack) \in Nat \ {0}
      /\ StackOK(world, proc, stack) /\ Top \in FrameSet /\ Top = Last(stack)
  BY TopFacts
<1>2. Below(Last(stack'))
  BY <1>1, SameProcs, CutOK
<1>3. k \in 1 .. Len(stack)
  BY <1>1
<1>4. /\ Callbacks' \in CallSeq /\ Callbacks \in CallSeq
      /\ Prefix(Callbacks', Callbacks)
      /\ Callbacks' = SubSeq(Callbacks, 1, Len(Callbacks'))
  BY <1>1, <1>3, CutCalls DEF Callbacks
<1>5. ASSUME Top.kind \in InCallback PROVE Len(Callbacks') < Len(Callbacks)
  <2> DEFINE rest == Front(stack)
  <2>1. rest \in Seq(FrameSet) /\ Len(rest) = Len(stack) - 1
        /\ \A i \in 1 .. Len(stack) - 1 : rest[i] = stack[i]
    BY <1>1, StackFacts
  <2>2. stack = Append(rest, Top)
    <3>1. Append(rest, Top) \in Seq(FrameSet) /\ Len(Append(rest, Top)) = Len(stack)
          /\ \A i \in 1 .. Len(stack) - 1 : Append(rest, Top)[i] = stack[i]
          /\ Append(rest, Top)[Len(stack)] = Top
      BY <1>1, <2>1, PushFacts
    <3>2. Top = stack[Len(stack)]
      BY TopFacts
    <3>3. \A i \in 1 .. Len(stack) : Append(rest, Top)[i] = stack[i]
      BY <1>1, <3>1, <3>2
    <3> HIDE DEF rest
    <3> QED BY <1>1, <3>1, <3>3, SeqEqual
  <2>3. SubSeq(stack, 1, k) = SubSeq(rest, 1, k)
    <3>1. k \in Nat /\ k <= Len(rest) /\ \A i \in 1 .. k : stack[i] \in FrameSet /\ rest[i] = stack[i]
      BY <1>1, <2>1, ElementOfSeq
    <3>2. /\ SubSeq(stack, 1, k) \in Seq(FrameSet) /\ Len(SubSeq(stack, 1, k)) = k
          /\ \A i \in 1 .. k : SubSeq(stack, 1, k)[i] = stack[i]
      BY <3>1, SubSeqProperties
    <3>3. \A i \in 1 .. k : rest[i] \in FrameSet
      BY <3>1
    <3> HIDE DEF rest
    <3>4. /\ SubSeq(rest, 1, k) \in Seq(FrameSet) /\ Len(SubSeq(rest, 1, k)) = k
          /\ \A i \in 1 .. k : SubSeq(rest, 1, k)[i] = rest[i]
      BY <3>1, <3>3, SubSeqProperties
    <3> QED BY <3>1, <3>2, <3>4, SeqEqual
  <2> HIDE DEF rest
  <2>4. CallsOf(rest) \in CallSeq /\ Prefix(Callbacks', CallsOf(rest))
    <3>1. k \in 1 .. Len(rest)
      BY <2>1
    <3> QED BY <2>1, <2>3, <3>1, CutCalls DEF Callbacks
  <2>5. Callbacks = Append(CallsOf(rest), <<Top.kind, Top.p>>)
    BY <1>1, <1>5, <2>1, <2>2, PushCalls DEF Callbacks, CallStep
  <2>6. Len(Callbacks) = Len(CallsOf(rest)) + 1
    BY <2>4, <2>5 DEF CallSeq
  <2>7. Len(CallsOf(rest)) \in Nat /\ Len(Callbacks') \in Nat
    BY <1>4, <2>4, LenProperties DEF CallSeq
  <2> QED BY <2>4, <2>6, <2>7 DEF Prefix
<1> QED BY <1>2, <1>4, <1>5 DEF Below, Top

\* At a return, the activation below may learn something.
LEMMA Returning ==
    ASSUME IInv, Top.kind # "top", stack' = Returned
    PROVE  /\ Top'.events = <<>>
           /\ Top.kind \notin InCallback => Callbacks' = Callbacks
           /\ Top.kind \in InCallback =>
                /\ Len(Callbacks') < Len(Callbacks)
                /\ Callbacks' = SubSeq(Callbacks, 1, Len(Callbacks'))
<1> DEFINE rest == Front(stack)
           below == Last(rest)
           over == [below EXCEPT !.main = Top.main]
<1>1. stack \in Seq(FrameSet) /\ stack # <<>> /\ Len(stack) \in Nat \ {0}
      /\ StackOK(world, proc, stack) /\ Top \in FrameSet /\ Top = Last(stack)
      /\ Len(stack) - 1 \in 1 .. Len(stack) - 1
  BY TopFacts
<1>2. rest = SubSeq(stack, 1, Len(stack) - 1)
  BY <1>1, FrontIsCut
<1>3. CASE stack' = rest /\ Top.kind \in InCallback
  BY <1>1, <1>2, <1>3, Cutting
<1>4. StackOK(world, proc, rest) /\ Below(below)
  BY <1>1, <1>2, SameProcs, CutOK
<1>5. /\ rest \in Seq(FrameSet) /\ rest # <<>> /\ Len(rest) = Len(stack) - 1
      /\ \A i \in 1 .. Len(stack) - 1 : rest[i] = stack[i]
  BY <1>1, <1>4, StackFacts DEF StackOK, Frames
<1>6. below \in FrameSet /\ below = rest[Len(rest)] /\ Len(rest) \in Nat \ {0}
  BY <1>5, StackFacts
<1>7. over \in FrameSet /\ over.kind = below.kind /\ over.p = below.p /\ over.events = below.events
  BY <1>1, <1>6 DEF FrameSet
<1>8. CASE Top.kind \notin InCallback
  <2>1. stack = Append(rest, Top)
    <3>1. Append(rest, Top) \in Seq(FrameSet) /\ Len(Append(rest, Top)) = Len(stack)
          /\ \A i \in 1 .. Len(stack) - 1 : Append(rest, Top)[i] = stack[i]
          /\ Append(rest, Top)[Len(stack)] = Top
      BY <1>1, <1>5, PushFacts
    <3>2. Top = stack[Len(stack)]
      BY TopFacts
    <3>3. \A i \in 1 .. Len(stack) : Append(rest, Top)[i] = stack[i]
      BY <1>1, <3>1, <3>2
    <3> HIDE DEF rest
    <3> QED BY <1>1, <3>1, <3>3, SeqEqual
  <2>2. CallsOf(stack) = CallsOf(rest)
    <3> HIDE DEF rest
    <3> QED BY <1>1, <1>5, <1>8, <2>1, PushCalls DEF CallStep
  <2>3. CASE stack' = rest
    BY <1>4, <1>8, <2>2, <2>3 DEF Below, Top, Callbacks
  <2>4. CASE stack' = Append(Front(rest), over)
    <3> HIDE DEF rest, over, below
    <3> DEFINE u == Append(Front(rest), over)
    <3>1. /\ u \in Seq(FrameSet) /\ Len(u) = Len(rest) /\ u[Len(rest)] = over
          /\ Last(u) = over /\ \A i \in 1 .. Len(rest) - 1 : u[i] = rest[i]
      BY <1>5, <1>7, BecomeFacts
    <3> HIDE DEF u
    <3>2. Alike(rest, u, Len(rest))
      <4> SUFFICES ASSUME NEW i \in 1 .. Len(rest)
                   PROVE  rest[i].kind = u[i].kind /\ rest[i].p = u[i].p
        BY DEF Alike
      <4>1. CASE i = Len(rest)
        BY <1>6, <1>7, <3>1, <4>1
      <4>2. CASE i # Len(rest)
        BY <1>6, <3>1, <4>2
      <4> QED BY <4>1, <4>2
    <3>3. CallsOf(u) = CallsOf(rest)
      BY <1>5, <3>1, <3>2, SameCalls
    <3>4. stack' = u
      BY <2>4 DEF u
    <3> QED BY <1>4, <1>7, <1>8, <2>2, <3>1, <3>3, <3>4 DEF Below, Top, Callbacks
  <2> QED BY <2>3, <2>4 DEF Returned
<1>9. Top.kind \in InCallback => stack' = rest
  BY DEF InCallback, Returned
<1> QED BY <1>3, <1>8, <1>9

-----------------------------------------------------------------------------
(* The state of Delivery, and its steps.                                   *)

Queue == [p \in Procs |-> [ch \in Channels |-> Ids(Waiting(p, ch))]]
Muted == {p \in Procs : Deaf(p)}
Told  == {p \in Procs : proc[p].reported}

Held(q, ch) == IF ch = "out" THEN q.held ELSE <<>>
Flying(f, p, ch) ==
    IF f.p = p /\ f.events # <<>> /\ Head(f.events).ch = ch
    THEN <<Head(f.events).unit>> ELSE <<>>
Line(w, q, f, p, ch) == Held(q, ch) \o Flying(f, p, ch) \o w[ch]

LEMMA QueueIs ==
    /\ DOMAIN Queue = Procs /\ DOMAIN Queue' = Procs
    /\ Queue = [p \in Procs |-> Queue[p]] /\ Queue' = [p \in Procs |-> Queue'[p]]
    /\ \A p \in Procs :
         /\ Queue[p] = [ch \in Channels |-> Ids(Line(world[p], proc[p], Top, p, ch))]
         /\ Queue'[p] = [ch \in Channels |-> Ids(Line(world'[p], proc'[p], Top', p, ch))]
BY DEF Queue, Waiting, InFlight, Line, Held, Flying

LEMMA TypedNext ==
    ASSUME IInv'
    PROVE  world' \in [Procs -> WorldSet] /\ proc' \in [Procs -> ProcSet]
BY DEF IInv, TypeOK, WorldSet, ProcSet

LEMMA LineIs ==
    ASSUME NEW w \in WorldSet, NEW q \in ProcSet, NEW ch \in Channels
    PROVE  /\ Held(q, ch) \in Seq(UnitSet) /\ w[ch] \in Seq(UnitSet)
           /\ \A f, p : f.events = <<>> \/ f.p # p =>
                Line(w, q, f, p, ch) = Held(q, ch) \o w[ch]
<1>1. Held(q, ch) \in Seq(UnitSet) /\ w[ch] \in Seq(UnitSet)
  <2>1. <<>> \in Seq(UnitSet)
    BY EmptySeq
  <2> QED BY <2>1 DEF Held, ProcSet, WorldSet, Channels
<1>2. Held(q, ch) \o <<>> = Held(q, ch)
  BY <1>1, ConcatEmptySeq
<1> QED BY <1>1, <1>2 DEF Line, Flying

\* Steps that Delivery does not see.
Calm ==
    /\ \A p \in Procs :
         /\ proc'[p].held = proc[p].held /\ proc'[p].reported = proc[p].reported
         /\ proc'[p].paused = proc[p].paused /\ proc'[p].dead = proc[p].dead
         /\ \A ch \in Channels : world'[p][ch] = world[p][ch]

Moves ==
    \/ \E f \in FrameSet : /\ f.kind = Top.kind /\ f.p = Top.p /\ f.events = <<>>
                           /\ stack' = Becomes(f)
    \/ \E f, g \in FrameSet : /\ f.kind = Top.kind /\ f.p = Top.p
                              /\ g.events = <<>> /\ g.kind \notin InCallback
                              /\ stack' = Calls(f, g)
    \/ Top.kind \notin {"top"} \cup InCallback /\ stack' = Returned
    \/ stack' = stack

LEMMA MovesFacts ==
    ASSUME IInv, Moves, Top.events = <<>>
    PROVE  Top'.events = <<>> /\ Callbacks' = Callbacks
<1>1. ASSUME NEW f \in FrameSet, f.kind = Top.kind, f.p = Top.p, f.events = <<>>,
             stack' = Becomes(f)
      PROVE  Top'.events = <<>> /\ Callbacks' = Callbacks
  BY <1>1, Becoming
<1>2. ASSUME NEW f \in FrameSet, f.kind = Top.kind, f.p = Top.p,
             NEW g \in FrameSet, g.events = <<>>, g.kind \notin InCallback,
             stack' = Calls(f, g)
      PROVE  Top'.events = <<>> /\ Callbacks' = Callbacks
  BY <1>2, CallingOn DEF CallStep
<1>3. CASE Top.kind \notin {"top"} \cup InCallback /\ stack' = Returned
  BY <1>3, Returning
<1>4. CASE stack' = stack
  BY <1>4 DEF Top, Callbacks
<1> QED BY <1>1, <1>2, <1>3, <1>4 DEF Moves

LEMMA SeenSame ==
    ASSUME Queue' = Queue, Muted' = Muted, Told' = Told, Callbacks' = Callbacks
    PROVE  UNCHANGED Promise!vars
BY DEF Promise!vars, Queue, Muted, Told, Ids

LEMMA CalmFacts ==
    ASSUME Calm
    PROVE  Muted' = Muted /\ Told' = Told
BY DEF Calm, Muted, Told, Deaf

LEMMA QuietTops ==
    ASSUME Calm, Top.events = <<>>, Top'.events = <<>>
    PROVE  /\ Queue' = Queue /\ Muted' = Muted /\ Told' = Told
           /\ Callbacks' = Callbacks => UNCHANGED Promise!vars
<1>2. Muted' = Muted /\ Told' = Told
  BY CalmFacts
<1>3. ASSUME NEW p \in Procs PROVE Queue'[p] = Queue[p]
  <2>1. \A ch \in Channels : Line(world'[p], proc'[p], Top', p, ch) = Line(world[p], proc[p], Top, p, ch)
    BY DEF Calm, Line, Held, Flying
  <2> QED BY <2>1, QueueIs
<1>4. Queue' = Queue
  BY <1>3, QueueIs
<1> QED BY <1>2, <1>4, SeenSame

LEMMA CalmStep ==
    ASSUME IInv, Calm, Moves, Top.events = <<>>
    PROVE  UNCHANGED Promise!vars
BY MovesFacts, QuietTops

\* The steps of Delivery in these terms.
OthersSame(p) == \A q \in Procs \ {p} : Queue'[q] = Queue[q]
Cut(p) ==
    \A ch \in Channels : \E n \in 0 .. Len(Queue[p][ch]) :
        Queue'[p][ch] = SubSeq(Queue[p][ch], n + 1, Len(Queue[p][ch]))

LEMMA FilterStep ==
    ASSUME NEW p \in Procs, p \notin Told, Muted' = Muted, Told' = Told,
           Callbacks' = Append(Callbacks, <<"filter", p>>),
           OthersSame(p), Queue'[p] # Queue[p], Cut(p)
    PROVE  Promise!Next
<1>1. Promise!Filter(p)
  BY DEF Promise!Filter, Promise!OthersKept, Promise!Shorter, OthersSame, Cut,
         Queue, Muted, Told, Ids
<1> QED BY <1>1 DEF Promise!Next

LEMMA ReturnStep ==
    ASSUME Queue' = Queue, Muted' = Muted, Told' = Told,
           Len(Callbacks') < Len(Callbacks),
           Callbacks' = SubSeq(Callbacks, 1, Len(Callbacks'))
    PROVE  Promise!Next
<1>1. Promise!Return
  BY DEF Promise!Return, Queue, Muted, Told, Ids
<1> QED BY <1>1 DEF Promise!Next

LEMMA MuteStep ==
    ASSUME NEW p \in Procs, Queue' = Queue, Told' = Told, Callbacks' = Callbacks,
           Muted' \in {Muted \cup {p}, Muted \ {p}}
    PROVE  Promise!Next
<1>1. Promise!Mute(p)
  BY DEF Promise!Mute, Queue, Muted, Told, Ids
<1> QED BY <1>1 DEF Promise!Next

LEMMA DiscardStep ==
    ASSUME NEW p \in Procs, Told' = Told, Callbacks' = Callbacks,
           p \in Muted', Muted' = Muted \cup {p}, OthersSame(p),
           \A ch \in Channels : \A k \in DOMAIN Queue'[p][ch] :
               \E j \in DOMAIN Queue[p][ch] : Queue'[p][ch][k] = Queue[p][ch][j]
    PROVE  Promise!Next
<1>1. \A ch \in Channels : Promise!Range(Queue'[p][ch]) \subseteq Promise!Range(Queue[p][ch])
  BY DEF Promise!Range
<1>2. Muted \subseteq Muted' /\ Muted' \subseteq Muted \cup {p}
  OBVIOUS
<1>3. Promise!Discard(p)
  BY <1>1, <1>2 DEF Promise!Discard, Promise!MutedOnly, Promise!OthersKept, OthersSame,
                    Queue, Muted, Told, Ids
<1> QED BY <1>3 DEF Promise!Next

LEMMA SentinelStep ==
    ASSUME NEW p \in Procs, p \notin Told, Told' = Told \cup {p},
           Callbacks' = Append(Callbacks, <<"sentinel", p>>), OthersSame(p),
           \/ p \in Muted' /\ Muted' = Muted \cup {p}
           \/ /\ Muted' = Muted /\ Queue' = Queue
              /\ \A ch \in Channels : Queue[p][ch] = <<>>
    PROVE  Promise!Next
<1>1. CASE p \in Muted' /\ Muted' = Muted \cup {p}
  <2>1. Muted \subseteq Muted' /\ Muted' \subseteq Muted \cup {p} /\ p \in Muted'
    BY <1>1
  <2>2. Promise!Sentinel(p)
    BY <2>1 DEF Promise!Sentinel, Promise!MutedOnly, Promise!OthersKept, OthersSame,
                Queue, Muted, Told, Ids
  <2> QED BY <2>2 DEF Promise!Next
<1>2. CASE /\ Muted' = Muted /\ Queue' = Queue
           /\ \A ch \in Channels : Queue[p][ch] = <<>>
  <2>1. Promise!Sentinel(p)
    BY <1>2 DEF Promise!Sentinel, Promise!OthersKept, OthersSame, Queue, Muted, Told, Ids
  <2> QED BY <2>1 DEF Promise!Next
<1> QED BY <1>1, <1>2

LEMMA WriteStep ==
    ASSUME NEW p \in Procs, NEW ch \in Channels,
           Muted' = Muted, Told' = Told, Callbacks' = Callbacks, OthersSame(p),
           Queue'[p][ch] # <<>>,
           SubSeq(Queue'[p][ch], 1, Len(Queue'[p][ch]) - 1) = Queue[p][ch],
           \A c \in Channels \ {ch} : Queue'[p][c] = Queue[p][c]
    PROVE  Promise!Next
<1>1. Promise!Front(Queue'[p][ch]) = Queue[p][ch]
  BY DEF Promise!Front
<1>2. Promise!Write(p, ch)
  BY <1>1 DEF Promise!Write, Promise!OthersKept, OthersSame, Queue, Muted, Told, Ids
<1> QED BY <1>2 DEF Promise!Next

-----------------------------------------------------------------------------
(* Steps that Delivery does not see.                                       *)

\* Activations that are no callbacks.
Plain(g) == Starting(g) /\ g.kind \notin InCallback

LEMMA PlainFrames ==
    ASSUME NEW p \in Procs
    PROVE  /\ Plain(Frame("poll", p)) /\ Plain(Frame("send", p)) /\ Plain(Frame("eof", p))
           /\ \A only, timed \in BOOLEAN :
                Plain([Frame("wait", p) EXCEPT !.only = only, !.timed = timed])
<1>1. /\ Starting(Frame("poll", p)) /\ Starting(Frame("send", p)) /\ Starting(Frame("eof", p))
      /\ \A only, timed \in BOOLEAN :
           Starting([Frame("wait", p) EXCEPT !.only = only, !.timed = timed])
  BY NewFrames
<1>2. /\ Frame("poll", p).kind = "poll" /\ Frame("send", p).kind = "send"
      /\ Frame("eof", p).kind = "eof"
      /\ \A only, timed \in BOOLEAN :
           [Frame("wait", p) EXCEPT !.only = only, !.timed = timed].kind = "wait"
  BY DEF Frame
<1> QED BY <1>1, <1>2 DEF Plain, InCallback

LEMMA PlainAll == \A q : Plain(PollAll(q))
<1> TAKE q
<1>1. Starting(Frame("all", NoProc))
  BY NewFrame DEF Starting
<1>2. Listed \ {q} \in SUBSET Procs
  BY DEF Listed
<1>3. Starting(PollAll(q))
  BY <1>1, <1>2, StartsWith DEF PollAll
<1>4. PollAll(q).kind = "all"
  BY DEF PollAll, Frame
<1> QED BY <1>3, <1>4 DEF Plain, InCallback

LEMMA CallUnseen ==
    ASSUME IInv, UNCHANGED <<world, proc>>, Top.events = <<>>,
           NEW f \in FrameSet, f.kind = Top.kind, f.p = Top.p, NEW g, Plain(g),
           stack' = Calls(f, g)
    PROVE  UNCHANGED Promise!vars
<1>1. Calm
  BY DEF Calm
<1>2. Moves
  BY DEF Moves, Plain, Starting
<1> QED BY <1>1, <1>2, CalmStep

LEMMA BecomeUnseen ==
    ASSUME IInv, UNCHANGED <<world, proc>>, Top.events = <<>>,
           NEW f \in FrameSet, f.kind = Top.kind, f.p = Top.p, f.events = <<>>,
           stack' = Becomes(f)
    PROVE  UNCHANGED Promise!vars
<1>1. Calm
  BY DEF Calm
<1>2. Moves
  BY DEF Moves
<1> QED BY <1>1, <1>2, CalmStep

LEMMA ReturnUnseen ==
    ASSUME IInv, UNCHANGED <<world, proc>>, Top.events = <<>>,
           Top.kind \notin {"top"} \cup InCallback, stack' = Returned
    PROVE  UNCHANGED Promise!vars
<1>1. Calm
  BY DEF Calm
<1>2. Moves
  BY DEF Moves
<1> QED BY <1>1, <1>2, CalmStep

LEMMA PollStartUnseen ==
    ASSUME IInv, PollStart \/ PollOver
    PROVE  UNCHANGED Promise!vars
<1> DEFINE p == Top.p
           f == [Top EXCEPT !.stage = "first", !.exited = ~world[p].runs]
<1>1. Top.kind = "poll" /\ Top.stage # "deliver" /\ UNCHANGED <<world, proc, asked>>
  BY DEF PollStart, PollOver, Polling
<1>2. p \in Procs /\ Top.events = <<>> /\ Top.kind \notin {"top"} \cup InCallback
  BY <1>1, PollTop DEF InCallback
<1>3. CASE stack' = Returned
  BY <1>1, <1>2, <1>3, ReturnUnseen
<1>4. CASE stack' = Becomes(f)
  <2>1. world[p].runs \in BOOLEAN
    BY <1>2, Typed DEF WorldSet
  <2>2. f \in FrameSet /\ f.kind = Top.kind /\ f.p = Top.p /\ f.events = <<>>
    BY <1>1, <1>2, <2>1, TopFacts DEF FrameSet
  <2> HIDE DEF f
  <2> QED BY <1>1, <1>2, <1>4, <2>2, BecomeUnseen
<1> QED BY <1>3, <1>4 DEF PollStart, PollOver

LEMMA PollNextUnseen ==
    ASSUME IInv, PollNext
    PROVE  UNCHANGED Promise!vars
<1> DEFINE p == First(Top.todo)
           f == [Top EXCEPT !.todo = @ \ {p}]
<1>1. Top.kind = "all" /\ UNCHANGED <<world, proc, asked>>
  BY DEF PollNext
<1>2. Top \in FrameSet /\ Top.events = <<>> /\ Top.todo \in SUBSET Procs
      /\ Top.kind \notin {"top"} \cup InCallback
  BY <1>1, OtherTop DEF FrameSet, InCallback
<1>3. CASE stack' = Returned
  BY <1>1, <1>2, <1>3, ReturnUnseen
<1>4. CASE Top.todo # {} /\ (stack' = Becomes(f) \/ stack' = Calls(f, Frame("poll", p)))
  <2>1. p \in Procs
    BY <1>2, <1>4, FirstIs
  <2>2. f \in FrameSet /\ f.kind = Top.kind /\ f.p = Top.p /\ f.events = <<>>
    BY <1>1, <1>2 DEF FrameSet
  <2> HIDE DEF f, p
  <2>3. Plain(Frame("poll", p))
    BY <2>1, PlainFrames
  <2> QED BY <1>1, <1>2, <1>4, <2>2, <2>3, BecomeUnseen, CallUnseen
<1> QED BY <1>3, <1>4 DEF PollNext

LEMMA WaitUnseen ==
    ASSUME IInv, Wait
    PROVE  UNCHANGED Promise!vars
<1>1. Top.kind = "wait" /\ UNCHANGED <<world, proc, asked>>
  BY DEF Wait, WaitPoll, WaitOthers, WaitDecide, WaitIn
<1>2. Top \in FrameSet /\ Top.events = <<>> /\ Top.p \in Procs
      /\ Top.kind \notin {"top"} \cup InCallback
  BY <1>1, OtherTop DEF InCallback
<1>3. Plain(Frame("poll", Top.p)) /\ Plain(PollAll(Top.p))
  BY <1>2, PlainFrames, PlainAll
<1>4. CASE WaitPoll
  <2> DEFINE f == [Top EXCEPT !.stage = "others", !.main = FALSE, !.timed = @ \/ ~Alive(Top.p)]
  <2>1. (Top.timed \/ ~Alive(Top.p)) \in BOOLEAN
    BY <1>2 DEF FrameSet
  <2>2. f \in FrameSet /\ f.kind = Top.kind /\ f.p = Top.p /\ f.events = <<>>
    BY <1>1, <1>2, <2>1 DEF FrameSet
  <2>3. stack' = Calls(f, Frame("poll", Top.p))
    BY <1>4 DEF WaitPoll
  <2> HIDE DEF f
  <2> QED BY <1>1, <1>2, <1>3, <2>2, <2>3, CallUnseen
<1>5. CASE WaitOthers
  <2> DEFINE f == [Top EXCEPT !.stage = "decide"]
  <2>1. f \in FrameSet /\ f.kind = Top.kind /\ f.p = Top.p /\ f.events = <<>>
    BY <1>1, <1>2, AtStage
  <2>2. stack' = Becomes(f) \/ stack' = Calls(f, PollAll(Top.p))
    BY <1>5 DEF WaitOthers
  <2> HIDE DEF f
  <2> QED BY <1>1, <1>2, <1>3, <2>1, <2>2, BecomeUnseen, CallUnseen
<1>6. CASE WaitDecide
  <2> DEFINE f == [Top EXCEPT !.stage = "start"]
  <2>1. f \in FrameSet /\ f.kind = Top.kind /\ f.p = Top.p /\ f.events = <<>>
    BY <1>1, <1>2, AtStage
  <2>2. stack' = Returned \/ stack' = Becomes(f)
    BY <1>6 DEF WaitDecide
  <2> HIDE DEF f
  <2> QED BY <1>1, <1>2, <2>1, <2>2, BecomeUnseen, ReturnUnseen
<1> QED BY <1>4, <1>5, <1>6 DEF Wait

\* Input that is queued or written, and the descriptor that is closed after it.
LEMMA SendUnseen ==
    ASSUME IInv, SendLoop
    PROVE  UNCHANGED Promise!vars
<1> DEFINE p == Top.p
<1>1. Top.kind \in {"send", "eof"}
  BY DEF SendLoop, WriteInput, InputFull, NothingToWrite, SendFails, Sending
<1>2. Top \in FrameSet /\ Top.events = <<>> /\ p \in Procs
      /\ Top.kind \notin {"top"} \cup InCallback
  BY <1>1, OtherTop DEF InCallback
<1>3. CASE InputFull
  <2>1. stack' = Calls(Top, PollAll(NoProc)) /\ UNCHANGED <<world, proc, asked>>
    BY <1>3 DEF InputFull, PumpOutput
  <2> QED BY <1>2, <2>1, PlainAll, CallUnseen
<1>4. CASE SendFails
  BY <1>2, <1>4, ReturnUnseen DEF SendFails
<1>5. CASE WriteInput \/ NothingToWrite
  <2>1. \E rest : InputDone(p, rest)
    BY <1>5 DEF WriteInput, NothingToWrite
  <2>2. proc \in [Procs -> ProcSet] /\ world \in [Procs -> WorldSet]
    BY Typed
  <2>3. \A q \in Procs : /\ proc'[q].held = proc[q].held /\ proc'[q].reported = proc[q].reported
                         /\ proc'[q].paused = proc[q].paused /\ proc'[q].dead = proc[q].dead
    BY <1>2, <2>1, <2>2 DEF InputDone, ProcSet
  <2>4. \A q \in Procs, c \in Channels : world'[q][c] = world[q][c]
    <3>1. CASE NothingToWrite
      BY <3>1 DEF NothingToWrite
    <3>2. CASE WriteInput
      <4>1. world' = [world EXCEPT ![p].stdin = @ + 1]
        BY <3>2 DEF WriteInput
      <4> QED BY <1>2, <2>2, <4>1 DEF WorldSet, Channels
    <3> QED BY <1>5, <3>1, <3>2
  <2>5. Calm
    BY <2>3, <2>4 DEF Calm
  <2>6. Moves
    BY <1>2, <2>1 DEF InputDone, Moves
  <2> QED BY <1>2, <2>5, <2>6, CalmStep
<1> QED BY <1>3, <1>4, <1>5 DEF SendLoop

LEMMA QuitUnseen ==
    ASSUME IInv, QuitSend
    PROVE  UNCHANGED Promise!vars
<1>1. /\ Top.kind \in {"send", "eof"} /\ UNCHANGED <<world, proc, asked>>
      /\ stack' = SubSeq(stack, 1, 1) /\ Callbacks = <<>>
  BY DEF QuitSend, Sending
<1>2. 1 \in 1 .. Len(stack) - 1 /\ Top.events = <<>>
  BY <1>1, TopFacts, OtherTop
<1>3. Top'.events = <<>> /\ Callbacks' \in CallSeq /\ Prefix(Callbacks', Callbacks)
  BY <1>1, <1>2, Cutting
<1>4. Callbacks' = <<>>
  <2>1. Len(Callbacks') \in Nat /\ Len(Callbacks') <= 0
    BY <1>1, <1>3, LenProperties DEF CallSeq, Prefix
  <2>2. Len(Callbacks') = 0
    BY <2>1
  <2> QED BY <1>3, <2>2, EmptySeq DEF CallSeq
<1>5. Calm
  BY <1>1 DEF Calm
<1> QED BY <1>1, <1>2, <1>3, <1>4, <1>5, QuietTops

LEMMA LispUnseen ==
    ASSUME IInv, \/ Idle \/ AcceptAny
                 \/ \E p \in Kept : Send(p)
                 \/ \E p \in Kept, only \in JustThis, timed \in TimeLimit : Accept(p, only, timed)
    PROVE  UNCHANGED Promise!vars
<1>1. Top.kind \in InLisp
  BY DEF Idle, AcceptAny, Send, Accept, Runs, InLisp
<1>2. Top \in FrameSet /\ Top.events = <<>>
  BY <1>1, OtherTop DEF InLisp
<1>3. \A l \in 0 .. 1 : /\ [Top EXCEPT !.left = l] \in FrameSet
                        /\ [Top EXCEPT !.left = l].kind = Top.kind
                        /\ [Top EXCEPT !.left = l].p = Top.p
                        /\ [Top EXCEPT !.left = l].events = <<>>
  BY <1>2 DEF FrameSet
<1>4. ASSUME NEW l \in 0 .. 1, NEW g, Plain(g), UNCHANGED <<world, proc>>,
             stack' = Calls([Top EXCEPT !.left = l], g)
      PROVE  UNCHANGED Promise!vars
  <2> DEFINE f == [Top EXCEPT !.left = l]
  <2>1. f \in FrameSet /\ f.kind = Top.kind /\ f.p = Top.p /\ f.events = <<>>
    BY <1>3
  <2> HIDE DEF f
  <2>2. stack' = Calls(f, g)
    BY <1>4 DEF f
  <2> QED BY <1>2, <1>4, <2>1, <2>2, CallUnseen
<1>5. 0 \in 0 .. 1 /\ 1 \in 0 .. 1
  OBVIOUS
<1>6. CASE Idle \/ AcceptAny
  BY <1>4, <1>5, <1>6, PlainAll DEF Idle, AcceptAny
<1>7. CASE \E p \in Kept, only \in JustThis, timed \in TimeLimit : Accept(p, only, timed)
  <2>1. PICK p \in Kept, only \in JustThis, timed \in TimeLimit : Accept(p, only, timed)
    BY <1>7
  <2>2. p \in Procs /\ only \in BOOLEAN /\ timed \in BOOLEAN
    BY ProcAssumption DEF Kept
  <2>3. Plain([Frame("wait", p) EXCEPT !.only = only, !.timed = timed])
    BY <2>2, PlainFrames
  <2> QED BY <1>4, <1>5, <2>1, <2>3 DEF Accept
<1>8. CASE \E p \in Kept : Send(p)
  <2>1. PICK p \in Procs : Send(p)
    BY <1>8 DEF Kept
  <2>2. Plain(Frame("send", p)) /\ Plain(Frame("eof", p))
    BY PlainFrames
  <2>3. CASE UNCHANGED <<world, proc>> /\ stack' = Calls([Top EXCEPT !.left = 0], Frame("eof", p))
    BY <1>4, <1>5, <2>2, <2>3
  <2> DEFINE f == [Top EXCEPT !.left = 0]
  <2>4. f \in FrameSet /\ f.kind = Top.kind /\ f.p = Top.p /\ f.events = <<>>
    BY <1>3, <1>5
  <2>5. CASE UNCHANGED <<world, proc>> /\ stack' = Becomes(f)
    <3> HIDE DEF f
    <3> QED BY <1>2, <2>4, <2>5, BecomeUnseen
  <2>6. CASE /\ UNCHANGED world /\ stack' = Calls(f, Frame("send", p))
             /\ proc' = [proc EXCEPT ![p].pending = Enqueue(@, asked[p] + 1)]
    <3>1. proc \in [Procs -> ProcSet]
      BY Typed
    <3>2. \A q \in Procs : /\ proc'[q].held = proc[q].held /\ proc'[q].reported = proc[q].reported
                           /\ proc'[q].paused = proc[q].paused /\ proc'[q].dead = proc[q].dead
      BY <2>6, <3>1 DEF ProcSet
    <3>3. Calm
      BY <2>6, <3>2 DEF Calm
    <3> HIDE DEF f
    <3>4. Moves
      BY <2>2, <2>4, <2>6 DEF Moves, Plain, Starting
    <3> QED BY <1>2, <3>3, <3>4, CalmStep
  <2> QED BY <2>1, <2>3, <2>5, <2>6 DEF Send, SendString, SendEof, SendUnit
<1> QED BY <1>6, <1>7, <1>8

-----------------------------------------------------------------------------
(* Reads: a unit moves from the pipe to the poll.                          *)

LEMMA HeadMoves ==
    ASSUME NEW S, NEW h \in Seq(S), NEW w \in Seq(S), w # <<>>
    PROVE  (h \o <<Head(w)>>) \o Tail(w) = h \o w
<1> DEFINE x == Head(w)
<1>1. /\ x \in S /\ Tail(w) \in Seq(S) /\ Len(Tail(w)) = Len(w) - 1 /\ Len(w) \in Nat \ {0}
      /\ \A i \in 1 .. Len(Tail(w)) : Tail(w)[i] = w[i + 1]
      /\ x = w[1]
  <2>1. \A s \in Seq(S) : s # <<>> => Head(s) = s[1]
    OBVIOUS
  <2> QED BY <2>1, HeadTailProperties, LenProperties, EmptySeq
<1> DEFINE one == <<x>>
           r == Tail(w)
<1>2. one \in Seq(S) /\ Len(one) = 1 /\ one[1] = x
  <2> HIDE DEF x
  <2> QED BY <1>1
<1> HIDE DEF x, one, r
<1>3. /\ one \o r \in Seq(S) /\ Len(one \o r) = 1 + Len(r)
      /\ \A i \in 1 .. 1 + Len(r) : (one \o r)[i] = IF i <= 1 THEN one[i] ELSE r[i - 1]
  <2>1. /\ one \o r \in Seq(S) /\ Len(one \o r) = Len(one) + Len(r)
        /\ \A i \in 1 .. Len(one) + Len(r) :
             (one \o r)[i] = IF i <= Len(one) THEN one[i] ELSE r[i - Len(one)]
    BY <1>1, <1>2, ConcatProperties DEF r
  <2> QED BY <1>2, <2>1
<1>4. r \in Seq(S) /\ Len(r) = Len(w) - 1 /\ \A i \in 1 .. Len(r) : r[i] = w[i + 1]
  BY <1>1 DEF r
<1>5. ASSUME NEW i \in 1 .. Len(w) PROVE (one \o r)[i] = w[i]
  <2>1. i \in 1 .. 1 + Len(r)
    BY <1>1, <1>4
  <2>2. CASE i = 1
    BY <1>1, <1>2, <1>3, <2>1, <2>2
  <2>3. CASE i # 1
    <3>1. ~(i <= 1) /\ i - 1 \in 1 .. Len(r) /\ (i - 1) + 1 = i
      BY <1>1, <1>4, <2>3
    <3> QED BY <1>3, <1>4, <2>1, <3>1
  <2> QED BY <2>2, <2>3
<1>6. one \o r = w
  <2>1. Len(one \o r) = Len(w)
    BY <1>1, <1>3, <1>4
  <2> QED BY <1>3, <1>5, <2>1, SeqEqual
<1>7. (h \o one) \o r = h \o (one \o r)
  BY <1>2, <1>4, ConcatAssociative
<1> QED BY <1>6, <1>7 DEF x, one, r

LEMMA ReadUnseen ==
    ASSUME IInv, NEW ch \in Channels, Top.kind = "poll", Top.stage \in Reading,
           Read(Top.p, ch), stack' = WithEvent(Top, ch), UNCHANGED proc
    PROVE  UNCHANGED Promise!vars
<1> DEFINE p == Top.p
           u == Head(world[p][ch])
           e == Event(ch, u)
           f == [Top EXCEPT !.stage = "deliver", !.events = <<e>>]
<1>1. p \in Procs /\ Top.events = <<>> /\ Top \in FrameSet
  BY PollTop, TopFacts DEF Reading
<1>2. /\ \A q \in Procs : q # p => world'[q] = world[q]
      /\ world'[p][ch] = Tail(world[p][ch]) /\ world[p][ch] # <<>>
      /\ \A c \in Channels : c # ch => world'[p][c] = world[p][c]
      /\ u \in UnitSet
  BY <1>1, ReadFacts
<1>3. proc \in [Procs -> ProcSet] /\ world \in [Procs -> WorldSet]
  BY Typed
<1>4. e \in [ch : Channels, unit : UnitSet] /\ e.ch = ch /\ e.unit = u
  BY <1>2 DEF Event
<1> HIDE DEF e
<1>5. <<e>> \in Seq([ch : Channels, unit : UnitSet]) /\ <<e>> # <<>> /\ Head(<<e>>) = e
  BY <1>4
<1>6. f \in FrameSet /\ f.kind = Top.kind /\ f.p = p /\ f.events = <<e>>
  BY <1>1, <1>5 DEF FrameSet
<1> HIDE DEF f
<1>7. stack' = Becomes(f)
  BY DEF WithEvent, f, e
<1>8. Top' = f /\ Callbacks' = Callbacks
  BY <1>6, <1>7, Becoming
<1>9. ASSUME NEW q \in Procs, NEW c \in Channels
      PROVE  Line(world'[q], proc'[q], Top', q, c) = Line(world[q], proc[q], Top, q, c)
  <2>1. CASE q = p /\ c = ch
    <3>1. Flying(f, q, c) = <<u>> /\ Flying(Top, q, c) = <<>>
      BY <1>1, <1>4, <1>5, <1>6, <2>1 DEF Flying
    <3>2. Held(proc[p], ch) \in Seq(UnitSet) /\ world[p][ch] \in Seq(UnitSet)
          /\ Line(world[p], proc[p], Top, p, ch) = Held(proc[p], ch) \o world[p][ch]
      <4>1. world[p] \in WorldSet /\ proc[p] \in ProcSet
        BY <1>1, <1>3
      <4>2. /\ Held(proc[p], ch) \in Seq(UnitSet) /\ world[p][ch] \in Seq(UnitSet)
            /\ \A g, r : g.events = <<>> \/ g.p # r =>
                 Line(world[p], proc[p], g, r, ch) = Held(proc[p], ch) \o world[p][ch]
        BY <4>1, LineIs
      <4>3. Line(world[p], proc[p], Top, p, ch) = Held(proc[p], ch) \o world[p][ch]
        BY <1>1, <4>2
      <4> QED BY <4>2, <4>3
    <3>3. (Held(proc[p], ch) \o <<u>>) \o Tail(world[p][ch]) = Held(proc[p], ch) \o world[p][ch]
      BY <1>2, <3>2, HeadMoves
    <3>4. Line(world'[q], proc'[q], Top', q, c) = (Held(proc[p], ch) \o <<u>>) \o Tail(world[p][ch])
      BY <1>2, <1>8, <2>1, <3>1 DEF Line
    <3> QED BY <2>1, <3>2, <3>3, <3>4, Zenon
  <2>2. CASE ~(q = p /\ c = ch)
    <3>1. Flying(f, q, c) = <<>> /\ Flying(Top, q, c) = <<>>
      BY <1>1, <1>4, <1>5, <1>6, <2>2 DEF Flying
    <3>2. world'[q][c] = world[q][c]
      BY <1>2, <2>2
    <3> QED BY <1>8, <3>1, <3>2 DEF Line
  <2> QED BY <2>1, <2>2, Zenon
<1>10. Queue' = Queue
  BY <1>9, QueueIs
<1>11. Muted' = Muted /\ Told' = Told
  BY DEF Muted, Told, Deaf
<1> QED BY <1>8, <1>10, <1>11, SeenSame

LEMMA ReadChildUnseen ==
    ASSUME IInv, ReadChild
    PROVE  UNCHANGED Promise!vars
<1> DEFINE p == Top.p
           ch == IF Top.stage = "first" THEN FirstChannel(Top) ELSE SecondChannel(Top)
           st == IF Top.events # <<>> THEN "deliver"
                 ELSE IF Top.stage = "first" /\ ~proc[p].paused THEN "second" ELSE "act"
           f == [Top EXCEPT !.stage = st]
<1>1. /\ Top.kind = "poll" /\ Top.stage \in {"first", "second"} /\ p \in Children
      /\ UNCHANGED <<proc, asked>>
  BY DEF ReadChild, Polling
<1>2. ch \in Channels
  BY DEF FirstChannel, SecondChannel, Channels
<1>3. CASE Read(p, ch) /\ stack' = WithEvent(Top, ch)
  <2> HIDE DEF ch
  <2> QED BY <1>1, <1>2, <1>3, ReadUnseen DEF Reading
<1>4. CASE UNCHANGED world /\ stack' = Becomes(f)
  <2>1. Top.events = <<>>
    BY <1>1, PollTop
  <2>2. f \in FrameSet /\ f.kind = Top.kind /\ f.p = Top.p /\ f.events = <<>>
    BY <1>1, <2>1, AtStage
  <2> HIDE DEF f
  <2> QED BY <1>1, <1>4, <2>1, <2>2, BecomeUnseen
<1> QED BY <1>3, <1>4 DEF ReadChild

LEMMA ReadPipeUnseen ==
    ASSUME IInv, ReadPipe
    PROVE  UNCHANGED Promise!vars
<1> DEFINE p == Top.p
           f == [Top EXCEPT !.stage = "finish"]
<1>1. Top.kind = "poll" /\ Top.stage = "first" /\ p \in Procs /\ Top.events = <<>>
      /\ Top.kind \notin {"top"} \cup InCallback
  BY PollTop DEF ReadPipe, Polling, InCallback
<1>2. CASE stack' = Returned /\ UNCHANGED <<world, proc, asked>>
  BY <1>1, <1>2, ReturnUnseen
<1>3. CASE Read(p, "out") /\ stack' = WithEvent(Top, "out") /\ UNCHANGED proc
  BY <1>1, <1>3, ReadUnseen DEF Reading, Channels
<1>4. CASE /\ UNCHANGED world
           /\ proc' = [proc EXCEPT ![p].status = "closed"] /\ stack' = Becomes(f)
  <2>1. proc \in [Procs -> ProcSet]
    BY Typed
  <2>2. \A q \in Procs : /\ proc'[q].held = proc[q].held /\ proc'[q].reported = proc[q].reported
                         /\ proc'[q].paused = proc[q].paused /\ proc'[q].dead = proc[q].dead
    BY <1>4, <2>1 DEF ProcSet
  <2>3. Calm
    BY <1>4, <2>2 DEF Calm
  <2>4. f \in FrameSet /\ f.kind = Top.kind /\ f.p = Top.p /\ f.events = <<>>
    BY <1>1, AtStage
  <2> HIDE DEF f
  <2>5. Moves
    BY <1>4, <2>4 DEF Moves
  <2> QED BY <1>1, <2>3, <2>5, CalmStep
<1> QED BY <1>2, <1>3, <1>4 DEF ReadPipe

-----------------------------------------------------------------------------
(* A poll hands over what it read and what the decoder holds.              *)

Emptied(p) ==
    /\ p \in Procs /\ Top.p = p /\ Top'.events = <<>>
    /\ proc' = [proc EXCEPT ![p].held = <<>>]
    /\ UNCHANGED <<world, asked>>

Taken(p, ch) == Held(proc[p], ch) \o Flying(Top, p, ch)

LEMMA FlyingType ==
    ASSUME IInv, NEW p \in Procs, NEW ch \in Channels
    PROVE  /\ Flying(Top, p, ch) \in Seq(UnitSet) /\ Taken(p, ch) \in Seq(UnitSet)
           /\ world[p][ch] \in Seq(UnitSet)
           /\ Held(proc[p], ch) # <<>> \/ Flying(Top, p, ch) # <<>> => Taken(p, ch) # <<>>
<1> DEFINE h == Held(proc[p], ch)
           f == Flying(Top, p, ch)
<1>1. h \in Seq(UnitSet) /\ world[p][ch] \in Seq(UnitSet)
  <2>1. world[p] \in WorldSet /\ proc[p] \in ProcSet
    BY Typed
  <2> QED BY <2>1, LineIs
<1>2. f \in Seq(UnitSet)
  <2>1. Top.events \in Seq([ch : Channels, unit : UnitSet])
    BY TopFacts DEF FrameSet
  <2>2. CASE Top.events = <<>>
    BY <2>2, EmptySeq DEF Flying
  <2>3. CASE Top.events # <<>>
    <3>1. Head(Top.events) \in [ch : Channels, unit : UnitSet]
      BY <2>1, <2>3, HeadTailProperties
    <3>2. Head(Top.events).unit \in UnitSet
      BY <3>1
    <3> QED BY <3>2, EmptySeq DEF Flying
  <2> QED BY <2>2, <2>3
<1> HIDE DEF h, f
<1>3. h \o f \in Seq(UnitSet) /\ Len(h \o f) = Len(h) + Len(f)
  BY <1>1, <1>2, ConcatProperties
<1>4. h # <<>> \/ f # <<>> => h \o f # <<>>
  <2>1. Len(h) \in Nat /\ Len(f) \in Nat /\ (Len(h) = 0 <=> h = <<>>) /\ (Len(f) = 0 <=> f = <<>>)
    BY <1>1, <1>2, LenProperties, EmptySeq
  <2> QED BY <1>3, <2>1, EmptySeq
<1> QED BY <1>1, <1>2, <1>3, <1>4 DEF h, f, Taken

LEMMA EmptiedFacts ==
    ASSUME IInv, NEW p, Emptied(p)
    PROVE  /\ OthersSame(p) /\ Cut(p) /\ Muted' = Muted /\ Told' = Told
           /\ \A ch \in Channels : \A k \in DOMAIN Queue'[p][ch] :
                \E j \in DOMAIN Queue[p][ch] : Queue'[p][ch][k] = Queue[p][ch][j]
           /\ proc[p].held # <<>> \/ Top.events # <<>> => Queue'[p] # Queue[p]
<1>1. /\ p \in Procs /\ Top.p = p /\ Top'.events = <<>> /\ UNCHANGED world
      /\ world \in [Procs -> WorldSet] /\ proc \in [Procs -> ProcSet]
  BY Typed DEF Emptied
<1>2. /\ proc' \in [Procs -> ProcSet] /\ proc'[p].held = <<>>
      /\ \A q \in Procs : /\ proc'[q].reported = proc[q].reported
                          /\ proc'[q].paused = proc[q].paused
                          /\ proc'[q].dead = proc[q].dead
                          /\ q # p => proc'[q] = proc[q]
  <2>1. <<>> \in Seq(UnitSet)
    BY EmptySeq
  <2> QED BY <1>1, <2>1, HeldFacts DEF Emptied
<1>3. Muted' = Muted /\ Told' = Told
  BY <1>2 DEF Muted, Told, Deaf
<1>4. ASSUME NEW q \in Procs, q # p PROVE Queue'[q] = Queue[q]
  <2>1. \A ch \in Channels : Line(world'[q], proc'[q], Top', q, ch) = Line(world[q], proc[q], Top, q, ch)
    BY <1>1, <1>2, <1>4 DEF Line, Flying
  <2> QED BY <2>1, QueueIs
<1>5. ASSUME NEW ch \in Channels
      PROVE  /\ Queue[p][ch] = Ids(Taken(p, ch) \o world[p][ch])
             /\ Queue'[p][ch] = Ids(world[p][ch])
  <2>1. Queue[p][ch] = Ids(Line(world[p], proc[p], Top, p, ch))
        /\ Queue'[p][ch] = Ids(Line(world'[p], proc'[p], Top', p, ch))
    BY <1>1, QueueIs
  <2>2. Held(proc'[p], ch) = <<>> /\ Flying(Top', p, ch) = <<>>
    BY <1>1, <1>2 DEF Held, Flying
  <2>3. world[p][ch] \in Seq(UnitSet) /\ <<>> \in Seq(UnitSet)
    BY <1>1, FlyingType, EmptySeq
  <2>4. <<>> \o world[p][ch] = world[p][ch]
    BY <2>3, ConcatEmptySeq
  <2>5. <<>> \o <<>> = <<>>
    BY <2>3, ConcatEmptySeq
  <2>6. Line(world'[p], proc'[p], Top', p, ch) = world[p][ch]
    BY <1>1, <2>2, <2>4, <2>5 DEF Line
  <2> QED BY <2>1, <2>6 DEF Line, Taken
<1>6. ASSUME NEW ch \in Channels
      PROVE  /\ \E n \in 0 .. Len(Queue[p][ch]) :
                  Queue'[p][ch] = SubSeq(Queue[p][ch], n + 1, Len(Queue[p][ch]))
             /\ \A k \in DOMAIN Queue'[p][ch] :
                  \E j \in DOMAIN Queue[p][ch] : Queue'[p][ch][k] = Queue[p][ch][j]
             /\ Taken(p, ch) # <<>> => Queue'[p][ch] # Queue[p][ch]
  <2> DEFINE a == Taken(p, ch)
             b == world[p][ch]
  <2>1. a \in Seq(UnitSet) /\ b \in Seq(UnitSet)
    BY <1>1, FlyingType
  <2>2. Queue[p][ch] = Ids(a \o b) /\ Queue'[p][ch] = Ids(b)
    BY <1>5
  <2> HIDE DEF a, b
  <2>3. LET x == Ids(a \o b) IN
           /\ Len(a) \in 0 .. Len(x) /\ Ids(b) = SubSeq(x, Len(a) + 1, Len(x))
           /\ \A k \in DOMAIN Ids(b) : \E j \in DOMAIN x : Ids(b)[k] = x[j]
           /\ a # <<>> => Ids(b) # x
    BY <2>1, SuffixIds
  <2> QED BY <2>2, <2>3 DEF a
<1>7. ASSUME proc[p].held # <<>> \/ Top.events # <<>>
      PROVE  Queue'[p] # Queue[p]
  <2>1. CASE proc[p].held # <<>>
    <3>1. "out" \in Channels /\ Held(proc[p], "out") # <<>>
      BY <2>1 DEF Held, Channels
    <3>2. Taken(p, "out") # <<>>
      BY <1>1, <3>1, FlyingType
    <3> QED BY <1>6, <3>1, <3>2
  <2>2. CASE Top.events # <<>>
    <3>1. Top.events \in Seq([ch : Channels, unit : UnitSet])
      BY TopFacts DEF FrameSet
    <3> DEFINE e == Head(Top.events)
    <3>2. e \in [ch : Channels, unit : UnitSet]
      BY <2>2, <3>1, HeadTailProperties
    <3>3. e.ch \in Channels
      BY <3>2
    <3>4. Flying(Top, p, e.ch) = <<e.unit>>
      BY <1>1, <2>2 DEF Flying
    <3>5. <<e.unit>> # <<>>
      OBVIOUS
    <3> HIDE DEF e
    <3>6. Taken(p, e.ch) # <<>>
      BY <1>1, <3>3, <3>4, <3>5, FlyingType
    <3> QED BY <1>6, <3>3, <3>6
  <2> QED BY <1>7, <2>1, <2>2
<1> QED BY <1>3, <1>4, <1>6, <1>7 DEF OthersSame, Cut

\* A filter that is called gets it; a filter of t loses it.
LEMMA HandsOver ==
    ASSUME IInv, NEW p, Emptied(p), NEW f \in FrameSet, f.kind = Top.kind, f.p = Top.p,
           ~proc[p].reported, stack' = Calls(f, Callback("filter", p)),
           proc[p].held # <<>> \/ Top.events # <<>>
    PROVE  Promise!Next
<1> DEFINE g == Callback("filter", p)
<1>1. p \in Procs
  BY DEF Emptied
<1>2. g \in FrameSet /\ g.kind = "filter" /\ g.p = p
  <2>1. Starting(g)
    BY <1>1, NewFrames
  <2>2. g.kind = "filter" /\ g.p = p
    BY DEF Callback, Frame
  <2> QED BY <2>1, <2>2 DEF Starting
<1> HIDE DEF g
<1>3. Callbacks' = Append(Callbacks, <<"filter", p>>)
  <2>1. Callbacks' = CallStep(g, Callbacks)
    BY <1>2, CallingOn DEF g
  <2> QED BY <1>2, <2>1 DEF CallStep, InCallback
<1>4. p \notin Told
  BY DEF Told
<1> QED BY <1>1, <1>3, <1>4, EmptiedFacts, FilterStep

LEMMA Loses ==
    ASSUME IInv, NEW p, Emptied(p), NEW f \in FrameSet, f.kind = Top.kind, f.p = Top.p,
           proc[p].paused, stack' = Becomes(f)
    PROVE  Promise!Next
<1>1. p \in Procs /\ Muted' = Muted /\ p \in Muted
  BY EmptiedFacts DEF Emptied, Muted, Deaf
<1>2. Callbacks' = Callbacks
  BY Becoming
<1>3. p \in Muted' /\ Muted' = Muted \cup {p}
  BY <1>1
<1> QED BY <1>1, <1>2, <1>3, EmptiedFacts, DiscardStep

LEMMA DeliverMaps ==
    ASSUME IInv, Deliver
    PROVE  Promise!Next \/ UNCHANGED Promise!vars
<1> DEFINE p == Top.p
           e == Head(Top.events)
           u == e.unit
<1>1. /\ Top.kind = "poll" /\ p \in Procs /\ Top.events # <<>> /\ e.ch \in Channels
      /\ u \in UnitSet /\ proc[p].held \in Seq(UnitSet)
      /\ ~Ended(proc[p]) /\ (u.form = "part" => e.ch = "out")
  <2>1. /\ Top.kind = "poll" /\ p \in Procs /\ Top.stage = "deliver"
        /\ PollOK(world[p], proc[p], Top)
        /\ Top.events = <<e>> /\ e \in [ch : Channels, unit : UnitSet]
        /\ proc[p].held \in Seq(UnitSet) /\ ~Ended(proc[p])
    BY EventFacts DEF Deliver
  <2>2. u.form = "part" => e.ch = "out"
    BY <2>1 DEF PollOK
  <2>3. e.ch \in Channels /\ u \in UnitSet
    BY <2>1
  <2> HIDE DEF e
  <2> QED BY <2>1, <2>2, <2>3
<1>2. PICK f \in FrameSet, h \in Seq(UnitSet) :
        /\ f.kind = "poll" /\ f.p = p /\ f.events = <<>>
        /\ proc' = [proc EXCEPT ![p].held = h]
        /\ UNCHANGED <<world, asked>>
        /\ \/ u.form = "part" /\ h = Append(proc[p].held, u) /\ stack' = Becomes(f)
           \/ /\ u.form # "part" /\ h = <<>>
              /\ stack' = IF proc[p].paused THEN Becomes(f)
                          ELSE Calls(f, Callback("filter", p))
  BY DeliverIs
<1>3. ~proc[p].reported
  BY <1>1, Typed DEF ProcOK
<1> HIDE DEF e, u
<1>4. CASE h = <<>> /\ stack' = Calls(f, Callback("filter", p))
  <2>1. Callback("filter", p) \in FrameSet /\ Callback("filter", p).events = <<>>
    BY <1>1, NewFrames DEF Starting
  <2>2. Top'.events = <<>>
    BY <1>1, <1>2, <1>4, <2>1, CallingOn
  <2>3. Emptied(p)
    BY <1>1, <1>2, <1>4, <2>2 DEF Emptied
  <2> QED BY <1>1, <1>2, <1>3, <1>4, <2>3, HandsOver
<1>5. CASE h = <<>> /\ proc[p].paused /\ stack' = Becomes(f)
  <2>1. Top' = f
    BY <1>1, <1>2, <1>5, Becoming
  <2>2. Emptied(p)
    BY <1>1, <1>2, <1>5, <2>1 DEF Emptied
  <2> QED BY <1>1, <1>2, <1>5, <2>2, Loses
<1>6. CASE u.form = "part" /\ h = Append(proc[p].held, u) /\ stack' = Becomes(f)
  <2>1. Top' = f /\ Callbacks' = Callbacks
    BY <1>1, <1>2, <1>6, Becoming
  <2>2. /\ proc'[p].held = h
        /\ \A q \in Procs : /\ proc'[q].reported = proc[q].reported
                            /\ proc'[q].paused = proc[q].paused
                            /\ proc'[q].dead = proc[q].dead
                            /\ q # p => proc'[q] = proc[q]
    BY <1>1, <1>2, HeldFacts
  <2>3. h = proc[p].held \o <<u>> /\ h \o <<>> = h
    BY <1>1, <1>2, <1>6, AppendIsConcat, ConcatEmptySeq
  <2>4. ASSUME NEW q \in Procs, NEW ch \in Channels
        PROVE  Line(world'[q], proc'[q], Top', q, ch) = Line(world[q], proc[q], Top, q, ch)
    <3>1. CASE q # p
      <4>1. Flying(f, q, ch) = <<>> /\ Flying(Top, q, ch) = <<>>
        BY <1>2, <3>1 DEF Flying
      <4> QED BY <1>2, <2>1, <2>2, <3>1, <4>1 DEF Line
    <3>2. CASE q = p /\ ch = "out"
      <4>1. Flying(f, q, ch) = <<>> /\ Flying(Top, q, ch) = <<u>>
        BY <1>1, <1>2, <1>6, <3>2 DEF Flying, e, u
      <4>2. Held(proc'[p], "out") = h /\ Held(proc[p], "out") = proc[p].held
        BY <2>2 DEF Held
      <4> QED BY <1>2, <2>1, <2>3, <3>2, <4>1, <4>2 DEF Line
    <3>3. CASE q = p /\ ch # "out"
      <4>1. Flying(f, q, ch) = <<>> /\ Flying(Top, q, ch) = <<>>
        BY <1>1, <1>2, <1>6, <3>3 DEF Flying, e
      <4>2. Held(proc'[p], ch) = <<>> /\ Held(proc[p], ch) = <<>>
        BY <3>3 DEF Held
      <4> QED BY <1>2, <2>1, <3>3, <4>1, <4>2 DEF Line
    <3> QED BY <3>1, <3>2, <3>3
  <2>5. Queue' = Queue
    BY <2>4, QueueIs
  <2>6. Muted' = Muted /\ Told' = Told
    BY <2>2 DEF Muted, Told, Deaf
  <2> QED BY <2>1, <2>5, <2>6, SeenSame
<1> QED BY <1>2, <1>4, <1>5, <1>6

LEMMA FlushMaps ==
    ASSUME IInv, FlushDecoder
    PROVE  Promise!Next \/ UNCHANGED Promise!vars
<1> DEFINE p == Top.p
           f == [Top EXCEPT !.stage = "exit"]
<1>1. Top.kind = "poll" /\ p \in Procs /\ Top.events = <<>> /\ ~proc[p].reported
  BY PollTop DEF FlushDecoder, Polling, PollOK
<1>2. f \in FrameSet /\ f.kind = Top.kind /\ f.p = p /\ f.events = <<>>
  BY <1>1, AtStage
<1>3. /\ proc' = [proc EXCEPT ![p].held = <<>>] /\ UNCHANGED <<world, asked>>
      /\ stack' = IF proc[p].held # <<>> /\ ~proc[p].paused
                  THEN Calls(f, Callback("filter", p)) ELSE Becomes(f)
  BY DEF FlushDecoder
<1> HIDE DEF f
<1>4. CASE proc[p].held # <<>> /\ stack' = Calls(f, Callback("filter", p))
  <2>1. Callback("filter", p) \in FrameSet /\ Callback("filter", p).events = <<>>
    BY <1>1, NewFrames DEF Starting
  <2>2. Top'.events = <<>>
    BY <1>1, <1>2, <1>4, <2>1, CallingOn
  <2>3. Emptied(p)
    BY <1>1, <1>3, <2>2 DEF Emptied
  <2> QED BY <1>1, <1>2, <1>4, <2>3, HandsOver
<1>5. CASE proc[p].paused /\ stack' = Becomes(f)
  <2>1. Top' = f
    BY <1>1, <1>2, <1>5, Becoming
  <2>2. Emptied(p)
    BY <1>1, <1>2, <1>3, <2>1 DEF Emptied
  <2> QED BY <1>1, <1>2, <1>5, <2>2, Loses
<1>6. CASE proc[p].held = <<>> /\ stack' = Becomes(f)
  <2>1. proc \in [Procs -> ProcSet] /\ <<>> \in Seq(UnitSet)
    BY Typed, EmptySeq
  <2>2. /\ proc'[p].held = <<>>
        /\ \A q \in Procs : /\ proc'[q].reported = proc[q].reported
                            /\ proc'[q].paused = proc[q].paused
                            /\ proc'[q].dead = proc[q].dead
                            /\ q # p => proc'[q] = proc[q]
    BY <1>1, <1>3, <2>1, HeldFacts
  <2>3. Calm
    BY <1>3, <1>6, <2>2 DEF Calm
  <2>4. Moves
    BY <1>2, <1>6 DEF Moves
  <2> QED BY <1>1, <2>3, <2>4, CalmStep
<1> QED BY <1>3, <1>4, <1>5, <1>6

\* The descriptors of a process are closed, with what they still hold.
Shut(p) ==
    /\ p \in Procs /\ Top.events = <<>> /\ Top'.events = <<>>
    /\ \A q \in Procs : q # p => proc'[q] = proc[q] /\ world'[q] = world[q]
    /\ proc'[p].held = proc[p].held /\ \A c \in Channels : world'[p][c] = <<>>

LEMMA PrefixIds ==
    ASSUME NEW a \in Seq(UnitSet), NEW b \in Seq(UnitSet)
    PROVE  \A k \in DOMAIN Ids(a) : \E j \in DOMAIN Ids(a \o b) : Ids(a)[k] = Ids(a \o b)[j]
<1> DEFINE m == Len(a)
           n == Len(b)
           s == a \o b
<1>1. m \in Nat /\ n \in Nat /\ s \in Seq(UnitSet) /\ Len(s) = m + n
      /\ \A i \in 1 .. m + n : s[i] = IF i <= m THEN a[i] ELSE b[i - m]
  BY LenProperties, ConcatProperties
<1>2. /\ DOMAIN Ids(a) = 1 .. m /\ \A k \in 1 .. m : Ids(a)[k] = a[k].id
      /\ DOMAIN Ids(s) = 1 .. m + n /\ \A k \in 1 .. m + n : Ids(s)[k] = s[k].id
  <2> HIDE DEF s
  <2> QED BY <1>1, IdsFacts, LenProperties
<1> HIDE DEF m, n, s
<1>3. ASSUME NEW k \in 1 .. m PROVE k \in 1 .. m + n /\ Ids(a)[k] = Ids(s)[k]
  <2>1. k \in 1 .. m + n /\ k <= m
    BY <1>1
  <2> QED BY <1>1, <1>2, <2>1
<1> QED BY <1>2, <1>3 DEF s

LEMMA ShutFacts ==
    ASSUME IInv, NEW p, Shut(p)
    PROVE  /\ OthersSame(p)
           /\ \A ch \in Channels : \A k \in DOMAIN Queue'[p][ch] :
                \E j \in DOMAIN Queue[p][ch] : Queue'[p][ch][k] = Queue[p][ch][j]
<1>1. /\ p \in Procs /\ Top.events = <<>> /\ Top'.events = <<>>
      /\ \A q \in Procs : q # p => proc'[q] = proc[q] /\ world'[q] = world[q]
      /\ proc'[p].held = proc[p].held /\ \A c \in Channels : world'[p][c] = <<>>
      /\ world[p] \in WorldSet /\ proc[p] \in ProcSet
  BY Typed DEF Shut
<1>2. ASSUME NEW q \in Procs, q # p PROVE Queue'[q] = Queue[q]
  <2>1. \A ch \in Channels : Line(world'[q], proc'[q], Top', q, ch) = Line(world[q], proc[q], Top, q, ch)
    BY <1>1, <1>2 DEF Line, Flying
  <2> QED BY <2>1, QueueIs
<1>3. ASSUME NEW ch \in Channels
      PROVE  \A k \in DOMAIN Queue'[p][ch] :
                \E j \in DOMAIN Queue[p][ch] : Queue'[p][ch][k] = Queue[p][ch][j]
  <2>1. Queue[p][ch] = Ids(Line(world[p], proc[p], Top, p, ch))
        /\ Queue'[p][ch] = Ids(Line(world'[p], proc'[p], Top', p, ch))
    BY <1>1, QueueIs
  <2> DEFINE a == Held(proc[p], ch)
             b == world[p][ch]
  <2>2. /\ a \in Seq(UnitSet) /\ b \in Seq(UnitSet)
        /\ \A g, r : g.events = <<>> \/ g.p # r => Line(world[p], proc[p], g, r, ch) = a \o b
    BY <1>1, LineIs
  <2>3. Line(world[p], proc[p], Top, p, ch) = a \o b
    BY <1>1, <2>2
  <2>4. Held(proc'[p], ch) = a /\ Flying(Top', p, ch) = <<>>
    BY <1>1 DEF Held, Flying
  <2> HIDE DEF a, b
  <2>5. a \o <<>> = a
    BY <2>2, ConcatEmptySeq
  <2>6. Line(world'[p], proc'[p], Top', p, ch) = a
    BY <1>1, <2>4, <2>5 DEF Line
  <2> QED BY <2>1, <2>2, <2>3, <2>6, PrefixIds
<1> QED BY <1>2, <1>3 DEF OthersSame

LEMMA ActMaps ==
    ASSUME IInv, ActOnExit
    PROVE  Promise!Next \/ UNCHANGED Promise!vars
<1> DEFINE p == Top.p
           r == [proc[p] EXCEPT !.status = "exit", !.input = FALSE, !.pending = <<>>]
           f == [Top EXCEPT !.stage = "finish"]
<1>1. Top.kind = "poll" /\ Top.stage = "act" /\ p \in Procs
      /\ Top.kind \notin {"top"} \cup InCallback
      /\ PollOK(world[p], proc[p], Top) /\ Top.events = <<>>
  BY PollTop DEF ActOnExit, Polling, InCallback
<1>2. CASE stack' = Returned /\ UNCHANGED <<world, proc, asked>>
  BY <1>1, <1>2, ReturnUnseen
<1>3. CASE /\ Top.exited /\ Closed(p) /\ stack' = Becomes(f)
           /\ proc' = [proc EXCEPT ![p].status = "exit", ![p].input = FALSE,
                                   ![p].pending = <<>>]
  <2>1. proc \in [Procs -> ProcSet] /\ proc[p] \in ProcSet
    BY <1>1, Typed
  <2>2. /\ r.held = proc[p].held /\ r.dead = proc[p].dead /\ r.reported = proc[p].reported
        /\ r.paused = proc[p].paused
    BY <2>1 DEF ProcSet
  <2>3. proc' = [proc EXCEPT ![p] = r]
    BY <1>3, <2>1 DEF ProcSet
  <2> HIDE DEF r
  <2>4. \A q \in Procs : /\ proc'[q].held = proc[q].held /\ proc'[q].reported = proc[q].reported
                         /\ proc'[q].paused = proc[q].paused /\ proc'[q].dead = proc[q].dead
                         /\ q # p => proc'[q] = proc[q]
    BY <1>1, <2>1, <2>2, <2>3
  <2>5. /\ \A q \in Procs : q # p => world'[q] = world[q]
        /\ \A c \in Channels : world'[p][c] = <<>>
    BY <1>1, <1>3, ClosedFacts
  <2>6. f \in FrameSet /\ f.kind = Top.kind /\ f.p = Top.p /\ f.events = <<>>
    BY <1>1, AtStage
  <2> HIDE DEF f
  <2>7. CASE Drained(world[p])
    <3>1. world[p] \in WorldSet
      BY <1>1, Typed
    <3>2. \A c \in Channels : world[p][c] = <<>>
      BY <2>7, <3>1 DEF Drained, Channels, WorldSet
    <3>3. Calm
      BY <2>4, <2>5, <3>2 DEF Calm
    <3>4. Moves
      BY <1>3, <2>6 DEF Moves
    <3> QED BY <1>1, <3>3, <3>4, CalmStep
  <2>8. CASE proc[p].paused
    <3>1. Top' = f /\ Callbacks' = Callbacks
      BY <1>3, <2>6, Becoming
    <3>2. Shut(p)
      BY <1>1, <2>4, <2>5, <2>6, <3>1 DEF Shut
    <3>3. Muted' = Muted /\ Told' = Told /\ p \in Muted
      BY <1>1, <2>4, <2>8 DEF Muted, Told, Deaf
    <3>4. p \in Muted' /\ Muted' = Muted \cup {p}
      BY <3>3
    <3> QED BY <1>1, <3>1, <3>2, <3>3, <3>4, ShutFacts, DiscardStep
  <2> QED BY <1>1, <1>3, <2>7, <2>8 DEF PollOK
<1> QED BY <1>2, <1>3 DEF ActOnExit, ExitSeen

-----------------------------------------------------------------------------
(* The news of the end.                                                    *)

LEMMA SentinelOn ==
    ASSUME IInv, NEW p \in Procs, NEW f \in FrameSet, f.kind = Top.kind, f.p = Top.p,
           stack' = Calls(f, Callback("sentinel", p))
    PROVE  Top'.events = <<>> /\ Callbacks' = Append(Callbacks, <<"sentinel", p>>)
<1> DEFINE g == Callback("sentinel", p)
<1>1. g \in FrameSet /\ g.kind = "sentinel" /\ g.p = p /\ g.events = <<>>
  <2>1. Starting(g)
    BY NewFrames
  <2>2. g.kind = "sentinel" /\ g.p = p
    BY DEF Callback, Frame
  <2> QED BY <2>1, <2>2 DEF Starting
<1> HIDE DEF g
<1>2. Top' = g /\ Callbacks' = CallStep(g, Callbacks)
  BY <1>1, CallingOn DEF g
<1> QED BY <1>1, <1>2 DEF CallStep, InCallback

\* Nothing waits for a process that ended and whose decoder was flushed.
LEMMA NothingWaits ==
    ASSUME IInv, NEW p \in Procs, Top.events = <<>>, Drained(world[p]), proc[p].held = <<>>
    PROVE  \A ch \in Channels : Queue[p][ch] = <<>>
<1> TAKE ch \in Channels
<1>1. Queue[p][ch] = Ids(Line(world[p], proc[p], Top, p, ch))
  BY QueueIs
<1>2. world[p] \in WorldSet /\ proc[p] \in ProcSet
  BY Typed
<1>3. /\ Held(proc[p], ch) = <<>> /\ world[p][ch] = <<>>
      /\ \A g, r : g.events = <<>> \/ g.p # r =>
           Line(world[p], proc[p], g, r, ch) = Held(proc[p], ch) \o world[p][ch]
  <2>1. world[p][ch] = <<>>
    BY <1>2 DEF Drained, Channels, WorldSet
  <2> QED BY <1>2, <2>1, LineIs DEF Held
<1>4. Line(world[p], proc[p], Top, p, ch) = <<>> \o <<>>
  BY <1>3
<1>5. <<>> \in Seq(UnitSet) /\ <<>> \o <<>> = <<>>
  <2>1. <<>> \in Seq(UnitSet)
    BY EmptySeq
  <2> QED BY <2>1, ConcatEmptySeq
<1> QED BY <1>1, <1>4, <1>5, IdsFacts

LEMMA TellMaps ==
    ASSUME IInv, TellSentinel
    PROVE  Promise!Next \/ UNCHANGED Promise!vars
<1> DEFINE p == Top.p
           f == [Top EXCEPT !.stage = "over"]
<1>1. Top.kind = "poll" /\ Top.stage = "exit" /\ p \in Procs /\ Top.events = <<>>
      /\ Ended(proc[p]) /\ proc[p].held = <<>>
  BY PollTop DEF TellSentinel, Polling
<1>2. /\ \A q \in Procs : /\ proc'[q].paused = proc[q].paused
                          /\ proc'[q].dead = proc[q].dead
                          /\ proc'[q].held = proc[q].held
                          /\ proc'[q].reported = (proc[q].reported \/ q = p)
      /\ UNCHANGED <<world, asked>>
  BY <1>1, ReportFacts DEF TellSentinel
<1>3. f \in FrameSet /\ f.kind = Top.kind /\ f.p = Top.p /\ f.events = <<>>
  BY <1>1, AtStage
<1>4. stack' = IF proc[p].reported THEN Becomes(f) ELSE Calls(f, Callback("sentinel", p))
  BY DEF TellSentinel
<1> HIDE DEF f
<1>5. CASE proc[p].reported
  <2>1. \A q \in Procs : proc'[q].reported = proc[q].reported
    <3>1. \A q \in Procs : proc[q].reported \in BOOLEAN
      BY Typed DEF ProcSet
    <3> QED BY <1>2, <1>5, <3>1
  <2>2. Calm
    BY <1>2, <2>1 DEF Calm
  <2>3. Moves
    BY <1>3, <1>4, <1>5 DEF Moves
  <2> QED BY <1>1, <2>2, <2>3, CalmStep
<1>6. CASE ~proc[p].reported
  <2>1. Top'.events = <<>> /\ Callbacks' = Append(Callbacks, <<"sentinel", p>>)
    BY <1>1, <1>3, <1>4, <1>6, SentinelOn
  <2>2. ASSUME NEW q \in Procs PROVE Queue'[q] = Queue[q]
    <3>1. \A ch \in Channels : Line(world'[q], proc'[q], Top', q, ch) = Line(world[q], proc[q], Top, q, ch)
      BY <1>1, <1>2, <2>1 DEF Line, Held, Flying
    <3> QED BY <3>1, QueueIs
  <2>3. Queue' = Queue /\ OthersSame(p)
    BY <2>2, QueueIs DEF OthersSame
  <2>4. Muted' = Muted /\ Told' = Told \cup {p} /\ p \notin Told
    <3>1. \A q \in Procs : proc[q].reported \in BOOLEAN
      BY Typed DEF ProcSet
    <3> QED BY <1>1, <1>2, <1>6, <3>1 DEF Muted, Told, Deaf
  <2>5. Drained(world[p])
    BY <1>1, Typed DEF ProcOK
  <2>6. \A ch \in Channels : Queue[p][ch] = <<>>
    BY <1>1, <2>5, NothingWaits
  <2> QED BY <1>1, <2>1, <2>3, <2>4, <2>6, SentinelStep
<1> QED BY <1>5, <1>6

-----------------------------------------------------------------------------
(* Lisp and the programs.                                                  *)

LEMMA DeleteMaps ==
    ASSUME IInv, NEW p \in Procs, Delete(p)
    PROVE  Promise!Next
<1> DEFINE f == [Top EXCEPT !.left = 0]
<1>1. Top.kind \in InLisp
  BY DEF Delete, Runs
<1>2. Top \in FrameSet /\ Top.events = <<>>
  BY <1>1, OtherTop DEF InLisp
<1>3. f \in FrameSet /\ f.kind = Top.kind /\ f.p = Top.p /\ f.events = <<>>
  BY <1>2 DEF FrameSet
<1>4. stack' = IF proc[p].reported THEN Becomes(f) ELSE Calls(f, Callback("sentinel", p))
  BY DEF Delete
<1> HIDE DEF f
<1>5. /\ \A q \in Procs : q # p => proc'[q] = proc[q] /\ world'[q] = world[q]
      /\ proc'[p].dead /\ proc'[p].reported /\ proc'[p].held = proc[p].held
      /\ \A c \in Channels : world'[p][c] = <<>>
  BY DeleteFacts
<1>6. p \in Muted' /\ Muted' = Muted \cup {p} /\ Told' = Told \cup {p}
  BY <1>5 DEF Muted, Told, Deaf
<1>7. CASE proc[p].reported
  <2>1. Top' = f /\ Callbacks' = Callbacks
    BY <1>3, <1>4, <1>7, Becoming
  <2>2. Shut(p)
    BY <1>2, <1>3, <1>5, <2>1 DEF Shut
  <2>3. Told' = Told
    BY <1>6, <1>7 DEF Told
  <2> QED BY <1>6, <2>1, <2>2, <2>3, ShutFacts, DiscardStep
<1>8. CASE ~proc[p].reported
  <2>1. Top'.events = <<>> /\ Callbacks' = Append(Callbacks, <<"sentinel", p>>)
    BY <1>3, <1>4, <1>8, SentinelOn
  <2>2. Shut(p)
    BY <1>2, <1>5, <2>1 DEF Shut
  <2>3. p \notin Told
    BY <1>8 DEF Told
  <2> QED BY <1>6, <2>1, <2>2, <2>3, ShutFacts, SentinelStep
<1> QED BY <1>7, <1>8

LEMMA SetFilterMaps ==
    ASSUME IInv, NEW p \in Kept, SetFilter(p)
    PROVE  Promise!Next
<1> DEFINE f == [Top EXCEPT !.left = 0]
<1>1. Top.kind \in InLisp /\ UNCHANGED <<world, asked>> /\ stack' = Becomes(f)
  BY DEF SetFilter, Runs
<1>2. Top \in FrameSet /\ Top.events = <<>> /\ p \in Procs /\ ~proc[p].dead
  BY <1>1, OtherTop DEF InLisp, Kept
<1>3. f \in FrameSet /\ f.kind = Top.kind /\ f.p = Top.p /\ f.events = <<>>
  BY <1>2 DEF FrameSet
<1> HIDE DEF f
<1>4. Top' = f /\ Callbacks' = Callbacks
  BY <1>1, <1>3, Becoming
<1>5. /\ \A q \in Procs : q # p => proc'[q] = proc[q]
      /\ proc'[p].dead = proc[p].dead /\ proc'[p].reported = proc[p].reported
      /\ proc'[p].held = proc[p].held
  BY <1>2, SetFilterFacts
<1>6. ASSUME NEW q \in Procs PROVE Queue'[q] = Queue[q]
  <2>1. proc'[q].held = proc[q].held
    BY <1>5
  <2>2. \A ch \in Channels : Line(world'[q], proc'[q], Top', q, ch) = Line(world[q], proc[q], Top, q, ch)
    BY <1>1, <1>2, <1>3, <1>4, <2>1 DEF Line, Held, Flying
  <2> QED BY <2>2, QueueIs
<1>7. Queue' = Queue
  BY <1>6, QueueIs
<1>8. Told' = Told /\ Muted' \in {Muted \cup {p}, Muted \ {p}}
  <2>1. Told' = Told
    BY <1>5 DEF Told
  <2>2. \A q \in Procs : q # p => (q \in Muted' <=> q \in Muted)
    BY <1>5 DEF Muted, Deaf
  <2>3. Muted' \in SUBSET Procs /\ Muted \in SUBSET Procs
    BY DEF Muted
  <2>4. CASE p \in Muted'
    <3>1. Muted' = Muted \cup {p}
      BY <1>2, <2>2, <2>3, <2>4
    <3> QED BY <2>1, <3>1
  <2>5. CASE p \notin Muted'
    <3>1. Muted' = Muted \ {p}
      BY <1>2, <2>2, <2>3, <2>5
    <3> QED BY <2>1, <3>1
  <2> QED BY <2>4, <2>5
<1> QED BY <1>2, <1>4, <1>7, <1>8, MuteStep

LEMMA ReturnMaps ==
    ASSUME IInv, CallbackReturns \/ Throw
    PROVE  Promise!Next
<1>1. Top.kind \in InCallback /\ Top.kind # "top" /\ UNCHANGED <<world, proc, asked>>
  BY DEF CallbackReturns, Throw, Runs, InCallback
<1>2. Top.events = <<>>
  BY <1>1, OtherTop DEF InCallback
<1>3. /\ Top'.events = <<>> /\ Len(Callbacks') < Len(Callbacks)
      /\ Callbacks' = SubSeq(Callbacks, 1, Len(Callbacks'))
  <2>1. CASE CallbackReturns
    BY <1>1, <2>1, Returning DEF CallbackReturns
  <2>2. CASE Throw
    <3>1. PICK k \in 1 .. Len(stack) - 1 : stack' = SubSeq(stack, 1, k)
      BY <2>2 DEF Throw
    <3> QED BY <1>1, <3>1, Cutting
  <2> QED BY <2>1, <2>2
<1>4. Calm
  BY <1>1 DEF Calm
<1> QED BY <1>2, <1>3, <1>4, QuietTops, ReturnStep

LEMMA WriteMaps ==
    ASSUME IInv, NEW p \in Procs, NEW ch \in Channels, NEW u \in UnitSet, WritesTo(p, ch, u)
    PROVE  Promise!Next
<1>1. /\ world'[p][ch] = Append(world[p][ch], u)
      /\ \A c \in Channels : c # ch => world'[p][c] = world[p][c]
      /\ \A q \in Procs : q # p => world'[q] = world[q]
      /\ proc' = proc /\ Top' = Top /\ Callbacks' = Callbacks
  BY DEF WritesTo, Top, Callbacks
<1>2. Muted' = Muted /\ Told' = Told
  BY <1>1 DEF Muted, Told, Deaf
<1>3. OthersSame(p)
  <2>1. ASSUME NEW q \in Procs, q # p PROVE Queue'[q] = Queue[q]
    <3>1. \A c \in Channels : Line(world'[q], proc'[q], Top', q, c) = Line(world[q], proc[q], Top, q, c)
      BY <1>1, <2>1 DEF Line
    <3> QED BY <3>1, QueueIs
  <2> QED BY <2>1 DEF OthersSame
<1>4. \A c \in Channels :
        /\ Queue[p][c] = Ids(Line(world[p], proc[p], Top, p, c))
        /\ Queue'[p][c] = Ids(Line(world'[p], proc'[p], Top', p, c))
  BY QueueIs
<1>5. \A c \in Channels \ {ch} : Queue'[p][c] = Queue[p][c]
  BY <1>1, <1>4 DEF Line
<1> DEFINE a == Taken(p, ch)
           w == world[p][ch]
<1>6. a \in Seq(UnitSet) /\ w \in Seq(UnitSet)
  BY FlyingType
<1>7. Queue[p][ch] = Ids(a \o w) /\ Queue'[p][ch] = Ids(a \o Append(w, u))
  BY <1>1, <1>4 DEF Line, Taken
<1> HIDE DEF a, w
<1>8. a \o Append(w, u) = Append(a \o w, u) /\ a \o w \in Seq(UnitSet)
  <2>1. <<u>> \in Seq(UnitSet) /\ Append(w, u) = w \o <<u>>
    BY <1>6, AppendIsConcat
  <2>2. a \o w \in Seq(UnitSet)
    BY <1>6, ConcatProperties
  <2>3. Append(a \o w, u) = (a \o w) \o <<u>>
    BY <2>2, AppendIsConcat
  <2>4. (a \o w) \o <<u>> = a \o (w \o <<u>>)
    BY <1>6, <2>1, ConcatAssociative
  <2> QED BY <2>1, <2>2, <2>3, <2>4
<1>9. /\ Queue'[p][ch] # <<>>
      /\ SubSeq(Queue'[p][ch], 1, Len(Queue'[p][ch]) - 1) = Queue[p][ch]
  BY <1>7, <1>8, AppendIds
<1> QED BY <1>1, <1>2, <1>3, <1>5, <1>9, WriteStep

LEMMA ProgramsMap ==
    ASSUME IInv, Programs
    PROVE  Promise!Next \/ UNCHANGED Promise!vars
<1>1. PICK p \in Procs :
        \/ \E form \in {"whole", "part"} : Write(p, "out", form)
        \/ Write(p, "err", "whole")
        \/ ReadInput(p) \/ Echo(p) \/ Finish(p)
  BY DEF Programs
<1>2. "out" \in Channels /\ "err" \in Channels
  BY DEF Channels
<1>3. Quiet(p) \/ \E ch \in Channels, u \in UnitSet : WritesTo(p, ch, u)
  BY <1>1, <1>2, WriteIs, QuietIs DEF WritesTo
<1>4. CASE Quiet(p)
  <2>1. /\ \A q \in Procs, c \in Channels : world'[q][c] = world[q][c]
        /\ proc' = proc /\ Top' = Top /\ Callbacks' = Callbacks
    BY <1>4 DEF Quiet, Top, Callbacks
  <2>2. \A q \in Procs, c \in Channels :
          Line(world'[q], proc'[q], Top', q, c) = Line(world[q], proc[q], Top, q, c)
    BY <2>1 DEF Line
  <2>3. Queue' = Queue
    BY <2>2, QueueIs
  <2>4. Muted' = Muted /\ Told' = Told
    BY <2>1 DEF Muted, Told, Deaf
  <2> QED BY <2>1, <2>3, <2>4, SeenSame
<1> QED BY <1>3, <1>4, WriteMaps

-----------------------------------------------------------------------------
(* Subprocess implements Delivery.                                         *)

LEMMA InitDelivers == Init => Promise!Init
<1> SUFFICES ASSUME Init PROVE Promise!Init
  OBVIOUS
<1> DEFINE top == [Frame("top", NoProc) EXCEPT !.left = 1]
<1>1. top \in FrameSet /\ top.kind = "top" /\ top.events = <<>>
  <2>1. /\ Frame("top", NoProc) \in FrameSet /\ Frame("top", NoProc).kind = "top"
        /\ Frame("top", NoProc).events = <<>>
    BY NewFrame DEF InLisp
  <2> QED BY <2>1 DEF FrameSet
<1>2. stack = <<top>>
  BY DEF Init
<1>3. IInv
  BY InitIInv
<1>4. Callbacks = <<>>
  <2> HIDE DEF top
  <2>1. <<>> \in Seq(FrameSet) /\ stack = Append(<<>>, top)
    BY <1>1, <1>2, EmptySeq
  <2>2. CallsOf(stack) = CallsOf(<<>>)
    BY <1>1, <2>1, PushCalls DEF CallStep, InCallback
  <2>3. PICK g : Calling(g, <<>>, Len(<<>>)) /\ CallsOf(<<>>) = g[Len(<<>>)]
    <3>1. Len(<<>>) \in Nat
      BY EmptySeq
    <3> QED BY <3>1, CallsOfIs
  <2>4. Len(<<>>) = 0 /\ g[0] = <<>>
    <3>1. Len(<<>>) = 0
      BY EmptySeq
    <3> QED BY <2>3, <3>1, CallingFacts
  <2> QED BY <2>2, <2>3, <2>4 DEF Callbacks
<1>5. Top = top
  <2> HIDE DEF top
  <2>1. Len(<<top>>) = 1 /\ <<top>>[1] = top
    OBVIOUS
  <2> QED BY <1>2, <2>1 DEF Top, Last
<1> HIDE DEF top
<1>6. ASSUME NEW p \in Procs
      PROVE  /\ proc[p].held = <<>> /\ proc[p].dead = proc[p].reported
             /\ proc[p].paused = FALSE
             /\ proc[p].dead \in BOOLEAN
             /\ \A ch \in Channels : world[p][ch] = <<>>
  <2>1. proc[p] \in Starts(p)
    BY DEF Init
  <2>2. (\E input \in BOOLEAN : proc[p] = Fresh(p, input)) \/ proc[p] = Gone(p)
    <3>1. TRUE \in BOOLEAN /\ (p \in Terminals) \in BOOLEAN
      OBVIOUS
    <3>2. proc[p] = Fresh(p, TRUE) \/ proc[p] = Fresh(p, p \in Terminals) \/ proc[p] = Gone(p)
      BY <2>1 DEF Starts
    <3> QED BY <3>1, <3>2, Zenon
  <2>3. /\ proc[p].held = <<>> /\ proc[p].dead = proc[p].reported /\ proc[p].paused = FALSE
        /\ proc[p].dead \in BOOLEAN
    <3>1. \A input \in BOOLEAN :
             /\ Fresh(p, input).held = <<>> /\ Fresh(p, input).dead = FALSE
             /\ Fresh(p, input).reported = FALSE /\ Fresh(p, input).paused = FALSE
      BY DEF Fresh
    <3>2. /\ Gone(p).held = <<>> /\ Gone(p).dead = TRUE
          /\ Gone(p).reported = TRUE /\ Gone(p).paused = FALSE
      BY DEF Gone, Fresh
    <3> QED BY <2>2, <3>1, <3>2
  <2>4. world[p] = [runs |-> ~proc[p].dead, out |-> <<>>, err |-> <<>>, stdin |-> 0, owes |-> FALSE]
    BY DEF Init
  <2>5. \A b \in BOOLEAN : \A ch \in Channels :
          [runs |-> b, out |-> <<>>, err |-> <<>>, stdin |-> 0, owes |-> FALSE][ch] = <<>>
    BY DEF Channels
  <2>6. (~proc[p].dead) \in BOOLEAN
    OBVIOUS
  <2> QED BY <2>3, <2>4, <2>5, <2>6
<1>7. ASSUME NEW p \in Procs, NEW ch \in Channels PROVE Queue[p][ch] = <<>>
  <2>1. Queue[p][ch] = Ids(Line(world[p], proc[p], Top, p, ch))
    BY QueueIs
  <2>2. Held(proc[p], ch) = <<>> /\ Flying(Top, p, ch) = <<>> /\ world[p][ch] = <<>>
    BY <1>1, <1>5, <1>6 DEF Held, Flying
  <2>3. <<>> \in Seq(UnitSet) /\ <<>> \o <<>> = <<>>
    <3>1. <<>> \in Seq(UnitSet)
      BY EmptySeq
    <3> QED BY <3>1, ConcatEmptySeq
  <2>4. Line(world[p], proc[p], Top, p, ch) = <<>>
    BY <2>2, <2>3 DEF Line
  <2> QED BY <2>1, <2>3, <2>4, IdsFacts
<1>8. Queue = [p \in Procs |-> [ch \in Channels |-> <<>>]]
  BY <1>7 DEF Queue
<1>9. Told \in SUBSET Procs /\ Muted = Told
  BY <1>6 DEF Told, Muted, Deaf
<1> QED BY <1>4, <1>8, <1>9 DEF Promise!Init, Queue, Told, Muted, Ids

LEMMA NextDelivers == IInv /\ [Next]_vars => [Promise!Next]_(Promise!vars)
<1> SUFFICES ASSUME IInv, [Next]_vars PROVE Promise!Next \/ UNCHANGED Promise!vars
  OBVIOUS
<1>1. CASE Poll
  BY <1>1, PollStartUnseen, ReadChildUnseen, ActMaps, ReadPipeUnseen, DeliverMaps, FlushMaps,
     TellMaps, PollNextUnseen DEF Poll
<1>2. CASE Wait \/ SendLoop \/ QuitSend
  BY <1>2, WaitUnseen, SendUnseen, QuitUnseen
<1>3. CASE Lisp
  <2>1. Kept \in SUBSET Procs
    BY DEF Kept
  <2>2. CASE \E p \in Kept : SetFilter(p) \/ Delete(p)
    BY <2>1, <2>2, SetFilterMaps, DeleteMaps
  <2>3. CASE CallbackReturns \/ Throw
    BY <2>3, ReturnMaps
  <2>4. CASE ~(\E p \in Kept : SetFilter(p) \/ Delete(p)) /\ ~(CallbackReturns \/ Throw)
    BY <1>3, <2>4, LispUnseen DEF Lisp
  <2> QED BY <2>2, <2>3, <2>4
<1>4. CASE Programs
  BY <1>4, ProgramsMap
<1>5. CASE UNCHANGED vars
  <2>1. /\ UNCHANGED <<world, proc>> /\ Top' = Top /\ Callbacks' = Callbacks
    BY <1>5 DEF vars, Top, Callbacks
  <2>2. \A q \in Procs, c \in Channels :
          Line(world'[q], proc'[q], Top', q, c) = Line(world[q], proc[q], Top, q, c)
    BY <2>1
  <2>3. Queue' = Queue
    BY <2>2, QueueIs
  <2>4. Muted' = Muted /\ Told' = Told
    BY <2>1 DEF Muted, Told, Deaf
  <2> QED BY <2>1, <2>3, <2>4, SeenSame
<1> QED BY <1>1, <1>2, <1>3, <1>4, <1>5 DEF Next, Emacs

\* Filters get the output of each channel in order and without gaps, the
\* sentinel is called once, after all of it, and then no filter any more,
\* whatever the callbacks of poll_proc wait for, send, mute, delete or throw.
THEOREM ImplementsDelivery == Spec => DeliverySpec
<1>1. Spec => Promise!Init
  BY InitDelivers DEF Spec
<1>2. Spec => [][Promise!Next]_(Promise!vars)
  BY Invariance, NextDelivers, PTL DEF Spec
<1> QED BY <1>1, <1>2 DEF DeliverySpec, Promise!Spec
=============================================================================
