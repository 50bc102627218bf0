------------------------ MODULE ThreadBindingsProofs ------------------------
(***************************************************************************)
(* Proofs about ThreadBindings: exchange_bindings turns the shallow cells  *)
(* of the thread that leaves into its deep bindings and back, and so the   *)
(* whole implements DeepBinding, for any number of threads and buffers and *)
(* bindings nested to any depth.                                           *)
(***************************************************************************)
EXTENDS ThreadBindings, SequenceTheorems, FiniteSetTheorems,
        WellFoundedInduction, TLAPS

-----------------------------------------------------------------------------
(* Least and greatest indices.                                             *)

\* Every nonempty set of naturals has a least element.
LEMMA LeastIndex ==
    ASSUME NEW T \in SUBSET Nat, T # {}
    PROVE  \E x \in T : \A y \in T : x <= y
<1> DEFINE R == {ss \in Nat \X Nat : ss[1] < ss[2]}
<1>1. IsWellFoundedOn(R, Nat)
  BY NatLessThanWellFounded DEF OpToRel
<1>2. PICK x \in T : \A y \in T : ~(<<y, x>> \in R)
  BY <1>1, WFMin
<1>3. ASSUME NEW y \in T, y < x PROVE FALSE
  <2>1. <<y, x>> \in Nat \X Nat
    OBVIOUS
  <2>2. <<y, x>>[1] < <<y, x>>[2]
    BY <1>3
  <2> QED BY <1>2, <2>1, <2>2
<1> QED BY <1>3

LEMMA MinFacts ==
    ASSUME NEW T \in SUBSET Nat, T # {}
    PROVE  Min(T) \in T /\ \A y \in T : Min(T) <= y
<1>1. PICK x \in T : \A y \in T : x <= y
  BY LeastIndex
<1> QED BY <1>1 DEF Min

\* The least member is the one that is below all others.
LEMMA MinIs ==
    ASSUME NEW T \in SUBSET Nat, NEW m \in T, \A y \in T : m <= y
    PROVE  Min(T) = m
<1>1. Min(T) \in T /\ Min(T) <= m
  BY MinFacts
<1>2. m <= Min(T) /\ m \in Nat /\ Min(T) \in Nat
  BY <1>1
<1> QED BY <1>1, <1>2

LEMMA MaxFacts ==
    ASSUME NEW n \in Nat, NEW T \in SUBSET (1 .. n), T # {}
    PROVE  Max(T) \in T /\ \A y \in T : y <= Max(T)
<1> DEFINE D == {n - y : y \in T}
<1>1. D \in SUBSET Nat /\ D # {}
  <2>1. \A y \in T : y \in Nat /\ y <= n
    OBVIOUS
  <2>2. \A y \in T : n - y \in Nat
    BY <2>1
  <2> QED BY <2>2
<1>2. PICK d \in D : \A e \in D : d <= e
  BY <1>1, LeastIndex
<1>3. PICK x \in T : d = n - x
  BY <1>2
<1>4. \A y \in T : x >= y
  <2> TAKE y \in T
  <2>1. n - x <= n - y
    BY <1>2, <1>3
  <2>2. x \in Nat /\ y \in Nat
    OBVIOUS
  <2> QED BY <2>1, <2>2
<1>5. Max(T) \in T /\ \A y \in T : Max(T) >= y
  BY <1>4 DEF Max
<1>6. \A y \in T : y \in Nat
  OBVIOUS
<1> QED BY <1>5, <1>6

LEMMA MaxIs ==
    ASSUME NEW n \in Nat, NEW T \in SUBSET (1 .. n), NEW m \in T, \A y \in T : y <= m
    PROVE  Max(T) = m
<1>1. Max(T) \in T /\ m <= Max(T)
  BY MaxFacts
<1>2. \A y \in T : y \in Nat
  OBVIOUS
<1>3. Max(T) <= m /\ m \in Nat /\ Max(T) \in Nat
  BY <1>1, <1>2
<1> QED BY <1>1, <1>3

-----------------------------------------------------------------------------
(* exchange_bindings.                                                      *)

\* The equation that defines the turns of the loop.
Turn(st, outgoing, n) == IF outgoing THEN Len(st) + 1 - n ELSE n
Walk(f, c, st, outgoing) ==
    f = [n \in 0 .. Len(st) |->
           IF n = 0 THEN [cell |-> c, stack |-> st]
           ELSE SwapOne(f[n - 1], Turn(st, outgoing, n))]

LEMMA ExchangeWalks ==
    ASSUME NEW c, NEW st, NEW outgoing
    PROVE  Exchange(c, st, outgoing) = (CHOOSE f : Walk(f, c, st, outgoing))[Len(st)]
BY DEF Exchange, Walk, Turn

\* One function only satisfies it.
LEMMA WalkUnique ==
    ASSUME NEW c, NEW st, NEW outgoing, Len(st) \in Nat,
           NEW f, NEW g, Walk(f, c, st, outgoing), Walk(g, c, st, outgoing)
    PROVE  f = g
<1> DEFINE T == {n \in 0 .. Len(st) : f[n] # g[n]}
<1>1. SUFFICES ASSUME T # {} PROVE FALSE
  BY DEF Walk
<1>2. PICK n \in T : \A y \in T : n <= y
  <2>1. T \in SUBSET Nat
    OBVIOUS
  <2> HIDE DEF T
  <2> QED BY <1>1, <2>1, LeastIndex
<1>3. f[0] = g[0]
  BY DEF Walk
<1>4. n \in 1 .. Len(st) /\ n - 1 \in 0 .. Len(st) /\ n - 1 \notin T
  BY <1>2, <1>3
<1>5. f[n - 1] = g[n - 1]
  BY <1>4
<1>6. f[n] = SwapOne(f[n - 1], Turn(st, outgoing, n))
  BY <1>4 DEF Walk
<1>7. g[n] = SwapOne(g[n - 1], Turn(st, outgoing, n))
  BY <1>4 DEF Walk
<1> QED BY <1>2, <1>5, <1>6, <1>7

LEMMA ExchangeIs ==
    ASSUME NEW c, NEW st, NEW outgoing, Len(st) \in Nat,
           NEW f, Walk(f, c, st, outgoing)
    PROVE  Exchange(c, st, outgoing) = f[Len(st)]
<1> DEFINE g == CHOOSE h : Walk(h, c, st, outgoing)
<1>1. Walk(g, c, st, outgoing)
  OBVIOUS
<1>2. g = f
  BY <1>1, WalkUnique
<1> QED BY <1>2, ExchangeWalks

-----------------------------------------------------------------------------
(* What the loop has done once entries n + 1 .. of the outgoing stack, or  *)
(* entries 1 .. n of the incoming one, have had their turn.                *)

Cellular == Values \cup {Nil, Void, None}
Entries  == [place : Places, origin : Buffers \cup {None}, old : Cellular]

At(st, p)       == {i \in DOMAIN st : st[i].place = p}
Above(st, p, n) == {i \in At(st, p) : i > n}
UpTo(st, p, n)  == {i \in At(st, p) : i <= n}

OutCell(c, st, n) ==
    [p \in Places |-> IF Exists(p) /\ Above(st, p, n) # {}
                      THEN st[Min(Above(st, p, n))].old ELSE c[p]]
OutStack(c, st, n) ==
    [i \in 1 .. Len(st) |->
        IF i > n /\ Exists(st[i].place)
        THEN [st[i] EXCEPT !.old = OutCell(c, st, i)[st[i].place]] ELSE st[i]]

InCell(c, st, n) ==
    [p \in Places |-> IF Exists(p) /\ UpTo(st, p, n) # {}
                      THEN st[Max(UpTo(st, p, n))].old ELSE c[p]]
InStack(c, st, n) ==
    [i \in 1 .. Len(st) |->
        IF i <= n /\ Exists(st[i].place)
        THEN [st[i] EXCEPT !.old = InCell(c, st, i - 1)[st[i].place]] ELSE st[i]]

LEMMA AtFacts ==
    ASSUME NEW st \in Seq(Entries), NEW p, NEW n \in 0 .. Len(st)
    PROVE  /\ At(st, p) \in SUBSET (1 .. Len(st))
           /\ Above(st, p, n) \in SUBSET Nat /\ Above(st, p, n) \in SUBSET (1 .. Len(st))
           /\ UpTo(st, p, n) \in SUBSET (1 .. Len(st)) /\ UpTo(st, p, n) \in SUBSET (1 .. n)
           /\ Len(st) \in Nat /\ DOMAIN st = 1 .. Len(st)
           /\ \A i \in 1 .. Len(st) : st[i] \in Entries
<1>1. Len(st) \in Nat /\ DOMAIN st = 1 .. Len(st) /\ \A i \in 1 .. Len(st) : st[i] \in Entries
  BY LenProperties, ElementOfSeq
<1> QED BY <1>1 DEF At, Above, UpTo

\* One turn on the outgoing stack.
LEMMA OutTurn ==
    ASSUME NEW c \in [Places -> Cellular], NEW st \in Seq(Entries), NEW n \in 1 .. Len(st)
    PROVE  SwapOne([cell |-> OutCell(c, st, n), stack |-> OutStack(c, st, n)], n)
             = [cell |-> OutCell(c, st, n - 1), stack |-> OutStack(c, st, n - 1)]
<1> DEFINE q == st[n].place
           s == [cell |-> OutCell(c, st, n), stack |-> OutStack(c, st, n)]
<1>1. /\ Len(st) \in Nat /\ DOMAIN st = 1 .. Len(st) /\ n \in 1 .. Len(st) /\ n - 1 \in 0 .. Len(st)
      /\ \A i \in 1 .. Len(st) : st[i] \in Entries
  BY AtFacts
<1>2. s.stack[n] = st[n] /\ st[n] \in Entries /\ q \in Places
  BY <1>1 DEF OutStack, Entries
<1>3. \A p \in Places : p # q => Above(st, p, n - 1) = Above(st, p, n)
  BY <1>1 DEF Above, At
<1>4. CASE ~Exists(q)
  <2>1. SwapOne(s, n) = s
    BY <1>2, <1>4 DEF SwapOne
  <2>2. OutCell(c, st, n - 1) = OutCell(c, st, n)
    BY <1>3, <1>4 DEF OutCell
  <2>3. \A i \in 1 .. Len(st) : i > n - 1 /\ Exists(st[i].place) <=> i > n /\ Exists(st[i].place)
    BY <1>1, <1>4
  <2>4. OutStack(c, st, n - 1) = OutStack(c, st, n)
    BY <2>3 DEF OutStack
  <2> QED BY <2>1, <2>2, <2>4
<1>5. CASE Exists(q)
  <2>1. SwapOne(s, n) = [cell  |-> [OutCell(c, st, n) EXCEPT ![q] = st[n].old],
                         stack |-> [OutStack(c, st, n) EXCEPT ![n].old = OutCell(c, st, n)[q]]]
    BY <1>2, <1>5 DEF SwapOne
  <2>2. Min(Above(st, q, n - 1)) = n /\ Above(st, q, n - 1) # {}
    <3>1. n \in Above(st, q, n - 1) /\ \A i \in Above(st, q, n - 1) : n <= i
      BY <1>1 DEF Above, At
    <3>2. Above(st, q, n - 1) \in SUBSET Nat
      BY <1>1, AtFacts
    <3> QED BY <3>1, <3>2, MinIs
  <2>3. [OutCell(c, st, n) EXCEPT ![q] = st[n].old] = OutCell(c, st, n - 1)
    BY <1>2, <1>3, <1>5, <2>2 DEF OutCell
  <2>4. [OutStack(c, st, n) EXCEPT ![n].old = OutCell(c, st, n)[q]] = OutStack(c, st, n - 1)
    <3>1. \A i \in 1 .. Len(st) : i # n => (i > n - 1 <=> i > n)
      BY <1>1
    <3>2. \A i \in 1 .. Len(st) : i # n => OutStack(c, st, n)[i] = OutStack(c, st, n - 1)[i]
      BY <3>1 DEF OutStack
    <3>3. OutStack(c, st, n - 1)[n] = [st[n] EXCEPT !.old = OutCell(c, st, n)[q]]
      BY <1>1, <1>5 DEF OutStack
    <3>4. OutStack(c, st, n)[n] = st[n]
      BY <1>2
    <3>5. OutStack(c, st, n - 1) = [i \in 1 .. Len(st) |-> OutStack(c, st, n - 1)[i]]
      BY DEF OutStack
    <3>6. OutStack(c, st, n) = [i \in 1 .. Len(st) |-> OutStack(c, st, n)[i]]
      BY DEF OutStack
    <3> QED BY <3>2, <3>3, <3>4, <3>5, <3>6, <1>1
  <2> QED BY <2>1, <2>3, <2>4
<1> QED BY <1>4, <1>5

\* One turn on the incoming stack.
LEMMA InTurn ==
    ASSUME NEW c \in [Places -> Cellular], NEW st \in Seq(Entries), NEW n \in 1 .. Len(st)
    PROVE  SwapOne([cell |-> InCell(c, st, n - 1), stack |-> InStack(c, st, n - 1)], n)
             = [cell |-> InCell(c, st, n), stack |-> InStack(c, st, n)]
<1> DEFINE q == st[n].place
           s == [cell |-> InCell(c, st, n - 1), stack |-> InStack(c, st, n - 1)]
<1>1. /\ Len(st) \in Nat /\ DOMAIN st = 1 .. Len(st) /\ n \in 1 .. Len(st) /\ n \in 0 .. Len(st)
      /\ \A i \in 1 .. Len(st) : st[i] \in Entries
  BY AtFacts
<1>2. s.stack[n] = st[n] /\ st[n] \in Entries /\ q \in Places
  BY <1>1 DEF InStack, Entries
<1>3. \A p \in Places : p # q => UpTo(st, p, n - 1) = UpTo(st, p, n)
  BY <1>1 DEF UpTo, At
<1>4. CASE ~Exists(q)
  <2>1. SwapOne(s, n) = s
    BY <1>2, <1>4 DEF SwapOne
  <2>2. InCell(c, st, n - 1) = InCell(c, st, n)
    BY <1>3, <1>4 DEF InCell
  <2>3. \A i \in 1 .. Len(st) : i <= n - 1 /\ Exists(st[i].place) <=> i <= n /\ Exists(st[i].place)
    BY <1>1, <1>4
  <2>4. InStack(c, st, n - 1) = InStack(c, st, n)
    BY <2>3 DEF InStack
  <2> QED BY <2>1, <2>2, <2>4
<1>5. CASE Exists(q)
  <2>1. SwapOne(s, n) = [cell  |-> [InCell(c, st, n - 1) EXCEPT ![q] = st[n].old],
                         stack |-> [InStack(c, st, n - 1) EXCEPT ![n].old = InCell(c, st, n - 1)[q]]]
    BY <1>2, <1>5 DEF SwapOne
  <2>2. Max(UpTo(st, q, n)) = n /\ UpTo(st, q, n) # {}
    <3>1. n \in UpTo(st, q, n) /\ \A i \in UpTo(st, q, n) : i <= n
      BY <1>1 DEF UpTo, At
    <3>2. UpTo(st, q, n) \in SUBSET (1 .. n) /\ n \in Nat
      BY <1>1, AtFacts
    <3> QED BY <3>1, <3>2, MaxIs
  <2>3. [InCell(c, st, n - 1) EXCEPT ![q] = st[n].old] = InCell(c, st, n)
    BY <1>2, <1>3, <1>5, <2>2 DEF InCell
  <2>4. [InStack(c, st, n - 1) EXCEPT ![n].old = InCell(c, st, n - 1)[q]] = InStack(c, st, n)
    <3>1. \A i \in 1 .. Len(st) : i # n => (i <= n - 1 <=> i <= n)
      BY <1>1
    <3>2. \A i \in 1 .. Len(st) : i # n => InStack(c, st, n - 1)[i] = InStack(c, st, n)[i]
      BY <3>1 DEF InStack
    <3>3. InStack(c, st, n)[n] = [st[n] EXCEPT !.old = InCell(c, st, n - 1)[q]]
      BY <1>1, <1>5 DEF InStack
    <3>4. InStack(c, st, n - 1)[n] = st[n]
      BY <1>2
    <3>5. InStack(c, st, n - 1) = [i \in 1 .. Len(st) |-> InStack(c, st, n - 1)[i]]
      BY DEF InStack
    <3>6. InStack(c, st, n) = [i \in 1 .. Len(st) |-> InStack(c, st, n)[i]]
      BY DEF InStack
    <3> QED BY <3>2, <3>3, <3>4, <3>5, <3>6, <1>1
  <2> QED BY <2>1, <2>3, <2>4
<1> QED BY <1>4, <1>5

\* Before any turn.
LEMMA NoTurn ==
    ASSUME NEW c \in [Places -> Cellular], NEW st \in Seq(Entries)
    PROVE  /\ OutCell(c, st, Len(st)) = c /\ OutStack(c, st, Len(st)) = st
           /\ InCell(c, st, 0) = c /\ InStack(c, st, 0) = st
<1>1. Len(st) \in Nat /\ DOMAIN st = 1 .. Len(st) /\ st = [i \in 1 .. Len(st) |-> st[i]]
  BY LenProperties, ElementOfSeq
<1>2. \A p \in Places : Above(st, p, Len(st)) = {} /\ UpTo(st, p, 0) = {}
  BY <1>1 DEF Above, UpTo, At
<1>3. \A i \in 1 .. Len(st) : ~(i > Len(st)) /\ ~(i <= 0)
  BY <1>1
<1> QED BY <1>1, <1>2, <1>3 DEF OutCell, OutStack, InCell, InStack

\* The outgoing stack, as a whole.
LEMMA ExchangeOut ==
    ASSUME NEW c \in [Places -> Cellular], NEW st \in Seq(Entries)
    PROVE  Exchange(c, st, TRUE) = [cell |-> OutCell(c, st, 0), stack |-> OutStack(c, st, 0)]
<1> DEFINE State(n) == [cell |-> OutCell(c, st, Len(st) - n), stack |-> OutStack(c, st, Len(st) - n)]
           f == [n \in 0 .. Len(st) |-> State(n)]
<1>1. Len(st) \in Nat
  BY LenProperties
<1>2. State(0) = [cell |-> c, stack |-> st]
  BY <1>1, NoTurn
<1>3. \A n \in 1 .. Len(st) : State(n) = SwapOne(f[n - 1], Turn(st, TRUE, n))
  <2> TAKE n \in 1 .. Len(st)
  <2>1. /\ Len(st) + 1 - n \in 1 .. Len(st) /\ n - 1 \in 0 .. Len(st)
        /\ Len(st) - (n - 1) = Len(st) + 1 - n /\ Len(st) - n = (Len(st) + 1 - n) - 1
    BY <1>1
  <2>2. f[n - 1] = [cell |-> OutCell(c, st, Len(st) + 1 - n), stack |-> OutStack(c, st, Len(st) + 1 - n)]
    BY <2>1
  <2>3. State(n) = SwapOne(f[n - 1], Len(st) + 1 - n)
    BY <2>1, <2>2, OutTurn
  <2> QED BY <2>3 DEF Turn
<1>4. Walk(f, c, st, TRUE)
  <2> HIDE DEF State
  <2>0. \A n \in 0 .. Len(st) : n # 0 => n \in 1 .. Len(st)
    BY <1>1
  <2>1. f = [n \in 0 .. Len(st) |-> IF n = 0 THEN [cell |-> c, stack |-> st]
                                    ELSE SwapOne(f[n - 1], Turn(st, TRUE, n))]
    BY <1>2, <1>3, <2>0
  <2> QED BY <2>1 DEF Walk
<1>5. Exchange(c, st, TRUE) = f[Len(st)]
  <2> HIDE DEF f
  <2> QED BY <1>1, <1>4, ExchangeIs
<1>6. f[Len(st)] = State(Len(st)) /\ Len(st) - Len(st) = 0
  BY <1>1
<1> QED BY <1>5, <1>6

\* And the incoming one.
LEMMA ExchangeIn ==
    ASSUME NEW c \in [Places -> Cellular], NEW st \in Seq(Entries)
    PROVE  Exchange(c, st, FALSE) = [cell |-> InCell(c, st, Len(st)), stack |-> InStack(c, st, Len(st))]
<1> DEFINE State(n) == [cell |-> InCell(c, st, n), stack |-> InStack(c, st, n)]
           f == [n \in 0 .. Len(st) |-> State(n)]
<1>1. Len(st) \in Nat
  BY LenProperties
<1>2. State(0) = [cell |-> c, stack |-> st]
  BY NoTurn
<1>3. \A n \in 1 .. Len(st) : State(n) = SwapOne(f[n - 1], Turn(st, FALSE, n))
  <2> TAKE n \in 1 .. Len(st)
  <2>1. n - 1 \in 0 .. Len(st)
    BY <1>1
  <2>2. State(n) = SwapOne(f[n - 1], n)
    BY <2>1, InTurn
  <2> QED BY <2>2 DEF Turn
<1>4. Walk(f, c, st, FALSE)
  <2> HIDE DEF State
  <2>0. \A n \in 0 .. Len(st) : n # 0 => n \in 1 .. Len(st)
    BY <1>1
  <2>1. f = [n \in 0 .. Len(st) |-> IF n = 0 THEN [cell |-> c, stack |-> st]
                                    ELSE SwapOne(f[n - 1], Turn(st, FALSE, n))]
    BY <1>2, <1>3, <2>0
  <2> QED BY <2>1 DEF Walk
<1>5. Exchange(c, st, FALSE) = f[Len(st)]
  <2> HIDE DEF f
  <2> QED BY <1>1, <1>4, ExchangeIs
<1>6. f[Len(st)] = State(Len(st))
  BY <1>1
<1> QED BY <1>5, <1>6

-----------------------------------------------------------------------------
(* What the two halves of a switch keep, and what they mean together.      *)

\* No default value is missing, in its cell or where a binding put it.
KeepsDefault(c, st) ==
    /\ c[Default] # None
    /\ \A i \in DOMAIN st : st[i].place = Default => st[i].old # None

\* Two stacks of the same bindings, whose values may differ.
Alike(st, su) ==
    /\ Len(st) = Len(su)
    /\ \A i \in 1 .. Len(st) : st[i].place = su[i].place /\ st[i].origin = su[i].origin

LEMMA EntryFacts ==
    ASSUME NEW e \in Entries, NEW v \in Cellular
    PROVE  /\ [e EXCEPT !.old = v] \in Entries
           /\ [e EXCEPT !.old = v].place = e.place /\ [e EXCEPT !.old = v].origin = e.origin
           /\ [e EXCEPT !.old = v].old = v
           /\ e.place \in Places /\ e.old \in Cellular
BY DEF Entries

LEMMA OutFacts ==
    ASSUME NEW c \in [Places -> Cellular], NEW st \in Seq(Entries), KeepsDefault(c, st),
           NEW n \in 0 .. Len(st)
    PROVE  /\ OutCell(c, st, n) \in [Places -> Cellular]
           /\ OutCell(c, st, n)[Default] # None
           /\ \A p \in Places : ~Exists(p) => OutCell(c, st, n)[p] = c[p]
<1>1. /\ Len(st) \in Nat /\ DOMAIN st = 1 .. Len(st)
      /\ \A i \in 1 .. Len(st) : st[i] \in Entries
  BY AtFacts
<1>2. \A p \in Places : Above(st, p, n) # {} =>
         /\ Min(Above(st, p, n)) \in 1 .. Len(st)
         /\ st[Min(Above(st, p, n))].place = p
  <2> TAKE p \in Places
  <2> HAVE Above(st, p, n) # {}
  <2>1. Min(Above(st, p, n)) \in Above(st, p, n)
    BY AtFacts, MinFacts
  <2> QED BY <1>1, <2>1 DEF Above, At
<1>3. \A p \in Places : Above(st, p, n) # {} =>
         /\ st[Min(Above(st, p, n))].old \in Cellular
         /\ p = Default => st[Min(Above(st, p, n))].old # None
  BY <1>1, <1>2 DEF Entries, KeepsDefault
<1>4. Default \in Places
  BY DEF Places
<1> QED BY <1>3, <1>4 DEF OutCell, KeepsDefault

LEMMA OutStackFacts ==
    ASSUME NEW c \in [Places -> Cellular], NEW st \in Seq(Entries), KeepsDefault(c, st)
    PROVE  /\ OutStack(c, st, 0) \in Seq(Entries)
           /\ Alike(OutStack(c, st, 0), st)
           /\ \A i \in 1 .. Len(st) : OutStack(c, st, 0)[i].old
                = IF Exists(st[i].place) THEN OutCell(c, st, i)[st[i].place] ELSE st[i].old
           /\ \A i \in DOMAIN OutStack(c, st, 0) :
                OutStack(c, st, 0)[i].place = Default => OutStack(c, st, 0)[i].old # None
<1>1. /\ Len(st) \in Nat /\ DOMAIN st = 1 .. Len(st)
      /\ \A i \in 1 .. Len(st) : st[i] \in Entries
  BY AtFacts
<1>2. \A i \in 1 .. Len(st) : /\ OutCell(c, st, i) \in [Places -> Cellular]
                              /\ OutCell(c, st, i)[Default] # None
  BY <1>1, OutFacts
<1> DEFINE os == OutStack(c, st, 0)
<1>3. \A i \in 1 .. Len(st) : os[i] = IF Exists(st[i].place)
           THEN [st[i] EXCEPT !.old = OutCell(c, st, i)[st[i].place]] ELSE st[i]
  BY <1>1 DEF OutStack
<1>4. \A i \in 1 .. Len(st) :
         /\ os[i] \in Entries /\ os[i].place = st[i].place /\ os[i].origin = st[i].origin
         /\ os[i].old = IF Exists(st[i].place) THEN OutCell(c, st, i)[st[i].place] ELSE st[i].old
  <2> TAKE i \in 1 .. Len(st)
  <2> DEFINE v == OutCell(c, st, i)[st[i].place]
  <2>1. st[i] \in Entries
    BY <1>1
  <2>2. st[i].place \in Places
    BY <2>1 DEF Entries
  <2>3. v \in Cellular
    BY <2>2, <1>2
  <2>4. os[i] = IF Exists(st[i].place) THEN [st[i] EXCEPT !.old = v] ELSE st[i]
    BY <1>3
  <2>5. [st[i] EXCEPT !.old = v] \in Entries /\ [st[i] EXCEPT !.old = v].place = st[i].place
        /\ [st[i] EXCEPT !.old = v].origin = st[i].origin /\ [st[i] EXCEPT !.old = v].old = v
    <3> HIDE DEF v
    <3> QED BY <2>1, <2>3, EntryFacts
  <2> HIDE DEF v, os
  <2>6. CASE Exists(st[i].place)
    BY <2>4, <2>5, <2>6 DEF v
  <2>7. CASE ~Exists(st[i].place)
    BY <2>1, <2>4, <2>7 DEF v
  <2> QED BY <2>6, <2>7
<1>5. DOMAIN os = 1 .. Len(st) /\ os = [i \in 1 .. Len(st) |-> os[i]]
  BY DEF OutStack
<1> HIDE DEF os
<1>6. os \in Seq(Entries) /\ Len(os) = Len(st)
  BY <1>1, <1>4, <1>5, IsASeq, LenProperties
<1>7. \A i \in DOMAIN os : os[i].place = Default => os[i].old # None
  BY <1>1, <1>2, <1>4, <1>5 DEF KeepsDefault
<1> USE DEF os
<1> QED BY <1>4, <1>6, <1>7 DEF Alike

LEMMA InFacts ==
    ASSUME NEW c \in [Places -> Cellular], NEW st \in Seq(Entries), KeepsDefault(c, st),
           NEW n \in 0 .. Len(st)
    PROVE  /\ InCell(c, st, n) \in [Places -> Cellular]
           /\ InCell(c, st, n)[Default] # None
           /\ \A p \in Places : ~Exists(p) => InCell(c, st, n)[p] = c[p]
<1>1. /\ Len(st) \in Nat /\ DOMAIN st = 1 .. Len(st)
      /\ \A i \in 1 .. Len(st) : st[i] \in Entries
  BY AtFacts
<1>2. \A p \in Places : UpTo(st, p, n) # {} =>
         /\ Max(UpTo(st, p, n)) \in 1 .. Len(st)
         /\ st[Max(UpTo(st, p, n))].place = p
  <2> TAKE p \in Places
  <2> HAVE UpTo(st, p, n) # {}
  <2>1. Max(UpTo(st, p, n)) \in UpTo(st, p, n)
    BY <1>1, AtFacts, MaxFacts
  <2> QED BY <1>1, <2>1 DEF UpTo, At
<1>3. \A p \in Places : UpTo(st, p, n) # {} =>
         /\ st[Max(UpTo(st, p, n))].old \in Cellular
         /\ p = Default => st[Max(UpTo(st, p, n))].old # None
  BY <1>1, <1>2 DEF Entries, KeepsDefault
<1>4. Default \in Places
  BY DEF Places
<1> QED BY <1>3, <1>4 DEF InCell, KeepsDefault

LEMMA InStackFacts ==
    ASSUME NEW c \in [Places -> Cellular], NEW st \in Seq(Entries), KeepsDefault(c, st)
    PROVE  /\ InStack(c, st, Len(st)) \in Seq(Entries)
           /\ Alike(InStack(c, st, Len(st)), st)
           /\ \A i \in 1 .. Len(st) : InStack(c, st, Len(st))[i].old
                = IF Exists(st[i].place) THEN InCell(c, st, i - 1)[st[i].place] ELSE st[i].old
           /\ \A i \in DOMAIN InStack(c, st, Len(st)) :
                InStack(c, st, Len(st))[i].place = Default => InStack(c, st, Len(st))[i].old # None
<1>1. /\ Len(st) \in Nat /\ DOMAIN st = 1 .. Len(st)
      /\ \A i \in 1 .. Len(st) : st[i] \in Entries
  BY AtFacts
<1>2. \A i \in 1 .. Len(st) : i - 1 \in 0 .. Len(st)
  BY <1>1
<1>3. \A i \in 1 .. Len(st) : /\ InCell(c, st, i - 1) \in [Places -> Cellular]
                              /\ InCell(c, st, i - 1)[Default] # None
  BY <1>2, InFacts
<1> DEFINE is == InStack(c, st, Len(st))
<1>4. \A i \in 1 .. Len(st) : is[i] = IF Exists(st[i].place)
           THEN [st[i] EXCEPT !.old = InCell(c, st, i - 1)[st[i].place]] ELSE st[i]
  BY <1>1 DEF InStack
<1>5. \A i \in 1 .. Len(st) :
         /\ is[i] \in Entries /\ is[i].place = st[i].place /\ is[i].origin = st[i].origin
         /\ is[i].old = IF Exists(st[i].place) THEN InCell(c, st, i - 1)[st[i].place] ELSE st[i].old
  <2> TAKE i \in 1 .. Len(st)
  <2> DEFINE v == InCell(c, st, i - 1)[st[i].place]
  <2>1. st[i] \in Entries
    BY <1>1
  <2>2. st[i].place \in Places
    BY <2>1 DEF Entries
  <2>3. v \in Cellular
    BY <2>2, <1>3
  <2>4. is[i] = IF Exists(st[i].place) THEN [st[i] EXCEPT !.old = v] ELSE st[i]
    BY <1>4
  <2>5. [st[i] EXCEPT !.old = v] \in Entries /\ [st[i] EXCEPT !.old = v].place = st[i].place
        /\ [st[i] EXCEPT !.old = v].origin = st[i].origin /\ [st[i] EXCEPT !.old = v].old = v
    <3> HIDE DEF v
    <3> QED BY <2>1, <2>3, EntryFacts
  <2> HIDE DEF v, is
  <2>6. CASE Exists(st[i].place)
    BY <2>4, <2>5, <2>6 DEF v
  <2>7. CASE ~Exists(st[i].place)
    BY <2>1, <2>4, <2>7 DEF v
  <2> QED BY <2>6, <2>7
<1>6. DOMAIN is = 1 .. Len(st) /\ is = [i \in 1 .. Len(st) |-> is[i]]
  BY DEF InStack
<1> HIDE DEF is
<1>7. is \in Seq(Entries) /\ Len(is) = Len(st)
  BY <1>1, <1>5, <1>6, IsASeq, LenProperties
<1>8. \A i \in DOMAIN is : is[i].place = Default => is[i].old # None
  BY <1>1, <1>3, <1>5, <1>6 DEF KeepsDefault
<1> USE DEF is
<1> QED BY <1>5, <1>7, <1>8 DEF Alike

\* The deep bindings of a thread are the same before and after it comes in.
LEMMA InThenOut ==
    ASSUME NEW d \in [Places -> Cellular], NEW su \in Seq(Entries), KeepsDefault(d, su),
           NEW e, e = InCell(d, su, Len(su)), NEW is, is = InStack(d, su, Len(su))
    PROVE  /\ OutCell(e, is, 0) = d
           /\ \A i \in 1 .. Len(su) :
                Exists(su[i].place) => OutCell(e, is, i)[su[i].place] = su[i].old
<1>1. /\ Len(su) \in Nat /\ DOMAIN su = 1 .. Len(su)
      /\ \A i \in 1 .. Len(su) : su[i] \in Entries
  BY AtFacts
<1>2. /\ is \in Seq(Entries) /\ Len(is) = Len(su) /\ DOMAIN is = 1 .. Len(su)
      /\ \A i \in 1 .. Len(su) : /\ is[i].place = su[i].place
                                 /\ is[i].old = IF Exists(su[i].place)
                                                THEN InCell(d, su, i - 1)[su[i].place]
                                                ELSE su[i].old
  BY <1>1, InStackFacts, LenProperties DEF Alike
<1>3. \A p : At(is, p) = At(su, p)
  BY <1>1, <1>2 DEF At
<1>4. e \in [Places -> Cellular] /\ \A p \in Places : ~Exists(p) => e[p] = d[p]
  BY <1>1, InFacts
<1>5. \A p \in Places, n \in 0 .. Len(su) :
         /\ Above(is, p, n) = Above(su, p, n)
         /\ Above(su, p, n) \in SUBSET Nat
         /\ Above(su, p, n) # {} =>
              /\ Min(Above(su, p, n)) \in Above(su, p, n)
              /\ \A j \in Above(su, p, n) : Min(Above(su, p, n)) <= j
  BY <1>3, AtFacts, MinFacts DEF Above
\* The first entry of a place above n puts away what entry n had, or d.
<1>6. ASSUME NEW p \in Places, Exists(p), NEW n \in 0 .. Len(su),
             n = 0 \/ n \in At(su, p)
      PROVE  OutCell(e, is, n)[p] = IF n = 0 THEN d[p] ELSE su[n].old
  <2> DEFINE old == IF n = 0 THEN d[p] ELSE su[n].old
  <2>0. (n = 0 /\ old = d[p]) \/ (n \in At(su, p) /\ old = su[n].old)
    BY <1>1, <1>6 DEF At
  <2> SUFFICES OutCell(e, is, n)[p] = old
    OBVIOUS
  <2> HIDE DEF old
  <2>1. CASE Above(su, p, n) = {}
    <3>1. OutCell(e, is, n)[p] = e[p]
      BY <1>5, <2>1 DEF OutCell
    <3>2. UpTo(su, p, Len(su)) = At(su, p)
      BY <1>1 DEF UpTo, At
    <3>3. CASE n = 0 /\ old = d[p]
      <4>1. At(su, p) = {}
        BY <1>1, <2>1, <3>3 DEF Above, At
      <4> QED BY <3>1, <3>2, <3>3, <4>1 DEF InCell
    <3>4. CASE n \in At(su, p) /\ old = su[n].old
      <4>1. \A j \in At(su, p) : j <= n
        BY <1>1, <2>1 DEF Above, At
      <4>2. Max(UpTo(su, p, Len(su))) = n
        BY <1>1, <3>2, <3>4, <4>1, MaxIs, AtFacts
      <4> QED BY <1>6, <3>1, <3>2, <3>4, <4>2 DEF InCell
    <3> QED BY <2>0, <3>3, <3>4
  <2>2. CASE Above(su, p, n) # {}
    <3> DEFINE m == Min(Above(su, p, n))
    <3>1. m \in Above(su, p, n) /\ \A j \in Above(su, p, n) : m <= j
      BY <1>5, <2>2
    <3>2. OutCell(e, is, n)[p] = is[m].old
      BY <1>5, <1>6, <2>2 DEF OutCell
    <3> HIDE DEF m
    <3>3. m \in 1 .. Len(su) /\ m > n /\ su[m].place = p
      BY <1>1, <3>1 DEF Above, At
    <3>4. is[m].old = InCell(d, su, m - 1)[p]
      BY <1>2, <1>6, <3>3
    <3>5. \A j \in At(su, p) : j <= m - 1 => j <= n
      BY <1>1, <3>1, <3>3 DEF Above, At
    <3>6. CASE n = 0 /\ old = d[p]
      <4>1. UpTo(su, p, m - 1) = {}
        BY <1>1, <3>5, <3>6 DEF UpTo, At
      <4> QED BY <3>2, <3>4, <3>6, <4>1 DEF InCell
    <3>7. CASE n \in At(su, p) /\ old = su[n].old
      <4>1. n \in UpTo(su, p, m - 1) /\ \A j \in UpTo(su, p, m - 1) : j <= n
        BY <1>1, <3>3, <3>5, <3>7 DEF UpTo, At
      <4>2. UpTo(su, p, m - 1) \in SUBSET (1 .. Len(su))
        BY <1>1 DEF UpTo, At
      <4>3. Max(UpTo(su, p, m - 1)) = n
        BY <1>1, <4>1, <4>2, MaxIs
      <4> QED BY <1>6, <3>2, <3>4, <3>7, <4>1, <4>3 DEF InCell
    <3> QED BY <2>0, <3>6, <3>7
  <2> QED BY <2>1, <2>2
<1>7. OutCell(e, is, 0) = d
  <2>1. \A p \in Places : Exists(p) => OutCell(e, is, 0)[p] = d[p]
    <3> TAKE p \in Places
    <3> HAVE Exists(p)
    <3>1. 0 \in 0 .. Len(su)
      BY <1>1
    <3> QED BY <1>6, <3>1
  <2>2. \A p \in Places : ~Exists(p) => OutCell(e, is, 0)[p] = d[p]
    BY <1>4 DEF OutCell
  <2>3. OutCell(e, is, 0) = [p \in Places |-> OutCell(e, is, 0)[p]]
    BY DEF OutCell
  <2> QED BY <2>1, <2>2, <2>3
<1>8. \A i \in 1 .. Len(su) :
         Exists(su[i].place) => OutCell(e, is, i)[su[i].place] = su[i].old
  <2> TAKE i \in 1 .. Len(su)
  <2> HAVE Exists(su[i].place)
  <2>1. i \in At(su, su[i].place) /\ i \in 0 .. Len(su)
    BY <1>1 DEF At
  <2>2. su[i].place \in Places /\ i # 0
    BY <1>1 DEF Entries
  <2> QED BY <1>6, <2>1, <2>2
<1> QED BY <1>7, <1>8

-----------------------------------------------------------------------------
(* The inductive invariant.                                                *)

\* A killed buffer has no local value; a default that a binding put away is a
\* value; threads that are not there have no bindings.
Bindings ==
    /\ \A p \in Places : ~Exists(p) => cell[p] = None
    /\ \A t \in Threads : KeepsDefault(cell, stack[t])
    /\ \A t \in Threads : t \notin alive \cup {Main} => stack[t] = << >>
    /\ unborn \cap alive = {}

BInv == TypeOK /\ Bindings

\* The types as the steps below use them.
LEMMA Typed ==
    ASSUME BInv
    PROVE  /\ current \in Threads /\ Main \in Threads /\ Home \in Buffers
           /\ alive \subseteq Workers /\ unborn \subseteq Workers /\ live \subseteq Buffers
           /\ buffer \in [Threads -> Buffers] /\ cell \in [Places -> Cellular]
           /\ stack \in [Threads -> Seq(Entries)]
           /\ \A t \in Threads : buffer[t] \in Places /\ KeepsDefault(cell, stack[t])
           /\ Default \in Places /\ Exists(Default) /\ cell[Default] # None
           /\ automatic \in BOOLEAN /\ ops \in 0 .. MaxOps /\ MaxOps \in Nat
           /\ \A p \in Places : ~Exists(p) => cell[p] = None
           /\ \A p \in Places : p # Default => p \in Buffers
           /\ \A b \in Buffers : b \in Places /\ b # Default
           /\ Values \subseteq Cellular /\ {Nil, Void, None} \subseteq Cellular
BY BoundAssumption, PlaceAssumption
   DEF BInv, TypeOK, Bindings, Threads, Places, Exists, Cellular, Entries

LEMMA ThreeMarks == Void # None /\ Nil # None
<1>1. \A x, y : Cardinality({x, y}) \in {1, 2}
  <2> TAKE x, y
  <2>1. IsFiniteSet({x}) /\ Cardinality({x}) = 1
    BY FS_Singleton
  <2>2. Cardinality({x} \cup {y}) = IF y \in {x} THEN Cardinality({x}) ELSE Cardinality({x}) + 1
    BY <2>1, FS_AddElement
  <2>3. {x} \cup {y} = {x, y}
    OBVIOUS
  <2> QED BY <2>1, <2>2, <2>3
<1>2. Void = None => {Nil, Void, None} = {Nil, Void}
  OBVIOUS
<1>3. Nil = None => {Nil, Void, None} = {Nil, Void}
  OBVIOUS
<1>4. Cardinality({Nil, Void}) # 3
  <2>1. Cardinality({Nil, Void}) \in {1, 2}
    BY <1>1
  <2> QED BY <2>1
<1> QED BY <1>2, <1>3, <1>4, ValueAssumption

LEMMA InitBInv == Init => BInv
<1> SUFFICES ASSUME Init PROVE BInv
  OBVIOUS
<1>1. /\ stack \in [Threads -> Seq(Entries)] /\ \A t \in Threads : stack[t] = << >>
      /\ << >> \in Seq(Entries)
  BY EmptySeq DEF Init
<1>2. \A t \in Threads : DOMAIN stack[t] = {}
  BY <1>1
<1>3. Default \in Places
  BY DEF Places
<1>4. \A p \in Places : /\ cell[p] = IF p = Default THEN Void ELSE None
                       /\ cell[p] \in Values \cup {Nil, Void, None}
  BY DEF Init
<1>5. TypeOK
  <2>1. current \in alive \cup {Main} /\ alive \subseteq Workers /\ unborn \subseteq Workers
    BY DEF Init
  <2>2. buffer \in [Threads -> Buffers] /\ live \subseteq Buffers
    BY PlaceAssumption DEF Init
  <2>3. cell \in [Places -> Values \cup {Nil, Void, None}] /\ cell[Default] # None
    BY <1>3, <1>4, ThreeMarks DEF Init
  <2>4. automatic \in BOOLEAN
    BY DEF Init
  <2>5. ops \in 0 .. MaxOps
    BY BoundAssumption DEF Init
  <2> QED BY <1>1, <2>1, <2>2, <2>3, <2>4, <2>5 DEF TypeOK, Entries, Cellular
<1>6. Bindings
  BY <1>1, <1>2, <1>3, <1>4, ThreeMarks DEF Init, Bindings, KeepsDefault, Exists
<1> QED BY <1>5, <1>6 DEF BInv

\* What a step of the running thread on the cells must keep.
CellsKept ==
    /\ cell' \in [Places -> Cellular] /\ cell'[Default] # None
    /\ \A p \in Places : ~Exists(p) => cell'[p] = None

LEMMA StoreKeeps ==
    ASSUME BInv, NEW p \in Places, NEW v \in Cellular, p = Default => v # None, Store(p, v)
    PROVE  CellsKept
<1>1. cell \in [Places -> Cellular] /\ cell[Default] # None /\ Default \in Places
      /\ \A q \in Places : ~Exists(q) => cell[q] = None
  BY Typed
<1>2. CASE Exists(p)
  BY <1>1, <1>2 DEF Store, CellsKept
<1>3. CASE ~Exists(p)
  BY <1>1, <1>3 DEF Store, CellsKept
<1> QED BY <1>2, <1>3

LEMMA OpFacts ==
    ASSUME BInv, Op
    PROVE  ops' \in 0 .. MaxOps
<1>1. ops \in 0 .. MaxOps /\ MaxOps \in Nat
  BY Typed
<1> QED BY <1>1 DEF Op

\* A step that leaves the threads and the buffers alone.
LEMMA QuietBInv ==
    ASSUME BInv, CellsKept, stack' \in [Threads -> Seq(Entries)],
           \A t \in Threads : \A i \in DOMAIN stack'[t] :
              stack'[t][i].place = Default => stack'[t][i].old # None,
           \A t \in Threads : t \notin alive \cup {Main} => stack'[t] = << >>,
           UNCHANGED <<current, alive, unborn, buffer, live>>,
           automatic' \in BOOLEAN, ops' \in 0 .. MaxOps
    PROVE  BInv'
<1>1. TypeOK'
  BY DEF BInv, TypeOK, CellsKept, Cellular, Entries
<1>2. \A p \in Places : Exists(p)' <=> Exists(p)
  BY DEF Exists
<1>3. Bindings'
  BY <1>2 DEF BInv, Bindings, CellsKept, KeepsDefault
<1> QED BY <1>1, <1>3 DEF BInv

LEMMA CellBInv ==
    ASSUME BInv, CellsKept, UNCHANGED <<current, alive, unborn, buffer, live, stack>>,
           automatic' \in BOOLEAN, ops' \in 0 .. MaxOps
    PROVE  BInv'
<1>1. stack' \in [Threads -> Seq(Entries)]
  BY Typed
<1>2. \A t \in Threads : \A i \in DOMAIN stack'[t] :
         stack'[t][i].place = Default => stack'[t][i].old # None
  BY Typed DEF KeepsDefault
<1>3. \A t \in Threads : t \notin alive \cup {Main} => stack'[t] = << >>
  BY DEF BInv, Bindings
<1> QED BY <1>1, <1>2, <1>3, QuietBInv

LEMMA SpecbindBInv ==
    ASSUME BInv, NEW t \in Threads, NEW v \in Values, Specbind(t, v)
    PROVE  BInv'
<1> DEFINE p == IF IsLocal(t) THEN Here(t) ELSE Default
           e == [place |-> p,
                 origin |-> IF automatic /\ ~IsLocal(t) THEN Here(t) ELSE None,
                 old |-> cell[p]]
<1>1. p \in Places /\ e \in Entries /\ v \in Cellular /\ v # None
  BY Typed, ValueAssumption DEF Here, Entries
<1>2. e.place = Default => e.old # None
  BY Typed
<1>3. stack' = [stack EXCEPT ![t] = Append(@, e)] /\ Store(p, v)
  BY DEF Specbind
<1> HIDE DEF e, p
<1>4. CellsKept
  BY <1>1, <1>3, StoreKeeps
<1>5. stack \in [Threads -> Seq(Entries)] /\ stack[t] \in Seq(Entries) /\ KeepsDefault(cell, stack[t])
  BY Typed
<1>6. /\ Append(stack[t], e) \in Seq(Entries) /\ Len(stack[t]) \in Nat
      /\ DOMAIN stack[t] = 1 .. Len(stack[t])
      /\ DOMAIN Append(stack[t], e) = 1 .. Len(stack[t]) + 1
      /\ \A i \in 1 .. Len(stack[t]) : Append(stack[t], e)[i] = stack[t][i]
      /\ Append(stack[t], e)[Len(stack[t]) + 1] = e
  BY <1>1, <1>5, AppendProperties, LenProperties
<1>7. stack' \in [Threads -> Seq(Entries)]
  BY <1>3, <1>5, <1>6
<1>8. \A u \in Threads : \A i \in DOMAIN stack'[u] :
         stack'[u][i].place = Default => stack'[u][i].old # None
  <2>1. \A i \in 1 .. Len(stack[t]) + 1 : i \in 1 .. Len(stack[t]) \/ i = Len(stack[t]) + 1
    BY <1>6
  <2>2. \A i \in DOMAIN Append(stack[t], e) :
           Append(stack[t], e)[i].place = Default => Append(stack[t], e)[i].old # None
    BY <1>2, <1>5, <1>6, <2>1 DEF KeepsDefault
  <2>3. \A u \in Threads : KeepsDefault(cell, stack[u])
    BY Typed
  <2> QED BY <1>3, <1>5, <2>2, <2>3 DEF KeepsDefault
<1>9. \A u \in Threads : u \notin alive \cup {Main} => stack'[u] = << >>
  <2>1. t \in alive \cup {Main}
    BY DEF Specbind, BInv, TypeOK
  <2> QED BY <1>3, <1>5, <2>1 DEF BInv, Bindings
<1>10. /\ UNCHANGED <<current, alive, unborn, buffer, live>> /\ ops' \in 0 .. MaxOps
  BY OpFacts DEF Specbind
<1>11. automatic' \in BOOLEAN
  BY Typed DEF Specbind
<1> QED BY <1>4, <1>7, <1>8, <1>9, <1>10, <1>11, QuietBInv

LEMMA FrontIs ==
    ASSUME NEW st \in Seq(Entries), st # << >>
    PROVE  /\ Front(st) \in Seq(Entries) /\ Len(st) \in Nat \ {0}
           /\ Len(Front(st)) = Len(st) - 1 /\ DOMAIN Front(st) = 1 .. Len(st) - 1
           /\ \A i \in 1 .. Len(st) - 1 : Front(st)[i] = st[i]
           /\ Last(st) = st[Len(st)] /\ Last(st) \in Entries
           /\ DOMAIN st = 1 .. Len(st)
<1>1. Len(st) \in Nat /\ Len(st) # 0 /\ DOMAIN st = 1 .. Len(st)
  BY EmptySeq, LenProperties
<1>2. /\ SubSeq(st, 1, Len(st) - 1) \in Seq(Entries)
      /\ Len(SubSeq(st, 1, Len(st) - 1)) = Len(st) - 1
      /\ \A i \in 1 .. Len(st) - 1 : SubSeq(st, 1, Len(st) - 1)[i] = st[i]
  BY <1>1, SubSeqProperties
<1>3. DOMAIN SubSeq(st, 1, Len(st) - 1) = 1 .. Len(st) - 1
  BY <1>2, LenProperties
<1>4. st[Len(st)] \in Entries
  BY <1>1, ElementOfSeq
<1> QED BY <1>1, <1>2, <1>3, <1>4 DEF Front, Last

LEMMA UnbindBInv ==
    ASSUME BInv, NEW t \in Threads, Unbind(t)
    PROVE  BInv'
<1> DEFINE sb == Last(stack[t])
<1>1. /\ stack \in [Threads -> Seq(Entries)] /\ stack[t] \in Seq(Entries) /\ stack[t] # << >>
      /\ cell \in [Places -> Cellular] /\ cell[Default] # None /\ Default \in Places
      /\ \A q \in Places : ~Exists(q) => cell[q] = None
      /\ \A u \in Threads : KeepsDefault(cell, stack[u])
  BY Typed DEF Unbind
<1>2. /\ Front(stack[t]) \in Seq(Entries) /\ DOMAIN Front(stack[t]) \subseteq DOMAIN stack[t]
      /\ \A i \in DOMAIN Front(stack[t]) : Front(stack[t])[i] = stack[t][i]
      /\ sb \in Entries /\ sb.place \in Places /\ sb.old \in Cellular
      /\ sb.place = Default => sb.old # None
  <2>1. /\ Front(stack[t]) \in Seq(Entries) /\ Len(stack[t]) \in Nat \ {0}
        /\ DOMAIN Front(stack[t]) = 1 .. Len(stack[t]) - 1 /\ DOMAIN stack[t] = 1 .. Len(stack[t])
        /\ \A i \in 1 .. Len(stack[t]) - 1 : Front(stack[t])[i] = stack[t][i]
        /\ sb = stack[t][Len(stack[t])] /\ sb \in Entries
    BY <1>1, FrontIs
  <2>2. Len(stack[t]) \in DOMAIN stack[t] /\ 1 .. Len(stack[t]) - 1 \subseteq 1 .. Len(stack[t])
    BY <2>1
  <2>3. sb.place \in Places /\ sb.old \in Cellular
    BY <2>1 DEF Entries
  <2>4. sb.place = Default => sb.old # None
    BY <1>1, <2>1, <2>2 DEF KeepsDefault
  <2> QED BY <2>1, <2>2, <2>3, <2>4
<1>3. /\ cell' = IF cell[sb.place] = None THEN cell ELSE [cell EXCEPT ![sb.place] = sb.old]
      /\ stack' = [stack EXCEPT ![t] = Front(@)]
  BY DEF Unbind
<1> HIDE DEF sb
<1>4. CellsKept
  <2>1. CASE cell[sb.place] = None
    BY <1>1, <1>3, <2>1 DEF CellsKept
  <2>2. CASE cell[sb.place] # None
    BY <1>1, <1>2, <1>3, <2>2 DEF CellsKept
  <2> QED BY <2>1, <2>2
<1>5. stack' \in [Threads -> Seq(Entries)]
  BY <1>1, <1>2, <1>3
<1>6. \A u \in Threads : \A i \in DOMAIN stack'[u] :
         stack'[u][i].place = Default => stack'[u][i].old # None
  BY <1>1, <1>2, <1>3 DEF KeepsDefault
<1>7. \A u \in Threads : u \notin alive \cup {Main} => stack'[u] = << >>
  <2>1. t \in alive \cup {Main}
    BY DEF Unbind, BInv, TypeOK
  <2> QED BY <1>1, <1>3, <2>1 DEF BInv, Bindings
<1>8. UNCHANGED <<current, alive, unborn, buffer, live>> /\ ops' \in 0 .. MaxOps
  BY Typed DEF Unbind
<1>9. automatic' \in BOOLEAN
  BY Typed DEF Unbind
<1> QED BY <1>4, <1>5, <1>6, <1>7, <1>8, <1>9, QuietBInv

\* Assignments, and what makes and kills local values.
LEMMA AssignBInv ==
    ASSUME BInv, NEW t \in Threads,
           \/ \E v \in Values : SetSymbol(t, v) \/ SetSymbolDefault(t, v)
           \/ Makunbound(t) \/ MakeLocalVariable(t) \/ KillLocalVariable(t) \/ MakeVariableBufferLocal(t)
    PROVE  BInv'
<1>1. /\ Here(t) \in Places /\ Default \in Places
      /\ \A v \in Values : v \in Cellular /\ v # None
      /\ Void \in Cellular /\ Void # None /\ None \in Cellular /\ Nil \in Cellular /\ Nil # None
      /\ cell \in [Places -> Cellular] /\ cell[Default] # None /\ cell[Default] \in Cellular
      /\ \A q \in Places : ~Exists(q) => cell[q] = None
  BY Typed, ThreeMarks, ValueAssumption DEF Here
<1>2. Here(t) # Default
  BY Typed DEF Here
<1>3. CellsKept
  <2>1. CASE \E v \in Values : SetSymbol(t, v)
    <3>1. PICK v \in Values, p \in Places : Store(p, v)
      BY <1>1, <2>1 DEF SetSymbol
    <3> QED BY <1>1, <3>1, StoreKeeps
  <2>2. CASE \E v \in Values : SetSymbolDefault(t, v)
    <3>1. PICK v \in Values : Store(Default, v)
      BY <2>2 DEF SetSymbolDefault
    <3> QED BY <1>1, <3>1, StoreKeeps
  <2>3. CASE Makunbound(t)
    <3>1. PICK p \in Places : Store(p, Void)
      BY <1>1, <2>3 DEF Makunbound
    <3> QED BY <1>1, <3>1, StoreKeeps
  <2>4. CASE MakeLocalVariable(t)
    <3>1. Store(Here(t), cell[Default])
      BY <2>4 DEF MakeLocalVariable
    <3> QED BY <1>1, <3>1, StoreKeeps
  <2>5. CASE KillLocalVariable(t)
    <3>1. Store(Here(t), None)
      BY <2>5 DEF KillLocalVariable
    <3> QED BY <1>1, <1>2, <3>1, StoreKeeps
  <2>6. CASE MakeVariableBufferLocal(t)
    <3>1. Exists(Default)
      BY DEF Exists
    <3> QED BY <1>1, <2>6, <3>1 DEF MakeVariableBufferLocal, CellsKept
  <2> QED BY <2>1, <2>2, <2>3, <2>4, <2>5, <2>6
<1>4. /\ Op /\ UNCHANGED <<current, alive, unborn, buffer, live, stack>>
      /\ automatic' = automatic \/ automatic' = TRUE
  BY DEF SetSymbol, SetSymbolDefault, Makunbound, MakeLocalVariable, KillLocalVariable,
         MakeVariableBufferLocal
<1>5. ops' \in 0 .. MaxOps
  BY <1>4, OpFacts
<1>6. automatic' \in BOOLEAN
  BY <1>4, Typed
<1> QED BY <1>3, <1>4, <1>5, <1>6, CellBInv

\* The outermost binding of the default.
LEMMA GlobalFacts ==
    ASSUME BInv, NEW t \in Threads
    PROVE  /\ Global(t) = At(stack[t], Default)
           /\ Global(t) \in SUBSET (1 .. Len(stack[t])) /\ Len(stack[t]) \in Nat
           /\ Global(t) \in SUBSET Nat
           /\ stack[t] \in Seq(Entries) /\ DOMAIN stack[t] = 1 .. Len(stack[t])
           /\ \A i \in 1 .. Len(stack[t]) : stack[t][i] \in Entries
           /\ Global(t) # {} => Min(Global(t)) \in Global(t) /\ \A i \in Global(t) : Min(Global(t)) <= i
<1>1. stack[t] \in Seq(Entries)
  BY Typed
<1>2. /\ Len(stack[t]) \in Nat /\ DOMAIN stack[t] = 1 .. Len(stack[t])
      /\ \A i \in 1 .. Len(stack[t]) : stack[t][i] \in Entries
  BY <1>1, LenProperties, ElementOfSeq
<1>3. Global(t) = At(stack[t], Default)
  BY DEF Global, At
<1>4. Global(t) \in SUBSET (1 .. Len(stack[t])) /\ Global(t) \in SUBSET Nat
  BY <1>2 DEF Global
<1>5. Global(t) # {} => Min(Global(t)) \in Global(t) /\ \A i \in Global(t) : Min(Global(t)) <= i
  BY <1>4, MinFacts
<1> QED BY <1>1, <1>2, <1>3, <1>4, <1>5

LEMMA DefvarBInv ==
    ASSUME BInv, NEW t \in Threads, NEW v \in Values, Defvar1(t, v)
    PROVE  BInv'
<1>1. /\ Op /\ UNCHANGED <<current, alive, unborn, buffer, live, automatic>>
      /\ current = t
  BY DEF Defvar1
<1>2. automatic' \in BOOLEAN
  BY <1>1, Typed
<1>3. ops' \in 0 .. MaxOps
  BY <1>1, OpFacts
<1>4. v \in Cellular /\ v # None
  BY Typed, ValueAssumption
<1>5. CASE Store(Default, v) /\ UNCHANGED stack
  <2>1. CellsKept
    BY <1>4, <1>5, Typed, StoreKeeps
  <2> QED BY <1>1, <1>2, <1>3, <1>5, <2>1, CellBInv
<1>6. CASE /\ DefvarTarget(t) = "outermost" /\ UNCHANGED cell
           /\ stack' = [stack EXCEPT ![t][Min(Global(t))].old = v]
  <2> DEFINE m == Min(Global(t))
  <2>1. Global(t) # {}
    BY <1>6 DEF DefvarTarget
  <2>2. m \in 1 .. Len(stack[t])
    BY <2>1, GlobalFacts
  <2>3. /\ stack \in [Threads -> Seq(Entries)] /\ stack[t] \in Seq(Entries)
        /\ DOMAIN stack[t] = 1 .. Len(stack[t]) /\ stack[t][m] \in Entries
    BY <2>2, Typed, GlobalFacts
  <2>4. stack' = [stack EXCEPT ![t] = [stack[t] EXCEPT ![m] = [stack[t][m] EXCEPT !.old = v]]]
    BY <1>6
  <2> HIDE DEF m
  <2>5. [stack[t][m] EXCEPT !.old = v] \in Entries /\ [stack[t][m] EXCEPT !.old = v].old = v
    BY <1>4, <2>3, EntryFacts
  <2>6. [stack[t] EXCEPT ![m] = [stack[t][m] EXCEPT !.old = v]] \in Seq(Entries)
    BY <2>2, <2>3, <2>5, ExceptSeq
  <2>7. stack' \in [Threads -> Seq(Entries)]
    BY <2>3, <2>4, <2>6
  <2>8. \A u \in Threads : \A i \in DOMAIN stack'[u] :
           stack'[u][i].place = Default => stack'[u][i].old # None
    <3>1. \A u \in Threads : KeepsDefault(cell, stack[u])
      BY Typed
    <3>2. \A i \in DOMAIN stack[t] : i # m => stack'[t][i] = stack[t][i]
      BY <2>3, <2>4
    <3>3. stack'[t][m].old = v /\ DOMAIN stack'[t] = DOMAIN stack[t]
      BY <2>2, <2>3, <2>4, <2>5
    <3>4. \A u \in Threads : u # t => stack'[u] = stack[u]
      BY <2>3, <2>4
    <3> QED BY <1>4, <3>1, <3>2, <3>3, <3>4 DEF KeepsDefault
  <2>9. \A u \in Threads : u \notin alive \cup {Main} => stack'[u] = << >>
    <3>1. t \in alive \cup {Main}
      BY <1>1 DEF BInv, TypeOK
    <3> QED BY <2>3, <2>4, <3>1 DEF BInv, Bindings
  <2>10. CellsKept
    BY <1>6, Typed DEF CellsKept
  <2> QED BY <1>1, <1>2, <1>3, <2>7, <2>8, <2>9, <2>10, QuietBInv
<1> QED BY <1>5, <1>6 DEF Defvar1

\* Buffers and new threads.
LEMMA BufferBInv ==
    ASSUME BInv, NEW t \in Threads, NEW b \in Buffers, SetBuffer(t, b) \/ KillBuffer(t, b)
    PROVE  BInv'
<1>1. /\ b \in Places /\ b # Default /\ None \in Cellular
      /\ cell \in [Places -> Cellular] /\ cell[Default] # None /\ Default \in Places
      /\ \A q \in Places : ~Exists(q) => cell[q] = None
      /\ buffer \in [Threads -> Buffers] /\ live \subseteq Buffers
      /\ stack \in [Threads -> Seq(Entries)]
  BY Typed
<1>2. automatic' \in BOOLEAN
  BY Typed DEF SetBuffer, KillBuffer
<1>3. CASE SetBuffer(t, b)
  <2>1. buffer' \in [Threads -> Buffers]
    BY <1>1, <1>3 DEF SetBuffer
  <2>2. UNCHANGED <<current, alive, unborn, live, cell, stack, ops>>
    BY <1>3 DEF SetBuffer
  <2>3. TypeOK'
    BY <1>2, <2>1, <2>2 DEF BInv, TypeOK
  <2>4. Bindings'
    BY <2>2 DEF BInv, Bindings, Exists, KeepsDefault
  <2> QED BY <2>3, <2>4 DEF BInv
<1>4. CASE KillBuffer(t, b)
  <2>1. UNCHANGED <<current, alive, unborn, stack>> /\ live' = live \ {b}
        /\ cell' = [cell EXCEPT ![b] = None]
    BY <1>4 DEF KillBuffer
  <2>2. buffer' \in [Threads -> Buffers]
    BY <1>1, <1>4 DEF KillBuffer
  <2>3. ops' \in 0 .. MaxOps
    BY <1>4, OpFacts DEF KillBuffer
  <2>4. cell' \in [Places -> Cellular] /\ cell'[Default] = cell[Default]
        /\ \A q \in Places : cell'[q] = IF q = b THEN None ELSE cell[q]
    BY <1>1, <2>1
  <2>5. TypeOK'
    BY <1>1, <1>2, <2>1, <2>2, <2>3, <2>4 DEF BInv, TypeOK, Cellular, Entries
  <2>6. \A q \in Places : ~Exists(q)' => ~Exists(q) \/ q = b
    BY <2>1 DEF Exists
  <2>7. Bindings'
    BY <1>1, <2>1, <2>4, <2>6 DEF BInv, Bindings, KeepsDefault
  <2> QED BY <2>5, <2>7 DEF BInv
<1> QED BY <1>3, <1>4

LEMMA MakeThreadBInv ==
    ASSUME BInv, NEW t \in Threads, NEW u \in Workers, MakeThread(t, u)
    PROVE  BInv'
<1>1. /\ buffer \in [Threads -> Buffers] /\ t \in Threads /\ u \in Threads
  BY Typed DEF Threads
<1>2. /\ UNCHANGED <<current, live, cell, stack, ops, automatic>>
      /\ unborn' = unborn \ {u} /\ alive' = alive \cup {u} /\ u \in unborn
      /\ buffer' \in [Threads -> Buffers]
  BY <1>1 DEF MakeThread
<1>3. TypeOK'
  BY <1>2 DEF BInv, TypeOK
<1>4. Bindings'
  BY <1>2 DEF BInv, Bindings, Exists, KeepsDefault
<1> QED BY <1>3, <1>4 DEF BInv

\* What a switch from t to u makes of the cells and of the two stacks.
OutState(t)   == Exchange(cell, stack[t], TRUE)
InState(t, u) == Exchange(OutState(t).cell, stack[u], FALSE)

LEMMA SwitchFacts ==
    ASSUME BInv, NEW t \in Threads, NEW u \in Threads
    PROVE  /\ OutState(t) = [cell |-> OutCell(cell, stack[t], 0), stack |-> OutStack(cell, stack[t], 0)]
           /\ InState(t, u) = [cell  |-> InCell(OutState(t).cell, stack[u], Len(stack[u])),
                               stack |-> InStack(OutState(t).cell, stack[u], Len(stack[u]))]
           /\ OutState(t).cell \in [Places -> Cellular]
           /\ KeepsDefault(OutState(t).cell, stack[u])
           /\ OutState(t).stack \in Seq(Entries) /\ Alike(OutState(t).stack, stack[t])
           /\ InState(t, u).cell \in [Places -> Cellular]
           /\ InState(t, u).stack \in Seq(Entries) /\ Alike(InState(t, u).stack, stack[u])
           /\ \A c : c[Default] # None => /\ KeepsDefault(c, OutState(t).stack)
                                          /\ KeepsDefault(c, InState(t, u).stack)
           /\ InState(t, u).cell[Default] # None
           /\ \A p \in Places : ~Exists(p) =>
                OutState(t).cell[p] = None /\ InState(t, u).cell[p] = None
<1>1. /\ cell \in [Places -> Cellular] /\ stack[t] \in Seq(Entries) /\ stack[u] \in Seq(Entries)
      /\ KeepsDefault(cell, stack[t]) /\ KeepsDefault(cell, stack[u])
      /\ \A q \in Places : ~Exists(q) => cell[q] = None
  BY Typed
<1>2. OutState(t) = [cell |-> OutCell(cell, stack[t], 0), stack |-> OutStack(cell, stack[t], 0)]
  BY <1>1, ExchangeOut DEF OutState
<1>3. Len(stack[t]) \in Nat /\ Len(stack[u]) \in Nat
  BY <1>1, LenProperties
<1>4. /\ OutState(t).cell \in [Places -> Cellular] /\ OutState(t).cell[Default] # None
      /\ \A p \in Places : ~Exists(p) => OutState(t).cell[p] = None
  <2>1. 0 \in 0 .. Len(stack[t])
    BY <1>3
  <2> QED BY <1>1, <1>2, <2>1, OutFacts
<1>5. /\ OutState(t).stack \in Seq(Entries) /\ Alike(OutState(t).stack, stack[t])
      /\ \A c : c[Default] # None => KeepsDefault(c, OutState(t).stack)
  BY <1>1, <1>2, OutStackFacts DEF KeepsDefault
<1>6. KeepsDefault(OutState(t).cell, stack[u])
  BY <1>1, <1>4 DEF KeepsDefault
<1>7. InState(t, u) = [cell  |-> InCell(OutState(t).cell, stack[u], Len(stack[u])),
                       stack |-> InStack(OutState(t).cell, stack[u], Len(stack[u]))]
  BY <1>1, <1>4, ExchangeIn DEF InState
<1>8. /\ InState(t, u).cell \in [Places -> Cellular] /\ InState(t, u).cell[Default] # None
      /\ \A p \in Places : ~Exists(p) => InState(t, u).cell[p] = None
  <2>1. Len(stack[u]) \in 0 .. Len(stack[u])
    BY <1>3
  <2>2. /\ InCell(OutState(t).cell, stack[u], Len(stack[u])) \in [Places -> Cellular]
        /\ InCell(OutState(t).cell, stack[u], Len(stack[u]))[Default] # None
        /\ \A p \in Places : ~Exists(p) =>
             InCell(OutState(t).cell, stack[u], Len(stack[u]))[p] = OutState(t).cell[p]
    BY <1>1, <1>4, <1>6, <2>1, InFacts
  <2> QED BY <1>4, <1>7, <2>2
<1>9. /\ InState(t, u).stack \in Seq(Entries) /\ Alike(InState(t, u).stack, stack[u])
      /\ \A c : c[Default] # None => KeepsDefault(c, InState(t, u).stack)
  <2>1. InState(t, u).stack = InStack(OutState(t).cell, stack[u], Len(stack[u]))
    BY <1>7
  <2> QED BY <1>1, <1>4, <1>6, <2>1, InStackFacts DEF KeepsDefault
<1> QED BY <1>2, <1>4, <1>5, <1>6, <1>7, <1>8, <1>9

LEMMA SwitchBInv ==
    ASSUME BInv, NEW t \in Threads, NEW u \in Threads, t # u, current = t,
           NEW left \in Seq(Entries),
           left = OutState(t).stack \/ left = << >>,
           cell' = InState(t, u).cell,
           stack' = [stack EXCEPT ![t] = left, ![u] = InState(t, u).stack],
           current' = u, u \in alive' \cup {Main},
           alive' = alive \/ (alive' = alive \ {t} /\ left = << >>),
           UNCHANGED <<unborn, buffer, live, ops, automatic>>
    PROVE  BInv'
<1> DEFINE is == InState(t, u).stack
<1>1. stack \in [Threads -> Seq(Entries)] /\ \A v \in Threads : KeepsDefault(cell, stack[v])
  BY Typed
<1>2. is \in Seq(Entries) /\ cell' \in [Places -> Cellular] /\ cell'[Default] # None
      /\ \A p \in Places : ~Exists(p) => cell'[p] = None
  BY SwitchFacts
<1>3. KeepsDefault(cell', left) /\ KeepsDefault(cell', is)
  <2>1. DOMAIN << >> = {}
    BY EmptySeq
  <2>2. KeepsDefault(cell', << >>)
    BY <1>2, <2>1 DEF KeepsDefault
  <2> QED BY <1>2, <2>2, SwitchFacts
<1> HIDE DEF is
<1>4. /\ stack'[t] = left /\ stack'[u] = is
      /\ \A v \in Threads : v # t /\ v # u => stack'[v] = stack[v]
      /\ stack' \in [Threads -> Seq(Entries)]
  BY <1>1, <1>2 DEF is
<1>5. TypeOK'
  BY <1>2, <1>4 DEF BInv, TypeOK, Cellular, Entries
<1>6. \A v \in Threads : KeepsDefault(cell', stack'[v])
  BY <1>1, <1>2, <1>3, <1>4 DEF KeepsDefault
<1>7. \A v \in Threads : v \notin alive' \cup {Main} => stack'[v] = << >>
  <2>1. t \in alive \cup {Main}
    BY DEF BInv, TypeOK
  <2> QED BY <1>4, <2>1 DEF BInv, Bindings
<1>8. \A p \in Places : ~Exists(p)' => cell'[p] = None
  BY <1>2 DEF Exists
<1>9. Bindings'
  BY <1>6, <1>7, <1>8 DEF BInv, Bindings, KeepsDefault
<1> QED BY <1>5, <1>9 DEF BInv

\* What Resume, Suspend and Finish are: a switch, of which Finish drops the
\* outgoing stack.
LEMMA SwitchIs ==
    ASSUME BInv, NEW t \in Threads, Resume(t) \/ Suspend(t) \/ Finish(t)
    PROVE  \E x \in Threads, y \in Threads, left \in Seq(Entries) :
             /\ x # y /\ current = x /\ current' = y /\ y \in alive' \cup {Main}
             /\ cell' = InState(x, y).cell
             /\ stack' = [stack EXCEPT ![x] = left, ![y] = InState(x, y).stack]
             /\ UNCHANGED <<unborn, buffer, live, ops, automatic>>
             /\ \/ left = OutState(x).stack /\ alive' = alive
                \/ left = << >> /\ alive' = alive \ {x}
<1>1. Main \in Threads /\ Main \notin alive /\ alive \subseteq Threads
  BY Typed, ThreadAssumption DEF Threads
<1>2. \A x \in Threads : OutState(x).stack \in Seq(Entries)
  BY SwitchFacts
<1>3. CASE Resume(t)
  <2>1. SwitchTo(Main, t) /\ UNCHANGED alive /\ current = Main /\ t \in alive
    BY <1>3 DEF Resume
  <2>2. /\ current' = t /\ cell' = InState(Main, t).cell
        /\ stack' = [stack EXCEPT ![Main] = OutState(Main).stack, ![t] = InState(Main, t).stack]
        /\ UNCHANGED <<unborn, buffer, live, ops, automatic>>
    BY <2>1 DEF SwitchTo, OutState, InState
  <2> QED BY <1>1, <1>2, <2>1, <2>2
<1>4. CASE Suspend(t)
  <2>1. SwitchTo(t, Main) /\ UNCHANGED alive /\ current = t /\ t # Main
    BY <1>4 DEF Suspend
  <2>2. /\ current' = Main /\ cell' = InState(t, Main).cell
        /\ stack' = [stack EXCEPT ![t] = OutState(t).stack, ![Main] = InState(t, Main).stack]
        /\ UNCHANGED <<unborn, buffer, live, ops, automatic>>
    BY <2>1 DEF SwitchTo, OutState, InState
  <2> QED BY <1>1, <1>2, <2>1, <2>2
<1>5. CASE Finish(t)
  <2>1. /\ current = t /\ t # Main /\ current' = Main /\ alive' = alive \ {t}
        /\ cell' = InState(t, Main).cell
        /\ stack' = [stack EXCEPT ![t] = << >>, ![Main] = InState(t, Main).stack]
        /\ UNCHANGED <<unborn, buffer, live, ops, automatic>>
    BY <1>5 DEF Finish, OutState, InState
  <2>2. << >> \in Seq(Entries)
    BY EmptySeq
  <2> QED BY <1>1, <2>1, <2>2
<1> QED BY <1>3, <1>4, <1>5

LEMMA NextBInv == BInv /\ [Next]_vars => BInv'
<1> SUFFICES ASSUME BInv, [Next]_vars PROVE BInv'
  OBVIOUS
<1>1. CASE UNCHANGED vars
  BY <1>1 DEF vars, BInv, TypeOK, Bindings, Exists, KeepsDefault
<1>2. CASE Next
  <2> PICK t \in Threads :
         \/ \E v \in Values : \/ Specbind(t, v) \/ SetSymbol(t, v)
                              \/ SetSymbolDefault(t, v) \/ Defvar1(t, v)
         \/ Unbind(t) \/ Makunbound(t) \/ MakeLocalVariable(t) \/ KillLocalVariable(t)
         \/ MakeVariableBufferLocal(t)
         \/ \E b \in Buffers : SetBuffer(t, b) \/ KillBuffer(t, b)
         \/ \E u \in Workers : MakeThread(t, u)
         \/ Resume(t) \/ Suspend(t) \/ Finish(t)
    BY <1>2 DEF Next
  <2>1. CASE \E v \in Values : \/ Specbind(t, v) \/ SetSymbol(t, v)
                               \/ SetSymbolDefault(t, v) \/ Defvar1(t, v)
    BY <2>1, SpecbindBInv, AssignBInv, DefvarBInv
  <2>2. CASE Unbind(t)
    BY <2>2, UnbindBInv
  <2>3. CASE \/ Makunbound(t) \/ MakeLocalVariable(t) \/ KillLocalVariable(t)
             \/ MakeVariableBufferLocal(t)
    BY <2>3, AssignBInv
  <2>4. CASE \E b \in Buffers : SetBuffer(t, b) \/ KillBuffer(t, b)
    BY <2>4, BufferBInv
  <2>5. CASE \E u \in Workers : MakeThread(t, u)
    BY <2>5, MakeThreadBInv
  <2>6. CASE Resume(t) \/ Suspend(t) \/ Finish(t)
    <3>1. PICK x \in Threads, y \in Threads, left \in Seq(Entries) :
             /\ x # y /\ current = x /\ current' = y /\ y \in alive' \cup {Main}
             /\ cell' = InState(x, y).cell
             /\ stack' = [stack EXCEPT ![x] = left, ![y] = InState(x, y).stack]
             /\ UNCHANGED <<unborn, buffer, live, ops, automatic>>
             /\ \/ left = OutState(x).stack /\ alive' = alive
                \/ left = << >> /\ alive' = alive \ {x}
      BY <2>6, SwitchIs
    <3> QED BY <3>1, SwitchBInv
  <2> QED BY <2>1, <2>2, <2>3, <2>4, <2>5, <2>6
<1> QED BY <1>1, <1>2

LEMMA BindingsInvariance == Spec => []BInv
BY InitBInv, NextBInv, PTL DEF Spec

\* Every variable keeps its type, through any nesting of bindings, killed
\* buffers and switches of threads; and the default of the variable always is
\* a value, so that reading it outside every local value finds one.
THEOREM BindingTypesKept == Spec => []TypeOK
<1>1. BInv => TypeOK
  BY DEF BInv
<1> QED BY <1>1, BindingsInvariance, PTL

-----------------------------------------------------------------------------
(* The deep view of the cells.                                             *)

Val(c, st, i) == IF Exists(st[i].place) THEN OutCell(c, st, i)[st[i].place] ELSE None
Kept(st, i)   == IF Exists(st[i].place) THEN st[i].old ELSE None
Bind(e, v)    == [place |-> e.place, origin |-> e.origin, val |-> v]

\* The bindings of a thread that runs, and of one that is switched out.
InView(c, st) == [i \in DOMAIN st |-> Bind(st[i], Val(c, st, i))]
OutView(st)   == [i \in DOMAIN st |-> Bind(st[i], Kept(st, i))]

LEMMA PlaceOf ==
    ASSUME NEW st \in Seq(Entries), NEW i \in DOMAIN st
    PROVE  st[i].place \in Places
<1>1. st[i] \in Entries
  BY LenProperties, ElementOfSeq
<1> QED BY <1>1, EntryFacts DEF Entries

LEMMA ViewNow ==
    ASSUME BInv
    PROVE  /\ Shared = OutCell(cell, stack[current], 0)
           /\ Binds = [t \in Threads |-> IF t = current THEN InView(cell, stack[t])
                                         ELSE OutView(stack[t])]
<1>1. current \in Threads /\ stack[current] \in Seq(Entries)
  BY Typed
<1>2. Len(stack[current]) \in Nat /\ DOMAIN stack[current] = 1 .. Len(stack[current])
  BY <1>1, LenProperties
<1>3. \A p : On(current, p) = Above(stack[current], p, 0)
  BY <1>2 DEF On, Above, At
<1>4. Shared = OutCell(cell, stack[current], 0)
  BY <1>3 DEF Shared, OutCell
<1>5. \A t \in Threads : \A i \in DOMAIN stack[t] :
         ValueOf(t, i) = IF t = current THEN Val(cell, stack[t], i) ELSE Kept(stack[t], i)
  <2> TAKE t \in Threads
  <2> TAKE i \in DOMAIN stack[t]
  <2>1. After(t, i) = Above(stack[t], stack[t][i].place, i)
    BY DEF After, Above, On, At
  <2>2. stack[t][i].place \in Places
    <3>1. stack[t] \in Seq(Entries)
      BY Typed
    <3> QED BY <3>1, PlaceOf
  <2> QED BY <2>1, <2>2 DEF ValueOf, Val, Kept, OutCell
<1>6. Binds = [t \in Threads |-> IF t = current THEN InView(cell, stack[t])
                                 ELSE OutView(stack[t])]
  BY <1>5 DEF Binds, InView, OutView, Bind
<1> QED BY <1>4, <1>6

\* The same after a step that kills no buffer.
LEMMA ViewNext ==
    ASSUME BInv', live' = live
    PROVE  /\ Shared' = OutCell(cell', stack'[current'], 0)
           /\ Binds' = [t \in Threads |-> IF t = current' THEN InView(cell', stack'[t])
                                          ELSE OutView(stack'[t])]
<1>0. \A p : Exists(p)' <=> Exists(p)
  BY DEF Exists
<1>1. /\ current' \in Threads
      /\ \A t \in Threads : stack'[t] \in Seq(Entries)
  BY DEF BInv, TypeOK, Threads, Entries, Cellular
<1>2. /\ DOMAIN stack'[current'] = 1 .. Len(stack'[current'])
      /\ Len(stack'[current']) \in Nat
  BY <1>1, LenProperties
<1>3. \A p : On(current, p)' = Above(stack'[current'], p, 0)
  BY <1>2 DEF On, Above, At
<1>4. Shared' = OutCell(cell', stack'[current'], 0)
  BY <1>0, <1>3 DEF Shared, OutCell
<1>5. \A t \in Threads : \A i \in DOMAIN stack'[t] :
         ValueOf(t, i)' = IF t = current' THEN Val(cell', stack'[t], i) ELSE Kept(stack'[t], i)
  <2> TAKE t \in Threads
  <2> TAKE i \in DOMAIN stack'[t]
  <2>1. After(t, i)' = Above(stack'[t], stack'[t][i].place, i)
    BY DEF After, Above, On, At
  <2>2. stack'[t][i].place \in Places
    BY <1>1, PlaceOf
  <2> QED BY <1>0, <2>1, <2>2 DEF ValueOf, Val, Kept, OutCell
<1>6. Binds' = [t \in Threads |-> IF t = current' THEN InView(cell', stack'[t])
                                  ELSE OutView(stack'[t])]
  BY <1>5 DEF Binds, InView, OutView, Bind
<1> QED BY <1>4, <1>6

LEMMA DeepOn ==
    ASSUME BInv, NEW t \in Threads, NEW p
    PROVE  /\ Deep!On(t, p) = At(stack[t], p)
           /\ At(stack[t], p) # {} =>
                /\ Deep!Top(t, p) \in At(stack[t], p)
                /\ \A j \in At(stack[t], p) : j <= Deep!Top(t, p)
                /\ Above(stack[t], p, Deep!Top(t, p)) = {}
<1>1. Binds = [u \in Threads |-> IF u = current THEN InView(cell, stack[u])
                                 ELSE OutView(stack[u])]
  BY ViewNow
<1>2. DOMAIN Binds[t] = DOMAIN stack[t]
      /\ \A i \in DOMAIN stack[t] : Binds[t][i].place = stack[t][i].place
  BY <1>1 DEF InView, OutView, Bind
<1>3. Deep!On(t, p) = At(stack[t], p)
  BY <1>2 DEF Deep!On, At
<1>4. /\ stack[t] \in Seq(Entries) /\ Len(stack[t]) \in Nat
      /\ At(stack[t], p) \in SUBSET (1 .. Len(stack[t]))
  <2>1. stack[t] \in Seq(Entries)
    BY Typed
  <2>2. Len(stack[t]) \in Nat /\ DOMAIN stack[t] = 1 .. Len(stack[t])
    BY <2>1, LenProperties
  <2> QED BY <2>1, <2>2 DEF At
<1>5. ASSUME At(stack[t], p) # {}
      PROVE  /\ Deep!Top(t, p) \in At(stack[t], p)
             /\ \A j \in At(stack[t], p) : j <= Deep!Top(t, p)
  <2>1. \E i \in At(stack[t], p) : \A j \in At(stack[t], p) : j <= i
    BY <1>4, <1>5, MaxFacts
  <2> QED BY <1>3, <2>1 DEF Deep!Top
<1>6. ASSUME At(stack[t], p) # {} PROVE Above(stack[t], p, Deep!Top(t, p)) = {}
  <2>1. \A j \in At(stack[t], p) : j \in Nat
    BY <1>4
  <2> QED BY <1>5, <1>6, <2>1 DEF Above
<1> QED BY <1>3, <1>5, <1>6

\* A thread sees what is in the cells.
LEMMA SeenIs ==
    ASSUME BInv, NEW p \in Places
    PROVE  Deep!Seen(current, p) = cell[p]
<1> DEFINE st == stack[current]
<1>1. /\ current \in Threads /\ st \in Seq(Entries) /\ cell \in [Places -> Cellular]
      /\ ~Exists(p) => cell[p] = None
  BY Typed
<1>2. /\ Shared = OutCell(cell, st, 0) /\ Binds[current] = InView(cell, st)
  BY <1>1, ViewNow
<1>3. /\ Len(st) \in Nat /\ DOMAIN st = 1 .. Len(st)
  BY <1>1, LenProperties
<1>4. CASE At(st, p) = {}
  <2>1. Above(st, p, 0) = {}
    BY <1>4 DEF Above
  <2>2. Deep!On(current, p) = {}
    BY <1>1, <1>4, DeepOn
  <2> QED BY <1>2, <2>1, <2>2 DEF Deep!Seen, OutCell
<1>5. CASE At(st, p) # {}
  <2> DEFINE k == Deep!Top(current, p)
  <2>1. k \in At(st, p) /\ Above(st, p, k) = {} /\ Deep!On(current, p) # {}
    BY <1>1, <1>5, DeepOn
  <2>2. Deep!Seen(current, p) = Binds[current][k].val
    BY <2>1 DEF Deep!Seen
  <2> HIDE DEF k
  <2>3. k \in DOMAIN st /\ st[k].place = p
    BY <2>1 DEF At
  <2>4. Binds[current][k].val = Val(cell, st, k)
    BY <1>2, <2>3 DEF InView, Bind
  <2>5. Val(cell, st, k) = cell[p]
    BY <1>1, <2>1, <2>3 DEF Val, OutCell
  <2> QED BY <2>2, <2>4, <2>5
<1> QED BY <1>4, <1>5

\* To change a cell is to change the binding that its thread sees.
LEMMA PutCell ==
    ASSUME BInv, BInv', NEW p \in Places, Exists(p), NEW v, cell' = [cell EXCEPT ![p] = v],
           UNCHANGED <<current, live, stack>>
    PROVE  Deep!Put(current, p, v)
<1> DEFINE st == stack[current]
<1>1. /\ current \in Threads /\ st \in Seq(Entries) /\ cell \in [Places -> Cellular]
      /\ stack \in [Threads -> Seq(Entries)]
  BY Typed
<1>2. /\ Shared = OutCell(cell, st, 0) /\ Shared' = OutCell(cell', st, 0)
      /\ Binds = [t \in Threads |-> IF t = current THEN InView(cell, stack[t]) ELSE OutView(stack[t])]
      /\ Binds' = [t \in Threads |-> IF t = current THEN InView(cell', stack[t]) ELSE OutView(stack[t])]
  BY ViewNow, ViewNext
<1>3. /\ Len(st) \in Nat /\ DOMAIN st = 1 .. Len(st)
  BY <1>1, LenProperties
<1>4. /\ cell'[p] = v /\ \A q \in Places : q # p => cell'[q] = cell[q]
  BY <1>1
<1>5. \A n \in Nat, q \in Places : q # p \/ Above(st, q, n) # {} =>
         OutCell(cell', st, n)[q] = OutCell(cell, st, n)[q]
  BY <1>4 DEF OutCell
<1>6. \A n \in Nat : Above(st, p, n) = {} => OutCell(cell', st, n)[p] = v
  BY <1>4 DEF OutCell
<1>7. CASE At(st, p) = {}
  <2>1. Deep!On(current, p) = {}
    BY <1>1, <1>7, DeepOn
  <2>2. \A i \in DOMAIN st : st[i].place # p /\ st[i].place \in Places /\ i \in Nat
    BY <1>1, <1>3, <1>7, PlaceOf DEF At
  <2>3. \A i \in DOMAIN st : Val(cell', st, i) = Val(cell, st, i)
    BY <1>3, <1>5, <2>2 DEF Val
  <2>4. Binds' = Binds
    BY <1>2, <2>3 DEF InView
  <2>5. Above(st, p, 0) = {}
    BY <1>7 DEF Above
  <2>6. \A q \in Places : Shared'[q] = IF q = p THEN v ELSE Shared[q]
    BY <1>2, <1>5, <1>6, <2>5
  <2>7. Shared' = [Shared EXCEPT ![p] = v]
    BY <1>2, <2>6 DEF OutCell
  <2> QED BY <2>1, <2>4, <2>7 DEF Deep!Put
<1>8. CASE At(st, p) # {}
  <2> DEFINE k == Deep!Top(current, p)
  <2>1. /\ k \in At(st, p) /\ \A j \in At(st, p) : j <= k
        /\ Above(st, p, k) = {} /\ Deep!On(current, p) # {}
    BY <1>1, <1>8, DeepOn
  <2> HIDE DEF k
  <2>2. k \in DOMAIN st /\ st[k].place = p /\ k \in Nat
    BY <1>3, <2>1 DEF At
  <2>3. Val(cell', st, k) = v
    BY <1>6, <2>1, <2>2 DEF Val
  <2>4. \A i \in DOMAIN st : i # k => Val(cell', st, i) = Val(cell, st, i)
    <3> TAKE i \in DOMAIN st
    <3> HAVE i # k
    <3>1. i \in Nat /\ st[i].place \in Places
      BY <1>1, <1>3, PlaceOf
    <3>2. st[i].place = p => k \in Above(st, p, i)
      BY <1>3, <2>1, <2>2, <3>1 DEF Above, At
    <3> QED BY <1>5, <3>1, <3>2 DEF Val
  <2>5. \A i \in DOMAIN st : InView(cell', st)[i]
           = IF i = k THEN [InView(cell, st)[i] EXCEPT !.val = v] ELSE InView(cell, st)[i]
    BY <2>3, <2>4 DEF InView, Bind
  <2>6. InView(cell', st) = [InView(cell, st) EXCEPT ![k].val = v]
    BY <2>2, <2>5 DEF InView
  <2>7. Binds' = [Binds EXCEPT ![current][k].val = v]
    BY <1>1, <1>2, <2>6
  <2>8. k \in Above(st, p, 0)
    BY <1>3, <2>1, <2>2 DEF Above
  <2>9. \A q \in Places : Shared'[q] = Shared[q]
    BY <1>2, <1>5, <2>8
  <2>10. Shared' = Shared
    BY <1>2, <2>9 DEF OutCell
  <2> QED BY <2>1, <2>7, <2>10 DEF Deep!Put, k
<1> QED BY <1>7, <1>8

\* And a step that changes no cell and no stack changes no binding.
LEMMA ViewKept ==
    ASSUME BInv, BInv', UNCHANGED <<current, live, stack, cell>>
    PROVE  UNCHANGED <<Shared, Binds>>
BY ViewNow, ViewNext

\* Where the entries of a place are once e is on top of st.
Pushes(st, e, su) == st \in Seq(Entries) /\ e \in Entries /\ su = Append(st, e)

LEMMA PushFacts ==
    ASSUME NEW st, NEW e, NEW su, Pushes(st, e, su)
    PROVE  /\ su \in Seq(Entries) /\ Len(st) \in Nat /\ Len(su) = Len(st) + 1
           /\ DOMAIN st = 1 .. Len(st) /\ DOMAIN su = 1 .. Len(st) + 1
           /\ \A i \in 1 .. Len(st) : su[i] = st[i]
           /\ su[Len(st) + 1] = e
           /\ \A q : At(su, q) = At(st, q) \cup (IF q = e.place THEN {Len(st) + 1} ELSE {})
           /\ \A q, n : n \in 0 .. Len(st) =>
                Above(su, q, n) = Above(st, q, n) \cup (IF q = e.place THEN {Len(st) + 1} ELSE {})
           /\ \A q, n : n \in 0 .. Len(st) =>
                /\ Above(st, q, n) \in SUBSET (1 .. Len(st))
                /\ Above(st, q, n) # {} =>
                     /\ Min(Above(st, q, n)) \in 1 .. Len(st)
                     /\ Above(su, q, n) # {} /\ Min(Above(su, q, n)) = Min(Above(st, q, n))
<1> DEFINE p == e.place
           l == Len(st) + 1
<1>0. st \in Seq(Entries) /\ e \in Entries /\ su = Append(st, e)
  BY DEF Pushes
<1>1. /\ su \in Seq(Entries) /\ Len(st) \in Nat /\ Len(su) = l
      /\ DOMAIN st = 1 .. Len(st) /\ DOMAIN su = 1 .. l
      /\ \A i \in 1 .. Len(st) : su[i] = st[i]
      /\ su[l] = e
  BY <1>0, AppendProperties, LenProperties
<1>3. \A q : At(su, q) = At(st, q) \cup (IF q = p THEN {l} ELSE {})
  <2> TAKE q
  <2>1. 1 .. l = 1 .. Len(st) \cup {l} /\ l \notin 1 .. Len(st)
    BY <1>1
  <2>2. \A i \in 1 .. Len(st) : su[i].place = q <=> st[i].place = q
    BY <1>1
  <2>3. su[l].place = p
    BY <1>1
  <2> HIDE DEF p, l
  <2> QED BY <1>1, <2>1, <2>2, <2>3 DEF At
<1>4. \A q, n : n \in 0 .. Len(st) =>
         Above(su, q, n) = Above(st, q, n) \cup (IF q = p THEN {l} ELSE {})
  <2> TAKE q, n
  <2> HAVE n \in 0 .. Len(st)
  <2>1. l > n
    BY <1>1
  <2> HIDE DEF p, l
  <2> QED BY <1>3, <2>1 DEF Above
<1>5. ASSUME NEW q, NEW n \in 0 .. Len(st)
      PROVE  /\ Above(st, q, n) \in SUBSET (1 .. Len(st))
             /\ Above(st, q, n) # {} =>
                  /\ Min(Above(st, q, n)) \in 1 .. Len(st)
                  /\ Above(su, q, n) # {} /\ Min(Above(su, q, n)) = Min(Above(st, q, n))
  <2>1. Above(st, q, n) \in SUBSET Nat /\ Above(st, q, n) \in SUBSET (1 .. Len(st))
    BY <1>0, AtFacts
  <2>2. ASSUME Above(st, q, n) # {}
        PROVE  /\ Min(Above(st, q, n)) \in 1 .. Len(st)
               /\ Above(su, q, n) # {} /\ Min(Above(su, q, n)) = Min(Above(st, q, n))
    <3> DEFINE m == Min(Above(st, q, n))
    <3>1. m \in Above(st, q, n) /\ (\A j \in Above(st, q, n) : m <= j) /\ m \in 1 .. Len(st)
      BY <2>1, <2>2, MinFacts
    <3>2. Above(su, q, n) \in SUBSET Nat /\ m \in Above(su, q, n)
      BY <1>1, <1>4, <2>1, <3>1
    <3>3. \A j \in Above(su, q, n) : m <= j
      BY <1>1, <1>4, <3>1
    <3> HIDE DEF m
    <3>4. Min(Above(su, q, n)) = m
      BY <3>2, <3>3, MinIs
    <3> QED BY <3>1, <3>2, <3>4 DEF m
  <2> QED BY <2>1, <2>2
<1> QED BY <1>1, <1>3, <1>4, <1>5

\* One more binding hides what its cell had and changes no other.
Pushed(c, st, e, v, d, su) ==
    /\ c \in [Places -> Cellular] /\ Pushes(st, e, su)
    /\ e.old = c[e.place] /\ Exists(e.place)
    /\ d = [c EXCEPT ![e.place] = v]

LEMMA PushView ==
    ASSUME NEW c, NEW st, NEW e, NEW v, NEW d, NEW su, Pushed(c, st, e, v, d, su)
    PROVE  /\ OutCell(d, su, 0) = OutCell(c, st, 0)
           /\ \A i \in 1 .. Len(st) : su[i] = st[i] /\ Val(d, su, i) = Val(c, st, i)
           /\ su[Len(st) + 1] = e /\ Val(d, su, Len(st) + 1) = v
           /\ DOMAIN su = 1 .. Len(st) + 1
<1> DEFINE p == e.place
           l == Len(st) + 1
<1>0. /\ c \in [Places -> Cellular] /\ st \in Seq(Entries) /\ e \in Entries
      /\ e.old = c[e.place] /\ Exists(e.place)
      /\ d = [c EXCEPT ![e.place] = v] /\ Pushes(st, e, su)
  BY DEF Pushed, Pushes
<1>1. /\ su \in Seq(Entries) /\ Len(st) \in Nat /\ Len(su) = l
      /\ DOMAIN st = 1 .. Len(st) /\ DOMAIN su = 1 .. l
      /\ \A i \in 1 .. Len(st) : su[i] = st[i]
      /\ su[l] = e
  BY <1>0, PushFacts
<1>2. p \in Places
  BY <1>0, EntryFacts DEF Entries
<1>4. \A q, n : n \in 0 .. Len(st) =>
         Above(su, q, n) = Above(st, q, n) \cup (IF q = p THEN {l} ELSE {})
  BY <1>0, PushFacts
<1>5. \A q, n : n \in 0 .. Len(st) /\ Above(st, q, n) # {} =>
         /\ Min(Above(st, q, n)) \in 1 .. Len(st)
         /\ Above(su, q, n) # {} /\ Min(Above(su, q, n)) = Min(Above(st, q, n))
  BY <1>0, PushFacts
<1>6. d[p] = v /\ \A q \in Places : q # p => d[q] = c[q]
  BY <1>0, <1>2
<1>7. ASSUME NEW n \in 0 .. Len(st), NEW q \in Places
      PROVE  OutCell(d, su, n)[q] = OutCell(c, st, n)[q]
  <2>1. CASE Above(st, q, n) # {}
    <3> DEFINE m == Min(Above(st, q, n))
    <3>1. m \in 1 .. Len(st) /\ Above(su, q, n) # {} /\ Min(Above(su, q, n)) = m
      BY <1>5, <2>1
    <3> HIDE DEF m
    <3>5. su[m] = st[m]
      BY <1>1, <3>1
    <3>6. CASE Exists(q)
      <4>1. OutCell(d, su, n)[q] = su[m].old
        BY <3>1, <3>6 DEF OutCell
      <4>2. OutCell(c, st, n)[q] = st[m].old
        BY <2>1, <3>6 DEF OutCell, m
      <4> QED BY <3>5, <4>1, <4>2
    <3>7. CASE ~Exists(q)
      <4>1. q # p
        BY <1>0, <3>7
      <4> QED BY <1>6, <3>7, <4>1 DEF OutCell
    <3> QED BY <3>6, <3>7
  <2>2. CASE Above(st, q, n) = {} /\ q # p
    <3>1. Above(su, q, n) = {}
      BY <1>4, <2>2
    <3> QED BY <1>6, <2>2, <3>1 DEF OutCell
  <2>3. CASE Above(st, q, n) = {} /\ q = p
    <3>1. Above(su, q, n) = {l} /\ l \in Nat
      BY <1>1, <1>4, <2>3
    <3> HIDE DEF l
    <3>2. Min({l}) = l
      BY <3>1, MinIs
    <3>3. OutCell(d, su, n)[q] = su[l].old
      BY <1>0, <2>3, <3>1, <3>2 DEF OutCell
    <3>4. OutCell(c, st, n)[q] = c[p]
      BY <2>3 DEF OutCell
    <3> QED BY <1>0, <1>1, <3>3, <3>4
  <2> QED BY <2>1, <2>2, <2>3
<1>8. OutCell(d, su, 0) = OutCell(c, st, 0)
  <2>1. 0 \in 0 .. Len(st)
    BY <1>1
  <2> QED BY <1>7, <2>1 DEF OutCell
<1>9. \A i \in 1 .. Len(st) : Val(d, su, i) = Val(c, st, i)
  <2> TAKE i \in 1 .. Len(st)
  <2>1. su[i] = st[i] /\ st[i].place \in Places /\ i \in 0 .. Len(st)
    BY <1>0, <1>1, PlaceOf
  <2> QED BY <1>7, <2>1 DEF Val
<1>10. Val(d, su, l) = v
  <2>1. Above(su, p, l) = {}
    BY <1>1 DEF Above, At
  <2>2. OutCell(d, su, l)[p] = d[p]
    BY <1>2, <2>1 DEF OutCell
  <2>3. su[l].place = p
    BY <1>1
  <2> HIDE DEF l
  <2> QED BY <1>0, <1>6, <2>2, <2>3 DEF Val
<1> QED BY <1>1, <1>8, <1>9, <1>10

-----------------------------------------------------------------------------
(* Each operation is the operation of DeepBinding.                         *)

\* A function on 1 .. n is a sequence.
LEMMA AsSeq ==
    ASSUME NEW n \in Nat, NEW f, f = [i \in 1 .. n |-> f[i]],
           NEW S, \A i \in 1 .. n : f[i] \in S
    PROVE  f \in Seq(S) /\ Len(f) = n
<1>1. f \in [1 .. n -> S]
  OBVIOUS
<1>2. f \in Seq(S)
  BY <1>1, SeqDef
<1>3. DOMAIN f = 1 .. Len(f) /\ Len(f) \in Nat
  BY <1>2, LenProperties
<1> QED BY <1>1, <1>2, <1>3

Extends(n, f, e, g) ==
    /\ n \in Nat /\ f = [i \in 1 .. n |-> f[i]] /\ g = [i \in 1 .. n + 1 |-> g[i]]
    /\ \A i \in 1 .. n : g[i] = f[i]
    /\ g[n + 1] = e

LEMMA Appended ==
    ASSUME NEW n, NEW f, NEW e, NEW g, Extends(n, f, e, g)
    PROVE  g = Append(f, e)
<1>0. /\ n \in Nat /\ f = [i \in 1 .. n |-> f[i]] /\ g = [i \in 1 .. n + 1 |-> g[i]]
      /\ \A i \in 1 .. n : g[i] = f[i]
      /\ g[n + 1] = e
  BY DEF Extends
<1> DEFINE S == {f[i] : i \in 1 .. n} \cup {e}
<1>1. f \in Seq(S) /\ Len(f) = n
  BY <1>0, AsSeq
<1>2. e \in S
  OBVIOUS
<1> HIDE DEF S
<1>3. /\ Append(f, e) \in Seq(S) /\ Len(Append(f, e)) = n + 1
      /\ \A i \in 1 .. n : Append(f, e)[i] = f[i]
      /\ Append(f, e)[n + 1] = e
  BY <1>0, <1>1, <1>2, AppendProperties
<1>4. DOMAIN Append(f, e) = 1 .. n + 1
  BY <1>0, <1>3, LenProperties
<1>5. Append(f, e) = [i \in 1 .. n + 1 |-> Append(f, e)[i]]
  BY <1>0, <1>3, <1>4, LenProperties
<1>6. \A i \in 1 .. n + 1 : i \in 1 .. n \/ i = n + 1
  BY <1>0
<1>7. \A i \in 1 .. n + 1 : Append(f, e)[i] = g[i]
  BY <1>0, <1>3, <1>6
<1> QED BY <1>0, <1>5, <1>7

LEMMA LocalIs ==
    ASSUME BInv
    PROVE  /\ Deep!Local(current) <=> IsLocal(current)
           /\ \A p \in Places : Deep!Seen(current, p) = cell[p]
<1>1. buffer[current] \in Places
  BY Typed
<1> QED BY <1>1, SeenIs DEF Deep!Local, IsLocal, Here

LEMMA SpecbindDeep ==
    ASSUME BInv, BInv', NEW t \in Threads, NEW v \in Values, Specbind(t, v)
    PROVE  Deep!Let(t, v)
<1> DEFINE p == IF IsLocal(t) THEN Here(t) ELSE Default
           e == [place |-> p,
                 origin |-> IF automatic /\ ~IsLocal(t) THEN Here(t) ELSE None,
                 old |-> cell[p]]
           st == stack[t]
           l == Len(st) + 1
<1>1. t = current /\ UNCHANGED <<current, buffer, live, automatic>>
      /\ stack' = [stack EXCEPT ![t] = Append(@, e)] /\ Store(p, v)
  BY DEF Specbind
<1>2. /\ stack \in [Threads -> Seq(Entries)] /\ st \in Seq(Entries)
      /\ cell \in [Places -> Cellular] /\ Here(t) \in Places /\ Default \in Places
      /\ \A q \in Places : ~Exists(q) => cell[q] = None
      /\ Exists(Default)
  BY Typed DEF Here
<1>3. p \in Places /\ Exists(p) /\ e \in Entries /\ e.old = cell[e.place] /\ e.place = p
  BY <1>2, Typed DEF IsLocal, Here, Entries
<1>4. cell' = [cell EXCEPT ![e.place] = v]
  BY <1>1, <1>3 DEF Store
<1>5. stack'[t] = Append(st, e) /\ \A u \in Threads : u # t => stack'[u] = stack[u]
  BY <1>1, <1>2
<1>6. /\ Shared = OutCell(cell, st, 0) /\ Shared' = OutCell(cell', stack'[t], 0)
      /\ Binds = [u \in Threads |-> IF u = t THEN InView(cell, stack[u]) ELSE OutView(stack[u])]
      /\ Binds' = [u \in Threads |-> IF u = t THEN InView(cell', stack'[u]) ELSE OutView(stack'[u])]
  BY <1>1, ViewNow, ViewNext
<1> DEFINE w == [place  |-> IF Deep!Local(t) THEN buffer[t] ELSE Default,
                 origin |-> IF automatic /\ ~Deep!Local(t) THEN buffer[t] ELSE None,
                 val    |-> v]
<1>7. w = Bind(e, v)
  BY <1>1, LocalIs DEF Bind, Here
<1> HIDE DEF p, e, w
<1>8. /\ OutCell(cell', stack'[t], 0) = OutCell(cell, st, 0)
      /\ \A i \in 1 .. Len(st) : stack'[t][i] = st[i] /\ Val(cell', stack'[t], i) = Val(cell, st, i)
      /\ stack'[t][l] = e /\ Val(cell', stack'[t], l) = v
      /\ DOMAIN stack'[t] = 1 .. l
  <2> DEFINE su == stack'[t]
             d  == cell'
  <2>1. Pushed(cell, st, e, v, d, su)
    BY <1>2, <1>3, <1>4, <1>5 DEF Pushed, Pushes
  <2> HIDE DEF su, d
  <2>2. /\ OutCell(d, su, 0) = OutCell(cell, st, 0)
        /\ \A i \in 1 .. Len(st) : su[i] = st[i] /\ Val(d, su, i) = Val(cell, st, i)
        /\ su[l] = e /\ Val(d, su, l) = v
        /\ DOMAIN su = 1 .. l
    <3> HIDE DEF st
    <3> QED BY <2>1, PushView
  <2> QED BY <2>2 DEF su, d
<1>9. Len(st) \in Nat /\ DOMAIN st = 1 .. Len(st)
  BY <1>2, LenProperties
<1>10. InView(cell', stack'[t]) = Append(InView(cell, st), w)
  <2>1. /\ DOMAIN InView(cell, st) = 1 .. Len(st)
        /\ InView(cell, st) = [i \in 1 .. Len(st) |-> InView(cell, st)[i]]
    BY <1>9 DEF InView
  <2>2. InView(cell', stack'[t]) = [i \in 1 .. l |-> InView(cell', stack'[t])[i]]
    BY <1>8 DEF InView
  <2>3. \A i \in 1 .. Len(st) : i \in 1 .. l
    BY <1>9
  <2>4. \A i \in 1 .. Len(st) : InView(cell', stack'[t])[i] = InView(cell, st)[i]
    BY <1>8, <1>9, <2>3 DEF InView
  <2>5. InView(cell', stack'[t])[l] = w
    BY <1>7, <1>8, <1>9 DEF InView
  <2> DEFINE f == InView(cell, st)
             g == InView(cell', stack'[t])
  <2>6. Extends(Len(st), f, w, g)
    BY <1>9, <2>1, <2>2, <2>4, <2>5 DEF Extends
  <2> HIDE DEF f, g
  <2>7. g = Append(f, w)
    <3> HIDE DEF st
    <3> QED BY <2>6, Appended
  <2> QED BY <2>7 DEF f, g
<1>11. Binds' = [Binds EXCEPT ![t] = Append(@, w)]
  BY <1>5, <1>6, <1>10
<1>12. Shared' = Shared
  BY <1>6, <1>8
<1> QED BY <1>1, <1>11, <1>12 DEF Deep!Let, w

\* Without the top binding, what it had put away is no longer in the way.
LEMMA PopView ==
    ASSUME NEW c, NEW st, NEW e, NEW su, Pushes(st, e, su)
    PROVE  \A q \in Places, n \in 0 .. Len(st) :
             OutCell(c, st, n)[q] = IF q = e.place /\ Above(st, q, n) = {} THEN c[q]
                                    ELSE OutCell(c, su, n)[q]
<1> TAKE q \in Places, n \in 0 .. Len(st)
<1>1. CASE Above(st, q, n) # {}
  <2> DEFINE m == Min(Above(st, q, n))
  <2>1. m \in 1 .. Len(st) /\ Above(su, q, n) # {} /\ Min(Above(su, q, n)) = m
    BY <1>1, PushFacts
  <2>2. su[m] = st[m]
    BY <2>1, PushFacts
  <2> QED BY <1>1, <2>1, <2>2 DEF OutCell
<1>2. CASE Above(st, q, n) = {} /\ q # e.place
  <2>1. Above(su, q, n) = {}
    BY <1>2, PushFacts
  <2> QED BY <1>2, <2>1 DEF OutCell
<1>3. CASE Above(st, q, n) = {} /\ q = e.place
  BY <1>3 DEF OutCell
<1> QED BY <1>1, <1>2, <1>3

\* A sequence is its front and its last element.
LEMMA FrontLast ==
    ASSUME NEW st \in Seq(Entries), st # << >>
    PROVE  Pushes(Front(st), Last(st), st)
<1> DEFINE n == Len(st)
<1>1. /\ Front(st) \in Seq(Entries) /\ n \in Nat \ {0}
      /\ Len(Front(st)) = n - 1
      /\ \A i \in 1 .. n - 1 : Front(st)[i] = st[i]
      /\ Last(st) = st[n] /\ Last(st) \in Entries
  BY FrontIs
<1>2. /\ Append(Front(st), Last(st)) \in Seq(Entries)
      /\ Len(Append(Front(st), Last(st))) = n
      /\ \A i \in 1 .. n - 1 : Append(Front(st), Last(st))[i] = st[i]
      /\ Append(Front(st), Last(st))[n] = st[n]
  BY <1>1, AppendProperties
<1>3. \A i \in 1 .. n : Append(Front(st), Last(st))[i] = st[i]
  <2>1. \A i \in 1 .. n : i \in 1 .. n - 1 \/ i = n
    BY <1>1
  <2> QED BY <1>2, <2>1
<1>4. Append(Front(st), Last(st)) = st
  BY <1>2, <1>3, SeqEqual
<1> QED BY <1>1, <1>4 DEF Pushes

\* The bindings of DeepBinding but the innermost.
LEMMA RestIs ==
    ASSUME NEW f, NEW n \in Nat \ {0}, f = [i \in 1 .. n |-> f[i]]
    PROVE  /\ Len(f) = n /\ f # << >>
           /\ DOMAIN SubSeq(f, 1, Len(f) - 1) = 1 .. n - 1
           /\ \A i \in 1 .. n - 1 : SubSeq(f, 1, Len(f) - 1)[i] = f[i]
<1> DEFINE S == {f[i] : i \in 1 .. n}
<1>1. \A i \in 1 .. n : f[i] \in S
  OBVIOUS
<1> HIDE DEF S
<1>2. f \in Seq(S) /\ Len(f) = n
  BY <1>1, AsSeq
<1>3. /\ SubSeq(f, 1, Len(f) - 1) \in Seq(S)
      /\ Len(SubSeq(f, 1, Len(f) - 1)) = n - 1
      /\ \A i \in 1 .. n - 1 : SubSeq(f, 1, Len(f) - 1)[i] = f[i]
  BY <1>2, SubSeqProperties
<1>4. DOMAIN SubSeq(f, 1, Len(f) - 1) = 1 .. n - 1
  BY <1>3, LenProperties
<1>5. f # << >>
  BY <1>2, EmptySeq
<1> QED BY <1>2, <1>3, <1>4, <1>5

LEMMA UnbindDeep ==
    ASSUME BInv, BInv', NEW t \in Threads, Unbind(t)
    PROVE  Deep!Unlet(t)
<1> DEFINE st == stack[t]
           sb == Last(st)
           fr == Front(st)
           p  == sb.place
           n  == Len(st)
           rest  == SubSeq(Binds[t], 1, Len(Binds[t]) - 1)
           below == {i \in DOMAIN rest : rest[i].place = p}
           gone  == cell[p] = None
<1>1. /\ t = current /\ UNCHANGED <<current, buffer, live, automatic>> /\ st # << >>
      /\ cell' = IF gone THEN cell ELSE [cell EXCEPT ![p] = sb.old]
      /\ stack' = [stack EXCEPT ![t] = fr]
  BY DEF Unbind
<1>2. /\ stack \in [Threads -> Seq(Entries)] /\ st \in Seq(Entries)
      /\ cell \in [Places -> Cellular]
      /\ \A q \in Places : ~Exists(q) => cell[q] = None
  BY Typed
<1>3. /\ fr \in Seq(Entries) /\ n \in Nat \ {0} /\ Len(fr) = n - 1
      /\ DOMAIN fr = 1 .. n - 1 /\ DOMAIN st = 1 .. n /\ n \in DOMAIN st
      /\ \A i \in 1 .. n - 1 : fr[i] = st[i]
      /\ sb = st[n] /\ sb \in Entries
  BY <1>1, <1>2, FrontIs
<1>4. p \in Places /\ sb.old \in Cellular
  BY <1>3, EntryFacts DEF Entries
<1>5. stack'[t] = fr /\ \A u \in Threads : u # t => stack'[u] = stack[u]
  BY <1>1, <1>2
<1>6. /\ Shared = OutCell(cell, st, 0) /\ Shared' = OutCell(cell', fr, 0)
      /\ Binds = [u \in Threads |-> IF u = t THEN InView(cell, stack[u]) ELSE OutView(stack[u])]
      /\ Binds' = [u \in Threads |-> IF u = t THEN InView(cell', stack'[u]) ELSE OutView(stack'[u])]
  BY <1>1, <1>5, ViewNow, ViewNext
<1>7. Binds[t] = InView(cell, st) /\ Binds'[t] = InView(cell', fr)
  BY <1>5, <1>6
<1>8. /\ Binds[t] = [i \in 1 .. n |-> Binds[t][i]]
      /\ \A i \in 1 .. n : /\ Binds[t][i] = Bind(st[i], Val(cell, st, i))
                           /\ Binds[t][i].place = st[i].place
                           /\ Binds[t][i].val = Val(cell, st, i)
  BY <1>3, <1>7 DEF InView, Bind
<1>9. /\ Len(Binds[t]) = n /\ Binds[t] # << >> /\ DOMAIN rest = 1 .. n - 1
      /\ \A i \in 1 .. n - 1 : rest[i] = Binds[t][i]
  <2> DEFINE f == Binds[t]
  <2>1. f = [i \in 1 .. n |-> f[i]]
    BY <1>8
  <2> HIDE DEF f
  <2>2. /\ Len(f) = n /\ f # << >>
        /\ DOMAIN SubSeq(f, 1, Len(f) - 1) = 1 .. n - 1
        /\ \A i \in 1 .. n - 1 : SubSeq(f, 1, Len(f) - 1)[i] = f[i]
    BY <1>3, <2>1, RestIs
  <2> QED BY <2>2 DEF f
<1>10. Binds[t][n].place = p /\ (Binds[t][n].val = None <=> gone)
  <2>1. Above(st, p, n) = {}
    BY <1>3 DEF Above, At
  <2>2. Val(cell, st, n) = IF Exists(p) THEN cell[p] ELSE None
    BY <1>3, <1>4, <2>1 DEF Val, OutCell
  <2> QED BY <1>2, <1>3, <1>4, <1>8, <2>2
<1>11. Pushes(fr, sb, st)
  BY <1>1, <1>2, FrontLast
<1> HIDE DEF rest, sb, fr
<1>12. \A i \in 1 .. n - 1 : /\ rest[i] = Bind(fr[i], Val(cell, st, i))
                             /\ rest[i].place = fr[i].place
                             /\ i \in 1 .. n /\ i \in DOMAIN fr /\ fr[i].place \in Places
                             /\ i \in Nat /\ i \in 0 .. Len(fr)
  <2> TAKE i \in 1 .. n - 1
  <2>1. i \in 1 .. n /\ i \in DOMAIN fr /\ i \in Nat /\ i \in 0 .. Len(fr)
    BY <1>3
  <2>2. fr[i].place \in Places
    BY <1>3, <2>1, PlaceOf
  <2> QED BY <1>3, <1>8, <1>9, <2>1, <2>2
\* The bindings below, as DeepBinding has them afterwards.
<1> DEFINE after == [i \in DOMAIN rest |->
                       IF gone /\ i \in below /\ \A j \in below : j <= i
                       THEN [rest[i] EXCEPT !.val = None] ELSE rest[i]]
<1>13. ASSUME \A i \in 1 .. n - 1 : Bind(fr[i], Val(cell', fr, i)) = after[i]
       PROVE  Binds' = [Binds EXCEPT ![t] = after]
  <2>1. InView(cell', fr) = after
    BY <1>3, <1>9, <1>13 DEF InView
  <2> HIDE DEF after
  <2>2. \A u \in Threads : u # t => Binds'[u] = Binds[u]
    BY <1>5, <1>6
  <2> QED BY <1>6, <1>7, <2>1, <2>2
<1>14. ASSUME Binds' = [Binds EXCEPT ![t] = after],
              Shared' = IF gone /\ below = {} THEN [Shared EXCEPT ![p] = None] ELSE Shared
       PROVE  Deep!Unlet(t)
  <2> DEFINE top    == Binds[t][Len(Binds[t])]
             ended  == top.val = None
             under  == {i \in DOMAIN rest : rest[i].place = top.place}
             behind == [i \in DOMAIN rest |->
                          IF ended /\ i \in under /\ \A j \in under : j <= i
                          THEN [rest[i] EXCEPT !.val = None] ELSE rest[i]]
  <2>1. top.place = p /\ (ended <=> gone) /\ Binds[t] # << >>
    BY <1>9, <1>10
  <2>2. under = below
    BY <2>1
  <2>3. behind = after
    <3> HIDE DEF top, ended, under, below, gone
    <3> QED BY <2>1, <2>2
  <2> HIDE DEF after, below, gone
  <2>4. Binds' = [Binds EXCEPT ![t] = behind]
    BY <1>14, <2>3
  <2>5. Shared' = IF ended /\ under = {} THEN [Shared EXCEPT ![top.place] = None] ELSE Shared
    <3> HIDE DEF top, ended, under
    <3> QED BY <1>14, <2>1, <2>2
  <2> QED BY <1>1, <2>1, <2>4, <2>5 DEF Deep!Unlet, rest
<1>15. CASE ~gone
  <2>1. Exists(p)
    BY <1>2, <1>4, <1>15
  <2>2. Pushed(cell', fr, sb, cell[p], cell, st)
    <3>1. cell' \in [Places -> Cellular] /\ sb.old = cell'[p]
          /\ cell = [cell' EXCEPT ![p] = cell[p]]
      BY <1>1, <1>2, <1>4, <1>15
    <3> QED BY <1>11, <2>1, <3>1 DEF Pushed
  <2>3. /\ OutCell(cell, st, 0) = OutCell(cell', fr, 0)
        /\ \A i \in 1 .. n - 1 : Val(cell, st, i) = Val(cell', fr, i)
    BY <1>3, <2>2, PushView
  <2>4. \A i \in 1 .. n - 1 : Bind(fr[i], Val(cell', fr, i)) = after[i]
    BY <1>9, <1>12, <1>15, <2>3
  <2>5. Shared' = Shared
    BY <1>6, <2>3
  <2>6. Binds' = [Binds EXCEPT ![t] = after]
    BY <1>13, <2>4
  <2> HIDE DEF after
  <2> QED BY <1>15, <1>14, <2>5, <2>6
<1>16. CASE gone
  <2>1. \A q \in Places, m \in 0 .. Len(fr) :
           OutCell(cell', fr, m)[q] = IF q = p /\ Above(fr, q, m) = {} THEN None
                                      ELSE OutCell(cell, st, m)[q]
    BY <1>1, <1>11, <1>16, PopView
  <2>2. below = At(fr, p)
    BY <1>3, <1>9, <1>12 DEF At
  <2>3. \A i \in 1 .. n - 1 : Val(cell', fr, i)
           = IF i \in below /\ \A j \in below : j <= i THEN None ELSE Val(cell, st, i)
    <3> TAKE i \in 1 .. n - 1
    <3>1. fr[i] = st[i] /\ fr[i].place \in Places /\ i \in 0 .. Len(fr)
      BY <1>3, <1>12
    <3>2. i \in below <=> fr[i].place = p
      BY <1>12, <2>2 DEF At
    <3>3. (\A j \in below : j <= i) <=> Above(fr, p, i) = {}
      <4>1. \A j \in below : j \in Nat /\ i \in Nat
        BY <1>3, <2>2 DEF At
      <4> QED BY <2>2, <4>1 DEF Above
    <3> QED BY <2>1, <3>1, <3>2, <3>3 DEF Val
  <2>4. \A i \in 1 .. n - 1 : Bind(fr[i], Val(cell', fr, i)) = after[i]
    <3> TAKE i \in 1 .. n - 1
    <3>1. after[i] = IF i \in below /\ \A j \in below : j <= i
                     THEN [rest[i] EXCEPT !.val = None] ELSE rest[i]
      BY <1>9, <1>16
    <3>2. rest[i] = Bind(fr[i], Val(cell, st, i))
      BY <1>12
    <3>3. [rest[i] EXCEPT !.val = None] = Bind(fr[i], None)
      BY <3>2 DEF Bind
    <3> HIDE DEF after, below
    <3> QED BY <2>3, <3>1, <3>2, <3>3
  <2>5. \A q \in Places : Shared'[q] = IF q = p /\ below = {} THEN None ELSE Shared[q]
    <3>1. 0 \in 0 .. Len(fr)
      BY <1>3
    <3>2. Above(fr, p, 0) = At(fr, p)
      BY <1>3 DEF Above, At
    <3> QED BY <1>6, <2>1, <2>2, <3>1, <3>2
  <2>6. Shared' = IF gone /\ below = {} THEN [Shared EXCEPT ![p] = None] ELSE Shared
    BY <1>4, <1>6, <1>16, <2>5 DEF OutCell
  <2>7. Binds' = [Binds EXCEPT ![t] = after]
    BY <1>13, <2>4
  <2> HIDE DEF after, below
  <2> QED BY <1>14, <2>6, <2>7
<1> QED BY <1>15, <1>16

\* Assignments.
LEMMA StoreDeep ==
    ASSUME BInv, BInv', NEW p \in Places, NEW v, Store(p, v), UNCHANGED <<current, live, stack>>
    PROVE  /\ Exists(p) => Deep!Put(current, p, v)
           /\ ~Exists(p) => UNCHANGED <<Shared, Binds>>
<1>1. CASE Exists(p)
  BY <1>1, PutCell DEF Store
<1>2. CASE ~Exists(p)
  BY <1>2, ViewKept DEF Store
<1> QED BY <1>1, <1>2

LEMMA ShadowedIs ==
    ASSUME BInv
    PROVE  Shadowed(current) <=> \E i \in DOMAIN Binds[current] : Binds[current][i].origin = buffer[current]
<1>1. current \in Threads
  BY Typed
<1>2. Binds[current] = InView(cell, stack[current])
  BY <1>1, ViewNow
<1> QED BY <1>2 DEF Shadowed, Here, InView, Bind

LEMMA HereExists ==
    ASSUME BInv
    PROVE  /\ buffer[current] \in Places /\ (Exists(buffer[current]) <=> buffer[current] \in live)
           /\ Default \in Places /\ Exists(Default)
           /\ Deep!Local(current) => buffer[current] \in live
<1>1. /\ current \in Threads /\ buffer[current] \in Buffers /\ Default \in Places
      /\ \A b \in Buffers : b \in Places /\ b # Default
      /\ \A q \in Places : ~Exists(q) => cell[q] = None
  BY Typed
<1>2. Exists(buffer[current]) <=> buffer[current] \in live
  BY <1>1 DEF Exists
<1>3. Deep!Local(current) => cell[buffer[current]] # None
  BY LocalIs DEF IsLocal, Here
<1> QED BY <1>1, <1>2, <1>3 DEF Exists

LEMMA SetDeep ==
    ASSUME BInv, BInv', NEW t \in Threads, NEW v \in Values, SetSymbol(t, v)
    PROVE  Deep!Set(t, v)
<1> DEFINE here == IsLocal(t) \/ (automatic /\ ~Shadowed(t))
           shadowed == \E i \in DOMAIN Binds[t] : Binds[t][i].origin = buffer[t]
           deepHere == Deep!Local(t) \/ (automatic /\ ~shadowed)
<1>1. /\ t = current /\ UNCHANGED <<current, buffer, live, stack, automatic>>
      /\ Store(IF here THEN buffer[t] ELSE Default, v)
  BY DEF SetSymbol, Here
<1>2. here <=> deepHere
  BY <1>1, LocalIs, ShadowedIs
<1> HIDE DEF here, deepHere
<1>3. CASE deepHere
  <2>1. Store(buffer[t], v)
    BY <1>1, <1>2, <1>3
  <2>2. IF buffer[t] \in live THEN Deep!Put(t, buffer[t], v) ELSE UNCHANGED <<Shared, Binds>>
    BY <1>1, <2>1, HereExists, StoreDeep
  <2> QED BY <1>1, <1>3, <2>2 DEF Deep!Set, deepHere
<1>4. CASE ~deepHere
  <2>1. Store(Default, v)
    BY <1>1, <1>2, <1>4
  <2>2. Deep!Put(t, Default, v)
    BY <1>1, <2>1, HereExists, StoreDeep
  <2> QED BY <1>1, <1>4, <2>2 DEF Deep!Set, deepHere
<1> QED BY <1>3, <1>4

LEMMA OtherAssignDeep ==
    ASSUME BInv, BInv', NEW t \in Threads
    PROVE  /\ \A v \in Values : SetSymbolDefault(t, v) => Deep!SetDefault(t, v)
           /\ Makunbound(t) => Deep!MakeUnbound(t)
           /\ MakeLocalVariable(t) => Deep!MakeLocal(t)
           /\ KillLocalVariable(t) => Deep!KillLocal(t)
           /\ MakeVariableBufferLocal(t) => Deep!MakeAutomatic(t)
<1>1. ASSUME NEW v \in Values, SetSymbolDefault(t, v) PROVE Deep!SetDefault(t, v)
  <2>1. t = current /\ UNCHANGED <<current, buffer, live, stack, automatic>> /\ Store(Default, v)
    BY <1>1 DEF SetSymbolDefault
  <2>2. Deep!Put(t, Default, v)
    BY <2>1, HereExists, StoreDeep
  <2> QED BY <2>1, <2>2 DEF Deep!SetDefault
<1>2. ASSUME Makunbound(t) PROVE Deep!MakeUnbound(t)
  <2>1. /\ t = current /\ UNCHANGED <<current, buffer, live, stack, automatic>>
        /\ Store(IF automatic \/ IsLocal(t) THEN buffer[t] ELSE Default, Void)
    BY <1>2 DEF Makunbound, Here
  <2>2. CASE automatic \/ IsLocal(t)
    <3>1. Store(buffer[t], Void)
      BY <2>1, <2>2
    <3>2. IF buffer[t] \in live THEN Deep!Put(t, buffer[t], Void) ELSE UNCHANGED <<Shared, Binds>>
      BY <2>1, <3>1, HereExists, StoreDeep
    <3>3. Deep!Local(t) \/ automatic
      BY <2>1, <2>2, LocalIs
    <3> QED BY <2>1, <3>2, <3>3 DEF Deep!MakeUnbound
  <2>3. CASE ~(automatic \/ IsLocal(t))
    <3>1. Store(Default, Void)
      BY <2>1, <2>3
    <3>2. Deep!Put(t, Default, Void)
      BY <2>1, <3>1, HereExists, StoreDeep
    <3>3. ~(Deep!Local(t) \/ automatic)
      BY <2>1, <2>3, LocalIs
    <3> QED BY <2>1, <3>2, <3>3 DEF Deep!MakeUnbound
  <2> QED BY <2>2, <2>3
<1>3. ASSUME MakeLocalVariable(t) PROVE Deep!MakeLocal(t)
  <2>1. /\ t = current /\ UNCHANGED <<current, buffer, live, stack, automatic>>
        /\ buffer[t] \in live /\ ~IsLocal(t) /\ Store(buffer[t], cell[Default])
    BY <1>3 DEF MakeLocalVariable, Here
  <2>2. Deep!Seen(t, Default) = cell[Default] /\ ~Deep!Local(t)
    BY <2>1, LocalIs, HereExists
  <2>3. Deep!Put(t, buffer[t], Deep!Seen(t, Default))
    BY <2>1, <2>2, HereExists, StoreDeep
  <2> QED BY <2>1, <2>2, <2>3 DEF Deep!MakeLocal
<1>4. ASSUME KillLocalVariable(t) PROVE Deep!KillLocal(t)
  <2>1. /\ t = current /\ UNCHANGED <<current, buffer, live, stack, automatic>>
        /\ buffer[t] \in live /\ Store(buffer[t], None)
    BY <1>4 DEF KillLocalVariable, Here
  <2>2. Deep!Put(t, buffer[t], None)
    BY <2>1, HereExists, StoreDeep
  <2> QED BY <2>1, <2>2 DEF Deep!KillLocal
<1>5. ASSUME MakeVariableBufferLocal(t) PROVE Deep!MakeAutomatic(t)
  <2>1. /\ t = current /\ UNCHANGED <<current, buffer, live, stack>>
        /\ automatic' = TRUE
        /\ cell' = [cell EXCEPT ![Default] = IF cell[Default] = Void THEN Nil ELSE cell[Default]]
    BY <1>5 DEF MakeVariableBufferLocal
  <2>2. Deep!Seen(t, Default) = cell[Default] /\ cell \in [Places -> Cellular]
    BY <2>1, LocalIs, HereExists, Typed
  <2>3. CASE cell[Default] = Void
    <3>1. cell' = [cell EXCEPT ![Default] = Nil]
      BY <2>1, <2>3
    <3>2. Deep!Put(t, Default, Nil)
      BY <2>1, <3>1, HereExists, PutCell
    <3> QED BY <2>1, <2>2, <2>3, <3>2 DEF Deep!MakeAutomatic
  <2>4. CASE cell[Default] # Void
    <3>1. cell' = cell
      BY <2>1, <2>2, <2>4
    <3>2. UNCHANGED <<Shared, Binds>>
      BY <2>1, <3>1, ViewKept
    <3> QED BY <2>1, <2>2, <2>4, <3>2 DEF Deep!MakeAutomatic
  <2> QED BY <2>3, <2>4
<1> QED BY <1>1, <1>2, <1>3, <1>4, <1>5

\* A defvar under bindings gives its value to what lies outside of them all.
LEMMA DefvarDeep ==
    ASSUME BInv, BInv', NEW t \in Threads, NEW v \in Values, Defvar1(t, v)
    PROVE  Deep!Defvar(t, v)
<1> DEFINE st == stack[t]
           m  == Min(Global(t))
<1>1. t = current /\ UNCHANGED <<current, buffer, live, automatic>>
  BY DEF Defvar1
<1>2. CASE Store(Default, v) /\ UNCHANGED stack
  <2>1. Deep!Put(t, Default, v)
    BY <1>1, <1>2, HereExists, StoreDeep
  <2> QED BY <1>1, <2>1 DEF Deep!Defvar
<1>3. CASE /\ DefvarTarget(t) = "outermost" /\ UNCHANGED cell
           /\ stack' = [stack EXCEPT ![t][m].old = v]
  <2>1. Global(t) # {}
    BY <1>3 DEF DefvarTarget
  <2>2. /\ stack \in [Threads -> Seq(Entries)] /\ st \in Seq(Entries)
        /\ Exists(Default) /\ Default \in Places
    BY Typed
  <2>3. /\ Global(t) = At(st, Default) /\ m \in Global(t) /\ \A i \in Global(t) : m <= i
        /\ Len(st) \in Nat /\ DOMAIN st = 1 .. Len(st)
        /\ \A i \in 1 .. Len(st) : st[i] \in Entries
    BY <2>1, GlobalFacts
  <2>4. m \in DOMAIN st /\ st[m].place = Default /\ m \in Nat /\ m > 0
    BY <2>3 DEF At
  <2> HIDE DEF m
  <2> DEFINE su == stack'[t]
  <2>5. /\ DOMAIN su = DOMAIN st /\ \A u \in Threads : u # t => stack'[u] = stack[u]
        /\ \A i \in DOMAIN st : i # m => su[i] = st[i]
        /\ su[m] = [st[m] EXCEPT !.old = v]
    BY <1>3, <2>2, <2>4
  <2>6. /\ su[m].old = v /\ su[m].place = st[m].place /\ su[m].origin = st[m].origin
    BY <2>3, <2>4, <2>5 DEF Entries
  <2>7. \A i \in DOMAIN st : su[i].place = st[i].place /\ su[i].origin = st[i].origin
    BY <2>5, <2>6
  <2> HIDE DEF su
  <2>8. \A q, n : Above(su, q, n) = Above(st, q, n)
    BY <2>5, <2>7 DEF Above, At
  <2>9. ASSUME NEW q \in Places, NEW n \in 0 .. Len(st), q # Default \/ m <= n
        PROVE  OutCell(cell, su, n)[q] = OutCell(cell, st, n)[q]
    <3>1. CASE Above(st, q, n) = {}
      BY <2>8, <3>1 DEF OutCell
    <3>2. CASE Above(st, q, n) # {}
      <4> DEFINE k == Min(Above(st, q, n))
      <4>1. k \in Above(st, q, n)
        BY <2>2, <3>2, AtFacts, MinFacts
      <4>2. k \in DOMAIN st /\ st[k].place = q /\ k > n /\ k \in Nat
        BY <2>3, <4>1 DEF Above, At
      <4>3. k # m
        BY <2>3, <2>4, <2>9, <4>2
      <4>4. su[k] = st[k]
        BY <2>5, <4>2, <4>3
      <4> HIDE DEF k
      <4>5. Min(Above(st, q, n)) = k
        BY DEF k
      <4> QED BY <2>8, <3>2, <4>4, <4>5 DEF OutCell
    <3> QED BY <3>1, <3>2
  <2>10. \A i \in DOMAIN st : Val(cell, su, i) = Val(cell, st, i)
    <3> TAKE i \in DOMAIN st
    <3>1. st[i].place \in Places /\ i \in 0 .. Len(st) /\ i \in Nat
      BY <2>2, <2>3, PlaceOf
    <3>2. st[i].place = Default => m <= i
      BY <2>3 DEF At
    <3>3. OutCell(cell, su, i)[st[i].place] = OutCell(cell, st, i)[st[i].place]
      BY <2>9, <3>1, <3>2
    <3> QED BY <2>7, <3>3 DEF Val
  <2>11. OutCell(cell, su, 0)[Default] = v
    <3>1. m \in Above(st, Default, 0) /\ \A j \in Above(st, Default, 0) : m <= j
      BY <2>3, <2>4 DEF Above
    <3>2. Above(st, Default, 0) \in SUBSET Nat
      BY <2>3 DEF Above, At
    <3>3. Min(Above(st, Default, 0)) = m
      BY <3>1, <3>2, MinIs
    <3> QED BY <2>2, <2>6, <2>8, <3>1, <3>3 DEF OutCell
  <2>12. /\ Shared = OutCell(cell, st, 0) /\ Shared' = OutCell(cell, su, 0)
         /\ Binds = [u \in Threads |-> IF u = t THEN InView(cell, stack[u]) ELSE OutView(stack[u])]
         /\ Binds' = [u \in Threads |-> IF u = t THEN InView(cell, stack'[u]) ELSE OutView(stack'[u])]
    BY <1>1, <1>3, ViewNow, ViewNext DEF su
  <2>13. Shared' = [Shared EXCEPT ![Default] = v]
    <3>1. \A q \in Places : q # Default => OutCell(cell, su, 0)[q] = OutCell(cell, st, 0)[q]
      <4>1. 0 \in 0 .. Len(st)
        BY <2>3
      <4> QED BY <2>9, <4>1
    <3> QED BY <2>2, <2>11, <2>12, <3>1 DEF OutCell
  <2>14. InView(cell, su) = InView(cell, st)
    BY <2>5, <2>7, <2>10 DEF InView, Bind
  <2>15. Binds' = Binds
    BY <2>5, <2>12, <2>14 DEF su
  <2> QED BY <1>1, <2>13, <2>15 DEF Deep!Defvar
<1> QED BY <1>2, <1>3 DEF Defvar1

\* A killed buffer takes the values of its bindings with it.
LEMMA KillBufferDeep ==
    ASSUME BInv, NEW t \in Threads, NEW b \in Buffers, KillBuffer(t, b)
    PROVE  Deep!KillBuffer(t, b)
<1>1. /\ UNCHANGED <<current, stack, automatic>> /\ live' = live \ {b}
      /\ b \in live /\ live # {b} /\ cell' = [cell EXCEPT ![b] = None]
      /\ \E d \in live' : buffer' = IF Here(t) = b THEN [buffer EXCEPT ![t] = d] ELSE buffer
  BY DEF KillBuffer
<1>2. /\ b \in Places /\ b # Default /\ cell \in [Places -> Cellular]
      /\ \A u \in Threads : stack[u] \in Seq(Entries)
  BY Typed
<1>3. \A q : Exists(q)' <=> Exists(q) /\ q # b
  BY <1>1, <1>2 DEF Exists
<1>4. \A q \in Places : cell'[q] = IF q = b THEN None ELSE cell[q]
  BY <1>1, <1>2
<1>5. (\A u, q : On(u, q)' = On(u, q)) /\ (\A u, i : After(u, i)' = After(u, i))
  BY <1>1 DEF On, After
<1>6. Shared' = [Shared EXCEPT ![b] = None]
  BY <1>1, <1>2, <1>3, <1>4, <1>5 DEF Shared
<1>7. \A u \in Threads : \A i \in DOMAIN stack[u] :
         ValueOf(u, i)' = IF stack[u][i].place = b THEN None ELSE ValueOf(u, i)
  <2> TAKE u \in Threads
  <2> TAKE i \in DOMAIN stack[u]
  <2>1. stack[u][i].place \in Places
    BY <1>2, PlaceOf
  <2> QED BY <1>1, <1>3, <1>4, <1>5, <2>1 DEF ValueOf
<1>8. \A u \in Threads : \A i \in DOMAIN Binds[u] :
         /\ DOMAIN Binds[u] = DOMAIN stack[u]
         /\ Binds[u][i] = Bind(stack[u][i], ValueOf(u, i))
         /\ Binds[u][i].place = stack[u][i].place
  BY DEF Binds, Bind
<1>9. Binds' = [u \in Threads |-> [i \in DOMAIN stack[u] |-> Bind(stack[u][i], ValueOf(u, i)')]]
  BY <1>1 DEF Binds, Bind
<1>10. \A u \in Threads : DOMAIN Binds[u] = DOMAIN stack[u]
  BY DEF Binds
<1>11. \A u \in Threads : \A i \in DOMAIN stack[u] :
         Bind(stack[u][i], ValueOf(u, i)')
           = IF Binds[u][i].place = b THEN [Binds[u][i] EXCEPT !.val = None] ELSE Binds[u][i]
  <2> TAKE u \in Threads
  <2> TAKE i \in DOMAIN stack[u]
  <2>1. \A e, v : [Bind(e, v) EXCEPT !.val = None] = Bind(e, None)
    BY DEF Bind
  <2>2. Binds[u][i] = Bind(stack[u][i], ValueOf(u, i)) /\ Binds[u][i].place = stack[u][i].place
    BY <1>8, <1>10
  <2>3. [Binds[u][i] EXCEPT !.val = None] = Bind(stack[u][i], None)
    BY <2>1, <2>2
  <2>4. ValueOf(u, i)' = IF stack[u][i].place = b THEN None ELSE ValueOf(u, i)
    BY <1>7
  <2>5. CASE stack[u][i].place = b
    BY <2>2, <2>3, <2>4, <2>5
  <2>6. CASE stack[u][i].place # b
    BY <2>2, <2>4, <2>6
  <2> QED BY <2>5, <2>6
<1>12. Binds' = [u \in Threads |-> [i \in DOMAIN Binds[u] |->
                   IF Binds[u][i].place = b THEN [Binds[u][i] EXCEPT !.val = None]
                   ELSE Binds[u][i]]]
  BY <1>9, <1>10, <1>11
<1>13. UNCHANGED buffer \/ \E d \in live' : buffer' = [buffer EXCEPT ![t] = d]
  BY <1>1
<1> QED BY <1>1, <1>6, <1>12, <1>13 DEF Deep!KillBuffer

\* A switch of threads: the one that leaves keeps its bindings, or drops them
\* when it ends, and the one that comes finds its own.
Comes(d, su, e, is) ==
    /\ d \in [Places -> Cellular] /\ su \in Seq(Entries) /\ KeepsDefault(d, su)
    /\ e = InCell(d, su, Len(su)) /\ is = InStack(d, su, Len(su))

LEMMA ComesView ==
    ASSUME NEW d, NEW su, NEW e, NEW is, Comes(d, su, e, is)
    PROVE  OutCell(e, is, 0) = d /\ InView(e, is) = OutView(su)
<1>1. /\ d \in [Places -> Cellular] /\ su \in Seq(Entries) /\ KeepsDefault(d, su)
      /\ e = InCell(d, su, Len(su)) /\ is = InStack(d, su, Len(su))
  BY DEF Comes
<1>2. /\ OutCell(e, is, 0) = d
      /\ \A i \in 1 .. Len(su) :
           Exists(su[i].place) => OutCell(e, is, i)[su[i].place] = su[i].old
  BY <1>1, InThenOut
<1>3. /\ is \in Seq(Entries) /\ Len(is) = Len(su)
      /\ \A i \in 1 .. Len(is) : is[i].place = su[i].place /\ is[i].origin = su[i].origin
  BY <1>1, InStackFacts DEF Alike
<1>4. DOMAIN is = 1 .. Len(su) /\ DOMAIN su = 1 .. Len(su)
  BY <1>1, <1>3, LenProperties
<1>5. \A i \in 1 .. Len(su) : Val(e, is, i) = Kept(su, i)
  BY <1>2, <1>3 DEF Val, Kept
<1>6. InView(e, is) = OutView(su)
  BY <1>3, <1>4, <1>5 DEF InView, OutView, Bind
<1> QED BY <1>2, <1>6

LEMMA LeavesView ==
    ASSUME BInv, NEW t \in Threads
    PROVE  /\ OutState(t).cell = OutCell(cell, stack[t], 0)
           /\ OutView(OutState(t).stack) = InView(cell, stack[t])
<1> DEFINE st == stack[t]
           os == OutState(t).stack
<1>1. /\ cell \in [Places -> Cellular] /\ st \in Seq(Entries) /\ KeepsDefault(cell, st)
  BY Typed
<1>2. OutState(t).cell = OutCell(cell, st, 0) /\ os = OutStack(cell, st, 0)
  BY SwitchFacts
<1> HIDE DEF os, st
<1>3. /\ os \in Seq(Entries) /\ Len(os) = Len(st)
      /\ \A i \in 1 .. Len(os) : os[i].place = st[i].place /\ os[i].origin = st[i].origin
      /\ \A i \in 1 .. Len(st) : os[i].old
           = IF Exists(st[i].place) THEN OutCell(cell, st, i)[st[i].place] ELSE st[i].old
  BY <1>1, <1>2, OutStackFacts DEF Alike
<1>4. DOMAIN os = 1 .. Len(st) /\ DOMAIN st = 1 .. Len(st)
  BY <1>1, <1>3, LenProperties
<1>5. \A i \in 1 .. Len(st) : Kept(os, i) = Val(cell, st, i)
  BY <1>3 DEF Val, Kept
<1>6. OutView(os) = InView(cell, st)
  BY <1>3, <1>4, <1>5 DEF InView, OutView, Bind
<1> QED BY <1>2, <1>6 DEF os, st

LEMMA NoView == OutView(<< >>) = << >>
<1>1. DOMAIN << >> = {}
  OBVIOUS
<1> QED BY <1>1 DEF OutView

LEMMA SwitchDeep ==
    ASSUME BInv, BInv', NEW t \in Threads, Resume(t) \/ Suspend(t) \/ Finish(t)
    PROVE  (\E x \in Threads : Deep!End(x)) \/ UNCHANGED Deep!vars
<1>1. PICK x \in Threads, y \in Threads, left \in Seq(Entries) :
         /\ x # y /\ current = x /\ current' = y
         /\ cell' = InState(x, y).cell
         /\ stack' = [stack EXCEPT ![x] = left, ![y] = InState(x, y).stack]
         /\ UNCHANGED <<unborn, buffer, live, ops, automatic>>
         /\ \/ left = OutState(x).stack /\ alive' = alive
            \/ left = << >> /\ alive' = alive \ {x}
  BY SwitchIs
<1> DEFINE d  == OutState(x).cell
           is == InState(x, y).stack
<1>2. stack \in [Threads -> Seq(Entries)] /\ \A u \in Threads : stack[u] \in Seq(Entries)
  BY Typed
<1>3. Comes(d, stack[y], cell', is)
  BY <1>1, <1>2, SwitchFacts DEF Comes
<1> HIDE DEF d, is
<1>4. OutCell(cell', is, 0) = d /\ InView(cell', is) = OutView(stack[y])
  BY <1>3, ComesView
<1>5. /\ stack'[x] = left /\ stack'[y] = is
      /\ \A u \in Threads : u # x /\ u # y => stack'[u] = stack[u]
  BY <1>1, <1>2 DEF is
<1>6. /\ Shared = OutCell(cell, stack[x], 0) /\ Shared' = OutCell(cell', is, 0)
      /\ Binds = [u \in Threads |-> IF u = x THEN InView(cell, stack[u]) ELSE OutView(stack[u])]
      /\ Binds' = [u \in Threads |-> IF u = y THEN InView(cell', stack'[u]) ELSE OutView(stack'[u])]
  BY <1>1, <1>5, ViewNow, ViewNext
<1>7. Shared' = Shared
  BY <1>4, <1>6, LeavesView DEF d
<1>8. Binds' = [Binds EXCEPT ![x] = OutView(left)]
  <2>1. Binds'[x] = OutView(left)
    BY <1>1, <1>5, <1>6
  <2>2. Binds'[y] = Binds[y]
    BY <1>1, <1>4, <1>5, <1>6
  <2>3. \A u \in Threads : u # x /\ u # y => Binds'[u] = Binds[u]
    BY <1>5, <1>6
  <2>4. Binds' = [u \in Threads |-> Binds'[u]] /\ Binds = [u \in Threads |-> Binds[u]]
    BY DEF Binds
  <2> QED BY <2>1, <2>2, <2>3, <2>4
<1>9. CASE left = OutState(x).stack
  <2>1. OutView(left) = Binds[x]
    BY <1>6, <1>9, LeavesView
  <2>2. Binds' = Binds
    BY <1>6, <1>8, <2>1
  <2> QED BY <1>1, <1>7, <2>2 DEF Deep!vars
<1>10. CASE left = << >>
  <2>1. Binds' = [Binds EXCEPT ![x] = << >>]
    BY <1>8, <1>10, NoView
  <2> QED BY <1>1, <1>7, <2>1 DEF Deep!End
<1> QED BY <1>1, <1>9, <1>10

LEMMA MakeThreadDeep ==
    ASSUME BInv, BInv', NEW t \in Threads, NEW u \in Workers, MakeThread(t, u)
    PROVE  Deep!Start(t, u)
<1>1. /\ current = t /\ u \in unborn /\ UNCHANGED <<current, live, cell, stack, automatic>>
      /\ buffer' = [buffer EXCEPT ![u] = buffer[t]]
  BY DEF MakeThread
<1>2. UNCHANGED <<Shared, Binds>>
  BY <1>1, ViewKept
<1>3. u \in Threads /\ u \notin alive \cup {Main} /\ u # current
  BY <1>1, ThreadAssumption DEF BInv, TypeOK, Bindings, Threads
<1>4. stack[u] = << >>
  BY <1>3 DEF BInv, Bindings
<1>5. Binds[u] = << >>
  BY <1>3, <1>4, ViewNow, NoView
<1> QED BY <1>1, <1>2, <1>5 DEF Deep!Start

LEMMA NextDeep == BInv /\ BInv' /\ [Next]_vars => [Deep!Next]_(Deep!vars)
<1> SUFFICES ASSUME BInv, BInv', [Next]_vars PROVE [Deep!Next]_(Deep!vars)
  OBVIOUS
<1>1. CASE UNCHANGED vars
  <2>1. UNCHANGED <<Shared, Binds>>
    BY <1>1, ViewKept DEF vars
  <2> QED BY <1>1, <2>1 DEF vars, Deep!vars
<1>2. CASE Next
  <2> PICK t \in Threads :
         \/ \E v \in Values : \/ Specbind(t, v) \/ SetSymbol(t, v)
                              \/ SetSymbolDefault(t, v) \/ Defvar1(t, v)
         \/ Unbind(t) \/ Makunbound(t) \/ MakeLocalVariable(t) \/ KillLocalVariable(t)
         \/ MakeVariableBufferLocal(t)
         \/ \E b \in Buffers : SetBuffer(t, b) \/ KillBuffer(t, b)
         \/ \E u \in Workers : MakeThread(t, u)
         \/ Resume(t) \/ Suspend(t) \/ Finish(t)
    BY <1>2 DEF Next
  <2>1. CASE \E v \in Values : \/ Specbind(t, v) \/ SetSymbol(t, v)
                               \/ SetSymbolDefault(t, v) \/ Defvar1(t, v)
    <3>1. \E v \in Values : \/ Deep!Let(t, v) \/ Deep!Set(t, v)
                            \/ Deep!SetDefault(t, v) \/ Deep!Defvar(t, v)
      BY <2>1, SpecbindDeep, SetDeep, OtherAssignDeep, DefvarDeep
    <3> QED BY <3>1 DEF Deep!Next
  <2>2. CASE Unbind(t)
    BY <2>2, UnbindDeep DEF Deep!Next
  <2>3. CASE \/ Makunbound(t) \/ MakeLocalVariable(t) \/ KillLocalVariable(t)
             \/ MakeVariableBufferLocal(t)
    <3>1. \/ Deep!MakeUnbound(t) \/ Deep!MakeLocal(t) \/ Deep!KillLocal(t)
          \/ Deep!MakeAutomatic(t)
      BY <2>3, OtherAssignDeep
    <3> QED BY <3>1 DEF Deep!Next
  <2>4. CASE \E b \in Buffers : SetBuffer(t, b)
    <3>1. PICK b \in Buffers : SetBuffer(t, b)
      BY <2>4
    <3>2. UNCHANGED <<Shared, Binds>>
      BY <3>1, ViewKept DEF SetBuffer
    <3>3. Deep!SetBuffer(t, b)
      BY <3>1, <3>2 DEF SetBuffer, Deep!SetBuffer
    <3> QED BY <3>3 DEF Deep!Next
  <2>5. CASE \E b \in Buffers : KillBuffer(t, b)
    BY <2>5, KillBufferDeep DEF Deep!Next
  <2>6. CASE \E u \in Workers : MakeThread(t, u)
    <3>1. \E u \in Threads : Deep!Start(t, u)
      BY <2>6, MakeThreadDeep DEF Threads
    <3> QED BY <3>1 DEF Deep!Next
  <2>7. CASE Resume(t) \/ Suspend(t) \/ Finish(t)
    BY <2>7, SwitchDeep DEF Deep!Next
  <2> QED BY <2>1, <2>2, <2>3, <2>4, <2>5, <2>6, <2>7
<1> QED BY <1>1, <1>2

LEMMA InitDeep == Init => Deep!Init
<1> SUFFICES ASSUME Init PROVE Deep!Init
  OBVIOUS
<1>1. Main \in Threads /\ \A t \in Threads : stack[t] = << >> /\ DOMAIN stack[t] = {}
  BY DEF Init, Threads
<1>2. \A p : On(current, p) = {}
  BY <1>1 DEF On, Init
<1>3. Shared = [p \in Buffers \cup {Default} |-> IF p = Default THEN Void ELSE None]
  BY <1>2 DEF Shared, Init, Places
<1>4. Binds = [t \in Threads |-> << >>]
  <2>1. BInv
    BY InitBInv
  <2>2. InView(cell, << >>) = << >>
    BY DEF InView
  <2> QED BY <1>1, <2>1, <2>2, ViewNow, NoView
<1> QED BY <1>3, <1>4 DEF Init, Deep!Init

\* The cells, swapped in and out by exchange_bindings, give every thread its
\* own bindings: a let is seen by its thread alone and ends where it ends, for
\* any number of threads and buffers and any depth of nesting.
THEOREM ImplementsDeepBinding == Spec => DeepBindingSpec
<1>1. Spec => Deep!Init
  BY InitDeep DEF Spec
<1>2. Spec => [][Deep!Next]_(Deep!vars)
  BY BindingsInvariance, NextDeep, PTL DEF Spec
<1> QED BY <1>1, <1>2 DEF DeepBindingSpec, Deep!Spec
=============================================================================
