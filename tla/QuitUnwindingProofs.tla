------------------------ MODULE QuitUnwindingProofs ------------------------
(***************************************************************************)
(* Proofs about QuitUnwinding: the evaluator's stack and its handler       *)
(* lists, and where a C-g waits while exits unwind, for any depth of the   *)
(* stack and any number of C-g.                                            *)
(***************************************************************************)
EXTENDS QuitUnwinding, SequenceTheorems, FiniteSetTheorems, WellFoundedInduction, TLAPS

-----------------------------------------------------------------------------
(* Types.                                                                  *)

Registers == Cells \cup {"none"}
Kinds     == {"catch", "case", "bind", "protect", "inhibit", "handler", "cleanup",
              "observer"}
Bindings  == [conds : Clauses, depth : Nat, at : Nat]

ExitRecords == [type : Conditions \cup {"none", "throw"}, frame : Nat, target : Nat,
                since : Nat]
Exits       == {e \in ExitRecords : e.type = "none" <=> e = NoExit}

OfferRecords == [cond : Conditions \cup {"none"}, bind : Nat, case : Nat]
Offered      == {o \in OfferRecords : o.cond = "none" <=> o = NoOffer}

HiddenParts == [cases : Seq(Clauses), binds : Seq(Bindings), offer : Offered]
FrameSet    == [kind : Kinds, saved : Registers, what : SUBSET Conditions, mark : Nat,
                local : Registers, under : Exits, since : Nat, carried : BOOLEAN,
                hidden : HiddenParts]

Types ==
    /\ stack \in Seq(FrameSet) /\ cases \in Seq(Clauses) /\ binds \in Seq(Bindings)
    /\ exit \in Exits /\ offer \in Offered
    /\ exit = NoExit \/ offer = NoOffer
    /\ flag \in Cells /\ register \in Registers
    /\ inhibit \in BOOLEAN /\ pending \in BOOLEAN
    /\ presses \in 0..MaxPresses /\ heard \in Nat /\ quits \in Nat
    /\ heard + One(pending) <= presses
    /\ owed \in BOOLEAN /\ replaced \in BOOLEAN

LEMMA AppendFacts ==
    ASSUME NEW S, NEW s \in Seq(S), NEW e \in S
    PROVE  /\ Append(s, e) \in Seq(S) /\ Append(s, e) # <<>>
           /\ Len(s) \in Nat /\ DOMAIN s = 1 .. Len(s)
           /\ Len(Append(s, e)) = Len(s) + 1
           /\ DOMAIN Append(s, e) = 1 .. Len(s) + 1
           /\ \A i \in 1 .. Len(s) : Append(s, e)[i] = s[i]
           /\ Append(s, e)[Len(s) + 1] = e
<1>1. Len(s) \in Nat /\ DOMAIN s = 1 .. Len(s)
  BY LenProperties
<1>2. /\ Append(s, e) \in Seq(S) /\ Append(s, e) # <<>>
      /\ Len(Append(s, e)) = Len(s) + 1
      /\ \A i \in 1 .. Len(s) : Append(s, e)[i] = s[i]
      /\ Append(s, e)[Len(s) + 1] = e
  BY AppendProperties
<1>3. DOMAIN Append(s, e) = 1 .. Len(s) + 1
  BY <1>2, LenProperties
<1> QED BY <1>1, <1>2, <1>3

LEMMA FrontFacts ==
    ASSUME NEW S, NEW s \in Seq(S), s # <<>>
    PROVE  /\ Front(s) \in Seq(S)
           /\ Len(s) \in Nat \ {0} /\ DOMAIN s = 1 .. Len(s) /\ s[Len(s)] \in S
           /\ Len(Front(s)) = Len(s) - 1
           /\ DOMAIN Front(s) = 1 .. Len(s) - 1
           /\ \A i \in 1 .. Len(s) - 1 : Front(s)[i] = s[i]
<1>1. Len(s) \in Nat \ {0} /\ DOMAIN s = 1 .. Len(s) /\ s \in [1 .. Len(s) -> S]
  BY LenProperties, EmptySeq
<1>2. 1 \in Int /\ Len(s) - 1 \in Int /\ \A i \in 1 .. Len(s) - 1 : s[i] \in S
  BY <1>1
<1>3. /\ Front(s) \in Seq(S) /\ Len(Front(s)) = Len(s) - 1
      /\ \A i \in 1 .. Len(s) - 1 : Front(s)[i] = s[i]
  BY <1>1, <1>2, SubSeqProperties DEF Front
<1>4. DOMAIN Front(s) = 1 .. Len(s) - 1
  BY <1>3, LenProperties
<1> QED BY <1>1, <1>3, <1>4

\* A beginning of a sequence.
LEMMA PrefixFacts ==
    ASSUME NEW S, NEW s \in Seq(S), NEW n \in 0 .. Len(s)
    PROVE  /\ SubSeq(s, 1, n) \in Seq(S) /\ Len(SubSeq(s, 1, n)) = n
           /\ DOMAIN SubSeq(s, 1, n) = 1 .. n
           /\ \A i \in 1 .. n : SubSeq(s, 1, n)[i] = s[i]
<1>1. Len(s) \in Nat /\ s \in [1 .. Len(s) -> S]
  BY LenProperties
<1>2. 1 \in Int /\ n \in Int /\ \A i \in 1 .. n : s[i] \in S
  BY <1>1
<1>3. /\ SubSeq(s, 1, n) \in Seq(S) /\ Len(SubSeq(s, 1, n)) = n
      /\ \A i \in 1 .. n : SubSeq(s, 1, n)[i] = s[i]
  BY <1>1, <1>2, SubSeqProperties
<1>4. DOMAIN SubSeq(s, 1, n) = 1 .. n
  BY <1>3, LenProperties
<1> QED BY <1>3, <1>4

\* What an observer hides can be put back.
LEMMA PrefixAndRest ==
    ASSUME NEW S, NEW s \in Seq(S), NEW n \in 0 .. Len(s)
    PROVE  /\ SubSeq(s, n + 1, Len(s)) \in Seq(S)
           /\ SubSeq(s, 1, n) \o SubSeq(s, n + 1, Len(s)) = s
<1>1. Len(s) \in Nat /\ s \in [1 .. Len(s) -> S]
  BY LenProperties
<1>2. n + 1 \in Int /\ Len(s) \in Int /\ \A i \in n + 1 .. Len(s) : s[i] \in S
  BY <1>1
<1>3. SubSeq(s, n + 1, Len(s)) \in Seq(S)
  BY <1>2, SubSeqProperties
<1>4. SubSeq(s, 1, n) \o SubSeq(s, n + 1, Len(s)) = SubSeq(s, 1, Len(s))
  <2>1. 1 \in 1 .. Len(s) + 1 /\ n \in 1 - 1 .. Len(s) /\ Len(s) \in n .. Len(s)
    BY <1>1
  <2> QED BY <2>1, ConcatAdjacentSubSeq
<1> QED BY <1>3, <1>4, SubSeqFull

LEMMA NoneTypes ==
    /\ NoExit \in Exits /\ NoExit.type = "none" /\ NoExit.frame = 0 /\ NoExit.target = 0
    /\ NoExit.since = 0
    /\ NoOffer \in Offered /\ NoOffer.cond = "none" /\ NoOffer.bind = 0 /\ NoOffer.case = 0
BY DEF NoExit, NoOffer, Exits, ExitRecords, Offered, OfferRecords

LEMMA FormType ==
    ASSUME NEW kind \in Kinds, NEW saved \in Registers
    PROVE  /\ Form(kind, saved) \in FrameSet
           /\ Form(kind, saved).kind = kind /\ Form(kind, saved).saved = saved
           /\ Form(kind, saved).local = "none" /\ Form(kind, saved).under = NoExit
           /\ Form(kind, saved).since = 0
<1>1. [cases |-> <<>>, binds |-> <<>>, offer |-> NoOffer] \in HiddenParts
  <2>1. <<>> \in Seq(Clauses) /\ <<>> \in Seq(Bindings)
    BY EmptySeq
  <2> QED BY <2>1, NoneTypes DEF HiddenParts
<1> QED BY <1>1, NoneTypes DEF Form, FrameSet, Registers

\* The frames of condition-case and handler-bind.
NamingFrame(kind, saved, conds, m) ==
    [Form(kind, saved) EXCEPT !.what = conds, !.mark = m]

LEMMA NamingFrameType ==
    ASSUME NEW kind \in Kinds, NEW saved \in Registers, NEW conds \in Clauses, NEW m \in Nat
    PROVE  /\ NamingFrame(kind, saved, conds, m) \in FrameSet
           /\ NamingFrame(kind, saved, conds, m).kind = kind
           /\ NamingFrame(kind, saved, conds, m).saved = saved
           /\ NamingFrame(kind, saved, conds, m).local = "none"
           /\ NamingFrame(kind, saved, conds, m).under = NoExit
           /\ NamingFrame(kind, saved, conds, m).since = 0
           /\ NamingFrame(kind, saved, conds, m).what = conds
           /\ NamingFrame(kind, saved, conds, m).mark = m
<1>1. /\ Form(kind, saved) \in FrameSet /\ Form(kind, saved).kind = kind
      /\ Form(kind, saved).saved = saved /\ Form(kind, saved).local = "none"
      /\ Form(kind, saved).under = NoExit /\ Form(kind, saved).since = 0
  BY FormType
<1>2. conds \in SUBSET Conditions
  BY DEF Clauses, Conditions
<1> QED BY <1>1, <1>2 DEF FrameSet, NamingFrame

\* The two frames of a cleanup, of an exit that saved quit-flag and of any
\* other end of the body.
CleanupOfExit == [Top EXCEPT !.kind = "cleanup", !.under = exit, !.since = exit.since,
                             !.carried = (register = "t")]
CleanupWithFlag == [Top EXCEPT !.kind = "cleanup", !.under = exit, !.local = flag,
                               !.since = heard, !.carried = (flag = "t")]
CleanupFrame == IF register # "none" THEN CleanupOfExit ELSE CleanupWithFlag

LEMMA CleanupFrameType ==
    ASSUME Types, stack # <<>>
    PROVE  /\ Top \in FrameSet
           /\ CleanupFrame \in FrameSet
           /\ CleanupFrame.kind = "cleanup" /\ CleanupFrame.saved = Top.saved
           /\ CleanupFrame.under = exit /\ CleanupFrame.mark = Top.mark
           /\ register # "none" =>
                /\ CleanupFrame.local = Top.local /\ CleanupFrame.since = exit.since
                /\ CleanupFrame.carried = (register = "t")
           /\ register = "none" =>
                /\ CleanupFrame.local = flag /\ CleanupFrame.since = heard
                /\ CleanupFrame.carried = (flag = "t")
<1>1. Top \in FrameSet
  BY FrontFacts DEF Types, Top
<1>2. exit \in Exits /\ exit.since \in Nat /\ heard \in Nat /\ flag \in Registers
  BY DEF Types, Exits, ExitRecords, Registers
<1>3. /\ CleanupOfExit \in FrameSet
      /\ CleanupOfExit.kind = "cleanup" /\ CleanupOfExit.saved = Top.saved
      /\ CleanupOfExit.under = exit /\ CleanupOfExit.mark = Top.mark
      /\ CleanupOfExit.local = Top.local /\ CleanupOfExit.since = exit.since
      /\ CleanupOfExit.carried = (register = "t")
  BY <1>1, <1>2 DEF CleanupOfExit, FrameSet, Kinds
<1>4. /\ CleanupWithFlag \in FrameSet
      /\ CleanupWithFlag.kind = "cleanup" /\ CleanupWithFlag.saved = Top.saved
      /\ CleanupWithFlag.under = exit /\ CleanupWithFlag.mark = Top.mark
      /\ CleanupWithFlag.local = flag /\ CleanupWithFlag.since = heard
      /\ CleanupWithFlag.carried = (flag = "t")
  BY <1>1, <1>2 DEF CleanupWithFlag, FrameSet, Kinds
<1> QED BY <1>1, <1>3, <1>4 DEF CleanupFrame

\* The smaller of two numbers.
LEMMA MinOfTwo ==
    ASSUME NEW m \in Nat, NEW n \in Nat
    PROVE  Min({m, n}) = IF m <= n THEN m ELSE n
BY DEF Min

LEMMA ObserverType ==
    ASSUME Types, NEW j \in DOMAIN binds, binds[j].depth <= Len(cases), offer # NoOffer
    PROVE  /\ Observer(j) \in FrameSet
           /\ Observer(j).kind = "observer" /\ Observer(j).saved = register
           /\ Observer(j).local = "none" /\ Observer(j).under = NoExit
           /\ Observer(j).since = 0 /\ Observer(j).mark = binds[j].at
           /\ Observer(j).hidden.cases = SubSeq(cases, binds[j].depth + 1, Len(cases))
           /\ Observer(j).hidden.binds = SubSeq(binds, j, Len(binds))
           /\ Observer(j).hidden.offer.cond = offer.cond
           /\ Observer(j).hidden.offer.bind = j - 1
           /\ Observer(j).hidden.offer.case =
                IF offer.case <= binds[j].depth THEN offer.case ELSE binds[j].depth
<1>1. /\ Len(binds) \in Nat /\ j \in 1 .. Len(binds) /\ binds[j] \in Bindings
      /\ Len(cases) \in Nat
  BY LenProperties DEF Types
<1>2. binds[j].depth \in Nat /\ binds[j].at \in Nat /\ binds[j].depth \in 0 .. Len(cases)
  BY <1>1 DEF Bindings
<1>3. offer.cond \in Conditions /\ offer.case \in Nat /\ offer \in OfferRecords
  BY DEF Types, Offered, OfferRecords
<1> DEFINE least == IF offer.case <= binds[j].depth THEN offer.case ELSE binds[j].depth
           rest  == [offer EXCEPT !.bind = j - 1, !.case = Min({@, binds[j].depth})]
<1>4. /\ rest \in OfferRecords
      /\ rest.cond = offer.cond /\ rest.bind = j - 1 /\ rest.case = least
  <2>1. Min({offer.case, binds[j].depth}) = least
    BY <1>2, <1>3, MinOfTwo
  <2>2. rest = [offer EXCEPT !.bind = j - 1, !.case = least]
    BY <2>1
  <2>3. j - 1 \in Nat /\ least \in Nat
    BY <1>1, <1>2, <1>3
  <2> HIDE DEF least
  <2> QED BY <1>3, <2>2, <2>3 DEF OfferRecords
<1>5. rest \in Offered
  BY <1>3, <1>4, NoneTypes DEF Offered, Conditions
<1>6. SubSeq(cases, binds[j].depth + 1, Len(cases)) \in Seq(Clauses)
  BY <1>2, PrefixAndRest DEF Types
<1>7. SubSeq(binds, j, Len(binds)) \in Seq(Bindings)
  <2>1. j - 1 \in 0 .. Len(binds) /\ (j - 1) + 1 = j
    BY <1>1
  <2> QED BY <2>1, PrefixAndRest DEF Types
<1> DEFINE parts == [cases |-> SubSeq(cases, binds[j].depth + 1, Len(cases)),
                     binds |-> SubSeq(binds, j, Len(binds)), offer |-> rest]
<1>8. parts \in HiddenParts
  BY <1>5, <1>6, <1>7 DEF HiddenParts
<1>9. /\ Form("observer", register) \in FrameSet
      /\ Form("observer", register).kind = "observer"
      /\ Form("observer", register).saved = register
      /\ Form("observer", register).local = "none"
      /\ Form("observer", register).under = NoExit /\ Form("observer", register).since = 0
  BY FormType DEF Types, Kinds
<1> HIDE DEF rest, least
<1>10. Observer(j) = [Form("observer", register) EXCEPT !.mark = binds[j].at, !.hidden = parts]
  BY DEF Observer, rest
<1> HIDE DEF parts
<1>11. /\ Observer(j) \in FrameSet /\ Observer(j).mark = binds[j].at
       /\ Observer(j).hidden = parts
       /\ Observer(j).kind = "observer" /\ Observer(j).saved = register
       /\ Observer(j).local = "none" /\ Observer(j).under = NoExit /\ Observer(j).since = 0
  BY <1>2, <1>8, <1>9, <1>10 DEF FrameSet
<1>12. /\ parts.cases = SubSeq(cases, binds[j].depth + 1, Len(cases))
       /\ parts.binds = SubSeq(binds, j, Len(binds)) /\ parts.offer = rest
  BY DEF parts
<1> QED BY <1>4, <1>11, <1>12 DEF least

-----------------------------------------------------------------------------
(* The handler lists, level by level.  Nothing in the state says what the  *)
(* two lists were when a frame below the top of the stack was the top; but *)
(* the frames determine it, so the invariant says that there are lists C   *)
(* and B, and numbers O of observers, one for every height of the stack,   *)
(* which the frames turn into one another and which end in what the        *)
(* variables hold.                                                         *)

\* Frame p is not hidden by an observer up to n: InScope, at level n.
Visible(s, p, n) == \A o \in (p + 1) .. n : s[o].kind = "observer" => p < s[o].mark
SeenCase(s, p, n) == s[p].kind = "case" /\ Visible(s, p, n)

\* An exit and an offer at a level.  The target is the frame the index means.
ExitScoped(e, s, n) ==
    /\ e.type \notin Conditions => e.frame = 0
    /\ e.frame = 0 <=> e.target = 0
    /\ e.frame # 0 => /\ e.target \in 1 .. n /\ SeenCase(s, e.target, n)
                      /\ s[e.target].mark = e.frame

OfferScoped(o, cs, bs) ==
    /\ o.bind \in 0 .. Len(bs) /\ o.case \in 0 .. Len(cs)
    /\ \A k \in (o.case + 1) .. Len(cs) : o.cond \notin cs[k]

\* What frame n made of the lists below it, and will put back.
CaseStep(f, n, C, B, O) ==
    /\ f.mark = Len(C[n - 1]) + 1
    /\ C[n] = Append(C[n - 1], f.what) /\ B[n] = B[n - 1] /\ O[n] = O[n - 1]
BindStep(f, n, C, B, O) ==
    /\ f.mark = Len(B[n - 1])
    /\ B[n] = Append(B[n - 1], [conds |-> f.what, depth |-> Len(C[n - 1]), at |-> n])
    /\ C[n] = C[n - 1] /\ O[n] = O[n - 1]
ObserverStep(f, s, n, C, B, O) ==
    /\ Len(B[n]) < Len(B[n - 1]) /\ O[n] = O[n - 1] + 1
    /\ C[n - 1] = C[n] \o f.hidden.cases /\ B[n - 1] = B[n] \o f.hidden.binds
    /\ f.hidden.offer # NoOffer /\ OfferScoped(f.hidden.offer, C[n - 1], B[n - 1])
    /\ f.mark \in 1 .. n - 1
    /\ \A o \in 1 .. n - 1 : s[o].kind = "observer" => f.mark > o \/ f.mark < s[o].mark
PlainStep(f, s, n, C, B, O) ==
    /\ f.mark = 0 /\ C[n] = C[n - 1] /\ B[n] = B[n - 1] /\ O[n] = O[n - 1]
    /\ ExitScoped(f.under, s, n - 1)

LevelStep(s, n, C, B, O) ==
    /\ s[n].kind = "case" => CaseStep(s[n], n, C, B, O)
    /\ s[n].kind = "bind" => BindStep(s[n], n, C, B, O)
    /\ s[n].kind = "observer" => ObserverStep(s[n], s, n, C, B, O)
    /\ s[n].kind \notin {"case", "bind", "observer"} => PlainStep(s[n], s, n, C, B, O)

\* The cases are those in scope, in order; a binding comes after the cases up
\* to its depth and before the others.
CasesInScope(s, n, c) ==
    /\ \A k \in 1 .. Len(c) : \E p \in 1 .. n : SeenCase(s, p, n) /\ s[p].mark = k
    /\ \A p \in 1 .. n : SeenCase(s, p, n) => /\ s[p].mark \in 1 .. Len(c)
                                              /\ c[s[p].mark] = s[p].what
    /\ \A p, q \in 1 .. n : SeenCase(s, p, n) /\ SeenCase(s, q, n) /\ p < q
                            => s[p].mark < s[q].mark
BindsInScope(s, n, c, b) ==
    /\ \A j \in 1 .. Len(b) :
         /\ b[j].at \in 1 .. n /\ s[b[j].at].kind = "bind" /\ Visible(s, b[j].at, n)
         /\ b[j].depth \in 0 .. Len(c)
         /\ \A p \in 1 .. n : SeenCase(s, p, n) => (p < b[j].at <=> s[p].mark <= b[j].depth)
    /\ \A i, j \in 1 .. Len(b) : i < j => b[i].at < b[j].at /\ b[i].depth <= b[j].depth

\* There are at most Depth frames besides observers, and every observer hides
\* at least its own binding.
Counted(n, c, b, o) ==
    n <= Depth + o /\ Len(b) + 2 * o <= n /\ Len(c) <= n

LevelFacts(s, n, c, b, o) ==
    CasesInScope(s, n, c) /\ BindsInScope(s, n, c, b) /\ Counted(n, c, b, o)

CaseLists == [Nat -> Seq(Clauses)]
BindLists == [Nat -> Seq(Bindings)]
Counts    == [Nat -> Nat]

Levels(s, C, B, O) ==
    /\ C[0] = <<>> /\ B[0] = <<>> /\ O[0] = 0
    /\ \A n \in 1 .. Len(s) : LevelStep(s, n, C, B, O)
    /\ \A n \in 0 .. Len(s) : LevelFacts(s, n, C[n], B[n], O[n])

\* The lists that go with a stack; `room' is 1 when there is room
\* for one more frame.
Lists(s, cs, bs, room) ==
    \E C \in CaseLists, B \in BindLists, O \in Counts :
      /\ Levels(s, C, B, O)
      /\ C[Len(s)] = cs /\ B[Len(s)] = bs
      /\ room = 1 => Len(s) + 1 <= Depth + O[Len(s)]

Scopes == /\ Lists(stack, cases, binds, 0)
          /\ ExitScoped(exit, stack, Len(stack))
          /\ OfferScoped(offer, cases, binds)

\* Only the frames up to a level matter to it.
LEMMA SameVisible ==
    ASSUME NEW n \in Nat, NEW s, NEW t, \A p \in 1 .. n : t[p] = s[p]
    PROVE  \A p \in 1 .. n : /\ Visible(t, p, n) <=> Visible(s, p, n)
                             /\ SeenCase(t, p, n) <=> SeenCase(s, p, n)
<1> SUFFICES ASSUME NEW p \in 1 .. n PROVE Visible(t, p, n) <=> Visible(s, p, n)
  BY DEF SeenCase
<1>1. \A o \in (p + 1) .. n : o \in 1 .. n /\ t[o] = s[o]
  OBVIOUS
<1> QED BY <1>1 DEF Visible

LEMMA SameFacts ==
    ASSUME NEW n \in Nat, NEW s, NEW t, \A p \in 1 .. n : t[p] = s[p],
           NEW c, NEW b, NEW o, LevelFacts(s, n, c, b, o)
    PROVE  LevelFacts(t, n, c, b, o)
<1>1. \A p \in 1 .. n : /\ Visible(t, p, n) <=> Visible(s, p, n)
                        /\ SeenCase(t, p, n) <=> SeenCase(s, p, n)
  BY SameVisible
<1>2. CasesInScope(t, n, c)
  BY <1>1 DEF LevelFacts, CasesInScope
<1>3. BindsInScope(t, n, c, b)
  BY <1>1 DEF LevelFacts, BindsInScope
<1> QED BY <1>2, <1>3 DEF LevelFacts

LEMMA SameExit ==
    ASSUME NEW n \in Nat, NEW s, NEW t, \A p \in 1 .. n : t[p] = s[p],
           NEW e, ExitScoped(e, s, n)
    PROVE  ExitScoped(e, t, n)
BY SameVisible DEF ExitScoped

SameUpTo(n, s, t) == \A p \in 1 .. n : t[p] = s[p]
SameLists(n, C, B, O, C2, B2, O2) == C2[n] = C[n] /\ B2[n] = B[n] /\ O2[n] = O[n]

LEMMA SameStep ==
    ASSUME NEW n \in Nat \ {0}, NEW s, NEW t, NEW C, NEW B, NEW O, NEW C2, NEW B2, NEW O2,
           LevelStep(s, n, C, B, O), SameUpTo(n, s, t),
           SameLists(n, C, B, O, C2, B2, O2), SameLists(n - 1, C, B, O, C2, B2, O2)
    PROVE  LevelStep(t, n, C2, B2, O2)
<1> USE DEF SameLists
<1>1. t[n] = s[n] /\ n - 1 \in Nat /\ \A p \in 1 .. n - 1 : t[p] = s[p]
  BY DEF SameUpTo
<1>2. CaseStep(s[n], n, C, B, O) => CaseStep(t[n], n, C2, B2, O2)
  BY <1>1 DEF CaseStep
<1>3. BindStep(s[n], n, C, B, O) => BindStep(t[n], n, C2, B2, O2)
  BY <1>1 DEF BindStep
<1>4. ObserverStep(s[n], s, n, C, B, O) => ObserverStep(t[n], t, n, C2, B2, O2)
  BY <1>1 DEF ObserverStep
<1>5. PlainStep(s[n], s, n, C, B, O) => PlainStep(t[n], t, n, C2, B2, O2)
  <2>1. ExitScoped(s[n].under, s, n - 1) => ExitScoped(t[n].under, t, n - 1)
    BY <1>1, SameExit
  <2> QED BY <1>1, <2>1 DEF PlainStep
<1> QED BY <1>1, <1>2, <1>3, <1>4, <1>5 DEF LevelStep

\* A frame is popped: the lists below it are there.
LEMMA PopLevels ==
    ASSUME NEW s \in Seq(FrameSet), s # <<>>, NEW C, NEW B, NEW O, Levels(s, C, B, O)
    PROVE  Levels(Front(s), C, B, O)
<1>1. /\ Len(s) \in Nat \ {0} /\ Len(Front(s)) = Len(s) - 1
      /\ \A i \in 1 .. Len(s) - 1 : Front(s)[i] = s[i]
  BY FrontFacts
<1>2. ASSUME NEW n \in 1 .. Len(s) - 1 PROVE LevelStep(Front(s), n, C, B, O)
  <2>1. /\ LevelStep(s, n, C, B, O) /\ n \in Nat \ {0}
        /\ SameUpTo(n, s, Front(s))
        /\ SameLists(n, C, B, O, C, B, O) /\ SameLists(n - 1, C, B, O, C, B, O)
    BY <1>1 DEF Levels, SameUpTo, SameLists
  <2> QED BY <2>1, SameStep
<1>3. ASSUME NEW n \in 0 .. Len(s) - 1 PROVE LevelFacts(Front(s), n, C[n], B[n], O[n])
  <2>1. /\ LevelFacts(s, n, C[n], B[n], O[n]) /\ n \in Nat
        /\ \A p \in 1 .. n : Front(s)[p] = s[p]
    BY <1>1 DEF Levels
  <2> QED BY <2>1, SameFacts
<1> QED BY <1>1, <1>2, <1>3 DEF Levels

\* A frame is pushed, and the lists with it.  The frame has to fit whatever
\* lists go on from the ones before with c, b and o.
StepsTo(t, n, C, B, O, c, b, o) ==
    \A C2 \in CaseLists, B2 \in BindLists, O2 \in Counts :
      /\ SameLists(n - 1, C, B, O, C2, B2, O2)
      /\ C2[n] = c /\ B2[n] = b /\ O2[n] = o
      => LevelStep(t, n, C2, B2, O2)

LEMMA PushLists ==
    ASSUME NEW s \in Seq(FrameSet), NEW e \in FrameSet,
           NEW C \in CaseLists, NEW B \in BindLists, NEW O \in Counts, Levels(s, C, B, O),
           NEW c \in Seq(Clauses), NEW b \in Seq(Bindings), NEW o \in Nat,
           StepsTo(Append(s, e), Len(s) + 1, C, B, O, c, b, o),
           LevelFacts(Append(s, e), Len(s) + 1, c, b, o)
    PROVE  Lists(Append(s, e), c, b, 0)
<1> DEFINE t  == Append(s, e)
           m  == Len(s) + 1
           C2 == [C EXCEPT ![m] = c]
           B2 == [B EXCEPT ![m] = b]
           O2 == [O EXCEPT ![m] = o]
<1> HIDE DEF m
<1>1. /\ Len(s) \in Nat /\ m \in Nat /\ Len(t) = m /\ m - 1 = Len(s)
      /\ \A i \in 1 .. Len(s) : t[i] = s[i]
  BY AppendFacts DEF m
<1>2. C2 \in CaseLists /\ C2[m] = c /\ \A n \in 0 .. Len(s) : C2[n] = C[n]
  <2>1. C2 \in CaseLists /\ C2[m] = c
    BY <1>1 DEF CaseLists
  <2>2. \A n \in 0 .. Len(s) : n \in Nat /\ n # m
    BY <1>1
  <2> QED BY <2>1, <2>2 DEF CaseLists
<1>3. B2 \in BindLists /\ B2[m] = b /\ \A n \in 0 .. Len(s) : B2[n] = B[n]
  <2>1. B2 \in BindLists /\ B2[m] = b
    BY <1>1 DEF BindLists
  <2>2. \A n \in 0 .. Len(s) : n \in Nat /\ n # m
    BY <1>1
  <2> QED BY <2>1, <2>2 DEF BindLists
<1>4. O2 \in Counts /\ O2[m] = o /\ \A n \in 0 .. Len(s) : O2[n] = O[n]
  <2>1. O2 \in Counts /\ O2[m] = o
    BY <1>1 DEF Counts
  <2>2. \A n \in 0 .. Len(s) : n \in Nat /\ n # m
    BY <1>1
  <2> QED BY <2>1, <2>2 DEF Counts
<1>5. StepsTo(t, m, C, B, O, c, b, o) /\ LevelFacts(t, m, c, b, o)
  BY DEF m
<1> HIDE DEF t, C2, B2, O2
<1>6. \A n \in 0 .. Len(s) : SameLists(n, C, B, O, C2, B2, O2)
  BY <1>2, <1>3, <1>4 DEF SameLists
<1>7. ASSUME NEW n \in 1 .. m PROVE LevelStep(t, n, C2, B2, O2)
  <2>1. CASE n = m
    <3>1. SameLists(m - 1, C, B, O, C2, B2, O2)
      BY <1>1, <1>6
    <3> QED BY <1>2, <1>3, <1>4, <1>5, <2>1, <3>1 DEF StepsTo
  <2>2. CASE n # m
    <3>1. /\ n \in 1 .. Len(s) /\ n \in Nat \ {0}
          /\ n \in 0 .. Len(s) /\ n - 1 \in 0 .. Len(s)
          /\ LevelStep(s, n, C, B, O) /\ SameUpTo(n, s, t)
      BY <1>1, <2>2 DEF Levels, SameUpTo
    <3> QED BY <1>6, <3>1, SameStep
  <2> QED BY <2>1, <2>2
<1>8. ASSUME NEW n \in 0 .. m PROVE LevelFacts(t, n, C2[n], B2[n], O2[n])
  <2>1. CASE n = m
    BY <1>2, <1>3, <1>4, <1>5, <2>1
  <2>2. CASE n # m
    <3>1. /\ n \in 0 .. Len(s) /\ n \in Nat
          /\ LevelFacts(s, n, C[n], B[n], O[n]) /\ \A p \in 1 .. n : t[p] = s[p]
      BY <1>1, <2>2 DEF Levels
    <3> QED BY <1>2, <1>3, <1>4, <3>1, SameFacts
  <2> QED BY <2>1, <2>2
<1>9. C2[0] = <<>> /\ B2[0] = <<>> /\ O2[0] = 0
  BY <1>1, <1>2, <1>3, <1>4 DEF Levels
<1>10. Levels(t, C2, B2, O2)
  BY <1>1, <1>7, <1>8, <1>9 DEF Levels
<1>11. Lists(t, c, b, 0)
  BY <1>1, <1>2, <1>3, <1>4, <1>10 DEF Lists
<1> QED BY <1>11 DEF t

\* What a new frame leaves visible: everything, or, an observer, what is below
\* the binding it was called for.
LEMMA VisibleAfterPush ==
    ASSUME NEW s \in Seq(FrameSet), NEW e \in FrameSet
    PROVE  LET t == Append(s, e)
               n == Len(s) + 1
           IN  /\ \A p \in 1 .. Len(s) :
                    /\ t[p] = s[p]
                    /\ Visible(t, p, n) <=> /\ Visible(s, p, Len(s))
                                            /\ e.kind = "observer" => p < e.mark
                    /\ SeenCase(t, p, n) <=> /\ SeenCase(s, p, Len(s))
                                             /\ e.kind = "observer" => p < e.mark
               /\ t[n] = e /\ Visible(t, n, n) /\ (SeenCase(t, n, n) <=> e.kind = "case")
<1> DEFINE t == Append(s, e)
           n == Len(s) + 1
<1>1. Len(s) \in Nat /\ (\A i \in 1 .. Len(s) : t[i] = s[i]) /\ t[n] = e
  BY AppendFacts
<1> HIDE DEF t
<1>2. ASSUME NEW p \in 1 .. Len(s)
      PROVE  Visible(t, p, n) <=> Visible(s, p, Len(s)) /\ (e.kind = "observer" => p < e.mark)
  <2>1. ASSUME Visible(t, p, n)
        PROVE  Visible(s, p, Len(s)) /\ (e.kind = "observer" => p < e.mark)
    <3>1. n \in (p + 1) .. n /\ \A o \in (p + 1) .. Len(s) : o \in (p + 1) .. n /\ t[o] = s[o]
      BY <1>1
    <3> QED BY <1>1, <2>1, <3>1 DEF Visible
  <2>2. ASSUME Visible(s, p, Len(s)), e.kind = "observer" => p < e.mark
        PROVE  Visible(t, p, n)
    <3>1. ASSUME NEW o \in (p + 1) .. n, t[o].kind = "observer" PROVE p < t[o].mark
      <4>1. CASE o = n
        BY <1>1, <2>2, <3>1, <4>1
      <4>2. CASE o # n
        <5>1. o \in (p + 1) .. Len(s) /\ t[o] = s[o]
          BY <1>1, <4>2
        <5> QED BY <2>2, <3>1, <5>1 DEF Visible
      <4> QED BY <4>1, <4>2
    <3> QED BY <3>1 DEF Visible
  <2> QED BY <2>1, <2>2
<1>3. Visible(t, n, n)
  BY <1>1 DEF Visible
<1> QED BY <1>1, <1>2, <1>3 DEF SeenCase, t

LEMMA PlainFacts ==
    ASSUME NEW s \in Seq(FrameSet), NEW e \in FrameSet,
           e.kind \notin {"case", "bind", "observer"},
           NEW c \in Seq(Clauses), NEW b \in Seq(Bindings), NEW o \in Nat,
           LevelFacts(s, Len(s), c, b, o), Len(s) + 1 <= Depth + o
    PROVE  LevelFacts(Append(s, e), Len(s) + 1, c, b, o)
<1> DEFINE t == Append(s, e)
           n == Len(s) + 1
<1>1. /\ \A p \in 1 .. Len(s) : /\ t[p] = s[p]
                                /\ Visible(t, p, n) <=> Visible(s, p, Len(s))
                                /\ SeenCase(t, p, n) <=> SeenCase(s, p, Len(s))
      /\ t[n] = e /\ ~SeenCase(t, n, n)
  BY VisibleAfterPush
<1>2. Len(s) \in Nat /\ Len(b) \in Nat /\ Len(c) \in Nat
  BY LenProperties
<1>3. \A p \in 1 .. n : SeenCase(t, p, n) => p \in 1 .. Len(s)
  BY <1>1, <1>2
<1>4. \A p \in 1 .. Len(s) : p \in 1 .. n
  BY <1>2
<1> HIDE DEF t, n
<1>5. CasesInScope(t, n, c)
  BY <1>1, <1>3, <1>4 DEF LevelFacts, CasesInScope
<1>6. BindsInScope(t, n, c, b)
  BY <1>1, <1>3, <1>4 DEF LevelFacts, BindsInScope
<1>7. Counted(n, c, b, o)
  BY <1>2, BoundAssumption DEF LevelFacts, Counted, n
<1> QED BY <1>5, <1>6, <1>7 DEF LevelFacts, t, n

LEMMA CaseFacts ==
    ASSUME NEW s \in Seq(FrameSet), NEW e \in FrameSet, e.kind = "case",
           NEW c \in Seq(Clauses), NEW b \in Seq(Bindings), NEW o \in Nat,
           e.mark = Len(c) + 1, e.what \in Clauses,
           LevelFacts(s, Len(s), c, b, o), Len(s) + 1 <= Depth + o
    PROVE  LevelFacts(Append(s, e), Len(s) + 1, Append(c, e.what), b, o)
<1> DEFINE t == Append(s, e)
           n == Len(s) + 1
           d == Append(c, e.what)
<1>1. /\ \A p \in 1 .. Len(s) : /\ t[p] = s[p]
                                /\ Visible(t, p, n) <=> Visible(s, p, Len(s))
                                /\ SeenCase(t, p, n) <=> SeenCase(s, p, Len(s))
      /\ t[n] = e /\ SeenCase(t, n, n)
  BY VisibleAfterPush
<1>2. Len(s) \in Nat /\ Len(b) \in Nat /\ Len(c) \in Nat /\ Depth \in Nat
  BY LenProperties, BoundAssumption
<1>3. /\ Len(d) = Len(c) + 1 /\ d[Len(c) + 1] = e.what
      /\ \A k \in 1 .. Len(c) : d[k] = c[k]
  BY AppendFacts
<1>4. \A p \in 1 .. n : p \in 1 .. Len(s) \/ p = n
  BY <1>2
<1>5. n \in 1 .. n /\ \A p \in 1 .. Len(s) : p \in 1 .. n /\ p < n
  BY <1>2
<1> HIDE DEF t, d, n
<1>6. CasesInScope(t, n, d)
  <2>1. ASSUME NEW k \in 1 .. Len(d)
        PROVE  \E p \in 1 .. n : SeenCase(t, p, n) /\ t[p].mark = k
    <3>1. CASE k = Len(c) + 1
      BY <1>1, <1>5, <3>1
    <3>2. CASE k # Len(c) + 1
      <4>1. k \in 1 .. Len(c)
        BY <1>2, <1>3, <3>2
      <4>2. PICK p \in 1 .. Len(s) : SeenCase(s, p, Len(s)) /\ s[p].mark = k
        BY <4>1 DEF LevelFacts, CasesInScope
      <4> QED BY <1>1, <1>5, <4>2
    <3> QED BY <3>1, <3>2
  <2>2. ASSUME NEW p \in 1 .. n, SeenCase(t, p, n)
        PROVE  t[p].mark \in 1 .. Len(d) /\ d[t[p].mark] = t[p].what
    <3>1. CASE p = n
      BY <1>1, <1>2, <1>3, <3>1
    <3>2. CASE p \in 1 .. Len(s)
      <4>1. s[p].mark \in 1 .. Len(c) /\ c[s[p].mark] = s[p].what /\ t[p] = s[p]
        BY <1>1, <2>2, <3>2 DEF LevelFacts, CasesInScope
      <4> QED BY <1>2, <1>3, <4>1
    <3> QED BY <1>4, <3>1, <3>2
  <2>3. ASSUME NEW p \in 1 .. n, NEW q \in 1 .. n,
               SeenCase(t, p, n), SeenCase(t, q, n), p < q
        PROVE  t[p].mark < t[q].mark
    <3>1. p \in 1 .. Len(s) /\ SeenCase(s, p, Len(s)) /\ t[p] = s[p]
      BY <1>1, <1>2, <2>3 DEF n
    <3>2. s[p].mark \in 1 .. Len(c)
      BY <3>1 DEF LevelFacts, CasesInScope
    <3>3. CASE q = n
      BY <1>1, <1>2, <3>1, <3>2, <3>3
    <3>4. CASE q \in 1 .. Len(s)
      BY <1>1, <2>3, <3>1, <3>4 DEF LevelFacts, CasesInScope
    <3> QED BY <1>4, <3>3, <3>4
  <2> QED BY <2>1, <2>2, <2>3 DEF CasesInScope
<1>7. BindsInScope(t, n, d, b)
  <2>1. ASSUME NEW j \in 1 .. Len(b)
        PROVE  /\ b[j].at \in 1 .. n /\ t[b[j].at].kind = "bind" /\ Visible(t, b[j].at, n)
               /\ b[j].depth \in 0 .. Len(d)
               /\ \A p \in 1 .. n : SeenCase(t, p, n)
                                    => (p < b[j].at <=> t[p].mark <= b[j].depth)
    <3>1. /\ b[j].at \in 1 .. Len(s) /\ s[b[j].at].kind = "bind" /\ Visible(s, b[j].at, Len(s))
          /\ b[j].depth \in 0 .. Len(c)
          /\ \A p \in 1 .. Len(s) : SeenCase(s, p, Len(s))
                                    => (p < b[j].at <=> s[p].mark <= b[j].depth)
      BY DEF LevelFacts, BindsInScope
    <3>2. ASSUME NEW p \in 1 .. n, SeenCase(t, p, n)
          PROVE  p < b[j].at <=> t[p].mark <= b[j].depth
      <4>1. CASE p = n
        <5>1. ~(p < b[j].at)
          BY <1>2, <3>1, <4>1 DEF n
        <5>2. ~(t[p].mark <= b[j].depth)
          BY <1>1, <1>2, <3>1, <4>1
        <5> QED BY <5>1, <5>2
      <4>2. CASE p \in 1 .. Len(s)
        BY <1>1, <3>1, <3>2, <4>2
      <4> QED BY <1>4, <4>1, <4>2
    <3>3. b[j].depth \in 0 .. Len(d)
      BY <1>2, <1>3, <3>1
    <3> QED BY <1>1, <1>5, <3>1, <3>2, <3>3
  <2> QED BY <2>1 DEF LevelFacts, BindsInScope
<1>8. Counted(n, d, b, o)
  BY <1>2, <1>3 DEF LevelFacts, Counted, n
<1> QED BY <1>6, <1>7, <1>8 DEF LevelFacts, t, n, d

LEMMA BindFacts ==
    ASSUME NEW s \in Seq(FrameSet), NEW e \in FrameSet, e.kind = "bind",
           NEW c \in Seq(Clauses), NEW b \in Seq(Bindings), NEW o \in Nat,
           NEW new \in Bindings, new.depth = Len(c), new.at = Len(s) + 1,
           LevelFacts(s, Len(s), c, b, o), Len(s) + 1 <= Depth + o
    PROVE  LevelFacts(Append(s, e), Len(s) + 1, c, Append(b, new), o)
<1> DEFINE t == Append(s, e)
           n == Len(s) + 1
           d == Append(b, new)
<1>1. /\ \A p \in 1 .. Len(s) : /\ t[p] = s[p]
                                /\ Visible(t, p, n) <=> Visible(s, p, Len(s))
                                /\ SeenCase(t, p, n) <=> SeenCase(s, p, Len(s))
      /\ t[n] = e /\ Visible(t, n, n) /\ ~SeenCase(t, n, n)
  BY VisibleAfterPush
<1>2. Len(s) \in Nat /\ Len(b) \in Nat /\ Len(c) \in Nat /\ Depth \in Nat
  BY LenProperties, BoundAssumption
<1>3. /\ Len(d) = Len(b) + 1 /\ d[Len(b) + 1] = new
      /\ \A k \in 1 .. Len(b) : d[k] = b[k]
  BY AppendFacts
<1>4. \A p \in 1 .. n : SeenCase(t, p, n) => p \in 1 .. Len(s)
  BY <1>1, <1>2
<1>5. n \in 1 .. n /\ \A p \in 1 .. Len(s) : p \in 1 .. n /\ p < n
  BY <1>2
<1>6. new.at = n
  OBVIOUS
<1> HIDE DEF t, d, n
<1>7. CasesInScope(t, n, c)
  BY <1>1, <1>4, <1>5 DEF LevelFacts, CasesInScope
<1>8. \A j \in 1 .. Len(d) : j \in 1 .. Len(b) \/ j = Len(b) + 1
  BY <1>2, <1>3
<1>9. BindsInScope(t, n, c, d)
  <2>1. ASSUME NEW j \in 1 .. Len(d)
        PROVE  /\ d[j].at \in 1 .. n /\ t[d[j].at].kind = "bind" /\ Visible(t, d[j].at, n)
               /\ d[j].depth \in 0 .. Len(c)
               /\ \A p \in 1 .. n : SeenCase(t, p, n)
                                    => (p < d[j].at <=> t[p].mark <= d[j].depth)
    <3>1. CASE j = Len(b) + 1
      <4>1. d[j] = new
        BY <1>3, <3>1
      <4>2. ASSUME NEW p \in 1 .. n, SeenCase(t, p, n)
            PROVE  p < new.at /\ t[p].mark <= new.depth
        <5>1. p \in 1 .. Len(s) /\ SeenCase(s, p, Len(s)) /\ t[p] = s[p]
          BY <1>1, <1>4, <4>2
        <5>2. s[p].mark \in 1 .. Len(c)
          BY <5>1 DEF LevelFacts, CasesInScope
        <5> QED BY <1>2, <1>5, <1>6, <5>1, <5>2
      <4> QED BY <1>1, <1>2, <1>5, <1>6, <4>1, <4>2
    <3>2. CASE j \in 1 .. Len(b)
      <4>1. /\ b[j].at \in 1 .. Len(s) /\ s[b[j].at].kind = "bind"
            /\ Visible(s, b[j].at, Len(s)) /\ b[j].depth \in 0 .. Len(c)
            /\ \A p \in 1 .. Len(s) : SeenCase(s, p, Len(s))
                                      => (p < b[j].at <=> s[p].mark <= b[j].depth)
        BY <3>2 DEF LevelFacts, BindsInScope
      <4> QED BY <1>1, <1>3, <1>4, <1>5, <3>2, <4>1
    <3> QED BY <1>8, <3>1, <3>2
  <2>2. ASSUME NEW i \in 1 .. Len(d), NEW j \in 1 .. Len(d), i < j
        PROVE  d[i].at < d[j].at /\ d[i].depth <= d[j].depth
    <3>1. i \in 1 .. Len(b) /\ d[i] = b[i]
      BY <1>2, <1>3, <2>2
    <3>2. b[i].at \in 1 .. Len(s) /\ b[i].depth \in 0 .. Len(c)
      BY <3>1 DEF LevelFacts, BindsInScope
    <3>3. CASE j = Len(b) + 1
      BY <1>2, <1>3, <1>5, <1>6, <3>1, <3>2, <3>3
    <3>4. CASE j \in 1 .. Len(b)
      BY <1>3, <2>2, <3>1, <3>4 DEF LevelFacts, BindsInScope
    <3> QED BY <1>8, <3>3, <3>4
  <2> QED BY <2>1, <2>2 DEF BindsInScope
<1>10. Counted(n, c, d, o)
  BY <1>2, <1>3 DEF LevelFacts, Counted, n
<1> QED BY <1>7, <1>9, <1>10 DEF LevelFacts, t, n, d

\* An observer sees the cases up to the depth of its binding, which are those
\* below the binding, and the bindings before its own.
LEMMA ObserverFacts ==
    ASSUME NEW s \in Seq(FrameSet), NEW e \in FrameSet, e.kind = "observer",
           NEW c \in Seq(Clauses), NEW b \in Seq(Bindings), NEW o \in Nat,
           NEW j \in 1 .. Len(b), e.mark = b[j].at,
           LevelFacts(s, Len(s), c, b, o)
    PROVE  LevelFacts(Append(s, e), Len(s) + 1, SubSeq(c, 1, b[j].depth),
                      SubSeq(b, 1, j - 1), o + 1)
<1> DEFINE t == Append(s, e)
           n == Len(s) + 1
           c2 == SubSeq(c, 1, b[j].depth)
           b2 == SubSeq(b, 1, j - 1)
<1>1. /\ \A p \in 1 .. Len(s) : /\ t[p] = s[p]
                                /\ Visible(t, p, n) <=>
                                     Visible(s, p, Len(s)) /\ p < b[j].at
                                /\ SeenCase(t, p, n) <=>
                                     SeenCase(s, p, Len(s)) /\ p < b[j].at
      /\ ~SeenCase(t, n, n)
  BY VisibleAfterPush
<1>2. Len(s) \in Nat /\ Len(b) \in Nat /\ Len(c) \in Nat /\ Depth \in Nat
  BY LenProperties, BoundAssumption
<1>3. /\ b[j].at \in 1 .. Len(s) /\ b[j].depth \in 0 .. Len(c)
      /\ \A p \in 1 .. Len(s) : SeenCase(s, p, Len(s))
                                => (p < b[j].at <=> s[p].mark <= b[j].depth)
  BY DEF LevelFacts, BindsInScope
<1>4. Len(c2) = b[j].depth /\ \A k \in 1 .. b[j].depth : c2[k] = c[k]
  BY <1>3, PrefixFacts
<1>5. Len(b2) = j - 1 /\ \A k \in 1 .. j - 1 : b2[k] = b[k]
  <2>1. j - 1 \in 0 .. Len(b)
    BY <1>2
  <2> QED BY <2>1, PrefixFacts
<1>6. \A p \in 1 .. n : SeenCase(t, p, n) => p \in 1 .. Len(s)
  BY <1>1, <1>2
<1>7. \A p \in 1 .. Len(s) : p \in 1 .. n
  BY <1>2
<1>8. \A k \in 1 .. b[j].depth : k \in 1 .. Len(c)
  BY <1>2, <1>3
<1> HIDE DEF t, n, c2, b2
<1>9. CasesInScope(t, n, c2)
  <2>1. ASSUME NEW k \in 1 .. Len(c2)
        PROVE  \E p \in 1 .. n : SeenCase(t, p, n) /\ t[p].mark = k
    <3>1. k \in 1 .. b[j].depth
      BY <1>4
    <3>2. PICK p \in 1 .. Len(s) : SeenCase(s, p, Len(s)) /\ s[p].mark = k
      BY <1>8, <3>1 DEF LevelFacts, CasesInScope
    <3>3. p < b[j].at
      BY <1>3, <3>1, <3>2
    <3> QED BY <1>1, <1>7, <3>2, <3>3
  <2>2. ASSUME NEW p \in 1 .. n, SeenCase(t, p, n)
        PROVE  t[p].mark \in 1 .. Len(c2) /\ c2[t[p].mark] = t[p].what
    <3>1. /\ p \in 1 .. Len(s) /\ SeenCase(s, p, Len(s)) /\ p < b[j].at /\ t[p] = s[p]
      BY <1>1, <1>6, <2>2
    <3>2. /\ s[p].mark <= b[j].depth
          /\ s[p].mark \in 1 .. Len(c) /\ c[s[p].mark] = s[p].what
      BY <1>3, <3>1 DEF LevelFacts, CasesInScope
    <3>3. s[p].mark \in 1 .. b[j].depth
      BY <1>3, <3>2
    <3> QED BY <1>4, <3>1, <3>2, <3>3
  <2>3. ASSUME NEW p \in 1 .. n, NEW q \in 1 .. n,
               SeenCase(t, p, n), SeenCase(t, q, n), p < q
        PROVE  t[p].mark < t[q].mark
    BY <1>1, <1>6, <2>3 DEF LevelFacts, CasesInScope
  <2> QED BY <2>1, <2>2, <2>3 DEF CasesInScope
<1>10. BindsInScope(t, n, c2, b2)
  <2>1. \A i \in 1 .. Len(b2) : i \in 1 .. Len(b) /\ i < j /\ b2[i] = b[i]
    BY <1>2, <1>5
  <2>2. ASSUME NEW i \in 1 .. Len(b2)
        PROVE  /\ b[i].at \in 1 .. n /\ t[b[i].at].kind = "bind" /\ Visible(t, b[i].at, n)
               /\ b[i].depth \in 0 .. Len(c2)
               /\ \A p \in 1 .. n : SeenCase(t, p, n)
                                    => (p < b[i].at <=> t[p].mark <= b[i].depth)
    <3>1. b[i].at < b[j].at /\ b[i].depth <= b[j].depth
      BY <2>1 DEF LevelFacts, BindsInScope
    <3>2. /\ b[i].at \in 1 .. Len(s) /\ s[b[i].at].kind = "bind" /\ Visible(s, b[i].at, Len(s))
          /\ b[i].depth \in 0 .. Len(c)
          /\ \A p \in 1 .. Len(s) : SeenCase(s, p, Len(s))
                                    => (p < b[i].at <=> s[p].mark <= b[i].depth)
      BY <2>1 DEF LevelFacts, BindsInScope
    <3>3. b[i].depth \in 0 .. Len(c2)
      BY <1>3, <1>4, <3>1, <3>2
    <3> QED BY <1>1, <1>6, <1>7, <3>1, <3>2, <3>3
  <2>3. ASSUME NEW i \in 1 .. Len(b2), NEW k \in 1 .. Len(b2), i < k
        PROVE  b[i].at < b[k].at /\ b[i].depth <= b[k].depth
    BY <2>1, <2>3 DEF LevelFacts, BindsInScope
  <2> QED BY <2>1, <2>2, <2>3 DEF BindsInScope
<1>11. Counted(n, c2, b2, o + 1)
  BY <1>2, <1>3, <1>4, <1>5 DEF LevelFacts, Counted, n
<1> QED BY <1>9, <1>10, <1>11 DEF LevelFacts, t, n, c2, b2

LEMMA FrontOfAppend ==
    ASSUME NEW S, NEW s \in Seq(S), NEW e \in S
    PROVE  /\ Front(Append(s, e)) = s /\ SubSeq(Append(s, e), 1, Len(s)) = s
           /\ Append(s, e)[Len(Append(s, e))] = e
<1>1. /\ Append(s, e) \in Seq(S) /\ Append(s, e) # <<>> /\ Len(s) \in Nat
      /\ Len(Append(s, e)) = Len(s) + 1 /\ Append(s, e)[Len(s) + 1] = e
      /\ \A i \in 1 .. Len(s) : Append(s, e)[i] = s[i]
  BY AppendFacts
<1>2. /\ Front(Append(s, e)) \in Seq(S) /\ Len(Front(Append(s, e))) = Len(s)
      /\ \A i \in 1 .. Len(s) : Front(Append(s, e))[i] = s[i]
  <2> DEFINE t == Append(s, e)
  <2> HIDE DEF t
  <2>1. /\ Front(t) \in Seq(S) /\ Len(Front(t)) = Len(t) - 1
        /\ \A i \in 1 .. Len(t) - 1 : Front(t)[i] = t[i]
    BY <1>1, FrontFacts DEF t
  <2>2. Len(t) - 1 = Len(s) /\ \A i \in 1 .. Len(s) : t[i] = s[i]
    BY <1>1 DEF t
  <2> QED BY <2>1, <2>2 DEF t
<1>3. Front(Append(s, e)) = s
  BY <1>2, SeqEqual
<1>4. Front(Append(s, e)) = SubSeq(Append(s, e), 1, Len(s))
  BY <1>1 DEF Front
<1> QED BY <1>1, <1>3, <1>4

\* The lists of the stack without its top frame are what the code computes.
LEMMA PopLists ==
    ASSUME NEW s \in Seq(FrameSet), s # <<>>, NEW cs, NEW bs, Lists(s, cs, bs, 0),
           NEW f, f = s[Len(s)]
    PROVE  /\ f.kind = "case" => Lists(Front(s), Front(cs), bs, 1)
           /\ f.kind = "bind" => Lists(Front(s), cs, SubSeq(bs, 1, f.mark), 1)
           /\ f.kind = "observer" =>
                /\ Lists(Front(s), cs \o f.hidden.cases, bs \o f.hidden.binds, 0)
                /\ f.hidden.offer # NoOffer
                /\ OfferScoped(f.hidden.offer, cs \o f.hidden.cases, bs \o f.hidden.binds)
           /\ f.kind \notin {"case", "bind", "observer"} =>
                /\ f.mark = 0 /\ Lists(Front(s), cs, bs, 1)
                /\ ExitScoped(f.under, Front(s), Len(Front(s)))
<1>1. PICK C \in CaseLists, B \in BindLists, O \in Counts :
         Levels(s, C, B, O) /\ C[Len(s)] = cs /\ B[Len(s)] = bs
  BY DEF Lists
<1> DEFINE n == Len(s)
           m == Len(s) - 1
<1>2. /\ n \in Nat \ {0} /\ m \in Nat /\ Len(Front(s)) = m /\ n \in 1 .. n /\ n \in 0 .. n
      /\ m \in 0 .. n /\ n = m + 1
      /\ \A i \in 1 .. m : Front(s)[i] = s[i]
  BY FrontFacts
<1>3. Levels(Front(s), C, B, O)
  BY <1>1, PopLevels
<1>4. LevelStep(s, n, C, B, O) /\ Counted(n, C[n], B[n], O[n])
  BY <1>1, <1>2 DEF Levels, LevelFacts
<1>5. /\ C[m] \in Seq(Clauses) /\ B[m] \in Seq(Bindings)
      /\ O[m] \in Nat /\ O[n] \in Nat /\ Depth \in Nat
      /\ C[n] = cs /\ B[n] = bs
  BY <1>1, <1>2, BoundAssumption DEF CaseLists, BindLists, Counts
<1> HIDE DEF n, m
<1>6. ASSUME O[m] = O[n] PROVE Len(Front(s)) + 1 <= Depth + O[Len(Front(s))]
  BY <1>2, <1>4, <1>6 DEF Counted
<1>7. ASSUME f.kind = "case" PROVE Lists(Front(s), Front(cs), bs, 1)
  <2>1. CaseStep(f, n, C, B, O)
    BY <1>4, <1>7 DEF LevelStep, n
  <2>2. /\ cs = Append(C[m], f.what) /\ B[m] = bs /\ O[m] = O[n]
    BY <2>1, <1>2, <1>5 DEF CaseStep, m, n
  <2>3. f.what \in Clauses
    <3>1. cs \in Seq(Clauses) /\ cs[Len(C[m]) + 1] = f.what /\ Len(C[m]) + 1 \in 1 .. Len(cs)
      <4>1. C[n] \in Seq(Clauses)
        BY <1>1, <1>2 DEF CaseLists
      <4>2. /\ Len(C[m]) \in Nat /\ Len(cs) = Len(C[m]) + 1 /\ cs[Len(C[m]) + 1] = f.what
        BY <2>2, <1>5
      <4> QED BY <4>1, <4>2, <1>5
    <3> QED BY <3>1, ElementOfSeq
  <2>4. Front(cs) = C[m]
    BY <2>2, <2>3, <1>5, FrontOfAppend
  <2> QED BY <1>2, <1>3, <1>6, <2>2, <2>4 DEF Lists
<1>8. ASSUME f.kind = "bind" PROVE Lists(Front(s), cs, SubSeq(bs, 1, f.mark), 1)
  <2>1. BindStep(f, n, C, B, O)
    BY <1>4, <1>8 DEF LevelStep, n
  <2> DEFINE new == [conds |-> f.what, depth |-> Len(C[m]), at |-> n]
  <2>2. /\ bs = Append(B[m], new) /\ f.mark = Len(B[m])
        /\ C[m] = cs /\ O[m] = O[n]
    BY <2>1, <1>2, <1>5 DEF BindStep, m, n
  <2>3. new \in Bindings
    <3>1. B[n] \in Seq(Bindings)
      BY <1>1, <1>2 DEF BindLists
    <3>2. /\ Len(B[m]) \in Nat /\ Len(bs) = Len(B[m]) + 1 /\ bs[Len(B[m]) + 1] = new
      BY <2>2, <1>5
    <3>3. Len(B[m]) + 1 \in 1 .. Len(bs)
      BY <3>2
    <3> QED BY <3>1, <3>2, <3>3, <1>5, ElementOfSeq
  <2>4. SubSeq(bs, 1, f.mark) = B[m]
    BY <2>2, <2>3, <1>5, FrontOfAppend
  <2> QED BY <1>2, <1>3, <1>6, <2>2, <2>4 DEF Lists
<1>9. ASSUME f.kind = "observer"
      PROVE  /\ Lists(Front(s), cs \o f.hidden.cases, bs \o f.hidden.binds, 0)
             /\ f.hidden.offer # NoOffer
             /\ OfferScoped(f.hidden.offer, cs \o f.hidden.cases, bs \o f.hidden.binds)
  <2>1. ObserverStep(f, s, n, C, B, O)
    BY <1>4, <1>9 DEF LevelStep, n
  <2>2. /\ C[m] = cs \o f.hidden.cases /\ B[m] = bs \o f.hidden.binds
        /\ f.hidden.offer # NoOffer /\ OfferScoped(f.hidden.offer, C[m], B[m])
    BY <2>1, <1>2, <1>5 DEF ObserverStep, m, n
  <2> QED BY <1>2, <1>3, <2>2 DEF Lists
<1>10. ASSUME f.kind \notin {"case", "bind", "observer"}
       PROVE  /\ f.mark = 0 /\ Lists(Front(s), cs, bs, 1)
              /\ ExitScoped(f.under, Front(s), Len(Front(s)))
  <2>1. PlainStep(f, s, n, C, B, O)
    BY <1>4, <1>10 DEF LevelStep, n
  <2>2. /\ f.mark = 0 /\ C[m] = cs /\ B[m] = bs /\ O[m] = O[n] /\ ExitScoped(f.under, s, m)
    BY <2>1, <1>2, <1>5 DEF PlainStep, m, n
  <2>3. ExitScoped(f.under, Front(s), m)
    BY <1>2, <2>2, SameExit
  <2> QED BY <1>2, <1>3, <1>6, <2>2, <2>3 DEF Lists
<1> QED BY <1>7, <1>8, <1>9, <1>10

\* What a stack to push on offers.
LEMMA BeforePush ==
    ASSUME NEW s \in Seq(FrameSet), NEW cs, NEW bs, NEW room, Lists(s, cs, bs, room)
    PROVE  /\ cs \in Seq(Clauses) /\ bs \in Seq(Bindings)
           /\ \E C \in CaseLists, B \in BindLists, O \in Counts :
                /\ Levels(s, C, B, O) /\ C[Len(s)] = cs /\ B[Len(s)] = bs
                /\ O[Len(s)] \in Nat /\ LevelFacts(s, Len(s), cs, bs, O[Len(s)])
                /\ room = 1 => Len(s) + 1 <= Depth + O[Len(s)]
<1>1. PICK C \in CaseLists, B \in BindLists, O \in Counts :
         /\ Levels(s, C, B, O) /\ C[Len(s)] = cs /\ B[Len(s)] = bs
         /\ room = 1 => Len(s) + 1 <= Depth + O[Len(s)]
  BY DEF Lists
<1>2. Len(s) \in Nat /\ Len(s) \in 0 .. Len(s)
  BY LenProperties
<1>3. cs \in Seq(Clauses)
  BY <1>1, <1>2 DEF CaseLists
<1>4. bs \in Seq(Bindings)
  BY <1>1, <1>2 DEF BindLists
<1>5. O[Len(s)] \in Nat
  BY <1>2 DEF Counts
<1>6. LevelFacts(s, Len(s), cs, bs, O[Len(s)])
  BY <1>1, <1>2 DEF Levels
<1>7. \E C2 \in CaseLists, B2 \in BindLists, O2 \in Counts :
         /\ Levels(s, C2, B2, O2) /\ C2[Len(s)] = cs /\ B2[Len(s)] = bs
         /\ O2[Len(s)] \in Nat /\ LevelFacts(s, Len(s), cs, bs, O2[Len(s)])
         /\ room = 1 => Len(s) + 1 <= Depth + O2[Len(s)]
  <2> WITNESS C \in CaseLists, B \in BindLists, O \in Counts
  <2> QED BY <1>1, <1>5, <1>6
<1> QED BY <1>3, <1>4, <1>7, Zenon

LEMMA PushPlain ==
    ASSUME NEW s \in Seq(FrameSet), NEW e \in FrameSet, NEW cs, NEW bs,
           Lists(s, cs, bs, 1), e.kind \notin {"case", "bind", "observer"}, e.mark = 0,
           ExitScoped(e.under, s, Len(s))
    PROVE  Lists(Append(s, e), cs, bs, 0)
<1>1. PICK C \in CaseLists, B \in BindLists, O \in Counts :
         /\ Levels(s, C, B, O) /\ C[Len(s)] = cs /\ B[Len(s)] = bs
         /\ O[Len(s)] \in Nat /\ LevelFacts(s, Len(s), cs, bs, O[Len(s)])
         /\ Len(s) + 1 <= Depth + O[Len(s)]
  BY BeforePush
<1> DEFINE n == Len(s) + 1
           t == Append(s, e)
<1>2. /\ Len(s) \in Nat /\ t[n] = e /\ n - 1 = Len(s)
      /\ \A i \in 1 .. Len(s) : t[i] = s[i]
  BY AppendFacts
<1>3. cs \in Seq(Clauses) /\ bs \in Seq(Bindings)
  BY BeforePush
<1>4. LevelFacts(t, n, cs, bs, O[Len(s)])
  BY <1>1, <1>3, PlainFacts
<1> HIDE DEF n, t
<1>5. ExitScoped(e.under, t, Len(s))
  BY <1>2, SameExit
<1>6. StepsTo(t, n, C, B, O, cs, bs, O[Len(s)])
  BY <1>1, <1>2, <1>5 DEF StepsTo, SameLists, LevelStep, PlainStep
<1> QED BY <1>1, <1>3, <1>4, <1>6, PushLists DEF t, n

LEMMA PushCase ==
    ASSUME NEW s \in Seq(FrameSet), NEW e \in FrameSet, NEW cs, NEW bs,
           Lists(s, cs, bs, 1), e.kind = "case", e.mark = Len(cs) + 1, e.what \in Clauses
    PROVE  Lists(Append(s, e), Append(cs, e.what), bs, 0)
<1>1. PICK C \in CaseLists, B \in BindLists, O \in Counts :
         /\ Levels(s, C, B, O) /\ C[Len(s)] = cs /\ B[Len(s)] = bs
         /\ O[Len(s)] \in Nat /\ LevelFacts(s, Len(s), cs, bs, O[Len(s)])
         /\ Len(s) + 1 <= Depth + O[Len(s)]
  BY BeforePush
<1> DEFINE n == Len(s) + 1
           t == Append(s, e)
           c == Append(cs, e.what)
<1>2. /\ Len(s) \in Nat /\ t[n] = e /\ n - 1 = Len(s)
      /\ \A i \in 1 .. Len(s) : t[i] = s[i]
  BY AppendFacts
<1>3. cs \in Seq(Clauses) /\ bs \in Seq(Bindings) /\ c \in Seq(Clauses)
  BY BeforePush
<1>4. LevelFacts(t, n, c, bs, O[Len(s)])
  BY <1>1, <1>3, CaseFacts
<1> HIDE DEF n, t
<1>5. StepsTo(t, n, C, B, O, c, bs, O[Len(s)])
  BY <1>1, <1>2 DEF StepsTo, SameLists, LevelStep, CaseStep
<1> HIDE DEF c
<1>6. Lists(t, c, bs, 0)
  BY <1>1, <1>3, <1>4, <1>5, PushLists DEF t, n
<1> QED BY <1>6 DEF t, c

LEMMA PushBind ==
    ASSUME NEW s \in Seq(FrameSet), NEW e \in FrameSet, NEW cs, NEW bs,
           Lists(s, cs, bs, 1), e.kind = "bind", e.mark = Len(bs), e.what \in Clauses
    PROVE  Lists(Append(s, e), cs,
                 Append(bs, [conds |-> e.what, depth |-> Len(cs), at |-> Len(s) + 1]), 0)
<1>1. PICK C \in CaseLists, B \in BindLists, O \in Counts :
         /\ Levels(s, C, B, O) /\ C[Len(s)] = cs /\ B[Len(s)] = bs
         /\ O[Len(s)] \in Nat /\ LevelFacts(s, Len(s), cs, bs, O[Len(s)])
         /\ Len(s) + 1 <= Depth + O[Len(s)]
  BY BeforePush
<1> DEFINE n   == Len(s) + 1
           t   == Append(s, e)
           new == [conds |-> e.what, depth |-> Len(cs), at |-> n]
           b   == Append(bs, new)
<1>2. /\ Len(s) \in Nat /\ t[n] = e /\ n - 1 = Len(s)
      /\ \A i \in 1 .. Len(s) : t[i] = s[i]
  BY AppendFacts
<1>3. cs \in Seq(Clauses) /\ bs \in Seq(Bindings) /\ Len(cs) \in Nat
  BY BeforePush, LenProperties
<1>4. new \in Bindings /\ new.depth = Len(cs) /\ new.at = n
  BY <1>2, <1>3 DEF Bindings
<1> HIDE DEF new
<1>5. b \in Seq(Bindings)
  BY <1>3, <1>4
<1>6. LevelFacts(t, n, cs, b, O[Len(s)])
  BY <1>1, <1>3, <1>4, BindFacts
<1> HIDE DEF n, t
<1>7. StepsTo(t, n, C, B, O, cs, b, O[Len(s)])
  BY <1>1, <1>2 DEF StepsTo, SameLists, LevelStep, BindStep, new
<1> HIDE DEF b
<1>8. Lists(t, cs, b, 0)
  BY <1>1, <1>3, <1>5, <1>6, <1>7, PushLists DEF t, n
<1> QED BY <1>8 DEF t, b, new, n

\* The observer of binding j: its frame has what the lists lose, and no
\* observer that runs already stands between it and its binding.
LEMMA PushObserver ==
    ASSUME NEW s \in Seq(FrameSet), NEW e \in FrameSet, NEW cs, NEW bs,
           Lists(s, cs, bs, 0), NEW j \in 1 .. Len(bs), e.kind = "observer",
           e.mark = bs[j].at,
           e.hidden.cases = SubSeq(cs, bs[j].depth + 1, Len(cs)),
           e.hidden.binds = SubSeq(bs, j, Len(bs)),
           e.hidden.offer # NoOffer, OfferScoped(e.hidden.offer, cs, bs)
    PROVE  Lists(Append(s, e), SubSeq(cs, 1, bs[j].depth), SubSeq(bs, 1, j - 1), 0)
<1>1. PICK C \in CaseLists, B \in BindLists, O \in Counts :
         /\ Levels(s, C, B, O) /\ C[Len(s)] = cs /\ B[Len(s)] = bs
         /\ O[Len(s)] \in Nat /\ LevelFacts(s, Len(s), cs, bs, O[Len(s)])
  BY BeforePush
<1> DEFINE n == Len(s) + 1
           t == Append(s, e)
           c == SubSeq(cs, 1, bs[j].depth)
           b == SubSeq(bs, 1, j - 1)
<1>2. /\ Len(s) \in Nat /\ t[n] = e /\ n - 1 = Len(s)
      /\ \A i \in 1 .. Len(s) : t[i] = s[i]
  BY AppendFacts
<1>3. /\ cs \in Seq(Clauses) /\ bs \in Seq(Bindings) /\ Len(bs) \in Nat
      /\ Len(cs) \in Nat /\ j - 1 \in 0 .. Len(bs) /\ (j - 1) + 1 = j
  BY BeforePush, LenProperties
<1>4. /\ bs[j].depth \in 0 .. Len(cs) /\ bs[j].at \in 1 .. Len(s)
      /\ s[bs[j].at].kind = "bind" /\ Visible(s, bs[j].at, Len(s))
  BY <1>1 DEF LevelFacts, BindsInScope
<1>5. c \in Seq(Clauses) /\ c \o e.hidden.cases = cs
  BY <1>3, <1>4, PrefixFacts, PrefixAndRest
<1>6. b \in Seq(Bindings) /\ b \o e.hidden.binds = bs /\ Len(b) < Len(bs)
  <2>1. b \in Seq(Bindings) /\ Len(b) = j - 1
    BY <1>3, PrefixFacts
  <2>2. b \o SubSeq(bs, (j - 1) + 1, Len(bs)) = bs
    BY <1>3, PrefixAndRest
  <2> HIDE DEF b
  <2>3. b \o SubSeq(bs, j, Len(bs)) = bs
    BY <1>3, <2>2
  <2>4. Len(b) < Len(bs)
    BY <1>3, <2>1
  <2> QED BY <2>1, <2>3, <2>4
<1>7. LevelFacts(t, n, c, b, O[Len(s)] + 1)
  BY <1>1, <1>3, ObserverFacts
<1>8. ASSUME NEW o \in 1 .. Len(s), s[o].kind = "observer"
      PROVE  e.mark > o \/ e.mark < s[o].mark
  <2>1. e.mark # o /\ e.mark \in 1 .. Len(s)
    BY <1>4, <1>8
  <2>2. CASE e.mark < o
    <3>1. o \in (e.mark + 1) .. Len(s)
      BY <2>1, <2>2, <1>2
    <3> QED BY <1>4, <1>8, <3>1 DEF Visible
  <2> QED BY <2>1, <2>2
<1> HIDE DEF n, t, c, b
<1>9. StepsTo(t, n, C, B, O, c, b, O[Len(s)] + 1)
  <2> SUFFICES ASSUME NEW C2 \in CaseLists, NEW B2 \in BindLists, NEW O2 \in Counts,
                      SameLists(n - 1, C, B, O, C2, B2, O2),
                      C2[n] = c, B2[n] = b, O2[n] = O[Len(s)] + 1
               PROVE  LevelStep(t, n, C2, B2, O2)
    BY DEF StepsTo
  <2>1. C2[n - 1] = cs /\ B2[n - 1] = bs /\ O2[n - 1] = O[Len(s)]
    BY <1>1, <1>2 DEF SameLists
  <2>2. \A o \in 1 .. n - 1 : t[o].kind = "observer" => e.mark > o \/ e.mark < t[o].mark
    BY <1>2, <1>8
  <2>3. ObserverStep(e, t, n, C2, B2, O2)
    BY <1>2, <1>4, <1>5, <1>6, <2>1, <2>2 DEF ObserverStep
  <2> QED BY <1>2, <2>3 DEF LevelStep
<1>10. Lists(t, c, b, 0)
  BY <1>1, <1>3, <1>5, <1>6, <1>7, <1>9, PushLists DEF t, n
<1> QED BY <1>10 DEF t, c, b

\* What the lists say of the state.
LEMMA ListFacts ==
    ASSUME NEW s \in Seq(FrameSet), NEW cs, NEW bs, NEW room, Lists(s, cs, bs, room)
    PROVE  /\ CasesInScope(s, Len(s), cs) /\ BindsInScope(s, Len(s), cs, bs)
           /\ Len(s) <= 2 * Depth /\ Len(cs) <= Len(s) /\ Len(bs) <= Len(s)
<1>1. PICK C \in CaseLists, B \in BindLists, O \in Counts :
         /\ Levels(s, C, B, O) /\ C[Len(s)] = cs /\ B[Len(s)] = bs
         /\ O[Len(s)] \in Nat /\ LevelFacts(s, Len(s), cs, bs, O[Len(s)])
  BY BeforePush
<1>2. Len(s) \in Nat /\ Len(cs) \in Nat /\ Len(bs) \in Nat /\ Depth \in Nat
  BY BeforePush, LenProperties, BoundAssumption
<1> QED BY <1>1, <1>2 DEF LevelFacts, Counted

\* Observers nest, and no mark exceeds the stack.
LEMMA StackFacts ==
    ASSUME NEW s \in Seq(FrameSet), NEW cs, NEW bs, NEW room, Lists(s, cs, bs, room)
    PROVE  /\ \A o, q \in 1 .. Len(s) :
                s[o].kind = "observer" /\ s[q].kind = "observer" /\ o < q
                => s[q].mark > o \/ s[q].mark < s[o].mark
           /\ \A p \in 1 .. Len(s) : s[p].mark \in 0 .. 2 * Depth
<1>1. PICK C \in CaseLists, B \in BindLists, O \in Counts :
         Levels(s, C, B, O) /\ C[Len(s)] = cs /\ B[Len(s)] = bs
  BY BeforePush
<1>2. Len(s) \in Nat /\ Depth \in Nat /\ Len(s) <= 2 * Depth
  BY ListFacts, LenProperties, BoundAssumption
<1>3. ASSUME NEW q \in 1 .. Len(s) PROVE LevelStep(s, q, C, B, O)
  BY <1>1 DEF Levels
<1>4. ASSUME NEW o \in 1 .. Len(s), NEW q \in 1 .. Len(s),
             s[o].kind = "observer", s[q].kind = "observer", o < q
      PROVE  s[q].mark > o \/ s[q].mark < s[o].mark
  <2>1. ObserverStep(s[q], s, q, C, B, O)
    BY <1>3, <1>4 DEF LevelStep
  <2>2. o \in 1 .. q - 1
    BY <1>2, <1>4
  <2> QED BY <1>4, <2>1, <2>2 DEF ObserverStep
<1>5. ASSUME NEW p \in 1 .. Len(s) PROVE s[p].mark \in 0 .. 2 * Depth
  <2>1. /\ p - 1 \in 0 .. Len(s) /\ p - 1 \in Nat /\ p \in Nat /\ p <= 2 * Depth
    BY <1>2
  <2>2. /\ C[p - 1] \in Seq(Clauses) /\ B[p - 1] \in Seq(Bindings) /\ O[p - 1] \in Nat
    BY <2>1 DEF CaseLists, BindLists, Counts
  <2>3. Len(C[p - 1]) \in 0 .. p - 1 /\ Len(B[p - 1]) \in 0 .. p - 1
    <3>1. Counted(p - 1, C[p - 1], B[p - 1], O[p - 1])
      BY <1>1, <2>1 DEF Levels, LevelFacts
    <3>2. Len(C[p - 1]) \in Nat /\ Len(B[p - 1]) \in Nat
      BY <2>2, LenProperties
    <3> QED BY <2>1, <2>2, <3>1, <3>2 DEF Counted
  <2>4. CASE s[p].kind = "case"
    <3>1. s[p].mark = Len(C[p - 1]) + 1
      BY <1>3, <2>4 DEF LevelStep, CaseStep
    <3> QED BY <1>2, <2>1, <2>3, <3>1
  <2>5. CASE s[p].kind = "bind"
    <3>1. s[p].mark = Len(B[p - 1])
      BY <1>3, <2>5 DEF LevelStep, BindStep
    <3> QED BY <1>2, <2>1, <2>3, <3>1
  <2>6. CASE s[p].kind = "observer"
    <3>1. s[p].mark \in 1 .. p - 1
      BY <1>3, <2>6 DEF LevelStep, ObserverStep
    <3> QED BY <1>2, <2>1, <3>1
  <2>7. CASE s[p].kind \notin {"case", "bind", "observer"}
    BY <1>2, <1>3, <2>7 DEF LevelStep, PlainStep
  <2> QED BY <2>4, <2>5, <2>6, <2>7
<1> QED BY <1>4, <1>5

-----------------------------------------------------------------------------
(* The search of offer_signal.                                             *)

LEMMA LeastNatural ==
    ASSUME NEW T \in SUBSET Nat, T # {}
    PROVE  \E x \in T : \A y \in T : x <= y
<1> DEFINE R == {ss \in Nat \X Nat : ss[1] < ss[2]}
<1>1. IsWellFoundedOn(R, Nat)
  BY NatLessThanWellFounded DEF OpToRel
<1>2. PICK x \in T : \A y \in T : ~(<<y, x>> \in R)
  BY <1>1, WFMin
<1>3. ASSUME NEW y \in T, y < x PROVE FALSE
  <2>1. <<y, x>> \in Nat \X Nat
    OBVIOUS
  <2>2. <<y, x>>[1] < <<y, x>>[2]
    BY <1>3
  <2> QED BY <1>2, <2>1, <2>2
<1> QED BY <1>3

\* Innermost(S) is the largest member of S, or zero.
LEMMA InnermostFacts ==
    ASSUME NEW n \in Nat, NEW S \in SUBSET (1 .. n)
    PROVE  /\ Innermost(S) \in S \cup {0}
           /\ \A x \in S : x <= Innermost(S)
<1> DEFINE T == S \cup {0}
           U == {m \in Nat : \A x \in T : x <= m}
<1>1. U # {} /\ U \in SUBSET Nat
  <2>1. n \in U
    OBVIOUS
  <2> QED BY <2>1
<1>2. PICK m \in U : \A y \in U : m <= y
  BY <1>1, LeastNatural
<1>3. m \in T
  <2> SUFFICES ASSUME m \notin T PROVE FALSE
    OBVIOUS
  <2>1. m # 0 /\ m \in Nat
    OBVIOUS
  <2>2. \A x \in T : x \in Nat /\ x <= m /\ x # m
    OBVIOUS
  <2>3. m - 1 \in Nat /\ \A x \in T : x <= m - 1
    BY <2>1, <2>2
  <2>4. m - 1 \in U
    BY <2>3
  <2> QED BY <1>2, <2>1, <2>4
<1>4. \E x \in T : \A y \in T : x >= y
  BY <1>3
<1>5. Max(T) \in T /\ \A y \in T : Max(T) >= y
  BY <1>4 DEF Max
<1>6. Innermost(S) = Max(T)
  BY DEF Innermost
<1> QED BY <1>5, <1>6

\* The condition-case the index stands for is the innermost one in scope that
\* names the condition.
LEMMA SelectedIsTarget ==
    ASSUME Types, Scopes, offer # NoOffer, MatchingCase # 0
    PROVE  LET p == Innermost(Handlers(offer.cond)) IN
           /\ p \in 1 .. Len(stack) /\ SeenCase(stack, p, Len(stack))
           /\ stack[p].mark = MatchingCase
<1> DEFINE n == Len(stack)
           k == MatchingCase
           K == {i \in 1 .. offer.case : offer.cond \in cases[i]}
           H == Handlers(offer.cond)
<1>1. /\ n \in Nat /\ DOMAIN stack = 1 .. n /\ Len(cases) \in Nat
      /\ offer.case \in 0 .. Len(cases) /\ CasesInScope(stack, n, cases)
      /\ \A i \in (offer.case + 1) .. Len(cases) : offer.cond \notin cases[i]
  BY LenProperties, ListFacts DEF Types, Scopes, OfferScoped
<1>2. k \in K /\ \A i \in K : i <= k
  <2>1. K \in SUBSET (1 .. offer.case) /\ offer.case \in Nat
    BY <1>1
  <2> QED BY <2>1, InnermostFacts DEF MatchingCase
<1>3. \A p \in 1 .. n : Visible(stack, p, n) <=> InScope(p)
  BY <1>1 DEF Visible, InScope
<1>4. H = {p \in 1 .. n : SeenCase(stack, p, n) /\ offer.cond \in stack[p].what}
  BY <1>1, <1>3 DEF Handlers, SeenCase
<1> HIDE DEF n, k, K, H
<1>5. PICK q \in 1 .. n : SeenCase(stack, q, n) /\ stack[q].mark = k
  <2>1. k \in 1 .. Len(cases)
    BY <1>1, <1>2 DEF K
  <2> QED BY <1>1, <2>1 DEF CasesInScope
<1>6. q \in H
  BY <1>1, <1>2, <1>4, <1>5 DEF CasesInScope, K
<1>7. Innermost(H) \in H /\ q <= Innermost(H)
  <2>1. H \in SUBSET (1 .. n)
    BY <1>4
  <2>2. Innermost(H) \in H \cup {0} /\ \A x \in H : x <= Innermost(H)
    BY <1>1, <2>1, InnermostFacts
  <2> QED BY <1>5, <1>6, <2>2
<1>8. stack[Innermost(H)].mark <= k
  <2>1. PICK p \in 1 .. n : /\ p = Innermost(H) /\ SeenCase(stack, p, n)
                            /\ offer.cond \in stack[p].what
    BY <1>4, <1>7
  <2>2. stack[p].mark \in 1 .. Len(cases) /\ cases[stack[p].mark] = stack[p].what
    BY <1>1, <2>1 DEF CasesInScope
  <2>3. stack[p].mark \in K
    BY <1>1, <2>1, <2>2 DEF K
  <2> QED BY <1>2, <2>1, <2>3
<1>9. Innermost(H) = q
  <2>1. SeenCase(stack, Innermost(H), n) /\ Innermost(H) \in 1 .. n
    BY <1>4, <1>7
  <2>2. stack[Innermost(H)].mark \in Nat /\ stack[q].mark \in Nat
    BY <1>1, <1>5, <2>1 DEF CasesInScope
  <2>3. ASSUME q < Innermost(H) PROVE FALSE
    <3>1. stack[q].mark < stack[Innermost(H)].mark
      BY <1>1, <1>5, <2>1, <2>3 DEF CasesInScope
    <3> QED BY <1>5, <1>8, <2>2, <3>1
  <2> QED BY <1>5, <1>7, <2>1, <2>3
<1> QED BY <1>5, <1>9 DEF n, k, H

-----------------------------------------------------------------------------
(* The steps keep the types and the scopes.                                *)

SmallTypes ==
    /\ flag \in Cells /\ register \in Registers
    /\ inhibit \in BOOLEAN /\ pending \in BOOLEAN
    /\ presses \in 0..MaxPresses /\ heard \in Nat /\ quits \in Nat
    /\ heard + One(pending) <= presses
    /\ owed \in BOOLEAN /\ replaced \in BOOLEAN

StackTypes ==
    /\ stack \in Seq(FrameSet) /\ cases \in Seq(Clauses) /\ binds \in Seq(Bindings)
    /\ exit \in Exits /\ offer \in Offered
    /\ exit = NoExit \/ offer = NoOffer

LEMMA TypesParts == Types <=> StackTypes /\ SmallTypes
BY DEF Types, StackTypes, SmallTypes

LEMMA CellFacts ==
    ASSUME Types
    PROVE  /\ Synchronized \in Cells
           /\ \A saved \in Registers, current \in Cells : Restored(saved, current) \in Cells
           /\ stack # <<>> => Top \in FrameSet /\ Top.saved \in Registers
                              /\ Top.local \in Registers
<1>1. Synchronized \in Cells
  BY DEF Types, Synchronized, Cells
<1>2. \A saved \in Registers, current \in Cells : Restored(saved, current) \in Cells
  BY DEF Restored, Registers, Cells
<1>3. ASSUME stack # <<>> PROVE Top \in FrameSet
  BY <1>3, FrontFacts DEF Types, Top
<1> QED BY <1>1, <1>2, <1>3 DEF FrameSet

\* maybe_quit hears a C-g once.
LEMMA TakeTypes ==
    ASSUME Types, Take, presses' = presses
    PROVE  /\ pending' \in BOOLEAN /\ heard' \in Nat /\ heard' + One(pending') <= presses'
           /\ presses' \in 0 .. MaxPresses /\ heard <= heard'
<1>1. /\ heard \in Nat /\ pending \in BOOLEAN /\ heard + One(pending) <= presses
      /\ presses \in 0 .. MaxPresses /\ MaxPresses \in Nat
  BY BoundAssumption DEF Types
<1>2. pending' = FALSE /\ heard' = heard + One(pending)
  BY DEF Take, One
<1>3. One(FALSE) = 0 /\ One(pending) \in Nat
  BY <1>1 DEF One
<1>4. PICK h \in Nat : heard' = h /\ heard <= h /\ h <= presses
  <2>1. heard + One(pending) \in Nat /\ heard <= heard + One(pending)
    BY <1>1, <1>3
  <2> QED BY <1>1, <1>2, <2>1
<1>5. heard' + One(pending') <= presses
  <2>1. One(pending') = 0
    BY <1>2, <1>3
  <2> QED BY <1>1, <1>4, <2>1
<1> QED BY <1>1, <1>2, <1>4, <1>5

\* quits counts upwards, from 0, one at a time.
LEMMA EvalTypes ==
    ASSUME Types, Leaf \/ QuitSignal \/ SignalError \/ Throw \/ Enters
    PROVE  SmallTypes'
<1>1. Take /\ presses' = presses
  BY DEF Leaf, QuitSignal, SignalError, Throw, Enters, EnterCatch, EnterUnwindProtect,
         EnterConditionCase, EnterHandlerBind, EnterInhibit, Enter, NoQuit
<1>2. flag' \in {"nil", Synchronized} /\ register' \in {"none", "nil", register, Synchronized}
  BY DEF Leaf, QuitSignal, SignalError, Throw, Enters, EnterCatch, EnterUnwindProtect,
         EnterConditionCase, EnterHandlerBind, EnterInhibit, Enter, BeginQuitUnwind
<1>3. flag' \in Cells /\ register' \in Registers
  BY <1>2, CellFacts DEF Types, Cells, Registers
<1>4. quits' \in {quits, quits + 1}
  BY DEF Leaf, QuitSignal, SignalError, Throw, Enters, EnterCatch, EnterUnwindProtect,
         EnterConditionCase, EnterHandlerBind, EnterInhibit, Enter
<1>5. quits' \in Nat
  BY <1>4 DEF Types
<1>6. owed' \in BOOLEAN
  BY DEF Leaf, QuitSignal, SignalError, Throw, Enters, EnterCatch, EnterUnwindProtect,
         EnterConditionCase, EnterHandlerBind, EnterInhibit, Enter, NoQuit
<1>7. replaced' \in BOOLEAN
  BY DEF Types, Leaf, QuitSignal, SignalError, Throw, Enters, EnterCatch, EnterUnwindProtect,
         EnterConditionCase, EnterHandlerBind, EnterInhibit, Enter
<1>8. inhibit' \in BOOLEAN
  BY DEF Types, Leaf, QuitSignal, SignalError, Throw, Enters, EnterCatch, EnterUnwindProtect,
         EnterConditionCase, EnterHandlerBind, EnterInhibit
<1> QED BY <1>1, <1>3, <1>5, <1>6, <1>7, <1>8, TakeTypes DEF SmallTypes

LEMMA ExitTypes ==
    ASSUME Types, Offers \/ StartCleanup \/ Unwind \/ Return \/ Press
    PROVE  SmallTypes'
<1>1. CASE Press
  <2>1. heard' + One(pending') <= presses' /\ presses' \in 0 .. MaxPresses
    BY <1>1, BoundAssumption DEF Press, Types, history, One
  <2>2. pending' \in BOOLEAN
    BY <1>1 DEF Press
  <2> QED BY <1>1, <2>1, <2>2 DEF Press, Types, SmallTypes, history
<1>2. CASE Offers \/ StartCleanup \/ Unwind \/ Return
  <2>1. /\ UNCHANGED <<pending, presses, heard, quits>>
        /\ owed' \in {owed, FALSE}
    BY <1>2 DEF Offers, SelectCase, Unhandled, Observe, StartCleanup, Unwind, FormUnwinds,
         BodyUnwinds, Caught, Handled, CleanupUnwinds, ObserverUnwinds, CommandError, Return,
         FormReturns, CleanupReturns, ObserverReturns, Untouched, history
  <2>2. replaced' \in BOOLEAN
    BY <1>2 DEF Types, Offers, SelectCase, Unhandled, Observe, StartCleanup, Unwind, FormUnwinds,
         BodyUnwinds, Caught, Handled, CleanupUnwinds, ObserverUnwinds, CommandError, Return,
         FormReturns, CleanupReturns, ObserverReturns, Untouched, history
  <2>3. inhibit' \in BOOLEAN
    BY <1>2 DEF Types, Offers, SelectCase, Unhandled, Observe, StartCleanup, Unwind, FormUnwinds,
         BodyUnwinds, Caught, Handled, CleanupUnwinds, ObserverUnwinds, CommandError, Return,
         FormReturns, CleanupReturns, ObserverReturns, Unpushed
  <2>4. flag' \in Cells /\ register' \in Registers
    <3>1. CASE Offers \/ StartCleanup \/ BodyUnwinds \/ CleanupUnwinds \/ CommandError
      BY <3>1 DEF Types, Offers, SelectCase, Unhandled, Observe, StartCleanup, BodyUnwinds,
         CleanupUnwinds, CommandError, BeginQuitUnwind, Cells, Registers
    <3>2. CASE FormUnwinds \/ ObserverUnwinds
      <4>1. Restored(register, flag) \in Cells
        BY CellFacts DEF Types
      <4> QED BY <3>2, <4>1 DEF Types, FormUnwinds, ObserverUnwinds, RebaseQuitUnwind,
                       BeginQuitUnwind, Cells, Registers
    <3>3. CASE Caught \/ Handled \/ FormReturns \/ ObserverReturns
      <4>1. Restored(register, flag) \in Cells /\ (stack # <<>> => Top.saved \in Registers)
        BY CellFacts DEF Types
      <4> QED BY <3>3, <4>1 DEF Caught, Handled, FormReturns, ObserverReturns, EvalReturns,
                       Unwinds, Returns, Ends, Registers
    <3>4. CASE CleanupReturns
      <4>1. stack # <<>> /\ Top.saved \in Registers /\ Top.local \in Registers
        BY <3>4, CellFacts DEF CleanupReturns, Returns, Ends
      <4>2. Restored(Top.local, flag) \in Cells
        BY <4>1, CellFacts DEF Types
      <4>3. Restored(register, Restored(Top.local, flag)) \in Cells
        BY <4>2, CellFacts DEF Types
      <4> QED BY <3>4, <4>1, <4>2, <4>3 DEF CleanupReturns, Types
    <3> QED BY <1>2, <3>1, <3>2, <3>3, <3>4 DEF Unwind, Return
  <2> QED BY <2>1, <2>2, <2>3, <2>4 DEF Types, SmallTypes
<1> QED BY <1>1, <1>2

\* What the lists, the exit and the offer are for a stack.
Sound(s, cs, bs, e, o) ==
    /\ s \in Seq(FrameSet) /\ Lists(s, cs, bs, 0)
    /\ e \in Exits /\ o \in Offered /\ (e = NoExit \/ o = NoOffer)
    /\ ExitScoped(e, s, Len(s)) /\ OfferScoped(o, cs, bs)

SInv == SmallTypes /\ Sound(stack, cases, binds, exit, offer)

LEMMA SInvParts == SInv <=> Types /\ Scopes
<1>1. ASSUME Lists(stack, cases, binds, 0), stack \in Seq(FrameSet)
      PROVE  cases \in Seq(Clauses) /\ binds \in Seq(Bindings)
  BY <1>1, BeforePush
<1> QED BY <1>1, TypesParts DEF SInv, Sound, StackTypes, Scopes

LEMMA NothingScoped ==
    ASSUME NEW s, NEW n, NEW cs \in Seq(Clauses), NEW bs \in Seq(Bindings)
    PROVE  ExitScoped(NoExit, s, n) /\ OfferScoped(NoOffer, cs, bs)
<1>1. ExitScoped(NoExit, s, n)
  BY NoneTypes DEF ExitScoped, Conditions
<1>2. Len(cs) \in Nat /\ Len(bs) \in Nat /\ \A k \in 1 .. Len(cs) : cs[k] \in Clauses
  BY LenProperties
<1>3. \A k \in 1 .. Len(cs) : "none" \notin cs[k]
  BY <1>2 DEF Clauses, Conditions
<1> QED BY <1>1, <1>2, <1>3, NoneTypes DEF OfferScoped

\* An exit passes a frame that does not claim it.
LEMMA ExitPasses ==
    ASSUME Types, Scopes, stack # <<>>, ~Claims
    PROVE  ExitScoped(exit, Below, Len(Below))
<1> DEFINE n == Len(stack) - 1
<1>1. /\ Len(stack) \in Nat \ {0} /\ Len(Below) = n /\ n \in Nat
      /\ \A p \in 1 .. n : Below[p] = stack[p]
  BY FrontFacts DEF Types, Below
<1>2. exit.frame # 0 => exit.target # Len(stack)
  BY DEF Scopes, ExitScoped, SeenCase, Claims, Top, Conditions
<1>3. \A p \in 1 .. n : SeenCase(stack, p, Len(stack)) => SeenCase(stack, p, n)
  BY <1>1 DEF SeenCase, Visible
<1>4. exit.frame # 0 => exit.target \in 1 .. n
  BY <1>1, <1>2 DEF Scopes, ExitScoped
<1>5. ExitScoped(exit, stack, n)
  BY <1>3, <1>4 DEF Scopes, ExitScoped
<1> QED BY <1>1, <1>5, SameExit

LEMMA SameScope ==
    ASSUME NEW e, NEW d, NEW s, NEW n, ExitScoped(e, s, n),
           d.type = e.type, d.frame = e.frame, d.target = e.target
    PROVE  ExitScoped(d, s, n)
BY DEF ExitScoped

\* A region of an unwinding ends; the exit goes where it went.
LEMMA RebaseFacts ==
    ASSUME Types, exit # NoExit, RebaseQuitUnwind
    PROVE  /\ exit' \in Exits /\ exit' # NoExit
           /\ exit'.type = exit.type /\ exit'.frame = exit.frame
           /\ exit'.target = exit.target
<1>1. CASE register = "none"
  BY <1>1 DEF RebaseQuitUnwind, Types
<1>2. CASE register # "none"
  <2>1. exit' = [exit EXCEPT !.since = heard]
    BY <1>2 DEF RebaseQuitUnwind
  <2>2. exit \in ExitRecords /\ heard \in Nat /\ exit.type # "none"
    BY DEF Types, Exits
  <2>3. /\ exit' \in ExitRecords
        /\ exit'.type = exit.type /\ exit'.frame = exit.frame /\ exit'.target = exit.target
    BY <2>1, <2>2 DEF ExitRecords
  <2> QED BY <2>2, <2>3, NoneTypes DEF Exits
<1> QED BY <1>1, <1>2

\* A form, a handler body or a cleanup ends.
LEMMA PopUnpushed ==
    ASSUME Types, Scopes, stack # <<>>, Top.kind # "observer", Unpushed
    PROVE  /\ Below \in Seq(FrameSet) /\ Lists(Below, cases', binds', 1)
           /\ cases' \in Seq(Clauses) /\ binds' \in Seq(Bindings)
           /\ Top.kind = "cleanup" => ExitScoped(Top.under, Below, Len(Below))
<1>1. stack \in Seq(FrameSet) /\ Lists(stack, cases, binds, 0) /\ Below \in Seq(FrameSet)
  BY FrontFacts DEF Types, Scopes, Below
<1>2. Lists(Below, cases', binds', 1)
  BY <1>1, PopLists DEF Unpushed, Below, Top
<1>3. Top.kind = "cleanup" => ExitScoped(Top.under, Below, Len(Below))
  BY <1>1, PopLists DEF Below, Top
<1> QED BY <1>1, <1>2, <1>3, BeforePush

LEMMA NoRoom ==
    ASSUME NEW s, NEW cs, NEW bs, NEW room, Lists(s, cs, bs, room)
    PROVE  Lists(s, cs, bs, 0)
BY DEF Lists

\* Where the depth limit lets a form in there is room for its frame.
LEMMA MakeRoom ==
    ASSUME NEW s \in Seq(FrameSet), NEW cs, NEW bs, Lists(s, cs, bs, 0), Len(s) < Depth
    PROVE  Lists(s, cs, bs, 1)
<1>1. PICK C \in CaseLists, B \in BindLists, O \in Counts :
         Levels(s, C, B, O) /\ C[Len(s)] = cs /\ B[Len(s)] = bs
  BY DEF Lists
<1>2. Len(s) \in Nat /\ Depth \in Nat /\ O[Len(s)] \in Nat
  BY <1>1, LenProperties, BoundAssumption DEF Counts
<1>3. Len(s) + 1 <= Depth + O[Len(s)]
  BY <1>2
<1> QED BY <1>1, <1>3 DEF Lists

\* The steps that leave the stack and the handler lists alone.
LEMMA SignalScoped ==
    ASSUME Types, Scopes, NEW cond \in Conditions, StartOffer(cond)
    PROVE  offer' \in Offered /\ OfferScoped(offer', cases, binds)
<1> DEFINE o == [cond |-> cond, bind |-> Len(binds), case |-> Len(cases)]
<1>1. Len(binds) \in Nat /\ Len(cases) \in Nat
  BY LenProperties DEF Types
<1>2. o \in OfferRecords /\ o.cond = cond /\ o.bind = Len(binds) /\ o.case = Len(cases)
  BY <1>1 DEF OfferRecords
<1>3. offer' = o
  BY DEF StartOffer
<1> HIDE DEF o
<1>4. o \in Offered
  BY <1>2, NoneTypes DEF Offered, Conditions
<1>5. OfferScoped(o, cases, binds)
  BY <1>1, <1>2 DEF OfferScoped
<1> QED BY <1>3, <1>4, <1>5

LEMMA RaiseScoped ==
    ASSUME Types, Scopes, NEW type \in Conditions \cup {"throw"}, NEW since \in Nat,
           exit' = [NoExit EXCEPT !.type = type, !.since = since]
    PROVE  exit' \in Exits /\ ExitScoped(exit', stack, Len(stack))
<1>1. /\ exit' \in ExitRecords /\ exit'.type = type /\ exit'.frame = 0
      /\ exit'.target = 0
  BY NoneTypes DEF NoExit, ExitRecords, Exits
<1>2. exit' \in Exits
  BY <1>1, NoneTypes DEF Exits, Conditions
<1> QED BY <1>1, <1>2 DEF ExitScoped

LEMMA SelectScoped ==
    ASSUME Types, Scopes, SelectCase
    PROVE  exit' \in Exits /\ ExitScoped(exit', stack, Len(stack))
<1> DEFINE k == MatchingCase
           p == Innermost(Handlers(offer.cond))
           e == [type |-> offer.cond, frame |-> k, target |-> p, since |-> heard]
<1>1. offer # NoOffer /\ k # 0 /\ exit' = e
  BY DEF SelectCase, CaseIsNext
<1>2. p \in 1 .. Len(stack) /\ SeenCase(stack, p, Len(stack)) /\ stack[p].mark = k
  BY <1>1, SelectedIsTarget
<1>3. Len(stack) \in Nat /\ stack[p] \in FrameSet /\ heard \in Nat /\ offer.cond \in Conditions
  BY <1>1, <1>2, LenProperties DEF Types, Offered, OfferRecords
<1>4. k \in Nat /\ p \in Nat /\ p # 0
  BY <1>2, <1>3 DEF FrameSet
<1> HIDE DEF k, p
<1>5. e \in ExitRecords /\ e.type = offer.cond /\ e.frame = k /\ e.target = p
  BY <1>3, <1>4 DEF ExitRecords
<1> HIDE DEF e
<1>6. e \in Exits
  BY <1>3, <1>5, NoneTypes DEF Exits, Conditions
<1>7. ExitScoped(e, stack, Len(stack))
  BY <1>1, <1>2, <1>3, <1>4, <1>5 DEF ExitScoped
<1> QED BY <1>1, <1>6, <1>7

LEMMA SameStackScopes ==
    ASSUME SInv, \/ Press \/ Leaf \/ QuitSignal \/ SignalError \/ Throw
                 \/ SelectCase \/ Unhandled \/ CommandError
    PROVE  Sound(stack, cases, binds, exit', offer') /\ UNCHANGED <<stack, cases, binds>>
<1>1. Types /\ Scopes /\ Sound(stack, cases, binds, exit, offer)
  BY SInvParts DEF SInv
<1>2. UNCHANGED <<stack, cases, binds>>
  BY DEF Press, Leaf, QuitSignal, SignalError, Throw, SelectCase, Unhandled, CommandError,
         control
<1>3. cases \in Seq(Clauses) /\ binds \in Seq(Bindings)
  BY <1>1 DEF Types
<1>4. ExitScoped(NoExit, stack, Len(stack)) /\ OfferScoped(NoOffer, cases, binds)
      /\ NoExit \in Exits /\ NoOffer \in Offered
  BY <1>3, NothingScoped, NoneTypes
<1>5. CASE Press \/ Leaf
  BY <1>1, <1>2, <1>5 DEF Press, Leaf
<1>6. CASE QuitSignal \/ SignalError
  <2>1. PICK cond \in Conditions : StartOffer(cond)
    BY <1>6 DEF QuitSignal, SignalError, Conditions
  <2>2. offer' \in Offered /\ OfferScoped(offer', cases, binds)
    BY <1>1, <2>1, SignalScoped
  <2>3. exit' = NoExit
    BY <1>6 DEF QuitSignal, SignalError, Running
  <2> QED BY <1>1, <1>2, <1>4, <2>2, <2>3 DEF Sound
<1>7. CASE Throw
  <2>1. PICK h \in Nat : heard' = h
    BY <1>1, <1>7, TakeTypes DEF Throw, NoQuit
  <2>2. exit' = [NoExit EXCEPT !.type = "throw", !.since = h] /\ offer' = NoOffer
    BY <1>7, <2>1 DEF Throw, Running
  <2>3. exit' \in Exits /\ ExitScoped(exit', stack, Len(stack))
    BY <1>1, <2>2, RaiseScoped
  <2> QED BY <1>1, <1>2, <1>4, <2>2, <2>3 DEF Sound
<1>8. CASE SelectCase
  BY <1>1, <1>2, <1>4, <1>8, SelectScoped DEF Sound, SelectCase
<1>9. CASE Unhandled
  <2>1. /\ exit' = [NoExit EXCEPT !.type = offer.cond, !.since = heard]
        /\ offer.cond \in Conditions /\ heard \in Nat
    BY <1>1, <1>9 DEF Unhandled, Types, Offered, OfferRecords
  <2>2. exit' \in Exits /\ ExitScoped(exit', stack, Len(stack))
    BY <1>1, <2>1, RaiseScoped
  <2> QED BY <1>1, <1>2, <1>4, <1>9, <2>2 DEF Sound, Unhandled
<1>10. CASE CommandError
  BY <1>1, <1>2, <1>4, <1>10 DEF Sound, CommandError
<1> QED BY <1>2, <1>5, <1>6, <1>7, <1>8, <1>9, <1>10

\* The steps that push a frame.
LEMMA PushedSound ==
    ASSUME NEW s \in Seq(FrameSet), NEW cs, NEW bs, Lists(s, cs, bs, 0),
           NEW o \in Offered, OfferScoped(o, cs, bs)
    PROVE  Sound(s, cs, bs, NoExit, o)
<1>1. cs \in Seq(Clauses) /\ bs \in Seq(Bindings)
  BY BeforePush
<1> QED BY <1>1, NothingScoped, NoneTypes DEF Sound

LEMMA EnterScopes ==
    ASSUME SInv, Enters
    PROVE  Sound(stack', cases', binds', exit', offer')
<1>1. /\ Types /\ Scopes /\ register \in Registers /\ stack \in Seq(FrameSet)
      /\ cases \in Seq(Clauses) /\ binds \in Seq(Bindings)
      /\ Len(cases) \in Nat /\ Len(binds) \in Nat /\ Len(stack) \in Nat
  BY SInvParts, LenProperties DEF Types
<1>2. exit' = NoExit /\ offer' = NoOffer /\ Len(stack) < Depth
  BY DEF Enters, EnterCatch, EnterUnwindProtect, EnterConditionCase, EnterHandlerBind,
         EnterInhibit, Enter, Running
<1>3. Lists(stack, cases, binds, 1)
  BY <1>1, <1>2, MakeRoom DEF Scopes
<1>4. SUFFICES Lists(stack', cases', binds', 0) /\ stack' \in Seq(FrameSet)
  <2> SUFFICES ASSUME Lists(stack', cases', binds', 0), stack' \in Seq(FrameSet)
               PROVE  Sound(stack', cases', binds', NoExit, NoOffer)
    BY <1>2
  <2>1. cases' \in Seq(Clauses) /\ binds' \in Seq(Bindings)
    BY BeforePush
  <2> QED BY <2>1, NothingScoped, NoneTypes, PushedSound
<1>5. CASE EnterCatch \/ EnterUnwindProtect \/ EnterInhibit
  <2>1. PICK kind \in {"catch", "protect", "inhibit"} :
           stack' = Append(stack, Form(kind, register)) /\ UNCHANGED <<cases, binds>>
    BY <1>5 DEF EnterCatch, EnterUnwindProtect, EnterInhibit, Enter
  <2> DEFINE e == Form(kind, register)
  <2>2. e \in FrameSet /\ e.kind = kind /\ e.under = NoExit
    BY <1>1, FormType DEF Kinds
  <2>3. e.mark = 0
    BY DEF Form
  <2> HIDE DEF e
  <2>4. ExitScoped(e.under, stack, Len(stack))
    BY <1>1, <2>2, NothingScoped
  <2>5. Lists(Append(stack, e), cases, binds, 0)
    BY <1>1, <1>3, <2>2, <2>3, <2>4, PushPlain
  <2> QED BY <1>1, <2>1, <2>2, <2>5, AppendFacts DEF e
<1>6. ASSUME NEW conds \in Clauses, EnterConditionCase(conds)
      PROVE  Lists(stack', cases', binds', 0) /\ stack' \in Seq(FrameSet)
  <2> DEFINE e == NamingFrame("case", register, conds, Len(cases) + 1)
  <2>1. stack' = Append(stack, e) /\ cases' = Append(cases, conds) /\ binds' = binds
    BY <1>6 DEF EnterConditionCase, Enter, NamingFrame
  <2>2. Len(cases) + 1 \in Nat
    BY <1>1
  <2>3. e \in FrameSet /\ e.kind = "case" /\ e.mark = Len(cases) + 1 /\ e.what = conds
    BY <1>1, <2>2, NamingFrameType DEF Kinds
  <2> HIDE DEF e
  <2>4. Lists(Append(stack, e), Append(cases, e.what), binds, 0)
    BY <1>1, <1>3, <2>3, PushCase
  <2> QED BY <1>1, <2>1, <2>3, <2>4, AppendFacts
<1>7. ASSUME NEW conds \in Clauses, EnterHandlerBind(conds)
      PROVE  Lists(stack', cases', binds', 0) /\ stack' \in Seq(FrameSet)
  <2> DEFINE e == NamingFrame("bind", register, conds, Len(binds))
             b(c) == Append(binds, [conds |-> c, depth |-> Len(cases), at |-> Len(stack) + 1])
  <2>1. stack' = Append(stack, e) /\ cases' = cases /\ binds' = b(conds)
    BY <1>7 DEF EnterHandlerBind, Enter, NamingFrame
  <2>3. e \in FrameSet /\ e.kind = "bind" /\ e.mark = Len(binds) /\ e.what = conds
    BY <1>1, NamingFrameType DEF Kinds
  <2> HIDE DEF e
  <2>4. Lists(Append(stack, e), cases, b(e.what), 0)
    BY <1>1, <1>3, <2>3, PushBind
  <2> HIDE DEF b
  <2> QED BY <1>1, <2>1, <2>3, <2>4, AppendFacts
<1> QED BY <1>5, <1>6, <1>7 DEF Enters

\* The binding whose observer is called.
LEMMA ObservedBinding ==
    ASSUME Types, Scopes, Observe
    PROVE  LET j == MatchingBind IN
           j \in 1 .. Len(binds) /\ j \in DOMAIN binds /\ binds[j].depth \in 0 .. Len(cases)
<1> DEFINE j == MatchingBind
<1>1. /\ j # 0 /\ Lists(stack, cases, binds, 0) /\ OfferScoped(offer, cases, binds)
      /\ stack \in Seq(FrameSet) /\ binds \in Seq(Bindings)
      /\ Len(cases) \in Nat /\ Len(binds) \in Nat
  BY LenProperties DEF Observe, Types, Scopes
<1>2. j \in 1 .. Len(binds)
  <2>1. offer.bind \in Nat /\ offer.bind <= Len(binds)
    BY <1>1 DEF OfferScoped
  <2>2. j \in {i \in 1 .. offer.bind : offer.cond \in binds[i].conds} \cup {0}
    BY <2>1, InnermostFacts DEF MatchingBind
  <2> QED BY <1>1, <2>1, <2>2
<1>3. BindsInScope(stack, Len(stack), cases, binds)
  BY <1>1, ListFacts
<1> QED BY <1>1, <1>2, <1>3, LenProperties DEF BindsInScope

\* The search goes on outside the binding whose observer is called.
LEMMA ObserveScopes ==
    ASSUME SInv, Observe
    PROVE  Sound(stack', cases', binds', exit', offer')
<1>1. /\ Types /\ Scopes /\ stack \in Seq(FrameSet) /\ Lists(stack, cases, binds, 0)
      /\ cases \in Seq(Clauses) /\ binds \in Seq(Bindings)
      /\ Len(cases) \in Nat /\ Len(binds) \in Nat /\ OfferScoped(offer, cases, binds)
  BY SInvParts, LenProperties DEF Types, Scopes
<1> DEFINE j == MatchingBind
           e == Observer(j)
<1>2. offer # NoOffer /\ j # 0 /\ ~CaseIsNext /\ exit' = NoExit /\ offer' = NoOffer
  BY <1>1 DEF Observe, Types
<1>3. j \in 1 .. Len(binds)
  BY <1>1, ObservedBinding
<1>4. binds[j].depth \in 0 .. Len(cases) /\ j \in DOMAIN binds
  BY <1>1, ObservedBinding
<1>5. /\ stack' = Append(stack, e) /\ cases' = SubSeq(cases, 1, binds[j].depth)
      /\ binds' = SubSeq(binds, 1, j - 1)
  BY DEF Observe
<1>6. /\ e \in FrameSet /\ e.kind = "observer" /\ e.mark = binds[j].at
      /\ e.hidden.cases = SubSeq(cases, binds[j].depth + 1, Len(cases))
      /\ e.hidden.binds = SubSeq(binds, j, Len(binds))
      /\ e.hidden.offer.cond = offer.cond /\ e.hidden.offer.bind = j - 1
      /\ e.hidden.offer.case =
           IF offer.case <= binds[j].depth THEN offer.case ELSE binds[j].depth
  BY <1>1, <1>2, <1>4, ObserverType
<1>7. offer.cond \in Conditions /\ offer.case \in 0 .. Len(cases)
      /\ \A i \in (offer.case + 1) .. Len(cases) : offer.cond \notin cases[i]
  BY <1>1, <1>2 DEF Types, Offered, OfferRecords, OfferScoped
<1>8. e.hidden.offer # NoOffer
  BY <1>6, <1>7, NoneTypes DEF Conditions
<1>9. \A i \in 1 .. offer.case : offer.cond \in cases[i] => i <= binds[j].depth
  <2> DEFINE K == {i \in 1 .. offer.case : offer.cond \in cases[i]}
  <2>1. offer.case \in Nat /\ K \in SUBSET (1 .. offer.case)
    BY <1>7
  <2>2. MatchingCase \in K \cup {0} /\ \A i \in K : i <= MatchingCase
    BY <2>1, InnermostFacts DEF MatchingCase
  <2>3. MatchingCase = 0 \/ ~(MatchingCase > binds[j].depth)
    BY <1>2 DEF CaseIsNext
  <2>4. MatchingCase \in Nat
    BY <2>1, <2>2
  <2> QED BY <1>4, <2>1, <2>2, <2>3, <2>4
<1> HIDE DEF j, e
<1>10. OfferScoped(e.hidden.offer, cases, binds)
  <2>1. e.hidden.offer.bind \in 0 .. Len(binds)
    BY <1>1, <1>3, <1>6
  <2>2. e.hidden.offer.case \in 0 .. Len(cases)
    BY <1>4, <1>6, <1>7
  <2>3. ASSUME NEW i \in (e.hidden.offer.case + 1) .. Len(cases) PROVE offer.cond \notin cases[i]
    <3>1. offer.case \in Nat /\ binds[j].depth \in Nat /\ i \in 1 .. Len(cases)
      BY <1>4, <1>7, <2>2
    <3>2. CASE i > offer.case
      BY <1>7, <3>1, <3>2
    <3>3. CASE i <= offer.case
      <4>1. i > binds[j].depth
        BY <1>6, <3>1, <3>3
      <4> QED BY <1>9, <3>1, <3>3, <4>1
    <3> QED BY <3>1, <3>2, <3>3
  <2> QED BY <1>6, <2>1, <2>2, <2>3 DEF OfferScoped
<1>11. Lists(Append(stack, e), SubSeq(cases, 1, binds[j].depth), SubSeq(binds, 1, j - 1), 0)
  BY <1>1, <1>3, <1>6, <1>8, <1>10, PushObserver
<1>12. /\ Append(stack, e) \in Seq(FrameSet)
       /\ SubSeq(cases, 1, binds[j].depth) \in Seq(Clauses)
       /\ SubSeq(binds, 1, j - 1) \in Seq(Bindings)
  <2>1. j - 1 \in 0 .. Len(binds)
    BY <1>1, <1>3
  <2> QED BY <1>1, <1>4, <1>6, <2>1, AppendFacts, PrefixFacts
<1>13. OfferScoped(NoOffer, SubSeq(cases, 1, binds[j].depth), SubSeq(binds, 1, j - 1))
  BY <1>12, NothingScoped
<1> QED BY <1>2, <1>5, <1>11, <1>12, <1>13, NoneTypes, PushedSound

\* The steps that pop a frame.
LEMMA PopPlain ==
    ASSUME Types, Scopes, stack # <<>>, Top.kind \notin {"case", "bind", "observer"}
    PROVE  /\ Below \in Seq(FrameSet) /\ Lists(Below, cases, binds, 1)
           /\ Top \in FrameSet /\ Top.mark = 0
           /\ ExitScoped(Top.under, Below, Len(Below))
<1>1. stack \in Seq(FrameSet) /\ Lists(stack, cases, binds, 0) /\ Below \in Seq(FrameSet)
      /\ Top \in FrameSet
  BY FrontFacts, CellFacts DEF Types, Scopes, Below
<1> QED BY <1>1, PopLists DEF Below, Top

LEMMA PopObserver ==
    ASSUME Types, Scopes, stack # <<>>, Top.kind = "observer", Unhidden
    PROVE  /\ Below \in Seq(FrameSet) /\ Lists(Below, cases', binds', 0)
           /\ Top.hidden.offer \in Offered /\ OfferScoped(Top.hidden.offer, cases', binds')
<1>1. stack \in Seq(FrameSet) /\ Lists(stack, cases, binds, 0) /\ Below \in Seq(FrameSet)
      /\ Top \in FrameSet
  BY FrontFacts, CellFacts DEF Types, Scopes, Below
<1>2. Top.hidden.offer \in Offered
  BY <1>1 DEF FrameSet, HiddenParts
<1>3. /\ Lists(Below, cases \o Top.hidden.cases, binds \o Top.hidden.binds, 0)
      /\ OfferScoped(Top.hidden.offer, cases \o Top.hidden.cases, binds \o Top.hidden.binds)
  BY <1>1, PopLists DEF Below, Top
<1> QED BY <1>1, <1>2, <1>3 DEF Unhidden

LEMMA UnwoundSound ==
    ASSUME NEW s \in Seq(FrameSet), NEW cs, NEW bs, NEW room, Lists(s, cs, bs, room),
           NEW e \in Exits, ExitScoped(e, s, Len(s))
    PROVE  Sound(s, cs, bs, e, NoOffer)
<1>1. Lists(s, cs, bs, 0)
  BY NoRoom
<1>2. cs \in Seq(Clauses) /\ bs \in Seq(Bindings)
  BY BeforePush
<1> QED BY <1>1, <1>2, NothingScoped, NoneTypes DEF Sound

LEMMA FormScopes ==
    ASSUME SInv, FormReturns \/ FormUnwinds \/ BodyUnwinds \/ Caught \/ Handled
    PROVE  Sound(stack', cases', binds', exit', offer')
<1>1. Types /\ Scopes
  BY SInvParts
<1>2. /\ stack # <<>> /\ Top.kind # "observer" /\ Top.kind # "cleanup" /\ Unpushed
      /\ offer' = NoOffer
  BY DEF FormReturns, FormUnwinds, BodyUnwinds, Caught, Handled, Returns, Unwinds, Ends
<1>3. /\ Below \in Seq(FrameSet) /\ Lists(Below, cases', binds', 1)
      /\ cases' \in Seq(Clauses) /\ binds' \in Seq(Bindings)
  BY <1>1, <1>2, PopUnpushed
<1>4. NoExit \in Exits /\ ExitScoped(NoExit, Below, Len(Below))
  BY <1>3, NothingScoped, NoneTypes
<1>5. CASE FormReturns \/ Caught
  <2>1. stack' = Below /\ exit' = NoExit
    BY <1>5 DEF FormReturns, Caught, Returns
  <2>2. Sound(Below, cases', binds', NoExit, NoOffer)
    BY <1>3, <1>4, UnwoundSound
  <2> QED BY <1>2, <2>1, <2>2
<1>6. CASE FormUnwinds \/ BodyUnwinds
  <2>1. stack' = Below /\ exit # NoExit /\ ~Claims
    BY <1>6 DEF FormUnwinds, BodyUnwinds, Unwinds, Ends, Claims
  <2>2. ExitScoped(exit, Below, Len(Below))
    BY <1>1, <1>2, <2>1, ExitPasses
  <2>3. /\ exit' \in Exits /\ exit'.type = exit.type /\ exit'.frame = exit.frame
        /\ exit'.target = exit.target
    BY <1>1, <1>6, <2>1, RebaseFacts DEF FormUnwinds, BodyUnwinds, Types
  <2>4. ExitScoped(exit', Below, Len(Below))
    BY <2>2, <2>3, SameScope
  <2>5. Sound(Below, cases', binds', exit', NoOffer)
    BY <1>3, <2>3, <2>4, UnwoundSound
  <2> QED BY <1>2, <2>1, <2>5
<1>7. CASE Handled
  <2> DEFINE e == Form("handler", Top.saved)
  <2>1. stack' = Append(Below, e) /\ exit' = NoExit
    BY <1>7 DEF Handled
  <2>2. e \in FrameSet /\ e.kind = "handler" /\ e.under = NoExit
    BY <1>1, <1>2, CellFacts, FormType DEF Kinds
  <2>3. e.mark = 0
    BY DEF Form
  <2> HIDE DEF e
  <2>4. Lists(Append(Below, e), cases', binds', 0)
    BY <1>3, <1>4, <2>2, <2>3, PushPlain
  <2>5. Append(Below, e) \in Seq(FrameSet)
    BY <1>3, <2>2, AppendFacts
  <2>6. ExitScoped(NoExit, Append(Below, e), Len(Append(Below, e)))
    BY <1>3, NothingScoped
  <2>7. Sound(Append(Below, e), cases', binds', NoExit, NoOffer)
    BY <1>4, <2>4, <2>5, <2>6, UnwoundSound
  <2> QED BY <1>2, <2>1, <2>7
<1> QED BY <1>5, <1>6, <1>7

LEMMA CleanupScopes ==
    ASSUME SInv, StartCleanup \/ CleanupReturns \/ CleanupUnwinds
    PROVE  Sound(stack', cases', binds', exit', offer')
<1>1. Types /\ Scopes /\ exit \in Exits
  BY SInvParts DEF Types
<1>2. /\ stack # <<>> /\ Top.kind \in {"protect", "cleanup"} /\ cases' = cases /\ binds' = binds
      /\ offer' = NoOffer
  BY DEF StartCleanup, CleanupReturns, CleanupUnwinds, Returns, Unwinds, Ends
<1>3. /\ Below \in Seq(FrameSet) /\ Lists(Below, cases, binds, 1) /\ Top \in FrameSet
      /\ Top.mark = 0 /\ ExitScoped(Top.under, Below, Len(Below))
  BY <1>1, <1>2, PopPlain
<1>4. ExitScoped(exit, Below, Len(Below))
  BY <1>1, <1>2, ExitPasses DEF Claims
<1>5. CASE StartCleanup
  <2>1. stack' = Append(Below, CleanupFrame) /\ exit' = NoExit
    BY <1>5 DEF StartCleanup, CleanupFrame, CleanupOfExit, CleanupWithFlag
  <2>2. /\ CleanupFrame \in FrameSet /\ CleanupFrame.kind = "cleanup"
        /\ CleanupFrame.under = exit /\ CleanupFrame.mark = 0
    BY <1>1, <1>2, <1>3, CleanupFrameType
  <2>3. Lists(Append(Below, CleanupFrame), cases, binds, 0)
    BY <1>3, <1>4, <2>2, PushPlain
  <2>4. Append(Below, CleanupFrame) \in Seq(FrameSet)
    BY <1>3, <2>2, AppendFacts
  <2>5. ExitScoped(NoExit, Append(Below, CleanupFrame), Len(Append(Below, CleanupFrame)))
    BY <1>1, NothingScoped DEF Types
  <2>6. Sound(Append(Below, CleanupFrame), cases, binds, NoExit, NoOffer)
    BY <2>3, <2>4, <2>5, NoneTypes, UnwoundSound
  <2> QED BY <1>2, <2>1, <2>6
<1>6. CASE CleanupReturns
  <2>1. stack' = Below /\ exit' = Top.under /\ Top.under \in Exits
    BY <1>3, <1>6 DEF CleanupReturns, FrameSet
  <2>2. Sound(Below, cases, binds, Top.under, NoOffer)
    BY <1>3, <2>1, UnwoundSound
  <2> QED BY <1>2, <2>1, <2>2
<1>7. CASE CleanupUnwinds
  <2>1. stack' = Below /\ exit' = exit
    BY <1>7 DEF CleanupUnwinds
  <2>2. Sound(Below, cases, binds, exit, NoOffer)
    BY <1>1, <1>3, <1>4, UnwoundSound
  <2> QED BY <1>2, <2>1, <2>2
<1> QED BY <1>5, <1>6, <1>7

LEMMA ObserverScopes ==
    ASSUME SInv, ObserverReturns \/ ObserverUnwinds
    PROVE  Sound(stack', cases', binds', exit', offer')
<1>1. Types /\ Scopes
  BY SInvParts
<1>2. stack # <<>> /\ Top.kind = "observer" /\ Unhidden /\ stack' = Below
  BY DEF ObserverReturns, ObserverUnwinds, Returns, Unwinds, Ends
<1>3. /\ Below \in Seq(FrameSet) /\ Lists(Below, cases', binds', 0)
      /\ Top.hidden.offer \in Offered /\ OfferScoped(Top.hidden.offer, cases', binds')
  BY <1>1, <1>2, PopObserver
<1>4. CASE ObserverReturns
  <2>1. exit' = NoExit /\ offer' = Top.hidden.offer
    BY <1>4 DEF ObserverReturns, Returns
  <2>2. Sound(Below, cases', binds', NoExit, Top.hidden.offer)
    BY <1>3, PushedSound
  <2> QED BY <1>2, <2>1, <2>2
<1>5. CASE ObserverUnwinds
  <2>1. offer' = NoOffer /\ exit # NoExit /\ RebaseQuitUnwind
    BY <1>5 DEF ObserverUnwinds, Unwinds, Ends
  <2>2. ExitScoped(exit, Below, Len(Below))
    BY <1>1, <1>2, ExitPasses DEF Claims
  <2>3. /\ exit' \in Exits /\ exit'.type = exit.type /\ exit'.frame = exit.frame
        /\ exit'.target = exit.target
    BY <1>1, <2>1, RebaseFacts
  <2>4. ExitScoped(exit', Below, Len(Below))
    BY <2>2, <2>3, SameScope
  <2>5. Sound(Below, cases', binds', exit', NoOffer)
    BY <1>3, <2>3, <2>4, UnwoundSound
  <2> QED BY <1>2, <2>1, <2>5
<1> QED BY <1>4, <1>5

LEMMA ScopesInit ==
    ASSUME Init
    PROVE  SInv
<1>1. SmallTypes
  <2>1. /\ flag = "nil" /\ register = "none" /\ inhibit = FALSE /\ pending = FALSE
        /\ presses = 0 /\ heard = 0 /\ quits = 0 /\ owed = FALSE /\ replaced = FALSE
    BY DEF Init
  <2>2. One(pending) = 0
    BY <2>1 DEF One
  <2>3. heard + One(pending) <= presses /\ presses \in 0 .. MaxPresses
    BY <2>1, <2>2, BoundAssumption
  <2> QED BY <2>1, <2>3 DEF SmallTypes, Cells, Registers
<1>2. <<>> \in Seq(FrameSet) /\ <<>> \in Seq(Clauses) /\ <<>> \in Seq(Bindings) /\ Len(<<>>) = 0
  BY EmptySeq
<1>3. Lists(<<>>, <<>>, <<>>, 0)
  <2> DEFINE C == [n \in Nat |-> <<>>]
             O == [n \in Nat |-> 0]
  <2>1. C \in CaseLists /\ C \in BindLists /\ O \in Counts /\ C[0] = <<>> /\ O[0] = 0
    BY <1>2 DEF CaseLists, BindLists, Counts
  <2> HIDE DEF C, O
  <2>2. LevelFacts(<<>>, 0, <<>>, <<>>, 0)
    <3>1. CasesInScope(<<>>, 0, <<>>) /\ BindsInScope(<<>>, 0, <<>>, <<>>)
      BY <1>2 DEF CasesInScope, BindsInScope
    <3>2. Counted(0, <<>>, <<>>, 0)
      BY <1>2, BoundAssumption DEF Counted
    <3> QED BY <3>1, <3>2 DEF LevelFacts
  <2>3. Levels(<<>>, C, C, O)
    <3>1. \A n \in 1 .. Len(<<>>) : FALSE
      BY <1>2
    <3>2. \A n \in 0 .. Len(<<>>) : n = 0
      BY <1>2
    <3> QED BY <2>1, <2>2, <3>1, <3>2 DEF Levels
  <2> QED BY <1>2, <2>1, <2>3 DEF Lists
<1>4. Sound(<<>>, <<>>, <<>>, NoExit, NoOffer)
  BY <1>2, <1>3, NoneTypes, PushedSound, NothingScoped
<1> QED BY <1>1, <1>4 DEF Init, SInv

LEMMA ScopesNext ==
    ASSUME SInv, [Next]_vars
    PROVE  SInv'
<1>1. Types
  BY SInvParts
<1>2. ASSUME Sound(stack', cases', binds', exit', offer'), SmallTypes'
      PROVE  SInv'
  BY <1>2 DEF SInv
<1>3. CASE Press \/ Leaf \/ QuitSignal \/ SignalError \/ Throw \/ SelectCase \/ Unhandled
           \/ CommandError
  <2>1. SmallTypes'
    BY <1>1, <1>3, EvalTypes, ExitTypes DEF Offers, Unwind
  <2>2. Sound(stack, cases, binds, exit', offer') /\ UNCHANGED <<stack, cases, binds>>
    BY <1>3, SameStackScopes
  <2> QED BY <1>2, <2>1, <2>2
<1>4. CASE Enters
  BY <1>1, <1>2, <1>4, EvalTypes, EnterScopes
<1>5. CASE Observe
  BY <1>1, <1>2, <1>5, ExitTypes, ObserveScopes DEF Offers
<1>6. CASE FormReturns \/ FormUnwinds \/ BodyUnwinds \/ Caught \/ Handled
  BY <1>1, <1>2, <1>6, ExitTypes, FormScopes DEF Unwind, Return
<1>7. CASE StartCleanup \/ CleanupReturns \/ CleanupUnwinds
  BY <1>1, <1>2, <1>7, ExitTypes, CleanupScopes DEF Unwind, Return
<1>8. CASE ObserverReturns \/ ObserverUnwinds
  BY <1>1, <1>2, <1>8, ExitTypes, ObserverScopes DEF Unwind, Return
<1>9. CASE UNCHANGED vars
  BY <1>9 DEF vars, control, history, SInv, SmallTypes
<1> QED BY <1>3, <1>4, <1>5, <1>6, <1>7, <1>8, <1>9 DEF Next, Raise, Offers, Unwind, Return

LEMMA ScopesAlways == Spec => []SInv
<1>1. Init => SInv
  BY ScopesInit
<1>2. SInv /\ [Next]_vars => SInv'
  BY ScopesNext
<1> QED BY <1>1, <1>2, PTL DEF Spec

\* The index an exit carries and the frame it means stay the same thing at
\* every frame the exit passes.
LEMMA ScopesHandlers ==
    ASSUME SInv
    PROVE  HandlersScoped
<1>1. /\ Types /\ Scopes /\ stack \in Seq(FrameSet) /\ Len(stack) \in Nat
      /\ DOMAIN stack = 1 .. Len(stack) /\ CasesInScope(stack, Len(stack), cases)
  BY SInvParts, LenProperties, ListFacts DEF Types, Scopes
<1>2. \A o, q \in DOMAIN stack :
         stack[o].kind = "observer" /\ stack[q].kind = "observer" /\ o < q
         => stack[q].mark > o \/ stack[q].mark < stack[o].mark
  BY <1>1, StackFacts DEF Scopes
<1>3. exit.frame = 0 <=> exit.target = 0
  BY <1>1 DEF Scopes, ExitScoped
<1>4. ASSUME stack # <<>>, Top.kind = "case"
      PROVE  exit.frame = Top.mark <=> exit.target = Len(stack)
  <2> DEFINE n == Len(stack)
  <2>1. n \in 1 .. n /\ SeenCase(stack, n, n)
    <3>1. n # 0
      BY <1>1, <1>4, EmptySeq
    <3> QED BY <1>1, <1>4, <3>1 DEF SeenCase, Visible, Top
  <2>2. stack[n].mark \in Nat /\ stack[n].mark # 0
    BY <1>1, <2>1 DEF CasesInScope
  <2>3. ASSUME exit.target = n PROVE exit.frame = Top.mark
    BY <1>1, <2>1, <2>3 DEF Scopes, ExitScoped, Top
  <2>4. ASSUME exit.frame = Top.mark PROVE exit.target = n
    <3>1. exit.frame # 0
      BY <2>2, <2>4 DEF Top
    <3>2. exit.target \in 1 .. n /\ SeenCase(stack, exit.target, n)
          /\ stack[exit.target].mark = stack[n].mark
      BY <1>1, <2>4, <3>1 DEF Scopes, ExitScoped, Top
    <3>3. ASSUME exit.target < n PROVE FALSE
      <4>1. stack[exit.target].mark < stack[n].mark
        BY <1>1, <2>1, <3>2, <3>3 DEF CasesInScope
      <4> QED BY <2>2, <3>2, <4>1
    <3> QED BY <1>1, <3>2, <3>3
  <2> QED BY <2>3, <2>4
<1> QED BY <1>2, <1>3, <1>4 DEF HandlersScoped

\* Interp::case_handlers names a condition-case by its index, while
\* run_handler_observer cuts that list short and puts it together again, and
\* exits pop it frame by frame (control.rs).  However they nest, the frame that
\* takes a signal is the innermost condition-case that was in scope and names
\* it, and no frame takes a signal meant for another; and an observer never
\* runs inside itself.
THEOREM SignalsFindTheirHandlers == Spec => []HandlersScoped
<1>1. SInv => HandlersScoped
  BY ScopesHandlers
<1> QED BY <1>1, ScopesAlways, PTL

-----------------------------------------------------------------------------
(* Where a C-g waits.  A register is only ever kept by what runs inside a  *)
(* cleanup that an exit waits for; what it is kept in then is as young as  *)
(* every cleanup further out.                                              *)

\* A cleanup that runs while an exit that has begun the register waits.
Waits(c) == c.kind = "cleanup" /\ c.under # NoExit /\ c.local = "none" /\ c.since = c.under.since

\* h is later than the unwinding any cleanup up to n belongs to.
Younger(s, n, h) == \A r \in 1 .. n : s[r].kind = "cleanup" => h > s[r].since

\* What frame p keeps, f, above the frames before it.
Kept(s, p, f, h) ==
    /\ f.saved # "none" => p > 1 /\ Waits(s[p - 1]) /\ (f.saved = "t" => s[p - 1].carried)
    /\ f.saved = "t" => Younger(s, p - 2, h)
    /\ f.kind = "observer" => f.saved = "none"
    /\ f.local # "none" => f.kind = "cleanup"
    /\ f.local = "t" => f.carried /\ Younger(s, p - 1, h)
    /\ f.since <= h /\ f.under.since <= h

FramesKept(s, h) == \A p \in 1 .. Len(s) : Kept(s, p, s[p], h)

\* What quit-flag and the register mean beside an exit and an offer.
Places(s, e, o, f, r, h) ==
    /\ e = NoExit /\ r # "none" =>
         o = NoOffer /\ s # <<>> /\ Waits(s[Len(s)]) /\ (r = "t" => s[Len(s)].carried)
    /\ e.since <= h
    /\ e # NoExit /\ r # "none" /\ f = "t" => h > e.since
    /\ f = "t" => Younger(s, Len(s), h)
    /\ r = "t" => Younger(s, IF e = NoExit THEN Len(s) - 1 ELSE Len(s), h)

\* How many times a C-g is kept.
Told(cell) == IF cell = "t" THEN 1 ELSE 0
SavedIn(s) == {p \in 1 .. Len(s) : s[p].saved = "t"}
LocalIn(s) == {p \in 1 .. Len(s) : s[p].local = "t"}
Stored(s)  == Cardinality(SavedIn(s)) + Cardinality(LocalIn(s))

Balanced(s, f, r, q, h) == q + Told(f) + Told(r) + Stored(s) <= h

\* It is somewhere, or it was with a cleanup inside the one it is carried by,
\* which the exit that is under way is about to end.
Carried(s, e, f, r) ==
    \/ Told(f) + Told(r) + Stored(s) > 0
    \/ e # NoExit /\ s # <<>> /\ s[Len(s)].kind = "cleanup" /\ s[Len(s)].carried

Owing == owed /\ ~replaced => Carried(stack, exit, flag, register)

RInv ==
    /\ FramesKept(stack, heard)
    /\ Places(stack, exit, offer, flag, register, heard)
    /\ Balanced(stack, flag, register, quits, heard)
    /\ Owing

LEMMA YoungerFacts ==
    ASSUME NEW s \in Seq(FrameSet), NEW n \in Nat, n <= Len(s), NEW h \in Nat, NEW g \in Nat,
           h <= g
    PROVE  /\ Younger(s, n, h) => Younger(s, n, g)
           /\ \A m \in Int : m <= n /\ Younger(s, n, h) => Younger(s, m, h)
           /\ \A t : (\A p \in 1 .. n : t[p] = s[p]) /\ Younger(s, n, h) => Younger(t, n, h)
<1>1. Len(s) \in Nat /\ \A r \in 1 .. n : r \in 1 .. Len(s) /\ s[r] \in FrameSet
  BY LenProperties
<1>2. \A r \in 1 .. n : s[r].since \in Nat
  BY <1>1 DEF FrameSet
<1> QED BY <1>1, <1>2 DEF Younger

LEMMA KeptLater ==
    ASSUME NEW s \in Seq(FrameSet), NEW h \in Nat, NEW g \in Nat, h <= g, FramesKept(s, h)
    PROVE  FramesKept(s, g)
<1> SUFFICES ASSUME NEW p \in 1 .. Len(s) PROVE Kept(s, p, s[p], g)
  BY DEF FramesKept
<1>1. Len(s) \in Nat /\ p \in Nat /\ s[p] \in FrameSet
  BY LenProperties
<1>2. s[p].since \in Nat /\ s[p].under.since \in Nat
  BY <1>1 DEF FrameSet, Exits, ExitRecords
<1>3. \A n \in Int : n <= Len(s) /\ Younger(s, n, h) => Younger(s, n, g)
  <2> SUFFICES ASSUME NEW n \in Int, n <= Len(s), Younger(s, n, h) PROVE Younger(s, n, g)
    OBVIOUS
  <2>1. \A r \in 1 .. Len(s) : s[r] \in FrameSet
    BY LenProperties
  <2>2. \A r \in 1 .. Len(s) : s[r].since \in Nat
    BY <2>1 DEF FrameSet
  <2>3. \A r \in 1 .. n : r \in 1 .. Len(s)
    BY <1>1
  <2> QED BY <2>2, <2>3 DEF Younger
<1>4. p - 2 \in Int /\ p - 1 \in Int /\ p - 2 <= Len(s) /\ p - 1 <= Len(s)
  BY <1>1
<1>5. Kept(s, p, s[p], h)
  BY DEF FramesKept
<1> QED BY <1>2, <1>3, <1>4, <1>5 DEF Kept

\* What a frame keeps depends on the frames before it.
LEMMA SameKept ==
    ASSUME NEW s, NEW t, NEW p \in Nat \ {0}, \A i \in 1 .. p - 1 : t[i] = s[i],
           NEW f, NEW h, Kept(s, p, f, h)
    PROVE  Kept(t, p, f, h)
<1>1. p > 1 => t[p - 1] = s[p - 1]
  OBVIOUS
<1>2. Younger(s, p - 2, h) => Younger(t, p - 2, h)
  BY DEF Younger
<1>3. Younger(s, p - 1, h) => Younger(t, p - 1, h)
  BY DEF Younger
<1> QED BY <1>1, <1>2, <1>3 DEF Kept

LEMMA KeptFront ==
    ASSUME NEW s \in Seq(FrameSet), s # <<>>, NEW h, FramesKept(s, h)
    PROVE  /\ FramesKept(Front(s), h)
           /\ Kept(Front(s), Len(s), s[Len(s)], h)
<1>1. /\ Len(s) \in Nat \ {0} /\ Len(Front(s)) = Len(s) - 1
      /\ \A i \in 1 .. Len(s) - 1 : Front(s)[i] = s[i]
  BY FrontFacts
<1>2. ASSUME NEW p \in 1 .. Len(s) PROVE Kept(Front(s), p, s[p], h)
  <2>1. p \in Nat \ {0} /\ \A i \in 1 .. p - 1 : Front(s)[i] = s[i]
    BY <1>1
  <2>2. Kept(s, p, s[p], h)
    BY DEF FramesKept
  <2> QED BY <2>1, <2>2, SameKept
<1>3. \A p \in 1 .. Len(Front(s)) : Kept(Front(s), p, Front(s)[p], h)
  BY <1>1, <1>2
<1> QED BY <1>1, <1>2, <1>3 DEF FramesKept

LEMMA KeptAppend ==
    ASSUME NEW s \in Seq(FrameSet), NEW e \in FrameSet, NEW h, FramesKept(s, h),
           Kept(s, Len(s) + 1, e, h)
    PROVE  FramesKept(Append(s, e), h)
<1>1. /\ Len(s) \in Nat /\ Len(Append(s, e)) = Len(s) + 1
      /\ \A i \in 1 .. Len(s) : Append(s, e)[i] = s[i]
      /\ Append(s, e)[Len(s) + 1] = e
  BY AppendFacts
<1>2. ASSUME NEW p \in 1 .. Len(s) + 1 PROVE Kept(Append(s, e), p, Append(s, e)[p], h)
  <2>1. p \in Nat \ {0} /\ \A i \in 1 .. p - 1 : Append(s, e)[i] = s[i]
    BY <1>1
  <2>2. Kept(s, p, Append(s, e)[p], h)
    <3>1. CASE p = Len(s) + 1
      BY <1>1, <3>1
    <3>2. CASE p \in 1 .. Len(s)
      BY <1>1, <3>2 DEF FramesKept
    <3> QED BY <1>1, <3>1, <3>2
  <2> QED BY <2>1, <2>2, SameKept
<1> QED BY <1>1, <1>2 DEF FramesKept

\* Counting them, frame by frame.
LEMMA CountSplit ==
    ASSUME NEW n \in Nat, NEW S \in SUBSET (1 .. n), NEW T \in SUBSET (1 .. n + 1),
           T \ {n + 1} = S
    PROVE  /\ Cardinality(S) \in Nat
           /\ Cardinality(T) = Cardinality(S) + (IF n + 1 \in T THEN 1 ELSE 0)
<1>1. IsFiniteSet(S) /\ Cardinality(S) \in Nat
  <2>1. IsFiniteSet(1 .. n)
    BY FS_Interval
  <2> QED BY <2>1, FS_Subset, FS_CardinalityType
<1>2. CASE n + 1 \in T
  <2>1. T = S \cup {n + 1} /\ n + 1 \notin S
    BY <1>2
  <2> QED BY <1>1, <1>2, <2>1, FS_AddElement
<1>3. CASE n + 1 \notin T
  BY <1>1, <1>3
<1> QED BY <1>1, <1>2, <1>3

LEMMA StoredAppend ==
    ASSUME NEW s \in Seq(FrameSet), NEW e \in FrameSet
    PROVE  /\ Stored(s) \in Nat
           /\ Stored(Append(s, e)) = Stored(s) + Told(e.saved) + Told(e.local)
<1> DEFINE t == Append(s, e)
<1>1. /\ Len(s) \in Nat /\ Len(t) = Len(s) + 1
      /\ \A i \in 1 .. Len(s) : t[i] = s[i]
      /\ t[Len(s) + 1] = e
  BY AppendFacts
<1> HIDE DEF t
<1>2. /\ Cardinality(SavedIn(s)) \in Nat
      /\ Cardinality(SavedIn(t)) = Cardinality(SavedIn(s)) + Told(e.saved)
  <2>1. SavedIn(s) \in SUBSET (1 .. Len(s)) /\ SavedIn(t) \in SUBSET (1 .. Len(s) + 1)
        /\ SavedIn(t) \ {Len(s) + 1} = SavedIn(s) /\ (Len(s) + 1 \in SavedIn(t) <=> e.saved = "t")
    BY <1>1 DEF SavedIn
  <2> QED BY <1>1, <2>1, CountSplit DEF Told
<1>3. /\ Cardinality(LocalIn(s)) \in Nat
      /\ Cardinality(LocalIn(t)) = Cardinality(LocalIn(s)) + Told(e.local)
  <2>1. LocalIn(s) \in SUBSET (1 .. Len(s)) /\ LocalIn(t) \in SUBSET (1 .. Len(s) + 1)
        /\ LocalIn(t) \ {Len(s) + 1} = LocalIn(s) /\ (Len(s) + 1 \in LocalIn(t) <=> e.local = "t")
    BY <1>1 DEF LocalIn
  <2> QED BY <1>1, <2>1, CountSplit DEF Told
<1>4. Told(e.saved) \in Nat /\ Told(e.local) \in Nat
  BY DEF Told
<1>5. Stored(t) = Stored(s) + Told(e.saved) + Told(e.local) /\ Stored(s) \in Nat
  BY <1>2, <1>3, <1>4 DEF Stored
<1> QED BY <1>5 DEF t

LEMMA StoredType ==
    ASSUME NEW s \in Seq(FrameSet)
    PROVE  Stored(s) \in Nat
<1>1. Len(s) \in Nat /\ IsFiniteSet(1 .. Len(s))
  BY LenProperties, FS_Interval
<1>2. SavedIn(s) \subseteq 1 .. Len(s) /\ LocalIn(s) \subseteq 1 .. Len(s)
  BY DEF SavedIn, LocalIn
<1>3. Cardinality(SavedIn(s)) \in Nat /\ Cardinality(LocalIn(s)) \in Nat
  BY <1>1, <1>2, FS_Subset, FS_CardinalityType
<1> QED BY <1>3 DEF Stored

LEMMA StoredFront ==
    ASSUME NEW s \in Seq(FrameSet), s # <<>>
    PROVE  /\ Stored(Front(s)) \in Nat
           /\ Stored(s) = Stored(Front(s)) + Told(s[Len(s)].saved) + Told(s[Len(s)].local)
<1>1. Front(s) \in Seq(FrameSet) /\ s[Len(s)] \in FrameSet
  BY FrontFacts
<1>2. s = Append(Front(s), s[Len(s)])
  BY AppendProperties, FrontFacts, SeqEqual
<1> QED BY <1>1, <1>2, StoredAppend

\* What a register that is put back is kept by.
PlaceOf(s, r, h) ==
    r # "none" => /\ s # <<>> /\ Waits(s[Len(s)])
                  /\ r = "t" => s[Len(s)].carried /\ Younger(s, Len(s) - 1, h)

LEMMA ToldFacts ==
    /\ \A cell : Told(cell) \in Nat /\ (Told(cell) = IF cell = "t" THEN 1 ELSE 0)
    /\ \A saved \in Registers, current \in Cells :
         /\ Restored(saved, current) \in Cells
         /\ Restored(saved, current) = "t" <=> saved = "t" \/ current = "t"
<1>1. \A cell : Told(cell) \in Nat /\ (Told(cell) = IF cell = "t" THEN 1 ELSE 0)
  BY DEF Told
<1>2. \A saved \in Registers, current \in Cells :
         /\ Restored(saved, current) \in Cells
         /\ Restored(saved, current) = "t" <=> saved = "t" \/ current = "t"
  BY DEF Restored, Cells, Registers
<1> QED BY <1>1, <1>2

LEMMA NewPlace ==
    ASSUME NEW s, NEW o, NEW f, NEW r, NEW h \in Nat,
           PlaceOf(s, r, h), f = "t" => Younger(s, Len(s), h), r # "none" => o = NoOffer
    PROVE  Places(s, NoExit, o, f, r, h)
<1>1. NoExit.since <= h
  BY NoneTypes
<1> QED BY <1>1 DEF Places, PlaceOf

\* What is left when the innermost frame is gone.
LEMMA Popped ==
    ASSUME Types, RInv, stack # <<>>
    PROVE  /\ Below \in Seq(FrameSet) /\ Len(Below) \in Nat /\ Len(stack) = Len(Below) + 1
           /\ Top \in FrameSet /\ heard \in Nat /\ quits \in Nat
           /\ FramesKept(Below, heard) /\ Kept(Below, Len(stack), Top, heard)
           /\ Stored(Below) \in Nat
           /\ Stored(stack) = Stored(Below) + Told(Top.saved) + Told(Top.local)
           /\ PlaceOf(Below, Top.saved, heard)
           /\ flag = "t" \/ register = "t" \/ Top.local = "t" => Younger(Below, Len(Below), heard)
<1>1. /\ stack \in Seq(FrameSet) /\ Below \in Seq(FrameSet)
      /\ Len(stack) \in Nat \ {0} /\ Len(Below) = Len(stack) - 1
      /\ \A i \in 1 .. Len(stack) - 1 : Below[i] = stack[i]
  BY FrontFacts DEF Types, Below
<1>2. Top \in FrameSet /\ heard \in Nat /\ quits \in Nat
  BY CellFacts DEF Types
<1>3. FramesKept(Below, heard) /\ Kept(Below, Len(stack), Top, heard)
  BY <1>1, KeptFront DEF RInv, Below, Top
<1>4. /\ Stored(Below) \in Nat
      /\ Stored(stack) = Stored(Below) + Told(Top.saved) + Told(Top.local)
  BY <1>1, StoredFront DEF Below, Top
<1>5. PlaceOf(Below, Top.saved, heard)
  <2>1. Top.saved # "none" => Below # <<>>
    <3>1. Top.saved # "none" => Len(Below) # 0
      BY <1>1, <1>3 DEF Kept
    <3> QED BY <3>1, EmptySeq
  <2>2. Len(Below) = Len(stack) - 1 /\ Len(Below) - 1 = Len(stack) - 2
    BY <1>1
  <2> QED BY <1>3, <2>1, <2>2 DEF Kept, PlaceOf
<1>6. ASSUME flag = "t" \/ register = "t" \/ Top.local = "t"
      PROVE  Younger(Below, Len(Below), heard)
  <2>1. CASE Top.local = "t"
    BY <1>1, <1>3, <2>1 DEF Kept
  <2>2. CASE flag = "t" \/ register = "t"
    <3>1. Younger(stack, Len(stack), heard) \/ Younger(stack, Len(stack) - 1, heard)
      BY <2>2 DEF RInv, Places
    <3>2. \A r \in 1 .. Len(Below) : r \in 1 .. Len(stack) - 1 /\ r \in 1 .. Len(stack)
      BY <1>1
    <3> QED BY <1>1, <3>1, <3>2 DEF Younger
  <2> QED BY <1>6, <2>1, <2>2
<1> QED BY <1>1, <1>2, <1>3, <1>4, <1>5, <1>6

\* A form or an observer returns its value, or takes the exit for it.
LEMMA ReturnKeeps ==
    ASSUME Types, RInv, FormReturns \/ Caught \/ ObserverReturns
    PROVE  RInv'
<1>1. /\ stack # <<>> /\ stack' = Below /\ exit' = NoExit
      /\ register' = Top.saved /\ flag' = Restored(register, flag)
      /\ UNCHANGED <<heard, quits, owed, replaced>>
      /\ Top.kind # "cleanup" /\ (offer' = NoOffer \/ Top.kind = "observer")
  BY DEF FormReturns, Caught, ObserverReturns, Returns, Unwinds, Ends, EvalReturns, Untouched,
         history
<1>2. /\ Below \in Seq(FrameSet) /\ Len(Below) \in Nat /\ Len(stack) = Len(Below) + 1
      /\ Top \in FrameSet /\ heard \in Nat /\ quits \in Nat
      /\ FramesKept(Below, heard) /\ Kept(Below, Len(stack), Top, heard)
      /\ Stored(Below) \in Nat
      /\ Stored(stack) = Stored(Below) + Told(Top.saved) + Told(Top.local)
      /\ PlaceOf(Below, Top.saved, heard)
      /\ flag = "t" \/ register = "t" \/ Top.local = "t" => Younger(Below, Len(Below), heard)
  BY <1>1, Popped
<1>3. Top.local = "none" /\ (Top.kind = "observer" => Top.saved = "none")
  BY <1>1, <1>2 DEF Kept
<1>4. flag \in Cells /\ register \in Registers
  BY DEF Types
<1> DEFINE f == Restored(register, flag)
<1>5. f \in Cells /\ (f = "t" <=> register = "t" \/ flag = "t")
  BY <1>4, ToldFacts
<1> HIDE DEF f
<1>6. Places(Below, NoExit, offer', f, Top.saved, heard)
  BY <1>1, <1>2, <1>3, <1>5, NewPlace
<1>7. /\ Told(flag) \in Nat /\ Told(register) \in Nat /\ Told(f) \in Nat
      /\ Told(Top.saved) \in Nat
      /\ Told(f) <= Told(flag) + Told(register)
      /\ Told(flag) + Told(register) > 0 => Told(f) > 0
      /\ Stored(stack) = Stored(Below) + Told(Top.saved)
  <2>1. Told(Top.local) = 0 /\ Told(Top.saved) \in Nat
    BY <1>3, ToldFacts
  <2>2. Stored(stack) = Stored(Below) + Told(Top.saved)
    BY <1>2, <2>1
  <2> QED BY <1>5, <2>1, <2>2, ToldFacts
<1>8. Balanced(Below, f, Top.saved, quits, heard)
  <2>1. quits + Told(flag) + Told(register) + Stored(stack) <= heard
    BY DEF RInv, Balanced
  <2> QED BY <1>2, <1>7, <2>1 DEF Balanced
<1>9. Carried(stack, exit, flag, register) => Carried(Below, NoExit, f, Top.saved)
  <2>1. Carried(stack, exit, flag, register) => Told(flag) + Told(register) + Stored(stack) > 0
    BY <1>1 DEF Carried, Top
  <2>2. Told(flag) + Told(register) + Stored(stack) > 0
           => Told(f) + Told(Top.saved) + Stored(Below) > 0
    BY <1>2, <1>7
  <2> QED BY <2>1, <2>2 DEF Carried
<1> QED BY <1>1, <1>2, <1>6, <1>8, <1>9 DEF RInv, Owing, f

\* A form or an observer passes the exit on, and so does a handler's body.
LEMMA PassKeeps ==
    ASSUME Types, RInv, FormUnwinds \/ BodyUnwinds \/ ObserverUnwinds
    PROVE  RInv'
<1>1. /\ stack # <<>> /\ stack' = Below /\ exit # NoExit /\ offer' = NoOffer
      /\ UNCHANGED <<heard, quits, owed, replaced>>
      /\ Top.kind # "cleanup" /\ (RebaseQuitUnwind \/ UNCHANGED <<register, flag, exit>>)
  BY DEF FormUnwinds, BodyUnwinds, ObserverUnwinds, Unwinds, Ends, Untouched, history
<1>2. /\ Below \in Seq(FrameSet) /\ Len(Below) \in Nat /\ Len(stack) = Len(Below) + 1
      /\ Top \in FrameSet /\ heard \in Nat /\ quits \in Nat
      /\ FramesKept(Below, heard) /\ Kept(Below, Len(stack), Top, heard)
      /\ Stored(Below) \in Nat
      /\ Stored(stack) = Stored(Below) + Told(Top.saved) + Told(Top.local)
      /\ PlaceOf(Below, Top.saved, heard)
      /\ flag = "t" \/ register = "t" \/ Top.local = "t" => Younger(Below, Len(Below), heard)
  BY <1>1, Popped
<1>3. Top.local = "none"
  BY <1>1, <1>2 DEF Kept
<1>4. flag \in Cells /\ register \in Registers
  BY DEF Types
<1>5. /\ exit' # NoExit /\ Told(flag') + Told(register') <= Told(flag) + Told(register)
      /\ flag' = "t" \/ register' = "t" <=> flag = "t" \/ register = "t"
      /\ Places(Below, exit', NoOffer, flag', register', heard)
  <2>1. CASE UNCHANGED <<register, flag, exit>>
    <3>1. Places(stack, exit, offer, flag, register, heard)
      BY DEF RInv
    <3>2. Places(Below, exit, NoOffer, flag, register, heard)
      BY <1>1, <1>2, <3>1 DEF Places
    <3>3. Told(flag) + Told(register) <= Told(flag) + Told(register)
      BY ToldFacts
    <3> QED BY <1>1, <2>1, <3>2, <3>3
  <2>2. CASE RebaseQuitUnwind /\ register # "none"
    <3> DEFINE r == Restored(register, flag)
    <3>1. flag' = "nil" /\ register' = r /\ exit' = [exit EXCEPT !.since = heard]
      BY <2>2 DEF RebaseQuitUnwind, BeginQuitUnwind
    <3>2. r \in Cells /\ (r = "t" <=> register = "t" \/ flag = "t")
      BY <1>4, ToldFacts
    <3> HIDE DEF r
    <3>3. exit' # NoExit /\ exit'.since = heard
      <4>1. exit' # NoExit
        BY <1>1, <2>2, RebaseFacts
      <4> QED BY <3>1, <4>1 DEF Types, Exits, ExitRecords
    <3>4. Places(Below, exit', NoOffer, "nil", r, heard)
      BY <1>2, <3>2, <3>3 DEF Places
    <3>5. Told("nil") + Told(r) <= Told(flag) + Told(register)
      BY <3>2, ToldFacts
    <3> QED BY <3>1, <3>2, <3>3, <3>4, <3>5
  <2> QED BY <1>1, <2>1, <2>2 DEF RebaseQuitUnwind
<1>6. Balanced(Below, flag', register', quits, heard)
  <2>1. Balanced(stack, flag, register, quits, heard)
    BY DEF RInv
  <2>2. PICK n \in Nat : n = Told(flag') + Told(register')
    BY ToldFacts
  <2>3. n <= Told(flag) + Told(register)
    BY <1>5, <2>2
  <2>4. quits + n + Stored(Below) <= heard
    BY <1>2, <2>1, <2>3, ToldFacts DEF Balanced
  <2>5. quits + Told(flag') + Told(register') = quits + n
    BY <1>2, <2>2, ToldFacts
  <2> QED BY <2>4, <2>5 DEF Balanced
<1>7. Carried(stack, exit, flag, register) => Carried(Below, exit', flag', register')
  <2>1. CASE Top.saved = "t"
    BY <1>2, <1>5, <2>1 DEF Carried, PlaceOf, Waits
  <2>2. CASE flag' = "t" \/ register' = "t"
    <3>1. Told(flag') + Told(register') + Stored(Below) > 0
      BY <1>2, <2>2, ToldFacts
    <3> QED BY <3>1 DEF Carried
  <2>3. CASE Top.saved # "t" /\ flag # "t" /\ register # "t"
    <3>1. Told(Top.saved) = 0 /\ Told(Top.local) = 0 /\ Told(flag) = 0 /\ Told(register) = 0
      BY <1>3, <2>3, ToldFacts
    <3>2. Stored(stack) = Stored(Below)
      BY <1>2, <3>1
    <3>3. Told(flag) + Told(register) + Stored(stack) > 0 => Stored(Below) > 0
      BY <1>2, <3>1, <3>2
    <3>4. Told(flag') = 0 /\ Told(register') = 0
      BY <1>5, <2>3, ToldFacts
    <3>5. Stored(Below) > 0 => Told(flag') + Told(register') + Stored(Below) > 0
      BY <1>2, <3>4
    <3> QED BY <1>1, <3>3, <3>5 DEF Carried, Top
  <2> QED BY <1>5, <2>1, <2>2, <2>3
<1> QED BY <1>1, <1>2, <1>5, <1>6, <1>7 DEF RInv, Owing

LEMMA YoungerAppend ==
    ASSUME NEW s \in Seq(FrameSet), NEW e \in FrameSet, NEW h \in Nat, Younger(s, Len(s), h)
    PROVE  /\ Younger(Append(s, e), Len(s), h)
           /\ (e.kind = "cleanup" => h > e.since) => Younger(Append(s, e), Len(s) + 1, h)
<1>1. /\ Len(s) \in Nat /\ Append(s, e)[Len(s) + 1] = e
      /\ \A i \in 1 .. Len(s) : Append(s, e)[i] = s[i]
  BY AppendFacts
<1>2. \A i \in 1 .. Len(s) + 1 : i \in 1 .. Len(s) \/ i = Len(s) + 1
  BY <1>1
<1> QED BY <1>1, <1>2 DEF Younger

\* sf_condition_case has its clause: its frame becomes the body's.
LEMMA HandleKeeps ==
    ASSUME Types, RInv, Handled
    PROVE  RInv'
<1> DEFINE e == Form("handler", Top.saved)
           s == Append(Below, e)
           f == Restored(register, flag)
<1>1. /\ stack # <<>> /\ stack' = s /\ exit' = NoExit
      /\ register' = "none" /\ flag' = f
      /\ UNCHANGED <<heard, quits, owed, replaced>>
      /\ Top.kind = "case" /\ offer' = NoOffer
  BY DEF Handled, Unwinds, Ends, Untouched, history
<1>2. /\ Below \in Seq(FrameSet) /\ Len(Below) \in Nat /\ Len(stack) = Len(Below) + 1
      /\ Top \in FrameSet /\ heard \in Nat /\ quits \in Nat
      /\ FramesKept(Below, heard) /\ Kept(Below, Len(stack), Top, heard)
      /\ Stored(Below) \in Nat
      /\ Stored(stack) = Stored(Below) + Told(Top.saved) + Told(Top.local)
      /\ flag = "t" \/ register = "t" \/ Top.local = "t" => Younger(Below, Len(Below), heard)
  BY <1>1, Popped
<1>3. Top.local = "none" /\ Top.saved \in Registers
  BY <1>1, <1>2 DEF Kept, FrameSet
<1>4. /\ e \in FrameSet /\ e.kind = "handler" /\ e.saved = Top.saved /\ e.local = "none"
      /\ e.under = NoExit /\ e.since = 0
  BY <1>3, FormType DEF Kinds
<1>5. flag \in Cells /\ register \in Registers
  BY DEF Types
<1>6. f \in Cells /\ (f = "t" <=> register = "t" \/ flag = "t")
  BY <1>5, ToldFacts
<1> HIDE DEF e, f
<1>7. FramesKept(s, heard)
  <2>1. 0 <= heard /\ NoExit.since = 0
    BY <1>2, NoneTypes
  <2>2. Kept(Below, Len(Below) + 1, e, heard)
    BY <1>2, <1>4, <2>1 DEF Kept
  <2> QED BY <1>2, <1>4, <2>2, KeptAppend
<1>8. /\ Len(s) = Len(Below) + 1
      /\ Stored(s) = Stored(Below) + Told(Top.saved) /\ Stored(stack) = Stored(Below) + Told(Top.saved)
  <2>1. Told(e.local) = 0 /\ Told(Top.local) = 0 /\ Told(Top.saved) \in Nat
    BY <1>3, <1>4, ToldFacts
  <2>2. Len(s) = Len(Below) + 1 /\ Stored(s) = Stored(Below) + Told(e.saved) + Told(e.local)
    BY <1>2, <1>4, AppendFacts, StoredAppend
  <2> QED BY <1>2, <1>4, <2>1, <2>2
<1>9. Places(s, NoExit, NoOffer, f, "none", heard)
  <2>1. f = "t" => Younger(s, Len(s), heard)
    BY <1>2, <1>4, <1>6, <1>8, YoungerAppend
  <2>2. PlaceOf(s, "none", heard)
    BY DEF PlaceOf
  <2> QED BY <1>2, <2>1, <2>2, NewPlace
<1>10. /\ Told(flag) \in Nat /\ Told(register) \in Nat /\ Told(f) \in Nat
       /\ Told("none") = 0 /\ Told(Top.saved) \in Nat
       /\ Told(f) <= Told(flag) + Told(register)
       /\ Told(flag) + Told(register) > 0 => Told(f) > 0
  BY <1>6, ToldFacts
<1>11. Balanced(s, f, "none", quits, heard)
  <2>1. quits + Told(flag) + Told(register) + Stored(stack) <= heard
    BY DEF RInv, Balanced
  <2> QED BY <1>2, <1>8, <1>10, <2>1 DEF Balanced
<1>12. Carried(stack, exit, flag, register) => Carried(s, NoExit, f, "none")
  <2>1. Carried(stack, exit, flag, register) => Told(flag) + Told(register) + Stored(stack) > 0
    BY <1>1 DEF Carried, Top
  <2>2. Told(flag) + Told(register) + Stored(stack) > 0 => Told(f) + Told("none") + Stored(s) > 0
    BY <1>2, <1>8, <1>10
  <2> QED BY <2>1, <2>2 DEF Carried
<1> HIDE DEF s
<1> QED BY <1>1, <1>7, <1>9, <1>11, <1>12 DEF RInv, Owing

\* with_quit_preserved: what an exit has saved is left where it is, and what
\* waits in quit-flag is set aside.
LEMMA StartKeeps ==
    ASSUME Types, RInv, StartCleanup
    PROVE  RInv'
<1> DEFINE e == CleanupFrame
           s == Append(Below, e)
           f == IF register # "none" THEN flag ELSE "nil"
<1>1. /\ stack # <<>> /\ stack' = s /\ exit' = NoExit
      /\ register' = register /\ flag' = f
      /\ UNCHANGED <<heard, quits, owed, replaced>>
      /\ Top.kind = "protect" /\ offer' = NoOffer
  BY DEF StartCleanup, CleanupFrame, CleanupOfExit, CleanupWithFlag, Ends, Untouched, history
<1>2. /\ Below \in Seq(FrameSet) /\ Len(Below) \in Nat /\ Len(stack) = Len(Below) + 1
      /\ Top \in FrameSet /\ heard \in Nat /\ quits \in Nat
      /\ FramesKept(Below, heard) /\ Kept(Below, Len(stack), Top, heard)
      /\ Stored(Below) \in Nat
      /\ Stored(stack) = Stored(Below) + Told(Top.saved) + Told(Top.local)
      /\ flag = "t" \/ register = "t" \/ Top.local = "t" => Younger(Below, Len(Below), heard)
  BY <1>1, Popped
<1>3. Top.local = "none" /\ Top.saved \in Registers
  BY <1>1, <1>2 DEF Kept, FrameSet
<1>4. /\ e \in FrameSet /\ e.kind = "cleanup" /\ e.saved = Top.saved /\ e.under = exit
      /\ register # "none" => /\ e.local = "none" /\ e.since = exit.since
                              /\ e.carried = (register = "t")
      /\ register = "none" => /\ e.local = flag /\ e.since = heard
                              /\ e.carried = (flag = "t")
  BY <1>1, <1>3, CleanupFrameType
<1> HIDE DEF e
<1>5. register # "none" => exit # NoExit
  BY <1>1 DEF RInv, Places, Waits, Top
<1>6. exit.since <= heard /\ heard <= heard
  BY <1>2 DEF RInv, Places
<1>7. FramesKept(s, heard)
  <2>1. e.since <= heard /\ e.under.since <= heard
    BY <1>4, <1>6
  <2>2. e.local = "t" => e.carried /\ Younger(Below, Len(Below), heard)
    BY <1>2, <1>4
  <2>3. Kept(Below, Len(Below) + 1, e, heard)
    <3>1. (Len(Below) + 1) - 1 = Len(Below)
      BY <1>2
    <3> QED BY <1>2, <1>4, <2>1, <2>2, <3>1 DEF Kept
  <2> QED BY <1>2, <1>4, <2>3, KeptAppend
<1>8. /\ Len(s) = Len(Below) + 1 /\ s # <<>> /\ s[Len(s)] = e
      /\ Stored(s) = Stored(Below) + Told(Top.saved) + Told(e.local)
  BY <1>2, <1>4, AppendFacts, StoredAppend
<1>9. Places(s, NoExit, NoOffer, f, register, heard)
  <2>1. CASE register = "none"
    <3>1. PlaceOf(s, "none", heard) /\ f = "nil"
      BY <2>1 DEF PlaceOf
    <3> QED BY <1>2, <2>1, <3>1, NewPlace
  <2>2. CASE register # "none"
    <3>1. Waits(e)
      BY <1>4, <1>5, <2>2 DEF Waits
    <3>2. register = "t" => e.carried /\ Younger(s, Len(s) - 1, heard)
      <4>1. Len(s) - 1 = Len(Below)
        BY <1>2, <1>8
      <4> QED BY <1>2, <1>4, <2>2, <4>1, YoungerAppend
    <3>3. f = "t" => Younger(s, Len(s), heard)
      <4>1. f = "t" => heard > exit.since
        BY <1>5, <2>2 DEF RInv, Places
      <4> QED BY <1>2, <1>4, <1>8, <2>2, <4>1, YoungerAppend
    <3>4. PlaceOf(s, register, heard)
      BY <1>8, <3>1, <3>2 DEF PlaceOf
    <3> QED BY <1>2, <3>3, <3>4, NewPlace
  <2> QED BY <2>1, <2>2
<1>10. /\ Told(flag) \in Nat /\ Told(register) \in Nat /\ Told(f) \in Nat
       /\ Told(e.local) \in Nat /\ Told(Top.saved) \in Nat
       /\ Told(f) + Told(e.local) = Told(flag)
       /\ Stored(stack) = Stored(Below) + Told(Top.saved)
  <2>1. Told("nil") = 0 /\ Told("none") = 0 /\ Told(flag) \in Nat /\ Told(Top.saved) \in Nat
    BY ToldFacts
  <2>2. Told(f) + Told(e.local) = Told(flag)
    BY <1>4, <2>1
  <2>3. Stored(stack) = Stored(Below) + Told(Top.saved)
    BY <1>2, <1>3, <2>1
  <2> QED BY <2>1, <2>2, <2>3, ToldFacts
<1> HIDE DEF f, s
<1>11. Balanced(s, f, register, quits, heard)
  <2>1. quits + Told(flag) + Told(register) + Stored(stack) <= heard
    BY DEF RInv, Balanced
  <2> QED BY <1>2, <1>8, <1>10, <2>1 DEF Balanced
<1>12. Carried(stack, exit, flag, register) => Carried(s, NoExit, f, register)
  <2>1. Carried(stack, exit, flag, register) => Told(flag) + Told(register) + Stored(stack) > 0
    BY <1>1 DEF Carried, Top
  <2>2. Told(flag) + Told(register) + Stored(stack) > 0
          => Told(f) + Told(register) + Stored(s) > 0
    BY <1>2, <1>8, <1>10
  <2> QED BY <2>1, <2>2 DEF Carried
<1> QED BY <1>1, <1>7, <1>9, <1>11, <1>12 DEF RInv, Owing

\* The cleanup is done: what it set aside is put back, and so is the exit.
LEMMA CleanupReturnKeeps ==
    ASSUME Types, RInv, CleanupReturns
    PROVE  RInv'
<1> DEFINE c == Restored(Top.local, flag)
<1>1. /\ stack # <<>> /\ stack' = Below /\ exit = NoExit /\ exit' = Top.under
      /\ Top.under = NoExit => register' = Top.saved /\ flag' = Restored(register, c)
      /\ Top.under # NoExit => register' = register /\ flag' = c
      /\ UNCHANGED <<heard, quits, owed, replaced>>
      /\ Top.kind = "cleanup" /\ offer' = NoOffer
  BY DEF CleanupReturns, Returns, Ends, Untouched, history
<1>2. /\ Below \in Seq(FrameSet) /\ Len(Below) \in Nat /\ Len(stack) = Len(Below) + 1
      /\ Top \in FrameSet /\ heard \in Nat /\ quits \in Nat
      /\ FramesKept(Below, heard) /\ Kept(Below, Len(stack), Top, heard)
      /\ Stored(Below) \in Nat
      /\ Stored(stack) = Stored(Below) + Told(Top.saved) + Told(Top.local)
      /\ PlaceOf(Below, Top.saved, heard)
      /\ flag = "t" \/ register = "t" \/ Top.local = "t" => Younger(Below, Len(Below), heard)
  BY <1>1, Popped
<1>3. Top.local \in Registers /\ Top.saved \in Registers /\ Top.under.since <= heard
  BY <1>2 DEF Kept, FrameSet
<1>4. flag \in Cells /\ register \in Registers
  BY DEF Types
<1>5. c \in Cells /\ (c = "t" <=> Top.local = "t" \/ flag = "t")
  BY <1>3, <1>4, ToldFacts
<1>6. register # "none" => Waits(Top) /\ (register = "t" => Younger(Below, Len(Below), heard))
  BY <1>1, <1>2 DEF RInv, Places, Top
<1>7. /\ Told(flag) \in Nat /\ Told(register) \in Nat /\ Told(c) \in Nat
      /\ Told(Top.saved) \in Nat /\ Told(Top.local) \in Nat
      /\ Told(c) <= Told(flag) + Told(Top.local)
      /\ Told(flag) + Told(Top.local) > 0 => Told(c) > 0
  BY <1>5, ToldFacts
<1>8. quits + Told(flag) + Told(register) + Stored(stack) <= heard
  BY DEF RInv, Balanced
<1>9. Carried(stack, exit, flag, register) => Told(flag) + Told(register) + Stored(stack) > 0
  BY <1>1 DEF Carried
<1> HIDE DEF c
<1>10. CASE Top.under = NoExit
  <2>1. register = "none" /\ Told(register) = 0
    BY <1>6, <1>10, ToldFacts DEF Waits
  <2>2. flag' = c /\ register' = Top.saved
    BY <1>1, <1>10, <2>1 DEF Restored
  <2>3. Places(Below, NoExit, NoOffer, c, Top.saved, heard)
    BY <1>2, <1>5, NewPlace
  <2>4. Balanced(Below, c, Top.saved, quits, heard)
    BY <1>2, <1>7, <1>8, <2>1 DEF Balanced
  <2>5. Carried(stack, exit, flag, register) => Carried(Below, NoExit, c, Top.saved)
    <3>1. Told(flag) + Told(register) + Stored(stack) > 0
            => Told(c) + Told(Top.saved) + Stored(Below) > 0
      BY <1>2, <1>7, <2>1
    <3> QED BY <1>9, <3>1 DEF Carried
  <2> QED BY <1>1, <1>2, <1>10, <2>2, <2>3, <2>4, <2>5 DEF RInv, Owing
<1>11. CASE Top.under # NoExit
  <2>1. register' = register /\ flag' = c
    BY <1>1, <1>11
  <2>2. Places(Below, Top.under, NoOffer, c, register, heard)
    <3>1. register # "none" /\ c = "t" => heard > Top.under.since
      <4>1. register # "none" /\ c = "t" => Waits(Top) /\ flag = "t"
        BY <1>5, <1>6 DEF Waits
      <4>2. flag = "t" => heard > Top.since
        <5>1. Len(stack) \in 1 .. Len(stack)
          BY <1>2
        <5> QED BY <1>1, <5>1 DEF RInv, Places, Younger, Top
      <4> QED BY <4>1, <4>2 DEF Waits
    <3>2. c = "t" \/ register = "t" => Younger(Below, Len(Below), heard)
      BY <1>2, <1>5
    <3> QED BY <1>3, <1>11, <3>1, <3>2 DEF Places
  <2>3. Balanced(Below, c, register, quits, heard)
    BY <1>2, <1>7, <1>8 DEF Balanced
  <2>4. Carried(stack, exit, flag, register) => Carried(Below, Top.under, c, register)
    <3>1. CASE Top.saved = "t"
      BY <1>2, <1>11, <3>1 DEF Carried, PlaceOf, Waits
    <3>2. CASE Top.saved # "t"
      <4>1. Told(Top.saved) = 0
        BY <3>2, ToldFacts
      <4>2. Told(flag) + Told(register) + Stored(stack) > 0
              => Told(c) + Told(register) + Stored(Below) > 0
        BY <1>2, <1>7, <4>1
      <4> QED BY <1>9, <4>2 DEF Carried
    <3> QED BY <3>1, <3>2
  <2> QED BY <1>1, <1>2, <1>11, <2>1, <2>2, <2>3, <2>4 DEF RInv, Owing
<1> QED BY <1>10, <1>11

\* The exit of a cleanup goes on in the place of the one it ran under.
LEMMA CleanupExitKeeps ==
    ASSUME Types, RInv, CleanupUnwinds
    PROVE  RInv'
<1>1. /\ stack # <<>> /\ stack' = Below /\ exit # NoExit /\ exit' = exit
      /\ register' = register /\ flag' = flag
      /\ UNCHANGED <<heard, quits, owed>>
      /\ replaced' = (replaced \/ (owed /\ Top.carried))
      /\ Top.kind = "cleanup" /\ offer' = NoOffer
  BY DEF CleanupUnwinds, Unwinds, Ends
<1>2. /\ Below \in Seq(FrameSet) /\ Len(Below) \in Nat /\ Len(stack) = Len(Below) + 1
      /\ Top \in FrameSet /\ heard \in Nat /\ quits \in Nat
      /\ FramesKept(Below, heard) /\ Kept(Below, Len(stack), Top, heard)
      /\ Stored(Below) \in Nat
      /\ Stored(stack) = Stored(Below) + Told(Top.saved) + Told(Top.local)
      /\ PlaceOf(Below, Top.saved, heard)
      /\ flag = "t" \/ register = "t" \/ Top.local = "t" => Younger(Below, Len(Below), heard)
  BY <1>1, Popped
<1>3. Places(Below, exit, NoOffer, flag, register, heard)
  BY <1>1, <1>2 DEF RInv, Places
<1>4. /\ Told(flag) \in Nat /\ Told(register) \in Nat
      /\ Told(Top.saved) \in Nat /\ Told(Top.local) \in Nat
  BY ToldFacts
<1>5. Balanced(Below, flag, register, quits, heard)
  <2>1. quits + Told(flag) + Told(register) + Stored(stack) <= heard
    BY DEF RInv, Balanced
  <2> QED BY <1>2, <1>4, <2>1 DEF Balanced
<1>6. ASSUME owed', ~replaced' PROVE Carried(Below, exit, flag, register)
  <2>1. owed /\ ~replaced /\ ~Top.carried
    BY <1>1, <1>6
  <2>2. Told(flag) + Told(register) + Stored(stack) > 0
    BY <2>1 DEF RInv, Owing, Carried, Top
  <2>3. Told(Top.local) = 0
    BY <1>2, <2>1, ToldFacts DEF Kept
  <2>4. CASE Top.saved = "t"
    BY <1>1, <1>2, <2>4 DEF Carried, PlaceOf, Waits
  <2>5. CASE Top.saved # "t"
    <3>1. Told(Top.saved) = 0
      BY <2>5, ToldFacts
    <3>2. Told(flag) + Told(register) + Stored(Below) > 0
      BY <1>2, <1>4, <2>2, <2>3, <3>1
    <3> QED BY <3>2 DEF Carried
  <2> QED BY <2>4, <2>5
<1> QED BY <1>1, <1>2, <1>3, <1>5, <1>6 DEF RInv, Owing

\* A condition-case or nobody takes the signal, or an observer is called.
LEMMA OfferKeeps ==
    ASSUME Types, Scopes, RInv, Offers
    PROVE  RInv'
<1>1. /\ offer # NoOffer /\ exit = NoExit /\ register = "none"
      /\ UNCHANGED <<heard, quits, owed, replaced>>
      /\ stack \in Seq(FrameSet) /\ heard \in Nat /\ quits \in Nat
      /\ offer.cond \in Conditions /\ flag \in Cells /\ Stored(stack) \in Nat
  <2>1. /\ offer # NoOffer /\ UNCHANGED <<heard, quits, owed, replaced>>
    BY DEF Offers, SelectCase, Unhandled, Observe, history
  <2>2. stack \in Seq(FrameSet) /\ Stored(stack) \in Nat
    BY StoredType DEF Types
  <2> QED BY <2>1, <2>2 DEF Types, Offered, OfferRecords, RInv, Places
<1>2. FramesKept(stack, heard) /\ (flag = "t" => Younger(stack, Len(stack), heard))
      /\ heard <= heard
  BY <1>1 DEF RInv, Places
<1>3. Told("none") = 0 /\ Told("nil") = 0 /\ Told(flag) \in Nat
  BY ToldFacts
<1>4. quits + Told(flag) + Stored(stack) <= heard
  BY <1>1, <1>3 DEF RInv, Balanced
<1>5. owed /\ ~replaced => Told(flag) + Stored(stack) > 0
  BY <1>1, <1>3 DEF RInv, Owing, Carried
<1>6. CASE SelectCase
  <2>1. /\ stack' = stack /\ register' = flag /\ flag' = "nil" /\ offer' = NoOffer
        /\ exit'.type = offer.cond /\ exit'.since = heard
    BY <1>6 DEF SelectCase, BeginQuitUnwind, control
  <2>2. exit' # NoExit
    BY <1>1, <2>1, NoneTypes DEF Conditions
  <2>3. Places(stack, exit', NoOffer, "nil", flag, heard)
    BY <1>2, <2>1, <2>2 DEF Places
  <2>4. Balanced(stack, "nil", flag, quits, heard)
    BY <1>1, <1>3, <1>4 DEF Balanced
  <2>5. owed /\ ~replaced => Carried(stack, exit', "nil", flag)
    BY <1>1, <1>3, <1>5 DEF Carried
  <2> QED BY <1>1, <1>2, <2>1, <2>3, <2>4, <2>5 DEF RInv, Owing
<1>7. CASE Unhandled
  <2>1. /\ stack' = stack /\ register' = "none" /\ flag' = flag /\ offer' = NoOffer
        /\ exit' = [NoExit EXCEPT !.type = offer.cond, !.since = heard]
    BY <1>1, <1>7 DEF Unhandled, control
  <2>2. exit'.type = offer.cond /\ exit'.since = heard
    BY <2>1 DEF NoExit
  <2>3. exit' # NoExit
    BY <1>1, <2>2, NoneTypes DEF Conditions
  <2>4. Places(stack, exit', NoOffer, flag, "none", heard)
    BY <1>2, <2>2, <2>3 DEF Places
  <2>5. Balanced(stack, flag, "none", quits, heard)
    BY <1>1, <1>3, <1>4 DEF Balanced
  <2>6. owed /\ ~replaced => Carried(stack, exit', flag, "none")
    BY <1>1, <1>3, <1>5 DEF Carried
  <2> QED BY <1>1, <1>2, <2>1, <2>4, <2>5, <2>6 DEF RInv, Owing
<1>8. CASE Observe
  <2> DEFINE e == Observer(MatchingBind)
             s == Append(stack, e)
  <2>1. /\ stack' = s /\ register' = "none" /\ flag' = flag /\ exit' = NoExit
        /\ offer' = NoOffer
    BY <1>1, <1>8 DEF Observe
  <2>2. /\ MatchingBind \in DOMAIN binds /\ binds[MatchingBind].depth \in 0 .. Len(cases)
        /\ Len(cases) \in Nat
    BY <1>8, ObservedBinding, LenProperties DEF Types
  <2>3. /\ e \in FrameSet /\ e.kind = "observer" /\ e.saved = "none" /\ e.local = "none"
        /\ e.under = NoExit /\ e.since = 0
    BY <1>1, <2>2, ObserverType
  <2> HIDE DEF e
  <2>4. FramesKept(s, heard)
    <3>1. Kept(stack, Len(stack) + 1, e, heard)
      BY <1>1, <2>3, NoneTypes DEF Kept
    <3> QED BY <1>1, <1>2, <2>3, <3>1, KeptAppend
  <2>5. Len(s) = Len(stack) + 1 /\ Stored(s) = Stored(stack)
    <3>1. Stored(s) = Stored(stack) + Told("none") + Told("none")
      BY <1>1, <2>3, StoredAppend
    <3> QED BY <1>1, <1>3, <2>3, <3>1, AppendFacts
  <2>6. Places(s, NoExit, NoOffer, flag, "none", heard)
    <3>1. flag = "t" => Younger(s, Len(s), heard)
      BY <1>1, <1>2, <2>3, <2>5, YoungerAppend
    <3>2. PlaceOf(s, "none", heard)
      BY DEF PlaceOf
    <3> QED BY <1>1, <3>1, <3>2, NewPlace
  <2>7. Balanced(s, flag, "none", quits, heard)
    BY <1>1, <1>3, <1>4, <2>5 DEF Balanced
  <2>8. owed /\ ~replaced => Carried(s, NoExit, flag, "none")
    BY <1>1, <1>3, <1>5, <2>5 DEF Carried
  <2> HIDE DEF s
  <2> QED BY <1>1, <2>1, <2>4, <2>6, <2>7, <2>8 DEF RInv, Owing
<1> QED BY <1>6, <1>7, <1>8 DEF Offers

\* The command loop has reported the error.
LEMMA ErrorKeeps ==
    ASSUME Types, RInv, CommandError
    PROVE  RInv'
<1>1. /\ stack = <<>> /\ stack' = stack /\ exit' = NoExit /\ offer' = NoOffer
      /\ register' = "none" /\ flag' = "nil" /\ owed' = FALSE
      /\ UNCHANGED <<heard, quits>> /\ heard \in Nat /\ quits \in Nat
  BY DEF CommandError, control, Types
<1>2. FramesKept(stack, heard)
  BY DEF RInv
<1>3. Places(stack, NoExit, NoOffer, "nil", "none", heard)
  BY <1>1, NewPlace DEF PlaceOf
<1>4. Balanced(stack, "nil", "none", quits, heard)
  <2>1. /\ Told("none") = 0 /\ Told("nil") = 0 /\ Told(flag) \in Nat /\ Told(register) \in Nat
    BY ToldFacts
  <2>2. Stored(stack) \in Nat
    BY StoredType DEF Types
  <2> QED BY <1>1, <2>1, <2>2 DEF RInv, Balanced
<1> QED BY <1>1, <1>2, <1>3, <1>4 DEF RInv, Owing

\* maybe_quit has looked for a C-g: one that it heard is later than every
\* unwinding that has begun, and it is in quit-flag now.
LEMMA HeardNow ==
    ASSUME Types, RInv, Running, Take
    PROVE  \E h \in Nat :
             /\ heard' = h /\ heard <= h
             /\ FramesKept(stack, h) /\ PlaceOf(stack, register, h)
             /\ Synchronized = "t" => Younger(stack, Len(stack), h)
             /\ quits + Told(Synchronized) + Told(register) + Stored(stack) <= h
             /\ pending => Told(Synchronized) = 1
             /\ ~pending => Synchronized = flag
<1> DEFINE h == IF pending THEN heard + 1 ELSE heard
<1>1. /\ stack \in Seq(FrameSet) /\ heard \in Nat /\ quits \in Nat /\ pending \in BOOLEAN
      /\ register \in Registers /\ flag \in Cells /\ exit = NoExit
      /\ Len(stack) \in Nat /\ Stored(stack) \in Nat
  BY LenProperties, StoredType DEF Types, Running
<1>2. h \in Nat /\ heard <= h /\ heard' = h /\ (pending => h = heard + 1)
  BY <1>1 DEF Take
<1>3. FramesKept(stack, heard) /\ FramesKept(stack, h)
  BY <1>1, <1>2, KeptLater DEF RInv
<1>4. Synchronized = "t" => pending \/ flag = "t"
  BY DEF Synchronized
<1>5. ASSUME pending PROVE Younger(stack, Len(stack), h)
  <2>1. \A r \in 1 .. Len(stack) : stack[r].since <= heard /\ stack[r].since \in Nat
    <3>1. \A r \in 1 .. Len(stack) : stack[r] \in FrameSet
      BY <1>1, LenProperties
    <3> QED BY <1>3, <3>1 DEF FramesKept, Kept, FrameSet
  <2>2. h = heard + 1
    BY <1>2, <1>5
  <2> HIDE DEF h
  <2> QED BY <1>1, <2>1, <2>2 DEF Younger
<1>6. ~pending => h = heard
  OBVIOUS
<1> HIDE DEF h
<1>7. ASSUME flag = "t" PROVE Younger(stack, Len(stack), h)
  <2>1. Younger(stack, Len(stack), heard)
    BY <1>7 DEF RInv, Places
  <2> QED BY <1>1, <1>2, <2>1, YoungerFacts
<1>8. PlaceOf(stack, register, h)
  <2>1. PlaceOf(stack, register, heard)
    BY <1>1 DEF RInv, Places, PlaceOf
  <2>2. Younger(stack, Len(stack) - 1, heard) /\ stack # <<>>
          => Younger(stack, Len(stack) - 1, h)
    <3>1. stack # <<>> => Len(stack) - 1 \in Nat /\ Len(stack) - 1 <= Len(stack)
      BY <1>1, EmptySeq
    <3> QED BY <1>1, <1>2, <3>1, YoungerFacts
  <2> QED BY <2>1, <2>2 DEF PlaceOf
<1>9. quits + Told(Synchronized) + Told(register) + Stored(stack) <= h
  <2>1. quits + Told(flag) + Told(register) + Stored(stack) <= heard
    BY DEF RInv, Balanced
  <2>2. Told(flag) \in Nat /\ Told(register) \in Nat /\ Told(Synchronized) \in Nat
    BY ToldFacts
  <2>3. CASE pending
    <3>1. Told(Synchronized) <= Told(flag) + 1
      BY <2>2, ToldFacts
    <3> QED BY <1>1, <1>2, <2>1, <2>2, <2>3, <3>1
  <2>4. CASE ~pending
    BY <1>1, <1>6, <2>1, <2>2, <2>4 DEF Synchronized
  <2> QED BY <2>3, <2>4
<1>10. (pending => Told(Synchronized) = 1) /\ (~pending => Synchronized = flag)
  BY ToldFacts DEF Synchronized
<1> QED BY <1>2, <1>3, <1>4, <1>5, <1>7, <1>8, <1>9, <1>10

\* A quit for what was heard: it is not kept any more.
LEMMA QuitKeeps ==
    ASSUME Types, RInv, QuitSignal
    PROVE  RInv'
<1>1. /\ stack' = stack /\ exit' = NoExit /\ register' = "none" /\ flag' = "nil"
      /\ owed' = FALSE /\ quits' = quits + 1 /\ Running /\ Take /\ Synchronized = "t"
  BY DEF QuitSignal, control, Running, Quits
<1>2. PICK h \in Nat :
         /\ heard' = h /\ FramesKept(stack, h)
         /\ quits + Told(Synchronized) + Told(register) + Stored(stack) <= h
  BY <1>1, HeardNow
<1>3. quits \in Nat /\ Stored(stack) \in Nat
  BY StoredType DEF Types
<1>4. Places(stack, NoExit, offer', "nil", "none", h)
  BY <1>2, NewPlace DEF PlaceOf
<1>5. Balanced(stack, "nil", "none", quits + 1, h)
  <2>1. /\ Told("none") = 0 /\ Told("nil") = 0 /\ Told(Synchronized) = 1
        /\ Told(register) \in Nat
    BY <1>1, ToldFacts
  <2>2. quits + 1 + Stored(stack) <= h
    BY <1>2, <1>3, <2>1
  <2> QED BY <1>2, <1>3, <2>1, <2>2 DEF Balanced
<1> QED BY <1>1, <1>2, <1>4, <1>5 DEF RInv, Owing

\* No quit: what was heard waits on.
LEMMA StillOwing ==
    ASSUME Types, RInv, Running, NoQuit, owed', ~replaced',
           replaced' = replaced \/ replaced' = (replaced \/ ReplacesExit)
    PROVE  /\ Told(Synchronized) + Told(register) + Stored(stack) > 0
           /\ replaced' = (replaced \/ ReplacesExit)
                => Told(Synchronized) + Stored(stack) > 0
<1>1. /\ Told(register) \in Nat /\ Told(flag) \in Nat /\ Stored(stack) \in Nat
      /\ Told(Synchronized) \in Nat
  BY ToldFacts, StoredType DEF Types
<1>2. CASE pending
  <2>1. Told(Synchronized) = 1
    BY <1>2, ToldFacts DEF Synchronized
  <2> QED BY <1>1, <2>1
<1>3. CASE ~pending
  <2>1. owed /\ ~replaced /\ Synchronized = flag
    <3>1. owed \/ pending
      BY Zenon DEF NoQuit
    <3>2. ~replaced
      BY Zenon
    <3>3. Synchronized = flag
      BY <1>3 DEF Synchronized
    <3> QED BY <1>3, <3>1, <3>2, <3>3
  <2>2. Told(Synchronized) + Told(register) + Stored(stack) > 0
    BY <2>1 DEF RInv, Owing, Carried, Running
  <2>3. replaced' = (replaced \/ ReplacesExit) => Told(register) = 0
    BY <2>1, ToldFacts DEF ReplacesExit
  <2>4. Told(register) = 0 => Told(Synchronized) + Stored(stack) > 0
    BY <1>1, <2>2
  <2> QED BY <2>2, <2>3, <2>4
<1> QED BY <1>2, <1>3

LEMMA RaiseKeeps ==
    ASSUME Types, RInv, Leaf \/ SignalError \/ Throw
    PROVE  RInv'
<1>1. /\ stack' = stack /\ quits' = quits /\ Running /\ NoQuit /\ Take
  BY DEF Leaf, SignalError, Throw, control, NoQuit
<1>2. PICK h \in Nat :
         /\ heard' = h /\ FramesKept(stack, h) /\ PlaceOf(stack, register, h)
         /\ Synchronized = "t" => Younger(stack, Len(stack), h)
         /\ quits + Told(Synchronized) + Told(register) + Stored(stack) <= h
  BY <1>1, HeardNow
<1>3. /\ quits \in Nat /\ Stored(stack) \in Nat /\ Told(Synchronized) \in Nat
      /\ Told(register) \in Nat /\ Told("none") = 0 /\ Told("nil") = 0
  BY ToldFacts, StoredType DEF Types
<1>4. CASE Leaf
  <2>1. /\ flag' = Synchronized /\ register' = register /\ exit' = NoExit /\ offer' = NoOffer
        /\ replaced' = replaced
    BY <1>4 DEF Leaf, Running
  <2>2. Places(stack, NoExit, NoOffer, Synchronized, register, h)
    BY <1>2, NewPlace
  <2>3. owed' /\ ~replaced' => Carried(stack, NoExit, Synchronized, register)
    BY <1>1, <2>1, StillOwing DEF Carried
  <2> QED BY <1>1, <1>2, <2>1, <2>2, <2>3 DEF RInv, Balanced, Owing
<1>5. CASE SignalError
  <2>1. /\ flag' = Synchronized /\ register' = "none" /\ exit' = NoExit
        /\ replaced' = (replaced \/ ReplacesExit)
    BY <1>5 DEF SignalError, Running
  <2>2. Places(stack, NoExit, offer', Synchronized, "none", h)
    BY <1>2, NewPlace DEF PlaceOf
  <2>3. Balanced(stack, Synchronized, "none", quits, h)
    BY <1>2, <1>3 DEF Balanced
  <2>4. owed' /\ ~replaced' => Carried(stack, NoExit, Synchronized, "none")
    <3>1. owed' /\ ~replaced' => Told(Synchronized) + Stored(stack) > 0
      BY <1>1, <2>1, StillOwing
    <3> QED BY <1>3, <3>1 DEF Carried
  <2> QED BY <1>1, <1>2, <2>1, <2>2, <2>3, <2>4 DEF RInv, Owing
<1>6. CASE Throw
  <2>1. /\ flag' = "nil" /\ register' = Synchronized /\ offer' = NoOffer
        /\ replaced' = (replaced \/ ReplacesExit)
        /\ exit' = [NoExit EXCEPT !.type = "throw", !.since = h]
    BY <1>2, <1>6 DEF Throw, Running, BeginQuitUnwind
  <2>2. exit'.since = h /\ exit' # NoExit /\ h <= h
    <3>1. exit'.since = h /\ exit'.type = "throw"
      BY <2>1 DEF NoExit
    <3>2. h <= h
      BY <1>2
    <3> QED BY <3>1, <3>2, NoneTypes
  <2>3. Places(stack, exit', NoOffer, "nil", Synchronized, h)
    BY <1>2, <2>2 DEF Places
  <2>4. Balanced(stack, "nil", Synchronized, quits, h)
    BY <1>2, <1>3 DEF Balanced
  <2>5. owed' /\ ~replaced' => Carried(stack, exit', "nil", Synchronized)
    <3>1. owed' /\ ~replaced' => Told(Synchronized) + Stored(stack) > 0
      BY <1>1, <2>1, StillOwing
    <3> QED BY <1>3, <3>1 DEF Carried
  <2> QED BY <1>1, <1>2, <2>1, <2>3, <2>4, <2>5 DEF RInv, Owing
<1> QED BY <1>4, <1>5, <1>6

LEMMA EnteredFrame ==
    ASSUME Types, Enters
    PROVE  \E e \in FrameSet :
             /\ stack' = Append(stack, e) /\ e.kind \notin {"cleanup", "observer"}
             /\ e.saved = register /\ e.local = "none" /\ e.under = NoExit /\ e.since = 0
<1>1. register \in Registers /\ Len(cases) + 1 \in Nat /\ Len(binds) \in Nat
  BY LenProperties DEF Types
<1>2. CASE EnterCatch \/ EnterUnwindProtect \/ EnterInhibit
  <2>1. PICK kind \in {"catch", "protect", "inhibit"} :
           stack' = Append(stack, Form(kind, register))
    BY <1>2 DEF EnterCatch, EnterUnwindProtect, EnterInhibit, Enter
  <2> DEFINE e == Form(kind, register)
  <2>2. /\ e \in FrameSet /\ e.kind = kind /\ e.saved = register /\ e.local = "none"
        /\ e.under = NoExit /\ e.since = 0
    BY <1>1, FormType DEF Kinds
  <2> HIDE DEF e
  <2>3. stack' = Append(stack, e)
    BY <2>1 DEF e
  <2> QED BY <2>2, <2>3
<1>3. ASSUME NEW conds \in Clauses, EnterConditionCase(conds)
      PROVE  \E e \in FrameSet :
             /\ stack' = Append(stack, e) /\ e.kind \notin {"cleanup", "observer"}
             /\ e.saved = register /\ e.local = "none" /\ e.under = NoExit /\ e.since = 0
  <2> DEFINE e == NamingFrame("case", register, conds, Len(cases) + 1)
  <2>1. stack' = Append(stack, e)
    BY <1>3 DEF EnterConditionCase, Enter, NamingFrame
  <2>2. /\ e \in FrameSet /\ e.kind = "case" /\ e.saved = register /\ e.local = "none"
        /\ e.under = NoExit /\ e.since = 0
    BY <1>1, NamingFrameType DEF Kinds
  <2> HIDE DEF e
  <2> QED BY <2>1, <2>2
<1>4. ASSUME NEW conds \in Clauses, EnterHandlerBind(conds)
      PROVE  \E e \in FrameSet :
             /\ stack' = Append(stack, e) /\ e.kind \notin {"cleanup", "observer"}
             /\ e.saved = register /\ e.local = "none" /\ e.under = NoExit /\ e.since = 0
  <2> DEFINE e == NamingFrame("bind", register, conds, Len(binds))
  <2>1. stack' = Append(stack, e)
    BY <1>4 DEF EnterHandlerBind, Enter, NamingFrame
  <2>2. /\ e \in FrameSet /\ e.kind = "bind" /\ e.saved = register /\ e.local = "none"
        /\ e.under = NoExit /\ e.since = 0
    BY <1>1, NamingFrameType DEF Kinds
  <2> HIDE DEF e
  <2> QED BY <2>1, <2>2
<1> QED BY <1>2, <1>3, <1>4 DEF Enters

\* eval takes the register with it into the form.
LEMMA EnterKeeps ==
    ASSUME Types, RInv, Enters
    PROVE  RInv'
<1>1. /\ flag' = Synchronized /\ register' = "none" /\ exit' = NoExit /\ offer' = NoOffer
      /\ quits' = quits /\ replaced' = replaced /\ Running /\ NoQuit /\ Take
  BY DEF Enters, EnterCatch, EnterUnwindProtect, EnterConditionCase, EnterHandlerBind,
         EnterInhibit, Enter, Running, NoQuit
<1>2. PICK h \in Nat :
         /\ heard' = h /\ FramesKept(stack, h) /\ PlaceOf(stack, register, h)
         /\ Synchronized = "t" => Younger(stack, Len(stack), h)
         /\ quits + Told(Synchronized) + Told(register) + Stored(stack) <= h
  BY <1>1, HeardNow
<1>3. PICK e \in FrameSet :
         /\ stack' = Append(stack, e) /\ e.kind \notin {"cleanup", "observer"}
         /\ e.saved = register /\ e.local = "none" /\ e.under = NoExit /\ e.since = 0
  BY EnteredFrame
<1> DEFINE s == Append(stack, e)
<1>4. /\ stack \in Seq(FrameSet) /\ Len(stack) \in Nat /\ quits \in Nat /\ Stored(stack) \in Nat
      /\ Told(Synchronized) \in Nat /\ Told(register) \in Nat /\ Told("none") = 0
  BY ToldFacts, StoredType, LenProperties DEF Types
<1>5. FramesKept(s, h)
  <2>1. register # "none" => Len(stack) # 0
    BY <1>2, <1>4, EmptySeq DEF PlaceOf
  <2>2. (Len(stack) + 1) - 1 = Len(stack) /\ (Len(stack) + 1) - 2 = Len(stack) - 1
        /\ (register # "none" => Len(stack) + 1 > 1)
    BY <1>4, <2>1
  <2>3. NoExit.since <= h /\ 0 <= h
    BY <1>2, NoneTypes
  <2>4. Kept(stack, Len(stack) + 1, e, h)
    BY <1>2, <1>3, <2>2, <2>3 DEF Kept, PlaceOf
  <2> QED BY <1>2, <1>3, <1>4, <2>4, KeptAppend
<1>6. Len(s) = Len(stack) + 1 /\ Stored(s) = Stored(stack) + Told(register)
  <2>1. Stored(s) = Stored(stack) + Told(register) + Told("none")
    BY <1>3, <1>4, StoredAppend
  <2> QED BY <1>4, <2>1, AppendFacts
<1>7. Places(s, NoExit, NoOffer, Synchronized, "none", h)
  <2>1. Synchronized = "t" => Younger(s, Len(s), h)
    BY <1>2, <1>3, <1>4, <1>6, YoungerAppend
  <2>2. PlaceOf(s, "none", h)
    BY DEF PlaceOf
  <2> QED BY <1>2, <2>1, <2>2, NewPlace
<1>8. Balanced(s, Synchronized, "none", quits, h)
  BY <1>2, <1>4, <1>6 DEF Balanced
<1>9. owed' /\ ~replaced' => Carried(s, NoExit, Synchronized, "none")
  <2>1. owed' /\ ~replaced' => Told(Synchronized) + Told(register) + Stored(stack) > 0
    BY <1>1, StillOwing
  <2> QED BY <1>4, <1>6, <2>1 DEF Carried
<1> HIDE DEF s
<1>10. stack' = s
  BY <1>3 DEF s
<1> QED BY <1>1, <1>2, <1>5, <1>7, <1>8, <1>9, <1>10 DEF RInv, Owing

LEMMA KeepsNext ==
    ASSUME SInv, RInv, [Next]_vars
    PROVE  RInv'
<1>1. Types /\ Scopes
  BY SInvParts
<1>2. CASE Press \/ UNCHANGED vars
  BY <1>2 DEF Press, vars, control, history, RInv, Owing
<1>3. CASE Leaf \/ Raise
  BY <1>1, <1>3, QuitKeeps, RaiseKeeps DEF Raise
<1>4. CASE Enters
  BY <1>1, <1>4, EnterKeeps
<1>5. CASE Offers
  BY <1>1, <1>5, OfferKeeps
<1>6. CASE StartCleanup
  BY <1>1, <1>6, StartKeeps
<1>7. CASE Unwind
  BY <1>1, <1>7, PassKeeps, ReturnKeeps, HandleKeeps, CleanupExitKeeps, ErrorKeeps DEF Unwind
<1>8. CASE Return
  BY <1>1, <1>8, ReturnKeeps, CleanupReturnKeeps DEF Return
<1> QED BY <1>2, <1>3, <1>4, <1>5, <1>6, <1>7, <1>8 DEF Next

LEMMA KeepsInit ==
    ASSUME Init
    PROVE  RInv
<1>1. /\ stack = <<>> /\ exit = NoExit /\ offer = NoOffer /\ flag = "nil" /\ register = "none"
      /\ heard = 0 /\ quits = 0 /\ owed = FALSE
  BY DEF Init
<1>2. Len(<<>>) = 0 /\ \A p \in 1 .. 0 : FALSE
  BY EmptySeq
<1>3. FramesKept(stack, heard)
  BY <1>1, <1>2 DEF FramesKept
<1>4. Places(stack, exit, offer, flag, register, heard)
  BY <1>1, NoneTypes DEF Places
<1>5. Balanced(stack, flag, register, quits, heard)
  <2>1. SavedIn(stack) = {} /\ LocalIn(stack) = {}
    BY <1>1, <1>2 DEF SavedIn, LocalIn
  <2>2. Stored(stack) = 0
    BY <2>1, FS_EmptySet DEF Stored
  <2>3. Told(flag) = 0 /\ Told(register) = 0
    BY <1>1, ToldFacts
  <2> QED BY <1>1, <2>2, <2>3 DEF Balanced
<1> QED BY <1>1, <1>3, <1>4, <1>5 DEF RInv, Owing

LEMMA KeptAlways == Spec => [](SInv /\ RInv)
<1>1. Init => SInv /\ RInv
  BY ScopesInit, KeepsInit
<1>2. SInv /\ RInv /\ [Next]_vars => SInv' /\ RInv'
  BY ScopesNext, KeepsNext
<1> QED BY <1>1, <1>2, PTL DEF Spec

LEMMA WaitingIs ==
    ASSUME Types
    PROVE  /\ Waiting = Told(flag) + Told(register) + Stored(stack)
           /\ Waiting \in Nat
<1>1. DOMAIN stack = 1 .. Len(stack)
  BY LenProperties DEF Types
<1>2. /\ SavedIn(stack) = {p \in DOMAIN stack : stack[p].saved = "t"}
      /\ LocalIn(stack) = {p \in DOMAIN stack : stack[p].local = "t"}
  BY <1>1 DEF SavedIn, LocalIn
<1>3. One(flag = "t") = Told(flag) /\ One(register = "t") = Told(register)
  BY DEF One, Told
<1>4. /\ Cardinality(SavedIn(stack)) \in Nat /\ Cardinality(LocalIn(stack)) \in Nat
      /\ Told(flag) \in Nat /\ Told(register) \in Nat
  <2>1. Len(stack) \in Nat /\ IsFiniteSet(1 .. Len(stack))
    BY LenProperties, FS_Interval DEF Types
  <2>2. SavedIn(stack) \subseteq 1 .. Len(stack) /\ LocalIn(stack) \subseteq 1 .. Len(stack)
    BY DEF SavedIn, LocalIn
  <2> QED BY <2>1, <2>2, FS_Subset, FS_CardinalityType, ToldFacts
<1>5. Waiting = Told(flag) + Told(register) + Cardinality(SavedIn(stack))
                  + Cardinality(LocalIn(stack))
  BY <1>2, <1>3 DEF Waiting
<1> QED BY <1>4, <1>5 DEF Stored

\* take_for_eval, begin_quit_unwind and with_quit_preserved move quit-flag
\* between a register, the Rust stack and the cleanups (control.rs).  For any
\* nesting, a C-g that was heard is in exactly as many places as it may be: in
\* one at least until a quit is signalled for it, and in so few that it never
\* leads to two.
THEOREM QuitsAreKept == Spec => []QuitKept
<1>1. ASSUME SInv, RInv PROVE QuitKept
  <2>1. /\ Types /\ Waiting = Told(flag) + Told(register) + Stored(stack) /\ Waiting \in Nat
        /\ quits \in Nat /\ Told(flag) \in Nat /\ Told(register) \in Nat /\ Stored(stack) \in Nat
    BY <1>1, SInvParts, WaitingIs, ToldFacts, StoredType DEF Types
  <2>2. Running /\ owed /\ ~replaced => Waiting > 0
    BY <1>1, <2>1 DEF RInv, Owing, Carried, Running
  <2>3. quits + Waiting <= heard
    <3>1. quits + Told(flag) + Told(register) + Stored(stack) <= heard
      BY <1>1 DEF RInv, Balanced
    <3> QED BY <2>1, <3>1
  <2> QED BY <2>2, <2>3 DEF QuitKept
<1> QED BY <1>1, KeptAlways, PTL

\* with_quit_preserved sets aside what waits when the cleanup forms of
\* sf_unwind_protect begin (control.rs): a quit-flag they see is a C-g that came
\* after the unwinding they are part of began, and a value in the register while
\* Lisp runs is always that of the exit such a cleanup belongs to.
THEOREM CleanupsRunUndisturbed == Spec => []CleanupUndisturbed
<1>1. ASSUME SInv, RInv PROVE CleanupUndisturbed
  <2>1. stack \in Seq(FrameSet) /\ DOMAIN stack = 1 .. Len(stack)
    BY <1>1, SInvParts, LenProperties DEF Types
  <2>2. \A p \in DOMAIN stack :
          stack[p].kind = "cleanup" /\ flag = "t" => heard > stack[p].since
    BY <1>1, <2>1 DEF RInv, Places, Younger
  <2>3. exit = NoExit /\ register # "none" =>
          offer = NoOffer /\ stack # <<>> /\ Top.kind = "cleanup" /\ Top.under # NoExit
    BY <1>1 DEF RInv, Places, Waits, Top
  <2> QED BY <2>2, <2>3 DEF CleanupUndisturbed
<1> QED BY <1>1, KeptAlways, PTL

\* However deep the nesting, the stack, the two handler lists and the history of
\* the C-g have the types and the bounds the checked instance has: every index
\* into a list is one of the list, and no more quits are signalled than C-g typed.
THEOREM UnwindingTypesKept == Spec => []TypeOK
<1>1. ASSUME SInv, RInv PROVE TypeOK
  <2>1. /\ Types /\ Scopes /\ stack \in Seq(FrameSet) /\ DOMAIN stack = 1 .. Len(stack)
        /\ cases \in Seq(Clauses) /\ binds \in Seq(Bindings)
        /\ DOMAIN binds = 1 .. Len(binds)
        /\ Len(stack) \in Nat /\ Len(cases) \in Nat /\ Len(binds) \in Nat
    BY <1>1, SInvParts, LenProperties DEF Types
  <2>2. /\ Len(stack) <= 2 * Depth /\ Len(cases) <= Len(stack) /\ Len(binds) <= Len(stack)
        /\ BindsInScope(stack, Len(stack), cases, binds)
        /\ \A p \in 1 .. Len(stack) : stack[p].mark \in Frames
    BY <2>1, ListFacts, StackFacts DEF Scopes, Frames
  <2>3. \A p \in DOMAIN stack :
         /\ stack[p].kind \in {"catch", "case", "bind", "protect", "inhibit",
                              "handler", "cleanup", "observer"}
         /\ stack[p].saved \in Cells \cup {"none"}
         /\ stack[p].local \in Cells \cup {"none"}
         /\ stack[p].mark \in Frames
    <3> SUFFICES ASSUME NEW p \in DOMAIN stack
                 PROVE  /\ stack[p].kind \in Kinds /\ stack[p].saved \in Registers
                        /\ stack[p].local \in Registers
      BY <2>1, <2>2 DEF Kinds, Registers
    <3>1. stack[p] \in FrameSet
      BY <2>1, LenProperties
    <3> QED BY <3>1 DEF FrameSet
  <2>4. \A j \in DOMAIN binds : binds[j].depth \in 0 .. Len(cases)
    BY <2>1, <2>2 DEF BindsInScope
  <2>5. heard \in 0 .. MaxPresses /\ quits \in 0 .. MaxPresses /\ presses \in 0 .. MaxPresses
    <3>1. /\ heard \in Nat /\ quits \in Nat /\ presses \in 0 .. MaxPresses /\ MaxPresses \in Nat
          /\ pending \in BOOLEAN /\ heard + One(pending) <= presses /\ One(pending) \in Nat
      BY <2>1, BoundAssumption DEF Types, One
    <3>2. heard <= MaxPresses
      BY <3>1
    <3>3. quits <= heard
      <4>1. quits + Told(flag) + Told(register) + Stored(stack) <= heard
        BY <1>1 DEF RInv, Balanced
      <4>2. Told(flag) \in Nat /\ Told(register) \in Nat /\ Stored(stack) \in Nat
        BY <2>1, ToldFacts, StoredType
      <4> QED BY <3>1, <4>1, <4>2
    <3> QED BY <3>1, <3>2, <3>3
  <2>6. exit \in [type : Conditions \cup {"none", "throw"}, frame : Frames,
                  target : Frames, since : 0 .. MaxPresses]
    <3>1. exit \in ExitRecords /\ exit.since <= heard /\ Depth \in Nat
      BY <1>1, <2>1, BoundAssumption DEF Types, Exits, RInv, Places
    <3>2. exit.frame \in Frames /\ exit.target \in Frames
      <4>1. CASE exit.frame = 0
        BY <2>1, <3>1, <4>1 DEF Scopes, ExitScoped, Frames
      <4>2. CASE exit.frame # 0
        <5>1. exit.target \in 1 .. Len(stack) /\ stack[exit.target].mark = exit.frame
          BY <2>1, <4>2 DEF Scopes, ExitScoped
        <5>2. exit.target \in Frames
          BY <2>1, <2>2, <3>1, <5>1 DEF Frames
        <5> QED BY <2>2, <5>1, <5>2
      <4> QED BY <4>1, <4>2
    <3>3. exit.since \in 0 .. MaxPresses
      <4>1. exit.since \in Nat /\ exit.since <= heard
        BY <3>1 DEF ExitRecords
      <4>2. heard \in Nat /\ heard <= MaxPresses /\ MaxPresses \in Nat
        BY <2>5, BoundAssumption
      <4> QED BY <4>1, <4>2
    <3> QED BY <3>1, <3>2, <3>3 DEF ExitRecords
  <2>7. offer \in [cond : Conditions \cup {"none"}, bind : 0 .. Len(binds),
                   case : 0 .. Len(cases)]
    <3>1. /\ offer \in OfferRecords /\ offer.bind \in 0 .. Len(binds)
          /\ offer.case \in 0 .. Len(cases)
      BY <2>1 DEF Types, Offered, Scopes, OfferScoped
    <3> QED BY <3>1 DEF OfferRecords
  <2>8. /\ flag \in Cells /\ register \in Cells \cup {"none"}
        /\ inhibit \in BOOLEAN /\ pending \in BOOLEAN
        /\ owed \in BOOLEAN /\ replaced \in BOOLEAN
    BY <2>1 DEF Types, Registers
  <2> QED BY <2>1, <2>2, <2>3, <2>4, <2>5, <2>6, <2>7, <2>8 DEF TypeOK
<1> QED BY <1>1, KeptAlways, PTL
=============================================================================
