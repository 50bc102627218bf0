--------------------------- MODULE GuiFramesProofs ---------------------------
(***************************************************************************)
(* Proofs about GuiFrames: the mailbox and its notification, and the       *)
(* questions of prepare_frame, for any number of frames and any nesting of *)
(* delete-frame.                                                           *)
(***************************************************************************)
EXTENDS GuiFrames, SequenceTheorems, FiniteSetTheorems, TLAPS

Requests == {Notification} \cup {FrameReady(f) : f \in Frame}
                           \cup {WarpPointer(f) : f \in Frame}

-----------------------------------------------------------------------------
(* The inductive invariant.                                                *)

\* The logic thread awaits a reply.
Asking == pc \in {"awaitReady", "awaitConfirm", "awaitWarp"}

\* It has published the frames, or is about to, on behalf of prepare_frame.
Published == \/ pc = "sendgrid" /\ resume = "confirm"
             \/ pc = "notify" /\ after = "sendgrid" /\ resume = "confirm"
             \/ pc = "notify" /\ after = "confirm"
Rendering == Published \/ (pc = "render" /\ resume = "confirm")

\* set-mouse-position is under way: a frame is asked for, and it is alive, as
\* no Lisp runs meanwhile.
Preparing == pc \in {"ready", "confirm", "warp"} \/ Asking \/ Rendering
Prepared  == IF Preparing THEN asked \in frames ELSE asked = None

\* A reply is there only for who awaits it; the UI thread takes its end of
\* the channel with it.
ReplyInTime == reply # None => Asking
Ended       == ~uiUp => requests = <<>> /\ ~notified

\* The one question in the channel is the last request.
Question == IF pc = "awaitWarp" THEN WarpPointer(asked) ELSE FrameReady(asked)
QuestionLast ==
    \A i \in DOMAIN requests :
        requests[i] # Notification =>
            /\ Asking /\ reply = None
            /\ i = Len(requests) /\ requests[i] = Question

\* No notification is on its way once a question has been answered, until the
\* next snapshot: the windows stay as they were when it was.
Quiet == ~notified /\ \A i \in DOMAIN requests : requests[i] # Notification
Steady == /\ (pc \in {"warp", "awaitWarp"} \/ reply # None) => Quiet
          /\ pc \in {"warp", "awaitWarp"} => asked \in windows
          /\ Asking /\ reply = TRUE => asked \in windows

\* The snapshot published for prepare_frame holds the frame, also when
\* send_grid publishes it again.
Cached == (pc = "sendgrid" \/ (pc = "notify" /\ after = "sendgrid")) /\ resume = "confirm"
              => asked \in cache

\* The UI thread will open a window for it, or has tried to.
Shown == Published \/ pc \in {"confirm", "awaitConfirm"} =>
             IF latest # None THEN asked \in latest ELSE asked \in windows \cup refused

IInv == /\ TypeOK /\ Prepared /\ ReplyInTime /\ Ended /\ QuestionLast
        /\ Steady /\ Cached /\ Shown /\ OneNotification /\ WarpFindsWindow

LEMMA RequestsDiffer ==
    ASSUME NEW f
    PROVE  FrameReady(f) # Notification /\ WarpPointer(f) # Notification
BY DEF FrameReady, WarpPointer, Notification

LEMMA NoneFacts ==
    /\ None \notin Frame /\ None # TRUE /\ None # FALSE
    /\ \A snapshot \in SUBSET Frame : snapshot # None
BY NoneAssumption

-----------------------------------------------------------------------------
(* Types.                                                                  *)

LEMMA InitTypes == Init => TypeOK
<1> SUFFICES ASSUME Init PROVE TypeOK
  OBVIOUS
<1>1. <<>> \in Seq(born) /\ <<>> \in Seq(Requests)
  BY EmptySeq
<1> QED BY <1>1, FrameAssumption DEF Init, TypeOK, Requests

\* The steps of Lisp keep the mailbox, the channel and the windows, and only
\* set-mouse-position asks for a frame.
LEMMA LispFacts ==
    ASSUME LispStep
    PROVE  /\ UNCHANGED <<cache, after, box, requests, reply, native>>
           /\ pc = "lisp" /\ pc' \in {"lisp", "ready", "render", "sendgrid", "panic"}
           /\ pc' \in {"render", "sendgrid"} => resume' \in {"lisp", "echo"}
           /\ IF pc' = "ready" THEN asked' \in frames' ELSE asked' = asked
           /\ due' # due => due' \in Redisplay \cup {None}
<1>1. ASSUME NEW f \in Frame,
             MakeFrame(f) \/ SelectFrame(f) \/ DeleteFrame(f) \/ FrameEvent(f)
      PROVE  /\ UNCHANGED <<cache, after, box, requests, reply, native, due, pc, asked>>
             /\ pc = "lisp"
  BY <1>1 DEF MakeFrame, SelectFrame, DeleteFrame, FrameEvent, InLisp, ptr, loop
<1>2. ASSUME NEW f \in Frame, PrepareFrame(f)
      PROVE  /\ UNCHANGED <<cache, after, box, requests, reply, native, due>>
             /\ pc = "lisp" /\ pc' = "ready" /\ asked' \in frames'
  BY <1>2 DEF PrepareFrame, InLisp, editor, ptr, loop
<1>3. ASSUME NEW what \in Redisplay, PreRedisplay(what)
      PROVE  /\ UNCHANGED <<cache, after, box, requests, reply, native, pc, asked>>
             /\ pc = "lisp" /\ due' = what
  BY <1>3 DEF PreRedisplay, InLisp, ptr
<1>4. CASE \/ FrameDeleted \/ DeleteHookError \/ NoReplacement
           \/ PreRedisplayOver \/ LogicEnds
  BY <1>4 DEF FrameDeleted, DeleteHookError, NoReplacement, PreRedisplayOver, LogicEnds,
              InLisp, ptr, loop
<1>5. CASE SitForError \/ Redraw \/ Prompt
  BY <1>5 DEF SitForError, Redraw, Prompt, InLisp, ptr, loop
<1> QED BY <1>1, <1>2, <1>3, <1>4, <1>5 DEF LispStep

LEMMA MakeFrameTypes ==
    ASSUME TypeOK, NEW f \in Frame, MakeFrame(f)
    PROVE  TypeOK'
<1>1. deleting \in Seq(born')
  BY SeqMonotonic DEF TypeOK, MakeFrame
<1> QED BY <1>1 DEF TypeOK, MakeFrame, loop, ptr, box, native

LEMMA DeleteTypes ==
    ASSUME TypeOK, \/ \E f \in Frame : DeleteFrame(f)
                   \/ FrameDeleted \/ DeleteHookError \/ NoReplacement
    PROVE  TypeOK'
<1>1. CASE \E f \in Frame : DeleteFrame(f)
  <2>1. PICK f \in Frame : DeleteFrame(f)
    BY <1>1
  <2>2. <<f>> \in Seq(born)
    BY <2>1 DEF DeleteFrame, TypeOK
  <2>3. deleting' \in Seq(born)
    BY <2>1, <2>2, ConcatProperties DEF DeleteFrame, TypeOK
  <2> QED BY <2>1, <2>3 DEF DeleteFrame, TypeOK, loop, ptr, box, native
<1>2. CASE FrameDeleted \/ DeleteHookError
  <2>1. deleting' \in Seq(born)
    BY <1>2, HeadTailProperties DEF FrameDeleted, DeleteHookError, TypeOK
  <2>2. /\ frames' \subseteq frames /\ selected' \in frames'
        /\ UNCHANGED <<born, loop, pc, after, resume, asked, ptr, box, requests, reply,
                       native, logicUp>>
    BY <1>2 DEF FrameDeleted, DeleteHookError, TypeOK
  <2> QED BY <2>1, <2>2 DEF TypeOK, loop, ptr, box, native
<1>3. CASE NoReplacement
  <2>1. logicUp' \in BOOLEAN
    BY <1>3 DEF NoReplacement
  <2> QED BY <1>3, <2>1 DEF NoReplacement, TypeOK, editor, loop, ptr, box, native
<1> QED BY <1>1, <1>2, <1>3

LEMMA LispTypes ==
    ASSUME TypeOK, LispStep
    PROVE  TypeOK'
<1>1. ASSUME NEW f \in Frame, SelectFrame(f) \/ FrameEvent(f) \/ PrepareFrame(f)
      PROVE  TypeOK'
  BY <1>1 DEF SelectFrame, FrameEvent, PrepareFrame, TypeOK, editor, loop, ptr, box, native
<1>2. ASSUME NEW what \in Redisplay, PreRedisplay(what) PROVE TypeOK'
  <2>1. what # None
    BY NoneAssumption DEF Redisplay
  <2> QED BY <1>2, <2>1 DEF PreRedisplay, TypeOK, editor, ptr, box, native
<1>3. CASE PreRedisplayOver \/ SitForError
  <2>1. borrowed' \in BOOLEAN /\ ~borrowed' /\ due' \in {due, None}
    BY <1>3 DEF PreRedisplayOver, SitForError
  <2> QED BY <1>3, <2>1 DEF PreRedisplayOver, SitForError, TypeOK, editor, ptr, box, native
<1>5. CASE LogicEnds
  <2>1. logicUp' \in BOOLEAN
    BY <1>5 DEF LogicEnds
  <2> QED BY <1>5, <2>1 DEF LogicEnds, TypeOK, editor, loop, ptr, box, native
<1>4. CASE Redraw \/ Prompt
  BY <1>4 DEF Redraw, Prompt, TypeOK, editor, loop, ptr, box, native
<1> QED BY <1>1, <1>2, <1>3, <1>4, <1>5, MakeFrameTypes, DeleteTypes DEF LispStep

\* A request is appended to the channel, or taken from it.
LEMMA SendTypes ==
    ASSUME TypeOK, NEW r \in Requests, requests' = Append(requests, r)
    PROVE  requests' \in Seq(Requests)
BY AppendProperties DEF TypeOK, Requests

LEMMA ReceiveTypes ==
    ASSUME TypeOK, NEW kind, Receives(kind)
    PROVE  requests' \in Seq(Requests)
BY HeadTailProperties DEF TypeOK, Requests, Receives

LEMMA PublishTypes ==
    ASSUME TypeOK, NEW snapshot \in SUBSET born,
           NEW next \in {"lisp", "sendgrid", "echo", "confirm"}, Publish(snapshot, next)
    PROVE  /\ latest' \subseteq born /\ queued' \in BOOLEAN
           /\ pc' \in {"lisp", "notify", "sendgrid", "echo", "confirm"}
           /\ after' \in {"lisp", "sendgrid", "echo", "confirm"}
BY DEF Publish, TypeOK

LEMMA AskTypes ==
    ASSUME TypeOK, Prepared, AskReady \/ AskConfirm \/ AskWarp
    PROVE  TypeOK'
<1>1. asked \in Frame
  BY DEF AskReady, AskConfirm, AskWarp, Ask, Prepared, Preparing, TypeOK
<1>2. FrameReady(asked) \in Requests /\ WarpPointer(asked) \in Requests
  BY <1>1 DEF Requests
<1>3. requests' \in Seq(Requests)
  BY <1>2, SendTypes DEF AskReady, AskConfirm, AskWarp, Ask, TypeOK, Requests
<1>4. /\ pc' \in {"awaitReady", "awaitConfirm", "awaitWarp", "lisp"}
      /\ asked' \in {asked, None} /\ logicUp' \in BOOLEAN
      /\ UNCHANGED <<editor, loop, after, resume, ptr, box, reply, native>>
  BY DEF AskReady, AskConfirm, AskWarp, Ask, Fails, TypeOK
<1> QED BY <1>3, <1>4 DEF TypeOK, Requests, editor, loop, ptr, box, native

LEMMA LogicTypes ==
    ASSUME TypeOK, Prepared, LogicStep
    PROVE  TypeOK'
<1> USE DEF editor, loop, ptr, box, native
<1>1. CASE Notify
  <2>1. requests' \in Seq(Requests)
    BY <1>1, SendTypes DEF Notify, Requests, TypeOK
  <2>2. queued' \in BOOLEAN /\ logicUp' \in BOOLEAN /\ asked' \in {asked, None}
    BY <1>1 DEF Notify, Fails, TypeOK
  <2> QED BY <1>1, <2>1, <2>2 DEF Notify, Fails, TypeOK, Requests
<1>2. CASE Render
  <2>1. /\ latest' \subseteq born /\ queued' \in BOOLEAN
        /\ pc' \in {"lisp", "notify", "sendgrid", "echo", "confirm"}
        /\ after' \in {"lisp", "sendgrid", "echo", "confirm"}
    BY <1>2, PublishTypes DEF Render, TypeOK
  <2> QED BY <1>2, <2>1 DEF Render, TypeOK
<1>3. CASE SendGrid
  <2>1. CASE active \in cache
    <3>1. /\ latest' \subseteq born /\ queued' \in BOOLEAN
          /\ pc' \in {"lisp", "notify", "sendgrid", "echo", "confirm"}
          /\ after' \in {"lisp", "sendgrid", "echo", "confirm"}
      BY <1>3, <2>1, PublishTypes DEF SendGrid, TypeOK
    <3> QED BY <1>3, <3>1 DEF SendGrid, TypeOK
  <2>2. CASE active \notin cache
    BY <1>3, <2>2 DEF SendGrid, TypeOK
  <2> QED BY <2>1, <2>2
<1>4. CASE WindowMissingInCallback
  <2>1. /\ latest' \subseteq born /\ queued' \in BOOLEAN
        /\ pc' \in {"lisp", "notify", "sendgrid", "echo", "confirm"}
        /\ after' \in {"lisp", "sendgrid", "echo", "confirm"}
    BY <1>4, PublishTypes DEF WindowMissingInCallback, TypeOK
  <2> QED BY <1>4, <2>1 DEF WindowMissingInCallback, TypeOK
<1>5. CASE AskReady \/ AskConfirm \/ AskWarp
  BY <1>5, AskTypes
<1>6. CASE DrawEcho \/ WindowReady \/ WindowMissing \/ Confirmed
  BY <1>6 DEF DrawEcho, WindowReady, WindowMissing, Confirmed, TypeOK
<1>7. CASE NotOpen \/ Warped \/ ReplyLost
  BY <1>7 DEF NotOpen, Warped, ReplyLost, TypeOK
<1> QED BY <1>1, <1>2, <1>3, <1>4, <1>5, <1>6, <1>7 DEF LogicStep

LEMMA UiTypes ==
    ASSUME TypeOK, UiStep \/ UiEnds
    PROVE  TypeOK'
<1> USE DEF editor, loop, ptr, box, native
<1>1. CASE ReceiveNotification
  <2>1. requests' \in Seq(Requests)
    BY <1>1, ReceiveTypes DEF ReceiveNotification
  <2> QED BY <1>1, <2>1 DEF ReceiveNotification, TypeOK, Requests
<1>2. CASE TakeLatest
  <2>1. /\ windows' \subseteq born /\ refused' \subseteq born /\ drawn' \subseteq born
        /\ primary' \in BOOLEAN /\ notified' \in BOOLEAN /\ queued' \in BOOLEAN
    BY <1>2 DEF TakeLatest, Draw, TypeOK
  <2> QED BY <1>2, <2>1 DEF TakeLatest, TypeOK
<1>3. CASE Answer
  <2>1. requests' \in Seq(Requests)
    BY <1>3, ReceiveTypes DEF Answer
  <2>2. reply' \in BOOLEAN
    BY <1>3 DEF Answer
  <2> QED BY <1>3, <2>1, <2>2 DEF Answer, TypeOK, Requests
<1>4. CASE UiEnds
  <2>1. <<>> \in Seq(Requests)
    BY EmptySeq
  <2>2. uiUp' \in BOOLEAN /\ notified' \in BOOLEAN
    BY <1>4 DEF UiEnds
  <2> QED BY <1>4, <2>1, <2>2 DEF UiEnds, TypeOK, Requests
<1> QED BY <1>1, <1>2, <1>3, <1>4 DEF UiStep

-----------------------------------------------------------------------------
(* The notifications on their way.                                         *)

Notes == {i \in DOMAIN requests : requests[i] = Notification}

LEMMA NotesFinite ==
    ASSUME TypeOK
    PROVE  /\ IsFiniteSet(Notes) /\ Cardinality(Notes) \in Nat
           /\ Cardinality(Notes) = 0 <=> Notes = {}
<1>1. IsFiniteSet(DOMAIN requests)
  <2>1. DOMAIN requests = 1 .. Len(requests) /\ Len(requests) \in Nat
    BY LenProperties DEF TypeOK
  <2> QED BY <2>1, FS_Interval
<1>2. IsFiniteSet(Notes)
  BY <1>1, FS_Subset DEF Notes
<1> QED BY <1>2, FS_CardinalityType, FS_EmptySet

\* What OneNotification says, without counting.
LEMMA OnTheWayForm ==
    ASSUME TypeOK
    PROVE  /\ OnTheWay = 0 <=> (Notes = {} /\ pc # "notify" /\ ~notified)
           /\ OnTheWay = 1 <=>
                \/ Cardinality(Notes) = 1 /\ pc # "notify" /\ ~notified
                \/ Notes = {} /\ pc = "notify" /\ ~notified
                \/ Notes = {} /\ pc # "notify" /\ notified
<1>1. OnTheWay = Cardinality(Notes) + (IF pc = "notify" THEN 1 ELSE 0)
                                    + (IF notified THEN 1 ELSE 0)
  BY DEF OnTheWay, Notes
<1> QED BY <1>1, NotesFinite DEF TypeOK

\* While the UI thread lives, an unused mailbox has nothing on its way.
LEMMA IdleBox ==
    ASSUME TypeOK, OneNotification, uiUp, Notes = {}, pc # "notify", ~notified
    PROVE  ~queued /\ latest = None
BY OnTheWayForm DEF OneNotification

\* A step that sends, receives and publishes nothing.
LEMMA SameWay ==
    ASSUME OneNotification, UNCHANGED <<requests, notified, latest, queued, uiUp>>,
           pc' = "notify" <=> pc = "notify"
    PROVE  OneNotification'
BY DEF OneNotification, OnTheWay

LEMMA LispKeeps ==
    ASSUME IInv, LispStep
    PROVE  IInv'
<1>1. /\ UNCHANGED <<cache, after, latest, queued, requests, reply, native>>
      /\ pc = "lisp" /\ pc' \in {"lisp", "ready", "render", "sendgrid", "panic"}
      /\ pc' \in {"render", "sendgrid"} => resume' \in {"lisp", "echo"}
      /\ IF pc' = "ready" THEN asked' \in frames' ELSE asked' = asked
  BY LispFacts DEF box
<1>2. TypeOK'
  BY LispTypes DEF IInv
<1>3. /\ ~Asking /\ ~Preparing /\ asked = None /\ reply = None
      /\ \A i \in DOMAIN requests : requests[i] = Notification
  BY <1>1 DEF IInv, Asking, Preparing, Rendering, Published, Prepared, ReplyInTime,
              QuestionLast
<1>4. ~Asking' /\ ~Published' /\ ~Rendering' /\ (Preparing' <=> pc' = "ready")
  BY <1>1 DEF Asking, Published, Rendering, Preparing
<1>5. Prepared' /\ ReplyInTime'
  BY <1>1, <1>3, <1>4 DEF Prepared, ReplyInTime
<1>6. Ended' /\ QuestionLast'
  BY <1>1, <1>3 DEF IInv, Ended, QuestionLast, native
<1>7. Steady' /\ Cached' /\ Shown'
  BY <1>1, <1>3, <1>4 DEF Steady, Cached, Shown
<1>8. OneNotification'
  BY <1>1, SameWay DEF IInv, native
<1>9. WarpFindsWindow'
  BY <1>1 DEF WarpFindsWindow
<1> QED BY <1>2, <1>5, <1>6, <1>7, <1>8, <1>9 DEF IInv

LEMMA InitIInv == Init => IInv
<1> SUFFICES ASSUME Init PROVE IInv
  OBVIOUS
<1>1. TypeOK
  BY InitTypes
<1>2. requests = <<>> /\ DOMAIN requests = {}
  <2>1. requests = <<>>
    BY DEF Init
  <2> QED BY <2>1, EmptySeq
<1>3. ~Preparing /\ ~Published /\ ~Asking
  BY DEF Init, Preparing, Published, Rendering, Asking
<1>4. Prepared /\ ReplyInTime /\ Ended /\ QuestionLast /\ Cached /\ Shown /\ WarpFindsWindow
  BY <1>2, <1>3 DEF Init, Prepared, ReplyInTime, Ended, QuestionLast, Cached, Shown,
                    WarpFindsWindow
<1>5. Steady
  BY <1>3 DEF Init, Steady
<1>6. OneNotification
  <2>1. Notes = {}
    BY <1>2 DEF Notes
  <2>2. OnTheWay = 0
    BY <1>1, <2>1, OnTheWayForm DEF Init
  <2> QED BY <2>2 DEF OneNotification, Init
<1> QED BY <1>1, <1>4, <1>5, <1>6 DEF IInv

\* Whoever publishes and finds nothing queued owes a notification.
LEMMA PublishKeepsCount ==
    ASSUME TypeOK, OneNotification, pc # "notify",
           NEW snapshot \in SUBSET Frame, NEW next \in {"lisp", "sendgrid", "echo", "confirm"},
           Publish(snapshot, next), UNCHANGED <<requests, notified, uiUp>>
    PROVE  OneNotification'
<1> SUFFICES ASSUME uiUp PROVE OnTheWay' = 1 /\ queued' /\ latest' # None
  BY DEF OneNotification
<1>1. queued' /\ latest' # None
  BY NoneFacts DEF Publish
<1>2. /\ OnTheWay = Cardinality(Notes) + (IF notified THEN 1 ELSE 0)
      /\ OnTheWay' = Cardinality(Notes) + (IF pc' = "notify" THEN 1 ELSE 0)
                                        + (IF notified THEN 1 ELSE 0)
  BY NotesFinite DEF OnTheWay, Notes
<1>3. OnTheWay = IF queued THEN 1 ELSE 0
  BY DEF OneNotification
<1>4. pc' = "notify" <=> ~queued
  BY DEF Publish
<1> QED BY <1>1, <1>2, <1>3, <1>4, NotesFinite

\* An operation ends, for good or with an error.
LEMMA BackToLisp ==
    ASSUME TypeOK', OneNotification', Ended', pc' = "lisp", asked' = None, reply' = None,
           \A i \in DOMAIN requests' : requests'[i] = Notification
    PROVE  IInv'
<1>1. ~Asking' /\ ~Published' /\ ~Rendering' /\ ~Preparing'
  BY DEF Asking, Published, Rendering, Preparing
<1>2. Prepared' /\ ReplyInTime' /\ QuestionLast'
  BY <1>1 DEF Prepared, ReplyInTime, QuestionLast
<1>3. Steady' /\ Cached' /\ Shown' /\ WarpFindsWindow'
  BY <1>1, NoneFacts DEF Steady, Cached, Shown, WarpFindsWindow
<1> QED BY <1>2, <1>3 DEF IInv

\* With no reply awaited or given there is no question in the channel.
LEMMA NoQuestion ==
    ASSUME IInv, ~Asking \/ reply # None
    PROVE  \A i \in DOMAIN requests : requests[i] = Notification
BY DEF IInv, QuestionLast

LEMMA FailsKeeps ==
    ASSUME IInv, TypeOK', ~uiUp, reply = None, pc' = "lisp", asked' = None,
           UNCHANGED <<requests, reply, native>>
    PROVE  IInv'
<1>1. requests' = <<>> /\ ~notified' /\ ~uiUp'
  BY DEF IInv, Ended, native
<1>2. \A i \in DOMAIN requests' : requests'[i] = Notification
  BY <1>1, EmptySeq
<1>3. OneNotification' /\ Ended'
  BY <1>1 DEF OneNotification, Ended
<1> QED BY <1>2, <1>3, BackToLisp

LEMMA NotifyKeeps ==
    ASSUME IInv, TypeOK', Notify
    PROVE  IInv'
<1>1. pc = "notify" /\ UNCHANGED <<editor, after, resume, active, cache, latest, reply, native>>
  BY DEF Notify, ptr
<1>2. ~Asking /\ reply = None
  BY <1>1 DEF IInv, Asking, ReplyInTime
<1>3. CASE ~uiUp
  BY <1>1, <1>2, <1>3, FailsKeeps DEF Notify, Fails
<1>4. CASE uiUp
  <2>1. /\ requests' = Append(requests, Notification)
        /\ pc' = after /\ UNCHANGED <<queued, asked>> /\ uiUp'
    BY <1>4, <1>1 DEF Notify, native
  <2>2. pc' \in {"lisp", "sendgrid", "echo", "confirm"}
    BY <2>1 DEF IInv, TypeOK
  <2>3. /\ DOMAIN requests' = 1 .. Len(requests) + 1 /\ Len(requests) \in Nat
        /\ DOMAIN requests = 1 .. Len(requests)
        /\ \A i \in DOMAIN requests : requests'[i] = requests[i]
        /\ requests'[Len(requests) + 1] = Notification
    BY <2>1, AppendProperties, LenProperties DEF IInv, TypeOK
  <2>4. \A i \in DOMAIN requests' : requests'[i] = Notification
    BY <2>3, <1>2, NoQuestion
  <2>5. ~Asking'
    BY <2>2 DEF Asking
  <2>6. Preparing' <=> Preparing
    BY <1>1, <2>1, <2>2, <1>2, <2>5 DEF Preparing, Rendering, Published
  <2>7. Prepared' /\ ReplyInTime' /\ Ended' /\ QuestionLast'
    BY <1>1, <1>2, <2>1, <2>4, <2>6 DEF IInv, Prepared, ReplyInTime, Ended, QuestionLast, editor
  <2>8. Steady' /\ Cached' /\ WarpFindsWindow'
    BY <1>1, <1>2, <2>1, <2>2, <2>5 DEF IInv, Steady, Cached, WarpFindsWindow
  <2>9. Shown'
    BY <1>1, <2>1, <2>2 DEF IInv, Shown, Published, native
  <2>10. OneNotification'
    <3>1. ~notified /\ Notes = {} /\ queued /\ latest # None
      BY <1>1, <1>4, OnTheWayForm DEF IInv, OneNotification
    <3>2. Notes' = {Len(requests) + 1}
      BY <3>1, <2>3 DEF Notes
    <3>3. Cardinality(Notes') = 1
      BY <3>2, FS_Singleton
    <3>4. OnTheWay' = Cardinality(Notes') + (IF pc' = "notify" THEN 1 ELSE 0)
                                          + (IF notified' THEN 1 ELSE 0)
      BY DEF OnTheWay, Notes
    <3>5. OnTheWay' = 1
      BY <3>1, <3>3, <3>4, <2>2, <1>1 DEF native
    <3> QED BY <3>1, <3>5, <1>1, <2>1 DEF OneNotification
  <2> QED BY <2>7, <2>8, <2>9, <2>10 DEF IInv
<1> QED BY <1>3, <1>4

\* A snapshot goes out while no reply is awaited; if it does on behalf of
\* prepare_frame, its frame is in it.
LEMMA PublishKeeps ==
    ASSUME IInv, TypeOK',
           NEW snapshot \in SUBSET Frame, NEW next \in {"lisp", "sendgrid", "echo", "confirm"},
           pc # "notify", Publish(snapshot, next),
           UNCHANGED <<editor, resume, asked, requests, native>>, reply' = None,
           ~Asking \/ reply # None,
           (next = "confirm" \/ (next = "sendgrid" /\ resume = "confirm")) <=> Preparing,
           Preparing => asked \in snapshot /\ asked \in cache'
    PROVE  IInv'
<1>1. /\ latest' = snapshot /\ latest' # None
      /\ pc' = next \/ (pc' = "notify" /\ after' = next)
  BY NoneFacts DEF Publish
<1>2. OneNotification'
  BY PublishKeepsCount DEF IInv, native
<1>3. ~Asking' /\ (Preparing' <=> Preparing)
  BY <1>1 DEF Asking, Preparing, Rendering, Published
<1>4. \A i \in DOMAIN requests' : requests'[i] = Notification
  BY NoQuestion
<1>5. Prepared' /\ ReplyInTime' /\ Ended' /\ QuestionLast'
  BY <1>3, <1>4 DEF IInv, Prepared, ReplyInTime, Ended, QuestionLast, editor, native
<1>6. Steady' /\ Cached' /\ WarpFindsWindow'
  BY <1>1, <1>3, NoneFacts DEF Steady, Cached, WarpFindsWindow, Preparing, Rendering, Published
<1>7. Shown'
  BY <1>1, <1>3 DEF Shown, Preparing, Rendering, Published
<1> QED BY <1>2, <1>5, <1>6, <1>7 DEF IInv

LEMMA RenderKeeps ==
    ASSUME IInv, TypeOK', Render
    PROVE  IInv'
<1>1. /\ pc = "render" /\ cache' = frames /\ Publish(frames, "sendgrid")
      /\ UNCHANGED <<editor, resume, asked, requests, reply, native>>
  BY DEF Render
<1>2. ~Asking /\ reply = None /\ (Preparing <=> resume = "confirm")
  BY <1>1 DEF IInv, Asking, ReplyInTime, Preparing, Rendering, Published
<1>3. Preparing => asked \in frames
  BY DEF IInv, Prepared
<1>4. frames \in SUBSET Frame
  BY DEF IInv, TypeOK
<1> QED BY <1>1, <1>2, <1>3, <1>4, PublishKeeps

LEMMA SendGridKeeps ==
    ASSUME IInv, TypeOK', SendGrid
    PROVE  IInv'
<1>1. /\ pc = "sendgrid"
      /\ UNCHANGED <<editor, resume, asked, cache, requests, reply, native>>
  BY DEF SendGrid, ptr
<1>2. ~Asking /\ reply = None /\ (Preparing <=> resume = "confirm")
  BY <1>1 DEF IInv, Asking, ReplyInTime, Preparing, Rendering, Published
<1>3. resume \in {"lisp", "echo", "confirm"} /\ cache \in SUBSET Frame
  BY DEF IInv, TypeOK
<1>4. Preparing => asked \in cache
  BY <1>1, <1>2 DEF IInv, Cached
<1>5. CASE active \in cache
  <2>1. Publish(cache, resume)
    BY <1>5 DEF SendGrid
  <2> QED BY <1>1, <1>2, <1>3, <1>4, <2>1, PublishKeeps
<1>6. CASE active \notin cache
  <2>1. pc' = resume /\ UNCHANGED <<after, latest, queued>>
    BY <1>6 DEF SendGrid, box
  <2>2. ~Asking' /\ (Preparing' <=> Preparing)
    BY <1>1, <1>2, <1>3, <2>1 DEF Asking, Preparing, Rendering, Published
  <2>3. Prepared' /\ ReplyInTime' /\ Ended' /\ QuestionLast'
    BY <1>1, <1>2, <2>2, NoQuestion
       DEF IInv, Prepared, ReplyInTime, Ended, QuestionLast, editor, native
  <2>4. Steady' /\ Cached' /\ WarpFindsWindow'
    BY <1>1, <1>2, <1>3, <2>1 DEF Steady, Cached, WarpFindsWindow, Asking
  <2>5. Shown'
    BY <1>1, <1>3, <2>1 DEF IInv, Shown, Published, native
  <2>6. OneNotification'
    BY <1>1, <1>3, <2>1, SameWay DEF IInv, native
  <2> QED BY <2>3, <2>4, <2>5, <2>6 DEF IInv
<1> QED BY <1>5, <1>6

LEMMA DrawEchoKeeps ==
    ASSUME IInv, TypeOK', DrawEcho
    PROVE  IInv'
<1>1. /\ pc = "echo" /\ pc' = "sendgrid" /\ resume' = "lisp"
      /\ UNCHANGED <<editor, asked, latest, queued, requests, reply, native>>
  BY DEF DrawEcho, box
<1>2. ~Asking /\ reply = None /\ ~Preparing
  BY <1>1 DEF IInv, Asking, ReplyInTime, Preparing, Rendering, Published
<1>3. ~Asking' /\ ~Preparing' /\ ~Published'
  BY <1>1 DEF Asking, Preparing, Rendering, Published
<1>4. Prepared' /\ ReplyInTime' /\ Ended' /\ QuestionLast'
  BY <1>1, <1>2, <1>3, NoQuestion
     DEF IInv, Prepared, ReplyInTime, Ended, QuestionLast, native
<1>5. Steady' /\ Cached' /\ Shown' /\ WarpFindsWindow'
  BY <1>1, <1>2, <1>3 DEF Steady, Cached, Shown, WarpFindsWindow
<1>6. OneNotification'
  BY <1>1, SameWay DEF IInv, native
<1> QED BY <1>4, <1>5, <1>6 DEF IInv

LEMMA AskKeeps ==
    ASSUME IInv, TypeOK', AskReady \/ AskConfirm \/ AskWarp
    PROVE  IInv'
<1>1. /\ pc \in {"ready", "confirm", "warp"}
      /\ UNCHANGED <<editor, after, resume, cache, latest, queued, reply, native>>
  BY DEF AskReady, AskConfirm, AskWarp, Ask, ptr, box
<1>2. ~Asking /\ reply = None /\ Preparing
  BY <1>1 DEF IInv, Asking, ReplyInTime, Preparing
<1>3. CASE ~uiUp
  BY <1>1, <1>2, <1>3, FailsKeeps DEF AskReady, AskConfirm, AskWarp, Ask, Fails
<1>4. CASE uiUp
  <2>1. /\ requests' = Append(requests, Question') /\ UNCHANGED asked
        /\ \/ pc = "ready" /\ pc' = "awaitReady"
           \/ pc = "confirm" /\ pc' = "awaitConfirm"
           \/ pc = "warp" /\ pc' = "awaitWarp"
    BY <1>4 DEF AskReady, AskConfirm, AskWarp, Ask, Question
  <2>2. Asking' /\ Preparing' /\ Question' # Notification
    BY <2>1, RequestsDiffer DEF Asking, Preparing, Question
  <2>3. Question' \in Requests
    <3>1. asked \in Frame
      BY <1>2 DEF IInv, Prepared, TypeOK
    <3> QED BY <3>1, <2>1 DEF Question, Requests
  <2>4. /\ DOMAIN requests' = 1 .. Len(requests) + 1 /\ Len(requests) \in Nat
        /\ Len(requests') = Len(requests) + 1
        /\ DOMAIN requests = 1 .. Len(requests)
        /\ \A i \in DOMAIN requests : requests'[i] = requests[i]
        /\ requests'[Len(requests) + 1] = Question'
    <3>1. requests \in Seq(Requests)
      BY DEF IInv, TypeOK, Requests
    <3>2. DOMAIN requests = 1 .. Len(requests) /\ Len(requests) \in Nat
      BY <3>1, LenProperties
    <3> QED BY <2>1, <2>3, <3>1, <3>2, AppendProperties
  <2>5. \A i \in DOMAIN requests : requests'[i] = Notification /\ requests[i] = Notification
    BY <1>2, <2>4, NoQuestion
  <2>6. Prepared' /\ ReplyInTime'
    BY <1>1, <1>2, <2>1, <2>2 DEF IInv, Prepared, ReplyInTime, editor
  <2>7. Ended'
    BY <1>1, <1>4 DEF Ended, native
  <2>8. QuestionLast'
    <3>1. \A i \in DOMAIN requests' : requests'[i] # Notification => i = Len(requests')
      BY <2>4, <2>5
    <3> QED BY <3>1, <1>1, <1>2, <2>2, <2>4 DEF QuestionLast
  <2>9. Steady'
    <3>1. CASE pc = "warp"
      <4>1. Quiet /\ asked \in windows
        BY <3>1 DEF IInv, Steady
      <4>2. Quiet'
        BY <4>1, <1>1, <2>2, <2>4 DEF Quiet, native
      <4> QED BY <4>1, <4>2, <1>1, <2>1 DEF Steady, native
    <3>2. CASE pc # "warp"
      BY <3>2, <1>1, <1>2, <2>1, NoneFacts DEF Steady
    <3> QED BY <3>1, <3>2
  <2>10. Cached' /\ Shown' /\ WarpFindsWindow'
    BY <1>1, <1>2, <2>1, NoneFacts DEF IInv, Cached, Shown, Published, WarpFindsWindow, native
  <2>11. OneNotification'
    <3>1. Notes' = Notes
      BY <2>2, <2>4 DEF Notes
    <3> QED BY <3>1, <1>1, <2>1 DEF IInv, OneNotification, OnTheWay, Notes, native
  <2> QED BY <2>6, <2>7, <2>8, <2>9, <2>10, <2>11 DEF IInv
<1> QED BY <1>3, <1>4

\* The window was open when the UI thread answered, and nothing that could
\* close it has been on its way since.
LEMMA WindowOpenKeeps ==
    ASSUME IInv, TypeOK', WindowReady \/ Confirmed
    PROVE  IInv'
<1>1. /\ Asking /\ reply = TRUE /\ reply' = None /\ pc' = "warp" /\ pc # "notify"
      /\ UNCHANGED <<editor, resume, asked, latest, queued, requests, native>>
  BY DEF WindowReady, Confirmed, Asking, box
<1>2. reply # None /\ \A i \in DOMAIN requests : requests[i] = Notification
  BY <1>1, NoneFacts, NoQuestion
<1>3. ~Asking' /\ Preparing' /\ ~Published'
  BY <1>1 DEF Asking, Preparing, Published
<1>4. Prepared' /\ ReplyInTime' /\ Ended' /\ QuestionLast'
  BY <1>1, <1>2, <1>3
     DEF IInv, Prepared, Preparing, ReplyInTime, Ended, QuestionLast, editor, native
<1>5. Quiet' /\ asked' \in windows'
  BY <1>1, <1>2 DEF IInv, Steady, Quiet, native
<1>6. Steady' /\ Cached' /\ Shown' /\ WarpFindsWindow'
  BY <1>1, <1>3, <1>5 DEF Steady, Cached, Shown, WarpFindsWindow
<1>7. OneNotification'
  BY <1>1, SameWay DEF IInv, native
<1> QED BY <1>4, <1>6, <1>7 DEF IInv

LEMMA WindowMissingKeeps ==
    ASSUME IInv, TypeOK', WindowMissing
    PROVE  IInv'
<1>1. /\ Asking /\ reply = FALSE /\ reply' = None /\ pc' = "render" /\ resume' = "confirm"
      /\ pc # "notify"
      /\ UNCHANGED <<editor, asked, latest, queued, requests, native>>
  BY DEF WindowMissing, Asking, box
<1>2. reply # None /\ \A i \in DOMAIN requests : requests[i] = Notification
  BY <1>1, NoneFacts, NoQuestion
<1>3. ~Asking' /\ Preparing' /\ ~Published'
  BY <1>1 DEF Asking, Preparing, Rendering, Published
<1>4. Prepared' /\ ReplyInTime' /\ Ended' /\ QuestionLast'
  BY <1>1, <1>2, <1>3
     DEF IInv, Prepared, Preparing, ReplyInTime, Ended, QuestionLast, editor, native
<1>5. Steady' /\ Cached' /\ Shown' /\ WarpFindsWindow'
  BY <1>1, <1>3 DEF Steady, Cached, Shown, WarpFindsWindow
<1>6. OneNotification'
  BY <1>1, SameWay DEF IInv, native
<1> QED BY <1>4, <1>5, <1>6 DEF IInv

LEMMA CallbackKeeps ==
    ASSUME IInv, TypeOK', WindowMissingInCallback
    PROVE  IInv'
<1>1. /\ Asking /\ reply = FALSE /\ reply' = None /\ pc # "notify"
      /\ Publish(frames, "confirm")
      /\ UNCHANGED <<editor, resume, asked, cache, requests, native>>
  BY DEF WindowMissingInCallback, Asking, ptr
<1>2. Preparing /\ asked \in frames /\ frames \in SUBSET Frame /\ reply # None
  BY <1>1, NoneFacts DEF IInv, Preparing, Prepared, TypeOK
<1>3. pc' \in {"confirm", "notify"} /\ (pc' = "notify" => after' = "confirm")
  BY <1>1 DEF Publish
<1>4. latest' = frames /\ latest' # None
  BY <1>1, <1>2, NoneFacts DEF Publish
<1>5. ~Asking' /\ Preparing' /\ \A i \in DOMAIN requests : requests[i] = Notification
  BY <1>2, <1>3, NoQuestion DEF Asking, Preparing, Rendering, Published
<1>6. Prepared' /\ ReplyInTime' /\ Ended' /\ QuestionLast'
  BY <1>1, <1>2, <1>5
     DEF IInv, Prepared, ReplyInTime, Ended, QuestionLast, editor, native
<1>7. Steady' /\ Cached' /\ Shown' /\ WarpFindsWindow'
  BY <1>1, <1>2, <1>3, <1>4, <1>5, NoneFacts DEF Steady, Cached, Shown, WarpFindsWindow
<1>8. OneNotification'
  BY <1>1, <1>2, PublishKeepsCount DEF IInv, native
<1> QED BY <1>6, <1>7, <1>8 DEF IInv

LEMMA GiveUpKeeps ==
    ASSUME IInv, TypeOK', NotOpen \/ Warped \/ ReplyLost
    PROVE  IInv'
<1>1. /\ Asking /\ pc # "notify" /\ pc' = "lisp" /\ asked' = None /\ reply' = None
      /\ UNCHANGED <<latest, queued, requests, native>>
      /\ reply # None \/ ~uiUp
  BY NoneFacts DEF NotOpen, Warped, ReplyLost, Asking, box
<1>2. \A i \in DOMAIN requests' : requests'[i] = Notification
  <2>1. CASE reply # None
    BY <1>1, <2>1, NoQuestion
  <2>2. CASE ~uiUp
    <3>1. requests' = <<>>
      BY <1>1, <2>2 DEF IInv, Ended
    <3> QED BY <3>1, EmptySeq
  <2> QED BY <1>1, <2>1, <2>2
<1>3. OneNotification' /\ Ended'
  BY <1>1, SameWay DEF IInv, Ended, native
<1> QED BY <1>1, <1>2, <1>3, BackToLisp

LEMMA LogicKeeps ==
    ASSUME IInv, LogicStep
    PROVE  IInv'
<1>1. TypeOK'
  BY LogicTypes DEF IInv
<1> QED BY <1>1, NotifyKeeps, RenderKeeps, SendGridKeeps, DrawEchoKeeps, AskKeeps,
           WindowOpenKeeps, WindowMissingKeeps, CallbackKeeps, GiveUpKeeps DEF LogicStep

-----------------------------------------------------------------------------
(* The steps of the UI thread.                                             *)

\* The request it receives is the first one; the others move up.
LEMMA ReceivesFirst ==
    ASSUME TypeOK, NEW kind, Receives(kind)
    PROVE  /\ 1 \in DOMAIN requests /\ requests[1].kind = kind
           /\ Len(requests) \in Nat /\ DOMAIN requests = 1 .. Len(requests)
           /\ Len(requests') = Len(requests) - 1
           /\ DOMAIN requests' = 1 .. Len(requests) - 1
           /\ \A i \in DOMAIN requests' : requests'[i] = requests[i + 1]
<1>1. requests \in Seq(Requests) /\ requests # <<>>
  BY DEF TypeOK, Receives, Requests
<1>2. /\ Len(requests) \in Nat /\ Len(requests) # 0 /\ DOMAIN requests = 1 .. Len(requests)
  BY <1>1, LenProperties, EmptySeq
<1> QED BY <1>1, <1>2, HeadTailProperties DEF Receives

LEMMA ReceiveNotificationKeeps ==
    ASSUME IInv, TypeOK', ReceiveNotification
    PROVE  IInv'
<1>1. /\ Receives("snapshots") /\ uiUp /\ ~notified /\ notified' = TRUE
      /\ UNCHANGED <<editor, pc, after, resume, asked, cache, latest, queued, reply,
                     windows, refused, uiUp>>
  BY DEF ReceiveNotification, Receives, ptr, box
<1>2. /\ 1 \in DOMAIN requests /\ requests[1].kind = "snapshots"
      /\ Len(requests) \in Nat /\ DOMAIN requests = 1 .. Len(requests)
      /\ Len(requests') = Len(requests) - 1
      /\ DOMAIN requests' = 1 .. Len(requests) - 1
      /\ \A i \in DOMAIN requests' : requests'[i] = requests[i + 1]
  BY <1>1, ReceivesFirst DEF IInv
<1>3. requests[1] = Notification
  <2>1. requests[1] \in Requests
    BY <1>2 DEF IInv, TypeOK, Requests
  <2> QED BY <1>2, <2>1 DEF Requests, FrameReady, WarpPointer
<1>4. ~Quiet
  BY <1>2, <1>3 DEF Quiet
<1>5. pc \notin {"warp", "awaitWarp"} /\ reply = None
  BY <1>4 DEF IInv, Steady
<1>6. Prepared' /\ ReplyInTime' /\ Ended'
  BY <1>1 DEF IInv, Prepared, Preparing, Asking, Rendering, Published, ReplyInTime, Ended, editor
<1>7. QuestionLast'
  <2> SUFFICES ASSUME NEW i \in DOMAIN requests', requests'[i] # Notification
               PROVE  /\ Asking' /\ reply' = None
                      /\ i = Len(requests') /\ requests'[i] = Question'
    BY DEF QuestionLast
  <2>1. i + 1 \in DOMAIN requests /\ requests'[i] = requests[i + 1] /\ i \in Nat
    BY <1>2
  <2>2. Asking /\ reply = None /\ i + 1 = Len(requests) /\ requests[i + 1] = Question
    BY <2>1 DEF IInv, QuestionLast
  <2> QED BY <1>1, <1>2, <2>1, <2>2 DEF Asking, Question
<1>8. Steady' /\ Cached' /\ Shown' /\ WarpFindsWindow'
  BY <1>1, <1>5, NoneFacts DEF IInv, Steady, Cached, Shown, Published, WarpFindsWindow
<1>9. OneNotification'
  <2>1. 1 \in Notes
    BY <1>2, <1>3 DEF Notes
  <2>2. /\ OnTheWay = Cardinality(Notes) + (IF pc = "notify" THEN 1 ELSE 0)
                                         + (IF notified THEN 1 ELSE 0)
        /\ OnTheWay = IF queued THEN 1 ELSE 0
        /\ queued <=> latest # None
    BY <1>1 DEF IInv, OneNotification, OnTheWay, Notes
  <2>3. Cardinality(Notes) \in Nat /\ Cardinality(Notes) # 0 /\ IsFiniteSet(Notes)
    BY <2>1, NotesFinite DEF IInv
  <2>4. Cardinality(Notes) = 1 /\ pc # "notify" /\ queued
    BY <1>1, <2>2, <2>3
  <2>5. Notes = {1}
    <3>1. PICK x : Notes = {x}
      BY <2>3, <2>4, FS_Singleton
    <3> QED BY <2>1, <3>1
  <2>6. Notes' = {}
    <3>1. ASSUME NEW i \in DOMAIN requests', requests'[i] = Notification PROVE FALSE
      <4>1. i + 1 \in Notes /\ i + 1 # 1
        BY <1>2, <3>1 DEF Notes
      <4> QED BY <4>1, <2>5
    <3> QED BY <3>1 DEF Notes
  <2>7. OnTheWay' = Cardinality(Notes') + (IF pc' = "notify" THEN 1 ELSE 0)
                                        + (IF notified' THEN 1 ELSE 0)
    BY DEF OnTheWay, Notes
  <2>8. OnTheWay' = 1
    BY <1>1, <2>4, <2>6, <2>7, FS_EmptySet
  <2> QED BY <1>1, <2>2, <2>4, <2>8 DEF OneNotification
<1> QED BY <1>6, <1>7, <1>8, <1>9 DEF IInv

LEMMA TakeLatestKeeps ==
    ASSUME IInv, TypeOK', TakeLatest
    PROVE  IInv'
<1>1. /\ uiUp /\ notified /\ notified' = FALSE /\ queued' = FALSE /\ latest' = None
      /\ UNCHANGED <<editor, pc, after, resume, asked, cache, requests, reply, uiUp>>
  BY DEF TakeLatest, ptr
<1>2. Notes = {} /\ pc # "notify" /\ latest # None
  BY <1>1, OnTheWayForm DEF IInv, OneNotification
<1>3. pc \notin {"warp", "awaitWarp"} /\ reply = None
  BY <1>1 DEF IInv, Steady, Quiet
<1>4. refused' \subseteq latest /\ windows' = latest \ refused'
  BY <1>2 DEF TakeLatest, Draw
<1>5. Prepared' /\ ReplyInTime' /\ Ended' /\ QuestionLast'
  BY <1>1 DEF IInv, Prepared, Preparing, Asking, Rendering, Published, ReplyInTime, Ended,
              QuestionLast, Question, editor
<1>6. Steady' /\ Cached' /\ WarpFindsWindow'
  BY <1>1, <1>3, NoneFacts DEF IInv, Steady, Cached, WarpFindsWindow
<1>7. Shown'
  BY <1>1, <1>2, <1>4 DEF IInv, Shown, Published
<1>8. OneNotification'
  <2>1. Notes' = {}
    BY <1>1, <1>2 DEF Notes
  <2>2. OnTheWay' = Cardinality(Notes') + (IF pc' = "notify" THEN 1 ELSE 0)
                                        + (IF notified' THEN 1 ELSE 0)
    BY DEF OnTheWay, Notes
  <2>3. OnTheWay' = 0
    BY <1>1, <1>2, <2>1, <2>2, FS_EmptySet
  <2> QED BY <1>1, <2>3 DEF OneNotification
<1> QED BY <1>5, <1>6, <1>7, <1>8 DEF IInv

\* The question is the last request, so no notification is on its way: every
\* snapshot published has been drawn when the answer is given.
LEMMA AnswerKeeps ==
    ASSUME IInv, TypeOK', Answer
    PROVE  IInv'
<1>1. /\ uiUp /\ ~notified
      /\ reply' = (Head(requests).frame \in windows)
      /\ UNCHANGED <<editor, pc, after, resume, asked, cache, latest, queued, notified,
                     windows, refused, uiUp>>
  BY DEF Answer, Receives, ptr, box, native
<1>2. /\ 1 \in DOMAIN requests /\ requests[1].kind \in {"ready", "warp"}
      /\ Len(requests) \in Nat /\ DOMAIN requests = 1 .. Len(requests)
      /\ Len(requests') = Len(requests) - 1
      /\ DOMAIN requests' = 1 .. Len(requests) - 1
  BY ReceivesFirst DEF Answer, IInv
<1>3. requests[1] # Notification
  BY <1>2 DEF Notification
<1>4. Asking /\ reply = None /\ 1 = Len(requests) /\ requests[1] = Question
  BY <1>2, <1>3 DEF IInv, QuestionLast
<1>5. reply' = (asked \in windows)
  <2>1. Head(requests) = requests[1]
    BY <1>2, HeadTailProperties DEF IInv, TypeOK, Answer, Receives
  <2> QED BY <1>1, <1>4, <2>1 DEF Question, FrameReady, WarpPointer
<1>6. DOMAIN requests = {1} /\ DOMAIN requests' = {}
  <2>1. Len(requests) = 1 /\ DOMAIN requests = 1 .. Len(requests)
        /\ DOMAIN requests' = 1 .. Len(requests) - 1
    BY <1>2, <1>4
  <2> QED BY <2>1
<1>7. Notes = {} /\ Notes' = {} /\ Quiet'
  BY <1>1, <1>3, <1>6 DEF Notes, Quiet
<1>8. pc # "notify" /\ pc' # "notify"
  BY <1>1, <1>4 DEF Asking
<1>9. ~queued /\ latest = None
  BY <1>1, <1>7, <1>8, IdleBox DEF IInv
<1>10. Prepared' /\ ReplyInTime' /\ Ended' /\ QuestionLast'
  BY <1>1, <1>4, <1>6 DEF IInv, Prepared, Preparing, Asking, Rendering, Published,
                          ReplyInTime, Ended, QuestionLast, editor
<1>11. Steady' /\ Cached' /\ Shown'
  BY <1>1, <1>5, <1>7 DEF IInv, Steady, Cached, Shown, Published
<1>12. WarpFindsWindow'
  <2>1. pc = "awaitWarp" => asked \in windows
    BY DEF IInv, Steady
  <2>2. pc = "awaitConfirm" => asked \in windows \cup refused
    BY <1>9 DEF IInv, Shown
  <2> QED BY <1>1, <1>5, <2>1, <2>2 DEF WarpFindsWindow
<1>13. OneNotification'
  <2>1. OnTheWay' = 0
    BY <1>1, <1>7, <1>8, FS_EmptySet DEF OnTheWay, Notes
  <2> QED BY <1>1, <1>9, <2>1 DEF OneNotification
<1> QED BY <1>10, <1>11, <1>12, <1>13 DEF IInv

LEMMA UiEndsKeeps ==
    ASSUME IInv, TypeOK', UiEnds
    PROVE  IInv'
<1>1. /\ requests' = <<>> /\ ~notified' /\ ~uiUp'
      /\ UNCHANGED <<editor, pc, after, resume, asked, cache, latest, queued, reply,
                     windows, refused>>
  BY DEF UiEnds, ptr, box
<1>2. DOMAIN requests' = {}
  BY <1>1, EmptySeq
<1>3. Prepared' /\ ReplyInTime' /\ Ended' /\ QuestionLast'
  BY <1>1, <1>2 DEF IInv, Prepared, Preparing, Asking, Rendering, Published,
                    ReplyInTime, Ended, QuestionLast, editor
<1>4. Steady' /\ Cached' /\ Shown' /\ WarpFindsWindow'
  BY <1>1, <1>2 DEF IInv, Steady, Quiet, Asking, Cached, Shown, Published, WarpFindsWindow
<1>5. OneNotification'
  BY <1>1 DEF OneNotification
<1> QED BY <1>3, <1>4, <1>5 DEF IInv

LEMMA StutterKeeps ==
    ASSUME IInv, UNCHANGED vars
    PROVE  IInv'
<1>1. UNCHANGED <<frames, born, selected, deleting, borrowed, due, pc, after, resume, asked>>
  BY DEF vars, editor, loop
<1>2. UNCHANGED <<active, cache, latest, queued, requests, reply, notified, windows,
                  primary, refused, uiUp, drawn, logicUp>>
  BY DEF vars, ptr, box, native
<1>3. TypeOK' /\ Prepared' /\ ReplyInTime' /\ Ended'
  BY <1>1, <1>2 DEF IInv, TypeOK, Prepared, Preparing, Asking, Rendering, Published,
                    ReplyInTime, Ended
<1>4. QuestionLast' /\ Steady' /\ Cached' /\ Shown'
  BY <1>1, <1>2 DEF IInv, QuestionLast, Question, Asking, Steady, Quiet, Cached, Shown, Published
<1>5. OneNotification' /\ WarpFindsWindow'
  BY <1>1, <1>2 DEF IInv, OneNotification, OnTheWay, WarpFindsWindow
<1> QED BY <1>3, <1>4, <1>5 DEF IInv

LEMMA StepKeeps ==
    ASSUME IInv, [Next]_vars
    PROVE  IInv'
<1>1. ASSUME UiStep \/ UiEnds PROVE IInv'
  <2>1. TypeOK'
    BY <1>1, UiTypes DEF IInv
  <2> QED BY <1>1, <2>1, ReceiveNotificationKeeps, TakeLatestKeeps, AnswerKeeps, UiEndsKeeps
          DEF UiStep
<1> QED BY <1>1, LispKeeps, LogicKeeps, StutterKeeps DEF Next

-----------------------------------------------------------------------------
(* The theorems.                                                           *)

LEMMA Inductive == Spec => []IInv
<1>1. Init => IInv
  BY InitIInv
<1>2. IInv /\ [Next]_vars => IInv'
  BY StepKeeps
<1> QED BY <1>1, <1>2, PTL DEF Spec

\* Every variable keeps the type its Rust declaration gives it, and the
\* frames of every snapshot, window and question have been made.
THEOREM GuiTypesKept == Spec => []TypeOK
<1>1. IInv => TypeOK
  BY DEF IInv
<1> QED BY <1>1, Inductive, PTL

\* FrameSnapshotMailbox: for any number of frames, while the UI thread lives,
\* the mailbox is full exactly when one notification is on its way.
THEOREM OneNotificationAtATime == Spec => []OneNotification
<1>1. IInv => OneNotification
  BY DEF IInv
<1> QED BY <1>1, Inductive, PTL

\* prepare_frame and warp_pointer: the pointer is only warped in an open
\* window, and prepare_frame fails only for a window the platform refused.
THEOREM WarpsInOpenWindow == Spec => []WarpFindsWindow
<1>1. IInv => WarpFindsWindow
  BY DEF IInv
<1> QED BY <1>1, Inductive, PTL

\* The mailbox and its drawing implement the safety part of LatestValue: what
\* is drawn is always the newest snapshot of the moment, never an older one
\* and never one drawn already.
THEOREM DrawsOnlyTheNewest == Spec => Mailbox!Safety
<1>1. Init => Mailbox!Init
  BY FrameAssumption DEF Init, Mailbox!Init, Offered
<1>2. IInv /\ [Next]_vars => [Mailbox!Next]_<<Offered, drawn>>
  <2>1. ASSUME IInv, LispStep PROVE UNCHANGED <<Offered, drawn>>
    BY <2>1, LispFacts DEF Offered, box, native
  <2>2. ASSUME IInv, LogicStep PROVE [Mailbox!Next]_<<Offered, drawn>>
    <3>1. UNCHANGED <<drawn, uiUp>>
      BY <2>2 DEF LogicStep, Notify, Render, SendGrid, DrawEcho, AskReady, AskConfirm, AskWarp,
                  Ask, WindowReady, WindowMissing, WindowMissingInCallback, Confirmed, NotOpen,
                  Warped, ReplyLost, native
    <3>2. latest' = latest \/ latest' \in {frames, cache}
      BY <2>2 DEF LogicStep, Notify, Render, SendGrid, DrawEcho, AskReady, AskConfirm, AskWarp,
                  Ask, WindowReady, WindowMissing, WindowMissingInCallback, Confirmed, NotOpen,
                  Warped, ReplyLost, Publish, box
    <3>3. Offered' = Offered \/ (Offered' \in SUBSET Frame)
      BY <2>2, <3>1, <3>2 DEF IInv, TypeOK, Offered
    <3> QED BY <3>1, <3>3 DEF Mailbox!Next, Mailbox!Offer
  <2>3. ASSUME IInv, UiStep PROVE [Mailbox!Next]_<<Offered, drawn>>
    <3>1. CASE ReceiveNotification \/ Answer
      BY <3>1 DEF ReceiveNotification, Answer, Offered, box, native
    <3>2. CASE TakeLatest
      <4>1. uiUp /\ notified /\ latest' = None
        BY <3>2 DEF TakeLatest
      <4>2. latest # None
        BY <2>3, <4>1, OnTheWayForm DEF IInv, OneNotification
      <4>3. drawn' = latest /\ Offered = latest /\ Offered' = latest
        BY <3>2, <4>1, <4>2 DEF TakeLatest, Draw, Offered
      <4> QED BY <4>3 DEF Mailbox!Next, Mailbox!Show
    <3> QED BY <2>3, <3>1, <3>2 DEF UiStep
  <2>4. ASSUME IInv, UiEnds PROVE [Mailbox!Next]_<<Offered, drawn>>
    <3>1. Offered' = drawn /\ drawn' = drawn
      BY <2>4 DEF UiEnds, Offered
    <3> QED BY <2>4, <3>1 DEF IInv, TypeOK, Mailbox!Next, Mailbox!Offer
  <2>5. ASSUME UNCHANGED vars PROVE UNCHANGED <<Offered, drawn>>
    BY <2>5 DEF vars, box, native, Offered
  <2> QED BY <2>1, <2>2, <2>3, <2>4, <2>5 DEF Next
<1> QED BY <1>1, <1>2, Inductive, PTL DEF Spec, Mailbox!Safety
=============================================================================
