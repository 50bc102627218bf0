----------------------------- MODULE GuiFrames -----------------------------
(***************************************************************************)
(* Frames and their native windows.  The logic thread runs the editor and  *)
(* owns the frames; the UI thread owns the windows.  Snapshots of all live *)
(* frames go through a mailbox that keeps the newest only, and a request   *)
(* queue carries at most one notification that the mailbox is full         *)
(* (FrameSnapshotMailbox and GuiFrameVisibilityBackend in                  *)
(* crates/gui/src/logic.rs, the request loop in crates/gui/src/lib.rs,     *)
(* the redisplay sequences in crates/runtime/src/frontend).                *)
(*                                                                         *)
(* A snapshot is the set of frames it shows; what it draws in them is left *)
(* out.  The logic thread goes through the program counter `pc'; with pc = *)
(* "lisp" it runs Lisp, or the command loop between two steps of it.       *)
(***************************************************************************)
EXTENDS Naturals, Sequences, FiniteSets

CONSTANTS
    Frame,      \* the frames that may ever exist
    First,      \* the frame startup makes
    None,       \* an empty mailbox, no reply, no frame
    Nesting,    \* bound: delete-frame calls inside one another's hook
    CanFail,    \* whether the platform may refuse to open a window
    CanClose    \* whether either thread may end

ASSUME FrameAssumption == First \in Frame /\ IsFiniteSet(Frame)
ASSUME NoneAssumption  == /\ None \notin Frame /\ None \notin BOOLEAN
                          /\ None \notin {"render", "both", "echo"}
                          /\ \A snapshot \in SUBSET Frame : snapshot # None
ASSUME NestingAssumption == Nesting \in Nat
ASSUME BoolAssumption  == CanFail \in BOOLEAN /\ CanClose \in BOOLEAN

VARIABLES
    frames,     \* i.frames, the live ones
    born,       \* frames made so far
    selected,   \* i.selected_frame
    deleting,   \* frames whose delete-frame-functions run, innermost first
    borrowed,   \* a pre-redisplay function runs: ChanIo is borrowed
    due,        \* what follows the pre-redisplay functions, or None
    pc,         \* where the logic thread is
    after,      \* where it goes once the mailbox's notification is sent
    resume,     \* where it goes once a render is complete
    asked,      \* the frame prepare_frame was called for
    active,     \* ChanIo::active_frame_id
    cache,      \* ChanIo::latest_snapshots
    latest,     \* FrameSnapshotMailboxState::latest
    queued,     \* FrameSnapshotMailboxState::notification_queued
    requests,   \* the GuiRequest channel
    reply,      \* the sync_channel of the request the logic thread awaits
    notified,   \* the UI thread has received a notification
    windows,    \* the UI thread's windows, by frame
    primary,    \* the window opened at startup is still without a frame
    refused,    \* frames of the last snapshot whose window did not open
    logicUp, uiUp,
    drawn       \* history: the snapshot drawn last

editor == <<frames, born, selected, deleting>>
loop   == <<borrowed, due>>
ptr    == <<active, cache>>
box    == <<latest, queued>>
native == <<notified, windows, primary, refused, uiUp, drawn>>
vars   == <<editor, loop, pc, after, resume, asked, ptr, box, requests, reply,
            native, logicUp>>

Notification == [kind |-> "snapshots", frame |-> None]
FrameReady(f) == [kind |-> "ready", frame |-> f]
WarpPointer(f) == [kind |-> "warp", frame |-> f]

\* What follows run_pre_redisplay_functions in the command loop and sit-for
\* ("render"), in isearch ("both") and in the minibuffer ("echo").
Redisplay == {"render", "both", "echo"}

Init ==
    /\ frames = {First} /\ born = {First} /\ selected = First /\ deleting = <<>>
    /\ borrowed = FALSE /\ due = None
    /\ pc = "lisp" /\ after = "lisp" /\ resume = "lisp" /\ asked = None
    /\ active = First /\ cache = {}
    /\ latest = None /\ queued = FALSE /\ requests = <<>> /\ reply = None
    /\ notified = FALSE /\ windows = {} /\ primary = TRUE /\ refused = {}
    /\ logicUp = TRUE /\ uiUp = TRUE
    /\ drawn = {}

(***************************************************************************)
(* Lisp.                                                                   *)
(***************************************************************************)
InLisp == logicUp /\ pc = "lisp"

MakeFrame(f) ==
    /\ InLisp /\ f \notin born
    /\ frames' = frames \cup {f} /\ born' = born \cup {f}
    /\ UNCHANGED <<selected, deleting, loop, pc, after, resume, asked, ptr, box,
                   requests, reply, native, logicUp>>

\* delete-frame refuses the only frame, then runs delete-frame-functions:
\* Lisp, which may delete other frames, or this one.
DeleteFrame(f) ==
    /\ InLisp /\ Len(deleting) < Nesting
    /\ f \in frames /\ frames # {f}
    /\ deleting' = <<f>> \o deleting
    /\ UNCHANGED <<frames, born, selected, loop, pc, after, resume, asked, ptr, box,
                   requests, reply, native, logicUp>>

DeleteHookError ==
    /\ InLisp /\ deleting # <<>>
    /\ deleting' = Tail(deleting)
    /\ UNCHANGED <<frames, born, selected, loop, pc, after, resume, asked, ptr, box,
                   requests, reply, native, logicUp>>

\* Mutant: delete-frame that leaves the selected frame selected.
FrameDeletedStaysSelected ==
    /\ InLisp /\ deleting # <<>> /\ frames # {Head(deleting)}
    /\ deleting' = Tail(deleting)
    /\ frames' = frames \ {Head(deleting)}
    /\ UNCHANGED <<born, selected, loop, pc, after, resume, asked, ptr, box,
                   requests, reply, native, logicUp>>

\* After the hook: if the frame is selected another one is selected first.
FrameDeleted ==
    /\ InLisp /\ deleting # <<>> /\ frames # {Head(deleting)}
    /\ deleting' = Tail(deleting)
    /\ frames' = frames \ {Head(deleting)}
    /\ selected' \in IF selected = Head(deleting) THEN frames' ELSE {selected}
    /\ UNCHANGED <<born, loop, pc, after, resume, asked, ptr, box, requests, reply,
                   native, logicUp>>

\* ... and when there is no other, `unwrap' panics: nothing catches that in the
\* logic thread, which is gone.
NoReplacement ==
    /\ InLisp /\ deleting # <<>> /\ frames = {Head(deleting)}
    /\ pc' = "panic" /\ logicUp' = FALSE
    /\ UNCHANGED <<editor, loop, after, resume, asked, ptr, box, requests, reply,
                   native>>

SelectFrame(f) ==
    /\ InLisp /\ f \in frames /\ f # selected
    /\ selected' = f
    /\ UNCHANGED <<frames, born, deleting, loop, pc, after, resume, asked, ptr, box,
                   requests, reply, native, logicUp>>

\* unwrap_frame_event: an event makes the frame of its window active, which
\* may have been deleted since.
FrameEvent(f) ==
    /\ InLisp /\ ~borrowed /\ f \in born /\ f # active
    /\ active' = f
    /\ UNCHANGED <<editor, loop, pc, after, resume, asked, cache, box, requests,
                   reply, native, logicUp>>

\* A redisplay: pre-redisplay functions run with ChanIo borrowed, then Lisp
\* (window-change functions, menus) runs once more without.  A redisplay and a
\* delete-frame end in the reverse of the order they began in: only the second
\* inside the first is modelled.
PreRedisplay(what) ==
    /\ InLisp /\ due = None /\ deleting = <<>>
    /\ borrowed' = TRUE /\ due' = what
    /\ UNCHANGED <<editor, pc, after, resume, asked, ptr, box, requests, reply,
                   native, logicUp>>

PreRedisplayOver ==
    /\ InLisp /\ borrowed /\ deleting = <<>>
    /\ borrowed' = FALSE
    /\ UNCHANGED <<editor, due, pc, after, resume, asked, ptr, box, requests,
                   reply, native, logicUp>>

\* sit-for returns the error of a pre-redisplay function instead.
SitForError ==
    /\ InLisp /\ borrowed /\ due = "render" /\ deleting = <<>>
    /\ borrowed' = FALSE /\ due' = None
    /\ UNCHANGED <<editor, pc, after, resume, asked, ptr, box, requests, reply,
                   native, logicUp>>

\* ... and the screen is redrawn: render, render and echo, or echo alone.
Redraw ==
    /\ InLisp /\ due # None /\ ~borrowed /\ deleting = <<>>
    /\ due' = None
    /\ pc' = IF due = "echo" THEN "sendgrid" ELSE "render"
    /\ resume' = IF due = "both" THEN "echo" ELSE "lisp"
    /\ UNCHANGED <<editor, borrowed, after, asked, ptr, box, requests, reply,
                   native, logicUp>>

\* A single-key prompt draws the echo area without any of that.
Prompt ==
    /\ InLisp /\ due = None
    /\ pc' = "sendgrid" /\ resume' = "lisp"
    /\ UNCHANGED <<editor, loop, after, asked, ptr, box, requests, reply,
                   native, logicUp>>

(***************************************************************************)
(* FrameSnapshotMailbox::publish: replace the value under the lock, then   *)
(* send a notification unless one is queued.                               *)
(***************************************************************************)

Publish(snapshot, next) ==
    /\ latest' = snapshot /\ queued' = TRUE
    /\ IF queued THEN pc' = next /\ UNCHANGED after
       ELSE pc' = "notify" /\ after' = next

\* What an Err does to the caller: an echo ignores it, prepare_frame raises
\* it in Lisp, a render ends the command loop or raises it in sit-for.
Fails == pc' = "lisp" /\ asked' = None /\ logicUp' \in BOOLEAN

Notify ==
    /\ pc = "notify"
    /\ IF uiUp
       THEN /\ requests' = Append(requests, Notification)
            /\ pc' = after /\ UNCHANGED <<queued, asked, logicUp>>
       ELSE /\ queued' = FALSE
            /\ Fails /\ UNCHANGED requests
    /\ UNCHANGED <<editor, loop, after, resume, ptr, latest, reply, native>>

\* ChanIo::render publishes the live frames and goes on to send_grid.
Render ==
    /\ pc = "render"
    /\ active' = selected /\ cache' = frames
    /\ Publish(frames, "sendgrid")
    /\ UNCHANGED <<editor, loop, resume, asked, requests, reply, native, logicUp>>

\* ChanIo::send_grid publishes the cached snapshots once more, with the new
\* grid of the active frame if it is among them.
SendGrid ==
    /\ pc = "sendgrid"
    /\ IF active \in cache THEN Publish(cache, resume)
       ELSE pc' = resume /\ UNCHANGED <<after, box>>
    /\ UNCHANGED <<editor, loop, resume, asked, ptr, requests, reply, native,
                   logicUp>>

\* draw_echo_message_with_state, after isearch's render.
DrawEcho ==
    /\ pc = "echo"
    /\ pc' = "sendgrid" /\ resume' = "lisp"
    /\ UNCHANGED <<editor, loop, after, asked, ptr, box, requests, reply, native,
                   logicUp>>

(***************************************************************************)
(* set-mouse-position: prepare_frame, then warp_pointer.                   *)
(***************************************************************************)
PrepareFrame(f) ==
    /\ InLisp /\ f \in frames
    /\ asked' = f /\ pc' = "ready"
    /\ UNCHANGED <<editor, loop, after, resume, ptr, box, requests, reply, native,
                   logicUp>>

\* A request with a reply channel; the logic thread blocks on the reply.
Ask(here, there, request) ==
    /\ pc = here
    /\ IF uiUp THEN /\ requests' = Append(requests, request)
                    /\ pc' = there /\ UNCHANGED <<asked, logicUp>>
       ELSE Fails /\ UNCHANGED requests
    /\ UNCHANGED <<editor, loop, after, resume, ptr, box, reply, native>>

AskReady   == Ask("ready", "awaitReady", FrameReady(asked))
AskConfirm == Ask("confirm", "awaitConfirm", FrameReady(asked))
AskWarp    == Ask("warp", "awaitWarp", WarpPointer(asked))

\* native_frame_ready: an open window is enough.  If it is not open the frame
\* is rendered, or, when ChanIo is borrowed, its state is published without
\* touching ChanIo's caches.
WindowReady ==
    /\ pc = "awaitReady" /\ reply = TRUE
    /\ reply' = None /\ pc' = "warp"
    /\ UNCHANGED <<editor, loop, after, resume, asked, ptr, box, requests, native,
                   logicUp>>

WindowMissing ==
    /\ pc = "awaitReady" /\ reply = FALSE /\ ~borrowed
    /\ reply' = None /\ pc' = "render" /\ resume' = "confirm"
    /\ UNCHANGED <<editor, loop, after, asked, ptr, box, requests, native, logicUp>>

WindowMissingInCallback ==
    /\ pc = "awaitReady" /\ reply = FALSE /\ borrowed
    /\ reply' = None /\ Publish(frames, "confirm")
    /\ UNCHANGED <<editor, loop, resume, asked, ptr, requests, native, logicUp>>

\* Mutant: prepare_frame that trusts its own render.
ConfirmedAnyway ==
    /\ pc = "awaitConfirm" /\ reply \in BOOLEAN
    /\ reply' = None /\ pc' = "warp"
    /\ UNCHANGED <<editor, loop, after, resume, asked, ptr, box, requests, native,
                   logicUp>>

Confirmed ==
    /\ pc = "awaitConfirm" /\ reply = TRUE
    /\ reply' = None /\ pc' = "warp"
    /\ UNCHANGED <<editor, loop, after, resume, asked, ptr, box, requests, native,
                   logicUp>>

\* Mutant: prepare_frame that tries again until the window is open.
NotOpenRetries ==
    /\ pc = "awaitConfirm" /\ reply = FALSE
    /\ reply' = None /\ pc' = "ready"
    /\ UNCHANGED <<editor, loop, after, resume, asked, ptr, box, requests, native,
                   logicUp>>

\* ... or set-mouse-position raises "GUI frame is not open"; and its last
\* step returns once the pointer has been warped.
NotOpen ==
    /\ pc = "awaitConfirm" /\ reply = FALSE
    /\ reply' = None /\ pc' = "lisp" /\ asked' = None
    /\ UNCHANGED <<editor, loop, after, resume, ptr, box, requests, native, logicUp>>

Warped ==
    /\ pc = "awaitWarp" /\ reply # None
    /\ reply' = None /\ pc' = "lisp" /\ asked' = None
    /\ UNCHANGED <<editor, loop, after, resume, ptr, box, requests, native, logicUp>>

\* response.recv() when the UI thread has gone without an answer.
ReplyLost ==
    /\ pc \in {"awaitReady", "awaitConfirm", "awaitWarp"}
    /\ ~uiUp /\ reply = None
    /\ pc' = "lisp" /\ asked' = None
    /\ UNCHANGED <<editor, loop, after, resume, ptr, box, requests, reply, native,
                   logicUp>>

\* The editor ends and drops its end of the request channel.
LogicEnds ==
    /\ CanClose /\ InLisp
    /\ logicUp' = FALSE
    /\ UNCHANGED <<editor, loop, pc, after, resume, asked, ptr, box, requests,
                   reply, native>>

(***************************************************************************)
(* The UI thread's request loop.                                           *)
(***************************************************************************)
Receives(kind) ==
    /\ uiUp /\ ~notified /\ requests # <<>>
    /\ Head(requests).kind = kind
    /\ requests' = Tail(requests)

ReceiveNotification ==
    /\ Receives("snapshots")
    /\ notified' = TRUE
    /\ UNCHANGED <<editor, loop, pc, after, resume, asked, ptr, box, reply, windows,
                   primary, refused, uiUp, drawn, logicUp>>

\* Windows for the frames of a snapshot: new ones are opened, the first in the
\* window of startup, and those of no frame in it are removed.
Draw(snapshot) ==
    LET new == snapshot \ windows IN
    /\ refused' \in IF CanFail THEN SUBSET new ELSE {{}}
    /\ primary /\ new # {} => refused' # new
    /\ windows' = snapshot \ refused'
    /\ primary' = (primary /\ new = {})
    /\ drawn' = snapshot

\* Mutant: take_latest that forgets to clear the flag.
TakeLatestKeepsFlag ==
    /\ uiUp /\ notified
    /\ notified' = FALSE
    /\ queued' = queued /\ latest' = None
    /\ IF latest = None THEN UNCHANGED <<windows, primary, refused, drawn>>
       ELSE Draw(latest)
    /\ UNCHANGED <<editor, loop, pc, after, resume, asked, ptr, requests, reply,
                   uiUp, logicUp>>

\* take_latest, and the snapshot is drawn; no other thread sees the windows.
TakeLatest ==
    /\ uiUp /\ notified
    /\ notified' = FALSE
    /\ queued' = FALSE /\ latest' = None
    /\ IF latest = None THEN UNCHANGED <<windows, primary, refused, drawn>>
       ELSE Draw(latest)
    /\ UNCHANGED <<editor, loop, pc, after, resume, asked, ptr, requests, reply,
                   uiUp, logicUp>>

\* FrameReady asks whether the frame has a window; WarpPointer fails if not.
Answer ==
    /\ Receives("ready") \/ Receives("warp")
    /\ reply' = (Head(requests).frame \in windows)
    /\ UNCHANGED <<editor, loop, pc, after, resume, asked, ptr, box, native,
                   logicUp>>

\* The app quits: by itself, or once the logic thread has gone and its last
\* requests are done.  What is left in the channel goes with it.
UiEnds ==
    /\ uiUp
    /\ CanClose \/ (~logicUp /\ requests = <<>> /\ ~notified)
    /\ uiUp' = FALSE /\ requests' = <<>> /\ notified' = FALSE
    /\ UNCHANGED <<editor, loop, pc, after, resume, asked, ptr, box, reply, windows,
                   primary, refused, drawn, logicUp>>

-----------------------------------------------------------------------------
LispStep ==
    \/ \E f \in Frame : \/ MakeFrame(f) \/ SelectFrame(f) \/ DeleteFrame(f)
                        \/ FrameEvent(f) \/ PrepareFrame(f)
    \/ FrameDeleted \/ DeleteHookError \/ NoReplacement
    \/ \E what \in Redisplay : PreRedisplay(what)
    \/ PreRedisplayOver \/ SitForError \/ Redraw \/ Prompt \/ LogicEnds

LogicStep ==
    \/ Notify \/ Render \/ SendGrid \/ DrawEcho
    \/ AskReady \/ AskConfirm \/ AskWarp
    \/ WindowReady \/ WindowMissing \/ WindowMissingInCallback
    \/ Confirmed \/ NotOpen \/ Warped \/ ReplyLost

UiStep == ReceiveNotification \/ TakeLatest \/ Answer

Next == LispStep \/ LogicStep \/ UiStep \/ UiEnds

Spec == Init /\ [][Next]_vars

\* Both threads are scheduled: the UI loop awaits its channel for ever, and
\* the logic thread leaves no operation half done.  Lisp owes nothing.
FairSpec == Spec /\ WF_vars(LogicStep) /\ WF_vars(UiStep)

-----------------------------------------------------------------------------
TypeOK ==
    /\ frames \subseteq born /\ born \subseteq Frame /\ selected \in frames
    /\ deleting \in Seq(born)
    /\ borrowed \in BOOLEAN /\ due \in Redisplay \cup {None}
    /\ borrowed => due # None
    /\ pc \in {"lisp", "notify", "render", "sendgrid", "echo", "ready", "awaitReady",
               "confirm", "awaitConfirm", "warp", "awaitWarp", "panic"}
    /\ after \in {"lisp", "sendgrid", "echo", "confirm"}
    /\ resume \in {"lisp", "echo", "confirm"}
    /\ asked \in born \cup {None} /\ active \in born /\ cache \subseteq born
    /\ (latest = None \/ latest \subseteq born) /\ queued \in BOOLEAN
    /\ requests \in Seq({Notification} \cup {FrameReady(f) : f \in Frame}
                                       \cup {WarpPointer(f) : f \in Frame})
    /\ reply \in BOOLEAN \cup {None}
    /\ notified \in BOOLEAN /\ primary \in BOOLEAN
    /\ windows \subseteq born /\ refused \subseteq born /\ drawn \subseteq born
    /\ logicUp \in BOOLEAN /\ uiUp \in BOOLEAN

\* The notifications on their way: about to be sent, in the channel, or
\* received and not acted on yet.
OnTheWay ==
    Cardinality({i \in DOMAIN requests : requests[i] = Notification})
      + (IF pc = "notify" THEN 1 ELSE 0) + (IF notified THEN 1 ELSE 0)

\* While the UI thread lives, the mailbox is full exactly when one
\* notification is on its way, and there is never a second: no snapshot is
\* left unseen, and no notification finds the mailbox empty, although the lock
\* is released before the notification is sent and taken again after it
\* arrives.
OneNotification ==
    uiUp => /\ OnTheWay = IF queued THEN 1 ELSE 0
            /\ queued <=> latest # None

\* The promise of prepare_frame: the pointer is only ever warped in a window
\* that is open, though the windows belong to the other thread, which opens
\* and removes them as coalesced snapshots reach it.  And prepare_frame fails
\* only when the platform refused the window: the notification for its
\* snapshot, sent or merged into an earlier one, is always ahead of its second
\* question.
WarpFindsWindow ==
    /\ pc = "awaitWarp" /\ reply # None => reply = TRUE
    /\ pc = "awaitConfirm" /\ reply = FALSE => asked \in refused

\* What the UI thread has still to draw; nothing once it has ended.
Offered == IF latest = None \/ ~uiUp THEN drawn ELSE latest

\* The UI thread draws the newest published snapshot, and in the end every
\* one that is not overtaken by a newer one (LatestValue.Spec).
Mailbox == INSTANCE LatestValue WITH Value <- SUBSET Frame, offered <- Offered,
                                     shown <- drawn
NewestIsDrawn == Mailbox!Spec

\* The logic thread never blocks for ever on the UI thread.
EveryQuestionAnswered ==
    pc \in {"awaitReady", "awaitConfirm", "awaitWarp"} ~> pc = "lisp"
=============================================================================
