---------------------------- MODULE DesktopWindow -----------------------------
(***************************************************************************)
(* The window of the desktop shell: WindowController with the bridge       *)
(* threads that call it, the handlers of window and screen events, the GUI *)
(* thread that alone touches the native window, the bounded wait of        *)
(* _dispatch_sync between them, and what AppDesktop.jsx shows.             *)
(* A rectangle has the position Unset when the toolkit reports none.  The   *)
(* wait may time out at any moment: only its order against the callback is *)
(* kept.  The geometry the controller only reports is left out.            *)
(***************************************************************************)
EXTENDS Integers, Sequences, FiniteSets

CONSTANTS
  MaxCalls,      \* bound on the bridge calls of the page
  Movers,        \* threads of the window's moved event, each run once
  Layouts,       \* screens: a sequence of work areas and the primary one
  DragTo,        \* where the user may drag the window
  WindowSize, PresenceSize, MinSize,  \* [w, h]
  Screen,        \* the handler of the screen's signals, on the GUI thread itself
  Unread,        \* a startup read that was not answered yet
  Unset

VARIABLES layout, native, ctl, lock, workers, gui, shell, home, broken

windowVars == <<layout, native, ctl, lock, workers, gui, shell, home, broken>>

Calls == 1..MaxCalls

Workers == Calls \cup Movers \cup {Screen}

-----------------------------------------------------------------------------

Larger(a, b) == IF a > b THEN a ELSE b

Smaller(a, b) == IF a < b THEN a ELSE b

Sized(r, size) == [r EXCEPT !.w = size.w, !.h = size.h]

AtLeast(r, size) == [r EXCEPT !.w = Larger(@, size.w), !.h = Larger(@, size.h)]

\* Centred on the primary area, not larger than it.
Centred(r, area) ==
  LET w == Smaller(r.w, area.w)
      h == Smaller(r.h, area.h)
  IN [x |-> area.x + (area.w - w) \div 2, y |-> area.y + (area.h - h) \div 2,
      w |-> w, h |-> h]

Overlap(r, area) ==
  Larger(0, Smaller(r.x + r.w, area.x + area.w) - Larger(r.x, area.x))
    * Larger(0, Smaller(r.y + r.h, area.y + area.h) - Larger(r.y, area.y))

\* Four times the squared distance of the centres.
Distance(r, area) ==
  LET dx == (2 * r.x + r.w) - (2 * area.x + area.w)
      dy == (2 * r.y + r.h) - (2 * area.y + area.h)
  IN dx * dx + dy * dy

First(S) == CHOOSE i \in S : \A j \in S : i <= j

\* The first area of largest overlap; the first of the nearest without one.
BestArea(r, areas) ==
  LET I == DOMAIN areas
      covering == {i \in I : \A j \in I : Overlap(r, areas[i]) >= Overlap(r, areas[j])}
      nearest == {i \in I : \A j \in I : Distance(r, areas[i]) <= Distance(r, areas[j])}
  IN areas[First(IF \E i \in I : Overlap(r, areas[i]) > 0 THEN covering ELSE nearest)]

\* Mutant: the position is clamped before the size is cut to the area.
MutInto(r, area) ==
  [x |-> Larger(area.x, Smaller(r.x, area.x + area.w - r.w)),
   y |-> Larger(area.y, Smaller(r.y, area.y + area.h)),
   w |-> Smaller(r.w, area.w), h |-> Smaller(r.h, area.h)]

Into(r, area) ==
  LET w == Smaller(r.w, area.w)
      h == Smaller(r.h, area.h)
  IN [x |-> Larger(area.x, Smaller(r.x, area.x + area.w - w)),
      y |-> Larger(area.y, Smaller(r.y, area.y + area.h - h)), w |-> w, h |-> h]

clamp_window_geometry(r, screens) ==
  LET areas == IF screens.areas = <<>>
               THEN <<[x |-> 0, y |-> 0, w |-> WindowSize.w, h |-> WindowSize.h]>>
               ELSE screens.areas
      primary == IF screens.primary \in DOMAIN areas THEN screens.primary ELSE 1
      wanted == AtLeast(r, MinSize)
  IN IF Unset \in {r.x, r.y} THEN Centred(wanted, areas[primary])
     ELSE Into(wanted, BestArea(wanted, areas))

\* The mode changes clamp only against screens that are known.
Fitted(r) == IF layout.areas = <<>> THEN r ELSE clamp_window_geometry(r, layout)

-----------------------------------------------------------------------------

NoPlan == [rect |-> Unset, saved |-> Unset]

Waiting == [pc |-> "idle", op |-> Unset, on |-> FALSE, at |-> Unset, plan |-> NoPlan,
            ok |-> FALSE, answer |-> Unset, load |-> 0]

Ended == [Waiting EXCEPT !.pc = "over"]

\* What AppDesktop mounts with; the startup read is sent at once.
FreshPage(load, left) ==
  [mode |-> "companion", onTop |-> FALSE, epoch |-> 0, transitioning |-> FALSE,
   pinning |-> FALSE, read |-> Unread, load |-> load, left |-> left]

\* The shell has just opened its window; used bounds the threads to come and
\* reloads the loads of the page.
WindowInit(used, reloads) ==
  /\ layout \in Layouts
  /\ native = [decorated |-> TRUE, onTop |-> FALSE, alive |-> TRUE,
               rect |-> [x |-> 0, y |-> 0, w |-> WindowSize.w, h |-> WindowSize.h]]
  /\ ctl = [mode |-> "companion", onTop |-> FALSE, reconciling |-> FALSE,
            saved |-> [x |-> Unset, y |-> Unset, w |-> WindowSize.w, h |-> WindowSize.h]]
  /\ lock = Unset
  /\ workers = [t \in Workers |-> IF t \in used THEN Waiting ELSE Ended]
  /\ gui = Unset
  /\ shell = FreshPage(1, reloads)
  /\ home = native.rect
  /\ broken = FALSE

\* pywebview serves every call in a thread of its own.
Call(c, op, on) ==
  /\ workers[c].pc = "idle" /\ \A d \in 1..(c - 1) : workers[d].pc # "idle"
  /\ workers' = [workers EXCEPT ![c] = [Waiting EXCEPT !.pc = "called", !.op = op, !.on = on,
                                                       !.load = shell.load]]

\* handleEnterPresence and handleReturnToCompanion.
ChangeMode(c) ==
  /\ ~shell.transitioning
  /\ Call(c, "mode", shell.mode = "companion")
  /\ shell' = [shell EXCEPT !.transitioning = TRUE]
  /\ UNCHANGED <<layout, native, ctl, lock, gui, home, broken>>

ToggleAlwaysOnTop(c) ==
  /\ ~shell.pinning
  /\ Call(c, "on_top", ~shell.onTop)
  /\ shell' = [shell EXCEPT !.pinning = TRUE]
  /\ UNCHANGED <<layout, native, ctl, lock, gui, home, broken>>

\* handleMinimize and handleClose, buttons of the floating presence.
MinimizeOrClose(c, op) ==
  /\ shell.mode = "presence"
  /\ Call(c, op, FALSE)
  /\ UNCHANGED <<layout, native, ctl, lock, gui, shell, home, broken>>

\* The page is loaded again; answers to the old one are lost.
Reload ==
  /\ shell.left > 0
  /\ shell' = FreshPage(shell.load + 1, shell.left - 1)
  /\ UNCHANGED <<layout, native, ctl, lock, workers, gui, home, broken>>

\* The user, or the window manager, moves the window; the event carries the
\* position and is handled in a thread of its own, unless a reconciliation runs.
Moved(m, x) ==
  /\ workers[m].pc = "idle"
  /\ native' = [native EXCEPT !.rect.x = x]
  /\ workers' = [workers EXCEPT ![m] =
       [Waiting EXCEPT !.pc = IF ctl.reconciling THEN "over" ELSE "called",
                       !.op = "reconcile", !.at = x]]
  /\ UNCHANGED <<layout, ctl, lock, gui, shell, home, broken>>

\* A monitor comes or goes: _on_screen_changed occupies the GUI thread.
ScreenChanged(l) ==
  /\ gui = Unset /\ workers[Screen].pc = "idle" /\ l # layout
  /\ layout' = l
  /\ gui' = Screen
  /\ workers' = [workers EXCEPT ![Screen] = [Waiting EXCEPT !.pc = "called",
                                                            !.op = "reconcile"]]
  /\ UNCHANGED <<native, ctl, lock, shell, home, broken>>

-----------------------------------------------------------------------------
\* The part of an operation before its dispatch, under the controller's lock.

\* Mutant: the geometry is saved again when presence is entered from presence.
MutSavedGeometry == native.rect

\* The candidate is taken only when the window comes from companion.
SavedGeometry == IF ctl.mode = "companion" THEN native.rect ELSE ctl.saved

PresencePlan ==
  [rect |-> Fitted(Sized(native.rect, PresenceSize)), saved |-> SavedGeometry]

CompanionPlan == [rect |-> Fitted(ctl.saved), saved |-> ctl.saved]

\* The lock is kept while the callback waits in the main loop.
QueueCallback(c, op, plan) ==
  /\ workers[c].pc = "called" /\ workers[c].op = op
  /\ lock = Unset
  /\ lock' = c
  /\ workers' = [workers EXCEPT ![c].pc = "queued", ![c].plan = plan]
  /\ UNCHANGED <<layout, native, ctl, gui, shell, broken>>

set_presence_mode(c) ==
  /\ QueueCallback(c, "mode", IF workers[c].on THEN PresencePlan ELSE CompanionPlan)
  /\ home' = IF workers[c].on /\ native.decorated THEN native.rect ELSE home

set_always_on_top(c) == QueueCallback(c, "on_top", NoPlan) /\ UNCHANGED home

minimize_window(c) == QueueCallback(c, "minimize", NoPlan) /\ UNCHANGED home

close_window(c) == QueueCallback(c, "close", NoPlan) /\ UNCHANGED home

\* The one-shot read of the window's state that a page sends when it mounts.
window_state ==
  /\ shell.read = Unread
  /\ lock = Unset
  /\ shell' = [shell EXCEPT !.read = [mode |-> ctl.mode, onTop |-> ctl.onTop]]
  /\ UNCHANGED <<layout, native, ctl, lock, workers, gui, home, broken>>

\* What reconcile_geometry looks at: the position of the event, else the native one.
Seen(t) == IF workers[t].at = Unset THEN native.rect ELSE [native.rect EXCEPT !.x = workers[t].at]

\* The GUI thread returns to its loop when its own handler is over.
GuiAfter(t, pc) == IF t = Screen /\ pc = "over" THEN Unset ELSE gui

\* reconcile_geometry up to its dispatch: nothing to do in companion, while
\* another one runs, or when the window is inside.  The lock is released.
ReconcileGeometry(t) ==
  LET seen == Seen(t)
      clamped == clamp_window_geometry(seen, layout)
      rest == ctl.reconciling \/ ctl.mode # "presence"
      pc == IF rest \/ clamped = seen THEN "over" ELSE IF t = Screen THEN "running" ELSE "queued"
  IN /\ workers[t].pc = "called" /\ workers[t].op = "reconcile"
     /\ lock = Unset
     /\ workers' = [workers EXCEPT ![t].pc = pc,
          ![t].plan = IF pc = "over" THEN NoPlan ELSE [NoPlan EXCEPT !.rect = clamped]]
     /\ ctl' = [ctl EXCEPT !.reconciling = @ \/ pc # "over"]
     /\ gui' = GuiAfter(t, pc)
     /\ UNCHANGED <<layout, native, lock, shell, home, broken>>

-----------------------------------------------------------------------------
\* The main loop and the bounded wait of _dispatch_sync.

\* Mutant: the callback does not look whether its caller has given up.
MutNotCancelled(t) == workers[t].plan # NoPlan /\ workers[t].pc \in {"queued", "answered"}

\* A wait that timed out has cancelled its callback.
NotCancelled(t) == workers[t].pc = "queued"

\* The main loop runs the callback: past this check nothing stops it.
RunCallback(t) ==
  /\ gui = Unset /\ NotCancelled(t)
  /\ gui' = t
  /\ workers' = [workers EXCEPT ![t].pc = IF @ = "queued" THEN "running" ELSE @]
  /\ UNCHANGED <<layout, native, ctl, lock, shell, home, broken>>

\* What the callbacks leave of the window when every native call succeeds.
ApplyPresence(rect) == [native EXCEPT !.decorated = FALSE, !.rect = rect]

ApplyCompanion(rect) == [native EXCEPT !.decorated = TRUE, !.rect = rect]

ApplyReconcile(rect) == [native EXCEPT !.rect = rect]

ApplyOnTop(on) == [native EXCEPT !.onTop = on]

ApplyMinimize == native

ApplyClose == [native EXCEPT !.alive = FALSE]

Applied(t) ==
  CASE workers[t].op = "mode" /\ workers[t].on -> ApplyPresence(workers[t].plan.rect)
    [] workers[t].op = "mode" /\ ~workers[t].on -> ApplyCompanion(workers[t].plan.rect)
    [] workers[t].op = "reconcile" -> ApplyReconcile(workers[t].plan.rect)
    [] workers[t].op = "on_top" -> ApplyOnTop(workers[t].on)
    [] workers[t].op = "close" -> ApplyClose
    [] OTHER -> ApplyMinimize

\* What a failed change of mode leaves behind once the decoration was set: the
\* size is put back and the decoration set to what the other mode has.
UndoPresence == [native EXCEPT !.decorated = TRUE]

UndoCompanion == [native EXCEPT !.decorated = FALSE]

\* Or the very first native call raised, and nothing was done.
RolledBack(t) ==
  {native} \cup (IF workers[t].op # "mode" THEN {}
                 ELSE {IF workers[t].on THEN UndoPresence ELSE UndoCompanion})

\* The callback ends.  If its caller no longer waits, only the window changes.
EndCallback(t, ok, after) ==
  LET heard == workers[t].pc = "running"
  IN /\ gui = t /\ workers[t].pc # "called" /\ (t = Screen => heard)
     /\ native' = after
     /\ gui' = IF t = Screen THEN gui ELSE Unset
     /\ workers' = [workers EXCEPT
          ![t] = IF heard THEN [@ EXCEPT !.pc = "done", !.ok = ok]
                 ELSE IF @.pc = "over" THEN Ended ELSE @]
     /\ broken' = (broken \/ (~ok /\ after.decorated # native.decorated))
     /\ UNCHANGED <<layout, ctl, lock, shell, home>>

\* Mutant: the wait has no limit.
MutGivesUp(t) == FALSE

\* The callback of a thread that waits for the main loop did not end in time.
GivesUp(t) == t # Screen /\ workers[t].pc \in {"queued", "running"}

\* event.wait gives up: the callback is cancelled, and the operation failed.
WaitTimesOut(t) ==
  /\ GivesUp(t)
  /\ workers' = [workers EXCEPT ![t].ok = FALSE,
       ![t].pc = IF workers[t].op = "reconcile" THEN "done" ELSE "answered"]
  /\ lock' = IF lock = t THEN Unset ELSE lock
  /\ broken' = (broken \/ workers[t].pc = "running")
  /\ UNCHANGED <<layout, native, ctl, gui, shell, home>>

\* After the wait: the state is committed only on success.
CommitPresence(plan) == [ctl EXCEPT !.mode = "presence", !.saved = plan.saved]

CommitCompanion == [ctl EXCEPT !.mode = "companion"]

CommitOnTop(on) == [ctl EXCEPT !.onTop = on]

Committed(t) ==
  CASE ~workers[t].ok -> ctl
    [] workers[t].ok /\ workers[t].op = "mode" ->
         IF workers[t].on THEN CommitPresence(workers[t].plan) ELSE CommitCompanion
    [] workers[t].ok /\ workers[t].op = "on_top" -> CommitOnTop(workers[t].on)
    [] OTHER -> ctl

FinishOperation(c) ==
  /\ c \in Calls /\ workers[c].pc = "done"
  /\ ctl' = Committed(c)
  /\ lock' = Unset
  /\ workers' = [workers EXCEPT ![c].pc = "answered",
                   ![c].answer = [mode |-> ctl'.mode, onTop |-> ctl'.onTop]]
  /\ UNCHANGED <<layout, native, gui, shell, home, broken>>

\* reconcile_geometry takes the lock again to commit and to end.
FinishReconcile(t) ==
  /\ t \notin Calls /\ workers[t].pc = "done"
  /\ lock = Unset
  /\ ctl' = [ctl EXCEPT !.reconciling = FALSE]
  /\ workers' = [workers EXCEPT ![t] = IF gui = t THEN [@ EXCEPT !.pc = "over"] ELSE Ended]
  /\ gui' = GuiAfter(t, "over")
  /\ UNCHANGED <<layout, native, lock, shell, home, broken>>

-----------------------------------------------------------------------------
\* The page takes the answers in any order.

\* No operation was confirmed since the page mounted.
Current == shell.epoch = 0

\* A startup read older than a confirmed operation is ignored.
StartupRead ==
  /\ shell.read # Unset /\ shell.read # Unread
  /\ shell' = IF Current
             THEN [shell EXCEPT !.mode = shell.read.mode, !.onTop = shell.read.onTop,
                               !.read = Unset]
             ELSE [shell EXCEPT !.read = Unset]
  /\ UNCHANGED <<layout, native, ctl, lock, workers, gui, home, broken>>

Heard(c) ==
  LET t == workers[c]
  IN CASE t.op = "mode" ->
            IF t.ok THEN [shell EXCEPT !.transitioning = FALSE, !.mode = t.answer.mode,
                                      !.epoch = @ + 1, !.onTop = t.answer.onTop]
            ELSE [shell EXCEPT !.transitioning = FALSE]
       [] t.op = "on_top" ->
            IF t.ok THEN [shell EXCEPT !.pinning = FALSE, !.epoch = @ + 1,
                                      !.onTop = t.answer.onTop]
            ELSE [shell EXCEPT !.pinning = FALSE]
       [] OTHER -> shell

Answer(c) ==
  /\ workers[c].pc = "answered"
  /\ workers' = [workers EXCEPT ![c] = IF gui = c THEN [@ EXCEPT !.pc = "over"] ELSE Ended]
  /\ shell' = IF workers[c].load = shell.load THEN Heard(c) ELSE shell
  /\ UNCHANGED <<layout, native, ctl, lock, gui, home, broken>>

WorkerStep(t) ==
  \/ set_presence_mode(t) \/ set_always_on_top(t) \/ minimize_window(t) \/ close_window(t)
  \/ ReconcileGeometry(t)
  \/ RunCallback(t) \/ EndCallback(t, TRUE, Applied(t))
  \/ WaitTimesOut(t) \/ FinishOperation(t) \/ FinishReconcile(t) \/ Answer(t)

\* The guards of those steps.
CanStep(t) ==
  \/ workers[t].pc = "called" /\ lock = Unset
  \/ gui = Unset /\ NotCancelled(t)
  \/ gui = t /\ workers[t].pc # "called" /\ (t = Screen => workers[t].pc = "running")
  \/ GivesUp(t)
  \/ workers[t].pc = "answered"
  \/ workers[t].pc = "done" /\ (t \in Calls \/ lock = Unset)

\* A closed window ends the shell.
WindowNext ==
  /\ native.alive
  /\ \/ Reload \/ window_state \/ StartupRead
     \/ \E c \in Calls :
          \/ ChangeMode(c) \/ ToggleAlwaysOnTop(c)
          \/ \E op \in {"minimize", "close"} : MinimizeOrClose(c, op)
     \/ \E m \in Movers, x \in DragTo \cup {native.rect.x} : Moved(m, x)
     \/ \E l \in Layouts : ScreenChanged(l)
     \/ \E t \in Workers :
          \/ WorkerStep(t)
          \/ \E after \in RolledBack(t) : EndCallback(t, FALSE, after)

-----------------------------------------------------------------------------

Quiet == lock = Unset /\ gui = Unset /\ \A t \in Workers : workers[t].pc \in {"idle", "over"}

\* The window looks like the mode the controller reports, pinned as it reports,
\* whatever native calls failed and waits timed out: set_presence_mode and
\* set_always_on_top commit exactly what the GUI thread did.  Excepted are a
\* callback that was already running when its wait ended and the rollback of a
\* transition to the mode the window was in, which sets the other decoration.
\* And the page shows that mode once every answer is in: the startup read never
\* wins over a later change, however late it arrives.  This is said of the page
\* the window opens with.
ModeMatchesWindow ==
  /\ Quiet /\ ~broken =>
       /\ native.decorated = (ctl.mode = "companion")
       /\ native.onTop = ctl.onTop
  /\ Quiet /\ shell.read = Unset /\ shell.load = 1 => shell.mode = ctl.mode

\* The same without the exceptions: the claim of WindowController's docstring that
\* it dispatches native operations "while maintaining transactional state tracking
\* for mode, geometry, and always-on-top status".  It does not hold.
TrackingIsTransactional ==
  Quiet => /\ native.decorated = (ctl.mode = "companion")
           /\ native.onTop = ctl.onTop

\* Leaving presence aims at where the window was when it last was a companion,
\* fitted to the screens of now: drags, repeated transitions and failures in
\* between do not change what _saved_geometry remembers.
ReturnsWhereItWas ==
  [][\A c \in Calls :
       /\ workers[c].pc = "called" /\ workers'[c].pc = "queued"
       /\ workers[c].op = "mode" /\ ~workers[c].on /\ ctl.mode = "presence" /\ ~broken
       => workers'[c].plan.rect = Fitted(home)]_windowVars

\* The page, the handlers of events and the GUI thread never all wait on each
\* other: a bridge call keeps the lock while the GUI thread, blocked on that lock
\* by a change of screens, cannot run its callback, until the wait times out.
\* The steps of a thread do not repeat, so every operation comes to an end.
NobodyWaitsForever ==
  native.alive /\ ~Quiet => \E t \in Workers : CanStep(t)

=============================================================================
