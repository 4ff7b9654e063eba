----------------------------- MODULE GuiSession -----------------------------
(***************************************************************************)
(* The GUI's acquisition sessions and what it shows of their results       *)
(* (ros_ws/src/nrv_demo/scripts/gui.py, class NoiseWindow).                *)
(*                                                                         *)
(* The Qt thread runs the buttons, the notices of the roslaunch process,   *)
(* the events it posts to itself (singleShot(0)) and refresh; ROS threads  *)
(* run the callbacks. Both share self.lock. Messages come on two topics,   *)
(* from any session started so far, in any order.                          *)
(*                                                                         *)
(* start() gives the process its pid at once, so the 50 ms retry in        *)
(* interrupt is not modelled. Parameters are a version number. The raw     *)
(* view, texts and profiles are left out.                                  *)
(*                                                                         *)
(* SIGINT and SIGTERM close the window from a Python handler, which may    *)
(* run between any two bytecodes of the Qt thread once its loop runs:      *)
(* between two handlers, inside one, or while it holds self.lock. What it  *)
(* interrupts is an action of its own where that is not the same as before *)
(* or after the handler. Qt ignores a close() inside closeEvent.           *)
(***************************************************************************)
EXTENDS Integers, Sequences

CONSTANTS
  MaxStarts,   \* bound: sessions after which Start is not pressed again
  MaxApplied,  \* bound: times the parameters are changed
  MaxGen       \* bound: processing_generation

ASSUME BoundsAssumption == {MaxStarts, MaxApplied, MaxGen} \subseteq Nat

VARIABLES
  proc,        \* self.process.state()
  started,     \* session_ids handed out
  session,     \* self.session_id, 0 when None
  active, launched, \* active parameters, and those of the running process
  restartPending, stopping, closing,
  canStart,    \* the Start button is enabled
  posted,      \* singleShot(0) events: "start", "close"
  shut,        \* the window is closed
  stuck,       \* the Qt thread waits for the lock that it holds itself
  frame,       \* self.frames of the model, one result in both views
  modelGen,    \* self.model_generation
  todo, taken, \* refresh: views left, and the result it took out of frames
  checked,     \* refresh: the view at the head of todo is being converted
  shown,       \* what each view shows
  stopAsked    \* Stop or Close came last, and nothing is to start (history)

processVars == <<proc, started, active, launched, restartPending, stopping,
                 closing, canStart, posted, shut, stuck, stopAsked>>
refreshVars == <<todo, taken, checked, shown>>
vars == <<processVars, session, frame, modelGen, refreshVars>>

Views   == {"e2fai_gray", "e2fai_flow"}
Nothing == [session |-> 0, gen |-> 0]

\* auto_start posts the first start.
Init ==
  /\ proc = "none" /\ started = 0 /\ session = 0
  /\ active = 0 /\ launched = 0
  /\ restartPending = FALSE /\ stopping = FALSE /\ closing = FALSE
  /\ canStart = TRUE /\ posted \in {{}, {"start"}}
  /\ shut = FALSE /\ stuck = FALSE
  /\ frame = Nothing /\ modelGen = 0
  /\ todo = <<>> /\ taken = Nothing /\ checked = FALSE
  /\ shown = [v \in Views |-> Nothing]
  /\ stopAsked = FALSE

-----------------------------------------------------------------------------
(* The Qt thread, between refreshes                                        *)

Idle       == todo = <<>> /\ ~stuck
Refreshing == todo # <<>> /\ ~stuck

\* The first start is posted before the window is shown.
Usable == Idle /\ ~shut /\ ~closing /\ (started = 0 => posted = {})

\* start(), all but the session's id; it does nothing while a process is there.
StartProcessKeepsStopping ==
  /\ proc' = "starting" /\ UNCHANGED stopping /\ canStart' = FALSE
  /\ started' = started + 1 /\ launched' = active
  /\ frame' = Nothing /\ modelGen' = 0
  /\ shown' = [v \in Views |-> Nothing]
StartProcess ==
  /\ proc' = "starting" /\ stopping' = FALSE /\ canStart' = FALSE
  /\ started' = started + 1 /\ launched' = active
  /\ frame' = Nothing /\ modelGen' = 0
  /\ shown' = [v \in Views |-> Nothing]

Launch ==
  IF proc # "none"
  THEN UNCHANGED <<proc, started, session, launched, stopping, canStart, frame,
                   modelGen, shown>>
  ELSE StartProcess /\ session' = started'

\* interrupt(): no result is accepted any more, and roslaunch gets a SIGINT.
Interrupt ==
  /\ session' = 0 /\ frame' = Nothing
  /\ stopping' = (stopping \/ proc # "none")

\* No start() is under way that a Stop or a Close would come too late for.
Final == proc # "none" \/ "start" \notin posted

Pressed == Usable /\ canStart /\ started < MaxStarts /\ UNCHANGED posted
Served  == Idle /\ "start" \in posted /\ posted' = posted \ {"start"}

Start ==
  /\ Pressed
  /\ Launch
  /\ stopAsked' = FALSE
  /\ UNCHANGED <<active, restartPending, closing, shut, stuck, todo, taken, checked>>

StopKeepsRestart == UNCHANGED restartPending
StopForgetsRestart == restartPending' = FALSE

Stop ==
  /\ Usable
  /\ StopForgetsRestart /\ Interrupt
  /\ stopAsked' = Final
  /\ UNCHANGED <<proc, started, active, launched, closing, canStart, posted, shut,
                 stuck, modelGen, refreshVars>>

\* apply_parameters with something changed.
Apply ==
  /\ Usable /\ active < MaxApplied
  /\ active' = active + 1
  /\ IF proc = "none" THEN UNCHANGED <<restartPending, session, frame, stopping, stopAsked>>
     ELSE restartPending' = TRUE /\ Interrupt /\ stopAsked' = FALSE
  /\ UNCHANGED <<proc, started, launched, closing, canStart, posted, shut, stuck,
                 modelGen, refreshVars>>

\* closeEvent. With a process there the window waits, disabled.
CloseWindow ==
  /\ closing' = TRUE
  /\ StopForgetsRestart /\ Interrupt
  /\ shut' = (proc = "none")
  /\ stopAsked' = Final
  /\ UNCHANGED <<proc, started, active, launched, canStart, stuck, modelGen, refreshVars>>

\* From the window manager or a ROS shutdown, between two handlers; from a
\* signal also within refresh, outside its lock regions.
Close ==
  /\ ~shut /\ ~stuck /\ (started = 0 => posted = {})
  /\ CloseWindow
  /\ UNCHANGED posted

PostedStart ==
  /\ Served
  /\ Launch
  /\ UNCHANGED <<active, restartPending, closing, shut, stuck, stopAsked, todo, taken,
                 checked>>

PostedClose ==
  /\ Idle /\ ~shut /\ "close" \in posted
  /\ posted' = posted \ {"close"}
  /\ CloseWindow

-----------------------------------------------------------------------------
(* A signal inside a handler                                               *)

\* In start(), behind its look at the process: none is there, so the window
\* closes, and start() goes on. Its session is closed if it had its id by then.
SignalInStart ==
  /\ Pressed \/ Served
  /\ proc = "none" /\ StartProcess
  /\ session' \in {0, started'}
  /\ closing' = TRUE /\ StopForgetsRestart /\ shut' = TRUE
  /\ stopAsked' = FALSE
  /\ UNCHANGED <<active, stuck, todo, taken, checked>>

\* In apply_parameters, before it asks for a restart: that outlives the close.
SignalInApply ==
  /\ Usable /\ active < MaxApplied /\ proc # "none"
  /\ active' = active + 1
  /\ closing' = TRUE /\ restartPending' = TRUE /\ Interrupt
  /\ stopAsked' = TRUE
  /\ UNCHANGED <<proc, started, launched, canStart, posted, shut, stuck, modelGen,
                 refreshVars>>

\* While self.lock is held, in a lock region of refresh or of any other handler:
\* interrupt waits for it for ever. How far the region has come nobody sees.
SignalUnderLock ==
  /\ \/ Idle /\ (~shut \/ "start" \in posted)
     \/ Refreshing /\ checked
  /\ closing' = TRUE /\ StopForgetsRestart
  /\ stuck' = TRUE
  /\ UNCHANGED <<proc, started, active, launched, stopping, canStart, posted, shut,
                 stopAsked, session, frame, modelGen, refreshVars>>

-----------------------------------------------------------------------------
(* The roslaunch process. Its notices reach the Qt thread after the events *)
(* already posted.                                                         *)

Notice == Idle /\ ~shut /\ posted = {}

ProcessRuns ==
  /\ Notice /\ proc = "starting"
  /\ proc' = "running"
  /\ UNCHANGED <<started, active, launched, restartPending, stopping, closing,
                 canStart, posted, shut, stuck, stopAsked, session, frame, modelGen,
                 refreshVars>>

\* FailedToStart is not followed by finished().
ProcessFails ==
  /\ Notice /\ proc = "starting"
  /\ proc' = "none"
  /\ UNCHANGED <<started, active, launched, restartPending, stopping, closing,
                 canStart, posted, shut, stuck, stopAsked, session, frame, modelGen,
                 refreshVars>>

\* finished(), on a SIGINT, at the end of the duration or in a crash.
NextStepIgnoresClosing == IF restartPending THEN {"start"} ELSE {}
NextStep ==
  IF closing THEN {"close"} ELSE IF restartPending THEN {"start"} ELSE {}

ProcessEnds ==
  /\ Notice /\ proc = "running"
  /\ proc' = "none" /\ session' = 0 /\ frame' = Nothing /\ canStart' = TRUE
  /\ posted' = NextStep
  /\ restartPending' = (restartPending /\ closing)
  /\ UNCHANGED <<started, active, launched, stopping, closing, shut, stuck, stopAsked,
                 modelGen, refreshVars>>

-----------------------------------------------------------------------------
(* ROS callbacks                                                           *)

OnResult ==
  /\ ~shut /\ ~stuck
  /\ \E s \in 1..started, g \in 0..MaxGen :
       /\ s = session /\ g >= modelGen
       /\ modelGen' = g /\ frame' = [session |-> s, gen |-> g]
  /\ UNCHANGED <<processVars, session, refreshVars>>

\* A newer generation drops the result not yet shown.
OnStatus ==
  /\ ~shut /\ ~stuck
  /\ \E s \in 1..started, g \in 0..MaxGen :
       /\ s = session /\ g >= modelGen
       /\ modelGen' = g /\ frame' = IF g > modelGen THEN Nothing ELSE frame
  /\ UNCHANGED <<processVars, session, refreshVars>>

-----------------------------------------------------------------------------
(* refresh: take -> (check -> present) for each view                       *)

RefreshTake ==
  /\ Idle /\ ~shut /\ frame # Nothing
  /\ taken' = frame /\ frame' = Nothing
  /\ todo' = <<"e2fai_gray", "e2fai_flow">>
  /\ UNCHANGED <<processVars, session, modelGen, checked, shown>>

Skip == todo' = Tail(todo) /\ checked' = FALSE
        /\ taken' = IF Len(todo) = 1 THEN Nothing ELSE taken

\* An old result, and any in a hidden view, is passed over; conversion and
\* scaling follow outside the lock.
RefreshCheck ==
  /\ Refreshing /\ ~checked
  /\ \/ taken.gen >= modelGen /\ checked' = TRUE /\ UNCHANGED <<todo, taken>>
     \/ Skip
  /\ UNCHANGED <<processVars, session, frame, modelGen, shown>>

\* The generation is checked again under the lock, the session is not.
CurrentAsChecked == TRUE
Current == taken.gen >= modelGen

RefreshPresent ==
  /\ Refreshing /\ checked
  /\ shown' = IF Current THEN [shown EXCEPT ![Head(todo)] = taken] ELSE shown
  /\ Skip
  /\ UNCHANGED <<processVars, session, frame, modelGen>>

-----------------------------------------------------------------------------
Next == \/ Start \/ Stop \/ Apply \/ Close \/ PostedStart \/ PostedClose
        \/ SignalInStart \/ SignalInApply \/ SignalUnderLock
        \/ ProcessRuns \/ ProcessFails \/ ProcessEnds
        \/ OnResult \/ OnStatus
        \/ RefreshTake \/ RefreshCheck \/ RefreshPresent

(***************************************************************************)
(* Posted events and refresh are served by Qt's loop; a process either     *)
(* starts or fails; roslaunch ends after a SIGINT. Users, ROS messages and *)
(* an end that nobody asked for are promised nothing.                      *)
(***************************************************************************)
Fairness ==
  /\ WF_vars(PostedStart) /\ WF_vars(PostedClose)
  /\ WF_vars(RefreshCheck \/ RefreshPresent)
  /\ SF_vars(ProcessRuns \/ ProcessFails)
  /\ SF_vars(stopping /\ ProcessEnds)

Spec == Init /\ [][Next]_vars /\ Fairness

-----------------------------------------------------------------------------
(* Properties *)

Sessions == 0..(MaxStarts + MaxApplied + 1)
Results  == [session : Sessions, gen : 0..MaxGen]

\* Variables have their types, a process always runs the active parameters
\* unless it is being stopped, and a session is only open while it runs.
TypeOK ==
  /\ proc \in {"none", "starting", "running"}
  /\ started \in Sessions /\ session \in {0, started}
  /\ active \in 0..MaxApplied /\ launched \in 0..MaxApplied
  /\ {restartPending, stopping, closing, canStart, shut, stuck, checked, stopAsked} \subseteq BOOLEAN
  /\ posted \subseteq {"start", "close"}
  /\ frame \in Results /\ taken \in Results /\ modelGen \in 0..MaxGen
  /\ todo \in Seq(Views) /\ shown \in [Views -> Results]
  /\ proc # "none" /\ launched # active => stopping
  /\ stopping /\ proc # "none" => session = 0

\* A view never goes back: what is put into it belongs to the acquisition
\* started last, is not older than any result or status of it that either topic
\* has brought, and not older than what the view showed before. Its session is
\* open, unless a signal has closed it since refresh took the result.
PresentedFresh ==
  [][\A v \in Views : shown'[v] # shown[v] /\ shown'[v] # Nothing =>
       /\ shown'[v].session = started /\ (session = started \/ closing)
       /\ shown'[v].gen >= modelGen
       /\ shown[v] # Nothing => shown[v].session = started /\ shown'[v].gen >= shown[v].gen]_vars

\* Behind a Stop or a Close no acquisition starts until the user asks for one,
\* whether the last one runs, starts, is ending for a restart or has ended. The
\* exceptions are a start() already posted by finished() or begun, when there is
\* no process to stop.
StopFinal == [][proc = "none" /\ proc' = "starting" => ~stopAsked']_vars

\* What the user asked for happens: parameters applied to a running
\* acquisition come into effect unless it is stopped, and a window that waits
\* for an acquisition to end closes; unless a signal found the lock held.
AskedHappens ==
  /\ restartPending /\ proc = "running"
       ~> (proc # "none" /\ launched = active) \/ stopAsked \/ shut \/ stuck
  /\ closing /\ proc = "running" ~> shut \/ stuck
-----------------------------------------------------------------------------
(* Why the safety properties hold: an inductive invariant                  *)

One(b) == IF b THEN 1 ELSE 0

\* Sessions that nobody has to press Start for: auto_start's and the restarts,
\* of which each change of parameters asks for one.
Starts ==
  LET toCome == One("start" \in posted) + One(restartPending)
  IN toCome <= active + 1 /\ started + toCome <= MaxStarts + active + 1

\* A result of the last session, no newer than its generation
Ours(result) == result.session = started /\ result.gen <= modelGen

\* What is kept and shown is of the last session, and what is kept of it while
\* it is open; refresh may still hold a result of one that a signal closed.
Fresh ==
  /\ frame # Nothing => session # 0 /\ Ours(frame)
  /\ todo # <<>> => Ours(taken) /\ taken # Nothing /\ (session # 0 \/ closing)
  /\ \A v \in Views : shown[v] # Nothing => Ours(shown[v])

\* After a Stop a restart may be pending only in a window that is closing, and
\* nothing is posted that could start a process but what start() ignores while
\* the old one is there.
Stopped ==
  stopAsked => (restartPending => closing) /\ ("start" \in posted => proc # "none")

IInv == TypeOK /\ Starts /\ Fresh /\ Stopped
=============================================================================
