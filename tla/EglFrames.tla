------------------------------ MODULE EglFrames ------------------------------
(***************************************************************************)
(* The frame callbacks of an OpenGL window, whose render thread swaps      *)
(* buffers (QWaylandGLContext::swapBuffers, waitForFrameSync and           *)
(* handleUpdate) while the GUI thread handles callbacks, timers and expose *)
(* events (handleFrameCallback and timerEvent of client/qwaylandwindow.cpp,*)
(* dispatchQueueWhile of client/qwaylanddisplay.cpp).  The window stays    *)
(* visible and configured: WindowFrames has those of one thread.           *)
(***************************************************************************)
EXTENDS Naturals, SequencesExt

CONSTANTS MaxFrames   \* bound: buffer swaps

ASSUME MaxFramesIsNumber == MaxFrames \in Nat

VARIABLES waiting,    \* mWaitingForFrameCallback
          timedOut,   \* mFrameCallbackTimedOut
          timer,      \* mFrameCallbackTimerId; 0 stands for -1
          timers,     \* timers that run
          frames,     \* frame callbacks requested: the number of mFrameCallback
          reply,      \* how far the answer to mFrameCallback has come
          queue,      \* the event queue of mFrameCallback
          posted,     \* calls posted to the GUI thread
          expose,     \* expose event that is queued last
          told,       \* what the application was told: it renders if exposed
          render,     \* where the render thread is
          evaluated   \* isExposed, as its expose event has it

callbackVars == <<frames, reply, queue>>
guiVars == <<timer, timers, posted>>
exposeVars == <<expose, told>>
eglVars == <<waiting, timedOut, timer, timers, frames, reply, queue, posted, expose, told,
             render, evaluated>>

EglInit == /\ waiting = FALSE /\ timedOut = FALSE /\ timer = 0 /\ timers = {}
           /\ frames = 0 /\ reply = "done" /\ queue = "main" /\ posted = <<>>
           /\ expose = "none" /\ told = TRUE /\ render = "idle" /\ evaluated = TRUE
-----------------------------------------------------------------------------
(* The connection *)

\* The compositor answers the newest callback; answers to destroyed ones are dropped.
SendDone == /\ reply = "owed" /\ reply' = "sent"
            /\ UNCHANGED <<waiting, timedOut, guiVars, frames, queue, exposeVars, render, evaluated>>

\* Either thread reads the socket; an event goes to the queue its proxy has by then.
ReadEvents == /\ reply = "sent" /\ reply' = queue
              /\ UNCHANGED <<waiting, timedOut, guiVars, frames, queue, exposeVars, render, evaluated>>
-----------------------------------------------------------------------------
(* The render thread *)

\* waitForFrameSync moves the callback to its own queue, unless no frame is out.
swapBuffers == /\ render = "idle" /\ told /\ frames < MaxFrames
               /\ IF waiting THEN render' = "wait" /\ queue' = "frame"
                  ELSE render' = "swap" /\ UNCHANGED queue
               /\ UNCHANGED <<waiting, timedOut, guiVars, frames, reply, exposeVars, evaluated>>

\* Mutant: the handler is not posted.
DispatchFrameQueueOnly == /\ render = "wait" /\ reply = "frame" /\ reply' = "done"
                          /\ UNCHANGED <<waiting, timedOut, guiVars, frames, queue, exposeVars,
                                         render, evaluated>>

\* callbackListener on another thread than the window's posts the handler.
DispatchFrameQueue == /\ render = "wait" /\ reply = "frame" /\ reply' = "done"
                      /\ posted' = Append(posted, [call |-> "callback", id |-> frames])
                      /\ UNCHANGED <<waiting, timedOut, timer, timers, frames, queue, exposeVars,
                                     render, evaluated>>

\* dispatchQueueWhile ends when the flag is cleared, or after 100 ms.
EndWait == /\ render = "wait" /\ render' = IF waiting THEN "late" ELSE "swap"
           /\ UNCHANGED <<waiting, timedOut, guiVars, callbackVars, exposeVars, evaluated>>

SetTimedOut == /\ render = "late" /\ render' = "hide" /\ timedOut' = TRUE
               /\ UNCHANGED <<waiting, guiVars, callbackVars, exposeVars, evaluated>>

\* The expose event has isExposed from when it is made, not when it is queued.
MakeExpose == /\ render = "hide" /\ render' = "send" /\ evaluated' = ~timedOut
              /\ UNCHANGED <<waiting, timedOut, guiVars, callbackVars, exposeVars>>

QueueExpose == /\ render = "send" /\ render' = "swap"
               /\ expose' = IF evaluated THEN "exposed" ELSE "hidden"
               /\ UNCHANGED <<waiting, timedOut, guiVars, callbackVars, told, evaluated>>

StopTimerAnyway == <<[call |-> "kill", id |-> timer]>>   \* mutant: with none running

StopTimer == IF timer = 0 THEN <<>> ELSE <<[call |-> "kill", id |-> timer]>>

\* A new callback takes the place of the old one; timers are the GUI thread's.
\* One step: the request for the callback takes effect with the commit that
\* follows, so no answer comes before waiting is set.
handleUpdate == /\ render = "swap" /\ render' = "idle"
                /\ frames' = frames + 1 /\ reply' = "owed" /\ queue' = "main" /\ waiting' = TRUE
                /\ timer' = 0
                /\ posted' = posted \o StopTimer \o <<[call |-> "start", id |-> frames + 1]>>
                /\ UNCHANGED <<timedOut, timers, exposeVars, evaluated>>
-----------------------------------------------------------------------------
(* The GUI thread *)

\* Mutant: the timeout is not taken back.
handleFrameCallbackOnly ==
    /\ waiting' = FALSE /\ timers' = timers \ {timer} /\ timer' = 0
    /\ UNCHANGED <<timedOut, expose>>

handleFrameCallback ==
    /\ waiting' = FALSE /\ timedOut' = FALSE
    /\ timers' = timers \ {timer} /\ timer' = 0
    /\ expose' = IF timedOut THEN "exposed" ELSE expose

DispatchMainQueue == /\ reply = "main" /\ reply' = "done" /\ handleFrameCallback
                     /\ UNCHANGED <<frames, queue, posted, told, render, evaluated>>

StartTimer(id) == IF waiting THEN (timers' = timers \cup {id} /\ timer' = id)
                  ELSE UNCHANGED <<timers, timer>>

RunPosted ==
    /\ posted # <<>> /\ posted' = Tail(posted)
    /\ LET head == Head(posted)
       IN  \/ (head.call = "callback" /\ handleFrameCallback)
           \/ /\ head.call = "start" /\ StartTimer(head.id)
              /\ UNCHANGED <<waiting, timedOut, expose>>
           \/ /\ head.call = "kill" /\ timers' = timers \ {head.id}
              /\ UNCHANGED <<waiting, timedOut, timer, expose>>
    /\ UNCHANGED <<callbackVars, told, render, evaluated>>

\* timerEvent: a timer that is not mFrameCallbackTimerId fires without effect.
FrameTimeout == /\ timer # 0 /\ timers' = timers \ {timer} /\ timer' = 0
                /\ timedOut' = TRUE /\ expose' = "hidden"
                /\ UNCHANGED <<waiting, callbackVars, posted, told, render, evaluated>>

HandleExposeEvent == /\ expose # "none" /\ expose' = "none" /\ told' = (expose = "exposed")
                     /\ UNCHANGED <<waiting, timedOut, guiVars, callbackVars, render, evaluated>>
-----------------------------------------------------------------------------
RenderNext == \/ swapBuffers \/ DispatchFrameQueue \/ EndWait
              \/ SetTimedOut \/ MakeExpose \/ QueueExpose \/ handleUpdate
GuiNext == DispatchMainQueue \/ RunPosted \/ FrameTimeout \/ HandleExposeEvent
EglNext == SendDone \/ ReadEvents \/ RenderNext \/ GuiNext

EglSpec == EglInit /\ [][EglNext]_eglVars

\* Both threads run, a wait ends after 100 ms, and a visible window's
\* callback is answered; the application need not render, no timer need fire.
FairEglSpec ==
    /\ EglSpec /\ WF_eglVars(SendDone) /\ WF_eglVars(ReadEvents)
    /\ WF_eglVars(EndWait) /\ WF_eglVars(SetTimedOut) /\ WF_eglVars(MakeExpose)
    /\ WF_eglVars(QueueExpose) /\ WF_eglVars(handleUpdate)
    /\ WF_eglVars(DispatchMainQueue) /\ WF_eglVars(RunPosted) /\ WF_eglVars(HandleExposeEvent)
-----------------------------------------------------------------------------
(* Type correctness. *)
EglTypeOK ==
    /\ {waiting, timedOut, told, evaluated} \subseteq BOOLEAN
    /\ frames \in 0..MaxFrames /\ timer \in 0..MaxFrames /\ timers \subseteq 1..MaxFrames
    /\ reply \in {"owed", "sent", "main", "frame", "done"} /\ queue \in {"main", "frame"}
    /\ posted \in Seq([call : {"callback", "start", "kill"}, id : 1..MaxFrames])
    /\ expose \in {"none", "exposed", "hidden"}
    /\ render \in {"idle", "wait", "late", "hide", "send", "swap"}

(* Whatever the two threads do to the flag, the callback and its queue, a  *)
(* window that waits for a frame callback has one that can still reach it: *)
(* its answer is on its way to a thread that dispatches that queue, or the *)
(* handler is posted, or the render thread is about to ask for a new one.  *)
WaitIsAnswered ==
    waiting => \/ \E i \in 1..Len(posted) : posted[i].call = "callback"
               \/ reply # "done" /\ (queue = "frame" => render # "idle")

(* A frame callback that timed out, on either thread, keeps the window     *)
(* from being exposed only until the next callback is handled.             *)
TimeoutEnds == timedOut ~> ~timedOut
=============================================================================
