----------------------------- MODULE WindowFrames -----------------------------
(***************************************************************************)
(* When a raster window of a client is exposed, and when it gets to paint: *)
(* the frame callbacks of QWaylandWindow, its timers and update requests,  *)
(* setVisible in the webOS build, where a hidden window keeps its surface, *)
(* and the configure events of its xdg_surface (QWaylandXdgSurface).       *)
(*                                                                         *)
(* One thread runs all of it: handlers of Wayland events, queued calls,    *)
(* timers, and the application, whose paints are one step each here        *)
(* (ShmBackingStore looks into them).  The compositor is external: it      *)
(* answers each frame callback, and configures the window as it likes.     *)
(***************************************************************************)
EXTENDS Lists, SequencesExt

CONSTANTS
  Sizes,        \* sizes of the window
  Null

ASSUME SizesAssumption == Null \notin Sizes

VARIABLES
  visible,                    \* QWindow::isVisible
  geometry,                   \* the window's size
  mLastExposeGeometry,
  m_configured,               \* of the QWaylandXdgSurface
  m_pendingConfigureSerial,   \* is not zero
  m_pending,                  \* Toplevel's m_pending.size; Null: the client may choose
  mWaitingToApplyConfigure,
  applyPosted,                \* a queued call of applyConfigure
  exposeEvent,                \* the last queued expose event: "none", "exposed", "hidden"
  appExposed,                 \* QWindow::isExposed: what the last handled one said
  needsPaint,                 \* the application is about to paint
  mWaitingForFrameCallback,
  mFrameCallbackTimedOut,
  frameTimer,                 \* mFrameCallbackTimerId is not -1
  frameTimerPosted,           \* a queued call that starts it
  mWaitingForUpdate,
  updateRequested,            \* QPlatformWindow::hasPendingUpdateRequest
  updatePosted,               \* a queued call of requestUpdate's functor
  fallbackTimer,              \* mFallbackUpdateTimerId is not -1
  queued,                     \* mQueuedBuffer is not null
  mapped,                     \* the compositor: the surface has a buffer,
  frameWanted,                \* a frame callback is owed,
  events                      \* what it sent and is not dispatched yet

exposeVars == <<mLastExposeGeometry, exposeEvent, appExposed>>
configVars == <<geometry, m_configured, m_pendingConfigureSerial, mWaitingToApplyConfigure>>
postVars   == <<m_pending, applyPosted>>
frameVars  == <<mWaitingForFrameCallback, mFrameCallbackTimedOut, frameTimer, frameTimerPosted>>
updateVars == <<mWaitingForUpdate, updateRequested, updatePosted, fallbackTimer>>
serverVars == <<mapped, frameWanted, events>>
vars == <<visible, exposeVars, configVars, postVars, needsPaint, frameVars, updateVars, queued,
          serverVars>>

-----------------------------------------------------------------------------
\* QWaylandXdgSurface::isExposed and QWaylandWindow::isExposed
ShellExposed == m_configured \/ m_pendingConfigureSerial
isExposed == visible /\ ~mFrameCallbackTimedOut /\ ShellExposed

\* sendExposeEvent; exposed is what isExposed says by now.  Before the first
\* configure event the xdg_surface keeps all but empty ones to itself.
sendExposeEvent(rect, exposed) ==
  /\ mLastExposeGeometry' = rect
  /\ exposeEvent' = IF exposed THEN "exposed"
                    ELSE IF ShellExposed \/ rect = Null THEN "hidden" ELSE exposeEvent
  /\ UNCHANGED appExposed

Init ==
  /\ visible = FALSE
  /\ geometry \in Sizes /\ mLastExposeGeometry = Null
  /\ m_configured = FALSE /\ m_pendingConfigureSerial = FALSE /\ m_pending = Null
  /\ mWaitingToApplyConfigure = FALSE /\ applyPosted = FALSE
  /\ exposeEvent = "none" /\ appExposed = FALSE /\ needsPaint = FALSE
  /\ mWaitingForFrameCallback = FALSE /\ mFrameCallbackTimedOut = FALSE
  /\ frameTimer = FALSE /\ frameTimerPosted = FALSE
  /\ mWaitingForUpdate = FALSE /\ updateRequested = FALSE
  /\ updatePosted = FALSE /\ fallbackTimer = FALSE
  /\ queued = FALSE
  /\ mapped = FALSE /\ frameWanted = FALSE /\ events = <<>>

-----------------------------------------------------------------------------
(* What the handlers are made of *)

\* Mutant: handleUpdate does not destroy the frame callback it replaces.
UndestroyedAll(es) == es

\* The events that are dispatched once the frame callback is destroyed
Undestroyed(es) == Without(es, {[type |-> "done"]})

\* QWaylandWindow::commit, attach and handleUpdate: the timers are stopped, and
\* the event of the frame callback that is replaced is not dispatched any more.
\* rest are the events that wait; queued calls of the same functor count once.
\* Its assertion isExposed() is left out: FirstConfigure commits what a window
\* queued before it was hidden again.
commit(rest) ==
  /\ mWaitingForFrameCallback' = TRUE
  /\ frameTimer' = FALSE
  /\ frameTimerPosted' = TRUE
  /\ mWaitingForUpdate' = FALSE
  /\ fallbackTimer' = FALSE
  /\ mapped' = TRUE
  /\ frameWanted' = TRUE
  /\ events' = Undestroyed(rest)
  /\ UNCHANGED <<mFrameCallbackTimedOut, updateRequested, updatePosted>>

\* doApplyConfigure and QWaylandXdgSurface::applyConfigure
doApplyConfigure ==
  /\ geometry' = IF m_pending = Null THEN geometry ELSE m_pending
  /\ m_configured' = TRUE
  /\ m_pendingConfigureSerial' = FALSE
  /\ mWaitingToApplyConfigure' = FALSE

\* The application's answer to an update request: it paints, or it does not.
deliverUpdateRequest ==
  /\ mWaitingForUpdate' = TRUE
  /\ updateRequested' = FALSE
  /\ needsPaint' \in {needsPaint, TRUE}

-----------------------------------------------------------------------------
(* The application *)

\* Mutant: "Ideally, we should just have returned here".
requestUpdateReturns ==
  /\ ~updateRequested
  /\ updateRequested' = TRUE
  /\ updatePosted' = (updatePosted \/ (~mWaitingForFrameCallback /\ ~mWaitingForUpdate))
  /\ UNCHANGED <<visible, exposeVars, configVars, postVars, needsPaint, frameVars,
                 mWaitingForUpdate, fallbackTimer, queued, serverVars>>

\* QWindow::requestUpdate, which returns when a request is pending already, and
\* QWaylandWindow's
requestUpdate ==
  /\ ~updateRequested
  /\ updateRequested' = TRUE
  /\ updatePosted' = (updatePosted \/ (~mWaitingForFrameCallback /\ ~mWaitingForUpdate))
  /\ fallbackTimer' = (fallbackTimer \/ (~mWaitingForFrameCallback /\ mWaitingForUpdate))
  /\ UNCHANGED <<visible, exposeVars, configVars, postVars, needsPaint, frameVars,
                 mWaitingForUpdate, queued, serverVars>>

\* setVisible(true): setGeometry sends an expose event, unless the last one had
\* this geometry.
Show ==
  /\ ~visible
  /\ visible' = TRUE
  /\ IF ~mFrameCallbackTimedOut /\ ShellExposed /\ geometry # mLastExposeGeometry
     THEN sendExposeEvent(geometry, TRUE)
     ELSE UNCHANGED exposeVars
  /\ UNCHANGED <<configVars, postVars, needsPaint, frameVars, updateVars, queued, serverVars>>

\* setVisible(false): the expose events are handled at once, and the null buffer
\* is attached unless a frame callback is awaited.
Hide ==
  /\ visible
  /\ visible' = FALSE
  /\ mLastExposeGeometry' = Null
  /\ exposeEvent' = "none" /\ appExposed' = FALSE
  /\ needsPaint' = (needsPaint \/ exposeEvent = "exposed")
  /\ mapped' = (mapped /\ mWaitingForFrameCallback)
  /\ UNCHANGED <<configVars, postVars, frameVars, updateVars, queued, frameWanted, events>>

\* QWindow::resize, setGeometry
Resize(sz) ==
  /\ geometry # sz
  /\ geometry' = sz
  /\ IF isExposed /\ sz # mLastExposeGeometry
     THEN sendExposeEvent(sz, TRUE)
     ELSE UNCHANGED exposeVars
  /\ UNCHANGED <<visible, m_configured, m_pendingConfigureSerial, mWaitingToApplyConfigure,
                 postVars, needsPaint, frameVars, updateVars, queued, serverVars>>

\* Qt Gui hands the queued expose events to the application, which paints when
\* its window is exposed.
HandleExposeEvent ==
  /\ exposeEvent # "none"
  /\ exposeEvent' = "none"
  /\ appExposed' = (exposeEvent = "exposed")
  /\ needsPaint' = (needsPaint \/ exposeEvent = "exposed")
  /\ UNCHANGED <<visible, mLastExposeGeometry, configVars, postVars, frameVars, updateVars,
                 queued, serverVars>>

\* A paint: setCanResize(true) at its end applies a configure event that waits,
\* and safeCommit commits what was painted, or queues it.
Paint ==
  /\ needsPaint
  /\ needsPaint' = FALSE
  /\ IF mWaitingToApplyConfigure
     THEN doApplyConfigure /\ sendExposeEvent(geometry', isExposed)
     ELSE UNCHANGED <<configVars, exposeVars>>
  /\ IF isExposed
     THEN commit(events) /\ UNCHANGED queued
     ELSE queued' = TRUE /\ UNCHANGED <<frameVars, updateVars, serverVars>>
  /\ UNCHANGED <<visible, postVars>>

-----------------------------------------------------------------------------
(* Queued calls and timers *)

\* QWaylandWindow::applyConfigure: sends an expose event in any case, and has the
\* expose events handled at once.
ApplyPosted ==
  /\ applyPosted
  /\ applyPosted' = FALSE
  /\ IF mWaitingToApplyConfigure THEN doApplyConfigure ELSE UNCHANGED configVars
  /\ mLastExposeGeometry' = geometry'
  /\ exposeEvent' = "none" /\ appExposed' = isExposed
  /\ needsPaint' = (needsPaint \/ exposeEvent = "exposed" \/ isExposed)
  /\ UNCHANGED <<visible, m_pending, frameVars, updateVars, queued, serverVars>>

\* requestUpdate's functor
UpdatePosted ==
  /\ updatePosted
  /\ updatePosted' = FALSE
  /\ IF updateRequested /\ ~mWaitingForUpdate /\ ~mWaitingForFrameCallback
     THEN deliverUpdateRequest
     ELSE UNCHANGED <<mWaitingForUpdate, updateRequested, needsPaint>>
  /\ UNCHANGED <<visible, exposeVars, configVars, postVars, frameVars, fallbackTimer, queued,
                 serverVars>>

\* Mutant: handleUpdate's functor does not ask whether the callback has come.
StartFrameTimerAnyway ==
  /\ frameTimerPosted
  /\ frameTimerPosted' = FALSE
  /\ frameTimer' = TRUE
  /\ UNCHANGED <<visible, exposeVars, configVars, postVars, needsPaint, mWaitingForFrameCallback,
                 mFrameCallbackTimedOut, updateVars, queued, serverVars>>

\* handleUpdate's functor
StartFrameTimer ==
  /\ frameTimerPosted
  /\ frameTimerPosted' = FALSE
  /\ frameTimer' = (frameTimer \/ mWaitingForFrameCallback)
  /\ UNCHANGED <<visible, exposeVars, configVars, postVars, needsPaint, mWaitingForFrameCallback,
                 mFrameCallbackTimedOut, updateVars, queued, serverVars>>

\* timerEvent of mFrameCallbackTimerId
FrameTimeout ==
  /\ frameTimer
  /\ frameTimer' = FALSE
  /\ mFrameCallbackTimedOut' = TRUE
  /\ mWaitingForUpdate' = FALSE
  /\ sendExposeEvent(Null, FALSE)
  /\ UNCHANGED <<visible, configVars, postVars, needsPaint, mWaitingForFrameCallback,
                 frameTimerPosted, updateRequested, updatePosted, fallbackTimer, queued,
                 serverVars>>

\* timerEvent of mFallbackUpdateTimerId
FallbackTimeout ==
  /\ fallbackTimer
  /\ fallbackTimer' = FALSE
  /\ IF isExposed /\ mWaitingForUpdate /\ updateRequested /\ ~mWaitingForFrameCallback
     THEN deliverUpdateRequest
     ELSE UNCHANGED <<mWaitingForUpdate, updateRequested, needsPaint>>
  /\ UNCHANGED <<visible, exposeVars, configVars, postVars, frameVars, updatePosted, queued,
                 serverVars>>

-----------------------------------------------------------------------------
(* Wayland events *)

Dispatches(type) == events # <<>> /\ Head(events).type = type

\* xdg_toplevel.configure and the first xdg_surface.configure: it is applied at
\* once, and is the expose.
FirstConfigure ==
  /\ Dispatches("configure")
  /\ ~m_configured
  /\ m_pending' = Head(events).size
  /\ m_configured' = TRUE
  /\ geometry' = IF m_pending' = Null THEN geometry ELSE m_pending'
  /\ exposeEvent' = IF visible /\ ~mFrameCallbackTimedOut THEN "exposed" ELSE "hidden"
  /\ queued' = FALSE
  /\ IF queued THEN commit(Tail(events))
               ELSE /\ events' = Tail(events)
                    /\ UNCHANGED <<frameVars, updateVars, mapped, frameWanted>>
  /\ UNCHANGED <<visible, mLastExposeGeometry, appExposed, m_pendingConfigureSerial,
                 mWaitingToApplyConfigure, applyPosted, needsPaint>>

\* Later ones wait for a queued call, or the end of a paint.
LaterConfigure ==
  /\ Dispatches("configure")
  /\ m_configured
  /\ m_pending' = Head(events).size
  /\ m_pendingConfigureSerial' = TRUE
  /\ mWaitingToApplyConfigure' = TRUE
  /\ applyPosted' = (applyPosted \/ ~mWaitingToApplyConfigure)
  /\ events' = Tail(events)
  /\ UNCHANGED <<visible, exposeVars, geometry, m_configured, needsPaint, frameVars, updateVars,
                 queued, mapped, frameWanted>>

\* Mutant: the null buffer is attached by Hide, or not at all.
MappedUnlessNever == mapped

MappedUnlessHidden == mapped /\ visible

\* handleFrameCallback: a window that was unexposed is exposed again, one that
\* was exposed gets its update request, and a hidden one attaches the null
\* buffer.
handleFrameCallback ==
  /\ Dispatches("done")
  /\ events' = Tail(events)
  /\ mWaitingForFrameCallback' = FALSE
  /\ mFrameCallbackTimedOut' = FALSE
  /\ frameTimer' = FALSE
  /\ IF ~isExposed /\ visible /\ ShellExposed
     THEN sendExposeEvent(geometry, TRUE)
     ELSE UNCHANGED exposeVars
  /\ IF isExposed /\ updateRequested
     THEN deliverUpdateRequest
     ELSE UNCHANGED <<mWaitingForUpdate, updateRequested, needsPaint>>
  /\ mapped' = MappedUnlessHidden
  /\ UNCHANGED <<visible, configVars, postVars, frameTimerPosted, updatePosted, fallbackTimer,
                 queued, frameWanted>>

-----------------------------------------------------------------------------
(* The compositor *)

SendDone ==
  /\ frameWanted
  /\ frameWanted' = FALSE
  /\ events' = Append(events, [type |-> "done"])
  /\ UNCHANGED <<visible, exposeVars, configVars, postVars, needsPaint, frameVars, updateVars,
                 queued, mapped>>

\* Bound: one configure event is on its way at a time.
SendConfigure(sz) ==
  /\ \A i \in DOMAIN events : events[i].type # "configure"
  /\ events' = Append(events, [type |-> "configure", size |-> sz])
  /\ UNCHANGED <<visible, exposeVars, configVars, postVars, needsPaint, frameVars, updateVars,
                 queued, mapped, frameWanted>>

-----------------------------------------------------------------------------
AppNext ==
  \/ requestUpdate \/ Show \/ Hide \/ HandleExposeEvent \/ Paint
  \/ \E sz \in Sizes : Resize(sz)

LoopNext == ApplyPosted \/ UpdatePosted \/ StartFrameTimer \/ FrameTimeout \/ FallbackTimeout

Dispatch == FirstConfigure \/ LaterConfigure \/ handleFrameCallback

ServerNext == SendDone \/ \E sz \in Sizes \cup {Null} : SendConfigure(sz)

Next == AppNext \/ LoopNext \/ Dispatch \/ ServerNext

Spec == Init /\ [][Next]_vars

\* The event loop comes round to every event, queued call and fallback timer, and
\* the application paints when it is about to.  The compositor answers a frame
\* callback some time, before or after the client's timer.
FairSpec ==
  /\ Spec
  /\ WF_vars(HandleExposeEvent) /\ WF_vars(Paint)
  /\ WF_vars(ApplyPosted) /\ WF_vars(UpdatePosted) /\ WF_vars(FallbackTimeout)
  /\ WF_vars(Dispatch) /\ WF_vars(SendDone)

-----------------------------------------------------------------------------
(* Properties *)

Events == [type : {"done"}] \cup [type : {"configure"}, size : Sizes \cup {Null}]

\* Type correctness
TypeOK ==
  /\ {visible, m_configured, m_pendingConfigureSerial, mWaitingToApplyConfigure, applyPosted,
      appExposed, needsPaint} \subseteq BOOLEAN
  /\ {mWaitingForFrameCallback, mFrameCallbackTimedOut, frameTimer, frameTimerPosted,
      mWaitingForUpdate, updateRequested, updatePosted, fallbackTimer, queued, mapped,
      frameWanted} \subseteq BOOLEAN
  /\ geometry \in Sizes /\ {mLastExposeGeometry, m_pending} \subseteq Sizes \cup {Null}
  /\ exposeEvent \in {"none", "exposed", "hidden"}
  /\ events \in Seq(Events) /\ Len(events) <= 2

\* A window that a timeout made unexposed will be exposed again, and one that
\* waits for a frame will get one: the callback is still on its way.  Otherwise
\* isExposed would be false, or requestUpdate do nothing, for ever.  A configure
\* event that waits has a serial to acknowledge, as applyConfigure asserts,
\* whichever of the queued call and the end of a paint comes first.
WaitsForSomething ==
  /\ mFrameCallbackTimedOut => mWaitingForFrameCallback
  /\ mWaitingForFrameCallback =>
       frameWanted \/ \E i \in DOMAIN events : events[i].type = "done"
  /\ mWaitingToApplyConfigure => m_pendingConfigureSerial

\* A hidden window is hidden from the compositor, by setVisible or by the frame
\* callback it had to wait for.
HiddenIsUnmapped == ~visible /\ ~mWaitingForFrameCallback => ~mapped

\* An update request is not pending for ever while the application knows its
\* window as exposed: the next frame, a queued call or the fallback timer
\* delivers it.  (A window that is resized again and again paints each time, and
\* each paint replaces the frame callback.)
UpdateDelivered == <>[][~Paint]_vars => ~<>[](updateRequested /\ appExposed)
=============================================================================
