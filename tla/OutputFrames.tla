---------------------------- MODULE OutputFrames ----------------------------
(***************************************************************************)
(* The frame callbacks of surfaces, and the enter and leave events that    *)
(* tell a client on which outputs its surfaces are.  A client queues       *)
(* callbacks and commits them (QWaylandSurface); views tie surfaces to     *)
(* outputs (QWaylandView::setSurface, setOutput), each output keeps a      *)
(* table of the surfaces it shows (QWaylandOutputPrivate::surfaceViews),   *)
(* and a frame of the output's window marks the callbacks of those whose   *)
(* primary view it shows, and sends them when it is rendered.              *)
(*                                                                         *)
(* The window has a render thread (Qt Quick's threaded render loop):       *)
(* updateStarted runs in it with the GUI thread blocked, afterRendering is *)
(* emitted in it and delivered to the GUI thread through its event queue.  *)
(***************************************************************************)
EXTENDS Lists, SequencesExt

CONSTANTS
  Surfaces,      \* wl_surface objects of one client
  Views,         \* the views, each that of a QWaylandQuickItem
  Outputs,       \* QWaylandQuickOutput objects
  Callbacks,     \* wl_callback objects
  Null,
  MaxQueued,     \* bound: calls of doFrameCallbacks in the event queue, per output
  LateOutputs    \* outputs the client binds only when they are in use already

ASSUME FramesAssumption ==
  /\ Null \notin Surfaces \cup Views \cup Outputs
  /\ MaxQueued \in Nat \ {0}
  /\ LateOutputs \subseteq Outputs

VARIABLES
  surfaces,              \* the surfaces whose wl_resource exists
  hasContent,            \* those with QWaylandSurfacePrivate::hasContent
  pendingFrameCallbacks,
  frameCallbacks,
  canSend,               \* the callbacks with FrameCallback::canSend
  views,                 \* QWaylandSurfacePrivate::views, the primary view first
  surface,               \* QWaylandViewPrivate::surface
  output,                \* QWaylandViewPrivate::output
  surfaceViews,          \* of each output, the views of each surface it shows
  has_entered,           \* of each output, the surfaces with has_entered set
  bound,                 \* the outputs of which the client has a wl_output
  inside,                \* the client's ledger: the surfaces it was told are on
                         \* each output, by enter and not since by leave
  updates,               \* the outputs whose window has an update to render
  rendering,             \* those whose render thread renders a frame
  queued,                \* of each, doFrameCallbacks calls in the event queue
  promoted               \* ghost: surfaces that got another primary view since
                         \* their last commit, with callbacks waiting

callbackVars == <<pendingFrameCallbacks, frameCallbacks, canSend>>
linkVars  == <<views, surface, output>>
tableVars == <<surfaceViews, has_entered, inside>>
loopVars  == <<rendering, queued>>
vars == <<surfaces, hasContent, callbackVars, linkVars, tableVars, bound, updates, loopVars, promoted>>

-----------------------------------------------------------------------------
PrimaryView(s) == IF views[s] = <<>> THEN Null ELSE Head(views[s])
ViewsOf(s) == Range(views[s])

\* QWaylandOutputPrivate::addView and removeView
AddView(table, v, o, s) ==
  IF o = Null \/ s = Null THEN table ELSE [table EXCEPT ![o][s] = @ \cup {v}]
RemoveView(table, v, o, s) ==
  IF o = Null \/ s = Null THEN table ELSE [table EXCEPT ![o][s] = @ \ {v}]

\* The outputs' tables become this one: an entry that loses its last view is
\* removed, with surfaceLeave if it was entered.
SetTable(table) ==
  /\ surfaceViews' = table
  /\ has_entered' = [o \in Outputs |-> {s \in has_entered[o] : table[o][s] # {}}]
  /\ inside' = [o \in Outputs |-> {s \in inside[o] : s \in has_entered[o] => table[o][s] # {}}]

\* Ghost: to be evaluated with views' and frameCallbacks' known.  asked are the
\* surfaces whose primary view has asked for a frame in this step.
NotePromoted(asked) ==
  LET changed == {s \in Surfaces : PrimaryView(s)' \notin {PrimaryView(s), Null}}
  IN promoted' = {s \in (promoted \cup changed) \ asked : frameCallbacks'[s] # <<>>}

Init ==
  /\ surfaces = {} /\ hasContent = {}
  /\ pendingFrameCallbacks = [s \in Surfaces |-> <<>>]
  /\ frameCallbacks = [s \in Surfaces |-> <<>>]
  /\ canSend = {}
  /\ views = [s \in Surfaces |-> <<>>]
  /\ surface = [v \in Views |-> Null] /\ output = [v \in Views |-> Null]
  /\ surfaceViews = [o \in Outputs |-> [s \in Surfaces |-> {}]]
  /\ has_entered = [o \in Outputs |-> {}]
  /\ bound = Outputs \ LateOutputs
  /\ inside = [o \in Outputs |-> {}]
  /\ updates = {} /\ rendering = {}
  /\ queued = [o \in Outputs |-> 0]
  /\ promoted = {}

-----------------------------------------------------------------------------
(* Requests of the client *)

BindOutput(o) ==
  /\ o \notin bound
  /\ bound' = bound \cup {o}
  /\ UNCHANGED <<surfaces, hasContent, callbackVars, linkVars, tableVars, updates, loopVars,
                 promoted>>

CreateSurface(s) ==
  /\ s \notin surfaces
  /\ surfaces' = surfaces \cup {s}
  /\ UNCHANGED <<hasContent, callbackVars, linkVars, tableVars, bound, updates, loopVars, promoted>>

InUse(c) == \E s \in Surfaces : c \in Range(pendingFrameCallbacks[s]) \cup Range(frameCallbacks[s])

surface_frame(s, c) ==
  /\ s \in surfaces
  /\ ~InUse(c)
  /\ pendingFrameCallbacks' = [pendingFrameCallbacks EXCEPT ![s] = Append(@, c)]
  /\ UNCHANGED <<surfaces, hasContent, frameCallbacks, canSend, linkVars, tableVars, bound,
                 updates, loopVars, promoted>>

\* frameCallbacks << pendingFrameCallbacks, and a mutant: the new ones first
Prepended(old, new) == new \o old
Queued(old, new) == old \o new

\* surface_commit, of content or of the null buffer; redraw makes the items of
\* the surface ask their windows for a frame.
surface_commit(s, content) ==
  /\ s \in surfaces
  /\ hasContent' = IF content THEN hasContent \cup {s} ELSE hasContent \ {s}
  /\ frameCallbacks' = [frameCallbacks EXCEPT ![s] = Queued(@, pendingFrameCallbacks[s])]
  /\ pendingFrameCallbacks' = [pendingFrameCallbacks EXCEPT ![s] = <<>>]
  /\ updates' = updates \cup ({output[v] : v \in ViewsOf(s)} \ {Null})
  /\ UNCHANGED <<surfaces, canSend, linkVars, tableVars, bound, loopVars>>
  /\ NotePromoted({s})

\* surface_destroy_resource: every view loses the surface, and the callbacks
\* are destroyed unsent.
surface_destroy_resource(s) ==
  /\ s \in surfaces
  /\ surfaces' = surfaces \ {s}
  /\ hasContent' = hasContent \ {s}
  /\ pendingFrameCallbacks' = [pendingFrameCallbacks EXCEPT ![s] = <<>>]
  /\ frameCallbacks' = [frameCallbacks EXCEPT ![s] = <<>>]
  /\ canSend' = canSend \ Range(frameCallbacks[s])
  /\ views' = [views EXCEPT ![s] = <<>>]
  /\ surface' = [v \in Views |-> IF v \in ViewsOf(s) THEN Null ELSE surface[v]]
  /\ SetTable([o \in Outputs |-> [surfaceViews[o] EXCEPT ![s] = {v \in @ : v \notin ViewsOf(s) \/ output[v] # o}]])
  /\ UNCHANGED <<output, bound, updates, loopVars>>
  /\ NotePromoted({})

-----------------------------------------------------------------------------
(* Calls of the compositor's program *)

\* Mutant: the two surfaces are swapped.
RetableSwapped(v, s) ==
  RemoveView(AddView(surfaceViews, v, output[v], surface[v]), v, output[v], s)

\* The tables once v shows s: removeView of the old surface, addView of the new.
Retable(v, s) ==
  AddView(RemoveView(surfaceViews, v, output[v], surface[v]), v, output[v], s)

\* QWaylandQuickItem::setSurface
setSurface(v, s) ==
  /\ surface[v] # s
  /\ views' = [t \in Surfaces |-> IF t = s THEN Append(views[t], v) ELSE Without(views[t], {v})]
  /\ surface' = [surface EXCEPT ![v] = s]
  /\ SetTable(Retable(v, s))
  /\ updates' = updates \cup ({output[v]} \ {Null})
  /\ UNCHANGED <<surfaces, hasContent, callbackVars, output, bound, loopVars>>
  /\ NotePromoted({t \in Surfaces : t = s /\ views[t] = <<>>})

\* QWaylandView::setOutput: updateWindow, when the item enters another window,
\* whose scene graph then has the item to paint.
setOutput(v, o) ==
  /\ output[v] # o
  /\ output' = [output EXCEPT ![v] = o]
  /\ SetTable(AddView(RemoveView(surfaceViews, v, output[v], surface[v]), v, o, surface[v]))
  /\ updates' = updates \cup {o}
  /\ UNCHANGED <<surfaces, hasContent, callbackVars, views, surface, bound, loopVars, promoted>>

\* QWaylandSurface::setPrimaryView: asks for no frame.
setPrimaryView(s, v) ==
  /\ s \in surfaces
  /\ PrimaryView(s) # v
  /\ views' = [t \in Surfaces |-> IF t = s THEN <<v>> \o Without(views[t], {v})
                                           ELSE Without(views[t], {v})]
  /\ surface' = [surface EXCEPT ![v] = s]
  /\ SetTable(IF surface[v] = s THEN surfaceViews ELSE Retable(v, s))
  /\ UNCHANGED <<surfaces, hasContent, callbackVars, output, bound, updates, loopVars>>
  /\ NotePromoted({})

\* ~QWaylandView: removeView and derefView.  The identifier then stands for a
\* new view.
DestroyView(v) ==
  /\ surface[v] # Null
  /\ views' = [t \in Surfaces |-> Without(views[t], {v})]
  /\ surface' = [surface EXCEPT ![v] = Null]
  /\ output' = [output EXCEPT ![v] = Null]
  /\ SetTable(RemoveView(surfaceViews, v, output[v], surface[v]))
  /\ UNCHANGED <<surfaces, hasContent, callbackVars, bound, updates, loopVars>>
  /\ NotePromoted({})

-----------------------------------------------------------------------------
(* The render loop *)

\* QWaylandSurfaceViewMapper::maybePrimaryView is not null, and a mutant that
\* gives up when the first view it looks at is another one.
ShowsOnlyPrimary(o, s) == surfaceViews[o][s] = {PrimaryView(s)}
ShowsPrimary(o, s) == PrimaryView(s) \in surfaceViews[o][s]

\* The synchronization of a frame: updateStarted and frameStarted, with the GUI
\* thread blocked.  A window may render frames nobody asked for here.
updateStarted(o) ==
  /\ o \notin rendering
  /\ queued[o] < MaxQueued
  /\ canSend' = canSend \cup UNION {Range(frameCallbacks[s]) : s \in {t \in Surfaces : ShowsPrimary(o, t)}}
  /\ rendering' = rendering \cup {o}
  /\ updates' = updates \ {o}
  /\ UNCHANGED <<surfaces, hasContent, pendingFrameCallbacks, frameCallbacks, linkVars, tableVars,
                 bound, queued, promoted>>

\* The frame is rendered, while the GUI thread runs: afterRendering is queued.
AfterRendering(o) ==
  /\ o \in rendering
  /\ rendering' = rendering \ {o}
  /\ queued' = [queued EXCEPT ![o] = @ + 1]
  /\ UNCHANGED <<surfaces, hasContent, callbackVars, linkVars, tableVars, bound, updates, promoted>>

\* What sendFrameCallbacks of o answers
Answers(o) == {c \in canSend : \E s \in hasContent : ShowsPrimary(o, s) /\ c \in Range(frameCallbacks[s])}

\* doFrameCallbacks: sendFrameCallbacks, with surfaceEnter for the surfaces
\* that have content and have not entered yet.  The client learns of it when it
\* has a wl_output for this output.  Both switches are as they are by default:
\* m_automaticFrameCallback is on, and no view has independentFrameCallback.
doFrameCallbacks(o) ==
  /\ queued[o] > 0
  /\ queued' = [queued EXCEPT ![o] = @ - 1]
  /\ LET shown == {s \in hasContent : surfaceViews[o][s] # {}}
     IN /\ has_entered' = [has_entered EXCEPT ![o] = @ \cup shown]
        /\ inside' = [inside EXCEPT ![o] = @ \cup (IF o \in bound THEN shown \ has_entered[o] ELSE {})]
  /\ frameCallbacks' = [s \in Surfaces |-> Without(frameCallbacks[s], Answers(o))]
  /\ canSend' = canSend \ Answers(o)
  /\ UNCHANGED <<surfaces, hasContent, pendingFrameCallbacks, linkVars, surfaceViews, bound,
                 updates, rendering>>
  /\ NotePromoted({})

-----------------------------------------------------------------------------
ClientNext ==
  \/ \E o \in Outputs : BindOutput(o)
  \/ \E s \in Surfaces : CreateSurface(s) \/ surface_destroy_resource(s)
  \/ \E s \in Surfaces, c \in Callbacks : surface_frame(s, c)
  \/ \E s \in Surfaces, content \in BOOLEAN : surface_commit(s, content)

CompositorNext ==
  \/ \E v \in Views, s \in surfaces \cup {Null} : setSurface(v, s)
  \/ \E v \in Views, o \in Outputs : setOutput(v, o)
  \/ \E v \in Views, s \in Surfaces : setPrimaryView(s, v)
  \/ \E v \in Views : DestroyView(v)

LoopNext == \E o \in Outputs : updateStarted(o) \/ AfterRendering(o) \/ doFrameCallbacks(o)

Next == ClientNext \/ CompositorNext \/ LoopNext

Spec == Init /\ [][Next]_vars

\* A window renders the frames it was asked for, its render thread finishes
\* them, and the GUI thread handles its events.
FairSpec ==
  /\ Spec
  /\ \A o \in Outputs : /\ WF_vars(o \in updates /\ updateStarted(o))
                        /\ WF_vars(AfterRendering(o))
                        /\ WF_vars(doFrameCallbacks(o))

-----------------------------------------------------------------------------
(* Properties *)

TypeOK ==
  /\ surfaces \subseteq Surfaces /\ hasContent \subseteq Surfaces
  /\ pendingFrameCallbacks \in [Surfaces -> Seq(Callbacks)]
  /\ frameCallbacks \in [Surfaces -> Seq(Callbacks)]
  /\ canSend \subseteq Callbacks
  /\ views \in [Surfaces -> Seq(Views)]
  /\ surface \in [Views -> Surfaces \cup {Null}]
  /\ output \in [Views -> Outputs \cup {Null}]
  /\ surfaceViews \in [Outputs -> [Surfaces -> SUBSET Views]]
  /\ has_entered \in [Outputs -> SUBSET Surfaces] /\ inside \in [Outputs -> SUBSET Surfaces]
  /\ bound \subseteq Outputs /\ updates \subseteq Outputs /\ rendering \subseteq Outputs
  /\ queued \in [Outputs -> 0..MaxQueued]
  /\ promoted \subseteq Surfaces

\* An output's table holds a view under a surface exactly when the view shows
\* that surface on that output, whatever order setSurface, setOutput,
\* setPrimaryView and the destructors came in; and a surface the client was told
\* is on an output is in the table, or about to be left.
TablesAgree ==
  \A o \in Outputs :
    /\ \A s \in Surfaces : surfaceViews[o][s] = {v \in Views : surface[v] = s /\ output[v] = o}
    /\ inside[o] \subseteq has_entered[o] \cap surfaces

\* "The notifications are posted in the order the frame requests were
\* committed" (wl_surface.frame): what is marked is a prefix of what waits, so
\* that none is sent before an older one.
MarkedInOrder ==
  \A s \in Surfaces : \A i, j \in DOMAIN frameCallbacks[s] :
    i < j /\ frameCallbacks[s][j] \in canSend => frameCallbacks[s][i] \in canSend

\* No callback waits for ever while its surface has content and its primary view
\* stays on an output.  A view that becomes primary asks for no frame of its
\* output and takes over no frame that is under way: then they wait until the
\* next commit.
Answered ==
  \A s \in Surfaces, c \in Callbacks, o \in Outputs :
    ~<>[](/\ c \in Range(frameCallbacks[s])
          /\ s \in hasContent /\ s \notin promoted
          /\ PrimaryView(s) # Null /\ output[PrimaryView(s)] = o)
=============================================================================
