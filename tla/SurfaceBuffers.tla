--------------------------- MODULE SurfaceBuffers ---------------------------
(***************************************************************************)
(* The buffers of a surface on their way through the compositor: a client  *)
(* attaches and commits a wl_buffer (QWaylandSurface), every view of the   *)
(* surface takes it over when it advances (QWaylandView), the Quick item   *)
(* that renders a view keeps it in its texture provider                    *)
(* (QWaylandQuickItem), and the client gets it back when the last          *)
(* QWaylandBufferRef to it is gone (ClientBuffer).                         *)
(*                                                                         *)
(* A reference count is modelled by the variables that hold a reference:   *)
(* m_refCount of b is the number of them that equal b.  operator= counts   *)
(* the new buffer before it lets the old one go, so what a handler's       *)
(* assignments add up to is what its last state says: the buffers held     *)
(* before the step and not after it are those whose count reached zero.    *)
(* ClientBufferRefs checks that reading against the counters themselves.   *)
(***************************************************************************)
EXTENDS Lists, SequencesExt

CONSTANTS
  Surfaces,      \* wl_surface objects
  Views,         \* QWaylandView objects
  Items,         \* the views that are rendered by a QWaylandQuickItem
  Windows,       \* QQuickWindows, each with a render thread of its own
  Buffers,       \* wl_buffer objects
  Null,
  Lockable,      \* views the compositor may call setBufferLocked on
  Discardable,   \* views it may call setAllowDiscardFrontBuffer on
  Hideable,      \* items it may call setPaintEnabled on
  Movable,       \* views it may take from a surface, a window or destroy
  UploadsShm,    \* it calls toOpenGLTexture on wl_shm buffers of bare views
  Unmaps         \* clients attach the null buffer

ASSUME NullAssumption ==
  /\ Null \notin Surfaces \cup Views \cup Windows \cup Buffers
  /\ Items \subseteq Views
ASSUME SwitchAssumption ==
  /\ Lockable \subseteq Views
  /\ Discardable \subseteq Views
  /\ Hideable \subseteq Items
  /\ Movable \subseteq Views
  /\ UploadsShm \in BOOLEAN
  /\ Unmaps \in BOOLEAN

VARIABLES
  live,              \* buffers whose wl_resource exists (m_buffer, ~m_destroyed)
  m_committed,       \* ClientBuffer::m_committed
  m_textureDirty,    \* ClientBuffer::m_textureDirty
  lent,              \* the client's ledger: handed over by attach and commit,
                     \* and no wl_buffer.release received since
  surfaces,          \* the surfaces whose wl_resource exists
  pendingBuffer,     \* QWaylandSurfacePrivate::pending.buffer
  newlyAttached,     \* QWaylandSurfacePrivate::pending.newlyAttached
  bufferRef,         \* QWaylandSurfacePrivate::bufferRef
  hasContent,        \* the surfaces with QWaylandSurfacePrivate::hasContent
  views,             \* QWaylandSurfacePrivate::views, the primary view first
  surface,           \* QWaylandViewPrivate::surface
  nextBuffer,        \* QWaylandViewPrivate::nextBuffer
  nextBufferCommitted,
  currentBuffer,     \* QWaylandViewPrivate::currentBuffer
  forceAdvanceSucceed,
  bufferLocked,
  allowDiscardFrontBuffer,
  connectedWindow,   \* QWaylandQuickItemPrivate::connectedWindow
  paintEnabled,
  newTexture,
  node,              \* the item has a node in the scene graph
  dirty,             \* update() was called since the last updatePaintNode
  missed,            \* ghost: items that no frame was asked for since their
                     \* window rendered while they were locked, or since
                     \* setPrimaryView gave them another surface
  providerRef,       \* m_ref of the item's QWaylandSurfaceTextureProvider
  jobRef,            \* m_ref of a provider that waits to be deleted
  toAdvance,         \* a frame's synchronization: the items that have not
                     \* handled beforeSynchronizing yet,
  toPaint            \* and those whose updatePaintNode may still run

clientVars  == <<live, m_committed, m_textureDirty, lent>>
surfaceVars == <<surfaces, pendingBuffer, newlyAttached, bufferRef, hasContent>>
linkVars    == <<views, surface>>
queueVars   == <<nextBuffer, nextBufferCommitted, currentBuffer, forceAdvanceSucceed>>
switchVars  == <<bufferLocked, allowDiscardFrontBuffer, paintEnabled>>
itemVars    == <<connectedWindow, newTexture, node, dirty, missed, providerRef, jobRef>>
syncVars    == <<toAdvance, toPaint>>
vars == <<clientVars, surfaceVars, linkVars, queueVars, switchVars, itemVars, syncVars>>

-----------------------------------------------------------------------------
MaybeBuffer == Buffers \cup {Null}

\* Mutants: a provider, or a surface, that keeps a bare pointer.
HeldNotByProvider(b) ==
  \/ \E s \in Surfaces : b \in {pendingBuffer[s], bufferRef[s]}
  \/ \E v \in Views : b \in {nextBuffer[v], currentBuffer[v], jobRef[v]}
HeldNotBySurface(b) ==
  \E v \in Views : b \in {nextBuffer[v], currentBuffer[v], providerRef[v], jobRef[v]}

\* Some QWaylandBufferRef refers to b: its m_refCount is positive.
Held(b) ==
  \/ \E s \in Surfaces : b \in {pendingBuffer[s], bufferRef[s]}
  \/ \E v \in Views : b \in {nextBuffer[v], currentBuffer[v], providerRef[v], jobRef[v]}

\* ClientBuffer::deref to zero in this step; to be evaluated once the step has
\* said what the references become.  A buffer that is let go while it is
\* committed is sent back; a destroyed one is deleted with its flags.
Dropped == {b \in Buffers : Held(b) /\ ~Held(b)'}
Released == Dropped \cap m_committed \cap live

\* Mutant: sendRelease leaves m_committed set.
ReleaseKeepsFlag ==
  /\ lent' = lent \ Released
  /\ UNCHANGED <<live, m_committed, m_textureDirty>>

\* What a step that only assigns references does to the buffers.
ReleaseDropped ==
  /\ m_committed' = m_committed \ Dropped
  /\ lent' = lent \ Released
  /\ UNCHANGED <<live, m_textureDirty>>

HasContent(b) == b \in live

PrimaryView(s) == IF views[s] = <<>> THEN Null ELSE Head(views[s])
ViewsOf(s) == Range(views[s])

\* The render thread synchronizes with the GUI thread blocked: the handlers of
\* requests, and the compositor's own calls, wait.
GuiRuns == toAdvance = {} /\ toPaint = {}

\* QQuickItem::update() of some items: Qt Quick paints them on the next frame of
\* their window, for which it asks.
Update(items) ==
  /\ dirty' = [v \in Views |-> dirty[v] \/ v \in items]
  /\ missed' = missed \ items

Init ==
  /\ live = {} /\ m_committed = {} /\ m_textureDirty = {} /\ lent = {}
  /\ surfaces = {} /\ hasContent = {}
  /\ pendingBuffer = [s \in Surfaces |-> Null]
  /\ newlyAttached = [s \in Surfaces |-> FALSE]
  /\ bufferRef = [s \in Surfaces |-> Null]
  /\ views = [s \in Surfaces |-> <<>>]
  /\ surface = [v \in Views |-> Null]
  /\ nextBuffer = [v \in Views |-> Null]
  /\ nextBufferCommitted = [v \in Views |-> FALSE]
  /\ currentBuffer = [v \in Views |-> Null]
  /\ forceAdvanceSucceed = [v \in Views |-> FALSE]
  /\ bufferLocked = [v \in Views |-> FALSE]
  /\ allowDiscardFrontBuffer = [v \in Views |-> FALSE]
  /\ paintEnabled = [v \in Views |-> TRUE]
  /\ connectedWindow = [v \in Views |-> Null]
  /\ newTexture = [v \in Views |-> FALSE]
  /\ node = [v \in Views |-> FALSE]
  /\ dirty = [v \in Views |-> FALSE] /\ missed = {}
  /\ providerRef = [v \in Views |-> Null]
  /\ jobRef = [v \in Views |-> Null]
  /\ toAdvance = {} /\ toPaint = {}

-----------------------------------------------------------------------------
(* Requests of a client *)

\* wl_shm_pool.create_buffer; getBuffer makes a new ClientBuffer for it.  An id
\* is used again only when the ClientBuffer it had is deleted.
CreateBuffer(b) ==
  /\ GuiRuns
  /\ b \notin live /\ ~Held(b)
  /\ live' = live \cup {b}
  /\ m_committed' = m_committed \ {b}
  /\ m_textureDirty' = m_textureDirty \ {b}
  /\ UNCHANGED <<lent, surfaceVars, linkVars, queueVars, switchVars, itemVars, syncVars>>

\* wl_buffer.destroy, the destroy listener and ClientBuffer::setDestroyed
DestroyBuffer(b) ==
  /\ GuiRuns
  /\ b \in live
  /\ live' = live \ {b}
  /\ m_committed' = m_committed \ {b}
  /\ lent' = lent \ {b}
  /\ UNCHANGED <<m_textureDirty, surfaceVars, linkVars, queueVars, switchVars, itemVars, syncVars>>

CreateSurface(s) ==
  /\ GuiRuns
  /\ s \notin surfaces
  /\ surfaces' = surfaces \cup {s}
  /\ UNCHANGED <<pendingBuffer, newlyAttached, bufferRef, hasContent, clientVars, linkVars, queueVars,
                 switchVars, itemVars, syncVars>>

surface_attach(s, b) ==
  /\ GuiRuns
  /\ s \in surfaces
  /\ pendingBuffer' = [pendingBuffer EXCEPT ![s] = b]
  /\ newlyAttached' = [newlyAttached EXCEPT ![s] = TRUE]
  /\ UNCHANGED <<surfaces, bufferRef, hasContent, linkVars, queueVars, switchVars, itemVars,
                 syncVars>>
  /\ ReleaseDropped

\* The new content: what is pending, or what was committed before.
Content(s) == IF pendingBuffer[s] # Null \/ newlyAttached[s] THEN pendingBuffer[s]
                                                            ELSE bufferRef[s]

\* QWaylandSurface::redraw is connected to QQuickItem::update, and a mutant: only
\* hasContentChanged is.
RedrawnWhenMapped(s) == {v \in Items \cap ViewsOf(s) : s \notin hasContent}
Redrawn(s) == Items \cap ViewsOf(s)

\* Takes the pending state over, then setCommitted on the content,
\* bufferCommitted on every view, and redraw, which updates the items.
surface_commit(s) ==
  /\ GuiRuns
  /\ s \in surfaces
  /\ bufferRef' = [bufferRef EXCEPT ![s] = Content(s)]
  /\ hasContent' = IF HasContent(Content(s)) THEN hasContent \cup {s} ELSE hasContent \ {s}
  /\ pendingBuffer' = [pendingBuffer EXCEPT ![s] = Null]
  /\ newlyAttached' = [newlyAttached EXCEPT ![s] = FALSE]
  /\ nextBuffer' = [v \in Views |-> IF v \in ViewsOf(s) THEN Content(s) ELSE nextBuffer[v]]
  /\ nextBufferCommitted' = [v \in Views |-> v \in ViewsOf(s) \/ nextBufferCommitted[v]]
  /\ Update(Redrawn(s))
  /\ UNCHANGED <<live, surfaces, linkVars, currentBuffer, forceAdvanceSucceed, switchVars,
                 connectedWindow, newTexture, node, providerRef, jobRef, syncVars>>
  /\ m_committed' = (m_committed \cup ({Content(s)} \ {Null})) \ Dropped
  /\ m_textureDirty' = m_textureDirty \cup ({Content(s)} \ {Null})
  /\ lent' = (lent \cup (IF newlyAttached[s] THEN {Content(s)} \cap live ELSE {})) \ Released

\* surface_destroy_resource: markSurfaceAsDestroyed on every view,
\* hasContentChanged, which updates the items, then the last deref deletes the
\* surface and its references.
surface_destroy_resource(s) ==
  /\ GuiRuns
  /\ s \in surfaces
  /\ surfaces' = surfaces \ {s}
  /\ pendingBuffer' = [pendingBuffer EXCEPT ![s] = Null]
  /\ newlyAttached' = [newlyAttached EXCEPT ![s] = FALSE]
  /\ bufferRef' = [bufferRef EXCEPT ![s] = Null]
  /\ hasContent' = hasContent \ {s}
  /\ views' = [views EXCEPT ![s] = <<>>]
  /\ surface' = [v \in Views |-> IF v \in ViewsOf(s) THEN Null ELSE surface[v]]
  /\ nextBuffer' = [v \in Views |-> IF v \in ViewsOf(s) THEN Null ELSE nextBuffer[v]]
  /\ nextBufferCommitted' = [v \in Views |-> v \notin ViewsOf(s) /\ nextBufferCommitted[v]]
  /\ currentBuffer' = [v \in Views |-> IF v \in ViewsOf(s) /\ ~bufferLocked[v]
                                       THEN Null ELSE currentBuffer[v]]
  /\ Update({v \in Redrawn(s) : s \in hasContent})
  /\ UNCHANGED <<forceAdvanceSucceed, switchVars, connectedWindow, newTexture, node, providerRef,
                 jobRef, syncVars>>
  /\ ReleaseDropped

-----------------------------------------------------------------------------
(* Calls of the compositor's program *)

\* Mutant: refView does not tell the view what the surface shows.
PointOnly(v, s, list) ==
  /\ views' = [t \in Surfaces |-> IF t = s THEN list ELSE Without(views[t], {v})]
  /\ surface' = [surface EXCEPT ![v] = s]
  /\ nextBuffer' = [nextBuffer EXCEPT ![v] = Null]
  /\ nextBufferCommitted' = [nextBufferCommitted EXCEPT ![v] = FALSE]
  /\ currentBuffer' = [currentBuffer EXCEPT ![v] = IF bufferLocked[v] THEN @ ELSE Null]

\* QWaylandViewPrivate::setSurface and clearFrontBuffer, with derefView on the
\* old surface and refView on the new one (which calls bufferCommitted); list is
\* what the new surface's views become.
Point(v, s, list) ==
  /\ views' = [t \in Surfaces |-> IF t = s THEN list ELSE Without(views[t], {v})]
  /\ surface' = [surface EXCEPT ![v] = s]
  /\ nextBuffer' = [nextBuffer EXCEPT ![v] = IF s = Null THEN Null ELSE bufferRef[s]]
  /\ nextBufferCommitted' = [nextBufferCommitted EXCEPT ![v] = s # Null]
  /\ currentBuffer' = [currentBuffer EXCEPT ![v] = IF bufferLocked[v] THEN @ ELSE Null]

\* QWaylandView::setSurface; QWaylandQuickItem::setSurface also calls update().
setSurface(v, s) ==
  /\ GuiRuns
  /\ v \in Movable \/ surface[v] = Null
  /\ surface[v] # s
  /\ Point(v, s, Append(views[s], v))
  /\ Update({v} \cap Items)
  /\ UNCHANGED <<surfaceVars, forceAdvanceSucceed, switchVars, connectedWindow, newTexture,
                 node, providerRef, jobRef, syncVars>>
  /\ ReleaseDropped

\* QWaylandSurface::setPrimaryView: a view of another surface is pointed at
\* this one first.  Neither asks for a frame.
setPrimaryView(s, v) ==
  /\ GuiRuns
  /\ s \in surfaces
  /\ v \in Movable \/ surface[v] = s
  /\ PrimaryView(s) # v
  /\ IF v \in ViewsOf(s)
     THEN /\ views' = [views EXCEPT ![s] = <<v>> \o Without(@, {v})]
          /\ UNCHANGED <<surface, queueVars, missed>>
     ELSE /\ Point(v, s, <<v>> \o views[s])
          /\ missed' = missed \cup ({v} \cap Items)
          /\ UNCHANGED forceAdvanceSucceed
  /\ UNCHANGED <<surfaceVars, switchVars, connectedWindow, newTexture, node, dirty, providerRef,
                 jobRef, syncVars>>
  /\ ReleaseDropped

\* Sets it or clears it; neither asks for a frame.
setBufferLocked(v) ==
  /\ GuiRuns
  /\ v \in Lockable
  /\ bufferLocked' = [bufferLocked EXCEPT ![v] = ~@]
  /\ UNCHANGED <<clientVars, surfaceVars, linkVars, queueVars, allowDiscardFrontBuffer,
                 paintEnabled, itemVars, syncVars>>

setAllowDiscardFrontBuffer(v) ==
  /\ GuiRuns
  /\ v \in Discardable
  /\ allowDiscardFrontBuffer' = [allowDiscardFrontBuffer EXCEPT ![v] = ~@]
  /\ UNCHANGED <<clientVars, surfaceVars, linkVars, queueVars, bufferLocked, paintEnabled,
                 itemVars, syncVars>>

setPaintEnabled(v) ==
  /\ GuiRuns
  /\ v \in Hideable
  /\ paintEnabled' = [paintEnabled EXCEPT ![v] = ~@]
  /\ Update({v})
  /\ UNCHANGED <<clientVars, surfaceVars, linkVars, queueVars, bufferLocked,
                 allowDiscardFrontBuffer, connectedWindow, newTexture, node, providerRef,
                 jobRef, syncVars>>

\* QWaylandQuickItem::updateWindow, into a window: Qt Quick makes the item
\* dirty, so that it is painted on the window's next frame.
EnterWindow(v, w) ==
  /\ GuiRuns
  /\ v \in Items
  /\ connectedWindow[v] = Null
  /\ connectedWindow' = [connectedWindow EXCEPT ![v] = w]
  /\ Update({v})
  /\ UNCHANGED <<clientVars, surfaceVars, linkVars, queueVars, switchVars, newTexture, node,
                 providerRef, jobRef, syncVars>>

\* QWaylandQuickItem::updateWindow, out of it: discardCurrentBuffer, and a job
\* of the render thread gets the provider.  The window deletes the node.
\* Bound: one provider of an item waits at a time.
LeaveWindow(v) ==
  /\ GuiRuns
  /\ v \in Movable
  /\ connectedWindow[v] # Null
  /\ jobRef[v] = Null
  /\ connectedWindow' = [connectedWindow EXCEPT ![v] = Null]
  /\ currentBuffer' = [currentBuffer EXCEPT ![v] = Null]
  /\ forceAdvanceSucceed' = [forceAdvanceSucceed EXCEPT ![v] = TRUE]
  /\ jobRef' = [jobRef EXCEPT ![v] = providerRef[v]]
  /\ providerRef' = [providerRef EXCEPT ![v] = Null]
  /\ node' = [node EXCEPT ![v] = FALSE]
  /\ UNCHANGED <<surfaceVars, linkVars, nextBuffer, nextBufferCommitted, switchVars,
                 newTexture, dirty, missed, syncVars>>
  /\ ReleaseDropped

\* ~QWaylandView and ~QWaylandQuickItem, whose provider is deleted later by the
\* render thread.  The identifier then stands for a new object.
DestroyView(v) ==
  /\ GuiRuns
  /\ v \in Movable
  /\ jobRef[v] = Null
  /\ surface[v] # Null \/ connectedWindow[v] # Null
  /\ views' = [t \in Surfaces |-> Without(views[t], {v})]
  /\ surface' = [surface EXCEPT ![v] = Null]
  /\ nextBuffer' = [nextBuffer EXCEPT ![v] = Null]
  /\ nextBufferCommitted' = [nextBufferCommitted EXCEPT ![v] = FALSE]
  /\ currentBuffer' = [currentBuffer EXCEPT ![v] = Null]
  /\ forceAdvanceSucceed' = [forceAdvanceSucceed EXCEPT ![v] = FALSE]
  /\ bufferLocked' = [bufferLocked EXCEPT ![v] = FALSE]
  /\ allowDiscardFrontBuffer' = [allowDiscardFrontBuffer EXCEPT ![v] = FALSE]
  /\ paintEnabled' = [paintEnabled EXCEPT ![v] = TRUE]
  /\ connectedWindow' = [connectedWindow EXCEPT ![v] = Null]
  /\ newTexture' = [newTexture EXCEPT ![v] = FALSE]
  /\ node' = [node EXCEPT ![v] = FALSE]
  /\ dirty' = [dirty EXCEPT ![v] = FALSE]
  /\ missed' = missed \ {v}
  /\ jobRef' = [jobRef EXCEPT ![v] = providerRef[v]]
  /\ providerRef' = [providerRef EXCEPT ![v] = Null]
  /\ UNCHANGED <<surfaceVars, syncVars>>
  /\ ReleaseDropped

-----------------------------------------------------------------------------
(* Rendering *)

AdvanceSucceeds(v) == (nextBufferCommitted[v] \/ forceAdvanceSucceed[v]) /\ ~bufferLocked[v]

\* The views whose front buffer the primary view v discards when it advances.
Discards(v) ==
  IF surface[v] # Null /\ PrimaryView(surface[v]) = v
  THEN {w \in ViewsOf(surface[v]) \ {v} : /\ allowDiscardFrontBuffer[w]
                                          /\ currentBuffer[w] = currentBuffer[v]}
  ELSE {}

\* QWaylandView::advance that returns true, with discardCurrentBuffer
Advance(v) ==
  /\ AdvanceSucceeds(v)
  /\ currentBuffer' = [w \in Views |-> IF w = v THEN nextBuffer[v]
                                       ELSE IF w \in Discards(v) THEN Null
                                       ELSE currentBuffer[w]]
  /\ forceAdvanceSucceed' = [w \in Views |-> IF w = v THEN FALSE
                                             ELSE w \in Discards(v) \/ forceAdvanceSucceed[w]]
  /\ nextBufferCommitted' = [nextBufferCommitted EXCEPT ![v] = FALSE]
  /\ UNCHANGED nextBuffer

\* A view without a Quick item, advanced by the compositor's own renderer
AdvanceBare(v) ==
  /\ GuiRuns
  /\ v \in Views \ Items
  /\ Advance(v)
  /\ UNCHANGED <<surfaceVars, linkVars, switchVars, itemVars, syncVars>>
  /\ ReleaseDropped

\* Mutant: the flag is cleared, the event is not sent.
UploadUnreleased(v) ==
  /\ GuiRuns
  /\ UploadsShm
  /\ v \in Views \ Items
  /\ currentBuffer[v] \in live \cap m_textureDirty
  /\ m_textureDirty' = m_textureDirty \ {currentBuffer[v]}
  /\ m_committed' = m_committed \ {currentBuffer[v]}
  /\ UNCHANGED <<live, lent, surfaceVars, linkVars, queueVars, switchVars, itemVars, syncVars>>

\* SharedMemoryBuffer::toOpenGlTexture on the current buffer of such a view:
\* uploads the pixels and releases the buffer.
toOpenGlTexture(v) ==
  /\ GuiRuns
  /\ UploadsShm
  /\ v \in Views \ Items
  /\ currentBuffer[v] \in live \cap m_textureDirty
  /\ m_textureDirty' = m_textureDirty \ {currentBuffer[v]}
  /\ m_committed' = m_committed \ {currentBuffer[v]}
  /\ lent' = lent \ {currentBuffer[v]}
  /\ UNCHANGED <<live, surfaceVars, linkVars, queueVars, switchVars, itemVars, syncVars>>

\* A window's render thread has a frame and blocks the GUI thread.  It has one
\* when a frame was asked for; others may ask for more.
BeginSync(w) ==
  /\ GuiRuns
  /\ \E v \in Items : connectedWindow[v] = w
  /\ toAdvance' = {v \in Items : connectedWindow[v] = w}
  /\ toPaint' = {v \in Items : connectedWindow[v] = w}
  /\ UNCHANGED <<clientVars, surfaceVars, linkVars, queueVars, switchVars, itemVars>>

\* QWaylandQuickItem::beforeSync
beforeSync(v) ==
  /\ v \in toAdvance
  /\ toAdvance' = toAdvance \ {v}
  /\ IF AdvanceSucceeds(v)
     THEN /\ Advance(v)
          /\ newTexture' = [newTexture EXCEPT ![v] = TRUE]
          /\ Update({v})
     ELSE /\ missed' = missed \cup (IF bufferLocked[v] THEN {v} ELSE {})
          /\ UNCHANGED <<queueVars, newTexture, dirty>>
  /\ UNCHANGED <<surfaceVars, linkVars, switchVars, connectedWindow, node, providerRef, jobRef,
                 toPaint>>
  /\ ReleaseDropped

NeedsTextureForNode(v) == ~node[v]   \* mutant: only a new node gets a texture
NeedsTexture(v) == newTexture[v] \/ ~node[v]

\* QWaylandQuickItem::updatePaintNode.  The provider takes the current buffer
\* when it is new; the early returns leave it the buffer it has.  This is the
\* path of buffers that can provide a texture of their own (shared memory, and
\* EGL formats of one plane): the other one has no provider.
updatePaintNode(v) ==
  /\ toAdvance = {}
  /\ v \in toPaint
  /\ toPaint' = toPaint \ {v}
  /\ dirty' = [dirty EXCEPT ![v] = FALSE]
  /\ \/ /\ paintEnabled[v] /\ ~HasContent(currentBuffer[v]) /\ bufferLocked[v]
        /\ UNCHANGED <<node, newTexture, providerRef>>
     \/ /\ ~paintEnabled[v] \/ (~HasContent(currentBuffer[v]) /\ ~bufferLocked[v])
        /\ node' = [node EXCEPT ![v] = FALSE]
        /\ UNCHANGED <<newTexture, providerRef>>
     \/ /\ paintEnabled[v] /\ HasContent(currentBuffer[v])
        /\ node' = [node EXCEPT ![v] = TRUE]
        /\ newTexture' = [newTexture EXCEPT ![v] = FALSE]
        /\ providerRef' = [providerRef EXCEPT
             ![v] = IF NeedsTexture(v) THEN currentBuffer[v] ELSE @]
  /\ UNCHANGED <<surfaceVars, linkVars, queueVars, switchVars, connectedWindow, missed,
                 jobRef, toAdvance>>
  /\ ReleaseDropped

\* The scene graph does not visit an item that is not dirty.
SkipPaint(v) ==
  /\ toAdvance = {}
  /\ v \in toPaint
  /\ ~dirty[v]
  /\ toPaint' = toPaint \ {v}
  /\ UNCHANGED <<clientVars, surfaceVars, linkVars, queueVars, switchVars, itemVars, toAdvance>>

\* QWaylandQuickItemCleanup::run, or the deferred delete of a provider.
\* ClientBufferRefs looks at what it does in the render thread, step by step.
CleanupProvider(v) ==
  /\ jobRef[v] # Null
  /\ jobRef' = [jobRef EXCEPT ![v] = Null]
  /\ UNCHANGED <<surfaceVars, linkVars, queueVars, switchVars, connectedWindow, newTexture,
                 node, dirty, missed, providerRef, syncVars>>
  /\ ReleaseDropped

-----------------------------------------------------------------------------
ClientNext ==
  \/ \E b \in Buffers : CreateBuffer(b) \/ DestroyBuffer(b)
  \/ \E s \in Surfaces : CreateSurface(s) \/ surface_commit(s) \/ surface_destroy_resource(s)
  \/ \E s \in Surfaces, b \in live : surface_attach(s, b)
  \/ \E s \in Surfaces : Unmaps /\ surface_attach(s, Null)

CompositorNext ==
  \/ \E v \in Views, s \in surfaces \cup {Null} : setSurface(v, s)
  \/ \E v \in Views, s \in Surfaces : setPrimaryView(s, v)
  \/ \E v \in Views : \/ setBufferLocked(v) \/ setAllowDiscardFrontBuffer(v)
                      \/ setPaintEnabled(v) \/ LeaveWindow(v) \/ DestroyView(v)
  \/ \E v \in Views, w \in Windows : EnterWindow(v, w)

RenderNext ==
  \/ \E v \in Views : AdvanceBare(v) \/ toOpenGlTexture(v)
  \/ \E w \in Windows : BeginSync(w)
  \/ \E v \in Items : beforeSync(v) \/ updatePaintNode(v) \/ SkipPaint(v) \/ CleanupProvider(v)

Next == ClientNext \/ CompositorNext \/ RenderNext

Spec == Init /\ [][Next]_vars

\* Some item of w has called update() and was not painted since.
FrameAskedFor(w) == \E v \in Items : connectedWindow[v] = w /\ dirty[v]

\* A window renders the frames it was asked for, in turn with the others, and
\* ends those it begins; render jobs run after a frame, which an item that
\* leaves its window asks for by leaving.
Rendering(v) ==
  /\ WF_vars(beforeSync(v)) /\ WF_vars(updatePaintNode(v) \/ SkipPaint(v))
  /\ WF_vars(CleanupProvider(v))
RenderFairness ==
  /\ \A w \in Windows : SF_vars(FrameAskedFor(w) /\ BeginSync(w))
  /\ \A v \in Items : Rendering(v)
FairSpec == Spec /\ RenderFairness

-----------------------------------------------------------------------------
(* Properties *)

ClientTypes ==
  /\ live \subseteq Buffers /\ m_committed \subseteq Buffers
  /\ m_textureDirty \subseteq Buffers /\ lent \subseteq Buffers
SurfaceTypes ==
  /\ surfaces \subseteq Surfaces
  /\ pendingBuffer \in [Surfaces -> MaybeBuffer] /\ bufferRef \in [Surfaces -> MaybeBuffer]
  /\ newlyAttached \in [Surfaces -> BOOLEAN] /\ hasContent \subseteq Surfaces
LinkTypes ==
  /\ views \in [Surfaces -> Seq(Views)]
  /\ surface \in [Views -> Surfaces \cup {Null}]
QueueTypes ==
  /\ nextBuffer \in [Views -> MaybeBuffer] /\ currentBuffer \in [Views -> MaybeBuffer]
  /\ nextBufferCommitted \in [Views -> BOOLEAN] /\ forceAdvanceSucceed \in [Views -> BOOLEAN]
SwitchTypes ==
  /\ bufferLocked \in [Views -> BOOLEAN] /\ allowDiscardFrontBuffer \in [Views -> BOOLEAN]
  /\ paintEnabled \in [Views -> BOOLEAN]
ItemTypes ==
  /\ connectedWindow \in [Views -> Windows \cup {Null}]
  /\ newTexture \in [Views -> BOOLEAN] /\ node \in [Views -> BOOLEAN]
  /\ dirty \in [Views -> BOOLEAN] /\ missed \subseteq Items
  /\ providerRef \in [Views -> MaybeBuffer] /\ jobRef \in [Views -> MaybeBuffer]
SyncTypes == toAdvance \subseteq Items /\ toPaint \subseteq Items

\* Type correctness: every reference names a buffer or none, every list views.
TypeOK ==
  /\ ClientTypes /\ SurfaceTypes /\ LinkTypes /\ QueueTypes /\ SwitchTypes
  /\ ItemTypes /\ SyncTypes

\* A reference other than pending.buffer: something the compositor may read.
Referenced(b) ==
  \/ \E s \in Surfaces : bufferRef[s] = b
  \/ \E v \in Views : b \in {nextBuffer[v], currentBuffer[v], providerRef[v], jobRef[v]}

\* "As long as a reference to the buffer exists, it is owned by the compositor
\* and the client cannot modify it" (QWaylandBufferRef): no view, provider or
\* clean-up job is left with a buffer that went back to the client.
ReferencedIsLent == \A b \in live : Referenced(b) => b \in lent

\* A buffer the client waits for is never stranded: someone holds a reference
\* that will release it, and the flag deref looks at says so.
LentWillBeReleased == \A b \in lent : Held(b) /\ b \in m_committed

\* No wl_buffer.release is sent for a buffer the client has already: the
\* compositor's flag agrees with the client's ledger.
ReleaseIsOwed == m_committed \cap live \subseteq lent

\* QWaylandSurfacePrivate::views and QWaylandViewPrivate::surface, changed from
\* both sides by setSurface, setPrimaryView and both destructors, agree.
ViewLists ==
  \A s \in Surfaces : /\ ViewsOf(s) = {v \in Views : surface[v] = s}
                      /\ Cardinality(ViewsOf(s)) = Len(views[s])

\* No commit is lost on its way to a view: one that neither waits for a commit
\* to be advanced to nor was discarded shows what its surface shows.
ShownIsLatest ==
  \A v \in Views : surface[v] # Null =>
    /\ nextBuffer[v] = bufferRef[surface[v]]
    /\ (~nextBufferCommitted[v] /\ ~forceAdvanceSucceed[v]) => currentBuffer[v] = nextBuffer[v]

\* The texture an item's node renders is that of the view's current buffer,
\* unless a newer one waits to be painted, across locks, discards, hiding,
\* moves between windows and destroyed surfaces.
PaintedIsCurrent ==
  \A v \in Items : node[v] /\ ~newTexture[v] /\ currentBuffer[v] # Null =>
    providerRef[v] = currentBuffer[v]

\* The compositor keeps the promise of BufferOwnership.
Ownership == INSTANCE BufferOwnership WITH
  owner <- [b \in Buffers |-> IF b \in lent THEN "compositor"
                              ELSE IF b \in live THEN "client" ELSE "nobody"],
  content <- bufferRef
OwnershipKept == Ownership!Spec

\* The client waits for b though no surface shows it any more.
Superseded(b) ==
  b \in lent /\ \A s \in Surfaces : b \notin {bufferRef[s], pendingBuffer[s]}

\* The view keeps what it has: it is locked, it was locked when its surface was
\* destroyed, or its item has nothing to paint (no window, no content, painting
\* disabled).
Frozen(v) ==
  \/ bufferLocked[v] \/ surface[v] = Null
  \/ /\ v \in Items
     /\ \/ ~HasContent(currentBuffer[v]) \/ ~paintEnabled[v]
        \/ connectedWindow[v] = Null

\* A superseded buffer goes back to the client, though windows render only the
\* frames they are asked for, unless a view has it that is frozen or waits for
\* a frame that nobody asked for.
SupersededReturned ==
  \A b \in Buffers : Superseded(b) ~>
    ~Superseded(b) \/ \E v \in Views : /\ Frozen(v) \/ v \in missed
                                      /\ b \in {currentBuffer[v], providerRef[v]}

\* What a surface shows reaches each item of it that is in a window and not
\* locked: every commit, and every other change of what an item has to show
\* (but unlocking it and setPrimaryView), asks for the frame that takes it over.
LatestIsShown ==
  \A v \in Items : nextBufferCommitted[v] ~>
    ~nextBufferCommitted[v] \/ bufferLocked[v] \/ connectedWindow[v] = Null \/ v \in missed
=============================================================================
