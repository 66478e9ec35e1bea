# Qt Wayland in TLA+

A TLA+ model of the parts of this repository whose correctness depends on the
order of things: buffers, frames, configure events, focus and text on their way
between a Wayland client and a Qt Quick compositor, through two threads on the
compositor's side and an event loop, timers and a render thread on the client's.
The modules are checked with
TLC on small instances, and theorems about the core are proved with TLAPS.

Paths below are relative to `src/src/` of the repository.

## 1. The system and its components

The repository holds both ends of the Wayland protocol for Qt: a library for
writing compositors (`compositor/`), a platform plugin for clients (`client/`,
`plugins/`), backends for graphics hardware (`hardwareintegration/`), and a code
generator (`qtwaylandscanner/`). This build is webOS's: `NO_WEBOS_PLATFORM` is
not defined, so for instance a client's hidden window keeps its surface.

| component | state | operations | talks to | hard part |
|---|---|---|---|---|
| surface (`compositor/compositor_api/qwaylandsurface.cpp`) | pending and current buffer, content flag, frame callbacks, list of views | attach, commit, frame, destroy, set primary view | client by requests; views, outputs by calls | double-buffered state, destruction with views and callbacks in flight |
| view (`qwaylandview.cpp`) | surface, output, next and current buffer, lock and discard flags | set surface or output, advance, discard, lock, destroy | surface, output, its renderer | a view reads on a render thread what commits change on the GUI thread |
| Quick item (`qwaylandquickitem.cpp`) | window, texture provider with its own reference, `newTexture`, scene graph node | enter or leave a window, `beforeSync`, `updatePaintNode`, clean-up render job | Qt Quick's render loop | three threads' worth of callbacks; references released by a job after a swap |
| client buffer and references (`wayland_wrapper/qwlclientbuffer.cpp`, `qwaylandbufferref.cpp`) | counter, committed, destroyed and dirty flags | ref, deref, release, commit, destroy, upload | client by `wl_buffer.release` | who sends the release, once; atomic counter, plain flags |
| output (`qwaylandoutput.cpp`, `qwaylandquickoutput.cpp`) | table of surfaces and views, `has_entered`, bound clients | bind, add and remove views, frame started, send callbacks | render loop, client by enter, leave and done | table changed from four places, callbacks marked and sent by two threads |
| client window (`client/qwaylandwindow.cpp`) and its xdg surface (`plugins/shellintegration/xdg-shell/`) | exposure, frame callback, two timers, update request, delayed configure | show, hide, resize, paint, configure, frame callback, time-outs | compositor by events; Qt Gui by expose events | each wait has to be ended by exactly one of several events |
| client backing store (`client/qwaylandshmbackingstore.cpp`, `qwaylandbuffer.cpp`) | pool of buffers, back buffer, busy and committed flags | begin and end paint, flush, resize, release | window, compositor | a pool at its limit, blocking inside a paint, nested paints |
| seat, keyboard, pointer, touch (`compositor_api/qwaylandseat.cpp` ...) | focus, focus resources, capabilities, button count | set focus, set capabilities, bind, send events | shells, items, clients | focus on surfaces, clients and devices that go away |
| xdg-shell and its kin (`compositor/extensions/`) | roles, pending configures, pings | configure, ack, ping, pong | surfaces, seat, QML items | acknowledgements that are late or skipped |
| data devices (`wayland_wrapper/qwldata*.cpp`, `client/qwaylanddata*.cpp`) | selection, drag source and focus, offers | set selection, start drag, enter, motion, drop | seat, both clients of a drag | objects of two clients that are destroyed in any order |
| text input (`extensions/qwaylandtextinput.cpp`, `client/qwaylandinputcontext.cpp`) | focus, enabled surfaces, state serials | enable, update state, enter, leave | seat, input method | stale state on both sides |
| client display and input (`client/qwaylanddisplay.cpp`, `qwaylandinputdevice.cpp`) | event queues, globals, focus and grab | read and dispatch events, translate input | everything on the client | reading from several threads |
| hardware integrations, EGL windows | driver objects | create and bind images, swap | drivers | the driver's |
| scanner, decorations, key maps, QML imports, grabber | next to none | | | none |

`PROJECT.json` lists the components with their files, and, line by line, the
hazards: what could go wrong that a test would hardly reach, with the properties
that would notice.

What makes each component correct:

* Buffers: no buffer is with the client while the compositor may read it; each
  lent buffer comes back, once; what is painted is what was committed last.
* Outputs and callbacks: the outputs' tables agree with the views; the client's
  picture of enter and leave agrees with the tables; callbacks are answered, in order.
* Backing store: paints go only to buffers that are the client's; nothing in
  use is deleted; stalls end; content carries over.
* Client window: no wait without something that ends it; configure events are
  applied, once; hidden means unmapped; update requests are delivered.
* Frames of an OpenGL window: a wait of either thread always has an answer that can
  reach it, and a late answer takes back what the time-out did.
* Seat: the focus never names a dead surface; every client object has been told the
  surface it is in, and no other; keys go to one that has entered.
* xdg-shell: both ends agree on states and size once nothing is under way; every
  configure event is acknowledged, by itself or a later one; the size to go back to
  is a window's.
* Text input: the compositor's copy of the text is the editor's once nothing is under
  way; what the input method sent before a reset is not inserted after it.
* Data devices (not modelled): every offer belongs to a live source, a drag ends with
  exactly one of drop, leave and cancel.

## 2. Modules

| module | models | lines of code it stands for |
|---|---|---|
| `BufferOwnership` | abstract: who owns a buffer, and when it may change hands | (what `QWaylandBufferRef` promises) |
| `SurfaceBuffers` | surfaces, views, Quick items and client buffers together | `qwaylandsurface.cpp`, `qwaylandview.cpp`, `qwaylandquickitem.cpp`, `qwlclientbuffer.cpp` |
| `Lists` | `QList::removeAll`, for the lists the other modules have | |
| `ListsProofs` | lemmas about lists that the proofs share | |
| `MCSurfaceBuffers` | its symmetry set, for TLC | |
| `ClientBufferRefs` | one client buffer, counter by counter, on two threads | `qwlclientbuffer.cpp`, `qwaylandbufferref.cpp` |
| `OutputFrames` | outputs, enter and leave, frame callbacks | `qwaylandoutput.cpp`, `qwaylandsurface.cpp`, `qwaylandview.cpp` |
| `ShmBackingStore` | the client's pool of buffers and `safeCommit` | `qwaylandshmbackingstore.cpp`, `qwaylandwindow.cpp` |
| `WindowFrames` | exposure, configure events, frame callbacks, timers and update requests of a client's window | `qwaylandwindow.cpp`, `qwaylandxdgshell.cpp` (client) |
| `EglFrames` | frame callbacks, timers and expose events of a window painted by a render thread | `qwaylandglcontext.cpp`, `qwaylandwindow.cpp`, `qwaylanddisplay.cpp` |
| `XdgConfigure` | configure events of a toplevel, from the compositor's item to the client's window and back | `qwaylandxdgshell.cpp` (both), `qwaylandxdgshellintegration.cpp`, `qwaylandwindow.cpp` |
| `SeatFocus` | keyboard and pointer focus, and what each client object was told of it | `qwaylandseat.cpp`, `qwaylandkeyboard.cpp`, `qwaylandpointer.cpp`, `qwaylandquickitem.cpp` |
| `TextInput` | text input of both ends, and the activation of windows it depends on | `qwaylandtextinput.cpp`, `qwaylandinputcontext.cpp`, `qwaylanddisplay.cpp`, `qwaylandinputdevice.cpp` |
| `SurfaceBuffersProofs`, `OutputFramesProofs`, `ShmBackingStoreProofs`, `XdgConfigureProofs`, `SeatFocusProofs` | theorems about the module of that name (section 5) | |
| `RenderThreadProofs` | theorems about `ClientBufferRefs` and `EglFrames` | |
| `ClientWindowProofs` | theorems about `WindowFrames` and `TextInput` | |

Variables and actions have the names of the members and functions they stand
for; `PROJECT.json` gives the lines. An action is one request, call, event or
queued call, with everything it does. Operators marked *Mutant* restate a
definition with a plausible bug; no specification uses them, and each property is
known to fail when its mutant takes the place of the definition.

### SurfaceBuffers

State: the members of `QWaylandSurfacePrivate`, `QWaylandViewPrivate`,
`QWaylandQuickItemPrivate` and `ClientBuffer` that decide about buffers, the
position of each window in its frame (`toAdvance`, `toPaint`), and the client's
ledger `lent`. A reference counter is modelled by the variables that hold a
reference: `Held(b)` says that one does, `Dropped` names the buffers that lose
their last one in a step, and `ReleaseDropped` does what `deref` does with them.
Counting first and dropping last, as `QWaylandBufferRef::operator=` does, makes
the sum of a handler's assignments equal to that; `ClientBufferRefs` checks it,
one access per step.

Actions: `surface_attach`, `surface_commit` and `surface_destroy_resource` for
the client's requests; `setSurface`, `setPrimaryView`, `setBufferLocked`,
`setAllowDiscardFrontBuffer`, `setPaintEnabled`, `EnterWindow`, `LeaveWindow` and
`DestroyView` for the compositor's program; `BeginSync`, `beforeSync`,
`updatePaintNode`, `SkipPaint` and `CleanupProvider` for a frame of a window
(between `BeginSync` and its last paint the GUI thread is blocked, so requests
and calls wait); `AdvanceBare` and `toOpenGlTexture` for views that a program
renders without an item. `BeginSync`, `SkipPaint` and `Update` are Qt Quick's, external.

Qt Quick renders a window when a frame was asked for. `Update` is
`QQuickItem::update()`, which makes an item dirty and asks for the frame;
`surface_commit`, `surface_destroy_resource`, `setSurface`, `setPaintEnabled`,
`EnterWindow` and an advance call it, `setBufferLocked` (`qwaylandquickitem.cpp:851-859`)
and `setPrimaryView` (`qwaylandsurface.cpp:722`) do not. `BeginSync` may happen without a
request as well, since other items may ask; only requested frames are fair (section 3).
The ghost `missed` has the items that nobody asked a frame for: those that a frame found
locked, and those that `setPrimaryView` gave another surface, until the next `Update`.

`updatePaintNode` is the path of buffers with a texture provider. The other path (EGL
formats of more than one plane, `qwaylandquickitem.cpp:1346-1389`) makes a material of the
planes' textures and holds no reference of its own; it is left out.

Constants beside the sets are switches for what a program does: which views it
locks, moves, hides or lets discard their front buffers, whether clients unmap
surfaces (`Unmaps`), and whether it calls `toOpenGLTexture` on shared-memory
buffers (`UploadsShm`), which releases the buffer early. A run switches on what
its question needs.

### ClientBufferRefs

`ref`, `deref` (count, look at the flags, send, reset `m_committed`, delete: a step
each), `setCommitted` and `setDestroyed` (two steps), called by the GUI thread at any
time, by the render thread for a texture provider while the GUI thread is blocked
(`ProviderAssign`), and by a clean-up job, which deletes a provider while the GUI thread
runs (`ProviderDelete`). The counter is atomic and the flags are plain members: every
interleaving of the accesses of the two threads is possible. `Attach` is a request
of a client that has the buffer; attaching a buffer that is still lent, which the
protocol leaves undefined, is excluded. The ghost `raced` is set when the client
destroys the buffer, or attaches it again between its release and the reset of
`m_committed`, while a render job that gave up the last reference is not done with it:
then the code goes wrong (section 4), and the properties about flags say nothing.

### OutputFrames

State: both lists of callbacks and the `canSend` marks, the links between
surfaces, views and outputs, each output's table with `has_entered`, and the
client's ledger `inside`. A frame is three steps: `updateStarted`
(`beforeSynchronizing`, the GUI thread blocked), `AfterRendering` (external: the
signal is queued to the GUI thread), `doFrameCallbacks`. `promoted` is a ghost: it
records the surfaces whose primary view was exchanged while callbacks wait. The two
switches that leave the answers to the compositor's program are as they are by default:
`m_automaticFrameCallback` (`qwaylandquickoutput.cpp:173`) is on and no view has
`independentFrameCallback` (`qwaylandoutput.cpp:951`).

### ShmBackingStore

A paint is `beginPaint` .. `EndPaint` (with the flush); one that finds no free
buffer goes on the stack `stalls` and is taken up again by `RetryPaint` after
events were dispatched; a `PaintNested` is an update request delivered by those
events. `getBuffer`, `Deleted` and `Kept` are the loop over the pool. The window's
`safeCommit`, `handleExpose` and `commit` hand buffers over. The compositor
(external) holds what it was given and releases any of it at any time;
`releases` are the events on their way. `exposed` changes whenever the thread
looks at events; `WindowFrames` says when. `drawn` and `complete` are ghosts for
what has been painted.

### WindowFrames

State: the window's and its xdg surface's members, the queued calls and timers as
flags, the last queued expose event, and the compositor's side: what it owes and
what it has sent. Actions: `Show`, `Hide`, `Resize`, `requestUpdate` and `Paint` of the
application, `HandleExposeEvent` of Qt Gui, the queued calls `ApplyPosted`,
`UpdatePosted` and `StartFrameTimer`, the timers `FrameTimeout` and
`FallbackTimeout`, the events `FirstConfigure`, `LaterConfigure` and
`handleFrameCallback`, and the compositor's `SendDone` and `SendConfigure`. A paint
is one step here. Timers have no clock: one that runs may expire at any time.

### EglFrames

The render thread's swap is split where the GUI thread may come in between:
`swapBuffers` (the callback moves to the queue `mFrameQueue`), `DispatchFrameQueue`
(the listener posts the handler to the window's thread), `EndWait`, `SetTimedOut`,
`MakeExpose` and `QueueExpose` (the expose event has `isExposed` from when it is
made), `handleUpdate`. The GUI thread runs `DispatchMainQueue`, `RunPosted`,
`FrameTimeout` and `HandleExposeEvent`. `handleUpdate` is one step, though the code asks for
the callback before it sets `mWaitingForFrameCallback` (`client/qwaylandwindow.cpp:1194-1196`):
the request takes effect with the commit that follows, so no answer comes between. `ReadEvents` is either thread reading the socket:
an event goes to the queue that its proxy has at that moment. `mFrameCallback` is
numbered; answers to callbacks that were destroyed are dropped. The window stays visible and
configured: `WindowFrames` has hiding, showing and configuring for one thread.

### XdgConfigure

State: the toplevel's `m_pendingConfigures` and `m_lastAckedConfigure`, the
integration's `windowedGeometry`, the window geometry, both directions of the
connection, and the client's `m_pending`, `m_applied`, `m_normalSize`,
`m_pendingConfigureSerial` and `mWaitingToApplyConfigure`. A size is free, the window's or the
output's. The compositor resizes (`sendResizing`), gives and takes the focus
(`handleFocusReceived`, `handleFocusLost`) and answers requests (`HandleRequest`); the client
handles the two events of a configure one by one, applies (`applyConfigure`, `FinishApply`)
and asks for states (`requestWindowStates`). With `Threaded`, the window is painted by a render
thread, which may apply a configure event between any two steps of the GUI thread.

Two things are assumed. Without a render thread nothing is applied between the two events of
a configure (`MayApply`): the compositor writes them one after the other and flushes them
together, and the client dispatches what a read brought before it paints. A read that ends
between the two, because the socket's buffer is full, is not modelled. And the toplevel's item is
the primary view, on an output whose geometry stays as it is: each maximized or fullscreen
toplevel resends its size when the geometry changes, and goes on to do so after it is
restored, since `unset_maximized` and `unset_fullscreen` do not disconnect that handler
(`qwaylandxdgshellintegration.cpp:150-163`, `201-215`).

### SeatFocus

State: the seat's two records of the focus, both devices with their bound client
objects, what each view shows, and `inside`, a ledger of what each client object
was last told by enter and leave. Actions: `setKeyboardFocus`, `BindKeyboard`,
`keyboard_destroy_resource`, `RemoveKeyboard` and `AddKeyboard` (capabilities);
`sendMouseMoveEvent`, `mousePressEvent` (which may take the focus first),
`mouseReleaseEvent`, `HoverLeave`, `AddPointerClient`, `ReleasePointer`, `TogglePointer`;
`setSurface`, `DestroyView` and `DestroySurface`, with the listeners in the code's order.
Surfaces of cursors, which `focused` and `sendMouseMoveEvent` take for none
(`qwaylandkeyboard.cpp:284-285`), are left out. `sendMouseMoveEvent` and `mousePressEvent` have the
guard that the seat has a pointer: `QWaylandSeat` follows `d->pointer` without a test
(`qwaylandseat.cpp:226-252`), so a program that calls them on another seat is at fault.

### TextInput

State: the compositor's focus, `currentState`, `enabledSurfaces` and the input method
controls of its surfaces; both directions of the connection; the client's active
windows, its sync, the activations posted to Qt Gui, the focus window, the editors
and the context's `mCurrentWindow`, `m_surface` and `m_resetCallback`. Of a text only the number of
its edits and of the input method's commits is kept: two texts are equal if both are.
The focus moves as `takeFocus` does it, keyboard first; the client activates windows
after a sync, or, in webOS, by the first key (`keyboard_key`). This is what wl_shell,
ivi and shells without a state of their own do; an xdg toplevel is activated by its
configure events, of which `XdgConfigure` keeps the state only. A reset numbers its sync,
which stands for the `wl_callback` object: the answer to one that was destroyed is dropped.

`update` has the queries that an editor passes, and the client sends the text only if
they name it (`client/qwaylandinputcontext.cpp:127-168`, `449`). `Edit` and a commit report the
text. `Toggle`, an editor that starts or stops to accept input methods, reports that alone, as
`setReadOnly` of Qt's editors does, or all properties. `enter`, a reset and a new focus object report all
of them. The ghost `unreported` says that the focus window's text was not reported since
the window was activated and its surface entered, or since a commit that the editor did not take
because it did not accept. Hints, the cursor's rectangle and the language are sent in the same way and
left out, and so is what the compositor's input method does when `update_state` resets
it (`qwaylandtextinput.cpp:385-388`).

The specifications of `EglFrames` and `TextInput` have names of their own (`EglSpec`, `TextSpec`,
`EglTypeOK`, ...), because each shares a module of proofs with another component.

## 3. What is checked

The bounds are in the `.cfg` files. Runs check for deadlock, but for those of
`EglFrames`, `XdgConfigure` and `TextInput`, which stop when their bounds are used up.

| run | instance | distinct states | shows |
|---|---|---|---|
| `surface_buffers_item` | 1 surface, 1 item, 2 windows, 2 buffers; locks, hiding, moving, unmapping | 548 k | `TypeOK`, `ReferencedIsLent`, `ReleaseIsOwed`, `PaintedIsCurrent`, and the refinement `OwnershipKept` |
| `surface_buffers_bare` | 2 surfaces, 2 bare views (one may discard), 2 buffers; early uploads | 202 k | `ViewLists`, `ShownIsLatest`, `LentWillBeReleased` |
| `surface_buffers_live` | 1 surface, 1 item, 1 window, 2 buffers; locks, moves, unmapping; frames on request | 247 k | `SupersededReturned`, `LatestIsShown` |
| `client_buffer_refs` | 2 references on the GUI thread, 2 on the render thread, every interleaving | 17 k | `CountsReferences`, `NeverDangling`, `ReleasedByTheLast` |
| `output_frames` | 1 surface, 2 views, 2 outputs (one bound late), 2 callbacks | 384 k | `TablesAgree`, `MarkedInOrder`, `Answered` |
| `shm_backing_store` | 3 buffers, 2 sizes, a pool of 2, one nested paint | 124 k | `PaintsOwnBuffer`, `UsedAreKept`, `KeepsContent`, `StallEnds` |
| `window_frames` | 2 sizes, one unacknowledged configure event and one callback under way | 126 k | `WaitsForSomething`, `HiddenIsUnmapped`, `UpdateDelivered` |
| `egl_frames` | 5 buffer swaps, two threads | 74 k | `WaitIsAnswered`, `TimeoutEnds` |
| `xdg_configure` | 3 configure events and 2 requests (up to 7 events), one thread | 47 k | `AgreeWhenQuiet`, `WindowSizeKept`, `ConfigureAcked` |
| `seat_focus` | 2 clients, one with two surfaces, the other with two keyboards, 2 views, 1 button | 372 k | `KeyboardTold`, `PointerTold` |
| `text_input` | 2 windows, 3 events of the compositor, 2 of the application | 275 k | `AgreeWhenQuiet`, `NoneIsLate` |
| `finding_serial_lost` | 3 configure events, a render thread | | `SerialIsPending` is violated (section 4) |

Why the bounds are enough for the cases to happen:

* Two buffers let one supersede another while a third role (pending, next,
  current, provider, render job) still has the first: each reference is a variable
  of its own, so all six kinds of holder can disagree with two buffers and "none".
  Two windows are what a moving item needs to leave a render job and a provider
  behind in one while the other paints; two surfaces and two views are what moving
  views, secondary views and the discard rule need.
* `OutputFrames` needs two views for an exchange of the primary view, two outputs for
  a view that moves between them, two callbacks for an order. `MaxQueued` bounds the
  queued `doFrameCallbacks` of an output to one: a render thread that runs ahead
  further would mark more callbacks before the GUI thread answers, which marks no
  other prefix.
* `MAX_BUFFERS` is 5 in the code. A pool of two of three buffers is full with one
  buffer shown and one on its way back, stalls, and has to delete buffers of another
  size. `MaxNested` bounds paints inside stalled paints, which the code does not.
* `MaxFrames` is 5: a posted handler of one frame, the timers of two more and a new
  callback can be about at once, and no step looks further back than the frame before.
* `XdgConfigure` needs a configure event that is applied, one that waits, and one that
  overtakes it; a second request for the window to be maximized and then restored. A
  request brings two events, so seven may be sent.
* `SeatFocus`: a second keyboard, a second surface and a second client are what the
  comparisons of `focused` and `pointerFocusChanged` tell apart; two views let the
  pointer move between surfaces and to another view of the same one.
* `TextInput`: three events are a focus change, a commit and a second focus change, or
  two changes and a key; with two inputs, a reset or an edit crosses any of them.
* `WindowFrames` has no counters. At most one frame callback is owed at a time because
  the client destroys an older one; a compositor that sends configure events faster
  than they are dispatched is bounded to one waiting.

Symmetry is used in runs without liveness only.

### Fairness

* `SurfaceBuffers`: a window that has a dirty item renders a frame (strong, since other
  windows and the GUI thread's calls come in between), a frame that began ends, and render jobs
  run after it. A window that no item asked need not render. Items are visible
  and windows exposed: Qt Quick renders no others. Clients and the compositor's program are not fair:
  nobody has to commit or to unlock.
* `OutputFrames`: a window that was asked for a frame renders it, the render thread
  finishes it, the GUI thread gets to its queue. A window nobody asked may still
  render.
* `ShmBackingStore`: a paint ends, a stalled paint looks at the pool again, events are
  dispatched, and the compositor releases what it does not show any more.
  `StallEnds` is claimed for applications that do not paint inside each stalled paint
  again and again.
* `WindowFrames`: the event loop gets to queued calls, events and the fallback timer,
  Qt Gui delivers expose events, an application that is to paint does, and the compositor
  answers frame callbacks some time. The frame timer is not fair: it may be late.
* `EglFrames`: both threads go on with what they have begun, a wait ends (after 100 ms),
  posted calls and expose events are delivered, and the compositor answers the callback of
  a visible window. No timer has to fire and the application need not render.
* `XdgConfigure`: both ends handle what reaches them, and a window is not painted for
  ever, so that what waits is applied.

`ClientBufferRefs`, `SeatFocus` and `TextInput` claim safety only. `SupersededReturned`,
`LatestIsShown` and `Answered` name the states
they except: `Frozen` views (locked, without a surface, or an item with nothing to
paint) keep their buffers, as the code means them to or not (see below); an item in
`missed` waits for a frame that nobody asked for; a
surface whose primary view was exchanged without a repaint waits for its next
commit, since `setPrimaryView` asks no output for a frame. `surface_buffers_live` has one
item, as two with all their locks and moves are beyond what TLC finishes in the time
a run should take; how two views of a surface affect each other is checked in
`surface_buffers_bare`, without fairness, and `ShownIsLatest` is proved for any number.

## 4. Where the code departs from what is said about it

One departure is a run that TLC ends with a counterexample:

* `finding_serial_lost`: `applyConfigure` asserts that a serial is pending
  (`plugins/shellintegration/xdg-shell/qwaylandxdgshell.cpp:313`). A render thread that
  swaps buffers applies a configure event under `mResizeLock`; the GUI thread's
  `xdg_surface_configure` writes the serial of the next one (388) before it takes the lock.
  If it does so between the acknowledgement (319) and `m_pendingConfigureSerial = 0` (321), the next
  configure event is applied with serial 0: the assertion fails, or the compositor is sent
  an acknowledgement of 0, at which it drops every pending configure event.

Seen while modelling, without a run of their own. Buffers and outputs:

* A secondary view that may discard its front buffer keeps a buffer the primary view
  has never shown: `advance` (`qwaylandview.cpp:250`) compares the two views' buffers
  only at the moment the primary view advances.
* A locked item that leaves its window discards the locked buffer
  (`qwaylandquickitem.cpp:1211`), which the documentation of `bufferLocked` excludes.
* A client that destroys its buffer, or attaches and commits it again, while a render job that
  gave up the last reference is still in `deref` (`qwlclientbuffer.cpp:93-101`), races with it: the
  flags that the job reads are plain members. The job may have found the buffer committed and
  alive when `setDestroyed` clears `m_buffer`: then `Q_ASSERT(m_buffer)` in `sendRelease`
  (`qwlclientbuffer.cpp:73`) fails, or a release is sent to no resource. Both may delete the
  buffer, since `setDestroyed` finds the counter at zero and the job finds `m_destroyed`. And a commit between the job's release
  and its `m_committed = false` (75) is forgotten: that buffer is never released. Everything
  `ClientBufferRefs` states about flags is up to that moment (`~raced`); TLC finds each of the three
  when `~raced` is taken out.
* Unlocking an item's buffer (`qwaylandquickitem.cpp:851-859`) and `setPrimaryView`
  (`qwaylandsurface.cpp:722`) ask for no frame, unless the item's size changes: a commit that
  a locked item passed over, and the buffer it superseded, wait until something else is drawn in that window.
* `has_entered` is set though no enter event could be sent (`qwaylandoutput.cpp:946`),
  and none follows when the client binds the output.
* `toOpenGlTexture` (`qwlclientbuffer.cpp:181`) releases shared-memory buffers that
  surfaces and views refer to, against "as long as a reference to the buffer exists,
  it is owned by the compositor" (`qwaylandbufferref.cpp:64`). A commit without a new
  attach then marks the buffer committed again and a second release follows. The
  model has this with `UploadsShm`; what is proved about ownership assumes
  `~UploadsShm`. `LentWillBeReleased` and the lists are checked with it.
* An item whose surface was unmapped keeps the reference of its texture provider
  (`qwaylandquickitem.cpp:1306`): `Frozen` excepts it from `SupersededReturned`.

Client windows:

* Hiding a window attaches the null buffer, and `attach` begins with
  `Q_ASSERT(!buffer->committed())` (`client/qwaylandwindow.cpp:582`), which follows that null pointer
  in a build with assertions. The models have builds without them.
* `commit` asserts that the window is exposed (`client/qwaylandwindow.cpp:626`). A paint before the
  first configure event queues its buffer; if the window is hidden after that, the configure event's
  `handleExpose` (`client/qwaylandwindow.cpp:614-622`) commits the queued buffer all the same, and
  maps a hidden window. `WindowFrames` and `ShmBackingStore` have that step;
  `HiddenIsUnmapped` excepts a window that awaits a frame callback.
* A window that was configured while hidden is shown without an expose event, and its
  application does not paint (`client/qwaylandwindow.cpp:364`).
* A `handleFrameCallback` that the render thread posted may run after the next swap: it
  clears the flag of the newer callback, so that one frame more is painted. Two
  swaps before the GUI thread runs the posted `startTimer` leave a timer that nobody
  stops; it fires without effect. An expose event the render thread made while the GUI thread
  handled the callback may be queued last, and leave the application told that the
  window is hidden ("make sure to not make races in this method", `client/qwaylandwindow.cpp:1174-1175`).
* In webOS a key activates its window at once (`client/qwaylandinputdevice.cpp:934-945`:
  "Thus there is no issue"). If a key, the keyboard's leave and the answer to the sync come in
  one dispatch, the posted activation is delivered after `handleWaylandSync` has compared
  with the focus window of before: the window stays active without the keyboard.

Focus, shells and text:

* The seat's `keyboardFocus` outlives its surface: `setCapabilities` follows it when the
  keyboard comes back (`qwaylandseat.cpp:101`). `AddKeyboard` excludes that step.
* A second `wl_keyboard` of the focused client takes over: the first is sent no leave
  (`qwaylandkeyboard.cpp:271`). `KeyboardTold` excepts clients with two.
* `buttonCount` falls below zero when the entered surface is destroyed with a button
  held, and the next press is then not reported as one (`qwaylandpointer.cpp:217`).
* `setKeyboardFocus(nullptr)` on a seat whose keyboard is gone returns early and keeps
  the recorded focus; `setRepeatRate` and `setRepeatDelay` send before they assign
  (`qwaylandkeyboard.cpp:742-778`).
* `std::set_symmetric_difference` is given states in no order
  (`qwaylandxdgshell.cpp:1301`): signals may be emitted for states that did not change.
  In the model states are sets.
* The item of a toplevel sends no configure event when a drag of its edge ends
  (`qwaylandxdgshellintegration.cpp:108-117`): the window is told it is being resized until
  the next mode change. An applied configure event activates windows from whichever thread
  applies it (`client`'s list of active windows has no lock).
* A commit of the input method that arrives before the window is activated goes to the
  editor of the window that was active. A commit between a reset's `update_state` and its
  sync, when these are read apart, is discarded by the client though the compositor has
  counted it; `TextInput` has both handled together. An editor that starts to accept input
  methods after its window was entered and activated, and reports `Qt::ImEnabled` alone, is enabled
  at the compositor with the text known before, or none, until its text changes
  (`client/qwaylandinputcontext.cpp:127-168`, `429-450`; only a new focus object, 539-548, reports
  all). The serials of text input are stored and never
  compared.

## 5. What is proved

Every invariant, every action property without fairness and the refinement that a run
that passes checks is a theorem: it holds for any number of
surfaces, views, windows, buffers, clients, frames, events and requests, under the
assumptions on constants that the modules state (`Null` or `None` is none of the objects,
switches are Booleans or sets of views, bounds are numbers). Each of the proof modules
defines an inductive invariant, shows that the initial states have it and that
each action keeps it (one lemma per action or group of actions), and derives the
theorems. TLC checked these invariants on the instances of section 3 first.

Hypotheses beyond those are named in the theorem, and are true of the run that checks the
same property:

* `~UploadsShm` (`ReferencedIsLent`, `ReleaseIsOwed`, the refinement): with early
  uploads the properties fail, section 4. All else about `SurfaceBuffers` is
  proved with them too.
* `~Threaded` (`XdgConfigure`, but for its types): a render thread applies a configure event
  between its two events, or after its serial was cleared, and the ends need not agree.
  `finding_serial_lost` is one such case.

### SurfaceBuffers

* `TypeCorrect`: `TypeOK` is inductive by itself.
* `OwnershipInv` is the inductive invariant behind `ReferencedBuffersAreLent`,
  `ReleasesAreOwed` and the refinement: what is referenced is
  lent, the committed flag of live buffers is the ledger, each lent buffer is held,
  and a pending buffer was newly attached. The last is needed for `surface_commit`,
  whose test is `pending.buffer.hasBuffer() || pending.newlyAttached`; the second
  turns the flag, which is what `deref` looks at, into what the client knows.
  `ReferencedIsLent` alone is not inductive: a step may drop a buffer whose
  flag is wrong. Most actions only move references, and the lemma `MovingReferences`
  covers them: a step that adds references only to buffers that have one, and
  releases what it drops, preserves `OwnershipInv`.
* `ImplementsOwnership`: `Spec => OwnershipKept`. `Init` maps to
  `Ownership!Init`; `CreateBuffer`, `DestroyBuffer` and `surface_commit` map to the
  abstract actions of these names, and every other step to `Release(R)` with `R` the
  buffers it drops.
* `NoBufferIsStranded` does not need the ledger to be right, so early uploads may
  happen: `LentInv`, that a lent buffer exists, is marked committed and is held, is
  inductive.
* `ListsAgree`: the inductive invariant is `ListsInv`: no surface lists a view twice, and
  a view is in the list of a surface exactly when it shows that surface. That the list is
  as long as the number of views then follows from `FS_CountingElements`.
* `CommitsReachViews`: `ShownIsLatest` is inductive together with `ListsInv`, since a
  commit reaches the views that the surface lists, and the property is about those that
  show the surface.
* `NodesShowCurrentBuffers`: `PaintedIsCurrent` is inductive with the types: each step that
  changes an item's current buffer sets `newTexture`, and `updatePaintNode` clears it
  only when it takes the buffer over.

### ClientBufferRefs

The invariant is in three parts, and no theorem has a hypothesis about the threads.

`CountInv`: the counter is the number of references whose share has not been given up,
plus one for each call that has counted and not yet stored. It is inductive whatever the
client does, and gives `CountIsExact` and, in `TypeCorrect`, a counter that is never negative.

`Blocking`: while the render thread takes a reference the GUI thread is blocked; while it only gives
one up, in a job, the GUI thread may be anywhere. So only one thread at a time adds references.

`BufferInv` (`~raced => InOrder`) says how far the other thread may be when one acts on the last
reference. `LastIsAlone`: while a call that found the counter at zero may still look at the
buffer, nobody counts it again, releases it or deletes it; a reference is only
taken from one that is counted (`RefIsSafe`), so the counter cannot rise from zero but by the client's
attach, which it does only when the buffer is its own; that is why the render thread's references
are of committed buffers (`ProvidersAreLate`). `FlagsAgree` ties `m_committed` to the client's
ledger but for the moment between the release and the reset; `DeletedOnce` and
`SomebodyWill` divide release and deletion among the threads. It gives `RestingBufferIsCounted`,
`DeletedIsNotUsed` and, for the step that sends, the action property `ReleaseIsTheLast`.

### OutputFrames

`TableInv` (`TablesFollowViews`): the lists of views agree with the views, as in `ListsInv`,
and surfaces with content exist; without the first, a surface that gets a
new primary view could leave a view behind in a table. `FrameInv` (`MarksFollowRequests`): a
callback is of one surface, requested or committed but not both, and only what is committed
is marked; otherwise a commit could append a marked callback behind one that is not.

### SeatFocus

`KeyInv` (`KeysGoWhereTold`) adds to `KeyboardTold` that a keyboard that was taken away holds
nothing and that no `wl_keyboard` is bound twice: an object that unbinds would otherwise stay
bound. `PtrInv` (`PointersAgree`) adds the range of the button count. The
lemmas say what the handlers tell each object, one object at a time.

### WindowFrames

`Inv` adds `OneAnswer` (one answer and one configure event are on the way at most,
and no answer while it is still owed) and `TimerWaits` (the frame timer runs only
while a callback is awaited). The first gives the bound on the queue and keeps an old
answer from being taken for that of a newer callback; the second is why a time-out cannot
hide a window that waits for nothing. `NothingIsAwaitedInVain` and `HiddenWindowsAreUnmapped`
are conjuncts of it.

### ShmBackingStore

`Inv` adds four facts to the properties: what the compositor has and what it gives
back are busy and disjoint; the back buffer is in the pool, and free while it is painted;
before the first configure event nothing is committed, so no paint stalls; and between
paints the back buffer has all that was drawn. `KeepsContent` speaks of a paint alone,
and rests on the last. `PaintIsPrivate`, `DeletedAreUnused` and `ContentIsCarried` follow.

### EglFrames

`EglInv` adds to `WaitIsAnswered` and the types that a callback that is on its way was asked
for (so its handler is posted with the number of a frame), and that a swap under way is within
the bound. In the model a callback is moved to the frame queue by the swap that waits on that queue,
and goes back to the main queue with the swap's new request; `WaitIsAnswered` states that
pairing itself (`queue = "frame" => render # "idle"`), so it needs no more to be inductive. The
lemmas about posted calls (`CallTaken`, `CallsPosted`) say that a handler that was posted is
not lost behind timers. The theorems are `EglTypeCorrect` and `WaitsAreAnswered`.

### TextInput

`TextInv` has a part for each thing the two sides must agree on when nothing is under way,
each of which says what is under way that will bring them together:

* `Resets`, over both queues: numbered requests are in order and newer than the last reset
  handled; a confirmation comes after the commits sent before it and before the later
  ones; and while the client awaits a confirmation, the reset or its confirmation is under way.
  `NoneIsLate` is a part of it, and not inductive alone: when a confirmation arrives, that the
  commits behind it are new follows from the order of the queue.
* `FocusFollows` and `Activation`: the last event about the focus has the compositor's
  focus, and without one the client has it already; the list of active windows is that of
  `mLastKeyboardFocus`; a sync that is asked for is answered.
* `ControlsFollow`: the last enable or disable request is for the current window, and each
  enable finds nothing enabled (`Alternate`). The code's `disable` clears the surface enabled
  last, whichever is named, and `enable` overwrites it: without the alternation a
  control would stay enabled.
* `TextFollows`: if the focus window has the text input and its text was reported
  (`~unreported`), the last state under way is the
  editor's text; without one the compositor has it already, unless a commit is under way that the
  editor will take. A commit that is discarded is no exception: its reset is confirmed behind
  it, or a state is under way.
* `TextTypes` and `Budget`: counts of edits and commits stay within the bounds because each
  commit is paid for when it is sent. A model's bound, which only the types need.

The theorems are `TextTypeCorrect`, `NoCommitIsLate` and `SidesAgree`.

### XdgConfigure

`TypeCorrect` holds with a render thread as well. It needs the number of requests on the
way: each brings one event, so what is sent and what is asked for stay within `Serials`;
and that a large window has a size to go back to.

`Agreement` is an invariant over both queues: the acknowledged configure and the pending ones
have consecutive serials; the place of an event in the queue follows from its serial
and its role, so every configure after the client's is on the way, in order; the client works
on configures the compositor still knows, and waits for its newest only;
acknowledgements on the way are of pending configures, in order, with sizes that fit; and what
is applied is acknowledged or its acknowledgement is on the way. Each part is what another's
step needs: an acknowledgement drops configures up to its own, which the client must be
done with, and that is a matter of the order of both queues. `BothEndsAgree` is what is left of
it when the queues are empty. `SizesAreRemembered` is a part of it, because a size that
fits the states decides which of the two is recorded. `SerialStaysPending` is the assertion of
`finding_serial_lost`, without the render thread.

### Lists

`Without` is `QList::removeAll` written without recursion (the k-th element left is the one
with k - 1 left before it), so that it can be reasoned about. `ListsProofs` shows that it
keeps what is not removed, in its order and without repeating it, by a bijection
between places; and it has the facts about appending, prepending and removing one that
the other proofs cite. For queues it has what sending and receiving do to the last
element of a kind (`KindsSent`, `KindsReceived`) and to how many there are (`CountSent`,
`CountReceived`).

### Only model-checked

* Liveness: `SupersededReturned`, `LatestIsShown`, `Answered`, `StallEnds`, `UpdateDelivered`,
  `TimeoutEnds` and `ConfigureAcked`. Fairness and `ENABLED` are out of the proof system's
  reach. So is induction over data, that is, what a recursive definition computes for
  every input; the modules have no recursive operators.

## 6. What is not modelled

The components with status `not_modelled` in `PROJECT.json`, with the reasons given
there. Of those, the data devices have the most state. Most of their handlers
follow pointers to resources of another client (`qwldatadevice.cpp:120`, `143`, `147-157`),
which are null without a data device and dangle when it is destroyed: a model has to
exclude these before it can claim anything. The rest is drawing, file formats, drivers,
generated code, or requests passed on.

In the modelled components: damage and regions, scale, orientation and sizes of
surfaces, touch, wheel and cursors, drags, decorations; two windows whose render
threads synchronize at the same time; destruction of outputs, windows and backing stores;
sub-surfaces; popups and pings; the older versions of xdg-shell, whose handlers are
the same but for names; positions of shell items; preedit text and the input panel.

## 7. Plan

Done: the nine component modules of section 2, each checked and with proofs of all its
safety properties.

Open, in the order in which they would be worth most:

1. The data devices, with the hypotheses on destroyed objects that section 6 names.
2. `EglFrames` with a window that is hidden, shown and configured while its render thread
   swaps: the union with `WindowFrames`. Most of section 4's observations about client windows
   would then be properties.
3. The destruction of outputs and of text input resources, which the hazards without a property
   are about.
4. An abstract specification of frame pacing (one frame, one answer, then the next), that both
   `WindowFrames` and `EglFrames` implement.
