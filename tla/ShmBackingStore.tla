--------------------------- MODULE ShmBackingStore ---------------------------
(***************************************************************************)
(* The shared memory buffers of a raster window of a client: the pool the  *)
(* backing store paints into (QWaylandShmBackingStore), and the window's   *)
(* safeCommit, handleExpose and commit, which hand them to the compositor. *)
(*                                                                         *)
(* One thread runs all of it.  A paint that finds no buffer stalls, and    *)
(* dispatches Wayland events until it has one; an update request that is   *)
(* delivered meanwhile paints inside the paint.  When the window is        *)
(* exposed, and when an update request comes, is WindowFrames' subject:    *)
(* here they may change at any time its thread looks at them.  The         *)
(* compositor is external, and may release any buffer it was given.        *)
(***************************************************************************)
EXTENDS Lists, SequencesExt

CONSTANTS
  Buffers,      \* identifiers of QWaylandShmBuffers; a deleted one's is reused
  Sizes,        \* sizes of the window, with different numbers of bytes
  Null,
  MAX_BUFFERS,  \* 5 in the code
  MaxNested     \* bound: paints inside a stalled paint

ASSUME PoolAssumption ==
  /\ Null \notin Buffers \cup Sizes
  /\ MAX_BUFFERS \in Nat \ {0} /\ MAX_BUFFERS <= Cardinality(Buffers)
  /\ MaxNested \in Nat

VARIABLES
  mRequestedSize,
  configured,        \* the first configure event came
  exposed,           \* QWaylandWindow::isExposed
  mQueuedBuffer,     \* of the window
  mBuffers,          \* the last used one first
  size,              \* of each buffer
  mBusy, mCommitted, \* the buffers with these flags
  mBackBuffer,
  painting,          \* between beginPaint and the flush
  stalls,            \* sizes of the paints that wait for a buffer, the outermost first
  drawn,             \* ghost: the size of the last finished paint,
  complete,          \* and the buffers that have all that was drawn in it
  shown,             \* the compositor: what the surface shows,
  held,              \* the buffers it was given and has not released,
  releases           \* those whose release event is on its way

poolVars   == <<mBuffers, size, mBackBuffer>>
flagVars   == <<mBusy, mCommitted>>
ghostVars  == <<drawn, complete>>
serverVars == <<shown, held, releases>>
vars == <<mRequestedSize, configured, exposed, mQueuedBuffer, poolVars, flagVars, painting,
          stalls, ghostVars, serverVars>>

Init ==
  /\ mRequestedSize \in Sizes
  /\ configured = FALSE /\ exposed = FALSE
  /\ mQueuedBuffer = Null
  /\ mBuffers = <<>> /\ size = [b \in Buffers |-> Null] /\ mBackBuffer = Null
  /\ mBusy = {} /\ mCommitted = {}
  /\ painting = FALSE /\ stalls = <<>>
  /\ drawn = Null /\ complete = {}
  /\ shown = Null /\ held = {} /\ releases = {}

\* The event loop or the application's code runs: no paint is under way.
InLoop == stalls = <<>> /\ ~painting

-----------------------------------------------------------------------------
(* The window's side *)

\* QWaylandWindow::commit and attach, of a buffer that is not committed yet
commit(b) ==
  IF b \in mCommitted
  THEN UNCHANGED <<flagVars, shown, held>>
  ELSE /\ mBusy' = mBusy \cup {b}
       /\ mCommitted' = mCommitted \cup {b}
       /\ shown' = b
       /\ held' = held \cup {b}

safeCommit(b) ==
  IF exposed
  THEN commit(b) /\ UNCHANGED mQueuedBuffer
  ELSE mQueuedBuffer' = b /\ UNCHANGED <<flagVars, shown, held>>

\* The first configure event: handleExpose commits what is queued, even if the
\* window has been hidden since.
handleExpose ==
  /\ ~painting
  /\ ~configured
  /\ configured' = TRUE
  /\ exposed' \in BOOLEAN
  /\ IF mQueuedBuffer = Null THEN UNCHANGED <<flagVars, shown, held>> ELSE commit(mQueuedBuffer)
  /\ mQueuedBuffer' = Null
  /\ UNCHANGED <<mRequestedSize, poolVars, painting, stalls, ghostVars, releases>>

\* isExposed changes: setVisible, a frame callback that is late, and one that
\* comes after all.  A hidden window attaches the null buffer.
ExposureChanges ==
  /\ configured
  /\ ~painting
  /\ \/ exposed' = ~exposed /\ UNCHANGED shown
     \/ InLoop /\ exposed' = FALSE /\ shown' = Null
  /\ UNCHANGED <<mRequestedSize, configured, mQueuedBuffer, poolVars, flagVars, painting, stalls,
                 ghostVars, held, releases>>

-----------------------------------------------------------------------------
(* The pool *)

\* The positions of the free buffers of this size
Fitting(sz) == {i \in DOMAIN mBuffers : mBuffers[i] \notin mBusy /\ size[mBuffers[i]] = sz}

DeletedNever(sz) == {}   \* mutant: buffers of another size are kept

\* Mutant: those the compositor has are deleted as well.
DeletedAll(sz) ==
  {mBuffers[i] : i \in {j \in DOMAIN mBuffers : \A k \in Fitting(sz) : j < k}}

\* getBuffer deletes the free buffers it comes across before one that fits.
Deleted(sz) ==
  {mBuffers[i] : i \in {j \in DOMAIN mBuffers :
     mBuffers[j] \notin mBusy /\ \A k \in Fitting(sz) : j < k}}
Kept(sz) == Without(mBuffers, Deleted(sz))

\* Mutant: busy() is not asked.
getBufferBusy(sz, b) ==
  \/ b \in Range(mBuffers) /\ size[b] = sz
  \/ Fitting(sz) = {} /\ Len(Kept(sz)) < MAX_BUFFERS /\ b \notin Range(Kept(sz))

\* Mutant: off by one.
getBufferOneMore(sz, b) ==
  \/ \E i \in Fitting(sz) : b = mBuffers[i] /\ \A k \in Fitting(sz) : i <= k
  \/ Fitting(sz) = {} /\ Len(Kept(sz)) <= MAX_BUFFERS /\ b \notin Range(Kept(sz))

\* getBuffer(sz) returns b: the first that fits, or a new one.
getBuffer(sz, b) ==
  \/ \E i \in Fitting(sz) : b = mBuffers[i] /\ \A k \in Fitting(sz) : i <= k
  \/ Fitting(sz) = {} /\ Len(Kept(sz)) < MAX_BUFFERS /\ b \notin Range(Kept(sz))

CanGetBuffer(sz) == \E b \in Buffers : getBuffer(sz, b)

\* Mutant: the memcpy is left out.
CarriesOverNothing(sz, b) == IF b = mBackBuffer THEN complete \cap {b} ELSE {}

\* The back buffer, unless it was deleted, is copied into one of the same size.
CarriesOver(sz, b) ==
  IF b \in Range(Kept(sz)) /\ b = mBackBuffer THEN complete \cap {b}
  ELSE IF mBackBuffer \in Range(Kept(sz)) \cap complete /\ size[mBackBuffer] = sz THEN {b}
  ELSE {}

\* beginPaint and resize, with `waiting' the paints that are stalled: it gets a
\* buffer, which goes to the front, or stalls as well.
beginPaint(sz, waiting) ==
  \/ \E b \in Buffers :
       /\ getBuffer(sz, b)
       /\ mBuffers' = <<b>> \o Without(Kept(sz), {b})
       /\ size' = [size EXCEPT ![b] = sz]
       /\ complete' = CarriesOver(sz, b)
       /\ mBackBuffer' = b
       /\ painting' = TRUE
       /\ stalls' = waiting
  \/ /\ ~CanGetBuffer(sz)
     /\ stalls' = Append(waiting, sz)
     /\ UNCHANGED <<poolVars, painting, complete>>

\* QWaylandShmBackingStore::resize(size, region), by the application
resize(sz) ==
  /\ InLoop
  /\ mRequestedSize # sz
  /\ mRequestedSize' = sz
  /\ UNCHANGED <<configured, exposed, mQueuedBuffer, poolVars, flagVars, painting, stalls,
                 ghostVars, serverVars>>

\* The application paints, in its own time or asked to.
Paint ==
  /\ InLoop
  /\ beginPaint(mRequestedSize, <<>>)
  /\ UNCHANGED <<mRequestedSize, configured, exposed, mQueuedBuffer, flagVars, drawn, serverVars>>

\* blockingReadEvents delivered an update request, and the application paints.
PaintNested ==
  /\ ~painting
  /\ Len(stalls) \in 1..MaxNested
  /\ beginPaint(mRequestedSize, stalls)
  /\ UNCHANGED <<mRequestedSize, configured, exposed, mQueuedBuffer, flagVars, drawn, serverVars>>

\* blockingReadEvents returned, and getBuffer succeeds now.
RetryPaint ==
  /\ ~painting
  /\ stalls # <<>>
  /\ CanGetBuffer(Last(stalls))
  /\ beginPaint(Last(stalls), Front(stalls))
  /\ UNCHANGED <<mRequestedSize, configured, exposed, mQueuedBuffer, flagVars, drawn, serverVars>>

\* endPaint, which lets the window apply a configure event that waits and so
\* may resize it, and flush
EndPaint ==
  /\ painting
  /\ painting' = FALSE
  /\ mRequestedSize' \in IF configured THEN Sizes ELSE {mRequestedSize}
  /\ drawn' = size[mBackBuffer]
  /\ complete' = {mBackBuffer}
  /\ safeCommit(mBackBuffer)
  /\ UNCHANGED <<configured, exposed, poolVars, stalls, releases>>

\* The application flushes what it painted before.
FlushAgain ==
  /\ InLoop
  /\ mBackBuffer # Null
  /\ safeCommit(mBackBuffer)
  /\ UNCHANGED <<mRequestedSize, configured, exposed, poolVars, painting, stalls, ghostVars, releases>>

\* QWaylandBuffer::release, from the event loop or a stalled paint
release(b) ==
  /\ ~painting
  /\ b \in releases
  /\ releases' = releases \ {b}
  /\ mBusy' = mBusy \ {b}
  /\ mCommitted' = mCommitted \ {b}
  /\ UNCHANGED <<mRequestedSize, configured, exposed, mQueuedBuffer, poolVars, painting, stalls,
                 ghostVars, shown, held>>

SendRelease(b) ==
  /\ b \in held
  /\ held' = held \ {b}
  /\ releases' = releases \cup {b}
  /\ UNCHANGED <<mRequestedSize, configured, exposed, mQueuedBuffer, poolVars, flagVars, painting,
                 stalls, ghostVars, shown>>

-----------------------------------------------------------------------------
Next ==
  \/ handleExpose \/ ExposureChanges
  \/ \E sz \in Sizes : resize(sz)
  \/ Paint \/ PaintNested \/ RetryPaint \/ EndPaint \/ FlushAgain
  \/ \E b \in Buffers : release(b) \/ SendRelease(b)

Spec == Init /\ [][Next]_vars

\* The thread goes on with a paint, and dispatches what arrives; the compositor
\* releases the buffers it does not show any more.
FairSpec ==
  /\ Spec
  /\ SF_vars(RetryPaint) /\ WF_vars(EndPaint)
  /\ \A b \in Buffers : SF_vars(release(b)) /\ WF_vars(b # shown /\ SendRelease(b))

-----------------------------------------------------------------------------
(* Properties *)

\* Type correctness: among it that the pool holds no buffer twice, and never more
\* than MAX_BUFFERS.
TypeOK ==
  /\ mRequestedSize \in Sizes
  /\ {configured, exposed, painting} \subseteq BOOLEAN
  /\ {mQueuedBuffer, mBackBuffer, shown} \subseteq Buffers \cup {Null}
  /\ mBuffers \in Seq(Buffers) /\ Len(mBuffers) <= MAX_BUFFERS /\ IsInjective(mBuffers)
  /\ size \in [Buffers -> Sizes \cup {Null}]
  /\ mCommitted = mBusy /\ mBusy \subseteq Range(mBuffers)
  /\ stalls \in Seq(Sizes) /\ Len(stalls) <= MaxNested + 1
  /\ drawn \in Sizes \cup {Null} /\ complete \subseteq Buffers
  /\ held \subseteq Buffers /\ releases \subseteq Buffers

\* The client paints only into buffers the compositor has given back, however
\* releases, repeated flushes and paints inside paints follow each other.
PaintsOwnBuffer == painting => mBackBuffer \notin held \cup releases

\* Resizes delete no buffer that will be used: what the compositor has, or is
\* giving back, still exists, and so does the buffer that the first configure
\* event will commit, though it is free while it is queued.
UsedAreKept ==
  /\ held \cup releases \subseteq mBusy \cap Range(mBuffers)
  /\ ~configured /\ ~painting /\ mQueuedBuffer # Null => mQueuedBuffer \in Range(mBuffers)

\* "QPainter is happy to find the stuff it had drawn before" (resize): a paint of
\* the size of the last one starts with all that was drawn then.
KeepsContent == painting /\ size[mBackBuffer] = drawn => mBackBuffer \in complete

\* A paint that stalls gets a buffer at last: the pool does not fill up with
\* buffers of another size, or with buffers nobody releases.  An application that
\* asks for the next update whenever it paints may take each buffer inside the
\* paint that stalls.
StallEnds == <>[][~PaintNested]_vars => (stalls # <<>> ~> stalls = <<>>)
=============================================================================
