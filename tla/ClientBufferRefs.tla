-------------------------- MODULE ClientBufferRefs --------------------------
(***************************************************************************)
(* One ClientBuffer and the QWaylandBufferRef objects that refer to it,    *)
(* counter by counter and step by step, with the two threads that handle   *)
(* references: the GUI thread, and the render thread, which assigns to a   *)
(* texture provider while the GUI thread is blocked and deletes a provider *)
(* in a render job while the GUI thread runs.                              *)
(*                                                                         *)
(* m_refCount is atomic; m_buffer, m_committed and m_destroyed are not, and*)
(* nothing orders what the two threads do with them: every order of their  *)
(* accesses is possible.  The client attaches the buffer when it is its    *)
(* own, not while it waits for its release.                                *)
(***************************************************************************)
EXTENDS Naturals, FiniteSets

CONSTANTS
  GuiRefs,     \* the references of surfaces and views
  RenderRefs   \* the m_ref of texture providers

ASSUME RefsAssumption ==
  /\ IsFiniteSet(GuiRefs) /\ IsFiniteSet(RenderRefs)
  /\ GuiRefs \cap RenderRefs = {} /\ GuiRefs # {}

Refs == GuiRefs \cup RenderRefs
Threads == {"gui", "render"}

VARIABLES
  m_buffer,      \* the pointer to the wl_resource is not null
  m_committed,
  m_destroyed,
  m_refCount,
  deleted,       \* the ClientBuffer is deleted
  refers,        \* of each QWaylandBufferRef: it points to the buffer
  lent,          \* the client waits for wl_buffer.release
  pc,            \* of each thread: the next step of the call it is in
  target,        \*   the reference the call assigns to
  value,         \*   and what it assigns: the buffer, or another one
  blocked,       \* the GUI thread waits for the render thread
  asserted,      \* Q_ASSERT(m_buffer) of sendRelease failed
  dangling,      \* a thread used the buffer after it was deleted
  raced          \* ghost: while a render job that gave up the last reference
                 \* was not done with the buffer, the client destroyed it, or
                 \* attached it again between its release and the reset of
                 \* m_committed

bufferVars == <<m_buffer, m_committed, m_destroyed, deleted>>
callVars == <<target, value>>
vars == <<bufferVars, m_refCount, refers, lent, pc, callVars, blocked, asserted, dangling, raced>>

Init ==
  /\ m_buffer = TRUE /\ m_committed = FALSE /\ m_destroyed = FALSE /\ deleted = FALSE
  /\ m_refCount = 0
  /\ refers = [r \in Refs |-> FALSE]
  /\ lent = FALSE
  /\ pc = [t \in Threads |-> "idle"]
  /\ target = [t \in Threads |-> CHOOSE r \in Refs : TRUE] /\ value = [t \in Threads |-> FALSE]
  /\ blocked = FALSE /\ asserted = FALSE /\ dangling = FALSE /\ raced = FALSE

GuiRuns == pc["gui"] = "idle" /\ ~blocked

-----------------------------------------------------------------------------
(* QWaylandBufferRef::operator= and what it calls *)

Enter(t, r, new) ==
  /\ pc[t] = "idle"
  /\ pc' = [pc EXCEPT ![t] = IF new THEN "ref" ELSE "deref"]
  /\ target' = [target EXCEPT ![t] = r]
  /\ value' = [value EXCEPT ![t] = new]

\* surface_attach with the buffer, which is the client's
Attach(r) ==
  /\ GuiRuns
  /\ r \in GuiRefs
  /\ m_buffer /\ ~lent
  /\ Enter("gui", r, TRUE)
  /\ raced' = (raced \/ pc["render"] = "clear")
  /\ UNCHANGED <<bufferVars, m_refCount, refers, lent, blocked, asserted, dangling>>

\* A surface or a view takes the buffer from a reference that has it, or lets
\* it go.
GuiAssign(r, new) ==
  /\ GuiRuns
  /\ r \in GuiRefs
  /\ new => \E q \in GuiRefs : refers[q]
  /\ Enter("gui", r, new)
  /\ UNCHANGED <<bufferVars, m_refCount, refers, lent, blocked, asserted, dangling, raced>>

\* updatePaintNode: the provider copies the current buffer, which was committed,
\* or gets another one, with the GUI thread blocked.
ProviderAssign(r, new) ==
  /\ GuiRuns
  /\ r \in RenderRefs
  /\ new => (lent \/ m_destroyed) /\ \E q \in GuiRefs : refers[q]
  /\ Enter("render", r, new)
  /\ blocked' = TRUE
  /\ UNCHANGED <<bufferVars, m_refCount, refers, lent, asserted, dangling, raced>>

\* A render job deletes the provider, while the GUI thread runs or is in a call
\* of its own: ~QWaylandBufferRef
ProviderDelete(r) ==
  /\ ~blocked
  /\ r \in RenderRefs
  /\ refers[r]
  /\ Enter("render", r, FALSE)
  /\ UNCHANGED <<bufferVars, m_refCount, refers, lent, blocked, asserted, dangling, raced>>

Uses == dangling' = (dangling \/ deleted)

\* Mutant: the new buffer is not counted.
RefSkipped(t) ==
  /\ pc[t] = "ref"
  /\ pc' = [pc EXCEPT ![t] = "deref"]
  /\ Uses
  /\ UNCHANGED <<bufferVars, m_refCount, refers, lent, callVars, blocked, asserted, raced>>

\* if (ref.d->buffer) ref.d->buffer->ref()
Ref(t) ==
  /\ pc[t] = "ref"
  /\ m_refCount' = m_refCount + 1
  /\ pc' = [pc EXCEPT ![t] = "deref"]
  /\ Uses
  /\ UNCHANGED <<bufferVars, refers, lent, callVars, blocked, asserted, raced>>

\* Mutant: an unused buffer is released without looking at m_committed.
DerefSendsAlways(t) ==
  /\ pc[t] = "deref"
  /\ IF refers[target[t]]
     THEN /\ m_refCount' = m_refCount - 1
          /\ pc' = [pc EXCEPT ![t] = IF m_refCount = 1 THEN "send" ELSE "store"]
          /\ Uses
          /\ raced' = (raced \/ (m_refCount = 1 /\ pc["gui"] = "destroyed"))
     ELSE /\ pc' = [pc EXCEPT ![t] = "store"]
          /\ UNCHANGED <<m_refCount, dangling, raced>>
  /\ UNCHANGED <<bufferVars, refers, lent, callVars, blocked, asserted>>

\* m_refCount.deref(), when the reference had the buffer before
Deref(t) ==
  /\ pc[t] = "deref"
  /\ IF refers[target[t]]
     THEN /\ m_refCount' = m_refCount - 1
          /\ pc' = [pc EXCEPT ![t] = IF m_refCount = 1 THEN "check" ELSE "store"]
          /\ Uses
          /\ raced' = (raced \/ (m_refCount = 1 /\ pc["gui"] = "destroyed"))
     ELSE /\ pc' = [pc EXCEPT ![t] = "store"]
          /\ UNCHANGED <<m_refCount, dangling, raced>>
  /\ UNCHANGED <<bufferVars, refers, lent, callVars, blocked, asserted>>

\* if (isCommitted() && m_buffer && !m_destroyed)
Check(t) ==
  /\ pc[t] = "check"
  /\ pc' = [pc EXCEPT ![t] = IF m_committed /\ m_buffer /\ ~m_destroyed THEN "send" ELSE "free"]
  /\ Uses
  /\ UNCHANGED <<bufferVars, m_refCount, refers, lent, callVars, blocked, asserted, raced>>

\* sendRelease: wl_buffer_send_release(m_buffer),
Send(t) ==
  /\ pc[t] = "send"
  /\ asserted' = (asserted \/ ~m_buffer)
  /\ lent' = FALSE
  /\ pc' = [pc EXCEPT ![t] = "clear"]
  /\ Uses
  /\ UNCHANGED <<bufferVars, m_refCount, refers, callVars, blocked, raced>>

\* and m_committed = false
Clear(t) ==
  /\ pc[t] = "clear"
  /\ m_committed' = FALSE
  /\ pc' = [pc EXCEPT ![t] = "free"]
  /\ Uses
  /\ UNCHANGED <<m_buffer, m_destroyed, deleted, m_refCount, refers, lent, callVars, blocked,
                 asserted, raced>>

\* Mutant: only setDestroyed deletes.
FreeNever(t) ==
  /\ pc[t] = "free"
  /\ pc' = [pc EXCEPT ![t] = "store"]
  /\ Uses
  /\ UNCHANGED <<bufferVars, m_refCount, refers, lent, callVars, blocked, asserted, raced>>

\* if (m_destroyed) delete this
Free(t) ==
  /\ pc[t] = "free"
  /\ deleted' = (deleted \/ m_destroyed)
  /\ pc' = [pc EXCEPT ![t] = "store"]
  /\ Uses
  /\ UNCHANGED <<m_buffer, m_committed, m_destroyed, m_refCount, refers, lent, callVars, blocked,
                 asserted, raced>>

\* d->buffer = ref.d->buffer, and the call returns
Store(t) ==
  /\ pc[t] = "store"
  /\ refers' = [refers EXCEPT ![target[t]] = value[t]]
  /\ pc' = [pc EXCEPT ![t] = "idle"]
  /\ blocked' = (blocked /\ t = "gui")
  /\ UNCHANGED <<bufferVars, m_refCount, lent, callVars, asserted, dangling, raced>>

-----------------------------------------------------------------------------
(* The other calls of the GUI thread *)

\* A call that found the count at zero is here until it is done with the buffer.
Acting == {"check", "send", "clear", "free"}

\* surface_commit of a surface that has the buffer
SetCommitted ==
  /\ GuiRuns
  /\ m_buffer
  /\ \E r \in GuiRefs : refers[r]
  /\ m_committed' = TRUE
  /\ lent' = TRUE
  /\ UNCHANGED <<m_buffer, m_destroyed, deleted, m_refCount, refers, pc, callVars, blocked,
                 asserted, dangling, raced>>

\* The client destroys its wl_buffer: setDestroyed, up to the count
SetDestroyed ==
  /\ GuiRuns
  /\ m_buffer
  /\ m_destroyed' = TRUE
  /\ m_committed' = FALSE
  /\ m_buffer' = FALSE
  /\ lent' = FALSE
  /\ pc' = [pc EXCEPT !["gui"] = "destroyed"]
  /\ raced' = (raced \/ pc["render"] \in Acting)
  /\ UNCHANGED <<deleted, m_refCount, refers, callVars, blocked, asserted, dangling>>

\* Mutant: the count is not looked at.
DeleteAnyway ==
  /\ pc["gui"] = "destroyed"
  /\ deleted' = TRUE
  /\ dangling' = (dangling \/ deleted)
  /\ pc' = [pc EXCEPT !["gui"] = "idle"]
  /\ UNCHANGED <<m_buffer, m_committed, m_destroyed, m_refCount, refers, lent, callVars, blocked,
                 asserted, raced>>

\* if (!m_refCount) delete this
DeleteUnused ==
  /\ pc["gui"] = "destroyed"
  /\ deleted' = (deleted \/ m_refCount = 0)
  /\ dangling' = (dangling \/ deleted)
  /\ pc' = [pc EXCEPT !["gui"] = "idle"]
  /\ UNCHANGED <<m_buffer, m_committed, m_destroyed, m_refCount, refers, lent, callVars, blocked,
                 asserted, raced>>

\* The client makes a new buffer, after the old object is gone and done with.
CreateBuffer ==
  /\ deleted
  /\ \A t \in Threads : pc[t] = "idle"
  /\ \A r \in Refs : ~refers[r]
  /\ m_buffer' = TRUE /\ m_committed' = FALSE /\ m_destroyed' = FALSE /\ deleted' = FALSE
  /\ UNCHANGED <<m_refCount, refers, lent, pc, callVars, blocked, asserted, dangling, raced>>

Call(t) == Ref(t) \/ Deref(t) \/ Check(t) \/ Send(t) \/ Clear(t) \/ Free(t) \/ Store(t)

Next ==
  \/ \E r \in Refs, new \in BOOLEAN : GuiAssign(r, new) \/ ProviderAssign(r, new)
  \/ \E r \in Refs : Attach(r) \/ ProviderDelete(r)
  \/ \E t \in Threads : Call(t)
  \/ SetCommitted \/ SetDestroyed \/ DeleteUnused \/ CreateBuffer

Spec == Init /\ [][Next]_vars

-----------------------------------------------------------------------------
(* Properties *)

TypeOK ==
  /\ m_buffer \in BOOLEAN /\ m_committed \in BOOLEAN /\ m_destroyed \in BOOLEAN
  /\ deleted \in BOOLEAN /\ m_refCount \in Nat
  /\ refers \in [Refs -> BOOLEAN] /\ lent \in BOOLEAN
  /\ pc \in [Threads -> {"idle", "ref", "deref", "check", "send", "clear", "free", "store", "destroyed"}]
  /\ target \in [Threads -> Refs] /\ value \in [Threads -> BOOLEAN]
  /\ blocked \in BOOLEAN /\ asserted \in BOOLEAN /\ dangling \in BOOLEAN /\ raced \in BOOLEAN

Quiet == \A t \in Threads : pc[t] = "idle"
Used == \E r \in Refs : refers[r]

\* Between calls the buffer is what SurfaceBuffers takes it to be, in whatever
\* order the calls of the two threads took their steps: counted exactly; and,
\* unless the client raced a render job, lent to the compositor only while a
\* reference will release it, and deleted when it is destroyed and the last
\* reference is gone.
CountsReferences ==
  Quiet =>
    /\ m_refCount = Cardinality({r \in Refs : refers[r]})
    /\ ~raced => /\ lent <=> m_committed
                 /\ lent => Used
                 /\ deleted <=> m_destroyed /\ ~Used

\* A reference that its holder has not given up in a call under way
Refers(r) == refers[r] /\ \A t \in Threads : target[t] = r => pc[t] \notin Acting \cup {"store"}

\* wl_buffer.release goes out for a buffer the client waits for, and only when
\* no reference is left, though one thread may take references while the other
\* gives them up.
ReleasedByTheLast ==
  [][\A t \in Threads : Send(t) /\ ~raced =>
       lent /\ m_refCount = 0 /\ \A r \in Refs : ~Refers(r)]_vars

\* A deleted buffer is not looked at again, and not deleted twice, and the
\* assertion of sendRelease, Q_ASSERT(m_buffer), holds: it takes a client that
\* destroys or attaches its buffer while a render job acts on the last
\* reference.
NeverDangling == ~raced => ~dangling /\ ~asserted
=============================================================================
