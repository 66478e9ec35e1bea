------------------------ MODULE SurfaceBuffersProofs ------------------------
(***************************************************************************)
(* Theorems about SurfaceBuffers, for every set of surfaces, views, items, *)
(* windows and buffers.                                                    *)
(***************************************************************************)
EXTENDS SurfaceBuffers, ListsProofs

-----------------------------------------------------------------------------
(* Type correctness *)

LEMMA TypeInit == Init => TypeOK
BY NullAssumption, EmptySeq DEF Init, TypeOK, MaybeBuffer, ClientTypes, SurfaceTypes, LinkTypes,
   QueueTypes, SwitchTypes, ItemTypes, SyncTypes

\* The buffers' flags stay flags whatever is dropped.
LEMMA ReleaseTypes ==
  ASSUME TypeOK, ReleaseDropped
  PROVE  ClientTypes'
BY DEF TypeOK, ClientTypes, ReleaseDropped, Released, Dropped

\* A view that is pointed at a surface, or at none.
LEMMA PointTypes ==
  ASSUME TypeOK, NEW v \in Views, NEW s \in Surfaces \cup {Null}, NEW list,
         s \in Surfaces => list \in Seq(Views), Point(v, s, list)
  PROVE  /\ LinkTypes'
         /\ forceAdvanceSucceed' = forceAdvanceSucceed => QueueTypes'
<1>1. \A t \in Surfaces : Without(views[t], {v}) \in Seq(Views)
  BY WithoutIsSeq DEF TypeOK, LinkTypes
<1>2. views' \in [Surfaces -> Seq(Views)]
  BY <1>1 DEF Point, TypeOK, LinkTypes
<1>3. surface' \in [Views -> Surfaces \cup {Null}]
  BY DEF Point, TypeOK, LinkTypes
<1>4. s # Null => s \in Surfaces
  OBVIOUS
<1>5. nextBuffer' \in [Views -> MaybeBuffer]
  BY <1>4 DEF Point, TypeOK, QueueTypes, SurfaceTypes, MaybeBuffer
<1>6. QED
  BY <1>2, <1>3, <1>5 DEF LinkTypes, QueueTypes, Point, TypeOK, MaybeBuffer

\* A view that advances.
LEMMA AdvanceTypes ==
  ASSUME TypeOK, NEW v \in Views, Advance(v)
  PROVE  QueueTypes'
BY DEF TypeOK, QueueTypes, Advance, MaybeBuffer

\* Items that call update().
LEMMA UpdateTypes ==
  ASSUME ItemTypes, NEW items, Update(items)
  PROVE  dirty' \in [Views -> BOOLEAN] /\ missed' \subseteq Items
BY DEF ItemTypes, Update

LEMMA TypeClientStep ==
  ASSUME TypeOK, ClientNext
  PROVE  TypeOK'
<1> USE DEF TypeOK
<1>1. ASSUME NEW b \in Buffers, CreateBuffer(b)
      PROVE  TypeOK'
  BY <1>1 DEF CreateBuffer, ClientTypes, SurfaceTypes, LinkTypes, QueueTypes, SwitchTypes,
     ItemTypes, SyncTypes, surfaceVars, linkVars, queueVars, switchVars, itemVars, syncVars
<1>2. ASSUME NEW b \in Buffers, DestroyBuffer(b)
      PROVE  TypeOK'
  BY <1>2 DEF DestroyBuffer, ClientTypes, SurfaceTypes, LinkTypes, QueueTypes, SwitchTypes,
     ItemTypes, SyncTypes, surfaceVars, linkVars, queueVars, switchVars, itemVars, syncVars
<1>3. ASSUME NEW s \in Surfaces, CreateSurface(s)
      PROVE  TypeOK'
  BY <1>3 DEF CreateSurface, ClientTypes, SurfaceTypes, LinkTypes, QueueTypes, SwitchTypes,
     ItemTypes, SyncTypes, clientVars, linkVars, queueVars, switchVars, itemVars, syncVars
<1>4. ASSUME NEW s \in Surfaces, NEW b \in MaybeBuffer, surface_attach(s, b)
      PROVE  TypeOK'
  <2>1. ClientTypes'
    BY <1>4, ReleaseTypes DEF surface_attach
  <2>2. SurfaceTypes'
    BY <1>4 DEF surface_attach, SurfaceTypes
  <2>3. QED
    BY <1>4, <2>1, <2>2 DEF surface_attach, LinkTypes, QueueTypes, SwitchTypes, ItemTypes,
       SyncTypes, linkVars, queueVars, switchVars, itemVars, syncVars
<1>5. ASSUME NEW s \in Surfaces, surface_commit(s)
      PROVE  TypeOK'
  <2>1. Content(s) \in MaybeBuffer
    BY DEF Content, SurfaceTypes
  <2>2. ClientTypes'
    BY <1>5, <2>1 DEF surface_commit, ClientTypes, MaybeBuffer
  <2>3. SurfaceTypes'
    BY <1>5, <2>1 DEF surface_commit, SurfaceTypes, MaybeBuffer
  <2>4. QueueTypes'
    BY <1>5, <2>1 DEF surface_commit, QueueTypes
  <2>5. dirty' \in [Views -> BOOLEAN] /\ missed' \subseteq Items
    BY <1>5, UpdateTypes DEF surface_commit
  <2>6. QED
    BY <1>5, <2>2, <2>3, <2>4, <2>5 DEF surface_commit, LinkTypes, SwitchTypes, ItemTypes,
       SyncTypes, linkVars, switchVars, syncVars
<1>6. ASSUME NEW s \in Surfaces, surface_destroy_resource(s)
      PROVE  TypeOK'
  <2>1. ClientTypes'
    BY <1>6, ReleaseTypes DEF surface_destroy_resource
  <2>2. SurfaceTypes'
    BY <1>6 DEF surface_destroy_resource, SurfaceTypes, MaybeBuffer
  <2>3. LinkTypes'
    BY <1>6, EmptySeq DEF surface_destroy_resource, LinkTypes
  <2>4. QueueTypes'
    BY <1>6 DEF surface_destroy_resource, QueueTypes, MaybeBuffer
  <2>5. dirty' \in [Views -> BOOLEAN] /\ missed' \subseteq Items
    BY <1>6, UpdateTypes DEF surface_destroy_resource
  <2>6. QED
    BY <1>6, <2>1, <2>2, <2>3, <2>4, <2>5 DEF surface_destroy_resource, SwitchTypes, ItemTypes,
       SyncTypes, switchVars, syncVars
<1>7. live \subseteq MaybeBuffer /\ Null \in MaybeBuffer
  BY DEF ClientTypes, MaybeBuffer
<1>8. QED
  BY <1>1, <1>2, <1>3, <1>4, <1>5, <1>6, <1>7 DEF ClientNext

LEMMA TypeCompositorStep ==
  ASSUME TypeOK, CompositorNext
  PROVE  TypeOK'
<1> USE DEF TypeOK
<1>1. ASSUME NEW v \in Views, NEW s \in Surfaces \cup {Null}, setSurface(v, s)
      PROVE  TypeOK'
  <2>1. s \in Surfaces => Append(views[s], v) \in Seq(Views)
    BY AppendProperties DEF LinkTypes
  <2>2. LinkTypes' /\ QueueTypes'
    BY <1>1, <2>1, PointTypes DEF setSurface
  <2>3. ClientTypes'
    BY <1>1, ReleaseTypes DEF setSurface
  <2>4. ItemTypes'
    BY <1>1, UpdateTypes DEF setSurface, ItemTypes
  <2>5. QED
    BY <1>1, <2>2, <2>3, <2>4 DEF setSurface, SurfaceTypes, SwitchTypes, SyncTypes, surfaceVars,
       switchVars, syncVars
<1>2. ASSUME NEW v \in Views, NEW s \in Surfaces, setPrimaryView(s, v)
      PROVE  TypeOK'
  <2>1. views[s] \in Seq(Views) /\ Without(views[s], {v}) \in Seq(Views) /\ <<v>> \in Seq(Views)
    BY WithoutIsSeq DEF LinkTypes
  <2>2. <<v>> \o views[s] \in Seq(Views) /\ <<v>> \o Without(views[s], {v}) \in Seq(Views)
    BY <2>1, ConcatProperties
  <2>3. LinkTypes' /\ QueueTypes'
    <3>1. CASE v \in ViewsOf(s)
      BY <1>2, <2>2, <3>1 DEF setPrimaryView, LinkTypes, QueueTypes, queueVars
    <3>2. CASE v \notin ViewsOf(s)
      BY <1>2, <2>2, <3>2, PointTypes DEF setPrimaryView
    <3>3. QED
      BY <3>1, <3>2
  <2>4. ClientTypes'
    BY <1>2, ReleaseTypes DEF setPrimaryView
  <2>5. missed' \subseteq Items
    BY <1>2 DEF setPrimaryView, ItemTypes
  <2>6. QED
    BY <1>2, <2>3, <2>4, <2>5 DEF setPrimaryView, SurfaceTypes, SwitchTypes, ItemTypes, SyncTypes,
       surfaceVars, switchVars, syncVars
<1>3. ASSUME NEW v \in Views,
             setBufferLocked(v) \/ setAllowDiscardFrontBuffer(v) \/ setPaintEnabled(v)
      PROVE  TypeOK'
  <2>1. ItemTypes'
    BY <1>3, UpdateTypes DEF setBufferLocked, setAllowDiscardFrontBuffer, setPaintEnabled,
       ItemTypes, itemVars
  <2>2. QED
    BY <1>3, <2>1 DEF setBufferLocked, setAllowDiscardFrontBuffer, setPaintEnabled, ClientTypes,
       SurfaceTypes, LinkTypes, QueueTypes, SwitchTypes, SyncTypes, clientVars, surfaceVars,
       linkVars, queueVars, syncVars
<1>4. ASSUME NEW v \in Views, NEW w \in Windows, EnterWindow(v, w)
      PROVE  TypeOK'
  <2>1. ItemTypes'
    BY <1>4, UpdateTypes DEF EnterWindow, ItemTypes
  <2>2. QED
    BY <1>4, <2>1 DEF EnterWindow, ClientTypes, SurfaceTypes, LinkTypes, QueueTypes, SwitchTypes,
       SyncTypes, clientVars, surfaceVars, linkVars, queueVars, switchVars, syncVars
<1>5. ASSUME NEW v \in Views, LeaveWindow(v)
      PROVE  TypeOK'
  <2>1. ClientTypes'
    BY <1>5, ReleaseTypes DEF LeaveWindow
  <2>2. QED
    BY <1>5, <2>1 DEF LeaveWindow, SurfaceTypes, LinkTypes, QueueTypes, SwitchTypes, ItemTypes,
       SyncTypes, surfaceVars, linkVars, switchVars, syncVars, MaybeBuffer
<1>6. ASSUME NEW v \in Views, DestroyView(v)
      PROVE  TypeOK'
  <2>1. ClientTypes'
    BY <1>6, ReleaseTypes DEF DestroyView
  <2>2. LinkTypes'
    BY <1>6, WithoutIsSeq DEF DestroyView, LinkTypes
  <2>3. QueueTypes' /\ SwitchTypes'
    BY <1>6 DEF DestroyView, QueueTypes, SwitchTypes, MaybeBuffer
  <2>4. ItemTypes'
    BY <1>6 DEF DestroyView, ItemTypes, MaybeBuffer
  <2>5. QED
    BY <1>6, <2>1, <2>2, <2>3, <2>4 DEF DestroyView, SurfaceTypes, SyncTypes, surfaceVars,
       syncVars
<1>7. surfaces \cup {Null} \subseteq Surfaces \cup {Null}
  BY DEF SurfaceTypes
<1>8. QED
  BY <1>1, <1>2, <1>3, <1>4, <1>5, <1>6, <1>7 DEF CompositorNext

LEMMA TypeRenderStep ==
  ASSUME TypeOK, RenderNext
  PROVE  TypeOK'
<1> USE DEF TypeOK
<1>1. Items \subseteq Views
  BY NullAssumption
<1>2. ASSUME NEW v \in Views, AdvanceBare(v)
      PROVE  TypeOK'
  <2>1. ClientTypes' /\ QueueTypes'
    BY <1>2, ReleaseTypes, AdvanceTypes DEF AdvanceBare
  <2>2. QED
    BY <1>2, <2>1 DEF AdvanceBare, SurfaceTypes, LinkTypes, SwitchTypes, ItemTypes, SyncTypes,
       surfaceVars, linkVars, switchVars, itemVars, syncVars
<1>3. ASSUME NEW v \in Views, toOpenGlTexture(v)
      PROVE  TypeOK'
  BY <1>3 DEF toOpenGlTexture, ClientTypes, SurfaceTypes, LinkTypes, QueueTypes, SwitchTypes,
     ItemTypes, SyncTypes, surfaceVars, linkVars, queueVars, switchVars, itemVars, syncVars
<1>4. ASSUME NEW w \in Windows, BeginSync(w)
      PROVE  TypeOK'
  BY <1>4 DEF BeginSync, ClientTypes, SurfaceTypes, LinkTypes, QueueTypes, SwitchTypes,
     ItemTypes, SyncTypes, clientVars, surfaceVars, linkVars, queueVars, switchVars, itemVars
<1>5. ASSUME NEW v \in Items, beforeSync(v)
      PROVE  TypeOK'
  <2>1. ClientTypes'
    BY <1>5, ReleaseTypes DEF beforeSync
  <2>2. QueueTypes'
    <3>1. CASE AdvanceSucceeds(v)
      BY <1>1, <1>5, <3>1, AdvanceTypes DEF beforeSync
    <3>2. CASE ~AdvanceSucceeds(v)
      BY <1>5, <3>2 DEF beforeSync, QueueTypes, queueVars
    <3>3. QED
      BY <3>1, <3>2
  <2>3. ItemTypes' /\ SyncTypes'
    <3>1. dirty' \in [Views -> BOOLEAN] /\ missed' \subseteq Items
      <4>1. CASE AdvanceSucceeds(v)
        BY <1>5, <4>1, UpdateTypes DEF beforeSync
      <4>2. CASE ~AdvanceSucceeds(v)
        BY <1>5, <4>2 DEF beforeSync, ItemTypes
      <4>3. QED
        BY <4>1, <4>2
    <3>2. QED
      BY <1>5, <3>1 DEF beforeSync, ItemTypes, SyncTypes
  <2>4. QED
    BY <1>5, <2>1, <2>2, <2>3 DEF beforeSync, SurfaceTypes, LinkTypes, SwitchTypes, surfaceVars,
       linkVars, switchVars
<1>6. ASSUME NEW v \in Items, updatePaintNode(v)
      PROVE  TypeOK'
  <2>1. ClientTypes'
    BY <1>6, ReleaseTypes DEF updatePaintNode
  <2>2. ItemTypes'
    <3>1. /\ dirty' \in [Views -> BOOLEAN]
          /\ UNCHANGED <<connectedWindow, missed, jobRef>>
      BY <1>6 DEF updatePaintNode, ItemTypes
    <3>2. node' \in [Views -> BOOLEAN] /\ newTexture' \in [Views -> BOOLEAN]
      BY <1>6 DEF updatePaintNode, ItemTypes
    <3>3. currentBuffer[v] \in MaybeBuffer
      BY <1>1 DEF QueueTypes
    <3>4. providerRef' \in [Views -> MaybeBuffer]
      BY <1>6, <3>3 DEF updatePaintNode, ItemTypes
    <3>5. QED
      BY <3>1, <3>2, <3>4 DEF ItemTypes
  <2>3. QED
    BY <1>6, <2>1, <2>2 DEF updatePaintNode, SurfaceTypes, LinkTypes, QueueTypes, SwitchTypes,
       SyncTypes, surfaceVars, linkVars, queueVars, switchVars
<1>7. ASSUME NEW v \in Items, SkipPaint(v)
      PROVE  TypeOK'
  BY <1>7 DEF SkipPaint, ClientTypes, SurfaceTypes, LinkTypes, QueueTypes, SwitchTypes,
     ItemTypes, SyncTypes, clientVars, surfaceVars, linkVars, queueVars, switchVars, itemVars
<1>8. ASSUME NEW v \in Items, CleanupProvider(v)
      PROVE  TypeOK'
  <2>1. ClientTypes'
    BY <1>8, ReleaseTypes DEF CleanupProvider
  <2>2. QED
    BY <1>8, <2>1 DEF CleanupProvider, SurfaceTypes, LinkTypes, QueueTypes, SwitchTypes,
       ItemTypes, SyncTypes, surfaceVars, linkVars, queueVars, switchVars, syncVars, MaybeBuffer
<1>9. QED
  BY <1>2, <1>3, <1>4, <1>5, <1>6, <1>7, <1>8 DEF RenderNext

\* TypeOK, the type invariant of the run surface_buffers_item, for every instance.
THEOREM TypeCorrect == Spec => []TypeOK
<1>1. Init => TypeOK
  BY TypeInit
<1>2. TypeOK /\ [Next]_vars => TypeOK'
  <2>1. ASSUME TypeOK, Next
        PROVE  TypeOK'
    BY <2>1, TypeClientStep, TypeCompositorStep, TypeRenderStep DEF Next
  <2>2. ASSUME TypeOK, UNCHANGED vars
        PROVE  TypeOK'
    BY <2>2 DEF vars, clientVars, surfaceVars, linkVars, queueVars, switchVars, itemVars,
       syncVars, TypeOK, ClientTypes, SurfaceTypes, LinkTypes, QueueTypes, SwitchTypes, ItemTypes,
       SyncTypes
  <2>3. QED
    BY <2>1, <2>2
<1>3. QED
  BY <1>1, <1>2, PTL DEF Spec

-----------------------------------------------------------------------------
(* Ownership *)

\* The inductive invariant: the compositor's flags are the client's ledger, what
\* may be read is lent, what is lent is held by someone who will release it, and
\* a pending buffer was attached since the last commit.
OwnershipInv ==
  /\ ReferencedIsLent
  /\ m_committed \cap live = lent
  /\ \A b \in lent : Held(b)
  /\ \A s \in Surfaces : pendingBuffer[s] # Null => newlyAttached[s]

LEMMA ReferencedIsHeld == \A b : Referenced(b) => Held(b)
BY DEF Referenced, Held

\* The step of a handler that only moves references: it may add one to a buffer
\* that has a reference already, and let any of them go.
LEMMA MovingReferences ==
  ASSUME TypeOK, OwnershipInv, ReleaseDropped,
         \A b \in Buffers : Referenced(b)' => Referenced(b),
         \A s \in Surfaces : pendingBuffer'[s] # Null => newlyAttached'[s]
  PROVE  OwnershipInv'
<1> USE DEF OwnershipInv
<1>1. live' = live /\ lent' = lent \ Dropped /\ m_committed' = m_committed \ Dropped
  BY DEF ReleaseDropped, Released
<1>2. live \subseteq Buffers /\ lent \subseteq Buffers
  BY DEF TypeOK, ClientTypes
<1>3. \A b \in Buffers : b \in Dropped <=> Held(b) /\ ~Held(b)'
  BY DEF Dropped
<1>4. \A b \in Buffers : Referenced(b)' => Held(b)'
  BY DEF Referenced, Held
<1>5. ReferencedIsLent'
  BY <1>1, <1>2, <1>3, <1>4 DEF ReferencedIsLent
<1>6. (\A b \in lent : Held(b))'
  BY <1>1, <1>2, <1>3
<1>7. QED
  BY <1>1, <1>5, <1>6

\* A step that leaves the buffers and every reference alone.
LEMMA SameReferences ==
  ASSUME OwnershipInv,
         UNCHANGED <<live, m_committed, lent, pendingBuffer, newlyAttached, bufferRef, nextBuffer,
                     currentBuffer, providerRef, jobRef>>
  PROVE  OwnershipInv'
BY DEF OwnershipInv, ReferencedIsLent, Referenced, Held

LEMMA OwnershipClientStep ==
  ASSUME TypeOK, OwnershipInv, ClientNext
  PROVE  OwnershipInv'
<1>1. ASSUME NEW b \in Buffers, CreateBuffer(b)
      PROVE  OwnershipInv'
  <2>1. UNCHANGED <<lent, pendingBuffer, newlyAttached, bufferRef, nextBuffer, currentBuffer,
                    providerRef, jobRef>>
    BY <1>1 DEF CreateBuffer, surfaceVars, queueVars, itemVars
  <2>2. \A c : (Referenced(c)' <=> Referenced(c)) /\ (Held(c)' <=> Held(c))
    BY <2>1 DEF Referenced, Held
  <2>3. ~Referenced(b) /\ b \notin lent
    BY <1>1, ReferencedIsHeld DEF CreateBuffer, OwnershipInv
  <2>4. QED
    BY <1>1, <2>1, <2>2, <2>3 DEF CreateBuffer, OwnershipInv, ReferencedIsLent
<1>2. ASSUME NEW b \in Buffers, DestroyBuffer(b)
      PROVE  OwnershipInv'
  <2>1. UNCHANGED <<pendingBuffer, newlyAttached, bufferRef, nextBuffer, currentBuffer,
                    providerRef, jobRef>>
    BY <1>2 DEF DestroyBuffer, surfaceVars, queueVars, itemVars
  <2>2. \A c : (Referenced(c)' <=> Referenced(c)) /\ (Held(c)' <=> Held(c))
    BY <2>1 DEF Referenced, Held
  <2>3. QED
    BY <1>2, <2>1, <2>2 DEF DestroyBuffer, OwnershipInv, ReferencedIsLent
<1>3. ASSUME NEW s \in Surfaces, CreateSurface(s)
      PROVE  OwnershipInv'
  BY <1>3, SameReferences DEF CreateSurface, clientVars, queueVars, itemVars
<1>4. ASSUME NEW s \in Surfaces, NEW b, surface_attach(s, b)
      PROVE  OwnershipInv'
  <2>1. UNCHANGED <<bufferRef, nextBuffer, currentBuffer, providerRef, jobRef>>
    BY <1>4 DEF surface_attach, queueVars, itemVars
  <2>2. \A c \in Buffers : Referenced(c)' => Referenced(c)
    BY <2>1 DEF Referenced
  <2>3. \A t \in Surfaces : pendingBuffer'[t] # Null => newlyAttached'[t]
    BY <1>4 DEF surface_attach, OwnershipInv, TypeOK, SurfaceTypes
  <2>4. QED
    BY <1>4, <2>2, <2>3, MovingReferences DEF surface_attach
<1>5. ASSUME NEW s \in Surfaces, surface_commit(s)
      PROVE  OwnershipInv'
  <2>0. PICK c : c = Content(s)
    OBVIOUS
  <2>1. UNCHANGED <<live, currentBuffer, providerRef, jobRef>>
    BY <1>5 DEF surface_commit, itemVars
  <2>2. c \in MaybeBuffer
    BY <2>0 DEF Content, TypeOK, SurfaceTypes
  <2>3. c \in live => c \in lent \/ newlyAttached[s]
    <3>1. CASE newlyAttached[s]
      BY <3>1
    <3>2. CASE ~newlyAttached[s]
      BY <2>0, <3>2 DEF Content, OwnershipInv, ReferencedIsLent, Referenced
    <3>3. QED
      BY <3>1, <3>2
  <2>4. bufferRef'[s] = c
    BY <1>5, <2>0 DEF surface_commit, TypeOK, SurfaceTypes
  <2>5. \A b \in Buffers : Referenced(b)' => Referenced(b) \/ b = c
    BY <1>5, <2>0, <2>1 DEF surface_commit, Referenced, TypeOK, SurfaceTypes, QueueTypes
  <2>6. c # Null => Held(c)'
    BY <2>4 DEF Held
  <2>7. live \subseteq Buffers /\ lent \subseteq Buffers /\ Null \notin Buffers
    BY NullAssumption DEF TypeOK, ClientTypes
  <2>8. Dropped \subseteq Buffers /\ \A b \in Buffers : b \in Dropped <=> Held(b) /\ ~Held(b)'
    BY DEF Dropped
  <2>9. c \notin Dropped
    BY <2>6, <2>7, <2>8
  <2>10. m_committed' = (m_committed \cup ({c} \ {Null})) \ Dropped
    BY <1>5, <2>0 DEF surface_commit
  <2>11. lent' = (lent \cup (IF newlyAttached[s] THEN {c} \cap live ELSE {}))
                   \ (Dropped \cap m_committed \cap live)
    BY <1>5, <2>0 DEF surface_commit, Released
  <2>12. m_committed \cap live = lent
    BY DEF OwnershipInv
  <2>13. lent' = (lent \ Dropped) \cup ({c} \cap live)
    BY <2>3, <2>9, <2>11, <2>12
  <2>14. m_committed' \cap live' = lent'
    BY <2>1, <2>7, <2>9, <2>10, <2>12, <2>13
  <2>15. (\A b \in lent : Held(b))'
    BY <2>6, <2>7, <2>8, <2>13 DEF OwnershipInv
  <2>16. \A b \in Buffers : Referenced(b)' => Held(b)'
    BY DEF Referenced, Held
  <2>17. ReferencedIsLent'
    BY <2>1, <2>5, <2>7, <2>8, <2>13, <2>16 DEF OwnershipInv, ReferencedIsLent
  <2>18. (\A t \in Surfaces : pendingBuffer[t] # Null => newlyAttached[t])'
    BY <1>5 DEF surface_commit, OwnershipInv, TypeOK, SurfaceTypes
  <2>19. QED
    BY <2>14, <2>15, <2>17, <2>18 DEF OwnershipInv
<1>6. ASSUME NEW s \in Surfaces, surface_destroy_resource(s)
      PROVE  OwnershipInv'
  <2>1. \A b \in Buffers : Referenced(b)' => Referenced(b)
    BY <1>6, NullAssumption DEF surface_destroy_resource, Referenced, itemVars, TypeOK,
       SurfaceTypes
  <2>2. \A t \in Surfaces : pendingBuffer'[t] # Null => newlyAttached'[t]
    BY <1>6 DEF surface_destroy_resource, OwnershipInv, TypeOK, SurfaceTypes
  <2>3. QED
    BY <1>6, <2>1, <2>2, MovingReferences DEF surface_destroy_resource
<1>7. QED
  BY <1>1, <1>2, <1>3, <1>4, <1>5, <1>6 DEF ClientNext

\* Every other handler moves references: it is enough that nothing becomes
\* referenced in it and that pending buffers stay as they are.
LEMMA MovingStep ==
  ASSUME TypeOK, OwnershipInv, ReleaseDropped, UNCHANGED surfaceVars,
         \A b \in Buffers : Referenced(b)' => Referenced(b)
  PROVE  OwnershipInv'
BY MovingReferences DEF surfaceVars, OwnershipInv

LEMMA OwnershipCompositorStep ==
  ASSUME TypeOK, OwnershipInv, CompositorNext
  PROVE  OwnershipInv'
<1>1. ASSUME NEW v \in Views, NEW s \in Surfaces \cup {Null}, NEW list, Point(v, s, list),
             UNCHANGED <<surfaceVars, providerRef, jobRef>>
      PROVE  \A b \in Buffers : Referenced(b)' => Referenced(b)
  <2>1. \A u \in Views : \/ nextBuffer'[u] = nextBuffer[u] \/ nextBuffer'[u] = Null
                         \/ \E t \in Surfaces : nextBuffer'[u] = bufferRef[t]
    BY <1>1 DEF Point, TypeOK, QueueTypes
  <2>2. \A u \in Views : currentBuffer'[u] = currentBuffer[u] \/ currentBuffer'[u] = Null
    BY <1>1 DEF Point, TypeOK, QueueTypes
  <2>3. QED
    BY <1>1, <2>1, <2>2, NullAssumption DEF Referenced, surfaceVars
<1>2. ASSUME NEW v \in Views, NEW s \in Surfaces \cup {Null}, setSurface(v, s)
      PROVE  OwnershipInv'
  BY <1>1, <1>2, MovingStep DEF setSurface
<1>3. ASSUME NEW v \in Views, NEW s \in Surfaces, setPrimaryView(s, v)
      PROVE  OwnershipInv'
  <2>1. UNCHANGED <<surfaceVars, providerRef, jobRef>> /\ ReleaseDropped
    BY <1>3 DEF setPrimaryView, itemVars
  <2>2. CASE v \in ViewsOf(s)
    <3>1. UNCHANGED <<nextBuffer, currentBuffer>>
      BY <1>3, <2>2 DEF setPrimaryView, queueVars
    <3>2. \A b \in Buffers : Referenced(b)' => Referenced(b)
      BY <2>1, <3>1 DEF Referenced, surfaceVars
    <3>3. QED
      BY <2>1, <3>2, MovingStep
  <2>3. CASE v \notin ViewsOf(s)
    <3>1. Point(v, s, <<v>> \o views[s])
      BY <1>3, <2>3 DEF setPrimaryView
    <3>2. \A b \in Buffers : Referenced(b)' => Referenced(b)
      BY <1>1, <2>1, <3>1
    <3>3. QED
      BY <2>1, <3>2, MovingStep
  <2>4. QED
    BY <2>2, <2>3
<1>4. ASSUME NEW v \in Views,
             setBufferLocked(v) \/ setAllowDiscardFrontBuffer(v) \/ setPaintEnabled(v)
      PROVE  OwnershipInv'
  BY <1>4, SameReferences DEF setBufferLocked, setAllowDiscardFrontBuffer, setPaintEnabled,
     clientVars, surfaceVars, queueVars, itemVars
<1>5. ASSUME NEW v \in Views, NEW w \in Windows, EnterWindow(v, w)
      PROVE  OwnershipInv'
  BY <1>5, SameReferences DEF EnterWindow, clientVars, surfaceVars, queueVars
<1>6. ASSUME NEW v \in Views, LeaveWindow(v)
      PROVE  OwnershipInv'
  <2>1. UNCHANGED <<surfaceVars, nextBuffer>> /\ ReleaseDropped
    BY <1>6 DEF LeaveWindow
  <2>2. \A b \in Buffers : Referenced(b)' => Referenced(b)
    BY <1>6, <2>1, NullAssumption DEF LeaveWindow, Referenced, surfaceVars, TypeOK, QueueTypes,
       ItemTypes
  <2>3. QED
    BY <2>1, <2>2, MovingStep
<1>7. ASSUME NEW v \in Views, DestroyView(v)
      PROVE  OwnershipInv'
  <2>1. UNCHANGED surfaceVars /\ ReleaseDropped
    BY <1>7 DEF DestroyView
  <2>2. \A b \in Buffers : Referenced(b)' => Referenced(b)
    BY <1>7, <2>1, NullAssumption DEF DestroyView, Referenced, surfaceVars, TypeOK, QueueTypes,
       ItemTypes
  <2>3. QED
    BY <2>1, <2>2, MovingStep
<1>8. surfaces \subseteq Surfaces
  BY DEF TypeOK, SurfaceTypes
<1>9. QED
  BY <1>2, <1>3, <1>4, <1>5, <1>6, <1>7, <1>8 DEF CompositorNext

LEMMA OwnershipRenderStep ==
  ASSUME TypeOK, OwnershipInv, RenderNext, ~UploadsShm
  PROVE  OwnershipInv'
<1>1. Items \subseteq Views
  BY NullAssumption
<1>2. ASSUME NEW v \in Views, Advance(v), UNCHANGED <<surfaceVars, providerRef, jobRef>>
      PROVE  \A b \in Buffers : Referenced(b)' => Referenced(b)
  <2>1. \A u \in Views : currentBuffer'[u] \in {nextBuffer[u], currentBuffer[u], Null}
    BY <1>2 DEF Advance
  <2>2. QED
    BY <1>2, <2>1, NullAssumption DEF Advance, Referenced, surfaceVars
<1>3. ASSUME NEW v \in Views, AdvanceBare(v)
      PROVE  OwnershipInv'
  BY <1>2, <1>3, MovingStep DEF AdvanceBare, itemVars
<1>4. ASSUME NEW w \in Windows, BeginSync(w)
      PROVE  OwnershipInv'
  BY <1>4, SameReferences DEF BeginSync, clientVars, surfaceVars, queueVars, itemVars
<1>5. ASSUME NEW v \in Items, beforeSync(v)
      PROVE  OwnershipInv'
  <2>1. UNCHANGED <<surfaceVars, providerRef, jobRef>> /\ ReleaseDropped
    BY <1>5 DEF beforeSync
  <2>2. CASE AdvanceSucceeds(v)
    BY <1>1, <1>2, <1>5, <2>1, <2>2, MovingStep DEF beforeSync
  <2>3. CASE ~AdvanceSucceeds(v)
    <3>1. \A b \in Buffers : Referenced(b)' => Referenced(b)
      BY <1>5, <2>1, <2>3 DEF beforeSync, Referenced, surfaceVars, queueVars
    <3>2. QED
      BY <2>1, <3>1, MovingStep
  <2>4. QED
    BY <2>2, <2>3
<1>6. ASSUME NEW v \in Items, updatePaintNode(v)
      PROVE  OwnershipInv'
  <2>1. UNCHANGED <<surfaceVars, nextBuffer, currentBuffer, jobRef>> /\ ReleaseDropped
    BY <1>6 DEF updatePaintNode, queueVars
  <2>2. \A u \in Views : providerRef'[u] \in {providerRef[u], currentBuffer[u]}
    BY <1>6 DEF updatePaintNode, TypeOK, ItemTypes
  <2>3. \A b \in Buffers : Referenced(b)' => Referenced(b)
    BY <2>1, <2>2 DEF Referenced, surfaceVars
  <2>4. QED
    BY <2>1, <2>3, MovingStep
<1>7. ASSUME NEW v \in Items, SkipPaint(v)
      PROVE  OwnershipInv'
  BY <1>7, SameReferences DEF SkipPaint, clientVars, surfaceVars, queueVars, itemVars
<1>8. ASSUME NEW v \in Items, CleanupProvider(v)
      PROVE  OwnershipInv'
  <2>1. UNCHANGED <<surfaceVars, nextBuffer, currentBuffer, providerRef>> /\ ReleaseDropped
    BY <1>8 DEF CleanupProvider, queueVars
  <2>2. \A b \in Buffers : Referenced(b)' => Referenced(b)
    BY <1>8, <2>1, NullAssumption DEF CleanupProvider, Referenced, surfaceVars, TypeOK, ItemTypes
  <2>3. QED
    BY <2>1, <2>2, MovingStep
<1>9. ASSUME NEW v \in Views, toOpenGlTexture(v)
      PROVE  OwnershipInv'
  BY <1>9 DEF toOpenGlTexture
<1>10. QED
  BY <1>3, <1>4, <1>5, <1>6, <1>7, <1>8, <1>9 DEF RenderNext

LEMMA OwnershipInductive ==
  ASSUME ~UploadsShm
  PROVE  Spec => []OwnershipInv
<1>1. Init => OwnershipInv
  BY NullAssumption DEF Init, OwnershipInv, ReferencedIsLent
<1>2. TypeOK /\ OwnershipInv /\ [Next]_vars => OwnershipInv'
  <2>1. ASSUME TypeOK, OwnershipInv, Next
        PROVE  OwnershipInv'
    BY <2>1, OwnershipClientStep, OwnershipCompositorStep, OwnershipRenderStep DEF Next
  <2>2. ASSUME OwnershipInv, UNCHANGED vars
        PROVE  OwnershipInv'
    BY <2>2, SameReferences DEF vars, clientVars, surfaceVars, queueVars, itemVars
  <2>3. QED
    BY <2>1, <2>2
<1>3. QED
  BY <1>1, <1>2, TypeCorrect, PTL DEF Spec

\* "As long as a reference to the buffer exists, it is owned by the compositor":
\* unless the compositor's program uploads wl_shm buffers itself, no view, item
\* or clean-up job ever has a buffer that went back to its client.
THEOREM ReferencedBuffersAreLent ==
  ASSUME ~UploadsShm
  PROVE  Spec => []ReferencedIsLent
<1>1. OwnershipInv => ReferencedIsLent
  BY DEF OwnershipInv
<1>2. QED
  BY <1>1, OwnershipInductive, PTL

\* No wl_buffer.release is sent for a buffer its client has already.
THEOREM ReleasesAreOwed ==
  ASSUME ~UploadsShm
  PROVE  Spec => []ReleaseIsOwed
<1>1. OwnershipInv => ReleaseIsOwed
  BY DEF OwnershipInv, ReleaseIsOwed
<1>2. QED
  BY <1>1, OwnershipInductive, PTL

-----------------------------------------------------------------------------
(* Lent buffers come back, with or without early uploads: those take the   *)
(* flag away and the buffer out of the ledger together.                    *)

LentInv == \A b \in lent : b \in live /\ b \in m_committed /\ Held(b)

\* deref sends back what it drops, if it is committed and alive.
LEMMA ReleaseKeepsLent ==
  ASSUME TypeOK, LentInv, ReleaseDropped
  PROVE  LentInv'
<1>1. lent \subseteq Buffers
  BY DEF TypeOK, ClientTypes
<1>2. \A b \in Buffers : b \in Dropped <=> Held(b) /\ ~Held(b)'
  BY DEF Dropped
<1>3. /\ live' = live /\ m_committed' = m_committed \ Dropped
      /\ lent' = lent \ (Dropped \cap m_committed \cap live)
  BY DEF ReleaseDropped, Released
<1>4. \A b \in lent : b \in Dropped \/ Held(b)'
  BY <1>1, <1>2 DEF LentInv
<1>5. QED
  BY <1>3, <1>4 DEF LentInv

\* The buffers' flags change, the references do not.
LEMMA FlagsKeepLent ==
  ASSUME LentInv, UNCHANGED <<surfaceVars, nextBuffer, currentBuffer, providerRef, jobRef>>,
         lent' \subseteq lent /\ lent' \subseteq live' /\ lent' \subseteq m_committed'
  PROVE  LentInv'
<1>1. \A b : Held(b)' <=> Held(b)
  BY DEF Held, surfaceVars
<1>2. QED
  BY <1>1 DEF LentInv

LEMMA CommitKeepsLent ==
  ASSUME TypeOK, LentInv, NEW s \in Surfaces, surface_commit(s)
  PROVE  LentInv'
<1>0. PICK c : c = Content(s)
  OBVIOUS
<1>1. lent \subseteq Buffers /\ live \subseteq Buffers
  BY DEF TypeOK, ClientTypes
<1>2. \A b \in Buffers : b \in Dropped <=> Held(b) /\ ~Held(b)'
  BY DEF Dropped
<1>3. /\ live' = live /\ m_committed' = (m_committed \cup ({c} \ {Null})) \ Dropped
      /\ lent' \subseteq (lent \cup ({c} \cap live)) \ (Dropped \cap m_committed \cap live)
      /\ bufferRef' = [bufferRef EXCEPT ![s] = c]
  BY <1>0, <1>1 DEF surface_commit, Released
<1>4. bufferRef'[s] = c
  BY <1>3 DEF TypeOK, SurfaceTypes
<1>5. Held(c)'
  BY <1>4 DEF Held
<1>6. c \in live => c \notin Dropped /\ c # Null
  BY <1>1, <1>2, <1>5, NullAssumption
<1>7. \A b \in lent : b \in Dropped \/ Held(b)'
  BY <1>1, <1>2 DEF LentInv
<1>8. QED
  BY <1>3, <1>5, <1>6, <1>7 DEF LentInv

LEMMA LentStep ==
  ASSUME TypeOK, LentInv, Next
  PROVE  LentInv'
<1> USE DEF clientVars, queueVars, itemVars
<1>1. CASE ClientNext
  <2>1. ASSUME NEW b \in Buffers, CreateBuffer(b)
        PROVE  LentInv'
    <3>1. b \notin lent
      BY <2>1 DEF CreateBuffer, LentInv
    <3>2. QED
      BY <2>1, <3>1, FlagsKeepLent DEF CreateBuffer, LentInv
  <2>2. ASSUME NEW b \in Buffers, DestroyBuffer(b)
        PROVE  LentInv'
    BY <2>2, FlagsKeepLent DEF DestroyBuffer, LentInv
  <2>3. ASSUME NEW s \in Surfaces, CreateSurface(s)
        PROVE  LentInv'
    BY <2>3 DEF CreateSurface, LentInv, Held
  <2>4. ASSUME NEW s \in Surfaces, surface_commit(s)
        PROVE  LentInv'
    BY <2>4, CommitKeepsLent
  <2>5. ASSUME NEW s \in Surfaces,
               surface_destroy_resource(s) \/ \E b \in MaybeBuffer : surface_attach(s, b)
        PROVE  LentInv'
    BY <2>5, ReleaseKeepsLent DEF surface_destroy_resource, surface_attach
  <2>6. live \subseteq MaybeBuffer /\ Null \in MaybeBuffer
    BY DEF TypeOK, ClientTypes, MaybeBuffer
  <2>7. QED
    BY <1>1, <2>1, <2>2, <2>3, <2>4, <2>5, <2>6 DEF ClientNext
<1>2. CASE CompositorNext
  <2>1. CASE ReleaseDropped
    BY <2>1, ReleaseKeepsLent
  <2>2. CASE ~ReleaseDropped
    BY <1>2, <2>2, FlagsKeepLent DEF CompositorNext, setSurface, setPrimaryView, setBufferLocked,
       setAllowDiscardFrontBuffer, setPaintEnabled, EnterWindow, LeaveWindow, DestroyView, LentInv
  <2>3. QED
    BY <2>1, <2>2
<1>3. CASE RenderNext
  <2>1. CASE ReleaseDropped
    BY <2>1, ReleaseKeepsLent
  <2>2. CASE ~ReleaseDropped
    BY <1>3, <2>2, FlagsKeepLent DEF RenderNext, AdvanceBare, toOpenGlTexture, BeginSync,
       beforeSync, updatePaintNode, SkipPaint, CleanupProvider, LentInv
  <2>3. QED
    BY <2>1, <2>2
<1>4. QED
  BY <1>1, <1>2, <1>3 DEF Next

\* LentWillBeReleased, for every instance: whatever views, items, windows and
\* early uploads do, a buffer the client waits for has a holder left whose last
\* deref will send it back.
THEOREM NoBufferIsStranded == Spec => []LentWillBeReleased
<1>1. Init => LentInv
  BY DEF Init, LentInv
<1>2. TypeOK /\ LentInv /\ [Next]_vars => LentInv'
  <2>1. ASSUME LentInv, UNCHANGED vars
        PROVE  LentInv'
    BY <2>1, FlagsKeepLent DEF vars, clientVars, queueVars, itemVars, LentInv
  <2>2. QED
    BY <2>1, LentStep
<1>3. LentInv => LentWillBeReleased
  BY DEF LentInv, LentWillBeReleased
<1>4. QED
  BY <1>1, <1>2, <1>3, TypeCorrect, PTL DEF Spec

-----------------------------------------------------------------------------
(* Refinement: SurfaceBuffers implements BufferOwnership *)

\* A step that lets references go, and leaves what the surfaces show alone,
\* gives some buffers back.
LEMMA MovingIsRelease ==
  ASSUME TypeOK, OwnershipInv, ReleaseDropped, bufferRef' = bufferRef
  PROVE  Ownership!Next
<1>1. PICK R : R = Released
  OBVIOUS
<1>2. R \subseteq lent /\ live' = live /\ lent' = lent \ R
  BY <1>1 DEF ReleaseDropped, Released, OwnershipInv
<1>3. lent \subseteq live /\ live \subseteq Buffers
  BY DEF OwnershipInv, TypeOK, ClientTypes
<1>4. \A b \in R : ~\E s \in Surfaces : bufferRef[s] = b
  BY <1>1 DEF Released, Dropped, Held
<1>5. Ownership!Release(R)
  BY <1>2, <1>3, <1>4 DEF Ownership!Release, Ownership!Shown
<1>6. R \in SUBSET Buffers
  BY <1>2, <1>3
<1>7. QED
  BY <1>5, <1>6 DEF Ownership!Next

\* A step that changes what one surface shows is a commit, of nothing when the
\* surface is destroyed.
LEMMA ContentIsCommit ==
  ASSUME TypeOK, OwnershipInv, OwnershipInv', NEW s \in Surfaces, NEW c \in MaybeBuffer,
         bufferRef' = [bufferRef EXCEPT ![s] = c],
         live' = live, lent' = (lent \ Released) \cup ({c} \cap live)
  PROVE  Ownership!Next
<1>1. PICK R : R = Released
  OBVIOUS
<1>2. lent \subseteq live /\ live \subseteq Buffers /\ R \subseteq lent
  BY <1>1 DEF OwnershipInv, TypeOK, ClientTypes, Released
<1>3. \A b \in R : ~\E t \in Surfaces : bufferRef'[t] = b
  BY <1>1 DEF Released, Dropped, Held
<1>4. bufferRef'[s] = c
  BY DEF TypeOK, SurfaceTypes
<1>5. c \notin R
  BY <1>3, <1>4
<1>6. Ownership!Commit(s, c, R)
  BY <1>1, <1>2, <1>3, <1>5 DEF Ownership!Commit, Ownership!Shown
<1>7. R \in SUBSET Buffers /\ c \in Buffers \cup {Null}
  BY <1>2 DEF MaybeBuffer
<1>8. QED
  BY <1>6, <1>7 DEF Ownership!Next

LEMMA RefinesStep ==
  ASSUME TypeOK, OwnershipInv, OwnershipInv', Next, ~UploadsShm
  PROVE  Ownership!Next \/ UNCHANGED <<live, lent, bufferRef>>
<1>1. ASSUME NEW b \in Buffers, CreateBuffer(b)
      PROVE  Ownership!Next
  <2>1. live' = live \cup {b} /\ lent' = lent /\ bufferRef' = bufferRef
    BY <1>1 DEF CreateBuffer, surfaceVars
  <2>2. b \notin live /\ b \notin lent /\ \A s \in Surfaces : bufferRef[s] # b
    BY <1>1 DEF CreateBuffer, OwnershipInv, Held
  <2>3. Ownership!Create(b)
    BY <2>1, <2>2 DEF Ownership!Create, Ownership!Shown
  <2>4. QED
    BY <2>3 DEF Ownership!Next
<1>2. ASSUME NEW b \in Buffers, DestroyBuffer(b)
      PROVE  Ownership!Next
  <2>1. live' = live \ {b} /\ lent' = lent \ {b} /\ bufferRef' = bufferRef
    BY <1>2 DEF DestroyBuffer, surfaceVars
  <2>2. Ownership!Destroy(b)
    BY <2>1 DEF Ownership!Destroy
  <2>3. QED
    BY <2>2 DEF Ownership!Next
<1>3. ASSUME NEW s \in Surfaces, surface_commit(s)
      PROVE  Ownership!Next
  <2>1. PICK c : c = Content(s)
    OBVIOUS
  <2>2. c \in MaybeBuffer
    BY <2>1 DEF Content, TypeOK, SurfaceTypes
  <2>3. live' = live /\ bufferRef' = [bufferRef EXCEPT ![s] = c]
    BY <1>3, <2>1 DEF surface_commit
  <2>4. bufferRef'[s] = c
    BY <2>3 DEF TypeOK, SurfaceTypes
  <2>5. c \notin Released
    BY <2>4 DEF Released, Dropped, Held
  <2>6. lent' = (lent \cup (IF newlyAttached[s] THEN {c} \cap live ELSE {})) \ Released
    BY <1>3, <2>1 DEF surface_commit
  <2>7. c \in live => c \in lent'
    BY <2>3, <2>4, NullAssumption DEF OwnershipInv, ReferencedIsLent, Referenced, TypeOK,
       ClientTypes
  <2>8. lent' = (lent \ Released) \cup ({c} \cap live)
    BY <2>5, <2>6, <2>7
  <2>9. QED
    BY <2>2, <2>3, <2>8, ContentIsCommit
<1>4. ASSUME NEW s \in Surfaces, surface_destroy_resource(s)
      PROVE  Ownership!Next
  <2>1. live' = live /\ lent' = lent \ Released /\ bufferRef' = [bufferRef EXCEPT ![s] = Null]
    BY <1>4 DEF surface_destroy_resource, ReleaseDropped
  <2>2. Null \in MaybeBuffer /\ Null \notin live
    BY NullAssumption DEF MaybeBuffer, TypeOK, ClientTypes
  <2>3. QED
    BY <2>1, <2>2, ContentIsCommit
<1>5. CASE ReleaseDropped /\ bufferRef' = bufferRef
  BY <1>5, MovingIsRelease
<1>6. ASSUME ClientNext
      PROVE  Ownership!Next \/ UNCHANGED <<live, lent, bufferRef>>
  <2>1. ASSUME NEW s \in Surfaces, CreateSurface(s)
        PROVE  UNCHANGED <<live, lent, bufferRef>>
    BY <2>1 DEF CreateSurface, clientVars
  <2>2. ASSUME NEW s \in Surfaces, NEW b, surface_attach(s, b)
        PROVE  Ownership!Next
    BY <2>2, MovingIsRelease DEF surface_attach
  <2>3. QED
    BY <1>1, <1>2, <1>3, <1>4, <1>6, <2>1, <2>2 DEF ClientNext
<1>7. ASSUME CompositorNext
      PROVE  Ownership!Next \/ UNCHANGED <<live, lent, bufferRef>>
  BY <1>5, <1>7 DEF CompositorNext, setSurface, setPrimaryView, setBufferLocked,
     setAllowDiscardFrontBuffer, setPaintEnabled, EnterWindow, LeaveWindow, DestroyView,
     surfaceVars, clientVars
<1>8. ASSUME RenderNext
      PROVE  Ownership!Next \/ UNCHANGED <<live, lent, bufferRef>>
  BY <1>5, <1>8 DEF RenderNext, AdvanceBare, toOpenGlTexture, BeginSync, beforeSync,
     updatePaintNode, SkipPaint, CleanupProvider, surfaceVars, clientVars
<1>9. QED
  BY <1>6, <1>7, <1>8 DEF Next

\* The compositor with its views, items, locks and clean-up jobs keeps the
\* promise of BufferOwnership: a buffer changes hands by a commit and a release
\* only, and never while a surface shows it.
THEOREM ImplementsOwnership ==
  ASSUME ~UploadsShm
  PROVE  Spec => OwnershipKept
<1>1. Init => Ownership!Init
  BY DEF Init, Ownership!Init
<1>2. /\ TypeOK /\ OwnershipInv /\ OwnershipInv'
      /\ [Next]_vars
      => [Ownership!Next]_(Ownership!vars)
  <2>1. ASSUME UNCHANGED <<live, lent, bufferRef>>
        PROVE  UNCHANGED Ownership!vars
    BY <2>1 DEF Ownership!vars
  <2>2. ASSUME UNCHANGED vars
        PROVE  UNCHANGED <<live, lent, bufferRef>>
    BY <2>2 DEF vars, clientVars, surfaceVars
  <2>3. QED
    BY <2>1, <2>2, RefinesStep
<1>3. QED
  BY <1>1, <1>2, TypeCorrect, OwnershipInductive, PTL DEF Spec, OwnershipKept, Ownership!Spec

-----------------------------------------------------------------------------
(* The lists of views: each surface's list names exactly the views that    *)
(* are of the surface, each of them once.                                  *)

\* No view is in a list twice, and the lists are what the views say.
Distinct == \A s \in Surfaces : IsInjective(views[s])
Agree == \A s \in Surfaces : ViewsOf(s) = {v \in Views : surface[v] = s}
ListsInv == Distinct /\ Agree

\* A view that is taken off every list and, unless s is Null, put on that of s.
LEMMA PointKeepsLists ==
  ASSUME TypeOK, ListsInv, NEW v \in Views, NEW s \in Surfaces \cup {Null}, NEW list,
         s \in Surfaces => Range(list) = ViewsOf(s) \cup {v} /\ IsInjective(list),
         \A t \in Surfaces : views'[t] = IF t = s THEN list ELSE Without(views[t], {v}),
         surface' = [surface EXCEPT ![v] = s]
  PROVE  ListsInv'
<1>1. \A t \in Surfaces : /\ Range(Without(views[t], {v})) = ViewsOf(t) \ {v}
                          /\ IsInjective(Without(views[t], {v}))
  BY WithoutIsSeq, WithoutKeepsDistinct DEF TypeOK, LinkTypes, ListsInv, Distinct, ViewsOf
<1>2. surface \in [Views -> Surfaces \cup {Null}]
  BY DEF TypeOK, LinkTypes
<1>3. Distinct'
  BY <1>1 DEF Distinct
<1>4. ASSUME NEW t \in Surfaces
      PROVE  ViewsOf(t)' = {w \in Views : surface'[w] = t}
  BY <1>1, <1>2, <1>4 DEF ListsInv, Agree, ViewsOf
<1>5. Agree'
  BY <1>4 DEF Agree, ViewsOf
<1>6. QED
  BY <1>3, <1>5 DEF ListsInv

LEMMA DestroyKeepsLists ==
  ASSUME TypeOK, ListsInv, NEW s \in Surfaces, surface_destroy_resource(s)
  PROVE  ListsInv'
<1>1. /\ views' = [views EXCEPT ![s] = <<>>]
      /\ surface' = [v \in Views |-> IF v \in ViewsOf(s) THEN Null ELSE surface[v]]
  BY DEF surface_destroy_resource
<1>2. DOMAIN views = Surfaces /\ Null \notin Surfaces
  BY NullAssumption DEF TypeOK, LinkTypes
<1>3. Range(<<>>) = {} /\ IsInjective(<<>>)
  BY DEF Range, IsInjective
<1>4. Distinct'
  BY <1>1, <1>2, <1>3 DEF ListsInv, Distinct
<1>5. Agree'
  BY <1>1, <1>2, <1>3 DEF ListsInv, Agree, ViewsOf
<1>6. QED
  BY <1>4, <1>5 DEF ListsInv

LEMMA SetSurfaceKeepsLists ==
  ASSUME TypeOK, ListsInv, NEW v \in Views, NEW s \in Surfaces \cup {Null}, setSurface(v, s)
  PROVE  ListsInv'
<1>1. surface[v] # s /\ Point(v, s, Append(views[s], v))
  BY DEF setSurface
<1>2. ASSUME s \in Surfaces
      PROVE  /\ Range(Append(views[s], v)) = ViewsOf(s) \cup {v}
             /\ IsInjective(Append(views[s], v))
  <2>1. v \notin ViewsOf(s)
    BY <1>1, <1>2 DEF ListsInv, Agree
  <2>2. QED
    BY <1>2, <2>1, AppendAdds DEF ListsInv, Distinct, ViewsOf, TypeOK, LinkTypes
<1>3. QED
  BY <1>1, <1>2, PointKeepsLists DEF Point

LEMMA SetPrimaryViewKeepsLists ==
  ASSUME TypeOK, ListsInv, NEW s \in Surfaces, NEW v \in Views, setPrimaryView(s, v)
  PROVE  ListsInv'
<1>1. views[s] \in Seq(Views) /\ IsInjective(views[s]) /\ DOMAIN views = Surfaces
  BY DEF TypeOK, LinkTypes, ListsInv, Distinct
<1>2. CASE v \in ViewsOf(s)
  <2> DEFINE rest == Without(views[s], {v})
  <2>1. views' = [views EXCEPT ![s] = <<v>> \o rest] /\ surface' = surface
    BY <1>2 DEF setPrimaryView
  <2>2. rest \in Seq(Views)
    BY <1>1, WithoutIsSeq
  <2>3. Range(rest) = ViewsOf(s) \ {v} /\ IsInjective(rest)
    BY <1>1, WithoutIsSeq, WithoutKeepsDistinct DEF ViewsOf
  <2> HIDE DEF rest
  <2>4. Range(<<v>> \o rest) = ViewsOf(s) /\ IsInjective(<<v>> \o rest)
    <3>1. v \notin Range(rest)
      BY <2>3
    <3>2. Range(<<v>> \o rest) = Range(rest) \cup {v} /\ IsInjective(<<v>> \o rest)
      BY <2>2, <2>3, <3>1, PrependProperties
    <3>3. QED
      BY <1>2, <2>3, <3>2
  <2>5. Distinct'
    BY <1>1, <2>1, <2>4 DEF ListsInv, Distinct
  <2>6. Agree'
    BY <1>1, <2>1, <2>4 DEF ListsInv, Agree, ViewsOf
  <2>7. QED
    BY <2>5, <2>6 DEF ListsInv
<1>3. CASE v \notin ViewsOf(s)
  <2>1. Point(v, s, <<v>> \o views[s])
    BY <1>3 DEF setPrimaryView
  <2>2. Range(<<v>> \o views[s]) = ViewsOf(s) \cup {v} /\ IsInjective(<<v>> \o views[s])
    BY <1>1, <1>3, PrependProperties DEF ViewsOf
  <2>3. QED
    BY <2>1, <2>2, PointKeepsLists DEF Point
<1>4. QED
  BY <1>2, <1>3

LEMMA DestroyViewKeepsLists ==
  ASSUME TypeOK, ListsInv, NEW v \in Views, DestroyView(v)
  PROVE  ListsInv'
<1>1. /\ views' = [t \in Surfaces |-> Without(views[t], {v})]
      /\ surface' = [surface EXCEPT ![v] = Null]
  BY DEF DestroyView
<1>2. Null \notin Surfaces
  BY NullAssumption
<1>3. \A t \in Surfaces : views'[t] = IF t = Null THEN <<>> ELSE Without(views[t], {v})
  BY <1>1, <1>2
<1>4. QED
  BY <1>1, <1>2, <1>3, PointKeepsLists

LEMMA SameLists ==
  ASSUME ListsInv, UNCHANGED linkVars
  PROVE  ListsInv'
BY DEF ListsInv, Distinct, Agree, ViewsOf, linkVars

-----------------------------------------------------------------------------
LEMMA ListsStep ==
  ASSUME TypeOK, ListsInv, Next
  PROVE  ListsInv'
<1>1. ASSUME NEW v \in Views, NEW s \in surfaces \cup {Null}, setSurface(v, s)
      PROVE  ListsInv'
  BY <1>1, SetSurfaceKeepsLists DEF TypeOK, SurfaceTypes
<1>2. CASE ClientNext
  <2>1. ASSUME NEW s \in Surfaces, surface_destroy_resource(s)
        PROVE  ListsInv'
    BY <2>1, DestroyKeepsLists
  <2>2. CASE ~\E s \in Surfaces : surface_destroy_resource(s)
    BY <1>2, <2>2, SameLists DEF ClientNext, CreateBuffer, DestroyBuffer, CreateSurface,
       surface_attach, surface_commit
  <2>3. QED
    BY <2>1, <2>2
<1>3. CASE CompositorNext
  BY <1>1, <1>3, SetPrimaryViewKeepsLists, DestroyViewKeepsLists, SameLists
  DEF CompositorNext, setBufferLocked, setAllowDiscardFrontBuffer, setPaintEnabled, EnterWindow,
      LeaveWindow
<1>4. CASE RenderNext
  BY <1>4, SameLists DEF RenderNext, AdvanceBare, toOpenGlTexture, BeginSync, beforeSync,
     updatePaintNode, SkipPaint, CleanupProvider
<1>5. QED
  BY <1>2, <1>3, <1>4 DEF Next

LEMMA ListsInit == Init => ListsInv
<1> SUFFICES ASSUME Init PROVE ListsInv
  OBVIOUS
<1>1. Null \notin Surfaces
  BY NullAssumption
<1>2. QED
  BY <1>1 DEF Init, ListsInv, Distinct, Agree, ViewsOf, Range, IsInjective

\* ViewLists, for every instance: setSurface, setPrimaryView and both destructors
\* keep QWaylandSurfacePrivate::views and QWaylandViewPrivate::surface together.
THEOREM ListsAgree == Spec => []ViewLists
<1>1. Init => ListsInv
  BY ListsInit
<1>2. TypeOK /\ ListsInv /\ [Next]_vars => ListsInv'
  BY ListsStep, SameLists DEF vars
<1>3. TypeOK /\ ListsInv => ViewLists
  BY LengthOfDistinct DEF ListsInv, Distinct, Agree, ViewLists, ViewsOf, TypeOK, LinkTypes
<1>4. QED
  BY <1>1, <1>2, <1>3, TypeCorrect, PTL DEF Spec

-----------------------------------------------------------------------------
(* What views and items show.  ShownIsLatest is inductive together with    *)
(* the lists: a commit reaches the views that are listed, and has to reach *)
(* all that show the surface.                                              *)

LEMMA PointKeepsLatest ==
  ASSUME TypeOK, ShownIsLatest, NEW v \in Views, NEW s \in Surfaces \cup {Null}, NEW list,
         Point(v, s, list), bufferRef' = bufferRef, forceAdvanceSucceed' = forceAdvanceSucceed
  PROVE  ShownIsLatest'
<1> USE DEF TypeOK, LinkTypes, QueueTypes
<1>1. ASSUME NEW w \in Views, w # v
      PROVE  /\ surface'[w] = surface[w] /\ nextBuffer'[w] = nextBuffer[w]
             /\ nextBufferCommitted'[w] = nextBufferCommitted[w]
             /\ currentBuffer'[w] = currentBuffer[w]
  BY <1>1 DEF Point
<1>2. /\ surface'[v] = s
      /\ s # Null => nextBuffer'[v] = bufferRef[s] /\ nextBufferCommitted'[v]
  BY DEF Point
<1>3. QED
  BY <1>1, <1>2 DEF ShownIsLatest

LEMMA CommitKeepsLatest ==
  ASSUME TypeOK, ListsInv, ShownIsLatest, NEW s \in Surfaces, surface_commit(s)
  PROVE  ShownIsLatest'
<1> USE DEF TypeOK, LinkTypes, QueueTypes, SurfaceTypes
<1>1. /\ surface' = surface /\ currentBuffer' = currentBuffer
      /\ forceAdvanceSucceed' = forceAdvanceSucceed
      /\ bufferRef' = [bufferRef EXCEPT ![s] = Content(s)]
      /\ nextBuffer' = [v \in Views |-> IF v \in ViewsOf(s) THEN Content(s) ELSE nextBuffer[v]]
      /\ nextBufferCommitted' = [v \in Views |-> v \in ViewsOf(s) \/ nextBufferCommitted[v]]
  BY DEF surface_commit, linkVars
<1>2. \A v \in Views : v \in ViewsOf(s) <=> surface[v] = s
  BY DEF ListsInv, Agree
<1>3. ASSUME NEW v \in Views, surface[v] = s
      PROVE  nextBuffer'[v] = bufferRef'[s] /\ nextBufferCommitted'[v]
  BY <1>1, <1>2, <1>3
<1>4. ASSUME NEW v \in Views, surface[v] # s, surface[v] # Null
      PROVE  /\ nextBuffer'[v] = nextBuffer[v] /\ bufferRef'[surface[v]] = bufferRef[surface[v]]
             /\ nextBufferCommitted'[v] = nextBufferCommitted[v]
  BY <1>1, <1>2, <1>4
<1>5. QED
  BY <1>1, <1>3, <1>4 DEF ShownIsLatest

LEMMA DestroyKeepsLatest ==
  ASSUME TypeOK, ListsInv, ShownIsLatest, NEW s \in Surfaces, surface_destroy_resource(s)
  PROVE  ShownIsLatest'
<1> USE DEF TypeOK, LinkTypes, QueueTypes, SurfaceTypes
<1>1. /\ bufferRef' = [bufferRef EXCEPT ![s] = Null]
      /\ forceAdvanceSucceed' = forceAdvanceSucceed
      /\ \A v \in Views : v \in ViewsOf(s) => surface'[v] = Null
      /\ \A v \in Views : v \notin ViewsOf(s) =>
            /\ surface'[v] = surface[v] /\ nextBuffer'[v] = nextBuffer[v]
            /\ currentBuffer'[v] = currentBuffer[v]
            /\ nextBufferCommitted'[v] = nextBufferCommitted[v]
  BY DEF surface_destroy_resource
<1>2. \A v \in Views : v \notin ViewsOf(s) => surface[v] # s
  BY DEF ListsInv, Agree
<1>3. \A v \in Views : surface[v] # s /\ surface[v] # Null =>
         bufferRef'[surface[v]] = bufferRef[surface[v]]
  BY <1>1
<1>4. QED
  BY <1>1, <1>2, <1>3 DEF ShownIsLatest

LEMMA AdvanceKeepsLatest ==
  ASSUME TypeOK, ShownIsLatest, NEW v \in Views, Advance(v), bufferRef' = bufferRef,
         surface' = surface
  PROVE  ShownIsLatest'
<1> USE DEF TypeOK, QueueTypes
<1>1. /\ currentBuffer'[v] = nextBuffer'[v] /\ nextBuffer' = nextBuffer
      /\ \A w \in Views : w # v /\ w \in Discards(v) => forceAdvanceSucceed'[w]
      /\ \A w \in Views : w # v /\ w \notin Discards(v) =>
            /\ forceAdvanceSucceed'[w] = forceAdvanceSucceed[w]
            /\ currentBuffer'[w] = currentBuffer[w]
      /\ \A w \in Views : w # v => nextBufferCommitted'[w] = nextBufferCommitted[w]
  BY DEF Advance
<1>2. QED
  BY <1>1 DEF ShownIsLatest

LEMMA SameLatest ==
  ASSUME ShownIsLatest, UNCHANGED <<bufferRef, surface, queueVars>>
  PROVE  ShownIsLatest'
BY DEF ShownIsLatest, queueVars

LEMMA LatestStep ==
  ASSUME TypeOK, ListsInv, ShownIsLatest, Next
  PROVE  ShownIsLatest'
<1> USE DEF surfaceVars, linkVars
<1>1. CASE ClientNext
  <2>1. ASSUME NEW s \in Surfaces, surface_commit(s) \/ surface_destroy_resource(s)
        PROVE  ShownIsLatest'
    BY <2>1, CommitKeepsLatest, DestroyKeepsLatest
  <2>2. ASSUME ~\E s \in Surfaces : surface_commit(s) \/ surface_destroy_resource(s)
        PROVE  ShownIsLatest'
    BY <1>1, <2>2, SameLatest DEF ClientNext, CreateBuffer, DestroyBuffer, CreateSurface,
       surface_attach
  <2>3. QED
    BY <2>1, <2>2
<1>2. CASE CompositorNext
  <2>1. ASSUME NEW v \in Views, NEW s \in surfaces \cup {Null}, setSurface(v, s)
        PROVE  ShownIsLatest'
    BY <2>1, PointKeepsLatest DEF setSurface, TypeOK, SurfaceTypes
  <2>2. ASSUME NEW v \in Views, NEW s \in Surfaces, setPrimaryView(s, v)
        PROVE  ShownIsLatest'
    <3>1. CASE v \in ViewsOf(s)
      BY <2>2, <3>1, SameLatest DEF setPrimaryView
    <3>2. CASE v \notin ViewsOf(s)
      BY <2>2, <3>2, PointKeepsLatest DEF setPrimaryView
    <3>3. QED
      BY <3>1, <3>2
  <2>3. ASSUME NEW v \in Views, LeaveWindow(v) PROVE ShownIsLatest'
    BY <2>3 DEF LeaveWindow, ShownIsLatest, TypeOK, QueueTypes
  <2>4. ASSUME NEW v \in Views, DestroyView(v) PROVE ShownIsLatest'
    BY <2>4 DEF DestroyView, ShownIsLatest, TypeOK, LinkTypes, QueueTypes
  <2>5. ASSUME NEW v \in Views, setBufferLocked(v) \/ setAllowDiscardFrontBuffer(v)
                                \/ setPaintEnabled(v) \/ \E w \in Windows : EnterWindow(v, w)
        PROVE  ShownIsLatest'
    BY <2>5, SameLatest DEF setBufferLocked, setAllowDiscardFrontBuffer, setPaintEnabled,
       EnterWindow
  <2>6. QED
    BY <1>2, <2>1, <2>2, <2>3, <2>4, <2>5 DEF CompositorNext
<1>3. CASE RenderNext
  <2>1. ASSUME NEW v \in Views, AdvanceBare(v) PROVE ShownIsLatest'
    BY <2>1, AdvanceKeepsLatest DEF AdvanceBare
  <2>2. ASSUME NEW v \in Items, beforeSync(v) PROVE ShownIsLatest'
    <3>1. v \in Views
      BY NullAssumption
    <3>2. CASE AdvanceSucceeds(v)
      BY <2>2, <3>1, <3>2, AdvanceKeepsLatest DEF beforeSync
    <3>3. CASE ~AdvanceSucceeds(v)
      BY <2>2, <3>3, SameLatest DEF beforeSync
    <3>4. QED
      BY <3>2, <3>3
  <2>3. ASSUME NEW v \in Items, updatePaintNode(v) \/ SkipPaint(v) \/ CleanupProvider(v)
        PROVE  ShownIsLatest'
    BY <2>3, SameLatest DEF updatePaintNode, SkipPaint, CleanupProvider
  <2>4. ASSUME NEW v \in Views, toOpenGlTexture(v) PROVE ShownIsLatest'
    BY <2>4, SameLatest DEF toOpenGlTexture
  <2>5. ASSUME NEW w \in Windows, BeginSync(w) PROVE ShownIsLatest'
    BY <2>5, SameLatest DEF BeginSync
  <2>6. QED
    BY <1>3, <2>1, <2>2, <2>3, <2>4, <2>5 DEF RenderNext
<1>4. QED
  BY <1>1, <1>2, <1>3 DEF Next

\* ShownIsLatest, for every instance: whatever is locked, discarded, moved and
\* destroyed between a commit and the next advance, no view misses the commit.
THEOREM CommitsReachViews == Spec => []ShownIsLatest
<1>1. Init => ListsInv /\ ShownIsLatest
  BY ListsInit DEF Init, ShownIsLatest
<1>2. TypeOK /\ ListsInv /\ ShownIsLatest /\ [Next]_vars => (ListsInv /\ ShownIsLatest)'
  <2>1. ASSUME TypeOK, ListsInv, ShownIsLatest, Next PROVE (ListsInv /\ ShownIsLatest)'
    BY <2>1, ListsStep, LatestStep
  <2>2. ASSUME ListsInv, ShownIsLatest, UNCHANGED vars PROVE (ListsInv /\ ShownIsLatest)'
    BY <2>2, SameLists, SameLatest DEF vars, surfaceVars, linkVars
  <2>3. QED
    BY <2>1, <2>2
<1>3. QED
  BY <1>1, <1>2, TypeCorrect, PTL DEF Spec

-----------------------------------------------------------------------------
(* PaintedIsCurrent is inductive by itself.                                *)

LEMMA PointKeepsPainted ==
  ASSUME TypeOK, PaintedIsCurrent, NEW v \in Views, NEW s \in Surfaces \cup {Null}, NEW list,
         Point(v, s, list), UNCHANGED <<node, newTexture, providerRef>>
  PROVE  PaintedIsCurrent'
<1>1. \A w \in Views : currentBuffer'[w] \in {currentBuffer[w], Null}
  BY DEF Point, TypeOK, QueueTypes
<1>2. QED
  BY <1>1, NullAssumption DEF PaintedIsCurrent

LEMMA SamePainted ==
  ASSUME PaintedIsCurrent, UNCHANGED <<currentBuffer, node, newTexture, providerRef>>
  PROVE  PaintedIsCurrent'
BY DEF PaintedIsCurrent

LEMMA AdvancePainted ==
  ASSUME TypeOK, PaintedIsCurrent, NEW v \in Views, Advance(v), UNCHANGED <<node, providerRef>>,
         newTexture' = IF v \in Items THEN [newTexture EXCEPT ![v] = TRUE] ELSE newTexture
  PROVE  PaintedIsCurrent'
<1>1. \A w \in Views : w # v => currentBuffer'[w] \in {currentBuffer[w], Null}
  BY DEF Advance
<1>2. \A w \in Views : w # v => newTexture'[w] = newTexture[w]
  BY DEF TypeOK, ItemTypes
<1>3. v \in Items => newTexture'[v]
  BY DEF TypeOK, ItemTypes
<1>4. QED
  BY <1>1, <1>2, <1>3, NullAssumption DEF PaintedIsCurrent

LEMMA UpdateKeepsPainted ==
  ASSUME TypeOK, PaintedIsCurrent, NEW v \in Items, updatePaintNode(v)
  PROVE  PaintedIsCurrent'
<1> USE DEF TypeOK, ItemTypes, QueueTypes
<1>1. v \in Views /\ currentBuffer' = currentBuffer
  BY NullAssumption DEF updatePaintNode, queueVars
<1>2. ASSUME NEW w \in Views, w # v
      PROVE  /\ node'[w] = node[w] /\ newTexture'[w] = newTexture[w]
             /\ providerRef'[w] = providerRef[w]
  BY <1>2 DEF updatePaintNode
<1>3. \/ node'[v] = node[v] /\ newTexture'[v] = newTexture[v] /\ providerRef'[v] = providerRef[v]
      \/ ~node'[v]
      \/ providerRef'[v] = IF NeedsTexture(v) THEN currentBuffer[v] ELSE providerRef[v]
  BY <1>1 DEF updatePaintNode
<1>4. node'[v] /\ ~newTexture'[v] /\ currentBuffer[v] # Null => providerRef'[v] = currentBuffer[v]
  BY <1>3 DEF PaintedIsCurrent, NeedsTexture
<1>5. QED
  BY <1>1, <1>2, <1>4, NullAssumption DEF PaintedIsCurrent

LEMMA PaintedStep ==
  ASSUME TypeOK, PaintedIsCurrent, Next
  PROVE  PaintedIsCurrent'
<1> USE DEF queueVars, itemVars
<1>1. CASE ClientNext
  <2>1. ASSUME NEW s \in Surfaces, surface_destroy_resource(s) PROVE PaintedIsCurrent'
    <3>1. \A w \in Views : currentBuffer'[w] \in {currentBuffer[w], Null}
      BY <2>1 DEF surface_destroy_resource
    <3>2. UNCHANGED <<node, newTexture, providerRef>>
      BY <2>1 DEF surface_destroy_resource
    <3>3. QED
      BY <3>1, <3>2, NullAssumption DEF PaintedIsCurrent
  <2>2. ASSUME ~\E s \in Surfaces : surface_destroy_resource(s)
        PROVE  PaintedIsCurrent'
    BY <1>1, <2>2, SamePainted DEF ClientNext, CreateBuffer, DestroyBuffer, CreateSurface,
       surface_attach, surface_commit
  <2>3. QED
    BY <2>1, <2>2
<1>2. CASE CompositorNext
  <2>1. ASSUME NEW v \in Views, NEW s \in surfaces \cup {Null}, setSurface(v, s)
        PROVE  PaintedIsCurrent'
    BY <2>1, PointKeepsPainted DEF setSurface, TypeOK, SurfaceTypes
  <2>2. ASSUME NEW v \in Views, NEW s \in Surfaces, setPrimaryView(s, v)
        PROVE  PaintedIsCurrent'
    <3>1. CASE v \in ViewsOf(s)
      BY <2>2, <3>1, SamePainted DEF setPrimaryView
    <3>2. CASE v \notin ViewsOf(s)
      BY <2>2, <3>2, PointKeepsPainted DEF setPrimaryView
    <3>3. QED
      BY <3>1, <3>2
  <2>3. ASSUME NEW v \in Views, LeaveWindow(v) \/ DestroyView(v) PROVE PaintedIsCurrent'
    <3>1. ASSUME NEW w \in Views, w # v
          PROVE  /\ node'[w] = node[w] /\ newTexture'[w] = newTexture[w]
                 /\ providerRef'[w] = providerRef[w] /\ currentBuffer'[w] = currentBuffer[w]
      BY <2>3, <3>1 DEF LeaveWindow, DestroyView, TypeOK, ItemTypes, QueueTypes
    <3>2. ~node'[v]
      BY <2>3 DEF LeaveWindow, DestroyView, TypeOK, ItemTypes
    <3>3. QED
      BY <3>1, <3>2, NullAssumption DEF PaintedIsCurrent
  <2>4. ASSUME NEW v \in Views, setBufferLocked(v) \/ setAllowDiscardFrontBuffer(v)
                                \/ setPaintEnabled(v) \/ \E w \in Windows : EnterWindow(v, w)
        PROVE  PaintedIsCurrent'
    BY <2>4, SamePainted DEF setBufferLocked, setAllowDiscardFrontBuffer, setPaintEnabled,
       EnterWindow
  <2>5. QED
    BY <1>2, <2>1, <2>2, <2>3, <2>4 DEF CompositorNext
<1>3. CASE RenderNext
  <2>1. ASSUME NEW v \in Views, AdvanceBare(v) PROVE PaintedIsCurrent'
    BY <2>1, AdvancePainted DEF AdvanceBare
  <2>2. ASSUME NEW v \in Items, beforeSync(v) PROVE PaintedIsCurrent'
    <3>1. v \in Views
      BY NullAssumption
    <3>2. CASE AdvanceSucceeds(v)
      BY <2>2, <3>1, <3>2, AdvancePainted DEF beforeSync
    <3>3. CASE ~AdvanceSucceeds(v)
      BY <2>2, <3>3, SamePainted DEF beforeSync
    <3>4. QED
      BY <3>2, <3>3
  <2>3. ASSUME NEW v \in Items, updatePaintNode(v) PROVE PaintedIsCurrent'
    BY <2>3, UpdateKeepsPainted
  <2>4. ASSUME NEW v \in Items, SkipPaint(v) \/ CleanupProvider(v) PROVE PaintedIsCurrent'
    BY <2>4, SamePainted DEF SkipPaint, CleanupProvider
  <2>5. ASSUME NEW v \in Views, toOpenGlTexture(v) PROVE PaintedIsCurrent'
    BY <2>5, SamePainted DEF toOpenGlTexture
  <2>6. ASSUME NEW w \in Windows, BeginSync(w) PROVE PaintedIsCurrent'
    BY <2>6, SamePainted DEF BeginSync
  <2>7. QED
    BY <1>3, <2>1, <2>2, <2>3, <2>4, <2>5, <2>6 DEF RenderNext
<1>4. QED
  BY <1>1, <1>2, <1>3 DEF Next

\* PaintedIsCurrent, for every instance: an item's node has the texture of the
\* current buffer, unless a newer one waits for updatePaintNode.
THEOREM NodesShowCurrentBuffers == Spec => []PaintedIsCurrent
<1>1. Init => PaintedIsCurrent
  BY NullAssumption DEF Init, PaintedIsCurrent
<1>2. TypeOK /\ PaintedIsCurrent /\ [Next]_vars => PaintedIsCurrent'
  BY PaintedStep, SamePainted DEF vars, queueVars, itemVars
<1>3. QED
  BY <1>1, <1>2, TypeCorrect, PTL DEF Spec
=============================================================================
