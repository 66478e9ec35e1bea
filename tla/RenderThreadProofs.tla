------------------------- MODULE RenderThreadProofs -------------------------
(***************************************************************************)
(* The two modules of a GUI thread and a render thread.  In the compositor:*)
(* the reference count of a ClientBuffer, for every set of references      *)
(* (ClientBufferRefs).  In a client: the frame callbacks of an OpenGL      *)
(* window, for any number of frames (EglFrames).  They share no state.     *)
(*                                                                         *)
(* CountInv and Blocking hold whatever the client does: the count is       *)
(* atomic.  BufferInv, what the other members of ClientBuffer are at each  *)
(* step of the two threads, holds until the client races a render job.     *)
(***************************************************************************)
EXTENDS ClientBufferRefs, EglFrames, FiniteSetTheorems, TLAPS

\* Where a call is after it gave up the old reference, and after it counted
\* the new buffer.
GivenUp == Acting \cup {"store"}
Counted == GivenUp \cup {"deref"}

\* The references whose share of the count is still theirs, and the share a
\* call holds for the reference it has not stored yet.
Kept == {r \in Refs : Refers(r)}
Share(t) == IF pc[t] \in Counted /\ value[t] THEN 1 ELSE 0

OwnTargets ==
  /\ pc["gui"] \in {"idle", "destroyed"} \/ target["gui"] \in GuiRefs
  /\ pc["render"] # "idle" => pc["render"] # "destroyed" /\ target["render"] \in RenderRefs

CountExact == m_refCount = Cardinality(Kept) + Share("gui") + Share("render")

CountInv ==
  /\ OwnTargets
  /\ \A t \in Threads : pc[t] = "ref" => value[t]
  /\ CountExact

\* The GUI thread waits while the render thread takes a reference.
Blocking ==
  /\ blocked => pc["gui"] = "idle" /\ pc["render"] # "idle"
  /\ pc["render"] # "idle" /\ value["render"] => blocked

\* The flags of the buffer.
FlagsAgree ==
  /\ m_buffer <=> ~m_destroyed
  /\ m_committed => m_buffer
  /\ lent <=> (m_committed /\ \A t \in Threads : pc[t] # "clear")
  /\ \A t \in Threads : (pc[t] = "send" => lent) /\ (pc[t] = "clear" => m_committed)

\* A call that found the count at zero, and relies on it: no other call takes
\* a reference, or releases or deletes the buffer.
GaveLast(t) == pc[t] \in {"check", "send", "clear"} \/ (pc[t] = "free" /\ m_destroyed)

LastIsAlone ==
  \A t \in Threads : GaveLast(t) =>
    /\ m_refCount = 0 /\ ~deleted
    /\ \A u \in Threads \ {t} : ~GaveLast(u) /\ pc[u] \notin {"ref", "destroyed"}

\* A provider only has a buffer that was committed.
ProvidersAreLate ==
  \/ Kept \cap RenderRefs # {}
  \/ pc["render"] = "check"
  \/ pc["render"] \in {"ref"} \cup Counted /\ value["render"]
  => lent \/ m_destroyed

\* A reference is taken from another one, or for the client's own buffer.
RefIsSafe ==
  /\ \A t \in Threads : pc[t] = "ref" => ~deleted
  /\ pc["gui"] = "ref" => (m_buffer /\ ~lent) \/ Kept \cap GuiRefs # {}
  /\ pc["render"] = "ref" => Kept \cap GuiRefs # {}

\* Who destroys the buffer is alone with it, and a deleted one is left alone.
DeletedOnce ==
  /\ pc["gui"] = "destroyed" => m_destroyed /\ ~deleted /\ pc["render"] \notin Acting
  /\ deleted =>
       /\ m_destroyed /\ m_refCount = 0
       /\ \A t \in Threads : pc[t] \notin Acting \cup {"ref", "destroyed"}

\* Somebody is still to release the buffer, or to delete it.
SomebodyWill ==
  /\ lent => m_refCount > 0 \/ \E t \in Threads : pc[t] \in {"check", "send"}
  /\ m_destroyed =>
       deleted \/ m_refCount > 0 \/ \E t \in Threads : pc[t] \in {"check", "free", "destroyed"}

Unharmed == ~dangling /\ ~asserted

InOrder ==
  /\ FlagsAgree /\ LastIsAlone /\ ProvidersAreLate
  /\ RefIsSafe /\ DeletedOnce /\ SomebodyWill /\ Unharmed

BufferInv == ~raced => InOrder

-----------------------------------------------------------------------------
(* The count *)

\* The references that are counted are finitely many.
LEMMA KeptFinite == IsFiniteSet(Kept) /\ Cardinality(Kept) \in Nat
<1>1. IsFiniteSet(Refs)
  BY RefsAssumption, FS_Union DEF Refs
<1>2. Kept \in SUBSET Refs
  BY DEF Kept, Refers, GivenUp, Acting
<1>3. QED
  BY <1>1, <1>2, FS_Subset, FS_CardinalityType

\* A call that is about to give up the buffer finds it counted: no other call
\* gives up the same reference.
LEMMA OldIsCounted ==
  ASSUME TypeOK, CountInv, NEW t \in Threads, pc[t] = "deref", refers[target[t]]
  PROVE  target[t] \in Kept /\ m_refCount > 0 /\ (value[t] => m_refCount > 1)
<1>1. target[t] \in Refs
  BY DEF TypeOK
<1>2. ASSUME NEW u \in Threads, target[u] = target[t], pc[u] \in GivenUp
      PROVE  FALSE
  BY <1>2, RefsAssumption DEF CountInv, OwnTargets, Threads, GivenUp, Acting
<1>3. target[t] \in Kept
  BY <1>1, <1>2 DEF Kept, Refers, GivenUp, Acting
<1>4. Cardinality(Kept) # 0
  BY <1>3, KeptFinite, FS_EmptySet
<1>5. /\ Share("gui") \in Nat /\ Share("render") \in Nat
      /\ value[t] => Share(t) = 1
  BY DEF Share, Counted, GivenUp, Acting
<1>6. t = "gui" \/ t = "render"
  BY DEF Threads
<1>7. QED
  BY <1>3, <1>4, <1>5, <1>6, KeptFinite DEF CountInv, CountExact

LEMMA TypeInit == Init => TypeOK
<1>1. Refs # {}
  BY RefsAssumption DEF Refs
<1>2. (CHOOSE r \in Refs : TRUE) \in Refs
  BY <1>1
<1> SUFFICES ASSUME Init
             PROVE  TypeOK
  OBVIOUS
<1>3. target \in [Threads -> Refs] /\ value \in [Threads -> BOOLEAN]
  BY <1>2, Zenon DEF Init
<1>4. /\ m_buffer = TRUE /\ m_committed = FALSE /\ m_destroyed = FALSE /\ deleted = FALSE
      /\ m_refCount = 0 /\ refers = [r \in Refs |-> FALSE] /\ lent = FALSE
      /\ pc = [t \in Threads |-> "idle"]
      /\ blocked = FALSE /\ asserted = FALSE /\ dangling = FALSE /\ raced = FALSE
  BY Zenon DEF Init
<1>5. QED
  BY <1>3, <1>4 DEF TypeOK

LEMMA CountInit == Init => CountInv
<1> SUFFICES ASSUME Init
             PROVE  CountInv
  OBVIOUS
<1>1. Kept = {}
  BY DEF Init, Kept, Refers, Acting, GivenUp
<1>2. Share("gui") = 0 /\ Share("render") = 0
  BY DEF Init, Share, Counted, Threads, GivenUp, Acting
<1>3. CountExact
  BY <1>1, <1>2, FS_EmptySet DEF Init, CountExact
<1>4. QED
  BY <1>3 DEF Init, CountInv, OwnTargets, Threads

\* Only the decrement could leave the type, and it finds the count positive.
LEMMA TypeStep == TypeOK /\ CountInv /\ [Next]_vars => TypeOK'
<1> SUFFICES ASSUME TypeOK, CountInv, [Next]_vars
             PROVE  TypeOK'
  OBVIOUS
<1> USE DEF TypeOK, bufferVars, callVars
<1>1. ASSUME NEW r \in Refs, NEW new \in BOOLEAN, GuiAssign(r, new)
      PROVE  TypeOK'
  BY <1>1 DEF GuiAssign, Enter, Threads
<1>2. ASSUME NEW r \in Refs, NEW new \in BOOLEAN, ProviderAssign(r, new)
      PROVE  TypeOK'
  BY <1>2 DEF ProviderAssign, Enter, Threads
<1>2a. ASSUME NEW r \in Refs, Attach(r)
      PROVE  TypeOK'
  BY <1>2a DEF Attach, Enter, Threads
<1>3. ASSUME NEW r \in Refs, ProviderDelete(r)
      PROVE  TypeOK'
  BY <1>3, RefsAssumption DEF ProviderDelete, Enter, Threads
<1>4. ASSUME NEW t \in Threads, Call(t)
      PROVE  TypeOK'
  <2>1. CASE Ref(t)
    BY <2>1 DEF Ref, Uses
  <2>2. CASE Deref(t)
    BY <2>2, OldIsCounted DEF Deref, Uses
  <2>3. CASE Check(t)
    BY <2>3 DEF Check, Uses
  <2>4. CASE Send(t)
    BY <2>4 DEF Send, Uses
  <2>4a. CASE Clear(t)
    BY <2>4a DEF Clear, Uses
  <2>5. CASE Free(t)
    BY <2>5 DEF Free, Uses
  <2>6. CASE Store(t)
    BY <2>6 DEF Store
  <2>7. QED
    BY <1>4, <2>1, <2>2, <2>3, <2>4, <2>5, <2>6, <2>4a DEF Call
<1>5. CASE SetCommitted
  BY <1>5 DEF SetCommitted
<1>6. CASE SetDestroyed
  BY <1>6 DEF SetDestroyed
<1>7. CASE DeleteUnused
  BY <1>7 DEF DeleteUnused
<1>8. CASE CreateBuffer
  BY <1>8 DEF CreateBuffer
<1>9. CASE UNCHANGED vars
  BY <1>9 DEF vars
<1>10. QED
  BY <1>1, <1>2, <1>3, <1>4, <1>5, <1>6, <1>7, <1>8, <1>9, <1>2a DEF Next

\* What the steps of a call do to the references that are kept: only the
\* decrement takes one away, and only the store adds one.
LEMMA KeptSame ==
  ASSUME UNCHANGED refers,
         \A t \in Threads :
           /\ pc[t] \in GivenUp <=> pc'[t] \in GivenUp
           /\ pc[t] \in GivenUp => target'[t] = target[t]
  PROVE  Kept' = Kept
BY DEF Kept, Refers, GivenUp, Acting

LEMMA KeptByDeref ==
  ASSUME TypeOK, CountInv, NEW t \in Threads, Deref(t)
  PROVE  Kept' = IF refers[target[t]] THEN Kept \ {target[t]} ELSE Kept
<1> USE DEF TypeOK
<1>1. /\ UNCHANGED <<refers, target>> /\ pc[t] = "deref" /\ pc'[t] \in GivenUp
      /\ \A u \in Threads \ {t} : pc'[u] = pc[u]
  BY DEF Deref, callVars, GivenUp, Acting
<1>2. CASE refers[target[t]]
  <2>1. target[t] \notin Kept'
    BY <1>1 DEF Kept, Refers, GivenUp, Acting
  <2>2. ASSUME NEW r \in Refs \ {target[t]}
        PROVE  Refers(r)' <=> Refers(r)
    BY <1>1, <2>2 DEF Refers
  <2>3. QED
    BY <1>2, <2>1, <2>2 DEF Kept
<1>3. CASE ~refers[target[t]]
  BY <1>1, <1>3 DEF Kept, Refers
<1>4. QED
  BY <1>2, <1>3

LEMMA KeptByStore ==
  ASSUME TypeOK, CountInv, NEW t \in Threads, Store(t)
  PROVE  /\ target[t] \notin Kept
         /\ Kept' = IF value[t] THEN Kept \cup {target[t]} ELSE Kept
<1> USE DEF TypeOK
<1>1. /\ pc[t] = "store" /\ pc'[t] = "idle" /\ UNCHANGED <<target, value>>
      /\ refers' = [refers EXCEPT ![target[t]] = value[t]]
      /\ \A u \in Threads \ {t} : pc'[u] = pc[u]
  BY DEF Store, callVars
<1>2. target[t] \in Refs \ Kept
  BY <1>1 DEF Kept, Refers
<1>3. ASSUME NEW u \in Threads \ {t}, target[u] = target[t]
      PROVE  pc[u] \notin GivenUp
  BY <1>1, <1>3, RefsAssumption DEF CountInv, OwnTargets, Threads, GivenUp, Acting
<1>4. target[t] \in Kept' <=> value[t]
  BY <1>1, <1>2, <1>3 DEF Kept, Refers, GivenUp, Acting
<1>5. ASSUME NEW r \in Refs \ {target[t]}
      PROVE  Refers(r)' <=> Refers(r)
  BY <1>1, <1>5 DEF Refers, Acting
<1>6. QED
  BY <1>2, <1>4, <1>5 DEF Kept

\* A step that changes neither the count nor the references, moves no call
\* into or out of the part where its shares differ, keeps the count exact.
LEMMA CountKept ==
  ASSUME CountExact, UNCHANGED <<m_refCount, refers>>,
         \A t \in Threads :
           /\ pc[t] \in GivenUp <=> pc'[t] \in GivenUp
           /\ pc[t] \in GivenUp => target'[t] = target[t]
           /\ Share(t)' = Share(t)
  PROVE  CountExact'
<1>1. Kept' = Kept
  BY KeptSame
<1>2. QED
  BY <1>1 DEF CountExact, Threads

\* A call of operator= that begins leaves the count exact.
LEMMA EnterKeeps ==
  ASSUME TypeOK, CountInv, NEW t \in Threads, NEW r \in Refs, NEW new \in BOOLEAN,
         Enter(t, r, new), UNCHANGED <<m_refCount, refers>>,
         r \in IF t = "gui" THEN GuiRefs ELSE RenderRefs
  PROVE  CountInv'
<1> USE DEF TypeOK, Enter, CountInv
<1>1. OwnTargets'
  BY DEF OwnTargets, Threads
<1>2. \A u \in Threads : pc'[u] = "ref" => value'[u]
  OBVIOUS
<1>3. ASSUME NEW u \in Threads
      PROVE  /\ pc[u] \in GivenUp <=> pc'[u] \in GivenUp
             /\ pc[u] \in GivenUp => target'[u] = target[u]
             /\ Share(u)' = Share(u)
  BY DEF GivenUp, Share, Counted, Acting
<1>4. QED
  BY <1>1, <1>2, <1>3, CountKept

LEMMA CountStep == TypeOK /\ CountInv /\ [Next]_vars => CountInv'
<1> SUFFICES ASSUME TypeOK, CountInv, [Next]_vars
             PROVE  CountInv'
  OBVIOUS
<1> USE DEF bufferVars, callVars
<1>1. ASSUME NEW r \in Refs, NEW new \in BOOLEAN, GuiAssign(r, new)
      PROVE  CountInv'
  BY <1>1, EnterKeeps, "gui" \in Threads DEF GuiAssign, Threads
<1>2. ASSUME NEW r \in Refs, NEW new \in BOOLEAN, ProviderAssign(r, new)
      PROVE  CountInv'
  BY <1>2, EnterKeeps, "render" \in Threads DEF ProviderAssign, Threads
<1>2a. ASSUME NEW r \in Refs, Attach(r)
      PROVE  CountInv'
  BY <1>2a, EnterKeeps, "gui" \in Threads DEF Attach, Threads
<1>3. ASSUME NEW r \in Refs, ProviderDelete(r)
      PROVE  CountInv'
  BY <1>3, EnterKeeps, "render" \in Threads DEF ProviderDelete, Threads
<1>4. ASSUME NEW t \in Threads, Call(t)
      PROVE  CountInv'
  <2> USE DEF TypeOK, CountInv
  <2>1. UNCHANGED callVars
    BY <1>4 DEF Call, Ref, Deref, Check, Send, Clear, Free, Store
  <2>2. OwnTargets' /\ \A u \in Threads : pc'[u] = "ref" => value'[u]
    BY <1>4, <2>1 DEF Call, Ref, Deref, Check, Send, Clear, Free, Store, OwnTargets, Threads
  <2>3. CASE Ref(t)
    <3>1. Kept' = Kept
      BY <2>3 DEF Ref, Kept, GivenUp, Refers, Acting
    <3>2. /\ Share(t) = 0 /\ Share(t)' = 1
          /\ \A u \in Threads \ {t} : Share(u)' = Share(u) /\ Share(u) \in Nat
      BY <2>3 DEF Ref, Share, Counted, GivenUp, Acting
    <3>3. CountExact'
      BY <2>3, <3>1, <3>2, KeptFinite DEF Ref, CountExact, Threads
    <3>4. QED
      BY <2>2, <3>3
  <2>4. CASE Deref(t) /\ refers[target[t]]
    <3>1. target[t] \in Kept /\ m_refCount > 0
      BY <2>4, OldIsCounted DEF Deref
    <3>3. Kept' = Kept \ {target[t]}
      BY <2>4, KeptByDeref
    <3>4. Cardinality(Kept') = Cardinality(Kept) - 1
      BY <3>1, <3>3, KeptFinite, FS_RemoveElement
    <3>5. \A u \in Threads : Share(u)' = Share(u) /\ Share(u) \in Nat
      BY <2>4 DEF Deref, Share, Counted, GivenUp, Acting
    <3>6. CountExact'
      BY <2>4, <3>4, <3>5, KeptFinite DEF Deref, CountExact, Threads
    <3>7. QED
      BY <2>2, <3>6
  <2>5. CASE Deref(t) /\ ~refers[target[t]]
    <3>1. Kept' = Kept
      BY <2>1, <2>5 DEF Deref, Kept, GivenUp, Refers, Acting
    <3>2. \A u \in Threads : Share(u)' = Share(u)
      BY <2>5 DEF Deref, Share, Counted, GivenUp, Acting
    <3>3. CountExact'
      BY <2>5, <3>1, <3>2 DEF Deref, CountExact, Threads
    <3>4. QED
      BY <2>2, <3>3
  <2>6. CASE Check(t) \/ Send(t) \/ Clear(t) \/ Free(t)
    <3>1. \A u \in Threads :
            /\ pc[u] \in GivenUp <=> pc'[u] \in GivenUp
            /\ Share(u)' = Share(u)
      BY <2>6 DEF Check, Send, Clear, Free, GivenUp, Share, Counted, Acting
    <3>2. UNCHANGED <<m_refCount, refers>>
      BY <2>6 DEF Check, Send, Clear, Free
    <3>3. CountExact'
      BY <2>1, <3>1, <3>2, CountKept
    <3>4. QED
      BY <2>2, <3>3
  <2>7. CASE Store(t)
    <3>1. /\ pc[t] \in GivenUp /\ pc'[t] \notin GivenUp
          /\ \A u \in Threads \ {t} : pc'[u] = pc[u] /\ Share(u)' = Share(u) /\ Share(u) \in Nat
          /\ Share(t) = (IF value[t] THEN 1 ELSE 0) /\ Share(t)' = 0
      BY <2>7 DEF Store, GivenUp, Share, Counted, Acting
    <3>4. /\ target[t] \notin Kept
          /\ Kept' = IF value[t] THEN Kept \cup {target[t]} ELSE Kept
      BY <2>7, KeptByStore
    <3>5. Cardinality(Kept') = Cardinality(Kept) + (IF value[t] THEN 1 ELSE 0)
      <4>1. Cardinality(Kept \cup {target[t]}) = Cardinality(Kept) + 1
        BY <3>4, KeptFinite, FS_AddElement
      <4>2. QED
        BY <3>4, <4>1, KeptFinite
    <3>6. CountExact'
      BY <2>7, <3>1, <3>5, KeptFinite DEF Store, CountExact, Threads
    <3>7. QED
      BY <2>2, <3>6
  <2>8. QED
    BY <1>4, <2>3, <2>4, <2>5, <2>6, <2>7 DEF Call
<1>5. CASE SetCommitted \/ SetDestroyed \/ DeleteUnused \/ CreateBuffer \/ UNCHANGED vars
  <2> USE DEF TypeOK, CountInv, SetCommitted, SetDestroyed, DeleteUnused, CreateBuffer, vars, GuiRuns
  <2>1. UNCHANGED <<m_refCount, refers, callVars>>
    BY <1>5
  <2>2. OwnTargets' /\ \A u \in Threads : pc'[u] = "ref" => value'[u]
    BY <1>5, <2>1 DEF OwnTargets, Threads
  <2>3. \A u \in Threads :
          /\ pc[u] \in GivenUp <=> pc'[u] \in GivenUp
          /\ Share(u)' = Share(u)
    BY <1>5, <2>1 DEF GivenUp, Share, Counted, Threads, Acting
  <2>4. QED
    BY <2>1, <2>2, <2>3, CountKept
<1>6. QED
  BY <1>1, <1>2, <1>3, <1>4, <1>5, <1>2a DEF Next

\* Between calls every reference to the buffer is counted, and nothing else.
LEMMA QuietCount ==
  ASSUME TypeOK, CountInv, Quiet
  PROVE  /\ m_refCount = Cardinality({r \in Refs : refers[r]})
         /\ Used <=> m_refCount > 0
<1>1. Kept = {r \in Refs : refers[r]}
  BY DEF Kept, Quiet, GivenUp, Refers, Acting
<1>2. Share("gui") = 0 /\ Share("render") = 0
  BY DEF Share, Quiet, Counted, Threads, GivenUp, Acting
<1>3. m_refCount = Cardinality(Kept)
  BY <1>2, KeptFinite DEF CountInv, CountExact
<1>4. Used <=> Kept # {}
  BY <1>1 DEF Used
<1>5. QED
  BY <1>1, <1>3, <1>4, KeptFinite, FS_EmptySet
\* The count is positive while something is counted.
LEMMA CountedIsPositive ==
  ASSUME TypeOK, CountInv
  PROVE  /\ m_refCount = 0 => Kept = {}
         /\ \A t \in Threads : pc[t] \in Counted /\ value[t] => m_refCount > 0
         /\ \A q, r \in Kept : q # r => m_refCount > 1
<1>1. m_refCount = Cardinality(Kept) + Share("gui") + Share("render")
  BY DEF CountInv, CountExact
<1>2. /\ Share("gui") \in Nat /\ Share("render") \in Nat
      /\ \A t \in Threads : pc[t] \in Counted /\ value[t] => Share(t) = 1
  BY DEF Share
<1>3. m_refCount = 0 => Kept = {}
  BY <1>1, <1>2, KeptFinite, FS_EmptySet
<1>4. ASSUME NEW q \in Kept, NEW r \in Kept, q # r
      PROVE  m_refCount > 1
  <2>1. IsFiniteSet(Kept \ {q}) /\ Cardinality(Kept \ {q}) = Cardinality(Kept) - 1
    BY KeptFinite, FS_RemoveElement
  <2>2. Kept \ {q} # {} /\ Kept # {}
    BY <1>4
  <2>3. Cardinality(Kept \ {q}) # 0 /\ Cardinality(Kept) # 0
    BY <2>1, <2>2, KeptFinite, FS_EmptySet
  <2>4. QED
    BY <1>1, <1>2, <2>1, <2>3, KeptFinite
<1>5. QED
  BY <1>1, <1>2, <1>3, <1>4, KeptFinite DEF Threads

-----------------------------------------------------------------------------
(* The two threads *)

LEMMA BlockingInit == Init => Blocking
<1>1. Init => pc = [t \in Threads |-> "idle"] /\ blocked = FALSE
  BY Zenon DEF Init
<1>2. QED
  BY <1>1 DEF Blocking, Threads

LEMMA BlockingStep == TypeOK /\ CountInv /\ Blocking /\ [Next]_vars => Blocking'
<1> SUFFICES ASSUME TypeOK, CountInv, Blocking, [Next]_vars
             PROVE  Blocking'
  OBVIOUS
<1> USE DEF TypeOK, Blocking, GuiRuns, Enter, callVars
<1>1. ASSUME NEW r \in Refs, NEW new \in BOOLEAN, GuiAssign(r, new)
      PROVE  Blocking'
  BY <1>1 DEF GuiAssign
<1>2. ASSUME NEW r \in Refs, NEW new \in BOOLEAN, ProviderAssign(r, new)
      PROVE  Blocking'
  BY <1>2 DEF ProviderAssign, Threads
<1>3. ASSUME NEW r \in Refs, Attach(r) \/ ProviderDelete(r)
      PROVE  Blocking'
  BY <1>3 DEF Attach, ProviderDelete, Threads
<1>4. ASSUME NEW t \in Threads, Call(t)
      PROVE  Blocking'
  <2>1. CASE Store(t)
    BY <2>1 DEF Store, Threads
  <2>2. CASE Ref(t) \/ Deref(t) \/ Check(t) \/ Send(t) \/ Clear(t) \/ Free(t)
    <3>1. /\ UNCHANGED <<blocked, value>> /\ pc[t] # "idle" /\ pc'[t] # "idle"
          /\ \A u \in Threads \ {t} : pc'[u] = pc[u]
      BY <2>2 DEF Ref, Deref, Check, Send, Clear, Free
    <3>2. QED
      BY <3>1 DEF Threads
  <2>3. QED
    BY <1>4, <2>1, <2>2 DEF Call
<1>5. CASE SetCommitted \/ SetDestroyed \/ DeleteUnused \/ CreateBuffer \/ UNCHANGED vars
  BY <1>5 DEF SetCommitted, SetDestroyed, DeleteUnused, CreateBuffer, vars, Threads
<1>6. QED
  BY <1>1, <1>2, <1>3, <1>4, <1>5 DEF Next

LEMMA BufferInit == Init => BufferInv
<1> SUFFICES ASSUME Init
             PROVE  InOrder
  BY DEF BufferInv
<1>1. /\ m_buffer = TRUE /\ m_committed = FALSE /\ m_destroyed = FALSE /\ deleted = FALSE
      /\ lent = FALSE /\ pc = [t \in Threads |-> "idle"]
      /\ asserted = FALSE /\ dangling = FALSE /\ refers = [r \in Refs |-> FALSE]
  BY Zenon DEF Init
<1>2. \A t \in Threads : pc[t] = "idle"
  BY <1>1
<1>3. pc["gui"] = "idle" /\ pc["render"] = "idle" /\ Kept = {}
  BY <1>1, <1>2 DEF Threads, Kept, Refers
<1>4. QED
  BY <1>1, <1>2, <1>3
     DEF InOrder, FlagsAgree, LastIsAlone, GaveLast, ProvidersAreLate, RefIsSafe, DeletedOnce,
         SomebodyWill, Unharmed, Counted, GivenUp, Acting

\* A call of operator= that begins changes nothing but where its thread is;
\* one that takes the buffer finds it alive, and no call about to act on it.
LEMMA EnterInOrder ==
  ASSUME TypeOK, CountInv, Blocking, InOrder,
         NEW t \in Threads, NEW r \in Refs, NEW new \in BOOLEAN, Enter(t, r, new),
         UNCHANGED <<bufferVars, m_refCount, refers, lent, asserted, dangling>>,
         new => ~deleted /\ \A u \in Threads : ~GaveLast(u),
         new /\ t = "gui" => (m_buffer /\ ~lent) \/ Kept \cap GuiRefs # {},
         new /\ t = "render" => Kept \cap GuiRefs # {} /\ (lent \/ m_destroyed)
  PROVE  InOrder'
<1> USE DEF TypeOK, bufferVars, InOrder
<1>1. /\ pc[t] = "idle" /\ pc'[t] = IF new THEN "ref" ELSE "deref"
      /\ value'[t] = new
      /\ \A u \in Threads \ {t} : pc'[u] = pc[u] /\ target'[u] = target[u] /\ value'[u] = value[u]
  BY DEF Enter
<1>2. Kept' = Kept
  BY <1>1, KeptSame DEF GivenUp, Acting
<1>3. FlagsAgree'
  BY <1>1 DEF FlagsAgree
<1>4. \A u \in Threads : GaveLast(u)' => GaveLast(u) /\ u # t
  BY <1>1 DEF GaveLast
<1>5. LastIsAlone'
  BY <1>1, <1>4 DEF LastIsAlone
<1>6. ProvidersAreLate'
  BY <1>1, <1>2 DEF ProvidersAreLate, Threads
<1>7. RefIsSafe'
  BY <1>1, <1>2 DEF RefIsSafe, Threads
<1>8. DeletedOnce'
  BY <1>1 DEF DeletedOnce, Threads, Acting
<1>9. SomebodyWill'
  <2>1. \A u \in Threads : pc[u] # "idle" => pc'[u] = pc[u]
    BY <1>1
  <2>2. QED
    BY <2>1 DEF SomebodyWill
<1>10. QED
  BY <1>3, <1>5, <1>6, <1>7, <1>8, <1>9 DEF Unharmed

\* A reference the GUI thread finds while it runs is kept.
LEMMA FoundIsKept ==
  ASSUME TypeOK, CountInv, GuiRuns, NEW q \in GuiRefs, refers[q]
  PROVE  q \in Kept
<1>1. \A t \in Threads : target[t] = q => pc[t] \notin GivenUp
  BY RefsAssumption DEF CountInv, OwnTargets, GuiRuns, Threads, GivenUp, Acting
<1>2. QED
  BY <1>1 DEF Kept, Refers, GivenUp, Refs

\* A buffer that is counted is alive, and no call is about to act on it.
LEMMA CountedIsSafe ==
  ASSUME TypeOK, CountInv, InOrder, Kept # {}
  PROVE  ~deleted /\ \A u \in Threads : ~GaveLast(u)
BY CountedIsPositive DEF InOrder, DeletedOnce, LastIsAlone

\* The calls that begin.
LEMMA BeginInOrder ==
  ASSUME TypeOK, CountInv, Blocking, InOrder, ~raced', NEW r \in Refs, NEW new \in BOOLEAN,
         Attach(r) \/ GuiAssign(r, new) \/ ProviderAssign(r, new) \/ ProviderDelete(r)
  PROVE  InOrder'
<1>1. CASE Attach(r)
  <2>1. m_buffer /\ ~lent /\ pc["render"] # "clear" /\ pc["gui"] = "idle"
    BY <1>1 DEF Attach, GuiRuns
  <2>2. ~m_destroyed /\ ~deleted
    BY <2>1 DEF InOrder, FlagsAgree, DeletedOnce
  <2>3. pc["render"] # "check" /\ pc["render"] # "send"
    BY <2>1, <2>2 DEF InOrder, FlagsAgree, ProvidersAreLate, Threads
  <2>4. \A u \in Threads : ~GaveLast(u)
    BY <2>1, <2>2, <2>3 DEF GaveLast, Threads
  <2>5. QED
    BY <1>1, <2>1, <2>2, <2>4, EnterInOrder, "gui" \in Threads DEF Attach, Threads
<1>2. CASE GuiAssign(r, new)
  <2>1. new => Kept \cap GuiRefs # {}
    BY <1>2, FoundIsKept DEF GuiAssign
  <2>2. new => ~deleted /\ \A u \in Threads : ~GaveLast(u)
    BY <2>1, CountedIsSafe
  <2>3. QED
    BY <1>2, <2>1, <2>2, EnterInOrder, "gui" \in Threads DEF GuiAssign, Threads
<1>3. CASE ProviderAssign(r, new)
  <2>1. new => Kept \cap GuiRefs # {} /\ (lent \/ m_destroyed)
    BY <1>3, FoundIsKept DEF ProviderAssign
  <2>2. new => ~deleted /\ \A u \in Threads : ~GaveLast(u)
    BY <2>1, CountedIsSafe
  <2>3. QED
    BY <1>3, <2>1, <2>2, EnterInOrder, "render" \in Threads DEF ProviderAssign, Threads
<1>4. CASE ProviderDelete(r)
  BY <1>4, EnterInOrder, "render" \in Threads DEF ProviderDelete, Threads
<1>5. QED
  BY <1>1, <1>2, <1>3, <1>4

\* A call takes its next step.
LEMMA RefInOrder ==
  ASSUME TypeOK, CountInv, Blocking, InOrder, NEW t \in Threads, Ref(t)
  PROVE  InOrder'
<1> USE DEF TypeOK, bufferVars, callVars, InOrder
<1>1. /\ pc[t] = "ref" /\ value[t] /\ pc'[t] = "deref" /\ UNCHANGED <<callVars, bufferVars, lent>>
      /\ \A u \in Threads \ {t} : pc'[u] = pc[u]
      /\ m_refCount' > 0
  BY DEF Ref, CountInv
<1>2. Kept' = Kept
  BY <1>1, KeptSame DEF Ref, GivenUp, Acting
<1>3. ~deleted /\ \A u \in Threads : ~GaveLast(u)
  BY <1>1 DEF RefIsSafe, LastIsAlone, GaveLast
<1>4. FlagsAgree'
  BY <1>1 DEF FlagsAgree
<1>5. LastIsAlone'
  BY <1>1, <1>3 DEF LastIsAlone, GaveLast
<1>6. ProvidersAreLate'
  BY <1>1, <1>2 DEF ProvidersAreLate, Threads, Counted
<1>7. RefIsSafe' /\ DeletedOnce'
  BY <1>1, <1>2, <1>3 DEF RefIsSafe, DeletedOnce, Threads, Acting
<1>8. SomebodyWill'
  BY <1>1 DEF SomebodyWill
<1>9. Unharmed'
  BY <1>3 DEF Ref, Uses, Unharmed
<1>10. QED
  BY <1>4, <1>5, <1>6, <1>7, <1>8, <1>9

LEMMA DerefInOrder ==
  ASSUME TypeOK, CountInv, Blocking, InOrder, ~raced', NEW t \in Threads, Deref(t)
  PROVE  InOrder'
<1> USE DEF TypeOK, bufferVars, callVars, InOrder
<1>1. /\ pc[t] = "deref" /\ UNCHANGED <<callVars, bufferVars, lent>>
      /\ \A u \in Threads \ {t} : pc'[u] = pc[u]
      /\ pc'[t] \in {"check", "store"}
  BY DEF Deref
<1>2. CASE ~refers[target[t]]
  <2>1. UNCHANGED <<Kept, m_refCount, dangling, asserted>> /\ pc'[t] = "store"
    BY <1>2, KeptByDeref DEF Deref
  <2>2. FlagsAgree' /\ SomebodyWill' /\ Unharmed'
    BY <1>1, <2>1 DEF FlagsAgree, SomebodyWill, Unharmed
  <2>3. LastIsAlone'
    BY <1>1, <2>1 DEF LastIsAlone, GaveLast
  <2>4. ProvidersAreLate'
    BY <1>1, <2>1 DEF ProvidersAreLate, Threads, Counted
  <2>5. RefIsSafe' /\ DeletedOnce'
    BY <1>1, <2>1 DEF RefIsSafe, DeletedOnce, Threads, Acting
  <2>6. QED
    BY <2>2, <2>3, <2>4, <2>5
<1>3. CASE refers[target[t]]
  <2>1. /\ target[t] \in Kept /\ m_refCount > 0 /\ (value[t] => m_refCount > 1)
        /\ Kept' = Kept \ {target[t]} /\ m_refCount' = m_refCount - 1
    BY <1>1, <1>3, OldIsCounted, KeptByDeref DEF Deref
  <2>2. ~deleted /\ \A u \in Threads : ~GaveLast(u)
    BY <2>1, CountedIsSafe
  <2>3. /\ pc'[t] = IF m_refCount = 1 THEN "check" ELSE "store"
        /\ m_refCount = 1 => pc["gui"] # "destroyed"
    BY <1>3 DEF Deref
  <2>4. t = "render" => target[t] \in Kept \cap RenderRefs /\ (lent \/ m_destroyed)
    BY <1>1, <2>1 DEF CountInv, OwnTargets, ProvidersAreLate
  <2>5. t = "gui" => pc["render"] # "ref"
    BY <1>1 DEF CountInv, Blocking, Threads
  <2>6. t = "render" => Kept' \cap GuiRefs = Kept \cap GuiRefs
    BY <2>1, <2>4, RefsAssumption
  <2>7. FlagsAgree'
    BY <1>1 DEF FlagsAgree
  <2>8. LastIsAlone'
    <3>1. ASSUME NEW u \in Threads, GaveLast(u)'
          PROVE  u = t /\ m_refCount = 1
      BY <1>1, <2>2, <2>3, <3>1 DEF GaveLast
    <3>2. ASSUME m_refCount = 1, NEW u \in Threads \ {t}
          PROVE  pc[u] \notin {"ref", "destroyed"}
      <4>1. pc[u] # "destroyed"
        BY <2>3, <3>2 DEF CountInv, OwnTargets, Threads
      <4>2. t = "gui" => pc[u] # "ref"
        BY <2>5, <3>2 DEF Threads
      <4>3. t = "render" => pc[u] # "ref"
        <5>1. SUFFICES ASSUME t = "render", pc["gui"] = "ref"
                       PROVE  FALSE
          BY <3>2 DEF Threads
        <5>2. Kept \cap GuiRefs # {}
          BY <2>4, <5>1 DEF RefIsSafe, FlagsAgree
        <5>3. QED
          BY <2>4, <3>2, <5>1, <5>2, CountedIsPositive, RefsAssumption
      <4>4. QED
        BY <4>1, <4>2, <4>3 DEF Threads
    <3>3. \A u \in Threads \ {t} : pc'[u] = pc[u] /\ ~GaveLast(u)'
      BY <1>1, <3>1
    <3>4. QED
      BY <1>1, <2>1, <2>2, <3>1, <3>2, <3>3 DEF LastIsAlone
  <2>9. ProvidersAreLate'
    BY <1>1, <2>1, <2>4 DEF ProvidersAreLate, Threads, Counted
  <2>10. RefIsSafe'
    BY <1>1, <2>2, <2>5, <2>6 DEF RefIsSafe, Threads
  <2>11. DeletedOnce'
    <3>1. pc'["gui"] = "destroyed" => pc["gui"] = "destroyed" /\ t = "render"
      BY <1>1 DEF Threads
    <3>2. pc'["gui"] = "destroyed" => pc'["render"] = "store"
      BY <1>1, <2>3, <3>1
    <3>3. QED
      BY <1>1, <2>2, <3>1, <3>2 DEF DeletedOnce, Acting
  <2>12. SomebodyWill'
    BY <1>1, <2>1, <2>3 DEF SomebodyWill
  <2>13. Unharmed'
    BY <1>3, <2>2 DEF Deref, Uses, Unharmed
  <2>14. QED
    BY <2>7, <2>8, <2>9, <2>10, <2>11, <2>12, <2>13
<1>4. QED
  BY <1>2, <1>3

\* What a call that acts on the last reference finds: no reference, and no
\* other call that would take one, or act.
LEMMA LastFinds ==
  ASSUME TypeOK, CountInv, InOrder, NEW t \in Threads, GaveLast(t)
  PROVE  /\ Kept = {} /\ m_refCount = 0 /\ ~deleted
         /\ ~(pc["render"] \in {"ref"} \cup Counted /\ value["render"])
         /\ \A u \in Threads \ {t} :
              ~GaveLast(u) /\ pc[u] \notin {"ref", "destroyed", "check", "send", "clear"}
<1>1. /\ m_refCount = 0 /\ ~deleted
      /\ \A u \in Threads \ {t} : ~GaveLast(u) /\ pc[u] \notin {"ref", "destroyed"}
  BY DEF InOrder, LastIsAlone
<1>2. pc[t] # "ref" /\ \A u \in Threads \ {t} : pc[u] \notin {"ref", "check", "send", "clear"}
  BY <1>1 DEF GaveLast
<1>3. pc["render"] # "ref"
  BY <1>2 DEF Threads
<1>4. QED
  BY <1>1, <1>2, <1>3, CountedIsPositive DEF Threads

LEMMA CheckInOrder ==
  ASSUME TypeOK, CountInv, Blocking, InOrder, NEW t \in Threads, Check(t)
  PROVE  InOrder'
<1> USE DEF TypeOK, bufferVars, callVars, InOrder
<1>1. /\ pc[t] = "check" /\ UNCHANGED <<callVars, bufferVars, lent, m_refCount, refers>>
      /\ \A u \in Threads \ {t} : pc'[u] = pc[u]
      /\ pc'[t] = IF lent THEN "send" ELSE "free"
  <2>1. \A u \in Threads : pc[u] # "clear"
    BY LastFinds DEF Check, GaveLast
  <2>2. lent <=> m_committed /\ m_buffer /\ ~m_destroyed
    BY <2>1 DEF FlagsAgree
  <2>3. QED
    BY <2>2 DEF Check
<1>2. Kept' = Kept
  BY <1>1, KeptSame DEF GivenUp, Acting
<1>3. /\ Kept = {} /\ ~deleted
      /\ ~(pc["render"] \in {"ref"} \cup Counted /\ value["render"])
      /\ \A u \in Threads \ {t} : pc[u] \notin {"ref", "destroyed", "check", "send", "clear"}
  BY <1>1, LastFinds DEF GaveLast
<1>4. FlagsAgree'
  BY <1>1 DEF FlagsAgree
<1>5. \A u \in Threads : GaveLast(u)' => GaveLast(u)
  BY <1>1 DEF GaveLast
<1>6. LastIsAlone'
  BY <1>1, <1>5 DEF LastIsAlone
<1>7. ProvidersAreLate'
  BY <1>1, <1>2, <1>3 DEF ProvidersAreLate, Threads, Counted, GivenUp, Acting
<1>8. RefIsSafe'
  BY <1>1, <1>2 DEF RefIsSafe, Threads
<1>9. DeletedOnce'
  BY <1>1, <1>3 DEF DeletedOnce, Threads, Acting
<1>10. SomebodyWill'
  BY <1>1 DEF SomebodyWill, FlagsAgree
<1>11. Unharmed'
  BY <1>3 DEF Check, Uses, Unharmed
<1>12. QED
  BY <1>4, <1>6, <1>7, <1>8, <1>9, <1>10, <1>11

LEMMA SendInOrder ==
  ASSUME TypeOK, CountInv, Blocking, InOrder, NEW t \in Threads, Send(t)
  PROVE  InOrder'
<1> USE DEF TypeOK, bufferVars, callVars, InOrder
<1>1. /\ pc[t] = "send" /\ UNCHANGED <<callVars, bufferVars, m_refCount, refers>> /\ ~lent'
      /\ \A u \in Threads \ {t} : pc'[u] = pc[u]
      /\ pc'[t] = "clear"
  BY DEF Send
<1>2. Kept' = Kept
  BY <1>1, KeptSame DEF GivenUp, Acting
<1>3. /\ Kept = {} /\ ~deleted
      /\ ~(pc["render"] \in {"ref"} \cup Counted /\ value["render"])
      /\ \A u \in Threads \ {t} : pc[u] \notin {"ref", "destroyed", "check", "send", "clear"}
  BY <1>1, LastFinds DEF GaveLast
<1>4. m_committed /\ m_buffer /\ ~m_destroyed
  BY <1>1 DEF FlagsAgree
<1>5. FlagsAgree'
  BY <1>1, <1>3, <1>4 DEF FlagsAgree
<1>6. \A u \in Threads : GaveLast(u)' => GaveLast(u)
  BY <1>1 DEF GaveLast
<1>7. LastIsAlone'
  BY <1>1, <1>6 DEF LastIsAlone
<1>8. ProvidersAreLate'
  BY <1>1, <1>2, <1>3 DEF ProvidersAreLate, Threads, Counted, GivenUp, Acting
<1>9. RefIsSafe'
  BY <1>1, <1>3 DEF RefIsSafe, Threads
<1>10. DeletedOnce'
  BY <1>1, <1>3 DEF DeletedOnce, Threads, Acting
<1>11. SomebodyWill'
  BY <1>1, <1>4 DEF SomebodyWill
<1>12. Unharmed'
  BY <1>3, <1>4 DEF Send, Uses, Unharmed
<1>13. QED
  BY <1>5, <1>7, <1>8, <1>9, <1>10, <1>11, <1>12

LEMMA ClearInOrder ==
  ASSUME TypeOK, CountInv, Blocking, InOrder, NEW t \in Threads, Clear(t)
  PROVE  InOrder'
<1> USE DEF TypeOK, bufferVars, callVars, InOrder
<1>1. /\ pc[t] = "clear" /\ UNCHANGED <<callVars, m_buffer, m_destroyed, deleted, lent, m_refCount, refers>>
      /\ \A u \in Threads \ {t} : pc'[u] = pc[u]
      /\ pc'[t] = "free" /\ ~m_committed'
  BY DEF Clear
<1>2. Kept' = Kept
  BY <1>1, KeptSame DEF GivenUp, Acting
<1>3. /\ Kept = {} /\ ~deleted
      /\ ~(pc["render"] \in {"ref"} \cup Counted /\ value["render"])
      /\ \A u \in Threads \ {t} : pc[u] \notin {"ref", "destroyed", "check", "send", "clear"}
  BY <1>1, LastFinds DEF GaveLast
<1>4. m_buffer /\ ~m_destroyed /\ ~lent
  BY <1>1 DEF FlagsAgree
<1>5. FlagsAgree'
  BY <1>1, <1>3, <1>4 DEF FlagsAgree
<1>6. \A u \in Threads : GaveLast(u)' => GaveLast(u)
  BY <1>1 DEF GaveLast
<1>7. LastIsAlone'
  BY <1>1, <1>6 DEF LastIsAlone
<1>8. ProvidersAreLate'
  BY <1>1, <1>2, <1>3 DEF ProvidersAreLate, Threads, Counted, GivenUp, Acting
<1>9. RefIsSafe'
  BY <1>1, <1>3 DEF RefIsSafe, Threads
<1>10. DeletedOnce'
  BY <1>1, <1>3 DEF DeletedOnce, Threads, Acting
<1>11. SomebodyWill'
  BY <1>1, <1>4 DEF SomebodyWill
<1>12. Unharmed'
  BY <1>3 DEF Clear, Uses, Unharmed
<1>13. QED
  BY <1>5, <1>7, <1>8, <1>9, <1>10, <1>11, <1>12

LEMMA FreeInOrder ==
  ASSUME TypeOK, CountInv, Blocking, InOrder, NEW t \in Threads, Free(t)
  PROVE  InOrder'
<1> USE DEF TypeOK, bufferVars, callVars, InOrder
<1>1. /\ pc[t] = "free" /\ UNCHANGED <<callVars, m_buffer, m_destroyed, m_committed, lent, m_refCount, refers>>
      /\ \A u \in Threads \ {t} : pc'[u] = pc[u]
      /\ pc'[t] = "store" /\ (deleted' <=> m_destroyed)
  BY DEF Free, DeletedOnce, Acting
<1>2. Kept' = Kept
  BY <1>1, KeptSame DEF GivenUp, Acting
<1>3. ~deleted
  BY <1>1 DEF DeletedOnce, Acting
<1>4. m_destroyed => /\ m_refCount = 0
                     /\ \A u \in Threads \ {t} : pc[u] \notin Acting \cup {"ref", "destroyed"}
  BY <1>1, LastFinds DEF GaveLast, Acting
<1>5. FlagsAgree'
  BY <1>1 DEF FlagsAgree
<1>6. \A u \in Threads : GaveLast(u)' => GaveLast(u) /\ u # t
  BY <1>1 DEF GaveLast
<1>7. LastIsAlone'
  <2>1. ASSUME NEW u \in Threads, GaveLast(u)'
        PROVE  GaveLast(u) /\ u # t /\ ~m_destroyed
    BY <1>1, <1>4, <1>6, <2>1 DEF GaveLast, Acting
  <2>2. QED
    BY <1>1, <1>6, <2>1 DEF LastIsAlone
<1>8. ProvidersAreLate'
  BY <1>1, <1>2 DEF ProvidersAreLate, Threads, Counted, GivenUp, Acting
<1>9. RefIsSafe'
  BY <1>1, <1>2, <1>4 DEF RefIsSafe, Threads
<1>10. DeletedOnce'
  BY <1>1, <1>3, <1>4 DEF DeletedOnce, Threads, Acting
<1>11. SomebodyWill'
  BY <1>1 DEF SomebodyWill
<1>12. Unharmed'
  BY <1>3 DEF Free, Uses, Unharmed
<1>13. QED
  BY <1>5, <1>7, <1>8, <1>9, <1>10, <1>11, <1>12

LEMMA StoreInOrder ==
  ASSUME TypeOK, CountInv, Blocking, InOrder, NEW t \in Threads, Store(t)
  PROVE  InOrder'
<1> USE DEF TypeOK, bufferVars, callVars, InOrder
<1>1. /\ pc[t] = "store" /\ UNCHANGED <<callVars, bufferVars, lent, m_refCount>>
      /\ \A u \in Threads \ {t} : pc'[u] = pc[u]
      /\ pc'[t] = "idle"
  BY DEF Store
<1>2. Kept' = IF value[t] THEN Kept \cup {target[t]} ELSE Kept
  BY KeptByStore
<1>3. t = "gui" => target[t] \notin RenderRefs
  BY <1>1, RefsAssumption DEF CountInv, OwnTargets
<1>4. FlagsAgree'
  BY <1>1 DEF FlagsAgree
<1>5. \A u \in Threads : GaveLast(u)' => GaveLast(u) /\ u # t
  BY <1>1 DEF GaveLast
<1>6. LastIsAlone'
  BY <1>1, <1>5 DEF LastIsAlone
<1>7. ProvidersAreLate'
  <2>1. Kept' \cap RenderRefs # {} =>
          Kept \cap RenderRefs # {} \/ (pc["render"] \in Counted /\ value["render"])
    BY <1>1, <1>2, <1>3 DEF Threads, Counted, GivenUp
  <2>2. QED
    BY <1>1, <2>1 DEF ProvidersAreLate, Threads, Counted, GivenUp, Acting
<1>8. RefIsSafe'
  BY <1>1, <1>2 DEF RefIsSafe, Threads
<1>9. DeletedOnce'
  BY <1>1 DEF DeletedOnce, Threads, Acting
<1>10. SomebodyWill'
  BY <1>1 DEF SomebodyWill
<1>11. Unharmed'
  BY DEF Store, Unharmed
<1>12. QED
  BY <1>4, <1>6, <1>7, <1>8, <1>9, <1>10, <1>11

\* The other calls of the GUI thread.
LEMMA OthersInOrder ==
  ASSUME TypeOK, CountInv, Blocking, InOrder, ~raced',
         SetCommitted \/ SetDestroyed \/ DeleteUnused \/ CreateBuffer
  PROVE  InOrder'
<1> USE DEF TypeOK, InOrder
<1>1. UNCHANGED <<m_refCount, refers, callVars, asserted>>
  BY DEF SetCommitted, SetDestroyed, DeleteUnused, CreateBuffer
<1>2. Kept' = Kept
  BY <1>1, KeptSame
     DEF SetCommitted, SetDestroyed, DeleteUnused, CreateBuffer, GuiRuns, callVars, GivenUp, Acting
<1>3. CASE SetCommitted
  <2>1. Kept # {}
    BY <1>3, FoundIsKept DEF SetCommitted
  <2>2. ~deleted /\ m_refCount > 0 /\ \A u \in Threads : ~GaveLast(u)
    BY <2>1, CountedIsSafe, CountedIsPositive
  <2>3. pc["gui"] = "idle" /\ UNCHANGED <<pc, m_buffer, m_destroyed, deleted, dangling>>
        /\ m_buffer /\ m_committed' /\ lent'
    BY <1>3 DEF SetCommitted, GuiRuns
  <2>4. FlagsAgree'
    BY <2>2, <2>3 DEF FlagsAgree, GaveLast
  <2>5. \A u \in Threads : ~GaveLast(u)'
    BY <2>2, <2>3 DEF GaveLast
  <2>6. LastIsAlone' /\ ProvidersAreLate'
    BY <2>3, <2>5 DEF LastIsAlone, ProvidersAreLate
  <2>7. RefIsSafe' /\ DeletedOnce'
    BY <1>2, <2>2, <2>3 DEF RefIsSafe, DeletedOnce
  <2>8. SomebodyWill' /\ Unharmed'
    BY <1>1, <2>2, <2>3 DEF SomebodyWill, Unharmed
  <2>9. QED
    BY <2>4, <2>6, <2>7, <2>8
<1>4. CASE SetDestroyed
  <2>1. /\ pc["gui"] = "idle" /\ pc'["gui"] = "destroyed" /\ pc'["render"] = pc["render"]
        /\ ~blocked /\ m_buffer /\ ~m_buffer' /\ m_destroyed' /\ ~m_committed' /\ ~lent'
        /\ deleted' = deleted /\ dangling' = dangling /\ pc["render"] \notin Acting
    BY <1>4 DEF SetDestroyed, GuiRuns, Threads
  <2>2. ~deleted
    BY <2>1 DEF FlagsAgree, DeletedOnce
  <2>3. FlagsAgree'
    BY <2>1 DEF FlagsAgree, Acting, Threads
  <2>4. LastIsAlone'
    BY <2>1 DEF LastIsAlone, GaveLast, Acting, Threads
  <2>5. ProvidersAreLate'
    BY <2>1 DEF ProvidersAreLate
  <2>6. RefIsSafe' /\ DeletedOnce'
    BY <1>2, <2>1, <2>2 DEF RefIsSafe, DeletedOnce, Threads
  <2>7. SomebodyWill' /\ Unharmed'
    BY <1>1, <2>1 DEF SomebodyWill, Unharmed, Threads
  <2>8. QED
    BY <2>3, <2>4, <2>5, <2>6, <2>7
<1>5. CASE DeleteUnused
  <2>1. /\ pc["gui"] = "destroyed" /\ pc'["gui"] = "idle" /\ pc'["render"] = pc["render"]
        /\ UNCHANGED <<m_buffer, m_committed, m_destroyed, lent>>
        /\ m_destroyed /\ ~deleted /\ pc["render"] \notin Acting \cup {"ref", "destroyed"}
        /\ (deleted' <=> m_refCount = 0) /\ dangling' = dangling
    BY <1>5 DEF DeleteUnused, DeletedOnce, Blocking, CountInv, OwnTargets, Threads
  <2>2. FlagsAgree'
    BY <2>1 DEF FlagsAgree, Acting, Threads
  <2>3. LastIsAlone'
    BY <2>1 DEF LastIsAlone, GaveLast, Acting, Threads
  <2>4. ProvidersAreLate'
    BY <2>1 DEF ProvidersAreLate
  <2>5. RefIsSafe' /\ DeletedOnce'
    BY <1>1, <1>2, <2>1 DEF RefIsSafe, DeletedOnce, Acting, Threads
  <2>6. SomebodyWill' /\ Unharmed'
    BY <1>1, <2>1 DEF SomebodyWill, Unharmed, FlagsAgree, Threads
  <2>7. QED
    BY <2>2, <2>3, <2>4, <2>5, <2>6
<1>6. CASE CreateBuffer
  <2>1. /\ \A t \in Threads : pc[t] = "idle" /\ pc'[t] = "idle"
        /\ m_buffer' /\ ~m_committed' /\ ~m_destroyed' /\ ~deleted'
        /\ lent' = lent /\ dangling' = dangling /\ deleted
    BY <1>6 DEF CreateBuffer
  <2>2. Kept = {}
    BY <1>6 DEF CreateBuffer, Kept, Refers
  <2>3. ~lent
    BY <2>1 DEF FlagsAgree, DeletedOnce
  <2>4. FlagsAgree' /\ LastIsAlone'
    BY <2>1, <2>3 DEF FlagsAgree, LastIsAlone, GaveLast
  <2>5. ProvidersAreLate' /\ RefIsSafe' /\ DeletedOnce'
    BY <1>2, <2>1, <2>2
       DEF ProvidersAreLate, RefIsSafe, DeletedOnce, Threads, Counted, GivenUp, Acting
  <2>6. SomebodyWill' /\ Unharmed'
    BY <1>1, <2>1, <2>3 DEF SomebodyWill, Unharmed
  <2>7. QED
    BY <2>4, <2>5, <2>6
<1>7. QED
  BY <1>3, <1>4, <1>5, <1>6

\* What raced is never forgotten.
LEMMA RacedStays == Next => (raced => raced')
BY DEF Next, Call, Attach, GuiAssign, ProviderAssign, ProviderDelete, Ref, Deref, Check, Send,
       Clear, Free, Store, SetCommitted, SetDestroyed, DeleteUnused, CreateBuffer

LEMMA BufferStep == TypeOK /\ CountInv /\ Blocking /\ BufferInv /\ [Next]_vars => BufferInv'
<1>1. CASE UNCHANGED vars
  <2>1. UNCHANGED <<Kept, raced>>
    BY <1>1 DEF vars, callVars, Kept, Refers
  <2>2. InOrder => InOrder'
    BY <1>1, <2>1
       DEF vars, bufferVars, callVars, InOrder, FlagsAgree, LastIsAlone, GaveLast, ProvidersAreLate,
           RefIsSafe, DeletedOnce, SomebodyWill, Unharmed
  <2>3. QED
    BY <2>1, <2>2 DEF BufferInv
<1>2. ASSUME TypeOK, CountInv, Blocking, BufferInv, Next, ~raced'
      PROVE  InOrder'
  <2>1. InOrder
    BY <1>2, RacedStays DEF BufferInv
  <2>2. ASSUME NEW t \in Threads, Call(t)
        PROVE  InOrder'
    BY <1>2, <2>1, <2>2, RefInOrder, DerefInOrder, CheckInOrder, SendInOrder, ClearInOrder,
       FreeInOrder, StoreInOrder DEF Call
  <2>3. ASSUME NEW r \in Refs, NEW new \in BOOLEAN,
               Attach(r) \/ GuiAssign(r, new) \/ ProviderAssign(r, new) \/ ProviderDelete(r)
        PROVE  InOrder'
    BY <1>2, <2>1, <2>3, BeginInOrder
  <2>4. CASE SetCommitted \/ SetDestroyed \/ DeleteUnused \/ CreateBuffer
    BY <1>2, <2>1, <2>4, OthersInOrder
  <2>5. QED
    BY <1>2, <2>2, <2>3, <2>4 DEF Next
<1>3. QED
  BY <1>1, <1>2 DEF BufferInv

-----------------------------------------------------------------------------
(* Theorems *)

LEMMA CountInvariant == Spec => [](TypeOK /\ CountInv)
<1>1. TypeOK /\ CountInv /\ [Next]_vars => (TypeOK /\ CountInv)'
  BY TypeStep, CountStep
<1>2. QED
  BY <1>1, TypeInit, CountInit, PTL DEF Spec

LEMMA BufferInvariant == Spec => [](Blocking /\ BufferInv)
<1>1. TypeOK /\ CountInv /\ (Blocking /\ BufferInv) /\ [Next]_vars => (Blocking /\ BufferInv)'
  BY BlockingStep, BufferStep
<1>2. QED
  BY <1>1, CountInvariant, BlockingInit, BufferInit, PTL DEF Spec

\* Every variable has its type; the count, an int that the code decrements
\* without a look at it, never goes below zero, whatever the threads do.
THEOREM TypeCorrect == Spec => []TypeOK
BY CountInvariant, PTL

\* Whatever the two threads do with their references, and whatever the client
\* does meanwhile, m_refCount counts the references when no call is under way.
THEOREM CountIsExact ==
  Spec => [](Quiet => m_refCount = Cardinality({r \in Refs : refers[r]}))
<1>1. TypeOK /\ CountInv => (Quiet => m_refCount = Cardinality({r \in Refs : refers[r]}))
  BY QuietCount
<1>2. QED
  BY <1>1, CountInvariant, PTL

\* A buffer at rest, after calls of the two threads in any order, is counted
\* exactly; and until the client races a render job, it is lent only while a
\* reference will release it, and deleted once it is destroyed and not
\* referred to.
THEOREM RestingBufferIsCounted == Spec => []CountsReferences
<1>1. TypeOK /\ CountInv /\ BufferInv => CountsReferences
  <2>1. ASSUME TypeOK, CountInv, Quiet
        PROVE  m_refCount = Cardinality({r \in Refs : refers[r]}) /\ (Used <=> m_refCount > 0)
    BY <2>1, QuietCount
  <2>2. ASSUME TypeOK, CountInv, BufferInv, Quiet, ~raced
        PROVE  (lent <=> m_committed) /\ (lent => Used) /\ (deleted <=> m_destroyed /\ ~Used)
    <3>1. Used <=> m_refCount > 0
      BY <2>1, <2>2
    <3>2. m_refCount \in Nat
      BY <2>2 DEF TypeOK
    <3>3. QED
      BY <2>2, <3>1, <3>2
         DEF BufferInv, InOrder, FlagsAgree, DeletedOnce, SomebodyWill, Quiet
  <2>3. QED
    BY <2>1, <2>2 DEF CountsReferences
<1>2. QED
  BY <1>1, CountInvariant, BufferInvariant, PTL

\* A deleted buffer is not used, or deleted again, and Q_ASSERT(m_buffer) of
\* sendRelease holds, with the clean-up job of the render thread beside the GUI
\* thread: until the client races it.
THEOREM DeletedIsNotUsed == Spec => []NeverDangling
<1>1. BufferInv => NeverDangling
  BY DEF BufferInv, InOrder, Unharmed, NeverDangling
<1>2. QED
  BY <1>1, BufferInvariant, PTL

\* And a release is sent only for a buffer that the client waits for, by a call
\* that gave up the last reference: the other thread takes none meanwhile.
THEOREM ReleaseIsTheLast == Spec => ReleasedByTheLast
<1>1. ASSUME TypeOK, CountInv, BufferInv, NEW t \in Threads, Send(t), ~raced
      PROVE  lent /\ m_refCount = 0 /\ \A r \in Refs : ~Refers(r)
  <2>1. InOrder /\ pc[t] = "send"
    BY <1>1 DEF BufferInv, Send
  <2>2. Kept = {} /\ m_refCount = 0
    BY <1>1, <2>1, LastFinds DEF GaveLast
  <2>3. QED
    BY <2>1, <2>2 DEF InOrder, FlagsAgree, Kept
<1>2. TypeOK /\ CountInv /\ BufferInv =>
        \A t \in Threads : Send(t) /\ ~raced =>
          lent /\ m_refCount = 0 /\ \A r \in Refs : ~Refers(r)
  BY <1>1
<1>3. QED
  BY <1>2, CountInvariant, BufferInvariant, PTL DEF ReleasedByTheLast

-----------------------------------------------------------------------------
(* EglFrames *)

\* The calls that may be posted to the GUI thread.
Calls == [call : {"callback", "start", "kill"}, id : 1..MaxFrames]
EglFlags == /\ waiting \in BOOLEAN /\ timedOut \in BOOLEAN
            /\ told \in BOOLEAN /\ evaluated \in BOOLEAN
EglCounts == frames \in 0..MaxFrames /\ timer \in 0..MaxFrames /\ timers \subseteq 1..MaxFrames
EglPlaces ==
  /\ reply \in {"owed", "sent", "main", "frame", "done"} /\ queue \in {"main", "frame"}
  /\ expose \in {"none", "exposed", "hidden"}
  /\ render \in {"idle", "wait", "late", "hide", "send", "swap"}

\* A callback that is on its way was asked for; a swap that is under way is one
\* of those within the bound.
RenderInv ==
  /\ EglFlags /\ EglCounts /\ EglPlaces /\ posted \in Seq(Calls)
  /\ reply # "done" => frames # 0
  /\ render # "idle" => frames < MaxFrames

EglInv == RenderInv /\ WaitIsAnswered

\* TypeOK, part by part.
LEMMA EglTypes == EglTypeOK <=> EglFlags /\ EglCounts /\ EglPlaces /\ posted \in Seq(Calls)
BY DEF EglTypeOK, EglFlags, EglCounts, EglPlaces, Calls

\* The GUI thread takes a posted call: those behind it stay.
LEMMA CallTaken ==
  ASSUME RenderInv, posted # <<>>, posted' = Tail(posted)
  PROVE  /\ posted' \in Seq(Calls) /\ Head(posted) \in Calls
         /\ Head(posted).call # "callback" =>
              ((\E i \in 1..Len(posted) : posted[i].call = "callback") =>
                 \E i \in 1..Len(posted') : posted'[i].call = "callback")
<1>1. posted \in Seq(Calls)
  BY DEF RenderInv
<1>2. Head(posted) = posted[1] /\ Len(posted') = Len(posted) - 1 /\ Len(posted) \in Nat
      /\ \A i \in 1..Len(posted') : posted'[i] = posted[i + 1]
  BY <1>1
<1>3. ASSUME NEW i \in 1..Len(posted), posted[i].call = "callback",
             Head(posted).call # "callback"
      PROVE  \E j \in 1..Len(posted') : posted'[j].call = "callback"
  <2>1. i # 1
    BY <1>2, <1>3
  <2>2. i - 1 \in 1..Len(posted') /\ posted'[i - 1] = posted[i]
    BY <1>2, <2>1
  <2>3. QED
    BY <1>3, <2>2
<1>4. QED
  BY <1>1, <1>3

\* Calls are posted behind those that wait.
LEMMA CallsPosted ==
  ASSUME RenderInv, NEW calls \in Seq(Calls), posted' = posted \o calls
  PROVE  /\ posted' \in Seq(Calls)
         /\ \A i \in 1..Len(posted) : i \in 1..Len(posted') /\ posted'[i] = posted[i]
         /\ \A i \in 1..Len(calls) : /\ Len(posted) + i \in 1..Len(posted')
                                     /\ posted'[Len(posted) + i] = calls[i]
<1>1. posted \in Seq(Calls)
  BY DEF RenderInv
<1>2. Len(posted') = Len(posted) + Len(calls) /\ Len(posted) \in Nat /\ Len(calls) \in Nat
  BY <1>1
<1>3. QED
  BY <1>1, <1>2

\* No call is posted yet.
LEMMA EglInitInv == EglInit => EglInv
<1> USE MaxFramesIsNumber
<1> SUFFICES ASSUME EglInit
             PROVE  EglInv
  OBVIOUS
<1>1. EglFlags /\ EglPlaces
  BY DEF EglInit, EglFlags, EglPlaces
<1>2. EglCounts /\ posted \in Seq(Calls)
  BY DEF EglInit, EglCounts
<1>3. QED
  BY <1>1, <1>2 DEF EglInit, EglInv, RenderInv, WaitIsAnswered

\* A swap is begun within the bound, and ends with the next callback.
LEMMA RenderKeeps ==
  ASSUME EglInv, RenderNext
  PROVE  EglInv'
<1> USE MaxFramesIsNumber
<1> USE DEF EglInv, RenderInv, EglFlags, EglCounts, EglPlaces,
            callbackVars, guiVars, exposeVars
<1>1. CASE swapBuffers
  BY <1>1 DEF swapBuffers, WaitIsAnswered
<1>2. CASE DispatchFrameQueue
  <2>1. [call |-> "callback", id |-> frames] \in Calls
    BY <1>2 DEF DispatchFrameQueue, Calls
  <2> DEFINE calls == <<[call |-> "callback", id |-> frames]>>
  <2>2. calls \in Seq(Calls) /\ posted' = posted \o calls
        /\ Len(calls) = 1 /\ calls[1].call = "callback"
    BY <1>2, <2>1 DEF DispatchFrameQueue
  <2> HIDE DEF calls
  <2>3. posted' \in Seq(Calls)
        /\ \E i \in 1..Len(posted') : posted'[i].call = "callback"
    <3> HIDE DEF EglInv, RenderInv
    <3>1. RenderInv
      BY DEF EglInv
    <3>2. \A i \in 1..Len(calls) : /\ Len(posted) + i \in 1..Len(posted')
                                    /\ posted'[Len(posted) + i] = calls[i]
      BY <2>2, <3>1, CallsPosted
    <3>3. 1 \in 1..Len(calls)
      BY <2>2
    <3>4. \E i \in 1..Len(posted') : posted'[i].call = "callback"
      BY <2>2, <3>2, <3>3
    <3>5. QED
      BY <2>2, <3>1, <3>4, CallsPosted
  <2>4. WaitIsAnswered'
    BY <2>3 DEF WaitIsAnswered
  <2>5. QED
    BY <1>2, <2>3, <2>4 DEF DispatchFrameQueue
<1>3. CASE EndWait
  BY <1>3 DEF EndWait, WaitIsAnswered
<1>4. CASE SetTimedOut
  BY <1>4 DEF SetTimedOut, WaitIsAnswered
<1>5. CASE MakeExpose
  BY <1>5 DEF MakeExpose, WaitIsAnswered
<1>6. CASE QueueExpose
  BY <1>6 DEF QueueExpose, WaitIsAnswered
<1>7. CASE handleUpdate
  <2> DEFINE calls == StopTimer \o <<[call |-> "start", id |-> frames + 1]>>
  <2>1. calls \in Seq(Calls) /\ posted' = posted \o calls
    <3>1. StopTimer \in Seq(Calls) /\ <<[call |-> "start", id |-> frames + 1]>> \in Seq(Calls)
      <4>1. [call |-> "start", id |-> frames + 1] \in Calls
        BY <1>7 DEF handleUpdate, Calls
      <4>2. timer # 0 => [call |-> "kill", id |-> timer] \in Calls
        BY DEF Calls
      <4>3. StopTimer \in Seq(Calls)
        BY <4>2 DEF StopTimer
      <4>4. QED
        BY <4>1, <4>3
    <3>2. posted \in Seq(Calls)
      OBVIOUS
    <3>3. posted' = (posted \o StopTimer) \o <<[call |-> "start", id |-> frames + 1]>>
      BY <1>7 DEF handleUpdate
    <3> HIDE DEF EglInv, RenderInv
    <3>4. QED
      BY <3>1, <3>2, <3>3
  <2>2. posted' \in Seq(Calls)
    <3> HIDE DEF calls
    <3>1. QED
      BY <2>1, CallsPosted
  <2>3. QED
    BY <1>7, <2>2 DEF handleUpdate, WaitIsAnswered
<1>8. QED
  BY <1>1, <1>2, <1>3, <1>4, <1>5, <1>6, <1>7 DEF RenderNext

\* What handleFrameCallback leaves.
LEMMA CallbackHandled ==
  ASSUME EglFlags, EglCounts, EglPlaces, handleFrameCallback,
         UNCHANGED <<told, evaluated, frames, queue, render>>,
         reply' \in {"done", reply}
  PROVE  EglFlags' /\ EglCounts' /\ EglPlaces' /\ ~waiting'
<1> USE MaxFramesIsNumber
<1>1. /\ waiting' = FALSE /\ timedOut' = FALSE /\ timers' = timers \ {timer} /\ timer' = 0
      /\ expose' \in {"exposed", expose}
  BY DEF handleFrameCallback
<1>2. EglFlags' /\ ~waiting'
  BY <1>1 DEF EglFlags
<1>3. EglCounts'
  BY <1>1 DEF EglCounts
<1>4. EglPlaces'
  BY <1>1 DEF EglPlaces
<1>5. QED
  BY <1>2, <1>3, <1>4

\* What StartTimer leaves.
LEMMA TimerStarted ==
  ASSUME EglCounts, NEW id \in 1..MaxFrames, StartTimer(id),
         frames' = frames
  PROVE  EglCounts'
<1> USE MaxFramesIsNumber
<1>1. CASE timers' = timers \cup {id} /\ timer' = id
  <2>1. timers' \subseteq 1..MaxFrames
    BY <1>1 DEF EglCounts
  <2>2. timer' \in 0..MaxFrames
    BY <1>1
  <2>3. QED
    BY <2>1, <2>2 DEF EglCounts
<1>2. CASE UNCHANGED <<timers, timer>>
  BY <1>2 DEF EglCounts
<1>3. QED
  BY <1>1, <1>2 DEF StartTimer

\* A handled callback ends the wait; other calls leave a posted handler posted.
LEMMA GuiKeeps ==
  ASSUME EglInv, GuiNext
  PROVE  EglInv'
<1> USE MaxFramesIsNumber
<1>0. /\ RenderInv /\ WaitIsAnswered /\ EglFlags /\ EglCounts /\ EglPlaces
      /\ posted \in Seq(Calls)
  BY DEF EglInv, RenderInv
<1>1. CASE DispatchMainQueue \/ FrameTimeout \/ HandleExposeEvent
  <2>1. /\ EglFlags' /\ EglCounts' /\ EglPlaces' /\ UNCHANGED <<posted, frames, queue, render>>
        /\ reply' # "done" => reply # "done"
        /\ waiting' => waiting /\ reply' = reply
    <3>1. CASE DispatchMainQueue
      <4>1. /\ handleFrameCallback /\ reply' = "done"
            /\ UNCHANGED <<posted, told, evaluated, frames, queue, render>>
        BY <3>1 DEF DispatchMainQueue
      <4>2. QED
        BY <1>0, <4>1, CallbackHandled
    <3>2. CASE FrameTimeout
      BY <1>0, <3>2 DEF FrameTimeout, EglFlags, EglCounts, EglPlaces, callbackVars
    <3>3. CASE HandleExposeEvent
      <4>1. /\ told' \in BOOLEAN /\ expose' = "none"
            /\ UNCHANGED <<waiting, timedOut, timer, timers, posted, frames, reply, queue, render,
                           evaluated>>
        BY <3>3 DEF HandleExposeEvent, callbackVars, guiVars
      <4>2. QED
        BY <1>0, <4>1 DEF EglFlags, EglCounts, EglPlaces
    <3>4. QED
      BY <1>1, <3>1, <3>2, <3>3
  <2>2. RenderInv'
    BY <1>0, <2>1 DEF RenderInv
  <2>3. WaitIsAnswered'
    BY <1>0, <2>1 DEF WaitIsAnswered
  <2>4. QED
    BY <2>2, <2>3 DEF EglInv
<1>2. CASE RunPosted
  <2>1. /\ posted # <<>> /\ posted' = Tail(posted)
        /\ UNCHANGED <<frames, reply, queue, told, render, evaluated>>
    BY <1>2 DEF RunPosted, callbackVars
  <2>2. PICK head \in Calls :
          /\ head = Head(posted) /\ posted' \in Seq(Calls) /\ head.id \in 1..MaxFrames
          /\ head.call # "callback" =>
               ((\E i \in 1..Len(posted) : posted[i].call = "callback") =>
                  \E i \in 1..Len(posted') : posted'[i].call = "callback")
    <3>1. Head(posted) \in Calls
      BY <1>0, <2>1, CallTaken
    <3>2. Head(posted).id \in 1..MaxFrames
      BY <3>1 DEF Calls
    <3>3. QED
      BY <1>0, <2>1, <3>1, <3>2, CallTaken
  <2>3. \/ head.call = "callback" /\ handleFrameCallback
        \/ /\ head.call = "start" /\ StartTimer(head.id)
           /\ UNCHANGED <<waiting, timedOut, expose>>
        \/ /\ head.call = "kill" /\ timers' = timers \ {head.id}
           /\ UNCHANGED <<waiting, timedOut, timer, expose>>
    BY <1>2, <2>2 DEF RunPosted
  <2>4. /\ EglFlags' /\ EglCounts' /\ EglPlaces'
        /\ waiting' => waiting /\ head.call # "callback"
    <3>1. CASE head.call = "callback" /\ handleFrameCallback
      BY <1>0, <2>1, <3>1, CallbackHandled
    <3>2. CASE /\ head.call = "start" /\ StartTimer(head.id)
               /\ UNCHANGED <<waiting, timedOut, expose>>
      <4>1. head.id \in 1..MaxFrames /\ frames' = frames
        BY <2>1, <2>2
      <4>2. EglCounts'
        BY <1>0, <3>2, <4>1, TimerStarted
      <4>3. QED
        BY <1>0, <2>1, <3>2, <4>2 DEF EglFlags, EglPlaces
    <3>3. CASE /\ head.call = "kill" /\ timers' = timers \ {head.id}
               /\ UNCHANGED <<waiting, timedOut, timer, expose>>
      BY <1>0, <2>1, <3>3 DEF EglFlags, EglCounts, EglPlaces
    <3>4. QED
      BY <2>3, <3>1, <3>2, <3>3
  <2>5. RenderInv'
    BY <1>0, <2>1, <2>2, <2>4 DEF RenderInv
  <2>6. WaitIsAnswered'
    BY <1>0, <2>1, <2>2, <2>4 DEF WaitIsAnswered
  <2>7. QED
    BY <2>5, <2>6 DEF EglInv
<1>3. QED
  BY <1>1, <1>2 DEF GuiNext

\* Every step of the connection and of both threads.
LEMMA EglNextInv ==
  ASSUME EglInv, [EglNext]_eglVars
  PROVE  EglInv'
<1> USE MaxFramesIsNumber
<1> USE DEF EglInv, RenderInv, EglFlags, EglCounts, EglPlaces
<1>1. CASE SendDone
  BY <1>1 DEF SendDone, WaitIsAnswered, guiVars, exposeVars
<1>2. CASE ReadEvents
  BY <1>2 DEF ReadEvents, WaitIsAnswered, guiVars, exposeVars
<1>3. CASE RenderNext
  BY <1>3, RenderKeeps
<1>4. CASE GuiNext
  BY <1>4, GuiKeeps
<1>5. CASE UNCHANGED eglVars
  BY <1>5 DEF eglVars, WaitIsAnswered
<1>6. QED
  BY <1>1, <1>2, <1>3, <1>4, <1>5 DEF EglNext

\* From the two lemmas before.
LEMMA EglInvHolds == EglSpec => []EglInv
<1>1. EglInit => EglInv
  BY EglInitInv
<1>2. EglInv /\ [EglNext]_eglVars => EglInv'
  BY EglNextInv
<1>3. QED
  BY <1>1, <1>2, PTL DEF EglSpec

\* Flags, timers, calls and the places of both threads stay what they are declared
\* to be, for any number of frames: no timer is of a frame that was not asked for.
THEOREM EglTypeCorrect == EglSpec => []EglTypeOK
<1>1. EglInv => EglTypeOK
  BY EglTypes DEF EglInv, RenderInv
<1>2. QED
  BY <1>1, EglInvHolds, PTL

\* Whichever thread reads the answer to a frame callback, and whichever queue the
\* callback is in by then, a window that waits for it still gets it, or is about to
\* ask for a new one; for any number of frames.
THEOREM WaitsAreAnswered == EglSpec => []WaitIsAnswered
<1>1. EglInv => WaitIsAnswered
  BY DEF EglInv
<1>2. QED
  BY <1>1, EglInvHolds, PTL
=============================================================================
