-------------------------- MODULE ClientWindowProofs --------------------------
(***************************************************************************)
(* A client's windows.  What a raster window waits for, and what the       *)
(* compositor shows of a hidden one, for every set of sizes (WindowFrames);*)
(* and what the compositor and the client know of each other's focus and   *)
(* text, for any surfaces and any number of commits, keys, edits and resets*)
(* (TextInput).  The two share no state.                                   *)
(***************************************************************************)
EXTENDS WindowFrames, TextInput, ListsProofs
-----------------------------------------------------------------------------
(* Window frames *)

\* What the invariants rest on: one configure event and one answer at a time,
\* none while the compositor still owes it, and the timer is of a frame callback
\* that is awaited.
OneOfEach(es) == \A i, j \in DOMAIN es : es[i].type = es[j].type => i = j
NoneOf(es, type) == \A i \in DOMAIN es : es[i].type # type
OneAnswer == OneOfEach(events) /\ (frameWanted => NoneOf(events, "done"))
TimerWaits == frameTimer => mWaitingForFrameCallback

Inv == TypeOK /\ OneAnswer /\ TimerWaits /\ WaitsForSomething /\ HiddenIsUnmapped

-----------------------------------------------------------------------------
(* Queues of events *)

LEMMA TypesOfEvents ==
  ASSUME NEW e \in Events
  PROVE  /\ e.type \in {"done", "configure"}
         /\ e.type = "done" => e = [type |-> "done"]
         /\ e.type = "configure" => e.size \in Sizes \cup {Null}
BY DEF Events

\* Two types of events, one of each: two events at most.
LEMMA TwoAtMost ==
  ASSUME NEW es \in Seq(Events), OneOfEach(es)
  PROVE  Len(es) <= 2
<1>1. Len(es) \in Nat /\ DOMAIN es = 1..Len(es)
  OBVIOUS
<1>2. \A i \in DOMAIN es : es[i].type \in {"done", "configure"}
  BY TypesOfEvents
<1>3. ASSUME Len(es) > 2
      PROVE  FALSE
  <2>1. 1 \in DOMAIN es /\ 2 \in DOMAIN es /\ 3 \in DOMAIN es
    BY <1>1, <1>3
  <2>2. QED
    BY <1>2, <2>1 DEF OneOfEach
<1>4. QED
  BY <1>1, <1>3

\* The frame callback is destroyed with its answer, and with nothing else.
LEMMA UndestroyedProperties ==
  ASSUME NEW es \in Seq(Events), OneOfEach(es)
  PROVE  /\ Undestroyed(es) \in Seq(Events)
         /\ OneOfEach(Undestroyed(es)) /\ NoneOf(Undestroyed(es), "done")
<1> DEFINE w == Undestroyed(es)
<1>1. w = Without(es, {[type |-> "done"]})
  BY DEF Undestroyed
<1> HIDE DEF w
<1>2. w \in Seq(Events)
  BY <1>1, WithoutProperties
<1>3. PICK where \in [DOMAIN w -> DOMAIN es] :
        /\ \A k \in DOMAIN w : w[k] = es[where[k]] /\ w[k] \notin {[type |-> "done"]}
        /\ \A k, l \in DOMAIN w : k < l => where[k] < where[l]
  BY <1>1, WithoutProperties
<1>4. DOMAIN w \subseteq Nat /\ DOMAIN es \subseteq Nat /\ \A k \in DOMAIN w : w[k] \in Events
  BY <1>2
<1>5. ASSUME NEW k \in DOMAIN w, NEW l \in DOMAIN w, w[k].type = w[l].type
      PROVE  k = l
  <2>1. where[k] = where[l] /\ where[k] \in Nat
    BY <1>3, <1>4, <1>5 DEF OneOfEach
  <2>2. ~(k < l) /\ ~(l < k)
    BY <1>3, <2>1
  <2>3. QED
    BY <1>4, <2>2
<1>6. \A k \in DOMAIN w : w[k].type # "done"
  BY <1>3, <1>4, TypesOfEvents
<1>7. QED
  BY <1>2, <1>5, <1>6 DEF OneOfEach, NoneOf, w

LEMMA DispatchEvent ==
  ASSUME NEW es \in Seq(Events), es # <<>>, OneOfEach(es)
  PROVE  /\ Head(es) \in Events /\ Tail(es) \in Seq(Events) /\ OneOfEach(Tail(es))
         /\ NoneOf(Tail(es), Head(es).type)
         /\ \A type : NoneOf(es, type) => NoneOf(Tail(es), type)
         /\ \A type : Head(es).type # type /\ ~NoneOf(es, type) => ~NoneOf(Tail(es), type)
<1> DEFINE w == Tail(es)
<1>1. /\ w \in Seq(Events) /\ DOMAIN w = 1..(Len(es) - 1) /\ DOMAIN es = 1..Len(es)
      /\ Len(es) \in Nat /\ Len(es) > 0 /\ Head(es) = es[1]
      /\ \A i \in DOMAIN w : w[i] = es[i + 1]
  OBVIOUS
<1> HIDE DEF w
<1>2. \A i \in DOMAIN w : i + 1 \in DOMAIN es /\ i + 1 # 1 /\ 1 \in DOMAIN es
  BY <1>1
<1>3. \A i \in DOMAIN es : i = 1 \/ (i - 1 \in DOMAIN w /\ w[i - 1] = es[i])
  BY <1>1
<1>4. OneOfEach(w) /\ NoneOf(w, Head(es).type)
  BY <1>1, <1>2 DEF OneOfEach, NoneOf
<1>5. \A type : NoneOf(es, type) => NoneOf(w, type)
  BY <1>1, <1>2 DEF NoneOf
<1>6. \A type : Head(es).type # type /\ ~NoneOf(es, type) => ~NoneOf(w, type)
  BY <1>1, <1>3 DEF NoneOf
<1>7. QED
  BY <1>1, <1>4, <1>5, <1>6 DEF w

LEMMA SendEvent ==
  ASSUME NEW es \in Seq(Events), NEW e \in Events, OneOfEach(es), NoneOf(es, e.type)
  PROVE  /\ Append(es, e) \in Seq(Events) /\ OneOfEach(Append(es, e))
         /\ \A type : NoneOf(Append(es, e), type) <=> NoneOf(es, type) /\ e.type # type
<1> DEFINE w == Append(es, e)
<1>1. /\ w \in Seq(Events) /\ DOMAIN w = 1..(Len(es) + 1) /\ DOMAIN es = 1..Len(es)
      /\ Len(es) \in Nat /\ w[Len(es) + 1] = e /\ \A i \in DOMAIN es : w[i] = es[i]
  OBVIOUS
<1> HIDE DEF w
<1>2. \A i \in DOMAIN w : i \in DOMAIN es \/ i = Len(es) + 1
  BY <1>1
<1>3. OneOfEach(w)
  BY <1>1, <1>2 DEF OneOfEach, NoneOf
<1>4. Len(es) + 1 \in DOMAIN w /\ DOMAIN es \subseteq DOMAIN w
  BY <1>1
<1>5. \A type : NoneOf(w, type) <=> NoneOf(es, type) /\ e.type # type
  BY <1>1, <1>2, <1>4 DEF NoneOf
<1>6. QED
  BY <1>1, <1>3, <1>5 DEF w

-----------------------------------------------------------------------------
(* The steps *)

Flags == /\ {visible, m_configured, m_pendingConfigureSerial, mWaitingToApplyConfigure,
             applyPosted, appExposed, needsPaint} \subseteq BOOLEAN
         /\ {mWaitingForFrameCallback, mFrameCallbackTimedOut, frameTimer, frameTimerPosted,
             mWaitingForUpdate, updateRequested, updatePosted, fallbackTimer, queued, mapped,
             frameWanted} \subseteq BOOLEAN
Geometries == /\ geometry \in Sizes /\ mLastExposeGeometry \in Sizes \cup {Null}
              /\ m_pending \in Sizes \cup {Null} /\ exposeEvent \in {"none", "exposed", "hidden"}

LEMMA TypeParts == TypeOK <=> Flags /\ Geometries /\ events \in Seq(Events) /\ Len(events) <= 2
BY DEF TypeOK, Flags, Geometries

\* What a step that leaves the frame callbacks and their events alone keeps.
LEMMA FramesUntouched ==
  ASSUME Inv, Flags', Geometries', UNCHANGED <<frameVars, frameWanted, events>>,
         mWaitingToApplyConfigure' => m_pendingConfigureSerial',
         ~visible' /\ ~mWaitingForFrameCallback => ~mapped'
  PROVE  Inv'
<1>1. events' = events /\ frameWanted' = frameWanted /\ frameTimer' = frameTimer
      /\ mWaitingForFrameCallback' = mWaitingForFrameCallback
      /\ mFrameCallbackTimedOut' = mFrameCallbackTimedOut
  BY DEF frameVars
<1>2. TypeOK'
  BY <1>1 DEF Inv, TypeOK, Flags, Geometries
<1>3. OneAnswer' /\ TimerWaits'
  BY <1>1 DEF Inv, OneAnswer, OneOfEach, NoneOf, TimerWaits
<1>4. WaitsForSomething' /\ HiddenIsUnmapped'
  BY <1>1 DEF Inv, WaitsForSomething, HiddenIsUnmapped
<1>5. QED
  BY <1>2, <1>3, <1>4 DEF Inv

\* A commit asks for a frame callback, and drops the answer to the one before.
LEMMA CommitKeeps ==
  ASSUME Inv, Flags', Geometries', NEW rest \in Seq(Events), OneOfEach(rest), commit(rest),
         mWaitingToApplyConfigure' => m_pendingConfigureSerial'
  PROVE  Inv'
<1>1. /\ mWaitingForFrameCallback' /\ ~frameTimer' /\ frameWanted'
      /\ events' = Undestroyed(rest)
  BY DEF commit
<1>2. events' \in Seq(Events) /\ OneOfEach(events') /\ NoneOf(events', "done")
  BY <1>1, UndestroyedProperties
<1>3. TypeOK'
  BY <1>2, TwoAtMost DEF TypeOK, Flags, Geometries
<1>4. OneAnswer' /\ TimerWaits'
  BY <1>1, <1>2 DEF OneAnswer, OneOfEach, NoneOf, TimerWaits
<1>5. WaitsForSomething' /\ HiddenIsUnmapped'
  BY <1>1 DEF WaitsForSomething, HiddenIsUnmapped
<1>6. QED
  BY <1>3, <1>4, <1>5 DEF Inv

LEMMA AppKeeps == Inv /\ AppNext => Inv'
<1> SUFFICES ASSUME Inv, AppNext PROVE Inv'
  OBVIOUS
<1> USE DEF exposeVars, configVars, postVars, frameVars, updateVars, serverVars
<1>1. Flags /\ Geometries /\ events \in Seq(Events) /\ WaitsForSomething /\ HiddenIsUnmapped
      /\ OneOfEach(events)
  BY TypeParts DEF Inv, OneAnswer
<1>2. CASE requestUpdate
  <2>1. Flags' /\ Geometries'
    BY <1>1, <1>2 DEF requestUpdate, Flags, Geometries
  <2>2. QED
    BY <1>1, <1>2, <2>1, FramesUntouched DEF requestUpdate, WaitsForSomething, HiddenIsUnmapped
<1>3. CASE Show
  <2>1. Flags' /\ Geometries'
    BY <1>1, <1>3 DEF Show, sendExposeEvent, Flags, Geometries
  <2>2. QED
    BY <1>1, <1>3, <2>1, FramesUntouched DEF Show, WaitsForSomething, HiddenIsUnmapped
<1>4. CASE Hide
  <2>1. Flags' /\ Geometries'
    BY <1>1, <1>4 DEF Hide, Flags, Geometries
  <2>2. QED
    BY <1>1, <1>4, <2>1, FramesUntouched DEF Hide, WaitsForSomething, HiddenIsUnmapped
<1>5. CASE HandleExposeEvent
  <2>1. Flags' /\ Geometries'
    BY <1>1, <1>5 DEF HandleExposeEvent, Flags, Geometries
  <2>2. QED
    BY <1>1, <1>5, <2>1, FramesUntouched DEF HandleExposeEvent, WaitsForSomething, HiddenIsUnmapped
<1>6. ASSUME NEW sz \in Sizes, Resize(sz)
      PROVE  Inv'
  <2>1. Flags' /\ Geometries'
    BY <1>1, <1>6 DEF Resize, sendExposeEvent, Flags, Geometries
  <2>2. QED
    BY <1>1, <1>6, <2>1, FramesUntouched DEF Resize, WaitsForSomething, HiddenIsUnmapped
<1>7. CASE Paint
  <2>1. /\ Geometries'
        /\ mWaitingToApplyConfigure' => m_pendingConfigureSerial'
        /\ {m_configured', m_pendingConfigureSerial', mWaitingToApplyConfigure',
            appExposed'} \subseteq BOOLEAN
    <3>1. CASE mWaitingToApplyConfigure
      BY <1>1, <1>7, <3>1 DEF Paint, doApplyConfigure, sendExposeEvent, Flags, Geometries
    <3>2. CASE ~mWaitingToApplyConfigure
      BY <1>1, <1>7, <3>2 DEF Paint, Flags, Geometries
    <3>3. QED
      BY <3>1, <3>2
  <2>2. CASE isExposed /\ commit(events) /\ UNCHANGED queued
    <3>1. Flags'
      BY <1>1, <1>7, <2>1, <2>2 DEF Paint, commit, Flags
    <3>2. QED
      BY <1>1, <2>1, <2>2, <3>1, CommitKeeps
  <2>3. CASE queued' = TRUE /\ UNCHANGED <<frameVars, updateVars, serverVars>>
    <3>1. Flags'
      BY <1>1, <1>7, <2>1, <2>3 DEF Paint, Flags
    <3>2. QED
      BY <1>1, <1>7, <2>1, <2>3, <3>1, FramesUntouched DEF Paint, HiddenIsUnmapped
  <2>4. QED
    BY <1>7, <2>2, <2>3 DEF Paint
<1>8. QED
  BY <1>2, <1>3, <1>4, <1>5, <1>6, <1>7 DEF AppNext

LEMMA LoopKeeps == Inv /\ LoopNext => Inv'
<1> SUFFICES ASSUME Inv, LoopNext PROVE Inv'
  OBVIOUS
<1> USE DEF exposeVars, configVars, postVars, frameVars, updateVars, serverVars
<1>1. Flags /\ Geometries /\ WaitsForSomething /\ HiddenIsUnmapped /\ OneAnswer /\ TimerWaits
      /\ TypeOK
  BY TypeParts DEF Inv
<1>2. CASE ApplyPosted
  <2>1. Geometries' /\ (mWaitingToApplyConfigure' => m_pendingConfigureSerial')
    BY <1>1, <1>2 DEF ApplyPosted, doApplyConfigure, Flags, Geometries, WaitsForSomething
  <2>2. Flags'
    BY <1>1, <1>2 DEF ApplyPosted, doApplyConfigure, Flags, isExposed, ShellExposed
  <2>3. QED
    BY <1>1, <1>2, <2>1, <2>2, FramesUntouched DEF ApplyPosted, HiddenIsUnmapped
<1>3. CASE UpdatePosted
  <2>1. Flags' /\ Geometries'
    BY <1>1, <1>3 DEF UpdatePosted, deliverUpdateRequest, Flags, Geometries
  <2>2. QED
    BY <1>1, <1>3, <2>1, FramesUntouched DEF UpdatePosted, WaitsForSomething, HiddenIsUnmapped
<1>4. CASE FallbackTimeout
  <2>1. Flags' /\ Geometries'
    BY <1>1, <1>4 DEF FallbackTimeout, deliverUpdateRequest, Flags, Geometries
  <2>2. QED
    BY <1>1, <1>4, <2>1, FramesUntouched DEF FallbackTimeout, WaitsForSomething, HiddenIsUnmapped
<1>5. CASE StartFrameTimer
  <2>1. Flags' /\ Geometries'
    BY <1>1, <1>5 DEF StartFrameTimer, Flags, Geometries
  <2>2. /\ events' = events /\ frameWanted' = frameWanted
        /\ mWaitingForFrameCallback' = mWaitingForFrameCallback
        /\ mFrameCallbackTimedOut' = mFrameCallbackTimedOut /\ visible' = visible
        /\ mapped' = mapped /\ mWaitingToApplyConfigure' = mWaitingToApplyConfigure
        /\ m_pendingConfigureSerial' = m_pendingConfigureSerial
        /\ frameTimer' => mWaitingForFrameCallback
    BY <1>1, <1>5 DEF StartFrameTimer, TimerWaits
  <2>3. TypeOK'
    BY <1>1, <2>1, <2>2 DEF TypeOK, Flags, Geometries
  <2>4. OneAnswer' /\ TimerWaits' /\ WaitsForSomething' /\ HiddenIsUnmapped'
    BY <1>1, <2>2 DEF OneAnswer, OneOfEach, NoneOf, TimerWaits, WaitsForSomething,
       HiddenIsUnmapped
  <2>5. QED
    BY <2>3, <2>4 DEF Inv
<1>6. CASE FrameTimeout
  <2>1. Flags' /\ Geometries'
    BY <1>1, <1>6 DEF FrameTimeout, sendExposeEvent, Flags, Geometries
  <2>2. /\ events' = events /\ frameWanted' = frameWanted /\ ~frameTimer'
        /\ mWaitingForFrameCallback' = mWaitingForFrameCallback /\ mWaitingForFrameCallback
        /\ visible' = visible /\ mapped' = mapped
        /\ mWaitingToApplyConfigure' = mWaitingToApplyConfigure
        /\ m_pendingConfigureSerial' = m_pendingConfigureSerial
    BY <1>1, <1>6 DEF FrameTimeout, TimerWaits
  <2>3. TypeOK'
    BY <1>1, <2>1, <2>2 DEF TypeOK, Flags, Geometries
  <2>4. OneAnswer' /\ TimerWaits' /\ WaitsForSomething' /\ HiddenIsUnmapped'
    BY <1>1, <2>2 DEF OneAnswer, OneOfEach, NoneOf, TimerWaits, WaitsForSomething,
       HiddenIsUnmapped
  <2>5. QED
    BY <2>3, <2>4 DEF Inv
<1>7. QED
  BY <1>2, <1>3, <1>4, <1>5, <1>6 DEF LoopNext

\* A dispatched event that is no answer, and what it leaves of the frames.
LEMMA ConfigureTaken ==
  ASSUME Inv, Flags', Geometries', Dispatches("configure"), events' = Tail(events),
         UNCHANGED <<visible, frameVars, mapped, frameWanted>>,
         mWaitingToApplyConfigure' => m_pendingConfigureSerial'
  PROVE  Inv'
<1>1. /\ frameTimer' = frameTimer /\ mWaitingForFrameCallback' = mWaitingForFrameCallback
      /\ mFrameCallbackTimedOut' = mFrameCallbackTimedOut
  BY DEF frameVars
<1>2. events \in Seq(Events) /\ events # <<>> /\ OneOfEach(events) /\ Head(events).type = "configure"
  BY DEF Inv, OneAnswer, TypeOK, Dispatches
<1>3. /\ events' \in Seq(Events) /\ OneOfEach(events')
      /\ NoneOf(events, "done") <=> NoneOf(events', "done")
  BY <1>2, DispatchEvent
<1>4. TypeOK'
  BY <1>3, TwoAtMost DEF TypeOK, Flags, Geometries
<1>5. OneAnswer' /\ TimerWaits'
  BY <1>1, <1>3 DEF Inv, OneAnswer, OneOfEach, NoneOf, TimerWaits
<1>6. WaitsForSomething' /\ HiddenIsUnmapped'
  BY <1>1, <1>3 DEF Inv, NoneOf, WaitsForSomething, HiddenIsUnmapped
<1>7. QED
  BY <1>4, <1>5, <1>6 DEF Inv

LEMMA DispatchKeeps == Inv /\ Dispatch => Inv'
<1> SUFFICES ASSUME Inv, Dispatch PROVE Inv'
  OBVIOUS
<1> USE DEF exposeVars, configVars, postVars, updateVars, serverVars
<1>1. Flags /\ Geometries /\ WaitsForSomething /\ HiddenIsUnmapped /\ OneAnswer
      /\ events \in Seq(Events) /\ OneOfEach(events)
  BY TypeParts DEF Inv, OneAnswer
<1>2. CASE FirstConfigure
  <2>1. Head(events).size \in Sizes \cup {Null}
    BY <1>1, <1>2, DispatchEvent, TypesOfEvents DEF FirstConfigure, Dispatches
  <2>2. Geometries' /\ (mWaitingToApplyConfigure' => m_pendingConfigureSerial')
    BY <1>1, <1>2, <2>1 DEF FirstConfigure, Geometries, WaitsForSomething
  <2>3. CASE queued
    <3>1. Flags' /\ commit(Tail(events))
      BY <1>1, <1>2, <2>3 DEF FirstConfigure, commit, Flags
    <3>2. Tail(events) \in Seq(Events) /\ OneOfEach(Tail(events))
      BY <1>1, <1>2, DispatchEvent DEF FirstConfigure, Dispatches
    <3>3. QED
      BY <2>2, <3>1, <3>2, CommitKeeps
  <2>4. CASE ~queued
    <3>1. Flags'
      BY <1>1, <1>2, <2>4 DEF FirstConfigure, Flags, frameVars
    <3>2. /\ Dispatches("configure") /\ events' = Tail(events)
          /\ UNCHANGED <<visible, frameVars, mapped, frameWanted>>
      BY <1>2, <2>4 DEF FirstConfigure
    <3>3. QED
      BY <2>2, <3>1, <3>2, ConfigureTaken
  <2>5. QED
    BY <2>3, <2>4
<1>3. CASE LaterConfigure
  <2>1. Head(events).size \in Sizes \cup {Null}
    BY <1>1, <1>3, DispatchEvent, TypesOfEvents DEF LaterConfigure, Dispatches
  <2>2. Geometries' /\ (mWaitingToApplyConfigure' => m_pendingConfigureSerial')
    BY <1>1, <1>3, <2>1 DEF LaterConfigure, Geometries
  <2>3. Flags'
    BY <1>1, <1>3 DEF LaterConfigure, Flags, frameVars
  <2>4. /\ Dispatches("configure") /\ events' = Tail(events)
        /\ UNCHANGED <<visible, frameVars, mapped, frameWanted>>
    BY <1>3 DEF LaterConfigure
  <2>5. QED
    BY <2>2, <2>3, <2>4, ConfigureTaken
<1>4. CASE handleFrameCallback
  <2>1. /\ ~mWaitingForFrameCallback' /\ ~mFrameCallbackTimedOut' /\ ~frameTimer'
        /\ events' = Tail(events) /\ frameWanted' = frameWanted /\ visible' = visible
        /\ mapped' = (mapped /\ visible)
        /\ mWaitingToApplyConfigure' = mWaitingToApplyConfigure
        /\ m_pendingConfigureSerial' = m_pendingConfigureSerial
    BY <1>4 DEF handleFrameCallback, MappedUnlessHidden
  <2>2. Geometries'
    BY <1>1, <1>4 DEF handleFrameCallback, sendExposeEvent, Geometries
  <2>3. Flags'
    BY <1>1, <1>4, <2>1 DEF handleFrameCallback, deliverUpdateRequest, sendExposeEvent, Flags
  <2>4. /\ events' \in Seq(Events) /\ OneOfEach(events')
        /\ NoneOf(events, "done") => NoneOf(events', "done")
    BY <1>1, <1>4, <2>1, DispatchEvent DEF handleFrameCallback, Dispatches
  <2>5. TypeOK'
    BY <2>2, <2>3, <2>4, TwoAtMost DEF TypeOK, Flags, Geometries
  <2>6. OneAnswer' /\ TimerWaits'
    BY <1>1, <2>1, <2>4 DEF OneAnswer, OneOfEach, NoneOf, TimerWaits
  <2>7. WaitsForSomething' /\ HiddenIsUnmapped'
    BY <1>1, <2>1 DEF WaitsForSomething, HiddenIsUnmapped
  <2>8. QED
    BY <2>5, <2>6, <2>7 DEF Inv
<1>5. QED
  BY <1>2, <1>3, <1>4 DEF Dispatch

LEMMA ServerKeeps == Inv /\ ServerNext => Inv'
<1> SUFFICES ASSUME Inv, ServerNext PROVE Inv'
  OBVIOUS
<1> USE DEF exposeVars, configVars, postVars, frameVars, updateVars, serverVars
<1>1. Flags /\ Geometries /\ WaitsForSomething /\ HiddenIsUnmapped /\ OneAnswer /\ TimerWaits
      /\ events \in Seq(Events) /\ OneOfEach(events)
  BY TypeParts DEF Inv, OneAnswer
<1>2. ASSUME NEW e \in Events, NoneOf(events, e.type), events' = Append(events, e),
             e.type = "done" => ~frameWanted',
             e.type # "done" => frameWanted' = frameWanted,
             Flags', Geometries',
             UNCHANGED <<visible, frameVars, mapped, mWaitingToApplyConfigure,
                         m_pendingConfigureSerial>>
      PROVE  Inv'
  <2>1. /\ events' \in Seq(Events) /\ OneOfEach(events')
        /\ NoneOf(events', "done") <=> NoneOf(events, "done") /\ e.type # "done"
    BY <1>1, <1>2, SendEvent
  <2>2. TypeOK'
    BY <1>2, <2>1, TwoAtMost DEF TypeOK, Flags, Geometries
  <2>3. OneAnswer' /\ TimerWaits'
    BY <1>1, <1>2, <2>1 DEF OneAnswer, OneOfEach, NoneOf, TimerWaits
  <2>4. WaitsForSomething' /\ HiddenIsUnmapped'
    BY <1>1, <1>2, <2>1 DEF NoneOf, WaitsForSomething, HiddenIsUnmapped
  <2>5. QED
    BY <2>2, <2>3, <2>4 DEF Inv
<1>3. CASE SendDone
  <2>1. Flags' /\ Geometries'
    BY <1>1, <1>3 DEF SendDone, Flags, Geometries
  <2>2. [type |-> "done"] \in Events
    BY DEF Events
  <2>3. NoneOf(events, "done")
    BY <1>1, <1>3 DEF SendDone, OneAnswer
  <2>4. QED
    BY <1>2, <1>3, <2>1, <2>2, <2>3 DEF SendDone
<1>4. ASSUME NEW sz \in Sizes \cup {Null}, SendConfigure(sz)
      PROVE  Inv'
  <2>1. Flags' /\ Geometries'
    BY <1>1, <1>4 DEF SendConfigure, Flags, Geometries
  <2>2. [type |-> "configure", size |-> sz] \in Events
    BY DEF Events
  <2>3. NoneOf(events, "configure")
    BY <1>4 DEF SendConfigure, NoneOf
  <2>4. QED
    BY <1>2, <1>4, <2>1, <2>2, <2>3 DEF SendConfigure
<1>5. QED
  BY <1>3, <1>4 DEF ServerNext

LEMMA InitInv == Init => Inv
<1> SUFFICES ASSUME Init PROVE Inv
  OBVIOUS
<1>1. TypeOK
  <2>1. Flags
    BY DEF Init, Flags
  <2>2. Geometries
    BY DEF Init, Geometries
  <2>3. events \in Seq(Events) /\ Len(events) <= 2
    BY DEF Init
  <2>4. QED
    BY <2>1, <2>2, <2>3, TypeParts
<1>2. OneAnswer /\ TimerWaits /\ WaitsForSomething /\ HiddenIsUnmapped
  BY DEF Init, OneAnswer, OneOfEach, TimerWaits, WaitsForSomething, HiddenIsUnmapped
<1>3. QED
  BY <1>1, <1>2 DEF Inv

LEMMA NextInv == Inv /\ [Next]_vars => Inv'
<1> SUFFICES ASSUME Inv, [Next]_vars PROVE Inv'
  OBVIOUS
<1>1. CASE UNCHANGED vars
  <2>1. UNCHANGED <<visible, geometry, mLastExposeGeometry, m_configured,
          m_pendingConfigureSerial, m_pending, mWaitingToApplyConfigure, applyPosted,
          exposeEvent, appExposed, needsPaint, frameVars, mWaitingForUpdate, updateRequested,
          updatePosted, fallbackTimer, queued, mapped, frameWanted, events>>
    BY <1>1 DEF vars, exposeVars, configVars, postVars, updateVars, serverVars
  <2>2. Flags' /\ Geometries'
    BY <2>1 DEF Inv, TypeOK, Flags, Geometries, frameVars
  <2>3. QED
    BY <2>1, <2>2, FramesUntouched DEF Inv, WaitsForSomething, HiddenIsUnmapped
<1>2. QED
  BY <1>1, AppKeeps, LoopKeeps, DispatchKeeps, ServerKeeps DEF Next

LEMMA InvHolds == Spec => []Inv
BY InitInv, NextInv, PTL DEF Spec

\* Every variable keeps its type; no more than one configure event and one
\* answer wait to be dispatched.
THEOREM TypeCorrect == Spec => []TypeOK
<1>1. Inv => TypeOK
  BY DEF Inv
<1>2. QED
  BY <1>1, InvHolds, PTL

\* A window that a late frame callback made unexposed still awaits it, what it
\* awaits is on its way, and a configure event that waits can be acknowledged.
THEOREM NothingIsAwaitedInVain == Spec => []WaitsForSomething
<1>1. Inv => WaitsForSomething
  BY DEF Inv
<1>2. QED
  BY <1>1, InvHolds, PTL

\* A hidden window that awaits no frame callback has attached the null buffer.
THEOREM HiddenWindowsAreUnmapped == Spec => []HiddenIsUnmapped
<1>1. Inv => HiddenIsUnmapped
  BY DEF Inv
<1>2. QED
  BY <1>1, InvHolds, PTL

-----------------------------------------------------------------------------
(* Text input.  The invariant has one part for each thing the two sides     *)
(* must agree on when nothing is under way: it says which event or request *)
(* that is under way will bring them together.                             *)

TextEvents == [event : {"keyboard", "leave", "enter", "commit", "key", "done"},
               surface : Targets, n : Nat]
TextRequests == [type : {"state", "enable", "disable", "sync"},
                 surface : Targets, text : Text, n : Nat]
Is(event) == {e \in TextEvents : e.event = event}
Of(type) == {r \in TextRequests : r.type = type}

\* The properties of the editor that are reported when it is toggled.
Toggles == \E queries \in {{"enabled"}, {"enabled", "text"}} : Toggle(queries)

TextTypes ==
    /\ focus \in Targets /\ enabled \in Targets /\ window \in Targets /\ current \in Text
    /\ controls \subseteq Surfaces /\ accepts \subseteq Surfaces
    /\ down \in Seq(TextEvents) /\ up \in Seq(TextRequests) /\ posted \in Seq(Targets)
    /\ display \in [active : Seq(Surfaces), last : Targets, syncing : BOOLEAN]
    /\ texts \in [Surfaces -> Text]
    /\ context \in [current : Targets, surface : Targets, resets : Nat, awaits : Nat]
    /\ handled \in Nat /\ left \in [events : 0..MaxEvents, inputs : 0..MaxInputs]

\* No text counts more than was spent: a commit that is under way is spent, and
\* not yet in a text.
Within(text, coming, l) == /\ text.edits + l.inputs <= MaxInputs
                           /\ text.commits + coming + l.events <= MaxEvents
Budget ==
    /\ Within(current, 0, left) /\ \A i \in 1..Len(up) : Within(up[i].text, 0, left)
    /\ \A s \in Surfaces : Within(texts[s], CountOf(down, Is("commit")), left)

\* The resets under way are those after the last that was handled, in their
\* order; an event that confirms a reset comes after the commits that were sent
\* before it was handled, and before the later ones; and while the client awaits
\* a confirmation the reset or its confirmation is under way.
Confirms(e) == e.event = "done" /\ e.n # 0
Renewals(requests, done, sent) ==
    /\ \A i \in 1..Len(requests) :
         requests[i].n # 0 => /\ requests[i].type = "state"
                              /\ done < requests[i].n /\ requests[i].n <= sent
    /\ \A i, j \in 1..Len(requests) :
         i < j /\ requests[i].n # 0 /\ requests[j].n # 0 => requests[i].n < requests[j].n
Answers(es, done) ==
    /\ \A i \in 1..Len(es) : es[i].event \in {"done", "commit"} => es[i].n <= done
    /\ \A i, j \in 1..Len(es) : i < j =>
         /\ Confirms(es[i]) /\ es[j].event = "commit" => es[i].n <= es[j].n
         /\ es[i].event = "commit" /\ Confirms(es[j]) => es[i].n < es[j].n
Awaited(requests, es, n) == \/ \E i \in 1..Len(requests) : requests[i].n = n
                            \/ \E i \in 1..Len(es) : Confirms(es[i]) /\ es[i].n = n
Resets ==
    /\ Renewals(up, handled, context.resets) /\ Answers(down, handled)
    /\ handled <= context.resets /\ context.awaits \in {0, context.resets}
    /\ context.awaits # 0 => Awaited(up, down, context.resets)
    /\ context.awaits = 0 => handled = context.resets
    /\ NoneIsLate

\* The client has the focus of the last event that tells it.
Moves == Is("leave") \cup Is("enter")
InFocus(f) == {e \in TextEvents : e.surface = f}
Arrives(es, kind, now, f) == /\ NoneOfKind(es, kind) => now = f
                             /\ LastOfKind(es, kind, InFocus(f))
LeavesToNone(es) == \A i \in 1..Len(es) : es[i] \in Is("leave") => es[i].surface = None
FocusFollows == Arrives(down, Moves, context.surface, focus) /\ LeavesToNone(down)

SyncWaits(requests, es) == \/ \E i \in 1..Len(requests) : requests[i].type = "sync"
                           \/ \E i \in 1..Len(es) : es[i].event = "done" /\ es[i].n = 0
Activation ==
    /\ Arrives(down, Is("keyboard"), display.last, focus)
    /\ display.active = When(display.last # None, <<display.last>>)
    /\ display.syncing => SyncWaits(up, down)

\* The last request for the input method control is for the current window, and
\* one that enables comes when no surface is enabled.
Controls == Of("enable") \cup Of("disable")
Final(w) == IF w = None THEN Of("disable") ELSE {r \in Of("enable") : r.surface = w}
Alternate(requests, on) ==
    \A i \in 1..Len(requests) : requests[i].type = "enable" =>
      /\ requests[i].surface # None
      /\ \/ on = None /\ \A j \in 1..(i - 1) : requests[j].type # "enable"
         \/ \E j \in 1..(i - 1) : /\ requests[j].type = "disable"
                                  /\ \A k \in (j + 1)..(i - 1) : requests[k].type # "enable"
Switches(requests, on, w) == /\ NoneOfKind(requests, Controls) => on = w
                             /\ LastOfKind(requests, Controls, Final(w))
                             /\ Alternate(requests, on)
ControlsFollow == /\ context.current = (IF window \in accepts THEN window ELSE None)
                  /\ controls = {enabled} \ {None}
                  /\ Switches(up, enabled, context.current)

\* Once the text was reported, the last state sent is it, and if none is under way the
\* compositor has it, unless a commit is that the editor will take.
Linked == /\ window # None /\ window = context.surface /\ window = focus /\ ~unreported
          /\ NoneOfKind(down, Moves)
Lasting(text) == {r \in TextRequests : r.text = text}
Accepting(n) == {e \in Is("commit") : e.n = n}
Reported == /\ LastOfKind(up, Of("state"), Lasting(texts[window]))
            /\ NoneOfKind(up, Of("state")) /\ NoneOfKind(down, Accepting(context.resets))
                 => current = texts[window]
TextFollows == Linked => Reported

TextInv == TextTypes /\ Budget /\ Resets /\ FocusFollows /\ Activation /\ ControlsFollow
           /\ TextFollows

-----------------------------------------------------------------------------
(* Queues of requests and events *)

\* A queue of one.
LEMMA KindsOfOne ==
  ASSUME NEW x, NEW kind, NEW wanted
  PROVE  /\ NoneOfKind(<<>>, kind)
         /\ NoneOfKind(<<x>>, kind) <=> x \notin kind
         /\ (x \in kind => x \in wanted) => LastOfKind(<<x>>, kind, wanted)
BY DEF NoneOfKind, LastOfKind

\* An event that is made has the fields it is made of.
LEMMA EventType ==
  ASSUME NEW event \in {"keyboard", "leave", "enter", "commit", "key", "done"},
         NEW s \in Targets, NEW n \in Nat
  PROVE  /\ Event(event, s, n) \in TextEvents /\ Event(event, s, n) \in Is(event)
         /\ Event(event, s, n).event = event /\ Event(event, s, n).surface = s
         /\ Event(event, s, n).n = n
BY DEF Event, TextEvents, Is

\* So has a request.
LEMMA RequestType ==
  ASSUME NEW type \in {"state", "enable", "disable", "sync"},
         NEW s \in Targets, NEW t \in Text, NEW n \in Nat
  PROVE  /\ Request(type, s, t, n) \in TextRequests /\ Request(type, s, t, n) \in Of(type)
         /\ Request(type, s, t, n).type = type /\ Request(type, s, t, n).surface = s
         /\ Request(type, s, t, n).text = t /\ Request(type, s, t, n).n = n
BY DEF Request, TextRequests, Of

\* The fields of an event are in their ranges.
LEMMA EventFields ==
  ASSUME NEW e \in TextEvents
  PROVE  e.event \in {"keyboard", "leave", "enter", "commit", "key", "done"}
         /\ e.surface \in Targets /\ e.n \in Nat
BY DEF TextEvents

\* So are those of a request.
LEMMA RequestFields ==
  ASSUME NEW r \in TextRequests
  PROVE  r.type \in {"state", "enable", "disable", "sync"}
         /\ r.surface \in Targets /\ r.text \in Text /\ r.n \in Nat
BY DEF TextRequests

\* No text and no surface are a text and a target.
LEMMA BlankType == Blank \in Text /\ None \in Targets /\ Surfaces \subseteq Targets
BY BoundsAreNumbers DEF Blank, Text, Targets

-----------------------------------------------------------------------------
(* Resets and their confirmations *)

Unnumbered(requests) == \A i \in 1..Len(requests) : requests[i].n = 0

\* When the compositor takes a reset, those behind it are newer.
LEMMA RenewalsReceived ==
  ASSUME NEW rs \in Seq(TextRequests), rs # <<>>, NEW done \in Nat, NEW sent \in Nat,
         Renewals(rs, done, sent)
  PROVE  /\ Head(rs).n = 0 => Renewals(Tail(rs), done, sent)
         /\ Head(rs).n # 0 => /\ Renewals(Tail(rs), Head(rs).n, sent)
                              /\ Head(rs).type = "state" /\ done < Head(rs).n
                              /\ Head(rs).n <= sent
<1> DEFINE w == Tail(rs)
<1>1. /\ Head(rs) = rs[1] /\ w \in Seq(TextRequests) /\ Len(rs) \in Nat /\ Len(rs) > 0
      /\ Len(w) = Len(rs) - 1 /\ \A i \in 1..(Len(rs) - 1) : w[i] = rs[i + 1]
  BY Received
<1> HIDE DEF w
<1>2. \A i \in 1..Len(w) : i + 1 \in 1..Len(rs) /\ i + 1 # 1 /\ w[i] = rs[i + 1]
  BY <1>1
<1>3. 1 \in 1..Len(rs) /\ \A i \in 1..Len(w) : 1 < i + 1
  BY <1>1
<1>4. \A i, j \in 1..Len(w) : i < j => i + 1 < j + 1
  OBVIOUS
<1>5. Head(rs).n # 0 => Head(rs).type = "state" /\ done < Head(rs).n /\ Head(rs).n <= sent
  BY <1>1, <1>3 DEF Renewals
<1>6. Head(rs).n = 0 => Renewals(w, done, sent)
  BY <1>1, <1>2, <1>4 DEF Renewals
<1>7. Head(rs).n # 0 => Renewals(w, Head(rs).n, sent)
  BY <1>1, <1>2, <1>3, <1>4 DEF Renewals
<1>8. QED
  BY <1>5, <1>6, <1>7 DEF w

\* A request without a number renews nothing.
LEMMA RenewalsSent ==
  ASSUME NEW rs \in Seq(TextRequests), NEW new \in Seq(TextRequests), Unnumbered(new),
         NEW done \in Nat, NEW sent \in Nat, Renewals(rs, done, sent)
  PROVE  Renewals(rs \o new, done, sent)
<1> DEFINE w == rs \o new
<1>1. /\ Len(rs) \in Nat /\ Len(new) \in Nat /\ Len(w) = Len(rs) + Len(new)
      /\ \A i \in 1..(Len(rs) + Len(new)) :
           \/ i \in 1..Len(rs) /\ w[i] = rs[i]
           \/ i - Len(rs) \in 1..Len(new) /\ w[i] = new[i - Len(rs)]
  BY Sent
<1> HIDE DEF w
<1>2. \A i \in 1..Len(w) : w[i].n # 0 => i \in 1..Len(rs) /\ w[i] = rs[i]
  BY <1>1 DEF Unnumbered
<1>3. QED
  BY <1>2 DEF Renewals, w

\* The next reset is the newest.
LEMMA RenewalsRenewed ==
  ASSUME NEW rs \in Seq(TextRequests), NEW done \in Nat, NEW sent \in Nat, done <= sent,
         NEW r \in TextRequests, r.type = "state", r.n = sent + 1, Renewals(rs, done, sent)
  PROVE  Renewals(rs \o <<r>>, done, sent + 1)
<1> DEFINE w == rs \o <<r>>
<1>1. /\ Len(rs) \in Nat /\ Len(w) = Len(rs) + 1 /\ w[Len(rs) + 1] = r
      /\ \A i \in 1..Len(rs) : w[i] = rs[i]
  OBVIOUS
<1>2. \A i \in 1..Len(rs) : rs[i].n \in Nat
  <2>1. \A i \in 1..Len(rs) : rs[i] \in TextRequests
    OBVIOUS
  <2>2. QED
    BY <2>1, RequestFields
<1> HIDE DEF w
<1>3. \A i \in 1..Len(w) : (i \in 1..Len(rs) /\ w[i] = rs[i]) \/ (i = Len(rs) + 1 /\ w[i] = r)
  BY <1>1
<1>4. \A i \in 1..Len(rs) : rs[i].n # 0 => rs[i].type = "state" /\ done < rs[i].n
                                            /\ rs[i].n <= sent + 1 /\ rs[i].n < sent + 1
  BY <1>2 DEF Renewals
<1>5. done < sent + 1 /\ sent + 1 <= sent + 1
  OBVIOUS
<1>6. \A i, j \in 1..Len(w) : i < j => i \in 1..Len(rs) /\ w[i] = rs[i]
  BY <1>1
<1>7. QED
  BY <1>3, <1>4, <1>5, <1>6 DEF Renewals, w

\* When the client takes a confirmation, the commits behind it are not older.
LEMMA AnswersReceived ==
  ASSUME NEW es \in Seq(TextEvents), es # <<>>, NEW done \in Nat, Answers(es, done)
  PROVE  /\ Answers(Tail(es), done)
         /\ Head(es).event \in {"done", "commit"} => Head(es).n <= done
         /\ \A i \in 1..Len(Tail(es)) :
              /\ Confirms(Head(es)) /\ Tail(es)[i].event = "commit" => Head(es).n <= Tail(es)[i].n
              /\ Head(es).event = "commit" /\ Confirms(Tail(es)[i]) => Head(es).n < Tail(es)[i].n
<1> DEFINE w == Tail(es)
<1>1. /\ Head(es) = es[1] /\ Len(es) \in Nat /\ Len(es) > 0
      /\ Len(w) = Len(es) - 1 /\ \A i \in 1..(Len(es) - 1) : w[i] = es[i + 1]
  BY Received
<1> HIDE DEF w
<1>2. \A i \in 1..Len(w) : i + 1 \in 1..Len(es) /\ 1 < i + 1 /\ w[i] = es[i + 1]
  BY <1>1
<1>3. 1 \in 1..Len(es)
  BY <1>1
<1>4. \A i, j \in 1..Len(w) : i < j => i + 1 < j + 1
  OBVIOUS
<1>5. Answers(w, done)
  BY <1>2, <1>4 DEF Answers
<1>6. QED
  BY <1>1, <1>2, <1>3, <1>5 DEF Answers, w

Unanswering(es) == \A i \in 1..Len(es) : ~Confirms(es[i]) /\ es[i].event # "commit"

\* An event that is neither a commit nor a confirmation changes no order.
LEMMA AnswersSent ==
  ASSUME NEW es \in Seq(TextEvents), NEW new \in Seq(TextEvents), Unanswering(new),
         NEW done \in Nat, Answers(es, done)
  PROVE  Answers(es \o new, done)
<1> DEFINE w == es \o new
<1>1. /\ Len(es) \in Nat /\ Len(new) \in Nat /\ Len(w) = Len(es) + Len(new)
      /\ \A i \in 1..(Len(es) + Len(new)) :
           \/ i \in 1..Len(es) /\ w[i] = es[i]
           \/ i - Len(es) \in 1..Len(new) /\ w[i] = new[i - Len(es)]
  BY Sent
<1> HIDE DEF w
<1>2. \A i \in 1..Len(w) : \/ i \in 1..Len(es) /\ w[i] = es[i]
                           \/ ~Confirms(w[i]) /\ w[i].event # "commit"
  BY <1>1 DEF Unanswering
<1>3. \A i \in 1..Len(w) : w[i].event \in {"done", "commit"} => w[i].n <= done
  BY <1>2 DEF Answers, Confirms
<1>4. QED
  BY <1>2, <1>3 DEF Answers, w

\* A commit, or the confirmation of a later reset.
LEMMA AnswersAnswered ==
  ASSUME NEW es \in Seq(TextEvents), NEW done \in Nat, Answers(es, done),
         NEW e \in TextEvents,
         \/ e.event = "commit" /\ e.n = done
         \/ e.event = "done" /\ done < e.n
  PROVE  Answers(es \o <<e>>, e.n)
<1> DEFINE w == es \o <<e>>
<1>1. /\ Len(es) \in Nat /\ Len(w) = Len(es) + 1 /\ w[Len(es) + 1] = e
      /\ \A i \in 1..Len(es) : w[i] = es[i]
  OBVIOUS
<1>2. \A i \in 1..Len(es) : es[i].n \in Nat
  <2>1. \A i \in 1..Len(es) : es[i] \in TextEvents
    OBVIOUS
  <2>2. QED
    BY <2>1, EventFields
<1>3. e.n \in Nat /\ done <= e.n
  BY EventFields
<1> HIDE DEF w
<1>4. \A i \in 1..Len(w) : (i \in 1..Len(es) /\ w[i] = es[i]) \/ (i = Len(es) + 1 /\ w[i] = e)
  BY <1>1
<1>5. \A i, j \in 1..Len(w) : i < j => i \in 1..Len(es) /\ w[i] = es[i]
  BY <1>1
<1>6. \A i \in 1..Len(es) : es[i].event \in {"done", "commit"} =>
                              es[i].n <= e.n /\ (e.event = "done" => es[i].n < e.n)
  BY <1>2, <1>3 DEF Answers
<1>7. \A i \in 1..Len(w) : w[i].event \in {"done", "commit"} => w[i].n <= e.n
  BY <1>3, <1>4, <1>6
<1>8. ASSUME NEW i \in 1..Len(w), NEW j \in 1..Len(w), i < j
      PROVE  /\ Confirms(w[i]) /\ w[j].event = "commit" => w[i].n <= w[j].n
             /\ w[i].event = "commit" /\ Confirms(w[j]) => w[i].n < w[j].n
  BY <1>4, <1>5, <1>6, <1>8 DEF Answers, Confirms
<1>9. QED
  BY <1>7, <1>8 DEF Answers, w

\* What is awaited stays under way when more is sent,
LEMMA AwaitedSent ==
  ASSUME NEW rs \in Seq(TextRequests), NEW es \in Seq(TextEvents), NEW n,
         NEW more \in Seq(TextRequests), NEW new \in Seq(TextEvents), Awaited(rs, es, n)
  PROVE  Awaited(rs \o more, es, n) /\ Awaited(rs, es \o new, n)
<1>1. \A i \in 1..Len(rs) : i \in 1..Len(rs \o more) /\ (rs \o more)[i] = rs[i]
  BY Sent
<1>2. \A i \in 1..Len(es) : i \in 1..Len(es \o new) /\ (es \o new)[i] = es[i]
  BY Sent
<1>3. QED
  BY <1>1, <1>2 DEF Awaited

\* and when something else is taken.
LEMMA AwaitedReceived ==
  ASSUME NEW rs \in Seq(TextRequests), NEW es \in Seq(TextEvents), NEW n, Awaited(rs, es, n)
  PROVE  /\ rs # <<>> /\ Head(rs).n # n => Awaited(Tail(rs), es, n)
         /\ es # <<>> /\ (~Confirms(Head(es)) \/ Head(es).n # n) => Awaited(rs, Tail(es), n)
<1>1. ASSUME rs # <<>>
      PROVE  \A i \in 1..Len(rs) : \/ rs[i] = Head(rs)
                                   \/ i - 1 \in 1..Len(Tail(rs)) /\ Tail(rs)[i - 1] = rs[i]
  BY <1>1
<1>2. ASSUME es # <<>>
      PROVE  \A i \in 1..Len(es) : \/ es[i] = Head(es)
                                   \/ i - 1 \in 1..Len(Tail(es)) /\ Tail(es)[i - 1] = es[i]
  BY <1>2
<1>3. QED
  BY <1>1, <1>2 DEF Awaited

-----------------------------------------------------------------------------
(* The focus that arrives *)

\* The focus that arrives last is the same when an event is taken.
LEMMA ArrivesReceived ==
  ASSUME NEW es \in Seq(TextEvents), es # <<>>, NEW kind, NEW now, NEW f,
         Arrives(es, kind, now, f)
  PROVE  /\ Head(es) \in kind => Arrives(Tail(es), kind, Head(es).surface, f)
         /\ Head(es) \notin kind => Arrives(Tail(es), kind, now, f)
<1>1. /\ NoneOfKind(es, kind) <=> NoneOfKind(Tail(es), kind) /\ Head(es) \notin kind
      /\ LastOfKind(Tail(es), kind, InFocus(f))
      /\ NoneOfKind(Tail(es), kind) /\ Head(es) \in kind => Head(es) \in InFocus(f)
  BY KindsReceived DEF Arrives
<1>2. QED
  BY <1>1 DEF Arrives, InFocus

\* The last event that moves the focus decides.
LEMMA ArrivesSent ==
  ASSUME NEW es \in Seq(TextEvents), NEW new \in Seq(TextEvents), NEW kind, NEW now, NEW f,
         Arrives(es, kind, now, f)
  PROVE  /\ NoneOfKind(new, kind) => Arrives(es \o new, kind, now, f)
         /\ \A g : Arrives(new, kind, now, g) /\ ~NoneOfKind(new, kind)
                     => Arrives(es \o new, kind, now, g)
<1>1. NoneOfKind(es \o new, kind) <=> NoneOfKind(es, kind) /\ NoneOfKind(new, kind)
  BY KindsSent
<1>2. NoneOfKind(new, kind) => LastOfKind(es \o new, kind, InFocus(f))
  BY KindsSent DEF Arrives
<1>3. ASSUME NEW g, LastOfKind(new, kind, InFocus(g)), ~NoneOfKind(new, kind)
      PROVE  LastOfKind(es \o new, kind, InFocus(g))
  BY <1>3, KindsSent
<1>4. QED
  BY <1>1, <1>2, <1>3 DEF Arrives

\* A leave names no surface, whatever is sent and taken.
LEMMA LeavesKept ==
  ASSUME NEW es \in Seq(TextEvents), NEW new \in Seq(TextEvents), LeavesToNone(es)
  PROVE  /\ LeavesToNone(new) => LeavesToNone(es \o new)
         /\ es # <<>> => /\ LeavesToNone(Tail(es))
                         /\ Head(es) \in Is("leave") => Head(es).surface = None
<1>1. \A i \in 1..Len(es \o new) :
        \/ i \in 1..Len(es) /\ (es \o new)[i] = es[i]
        \/ i - Len(es) \in 1..Len(new) /\ (es \o new)[i] = new[i - Len(es)]
  BY Sent
<1>2. es # <<>> => /\ 1 \in 1..Len(es) /\ Head(es) = es[1]
                   /\ \A i \in 1..Len(Tail(es)) : i + 1 \in 1..Len(es) /\ Tail(es)[i] = es[i + 1]
  OBVIOUS
<1>3. QED
  BY <1>1, <1>2 DEF LeavesToNone

\* A sync stays under way until its answer is taken.
LEMMA SyncWaitsOn ==
  ASSUME NEW rs \in Seq(TextRequests), NEW es \in Seq(TextEvents),
         NEW more \in Seq(TextRequests), NEW new \in Seq(TextEvents), SyncWaits(rs, es)
  PROVE  /\ SyncWaits(rs \o more, es) /\ SyncWaits(rs, es \o new)
         /\ rs # <<>> /\ Head(rs).type # "sync" => SyncWaits(Tail(rs), es)
         /\ es # <<>> /\ ~(Head(es).event = "done" /\ Head(es).n = 0) => SyncWaits(rs, Tail(es))
<1>1. \A i \in 1..Len(rs) : i \in 1..Len(rs \o more) /\ (rs \o more)[i] = rs[i]
  BY Sent
<1>2. \A i \in 1..Len(es) : i \in 1..Len(es \o new) /\ (es \o new)[i] = es[i]
  BY Sent
<1>3. ASSUME rs # <<>>
      PROVE  \A i \in 1..Len(rs) : \/ rs[i] = Head(rs)
                                   \/ i - 1 \in 1..Len(Tail(rs)) /\ Tail(rs)[i - 1] = rs[i]
  BY <1>3
<1>4. ASSUME es # <<>>
      PROVE  \A i \in 1..Len(es) : \/ es[i] = Head(es)
                                   \/ i - 1 \in 1..Len(Tail(es)) /\ Tail(es)[i - 1] = es[i]
  BY <1>4
<1>5. QED
  BY <1>1, <1>2, <1>3, <1>4 DEF SyncWaits

-----------------------------------------------------------------------------
(* The requests for the input method control *)

\* A state or a sync switches nothing.
LEMMA SwitchesSent ==
  ASSUME NEW rs \in Seq(TextRequests), NEW new \in Seq(TextRequests), NEW on, NEW w,
         Switches(rs, on, w), NoneOfKind(new, Controls)
  PROVE  Switches(rs \o new, on, w)
<1> DEFINE all == rs \o new
<1>1. /\ Len(rs) \in Nat /\ Len(new) \in Nat
      /\ \A i \in 1..Len(rs) : all[i] = rs[i]
      /\ \A i \in 1..Len(all) : \/ i \in 1..Len(rs) /\ all[i] = rs[i]
                                \/ i - Len(rs) \in 1..Len(new) /\ all[i] = new[i - Len(rs)]
  BY Sent
<1> HIDE DEF all
<1>2. NoneOfKind(all, Controls) <=> NoneOfKind(rs, Controls)
  BY KindsSent DEF all
<1>3. LastOfKind(all, Controls, Final(w))
  BY KindsSent DEF Switches, all
<1>4. \A i \in 1..Len(new) : new[i].type # "enable"
  <2>1. \A i \in 1..Len(new) : new[i] \in TextRequests
    OBVIOUS
  <2>2. QED
    BY <2>1 DEF NoneOfKind, Controls, Of
<1>5. ASSUME NEW i \in 1..Len(all), all[i].type = "enable"
      PROVE  /\ all[i].surface # None
             /\ \/ on = None /\ \A j \in 1..(i - 1) : all[j].type # "enable"
                \/ \E j \in 1..(i - 1) : /\ all[j].type = "disable"
                                         /\ \A k \in (j + 1)..(i - 1) : all[k].type # "enable"
  <2>1. i \in 1..Len(rs) /\ all[i] = rs[i]
    BY <1>1, <1>4, <1>5
  <2>2. \A j \in 1..(i - 1) : j \in 1..Len(rs) /\ all[j] = rs[j]
    BY <1>1, <2>1
  <2>3. \A j \in 1..(i - 1) : \A k \in (j + 1)..(i - 1) : k \in 1..(i - 1)
    OBVIOUS
  <2>4. /\ rs[i].surface # None
        /\ \/ on = None /\ \A j \in 1..(i - 1) : rs[j].type # "enable"
           \/ \E j \in 1..(i - 1) : /\ rs[j].type = "disable"
                                    /\ \A k \in (j + 1)..(i - 1) : rs[k].type # "enable"
    BY <1>5, <2>1 DEF Switches, Alternate
  <2>5. QED
    BY <2>1, <2>2, <2>3, <2>4
<1>6. QED
  BY <1>2, <1>3, <1>5 DEF Switches, Alternate, all

\* After a request that disables nothing will be enabled.
LEMMA SwitchesDisabled ==
  ASSUME NEW rs \in Seq(TextRequests), NEW r \in Of("disable"), NEW on, NEW w,
         Switches(rs, on, w)
  PROVE  Switches(rs \o <<r>>, on, None)
<1> DEFINE all == rs \o <<r>>
<1>1. /\ Len(rs) \in Nat /\ Len(all) = Len(rs) + 1 /\ all[Len(rs) + 1] = r
      /\ \A i \in 1..Len(rs) : all[i] = rs[i] /\ <<r>> \in Seq(TextRequests)
  BY DEF Of
<1>2. <<r>> \in Seq(TextRequests) /\ r.type # "enable"
  BY DEF Of
<1> HIDE DEF all
<1>3. ~NoneOfKind(<<r>>, Controls) /\ LastOfKind(<<r>>, Controls, Final(None))
  BY KindsOfOne DEF Controls, Final
<1>4. ~NoneOfKind(all, Controls) /\ LastOfKind(all, Controls, Final(None))
  BY <1>2, <1>3, KindsSent DEF all
<1>5. ASSUME NEW i \in 1..Len(all), all[i].type = "enable"
      PROVE  /\ all[i].surface # None
             /\ \/ on = None /\ \A j \in 1..(i - 1) : all[j].type # "enable"
                \/ \E j \in 1..(i - 1) : /\ all[j].type = "disable"
                                         /\ \A k \in (j + 1)..(i - 1) : all[k].type # "enable"
  <2>1. i \in 1..Len(rs) /\ all[i] = rs[i]
    BY <1>1, <1>2, <1>5
  <2>2. \A j \in 1..(i - 1) : j \in 1..Len(rs) /\ all[j] = rs[j]
    BY <1>1, <2>1
  <2>3. \A j \in 1..(i - 1) : \A k \in (j + 1)..(i - 1) : k \in 1..(i - 1)
    OBVIOUS
  <2>4. /\ rs[i].surface # None
        /\ \/ on = None /\ \A j \in 1..(i - 1) : rs[j].type # "enable"
           \/ \E j \in 1..(i - 1) : /\ rs[j].type = "disable"
                                    /\ \A k \in (j + 1)..(i - 1) : rs[k].type # "enable"
    BY <1>5, <2>1 DEF Switches, Alternate
  <2>5. QED
    BY <2>1, <2>2, <2>3, <2>4
<1>6. QED
  BY <1>4, <1>5 DEF Switches, Alternate, all

\* What is enabled after it was disabled, or for the first time.
LEMMA SwitchesEnabled ==
  ASSUME NEW rs \in Seq(TextRequests), NEW r \in Of("enable"), r.surface # None, NEW on,
         Switches(rs, on, None)
  PROVE  Switches(rs \o <<r>>, on, r.surface)
<1> DEFINE all == rs \o <<r>>
<1>1. /\ Len(rs) \in Nat /\ Len(all) = Len(rs) + 1 /\ all[Len(rs) + 1] = r
      /\ \A i \in 1..Len(rs) : all[i] = rs[i] /\ <<r>> \in Seq(TextRequests)
  BY DEF Of
<1>2. <<r>> \in Seq(TextRequests) /\ r.type = "enable"
  BY DEF Of
<1> HIDE DEF all
<1>3. ~NoneOfKind(<<r>>, Controls) /\ LastOfKind(<<r>>, Controls, Final(r.surface))
  <2>1. r \in Controls /\ r \in Final(r.surface)
    BY DEF Controls, Final
  <2>2. QED
    BY <2>1, KindsOfOne
<1>4. ~NoneOfKind(all, Controls) /\ LastOfKind(all, Controls, Final(r.surface))
  BY <1>2, <1>3, KindsSent DEF all
<1>5. ASSUME NEW i \in 1..Len(rs), rs[i].type = "enable"
      PROVE  /\ all[i].surface # None
             /\ \/ on = None /\ \A j \in 1..(i - 1) : all[j].type # "enable"
                \/ \E j \in 1..(i - 1) : /\ all[j].type = "disable"
                                         /\ \A k \in (j + 1)..(i - 1) : all[k].type # "enable"
  <2>1. \A j \in 1..(i - 1) : j \in 1..Len(rs) /\ all[j] = rs[j]
    BY <1>1
  <2>2. \A j \in 1..(i - 1) : \A k \in (j + 1)..(i - 1) : k \in 1..(i - 1)
    OBVIOUS
  <2>3. /\ rs[i].surface # None
        /\ \/ on = None /\ \A j \in 1..(i - 1) : rs[j].type # "enable"
           \/ \E j \in 1..(i - 1) : /\ rs[j].type = "disable"
                                    /\ \A k \in (j + 1)..(i - 1) : rs[k].type # "enable"
    BY <1>5 DEF Switches, Alternate
  <2>4. QED
    BY <1>1, <2>1, <2>2, <2>3
<1>6. \A i \in 1..Len(rs) : rs[i] \in TextRequests
  OBVIOUS
<1>7. \/ on = None /\ \A j \in 1..Len(rs) : all[j].type # "enable"
      \/ \E j \in 1..Len(rs) : /\ all[j].type = "disable"
                               /\ \A k \in (j + 1)..Len(rs) : all[k].type # "enable"
  <2>1. CASE NoneOfKind(rs, Controls)
    BY <1>1, <1>6, <2>1 DEF Switches, NoneOfKind, Controls, Of
  <2>2. CASE ~NoneOfKind(rs, Controls)
    <3>1. PICK j \in 1..Len(rs) :
            rs[j] \in Controls /\ \A k \in (j + 1)..Len(rs) : rs[k] \notin Controls
      BY <2>2, LastPlace
    <3>2. rs[j] \in Of("disable")
      BY <3>1 DEF Switches, LastOfKind, Final
    <3>3. \A k \in (j + 1)..Len(rs) : k \in 1..Len(rs)
      OBVIOUS
    <3>4. \A k \in (j + 1)..Len(rs) : all[k].type # "enable"
      BY <1>1, <1>6, <3>1, <3>3 DEF Controls, Of
    <3>5. QED
      BY <1>1, <3>2, <3>4 DEF Of
  <2>3. QED
    BY <2>1, <2>2
<1>8. \A i \in 1..Len(all) : i \in 1..Len(rs) \/ (i = Len(rs) + 1 /\ i - 1 = Len(rs))
  BY <1>1
<1>9. Alternate(all, on)
  <2> SUFFICES ASSUME NEW i \in 1..Len(all), all[i].type = "enable"
               PROVE  /\ all[i].surface # None
                      /\ \/ on = None /\ \A j \in 1..(i - 1) : all[j].type # "enable"
                         \/ \E j \in 1..(i - 1) :
                              /\ all[j].type = "disable"
                              /\ \A k \in (j + 1)..(i - 1) : all[k].type # "enable"
    BY DEF Alternate
  <2>1. CASE i \in 1..Len(rs)
    BY <1>1, <1>5, <2>1
  <2>2. CASE i = Len(rs) + 1 /\ i - 1 = Len(rs)
    BY <1>1, <1>7, <2>2
  <2>3. QED
    BY <1>8, <2>1, <2>2
<1>10. QED
  BY <1>4, <1>9 DEF Switches, all

\* The compositor enables only when nothing is enabled.
LEMMA SwitchesReceived ==
  ASSUME NEW rs \in Seq(TextRequests), rs # <<>>, NEW on, NEW w, Switches(rs, on, w)
  PROVE  /\ Head(rs).type = "enable" => /\ on = None /\ Head(rs).surface # None
                                        /\ Switches(Tail(rs), Head(rs).surface, w)
         /\ Head(rs).type = "disable" => Switches(Tail(rs), None, w)
         /\ Head(rs).type \notin {"enable", "disable"} => Switches(Tail(rs), on, w)
<1> DEFINE rest == Tail(rs)
           Earlier(i) == \E j \in 1..(i - 1) :
                           /\ rs[j].type = "disable"
                           /\ \A k \in (j + 1)..(i - 1) : rs[k].type # "enable"
           EarlierLeft(i) == \E j \in 1..(i - 1) :
                               /\ rest[j].type = "disable"
                               /\ \A k \in (j + 1)..(i - 1) : rest[k].type # "enable"
<1>1. /\ Head(rs) = rs[1] /\ Len(rs) \in Nat /\ Len(rs) > 0 /\ Head(rs) \in TextRequests
      /\ Len(rest) = Len(rs) - 1 /\ \A i \in 1..(Len(rs) - 1) : rest[i] = rs[i + 1]
  BY Received
<1>2. /\ NoneOfKind(rs, Controls) <=> NoneOfKind(rest, Controls) /\ Head(rs) \notin Controls
      /\ LastOfKind(rest, Controls, Final(w))
      /\ NoneOfKind(rest, Controls) /\ Head(rs) \in Controls => Head(rs) \in Final(w)
  BY KindsReceived DEF Switches
<1> HIDE DEF rest
<1>3. \A i \in 1..Len(rest) : i + 1 \in 1..Len(rs) /\ rest[i] = rs[i + 1]
                              /\ 1 \in 1..((i + 1) - 1)
  BY <1>1
<1>4. \A i \in 1..Len(rs) : rs[i].type = "enable" =>
        /\ rs[i].surface # None
        /\ \/ on = None /\ \A j \in 1..(i - 1) : rs[j].type # "enable"
           \/ Earlier(i)
  BY DEF Switches, Alternate
<1>5. ASSUME NEW i \in 1..Len(rest), NEW j \in 1..((i + 1) - 1), j # 1, rs[j].type = "disable",
             \A k \in (j + 1)..((i + 1) - 1) : rs[k].type # "enable"
      PROVE  EarlierLeft(i)
  <2>1. j - 1 \in 1..(i - 1) /\ rest[j - 1] = rs[j]
    BY <1>1, <1>5
  <2>2. \A k \in ((j - 1) + 1)..(i - 1) : k + 1 \in (j + 1)..((i + 1) - 1) /\ rest[k] = rs[k + 1]
    BY <1>1, <1>5
  <2>3. QED
    BY <1>5, <2>1, <2>2
<1>6. ASSUME NEW i \in 1..Len(rest), \A k \in (1 + 1)..((i + 1) - 1) : rs[k].type # "enable"
      PROVE  \A j \in 1..(i - 1) : rest[j].type # "enable"
  <2>1. \A j \in 1..(i - 1) : j + 1 \in (1 + 1)..((i + 1) - 1) /\ rest[j] = rs[j + 1]
    BY <1>1
  <2>2. QED
    BY <1>6, <2>1
<1>7. \A i \in 1..Len(rest) : \A k \in (1 + 1)..((i + 1) - 1) : k \in 1..((i + 1) - 1)
  OBVIOUS
<1>8. ASSUME Head(rs).type # "disable"
      PROVE  \A i \in 1..Len(rest) : Earlier(i + 1) => EarlierLeft(i)
  BY <1>1, <1>5, <1>8
<1>9. \A i \in 1..Len(rest) : Earlier(i + 1) =>
        EarlierLeft(i) \/ \A j \in 1..(i - 1) : rest[j].type # "enable"
  BY <1>5, <1>6
<1> HIDE DEF Earlier
<1>10. ASSUME Head(rs).type = "enable"
       PROVE  /\ on = None /\ Head(rs).surface # None
              /\ Switches(rest, Head(rs).surface, w)
  <2>1. 1 \in 1..Len(rs) /\ ~Earlier(1)
    BY <1>1 DEF Earlier
  <2>2. on = None /\ Head(rs).surface # None
    BY <1>1, <1>4, <1>10, <2>1
  <2>3. \A i \in 1..Len(rest) : rest[i].type = "enable" =>
          rest[i].surface # None /\ EarlierLeft(i)
    BY <1>1, <1>3, <1>4, <1>8, <1>10
  <2>4. NoneOfKind(rest, Controls) => Head(rs).surface = w
    BY <1>1, <1>2, <1>10 DEF Controls, Of, Final
  <2>5. QED
    BY <1>2, <2>2, <2>3, <2>4 DEF Switches, Alternate
<1>11. ASSUME Head(rs).type = "disable"
       PROVE  Switches(rest, None, w)
  <2>1. \A i \in 1..Len(rest) : rest[i].type = "enable" =>
          /\ rest[i].surface # None
          /\ EarlierLeft(i) \/ \A j \in 1..(i - 1) : rest[j].type # "enable"
    BY <1>3, <1>4, <1>6, <1>7, <1>9
  <2>2. NoneOfKind(rest, Controls) => None = w
    BY <1>1, <1>2, <1>11 DEF Controls, Of, Final
  <2>3. QED
    BY <1>2, <2>1, <2>2 DEF Switches, Alternate
<1>12. ASSUME Head(rs).type \notin {"enable", "disable"}
       PROVE  Switches(rest, on, w)
  <2>1. \A i \in 1..Len(rest) : rest[i].type = "enable" =>
          /\ rest[i].surface # None
          /\ EarlierLeft(i) \/ (on = None /\ \A j \in 1..(i - 1) : rest[j].type # "enable")
    BY <1>3, <1>4, <1>6, <1>7, <1>8, <1>12
  <2>2. NoneOfKind(rest, Controls) => on = w
    BY <1>1, <1>2, <1>12 DEF Controls, Of, Switches
  <2>3. QED
    BY <1>2, <2>1, <2>2 DEF Switches, Alternate
<1>13. QED
  BY <1>10, <1>11, <1>12 DEF rest

-----------------------------------------------------------------------------
(* What the steps send *)

Contexts == [current : Targets, surface : Targets, resets : Nat, awaits : Nat]

\* Two queues that answer nothing answer nothing together.
LEMMA UnansweringSent ==
  ASSUME NEW p \in Seq(TextEvents), NEW q \in Seq(TextEvents), Unanswering(p), Unanswering(q)
  PROVE  Unanswering(p \o q)
<1>1. \A i \in 1..Len(p \o q) : \/ i \in 1..Len(p) /\ (p \o q)[i] = p[i]
                                \/ i - Len(p) \in 1..Len(q) /\ (p \o q)[i] = q[i - Len(p)]
  BY Sent
<1>2. QED
  BY <1>1 DEF Unanswering

\* What setFocus sends of one device: it ends with the new focus.
LEMMA Handover ==
  ASSUME NEW leave \in {"keyboard", "leave"}, NEW enter \in {"keyboard", "enter"},
         NEW f \in Targets, NEW s \in Targets, f # s
  PROVE  LET es == When(f # None, <<Event(leave, None, 0)>>)
                   \o When(s # None, <<Event(enter, s, 0)>>)
         IN  /\ es \in Seq(TextEvents) /\ Unanswering(es) /\ NoneOfKind(es, Is("commit"))
             /\ LeavesToNone(es)
             /\ \A kind, now :
                  /\ Is(leave) \cup Is(enter) \subseteq kind
                       => Arrives(es, kind, now, s) /\ ~NoneOfKind(es, kind)
                  /\ (Is(leave) \cup Is(enter)) \cap kind = {} => NoneOfKind(es, kind)
<1> DEFINE a == Event(leave, None, 0)
           b == Event(enter, s, 0)
           p == When(f # None, <<a>>)
           q == When(s # None, <<b>>)
<1>1. /\ a \in TextEvents /\ a \in Is(leave) /\ a.surface = None /\ a.event = leave
      /\ b \in TextEvents /\ b \in Is(enter) /\ b.surface = s /\ b.event = enter
  BY BlankType, EventType
<1>2. /\ ~Confirms(a) /\ ~Confirms(b) /\ a \notin Is("commit") /\ b \notin Is("commit")
      /\ a.event # "commit" /\ b.event # "commit" /\ b \notin Is("leave")
  BY <1>1 DEF Confirms, Is
<1> HIDE DEF a, b
<1>3. b \in InFocus(s) /\ (s = None => a \in InFocus(s))
  BY <1>1 DEF InFocus
<1>4. /\ f # None => p = <<a>>
      /\ f = None => p = <<>>
      /\ s # None => q = <<b>>
      /\ s = None => q = <<>>
  BY DEF When
<1> HIDE DEF p, q
<1>5. <<>> \in Seq(TextEvents) /\ <<a>> \in Seq(TextEvents) /\ <<b>> \in Seq(TextEvents)
  BY <1>1
<1>6. /\ LeavesToNone(<<>>) /\ LeavesToNone(<<a>>) /\ LeavesToNone(<<b>>)
      /\ Unanswering(<<>>) /\ Unanswering(<<a>>) /\ Unanswering(<<b>>)
  BY <1>1, <1>2 DEF LeavesToNone, Unanswering
<1>7. /\ p \in Seq(TextEvents) /\ LeavesToNone(p) /\ Unanswering(p)
      /\ q \in Seq(TextEvents) /\ LeavesToNone(q) /\ Unanswering(q)
  BY <1>4, <1>5, <1>6
<1>8. p \o q \in Seq(TextEvents) /\ LeavesToNone(p \o q) /\ Unanswering(p \o q)
  BY <1>7, LeavesKept, UnansweringSent, Sent
<1>9. ASSUME NEW kind
      PROVE  /\ a \notin kind /\ b \notin kind => NoneOfKind(p \o q, kind)
             /\ a \in kind /\ b \in kind
                  => LastOfKind(p \o q, kind, InFocus(s)) /\ ~NoneOfKind(p \o q, kind)
  <2>1. /\ NoneOfKind(p \o q, kind) <=> NoneOfKind(p, kind) /\ NoneOfKind(q, kind)
        /\ LastOfKind(q, kind, InFocus(s)) /\ ~NoneOfKind(q, kind)
             => LastOfKind(p \o q, kind, InFocus(s))
        /\ NoneOfKind(q, kind) /\ LastOfKind(p, kind, InFocus(s))
             => LastOfKind(p \o q, kind, InFocus(s))
    BY <1>7, KindsSent
  <2>2. /\ NoneOfKind(<<>>, kind)
        /\ NoneOfKind(<<a>>, kind) <=> a \notin kind
        /\ NoneOfKind(<<b>>, kind) <=> b \notin kind
        /\ LastOfKind(<<b>>, kind, InFocus(s))
        /\ s = None => LastOfKind(<<a>>, kind, InFocus(s))
    BY <1>3, KindsOfOne
  <2>3. QED
    BY <1>4, <2>1, <2>2
<1>10. NoneOfKind(p \o q, Is("commit"))
  BY <1>2, <1>9
<1>11. \A kind, now : Is(leave) \cup Is(enter) \subseteq kind
                       => Arrives(p \o q, kind, now, s) /\ ~NoneOfKind(p \o q, kind)
  BY <1>1, <1>9 DEF Arrives
<1>12. \A kind : (Is(leave) \cup Is(enter)) \cap kind = {} => NoneOfKind(p \o q, kind)
  BY <1>1, <1>9
<1>13. QED
  BY <1>8, <1>10, <1>11, <1>12 DEF p, q, a, b

\* QWaylandTextInput::updateState sends a state if the surface has the text input.
LEMMA StateSent ==
  ASSUME NEW w \in Targets, NEW c \in Contexts, texts' \in [Surfaces -> Text]
  PROVE  /\ Reports(w, c) =>
              /\ w \in Surfaces
              /\ \A queries : "text" \in queries =>
                    Change(w, c, queries) = <<Request("state", None, texts'[w], 0)>>
              /\ Reset(w, c) = <<Request("state", None, texts'[w], c.resets + 1)>>
              /\ Request("state", None, texts'[w], 0) \in TextRequests
              /\ Request("state", None, texts'[w], c.resets + 1) \in TextRequests
              /\ Renewed(w, c) = [c EXCEPT !.resets = c.resets + 1, !.awaits = c.resets + 1]
         /\ \A queries : ~Reports(w, c) \/ "text" \notin queries => Change(w, c, queries) = <<>>
         /\ ~Reports(w, c) => Reset(w, c) = <<>> /\ Renewed(w, c) = c
         /\ Renewed(w, c) \in Contexts
         /\ Renewed(w, c).surface = c.surface /\ Renewed(w, c).current = c.current
         /\ Reports(w, c) => Renewed(w, c).resets = c.resets + 1
                             /\ Renewed(w, c).awaits = c.resets + 1
<1>1. c.resets \in Nat /\ c.resets + 1 \in Nat
  BY DEF Contexts
<1>2. Reports(w, c) => w \in Surfaces
  BY DEF Reports, Targets
<1>3. Reports(w, c) => /\ Request("state", None, texts'[w], 0) \in TextRequests
                       /\ Request("state", None, texts'[w], c.resets + 1) \in TextRequests
  BY <1>1, <1>2, BlankType, RequestType
<1>4. Renewed(w, c) = IF Reports(w, c)
                      THEN [c EXCEPT !.resets = c.resets + 1, !.awaits = c.resets + 1] ELSE c
  BY DEF Renewed, Contexts
<1>5. [c EXCEPT !.resets = c.resets + 1, !.awaits = c.resets + 1] \in Contexts
  BY <1>1 DEF Contexts
<1>6. DOMAIN c = {"current", "surface", "resets", "awaits"}
  BY DEF Contexts
<1>7. QED
  BY <1>2, <1>3, <1>4, <1>5, <1>6 DEF Change, Reset, When

\* What update and setFocusObject send for the input method control.
Switch(from, to, d, e) ==
    /\ d = When(from # None /\ from # to, <<Request("disable", from, Blank, 0)>>)
    /\ e = When(to # None /\ from # to, <<Request("enable", to, Blank, 0)>>)

\* A switch of the control sends no state and no reset.
LEMMA SwitchKinds ==
  ASSUME NEW from \in Targets, NEW to \in Targets, NEW d, NEW e, Switch(from, to, d, e)
  PROVE  /\ d \in Seq(TextRequests) /\ e \in Seq(TextRequests)
         /\ Unnumbered(d) /\ Unnumbered(e)
         /\ NoneOfKind(d, Of("state")) /\ NoneOfKind(e, Of("state"))
         /\ \A i \in 1..Len(d) : d[i].text = Blank
         /\ \A i \in 1..Len(e) : e[i].text = Blank
<1> DEFINE a == Request("disable", from, Blank, 0)
           b == Request("enable", to, Blank, 0)
<1>1. /\ a \in TextRequests /\ a.n = 0 /\ a.text = Blank /\ a.type = "disable"
      /\ b \in TextRequests /\ b.n = 0 /\ b.text = Blank /\ b.type = "enable"
  BY BlankType, RequestType
<1> HIDE DEF a, b
<1>2. d \in {<<>>, <<a>>} /\ e \in {<<>>, <<b>>}
  BY DEF Switch, When, a, b
<1>3. a \notin Of("state") /\ b \notin Of("state")
  BY <1>1 DEF Of
<1>4. <<a>> \in Seq(TextRequests) /\ <<b>> \in Seq(TextRequests) /\ <<>> \in Seq(TextRequests)
  BY <1>1
<1>5. /\ Unnumbered(<<>>) /\ Unnumbered(<<a>>) /\ Unnumbered(<<b>>)
      /\ \A i \in 1..Len(<<a>>) : <<a>>[i].text = Blank
      /\ \A i \in 1..Len(<<b>>) : <<b>>[i].text = Blank
      /\ \A i \in 1..Len(<<>>) : <<>>[i].text = Blank
  BY <1>1 DEF Unnumbered
<1> DEFINE Plain(new) == /\ new \in Seq(TextRequests) /\ Unnumbered(new)
                         /\ NoneOfKind(new, Of("state"))
                         /\ \A i \in 1..Len(new) : new[i].text = Blank
<1>6. Plain(<<>>) /\ Plain(<<a>>) /\ Plain(<<b>>)
  BY <1>3, <1>4, <1>5, KindsOfOne
<1> HIDE DEF Plain
<1>7. Plain(d) /\ Plain(e)
  BY <1>2, <1>6
<1>8. QED
  BY <1>7 DEF Plain

\* A switch of the control ends with the window it is for.
LEMMA SwitchesTo ==
  ASSUME NEW rs \in Seq(TextRequests), NEW on, NEW from \in Targets, NEW to \in Targets,
         NEW d, NEW e, Switch(from, to, d, e), Switches(rs, on, from)
  PROVE  Switches((rs \o d) \o e, on, to)
<1> DEFINE a == Request("disable", from, Blank, 0)
           b == Request("enable", to, Blank, 0)
<1>1. a \in Of("disable") /\ b \in Of("enable") /\ b.surface = to
  BY BlankType, RequestType
<1>2. \A q \in Seq(TextRequests) : q \o <<>> = q
  OBVIOUS
<1> HIDE DEF a, b
<1>3. rs \o d \in Seq(TextRequests) /\ <<>> \in Seq(TextRequests)
  BY SwitchKinds, Sent
<1>4. CASE from = to
  BY <1>2, <1>4 DEF Switch, When
<1>5. CASE from # to
  <2>1. Switches(rs \o d, on, None)
    <3>1. CASE from = None
      BY <1>2, <1>5, <3>1 DEF Switch, When
    <3>2. CASE from # None
      <4>1. d = <<a>>
        BY <1>5, <3>2 DEF Switch, When, a
      <4>2. QED
        BY <1>1, <4>1, SwitchesDisabled
    <3>3. QED
      BY <3>1, <3>2
  <2>2. CASE to = None
    BY <1>2, <1>3, <2>1, <2>2 DEF Switch, When
  <2>3. CASE to # None
    <3>1. e = <<b>>
      BY <1>5, <2>3 DEF Switch, When, b
    <3>2. QED
      BY <1>1, <1>3, <2>1, <2>3, <3>1, SwitchesEnabled
  <2>4. QED
    BY <2>2, <2>3
<1>6. QED
  BY <1>4, <1>5

\* update, and setFocusObject, as they are used: the current window is the focus
\* window or none.
LEMMA UpdateSends ==
  ASSUME TextTypes, ControlsFollow, texts' \in [Surfaces -> Text], accepts' \subseteq Surfaces,
         NEW queries, update(queries), window # None
  PROVE  /\ context' = [context EXCEPT !.current = context'.current] /\ context' \in Contexts
         /\ context'.current = (IF window \in accepts' THEN window ELSE None)
         /\ \E d, e : /\ Switch(context.current, context'.current, d, e)
                      /\ up' = ((up \o d) \o e) \o Change(window, context, queries)
<1> DEFINE disables == context.current # None /\ ~Accepted(window)
           enables == context.current = None /\ Accepted(window)
           new == IF disables THEN None ELSE IF enables THEN window ELSE context.current
<1>1. context \in Contexts /\ window \in Targets /\ None \in Targets
  BY BlankType DEF TextTypes, Contexts
<1>2. /\ context' = [context EXCEPT !.current = new]
      /\ up' = ((up \o When(disables, <<Request("disable", context.current, Blank, 0)>>))
                  \o When(enables, <<Request("enable", window, Blank, 0)>>))
               \o Change(window, context, queries)
  BY DEF update
<1>3. context.current \in {None, window}
  BY DEF ControlsFollow
<1>4. new = (IF window \in accepts' THEN window ELSE None) /\ new \in Targets
  BY <1>1, <1>3 DEF Accepted
<1>5. context' \in Contexts /\ context'.current = new
  BY <1>1, <1>2, <1>4 DEF Contexts
<1>6. /\ disables <=> context.current # None /\ context.current # new
      /\ enables <=> new # None /\ context.current # new
      /\ enables => window = new
  BY <1>3, <1>4 DEF Accepted
<1> HIDE DEF disables, enables, new
<1>7. Switch(context.current, new,
             When(disables, <<Request("disable", context.current, Blank, 0)>>),
             When(enables, <<Request("enable", window, Blank, 0)>>))
  BY <1>6 DEF Switch, When
<1>8. QED
  BY <1>2, <1>4, <1>5, <1>7

\* The application's inputs report what changed; the text, if it did.
LEMMA Updates ==
  ASSUME Edit \/ Toggles
  PROVE  \E queries :
            /\ update(queries) /\ window # None /\ ("text" \notin queries => texts' = texts)
            /\ window' = window /\ focus' = focus /\ current' = current /\ enabled' = enabled
            /\ controls' = controls /\ handled' = handled /\ down' = down
<1>1. CASE Edit
  <2>1. /\ update({"text"}) /\ window # None
        /\ window' = window /\ focus' = focus /\ current' = current /\ enabled' = enabled
        /\ controls' = controls /\ handled' = handled /\ down' = down
    BY <1>1 DEF Edit, compositor, activation
  <2>2. "text" \in {"text"}
    OBVIOUS
  <2>3. QED
    BY <2>1, <2>2
<1>2. CASE Toggles
  <2>1. PICK queries : Toggle(queries)
    BY <1>2 DEF Toggles
  <2>2. /\ update(queries) /\ window # None /\ texts' = texts
        /\ window' = window /\ focus' = focus /\ current' = current /\ enabled' = enabled
        /\ controls' = controls /\ handled' = handled /\ down' = down
    BY <2>1 DEF Toggle, compositor, activation
  <2>3. QED
    BY <2>2
<1>3. QED
  BY <1>1, <1>2

\* setFocusObject switches the control, and then resets.
LEMMA SetFocusObjectSends ==
  ASSUME TextTypes, NEW w \in Targets, texts' = texts, accepts' = accepts, setFocusObject(w)
  PROVE  LET new == IF w \in accepts THEN w ELSE None
             c == [context EXCEPT !.current = new]
         IN  /\ new \in Targets /\ c \in Contexts
             /\ context' = IF w \in accepts THEN Renewed(w, c) ELSE c
             /\ \E d, e : /\ Switch(context.current, new, d, e)
                          /\ up' = ((up \o d) \o e) \o (IF w \in accepts THEN Reset(w, c) ELSE <<>>)
<1> DEFINE new == IF w \in accepts THEN w ELSE None
           c == [context EXCEPT !.current = new]
           disables == context.current # None /\ (context.current # w \/ ~Accepted(w))
           enables == Accepted(w) /\ context.current # w
<1>1. context \in Contexts /\ w \in Targets /\ None \in Targets
  BY BlankType DEF TextTypes, Contexts
<1>2. Accepted(w) <=> w \in accepts
  BY NoneIsNoSurface DEF Accepted, TextTypes
<1>3. c = [context EXCEPT !.current = IF Accepted(w) THEN w ELSE None]
  BY <1>2
<1>4. /\ context' = IF Accepted(w) THEN Renewed(w, c) ELSE c
      /\ up' = ((up \o When(disables, <<Request("disable", context.current, Blank, 0)>>))
                  \o When(enables, <<Request("enable", w, Blank, 0)>>))
               \o When(Accepted(w), Reset(w, c))
  BY <1>3 DEF setFocusObject
<1>5. new \in Targets /\ c \in Contexts
  BY <1>1 DEF Contexts
<1>6. /\ disables <=> context.current # None /\ context.current # new
      /\ enables <=> new # None /\ context.current # new
      /\ enables => w = new
  BY <1>2 DEF Accepted
<1> HIDE DEF disables, enables, new, c
<1>7. Switch(context.current, new,
             When(disables, <<Request("disable", context.current, Blank, 0)>>),
             When(enables, <<Request("enable", w, Blank, 0)>>))
  BY <1>6 DEF Switch, When
<1>8. When(Accepted(w), Reset(w, c)) = IF w \in accepts THEN Reset(w, c) ELSE <<>>
  BY <1>2 DEF When
<1>9. QED
  BY <1>2, <1>4, <1>5, <1>7, <1>8 DEF new, c

\* setFocus tells the keyboard's client first, then the text input's.
LEMMA SetFocusSends ==
  ASSUME TextTypes, NEW s \in Targets, setFocus(s)
  PROVE  \E k, t \in Seq(TextEvents) :
           /\ down' = (down \o k) \o t
           /\ Unanswering(k) /\ NoneOfKind(k, Is("commit")) /\ LeavesToNone(k)
           /\ Unanswering(t) /\ NoneOfKind(t, Is("commit")) /\ LeavesToNone(t)
           /\ NoneOfKind(k, Moves) /\ ~NoneOfKind(t, Moves) /\ NoneOfKind(t, Is("keyboard"))
           /\ \A now : Arrives(t, Moves, now, s)
           /\ \A now : Arrives(k, Is("keyboard"), now, s) /\ ~NoneOfKind(k, Is("keyboard"))
<1> DEFINE k == When(focus # None, <<Event("keyboard", None, 0)>>)
                \o When(s # None, <<Event("keyboard", s, 0)>>)
           t == When(focus # None, <<Event("leave", None, 0)>>)
                \o When(s # None, <<Event("enter", s, 0)>>)
<1>1. focus \in Targets /\ focus # s
  BY DEF TextTypes, setFocus
<1>2. down' = (down \o k) \o t
  BY DEF setFocus
<1>3. /\ (Is("keyboard") \cup Is("keyboard")) \cap Moves = {}
      /\ Is("leave") \cup Is("enter") \subseteq Moves
      /\ (Is("leave") \cup Is("enter")) \cap Is("keyboard") = {}
      /\ Is("keyboard") \cup Is("keyboard") \subseteq Is("keyboard")
  BY DEF Is, Moves
<1>4. /\ k \in Seq(TextEvents) /\ Unanswering(k) /\ NoneOfKind(k, Is("commit"))
      /\ LeavesToNone(k) /\ NoneOfKind(k, Moves) /\ ~NoneOfKind(k, Is("keyboard"))
      /\ \A now : Arrives(k, Is("keyboard"), now, s)
  BY <1>1, <1>3, Handover
<1>5. /\ t \in Seq(TextEvents) /\ Unanswering(t) /\ NoneOfKind(t, Is("commit"))
      /\ LeavesToNone(t) /\ ~NoneOfKind(t, Moves) /\ NoneOfKind(t, Is("keyboard"))
      /\ \A now : Arrives(t, Moves, now, s)
  BY <1>1, <1>3, Handover
<1> HIDE DEF k, t
<1>6. QED
  BY <1>2, <1>4, <1>5

\* What a step spends is gone.
LEMMA Spent ==
  ASSUME TextTypes, NEW what \in {"events", "inputs"}, Spend(what)
  PROVE  /\ left' \in [events : 0..MaxEvents, inputs : 0..MaxInputs]
         /\ left.events \in Nat /\ left.inputs \in Nat
         /\ what = "events" => left.events > 0 /\ left'.events = left.events - 1
                               /\ left'.inputs = left.inputs
         /\ what = "inputs" => left.inputs > 0 /\ left'.inputs = left.inputs - 1
                               /\ left'.events = left.events
<1>1. left \in [events : 0..MaxEvents, inputs : 0..MaxInputs]
  BY DEF TextTypes
<1>2. left.events \in 0..MaxEvents /\ left.inputs \in 0..MaxInputs
  BY <1>1
<1>3. CASE what = "events"
  <2>1. left' = [left EXCEPT !["events"] = left.events - 1] /\ left.events > 0
    BY <1>3 DEF Spend
  <2>2. left.events - 1 \in 0..MaxEvents
    BY <1>2, <2>1, BoundsAreNumbers
  <2>3. QED
    BY <1>1, <1>2, <1>3, <2>1, <2>2
<1>4. CASE what = "inputs"
  <2>1. left' = [left EXCEPT !["inputs"] = left.inputs - 1] /\ left.inputs > 0
    BY <1>4 DEF Spend
  <2>2. left.inputs - 1 \in 0..MaxInputs
    BY <1>2, <2>1, BoundsAreNumbers
  <2>3. QED
    BY <1>1, <1>2, <1>4, <2>1, <2>2
<1>5. QED
  BY <1>3, <1>4

\* A text counts one edit or one commit more.
LEMMA TextFields ==
  ASSUME NEW t \in Text
  PROVE  /\ t.of \in Targets /\ t.edits \in Nat /\ t.commits \in Nat
         /\ t.commits + 1 <= MaxEvents => [t EXCEPT !.commits = @ + 1] \in Text
         /\ t.edits + 1 <= MaxInputs => [t EXCEPT !.edits = @ + 1] \in Text
         /\ [t EXCEPT !.commits = @ + 1].edits = t.edits
         /\ [t EXCEPT !.commits = @ + 1].commits = t.commits + 1
         /\ [t EXCEPT !.edits = @ + 1].edits = t.edits + 1
         /\ [t EXCEPT !.edits = @ + 1].commits = t.commits
<1>1. t.of \in Targets /\ t.edits \in 0..MaxInputs /\ t.commits \in 0..MaxEvents
  BY DEF Text
<1>2. t.commits + 1 <= MaxEvents => t.commits + 1 \in 0..MaxEvents
  BY <1>1, BoundsAreNumbers
<1>3. t.edits + 1 <= MaxInputs => t.edits + 1 \in 0..MaxInputs
  BY <1>1, BoundsAreNumbers
<1>4. DOMAIN t = {"of", "edits", "commits"}
  BY DEF Text
<1>5. t.commits + 1 \in 0..MaxEvents => [t EXCEPT !.commits = t.commits + 1] \in Text
  BY <1>1 DEF Text
<1>6. t.edits + 1 \in 0..MaxInputs => [t EXCEPT !.edits = t.edits + 1] \in Text
  BY <1>1 DEF Text
<1>7. QED
  BY <1>1, <1>2, <1>3, <1>4, <1>5, <1>6

-----------------------------------------------------------------------------
(* Types and bounds *)

\* What counts no more than was spent does so when more is spent.
LEMMA WithinLess ==
  ASSUME NEW t \in Text, NEW c \in Nat, NEW d \in Nat,
         NEW l \in [events : 0..MaxEvents, inputs : 0..MaxInputs],
         NEW m \in [events : 0..MaxEvents, inputs : 0..MaxInputs],
         m.inputs <= l.inputs, d + m.events <= c + l.events, Within(t, c, l)
  PROVE  Within(t, d, m)
<1>1. t.edits \in Nat /\ t.commits \in Nat
  BY BoundsAreNumbers DEF Text
<1>2. /\ l.events \in Nat /\ l.inputs \in Nat /\ m.events \in Nat /\ m.inputs \in Nat
  BY BoundsAreNumbers
<1>3. t.edits + l.inputs <= MaxInputs /\ t.commits + c + l.events <= MaxEvents
  BY DEF Within
<1>4. t.edits + m.inputs <= MaxInputs
  BY <1>1, <1>2, <1>3, BoundsAreNumbers
<1>5. t.commits + d + m.events <= MaxEvents
  BY <1>1, <1>2, <1>3, BoundsAreNumbers
<1>6. QED
  BY <1>4, <1>5 DEF Within

\* Requests that report no text, or one that was reported or is an editor's.
Known(t) == \/ t = Blank \/ \E j \in 1..Len(up) : t = up[j].text
            \/ \E s \in Surfaces : t = texts'[s]
KnownIn(requests) == \A i \in 1..Len(requests) : Known(requests[i].text)

\* Texts of what is sent are known if those of both parts are.
LEMMA KnownSent ==
  ASSUME NEW rs \in Seq(TextRequests), NEW new \in Seq(TextRequests), KnownIn(rs), KnownIn(new)
  PROVE  KnownIn(rs \o new)
<1>1. \A i \in 1..Len(rs \o new) :
        \/ i \in 1..Len(rs) /\ (rs \o new)[i] = rs[i]
        \/ i - Len(rs) \in 1..Len(new) /\ (rs \o new)[i] = new[i - Len(rs)]
  BY Sent
<1>2. QED
  BY <1>1 DEF KnownIn

\* The texts of the requests under way are known.
LEMMA KnownQueue ==
  ASSUME TextTypes
  PROVE  /\ KnownIn(up) /\ KnownIn(<<>>) /\ (up # <<>> => KnownIn(Tail(up)))
         /\ \A r : Known(r.text) => KnownIn(<<r>>)
<1>1. KnownIn(up)
  BY DEF KnownIn, Known
<1>2. up # <<>> => \A i \in 1..Len(Tail(up)) : i + 1 \in 1..Len(up) /\ Tail(up)[i] = up[i + 1]
  BY Received DEF TextTypes
<1>3. up # <<>> => KnownIn(Tail(up))
  BY <1>1, <1>2 DEF KnownIn
<1>4. KnownIn(<<>>) /\ \A r : Known(r.text) => KnownIn(<<r>>)
  BY DEF KnownIn
<1>5. QED
  BY <1>1, <1>3, <1>4

\* Unchanged texts, less left to spend: no text exceeds its bound.
LEMMA BudgetFrom ==
  ASSUME TextTypes, Budget, left' \in [events : 0..MaxEvents, inputs : 0..MaxInputs],
         left'.events <= left.events, left'.inputs <= left.inputs,
         \A s \in Surfaces : Within(texts'[s], CountOf(down', Is("commit")), left'),
         texts' \in [Surfaces -> Text], down' \in Seq(TextEvents),
         KnownIn(up'),
         \/ current' \in {current, Blank}
         \/ \E j \in 1..Len(up) : current' = up[j].text
         \/ Within(current', 0, left')
  PROVE  Budget'
<1>1. /\ left.events \in 0..MaxEvents /\ left.inputs \in 0..MaxInputs
      /\ left'.events \in 0..MaxEvents /\ left'.inputs \in 0..MaxInputs
  BY DEF TextTypes
<1>2. \A t \in Text : Within(t, 0, left) => Within(t, 0, left')
  <2>1. left \in [events : 0..MaxEvents, inputs : 0..MaxInputs]
        /\ 0 + left'.events <= 0 + left.events
    BY <1>1 DEF TextTypes
  <2>2. QED
    BY <2>1, WithinLess
<1>3. Within(Blank, 0, left')
  BY <1>1, BoundsAreNumbers DEF Within, Blank
<1>4. \A s \in Surfaces : Within(texts'[s], 0, left')
  <2>1. CountOf(down', Is("commit")) \in Nat
    BY CountType
  <2>2. \A s \in Surfaces : texts'[s] \in Text
    OBVIOUS
  <2>3. \A c \in Nat : 0 + left'.events <= c + left'.events
    BY <1>1
  <2>4. left'.inputs <= left'.inputs /\ 0 \in Nat
    BY <1>1
  <2>5. QED
    BY <2>1, <2>2, <2>3, <2>4, WithinLess
<1>5. current \in Text /\ \A j \in 1..Len(up) : up[j].text \in Text
  <2>1. current \in Text /\ \A j \in 1..Len(up) : up[j] \in TextRequests
    BY DEF TextTypes
  <2>2. QED
    BY <2>1, RequestFields
<1>6. Within(current, 0, left) /\ \A j \in 1..Len(up) : Within(up[j].text, 0, left)
  BY DEF Budget
<1>7. Within(current', 0, left')
  BY <1>2, <1>3, <1>5, <1>6
<1>8. \A i \in 1..Len(up') : Within(up'[i].text, 0, left')
  BY <1>2, <1>3, <1>4, <1>5, <1>6 DEF KnownIn, Known
<1>9. QED
  BY <1>7, <1>8 DEF Budget

\* The texts as they are, and no commit that was not spent.
LEMMA BudgetKept ==
  ASSUME TextTypes, Budget, left' \in [events : 0..MaxEvents, inputs : 0..MaxInputs],
         down' \in Seq(TextEvents), left'.inputs <= left.inputs, left'.events <= left.events,
         CountOf(down', Is("commit")) + left'.events <= CountOf(down, Is("commit")) + left.events,
         texts' = texts,
         KnownIn(up'),
         \/ current' \in {current, Blank}
         \/ \E j \in 1..Len(up) : current' = up[j].text
         \/ Within(current', 0, left')
  PROVE  Budget'
<1>1. /\ left.events \in 0..MaxEvents /\ left.inputs \in 0..MaxInputs
      /\ left'.events \in 0..MaxEvents /\ left'.inputs \in 0..MaxInputs
  BY DEF TextTypes
<1>2. CountOf(down, Is("commit")) \in Nat /\ CountOf(down', Is("commit")) \in Nat
  BY CountType DEF TextTypes
<1>3. texts \in [Surfaces -> Text]
  BY DEF TextTypes
<1>4. ASSUME NEW s \in Surfaces
      PROVE  Within(texts[s], CountOf(down', Is("commit")), left')
  <2>1. texts[s] \in Text /\ left \in [events : 0..MaxEvents, inputs : 0..MaxInputs]
    BY <1>3 DEF TextTypes
  <2>2. Within(texts[s], CountOf(down, Is("commit")), left)
    BY DEF Budget
  <2>3. QED
    BY <1>2, <2>1, <2>2, WithinLess
<1>5. QED
  BY <1>3, <1>4, BudgetFrom

\* What a handler takes off the queue of events.
LEMMA ReceiveType ==
  ASSUME TextTypes, NEW event, Receive(event)
  PROVE  /\ down # <<>> /\ down' = Tail(down) /\ down' \in Seq(TextEvents)
         /\ Head(down) \in TextEvents /\ Head(down).event = event
         /\ Head(down).surface \in Targets /\ Head(down).n \in Nat
         /\ Head(down) \in Is(event)
         /\ CountOf(down, Is("commit")) \in Nat /\ CountOf(down', Is("commit")) \in Nat
         /\ CountOf(down', Is("commit")) <= CountOf(down, Is("commit"))
         /\ event = "commit" =>
              CountOf(down', Is("commit")) + 1 = CountOf(down, Is("commit"))
<1>1. down \in Seq(TextEvents) /\ down # <<>> /\ down' = Tail(down) /\ Head(down).event = event
  BY DEF TextTypes, Receive
<1>2. Head(down) \in TextEvents /\ down' \in Seq(TextEvents)
  BY <1>1
<1>3. Head(down) \in Is(event)
  BY <1>1, <1>2 DEF Is
<1>4. /\ CountOf(down, Is("commit")) \in Nat /\ CountOf(down', Is("commit")) \in Nat
  BY <1>1, <1>2, CountType
<1>5. CountOf(down, Is("commit"))
        = CountOf(down', Is("commit")) + (IF Head(down) \in Is("commit") THEN 1 ELSE 0)
  BY <1>1, CountReceived
<1>6. QED
  BY <1>1, <1>2, <1>3, <1>4, <1>5, EventFields

\* What the compositor does of itself keeps the types and the budget.
LEMMA ServerTypes ==
  ASSUME TextTypes, Budget,
         \/ \E s \in Targets : setFocus(s)
         \/ sendInputMethodEvent \/ SendKey
  PROVE  TextTypes' /\ Budget'
<1>1. down \in Seq(TextEvents) /\ up \in Seq(TextRequests)
      /\ CountOf(down, Is("commit")) \in Nat
  BY CountType DEF TextTypes
<1>2. Spend("events")
  BY DEF setFocus, sendInputMethodEvent, SendKey
<1>3. /\ left' \in [events : 0..MaxEvents, inputs : 0..MaxInputs]
      /\ left.events \in Nat /\ left.inputs \in Nat /\ left.events > 0
      /\ left'.events = left.events - 1 /\ left'.inputs = left.inputs
  BY <1>2, Spent
<1>4. texts' = texts /\ up' = up /\ KnownIn(up')
  BY KnownQueue DEF setFocus, sendInputMethodEvent, SendKey
<1>5. ASSUME NEW s \in Targets, setFocus(s)
      PROVE  TextTypes' /\ Budget'
  <2>1. PICK k, t \in Seq(TextEvents) :
          /\ down' = (down \o k) \o t
          /\ NoneOfKind(k, Is("commit")) /\ NoneOfKind(t, Is("commit"))
    BY <1>5, SetFocusSends
  <2>2. down \o k \in Seq(TextEvents) /\ down' \in Seq(TextEvents)
    BY <1>1, <2>1, Sent
  <2>3. CountOf(down', Is("commit")) = CountOf(down, Is("commit"))
    <3>1. CountOf(down \o k, Is("commit")) = CountOf(down, Is("commit"))
      BY <1>1, <2>1, CountSent
    <3>2. CountOf((down \o k) \o t, Is("commit")) = CountOf(down \o k, Is("commit"))
      BY <2>1, <2>2, CountSent
    <3>3. QED
      BY <2>1, <3>1, <3>2
  <2>4. current' \in {current, Blank} /\ current' \in Text
    BY <1>5, BlankType DEF setFocus, TextTypes
  <2>5. TextTypes'
    BY <1>3, <1>5, <2>2, <2>4 DEF setFocus, TextTypes, activation
  <2>6. CountOf(down', Is("commit")) + left'.events <= CountOf(down, Is("commit")) + left.events
    BY <1>1, <1>3, <2>3
  <2>7. left'.inputs <= left.inputs /\ left'.events <= left.events
    BY <1>3
  <2>8. QED
    BY <1>3, <1>4, <2>2, <2>4, <2>5, <2>6, <2>7, BudgetKept
<1>6. ASSUME sendInputMethodEvent
      PROVE  TextTypes' /\ Budget'
  <2> DEFINE e == Event("commit", focus, handled)
  <2>1. e \in TextEvents /\ e \in Is("commit")
    BY EventType DEF TextTypes
  <2> HIDE DEF e
  <2>2. down' = down \o <<e>> /\ <<e>> \in Seq(TextEvents)
    <3>1. down' = Append(down, e)
      BY <1>6 DEF sendInputMethodEvent, e
    <3>2. QED
      BY <1>1, <2>1, <3>1
  <2>3. down' \in Seq(TextEvents) /\ ~NoneOfKind(<<e>>, Is("commit")) /\ Len(<<e>>) = 1
    BY <1>1, <2>1, <2>2, Sent, KindsOfOne
  <2>4. CountOf(down', Is("commit")) = CountOf(down, Is("commit")) + 1
    BY <1>1, <2>2, <2>3, CountSent
  <2>5. /\ current \in Text /\ current' = [current EXCEPT !.commits = @ + 1]
        /\ Within(current, 0, left)
    BY <1>6 DEF TextTypes, sendInputMethodEvent, Budget
  <2>6. current.edits \in Nat /\ current.commits \in Nat
    BY <2>5, TextFields
  <2>7. current.commits + 1 <= MaxEvents
    BY <1>3, <2>5, <2>6, BoundsAreNumbers DEF Within
  <2>8. /\ current' \in Text /\ current'.edits = current.edits
        /\ current'.commits = current.commits + 1
    BY <2>5, <2>7, TextFields
  <2>9. Within(current', 0, left')
    <3>1. current.commits + 0 + left.events <= MaxEvents
          /\ current.edits + left.inputs <= MaxInputs
      BY <2>5 DEF Within
    <3>2. (current.commits + 1) + 0 + (left.events - 1) <= MaxEvents
      BY <1>3, <2>6, <3>1, BoundsAreNumbers
    <3>3. QED
      BY <1>3, <2>8, <3>1, <3>2 DEF Within
  <2>10. TextTypes'
    BY <1>3, <1>6, <2>3, <2>8 DEF sendInputMethodEvent, TextTypes, activation
  <2>11. CountOf(down', Is("commit")) + left'.events <= CountOf(down, Is("commit")) + left.events
    BY <1>1, <1>3, <2>4
  <2>12. left'.inputs <= left.inputs /\ left'.events <= left.events
    BY <1>3
  <2>13. QED
    BY <1>3, <1>4, <2>3, <2>9, <2>10, <2>11, <2>12, BudgetKept
<1>7. ASSUME SendKey
      PROVE  TextTypes' /\ Budget'
  <2> DEFINE e == Event("key", focus, 0)
  <2>1. e \in TextEvents /\ e \notin Is("commit")
    BY EventType DEF TextTypes, Is
  <2> HIDE DEF e
  <2>2. down' = down \o <<e>> /\ <<e>> \in Seq(TextEvents)
    <3>1. down' = Append(down, e)
      BY <1>7 DEF SendKey, e
    <3>2. QED
      BY <1>1, <2>1, <3>1
  <2>3. down' \in Seq(TextEvents) /\ NoneOfKind(<<e>>, Is("commit"))
    BY <1>1, <2>1, <2>2, Sent, KindsOfOne
  <2>4. CountOf(down', Is("commit")) = CountOf(down, Is("commit"))
    BY <1>1, <2>2, <2>3, CountSent
  <2>5. TextTypes' /\ current' = current
    BY <1>3, <1>7, <2>3 DEF SendKey, TextTypes, activation, compositor
  <2>6. CountOf(down', Is("commit")) + left'.events <= CountOf(down, Is("commit")) + left.events
    BY <1>1, <1>3, <2>4
  <2>7. left'.inputs <= left.inputs /\ left'.events <= left.events
    BY <1>3
  <2>8. QED
    BY <1>3, <1>4, <2>3, <2>5, <2>6, <2>7, BudgetKept
<1>8. QED
  BY <1>5, <1>6, <1>7

\* What a request changes: the cases of HandleRequest.
LEMMA RequestTaken ==
  ASSUME TextTypes, HandleRequest
  PROVE  /\ up # <<>> /\ up' = Tail(up) /\ up' \in Seq(TextRequests) /\ Head(up) \in TextRequests
         /\ Head(up).n \in Nat /\ Head(up).surface \in Targets /\ Head(up).text \in Text
         /\ \E es \in Seq(TextEvents) :
              /\ down' = down \o es
              /\ \/ es = <<>> /\ Head(up).type # "sync"
                 \/ es = <<Event("done", None, Head(up).n)>>
                    /\ Head(up).n # 0 /\ Head(up).type = "state"
                 \/ es = <<Event("done", None, 0)>> /\ Head(up).type = "sync"
<1>1. up \in Seq(TextRequests) /\ up # <<>> /\ up' = Tail(up) /\ down \in Seq(TextEvents)
  BY DEF TextTypes, HandleRequest
<1>2. Head(up) \in TextRequests /\ up' \in Seq(TextRequests)
  BY <1>1
<1>3. Head(up).n \in Nat /\ Head(up).surface \in Targets /\ Head(up).text \in Text
  BY <1>2, RequestFields
<1>4. /\ Event("done", None, Head(up).n) \in TextEvents
      /\ Event("done", None, 0) \in TextEvents
  BY <1>3, BlankType, EventType
<1>5. /\ <<>> \in Seq(TextEvents) /\ <<Event("done", None, Head(up).n)>> \in Seq(TextEvents)
      /\ <<Event("done", None, 0)>> \in Seq(TextEvents)
  BY <1>4
<1>6. \A e \in TextEvents : Append(down, e) = down \o <<e>>
  BY <1>1
<1>7. down = down \o <<>>
  BY <1>1
<1>8. CASE update_state(Head(up))
  <2>1. CASE Head(up).n = 0
    BY <1>5, <1>7, <1>8, <2>1, <1>1, <1>2, <1>3 DEF update_state, When
  <2>2. CASE Head(up).n # 0
    BY <1>5, <1>8, <2>2, <1>1, <1>2, <1>3 DEF update_state, When
  <2>3. QED
    BY <2>1, <2>2
<1>9. CASE enable(Head(up)) \/ disable(Head(up))
  <2>1. down' = down /\ Head(up).type # "sync"
    BY <1>9 DEF enable, disable
  <2>2. QED
    BY <1>1, <1>2, <1>3, <1>5, <1>7, <2>1
<1>10. CASE AnswerSync(Head(up))
  BY <1>1, <1>2, <1>3, <1>4, <1>5, <1>6, <1>10 DEF AnswerSync
<1>11. QED
  BY <1>8, <1>9, <1>10 DEF HandleRequest

\* A request that is handled keeps them.
LEMMA RequestTypes ==
  ASSUME TextTypes, Budget, ControlsFollow, HandleRequest
  PROVE  TextTypes' /\ Budget'
<1>1. /\ down \in Seq(TextEvents) /\ up \in Seq(TextRequests)
      /\ CountOf(down, Is("commit")) \in Nat
      /\ left \in [events : 0..MaxEvents, inputs : 0..MaxInputs]
  BY CountType DEF TextTypes
<1>2. /\ up # <<>> /\ up' = Tail(up) /\ up' \in Seq(TextRequests) /\ Head(up) \in TextRequests
      /\ Head(up).n \in Nat /\ Head(up).surface \in Targets /\ Head(up).text \in Text
  BY RequestTaken
<1>3. PICK es \in Seq(TextEvents) :
        /\ down' = down \o es
        /\ \/ es = <<>>
           \/ es = <<Event("done", None, Head(up).n)>>
           \/ es = <<Event("done", None, 0)>>
  BY RequestTaken
<1>4. down' \in Seq(TextEvents)
  BY <1>1, <1>3, Sent
<1>5. NoneOfKind(es, Is("commit"))
  <2>1. /\ Event("done", None, Head(up).n) \notin Is("commit")
        /\ Event("done", None, 0) \notin Is("commit")
    BY <1>2, BlankType, EventType DEF Is
  <2>2. /\ NoneOfKind(<<>>, Is("commit"))
        /\ NoneOfKind(<<Event("done", None, Head(up).n)>>, Is("commit"))
        /\ NoneOfKind(<<Event("done", None, 0)>>, Is("commit"))
    BY <2>1, KindsOfOne
  <2>3. QED
    BY <1>3, <2>2
<1>6. CountOf(down', Is("commit")) = CountOf(down, Is("commit"))
  BY <1>1, <1>3, <1>5, CountSent
<1>7. left' = left /\ texts' = texts /\ KnownIn(up')
  BY <1>2, KnownQueue DEF HandleRequest
<1>8. 1 \in 1..Len(up) /\ Head(up) = up[1]
  BY <1>1, <1>2
<1>9. /\ current' \in Text
      /\ current' \in {current, Blank} \/ \E j \in 1..Len(up) : current' = up[j].text
  BY <1>2, <1>8 DEF TextTypes, HandleRequest, update_state, enable, disable, AnswerSync
<1>10. handled' \in Nat
  BY <1>2 DEF TextTypes, HandleRequest, update_state, enable, disable, AnswerSync
<1>11. enabled' \in Targets /\ controls' \subseteq Surfaces
  <2>1. CASE update_state(Head(up)) \/ AnswerSync(Head(up))
    BY <2>1 DEF TextTypes, update_state, AnswerSync
  <2>2. CASE enable(Head(up))
    <3>1. Head(up).surface \in Surfaces
      <4>1. Head(up).surface # None
        BY <1>1, <1>2, <2>2, SwitchesReceived DEF enable, ControlsFollow
      <4>2. QED
        BY <1>2, <4>1 DEF Targets
    <3>2. QED
      BY <1>2, <2>2, <3>1 DEF TextTypes, enable
  <2>3. CASE disable(Head(up))
    BY <2>3, BlankType DEF TextTypes, disable
  <2>4. QED
    BY <2>1, <2>2, <2>3 DEF HandleRequest
<1>12. TextTypes'
  BY <1>1, <1>2, <1>4, <1>7, <1>9, <1>10, <1>11 DEF HandleRequest, TextTypes, activation
<1>13. CountOf(down', Is("commit")) + left'.events <= CountOf(down, Is("commit")) + left.events
       /\ left'.inputs <= left.inputs /\ left'.events <= left.events
  <2>1. left.events \in Nat /\ left.inputs \in Nat
    BY <1>1, BoundsAreNumbers
  <2>2. QED
    BY <1>1, <1>6, <1>7, <2>1
<1>14. QED
  BY <1>1, <1>4, <1>7, <1>9, <1>12, <1>13, BudgetKept

\* A sync has no text, no number and no control.
LEMMA SyncType ==
  ASSUME NEW condition \in BOOLEAN
  PROVE  LET new == When(condition, <<Request("sync", None, Blank, 0)>>)
         IN  /\ new \in Seq(TextRequests) /\ KnownIn(new) /\ Unnumbered(new)
             /\ NoneOfKind(new, Controls) /\ NoneOfKind(new, Of("state"))
<1> DEFINE r == Request("sync", None, Blank, 0)
           new == When(condition, <<r>>)
<1>1. r \in TextRequests /\ r.text = Blank /\ r.n = 0 /\ r.type = "sync"
  BY BlankType, RequestType
<1>2. r \notin Controls /\ r \notin Of("state")
  BY <1>1 DEF Controls, Of
<1> HIDE DEF r
<1>3. new \in {<<>>, <<r>>}
  BY DEF When
<1> DEFINE Plain(q) == /\ q \in Seq(TextRequests) /\ KnownIn(q) /\ Unnumbered(q)
                       /\ NoneOfKind(q, Controls) /\ NoneOfKind(q, Of("state"))
<1>4. Plain(<<r>>)
  <2>1. NoneOfKind(<<r>>, Controls) /\ NoneOfKind(<<r>>, Of("state"))
    BY <1>2, KindsOfOne
  <2>2. Known(r.text)
    BY <1>1 DEF Known
  <2>3. QED
    BY <1>1, <2>1, <2>2 DEF KnownIn, Unnumbered
<1>5. Plain(<<>>)
  <2>1. NoneOfKind(<<>>, Controls) /\ NoneOfKind(<<>>, Of("state"))
    BY KindsOfOne
  <2>2. QED
    BY <2>1 DEF KnownIn, Unnumbered
<1> HIDE DEF Plain, new
<1>6. Plain(new)
  BY <1>3, <1>4, <1>5
<1>7. QED
  BY <1>6 DEF Plain, new, r

\* Activation of windows keeps the types and the budget.
LEMMA ActivationTypes ==
  ASSUME TextTypes, Budget, handleKeyboardFocusChanged \/ handleWaylandSync \/ keyboard_key
  PROVE  TextTypes' /\ Budget'
<1>1. /\ down \in Seq(TextEvents) /\ up \in Seq(TextRequests)
      /\ left \in [events : 0..MaxEvents, inputs : 0..MaxInputs]
      /\ left.events \in Nat /\ left.inputs \in Nat /\ posted \in Seq(Targets)
      /\ display \in [active : Seq(Surfaces), last : Targets, syncing : BOOLEAN]
  BY BoundsAreNumbers DEF TextTypes
<1>2. /\ left' = left /\ texts' = texts /\ current' = current /\ window' = window
      /\ \E event : Receive(event)
  BY DEF handleKeyboardFocusChanged, handleWaylandSync, keyboard_key, compositor
<1>3. /\ down # <<>> /\ down' = Tail(down) /\ down' \in Seq(TextEvents)
      /\ Head(down).surface \in Targets
      /\ CountOf(down, Is("commit")) \in Nat /\ CountOf(down', Is("commit")) \in Nat
      /\ CountOf(down', Is("commit")) <= CountOf(down, Is("commit"))
  BY <1>2, ReceiveType
<1>4. CountOf(down', Is("commit")) + left'.events <= CountOf(down, Is("commit")) + left.events
      /\ left'.inputs <= left.inputs /\ left'.events <= left.events
  BY <1>1, <1>2, <1>3
<1>5. ASSUME TextTypes', KnownIn(up')
      PROVE  TextTypes' /\ Budget'
  BY <1>1, <1>2, <1>3, <1>4, <1>5, BudgetKept
<1>6. CASE handleKeyboardFocusChanged
  <2> DEFINE new == Head(down).surface
             old == display.last
             activated == IF new = None \/ new \in Range(display.active) THEN display.active
                          ELSE Append(display.active, new)
             asks == /\ new # old /\ ~display.syncing
                     /\ activated # display.active \/ (old # None /\ Last(activated) = old)
             kept == IF new = old THEN display.active ELSE Without(activated, {old})
  <2>1. /\ display' = [active |-> kept, last |-> new, syncing |-> display.syncing \/ asks]
        /\ up' = up \o When(asks, <<Request("sync", None, Blank, 0)>>)
    BY <1>6 DEF handleKeyboardFocusChanged
  <2>2. activated \in Seq(Surfaces)
    <3>1. new # None => new \in Surfaces
      BY <1>3 DEF Targets
    <3>2. QED
      BY <1>1, <3>1
  <2> HIDE DEF activated
  <2>3. kept \in Seq(Surfaces)
    BY <1>1, <2>2, WithoutIsSeq
  <2>4. asks \in BOOLEAN /\ (display.syncing \/ asks) \in BOOLEAN
    OBVIOUS
  <2> HIDE DEF kept, asks
  <2>5. display' \in [active : Seq(Surfaces), last : Targets, syncing : BOOLEAN]
    BY <1>3, <2>1, <2>3, <2>4
  <2>6. up' \in Seq(TextRequests) /\ KnownIn(up')
    BY <1>1, <2>1, <2>4, SyncType, KnownQueue, KnownSent, Sent
  <2>7. TextTypes'
    BY <1>1, <1>3, <1>6, <2>5, <2>6 DEF handleKeyboardFocusChanged, TextTypes, compositor
  <2>8. QED
    BY <1>5, <2>6, <2>7
<1>7. CASE handleWaylandSync
  <2> DEFINE active == IF display.active = <<>> THEN None ELSE Last(display.active)
  <2>1. /\ display' = [display EXCEPT !.syncing = FALSE]
        /\ posted' = posted \o When(active # window, <<active>>) /\ up' = up
    BY <1>7 DEF handleWaylandSync
  <2>2. active \in Targets
    BY <1>1, BlankType DEF Last
  <2> HIDE DEF active
  <2>3. posted' \in Seq(Targets)
    BY <1>1, <2>1, <2>2 DEF When
  <2>4. display' \in [active : Seq(Surfaces), last : Targets, syncing : BOOLEAN]
    BY <1>1, <2>1
  <2>5. TextTypes' /\ KnownIn(up')
    BY <1>1, <1>3, <1>7, <2>1, <2>3, <2>4, KnownQueue DEF handleWaylandSync, TextTypes, compositor
  <2>6. QED
    BY <1>5, <2>5
<1>8. CASE keyboard_key
  <2>1. /\ posted' = posted \o When(display.last \notin {None, window}, <<display.last>>)
        /\ up' = up /\ display.last \in Targets
    BY <1>1, <1>8 DEF keyboard_key
  <2>2. posted' \in Seq(Targets)
    BY <1>1, <2>1 DEF When
  <2>3. TextTypes' /\ KnownIn(up')
    BY <1>1, <1>3, <1>8, <2>1, <2>2, KnownQueue DEF keyboard_key, TextTypes, compositor
  <2>4. QED
    BY <1>5, <2>3
<1>9. QED
  BY <1>6, <1>7, <1>8

\* What the context sends is known: it is none, or it has an editor's text.
LEMMA StateKnown ==
  ASSUME NEW w \in Targets, NEW c \in Contexts, texts' \in [Surfaces -> Text]
  PROVE  /\ \A queries : /\ Change(w, c, queries) \in Seq(TextRequests)
                          /\ KnownIn(Change(w, c, queries))
                          /\ NoneOfKind(Change(w, c, queries), Controls)
                          /\ Unnumbered(Change(w, c, queries))
         /\ Reset(w, c) \in Seq(TextRequests) /\ KnownIn(Reset(w, c))
         /\ NoneOfKind(Reset(w, c), Controls)
<1>1. c.resets \in Nat /\ c.resets + 1 \in Nat
  BY DEF Contexts
<1> DEFINE Silent(new) == /\ new \in Seq(TextRequests) /\ KnownIn(new)
                          /\ NoneOfKind(new, Controls) /\ Unnumbered(new)
<1>2. Silent(<<>>)
  <2>1. <<>> \in Seq(TextRequests) /\ KnownIn(<<>>) /\ Unnumbered(<<>>)
    BY DEF KnownIn, Unnumbered
  <2>2. QED
    BY <2>1, KindsOfOne
<1>3. CASE ~Reports(w, c)
  <2>1. (\A queries : Change(w, c, queries) = <<>>) /\ Reset(w, c) = <<>>
    BY <1>3, StateSent
  <2>2. QED
    BY <1>2, <2>1
<1>4. CASE Reports(w, c)
  <2> DEFINE r == Request("state", None, texts'[w], 0)
             q == Request("state", None, texts'[w], c.resets + 1)
  <2>1. /\ w \in Surfaces
        /\ \A queries : Change(w, c, queries) = <<>> \/ Change(w, c, queries) = <<r>>
        /\ Reset(w, c) = <<q>> /\ r \in TextRequests /\ q \in TextRequests
    <3>1. /\ w \in Surfaces /\ Reset(w, c) = <<q>> /\ r \in TextRequests /\ q \in TextRequests
      BY <1>4, StateSent
    <3>2. ASSUME NEW queries
          PROVE  Change(w, c, queries) = <<>> \/ Change(w, c, queries) = <<r>>
      BY DEF Change, When
    <3>3. QED
      BY <3>1, <3>2
  <2>2. /\ r.text = texts'[w] /\ q.text = texts'[w] /\ r.n = 0
        /\ r.type = "state" /\ q.type = "state"
    BY DEF Request
  <2> HIDE DEF r, q
  <2>3. r \notin Controls /\ q \notin Controls
    BY <2>2 DEF Controls, Of
  <2>4. Known(r.text) /\ Known(q.text)
    BY <2>1, <2>2 DEF Known
  <2>5. /\ <<r>> \in Seq(TextRequests) /\ KnownIn(<<r>>) /\ Unnumbered(<<r>>)
        /\ <<q>> \in Seq(TextRequests) /\ KnownIn(<<q>>)
    BY <2>1, <2>2, <2>4 DEF KnownIn, Unnumbered
  <2>6. NoneOfKind(<<r>>, Controls) /\ NoneOfKind(<<q>>, Controls)
    BY <2>3, KindsOfOne
  <2>7. Silent(<<r>>)
    BY <2>5, <2>6
  <2> HIDE DEF Silent
  <2>8. \A queries : Silent(Change(w, c, queries))
    BY <1>2, <2>1, <2>7
  <2>9. QED
    BY <2>1, <2>5, <2>6, <2>8 DEF Silent
<1>5. QED
  BY <1>3, <1>4

\* A switch of the control sends no text.
LEMMA SwitchKnown ==
  ASSUME TextTypes, NEW from \in Targets, NEW to \in Targets, NEW d, NEW e, Switch(from, to, d, e),
         NEW new \in Seq(TextRequests), KnownIn(new)
  PROVE  /\ up \o d \in Seq(TextRequests) /\ (up \o d) \o e \in Seq(TextRequests)
         /\ ((up \o d) \o e) \o new \in Seq(TextRequests) /\ KnownIn(((up \o d) \o e) \o new)
<1>1. /\ d \in Seq(TextRequests) /\ e \in Seq(TextRequests) /\ up \in Seq(TextRequests)
      /\ KnownIn(d) /\ KnownIn(e) /\ KnownIn(up)
  BY SwitchKinds, KnownQueue DEF KnownIn, Known, TextTypes
<1>2. up \o d \in Seq(TextRequests) /\ KnownIn(up \o d)
  BY <1>1, KnownSent, Sent
<1>3. (up \o d) \o e \in Seq(TextRequests) /\ KnownIn((up \o d) \o e)
  BY <1>1, <1>2, KnownSent, Sent
<1>4. QED
  BY <1>2, <1>3, KnownSent, Sent

\* Events of the text input keep the types and the budget; a commit that is
\* inserted is one less under way.
LEMMA ContextTypes ==
  ASSUME TextTypes, Budget, ControlsFollow,
         \/ zwp_text_input_v2_enter \/ zwp_text_input_v2_leave \/ resetCallback
         \/ zwp_text_input_v2_commit_string
  PROVE  TextTypes' /\ Budget'
<1>1. /\ down \in Seq(TextEvents) /\ up \in Seq(TextRequests) /\ window \in Targets
      /\ left \in [events : 0..MaxEvents, inputs : 0..MaxInputs]
      /\ left.events \in Nat /\ left.inputs \in Nat
      /\ texts \in [Surfaces -> Text] /\ context \in Contexts
  BY BoundsAreNumbers DEF TextTypes, Contexts
<1>2. /\ left' = left /\ current' = current /\ accepts' = accepts
      /\ \E event : Receive(event)
  BY DEF zwp_text_input_v2_enter, zwp_text_input_v2_leave, resetCallback,
         zwp_text_input_v2_commit_string, compositor
<1>3. /\ down # <<>> /\ down' = Tail(down) /\ down' \in Seq(TextEvents)
      /\ Head(down).surface \in Targets
      /\ CountOf(down, Is("commit")) \in Nat /\ CountOf(down', Is("commit")) \in Nat
      /\ CountOf(down', Is("commit")) <= CountOf(down, Is("commit"))
  BY <1>2, ReceiveType
<1>4. CountOf(down', Is("commit")) + left'.events <= CountOf(down, Is("commit")) + left.events
      /\ left'.inputs <= left.inputs /\ left'.events <= left.events
  BY <1>1, <1>2, <1>3
<1>5. ASSUME TextTypes', KnownIn(up'), texts' = texts
      PROVE  TextTypes' /\ Budget'
  BY <1>1, <1>2, <1>3, <1>4, <1>5, BudgetKept
<1>6. CASE zwp_text_input_v2_enter
  <2> DEFINE entered == [context EXCEPT !.surface = Head(down).surface]
  <2>1. entered \in Contexts
    BY <1>1, <1>3 DEF Contexts
  <2>2. /\ context' = Renewed(window, entered) /\ up' = up \o Reset(window, entered)
        /\ texts' = texts
    BY <1>6 DEF zwp_text_input_v2_enter
  <2> HIDE DEF entered
  <2>3. context' \in Contexts
    BY <1>1, <2>1, <2>2, StateSent
  <2>4. up' \in Seq(TextRequests) /\ KnownIn(up')
    BY <1>1, <2>1, <2>2, StateKnown, KnownQueue, KnownSent, Sent
  <2>5. TextTypes'
    BY <1>1, <1>3, <1>6, <2>2, <2>3, <2>4
    DEF zwp_text_input_v2_enter, TextTypes, compositor, activation, Contexts
  <2>6. QED
    BY <1>5, <2>2, <2>4, <2>5
<1>7. CASE zwp_text_input_v2_leave
  <2>1. context' \in Contexts /\ up' = up /\ texts' = texts
    BY <1>1, <1>7, BlankType DEF zwp_text_input_v2_leave, Contexts
  <2>2. TextTypes' /\ KnownIn(up')
    BY <1>1, <1>3, <1>7, <2>1, KnownQueue
    DEF zwp_text_input_v2_leave, TextTypes, compositor, activation, Contexts
  <2>3. QED
    BY <1>5, <2>1, <2>2
<1>8. CASE resetCallback
  <2>1. context' \in Contexts /\ up' = up /\ texts' = texts
    BY <1>1, <1>8 DEF resetCallback, Contexts
  <2>2. TextTypes' /\ KnownIn(up')
    BY <1>1, <1>3, <1>8, <2>1, KnownQueue
    DEF resetCallback, TextTypes, compositor, activation, Contexts
  <2>3. QED
    BY <1>5, <2>1, <2>2
<1>9. CASE zwp_text_input_v2_commit_string
  <2>1. CASE context.awaits = 0 /\ Accepted(window)
    <3>1. /\ texts' = [texts EXCEPT ![window] = [texts[window] EXCEPT !.commits = @ + 1]]
          /\ up' = up \o Change(window, context, {"text"}) /\ context' = context
      BY <1>9, <2>1 DEF zwp_text_input_v2_commit_string
    <3>2. window \in Surfaces /\ texts[window] \in Text
      BY <1>1, <2>1 DEF Accepted, Targets
    <3>3. CountOf(down', Is("commit")) + 1 = CountOf(down, Is("commit"))
      BY <1>9, ReceiveType DEF zwp_text_input_v2_commit_string
    <3> DEFINE t == texts[window]
               coming == CountOf(down', Is("commit"))
    <3>4. /\ t \in Text /\ t.edits \in Nat /\ t.commits \in Nat /\ coming \in Nat
      BY <1>3, <3>2, TextFields
    <3>5. Within(t, coming + 1, left)
      BY <3>2, <3>3 DEF Budget
    <3> HIDE DEF t, coming
    <3>6. t.edits + left.inputs <= MaxInputs /\ t.commits + (coming + 1) + left.events <= MaxEvents
      BY <3>5 DEF Within
    <3>7. t.commits + 1 <= MaxEvents /\ (t.commits + 1) + coming + left.events <= MaxEvents
      BY <1>1, <3>4, <3>6, BoundsAreNumbers
    <3> DEFINE n == [t EXCEPT !.commits = @ + 1]
    <3>8. n \in Text /\ n.edits = t.edits /\ n.commits = t.commits + 1
      BY <3>4, <3>7, TextFields
    <3> HIDE DEF n
    <3>9. Within(n, coming, left)
      BY <3>6, <3>7, <3>8 DEF Within
    <3>10. texts' = [texts EXCEPT ![window] = n]
      BY <3>1 DEF n, t
    <3>11. texts' \in [Surfaces -> Text]
      BY <1>1, <3>8, <3>10
    <3>12. ASSUME NEW s \in Surfaces
           PROVE  Within(texts'[s], coming, left')
      <4>1. CASE s = window
        BY <1>1, <1>2, <3>2, <3>9, <3>10, <4>1
      <4>2. CASE s # window
        <5>1. texts'[s] = texts[s] /\ texts[s] \in Text
          BY <1>1, <3>10, <4>2
        <5>2. Within(texts[s], CountOf(down, Is("commit")), left)
          BY DEF Budget
        <5>3. Within(texts[s], coming, left)
          BY <1>1, <1>2, <1>3, <1>4, <5>1, <5>2, WithinLess DEF coming
        <5>4. QED
          BY <1>2, <5>1, <5>3
      <4>3. QED
        BY <4>1, <4>2
    <3>13. up' \in Seq(TextRequests) /\ KnownIn(up')
      BY <1>1, <3>1, <3>11, StateKnown, KnownQueue, KnownSent, Sent
    <3>14. TextTypes'
      BY <1>1, <1>3, <1>9, <3>1, <3>11, <3>13
      DEF zwp_text_input_v2_commit_string, TextTypes, compositor, activation
    <3>15. QED
      BY <1>1, <1>2, <1>3, <1>4, <3>11, <3>12, <3>13, <3>14, BudgetFrom DEF coming
  <2>2. CASE ~(context.awaits = 0 /\ Accepted(window))
    <3>1. texts' = texts /\ up' = up /\ context' = context
      BY <1>9, <2>2 DEF zwp_text_input_v2_commit_string
    <3>2. TextTypes' /\ KnownIn(up')
      BY <1>1, <1>3, <1>9, <3>1, KnownQueue
      DEF zwp_text_input_v2_commit_string, TextTypes, compositor, activation
    <3>3. QED
      BY <1>5, <3>1, <3>2
  <2>3. QED
    BY <2>1, <2>2
<1>10. QED
  BY <1>6, <1>7, <1>8, <1>9

\* An edit is paid for.
LEMMA EditTypes ==
  ASSUME TextTypes, Budget, ControlsFollow, Edit
  PROVE  /\ TextTypes' /\ Budget' /\ window \in Surfaces
         /\ texts' = [texts EXCEPT ![window] = texts'[window]]
<1>1. /\ down \in Seq(TextEvents) /\ up \in Seq(TextRequests) /\ window \in Targets
      /\ left \in [events : 0..MaxEvents, inputs : 0..MaxInputs] /\ accepts \subseteq Surfaces
      /\ texts \in [Surfaces -> Text] /\ context \in Contexts
      /\ CountOf(down, Is("commit")) \in Nat
  BY CountType DEF TextTypes, Contexts
<1>2. /\ left' \in [events : 0..MaxEvents, inputs : 0..MaxInputs]
      /\ left.events \in Nat /\ left.inputs \in Nat /\ left.inputs > 0
      /\ left'.inputs = left.inputs - 1 /\ left'.events = left.events
  BY Spent DEF Edit
<1>3. /\ texts' = [texts EXCEPT ![window] = [texts[window] EXCEPT !.edits = @ + 1]]
      /\ window \in Surfaces /\ window # None /\ accepts' = accepts /\ update({"text"})
      /\ down' = down /\ current' = current
  BY NoneIsNoSurface, <1>1 DEF Edit, compositor
<1> DEFINE t == texts[window]
           coming == CountOf(down, Is("commit"))
<1>4. /\ t \in Text /\ t.edits \in Nat /\ t.commits \in Nat /\ coming \in Nat
      /\ Within(t, coming, left)
  BY <1>1, <1>3, TextFields DEF Budget
<1> HIDE DEF t, coming
<1>5. t.edits + left.inputs <= MaxInputs /\ t.commits + coming + left.events <= MaxEvents
  BY <1>4 DEF Within
<1>6. t.edits + 1 <= MaxInputs /\ (t.edits + 1) + (left.inputs - 1) <= MaxInputs
  BY <1>2, <1>4, <1>5, BoundsAreNumbers
<1> DEFINE n == [t EXCEPT !.edits = @ + 1]
<1>7. n \in Text /\ n.edits = t.edits + 1 /\ n.commits = t.commits
  BY <1>4, <1>6, TextFields
<1> HIDE DEF n
<1>8. Within(n, coming, left')
  BY <1>2, <1>5, <1>6, <1>7 DEF Within
<1>9. texts' = [texts EXCEPT ![window] = n]
  BY <1>3 DEF n, t
<1>10. texts' \in [Surfaces -> Text] /\ texts'[window] = n
  BY <1>1, <1>3, <1>7, <1>9
<1>11. left'.inputs <= left.inputs /\ left'.events <= left.events
       /\ coming + left'.events <= coming + left.events
  BY <1>2, <1>4
<1>12. ASSUME NEW s \in Surfaces
       PROVE  Within(texts'[s], coming, left')
  <2>1. CASE s = window
    BY <1>8, <1>10, <2>1
  <2>2. CASE s # window
    <3>1. texts'[s] = texts[s] /\ texts[s] \in Text
      BY <1>1, <1>9, <2>2
    <3>2. Within(texts[s], coming, left)
      BY DEF Budget, coming
    <3>3. QED
      BY <1>1, <1>2, <1>4, <1>11, <3>1, <3>2, WithinLess
  <2>3. QED
    BY <2>1, <2>2
<1>13. /\ context' \in Contexts
       /\ \E d, e : /\ Switch(context.current, context'.current, d, e)
                    /\ up' = ((up \o d) \o e) \o Change(window, context, {"text"})
  BY <1>1, <1>3, <1>10, UpdateSends
<1>14. up' \in Seq(TextRequests) /\ KnownIn(up')
  <2>1. context.current \in Targets /\ context'.current \in Targets
    BY <1>1, <1>13 DEF Contexts
  <2>2. /\ Change(window, context, {"text"}) \in Seq(TextRequests)
        /\ KnownIn(Change(window, context, {"text"}))
    BY <1>1, <1>10, StateKnown
  <2>3. QED
    BY <1>13, <2>1, <2>2, SwitchKnown
<1>15. TextTypes'
  BY <1>1, <1>2, <1>3, <1>10, <1>13, <1>14 DEF Edit, TextTypes, compositor, activation, Contexts
<1>16. Budget'
  BY <1>1, <1>2, <1>3, <1>10, <1>11, <1>12, <1>14, BudgetFrom DEF coming
<1>17. QED
  BY <1>3, <1>9, <1>10, <1>15, <1>16

\* Other inputs of the application and activations keep the types and the budget.
LEMMA InputTypes ==
  ASSUME TextTypes, Budget, ControlsFollow, Toggles \/ reset \/ DeliverActivation
  PROVE  TextTypes' /\ Budget'
<1>1. /\ down \in Seq(TextEvents) /\ up \in Seq(TextRequests) /\ window \in Targets
      /\ left \in [events : 0..MaxEvents, inputs : 0..MaxInputs] /\ accepts \subseteq Surfaces
      /\ texts \in [Surfaces -> Text] /\ context \in Contexts
      /\ posted \in Seq(Targets) /\ CountOf(down, Is("commit")) \in Nat
      /\ left.events \in Nat /\ left.inputs \in Nat
  <2>1. /\ down \in Seq(TextEvents) /\ up \in Seq(TextRequests) /\ window \in Targets
        /\ left \in [events : 0..MaxEvents, inputs : 0..MaxInputs] /\ accepts \subseteq Surfaces
        /\ texts \in [Surfaces -> Text] /\ context \in Contexts /\ posted \in Seq(Targets)
    BY DEF TextTypes, Contexts
  <2>2. CountOf(down, Is("commit")) \in Nat
    BY <2>1, CountType
  <2>3. left.events \in 0..MaxEvents /\ left.inputs \in 0..MaxInputs
    BY <2>1
  <2>4. left.events \in Nat /\ left.inputs \in Nat
    BY <2>3, BoundsAreNumbers
  <2>5. QED
    BY <2>1, <2>2, <2>4
<1>2. texts' = texts /\ down' = down /\ current' = current
  BY DEF Toggles, Toggle, reset, DeliverActivation, compositor
<1>3. ASSUME TextTypes', KnownIn(up'), left'.inputs <= left.inputs, left'.events = left.events
      PROVE  TextTypes' /\ Budget'
  <2>1. left'.events <= left.events
        /\ CountOf(down', Is("commit")) + left'.events <= CountOf(down, Is("commit")) + left.events
    BY <1>1, <1>2, <1>3
  <2>2. down' \in Seq(TextEvents) /\ left' \in [events : 0..MaxEvents, inputs : 0..MaxInputs]
    BY <1>3 DEF TextTypes
  <2>3. QED
    BY <1>2, <1>3, <2>1, <2>2, BudgetKept
<1>4. Toggles \/ reset =>
        /\ left' \in [events : 0..MaxEvents, inputs : 0..MaxInputs]
        /\ left'.inputs <= left.inputs /\ left'.events = left.events
  <2>1. Toggles \/ reset => Spend("inputs")
    BY DEF Toggles, Toggle, reset
  <2>2. QED
    BY <1>1, <2>1, Spent
<1>5. CASE Toggles
  <2>1. PICK queries \in {{"enabled"}, {"enabled", "text"}} : Toggle(queries)
    BY <1>5 DEF Toggles
  <2>2. accepts' \subseteq Surfaces /\ window # None /\ update(queries)
    BY <1>1, <2>1 DEF Toggle, Targets
  <2>3. /\ context' \in Contexts
        /\ \E d, e : /\ Switch(context.current, context'.current, d, e)
                     /\ up' = ((up \o d) \o e) \o Change(window, context, queries)
    BY <1>1, <1>2, <2>2, UpdateSends
  <2>4. context.current \in Targets /\ context'.current \in Targets
    BY <1>1, <2>3 DEF Contexts
  <2>5. /\ Change(window, context, queries) \in Seq(TextRequests)
        /\ KnownIn(Change(window, context, queries))
    BY <1>1, <1>2, StateKnown
  <2>6. up' \in Seq(TextRequests) /\ KnownIn(up')
    BY <2>3, <2>4, <2>5, SwitchKnown
  <2>7. TextTypes'
    <3>1. /\ focus' = focus /\ enabled' = enabled /\ window' = window /\ controls' = controls
          /\ display' = display /\ posted' = posted /\ handled' = handled
      BY <2>1 DEF Toggle, compositor, activation
    <3>2. left' \in [events : 0..MaxEvents, inputs : 0..MaxInputs]
      BY <1>4, <1>5
    <3>3. QED
      BY <1>2, <2>2, <2>3, <2>6, <3>1, <3>2 DEF TextTypes, Contexts
  <2>8. QED
    BY <1>3, <1>4, <1>5, <2>6, <2>7
<1>6. CASE reset
  <2>1. /\ context' = Renewed(window, context) /\ up' = up \o Reset(window, context)
        /\ accepts' = accepts
    BY <1>6 DEF reset
  <2>2. context' \in Contexts
    BY <1>1, <1>2, <2>1, StateSent
  <2>3. up' \in Seq(TextRequests) /\ KnownIn(up')
    BY <1>1, <1>2, <2>1, StateKnown, KnownQueue, KnownSent, Sent
  <2>4. TextTypes'
    BY <1>1, <1>2, <1>4, <1>6, <2>1, <2>2, <2>3
       DEF reset, TextTypes, compositor, activation, Contexts
  <2>5. QED
    BY <1>3, <1>4, <1>6, <2>3, <2>4
<1>7. CASE DeliverActivation
  <2>1. /\ posted # <<>> /\ posted' = Tail(posted) /\ window' = Head(posted)
        /\ accepts' = accepts /\ left' = left /\ display' = display
        /\ focus' = focus /\ enabled' = enabled /\ controls' = controls /\ handled' = handled
    BY <1>7 DEF DeliverActivation, compositor
  <2>2. posted' \in Seq(Targets) /\ window' \in Targets
    BY <1>1, <2>1
  <2>3. context' \in Contexts /\ up' \in Seq(TextRequests) /\ KnownIn(up')
    <3>1. CASE window' = window
      <4>1. context' = context /\ up' = up
        BY <1>7, <3>1 DEF DeliverActivation
      <4>2. QED
        BY <1>1, <4>1, KnownQueue
    <3>2. CASE window' # window
      <4> DEFINE w == window'
                 new == IF w \in accepts THEN w ELSE None
                 c == [context EXCEPT !.current = new]
      <4>1. setFocusObject(w)
        BY <1>7, <3>2 DEF DeliverActivation
      <4>2. w \in Targets
        BY <2>2
      <4> HIDE DEF w
      <4>3. /\ new \in Targets /\ c \in Contexts
            /\ context' = IF w \in accepts THEN Renewed(w, c) ELSE c
            /\ \E d, e : /\ Switch(context.current, new, d, e)
                         /\ up' = ((up \o d) \o e) \o (IF w \in accepts THEN Reset(w, c) ELSE <<>>)
        BY <1>2, <2>1, <4>1, <4>2, SetFocusObjectSends
      <4> HIDE DEF new, c
      <4>4. context' \in Contexts
        BY <1>1, <1>2, <4>2, <4>3, StateSent
      <4> DEFINE r == IF w \in accepts THEN Reset(w, c) ELSE <<>>
      <4>5. r \in Seq(TextRequests) /\ KnownIn(r)
        <5>1. Reset(w, c) \in Seq(TextRequests) /\ KnownIn(Reset(w, c))
          BY <1>1, <1>2, <4>2, <4>3, StateKnown
        <5>2. <<>> \in Seq(TextRequests) /\ KnownIn(<<>>)
          BY KnownQueue
        <5>3. QED
          BY <5>1, <5>2
      <4>6. PICK d, e : Switch(context.current, new, d, e) /\ up' = ((up \o d) \o e) \o r
        BY <4>3
      <4> HIDE DEF r
      <4>7. context.current \in Targets
        BY <1>1 DEF Contexts
      <4>8. up' \in Seq(TextRequests) /\ KnownIn(up')
        BY <4>3, <4>5, <4>7, <4>6, SwitchKnown
      <4>9. QED
        BY <4>4, <4>8
    <3>3. QED
      BY <3>1, <3>2
  <2>4. TextTypes'
    BY <1>1, <1>2, <2>1, <2>2, <2>3 DEF TextTypes, Contexts
  <2>5. QED
    BY <1>1, <1>3, <2>1, <2>3, <2>4
<1>8. QED
  BY <1>5, <1>6, <1>7

\* Every step keeps the types and the budget.
LEMMA TypesKept ==
  ASSUME TextTypes, Budget, ControlsFollow, TextNext
  PROVE  TextTypes' /\ Budget'
BY ServerTypes, RequestTypes, ActivationTypes, ContextTypes, EditTypes, InputTypes
   DEF TextNext, Toggles

-----------------------------------------------------------------------------
(* The focus, and the windows that are active *)

\* A step of the compositor that moves no focus.
LEMMA OneSent ==
  ASSUME TextTypes, sendInputMethodEvent \/ SendKey \/ HandleRequest
  PROVE  /\ \E es \in Seq(TextEvents) : /\ down' = down \o es /\ LeavesToNone(es)
                                        /\ NoneOfKind(es, Moves) /\ NoneOfKind(es, Is("keyboard"))
         /\ focus' = focus /\ context' = context /\ display' = display /\ window' = window
         /\ accepts' = accepts /\ texts' = texts
<1>1. down \in Seq(TextEvents) /\ focus \in Targets /\ handled \in Nat
  BY DEF TextTypes
<1> DEFINE Other(es) == /\ es \in Seq(TextEvents) /\ LeavesToNone(es)
                        /\ NoneOfKind(es, Moves) /\ NoneOfKind(es, Is("keyboard"))
<1>2. ASSUME NEW e \in TextEvents, e.event \in {"commit", "key", "done"}
      PROVE  Other(<<e>>)
  <2>1. e \notin Moves /\ e \notin Is("keyboard") /\ e \notin Is("leave")
    BY <1>2 DEF Moves, Is
  <2>2. NoneOfKind(<<e>>, Moves) /\ NoneOfKind(<<e>>, Is("keyboard"))
    BY <2>1, KindsOfOne
  <2>3. <<e>> \in Seq(TextEvents) /\ LeavesToNone(<<e>>)
    BY <2>1 DEF LeavesToNone
  <2>4. QED
    BY <2>2, <2>3
<1>3. Other(<<>>)
  <2>1. NoneOfKind(<<>>, Moves) /\ NoneOfKind(<<>>, Is("keyboard"))
    BY KindsOfOne
  <2>2. QED
    BY <2>1 DEF LeavesToNone
<1> HIDE DEF Other
<1>4. \A e \in TextEvents : Append(down, e) = down \o <<e>>
  BY <1>1
<1>5. CASE sendInputMethodEvent
  <2> DEFINE e == Event("commit", focus, handled)
  <2>1. e \in TextEvents /\ e.event = "commit" /\ down' = Append(down, e)
    BY <1>1, <1>5, EventType DEF sendInputMethodEvent
  <2> HIDE DEF e
  <2>2. Other(<<e>>) /\ down' = down \o <<e>>
    BY <1>2, <1>4, <2>1
  <2>3. QED
    BY <1>5, <2>2 DEF sendInputMethodEvent, activation, Other
<1>6. CASE SendKey
  <2> DEFINE e == Event("key", focus, 0)
  <2>1. e \in TextEvents /\ e.event = "key"
    BY <1>1, EventType
  <2>2. down' = Append(down, e)
    BY <1>6 DEF SendKey
  <2> HIDE DEF e
  <2>3. Other(<<e>>) /\ down' = down \o <<e>>
    BY <1>2, <1>4, <2>1, <2>2
  <2>4. QED
    BY <1>6, <2>3 DEF SendKey, activation, compositor, Other
<1>7. CASE HandleRequest
  <2>1. PICK es \in Seq(TextEvents) :
          /\ down' = down \o es
          /\ \/ es = <<>>
             \/ es = <<Event("done", None, Head(up).n)>>
             \/ es = <<Event("done", None, 0)>>
    BY <1>7, RequestTaken
  <2>2. Head(up).n \in Nat
    BY <1>7, RequestTaken
  <2>3. /\ Event("done", None, Head(up).n) \in TextEvents
        /\ Event("done", None, 0) \in TextEvents
        /\ Event("done", None, Head(up).n).event = "done"
        /\ Event("done", None, 0).event = "done"
    BY <2>2, BlankType, EventType
  <2>4. Other(<<Event("done", None, Head(up).n)>>) /\ Other(<<Event("done", None, 0)>>)
    BY <1>2, <2>3
  <2>5. Other(es)
    BY <1>3, <2>1, <2>4
  <2>6. QED
    BY <1>7, <2>1, <2>5 DEF HandleRequest, activation, Other
<1>8. QED
  BY <1>5, <1>6, <1>7

\* The surface of the text input is that of its events.
LEMMA SurfaceKept ==
  ASSUME TextTypes, Budget, ControlsFollow,
         \/ zwp_text_input_v2_commit_string \/ resetCallback
         \/ Edit \/ Toggles \/ reset \/ DeliverActivation
  PROVE  /\ context' \in Contexts /\ context'.surface = context.surface
         /\ focus' = focus /\ display' = display
<1>1. context \in Contexts /\ window \in Targets /\ texts \in [Surfaces -> Text]
  BY DEF TextTypes, Contexts
<1>2. context' \in Contexts /\ window' \in Targets /\ texts' \in [Surfaces -> Text]
      /\ accepts' \subseteq Surfaces
  <2>1. TextTypes'
    BY TypesKept DEF TextNext, Toggles
  <2>2. QED
    BY <2>1 DEF TextTypes, Contexts
<1>3. focus' = focus /\ display' = display
  BY DEF zwp_text_input_v2_commit_string, resetCallback, Edit, Toggles, Toggle, reset,
         DeliverActivation, compositor, activation
<1>4. CASE zwp_text_input_v2_commit_string \/ resetCallback
  <2>1. context' = context \/ context' = [context EXCEPT !.awaits = context'.awaits]
    BY <1>1, <1>4 DEF zwp_text_input_v2_commit_string, resetCallback, Contexts
  <2>2. QED
    BY <1>1, <1>2, <1>3, <2>1 DEF Contexts
<1>5. CASE Edit \/ Toggles
  <2>1. PICK queries : update(queries) /\ window # None
    BY <1>5, Updates
  <2>2. context' = [context EXCEPT !.current = context'.current]
    BY <1>2, <2>1, UpdateSends
  <2>3. QED
    BY <1>1, <1>2, <1>3, <2>2 DEF Contexts
<1>6. CASE reset
  <2>1. context' = Renewed(window, context)
    BY <1>6 DEF reset
  <2>2. QED
    BY <1>1, <1>2, <1>3, <2>1, StateSent
<1>7. CASE DeliverActivation
  <2>1. CASE window' = window
    BY <1>1, <1>3, <1>7, <2>1 DEF DeliverActivation
  <2>2. CASE window' # window
    <3> DEFINE w == window'
               new == IF w \in accepts THEN w ELSE None
               c == [context EXCEPT !.current = new]
    <3>1. setFocusObject(w) /\ texts' = texts /\ accepts' = accepts
      BY <1>7, <2>2 DEF DeliverActivation
    <3>2. w \in Targets
      BY <1>2
    <3> HIDE DEF w
    <3>3. /\ new \in Targets /\ c \in Contexts
          /\ context' = IF w \in accepts THEN Renewed(w, c) ELSE c
      BY <3>1, <3>2, SetFocusObjectSends
    <3>4. c.surface = context.surface
      BY <1>1 DEF Contexts
    <3> HIDE DEF new, c
    <3>5. Renewed(w, c).surface = c.surface
      BY <1>2, <3>2, <3>3, StateSent
    <3>6. QED
      BY <1>2, <1>3, <3>3, <3>4, <3>5
  <2>3. QED
    BY <2>1, <2>2
<1>8. QED
  BY <1>4, <1>5, <1>6, <1>7

\* Every step keeps the client's focus behind the compositor's.
LEMMA FocusKept ==
  ASSUME TextTypes, Budget, ControlsFollow, FocusFollows, TextNext
  PROVE  FocusFollows'
<1>1. /\ down \in Seq(TextEvents) /\ context \in Contexts
      /\ Arrives(down, Moves, context.surface, focus) /\ LeavesToNone(down)
  BY DEF TextTypes, Contexts, FocusFollows
<1>2. CASE \E s \in Targets : setFocus(s)
  <2>1. PICK s \in Targets : setFocus(s)
    BY <1>2
  <2>2. PICK k, t \in Seq(TextEvents) :
          /\ down' = (down \o k) \o t
          /\ LeavesToNone(k) /\ LeavesToNone(t)
          /\ NoneOfKind(k, Moves) /\ ~NoneOfKind(t, Moves)
          /\ \A now : Arrives(t, Moves, now, s)
    BY <2>1, SetFocusSends
  <2>3. focus' = s /\ context' = context
    BY <2>1 DEF setFocus
  <2>4. down \o k \in Seq(TextEvents) /\ LeavesToNone(down \o k)
    BY <1>1, <2>2, LeavesKept, Sent
  <2>5. LeavesToNone((down \o k) \o t)
    BY <2>2, <2>4, LeavesKept
  <2>6. Arrives(down \o k, Moves, context.surface, focus)
    BY <1>1, <2>2, ArrivesSent
  <2>7. Arrives((down \o k) \o t, Moves, context.surface, s)
    BY <2>2, <2>4, <2>6, ArrivesSent
  <2>8. QED
    BY <2>2, <2>3, <2>5, <2>7 DEF FocusFollows
<1>3. CASE sendInputMethodEvent \/ SendKey \/ HandleRequest
  <2>1. PICK es \in Seq(TextEvents) :
          down' = down \o es /\ LeavesToNone(es) /\ NoneOfKind(es, Moves)
    BY <1>3, OneSent
  <2>2. focus' = focus /\ context' = context
    BY <1>3, OneSent
  <2>3. Arrives(down \o es, Moves, context.surface, focus) /\ LeavesToNone(down \o es)
    BY <1>1, <2>1, LeavesKept, ArrivesSent
  <2>4. QED
    BY <2>1, <2>2, <2>3 DEF FocusFollows
<1>4. ASSUME NEW event, event \notin {"enter", "leave"}, Receive(event), focus' = focus,
             context'.surface = context.surface
      PROVE  FocusFollows'
  <2>1. down # <<>> /\ down' = Tail(down) /\ Head(down).event = event
    BY <1>4, ReceiveType
  <2>2. Head(down) \notin Moves
    BY <1>4, <2>1 DEF Moves, Is
  <2>3. Arrives(Tail(down), Moves, context.surface, focus) /\ LeavesToNone(Tail(down))
    BY <1>1, <2>1, <2>2, ArrivesReceived, LeavesKept
  <2>4. QED
    BY <1>4, <2>1, <2>3 DEF FocusFollows
<1>5. CASE handleKeyboardFocusChanged \/ handleWaylandSync \/ keyboard_key
  <2>1. focus' = focus /\ context' = context
        /\ \E event \in {"keyboard", "done", "key"} : Receive(event)
    BY <1>5 DEF handleKeyboardFocusChanged, handleWaylandSync, keyboard_key, compositor
  <2>2. QED
    BY <1>4, <2>1
<1>6. CASE zwp_text_input_v2_commit_string \/ resetCallback
  <2>1. \E event \in {"commit", "done"} : Receive(event)
    BY <1>6 DEF zwp_text_input_v2_commit_string, resetCallback
  <2>2. focus' = focus /\ context'.surface = context.surface
    BY <1>6, SurfaceKept
  <2>3. QED
    BY <1>4, <2>1, <2>2
<1>7. CASE zwp_text_input_v2_enter \/ zwp_text_input_v2_leave
  <2>1. PICK event \in {"enter", "leave"} : Receive(event)
    BY <1>7 DEF zwp_text_input_v2_enter, zwp_text_input_v2_leave
  <2>2. down # <<>> /\ down' = Tail(down) /\ Head(down) \in Is(event) /\ Head(down).event = event
        /\ Head(down).surface \in Targets
    BY <2>1, ReceiveType
  <2>3. Head(down) \in Moves
    BY <2>2 DEF Moves
  <2>4. /\ Arrives(Tail(down), Moves, Head(down).surface, focus) /\ LeavesToNone(Tail(down))
        /\ event = "leave" => Head(down).surface = None
    BY <1>1, <2>2, <2>3, ArrivesReceived, LeavesKept
  <2>5. focus' = focus /\ context'.surface = Head(down).surface
    <3>1. CASE zwp_text_input_v2_leave
      <4>1. Head(down).event = "leave" /\ context' = [context EXCEPT !.surface = None]
        BY <3>1 DEF zwp_text_input_v2_leave, Receive
      <4>2. QED
        BY <1>1, <2>2, <2>4, <3>1, <4>1 DEF Contexts, zwp_text_input_v2_leave, compositor
    <3>2. CASE zwp_text_input_v2_enter
      <4> DEFINE entered == [context EXCEPT !.surface = Head(down).surface]
      <4>1. context' = Renewed(window, entered) /\ texts' = texts /\ focus' = focus
        BY <3>2 DEF zwp_text_input_v2_enter, compositor
      <4>2. entered \in Contexts /\ entered.surface = Head(down).surface
        BY <1>1, <2>2 DEF Contexts
      <4> HIDE DEF entered
      <4>3. texts' \in [Surfaces -> Text] /\ window \in Targets
        BY <4>1 DEF TextTypes
      <4>4. QED
        BY <4>1, <4>2, <4>3, StateSent
    <3>3. QED
      BY <1>7, <3>1, <3>2
  <2>6. QED
    BY <2>2, <2>4, <2>5 DEF FocusFollows
<1>8. CASE Edit \/ Toggles \/ reset \/ DeliverActivation
  <2>1. focus' = focus /\ context'.surface = context.surface
    BY <1>8, SurfaceKept
  <2>2. down' = down
    BY <1>8 DEF Edit, Toggles, Toggle, reset, DeliverActivation
  <2>3. QED
    BY <1>1, <2>1, <2>2 DEF FocusFollows
<1>9. QED
  BY <1>2, <1>3, <1>5, <1>6, <1>7, <1>8 DEF TextNext, Toggles

\* The list of active windows is that of the window with the focus: the window
\* that loses it is removed, and the other comes last.
LEMMA ActiveAfter ==
  ASSUME NEW old \in Targets, NEW new \in Targets, new # old
  PROVE  LET active == When(old # None, <<old>>)
             activated == IF new = None \/ new \in Range(active) THEN active
                          ELSE Append(active, new)
         IN  Without(activated, {old}) = When(new # None, <<new>>)
<1> DEFINE active == When(old # None, <<old>>)
           activated == IF new = None \/ new \in Range(active) THEN active
                        ELSE Append(active, new)
<1>1. /\ old # None => active = <<old>> /\ old \in Surfaces
      /\ old = None => active = <<>>
      /\ new # None => new \in Surfaces
  BY DEF When, Targets
<1> HIDE DEF active
<1>2. active \in Seq(Surfaces)
  <2>1. CASE old = None
    <3>1. <<>> \in Seq(Surfaces)
      OBVIOUS
    <3>2. QED
      BY <1>1, <2>1, <3>1
  <2>2. CASE old # None
    <3>1. <<old>> \in Seq(Surfaces)
      BY <1>1, <2>2
    <3>2. QED
      BY <1>1, <2>2, <3>1
  <2>3. QED
    BY <2>1, <2>2
<1>3. Range(active) = {old} \ {None}
  <2>1. Range(<<old>>) = {old} /\ Range(<<>>) = {}
    BY DEF Range
  <2>2. QED
    BY <1>1, <2>1
<1>4. IsInjective(active)
  <2>1. IsInjective(<<>>) /\ IsInjective(<<old>>)
    BY DEF IsInjective
  <2>2. QED
    BY <1>1, <2>1
<1>5. /\ activated \in Seq(Surfaces) /\ IsInjective(activated)
      /\ Range(activated) = (Range(active) \cup {new}) \ {None}
  <2>1. CASE new = None
    BY <1>2, <1>3, <1>4, <2>1
  <2>2. CASE new # None
    <3>1. new \in Surfaces /\ new \notin Range(active) /\ new # None
      BY <1>1, <1>3, <2>2
    <3>2. activated = Append(active, new)
      BY <3>1
    <3>3. Append(active, new) \in Seq(Surfaces)
      BY <1>2, <3>1
    <3>4. QED
      BY <1>2, <1>3, <1>4, <3>1, <3>2, <3>3, AppendAdds
  <2>3. QED
    BY <2>1, <2>2
<1> HIDE DEF activated
<1>6. Range(activated) \ {old} = {new} \ {None}
  BY <1>3, <1>5
<1>7. Without(activated, {old}) = When(new # None, <<new>>)
  <2>1. CASE new = None
    <3>1. Range(activated) \ {old} = {}
      BY <1>6, <2>1
    <3>2. Without(activated, {old}) = <<>>
      BY <1>5, <3>1, WithoutLeavesNone
    <3>3. QED
      BY <2>1, <3>2 DEF When
  <2>2. CASE new # None
    <3>1. Range(activated) \ {old} = {new}
      BY <1>6, <2>2
    <3>2. Without(activated, {old}) = <<new>>
      BY <1>5, <3>1, WithoutLeavesOne
    <3>3. QED
      BY <2>2, <3>2 DEF When
  <2>3. QED
    BY <2>1, <2>2
<1>8. QED
  BY <1>7 DEF activated, active

\* What the input context sends comes after what it sent before.
LEMMA ContextSends ==
  ASSUME TextTypes, Budget, ControlsFollow,
         \/ zwp_text_input_v2_enter \/ zwp_text_input_v2_leave \/ resetCallback
         \/ zwp_text_input_v2_commit_string
         \/ Edit \/ Toggles \/ reset \/ DeliverActivation
  PROVE  /\ \E new \in Seq(TextRequests) : up' = up \o new
         /\ display' = display /\ focus' = focus
<1>1. /\ up \in Seq(TextRequests) /\ context \in Contexts /\ window \in Targets
      /\ context.current \in Targets /\ down \in Seq(TextEvents)
  BY DEF TextTypes, Contexts
<1>2. /\ texts' \in [Surfaces -> Text] /\ accepts' \subseteq Surfaces /\ window' \in Targets
      /\ context' \in Contexts /\ context'.current \in Targets
  <2>1. TextTypes'
    BY TypesKept DEF TextNext, Toggles
  <2>2. QED
    BY <2>1 DEF TextTypes, Contexts
<1>3. up = up \o <<>> /\ <<>> \in Seq(TextRequests)
  BY <1>1
<1>4. display' = display /\ focus' = focus
  BY DEF zwp_text_input_v2_enter, zwp_text_input_v2_leave, resetCallback,
         zwp_text_input_v2_commit_string, Edit, Toggles, Toggle, reset, DeliverActivation,
         activation, compositor
<1>5. ASSUME NEW d, NEW e, NEW from \in Targets, NEW to \in Targets, Switch(from, to, d, e),
             NEW new \in Seq(TextRequests), up' = ((up \o d) \o e) \o new
      PROVE  \E more \in Seq(TextRequests) : up' = up \o more
  <2>1. d \in Seq(TextRequests) /\ e \in Seq(TextRequests)
    BY <1>5, SwitchKinds
  <2>2. (up \o d) \o e = up \o (d \o e) /\ d \o e \in Seq(TextRequests)
    BY <1>1, <2>1, SentTwice
  <2>3. PICK both \in Seq(TextRequests) : (up \o d) \o e = up \o both
    BY <2>2
  <2>4. (up \o both) \o new = up \o (both \o new) /\ both \o new \in Seq(TextRequests)
    BY <1>1, <1>5, SentTwice
  <2>5. QED
    BY <1>5, <2>3, <2>4
<1>6. CASE zwp_text_input_v2_leave \/ resetCallback
  BY <1>3, <1>4, <1>6 DEF zwp_text_input_v2_leave, resetCallback
<1>7. CASE zwp_text_input_v2_commit_string
  <2>1. up' = up \/ up' = up \o Change(window, context, {"text"})
    BY <1>7 DEF zwp_text_input_v2_commit_string
  <2>2. Change(window, context, {"text"}) \in Seq(TextRequests)
    BY <1>1, <1>2, StateKnown
  <2>3. QED
    BY <1>3, <1>4, <2>1, <2>2
<1>8. CASE zwp_text_input_v2_enter
  <2> DEFINE c == [context EXCEPT !.surface = Head(down).surface]
  <2>1. up' = up \o Reset(window, c)
    BY <1>8 DEF zwp_text_input_v2_enter
  <2>2. Head(down).surface \in Targets
    BY <1>8, ReceiveType DEF zwp_text_input_v2_enter
  <2>3. c \in Contexts
    BY <1>1, <2>2 DEF Contexts
  <2> HIDE DEF c
  <2>4. Reset(window, c) \in Seq(TextRequests)
    BY <1>1, <1>2, <2>3, StateKnown
  <2>5. QED
    BY <1>4, <2>1, <2>4
<1>9. CASE Edit \/ Toggles
  <2>1. PICK queries : update(queries) /\ window # None
    BY <1>9, Updates
  <2>2. PICK d, e : /\ Switch(context.current, context'.current, d, e)
                    /\ up' = ((up \o d) \o e) \o Change(window, context, queries)
    BY <1>2, <2>1, UpdateSends
  <2>3. Change(window, context, queries) \in Seq(TextRequests)
    BY <1>1, <1>2, StateKnown
  <2>4. QED
    BY <1>1, <1>2, <1>4, <1>5, <2>2, <2>3
<1>10. CASE reset
  <2>1. up' = up \o Reset(window, context)
    BY <1>10 DEF reset
  <2>2. Reset(window, context) \in Seq(TextRequests)
    BY <1>1, <1>2, StateKnown
  <2>3. QED
    BY <1>4, <2>1, <2>2
<1>11. CASE DeliverActivation
  <2>1. CASE window' = window
    BY <1>3, <1>4, <1>11, <2>1 DEF DeliverActivation
  <2>2. CASE window' # window
    <3> DEFINE w == window'
               new == IF w \in accepts THEN w ELSE None
               c == [context EXCEPT !.current = new]
               r == IF w \in accepts THEN Reset(w, c) ELSE <<>>
    <3>1. setFocusObject(w) /\ texts' = texts /\ accepts' = accepts
      BY <1>11, <2>2 DEF DeliverActivation
    <3>2. w \in Targets
      BY <1>2
    <3> HIDE DEF w
    <3>3. /\ new \in Targets /\ c \in Contexts
          /\ \E d, e : Switch(context.current, new, d, e) /\ up' = ((up \o d) \o e) \o r
      BY <3>1, <3>2, SetFocusObjectSends
    <3> HIDE DEF new, c
    <3>4. r \in Seq(TextRequests)
      <4>1. Reset(w, c) \in Seq(TextRequests)
        BY <1>2, <3>2, <3>3, StateKnown
      <4>2. QED
        BY <1>3, <4>1
    <3> HIDE DEF r
    <3>5. QED
      BY <1>1, <1>4, <1>5, <3>3, <3>4
  <2>3. QED
    BY <2>1, <2>2
<1>12. QED
  BY <1>6, <1>7, <1>8, <1>9, <1>10, <1>11

\* Every step keeps the active windows behind the keyboard's focus.
LEMMA ActivationKept ==
  ASSUME TextTypes, Budget, ControlsFollow, Activation, TextNext
  PROVE  Activation'
<1>1. /\ down \in Seq(TextEvents) /\ up \in Seq(TextRequests) /\ focus \in Targets
      /\ display \in [active : Seq(Surfaces), last : Targets, syncing : BOOLEAN]
      /\ Arrives(down, Is("keyboard"), display.last, focus)
      /\ display.active = When(display.last # None, <<display.last>>)
      /\ display.syncing => SyncWaits(up, down)
      /\ <<>> \in Seq(TextEvents) /\ <<>> \in Seq(TextRequests)
  BY DEF TextTypes, Activation
<1>2. CASE \E s \in Targets : setFocus(s)
  <2>1. PICK s \in Targets : setFocus(s)
    BY <1>2
  <2>2. PICK k, t \in Seq(TextEvents) :
          /\ down' = (down \o k) \o t
          /\ NoneOfKind(t, Is("keyboard"))
          /\ \A now : Arrives(k, Is("keyboard"), now, s) /\ ~NoneOfKind(k, Is("keyboard"))
    BY <2>1, SetFocusSends
  <2>3. focus' = s /\ display' = display /\ up' = up
    BY <2>1 DEF setFocus, activation
  <2>4. down \o k \in Seq(TextEvents)
    BY <1>1, <2>2, Sent
  <2>5. Arrives(down \o k, Is("keyboard"), display.last, s)
    BY <1>1, <2>2, ArrivesSent
  <2>6. Arrives((down \o k) \o t, Is("keyboard"), display.last, s)
    BY <2>2, <2>4, <2>5, ArrivesSent
  <2>7. display.syncing => SyncWaits(up, (down \o k) \o t)
    <3>1. display.syncing => SyncWaits(up, down \o k)
      BY <1>1, <2>2, SyncWaitsOn
    <3>2. QED
      BY <1>1, <2>2, <2>4, <3>1, SyncWaitsOn
  <2>8. QED
    BY <1>1, <2>2, <2>3, <2>6, <2>7 DEF Activation
<1>3. CASE sendInputMethodEvent \/ SendKey \/ HandleRequest
  <2>1. PICK es \in Seq(TextEvents) :
          down' = down \o es /\ NoneOfKind(es, Is("keyboard"))
    BY <1>3, OneSent
  <2>2. focus' = focus /\ display' = display
    BY <1>3, OneSent
  <2>3. Arrives(down \o es, Is("keyboard"), display.last, focus)
    BY <1>1, <2>1, ArrivesSent
  <2>4. display.syncing => SyncWaits(up', down')
    <3>1. display.syncing => SyncWaits(up, down')
      BY <1>1, <2>1, SyncWaitsOn
    <3>2. CASE sendInputMethodEvent \/ SendKey
      BY <3>1, <3>2 DEF sendInputMethodEvent, SendKey
    <3>3. CASE HandleRequest
      <4>1. up # <<>> /\ up' = Tail(up) /\ down' \in Seq(TextEvents)
        BY <1>1, <2>1, <3>3, RequestTaken, Sent
      <4>2. CASE Head(up).type # "sync"
        BY <1>1, <3>1, <4>1, <4>2, SyncWaitsOn
      <4>3. CASE Head(up).type = "sync"
        <5> DEFINE e == Event("done", None, 0)
        <5>1. down' = Append(down, e)
          BY <3>3, <4>3 DEF HandleRequest, update_state, enable, disable, AnswerSync
        <5>2. e.event = "done" /\ e.n = 0 /\ e \in TextEvents
          BY BlankType, EventType
        <5> HIDE DEF e
        <5>3. Len(down) + 1 \in 1..Len(down') /\ down'[Len(down) + 1] = e
          BY <1>1, <5>1
        <5>4. QED
          BY <5>2, <5>3 DEF SyncWaits
      <4>4. QED
        BY <4>2, <4>3
    <3>4. QED
      BY <1>3, <3>2, <3>3
  <2>5. QED
    BY <1>1, <2>1, <2>2, <2>3, <2>4 DEF Activation
<1>4. ASSUME NEW event, event # "keyboard", Receive(event), focus' = focus,
             display' = display \/ display' = [display EXCEPT !.syncing = FALSE],
             display'.syncing => SyncWaits(up', down')
      PROVE  Activation'
  <2>1. down # <<>> /\ down' = Tail(down) /\ Head(down).event = event
    BY <1>4, ReceiveType
  <2>2. Head(down) \notin Is("keyboard")
    BY <1>4, <2>1 DEF Is
  <2>3. Arrives(Tail(down), Is("keyboard"), display.last, focus)
    BY <1>1, <2>1, <2>2, ArrivesReceived
  <2>4. display'.last = display.last /\ display'.active = display.active
    BY <1>1, <1>4
  <2>5. QED
    BY <1>1, <1>4, <2>1, <2>3, <2>4 DEF Activation
<1>5. CASE handleKeyboardFocusChanged
  <2> DEFINE new == Head(down).surface
             old == display.last
             activated == IF new = None \/ new \in Range(display.active) THEN display.active
                          ELSE Append(display.active, new)
             asks == /\ new # old /\ ~display.syncing
                     /\ activated # display.active \/ (old # None /\ Last(activated) = old)
             kept == IF new = old THEN display.active ELSE Without(activated, {old})
             r == Request("sync", None, Blank, 0)
  <2>1. /\ display' = [active |-> kept, last |-> new, syncing |-> display.syncing \/ asks]
        /\ up' = up \o When(asks, <<r>>) /\ Receive("keyboard") /\ focus' = focus
    BY <1>5 DEF handleKeyboardFocusChanged, compositor
  <2>2. /\ down # <<>> /\ down' = Tail(down) /\ Head(down) \in Is("keyboard")
        /\ Head(down).event = "keyboard" /\ new \in Targets /\ down' \in Seq(TextEvents)
    BY <2>1, ReceiveType
  <2>3. Arrives(Tail(down), Is("keyboard"), new, focus)
    BY <1>1, <2>2, ArrivesReceived
  <2>4. kept = When(new # None, <<new>>)
    <3>1. CASE new = old
      BY <1>1, <3>1
    <3>2. CASE new # old
      <4>1. old \in Targets
        BY <1>1
      <4>2. QED
        BY <1>1, <2>2, <3>2, <4>1, ActiveAfter
    <3>3. QED
      BY <3>1, <3>2
  <2> HIDE DEF kept, asks
  <2>5. display'.active = When(display'.last # None, <<display'.last>>) /\ display'.last = new
    BY <2>1, <2>4
  <2>6. display'.syncing => SyncWaits(up', down')
    <3>1. r.type = "sync" /\ r \in TextRequests
      BY BlankType, RequestType
    <3> HIDE DEF r
    <3>2. CASE display.syncing
      <4>1. SyncWaits(up, down')
        BY <1>1, <2>2, <3>2, SyncWaitsOn
      <4>2. When(asks, <<r>>) \in Seq(TextRequests)
        BY <1>1, <3>1 DEF When
      <4>3. QED
        BY <1>1, <2>1, <2>2, <4>1, <4>2, SyncWaitsOn
    <3>3. CASE asks
      <4>1. up' = up \o <<r>>
        BY <2>1, <3>3 DEF When
      <4>2. Len(up) + 1 \in 1..Len(up') /\ up'[Len(up) + 1] = r
        BY <1>1, <4>1
      <4>3. QED
        BY <3>1, <4>2 DEF SyncWaits
    <3>4. QED
      BY <2>1, <3>2, <3>3
  <2>7. QED
    BY <2>1, <2>2, <2>3, <2>5, <2>6 DEF Activation
<1>6. CASE handleWaylandSync
  BY <1>1, <1>4, <1>6 DEF handleWaylandSync, compositor
<1>7. CASE keyboard_key
  <2>1. Receive("key") /\ focus' = focus /\ display' = display /\ up' = up
    BY <1>7 DEF keyboard_key, compositor
  <2>2. down # <<>> /\ down' = Tail(down) /\ Head(down).event = "key"
    BY <2>1, ReceiveType
  <2>3. display.syncing => SyncWaits(up, down')
    BY <1>1, <2>2, SyncWaitsOn
  <2>4. QED
    BY <1>4, <2>1, <2>3
<1>8. CASE \/ zwp_text_input_v2_enter \/ zwp_text_input_v2_leave \/ resetCallback
           \/ zwp_text_input_v2_commit_string
  <2>1. PICK event : /\ Receive(event) /\ event \in {"enter", "leave", "done", "commit"}
                     /\ event = "done" => Head(down).n # 0
    BY <1>8 DEF zwp_text_input_v2_enter, zwp_text_input_v2_leave, resetCallback,
                zwp_text_input_v2_commit_string
  <2>2. PICK new \in Seq(TextRequests) : up' = up \o new
    BY <1>8, ContextSends
  <2>3. display' = display /\ focus' = focus
    BY <1>8, ContextSends
  <2>4. down # <<>> /\ down' = Tail(down) /\ Head(down).event = event /\ down' \in Seq(TextEvents)
    BY <2>1, ReceiveType
  <2>5. display.syncing => SyncWaits(up, down')
    BY <1>1, <2>1, <2>4, SyncWaitsOn
  <2>6. display.syncing => SyncWaits(up', down')
    BY <1>1, <2>2, <2>4, <2>5, SyncWaitsOn
  <2>7. QED
    BY <1>4, <2>1, <2>3, <2>6
<1>9. CASE Edit \/ Toggles \/ reset \/ DeliverActivation
  <2>1. PICK new \in Seq(TextRequests) : up' = up \o new
    BY <1>9, ContextSends
  <2>2. display' = display /\ focus' = focus
    BY <1>9, ContextSends
  <2>3. down' = down
    BY <1>9 DEF Edit, Toggles, Toggle, reset, DeliverActivation
  <2>4. display.syncing => SyncWaits(up', down')
    BY <1>1, <2>1, <2>3, SyncWaitsOn
  <2>5. QED
    BY <1>1, <2>2, <2>3, <2>4 DEF Activation
<1>10. QED
  BY <1>2, <1>3, <1>5, <1>6, <1>7, <1>8, <1>9 DEF TextNext, Toggles

-----------------------------------------------------------------------------
(* The input method control follows the editor *)

\* Every step keeps the control behind the current window.
LEMMA ControlsKept ==
  ASSUME TextTypes, Budget, ControlsFollow, TextNext
  PROVE  ControlsFollow'
<1>1. /\ up \in Seq(TextRequests) /\ context \in Contexts /\ window \in Targets
      /\ context.current \in Targets /\ down \in Seq(TextEvents)
      /\ Switches(up, enabled, context.current) /\ controls = {enabled} \ {None}
      /\ context.current = (IF window \in accepts THEN window ELSE None)
  BY DEF TextTypes, Contexts, ControlsFollow
<1>2. /\ texts' \in [Surfaces -> Text] /\ accepts' \subseteq Surfaces /\ window' \in Targets
      /\ context' \in Contexts /\ context'.current \in Targets /\ up' \in Seq(TextRequests)
  <2>1. TextTypes'
    BY TypesKept
  <2>2. QED
    BY <2>1 DEF TextTypes, Contexts
<1>3. CASE (\E s \in Targets : setFocus(s)) \/ sendInputMethodEvent \/ SendKey
  <2>1. /\ up' = up /\ enabled' = enabled /\ controls' = controls /\ context' = context
        /\ window' = window /\ accepts' = accepts
    BY <1>3 DEF setFocus, sendInputMethodEvent, SendKey, activation, compositor
  <2>2. QED
    BY <1>1, <2>1 DEF ControlsFollow
<1>4. CASE HandleRequest
  <2>1. /\ up # <<>> /\ up' = Tail(up) /\ Head(up) \in TextRequests
    BY <1>4, RequestTaken
  <2>2. context' = context /\ window' = window /\ accepts' = accepts
    BY <1>4 DEF HandleRequest, activation
  <2>3. CASE update_state(Head(up)) \/ AnswerSync(Head(up))
    <3>1. Head(up).type \notin {"enable", "disable"} /\ enabled' = enabled /\ controls' = controls
      BY <2>3 DEF update_state, AnswerSync
    <3>2. Switches(up', enabled, context.current)
      BY <1>1, <2>1, <3>1, SwitchesReceived
    <3>3. QED
      BY <1>1, <2>2, <3>1, <3>2 DEF ControlsFollow
  <2>4. CASE enable(Head(up))
    <3>1. /\ Head(up).type = "enable" /\ enabled' = Head(up).surface
          /\ controls' = controls \cup {Head(up).surface}
      BY <2>4 DEF enable
    <3>2. /\ enabled = None /\ Head(up).surface # None
          /\ Switches(up', Head(up).surface, context.current)
      BY <1>1, <2>1, <3>1, SwitchesReceived
    <3>3. controls' = {enabled'} \ {None}
      BY <1>1, <3>1, <3>2
    <3>4. QED
      BY <1>1, <2>2, <3>1, <3>2, <3>3 DEF ControlsFollow
  <2>5. CASE disable(Head(up))
    <3>1. Head(up).type = "disable" /\ enabled' = None /\ controls' = controls \ {enabled}
      BY <2>5 DEF disable
    <3>2. Switches(up', None, context.current)
      BY <1>1, <2>1, <3>1, SwitchesReceived
    <3>3. controls' = {enabled'} \ {None}
      BY <1>1, <3>1
    <3>4. QED
      BY <1>1, <2>2, <3>1, <3>2, <3>3 DEF ControlsFollow
  <2>6. QED
    BY <1>4, <2>3, <2>4, <2>5 DEF HandleRequest
<1>5. ASSUME NEW new \in Seq(TextRequests), up' = up \o new, NoneOfKind(new, Controls),
             enabled' = enabled, controls' = controls, context'.current = context.current,
             window' = window, accepts' = accepts
      PROVE  ControlsFollow'
  <2>1. Switches(up \o new, enabled, context.current)
    BY <1>1, <1>5, SwitchesSent
  <2>2. QED
    BY <1>1, <1>5, <2>1 DEF ControlsFollow
<1>6. up = up \o <<>> /\ <<>> \in Seq(TextRequests) /\ NoneOfKind(<<>>, Controls)
  <2>1. up = up \o <<>> /\ <<>> \in Seq(TextRequests)
    BY <1>1
  <2>2. QED
    BY <2>1, KindsOfOne
<1>7. CASE handleKeyboardFocusChanged \/ handleWaylandSync \/ keyboard_key
  <2>1. /\ enabled' = enabled /\ controls' = controls /\ context' = context
        /\ window' = window /\ accepts' = accepts
    BY <1>7 DEF handleKeyboardFocusChanged, handleWaylandSync, keyboard_key, compositor
  <2>2. \/ up' = up
        \/ \E asks \in BOOLEAN : up' = up \o When(asks, <<Request("sync", None, Blank, 0)>>)
    BY <1>7 DEF handleKeyboardFocusChanged, handleWaylandSync, keyboard_key
  <2>3. QED
    BY <1>5, <1>6, <2>1, <2>2, SyncType
<1>8. CASE \/ zwp_text_input_v2_enter \/ zwp_text_input_v2_leave \/ resetCallback
           \/ zwp_text_input_v2_commit_string \/ reset
  <2>1. /\ enabled' = enabled /\ controls' = controls /\ window' = window /\ accepts' = accepts
    BY <1>8 DEF zwp_text_input_v2_enter, zwp_text_input_v2_leave, resetCallback,
                zwp_text_input_v2_commit_string, reset, activation, compositor
  <2>2. CASE zwp_text_input_v2_leave \/ resetCallback
    <3>1. up' = up /\ context'.current = context.current
      BY <1>1, <2>2 DEF zwp_text_input_v2_leave, resetCallback, Contexts
    <3>2. QED
      BY <1>5, <1>6, <2>1, <3>1
  <2>3. CASE zwp_text_input_v2_commit_string
    <3>1. context' = context /\ (up' = up \/ up' = up \o Change(window, context, {"text"}))
      BY <2>3 DEF zwp_text_input_v2_commit_string
    <3>2. Change(window, context, {"text"}) \in Seq(TextRequests)
          /\ NoneOfKind(Change(window, context, {"text"}), Controls)
      BY <1>1, <1>2, StateKnown
    <3>3. QED
      BY <1>5, <1>6, <2>1, <3>1, <3>2
  <2>4. ASSUME NEW c \in Contexts, c.current = context.current,
               context' = Renewed(window, c), up' = up \o Reset(window, c)
        PROVE  ControlsFollow'
    <3>1. context'.current = context.current
      BY <1>1, <1>2, <2>4, StateSent
    <3>2. Reset(window, c) \in Seq(TextRequests) /\ NoneOfKind(Reset(window, c), Controls)
      BY <1>1, <1>2, <2>4, StateKnown
    <3>3. QED
      BY <1>5, <2>1, <2>4, <3>1, <3>2
  <2>5. CASE zwp_text_input_v2_enter
    <3> DEFINE c == [context EXCEPT !.surface = Head(down).surface]
    <3>1. context' = Renewed(window, c) /\ up' = up \o Reset(window, c)
      BY <2>5 DEF zwp_text_input_v2_enter
    <3>2. Head(down).surface \in Targets
      BY <2>5, ReceiveType DEF zwp_text_input_v2_enter
    <3>3. c \in Contexts /\ c.current = context.current
      BY <1>1, <3>2 DEF Contexts
    <3> HIDE DEF c
    <3>4. QED
      BY <2>4, <3>1, <3>3
  <2>6. CASE reset
    BY <1>1, <2>4, <2>6 DEF reset
  <2>7. QED
    BY <1>8, <2>2, <2>3, <2>5, <2>6
<1>9. CASE Edit \/ Toggles
  <2>1. PICK queries : /\ update(queries) /\ window # None /\ window' = window
                       /\ enabled' = enabled /\ controls' = controls
    BY <1>9, Updates
  <2>2. PICK d, e : /\ Switch(context.current, context'.current, d, e)
                    /\ up' = ((up \o d) \o e) \o Change(window, context, queries)
    BY <1>2, <2>1, UpdateSends
  <2>3. context'.current = (IF window \in accepts' THEN window ELSE None)
    BY <1>2, <2>1, UpdateSends
  <2>4. Switches((up \o d) \o e, enabled, context'.current)
    BY <1>1, <1>2, <2>2, SwitchesTo
  <2>5. /\ Change(window, context, queries) \in Seq(TextRequests)
        /\ NoneOfKind(Change(window, context, queries), Controls)
        /\ KnownIn(Change(window, context, queries))
    BY <1>1, <1>2, StateKnown
  <2>6. (up \o d) \o e \in Seq(TextRequests)
    BY <1>1, <1>2, <2>2, <2>5, SwitchKnown
  <2>7. Switches(up', enabled, context'.current)
    BY <2>2, <2>4, <2>5, <2>6, SwitchesSent
  <2>8. QED
    BY <1>1, <2>1, <2>3, <2>7 DEF ControlsFollow
<1>10. CASE DeliverActivation
  <2>1. /\ enabled' = enabled /\ controls' = controls /\ accepts' = accepts /\ texts' = texts
    BY <1>10 DEF DeliverActivation, compositor
  <2>2. CASE window' = window
    <3>1. context' = context /\ up' = up
      BY <1>10, <2>2 DEF DeliverActivation
    <3>2. QED
      BY <1>5, <1>6, <2>1, <2>2, <3>1
  <2>3. CASE window' # window
    <3> DEFINE w == window'
               new == IF w \in accepts THEN w ELSE None
               c == [context EXCEPT !.current = new]
               r == IF w \in accepts THEN Reset(w, c) ELSE <<>>
    <3>1. setFocusObject(w)
      BY <1>10, <2>3 DEF DeliverActivation
    <3>2. w \in Targets
      BY <1>2
    <3> HIDE DEF w
    <3>3. /\ new \in Targets /\ c \in Contexts
          /\ context' = IF w \in accepts THEN Renewed(w, c) ELSE c
          /\ \E d, e : Switch(context.current, new, d, e) /\ up' = ((up \o d) \o e) \o r
      BY <2>1, <3>1, <3>2, SetFocusObjectSends
    <3>4. c.current = new
      BY <1>1 DEF Contexts
    <3> HIDE DEF c
    <3>5. context'.current = new
      BY <1>2, <3>2, <3>3, <3>4, StateSent
    <3>6. r \in Seq(TextRequests) /\ NoneOfKind(r, Controls) /\ KnownIn(r)
      <4>1. Reset(w, c) \in Seq(TextRequests) /\ NoneOfKind(Reset(w, c), Controls)
            /\ KnownIn(Reset(w, c))
        BY <1>2, <3>2, <3>3, StateKnown
      <4>2. KnownIn(<<>>)
        BY KnownQueue
      <4>3. QED
        BY <1>6, <4>1, <4>2
    <3>7. PICK d, e : Switch(context.current, new, d, e) /\ up' = ((up \o d) \o e) \o r
      BY <3>3
    <3> HIDE DEF r
    <3>8. Switches((up \o d) \o e, enabled, new)
      BY <1>1, <3>3, <3>7, SwitchesTo
    <3>9. (up \o d) \o e \in Seq(TextRequests)
      BY <1>1, <3>3, <3>6, <3>7, SwitchKnown
    <3>10. Switches(up', enabled, new)
      BY <3>6, <3>7, <3>8, <3>9, SwitchesSent
    <3>11. QED
      BY <1>1, <2>1, <3>5, <3>10 DEF ControlsFollow, w
  <2>4. QED
    BY <2>2, <2>3
<1>11. QED
  BY <1>3, <1>4, <1>7, <1>8, <1>9, <1>10 DEF TextNext, Toggles

-----------------------------------------------------------------------------
(* No commit is late *)

Prompt(es, n) == \A i \in 1..Len(es) : es[i].event = "commit" => es[i].n = n

\* Commits that are prompt stay so when others are sent or taken.
LEMMA PromptSent ==
  ASSUME NEW es \in Seq(TextEvents), NEW n, Prompt(es, n)
  PROVE  /\ \A new \in Seq(TextEvents) : Prompt(new, n) => Prompt(es \o new, n)
         /\ es # <<>> => Prompt(Tail(es), n)
<1>1. ASSUME NEW new \in Seq(TextEvents)
      PROVE  \A i \in 1..Len(es \o new) :
               \/ i \in 1..Len(es) /\ (es \o new)[i] = es[i]
               \/ i - Len(es) \in 1..Len(new) /\ (es \o new)[i] = new[i - Len(es)]
  BY Sent
<1>2. es # <<>> => \A i \in 1..Len(Tail(es)) : i + 1 \in 1..Len(es) /\ Tail(es)[i] = es[i + 1]
  OBVIOUS
<1>3. QED
  BY <1>1, <1>2 DEF Prompt

\* The parts of Resets, each by its name.
LEMMA ResetParts ==
  Resets <=> /\ Renewals(up, handled, context.resets) /\ Answers(down, handled)
             /\ handled <= context.resets /\ context.awaits \in {0, context.resets}
             /\ context.awaits # 0 => Awaited(up, down, context.resets)
             /\ context.awaits = 0 => handled = context.resets
             /\ context.awaits = 0 => Prompt(down, context.resets)
BY DEF Resets, NoneIsLate, Prompt

\* Steps that neither reset nor confirm.
LEMMA ResetsQuiet ==
  ASSUME TextTypes, Resets, NEW new \in Seq(TextRequests), Unnumbered(new), up' = up \o new,
         handled' = handled, context'.resets = context.resets, context'.awaits = context.awaits,
         \/ down' = down
         \/ down # <<>> /\ down' = Tail(down) /\ ~Confirms(Head(down))
  PROVE  Resets'
<1>1. /\ up \in Seq(TextRequests) /\ down \in Seq(TextEvents) /\ handled \in Nat
      /\ context.resets \in Nat /\ context.awaits \in Nat
  BY DEF TextTypes
<1>2. /\ Renewals(up, handled, context.resets) /\ Answers(down, handled)
      /\ handled <= context.resets /\ context.awaits \in {0, context.resets}
      /\ context.awaits # 0 => Awaited(up, down, context.resets)
      /\ context.awaits = 0 => handled = context.resets
      /\ context.awaits = 0 => Prompt(down, context.resets)
  BY ResetParts
<1>3. Renewals(up', handled, context.resets)
  BY <1>1, <1>2, RenewalsSent
<1>4. Answers(down', handled)
  BY <1>1, <1>2, AnswersReceived
<1>5. context.awaits = 0 => Prompt(down', context.resets)
  BY <1>1, <1>2, PromptSent
<1>6. context.awaits # 0 => Awaited(up', down', context.resets)
  <2>1. context.awaits # 0 => Awaited(up, down', context.resets)
    <3>1. CASE down' = down
      BY <1>2, <3>1
    <3>2. CASE down # <<>> /\ down' = Tail(down) /\ ~Confirms(Head(down))
      BY <1>1, <1>2, <3>2, AwaitedReceived
    <3>3. QED
      BY <3>1, <3>2
  <2>2. down' \in Seq(TextEvents)
    <3>1. down # <<>> => Tail(down) \in Seq(TextEvents)
      BY <1>1, Received
    <3>2. QED
      BY <1>1, <3>1
  <2>3. QED
    BY <1>1, <2>1, <2>2, AwaitedSent
<1>7. QED
  BY <1>2, <1>3, <1>4, <1>5, <1>6 DEF Resets, NoneIsLate, Prompt

\* A state that resets, with the text: the client awaits its confirmation.
LEMMA ResetsRenewed ==
  ASSUME TextTypes, Resets, NEW before \in Seq(TextRequests), Unnumbered(before),
         NEW r \in TextRequests, r.type = "state", r.n = context.resets + 1,
         up' = (up \o before) \o <<r>>, handled' = handled,
         context'.resets = context.resets + 1, context'.awaits = context.resets + 1,
         down' = down \/ (down # <<>> /\ down' = Tail(down))
  PROVE  Resets'
<1>1. /\ up \in Seq(TextRequests) /\ down \in Seq(TextEvents) /\ handled \in Nat
      /\ context.resets \in Nat /\ <<r>> \in Seq(TextRequests)
  BY DEF TextTypes
<1>2. /\ Renewals(up, handled, context.resets) /\ Answers(down, handled)
      /\ handled <= context.resets
  BY ResetParts
<1>3. /\ up \o before \in Seq(TextRequests)
      /\ Renewals(up \o before, handled, context.resets)
  BY <1>1, <1>2, RenewalsSent, Sent
<1> DEFINE q == up \o before
<1> HIDE DEF q
<1>4. q \in Seq(TextRequests) /\ Renewals(q, handled, context.resets) /\ up' = q \o <<r>>
  BY <1>3 DEF q
<1>5. Renewals(up', handled, context.resets + 1)
  BY <1>1, <1>2, <1>4, RenewalsRenewed
<1>6. Answers(down', handled)
  BY <1>1, <1>2, AnswersReceived
<1>7. Awaited(up', down', context.resets + 1)
  <2>1. Len(q) + 1 \in 1..Len(up') /\ up'[Len(q) + 1] = r
    BY <1>1, <1>4
  <2>2. QED
    BY <2>1 DEF Awaited
<1>8. handled <= context.resets + 1 /\ context.resets + 1 # 0
  BY <1>1, <1>2
<1>9. QED
  BY <1>5, <1>6, <1>7, <1>8 DEF Resets, NoneIsLate, Prompt

\* Two queues without a reset have none together.
LEMMA UnnumberedSent ==
  ASSUME NEW p \in Seq(TextRequests), NEW q \in Seq(TextRequests), Unnumbered(p), Unnumbered(q)
  PROVE  Unnumbered(p \o q)
<1>1. \A i \in 1..Len(p \o q) : \/ i \in 1..Len(p) /\ (p \o q)[i] = p[i]
                                \/ i - Len(p) \in 1..Len(q) /\ (p \o q)[i] = q[i - Len(p)]
  BY Sent
<1>2. QED
  BY <1>1 DEF Unnumbered

\* A switch of the control is one queue, without a state.
LEMMA SwitchFirst ==
  ASSUME TextTypes, NEW from \in Targets, NEW to \in Targets, NEW d, NEW e, Switch(from, to, d, e)
  PROVE  \E both \in Seq(TextRequests) : /\ (up \o d) \o e = up \o both /\ Unnumbered(both)
                                         /\ NoneOfKind(both, Of("state"))
<1>1. /\ up \in Seq(TextRequests) /\ d \in Seq(TextRequests) /\ e \in Seq(TextRequests)
      /\ Unnumbered(d) /\ Unnumbered(e)
      /\ NoneOfKind(d, Of("state")) /\ NoneOfKind(e, Of("state"))
  BY SwitchKinds DEF TextTypes
<1>2. (up \o d) \o e = up \o (d \o e) /\ d \o e \in Seq(TextRequests)
  BY <1>1, SentTwice
<1>3. Unnumbered(d \o e) /\ NoneOfKind(d \o e, Of("state"))
  BY <1>1, UnnumberedSent, KindsSent
<1>4. QED
  BY <1>2, <1>3

\* The compositor sends nothing that answers, and may take a request that does
\* not reset.
LEMMA ResetsUnanswered ==
  ASSUME TextTypes, Resets, NEW es \in Seq(TextEvents), Unanswering(es), down' = down \o es,
         handled' = handled, context' = context,
         up' = up \/ (up # <<>> /\ up' = Tail(up) /\ Head(up).n = 0)
  PROVE  Resets'
<1>1. /\ up \in Seq(TextRequests) /\ down \in Seq(TextEvents) /\ handled \in Nat
      /\ context.resets \in Nat /\ context.awaits \in Nat
  BY DEF TextTypes
<1>2. /\ Renewals(up, handled, context.resets) /\ Answers(down, handled)
      /\ handled <= context.resets /\ context.awaits \in {0, context.resets}
      /\ context.awaits # 0 => Awaited(up, down, context.resets)
      /\ context.awaits = 0 => handled = context.resets
      /\ context.awaits = 0 => Prompt(down, context.resets)
  BY ResetParts
<1>3. Renewals(up', handled, context.resets)
  BY <1>1, <1>2, RenewalsReceived
<1>4. Answers(down', handled)
  BY <1>1, <1>2, AnswersSent
<1>5. Prompt(es, context.resets)
  BY DEF Prompt, Unanswering
<1>6. context.awaits = 0 => Prompt(down', context.resets)
  BY <1>1, <1>2, <1>5, PromptSent
<1>7. context.awaits # 0 => Awaited(up', down', context.resets)
  <2>1. context.awaits # 0 => Awaited(up, down', context.resets)
    BY <1>1, <1>2, AwaitedSent
  <2>2. down' \in Seq(TextEvents)
    BY <1>1, Sent
  <2>3. CASE up' = up
    BY <2>1, <2>3
  <2>4. CASE up # <<>> /\ up' = Tail(up) /\ Head(up).n = 0
    <3>1. context.awaits # 0 => Head(up).n # context.resets
      BY <1>1, <1>2, <2>4
    <3>2. QED
      BY <1>1, <2>1, <2>2, <2>4, <3>1, AwaitedReceived
  <2>5. QED
    BY <2>3, <2>4
<1>8. QED
  BY <1>2, <1>3, <1>4, <1>6, <1>7 DEF Resets, NoneIsLate, Prompt

\* Every step keeps the order of resets, confirmations and commits.
LEMMA ResetsKept ==
  ASSUME TextTypes, Budget, ControlsFollow, Resets, TextNext
  PROVE  Resets'
<1>1. /\ up \in Seq(TextRequests) /\ down \in Seq(TextEvents) /\ handled \in Nat
      /\ context \in Contexts /\ context.resets \in Nat /\ context.awaits \in Nat
      /\ window \in Targets /\ focus \in Targets
      /\ <<>> \in Seq(TextRequests) /\ <<>> \in Seq(TextEvents)
  BY DEF TextTypes, Contexts
<1>2. /\ Renewals(up, handled, context.resets) /\ Answers(down, handled)
      /\ handled <= context.resets /\ context.awaits \in {0, context.resets}
      /\ context.awaits # 0 => Awaited(up, down, context.resets)
      /\ context.awaits = 0 => handled = context.resets
      /\ context.awaits = 0 => Prompt(down, context.resets)
  BY ResetParts
<1>3. /\ texts' \in [Surfaces -> Text] /\ accepts' \subseteq Surfaces /\ window' \in Targets
      /\ context' \in Contexts /\ context'.current \in Targets /\ context.current \in Targets
  <2>1. TextTypes'
    BY TypesKept
  <2>2. QED
    BY <1>1, <2>1 DEF TextTypes, Contexts
<1>4. up = up \o <<>> /\ down = down \o <<>> /\ Unnumbered(<<>>) /\ Unanswering(<<>>)
  BY <1>1 DEF Unnumbered, Unanswering
<1>5. CASE (\E s \in Targets : setFocus(s)) \/ SendKey
  <2>1. handled' = handled /\ context' = context /\ up' = up
    BY <1>5 DEF setFocus, SendKey, compositor
  <2>2. CASE \E s \in Targets : setFocus(s)
    <3>1. PICK s \in Targets : setFocus(s)
      BY <2>2
    <3>2. PICK k, t \in Seq(TextEvents) :
            down' = (down \o k) \o t /\ Unanswering(k) /\ Unanswering(t)
      BY <3>1, SetFocusSends
    <3>3. (down \o k) \o t = down \o (k \o t) /\ k \o t \in Seq(TextEvents)
      <4>1. down \in Seq(TextEvents)
        BY <1>1
      <4>2. QED
        BY <4>1, SentTwice
    <3>4. Unanswering(k \o t)
      BY <3>2, UnansweringSent
    <3>5. QED
      BY <2>1, <3>2, <3>3, <3>4, ResetsUnanswered
  <2>3. CASE SendKey
    <3> DEFINE e == Event("key", focus, 0)
    <3>1. e \in TextEvents /\ e.event = "key"
      BY <1>1, EventType
    <3>2. down' = Append(down, e)
      BY <2>3 DEF SendKey
    <3> HIDE DEF e
    <3>3. down' = down \o <<e>> /\ <<e>> \in Seq(TextEvents)
      BY <1>1, <3>1, <3>2
    <3>4. Unanswering(<<e>>)
      BY <3>1 DEF Unanswering, Confirms
    <3>5. QED
      BY <2>1, <3>3, <3>4, ResetsUnanswered
  <2>4. QED
    BY <1>5, <2>2, <2>3
<1>6. CASE sendInputMethodEvent
  <2> DEFINE e == Event("commit", focus, handled)
  <2>1. /\ e \in TextEvents /\ e.event = "commit" /\ e.n = handled
    BY <1>1, EventType
  <2>2. down' = Append(down, e) /\ handled' = handled /\ context' = context /\ up' = up
    BY <1>6 DEF sendInputMethodEvent
  <2> HIDE DEF e
  <2>3. down' = down \o <<e>> /\ <<e>> \in Seq(TextEvents)
    BY <1>1, <2>1, <2>2
  <2>4. Answers(down', handled)
    BY <1>1, <1>2, <2>1, <2>3, AnswersAnswered
  <2>5. context.awaits = 0 => Prompt(down', context.resets)
    <3>1. context.awaits = 0 => Prompt(<<e>>, context.resets)
      BY <1>2, <2>1 DEF Prompt
    <3>2. QED
      BY <1>1, <1>2, <2>3, <3>1, PromptSent
  <2>6. context.awaits # 0 => Awaited(up, down', context.resets)
    BY <1>1, <1>2, <2>3, AwaitedSent
  <2>7. QED
    BY <1>2, <2>2, <2>4, <2>5, <2>6 DEF Resets, NoneIsLate, Prompt
<1>7. CASE HandleRequest
  <2>1. /\ up # <<>> /\ up' = Tail(up) /\ Head(up) \in TextRequests /\ Head(up).n \in Nat
        /\ Head(up).n = 0 => Renewals(Tail(up), handled, context.resets)
        /\ Head(up).n # 0 => /\ Renewals(Tail(up), Head(up).n, context.resets)
                             /\ Head(up).type = "state" /\ handled < Head(up).n
                             /\ Head(up).n <= context.resets
    BY <1>1, <1>2, <1>7, RequestTaken, RenewalsReceived
  <2>2. context' = context
    BY <1>7 DEF HandleRequest
  <2>3. CASE Head(up).n = 0
    <3>1. handled' = handled
      BY <1>7, <2>3 DEF HandleRequest, update_state, enable, disable, AnswerSync
    <3>2. PICK es \in Seq(TextEvents) :
            down' = down \o es /\ (es = <<>> \/ es = <<Event("done", None, 0)>>)
      BY <1>7, <2>3, RequestTaken
    <3>3. Unanswering(<<Event("done", None, 0)>>)
      <4>1. Event("done", None, 0).event = "done" /\ Event("done", None, 0).n = 0
        BY BlankType, EventType
      <4>2. QED
        BY <4>1 DEF Unanswering, Confirms
    <3>4. Unanswering(es)
      BY <1>4, <3>2, <3>3
    <3>5. QED
      BY <2>1, <2>2, <2>3, <3>1, <3>2, <3>4, ResetsUnanswered
  <2>4. CASE Head(up).n # 0
    <3> DEFINE n == Head(up).n
               e == Event("done", None, n)
    <3>1. e \in TextEvents /\ e.event = "done" /\ e.n = n
      BY <2>1, BlankType, EventType
    <3>2. update_state(Head(up))
      BY <1>7, <2>1, <2>4 DEF HandleRequest, enable, disable, AnswerSync
    <3>3. down' = down \o <<e>> /\ handled' = n
      BY <2>4, <3>2 DEF update_state, When
    <3> HIDE DEF e, n
    <3>4. /\ n \in Nat /\ n # 0 /\ Renewals(up', n, context.resets) /\ handled < n
          /\ n <= context.resets
      BY <2>1, <2>4 DEF n
    <3>5. Answers(down', n) /\ <<e>> \in Seq(TextEvents) /\ down' \in Seq(TextEvents)
      BY <1>1, <1>2, <3>1, <3>3, <3>4, AnswersAnswered, Sent
    <3>6. context.awaits # 0
      BY <1>1, <1>2, <3>4
    <3>7. Awaited(up', down', context.resets)
      <4>1. CASE n = context.resets
        <5>1. Len(down) + 1 \in 1..Len(down') /\ down'[Len(down) + 1] = e
          BY <1>1, <3>3
        <5>2. QED
          BY <3>1, <3>4, <4>1, <5>1 DEF Awaited, Confirms
      <4>2. CASE n # context.resets
        <5>1. Awaited(up, down', context.resets)
          BY <1>1, <1>2, <3>3, <3>5, <3>6, AwaitedSent
        <5>2. QED
          BY <1>1, <2>1, <3>5, <4>2, <5>1, AwaitedReceived DEF n
      <4>3. QED
        BY <4>1, <4>2
    <3>8. QED
      BY <1>2, <2>2, <3>3, <3>4, <3>5, <3>6, <3>7 DEF Resets, NoneIsLate
  <2>5. QED
    BY <2>3, <2>4
<1>8. CASE handleKeyboardFocusChanged \/ handleWaylandSync \/ keyboard_key
  <2>1. handled' = handled /\ context' = context
    BY <1>8 DEF handleKeyboardFocusChanged, handleWaylandSync, keyboard_key, compositor
  <2>2. \/ up' = up
        \/ \E asks \in BOOLEAN : up' = up \o When(asks, <<Request("sync", None, Blank, 0)>>)
    BY <1>8 DEF handleKeyboardFocusChanged, handleWaylandSync, keyboard_key
  <2>3. \E new \in Seq(TextRequests) : up' = up \o new /\ Unnumbered(new)
    <3>1. CASE up' = up
      BY <1>1, <1>4, <3>1
    <3>2. ASSUME NEW asks \in BOOLEAN, up' = up \o When(asks, <<Request("sync", None, Blank, 0)>>)
          PROVE  \E new \in Seq(TextRequests) : up' = up \o new /\ Unnumbered(new)
      <4> DEFINE new == When(asks, <<Request("sync", None, Blank, 0)>>)
      <4>1. new \in Seq(TextRequests) /\ Unnumbered(new)
        BY SyncType
      <4>2. up' = up \o new
        BY <3>2
      <4> HIDE DEF new
      <4>3. QED
        BY <4>1, <4>2
    <3>3. QED
      BY <2>2, <3>1, <3>2
  <2>4. Receive("keyboard") \/ Receive("key") \/ (Receive("done") /\ Head(down).n = 0)
    BY <1>8 DEF handleKeyboardFocusChanged, handleWaylandSync, keyboard_key
  <2>5. down # <<>> /\ down' = Tail(down) /\ ~Confirms(Head(down))
    BY <2>4, ReceiveType DEF Confirms
  <2>6. PICK new \in Seq(TextRequests) : up' = up \o new /\ Unnumbered(new)
    BY <2>3
  <2>7. QED
    BY <2>1, <2>5, <2>6, ResetsQuiet
<1>9. ASSUME NEW before \in Seq(TextRequests), Unnumbered(before), NEW w \in Targets,
             NEW c \in Contexts, c.resets = context.resets, c.awaits = context.awaits,
             context' = Renewed(w, c), up' = (up \o before) \o Reset(w, c), handled' = handled,
             \/ down' = down
             \/ down # <<>> /\ down' = Tail(down) /\ ~Confirms(Head(down))
      PROVE  Resets'
  <2>1. CASE Reports(w, c)
    <3> DEFINE r == Request("state", None, texts'[w], c.resets + 1)
    <3>1. Reset(w, c) = <<r>> /\ r \in TextRequests /\ r.type = "state" /\ r.n = c.resets + 1
      BY <1>3, <2>1, StateSent DEF Request
    <3>2. context'.resets = c.resets + 1 /\ context'.awaits = c.resets + 1
      BY <1>3, <1>9, <2>1, StateSent
    <3> HIDE DEF r
    <3>3. QED
      BY <1>9, <3>1, <3>2, ResetsRenewed
  <2>2. CASE ~Reports(w, c)
    <3>1. Reset(w, c) = <<>> /\ context' = c
      BY <1>3, <1>9, <2>2, StateSent
    <3>2. (up \o before) \o <<>> = up \o before
      <4>1. up \o before \in Seq(TextRequests)
        BY <1>1, <1>9, Sent
      <4>2. QED
        BY <4>1
    <3>3. QED
      BY <1>9, <3>1, <3>2, ResetsQuiet
  <2>3. QED
    BY <2>1, <2>2
<1>10. CASE zwp_text_input_v2_enter
  <2> DEFINE c == [context EXCEPT !.surface = Head(down).surface]
  <2>1. /\ context' = Renewed(window, c) /\ up' = up \o Reset(window, c) /\ handled' = handled
        /\ Receive("enter")
    BY <1>10 DEF zwp_text_input_v2_enter, compositor
  <2>2. /\ Head(down).surface \in Targets /\ down # <<>> /\ down' = Tail(down)
        /\ Head(down).event = "enter"
    BY <2>1, ReceiveType
  <2>3. c \in Contexts /\ c.resets = context.resets /\ c.awaits = context.awaits
    BY <1>1, <2>2 DEF Contexts
  <2> HIDE DEF c
  <2>4. ~Confirms(Head(down))
    BY <2>2 DEF Confirms
  <2>5. up' = (up \o <<>>) \o Reset(window, c)
    BY <1>4, <2>1
  <2>6. QED
    BY <1>1, <1>4, <1>9, <2>1, <2>2, <2>3, <2>4, <2>5
<1>11. CASE zwp_text_input_v2_leave
  <2>1. /\ context' = [context EXCEPT !.surface = None] /\ up' = up /\ handled' = handled
        /\ Receive("leave")
    BY <1>11 DEF zwp_text_input_v2_leave, compositor
  <2>2. down # <<>> /\ down' = Tail(down) /\ Head(down).event = "leave"
    BY <2>1, ReceiveType
  <2>3. context'.resets = context.resets /\ context'.awaits = context.awaits
    BY <1>1, <2>1 DEF Contexts
  <2>4. ~Confirms(Head(down))
    BY <2>2 DEF Confirms
  <2>5. QED
    BY <1>1, <1>4, <2>1, <2>2, <2>3, <2>4, ResetsQuiet
<1>12. CASE resetCallback
  <2>1. /\ Receive("done") /\ Head(down).n # 0 /\ up' = up /\ handled' = handled
        /\ context' = [context EXCEPT !.awaits = IF context.awaits = Head(down).n THEN 0
                                                 ELSE context.awaits]
    BY <1>12 DEF resetCallback, compositor
  <2> DEFINE n == Head(down).n
  <2>2. /\ down # <<>> /\ down' = Tail(down) /\ Head(down).event = "done" /\ n \in Nat
        /\ down' \in Seq(TextEvents)
    BY <2>1, ReceiveType
  <2>3. /\ context'.resets = context.resets
        /\ context'.awaits = IF context.awaits = n THEN 0 ELSE context.awaits
    BY <1>1, <2>1 DEF Contexts
  <2>4. Confirms(Head(down)) /\ n # 0
    BY <2>1, <2>2 DEF Confirms
  <2>5. /\ Answers(down', handled) /\ n <= handled
        /\ \A i \in 1..Len(down') : down'[i].event = "commit" => n <= down'[i].n
    BY <1>1, <1>2, <2>2, <2>4, AnswersReceived
  <2> HIDE DEF n
  <2>6. CASE context.awaits = n
    <3>1. n = context.resets /\ handled = context.resets /\ context'.awaits = 0
      BY <1>1, <1>2, <2>2, <2>3, <2>4, <2>5, <2>6
    <3>2. Prompt(down', context.resets)
      <4>1. ASSUME NEW i \in 1..Len(down'), down'[i].event = "commit"
            PROVE  down'[i].n = context.resets
        <5>1. down'[i] \in TextEvents
          BY <2>2, <4>1
        <5>2. down'[i].n \in Nat
          BY <5>1, EventFields
        <5>3. n <= down'[i].n
          BY <2>5, <4>1
        <5>4. down'[i].n <= handled
          BY <2>5, <4>1 DEF Answers
        <5>5. QED
          BY <1>1, <2>2, <3>1, <5>2, <5>3, <5>4
      <4>2. QED
        BY <4>1 DEF Prompt
    <3>3. QED
      BY <1>2, <2>1, <2>3, <2>5, <3>1, <3>2 DEF Resets, NoneIsLate, Prompt
  <2>7. CASE context.awaits # n
    <3>1. context'.awaits = context.awaits
      BY <2>3, <2>7
    <3>2. context.awaits # 0 => Awaited(up, down', context.resets)
      BY <1>1, <1>2, <2>2, <2>7, AwaitedReceived DEF n
    <3>3. context.awaits = 0 => Prompt(down', context.resets)
      BY <1>1, <1>2, <2>2, PromptSent
    <3>4. QED
      BY <1>2, <2>1, <2>3, <2>5, <3>1, <3>2, <3>3 DEF Resets, NoneIsLate, Prompt
  <2>8. QED
    BY <2>6, <2>7
<1>13. CASE zwp_text_input_v2_commit_string
  <2>1. /\ Receive("commit") /\ context' = context /\ handled' = handled
        /\ up' = up \/ up' = up \o Change(window, context, {"text"})
    BY <1>13 DEF zwp_text_input_v2_commit_string, compositor
  <2>2. down # <<>> /\ down' = Tail(down) /\ Head(down).event = "commit"
    BY <2>1, ReceiveType
  <2>3. ~Confirms(Head(down))
    BY <2>2 DEF Confirms
  <2>4. /\ Change(window, context, {"text"}) \in Seq(TextRequests)
        /\ Unnumbered(Change(window, context, {"text"}))
    BY <1>1, <1>3, StateKnown
  <2>5. QED
    BY <1>1, <1>4, <2>1, <2>2, <2>3, <2>4, ResetsQuiet
<1>14. CASE Edit \/ Toggles
  <2>1. PICK queries : update(queries) /\ window # None /\ handled' = handled /\ down' = down
    BY <1>14, Updates
  <2>2. PICK d, e : /\ Switch(context.current, context'.current, d, e)
                    /\ up' = ((up \o d) \o e) \o Change(window, context, queries)
    BY <1>3, <2>1, UpdateSends
  <2>3. context' = [context EXCEPT !.current = context'.current]
    BY <1>3, <2>1, UpdateSends
  <2>4. context'.resets = context.resets /\ context'.awaits = context.awaits
    BY <1>1, <2>3 DEF Contexts
  <2>5. PICK both \in Seq(TextRequests) : (up \o d) \o e = up \o both /\ Unnumbered(both)
    <3>1. Switch(context.current, context'.current, d, e)
      BY <2>2
    <3>2. context.current \in Targets /\ context'.current \in Targets
      BY <1>3
    <3>3. QED
      BY <3>1, <3>2, SwitchFirst
  <2>6. /\ Change(window, context, queries) \in Seq(TextRequests)
        /\ Unnumbered(Change(window, context, queries))
    BY <1>1, <1>3, StateKnown
  <2>7. /\ (up \o both) \o Change(window, context, queries)
              = up \o (both \o Change(window, context, queries))
        /\ both \o Change(window, context, queries) \in Seq(TextRequests)
    BY <1>1, <2>6, SentTwice
  <2>8. Unnumbered(both \o Change(window, context, queries))
    BY <2>5, <2>6, UnnumberedSent
  <2>9. up' = up \o (both \o Change(window, context, queries))
    BY <2>2, <2>5, <2>7
  <2>10. QED
    BY <2>1, <2>4, <2>7, <2>8, <2>9, ResetsQuiet
<1>15. CASE reset
  <2>1. /\ context' = Renewed(window, context) /\ up' = up \o Reset(window, context)
        /\ handled' = handled /\ down' = down
    BY <1>15 DEF reset, compositor
  <2>2. up' = (up \o <<>>) \o Reset(window, context)
    BY <1>4, <2>1
  <2>3. QED
    BY <1>1, <1>4, <1>9, <2>1, <2>2
<1>16. CASE DeliverActivation
  <2>1. /\ accepts' = accepts /\ texts' = texts /\ down' = down /\ handled' = handled
    BY <1>16 DEF DeliverActivation, compositor
  <2>2. CASE window' = window
    <3>1. context' = context /\ up' = up
      BY <1>16, <2>2 DEF DeliverActivation
    <3>2. QED
      BY <1>1, <1>4, <2>1, <3>1, ResetsQuiet
  <2>3. CASE window' # window
    <3> DEFINE w == window'
               new == IF w \in accepts THEN w ELSE None
               c == [context EXCEPT !.current = new]
               r == IF w \in accepts THEN Reset(w, c) ELSE <<>>
    <3>1. setFocusObject(w)
      BY <1>16, <2>3 DEF DeliverActivation
    <3>2. w \in Targets
      BY <1>3
    <3> HIDE DEF w
    <3>3. /\ new \in Targets /\ c \in Contexts
          /\ context' = IF w \in accepts THEN Renewed(w, c) ELSE c
          /\ \E d, e : Switch(context.current, new, d, e) /\ up' = ((up \o d) \o e) \o r
      BY <2>1, <3>1, <3>2, SetFocusObjectSends
    <3>4. c.resets = context.resets /\ c.awaits = context.awaits
      BY <1>1 DEF Contexts
    <3> HIDE DEF c, new
    <3>5. PICK d, e : Switch(context.current, new, d, e) /\ up' = ((up \o d) \o e) \o r
      BY <3>3
    <3>6. PICK both \in Seq(TextRequests) : (up \o d) \o e = up \o both /\ Unnumbered(both)
      <4>1. Switch(context.current, new, d, e) /\ new \in Targets
        BY <3>3, <3>5
      <4>2. context.current \in Targets
        BY <1>3
      <4>3. QED
        BY <4>1, <4>2, SwitchFirst
    <3>7. CASE w \in accepts
      BY <1>9, <2>1, <3>2, <3>3, <3>4, <3>5, <3>6, <3>7
    <3>8. CASE w \notin accepts
      <4>1. up \o both \in Seq(TextRequests)
        BY <1>1, Sent
      <4>2. (up \o both) \o <<>> = up \o both
        BY <4>1
      <4>3. up' = up \o both /\ context' = c
        BY <3>3, <3>5, <3>6, <3>8, <4>2
      <4>4. QED
        BY <2>1, <3>4, <3>6, <4>3, ResetsQuiet
    <3>9. QED
      BY <3>7, <3>8
  <2>4. QED
    BY <2>2, <2>3
<1>17. QED
  BY <1>5, <1>6, <1>7, <1>8, <1>10, <1>11, <1>12, <1>13, <1>14, <1>15, <1>16 DEF TextNext, Toggles

-----------------------------------------------------------------------------
(* The text that is sent last *)

\* A state that is sent with the editor's text is the last.
LEMMA StateIsLast ==
  ASSUME NEW rs \in Seq(TextRequests), NEW r \in TextRequests, r.type = "state",
         r.text = texts'[window'], up' = rs \o <<r>>
  PROVE  Reported'
<1>1. <<r>> \in Seq(TextRequests) /\ r \in Of("state") /\ r \in Lasting(texts'[window'])
  BY DEF Of, Lasting
<1>2. /\ ~NoneOfKind(<<r>>, Of("state"))
      /\ LastOfKind(<<r>>, Of("state"), Lasting(texts'[window']))
  BY <1>1, KindsOfOne
<1>3. ~NoneOfKind(rs \o <<r>>, Of("state"))
  BY <1>1, <1>2, KindsSent
<1>4. LastOfKind(rs \o <<r>>, Of("state"), Lasting(texts'[window']))
  BY <1>1, <1>2, KindsSent
<1>5. QED
  BY <1>3, <1>4 DEF Reported

\* So is the state that updateState sends.
LEMMA ReportIsLast ==
  ASSUME NEW rs \in Seq(TextRequests), NEW w \in Targets, NEW c \in Contexts,
         texts' \in [Surfaces -> Text], w = window', Reports(w, c), NEW queries,
         \/ up' = rs \o Change(w, c, queries) /\ "text" \in queries
         \/ up' = rs \o Reset(w, c)
  PROVE  Reported'
<1> DEFINE r == Request("state", None, texts'[w], 0)
           q == Request("state", None, texts'[w], c.resets + 1)
<1>1. /\ "text" \in queries => Change(w, c, queries) = <<r>>
      /\ Reset(w, c) = <<q>>
      /\ r \in TextRequests /\ q \in TextRequests
  BY StateSent
<1>2. /\ r.type = "state" /\ r.text = texts'[w]
      /\ q.type = "state" /\ q.text = texts'[w]
  BY DEF Request
<1> HIDE DEF r, q
<1>3. CASE up' = rs \o Change(w, c, queries) /\ "text" \in queries
  BY <1>1, <1>2, <1>3, StateIsLast
<1>4. CASE up' = rs \o Reset(w, c)
  BY <1>1, <1>2, <1>4, StateIsLast
<1>5. QED
  BY <1>3, <1>4

\* A step that neither sends a state nor takes an event that moves the focus
\* or changes the text.
LEMMA StateRemains ==
  ASSUME TextTypes, TextFollows, window' = window, focus' = focus, unreported => unreported',
         texts' = texts, current' = current,
         context'.surface = context.surface, context'.resets = context.resets,
         NEW new \in Seq(TextRequests), NoneOfKind(new, Of("state")), up' = up \o new,
         \/ down' = down
         \/ /\ down # <<>> /\ down' = Tail(down)
            /\ Head(down) \notin Moves /\ Head(down) \notin Accepting(context.resets)
  PROVE  TextFollows'
<1>1. up \in Seq(TextRequests) /\ down \in Seq(TextEvents)
  BY DEF TextTypes
<1>2. /\ NoneOfKind(down', Moves) => NoneOfKind(down, Moves)
      /\ NoneOfKind(down', Accepting(context.resets))
           => NoneOfKind(down, Accepting(context.resets))
  BY <1>1, KindsReceived
<1>3. /\ NoneOfKind(up', Of("state")) => NoneOfKind(up, Of("state"))
      /\ LastOfKind(up, Of("state"), Lasting(texts[window]))
           => LastOfKind(up', Of("state"), Lasting(texts[window]))
  BY <1>1, KindsSent
<1>4. Linked' => Linked
  BY <1>2 DEF Linked
<1>5. Reported => Reported'
  BY <1>2, <1>3 DEF Reported
<1>6. QED
  BY <1>4, <1>5 DEF TextFollows

\* While the client awaits a confirmation, and no state is under way, it is the
\* confirmation that is.
LEMMA ConfirmationIsComing ==
  ASSUME TextTypes, Resets, context.awaits # 0, NoneOfKind(up, Of("state"))
  PROVE  /\ handled = context.resets
         /\ \E i \in 1..Len(down) : Confirms(down[i]) /\ down[i].n = context.resets
<1>1. /\ up \in Seq(TextRequests) /\ down \in Seq(TextEvents) /\ handled \in Nat
      /\ context.resets \in Nat /\ context.awaits \in Nat
  BY DEF TextTypes
<1>2. /\ Renewals(up, handled, context.resets) /\ Answers(down, handled)
      /\ handled <= context.resets /\ context.awaits \in {0, context.resets}
      /\ Awaited(up, down, context.resets)
  BY ResetParts
<1>3. ASSUME NEW i \in 1..Len(up), up[i].n = context.resets
      PROVE  FALSE
  <2>1. context.resets # 0 /\ up[i] \in TextRequests
    BY <1>1, <1>2
  <2>2. up[i].type = "state"
    BY <1>2, <1>3, <2>1 DEF Renewals
  <2>3. QED
    BY <2>1, <2>2 DEF NoneOfKind, Of
<1>4. PICK i \in 1..Len(down) : Confirms(down[i]) /\ down[i].n = context.resets
  BY <1>2, <1>3 DEF Awaited
<1>5. context.resets <= handled
  BY <1>2, <1>4 DEF Answers, Confirms
<1>6. QED
  BY <1>1, <1>2, <1>4, <1>5

\* What the compositor does: it counts its own commits, and takes the texts.
LEMMA TextTaken ==
  ASSUME TextTypes, Resets, TextFollows, sendInputMethodEvent \/ SendKey \/ HandleRequest
  PROVE  TextFollows'
<1>11. unreported' = unreported
  BY DEF sendInputMethodEvent, SendKey, HandleRequest
<1>1. /\ up \in Seq(TextRequests) /\ down \in Seq(TextEvents) /\ handled \in Nat
      /\ context.resets \in Nat /\ focus \in Targets
  BY DEF TextTypes
<1>2. /\ focus' = focus /\ context' = context /\ window' = window /\ texts' = texts
  BY OneSent
<1>3. PICK es \in Seq(TextEvents) : down' = down \o es /\ NoneOfKind(es, Moves)
  BY OneSent
<1>4. /\ NoneOfKind(down', Moves) => NoneOfKind(down, Moves)
      /\ NoneOfKind(down', Accepting(context.resets))
           => NoneOfKind(down, Accepting(context.resets))
  BY <1>1, <1>3, KindsSent
<1>5. Linked' => Linked
  BY <1>2, <1>4, <1>11 DEF Linked
<1>6. SUFFICES ASSUME Linked, Reported
               PROVE  Reported'
  BY <1>5 DEF TextFollows
<1>7. CASE sendInputMethodEvent
  <2> DEFINE e == Event("commit", focus, handled)
  <2>1. down' = Append(down, e) /\ up' = up
    BY <1>7 DEF sendInputMethodEvent
  <2>2. e \in TextEvents /\ e \in Is("commit") /\ e.n = handled
    BY <1>1, EventType
  <2> HIDE DEF e
  <2>3. down' = down \o <<e>> /\ <<e>> \in Seq(TextEvents)
    BY <1>1, <2>1, <2>2
  <2>4. ASSUME NoneOfKind(up, Of("state")), NoneOfKind(down', Accepting(context.resets))
        PROVE  FALSE
    <3>1. NoneOfKind(<<e>>, Accepting(context.resets))
      BY <1>1, <2>3, <2>4, KindsSent
    <3>2. handled # context.resets
      BY <2>2, <3>1, KindsOfOne DEF Accepting
    <3>3. context.awaits # 0
      BY <3>2, ResetParts
    <3>4. QED
      BY <2>4, <3>2, <3>3, ConfirmationIsComing
  <2>5. QED
    BY <1>2, <1>6, <2>1, <2>4 DEF Reported
<1>8. CASE SendKey
  <2>1. up' = up /\ current' = current
    BY <1>8 DEF SendKey, compositor
  <2>2. QED
    BY <1>2, <1>4, <1>6, <2>1 DEF Reported
<1>9. CASE HandleRequest
  <2>1. up # <<>> /\ up' = Tail(up) /\ Head(up) \in TextRequests
    BY <1>9, RequestTaken
  <2>2. /\ LastOfKind(up', Of("state"), Lasting(texts[window]))
        /\ NoneOfKind(up, Of("state"))
             <=> NoneOfKind(up', Of("state")) /\ Head(up) \notin Of("state")
        /\ NoneOfKind(up', Of("state")) /\ Head(up) \in Of("state")
             => Head(up) \in Lasting(texts[window])
    BY <1>1, <1>6, <2>1, KindsReceived DEF Reported
  <2>3. /\ Head(up) \in Of("state") => current' = Head(up).text
        /\ Head(up) \notin Of("state") => current' = current
    BY <1>6, <1>9, <2>1
       DEF Linked, Of, HandleRequest, update_state, enable, disable, AnswerSync
  <2>4. Head(up) \in Lasting(texts[window]) => Head(up).text = texts[window]
    BY DEF Lasting
  <2>5. QED
    BY <1>2, <1>4, <1>6, <2>2, <2>3, <2>4 DEF Reported
<1>10. QED
  BY <1>7, <1>8, <1>9

\* Every step keeps the compositor's text behind the editor's.
LEMMA TextKept ==
  ASSUME TextTypes, Budget, ControlsFollow, Resets, TextFollows, TextNext
  PROVE  TextFollows'
<1>1. /\ up \in Seq(TextRequests) /\ down \in Seq(TextEvents) /\ context \in Contexts
      /\ window \in Targets /\ context.current \in Targets /\ <<>> \in Seq(TextRequests)
      /\ up = up \o <<>> /\ NoneOfKind(<<>>, Of("state"))
  <2>1. NoneOfKind(<<>>, Of("state"))
    BY DEF NoneOfKind
  <2>2. QED
    BY <2>1 DEF TextTypes, Contexts
<1>2. /\ texts' \in [Surfaces -> Text] /\ accepts' \subseteq Surfaces /\ window' \in Targets
      /\ context' \in Contexts /\ context'.current \in Targets
  <2>1. TextTypes'
    BY TypesKept
  <2>2. QED
    BY <2>1 DEF TextTypes, Contexts
<1>3. CASE \E s \in Targets : setFocus(s)
  <2>1. PICK s \in Targets : setFocus(s)
    BY <1>3
  <2>2. PICK k, t \in Seq(TextEvents) : down' = (down \o k) \o t /\ ~NoneOfKind(t, Moves)
    BY <2>1, SetFocusSends
  <2>3. down \o k \in Seq(TextEvents)
    <3>1. down \in Seq(TextEvents)
      BY <1>1
    <3>2. QED
      BY <3>1, Sent
  <2>4. ~NoneOfKind((down \o k) \o t, Moves)
    <3>1. ~NoneOfKind(t, Moves)
      BY <2>2
    <3>2. QED
      BY <2>3, <3>1, KindsSent
  <2>5. QED
    BY <2>2, <2>4 DEF TextFollows, Linked
<1>4. CASE sendInputMethodEvent \/ SendKey \/ HandleRequest
  BY <1>4, TextTaken
<1>5. CASE handleKeyboardFocusChanged \/ handleWaylandSync \/ keyboard_key
  <2>1. /\ window' = window /\ focus' = focus /\ unreported' = unreported /\ texts' = texts
        /\ current' = current /\ context' = context
    BY <1>5 DEF handleKeyboardFocusChanged, handleWaylandSync, keyboard_key, compositor
  <2>2. \/ up' = up
        \/ \E asks \in BOOLEAN : up' = up \o When(asks, <<Request("sync", None, Blank, 0)>>)
    BY <1>5 DEF handleKeyboardFocusChanged, handleWaylandSync, keyboard_key
  <2>3. \E new \in Seq(TextRequests) : up' = up \o new /\ NoneOfKind(new, Of("state"))
    <3>1. CASE up' = up
      BY <1>1, <3>1
    <3>2. ASSUME NEW asks \in BOOLEAN, up' = up \o When(asks, <<Request("sync", None, Blank, 0)>>)
          PROVE  \E new \in Seq(TextRequests) : up' = up \o new /\ NoneOfKind(new, Of("state"))
      <4> DEFINE new == When(asks, <<Request("sync", None, Blank, 0)>>)
      <4>1. new \in Seq(TextRequests) /\ NoneOfKind(new, Of("state"))
        BY SyncType
      <4>2. up' = up \o new
        BY <3>2
      <4> HIDE DEF new
      <4>3. QED
        BY <4>1, <4>2
    <3>3. QED
      BY <2>2, <3>1, <3>2
  <2>4. Receive("keyboard") \/ Receive("key") \/ Receive("done")
    BY <1>5 DEF handleKeyboardFocusChanged, handleWaylandSync, keyboard_key
  <2>5. /\ down # <<>> /\ down' = Tail(down)
        /\ Head(down) \notin Moves /\ Head(down) \notin Accepting(context.resets)
    <3>1. down # <<>> /\ down' = Tail(down) /\ Head(down).event \in {"keyboard", "key", "done"}
      BY <2>4, ReceiveType
    <3>2. QED
      BY <3>1 DEF Moves, Accepting, Is
  <2>6. PICK new \in Seq(TextRequests) : up' = up \o new /\ NoneOfKind(new, Of("state"))
    BY <2>3
  <2>7. QED
    BY <2>1, <2>5, <2>6, StateRemains
<1>6. CASE zwp_text_input_v2_enter
  <2> DEFINE c == [context EXCEPT !.surface = Head(down).surface]
  <2>1. /\ context' = Renewed(window, c) /\ up' = up \o Reset(window, c)
        /\ window' = window /\ Receive("enter") /\ unreported' = ~Reports(window, c)
    BY <1>6 DEF zwp_text_input_v2_enter, activation
  <2>2. Head(down).surface \in Targets
    BY <2>1, ReceiveType
  <2>3. c \in Contexts
    BY <1>1, <2>2 DEF Contexts
  <2> HIDE DEF c
  <2>4. Linked' => Reports(window, c)
    BY <2>1 DEF Linked
  <2>5. QED
    BY <1>1, <1>2, <2>1, <2>3, <2>4, ReportIsLast DEF TextFollows
<1>7. CASE zwp_text_input_v2_leave
  <2>1. context'.surface = None
    BY <1>1, <1>7 DEF zwp_text_input_v2_leave, Contexts
  <2>2. QED
    BY <2>1 DEF TextFollows, Linked
<1>8. CASE resetCallback
  <2>1. /\ window' = window /\ focus' = focus /\ unreported' = unreported /\ texts' = texts
        /\ current' = current /\ up' = up \o <<>> /\ Receive("done")
    BY <1>1, <1>8 DEF resetCallback, compositor, activation
  <2>2. context'.surface = context.surface /\ context'.resets = context.resets
    BY <1>1, <1>8 DEF resetCallback, Contexts
  <2>3. /\ down # <<>> /\ down' = Tail(down)
        /\ Head(down) \notin Moves /\ Head(down) \notin Accepting(context.resets)
    <3>1. down # <<>> /\ down' = Tail(down) /\ Head(down).event = "done"
      BY <2>1, ReceiveType
    <3>2. QED
      BY <3>1 DEF Moves, Accepting, Is
  <2>4. QED
    BY <1>1, <2>1, <2>2, <2>3, StateRemains
<1>9. CASE zwp_text_input_v2_commit_string
  <2>1. /\ window' = window /\ focus' = focus /\ context' = context
        /\ current' = current /\ Receive("commit")
    BY <1>9 DEF zwp_text_input_v2_commit_string, compositor, activation
  <2>2. /\ down # <<>> /\ down' = Tail(down) /\ Head(down).event = "commit"
        /\ Head(down) \in TextEvents
    BY <2>1, ReceiveType
  <2>3. CASE context.awaits = 0 /\ Accepted(window)
    <3>1. up' = up \o Change(window, context, {"text"}) /\ "text" \in {"text"}
      BY <1>9, <2>3 DEF zwp_text_input_v2_commit_string
    <3>2. Linked' => Reports(window, context)
      BY <2>1 DEF Linked, Reports
    <3>3. QED
      BY <1>1, <1>2, <2>1, <3>1, <3>2, ReportIsLast DEF TextFollows
  <2>4. CASE ~(context.awaits = 0 /\ Accepted(window))
    <3>1. /\ texts' = texts /\ up' = up
          /\ unreported' = (unreported \/ context.awaits = 0)
      BY <1>9, <2>4 DEF zwp_text_input_v2_commit_string
    <3>2. Head(down) \notin Moves
      BY <2>2 DEF Moves, Is
    <3>3. SUFFICES ASSUME Linked'
                   PROVE  Reported'
      BY DEF TextFollows
    <3>4. context.awaits # 0 /\ ~unreported /\ Linked
      <4>1. NoneOfKind(down, Moves)
        BY <1>1, <2>2, <3>2, <3>3, KindsReceived DEF Linked
      <4>2. ~unreported /\ context.awaits # 0 /\ ~unreported'
        BY <3>1, <3>3 DEF Linked
      <4>3. Linked
        BY <2>1, <3>3, <4>1, <4>2 DEF Linked
      <4>4. QED
        BY <4>2, <4>3
    <3>5. context.awaits # 0
      BY <3>4
    <3>6. ASSUME NoneOfKind(up, Of("state")), Head(down).n = context.resets
          PROVE  FALSE
      <4>1. PICK i \in 1..Len(down) : Confirms(down[i]) /\ down[i].n = context.resets
        BY <3>5, <3>6, ConfirmationIsComing
      <4>2. down[1] = Head(down) /\ 1 \in 1..Len(down) /\ (i # 1 => 1 < i)
        BY <1>1, <2>2
      <4>3. i # 1
        BY <2>2, <4>1, <4>2 DEF Confirms
      <4>4. down[1].n < down[i].n
        BY <2>2, <4>1, <4>2, <4>3, ResetParts DEF Answers
      <4>5. context.resets \in Nat
        BY <1>1 DEF Contexts
      <4>6. QED
        BY <3>6, <4>1, <4>2, <4>4, <4>5
    <3>7. CASE NoneOfKind(up, Of("state"))
      <4>1. Head(down) \notin Accepting(context.resets)
        BY <3>6, <3>7 DEF Accepting
      <4>2. TextFollows'
        BY <1>1, <2>1, <2>2, <3>1, <3>2, <3>4, <4>1, StateRemains
      <4>3. QED
        BY <3>3, <4>2 DEF TextFollows
    <3>8. CASE ~NoneOfKind(up, Of("state"))
      BY <2>1, <3>1, <3>4, <3>8 DEF TextFollows, Reported
    <3>9. QED
      BY <3>7, <3>8
  <2>5. QED
    BY <2>3, <2>4
<1>10. CASE Edit \/ Toggles
  <2>1. PICK queries :
          /\ update(queries) /\ window # None /\ ("text" \notin queries => texts' = texts)
          /\ window' = window /\ focus' = focus /\ current' = current /\ down' = down
    BY <1>10, Updates
  <2>2. PICK d, e : /\ Switch(context.current, context'.current, d, e)
                    /\ up' = ((up \o d) \o e) \o Change(window, context, queries)
    BY <1>2, <2>1, UpdateSends
  <2>3. context' = [context EXCEPT !.current = context'.current]
    BY <1>2, <2>1, UpdateSends
  <2>4. context'.surface = context.surface /\ context'.resets = context.resets
    BY <1>1, <2>3 DEF Contexts
  <2>5. PICK both \in Seq(TextRequests) : /\ (up \o d) \o e = up \o both
                                          /\ NoneOfKind(both, Of("state"))
    <3>1. Switch(context.current, context'.current, d, e)
      BY <2>2
    <3>2. context.current \in Targets /\ context'.current \in Targets
      BY <1>1, <1>2
    <3>3. QED
      BY <3>1, <3>2, SwitchFirst
  <2>6. up' = (up \o both) \o Change(window, context, queries)
    BY <2>2, <2>5
  <2>7. up \o both \in Seq(TextRequests)
    BY <1>1, Sent
  <2>8. Linked' => Reports(window, context)
    BY <2>1, <2>4 DEF Linked, Reports
  <2>9. CASE "text" \in queries
    BY <1>1, <1>2, <2>1, <2>6, <2>7, <2>8, <2>9, ReportIsLast DEF TextFollows
  <2>10. CASE "text" \notin queries
    <3>1. Change(window, context, queries) = <<>>
      BY <2>10 DEF Change, When
    <3>2. up' = up \o both
      <4>1. (up \o both) \o <<>> = up \o both
        BY <2>7
      <4>2. QED
        BY <2>6, <3>1, <4>1
    <3>3. unreported => unreported'
      BY <2>1, <2>10 DEF update
    <3>4. QED
      BY <2>1, <2>4, <2>5, <2>10, <3>2, <3>3, StateRemains
  <2>11. QED
    BY <2>9, <2>10
<1>11. CASE reset
  <2>1. /\ context' = Renewed(window, context) /\ up' = up \o Reset(window, context)
        /\ window' = window
    BY <1>11 DEF reset, activation
  <2>2. context'.surface = context.surface
    BY <1>1, <1>2, <2>1, StateSent
  <2>3. Linked' => Reports(window, context)
    BY <2>1, <2>2 DEF Linked, Reports
  <2>4. QED
    BY <1>1, <1>2, <2>1, <2>3, ReportIsLast DEF TextFollows
<1>12. CASE DeliverActivation
  <2>1. /\ accepts' = accepts /\ texts' = texts /\ down' = down /\ focus' = focus
        /\ current' = current
    BY <1>12 DEF DeliverActivation, compositor
  <2>2. CASE window' = window
    <3>1. context' = context /\ up' = up \o <<>> /\ unreported' = unreported
      BY <1>1, <1>12, <2>2 DEF DeliverActivation
    <3>2. QED
      BY <1>1, <2>1, <2>2, <3>1, StateRemains
  <2>3. CASE window' # window
    <3> DEFINE w == window'
               new == IF w \in accepts THEN w ELSE None
               c == [context EXCEPT !.current = new]
               r == IF w \in accepts THEN Reset(w, c) ELSE <<>>
    <3>1. setFocusObject(w) /\ (w \notin accepts => unreported')
      <4>1. setFocusObject(w)
        BY <1>12, <2>3 DEF DeliverActivation
      <4>2. Accepted(w) => w \in accepts
        BY <2>1 DEF Accepted
      <4>3. ~Accepted(w) => unreported'
        BY <4>1 DEF setFocusObject
      <4>4. QED
        BY <4>1, <4>2, <4>3
    <3>2. w \in Targets /\ w = window'
      BY <1>2
    <3> HIDE DEF w
    <3>3. /\ new \in Targets /\ c \in Contexts
          /\ context' = IF w \in accepts THEN Renewed(w, c) ELSE c
          /\ \E d, e : Switch(context.current, new, d, e) /\ up' = ((up \o d) \o e) \o r
      BY <2>1, <3>1, <3>2, SetFocusObjectSends
    <3> HIDE DEF c, new
    <3>4. PICK d, e : Switch(context.current, new, d, e) /\ up' = ((up \o d) \o e) \o r
      BY <3>3
    <3>5. (up \o d) \o e \in Seq(TextRequests)
      <4>1. Switch(context.current, new, d, e) /\ new \in Targets
        BY <3>3, <3>4
      <4>2. context.current \in Targets
        BY <1>1
      <4>3. <<>> \in Seq(TextRequests) /\ KnownIn(<<>>)
        BY KnownQueue
      <4>4. QED
        BY <4>1, <4>2, <4>3, SwitchKnown
    <3>6. CASE w \in accepts
      <4>1. context'.surface = c.surface
        BY <1>2, <3>2, <3>3, <3>6, StateSent
      <4>2. Linked' => Reports(w, c)
        BY <3>2, <4>1 DEF Linked, Reports
      <4>3. QED
        BY <1>2, <3>2, <3>3, <3>4, <3>5, <3>6, <4>2, ReportIsLast DEF TextFollows
    <3>7. CASE w \notin accepts
      BY <3>1, <3>7 DEF TextFollows, Linked
    <3>8. QED
      BY <3>6, <3>7
  <2>4. QED
    BY <2>2, <2>3
<1>13. QED
  BY <1>3, <1>4, <1>5, <1>6, <1>7, <1>8, <1>9, <1>10, <1>11, <1>12 DEF TextNext, Toggles

-----------------------------------------------------------------------------
\* At the start nothing is under way, and both sides know nothing.
LEMMA TextInvInit ==
  ASSUME TextInit
  PROVE  TextInv
<1>1. /\ focus = None /\ current = Blank /\ enabled = None /\ controls = {} /\ handled = 0
      /\ down = <<>> /\ up = <<>> /\ posted = <<>> /\ window = None
      /\ display = [active |-> <<>>, last |-> None, syncing |-> FALSE]
      /\ accepts \in SUBSET Surfaces
      /\ texts = [s \in Surfaces |-> [Blank EXCEPT !.of = s]]
      /\ context = [current |-> None, surface |-> None, resets |-> 0, awaits |-> 0]
      /\ left = [events |-> MaxEvents, inputs |-> MaxInputs]
  BY DEF TextInit
<1>2. \A s \in Surfaces : /\ texts[s] = [of |-> s, edits |-> 0, commits |-> 0]
                          /\ texts[s] \in Text
  <2>1. \A s \in Surfaces : [Blank EXCEPT !.of = s] = [of |-> s, edits |-> 0, commits |-> 0]
    BY DEF Blank
  <2>2. \A s \in Surfaces : [of |-> s, edits |-> 0, commits |-> 0] \in Text
    BY BlankType, BoundsAreNumbers DEF Text
  <2>3. QED
    BY <1>1, <2>1, <2>2
<1>3. texts \in [Surfaces -> Text]
  BY <1>1, <1>2
<1>4. TextTypes
  <2>1. left \in [events : 0..MaxEvents, inputs : 0..MaxInputs]
    BY <1>1, BoundsAreNumbers
  <2>2. /\ down \in Seq(TextEvents) /\ up \in Seq(TextRequests) /\ posted \in Seq(Targets)
        /\ display \in [active : Seq(Surfaces), last : Targets, syncing : BOOLEAN]
        /\ context \in [current : Targets, surface : Targets, resets : Nat, awaits : Nat]
    BY <1>1, BlankType
  <2>3. QED
    BY <1>1, <1>3, <2>1, <2>2, BlankType DEF TextTypes
<1>5. Budget
  <2>1. CountOf(down, Is("commit")) = 0
    <3>1. \A i \in 1..Len(down) : FALSE
      BY <1>1
    <3>2. {i \in 1..Len(down) : down[i] \in Is("commit")} = {}
      BY <3>1
    <3>3. QED
      BY <3>2, FS_EmptySet DEF CountOf
  <2>2. \A s \in Surfaces : Within(texts[s], 0, left)
    <3>1. left.events = MaxEvents /\ left.inputs = MaxInputs
      BY <1>1
    <3>2. \A s \in Surfaces : texts[s].edits = 0 /\ texts[s].commits = 0
      <4>1. ASSUME NEW s \in Surfaces
            PROVE  texts[s].edits = 0 /\ texts[s].commits = 0
        <5>1. texts[s] = [of |-> s, edits |-> 0, commits |-> 0]
          BY <1>2
        <5>2. QED
          BY <5>1
      <4>2. QED
        BY <4>1
    <3>3. 0 + MaxInputs <= MaxInputs /\ 0 + 0 + MaxEvents <= MaxEvents
      BY BoundsAreNumbers
    <3>4. QED
      BY <3>1, <3>2, <3>3 DEF Within
  <2>3. Within(current, 0, left)
    BY <1>1, BoundsAreNumbers DEF Within, Blank
  <2>4. \A i \in 1..Len(up) : FALSE
    BY <1>1
  <2>5. QED
    BY <2>1, <2>2, <2>3, <2>4 DEF Budget
<1>6. Resets
  <2>1. context.resets = 0 /\ context.awaits = 0 /\ handled = 0 /\ 0 <= 0
    BY <1>1
  <2>2. (\A i \in 1..Len(up) : FALSE) /\ (\A i \in 1..Len(down) : FALSE)
    BY <1>1
  <2>3. Renewals(up, handled, context.resets) /\ Answers(down, handled)
    BY <2>2 DEF Renewals, Answers
  <2>4. Prompt(down, context.resets)
    BY <2>2 DEF Prompt
  <2>5. QED
    BY <2>1, <2>3, <2>4, ResetParts
<1>7. \A kind, wanted : NoneOfKind(<<>>, kind) /\ LastOfKind(<<>>, kind, wanted)
  BY DEF NoneOfKind, LastOfKind
<1>8. FocusFollows
  BY <1>1, <1>7 DEF FocusFollows, Arrives, LeavesToNone
<1>9. Activation
  BY <1>1, <1>7 DEF Activation, Arrives, When
<1>10. ControlsFollow
  <2>1. Alternate(up, enabled)
    BY <1>1 DEF Alternate
  <2>2. Switches(up, enabled, None)
    BY <1>1, <1>7, <2>1 DEF Switches
  <2>3. QED
    BY <1>1, <2>2 DEF ControlsFollow
<1>11. TextFollows
  BY <1>1 DEF TextFollows, Linked
<1>12. QED
  BY <1>4, <1>5, <1>6, <1>8, <1>9, <1>10, <1>11 DEF TextInv

\* Every step keeps the invariant.
LEMMA TextInvNext ==
  ASSUME TextInv, [TextNext]_textVars
  PROVE  TextInv'
<1>1. CASE TextNext
  BY <1>1, TypesKept, ResetsKept, FocusKept, ActivationKept, ControlsKept, TextKept DEF TextInv
<1>2. CASE UNCHANGED textVars
  <2>1. /\ focus' = focus /\ current' = current /\ enabled' = enabled /\ controls' = controls
        /\ handled' = handled /\ down' = down /\ up' = up /\ display' = display
        /\ posted' = posted /\ window' = window /\ accepts' = accepts /\ texts' = texts
        /\ context' = context /\ left' = left /\ unreported' = unreported
    BY <1>2 DEF textVars
  <2>2. TextTypes'
    BY <2>1 DEF TextInv, TextTypes
  <2>3. Budget'
    BY <2>1 DEF TextInv, Budget
  <2>4. Resets'
    BY <2>1 DEF TextInv, Resets, NoneIsLate
  <2>5. FocusFollows' /\ Activation' /\ ControlsFollow'
    BY <2>1 DEF TextInv, FocusFollows, Activation, ControlsFollow
  <2>6. TextFollows'
    BY <2>1 DEF TextInv, TextFollows, Linked, Reported
  <2>7. QED
    BY <2>2, <2>3, <2>4, <2>5, <2>6 DEF TextInv
<1>3. QED
  BY <1>1, <1>2

\* So it holds throughout.
LEMMA TextInvHolds == TextSpec => []TextInv
<1>1. TextInit => TextInv
  BY TextInvInit
<1>2. TextInv /\ [TextNext]_textVars => TextInv'
  BY TextInvNext
<1>3. QED
  BY <1>1, <1>2, PTL DEF TextSpec

\* Whether the text was reported is a truth value.
Reporting == unreported \in BOOLEAN
LEMMA ReportingHolds == TextSpec => []Reporting
<1>1. TextInit => Reporting
  BY DEF TextInit, Reporting
<1>2. Reporting /\ [TextNext]_textVars => Reporting'
  <2> SUFFICES ASSUME unreported \in BOOLEAN, [TextNext]_textVars
               PROVE  unreported' \in BOOLEAN
    BY DEF Reporting
  <2>1. CASE \/ \E s \in Targets : setFocus(s)
             \/ sendInputMethodEvent \/ SendKey \/ HandleRequest
             \/ handleKeyboardFocusChanged \/ handleWaylandSync \/ keyboard_key
             \/ zwp_text_input_v2_leave \/ resetCallback
    <3>1. unreported' = unreported
      BY <2>1
      DEF setFocus, sendInputMethodEvent, SendKey, HandleRequest, handleKeyboardFocusChanged,
          handleWaylandSync, keyboard_key, zwp_text_input_v2_leave, resetCallback
    <3>2. QED
      BY <3>1
  <2>2. CASE zwp_text_input_v2_enter
    BY <2>2 DEF zwp_text_input_v2_enter
  <2>3. CASE zwp_text_input_v2_commit_string
    BY <2>3 DEF zwp_text_input_v2_commit_string
  <2>4. CASE Edit \/ Toggles
    <3>1. PICK queries : update(queries)
      BY <2>4, Updates
    <3>2. QED
      BY <3>1 DEF update
  <2>5. CASE reset
    BY <2>5 DEF reset
  <2>6. CASE DeliverActivation
    <3>1. unreported' = unreported \/ setFocusObject(window')
      BY <2>6 DEF DeliverActivation
    <3>2. CASE setFocusObject(window')
      BY <3>2 DEF setFocusObject
    <3>3. QED
      BY <3>1, <3>2
  <2>7. CASE UNCHANGED textVars
    BY <2>7 DEF textVars
  <2>8. CASE TextNext
    BY <2>1, <2>2, <2>3, <2>4, <2>5, <2>6, <2>8 DEF TextNext, Toggles
  <2>9. QED
    BY <2>7, <2>8
<1>3. QED
  BY <1>1, <1>2, PTL DEF TextSpec

(* The types of the queues, the contexts and the texts, whose counts stay  *)
(* within the bounds because each commit is paid for when it is sent.      *)
THEOREM TextTypeCorrect == TextSpec => []TextTypeOK
<1>1. TextInv /\ Reporting => TextTypeOK
  <2>1. TextTypes /\ Resets /\ Reporting => TextTypeOK
    BY DEF TextTypes, Resets, Reporting, TextTypeOK, TextEvents, TextRequests
  <2>2. QED
    BY <2>1 DEF TextInv
<1>2. QED
  BY <1>1, TextInvHolds, ReportingHolds, PTL

(* No commit that crossed the editor's last reset is inserted: whatever    *)
(* number of resets, commits and focus changes are under way.              *)
THEOREM NoCommitIsLate == TextSpec => []NoneIsLate
<1>1. TextInv => NoneIsLate
  BY DEF TextInv, Resets
<1>2. QED
  BY <1>1, TextInvHolds, PTL

(* Once every event, request and activation was delivered the two sides    *)
(* agree on the focus, the active window, the enabled surface, and, if the *)
(* client reported it since they were linked, the text: whichever          *)
(* properties the application names when its editor changes.               *)
THEOREM SidesAgree == TextSpec => []AgreeWhenQuiet
<1>1. TextInv => AgreeWhenQuiet
  <2>1. SUFFICES ASSUME TextInv, Quiet
                 PROVE  /\ context.surface = focus /\ context.awaits = 0
                        /\ display = [active |-> When(focus # None, <<focus>>),
                                      last |-> focus, syncing |-> FALSE]
                        /\ context.current = (IF window \in accepts THEN window ELSE None)
                        /\ controls = {context.current} \ {None}
                        /\ context.current = focus /\ focus # None /\ ~unreported
                             => current = texts[focus]
    BY DEF AgreeWhenQuiet
  <2>2. /\ TextTypes /\ Resets /\ FocusFollows /\ Activation /\ ControlsFollow /\ TextFollows
        /\ down = <<>> /\ up = <<>>
    BY <2>1 DEF TextInv, Quiet
  <2>3. /\ \A i \in 1..Len(down) : FALSE
        /\ \A i \in 1..Len(up) : FALSE
        /\ \A kind : NoneOfKind(down, kind) /\ NoneOfKind(up, kind)
    BY <2>2 DEF NoneOfKind
  <2>4. context.surface = focus
    BY <2>2, <2>3 DEF FocusFollows, Arrives
  <2>5. context.awaits = 0
    <3>1. ~Awaited(up, down, context.resets)
      BY <2>3 DEF Awaited
    <3>2. QED
      BY <2>2, <3>1, ResetParts
  <2>6. display = [active |-> When(focus # None, <<focus>>), last |-> focus, syncing |-> FALSE]
    <3>1. ~SyncWaits(up, down)
      BY <2>3 DEF SyncWaits
    <3>2. /\ display \in [active : Seq(Surfaces), last : Targets, syncing : BOOLEAN]
          /\ display.last = focus /\ display.active = When(focus # None, <<focus>>)
          /\ display.syncing => FALSE
      BY <2>2, <2>3, <3>1 DEF Activation, Arrives, TextTypes
    <3>3. display.syncing = FALSE
      BY <3>2
    <3>4. display = [active |-> display.active, last |-> display.last,
                     syncing |-> display.syncing]
      BY <3>2
    <3>5. QED
      BY <3>2, <3>3, <3>4
  <2>7. /\ context.current = (IF window \in accepts THEN window ELSE None)
        /\ enabled = context.current /\ controls = {enabled} \ {None}
    BY <2>2, <2>3 DEF ControlsFollow, Switches
  <2>8. ASSUME context.current = focus, focus # None, ~unreported
        PROVE  current = texts[focus]
    <3>1. Linked /\ window = focus
      BY <2>3, <2>4, <2>7, <2>8 DEF Linked
    <3>2. QED
      BY <2>2, <2>3, <3>1 DEF TextFollows, Reported
  <2>9. QED
    BY <2>4, <2>5, <2>6, <2>7, <2>8
<1>2. QED
  BY <1>1, TextInvHolds, PTL
=============================================================================
