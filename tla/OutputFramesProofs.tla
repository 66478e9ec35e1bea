------------------------- MODULE OutputFramesProofs -------------------------
(***************************************************************************)
(* The tables of the outputs and the order of frame callbacks, for every   *)
(* set of surfaces, views, outputs and callbacks, and every length of the  *)
(* event queue.                                                            *)
(***************************************************************************)
EXTENDS OutputFrames, ListsProofs

\* What the tables rest on: the list of each surface is what its views say, and
\* content is of surfaces that exist.
ViewsAgree == \A s \in Surfaces : ViewsOf(s) = {v \in Views : surface[v] = s}
TableInv == ViewsAgree /\ hasContent \subseteq surfaces /\ TablesAgree

\* What the order rests on: a callback is of one surface, and is requested or
\* committed; what is marked has been committed.
Pending(s) == Range(pendingFrameCallbacks[s])
Committed(s) == Range(frameCallbacks[s])
OfOneSurface ==
  /\ \A s, t \in Surfaces : Pending(s) \cap Committed(t) = {}
  /\ \A s, t \in Surfaces : s # t => Pending(s) \cap Pending(t) = {}
  /\ \A s, t \in Surfaces : s # t => Committed(s) \cap Committed(t) = {}
FrameInv == OfOneSurface /\ canSend \subseteq UNION {Committed(s) : s \in Surfaces} /\ MarkedInOrder

-----------------------------------------------------------------------------
(* Types *)

Tables == [Outputs -> [Surfaces -> SUBSET Views]]

\* What addView and removeView do to an entry: nothing, when there is no output
\* or no surface.
LEMMA AddViewProperties ==
  ASSUME NEW table \in Tables, NEW v \in Views, NEW o, NEW s
  PROVE  /\ AddView(table, v, o, s) \in Tables
         /\ \A p \in Outputs, t \in Surfaces, w \in Views :
              w \in AddView(table, v, o, s)[p][t] <=>
                w \in table[p][t] \/ (w = v /\ p = o /\ t = s)
BY FramesAssumption DEF AddView, Tables

LEMMA RemoveViewProperties ==
  ASSUME NEW table \in Tables, NEW v \in Views, NEW o, NEW s
  PROVE  /\ RemoveView(table, v, o, s) \in Tables
         /\ \A p \in Outputs, t \in Surfaces, w \in Views :
              w \in RemoveView(table, v, o, s)[p][t] <=>
                w \in table[p][t] /\ ~(w = v /\ p = o /\ t = s)
BY FramesAssumption DEF RemoveView, Tables

\* A view that moves from a surface on an output to a surface on an output.
LEMMA MoveProperties ==
  ASSUME NEW table \in Tables, NEW v \in Views, NEW o1, NEW s1, NEW o2, NEW s2
  PROVE  LET left == RemoveView(table, v, o1, s1)
             moved == AddView(left, v, o2, s2)
         IN  /\ moved \in Tables
             /\ \A p \in Outputs, t \in Surfaces, w \in Views :
                  w \in moved[p][t] <=>
                    \/ w = v /\ p = o2 /\ t = s2
                    \/ w \in table[p][t] /\ ~(w = v /\ p = o1 /\ t = s1)
<1> DEFINE left == RemoveView(table, v, o1, s1)
           moved == AddView(left, v, o2, s2)
<1>1. left \in Tables
  BY RemoveViewProperties
<1>2. \A p \in Outputs, t \in Surfaces, w \in Views :
        w \in left[p][t] <=> w \in table[p][t] /\ ~(w = v /\ p = o1 /\ t = s1)
  BY RemoveViewProperties
<1> HIDE DEF left
<1>3. moved \in Tables
  BY <1>1, AddViewProperties
<1>4. \A p \in Outputs, t \in Surfaces, w \in Views :
        w \in moved[p][t] <=> w \in left[p][t] \/ (w = v /\ p = o2 /\ t = s2)
  BY <1>1, AddViewProperties
<1> HIDE DEF moved
<1>5. \A p \in Outputs, t \in Surfaces, w \in Views :
        w \in moved[p][t] <=> \/ w = v /\ p = o2 /\ t = s2
                              \/ w \in table[p][t] /\ ~(w = v /\ p = o1 /\ t = s1)
  BY <1>2, <1>4
<1>6. QED
  BY <1>3, <1>5 DEF moved, left

LEMMA SetTableTypes ==
  ASSUME TypeOK, NEW table \in Tables, SetTable(table)
  PROVE  /\ surfaceViews' \in Tables
         /\ has_entered' \in [Outputs -> SUBSET Surfaces]
         /\ inside' \in [Outputs -> SUBSET Surfaces]
BY DEF TypeOK, SetTable

\* A window that renders found room in the event queue, and nobody takes it.
RoomToQueue == \A o \in rendering : queued[o] < MaxQueued

LEMMA TypeInit == Init => TypeOK /\ RoomToQueue
BY FramesAssumption DEF Init, TypeOK, RoomToQueue

LEMMA ClientTypes == TypeOK /\ ClientNext => TypeOK'
<1> SUFFICES ASSUME TypeOK, ClientNext
             PROVE  TypeOK'
  OBVIOUS
<1> USE DEF TypeOK, callbackVars, linkVars, tableVars, loopVars
<1>1. ASSUME NEW o \in Outputs, BindOutput(o)
      PROVE  TypeOK'
  BY <1>1 DEF BindOutput
<1>2. ASSUME NEW s \in Surfaces, CreateSurface(s)
      PROVE  TypeOK'
  BY <1>2 DEF CreateSurface
<1>3. ASSUME NEW s \in Surfaces, surface_destroy_resource(s)
      PROVE  TypeOK'
  <2> DEFINE table == [o \in Outputs |->
               [surfaceViews[o] EXCEPT ![s] = {v \in @ : v \notin ViewsOf(s) \/ output[v] # o}]]
  <2>1. table \in Tables
    BY DEF Tables
  <2>2. SetTable(table)
    BY <1>3 DEF surface_destroy_resource
  <2> HIDE DEF table
  <2>3. /\ surfaceViews' \in Tables /\ has_entered' \in [Outputs -> SUBSET Surfaces]
        /\ inside' \in [Outputs -> SUBSET Surfaces]
    BY <2>1, <2>2, SetTableTypes
  <2>4. promoted' \subseteq Surfaces
    BY <1>3 DEF surface_destroy_resource, NotePromoted
  <2>5. surface' \in [Views -> Surfaces \cup {Null}]
    BY <1>3 DEF surface_destroy_resource
  <2>6. /\ surfaces' \subseteq Surfaces /\ hasContent' \subseteq Surfaces
        /\ canSend' \subseteq Callbacks
        /\ pendingFrameCallbacks' \in [Surfaces -> Seq(Callbacks)]
        /\ frameCallbacks' \in [Surfaces -> Seq(Callbacks)]
        /\ views' \in [Surfaces -> Seq(Views)]
        /\ UNCHANGED <<output, bound, updates, loopVars>>
    BY <1>3 DEF surface_destroy_resource
  <2>7. QED
    BY <2>3, <2>4, <2>5, <2>6 DEF Tables
<1>4. ASSUME NEW s \in Surfaces, NEW c \in Callbacks, surface_frame(s, c)
      PROVE  TypeOK'
  BY <1>4 DEF surface_frame
<1>5. ASSUME NEW s \in Surfaces, NEW content \in BOOLEAN, surface_commit(s, content)
      PROVE  TypeOK'
  <2>1. promoted' \subseteq Surfaces
    BY <1>5 DEF surface_commit, NotePromoted
  <2>2. updates' \subseteq Outputs
    <3>1. ViewsOf(s) \subseteq Views
      BY DEF ViewsOf, Range
    <3>2. QED
      BY <1>5, <3>1 DEF surface_commit
  <2>3. /\ surfaces' \subseteq Surfaces /\ hasContent' \subseteq Surfaces
        /\ pendingFrameCallbacks' \in [Surfaces -> Seq(Callbacks)]
        /\ frameCallbacks' \in [Surfaces -> Seq(Callbacks)]
        /\ UNCHANGED <<canSend, linkVars, tableVars, bound, loopVars>>
    BY <1>5 DEF surface_commit, Queued
  <2>4. QED
    BY <2>1, <2>2, <2>3
<1>6. QED
  BY <1>1, <1>2, <1>3, <1>4, <1>5 DEF ClientNext

LEMMA CompositorTypes == TypeOK /\ CompositorNext => TypeOK'
<1> SUFFICES ASSUME TypeOK, CompositorNext
             PROVE  TypeOK'
  OBVIOUS
<1> USE DEF TypeOK, callbackVars, linkVars, tableVars, loopVars
<1>1. ASSUME NEW v \in Views
      PROVE  \A t \in Surfaces : Without(views[t], {v}) \in Seq(Views)
  BY WithoutIsSeq
<1>2. ASSUME NEW table \in Tables, SetTable(table)
      PROVE  /\ surfaceViews' \in [Outputs -> [Surfaces -> SUBSET Views]]
             /\ has_entered' \in [Outputs -> SUBSET Surfaces]
             /\ inside' \in [Outputs -> SUBSET Surfaces]
  BY <1>2, SetTableTypes DEF Tables
<1>3. surfaceViews \in Tables
  BY DEF Tables
<1>4. ASSUME NEW v \in Views, NEW s \in surfaces \cup {Null}, setSurface(v, s)
      PROVE  TypeOK'
  <2>1. promoted' \subseteq Surfaces
    BY <1>4 DEF setSurface, NotePromoted
  <2>2. Retable(v, s) \in Tables
    BY <1>3, MoveProperties DEF Retable
  <2>3. views' \in [Surfaces -> Seq(Views)]
    BY <1>1, <1>4 DEF setSurface
  <2>4. QED
    BY <1>2, <1>4, <2>1, <2>2, <2>3 DEF setSurface
<1>5. ASSUME NEW v \in Views, NEW o \in Outputs, setOutput(v, o)
      PROVE  TypeOK'
  <2>1. AddView(RemoveView(surfaceViews, v, output[v], surface[v]), v, o, surface[v]) \in Tables
    BY <1>3, MoveProperties
  <2>2. QED
    BY <1>2, <1>5, <2>1 DEF setOutput
<1>6. ASSUME NEW v \in Views, NEW s \in Surfaces, setPrimaryView(s, v)
      PROVE  TypeOK'
  <2>1. promoted' \subseteq Surfaces
    BY <1>6 DEF setPrimaryView, NotePromoted
  <2>2. (IF surface[v] = s THEN surfaceViews ELSE Retable(v, s)) \in Tables
    BY <1>3, MoveProperties DEF Retable
  <2>3. views' \in [Surfaces -> Seq(Views)]
    <3>1. <<v>> \in Seq(Views) /\ \A t \in Surfaces : <<v>> \o Without(views[t], {v}) \in Seq(Views)
      BY <1>1
    <3>2. QED
      BY <1>1, <1>6, <3>1 DEF setPrimaryView
  <2>4. QED
    BY <1>2, <1>6, <2>1, <2>2, <2>3 DEF setPrimaryView
<1>7. ASSUME NEW v \in Views, DestroyView(v)
      PROVE  TypeOK'
  <2>1. promoted' \subseteq Surfaces
    BY <1>7 DEF DestroyView, NotePromoted
  <2>2. RemoveView(surfaceViews, v, output[v], surface[v]) \in Tables
    BY <1>3, RemoveViewProperties
  <2>3. QED
    BY <1>1, <1>2, <1>7, <2>1, <2>2 DEF DestroyView
<1>8. QED
  BY <1>4, <1>5, <1>6, <1>7 DEF CompositorNext

LEMMA LoopTypes == TypeOK /\ RoomToQueue /\ LoopNext => TypeOK' /\ RoomToQueue'
<1> SUFFICES ASSUME TypeOK, RoomToQueue, LoopNext
             PROVE  TypeOK' /\ RoomToQueue'
  OBVIOUS
<1> USE DEF TypeOK, callbackVars, linkVars, tableVars, loopVars
<1>1. ASSUME NEW o \in Outputs, updateStarted(o)
      PROVE  TypeOK' /\ RoomToQueue'
  <2>1. \A s \in Surfaces : Range(frameCallbacks[s]) \subseteq Callbacks
    BY DEF Range
  <2>2. canSend' \subseteq Callbacks
    BY <1>1, <2>1 DEF updateStarted
  <2>3. RoomToQueue'
    BY <1>1 DEF updateStarted, RoomToQueue
  <2>4. QED
    BY <1>1, <2>2, <2>3 DEF updateStarted
<1>2. ASSUME NEW o \in Outputs, AfterRendering(o)
      PROVE  TypeOK' /\ RoomToQueue'
  <2>1. queued[o] < MaxQueued
    BY <1>2 DEF AfterRendering, RoomToQueue
  <2>2. queued' \in [Outputs -> 0..MaxQueued]
    BY <1>2, <2>1, FramesAssumption DEF AfterRendering
  <2>3. RoomToQueue'
    BY <1>2 DEF AfterRendering, RoomToQueue
  <2>4. QED
    BY <1>2, <2>2, <2>3 DEF AfterRendering
<1>3. ASSUME NEW o \in Outputs, doFrameCallbacks(o)
      PROVE  TypeOK' /\ RoomToQueue'
  <2>1. promoted' \subseteq Surfaces
    BY <1>3 DEF doFrameCallbacks, NotePromoted
  <2>2. frameCallbacks' \in [Surfaces -> Seq(Callbacks)]
    BY <1>3, WithoutIsSeq DEF doFrameCallbacks
  <2>3. canSend' \subseteq Callbacks /\ queued' \in [Outputs -> 0..MaxQueued]
    BY <1>3, FramesAssumption DEF doFrameCallbacks
  <2>4. /\ has_entered' \in [Outputs -> SUBSET Surfaces]
        /\ inside' \in [Outputs -> SUBSET Surfaces]
    BY <1>3 DEF doFrameCallbacks
  <2>5. UNCHANGED <<surfaces, hasContent, pendingFrameCallbacks, linkVars, surfaceViews, bound,
                    updates, rendering>>
    BY <1>3 DEF doFrameCallbacks
  <2>6. RoomToQueue'
    BY <1>3, FramesAssumption DEF doFrameCallbacks, RoomToQueue
  <2>7. QED
    BY <2>1, <2>2, <2>3, <2>4, <2>5, <2>6
<1>4. QED
  BY <1>1, <1>2, <1>3 DEF LoopNext

LEMMA TypeInvariant == Spec => [](TypeOK /\ RoomToQueue)
<1>1. TypeOK /\ RoomToQueue /\ UNCHANGED vars => TypeOK' /\ RoomToQueue'
  BY DEF TypeOK, RoomToQueue, vars, callbackVars, linkVars, tableVars, loopVars
<1>2. RoomToQueue /\ (ClientNext \/ CompositorNext) => RoomToQueue'
  BY DEF RoomToQueue, loopVars, ClientNext, BindOutput, CreateSurface, surface_destroy_resource,
         surface_frame, surface_commit, CompositorNext, setSurface, setOutput, setPrimaryView,
         DestroyView
<1>3. TypeOK /\ RoomToQueue /\ [Next]_vars => (TypeOK /\ RoomToQueue)'
  BY <1>1, <1>2, ClientTypes, CompositorTypes, LoopTypes DEF Next
<1>4. QED
  BY <1>3, TypeInit, PTL DEF Spec

\* Every variable has its type; the event queue stays within its bound, which
\* only the start of a frame looks at.
THEOREM TypeCorrect == Spec => []TypeOK
BY TypeInvariant, PTL

-----------------------------------------------------------------------------
(* The tables *)

\* A view that is taken off every list and, unless s is Null, put on that of s.
LEMMA PointKeepsViews ==
  ASSUME TypeOK, ViewsAgree, NEW v \in Views, NEW s \in Surfaces \cup {Null}, NEW list,
         s \in Surfaces => Range(list) = ViewsOf(s) \cup {v},
         views' = [t \in Surfaces |-> IF t = s THEN list ELSE Without(views[t], {v})],
         surface' = [surface EXCEPT ![v] = s]
  PROVE  ViewsAgree'
<1>1. \A t \in Surfaces : Range(Without(views[t], {v})) = ViewsOf(t) \ {v}
  BY WithoutIsSeq DEF TypeOK, ViewsOf
<1>2. ASSUME NEW t \in Surfaces
      PROVE  Range(views'[t]) = {w \in Views : surface'[w] = t}
  <2>1. Range(views'[t]) = IF t = s THEN ViewsOf(t) \cup {v} ELSE ViewsOf(t) \ {v}
    BY <1>1
  <2>2. ViewsOf(t) = {w \in Views : surface[w] = t}
    BY DEF ViewsAgree
  <2>3. \A w \in Views : surface'[w] = IF w = v THEN s ELSE surface[w]
    BY DEF TypeOK
  <2>4. QED
    BY <2>1, <2>2, <2>3
<1>3. QED
  BY <1>2 DEF ViewsAgree, ViewsOf

\* A table that says where the views are after the step.
LEMMA SetTableAgrees ==
  ASSUME TypeOK, TablesAgree, NEW table \in Tables, SetTable(table),
         \A o \in Outputs, s \in Surfaces, w \in Views :
           w \in table[o][s] <=> surface'[w] = s /\ output'[w] = o,
         \A o \in Outputs : \A s \in surfaces \ surfaces' : table[o][s] = {}
  PROVE  TablesAgree'
<1>1. ASSUME NEW o \in Outputs, NEW s \in Surfaces
      PROVE  surfaceViews'[o][s] = {v \in Views : surface'[v] = s /\ output'[v] = o}
  BY DEF SetTable, Tables
<1>2. ASSUME NEW o \in Outputs
      PROVE  inside'[o] \subseteq has_entered'[o] \cap surfaces'
  BY DEF SetTable, TypeOK, TablesAgree
<1>3. QED
  BY <1>1, <1>2 DEF TablesAgree

\* The view v goes from where it is to the surface s and the output o.
LEMMA MoveAgrees ==
  ASSUME TypeOK, TablesAgree, UNCHANGED surfaces, NEW v \in Views, NEW o, NEW s,
         SetTable(AddView(RemoveView(surfaceViews, v, output[v], surface[v]), v, o, s)),
         surface' = [surface EXCEPT ![v] = s], output' = [output EXCEPT ![v] = o]
  PROVE  TablesAgree'
<1> DEFINE table == AddView(RemoveView(surfaceViews, v, output[v], surface[v]), v, o, s)
<1>1. surfaceViews \in Tables
  BY DEF TypeOK, Tables
<1>2. table \in Tables
  BY <1>1, MoveProperties
<1>3. \A p \in Outputs, t \in Surfaces, w \in Views :
        w \in table[p][t] <=> \/ w = v /\ p = o /\ t = s
                              \/ w \in surfaceViews[p][t] /\ ~(w = v /\ p = output[v] /\ t = surface[v])
  BY <1>1, MoveProperties
<1> HIDE DEF table
<1>4. \A p \in Outputs, t \in Surfaces, w \in Views :
        w \in table[p][t] <=> surface'[w] = t /\ output'[w] = p
  BY <1>3 DEF TypeOK, TablesAgree
<1>5. SetTable(table)
  BY DEF table
<1>6. QED
  BY <1>2, <1>4, <1>5, SetTableAgrees

\* Where there is nothing to add, addView adds nothing.
LEMMA AddNothing ==
  ASSUME NEW table, NEW v, NEW o, NEW s, o = Null \/ s = Null
  PROVE  AddView(table, v, o, s) = table
BY DEF AddView

LEMMA DestroyKeepsTables ==
  ASSUME TypeOK, TableInv, NEW s \in Surfaces, surface_destroy_resource(s)
  PROVE  TableInv'
<1> DEFINE table == [o \in Outputs |->
             [surfaceViews[o] EXCEPT ![s] = {v \in @ : v \notin ViewsOf(s) \/ output[v] # o}]]
<1>1. /\ surface' = [v \in Views |-> IF v \in ViewsOf(s) THEN Null ELSE surface[v]]
      /\ views' = [views EXCEPT ![s] = <<>>]
      /\ UNCHANGED output /\ surfaces' = surfaces \ {s} /\ hasContent' = hasContent \ {s}
      /\ SetTable(table)
  BY DEF surface_destroy_resource
<1>2. ViewsOf(s) = {v \in Views : surface[v] = s}
  BY DEF TableInv, ViewsAgree
<1>3. ASSUME NEW o \in Outputs, NEW t \in Surfaces, NEW w \in Views
      PROVE  w \in table[o][t] <=> surface'[w] = t /\ output'[w] = o
  BY <1>1, <1>2, FramesAssumption DEF TypeOK, TableInv, TablesAgree
<1>4. table \in Tables /\ \A o \in Outputs : table[o][s] = {}
  BY <1>2 DEF TypeOK, Tables, TableInv, TablesAgree
<1> HIDE DEF table
<1>5. TablesAgree'
  BY <1>1, <1>3, <1>4, SetTableAgrees DEF TableInv
<1>6. ViewsAgree'
  <2>1. Range(<<>>) = {}
    BY DEF Range
  <2>2. ASSUME NEW t \in Surfaces
        PROVE  Range(views'[t]) = {v \in Views : surface'[v] = t}
    <3>1. ViewsOf(t) = {v \in Views : surface[v] = t} /\ views[t] \in Seq(Views)
      BY DEF TableInv, ViewsAgree, TypeOK
    <3>2. QED
      BY <1>1, <1>2, <2>1, <3>1, FramesAssumption DEF TypeOK, ViewsOf
  <2>3. QED
    BY <2>2 DEF ViewsAgree, ViewsOf
<1>7. QED
  BY <1>1, <1>5, <1>6 DEF TableInv

LEMMA SetSurfaceKeepsTables ==
  ASSUME TypeOK, TableInv, NEW v \in Views, NEW s \in Surfaces \cup {Null}, setSurface(v, s)
  PROVE  TableInv'
<1>1. TablesAgree'
  <2>1. output' = [output EXCEPT ![v] = output[v]]
    BY DEF setSurface, TypeOK
  <2>2. QED
    BY <2>1, MoveAgrees DEF setSurface, Retable, TableInv
<1>2. s \in Surfaces => Range(Append(views[s], v)) = ViewsOf(s) \cup {v}
  BY RangeOfAppend DEF TypeOK, ViewsOf
<1>3. views' = [t \in Surfaces |-> IF t = s THEN Append(views[s], v) ELSE Without(views[t], {v})]
  BY DEF setSurface
<1>4. ViewsAgree'
  BY <1>2, <1>3, PointKeepsViews DEF setSurface, TableInv
<1>5. QED
  BY <1>1, <1>4 DEF setSurface, TableInv

LEMMA SetOutputKeepsTables ==
  ASSUME TypeOK, TableInv, NEW v \in Views, NEW o \in Outputs, setOutput(v, o)
  PROVE  TableInv'
<1>1. surface' = [surface EXCEPT ![v] = surface[v]]
  BY DEF setOutput, TypeOK
<1>2. TablesAgree'
  BY <1>1, MoveAgrees DEF setOutput, TableInv
<1>3. ViewsAgree'
  BY DEF setOutput, TableInv, ViewsAgree, ViewsOf
<1>4. QED
  BY <1>2, <1>3 DEF setOutput, TableInv

LEMMA SetPrimaryViewKeepsTables ==
  ASSUME TypeOK, TableInv, NEW s \in Surfaces, NEW v \in Views, setPrimaryView(s, v)
  PROVE  TableInv'
<1>1. TablesAgree'
  <2>1. CASE surface[v] # s
    <3>1. output' = [output EXCEPT ![v] = output[v]]
      BY DEF setPrimaryView, TypeOK
    <3>2. QED
      BY <2>1, <3>1, MoveAgrees DEF setPrimaryView, Retable, TableInv
  <2>2. CASE surface[v] = s
    <3>1. surface' = surface /\ UNCHANGED <<output, surfaces>> /\ SetTable(surfaceViews)
      BY <2>2 DEF setPrimaryView, TypeOK
    <3>2. surfaceViews \in Tables
      BY DEF TypeOK, Tables
    <3>3. \A o \in Outputs, t \in Surfaces, w \in Views :
            w \in surfaceViews[o][t] <=> surface'[w] = t /\ output'[w] = o
      BY <3>1 DEF TableInv, TablesAgree
    <3>4. QED
      BY <3>1, <3>2, <3>3, SetTableAgrees DEF TableInv
  <2>3. QED
    BY <2>1, <2>2
<1> DEFINE rest == Without(views[s], {v})
<1>2. rest \in Seq(Views) /\ Range(rest) = ViewsOf(s) \ {v}
  BY WithoutIsSeq DEF TypeOK, ViewsOf
<1>3. Range(<<v>> \o rest) = ViewsOf(s) \cup {v}
  <2> DEFINE first == <<v>>
  <2>1. first \in Seq(Views) /\ Range(first) = {v}
    BY DEF Range
  <2> HIDE DEF rest, first
  <2>2. Range(first \o rest) = Range(first) \cup Range(rest)
    BY <1>2, <2>1, RangeOfConcat
  <2>3. Range(first \o rest) = ViewsOf(s) \cup {v}
    BY <1>2, <2>1, <2>2
  <2>4. QED
    BY <2>3 DEF first
<1> DEFINE list == <<v>> \o rest
<1>4. /\ views' = [t \in Surfaces |-> IF t = s THEN list ELSE Without(views[t], {v})]
      /\ surface' = [surface EXCEPT ![v] = s]
  BY DEF setPrimaryView
<1> HIDE DEF list
<1>5. ViewsAgree'
  <2>1. Range(list) = ViewsOf(s) \cup {v}
    BY <1>3 DEF list
  <2>2. QED
    BY <1>4, <2>1, PointKeepsViews DEF TableInv
<1>6. QED
  BY <1>1, <1>5 DEF setPrimaryView, TableInv

LEMMA DestroyViewKeepsTables ==
  ASSUME TypeOK, TableInv, NEW v \in Views, DestroyView(v)
  PROVE  TableInv'
<1>1. SetTable(AddView(RemoveView(surfaceViews, v, output[v], surface[v]), v, Null, Null))
  BY AddNothing DEF DestroyView
<1>2. TablesAgree'
  BY <1>1, MoveAgrees DEF DestroyView, TableInv
<1> DEFINE list == <<>>
<1>3. /\ views' = [t \in Surfaces |-> IF t = Null THEN list ELSE Without(views[t], {v})]
      /\ surface' = [surface EXCEPT ![v] = Null]
  BY FramesAssumption DEF DestroyView
<1> HIDE DEF list
<1>4. ViewsAgree'
  BY <1>3, PointKeepsViews, FramesAssumption DEF TableInv
<1>5. QED
  BY <1>2, <1>4 DEF DestroyView, TableInv

\* A frame that is answered enters the surfaces with content, which exist.
LEMMA FramesKeepTables ==
  ASSUME TypeOK, TableInv, NEW o \in Outputs, doFrameCallbacks(o)
  PROVE  TableInv'
<1>1. ViewsAgree' /\ hasContent' \subseteq surfaces'
  BY DEF doFrameCallbacks, TableInv, ViewsAgree, ViewsOf, linkVars
<1>2. UNCHANGED <<surfaceViews, surface, output, surfaces>>
  BY DEF doFrameCallbacks, linkVars
<1>3. ASSUME NEW p \in Outputs
      PROVE  inside'[p] \subseteq has_entered'[p] \cap surfaces'
  BY <1>2 DEF doFrameCallbacks, TypeOK, TableInv, TablesAgree
<1>4. QED
  BY <1>1, <1>2, <1>3 DEF TableInv, TablesAgree

LEMMA TablesStep == TypeOK /\ TableInv /\ [Next]_vars => TableInv'
<1> SUFFICES ASSUME TypeOK, TableInv, [Next]_vars
             PROVE  TableInv'
  OBVIOUS
<1>1. ASSUME UNCHANGED <<linkVars, tableVars>>, surfaces \subseteq surfaces',
             hasContent' \subseteq surfaces'
      PROVE  TableInv'
  BY <1>1 DEF TableInv, ViewsAgree, ViewsOf, TablesAgree, linkVars, tableVars
<1>2. CASE ClientNext
  <2>1. ASSUME NEW o \in Outputs, BindOutput(o)
        PROVE  TableInv'
    BY <1>1, <2>1 DEF BindOutput, TableInv
  <2>2. ASSUME NEW s \in Surfaces, CreateSurface(s)
        PROVE  TableInv'
    BY <1>1, <2>2 DEF CreateSurface, TableInv
  <2>3. ASSUME NEW s \in Surfaces, NEW c \in Callbacks, surface_frame(s, c)
        PROVE  TableInv'
    BY <1>1, <2>3 DEF surface_frame, TableInv
  <2>4. ASSUME NEW s \in Surfaces, NEW content \in BOOLEAN, surface_commit(s, content)
        PROVE  TableInv'
    BY <1>1, <2>4 DEF surface_commit, TableInv
  <2>5. QED
    BY <1>2, <2>1, <2>2, <2>3, <2>4, DestroyKeepsTables DEF ClientNext
<1>3. CASE CompositorNext
  <2>1. surfaces \cup {Null} \subseteq Surfaces \cup {Null}
    BY DEF TypeOK
  <2>2. QED
    BY <1>3, <2>1, SetSurfaceKeepsTables, SetOutputKeepsTables, SetPrimaryViewKeepsTables,
       DestroyViewKeepsTables DEF CompositorNext
<1>4. CASE LoopNext
  BY <1>1, <1>4, FramesKeepTables DEF LoopNext, updateStarted, AfterRendering, TableInv
<1>5. CASE UNCHANGED vars
  BY <1>1, <1>5 DEF vars, TableInv
<1>6. QED
  BY <1>2, <1>3, <1>4, <1>5 DEF Next

LEMMA TablesInit == Init => TableInv
<1> SUFFICES ASSUME Init
             PROVE  TableInv
  OBVIOUS
<1>1. Range(<<>>) = {}
  BY DEF Range
<1>2. QED
  BY <1>1, FramesAssumption DEF Init, TableInv, ViewsAgree, ViewsOf, TablesAgree

\* TablesAgree, for every instance: whatever order setSurface, setOutput,
\* setPrimaryView, the destructors and the frames come in, each output's table
\* is where the views are, and no surface stays entered that the output lost.
THEOREM TablesFollowViews == Spec => []TablesAgree
<1>1. TableInv => TablesAgree
  BY DEF TableInv
<1>2. QED
  BY <1>1, TablesInit, TablesStep, TypeCorrect, PTL DEF Spec

-----------------------------------------------------------------------------
(* The order of the callbacks *)

LEMMA RequestKeepsOrder ==
  ASSUME TypeOK, FrameInv, NEW s \in Surfaces, NEW c \in Callbacks, surface_frame(s, c)
  PROVE  FrameInv'
<1>1. UNCHANGED <<frameCallbacks, canSend>>
  BY DEF surface_frame
<1>2. \A t \in Surfaces : c \notin Pending(t) /\ c \notin Committed(t)
  BY DEF surface_frame, InUse, Pending, Committed
<1>3. \A t \in Surfaces : Range(pendingFrameCallbacks'[t]) = IF t = s THEN Pending(t) \cup {c}
                                                                   ELSE Pending(t)
  <2>1. \A t \in Surfaces : pendingFrameCallbacks[t] \in Seq(Callbacks)
    BY DEF TypeOK
  <2>2. \A t \in Surfaces : pendingFrameCallbacks'[t] =
          IF t = s THEN Append(pendingFrameCallbacks[s], c) ELSE pendingFrameCallbacks[t]
    BY DEF surface_frame, TypeOK
  <2>3. Range(Append(pendingFrameCallbacks[s], c)) = Range(pendingFrameCallbacks[s]) \cup {c}
    BY <2>1, RangeOfAppend
  <2>4. QED
    BY <2>2, <2>3 DEF Pending
<1>4. OfOneSurface'
  <2>1. \A t \in Surfaces : Pending(t)' = IF t = s THEN Pending(t) \cup {c} ELSE Pending(t)
    BY <1>3 DEF Pending
  <2>2. \A t \in Surfaces : Committed(t)' = Committed(t)
    BY <1>1 DEF Committed
  <2>3. QED
    BY <1>2, <2>1, <2>2 DEF FrameInv, OfOneSurface
<1>5. QED
  BY <1>1, <1>4 DEF FrameInv, MarkedInOrder, Committed

\* The new callbacks of a commit come after the old ones, and none is marked.
LEMMA CommitKeepsOrder ==
  ASSUME TypeOK, FrameInv, NEW s \in Surfaces, NEW content, surface_commit(s, content)
  PROVE  FrameInv'
<1> DEFINE old == frameCallbacks[s]
           new == pendingFrameCallbacks[s]
<1>1. /\ old \in Seq(Callbacks) /\ new \in Seq(Callbacks)
      /\ frameCallbacks' = [frameCallbacks EXCEPT ![s] = old \o new]
      /\ pendingFrameCallbacks' = [pendingFrameCallbacks EXCEPT ![s] = <<>>]
      /\ UNCHANGED canSend
      /\ frameCallbacks \in [Surfaces -> Seq(Callbacks)]
      /\ pendingFrameCallbacks \in [Surfaces -> Seq(Callbacks)]
  BY DEF surface_commit, TypeOK, Queued
<1>2. Range(<<>>) = {} /\ Range(old \o new) = Committed(s) \cup Pending(s)
  <2>1. Range(<<>>) = {}
    BY DEF Range
  <2>2. old \in Seq(Callbacks) /\ new \in Seq(Callbacks)
    BY <1>1
  <2>3. Range(old \o new) = Range(old) \cup Range(new)
    BY <2>2, RangeOfConcat
  <2>4. QED
    BY <2>1, <2>3 DEF Committed, Pending
<1>3. \A t \in Surfaces :
        /\ Pending(t)' = IF t = s THEN {} ELSE Pending(t)
        /\ Committed(t)' = IF t = s THEN Committed(s) \cup Pending(s) ELSE Committed(t)
  BY <1>1, <1>2 DEF Pending, Committed
<1>4. OfOneSurface'
  BY <1>3 DEF FrameInv, OfOneSurface
<1>5. canSend' \subseteq UNION {Committed(t)' : t \in Surfaces}
  BY <1>1, <1>3 DEF FrameInv
<1>6. \A c \in Pending(s) : c \notin canSend
  BY DEF FrameInv, OfOneSurface
<1>7. ASSUME NEW t \in Surfaces, NEW i \in DOMAIN frameCallbacks'[t],
             NEW j \in DOMAIN frameCallbacks'[t],
             i < j, frameCallbacks'[t][j] \in canSend'
      PROVE  frameCallbacks'[t][i] \in canSend'
  <2>1. CASE t # s
    BY <1>1, <1>7, <2>1 DEF FrameInv, MarkedInOrder
  <2>2. CASE t = s
    <3> DEFINE w == old \o new
    <3>1. /\ DOMAIN old = 1 .. Len(old) /\ DOMAIN new = 1 .. Len(new)
          /\ Len(old) \in Nat /\ Len(new) \in Nat
          /\ DOMAIN w = 1 .. (Len(old) + Len(new))
          /\ \A k \in DOMAIN w : w[k] = IF k <= Len(old) THEN old[k] ELSE new[k - Len(old)]
      BY <1>1
    <3>2. i \in DOMAIN w /\ j \in DOMAIN w /\ w[j] \in canSend /\ frameCallbacks'[t][i] = w[i]
      BY <1>1, <1>7, <2>2
    <3> HIDE DEF w
    <3>3. \A k \in 1 .. Len(new) : new[k] \in Pending(s)
      BY <3>1 DEF Pending, Range
    <3> HIDE DEF new
    <3>4. j <= Len(old)
      BY <1>6, <3>1, <3>2, <3>3
    <3>5. i \in DOMAIN old /\ j \in DOMAIN old /\ w[i] = old[i] /\ w[j] = old[j]
      BY <1>7, <3>1, <3>2, <3>4
    <3>6. QED
      BY <1>1, <1>7, <3>2, <3>5 DEF FrameInv, MarkedInOrder
  <2>3. QED
    BY <2>1, <2>2
<1>8. MarkedInOrder'
  BY <1>7 DEF MarkedInOrder
<1>9. QED
  BY <1>4, <1>5, <1>8 DEF FrameInv

LEMMA DestroyKeepsOrder ==
  ASSUME TypeOK, FrameInv, NEW s \in Surfaces, surface_destroy_resource(s)
  PROVE  FrameInv'
<1>1. /\ frameCallbacks' = [frameCallbacks EXCEPT ![s] = <<>>]
      /\ pendingFrameCallbacks' = [pendingFrameCallbacks EXCEPT ![s] = <<>>]
      /\ canSend' = canSend \ Committed(s)
      /\ frameCallbacks \in [Surfaces -> Seq(Callbacks)]
      /\ pendingFrameCallbacks \in [Surfaces -> Seq(Callbacks)]
  BY DEF surface_destroy_resource, Committed, TypeOK
<1>2. Range(<<>>) = {}
  BY DEF Range
<1>3. \A t \in Surfaces : /\ Pending(t)' = IF t = s THEN {} ELSE Pending(t)
                          /\ Committed(t)' = IF t = s THEN {} ELSE Committed(t)
  BY <1>1, <1>2 DEF Pending, Committed
<1>4. OfOneSurface'
  BY <1>3 DEF FrameInv, OfOneSurface
<1>5. canSend' \subseteq UNION {Committed(t)' : t \in Surfaces}
  BY <1>1, <1>3 DEF FrameInv
<1>6. ASSUME NEW t \in Surfaces, NEW i \in DOMAIN frameCallbacks'[t],
             NEW j \in DOMAIN frameCallbacks'[t],
             i < j, frameCallbacks'[t][j] \in canSend'
      PROVE  frameCallbacks'[t][i] \in canSend'
  <2>1. t # s /\ frameCallbacks'[t] = frameCallbacks[t]
    BY <1>1, <1>6
  <2>2. frameCallbacks[t][i] \in canSend /\ frameCallbacks[t][i] \in Committed(t)
    BY <1>1, <1>6, <2>1 DEF FrameInv, MarkedInOrder, Committed, Range
  <2>3. Committed(t) \cap Committed(s) = {}
    BY <2>1 DEF FrameInv, OfOneSurface
  <2>4. QED
    BY <1>1, <2>1, <2>2, <2>3
<1>7. MarkedInOrder'
  BY <1>6 DEF MarkedInOrder
<1>8. QED
  BY <1>4, <1>5, <1>7 DEF FrameInv

\* A frame marks all that is committed of a surface, or nothing.
LEMMA StartKeepsOrder ==
  ASSUME TypeOK, FrameInv, NEW o \in Outputs, updateStarted(o)
  PROVE  FrameInv'
<1> DEFINE shown == {s \in Surfaces : ShowsPrimary(o, s)}
<1>1. /\ UNCHANGED <<frameCallbacks, pendingFrameCallbacks>>
      /\ canSend' = canSend \cup UNION {Committed(s) : s \in shown}
  BY DEF updateStarted, Committed
<1> HIDE DEF shown
<1>2. shown \subseteq Surfaces
  BY DEF shown
<1>3. \A s \in Surfaces : Pending(s)' = Pending(s) /\ Committed(s)' = Committed(s)
  BY <1>1 DEF Pending, Committed
<1>4. OfOneSurface'
  BY <1>3 DEF FrameInv, OfOneSurface
<1>5. canSend' \subseteq UNION {Committed(s)' : s \in Surfaces}
  BY <1>1, <1>2, <1>3 DEF FrameInv
<1>6. ASSUME NEW s \in Surfaces, NEW i \in DOMAIN frameCallbacks[s],
             NEW j \in DOMAIN frameCallbacks[s],
             i < j, frameCallbacks[s][j] \in canSend'
      PROVE  frameCallbacks[s][i] \in canSend'
  <2>1. CASE frameCallbacks[s][j] \in canSend
    BY <1>1, <1>6, <2>1 DEF FrameInv, MarkedInOrder
  <2>2. CASE frameCallbacks[s][j] \notin canSend
    <3>1. frameCallbacks[s][i] \in Committed(s) /\ frameCallbacks[s][j] \in Committed(s)
      BY DEF Committed, Range
    <3>2. PICK t \in shown : frameCallbacks[s][j] \in Committed(t)
      BY <1>1, <1>6, <2>2
    <3>3. t = s
      BY <1>2, <3>1, <3>2 DEF FrameInv, OfOneSurface
    <3>4. QED
      BY <1>1, <3>1, <3>2, <3>3
  <2>3. QED
    BY <2>1, <2>2
<1>7. MarkedInOrder'
  BY <1>1, <1>6 DEF MarkedInOrder
<1>8. QED
  BY <1>4, <1>5, <1>7 DEF FrameInv

\* What a frame answers leaves the lists, and the rest stays in order.
LEMMA FramesKeepOrder ==
  ASSUME TypeOK, FrameInv, NEW o \in Outputs, doFrameCallbacks(o)
  PROVE  FrameInv'
<1>1. /\ frameCallbacks' = [s \in Surfaces |-> Without(frameCallbacks[s], Answers(o))]
      /\ canSend' = canSend \ Answers(o)
      /\ UNCHANGED pendingFrameCallbacks
  BY DEF doFrameCallbacks
<1>2. \A s \in Surfaces : /\ Pending(s)' = Pending(s)
                          /\ Committed(s)' = Committed(s) \ Answers(o)
  BY <1>1, WithoutIsSeq DEF TypeOK, Pending, Committed
<1>3. OfOneSurface'
  BY <1>2 DEF FrameInv, OfOneSurface
<1>4. canSend' \subseteq UNION {Committed(s)' : s \in Surfaces}
  BY <1>1, <1>2 DEF FrameInv
<1>5. ASSUME NEW s \in Surfaces, NEW i \in DOMAIN frameCallbacks'[s],
             NEW j \in DOMAIN frameCallbacks'[s],
             i < j, frameCallbacks'[s][j] \in canSend'
      PROVE  frameCallbacks'[s][i] \in canSend'
  <2> DEFINE old == frameCallbacks[s]
             w == Without(old, Answers(o))
  <2>1. frameCallbacks'[s] = w /\ old \in Seq(Callbacks)
    BY <1>1 DEF TypeOK
  <2>2. PICK k \in DOMAIN old, l \in DOMAIN old :
          k < l /\ w[i] = old[k] /\ w[j] = old[l] /\ w[i] \notin Answers(o)
    <3>1. i \in DOMAIN w /\ j \in DOMAIN w
      BY <1>5, <2>1
    <3> HIDE DEF w, old
    <3>2. w = Without(old, Answers(o))
      BY DEF w
    <3>3. QED
      BY <1>5, <2>1, <3>1, <3>2, WithoutKeepsOrder
  <2> HIDE DEF w
  <2>3. old[l] \in canSend
    BY <1>1, <1>5, <2>1, <2>2
  <2>4. old[k] \in canSend
    BY <2>2, <2>3 DEF FrameInv, MarkedInOrder
  <2>5. QED
    BY <1>1, <2>1, <2>2, <2>4
<1>6. MarkedInOrder'
  BY <1>5 DEF MarkedInOrder
<1>7. QED
  BY <1>3, <1>4, <1>6 DEF FrameInv

LEMMA OrderStep == TypeOK /\ FrameInv /\ [Next]_vars => FrameInv'
<1> SUFFICES ASSUME TypeOK, FrameInv, [Next]_vars
             PROVE  FrameInv'
  OBVIOUS
<1>1. UNCHANGED callbackVars => FrameInv'
  BY DEF callbackVars, FrameInv, OfOneSurface, Pending, Committed, MarkedInOrder
<1>2. CASE ClientNext
  BY <1>1, <1>2, RequestKeepsOrder, CommitKeepsOrder, DestroyKeepsOrder
     DEF ClientNext, BindOutput, CreateSurface
<1>3. CASE CompositorNext
  BY <1>1, <1>3 DEF CompositorNext, setSurface, setOutput, setPrimaryView, DestroyView
<1>4. CASE LoopNext
  BY <1>1, <1>4, StartKeepsOrder, FramesKeepOrder DEF LoopNext, AfterRendering
<1>5. CASE UNCHANGED vars
  BY <1>1, <1>5 DEF vars
<1>6. QED
  BY <1>2, <1>3, <1>4, <1>5 DEF Next

LEMMA OrderInit == Init => FrameInv
<1> SUFFICES ASSUME Init
             PROVE  FrameInv
  OBVIOUS
<1>1. Range(<<>>) = {} /\ DOMAIN <<>> = {}
  BY DEF Range
<1>2. QED
  BY <1>1 DEF Init, FrameInv, OfOneSurface, Pending, Committed, MarkedInOrder

\* MarkedInOrder, for every instance: what is marked of a surface's callbacks is
\* a prefix of what waits, although a render thread marks them, the GUI thread
\* answers them frames later, and several outputs do both.
THEOREM MarksFollowRequests == Spec => []MarkedInOrder
<1>1. FrameInv => MarkedInOrder
  BY DEF FrameInv
<1>2. QED
  BY <1>1, OrderInit, OrderStep, TypeCorrect, PTL DEF Spec
=============================================================================
