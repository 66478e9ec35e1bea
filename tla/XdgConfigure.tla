---------------------------- MODULE XdgConfigure ----------------------------
(***************************************************************************)
(* The configure events of an xdg toplevel, between the compositor with    *)
(* the shell integration of its item (qwaylandxdgshell.cpp and             *)
(* qwaylandxdgshellintegration.cpp under compositor/extensions) and the    *)
(* client window (plugins/shellintegration/xdg-shell/qwaylandxdgshell.cpp  *)
(* and client/qwaylandwindow.cpp).  Each direction of the connection is a  *)
(* queue.  Of a size only its kind is kept: left to the client (0 x 0),    *)
(* that of the window, or that of the output.                              *)
(***************************************************************************)
EXTENDS Naturals, SequencesExt

CONSTANTS MaxSerial,    \* bound: configure events sent but for those requested
          MaxRequests,  \* bound: window states the application asks for
          Threaded      \* the window is painted by a render thread (OpenGL)

\* The first event is sent when the toplevel is made.
ASSUME BoundsAreNumbers == MaxSerial \in Nat \ {0} /\ MaxRequests \in Nat
ASSUME ThreadedIsBoolean == Threaded \in BOOLEAN

VARIABLES pending,   \* m_pendingConfigures
          acked,     \* m_lastAckedConfigure
          sent,      \* number of configure events sent: the last serial
          focused,   \* the surface has the keyboard focus
          windowed,  \* windowedGeometry.initialWindowSize
          geometry,  \* m_windowGeometry
          down, up,  \* events and requests under way
          client,    \* the client's QWaylandXdgSurface and its window
          requests   \* how often the application asked

compositor == <<pending, acked, sent, focused, windowed, geometry>>
vars == <<pending, acked, sent, focused, windowed, geometry, down, up, client, requests>>

Large == {"maximized", "fullscreen"}
States == Large \cup {"resizing", "activated"}
Sizes == {"free", "window", "output"}
Serials == 0..(MaxSerial + 2 * MaxRequests)   \* a request asks for two at most
Configures == [serial : Serials, states : SUBSET States, size : Sizes]

Event(conf) == <<[conf |-> conf, role |-> "toplevel"], [conf |-> conf, role |-> "surface"]>>
First == [serial |-> 1, states |-> {}, size |-> "free"]
Unset == [serial |-> 0, states |-> {}, size |-> "free"]

\* The constructor of the toplevel has sent a configure event of no size.
Init == /\ pending = <<First>> /\ acked = Unset /\ sent = 1 /\ focused = FALSE
        /\ windowed = "none" /\ geometry = "window"
        /\ down = Event(First) /\ up = <<>> /\ requests = 0
        /\ client = [pending |-> Unset, half |-> FALSE, serial |-> 0, configured |-> FALSE,
                     waiting |-> FALSE, applying |-> FALSE, blocked |-> FALSE,
                     applied |-> Unset, normal |-> "none", size |-> "window"]
-----------------------------------------------------------------------------
(* The compositor *)

lastSentConfigure == IF pending = <<>> THEN acked ELSE Last(pending)

sendConfigure(size, states) ==
    LET conf == [serial |-> sent + 1, states |-> states, size |-> size]
    IN  /\ sent' = conf.serial
        /\ pending' = Append(pending, conf)
        /\ down' = down \o Event(conf)

\* The convenience functions replace the mode and keep the activated state.
sendMode(size, mode) == sendConfigure(size, (lastSentConfigure.states \ {"maximized", "fullscreen", "resizing"}) \cup mode)

\* The user drags an edge: mouseMoveEvent sends the size every time.
sendResizing == /\ sent < MaxSerial /\ sendMode("window", {"resizing"})
                /\ UNCHANGED <<acked, focused, windowed, geometry, up, client, requests>>

handleFocusReceived ==
    /\ ~focused /\ focused' = TRUE /\ sent < MaxSerial
    /\ IF "activated" \in lastSentConfigure.states
       THEN UNCHANGED <<sent, pending, down>>
       ELSE sendConfigure(lastSentConfigure.size, lastSentConfigure.states \cup {"activated"})
    /\ UNCHANGED <<acked, windowed, geometry, up, client, requests>>

handleFocusLost ==
    /\ focused /\ focused' = FALSE /\ sent < MaxSerial
    /\ sendConfigure(lastSentConfigure.size, lastSentConfigure.states \ {"activated"})
    /\ UNCHANGED <<acked, windowed, geometry, up, client, requests>>

RememberedAlways == geometry   \* mutant: the size of a large window as well

\* The window's size is remembered when it goes from windowed to large.
Remembered == IF acked.states \cap Large = {} THEN geometry ELSE windowed

\* handleSetMaximized and handleSetFullscreen of the item that is the primary
\* view, on an output whose geometry does not change.
handleSet(mode) == sendMode("output", {mode}) /\ windowed' = Remembered

\* handleUnsetMaximized and handleUnsetFullscreen both take both modes away.
handleUnset == /\ sendMode(IF windowed = "none" THEN "free" ELSE windowed, {})
               /\ UNCHANGED windowed

\* Mutant: only the acknowledged configure is removed.
handleAckConfigureOnly(serial) ==
    LET i == SelectInSeq(pending, LAMBDA conf : conf.serial = serial)
    IN  IF i = 0 THEN pending' = <<>> /\ UNCHANGED acked
        ELSE acked' = pending[i] /\ pending' = RemoveAt(pending, i)

\* Mutant: an acknowledgement out of turn is taken for an unknown one.
handleAckConfigureInTurn(serial) ==
    IF pending = <<>> \/ Head(pending).serial # serial THEN pending' = <<>> /\ UNCHANGED acked
    ELSE acked' = Head(pending) /\ pending' = Tail(pending)

\* Configures are dropped up to the acknowledged one; an unknown serial drops all.
handleAckConfigure(serial) ==
    LET i == SelectInSeq(pending, LAMBDA conf : conf.serial = serial)
    IN  IF i = 0 THEN pending' = <<>> /\ UNCHANGED acked
        ELSE acked' = pending[i] /\ pending' = SubSeq(pending, i + 1, Len(pending))

\* The integration alone answers to a mode that is requested.
set_mode(request) == /\ request.type = "set" /\ handleSet(request.mode)
                     /\ UNCHANGED <<acked, geometry>>

unset_mode(request) == /\ request.type = "unset" /\ handleUnset
                       /\ UNCHANGED <<acked, geometry>>

\* set_window_geometry and ack_configure, which a client sends together.
ack_configure(request) ==
    /\ request.type = "ack" /\ handleAckConfigure(request.serial)
    /\ geometry' = request.size
    /\ UNCHANGED <<windowed, sent, down>>

HandleRequest ==
    /\ up # <<>> /\ up' = Tail(up)
    /\ set_mode(Head(up)) \/ unset_mode(Head(up)) \/ ack_configure(Head(up))
    /\ UNCHANGED <<focused, client, requests>>
-----------------------------------------------------------------------------
(* The client *)

\* The compositor writes both events of a configure at once; without a render
\* thread they are taken to be handled in one dispatch, in which nothing is
\* applied.  With one, it may apply a configure in between.
MayApply == Threaded \/ ~client.half

xdg_toplevel_configure ==
    /\ down # <<>> /\ Head(down).role = "toplevel" /\ ~client.blocked
    /\ client.applying => Threaded
    /\ client' = [client EXCEPT !.pending = Head(down).conf, !.half = TRUE]
    /\ down' = Tail(down)
    /\ UNCHANGED <<compositor, up, requests>>

\* Mutant: the branches are exchanged.
NormalSizeOfLarge == IF client.applied.states \cap Large = {} THEN client.normal ELSE client.size

NormalSize == IF client.applied.states \cap Large = {} THEN client.size ELSE client.normal

NewSize == CASE client.pending.size # "free" -> client.pending.size
             [] client.pending.size = "free" /\ client.pending.states \cap Large = {} -> NormalSize
             [] OTHER -> client.size

\* Toplevel::applyConfigure, set_window_geometry and ack_configure(serial).
Applied(c, serial) ==
    /\ client' = [c EXCEPT !.normal = NormalSize, !.size = NewSize, !.applied = client.pending,
                           !.configured = TRUE]
    /\ up' = Append(up, [type |-> "ack", serial |-> serial, size |-> NewSize])

\* The first configure is applied at once; a later one waits for the window,
\* whose lock a render thread holds while it applies the one before.
xdg_surface_configure ==
    /\ down # <<>> /\ Head(down).role = "surface" /\ ~client.blocked
    /\ client.applying => Threaded
    /\ down' = Tail(down)
    /\ LET serial == Head(down).conf.serial
       IN  \/ ~client.configured /\ Applied([client EXCEPT !.half = FALSE], serial)
           \/ /\ client.configured
              /\ client' = [client EXCEPT !.serial = serial, !.half = FALSE,
                                          !.waiting = TRUE, !.blocked = client.applying]
              /\ UNCHANGED up
    /\ UNCHANGED <<compositor, requests>>

\* QWaylandWindow::doApplyConfigure: from the posted event, or after a paint.
applyConfigure ==
    /\ client.waiting /\ ~client.applying /\ MayApply
    /\ Applied([client EXCEPT !.applying = TRUE], client.serial)
    /\ UNCHANGED <<compositor, down, requests>>

\* m_pendingConfigureSerial and mWaitingToApplyConfigure are cleared; a
\* thread that waits for the lock sets the latter again.
FinishApply ==
    /\ client.applying
    /\ client' = [client EXCEPT !.applying = FALSE, !.serial = 0,
                                !.waiting = client.blocked, !.blocked = FALSE]
    /\ UNCHANGED <<compositor, down, up, requests>>

\* Only what differs from the applied state is requested, maximized first.
requestWindowStates(states) ==
    LET Request(mode) == IF (mode \in states) = (mode \in client.applied.states) THEN <<>>
                         ELSE <<[type |-> IF mode \in states THEN "set" ELSE "unset", mode |-> mode]>>
    IN  /\ requests < MaxRequests /\ requests' = requests + 1
        /\ client.applying => Threaded
        /\ up' = up \o Request("maximized") \o Request("fullscreen")
        /\ UNCHANGED <<compositor, down, client>>
-----------------------------------------------------------------------------
Next == \/ sendResizing \/ handleFocusReceived \/ handleFocusLost \/ HandleRequest
        \/ xdg_toplevel_configure \/ xdg_surface_configure \/ applyConfigure \/ FinishApply
        \/ \E states \in SUBSET Large : requestWindowStates(states)

Spec == Init /\ [][Next]_vars

\* Both ends handle what reaches them; a window is not painted for ever.
FairSpec == /\ Spec /\ WF_vars(HandleRequest) /\ WF_vars(xdg_toplevel_configure)
            /\ WF_vars(xdg_surface_configure) /\ WF_vars(applyConfigure) /\ WF_vars(FinishApply)
-----------------------------------------------------------------------------
(* Type correctness: queues hold events and requests of the protocol. *)
TypeOK ==
    /\ pending \in Seq(Configures) /\ acked \in Configures
    /\ sent \in Serials /\ focused \in BOOLEAN /\ requests \in 0..MaxRequests
    /\ windowed \in Sizes \cup {"none"} /\ geometry \in Sizes
    /\ down \in Seq([conf : Configures, role : {"toplevel", "surface"}])
    /\ up \in Seq([type : {"set", "unset"}, mode : Large]
                  \cup [type : {"ack"}, serial : Serials, size : Sizes])
    /\ client \in [pending : Configures, half : BOOLEAN, serial : Serials,
                   configured : BOOLEAN, waiting : BOOLEAN, applying : BOOLEAN,
                   blocked : BOOLEAN, applied : Configures,
                   normal : Sizes \cup {"none"}, size : Sizes]

Quiet == down = <<>> /\ up = <<>> /\ ~client.waiting /\ ~client.applying

(* When nothing is under way the two ends agree, whatever was overtaken on *)
(* the way: the last event sent is acknowledged and applied, no configure  *)
(* is left pending (handleAckConfigure against the client's single pending *)
(* configure), and the window has the size of its states.                  *)
AgreeWhenQuiet ==
    Quiet => /\ pending = <<>> /\ acked.serial = sent
             /\ client.applied = acked /\ geometry = client.size
             /\ acked.states \cap Large # {} <=> client.size = "output"

(* Neither end takes the size of the output for the one to go back to:     *)
(* windowedGeometry, recorded when a request meets acknowledged states,    *)
(* and m_normalSize, recorded when a configure is applied.                 *)
WindowSizeKept == windowed # "output" /\ client.normal # "output"

(* Every configure event is acknowledged, or one sent after it: a client   *)
(* that is being painted, and one whose events come in a rush, catch up.   *)
ConfigureAcked == \A n \in Serials : sent >= n ~> acked.serial >= n

(* qwaylandxdgshell.cpp asserts m_pendingConfigureSerial when a configure  *)
(* is applied.                                                             *)
SerialIsPending == client.waiting /\ ~client.applying => client.serial # 0
=============================================================================
