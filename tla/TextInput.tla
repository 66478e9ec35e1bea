------------------------------- MODULE TextInput -------------------------------
(***************************************************************************)
(* One client's text input: the compositor's record of its focus and text  *)
(* (compositor/extensions/qwaylandtextinput.cpp and                        *)
(* qwaylandinputmethodcontrol.cpp), the client's input context             *)
(* (client/qwaylandinputcontext.cpp), and the activation of windows on     *)
(* which that depends (client/qwaylanddisplay.cpp), by the keyboard's      *)
(* enter and leave: an xdg toplevel has its active state for that.  Each   *)
(* direction of the connection is a queue.  Of a text only the number of   *)
(* its edits and of the commits of the input method is kept.               *)
(***************************************************************************)
EXTENDS Lists, SequencesExt, TLC

CONSTANTS Surfaces,   \* the surfaces of the client, one per window
          None,
          MaxEvents,  \* bound: focus changes, commits and keys
          MaxInputs   \* bound: edits, resets and toggles of the application

ASSUME NoneIsNoSurface == None \notin Surfaces
ASSUME BoundsAreNumbers == MaxEvents \in Nat /\ MaxInputs \in Nat

VARIABLES focus,     \* focus of the seat's keyboard and text input
          current,   \* currentState: what is known of the editor's text
          enabled,   \* enabledSurfaces of the client's resource
          controls,  \* surfaces whose input method control is enabled
          handled,   \* resets that the compositor has handled
          down, up,  \* events and requests under way
          display,   \* mActiveWindows, mLastKeyboardFocus and mSyncCallback
          posted,    \* activations in the queue of QWindowSystemInterface
          window,    \* QGuiApplication::focusWindow
          accepts,   \* windows whose editor accepts input methods
          texts,     \* text of each window's editor
          context,   \* mCurrentWindow, m_surface and m_resetCallback
          unreported,\* ghost: the client did not report the editor's text since
                     \* its window was activated and its surface entered, or
                     \* since a commit that the editor did not take
          left       \* what is left of the bounds

compositor == <<focus, current, enabled, controls, handled>>
activation == <<display, posted, window>>
textVars == <<focus, current, enabled, controls, handled, down, up, display, posted, window,
              accepts, texts, context, unreported, left>>

Targets == Surfaces \cup {None}
Text == [of : Targets, edits : 0..MaxInputs, commits : 0..MaxEvents]
Blank == [of |-> None, edits |-> 0, commits |-> 0]

Event(event, surface, n) == [event |-> event, surface |-> surface, n |-> n]
Request(type, surface, text, n) == [type |-> type, surface |-> surface, text |-> text, n |-> n]

TextInit == /\ focus = None /\ current = Blank /\ enabled = None /\ controls = {} /\ handled = 0
            /\ down = <<>> /\ up = <<>> /\ posted = <<>> /\ window = None
            /\ display = [active |-> <<>>, last |-> None, syncing |-> FALSE]
            /\ accepts \in SUBSET Surfaces
            /\ texts = [s \in Surfaces |-> [Blank EXCEPT !.of = s]]
            /\ context = [current |-> None, surface |-> None, resets |-> 0, awaits |-> 0]
            /\ unreported = TRUE
            /\ left = [events |-> MaxEvents, inputs |-> MaxInputs]

Spend(what) == left[what] > 0 /\ left' = [left EXCEPT ![what] = @ - 1]
When(condition, sequence) == IF condition THEN sequence ELSE <<>>
-----------------------------------------------------------------------------
(* The compositor *)

\* takeFocus: first the keyboard, then the text input leaves and enters.
setFocus(surface) ==
    /\ surface # focus /\ Spend("events") /\ focus' = surface
    /\ current' = IF surface = None THEN current ELSE Blank
    /\ LET Moves(leave, enter) == When(focus # None, <<Event(leave, None, 0)>>)
                                  \o When(surface # None, <<Event(enter, surface, 0)>>)
       IN  down' = down \o Moves("keyboard", "keyboard") \o Moves("leave", "enter")
    /\ UNCHANGED <<enabled, controls, handled, up, activation, accepts, texts, context, unreported>>

\* currentState is what the editor's text will be after the commit.
sendInputMethodEvent ==
    /\ focus # None /\ Spend("events")
    /\ current' = [current EXCEPT !.commits = @ + 1]
    /\ down' = Append(down, Event("commit", focus, handled))
    /\ UNCHANGED <<focus, enabled, controls, handled, up, activation, accepts, texts, context, unreported>>

SendKey == /\ focus # None /\ Spend("events") /\ down' = Append(down, Event("key", focus, 0))
           /\ UNCHANGED <<compositor, up, activation, accepts, texts, context, unreported>>

\* State of a client without the focus is ignored.  The sync that follows a
\* reset is written, and so read, together with it.  What the compositor's input
\* method does when it is reset (qApp->inputMethod()->reset()) is left out.
update_state(request) ==
    /\ request.type = "state"
    /\ current' = IF focus = None THEN current ELSE request.text
    /\ handled' = IF request.n = 0 THEN handled ELSE request.n
    /\ down' = down \o When(request.n # 0, <<Event("done", None, request.n)>>)
    /\ UNCHANGED <<enabled, controls>>

enable(request) == /\ request.type = "enable" /\ enabled' = request.surface
                   /\ controls' = controls \cup {request.surface}
                   /\ UNCHANGED <<current, handled, down>>

\* The surface that the resource enabled last is disabled, whichever is named.
disable(request) == /\ request.type = "disable" /\ enabled' = None
                    /\ controls' = controls \ {enabled}
                    /\ UNCHANGED <<current, handled, down>>

AnswerSync(request) == /\ request.type = "sync" /\ down' = Append(down, Event("done", None, 0))
                       /\ UNCHANGED <<current, handled, enabled, controls>>

HandleRequest ==
    /\ up # <<>> /\ up' = Tail(up)
    /\ update_state(Head(up)) \/ enable(Head(up)) \/ disable(Head(up)) \/ AnswerSync(Head(up))
    /\ UNCHANGED <<focus, activation, accepts, texts, context, unreported, left>>
-----------------------------------------------------------------------------
(* The client: activation of windows *)

Receive(event) == down # <<>> /\ Head(down).event = event /\ down' = Tail(down)

\* handleWindowActivated and handleWindowDeactivated ask for one sync at a time.
\* The list holds no window twice: Without is its removeOne.
handleKeyboardFocusChanged ==
    /\ Receive("keyboard")
    /\ LET new == Head(down).surface
           old == display.last
           activated == IF new = None \/ new \in Range(display.active) THEN display.active
                        ELSE Append(display.active, new)
           asks == /\ new # old /\ ~display.syncing
                   /\ activated # display.active \/ (old # None /\ Last(activated) = old)
       IN  /\ display' = [active |-> IF new = old THEN display.active ELSE Without(activated, {old}),
                          last |-> new, syncing |-> display.syncing \/ asks]
           /\ up' = up \o When(asks, <<Request("sync", None, Blank, 0)>>)
    /\ UNCHANGED <<compositor, posted, window, accepts, texts, context, unreported, left>>

\* The answer to a sync may come in before an activation by a key is delivered.
handleWaylandSync ==
    /\ Receive("done") /\ Head(down).n = 0
    /\ LET active == IF display.active = <<>> THEN None ELSE Last(display.active)
       IN  posted' = posted \o When(active # window, <<active>>)
    /\ display' = [display EXCEPT !.syncing = FALSE]
    /\ UNCHANGED <<compositor, up, window, accepts, texts, context, unreported, left>>

\* In webOS a key activates the window that has the keyboard at once.
keyboard_key ==
    /\ Receive("key")
    /\ posted' = posted \o When(display.last \notin {None, window}, <<display.last>>)
    /\ UNCHANGED <<compositor, up, display, window, accepts, texts, context, unreported, left>>
-----------------------------------------------------------------------------
(* The client: its input context *)

Accepted(w) == w # None /\ w \in accepts'

\* QWaylandTextInput::updateState for the window w: what it sends, and what it
\* leaves of the context, when its flags are those of an enter or a reset, which
\* replaces the callback of an earlier one.  A change sends the text if it is
\* among the queries; without it the compositor's text stays as it is, and of the
\* rest (hints, rectangle, language) nothing is kept here.  An enter or a reset
\* sends all.
Reports(w, c) == w # None /\ w = c.surface
Change(w, c, queries) ==
    When("text" \in queries /\ Reports(w, c), <<Request("state", None, texts'[w], 0)>>)
\* Mutant: a reset that follows another keeps the callback of the first.
RenewedOnce(w, c) ==
    IF Reports(w, c) THEN [c EXCEPT !.resets = @ + 1, !.awaits = IF @ = 0 THEN c.resets + 1 ELSE @]
    ELSE c

Renewed(w, c) == IF Reports(w, c) THEN [c EXCEPT !.resets = @ + 1, !.awaits = c.resets + 1] ELSE c
Reset(w, c) == When(Reports(w, c), <<Request("state", None, texts'[w], c.resets + 1)>>)

zwp_text_input_v2_enter ==
    /\ Receive("enter") /\ UNCHANGED <<accepts, texts>>
    /\ LET entered == [context EXCEPT !.surface = Head(down).surface]
       IN  /\ context' = Renewed(window, entered) /\ up' = up \o Reset(window, entered)
           /\ unreported' = ~Reports(window, entered)
    /\ UNCHANGED <<compositor, activation, left>>

\* Mutant: the event of any reset confirms.
resetCallbackOfAny ==
    /\ Receive("done") /\ Head(down).n # 0 /\ context' = [context EXCEPT !.awaits = 0]
    /\ UNCHANGED <<compositor, up, activation, accepts, texts, unreported, left>>

zwp_text_input_v2_leave ==
    /\ Receive("leave") /\ context' = [context EXCEPT !.surface = None]
    /\ UNCHANGED <<compositor, up, activation, accepts, texts, unreported, left>>

\* The callback of an earlier reset is destroyed: its event is dropped.
resetCallback ==
    /\ Receive("done") /\ Head(down).n # 0
    /\ context' = [context EXCEPT !.awaits = IF @ = Head(down).n THEN 0 ELSE @]
    /\ UNCHANGED <<compositor, up, activation, accepts, texts, unreported, left>>

\* A commit is discarded while a reset is not confirmed; the editor reports
\* the change of its text.
zwp_text_input_v2_commit_string ==
    /\ Receive("commit") /\ UNCHANGED accepts
    /\ IF context.awaits = 0 /\ Accepted(window)
       THEN /\ texts' = [texts EXCEPT ![window].commits = @ + 1]
            /\ up' = up \o Change(window, context, {"text"})
            /\ unreported' = ~Reports(window, context)
       ELSE /\ UNCHANGED <<texts, up>>
            /\ unreported' = (unreported \/ context.awaits = 0)
    /\ UNCHANGED <<compositor, activation, context, left>>

\* QWaylandInputContext::update, with the properties that changed.
update(queries) ==
    LET disables == context.current # None /\ ~Accepted(window)
        enables == context.current = None /\ Accepted(window)
    IN  /\ context' = [context EXCEPT !.current = IF disables THEN None
                                                  ELSE IF enables THEN window ELSE @]
        /\ up' = up \o When(disables, <<Request("disable", context.current, Blank, 0)>>)
                    \o When(enables, <<Request("enable", window, Blank, 0)>>)
                    \o Change(window, context, queries)
        /\ unreported' = (unreported /\ ~("text" \in queries /\ Reports(window, context)))

Edit == /\ window # None /\ window \in accepts /\ Spend("inputs")
        /\ texts' = [texts EXCEPT ![window].edits = @ + 1]
        /\ UNCHANGED accepts /\ update({"text"})
        /\ UNCHANGED <<compositor, down, activation>>

\* An editor that starts or stops to accept reports that, as setReadOnly of Qt's
\* editors does (Qt::ImEnabled), or all its properties.
Toggle(queries) ==
          /\ window # None /\ Spend("inputs")
          /\ accepts' = IF window \in accepts THEN accepts \ {window} ELSE accepts \cup {window}
          /\ UNCHANGED texts /\ update(queries)
          /\ UNCHANGED <<compositor, down, activation>>

reset == /\ window # None /\ Spend("inputs") /\ UNCHANGED <<accepts, texts>>
         /\ context' = Renewed(window, context) /\ up' = up \o Reset(window, context)
         /\ unreported' = (unreported /\ ~Reports(window, context))
         /\ UNCHANGED <<compositor, down, activation>>

\* Mutant: the state is not sent for the new focus object.
setFocusObjectOnly(w) ==
    /\ context' = [context EXCEPT !.current = IF Accepted(w) THEN w ELSE None]
    /\ up' = up \o When(context.current # None /\ (context.current # w \/ ~Accepted(w)),
                        <<Request("disable", context.current, Blank, 0)>>)
                \o When(Accepted(w) /\ context.current # w, <<Request("enable", w, Blank, 0)>>)
    /\ unreported' = ~(Accepted(w) /\ Reports(w, context))

\* The focus object changes with the focus window.
setFocusObject(w) ==
    LET disables == context.current # None /\ (context.current # w \/ ~Accepted(w))
        enables == Accepted(w) /\ context.current # w
        c == [context EXCEPT !.current = IF Accepted(w) THEN w ELSE None]
    IN  /\ context' = IF Accepted(w) THEN Renewed(w, c) ELSE c
        /\ up' = up \o When(disables, <<Request("disable", context.current, Blank, 0)>>)
                    \o When(enables, <<Request("enable", w, Blank, 0)>>)
                    \o When(Accepted(w), Reset(w, c))
        /\ unreported' = ~(Accepted(w) /\ Reports(w, c))

DeliverActivation ==
    /\ posted # <<>> /\ posted' = Tail(posted) /\ window' = Head(posted)
    /\ UNCHANGED <<accepts, texts>>
    /\ IF window' = window THEN UNCHANGED <<context, up, unreported>> ELSE setFocusObject(window')
    /\ UNCHANGED <<compositor, down, display, left>>
-----------------------------------------------------------------------------
TextNext == \/ \E s \in Targets : setFocus(s)
            \/ sendInputMethodEvent \/ SendKey \/ HandleRequest
            \/ handleKeyboardFocusChanged \/ handleWaylandSync \/ keyboard_key
            \/ zwp_text_input_v2_enter \/ zwp_text_input_v2_leave \/ resetCallback
            \/ zwp_text_input_v2_commit_string \/ Edit \/ reset \/ DeliverActivation
            \/ \E queries \in {{"enabled"}, {"enabled", "text"}} : Toggle(queries)

TextSpec == TextInit /\ [][TextNext]_textVars
-----------------------------------------------------------------------------
TargetSymmetry == Permutations(Surfaces)

(* Type correctness. *)
TextTypeOK ==
    /\ {focus, enabled, window} \subseteq Targets /\ current \in Text
    /\ controls \subseteq Surfaces /\ accepts \subseteq Surfaces
    /\ down \in Seq([event : {"keyboard", "leave", "enter", "commit", "key", "done"},
                     surface : Targets, n : Nat])
    /\ up \in Seq([type : {"state", "enable", "disable", "sync"},
                   surface : Targets, text : Text, n : Nat])
    /\ display \in [active : Seq(Surfaces), last : Targets, syncing : BOOLEAN]
    /\ posted \in Seq(Targets) /\ texts \in [Surfaces -> Text]
    /\ context \in [current : Targets, surface : Targets, resets : Nat, awaits : Nat]
    /\ handled <= context.resets /\ context.awaits \in {0, context.resets}
    /\ unreported \in BOOLEAN

Quiet == down = <<>> /\ up = <<>> /\ posted = <<>>

(* When nothing is under way, no reset is left unconfirmed, by which all   *)
(* later commits would be discarded; the client's list of active windows   *)
(* is that of the focus; the input method is enabled for the surface of    *)
(* the editor that accepts it, and no other; and when that is also the     *)
(* surface the text input is in, the compositor has the editor's text:     *)
(* whatever commits, edits, resets and focus changes crossed each other.   *)
(* An editor that starts to accept, and reports no more than that, has none*)
(* of its text reported: then the compositor may have another text, or     *)
(* none, until the editor's text changes.                                  *)
AgreeWhenQuiet ==
    Quiet => /\ context.surface = focus /\ context.awaits = 0
             /\ display = [active |-> When(focus # None, <<focus>>), last |-> focus,
                           syncing |-> FALSE]
             /\ context.current = (IF window \in accepts THEN window ELSE None)
             /\ controls = {context.current} \ {None}
             /\ context.current = focus /\ focus # None /\ ~unreported => current = texts[focus]

(* A commit that the input method sent before it learned of the editor's   *)
(* last reset is never inserted: it arrives while the reset waits for its  *)
(* confirmation.                                                           *)
NoneIsLate ==
    context.awaits = 0 => \A i \in 1..Len(down) :
                              down[i].event = "commit" => down[i].n = context.resets
=============================================================================
