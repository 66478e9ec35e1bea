------------------------------ MODULE SeatFocus ------------------------------
(***************************************************************************)
(* Who has the focus of a seat, and which wl_keyboard and wl_pointer       *)
(* resources have been told so (qwaylandseat.cpp, qwaylandkeyboard.cpp and *)
(* qwaylandpointer.cpp under compositor/compositor_api).  Key maps,        *)
(* modifiers, positions and cursors are left out.                          *)
(***************************************************************************)
EXTENDS Integers, SequencesExt, TLC

CONSTANTS Clients,
          Twice,        \* the clients that bind a second wl_keyboard
          Many,         \* the clients that have a second surface
          Views,        \* views of a window, which move from surface to surface
          MaxButtons,   \* bound: buttons the user holds down
          None

ASSUME SomeClients == Twice \subseteq Clients /\ Many \subseteq Clients
ASSUME MaxButtonsIsNumber == MaxButtons \in Nat

Surfaces == (Clients \X {"surface"}) \cup (Many \X {"second surface"})
Keyboards == (Clients \X {"keyboard"}) \cup (Twice \X {"second keyboard"})
Pointers == Clients \X {"pointer"}
Owner(object) == object[1]

ASSUME NoneIsNoObject == None \notin Surfaces \cup Keyboards \cup Views

VARIABLES alive,          \* surfaces that are not destroyed
          keyboardFocus,  \* QWaylandSeatPrivate::keyboardFocus
          keyboard,       \* the keyboard device: focus, focusResource, resources
          pointer,        \* the pointer device: enteredSurface, buttonCount
          mouseFocus,     \* QWaylandSeatPrivate::mouseFocus
          shows,          \* surface of each view
          held,           \* buttons that the user does hold down
          inside          \* surface each client object was last told to be in

keyboardVars == <<keyboardFocus, keyboard>>
pointerVars == <<pointer, mouseFocus, shows, held>>
vars == <<alive, keyboardFocus, keyboard, pointer, mouseFocus, shows, held, inside>>

NoKeyboard == [on |-> FALSE, focus |-> None, resource |-> None, bound |-> <<>>]
NoPointer == [on |-> FALSE, entered |-> None, buttons |-> 0, bound |-> {}]

Init == /\ alive = Surfaces /\ keyboardFocus = None /\ mouseFocus = None /\ held = 0
        /\ keyboard = [NoKeyboard EXCEPT !.on = TRUE]
        /\ pointer = [NoPointer EXCEPT !.on = TRUE]
        /\ shows = [v \in Views |-> None]
        /\ inside = [r \in Keyboards \cup Pointers |-> None]

\* What everybody was told, once these objects are told the surface too.
Say(objects, surface, told) == [r \in DOMAIN told |-> IF r \in objects THEN surface ELSE told[r]]
-----------------------------------------------------------------------------
(* The keyboard *)

\* resourceMap().value(client): of several resources the one bound last, which
\* is the first of the list.
OwnedBy(surface) ==
    {i \in DOMAIN keyboard.bound : surface # None /\ Owner(keyboard.bound[i]) = Owner(surface)}
ResourceFor(surface) ==
    LET own == OwnedBy(surface)
    IN  IF own = {} THEN None ELSE keyboard.bound[CHOOSE i \in own : \A j \in own : i <= j]

\* Mutant: the resource that had the focus is not told to leave.
FocusToldEnter(surface) ==
    LET target == ResourceFor(surface)
    IN  Say(IF target # None /\ (keyboard.focus # surface \/ keyboard.resource # target)
            THEN {target} ELSE {}, surface, inside)

\* What QWaylandKeyboardPrivate::focused tells: leave, then enter.
FocusTold(surface) ==
    LET moves == keyboard.focus # surface
        target == ResourceFor(surface)
        left == Say(IF moves /\ keyboard.resource # None THEN {keyboard.resource} ELSE {}, None, inside)
    IN  Say(IF target # None /\ (moves \/ keyboard.resource # target) THEN {target} ELSE {}, surface, left)

\* A seat that has no keyboard has no focus, and remembers what it is given.
\* Surfaces are not those of cursors, which are taken for none.
focused(surface) ==
    /\ surface # keyboard.focus /\ keyboardFocus' = surface
    /\ keyboard' = IF keyboard.on
                   THEN [keyboard EXCEPT !.focus = surface, !.resource = ResourceFor(surface)]
                   ELSE keyboard

setKeyboardFocus(surface) == /\ focused(surface) /\ inside' = FocusTold(surface)
                             /\ UNCHANGED <<alive, pointerVars>>

\* keyboard_bind_resource: a client that has the focus enters at once.
BindKeyboard(k) ==
    /\ keyboard.on /\ k \notin Range(keyboard.bound)
    /\ LET enters == keyboard.focus # None /\ Owner(k) = Owner(keyboard.focus)
       IN  /\ keyboard' = [keyboard EXCEPT !.bound = <<k>> \o @,
                                           !.resource = IF enters THEN k ELSE @]
           /\ inside' = [inside EXCEPT ![k] = IF enters THEN keyboard.focus ELSE @]
    /\ UNCHANGED <<alive, keyboardFocus, pointerVars>>

keyboard_destroy_resource(k) ==
    /\ k \in Range(keyboard.bound)
    /\ keyboard' = [keyboard EXCEPT !.bound = RemoveAt(@, CHOOSE i \in DOMAIN @ : @[i] = k),
                                    !.resource = IF @ = k THEN None ELSE @]
    /\ inside' = [inside EXCEPT ![k] = None]
    /\ UNCHANGED <<alive, keyboardFocus, pointerVars>>

\* A seat that loses its keyboard leaves the resources inert.
RemoveKeyboard ==
    /\ keyboard.on /\ keyboard' = NoKeyboard
    /\ inside' = Say(Keyboards, None, inside)
    /\ UNCHANGED <<alive, keyboardFocus, pointerVars>>

\* The new keyboard gets the focus the seat remembers, which must not be a
\* surface destroyed meanwhile: its pointer is followed.
AddKeyboard ==
    /\ ~keyboard.on /\ keyboardFocus \in alive \cup {None}
    /\ keyboard' = [NoKeyboard EXCEPT !.on = TRUE, !.focus = keyboardFocus]
    /\ UNCHANGED <<alive, keyboardFocus, inside, pointerVars>>
-----------------------------------------------------------------------------
(* The pointer *)

ResourcesOf(surface) == {p \in pointer.bound : surface # None /\ Owner(p) = Owner(surface)}

\* Mutant: the loss of the mouse focus is not told.
LeavesOther(view) == pointer.on /\ view \notin {mouseFocus, None} /\ shows[view] # pointer.entered

\* mouseFocusChanged reaches pointerFocusChanged: leave, unless the new view
\* shows the entered surface.
Leaves(view) == /\ pointer.on /\ view # mouseFocus
                /\ view = None \/ shows[view] # pointer.entered

setMouseFocus(view) ==
    /\ mouseFocus' = view
    /\ IF Leaves(view)
       THEN /\ pointer' = [pointer EXCEPT !.entered = None]
            /\ inside' = Say(ResourcesOf(pointer.entered), None, inside)
       ELSE UNCHANGED <<pointer, inside>>

\* hoverLeaveEvent and the end of a drag.
HoverLeave == /\ mouseFocus # None /\ setMouseFocus(None)
              /\ UNCHANGED <<alive, keyboardVars, shows, held>>

\* sendMouseMoveEvent, with ensureEntered: whatever was entered is left.
MoveTo(view, buttons, told) ==
    /\ mouseFocus' = view
    /\ pointer' = [pointer EXCEPT !.entered = shows[view], !.buttons = buttons]
    /\ inside' = Say(ResourcesOf(shows[view]), shows[view],
                     Say(ResourcesOf(pointer.entered), None, told))

\* QWaylandSeat follows its pointer without a test: a program calls this only
\* on a seat that has one.
sendMouseMoveEvent(view) ==
    /\ pointer.on
    /\ IF shows[view] = None THEN setMouseFocus(None) ELSE MoveTo(view, pointer.buttons, inside)
    /\ UNCHANGED <<alive, keyboardVars, shows, held>>

\* An item that is pressed takes the focus first, if it is to focus on a click
\* and does not have it, and moves the pointer into its view.
mousePressEvent(view) ==
    /\ pointer.on /\ shows[view] # None /\ held < MaxButtons /\ held' = held + 1
    /\ \/ UNCHANGED keyboardVars /\ MoveTo(view, pointer.buttons + 1, inside)
       \/ focused(shows[view]) /\ MoveTo(view, pointer.buttons + 1, FocusTold(shows[view]))
    /\ UNCHANGED <<alive, shows>>

mouseReleaseEvent ==
    /\ pointer.on /\ held > 0 /\ held' = held - 1
    /\ pointer' = [pointer EXCEPT !.buttons = @ - 1]
    /\ UNCHANGED <<alive, keyboardVars, mouseFocus, shows, inside>>

AddPointerClient(p) ==
    /\ pointer.on /\ p \notin pointer.bound
    /\ pointer' = [pointer EXCEPT !.bound = @ \cup {p}]
    /\ inside' = IF pointer.entered # None /\ Owner(p) = Owner(pointer.entered)
                 THEN [inside EXCEPT ![p] = pointer.entered] ELSE inside
    /\ UNCHANGED <<alive, keyboardVars, mouseFocus, shows, held>>

ReleasePointer(p) ==
    /\ p \in pointer.bound
    /\ pointer' = [pointer EXCEPT !.bound = @ \ {p}]
    /\ inside' = [inside EXCEPT ![p] = None]
    /\ UNCHANGED <<alive, keyboardVars, mouseFocus, shows, held>>

TogglePointer ==
    /\ pointer' = [NoPointer EXCEPT !.on = ~pointer.on]
    /\ inside' = Say(Pointers, None, inside)
    /\ UNCHANGED <<alive, keyboardVars, mouseFocus, shows, held>>

setSurface(view, surface) ==
    /\ shows' = [shows EXCEPT ![view] = surface]
    /\ UNCHANGED <<alive, keyboardVars, pointer, mouseFocus, held, inside>>

\* The item replaces its view by a new one (handleMouseFocusDestroyed).
DestroyView(view) ==
    /\ IF mouseFocus = view THEN setMouseFocus(None) ELSE UNCHANGED <<mouseFocus, pointer, inside>>
    /\ shows' = [shows EXCEPT ![view] = None]
    /\ UNCHANGED <<alive, keyboardVars, held>>
-----------------------------------------------------------------------------
ForgottenBy(surface) == shows   \* mutant: the views are not told

Forgotten(surface) == [v \in Views |-> IF shows[v] = surface THEN None ELSE shows[v]]

\* The destroy listeners of both devices, then the views of the surface.
DestroySurface(surface) ==
    /\ surface \in alive /\ alive' = alive \ {surface}
    /\ keyboard' = IF keyboard.focus = surface
                   THEN [keyboard EXCEPT !.focus = None, !.resource = None] ELSE keyboard
    /\ IF pointer.entered = surface
       THEN pointer' = [pointer EXCEPT !.entered = None, !.buttons = 0] /\ mouseFocus' = None
       ELSE UNCHANGED <<pointer, mouseFocus>>
    /\ shows' = Forgotten(surface)
    /\ inside' = [r \in DOMAIN inside |-> IF inside[r] = surface THEN None ELSE inside[r]]
    /\ UNCHANGED <<keyboardFocus, held>>

KeyboardNext ==
    \/ \E s \in alive \cup {None} : setKeyboardFocus(s)
    \/ \E k \in Keyboards : BindKeyboard(k) \/ keyboard_destroy_resource(k)
    \/ RemoveKeyboard \/ AddKeyboard

PointerNext ==
    \/ \E v \in Views : sendMouseMoveEvent(v) \/ mousePressEvent(v) \/ DestroyView(v)
    \/ \E v \in Views, s \in alive \cup {None} : setSurface(v, s)
    \/ \E p \in Pointers : AddPointerClient(p) \/ ReleasePointer(p)
    \/ HoverLeave \/ mouseReleaseEvent \/ TogglePointer

Next == KeyboardNext \/ PointerNext \/ \E s \in Surfaces : DestroySurface(s)

Spec == Init /\ [][Next]_vars
-----------------------------------------------------------------------------
ViewSymmetry == Permutations(Views)

(* Type correctness.  buttonCount may fall below zero: the destruction of  *)
(* the entered surface resets it while buttons are held.                   *)
TypeOK ==
    /\ alive \subseteq Surfaces /\ held \in 0..MaxButtons
    /\ keyboardFocus \in Surfaces \cup {None}
    /\ keyboard \in [on : BOOLEAN, focus : Surfaces \cup {None},
                     resource : Keyboards \cup {None}, bound : Seq(Keyboards)]
    /\ pointer \in [on : BOOLEAN, entered : Surfaces \cup {None},
                    buttons : -MaxButtons..MaxButtons, bound : SUBSET Pointers]
    /\ mouseFocus \in Views \cup {None}
    /\ shows \in [Views -> alive \cup {None}]
    /\ inside \in [Keyboards \cup Pointers -> alive \cup {None}]

Sole(k) == Owner(k) \notin Twice
Heard(k) == /\ k \in Range(keyboard.bound)
            /\ keyboard.focus # None /\ Owner(k) = Owner(keyboard.focus)

(* Keys go where the client believes the focus to be.  The resource they   *)
(* go to has entered the focus surface; a client with one wl_keyboard has  *)
(* entered the surface that has the focus and no other, through any order  *)
(* of binding, focus changes, destruction and loss of the keyboard; and    *)
(* the seat's own record differs only when its surface is destroyed.       *)
KeyboardTold ==
    /\ keyboard.focus \in alive \cup {None}
    /\ keyboard.resource # None => /\ Heard(keyboard.resource)
                                   /\ inside[keyboard.resource] = keyboard.focus
    /\ \A k \in Keyboards : Sole(k) =>
           /\ inside[k] = (IF Heard(k) THEN keyboard.focus ELSE None)
           /\ Heard(k) => keyboard.resource = k
    /\ keyboard.on => \/ keyboard.focus = keyboardFocus
                      \/ keyboard.focus = None /\ keyboardFocus \notin alive

(* Every wl_pointer has entered the surface the pointer device has entered *)
(* if its client owns it, and none otherwise, while views move between     *)
(* surfaces and go away; and the pointer is in a surface only while some   *)
(* view has the mouse focus.                                               *)
PointerTold ==
    /\ pointer.entered \in alive \cup {None}
    /\ pointer.entered # None => mouseFocus # None
    /\ \A p \in Pointers :
           inside[p] = IF p \in ResourcesOf(pointer.entered) THEN pointer.entered ELSE None
=============================================================================
