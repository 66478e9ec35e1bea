--------------------------- MODULE SeatFocusProofs ---------------------------
(***************************************************************************)
(* What the resources of keyboards and pointers were told, for every set   *)
(* of clients, surfaces and views and any number of buttons.               *)
(***************************************************************************)
EXTENDS SeatFocus, ListsProofs

\* A wl_keyboard is bound once; the pointer misses at most the presses of
\* buttons still held.
BoundOnce == IsInjective(keyboard.bound)
ButtonsHeld == held - MaxButtons <= pointer.buttons /\ pointer.buttons <= held

\* A device the seat does not have holds nothing.
KeyInv == /\ ~keyboard.on => keyboard = NoKeyboard
          /\ BoundOnce /\ KeyboardTold
PtrInv == /\ ~pointer.on => pointer = NoPointer
          /\ ButtonsHeld /\ PointerTold

-----------------------------------------------------------------------------
(* Objects and what they are told *)

LEMMA Objects ==
  /\ Keyboards \cap Pointers = {}
  /\ None \notin Surfaces /\ None \notin Keyboards /\ None \notin Views
  /\ \A k, l \in Keyboards : Sole(k) /\ Owner(l) = Owner(k) => l = k
<1>1. Keyboards \cap Pointers = {}
  <2>1. "keyboard" # "pointer" /\ "second keyboard" # "pointer"
    OBVIOUS
  <2>2. QED
    BY <2>1 DEF Keyboards, Pointers
<1>2. None \notin Surfaces /\ None \notin Keyboards /\ None \notin Views
  BY NoneIsNoObject
<1>3. ASSUME NEW k \in Keyboards, NEW l \in Keyboards, Sole(k), Owner(l) = Owner(k)
      PROVE  l = k
  <2>1. ASSUME NEW m \in Keyboards, m[1] \notin Twice
        PROVE  m = <<m[1], "keyboard">>
    <3>1. m \in Clients \X {"keyboard"} \/ m \in Twice \X {"second keyboard"}
      BY DEF Keyboards
    <3>2. CASE m \in Clients \X {"keyboard"}
      <4>1. PICK c \in Clients : m = <<c, "keyboard">>
        BY <3>2
      <4>2. QED
        BY <4>1
    <3>3. CASE m \in Twice \X {"second keyboard"}
      BY <2>1, <3>3
    <3>4. QED
      BY <3>1, <3>2, <3>3
  <2>2. QED
    BY <1>3, <2>1 DEF Sole, Owner
<1>4. QED
  BY <1>1, <1>2, <1>3

\* The resource that is to have the focus: one of the client's, if it has any.
LEMMA ResourceForProperties ==
  ASSUME TypeOK, BoundOnce, NEW surface
  PROVE  LET target == ResourceFor(surface)
             owns(k) == k \in Range(keyboard.bound) /\ surface # None /\ Owner(k) = Owner(surface)
         IN  /\ target \in Keyboards \cup {None}
             /\ target # None => owns(target)
             /\ \A k \in Keyboards : owns(k) => target # None /\ (Sole(k) => target = k)
<1> DEFINE own == OwnedBy(surface)
           target == ResourceFor(surface)
           first == CHOOSE i \in own : \A j \in own : i <= j
           owns(k) == k \in Range(keyboard.bound) /\ surface # None /\ Owner(k) = Owner(surface)
<1>1. keyboard.bound \in Seq(Keyboards)
  BY DEF TypeOK
<1>2. DOMAIN keyboard.bound \subseteq Nat /\ own \in SUBSET Nat /\ own \subseteq DOMAIN keyboard.bound
  BY <1>1 DEF OwnedBy
<1>3. own # {} => first \in own /\ target = keyboard.bound[first]
  <2>1. own # {} => first \in own
    <3> HIDE DEF own
    <3>1. own # {} => \E i \in own : \A j \in own : i <= j
      BY <1>2, Least
    <3>2. QED
      BY <3>1
  <2>2. QED
    BY <2>1 DEF ResourceFor
<1>4. own = {} => target = None
  BY DEF ResourceFor
<1> HIDE DEF first, target
<1>5. target # None => target \in Keyboards /\ owns(target)
  BY <1>1, <1>2, <1>3, <1>4 DEF OwnedBy, Range
<1>6. ASSUME NEW k \in Keyboards, owns(k)
      PROVE  target # None
  <2>1. own # {}
    BY <1>6 DEF OwnedBy, Range
  <2>2. QED
    BY <1>1, <1>2, <1>3, <2>1, Objects
<1>7. ASSUME NEW k \in Keyboards, owns(k), Sole(k)
      PROVE  target = k
  <2>1. target \in Keyboards /\ owns(target)
    BY <1>5, <1>6, <1>7
  <2>2. Owner(target) = Owner(k)
    BY <1>7, <2>1
  <2>3. QED
    BY <1>7, <2>1, <2>2, Objects
<1>8. QED
  BY <1>5, <1>6, <1>7 DEF target

\* Moving the focus tells keyboards only, the old one to leave and then the new
\* one to enter.
LEMMA FocusToldProperties ==
  ASSUME TypeOK, BoundOnce, NEW surface \in alive \cup {None}, surface # keyboard.focus
  PROVE  /\ FocusTold(surface) \in [Keyboards \cup Pointers -> alive \cup {None}]
         /\ \A p \in Pointers : FocusTold(surface)[p] = inside[p]
         /\ \A k \in Keyboards : FocusTold(surface)[k] =
              IF k = ResourceFor(surface) THEN surface
              ELSE IF k = keyboard.resource THEN None ELSE inside[k]
<1> DEFINE target == ResourceFor(surface)
           leaves == IF keyboard.resource # None THEN {keyboard.resource} ELSE {}
           enters == IF target # None THEN {target} ELSE {}
           left == Say(leaves, None, inside)
           everyone == Keyboards \cup Pointers
           places == alive \cup {None}
<1>1. /\ inside \in [Keyboards \cup Pointers -> alive \cup {None}]
      /\ keyboard.resource \in Keyboards \cup {None}
  BY DEF TypeOK
<1>2. target \in Keyboards \cup {None}
  BY ResourceForProperties
<1>3. FocusTold(surface) = Say(enters, surface, left)
  BY DEF FocusTold
<1> HIDE DEF target
<1>4. /\ left \in [Keyboards \cup Pointers -> alive \cup {None}]
      /\ \A r \in Keyboards \cup Pointers : left[r] = IF r \in leaves THEN None ELSE inside[r]
  <2>1. inside \in [everyone -> places] /\ None \in places
    BY <1>1
  <2> HIDE DEF leaves, everyone, places
  <2>2. /\ left \in [everyone -> places]
        /\ \A r \in everyone : left[r] = IF r \in leaves THEN None ELSE inside[r]
    BY <2>1 DEF Say
  <2>3. QED
    BY <2>2 DEF everyone, places
<1> HIDE DEF left
<1>5. /\ FocusTold(surface) \in [Keyboards \cup Pointers -> alive \cup {None}]
      /\ \A r \in Keyboards \cup Pointers :
           FocusTold(surface)[r] = IF r \in enters THEN surface ELSE left[r]
  <2>1. left \in [everyone -> places] /\ surface \in places
    BY <1>4
  <2> HIDE DEF enters, everyone, places
  <2>2. /\ FocusTold(surface) \in [everyone -> places]
        /\ \A r \in everyone :
             FocusTold(surface)[r] = IF r \in enters THEN surface ELSE left[r]
    BY <1>3, <2>1 DEF Say
  <2>3. QED
    BY <2>2 DEF everyone, places
<1>6. \A p \in Pointers : FocusTold(surface)[p] = inside[p]
  BY <1>1, <1>2, <1>4, <1>5, Objects
<1>7. \A k \in Keyboards : FocusTold(surface)[k] =
        IF k = target THEN surface ELSE IF k = keyboard.resource THEN None ELSE inside[k]
  BY <1>4, <1>5, Objects
<1>8. QED
  BY <1>5, <1>6, <1>7 DEF target

-----------------------------------------------------------------------------
(* The keyboard *)

Inv == TypeOK /\ KeyInv /\ PtrInv

LEMMA KeyboardUntouched ==
  ASSUME KeyInv, UNCHANGED <<alive, keyboardVars>>,
         \A k \in Keyboards : inside'[k] = inside[k], TypeOK
  PROVE  KeyInv'
<1>1. alive' = alive /\ keyboard' = keyboard /\ keyboardFocus' = keyboardFocus
  BY DEF keyboardVars
<1>2. (~keyboard.on => keyboard = NoKeyboard)' /\ BoundOnce'
  BY <1>1 DEF KeyInv, BoundOnce, NoKeyboard
<1>3. \A k : Heard(k)' <=> Heard(k)
  BY <1>1 DEF Heard
<1>4. keyboard.resource \in Keyboards \cup {None}
  BY DEF TypeOK
<1>5. KeyboardTold'
  BY <1>1, <1>3, <1>4 DEF KeyInv, KeyboardTold
<1>6. QED
  BY <1>2, <1>5 DEF KeyInv

LEMMA FocusKeepsKeyboard ==
  ASSUME TypeOK, KeyInv, NEW surface \in alive \cup {None}, focused(surface), alive' = alive,
         \A k \in Keyboards : inside'[k] = FocusTold(surface)[k]
  PROVE  KeyInv'
<1> DEFINE target == ResourceFor(surface)
           owns(k) == k \in Range(keyboard.bound) /\ surface # None /\ Owner(k) = Owner(surface)
<1>1. /\ target \in Keyboards \cup {None}
      /\ target # None => owns(target)
      /\ \A k \in Keyboards : owns(k) => target # None /\ (Sole(k) => target = k)
  BY ResourceForProperties DEF KeyInv
<1>2. \A k \in Keyboards : inside'[k] =
        IF k = target THEN surface ELSE IF k = keyboard.resource THEN None ELSE inside[k]
  BY FocusToldProperties DEF KeyInv, focused
<1> HIDE DEF target
<1>3. CASE ~keyboard.on
  <2>1. keyboard' = keyboard /\ keyboard = NoKeyboard
    BY <1>3 DEF focused, KeyInv
  <2>2. Range(keyboard.bound) = {} /\ keyboard.resource = None
    BY <2>1 DEF NoKeyboard, Range
  <2>3. target = None
    BY <1>1, <2>2
  <2>4. \A k \in Keyboards : inside'[k] = inside[k]
    BY <1>2, <2>2, <2>3, Objects
  <2>5. \A k : ~Heard(k) /\ ~Heard(k)'
    BY <2>1, <2>2 DEF Heard
  <2>6. KeyboardTold'
    BY <1>3, <2>1, <2>2, <2>4, <2>5 DEF KeyInv, KeyboardTold
  <2>7. QED
    BY <2>1, <2>6 DEF KeyInv, BoundOnce, NoKeyboard
<1>4. CASE keyboard.on
  <2>1. /\ keyboard'.on /\ keyboard'.focus = surface /\ keyboard'.resource = target
        /\ keyboard'.bound = keyboard.bound /\ keyboardFocus' = surface
    BY <1>4 DEF focused, TypeOK, target
  <2>2. \A k : Heard(k)' <=> owns(k)
    BY <2>1 DEF Heard
  <2> HIDE DEF owns
  <2>3. \A r \in Keyboards : keyboard'.resource = r => Heard(r)' /\ inside'[r] = surface
    BY <1>1, <1>2, <2>1, <2>2, Objects
  <2>4. ASSUME NEW k \in Keyboards, Sole(k)
        PROVE  /\ inside'[k] = (IF Heard(k)' THEN surface ELSE None)
               /\ Heard(k)' => target = k
    <3>1. CASE Heard(k)'
      BY <1>1, <1>2, <2>2, <2>4, <3>1
    <3>2. CASE ~Heard(k)'
      <4>1. k # target
        BY <1>1, <2>2, <3>2, Objects
      <4>2. k # keyboard.resource => ~Heard(k) /\ inside[k] = None
        BY <2>4 DEF KeyInv, KeyboardTold
      <4>3. QED
        BY <1>2, <3>2, <4>1, <4>2
    <3>3. QED
      BY <3>1, <3>2
  <2>5. keyboard'.resource \in Keyboards \cup {None}
    BY <1>1, <2>1
  <2>6. KeyboardTold'
    BY <2>1, <2>3, <2>4, <2>5 DEF KeyboardTold, Heard
  <2>7. QED
    BY <2>1, <2>6 DEF KeyInv, BoundOnce
<1>5. QED
  BY <1>3, <1>4

LEMMA PointerUntouched ==
  ASSUME PtrInv, UNCHANGED <<alive, pointer, mouseFocus, held>>,
         \A p \in Pointers : inside'[p] = inside[p]
  PROVE  PtrInv'
<1>1. \A s : ResourcesOf(s)' = ResourcesOf(s)
  BY DEF ResourcesOf
<1>2. QED
  BY <1>1 DEF PtrInv, ButtonsHeld, PointerTold, NoPointer

\* What focused leaves of the types of the keyboard's state.
LEMMA FocusTypes ==
  ASSUME TypeOK, BoundOnce, NEW surface \in alive \cup {None}, focused(surface)
  PROVE  /\ keyboardFocus' \in Surfaces \cup {None}
         /\ keyboard' \in [on : BOOLEAN, focus : Surfaces \cup {None},
                           resource : Keyboards \cup {None}, bound : Seq(Keyboards)]
<1>1. ResourceFor(surface) \in Keyboards \cup {None}
  BY ResourceForProperties
<1>2. surface \in Surfaces \cup {None}
  BY DEF TypeOK
<1>3. QED
  BY <1>1, <1>2 DEF TypeOK, focused

LEMMA SetFocusKeeps ==
  ASSUME Inv, NEW surface \in alive \cup {None}, setKeyboardFocus(surface)
  PROVE  Inv'
<1>1. /\ surface # keyboard.focus /\ focused(surface) /\ inside' = FocusTold(surface)
      /\ UNCHANGED <<alive, pointer, mouseFocus, shows, held>>
  BY DEF setKeyboardFocus, pointerVars, focused
<1>2. TypeOK /\ BoundOnce /\ KeyInv /\ PtrInv
  BY DEF Inv, KeyInv
<1>3. TypeOK'
  BY <1>1, <1>2, FocusTypes, FocusToldProperties DEF TypeOK
<1>4. KeyInv'
  BY <1>1, <1>2, FocusKeepsKeyboard
<1>5. PtrInv'
  BY <1>1, <1>2, FocusToldProperties, PointerUntouched
<1>6. QED
  BY <1>3, <1>4, <1>5 DEF Inv

LEMMA BindKeyboardKeeps ==
  ASSUME Inv, NEW k \in Keyboards, BindKeyboard(k)
  PROVE  Inv'
<1> DEFINE enters == keyboard.focus # None /\ Owner(k) = Owner(keyboard.focus)
<1>1. TypeOK /\ KeyInv /\ PtrInv /\ BoundOnce /\ KeyboardTold
  BY DEF Inv, KeyInv
<1>2. /\ keyboard.on /\ k \notin Range(keyboard.bound)
      /\ keyboard' = [keyboard EXCEPT !.bound = <<k>> \o @, !.resource = IF enters THEN k ELSE @]
      /\ inside' = [inside EXCEPT ![k] = IF enters THEN keyboard.focus ELSE @]
      /\ UNCHANGED <<alive, keyboardFocus, pointer, mouseFocus, shows, held>>
  BY DEF BindKeyboard, pointerVars
<1>3. /\ <<k>> \o keyboard.bound \in Seq(Keyboards) /\ IsInjective(<<k>> \o keyboard.bound)
      /\ Range(<<k>> \o keyboard.bound) = Range(keyboard.bound) \cup {k}
  BY <1>1, <1>2, PrependProperties DEF TypeOK, BoundOnce
<1> HIDE DEF enters
<1>4. /\ keyboard'.on /\ keyboard'.focus = keyboard.focus
      /\ keyboard'.resource = (IF enters THEN k ELSE keyboard.resource)
      /\ keyboard'.bound = <<k>> \o keyboard.bound
  BY <1>1, <1>2 DEF TypeOK
<1>5. TypeOK'
  BY <1>1, <1>2, <1>3 DEF TypeOK, KeyboardTold
<1>6. \A l : Heard(l)' <=> Heard(l) \/ (l = k /\ enters)
  BY <1>3, <1>4 DEF Heard, enters
<1>7. \A l \in Keyboards : inside'[l] = IF l = k /\ enters THEN keyboard.focus ELSE inside[l]
  BY <1>1, <1>2 DEF TypeOK
<1>8. \A l \in Keyboards : Sole(l) /\ Heard(l) /\ enters => l = k
  BY Objects DEF Heard, enters
<1>9. ~Heard(k)
  BY <1>2 DEF Heard
<1>10. KeyboardTold'
  <2>1. /\ keyboard.focus \in alive \cup {None}
        /\ keyboard'.resource \in Keyboards \cup {None}
        /\ \A r \in Keyboards : keyboard'.resource = r =>
             Heard(r)' /\ inside'[r] = keyboard.focus
    BY <1>1, <1>4, <1>6, <1>7, Objects DEF KeyboardTold, TypeOK
  <2>2. ASSUME NEW l \in Keyboards, Sole(l)
        PROVE  /\ inside'[l] = (IF Heard(l)' THEN keyboard.focus ELSE None)
               /\ Heard(l)' => keyboard'.resource = l
    BY <1>1, <1>4, <1>6, <1>7, <1>8, <1>9, <2>2 DEF KeyboardTold
  <2>3. QED
    BY <1>1, <1>2, <1>4, <2>1, <2>2 DEF KeyboardTold, Heard
<1>11. KeyInv'
  BY <1>3, <1>4, <1>10 DEF KeyInv, BoundOnce
<1>12. \A p \in Pointers : inside'[p] = inside[p]
  BY <1>1, <1>2, Objects DEF TypeOK
<1>13. PtrInv'
  BY <1>1, <1>2, <1>12, PointerUntouched
<1>14. QED
  BY <1>5, <1>11, <1>13 DEF Inv

LEMMA DestroyResourceKeeps ==
  ASSUME Inv, NEW k \in Keyboards, keyboard_destroy_resource(k)
  PROVE  Inv'
<1> DEFINE w == RemoveAt(keyboard.bound, CHOOSE i \in DOMAIN keyboard.bound : keyboard.bound[i] = k)
<1>1. TypeOK /\ KeyInv /\ PtrInv /\ BoundOnce /\ KeyboardTold
  BY DEF Inv, KeyInv
<1>2. /\ k \in Range(keyboard.bound)
      /\ keyboard' = [keyboard EXCEPT !.bound = w, !.resource = IF @ = k THEN None ELSE @]
      /\ inside' = [inside EXCEPT ![k] = None]
      /\ UNCHANGED <<alive, keyboardFocus, pointer, mouseFocus, shows, held>>
  BY DEF keyboard_destroy_resource, pointerVars
<1>3. w \in Seq(Keyboards) /\ IsInjective(w) /\ Range(w) = Range(keyboard.bound) \ {k}
  BY <1>1, <1>2, RemoveAtProperties DEF TypeOK, BoundOnce
<1> HIDE DEF w
<1>4. /\ keyboard'.on = keyboard.on /\ keyboard'.focus = keyboard.focus
      /\ keyboard'.resource = (IF keyboard.resource = k THEN None ELSE keyboard.resource)
      /\ keyboard'.bound = w
  BY <1>1, <1>2 DEF TypeOK
<1>5. TypeOK'
  BY <1>1, <1>2, <1>3 DEF TypeOK
<1>6. \A l : Heard(l)' <=> Heard(l) /\ l # k
  BY <1>3, <1>4 DEF Heard
<1>7. \A l \in Keyboards : inside'[l] = IF l = k THEN None ELSE inside[l]
  BY <1>1, <1>2 DEF TypeOK
<1>8. KeyboardTold'
  <2>1. /\ keyboard'.resource \in Keyboards \cup {None}
        /\ \A r \in Keyboards : keyboard'.resource = r =>
             Heard(r)' /\ inside'[r] = keyboard.focus
    BY <1>1, <1>4, <1>6, <1>7, Objects DEF KeyboardTold, TypeOK
  <2>2. ASSUME NEW l \in Keyboards, Sole(l)
        PROVE  /\ inside'[l] = (IF Heard(l)' THEN keyboard.focus ELSE None)
               /\ Heard(l)' => keyboard'.resource = l
    BY <1>1, <1>4, <1>6, <1>7, <2>2 DEF KeyboardTold
  <2>3. QED
    BY <1>1, <1>2, <1>4, <2>1, <2>2 DEF KeyboardTold, Heard
<1>9. keyboard.on
  BY <1>1, <1>2 DEF KeyInv, NoKeyboard, Range
<1>10. KeyInv'
  BY <1>3, <1>4, <1>8, <1>9 DEF KeyInv, BoundOnce
<1>11. \A p \in Pointers : inside'[p] = inside[p]
  BY <1>1, <1>2, Objects DEF TypeOK
<1>12. PtrInv'
  BY <1>1, <1>2, <1>11, PointerUntouched
<1>13. QED
  BY <1>5, <1>10, <1>12 DEF Inv

LEMMA RemoveKeyboardKeeps ==
  ASSUME Inv, RemoveKeyboard
  PROVE  Inv'
<1>1. /\ keyboard' = NoKeyboard /\ inside' = Say(Keyboards, None, inside)
      /\ UNCHANGED <<alive, keyboardFocus, pointer, mouseFocus, shows, held>>
  BY DEF RemoveKeyboard, pointerVars
<1>2. TypeOK /\ PtrInv
  BY DEF Inv
<1>3. /\ inside' \in [Keyboards \cup Pointers -> alive \cup {None}]
      /\ \A k \in Keyboards : inside'[k] = None
      /\ \A p \in Pointers : inside'[p] = inside[p]
  BY <1>1, <1>2, Objects DEF Say, TypeOK
<1>4. IsInjective(<<>>) /\ Range(<<>>) = {} /\ <<>> \in Seq(Keyboards)
  BY DEF IsInjective, Range
<1>5. TypeOK'
  BY <1>1, <1>2, <1>3, <1>4 DEF TypeOK, NoKeyboard
<1>6. KeyInv'
  BY <1>1, <1>3, <1>4 DEF KeyInv, BoundOnce, KeyboardTold, Heard, NoKeyboard
<1>7. PtrInv'
  BY <1>1, <1>2, <1>3, PointerUntouched
<1>8. QED
  BY <1>5, <1>6, <1>7 DEF Inv

LEMMA AddKeyboardKeeps ==
  ASSUME Inv, AddKeyboard
  PROVE  Inv'
<1>1. /\ ~keyboard.on /\ keyboardFocus \in alive \cup {None}
      /\ keyboard' = [NoKeyboard EXCEPT !.on = TRUE, !.focus = keyboardFocus]
      /\ UNCHANGED <<alive, keyboardFocus, inside, pointer, mouseFocus, shows, held>>
  BY DEF AddKeyboard, pointerVars
<1>2. TypeOK /\ PtrInv /\ KeyboardTold /\ keyboard = NoKeyboard
  BY <1>1 DEF Inv, KeyInv
<1>3. IsInjective(<<>>) /\ Range(<<>>) = {} /\ <<>> \in Seq(Keyboards)
  BY DEF IsInjective, Range
<1>4. \A k \in Keyboards : Sole(k) => inside[k] = None
  BY <1>2, <1>3 DEF KeyboardTold, Heard, NoKeyboard
<1>5. TypeOK'
  BY <1>1, <1>2, <1>3 DEF TypeOK, NoKeyboard
<1>6. KeyInv'
  BY <1>1, <1>3, <1>4 DEF KeyInv, BoundOnce, KeyboardTold, Heard, NoKeyboard
<1>7. PtrInv'
  BY <1>1, <1>2, PointerUntouched
<1>8. QED
  BY <1>5, <1>6, <1>7 DEF Inv

-----------------------------------------------------------------------------
(* The pointer *)

LEMMA ResourcesAreBound ==
  ASSUME TypeOK, NEW surface
  PROVE  /\ ResourcesOf(surface) \subseteq Pointers
         /\ ResourcesOf(None) = {}
BY DEF ResourcesOf, TypeOK

\* A change of the mouse focus, with what it tells the wl_pointer resources.
LEMMA MouseFocusKeepsPointer ==
  ASSUME TypeOK, PtrInv, NEW view \in Views \cup {None}, setMouseFocus(view),
         UNCHANGED <<alive, held>>
  PROVE  /\ PtrInv'
         /\ mouseFocus' \in Views \cup {None}
         /\ pointer' \in [on : BOOLEAN, entered : Surfaces \cup {None},
                          buttons : -MaxButtons..MaxButtons, bound : SUBSET Pointers]
         /\ inside' \in [Keyboards \cup Pointers -> alive \cup {None}]
         /\ \A k \in Keyboards : inside'[k] = inside[k]
<1>1. mouseFocus' = view /\ PointerTold /\ ButtonsHeld /\ (~pointer.on => pointer = NoPointer)
  BY DEF setMouseFocus, PtrInv
<1>2. CASE Leaves(view)
  <2>1. /\ pointer' = [pointer EXCEPT !.entered = None]
        /\ inside' = Say(ResourcesOf(pointer.entered), None, inside)
    BY <1>2 DEF setMouseFocus
  <2>2. /\ inside' \in [Keyboards \cup Pointers -> alive \cup {None}]
        /\ \A r \in Keyboards \cup Pointers :
             inside'[r] = IF r \in ResourcesOf(pointer.entered) THEN None ELSE inside[r]
    BY <2>1 DEF Say, TypeOK
  <2>3. /\ pointer'.on = pointer.on /\ pointer'.entered = None
        /\ pointer'.buttons = pointer.buttons /\ pointer'.bound = pointer.bound
    BY <2>1 DEF TypeOK
  <2>4. \A p \in Pointers : inside'[p] = None
    BY <1>1, <2>2 DEF PointerTold
  <2>5. PointerTold'
    BY <2>3, <2>4 DEF PointerTold, ResourcesOf
  <2>6. pointer.on
    BY <1>2 DEF Leaves
  <2>7. PtrInv'
    BY <1>1, <2>3, <2>5, <2>6 DEF PtrInv, ButtonsHeld
  <2>8. \A k \in Keyboards : inside'[k] = inside[k]
    BY <2>2, ResourcesAreBound, Objects
  <2>9. QED
    BY <1>1, <2>1, <2>2, <2>7, <2>8 DEF TypeOK
<1>3. CASE ~Leaves(view)
  <2>1. pointer' = pointer /\ inside' = inside
    BY <1>3 DEF setMouseFocus
  <2>2. pointer.entered # None => mouseFocus' # None
    BY <1>1, <1>3 DEF Leaves, PointerTold, NoPointer
  <2>3. PointerTold'
    BY <1>1, <2>1, <2>2 DEF PointerTold, ResourcesOf
  <2>4. PtrInv'
    BY <1>1, <2>1, <2>3 DEF PtrInv, ButtonsHeld, NoPointer
  <2>5. QED
    BY <1>1, <2>1, <2>4 DEF TypeOK
<1>4. QED
  BY <1>2, <1>3

\* The same for a pointer that moves into the surface of a view.
LEMMA MoveKeepsPointer ==
  ASSUME TypeOK, PtrInv, NEW view \in Views, shows[view] # None, pointer.on,
         NEW more \in {0, 1}, held' = held + more, held' \in 0..MaxButtons, alive' = alive,
         NEW told \in [Keyboards \cup Pointers -> alive \cup {None}],
         \A p \in Pointers : told[p] = inside[p],
         MoveTo(view, pointer.buttons + more, told)
  PROVE  /\ PtrInv'
         /\ mouseFocus' \in Views \cup {None}
         /\ pointer' \in [on : BOOLEAN, entered : Surfaces \cup {None},
                          buttons : -MaxButtons..MaxButtons, bound : SUBSET Pointers]
         /\ inside' \in [Keyboards \cup Pointers -> alive \cup {None}]
         /\ \A k \in Keyboards : inside'[k] = told[k]
<1> DEFINE from == ResourcesOf(pointer.entered)
           to == ResourcesOf(shows[view])
<1>1. /\ mouseFocus' = view /\ inside' = Say(to, shows[view], Say(from, None, told))
      /\ pointer' = [pointer EXCEPT !.entered = shows[view], !.buttons = pointer.buttons + more]
  BY DEF MoveTo
<1>2. from \subseteq Pointers /\ to \subseteq Pointers
  BY ResourcesAreBound
<1>3. PointerTold /\ ButtonsHeld
  BY DEF PtrInv
<1>4. shows[view] \in alive \cup {None} /\ alive \subseteq Surfaces
  BY DEF TypeOK
<1>5. /\ pointer'.on /\ pointer'.entered = shows[view]
      /\ pointer'.buttons = pointer.buttons + more /\ pointer'.bound = pointer.bound
  BY <1>1 DEF TypeOK
<1>6. \A p \in Pointers : ~ (p \in from) => inside[p] = None
  BY <1>3 DEF PointerTold
<1>7. to = ResourcesOf(pointer.entered)'
  BY <1>5 DEF ResourcesOf
<1> HIDE DEF from, to
<1>8. /\ inside' \in [Keyboards \cup Pointers -> alive \cup {None}]
      /\ \A r \in Keyboards \cup Pointers :
           inside'[r] = IF r \in to THEN shows[view] ELSE IF r \in from THEN None ELSE told[r]
  BY <1>1, <1>4 DEF Say
<1>9. \A k \in Keyboards : inside'[k] = told[k]
  BY <1>2, <1>8, Objects
<1>10. PointerTold'
  <2>1. \A p \in Pointers : inside'[p] = IF p \in to THEN shows[view] ELSE None
    BY <1>6, <1>8
  <2>2. mouseFocus' # None
    BY <1>1, Objects
  <2>3. QED
    BY <1>4, <1>5, <1>7, <2>1, <2>2 DEF PointerTold
<1>11. /\ ButtonsHeld' /\ pointer.buttons + more \in -MaxButtons..MaxButtons
  <2>1. pointer.buttons \in Int /\ held \in Int /\ MaxButtons \in Nat /\ more \in Int
    BY MaxButtonsIsNumber DEF TypeOK
  <2>2. held + more \in 0..MaxButtons
    OBVIOUS
  <2>3. held - MaxButtons <= pointer.buttons /\ pointer.buttons <= held
    BY <1>3 DEF ButtonsHeld
  <2>4. QED
    BY <1>5, <2>1, <2>2, <2>3 DEF ButtonsHeld
<1>12. pointer' \in [on : BOOLEAN, entered : Surfaces \cup {None},
                     buttons : -MaxButtons..MaxButtons, bound : SUBSET Pointers]
  BY <1>1, <1>4, <1>11 DEF TypeOK
<1>13. QED
  BY <1>1, <1>5, <1>8, <1>9, <1>10, <1>11, <1>12 DEF PtrInv

LEMMA HoverLeaveKeeps ==
  ASSUME Inv, HoverLeave
  PROVE  Inv'
<1>1. setMouseFocus(None) /\ UNCHANGED <<alive, keyboardFocus, keyboard, shows, held>>
  BY DEF HoverLeave, keyboardVars
<1>2. TypeOK /\ KeyInv /\ PtrInv
  BY DEF Inv
<1>3. /\ PtrInv'
      /\ mouseFocus' \in Views \cup {None}
      /\ pointer' \in [on : BOOLEAN, entered : Surfaces \cup {None},
                       buttons : -MaxButtons..MaxButtons, bound : SUBSET Pointers]
      /\ inside' \in [Keyboards \cup Pointers -> alive \cup {None}]
      /\ \A k \in Keyboards : inside'[k] = inside[k]
  BY <1>1, <1>2, MouseFocusKeepsPointer
<1>4. KeyInv'
  BY <1>1, <1>2, <1>3, KeyboardUntouched DEF keyboardVars
<1>5. TypeOK'
  BY <1>1, <1>2, <1>3 DEF TypeOK
<1>6. QED
  BY <1>3, <1>4, <1>5 DEF Inv

LEMMA MouseMoveKeeps ==
  ASSUME Inv, NEW view \in Views, sendMouseMoveEvent(view)
  PROVE  Inv'
<1>1. pointer.on /\ UNCHANGED <<alive, keyboardFocus, keyboard, shows, held>>
  BY DEF sendMouseMoveEvent, keyboardVars
<1>2. TypeOK /\ KeyInv /\ PtrInv
  BY DEF Inv
<1>3. /\ PtrInv'
      /\ mouseFocus' \in Views \cup {None}
      /\ pointer' \in [on : BOOLEAN, entered : Surfaces \cup {None},
                       buttons : -MaxButtons..MaxButtons, bound : SUBSET Pointers]
      /\ inside' \in [Keyboards \cup Pointers -> alive \cup {None}]
      /\ \A k \in Keyboards : inside'[k] = inside[k]
  <2>1. CASE shows[view] = None
    BY <1>1, <1>2, <2>1, MouseFocusKeepsPointer DEF sendMouseMoveEvent
  <2>2. CASE shows[view] # None
    <3>1. /\ held \in Int /\ pointer.buttons \in Int /\ held' \in 0..MaxButtons
          /\ inside \in [Keyboards \cup Pointers -> alive \cup {None}]
      BY <1>1, <1>2, MaxButtonsIsNumber DEF TypeOK
    <3>2. held' = held + 0 /\ pointer.buttons + 0 = pointer.buttons
      BY <1>1, <3>1
    <3>3. MoveTo(view, pointer.buttons + 0, inside)
      BY <2>2, <3>2 DEF sendMouseMoveEvent
    <3>4. QED
      BY <1>1, <1>2, <2>2, <3>1, <3>2, <3>3, MoveKeepsPointer
  <2>3. QED
    BY <2>1, <2>2
<1>4. KeyInv'
  BY <1>1, <1>2, <1>3, KeyboardUntouched DEF keyboardVars
<1>5. TypeOK'
  BY <1>1, <1>2, <1>3 DEF TypeOK
<1>6. QED
  BY <1>3, <1>4, <1>5 DEF Inv

LEMMA MousePressKeeps ==
  ASSUME Inv, NEW view \in Views, mousePressEvent(view)
  PROVE  Inv'
<1> DEFINE PointerKept(told) ==
      /\ PtrInv'
      /\ mouseFocus' \in Views \cup {None}
      /\ pointer' \in [on : BOOLEAN, entered : Surfaces \cup {None},
                       buttons : -MaxButtons..MaxButtons, bound : SUBSET Pointers]
      /\ inside' \in [Keyboards \cup Pointers -> alive \cup {None}]
      /\ \A k \in Keyboards : inside'[k] = told[k]
<1>1. /\ pointer.on /\ shows[view] # None /\ held < MaxButtons /\ held' = held + 1
      /\ UNCHANGED <<alive, shows>>
  BY DEF mousePressEvent
<1>2. TypeOK /\ KeyInv /\ PtrInv /\ BoundOnce
  BY DEF Inv, KeyInv
<1>3. held' \in 0..MaxButtons /\ shows[view] \in alive \cup {None}
  BY <1>1, <1>2, MaxButtonsIsNumber DEF TypeOK
<1>4. CASE UNCHANGED keyboardVars /\ MoveTo(view, pointer.buttons + 1, inside)
  <2>1. inside \in [Keyboards \cup Pointers -> alive \cup {None}]
    BY <1>2 DEF TypeOK
  <2>2. PointerKept(inside)
    BY <1>1, <1>2, <1>3, <1>4, <2>1, MoveKeepsPointer
  <2>3. KeyInv'
    BY <1>1, <1>2, <1>4, <2>2, KeyboardUntouched
  <2>4. TypeOK'
    BY <1>1, <1>2, <1>3, <1>4, <2>2 DEF TypeOK, keyboardVars
  <2>5. QED
    BY <2>2, <2>3, <2>4 DEF Inv
<1>5. CASE /\ focused(shows[view])
           /\ MoveTo(view, pointer.buttons + 1, FocusTold(shows[view]))
  <2>1. shows[view] # keyboard.focus
    BY <1>5 DEF focused
  <2>2. /\ FocusTold(shows[view]) \in [Keyboards \cup Pointers -> alive \cup {None}]
        /\ \A p \in Pointers : FocusTold(shows[view])[p] = inside[p]
    BY <1>2, <1>3, <2>1, FocusToldProperties
  <2>3. PointerKept(FocusTold(shows[view]))
    BY <1>1, <1>2, <1>3, <1>5, <2>2, MoveKeepsPointer
  <2>4. KeyInv'
    BY <1>1, <1>2, <1>3, <1>5, <2>3, FocusKeepsKeyboard
  <2>5. TypeOK'
    BY <1>1, <1>2, <1>3, <1>5, <2>3, FocusTypes DEF TypeOK
  <2>6. QED
    BY <2>3, <2>4, <2>5 DEF Inv
<1>6. QED
  BY <1>4, <1>5 DEF mousePressEvent

LEMMA MouseReleaseKeeps ==
  ASSUME Inv, mouseReleaseEvent
  PROVE  Inv'
<1>1. /\ pointer.on /\ held > 0 /\ held' = held - 1
      /\ pointer' = [pointer EXCEPT !.buttons = @ - 1]
      /\ UNCHANGED <<alive, keyboardFocus, keyboard, mouseFocus, shows, inside>>
  BY DEF mouseReleaseEvent, keyboardVars
<1>2. TypeOK /\ KeyInv /\ PtrInv
  BY DEF Inv
<1>3. /\ pointer.buttons \in Int /\ held \in 0..MaxButtons /\ MaxButtons \in Nat
      /\ held - MaxButtons <= pointer.buttons /\ pointer.buttons <= held
  BY <1>2, MaxButtonsIsNumber DEF TypeOK, PtrInv, ButtonsHeld
<1>4. /\ pointer'.on = pointer.on /\ pointer'.entered = pointer.entered
      /\ pointer'.buttons = pointer.buttons - 1 /\ pointer'.bound = pointer.bound
  BY <1>1, <1>2 DEF TypeOK
<1>5. held' \in 0..MaxButtons /\ pointer.buttons - 1 \in -MaxButtons..MaxButtons /\ ButtonsHeld'
  BY <1>1, <1>3, <1>4 DEF ButtonsHeld
<1>6. TypeOK'
  BY <1>1, <1>2, <1>5 DEF TypeOK
<1>7. PtrInv'
  BY <1>1, <1>2, <1>4, <1>5 DEF PtrInv, PointerTold, ResourcesOf
<1>8. KeyInv'
  BY <1>1, <1>2, KeyboardUntouched DEF keyboardVars
<1>9. QED
  BY <1>6, <1>7, <1>8 DEF Inv

LEMMA AddPointerClientKeeps ==
  ASSUME Inv, NEW p \in Pointers, AddPointerClient(p)
  PROVE  Inv'
<1> DEFINE enters == pointer.entered # None /\ Owner(p) = Owner(pointer.entered)
<1>1. /\ pointer.on /\ p \notin pointer.bound
      /\ pointer' = [pointer EXCEPT !.bound = @ \cup {p}]
      /\ inside' = IF enters THEN [inside EXCEPT ![p] = pointer.entered] ELSE inside
      /\ UNCHANGED <<alive, keyboardFocus, keyboard, mouseFocus, shows, held>>
  BY DEF AddPointerClient, keyboardVars
<1>2. TypeOK /\ KeyInv /\ PtrInv /\ PointerTold
  BY DEF Inv, PtrInv
<1>3. /\ pointer'.on /\ pointer'.entered = pointer.entered
      /\ pointer'.buttons = pointer.buttons /\ pointer'.bound = pointer.bound \cup {p}
  BY <1>1, <1>2 DEF TypeOK
<1> HIDE DEF enters
<1>4. TypeOK'
  BY <1>1, <1>2 DEF TypeOK, PointerTold
<1>5. \A r \in Keyboards \cup Pointers :
        inside'[r] = IF r = p /\ enters THEN pointer.entered ELSE inside[r]
  BY <1>1, <1>2 DEF TypeOK
<1>6. \A r \in Pointers : r \in ResourcesOf(pointer.entered)' <=>
        r \in ResourcesOf(pointer.entered) \/ (r = p /\ enters)
  BY <1>3 DEF ResourcesOf, enters
<1>7. PointerTold'
  BY <1>1, <1>2, <1>3, <1>5, <1>6 DEF PointerTold, ResourcesOf
<1>8. PtrInv'
  BY <1>1, <1>2, <1>3, <1>7 DEF PtrInv, ButtonsHeld
<1>9. KeyInv'
  BY <1>1, <1>2, <1>5, Objects, KeyboardUntouched DEF keyboardVars
<1>10. QED
  BY <1>4, <1>8, <1>9 DEF Inv

LEMMA ReleasePointerKeeps ==
  ASSUME Inv, NEW p \in Pointers, ReleasePointer(p)
  PROVE  Inv'
<1>1. /\ p \in pointer.bound /\ pointer' = [pointer EXCEPT !.bound = @ \ {p}]
      /\ inside' = [inside EXCEPT ![p] = None]
      /\ UNCHANGED <<alive, keyboardFocus, keyboard, mouseFocus, shows, held>>
  BY DEF ReleasePointer, keyboardVars
<1>2. TypeOK /\ KeyInv /\ PtrInv /\ PointerTold
  BY DEF Inv, PtrInv
<1>3. /\ pointer'.on = pointer.on /\ pointer'.entered = pointer.entered
      /\ pointer'.buttons = pointer.buttons /\ pointer'.bound = pointer.bound \ {p}
  BY <1>1, <1>2 DEF TypeOK
<1>4. TypeOK'
  BY <1>1, <1>2 DEF TypeOK
<1>5. \A r \in Keyboards \cup Pointers : inside'[r] = IF r = p THEN None ELSE inside[r]
  BY <1>1, <1>2 DEF TypeOK
<1>6. PointerTold'
  BY <1>1, <1>2, <1>3, <1>5 DEF PointerTold, ResourcesOf
<1>7. pointer.on
  BY <1>1, <1>2 DEF PtrInv, NoPointer
<1>8. PtrInv'
  BY <1>1, <1>2, <1>3, <1>6, <1>7 DEF PtrInv, ButtonsHeld
<1>9. KeyInv'
  BY <1>1, <1>2, <1>5, Objects, KeyboardUntouched DEF keyboardVars
<1>10. QED
  BY <1>4, <1>8, <1>9 DEF Inv

LEMMA TogglePointerKeeps ==
  ASSUME Inv, TogglePointer
  PROVE  Inv'
<1>1. /\ pointer' = [NoPointer EXCEPT !.on = ~pointer.on]
      /\ inside' = Say(Pointers, None, inside)
      /\ UNCHANGED <<alive, keyboardFocus, keyboard, mouseFocus, shows, held>>
  BY DEF TogglePointer, keyboardVars
<1>2. TypeOK /\ KeyInv
  BY DEF Inv
<1>3. /\ inside' \in [Keyboards \cup Pointers -> alive \cup {None}]
      /\ \A k \in Keyboards : inside'[k] = inside[k]
      /\ \A p \in Pointers : inside'[p] = None
  BY <1>1, <1>2, Objects DEF Say, TypeOK
<1>4. held \in 0..MaxButtons /\ MaxButtons \in Nat /\ 0 \in -MaxButtons..MaxButtons
  BY <1>2, MaxButtonsIsNumber DEF TypeOK
<1>5. TypeOK'
  BY <1>1, <1>2, <1>3, <1>4 DEF TypeOK, NoPointer
<1>6. /\ pointer'.entered = None /\ pointer'.buttons = 0 /\ pointer'.on = ~pointer.on
      /\ ~pointer'.on => pointer' = NoPointer
  BY <1>1 DEF NoPointer
<1>7. ButtonsHeld'
  BY <1>1, <1>4, <1>6 DEF ButtonsHeld
<1>8. PtrInv'
  BY <1>3, <1>6, <1>7 DEF PtrInv, PointerTold, ResourcesOf, NoPointer
<1>9. KeyInv'
  BY <1>1, <1>2, <1>3, KeyboardUntouched DEF keyboardVars
<1>10. QED
  BY <1>5, <1>8, <1>9 DEF Inv

LEMMA SetSurfaceKeeps ==
  ASSUME Inv, NEW view \in Views, NEW surface \in alive \cup {None}, setSurface(view, surface)
  PROVE  Inv'
<1>1. /\ shows' = [shows EXCEPT ![view] = surface]
      /\ UNCHANGED <<alive, keyboardFocus, keyboard, pointer, mouseFocus, held, inside>>
  BY DEF setSurface, keyboardVars
<1>2. TypeOK /\ KeyInv /\ PtrInv
  BY DEF Inv
<1>3. TypeOK'
  BY <1>1, <1>2 DEF TypeOK
<1>4. KeyInv'
  BY <1>1, <1>2, KeyboardUntouched DEF keyboardVars
<1>5. PtrInv'
  BY <1>1, <1>2, PointerUntouched
<1>6. QED
  BY <1>3, <1>4, <1>5 DEF Inv

LEMMA DestroyViewKeeps ==
  ASSUME Inv, NEW view \in Views, DestroyView(view)
  PROVE  Inv'
<1>1. /\ shows' = [shows EXCEPT ![view] = None]
      /\ UNCHANGED <<alive, keyboardFocus, keyboard, held>>
  BY DEF DestroyView, keyboardVars
<1>2. TypeOK /\ KeyInv /\ PtrInv
  BY DEF Inv
<1>3. /\ PtrInv'
      /\ mouseFocus' \in Views \cup {None}
      /\ pointer' \in [on : BOOLEAN, entered : Surfaces \cup {None},
                       buttons : -MaxButtons..MaxButtons, bound : SUBSET Pointers]
      /\ inside' \in [Keyboards \cup Pointers -> alive \cup {None}]
      /\ \A k \in Keyboards : inside'[k] = inside[k]
  <2>1. CASE mouseFocus = view
    BY <1>1, <1>2, <2>1, MouseFocusKeepsPointer DEF DestroyView
  <2>2. CASE mouseFocus # view
    <3>1. UNCHANGED <<mouseFocus, pointer, inside>>
      BY <2>2 DEF DestroyView
    <3>2. PtrInv'
      BY <1>1, <1>2, <3>1, PointerUntouched
    <3>3. QED
      BY <1>2, <3>1, <3>2 DEF TypeOK
  <2>3. QED
    BY <2>1, <2>2
<1>4. KeyInv'
  BY <1>1, <1>2, <1>3, KeyboardUntouched DEF keyboardVars
<1>5. TypeOK'
  BY <1>1, <1>2, <1>3 DEF TypeOK
<1>6. QED
  BY <1>3, <1>4, <1>5 DEF Inv

-----------------------------------------------------------------------------
(* The death of a surface, and the theorems *)

LEMMA DestroySurfaceKeeps ==
  ASSUME Inv, NEW s \in Surfaces, DestroySurface(s)
  PROVE  Inv'
<1>1. TypeOK /\ KeyInv /\ PtrInv /\ KeyboardTold /\ PointerTold
  BY DEF Inv, KeyInv, PtrInv
<1>2. /\ s \in alive /\ alive' = alive \ {s} /\ keyboardFocus' = keyboardFocus /\ held' = held
      /\ shows' = Forgotten(s)
      /\ inside' = [r \in DOMAIN inside |-> IF inside[r] = s THEN None ELSE inside[r]]
  BY DEF DestroySurface
<1>3. s # None
  BY Objects
<1>4. /\ inside' \in [Keyboards \cup Pointers -> alive' \cup {None}]
      /\ \A r \in Keyboards \cup Pointers :
           inside'[r] = IF inside[r] = s THEN None ELSE inside[r]
  BY <1>1, <1>2 DEF TypeOK
<1>5. /\ keyboard'.on = keyboard.on /\ keyboard'.bound = keyboard.bound
      /\ keyboard.focus = s => keyboard'.focus = None /\ keyboard'.resource = None
      /\ keyboard.focus # s => keyboard' = keyboard
  BY <1>1 DEF DestroySurface, TypeOK
<1>6. /\ pointer'.on = pointer.on /\ pointer'.bound = pointer.bound
      /\ pointer.entered = s => /\ pointer'.entered = None /\ pointer'.buttons = 0
                                /\ mouseFocus' = None
      /\ pointer.entered # s => pointer' = pointer /\ mouseFocus' = mouseFocus
  BY <1>1 DEF DestroySurface, TypeOK
<1>7. TypeOK'
  <2>1. 0 \in -MaxButtons..MaxButtons
    BY MaxButtonsIsNumber
  <2>2. shows' \in [Views -> alive' \cup {None}]
    BY <1>1, <1>2 DEF TypeOK, Forgotten
  <2>3. keyboard' \in [on : BOOLEAN, focus : Surfaces \cup {None},
                       resource : Keyboards \cup {None}, bound : Seq(Keyboards)]
    BY <1>1 DEF TypeOK, DestroySurface
  <2>4. /\ pointer' \in [on : BOOLEAN, entered : Surfaces \cup {None},
                         buttons : -MaxButtons..MaxButtons, bound : SUBSET Pointers]
        /\ mouseFocus' \in Views \cup {None}
    BY <1>1, <2>1 DEF TypeOK, DestroySurface
  <2>5. QED
    BY <1>1, <1>2, <1>4, <2>2, <2>3, <2>4 DEF TypeOK
<1>8. \A k : Heard(k)' <=> Heard(k) /\ keyboard.focus # s
  BY <1>3, <1>5 DEF Heard
<1>9. KeyboardTold'
  <2>1. /\ keyboard'.focus \in alive' \cup {None}
        /\ keyboard'.resource \in Keyboards \cup {None}
    BY <1>1, <1>2, <1>5 DEF KeyboardTold, TypeOK
  <2>2. \A r \in Keyboards : keyboard'.resource = r =>
          Heard(r)' /\ inside'[r] = keyboard'.focus
    BY <1>1, <1>4, <1>5, <1>8, Objects DEF KeyboardTold
  <2>3. ASSUME NEW k \in Keyboards, Sole(k)
        PROVE  /\ inside'[k] = (IF Heard(k)' THEN keyboard'.focus ELSE None)
               /\ Heard(k)' => keyboard'.resource = k
    BY <1>1, <1>3, <1>4, <1>5, <1>8, <2>3 DEF KeyboardTold
  <2>4. keyboard'.on => \/ keyboard'.focus = keyboardFocus
                        \/ keyboard'.focus = None /\ keyboardFocus \notin alive'
    BY <1>1, <1>2, <1>5 DEF KeyboardTold
  <2>5. QED
    BY <1>2, <2>1, <2>2, <2>3, <2>4 DEF KeyboardTold, Heard
<1>10. KeyInv'
  BY <1>1, <1>3, <1>5, <1>9 DEF KeyInv, BoundOnce, NoKeyboard
<1>11. PointerTold'
  <2>1. CASE pointer.entered = s
    <3>1. \A p \in Pointers : inside[p] = s \/ inside[p] = None
      BY <1>1, <2>1 DEF PointerTold
    <3>2. \A p \in Pointers : inside'[p] = None
      BY <1>4, <3>1
    <3>3. QED
      BY <1>6, <2>1, <3>2 DEF PointerTold
  <2>2. CASE pointer.entered # s
    <3>1. \A p \in Pointers : inside[p] # s
      BY <1>1, <1>3, <2>2 DEF PointerTold
    <3>2. \A p \in Pointers : inside'[p] = inside[p]
      BY <1>4, <3>1
    <3>3. QED
      BY <1>1, <1>2, <1>6, <2>2, <3>2 DEF PointerTold, ResourcesOf
  <2>3. QED
    BY <2>1, <2>2
<1>12. ButtonsHeld'
  BY <1>1, <1>2, <1>6, MaxButtonsIsNumber DEF PtrInv, ButtonsHeld, TypeOK
<1>13. PtrInv'
  BY <1>1, <1>3, <1>6, <1>11, <1>12 DEF PtrInv, NoPointer
<1>14. QED
  BY <1>7, <1>10, <1>13 DEF Inv

LEMMA InitInv == Init => Inv
<1> SUFFICES ASSUME Init PROVE Inv
  OBVIOUS
<1>1. IsInjective(<<>>) /\ Range(<<>>) = {} /\ <<>> \in Seq(Keyboards)
  BY DEF IsInjective, Range
<1>2. /\ keyboard.on /\ keyboard.focus = None /\ keyboard.resource = None
      /\ keyboard.bound = <<>> /\ keyboardFocus = None
      /\ pointer.on /\ pointer.entered = None /\ pointer.buttons = 0 /\ pointer.bound = {}
      /\ \A r \in Keyboards \cup Pointers : inside[r] = None
  BY DEF Init, NoKeyboard, NoPointer
<1>3. TypeOK
  <2>1. /\ alive = Surfaces /\ held = 0 /\ mouseFocus = None
        /\ keyboard = [on |-> TRUE, focus |-> None, resource |-> None, bound |-> <<>>]
        /\ pointer = [on |-> TRUE, entered |-> None, buttons |-> 0, bound |-> {}]
    BY DEF Init, NoKeyboard, NoPointer
  <2>2. 0 \in 0..MaxButtons /\ 0 \in -MaxButtons..MaxButtons
    BY MaxButtonsIsNumber
  <2>3. /\ shows \in [Views -> alive \cup {None}]
        /\ inside \in [Keyboards \cup Pointers -> alive \cup {None}]
    BY DEF Init
  <2>4. /\ keyboard \in [on : BOOLEAN, focus : Surfaces \cup {None},
                         resource : Keyboards \cup {None}, bound : Seq(Keyboards)]
        /\ pointer \in [on : BOOLEAN, entered : Surfaces \cup {None},
                        buttons : -MaxButtons..MaxButtons, bound : SUBSET Pointers]
    BY <1>1, <2>1, <2>2
  <2>5. QED
    BY <1>2, <2>1, <2>2, <2>3, <2>4 DEF TypeOK
<1>4. KeyInv
  BY <1>1, <1>2 DEF KeyInv, BoundOnce, KeyboardTold, Heard
<1>5. held = 0
  BY DEF Init
<1>6. PtrInv
  BY <1>2, <1>5, MaxButtonsIsNumber DEF PtrInv, ButtonsHeld, PointerTold, ResourcesOf
<1>7. QED
  BY <1>3, <1>4, <1>6 DEF Inv

LEMMA NextInv == Inv /\ [Next]_vars => Inv'
<1> SUFFICES ASSUME Inv, [Next]_vars PROVE Inv'
  OBVIOUS
<1>1. CASE UNCHANGED vars
  <2>1. UNCHANGED <<alive, keyboardFocus, keyboard, pointer, mouseFocus, shows, held, inside>>
    BY <1>1 DEF vars
  <2>2. TypeOK'
    BY <2>1 DEF Inv, TypeOK
  <2>3. KeyInv'
    BY <2>1, KeyboardUntouched DEF Inv, keyboardVars
  <2>4. PtrInv'
    BY <2>1, PointerUntouched DEF Inv
  <2>5. QED
    BY <2>2, <2>3, <2>4 DEF Inv
<1>2. CASE KeyboardNext
  BY <1>2, SetFocusKeeps, BindKeyboardKeeps, DestroyResourceKeeps, RemoveKeyboardKeeps,
     AddKeyboardKeeps DEF KeyboardNext
<1>3. CASE PointerNext
  BY <1>3, MouseMoveKeeps, MousePressKeeps, DestroyViewKeeps, SetSurfaceKeeps,
     AddPointerClientKeeps, ReleasePointerKeeps, HoverLeaveKeeps, MouseReleaseKeeps,
     TogglePointerKeeps DEF PointerNext
<1>4. CASE \E s \in Surfaces : DestroySurface(s)
  BY <1>4, DestroySurfaceKeeps
<1>5. QED
  BY <1>1, <1>2, <1>3, <1>4 DEF Next

\* The invariant behind the theorems: types, that a device the seat lost holds
\* nothing, that no wl_keyboard is bound twice, and what everybody was told.
LEMMA InvHolds == Spec => []Inv
<1>1. QED
  BY InitInv, NextInv, PTL DEF Spec

\* Every variable keeps its type; in particular buttonCount stays within the
\* number of buttons a user can hold, below zero as well as above.
THEOREM TypeCorrect == Spec => []TypeOK
<1>1. Inv => TypeOK
  BY DEF Inv
<1>2. QED
  BY <1>1, InvHolds, PTL

\* The wl_keyboard that gets the keys has entered the surface that has the
\* focus, and the only wl_keyboard of a client has entered no other surface,
\* whatever the order of binds, focus changes, destructions and lost devices.
THEOREM KeysGoWhereTold == Spec => []KeyboardTold
<1>1. Inv => KeyboardTold
  BY DEF Inv, KeyInv
<1>2. QED
  BY <1>1, InvHolds, PTL

\* Every wl_pointer has entered exactly what the device has entered, if its
\* client owns it, however views move between surfaces and go away.
THEOREM PointersAgree == Spec => []PointerTold
<1>1. Inv => PointerTold
  BY DEF Inv, PtrInv
<1>2. QED
  BY <1>1, InvHolds, PTL
=============================================================================
