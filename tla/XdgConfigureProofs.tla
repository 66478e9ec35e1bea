------------------------- MODULE XdgConfigureProofs -------------------------
(***************************************************************************)
(* The configure events of a toplevel, for any number of events and        *)
(* requests.                                                               *)
(***************************************************************************)
EXTENDS XdgConfigure, ListsProofs

Events == [conf : Configures, role : {"toplevel", "surface"}]
Asking == [type : {"set", "unset"}, mode : Large]
Acks == [type : {"ack"}, serial : Serials, size : Sizes]
Clients == [pending : Configures, half : BOOLEAN, serial : Serials, configured : BOOLEAN,
            waiting : BOOLEAN, applying : BOOLEAN, blocked : BOOLEAN, applied : Configures,
            normal : Sizes \cup {"none"}, size : Sizes]

\* The requests for a mode in a queue, each of which brings an event.
AskedIn(queue) == {j \in 1..Len(queue) : queue[j].type # "ack"}

Bounded == /\ Cardinality(AskedIn(up)) <= 2 * requests
           /\ sent + Cardinality(AskedIn(up)) <= MaxSerial + 2 * requests

\* The size of the window is known before it gets large.
NormalIsKnown == client.applied.states \cap Large # {} => client.normal # "none"

TypeInv == TypeOK /\ Bounded /\ NormalIsKnown

-----------------------------------------------------------------------------
(* Queues *)

LEMMA AskedProperties ==
  ASSUME NEW S, NEW queue \in Seq(S)
  PROVE  IsFiniteSet(AskedIn(queue)) /\ Cardinality(AskedIn(queue)) \in Nat
<1>1. AskedIn(queue) \subseteq 1..Len(queue) /\ 1 \in Int /\ Len(queue) \in Int
  BY DEF AskedIn
<1>2. IsFiniteSet(1..Len(queue))
  BY <1>1, FS_Interval
<1>3. QED
  BY <1>1, <1>2, FS_Subset, FS_CardinalityType

LEMMA AskedAppended ==
  ASSUME NEW S, NEW queue \in Seq(S), NEW last \in S
  PROVE  Cardinality(AskedIn(Append(queue, last)))
           = Cardinality(AskedIn(queue)) + (IF last.type = "ack" THEN 0 ELSE 1)
<1> DEFINE longer == Append(queue, last)
<1>1. /\ Len(queue) \in Nat /\ Len(longer) = Len(queue) + 1 /\ longer[Len(queue) + 1] = last
      /\ \A i \in 1..Len(queue) : longer[i] = queue[i]
  BY AppendProperties
<1> HIDE DEF longer
<1>2. IsFiniteSet(AskedIn(queue)) /\ Cardinality(AskedIn(queue)) \in Nat
  BY AskedProperties
<1>3. CASE last.type = "ack"
  <2>1. AskedIn(longer) = AskedIn(queue)
    BY <1>1, <1>3 DEF AskedIn
  <2>2. QED
    BY <1>2, <1>3, <2>1 DEF longer
<1>4. CASE last.type # "ack"
  <2>1. AskedIn(longer) = AskedIn(queue) \cup {Len(queue) + 1} /\ Len(queue) + 1 \notin AskedIn(queue)
    BY <1>1, <1>4 DEF AskedIn
  <2>2. Cardinality(AskedIn(longer)) = Cardinality(AskedIn(queue)) + 1
    BY <1>2, <2>1, FS_AddElement
  <2>3. QED
    BY <1>4, <2>2 DEF longer
<1>5. QED
  BY <1>3, <1>4

LEMMA AskedTaken ==
  ASSUME NEW S, NEW queue \in Seq(S), queue # <<>>
  PROVE  Cardinality(AskedIn(queue))
           = Cardinality(AskedIn(Tail(queue))) + (IF queue[1].type = "ack" THEN 0 ELSE 1)
<1> DEFINE rest == Tail(queue)
<1>1. /\ Len(queue) \in Nat \ {0} /\ rest \in Seq(S) /\ Len(rest) = Len(queue) - 1
      /\ \A i \in 1..Len(rest) : rest[i] = queue[i + 1]
  OBVIOUS
<1> HIDE DEF rest
<1> DEFINE shift == [j \in AskedIn(rest) |-> j + 1]
           later == AskedIn(queue) \ {1}
<1>2. /\ IsFiniteSet(AskedIn(queue)) /\ Cardinality(AskedIn(queue)) \in Nat
      /\ IsFiniteSet(AskedIn(rest)) /\ Cardinality(AskedIn(rest)) \in Nat
  BY <1>1, AskedProperties
<1>3. Cardinality(later) = Cardinality(AskedIn(rest))
  <2>1. \A j \in AskedIn(rest) : j + 1 \in later
    BY <1>1 DEF AskedIn
  <2>2. \A i \in later : i - 1 \in AskedIn(rest) /\ (i - 1) + 1 = i
    BY <1>1 DEF AskedIn
  <2>3. \A j, k \in AskedIn(rest) : j + 1 = k + 1 => j = k
    BY DEF AskedIn
  <2> HIDE DEF later
  <2>4. shift \in Bijection(AskedIn(rest), later)
    <3>1. shift \in [AskedIn(rest) -> later]
      BY <2>1
    <3>2. \A i \in later : \E j \in AskedIn(rest) : shift[j] = i
      BY <2>2
    <3>3. \A j, k \in AskedIn(rest) : shift[j] = shift[k] => j = k
      BY <2>3
    <3>4. QED
      BY <3>1, <3>2, <3>3 DEF Bijection, Injection, Surjection, IsInjective, Range
  <2>5. ExistsBijection(AskedIn(rest), later)
    BY <2>4 DEF ExistsBijection
  <2>6. QED
    BY <1>2, <2>5, FS_Bijection
<1>4. 1 \in AskedIn(queue) <=> queue[1].type # "ack"
  BY <1>1 DEF AskedIn
<1>5. CASE queue[1].type = "ack"
  <2>1. later = AskedIn(queue)
    BY <1>4, <1>5
  <2>2. Cardinality(AskedIn(queue)) = Cardinality(AskedIn(rest))
    BY <1>3, <2>1
  <2>3. Cardinality(AskedIn(rest)) + 0 = Cardinality(AskedIn(rest))
    BY <1>2
  <2>4. QED
    BY <1>5, <2>2, <2>3 DEF rest
<1>6. CASE queue[1].type # "ack"
  <2>1. Cardinality(later) = Cardinality(AskedIn(queue)) - 1
    BY <1>2, <1>4, <1>6, FS_RemoveElement
  <2>2. QED
    BY <1>2, <1>3, <1>6, <2>1 DEF rest
<1>7. QED
  BY <1>5, <1>6

\* The two events of a configure are queued together.
LEMMA EventsAppended ==
  ASSUME NEW queue \in Seq(Events), NEW conf \in Configures
  PROVE  LET longer == queue \o Event(conf)
         IN  /\ longer \in Seq(Events) /\ Len(longer) = Len(queue) + 2
             /\ \A j \in 1..Len(queue) : longer[j] = queue[j]
             /\ longer[Len(queue) + 1] = [conf |-> conf, role |-> "toplevel"]
             /\ longer[Len(queue) + 2] = [conf |-> conf, role |-> "surface"]
<1> DEFINE pair == Event(conf)
<1>1. /\ pair \in Seq(Events) /\ Len(pair) = 2
      /\ pair[1] = [conf |-> conf, role |-> "toplevel"]
      /\ pair[2] = [conf |-> conf, role |-> "surface"]
  BY DEF Event, Events
<1> HIDE DEF pair
<1> DEFINE longer == queue \o pair
<1>2. /\ longer \in Seq(Events) /\ Len(longer) = Len(queue) + Len(pair) /\ Len(queue) \in Nat
      /\ \A j \in 1..(Len(queue) + Len(pair)) :
            longer[j] = IF j <= Len(queue) THEN queue[j] ELSE pair[j - Len(queue)]
  <2>1. pair \in Seq(Events)
    BY <1>1
  <2> HIDE DEF longer
  <2>2. QED
    BY <2>1 DEF longer
<1> HIDE DEF longer
<1>3. /\ \A j \in 1..Len(queue) : longer[j] = queue[j]
      /\ longer[Len(queue) + 1] = pair[1] /\ longer[Len(queue) + 2] = pair[2]
  <2>1. Len(queue) + 1 - Len(queue) = 1 /\ Len(queue) + 2 - Len(queue) = 2
    BY <1>2
  <2>2. QED
    BY <1>1, <1>2, <2>1
<1>4. QED
  BY <1>1, <1>2, <1>3 DEF pair, longer

-----------------------------------------------------------------------------
(* Types *)

LEMMA TypeParts ==
  TypeOK <=> /\ pending \in Seq(Configures) /\ acked \in Configures
             /\ sent \in Serials /\ focused \in BOOLEAN /\ requests \in 0..MaxRequests
             /\ windowed \in Sizes \cup {"none"} /\ geometry \in Sizes
             /\ down \in Seq(Events) /\ up \in Seq(Asking \cup Acks) /\ client \in Clients
BY DEF TypeOK, Events, Asking, Acks, Clients

LEMMA SerialsProperties ==
  Serials \subseteq Nat /\ \A n \in Nat : n <= MaxSerial + 2 * MaxRequests => n \in Serials
BY BoundsAreNumbers DEF Serials

LEMMA SendTypes ==
  ASSUME TypeOK, NEW size \in Sizes, NEW states \in SUBSET States, sent + 1 \in Serials,
         sendConfigure(size, states)
  PROVE  /\ pending' \in Seq(Configures) /\ sent' \in Serials /\ sent' = sent + 1
         /\ down' \in Seq(Events)
<1> DEFINE conf == [serial |-> sent + 1, states |-> states, size |-> size]
<1>1. conf \in Configures
  BY DEF Configures
<1>2. sent' = sent + 1 /\ pending' = Append(pending, conf) /\ down' = down \o Event(conf)
  BY DEF sendConfigure
<1> HIDE DEF conf
<1>3. pending \in Seq(Configures) /\ down \in Seq(Events)
  BY TypeParts
<1>4. down \o Event(conf) \in Seq(Events)
  BY <1>1, <1>3, EventsAppended
<1>5. Append(pending, conf) \in Seq(Configures)
  BY <1>1, <1>3
<1>6. QED
  BY <1>2, <1>4, <1>5

LEMMA LastSentType == TypeOK => lastSentConfigure \in Configures
<1> SUFFICES ASSUME TypeOK PROVE lastSentConfigure \in Configures
  OBVIOUS
<1>1. pending \in Seq(Configures) /\ acked \in Configures
  BY DEF TypeOK
<1>2. CASE pending = <<>>
  BY <1>1, <1>2 DEF lastSentConfigure
<1>3. CASE pending # <<>>
  <2>1. Len(pending) \in 1..Len(pending)
    BY <1>1, <1>3
  <2>2. pending[Len(pending)] \in Configures
    BY <1>1, <2>1
  <2>3. QED
    BY <1>3, <2>2 DEF lastSentConfigure, Last
<1>4. QED
  BY <1>2, <1>3

\* sendConfigure with one more event in the bounds, and up as it is.
LEMMA CompositorSends ==
  ASSUME TypeInv, sent < MaxSerial, NEW size \in Sizes, NEW states \in SUBSET States,
         sendConfigure(size, states), UNCHANGED <<acked, windowed, geometry, up, client, requests>>,
         focused' \in BOOLEAN
  PROVE  TypeInv'
<1>1. sent \in Nat /\ requests \in Nat /\ requests <= MaxRequests
  BY SerialsProperties, BoundsAreNumbers DEF TypeInv, TypeOK
<1>2. sent + 1 \in Serials
  BY <1>1, SerialsProperties, BoundsAreNumbers
<1>3. /\ pending' \in Seq(Configures) /\ sent' \in Serials /\ sent' = sent + 1
      /\ down' \in Seq(Events)
  BY <1>2, SendTypes DEF TypeInv
<1>4. TypeOK'
  BY <1>3 DEF TypeInv, TypeOK, Events
<1>5. up \in Seq(Asking \cup Acks) /\ Cardinality(AskedIn(up)) \in Nat
  BY TypeParts, AskedProperties DEF TypeInv
<1>6. Cardinality(AskedIn(up)) <= 2 * requests
  BY DEF TypeInv, Bounded
<1>7. Bounded'
  <2>1. sent + 1 + Cardinality(AskedIn(up)) <= MaxSerial + 2 * requests
    BY <1>1, <1>5, <1>6, BoundsAreNumbers
  <2>2. QED
    BY <1>3, <1>6, <2>1 DEF Bounded
<1>8. NormalIsKnown'
  BY DEF TypeInv, NormalIsKnown
<1>9. QED
  BY <1>4, <1>7, <1>8 DEF TypeInv

LEMMA FocusTypes ==
  ASSUME TypeInv, sendResizing \/ handleFocusReceived \/ handleFocusLost
  PROVE  TypeInv'
<1>1. lastSentConfigure.states \subseteq States /\ lastSentConfigure.size \in Sizes
  BY LastSentType DEF TypeInv, Configures
<1>2. CASE sendResizing
  BY <1>1, <1>2, CompositorSends DEF sendResizing, sendMode, States, Sizes, TypeInv, TypeOK
<1>3. CASE handleFocusReceived
  <2>1. CASE "activated" \in lastSentConfigure.states
    BY <1>3, <2>1 DEF handleFocusReceived, TypeInv, TypeOK, Bounded, NormalIsKnown
  <2>2. CASE "activated" \notin lastSentConfigure.states
    <3>1. lastSentConfigure.states \cup {"activated"} \in SUBSET States
      BY <1>1 DEF States
    <3>2. QED
      BY <1>1, <1>3, <2>2, <3>1, CompositorSends DEF handleFocusReceived
  <2>3. QED
    BY <2>1, <2>2
<1>4. CASE handleFocusLost
  <2>1. lastSentConfigure.states \ {"activated"} \in SUBSET States
    BY <1>1 DEF States
  <2>2. QED
    BY <1>1, <1>4, <2>1, CompositorSends DEF handleFocusLost
<1>5. QED
  BY <1>2, <1>3, <1>4

\* Either no pending configure has the serial, or the acknowledged one has it
\* and those after it are left.
LEMMA AckEffects ==
  ASSUME TypeOK, NEW serial, handleAckConfigure(serial)
  PROVE  \/ /\ \A j \in 1..Len(pending) : pending[j].serial # serial
            /\ pending' = <<>> /\ acked' = acked
         \/ \E i \in 1..Len(pending) :
              /\ pending[i].serial = serial /\ acked' = pending[i]
              /\ pending' \in Seq(Configures) /\ Len(pending') = Len(pending) - i
              /\ \A j \in 1..(Len(pending) - i) : pending'[j] = pending[i + j]
<1> DEFINE found == {j \in 1..Len(pending) : pending[j].serial = serial}
           i == SelectInSeq(pending, LAMBDA conf : conf.serial = serial)
<1>1. pending \in Seq(Configures) /\ Len(pending) \in Nat
  BY DEF TypeOK
<1>2. /\ i = 0 => pending' = <<>> /\ acked' = acked
      /\ i # 0 => acked' = pending[i] /\ pending' = SubSeq(pending, i + 1, Len(pending))
  BY DEF handleAckConfigure
<1>3. i = IF found # {} THEN Min(found) ELSE 0
  BY DEF SelectInSeq
<1>4. CASE found = {}
  BY <1>2, <1>3, <1>4
<1>5. CASE found # {}
  <2>1. found \in SUBSET Nat
    BY <1>1
  <2>2. \E j \in found : \A k \in found : j <= k
    BY <1>5, <2>1, Least
  <2>3. Min(found) \in found
    BY <2>2 DEF Min
  <2>4. i \in found /\ i # 0
    BY <1>1, <1>3, <1>5, <2>3
  <2> HIDE DEF i
  <2>5. i \in 1..Len(pending) /\ pending[i].serial = serial
    BY <2>4
  <2>6. /\ SubSeq(pending, i + 1, Len(pending)) \in Seq(Configures)
        /\ Len(SubSeq(pending, i + 1, Len(pending))) = Len(pending) - i
        /\ \A j \in 1..(Len(pending) - i) : SubSeq(pending, i + 1, Len(pending))[j] = pending[i + j]
    <3>1. i + 1 \in Int /\ Len(pending) \in Int /\ i \in Int
      BY <1>1, <2>5
    <3>2. \A k \in (i + 1)..Len(pending) : pending[k] \in Configures
      BY <1>1, <2>5
    <3>3. /\ SubSeq(pending, i + 1, Len(pending)) \in Seq(Configures)
          /\ Len(SubSeq(pending, i + 1, Len(pending)))
               = IF i + 1 <= Len(pending) THEN Len(pending) - (i + 1) + 1 ELSE 0
          /\ \A j \in 1..(Len(pending) - (i + 1) + 1) :
                SubSeq(pending, i + 1, Len(pending))[j] = pending[(i + 1) + j - 1]
      BY <3>1, <3>2, SubSeqProperties
    <3>4. (IF i + 1 <= Len(pending) THEN Len(pending) - (i + 1) + 1 ELSE 0) = Len(pending) - i
      BY <1>1, <2>5
    <3>5. Len(pending) - (i + 1) + 1 = Len(pending) - i
      BY <1>1, <2>5
    <3>6. \A j \in 1..(Len(pending) - i) : (i + 1) + j - 1 = i + j
      BY <1>1, <2>5
    <3>7. QED
      BY <3>3, <3>4, <3>5, <3>6
  <2>7. QED
    BY <1>2, <2>4, <2>5, <2>6
<1>6. QED
  BY <1>4, <1>5

LEMMA RequestTaken ==
  ASSUME TypeInv, up # <<>>, up' = Tail(up)
  PROVE  /\ up' \in Seq(Asking \cup Acks) /\ Head(up) = up[1] /\ up[1] \in Asking \cup Acks
         /\ Cardinality(AskedIn(up)) \in Nat /\ Cardinality(AskedIn(up')) \in Nat
         /\ Cardinality(AskedIn(up)) = Cardinality(AskedIn(up')) + (IF up[1].type = "ack" THEN 0 ELSE 1)
<1>1. up \in Seq(Asking \cup Acks)
  BY TypeParts DEF TypeInv
<1>2. Tail(up) \in Seq(Asking \cup Acks) /\ Head(up) = up[1] /\ up[1] \in Asking \cup Acks
  BY <1>1
<1>3. Cardinality(AskedIn(up)) \in Nat /\ Cardinality(AskedIn(Tail(up))) \in Nat
  BY <1>1, <1>2, AskedProperties
<1>4. Cardinality(AskedIn(up))
        = Cardinality(AskedIn(Tail(up))) + (IF up[1].type = "ack" THEN 0 ELSE 1)
  BY <1>1, AskedTaken
<1>5. QED
  BY <1>2, <1>3, <1>4

\* A request for a mode is one asked request less, and one event more.
LEMMA RequestTypes ==
  ASSUME TypeInv, HandleRequest, NEW size \in Sizes, NEW states \in SUBSET States,
         sendConfigure(size, states), Head(up).type # "ack",
         UNCHANGED <<acked, geometry>>, windowed' \in Sizes \cup {"none"}
  PROVE  TypeInv'
<1>1. /\ up # <<>> /\ up' = Tail(up) /\ UNCHANGED <<focused, client, requests>>
  BY DEF HandleRequest
<1>2. PICK m \in Nat : /\ m = Cardinality(AskedIn(up')) /\ up' \in Seq(Asking \cup Acks)
                       /\ Cardinality(AskedIn(up)) = m + 1
  BY <1>1, RequestTaken
<1>3. /\ sent \in Nat /\ requests \in Nat /\ requests <= MaxRequests
      /\ MaxSerial \in Nat /\ MaxRequests \in Nat
  BY SerialsProperties, BoundsAreNumbers DEF TypeInv, TypeOK
<1>4. m + 1 <= 2 * requests /\ sent + (m + 1) <= MaxSerial + 2 * requests
  BY <1>2 DEF TypeInv, Bounded
<1>5. sent + 1 \in Serials
  BY <1>2, <1>3, <1>4, SerialsProperties
<1>6. /\ pending' \in Seq(Configures) /\ sent' \in Serials /\ sent' = sent + 1
      /\ down' \in Seq(Events)
  BY <1>5, SendTypes DEF TypeInv
<1>7. TypeOK'
  BY <1>1, <1>2, <1>6 DEF TypeInv, TypeOK, Events, Asking, Acks
<1>8. Bounded'
  BY <1>1, <1>2, <1>3, <1>4, <1>6 DEF Bounded
<1>9. NormalIsKnown'
  BY <1>1 DEF TypeInv, NormalIsKnown
<1>10. QED
  BY <1>7, <1>8, <1>9 DEF TypeInv

LEMMA HandleTypes ==
  ASSUME TypeInv, HandleRequest
  PROVE  TypeInv'
<1>1. /\ up # <<>> /\ up' = Tail(up) /\ UNCHANGED <<focused, client, requests>>
      /\ set_mode(Head(up)) \/ unset_mode(Head(up)) \/ ack_configure(Head(up))
  BY DEF HandleRequest
<1>2. Head(up) \in Asking \cup Acks
  BY <1>1, RequestTaken
<1>3. /\ windowed \in Sizes \cup {"none"} /\ geometry \in Sizes
      /\ lastSentConfigure.states \subseteq States
  BY LastSentType DEF TypeInv, TypeOK, Configures
<1>4. CASE set_mode(Head(up))
  <2>1. Head(up).mode \in Large /\ Head(up).type # "ack"
    BY <1>2, <1>4 DEF set_mode, Asking, Acks
  <2>2. PICK states \in SUBSET States : sendConfigure("output", states)
    BY <1>3, <1>4, <2>1 DEF set_mode, handleSet, sendMode, States
  <2>3. windowed' \in Sizes \cup {"none"} /\ UNCHANGED <<acked, geometry>>
    BY <1>3, <1>4 DEF set_mode, handleSet, Remembered
  <2>4. QED
    BY <2>1, <2>2, <2>3, RequestTypes DEF Sizes
<1>5. CASE unset_mode(Head(up))
  <2>1. Head(up).type # "ack" /\ UNCHANGED <<acked, geometry, windowed>>
    BY <1>5 DEF unset_mode, handleUnset
  <2>2. PICK states \in SUBSET States :
          sendConfigure(IF windowed = "none" THEN "free" ELSE windowed, states)
    BY <1>3, <1>5 DEF unset_mode, handleUnset, sendMode
  <2>3. (IF windowed = "none" THEN "free" ELSE windowed) \in Sizes
    BY <1>3 DEF Sizes
  <2>4. QED
    BY <1>3, <2>1, <2>2, <2>3, RequestTypes
<1>6. CASE ack_configure(Head(up))
  <2>1. /\ handleAckConfigure(Head(up).serial) /\ Head(up).type = "ack"
        /\ geometry' = Head(up).size /\ UNCHANGED <<windowed, sent, down>>
    BY <1>6 DEF ack_configure
  <2>2. Head(up).size \in Sizes
    BY <1>2, <2>1 DEF Asking, Acks
  <2>3. pending' \in Seq(Configures) /\ acked' \in Configures
    <3>1. PICK serial : handleAckConfigure(serial)
      BY <2>1
    <3>2. pending \in Seq(Configures) /\ acked \in Configures /\ TypeOK
      BY DEF TypeInv, TypeOK
    <3>3. CASE pending' = <<>> /\ acked' = acked
      BY <3>2, <3>3
    <3>4. CASE \E i \in 1..Len(pending) : acked' = pending[i] /\ pending' \in Seq(Configures)
      BY <3>2, <3>4
    <3>5. QED
      BY <3>1, <3>2, <3>3, <3>4, AckEffects
  <2>4. TypeOK'
    BY <1>1, <2>1, <2>2, <2>3, RequestTaken DEF TypeInv, TypeOK, Asking, Acks
  <2>5. Cardinality(AskedIn(up')) = Cardinality(AskedIn(up))
    BY <1>1, <2>1, RequestTaken
  <2>6. Bounded'
    BY <1>1, <2>1, <2>5 DEF TypeInv, Bounded
  <2>7. NormalIsKnown'
    BY <1>1 DEF TypeInv, NormalIsKnown
  <2>8. QED
    BY <2>4, <2>6, <2>7 DEF TypeInv
<1>7. QED
  BY <1>1, <1>4, <1>5, <1>6

LEMMA AppliedEffects ==
  ASSUME TypeInv, NEW c \in Clients, NEW serial \in Serials, Applied(c, serial)
  PROVE  /\ NewSize \in Sizes
         /\ client' \in Clients /\ client'.applied = client.pending
         /\ client'.size = NewSize /\ client'.normal = NormalSize /\ client'.normal # "none"
         /\ client'.configured
         /\ client'.pending = c.pending /\ client'.half = c.half /\ client'.serial = c.serial
         /\ client'.waiting = c.waiting /\ client'.applying = c.applying
         /\ client'.blocked = c.blocked
         /\ up' = Append(up, [type |-> "ack", serial |-> serial, size |-> NewSize])
         /\ up' \in Seq(Asking \cup Acks)
         /\ Cardinality(AskedIn(up')) = Cardinality(AskedIn(up))
<1>1. client \in Clients /\ up \in Seq(Asking \cup Acks)
  BY TypeParts DEF TypeInv
<1>2. NormalSize \in Sizes
  BY <1>1 DEF NormalSize, TypeInv, NormalIsKnown, Clients, Sizes
<1>3. NewSize \in Sizes
  BY <1>1, <1>2 DEF NewSize, Clients, Configures
<1>4. client' = [c EXCEPT !.normal = NormalSize, !.size = NewSize, !.applied = client.pending,
                          !.configured = TRUE]
  BY DEF Applied
<1>5. NormalSize \in Sizes \cup {"none"} /\ NormalSize # "none" /\ client.pending \in Configures
  BY <1>1, <1>2 DEF Sizes, Clients
<1>6. /\ client' \in Clients /\ client'.applied = client.pending
      /\ client'.size = NewSize /\ client'.normal = NormalSize /\ client'.normal # "none"
      /\ client'.configured
      /\ client'.pending = c.pending /\ client'.half = c.half /\ client'.serial = c.serial
      /\ client'.waiting = c.waiting /\ client'.applying = c.applying
      /\ client'.blocked = c.blocked
  BY <1>3, <1>4, <1>5 DEF Clients
<1>7. PICK ack : ack = [type |-> "ack", serial |-> serial, size |-> NewSize]
  OBVIOUS
<1>8. ack \in Asking \cup Acks /\ ack.type = "ack"
  BY <1>3, <1>7 DEF Acks
<1>9. up' = Append(up, ack)
  BY <1>7 DEF Applied
<1>10. Append(up, ack) \in Seq(Asking \cup Acks)
  BY <1>1, <1>8
<1>11. Cardinality(AskedIn(Append(up, ack))) = Cardinality(AskedIn(up))
  BY <1>1, <1>8, AskedAppended, AskedProperties
<1>12. QED
  BY <1>3, <1>6, <1>7, <1>9, <1>10, <1>11

LEMMA ApplyTypes ==
  ASSUME TypeInv, NEW c \in Clients, NEW serial \in Serials, Applied(c, serial),
         UNCHANGED <<compositor, requests>>, down' \in Seq(Events)
  PROVE  TypeInv'
<1>1. TypeOK'
  BY AppliedEffects DEF TypeInv, TypeOK, compositor, Events, Asking, Acks, Clients
<1>2. Bounded'
  BY AppliedEffects DEF TypeInv, Bounded, compositor
<1>3. NormalIsKnown'
  BY AppliedEffects DEF NormalIsKnown
<1>4. QED
  BY <1>1, <1>2, <1>3 DEF TypeInv

\* The client's records change, but nothing that was applied or asked.
LEMMA RecordTypes ==
  ASSUME TypeInv, client' \in Clients, client'.applied = client.applied,
         client'.normal = client.normal, UNCHANGED <<compositor, up, requests>>,
         down' \in Seq(Events)
  PROVE  TypeInv'
<1>1. TypeOK'
  BY DEF TypeInv, TypeOK, compositor, Events, Asking, Acks, Clients
<1>2. Bounded' /\ NormalIsKnown'
  BY DEF TypeInv, Bounded, NormalIsKnown, compositor
<1>3. QED
  BY <1>1, <1>2 DEF TypeInv

LEMMA EventTaken ==
  ASSUME TypeInv, down # <<>>
  PROVE  /\ Tail(down) \in Seq(Events) /\ Head(down) = down[1]
         /\ Head(down).conf \in Configures /\ Head(down).conf.serial \in Serials
<1>1. down \in Seq(Events)
  BY TypeParts DEF TypeInv
<1>2. Tail(down) \in Seq(Events) /\ Head(down) = down[1] /\ down[1] \in Events
  BY <1>1
<1>3. QED
  BY <1>2 DEF Events, Configures

\* A request for a mode, or none, is queued behind the others.
LEMMA AskedOnce ==
  ASSUME NEW queue \in Seq(Asking \cup Acks), NEW more,
         more = <<>> \/ \E request \in Asking : more = <<request>>
  PROVE  LET longer == queue \o more
         IN  /\ longer \in Seq(Asking \cup Acks)
             /\ Len(queue) <= Len(longer) /\ \A j \in 1..Len(queue) : longer[j] = queue[j]
             /\ \A j \in 1..Len(longer) : j > Len(queue) => longer[j].type # "ack"
             /\ Cardinality(AskedIn(longer)) <= Cardinality(AskedIn(queue)) + 1
<1>1. Cardinality(AskedIn(queue)) \in Nat /\ Len(queue) \in Nat
  BY AskedProperties
<1>2. CASE more = <<>>
  <2>1. queue \o more = queue
    BY <1>2
  <2>2. QED
    BY <1>1, <2>1
<1>3. ASSUME NEW request \in Asking, more = <<request>>
      PROVE  LET longer == queue \o more
             IN  /\ longer \in Seq(Asking \cup Acks)
                 /\ Len(queue) <= Len(longer) /\ \A j \in 1..Len(queue) : longer[j] = queue[j]
                 /\ \A j \in 1..Len(longer) : j > Len(queue) => longer[j].type # "ack"
                 /\ Cardinality(AskedIn(longer)) <= Cardinality(AskedIn(queue)) + 1
  <2> DEFINE longer == Append(queue, request)
  <2>1. queue \o more = longer
    BY <1>3
  <2>2. request \in Asking \cup Acks /\ request.type # "ack"
    BY DEF Asking
  <2>3. Cardinality(AskedIn(longer)) = Cardinality(AskedIn(queue)) + 1
    BY <2>2, AskedAppended
  <2>4. /\ longer \in Seq(Asking \cup Acks) /\ Len(longer) = Len(queue) + 1
        /\ longer[Len(queue) + 1] = request /\ \A j \in 1..Len(queue) : longer[j] = queue[j]
    BY <2>2
  <2> HIDE DEF longer
  <2>5. \A j \in 1..Len(longer) : j > Len(queue) => longer[j].type # "ack"
    BY <1>1, <2>2, <2>4
  <2>6. QED
    BY <1>1, <2>1, <2>3, <2>4, <2>5
<1>4. QED
  BY <1>2, <1>3

LEMMA AskEffects ==
  ASSUME TypeInv, NEW states \in SUBSET Large, requestWindowStates(states)
  PROVE  /\ up' \in Seq(Asking \cup Acks)
         /\ Len(up) <= Len(up') /\ \A j \in 1..Len(up) : up'[j] = up[j]
         /\ \A j \in 1..Len(up') : j > Len(up) => up'[j].type # "ack"
         /\ Cardinality(AskedIn(up')) <= Cardinality(AskedIn(up)) + 2
<1>1. up \in Seq(Asking \cup Acks)
  BY TypeParts DEF TypeInv
<1>2. PICK one, two :
        /\ one = <<>> \/ \E request \in Asking : one = <<request>>
        /\ two = <<>> \/ \E request \in Asking : two = <<request>>
        /\ up' = (up \o one) \o two
  <2>1. \A mode \in Large, type \in {"set", "unset"} : [type |-> type, mode |-> mode] \in Asking
    BY DEF Asking
  <2>2. "maximized" \in Large /\ "fullscreen" \in Large
    BY DEF Large
  <2> DEFINE Request(mode) ==
        IF (mode \in states) = (mode \in client.applied.states) THEN <<>>
        ELSE <<[type |-> IF mode \in states THEN "set" ELSE "unset", mode |-> mode]>>
  <2>3. \A mode \in Large : Request(mode) = <<>> \/ \E request \in Asking : Request(mode) = <<request>>
    BY <2>1
  <2>4. up' = up \o Request("maximized") \o Request("fullscreen")
    BY DEF requestWindowStates
  <2> HIDE DEF Request
  <2>5. QED
    BY <2>2, <2>3, <2>4
<1> DEFINE middle == up \o one
<1>3. /\ middle \in Seq(Asking \cup Acks)
      /\ Len(up) <= Len(middle) /\ \A j \in 1..Len(up) : middle[j] = up[j]
      /\ \A j \in 1..Len(middle) : j > Len(up) => middle[j].type # "ack"
      /\ Cardinality(AskedIn(middle)) <= Cardinality(AskedIn(up)) + 1
  BY <1>1, <1>2, AskedOnce
<1> HIDE DEF middle
<1> DEFINE longer == middle \o two
<1>4. /\ longer \in Seq(Asking \cup Acks)
      /\ Len(middle) <= Len(longer) /\ \A j \in 1..Len(middle) : longer[j] = middle[j]
      /\ \A j \in 1..Len(longer) : j > Len(middle) => longer[j].type # "ack"
      /\ Cardinality(AskedIn(longer)) <= Cardinality(AskedIn(middle)) + 1
  BY <1>2, <1>3, AskedOnce
<1> HIDE DEF longer
<1>5. /\ Cardinality(AskedIn(up)) \in Nat /\ Cardinality(AskedIn(middle)) \in Nat
      /\ Cardinality(AskedIn(longer)) \in Nat
      /\ Len(up) \in Nat /\ Len(middle) \in Nat /\ Len(longer) \in Nat
  BY <1>1, <1>3, <1>4, AskedProperties
<1>6. /\ Len(up) <= Len(longer) /\ \A j \in 1..Len(up) : longer[j] = up[j]
      /\ Cardinality(AskedIn(longer)) <= Cardinality(AskedIn(up)) + 2
  BY <1>3, <1>4, <1>5
<1>7. ASSUME NEW j \in 1..Len(longer), j > Len(up) PROVE longer[j].type # "ack"
  BY <1>3, <1>4, <1>5, <1>7
<1>8. up' = longer
  BY <1>2 DEF longer, middle
<1>9. QED
  BY <1>4, <1>6, <1>7, <1>8

LEMMA AskTypes ==
  ASSUME TypeInv, NEW states \in SUBSET Large, requestWindowStates(states)
  PROVE  TypeInv'
<1>1. /\ up' \in Seq(Asking \cup Acks) /\ requests < MaxRequests /\ requests' = requests + 1
      /\ Cardinality(AskedIn(up')) <= Cardinality(AskedIn(up)) + 2
      /\ UNCHANGED <<compositor, down, client>>
  BY AskEffects DEF requestWindowStates
<1>2. /\ sent \in Nat /\ requests \in Nat /\ MaxSerial \in Nat /\ MaxRequests \in Nat
      /\ Cardinality(AskedIn(up)) \in Nat /\ Cardinality(AskedIn(up')) \in Nat
  BY <1>1, TypeParts, AskedProperties, SerialsProperties, BoundsAreNumbers DEF TypeInv, TypeOK
<1>3. TypeOK'
  BY <1>1, <1>2 DEF TypeInv, TypeOK, compositor, Events, Asking, Acks, Clients
<1>4. Bounded'
  BY <1>1, <1>2 DEF TypeInv, Bounded, compositor
<1>5. NormalIsKnown'
  BY <1>1 DEF TypeInv, NormalIsKnown
<1>6. QED
  BY <1>3, <1>4, <1>5 DEF TypeInv

LEMMA TypeStep ==
  ASSUME TypeInv, Next
  PROVE  TypeInv'
<1>1. client \in Clients /\ client.serial \in Serials /\ down \in Seq(Events)
  BY TypeParts DEF TypeInv, Clients
<1>2. CASE sendResizing \/ handleFocusReceived \/ handleFocusLost \/ HandleRequest
  BY <1>2, FocusTypes, HandleTypes
<1>3. CASE xdg_toplevel_configure
  <2>1. /\ client' = [client EXCEPT !.pending = Head(down).conf, !.half = TRUE]
        /\ down' \in Seq(Events) /\ Head(down).conf \in Configures
        /\ UNCHANGED <<compositor, up, requests>>
    BY <1>3, EventTaken DEF xdg_toplevel_configure
  <2>2. /\ client' \in Clients /\ client'.applied = client.applied
        /\ client'.normal = client.normal
    BY <1>1, <2>1 DEF Clients
  <2>3. QED
    BY <2>1, <2>2, RecordTypes
<1>4. CASE xdg_surface_configure
  <2>1. /\ down' \in Seq(Events) /\ Head(down).conf.serial \in Serials
        /\ UNCHANGED <<compositor, requests>>
    BY <1>4, EventTaken DEF xdg_surface_configure
  <2>2. CASE Applied([client EXCEPT !.half = FALSE], Head(down).conf.serial)
    <3>1. [client EXCEPT !.half = FALSE] \in Clients
      BY <1>1 DEF Clients
    <3>2. QED
      BY <2>1, <2>2, <3>1, ApplyTypes
  <2>3. CASE /\ client' = [client EXCEPT !.serial = Head(down).conf.serial, !.half = FALSE,
                                         !.waiting = TRUE, !.blocked = client.applying]
             /\ UNCHANGED up
    <3>1. /\ client' \in Clients /\ client'.applied = client.applied
          /\ client'.normal = client.normal
      BY <1>1, <2>1, <2>3 DEF Clients
    <3>2. QED
      BY <2>1, <2>3, <3>1, RecordTypes
  <2>4. QED
    BY <1>4, <2>2, <2>3 DEF xdg_surface_configure
<1>5. CASE applyConfigure
  <2>1. [client EXCEPT !.applying = TRUE] \in Clients
    BY <1>1 DEF Clients
  <2>2. QED
    BY <1>1, <1>5, <2>1, ApplyTypes DEF applyConfigure
<1>6. CASE FinishApply
  <2>1. /\ client' = [client EXCEPT !.applying = FALSE, !.serial = 0,
                                    !.waiting = client.blocked, !.blocked = FALSE]
        /\ UNCHANGED <<compositor, down, up, requests>>
    BY <1>6 DEF FinishApply
  <2>2. 0 \in Serials
    BY SerialsProperties, BoundsAreNumbers
  <2>3. /\ client' \in Clients /\ client'.applied = client.applied
        /\ client'.normal = client.normal
    BY <1>1, <2>1, <2>2 DEF Clients
  <2>4. QED
    BY <1>1, <2>1, <2>3, RecordTypes
<1>7. CASE \E states \in SUBSET Large : requestWindowStates(states)
  BY <1>7, AskTypes
<1>8. QED
  BY <1>2, <1>3, <1>4, <1>5, <1>6, <1>7 DEF Next

LEMMA TypeInit == Init => TypeInv
<1> SUFFICES ASSUME Init PROVE TypeInv
  OBVIOUS
<1>1. /\ 0 \in Serials /\ 1 \in Serials /\ MaxSerial \in Nat \ {0} /\ 0 \in 0..MaxRequests
  BY SerialsProperties, BoundsAreNumbers
<1>2. First \in Configures /\ Unset \in Configures
  BY <1>1 DEF First, Unset, Configures, States, Sizes
<1>3. pending \in Seq(Configures) /\ down \in Seq(Events) /\ up \in Seq(Asking \cup Acks)
  BY <1>2 DEF Init, Event, Events
<1>4. client \in Clients
  BY <1>1, <1>2 DEF Init, Clients, Sizes
<1>5. TypeOK
  BY <1>1, <1>2, <1>3, <1>4, TypeParts DEF Init, Sizes
<1>6. AskedIn(up) = {} /\ Cardinality({}) = 0
  BY FS_EmptySet DEF Init, AskedIn
<1>7. Bounded
  BY <1>1, <1>6 DEF Init, Bounded
<1>8. NormalIsKnown
  BY DEF Init, NormalIsKnown, Unset
<1>9. QED
  BY <1>5, <1>7, <1>8 DEF TypeInv

LEMMA TypeHolds == Spec => []TypeInv
<1>1. TypeInv /\ [Next]_vars => TypeInv'
  <2>1. ASSUME TypeInv, UNCHANGED vars PROVE TypeInv'
    BY <2>1 DEF TypeInv, TypeOK, Bounded, NormalIsKnown, vars
  <2>2. QED
    BY <2>1, TypeStep
<1>2. QED
  BY <1>1, TypeInit, PTL DEF Spec

\* TypeOK, for every instance, painted by one thread or two: queues hold events
\* and requests of the protocol, and no more of them than are sent and asked for.
THEOREM TypeCorrect == Spec => []TypeOK
<1>1. TypeInv => TypeOK
  BY DEF TypeInv
<1>2. QED
  BY <1>1, TypeHolds, PTL
-----------------------------------------------------------------------------
(* Agreement, of a client that is painted by the thread of its events *)

\* A size fits a configure when it is the output's for large states alone.
Fits(conf, sz) == conf.states \cap Large # {} <=> sz = "output"

\* The configures the compositor still knows.
Known == {acked} \cup {pending[i] : i \in 1..Len(pending)}

\* The last acknowledged one and the pending ones have consecutive serials.
Numbered == /\ sent = acked.serial + Len(pending)
            /\ \A i \in 1..Len(pending) : pending[i].serial = acked.serial + i

SizesFit == /\ Fits(acked, acked.size) /\ \A i \in 1..Len(pending) : Fits(pending[i], pending[i].size)
            /\ Fits(acked, geometry) /\ Fits(client.applied, client.size)

\* Half of the client's pending configure is on the way, or none of it.
Ahead == IF client.half THEN 0 ELSE 1

\* Every configure after it is on the way, in order: an event's place in the
\* queue follows from its serial and its role.
DownInOrder == /\ Len(down) + Ahead = 2 * (sent - client.pending.serial) + 1
               /\ \A j \in 1..Len(down) :
                     /\ down[j].conf \in Known
                     /\ 2 * (down[j].conf.serial - client.pending.serial)
                          + (IF down[j].role = "surface" THEN 1 ELSE 0) = j + Ahead

\* What the client works on is known; it waits for its pending configure alone.
ClientFollows ==
    /\ client.pending \in Known /\ client.applied \in Known
    /\ ~client.blocked /\ (client.waiting => client.configured)
    /\ client.applying => client.applied = client.pending /\ ~client.half
    /\ ~client.applying =>
          /\ client.half \/ client.waiting => client.applied.serial < client.pending.serial
          /\ client.waiting => client.serial # 0
          /\ client.waiting /\ ~client.half => client.serial = client.pending.serial
          /\ ~client.waiting /\ ~client.half => client.applied = client.pending

\* Acknowledgements on the way are of pending configures, the oldest first.
AcksInOrder ==
    \A j \in 1..Len(up) : up[j].type = "ack" =>
        /\ acked.serial < up[j].serial /\ up[j].serial <= client.applied.serial
        /\ \A i \in 1..Len(pending) : pending[i].serial = up[j].serial => Fits(pending[i], up[j].size)
        /\ \A l \in 1..Len(up) : up[l].type = "ack" /\ j < l => up[j].serial < up[l].serial

\* What is applied is acknowledged, or its acknowledgement is on the way.
AppliedIsTold ==
    \/ /\ \A j \in 1..Len(up) : up[j].type # "ack"
       /\ acked.serial = client.applied.serial /\ geometry = client.size
    \/ \E j \in 1..Len(up) : /\ up[j].type = "ack" /\ up[j].serial = client.applied.serial
                             /\ up[j].size = client.size

Agreement == Numbered /\ SizesFit /\ DownInOrder /\ ClientFollows /\ AcksInOrder /\ AppliedIsTold
             /\ WindowSizeKept


LEMMA AgreeTypes ==
  ASSUME TypeInv
  PROVE  /\ pending \in Seq(Configures) /\ Len(pending) \in Nat
         /\ \A i \in 1..Len(pending) : pending[i] \in Configures /\ pending[i].serial \in Nat
         /\ acked \in Configures /\ acked.serial \in Nat /\ sent \in Nat
         /\ down \in Seq(Events) /\ Len(down) \in Nat
         /\ \A j \in 1..Len(down) : /\ down[j].conf \in Configures /\ down[j].conf.serial \in Nat
                                    /\ down[j].role \in {"toplevel", "surface"}
         /\ up \in Seq(Asking \cup Acks) /\ Len(up) \in Nat
         /\ \A j \in 1..Len(up) : up[j].type = "ack" => up[j].serial \in Nat /\ up[j].size \in Sizes
         /\ client \in Clients /\ client.serial \in Nat
         /\ client.pending.serial \in Nat /\ client.applied.serial \in Nat
<1>1. /\ pending \in Seq(Configures) /\ acked \in Configures /\ sent \in Serials
      /\ down \in Seq(Events) /\ up \in Seq(Asking \cup Acks) /\ client \in Clients
  BY TypeParts DEF TypeInv
<1>2. \A conf \in Configures : conf.serial \in Nat
  BY SerialsProperties DEF Configures
<1>3. \A request \in Asking \cup Acks :
         request.type = "ack" => request.serial \in Nat /\ request.size \in Sizes
  BY SerialsProperties DEF Asking, Acks
<1>4. \A event \in Events : event.conf \in Configures /\ event.role \in {"toplevel", "surface"}
  BY DEF Events
<1>5. /\ client.pending \in Configures /\ client.applied \in Configures /\ client.serial \in Nat
  BY <1>1, SerialsProperties DEF Clients
<1>6. \A i \in 1..Len(pending) : pending[i] \in Configures
  BY <1>1
<1>7. \A j \in 1..Len(down) : down[j] \in Events
  BY <1>1
<1>8. \A j \in 1..Len(up) : up[j] \in Asking \cup Acks
  BY <1>1
<1>9. Len(pending) \in Nat /\ Len(down) \in Nat /\ Len(up) \in Nat
  BY <1>1
<1>10. QED
  BY <1>1, <1>2, <1>3, <1>4, <1>5, <1>6, <1>7, <1>8, <1>9, SerialsProperties

\* A known configure is found by its serial.
LEMMA KnownConfigure ==
  ASSUME TypeInv, Numbered, NEW conf \in Known
  PROVE  /\ conf \in Configures /\ conf.serial \in Nat
         /\ acked.serial <= conf.serial /\ conf.serial <= sent
         /\ conf.serial = acked.serial => conf = acked
         /\ conf.serial # acked.serial => /\ conf.serial - acked.serial \in 1..Len(pending)
                                          /\ conf = pending[conf.serial - acked.serial]
<1>1. CASE conf = acked
  BY <1>1, AgreeTypes DEF Numbered
<1>2. ASSUME NEW i \in 1..Len(pending), conf = pending[i]
      PROVE  /\ conf \in Configures /\ conf.serial \in Nat
             /\ acked.serial < conf.serial /\ conf.serial <= sent
             /\ conf.serial - acked.serial = i
  BY <1>2, AgreeTypes DEF Numbered
<1>3. QED
  BY <1>1, <1>2, AgreeTypes DEF Known

\* The client's configures, and those on the way, are in the order of their serials.
LEMMA ClientSerials ==
  ASSUME TypeInv, Agreement
  PROVE  /\ acked.serial <= client.applied.serial
         /\ client.applied.serial <= client.pending.serial /\ client.pending.serial <= sent
         /\ client.applied.serial = client.pending.serial => client.applied = client.pending
<1>1. /\ client.applied \in Known /\ client.pending \in Known /\ Numbered
      /\ client.applying => client.applied = client.pending
      /\ ~client.applying =>
            /\ client.half \/ client.waiting => client.applied.serial < client.pending.serial
            /\ ~client.waiting /\ ~client.half => client.applied = client.pending
  BY DEF Agreement, ClientFollows
<1>2. /\ acked.serial <= client.applied.serial /\ client.pending.serial <= sent
      /\ client.applied.serial \in Nat /\ client.pending.serial \in Nat
  BY <1>1, KnownConfigure
<1>3. client.applied = client.pending \/ client.applied.serial < client.pending.serial
  BY <1>1
<1>4. QED
  BY <1>2, <1>3


LEMMA LastSentFits ==
  ASSUME TypeInv, Agreement
  PROVE  Fits(lastSentConfigure, lastSentConfigure.size)
<1>1. CASE pending = <<>>
  BY <1>1 DEF lastSentConfigure, Agreement, SizesFit
<1>2. CASE pending # <<>>
  <2>1. Len(pending) \in 1..Len(pending)
    BY <1>2, AgreeTypes
  <2>2. Fits(pending[Len(pending)], pending[Len(pending)].size)
    BY <2>1 DEF Agreement, SizesFit
  <2>3. QED
    BY <1>2, <2>2 DEF lastSentConfigure, Last
<1>3. QED
  BY <1>1, <1>2

\* The acknowledgements on the way stay what they are when a configure gets
\* pending and a request for a mode, or none, is taken.
LEMMA AcksStay ==
  ASSUME TypeInv, Agreement, UNCHANGED <<acked, geometry, client>>, NEW d \in {0, 1},
         Len(up') = Len(up) - d, Len(up') \in Nat,
         \A j \in 1..Len(up') : up'[j] = up[j + d],
         d = 1 => Len(up) > 0 /\ up[1].type # "ack",
         Len(pending') \in Nat, NEW n \in Nat, n > sent,
         \A i \in 1..Len(pending') :
            \/ i \in 1..Len(pending) /\ pending'[i] = pending[i]
            \/ pending'[i].serial = n
  PROVE  AcksInOrder' /\ AppliedIsTold'
<1>1. /\ Len(up) \in Nat /\ sent \in Nat /\ client.applied.serial \in Nat
      /\ client.applied.serial <= sent
      /\ \A j \in 1..Len(up) : up[j].type = "ack" => up[j].serial \in Nat
  <2>1. client.applied.serial <= client.pending.serial /\ client.pending.serial <= sent
    BY ClientSerials
  <2>2. sent \in Nat /\ client.applied.serial \in Nat /\ client.pending.serial \in Nat
    BY AgreeTypes
  <2>3. client.applied.serial <= sent
    BY <2>1, <2>2
  <2>4. QED
    BY <2>2, <2>3, AgreeTypes
<1>2. \A j \in 1..Len(up') : j + d \in 1..Len(up)
  BY <1>1
<1>3. ASSUME NEW j \in 1..Len(up'), up'[j].type = "ack"
      PROVE  /\ acked'.serial < up'[j].serial /\ up'[j].serial <= client'.applied.serial
             /\ \A i \in 1..Len(pending') :
                   pending'[i].serial = up'[j].serial => Fits(pending'[i], up'[j].size)
             /\ \A l \in 1..Len(up') :
                   up'[l].type = "ack" /\ j < l => up'[j].serial < up'[l].serial
  <2>1. PICK k \in 1..Len(up) : k = j + d /\ up'[j] = up[k] /\ up[k].type = "ack"
    BY <1>2, <1>3
  <2>2. /\ acked.serial < up[k].serial /\ up[k].serial <= client.applied.serial
        /\ \A i \in 1..Len(pending) :
              pending[i].serial = up[k].serial => Fits(pending[i], up[k].size)
        /\ \A l \in 1..Len(up) : up[l].type = "ack" /\ k < l => up[k].serial < up[l].serial
    BY <2>1 DEF Agreement, AcksInOrder
  <2>3. up[k].serial # n
    BY <1>1, <2>1, <2>2
  <2>4. \A i \in 1..Len(pending') :
            pending'[i].serial = up'[j].serial => Fits(pending'[i], up'[j].size)
    BY <2>1, <2>2, <2>3
  <2>5. ASSUME NEW l \in 1..Len(up'), up'[l].type = "ack", j < l
        PROVE  up'[j].serial < up'[l].serial
    <3>1. l + d \in 1..Len(up) /\ up'[l] = up[l + d] /\ k < l + d
      BY <1>1, <1>2, <2>1, <2>5
    <3>2. QED
      BY <2>1, <2>2, <2>5, <3>1
  <2>6. QED
    BY <2>1, <2>2, <2>4, <2>5
<1>4. AcksInOrder'
  BY <1>3 DEF AcksInOrder
<1>5. CASE /\ \A j \in 1..Len(up) : up[j].type # "ack"
           /\ acked.serial = client.applied.serial /\ geometry = client.size
  <2>1. \A j \in 1..Len(up') : up'[j].type # "ack"
    BY <1>2, <1>5
  <2>2. acked'.serial = client'.applied.serial /\ geometry' = client'.size
    BY <1>5
  <2>3. QED
    BY <1>4, <2>1, <2>2 DEF AppliedIsTold
<1>6. ASSUME NEW k \in 1..Len(up), up[k].type = "ack", up[k].serial = client.applied.serial,
             up[k].size = client.size
      PROVE  AppliedIsTold'
  <2>1. k - d \in 1..Len(up') /\ (k - d) + d = k
    BY <1>1, <1>6
  <2>2. up'[k - d] = up[k]
    BY <2>1
  <2>3. QED
    BY <1>6, <2>1, <2>2 DEF AppliedIsTold
<1>7. QED
  BY <1>4, <1>5, <1>6 DEF Agreement, AppliedIsTold

LEMMA SendAgrees ==
  ASSUME TypeInv, Agreement, NEW size \in Sizes, NEW states \in SUBSET States,
         states \cap Large # {} <=> size = "output", sendConfigure(size, states),
         sent + 1 \in Serials, UNCHANGED <<acked, geometry, client>>, windowed' # "output"
  PROVE  Numbered' /\ SizesFit' /\ DownInOrder' /\ ClientFollows' /\ WindowSizeKept'
<1> DEFINE new == [serial |-> sent + 1, states |-> states, size |-> size]
<1>1. /\ sent' = sent + 1 /\ pending' = Append(pending, new) /\ down' = down \o Event(new)
      /\ new.serial = sent + 1 /\ Fits(new, new.size) /\ new \in Configures
  BY DEF sendConfigure, Fits, Configures
<1>2. PICK conf \in Configures :
        /\ sent' = sent + 1 /\ pending' = Append(pending, conf)
        /\ down' = down \o Event(conf) /\ conf.serial = sent + 1
        /\ Fits(conf, conf.size)
  BY <1>1
<1> HIDE DEF new
<1>3. PICK len \in Nat : len = Len(pending) /\ pending \in Seq(Configures)
  BY AgreeTypes
<1>4. /\ Len(pending') = len + 1 /\ pending'[len + 1] = conf
      /\ \A i \in 1..len : pending'[i] = pending[i]
  BY <1>2, <1>3, AppendProperties
<1>5. Known' = Known \cup {conf}
  <2>1. 1..(len + 1) = (1..len) \cup {len + 1}
    BY <1>3
  <2>2. {pending'[i] : i \in 1..(len + 1)} = {pending[i] : i \in 1..len} \cup {conf}
    BY <1>3, <1>4, <2>1
  <2>3. QED
    BY <1>3, <1>4, <2>2 DEF Known
<1>6. Numbered'
  <2>1. sent = acked.serial + len /\ \A i \in 1..len : pending[i].serial = acked.serial + i
    BY <1>3 DEF Agreement, Numbered
  <2>2. PICK n \in Nat : n = acked.serial
    BY AgreeTypes
  <2>3. sent = n + len
    BY <2>1, <2>2
  <2>4. sent + 1 = n + (len + 1)
    BY <2>3
  <2>5. \A i \in 1..(len + 1) : pending'[i].serial = n + i
    <3>1. pending'[len + 1].serial = n + (len + 1)
      BY <1>2, <1>4, <2>4
    <3>2. \A i \in 1..len : pending'[i].serial = n + i
      BY <1>4, <2>1, <2>2
    <3>3. QED
      BY <3>1, <3>2
  <2>6. QED
    BY <1>2, <1>4, <2>2, <2>4, <2>5 DEF Numbered
<1>7. SizesFit'
  BY <1>2, <1>3, <1>4 DEF Agreement, SizesFit
<1>8. DownInOrder'
  <2>1. PICK s \in Nat, p \in Nat, a \in {0, 1} :
          s = sent /\ p = client.pending.serial /\ a = Ahead /\ a = Ahead'
    BY AgreeTypes DEF Ahead
  <2>2. PICK n \in Nat : /\ n = Len(down) /\ Len(down') = n + 2
                         /\ \A j \in 1..n : down'[j] = down[j]
                         /\ down'[n + 1] = [conf |-> conf, role |-> "toplevel"]
                         /\ down'[n + 2] = [conf |-> conf, role |-> "surface"]
    <3>1. conf \in Configures /\ down \in Seq(Events) /\ Len(down) \in Nat
      BY <1>2, AgreeTypes
    <3>2. QED
      BY <1>2, <3>1, EventsAppended
  <2>3. /\ n + a = 2 * (s - p) + 1
        /\ \A j \in 1..n : /\ down[j].conf \in Known
                           /\ 2 * (down[j].conf.serial - p)
                                + (IF down[j].role = "surface" THEN 1 ELSE 0) = j + a
    BY <2>1, <2>2 DEF Agreement, DownInOrder
  <2>4. /\ (n + 2) + a = 2 * ((s + 1) - p) + 1
        /\ 2 * ((s + 1) - p) + 0 = (n + 1) + a
    BY <2>3
  <2>5. ASSUME NEW j \in 1..(n + 2)
        PROVE  /\ down'[j].conf \in Known'
               /\ 2 * (down'[j].conf.serial - p)
                    + (IF down'[j].role = "surface" THEN 1 ELSE 0) = j + a
    <3>1. CASE j \in 1..n
      BY <1>5, <2>2, <2>3, <3>1
    <3>2. CASE j = n + 1
      <4>1. /\ down'[j] = [conf |-> conf, role |-> "toplevel"]
            /\ conf.serial = s + 1 /\ conf \in Known'
        BY <1>2, <1>5, <2>1, <2>2, <3>2
      <4>2. QED
        BY <2>4, <3>2, <4>1
    <3>3. CASE j = n + 2
      <4>1. /\ down'[j] = [conf |-> conf, role |-> "surface"]
            /\ conf.serial = s + 1 /\ conf \in Known'
        BY <1>2, <1>5, <2>1, <2>2, <3>3
      <4>2. QED
        BY <2>4, <3>3, <4>1
    <3>4. QED
      BY <2>2, <3>1, <3>2, <3>3
  <2>6. client'.pending.serial = p /\ sent' = s + 1 /\ Len(down') = n + 2 /\ Ahead' = a
    BY <1>2, <2>1, <2>2
  <2>7. QED
    BY <2>4, <2>5, <2>6 DEF DownInOrder
<1>9. ClientFollows'
  BY <1>5 DEF Agreement, ClientFollows
<1>10. WindowSizeKept'
  BY DEF Agreement, WindowSizeKept
<1>11. QED
  BY <1>6, <1>7, <1>8, <1>9, <1>10

\* A configure is sent for the compositor's own reasons.
LEMMA FocusAgrees ==
  ASSUME TypeInv, Agreement, sendResizing \/ handleFocusReceived \/ handleFocusLost
  PROVE  Agreement'
<1>1. /\ lastSentConfigure.states \subseteq States /\ lastSentConfigure.size \in Sizes
      /\ lastSentConfigure.states \cap Large # {} <=> lastSentConfigure.size = "output"
  BY LastSentType, LastSentFits DEF TypeInv, Configures, Fits
<1>2. UNCHANGED <<acked, windowed, geometry, up, client>>
  BY DEF sendResizing, handleFocusReceived, handleFocusLost
<1>3. ASSUME NEW size \in Sizes, NEW states \in SUBSET States,
             states \cap Large # {} <=> size = "output", sendConfigure(size, states)
      PROVE  Agreement'
  <2>1. windowed' # "output"
    BY <1>2 DEF Agreement, WindowSizeKept
  <2>2. Numbered' /\ SizesFit' /\ DownInOrder' /\ ClientFollows' /\ WindowSizeKept'
    <3>1. sent + 1 \in Serials
      BY AgreeTypes, SerialsProperties, BoundsAreNumbers DEF sendResizing, handleFocusReceived, handleFocusLost
    <3>2. QED
      BY <1>2, <1>3, <2>1, <3>1, SendAgrees
  <2>3. AcksInOrder' /\ AppliedIsTold'
    <3>1. /\ pending \in Seq(Configures) /\ Len(up) \in Nat /\ sent \in Nat
          /\ pending' = Append(pending, [serial |-> sent + 1, states |-> states, size |-> size])
      BY <1>3, AgreeTypes DEF sendConfigure
    <3>2. /\ Len(pending') \in Nat /\ sent + 1 \in Nat /\ sent + 1 > sent
          /\ \A i \in 1..Len(pending') : \/ i \in 1..Len(pending) /\ pending'[i] = pending[i]
                                         \/ pending'[i].serial = sent + 1
      BY <3>1
    <3>3. Len(up') = Len(up) - 0 /\ \A j \in 1..Len(up') : up'[j] = up[j + 0]
      BY <1>2, <3>1
    <3>4. PICK n \in Nat : /\ n > sent /\ Len(pending') \in Nat
                           /\ \A i \in 1..Len(pending') :
                                 \/ i \in 1..Len(pending) /\ pending'[i] = pending[i]
                                 \/ pending'[i].serial = n
      BY <3>2
    <3>5. Len(up') \in Nat /\ 0 \in {0, 1} /\ UNCHANGED <<acked, geometry, client>>
      BY <1>2, <3>1
    <3>6. QED
      BY <3>3, <3>4, <3>5, AcksStay
  <2>4. QED
    BY <2>2, <2>3 DEF Agreement
<1>4. CASE sendResizing
  <2>1. PICK states \in SUBSET States : states \cap Large = {} /\ sendConfigure("window", states)
    BY <1>1, <1>4 DEF sendResizing, sendMode, States, Large
  <2>2. QED
    BY <1>3, <2>1 DEF Sizes
<1>5. CASE handleFocusReceived
  <2>1. CASE "activated" \in lastSentConfigure.states
    BY <1>5, <2>1 DEF handleFocusReceived, Agreement, Numbered, SizesFit, DownInOrder, Ahead,
       Known, ClientFollows, AcksInOrder, AppliedIsTold, WindowSizeKept
  <2>2. CASE "activated" \notin lastSentConfigure.states
    <3>1. (lastSentConfigure.states \cup {"activated"}) \cap Large = lastSentConfigure.states \cap Large
      BY DEF Large
    <3>2. lastSentConfigure.states \cup {"activated"} \in SUBSET States
      BY <1>1 DEF States
    <3>3. QED
      BY <1>1, <1>3, <1>5, <2>2, <3>1, <3>2 DEF handleFocusReceived
  <2>3. QED
    BY <2>1, <2>2
<1>6. CASE handleFocusLost
  <2>1. (lastSentConfigure.states \ {"activated"}) \cap Large = lastSentConfigure.states \cap Large
    BY DEF Large
  <2>2. lastSentConfigure.states \ {"activated"} \in SUBSET States
    BY <1>1
  <2>3. QED
    BY <1>1, <1>3, <1>6, <2>1, <2>2 DEF handleFocusLost
<1>7. QED
  BY <1>4, <1>5, <1>6

\* The client asks for a mode, or for none, and the compositor answers.
LEMMA RequestAgrees ==
  ASSUME TypeInv, Agreement, HandleRequest, set_mode(Head(up)) \/ unset_mode(Head(up))
  PROVE  Agreement'
<1>1. /\ up # <<>> /\ up' = Tail(up) /\ UNCHANGED <<acked, geometry, client>>
      /\ Head(up) = up[1] /\ up[1] \in Asking \cup Acks
      /\ up' \in Seq(Asking \cup Acks)
      /\ Cardinality(AskedIn(up)) \in Nat /\ Cardinality(AskedIn(up')) \in Nat
      /\ Cardinality(AskedIn(up)) = Cardinality(AskedIn(up')) + (IF up[1].type = "ack" THEN 0 ELSE 1)
  BY RequestTaken DEF HandleRequest, set_mode, unset_mode
<1>2. up[1] \in Asking /\ up[1].type # "ack"
  BY <1>1 DEF set_mode, unset_mode, Asking, Acks
<1>3. sent + 1 \in Serials
  <2>1. PICK m \in Nat : m = Cardinality(AskedIn(up')) /\ Cardinality(AskedIn(up)) = m + 1
    BY <1>1, <1>2
  <2>2. /\ sent \in Nat /\ requests \in Nat /\ requests <= MaxRequests
        /\ MaxSerial \in Nat /\ MaxRequests \in Nat
    BY SerialsProperties, BoundsAreNumbers DEF TypeInv, TypeOK
  <2>3. sent + (m + 1) <= MaxSerial + 2 * requests
    BY <2>1 DEF TypeInv, Bounded
  <2>4. QED
    BY <2>1, <2>2, <2>3, SerialsProperties
<1>4. /\ windowed \in Sizes \cup {"none"} /\ windowed # "output" /\ client.normal # "output"
      /\ lastSentConfigure.states \subseteq States /\ Fits(acked, geometry)
  BY LastSentType DEF TypeInv, TypeOK, Agreement, WindowSizeKept, SizesFit, Configures
<1>5. PICK size \in Sizes, states \in SUBSET States :
        /\ states \cap Large # {} <=> size = "output"
        /\ sendConfigure(size, states) /\ windowed' # "output"
  <2>1. CASE set_mode(Head(up))
    <3>1. Head(up).mode \in Large
      BY <1>1, <1>2 DEF Asking
    <3>2. PICK states \in SUBSET States : states \cap Large # {} /\ sendConfigure("output", states)
      BY <1>4, <2>1, <3>1 DEF set_mode, handleSet, sendMode, States
    <3>3. windowed' # "output"
      BY <1>4, <2>1 DEF set_mode, handleSet, Remembered, Fits
    <3>4. QED
      BY <3>2, <3>3 DEF Sizes
  <2>2. CASE unset_mode(Head(up))
    <3>1. windowed' = windowed
      BY <2>2 DEF unset_mode, handleUnset
    <3>2. PICK states \in SUBSET States :
            /\ states \cap Large = {}
            /\ sendConfigure(IF windowed = "none" THEN "free" ELSE windowed, states)
      BY <1>4, <2>2 DEF unset_mode, handleUnset, sendMode, Large
    <3>3. PICK size \in Sizes : /\ size # "output"
                                /\ size = IF windowed = "none" THEN "free" ELSE windowed
      BY <1>4 DEF Sizes
    <3>4. QED
      BY <1>4, <3>1, <3>2, <3>3
  <2>3. QED
    BY <2>1, <2>2
<1>6. Numbered' /\ SizesFit' /\ DownInOrder' /\ ClientFollows' /\ WindowSizeKept'
  BY <1>1, <1>3, <1>5, SendAgrees
<1>7. AcksInOrder' /\ AppliedIsTold'
  <2>1. /\ pending \in Seq(Configures) /\ sent \in Nat /\ up \in Seq(Asking \cup Acks)
        /\ pending' = Append(pending, [serial |-> sent + 1, states |-> states, size |-> size])
    BY <1>5, AgreeTypes DEF sendConfigure
  <2>2. /\ Len(pending') \in Nat /\ sent + 1 \in Nat /\ sent + 1 > sent
        /\ \A i \in 1..Len(pending') : \/ i \in 1..Len(pending) /\ pending'[i] = pending[i]
                                       \/ pending'[i].serial = sent + 1
    BY <2>1
  <2>3. PICK n \in Nat : /\ n > sent /\ Len(pending') \in Nat
                         /\ \A i \in 1..Len(pending') :
                               \/ i \in 1..Len(pending) /\ pending'[i] = pending[i]
                               \/ pending'[i].serial = n
    BY <2>2
  <2>4. /\ Len(up) > 0 /\ Len(up') = Len(up) - 1 /\ Len(up') \in Nat
        /\ \A j \in 1..Len(up') : up'[j] = up[j + 1]
    BY <1>1, <2>1
  <2>5. QED
    BY <1>1, <1>2, <2>3, <2>4, AcksStay
<1>8. QED
  BY <1>6, <1>7 DEF Agreement

\* The oldest acknowledgement is taken: the configures before it are forgotten,
\* and the client works on none of them.
LEMMA AckAgrees ==
  ASSUME TypeInv, Agreement, HandleRequest, ack_configure(Head(up))
  PROVE  Agreement'
<1>1. /\ up # <<>> /\ up' = Tail(up) /\ client' = client /\ Head(up) = up[1]
      /\ up[1].type = "ack" /\ handleAckConfigure(up[1].serial) /\ geometry' = up[1].size
      /\ UNCHANGED <<windowed, sent, down>>
  BY RequestTaken DEF HandleRequest, ack_configure
<1>2. PICK n \in Nat : /\ n = Len(up) /\ n > 0 /\ Len(up') = n - 1
                       /\ \A j \in 1..(n - 1) : up'[j] = up[j + 1]
  <2>1. up \in Seq(Asking \cup Acks)
    BY AgreeTypes
  <2>2. QED
    BY <1>1, <2>1
<1>3. PICK s \in Nat, z \in Sizes : up[1].serial = s /\ up[1].size = z
  BY <1>1, <1>2, AgreeTypes
<1>4. PICK a \in Nat, b \in Nat, p \in Nat, len \in Nat :
        /\ a = acked.serial /\ b = client.applied.serial /\ p = client.pending.serial
        /\ len = Len(pending)
  BY AgreeTypes
<1>5. /\ a < s /\ s <= b /\ b <= p /\ p <= sent /\ sent = a + len
      /\ \A i \in 1..len : pending[i].serial = a + i
      /\ \A i \in 1..len : pending[i].serial = s => Fits(pending[i], z)
      /\ \A l \in 1..n : up[l].type = "ack" /\ 1 < l => s < up[l].serial
  <2>1. /\ a < s /\ s <= b
        /\ \A i \in 1..len : pending[i].serial = s => Fits(pending[i], z)
        /\ \A l \in 1..n : up[l].type = "ack" /\ 1 < l => s < up[l].serial
    BY <1>1, <1>2, <1>3, <1>4 DEF Agreement, AcksInOrder
  <2>2. b <= p /\ p <= sent
    BY <1>4, ClientSerials
  <2>3. QED
    BY <1>4, <2>1, <2>2 DEF Agreement, Numbered
<1>6. PICK i \in 1..len :
        /\ s = a + i /\ acked' = pending[i] /\ pending[i].serial = s
        /\ Len(pending') = len - i
        /\ \A j \in 1..(len - i) : pending'[j] = pending[i + j]
  <2>1. s - a \in 1..len /\ a + (s - a) = s
    BY <1>5
  <2>2. pending[s - a].serial = s
    BY <1>5, <2>1
  <2>3. PICK serial : serial = s /\ handleAckConfigure(serial)
    BY <1>1, <1>3
  <2>4. PICK i \in 1..Len(pending) :
          /\ pending[i].serial = serial /\ acked' = pending[i]
          /\ Len(pending') = Len(pending) - i
          /\ \A j \in 1..(Len(pending) - i) : pending'[j] = pending[i + j]
    <3>1. TypeOK
      BY DEF TypeInv
    <3>2. ~ \A j \in 1..Len(pending) : pending[j].serial # serial
      BY <1>4, <2>1, <2>2, <2>3
    <3>3. QED
      BY <2>3, <3>1, <3>2, AckEffects
  <2>5. QED
    BY <1>4, <1>5, <2>3, <2>4
<1>7. ASSUME NEW conf \in Known, NEW m \in Nat, m = conf.serial, s <= m
      PROVE  conf \in Known'
  <2>1. m - a \in 1..len /\ conf = pending[m - a]
    BY <1>4, <1>5, <1>7, KnownConfigure DEF Agreement
  <2>2. CASE m = s
    BY <1>6, <2>1, <2>2 DEF Known
  <2>3. CASE m # s
    <3>1. PICK k \in 1..(len - i) : i + k = m - a
      <4>1. s < m
        <5>1. s <= m
          BY <1>7
        <5>2. QED
          BY <2>3, <5>1
      <4>2. s = a + i /\ m - a <= len
        BY <1>6, <2>1
      <4>3. (m - a) - i \in 1..(len - i) /\ i + ((m - a) - i) = m - a
        BY <4>1, <4>2
      <4>4. QED
        BY <4>3
    <3>2. pending'[k] = conf
      BY <1>6, <2>1, <3>1
    <3>3. QED
      BY <1>6, <3>1, <3>2 DEF Known
  <2>4. QED
    BY <2>2, <2>3
<1>8. Numbered'
  <2>1. sent = s + (len - i)
    BY <1>5, <1>6
  <2>2. \A j \in 1..(len - i) : pending'[j].serial = s + j
    BY <1>5, <1>6
  <2>3. QED
    BY <1>1, <1>6, <2>1, <2>2 DEF Numbered
<1>9. SizesFit'
  <2>1. Fits(acked', acked'.size) /\ Fits(acked', geometry')
    <3>1. Fits(pending[i], pending[i].size) /\ Fits(pending[i], z)
      BY <1>4, <1>5, <1>6 DEF Agreement, SizesFit
    <3>2. QED
      BY <1>1, <1>3, <1>6, <3>1 DEF Fits
  <2>2. \A j \in 1..(len - i) : Fits(pending'[j], pending'[j].size)
    <3>1. ASSUME NEW j \in 1..(len - i) PROVE Fits(pending'[j], pending'[j].size)
      <4>1. i + j \in 1..len
        BY <1>6
      <4>2. Fits(pending[i + j], pending[i + j].size)
        BY <1>4, <4>1 DEF Agreement, SizesFit
      <4>3. QED
        BY <1>6, <4>2 DEF Fits
    <3>2. QED
      BY <3>1
  <2>3. QED
    BY <1>1, <1>6, <2>1, <2>2 DEF Agreement, SizesFit, Fits
<1>10. DownInOrder'
  <2>1. ASSUME NEW j \in 1..Len(down) PROVE down[j].conf \in Known'
    <3>1. PICK m \in Nat, h \in {0, 1} : m = down[j].conf.serial /\ h = Ahead
      BY AgreeTypes DEF Ahead
    <3>2. /\ down[j].conf \in Known
          /\ 2 * (m - p) + (IF down[j].role = "surface" THEN 1 ELSE 0) = j + h
      BY <1>4, <3>1 DEF Agreement, DownInOrder
    <3>3. j \in Nat /\ j >= 1
      BY AgreeTypes
    <3>4. s <= m
      <4>1. s <= p
        BY <1>5
      <4>2. 2 * (m - p) + 1 = j + h \/ 2 * (m - p) + 0 = j + h
        BY <3>2
      <4>3. QED
        BY <3>3, <4>1, <4>2
    <3>5. QED
      BY <1>7, <3>1, <3>2, <3>4
  <2>2. QED
    BY <1>1, <2>1 DEF Agreement, DownInOrder, Ahead
<1>11. ClientFollows'
  <2>1. client.pending \in Known' /\ client.applied \in Known'
    <3>1. client.pending \in Known /\ client.applied \in Known /\ s <= p
      BY <1>5 DEF Agreement, ClientFollows
    <3>2. QED
      BY <1>4, <1>5, <1>7, <3>1
  <2>2. QED
    BY <1>1, <2>1 DEF Agreement, ClientFollows
<1>12. AcksInOrder'
  <2>1. ASSUME NEW j \in 1..(n - 1), up'[j].type = "ack"
        PROVE  /\ acked'.serial < up'[j].serial /\ up'[j].serial <= client'.applied.serial
               /\ \A k \in 1..(len - i) :
                     pending'[k].serial = up'[j].serial => Fits(pending'[k], up'[j].size)
               /\ \A l \in 1..(n - 1) :
                     up'[l].type = "ack" /\ j < l => up'[j].serial < up'[l].serial
    <3>1. PICK g \in 1..n : g = j + 1 /\ up'[j] = up[g] /\ up[g].type = "ack" /\ 1 < g
      BY <1>2, <2>1
    <3>2. /\ up[g].serial <= client.applied.serial
          /\ \A k \in 1..len : pending[k].serial = up[g].serial => Fits(pending[k], up[g].size)
          /\ \A l \in 1..n : up[l].type = "ack" /\ g < l => up[g].serial < up[l].serial
      BY <1>2, <1>4, <3>1 DEF Agreement, AcksInOrder
    <3>3. s < up[g].serial
      BY <1>5, <3>1
    <3>4. ASSUME NEW k \in 1..(len - i), pending'[k].serial = up'[j].serial
          PROVE  Fits(pending'[k], up'[j].size)
      <4>1. i + k \in 1..len /\ pending'[k] = pending[i + k]
        BY <1>6
      <4>2. QED
        BY <3>1, <3>2, <3>4, <4>1
    <3>5. ASSUME NEW l \in 1..(n - 1), up'[l].type = "ack", j < l
          PROVE  up'[j].serial < up'[l].serial
      <4>1. l + 1 \in 1..n /\ up'[l] = up[l + 1] /\ g < l + 1
        BY <1>2, <3>1, <3>5
      <4>2. QED
        BY <3>1, <3>2, <3>5, <4>1
    <3>6. QED
      BY <1>1, <1>6, <3>1, <3>2, <3>3, <3>4, <3>5
  <2>2. QED
    BY <1>2, <1>6, <2>1 DEF AcksInOrder
<1>13. AppliedIsTold'
  <2>1. PICK k \in 1..n : /\ up[k].type = "ack" /\ up[k].serial = client.applied.serial
                          /\ up[k].size = client.size
    <3>1. 1 \in 1..Len(up)
      BY <1>2
    <3>2. QED
      BY <1>1, <1>2, <3>1 DEF Agreement, AppliedIsTold
  <2>2. CASE k = 1
    <3>1. s = b /\ z = client.size
      BY <1>3, <1>4, <2>1, <2>2
    <3>2. ASSUME NEW j \in 1..(n - 1) PROVE up'[j].type # "ack"
      <4>1. j + 1 \in 1..n /\ 1 < j + 1 /\ up'[j] = up[j + 1]
        BY <1>2
      <4>2. SUFFICES ASSUME up[j + 1].type = "ack" PROVE FALSE
        BY <4>1
      <4>3. PICK t \in Nat : t = up[j + 1].serial
        BY <1>2, <4>1, <4>2, AgreeTypes
      <4>4. s < t
        BY <1>5, <4>1, <4>2, <4>3
      <4>5. t <= b
        BY <1>2, <1>4, <4>1, <4>2, <4>3 DEF Agreement, AcksInOrder
      <4>6. QED
        BY <3>1, <4>4, <4>5
    <3>3. acked'.serial = client'.applied.serial /\ geometry' = client'.size
      BY <1>1, <1>3, <1>4, <1>6, <3>1
    <3>4. QED
      BY <1>2, <3>2, <3>3 DEF AppliedIsTold
  <2>3. CASE k # 1
    <3>1. k - 1 \in 1..(n - 1) /\ (k - 1) + 1 = k
      BY <2>3
    <3>2. up'[k - 1] = up[k]
      BY <1>2, <3>1
    <3>3. QED
      BY <1>1, <1>2, <2>1, <3>1, <3>2 DEF AppliedIsTold
  <2>4. QED
    BY <2>2, <2>3
<1>14. WindowSizeKept'
  BY <1>1 DEF Agreement, WindowSizeKept
<1>15. QED
  BY <1>8, <1>9, <1>10, <1>11, <1>12, <1>13, <1>14 DEF Agreement

\* The next event completes the client's pending configure, or starts the one after it.
LEMMA NextEvent ==
  ASSUME TypeInv, Agreement, down # <<>>
  PROVE  /\ Head(down).conf \in Known
         /\ Head(down).role = "toplevel" =>
               ~client.half /\ Head(down).conf.serial = client.pending.serial + 1
         /\ Head(down).role = "surface" =>
               client.half /\ Head(down).conf.serial = client.pending.serial
<1>1. 1 \in 1..Len(down) /\ Head(down) = down[1]
  BY EventTaken, AgreeTypes
<1>2. PICK m \in Nat, p \in Nat, h \in {0, 1} :
        m = down[1].conf.serial /\ p = client.pending.serial /\ h = Ahead
  BY <1>1, AgreeTypes DEF Ahead
<1>3. /\ down[1].conf \in Known
      /\ 2 * (m - p) + (IF down[1].role = "surface" THEN 1 ELSE 0) = 1 + h
  BY <1>1, <1>2 DEF Agreement, DownInOrder
<1>4. CASE down[1].role = "surface"
  <2>1. 2 * (m - p) + 1 = 1 + h
    BY <1>3, <1>4
  <2>2. h = 0 /\ m = p
    BY <2>1
  <2>3. client.half
    BY <1>2, <2>2 DEF Ahead
  <2>4. QED
    BY <1>1, <1>2, <1>3, <1>4, <2>2, <2>3
<1>5. CASE down[1].role # "surface"
  <2>1. 2 * (m - p) + 0 = 1 + h
    BY <1>3, <1>5
  <2>2. h = 1 /\ m = p + 1
    BY <2>1
  <2>3. ~client.half
    BY <1>2, <2>2 DEF Ahead
  <2>4. QED
    BY <1>1, <1>2, <1>3, <1>5, <2>2, <2>3
<1>6. QED
  BY <1>4, <1>5

LEMMA DownMoves ==
  ASSUME TypeInv, Agreement, down # <<>>, down' = Tail(down), UNCHANGED compositor,
         \/ /\ ~client.half /\ client'.half
            /\ client'.pending.serial = client.pending.serial + 1
         \/ client.half /\ ~client'.half /\ client'.pending = client.pending
  PROVE  DownInOrder'
<1>1. PICK n \in Nat : /\ n = Len(down) /\ n > 0 /\ Len(down') = n - 1
                       /\ \A j \in 1..(n - 1) : down'[j] = down[j + 1]
  <2>1. down \in Seq(Events)
    BY AgreeTypes
  <2>2. QED
    BY <2>1
<1>2. PICK s \in Nat, p \in Nat, h \in {0, 1} :
        s = sent /\ p = client.pending.serial /\ h = Ahead
  BY AgreeTypes DEF Ahead
<1>3. PICK q \in Nat, g \in {0, 1} :
        q = client'.pending.serial /\ g = Ahead' /\ 2 * q + g = 2 * p + h + 1
  <2>1. CASE ~client.half /\ client'.half /\ client'.pending.serial = client.pending.serial + 1
    <3>1. h = 1 /\ Ahead' = 0 /\ client'.pending.serial = p + 1
      BY <1>2, <2>1 DEF Ahead
    <3>2. p + 1 \in Nat /\ 2 * (p + 1) + 0 = 2 * p + 1 + 1
      OBVIOUS
    <3>3. QED
      BY <3>1, <3>2
  <2>2. CASE client.half /\ ~client'.half /\ client'.pending = client.pending
    <3>1. h = 0 /\ Ahead' = 1 /\ client'.pending.serial = p
      BY <1>2, <2>2 DEF Ahead
    <3>2. 2 * p + 1 = 2 * p + 0 + 1
      OBVIOUS
    <3>3. QED
      BY <3>1, <3>2
  <2>3. QED
    BY <2>1, <2>2
<1>4. Known' = Known /\ sent' = s
  BY <1>2 DEF Known, compositor
<1>5. /\ n + h = 2 * (s - p) + 1
      /\ \A j \in 1..n : /\ down[j].conf \in Known
                         /\ 2 * (down[j].conf.serial - p)
                              + (IF down[j].role = "surface" THEN 1 ELSE 0) = j + h
  BY <1>1, <1>2 DEF Agreement, DownInOrder
<1>6. (n - 1) + g = 2 * (s - q) + 1
  <2>1. 2 * q + g = 2 * p + h + 1 /\ n + h = 2 * (s - p) + 1
    BY <1>3, <1>5
  <2>2. n + h = 2 * s - 2 * p + 1 /\ 2 * (s - q) = 2 * s - 2 * q
    BY <2>1
  <2>3. QED
    BY <2>1, <2>2
<1>7. ASSUME NEW j \in 1..(n - 1)
      PROVE  /\ down'[j].conf \in Known
             /\ 2 * (down'[j].conf.serial - q)
                  + (IF down'[j].role = "surface" THEN 1 ELSE 0) = j + g
  <2>1. j + 1 \in 1..n /\ down'[j] = down[j + 1] /\ j \in Nat
    BY <1>1
  <2>2. PICK m \in Nat, r \in {0, 1} : /\ m = down'[j].conf.serial
                                       /\ r = IF down'[j].role = "surface" THEN 1 ELSE 0
    BY <1>1, <2>1, AgreeTypes
  <2>3. 2 * (m - p) + r = (j + 1) + h
    BY <1>5, <2>1, <2>2
  <2>4. 2 * (m - q) + r = j + g
    <3>1. 2 * q + g = 2 * p + h + 1 /\ j \in Nat
      BY <1>3, <2>1
    <3>2. 2 * m - 2 * p + r = j + 1 + h /\ 2 * (m - q) = 2 * m - 2 * q
      BY <2>3
    <3>3. QED
      BY <3>1, <3>2
  <2>5. QED
    BY <1>5, <2>1, <2>2, <2>4
<1>8. QED
  BY <1>1, <1>3, <1>4, <1>6, <1>7 DEF DownInOrder

\* What was applied, and what was told of it, is as it was.
LEMMA NothingTold ==
  ASSUME Agreement, UNCHANGED <<compositor, up>>, client'.applied = client.applied,
         client'.size = client.size, client'.normal = client.normal
  PROVE  Numbered' /\ SizesFit' /\ AcksInOrder' /\ AppliedIsTold' /\ WindowSizeKept' /\ Known' = Known
BY DEF Agreement, Numbered, SizesFit, AcksInOrder, AppliedIsTold, WindowSizeKept, Known, compositor

\* The client applies its pending configure and acknowledges it.
LEMMA ApplyTells ==
  ASSUME TypeInv, Agreement, NEW c \in Clients, Applied(c, client.pending.serial),
         client.applied.serial < client.pending.serial, UNCHANGED compositor
  PROVE  Numbered' /\ SizesFit' /\ AcksInOrder' /\ AppliedIsTold' /\ WindowSizeKept' /\ Known' = Known
<1>1. PICK a \in Nat, b \in Nat, p \in Nat, n \in Nat, len \in Nat, z \in Sizes :
        /\ a = acked.serial /\ b = client.applied.serial /\ p = client.pending.serial
        /\ n = Len(up) /\ len = Len(pending) /\ z = NewSize
  <2>1. NewSize \in Sizes
    BY AppliedEffects, AgreeTypes, TypeParts DEF TypeInv, Clients, Configures
  <2>2. QED
    BY <2>1, AgreeTypes
<1>2. a <= b /\ b < p
  BY <1>1, ClientSerials
<1>3. /\ client'.applied = client.pending /\ client'.size = z /\ client'.normal = NormalSize
      /\ up' = Append(up, [type |-> "ack", serial |-> p, size |-> z])
  <2>1. client.pending.serial \in Serials
    BY AgreeTypes DEF Clients, Configures
  <2>2. QED
    BY <1>1, <2>1, AppliedEffects
<1>4. /\ Len(up') = n + 1 /\ up'[n + 1].type = "ack" /\ up'[n + 1].serial = p
      /\ up'[n + 1].size = z /\ \A j \in 1..n : up'[j] = up[j]
  <2>1. up \in Seq(Asking \cup Acks)
    BY AgreeTypes
  <2>2. QED
    BY <1>1, <1>3, <2>1
<1>5. NormalSize # "output"
  BY DEF NormalSize, Agreement, SizesFit, WindowSizeKept, Fits
<1>6. Fits(client.pending, client.pending.size)
  <2>1. client.pending \in Known
    BY DEF Agreement, ClientFollows
  <2>2. \A conf \in Known : Fits(conf, conf.size)
    BY DEF Agreement, SizesFit, Known
  <2>3. QED
    BY <2>1, <2>2
<1>7. Fits(client.pending, z)
  BY <1>1, <1>5, <1>6 DEF NewSize, Fits
<1>8. \A i \in 1..len : pending[i].serial = p => pending[i] = client.pending
  <2>1. client.pending \in Known
    BY DEF Agreement, ClientFollows
  <2>2. p - a \in 1..len /\ client.pending = pending[p - a]
    BY <1>1, <1>2, <2>1, KnownConfigure DEF Agreement
  <2>3. ASSUME NEW i \in 1..len, pending[i].serial = p PROVE i = p - a
    <3>1. pending[i].serial = a + i
      BY <1>1 DEF Agreement, Numbered
    <3>2. QED
      BY <2>3, <3>1
  <2>4. QED
    BY <2>2, <2>3
<1>9. /\ pending' = pending /\ acked' = acked /\ sent' = sent /\ geometry' = geometry
      /\ windowed' = windowed /\ Known' = Known
  BY DEF compositor, Known
<1>10. Numbered' /\ SizesFit' /\ WindowSizeKept'
  <2>1. Numbered' /\ WindowSizeKept'
    BY <1>3, <1>5, <1>9 DEF Agreement, Numbered, WindowSizeKept
  <2>2. SizesFit'
    BY <1>3, <1>7, <1>9 DEF Agreement, SizesFit, Fits
  <2>3. QED
    BY <2>1, <2>2
<1>11. AcksInOrder'
  <2>1. ASSUME NEW j \in 1..(n + 1), up'[j].type = "ack"
        PROVE  /\ acked.serial < up'[j].serial /\ up'[j].serial <= p
               /\ \A i \in 1..len : pending[i].serial = up'[j].serial => Fits(pending[i], up'[j].size)
               /\ \A l \in 1..(n + 1) :
                     up'[l].type = "ack" /\ j < l => up'[j].serial < up'[l].serial
    <3>1. CASE j = n + 1
      <4>1. \A i \in 1..len : pending[i].serial = p => Fits(pending[i], z)
        BY <1>7, <1>8
      <4>2. \A l \in 1..(n + 1) : ~(j < l)
        BY <3>1
      <4>3. QED
        BY <1>1, <1>2, <1>4, <3>1, <4>1, <4>2
    <3>2. CASE j \in 1..n
      <4>1. up'[j] = up[j] /\ up[j].type = "ack"
        BY <1>4, <2>1, <3>2
      <4>2. PICK t \in Nat : t = up[j].serial
        BY <1>1, <3>2, <4>1, AgreeTypes
      <4>3. /\ a < t /\ t <= b
            /\ \A i \in 1..len : pending[i].serial = t => Fits(pending[i], up[j].size)
            /\ \A l \in 1..n : up[l].type = "ack" /\ j < l => t < up[l].serial
        BY <1>1, <3>2, <4>1, <4>2 DEF Agreement, AcksInOrder
      <4>4. t < p
        BY <1>2, <4>3
      <4>5. \A l \in 1..(n + 1) : up'[l].type = "ack" /\ j < l => t < up'[l].serial
        <5>1. \A l \in 1..n : up'[l].type = "ack" /\ j < l => t < up'[l].serial
          BY <1>4, <4>3
        <5>2. QED
          BY <1>4, <4>4, <5>1
      <4>6. QED
        BY <1>1, <4>1, <4>2, <4>3, <4>4, <4>5
    <3>3. QED
      BY <3>1, <3>2
  <2>2. client'.applied.serial = p
    BY <1>1, <1>3
  <2>3. QED
    BY <1>1, <1>4, <1>9, <2>1, <2>2 DEF AcksInOrder
<1>12. AppliedIsTold'
  <2>1. n + 1 \in 1..Len(up') /\ client'.applied.serial = p
    BY <1>1, <1>3, <1>4
  <2>2. QED
    BY <1>3, <1>4, <2>1 DEF AppliedIsTold
<1>13. QED
  BY <1>9, <1>10, <1>11, <1>12

LEMMA ToplevelAgrees ==
  ASSUME TypeInv, Agreement, ~Threaded, xdg_toplevel_configure
  PROVE  Agreement'
<1>1. /\ down # <<>> /\ Head(down).role = "toplevel" /\ ~client.applying
      /\ client' = [client EXCEPT !.pending = Head(down).conf, !.half = TRUE]
      /\ down' = Tail(down) /\ UNCHANGED <<compositor, up, requests>>
  BY DEF xdg_toplevel_configure
<1>2. PICK conf \in Known : /\ conf = Head(down).conf /\ ~client.half
                            /\ conf.serial = client.pending.serial + 1
  BY <1>1, NextEvent
<1>3. /\ client'.pending = conf /\ client'.half
      /\ client'.serial = client.serial /\ client'.configured = client.configured
      /\ client'.waiting = client.waiting /\ client'.applying = client.applying
      /\ client'.blocked = client.blocked /\ client'.applied = client.applied
      /\ client'.size = client.size /\ client'.normal = client.normal
  BY <1>1, <1>2, AgreeTypes DEF Clients
<1>4. Numbered' /\ SizesFit' /\ AcksInOrder' /\ AppliedIsTold' /\ WindowSizeKept' /\ Known' = Known
  BY <1>1, <1>3, NothingTold
<1>5. DownInOrder'
  BY <1>1, <1>2, <1>3, DownMoves
<1>6. client.applied.serial < conf.serial
  <2>1. client.applied.serial <= client.pending.serial
    BY ClientSerials
  <2>2. client.applied.serial \in Nat /\ client.pending.serial \in Nat
    BY AgreeTypes
  <2>3. QED
    BY <1>2, <2>1, <2>2
<1>7. ClientFollows'
  BY <1>1, <1>2, <1>3, <1>4, <1>6 DEF Agreement, ClientFollows
<1>8. QED
  BY <1>4, <1>5, <1>7 DEF Agreement

LEMMA SurfaceAgrees ==
  ASSUME TypeInv, Agreement, ~Threaded, xdg_surface_configure
  PROVE  Agreement'
<1>1. /\ down # <<>> /\ Head(down).role = "surface" /\ ~client.applying
      /\ down' = Tail(down) /\ UNCHANGED compositor
  BY DEF xdg_surface_configure
<1>2. client.half /\ Head(down).conf.serial = client.pending.serial
  BY <1>1, NextEvent
<1>3. /\ client.applied.serial < client.pending.serial /\ client.serial \in Nat
      /\ client.pending.serial \in Nat /\ client.applied.serial \in Nat /\ client \in Clients
      /\ client.pending \in Known /\ ~client.blocked /\ (client.waiting => client.configured)
  BY <1>1, <1>2, AgreeTypes DEF Agreement, ClientFollows
<1>4. CASE ~client.configured /\ Applied([client EXCEPT !.half = FALSE], Head(down).conf.serial)
  <2>1. PICK c \in Clients : /\ c = [client EXCEPT !.half = FALSE]
                             /\ Applied(c, client.pending.serial)
    <3>1. [client EXCEPT !.half = FALSE] \in Clients
      BY <1>3 DEF Clients
    <3>2. QED
      BY <1>2, <1>4, <3>1
  <2>2. Numbered' /\ SizesFit' /\ AcksInOrder' /\ AppliedIsTold' /\ WindowSizeKept' /\ Known' = Known
    BY <1>1, <1>3, <2>1, ApplyTells
  <2>3. /\ client'.applied = client.pending /\ client'.pending = client.pending /\ ~client'.half
        /\ client'.waiting = client.waiting /\ client'.applying = client.applying
        /\ client'.blocked = client.blocked /\ client'.configured
    <3>1. /\ c.pending = client.pending /\ ~c.half /\ c.waiting = client.waiting
          /\ c.applying = client.applying /\ c.blocked = client.blocked
      BY <1>3, <2>1 DEF Clients
    <3>2. client.pending.serial \in Serials
      BY <1>3 DEF Clients, Configures
    <3>3. QED
      BY <2>1, <3>1, <3>2, AppliedEffects
  <2>4. DownInOrder'
    BY <1>1, <1>2, <2>3, DownMoves
  <2>5. ClientFollows'
    BY <1>1, <1>3, <1>4, <2>2, <2>3 DEF ClientFollows
  <2>6. QED
    BY <2>2, <2>4, <2>5 DEF Agreement
<1>5. CASE /\ client.configured
           /\ client' = [client EXCEPT !.serial = Head(down).conf.serial, !.half = FALSE,
                                       !.waiting = TRUE, !.blocked = client.applying]
           /\ UNCHANGED up
  <2>1. /\ client'.pending = client.pending /\ ~client'.half
        /\ client'.serial = client.pending.serial /\ client'.configured
        /\ client'.waiting /\ ~client'.applying /\ ~client'.blocked
        /\ client'.applied = client.applied /\ client'.size = client.size
        /\ client'.normal = client.normal
    BY <1>1, <1>2, <1>3, <1>5 DEF Clients
  <2>2. Numbered' /\ SizesFit' /\ AcksInOrder' /\ AppliedIsTold' /\ WindowSizeKept' /\ Known' = Known
    BY <1>1, <1>5, <2>1, NothingTold
  <2>3. DownInOrder'
    BY <1>1, <1>2, <2>1, DownMoves
  <2>4. client.pending.serial # 0
    BY <1>3
  <2>5. ClientFollows'
    BY <1>3, <2>1, <2>2, <2>4 DEF Agreement, ClientFollows
  <2>6. QED
    BY <2>2, <2>3, <2>5 DEF Agreement
<1>6. QED
  BY <1>4, <1>5 DEF xdg_surface_configure

LEMMA ApplyAgrees ==
  ASSUME TypeInv, Agreement, ~Threaded, applyConfigure
  PROVE  Agreement'
<1>1. /\ client.waiting /\ ~client.applying /\ ~client.half
      /\ Applied([client EXCEPT !.applying = TRUE], client.serial)
      /\ UNCHANGED <<compositor, down, requests>>
  BY DEF applyConfigure, MayApply
<1>2. /\ client.serial = client.pending.serial /\ client \in Clients
      /\ client.applied.serial < client.pending.serial /\ client.pending \in Known
      /\ ~client.blocked /\ client.configured
  BY <1>1, AgreeTypes DEF Agreement, ClientFollows
<1>3. PICK c \in Clients : /\ c = [client EXCEPT !.applying = TRUE]
                           /\ Applied(c, client.pending.serial)
  <2>1. [client EXCEPT !.applying = TRUE] \in Clients
    BY <1>2 DEF Clients
  <2>2. QED
    BY <1>1, <1>2, <2>1
<1>4. Numbered' /\ SizesFit' /\ AcksInOrder' /\ AppliedIsTold' /\ WindowSizeKept' /\ Known' = Known
  BY <1>1, <1>2, <1>3, ApplyTells
<1>5. /\ client'.applied = client.pending /\ client'.pending = client.pending /\ ~client'.half
      /\ client'.applying /\ ~client'.blocked /\ client'.configured
  <2>1. c.pending = client.pending /\ ~c.half /\ c.applying /\ ~c.blocked
    BY <1>1, <1>2, <1>3 DEF Clients
  <2>2. client.pending.serial \in Serials
    BY <1>2 DEF Clients, Configures
  <2>3. QED
    BY <1>3, <2>1, <2>2, AppliedEffects
<1>6. DownInOrder'
  <2>1. client'.half = client.half
    BY <1>1, <1>3, <1>5, AppliedEffects DEF Clients
  <2>2. QED
    BY <1>1, <1>4, <1>5 DEF Agreement, DownInOrder, Ahead, compositor
<1>7. ClientFollows'
  BY <1>2, <1>4, <1>5 DEF ClientFollows
<1>8. QED
  BY <1>4, <1>6, <1>7 DEF Agreement

LEMMA FinishAgrees ==
  ASSUME TypeInv, Agreement, FinishApply
  PROVE  Agreement'
<1>1. /\ client.applying /\ client \in Clients
      /\ client' = [client EXCEPT !.applying = FALSE, !.serial = 0,
                                  !.waiting = client.blocked, !.blocked = FALSE]
      /\ UNCHANGED <<compositor, down, up, requests>>
  BY AgreeTypes DEF FinishApply
<1>2. /\ client.applied = client.pending /\ ~client.half /\ ~client.blocked
      /\ client.pending \in Known
  BY <1>1 DEF Agreement, ClientFollows
<1>3. /\ client'.pending = client.pending /\ client'.half = client.half
      /\ ~client'.waiting /\ ~client'.applying /\ ~client'.blocked
      /\ client'.applied = client.applied /\ client'.size = client.size
      /\ client'.normal = client.normal
  BY <1>1, <1>2 DEF Clients
<1>4. Numbered' /\ SizesFit' /\ AcksInOrder' /\ AppliedIsTold' /\ WindowSizeKept' /\ Known' = Known
  BY <1>1, <1>3, NothingTold
<1>5. DownInOrder'
  BY <1>1, <1>3, <1>4 DEF Agreement, DownInOrder, Ahead, compositor
<1>6. ClientFollows'
  BY <1>2, <1>3, <1>4 DEF ClientFollows
<1>7. QED
  BY <1>4, <1>5, <1>6 DEF Agreement

\* What is queued behind the acknowledgements is none.
LEMMA AskAgrees ==
  ASSUME TypeInv, Agreement, NEW states \in SUBSET Large, requestWindowStates(states)
  PROVE  Agreement'
<1>1. PICK n \in Nat, k \in Nat :
        /\ n = Len(up) /\ k = Len(up') /\ n <= k /\ \A j \in 1..n : up'[j] = up[j]
        /\ \A j \in 1..k : j > n => up'[j].type # "ack"
  <2>1. Len(up) \in Nat /\ Len(up') \in Nat
    BY AskEffects, AgreeTypes
  <2>2. QED
    BY <2>1, AskEffects
<1>2. /\ pending' = pending /\ acked' = acked /\ sent' = sent /\ geometry' = geometry
      /\ windowed' = windowed /\ client' = client /\ down' = down
  BY DEF requestWindowStates, compositor
<1>3. Numbered' /\ SizesFit' /\ DownInOrder' /\ ClientFollows' /\ WindowSizeKept'
  BY <1>2 DEF Agreement, Numbered, SizesFit, DownInOrder, Ahead, ClientFollows, Known, WindowSizeKept
<1>4. \A j \in 1..k : up'[j].type = "ack" => j \in 1..n /\ up'[j] = up[j]
  BY <1>1
<1>5. AcksInOrder'
  BY <1>1, <1>2, <1>4 DEF Agreement, AcksInOrder
<1>6. AppliedIsTold'
  <2>1. CASE /\ \A j \in 1..n : up[j].type # "ack"
             /\ acked.serial = client.applied.serial /\ geometry = client.size
    <3>1. \A j \in 1..k : up'[j].type # "ack"
      BY <1>4, <2>1
    <3>2. QED
      BY <1>1, <1>2, <2>1, <3>1 DEF AppliedIsTold
  <2>2. ASSUME NEW j \in 1..n, up[j].type = "ack", up[j].serial = client.applied.serial,
               up[j].size = client.size
        PROVE  AppliedIsTold'
    <3>1. j \in 1..k /\ up'[j] = up[j]
      BY <1>1
    <3>2. QED
      BY <1>1, <1>2, <2>2, <3>1 DEF AppliedIsTold
  <2>3. QED
    BY <1>1, <2>1, <2>2 DEF Agreement, AppliedIsTold
<1>7. QED
  BY <1>3, <1>5, <1>6 DEF Agreement

LEMMA AgreeInit == Init => Agreement
<1> SUFFICES ASSUME Init PROVE Agreement
  OBVIOUS
<1>1. /\ Len(pending) = 1 /\ pending[1] = First /\ acked = Unset /\ sent = 1
      /\ Len(down) = 2 /\ down[1] = [conf |-> First, role |-> "toplevel"]
      /\ down[2] = [conf |-> First, role |-> "surface"] /\ Len(up) = 0
      /\ windowed = "none" /\ geometry = "window"
  BY DEF Init, Event
<1>2. /\ client.pending = Unset /\ ~client.half /\ ~client.waiting /\ ~client.applying
      /\ ~client.blocked /\ client.applied = Unset /\ client.normal = "none"
      /\ client.size = "window"
  BY DEF Init
<1>3. /\ First.serial = 1 /\ First.states = {} /\ First.size = "free"
      /\ Unset.serial = 0 /\ Unset.states = {} /\ Unset.size = "free"
  BY DEF First, Unset
<1>4. 1..1 = {1} /\ 1..2 = {1, 2} /\ 1..0 = {}
  OBVIOUS
<1>5. First \in Known /\ Unset \in Known
  BY <1>1, <1>4 DEF Known
<1>6. Numbered
  BY <1>1, <1>3, <1>4 DEF Numbered
<1>7. SizesFit
  BY <1>1, <1>2, <1>3, <1>4 DEF SizesFit, Fits
<1>8. DownInOrder
  <2>1. Ahead = 1 /\ 2 + 1 = 2 * (1 - 0) + 1
    BY <1>2 DEF Ahead
  <2>2. \A j \in {1, 2} : /\ down[j].conf = First
                          /\ (IF down[j].role = "surface" THEN 1 ELSE 0) = j - 1
    BY <1>1
  <2>3. \A j \in {1, 2} : 2 * (1 - 0) + (j - 1) = j + 1
    OBVIOUS
  <2>4. QED
    BY <1>1, <1>2, <1>3, <1>4, <1>5, <2>1, <2>2, <2>3 DEF DownInOrder
<1>9. ClientFollows
  BY <1>2, <1>5 DEF ClientFollows
<1>10. AcksInOrder /\ AppliedIsTold
  BY <1>1, <1>2, <1>4 DEF AcksInOrder, AppliedIsTold
<1>11. WindowSizeKept
  BY <1>1, <1>2 DEF WindowSizeKept
<1>12. QED
  BY <1>6, <1>7, <1>8, <1>9, <1>10, <1>11 DEF Agreement

LEMMA AgreementHolds ==
  ASSUME ~Threaded
  PROVE  Spec => [](TypeInv /\ Agreement)
<1>1. TypeInv /\ Agreement /\ [Next]_vars => (TypeInv /\ Agreement)'
  <2> SUFFICES ASSUME TypeInv, Agreement, [Next]_vars PROVE (TypeInv /\ Agreement)'
    OBVIOUS
  <2>1. CASE UNCHANGED vars
    BY <2>1 DEF vars, TypeInv, TypeOK, Bounded, NormalIsKnown, Agreement, Numbered, SizesFit,
       DownInOrder, Ahead, Known, ClientFollows, AcksInOrder, AppliedIsTold, WindowSizeKept
  <2>2. ASSUME Next PROVE TypeInv' /\ Agreement'
    <3>1. TypeInv'
      BY <2>2, TypeStep
    <3>2. CASE sendResizing \/ handleFocusReceived \/ handleFocusLost
      BY <3>1, <3>2, FocusAgrees
    <3>3. CASE HandleRequest
      <4>1. CASE set_mode(Head(up)) \/ unset_mode(Head(up))
        BY <3>1, <3>3, <4>1, RequestAgrees
      <4>2. CASE ack_configure(Head(up))
        BY <3>1, <3>3, <4>2, AckAgrees
      <4>3. QED
        BY <3>3, <4>1, <4>2 DEF HandleRequest
    <3>4. CASE xdg_toplevel_configure
      BY <3>1, <3>4, ToplevelAgrees
    <3>5. CASE xdg_surface_configure
      BY <3>1, <3>5, SurfaceAgrees
    <3>6. CASE applyConfigure
      BY <3>1, <3>6, ApplyAgrees
    <3>7. CASE FinishApply
      BY <3>1, <3>7, FinishAgrees
    <3>8. CASE \E states \in SUBSET Large : requestWindowStates(states)
      BY <3>1, <3>8, AskAgrees
    <3>9. QED
      BY <2>2, <3>2, <3>3, <3>4, <3>5, <3>6, <3>7, <3>8 DEF Next
  <2>3. QED
    BY <2>1, <2>2
<1>2. Init => TypeInv /\ Agreement
  BY TypeInit, AgreeInit
<1>3. QED
  BY <1>1, <1>2, PTL DEF Spec

\* AgreeWhenQuiet, for any number of events and requests: when nothing is under
\* way, what the client has applied is what the compositor sent last and takes
\* for acknowledged.  The window is painted by the thread of its events: with a
\* render thread a configure may be applied between its two events, or after its
\* serial was cleared, and the acknowledgement names another one.
THEOREM BothEndsAgree ==
  ASSUME ~Threaded
  PROVE  Spec => []AgreeWhenQuiet
<1>1. TypeInv /\ Agreement => AgreeWhenQuiet
  <2> SUFFICES ASSUME TypeInv, Agreement, Quiet
               PROVE  /\ pending = <<>> /\ acked.serial = sent
                      /\ client.applied = acked /\ geometry = client.size
                      /\ acked.states \cap Large # {} <=> client.size = "output"
    BY DEF AgreeWhenQuiet
  <2>1. Len(down) = 0 /\ Len(up) = 0 /\ ~client.waiting /\ ~client.applying
    BY DEF Quiet
  <2>2. PICK a \in Nat, p \in Nat, h \in {0, 1}, len \in Nat :
          /\ a = acked.serial /\ p = client.pending.serial /\ h = Ahead
          /\ len = Len(pending) /\ sent = a + len
    BY AgreeTypes DEF Agreement, Numbered, Ahead
  <2>3. 0 + h = 2 * ((a + len) - p) + 1
    BY <2>1, <2>2 DEF Agreement, DownInOrder
  <2>4. h = 1 /\ p = a + len
    BY <2>3
  <2>5. client.applied = client.pending
    BY <2>1, <2>2, <2>4 DEF Agreement, ClientFollows, Ahead
  <2>6. acked.serial = client.applied.serial /\ geometry = client.size
    BY <2>1 DEF Agreement, AppliedIsTold
  <2>7. len = 0
    <3>1. p = a
      BY <2>2, <2>5, <2>6
    <3>2. QED
      BY <2>4, <3>1
  <2>8. pending = <<>> /\ acked.serial = sent
    <3>1. pending \in Seq(Configures) /\ Len(pending) = 0 /\ a + 0 = a
      BY <2>2, <2>7, AgreeTypes
    <3>2. QED
      BY <2>2, <2>7, <3>1
  <2>9. client.applied = acked
    BY <2>6, KnownConfigure DEF Agreement, ClientFollows
  <2>10. acked.states \cap Large # {} <=> client.size = "output"
    BY <2>9 DEF Agreement, SizesFit, Fits
  <2>11. QED
    BY <2>6, <2>8, <2>9, <2>10
<1>2. QED
  BY <1>1, AgreementHolds, PTL

\* WindowSizeKept, for any number of events and requests: neither end ever
\* records the size of the output as the one to go back to.
THEOREM SizesAreRemembered ==
  ASSUME ~Threaded
  PROVE  Spec => []WindowSizeKept
<1>1. TypeInv /\ Agreement => WindowSizeKept
  BY DEF Agreement
<1>2. QED
  BY <1>1, AgreementHolds, PTL

\* SerialIsPending, what the code asserts: a configure that is applied has its
\* serial, unless a render thread has cleared it.
THEOREM SerialStaysPending ==
  ASSUME ~Threaded
  PROVE  Spec => []SerialIsPending
<1>1. TypeInv /\ Agreement => SerialIsPending
  BY DEF Agreement, ClientFollows, SerialIsPending
<1>2. QED
  BY <1>1, AgreementHolds, PTL

=============================================================================
