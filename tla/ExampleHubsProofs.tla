-------------------------- MODULE ExampleHubsProofs --------------------------
(***************************************************************************)
(* What the hubs of the examples hold for a rope is neither settled without *)
(* its answer nor left with nothing under way that would settle it, for any *)
(* number of connections and any sharing of rope_ids among them.            *)
(***************************************************************************)
EXTENDS ExampleHubs, TLAPS

-----------------------------------------------------------------------------
(* What is in a queue after one of the operations on it.                    *)

LEMMA RangeOfAppend ==
    ASSUME NEW S, NEW q \in Seq(S), NEW e \in S
    PROVE  Range(Append(q, e)) = Range(q) \cup {e}
<1>1. /\ DOMAIN Append(q, e) = DOMAIN q \cup {Len(q) + 1}
      /\ Append(q, e)[Len(q) + 1] = e
      /\ \A i \in DOMAIN q : Append(q, e)[i] = q[i]
  OBVIOUS
<1> QED
  BY <1>1, Zenon DEF Range

LEMMA RangeOfTail ==
    ASSUME NEW S, NEW q \in Seq(S), q # <<>>
    PROVE  /\ Head(q) \in S /\ Tail(q) \in Seq(S)
           /\ Range(q) = {Head(q)} \cup Range(Tail(q))
<1>1. /\ 1 \in DOMAIN q /\ q[1] = Head(q)
      /\ \A i \in DOMAIN Tail(q) : i + 1 \in DOMAIN q /\ q[i + 1] = Tail(q)[i]
      /\ \A i \in DOMAIN q : i = 1 \/ (i - 1 \in DOMAIN Tail(q)
                                       /\ q[i] = Tail(q)[i - 1])
  OBVIOUS
<1>2. \A x : x \in Range(q) <=> \E i \in DOMAIN q : q[i] = x
  BY DEF Range
<1>3. \A x : x \in Range(Tail(q)) <=> \E i \in DOMAIN Tail(q) : Tail(q)[i] = x
  BY DEF Range
<1>4. Head(q) \in S /\ Tail(q) \in Seq(S)
  OBVIOUS
<1> QED
  BY <1>1, <1>2, <1>3, <1>4

LEMMA RangeOfPrefix ==
    ASSUME NEW S, NEW q \in Seq(S), NEW n \in 0..Len(q)
    PROVE  SubSeq(q, 1, n) \in Seq(S) /\ Range(SubSeq(q, 1, n)) \subseteq Range(q)
<1>1. /\ SubSeq(q, 1, n) \in Seq(S)
      /\ \A i \in DOMAIN SubSeq(q, 1, n) : i \in DOMAIN q /\ SubSeq(q, 1, n)[i] = q[i]
  OBVIOUS
<1> QED
  BY <1>1, Zenon DEF Range

-----------------------------------------------------------------------------
(* Types                                                                    *)

\* Sending orders appends at most one to each queue, on connections that are up.
LEMMA Ordered ==
    ASSUME TypeOK, NEW order, Order(order),
           \A c \in Conns : c \in DOMAIN order => order[c] \in Orders
    PROVE  /\ to_rope' \in [Conns -> Seq(Orders)]
           /\ \A c \in Conns :
                  /\ Range(to_rope[c]) \subseteq Range(to_rope'[c])
                  /\ link[c] = "up" /\ c \in DOMAIN order
                         => order[c] \in Range(to_rope'[c])
                  /\ (c \in DOMAIN order => order[c] \in OrdersTo(c))
                         => Range(to_rope'[c]) \subseteq OrdersTo(c)
<1> SUFFICES ASSUME NEW c \in Conns
             PROVE  /\ to_rope'[c] \in Seq(Orders)
                    /\ Range(to_rope[c]) \subseteq Range(to_rope'[c])
                    /\ link[c] = "up" /\ c \in DOMAIN order
                           => order[c] \in Range(to_rope'[c])
                    /\ (c \in DOMAIN order => order[c] \in OrdersTo(c))
                           => Range(to_rope'[c]) \subseteq OrdersTo(c)
  BY DEF Order
<1>1. to_rope[c] \in Seq(Orders) /\ Range(to_rope[c]) \subseteq OrdersTo(c)
  BY DEF TypeOK
<1>2. CASE link[c] = "up" /\ c \in DOMAIN order
  <2>1. to_rope'[c] = Append(to_rope[c], order[c]) /\ order[c] \in Orders
    BY <1>2 DEF Order
  <2> HIDE DEF Orders
  <2>2. /\ Append(to_rope[c], order[c]) \in Seq(Orders)
        /\ Range(to_rope'[c]) = Range(to_rope[c]) \cup {order[c]}
    BY <1>1, <2>1, RangeOfAppend
  <2> QED
    BY <1>1, <1>2, <2>1, <2>2
<1>3. CASE ~(link[c] = "up" /\ c \in DOMAIN order)
  BY <1>1, <1>3 DEF Order
<1> QED
  BY <1>2, <1>3

\* What the three closures do to the queues towards the ropes.
LEMMA OrdersOf ==
    ASSUME TypeOK, NEW c \in Conns
    PROVE  /\ \A d \in Conns :
                  /\ d \in DOMAIN OnMotion => OnMotion[d] \in Orders
                  /\ d \in DOMAIN Challenge(c) => Challenge(c)[d] \in Orders
           /\ c \in DOMAIN Challenge(c) /\ Challenge(c)[c] = "2fa_challenge"
BY DEF OnMotion, Challenge, Orders

\* They find each rope they mean under its rope_id.
LEMMA OrdersAreAddressed ==
    ASSUME TypeOK, NEW c \in Conns, NEW d \in Conns
    PROVE  /\ app = "smart_home" /\ d \in DOMAIN OnMotion => OnMotion[d] \in OrdersTo(d)
           /\ /\ app = "two_factor" /\ Rope(c) \notin Administrators
              /\ d \in DOMAIN Challenge(c)
              => Challenge(c)[d] \in OrdersTo(d)
           /\ app = "commands" => "Command" \in OrdersTo(d)
<1>1. /\ {Gate, Light, Owner} \subseteq RopeIds /\ NoConn \notin Conns
      /\ \A r \in RopeIds : senders[r] # NoConn => Rope(senders[r]) = r
  BY ExampleHubsAssumption DEF TypeOK, Conns, NoConn
<1>2. ASSUME app = "smart_home", d \in DOMAIN OnMotion PROVE OnMotion[d] \in OrdersTo(d)
  <2>1. \/ d = senders[Light] /\ OnMotion[d] = "light_dimming"
        \/ d = senders[Gate] /\ OnMotion[d] = "gate_lock_command"
    BY <1>2 DEF OnMotion
  <2> QED
    BY <1>1, <1>2, <2>1 DEF OrdersTo, Orders
<1>3. ASSUME app = "two_factor", Rope(c) \notin Administrators, d \in DOMAIN Challenge(c)
      PROVE  Challenge(c)[d] \in OrdersTo(d)
  <2>1. \/ d = c /\ Challenge(c)[d] = "2fa_challenge"
        \/ d = senders[Owner] /\ Challenge(c)[d] = "verification_prompt"
    BY <1>3 DEF Challenge
  <2> QED
    BY <1>1, <1>3, <2>1 DEF OrdersTo, Orders
<1> QED
  BY <1>2, <1>3 DEF OrdersTo, Orders

LEMMA Handled ==
    ASSUME TypeOK, OnEvent
    PROVE  /\ events # <<>> /\ Head(events) \in HubEvents
           /\ events' = Tail(events) /\ events' \in Seq(HubEvents)
           /\ Range(events) = {Head(events)} \cup Range(events')
           /\ \/ app = "smart_home" /\ SmartHome(Head(events).type, Head(events).conn)
              \/ app = "two_factor" /\ TwoFactor(Head(events).type, Head(events).conn)
              \/ app = "commands" /\ Commands(Head(events).type, Head(events).conn)
           /\ to_rope' \in [Conns -> Seq(Orders)]
           /\ \A c \in Conns : Range(to_rope[c]) \subseteq Range(to_rope'[c])
           /\ \A c \in Conns : Range(to_rope'[c]) \subseteq OrdersTo(c)
           /\ UNCHANGED <<app, link, host, to_hub, heeded, motions, alarm, acked>>
<1> DEFINE e == Head(events)
<1>1. /\ events # <<>> /\ events' = Tail(events) /\ events \in Seq(HubEvents)
      /\ \/ app = "smart_home" /\ SmartHome(e.type, e.conn)
         \/ app = "two_factor" /\ TwoFactor(e.type, e.conn)
         \/ app = "commands" /\ Commands(e.type, e.conn)
      /\ UNCHANGED <<app, link, host, to_hub, heeded, motions, alarm, acked>>
  BY DEF OnEvent, TypeOK
<1>2. e \in HubEvents /\ Tail(events) \in Seq(HubEvents)
      /\ Range(events) = {e} \cup Range(Tail(events))
  BY <1>1, RangeOfTail
<1>3. e.conn \in Conns
  BY <1>2 DEF HubEvents
<1> HIDE DEF e
<1> DEFINE Kept == /\ to_rope' \in [Conns -> Seq(Orders)]
                   /\ \A c \in Conns : Range(to_rope[c]) \subseteq Range(to_rope'[c])
                   /\ \A c \in Conns : Range(to_rope'[c]) \subseteq OrdersTo(c)
<1>4. UNCHANGED to_rope => Kept
  BY DEF TypeOK
<1>5. ASSUME NEW order, Order(order),
             \A c \in Conns : c \in DOMAIN order => order[c] \in OrdersTo(c)
      PROVE  Kept
  <2>1. \A c \in Conns : c \in DOMAIN order => order[c] \in Orders
    BY <1>5 DEF OrdersTo
  <2> QED
    BY <1>5, <2>1, Ordered
<1>6. ASSUME app = "smart_home", SmartHome(e.type, e.conn) PROVE Kept
  <2>1. Order(OnMotion) \/ Order(<<>>)
    BY <1>6 DEF SmartHome
  <2>2. CASE Order(OnMotion)
    BY <1>3, <1>5, <1>6, <2>2, OrdersAreAddressed
  <2>3. CASE Order(<<>>)
    <3>1. \A c \in Conns : c \in DOMAIN <<>> => <<>>[c] \in OrdersTo(c)
      BY DEF Conns
    <3> QED
      BY <1>5, <2>3, <3>1
  <2> QED
    BY <2>1, <2>2, <2>3
<1>7. ASSUME app = "two_factor", TwoFactor(e.type, e.conn) PROVE Kept
  <2>1. \/ Order(Challenge(e.conn)) /\ Rope(e.conn) \notin Administrators
        \/ UNCHANGED to_rope
    BY <1>7 DEF TwoFactor
  <2> QED
    BY <1>3, <1>4, <1>5, <1>7, <2>1, OrdersAreAddressed
<1>8. ASSUME app = "commands", Commands(e.type, e.conn) PROVE Kept
  <2>1. Order([d \in {e.conn} |-> "Command"]) \/ UNCHANGED to_rope
    BY <1>8 DEF Commands, Greet
  <2>2. \A c \in Conns : c \in DOMAIN [d \in {e.conn} |-> "Command"] =>
            [d \in {e.conn} |-> "Command"][c] \in OrdersTo(c)
    BY <1>8, OrdersAreAddressed
  <2> QED
    BY <1>4, <1>5, <2>1, <2>2
<1> QED
  BY <1>1, <1>2, <1>6, <1>7, <1>8 DEF e

\* What a HubEvent adds to the queue of events.
LEMMA TellAppends ==
    ASSUME TypeOK, NEW c \in Conns, NEW type, Tell(type, c),
           type \in {"RopeConnected", "RopeDisconnected"} \cup Reports
    PROVE  /\ events' \in Seq(HubEvents)
           /\ Range(events') = Range(events) \cup {[type |-> type, conn |-> c]}
<1>1. events \in Seq(HubEvents) /\ [type |-> type, conn |-> c] \in HubEvents
  BY DEF TypeOK, HubEvents
<1> QED
  BY <1>1, RangeOfAppend DEF Tell

\* What a rope's report adds to the queue towards the hub.
LEMMA ReportAppends ==
    ASSUME TypeOK, NEW c \in Conns, NEW report \in Reports, Report(c, report)
    PROVE  /\ to_hub' \in [Conns -> Seq(Reports)]
           /\ \A d \in Conns \ {c} : to_hub'[d] = to_hub[d]
           /\ Range(to_hub[c]) \subseteq Range(to_hub'[c])
           /\ Range(to_hub'[c]) \subseteq Range(to_hub[c]) \cup {report}
           /\ link[c] = "up" => report \in Range(to_hub'[c])
<1>1. to_hub \in [Conns -> Seq(Reports)] /\ to_hub[c] \in Seq(Reports)
  BY DEF TypeOK
<1>2. /\ Append(to_hub[c], report) \in Seq(Reports)
      /\ Range(Append(to_hub[c], report)) = Range(to_hub[c]) \cup {report}
  <2> HIDE DEF Reports
  <2> QED
    BY <1>1, RangeOfAppend
<1> HIDE DEF Reports
<1> QED
  BY <1>1, <1>2 DEF Report

\* What reading the first of the reports of a rope leaves.
LEMMA HostReadsFirst ==
    ASSUME TypeOK, NEW c \in Conns, HostReads(c)
    PROVE  /\ to_hub' \in [Conns -> Seq(Reports)]
           /\ \A d \in Conns \ {c} : to_hub'[d] = to_hub[d]
           /\ Head(to_hub[c]) \in Reports
           /\ Range(to_hub[c]) = {Head(to_hub[c])} \cup Range(to_hub'[c])
<1>1. to_hub[c] \in Seq(Reports) /\ to_hub \in [Conns -> Seq(Reports)]
      /\ to_hub[c] # <<>> /\ to_hub' = [to_hub EXCEPT ![c] = Tail(to_hub[c])]
  BY DEF HostReads, TypeOK
<1> HIDE DEF Reports
<1> QED
  BY <1>1, RangeOfTail

\* What taking the first of the orders of a rope leaves.
LEMMA NextEventFirst ==
    ASSUME TypeOK, NEW c \in Conns, NextEvent(c)
    PROVE  /\ to_rope' \in [Conns -> Seq(Orders)]
           /\ \A d \in Conns \ {c} : to_rope'[d] = to_rope[d]
           /\ Head(to_rope[c]) \in Orders
           /\ Range(to_rope[c]) = {Head(to_rope[c])} \cup Range(to_rope'[c])
<1>1. to_rope[c] \in Seq(Orders) /\ to_rope \in [Conns -> Seq(Orders)]
      /\ to_rope[c] # <<>> /\ to_rope' = [to_rope EXCEPT ![c] = Tail(to_rope[c])]
  BY DEF NextEvent, TypeOK
<1> HIDE DEF Orders
<1> QED
  BY <1>1, RangeOfTail

\* A connection that ends keeps what had arrived, and nothing else does.
LEMMA PartKeepsPrefix ==
    ASSUME TypeOK, NEW c \in Conns, Part(c)
    PROVE  /\ to_rope' \in [Conns -> Seq(Orders)]
           /\ to_hub' \in [Conns -> Seq(Reports)]
           /\ \A d \in Conns \ {c} : to_rope'[d] = to_rope[d] /\ to_hub'[d] = to_hub[d]
           /\ Range(to_hub'[c]) \subseteq Range(to_hub[c])
           /\ Range(to_rope'[c]) \subseteq Range(to_rope[c])
           /\ link[c] = "up" /\ link' = [link EXCEPT ![c] = "gone"]
<1>1. PICK m \in 0..Len(to_rope[c]) :
          to_rope' = [to_rope EXCEPT ![c] = SubSeq(to_rope[c], 1, m)]
  BY DEF Part
<1>2. PICK n \in 0..Len(to_hub[c]) :
          to_hub' = [to_hub EXCEPT ![c] = SubSeq(to_hub[c], 1, n)]
  BY DEF Part
<1>3. to_rope[c] \in Seq(Orders) /\ to_hub[c] \in Seq(Reports)
      /\ to_rope \in [Conns -> Seq(Orders)] /\ to_hub \in [Conns -> Seq(Reports)]
  BY DEF TypeOK
<1> HIDE DEF Orders, Reports
<1>4. /\ SubSeq(to_rope[c], 1, m) \in Seq(Orders)
      /\ Range(SubSeq(to_rope[c], 1, m)) \subseteq Range(to_rope[c])
      /\ SubSeq(to_hub[c], 1, n) \in Seq(Reports)
      /\ Range(SubSeq(to_hub[c], 1, n)) \subseteq Range(to_hub[c])
  BY <1>3, RangeOfPrefix
<1> QED
  BY <1>1, <1>2, <1>3, <1>4 DEF Part

\* The five loops of the ropes: a deed, a report of it, or neither.
LEMMA Loops ==
    ASSUME TypeOK, NEW c \in Conns, NextEvent(c)
    PROVE  /\ heeded' \in [Conns -> SUBSET Deeds]
           /\ \A d \in Conns : heeded[d] \subseteq heeded'[d]
           /\ Head(to_rope[c]) = "gate_lock_command" => "secured" \in heeded'[c]
           /\ \/ UNCHANGED to_hub /\ Head(to_rope[c]) \notin {"2fa_challenge", "Command"}
              \/ \E pin \in {"right PIN", "wrong PIN"} :
                     /\ Head(to_rope[c]) = "2fa_challenge"
                     /\ pin \in heeded'[c] /\ Report(c, pin)
              \/ Head(to_rope[c]) = "Command" /\ Report(c, "Ack")
<1> DEFINE order == Head(to_rope[c])
<1>1. \/ GateLoop(c, order) \/ LightLoop(c, order) \/ OwnerLoop(order)
      \/ LockLoop(c, order) \/ AckLoop(c, order)
  BY DEF NextEvent
<1> HIDE DEF order
<1>2. heeded \in [Conns -> SUBSET Deeds]
  BY DEF TypeOK
<1>3. ASSUME NEW deed \in Deeds, Heed(c, deed)
      PROVE  /\ heeded' \in [Conns -> SUBSET Deeds]
             /\ \A d \in Conns : heeded[d] \subseteq heeded'[d]
             /\ deed \in heeded'[c]
  BY <1>2, <1>3 DEF Heed
<1>4. CASE GateLoop(c, order)
  BY <1>3, <1>4 DEF GateLoop, Deeds, order
<1>5. CASE LightLoop(c, order)
  BY <1>3, <1>5 DEF LightLoop, Deeds, order
<1>6. CASE OwnerLoop(order)
  BY <1>2, <1>6 DEF OwnerLoop, order
<1>7. CASE LockLoop(c, order)
  <2>1. PICK pin \in {"right PIN", "wrong PIN"} : Heed(c, pin) /\ Report(c, pin)
    BY <1>7 DEF LockLoop, Pins
  <2>2. pin \in Deeds
    BY <2>1 DEF Deeds
  <2> QED
    BY <1>3, <1>7, <2>1, <2>2 DEF LockLoop, order
<1>8. CASE AckLoop(c, order)
  BY <1>2, <1>8 DEF AckLoop, order
<1> QED
  BY <1>1, <1>4, <1>5, <1>6, <1>7, <1>8

\* Orders stay with the rope they are for, and senders with their rope_id.
LEMMA AddressedStep ==
    ASSUME TypeOK, [Next]_vars
    PROVE  /\ \A c \in Conns : Range(to_rope'[c]) \subseteq OrdersTo(c)'
           /\ \A r \in RopeIds : senders'[r] # NoConn => Rope(senders[r])' = r
<1>1. app' = app
  BY DEF Next, vars, OnEvent, Connect, Part, Motion, HandleConnection, Announce,
         AnnounceGone, HostReads, NextEvent, appRest
<1>2. \A c \in Conns : OrdersTo(c)' = OrdersTo(c) /\ Rope(c)' = Rope(c)
  BY <1>1 DEF OrdersTo, Rope
<1>3. /\ \A c \in Conns : Range(to_rope[c]) \subseteq OrdersTo(c)
      /\ senders \in [RopeIds -> Conns \cup {NoConn}]
      /\ \A r \in RopeIds : senders[r] # NoConn => Rope(senders[r]) = r
  BY DEF TypeOK
<1>4. \A c \in Conns : Range(to_rope'[c]) \subseteq OrdersTo(c)
  <2>1. ASSUME OnEvent PROVE \A c \in Conns : Range(to_rope'[c]) \subseteq OrdersTo(c)
    BY <2>1, Handled
  <2>2. ASSUME NEW d \in Conns, Part(d) \/ NextEvent(d)
        PROVE  \A c \in Conns : Range(to_rope'[c]) \subseteq OrdersTo(c)
    <3>1. /\ Range(to_rope'[d]) \subseteq Range(to_rope[d])
          /\ \A c \in Conns \ {d} : to_rope'[c] = to_rope[c]
      BY <2>2, PartKeepsPrefix, NextEventFirst
    <3> QED
      BY <1>3, <3>1
  <2>3. ASSUME NEW d \in Conns, Connect(d) \/ Motion(d) \/ HandleConnection(d) \/ HostReads(d)
        PROVE  UNCHANGED to_rope
    BY <2>3 DEF Connect, Motion, HandleConnection, Announce, AnnounceGone, HostReads
  <2>4. UNCHANGED vars => UNCHANGED to_rope
    BY DEF vars
  <2> QED
    BY <1>3, <2>1, <2>2, <2>3, <2>4 DEF Next
<1>5. ASSUME NEW r \in RopeIds, senders'[r] # NoConn PROVE Rope(senders[r])' = r
  <2>1. CASE OnEvent
    <3>1. PICK c \in Conns : \/ Hold(Rope(c), c) \/ Hold(Rope(c), NoConn)
                             \/ UNCHANGED senders
      <4>1. Head(events).conn \in Conns
        BY <2>1, Handled DEF HubEvents
      <4> QED
        BY <2>1, <4>1, Handled DEF SmartHome, TwoFactor, Commands, Forget
    <3>2. \/ senders'[r] = senders[r]
          \/ senders'[r] = c /\ r = Rope(c)
      BY <1>3, <1>5, <3>1 DEF Hold
    <3>3. senders[r] = senders'[r] => senders[r] \in Conns /\ Rope(senders[r]) = r
      BY <1>3, <1>5
    <3>4. RopeOf[app][senders'[r]] = r
      BY <3>2, <3>3 DEF Rope
    <3> QED
      BY <1>1, <3>4 DEF Rope
  <2>2. CASE ~OnEvent
    <3>1. UNCHANGED senders
      BY <2>2 DEF Next, vars, Connect, Part, Motion, HandleConnection, Announce,
                  AnnounceGone, HostReads, NextEvent, appRest
    <3>2. RopeOf[app][senders[r]] = r
      BY <1>3, <1>5, <3>1 DEF Rope
    <3> QED
      BY <1>1, <3>1, <3>2 DEF Rope
  <2> QED
    BY <2>1, <2>2
<1> QED
  BY <1>2, <1>4, <1>5

LEMMA TypeStep == TypeOK /\ [Next]_vars => TypeOK'
<1> SUFFICES ASSUME TypeOK, [Next]_vars PROVE TypeOK'
  OBVIOUS
<1>0. /\ \A c \in Conns : Range(to_rope'[c]) \subseteq OrdersTo(c)'
      /\ \A r \in RopeIds : senders'[r] # NoConn => Rope(senders[r])' = r
  BY AddressedStep
<1>1. CASE OnEvent
  <2>1. /\ Head(events).conn \in Conns /\ Rope(Head(events).conn) \in RopeIds
        /\ senders \in [RopeIds -> Conns \cup {NoConn}] /\ pending \subseteq RopeIds
    BY <1>1, Handled, ExampleHubsAssumption DEF HubEvents, Rope, TypeOK
  <2>2. /\ senders' \in [RopeIds -> Conns \cup {NoConn}]
        /\ pending' \subseteq RopeIds
    BY <1>1, <2>1, Handled
    DEF SmartHome, TwoFactor, Commands, Hold, Forget, Settle
  <2> QED
    BY <1>0, <1>1, <2>2, Handled DEF TypeOK
<1>2. ASSUME NEW c \in Conns, Connect(c) PROVE TypeOK'
  BY <1>0, <1>2 DEF Connect, TypeOK
<1>3. ASSUME NEW c \in Conns, Part(c) PROVE TypeOK'
  BY <1>0, <1>3, PartKeepsPrefix DEF Part, TypeOK
<1>4. ASSUME NEW c \in Conns, Motion(c) PROVE TypeOK'
  <2>1. to_hub' \in [Conns -> Seq(Reports)]
    BY <1>4, ReportAppends DEF Motion, Reports
  <2>2. motions' \in 0..MaxMotions /\ alarm' \in BOOLEAN
    BY <1>4, ExampleHubsAssumption DEF Motion, TypeOK
  <2> QED
    BY <1>0, <1>4, <2>1, <2>2 DEF Motion, TypeOK
<1>5. ASSUME NEW c \in Conns, HandleConnection(c) PROVE TypeOK'
  <2>1. events' \in Seq(HubEvents)
    BY <1>5, TellAppends DEF HandleConnection, Announce, AnnounceGone
  <2>2. host' \in [Conns -> {"handshake", "serving", "ended"}]
    BY <1>5 DEF HandleConnection, Announce, AnnounceGone, TypeOK
  <2> QED
    BY <1>0, <1>5, <2>1, <2>2
    DEF HandleConnection, Announce, AnnounceGone, appRest, TypeOK
<1>6. ASSUME NEW c \in Conns, HostReads(c) PROVE TypeOK'
  <2>1. Head(to_hub[c]) \in Reports /\ to_hub' \in [Conns -> Seq(Reports)]
    BY <1>6, HostReadsFirst
  <2>2. events' \in Seq(HubEvents) /\ acked' \subseteq Conns
    BY <1>6, <2>1, TellAppends DEF HostReads, TypeOK
  <2> QED
    BY <1>0, <1>6, <2>1, <2>2 DEF HostReads, appRest, TypeOK
<1>7. ASSUME NEW c \in Conns, NextEvent(c) PROVE TypeOK'
  <2>1. to_hub' \in [Conns -> Seq(Reports)]
    <3>1. {"right PIN", "wrong PIN", "Ack"} \subseteq Reports
      BY DEF Reports
    <3>2. UNCHANGED to_hub \/ \E report \in Reports : Report(c, report)
      BY <1>7, <3>1, Loops
    <3> QED
      BY <3>2, ReportAppends DEF TypeOK
  <2>2. /\ to_rope' \in [Conns -> Seq(Orders)]
        /\ heeded' \in [Conns -> SUBSET Deeds]
    BY <1>7, NextEventFirst, Loops
  <2> QED
    BY <1>0, <1>7, <2>1, <2>2 DEF NextEvent, TypeOK
<1>8. CASE UNCHANGED vars
  BY <1>0, <1>8 DEF vars, TypeOK
<1> QED
  BY <1>1, <1>2, <1>3, <1>4, <1>5, <1>6, <1>7, <1>8 DEF Next

\* Types hold for any number of connections, any rope_ids and any users.
THEOREM TypeCorrectness == Spec => []TypeOK
<1>1. Init => TypeOK
  <2>1. <<>> \in Seq(Orders) /\ <<>> \in Seq(Reports) /\ <<>> \in Seq(HubEvents)
    OBVIOUS
  <2>2. 0 \in 0..MaxMotions
    BY ExampleHubsAssumption
  <2>3. Range(<<>>) = {}
    BY DEF Range
  <2> QED
    BY <2>1, <2>2, <2>3, Zenon DEF Init, TypeOK
<1> QED
  BY <1>1, TypeStep, PTL DEF Spec

-----------------------------------------------------------------------------
(* The queue of events.  The hub hears of a connection before anything that *)
(* comes over it, and of its end after that; each only once.                *)

QueueInv ==
    /\ \A c \in Conns : host[c] # "handshake" => link[c] # "idle"
    /\ \A i \in DOMAIN events : host[events[i].conn] # "handshake"
    /\ \A i, j \in DOMAIN events :
           /\ events[j].type = "RopeConnected"
           /\ events[i].conn = events[j].conn
           => j <= i
    /\ \A c \in Conns : Told("RopeDisconnected", c) =>
           link[c] = "gone" /\ host[c] = "ended"
    /\ \A c \in Conns : host[c] = "ended" /\ Told("RopeConnected", c) =>
           Told("RopeDisconnected", c)

\* Connections do not come back, the hub's task for each goes on, and what a
\* rope has heeded it has heeded.
LEMMA Monotone ==
    ASSUME TypeOK, [Next]_vars
    PROVE  /\ app' = app
           /\ \A c \in Conns :
                  /\ link[c] = "gone" => link'[c] = "gone"
                  /\ link[c] # "idle" => link'[c] # "idle"
                  /\ link'[c] = "up" => link[c] \in {"up", "idle"}
                  /\ host[c] # "handshake" => host'[c] # "handshake"
                  /\ host[c] = "ended" => host'[c] = "ended"
                  /\ heeded[c] \subseteq heeded'[c]
<1> DEFINE Goal == /\ app' = app
                   /\ \A c \in Conns :
                          /\ link[c] = "gone" => link'[c] = "gone"
                          /\ link[c] # "idle" => link'[c] # "idle"
                          /\ link'[c] = "up" => link[c] \in {"up", "idle"}
                          /\ host[c] # "handshake" => host'[c] # "handshake"
                          /\ host[c] = "ended" => host'[c] = "ended"
                          /\ heeded[c] \subseteq heeded'[c]
<1>0. /\ link \in [Conns -> {"idle", "up", "gone"}]
      /\ host \in [Conns -> {"handshake", "serving", "ended"}]
  BY DEF TypeOK
<1>1. UNCHANGED <<app, link, host, heeded>> => Goal
  BY <1>0
<1>2. CASE OnEvent \/ UNCHANGED vars
  BY <1>1, <1>2 DEF OnEvent, vars
<1>3. ASSUME NEW c \in Conns, Connect(c) \/ Part(c) PROVE Goal
  BY <1>0, <1>3 DEF Connect, Part
<1>4. ASSUME NEW c \in Conns, HandleConnection(c) PROVE Goal
  BY <1>0, <1>4 DEF HandleConnection, Announce, AnnounceGone, appRest
<1>5. ASSUME NEW c \in Conns, Motion(c) \/ HostReads(c) PROVE Goal
  BY <1>1, <1>5 DEF Motion, HostReads, appRest
<1>6. ASSUME NEW c \in Conns, NextEvent(c) PROVE Goal
  BY <1>0, <1>6, Loops DEF NextEvent
<1> QED
  BY <1>2, <1>3, <1>4, <1>5, <1>6 DEF Next

\* The queue of events grows at its end, with one event of one connection.
LEMMA TellGrows ==
    ASSUME TypeOK, NEW c \in Conns, NEW type, Tell(type, c)
    PROVE  /\ \A i \in DOMAIN events : i \in DOMAIN events' /\ events'[i] = events[i]
           /\ \A i \in DOMAIN events' :
                  \/ i \in DOMAIN events
                  \/ /\ events'[i] = [type |-> type, conn |-> c]
                     /\ \A j \in DOMAIN events' : j <= i
BY DEF Tell, TypeOK

LEMMA QueueTold ==
    ASSUME TypeOK, QueueInv, [Next]_vars, NEW c \in Conns, NEW type, Tell(type, c),
           type \in {"RopeConnected", "RopeDisconnected"} \cup Reports,
           type = "RopeConnected" => host[c] = "handshake",
           type = "RopeDisconnected" => link[c] = "gone" /\ host'[c] = "ended",
           host'[c] # "handshake",
           \A d \in Conns : host'[d] # "handshake" => link[d] # "idle",
           \A d \in Conns : host'[d] = "ended" =>
               host[d] = "ended" \/ (d = c /\ type = "RopeDisconnected")
    PROVE  QueueInv'
<1> DEFINE e == [type |-> type, conn |-> c]
<1>1. /\ \A d \in Conns : /\ link[d] = "gone" => link'[d] = "gone"
                          /\ link[d] # "idle" => link'[d] # "idle"
                          /\ host[d] # "handshake" => host'[d] # "handshake"
                          /\ host[d] = "ended" => host'[d] = "ended"
  BY Monotone
<1>2. /\ \A i \in DOMAIN events : /\ i \in DOMAIN events' /\ events'[i] = events[i]
                                  /\ events[i].conn \in Conns
      /\ \A i \in DOMAIN events' : \/ i \in DOMAIN events
                                   \/ events'[i] = e /\ \A j \in DOMAIN events' : j <= i
      /\ e.conn = c /\ e.type = type
  <2>1. \A i \in DOMAIN events : events[i].conn \in Conns
    <3>1. \A i \in DOMAIN events : events[i] \in HubEvents
      BY DEF TypeOK
    <3> QED
      BY <3>1, Zenon DEF HubEvents
  <2> QED
    BY <2>1, TellGrows
<1>3. Range(events') = Range(events) \cup {e}
  BY TellAppends
<1>4. \A d \in Conns : /\ Told("RopeConnected", d)' =>
                              Told("RopeConnected", d) \/ (d = c /\ type = "RopeConnected")
                       /\ Told("RopeDisconnected", d)' =>
                              \/ Told("RopeDisconnected", d)
                              \/ d = c /\ type = "RopeDisconnected"
                       /\ Told("RopeDisconnected", d) => Told("RopeDisconnected", d)'
                       /\ type = "RopeDisconnected" => Told("RopeDisconnected", c)'
  BY <1>3 DEF Told
<1> HIDE DEF e
<1>5. \A d \in Conns : host'[d] # "handshake" => link'[d] # "idle"
  BY <1>1
<1>6. \A i \in DOMAIN events' : host'[events'[i].conn] # "handshake"
  BY <1>1, <1>2 DEF QueueInv
<1>7. \A i, j \in DOMAIN events' :
         /\ events'[j].type = "RopeConnected" /\ events'[i].conn = events'[j].conn
         => j <= i
  <2> SUFFICES ASSUME NEW i \in DOMAIN events', NEW j \in DOMAIN events',
                      events'[j].type = "RopeConnected",
                      events'[i].conn = events'[j].conn
               PROVE  j <= i
    OBVIOUS
  <2>1. CASE i \notin DOMAIN events
    BY <1>2, <2>1
  <2>2. CASE i \in DOMAIN events /\ j \in DOMAIN events
    BY <1>2, <2>2 DEF QueueInv
  <2>3. CASE i \in DOMAIN events /\ j \notin DOMAIN events
    BY <1>2, <2>3 DEF QueueInv
  <2> QED
    BY <2>1, <2>2, <2>3
<1>8. \A d \in Conns : Told("RopeDisconnected", d)' =>
         link'[d] = "gone" /\ host'[d] = "ended"
  BY <1>1, <1>4 DEF QueueInv
<1>9. \A d \in Conns : host'[d] = "ended" /\ Told("RopeConnected", d)' =>
         Told("RopeDisconnected", d)'
  <2> SUFFICES ASSUME NEW d \in Conns, host'[d] = "ended", Told("RopeConnected", d)'
               PROVE  Told("RopeDisconnected", d)'
    OBVIOUS
  <2>1. CASE d = c /\ type = "RopeDisconnected"
    BY <1>4, <2>1
  <2>2. CASE host[d] = "ended"
    <3>1. Told("RopeConnected", d)
      BY <1>4, <2>2
    <3> QED
      BY <1>4, <2>2, <3>1 DEF QueueInv
  <2> QED
    BY <2>1, <2>2
<1> QED
  BY <1>5, <1>6, <1>7, <1>8, <1>9 DEF QueueInv

\* Handling the first event leaves the order of the others.
LEMMA QueueHandled == TypeOK /\ QueueInv /\ OnEvent => QueueInv'
<1> SUFFICES ASSUME TypeOK, QueueInv, OnEvent PROVE QueueInv'
  OBVIOUS
<1> DEFINE e == Head(events)
<1>1. /\ Range(events) = {e} \cup Range(events') /\ UNCHANGED <<link, host>>
      /\ events # <<>> /\ events' = Tail(events) /\ events \in Seq(HubEvents)
  BY Handled DEF TypeOK
<1>2. /\ 1 \in DOMAIN events /\ e = events[1]
      /\ \A i \in DOMAIN events' : /\ i \in Nat /\ i + 1 \in DOMAIN events
                                   /\ events'[i] = events[i + 1]
                                   /\ i # 0
  BY <1>1
<1> HIDE DEF e
<1>3. ASSUME NEW c \in Conns, host[c] = "ended", Told("RopeConnected", c)'
      PROVE  Told("RopeDisconnected", c)'
  <2>1. Told("RopeConnected", c) /\ Told("RopeDisconnected", c)
    BY <1>1, <1>3 DEF Told, QueueInv
  <2>2. CASE e = [type |-> "RopeDisconnected", conn |-> c]
    <3>1. PICK j \in DOMAIN events' :
              events'[j] = [type |-> "RopeConnected", conn |-> c]
      BY <1>3 DEF Told, Range
    <3>2. /\ events[j + 1].type = "RopeConnected"
          /\ events[1].conn = events[j + 1].conn
      BY <1>2, <2>2, <3>1
    <3>3. j + 1 <= 1
      BY <1>2, <3>2 DEF QueueInv
    <3> QED
      BY <1>2, <3>3
  <2>3. CASE e # [type |-> "RopeDisconnected", conn |-> c]
    BY <1>1, <2>1, <2>3 DEF Told
  <2> QED
    BY <2>2, <2>3
<1>4. \A c \in Conns : Told("RopeDisconnected", c)' => Told("RopeDisconnected", c)
  BY <1>1 DEF Told
<1>5. \A i, j \in DOMAIN events' :
         /\ events'[j].type = "RopeConnected" /\ events'[i].conn = events'[j].conn
         => j <= i
  <2> SUFFICES ASSUME NEW i \in DOMAIN events', NEW j \in DOMAIN events',
                      events'[j].type = "RopeConnected",
                      events'[i].conn = events'[j].conn
               PROVE  j <= i
    OBVIOUS
  <2>1. j + 1 <= i + 1
    BY <1>2 DEF QueueInv
  <2> QED
    BY <1>2, <2>1
<1> QED
  BY <1>1, <1>2, <1>3, <1>4, <1>5 DEF QueueInv

LEMMA QueueStep == TypeOK /\ QueueInv /\ [Next]_vars => QueueInv'
<1> SUFFICES ASSUME TypeOK, QueueInv, [Next]_vars PROVE QueueInv'
  OBVIOUS
<1>0. host \in [Conns -> {"handshake", "serving", "ended"}]
  BY DEF TypeOK
<1>1. CASE OnEvent
  BY <1>1, QueueHandled
<1>2. ASSUME UNCHANGED <<host, events>> PROVE QueueInv'
  BY <1>2, Monotone DEF QueueInv, Told
<1>3. ASSUME NEW c \in Conns, Connect(c) \/ Part(c) \/ Motion(c) \/ NextEvent(c)
      PROVE  QueueInv'
  BY <1>2, <1>3 DEF Connect, Part, Motion, NextEvent
<1>4. ASSUME NEW c \in Conns, Announce(c) PROVE QueueInv'
  BY <1>0, <1>4, QueueTold DEF Announce, QueueInv
<1>5. ASSUME NEW c \in Conns, AnnounceGone(c) PROVE QueueInv'
  BY <1>0, <1>5, QueueTold DEF AnnounceGone, QueueInv
<1>6. ASSUME NEW c \in Conns, HostReads(c) PROVE QueueInv'
  <2>1. Head(to_hub[c]) \in Reports /\ UNCHANGED host /\ host[c] # "handshake"
    BY <1>6, HostReadsFirst DEF HostReads
  <2>2. Head(to_hub[c]) \notin {"RopeConnected", "RopeDisconnected"}
    BY <2>1 DEF Reports
  <2>3. CASE Tell(Head(to_hub[c]), c)
    BY <2>1, <2>2, <2>3, QueueTold DEF QueueInv
  <2>4. CASE UNCHANGED events
    BY <1>2, <2>1, <2>4
  <2> QED
    BY <1>6, <2>3, <2>4 DEF HostReads
<1>7. CASE UNCHANGED vars
  BY <1>2, <1>7 DEF vars
<1> QED
  BY <1>1, <1>3, <1>4, <1>5, <1>6, <1>7 DEF Next, HandleConnection

-----------------------------------------------------------------------------
(* SettledByPin.  An answer under way was given by the user of its rope.    *)

PinsAreHeeded ==
    \A c \in Conns : "right PIN" \in Range(to_hub[c]) \/ Told("right PIN", c) =>
        "right PIN" \in heeded[c]

LEMMA PinStep == TypeOK /\ PinsAreHeeded /\ [Next]_vars => PinsAreHeeded'
<1> SUFFICES ASSUME TypeOK, PinsAreHeeded, [Next]_vars PROVE PinsAreHeeded'
  OBVIOUS
<1>1. \A c \in Conns : heeded[c] \subseteq heeded'[c]
  BY Monotone
<1>2. ASSUME \A c \in Conns :
                /\ "right PIN" \in Range(to_hub'[c]) =>
                       "right PIN" \in Range(to_hub[c]) \/ "right PIN" \in heeded'[c]
                /\ Told("right PIN", c)' =>
                       "right PIN" \in Range(to_hub[c]) \/ Told("right PIN", c)
      PROVE  PinsAreHeeded'
  BY <1>1, <1>2 DEF PinsAreHeeded
<1>3. CASE OnEvent
  BY <1>2, <1>3, Handled DEF Told
<1>4. ASSUME NEW c \in Conns, Connect(c) PROVE PinsAreHeeded'
  BY <1>2, <1>4 DEF Connect, Told
<1>5. ASSUME NEW c \in Conns, Part(c) PROVE PinsAreHeeded'
  BY <1>2, <1>5, PartKeepsPrefix DEF Part, Told
<1>6. ASSUME NEW c \in Conns, Motion(c) PROVE PinsAreHeeded'
  <2>1. /\ \A d \in Conns \ {c} : to_hub'[d] = to_hub[d]
        /\ Range(to_hub'[c]) \subseteq Range(to_hub[c]) \cup {"motion_detected"}
    BY <1>6, ReportAppends DEF Motion, Reports
  <2>2. \A d \in Conns : "right PIN" \in Range(to_hub'[d]) =>
                            "right PIN" \in Range(to_hub[d])
    <3>1. "right PIN" # "motion_detected"
      OBVIOUS
    <3>2. "right PIN" \in Range(to_hub'[c]) => "right PIN" \in Range(to_hub[c])
      BY <2>1, <3>1, Zenon
    <3> QED
      BY <2>1, <3>2, Zenon
  <2>3. \A d \in Conns : Told("right PIN", d)' => Told("right PIN", d)
    BY <1>6 DEF Motion, Told
  <2> QED
    BY <1>2, <2>2, <2>3
<1>7. ASSUME NEW c \in Conns, HandleConnection(c) PROVE PinsAreHeeded'
  <2>1. PICK type \in {"RopeConnected", "RopeDisconnected"} : Tell(type, c)
    BY <1>7 DEF HandleConnection, Announce, AnnounceGone
  <2>2. Range(events') = Range(events) \cup {[type |-> type, conn |-> c]}
    BY <2>1, TellAppends
  <2> QED
    BY <1>2, <1>7, <2>1, <2>2 DEF HandleConnection, Announce, AnnounceGone, Told
<1>8. ASSUME NEW c \in Conns, HostReads(c) PROVE PinsAreHeeded'
  <2>1. /\ \A d \in Conns \ {c} : to_hub'[d] = to_hub[d]
        /\ Range(to_hub[c]) = {Head(to_hub[c])} \cup Range(to_hub'[c])
        /\ Head(to_hub[c]) \in Reports
    BY <1>8, HostReadsFirst
  <2>2. UNCHANGED events \/ Range(events') =
            Range(events) \cup {[type |-> Head(to_hub[c]), conn |-> c]}
    BY <1>8, <2>1, TellAppends DEF HostReads
  <2>3. \A d \in Conns : "right PIN" \in Range(to_hub'[d]) =>
                            "right PIN" \in Range(to_hub[d])
    BY <2>1
  <2>4. \A d \in Conns : Told("right PIN", d)' =>
            "right PIN" \in Range(to_hub[d]) \/ Told("right PIN", d)
    BY <2>1, <2>2 DEF Told
  <2> QED
    BY <1>2, <2>3, <2>4
<1>9. ASSUME NEW c \in Conns, NextEvent(c) PROVE PinsAreHeeded'
  <2>1. UNCHANGED to_hub \/
            \E pin \in {"right PIN", "wrong PIN", "Ack"} :
                Report(c, pin) /\ (pin # "Ack" => pin \in heeded'[c])
    BY <1>9, Loops
  <2>2. CASE UNCHANGED to_hub
    BY <1>2, <1>9, <2>2 DEF NextEvent, Told
  <2>3. ASSUME NEW pin \in {"right PIN", "wrong PIN", "Ack"},
               Report(c, pin), pin # "Ack" => pin \in heeded'[c]
        PROVE  PinsAreHeeded'
    <3>1. /\ \A d \in Conns \ {c} : to_hub'[d] = to_hub[d]
          /\ Range(to_hub'[c]) \subseteq Range(to_hub[c]) \cup {pin}
      BY <2>3, ReportAppends DEF Reports
    <3> QED
      BY <1>2, <1>9, <2>3, <3>1 DEF NextEvent, Told
  <2> QED
    BY <2>1, <2>2, <2>3
<1>10. CASE UNCHANGED vars
  BY <1>2, <1>10 DEF vars, Told
<1> QED
  BY <1>3, <1>4, <1>5, <1>6, <1>7, <1>8, <1>9, <1>10 DEF Next

\* What each event does to pending_2fa.
LEMMA PendingHandled ==
    ASSUME TypeOK, OnEvent
    PROVE  LET e == Head(events)
               r == Rope(e.conn)
           IN  /\ app # "two_factor" => UNCHANGED pending
               /\ app = "two_factor" =>
                    \/ e.type = "RopeConnected" /\ r \in Administrators /\ UNCHANGED pending
                    \/ /\ e.type = "RopeConnected" /\ r \notin Administrators
                       /\ pending' = pending \cup {r} /\ Order(Challenge(e.conn))
                    \/ e.type \in {"RopeDisconnected", "right PIN"} /\ pending' = pending \ {r}
                    \/ e.type = "wrong PIN" /\ UNCHANGED pending
BY Handled DEF SmartHome, Commands, TwoFactor, Forget, Settle

\* Apart from on_event, only the two announcements of a connection touch what
\* the hub holds of it and has been told of its start and end.
LEMMA ElsewhereKept ==
    ASSUME TypeOK, [Next]_vars, ~OnEvent
    PROVE  /\ UNCHANGED pending /\ Range(events) \subseteq Range(events')
           /\ \A c \in Conns :
                  /\ host[c] = "handshake" /\ host'[c] # "handshake" =>
                         Told("RopeConnected", c)'
                  /\ Told("RopeConnected", c)' =>
                         Told("RopeConnected", c) \/ host[c] = "handshake"
                  /\ host[c] = "serving" =>
                         host'[c] = "serving" \/ Told("RopeDisconnected", c)'
<1> DEFINE Goal == /\ UNCHANGED pending /\ Range(events) \subseteq Range(events')
                   /\ \A c \in Conns :
                          /\ host[c] = "handshake" /\ host'[c] # "handshake" =>
                                 Told("RopeConnected", c)'
                          /\ Told("RopeConnected", c)' =>
                                 Told("RopeConnected", c) \/ host[c] = "handshake"
                          /\ host[c] = "serving" =>
                                 host'[c] = "serving" \/ Told("RopeDisconnected", c)'
<1>0. host \in [Conns -> {"handshake", "serving", "ended"}]
  BY DEF TypeOK
<1>1. UNCHANGED <<pending, events, host>> => Goal
  BY DEF Told
<1>2. ASSUME NEW c \in Conns, Connect(c) \/ Part(c) \/ Motion(c) \/ NextEvent(c)
      PROVE  Goal
  BY <1>1, <1>2 DEF Connect, Part, Motion, NextEvent
<1>3. ASSUME NEW c \in Conns, HandleConnection(c) PROVE Goal
  <2>1. PICK type \in {"RopeConnected", "RopeDisconnected"} :
            /\ Tell(type, c) /\ UNCHANGED pending
            /\ \A d \in Conns \ {c} : host'[d] = host[d]
            /\ type = IF host[c] = "handshake" THEN "RopeConnected"
                                               ELSE "RopeDisconnected"
    BY <1>0, <1>3 DEF HandleConnection, Announce, AnnounceGone, appRest
  <2>2. Range(events') = Range(events) \cup {[type |-> type, conn |-> c]}
    BY <2>1, TellAppends
  <2> QED
    BY <2>1, <2>2 DEF Told
<1>4. ASSUME NEW c \in Conns, HostReads(c) PROVE Goal
  <2>1. UNCHANGED events \/ Range(events') =
            Range(events) \cup {[type |-> Head(to_hub[c]), conn |-> c]}
    BY <1>4, HostReadsFirst, TellAppends DEF HostReads
  <2>2. Head(to_hub[c]) # "RopeConnected"
    BY <1>4, HostReadsFirst DEF Reports
  <2>3. \A d \in Conns : Told("RopeConnected", d)' => Told("RopeConnected", d)
    BY <2>1, <2>2 DEF Told
  <2> QED
    BY <1>4, <2>1, <2>3 DEF HostReads, appRest
<1>5. UNCHANGED vars => Goal
  BY <1>1 DEF vars
<1> QED
  BY <1>2, <1>3, <1>4, <1>5 DEF Next

Settled(c) ==
    Ended(Rope(c)) \/ \E d \in Conns :
        Rope(d) = Rope(c) /\ "right PIN" \in heeded[d]

LEMMA SettledStep ==
    TypeOK /\ QueueInv /\ PinsAreHeeded /\ SettledByPin /\ [Next]_vars => SettledByPin'
<1> SUFFICES ASSUME TypeOK, QueueInv, PinsAreHeeded, SettledByPin, [Next]_vars,
                    app' = "two_factor", NEW c \in Conns,
                    host'[c] # "handshake", ~Told("RopeConnected", c)',
                    Rope(c)' \notin Administrators \cup pending'
             PROVE  Settled(c)'
  BY DEF SettledByPin, Settled
<1>1. /\ app = "two_factor" /\ \A d \in Conns : Rope(d)' = Rope(d)
      /\ Rope(c) \notin Administrators
  BY Monotone DEF Rope
<1>2. Settled(c) => Settled(c)'
  BY <1>1, Monotone DEF Settled, Ended
<1>3. host[c] # "handshake" /\ Rope(c) \notin pending /\ ~Told("RopeConnected", c)
          => Settled(c)
  BY <1>1 DEF SettledByPin, Settled
<1>4. CASE OnEvent
  <2> DEFINE e == Head(events)
  <2>1. /\ e \in HubEvents /\ Range(events) = {e} \cup Range(events')
        /\ UNCHANGED host
    BY <1>4, Handled
  <2>2. \/ /\ e.type = "RopeConnected" /\ Rope(e.conn) \in Administrators
           /\ UNCHANGED pending
        \/ e.type = "RopeConnected" /\ pending' = pending \cup {Rope(e.conn)}
        \/ /\ e.type \in {"RopeDisconnected", "right PIN"}
           /\ pending' = pending \ {Rope(e.conn)}
        \/ e.type = "wrong PIN" /\ UNCHANGED pending
    BY <1>1, <1>4, PendingHandled
  <2>3. e.conn \in Conns /\ e = [type |-> e.type, conn |-> e.conn]
    BY <2>1 DEF HubEvents
  <2> HIDE DEF e
  <2>4. CASE Told("RopeConnected", c)
    <3>1. e.conn = c /\ e.type = "RopeConnected"
      BY <2>1, <2>4 DEF Told
    <3> QED
      BY <1>1, <2>2, <3>1
  <2>5. CASE ~Told("RopeConnected", c) /\ Rope(c) \in pending
    <3>1. Rope(c) \notin pending'
      BY <1>1
    <3>2. e.type \in {"RopeDisconnected", "right PIN"} /\ Rope(e.conn) = Rope(c)
      BY <2>2, <2>5, <3>1
    <3>3. Told(e.type, e.conn)
      BY <2>1, <2>3 DEF Told
    <3>4. CASE e.type = "RopeDisconnected"
      BY <1>2, <2>3, <3>2, <3>3, <3>4 DEF QueueInv, Settled, Ended
    <3>5. CASE e.type = "right PIN"
      BY <1>2, <2>3, <3>2, <3>3, <3>5 DEF PinsAreHeeded, Settled
    <3> QED
      BY <3>2, <3>4, <3>5
  <2> QED
    BY <1>1, <1>2, <1>3, <2>1, <2>4, <2>5
<1>5. CASE ~OnEvent
  <2>1. /\ UNCHANGED pending
        /\ Told("RopeConnected", c) => Told("RopeConnected", c)'
        /\ host[c] = "handshake" => Told("RopeConnected", c)'
    BY <1>5, ElsewhereKept DEF Told
  <2> QED
    BY <1>1, <1>2, <1>3, <2>1
<1> QED
  BY <1>4, <1>5

HubInv == TypeOK /\ QueueInv

THEOREM HubInvariance == Spec => []HubInv
<1>1. Init => QueueInv
  <2>1. Range(<<>>) = {} /\ DOMAIN <<>> = {}
    BY DEF Range
  <2> QED
    BY <2>1 DEF Init, QueueInv, Told
<1>2. Spec => []TypeOK
  BY TypeCorrectness
<1> QED
  BY <1>1, <1>2, QueueStep, PTL DEF Spec, HubInv

\* The hub of 09_interactive_admission_2fa lets no device out of verification
\* unasked: its user has entered the PIN, or a connection under its rope_id has
\* ended, however many connections share rope_ids, and in whatever order their
\* answers and their ends are heard of.
THEOREM SettlingNeedsPin == Spec => []SettledByPin
<1>1. Init => PinsAreHeeded /\ SettledByPin
  <2>1. Range(<<>>) = {}
    BY DEF Range
  <2> QED
    BY <2>1 DEF Init, PinsAreHeeded, SettledByPin, Told
<1>2. HubInv => TypeOK /\ QueueInv
  BY DEF HubInv
<1> QED
  BY <1>1, <1>2, PinStep, SettledStep, HubInvariance, PTL DEF Spec

-----------------------------------------------------------------------------
(* What is under way stays under way, in the next place on its path, as     *)
(* long as the connection that carries it does not end.                     *)

\* What a rope makes of the order it takes.
HeededAs(x, c) ==
    /\ x = "gate_lock_command" => "secured" \in heeded'[c]
    /\ x = "2fa_challenge" =>
           \E pin \in {"right PIN", "wrong PIN"} :
               pin \in heeded'[c] /\ (link[c] = "up" => pin \in Range(to_hub'[c]))
    /\ x = "Command" /\ link[c] = "up" => "Ack" \in Range(to_hub'[c])

LEMMA OrdersCarried ==
    ASSUME TypeOK, [Next]_vars, NEW c \in Conns,
           ~(link[c] = "up" /\ link'[c] = "gone")
    PROVE  \A x \in Range(to_rope[c]) : x \in Range(to_rope'[c]) \/ HeededAs(x, c)
<1> DEFINE Goal == \A x \in Range(to_rope[c]) :
                       x \in Range(to_rope'[c]) \/ HeededAs(x, c)
<1>1. Range(to_rope[c]) \subseteq Range(to_rope'[c]) => Goal
  OBVIOUS
<1>2. UNCHANGED to_rope => Goal
  OBVIOUS
<1>3. CASE OnEvent
  BY <1>1, <1>3, Handled
<1>4. ASSUME NEW d \in Conns,
             Connect(d) \/ Motion(d) \/ HandleConnection(d) \/ HostReads(d)
      PROVE  Goal
  BY <1>2, <1>4 DEF Connect, Motion, HandleConnection, Announce, AnnounceGone,
                    HostReads
<1>5. ASSUME NEW d \in Conns, Part(d) PROVE Goal
  <2>1. d # c
    BY <1>5, PartKeepsPrefix DEF TypeOK
  <2> QED
    BY <1>1, <1>5, <2>1, PartKeepsPrefix
<1>6. ASSUME NEW d \in Conns, NextEvent(d) PROVE Goal
  <2>1. CASE d # c
    BY <1>1, <1>6, <2>1, NextEventFirst
  <2>2. CASE d = c
    <3> DEFINE order == Head(to_rope[c])
    <3>1. Range(to_rope[c]) = {order} \cup Range(to_rope'[c])
      BY <1>6, <2>2, NextEventFirst
    <3>2. /\ order = "gate_lock_command" => "secured" \in heeded'[c]
          /\ \/ UNCHANGED to_hub /\ order \notin {"2fa_challenge", "Command"}
             \/ \E pin \in {"right PIN", "wrong PIN"} :
                    order = "2fa_challenge" /\ pin \in heeded'[c] /\ Report(c, pin)
             \/ order = "Command" /\ Report(c, "Ack")
      BY <1>6, <2>2, Loops
    <3>3. \A report \in {"right PIN", "wrong PIN", "Ack"} :
              Report(c, report) /\ link[c] = "up" => report \in Range(to_hub'[c])
      BY ReportAppends DEF Reports
    <3> HIDE DEF order
    <3>4. HeededAs(order, c)
      BY <3>2, <3>3 DEF HeededAs
    <3> QED
      BY <3>1, <3>4
  <2> QED
    BY <2>1, <2>2
<1>7. CASE UNCHANGED vars
  BY <1>2, <1>7 DEF vars
<1> QED
  BY <1>3, <1>4, <1>5, <1>6, <1>7 DEF Next

\* What the host's reader makes of the report it reads.
ReadAs(x, c) == IF x = "Ack" THEN c \in acked' ELSE Told(x, c)'

LEMMA ReportsCarried ==
    ASSUME TypeOK, [Next]_vars, NEW c \in Conns,
           ~(link[c] = "up" /\ link'[c] = "gone")
    PROVE  \A x \in Range(to_hub[c]) : x \in Range(to_hub'[c]) \/ ReadAs(x, c)
<1> DEFINE Goal == \A x \in Range(to_hub[c]) :
                       x \in Range(to_hub'[c]) \/ ReadAs(x, c)
<1>1. Range(to_hub[c]) \subseteq Range(to_hub'[c]) => Goal
  OBVIOUS
<1>2. UNCHANGED to_hub => Goal
  OBVIOUS
<1>3. ASSUME NEW d \in Conns, NEW report \in Reports, Report(d, report) PROVE Goal
  <2>1. /\ d # c => to_hub'[c] = to_hub[c]
        /\ d = c => Range(to_hub[c]) \subseteq Range(to_hub'[c])
    BY <1>3, ReportAppends
  <2> QED
    BY <1>1, <2>1
<1>4. CASE OnEvent
  BY <1>2, <1>4, Handled
<1>5. ASSUME NEW d \in Conns, Connect(d) \/ HandleConnection(d) PROVE Goal
  BY <1>2, <1>5 DEF Connect, HandleConnection, Announce, AnnounceGone
<1>6. ASSUME NEW d \in Conns, Motion(d) PROVE Goal
  BY <1>3, <1>6 DEF Motion, Reports
<1>7. ASSUME NEW d \in Conns, Part(d) PROVE Goal
  <2>1. d # c
    BY <1>7, PartKeepsPrefix DEF TypeOK
  <2> QED
    BY <1>1, <1>7, <2>1, PartKeepsPrefix
<1>8. ASSUME NEW d \in Conns, HostReads(d) PROVE Goal
  <2>1. CASE d # c
    BY <1>1, <1>8, <2>1, HostReadsFirst
  <2>2. CASE d = c
    <3>0. PICK report : report = Head(to_hub[c])
      OBVIOUS
    <3>1. Range(to_hub[c]) = {report} \cup Range(to_hub'[c]) /\ report \in Reports
      BY <1>8, <2>2, <3>0, HostReadsFirst
    <3>2. \/ report # "Ack" /\ Tell(report, c)
          \/ report = "Ack" /\ acked' = acked \cup {c}
      BY <1>8, <2>2, <3>0 DEF HostReads
    <3>3. ASSUME Tell(report, c) PROVE Told(report, c)'
      <4>1. Range(events') = Range(events) \cup {[type |-> report, conn |-> c]}
        BY <3>1, <3>3, TellAppends
      <4> QED
        BY <4>1 DEF Told
    <3>4. ReadAs(report, c)
      BY <3>2, <3>3 DEF ReadAs
    <3> QED
      BY <3>1, <3>4
  <2> QED
    BY <2>1, <2>2
<1>9. ASSUME NEW d \in Conns, NextEvent(d) PROVE Goal
  <2>1. UNCHANGED to_hub \/ \E report \in {"right PIN", "wrong PIN", "Ack"} :
                                Report(d, report)
    BY <1>9, Loops
  <2> QED
    BY <1>2, <1>3, <2>1 DEF Reports
<1>10. CASE UNCHANGED vars
  BY <1>2, <1>10 DEF vars
<1> QED
  BY <1>4, <1>5, <1>6, <1>7, <1>8, <1>9, <1>10 DEF Next

\* An event stays in the queue until it is the one that is handled.
LEMMA EventsCarried ==
    ASSUME TypeOK, [Next]_vars
    PROVE  \A type, c : Told(type, c) =>
               \/ Told(type, c)'
               \/ OnEvent /\ Head(events) = [type |-> type, conn |-> c]
<1> SUFFICES ASSUME NEW type, NEW c, Told(type, c)
             PROVE  \/ Told(type, c)'
                    \/ OnEvent /\ Head(events) = [type |-> type, conn |-> c]
  OBVIOUS
<1>1. CASE OnEvent
  <2>1. Range(events) = {Head(events)} \cup Range(events')
    BY <1>1, Handled
  <2> QED
    BY <1>1, <2>1 DEF Told
<1>2. CASE ~OnEvent
  <2>1. Range(events) \subseteq Range(events')
    BY <1>2, ElsewhereKept
  <2> QED
    BY <2>1 DEF Told
<1> QED
  BY <1>1, <1>2

-----------------------------------------------------------------------------
(* CommandUnderWay.                                                         *)

LEMMA CommandStep ==
    TypeOK /\ QueueInv /\ CommandUnderWay /\ [Next]_vars => CommandUnderWay'
<1> DEFINE OnItsWay(c) == \/ host[c] = "handshake" \/ Told("RopeConnected", c)
                          \/ "Command" \in Range(to_rope[c])
                          \/ "Ack" \in Range(to_hub[c])
                          \/ c \in acked
<1> SUFFICES ASSUME TypeOK, QueueInv, CommandUnderWay, [Next]_vars,
                    app' = "commands", NEW c \in Conns, link'[c] = "up"
             PROVE  OnItsWay(c)'
  BY DEF CommandUnderWay
<1>1. app = "commands" /\ link[c] \in {"up", "idle"}
  BY Monotone
<1>2. CASE host[c] = "handshake"
  <2>1. OnEvent => host'[c] = "handshake"
    BY <1>2, Handled
  <2> QED
    BY <1>2, <2>1, ElsewhereKept
<1>3. CASE host[c] # "handshake"
  <2>1. link[c] = "up" /\ OnItsWay(c)
    BY <1>1, <1>3 DEF QueueInv, CommandUnderWay
  <2>2. CASE Told("RopeConnected", c)
    <3>1. SUFFICES ASSUME OnEvent, Head(events) = [type |-> "RopeConnected", conn |-> c]
                   PROVE  "Command" \in Range(to_rope'[c])
      BY <2>2, EventsCarried
    <3>2. Order([d \in {c} |-> "Command"])
      BY <1>1, <3>1, Handled DEF Commands, Greet
    <3>3. \A b \in Conns : b \in DOMAIN [d \in {c} |-> "Command"] =>
              [d \in {c} |-> "Command"][b] \in Orders
      BY DEF Orders
    <3>4. c \in DOMAIN [d \in {c} |-> "Command"]
          /\ [d \in {c} |-> "Command"][c] = "Command"
      OBVIOUS
    <3> HIDE DEF Order
    <3> QED
      BY <2>1, <3>2, <3>3, <3>4, Ordered
  <2>3. CASE "Command" \in Range(to_rope[c])
    BY <2>1, <2>3, OrdersCarried DEF HeededAs
  <2>4. CASE "Ack" \in Range(to_hub[c])
    BY <2>1, <2>4, ReportsCarried DEF ReadAs
  <2>5. CASE c \in acked
    <3>1. acked \subseteq acked'
      BY DEF Next, vars, OnEvent, Connect, Part, Motion, HandleConnection, Announce,
             AnnounceGone, HostReads, NextEvent
    <3> QED
      BY <2>5, <3>1
  <2> QED
    BY <1>3, <2>1, <2>2, <2>3, <2>4, <2>5
<1> QED
  BY <1>2, <1>3

\* The hub of 04_commands_ack has greeted every rope it has heard of, or is
\* about to, and no greeting or acknowledgement disappears before its rope does,
\* whatever other ropes come and go.
THEOREM GreetingsAreCarried == Spec => []CommandUnderWay
<1>1. Init => CommandUnderWay
  BY DEF Init, CommandUnderWay
<1>2. HubInv => TypeOK /\ QueueInv
  BY DEF HubInv
<1> QED
  BY <1>1, <1>2, CommandStep, HubInvariance, PTL DEF Spec

-----------------------------------------------------------------------------
(* AlarmUnderWay.  The sender the hub holds under a rope_id is one of a     *)
(* connection of that rope, and only a camera reports motion.               *)

AlarmInv ==
    /\ alarm => app = "smart_home"
    /\ \A r \in RopeIds : senders[r] # NoConn => host[senders[r]] # "handshake"
    /\ \A c \in Conns : "motion_detected" \in Range(to_hub[c]) => Rope(c) = Camera

\* Only a step of the camera adds a motion to what is on its way to the hub.
LEMMA MotionsReported ==
    ASSUME TypeOK, [Next]_vars, NEW c \in Conns,
           "motion_detected" \in Range(to_hub'[c])
    PROVE  "motion_detected" \in Range(to_hub[c]) \/ Motion(c)
<1> DEFINE Goal == "motion_detected" \in Range(to_hub[c]) \/ Motion(c)
<1>1. Range(to_hub'[c]) \subseteq Range(to_hub[c]) => Goal
  OBVIOUS
<1>2. UNCHANGED to_hub => Goal
  OBVIOUS
<1>3. ASSUME NEW d \in Conns, NEW report \in Reports, Report(d, report),
             d = c => report # "motion_detected"
      PROVE  Goal
  <2>1. /\ d # c => to_hub'[c] = to_hub[c]
        /\ d = c => Range(to_hub'[c]) \subseteq Range(to_hub[c]) \cup {report}
    BY <1>3, ReportAppends
  <2> QED
    BY <1>1, <1>3, <2>1
<1>4. CASE OnEvent
  BY <1>2, <1>4, Handled
<1>5. ASSUME NEW d \in Conns, Connect(d) \/ HandleConnection(d) PROVE Goal
  BY <1>2, <1>5 DEF Connect, HandleConnection, Announce, AnnounceGone
<1>6. ASSUME NEW d \in Conns, Motion(d) PROVE Goal
  BY <1>3, <1>6 DEF Motion, Reports
<1>7. ASSUME NEW d \in Conns, Part(d) PROVE Goal
  BY <1>1, <1>7, PartKeepsPrefix
<1>8. ASSUME NEW d \in Conns, HostReads(d) PROVE Goal
  BY <1>1, <1>8, HostReadsFirst
<1>9. ASSUME NEW d \in Conns, NextEvent(d) PROVE Goal
  <2>1. UNCHANGED to_hub \/ \E report \in {"right PIN", "wrong PIN", "Ack"} :
                                Report(d, report)
    BY <1>9, Loops
  <2>2. \A report \in {"right PIN", "wrong PIN", "Ack"} :
            report \in Reports /\ report # "motion_detected"
    BY DEF Reports
  <2> QED
    BY <1>2, <1>3, <2>1, <2>2
<1>10. CASE UNCHANGED vars
  BY <1>2, <1>10 DEF vars
<1> QED
  BY <1>4, <1>5, <1>6, <1>7, <1>8, <1>9, <1>10 DEF Next

LEMMA AlarmInvStep == TypeOK /\ QueueInv /\ AlarmInv /\ [Next]_vars => AlarmInv'
<1> SUFFICES ASSUME TypeOK, QueueInv, AlarmInv, [Next]_vars PROVE AlarmInv'
  OBVIOUS
<1>1. app' = app /\ \A c \in Conns : /\ Rope(c)' = Rope(c)
                                     /\ host[c] # "handshake" => host'[c] # "handshake"
  BY Monotone DEF Rope
<1>2. senders \in [RopeIds -> Conns \cup {NoConn}]
  BY DEF TypeOK
<1>3. alarm' => app' = "smart_home"
  BY <1>1 DEF Next, vars, OnEvent, Connect, Part, Motion, HandleConnection, Announce,
              AnnounceGone, HostReads, NextEvent, appRest, AlarmInv
<1>4. ASSUME NEW r \in RopeIds, senders'[r] # NoConn
      PROVE  host'[senders'[r]] # "handshake"
  <2>1. CASE senders'[r] = senders[r]
    BY <1>1, <1>2, <1>4, <2>1 DEF AlarmInv
  <2>2. CASE senders'[r] # senders[r]
    <3> DEFINE e == Head(events)
    <3>1. OnEvent
      BY <2>2 DEF Next, vars, Connect, Part, Motion, HandleConnection, Announce,
                  AnnounceGone, HostReads, NextEvent, appRest
    <3>2. e \in HubEvents /\ 1 \in DOMAIN events /\ e = events[1]
      BY <3>1, Handled DEF TypeOK
    <3>3. e.conn \in Conns /\ host[e.conn] # "handshake"
      BY <3>2 DEF HubEvents, QueueInv
    <3>4. Hold(Rope(e.conn), e.conn) \/ Hold(Rope(e.conn), NoConn) \/ UNCHANGED senders
      BY <3>1, Handled DEF SmartHome, TwoFactor, Commands, Forget
    <3> HIDE DEF e
    <3>5. senders'[r] = e.conn
      BY <1>2, <1>4, <2>2, <3>4 DEF Hold
    <3> QED
      BY <1>1, <3>3, <3>5
  <2> QED
    BY <2>1, <2>2
<1>5. ASSUME NEW c \in Conns, "motion_detected" \in Range(to_hub'[c])
      PROVE  Rope(c)' = Camera
  <2>1. "motion_detected" \in Range(to_hub[c]) \/ Rope(c) = Camera
    BY <1>5, MotionsReported DEF Motion
  <2> QED
    BY <1>1, <2>1 DEF AlarmInv
<1> QED
  BY <1>3, <1>4, <1>5 DEF AlarmInv

\* The gate's sender is not the light's, so the gate is sent its own order.
LEMMA GateOrdered ==
    ASSUME TypeOK, QueueInv, AlarmInv, OnEvent, app = "smart_home",
           Head(events).type = "motion_detected",
           senders[Gate] # NoConn, ~Ended(Gate)
    PROVE  /\ senders[Gate] \in Conns /\ Rope(senders[Gate]) = Gate
           /\ "gate_lock_command" \in Range(to_rope'[senders[Gate]])
<1> DEFINE g == senders[Gate]
<1>1. Gate \in RopeIds /\ Light \in RopeIds /\ Gate # Light
  BY ExampleHubsAssumption
<1>2. /\ g \in Conns /\ Rope(g) = Gate /\ host[g] # "handshake"
      /\ senders[Light] # NoConn => Rope(senders[Light]) = Light
  BY <1>1 DEF TypeOK, AlarmInv
<1>3. link[g] = "up"
  BY <1>2 DEF QueueInv, TypeOK, Ended
<1>4. g # senders[Light]
  BY <1>1, <1>2
<1>5. Order(OnMotion)
  BY Handled DEF SmartHome
<1>6. g \in DOMAIN OnMotion /\ OnMotion[g] = "gate_lock_command"
  BY <1>4 DEF OnMotion
<1>7. \A c \in Conns : c \in DOMAIN OnMotion => OnMotion[c] \in Orders
  BY OrdersOf, <1>2
<1> HIDE DEF g
<1>8. "gate_lock_command" \in Range(to_rope'[g])
  BY <1>2, <1>3, <1>5, <1>6, <1>7, Ordered
<1> QED
  BY <1>2, <1>8 DEF g

LEMMA AlarmStep ==
    TypeOK /\ QueueInv /\ AlarmInv /\ AlarmUnderWay /\ [Next]_vars => AlarmUnderWay'
<1> DEFINE Seen == \E c \in Conns : \/ "motion_detected" \in Range(to_hub[c])
                                    \/ Told("motion_detected", c)
           Sent == \E c \in Conns :
                       /\ Rope(c) = Gate
                       /\ \/ "gate_lock_command" \in Range(to_rope[c])
                          \/ "secured" \in heeded[c]
           Goal == \/ Ended(Gate)' \/ Ended(Camera)'
                   \/ senders'[Gate] # NoConn /\ Seen'
                   \/ Sent'
<1> SUFFICES ASSUME TypeOK, QueueInv, AlarmInv, AlarmUnderWay, [Next]_vars, alarm'
             PROVE  Goal
  BY DEF AlarmUnderWay
<1>1. \A c \in Conns : /\ Rope(c)' = Rope(c) /\ heeded[c] \subseteq heeded'[c]
                       /\ link[c] = "gone" => link'[c] = "gone"
  BY Monotone DEF Rope
<1>2. \A r : Ended(r) => Ended(r)'
  BY <1>1 DEF Ended
<1>3. ASSUME ~alarm PROVE Goal
  <2>1. PICK c \in Conns : Motion(c) /\ senders[Gate] # NoConn
    BY <1>3 DEF Next, vars, OnEvent, Connect, Part, HandleConnection, Announce,
                AnnounceGone, appRest, HostReads, NextEvent, Motion
  <2>2. "motion_detected" \in Range(to_hub'[c])
    BY <2>1, ReportAppends DEF Motion, Reports
  <2> QED
    BY <2>1, <2>2 DEF Motion
<1>4. ASSUME alarm, ~Ended(Gate)', ~Ended(Camera)', Sent PROVE Goal
  <2>1. PICK c \in Conns : /\ Rope(c) = Gate
                           /\ \/ "gate_lock_command" \in Range(to_rope[c])
                              \/ "secured" \in heeded[c]
    BY <1>4
  <2>2. link'[c] # "gone"
    BY <1>1, <1>4, <2>1 DEF Ended
  <2>3. \/ "gate_lock_command" \in Range(to_rope'[c])
        \/ "secured" \in heeded'[c]
    BY <1>1, <2>1, <2>2, OrdersCarried DEF HeededAs
  <2> QED
    BY <1>1, <2>1, <2>3
<1>5. ASSUME alarm, ~Ended(Gate)', ~Ended(Camera)', senders[Gate] # NoConn, Seen
      PROVE  Goal
  <2>1. app = "smart_home"
    BY <1>5 DEF AlarmInv
  <2>2. PICK c \in Conns : \/ "motion_detected" \in Range(to_hub[c])
                           \/ Told("motion_detected", c)
    BY <1>5
  <2>3. CASE OnEvent /\ Head(events).type = "motion_detected"
    <3>1. ~Ended(Gate)
      BY <1>2, <1>5
    <3> QED
      BY <1>1, <1>5, <2>1, <2>3, <3>1, GateOrdered
  <2>4. CASE ~(OnEvent /\ Head(events).type = "motion_detected")
    <3>1. "motion_detected" \in Range(to_hub'[c]) \/ Told("motion_detected", c)'
      <4>1. CASE "motion_detected" \in Range(to_hub[c])
        <5>1. link'[c] # "gone"
          BY <1>1, <1>5, <4>1 DEF AlarmInv, Ended
        <5> QED
          BY <4>1, <5>1, ReportsCarried DEF ReadAs
      <4>2. CASE Told("motion_detected", c)
        BY <2>4, <4>2, EventsCarried
      <4> QED
        BY <2>2, <4>1, <4>2
    <3>2. senders'[Gate] # NoConn
      <4>1. CASE OnEvent
        <5> DEFINE e == Head(events)
        <5>1. e \in HubEvents /\ Range(events) = {e} \cup Range(events')
              /\ SmartHome(e.type, e.conn)
          BY <2>1, <4>1, Handled
        <5>2. e = [type |-> e.type, conn |-> e.conn] /\ e.conn \in Conns
          BY <5>1 DEF HubEvents
        <5> HIDE DEF e
        <5>3. e.type = "RopeDisconnected" => Ended(Rope(e.conn))
          BY <5>1, <5>2 DEF Told, QueueInv, Ended
        <5>4. \/ Hold(Rope(e.conn), e.conn) \/ UNCHANGED senders
              \/ Hold(Rope(e.conn), NoConn) /\ Rope(e.conn) # Gate
          BY <1>2, <1>5, <5>1, <5>3 DEF SmartHome
        <5> QED
          BY <1>5, <5>2, <5>4, ExampleHubsAssumption DEF Hold, TypeOK, Conns, NoConn
      <4>2. CASE ~OnEvent
        BY <1>5, <4>2 DEF Next, vars, Connect, Part, Motion, HandleConnection,
               Announce, AnnounceGone, HostReads, NextEvent, appRest
      <4> QED
        BY <4>1, <4>2
    <3> QED
      BY <3>1, <3>2
  <2> QED
    BY <2>3, <2>4
<1> QED
  BY <1>2, <1>3, <1>4, <1>5 DEF AlarmUnderWay

\* The hub of 08_smart_home does not lose an alarm: the motion is on its way to
\* it, or the order to the gate is, or the gate is locked, until the connection
\* of one of the two ends.
THEOREM AlarmsAreCarried == Spec => []AlarmUnderWay
<1>1. Init => AlarmInv /\ AlarmUnderWay
  <2>1. Range(<<>>) = {}
    BY DEF Range
  <2> QED
    BY <2>1 DEF Init, AlarmInv, AlarmUnderWay
<1>2. HubInv => TypeOK /\ QueueInv
  BY DEF HubInv
<1> QED
  BY <1>1, <1>2, AlarmInvStep, AlarmStep, HubInvariance, PTL DEF Spec

-----------------------------------------------------------------------------
(* ChallengeUnderWay.  A pending device is one whose connection the hub has *)
(* heard of, and has yet to hear the end of, or the answer.                 *)

Due(c) ==
    /\ host[c] # "handshake" /\ ~Told("RopeConnected", c)
    /\ host[c] = "serving" \/ Told("RopeDisconnected", c)
    /\ \/ link[c] = "gone" \/ "2fa_challenge" \in Range(to_rope[c])
       \/ "right PIN" \in Range(to_hub[c]) \/ Told("right PIN", c)
       \/ "wrong PIN" \in heeded[c]

PendingInv ==
    /\ app # "two_factor" => pending = {}
    /\ \A r \in pending : \E c \in Conns : Rope(c) = r /\ Due(c)

\* The hub takes a device in for verification.
LEMMA DueFromTheStart ==
    ASSUME TypeOK, QueueInv, [Next]_vars, OnEvent, NEW c \in Conns,
           Head(events) = [type |-> "RopeConnected", conn |-> c],
           Order(Challenge(c))
    PROVE  Due(c)'
<1>1. /\ Range(events) = {Head(events)} \cup Range(events') /\ UNCHANGED <<link, host>>
      /\ events # <<>> /\ events' = Tail(events) /\ events \in Seq(HubEvents)
  BY Handled DEF TypeOK
<1>2. /\ 1 \in DOMAIN events /\ Head(events) = events[1]
      /\ \A i \in DOMAIN events' : /\ i \in Nat /\ i # 0 /\ i + 1 \in DOMAIN events
                                   /\ events'[i] = events[i + 1]
  BY <1>1
<1>3. host[c] # "handshake" /\ link[c] # "idle"
  BY <1>2 DEF QueueInv
<1>4. ~Told("RopeConnected", c)'
  <2> SUFFICES ASSUME NEW i \in DOMAIN events',
                      events'[i] = [type |-> "RopeConnected", conn |-> c]
               PROVE  FALSE
    BY DEF Told, Range
  <2>1. events[i + 1].type = "RopeConnected" /\ events[1].conn = events[i + 1].conn
    BY <1>2
  <2>2. i + 1 <= 1
    BY <1>2, <2>1 DEF QueueInv
  <2> QED
    BY <1>2, <2>2
<1>5. host[c] = "serving" \/ Told("RopeDisconnected", c)'
  <2>1. Told("RopeConnected", c)
    BY <1>1 DEF Told
  <2>2. host[c] = "ended" => Told("RopeDisconnected", c)
    BY <2>1 DEF QueueInv
  <2> QED
    BY <1>1, <1>3, <2>2 DEF Told, TypeOK
<1>6. link[c] = "gone" \/ "2fa_challenge" \in Range(to_rope'[c])
  <2>1. link[c] = "up" => "2fa_challenge" \in Range(to_rope'[c])
    BY OrdersOf, Ordered
  <2> QED
    BY <1>3, <2>1 DEF TypeOK
<1> QED
  BY <1>1, <1>3, <1>4, <1>5, <1>6 DEF Due

\* No step but the handling of the connection's end, or of the PIN, ends a wait.
LEMMA DueUntilSettled ==
    ASSUME TypeOK, QueueInv, [Next]_vars, NEW c \in Conns, Due(c),
           OnEvent => Head(events) \notin {[type |-> "RopeDisconnected", conn |-> c],
                                         [type |-> "right PIN", conn |-> c]}
    PROVE  Due(c)'
<1>1. /\ host'[c] # "handshake" /\ heeded[c] \subseteq heeded'[c]
      /\ link[c] = "gone" => link'[c] = "gone"
  BY Monotone DEF Due
<1>2. link[c] \in {"up", "gone"}
  BY DEF Due, QueueInv, TypeOK
<1>3. ~Told("RopeConnected", c)'
  <2>1. OnEvent => (Told("RopeConnected", c)' => Told("RopeConnected", c))
    BY Handled DEF Told
  <2>2. ~OnEvent => (Told("RopeConnected", c)' =>
            Told("RopeConnected", c) \/ host[c] = "handshake")
    BY ElsewhereKept
  <2> QED
    BY <2>1, <2>2 DEF Due
<1>4. host'[c] = "serving" \/ Told("RopeDisconnected", c)'
  <2>1. Told("RopeDisconnected", c) => Told("RopeDisconnected", c)'
    BY EventsCarried
  <2>2. host[c] = "serving" => host'[c] = "serving" \/ Told("RopeDisconnected", c)'
    BY Handled, ElsewhereKept
  <2> QED
    BY <2>1, <2>2 DEF Due
<1>5. \/ link'[c] = "gone" \/ "2fa_challenge" \in Range(to_rope'[c])
      \/ "right PIN" \in Range(to_hub'[c]) \/ Told("right PIN", c)'
      \/ "wrong PIN" \in heeded'[c]
  <2>1. CASE link'[c] = "gone"
    BY <2>1
  <2>2. CASE link[c] = "up" /\ link'[c] # "gone"
    <3>1. "2fa_challenge" \in Range(to_rope[c]) =>
              \/ "2fa_challenge" \in Range(to_rope'[c])
              \/ "right PIN" \in Range(to_hub'[c])
              \/ "wrong PIN" \in heeded'[c]
      BY <2>2, OrdersCarried DEF HeededAs
    <3>2. "right PIN" \in Range(to_hub[c]) =>
              "right PIN" \in Range(to_hub'[c]) \/ Told("right PIN", c)'
      BY <2>2, ReportsCarried DEF ReadAs
    <3>3. Told("right PIN", c) => Told("right PIN", c)'
      BY EventsCarried
    <3> QED
      BY <1>1, <2>2, <3>1, <3>2, <3>3 DEF Due
  <2> QED
    BY <1>1, <1>2, <2>1, <2>2
<1> QED
  BY <1>1, <1>3, <1>4, <1>5 DEF Due

LEMMA PendingStep == TypeOK /\ QueueInv /\ PendingInv /\ [Next]_vars => PendingInv'
<1> SUFFICES ASSUME TypeOK, QueueInv, PendingInv, [Next]_vars PROVE PendingInv'
  OBVIOUS
<1>1. app' = app /\ \A c \in Conns : Rope(c)' = Rope(c)
  BY Monotone DEF Rope
<1>2. CASE ~OnEvent
  <2>1. UNCHANGED pending
    BY <1>2, ElsewhereKept
  <2>2. \A c \in Conns : Due(c) => Due(c)'
    BY <1>2, DueUntilSettled
  <2> QED
    BY <1>1, <2>1, <2>2 DEF PendingInv
<1>3. CASE OnEvent /\ app # "two_factor"
  BY <1>1, <1>3, PendingHandled DEF PendingInv
<1>4. CASE OnEvent /\ app = "two_factor"
  <2>0. PICK e \in HubEvents : e = Head(events)
    BY <1>4, Handled
  <2>1. \/ /\ e.type = "RopeConnected" /\ pending' = pending \cup {Rope(e.conn)}
           /\ Order(Challenge(e.conn))
        \/ e.type \in {"RopeConnected", "wrong PIN"} /\ UNCHANGED pending
        \/ /\ e.type \in {"RopeDisconnected", "right PIN"}
           /\ pending' = pending \ {Rope(e.conn)}
    BY <1>4, <2>0, PendingHandled
  <2>2. e.conn \in Conns /\ e = [type |-> e.type, conn |-> e.conn]
    BY DEF HubEvents
  <2> SUFFICES ASSUME NEW r \in pending' PROVE \E c \in Conns : Rope(c)' = r /\ Due(c)'
    BY <1>1, <1>4 DEF PendingInv
  <2>3. CASE r \in pending
    <3>1. PICK c \in Conns : Rope(c) = r /\ Due(c)
      BY <2>3 DEF PendingInv
    <3>2. e \notin {[type |-> "RopeDisconnected", conn |-> c],
                   [type |-> "right PIN", conn |-> c]}
      <4>1. e.type \in {"RopeDisconnected", "right PIN"} => e.conn # c
        BY <2>1, <3>1
      <4>2. \A type : e = [type |-> type, conn |-> c] => e.type = type /\ e.conn = c
        OBVIOUS
      <4> QED
        BY <4>1, <4>2
    <3>3. Due(c)'
      BY <2>0, <3>1, <3>2, DueUntilSettled
    <3> QED
      BY <1>1, <3>1, <3>3
  <2>4. CASE r \notin pending
    <3>1. e.type = "RopeConnected" /\ r = Rope(e.conn) /\ Order(Challenge(e.conn))
      BY <2>1, <2>4
    <3>2. Due(e.conn)'
      BY <1>4, <2>0, <2>2, <3>1, DueFromTheStart
    <3> QED
      BY <1>1, <2>2, <3>1, <3>2
  <2> QED
    BY <2>3, <2>4
<1> QED
  BY <1>2, <1>3, <1>4

\* The hub of 09_interactive_admission_2fa holds no device with nothing to come
\* for it: the challenge, the PIN or the end of a connection of its rope_id is
\* on its way, in whatever order connections that share rope_ids join, answer
\* and end, unless its user has entered a wrong PIN.
THEOREM ChallengesAreCarried == Spec => []ChallengeUnderWay
<1>1. Init => PendingInv
  BY DEF Init, PendingInv
<1>2. TypeOK /\ QueueInv /\ PendingInv => ChallengeUnderWay
  <2> SUFFICES ASSUME TypeOK, QueueInv, PendingInv, NEW r \in pending
               PROVE  ChallengeUnderWay!(r)
    BY DEF ChallengeUnderWay
  <2>1. PICK c \in Conns : Rope(c) = r /\ Due(c)
    BY DEF PendingInv
  <2>2. link[c] = "up" \/ link[c] = "gone"
    BY <2>1 DEF Due, QueueInv, TypeOK
  <2> QED
    BY <2>1, <2>2 DEF Due
<1>3. HubInv => TypeOK /\ QueueInv
  BY DEF HubInv
<1> QED
  BY <1>1, <1>2, <1>3, PendingStep, HubInvariance, PTL DEF Spec

=============================================================================
