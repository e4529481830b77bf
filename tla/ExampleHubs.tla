----------------------------- MODULE ExampleHubs -----------------------------
(***************************************************************************)
(* The applications of src/examples and what passes between them and their *)
(* ropes: the hub that commands a gate and a floodlight when a camera sees *)
(* motion (08_smart_home.rs), the hub that holds a device until it has     *)
(* answered with a PIN (09_interactive_admission_2fa.rs) and the hub whose *)
(* command a rope acknowledges (04_commands_ack.rs), with ropes that drop  *)
(* their connection and come back (06_reconnect.rs).                       *)
(*                                                                         *)
(* Connections, the control tasks of both sides and the callbacks of the   *)
(* hub interleave; a connection that ends loses what was on its way.       *)
(*                                                                         *)
(* Abstractions.  A control stream with the channels at its two ends is    *)
(* one queue in each direction (ControlChannel).  All HubEvents come to    *)
(* the application in one queue.  The PIN is one constant in the code:     *)
(* pending_2fa is the set of its keys.  What an example prints is not      *)
(* modelled.                                                               *)
(*                                                                         *)
(* An operator named Mut... is a deliberately wrong variant of the         *)
(* definition after it; nothing uses it but the mutation runs.             *)
(***************************************************************************)
EXTENDS Integers, Sequences, Functions

CONSTANTS
    MaxConns,             \* bound: connections that ropes open
    RopeIds,
    RopeOf,               \* the assigned rope_id of each connection
    Gate, Light, Camera,  \* rope_ids of 08_smart_home
    Owner,                \* "trusted_owner-phone" of 09_interactive_...
    Administrators,       \* the rope_ids that contain "owner-phone"
    Mistyping,            \* connections whose user may enter another PIN
    MaxMotions            \* bound: motion_detected events

Conns == 1..MaxConns
NoConn == 0

Apps == {"smart_home", "two_factor", "commands"}

ASSUME ExampleHubsAssumption ==
    /\ MaxConns \in Nat /\ RopeOf \in [Apps -> [Conns -> RopeIds]]
    /\ {Gate, Light, Camera, Owner} \subseteq RopeIds /\ Gate # Light
    /\ Owner \in Administrators
    /\ Mistyping \subseteq Conns /\ MaxMotions \in Nat

\* Envelopes to a rope and from it: Events by their variant, a Command, an Ack.
Orders == {"light_dimming", "gate_lock_command", "verification_prompt",
           "2fa_challenge", "Command"}
Reports == {"motion_detected", "right PIN", "wrong PIN", "Ack"}

Deeds == {"bright", "secured", "right PIN", "wrong PIN"}

HubEvents == [type : {"RopeConnected", "RopeDisconnected"} \cup Reports,
              conn : Conns]

VARIABLES
    app,     \* the example that runs
    link,    \* connections as their ropes see them
    host,    \* how far handle_connection is with each
    to_rope, \* from control_sender to event_rx
    to_hub,  \* from control_tx to the host's control reader
    events,  \* HubEvents the application has not handled
    senders, \* client_senders, or trusted_devices
    pending, \* pending_2fa
    heeded,  \* what each rope has made of its orders
    motions, \* how many motion_detected were sent
    alarm,   \* history: one was sent while the hub held the gate's sender
    acked    \* history: connections whose Ack has reached the host

vars == <<app, link, host, to_rope, to_hub, events, senders, pending, heeded,
          motions, alarm, acked>>

Rope(c) == RopeOf[app][c]

\* The orders that the loop of a connection's rope has an arm for.
OrdersTo(c) ==
    {order \in Orders :
        \/ app = "smart_home" /\ order = "light_dimming" /\ Rope(c) = Light
        \/ app = "smart_home" /\ order = "gate_lock_command" /\ Rope(c) = Gate
        \/ app = "two_factor" /\ order = "verification_prompt" /\ Rope(c) = Owner
        \/ /\ app = "two_factor" /\ order = "2fa_challenge"
           /\ Rope(c) \notin Administrators
        \/ app = "commands" /\ order = "Command"}

\* Types.  The hub holds a sender under the rope_id of its connection, and
\* sends each rope only what that rope acts on: the map alone tells gate,
\* floodlight, phone and device apart.
TypeOK ==
    /\ app \in Apps
    /\ link \in [Conns -> {"idle", "up", "gone"}]
    /\ host \in [Conns -> {"handshake", "serving", "ended"}]
    /\ to_rope \in [Conns -> Seq(Orders)] /\ to_hub \in [Conns -> Seq(Reports)]
    /\ \A c \in Conns : Range(to_rope[c]) \subseteq OrdersTo(c)
    /\ events \in Seq(HubEvents)
    /\ senders \in [RopeIds -> Conns \cup {NoConn}]
    /\ \A r \in RopeIds : senders[r] # NoConn => Rope(senders[r]) = r
    /\ pending \subseteq RopeIds
    /\ heeded \in [Conns -> SUBSET Deeds]
    /\ motions \in 0..MaxMotions /\ alarm \in BOOLEAN
    /\ acked \subseteq Conns

Init ==
    /\ app \in Apps
    /\ link = [c \in Conns |-> "idle"] /\ host = [c \in Conns |-> "handshake"]
    /\ to_rope = [c \in Conns |-> <<>>] /\ to_hub = [c \in Conns |-> <<>>]
    /\ events = <<>>
    /\ senders = [r \in RopeIds |-> NoConn] /\ pending = {}
    /\ heeded = [c \in Conns |-> {}]
    /\ motions = 0 /\ alarm = FALSE /\ acked = {}

-----------------------------------------------------------------------------
(* Connections                                                             *)

\* tie_the_knot returns; handle_connection has not announced the rope yet.
Connect(c) ==
    /\ link[c] = "idle" /\ \A d \in 1..(c - 1) : link[d] # "idle"
    /\ link' = [link EXCEPT ![c] = "up"]
    /\ UNCHANGED <<app, host, to_rope, to_hub, events, senders, pending, heeded,
                   motions, alarm, acked>>

\* The client is dropped or the transport fails.  Each side still has what had
\* reached it.
Part(c) ==
    /\ link[c] = "up"
    /\ link' = [link EXCEPT ![c] = "gone"]
    /\ \E n \in 0..Len(to_rope[c]) :
           to_rope' = [to_rope EXCEPT ![c] = SubSeq(@, 1, n)]
    /\ \E n \in 0..Len(to_hub[c]) :
           to_hub' = [to_hub EXCEPT ![c] = SubSeq(@, 1, n)]
    /\ UNCHANGED <<app, host, events, senders, pending, heeded, motions, alarm,
                   acked>>

Tell(type, c) == events' = Append(events, [type |-> type, conn |-> c])

appRest == <<app, link, senders, pending, heeded, motions, alarm>>

Announce(c) ==
    /\ host[c] = "handshake" /\ link[c] # "idle"
    /\ host' = [host EXCEPT ![c] = "serving"]
    /\ Tell("RopeConnected", c)
    /\ UNCHANGED <<appRest, to_rope, to_hub, acked>>

\* The first of the accept loop and the control reader to end tells; the reader
\* may have more to read.
AnnounceGone(c) ==
    /\ host[c] = "serving" /\ link[c] = "gone"
    /\ host' = [host EXCEPT ![c] = "ended"]
    /\ Tell("RopeDisconnected", c)
    /\ UNCHANGED <<appRest, to_rope, to_hub, acked>>

\* Events are passed on; an Ack is none of the messages the reader knows.
HostReads(c) ==
    /\ host[c] # "handshake" /\ to_hub[c] # <<>>
    /\ to_hub' = [to_hub EXCEPT ![c] = Tail(@)]
    /\ \/ /\ Head(to_hub[c]) # "Ack"
          /\ Tell(Head(to_hub[c]), c)
          /\ UNCHANGED acked
       \/ /\ Head(to_hub[c]) = "Ack"
          /\ acked' = acked \cup {c}
          /\ UNCHANGED events
    /\ UNCHANGED <<appRest, host, to_rope>>

-----------------------------------------------------------------------------
(* The on_event closures                                                   *)

\* Sends on the control_senders of connections, each a message: lost when the
\* task that writes them to the connection has ended.
Order(order) ==
    to_rope' = [c \in Conns |-> IF link[c] = "up" /\ c \in DOMAIN order
                                THEN Append(to_rope[c], order[c])
                                ELSE to_rope[c]]

Hold(r, c) == senders' = [senders EXCEPT ![r] = c]

\* The gate is locked only along with the light.
MutOnMotion ==
    IF senders[Light] = NoConn THEN <<>>
    ELSE [d \in {senders[Light], senders[Gate]} |->
             IF d = senders[Light] THEN "light_dimming" ELSE "gate_lock_command"]

\* To every rope that the map holds.
MutOnMotionToAll ==
    [d \in Range(senders) |->
        IF d = senders[Light] THEN "light_dimming" ELSE "gate_lock_command"]

\* To those of the two that the map holds.
OnMotion ==
    [d \in {senders[Light], senders[Gate]} |->
        IF d = senders[Light] THEN "light_dimming" ELSE "gate_lock_command"]

SmartHome(type, c) ==
    /\ \/ type = "RopeConnected" /\ Hold(Rope(c), c)
       \/ type = "RopeDisconnected" /\ Hold(Rope(c), NoConn)
       \/ type = "motion_detected" /\ UNCHANGED senders
    /\ Order(IF type = "motion_detected" THEN OnMotion ELSE <<>>)
    /\ UNCHANGED pending

\* A device that leaves stays pending.
MutForget(r) == Hold(r, NoConn) /\ UNCHANGED pending

Forget(r) == Hold(r, NoConn) /\ pending' = pending \ {r}

\* The challenge of a device is met by any answer.
MutSettle(type, r) ==
    type \in {"right PIN", "wrong PIN"} /\ pending' = pending \ {r}

\* An answer with the PIN; with another the device stays pending.
Settle(type, r) ==
    \/ type = "right PIN" /\ pending' = pending \ {r}
    \/ type = "wrong PIN" /\ UNCHANGED pending

\* The device is challenged only when somebody was prompted.
MutChallenge(c) ==
    [d \in IF senders[Owner] = NoConn THEN {} ELSE {senders[Owner], c} |->
        IF d = c THEN "2fa_challenge" ELSE "verification_prompt"]

\* To the device, and to the owner if the map holds the phone.
Challenge(c) ==
    [d \in {senders[Owner], c} |->
        IF d = c THEN "2fa_challenge" ELSE "verification_prompt"]

TwoFactor(type, c) ==
    LET r == Rope(c) IN
    \/ /\ type = "RopeConnected" /\ r \in Administrators
       /\ Hold(r, c)
       /\ UNCHANGED <<pending, to_rope>>
    \/ /\ type = "RopeConnected" /\ r \notin Administrators
       /\ pending' = pending \cup {r}
       /\ Order(Challenge(c))
       /\ UNCHANGED senders
    \/ type = "RopeDisconnected" /\ Forget(r) /\ UNCHANGED to_rope
    \/ Settle(type, r) /\ UNCHANGED <<senders, to_rope>>

\* The one command_id is not sent again.
MutGreet(c) == Order([d \in {e \in {c} : acked = {}} |-> "Command"])

Greet(c) == Order([d \in {c} |-> "Command"])

Commands(type, c) ==
    /\ \/ type = "RopeConnected" /\ Greet(c)
       \/ type = "RopeDisconnected" /\ UNCHANGED to_rope
    /\ UNCHANGED <<senders, pending>>

OnEvent ==
    /\ events # <<>>
    /\ LET e == Head(events) IN
           \/ app = "smart_home" /\ SmartHome(e.type, e.conn)
           \/ app = "two_factor" /\ TwoFactor(e.type, e.conn)
           \/ app = "commands" /\ Commands(e.type, e.conn)
    /\ events' = Tail(events)
    /\ UNCHANGED <<app, link, host, to_hub, heeded, motions, alarm, acked>>

-----------------------------------------------------------------------------
(* The ropes                                                               *)

\* A send on control_tx, lost when the connection is.
Report(c, report) ==
    to_hub' = IF link[c] = "up" THEN [to_hub EXCEPT ![c] = Append(@, report)]
                                ELSE to_hub

Motion(c) ==
    /\ app = "smart_home" /\ Rope(c) = Camera
    /\ link[c] = "up" /\ motions < MaxMotions
    /\ motions' = motions + 1
    /\ alarm' = (alarm \/ senders[Gate] # NoConn)
    /\ Report(c, "motion_detected")
    /\ UNCHANGED <<app, link, host, to_rope, events, senders, pending, heeded,
                   acked>>

\* The PIN a rope's user enters: the one constant of the example, or another.
Pins(c) == IF c \in Mistyping THEN {"right PIN", "wrong PIN"} ELSE {"right PIN"}

Heed(c, deed) == heeded' = [heeded EXCEPT ![c] = @ \cup {deed}]

\* The loops over next_event of the gate, the floodlight, the owner's phone, a
\* device under verification, and the rope that acknowledges.
GateLoop(c, order) ==
    order = "gate_lock_command" /\ Heed(c, "secured") /\ UNCHANGED to_hub

LightLoop(c, order) ==
    order = "light_dimming" /\ Heed(c, "bright") /\ UNCHANGED to_hub

OwnerLoop(order) == order = "verification_prompt" /\ UNCHANGED <<heeded, to_hub>>

LockLoop(c, order) ==
    /\ order = "2fa_challenge"
    /\ \E pin \in Pins(c) : Heed(c, pin) /\ Report(c, pin)

AckLoop(c, order) == order = "Command" /\ Report(c, "Ack") /\ UNCHANGED heeded

NextEvent(c) ==
    /\ to_rope[c] # <<>>
    /\ LET order == Head(to_rope[c]) IN
           \/ GateLoop(c, order) \/ LightLoop(c, order) \/ OwnerLoop(order)
           \/ LockLoop(c, order) \/ AckLoop(c, order)
    /\ to_rope' = [to_rope EXCEPT ![c] = Tail(@)]
    /\ UNCHANGED <<app, link, host, events, senders, pending, motions, alarm,
                   acked>>

-----------------------------------------------------------------------------

HandleConnection(c) == Announce(c) \/ AnnounceGone(c)

Next ==
    \/ OnEvent
    \/ \E c \in Conns : \/ Connect(c) \/ Part(c) \/ Motion(c)
                        \/ HandleConnection(c) \/ HostReads(c) \/ NextEvent(c)

Spec == Init /\ [][Next]_vars

\* The tasks of both sides are polled, and the hub's events are handled.
Fairness ==
    /\ WF_vars(OnEvent)
    /\ \A c \in Conns : /\ WF_vars(HandleConnection(c)) /\ WF_vars(HostReads(c))
                        /\ WF_vars(NextEvent(c))

FairSpec == Spec /\ Fairness

-----------------------------------------------------------------------------

Told(type, c) == [type |-> type, conn |-> c] \in Range(events)

Ended(r) == \E c \in Conns : Rope(c) = r /\ link[c] = "gone"

\* A device the hub has heard of and does not hold for verification has given
\* the PIN, unless a connection of its rope_id has ended: what is late from that
\* one also ends the wait of the next.
SettledByPin ==
    app = "two_factor" =>
        \A c \in Conns :
            /\ host[c] # "handshake"
            /\ Rope(c) \notin Administrators \cup pending
            /\ ~Told("RopeConnected", c)
            => Ended(Rope(c)) \/ \E d \in Conns :
                   Rope(d) = Rope(c) /\ "right PIN" \in heeded[d]

\* What is to end the wait of a pending device is under way: its challenge, an
\* answer with the PIN, or word that its connection has ended.  None of them is
\* lost with a connection, or spent on an earlier wait of the same rope_id.
\* A user who has entered a wrong PIN is not asked again.
ChallengeUnderWay ==
    \A r \in pending : \E c \in Conns :
        /\ Rope(c) = r
        /\ \/ link[c] = "up" /\ "2fa_challenge" \in Range(to_rope[c])
           \/ "right PIN" \in Range(to_hub[c]) \/ Told("right PIN", c)
           \/ link[c] = "gone" /\ (host[c] = "serving" \/ Told("RopeDisconnected", c))
           \/ "wrong PIN" \in heeded[c]

\* A motion seen while the hub had the gate's sender is on its way to a hub
\* that still has one, or an order on its way to a gate, or the gate is locked,
\* unless a connection of the gate or of the camera has ended.
AlarmUnderWay ==
    alarm => \/ Ended(Gate) \/ Ended(Camera)
             \/ /\ senders[Gate] # NoConn
                /\ \E c \in Conns : \/ "motion_detected" \in Range(to_hub[c])
                                    \/ Told("motion_detected", c)
             \/ \E c \in Conns :
                    /\ Rope(c) = Gate
                    /\ \/ "gate_lock_command" \in Range(to_rope[c])
                       \/ "secured" \in heeded[c]

\* The greeting of a rope, or its acknowledgement, is always in one of the
\* places that the tasks carry it through, as long as the rope stays.
CommandUnderWay ==
    app = "commands" =>
        \A c \in Conns : link[c] = "up" =>
            \/ host[c] = "handshake" \/ Told("RopeConnected", c)
            \/ "Command" \in Range(to_rope[c])
            \/ "Ack" \in Range(to_hub[c])
            \/ c \in acked

\* No device stays pending, whatever connection ends and whatever is lost with
\* it, but for one whose user has entered a wrong PIN: it is not asked again.
ChallengeSettles ==
    \A r \in RopeIds :
        r \in pending ~> \/ r \notin pending
                         \/ \E c \in Conns :
                                Rope(c) = r /\ "wrong PIN" \in heeded[c]

\* Motion seen while the hub has the gate's sender locks the gate, unless a
\* connection of the gate or of the camera ends first.
MotionLocksGate ==
    alarm ~> \/ Ended(Gate) \/ Ended(Camera)
             \/ \E c \in Conns : Rope(c) = Gate /\ "secured" \in heeded[c]

\* Every rope acknowledges the command it is greeted with, unless it leaves.
CommandIsAcked ==
    \A c \in Conns :
        app = "commands" /\ link[c] = "up" ~> c \in acked \/ link[c] = "gone"

=============================================================================
