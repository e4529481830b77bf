--------------------------- MODULE AdmissionProofs ---------------------------
(***************************************************************************)
(* Who is admitted and what the hub's registry holds, for any number of    *)
(* connections, nodes, tokens, policies and validators: the invariants of  *)
(* Admission, and that it implements Membership.                           *)
(*                                                                         *)
(* None is inductive.  What a rope was told is right because the answer on *)
(* the wire was, and that one is right because the host decided on the Tie *)
(* it read, which the peer cannot change afterwards; an id drawn is new    *)
(* because every id drawn before is below CONNECTION_COUNTER; what the     *)
(* registry will hold is in the queue of events, where the two of each     *)
(* connection stand at most once and in order.                             *)
(***************************************************************************)
EXTENDS Admission, TLAPS

Undecided == {"handshake", "rejecting", "approved"}

\* Ids are below the counter, distinct, and drawn with the Welcome.
IdsFresh ==
    /\ \A c \in Conns : connection_id[c] < CONNECTION_COUNTER
    /\ \A c, d \in Conns :
           connection_id[c] = connection_id[d] /\ connection_id[c] # pending => c = d

\* The answer on the wire is the only one and is what the rope is told.
OneAnswer ==
    \A c \in Conns :
        /\ host[c] \in Undecided => reply[c] = Nothing
        /\ reply[c].type = "Welcome" => reply[c] = Welcome(connection_id[c])
        /\ told[c] # Nothing => told[c] = reply[c]

\* Whatever the host has decided, it decided on the Tie the peer sent.
Decided ==
    \A c \in Conns :
        /\ rope[c] = "idle" => first[c] = Nothing
        /\ host[c] \in {"approved", "welcomed", "serving", "served"}
               => first[c].type = "Tie" /\ Failed(c) = {}
        /\ host[c] = "rejecting" => first[c].type = "Tie" /\ reason[c] \in Failed(c)
        /\ reply[c].type = "Welcome" => first[c].type = "Tie" /\ Failed(c) = {}
        /\ reply[c].type = "Reject" => first[c].type = "Tie" /\ reply[c].reason \in Failed(c)

\* Only a rope that was sent a Welcome is announced.
Announced ==
    /\ \A c \in Conns : host[c] \in {"welcomed", "serving"} => reply[c].type = "Welcome"
    /\ \A i \in DOMAIN events : reply[events[i].conn].type = "Welcome"

AdmissionInv == TypeOK /\ IdsFresh /\ OneAnswer /\ Decided /\ Announced

\* The host decides on a Tie exactly as its checks say: it approves one that
\* fails none, and refuses another with the code of a check that fails.
LEMMA VerdictNamesAFailure ==
    ASSUME TypeOK, NEW c \in Conns, first[c] \in Ties
    PROVE  /\ Verdict(c) \in {"ok"} \cup ErrorCodes
           /\ Verdict(c) = "ok" => Failed(c) = {}
           /\ Verdict(c) # "ok" => Verdict(c) \in Failed(c)
<1>1. JoinPolicy[<<NodeOf[c], first[c].token, first[c].caps>>] \in {"ok"} \cup ErrorCodes
  BY AdmissionAssumption DEF Ties
<1> QED
  BY <1>1 DEF Verdict, Failed, ErrorCodes

\* A Tie is told from the other first messages by its type.
LEMMA TieIsATie ==
    ASSUME TypeOK, NEW c \in Conns, first[c].type = "Tie"
    PROVE  first[c] \in Ties
BY DEF TypeOK, Nothing, Other

\* What appending an event, and handling the first, do to the events to come.
LEMMA EventQueueLaws ==
    /\ <<>> \in Seq(Events)
    /\ \A q \in Seq(Events) :
           /\ \A e \in Events :
                  /\ Append(q, e) \in Seq(Events)
                  /\ \A i \in DOMAIN Append(q, e) :
                         Append(q, e)[i] = e \/ (i \in DOMAIN q /\ Append(q, e)[i] = q[i])
           /\ q # <<>> =>
                  /\ Head(q) \in Events /\ Tail(q) \in Seq(Events)
                  /\ \A i \in DOMAIN Tail(q) : i + 1 \in DOMAIN q /\ Tail(q)[i] = q[i + 1]
           /\ \A i \in DOMAIN q : q[i] \in Events
OBVIOUS

\* A RopeConnected or RopeDisconnected of a rope that was welcomed.
LEMMA SendKeepsAnnounced ==
    ASSUME TypeOK, Announced, NEW c \in Conns, reply[c].type = "Welcome",
           NEW type \in {"RopeConnected", "RopeDisconnected"}, Send(type, c)
    PROVE  /\ events' \in Seq(Events)
           /\ \A i \in DOMAIN events' : reply[events'[i].conn].type = "Welcome"
<1> DEFINE e == [type |-> type, conn |-> c]
<1>1. e \in Events /\ events \in Seq(Events) /\ events' = Append(events, e)
  BY DEF Events, TypeOK, Send
<1>2. \A i \in DOMAIN events' : events'[i] = e \/ (i \in DOMAIN events /\ events'[i] = events[i])
  BY <1>1, EventQueueLaws
<1>3. events' \in Seq(Events)
  BY <1>1, EventQueueLaws
<1>4. e.conn = c
  OBVIOUS
<1> HIDE DEF e
<1> QED
  BY <1>2, <1>3, <1>4 DEF Announced

-----------------------------------------------------------------------------

\* The initial states have the invariant: nothing is decided or announced.
LEMMA AdmissionInit == Init => AdmissionInv
<1> SUFFICES ASSUME Init PROVE AdmissionInv
  OBVIOUS
<1>1. TypeOK
  BY EventQueueLaws DEF Init, TypeOK, Answers, Nothing, pending
<1>2. IdsFresh /\ OneAnswer /\ Decided
  BY DEF Init, IdsFresh, OneAnswer, Decided, Nothing, pending
<1>3. Announced
  BY DEF Init, Announced
<1> QED
  BY <1>1, <1>2, <1>3 DEF AdmissionInv

\* Only here is a verdict read off the Tie.
LEMMA HostReadTieKeeps == ASSUME AdmissionInv, NEW c \in Conns, HostReadTie(c) PROVE AdmissionInv'
<1> USE DEF AdmissionInv, HostReadTie, HostGoes, RopeGoes, hostVars, ropeVars, hubVars
<1>0. \A d \in Conns : Failed(d)' = Failed(d)
  BY DEF Failed
<1>1. TypeOK'
  BY VerdictNamesAFailure, TieIsATie DEF TypeOK, Answers
<1>2. IdsFresh'
  BY DEF IdsFresh, TypeOK, FreshId, pending
<1>3. OneAnswer'
  BY DEF OneAnswer, TypeOK, Undecided, Welcome, Reject, Nothing
<1>4. Decided'
  BY <1>0, VerdictNamesAFailure, TieIsATie DEF Decided, TypeOK, OneAnswer, Undecided, Welcome, Reject, Nothing, Other
<1>5. Announced'
  BY DEF Announced, TypeOK, OneAnswer, Undecided, Nothing, Welcome
<1> QED
  BY <1>1, <1>2, <1>3, <1>4, <1>5

\* A connection without a handshake decides nothing.
LEMMA HostNoTieKeeps == ASSUME AdmissionInv, NEW c \in Conns, HostNoTie(c) PROVE AdmissionInv'
<1> USE DEF AdmissionInv, HostNoTie, HostGoes, RopeGoes, hostVars, ropeVars, hubVars
<1>0. \A d \in Conns : Failed(d)' = Failed(d)
  BY DEF Failed
<1>1. TypeOK'
  BY DEF TypeOK, Answers
<1>2. IdsFresh'
  BY DEF IdsFresh, TypeOK, FreshId, pending
<1>3. OneAnswer'
  BY DEF OneAnswer, TypeOK, Undecided, Welcome, Reject, Nothing
<1>4. Decided'
  BY <1>0 DEF Decided, TypeOK, OneAnswer, Undecided, Welcome, Reject, Nothing, Other
<1>5. Announced'
  BY DEF Announced, TypeOK, OneAnswer, Undecided, Nothing, Welcome
<1> QED
  BY <1>1, <1>2, <1>3, <1>4, <1>5

\* The reason decided on becomes the answer.
LEMMA HostRejectKeeps == ASSUME AdmissionInv, NEW c \in Conns, HostReject(c) PROVE AdmissionInv'
<1> USE DEF AdmissionInv, HostReject, HostGoes, ropeVars, hubVars
<1>0. \A d \in Conns : Failed(d)' = Failed(d)
  BY DEF Failed
<1>r. /\ \A d \in Conns : \/ reply'[d] = reply[d]
                          \/ d = c /\ reply'[d] = Reject(reason[c])
      /\ reply[c] = Nothing /\ host'[c] = "gone"
      /\ \A d \in Conns : d # c => host'[d] = host[d]
      /\ reason[c] \in Failed(c) /\ reason[c] \in ErrorCodes
  <2>1. reason[c] \in Failed(c)
    BY DEF Decided
  <2>2. reason[c] \in ErrorCodes
    BY <2>1 DEF Failed
  <2>3. \A d \in Conns : reply'[d] = reply[d] \/ (d = c /\ reply'[d] = Reject(reason[c]))
    BY DEF TypeOK
  <2> QED
    BY <2>1, <2>2, <2>3 DEF TypeOK, OneAnswer, Undecided
<1>1. TypeOK'
  <2>1. reply' \in [Conns -> Answers]
    BY <1>r DEF TypeOK, Answers, Reject
  <2> QED
    BY <2>1 DEF TypeOK
<1>2. IdsFresh'
  BY DEF IdsFresh
<1>3. OneAnswer'
  BY <1>r DEF OneAnswer, Undecided, Reject, Nothing
<1>4. Decided'
  BY <1>0, <1>r DEF Decided, Undecided, Reject, Nothing
<1>5. Announced'
  <2>1. \A i \in DOMAIN events : events[i].conn \in Conns
    BY EventQueueLaws DEF TypeOK, Events
  <2> QED
    BY <1>r, <2>1 DEF Announced, Nothing
<1> QED
  BY <1>1, <1>2, <1>3, <1>4, <1>5

\* The id drawn is new, and becomes the answer if the Welcome can be written.
LEMMA HostWelcomeKeeps ==
    ASSUME AdmissionInv, NEW c \in Conns, HostWelcome(c) \/ HostWelcomeFails(c)
    PROVE  AdmissionInv'
<1> USE DEF AdmissionInv, HostWelcome, HostWelcomeFails, DrawId, HostGoes, ropeVars, hubVars
<1>0. \A d \in Conns : Failed(d)' = Failed(d)
  BY DEF Failed
<1>r. /\ \A d \in Conns : d # c => /\ reply'[d] = reply[d] /\ host'[d] = host[d]
                                  /\ connection_id'[d] = connection_id[d]
      /\ connection_id'[c] = CONNECTION_COUNTER
      /\ CONNECTION_COUNTER \in Nat /\ CONNECTION_COUNTER' = CONNECTION_COUNTER + 1
      /\ reply[c] = Nothing /\ told[c] = Nothing
      /\ \/ host'[c] = "gone" /\ reply'[c] = Nothing
         \/ host'[c] = "welcomed" /\ reply'[c] = Welcome(CONNECTION_COUNTER)
      /\ first[c].type = "Tie" /\ Failed(c) = {}
  BY DEF TypeOK, FreshId, OneAnswer, Decided, Undecided
<1>1. TypeOK'
  <2>1. reply' \in [Conns -> Answers]
    BY <1>r DEF TypeOK, Answers, Welcome
  <2>2. connection_id' \in [Conns -> Nat \cup {pending}] /\ CONNECTION_COUNTER' \in Nat
    BY DEF TypeOK, FreshId, pending
  <2> QED
    BY <2>1, <2>2 DEF TypeOK
<1>2. IdsFresh'
  BY <1>r DEF IdsFresh, TypeOK, pending
<1>3. OneAnswer'
  BY <1>r DEF OneAnswer, Undecided, Welcome, Nothing
<1>4. Decided'
  BY <1>0, <1>r DEF Decided, Undecided, Welcome, Nothing
<1>5. Announced'
  <2>1. \A i \in DOMAIN events : events[i].conn \in Conns
    BY EventQueueLaws DEF TypeOK, Events
  <2> QED
    BY <1>r, <2>1 DEF Announced, Nothing, Welcome
<1> QED
  BY <1>1, <1>2, <1>3, <1>4, <1>5

\* A rope that was sent a Welcome is announced.
LEMMA HostServeKeeps == ASSUME AdmissionInv, NEW c \in Conns, HostServe(c) PROVE AdmissionInv'
<1> USE DEF AdmissionInv, HostServe, HostGoes, RopeGoes, hostVars, ropeVars, hubVars
<1>e. /\ events' \in Seq(Events)
      /\ \A i \in DOMAIN events' : reply[events'[i].conn].type = "Welcome"
  BY SendKeepsAnnounced DEF Announced
<1>0. \A d \in Conns : Failed(d)' = Failed(d)
  BY DEF Failed
<1>1. TypeOK'
  BY <1>e DEF TypeOK, Answers
<1>2. IdsFresh'
  BY DEF IdsFresh, TypeOK, FreshId, pending
<1>3. OneAnswer'
  BY DEF OneAnswer, TypeOK, Undecided, Welcome, Reject, Nothing
<1>4. Decided'
  BY <1>0 DEF Decided, TypeOK, OneAnswer, Undecided, Welcome, Reject, Nothing, Other
<1>5. Announced'
  BY <1>e DEF Announced, TypeOK, OneAnswer, Undecided, Nothing, Welcome
<1> QED
  BY <1>1, <1>2, <1>3, <1>4, <1>5

\* A rope that was sent a Welcome is announced, though it will not be served.
LEMMA HostServeFailsKeeps == ASSUME AdmissionInv, NEW c \in Conns, HostServeFails(c) PROVE AdmissionInv'
<1> USE DEF AdmissionInv, HostServeFails, HostGoes, RopeGoes, hostVars, ropeVars, hubVars
<1>e. /\ events' \in Seq(Events)
      /\ \A i \in DOMAIN events' : reply[events'[i].conn].type = "Welcome"
  BY SendKeepsAnnounced DEF Announced
<1>0. \A d \in Conns : Failed(d)' = Failed(d)
  BY DEF Failed
<1>1. TypeOK'
  BY <1>e DEF TypeOK, Answers
<1>2. IdsFresh'
  BY DEF IdsFresh, TypeOK, FreshId, pending
<1>3. OneAnswer'
  BY DEF OneAnswer, TypeOK, Undecided, Welcome, Reject, Nothing
<1>4. Decided'
  BY <1>0 DEF Decided, TypeOK, OneAnswer, Undecided, Welcome, Reject, Nothing, Other
<1>5. Announced'
  BY <1>e DEF Announced, TypeOK, OneAnswer, Undecided, Nothing, Welcome
<1> QED
  BY <1>1, <1>2, <1>3, <1>4, <1>5

\* What ends was sent a Welcome.
LEMMA HostEndsKeeps == ASSUME AdmissionInv, NEW c \in Conns, HostEnds(c) PROVE AdmissionInv'
<1> USE DEF AdmissionInv, HostEnds, HostGoes, RopeGoes, hostVars, ropeVars, hubVars
<1>e. /\ events' \in Seq(Events)
      /\ \A i \in DOMAIN events' : reply[events'[i].conn].type = "Welcome"
  BY SendKeepsAnnounced DEF Announced
<1>0. \A d \in Conns : Failed(d)' = Failed(d)
  BY DEF Failed
<1>1. TypeOK'
  BY <1>e DEF TypeOK, Answers
<1>2. IdsFresh'
  BY DEF IdsFresh, TypeOK, FreshId, pending
<1>3. OneAnswer'
  BY DEF OneAnswer, TypeOK, Undecided, Welcome, Reject, Nothing
<1>4. Decided'
  BY <1>0 DEF Decided, TypeOK, OneAnswer, Undecided, Welcome, Reject, Nothing, Other
<1>5. Announced'
  BY <1>e DEF Announced, TypeOK, OneAnswer, Undecided, Nothing, Welcome
<1> QED
  BY <1>1, <1>2, <1>3, <1>4, <1>5

\* The peer sends its Tie before the host can have decided on it.
LEMMA SendTieKeeps == ASSUME AdmissionInv, NEW c \in Conns, SendTie(c) PROVE AdmissionInv'
<1> USE DEF AdmissionInv, SendTie, HostGoes, RopeGoes, hostVars, ropeVars, hubVars
<1>0. \A d \in Conns : d # c => Failed(d)' = Failed(d)
  BY DEF Failed, TypeOK
<1>1. TypeOK'
  BY DEF TypeOK, Answers
<1>2. IdsFresh'
  BY DEF IdsFresh, TypeOK, FreshId, pending
<1>3. OneAnswer'
  BY DEF OneAnswer, TypeOK, Undecided, Welcome, Reject, Nothing
<1>4. Decided'
  BY <1>0 DEF Decided, TypeOK, OneAnswer, Undecided, Welcome, Reject, Nothing, Other
<1>5. Announced'
  BY DEF Announced, TypeOK, OneAnswer, Undecided, Nothing, Welcome
<1> QED
  BY <1>1, <1>2, <1>3, <1>4, <1>5

\* The same for a first message that is no Tie.
LEMMA SendOtherKeeps == ASSUME AdmissionInv, NEW c \in Conns, SendOther(c) PROVE AdmissionInv'
<1> USE DEF AdmissionInv, SendOther, HostGoes, RopeGoes, hostVars, ropeVars, hubVars
<1>0. \A d \in Conns : d # c => Failed(d)' = Failed(d)
  BY DEF Failed, TypeOK
<1>1. TypeOK'
  BY DEF TypeOK, Answers
<1>2. IdsFresh'
  BY DEF IdsFresh, TypeOK, FreshId, pending
<1>3. OneAnswer'
  BY DEF OneAnswer, TypeOK, Undecided, Welcome, Reject, Nothing
<1>4. Decided'
  BY <1>0 DEF Decided, TypeOK, OneAnswer, Undecided, Welcome, Reject, Nothing, Other
<1>5. Announced'
  BY DEF Announced, TypeOK, OneAnswer, Undecided, Nothing, Welcome
<1> QED
  BY <1>1, <1>2, <1>3, <1>4, <1>5

\* The rope is told the answer on the wire.
LEMMA ReceiveWelcomeKeeps == ASSUME AdmissionInv, NEW c \in Conns, ReceiveWelcome(c) PROVE AdmissionInv'
<1> USE DEF AdmissionInv, ReceiveWelcome, HostGoes, RopeGoes, hostVars, ropeVars, hubVars
<1>0. \A d \in Conns : Failed(d)' = Failed(d)
  BY DEF Failed
<1>1. TypeOK'
  BY DEF TypeOK, Answers
<1>2. IdsFresh'
  BY DEF IdsFresh, TypeOK, FreshId, pending
<1>3. OneAnswer'
  BY DEF OneAnswer, TypeOK, Undecided, Welcome, Reject, Nothing
<1>4. Decided'
  BY <1>0 DEF Decided, TypeOK, OneAnswer, Undecided, Welcome, Reject, Nothing, Other
<1>5. Announced'
  BY DEF Announced, TypeOK, OneAnswer, Undecided, Nothing, Welcome
<1> QED
  BY <1>1, <1>2, <1>3, <1>4, <1>5

\* The rope is told the answer on the wire.
LEMMA ReceiveRejectKeeps == ASSUME AdmissionInv, NEW c \in Conns, ReceiveReject(c) PROVE AdmissionInv'
<1> USE DEF AdmissionInv, ReceiveReject, HostGoes, RopeGoes, hostVars, ropeVars, hubVars
<1>0. \A d \in Conns : Failed(d)' = Failed(d)
  BY DEF Failed
<1>1. TypeOK'
  BY DEF TypeOK, Answers
<1>2. IdsFresh'
  BY DEF IdsFresh, TypeOK, FreshId, pending
<1>3. OneAnswer'
  BY DEF OneAnswer, TypeOK, Undecided, Welcome, Reject, Nothing
<1>4. Decided'
  BY <1>0 DEF Decided, TypeOK, OneAnswer, Undecided, Welcome, Reject, Nothing, Other
<1>5. Announced'
  BY DEF Announced, TypeOK, OneAnswer, Undecided, Nothing, Welcome
<1> QED
  BY <1>1, <1>2, <1>3, <1>4, <1>5

\* A rope that fails is told nothing.
LEMMA TieFailsKeeps == ASSUME AdmissionInv, NEW c \in Conns, TieFails(c) PROVE AdmissionInv'
<1> USE DEF AdmissionInv, TieFails, HostGoes, RopeGoes, hostVars, ropeVars, hubVars
<1>0. \A d \in Conns : Failed(d)' = Failed(d)
  BY DEF Failed
<1>1. TypeOK'
  BY DEF TypeOK, Answers
<1>2. IdsFresh'
  BY DEF IdsFresh, TypeOK, FreshId, pending
<1>3. OneAnswer'
  BY DEF OneAnswer, TypeOK, Undecided, Welcome, Reject, Nothing
<1>4. Decided'
  BY <1>0 DEF Decided, TypeOK, OneAnswer, Undecided, Welcome, Reject, Nothing, Other
<1>5. Announced'
  BY DEF Announced, TypeOK, OneAnswer, Undecided, Nothing, Welcome
<1> QED
  BY <1>1, <1>2, <1>3, <1>4, <1>5

\* A rope that gives up is told nothing.
LEMMA GiveUpKeeps == ASSUME AdmissionInv, NEW c \in Conns, GiveUp(c) PROVE AdmissionInv'
<1> USE DEF AdmissionInv, GiveUp, HostGoes, RopeGoes, hostVars, ropeVars, hubVars
<1>0. \A d \in Conns : Failed(d)' = Failed(d)
  BY DEF Failed
<1>1. TypeOK'
  BY DEF TypeOK, Answers
<1>2. IdsFresh'
  BY DEF IdsFresh, TypeOK, FreshId, pending
<1>3. OneAnswer'
  BY DEF OneAnswer, TypeOK, Undecided, Welcome, Reject, Nothing
<1>4. Decided'
  BY <1>0 DEF Decided, TypeOK, OneAnswer, Undecided, Welcome, Reject, Nothing, Other
<1>5. Announced'
  BY DEF Announced, TypeOK, OneAnswer, Undecided, Nothing, Welcome
<1> QED
  BY <1>1, <1>2, <1>3, <1>4, <1>5

\* A rope that leaves stays admitted.
LEMMA LeaveKeeps == ASSUME AdmissionInv, NEW c \in Conns, Leave(c) PROVE AdmissionInv'
<1> USE DEF AdmissionInv, Leave, HostGoes, RopeGoes, hostVars, ropeVars, hubVars
<1>0. \A d \in Conns : Failed(d)' = Failed(d)
  BY DEF Failed
<1>1. TypeOK'
  BY DEF TypeOK, Answers
<1>2. IdsFresh'
  BY DEF IdsFresh, TypeOK, FreshId, pending
<1>3. OneAnswer'
  BY DEF OneAnswer, TypeOK, Undecided, Welcome, Reject, Nothing
<1>4. Decided'
  BY <1>0 DEF Decided, TypeOK, OneAnswer, Undecided, Welcome, Reject, Nothing, Other
<1>5. Announced'
  BY DEF Announced, TypeOK, OneAnswer, Undecided, Nothing, Welcome
<1> QED
  BY <1>1, <1>2, <1>3, <1>4, <1>5

\* A lost connection changes no decision.
LEMMA LoseKeeps == ASSUME AdmissionInv, NEW c \in Conns, Lose(c) PROVE AdmissionInv'
<1> USE DEF AdmissionInv, Lose, HostGoes, RopeGoes, hostVars, ropeVars, hubVars
<1>0. \A d \in Conns : Failed(d)' = Failed(d)
  BY DEF Failed
<1>1. TypeOK'
  BY DEF TypeOK, Answers
<1>2. IdsFresh'
  BY DEF IdsFresh, TypeOK, FreshId, pending
<1>3. OneAnswer'
  BY DEF OneAnswer, TypeOK, Undecided, Welcome, Reject, Nothing
<1>4. Decided'
  BY <1>0 DEF Decided, TypeOK, OneAnswer, Undecided, Welcome, Reject, Nothing, Other
<1>5. Announced'
  BY DEF Announced, TypeOK, OneAnswer, Undecided, Nothing, Welcome
<1> QED
  BY <1>1, <1>2, <1>3, <1>4, <1>5

\* The application's registry takes no part in admissions.
LEMMA OnEventKeeps == ASSUME AdmissionInv, OnEvent PROVE AdmissionInv'
<1> USE DEF AdmissionInv, OnEvent, hostVars, ropeVars
<1>e. /\ events' \in Seq(Events) /\ Head(events) \in Events
      /\ \A i \in DOMAIN events' : i + 1 \in DOMAIN events /\ events'[i] = events[i + 1]
  BY EventQueueLaws DEF TypeOK
<1>0. \A d \in Conns : Failed(d)' = Failed(d)
  BY DEF Failed
<1>1. TypeOK'
  BY <1>e DEF TypeOK, Answers, Events
<1>2. IdsFresh' /\ OneAnswer' /\ Decided'
  BY <1>0 DEF IdsFresh, OneAnswer, Decided
<1>3. Announced'
  BY <1>e DEF Announced
<1> QED
  BY <1>1, <1>2, <1>3

-----------------------------------------------------------------------------

\* Every step of every connection keeps the invariant.
LEMMA AdmissionStep == AdmissionInv /\ [Next]_vars => AdmissionInv'
<1> SUFFICES ASSUME AdmissionInv, [Next]_vars PROVE AdmissionInv'
  OBVIOUS
<1>1. ASSUME NEW c \in Conns, HandleConnection(c) PROVE AdmissionInv'
  BY <1>1, HostReadTieKeeps, HostNoTieKeeps, HostRejectKeeps, HostWelcomeKeeps,
     HostServeKeeps, HostServeFailsKeeps, HostEndsKeeps DEF HandleConnection
<1>2. ASSUME NEW c \in Conns, TieTheKnot(c) PROVE AdmissionInv'
  BY <1>2, ReceiveWelcomeKeeps, ReceiveRejectKeeps, TieFailsKeeps DEF TieTheKnot
<1>3. CASE OnEvent
  BY <1>3, OnEventKeeps
<1>4. CASE UNCHANGED vars
  <2>1. \A d \in Conns : Failed(d)' = Failed(d)
    BY <1>4 DEF Failed, vars, ropeVars
  <2> QED
    BY <1>4, <2>1 DEF vars, hostVars, ropeVars, hubVars, AdmissionInv, TypeOK,
       Answers, IdsFresh, OneAnswer, Decided, Announced
<1> QED
  BY <1>1, <1>2, <1>3, <1>4, SendTieKeeps, SendOtherKeeps, GiveUpKeeps,
     LeaveKeeps, LoseKeeps DEF Next

\* The host, the wire and the ropes agree on every admission, always.
THEOREM AdmissionInvariance == Spec => []AdmissionInv
BY AdmissionInit, AdmissionStep, PTL DEF Spec

\* No two admissions of a host share a connection_id, however many handshakes
\* overlap and wherever each of them fails, and every rope knows its own.
THEOREM ConnectionIdsAreUnique == Spec => []UniqueConnectionIds
<1>1. AdmissionInv => UniqueConnectionIds
  BY DEF AdmissionInv, IdsFresh, OneAnswer, UniqueConnectionIds, Nothing, Welcome
<1> QED
  BY <1>1, AdmissionInvariance, PTL

\* The checks of handle_connection come out as Failed says, whatever the
\* policy and the validator, and both ends act on the same outcome.
THEOREM AdmissionsAreRight == Spec => []AdmissionIsRight
<1>1. AdmissionInv => AdmissionIsRight
  BY DEF AdmissionInv, OneAnswer, Decided, Announced, AdmissionIsRight, Nothing, TypeOK
<1> QED
  BY <1>1, AdmissionInvariance, PTL


\* Types hold for any number of connections, policies and validators.
THEOREM TypeCorrectness == Spec => []TypeOK
BY AdmissionInvariance, PTL DEF AdmissionInv

-----------------------------------------------------------------------------
(* What keeps a served rope_id in the registry, or on its way to it: a      *)
(* RopeDisconnected can only be in the queue once its connection is         *)
(* "served".                                                                *)

\* What the registry holds under a rope_id is a welcomed rope of that rope_id.
HeldAreWelcomed ==
    \A r \in RopeIds : senders[r] # NoConn =>
        reply[senders[r]].type = "Welcome" /\ RopeId(senders[r]) = r

PartedAreServed ==
    \A i \in DOMAIN events :
        events[i].type = "RopeDisconnected" => host[events[i].conn] = "served"

Replaced(c) == \E d \in Conns : host[d] = "served" /\ RopeId(d) = RopeId(c)

Announcing(c) ==
    \E i \in DOMAIN events : /\ events[i].type = "RopeConnected"
                             /\ RopeId(events[i].conn) = RopeId(c)

ServedAreKnown ==
    \A c \in Conns : host[c] = "serving" =>
        Replaced(c) \/ Announcing(c) \/ senders[RopeId(c)] # NoConn

RegistryInv == HeldAreWelcomed /\ PartedAreServed /\ ServedAreKnown

\* A welcomed rope has a rope_id.
LEMMA WelcomedHasRopeId ==
    ASSUME AdmissionInv, NEW c \in Conns, reply[c].type = "Welcome"
    PROVE  RopeId(c) \in RopeIds /\ rope[c] # "idle"
<1>1. first[c].type = "Tie" /\ rope[c] # "idle"
  BY DEF AdmissionInv, Decided, Nothing
<1>2. first[c] \in Ties
  BY <1>1, TieIsATie DEF AdmissionInv
<1> QED
  BY <1>1, <1>2, AdmissionAssumption DEF RopeId, Ties

\* A welcomed rope stays welcomed under its rope_id, and an ended one ended.
LEMMA WelcomedIsStable ==
    ASSUME AdmissionInv, [Next]_vars, NEW c \in Conns
    PROVE  /\ reply[c].type = "Welcome" =>
                  reply'[c].type = "Welcome" /\ RopeId(c)' = RopeId(c)
           /\ host[c] = "served" => host'[c] = "served" /\ RopeId(c)' = RopeId(c)
<1> USE DEF HostGoes, RopeGoes, hostVars, ropeVars, hubVars
<1>1. /\ reply[c].type = "Welcome" => rope[c] # "idle" /\ host[c] \notin Undecided
      /\ host[c] = "served" => rope[c] # "idle"
      /\ reply \in [Conns -> Answers] /\ host \in [Conns -> {"handshake",
             "rejecting", "approved", "welcomed", "serving", "served", "gone"}]
      /\ first \in [Conns -> Ties \cup {Nothing, Other}]
  BY WelcomedHasRopeId DEF AdmissionInv, TypeOK, OneAnswer, Decided, Nothing
<1> DEFINE Stable == /\ reply[c].type = "Welcome" =>
                           reply'[c] = reply[c] /\ first'[c] = first[c]
                     /\ host[c] = "served" =>
                           host'[c] = "served" /\ first'[c] = first[c]
<1>2. ASSUME NEW d \in Conns, HandleConnection(d) PROVE Stable
  BY <1>1, <1>2 DEF HandleConnection, HostReadTie, HostNoTie, HostReject,
     HostWelcome, HostWelcomeFails, HostServe, HostServeFails, HostEnds, DrawId,
     Undecided
<1>3. ASSUME NEW d \in Conns, SendTie(d) \/ SendOther(d) PROVE Stable
  BY <1>1, <1>3 DEF SendTie, SendOther
<1>4. ASSUME NEW d \in Conns, TieTheKnot(d) \/ GiveUp(d) \/ Leave(d) \/ Lose(d)
      PROVE  Stable
  BY <1>4 DEF TieTheKnot, ReceiveWelcome, ReceiveReject, TieFails, GiveUp, Leave, Lose
<1>5. OnEvent \/ UNCHANGED vars => Stable
  BY DEF OnEvent, vars
<1> QED
  BY <1>2, <1>3, <1>4, <1>5 DEF Next, RopeId

\* The steps that neither announce a rope nor its end, nor handle an event.
LEMMA RegistryIsLeftAlone ==
    ASSUME AdmissionInv, [Next]_vars,
           \A c \in Conns : ~HostServe(c) /\ ~HostServeFails(c) /\ ~HostEnds(c),
           ~OnEvent
    PROVE  /\ UNCHANGED hubVars
           /\ \A c \in Conns : host'[c] = "serving" => host[c] = "serving"
<1> USE DEF HostGoes, hostVars, hubVars
<1>1. host \in [Conns -> {"handshake", "rejecting", "approved", "welcomed",
                          "serving", "served", "gone"}]
  BY DEF AdmissionInv, TypeOK
<1> DEFINE Goal == /\ UNCHANGED hubVars
                   /\ \A c \in Conns : host'[c] = "serving" => host[c] = "serving"
<1>2. ASSUME NEW d \in Conns, HandleConnection(d) PROVE Goal
  BY <1>1, <1>2 DEF HandleConnection, HostReadTie, HostNoTie, HostReject,
     HostWelcome, HostWelcomeFails, DrawId
<1>3. ASSUME NEW d \in Conns, SendTie(d) \/ SendOther(d) \/ TieTheKnot(d) \/
             GiveUp(d) \/ Leave(d) \/ Lose(d)
      PROVE  Goal
  BY <1>3 DEF SendTie, SendOther, TieTheKnot, ReceiveWelcome, ReceiveReject,
     TieFails, GiveUp, Leave, Lose
<1>4. UNCHANGED vars => Goal
  BY DEF vars
<1> QED
  BY <1>2, <1>3, <1>4 DEF Next

\* What one more event in the queue does to it.
LEMMA EventAppended ==
    ASSUME AdmissionInv, NEW c \in Conns, NEW type, Send(type, c)
    PROVE  /\ \A i \in DOMAIN events : i \in DOMAIN events' /\ events'[i] = events[i]
           /\ \E i \in DOMAIN events' : events'[i].type = type /\ events'[i].conn = c
           /\ \A i \in DOMAIN events' :
                  \/ i \in DOMAIN events /\ events'[i] = events[i]
                  \/ events'[i].type = type /\ events'[i].conn = c
<1> DEFINE e == [type |-> type, conn |-> c]
<1>1. events' = Append(events, e) /\ events \in Seq(Events)
  BY DEF Send, AdmissionInv, TypeOK
<1>2. e.type = type /\ e.conn = c
  OBVIOUS
<1> HIDE DEF e
<1>3. /\ Len(events) + 1 \in DOMAIN events' /\ events'[Len(events) + 1] = e
      /\ \A i \in DOMAIN events : i \in DOMAIN events' /\ events'[i] = events[i]
      /\ \A i \in DOMAIN events' :
             (i \in DOMAIN events /\ events'[i] = events[i]) \/ events'[i] = e
  BY <1>1
<1> QED
  BY <1>2, <1>3

LEMMA RegistryStep ==
    AdmissionInv /\ AdmissionInv' /\ RegistryInv /\ [Next]_vars => RegistryInv'
<1> SUFFICES ASSUME AdmissionInv, AdmissionInv', RegistryInv, [Next]_vars
             PROVE  RegistryInv'
  OBVIOUS
<1>1. \A c \in Conns :
         /\ reply[c].type = "Welcome" =>
                reply'[c].type = "Welcome" /\ RopeId(c)' = RopeId(c)
         /\ host[c] = "served" => host'[c] = "served" /\ RopeId(c)' = RopeId(c)
  BY WelcomedIsStable
<1>2. /\ \A c \in Conns : host[c] \in {"welcomed", "serving", "served"} =>
             first[c].type = "Tie"
      /\ \A c \in Conns : host[c] \in {"welcomed", "serving"} =>
             reply[c].type = "Welcome"
      /\ \A i \in DOMAIN events : events[i] \in Events /\ events[i].conn \in Conns
                                  /\ reply[events[i].conn].type = "Welcome"
      /\ senders \in [RopeIds -> Conns \cup {NoConn}] /\ NoConn \notin Conns
      /\ host \in [Conns -> {"handshake", "rejecting", "approved", "welcomed",
                             "serving", "served", "gone"}]
  BY EventQueueLaws, AdmissionAssumption
     DEF AdmissionInv, TypeOK, Decided, Announced, Events
<1>3. \A c \in Conns : reply[c].type = "Welcome" => RopeId(c) \in RopeIds
  BY WelcomedHasRopeId
<1>4. ASSUME UNCHANGED senders PROVE HeldAreWelcomed'
  BY <1>1, <1>2, <1>4 DEF RegistryInv, HeldAreWelcomed
<1>5. CASE UNCHANGED hubVars /\ \A c \in Conns : host'[c] = "serving" => host[c] = "serving"
  <2>1. /\ UNCHANGED <<events, senders>>
        /\ \A c \in Conns : host'[c] = "serving" =>
               host[c] = "serving" /\ RopeId(c)' = RopeId(c)
    BY <1>1, <1>2, <1>5 DEF hubVars
  <2>2. PartedAreServed'
    BY <1>1, <1>2, <2>1 DEF RegistryInv, PartedAreServed
  <2>3. \A c \in Conns : host'[c] = "serving" => /\ Replaced(c) => Replaced(c)'
                                                 /\ Announcing(c) => Announcing(c)'
    <3>1. ASSUME NEW c \in Conns, host'[c] = "serving", Replaced(c) PROVE Replaced(c)'
      <4>1. PICK d \in Conns : host[d] = "served" /\ RopeId(d) = RopeId(c)
        BY <3>1 DEF Replaced
      <4>2. host'[d] = "served" /\ RopeId(d)' = RopeId(d) /\ RopeId(c)' = RopeId(c)
        BY <1>1, <2>1, <3>1, <4>1
      <4> QED
        BY <4>1, <4>2 DEF Replaced
    <3>2. ASSUME NEW c \in Conns, host'[c] = "serving", Announcing(c) PROVE Announcing(c)'
      BY <1>1, <1>2, <2>1, <3>2 DEF Announcing
    <3> QED
      BY <3>1, <3>2
  <2>4. ServedAreKnown'
    BY <2>1, <2>3 DEF RegistryInv, ServedAreKnown
  <2> QED
    BY <1>4, <2>1, <2>2, <2>4 DEF RegistryInv
<1>6. ASSUME NEW c \in Conns, HostServe(c) \/ HostServeFails(c) PROVE RegistryInv'
  <2>1. /\ UNCHANGED senders /\ Send("RopeConnected", c) /\ host[c] = "welcomed"
        /\ \A d \in Conns \ {c} : host'[d] = host[d]
    BY <1>2, <1>6 DEF HostServe, HostServeFails, HostGoes
  <2>2. PartedAreServed'
    BY <1>1, <1>2, <2>1, EventAppended DEF RegistryInv, PartedAreServed
  <2>3. Announcing(c)'
    BY <1>1, <1>2, <2>1, EventAppended DEF Announcing
  <2>4. ASSUME NEW d \in Conns \ {c}, host[d] = "serving"
        PROVE  /\ RopeId(d)' = RopeId(d) /\ (Replaced(d) => Replaced(d)')
               /\ Announcing(d) => Announcing(d)'
    <3>1. RopeId(d)' = RopeId(d)
      BY <1>1, <1>2, <2>4
    <3>2. Replaced(d) => Replaced(d)'
      BY <1>1, <3>1 DEF Replaced
    <3>3. ASSUME Announcing(d) PROVE Announcing(d)'
      <4>1. PICK i \in DOMAIN events : /\ events[i].type = "RopeConnected"
                                      /\ RopeId(events[i].conn) = RopeId(d)
        BY <3>3 DEF Announcing
      <4>2. i \in DOMAIN events' /\ events'[i] = events[i]
        BY <2>1, EventAppended
      <4>3. RopeId(events[i].conn)' = RopeId(events[i].conn)
        <5> DEFINE x == events[i].conn
        <5>1. x \in Conns /\ reply[x].type = "Welcome"
          BY <1>2
        <5>2. \A y \in Conns : reply[y].type = "Welcome" =>
                 AssignedId[first'[y].identity] = AssignedId[first[y].identity]
          BY <1>1 DEF RopeId
        <5> QED
          BY <4>2, <5>1, <5>2 DEF RopeId
      <4> QED
        BY <3>1, <4>1, <4>2, <4>3 DEF Announcing
    <3> QED
      BY <3>1, <3>2, <3>3
  <2>5. ServedAreKnown'
    BY <1>1, <1>2, <2>1, <2>3, <2>4 DEF RegistryInv, ServedAreKnown
  <2> QED
    BY <1>4, <2>1, <2>2, <2>5 DEF RegistryInv
<1>7. ASSUME NEW c \in Conns, HostEnds(c) PROVE RegistryInv'
  <2>1. /\ UNCHANGED senders /\ Send("RopeDisconnected", c) /\ host[c] = "serving"
        /\ host'[c] = "served" /\ \A d \in Conns \ {c} : host'[d] = host[d]
    BY <1>2, <1>7 DEF HostEnds, HostGoes
  <2>2. PartedAreServed'
    BY <1>1, <1>2, <2>1, EventAppended DEF RegistryInv, PartedAreServed
  <2>3. ASSUME NEW d \in Conns \ {c}, host[d] = "serving"
        PROVE  /\ RopeId(d)' = RopeId(d) /\ (Replaced(d) => Replaced(d)')
               /\ Announcing(d) => Announcing(d)'
    <3>1. RopeId(d)' = RopeId(d)
      BY <1>1, <1>2, <2>3
    <3>2. Replaced(d) => Replaced(d)'
      BY <1>1, <3>1 DEF Replaced
    <3>3. ASSUME Announcing(d) PROVE Announcing(d)'
      <4>1. PICK i \in DOMAIN events : /\ events[i].type = "RopeConnected"
                                      /\ RopeId(events[i].conn) = RopeId(d)
        BY <3>3 DEF Announcing
      <4>2. i \in DOMAIN events' /\ events'[i] = events[i]
        BY <2>1, EventAppended
      <4>3. RopeId(events[i].conn)' = RopeId(events[i].conn)
        <5> DEFINE x == events[i].conn
        <5>1. x \in Conns /\ reply[x].type = "Welcome"
          BY <1>2
        <5>2. \A y \in Conns : reply[y].type = "Welcome" =>
                 AssignedId[first'[y].identity] = AssignedId[first[y].identity]
          BY <1>1 DEF RopeId
        <5> QED
          BY <4>2, <5>1, <5>2 DEF RopeId
      <4> QED
        BY <3>1, <4>1, <4>2, <4>3 DEF Announcing
    <3> QED
      BY <3>1, <3>2, <3>3
  <2>4. ServedAreKnown'
    BY <1>1, <1>2, <2>1, <2>3 DEF RegistryInv, ServedAreKnown
  <2> QED
    BY <1>4, <2>1, <2>2, <2>4 DEF RegistryInv
<1>8. CASE OnEvent
  <2> DEFINE e == Head(events)
  <2>1. /\ events # <<>> /\ events' = Tail(events) /\ UNCHANGED <<hostVars, ropeVars, reply>>
        /\ senders' = [senders EXCEPT ![RopeId(e.conn)] =
                           IF e.type = "RopeConnected" THEN e.conn ELSE NoConn]
    BY <1>8 DEF OnEvent
  <2>2. /\ 1 \in DOMAIN events /\ events[1] = e
        /\ \A i \in DOMAIN events' : i + 1 \in DOMAIN events /\ events'[i] = events[i + 1]
        /\ \A i \in DOMAIN events : i = 1 \/ (i - 1 \in DOMAIN events' /\ events'[i - 1] = events[i])
    BY <2>1 DEF AdmissionInv, TypeOK
  <2>3. e \in Events /\ e.conn \in Conns /\ reply[e.conn].type = "Welcome"
        /\ RopeId(e.conn) \in RopeIds
    BY <1>2, <1>3, <2>2
  <2> HIDE DEF e
  <2>4. \A c \in Conns : RopeId(c)' = RopeId(c)
    BY <2>1 DEF RopeId, ropeVars
  <2>5. /\ senders'[RopeId(e.conn)] = IF e.type = "RopeConnected" THEN e.conn ELSE NoConn
        /\ \A r \in RopeIds : r # RopeId(e.conn) => senders'[r] = senders[r]
    BY <1>2, <2>1, <2>3
  <2>6. HeldAreWelcomed'
    BY <1>2, <2>1, <2>3, <2>4, <2>5 DEF RegistryInv, HeldAreWelcomed
  <2>7. PartedAreServed'
    BY <2>1, <2>2 DEF RegistryInv, PartedAreServed, hostVars
  <2>8. ASSUME NEW c \in Conns, host'[c] = "serving"
        PROVE  Replaced(c)' \/ Announcing(c)' \/ senders'[RopeId(c)] # NoConn
    <3>1. host[c] = "serving" /\ RopeId(c) \in RopeIds
      BY <1>2, <1>3, <2>1, <2>8 DEF hostVars
    <3>2. CASE Replaced(c)
      BY <2>1, <2>4, <3>2 DEF Replaced, hostVars
    <3>3. CASE RopeId(c) = RopeId(e.conn) /\ e.type = "RopeConnected"
      BY <1>2, <2>3, <2>5, <3>3
    <3>4. CASE RopeId(c) = RopeId(e.conn) /\ e.type # "RopeConnected"
      <4>1. e.type = "RopeDisconnected"
        BY <2>3, <3>4 DEF Events
      <4>2. host[e.conn] = "served"
        BY <2>2, <4>1 DEF RegistryInv, PartedAreServed
      <4> QED
        BY <2>3, <3>2, <3>4, <4>2 DEF Replaced
    <3>5. CASE RopeId(c) # RopeId(e.conn) /\ Announcing(c)
      BY <2>2, <2>4, <1>2, <3>5 DEF Announcing
    <3>6. CASE RopeId(c) # RopeId(e.conn) /\ senders[RopeId(c)] # NoConn
      BY <2>5, <3>1, <3>6
    <3> QED
      BY <3>1, <3>2, <3>3, <3>4, <3>5, <3>6 DEF RegistryInv, ServedAreKnown
  <2> QED
    BY <2>4, <2>6, <2>7, <2>8 DEF RegistryInv, ServedAreKnown
<1> QED
  BY <1>5, <1>6, <1>7, <1>8, RegistryIsLeftAlone

-----------------------------------------------------------------------------
(* PartedAreForgotten.  Each connection's two events are sent once and in   *)
(* their order, so that the one which removes it is the last of it.         *)

EventsInv ==
    /\ \A i \in DOMAIN events : WasAnnounced(events[i].conn)
    /\ \A i, j \in DOMAIN events :
           /\ events[i].conn = events[j].conn
           /\ events[j].type = "RopeConnected" \/ events[i].type = "RopeDisconnected"
           => j <= i
    /\ \A i \in DOMAIN events :
           events[i].type = "RopeDisconnected" => host[events[i].conn] = "served"
    /\ \A c \in Conns : host[c] = "served" /\ Queued("RopeConnected", c) =>
           Queued("RopeDisconnected", c)

\* Who has been announced, and whose end has been.
LEMMA Announcements ==
    ASSUME AdmissionInv, [Next]_vars, NEW c \in Conns
    PROVE  /\ WasAnnounced(c) => WasAnnounced(c)'
           /\ WasAnnounced(c)' => \/ WasAnnounced(c)
                                 \/ HostServe(c) \/ HostServeFails(c)
           /\ host[c] = "served" => host'[c] = "served"
           /\ host'[c] = "served" => host[c] = "served" \/ HostEnds(c)
<1> USE DEF HostGoes, RopeGoes, hostVars, ropeVars, hubVars
<1>1. /\ reply \in [Conns -> Answers] /\ host \in [Conns -> {"handshake",
             "rejecting", "approved", "welcomed", "serving", "served", "gone"}]
      /\ host[c] \in Undecided => reply[c].type = "Nothing"
      /\ \A d \in Conns : Reject(reason[d]).type = "Reject"
  BY DEF AdmissionInv, TypeOK, OneAnswer, Nothing, Reject
<1> DEFINE Goal == /\ WasAnnounced(c) => WasAnnounced(c)'
                   /\ WasAnnounced(c)' => \/ WasAnnounced(c)
                                         \/ HostServe(c) \/ HostServeFails(c)
                   /\ host[c] = "served" => host'[c] = "served"
                   /\ host'[c] = "served" => host[c] = "served" \/ HostEnds(c)
<1>2. host'[c] = host[c] /\ reply'[c] = reply[c] => Goal
  BY DEF WasAnnounced
<1>3. ASSUME NEW d \in Conns \ {c}, HandleConnection(d) PROVE Goal
  BY <1>1, <1>2, <1>3 DEF HandleConnection, HostReadTie, HostNoTie, HostReject,
     HostWelcome, HostWelcomeFails, HostServe, HostServeFails, HostEnds, DrawId
<1>4. CASE HostReadTie(c) \/ HostNoTie(c) \/ HostReject(c)
  BY <1>1, <1>4 DEF HostReadTie, HostNoTie, HostReject, Undecided, WasAnnounced
<1>5. CASE HostWelcome(c) \/ HostWelcomeFails(c)
  BY <1>1, <1>5 DEF HostWelcome, HostWelcomeFails, DrawId, Undecided, WasAnnounced
<1>6. CASE HostServe(c) \/ HostServeFails(c) \/ HostEnds(c)
  BY <1>1, <1>6 DEF HostServe, HostServeFails, HostEnds, WasAnnounced
<1>7. ASSUME NEW d \in Conns, TieTheKnot(d) \/ SendTie(d) \/ SendOther(d) \/
             GiveUp(d) \/ Leave(d) \/ Lose(d)
      PROVE  Goal
  BY <1>2, <1>7 DEF TieTheKnot, ReceiveWelcome, ReceiveReject, TieFails, SendTie,
     SendOther, GiveUp, Leave, Lose
<1>8. CASE OnEvent \/ UNCHANGED vars
  BY <1>2, <1>8 DEF OnEvent, vars
<1>9. CASE HandleConnection(c)
  BY <1>4, <1>5, <1>6, <1>9 DEF HandleConnection
<1> QED
  BY <1>3, <1>7, <1>8, <1>9 DEF Next

\* One more event is queued, the last.
LEMMA Sent ==
    ASSUME AdmissionInv, NEW c \in Conns, NEW type, Send(type, c)
    PROVE  /\ \A i \in DOMAIN events : i \in DOMAIN events' /\ events'[i] = events[i]
           /\ \A i \in DOMAIN events' :
                  \/ i \in DOMAIN events
                  \/ /\ events'[i] = [type |-> type, conn |-> c]
                     /\ \A j \in DOMAIN events' : j <= i
           /\ \A t, d : Queued(t, d)' <=> Queued(t, d) \/ (t = type /\ d = c)
<1>1. /\ \A i \in DOMAIN events : i \in DOMAIN events' /\ events'[i] = events[i]
      /\ \A i \in DOMAIN events' :
             \/ i \in DOMAIN events
             \/ /\ events'[i] = [type |-> type, conn |-> c]
                /\ \A j \in DOMAIN events' : j <= i
      /\ \E i \in DOMAIN events' : events'[i] = [type |-> type, conn |-> c]
  <2>1. events \in Seq(Events) /\ events' = Append(events, [type |-> type, conn |-> c])
    BY DEF Send, AdmissionInv, TypeOK
  <2>2. Len(events) + 1 \in DOMAIN events'
        /\ events'[Len(events) + 1] = [type |-> type, conn |-> c]
    BY <2>1
  <2> QED
    BY <2>1, <2>2
<1>2. ASSUME NEW t, NEW d
      PROVE  Queued(t, d)' <=> Queued(t, d) \/ (t = type /\ d = c)
  <2>1. [type |-> t, conn |-> d] = [type |-> type, conn |-> c] <=> t = type /\ d = c
    OBVIOUS
  <2> QED
    BY <1>1, <2>1 DEF Queued
<1> QED
  BY <1>1, <1>2

\* The first event is handled.
LEMMA FirstHandled ==
    ASSUME AdmissionInv, OnEvent
    PROVE  \E e \in Events :
               /\ e = Head(events) /\ 1 \in DOMAIN events /\ events[1] = e
               /\ e.conn \in Conns /\ e = [type |-> e.type, conn |-> e.conn]
               /\ \A i \in DOMAIN events' :
                      i \in Nat \ {0} /\ i + 1 \in DOMAIN events
                      /\ events'[i] = events[i + 1]
               /\ \A t, d : Queued(t, d) <=>
                      Queued(t, d)' \/ (t = e.type /\ d = e.conn)
<1>1. events # <<>> /\ events \in Seq(Events) /\ events' = Tail(events)
  BY DEF OnEvent, AdmissionInv, TypeOK
<1>2. PICK e : e = Head(events)
  OBVIOUS
<1>3. /\ e \in Events /\ 1 \in DOMAIN events /\ events[1] = e
      /\ \A i \in DOMAIN events' :
             i \in Nat \ {0} /\ i + 1 \in DOMAIN events /\ events'[i] = events[i + 1]
      /\ \A i \in DOMAIN events :
             i = 1 \/ (i - 1 \in DOMAIN events' /\ events'[i - 1] = events[i])
  BY <1>1, <1>2
<1>4. e.conn \in Conns /\ e = [type |-> e.type, conn |-> e.conn]
  BY <1>3 DEF Events
<1>5. ASSUME NEW t, NEW d
      PROVE  Queued(t, d) <=> Queued(t, d)' \/ (t = e.type /\ d = e.conn)
  <2>1. [type |-> t, conn |-> d] = e <=> t = e.type /\ d = e.conn
    BY <1>4
  <2> QED
    BY <1>3, <2>1 DEF Queued
<1> QED
  BY <1>2, <1>3, <1>4, <1>5

LEMMA EventsStep == AdmissionInv /\ EventsInv /\ [Next]_vars => EventsInv'
<1> SUFFICES ASSUME AdmissionInv, EventsInv, [Next]_vars PROVE EventsInv'
  OBVIOUS
<1>1. \A i \in DOMAIN events : events[i] \in Events /\ events[i].conn \in Conns
  BY EventQueueLaws DEF AdmissionInv, TypeOK, Events
<1>2. \A c \in Conns : /\ WasAnnounced(c) => WasAnnounced(c)'
                       /\ host[c] = "served" => host'[c] = "served"
                       /\ host'[c] = "served" => host[c] = "served" \/ HostEnds(c)
  BY Announcements
<1>3. ASSUME NEW c \in Conns, NEW type, Send(type, c),
             WasAnnounced(c)',
             type = "RopeConnected" => ~WasAnnounced(c) /\ host'[c] # "served",
             type = "RopeDisconnected" => host[c] # "served" /\ host'[c] = "served",
             \A d \in Conns \ {c} : host'[d] = host[d],
             type \in {"RopeConnected", "RopeDisconnected"},
             type = "RopeConnected" => host[c] # "served"
      PROVE  EventsInv'
  <2>1. /\ \A i \in DOMAIN events : i \in DOMAIN events' /\ events'[i] = events[i]
        /\ \A i \in DOMAIN events' :
               \/ i \in DOMAIN events
               \/ /\ events'[i] = [type |-> type, conn |-> c]
                  /\ \A j \in DOMAIN events' : j <= i
        /\ \A t, d : Queued(t, d)' <=> Queued(t, d) \/ (t = type /\ d = c)
    BY <1>3, Sent
  <2>2. \A i \in DOMAIN events' \ DOMAIN events :
           events'[i].type = type /\ events'[i].conn = c
    BY <2>1
  <2>3. \A i \in DOMAIN events' : WasAnnounced(events[i].conn)'
    <3> SUFFICES ASSUME NEW i \in DOMAIN events' PROVE WasAnnounced(events[i].conn)'
      OBVIOUS
    <3>1. PICK x \in Conns : x = events'[i].conn /\ WasAnnounced(x)'
      <4>1. CASE i \in DOMAIN events
        <5>1. PICK x \in Conns : x = events[i].conn /\ WasAnnounced(x)
          BY <1>1, <4>1 DEF EventsInv
        <5> QED
          BY <1>2, <2>1, <4>1, <5>1
      <4>2. CASE i \notin DOMAIN events
        BY <1>3, <2>2, <4>2
      <4> QED
        BY <4>1, <4>2
    <3> QED
      BY <3>1 DEF WasAnnounced
  <2>4. \A i, j \in DOMAIN events' :
           /\ events'[i].conn = events'[j].conn
           /\ events'[j].type = "RopeConnected" \/ events'[i].type = "RopeDisconnected"
           => j <= i
    <3> SUFFICES ASSUME NEW i \in DOMAIN events', NEW j \in DOMAIN events',
                        events'[i].conn = events'[j].conn,
                        events'[j].type = "RopeConnected" \/
                            events'[i].type = "RopeDisconnected"
                 PROVE  j <= i
      OBVIOUS
    <3>1. CASE i \notin DOMAIN events
      BY <2>1, <3>1
    <3>2. CASE i \in DOMAIN events /\ j \in DOMAIN events
      BY <2>1, <3>2 DEF EventsInv
    <3>3. CASE i \in DOMAIN events /\ j \notin DOMAIN events
      <4>1. events[i].conn = c /\ WasAnnounced(c) /\ events'[j].type = type
        BY <2>1, <2>2, <3>3 DEF EventsInv
      <4>2. events[i].type = "RopeDisconnected" => host[c] = "served"
        BY <3>3, <4>1 DEF EventsInv
      <4> QED
        BY <1>3, <2>1, <3>3, <4>1, <4>2
    <3> QED
      BY <3>1, <3>2, <3>3
  <2>5. \A i \in DOMAIN events' :
           events'[i].type = "RopeDisconnected" => host'[events'[i].conn] = "served"
    BY <1>1, <1>2, <1>3, <2>1, <2>2 DEF EventsInv
  <2>6. \A d \in Conns : host'[d] = "served" /\ Queued("RopeConnected", d)' =>
           Queued("RopeDisconnected", d)'
    BY <1>3, <2>1 DEF EventsInv
  <2> QED
    BY <2>3, <2>4, <2>5, <2>6 DEF EventsInv
<1>4. CASE OnEvent
  <2>1. PICK e \in Events :
               /\ 1 \in DOMAIN events /\ events[1] = e
               /\ \A i \in DOMAIN events' :
                      i \in Nat \ {0} /\ i + 1 \in DOMAIN events
                      /\ events'[i] = events[i + 1]
               /\ \A t, d : Queued(t, d) <=>
                      Queued(t, d)' \/ (t = e.type /\ d = e.conn)
    BY <1>4, FirstHandled
  <2>2. UNCHANGED <<host, reply>>
    BY <1>4 DEF OnEvent, hostVars
  <2>3. ASSUME NEW i \in DOMAIN events', NEW j \in DOMAIN events',
               events'[i].conn = events'[j].conn,
               events'[j].type = "RopeConnected" \/
                   events'[i].type = "RopeDisconnected"
        PROVE  j <= i
    <3>1. j + 1 <= i + 1
      BY <2>1, <2>3 DEF EventsInv
    <3> QED
      BY <2>1, <3>1
  <2>4. ASSUME NEW d \in Conns, host[d] = "served", Queued("RopeConnected", d)'
        PROVE  Queued("RopeDisconnected", d)'
    <3>1. Queued("RopeConnected", d) /\ Queued("RopeDisconnected", d)
      BY <2>1, <2>4 DEF EventsInv
    <3>2. ASSUME e.type = "RopeDisconnected", e.conn = d PROVE FALSE
      <4>1. PICK j \in DOMAIN events' :
                events'[j] = [type |-> "RopeConnected", conn |-> d]
        BY <2>4 DEF Queued
      <4>2. events[j + 1].type = "RopeConnected" /\ events[j + 1].conn = events[1].conn
        BY <2>1, <3>2, <4>1
      <4>3. j + 1 <= 1
        BY <2>1, <4>2 DEF EventsInv
      <4> QED
        BY <2>1, <4>3
    <3> QED
      BY <2>1, <3>1, <3>2
  <2>5. \A i \in DOMAIN events' : WasAnnounced(events[i].conn)'
    BY <2>1, <2>2 DEF EventsInv, WasAnnounced
  <2>6. \A i \in DOMAIN events' :
           events'[i].type = "RopeDisconnected" => host'[events'[i].conn] = "served"
    BY <2>1, <2>2 DEF EventsInv
  <2> QED
    BY <2>2, <2>3, <2>4, <2>5, <2>6 DEF EventsInv
<1>5. CASE UNCHANGED events /\ \A c \in Conns : ~HostEnds(c)
  <2>1. ASSUME NEW i \in DOMAIN events' PROVE WasAnnounced(events[i].conn)'
    <3>1. PICK x \in Conns : x = events[i].conn /\ x = events'[i].conn /\ WasAnnounced(x)
      BY <1>1, <1>5 DEF EventsInv
    <3>2. WasAnnounced(x)'
      BY <1>2, <3>1
    <3> QED
      BY <3>1, <3>2 DEF WasAnnounced
  <2>2. \A c \in Conns : host'[c] = "served" <=> host[c] = "served"
    BY <1>2, <1>5
  <2> QED
    BY <1>1, <1>5, <2>1, <2>2 DEF EventsInv, WasAnnounced, Queued
<1>6. ASSUME NEW c \in Conns, HostServe(c) \/ HostServeFails(c) PROVE EventsInv'
  <2>1. /\ Send("RopeConnected", c) /\ host[c] = "welcomed" /\ UNCHANGED reply
        /\ host' = [host EXCEPT ![c] = "serving"] \/ host' = [host EXCEPT ![c] = "gone"]
    BY <1>6 DEF HostServe, HostServeFails, HostGoes
  <2>2. reply[c].type = "Welcome" /\ host \in [Conns -> {"handshake",
             "rejecting", "approved", "welcomed", "serving", "served", "gone"}]
    BY <2>1 DEF AdmissionInv, Announced, TypeOK
  <2>3. WasAnnounced(c)' /\ ~WasAnnounced(c) /\ host'[c] # "served"
        /\ \A d \in Conns \ {c} : host'[d] = host[d]
    BY <2>1, <2>2 DEF WasAnnounced
  <2> QED
    BY <1>3, <2>1, <2>3
<1>7. ASSUME NEW c \in Conns, HostEnds(c) PROVE EventsInv'
  <2>1. /\ Send("RopeDisconnected", c) /\ host[c] = "serving"
        /\ host' = [host EXCEPT ![c] = "served"]
    BY <1>7 DEF HostEnds, HostGoes
  <2>2. host'[c] = "served" /\ \A d \in Conns \ {c} : host'[d] = host[d]
    BY <2>1 DEF AdmissionInv, TypeOK
  <2>3. WasAnnounced(c)'
    BY <2>2 DEF WasAnnounced
  <2> QED
    BY <1>3, <2>1, <2>2, <2>3
<1> QED
  BY <1>4, <1>5, <1>6, <1>7, RegistryIsLeftAlone DEF hubVars

\* Sending an event changes nothing of what the application has heard.
LEMMA KnownElsewhere ==
    ASSUME AdmissionInv, EventsInv, [Next]_vars, ~OnEvent
    PROVE  UNCHANGED senders /\ \A c \in Conns : Known(c)' = Known(c)
<1> DEFINE Goal == UNCHANGED senders /\ \A c \in Conns : Known(c)' = Known(c)
<1>1. \A c \in Conns : /\ WasAnnounced(c) => WasAnnounced(c)'
                       /\ WasAnnounced(c)' => \/ WasAnnounced(c)
                                             \/ HostServe(c) \/ HostServeFails(c)
                       /\ host[c] = "served" => host'[c] = "served"
                       /\ host'[c] = "served" => host[c] = "served" \/ HostEnds(c)
  BY Announcements
<1>2. ASSUME NEW c \in Conns, NEW type, Send(type, c), UNCHANGED senders,
             \A d \in Conns \ {c} : /\ WasAnnounced(d)' <=> WasAnnounced(d)
                                    /\ host'[d] = host[d],
             Known(c)' = Known(c)
      PROVE  Goal
  <2>1. \A t, d : Queued(t, d)' <=> Queued(t, d) \/ (t = type /\ d = c)
    BY <1>2, Sent
  <2>2. \A d \in Conns \ {c} : Known(d)' = Known(d)
    BY <1>2, <2>1 DEF Known
  <2> QED
    BY <1>2, <2>2
<1>3. ASSUME NEW c \in Conns, HostServe(c) \/ HostServeFails(c) PROVE Goal
  <2>1. /\ Send("RopeConnected", c) /\ UNCHANGED <<senders, reply>>
        /\ host[c] = "welcomed"
        /\ host' = [host EXCEPT ![c] = "serving"] \/ host' = [host EXCEPT ![c] = "gone"]
    BY <1>3 DEF HostServe, HostServeFails, HostGoes
  <2>2. \A d \in Conns \ {c} : host'[d] = host[d] /\ (WasAnnounced(d)' <=> WasAnnounced(d))
    BY <2>1 DEF WasAnnounced, AdmissionInv, TypeOK
  <2>3. Queued("RopeConnected", c)'
    BY <2>1, Sent
  <2>4. ~WasAnnounced(c)
    BY <2>1 DEF WasAnnounced
  <2>5. Known(c)' = Known(c)
    BY <2>3, <2>4 DEF Known
  <2> QED
    BY <1>2, <2>1, <2>2, <2>5
<1>4. ASSUME NEW c \in Conns, HostEnds(c) PROVE Goal
  <2>1. /\ Send("RopeDisconnected", c) /\ UNCHANGED <<senders, reply>>
        /\ host[c] = "serving" /\ host' = [host EXCEPT ![c] = "served"]
    BY <1>4 DEF HostEnds, HostGoes
  <2>2. host'[c] = "served"
        /\ \A d \in Conns \ {c} : host'[d] = host[d] /\ (WasAnnounced(d)' <=> WasAnnounced(d))
    BY <2>1 DEF WasAnnounced, AdmissionInv, TypeOK
  <2>3. Queued("RopeDisconnected", c)'
        /\ (Queued("RopeConnected", c)' <=> Queued("RopeConnected", c))
    BY <2>1, Sent
  <2>4. WasAnnounced(c) /\ WasAnnounced(c)'
    BY <2>1, <2>2 DEF WasAnnounced
  <2>5. Known(c)' = Known(c)
    BY <2>1, <2>2, <2>3, <2>4 DEF Known
  <2> QED
    BY <1>2, <2>1, <2>2, <2>5
<1>5. CASE UNCHANGED hubVars /\ \A c \in Conns : ~HostServe(c) /\ ~HostServeFails(c) /\ ~HostEnds(c)
  <2>1. \A c \in Conns : /\ WasAnnounced(c)' <=> WasAnnounced(c)
                         /\ host'[c] = "served" <=> host[c] = "served"
    BY <1>1, <1>5
  <2>2. \A t, d : Queued(t, d)' <=> Queued(t, d)
    BY <1>5 DEF hubVars, Queued
  <2> QED
    BY <1>5, <2>1, <2>2 DEF hubVars, Known
<1> QED
  BY <1>3, <1>4, <1>5, RegistryIsLeftAlone

\* Handling an event makes a stranger a member, or a member a parted one.
LEMMA KnownHandled ==
    ASSUME AdmissionInv, EventsInv, OnEvent
    PROVE  \E c \in Conns :
               /\ reply[c].type = "Welcome"
               /\ \A d \in Conns \ {c} : Known(d)' = Known(d)
               /\ \/ /\ Known(c) = "stranger" /\ Known(c)' = "member"
                     /\ senders' = [senders EXCEPT ![RopeId(c)] = c]
                  \/ /\ Known(c) = "member" /\ Known(c)' = "parted"
                     /\ senders' = [senders EXCEPT ![RopeId(c)] = NoConn]
<1>1. PICK e \in Events :
          /\ e = Head(events) /\ 1 \in DOMAIN events /\ events[1] = e
          /\ e.conn \in Conns
          /\ \A i \in DOMAIN events' :
                 i \in Nat \ {0} /\ i + 1 \in DOMAIN events
                 /\ events'[i] = events[i + 1]
          /\ \A t, d : Queued(t, d) <=>
                 Queued(t, d)' \/ (t = e.type /\ d = e.conn)
  BY FirstHandled
<1>2. PICK c \in Conns : c = e.conn
  BY <1>1
<1>3. /\ UNCHANGED <<host, reply>>
      /\ senders' = [senders EXCEPT ![RopeId(c)] =
                         IF e.type = "RopeConnected" THEN c ELSE NoConn]
  BY <1>1, <1>2 DEF OnEvent, hostVars
<1>4. e.type \in {"RopeConnected", "RopeDisconnected"}
  BY DEF Events
<1>5. \A d : WasAnnounced(d)' <=> WasAnnounced(d)
  BY <1>3 DEF WasAnnounced
<1>6. WasAnnounced(c) /\ reply[c].type = "Welcome"
  BY <1>1, <1>2 DEF EventsInv, AdmissionInv, Announced
<1>7. \A d \in Conns \ {c} : Known(d)' = Known(d)
  BY <1>1, <1>2, <1>3, <1>5 DEF Known
<1>8. ~Queued("RopeConnected", c)'
  <2> SUFFICES ASSUME NEW j \in DOMAIN events',
                      events'[j] = [type |-> "RopeConnected", conn |-> c]
               PROVE  FALSE
    BY DEF Queued
  <2>1. events[j + 1].type = "RopeConnected" /\ events[j + 1].conn = events[1].conn
    BY <1>1, <1>2
  <2>2. j + 1 <= 1
    BY <1>1, <2>1 DEF EventsInv
  <2> QED
    BY <1>1, <2>2
<1>9. CASE e.type = "RopeConnected"
  <2>1. Queued("RopeConnected", c)
    BY <1>1, <1>2, <1>9
  <2>2. host[c] = "served" => Queued("RopeDisconnected", c)'
    <3>1. host[c] = "served" => Queued("RopeDisconnected", c)
      BY <2>1 DEF EventsInv
    <3> QED
      BY <1>1, <1>9, <3>1
  <2>3. Known(c) = "stranger" /\ Known(c)' = "member"
    BY <1>3, <1>5, <1>6, <1>8, <2>1, <2>2 DEF Known
  <2> QED
    BY <1>3, <1>6, <1>7, <1>9, <2>3
<1>10. CASE e.type = "RopeDisconnected"
  <2>1. Queued("RopeDisconnected", c) /\ host[c] = "served"
    BY <1>1, <1>2, <1>10 DEF EventsInv
  <2>2. ~Queued("RopeConnected", c)
    BY <1>1, <1>8, <1>10
  <2>3. ~Queued("RopeDisconnected", c)'
    <3> SUFFICES ASSUME NEW j \in DOMAIN events',
                        events'[j] = [type |-> "RopeDisconnected", conn |-> c]
                 PROVE  FALSE
      BY DEF Queued
    <3>1. events[j + 1].type = "RopeDisconnected" /\ events[j + 1].conn = events[1].conn
      BY <1>1, <1>2
    <3>2. j + 1 <= 1
      BY <1>1, <1>10, <3>1 DEF EventsInv
    <3> QED
      BY <1>1, <3>2
  <2>4. Known(c) = "member" /\ Known(c)' = "parted"
    BY <1>3, <1>5, <1>6, <1>8, <2>1, <2>2, <2>3 DEF Known
  <2> QED
    BY <1>3, <1>6, <1>7, <1>10, <2>4
<1> QED
  BY <1>4, <1>9, <1>10

LEMMA ForgottenStep ==
    /\ AdmissionInv /\ AdmissionInv' /\ RegistryInv /\ RegistryInv' /\ EventsInv
    /\ PartedAreForgotten /\ [Next]_vars
    => PartedAreForgotten'
<1> SUFFICES ASSUME AdmissionInv, RegistryInv, RegistryInv', EventsInv,
                    PartedAreForgotten, [Next]_vars,
                    NEW r \in RopeIds, senders'[r] # NoConn
             PROVE  Known(senders[r])' = "member"
  BY DEF PartedAreForgotten
<1>0. senders \in [RopeIds -> Conns \cup {NoConn}]
  BY DEF AdmissionInv, TypeOK
<1>1. CASE ~OnEvent
  <2>1. senders'[r] = senders[r] /\ senders[r] \in Conns
    BY <1>0, <1>1, KnownElsewhere
  <2>2. Known(senders[r]) = "member"
    BY <2>1 DEF PartedAreForgotten
  <2>3. PICK d \in Conns : d = senders[r] /\ d = senders'[r]
    BY <2>1
  <2>4. Known(d)' = "member"
    BY <1>1, <2>2, <2>3, KnownElsewhere
  <2> QED
    BY <2>3, <2>4
<1>2. CASE OnEvent
  <2>1. PICK c \in Conns :
            /\ reply[c].type = "Welcome"
            /\ \A d \in Conns \ {c} : Known(d)' = Known(d)
            /\ \/ /\ Known(c) = "stranger" /\ Known(c)' = "member"
                  /\ senders' = [senders EXCEPT ![RopeId(c)] = c]
               \/ /\ Known(c) = "member" /\ Known(c)' = "parted"
                  /\ senders' = [senders EXCEPT ![RopeId(c)] = NoConn]
    BY <1>2, KnownHandled
  <2>2. PICK d : d = senders'[r]
    OBVIOUS
  <2>3. CASE d = senders[r] /\ r # RopeId(c)
    <3>1. d \in Conns /\ Known(d) = "member" /\ RopeId(d) = r
      BY <1>0, <2>2, <2>3 DEF PartedAreForgotten, RegistryInv, HeldAreWelcomed
    <3>2. Known(d)' = "member"
      BY <2>1, <2>3, <3>1
    <3> QED
      BY <2>2, <3>2
  <2>4. CASE r = RopeId(c)
    <3>1. d = c /\ Known(c)' = "member"
      BY <1>0, <2>1, <2>2, <2>4
    <3> QED
      BY <2>2, <3>1
  <2> QED
    BY <1>0, <2>1, <2>2, <2>3, <2>4
<1> QED
  BY <1>1, <1>2

LEMMA EventsInit == Init => EventsInv /\ PartedAreForgotten
<1> SUFFICES ASSUME Init PROVE EventsInv /\ PartedAreForgotten
  OBVIOUS
<1>1. DOMAIN events = {} /\ \A r \in RopeIds : senders[r] = NoConn
  BY DEF Init
<1>2. \A t, c : ~Queued(t, c)
  BY <1>1 DEF Queued
<1> QED
  BY <1>1, <1>2 DEF EventsInv, PartedAreForgotten

THEOREM RegistryInvariance == Spec => [](RegistryInv /\ EventsInv)
<1>1. Init => RegistryInv /\ EventsInv
  <2>1. Init => RegistryInv
    BY DEF Init, RegistryInv, HeldAreWelcomed, PartedAreServed, ServedAreKnown
  <2> QED
    BY <2>1, EventsInit
<1> QED
  BY <1>1, RegistryStep, EventsStep, AdmissionInvariance, PTL DEF Spec

\* The hub never holds the sender of a connection whose end it has handled,
\* in whatever order the connections of one rope_id come, fail and go: their
\* events are sent by different tasks and removed by rope_id only.
THEOREM TheDepartedAreForgotten == Spec => []PartedAreForgotten
BY EventsInit, ForgottenStep, RegistryInvariance, AdmissionInvariance, PTL DEF Spec

\* As long as every other connection that was announced under its rope_id is
\* still served, the sender that the hub holds for a served rope, once the
\* events sent have been handled, is that of a served connection of its
\* rope_id: its own, if no other was announced.
THEOREM ServedStaysReachable == Spec => []ServedIsReachable
<1>1. AdmissionInv /\ RegistryInv /\ PartedAreForgotten => ServedIsReachable
  <2> SUFFICES ASSUME AdmissionInv, RegistryInv, PartedAreForgotten,
                      events = <<>>, NEW c \in Conns, host[c] = "serving",
                      \A d \in Conns : WasAnnounced(d) /\ RopeId(d) = RopeId(c)
                                           => host[d] = "serving"
               PROVE  \E d \in Conns : /\ senders[RopeId(c)] = d
                                       /\ RopeId(d) = RopeId(c) /\ host[d] = "serving"
    BY DEF ServedIsReachable
  <2>1. ~Replaced(c) /\ ~Announcing(c)
    BY DEF Replaced, Announcing, WasAnnounced
  <2>2. senders[RopeId(c)] # NoConn
    BY <2>1 DEF RegistryInv, ServedAreKnown
  <2>3. RopeId(c) \in RopeIds
    BY WelcomedHasRopeId DEF AdmissionInv, Announced
  <2>4. PICK d \in Conns : d = senders[RopeId(c)]
    BY <2>2, <2>3 DEF AdmissionInv, TypeOK
  <2>5. RopeId(d) = RopeId(c)
    BY <2>2, <2>3, <2>4 DEF RegistryInv, HeldAreWelcomed
  <2>6. WasAnnounced(d)
    BY <2>2, <2>3, <2>4 DEF PartedAreForgotten, Known
  <2> QED
    BY <2>4, <2>5, <2>6
<1> QED
  BY <1>1, TheDepartedAreForgotten, RegistryInvariance, AdmissionInvariance, PTL

-----------------------------------------------------------------------------
(* The refinement of Membership.                                            *)

\* An id is drawn for the Welcome, and what a rope was told ends its wait.
AnsweredInv ==
    /\ \A c \in Conns : host[c] \in Undecided \/ reply[c].type = "Reject" =>
           connection_id[c] = pending
    /\ \A c \in Conns : rope[c] \in {"idle", "tying"} => told[c] = Nothing

LEMMA AnsweredStep == AdmissionInv /\ AnsweredInv /\ [Next]_vars => AnsweredInv'
<1> USE DEF HostGoes, RopeGoes, hostVars, ropeVars, hubVars
<1> SUFFICES ASSUME AdmissionInv, AnsweredInv, [Next]_vars, NEW c \in Conns
             PROVE  /\ host'[c] \in Undecided \/ reply'[c].type = "Reject" =>
                           connection_id'[c] = pending
                    /\ rope'[c] \in {"idle", "tying"} => told'[c] = Nothing
  BY DEF AnsweredInv
<1>1. /\ reply \in [Conns -> Answers] /\ told \in [Conns -> Answers]
      /\ connection_id \in [Conns -> Nat \cup {pending}]
      /\ rope \in [Conns -> {"idle", "tying", "joined", "left", "rejected", "failed"}]
      /\ host \in [Conns -> {"handshake", "rejecting", "approved", "welcomed",
                             "serving", "served", "gone"}]
      /\ host[c] \in Undecided => reply[c].type = "Nothing"
  BY DEF AdmissionInv, TypeOK, OneAnswer, Nothing
<1> DEFINE Drawn == host'[c] \in Undecided \/ reply'[c].type = "Reject" =>
                        connection_id'[c] = pending
           Told == rope'[c] \in {"idle", "tying"} => told'[c] = Nothing
<1>2. UNCHANGED ropeVars => Told
  BY DEF AnsweredInv
<1>3. UNCHANGED <<hostVars, reply>> => Drawn
  BY DEF AnsweredInv
<1>4. ASSUME NEW d \in Conns, HandleConnection(d) PROVE Drawn /\ Told
  <2>1. UNCHANGED ropeVars
    BY <1>4 DEF HandleConnection, HostReadTie, HostNoTie, HostReject, HostWelcome,
       HostWelcomeFails, HostServe, HostServeFails, HostEnds, DrawId
  <2>2. CASE d # c
    <3>1. host'[c] = host[c] /\ reply'[c] = reply[c] /\ connection_id'[c] = connection_id[c]
      BY <1>1, <1>4, <2>2 DEF HandleConnection, HostReadTie, HostNoTie, HostReject,
         HostWelcome, HostWelcomeFails, HostServe, HostServeFails, HostEnds, DrawId
    <3> QED
      BY <1>2, <2>1, <3>1 DEF AnsweredInv
  <2>3. CASE d = c /\ (HostWelcome(c) \/ HostWelcomeFails(c))
    BY <1>1, <1>2, <2>1, <2>3
    DEF HostWelcome, HostWelcomeFails, DrawId, Undecided, Welcome
  <2>4. CASE d = c /\ ~(HostWelcome(c) \/ HostWelcomeFails(c))
    <3>1. host[c] = "rejecting" => connection_id[c] = pending
      BY DEF AnsweredInv, Undecided
    <3> QED
      BY <1>1, <1>2, <1>4, <2>1, <2>4, <3>1 DEF HandleConnection, HostReadTie,
         HostNoTie, HostReject, HostServe, HostServeFails, HostEnds, AnsweredInv,
         Undecided
  <2> QED
    BY <1>4, <2>2, <2>3, <2>4
<1>5. ASSUME NEW d \in Conns, TieTheKnot(d) \/ SendTie(d) \/ SendOther(d) \/
             GiveUp(d) \/ Leave(d) \/ Lose(d)
      PROVE  Drawn /\ Told
  <2>1. UNCHANGED <<hostVars, reply>>
    BY <1>5 DEF TieTheKnot, ReceiveWelcome, ReceiveReject, TieFails, SendTie,
       SendOther, GiveUp, Leave, Lose
  <2>2. Told
    BY <1>1, <1>5 DEF TieTheKnot, ReceiveWelcome, ReceiveReject, TieFails, SendTie,
       SendOther, GiveUp, Leave, Lose, AnsweredInv
  <2> QED
    BY <1>3, <2>1, <2>2
<1>6. CASE OnEvent \/ UNCHANGED vars
  BY <1>2, <1>3, <1>6 DEF OnEvent, vars
<1> QED
  BY <1>4, <1>5, <1>6 DEF Next

Claim == [c \in Conns |->
             IF first[c].type = "Tie"
             THEN [type |-> "Tie", rope_id |-> RopeId(c), failed |-> Failed(c)]
             ELSE Nothing]

AllKnown == [c \in Conns |-> Known(c)]

\* A step that neither changes what a peer claims, its id or its answer nor
\* handles an event is none of Membership.
LEMMA MembersStutter ==
    ASSUME AdmissionInv, EventsInv, [Next]_vars, ~OnEvent,
           UNCHANGED <<connection_id, told>>, Claim' = Claim
    PROVE  UNCHANGED Members!vars
<1>1. UNCHANGED senders /\ AllKnown' = AllKnown
  BY KnownElsewhere DEF AllKnown
<1> QED
  BY <1>1 DEF Members!vars, Claim, AllKnown

LEMMA ClaimKept == UNCHANGED first => Claim' = Claim
BY DEF Claim, RopeId, Failed

LEMMA MembersStep ==
    AdmissionInv /\ EventsInv /\ AnsweredInv /\ [Next]_vars =>
        [Members!Next]_(Members!vars)
<1> SUFFICES ASSUME AdmissionInv, EventsInv, AnsweredInv, [Next]_vars
             PROVE  [Members!Next]_(Members!vars)
  OBVIOUS
<1> USE DEF HostGoes, RopeGoes, hostVars, ropeVars, hubVars
<1>1. /\ reply \in [Conns -> Answers] /\ told \in [Conns -> Answers]
      /\ connection_id \in [Conns -> Nat \cup {pending}]
      /\ first \in [Conns -> Ties \cup {Nothing, Other}]
      /\ senders \in [RopeIds -> Conns \cup {NoConn}]
  BY DEF AdmissionInv, TypeOK
<1>2. ASSUME NEW c \in Conns
      PROVE  /\ first[c].type = "Tie" =>
                    /\ Claim[c] # Nothing
                    /\ Claim[c].rope_id = RopeId(c) /\ Claim[c].failed = Failed(c)
             /\ first[c].type # "Tie" => Claim[c] = Nothing
  <2>1. CASE first[c].type = "Tie"
    <3>1. Claim[c] = [type |-> "Tie", rope_id |-> RopeId(c), failed |-> Failed(c)]
      BY <2>1 DEF Claim
    <3>2. Claim[c].type = "Tie" /\ Nothing.type = "Nothing"
      BY <3>1 DEF Nothing
    <3> QED
      BY <2>1, <3>1, <3>2
  <2>2. CASE first[c].type # "Tie"
    BY <2>2 DEF Claim
  <2> QED
    BY <2>1, <2>2
<1>3. ASSUME NEW c \in Conns, HostWelcome(c) \/ HostWelcomeFails(c)
      PROVE  [Members!Next]_(Members!vars)
  <2>1. /\ UNCHANGED <<told, senders>> /\ Claim' = Claim /\ AllKnown' = AllKnown
    <3>1. ~OnEvent
      BY <1>3 DEF HostWelcome, HostWelcomeFails, OnEvent, DrawId, AdmissionInv, TypeOK
    <3> QED
      BY <1>3, <3>1, ClaimKept, KnownElsewhere DEF HostWelcome, HostWelcomeFails, AllKnown
  <2>2. /\ connection_id' = [connection_id EXCEPT ![c] = CONNECTION_COUNTER]
        /\ host[c] = "approved"
    BY <1>3 DEF HostWelcome, HostWelcomeFails, DrawId, FreshId
  <2>3. /\ connection_id[c] = pending
        /\ \A d \in Conns : connection_id'[c] # connection_id[d]
    BY <1>1, <2>2 DEF AnsweredInv, Undecided, AdmissionInv, IdsFresh, TypeOK, pending
  <2>4. Claim[c] # Nothing /\ Claim[c].failed = {}
    <3>1. first[c].type = "Tie" /\ Failed(c) = {}
      BY <2>2 DEF AdmissionInv, Decided
    <3> QED
      BY <1>2, <3>1
  <2>5. connection_id' = [connection_id EXCEPT ![c] = connection_id'[c]]
    BY <1>1, <2>2
  <2>6. Members!Admit(c)
    BY <2>1, <2>3, <2>4, <2>5 DEF Members!Admit, Members!Nothing, Nothing, Claim, AllKnown
  <2> QED
    BY <2>6 DEF Members!Next
<1>4. ASSUME NEW c \in Conns, SendTie(c) PROVE [Members!Next]_(Members!vars)
  <2>1. PICK m \in Ties : first' = [first EXCEPT ![c] = m]
    BY <1>4 DEF SendTie
  <2>2. /\ UNCHANGED <<told, senders, connection_id, events>> /\ rope[c] = "idle"
    BY <1>4 DEF SendTie
  <2>3. first[c] = Nothing /\ Claim[c] = Nothing
    <3>1. first[c] = Nothing /\ first[c].type # "Tie"
      BY <2>2 DEF AdmissionInv, Decided, Nothing
    <3> QED
      BY <1>2, <3>1
  <2>4. AllKnown' = AllKnown
    <3>1. ~OnEvent
      BY <1>4 DEF SendTie, OnEvent, AdmissionInv, TypeOK
    <3> QED
      BY <3>1, KnownElsewhere DEF AllKnown
  <2> DEFINE r == AssignedId[m.identity]
             failed == Failed(c)'
  <2>5. r \in RopeIds /\ failed \in SUBSET ErrorCodes
    BY AdmissionAssumption DEF Ties, Failed
  <2>6. Claim' = [Claim EXCEPT ![c] = [type |-> "Tie", rope_id |-> r, failed |-> failed]]
    <3>1. Claim'[c] = [type |-> "Tie", rope_id |-> r, failed |-> failed]
      BY <1>1, <2>1 DEF Claim, RopeId, Ties
    <3>2. \A d \in Conns \ {c} : Claim'[d] = Claim[d]
      BY <1>1, <2>1 DEF Claim, RopeId, Failed
    <3>3. Claim = [d \in Conns |-> Claim[d]] /\ Claim' = [d \in Conns |-> Claim'[d]]
      BY DEF Claim
    <3> HIDE DEF Claim, r, failed
    <3> QED
      BY <3>1, <3>2, <3>3
  <2> HIDE DEF r, failed
  <2>7. Members!Ask(c)
    BY <2>2, <2>3, <2>4, <2>5, <2>6
    DEF Members!Ask, Members!Nothing, Nothing, Claim, AllKnown
  <2> QED
    BY <2>7 DEF Members!Next
<1>5. ASSUME NEW c \in Conns, ReceiveWelcome(c) \/ ReceiveReject(c)
      PROVE  [Members!Next]_(Members!vars)
  <2>1. /\ UNCHANGED <<senders, connection_id>> /\ Claim' = Claim /\ AllKnown' = AllKnown
    <3>1. ~OnEvent
      BY <1>5 DEF ReceiveWelcome, ReceiveReject, OnEvent, AdmissionInv, TypeOK
    <3> QED
      BY <1>5, <3>1, ClaimKept, KnownElsewhere DEF ReceiveWelcome, ReceiveReject, AllKnown
  <2>2. told[c] = Nothing /\ told' = [told EXCEPT ![c] = reply[c]]
    BY <1>5 DEF ReceiveWelcome, ReceiveReject, AnsweredInv
  <2>3. CASE reply[c].type = "Welcome"
    <3>1. reply[c] = [type |-> "Welcome", connection_id |-> connection_id[c]]
      BY <2>3 DEF AdmissionInv, OneAnswer, Welcome
    <3>2. connection_id[c] # pending
      <4>1. reply[c] \in [type : {"Welcome"}, connection_id : Nat]
        BY <1>1, <2>3 DEF Answers, Nothing
      <4> QED
        BY <3>1, <4>1 DEF pending
    <3>3. Members!Answer(c)
      BY <2>1, <2>2, <3>1, <3>2
      DEF Members!Answer, Members!Nothing, Nothing, Claim, AllKnown
    <3> QED
      BY <3>3 DEF Members!Next
  <2>4. CASE reply[c].type = "Reject"
    <3>1. reply[c] = [type |-> "Reject", reason |-> reply[c].reason]
      BY <1>1, <2>4 DEF Answers, Nothing
    <3>2. connection_id[c] = pending /\ first[c].type = "Tie"
          /\ reply[c].reason \in Failed(c)
      BY <2>4 DEF AnsweredInv, AdmissionInv, Decided
    <3>3. Claim[c] # Nothing /\ reply[c].reason \in Claim[c].failed
      BY <1>2, <3>2
    <3>4. Members!Answer(c)
      BY <2>1, <2>2, <3>1, <3>2, <3>3
      DEF Members!Answer, Members!Nothing, Nothing, Claim, AllKnown
    <3> QED
      BY <3>4 DEF Members!Next
  <2> QED
    BY <1>5, <2>3, <2>4 DEF ReceiveWelcome, ReceiveReject
<1>6. CASE OnEvent
  <2>1. PICK c \in Conns :
            /\ reply[c].type = "Welcome"
            /\ \A d \in Conns \ {c} : Known(d)' = Known(d)
            /\ \/ /\ Known(c) = "stranger" /\ Known(c)' = "member"
                  /\ senders' = [senders EXCEPT ![RopeId(c)] = c]
               \/ /\ Known(c) = "member" /\ Known(c)' = "parted"
                  /\ senders' = [senders EXCEPT ![RopeId(c)] = NoConn]
    BY <1>6, KnownHandled
  <2>2. UNCHANGED <<told, connection_id>> /\ Claim' = Claim
    BY <1>6, ClaimKept DEF OnEvent
  <2>3. first[c].type = "Tie" /\ connection_id[c] # pending
    <3>1. reply[c] \in [type : {"Welcome"}, connection_id : Nat]
          /\ reply[c] = [type |-> "Welcome", connection_id |-> connection_id[c]]
      BY <1>1, <2>1 DEF Answers, Nothing, AdmissionInv, OneAnswer, Welcome
    <3>2. connection_id[c] # pending
      BY <3>1 DEF pending
    <3> QED
      BY <2>1, <3>2 DEF AdmissionInv, Decided
  <2>4. Claim[c].rope_id = RopeId(c)
    BY <1>2, <2>3
  <2>5. AllKnown' = [AllKnown EXCEPT ![c] = Known(c)']
    BY <2>1 DEF AllKnown
  <2>6. AllKnown[c] = Known(c)
    BY DEF AllKnown
  <2>7. Members!Enter(c) \/ Members!Leave(c)
    BY <2>1, <2>2, <2>3, <2>4, <2>5, <2>6
    DEF Members!Enter, Members!Leave, Claim, AllKnown
  <2> QED
    BY <2>7 DEF Members!Next
<1>7. ASSUME ~OnEvent, UNCHANGED <<connection_id, told, first>>
      PROVE  [Members!Next]_(Members!vars)
  BY <1>7, MembersStutter, ClaimKept
<1>8. ASSUME NEW c \in Conns, SendOther(c) PROVE [Members!Next]_(Members!vars)
  <2>1. /\ UNCHANGED <<told, connection_id, events>>
        /\ first' = [first EXCEPT ![c] = Other] /\ first[c].type # "Tie"
    BY <1>8 DEF SendOther, AdmissionInv, Decided, Nothing
  <2>2. ~OnEvent
    BY <2>1 DEF OnEvent, AdmissionInv, TypeOK
  <2>3. Claim' = Claim
    BY <1>1, <2>1 DEF Claim, RopeId, Failed, Other
  <2> QED
    BY <2>1, <2>2, <2>3, MembersStutter
<1>9. CASE \E c \in Conns : \/ HostReadTie(c) \/ HostNoTie(c) \/ HostReject(c)
                            \/ HostServe(c) \/ HostServeFails(c) \/ HostEnds(c)
                            \/ TieFails(c) \/ GiveUp(c) \/ Leave(c) \/ Lose(c)
  BY <1>6, <1>7, <1>9 DEF HostReadTie, HostNoTie, HostReject, HostServe,
     HostServeFails, HostEnds, TieFails, GiveUp, Leave, Lose
<1>10. CASE UNCHANGED vars
  BY <1>6, <1>7, <1>10 DEF vars
<1> QED
  BY <1>3, <1>4, <1>5, <1>6, <1>8, <1>9, <1>10 DEF Next, HandleConnection, TieTheKnot

\* Handshakes, the counter, the wire and the hub's queue of events (lib.rs) keep
\* the promise of Membership: one claim, at most one fresh id and one answer to
\* it a connection, and one way into the registry and out of it.
THEOREM ImplementsMembership == Spec => MembershipSpec
<1>1. Init => Members!Init /\ AnsweredInv
  <2> SUFFICES ASSUME Init PROVE Members!Init /\ AnsweredInv
    OBVIOUS
  <2>1. AnsweredInv
    BY DEF Init, AnsweredInv, Nothing
  <2>2. \A c \in Conns : Known(c) = "stranger"
    BY DEF Init, Known, WasAnnounced
  <2>3. \A c \in Conns : first[c].type # "Tie"
    BY DEF Init, Nothing
  <2> QED
    BY <2>1, <2>2, <2>3 DEF Init, Members!Init, Members!Nothing, Nothing
<1> QED
  BY <1>1, AnsweredStep, MembersStep, RegistryInvariance, AdmissionInvariance, PTL
  DEF Spec, MembershipSpec, Members!Spec

=============================================================================
