----------------------------- MODULE Negotiation -----------------------------
(***************************************************************************)
(* The exchange of WebRTC descriptions within one call between two users.  *)
(* The server keeps a document per negotiation (MediaCallNegotiations) and *)
(* decides who may start one; each client queues the negotiations it hears *)
(* of (NegotiationManager), processes one at a time (Negotiation) and      *)
(* drives its RTCPeerConnection.  Both sides may need a negotiation at the *)
(* same time: those of the caller are impolite and win, those of the       *)
(* callee are polite and give way.                                         *)
(*                                                                         *)
(* Every handler of the server awaits between its database steps, and      *)
(* signals of different handlers reach a client in any order.  The call    *)
(* does not end, and its contracts are those of CallServer.                *)
(***************************************************************************)
EXTENDS Naturals, Sequences, FiniteSetsExt, Bags

CONSTANTS
    MaxNegotiations,   \* how many negotiations the server starts
    MaxToggles,        \* how often users put the call on and off hold, in all
    Together,          \* whether both users of a call do
    Tardy              \* the roles whose input track is not there from the start

Roles == {"caller", "callee"}
Ids == 1..MaxNegotiations

ASSUME NegotiationAssumption == /\ MaxNegotiations \in Nat /\ MaxToggles \in Nat
                                /\ Together \in BOOLEAN /\ Tardy \subseteq Roles

VARIABLES
    accepted,   \* the call is in a busy state and the callee's contract is stored
    negs,       \* the negotiations of the call, by requestTimestamp
    server,     \* the bag of signals on their way to the server and of what its handlers have left to do
    signals,    \* signals on their way to the clients
    client      \* the negotiation manager and peer connection of each role

vars == <<accepted, negs, server, signals, client>>

Opposite(r) == IF r = "caller" THEN "callee" ELSE "caller"

Document == [offerer : Roles, offer : BOOLEAN, answer : BOOLEAN]

(* A step of the server: the role it speaks for or to, the negotiation     *)
(* that it refers to (0 for none), and the type of a description.          *)
Job == [step : {"ack", "startFirst", "accept", "initialOffer", "save", "forward",
                "send", "needed", "start"},
        role : Roles, id : 0..MaxNegotiations, sdp : {"none", "offer", "answer"}]

Do(step, role, id) == [step |-> step, role |-> role, id |-> id, sdp |-> "none"]

Signal == [type : {"request-offer", "offer", "answer"}, to : Roles, id : Ids]

(* Operations of an RTCPeerConnection *)
Operations == {"createOffer", "localOffer", "remoteOffer", "createAnswer",
               "localAnswer", "remoteAnswer"}

(* A client.  known lists its negotiations by sequence, processed is       *)
(* highestProcessedSequence; current is currentNegotiation.  chain are the *)
(* operations of the peer connection in flight, which run in order;        *)
(* gathering are the negotiations that wait for ICE candidates; peer is    *)
(* the signaling state, local the type of the current local description    *)
(* and agreed the negotiation that the connection was last stable with.    *)
(*                                                                         *)
(* What a client may need another negotiation for is the direction of its  *)
(* audio, which has one of two values: on hold or not.  held is what the   *)
(* user wants, direction what was requested of the connection, described   *)
(* what the description of each negotiation says and negotiated what the   *)
(* last one agreed said.  fired says that the connection has told that it  *)
(* needs a negotiation.                                                    *)
Client == [known : Seq([id : Ids, remote : BOOLEAN]),
           current : 0..MaxNegotiations, processed : 0..MaxNegotiations,
           ended : SUBSET Ids, failed : SUBSET Ids,
           chain : Seq([op : Operations, at : Ids]), gathering : SUBSET Ids,
           peer : {"stable", "have-local-offer", "have-remote-offer"},
           local : {"none", "offer", "answer"}, agreed : 0..MaxNegotiations,
           ready : BOOLEAN, toggles : Nat, held : BOOLEAN, direction : BOOLEAN,
           described : [Ids -> BOOLEAN], negotiated : BOOLEAN, fired : BOOLEAN]

TypeOK == /\ accepted \in BOOLEAN
          /\ negs \in Seq(Document) /\ Len(negs) <= MaxNegotiations
          /\ IsABag(server) /\ BagToSet(server) \subseteq Job
          /\ signals \subseteq Signal
          /\ client \in [Roles -> Client]

(* The call was created: the caller's client acknowledges it, and a        *)
(* session of the callee accepts it.                                       *)
Init ==
    /\ accepted = FALSE
    /\ negs = << >>
    /\ server = SetToBag({Do("ack", "caller", 0), Do("accept", "callee", 0)})
    /\ signals = {}
    /\ client = [r \in Roles |->
         [known |-> << >>, current |-> 0, processed |-> 0, ended |-> {}, failed |-> {},
          chain |-> << >>, gathering |-> {}, peer |-> "stable", local |-> "none",
          agreed |-> 0, ready |-> r \notin Tardy, toggles |-> 0, held |-> FALSE,
          direction |-> FALSE, described |-> [n \in Ids |-> FALSE], negotiated |-> FALSE,
          fired |-> FALSE]]

-----------------------------------------------------------------------------
(* The server                                                              *)

(* Job j is done and leaves the jobs of next and the signals of sent. *)
Proceed(j, next, sent) == /\ server' = (server (-) SetToBag({j})) (+) SetToBag(next)
                          /\ signals' = signals \cup sent

Request(r, n) == [type |-> "request-offer", to |-> r, id |-> n]

(* startNewNegotiation: the document is inserted, then the offer requested. *)
Start(j) ==
    /\ Len(negs) < MaxNegotiations
    /\ negs' = Append(negs, [offerer |-> j.role, offer |-> FALSE, answer |-> FALSE])
    /\ Proceed(j, {}, {Request(j.role, Len(negs) + 1)})
    /\ UNCHANGED <<accepted, client>>

StartNewNegotiation(j) == j.step \in {"startFirst", "start"} /\ Start(j)

(* clientIsReachable of the caller, and the check of startFirstNegotiation *)
Acknowledge(j) ==
    /\ j.step = "ack"
    /\ Proceed(j, IF negs = << >> THEN {Do("startFirst", "caller", 0)} ELSE {}, {})
    /\ UNCHANGED <<accepted, negs, client>>

(* A bug to find: the callee that accepts is not sent the offer there is. *)
AcceptSilently(j) ==
    /\ j.step = "accept"
    /\ accepted' = TRUE
    /\ Proceed(j, {}, {})
    /\ UNCHANGED <<negs, client>>

(* acceptCall of the callee's session *)
Accept(j) ==
    /\ j.step = "accept"
    /\ accepted' = TRUE
    /\ Proceed(j, {Do("initialOffer", "callee", 0)}, {})
    /\ UNCHANGED <<negs, client>>

(* A bug to find: the initial offer is sent before there is one. *)
InitialOfferUnchecked(j) ==
    /\ j.step = "initialOffer"
    /\ LET n == Len(negs) IN
       Proceed(j, {}, IF n > 0 /\ negs[n].offerer # j.role
                        THEN {[type |-> "offer", to |-> j.role, id |-> n]} ELSE {})
    /\ UNCHANGED <<accepted, negs, client>>

(* getInitialOfferSignal, for the callee that has just accepted *)
InitialOffer(j) ==
    /\ j.step = "initialOffer"
    /\ LET n == Len(negs) IN
       Proceed(j, {}, IF n > 0 /\ negs[n].offer /\ negs[n].offerer # j.role
                        THEN {[type |-> "offer", to |-> j.role, id |-> n]} ELSE {})
    /\ UNCHANGED <<accepted, negs, client>>

(* saveWebrtcSession: the first description of its type is kept, and the   *)
(* opposite agent is told.  An offer must come from the offerer.           *)
CanSave(j) == /\ (j.sdp = "offer") <=> (j.role = negs[j.id].offerer)
              /\ ~negs[j.id][j.sdp]

SaveSession(j) ==
    /\ j.step = "save"
    /\ \/ /\ CanSave(j)
          /\ negs' = [negs EXCEPT ![j.id][j.sdp] = TRUE]
          /\ Proceed(j, {Do("forward", Opposite(j.role), j.id)}, {})
       \/ /\ ~CanSave(j)
          /\ Proceed(j, {}, {})
          /\ UNCHANGED negs
    /\ UNCHANGED <<accepted, client>>

(* onRemoteDescriptionChanged reads the call ... *)
Forward(j) ==
    /\ j.step = "forward"
    /\ Proceed(j, IF accepted THEN {Do("send", j.role, j.id)} ELSE {}, {})
    /\ UNCHANGED <<accepted, negs, client>>

(* ... and then the negotiation. *)
DescriptionFor(r, n) ==
    IF negs[n].offerer = r
      THEN IF ~negs[n].offer THEN {Request(r, n)}
           ELSE IF negs[n].answer THEN {[type |-> "answer", to |-> r, id |-> n]} ELSE {}
      ELSE IF negs[n].offer THEN {[type |-> "offer", to |-> r, id |-> n]} ELSE {}

Send(j) ==
    /\ j.step = "send"
    /\ Proceed(j, {}, DescriptionFor(j.role, j.id))
    /\ UNCHANGED <<accepted, negs, client>>

(* A bug to find: an answered negotiation does not let another one start. *)
MayOnlyOverrule(r, old) ==
    /\ negs # << >>
    /\ r = "caller" /\ negs[Len(negs)].offerer = "callee"

(* processNegotiationNeeded: what role r may have when it last knew of     *)
(* negotiation old.                                                        *)
MayStart(r, old) ==
    /\ negs # << >>
    /\ LET latest == negs[Len(negs)] IN
       \/ latest.answer
       \/ r = "caller" /\ latest.offerer = "callee"

(* The caller asks again for what it was granted and has not heard of. *)
MayResend(r, old) ==
    /\ negs # << >> /\ old # Len(negs)
    /\ r = "caller"
    /\ LET latest == negs[Len(negs)] IN
       latest.offerer = "caller" /\ ~latest.answer /\ ~latest.offer

NegotiationNeeded(j) ==
    /\ j.step = "needed"
    /\ Proceed(j, IF MayStart(j.role, j.id) THEN {Do("start", j.role, 0)} ELSE {},
                  IF MayResend(j.role, j.id) THEN {Request(j.role, Len(negs))} ELSE {})
    /\ UNCHANGED <<accepted, negs, client>>

-----------------------------------------------------------------------------
(* The client: NegotiationManager *)

(* isPolite of the i-th negotiation *)
IsPolite(r, m, i) == m.known[i].remote # (r = "callee")

HighestImpolite(r, m) == Max({0} \cup {i \in 1..Len(m.known) : ~IsPolite(r, m, i)})

(* getNextInQueue: what waits to be processed and will not be fulfilled by *)
(* a newer negotiation                                                     *)
InQueue(r, m) ==
    {i \in (m.processed + 1)..Len(m.known) :
        /\ i >= HighestImpolite(r, m)
        /\ IsPolite(r, m, i) => i = Len(m.known)}

(* processNegotiations: begin the next one, unless there is a current one. *)
ProcessNegotiations(r, m) ==
    IF ~m.ready \/ m.current # 0 \/ InQueue(r, m) = {} THEN m
    ELSE LET i == Min(InQueue(r, m)) IN
         [m EXCEPT !.current = i, !.processed = i,
                   !.chain = Append(@, [op |-> IF m.known[i].remote THEN "remoteOffer"
                                                                    ELSE "createOffer",
                                        at |-> i])]

(* Negotiation.end, and the listener of its ended event *)
End(r, m, i) ==
    LET e == [m EXCEPT !.ended = @ \cup {i}] IN
    IF i \in m.ended \/ m.current # i THEN e
    ELSE ProcessNegotiations(r, [e EXCEPT !.current = 0])

(* Negotiation.fail, and the listener of its error event *)
Fail(r, m, i) ==
    IF i \in m.failed \cup m.ended THEN m
    ELSE LET f == IF m.current = i THEN End(r, m, i) ELSE m
         IN  [f EXCEPT !.failed = @ \cup {i}]

(* addToQueue: an impolite negotiation ends a current polite one.  The     *)
(* ended event begins the new negotiation before current is reset.         *)
AddToQueue(r, m, id, remote) ==
    LET k == [m EXCEPT !.known = Append(@, [id |-> id, remote |-> remote])]
    IN  IF ~IsPolite(r, k, Len(k.known)) /\ k.current # 0 /\ IsPolite(r, k, k.current)
          THEN [End(r, k, k.current) EXCEPT !.current = 0]
          ELSE k

(* A bug to find: no negotiation is recognised when it is heard of again. *)
AddNegotiationAgain(r, m, id, remote) == ProcessNegotiations(r, AddToQueue(r, m, id, remote))

AddNegotiation(r, m, id, remote) ==
    IF \E i \in 1..Len(m.known) : m.known[i].id = id THEN m
    ELSE ProcessNegotiations(r, AddToQueue(r, m, id, remote))

(* A bug to find: an answer is taken for that of the current negotiation. *)
SetAnyRemoteAnswer(m, id) ==
    IF m.current # 0 /\ ~m.known[m.current].remote
      THEN [m EXCEPT !.chain = Append(@, [op |-> "remoteAnswer", at |-> m.current])]
      ELSE m

(* setRemoteDescription of an answer *)
SetRemoteAnswer(m, id) ==
    IF m.current # 0 /\ m.known[m.current].id = id /\ ~m.known[m.current].remote
      THEN [m EXCEPT !.chain = Append(@, [op |-> "remoteAnswer", at |-> m.current])]
      ELSE m

(* A signal reaches the client. *)
Receive(s) ==
    LET m == client[s.to] IN
    /\ client' = [client EXCEPT ![s.to] =
         IF s.type = "answer" THEN SetRemoteAnswer(m, s.id)
                              ELSE AddNegotiation(s.to, m, s.id, s.type = "offer")]
    /\ signals' = signals \ {s}
    /\ UNCHANGED <<accepted, negs, server>>

-----------------------------------------------------------------------------
(* The client: Negotiation and its peer connection                         *)

Active(m, i) == i \notin m.ended

Then(m, i, op) == IF Active(m, i) THEN [m EXCEPT !.chain = Append(@, [op |-> op, at |-> i])] ELSE m

Gather(m, i) == IF Active(m, i) THEN [m EXCEPT !.gathering = @ \cup {i}] ELSE m

(* processPreNegotiation: request the direction that the user wants. *)
RequestDirection(m) == [m EXCEPT !.direction = m.held]

(* The description that is made says what direction is requested. *)
Describe(m, i) == [m EXCEPT !.described[i] = m.direction]

(* The connection is stable again, and looks whether it needs more. *)
Stable(m, i, type) ==
    [m EXCEPT !.peer = "stable", !.local = type, !.agreed = m.known[i].id,
              !.negotiated = m.described[i], !.fired = FALSE]

(* What operation op of negotiation i does to client r.  createOffer is    *)
(* rejected while there is a remote offer, and nothing handles that; a     *)
(* remote offer rolls a local one back.                                    *)
CreateOffer(r, m, i) ==
    LET p == RequestDirection(m) IN
    IF m.peer = "have-remote-offer" THEN p ELSE Then(Describe(p, i), i, "localOffer")

LocalOffer(r, m, i) ==
    IF m.peer = "have-remote-offer" THEN Gather(Fail(r, m, i), i)
    ELSE Gather([m EXCEPT !.peer = "have-local-offer"], i)

RemoteOffer(r, m, i) == Then([RequestDirection(m) EXCEPT !.peer = "have-remote-offer"], i, "createAnswer")

CreateAnswer(r, m, i) ==
    IF m.peer # "have-remote-offer" THEN Fail(r, m, i)
    ELSE Then(Describe(m, i), i, "localAnswer")

LocalAnswer(r, m, i) ==
    IF m.peer # "have-remote-offer" THEN Gather(Fail(r, m, i), i)
    ELSE Gather(Stable(m, i, "answer"), i)

RemoteAnswer(r, m, i) ==
    IF m.peer # "have-local-offer" THEN End(r, Fail(r, m, i), i)
    ELSE End(r, Stable(m, i, "offer"), i)

Operate(r) ==
    LET m == client[r]
        o == Head(m.chain)
        n == [m EXCEPT !.chain = Tail(@)]
    IN  /\ m.chain # << >>
        /\ client' = [client EXCEPT ![r] =
             CASE o.op = "createOffer"  -> CreateOffer(r, n, o.at)
               [] o.op = "localOffer"   -> LocalOffer(r, n, o.at)
               [] o.op = "remoteOffer"  -> RemoteOffer(r, n, o.at)
               [] o.op = "createAnswer" -> CreateAnswer(r, n, o.at)
               [] o.op = "localAnswer"  -> LocalAnswer(r, n, o.at)
               [] o.op = "remoteAnswer" -> RemoteAnswer(r, n, o.at)]
        /\ UNCHANGED <<accepted, negs, server, signals>>

(* A bug to find: the signaling state is taken for the description. *)
SignalingState(m) == m.peer

(* Candidates are gathered, or the wait for them times out: the local      *)
(* description is sent, and a remote negotiation is over.                  *)
LocalDescription(m) == IF m.peer = "have-local-offer" THEN "offer" ELSE m.local

Gathered(r, i) ==
    LET m == [client[r] EXCEPT !.gathering = @ \ {i}]
        sends == Active(m, i) /\ LocalDescription(m) # "none"
    IN  /\ i \in client[r].gathering
        /\ client' = [client EXCEPT ![r] =
             IF sends THEN IF m.known[i].remote THEN End(r, m, i) ELSE m
             ELSE IF Active(m, i) THEN Fail(r, m, i) ELSE m]
        /\ server' = IF sends
                       THEN server (+) SetToBag({[step |-> "save", role |-> r, id |-> m.known[i].id,
                                                  sdp |-> LocalDescription(m)]})
                       ELSE server
        /\ UNCHANGED <<accepted, negs, signals>>

(* The user's microphone is there (setInputTrack). *)
GetInputTrack(r) ==
    /\ ~client[r].ready
    /\ client' = [client EXCEPT ![r] = ProcessNegotiations(r, [@ EXCEPT !.ready = TRUE])]
    /\ UNCHANGED <<accepted, negs, server, signals>>

(* The user puts the call on or off hold (setHeld).  The direction is only *)
(* requested of a stable connection.                                       *)
SetHeld(r) ==
    LET m == client[r]
        direction == IF m.peer = "stable" THEN ~m.held ELSE m.direction
    IN  /\ Together \/ client[Opposite(r)].toggles = 0
        /\ client["caller"].toggles + client["callee"].toggles < MaxToggles
        /\ client' = [client EXCEPT ![r].toggles = @ + 1, ![r].held = ~@,
                                    ![r].direction = direction,
                                    ![r].fired = @ /\ direction # m.negotiated]
        /\ UNCHANGED <<accepted, negs, server, signals>>

(* onWebRTCNegotiationNeeded; the connection only asks when it is stable   *)
(* and has nothing left to do.                                             *)
FulfillingQueued(r, m) ==
    (IF r = "callee" THEN Len(m.known) ELSE HighestImpolite(r, m)) > m.processed

(* A bug to find: no regard for the state of the connection. *)
AskAtOnce(r) ==
    LET m == client[r] IN
    /\ m.direction # m.negotiated /\ ~m.fired
    /\ client' = [client EXCEPT ![r].fired = TRUE]
    /\ server' = IF m.ready /\ m.processed > 0 /\ ~FulfillingQueued(r, m)
                   THEN server (+) SetToBag({Do("needed", r, m.known[Len(m.known)].id)})
                   ELSE server
    /\ UNCHANGED <<accepted, negs, signals>>

AskForNegotiation(r) ==
    LET m == client[r] IN
    /\ m.direction # m.negotiated /\ ~m.fired /\ m.peer = "stable" /\ m.chain = << >>
    /\ client' = [client EXCEPT ![r].fired = TRUE]
    /\ server' = IF m.ready /\ m.processed > 0 /\ ~FulfillingQueued(r, m)
                   THEN server (+) SetToBag({Do("needed", r, m.known[Len(m.known)].id)})
                   ELSE server
    /\ UNCHANGED <<accepted, negs, signals>>

-----------------------------------------------------------------------------
Handle(j) == \/ Acknowledge(j) \/ StartNewNegotiation(j) \/ Accept(j) \/ InitialOffer(j)
             \/ SaveSession(j) \/ Forward(j) \/ Send(j) \/ NegotiationNeeded(j)

ClientStep(r) == Operate(r) \/ AskForNegotiation(r) \/ \E i \in Ids : Gathered(r, i)

Next == \/ \E j \in BagToSet(server) : Handle(j)
        \/ \E s \in signals : Receive(s)
        \/ \E r \in Roles : ClientStep(r) \/ SetHeld(r)
        \/ \E r \in Tardy : GetInputTrack(r)

Spec == Init /\ [][Next]_vars

(* Handlers go on, signals arrive, the peer connection works, and the      *)
(* microphone is granted.                                                  *)
Fairness == /\ \A j \in Job : WF_vars(BagIn(j, server) /\ Handle(j))
            /\ \A s \in Signal : WF_vars(s \in signals /\ Receive(s))
            /\ \A r \in Roles : WF_vars(Operate(r)) /\ WF_vars(AskForNegotiation(r))
                                /\ WF_vars(GetInputTrack(r))
            /\ \A r \in Roles, i \in Ids : WF_vars(Gathered(r, i))

FairSpec == Init /\ [][Next]_vars /\ Fairness
=============================================================================
