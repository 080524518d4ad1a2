---------------------- MODULE NegotiationOneSideProofs ----------------------
(***************************************************************************)
(* The two connections of a call in which only one user holds: they never  *)
(* go back to an older negotiation, and when all has settled they are      *)
(* stable with the same.  The argument: negotiations then follow each      *)
(* other, each after the answer to the one before; so a client processes   *)
(* them in their order, none is overruled, and for every negotiation it is *)
(* known which description is on its way, by which job or signal, as long  *)
(* as one is missing on either side.                                       *)
(*                                                                         *)
(* The argument needs that requests for another negotiation do not         *)
(* overlap.  They cannot while the call is put on or off hold twice at     *)
(* most, which is proved last.  From the third time on they can: two       *)
(* requests that are granted against the same answered negotiation start   *)
(* two, the client may be asked for their offers the other way round, and  *)
(* then both connections agree on the newer one first.                     *)
(***************************************************************************)
EXTENDS NegotiationProofs

(* The jobs that are on their way to the server once *)
Alone == {j \in Pending : server[j] = 1}

(* What is on its way to become another negotiation: the request of a      *)
(* client (processNegotiationNeeded), or the start that it was granted     *)
Requests == {j \in Pending : j.step \in {"needed", "start"}}

RequestsOneByOne == \A j, k \in Requests : j = k /\ j \in Alone

-----------------------------------------------------------------------------
(* The invariant *)

(* A user who has not held, and negotiations that are not for him          *)
Untouched(m) == ~m.held /\ ~m.direction /\ ~m.negotiated /\ \A n \in Ids : ~m.described[n]

SilentInv ==
    /\ \E q \in Roles : client[q].toggles = 0
    /\ \A q \in Roles :
         client[q].toggles = 0 => /\ Untouched(client[q])
                                  /\ \A j \in Requests : j.role # q
                                  /\ \A n \in 2..Len(negs) : negs[n].offerer # q

(* The first negotiation is started once, by the caller; another only      *)
(* after the answer to the latest.                                         *)
Firsts == {j \in Pending : j.step \in {"ack", "startFirst"}}

FirstInv ==
    /\ Len(negs) > 0 => negs[1].offerer = "caller"
    /\ \A n \in 1..(Len(negs) - 1) : negs[n].answer
    /\ \A j \in Firsts : negs = << >> /\ j \in Alone /\ j.role = "caller" /\ \A k \in Firsts : k = j
    /\ \A j \in Pending : j.step = "start" => negs # << >> /\ Latest.answer

(* The callee hears of nothing before it has accepted. *)
AcceptJob(step) == Do(step, "callee", 0)

AcceptInv ==
    /\ ~accepted => /\ AcceptJob("accept") \in Pending
                    /\ client["callee"].known = << >>
                    /\ \A j \in Pending : j.step \notin {"send", "initialOffer"}
                    /\ \A s \in signals : s.type = "request-offer"
    /\ \A j \in Pending : j.step \in {"accept", "initialOffer"} => j = AcceptJob(j.step)
    /\ \A j \in Pending : j.step \in {"forward", "send"} => j.sdp = "none"

(* A client knows the negotiations in their order.  Either it has none to  *)
(* process, or its connection is in the midst of the current one.          *)
Idle(m) ==
    /\ m.current = 0 /\ m.ended = 1..m.processed
    /\ Len(m.chain) = 0 /\ m.gathering = {} /\ m.peer = "stable" /\ m.agreed = m.processed

Between(m) == Idle(m) /\ (m.ready => m.processed = Len(m.known))

(* The connection performs one of the operations ops, gathers candidates,  *)
(* or waits for the answer to its offer.                                   *)
Doing(m, ops) == Len(m.chain) = 1 /\ m.chain[1].op \in ops /\ m.chain[1].at = m.current /\ m.gathering = {}
Collecting(m) == Len(m.chain) = 0 /\ m.gathering = {m.current}
Awaiting(m) == Len(m.chain) = 0 /\ m.gathering = {} /\ m.peer = "have-local-offer"

Answering(m) ==
    \/ Doing(m, {"remoteOffer"}) /\ m.peer = "stable" /\ m.agreed = m.current - 1
    \/ Doing(m, {"createAnswer", "localAnswer"}) /\ m.peer = "have-remote-offer" /\ m.agreed = m.current - 1
    \/ Collecting(m) /\ m.peer = "stable" /\ m.local = "answer" /\ m.agreed = m.current

Offering(m) ==
    /\ m.agreed = m.current - 1
    /\ \/ Doing(m, {"createOffer", "localOffer"}) /\ m.peer = "stable"
       \/ Collecting(m) /\ m.peer = "have-local-offer"
       \/ Awaiting(m)
       \/ Doing(m, {"remoteAnswer"}) /\ m.peer = "have-local-offer"

Working(m) ==
    /\ m.current # 0 /\ m.current = m.processed /\ m.ended = 1..(m.processed - 1) /\ m.ready
    /\ IF m.known[m.current].remote THEN Answering(m) ELSE Offering(m)

QueueInv(m) ==
    /\ \A i \in 1..Len(m.known) : m.known[i].id = i
    /\ m.processed \in {Len(m.known), Len(m.known) - 1}
    /\ Between(m) \/ Working(m)

(* Client m has sent its description of negotiation n; it waits for the    *)
(* other one.                                                              *)
Sent(m, n) ==
    /\ n <= m.processed
    /\ n = m.current => ~m.known[n].remote /\ m.gathering = {} /\ m.peer = "have-local-offer"
Waits(m, n) == m.current = n /\ Awaiting(m)

Saving(r, n, type) == [step |-> "save", role |-> r, id |-> n, sdp |-> type]
Telling(r, n) == {Do("forward", r, n), Do("send", r, n)}
AnswerTo(r, n) == [type |-> "answer", to |-> r, id |-> n]
OfferTo(r, n) == [type |-> "offer", to |-> r, id |-> n]

(* An offer or an answer is saved, or is being saved, if and only if it    *)
(* was sent.                                                               *)
OfferInv(n) ==
    LET o == negs[n].offerer IN
    negs[n].offer \/ Saving(o, n, "offer") \in Pending <=> Sent(client[o], n)

AnswerInv(n) ==
    LET a == Opposite(negs[n].offerer) IN
    /\ negs[n].answer \/ Saving(a, n, "answer") \in Pending <=> Sent(client[a], n)
    /\ Saving(a, n, "answer") \in Pending => ~negs[n].answer /\ Saving(a, n, "answer") \in Alone

(* A saved answer is on its way to the offerer that waits for it, in one   *)
(* way.                                                                    *)
ReplyInv(n) ==
    LET o == negs[n].offerer IN
    /\ \A j \in Telling(o, n) :
         j \in Pending => /\ negs[n].answer /\ Waits(client[o], n) /\ j \in Alone
                          /\ \A k \in Telling(o, n) : k \in Pending => k = j
                          /\ AnswerTo(o, n) \notin signals
    /\ AnswerTo(o, n) \in signals => negs[n].answer /\ Waits(client[o], n)
    /\ negs[n].answer /\ Waits(client[o], n) =>
         AnswerTo(o, n) \in signals \/ \E j \in Telling(o, n) : j \in Pending

(* Of each negotiation the offerer has been asked for an offer, and of     *)
(* each offer the other side has heard; or they will.                      *)
HearInv(n) ==
    LET o == negs[n].offerer
        a == Opposite(o)
    IN /\ n <= Len(client[o].known) \/ Request(o, n) \in signals
       /\ negs[n].offer => \/ n <= Len(client[a].known) \/ OfferTo(a, n) \in signals
                           \/ \E j \in Telling(a, n) : j \in Pending
                           \/ a = "callee" /\ (~accepted \/ AcceptJob("initialOffer") \in Pending)

DocInv(n) == OfferInv(n) /\ AnswerInv(n) /\ ReplyInv(n) /\ HearInv(n)

SaveInv == \A j \in Pending : j.step = "save" => (j.sdp = "offer" <=> j.role = negs[j.id].offerer)

OneSideInv ==
    /\ SilentInv /\ FirstInv /\ AcceptInv /\ SaveInv
    /\ \A r \in Roles : QueueInv(client[r])
    /\ \A n \in 1..Len(negs) : DocInv(n)

-----------------------------------------------------------------------------
(* Jobs come and go *)

(* What a job that is done, and those that follow it, change *)
LEMMA JobDone ==
  ASSUME TypeOK, NEW j \in Pending, NEW next, NEW sent, Proceed(j, next, sent)
  PROVE  /\ Pending' \subseteq Pending \cup next
         /\ \A k \in Pending : k # j => k \in Pending'
         /\ next \subseteq Pending'
         /\ j \in Alone /\ j \notin next => j \notin Pending'
         /\ \A k \in Alone : k \notin next /\ k \in Pending' => k \in Alone'
         /\ \A k \in next : k \notin Pending => k \in Alone'
         /\ signals' = signals \cup sent
<1> DEFINE S == SetToBag(next)
           J == SetToBag({j})
           D == server (-) J
           E == D (+) S
<1>1. server' = E /\ signals' = signals \cup sent
  BY DEF Proceed
<1>2. j \in DOMAIN server /\ \A k \in DOMAIN server : server[k] \in Nat /\ server[k] > 0
  BY DEF TypeOK, IsABag, Pending, BagToSet
<1>3. DOMAIN J = {j} /\ J[j] = 1 /\ DOMAIN S = next /\ \A k \in next : S[k] = 1
  BY DEF SetToBag
<1> HIDE DEF S, J
<1>4. /\ DOMAIN D = {k \in DOMAIN server : k # j \/ server[j] > 1}
      /\ \A k \in DOMAIN D : D[k] = IF k = j THEN server[k] - 1 ELSE server[k]
  <2> DEFINE B == [k \in DOMAIN server |-> IF k \in DOMAIN J THEN server[k] - J[k] ELSE server[k]]
  <2>1. D = [k \in {d \in DOMAIN B : B[d] > 0} |-> B[k]]
    BY DEF (-)
  <2>2. DOMAIN B = DOMAIN server
        /\ \A k \in DOMAIN server : B[k] = IF k = j THEN server[k] - 1 ELSE server[k]
    BY <1>3
  <2> HIDE DEF B
  <2>3. DOMAIN D = {d \in DOMAIN B : B[d] > 0} /\ \A k \in DOMAIN D : D[k] = B[k]
    BY <2>1
  <2>4. \A k \in DOMAIN server : B[k] > 0 <=> k # j \/ server[j] > 1
    BY <1>2, <2>2
  <2>5. DOMAIN D = {k \in DOMAIN server : k # j \/ server[j] > 1}
    BY <2>2, <2>3, <2>4
  <2> QED BY <2>2, <2>3, <2>5
<1> HIDE DEF D
<1>5. /\ DOMAIN E = DOMAIN D \cup next
      /\ \A k \in DOMAIN E : E[k] = (IF k \in DOMAIN D THEN D[k] ELSE 0) + (IF k \in next THEN 1 ELSE 0)
  BY <1>3 DEF (+)
<1> HIDE DEF E
<1>6. Pending = DOMAIN server /\ Pending' = DOMAIN E
  BY <1>1 DEF Pending, BagToSet
<1>7. /\ Alone = {k \in DOMAIN server : server[k] = 1}
      /\ Alone' = {k \in DOMAIN E : E[k] = 1}
  <2>1. Alone = {k \in DOMAIN server : server[k] = 1}
    BY DEF Alone, Pending, BagToSet
  <2>2. Alone' = {k \in DOMAIN server' : server'[k] = 1}
    BY DEF Alone, Pending, BagToSet
  <2> QED BY <1>1, <2>1, <2>2
<1>8. Pending' \subseteq Pending \cup next /\ next \subseteq Pending'
  BY <1>4, <1>5, <1>6
<1>9. \A k \in Pending : k # j => k \in Pending'
  BY <1>4, <1>5, <1>6
<1>10. j \in Alone /\ j \notin next => j \notin Pending'
  BY <1>2, <1>4, <1>5, <1>6, <1>7
<1>11. \A k \in Alone : k \notin next /\ k \in Pending' => k \in Alone'
  <2> SUFFICES ASSUME NEW k \in DOMAIN server, server[k] = 1, k \notin next, k \in DOMAIN E
               PROVE  E[k] = 1
    BY <1>6, <1>7
  <2>1. k \in DOMAIN D
    BY <1>5
  <2>2. k # j
    BY <1>4, <2>1
  <2>3. D[k] = 1
    BY <1>4, <2>1, <2>2
  <2> QED BY <1>5, <2>1, <2>3
<1>12. \A k \in next : k \notin Pending => k \in Alone'
  <2> SUFFICES ASSUME NEW k \in next, k \notin DOMAIN server
               PROVE  k \in DOMAIN E /\ E[k] = 1
    BY <1>6, <1>7
  <2> QED BY <1>4, <1>5
<1> QED BY <1>1, <1>8, <1>9, <1>10, <1>11, <1>12

(* What a message of a client adds to them *)
LEMMA JobAdded ==
  ASSUME TypeOK, NEW j, server' = server (+) SetToBag({j})
  PROVE  /\ Pending' = Pending \cup {j}
         /\ \A k \in Alone : k # j => k \in Alone'
         /\ j \notin Pending => j \in Alone'
<1> DEFINE S == SetToBag({j})
           E == server (+) S
<1>1. server' = E
  OBVIOUS
<1>2. DOMAIN S = {j} /\ S[j] = 1
  BY DEF SetToBag
<1>3. \A k \in DOMAIN server : server[k] \in Nat /\ server[k] > 0
  BY DEF TypeOK, IsABag
<1> HIDE DEF S
<1>4. /\ DOMAIN E = DOMAIN server \cup {j}
      /\ \A k \in DOMAIN E : E[k] = (IF k \in DOMAIN server THEN server[k] ELSE 0) + (IF k = j THEN 1 ELSE 0)
  BY <1>2 DEF (+)
<1> HIDE DEF E
<1>5. Pending = DOMAIN server /\ Pending' = DOMAIN E
  BY <1>1 DEF Pending, BagToSet
<1>6. /\ Alone = {k \in DOMAIN server : server[k] = 1}
      /\ Alone' = {k \in DOMAIN E : E[k] = 1}
  <2>1. Alone = {k \in DOMAIN server : server[k] = 1}
    BY DEF Alone, Pending, BagToSet
  <2>2. Alone' = {k \in DOMAIN server' : server'[k] = 1}
    BY DEF Alone, Pending, BagToSet
  <2> QED BY <1>1, <2>1, <2>2
<1>7. \A k \in Alone : k # j => k \in Alone'
  BY <1>4, <1>6
<1>8. j \notin Pending => j \in Alone'
  BY <1>4, <1>5, <1>6
<1> QED BY <1>4, <1>5, <1>7, <1>8

-----------------------------------------------------------------------------
(* The queue of a client *)

(* What the user asked of a client is not touched by most operations. *)
SameUser(k, m) ==
    /\ k.toggles = m.toggles /\ k.held = m.held /\ k.direction = m.direction
    /\ k.negotiated = m.negotiated /\ k.described = m.described

(* Nor is what is sent and waited for. *)
SameView(k, m) == \A n \in Ids : (Sent(k, n) <=> Sent(m, n)) /\ (Waits(k, n) <=> Waits(m, n))

(* A client that knows the negotiations in their order, none of which is   *)
(* being processed, and the latest of which may be yet to be               *)
Rests(m) ==
    /\ \A i \in 1..Len(m.known) : m.known[i].id = i
    /\ m.processed \in {Len(m.known), Len(m.known) - 1}
    /\ Idle(m)

(* An idle client has sent all it was to send, and waits for nothing. *)
LEMMA IdleView ==
  ASSUME NEW m \in Client, Idle(m), NEW n \in Ids
  PROVE  (Sent(m, n) <=> n <= m.processed) /\ ~Waits(m, n)
<1>1. n # 0
  BY DEF Ids
<1> QED BY <1>1 DEF Idle, Sent, Waits

(* ProcessNegotiations begins the negotiation that is waiting, if any. *)
LEMMA BeginNext ==
  ASSUME NEW r \in Roles, NEW m \in Client, Rests(m)
  PROVE  LET p == ProcessNegotiations(r, m)
         IN  /\ QueueInv(p) /\ p.known = m.known /\ p.agreed = m.agreed
             /\ SameUser(p, m) /\ SameView(p, m)
<1> DEFINE L == Len(m.known)
           p == ProcessNegotiations(r, m)
           i == Min(InQueue(r, m))
           op == IF m.known[i].remote THEN "remoteOffer" ELSE "createOffer"
           o == [op |-> op, at |-> i]
           q == [m EXCEPT !.current = i, !.processed = i, !.chain = Append(@, o)]
<1>1. L \in Nat /\ m.processed \in Nat /\ m.ready \in BOOLEAN
  BY Fields, NegotiationAssumption DEF NegotiationAssumption
<1>2. m.current = 0 /\ m.ended = 1..m.processed /\ Len(m.chain) = 0 /\ m.gathering = {}
      /\ m.peer = "stable" /\ m.agreed = m.processed
      /\ (\A k \in 1..L : m.known[k].id = k) /\ m.processed \in {L, L - 1}
  BY DEF Rests, Idle
<1>3. p = IF ~m.ready \/ InQueue(r, m) = {} THEN m ELSE q
  BY <1>2 DEF ProcessNegotiations
<1>4. InQueue(r, m) = IF m.processed = L THEN {} ELSE {L}
  <2>1. HighestImpolite(r, m) \in 0..L
    BY Queue
  <2>2. CASE m.processed = L
    BY <1>1, <2>2 DEF InQueue
  <2>3. CASE m.processed = L - 1 /\ m.processed # L
    <3>1. L \in (m.processed + 1)..L /\ L >= HighestImpolite(r, m)
      BY <1>1, <2>1, <2>3
    <3>2. L \in InQueue(r, m)
      BY <3>1 DEF InQueue
    <3>3. InQueue(r, m) \subseteq {L}
      BY <1>1, <2>3 DEF InQueue
    <3> QED BY <2>3, <3>2, <3>3
  <2> QED BY <1>2, <2>2, <2>3
<1>5. CASE ~m.ready \/ m.processed = L
  <2>1. p = m
    BY <1>3, <1>4, <1>5
  <2>2. QueueInv(m)
    BY <1>2, <1>5 DEF QueueInv, Rests, Between
  <2> HIDE DEF p
  <2> QED BY <2>1, <2>2 DEF SameUser, SameView, p
<1>6. CASE m.ready /\ m.processed # L
  <2>1. i = L /\ L \in 1..L /\ m.processed = L - 1 /\ L \in Nat \ {0}
    <3>1. InQueue(r, m) = {L} /\ m.processed = L - 1 /\ L \in 1..L /\ L \in Nat \ {0}
      BY <1>1, <1>2, <1>4, <1>6
    <3>2. Min({L}) = L
      <4>1. {L} \in SUBSET Nat /\ {L} # {}
        BY <1>1
      <4>2. Min({L}) \in {L}
        BY <4>1, MinOfNonempty
      <4> QED BY <4>2
    <3> QED BY <3>1, <3>2
  <2>2. p = q
    BY <1>3, <1>4, <1>6
  <2>3. m.known[L].remote \in BOOLEAN
    BY <2>1, Fields
  <2>4. o.op = op /\ o.at = L
    BY <2>1
  <2>5. L \in Ids
    <3>1. m.known[L].id \in Ids /\ m.known[L].id = L
      BY <1>2, <2>1, Fields
    <3> QED BY <3>1
  <2>6. o \in [op : Operations, at : Ids]
    BY <2>1, <2>5 DEF Operations
  <2> HIDE DEF o
  <2>7. Len(Append(m.chain, o)) = 1 /\ Append(m.chain, o)[1] = o
    <3>1. m.chain \in Seq([op : Operations, at : Ids])
      BY Fields
    <3> QED BY <1>2, <2>6, <3>1, Appended
  <2>8. /\ q.known = m.known /\ q.current = L /\ q.processed = L /\ q.ended = m.ended
        /\ q.chain = Append(m.chain, o) /\ q.gathering = m.gathering /\ q.peer = m.peer
        /\ q.agreed = m.agreed /\ q.ready = m.ready
        /\ q.toggles = m.toggles /\ q.held = m.held /\ q.direction = m.direction
        /\ q.negotiated = m.negotiated /\ q.described = m.described
    BY <2>1 DEF Client
  <2> HIDE DEF q
  <2>9. Working(q)
    <3>1. CASE m.known[L].remote
      <4>1. Doing(q, {"remoteOffer"})
        BY <1>2, <2>4, <2>7, <2>8, <3>1, <2>1 DEF Doing
      <4>2. Answering(q)
        BY <1>2, <2>1, <2>8, <4>1 DEF Answering
      <4> QED BY <1>2, <1>6, <2>1, <2>8, <3>1, <4>2 DEF Working
    <3>2. CASE ~m.known[L].remote
      <4>1. Doing(q, {"createOffer", "localOffer"})
        BY <1>2, <2>4, <2>7, <2>8, <3>2, <2>1 DEF Doing
      <4>2. Offering(q)
        BY <1>2, <2>1, <2>8, <4>1 DEF Offering
      <4> QED BY <1>2, <1>6, <2>1, <2>8, <3>2, <4>2 DEF Working
    <3> QED BY <3>1, <3>2
  <2>10. QueueInv(q)
    BY <1>2, <2>8, <2>9 DEF QueueInv
  <2>11. ASSUME NEW n \in Ids
         PROVE  (Sent(q, n) <=> Sent(m, n)) /\ (Waits(q, n) <=> Waits(m, n))
    <3>1. n \in Nat /\ (Sent(m, n) <=> n <= L - 1) /\ ~Waits(m, n)
      BY <2>1, IdleView, NegotiationAssumption DEF Rests, Ids, NegotiationAssumption
    <3>2. Sent(q, n) <=> n <= L /\ n # L
      BY <1>2, <2>8 DEF Sent
    <3>3. ~Waits(q, n)
      BY <2>7, <2>8 DEF Waits, Awaiting
    <3> QED BY <1>1, <3>1, <3>2, <3>3
  <2> HIDE DEF p
  <2> QED BY <2>2, <2>8, <2>10, <2>11 DEF SameUser, SameView, p
<1> QED BY <1>1, <1>5, <1>6

(* The current negotiation ends, and leaves the connection to the next. *)
LEMMA EndCurrent ==
  ASSUME NEW r \in Roles, NEW m \in Client, NEW i, i = m.current, i # 0, i = m.processed,
         \A k \in 1..Len(m.known) : m.known[k].id = k,
         m.processed \in {Len(m.known), Len(m.known) - 1},
         m.ended = 1..(m.processed - 1), Len(m.chain) = 0, m.gathering = {},
         m.peer = "stable", m.agreed = i
  PROVE  LET p == End(r, m, i)
         IN  /\ QueueInv(p) /\ p.known = m.known /\ p.agreed = m.agreed /\ SameUser(p, m)
             /\ \A n \in Ids : (Sent(p, n) <=> n <= m.processed) /\ ~Waits(p, n)
<1> DEFINE e == [m EXCEPT !.ended = @ \cup {i}]
           f == [e EXCEPT !.current = 0]
<1>1. m.processed \in Nat /\ m.processed # 0 /\ i \in Ids
  BY Fields, NegotiationAssumption DEF NegotiationAssumption, Ids
<1>2. i \notin m.ended /\ m.ended \cup {i} = 1..m.processed
  BY <1>1
<1>3. End(r, m, i) = ProcessNegotiations(r, f)
  BY <1>2 DEF End
<1>4. /\ f.known = m.known /\ f.current = 0 /\ f.processed = m.processed
      /\ f.ended = m.ended \cup {i} /\ f.chain = m.chain /\ f.gathering = m.gathering
      /\ f.peer = m.peer /\ f.agreed = m.agreed
      /\ f.toggles = m.toggles /\ f.held = m.held /\ f.direction = m.direction
      /\ f.negotiated = m.negotiated /\ f.described = m.described
  BY DEF Client
<1>5. f \in Client
  <2>1. m.ended \cup {i} \in SUBSET Ids /\ 0 \in 0..MaxNegotiations
    BY <1>1, Fields, NegotiationAssumption DEF NegotiationAssumption
  <2>2. e \in Client
    BY <2>1 DEF Client
  <2> QED BY <2>1, <2>2 DEF Client
<1> HIDE DEF f
<1>6. Rests(f)
  BY <1>2, <1>4 DEF Rests, Idle
<1>7. LET p == ProcessNegotiations(r, f)
      IN  /\ QueueInv(p) /\ p.known = f.known /\ p.agreed = f.agreed
          /\ SameUser(p, f) /\ SameView(p, f)
  BY <1>5, <1>6, BeginNext
<1>8. \A n \in Ids : (Sent(f, n) <=> n <= m.processed) /\ ~Waits(f, n)
  BY <1>4, <1>5, <1>6, IdleView DEF Rests
<1> QED BY <1>3, <1>4, <1>7, <1>8 DEF SameUser, SameView

-----------------------------------------------------------------------------
(* The operations of the connection *)

(* What an operation of the connection, or the end of a negotiation, does  *)
(* to a client                                                             *)
Moves(k, m) ==
    /\ QueueInv(k) /\ k.known = m.known /\ m.agreed <= k.agreed
    /\ k.toggles = m.toggles /\ (Untouched(m) => Untouched(k))
    /\ SameView(k, m)

(* The queue of a client stays as it is, while the connection proceeds     *)
Steady(k, m) ==
    /\ k.known = m.known /\ k.current = m.current /\ k.processed = m.processed
    /\ k.ended = m.ended /\ k.ready = m.ready /\ k.toggles = m.toggles

(* An operation that leaves the queue steady *)
LEMMA SteadyMoves ==
  ASSUME NEW m \in Client, QueueInv(m), Working(m), NEW k, Steady(k, m), m.agreed <= k.agreed,
         Untouched(m) => Untouched(k),
         IF m.known[m.current].remote THEN Answering(k) ELSE Offering(k),
         (~m.known[m.current].remote /\ k.gathering = {} /\ k.peer = "have-local-offer")
           <=> (~m.known[m.current].remote /\ m.gathering = {} /\ m.peer = "have-local-offer"),
         Awaiting(k) <=> Awaiting(m)
  PROVE  Moves(k, m)
<1>1. Working(k)
  BY DEF Working, Steady
<1>2. QueueInv(k)
  BY <1>1 DEF QueueInv, Steady
<1>3. SameView(k, m)
  BY DEF SameView, Sent, Waits, Steady
<1> QED BY <1>2, <1>3 DEF Moves, Steady

(* The next operation follows. *)
LEMMA Follows ==
  ASSUME NEW m \in Client, Len(m.chain) = 0, m.gathering = {}, NEW i, i = m.current, i \in Ids,
         i \notin m.ended, NEW op \in Operations, NEW ops, op \in ops
  PROVE  LET k == Then(m, i, op)
         IN  /\ Doing(k, ops) /\ Steady(k, m)
             /\ k.peer = m.peer /\ k.agreed = m.agreed /\ k.gathering = m.gathering
             /\ SameUser(k, m)
<1> DEFINE o == [op |-> op, at |-> i]
           k == [m EXCEPT !.chain = Append(@, o)]
<1>1. Then(m, i, op) = k
  BY DEF Then, Active
<1>2. o \in [op : Operations, at : Ids] /\ o.op = op /\ o.at = i
  OBVIOUS
<1> HIDE DEF o
<1>3. Len(Append(m.chain, o)) = 1 /\ Append(m.chain, o)[1] = o
  <2>1. m.chain \in Seq([op : Operations, at : Ids])
    BY Fields
  <2> QED BY <1>2, <2>1, Appended
<1>4. /\ k.chain = Append(m.chain, o)
      /\ k.known = m.known /\ k.current = m.current /\ k.processed = m.processed
      /\ k.ended = m.ended /\ k.gathering = m.gathering /\ k.peer = m.peer
      /\ k.agreed = m.agreed /\ k.ready = m.ready /\ k.toggles = m.toggles
      /\ k.held = m.held /\ k.direction = m.direction /\ k.negotiated = m.negotiated
      /\ k.described = m.described
  BY DEF Client
<1> HIDE DEF k
<1>5. Doing(k, ops)
  BY <1>2, <1>3, <1>4 DEF Doing
<1> QED BY <1>1, <1>4, <1>5 DEF Steady, SameUser

(* What the operations change besides *)
LEMMA DirectionRequested ==
  ASSUME NEW m \in Client
  PROVE  LET k == RequestDirection(m)
         IN  /\ k \in Client /\ Steady(k, m)
             /\ k.chain = m.chain /\ k.gathering = m.gathering
             /\ k.peer = m.peer /\ k.agreed = m.agreed
             /\ Untouched(m) => Untouched(k)
<1> DEFINE k == [m EXCEPT !.direction = m.held]
<1>1. k \in Client
  <2>1. m.held \in BOOLEAN
    BY DEF Client
  <2> QED BY <2>1 DEF Client
<1>2. /\ k.known = m.known /\ k.current = m.current /\ k.processed = m.processed
      /\ k.ended = m.ended /\ k.gathering = m.gathering /\ k.peer = m.peer
      /\ k.agreed = m.agreed /\ k.ready = m.ready /\ k.toggles = m.toggles
      /\ k.held = m.held /\ k.direction = m.held /\ k.negotiated = m.negotiated
      /\ k.described = m.described /\ k.chain = m.chain
  BY DEF Client
<1> HIDE DEF k
<1>3. RequestDirection(m) = k
  BY DEF RequestDirection, k
<1> QED BY <1>1, <1>2, <1>3 DEF Steady, Untouched

(* createOffer and createAnswer describe the direction that is requested. *)
LEMMA Described ==
  ASSUME NEW m \in Client, NEW i \in Ids
  PROVE  LET k == Describe(m, i)
         IN  /\ k \in Client /\ Steady(k, m)
             /\ k.chain = m.chain /\ k.gathering = m.gathering
             /\ k.peer = m.peer /\ k.agreed = m.agreed
             /\ Untouched(m) => Untouched(k)
<1> DEFINE d == [m.described EXCEPT ![i] = m.direction]
           k == [m EXCEPT !.described = d]
<1>1. /\ m.described \in [Ids -> BOOLEAN] /\ m.direction \in BOOLEAN
      /\ d \in [Ids -> BOOLEAN]
      /\ \A n \in Ids : d[n] = IF n = i THEN m.direction ELSE m.described[n]
  <2>1. m.described \in [Ids -> BOOLEAN] /\ m.direction \in BOOLEAN
    BY DEF Client
  <2> QED BY <2>1
<1>2. Describe(m, i) = k
  BY DEF Describe
<1> HIDE DEF d
<1>3. k \in Client
  BY <1>1 DEF Client
<1>4. /\ k.known = m.known /\ k.current = m.current /\ k.processed = m.processed
      /\ k.ended = m.ended /\ k.gathering = m.gathering /\ k.peer = m.peer
      /\ k.agreed = m.agreed /\ k.ready = m.ready /\ k.toggles = m.toggles
      /\ k.held = m.held /\ k.direction = m.direction /\ k.negotiated = m.negotiated
      /\ k.described = d /\ k.chain = m.chain
  BY DEF Client
<1> HIDE DEF k
<1> QED BY <1>1, <1>2, <1>3, <1>4 DEF Steady, Untouched

(* The connection is stable, with the current negotiation. *)
LEMMA Settled ==
  ASSUME NEW m \in Client, NEW i \in Ids, m.known[i].id = i, NEW type \in {"offer", "answer"}
  PROVE  LET k == Stable(m, i, type)
         IN  /\ k \in Client /\ Steady(k, m)
             /\ k.chain = m.chain /\ k.gathering = m.gathering
             /\ k.peer = "stable" /\ k.local = type /\ k.agreed = i
             /\ Untouched(m) => Untouched(k)
<1> DEFINE k == Stable(m, i, type)
<1>1. m.described[i] \in BOOLEAN /\ i \in 0..MaxNegotiations
  BY NegotiationAssumption DEF Client, NegotiationAssumption, Ids
<1>2. k = [m EXCEPT !.peer = "stable", !.local = type, !.agreed = i,
                    !.negotiated = m.described[i], !.fired = FALSE]
  BY DEF Stable
<1>3. k \in Client
  BY <1>1, <1>2 DEF Client
<1>4. /\ k.known = m.known /\ k.current = m.current /\ k.processed = m.processed
      /\ k.ended = m.ended /\ k.gathering = m.gathering /\ k.peer = "stable"
      /\ k.local = type /\ k.agreed = i /\ k.ready = m.ready /\ k.toggles = m.toggles
      /\ k.held = m.held /\ k.direction = m.direction /\ k.negotiated = m.described[i]
      /\ k.described = m.described /\ k.chain = m.chain
  BY <1>2 DEF Client
<1> HIDE DEF k
<1>5. Untouched(m) => Untouched(k)
  BY <1>4 DEF Untouched
<1> QED BY <1>3, <1>4, <1>5 DEF Steady, k

(* The connection of a client is in the midst of what its current          *)
(* negotiation needs.                                                      *)
LEMMA Busy ==
  ASSUME NEW m \in Client, QueueInv(m), Len(m.chain) > 0 \/ m.gathering # {} \/ m.current # 0
  PROVE  /\ Working(m) /\ m.current \in 1..Len(m.known) /\ m.current \in Ids
         /\ m.current \notin m.ended /\ m.known[m.current].id = m.current
         /\ m.known[m.current].remote \in BOOLEAN
<1>1. Working(m)
  BY DEF QueueInv, Between, Idle
<1>2. m.current \in 0..MaxNegotiations /\ m.processed \in 0..MaxNegotiations /\ Len(m.known) \in Nat
  BY Fields
<1>3. m.current \in 1..Len(m.known) /\ m.current \in Ids /\ m.current \notin m.ended
  BY <1>1, <1>2, NegotiationAssumption DEF Working, QueueInv, NegotiationAssumption, Ids
<1>4. m.known[m.current].id = m.current
  BY <1>3 DEF QueueInv
<1>5. m.known[m.current].remote \in BOOLEAN
  BY <1>3, Fields
<1> QED BY <1>1, <1>3, <1>4, <1>5

(* Each operation of the peer connection moves its client on. *)
LEMMA OperateMoves ==
  ASSUME TypeOK, NegotiationInv, NEW r \in Roles, QueueInv(client[r]), Operate(r)
  PROVE  /\ \E k : Moves(k, client[r]) /\ client' = [client EXCEPT ![r] = k]
         /\ UNCHANGED <<accepted, negs, server, signals>>
<1> DEFINE m == client[r]
           n == [m EXCEPT !.chain = Tail(@)]
           i == m.current
           o == m.chain[1]
<1>1. Good(negs, r, m) /\ m.chain # << >> /\ QueueInv(m) /\ m \in Client
  BY DEF Operate, TypeOK, NegotiationInv, Good
<1>2. Popped(negs, r, m, n) /\ Head(m.chain) = o
  BY <1>1, PopOK
<1>3. /\ client' = [client EXCEPT ![r] =
           CASE o.op = "createOffer"  -> CreateOffer(r, n, o.at)
             [] o.op = "localOffer"   -> LocalOffer(r, n, o.at)
             [] o.op = "remoteOffer"  -> RemoteOffer(r, n, o.at)
             [] o.op = "createAnswer" -> CreateAnswer(r, n, o.at)
             [] o.op = "localAnswer"  -> LocalAnswer(r, n, o.at)
             [] o.op = "remoteAnswer" -> RemoteAnswer(r, n, o.at)]
      /\ UNCHANGED <<accepted, negs, server, signals>>
  BY <1>2 DEF Operate
<1>4. n \in Client
  BY <1>2 DEF Popped, Core
<1>5. Len(m.chain) > 0 /\ Len(n.chain) = Len(m.chain) - 1
  <2>1. m.chain \in Seq([op : Operations, at : Ids])
    BY <1>1, Fields
  <2>2. Len(Tail(m.chain)) = Len(m.chain) - 1 /\ Len(m.chain) \in Nat \ {0}
    BY <1>1, <2>1, Tailed
  <2>3. n.chain = Tail(m.chain)
    BY <1>1 DEF Client
  <2> QED BY <2>2, <2>3
<1>6. /\ Steady(n, m) /\ n.gathering = m.gathering /\ n.peer = m.peer /\ n.agreed = m.agreed
      /\ SameUser(n, m)
  BY <1>1 DEF Client, Steady, SameUser
<1> HIDE DEF m, n
<1>7. /\ Working(m) /\ i \in 1..Len(m.known) /\ i \in Ids /\ i \notin m.ended
      /\ m.known[i].id = i /\ m.known[i].remote \in BOOLEAN
  BY <1>1, <1>5, Busy
<1>8. /\ o.at = i /\ Len(n.chain) = 0 /\ n.gathering = {} /\ i = n.current /\ i \notin n.ended
      /\ n.known[i].id = i /\ ~Awaiting(m)
      /\ \/ m.known[i].remote /\ o.op = "remoteOffer" /\ m.peer = "stable" /\ m.agreed = i - 1
         \/ /\ m.known[i].remote /\ o.op \in {"createAnswer", "localAnswer"}
            /\ m.peer = "have-remote-offer" /\ m.agreed = i - 1
         \/ /\ ~m.known[i].remote /\ o.op \in {"createOffer", "localOffer"}
            /\ m.peer = "stable" /\ m.agreed = i - 1
         \/ /\ ~m.known[i].remote /\ o.op = "remoteAnswer"
            /\ m.peer = "have-local-offer" /\ m.agreed = i - 1
  <2>1. Len(m.chain) # 0
    BY <1>5
  <2>2. /\ Len(m.chain) = 1 /\ o.at = i /\ m.gathering = {}
        /\ \/ m.known[i].remote /\ o.op = "remoteOffer" /\ m.peer = "stable" /\ m.agreed = i - 1
           \/ /\ m.known[i].remote /\ o.op \in {"createAnswer", "localAnswer"}
              /\ m.peer = "have-remote-offer" /\ m.agreed = i - 1
           \/ /\ ~m.known[i].remote /\ o.op \in {"createOffer", "localOffer"}
              /\ m.peer = "stable" /\ m.agreed = i - 1
           \/ /\ ~m.known[i].remote /\ o.op = "remoteAnswer"
              /\ m.peer = "have-local-offer" /\ m.agreed = i - 1
    BY <1>7, <2>1 DEF Working, Answering, Offering, Doing, Collecting, Awaiting
  <2>3. ~Awaiting(m)
    BY <2>1 DEF Awaiting
  <2> QED BY <1>5, <1>6, <1>7, <2>2, <2>3 DEF Steady
<1> DEFINE Result(k) == Moves(k, m) /\ client' = [client EXCEPT ![r] = k]
<1>9. SUFFICES \E k : Result(k)
  BY <1>3 DEF m
<1>10. m.agreed \in Nat /\ i \in Nat \ {0} /\ (Untouched(m) => Untouched(n))
  <2>1. m.agreed \in 0..MaxNegotiations
    BY <1>1, Fields
  <2> QED BY <1>6, <1>7, <2>1, NegotiationAssumption DEF NegotiationAssumption, Ids, SameUser, Untouched
<1>11. \A ops : \A k : Doing(k, ops) => ~Awaiting(k)
  BY DEF Doing, Awaiting
<1>12. CASE o.op = "createOffer"
  <2> DEFINE p == RequestDirection(n)
             d == Describe(p, i)
             k == Then(d, i, "localOffer")
  <2>1. client' = [client EXCEPT ![r] = CreateOffer(r, n, i)] /\ ~m.known[i].remote
        /\ m.peer = "stable" /\ m.agreed = i - 1
    BY <1>3, <1>8, <1>12
  <2>2. CreateOffer(r, n, i) = k
    BY <1>6, <2>1 DEF CreateOffer
  <2>3. /\ p \in Client /\ Steady(p, n) /\ p.chain = n.chain /\ p.gathering = n.gathering
        /\ p.peer = n.peer /\ p.agreed = n.agreed /\ (Untouched(n) => Untouched(p))
    BY <1>4, DirectionRequested
  <2> HIDE DEF p
  <2>4. /\ d \in Client /\ Steady(d, p) /\ d.chain = p.chain /\ d.gathering = p.gathering
        /\ d.peer = p.peer /\ d.agreed = p.agreed /\ (Untouched(p) => Untouched(d))
    BY <1>7, <2>3, Described
  <2> HIDE DEF d
  <2>5. /\ Doing(k, {"createOffer", "localOffer"}) /\ Steady(k, d)
        /\ k.peer = d.peer /\ k.agreed = d.agreed /\ k.gathering = d.gathering /\ SameUser(k, d)
    <3>1. Len(d.chain) = 0 /\ d.gathering = {} /\ i = d.current /\ i \notin d.ended
          /\ "localOffer" \in Operations
      BY <1>8, <2>3, <2>4 DEF Steady, Operations
    <3> QED BY <1>7, <2>4, <3>1, Follows
  <2> HIDE DEF k
  <2>6. Steady(k, m) /\ k.peer = "stable" /\ k.agreed = m.agreed /\ k.gathering = {}
        /\ (Untouched(m) => Untouched(k))
    BY <1>6, <1>8, <1>10, <2>1, <2>3, <2>4, <2>5 DEF Steady, SameUser, Untouched
  <2>7. Offering(k) /\ ~Awaiting(k)
    BY <1>11, <2>1, <2>5, <2>6 DEF Offering, Steady
  <2>8. Moves(k, m)
    BY <1>1, <1>7, <1>8, <1>10, <2>1, <2>6, <2>7, SteadyMoves
  <2> QED BY <2>1, <2>2, <2>8
<1>13. CASE o.op = "localOffer"
  <2> DEFINE p == [n EXCEPT !.peer = "have-local-offer"]
             k == Gather(p, i)
  <2>1. client' = [client EXCEPT ![r] = LocalOffer(r, n, i)] /\ ~m.known[i].remote
        /\ m.peer = "stable" /\ m.agreed = i - 1
    BY <1>3, <1>8, <1>13
  <2>2. LocalOffer(r, n, i) = k
    BY <1>6, <2>1 DEF LocalOffer
  <2>3. /\ p \in Client /\ Steady(p, n) /\ p.chain = n.chain /\ p.gathering = n.gathering
        /\ p.peer = "have-local-offer" /\ p.agreed = n.agreed /\ SameUser(p, n)
    BY <1>4 DEF Client, Steady, SameUser
  <2> HIDE DEF p
  <2>4. k = [p EXCEPT !.gathering = @ \cup {i}]
    BY <1>8, <2>3 DEF Gather, Active, Steady
  <2>5. /\ Steady(k, p) /\ k.chain = p.chain /\ k.gathering = p.gathering \cup {i}
        /\ k.peer = p.peer /\ k.agreed = p.agreed /\ SameUser(k, p)
    BY <2>3, <2>4 DEF Client, Steady, SameUser
  <2> HIDE DEF k
  <2>6. Steady(k, m) /\ k.peer = "have-local-offer" /\ k.agreed = m.agreed /\ k.gathering = {i}
        /\ (Untouched(m) => Untouched(k)) /\ Len(k.chain) = 0
    BY <1>6, <1>8, <1>10, <2>1, <2>3, <2>5 DEF Steady, SameUser, Untouched
  <2>7. Offering(k) /\ ~Awaiting(k) /\ k.gathering # {}
    BY <2>1, <2>6 DEF Offering, Steady, Collecting, Awaiting
  <2>8. Moves(k, m)
    <3>1. (~m.known[i].remote /\ k.gathering = {} /\ k.peer = "have-local-offer")
            <=> (~m.known[i].remote /\ m.gathering = {} /\ m.peer = "have-local-offer")
      BY <2>1, <2>7
    <3>2. m.agreed <= k.agreed
      BY <1>10, <2>1, <2>6
    <3>3. IF m.known[i].remote THEN Answering(k) ELSE Offering(k)
      BY <2>1, <2>7
    <3>4. Awaiting(k) <=> Awaiting(m)
      BY <1>8, <2>7
    <3>5. Steady(k, m) /\ (Untouched(m) => Untouched(k))
      BY <2>6
    <3> QED BY <1>1, <1>7, <3>1, <3>2, <3>3, <3>4, <3>5, SteadyMoves
  <2> QED BY <2>1, <2>2, <2>8
<1>14. CASE o.op = "remoteOffer"
  <2> DEFINE p == RequestDirection(n)
             d == [p EXCEPT !.peer = "have-remote-offer"]
             k == Then(d, i, "createAnswer")
  <2>1. client' = [client EXCEPT ![r] = RemoteOffer(r, n, i)] /\ m.known[i].remote
        /\ m.agreed = i - 1 /\ RemoteOffer(r, n, i) = k
    BY <1>3, <1>8, <1>14 DEF RemoteOffer
  <2>3. /\ p \in Client /\ Steady(p, n) /\ p.chain = n.chain /\ p.gathering = n.gathering
        /\ p.agreed = n.agreed /\ (Untouched(n) => Untouched(p))
    BY <1>4, DirectionRequested
  <2> HIDE DEF p
  <2>4. /\ d \in Client /\ Steady(d, p) /\ d.chain = p.chain /\ d.gathering = p.gathering
        /\ d.peer = "have-remote-offer" /\ d.agreed = p.agreed /\ SameUser(d, p)
    BY <2>3 DEF Client, Steady, SameUser
  <2> HIDE DEF d
  <2>5. /\ Doing(k, {"createAnswer", "localAnswer"}) /\ Steady(k, d)
        /\ k.peer = d.peer /\ k.agreed = d.agreed /\ k.gathering = d.gathering /\ SameUser(k, d)
    <3>1. Len(d.chain) = 0 /\ d.gathering = {} /\ i = d.current /\ i \notin d.ended
          /\ "createAnswer" \in Operations
      BY <1>8, <2>3, <2>4 DEF Steady, Operations
    <3> QED BY <1>7, <2>4, <3>1, Follows
  <2> HIDE DEF k
  <2>6. Steady(k, m) /\ k.peer = "have-remote-offer" /\ k.agreed = m.agreed
        /\ (Untouched(m) => Untouched(k))
    BY <1>6, <1>8, <1>10, <2>3, <2>4, <2>5 DEF Steady, SameUser, Untouched
  <2>7. Answering(k) /\ ~Awaiting(k)
    BY <1>11, <2>1, <2>5, <2>6 DEF Answering, Steady
  <2>8. Moves(k, m)
    BY <1>1, <1>7, <1>8, <1>10, <2>1, <2>6, <2>7, SteadyMoves
  <2> QED BY <2>1, <2>8
<1>15. CASE o.op = "createAnswer"
  <2> DEFINE d == Describe(n, i)
             k == Then(d, i, "localAnswer")
  <2>1. client' = [client EXCEPT ![r] = CreateAnswer(r, n, i)] /\ m.known[i].remote
        /\ m.agreed = i - 1 /\ m.peer = "have-remote-offer"
    BY <1>3, <1>8, <1>15
  <2>2. CreateAnswer(r, n, i) = k
    BY <1>6, <2>1 DEF CreateAnswer
  <2>4. /\ d \in Client /\ Steady(d, n) /\ d.chain = n.chain /\ d.gathering = n.gathering
        /\ d.peer = n.peer /\ d.agreed = n.agreed /\ (Untouched(n) => Untouched(d))
    BY <1>4, <1>7, Described
  <2> HIDE DEF d
  <2>5. /\ Doing(k, {"createAnswer", "localAnswer"}) /\ Steady(k, d)
        /\ k.peer = d.peer /\ k.agreed = d.agreed /\ k.gathering = d.gathering /\ SameUser(k, d)
    <3>1. Len(d.chain) = 0 /\ d.gathering = {} /\ i = d.current /\ i \notin d.ended
          /\ "localAnswer" \in Operations
      BY <1>8, <2>4 DEF Steady, Operations
    <3> QED BY <1>7, <2>4, <3>1, Follows
  <2> HIDE DEF k
  <2>6. Steady(k, m) /\ k.peer = "have-remote-offer" /\ k.agreed = m.agreed
        /\ (Untouched(m) => Untouched(k))
    BY <1>6, <1>8, <1>10, <2>1, <2>4, <2>5 DEF Steady, SameUser, Untouched
  <2>7. Answering(k) /\ ~Awaiting(k)
    BY <1>11, <2>1, <2>5, <2>6 DEF Answering, Steady
  <2>8. Moves(k, m)
    BY <1>1, <1>7, <1>8, <1>10, <2>1, <2>6, <2>7, SteadyMoves
  <2> QED BY <2>1, <2>2, <2>8
<1>16. CASE o.op = "localAnswer"
  <2> DEFINE p == Stable(n, i, "answer")
             k == Gather(p, i)
  <2>1. client' = [client EXCEPT ![r] = LocalAnswer(r, n, i)] /\ m.known[i].remote
        /\ m.agreed = i - 1 /\ m.peer = "have-remote-offer"
    BY <1>3, <1>8, <1>16
  <2>2. LocalAnswer(r, n, i) = k
    BY <1>6, <2>1 DEF LocalAnswer
  <2>3. /\ p \in Client /\ Steady(p, n) /\ p.chain = n.chain /\ p.gathering = n.gathering
        /\ p.peer = "stable" /\ p.local = "answer" /\ p.agreed = i
        /\ (Untouched(n) => Untouched(p))
    BY <1>4, <1>7, <1>8, Settled
  <2> HIDE DEF p
  <2>4. k = [p EXCEPT !.gathering = @ \cup {i}]
    BY <1>8, <2>3 DEF Gather, Active, Steady
  <2>5. /\ Steady(k, p) /\ k.chain = p.chain /\ k.gathering = p.gathering \cup {i}
        /\ k.peer = p.peer /\ k.local = p.local /\ k.agreed = p.agreed /\ SameUser(k, p)
    BY <2>3, <2>4 DEF Client, Steady, SameUser
  <2> HIDE DEF k
  <2>6. Steady(k, m) /\ k.peer = "stable" /\ k.local = "answer" /\ k.agreed = i /\ k.gathering = {i}
        /\ (Untouched(m) => Untouched(k)) /\ Len(k.chain) = 0
    BY <1>6, <1>8, <1>10, <2>1, <2>3, <2>5 DEF Steady, SameUser, Untouched
  <2>7. Answering(k) /\ ~Awaiting(k) /\ k.gathering # {} /\ m.agreed <= k.agreed
    BY <1>10, <2>1, <2>6 DEF Answering, Steady, Collecting, Awaiting
  <2>8. Moves(k, m)
    BY <1>1, <1>7, <1>8, <1>10, <2>1, <2>6, <2>7, SteadyMoves
  <2> QED BY <2>1, <2>2, <2>8
<1>17. CASE o.op = "remoteAnswer"
  <2> DEFINE p == Stable(n, i, "offer")
             k == End(r, p, i)
  <2>1. client' = [client EXCEPT ![r] = RemoteAnswer(r, n, i)] /\ ~m.known[i].remote
        /\ m.agreed = i - 1 /\ m.peer = "have-local-offer"
    BY <1>3, <1>8, <1>17
  <2>2. RemoteAnswer(r, n, i) = k
    BY <1>6, <2>1 DEF RemoteAnswer
  <2>3. /\ p \in Client /\ Steady(p, n) /\ p.chain = n.chain /\ p.gathering = n.gathering
        /\ p.peer = "stable" /\ p.agreed = i /\ (Untouched(n) => Untouched(p))
    BY <1>4, <1>7, <1>8, Settled
  <2> HIDE DEF p
  <2>4. /\ p.known = m.known /\ p.current = m.current /\ p.processed = m.processed
        /\ p.ended = m.ended /\ p.toggles = m.toggles
    BY <1>6, <2>3 DEF Steady
  <2>5. /\ m.current = m.processed /\ m.ended = 1..(m.processed - 1)
        /\ (\A x \in 1..Len(m.known) : m.known[x].id = x)
        /\ m.processed \in {Len(m.known), Len(m.known) - 1}
    BY <1>1, <1>7 DEF Working, QueueInv
  <2>6. /\ QueueInv(k) /\ k.known = p.known /\ k.agreed = p.agreed /\ SameUser(k, p)
        /\ \A x \in Ids : (Sent(k, x) <=> x <= p.processed) /\ ~Waits(k, x)
    BY <1>8, <1>10, <2>3, <2>4, <2>5, EndCurrent
  <2> HIDE DEF k
  <2>7. \A x \in Ids : (Sent(m, x) <=> x <= m.processed) /\ ~Waits(m, x)
    <3>1. m.gathering = {}
      BY <1>6, <1>8
    <3> QED BY <1>8, <2>1, <3>1 DEF Sent, Waits
  <2>8. Untouched(m) => Untouched(k)
    BY <1>10, <2>3, <2>6 DEF Untouched, SameUser
  <2>9. Moves(k, m)
    BY <1>10, <2>1, <2>3, <2>4, <2>6, <2>7, <2>8 DEF Moves, SameView, SameUser
  <2> QED BY <2>1, <2>2, <2>9
<1> QED BY <1>8, <1>12, <1>13, <1>14, <1>15, <1>16, <1>17

(* So does the microphone. *)
LEMMA GetInputTrackMoves ==
  ASSUME TypeOK, NEW r \in Roles, QueueInv(client[r]), GetInputTrack(r)
  PROVE  /\ \E k : Moves(k, client[r]) /\ client' = [client EXCEPT ![r] = k]
         /\ UNCHANGED <<accepted, negs, server, signals>>
<1> DEFINE m == client[r]
           e == [m EXCEPT !.ready = TRUE]
           k == ProcessNegotiations(r, e)
<1>1. m \in Client /\ ~m.ready
  BY DEF TypeOK, GetInputTrack
<1>2. client' = [client EXCEPT ![r] = k] /\ UNCHANGED <<accepted, negs, server, signals>>
  BY DEF GetInputTrack
<1>3. Between(m) /\ QueueInv(m)
  BY <1>1 DEF QueueInv, Working
<1> HIDE DEF m
<1>4. /\ e \in Client /\ e.known = m.known /\ e.current = m.current /\ e.processed = m.processed
      /\ e.ended = m.ended /\ e.chain = m.chain /\ e.gathering = m.gathering
      /\ e.peer = m.peer /\ e.agreed = m.agreed /\ SameUser(e, m)
  BY <1>1 DEF Client, SameUser
<1> HIDE DEF e
<1>5. Rests(e) /\ SameView(e, m)
  BY <1>3, <1>4 DEF Rests, Idle, Between, QueueInv, SameView, Sent, Waits, Awaiting
<1>6. /\ QueueInv(k) /\ k.known = e.known /\ k.agreed = e.agreed
      /\ SameUser(k, e) /\ SameView(k, e)
  BY <1>4, <1>5, BeginNext
<1> HIDE DEF k
<1>7. m.agreed \in Nat
  <2>1. m.agreed \in 0..MaxNegotiations
    BY <1>1, Fields
  <2> QED BY <2>1, NegotiationAssumption DEF NegotiationAssumption
<1>8. Moves(k, m)
  BY <1>4, <1>5, <1>6, <1>7 DEF Moves, SameView, SameUser, Untouched
<1> QED BY <1>2, <1>8 DEF m

(* A queue that nothing happens to *)
LEMMA QueueSame ==
  ASSUME NEW m, QueueInv(m), NEW k,
         k.known = m.known, k.current = m.current, k.processed = m.processed, k.ended = m.ended,
         k.chain = m.chain, k.gathering = m.gathering, k.peer = m.peer, k.local = m.local,
         k.agreed = m.agreed, k.ready = m.ready
  PROVE  QueueInv(k) /\ SameView(k, m)
<1>1. (Idle(k) <=> Idle(m)) /\ (Answering(k) <=> Answering(m)) /\ (Offering(k) <=> Offering(m))
  BY DEF Idle, Answering, Offering, Doing, Collecting, Awaiting
<1>2. QueueInv(k)
  BY <1>1 DEF QueueInv, Between, Working
<1>3. SameView(k, m)
  BY DEF SameView, Sent, Waits, Awaiting
<1> QED BY <1>2, <1>3

(* What the user asks for is no matter of the queue. *)
LEMMA SetHeldMoves ==
  ASSUME TypeOK, NEW r \in Roles, QueueInv(client[r]), SetHeld(r)
  PROVE  /\ \E k : /\ client' = [client EXCEPT ![r] = k]
                   /\ QueueInv(k) /\ SameView(k, client[r]) /\ k.known = client[r].known
                   /\ k.agreed = client[r].agreed /\ k.toggles # 0
         /\ UNCHANGED <<accepted, negs, server, signals>>
<1> DEFINE m == client[r]
           direction == IF m.peer = "stable" THEN ~m.held ELSE m.direction
           t == m.toggles + 1
           h == ~m.held
           f == m.fired /\ direction # m.negotiated
           e == [m EXCEPT !.toggles = t, !.held = h, !.direction = direction, !.fired = f]
<1>1. m \in Client
  BY DEF TypeOK
<1>2. client' = [client EXCEPT ![r] = e] /\ UNCHANGED <<accepted, negs, server, signals>>
  BY DEF SetHeld
<1>3. t # 0
  BY <1>1 DEF Client
<1> HIDE DEF m, t, h, direction, f
<1>4. /\ e.known = m.known /\ e.current = m.current /\ e.processed = m.processed
      /\ e.ended = m.ended /\ e.chain = m.chain /\ e.gathering = m.gathering
      /\ e.peer = m.peer /\ e.local = m.local /\ e.agreed = m.agreed /\ e.ready = m.ready
      /\ e.toggles = t
  BY <1>1 DEF Client
<1> HIDE DEF e
<1>5. QueueInv(e) /\ SameView(e, m)
  <2>1. QueueInv(m)
    BY DEF m
  <2> QED BY <1>4, <2>1, QueueSame
<1> QED BY <1>2, <1>3, <1>4, <1>5 DEF m

(* Nor is a request for another negotiation, which only the user who holds *)
(* is behind.                                                              *)
LEMMA AskMoves ==
  ASSUME TypeOK, NEW r \in Roles, QueueInv(client[r]), AskForNegotiation(r)
  PROVE  /\ \E k : Moves(k, client[r]) /\ client' = [client EXCEPT ![r] = k]
         /\ ~Untouched(client[r])
         /\ server' = server \/ \E n : server' = server (+) SetToBag({Do("needed", r, n)})
         /\ UNCHANGED <<accepted, negs, signals>>
<1> DEFINE m == client[r]
           e == [m EXCEPT !.fired = TRUE]
<1>1. m \in Client
  BY DEF TypeOK
<1>2. /\ client' = [client EXCEPT ![r] = e]
      /\ server' = server \/ \E n : server' = server (+) SetToBag({Do("needed", r, n)})
      /\ UNCHANGED <<accepted, negs, signals>>
      /\ m.direction # m.negotiated
  BY DEF AskForNegotiation
<1>3. ~Untouched(m)
  BY <1>1, <1>2 DEF Untouched, Client
<1>4. QueueInv(m)
  OBVIOUS
<1> HIDE DEF m
<1>5. /\ e.known = m.known /\ e.current = m.current /\ e.processed = m.processed
      /\ e.ended = m.ended /\ e.chain = m.chain /\ e.gathering = m.gathering
      /\ e.peer = m.peer /\ e.local = m.local /\ e.agreed = m.agreed /\ e.ready = m.ready
      /\ e.toggles = m.toggles /\ e.held = m.held /\ e.direction = m.direction
      /\ e.negotiated = m.negotiated /\ e.described = m.described
  BY <1>1 DEF Client
<1> HIDE DEF e
<1>6. QueueInv(e) /\ SameView(e, m)
  BY <1>4, <1>5, QueueSame
<1>7. m.agreed \in Nat
  <2>1. m.agreed \in 0..MaxNegotiations
    BY <1>1, Fields
  <2> QED BY <2>1, NegotiationAssumption DEF NegotiationAssumption
<1>8. Moves(e, m)
  BY <1>5, <1>6, <1>7 DEF Moves, Untouched
<1> QED BY <1>2, <1>3, <1>8 DEF m

(* Candidates are gathered of the current negotiation only: its            *)
(* description is sent.                                                    *)
LEMMA GatheredMoves ==
  ASSUME TypeOK, NEW r \in Roles, NEW i \in Ids, QueueInv(client[r]), Gathered(r, i)
  PROVE  LET m == client[r]
             type == IF m.known[i].remote THEN "answer" ELSE "offer"
         IN  /\ \E k : /\ client' = [client EXCEPT ![r] = k]
                       /\ QueueInv(k) /\ k.known = m.known /\ k.agreed = m.agreed
                       /\ k.toggles = m.toggles /\ (Untouched(m) => Untouched(k))
                       /\ Sent(k, i)
                       /\ \A n \in Ids : n # i => (Sent(k, n) <=> Sent(m, n)) /\ (Waits(k, n) <=> Waits(m, n))
             /\ ~Sent(m, i) /\ ~Waits(m, i) /\ i \in 1..Len(m.known)
             /\ m.known[i].remote \in BOOLEAN
             /\ server' = server (+) SetToBag({Saving(r, i, type)})
             /\ UNCHANGED <<accepted, negs, signals>>
<1> DEFINE m == client[r]
           n == [m EXCEPT !.gathering = @ \ {i}]
           type == IF m.known[i].remote THEN "answer" ELSE "offer"
<1>1. m \in Client /\ QueueInv(m) /\ i \in m.gathering
  BY DEF TypeOK, Gathered
<1>2. /\ Working(m) /\ m.current \in 1..Len(m.known) /\ m.current \notin m.ended
      /\ m.known[m.current].id = m.current /\ m.known[m.current].remote \in BOOLEAN
  BY <1>1, Busy
<1>3. /\ i = m.current /\ Collecting(m)
      /\ IF m.known[i].remote THEN m.peer = "stable" /\ m.local = "answer" /\ m.agreed = i
                              ELSE m.peer = "have-local-offer" /\ m.agreed = i - 1
  BY <1>1, <1>2 DEF Working, Answering, Offering, Doing, Collecting, Awaiting
<1>4. /\ n \in Client /\ Steady(n, m) /\ n.chain = m.chain /\ n.gathering = m.gathering \ {i}
      /\ n.peer = m.peer /\ n.local = m.local /\ n.agreed = m.agreed /\ SameUser(n, m)
  <2>1. m.gathering \ {i} \in SUBSET Ids
    BY <1>1, Fields
  <2> HIDE DEF m
  <2> QED BY <1>1, <2>1 DEF Client, Steady, SameUser
<1>5. Active(n, i) /\ LocalDescription(n) = type /\ type # "none" /\ n.known[i] = m.known[i]
      /\ n.known[i].id = i
  BY <1>2, <1>3, <1>4 DEF Active, LocalDescription, Steady
<1>6. /\ client' = [client EXCEPT ![r] = IF m.known[i].remote THEN End(r, n, i) ELSE n]
      /\ server' = server (+) SetToBag({Saving(r, i, type)})
      /\ UNCHANGED <<accepted, negs, signals>>
  <2>1. Active(n, i) /\ LocalDescription(n) # "none"
    BY <1>5
  <2>2. [step |-> "save", role |-> r, id |-> n.known[i].id, sdp |-> LocalDescription(n)] = Saving(r, i, type)
    BY <1>5 DEF Saving
  <2>3. /\ client' = [client EXCEPT ![r] = IF n.known[i].remote THEN End(r, n, i) ELSE n]
        /\ server' = server (+) SetToBag({[step |-> "save", role |-> r, id |-> n.known[i].id, sdp |-> LocalDescription(n)]})
        /\ UNCHANGED <<accepted, negs, signals>>
    BY <2>1 DEF Gathered
  <2> QED BY <1>5, <2>2, <2>3
<1> HIDE DEF m, n
<1>7. ~Sent(m, i) /\ ~Waits(m, i) /\ i \in 1..Len(m.known) /\ m.known[i].remote \in BOOLEAN
  <2>1. m.gathering # {}
    BY <1>1
  <2> QED BY <1>2, <1>3, <2>1 DEF Sent, Waits, Awaiting
<1>8. m.processed \in Nat /\ m.processed = i /\ i \in Nat \ {0}
  BY <1>1, <1>2, <1>3, Fields, NegotiationAssumption DEF NegotiationAssumption, Working, Ids
<1>9. n.gathering = {} /\ Len(n.chain) = 0
  BY <1>3, <1>4 DEF Collecting
<1>10. CASE m.known[i].remote
  <2> DEFINE k == End(r, n, i)
  <2>1. /\ QueueInv(k) /\ k.known = n.known /\ k.agreed = n.agreed /\ SameUser(k, n)
        /\ \A x \in Ids : (Sent(k, x) <=> x <= n.processed) /\ ~Waits(k, x)
    <3>1. /\ i = n.current /\ i # 0 /\ i = n.processed /\ n.ended = 1..(n.processed - 1)
          /\ (\A x \in 1..Len(n.known) : n.known[x].id = x)
          /\ n.processed \in {Len(n.known), Len(n.known) - 1}
          /\ n.peer = "stable" /\ n.agreed = i
      BY <1>1, <1>2, <1>3, <1>4, <1>8, <1>10 DEF Steady, Working, QueueInv
    <3> QED BY <1>4, <1>9, <3>1, EndCurrent
  <2> HIDE DEF k
  <2>2. \A x \in Ids : x # i => (Sent(m, x) <=> x <= m.processed) /\ ~Waits(m, x)
    BY <1>3 DEF Sent, Waits
  <2>3. k.known = m.known /\ k.agreed = m.agreed /\ n.processed = m.processed /\ k.toggles = m.toggles
        /\ (Untouched(m) => Untouched(k))
    BY <1>4, <2>1 DEF Steady, SameUser, Untouched
  <2>4. Sent(k, i)
    BY <1>8, <2>1, <2>3
  <2>5. client' = [client EXCEPT ![r] = k]
    BY <1>6, <1>10 DEF k
  <2> QED BY <1>6, <1>7, <2>1, <2>2, <2>3, <2>4, <2>5 DEF m
<1>11. CASE ~m.known[i].remote
  <2>1. Awaiting(n) /\ n.agreed = n.current - 1
    BY <1>3, <1>4, <1>9, <1>11 DEF Awaiting, Steady
  <2>2. Working(n)
    BY <1>2, <1>3, <1>4, <1>11, <2>1 DEF Working, Steady, Offering
  <2>3. QueueInv(n)
    BY <1>1, <1>4, <2>2 DEF QueueInv, Steady
  <2>4. Sent(n, i)
    BY <1>3, <1>4, <1>8, <1>9, <1>11 DEF Sent, Steady
  <2>5. \A x \in Ids : x # i => (Sent(n, x) <=> Sent(m, x)) /\ (Waits(n, x) <=> Waits(m, x))
    BY <1>3, <1>4 DEF Sent, Waits, Steady
  <2>6. n.known = m.known /\ n.agreed = m.agreed /\ n.toggles = m.toggles
        /\ (Untouched(m) => Untouched(n))
    BY <1>4 DEF Steady, SameUser, Untouched
  <2>7. client' = [client EXCEPT ![r] = n]
    BY <1>6, <1>11
  <2> QED BY <1>6, <1>7, <2>3, <2>4, <2>5, <2>6, <2>7 DEF m
<1> QED BY <1>7, <1>10, <1>11

(* A negotiation is learned of in its order, and no current one is         *)
(* overruled.                                                              *)
LEMMA LearnMoves ==
  ASSUME NEW r \in Roles, NEW m \in Client, QueueInv(m), NEW id \in Ids, NEW remote \in BOOLEAN,
         id = Len(m.known) + 1, m.processed = Len(m.known),
         m.current # 0 /\ IsPolite(r, m, m.current) => remote # (r = "callee")
  PROVE  LET k == AddNegotiation(r, m, id, remote)
         IN  /\ QueueInv(k) /\ Len(k.known) = id /\ k.agreed = m.agreed
             /\ SameUser(k, m) /\ SameView(k, m)
<1> DEFINE d == [id |-> id, remote |-> remote]
           k == [m EXCEPT !.known = Append(@, d)]
           L == Len(m.known)
<1>1. L \in Nat /\ \A i \in 1..L : m.known[i].id = i
  BY Fields DEF QueueInv
<1>2. d \in [id : Ids, remote : BOOLEAN] /\ d.id = id /\ d.remote = remote
  OBVIOUS
<1>3. ~\E i \in 1..L : m.known[i].id = id
  BY <1>1
<1> HIDE DEF d
<1>4. /\ Append(m.known, d) \in Seq([id : Ids, remote : BOOLEAN]) /\ Len(Append(m.known, d)) = L + 1
      /\ \A i \in 1..L : Append(m.known, d)[i] = m.known[i]
      /\ Append(m.known, d)[L + 1] = d
  <2>1. m.known \in Seq([id : Ids, remote : BOOLEAN])
    BY Fields
  <2> QED BY <1>2, <2>1, Appended
<1>5. /\ k \in Client
      /\ k.known = Append(m.known, d) /\ k.current = m.current /\ k.processed = m.processed
      /\ k.ended = m.ended /\ k.chain = m.chain /\ k.gathering = m.gathering
      /\ k.peer = m.peer /\ k.local = m.local /\ k.agreed = m.agreed /\ k.ready = m.ready
      /\ SameUser(k, m)
  BY <1>4 DEF Client, SameUser
<1> HIDE DEF k
<1>6. /\ Len(k.known) = id /\ k.processed = Len(k.known) - 1
      /\ \A i \in 1..Len(k.known) : k.known[i].id = i
      /\ \A i \in 1..L : k.known[i] = m.known[i]
  <2>1. \A i \in 1..(L + 1) : i \in 1..L \/ i = L + 1
    BY <1>1
  <2> QED BY <1>1, <1>2, <1>4, <1>5, <2>1
<1>7. AddNegotiation(r, m, id, remote) = ProcessNegotiations(r, k)
  <2>1. m.current # 0 => m.current \in 1..L
    BY Busy
  <2>2. m.current # 0 => (IsPolite(r, k, m.current) <=> IsPolite(r, m, m.current))
    BY <1>6, <2>1 DEF IsPolite
  <2>3. IsPolite(r, k, Len(k.known)) <=> remote # (r = "callee")
    <3>1. k.known[Len(k.known)].remote = remote
      BY <1>2, <1>4, <1>5, <1>6
    <3> QED BY <3>1 DEF IsPolite
  <2>4. AddToQueue(r, m, id, remote) = k
    <3>1. ~(~IsPolite(r, k, Len(k.known)) /\ k.current # 0 /\ IsPolite(r, k, k.current))
      BY <1>5, <2>2, <2>3
    <3> QED BY <3>1 DEF AddToQueue, k, d
  <2> QED BY <1>3, <2>4 DEF AddNegotiation
<1>8. CASE m.current = 0
  <2>1. Between(m)
    BY <1>8 DEF QueueInv, Working
  <2>2. Rests(k)
    BY <1>5, <1>6, <2>1 DEF Rests, Idle, Between
  <2>3. LET p == ProcessNegotiations(r, k)
        IN  /\ QueueInv(p) /\ p.known = k.known /\ p.agreed = k.agreed
            /\ SameUser(p, k) /\ SameView(p, k)
    BY <1>5, <2>2, BeginNext
  <2>4. SameView(k, m)
    BY <1>5, <2>1, IdleView, <2>2 DEF SameView, Rests, Between
  <2> QED BY <1>5, <1>6, <1>7, <2>3, <2>4 DEF SameUser, SameView
<1>9. CASE m.current # 0
  <2>1. Working(m) /\ m.current \in 1..L
    BY <1>9, Busy
  <2>2. ProcessNegotiations(r, k) = k
    BY <1>5, <1>9 DEF ProcessNegotiations
  <2>3. k.known[m.current] = m.known[m.current]
    BY <1>6, <2>1
  <2>4. (Answering(k) <=> Answering(m)) /\ (Offering(k) <=> Offering(m))
    BY <1>5 DEF Answering, Offering, Doing, Collecting, Awaiting
  <2>5. Working(k)
    BY <1>5, <2>1, <2>3, <2>4 DEF Working
  <2>6. QueueInv(k)
    BY <1>6, <2>5 DEF QueueInv
  <2>7. SameView(k, m)
    BY <1>5, <2>3 DEF SameView, Sent, Waits, Awaiting
  <2> QED BY <1>5, <1>6, <1>7, <2>2, <2>6, <2>7
<1> QED BY <1>8, <1>9

(* The answer that a client waits for *)
LEMMA AnswerMoves ==
  ASSUME NEW m \in Client, QueueInv(m), NEW id \in Ids, Waits(m, id)
  PROVE  LET k == SetRemoteAnswer(m, id)
         IN  /\ QueueInv(k) /\ k.known = m.known /\ k.agreed = m.agreed /\ SameUser(k, m)
             /\ \A n \in Ids : (Sent(k, n) <=> Sent(m, n)) /\ ~Waits(k, n) /\ (n # id => ~Waits(m, n))
<1> DEFINE o == [op |-> "remoteAnswer", at |-> m.current]
           k == [m EXCEPT !.chain = Append(@, o)]
<1>1. m.current = id /\ Awaiting(m) /\ id # 0
  BY NegotiationAssumption DEF Waits, Ids, NegotiationAssumption
<1>2. /\ Working(m) /\ m.current \in 1..Len(m.known) /\ m.known[m.current].id = m.current
      /\ m.known[m.current].remote \in BOOLEAN
  BY <1>1, Busy
<1>3. ~m.known[m.current].remote /\ m.agreed = m.current - 1
  <2>1. Len(m.chain) = 0 /\ m.gathering = {}
    BY <1>1 DEF Awaiting
  <2>2. ~Answering(m)
    BY <2>1 DEF Answering, Doing, Collecting
  <2> QED BY <1>2, <2>2 DEF Working, Offering
<1>4. SetRemoteAnswer(m, id) = k
  BY <1>1, <1>2, <1>3 DEF SetRemoteAnswer
<1>5. o \in [op : Operations, at : Ids] /\ o.op = "remoteAnswer" /\ o.at = m.current
  BY <1>1 DEF Operations
<1> HIDE DEF o
<1>6. Len(Append(m.chain, o)) = 1 /\ Append(m.chain, o)[1] = o
  <2>1. m.chain \in Seq([op : Operations, at : Ids]) /\ Len(m.chain) = 0
    BY <1>1, Fields DEF Awaiting
  <2> QED BY <1>5, <2>1, Appended
<1>7. /\ Steady(k, m) /\ k.chain = Append(m.chain, o) /\ k.gathering = m.gathering
      /\ k.peer = m.peer /\ k.agreed = m.agreed /\ SameUser(k, m)
  BY DEF Client, Steady, SameUser
<1> HIDE DEF k
<1>8. Doing(k, {"remoteAnswer"}) /\ k.peer = "have-local-offer" /\ ~Awaiting(k)
  BY <1>1, <1>5, <1>6, <1>7 DEF Doing, Awaiting, Steady
<1>9. Offering(k)
  BY <1>3, <1>7, <1>8 DEF Offering, Steady
<1>10. Working(k)
  BY <1>2, <1>3, <1>7, <1>9 DEF Working, Steady
<1>11. QueueInv(k)
  BY <1>7, <1>10 DEF QueueInv, Steady
<1>12. \A n \in Ids : (Sent(k, n) <=> Sent(m, n)) /\ ~Waits(k, n) /\ (n # id => ~Waits(m, n))
  BY <1>1, <1>7, <1>8 DEF Sent, Waits, Steady
<1> QED BY <1>4, <1>7, <1>11, <1>12 DEF Steady

-----------------------------------------------------------------------------
(* What the invariant says of the documents *)

(* The caller's negotiations come before the callee's. *)
LEMMA CallersFirst ==
  ASSUME TypeOK, SilentInv, FirstInv, NEW i \in 1..Len(negs), NEW j \in 1..Len(negs), i < j,
         negs[j].offerer = "caller"
  PROVE  negs[i].offerer = "caller"
<1>1. Len(negs) \in Nat /\ negs[i] \in Document
  BY DEF TypeOK
<1>2. negs[i].offerer \in Roles
  BY <1>1 DEF Document
<1>3. PICK q \in Roles : client[q].toggles = 0 /\ \A n \in 2..Len(negs) : negs[n].offerer # q
  BY DEF SilentInv
<1>4. j \in 2..Len(negs)
  BY <1>1
<1>5. q = "callee"
  BY <1>3, <1>4 DEF Roles
<1>6. CASE i = 1
  BY <1>1, <1>4, <1>6 DEF FirstInv
<1>7. CASE i # 1
  <2>1. i \in 2..Len(negs)
    BY <1>1, <1>7
  <2> QED BY <1>2, <1>3, <1>5, <2>1 DEF Roles
<1> QED BY <1>6, <1>7

(* Both clients have come to the latest negotiation. *)
LEMMA AllButLatest ==
  ASSUME TypeOK, NegotiationInv, OneSideInv, NEW r \in Roles, NEW n \in 1..(Len(negs) - 1)
  PROVE  n <= client[r].processed /\ n <= Len(client[r].known)
<1>1. Len(negs) \in Nat /\ n \in 1..Len(negs) /\ negs[n] \in Document /\ n \in Nat
  BY DEF TypeOK
<1>2. negs[n].answer /\ negs[n].offer /\ negs[n].offerer \in Roles
  BY <1>1 DEF OneSideInv, FirstInv, NegotiationInv, DocsOK, Document
<1>3. OfferInv(n) /\ AnswerInv(n)
  BY <1>1 DEF OneSideInv, DocInv
<1>4. Sent(client[r], n)
  <2>1. r = negs[n].offerer \/ r = Opposite(negs[n].offerer)
    BY <1>2 DEF Opposite, Roles
  <2>2. Sent(client[negs[n].offerer], n) /\ Sent(client[Opposite(negs[n].offerer)], n)
    BY <1>2, <1>3 DEF OfferInv, AnswerInv
  <2> QED BY <2>1, <2>2
<1>5. client[r].processed \in 0..Len(client[r].known) /\ Len(client[r].known) \in Nat
  <2>1. client[r] \in Client /\ ClientInv(negs, r, client[r])
    BY DEF TypeOK, NegotiationInv
  <2> QED BY <2>1, Fields DEF ClientInv, TurnInv
<1>6. n <= client[r].processed
  BY <1>4 DEF Sent
<1> QED BY <1>1, <1>5, <1>6

(* A step that does not concern negotiation n *)
JobsOf(n) == {j \in Job : j.step \in {"forward", "send", "save"} /\ j.id = n}

Apart(n) ==
    /\ negs'[n] = negs[n]
    /\ \A r \in Roles : /\ Len(client[r].known) <= Len(client'[r].known)
                        /\ Sent(client'[r], n) <=> Sent(client[r], n)
                        /\ Waits(client'[r], n) <=> Waits(client[r], n)
    /\ \A j \in JobsOf(n) : (j \in Pending' <=> j \in Pending) /\ (j \in Alone => j \in Alone')
    /\ AnswerTo(negs[n].offerer, n) \in signals' <=> AnswerTo(negs[n].offerer, n) \in signals
    /\ \A r \in Roles :
         \/ n <= Len(client'[r].known)
         \/ /\ OfferTo(r, n) \in signals => OfferTo(r, n) \in signals'
            /\ Request(r, n) \in signals => Request(r, n) \in signals'
    /\ ~accepted \/ AcceptJob("initialOffer") \in Pending
         => ~accepted' \/ AcceptJob("initialOffer") \in Pending'

(* The jobs about a document, one by one *)
LEMMA TheJobs ==
  ASSUME NEW n \in Ids, NEW r \in Roles, NEW type \in {"offer", "answer"}
  PROVE  Saving(r, n, type) \in JobsOf(n) /\ Telling(r, n) \subseteq JobsOf(n)
<1>1. n \in 0..MaxNegotiations
  BY DEF Ids
<1> QED BY <1>1 DEF Saving, Telling, Do, JobsOf, Job

(* What is apart from a document keeps what the invariant says of it. *)
LEMMA ApartKeeps ==
  ASSUME TypeOK, NEW n \in 1..Len(negs), DocInv(n), Apart(n)
  PROVE  DocInv(n)'
<1> DEFINE o == negs[n].offerer
           a == Opposite(o)
<1>1. negs[n] \in Document /\ n \in Ids
  BY NegotiationAssumption DEF TypeOK, NegotiationAssumption, Ids
<1>2. o \in Roles /\ a \in Roles /\ negs'[n] = negs[n]
  BY <1>1 DEF Document, Opposite, Roles, Apart
<1>3. /\ Saving(o, n, "offer") \in JobsOf(n) /\ Saving(a, n, "answer") \in JobsOf(n)
      /\ Telling(o, n) \subseteq JobsOf(n) /\ Telling(a, n) \subseteq JobsOf(n)
  BY <1>1, <1>2, TheJobs
<1>4. /\ Sent(client'[o], n) <=> Sent(client[o], n)
      /\ Sent(client'[a], n) <=> Sent(client[a], n)
      /\ Waits(client'[o], n) <=> Waits(client[o], n)
      /\ n <= Len(client[o].known) => n <= Len(client'[o].known)
      /\ n <= Len(client[a].known) => n <= Len(client'[a].known)
  <2>1. \A r \in Roles : Len(client[r].known) \in Nat /\ Len(client[r].known) <= Len(client'[r].known)
    BY Fields DEF TypeOK, Apart
  <2>2. /\ Sent(client'[o], n) <=> Sent(client[o], n)
        /\ Sent(client'[a], n) <=> Sent(client[a], n)
        /\ Waits(client'[o], n) <=> Waits(client[o], n)
    BY <1>2 DEF Apart
  <2> QED BY <1>1, <1>2, <2>1, <2>2
<1>5. \A j \in JobsOf(n) : (j \in Pending' <=> j \in Pending) /\ (j \in Alone => j \in Alone')
  BY DEF Apart
<1>6. /\ AnswerTo(o, n) \in signals' <=> AnswerTo(o, n) \in signals
      /\ OfferTo(a, n) \in signals => OfferTo(a, n) \in signals' \/ n <= Len(client'[a].known)
      /\ Request(o, n) \in signals => Request(o, n) \in signals' \/ n <= Len(client'[o].known)
  BY <1>2 DEF Apart
<1> HIDE DEF a
<1>7. OfferInv(n)'
  <2>1. negs[n].offer \/ Saving(o, n, "offer") \in Pending <=> Sent(client[o], n)
    BY DEF DocInv, OfferInv
  <2>2. negs'[n].offer \/ Saving(o, n, "offer") \in Pending' <=> Sent(client'[o], n)
    BY <1>2, <1>3, <1>4, <1>5, <2>1
  <2> QED BY <1>2, <2>2 DEF OfferInv
<1>8. AnswerInv(n)'
  <2>1. /\ negs[n].answer \/ Saving(a, n, "answer") \in Pending <=> Sent(client[a], n)
        /\ Saving(a, n, "answer") \in Pending => ~negs[n].answer /\ Saving(a, n, "answer") \in Alone
    BY DEF DocInv, AnswerInv, a
  <2>2. /\ negs'[n].answer \/ Saving(a, n, "answer") \in Pending' <=> Sent(client'[a], n)
        /\ Saving(a, n, "answer") \in Pending' => ~negs'[n].answer /\ Saving(a, n, "answer") \in Alone'
    BY <1>2, <1>3, <1>4, <1>5, <2>1
  <2> QED BY <1>2, <2>2 DEF AnswerInv, a
<1>9. ReplyInv(n)'
  <2>1. ReplyInv(n)
    BY DEF DocInv
  <2>2. /\ \A j \in Telling(o, n) :
             j \in Pending' => /\ negs'[n].answer /\ Waits(client'[o], n) /\ j \in Alone'
                               /\ \A k \in Telling(o, n) : k \in Pending' => k = j
                               /\ AnswerTo(o, n) \notin signals'
        /\ AnswerTo(o, n) \in signals' => negs'[n].answer /\ Waits(client'[o], n)
        /\ negs'[n].answer /\ Waits(client'[o], n) =>
             AnswerTo(o, n) \in signals' \/ \E j \in Telling(o, n) : j \in Pending'
    BY <1>2, <1>3, <1>4, <1>5, <1>6, <2>1 DEF ReplyInv
  <2> QED BY <1>2, <2>2 DEF ReplyInv
<1>10. HearInv(n)'
  <2>1. /\ n <= Len(client[o].known) \/ Request(o, n) \in signals
        /\ negs[n].offer => \/ n <= Len(client[a].known) \/ OfferTo(a, n) \in signals
                            \/ \E j \in Telling(a, n) : j \in Pending
                            \/ a = "callee" /\ (~accepted \/ AcceptJob("initialOffer") \in Pending)
    BY DEF DocInv, HearInv, a
  <2>2. /\ n <= Len(client'[o].known) \/ Request(o, n) \in signals'
        /\ negs'[n].offer => \/ n <= Len(client'[a].known) \/ OfferTo(a, n) \in signals'
                             \/ \E j \in Telling(a, n) : j \in Pending'
                             \/ a = "callee" /\ (~accepted' \/ AcceptJob("initialOffer") \in Pending')
    <3>1. (\E j \in Telling(a, n) : j \in Pending) => \E j \in Telling(a, n) : j \in Pending'
      BY <1>3, <1>5
    <3>2. ~accepted \/ AcceptJob("initialOffer") \in Pending
            => ~accepted' \/ AcceptJob("initialOffer") \in Pending'
      BY DEF Apart
    <3> QED BY <1>2, <1>4, <1>6, <2>1, <3>1, <3>2
  <2> QED BY <1>2, <2>2 DEF HearInv, a
<1> QED BY <1>7, <1>8, <1>9, <1>10 DEF DocInv

-----------------------------------------------------------------------------
(* The steps of the clients keep the invariant. *)

(* What a client's step may add to the server's jobs *)
Adds(jobs) ==
    /\ Pending' = Pending \cup jobs
    /\ \A j \in Alone : j \notin jobs => j \in Alone'

(* A client step keeps what does not concern the documents. *)
LEMMA ClientKeeps ==
  ASSUME TypeOK, OneSideInv, NEW r \in Roles, NEW k, client' = [client EXCEPT ![r] = k],
         QueueInv(k), k.toggles = 0 => client[r].toggles = 0 /\ (Untouched(client[r]) => Untouched(k)),
         \E q \in Roles : client'[q].toggles = 0,
         r = "callee" /\ ~accepted => k.known = << >>,
         NEW jobs, Adds(jobs), signals' \subseteq signals, UNCHANGED <<accepted, negs>>,
         \A j \in jobs : \/ j.step = "needed" /\ j.role = r /\ client[r].toggles # 0
                         \/ j.step = "save" /\ (j.sdp = "offer" <=> j.role = negs[j.id].offerer)
  PROVE  /\ SilentInv' /\ FirstInv' /\ AcceptInv' /\ SaveInv'
         /\ \A q \in Roles : QueueInv(client'[q])
<1>1. \A q \in Roles : client'[q] = IF q = r THEN k ELSE client[q]
  BY DEF TypeOK
<1>2. SilentInv /\ FirstInv /\ AcceptInv /\ SaveInv /\ \A q \in Roles : QueueInv(client[q])
  BY DEF OneSideInv
<1>3. negs' = negs /\ accepted' = accepted /\ Pending' = Pending \cup jobs /\ Pending \subseteq Pending'
  BY DEF Adds
<1>4. \A q \in Roles : QueueInv(client'[q])
  BY <1>1, <1>2
<1>5. SilentInv'
  <2>1. ASSUME NEW q \in Roles, client'[q].toggles = 0
        PROVE  /\ Untouched(client'[q]) /\ (\A j \in Requests' : j.role # q)
               /\ \A n \in 2..Len(negs') : negs'[n].offerer # q
    <3>1. client[q].toggles = 0
      BY <1>1, <2>1
    <3>2. /\ Untouched(client[q]) /\ (\A j \in Requests : j.role # q)
          /\ \A n \in 2..Len(negs) : negs[n].offerer # q
      BY <1>2, <3>1 DEF SilentInv
    <3>3. Untouched(client'[q])
      BY <1>1, <2>1, <3>2
    <3>4. ASSUME NEW j \in Requests' PROVE j.role # q
      <4>1. j \in Pending' /\ j.step \in {"needed", "start"}
        BY DEF Requests
      <4>2. CASE j \in Pending
        BY <3>2, <4>1, <4>2 DEF Requests
      <4>3. CASE j \in jobs
        BY <3>1, <4>1, <4>3
      <4> QED BY <1>3, <4>1, <4>2, <4>3
    <3> QED BY <1>3, <3>2, <3>3, <3>4
  <2>2. SilentInv' <=> /\ \E q \in Roles : client'[q].toggles = 0
                       /\ \A q \in Roles :
                            client'[q].toggles = 0 => /\ Untouched(client'[q])
                                                      /\ \A j \in Requests' : j.role # q
                                                      /\ \A n \in 2..Len(negs') : negs'[n].offerer # q
    BY DEF SilentInv
  <2> QED BY <2>1, <2>2
<1>6. FirstInv'
  <2>1. Firsts' = Firsts
    BY <1>3 DEF Firsts
  <2>2. \A j \in Firsts : j \in Alone => j \in Alone'
    BY DEF Firsts, Adds
  <2>3. \A j \in Pending' : j.step = "start" => j \in Pending
    BY <1>3
  <2> QED BY <1>2, <1>3, <2>1, <2>2, <2>3 DEF FirstInv, Latest
<1>7. AcceptInv'
  <2>1. \A j \in Pending' : j \in Pending \/ j.step \in {"needed", "save"}
    BY <1>3
  <2>2. ~accepted => client'["callee"].known = << >>
    BY <1>1, <1>2 DEF AcceptInv, Roles
  <2> QED BY <1>2, <1>3, <2>1, <2>2 DEF AcceptInv
<1>8. SaveInv'
  <2>1. \A j \in Pending' : j \in Pending \/ j \in jobs
    BY <1>3
  <2> QED BY <1>2, <1>3, <2>1 DEF SaveInv
<1> QED BY <1>4, <1>5, <1>6, <1>7, <1>8

(* It does not concern the negotiations of which it sends and receives     *)
(* nothing.                                                                *)
LEMMA ClientApart ==
  ASSUME TypeOK, NEW n \in 1..Len(negs), NEW r \in Roles, NEW k, client' = [client EXCEPT ![r] = k],
         Len(client[r].known) <= Len(k.known),
         Sent(k, n) <=> Sent(client[r], n), Waits(k, n) <=> Waits(client[r], n),
         NEW jobs, Adds(jobs), \A j \in jobs : j \notin JobsOf(n) /\ j.step \in {"needed", "save"},
         signals' \subseteq signals,
         \A s \in signals : s.id = n =>
             \/ s \in signals'
             \/ IF s.type = "answer" THEN s.to # negs[n].offerer
                                     ELSE s.to = r /\ n <= Len(k.known),
         UNCHANGED <<accepted, negs>>
  PROVE  Apart(n)
<1>1. \A q \in Roles : client'[q] = IF q = r THEN k ELSE client[q]
  BY DEF TypeOK
<1>2. \A q \in Roles : Len(client[q].known) <= Len(client[q].known)
  <2>1. \A q \in Roles : Len(client[q].known) \in Nat
    BY Fields DEF TypeOK
  <2> QED BY <2>1
<1>3. \A q \in Roles : /\ Len(client[q].known) <= Len(client'[q].known)
                       /\ Sent(client'[q], n) <=> Sent(client[q], n)
                       /\ Waits(client'[q], n) <=> Waits(client[q], n)
  BY <1>1, <1>2
<1>4. Pending' = Pending \cup jobs /\ \A j \in Alone : j \notin jobs => j \in Alone'
  BY DEF Adds
<1>5. \A j \in JobsOf(n) : (j \in Pending' <=> j \in Pending) /\ (j \in Alone => j \in Alone')
  BY <1>4
<1>6. AnswerTo(negs[n].offerer, n) \in signals' <=> AnswerTo(negs[n].offerer, n) \in signals
  BY DEF AnswerTo
<1>8. ASSUME NEW q \in Roles
      PROVE  \/ n <= Len(client'[q].known)
             \/ /\ OfferTo(q, n) \in signals => OfferTo(q, n) \in signals'
                /\ Request(q, n) \in signals => Request(q, n) \in signals'
  <2>1. /\ OfferTo(q, n).type = "offer" /\ OfferTo(q, n).to = q /\ OfferTo(q, n).id = n
        /\ Request(q, n).type = "request-offer" /\ Request(q, n).to = q /\ Request(q, n).id = n
    BY DEF OfferTo, Request
  <2>2. CASE OfferTo(q, n) \in signals /\ OfferTo(q, n) \notin signals'
    BY <1>1, <2>1, <2>2
  <2>3. CASE Request(q, n) \in signals /\ Request(q, n) \notin signals'
    BY <1>1, <2>1, <2>3
  <2> QED BY <2>2, <2>3
<1>7. ~accepted \/ AcceptJob("initialOffer") \in Pending
         => ~accepted' \/ AcceptJob("initialOffer") \in Pending'
  BY <1>4
<1> QED BY <1>3, <1>5, <1>6, <1>7, <1>8 DEF Apart

(* A step that adds no job *)
LEMMA NothingAdded ==
  ASSUME server' = server PROVE Adds({})
BY DEF Adds, Pending, Alone

(* A step that adds one *)
LEMMA OneAdded ==
  ASSUME TypeOK, NEW j, server' = server (+) SetToBag({j}) PROVE Adds({j})
BY JobAdded DEF Adds

(* Before the callee accepts, its client has heard of nothing. *)
LEMMA CalleeWaits ==
  ASSUME TypeOK, NegotiationInv, OneSideInv, ~accepted
  PROVE  /\ client["callee"].known = << >> /\ Len(client["callee"].known) = 0
         /\ client["callee"].processed = 0 /\ client["callee"].current = 0
         /\ \A n \in 1..Len(negs) : ~Sent(client["callee"], n) /\ ~Waits(client["callee"], n)
<1>1. client["callee"].known = << >> /\ Len(client["callee"].known) = 0
  BY DEF OneSideInv, AcceptInv
<1>2. client["callee"] \in Client /\ TurnInv(client["callee"])
  BY DEF TypeOK, NegotiationInv, ClientInv, Roles
<1>3. client["callee"].processed = 0 /\ client["callee"].current = 0
  BY <1>1, <1>2 DEF TurnInv
<1> QED BY <1>1, <1>3 DEF Sent, Waits

(* Steps of a client that neither send nor receive *)
LEMMA QuietKeeps ==
  ASSUME TypeOK, OneSideInv, NEW r \in Roles, NEW k, client' = [client EXCEPT ![r] = k],
         QueueInv(k), SameView(k, client[r]), k.known = client[r].known,
         k.toggles = 0 => client[r].toggles = 0 /\ (Untouched(client[r]) => Untouched(k)),
         \E q \in Roles : client'[q].toggles = 0,
         NEW jobs, Adds(jobs), UNCHANGED <<accepted, negs, signals>>,
         \A j \in jobs : j.step = "needed" /\ j.role = r /\ client[r].toggles # 0
  PROVE  OneSideInv'
<1>1. r = "callee" /\ ~accepted => k.known = << >>
  BY DEF OneSideInv, AcceptInv
<1>2. /\ SilentInv' /\ FirstInv' /\ AcceptInv' /\ SaveInv'
      /\ \A q \in Roles : QueueInv(client'[q])
  BY <1>1, ClientKeeps
<1>3. ASSUME NEW n \in 1..Len(negs) PROVE DocInv(n)'
  <2>1. DocInv(n) /\ n \in Ids
    BY NegotiationAssumption DEF OneSideInv, TypeOK, NegotiationAssumption, Ids
  <2>2. \A j \in jobs : j \notin JobsOf(n) /\ j.step \in {"needed", "save"}
    BY DEF JobsOf
  <2>3. Len(client[r].known) <= Len(k.known)
    <3>1. Len(client[r].known) \in Nat
      BY Fields DEF TypeOK
    <3> QED BY <3>1
  <2>4. Apart(n)
    BY <2>1, <2>2, <2>3, ClientApart DEF SameView
  <2> QED BY <2>1, <2>4, ApartKeeps
<1>4. \A n \in 1..Len(negs') : DocInv(n)'
  BY <1>3
<1> QED BY <1>2, <1>4 DEF OneSideInv

(* A client that moves on, and asks for another negotiation at most, keeps *)
(* the invariant.                                                          *)
LEMMA MovesKeep ==
  ASSUME TypeOK, OneSideInv, NEW r \in Roles,
         \E k : Moves(k, client[r]) /\ client' = [client EXCEPT ![r] = k],
         NEW jobs, Adds(jobs), UNCHANGED <<accepted, negs, signals>>,
         \A j \in jobs : j.step = "needed" /\ j.role = r /\ client[r].toggles # 0
  PROVE  OneSideInv' /\ \A q \in Roles : client[q].agreed <= client'[q].agreed
<1>1. PICK k : Moves(k, client[r]) /\ client' = [client EXCEPT ![r] = k]
  OBVIOUS
<1>2. \A q \in Roles : client'[q] = IF q = r THEN k ELSE client[q]
  BY <1>1 DEF TypeOK
<1>3. \E q \in Roles : client'[q].toggles = 0
  <2>1. PICK q \in Roles : client[q].toggles = 0
    BY DEF OneSideInv, SilentInv
  <2>2. k.toggles = client[r].toggles
    BY <1>1 DEF Moves
  <2> QED BY <1>2, <2>1, <2>2
<1>4. OneSideInv'
  BY <1>1, <1>3, QuietKeeps DEF Moves
<1>5. \A q \in Roles : client[q].agreed <= client[q].agreed
  <2>1. \A q \in Roles : client[q].agreed \in 0..MaxNegotiations
    BY Fields DEF TypeOK
  <2> QED BY <2>1, NegotiationAssumption DEF NegotiationAssumption
<1>6. client[r].agreed <= k.agreed
  BY <1>1 DEF Moves
<1> QED BY <1>2, <1>4, <1>5, <1>6

(* So does one whose user holds, *)
LEMMA SetHeldKeeps ==
  ASSUME ~Together, TypeOK, OneSideInv, NEW r \in Roles, SetHeld(r)
  PROVE  OneSideInv' /\ \A q \in Roles : client[q].agreed <= client'[q].agreed
<1>1. QueueInv(client[r])
  BY DEF OneSideInv
<1>2. PICK k : /\ client' = [client EXCEPT ![r] = k]
               /\ QueueInv(k) /\ SameView(k, client[r]) /\ k.known = client[r].known
               /\ k.agreed = client[r].agreed /\ k.toggles # 0
  BY <1>1, SetHeldMoves
<1>3. UNCHANGED <<accepted, negs, server, signals>> /\ client[Opposite(r)].toggles = 0
  BY DEF SetHeld
<1>4. \A q \in Roles : client'[q] = IF q = r THEN k ELSE client[q]
  BY <1>2 DEF TypeOK
<1>5. \E q \in Roles : client'[q].toggles = 0
  <2>1. Opposite(r) \in Roles /\ Opposite(r) # r
    BY DEF Opposite, Roles
  <2> QED BY <1>3, <1>4, <2>1
<1>6. Adds({})
  BY <1>3, NothingAdded
<1>7. OneSideInv'
  BY <1>2, <1>3, <1>5, <1>6, QuietKeeps
<1>8. \A q \in Roles : client[q].agreed <= client[q].agreed
  <2>1. \A q \in Roles : client[q].agreed \in 0..MaxNegotiations
    BY Fields DEF TypeOK
  <2> QED BY <2>1, NegotiationAssumption DEF NegotiationAssumption
<1> QED BY <1>2, <1>4, <1>7, <1>8

(* and one that asks for another negotiation. *)
LEMMA AskKeeps ==
  ASSUME TypeOK, OneSideInv, NEW r \in Roles, AskForNegotiation(r)
  PROVE  OneSideInv' /\ \A q \in Roles : client[q].agreed <= client'[q].agreed
<1>1. QueueInv(client[r])
  BY DEF OneSideInv
<1>2. /\ \E k : Moves(k, client[r]) /\ client' = [client EXCEPT ![r] = k]
      /\ ~Untouched(client[r])
      /\ server' = server \/ \E n : server' = server (+) SetToBag({Do("needed", r, n)})
      /\ UNCHANGED <<accepted, negs, signals>>
  BY <1>1, AskMoves
<1>3. client[r].toggles # 0
  BY <1>2 DEF OneSideInv, SilentInv
<1>4. CASE server' = server
  <2>1. Adds({})
    BY <1>4, NothingAdded
  <2> QED BY <1>2, <2>1, MovesKeep
<1>5. ASSUME NEW n, server' = server (+) SetToBag({Do("needed", r, n)})
      PROVE  OneSideInv' /\ \A q \in Roles : client[q].agreed <= client'[q].agreed
  <2>1. Adds({Do("needed", r, n)})
    BY <1>5, OneAdded
  <2>2. \A j \in {Do("needed", r, n)} : j.step = "needed" /\ j.role = r /\ client[r].toggles # 0
    BY <1>3 DEF Do
  <2> QED BY <1>2, <2>1, <2>2, MovesKeep
<1> QED BY <1>2, <1>4, <1>5

(* Candidates are gathered: the description is on its way. *)
LEMMA GatheredKeeps ==
  ASSUME TypeOK, NegotiationInv, OneSideInv, NEW r \in Roles, NEW i \in Ids, Gathered(r, i)
  PROVE  OneSideInv' /\ \A q \in Roles : client[q].agreed <= client'[q].agreed
<1> DEFINE m == client[r]
           type == IF m.known[i].remote THEN "answer" ELSE "offer"
           j == Saving(r, i, type)
<1>1. QueueInv(m) /\ m \in Client /\ KnownInv(negs, r, m)
  BY DEF OneSideInv, TypeOK, NegotiationInv, ClientInv
<1>2. /\ \E k : /\ client' = [client EXCEPT ![r] = k]
                /\ QueueInv(k) /\ k.known = m.known /\ k.agreed = m.agreed
                /\ k.toggles = m.toggles /\ (Untouched(m) => Untouched(k))
                /\ Sent(k, i)
                /\ \A n \in Ids : n # i => (Sent(k, n) <=> Sent(m, n)) /\ (Waits(k, n) <=> Waits(m, n))
      /\ ~Sent(m, i) /\ ~Waits(m, i) /\ i \in 1..Len(m.known)
      /\ m.known[i].remote \in BOOLEAN
      /\ server' = server (+) SetToBag({j})
      /\ UNCHANGED <<accepted, negs, signals>>
  BY <1>1, GatheredMoves
<1>3. PICK k : /\ client' = [client EXCEPT ![r] = k]
               /\ QueueInv(k) /\ k.known = m.known /\ k.agreed = m.agreed
               /\ k.toggles = m.toggles /\ (Untouched(m) => Untouched(k))
               /\ Sent(k, i)
               /\ \A n \in Ids : n # i => (Sent(k, n) <=> Sent(m, n)) /\ (Waits(k, n) <=> Waits(m, n))
  BY <1>2
<1>4. \A q \in Roles : client'[q] = IF q = r THEN k ELSE client[q]
  BY <1>3 DEF TypeOK
<1>5. m.known[i].id = i /\ i \in 1..Len(negs) /\ (m.known[i].remote <=> negs[i].offerer # r)
  BY <1>1, <1>2 DEF QueueInv, KnownInv
<1>6. j.step = "save" /\ j.role = r /\ j.id = i /\ j.sdp = type
      /\ (type = "offer" <=> r = negs[i].offerer)
  BY <1>2, <1>5 DEF Saving
<1>7. Adds({j}) /\ Pending' = Pending \cup {j} /\ (j \notin Pending => j \in Alone')
  BY <1>2, JobAdded DEF Adds
<1> DEFINE o == negs[i].offerer
           a == Opposite(o)
<1>8. negs[i] \in Document /\ o \in Roles /\ a \in Roles /\ a # o /\ (r = o \/ r = a)
      /\ (negs[i].answer => negs[i].offer)
  <2>1. negs[i] \in Document /\ (negs[i].answer => negs[i].offer)
    BY <1>5 DEF NegotiationInv, DocsOK
  <2>2. o \in Roles
    BY <2>1 DEF Document
  <2> QED BY <2>1, <2>2 DEF Opposite, Roles
<1> HIDE DEF m, j, type
<1>9. /\ SilentInv' /\ FirstInv' /\ AcceptInv' /\ SaveInv'
      /\ \A q \in Roles : QueueInv(client'[q])
  <2>1. \E q \in Roles : client'[q].toggles = 0
    <3>1. PICK q \in Roles : client[q].toggles = 0
      BY DEF OneSideInv, SilentInv
    <3> QED BY <1>3, <1>4, <3>1 DEF m
  <2>2. r = "callee" /\ ~accepted => k.known = << >>
    BY <1>3 DEF OneSideInv, AcceptInv, m
  <2>3. k.toggles = 0 => client[r].toggles = 0 /\ (Untouched(client[r]) => Untouched(k))
    BY <1>3 DEF m
  <2>4. \A x \in {j} : x.step = "save" /\ (x.sdp = "offer" <=> x.role = negs[x.id].offerer)
    BY <1>6
  <2> QED BY <1>2, <1>3, <1>7, <2>1, <2>2, <2>3, <2>4, ClientKeeps
<1>10. ASSUME NEW n \in 1..Len(negs), n # i PROVE DocInv(n)'
  <2>1. DocInv(n) /\ n \in Ids
    BY NegotiationAssumption DEF OneSideInv, TypeOK, NegotiationAssumption, Ids
  <2>2. \A x \in {j} : x \notin JobsOf(n) /\ x.step \in {"needed", "save"}
    BY <1>6, <1>10 DEF JobsOf
  <2>3. Len(m.known) <= Len(k.known)
    <3>1. Len(m.known) \in Nat
      BY <1>1, Fields
    <3> QED BY <1>3, <3>1
  <2>4. (Sent(k, n) <=> Sent(m, n)) /\ (Waits(k, n) <=> Waits(m, n))
    BY <1>3, <1>10, <2>1
  <2>5. Apart(n)
    BY <1>2, <1>3, <1>7, <2>1, <2>2, <2>3, <2>4, ClientApart DEF m
  <2> QED BY <2>1, <2>5, ApartKeeps
<1>11. DocInv(i)'
  <2>1. OfferInv(i) /\ AnswerInv(i) /\ ReplyInv(i) /\ HearInv(i)
    BY <1>5 DEF OneSideInv, DocInv
  <2>2. /\ \A x \in Telling(o, i) \cup Telling(a, i) :
             (x \in Pending' <=> x \in Pending) /\ (x \in Alone => x \in Alone')
        /\ \A q \in Roles : i <= Len(client[q].known) => i <= Len(client'[q].known)
    <3>1. \A x \in Telling(o, i) \cup Telling(a, i) : x # j
      BY <1>6 DEF Telling, Do
    <3>2. \A q \in Roles : client'[q].known = client[q].known
      BY <1>3, <1>4 DEF m
    <3> QED BY <1>7, <3>1, <3>2 DEF Adds
  <2>3. negs' = negs /\ signals' = signals /\ accepted' = accepted
        /\ (AcceptJob("initialOffer") \in Pending => AcceptJob("initialOffer") \in Pending')
    BY <1>2, <1>7
  <2> HIDE DEF a
  <2>4. HearInv(i)'
    <3>1. /\ i <= Len(client[o].known) \/ Request(o, i) \in signals
          /\ negs[i].offer => \/ i <= Len(client[a].known) \/ OfferTo(a, i) \in signals
                              \/ \E x \in Telling(a, i) : x \in Pending
                              \/ a = "callee" /\ (~accepted \/ AcceptJob("initialOffer") \in Pending)
      BY <2>1 DEF HearInv, a
    <3>2. /\ i <= Len(client'[o].known) \/ Request(o, i) \in signals'
          /\ negs'[i].offer => \/ i <= Len(client'[a].known) \/ OfferTo(a, i) \in signals'
                               \/ \E x \in Telling(a, i) : x \in Pending'
                               \/ a = "callee" /\ (~accepted' \/ AcceptJob("initialOffer") \in Pending')
      BY <1>8, <2>2, <2>3, <3>1
    <3> QED BY <2>3, <3>2 DEF HearInv, a
  <2>5. CASE r = o
    <3>1. ~negs[i].offer /\ ~negs[i].answer /\ j = Saving(o, i, "offer") /\ a # r
      BY <1>2, <1>6, <1>8, <2>1, <2>5 DEF OfferInv, m, j
    <3>2. j # Saving(a, i, "answer")
      BY <1>6, <3>1 DEF Saving
    <3>3. OfferInv(i)'
      <4>1. Saving(o, i, "offer") \in Pending' /\ Sent(client'[o], i)
        BY <1>3, <1>4, <1>7, <1>8, <2>5, <3>1
      <4> QED BY <2>3, <4>1 DEF OfferInv
    <3>4. AnswerInv(i)'
      <4>1. /\ negs[i].answer \/ Saving(a, i, "answer") \in Pending <=> Sent(client[a], i)
            /\ Saving(a, i, "answer") \in Pending => ~negs[i].answer /\ Saving(a, i, "answer") \in Alone
        BY <2>1 DEF AnswerInv, a
      <4>2. /\ negs'[i].answer \/ Saving(a, i, "answer") \in Pending' <=> Sent(client'[a], i)
            /\ Saving(a, i, "answer") \in Pending' => ~negs'[i].answer /\ Saving(a, i, "answer") \in Alone'
        BY <1>4, <1>7, <1>8, <2>3, <3>1, <3>2, <4>1 DEF Adds
      <4> QED BY <2>3, <4>2 DEF AnswerInv, a
    <3>5. ReplyInv(i)'
      <4>1. /\ \A x \in Telling(o, i) : x \notin Pending'
            /\ AnswerTo(o, i) \notin signals' /\ ~negs'[i].answer
        BY <2>1, <2>2, <2>3, <3>1 DEF ReplyInv
      <4> QED BY <2>3, <4>1 DEF ReplyInv
    <3> QED BY <2>4, <3>3, <3>4, <3>5 DEF DocInv
  <2>6. CASE r = a
    <3>1. ~negs[i].answer /\ j \notin Pending /\ j = Saving(a, i, "answer") /\ o # r
      <4>1. j = Saving(a, i, "answer") /\ o # r
        BY <1>6, <1>8, <2>6 DEF j, type, Saving
      <4>2. negs[i].answer \/ Saving(a, i, "answer") \in Pending <=> Sent(client[a], i)
        BY <2>1 DEF AnswerInv, a
      <4> QED BY <1>2, <2>6, <4>1, <4>2 DEF m
    <3>2. j # Saving(o, i, "offer")
      BY <1>6, <3>1 DEF Saving
    <3>3. OfferInv(i)'
      <4>1. negs[i].offer \/ Saving(o, i, "offer") \in Pending <=> Sent(client[o], i)
        BY <2>1 DEF OfferInv
      <4>2. negs'[i].offer \/ Saving(o, i, "offer") \in Pending' <=> Sent(client'[o], i)
        BY <1>4, <1>7, <1>8, <2>3, <3>1, <3>2, <4>1
      <4> QED BY <2>3, <4>2 DEF OfferInv
    <3>4. AnswerInv(i)'
      <4>1. Saving(a, i, "answer") \in Pending' /\ Saving(a, i, "answer") \in Alone'
            /\ Sent(client'[a], i) /\ ~negs'[i].answer
        BY <1>3, <1>4, <1>7, <1>8, <2>3, <2>6, <3>1
      <4> QED BY <2>3, <4>1 DEF AnswerInv, a
    <3>5. ReplyInv(i)'
      <4>1. client'[o] = client[o]
        BY <1>4, <1>8, <3>1
      <4>2. /\ \A x \in Telling(o, i) :
                 x \in Pending' => /\ negs'[i].answer /\ Waits(client'[o], i) /\ x \in Alone'
                                   /\ \A y \in Telling(o, i) : y \in Pending' => y = x
                                   /\ AnswerTo(o, i) \notin signals'
            /\ AnswerTo(o, i) \in signals' => negs'[i].answer /\ Waits(client'[o], i)
            /\ negs'[i].answer /\ Waits(client'[o], i) =>
                 AnswerTo(o, i) \in signals' \/ \E x \in Telling(o, i) : x \in Pending'
        BY <2>1, <2>2, <2>3, <3>1, <4>1 DEF ReplyInv
      <4> QED BY <2>3, <4>2 DEF ReplyInv
    <3> QED BY <2>4, <3>3, <3>4, <3>5 DEF DocInv
  <2> QED BY <1>8, <2>5, <2>6
<1>12. \A n \in 1..Len(negs') : DocInv(n)'
  BY <1>2, <1>10, <1>11
<1>13. \A q \in Roles : client[q].agreed <= client[q].agreed
  <2>1. \A q \in Roles : client[q].agreed \in 0..MaxNegotiations
    BY Fields DEF TypeOK
  <2> QED BY <2>1, NegotiationAssumption DEF NegotiationAssumption
<1>14. \A q \in Roles : client[q].agreed <= client'[q].agreed
  BY <1>3, <1>4, <1>13 DEF m
<1> QED BY <1>9, <1>12, <1>14 DEF OneSideInv

(* A signal that leaves the client as busy as it was *)
LEMMA ReceivedKeeps ==
  ASSUME TypeOK, NegotiationInv, OneSideInv, NEW s \in signals, NEW k,
         s.to \in Roles, client' = [client EXCEPT ![s.to] = k],
         QueueInv(k), k.agreed = client[s.to].agreed, SameUser(k, client[s.to]),
         Len(client[s.to].known) <= Len(k.known),
         s.to = "callee" /\ ~accepted => k.known = << >>,
         NEW except, except \subseteq {s.id},
         \A n \in Ids : n \notin except =>
             (Sent(k, n) <=> Sent(client[s.to], n)) /\ (Waits(k, n) <=> Waits(client[s.to], n)),
         IF s.type = "answer" THEN s.id \in except \/ s.to # negs[s.id].offerer
                              ELSE s.id <= Len(k.known),
         \A n \in except \cap (1..Len(negs)) : DocInv(n)',
         signals' = signals \ {s}, UNCHANGED <<accepted, negs, server>>
  PROVE  OneSideInv' /\ \A q \in Roles : client[q].agreed <= client'[q].agreed
<1> DEFINE r == s.to
           m == client[r]
<1>1. \A q \in Roles : client'[q] = IF q = r THEN k ELSE client[q]
  BY DEF TypeOK
<1>2. Adds({})
  BY NothingAdded
<1>3. /\ SilentInv' /\ FirstInv' /\ AcceptInv' /\ SaveInv'
      /\ \A q \in Roles : QueueInv(client'[q])
  <2>1. \E q \in Roles : client'[q].toggles = 0
    <3>1. PICK q \in Roles : client[q].toggles = 0
      BY DEF OneSideInv, SilentInv
    <3> QED BY <1>1, <3>1 DEF SameUser
  <2>2. k.toggles = 0 => client[r].toggles = 0 /\ (Untouched(client[r]) => Untouched(k))
    BY DEF SameUser, Untouched
  <2>3. signals' \subseteq signals
    OBVIOUS
  <2> HIDE DEF r
  <2>4. /\ r \in Roles /\ client' = [client EXCEPT ![r] = k] /\ UNCHANGED <<accepted, negs>>
        /\ (r = "callee" /\ ~accepted => k.known = << >>)
    BY DEF r
  <2>5. \A x \in {} : \/ x.step = "needed" /\ x.role = r /\ client[r].toggles # 0
                      \/ x.step = "save" /\ (x.sdp = "offer" <=> x.role = negs[x.id].offerer)
    OBVIOUS
  <2> QED BY <1>2, <2>1, <2>2, <2>3, <2>4, <2>5, ClientKeeps
<1>4. ASSUME NEW n \in 1..Len(negs), n \notin except PROVE DocInv(n)'
  <2>1. DocInv(n) /\ n \in Ids
    BY NegotiationAssumption DEF OneSideInv, TypeOK, NegotiationAssumption, Ids
  <2>2. (Sent(k, n) <=> Sent(m, n)) /\ (Waits(k, n) <=> Waits(m, n))
    BY <1>4, <2>1
  <2>3. \A x \in signals : x.id = n =>
             \/ x \in signals'
             \/ IF x.type = "answer" THEN x.to # negs[n].offerer
                                     ELSE x.to = r /\ n <= Len(k.known)
    <3> SUFFICES ASSUME s.id = n
                 PROVE IF s.type = "answer" THEN s.to # negs[n].offerer
                                            ELSE s.to = r /\ n <= Len(k.known)
      OBVIOUS
    <3> QED BY <1>4
  <2>4. \A x \in {} : x \notin JobsOf(n) /\ x.step \in {"needed", "save"}
    OBVIOUS
  <2>5. signals' \subseteq signals
    OBVIOUS
  <2> HIDE DEF r
  <2>6. r \in Roles /\ client' = [client EXCEPT ![r] = k] /\ Len(client[r].known) <= Len(k.known)
        /\ UNCHANGED <<accepted, negs>>
    BY DEF r
  <2>7. Apart(n)
    BY <1>2, <2>2, <2>3, <2>4, <2>5, <2>6, ClientApart
  <2> QED BY <2>1, <2>7, ApartKeeps
<1>5. \A n \in 1..Len(negs') : DocInv(n)'
  BY <1>4
<1>6. \A q \in Roles : client[q].agreed <= client[q].agreed
  <2>1. \A q \in Roles : client[q].agreed \in 0..MaxNegotiations
    BY Fields DEF TypeOK
  <2> QED BY <2>1, NegotiationAssumption DEF NegotiationAssumption
<1>7. \A q \in Roles : client[q].agreed <= client'[q].agreed
  BY <1>1, <1>6
<1> QED BY <1>3, <1>5, <1>7 DEF OneSideInv

(* A signal that says nothing new leaves the client alone. *)
LEMMA HeardKeeps ==
  ASSUME TypeOK, NegotiationInv, OneSideInv, NEW s \in signals, NEW k,
         s.to \in Roles, client' = [client EXCEPT ![s.to] = k],
         QueueInv(k), k.agreed = client[s.to].agreed, SameUser(k, client[s.to]),
         Len(client[s.to].known) <= Len(k.known),
         s.to = "callee" /\ ~accepted => k.known = << >>, SameView(k, client[s.to]),
         IF s.type = "answer" THEN s.to # negs[s.id].offerer ELSE s.id <= Len(k.known),
         signals' = signals \ {s}, UNCHANGED <<accepted, negs, server>>
  PROVE  OneSideInv' /\ \A q \in Roles : client[q].agreed <= client'[q].agreed
<1> DEFINE except == {}
<1>1. except \subseteq {s.id} /\ \A n \in except \cap (1..Len(negs)) : DocInv(n)'
  OBVIOUS
<1>2. \A n \in Ids : n \notin except =>
             (Sent(k, n) <=> Sent(client[s.to], n)) /\ (Waits(k, n) <=> Waits(client[s.to], n))
  BY DEF SameView
<1>3. IF s.type = "answer" THEN s.id \in except \/ s.to # negs[s.id].offerer
                           ELSE s.id <= Len(k.known)
  OBVIOUS
<1> HIDE DEF except
<1> QED BY <1>1, <1>2, <1>3, ReceivedKeeps

(* A signal is received. *)
LEMMA ReceiveKeeps ==
  ASSUME TypeOK, NegotiationInv, OneSideInv, NEW s \in signals, Receive(s)
  PROVE  OneSideInv' /\ \A q \in Roles : client[q].agreed <= client'[q].agreed
<1> DEFINE r == s.to
           m == client[r]
           id == s.id
<1>1. s \in Signal /\ SignalInv(negs, s)
  BY DEF TypeOK, NegotiationInv
<1>2. /\ r \in Roles /\ s.type \in {"request-offer", "offer", "answer"} /\ id \in 1..Len(negs)
      /\ s = [type |-> s.type, to |-> r, id |-> id]
  BY <1>1 DEF Signal, SignalInv
<1>3. m \in Client /\ QueueInv(m) /\ KnownInv(negs, r, m) /\ DocsOK(negs) /\ TurnInv(m)
  BY <1>2 DEF TypeOK, NegotiationInv, ClientInv, OneSideInv
<1>4. /\ signals' = signals \ {s} /\ UNCHANGED <<accepted, negs, server>>
      /\ client' = [client EXCEPT ![r] =
           IF s.type = "answer" THEN SetRemoteAnswer(m, id)
                                ELSE AddNegotiation(r, m, id, s.type = "offer")]
  BY DEF Receive
<1>5. /\ id \in Ids /\ Len(negs) \in Nat /\ Len(m.known) \in Nat
      /\ Len(m.known) <= Len(negs) /\ Len(m.known) <= Len(m.known)
  <2>1. id \in Ids /\ Len(negs) \in Nat
    BY <1>2, <1>3, NegotiationAssumption DEF DocsOK, NegotiationAssumption, Ids
  <2>2. Len(m.known) \in Nat /\ Len(m.known) <= Len(negs)
    BY <1>2, <1>3, Fields, KnownFit
  <2> QED BY <2>1, <2>2
<1>6. r = "callee" /\ ~accepted => m.known = << >>
  BY DEF OneSideInv, AcceptInv
<1>7. SameUser(m, m) /\ SameView(m, m)
  BY DEF SameUser, SameView
<1>8. DocInv(id)
  BY <1>2 DEF OneSideInv
<1>9. negs[id].offerer \in Roles /\ Opposite(negs[id].offerer) \in Roles
      /\ Opposite(negs[id].offerer) # negs[id].offerer
  <2>1. negs[id] \in Document
    BY <1>2, <1>3 DEF DocsOK
  <2> QED BY <2>1 DEF Document, Opposite, Roles
<1> HIDE DEF m, r, id
<1> USE <1>4
<1>10. CASE s.type = "answer" /\ Waits(m, id)
  <2> DEFINE k == SetRemoteAnswer(m, id)
             o == negs[id].offerer
             a == Opposite(o)
  <2>1. /\ QueueInv(k) /\ k.known = m.known /\ k.agreed = m.agreed /\ SameUser(k, m)
        /\ \A n \in Ids : (Sent(k, n) <=> Sent(m, n)) /\ ~Waits(k, n) /\ (n # id => ~Waits(m, n))
    BY <1>3, <1>5, <1>10, AnswerMoves
  <2> HIDE DEF k
  <2>2. client' = [client EXCEPT ![r] = k]
    BY <1>10 DEF k
  <2>3. \A q \in Roles : client'[q] = IF q = r THEN k ELSE client[q]
    BY <2>2 DEF TypeOK
  <2>4. o = r
    <3>1. m.current = id /\ Awaiting(m) /\ id # 0
      BY <1>5, <1>10, NegotiationAssumption DEF Waits, Ids, NegotiationAssumption
    <3>2. Working(m) /\ id \in 1..Len(m.known) /\ m.known[id].id = id /\ m.known[id].remote \in BOOLEAN
      BY <1>3, <3>1, Busy
    <3>3. ~Answering(m)
      BY <3>1 DEF Awaiting, Answering, Doing, Collecting
    <3>4. ~m.known[id].remote
      BY <3>1, <3>2, <3>3 DEF Working
    <3> QED BY <1>3, <3>2, <3>4 DEF KnownInv
  <2>5. s = AnswerTo(o, id)
    BY <1>2, <1>10, <2>4 DEF AnswerTo
  <2>6. negs' = negs /\ Pending' = Pending /\ Alone' = Alone /\ accepted' = accepted
    BY DEF Pending, Alone
  <2>7. OfferInv(id) /\ AnswerInv(id) /\ ReplyInv(id) /\ HearInv(id)
    BY <1>8 DEF DocInv
  <2>8. /\ \A q \in Roles : (Sent(client'[q], id) <=> Sent(client[q], id))
        /\ \A q \in Roles : client'[q].known = client[q].known
    BY <1>5, <2>1, <2>3 DEF m
  <2> HIDE DEF a
  <2>9. OfferInv(id)'
    <3>1. negs[id].offer \/ Saving(o, id, "offer") \in Pending <=> Sent(client[o], id)
      BY <2>7 DEF OfferInv
    <3>2. negs'[id].offer \/ Saving(o, id, "offer") \in Pending' <=> Sent(client'[o], id)
      BY <1>9, <2>6, <2>8, <3>1
    <3> QED BY <2>6, <3>2 DEF OfferInv
  <2>10. AnswerInv(id)'
    <3>1. /\ negs[id].answer \/ Saving(a, id, "answer") \in Pending <=> Sent(client[a], id)
          /\ Saving(a, id, "answer") \in Pending => ~negs[id].answer /\ Saving(a, id, "answer") \in Alone
      BY <2>7 DEF AnswerInv, a
    <3>2. /\ negs'[id].answer \/ Saving(a, id, "answer") \in Pending' <=> Sent(client'[a], id)
          /\ Saving(a, id, "answer") \in Pending' => ~negs'[id].answer /\ Saving(a, id, "answer") \in Alone'
      BY <1>9, <2>6, <2>8, <3>1 DEF a
    <3> QED BY <2>6, <3>2 DEF AnswerInv, a
  <2>11. ReplyInv(id)'
    <3>1. \A x \in Telling(o, id) : x \notin Pending'
      BY <2>5, <2>6, <2>7 DEF ReplyInv
    <3>2. AnswerTo(o, id) \notin signals'
      BY <2>5
    <3>3. ~Waits(client'[o], id)
      BY <1>5, <1>9, <2>1, <2>3, <2>4
    <3> QED BY <2>6, <3>1, <3>2, <3>3 DEF ReplyInv
  <2>12. HearInv(id)'
    <3>1. /\ id <= Len(client[o].known) \/ Request(o, id) \in signals
          /\ negs[id].offer => \/ id <= Len(client[a].known) \/ OfferTo(a, id) \in signals
                               \/ \E x \in Telling(a, id) : x \in Pending
                               \/ a = "callee" /\ (~accepted \/ AcceptJob("initialOffer") \in Pending)
      BY <2>7 DEF HearInv, a
    <3>2. /\ Request(o, id) \in signals => Request(o, id) \in signals'
          /\ OfferTo(a, id) \in signals => OfferTo(a, id) \in signals'
      BY <1>10 DEF Request, OfferTo
    <3>3. /\ id <= Len(client'[o].known) \/ Request(o, id) \in signals'
          /\ negs'[id].offer => \/ id <= Len(client'[a].known) \/ OfferTo(a, id) \in signals'
                                \/ \E x \in Telling(a, id) : x \in Pending'
                                \/ a = "callee" /\ (~accepted' \/ AcceptJob("initialOffer") \in Pending')
      BY <1>9, <2>6, <2>8, <3>1, <3>2 DEF a
    <3> QED BY <2>6, <3>3 DEF HearInv, a
  <2>13. DocInv(id)'
    BY <2>9, <2>10, <2>11, <2>12 DEF DocInv
  <2>14. /\ \A n \in Ids : n \notin {id} =>
              (Sent(k, n) <=> Sent(m, n)) /\ (Waits(k, n) <=> Waits(m, n))
         /\ \A n \in {id} \cap (1..Len(negs)) : DocInv(n)'
         /\ Len(m.known) <= Len(k.known) /\ (r = "callee" /\ ~accepted => k.known = << >>)
    BY <1>5, <1>6, <2>1, <2>13
  <2> QED BY <1>2, <1>10, <2>1, <2>2, <2>14, ReceivedKeeps DEF m, r, id
<1>11. CASE s.type = "answer" /\ ~Waits(m, id)
  <2>1. negs[id].offerer # r
    <3>1. ASSUME negs[id].offerer = r PROVE FALSE
      <4>1. AnswerTo(r, id) \in signals
        BY <1>2, <1>11 DEF AnswerTo
      <4>2. Waits(client[r], id)
        BY <1>8, <3>1, <4>1 DEF DocInv, ReplyInv
      <4> QED BY <1>11, <4>2 DEF m
    <3> QED BY <3>1
  <2>2. SetRemoteAnswer(m, id) = m
    <3>1. ASSUME m.current # 0, m.known[m.current].id = id, ~m.known[m.current].remote PROVE FALSE
      <4>1. m.current \in 1..Len(m.known)
        BY <1>3, <3>1, Busy
      <4> QED BY <1>3, <2>1, <3>1, <4>1 DEF KnownInv
    <3> QED BY <3>1 DEF SetRemoteAnswer
  <2>3. client' = [client EXCEPT ![r] = m]
    BY <1>11, <2>2
  <2> QED BY <1>2, <1>3, <1>5, <1>6, <1>7, <1>11, <2>1, <2>3, HeardKeeps DEF m, r, id
<1>12. CASE s.type # "answer" /\ \E i \in 1..Len(m.known) : m.known[i].id = id
  <2>1. AddNegotiation(r, m, id, s.type = "offer") = m /\ id <= Len(m.known)
    BY <1>3, <1>5, <1>12 DEF AddNegotiation, QueueInv
  <2>2. client' = [client EXCEPT ![r] = m]
    BY <1>12, <2>1
  <2> QED BY <1>2, <1>3, <1>5, <1>6, <1>7, <1>12, <2>1, <2>2, HeardKeeps DEF m, r, id
<1>13. CASE s.type # "answer" /\ ~\E i \in 1..Len(m.known) : m.known[i].id = id
  <2> DEFINE remote == s.type = "offer"
             k == AddNegotiation(r, m, id, remote)
  <2>1. remote \in BOOLEAN /\ (remote <=> negs[id].offerer # r)
    <3>1. s.type = "offer" => negs[id].offerer # r
      BY <1>1 DEF SignalInv, r, id
    <3>2. s.type = "request-offer" => negs[id].offerer = r
      BY <1>1 DEF SignalInv, r, id
    <3> QED BY <1>2, <1>13, <3>1, <3>2
  <2>2. id = Len(m.known) + 1 /\ m.processed = Len(m.known) /\ id = Len(negs)
    <3>1. id \in Nat /\ id > Len(m.known)
      <4>1. id \in 1..Len(m.known) => m.known[id].id = id
        BY <1>3 DEF QueueInv
      <4>2. id \notin 1..Len(m.known) /\ id \in 1..Len(negs)
        BY <1>2, <1>13, <4>1 DEF id
      <4> QED BY <1>5, <4>2
    <3>2. \A n \in 1..(Len(negs) - 1) : n <= m.processed /\ n <= Len(m.known)
      BY <1>2, AllButLatest DEF m
    <3>3. id = Len(negs)
      <4>1. id \in 1..Len(negs)
        BY <1>2 DEF id
      <4> QED BY <1>5, <3>1, <3>2, <4>1
    <3>4. m.processed \in 0..Len(m.known)
      BY <1>3 DEF TurnInv
    <3>5. Len(m.known) >= Len(negs) - 1 /\ m.processed >= Len(negs) - 1
      <4>1. CASE Len(negs) = 1
        BY <1>5, <3>4, <4>1
      <4>2. CASE Len(negs) # 1
        <5>1. Len(negs) - 1 \in 1..(Len(negs) - 1)
          BY <1>5, <3>1, <3>3, <4>2
        <5> QED BY <1>5, <3>2, <3>4, <5>1
      <4> QED BY <4>1, <4>2
    <3> QED BY <1>5, <3>1, <3>3, <3>4, <3>5
  <2>3. m.current # 0 /\ IsPolite(r, m, m.current) => remote # (r = "callee")
    <3> SUFFICES ASSUME m.current # 0, IsPolite(r, m, m.current), remote = (r = "callee")
                 PROVE FALSE
      OBVIOUS
    <3>1. m.current \in 1..Len(m.known) /\ m.known[m.current].id = m.current
          /\ m.known[m.current].remote \in BOOLEAN
      BY <1>3, Busy
    <3>2. m.current \in 1..Len(negs) /\ m.current < id /\ id \in 1..Len(negs)
      BY <1>5, <2>2, <3>1
    <3>3. m.known[m.current].remote <=> negs[m.current].offerer # r
      BY <1>3, <3>1 DEF KnownInv
    <3>4. negs[m.current].offerer # "caller"
      BY <1>2, <3>1, <3>3 DEF IsPolite, Roles
    <3>5. negs[id].offerer = "caller"
      BY <1>2, <1>9, <2>1 DEF Roles
    <3>6. SilentInv /\ FirstInv
      BY DEF OneSideInv
    <3> QED BY <3>2, <3>4, <3>5, <3>6, CallersFirst
  <2>4. /\ QueueInv(k) /\ Len(k.known) = id /\ k.agreed = m.agreed
        /\ SameUser(k, m) /\ SameView(k, m)
    <3> HIDE DEF remote
    <3> QED BY <1>2, <1>3, <1>5, <2>1, <2>2, <2>3, LearnMoves
  <2>5. ~(r = "callee" /\ ~accepted)
    <3> SUFFICES ASSUME r = "callee", ~accepted PROVE FALSE
      OBVIOUS
    <3>1. s.type = "request-offer"
      BY DEF OneSideInv, AcceptInv
    <3>2. negs[id].offerer = "callee"
      BY <1>1, <3>1 DEF SignalInv, id, r
    <3>3. id # 1
      BY <1>5, <2>2, <3>2 DEF OneSideInv, FirstInv
    <3>4. 1 \in 1..(Len(negs) - 1)
      BY <1>5, <2>2, <3>3
    <3>5. 1 <= Len(client["callee"].known)
      BY <3>4, AllButLatest DEF Roles
    <3> QED BY <3>5, CalleeWaits
  <2> HIDE DEF k
  <2>6. client' = [client EXCEPT ![r] = k]
    BY <1>13 DEF k
  <2>7. Len(m.known) <= Len(k.known) /\ id <= Len(k.known)
    BY <1>5, <2>2, <2>4
  <2> QED BY <1>2, <1>13, <2>4, <2>5, <2>6, <2>7, HeardKeeps DEF m, r, id
<1> QED BY <1>10, <1>11, <1>12, <1>13

-----------------------------------------------------------------------------
(* The steps of the server keep it. *)

(* What a step of the server leaves alone *)
LEMMA ServerApart ==
  ASSUME TypeOK, NEW n \in 1..Len(negs), NEW j \in Pending, NEW next, NEW sent,
         Proceed(j, next, sent), client' = client, negs'[n] = negs[n],
         j \notin JobsOf(n), \A k \in next : k \notin JobsOf(n),
         \A s \in sent : s.type # "answer" \/ s.id # n,
         ~accepted \/ AcceptJob("initialOffer") \in Pending
           => ~accepted' \/ AcceptJob("initialOffer") \in Pending'
  PROVE  Apart(n)
<1>1. /\ Pending' \subseteq Pending \cup next
      /\ \A k \in Pending : k # j => k \in Pending'
      /\ \A k \in Alone : k \notin next /\ k \in Pending' => k \in Alone'
      /\ signals' = signals \cup sent
  BY JobDone
<1>2. \A k \in JobsOf(n) : (k \in Pending' <=> k \in Pending) /\ (k \in Alone => k \in Alone')
  BY <1>1 DEF Alone
<1>3. \A r \in Roles : Len(client[r].known) <= Len(client[r].known)
  <2>1. \A r \in Roles : Len(client[r].known) \in Nat
    BY Fields DEF TypeOK
  <2> QED BY <2>1
<1>4. AnswerTo(negs[n].offerer, n) \in signals' <=> AnswerTo(negs[n].offerer, n) \in signals
  BY <1>1 DEF AnswerTo
<1>5. signals \subseteq signals'
  BY <1>1
<1> QED BY <1>2, <1>3, <1>4, <1>5 DEF Apart

(* and what it keeps of the call, of the saved descriptions and of the     *)
(* clients                                                                 *)
LEMMA ServerKeeps ==
  ASSUME TypeOK, NegotiationInv, OneSideInv, NEW j \in Pending, NEW next, NEW sent,
         Proceed(j, next, sent), client' = client,
         Len(negs') \in Nat, Len(negs) <= Len(negs'),
         \A n \in 1..Len(negs) : negs'[n].offerer = negs[n].offerer,
         accepted => accepted', j.step = "accept" => accepted',
         \A k \in next : /\ k.sdp = "none" /\ k.step \notin {"accept", "save"}
                         /\ k.step \in {"initialOffer", "send"} => accepted'
                         /\ k.step = "initialOffer" => k = AcceptJob("initialOffer"),
         \A s \in sent : s.type = "request-offer" \/ accepted'
  PROVE  AcceptInv' /\ SaveInv' /\ \A r \in Roles : QueueInv(client'[r])
<1>1. /\ Pending' \subseteq Pending \cup next
      /\ \A k \in Pending : k # j => k \in Pending'
      /\ signals' = signals \cup sent
  BY JobDone
<1>2. AcceptInv /\ SaveInv /\ \A r \in Roles : QueueInv(client[r])
  BY DEF OneSideInv
<1>3. AcceptInv'
  <2>1. ~accepted' => /\ AcceptJob("accept") \in Pending'
                      /\ client'["callee"].known = << >>
                      /\ \A k \in Pending' : k.step \notin {"send", "initialOffer"}
                      /\ \A s \in signals' : s.type = "request-offer"
    <3> SUFFICES ASSUME ~accepted'
                 PROVE  /\ AcceptJob("accept") \in Pending'
                        /\ client'["callee"].known = << >>
                        /\ \A k \in Pending' : k.step \notin {"send", "initialOffer"}
                        /\ \A s \in signals' : s.type = "request-offer"
      OBVIOUS
    <3>1. ~accepted /\ j.step # "accept"
      OBVIOUS
    <3>2. AcceptJob("accept").step = "accept"
      BY DEF AcceptJob, Do
    <3> QED BY <1>1, <1>2, <3>1, <3>2 DEF AcceptInv
  <2>2. \A k \in Pending' : k.step \in {"accept", "initialOffer"} => k = AcceptJob(k.step)
    BY <1>1, <1>2 DEF AcceptInv
  <2>3. \A k \in Pending' : k.step \in {"forward", "send"} => k.sdp = "none"
    BY <1>1, <1>2 DEF AcceptInv
  <2> QED BY <2>1, <2>2, <2>3 DEF AcceptInv
<1>4. SaveInv'
  <2>1. \A k \in Pending' : k.step = "save" => k \in Pending
    BY <1>1
  <2>2. \A k \in Pending : k.step = "save" => k.id \in 1..Len(negs)
    BY DEF NegotiationInv, JobInv
  <2> QED BY <1>2, <2>1, <2>2 DEF SaveInv
<1> QED BY <1>2, <1>3, <1>4

(* A step that starts no negotiation *)
LEMMA NoneStarted ==
  ASSUME TypeOK, OneSideInv, NEW j \in Pending, NEW next, NEW sent,
         Proceed(j, next, sent), client' = client, negs' \in Seq(Document), Len(negs') = Len(negs),
         \A n \in 1..Len(negs) : negs'[n].offerer = negs[n].offerer
                                 /\ (negs[n].answer => negs'[n].answer),
         \A k \in next : /\ k.step \notin {"ack", "needed"}
                         /\ k.step = "start" => /\ client[k.role].toggles # 0
                                                /\ negs # << >> /\ Latest.answer
  PROVE  SilentInv' /\ ((\A k \in next : k.step # "startFirst") => FirstInv')
<1>1. /\ Pending' \subseteq Pending \cup next
      /\ \A k \in Alone : k \notin next /\ k \in Pending' => k \in Alone'
  BY JobDone
<1>2. SilentInv /\ FirstInv /\ Len(negs) \in Nat
  BY DEF OneSideInv, TypeOK
<1>3. SilentInv'
  <2>1. ASSUME NEW q \in Roles, client'[q].toggles = 0
        PROVE  /\ Untouched(client'[q]) /\ (\A k \in Requests' : k.role # q)
               /\ \A n \in 2..Len(negs') : negs'[n].offerer # q
    <3>1. /\ Untouched(client[q]) /\ (\A k \in Requests : k.role # q)
          /\ \A n \in 2..Len(negs) : negs[n].offerer # q
      BY <1>2, <2>1 DEF SilentInv
    <3>2. \A k \in Requests' : k \in Requests \/ (k \in next /\ k.step = "start")
      BY <1>1 DEF Requests
    <3>3. \A n \in 2..Len(negs) : n \in 1..Len(negs)
      BY <1>2
    <3> QED BY <2>1, <3>1, <3>2, <3>3
  <2>2. \E q \in Roles : client'[q].toggles = 0
    BY <1>2 DEF SilentInv
  <2>3. SilentInv' <=> /\ \E q \in Roles : client'[q].toggles = 0
                       /\ \A q \in Roles :
                            client'[q].toggles = 0 => /\ Untouched(client'[q])
                                                      /\ \A k \in Requests' : k.role # q
                                                      /\ \A n \in 2..Len(negs') : negs'[n].offerer # q
    BY DEF SilentInv
  <2> QED BY <2>1, <2>2, <2>3
<1>4. ASSUME \A k \in next : k.step # "startFirst" PROVE FirstInv'
  <2>1. Firsts' \subseteq Firsts /\ \A k \in Firsts' : k \in Pending' /\ k \notin next
    BY <1>1, <1>4 DEF Firsts
  <2>2. Len(negs') > 0 => negs'[1].offerer = "caller"
    BY <1>2 DEF FirstInv
  <2>3. \A n \in 1..(Len(negs') - 1) : negs'[n].answer
    <3>1. \A n \in 1..(Len(negs) - 1) : n \in 1..Len(negs)
      BY <1>2
    <3> QED BY <1>2, <3>1 DEF FirstInv
  <2>4. negs' = << >> <=> negs = << >>
    BY DEF TypeOK
  <2>5. \A k \in Firsts' : negs' = << >> /\ k \in Alone' /\ k.role = "caller" /\ \A x \in Firsts' : x = k
    BY <1>1, <1>2, <2>1, <2>4 DEF FirstInv
  <2>6. \A k \in Pending' : k.step = "start" => negs' # << >> /\ negs'[Len(negs')].answer
    <3>1. \A k \in Pending' : k.step = "start" => negs # << >> /\ negs[Len(negs)].answer
      BY <1>1, <1>2 DEF FirstInv, Latest
    <3>2. negs # << >> => Len(negs) \in 1..Len(negs)
      BY DEF TypeOK
    <3> QED BY <2>4, <3>1, <3>2
  <2> QED BY <2>2, <2>3, <2>5, <2>6 DEF FirstInv, Latest
<1> QED BY <1>3, <1>4

(* Of a negotiation that a step of the server concerns, what the step      *)
(* leaves alone                                                            *)
LEMMA OfferKept ==
  ASSUME NEW n, OfferInv(n), client' = client,
         negs'[n].offerer = negs[n].offerer, negs'[n].offer = negs[n].offer,
         Saving(negs[n].offerer, n, "offer") \in Pending' <=> Saving(negs[n].offerer, n, "offer") \in Pending
  PROVE  OfferInv(n)'
<1>1. negs'[n].offer \/ Saving(negs'[n].offerer, n, "offer") \in Pending' <=> Sent(client'[negs'[n].offerer], n)
  BY DEF OfferInv
<1> QED BY <1>1 DEF OfferInv

(* What the server does not touch of an answer, *)
LEMMA AnswerKept ==
  ASSUME NEW n, AnswerInv(n), client' = client,
         negs'[n].offerer = negs[n].offerer, negs'[n].answer = negs[n].answer,
         LET s == Saving(Opposite(negs[n].offerer), n, "answer")
         IN  (s \in Pending' <=> s \in Pending) /\ (s \in Alone => s \in Alone')
  PROVE  AnswerInv(n)'
<1> DEFINE o == negs[n].offerer
           s == Saving(Opposite(o), n, "answer")
<1>1. /\ negs[n].answer \/ s \in Pending <=> Sent(client[Opposite(o)], n)
      /\ s \in Pending => ~negs[n].answer /\ s \in Alone
  BY DEF AnswerInv
<1>2. (s \in Pending' <=> s \in Pending) /\ (s \in Alone => s \in Alone') /\ negs'[n].offerer = o
  OBVIOUS
<1> HIDE DEF s, o
<1>3. /\ negs'[n].answer \/ s \in Pending' <=> Sent(client'[Opposite(o)], n)
      /\ s \in Pending' => ~negs'[n].answer /\ s \in Alone'
  BY <1>1, <1>2
<1> QED BY <1>2, <1>3 DEF AnswerInv, s

(* of the way of an answer to the offerer, *)
LEMMA ReplyKept ==
  ASSUME NEW n, ReplyInv(n), client' = client,
         negs'[n].offerer = negs[n].offerer, negs'[n].answer = negs[n].answer,
         \A k \in Telling(negs[n].offerer, n) : (k \in Pending' <=> k \in Pending) /\ (k \in Alone => k \in Alone'),
         AnswerTo(negs[n].offerer, n) \in signals' <=> AnswerTo(negs[n].offerer, n) \in signals
  PROVE  ReplyInv(n)'
<1> DEFINE o == negs[n].offerer
<1>1. negs'[n].offerer = o
  OBVIOUS
<1>2. /\ \A j \in Telling(o, n) :
           j \in Pending' => /\ negs'[n].answer /\ Waits(client'[o], n) /\ j \in Alone'
                             /\ \A k \in Telling(o, n) : k \in Pending' => k = j
                             /\ AnswerTo(o, n) \notin signals'
      /\ AnswerTo(o, n) \in signals' => negs'[n].answer /\ Waits(client'[o], n)
      /\ negs'[n].answer /\ Waits(client'[o], n) =>
           AnswerTo(o, n) \in signals' \/ \E j \in Telling(o, n) : j \in Pending'
  BY DEF ReplyInv
<1> HIDE DEF o
<1> QED BY <1>1, <1>2 DEF ReplyInv

(* and of what the two sides have heard of stays. *)
LEMMA HearKept ==
  ASSUME NEW n, HearInv(n), client' = client, signals \subseteq signals',
         negs'[n].offerer = negs[n].offerer, negs'[n].offer = negs[n].offer,
         accepted' = accepted,
         LET a == Opposite(negs[n].offerer)
         IN  (\E k \in Telling(a, n) : k \in Pending)
                => OfferTo(a, n) \in signals' \/ \E k \in Telling(a, n) : k \in Pending',
         AcceptJob("initialOffer") \in Pending => AcceptJob("initialOffer") \in Pending'
  PROVE  HearInv(n)'
<1> DEFINE o == negs[n].offerer
           a == Opposite(o)
<1>1. negs'[n].offerer = o
  OBVIOUS
<1>2. /\ n <= Len(client'[o].known) \/ Request(o, n) \in signals'
      /\ negs'[n].offer => \/ n <= Len(client'[a].known) \/ OfferTo(a, n) \in signals'
                           \/ \E k \in Telling(a, n) : k \in Pending'
                           \/ a = "callee" /\ (~accepted' \/ AcceptJob("initialOffer") \in Pending')
  BY DEF HearInv
<1> HIDE DEF o
<1> QED BY <1>1, <1>2 DEF HearInv

(* clientIsReachable: the first negotiation may start. *)
LEMMA AcknowledgeKeeps ==
  ASSUME TypeOK, NegotiationInv, OneSideInv, NEW j \in Pending, Acknowledge(j)
  PROVE  OneSideInv'
<1> DEFINE k == Do("startFirst", "caller", 0)
<1>1. /\ j.step = "ack" /\ Proceed(j, {k}, {}) /\ UNCHANGED <<accepted, negs, client>>
      /\ j \in Firsts /\ negs = << >>
  <2>1. j.step = "ack" /\ j \in Firsts
    BY DEF Acknowledge, Firsts
  <2>2. negs = << >>
    BY <2>1 DEF OneSideInv, FirstInv
  <2> QED BY <2>1, <2>2 DEF Acknowledge
<1>2. k.step = "startFirst" /\ k.role = "caller" /\ k.sdp = "none"
  BY DEF Do
<1> HIDE DEF k
<1>3. /\ Pending' \subseteq Pending \cup {k}
      /\ {k} \subseteq Pending'
      /\ j \in Alone /\ j \notin {k} => j \notin Pending'
      /\ \A x \in {k} : x \notin Pending => x \in Alone'
  BY <1>1, JobDone
<1>4. FirstInv /\ Len(negs) = 0 /\ negs \in Seq(Document)
  BY <1>1 DEF OneSideInv, TypeOK
<1>5. AcceptInv' /\ SaveInv' /\ \A r \in Roles : QueueInv(client'[r])
  BY <1>1, <1>2, <1>4, ServerKeeps
<1>6. SilentInv'
  BY <1>1, <1>2, <1>4, NoneStarted
<1>7. FirstInv'
  <2>1. j \notin Pending' /\ k \notin Pending
    BY <1>1, <1>2, <1>3, <1>4 DEF FirstInv, Firsts
  <2>2. Firsts' = {k}
    BY <1>1, <1>2, <1>3, <1>4, <2>1 DEF FirstInv, Firsts
  <2>3. \A x \in Pending' : x.step # "start"
    BY <1>1, <1>2, <1>3, <1>4 DEF FirstInv
  <2> QED BY <1>1, <1>2, <1>3, <1>4, <2>1, <2>2, <2>3 DEF FirstInv
<1>8. \A n \in 1..Len(negs') : DocInv(n)'
  BY <1>1, <1>4
<1> QED BY <1>5, <1>6, <1>7, <1>8 DEF OneSideInv

(* acceptCall: the initial offer is looked for. *)
LEMMA AcceptKeeps ==
  ASSUME TypeOK, NegotiationInv, OneSideInv, NEW j \in Pending, Accept(j)
  PROVE  OneSideInv'
<1> DEFINE k == AcceptJob("initialOffer")
<1>1. j.step = "accept" /\ Proceed(j, {k}, {}) /\ accepted' = TRUE /\ UNCHANGED <<negs, client>>
  BY DEF Accept, AcceptJob
<1>2. k.step = "initialOffer" /\ k.sdp = "none"
  BY DEF AcceptJob, Do
<1> HIDE DEF k
<1>3. negs \in Seq(Document) /\ Len(negs) \in Nat
  BY DEF TypeOK
<1>4. AcceptInv' /\ SaveInv' /\ \A r \in Roles : QueueInv(client'[r])
  <2>1. \A x \in {k} : /\ x.sdp = "none" /\ x.step \notin {"accept", "save"}
                       /\ x.step \in {"initialOffer", "send"} => accepted'
                       /\ x.step = "initialOffer" => x = AcceptJob("initialOffer")
    BY <1>1, <1>2 DEF k
  <2> QED BY <1>1, <1>3, <2>1, ServerKeeps
<1>5. SilentInv' /\ FirstInv'
  BY <1>1, <1>2, <1>3, NoneStarted
<1>6. ASSUME NEW n \in 1..Len(negs) PROVE DocInv(n)'
  <2>1. j \notin JobsOf(n) /\ \A x \in {k} : x \notin JobsOf(n)
    BY <1>1, <1>2 DEF JobsOf
  <2>2. k \in Pending'
    BY <1>1, JobDone
  <2>3. Apart(n)
    BY <1>1, <2>1, <2>2, ServerApart DEF k
  <2> QED BY <2>3, ApartKeeps DEF OneSideInv
<1> QED BY <1>1, <1>4, <1>5, <1>6 DEF OneSideInv

(* getInitialOfferSignal: the callee hears of the offer that there is. *)
LEMMA InitialOfferKeeps ==
  ASSUME TypeOK, NegotiationInv, OneSideInv, NEW j \in Pending, InitialOffer(j)
  PROVE  OneSideInv'
<1> DEFINE N == Len(negs)
           sent == IF N > 0 /\ negs[N].offer /\ negs[N].offerer # j.role
                     THEN {OfferTo(j.role, N)} ELSE {}
<1>1. j.step = "initialOffer" /\ Proceed(j, {}, sent) /\ UNCHANGED <<accepted, negs, client>>
  BY DEF InitialOffer, OfferTo
<1>2. j = AcceptJob("initialOffer") /\ j.role = "callee" /\ accepted
  BY <1>1 DEF OneSideInv, AcceptInv, AcceptJob, Do
<1>3. negs \in Seq(Document) /\ N \in Nat /\ \A n \in 1..N : negs[n].offerer \in Roles
  <2>1. negs \in Seq(Document)
    BY DEF TypeOK
  <2>2. N \in Nat /\ \A n \in 1..N : negs[n] \in Document
    BY <2>1, Elements
  <2> QED BY <2>1, <2>2 DEF Document
<1>4. (\A s \in sent : s.type = "offer") /\ (N > 0 /\ negs[N].offer /\ negs[N].offerer # "callee"
                                              => OfferTo("callee", N) \in sent)
  BY <1>2 DEF OfferTo
<1> HIDE DEF sent
<1>5. AcceptInv' /\ SaveInv' /\ \A r \in Roles : QueueInv(client'[r])
  BY <1>1, <1>2, <1>3, ServerKeeps
<1>6. SilentInv' /\ FirstInv'
  BY <1>1, <1>3, NoneStarted
<1>7. /\ Pending' \subseteq Pending
      /\ \A k \in Pending : k # j => k \in Pending'
      /\ \A k \in Alone : k \in Pending' => k \in Alone'
      /\ signals' = signals \cup sent
  BY <1>1, JobDone
<1>8. ASSUME NEW n \in 1..Len(negs) PROVE DocInv(n)'
  <2> DEFINE o == negs[n].offerer
             a == Opposite(o)
  <2>1. OfferInv(n) /\ AnswerInv(n) /\ ReplyInv(n) /\ HearInv(n)
    BY DEF OneSideInv, DocInv
  <2>2. /\ Saving(o, n, "offer") # j /\ Saving(a, n, "answer") # j
        /\ \A k \in Telling(o, n) \cup Telling(a, n) : k # j
    BY <1>1 DEF Saving, Telling, Do
  <2>3. OfferInv(n)'
    BY <1>1, <1>7, <2>1, <2>2, OfferKept
  <2>4. AnswerInv(n)'
    <3>1. LET s == Saving(a, n, "answer")
          IN  (s \in Pending' <=> s \in Pending) /\ (s \in Alone => s \in Alone')
      BY <1>7, <2>2 DEF Alone
    <3> QED BY <1>1, <2>1, <3>1, AnswerKept
  <2>5. ReplyInv(n)'
    <3>1. AnswerTo(o, n) \in signals' <=> AnswerTo(o, n) \in signals
      BY <1>4, <1>7 DEF AnswerTo
    <3>2. \A k \in Telling(o, n) : (k \in Pending' <=> k \in Pending) /\ (k \in Alone => k \in Alone')
      BY <1>7, <2>2 DEF Alone
    <3> QED BY <1>1, <2>1, <3>1, <3>2, ReplyKept
  <2>6. HearInv(n)'
    <3>1. /\ n <= Len(client[o].known) \/ Request(o, n) \in signals
          /\ negs[n].offer => \/ n <= Len(client[a].known) \/ OfferTo(a, n) \in signals
                              \/ \E k \in Telling(a, n) : k \in Pending
                              \/ a = "callee"
      BY <2>1 DEF HearInv
    <3>2. negs[n].offer /\ a = "callee" => n <= Len(client[a].known) \/ OfferTo(a, n) \in sent
      <4>1. CASE n = N
        <5>1. o # "callee" <=> a = "callee"
          BY <1>3 DEF Opposite, Roles
        <5> QED BY <1>3, <1>4, <4>1, <5>1
      <4>2. CASE n # N
        <5>1. n \in 1..(Len(negs) - 1)
          BY <1>3, <4>2
        <5> QED BY <5>1, AllButLatest DEF Roles
      <4> QED BY <4>1, <4>2
    <3>3. (\E k \in Telling(a, n) : k \in Pending) => \E k \in Telling(a, n) : k \in Pending'
      BY <1>7, <2>2
    <3> HIDE DEF a
    <3>4. /\ n <= Len(client'[o].known) \/ Request(o, n) \in signals'
          /\ negs'[n].offer => \/ n <= Len(client'[a].known) \/ OfferTo(a, n) \in signals'
                               \/ \E k \in Telling(a, n) : k \in Pending'
      BY <1>1, <1>7, <3>1, <3>2, <3>3
    <3> QED BY <1>1, <3>4 DEF HearInv, a
  <2> QED BY <2>3, <2>4, <2>5, <2>6 DEF DocInv
<1> QED BY <1>1, <1>5, <1>6, <1>8 DEF OneSideInv

(* Who is granted another negotiation has had an answer to the latest. *)
LEMMA GrantAfterAnswer ==
  ASSUME TypeOK, OneSideInv, NEW j \in Pending, j.step = "needed", MayStart(j.role, j.id)
  PROVE  negs # << >> /\ Latest.answer /\ (j.role \in Roles => client[j.role].toggles # 0)
<1>1. negs # << >> /\ (Latest.answer \/ (j.role = "caller" /\ Latest.offerer = "callee"))
  BY DEF MayStart, Latest
<1>2. j \in Requests /\ SilentInv /\ FirstInv
  BY DEF Requests, OneSideInv
<1>3. j.role \in Roles => client[j.role].toggles # 0
  BY <1>2 DEF SilentInv
<1>4. ASSUME j.role = "caller", Latest.offerer = "callee" PROVE FALSE
  <2>1. client["callee"].toggles = 0
    BY <1>2, <1>3, <1>4 DEF SilentInv, Roles
  <2>2. Len(negs) \notin 2..Len(negs)
    <3>1. \A n \in 2..Len(negs) : negs[n].offerer # "callee"
      BY <1>2, <2>1 DEF SilentInv, Roles
    <3> QED BY <1>4, <3>1 DEF Latest
  <2>3. Len(negs) = 1
    <3>1. Len(negs) \in Nat \ {0}
      BY <1>1 DEF TypeOK
    <3>2. \A n \in Nat \ {0} : n \notin 2..n => n = 1
      OBVIOUS
    <3> QED BY <2>2, <3>1, <3>2
  <2>4. negs[1].offerer = "caller"
    BY <1>2, <2>3 DEF FirstInv
  <2> QED BY <1>4, <2>3, <2>4 DEF Latest
<1> QED BY <1>1, <1>3, <1>4

(* processNegotiationNeeded: another negotiation may start. *)
LEMMA NeededKeeps ==
  ASSUME TypeOK, NegotiationInv, OneSideInv, NEW j \in Pending, NegotiationNeeded(j)
  PROVE  OneSideInv'
<1> DEFINE next == IF MayStart(j.role, j.id) THEN {Do("start", j.role, 0)} ELSE {}
           sent == IF MayResend(j.role, j.id) THEN {Request(j.role, Len(negs))} ELSE {}
<1>1. j.step = "needed" /\ Proceed(j, next, sent) /\ UNCHANGED <<accepted, negs, client>>
  BY DEF NegotiationNeeded
<1>2. j.role \in Roles /\ negs \in Seq(Document) /\ Len(negs) \in Nat
  BY DEF TypeOK, Job, Pending
<1>3. \A k \in next : /\ k.step = "start" /\ k.sdp = "none"
                      /\ client[k.role].toggles # 0 /\ negs # << >> /\ Latest.answer
  BY <1>1, <1>2, GrantAfterAnswer DEF Do
<1>4. \A s \in sent : s.type = "request-offer"
  BY DEF Request
<1> HIDE DEF next, sent
<1>5. AcceptInv' /\ SaveInv' /\ \A r \in Roles : QueueInv(client'[r])
  BY <1>1, <1>2, <1>3, <1>4, ServerKeeps
<1>6. SilentInv' /\ FirstInv'
  BY <1>1, <1>2, <1>3, NoneStarted
<1>7. ASSUME NEW n \in 1..Len(negs) PROVE DocInv(n)'
  <2>1. j \notin JobsOf(n) /\ \A x \in next : x \notin JobsOf(n)
    BY <1>1, <1>3 DEF JobsOf
  <2>2. AcceptJob("initialOffer") \in Pending => AcceptJob("initialOffer") \in Pending'
    <3>1. AcceptJob("initialOffer") # j
      BY <1>1 DEF AcceptJob, Do
    <3> QED BY <1>1, <3>1, JobDone
  <2>3. Apart(n)
    BY <1>1, <1>4, <2>1, <2>2, ServerApart
  <2> QED BY <2>3, ApartKeeps DEF OneSideInv
<1> QED BY <1>1, <1>5, <1>6, <1>7 DEF OneSideInv

(* Another negotiation starts only when the latest one is answered. *)
LEMMA StartKeeps ==
  ASSUME TypeOK, NegotiationInv, OneSideInv, RequestsOneByOne, NEW j \in Pending,
         StartNewNegotiation(j), TypeOK'
  PROVE  OneSideInv'
<1> DEFINE N == Len(negs)
           d == [offerer |-> j.role, offer |-> FALSE, answer |-> FALSE]
           s == Request(j.role, N + 1)
<1>1. /\ j.step \in {"startFirst", "start"} /\ negs' = Append(negs, d) /\ Proceed(j, {}, {s})
      /\ UNCHANGED <<accepted, client>> /\ N < MaxNegotiations
  BY DEF StartNewNegotiation, Start
<1>2. j.role \in Roles /\ negs \in Seq(Document) /\ N \in Nat
  BY DEF TypeOK, Job, Pending
<1>3. d \in Document /\ d.offerer = j.role /\ ~d.offer /\ ~d.answer
  BY <1>2 DEF Document
<1>4. s.type = "request-offer" /\ s.to = j.role /\ s.id = N + 1
  BY DEF Request
<1> HIDE DEF d
<1>5. Len(negs') = N + 1 /\ negs'[N + 1] = d /\ \A n \in 1..N : negs'[n] = negs[n]
  BY <1>1, <1>2, <1>3, Appended
<1>6. /\ Pending' \subseteq Pending
      /\ \A k \in Pending : k # j => k \in Pending'
      /\ j \in Alone => j \notin Pending'
      /\ \A k \in Alone : k \in Pending' => k \in Alone'
      /\ signals' = signals \cup {s}
  BY <1>1, JobDone
<1>7. SilentInv /\ FirstInv /\ (j.step = "startFirst" => j \in Firsts) /\ (j.step = "start" => j \in Requests)
  BY DEF OneSideInv, Firsts, Requests
<1> HIDE DEF s
<1>8. AcceptInv' /\ SaveInv' /\ \A r \in Roles : QueueInv(client'[r])
  <2>1. Len(negs') \in Nat /\ Len(negs) <= Len(negs') /\ \A n \in 1..Len(negs) : negs'[n].offerer = negs[n].offerer
    BY <1>2, <1>5
  <2>2. j.step # "accept" /\ \A x \in {s} : x.type = "request-offer"
    BY <1>1, <1>4
  <2> QED BY <1>1, <2>1, <2>2, ServerKeeps
<1>9. j.step = "startFirst" => N = 0 /\ j.role = "caller" /\ j \in Alone /\ \A k \in Firsts : k = j
  BY <1>7 DEF FirstInv
<1>10. j.step = "start" => N # 0 /\ negs[N].answer /\ j \in Alone /\ \A k \in Requests : k = j
  <2>1. j.step = "start" => negs # << >> /\ negs[N].answer
    BY <1>7 DEF FirstInv, Latest
  <2> QED BY <1>2, <1>7, <2>1 DEF RequestsOneByOne
<1>11. SilentInv'
  <2>1. ASSUME NEW q \in Roles, client[q].toggles = 0
        PROVE  /\ Untouched(client[q]) /\ (\A k \in Requests' : k.role # q)
               /\ \A n \in 2..Len(negs') : negs'[n].offerer # q
    <3>1. /\ Untouched(client[q]) /\ (\A k \in Requests : k.role # q)
          /\ \A n \in 2..N : negs[n].offerer # q
      BY <1>7, <2>1 DEF SilentInv
    <3>2. Requests' \subseteq Requests
      BY <1>6 DEF Requests
    <3>3. ASSUME NEW n \in 2..(N + 1) PROVE negs'[n].offerer # q
      <4>1. CASE n = N + 1
        <5>1. N # 0
          BY <1>2, <4>1
        <5>2. j \in Requests
          BY <1>1, <1>7, <1>9, <5>1
        <5> QED BY <1>3, <1>5, <3>1, <4>1, <5>2
      <4>2. CASE n # N + 1
        <5>1. n \in 2..N /\ n \in 1..N
          BY <1>2, <4>2
        <5> QED BY <1>5, <3>1, <5>1
      <4> QED BY <4>1, <4>2
    <3> QED BY <1>5, <3>1, <3>2, <3>3
  <2>2. \E q \in Roles : client'[q].toggles = 0
    BY <1>1, <1>7 DEF SilentInv
  <2>3. SilentInv' <=> /\ \E q \in Roles : client'[q].toggles = 0
                       /\ \A q \in Roles :
                            client'[q].toggles = 0 => /\ Untouched(client'[q])
                                                      /\ \A k \in Requests' : k.role # q
                                                      /\ \A n \in 2..Len(negs') : negs'[n].offerer # q
    BY DEF SilentInv
  <2> QED BY <1>1, <2>1, <2>2, <2>3
<1>12. FirstInv'
  <2>1. negs'[1].offerer = "caller"
    <3>1. CASE N = 0
      <4>1. j.role = "caller"
        BY <1>1, <1>9, <1>10, <3>1
      <4> QED BY <1>3, <1>5, <3>1, <4>1
    <3>2. CASE N # 0
      <4>1. 1 \in 1..N /\ N > 0
        BY <1>2, <3>2
      <4> QED BY <1>5, <1>7, <4>1 DEF FirstInv
    <3> QED BY <3>1, <3>2
  <2>2. \A n \in 1..N : negs'[n].answer
    <3>1. ASSUME NEW n \in 1..N PROVE negs[n].answer
      <4>1. N # 0 /\ (n = N \/ n \in 1..(N - 1))
        BY <1>2
      <4>2. j.step = "start"
        BY <1>1, <1>9, <4>1
      <4> QED BY <1>7, <1>10, <4>1, <4>2 DEF FirstInv
    <3> QED BY <1>5, <3>1
  <2>3. \A k \in Pending' : k.step \notin {"ack", "startFirst", "start"}
    <3>1. \A k \in Pending' : k \in Pending /\ (j \in Alone => k # j)
      BY <1>6
    <3>2. CASE j.step = "startFirst"
      <4>1. negs = << >>
        BY <1>2, <1>9, <3>2
      <4>2. \A k \in Pending' : k.step # "start"
        BY <1>7, <3>1, <4>1 DEF FirstInv
      <4> QED BY <1>9, <3>1, <3>2, <4>2 DEF Firsts
    <3>3. CASE j.step = "start"
      <4>1. negs # << >>
        BY <1>2, <1>10, <3>3
      <4>2. \A k \in Pending' : k \notin Firsts
        BY <1>7, <4>1 DEF FirstInv
      <4> QED BY <1>10, <3>1, <3>3, <4>2 DEF Firsts, Requests
    <3> QED BY <1>1, <3>2, <3>3
  <2>4. Firsts' = {} /\ Len(negs') - 1 = N
    BY <1>2, <1>5, <2>3 DEF Firsts
  <2>5. FirstInv' <=> /\ Len(negs') > 0 => negs'[1].offerer = "caller"
                      /\ \A n \in 1..(Len(negs') - 1) : negs'[n].answer
                      /\ \A k \in Firsts' : negs' = << >> /\ k \in Alone' /\ k.role = "caller" /\ \A x \in Firsts' : x = k
                      /\ \A k \in Pending' : k.step = "start" => negs' # << >> /\ Latest'.answer
    BY DEF FirstInv
  <2> QED BY <2>1, <2>2, <2>3, <2>4, <2>5
<1>13. ASSUME NEW n \in 1..N PROVE DocInv(n)'
  <2>1. j \notin JobsOf(n) /\ \A x \in {} : x \notin JobsOf(n)
    BY <1>1 DEF JobsOf
  <2>2. AcceptJob("initialOffer") \in Pending => AcceptJob("initialOffer") \in Pending'
    <3>1. AcceptJob("initialOffer") # j
      BY <1>1 DEF AcceptJob, Do
    <3> QED BY <1>6, <3>1
  <2>3. Apart(n)
    <3>1. \A x \in {s} : x.type # "answer" \/ x.id # n
      BY <1>4
    <3> QED BY <1>1, <1>5, <2>1, <2>2, <3>1, ServerApart
  <2> QED BY <2>3, ApartKeeps DEF OneSideInv
<1>14. ASSUME NEW n, n = N + 1 PROVE DocInv(n)'
  <2> DEFINE a == Opposite(j.role)
  <2>1. negs'[n].offerer = j.role /\ ~negs'[n].offer /\ ~negs'[n].answer /\ a \in Roles
    BY <1>3, <1>5, <1>14 DEF Opposite, Roles
  <2>2. \A k \in Pending' : k.step \in {"save", "forward", "send"} => k.id # n
    <3>1. \A k \in Pending : k.step \in {"save", "forward", "send"} => k.id \in 1..N
      BY DEF NegotiationInv, JobInv
    <3> QED BY <1>2, <1>6, <1>14, <3>1
  <2>3. \A x \in signals' : x.type = "answer" => x.id # n
    <3>1. \A x \in signals : x.id \in 1..N
      BY DEF NegotiationInv, SignalInv
    <3> QED BY <1>2, <1>4, <1>6, <1>14, <3>1
  <2>4. \A r \in Roles : ~Sent(client'[r], n)
    <3>1. ASSUME NEW r \in Roles PROVE ~(n <= client[r].processed)
      <4>1. client[r] \in Client /\ KnownInv(negs, r, client[r]) /\ TurnInv(client[r]) /\ DocsOK(negs)
        BY DEF TypeOK, NegotiationInv, ClientInv
      <4>2. Len(client[r].known) <= N /\ Len(client[r].known) \in Nat
        BY <4>1, KnownFit, Fields
      <4> QED BY <1>2, <1>14, <4>1, <4>2 DEF TurnInv
    <3> QED BY <1>1, <3>1 DEF Sent
  <2>5. /\ \A r \in Roles, type \in {"offer", "answer"} : Saving(r, n, type) \notin Pending'
        /\ \A r \in Roles : \A k \in Telling(r, n) : k \notin Pending'
        /\ \A r \in Roles : AnswerTo(r, n) \notin signals'
    BY <2>2, <2>3 DEF Saving, Telling, Do, AnswerTo
  <2>6. Request(j.role, n) \in signals'
    BY <1>6, <1>14 DEF s
  <2> HIDE DEF a
  <2>7. OfferInv(n)' /\ AnswerInv(n)' /\ ReplyInv(n)' /\ HearInv(n)'
    <3>1. OfferInv(n)'
      BY <1>2, <2>1, <2>4, <2>5 DEF OfferInv
    <3>2. AnswerInv(n)'
      BY <1>2, <2>1, <2>4, <2>5 DEF AnswerInv, a
    <3>3. ReplyInv(n)'
      BY <1>2, <2>1, <2>5 DEF ReplyInv
    <3>4. HearInv(n)'
      BY <2>1, <2>6 DEF HearInv
    <3> QED BY <3>1, <3>2, <3>3, <3>4
  <2> QED BY <2>7 DEF DocInv
<1>15. \A n \in 1..Len(negs') : DocInv(n)'
  <2> SUFFICES ASSUME NEW n \in 1..Len(negs') PROVE DocInv(n)'
    OBVIOUS
  <2>1. n \in 1..N \/ n = N + 1
    BY <1>2, <1>5
  <2> QED BY <1>13, <1>14, <2>1
<1> QED BY <1>8, <1>11, <1>12, <1>15 DEF OneSideInv

(* The offerer still waits for an answer that is on its way to the server. *)
LEMMA AnswerAwaited ==
  ASSUME TypeOK, NegotiationInv, OneSideInv, NEW n \in 1..Len(negs),
         Saving(Opposite(negs[n].offerer), n, "answer") \in Pending
  PROVE  ~negs[n].answer /\ Waits(client[negs[n].offerer], n)
<1> DEFINE o == negs[n].offerer
           a == Opposite(o)
           m == client[o]
<1>1. negs[n] \in Document /\ o \in Roles /\ a # o /\ Len(negs) \in Nat /\ DocsOK(negs)
  <2>1. negs[n] \in Document /\ Len(negs) \in Nat /\ DocsOK(negs)
    BY DEF TypeOK, NegotiationInv
  <2>2. o \in Roles
    BY <2>1 DEF Document
  <2> QED BY <2>1, <2>2 DEF Opposite, Roles
<1>2. OfferInv(n) /\ AnswerInv(n) /\ QueueInv(m) /\ FirstInv
  BY <1>1 DEF OneSideInv, DocInv
<1>3. ~negs[n].answer
  BY <1>2 DEF AnswerInv
<1>4. n = Len(negs)
  <2>1. n \notin 1..(Len(negs) - 1)
    BY <1>2, <1>3 DEF FirstInv
  <2> QED BY <1>1, <2>1
<1>5. negs[n].offer
  <2>1. JobInv(negs, Saving(a, n, "answer"))
    BY DEF NegotiationInv
  <2> QED BY <1>1, <2>1 DEF JobInv, Saving
<1>6. m \in Client /\ KnownInv(negs, o, m) /\ TurnInv(m) /\ ChainInv(negs, m) /\ AgreedInv(negs, o, m)
  BY <1>1 DEF TypeOK, NegotiationInv, ClientInv
<1>7. Sent(m, n)
  BY <1>2, <1>5 DEF OfferInv
<1> HIDE DEF m, a
<1>8. m.processed = n /\ Len(m.known) = n
  <2>1. Len(m.known) <= Len(negs) /\ Len(m.known) \in Nat
    BY <1>1, <1>6, KnownFit, Fields
  <2>2. n <= m.processed /\ m.processed \in 0..Len(m.known)
    BY <1>6, <1>7 DEF Sent, TurnInv
  <2> QED BY <1>1, <1>4, <2>1, <2>2
<1>9. ~Between(m)
  <2> SUFFICES ASSUME Between(m) PROVE FALSE
    OBVIOUS
  <2>1. m.agreed = n /\ n > 0
    BY <1>8 DEF Between, Idle
  <2> QED BY <1>3, <1>6, <2>1 DEF AgreedInv, o
<1>10. Working(m) /\ m.current = n /\ m.known[n].id = n
  <2>1. Working(m) /\ \A i \in 1..Len(m.known) : m.known[i].id = i
    BY <1>2, <1>9 DEF QueueInv
  <2> QED BY <1>8, <2>1 DEF Working
<1>11. ~m.known[n].remote
  <2>1. n \in 1..Len(m.known)
    BY <1>8
  <2> QED BY <1>6, <1>10, <2>1 DEF KnownInv, o
<1>12. Offering(m) /\ m.gathering = {} /\ m.peer = "have-local-offer"
  BY <1>7, <1>10, <1>11 DEF Working, Sent
<1>13. ~Doing(m, {"remoteAnswer"})
  <2> SUFFICES ASSUME Doing(m, {"remoteAnswer"}) PROVE FALSE
    OBVIOUS
  <2>1. 1 \in 1..Len(m.chain) /\ m.chain[1].op = "remoteAnswer" /\ m.chain[1].at = n
    BY <1>10 DEF Doing
  <2>2. Sided(negs, m, m.chain[1])
    BY <1>6, <2>1 DEF ChainInv
  <2> QED BY <1>3, <1>10, <2>1, <2>2 DEF Sided
<1>14. Awaiting(m)
  BY <1>12, <1>13 DEF Offering, Collecting
<1> QED BY <1>3, <1>10, <1>14 DEF Waits, m

(* What is known of a description on its way, and of the documents once it *)
(* is saved                                                                *)
LEMMA SavedFacts ==
  ASSUME TypeOK, NegotiationInv, OneSideInv, NEW j \in Pending, j.step = "save"
  PROVE  LET n == j.id
             o == negs[n].offerer
         IN  /\ n \in 1..Len(negs) /\ o \in Roles
             /\ \/ j = Saving(o, n, "offer") /\ j.sdp = "offer" /\ j.role = o
                \/ j = Saving(Opposite(o), n, "answer") /\ j.sdp = "answer" /\ j.role = Opposite(o)
<1> DEFINE n == j.id
           o == negs[n].offerer
<1>1. j \in Job /\ JobInv(negs, j) /\ SaveInv
  BY DEF TypeOK, NegotiationInv, Pending, OneSideInv
<1>2. n \in 1..Len(negs) /\ j.role \in Roles /\ j.sdp \in {"offer", "answer"}
      /\ j = [step |-> "save", role |-> j.role, id |-> n, sdp |-> j.sdp]
  BY <1>1 DEF Job, JobInv
<1>3. negs[n] \in Document
  BY <1>2 DEF TypeOK
<1>4. o \in Roles
  BY <1>3 DEF Document
<1>5. j.sdp = "offer" <=> j.role = o
  BY <1>1 DEF SaveInv
<1> HIDE DEF n, o
<1>6. CASE j.role = o
  <2>1. j = Saving(o, n, "offer")
    BY <1>2, <1>5, <1>6 DEF Saving
  <2> QED BY <1>2, <1>4, <1>5, <1>6, <2>1 DEF n, o
<1>7. CASE j.role # o
  <2>1. j.role = Opposite(o) /\ j.sdp = "answer"
    BY <1>2, <1>4, <1>5, <1>7 DEF Opposite, Roles
  <2>2. j = Saving(Opposite(o), n, "answer")
    BY <1>2, <2>1 DEF Saving
  <2> QED BY <1>2, <1>4, <2>1, <2>2 DEF n, o
<1> QED BY <1>6, <1>7

(* One element of a sequence is replaced. *)
LEMMA Replaced ==
  ASSUME NEW S, NEW s \in Seq(S), NEW n \in 1..Len(s), NEW d \in S
  PROVE  LET t == [s EXCEPT ![n] = d]
         IN  /\ t \in Seq(S) /\ Len(t) = Len(s) /\ Len(s) \in Nat
             /\ t[n] = d /\ \A i \in 1..Len(s) : i # n => t[i] = s[i]
  OBVIOUS

(* One description of a document is saved. *)
LEMMA DocumentSaved ==
  ASSUME NEW d \in Document, NEW type \in {"offer", "answer"}
  PROVE  LET e == [d EXCEPT ![type] = TRUE]
         IN  /\ e \in Document /\ e.offerer = d.offerer
             /\ e.offer = (IF type = "offer" THEN TRUE ELSE d.offer)
             /\ e.answer = (IF type = "answer" THEN TRUE ELSE d.answer)
<1>1. CASE type = "offer"
  BY <1>1 DEF Document
<1>2. CASE type = "answer"
  BY <1>2 DEF Document
<1> QED BY <1>1, <1>2

(* A description is saved: the other side is told. *)
LEMMA SavedKeeps ==
  ASSUME TypeOK, NegotiationInv, OneSideInv, NEW j \in Pending, SaveSession(j), CanSave(j)
  PROVE  OneSideInv'
<1>0. PICK n : n = j.id
  OBVIOUS
<1>00. PICK o : o = negs[n].offerer
  OBVIOUS
<1> DEFINE a == Opposite(o)
           k == Do("forward", Opposite(j.role), n)
<1>1. j.step = "save" /\ Proceed(j, {k}, {}) /\ UNCHANGED <<accepted, client>>
  BY <1>0 DEF SaveSession
<1>2. /\ n \in 1..Len(negs) /\ o \in Roles
      /\ \/ j = Saving(o, n, "offer") /\ j.sdp = "offer" /\ j.role = o
         \/ j = Saving(a, n, "answer") /\ j.sdp = "answer" /\ j.role = a
  BY <1>0, <1>00, <1>1, SavedFacts
<1>3. a \in Roles /\ a # o /\ Opposite(a) = o
  BY <1>2 DEF Opposite, Roles
<1>4. k.step = "forward" /\ k.sdp = "none" /\ k.id = n
  BY DEF Do
<1> HIDE DEF a, k
<1>5. /\ negs' \in Seq(Document) /\ Len(negs') = Len(negs) /\ Len(negs) \in Nat
      /\ negs'[n].offerer = o
      /\ negs'[n].offer = (IF j.sdp = "offer" THEN TRUE ELSE negs[n].offer)
      /\ negs'[n].answer = (IF j.sdp = "answer" THEN TRUE ELSE negs[n].answer)
      /\ \A i \in 1..Len(negs) : i # n => negs'[i] = negs[i]
  <2>1. PICK d : d = [negs[n] EXCEPT ![j.sdp] = TRUE]
    OBVIOUS
  <2>2. j.sdp \in {"offer", "answer"} /\ negs' = [negs EXCEPT ![n] = d]
    BY <1>0, <1>2, <2>1 DEF SaveSession
  <2>3. negs \in Seq(Document) /\ negs[n] \in Document
    BY <1>2 DEF TypeOK
  <2>4. /\ d \in Document /\ d.offerer = negs[n].offerer
        /\ d.offer = (IF j.sdp = "offer" THEN TRUE ELSE negs[n].offer)
        /\ d.answer = (IF j.sdp = "answer" THEN TRUE ELSE negs[n].answer)
    BY <2>1, <2>2, <2>3, DocumentSaved
  <2>5. /\ negs' \in Seq(Document) /\ Len(negs') = Len(negs) /\ Len(negs) \in Nat
        /\ negs'[n] = d /\ \A i \in 1..Len(negs) : i # n => negs'[i] = negs[i]
    BY <1>2, <2>2, <2>3, <2>4, Replaced
  <2> QED BY <1>00, <2>4, <2>5
<1>6. /\ Pending' \subseteq Pending \cup {k}
      /\ \A x \in Pending : x # j => x \in Pending'
      /\ k \in Pending'
      /\ j \in Alone /\ j # k => j \notin Pending'
      /\ \A x \in Alone : x # k /\ x \in Pending' => x \in Alone'
      /\ k \notin Pending => k \in Alone'
      /\ signals' = signals
  BY <1>1, JobDone
<1>7. AcceptInv' /\ SaveInv' /\ \A r \in Roles : QueueInv(client'[r])
  <2>1. \A i \in 1..Len(negs) : negs'[i].offerer = negs[i].offerer
    BY <1>00, <1>5
  <2>2. Len(negs') \in Nat /\ Len(negs) <= Len(negs')
    BY <1>5
  <2>3. (\A x \in {k} : /\ x.sdp = "none" /\ x.step \notin {"accept", "save"}
                        /\ x.step \in {"initialOffer", "send"} => accepted'
                        /\ x.step = "initialOffer" => x = AcceptJob("initialOffer"))
        /\ \A s \in {} : s.type = "request-offer" \/ accepted'
    BY <1>4
  <2> QED BY <1>1, <2>1, <2>2, <2>3, ServerKeeps
<1>8. SilentInv' /\ FirstInv'
  <2>1. \A i \in 1..Len(negs) : negs'[i].offerer = negs[i].offerer
                                /\ (negs[i].answer => negs'[i].answer)
    BY <1>00, <1>5
  <2>2. \A x \in {k} : x.step \notin {"ack", "needed", "start", "startFirst"}
    BY <1>4
  <2> QED BY <1>1, <1>5, <2>1, <2>2, NoneStarted
<1>9. ASSUME NEW i \in 1..Len(negs), i # n PROVE DocInv(i)'
  <2>1. j \notin JobsOf(i) /\ \A x \in {k} : x \notin JobsOf(i)
    BY <1>0, <1>4, <1>9 DEF JobsOf
  <2>2. AcceptJob("initialOffer") \in Pending => AcceptJob("initialOffer") \in Pending'
    <3>1. AcceptJob("initialOffer") # j
      BY <1>1 DEF AcceptJob, Do
    <3> QED BY <1>6, <3>1
  <2>3. Apart(i)
    BY <1>1, <1>5, <1>9, <2>1, <2>2, ServerApart
  <2> QED BY <2>3, ApartKeeps DEF OneSideInv
<1>10. DocInv(n)'
  <2>1. OfferInv(n) /\ AnswerInv(n) /\ ReplyInv(n) /\ HearInv(n)
    BY <1>2 DEF OneSideInv, DocInv
  <2>2. \A x \in Telling(o, n) \cup Telling(a, n) : x # j
    BY <1>1 DEF Telling, Do
  <2>3. Saving(o, n, "offer") # Saving(a, n, "answer") /\ Saving(o, n, "offer") # k
        /\ Saving(a, n, "answer") # k /\ AcceptJob("initialOffer") # j
    BY <1>1, <1>4 DEF Saving, AcceptJob, Do
  <2>4. CASE j.sdp = "offer"
    <3>1. j = Saving(o, n, "offer") /\ j.role = o /\ k = Do("forward", a, n)
      BY <1>2, <2>4 DEF a, k, Saving
    <3>2. OfferInv(n)'
      <4>1. Sent(client[o], n)
        BY <1>00, <2>1, <3>1 DEF OfferInv
      <4>2. negs'[n].offer \/ Saving(o, n, "offer") \in Pending' <=> Sent(client'[o], n)
        BY <1>1, <1>5, <2>4, <4>1
      <4> QED BY <1>5, <4>2 DEF OfferInv
    <3>3. AnswerInv(n)'
      <4>1. LET s == Saving(Opposite(negs[n].offerer), n, "answer")
            IN  (s \in Pending' <=> s \in Pending) /\ (s \in Alone => s \in Alone')
        BY <1>00, <1>6, <2>3, <3>1 DEF a, Alone
      <4> QED BY <1>00, <1>1, <1>5, <2>1, <2>4, <4>1, AnswerKept
    <3>4. ReplyInv(n)'
      <4>1. \A x \in Telling(o, n) : x # k
        BY <1>3, <3>1 DEF Telling, Do
      <4>2. \A x \in Telling(o, n) : (x \in Pending' <=> x \in Pending) /\ (x \in Alone => x \in Alone')
        BY <1>6, <2>2, <4>1 DEF Alone
      <4> QED BY <1>00, <1>1, <1>5, <1>6, <2>1, <2>4, <4>2, ReplyKept
    <3>5. HearInv(n)'
      <4>1. n <= Len(client[o].known) \/ Request(o, n) \in signals
        BY <1>00, <2>1 DEF HearInv
      <4>2. \E x \in Telling(a, n) : x \in Pending'
        BY <1>6, <3>1 DEF Telling
      <4> QED BY <1>1, <1>5, <1>6, <4>1, <4>2 DEF HearInv, a
    <3> QED BY <3>2, <3>3, <3>4, <3>5 DEF DocInv
  <2>5. CASE j.sdp = "answer"
    <3>1. j = Saving(a, n, "answer") /\ j.role = a /\ k = Do("forward", o, n)
      BY <1>2, <1>3, <2>5 DEF k, Saving
    <3>2. ~negs[n].answer /\ Waits(client[o], n)
      BY <1>00, <1>2, <3>1, AnswerAwaited DEF a
    <3>3. j \in Alone /\ Sent(client[a], n)
      BY <1>00, <2>1, <3>1 DEF AnswerInv, a
    <3>4. OfferInv(n)'
      <4>1. Saving(negs[n].offerer, n, "offer") \in Pending' <=> Saving(negs[n].offerer, n, "offer") \in Pending
        BY <1>00, <1>6, <2>3, <3>1
      <4> QED BY <1>00, <1>1, <1>5, <2>1, <2>5, <4>1, OfferKept
    <3>5. AnswerInv(n)'
      <4>1. Saving(a, n, "answer") \notin Pending'
        BY <1>6, <2>3, <3>1, <3>3
      <4>2. /\ negs'[n].answer \/ Saving(a, n, "answer") \in Pending' <=> Sent(client'[a], n)
            /\ Saving(a, n, "answer") \in Pending' => ~negs'[n].answer /\ Saving(a, n, "answer") \in Alone'
        BY <1>1, <1>5, <2>5, <3>3, <4>1
      <4> QED BY <1>5, <4>2 DEF AnswerInv, a
    <3>6. ReplyInv(n)'
      <4>1. (\A x \in Telling(o, n) : x \notin Pending) /\ AnswerTo(o, n) \notin signals
        BY <1>00, <2>1, <3>2 DEF ReplyInv
      <4>2. k \in Telling(o, n) /\ \A x \in Telling(o, n) : x \in Pending' => x = k
        BY <1>6, <3>1, <4>1 DEF Telling
      <4>3. k \in Pending' /\ k \in Alone'
        BY <1>6, <4>1, <4>2
      <4>4. negs'[n].answer /\ Waits(client'[o], n) /\ AnswerTo(o, n) \notin signals'
        BY <1>1, <1>5, <1>6, <2>5, <3>2, <4>1
      <4>5. /\ \A x \in Telling(o, n) :
                 x \in Pending' => /\ negs'[n].answer /\ Waits(client'[o], n) /\ x \in Alone'
                                   /\ \A y \in Telling(o, n) : y \in Pending' => y = x
                                   /\ AnswerTo(o, n) \notin signals'
            /\ AnswerTo(o, n) \in signals' => negs'[n].answer /\ Waits(client'[o], n)
            /\ negs'[n].answer /\ Waits(client'[o], n) =>
                 AnswerTo(o, n) \in signals' \/ \E x \in Telling(o, n) : x \in Pending'
        BY <4>2, <4>3, <4>4
      <4> QED BY <1>5, <4>5 DEF ReplyInv
    <3>7. HearInv(n)'
      <4>1. LET b == Opposite(negs[n].offerer)
            IN  (\E x \in Telling(b, n) : x \in Pending)
                   => OfferTo(b, n) \in signals' \/ \E x \in Telling(b, n) : x \in Pending'
        BY <1>00, <1>6, <2>2 DEF a
      <4> QED BY <1>00, <1>1, <1>5, <1>6, <2>1, <2>3, <2>5, <4>1, HearKept
    <3> QED BY <3>4, <3>5, <3>6, <3>7 DEF DocInv
  <2> QED BY <1>2, <2>4, <2>5
<1>11. \A i \in 1..Len(negs') : DocInv(i)'
  BY <1>5, <1>9, <1>10
<1> QED BY <1>7, <1>8, <1>11 DEF OneSideInv

(* A description that was saved before is dropped. *)
LEMMA DroppedKeeps ==
  ASSUME TypeOK, NegotiationInv, OneSideInv, NEW j \in Pending, SaveSession(j), ~CanSave(j)
  PROVE  OneSideInv'
<1>0. PICK n : n = j.id
  OBVIOUS
<1>00. PICK o : o = negs[n].offerer
  OBVIOUS
<1> DEFINE a == Opposite(o)
<1>1. j.step = "save" /\ Proceed(j, {}, {}) /\ UNCHANGED <<accepted, negs, client>>
  BY DEF SaveSession
<1>2. /\ n \in 1..Len(negs) /\ o \in Roles
      /\ \/ j = Saving(o, n, "offer") /\ j.sdp = "offer" /\ j.role = o
         \/ j = Saving(a, n, "answer") /\ j.sdp = "answer" /\ j.role = a
  BY <1>0, <1>00, <1>1, SavedFacts
<1>3. negs[n][j.sdp]
  <2>1. SaveInv
    BY DEF OneSideInv
  <2>2. (j.sdp = "offer") <=> (j.role = negs[j.id].offerer)
    BY <1>1, <2>1 DEF SaveInv
  <2> QED BY <1>0, <2>2 DEF CanSave
<1>4. j = Saving(o, n, "offer") /\ negs[n].offer
  <2>1. CASE j = Saving(a, n, "answer") /\ j.sdp = "answer"
    <3>1. ~negs[n].answer
      BY <1>00, <1>2, <2>1, AnswerAwaited
    <3> QED BY <1>3, <2>1, <3>1
  <2> QED BY <1>2, <1>3, <2>1
<1>5. /\ Pending' \subseteq Pending
      /\ \A x \in Pending : x # j => x \in Pending'
      /\ \A x \in Alone : x \in Pending' => x \in Alone'
      /\ signals' = signals
  BY <1>1, JobDone
<1>6. negs \in Seq(Document) /\ Len(negs) \in Nat
  BY DEF TypeOK
<1>7. AcceptInv' /\ SaveInv' /\ \A r \in Roles : QueueInv(client'[r])
  BY <1>1, <1>6, ServerKeeps
<1>8. SilentInv' /\ FirstInv'
  BY <1>1, <1>6, NoneStarted
<1>9. AcceptJob("initialOffer") # j
  BY <1>1 DEF AcceptJob, Do
<1>10. ASSUME NEW i \in 1..Len(negs), i # n PROVE DocInv(i)'
  <2>1. j \notin JobsOf(i) /\ \A x \in {} : x \notin JobsOf(i)
    BY <1>0, <1>10 DEF JobsOf
  <2>2. Apart(i)
    BY <1>1, <1>5, <1>9, <2>1, ServerApart
  <2> QED BY <2>2, ApartKeeps DEF OneSideInv
<1>11. DocInv(n)'
  <2>1. OfferInv(n) /\ AnswerInv(n) /\ ReplyInv(n) /\ HearInv(n)
    BY <1>2 DEF OneSideInv, DocInv
  <2>2. (\A x \in Telling(o, n) \cup Telling(a, n) : x # j) /\ j # Saving(a, n, "answer")
    BY <1>1, <1>4 DEF Telling, Do, Saving
  <2>3. OfferInv(n)'
    <3>1. Sent(client[o], n)
      BY <1>00, <1>4, <2>1 DEF OfferInv
    <3> QED BY <1>00, <1>1, <1>4, <3>1 DEF OfferInv
  <2>4. AnswerInv(n)'
    <3>1. LET s == Saving(Opposite(negs[n].offerer), n, "answer")
          IN  (s \in Pending' <=> s \in Pending) /\ (s \in Alone => s \in Alone')
      BY <1>00, <1>5, <2>2 DEF Alone
    <3> QED BY <1>1, <2>1, <3>1, AnswerKept
  <2>5. ReplyInv(n)'
    <3>1. \A x \in Telling(negs[n].offerer, n) :
              (x \in Pending' <=> x \in Pending) /\ (x \in Alone => x \in Alone')
      BY <1>00, <1>5, <2>2 DEF Alone
    <3> QED BY <1>1, <1>5, <2>1, <3>1, ReplyKept
  <2>6. HearInv(n)'
    <3>1. LET b == Opposite(negs[n].offerer)
          IN  (\E x \in Telling(b, n) : x \in Pending)
                 => OfferTo(b, n) \in signals' \/ \E x \in Telling(b, n) : x \in Pending'
      BY <1>00, <1>5, <2>2
    <3> QED BY <1>1, <1>5, <1>9, <2>1, <3>1, HearKept
  <2> QED BY <2>3, <2>4, <2>5, <2>6 DEF DocInv
<1>12. \A i \in 1..Len(negs') : DocInv(i)'
  BY <1>1, <1>10, <1>11
<1> QED BY <1>7, <1>8, <1>12 DEF OneSideInv

(* A job that tells a role of a description *)
LEMMA TellingFacts ==
  ASSUME TypeOK, NegotiationInv, OneSideInv, NEW j \in Pending, j.step \in {"forward", "send"}
  PROVE  LET n == j.id
             o == negs[n].offerer
         IN  /\ n \in 1..Len(negs) /\ o \in Roles /\ (j.role = o \/ j.role = Opposite(o))
             /\ j = Do(j.step, j.role, n)
<1> DEFINE n == j.id
           o == negs[n].offerer
<1>1. j \in Job /\ JobInv(negs, j) /\ j.sdp = "none"
  BY DEF TypeOK, NegotiationInv, Pending, OneSideInv, AcceptInv
<1>2. n \in 1..Len(negs) /\ j.role \in Roles
      /\ j = [step |-> j.step, role |-> j.role, id |-> n, sdp |-> "none"]
  BY <1>1 DEF Job, JobInv
<1>3. negs[n] \in Document
  BY <1>2 DEF TypeOK
<1>4. o \in Roles
  BY <1>3 DEF Document
<1> QED BY <1>2, <1>4 DEF Do, Opposite, Roles

(* One that leaves negotiation n told as well as it was *)
LEMMA TellingKeeps ==
  ASSUME TypeOK, NegotiationInv, OneSideInv, NEW j \in Pending, NEW next, NEW sent,
         j.step \in {"forward", "send"}, Proceed(j, next, sent), UNCHANGED <<accepted, negs, client>>,
         \A k \in next : k.step = "send" /\ k.id = j.id /\ k.role = j.role /\ k.sdp = "none" /\ accepted,
         \A s \in sent : s.type = "request-offer" \/ accepted,
         \A s \in sent : s.id = j.id,
         ReplyInv(j.id)', HearInv(j.id)'
  PROVE  OneSideInv'
<1>0. PICK n : n = j.id
  OBVIOUS
<1>1. n \in 1..Len(negs)
  BY <1>0, TellingFacts
<1>2. negs \in Seq(Document) /\ Len(negs) \in Nat
  BY DEF TypeOK
<1>3. /\ Pending' \subseteq Pending \cup next
      /\ \A k \in Pending : k # j => k \in Pending'
      /\ \A k \in Alone : k \notin next /\ k \in Pending' => k \in Alone'
  BY JobDone
<1>4. AcceptInv' /\ SaveInv' /\ \A r \in Roles : QueueInv(client'[r])
  <2>1. (\A x \in next : /\ x.sdp = "none" /\ x.step \notin {"accept", "save"}
                         /\ x.step \in {"initialOffer", "send"} => accepted'
                         /\ x.step = "initialOffer" => x = AcceptJob("initialOffer"))
        /\ \A s \in sent : s.type = "request-offer" \/ accepted'
    OBVIOUS
  <2> QED BY <1>2, <2>1, ServerKeeps
<1>5. SilentInv' /\ FirstInv'
  <2>1. \A x \in next : x.step \notin {"ack", "needed", "start", "startFirst"}
    OBVIOUS
  <2> QED BY <1>2, <2>1, NoneStarted
<1>6. ASSUME NEW i \in 1..Len(negs), i # n PROVE DocInv(i)'
  <2>1. j \notin JobsOf(i) /\ \A x \in next : x \notin JobsOf(i)
    BY <1>0, <1>6 DEF JobsOf
  <2>2. AcceptJob("initialOffer") \in Pending => AcceptJob("initialOffer") \in Pending'
    <3>1. AcceptJob("initialOffer") # j
      BY DEF AcceptJob, Do
    <3> QED BY <1>3, <3>1
  <2>3. \A s \in sent : s.type # "answer" \/ s.id # i
    BY <1>0, <1>6
  <2>4. Apart(i)
    BY <2>1, <2>2, <2>3, ServerApart
  <2> QED BY <2>4, ApartKeeps DEF OneSideInv
<1>7. DocInv(n)'
  <2> DEFINE o == negs[n].offerer
  <2>1. OfferInv(n) /\ AnswerInv(n)
    BY <1>1 DEF OneSideInv, DocInv
  <2>2. \A r \in Roles, type \in {"offer", "answer"} :
             /\ Saving(r, n, type) # j /\ Saving(r, n, type) \notin next
    BY DEF Saving
  <2>3. o \in Roles /\ Opposite(o) \in Roles
    BY <1>0, TellingFacts DEF Opposite, Roles
  <2>4. OfferInv(n)'
    <3>1. Saving(o, n, "offer") \in Pending' <=> Saving(o, n, "offer") \in Pending
      BY <1>3, <2>2, <2>3
    <3> QED BY <2>1, <3>1, OfferKept
  <2>5. AnswerInv(n)'
    <3>1. LET s == Saving(Opposite(negs[n].offerer), n, "answer")
          IN  (s \in Pending' <=> s \in Pending) /\ (s \in Alone => s \in Alone')
      BY <1>3, <2>2, <2>3 DEF Alone
    <3> QED BY <2>1, <3>1, AnswerKept
  <2>6. ReplyInv(n)' /\ HearInv(n)'
    BY <1>0
  <2> QED BY <2>4, <2>5, <2>6 DEF DocInv
<1>8. \A i \in 1..Len(negs') : DocInv(i)'
  BY <1>6, <1>7
<1> QED BY <1>4, <1>5, <1>8 DEF OneSideInv

(* The offerer is told of the answer once: nothing else does, and it waits. *)
LEMMA Told ==
  ASSUME TypeOK, NegotiationInv, OneSideInv, NEW j \in Pending, j.step \in {"forward", "send"},
         j.role = negs[j.id].offerer
  PROVE  LET n == j.id
             o == j.role
         IN  /\ j \in Alone /\ negs[n].answer /\ negs[n].offer /\ Waits(client[o], n)
             /\ \A k \in Telling(o, n) : k \in Pending => k = j
             /\ AnswerTo(o, n) \notin signals
             /\ j \in Telling(o, n) /\ accepted
<1> DEFINE n == j.id
           o == j.role
<1>1. n \in 1..Len(negs) /\ o \in Roles /\ j = Do(j.step, o, n) /\ negs[n].offerer = o
  BY TellingFacts
<1>2. j \in Telling(o, n)
  BY <1>1 DEF Telling
<1>3. ReplyInv(n) /\ AnswerInv(n)
  BY <1>1 DEF OneSideInv, DocInv
<1>4. /\ j \in Alone /\ negs[n].answer /\ Waits(client[o], n)
      /\ \A k \in Telling(o, n) : k \in Pending => k = j
      /\ AnswerTo(o, n) \notin signals
  BY <1>1, <1>2, <1>3 DEF ReplyInv
<1>5. negs[n].offer
  BY <1>1, <1>4 DEF NegotiationInv, DocsOK
<1>6. Sent(client[Opposite(o)], n)
  BY <1>1, <1>3, <1>4 DEF AnswerInv
<1>7. accepted
  <2> SUFFICES ASSUME ~accepted PROVE FALSE
    OBVIOUS
  <2>1. ~Sent(client["callee"], n) /\ ~Waits(client["callee"], n)
    BY <1>1, CalleeWaits
  <2> QED BY <1>1, <1>4, <1>6, <2>1 DEF Opposite, Roles
<1> QED BY <1>2, <1>4, <1>5, <1>7

(* onRemoteDescriptionChanged: whom the description is for is read ... *)
LEMMA ForwardKeeps ==
  ASSUME TypeOK, NegotiationInv, OneSideInv, NEW j \in Pending, Forward(j)
  PROVE  OneSideInv'
<1>0. PICK n : n = j.id
  OBVIOUS
<1>00. PICK o : o = negs[n].offerer
  OBVIOUS
<1> DEFINE a == Opposite(o)
           k == Do("send", j.role, n)
           next == IF accepted THEN {k} ELSE {}
<1>1. j.step = "forward" /\ Proceed(j, next, {}) /\ UNCHANGED <<accepted, negs, client>>
  BY <1>0 DEF Forward
<1>2. n \in 1..Len(negs) /\ o \in Roles /\ (j.role = o \/ j.role = a) /\ j = Do("forward", j.role, n)
  BY <1>0, <1>00, <1>1, TellingFacts
<1>3. a \in Roles /\ a # o
  BY <1>2 DEF Opposite, Roles
<1>4. k.step = "send" /\ k.id = n /\ k.role = j.role /\ k.sdp = "none" /\ k # j
  BY <1>1 DEF Do
<1>5. (accepted => next = {k}) /\ (~accepted => next = {})
  OBVIOUS
<1> HIDE DEF a, k, next
<1>6. /\ Pending' \subseteq Pending \cup next
      /\ \A x \in Pending : x # j => x \in Pending'
      /\ next \subseteq Pending'
      /\ j \in Alone /\ j \notin next => j \notin Pending'
      /\ \A x \in Alone : x \notin next /\ x \in Pending' => x \in Alone'
      /\ \A x \in next : x \notin Pending => x \in Alone'
      /\ signals' = signals
  BY <1>1, JobDone
<1>7. OfferInv(n) /\ AnswerInv(n) /\ ReplyInv(n) /\ HearInv(n)
  BY <1>2 DEF OneSideInv, DocInv
<1>8. \A r \in Roles : \A x \in Telling(r, n) : x.role = r
  BY DEF Telling, Do
<1>9. ReplyInv(n)' /\ HearInv(n)'
  <2>1. CASE j.role = o
    <3>1. /\ j \in Alone /\ negs[n].answer /\ Waits(client[o], n)
          /\ \A x \in Telling(o, n) : x \in Pending => x = j
          /\ AnswerTo(o, n) \notin signals /\ accepted
      BY <1>0, <1>00, <1>1, <2>1, Told
    <3>2. k \in Telling(o, n) /\ next = {k} /\ k \notin Pending
      <4>1. k \in Telling(o, n)
        BY <2>1 DEF k, Telling
      <4> QED BY <1>4, <1>5, <3>1, <4>1
    <3>3. j \notin Pending' /\ k \in Pending' /\ k \in Alone'
      BY <1>4, <1>6, <3>1, <3>2
    <3>4. \A x \in Telling(o, n) : x \in Pending' => x = k
      BY <1>6, <3>1, <3>2, <3>3
    <3>5. ReplyInv(n)'
      <4>1. /\ \A x \in Telling(o, n) :
                 x \in Pending' => /\ negs'[n].answer /\ Waits(client'[o], n) /\ x \in Alone'
                                   /\ \A y \in Telling(o, n) : y \in Pending' => y = x
                                   /\ AnswerTo(o, n) \notin signals'
            /\ AnswerTo(o, n) \in signals' => negs'[n].answer /\ Waits(client'[o], n)
            /\ negs'[n].answer /\ Waits(client'[o], n) =>
                 AnswerTo(o, n) \in signals' \/ \E x \in Telling(o, n) : x \in Pending'
        BY <1>1, <1>6, <3>1, <3>2, <3>3, <3>4
      <4> QED BY <1>00, <1>1, <4>1 DEF ReplyInv
    <3>6. HearInv(n)'
      <4>1. LET b == Opposite(negs[n].offerer)
            IN  (\E x \in Telling(b, n) : x \in Pending)
                   => OfferTo(b, n) \in signals' \/ \E x \in Telling(b, n) : x \in Pending'
        <5>1. \A x \in Telling(a, n) : x # j
          BY <1>3, <1>8, <2>1
        <5> QED BY <1>00, <1>6, <5>1 DEF a
      <4>2. AcceptJob("initialOffer") # j
        BY <1>1 DEF AcceptJob, Do
      <4> QED BY <1>1, <1>6, <1>7, <4>1, <4>2, HearKept
    <3> QED BY <3>5, <3>6
  <2>2. CASE j.role = a
    <3>1. \A x \in Telling(o, n) : x # j /\ x # k
      BY <1>2, <1>3, <1>4, <1>8, <2>2
    <3>2. ReplyInv(n)'
      <4>1. \A x \in Telling(negs[n].offerer, n) :
                (x \in Pending' <=> x \in Pending) /\ (x \in Alone => x \in Alone')
        BY <1>00, <1>5, <1>6, <3>1 DEF Alone
      <4> QED BY <1>1, <1>6, <1>7, <4>1, ReplyKept
    <3>3. n <= Len(client[o].known) \/ Request(o, n) \in signals
      BY <1>00, <1>7 DEF HearInv
    <3>4. negs[n].offer => \/ \E x \in Telling(a, n) : x \in Pending'
                           \/ a = "callee" /\ ~accepted
      <4>1. CASE accepted
        <5>1. k \in Telling(a, n) /\ k \in Pending'
          BY <1>5, <1>6, <2>2, <4>1 DEF k, Telling
        <5> QED BY <5>1
      <4>2. CASE ~accepted
        <5>1. ~Sent(client["callee"], n)
          BY <1>2, <4>2, CalleeWaits
        <5>2. negs[n].offer => Sent(client[o], n)
          BY <1>00, <1>7 DEF OfferInv
        <5> QED BY <1>2, <1>3, <4>2, <5>1, <5>2 DEF Roles
      <4> QED BY <4>1, <4>2
    <3>5. HearInv(n)'
      <4>1. /\ n <= Len(client'[o].known) \/ Request(o, n) \in signals'
            /\ negs'[n].offer => \/ n <= Len(client'[a].known) \/ OfferTo(a, n) \in signals'
                                 \/ \E x \in Telling(a, n) : x \in Pending'
                                 \/ a = "callee" /\ (~accepted' \/ AcceptJob("initialOffer") \in Pending')
        BY <1>1, <1>6, <3>3, <3>4
      <4> QED BY <1>00, <1>1, <4>1 DEF HearInv, a
    <3> QED BY <3>2, <3>5
  <2> QED BY <1>2, <2>1, <2>2
<1>10. \A x \in next : x.step = "send" /\ x.id = j.id /\ x.role = j.role /\ x.sdp = "none" /\ accepted
  BY <1>0, <1>4, <1>5
<1> QED BY <1>0, <1>1, <1>9, <1>10, TellingKeeps

(* ... and what is sent. *)
LEMMA SendKeeps ==
  ASSUME TypeOK, NegotiationInv, OneSideInv, NEW j \in Pending, Send(j)
  PROVE  OneSideInv'
<1>0. PICK n : n = j.id
  OBVIOUS
<1>00. PICK o : o = negs[n].offerer
  OBVIOUS
<1> DEFINE a == Opposite(o)
           sent == DescriptionFor(j.role, n)
<1>1. j.step = "send" /\ Proceed(j, {}, sent) /\ UNCHANGED <<accepted, negs, client>>
  BY <1>0 DEF Send
<1>2. n \in 1..Len(negs) /\ o \in Roles /\ (j.role = o \/ j.role = a) /\ j = Do("send", j.role, n)
  BY <1>0, <1>00, <1>1, TellingFacts
<1>3. a \in Roles /\ a # o
  BY <1>2 DEF Opposite, Roles
<1>4. accepted /\ \A s \in sent : s.id = n
  <2>1. accepted
    BY <1>1 DEF OneSideInv, AcceptInv
  <2> QED BY <2>1 DEF DescriptionFor, Request
<1>5. /\ j.role = a => (\A s \in sent : s.type # "answer") /\ (negs[n].offer => OfferTo(a, n) \in sent)
      /\ j.role = o /\ negs[n].offer /\ negs[n].answer => AnswerTo(o, n) \in sent
  BY <1>00, <1>3 DEF DescriptionFor, OfferTo, AnswerTo
<1> HIDE DEF a, sent
<1>6. /\ Pending' \subseteq Pending
      /\ \A x \in Pending : x # j => x \in Pending'
      /\ j \in Alone => j \notin Pending'
      /\ \A x \in Alone : x \in Pending' => x \in Alone'
      /\ signals' = signals \cup sent
  BY <1>1, JobDone
<1>7. OfferInv(n) /\ AnswerInv(n) /\ ReplyInv(n) /\ HearInv(n)
  BY <1>2 DEF OneSideInv, DocInv
<1>8. \A r \in Roles : \A x \in Telling(r, n) : x.role = r
  BY DEF Telling, Do
<1>9. ReplyInv(n)' /\ HearInv(n)'
  <2>1. CASE j.role = o
    <3>1. /\ j \in Alone /\ negs[n].answer /\ negs[n].offer /\ Waits(client[o], n)
          /\ \A x \in Telling(o, n) : x \in Pending => x = j
      BY <1>0, <1>00, <1>1, <2>1, Told
    <3>2. AnswerTo(o, n) \in signals' /\ \A x \in Telling(o, n) : x \notin Pending'
      BY <1>5, <1>6, <2>1, <3>1
    <3>3. ReplyInv(n)'
      <4>1. negs'[n].answer /\ Waits(client'[o], n)
        BY <1>1, <3>1
      <4> QED BY <1>00, <1>1, <3>2, <4>1 DEF ReplyInv
    <3>4. HearInv(n)'
      <4>1. LET b == Opposite(negs[n].offerer)
            IN  (\E x \in Telling(b, n) : x \in Pending)
                   => OfferTo(b, n) \in signals' \/ \E x \in Telling(b, n) : x \in Pending'
        <5>1. \A x \in Telling(a, n) : x # j
          BY <1>3, <1>8, <2>1
        <5> QED BY <1>00, <1>6, <5>1 DEF a
      <4>2. AcceptJob("initialOffer") # j
        BY <1>1 DEF AcceptJob, Do
      <4> QED BY <1>1, <1>6, <1>7, <4>1, <4>2, HearKept
    <3> QED BY <3>3, <3>4
  <2>2. CASE j.role = a
    <3>1. \A x \in Telling(o, n) : x # j
      BY <1>2, <1>3, <1>8, <2>2
    <3>2. ReplyInv(n)'
      <4>1. \A x \in Telling(negs[n].offerer, n) :
                (x \in Pending' <=> x \in Pending) /\ (x \in Alone => x \in Alone')
        BY <1>00, <1>6, <3>1 DEF Alone
      <4>2. AnswerTo(negs[n].offerer, n) \in signals' <=> AnswerTo(negs[n].offerer, n) \in signals
        BY <1>5, <1>6, <2>2 DEF AnswerTo
      <4> QED BY <1>1, <1>7, <4>1, <4>2, ReplyKept
    <3>3. HearInv(n)'
      <4>1. n <= Len(client[o].known) \/ Request(o, n) \in signals
        BY <1>00, <1>7 DEF HearInv
      <4>2. negs[n].offer => OfferTo(a, n) \in signals'
        BY <1>5, <1>6, <2>2
      <4>3. /\ n <= Len(client'[o].known) \/ Request(o, n) \in signals'
            /\ negs'[n].offer => \/ n <= Len(client'[a].known) \/ OfferTo(a, n) \in signals'
                                 \/ \E x \in Telling(a, n) : x \in Pending'
                                 \/ a = "callee" /\ (~accepted' \/ AcceptJob("initialOffer") \in Pending')
        BY <1>1, <1>6, <4>1, <4>2
      <4> QED BY <1>00, <1>1, <4>3 DEF HearInv, a
    <3> QED BY <3>2, <3>3
  <2> QED BY <1>2, <2>1, <2>2
<1>10. (\A x \in {} : x.step = "send" /\ x.id = j.id /\ x.role = j.role /\ x.sdp = "none" /\ accepted)
       /\ (\A s \in sent : s.type = "request-offer" \/ accepted) /\ \A s \in sent : s.id = j.id
  BY <1>0, <1>4
<1> QED BY <1>0, <1>1, <1>9, <1>10, TellingKeeps

(* Every handler keeps the invariant. *)
LEMMA HandleKeeps ==
  ASSUME TypeOK, NegotiationInv, OneSideInv, RequestsOneByOne, NEW j \in Pending, Handle(j)
  PROVE  OneSideInv' /\ client' = client
<1>1. CASE Acknowledge(j)
  BY <1>1, AcknowledgeKeeps DEF Acknowledge
<1>2. CASE StartNewNegotiation(j)
  <2>1. TypeOK'
    BY <1>2, StartOK
  <2> QED BY <1>2, <2>1, StartKeeps DEF StartNewNegotiation, Start
<1>3. CASE Accept(j)
  BY <1>3, AcceptKeeps DEF Accept
<1>4. CASE InitialOffer(j)
  BY <1>4, InitialOfferKeeps DEF InitialOffer
<1>5. CASE SaveSession(j)
  BY <1>5, SavedKeeps, DroppedKeeps DEF SaveSession
<1>6. CASE Forward(j)
  BY <1>6, ForwardKeeps DEF Forward
<1>7. CASE Send(j)
  BY <1>7, SendKeeps DEF Send
<1>8. CASE NegotiationNeeded(j)
  BY <1>8, NeededKeeps DEF NegotiationNeeded
<1> QED BY <1>1, <1>2, <1>3, <1>4, <1>5, <1>6, <1>7, <1>8 DEF Handle

-----------------------------------------------------------------------------
(* The theorems, as long as requests do not overlap *)

(* The invariant holds at first, *)
LEMMA OneSideInit ==
  ASSUME Init PROVE OneSideInv
<1> DEFINE ack == Do("ack", "caller", 0)
           accept == Do("accept", "callee", 0)
<1>1. negs = << >> /\ signals = {} /\ accepted = FALSE /\ Len(negs) = 0
  BY DEF Init
<1>2. ack.step = "ack" /\ ack.role = "caller" /\ accept.step = "accept" /\ accept = AcceptJob("accept")
  BY DEF Do, AcceptJob
<1>3. server = SetToBag({ack, accept})
  BY DEF Init
<1> HIDE DEF ack, accept
<1>4. Pending = {ack, accept} /\ Alone = {ack, accept}
  <2>1. DOMAIN server = {ack, accept} /\ server[ack] = 1 /\ server[accept] = 1
    BY <1>3 DEF SetToBag
  <2>2. Pending = {ack, accept}
    BY <2>1 DEF Pending, BagToSet
  <2> QED BY <2>1, <2>2 DEF Alone
<1>5. ASSUME NEW r \in Roles
      PROVE  /\ client[r].known = << >> /\ client[r].chain = << >> /\ client[r].processed = 0
             /\ client[r].current = 0 /\ client[r].ended = {} /\ client[r].gathering = {}
             /\ client[r].agreed = 0 /\ client[r].peer = "stable" /\ client[r].toggles = 0
             /\ Untouched(client[r])
  BY DEF Init, Untouched
<1>6. SilentInv
  <2>1. \A j \in Pending : j.step \notin {"needed", "start"}
    BY <1>2, <1>4
  <2>2. Requests = {}
    BY <2>1 DEF Requests
  <2>3. 2..Len(negs) = {}
    BY <1>1
  <2>4. \E q \in Roles : client[q].toggles = 0
    BY <1>5 DEF Roles
  <2> QED BY <1>5, <2>2, <2>3, <2>4 DEF SilentInv
<1>7. FirstInv
  <2>1. Firsts = {ack}
    BY <1>2, <1>4 DEF Firsts
  <2>2. 1..(Len(negs) - 1) = {}
    BY <1>1
  <2>3. \A j \in Pending : j.step # "start"
    BY <1>2, <1>4
  <2> QED BY <1>1, <1>2, <1>4, <2>1, <2>2, <2>3 DEF FirstInv
<1>8. AcceptInv
  <2>1. client["callee"].known = << >>
    BY <1>5 DEF Roles
  <2> QED BY <1>1, <1>2, <1>4, <2>1 DEF AcceptInv
<1>9. SaveInv
  BY <1>2, <1>4 DEF SaveInv
<1>10. ASSUME NEW r \in Roles PROVE QueueInv(client[r])
  <2>1. Len(client[r].known) = 0 /\ Len(client[r].chain) = 0 /\ 1..0 = {}
    BY <1>5
  <2>2. Between(client[r])
    BY <1>5, <2>1 DEF Between, Idle
  <2> QED BY <1>5, <2>1, <2>2 DEF QueueInv
<1>11. \A n \in 1..Len(negs) : DocInv(n)
  BY <1>1
<1> QED BY <1>6, <1>7, <1>8, <1>9, <1>10, <1>11 DEF OneSideInv

(* and every step keeps it and lets no connection go back. *)
LEMMA OneSideStep ==
  ASSUME ~Together, TypeOK, NegotiationInv, OneSideInv, RequestsOneByOne, [Next]_vars
  PROVE  OneSideInv' /\ \A q \in Roles : client[q].agreed <= client'[q].agreed
<1>0. \A q \in Roles : client[q].agreed <= client[q].agreed
  <2>1. \A q \in Roles : client[q].agreed \in 0..MaxNegotiations
    BY Fields DEF TypeOK
  <2> QED BY <2>1, NegotiationAssumption DEF NegotiationAssumption
<1> DEFINE Goal == OneSideInv' /\ \A q \in Roles : client[q].agreed <= client'[q].agreed
<1>1. ASSUME NEW j \in BagToSet(server), Handle(j) PROVE Goal
  BY <1>0, <1>1, HandleKeeps DEF Pending
<1>2. ASSUME NEW s \in signals, Receive(s) PROVE Goal
  BY <1>2, ReceiveKeeps
<1>3. ASSUME NEW r \in Roles, Operate(r) \/ GetInputTrack(r) PROVE Goal
  <2>1. QueueInv(client[r])
    BY DEF OneSideInv
  <2>2. /\ \E k : Moves(k, client[r]) /\ client' = [client EXCEPT ![r] = k]
        /\ UNCHANGED <<accepted, negs, server, signals>>
    BY <1>3, <2>1, OperateMoves, GetInputTrackMoves
  <2>3. Adds({}) /\ \A j \in {} : j.step = "needed" /\ j.role = r /\ client[r].toggles # 0
    BY <2>2, NothingAdded
  <2> QED BY <2>2, <2>3, MovesKeep
<1>4. ASSUME NEW r \in Roles, AskForNegotiation(r) PROVE Goal
  BY <1>4, AskKeeps
<1>5. ASSUME NEW r \in Roles, NEW i \in Ids, Gathered(r, i) PROVE Goal
  BY <1>5, GatheredKeeps
<1>6. ASSUME NEW r \in Roles, SetHeld(r) PROVE Goal
  BY <1>6, SetHeldKeeps
<1>7. Tardy \subseteq Roles
  BY NegotiationAssumption DEF NegotiationAssumption
<1>8. CASE UNCHANGED vars
  <2>1. /\ accepted' = accepted /\ negs' = negs /\ server' = server /\ signals' = signals
        /\ client' = client
    BY <1>8 DEF vars
  <2>2. Pending' = Pending /\ Alone' = Alone
    BY <2>1 DEF Pending, Alone
  <2>3. SilentInv' /\ FirstInv' /\ AcceptInv' /\ SaveInv' /\ \A r \in Roles : QueueInv(client'[r])
    <3>1. SilentInv /\ FirstInv /\ AcceptInv /\ SaveInv /\ \A r \in Roles : QueueInv(client[r])
      BY DEF OneSideInv
    <3>2. Requests' = Requests /\ Firsts' = Firsts /\ Latest' = Latest
      BY <2>1, <2>2 DEF Requests, Firsts, Latest
    <3> QED BY <2>1, <2>2, <3>1, <3>2 DEF SilentInv, FirstInv, AcceptInv, SaveInv
  <2>4. ASSUME NEW n \in 1..Len(negs) PROVE DocInv(n)'
    <3>1. \A r \in Roles : Len(client[r].known) <= Len(client[r].known)
      <4>1. \A r \in Roles : Len(client[r].known) \in Nat
        BY Fields DEF TypeOK
      <4> QED BY <4>1
    <3>2. Apart(n)
      BY <2>1, <2>2, <3>1 DEF Apart
    <3> QED BY <3>2, ApartKeeps DEF OneSideInv
  <2> QED BY <1>0, <2>1, <2>3, <2>4 DEF OneSideInv
<1> QED BY <1>1, <1>2, <1>3, <1>4, <1>5, <1>6, <1>7, <1>8 DEF Next, ClientStep

(* The invariant, of every behaviour whose requests do not overlap *)
THEOREM OneSideInvariance ==
  ~Together => (Spec /\ []RequestsOneByOne => [](TypeOK /\ NegotiationInv /\ OneSideInv))
<1> SUFFICES ASSUME ~Together
             PROVE  Spec /\ []RequestsOneByOne => [](TypeOK /\ NegotiationInv /\ OneSideInv)
  OBVIOUS
<1>1. Init => OneSideInv
  BY OneSideInit
<1>2. (TypeOK /\ NegotiationInv) /\ OneSideInv /\ RequestsOneByOne /\ [Next]_vars => OneSideInv'
  BY OneSideStep
<1> QED BY NegotiationInvariance, <1>1, <1>2, PTL DEF Spec

(* No connection goes back to an older negotiation: the queue of the       *)
(* client is processed in order (processNegotiations), and its connection  *)
(* is only ever stable with the current negotiation.                       *)
THEOREM OneSideAdvances ==
  ~Together => (Spec /\ []RequestsOneByOne => AgreementsAdvance)
<1> SUFFICES ASSUME ~Together
             PROVE  Spec /\ []RequestsOneByOne => AgreementsAdvance
  OBVIOUS
<1>1. TypeOK /\ NegotiationInv /\ OneSideInv /\ RequestsOneByOne /\ [Next]_vars
        => [\A r \in Roles : client'[r].agreed >= client[r].agreed]_client
  <2> SUFFICES ASSUME TypeOK, NegotiationInv, OneSideInv, RequestsOneByOne, [Next]_vars
               PROVE  \A r \in Roles : client'[r].agreed >= client[r].agreed
    OBVIOUS
  <2>1. \A r \in Roles : client[r].agreed <= client'[r].agreed
    BY OneSideStep
  <2> QED BY <2>1
<1>2. Spec /\ []RequestsOneByOne => [](TypeOK /\ NegotiationInv /\ OneSideInv)
  BY OneSideInvariance
<1> QED BY <1>1, <1>2, PTL DEF Spec, AgreementsAdvance

-----------------------------------------------------------------------------
(* When nothing is on its way *)

(* When nothing is on its way, a description is saved if it was sent, and  *)
(* has been heard of.                                                      *)
LEMMA QuietFacts ==
  ASSUME TypeOK, NegotiationInv, OneSideInv, Quiet, NEW n \in 1..Len(negs)
  PROVE  LET o == negs[n].offerer
             a == Opposite(o)
         IN  /\ o \in Roles /\ a \in Roles /\ a # o
             /\ negs[n].offer <=> Sent(client[o], n)
             /\ negs[n].answer <=> Sent(client[a], n)
             /\ ~(negs[n].answer /\ Waits(client[o], n))
             /\ n <= Len(client[o].known)
             /\ negs[n].offer => n <= Len(client[a].known)
<1> DEFINE o == negs[n].offerer
           a == Opposite(o)
<1>1. Pending = {} /\ signals = {}
  BY DEF Quiet, Pending, BagToSet, EmptyBag, SetToBag
<1>2. negs[n] \in Document
  BY DEF TypeOK
<1>3. o \in Roles /\ a \in Roles /\ a # o
  BY <1>2 DEF Document, Opposite, Roles
<1>4. accepted
  BY <1>1 DEF OneSideInv, AcceptInv
<1>5. OfferInv(n) /\ AnswerInv(n) /\ ReplyInv(n) /\ HearInv(n)
  BY DEF OneSideInv, DocInv
<1>6. negs[n].offer <=> Sent(client[o], n)
  BY <1>1, <1>2, <1>5 DEF OfferInv, Document
<1>7. negs[n].answer <=> Sent(client[a], n)
  BY <1>1, <1>2, <1>5 DEF AnswerInv, Document
<1>8. ~(negs[n].answer /\ Waits(client[o], n))
  BY <1>1, <1>5 DEF ReplyInv
<1>9. n <= Len(client[o].known) /\ (negs[n].offer => n <= Len(client[a].known))
  BY <1>1, <1>4, <1>5 DEF HearInv
<1> QED BY <1>3, <1>6, <1>7, <1>8, <1>9

(* A client that is still busy then waits for the answer to the latest     *)
(* negotiation ...                                                         *)
LEMMA QuietOffers ==
  ASSUME TypeOK, NegotiationInv, OneSideInv, Quiet, NEW r \in Roles, ~Between(client[r])
  PROVE  LET N == Len(negs)
         IN  /\ N \in 1..N /\ client[r].current = N /\ negs[N].offerer = r
             /\ negs[N].offer /\ ~negs[N].answer
<1> DEFINE m == client[r]
           c == m.current
<1>1. m \in Client /\ KnownInv(negs, r, m) /\ DocsOK(negs) /\ QueueInv(m) /\ Len(negs) \in Nat
      /\ m.chain = << >> /\ m.gathering = {} /\ Len(m.chain) = 0
  BY DEF TypeOK, NegotiationInv, ClientInv, OneSideInv, Quiet
<1>2. Working(m) /\ c # 0
  BY <1>1 DEF QueueInv, Working
<1>3. c \in 1..Len(m.known) /\ m.known[c].id = c /\ m.known[c].remote \in BOOLEAN /\ c = m.processed
  BY <1>1, <1>2, Busy DEF Working
<1>4. ~m.known[c].remote /\ Awaiting(m)
  <2> HIDE DEF m
  <2>1. ~Collecting(m)
    BY <1>1, <1>2 DEF Collecting
  <2>2. \A ops : ~Doing(m, ops)
    BY <1>1 DEF Doing
  <2>3. ~Answering(m) /\ (Offering(m) => Awaiting(m))
    BY <2>1, <2>2 DEF Answering, Offering
  <2> QED BY <1>2, <2>3 DEF Working
<1>5. c \in 1..Len(negs) /\ negs[c].offerer = r
  BY <1>1, <1>3, <1>4 DEF KnownInv
<1>6. Waits(m, c)
  BY <1>4 DEF Waits
<1>7. Sent(m, c)
  <2>1. c <= m.processed
    BY <1>3, <1>5
  <2> QED BY <1>4, <2>1 DEF Sent, Awaiting
<1>8. negs[c].offer /\ ~negs[c].answer
  BY <1>5, <1>6, <1>7, QuietFacts
<1>9. c = Len(negs)
  <2>1. c \notin 1..(Len(negs) - 1)
    BY <1>8 DEF OneSideInv, FirstInv
  <2> QED BY <1>1, <1>5, <2>1
<1> QED BY <1>5, <1>8, <1>9

(* ... which the other side would have been sent, and answered. *)
LEMMA QuietAgrees ==
  ASSUME TypeOK, NegotiationInv, OneSideInv, Quiet
  PROVE  /\ client["caller"].agreed = client["callee"].agreed
         /\ \A r \in Roles : client[r].peer = "stable"
<1> DEFINE N == Len(negs)
<1>1. N \in Nat /\ DocsOK(negs)
  BY DEF TypeOK, NegotiationInv
<1>2. \A r \in Roles : /\ client[r].processed \in 0..Len(client[r].known) /\ client[r].ready
                       /\ Len(client[r].known) \in Nat /\ Len(client[r].known) <= N
  <2> SUFFICES ASSUME NEW r \in Roles
               PROVE  /\ client[r].processed \in 0..Len(client[r].known) /\ client[r].ready
                      /\ Len(client[r].known) \in Nat /\ Len(client[r].known) <= N
    OBVIOUS
  <2>1. client[r] \in Client /\ KnownInv(negs, r, client[r]) /\ TurnInv(client[r])
    BY DEF TypeOK, NegotiationInv, ClientInv
  <2>2. Len(client[r].known) <= N /\ Len(client[r].known) \in Nat
    BY <1>1, <2>1, KnownFit, Fields
  <2> QED BY <2>1, <2>2 DEF TurnInv, Quiet
<1>3. \A r \in Roles : Between(client[r])
  <2> SUFFICES ASSUME NEW r \in Roles, ~Between(client[r]) PROVE FALSE
    OBVIOUS
  <2> DEFINE a == Opposite(r)
  <2>1. /\ N \in 1..N /\ negs[N].offerer = r
        /\ negs[N].offer /\ ~negs[N].answer
    BY QuietOffers
  <2>2. a \in Roles /\ a # r /\ N <= Len(client[a].known) /\ ~Sent(client[a], N)
    BY <2>1, QuietFacts
  <2>3. Between(client[a])
    BY <2>1, <2>2, QuietOffers
  <2>4. client[a].processed = N /\ client[a].current = 0
    BY <1>1, <1>2, <2>2, <2>3 DEF Between, Idle
  <2>5. Sent(client[a], N)
    BY <1>1, <2>1, <2>4 DEF Sent
  <2> QED BY <2>2, <2>5
<1>4. \A r \in Roles : /\ client[r].peer = "stable" /\ client[r].current = 0
                       /\ client[r].agreed = client[r].processed
                       /\ client[r].processed = Len(client[r].known)
  BY <1>2, <1>3 DEF Between, Idle
<1>5. \A r \in Roles : Len(client[r].known) = N
  <2>1. CASE N = 0
    BY <1>2, <2>1
  <2>2. CASE N # 0
    <3> DEFINE o == negs[N].offerer
               a == Opposite(o)
    <3>1. N \in 1..N
      BY <1>1, <2>2
    <3>2. /\ o \in Roles /\ a \in Roles /\ a # o /\ N <= Len(client[o].known)
          /\ Sent(client[o], N) => N <= Len(client[a].known)
      BY <3>1, QuietFacts
    <3>3. Len(client[o].known) = N
      BY <1>1, <1>2, <3>2
    <3>4. Sent(client[o], N)
      BY <1>1, <1>4, <2>2, <3>2, <3>3 DEF Sent
    <3>5. Len(client[a].known) = N
      BY <1>1, <1>2, <3>2, <3>4
    <3>6. \A r \in Roles : r = o \/ r = a
      BY <3>2 DEF Roles
    <3> QED BY <3>3, <3>5, <3>6
  <2> QED BY <2>1, <2>2
<1> QED BY <1>4, <1>5 DEF Roles

(* When nothing is on its way and both clients have done all they had to   *)
(* do, the two connections are stable with the same negotiation, whether   *)
(* the callee accepted before or after the first offer was saved.          *)
THEOREM OneSideAgrees ==
  ~Together => (Spec /\ []RequestsOneByOne => []PeersAgree)
<1> SUFFICES ASSUME ~Together
             PROVE  Spec /\ []RequestsOneByOne => []PeersAgree
  OBVIOUS
<1>1. TypeOK /\ NegotiationInv /\ OneSideInv => PeersAgree
  BY QuietAgrees DEF PeersAgree
<1>2. Spec /\ []RequestsOneByOne => [](TypeOK /\ NegotiationInv /\ OneSideInv)
  BY OneSideInvariance
<1> QED BY <1>1, <1>2, PTL

-----------------------------------------------------------------------------
(* Requests do not overlap while the user holds twice at most. *)

(* The connection will not tell that it needs another negotiation before   *)
(* it is stable with a later one.                                          *)
Patient(m) == m.fired \/ (m.direction = m.negotiated /\ m.toggles >= 2)

(* A request is made by a client that is stable with the latest            *)
(* negotiation, and is the only one.                                       *)
PatientInv(r) ==
    LET m == client[r]
        N == Len(negs)
    IN  m.toggles # 0 =>
          /\ N >= 2 => m.agreed >= N - 1
          /\ N >= 2 /\ Len(m.known) < N => Patient(m)
          /\ Requests # {} => N > 0 /\ m.agreed = N /\ Patient(m)

PatienceInv == RequestsOneByOne /\ \A r \in Roles : PatientInv(r)

-----------------------------------------------------------------------------
(* What a client does by itself leaves what the user asked for, and what   *)
(* the connection has told, as they are.                                   *)
UserFields == {"known", "fired", "direction", "negotiated", "toggles", "agreed"}

Calm(k, m) ==
    /\ DOMAIN k = DOMAIN m
    /\ k.fired = m.fired /\ k.direction = m.direction /\ k.negotiated = m.negotiated
    /\ k.toggles = m.toggles /\ k.agreed = m.agreed

(* processNegotiations is calm, *)
LEMMA ProcessCalm ==
  ASSUME NEW r, NEW m, UserFields \subseteq DOMAIN m
  PROVE  Calm(ProcessNegotiations(r, m), m) /\ ProcessNegotiations(r, m).known = m.known
<1>1. PICK i, c : ProcessNegotiations(r, m) \in {m, [m EXCEPT !.current = i, !.processed = i, !.chain = c]}
  BY DEF ProcessNegotiations
<1> QED BY <1>1 DEF Calm, UserFields

(* so are the end of a negotiation, *)
LEMMA EndCalm ==
  ASSUME NEW r, NEW m, UserFields \subseteq DOMAIN m, NEW i
  PROVE  Calm(End(r, m, i), m) /\ End(r, m, i).known = m.known
<1> DEFINE e == [m EXCEPT !.ended = @ \cup {i}]
           f == [e EXCEPT !.current = 0]
<1>1. End(r, m, i) = e \/ End(r, m, i) = ProcessNegotiations(r, f)
  BY DEF End
<1>2. Calm(e, m) /\ e.known = m.known
  BY DEF Calm, UserFields
<1> HIDE DEF e
<1>3. Calm(f, m) /\ f.known = m.known
  BY <1>2 DEF Calm, UserFields
<1> HIDE DEF f
<1>4. Calm(ProcessNegotiations(r, f), f) /\ ProcessNegotiations(r, f).known = f.known
  <2>1. UserFields \subseteq DOMAIN f
    BY <1>3 DEF Calm
  <2> QED BY <2>1, ProcessCalm
<1> QED BY <1>1, <1>2, <1>3, <1>4 DEF Calm

(* its failure, *)
LEMMA FailCalm ==
  ASSUME NEW r, NEW m, UserFields \subseteq DOMAIN m, NEW i
  PROVE  Calm(Fail(r, m, i), m) /\ Fail(r, m, i).known = m.known
<1> DEFINE f == IF m.current = i THEN End(r, m, i) ELSE m
           g == [f EXCEPT !.failed = @ \cup {i}]
<1>1. Fail(r, m, i) = m \/ Fail(r, m, i) = g
  BY DEF Fail
<1>2. Calm(f, m) /\ f.known = m.known
  BY EndCalm DEF Calm
<1> HIDE DEF f
<1>3. Calm(g, m) /\ g.known = m.known
  BY <1>2 DEF Calm, UserFields
<1> QED BY <1>1, <1>3 DEF Calm

(* a negotiation that is heard of *)
LEMMA AddCalm ==
  ASSUME NEW r, NEW m \in Client, NEW id, NEW remote
  PROVE  LET k == AddNegotiation(r, m, id, remote)
         IN  Calm(k, m) /\ (k.known = m.known \/ \E d : k.known = Append(m.known, d))
<1> DEFINE d == [id |-> id, remote |-> remote]
           k == [m EXCEPT !.known = Append(@, d)]
           a == AddToQueue(r, m, id, remote)
<1>1. UserFields \subseteq DOMAIN m
  BY DEF Client, UserFields
<1>2. Calm(k, m) /\ k.known = Append(m.known, d)
  BY <1>1 DEF Calm, UserFields
<1>3. a = k \/ a = [End(r, k, k.current) EXCEPT !.current = 0]
  BY DEF AddToQueue
<1> HIDE DEF d, k
<1>4. Calm(a, m) /\ a.known = k.known
  <2> DEFINE e == End(r, k, k.current)
  <2>1. UserFields \subseteq DOMAIN k
    BY <1>1, <1>2 DEF Calm
  <2>2. Calm(e, k) /\ e.known = k.known
    BY <2>1, EndCalm
  <2> HIDE DEF e
  <2>3. Calm([e EXCEPT !.current = 0], k) /\ [e EXCEPT !.current = 0].known = k.known
    BY <2>1, <2>2 DEF Calm, UserFields
  <2> QED BY <1>2, <1>3, <2>3 DEF Calm, e
<1> HIDE DEF a
<1>5. Calm(ProcessNegotiations(r, a), a) /\ ProcessNegotiations(r, a).known = a.known
  <2>1. UserFields \subseteq DOMAIN a
    BY <1>1, <1>4 DEF Calm
  <2> QED BY <2>1, ProcessCalm
<1>6. AddNegotiation(r, m, id, remote) = m \/ AddNegotiation(r, m, id, remote) = ProcessNegotiations(r, a)
  BY DEF AddNegotiation, a
<1> QED BY <1>2, <1>4, <1>5, <1>6 DEF Calm

(* and an answer. *)
LEMMA AnswerCalm ==
  ASSUME NEW m \in Client, NEW id
  PROVE  Calm(SetRemoteAnswer(m, id), m) /\ SetRemoteAnswer(m, id).known = m.known
<1>1. PICK c : SetRemoteAnswer(m, id) \in {m, [m EXCEPT !.chain = c]}
  BY DEF SetRemoteAnswer
<1> QED BY <1>1 DEF Calm, Client

(* A step of a client that asks for nothing *)
LEMMA ClientPatient ==
  ASSUME TypeOK, TypeOK', NegotiationInv', PatienceInv, NEW r \in Roles, NEW k,
         client' = [client EXCEPT ![r] = k], negs' = negs,
         Requests' = Requests, \A j \in Requests : j \in Alone => j \in Alone',
         client[r].agreed <= k.agreed, Len(client[r].known) <= Len(k.known),
         k.toggles # 0 => client[r].toggles # 0,
         (Len(negs) >= 2 /\ Len(client[r].known) < Len(negs)) \/ Requests # {}
           => (Patient(client[r]) => Patient(k))
  PROVE  PatienceInv'
<1> DEFINE m == client[r]
           N == Len(negs)
<1>1. \A q \in Roles : client'[q] = IF q = r THEN k ELSE client[q]
  BY DEF TypeOK
<1>2. RequestsOneByOne'
  BY DEF PatienceInv, RequestsOneByOne
<1>3. /\ m.agreed \in Nat /\ k.agreed \in Nat /\ k.agreed <= N /\ N \in Nat
      /\ Len(m.known) \in Nat /\ Len(k.known) \in Nat
  <2>1. m \in Client /\ k \in Client
    BY <1>1 DEF TypeOK
  <2>2. AgreedInv(negs', r, client'[r])
    BY DEF NegotiationInv, ClientInv
  <2>3. k.agreed <= N /\ N \in Nat
    BY <1>1, <2>2 DEF AgreedInv, TypeOK
  <2> HIDE DEF m
  <2> QED BY <2>1, <2>3, Fields, NegotiationAssumption DEF NegotiationAssumption
<1>4. ASSUME k.toggles # 0
      PROVE  /\ N >= 2 => k.agreed >= N - 1
             /\ N >= 2 /\ Len(k.known) < N => Patient(k)
             /\ Requests # {} => N > 0 /\ k.agreed = N /\ Patient(k)
  <2>1. /\ N >= 2 => m.agreed >= N - 1
        /\ N >= 2 /\ Len(m.known) < N => Patient(m)
        /\ Requests # {} => N > 0 /\ m.agreed = N /\ Patient(m)
    BY <1>4 DEF PatienceInv, PatientInv
  <2>2. m.agreed <= k.agreed /\ Len(m.known) <= Len(k.known)
    OBVIOUS
  <2>3. (N >= 2 /\ Len(m.known) < N) \/ Requests # {} => (Patient(m) => Patient(k))
    OBVIOUS
  <2> HIDE DEF m, N
  <2> QED BY <1>3, <2>1, <2>2, <2>3
<1>5. ASSUME NEW q \in Roles PROVE PatientInv(q)'
  <2>1. CASE q = r
    BY <1>1, <1>4, <2>1 DEF PatientInv
  <2>2. CASE q # r
    <3>1. PatientInv(q)
      BY DEF PatienceInv
    <3> QED BY <1>1, <2>2, <3>1 DEF PatientInv
  <2> QED BY <2>1, <2>2
<1> QED BY <1>2, <1>5 DEF PatienceInv

(* A step of a client that leaves the server alone *)
LEMMA RequestsSame ==
  ASSUME server' = server PROVE Pending' = Pending /\ Requests' = Requests /\ Alone' = Alone
BY DEF Pending, Requests, Alone

(* The connection works for a negotiation that it has not agreed on: the   *)
(* latest one.                                                             *)
LEMMA OperatePatient ==
  ASSUME TypeOK, NegotiationInv, OneSideInv, PatienceInv, TypeOK', NegotiationInv',
         NEW r \in Roles, Operate(r)
  PROVE  PatienceInv'
<1> DEFINE m == client[r]
           N == Len(negs)
<1>1. m \in Client /\ QueueInv(m) /\ KnownInv(negs, r, m) /\ DocsOK(negs)
  BY DEF TypeOK, OneSideInv, NegotiationInv, ClientInv
<1>2. PICK k : Moves(k, m) /\ client' = [client EXCEPT ![r] = k]
  BY <1>1, OperateMoves
<1>3. server' = server /\ negs' = negs
  BY DEF Operate
<1>4. N \in Nat /\ m.agreed \in Nat /\ m.processed \in Nat /\ Len(m.known) \in Nat
      /\ Len(m.known) <= N
  BY <1>1, KnownFit, Fields, NegotiationAssumption DEF NegotiationAssumption, TypeOK
<1>5. Len(m.chain) # 0
  <2>1. m.chain \in Seq([op : Operations, at : Ids]) /\ m.chain # << >>
    BY <1>1, Fields DEF Operate
  <2> QED BY <2>1
<1>6. m.agreed = m.processed - 1 /\ m.processed <= Len(m.known)
  <2> HIDE DEF m
  <2>1. Working(m) /\ m.processed \in {Len(m.known), Len(m.known) - 1}
    BY <1>1, <1>5 DEF QueueInv, Between, Idle
  <2>2. m.agreed = m.current - 1
    BY <1>5, <2>1 DEF Working, Answering, Offering, Collecting, Awaiting, Doing
  <2> QED BY <1>4, <2>1, <2>2 DEF Working
<1>7. k.toggles = m.toggles /\ m.agreed <= k.agreed /\ k.known = m.known
  BY <1>2 DEF Moves
<1>8. m.toggles # 0 => ~((N >= 2 /\ Len(m.known) < N) \/ Requests # {})
  <2>1. m.toggles # 0 => /\ N >= 2 => m.agreed >= N - 1
                         /\ Requests # {} => m.agreed = N
    BY DEF PatienceInv, PatientInv
  <2> HIDE DEF m, N
  <2> QED BY <1>4, <1>6, <2>1
<1>9. CASE m.toggles # 0
  <2>1. Len(m.known) <= Len(k.known)
    BY <1>4, <1>7
  <2>2. Requests' = Requests /\ Alone' = Alone
    BY <1>3, RequestsSame
  <2> QED BY <1>2, <1>3, <1>7, <1>8, <1>9, <2>1, <2>2, ClientPatient
<1>10. CASE m.toggles = 0
  <2>1. \A q \in Roles : client'[q] = IF q = r THEN k ELSE client[q]
    BY <1>2 DEF TypeOK
  <2>2. Requests' = Requests /\ Alone' = Alone
    BY <1>3, RequestsSame
  <2>3. \A q \in Roles : PatientInv(q)'
    BY <1>3, <1>7, <1>10, <2>1, <2>2 DEF PatienceInv, PatientInv
  <2> QED BY <2>2, <2>3 DEF PatienceInv, RequestsOneByOne
<1> QED BY <1>9, <1>10

(* A step that is calm *)
LEMMA CalmPatient ==
  ASSUME TypeOK, TypeOK', NegotiationInv', PatienceInv, NEW r \in Roles, NEW k,
         client' = [client EXCEPT ![r] = k], negs' = negs,
         Requests' = Requests, \A j \in Requests : j \in Alone => j \in Alone',
         Calm(k, client[r]), Len(client[r].known) <= Len(k.known)
  PROVE  PatienceInv'
<1>1. client[r].agreed <= k.agreed
  <2>1. client[r].agreed \in 0..MaxNegotiations
    BY Fields DEF TypeOK
  <2> QED BY <2>1, NegotiationAssumption DEF NegotiationAssumption, Calm
<1>2. k.toggles = client[r].toggles /\ (Patient(client[r]) => Patient(k))
  BY DEF Calm, Patient
<1> QED BY <1>1, <1>2, ClientPatient

(* The microphone is there. *)
LEMMA TrackPatient ==
  ASSUME TypeOK, TypeOK', NegotiationInv', PatienceInv, NEW r \in Roles, GetInputTrack(r)
  PROVE  PatienceInv'
<1> DEFINE m == client[r]
           e == [m EXCEPT !.ready = TRUE]
           k == ProcessNegotiations(r, e)
<1>1. m \in Client
  BY DEF TypeOK
<1>2. client' = [client EXCEPT ![r] = k] /\ server' = server /\ negs' = negs
  BY DEF GetInputTrack
<1>3. UserFields \subseteq DOMAIN m /\ Calm(e, m) /\ e.known = m.known /\ Len(m.known) \in Nat
  <2> HIDE DEF m
  <2>1. UserFields \subseteq DOMAIN m /\ Calm(e, m) /\ e.known = m.known
    BY <1>1 DEF Client, UserFields, Calm
  <2> QED BY <1>1, <2>1, Fields
<1>4. Calm(k, m) /\ k.known = m.known
  <2> HIDE DEF e
  <2>1. UserFields \subseteq DOMAIN e
    BY <1>3 DEF Calm
  <2>2. Calm(k, e) /\ k.known = e.known
    BY <2>1, ProcessCalm
  <2> QED BY <1>3, <2>2 DEF Calm
<1>5. Len(m.known) <= Len(k.known)
  BY <1>3, <1>4
<1>6. Requests' = Requests /\ Alone' = Alone
  BY <1>2, RequestsSame
<1> HIDE DEF k
<1> QED BY <1>2, <1>4, <1>5, <1>6, CalmPatient

(* A description is sent. *)
LEMMA GatheredPatient ==
  ASSUME TypeOK, OneSideInv, TypeOK', NegotiationInv', PatienceInv,
         NEW r \in Roles, NEW i \in Ids, Gathered(r, i)
  PROVE  PatienceInv'
<1> DEFINE m == client[r]
           n == [m EXCEPT !.gathering = @ \ {i}]
<1>1. m \in Client /\ QueueInv(m)
  BY DEF TypeOK, OneSideInv
<1>2. PICK k : client' = [client EXCEPT ![r] = k] /\ k \in {End(r, n, i), Fail(r, n, i), n}
  BY DEF Gathered
<1>3. /\ UserFields \subseteq DOMAIN m /\ Calm(n, m) /\ n.known = m.known /\ Len(m.known) \in Nat
  <2> HIDE DEF m
  <2>1. UserFields \subseteq DOMAIN m /\ Calm(n, m) /\ n.known = m.known
    BY <1>1 DEF Client, UserFields, Calm
  <2> QED BY <1>1, <2>1, Fields
<1>4. Calm(k, m) /\ k.known = m.known
  <2> HIDE DEF n
  <2>1. UserFields \subseteq DOMAIN n
    BY <1>3 DEF Calm
  <2>2. Calm(k, n) /\ k.known = n.known
    <3>1. Calm(n, n)
      BY DEF Calm
    <3> QED BY <1>2, <2>1, <3>1, EndCalm, FailCalm
  <2> QED BY <1>3, <2>2 DEF Calm
<1>5. negs' = negs /\ \E type : server' = server (+) SetToBag({Saving(r, i, type)})
  BY <1>1, GatheredMoves
<1>6. PICK type : server' = server (+) SetToBag({Saving(r, i, type)})
  BY <1>5
<1>7. Requests' = Requests /\ \A j \in Requests : j \in Alone => j \in Alone'
  <2> DEFINE s == Saving(r, i, type)
  <2>1. s.step = "save"
    BY DEF Saving
  <2> HIDE DEF s
  <2>2. Pending' = Pending \cup {s} /\ \A j \in Alone : j # s => j \in Alone'
    BY <1>6, JobAdded DEF s
  <2> QED BY <2>1, <2>2 DEF Requests
<1>8. Len(m.known) <= Len(k.known)
  BY <1>3, <1>4
<1> HIDE DEF n
<1> QED BY <1>2, <1>4, <1>5, <1>7, <1>8, CalmPatient

(* A signal is received. *)
LEMMA ReceivePatient ==
  ASSUME TypeOK, TypeOK', NegotiationInv', PatienceInv, NEW s \in signals, Receive(s)
  PROVE  PatienceInv'
<1> DEFINE r == s.to
           m == client[r]
           remote == s.type = "offer"
           k == IF s.type = "answer" THEN SetRemoteAnswer(m, s.id)
                                     ELSE AddNegotiation(r, m, s.id, remote)
<1>1. r \in Roles
  BY DEF TypeOK, Signal
<1>2. m \in Client
  BY <1>1 DEF TypeOK
<1>3. client' = [client EXCEPT ![r] = k] /\ server' = server /\ negs' = negs
  BY DEF Receive
<1>4. Calm(k, m) /\ (k.known = m.known \/ \E d : k.known = Append(m.known, d))
  <2> HIDE DEF remote, m, r
  <2> DEFINE a == SetRemoteAnswer(m, s.id)
             b == AddNegotiation(r, m, s.id, remote)
  <2>1. Calm(a, m) /\ a.known = m.known
    BY <1>2, AnswerCalm
  <2>2. Calm(b, m) /\ (b.known = m.known \/ \E d : b.known = Append(m.known, d))
    <3>1. \A id, x : LET c == AddNegotiation(r, m, id, x)
                     IN  Calm(c, m) /\ (c.known = m.known \/ \E d : c.known = Append(m.known, d))
      BY <1>2, AddCalm
    <3> QED BY <3>1
  <2>3. k = IF s.type = "answer" THEN a ELSE b
    OBVIOUS
  <2> HIDE DEF a, b, k
  <2> QED BY <2>1, <2>2, <2>3
<1>5. Len(m.known) <= Len(k.known)
  <2> HIDE DEF m, k
  <2>1. Len(m.known) \in Nat /\ m.known \in Seq([id : Ids, remote : BOOLEAN])
    BY <1>2, Fields
  <2>2. \A d : Len(Append(m.known, d)) = Len(m.known) + 1
    BY <2>1
  <2> QED BY <1>4, <2>1, <2>2
<1>6. Requests' = Requests /\ Alone' = Alone
  BY <1>3, RequestsSame
<1> HIDE DEF k, r
<1>7. /\ client' = [client EXCEPT ![r] = k] /\ Calm(k, client[r])
      /\ Len(client[r].known) <= Len(k.known)
  BY <1>3, <1>4, <1>5
<1> QED BY <1>1, <1>3, <1>6, <1>7, CalmPatient

(* The user who never held a call was granted nothing; at the second time  *)
(* the direction is requested that was negotiated, or the connection has   *)
(* told that it needs another negotiation.                                 *)
LEMMA SetHeldPatient ==
  ASSUME ~Together, MaxToggles <= 2, TypeOK, OneSideInv, TypeOK', NegotiationInv', PatienceInv,
         NEW r \in Roles, SetHeld(r)
  PROVE  PatienceInv'
<1> DEFINE m == client[r]
           N == Len(negs)
           direction == IF m.peer = "stable" THEN ~m.held ELSE m.direction
           t == m.toggles + 1
           h == ~m.held
           f == m.fired /\ direction # m.negotiated
           k == [m EXCEPT !.toggles = t, !.held = h, !.direction = direction, !.fired = f]
<1>1. m \in Client /\ m.toggles \in Nat /\ m.fired \in BOOLEAN
  BY DEF TypeOK, Client
<1>2. client' = [client EXCEPT ![r] = k] /\ server' = server /\ negs' = negs
  BY DEF SetHeld
<1>3. client[Opposite(r)].toggles = 0 /\ Opposite(r) \in Roles /\ Opposite(r) # r /\ m.toggles < 2
  <2>1. Opposite(r) \in Roles /\ Opposite(r) # r
    BY DEF Opposite, Roles
  <2>2. client[Opposite(r)].toggles = 0
    BY DEF SetHeld
  <2>3. client["caller"].toggles + client["callee"].toggles < MaxToggles
    BY DEF SetHeld
  <2>4. m.toggles < MaxToggles
    <3>1. CASE r = "caller"
      <4>1. Opposite(r) = "callee"
        BY <3>1 DEF Opposite
      <4> QED BY <1>1, <2>2, <2>3, <3>1, <4>1
    <3>2. CASE r = "callee"
      <4>1. Opposite(r) = "caller"
        BY <3>2 DEF Opposite
      <4> QED BY <1>1, <2>2, <2>3, <3>2, <4>1
    <3> QED BY <3>1, <3>2 DEF Roles
  <2>5. MaxToggles \in Nat
    BY NegotiationAssumption DEF NegotiationAssumption
  <2> QED BY <1>1, <2>1, <2>2, <2>4, <2>5
<1> HIDE DEF direction, t, h, f
<1>4. /\ k.toggles = t /\ k.fired = f /\ k.direction = direction /\ k.negotiated = m.negotiated
      /\ k.known = m.known /\ k.agreed = m.agreed
  <2> HIDE DEF m
  <2> QED BY <1>1 DEF Client
<1> HIDE DEF k
<1>5. Requests' = Requests /\ Alone' = Alone
  BY <1>2, RequestsSame
<1>6. m.toggles = 0 => Requests = {} /\ ~(N >= 2)
  <2>1. \A q \in Roles : q = r \/ q = Opposite(r)
    BY <1>3 DEF Roles
  <2>2. ASSUME m.toggles = 0, NEW q \in Roles
        PROVE  (\A j \in Requests : j.role # q) /\ \A n \in 2..N : negs[n].offerer # q
    BY <1>3, <2>1, <2>2 DEF OneSideInv, SilentInv
  <2>3. m.toggles = 0 => Requests = {}
    <3>1. \A j \in Requests : j.role \in Roles
      BY DEF Requests, Pending, TypeOK, Job
    <3> QED BY <2>2, <3>1
  <2>4. m.toggles = 0 => ~(N >= 2)
    <3>1. N \in Nat
      BY DEF TypeOK
    <3>2. N >= 2 => negs[N].offerer \in Roles
      <4>1. \A n \in 1..N : negs[n] \in Document
        BY DEF TypeOK
      <4>2. \A n \in 1..N : negs[n].offerer \in Roles
        BY <4>1 DEF Document
      <4> HIDE DEF N
      <4>3. N >= 2 => N \in 1..N
        BY <3>1
      <4> QED BY <4>2, <4>3
    <3>3. N >= 2 => N \in 2..N
      BY <3>1
    <3> QED BY <2>2, <3>2, <3>3
  <2> QED BY <2>3, <2>4
<1>7. m.toggles # 0 /\ Patient(m) => Patient(k)
  <2>1. t = m.toggles + 1 /\ (f <=> m.fired /\ direction # m.negotiated)
    BY DEF t, f
  <2> HIDE DEF m
  <2>2. m.toggles # 0 => m.toggles = 1 /\ t = 2
    BY <1>1, <1>3, <2>1
  <2>3. m.toggles # 0 /\ Patient(m) => m.fired
    BY <1>1, <2>2 DEF Patient
  <2>4. f \in BOOLEAN
    BY DEF f
  <2>5. m.toggles # 0 /\ Patient(m) => f \/ direction = m.negotiated
    BY <2>1, <2>3
  <2> QED BY <1>4, <2>2, <2>5 DEF Patient
<1>8. \A q \in Roles : client'[q] = IF q = r THEN k ELSE client[q]
  BY <1>2 DEF TypeOK
<1>9. ASSUME NEW q \in Roles PROVE PatientInv(q)'
  <2>1. PatientInv(q)
    BY DEF PatienceInv
  <2>2. CASE q = r /\ m.toggles # 0
    BY <1>2, <1>4, <1>5, <1>7, <1>8, <2>1, <2>2 DEF PatientInv
  <2>3. CASE q = r /\ m.toggles = 0
    BY <1>2, <1>5, <1>6, <1>8, <2>3 DEF PatientInv
  <2>4. CASE q # r
    BY <1>2, <1>5, <1>8, <2>1, <2>4 DEF PatientInv
  <2> QED BY <2>2, <2>3, <2>4
<1> QED BY <1>5, <1>9 DEF PatienceInv, RequestsOneByOne

(* A client asks for another negotiation when none is asked for, and its   *)
(* connection is stable with the latest.                                   *)
LEMMA AskPatient ==
  ASSUME TypeOK, NegotiationInv, OneSideInv, PatienceInv, NEW r \in Roles, AskForNegotiation(r)
  PROVE  PatienceInv'
<1> DEFINE m == client[r]
           N == Len(negs)
           k == [m EXCEPT !.fired = TRUE]
           j == Do("needed", r, m.known[Len(m.known)].id)
           asks == m.ready /\ m.processed > 0 /\ ~FulfillingQueued(r, m)
<1>1. m \in Client /\ QueueInv(m) /\ KnownInv(negs, r, m) /\ DocsOK(negs)
  BY DEF TypeOK, OneSideInv, NegotiationInv, ClientInv
<1>2. /\ client' = [client EXCEPT ![r] = k] /\ negs' = negs
      /\ m.direction # m.negotiated /\ ~m.fired /\ m.peer = "stable" /\ m.chain = << >>
      /\ server' = IF asks THEN server (+) SetToBag({j}) ELSE server
  BY DEF AskForNegotiation
<1>3. m.toggles # 0
  <2>1. ~Untouched(m)
    BY <1>1, AskMoves
  <2> QED BY <2>1 DEF OneSideInv, SilentInv
<1>4. Requests = {} /\ (N >= 2 => m.agreed >= N - 1) /\ (N >= 2 => ~(Len(m.known) < N))
  <2>1. ~Patient(m)
    BY <1>2 DEF Patient
  <2> QED BY <1>3, <2>1 DEF PatienceInv, PatientInv
<1>5. \A q \in Roles : client'[q] = IF q = r THEN k ELSE client[q]
  BY <1>2 DEF TypeOK
<1>6. k.fired /\ k.agreed = m.agreed /\ k.known = m.known
  <2> HIDE DEF m
  <2> QED BY <1>1 DEF Client
<1>7. \A q \in Roles : q # r => client[q].toggles = 0
  <2>1. PICK q \in Roles : client[q].toggles = 0
    BY DEF OneSideInv, SilentInv
  <2> QED BY <1>3, <2>1 DEF Roles
<1>8. \A x \in Roles, y \in Roles : x = y \/ x = Opposite(y)
  BY DEF Roles, Opposite
<1> HIDE DEF k
<1>9. ASSUME Requests' # {} => N > 0 /\ m.agreed = N
      PROVE  \A q \in Roles : PatientInv(q)'
  <2> SUFFICES ASSUME NEW q \in Roles PROVE PatientInv(q)'
    OBVIOUS
  <2>1. CASE q = r
    BY <1>2, <1>4, <1>5, <1>6, <1>9, <2>1 DEF PatientInv, Patient
  <2>2. CASE q # r
    BY <1>5, <1>7, <2>2 DEF PatientInv
  <2> QED BY <2>1, <2>2
<1>10. CASE ~asks
  <2>1. Requests' = {}
    BY <1>2, <1>4, <1>10, RequestsSame
  <2> QED BY <1>9, <2>1 DEF PatienceInv, RequestsOneByOne
<1>11. CASE asks
  <2>1. Requests' = {j} /\ j \in Alone'
    <3>1. j.step = "needed"
      BY DEF Do
    <3>2. server' = server (+) SetToBag({j})
      BY <1>2, <1>11
    <3> HIDE DEF j
    <3>3. j \notin Pending
      BY <1>4, <3>1 DEF Requests
    <3>4. Pending' = Pending \cup {j} /\ j \in Alone'
      BY <3>2, <3>3, JobAdded
    <3> QED BY <1>4, <3>1, <3>4 DEF Requests
  <2>2. RequestsOneByOne'
    BY <2>1 DEF RequestsOneByOne
  <2>3. /\ N \in Nat /\ m.agreed \in Nat /\ m.processed \in Nat /\ Len(m.known) \in Nat
        /\ Len(m.known) <= N /\ m.processed \in {Len(m.known), Len(m.known) - 1}
    <3>1. Len(m.known) <= N
      BY <1>1, KnownFit
    <3>2. m.processed \in {Len(m.known), Len(m.known) - 1}
      BY <1>1 DEF QueueInv
    <3>3. N \in Nat
      BY DEF TypeOK
    <3> HIDE DEF m
    <3> QED BY <1>1, <3>1, <3>2, <3>3, Fields, NegotiationAssumption DEF NegotiationAssumption
  <2>4. Len(m.known) = N /\ N > 0
    <3>1. m.processed > 0 /\ (N >= 2 => ~(Len(m.known) < N))
      BY <1>4, <1>11
    <3> HIDE DEF m, N
    <3> QED BY <2>3, <3>1
  <2>5. m.agreed = N
    <3>1. CASE Between(m)
      BY <1>11, <2>4, <3>1 DEF Between, Idle
    <3>2. CASE Working(m)
      <4>1. /\ m.known[m.current].remote /\ m.agreed = m.current /\ m.current = m.processed
            /\ m.current # 0
        <5> HIDE DEF m
        <5>1. m.current \in 1..Len(m.known) /\ Len(m.chain) = 0
          BY <1>1, <1>2, <3>2, Busy DEF Working
        <5> QED BY <1>2, <3>2, <5>1 DEF Working, Answering, Offering, Doing, Collecting, Awaiting
      <4>2. m.processed = Len(m.known)
        <5>1. CASE r = "callee"
          <6>1. ~(Len(m.known) > m.processed)
            BY <1>11, <5>1 DEF FulfillingQueued
          <6> HIDE DEF m
          <6> QED BY <2>3, <6>1
        <5>2. CASE r = "caller"
          <6>1. m.current \in 1..Len(m.known) /\ m.known[m.current].id = m.current
            BY <1>1, <4>1, Busy
          <6>2. m.current \in 1..N /\ negs[m.current].offerer # r
            BY <1>1, <4>1, <6>1 DEF KnownInv
          <6>3. m.current # 1
            <7>1. N > 0 => negs[1].offerer = "caller"
              BY DEF OneSideInv, FirstInv
            <7> QED BY <2>4, <5>2, <6>2, <7>1
          <6>4. m.current \in 2..N
            <7> HIDE DEF m, N
            <7> QED BY <2>3, <6>2, <6>3
          <6>5. Opposite(r) \in Roles /\ Opposite(r) # r
            BY DEF Opposite, Roles
          <6>6. client[Opposite(r)].toggles = 0
            BY <1>7, <6>5
          <6>7. negs[m.current].offerer # Opposite(r)
            BY <6>4, <6>5, <6>6 DEF OneSideInv, SilentInv
          <6>8. negs[m.current].offerer \in Roles
            <7>1. negs[m.current] \in Document
              BY <6>2 DEF TypeOK
            <7> QED BY <7>1 DEF Document
          <6> QED BY <1>8, <6>2, <6>7, <6>8
        <5> QED BY <5>1, <5>2 DEF Roles
      <4> QED BY <2>4, <4>1, <4>2
    <3> QED BY <1>1, <3>1, <3>2 DEF QueueInv
  <2>6. Requests' # {} => N > 0 /\ m.agreed = N
    BY <2>4, <2>5
  <2> QED BY <1>9, <2>2, <2>6 DEF PatienceInv
<1> QED BY <1>10, <1>11

(* A step of the server that has nothing to do with the requests *)
LEMMA ServerPatient ==
  ASSUME TypeOK, PatienceInv, NEW j \in Pending, NEW next, NEW sent, Proceed(j, next, sent),
         client' = client, Len(negs') = Len(negs),
         \A k \in next : k.step \notin {"needed", "start"}
  PROVE  PatienceInv'
<1>1. /\ Pending' \subseteq Pending \cup next
      /\ \A k \in Alone : k \notin next /\ k \in Pending' => k \in Alone'
  BY JobDone
<1>2. Requests' \subseteq Requests /\ \A k \in Requests' : k \in Pending' /\ k \notin next
  BY <1>1 DEF Requests
<1>3. RequestsOneByOne'
  BY <1>1, <1>2 DEF PatienceInv, RequestsOneByOne
<1>4. ASSUME NEW q \in Roles PROVE PatientInv(q)'
  <2>1. PatientInv(q)
    BY DEF PatienceInv
  <2>2. Requests' # {} => Requests # {}
    BY <1>2
  <2> QED BY <2>1, <2>2 DEF PatientInv
<1> QED BY <1>3, <1>4 DEF PatienceInv

(* A description is saved, or is not. *)
LEMMA SavePatient ==
  ASSUME TypeOK, NegotiationInv, OneSideInv, PatienceInv, NEW j \in Pending, SaveSession(j)
  PROVE  PatienceInv'
<1>1. j.step = "save" /\ client' = client
  BY DEF SaveSession
<1>2. CASE CanSave(j)
  <2>1. PICK n : n = j.id
    OBVIOUS
  <2>2. PICK d : d = [negs[n] EXCEPT ![j.sdp] = TRUE]
    OBVIOUS
  <2>3. negs' = [negs EXCEPT ![n] = d] /\ Proceed(j, {Do("forward", Opposite(j.role), n)}, {})
    BY <1>2, <2>1, <2>2 DEF SaveSession
  <2>4. n \in 1..Len(negs) /\ j.sdp \in {"offer", "answer"}
    BY <1>1, <2>1, SavedFacts
  <2>5. Len(negs') = Len(negs)
    <3>1. negs \in Seq(Document) /\ negs[n] \in Document
      BY <2>4 DEF TypeOK
    <3>2. d \in Document
      BY <2>2, <2>4, <3>1, DocumentSaved
    <3> QED BY <2>3, <2>4, <3>1, <3>2, Replaced
  <2>6. \A k \in {Do("forward", Opposite(j.role), n)} : k.step \notin {"needed", "start"}
    BY DEF Do
  <2> QED BY <1>1, <2>3, <2>5, <2>6, ServerPatient
<1>3. CASE ~CanSave(j)
  <2>1. Proceed(j, {}, {}) /\ negs' = negs
    BY <1>3 DEF SaveSession
  <2> QED BY <1>1, <2>1, ServerPatient
<1> QED BY <1>2, <1>3

(* The request that is granted was the only one. *)
LEMMA NeededPatient ==
  ASSUME TypeOK, PatienceInv, NEW j \in Pending, NegotiationNeeded(j)
  PROVE  PatienceInv'
<1> DEFINE s == Do("start", j.role, 0)
           next == IF MayStart(j.role, j.id) THEN {s} ELSE {}
           sent == IF MayResend(j.role, j.id) THEN {Request(j.role, Len(negs))} ELSE {}
<1>1. j.step = "needed" /\ Proceed(j, next, sent) /\ client' = client /\ negs' = negs
  BY DEF NegotiationNeeded
<1>2. s.step = "start" /\ next \subseteq {s}
  BY DEF Do
<1>3. j \in Requests /\ (\A k \in Requests : k = j) /\ j \in Alone
  BY <1>1 DEF PatienceInv, RequestsOneByOne, Requests
<1> HIDE DEF s, next, sent
<1>4. s \notin Pending /\ j \notin next
  BY <1>1, <1>2, <1>3 DEF Requests
<1>5. /\ Pending' \subseteq Pending \cup next
      /\ j \notin Pending'
      /\ \A k \in next : k \notin Pending => k \in Alone'
  BY <1>1, <1>3, <1>4, JobDone
<1>6. Requests' \subseteq next
  BY <1>3, <1>5 DEF Requests
<1>7. RequestsOneByOne'
  BY <1>2, <1>4, <1>5, <1>6 DEF RequestsOneByOne
<1>8. ASSUME NEW q \in Roles PROVE PatientInv(q)'
  <2>1. PatientInv(q) /\ Requests # {}
    BY <1>3 DEF PatienceInv
  <2> QED BY <1>1, <2>1 DEF PatientInv
<1> QED BY <1>7, <1>8 DEF PatienceInv

(* Another negotiation starts when the connection is stable with the       *)
(* latest.                                                                 *)
LEMMA StartPatient ==
  ASSUME TypeOK, OneSideInv, PatienceInv, NEW j \in Pending, StartNewNegotiation(j)
  PROVE  PatienceInv'
<1> DEFINE N == Len(negs)
           d == [offerer |-> j.role, offer |-> FALSE, answer |-> FALSE]
           s == Request(j.role, N + 1)
<1>1. /\ j.step \in {"startFirst", "start"} /\ negs' = Append(negs, d) /\ Proceed(j, {}, {s})
      /\ client' = client
  BY DEF StartNewNegotiation, Start
<1>2. negs \in Seq(Document) /\ N \in Nat /\ d \in Document
  BY DEF TypeOK, Job, Pending, Document
<1> HIDE DEF d
<1>3. Len(negs') = N + 1
  BY <1>1, <1>2
<1>4. /\ Pending' \subseteq Pending
      /\ j \in Alone => j \notin Pending'
      /\ \A k \in Alone : k \in Pending' => k \in Alone'
  BY <1>1, JobDone
<1>5. Requests' \subseteq Requests
  BY <1>4 DEF Requests
<1>6. RequestsOneByOne'
  BY <1>4, <1>5 DEF PatienceInv, RequestsOneByOne, Requests
<1>7. \A q \in Roles : PatientInv(q) /\ client[q].agreed \in Nat
  <2>1. \A q \in Roles : client[q].agreed \in 0..MaxNegotiations
    BY Fields DEF TypeOK
  <2> QED BY <2>1, NegotiationAssumption DEF PatienceInv, NegotiationAssumption
<1>8. CASE j.step = "start"
  <2>1. j \in Requests /\ (\A k \in Requests : k = j) /\ j \in Alone
    BY <1>8 DEF PatienceInv, RequestsOneByOne, Requests
  <2>2. Requests' = {}
    BY <1>4, <1>5, <2>1 DEF Requests
  <2>3. ASSUME NEW q \in Roles PROVE PatientInv(q)'
    <3>1. client[q].toggles # 0 => client[q].agreed = N /\ Patient(client[q])
      BY <1>7, <2>1 DEF PatientInv
    <3> HIDE DEF N
    <3> QED BY <1>1, <1>2, <1>3, <2>2, <3>1 DEF PatientInv
  <2> QED BY <1>6, <2>3 DEF PatienceInv
<1>9. CASE j.step = "startFirst"
  <2>1. N = 0
    BY <1>9 DEF OneSideInv, FirstInv, Firsts
  <2>2. ASSUME NEW q \in Roles PROVE PatientInv(q)'
    <3>1. client[q].toggles # 0 => Requests' = {}
      BY <1>5, <1>7, <2>1 DEF PatientInv
    <3> QED BY <1>1, <1>3, <2>1, <3>1 DEF PatientInv
  <2> QED BY <1>6, <2>2 DEF PatienceInv
<1> QED BY <1>1, <1>8, <1>9

(* Every handler keeps the requests one by one; *)
LEMMA HandlePatient ==
  ASSUME TypeOK, NegotiationInv, OneSideInv, PatienceInv, NEW j \in Pending, Handle(j)
  PROVE  PatienceInv'
<1>1. CASE Acknowledge(j)
  <2> DEFINE next == IF negs = << >> THEN {Do("startFirst", "caller", 0)} ELSE {}
  <2>1. Proceed(j, next, {}) /\ client' = client /\ negs' = negs
    BY <1>1 DEF Acknowledge
  <2>2. \A k \in next : k.step \notin {"needed", "start"}
    BY DEF Do
  <2> QED BY <2>1, <2>2, ServerPatient
<1>2. CASE Accept(j)
  <2> DEFINE next == {Do("initialOffer", "callee", 0)}
  <2>1. Proceed(j, next, {}) /\ client' = client /\ negs' = negs
    BY <1>2 DEF Accept
  <2>2. \A k \in next : k.step \notin {"needed", "start"}
    BY DEF Do
  <2> QED BY <2>1, <2>2, ServerPatient
<1>3. CASE InitialOffer(j)
  <2>1. PICK sent : Proceed(j, {}, sent) /\ client' = client /\ negs' = negs
    BY <1>3 DEF InitialOffer
  <2> QED BY <2>1, ServerPatient
<1>4. CASE Forward(j)
  <2> DEFINE next == IF accepted THEN {Do("send", j.role, j.id)} ELSE {}
  <2>1. Proceed(j, next, {}) /\ client' = client /\ negs' = negs
    BY <1>4 DEF Forward
  <2>2. \A k \in next : k.step \notin {"needed", "start"}
    BY DEF Do
  <2> QED BY <2>1, <2>2, ServerPatient
<1>5. CASE Send(j)
  <2>1. PICK sent : Proceed(j, {}, sent) /\ client' = client /\ negs' = negs
    BY <1>5 DEF Send
  <2> QED BY <2>1, ServerPatient
<1> QED BY <1>1, <1>2, <1>3, <1>4, <1>5, SavePatient, NeededPatient, StartPatient DEF Handle

(* and so does every step. *)
LEMMA PatienceStep ==
  ASSUME ~Together, MaxToggles <= 2, TypeOK, NegotiationInv, OneSideInv, PatienceInv, [Next]_vars,
         TypeOK', NegotiationInv'
  PROVE  PatienceInv'
<1>1. ASSUME NEW j \in BagToSet(server), Handle(j) PROVE PatienceInv'
  BY <1>1, HandlePatient DEF Pending
<1>2. ASSUME NEW s \in signals, Receive(s) PROVE PatienceInv'
  BY <1>2, ReceivePatient
<1>3. ASSUME NEW r \in Roles, ClientStep(r) PROVE PatienceInv'
  BY <1>3, OperatePatient, AskPatient, GatheredPatient DEF ClientStep
<1>4. ASSUME NEW r \in Roles, SetHeld(r) PROVE PatienceInv'
  BY <1>4, SetHeldPatient
<1>5. ASSUME NEW r \in Tardy, GetInputTrack(r) PROVE PatienceInv'
  <2>1. r \in Roles
    BY NegotiationAssumption DEF NegotiationAssumption
  <2> QED BY <1>5, <2>1, TrackPatient
<1>6. CASE UNCHANGED vars
  <2>1. negs' = negs /\ client' = client /\ server' = server
    BY <1>6 DEF vars
  <2>2. Requests' = Requests /\ Alone' = Alone
    BY <2>1, RequestsSame
  <2> QED BY <2>1, <2>2 DEF PatienceInv, PatientInv, RequestsOneByOne
<1> QED BY <1>1, <1>2, <1>3, <1>4, <1>5, <1>6 DEF Next

(* While the call is put on or off hold twice at most, a client asks for   *)
(* another negotiation only when the one that it asked for before is       *)
(* agreed (onWebRTCNegotiationNeeded).                                     *)
THEOREM RequestsDoNotOverlap ==
  ~Together /\ MaxToggles <= 2 => (Spec => []RequestsOneByOne)
<1> SUFFICES ASSUME ~Together, MaxToggles <= 2 PROVE Spec => []RequestsOneByOne
  OBVIOUS
<1> DEFINE Inv == TypeOK /\ NegotiationInv /\ OneSideInv /\ PatienceInv
<1>1. Init => OneSideInv /\ PatienceInv
  <2> SUFFICES ASSUME Init PROVE OneSideInv /\ PatienceInv
    OBVIOUS
  <2>1. \A j \in Pending : j.step \notin {"needed", "start"}
    BY DEF Init, Pending, BagToSet, SetToBag, Do
  <2>2. Requests = {}
    BY <2>1 DEF Requests
  <2>3. \A r \in Roles : client[r].toggles = 0
    BY DEF Init
  <2> QED BY <2>2, <2>3, OneSideInit DEF PatienceInv, PatientInv, RequestsOneByOne
<1>2. (TypeOK /\ NegotiationInv) /\ (TypeOK /\ NegotiationInv)' /\ OneSideInv /\ PatienceInv /\ [Next]_vars
        => OneSideInv' /\ PatienceInv'
  BY OneSideStep, PatienceStep DEF PatienceInv
<1>3. PatienceInv => RequestsOneByOne
  BY DEF PatienceInv
<1> QED BY NegotiationInvariance, <1>1, <1>2, <1>3, PTL DEF Spec

(* So no connection goes back to an older negotiation                      *)
(* (processNegotiations), without a hypothesis on the behaviour,           *)
THEOREM TwoHoldsAdvance ==
  ~Together /\ MaxToggles <= 2 => (Spec => AgreementsAdvance)
<1> SUFFICES ASSUME ~Together, MaxToggles <= 2 PROVE Spec => AgreementsAdvance
  OBVIOUS
<1>1. Spec => []RequestsOneByOne
  BY RequestsDoNotOverlap
<1>2. Spec /\ []RequestsOneByOne => AgreementsAdvance
  BY OneSideAdvances
<1> QED BY <1>1, <1>2, PTL

(* and the two connections end up stable with the same, whenever the       *)
(* callee accepted and the microphones came.                               *)
THEOREM TwoHoldsAgree ==
  ~Together /\ MaxToggles <= 2 => (Spec => []PeersAgree)
<1> SUFFICES ASSUME ~Together, MaxToggles <= 2 PROVE Spec => []PeersAgree
  OBVIOUS
<1>1. Spec => []RequestsOneByOne
  BY RequestsDoNotOverlap
<1>2. Spec /\ []RequestsOneByOne => []PeersAgree
  BY OneSideAgrees
<1> QED BY <1>1, <1>2, PTL
=============================================================================
