-------------------------- MODULE NegotiationProofs --------------------------
(***************************************************************************)
(* The safety of Negotiation, whatever the number of negotiations and      *)
(* holds, and whoever asks for them.  The argument: what a client knows of *)
(* a negotiation is so on the server, whose documents only grow; so an     *)
(* operation of a peer connection, which was begun for a negotiation that  *)
(* the client knows, only records what the server has.  For the caller,    *)
(* whose negotiations are never overruled, the operations in flight also   *)
(* show how far its own latest one has come.                               *)
(***************************************************************************)
EXTENDS NegotiationProperties, DataLemmas

-----------------------------------------------------------------------------
(* The invariant, of the documents that the server has of the negotiations *)

DocsOK(docs) == /\ docs \in Seq(Document) /\ Len(docs) <= MaxNegotiations
                /\ \A n \in 1..Len(docs) : docs[n].answer => docs[n].offer

(* What client m of role r knows of the negotiations is so. *)
KnownInv(docs, r, m) ==
    /\ \A i \in 1..Len(m.known) :
         /\ m.known[i].id \in 1..Len(docs)
         /\ m.known[i].remote <=> docs[m.known[i].id].offerer # r
         /\ m.known[i].remote => docs[m.known[i].id].offer
    /\ \A i, j \in 1..Len(m.known) : m.known[i].id = m.known[j].id => i = j

(* What it is busy with are negotiations whose turn has come. *)
TurnInv(m) == /\ m.processed \in 0..Len(m.known)
              /\ m.current \in {0, m.processed}
              /\ m.ended \subseteq 1..m.processed
              /\ m.gathering \subseteq 1..m.processed

Offers == {"createOffer", "localOffer"}
Answers == {"remoteOffer", "createAnswer", "localAnswer"}
Settling == {"localAnswer", "remoteAnswer"}

(* The operations in flight are of the right side. *)
Sided(docs, m, o) ==
    /\ o.at \in 1..m.processed
    /\ o.op \in Offers => ~m.known[o.at].remote
    /\ o.op \in Answers => m.known[o.at].remote
    /\ o.op = "remoteAnswer" => docs[m.known[o.at].id].answer

ChainInv(docs, m) == \A k \in 1..Len(m.chain) : Sided(docs, m, m.chain[k])

(* The last negotiation that the connection was stable with is recorded. *)
AgreedInv(docs, r, m) ==
    /\ m.agreed <= Len(docs)
    /\ m.agreed > 0 => /\ docs[m.agreed].offer
                       /\ docs[m.agreed].offerer = r => docs[m.agreed].answer

(* Of the caller: a remote negotiation that is still being processed is    *)
(* the current one, or it was overruled.                                   *)
OverruledInv(m) ==
    \A k \in 1..Len(m.chain) :
        m.chain[k].op \in Answers => m.chain[k].at = m.current \/ m.chain[k].at \in m.ended

(* Of the caller: the latest negotiation it knows is its own, has had its  *)
(* turn and lacks an answer.                                               *)
Open(docs, m) ==
    LET n == Len(m.known) IN
    n > 0 /\ m.processed = n /\ ~m.known[n].remote /\ ~docs[m.known[n].id].answer

OffersLatest(m, k) == m.chain[k].at = Len(m.known) /\ m.chain[k].op \in Offers

(* Its offer is still to be made, after all that may settle the connection, *)
WillOffer(m) == /\ Len(m.known) \notin m.ended
                /\ \E k \in 1..Len(m.chain) :
                     /\ OffersLatest(m, k)
                     /\ \A l \in 1..Len(m.chain) : m.chain[l].op \in Settling => l < k

Unsettled(m) == \A k \in 1..Len(m.chain) : m.chain[k].op \notin Settling

(* or it was made, and nothing settles the connection before the answer.   *)
PositionInv(docs, m) ==
    /\ \A k, l \in 1..Len(m.chain) : OffersLatest(m, k) /\ OffersLatest(m, l) => k = l
    /\ Len(m.known) \in m.gathering => \A k \in 1..Len(m.chain) : ~OffersLatest(m, k)
    /\ Open(docs, m) => WillOffer(m) \/ (m.peer # "stable" /\ Unsettled(m))

ClientInv(docs, r, m) ==
    /\ KnownInv(docs, r, m) /\ TurnInv(m) /\ ChainInv(docs, m) /\ AgreedInv(docs, r, m)
    /\ r = "caller" => OverruledInv(m) /\ PositionInv(docs, m)

(* A signal tells what the documents say. *)
SignalInv(docs, s) ==
    /\ s.id \in 1..Len(docs)
    /\ s.type = "request-offer" => docs[s.id].offerer = s.to
    /\ s.type = "offer" => docs[s.id].offerer # s.to /\ docs[s.id].offer
    /\ s.type = "answer" => docs[s.id].answer

(* A job refers to a negotiation there is; whoever describes one of the    *)
(* other side has seen its offer; the caller asks for none while its own   *)
(* latest lacks an answer.                                                 *)
JobInv(docs, j) ==
    /\ j.step \in {"save", "forward", "send", "needed"} => j.id \in 1..Len(docs)
    /\ j.step = "save" => /\ j.sdp # "none"
                          /\ docs[j.id].offerer # j.role => docs[j.id].offer
    /\ j.step = "needed" /\ j.role = "caller" /\ docs[j.id].offerer = "caller" => docs[j.id].answer

NegotiationInv ==
    /\ DocsOK(negs)
    /\ \A j \in Pending : JobInv(negs, j)
    /\ \A s \in signals : SignalInv(negs, s)
    /\ \A r \in Roles : ClientInv(negs, r, client[r])

-----------------------------------------------------------------------------
(* Bags and sequences                                                      *)

(* A job that is done leaves the bag, and its successors enter it. *)
LEMMA BagStep ==
  ASSUME NEW B, IsABag(B), NEW j, NEW S
  PROVE  /\ IsABag((B (-) SetToBag({j})) (+) SetToBag(S))
         /\ BagToSet((B (-) SetToBag({j})) (+) SetToBag(S)) \subseteq BagToSet(B) \cup S
<1> DEFINE D == B (-) SetToBag({j})
<1>1. IsABag(D) /\ DOMAIN D \subseteq DOMAIN B
  BY DEF IsABag, SetToBag, (-)
<1>2. IsABag(SetToBag(S)) /\ DOMAIN SetToBag(S) = S
  BY DEF IsABag, SetToBag
<1> HIDE DEF D
<1>3. IsABag(D (+) SetToBag(S)) /\ DOMAIN (D (+) SetToBag(S)) = DOMAIN D \cup S
  BY <1>1, <1>2 DEF IsABag, (+)
<1> QED BY <1>1, <1>3 DEF BagToSet, D

LEMMA BagAdd ==
  ASSUME NEW B, IsABag(B), NEW S
  PROVE  /\ IsABag(B (+) SetToBag(S))
         /\ BagToSet(B (+) SetToBag(S)) = BagToSet(B) \cup S
<1>2. IsABag(SetToBag(S)) /\ DOMAIN SetToBag(S) = S
  BY DEF IsABag, SetToBag
<1>3. IsABag(B (+) SetToBag(S)) /\ DOMAIN (B (+) SetToBag(S)) = DOMAIN B \cup S
  BY <1>2 DEF IsABag, (+)
<1> QED BY <1>3 DEF BagToSet

(* The values of an injective sequence of numbers leave it no longer than  *)
(* they are many.                                                          *)
LEMMA DistinctFit ==
  ASSUME NEW L \in Nat, NEW N \in Nat, NEW f \in [1..L -> 1..N],
         \A i, j \in 1..L : f[i] = f[j] => i = j
  PROVE  L <= N
<1>1. IsFiniteSet(1..L) /\ Cardinality(1..L) = L /\ IsFiniteSet(1..N) /\ Cardinality(1..N) = N
  BY FS_Interval
<1>2. ASSUME N < L PROVE FALSE
  <2>1. \E i, j \in 1..L : i # j /\ f[i] = f[j]
    BY <1>1, <1>2, FS_PigeonHole
  <2> QED BY <2>1
<1> QED BY <1>2

LEMMA Elements ==
  ASSUME NEW S, NEW s \in Seq(S)
  PROVE  Len(s) \in Nat /\ \A k \in 1..Len(s) : s[k] \in S
  OBVIOUS

LEMMA Appended ==
  ASSUME NEW S, NEW s \in Seq(S), NEW x \in S
  PROVE  /\ Append(s, x) \in Seq(S) /\ Len(s) \in Nat /\ Len(Append(s, x)) = Len(s) + 1
         /\ \A k \in 1..Len(s) : Append(s, x)[k] = s[k]
         /\ Append(s, x)[Len(s) + 1] = x
  OBVIOUS

LEMMA Tailed ==
  ASSUME NEW S, NEW s \in Seq(S), s # << >>
  PROVE  /\ Len(s) \in Nat \ {0} /\ Head(s) = s[1] /\ s[1] \in S
         /\ Tail(s) \in Seq(S) /\ Len(Tail(s)) = Len(s) - 1
         /\ \A k \in 1..(Len(s) - 1) : Tail(s)[k] = s[k + 1]
  OBVIOUS

-----------------------------------------------------------------------------
(* The queue of negotiations of a client                                   *)

(* The fields of a client *)
LEMMA Fields ==
  ASSUME NEW m \in Client
  PROVE  /\ m.known \in Seq([id : Ids, remote : BOOLEAN]) /\ Len(m.known) \in Nat
         /\ m.current \in 0..MaxNegotiations /\ m.processed \in 0..MaxNegotiations
         /\ m.ended \in SUBSET Ids /\ m.failed \in SUBSET Ids /\ m.gathering \in SUBSET Ids
         /\ m.chain \in Seq([op : Operations, at : Ids]) /\ Len(m.chain) \in Nat
         /\ m.agreed \in 0..MaxNegotiations /\ m.ready \in BOOLEAN
         /\ \A i \in 1..Len(m.known) : m.known[i].id \in Ids /\ m.known[i].remote \in BOOLEAN
         /\ \A k \in 1..Len(m.chain) : m.chain[k].op \in Operations /\ m.chain[k].at \in Ids
<1>1. m.known \in Seq([id : Ids, remote : BOOLEAN]) /\ m.chain \in Seq([op : Operations, at : Ids])
  BY DEF Client
<1>2. /\ m.current \in 0..MaxNegotiations /\ m.processed \in 0..MaxNegotiations
      /\ m.ended \in SUBSET Ids /\ m.failed \in SUBSET Ids /\ m.gathering \in SUBSET Ids
      /\ m.agreed \in 0..MaxNegotiations /\ m.ready \in BOOLEAN
  BY DEF Client
<1>3. /\ Len(m.known) \in Nat
      /\ \A i \in 1..Len(m.known) : m.known[i].id \in Ids /\ m.known[i].remote \in BOOLEAN
  <2>1. Len(m.known) \in Nat /\ \A i \in 1..Len(m.known) : m.known[i] \in [id : Ids, remote : BOOLEAN]
    BY <1>1, Elements
  <2>2. \A d \in [id : Ids, remote : BOOLEAN] : d.id \in Ids /\ d.remote \in BOOLEAN
    OBVIOUS
  <2> QED BY <2>1, <2>2
<1>4. /\ Len(m.chain) \in Nat
      /\ \A k \in 1..Len(m.chain) : m.chain[k].op \in Operations /\ m.chain[k].at \in Ids
  <2>1. Len(m.chain) \in Nat /\ \A k \in 1..Len(m.chain) : m.chain[k] \in [op : Operations, at : Ids]
    BY <1>1, Elements
  <2>2. \A d \in [op : Operations, at : Ids] : d.op \in Operations /\ d.at \in Ids
    OBVIOUS
  <2> QED BY <2>1, <2>2
<1> QED BY <1>1, <1>2, <1>3, <1>4

(* A client knows at most as many negotiations as there are. *)
LEMMA KnownFit ==
  ASSUME NEW docs, DocsOK(docs), NEW r \in Roles, NEW m \in Client, KnownInv(docs, r, m)
  PROVE  Len(m.known) <= Len(docs) /\ 1..Len(m.known) \subseteq Ids
<1> DEFINE f == [i \in 1..Len(m.known) |-> m.known[i].id]
<1>1. Len(docs) \in Nat /\ Len(docs) <= MaxNegotiations /\ MaxNegotiations \in Nat
  BY NegotiationAssumption DEF NegotiationAssumption, DocsOK
<1>2. f \in [1..Len(m.known) -> 1..Len(docs)] /\ \A i, j \in 1..Len(m.known) : f[i] = f[j] => i = j
  BY DEF KnownInv
<1> HIDE DEF f
<1>3. Len(m.known) <= Len(docs)
  BY <1>1, <1>2, Fields, DistinctFit
<1> QED BY <1>1, <1>3, Fields DEF Ids

(* The queue holds negotiations that have not had their turn; the caller's *)
(* own latest one overrides all others.                                    *)
LEMMA Queue ==
  ASSUME NEW r \in Roles, NEW m \in Client
  PROVE  /\ HighestImpolite(r, m) \in 0..Len(m.known)
         /\ InQueue(r, m) \subseteq (m.processed + 1)..Len(m.known)
         /\ r = "caller" /\ Len(m.known) > 0 /\ ~m.known[Len(m.known)].remote
              => /\ HighestImpolite(r, m) = Len(m.known)
                 /\ InQueue(r, m) \subseteq {Len(m.known)}
<1> DEFINE L == Len(m.known)
           I == {i \in 1..L : ~IsPolite(r, m, i)}
<1>1. L \in Nat /\ m.processed \in Nat
  BY Fields, NegotiationAssumption DEF NegotiationAssumption
<1>2. IsFiniteSet({0} \cup I) /\ {0} \cup I \in SUBSET Nat
  <2>1. IsFiniteSet(0..L)
    BY <1>1, FS_Interval
  <2>2. {0} \cup I \subseteq 0..L
    BY <1>1
  <2> QED BY <1>1, <2>1, <2>2, FS_Subset
<1>3. HighestImpolite(r, m) \in {0} \cup I /\ \A n \in {0} \cup I : n <= HighestImpolite(r, m)
  BY <1>2, MaxOfFinite DEF HighestImpolite
<1>4. HighestImpolite(r, m) \in 0..L
  BY <1>1, <1>3
<1>5. InQueue(r, m) \subseteq (m.processed + 1)..L
  BY DEF InQueue
<1>6. ASSUME r = "caller", L > 0, ~m.known[L].remote
      PROVE  HighestImpolite(r, m) = L /\ InQueue(r, m) \subseteq {L}
  <2>0. m.known[L].remote = FALSE /\ (r = "callee") = FALSE
    BY <1>1, <1>6, Fields
  <2>1. ~IsPolite(r, m, L)
    BY <2>0 DEF IsPolite
  <2>2. L \in I
    BY <1>1, <1>6, <2>1
  <2>3. HighestImpolite(r, m) = L
    BY <1>1, <1>3, <1>4, <2>2
  <2>4. \A i \in InQueue(r, m) : i \in 1..L /\ i >= L
    BY <1>1, <2>3 DEF InQueue
  <2> QED BY <1>1, <2>3, <2>4
<1> QED BY <1>4, <1>5, <1>6

Good(docs, r, m) == m \in Client /\ ClientInv(docs, r, m)

(* What a client knows of the negotiations, and whether an operation is of *)
(* the right side, depends on these fields only.                           *)
LEMMA KnownSame ==
  ASSUME NEW docs, NEW r, NEW m, KnownInv(docs, r, m), NEW e, e.known = m.known
  PROVE  KnownInv(docs, r, e)
BY DEF KnownInv

LEMMA ChainSame ==
  ASSUME NEW docs, NEW m, ChainInv(docs, m), NEW e,
         e.known = m.known, e.processed = m.processed, e.chain = m.chain
  PROVE  ChainInv(docs, e)
<1>1. \A k : Sided(docs, m, m.chain[k]) <=> Sided(docs, e, e.chain[k])
  BY DEF Sided
<1> QED BY <1>1 DEF ChainInv

(* The invariant of a client looks at these fields only. *)
LEMMA SameFields ==
  ASSUME NEW docs, NEW r \in Roles, NEW m, ClientInv(docs, r, m), NEW e,
         e.known = m.known, e.processed = m.processed, e.current = m.current, e.ended = m.ended,
         e.gathering = m.gathering, e.chain = m.chain, e.agreed = m.agreed,
         e.peer = m.peer \/ e.peer # "stable"
  PROVE  ClientInv(docs, r, e)
<1>1. KnownInv(docs, r, e) /\ ChainInv(docs, e)
  BY KnownSame, ChainSame DEF ClientInv
<1>3. TurnInv(e) /\ AgreedInv(docs, r, e)
  BY DEF ClientInv, TurnInv, AgreedInv
<1>2. r = "caller" => OverruledInv(e)
  BY DEF ClientInv, OverruledInv
<1>4. r = "caller" => PositionInv(docs, e)
  BY DEF ClientInv, PositionInv, OffersLatest, Open, WillOffer, Unsettled
<1> QED BY <1>1, <1>2, <1>3, <1>4 DEF ClientInv

(* Beginning the next negotiation *)
LEMMA ProcessOK ==
  ASSUME NEW docs, DocsOK(docs), NEW r \in Roles, NEW m, Good(docs, r, m)
  PROVE  LET p == ProcessNegotiations(r, m)
         IN  /\ Good(docs, r, p)
             /\ p.known = m.known /\ p.ended = m.ended /\ p.failed = m.failed
             /\ p.gathering = m.gathering /\ p.peer = m.peer
             /\ p.current = m.current \/ p.current \in InQueue(r, m)
<1> DEFINE p == ProcessNegotiations(r, m)
           L == Len(m.known)
           i == Min(InQueue(r, m))
           o == [op |-> IF m.known[i].remote THEN "remoteOffer" ELSE "createOffer", at |-> i]
<1>1. CASE p = m
  BY <1>1
<1>2. CASE p # m
  <2>1. m \in Client /\ ClientInv(docs, r, m) /\ m.current = 0 /\ InQueue(r, m) # {}
    BY <1>2 DEF Good, ProcessNegotiations
  <2>2. p = [m EXCEPT !.current = i, !.processed = i, !.chain = Append(@, o)]
    BY <1>2 DEF ProcessNegotiations
  <2>3. L \in Nat /\ m.processed \in Nat /\ Len(m.chain) \in Nat
    BY <2>1, Fields, NegotiationAssumption DEF NegotiationAssumption
  <2>4. i \in InQueue(r, m) /\ i \in (m.processed + 1)..L
    <3>1. InQueue(r, m) \subseteq (m.processed + 1)..L
      BY <2>1, Queue
    <3>2. InQueue(r, m) \in SUBSET Nat
      BY <2>3, <3>1
    <3> QED BY <2>1, <3>1, <3>2, MinOfNonempty
  <2>5. i \in Ids /\ L <= MaxNegotiations
    <3>1. 1..L \subseteq Ids
      BY <2>1, KnownFit DEF ClientInv
    <3> QED BY <2>3, <2>4, <3>1, NegotiationAssumption DEF NegotiationAssumption, Ids
  <2> HIDE DEF i
  <2>6. o \in [op : Operations, at : Ids] /\ o.at = i
    BY <2>5 DEF Operations
  <2>7. o.op = (IF m.known[i].remote THEN "remoteOffer" ELSE "createOffer")
    OBVIOUS
  <2> HIDE DEF o
  <2>8. /\ p.known = m.known /\ p.ended = m.ended /\ p.failed = m.failed
        /\ p.gathering = m.gathering /\ p.peer = m.peer /\ p.agreed = m.agreed
        /\ p.current = i /\ p.processed = i /\ p.chain = Append(m.chain, o)
    BY <2>1, <2>2 DEF Client
  <2>9. m.chain \in Seq([op : Operations, at : Ids])
    BY <2>1, Fields
  <2>10. /\ p.chain \in Seq([op : Operations, at : Ids]) /\ Len(p.chain) = Len(m.chain) + 1
         /\ \A k \in 1..Len(m.chain) : p.chain[k] = m.chain[k]
         /\ p.chain[Len(m.chain) + 1] = o
    BY <2>6, <2>8, <2>9, Appended
  <2>11. p \in Client
    <3>1. i \in 0..MaxNegotiations
      BY <2>5 DEF Ids
    <3> DEFINE c == Append(m.chain, o)
    <3>2. c \in Seq([op : Operations, at : Ids])
      BY <2>8, <2>10
    <3>3. p = [m EXCEPT !.current = i, !.processed = i, !.chain = c]
      BY <2>2
    <3> HIDE DEF c, p
    <3> QED BY <2>1, <3>1, <3>2, <3>3 DEF Client
  <2> HIDE DEF p
  <2>12. \A k \in 1..Len(p.chain) : \/ k \in 1..Len(m.chain) /\ p.chain[k] = m.chain[k]
                                    \/ k = Len(m.chain) + 1 /\ p.chain[k] = o
    BY <2>3, <2>10
  <2>13. \A k \in 1..Len(m.chain) : m.chain[k].at \in 1..m.processed
    BY <2>1 DEF ClientInv, ChainInv, Sided
  <2>14. KnownInv(docs, r, p) /\ AgreedInv(docs, r, p)
    BY <2>1, <2>8, KnownSame DEF ClientInv, AgreedInv
  <2>15. TurnInv(p)
    BY <2>1, <2>3, <2>4, <2>8 DEF ClientInv, TurnInv
  <2>16. ChainInv(docs, p)
    <3>1. ASSUME NEW k \in 1..Len(m.chain) PROVE Sided(docs, p, m.chain[k])
      <4>1. m.chain[k].at \in 1..i
        BY <2>3, <2>4, <2>13
      <4>2. Sided(docs, m, m.chain[k])
        BY <2>1 DEF ClientInv, ChainInv
      <4> QED BY <2>8, <4>1, <4>2 DEF Sided
    <3>2. Sided(docs, p, o)
      <4>1. o.at \in 1..i /\ o.op # "remoteAnswer"
        BY <2>3, <2>4, <2>6, <2>7
      <4> QED BY <2>6, <2>7, <2>8, <4>1 DEF Sided, Offers, Answers
    <3> QED BY <2>12, <3>1, <3>2 DEF ChainInv
  <2>17. ASSUME r = "caller" PROVE OverruledInv(p)
    <3>1. \A k \in 1..Len(m.chain) : m.chain[k].op \in Answers => m.chain[k].at \in m.ended
      BY <2>1, <2>3, <2>13, <2>17 DEF ClientInv, OverruledInv
    <3> QED BY <2>6, <2>8, <2>12, <3>1 DEF OverruledInv
  <2>18. ASSUME r = "caller" PROVE PositionInv(docs, p)
    <3>1. \A k \in 1..Len(p.chain) : OffersLatest(p, k) => k = Len(m.chain) + 1
      <4>1. \A k \in 1..Len(m.chain) : m.chain[k].at # L
        BY <2>3, <2>4, <2>13
      <4> QED BY <2>8, <2>12, <4>1 DEF OffersLatest
    <3>2. L \notin m.gathering /\ L \notin m.ended
      BY <2>1, <2>3, <2>4 DEF ClientInv, TurnInv
    <3>3. ASSUME Open(docs, p) PROVE WillOffer(p)
      <4>1. i = L /\ ~m.known[L].remote
        BY <2>8, <3>3 DEF Open
      <4>2. o.op = "createOffer" /\ o.at = L
        BY <2>6, <2>7, <4>1
      <4>3. Len(m.chain) + 1 \in 1..Len(p.chain) /\ OffersLatest(p, Len(m.chain) + 1)
        BY <2>3, <2>8, <2>10, <4>2 DEF OffersLatest, Offers
      <4>4. \A l \in 1..Len(p.chain) : p.chain[l].op \in Settling => l < Len(m.chain) + 1
        BY <2>3, <2>12, <4>2 DEF Settling
      <4> QED BY <2>8, <3>2, <4>3, <4>4 DEF WillOffer
    <3> QED BY <2>8, <3>1, <3>2, <3>3 DEF PositionInv
  <2>19. ClientInv(docs, r, p)
    BY <2>14, <2>15, <2>16, <2>17, <2>18 DEF ClientInv
  <2> QED BY <2>4, <2>8, <2>11, <2>19 DEF Good, p
<1> QED BY <1>1, <1>2

(* A negotiation may end unless it is the caller's latest and the answer   *)
(* could still come.                                                       *)
MayEnd(docs, r, m, i) ==
    /\ i \in 1..m.processed
    /\ r = "caller" /\ Open(docs, m) /\ i = Len(m.known) => m.peer # "stable" /\ Unsettled(m)

LEMMA MarkEnded ==
  ASSUME NEW docs, DocsOK(docs), NEW r \in Roles, NEW m, Good(docs, r, m), NEW i, MayEnd(docs, r, m, i)
  PROVE  LET e == [m EXCEPT !.ended = @ \cup {i}]
         IN  /\ Good(docs, r, e)
             /\ e.known = m.known /\ e.processed = m.processed /\ e.current = m.current
             /\ e.ended = m.ended \cup {i} /\ e.failed = m.failed
             /\ e.gathering = m.gathering /\ e.chain = m.chain /\ e.peer = m.peer
<1> DEFINE e == [m EXCEPT !.ended = @ \cup {i}]
<1>1. m \in Client /\ ClientInv(docs, r, m) /\ i \in 1..m.processed
  BY DEF Good, MayEnd
<1>2. /\ e.known = m.known /\ e.processed = m.processed /\ e.current = m.current
      /\ e.ended = m.ended \cup {i} /\ e.failed = m.failed /\ e.gathering = m.gathering
      /\ e.chain = m.chain /\ e.peer = m.peer /\ e.agreed = m.agreed
  BY <1>1 DEF Client
<1>3. i \in Ids
  <2>1. m.processed \in 0..MaxNegotiations
    BY <1>1, Fields
  <2> QED BY <1>1, <2>1, NegotiationAssumption DEF NegotiationAssumption, Ids
<1>4. e \in Client
  <2>1. m.ended \cup {i} \in SUBSET Ids
    BY <1>1, <1>3, Fields
  <2> QED BY <1>1, <2>1 DEF Client
<1> HIDE DEF e
<1>5. KnownInv(docs, r, e) /\ ChainInv(docs, e) /\ AgreedInv(docs, r, e)
  BY <1>1, <1>2, KnownSame, ChainSame DEF ClientInv, AgreedInv
<1>6. TurnInv(e)
  BY <1>1, <1>2 DEF ClientInv, TurnInv
<1>7. r = "caller" => OverruledInv(e)
  BY <1>1, <1>2 DEF ClientInv, OverruledInv
<1>8. ASSUME r = "caller" PROVE PositionInv(docs, e)
  <2>1. /\ \A k \in 1..Len(m.chain) : OffersLatest(e, k) <=> OffersLatest(m, k)
        /\ Open(docs, e) <=> Open(docs, m)
        /\ Unsettled(e) <=> Unsettled(m)
    BY <1>2 DEF OffersLatest, Open, Unsettled
  <2>2. ASSUME Open(docs, m) PROVE WillOffer(e) \/ (e.peer # "stable" /\ Unsettled(e))
    <3>1. CASE i = Len(m.known)
      BY <1>2, <1>8, <2>1, <2>2, <3>1 DEF MayEnd
    <3>2. CASE i # Len(m.known)
      BY <1>1, <1>2, <1>8, <2>1, <2>2, <3>2 DEF ClientInv, PositionInv, WillOffer
    <3> QED BY <3>1, <3>2
  <2> QED BY <1>1, <1>2, <1>8, <2>1, <2>2 DEF ClientInv, PositionInv
<1>9. ClientInv(docs, r, e)
  BY <1>5, <1>6, <1>7, <1>8 DEF ClientInv
<1> QED BY <1>2, <1>4, <1>9 DEF Good, e

(* The current negotiation may be dropped: of the caller's, once it has    *)
(* ended or if it is its own.                                              *)
LEMMA DropCurrent ==
  ASSUME NEW docs, NEW r \in Roles, NEW m, Good(docs, r, m),
         r = "caller" => \/ m.current = 0 \/ m.current \in m.ended
                         \/ m.current \in 1..Len(m.known) /\ ~m.known[m.current].remote
  PROVE  LET e == [m EXCEPT !.current = 0]
         IN  /\ Good(docs, r, e) /\ e.current = 0
             /\ e.known = m.known /\ e.processed = m.processed /\ e.ended = m.ended
             /\ e.failed = m.failed /\ e.gathering = m.gathering /\ e.chain = m.chain
             /\ e.peer = m.peer
<1> DEFINE e == [m EXCEPT !.current = 0]
<1>1. m \in Client /\ ClientInv(docs, r, m)
  BY DEF Good
<1>2. /\ e.known = m.known /\ e.processed = m.processed /\ e.current = 0
      /\ e.ended = m.ended /\ e.failed = m.failed /\ e.gathering = m.gathering
      /\ e.chain = m.chain /\ e.peer = m.peer /\ e.agreed = m.agreed
  BY <1>1 DEF Client
<1>3. e \in Client
  <2>1. 0 \in 0..MaxNegotiations
    BY NegotiationAssumption DEF NegotiationAssumption
  <2> QED BY <1>1, <2>1 DEF Client
<1> HIDE DEF e
<1>4. KnownInv(docs, r, e) /\ ChainInv(docs, e) /\ AgreedInv(docs, r, e) /\ TurnInv(e)
  <2>1. KnownInv(docs, r, e) /\ AgreedInv(docs, r, e)
    BY <1>1, <1>2, KnownSame DEF ClientInv, AgreedInv
  <2>2. ChainInv(docs, e)
    BY <1>1, <1>2, ChainSame DEF ClientInv
  <2>3. TurnInv(e)
    BY <1>1, <1>2 DEF ClientInv, TurnInv
  <2> QED BY <2>1, <2>2, <2>3
<1>5. ASSUME r = "caller" PROVE OverruledInv(e)
  <2>1. ASSUME NEW k \in 1..Len(m.chain), m.chain[k].op \in Answers
        PROVE  m.chain[k].at \in m.ended
    <3>1. m.chain[k].at \in 1..m.processed /\ m.known[m.chain[k].at].remote
      BY <1>1, <2>1 DEF ClientInv, ChainInv, Sided
    <3>2. m.chain[k].at = m.current \/ m.chain[k].at \in m.ended
      BY <1>1, <1>5, <2>1 DEF ClientInv, OverruledInv
    <3>3. m.processed \in Nat
      BY <1>1, Fields, NegotiationAssumption DEF NegotiationAssumption
    <3>4. m.chain[k].at # 0
      BY <3>1, <3>3
    <3> QED BY <1>5, <3>1, <3>2, <3>4
  <2> QED BY <1>2, <2>1 DEF OverruledInv
<1>6. r = "caller" => PositionInv(docs, e)
  BY <1>1, <1>2 DEF ClientInv, PositionInv, OffersLatest, Open, WillOffer, Unsettled
<1>7. ClientInv(docs, r, e)
  BY <1>4, <1>5, <1>6 DEF ClientInv
<1> QED BY <1>2, <1>3, <1>7 DEF Good, e

(* Negotiation.end *)
LEMMA EndOK ==
  ASSUME NEW docs, DocsOK(docs), NEW r \in Roles, NEW m, Good(docs, r, m), NEW i, MayEnd(docs, r, m, i)
  PROVE  LET e == End(r, m, i)
         IN  /\ Good(docs, r, e)
             /\ e.known = m.known /\ e.ended = m.ended \cup {i} /\ e.failed = m.failed
             /\ e.gathering = m.gathering /\ e.peer = m.peer
             /\ e.current = m.current \/ e.current \in {0} \cup InQueue(r, m)
<1> DEFINE e == [m EXCEPT !.ended = @ \cup {i}]
           f == [e EXCEPT !.current = 0]
<1>1. /\ Good(docs, r, e)
      /\ e.known = m.known /\ e.processed = m.processed /\ e.current = m.current
      /\ e.ended = m.ended \cup {i} /\ e.failed = m.failed /\ e.gathering = m.gathering
      /\ e.peer = m.peer
  BY MarkEnded
<1>2. End(r, m, i) = IF i \in m.ended \/ m.current # i THEN e ELSE ProcessNegotiations(r, f)
  BY DEF End
<1> HIDE DEF e
<1>3. CASE i \in m.ended \/ m.current # i
  BY <1>1, <1>2, <1>3
<1>4. CASE ~(i \in m.ended \/ m.current # i)
  <2>1. /\ Good(docs, r, f) /\ f.current = 0
        /\ f.known = e.known /\ f.processed = e.processed /\ f.ended = e.ended
        /\ f.failed = e.failed /\ f.gathering = e.gathering /\ f.peer = e.peer
    BY <1>1, <1>4, DropCurrent
  <2> HIDE DEF f
  <2>2. InQueue(r, f) = InQueue(r, m)
    BY <1>1, <2>1 DEF InQueue, HighestImpolite, IsPolite
  <2> QED BY <1>1, <1>2, <1>4, <2>1, <2>2, ProcessOK
<1> QED BY <1>3, <1>4

(* Negotiation.fail *)
LEMMA FailOK ==
  ASSUME NEW docs, DocsOK(docs), NEW r \in Roles, NEW m, Good(docs, r, m), NEW i, MayEnd(docs, r, m, i)
  PROVE  LET f == Fail(r, m, i)
         IN  /\ Good(docs, r, f) /\ f.known = m.known /\ f.gathering = m.gathering
             /\ f.peer = m.peer /\ i \in 1..f.processed
             /\ Active(f, i) => f.chain = m.chain
<1>1. CASE i \in m.failed \cup m.ended
  BY <1>1 DEF Fail, MayEnd
<1>2. CASE i \notin m.failed \cup m.ended
  <2> DEFINE e == IF m.current = i THEN End(r, m, i) ELSE m
             f == [e EXCEPT !.failed = @ \cup {i}]
  <2>1. /\ Good(docs, r, e) /\ e.known = m.known /\ e.gathering = m.gathering /\ e.peer = m.peer
        /\ e = m \/ i \in e.ended
    BY EndOK
  <2>2. Fail(r, m, i) = f
    BY <1>2 DEF Fail
  <2> HIDE DEF e
  <2>8. i \in 1..e.processed
    BY <2>1 DEF MayEnd, Good, ClientInv, TurnInv
  <2>3. i \in Ids
    <3>1. m.processed \in 0..MaxNegotiations /\ i \in 1..m.processed
      BY Fields DEF Good, MayEnd
    <3> QED BY <3>1, NegotiationAssumption DEF NegotiationAssumption, Ids
  <2>4. e \in Client /\ ClientInv(docs, r, e)
    BY <2>1 DEF Good
  <2>5. f \in Client
    <3>1. e.failed \cup {i} \in SUBSET Ids
      BY <2>3, <2>4, Fields
    <3> QED BY <2>4, <3>1 DEF Client
  <2>6. /\ f.known = e.known /\ f.processed = e.processed /\ f.current = e.current
        /\ f.ended = e.ended /\ f.gathering = e.gathering /\ f.chain = e.chain
        /\ f.peer = e.peer /\ f.agreed = e.agreed
    BY <2>4 DEF Client
  <2> HIDE DEF f
  <2>7. ClientInv(docs, r, f)
    BY <2>4, <2>6, SameFields
  <2> QED BY <2>1, <2>2, <2>5, <2>6, <2>7, <2>8 DEF Good, Active
<1> QED BY <1>1, <1>2

(* What a signal about negotiation id tells client r of it is so. *)
Hears(docs, r, id, remote) ==
    /\ id \in 1..Len(docs) /\ remote \in BOOLEAN
    /\ remote <=> docs[id].offerer # r
    /\ remote => docs[id].offer

(* A negotiation that the client has not heard of is put at the end. *)
LEMMA LearnOK ==
  ASSUME NEW docs, DocsOK(docs), NEW r \in Roles, NEW m, Good(docs, r, m),
         NEW id, NEW remote, Hears(docs, r, id, remote),
         ~\E i \in 1..Len(m.known) : m.known[i].id = id
  PROVE  LET k == [m EXCEPT !.known = Append(@, [id |-> id, remote |-> remote])]
         IN  /\ Good(docs, r, k) /\ ~Open(docs, k) /\ k.current = m.current
             /\ Len(k.known) = Len(m.known) + 1 /\ k.known[Len(k.known)].remote = remote
             /\ k.processed = m.processed /\ k.processed < Len(k.known)
<1> DEFINE d == [id |-> id, remote |-> remote]
           k == [m EXCEPT !.known = Append(@, d)]
           L == Len(m.known)
<1>1. m \in Client /\ ClientInv(docs, r, m)
  BY DEF Good
<1>2. d \in [id : Ids, remote : BOOLEAN] /\ d.id = id /\ d.remote = remote
  <2>1. id \in Ids /\ remote \in BOOLEAN
    BY NegotiationAssumption DEF NegotiationAssumption, Hears, DocsOK, Ids
  <2> QED BY <2>1
<1> HIDE DEF d
<1>3. /\ k.known = Append(m.known, d) /\ k.processed = m.processed /\ k.current = m.current
      /\ k.ended = m.ended /\ k.failed = m.failed /\ k.gathering = m.gathering
      /\ k.chain = m.chain /\ k.peer = m.peer /\ k.agreed = m.agreed
  BY <1>1 DEF Client
<1>4. m.known \in Seq([id : Ids, remote : BOOLEAN])
  BY <1>1, Fields
<1>5. /\ k.known \in Seq([id : Ids, remote : BOOLEAN]) /\ Len(k.known) = L + 1 /\ L \in Nat
      /\ \A i \in 1..L : k.known[i] = m.known[i]
      /\ k.known[L + 1] = d
  BY <1>2, <1>3, <1>4, Appended
<1>6. k \in Client
  <2>1. Append(m.known, d) \in Seq([id : Ids, remote : BOOLEAN])
    BY <1>3, <1>5
  <2> QED BY <1>1, <2>1 DEF Client
<1> HIDE DEF k
<1>7. m.processed \in 0..L
  BY <1>1 DEF ClientInv, TurnInv
<1>8. KnownInv(docs, r, k)
  <2>1. \A i \in 1..(L + 1) : i \in 1..L \/ i = L + 1
    BY <1>5
  <2>2. ASSUME NEW i \in 1..Len(k.known)
        PROVE  /\ k.known[i].id \in 1..Len(docs)
               /\ k.known[i].remote <=> docs[k.known[i].id].offerer # r
               /\ k.known[i].remote => docs[k.known[i].id].offer
    <3>1. CASE i \in 1..L
      BY <1>1, <1>5, <3>1 DEF ClientInv, KnownInv
    <3>2. CASE i = L + 1
      BY <1>2, <1>5, <3>2 DEF Hears
    <3> QED BY <1>5, <2>1, <3>1, <3>2
  <2>3. ASSUME NEW i \in 1..Len(k.known), NEW j \in 1..Len(k.known), k.known[i].id = k.known[j].id
        PROVE  i = j
    <3>1. CASE i \in 1..L /\ j \in 1..L
      BY <1>1, <1>5, <2>3, <3>1 DEF ClientInv, KnownInv
    <3>2. CASE ~(i \in 1..L /\ j \in 1..L)
      BY <1>2, <1>5, <2>1, <2>3, <3>2
    <3> QED BY <3>1, <3>2
  <2> QED BY <2>2, <2>3 DEF KnownInv
<1>9. TurnInv(k)
  BY <1>1, <1>3, <1>5, <1>7 DEF ClientInv, TurnInv
<1>10. ASSUME NEW c \in 1..Len(m.chain)
       PROVE  m.chain[c].at \in 1..m.processed /\ k.known[m.chain[c].at] = m.known[m.chain[c].at]
  <2>1. m.chain[c].at \in 1..m.processed
    BY <1>1 DEF ClientInv, ChainInv, Sided
  <2>2. \A i \in 1..m.processed : i \in 1..L
    BY <1>5, <1>7
  <2> HIDE DEF L
  <2>3. m.chain[c].at \in 1..L
    BY <2>1, <2>2
  <2> QED BY <1>5, <2>1, <2>3
<1>11. ChainInv(docs, k)
  <2>1. ASSUME NEW c \in 1..Len(m.chain) PROVE Sided(docs, k, m.chain[c])
    <3>1. k.known[m.chain[c].at] = m.known[m.chain[c].at]
      BY <1>10
    <3>2. Sided(docs, m, m.chain[c])
      BY <1>1 DEF ClientInv, ChainInv
    <3> QED BY <1>3, <3>1, <3>2 DEF Sided
  <2> QED BY <1>3, <2>1 DEF ChainInv
<1>12. AgreedInv(docs, r, k)
  BY <1>1, <1>3 DEF ClientInv, AgreedInv
<1>13. r = "caller" => OverruledInv(k)
  BY <1>1, <1>3 DEF ClientInv, OverruledInv
<1>14. ~Open(docs, k)
  BY <1>3, <1>5, <1>7 DEF Open
<1>15. PositionInv(docs, k)
  <2>1. \A c \in 1..Len(k.chain) : ~OffersLatest(k, c)
    <3>1. ASSUME NEW c \in 1..Len(k.chain) PROVE k.chain[c].at # L + 1
      <4>1. m.chain[c].at \in 1..m.processed
        BY <1>3, <1>10, <3>1
      <4> QED BY <1>3, <1>5, <1>7, <4>1
    <3> QED BY <1>5, <3>1 DEF OffersLatest
  <2> QED BY <1>14, <2>1 DEF PositionInv
<1>16. ClientInv(docs, r, k)
  BY <1>8, <1>9, <1>11, <1>12, <1>13, <1>15 DEF ClientInv
<1>17. k.processed < Len(k.known) /\ k.known[Len(k.known)].remote = remote
  BY <1>2, <1>3, <1>5, <1>7
<1> QED BY <1>3, <1>5, <1>6, <1>14, <1>16, <1>17 DEF Good, k, d

(* NegotiationManager.addNegotiation *)
LEMMA AddNegotiationOK ==
  ASSUME NEW docs, DocsOK(docs), NEW r \in Roles, NEW m, Good(docs, r, m),
         NEW id, NEW remote, Hears(docs, r, id, remote)
  PROVE  Good(docs, r, AddNegotiation(r, m, id, remote))
<1>1. CASE \E i \in 1..Len(m.known) : m.known[i].id = id
  BY <1>1 DEF AddNegotiation
<1>2. CASE ~\E i \in 1..Len(m.known) : m.known[i].id = id
  <2> DEFINE k == [m EXCEPT !.known = Append(@, [id |-> id, remote |-> remote])]
             e == End(r, k, k.current)
             N == Len(k.known)
  <2>1. /\ Good(docs, r, k) /\ ~Open(docs, k) /\ k.processed < N
        /\ k.known[N].remote = remote
    BY <1>2, LearnOK
  <2>2. AddNegotiation(r, m, id, remote) = ProcessNegotiations(r, AddToQueue(r, m, id, remote))
    BY <1>2 DEF AddNegotiation
  <2>3. AddToQueue(r, m, id, remote) =
          IF ~IsPolite(r, k, N) /\ k.current # 0 /\ IsPolite(r, k, k.current)
            THEN [e EXCEPT !.current = 0] ELSE k
    BY DEF AddToQueue
  <2> HIDE DEF k
  <2>4. ASSUME ~IsPolite(r, k, N), k.current # 0
        PROVE  Good(docs, r, [e EXCEPT !.current = 0])
    <3>1. k \in Client /\ N \in Nat /\ k.processed \in Nat /\ k.current \in {0, k.processed}
      BY <2>1, Fields, NegotiationAssumption DEF NegotiationAssumption, Good, ClientInv, TurnInv
    <3>2. MayEnd(docs, r, k, k.current)
      BY <2>1, <2>4, <3>1 DEF MayEnd
    <3>3. /\ Good(docs, r, e) /\ e.known = k.known /\ e.ended = k.ended \cup {k.current}
          /\ e.current = k.current \/ e.current \in {0} \cup InQueue(r, k)
      BY <2>1, <3>2, EndOK
    <3> HIDE DEF e
    <3>4. ASSUME r = "caller"
          PROVE  \/ e.current = 0 \/ e.current \in e.ended
                 \/ e.current \in 1..Len(e.known) /\ ~e.known[e.current].remote
      <4>1. ~k.known[N].remote
        BY <2>4, <3>4 DEF IsPolite
      <4>2. InQueue(r, k) \subseteq {N} /\ N > 0
        BY <2>1, <3>1, <3>4, <4>1, Queue
      <4> QED BY <3>1, <3>3, <4>1, <4>2
    <3> QED BY <3>3, <3>4, DropCurrent
  <2>5. Good(docs, r, AddToQueue(r, m, id, remote))
    BY <2>1, <2>3, <2>4
  <2> QED BY <2>2, <2>5, ProcessOK
<1> QED BY <1>1, <1>2

-----------------------------------------------------------------------------
(* The operations of a peer connection                                     *)

(* What holds of a client at every moment of a step *)
Core(docs, r, m) ==
    /\ m \in Client
    /\ KnownInv(docs, r, m) /\ TurnInv(m) /\ ChainInv(docs, m) /\ AgreedInv(docs, r, m)
    /\ r = "caller" => OverruledInv(m)

LEMMA CoreGood ==
  ASSUME NEW docs, NEW r, NEW m
  PROVE  Good(docs, r, m) <=> Core(docs, r, m) /\ (r = "caller" => PositionInv(docs, m))
BY DEF Good, Core, ClientInv

(* Operation op of negotiation i is begun. *)
Begins(m, op, i) == [m EXCEPT !.chain = Append(@, [op |-> op, at |-> i])]

LEMMA BeginCore ==
  ASSUME NEW docs, NEW r, NEW m, Core(docs, r, m), NEW op \in Operations, NEW i \in 1..m.processed,
         op \in Offers => ~m.known[i].remote,
         op \in Answers => /\ m.known[i].remote
                           /\ r = "caller" => i = m.current \/ i \in m.ended,
         op = "remoteAnswer" => docs[m.known[i].id].answer
  PROVE  LET b == Begins(m, op, i)
         IN  /\ Core(docs, r, b)
             /\ b.known = m.known /\ b.processed = m.processed /\ b.ended = m.ended
             /\ b.gathering = m.gathering /\ b.peer = m.peer
             /\ Len(m.chain) \in Nat /\ Len(b.chain) = Len(m.chain) + 1
             /\ \A k \in 1..Len(m.chain) : b.chain[k] = m.chain[k]
             /\ b.chain[Len(m.chain) + 1].op = op /\ b.chain[Len(m.chain) + 1].at = i
<1> DEFINE o == [op |-> op, at |-> i]
           b == [m EXCEPT !.chain = Append(@, o)]
<1>1. /\ m \in Client /\ KnownInv(docs, r, m) /\ TurnInv(m) /\ ChainInv(docs, m)
      /\ AgreedInv(docs, r, m) /\ (r = "caller" => OverruledInv(m))
  BY DEF Core
<1>2. o \in [op : Operations, at : Ids] /\ o.op = op /\ o.at = i
  <2>1. m.processed \in 0..MaxNegotiations
    BY <1>1, Fields
  <2>2. i \in Ids
    BY <2>1, NegotiationAssumption DEF NegotiationAssumption, Ids
  <2> QED BY <2>2
<1> HIDE DEF o
<1>3. /\ b.known = m.known /\ b.processed = m.processed /\ b.current = m.current
      /\ b.ended = m.ended /\ b.gathering = m.gathering /\ b.peer = m.peer
      /\ b.agreed = m.agreed /\ b.chain = Append(m.chain, o)
  BY <1>1 DEF Client
<1>4. m.chain \in Seq([op : Operations, at : Ids])
  BY <1>1, Fields
<1>5. /\ b.chain \in Seq([op : Operations, at : Ids]) /\ Len(m.chain) \in Nat
      /\ Len(b.chain) = Len(m.chain) + 1
      /\ \A k \in 1..Len(m.chain) : b.chain[k] = m.chain[k]
      /\ b.chain[Len(m.chain) + 1] = o
  BY <1>2, <1>3, <1>4, Appended
<1>6. b \in Client
  <2>1. Append(m.chain, o) \in Seq([op : Operations, at : Ids])
    BY <1>3, <1>5
  <2> QED BY <1>1, <2>1 DEF Client
<1>7. Begins(m, op, i) = b
  BY DEF Begins, o
<1> HIDE DEF b
<1>8. \A k \in 1..Len(b.chain) : \/ k \in 1..Len(m.chain) /\ b.chain[k] = m.chain[k]
                                 \/ b.chain[k] = o
  BY <1>5
<1>9. KnownInv(docs, r, b) /\ TurnInv(b) /\ AgreedInv(docs, r, b)
  BY <1>1, <1>3, KnownSame DEF TurnInv, AgreedInv
<1>10. ChainInv(docs, b)
  <2>1. \A q : Sided(docs, b, q) <=> Sided(docs, m, q)
    BY <1>3 DEF Sided
  <2>2. Sided(docs, m, o)
    BY <1>2 DEF Sided
  <2>3. \A k \in 1..Len(m.chain) : Sided(docs, m, m.chain[k])
    BY <1>1 DEF ChainInv
  <2> QED BY <1>8, <2>1, <2>2, <2>3 DEF ChainInv
<1>11. ASSUME r = "caller" PROVE OverruledInv(b)
  <2>1. \A k \in 1..Len(m.chain) : m.chain[k].op \in Answers
           => m.chain[k].at = m.current \/ m.chain[k].at \in m.ended
    BY <1>1, <1>11 DEF OverruledInv
  <2> QED BY <1>2, <1>3, <1>8, <1>11, <2>1 DEF OverruledInv
<1>12. Core(docs, r, b)
  BY <1>6, <1>9, <1>10, <1>11 DEF Core
<1> QED BY <1>2, <1>3, <1>5, <1>7, <1>12

(* An operation that neither offers nor settles leaves the position as it  *)
(* is, and so does one that settles what is no longer open.                *)
LEMMA BeginOK ==
  ASSUME NEW docs, NEW r, NEW m, Good(docs, r, m), NEW op \in Operations, NEW i \in 1..m.processed,
         op \notin Offers,
         op \in Answers => /\ m.known[i].remote
                           /\ r = "caller" => i = m.current \/ i \in m.ended,
         op = "remoteAnswer" => docs[m.known[i].id].answer,
         r = "caller" /\ op \in Settling => ~Open(docs, m)
  PROVE  Good(docs, r, Begins(m, op, i))
<1> DEFINE b == Begins(m, op, i)
<1>1. Core(docs, r, m) /\ (r = "caller" => PositionInv(docs, m))
  BY CoreGood
<1>2. /\ Core(docs, r, b)
      /\ b.known = m.known /\ b.processed = m.processed /\ b.ended = m.ended
      /\ b.gathering = m.gathering /\ b.peer = m.peer
      /\ Len(m.chain) \in Nat /\ Len(b.chain) = Len(m.chain) + 1
      /\ \A k \in 1..Len(m.chain) : b.chain[k] = m.chain[k]
      /\ b.chain[Len(m.chain) + 1].op = op
  BY <1>1, BeginCore
<1> HIDE DEF b
<1>3. ASSUME r = "caller" PROVE PositionInv(docs, b)
  <2>1. \A k \in 1..Len(b.chain) : k \in 1..Len(m.chain) \/ (k = Len(m.chain) + 1 /\ b.chain[k].op = op)
    BY <1>2
  <2>2. 1..Len(m.chain) \subseteq 1..Len(b.chain)
    BY <1>2
  <2>3. \A k \in 1..Len(b.chain) : OffersLatest(b, k) => k \in 1..Len(m.chain) /\ OffersLatest(m, k)
    BY <1>2, <2>1 DEF OffersLatest
  <2>4. \A k \in 1..Len(m.chain) : OffersLatest(m, k) => OffersLatest(b, k)
    BY <1>2 DEF OffersLatest
  <2>5. ASSUME Open(docs, b) PROVE WillOffer(b) \/ (b.peer # "stable" /\ Unsettled(b))
    <3>1. Open(docs, m) /\ op \notin Settling
      BY <1>2, <1>3, <2>5 DEF Open
    <3>2. \A l \in 1..Len(b.chain) : b.chain[l].op \in Settling
             => l \in 1..Len(m.chain) /\ m.chain[l].op \in Settling
      BY <1>2, <2>1, <3>1
    <3>3. WillOffer(m) => WillOffer(b)
      BY <1>2, <2>2, <2>4, <3>2 DEF WillOffer
    <3>4. Unsettled(m) => Unsettled(b)
      BY <3>2 DEF Unsettled
    <3> QED BY <1>1, <1>2, <1>3, <3>1, <3>3, <3>4 DEF PositionInv
  <2> QED BY <1>1, <1>2, <1>3, <2>3, <2>5 DEF PositionInv
<1> QED BY <1>2, <1>3, CoreGood DEF b

(* setRemoteDescription of an answer *)
LEMMA SetRemoteAnswerOK ==
  ASSUME NEW docs, DocsOK(docs), NEW r \in Roles, NEW m, Good(docs, r, m), NEW id, docs[id].answer
  PROVE  Good(docs, r, SetRemoteAnswer(m, id))
<1>1. CASE m.current # 0 /\ m.known[m.current].id = id /\ ~m.known[m.current].remote
  <2>1. SetRemoteAnswer(m, id) = Begins(m, "remoteAnswer", m.current)
    BY <1>1 DEF SetRemoteAnswer, Begins
  <2>2. m \in Client /\ m.current \in {0, m.processed} /\ m.processed \in 0..MaxNegotiations
    BY Fields DEF Good, ClientInv, TurnInv
  <2>3. m.current \in 1..m.processed /\ m.current = m.processed
    BY <1>1, <2>2, NegotiationAssumption DEF NegotiationAssumption
  <2>4. ~Open(docs, m)
    BY <1>1, <2>3 DEF Open
  <2>5. "remoteAnswer" \in Operations /\ "remoteAnswer" \notin Offers /\ "remoteAnswer" \notin Answers
    BY DEF Operations, Offers, Answers
  <2>6. docs[m.known[m.current].id].answer
    BY <1>1
  <2> QED BY <2>1, <2>3, <2>4, <2>5, <2>6, BeginOK
<1>2. CASE ~(m.current # 0 /\ m.known[m.current].id = id /\ ~m.known[m.current].remote)
  BY <1>2 DEF SetRemoteAnswer
<1> QED BY <1>1, <1>2

(* The first operation of the chain is done: what is left of the position  *)
(* of a caller.                                                            *)
Popped(docs, r, m, n) ==
    LET L == Len(m.known)
        o == m.chain[1]
    IN  /\ Core(docs, r, n)
        /\ n.known = m.known /\ n.peer = m.peer
        /\ o.op \in Operations /\ Sided(docs, n, o)
        /\ r = "caller" =>
             /\ o.op \in Answers => o.at = n.current \/ o.at \in n.ended
             /\ \A k, l \in 1..Len(n.chain) : OffersLatest(n, k) /\ OffersLatest(n, l) => k = l
             /\ L \in n.gathering => \A k \in 1..Len(n.chain) : ~OffersLatest(n, k)
             /\ o.op \in Offers /\ o.at = L
                  => /\ \A k \in 1..Len(n.chain) : ~OffersLatest(n, k)
                     /\ L \notin n.gathering
             /\ Open(docs, n) =>
                  \/ WillOffer(n)
                  \/ o.op \notin Settling /\ n.peer # "stable" /\ Unsettled(n)
                  \/ o.op \in Offers /\ o.at = L /\ L \notin n.ended /\ Unsettled(n)

LEMMA PopOK ==
  ASSUME NEW docs, NEW r \in Roles, NEW m, Good(docs, r, m), m.chain # << >>
  PROVE  LET n == [m EXCEPT !.chain = Tail(@)]
         IN  Popped(docs, r, m, n) /\ Head(m.chain) = m.chain[1]
<1> DEFINE n == [m EXCEPT !.chain = Tail(@)]
           L == Len(m.known)
<1>1. m \in Client /\ ClientInv(docs, r, m)
  BY DEF Good
<1>2. /\ n.known = m.known /\ n.processed = m.processed /\ n.current = m.current
      /\ n.ended = m.ended /\ n.gathering = m.gathering /\ n.peer = m.peer
      /\ n.agreed = m.agreed /\ n.chain = Tail(m.chain)
  BY <1>1 DEF Client
<1>3. m.chain \in Seq([op : Operations, at : Ids])
  BY <1>1, Fields
<1>4. /\ Len(m.chain) \in Nat \ {0} /\ Head(m.chain) = m.chain[1]
      /\ n.chain \in Seq([op : Operations, at : Ids]) /\ Len(n.chain) = Len(m.chain) - 1
      /\ \A k \in 1..(Len(m.chain) - 1) : n.chain[k] = m.chain[k + 1]
  BY <1>2, <1>3, Tailed
<1>5. n \in Client
  <2>1. Tail(m.chain) \in Seq([op : Operations, at : Ids])
    BY <1>2, <1>4
  <2> QED BY <1>1, <2>1 DEF Client
<1> HIDE DEF n
<1>6. 1 \in 1..Len(m.chain)
  BY <1>4
<1>7. ASSUME NEW k \in 1..Len(n.chain)
      PROVE  k + 1 \in 1..Len(m.chain) /\ k + 1 # 1 /\ n.chain[k] = m.chain[k + 1]
  BY <1>4
<1>8. KnownInv(docs, r, n) /\ TurnInv(n) /\ AgreedInv(docs, r, n)
  BY <1>1, <1>2, KnownSame DEF ClientInv, TurnInv, AgreedInv
<1>9. ChainInv(docs, n)
  <2>1. \A q : Sided(docs, n, q) <=> Sided(docs, m, q)
    BY <1>2 DEF Sided
  <2>2. \A k \in 1..Len(m.chain) : Sided(docs, m, m.chain[k])
    BY <1>1 DEF ClientInv, ChainInv
  <2> QED BY <1>7, <2>1, <2>2 DEF ChainInv
<1>10. ASSUME r = "caller" PROVE OverruledInv(n)
  <2>1. \A k \in 1..Len(m.chain) : m.chain[k].op \in Answers
           => m.chain[k].at = m.current \/ m.chain[k].at \in m.ended
    BY <1>1, <1>10 DEF ClientInv, OverruledInv
  <2> QED BY <1>2, <1>7, <2>1 DEF OverruledInv
<1>11. Core(docs, r, n)
  BY <1>5, <1>8, <1>9, <1>10 DEF Core
<1>12. m.chain[1].op \in Operations /\ Sided(docs, n, m.chain[1])
  <2>1. m.chain[1].op \in Operations
    BY <1>1, <1>6, Fields
  <2>2. Sided(docs, m, m.chain[1])
    BY <1>1, <1>6 DEF ClientInv, ChainInv
  <2> QED BY <1>2, <2>1, <2>2 DEF Sided
<1>13. ASSUME r = "caller"
       PROVE  /\ m.chain[1].op \in Answers => m.chain[1].at = n.current \/ m.chain[1].at \in n.ended
              /\ \A k, l \in 1..Len(n.chain) : OffersLatest(n, k) /\ OffersLatest(n, l) => k = l
              /\ L \in n.gathering => \A k \in 1..Len(n.chain) : ~OffersLatest(n, k)
              /\ m.chain[1].op \in Offers /\ m.chain[1].at = L
                   => /\ \A k \in 1..Len(n.chain) : ~OffersLatest(n, k)
                      /\ L \notin n.gathering
              /\ Open(docs, n) =>
                   \/ WillOffer(n)
                   \/ m.chain[1].op \notin Settling /\ n.peer # "stable" /\ Unsettled(n)
                   \/ m.chain[1].op \in Offers /\ m.chain[1].at = L /\ L \notin n.ended /\ Unsettled(n)
  <2>1. OverruledInv(m) /\ PositionInv(docs, m)
    BY <1>1, <1>13 DEF ClientInv
  <2>2. m.chain[1].op \in Answers => m.chain[1].at = n.current \/ m.chain[1].at \in n.ended
    BY <1>2, <1>6, <2>1 DEF OverruledInv
  <2>3. \A k \in 1..Len(n.chain) : OffersLatest(n, k) <=> OffersLatest(m, k + 1)
    BY <1>2, <1>7 DEF OffersLatest
  <2>4. \A k, l \in 1..Len(n.chain) : OffersLatest(n, k) /\ OffersLatest(n, l) => k = l
    <3>1. \A k, l \in 1..Len(n.chain) : k + 1 = l + 1 => k = l
      BY <1>4
    <3> QED BY <1>7, <2>1, <2>3, <3>1 DEF PositionInv
  <2>5. L \in n.gathering => \A k \in 1..Len(n.chain) : ~OffersLatest(n, k)
    BY <1>2, <1>7, <2>1, <2>3 DEF PositionInv
  <2>6. ASSUME OffersLatest(m, 1)
        PROVE  (\A k \in 1..Len(n.chain) : ~OffersLatest(n, k)) /\ L \notin n.gathering
    BY <1>2, <1>6, <1>7, <2>1, <2>3, <2>6 DEF PositionInv
  <2>7. OffersLatest(m, 1) <=> m.chain[1].op \in Offers /\ m.chain[1].at = L
    BY DEF OffersLatest
  <2>8. ASSUME Open(docs, n)
        PROVE  \/ WillOffer(n)
               \/ m.chain[1].op \notin Settling /\ n.peer # "stable" /\ Unsettled(n)
               \/ OffersLatest(m, 1) /\ L \notin n.ended /\ Unsettled(n)
    <3>1. Open(docs, m)
      BY <1>2, <2>8 DEF Open
    <3>2. CASE m.peer # "stable" /\ Unsettled(m)
      BY <1>2, <1>6, <1>7, <3>2 DEF Unsettled
    <3>3. CASE WillOffer(m)
      <4>1. PICK k \in 1..Len(m.chain) :
              /\ OffersLatest(m, k)
              /\ \A l \in 1..Len(m.chain) : m.chain[l].op \in Settling => l < k
        BY <3>3 DEF WillOffer
      <4>2. L \notin n.ended
        BY <1>2, <3>3 DEF WillOffer
      <4>3. CASE k = 1
        <5>1. \A l \in 1..Len(n.chain) : n.chain[l].op \notin Settling
          <6>1. \A l \in 1..Len(n.chain) : ~(l + 1 < 1)
            BY <1>4
          <6> QED BY <1>7, <4>1, <4>3, <6>1
        <5> QED BY <4>1, <4>2, <4>3, <5>1 DEF Unsettled
      <4>4. CASE k # 1
        <5>1. k - 1 \in 1..Len(n.chain) /\ (k - 1) + 1 = k
          BY <1>4, <4>4
        <5>2. OffersLatest(n, k - 1)
          BY <2>3, <4>1, <5>1
        <5>3. \A l \in 1..Len(n.chain) : n.chain[l].op \in Settling => l < k - 1
          <6>1. ASSUME NEW l \in 1..Len(n.chain), n.chain[l].op \in Settling PROVE l + 1 < k
            BY <1>7, <4>1, <6>1
          <6> QED BY <1>4, <6>1
        <5> QED BY <1>2, <4>2, <5>1, <5>2, <5>3 DEF WillOffer
      <4> QED BY <4>3, <4>4
    <3> QED BY <2>1, <3>1, <3>2, <3>3 DEF PositionInv
  <2> QED BY <2>2, <2>4, <2>5, <2>6, <2>7, <2>8
<1> QED BY <1>2, <1>4, <1>11, <1>12, <1>13 DEF Popped, n

LEMMA PoppedFacts ==
  ASSUME NEW docs, NEW r, NEW m, NEW n, Popped(docs, r, m, n)
  PROVE  /\ n \in Client /\ Core(docs, r, n) /\ n.known = m.known /\ m.chain[1].at \in 1..n.processed
         /\ m.chain[1].op \in Offers => ~n.known[m.chain[1].at].remote
         /\ m.chain[1].op \in Answers => n.known[m.chain[1].at].remote
         /\ m.chain[1].op = "remoteAnswer" => docs[n.known[m.chain[1].at].id].answer
BY DEF Popped, Core, Sided

LEMMA PoppedRemote ==
  ASSUME NEW docs, NEW r, NEW m, NEW n, Popped(docs, r, m, n), m.chain[1].op \in Answers
  PROVE  /\ m.chain[1].at \in 1..n.processed /\ n.known[m.chain[1].at].remote
         /\ r = "caller" => m.chain[1].at = n.current \/ m.chain[1].at \in n.ended
<1>1. m.chain[1].at \in 1..n.processed /\ n.known[m.chain[1].at].remote
  BY PoppedFacts
<1> QED BY <1>1 DEF Popped

SameCourse(e, n) ==
    /\ e.known = n.known /\ e.processed = n.processed /\ e.current = n.current
    /\ e.ended = n.ended /\ e.gathering = n.gathering /\ e.chain = n.chain

LEMMA CoreSame ==
  ASSUME NEW docs, NEW r, NEW n, Core(docs, r, n), NEW e \in Client, SameCourse(e, n),
         e.agreed = n.agreed
  PROVE  Core(docs, r, e)
<1>1. KnownInv(docs, r, e) /\ ChainInv(docs, e)
  BY KnownSame, ChainSame DEF Core, SameCourse
<1>2. TurnInv(e) /\ AgreedInv(docs, r, e)
  BY DEF Core, SameCourse, TurnInv, AgreedInv
<1>3. r = "caller" => OverruledInv(e)
  BY DEF Core, SameCourse, OverruledInv
<1> QED BY <1>1, <1>2, <1>3 DEF Core

(* The operation has left the connection in the middle of an exchange, *)
LEMMA PoppedBusy ==
  ASSUME NEW docs, NEW r \in Roles, NEW m, NEW n, Popped(docs, r, m, n),
         NEW e \in Client, SameCourse(e, n), e.agreed = n.agreed, e.peer # "stable"
  PROVE  Good(docs, r, e)
<1>1. Core(docs, r, e)
  BY CoreSame DEF Popped
<1>2. ASSUME r = "caller" PROVE PositionInv(docs, e)
  <2>1. /\ \A k \in 1..Len(n.chain) : OffersLatest(e, k) <=> OffersLatest(n, k)
        /\ Open(docs, e) <=> Open(docs, n)
        /\ Unsettled(e) <=> Unsettled(n)
    BY DEF SameCourse, OffersLatest, Open, Unsettled
  <2>2. WillOffer(n) => WillOffer(e)
    BY <2>1 DEF SameCourse, WillOffer
  <2> QED BY <1>2, <2>1, <2>2 DEF Popped, PositionInv, SameCourse
<1> QED BY <1>1, <1>2, CoreGood

(* or it has changed nothing of the position: *)
LEMMA PoppedDone ==
  ASSUME NEW docs, NEW r \in Roles, NEW m, NEW n, Popped(docs, r, m, n),
         m.chain[1].op \notin Offers
  PROVE  Good(docs, r, n)
<1>1. r = "caller" => PositionInv(docs, n)
  BY DEF Popped, PositionInv
<1> QED BY <1>1, CoreGood DEF Popped

(* The candidates of a negotiation are gathered once it has made its offer. *)
LEMMA GatherOK ==
  ASSUME NEW docs, NEW r \in Roles, NEW m, Good(docs, r, m), NEW i \in 1..m.processed,
         r = "caller" /\ Active(m, i) /\ i = Len(m.known)
           => \A k \in 1..Len(m.chain) : ~OffersLatest(m, k)
  PROVE  Good(docs, r, Gather(m, i))
<1>1. CASE ~Active(m, i)
  BY <1>1 DEF Gather
<1>2. CASE Active(m, i)
  <2> DEFINE e == [m EXCEPT !.gathering = @ \cup {i}]
  <2>1. m \in Client /\ ClientInv(docs, r, m)
    BY DEF Good
  <2>2. /\ e.known = m.known /\ e.processed = m.processed /\ e.current = m.current
        /\ e.ended = m.ended /\ e.gathering = m.gathering \cup {i}
        /\ e.chain = m.chain /\ e.peer = m.peer /\ e.agreed = m.agreed
    BY <2>1 DEF Client
  <2>3. e \in Client
    <3>1. m.processed \in 0..MaxNegotiations /\ m.gathering \in SUBSET Ids
      BY <2>1, Fields
    <3>2. m.gathering \cup {i} \in SUBSET Ids
      BY <3>1, NegotiationAssumption DEF NegotiationAssumption, Ids
    <3> QED BY <2>1, <3>2 DEF Client
  <2>4. Gather(m, i) = e
    BY <1>2 DEF Gather
  <2> HIDE DEF e
  <2>5. KnownInv(docs, r, e) /\ TurnInv(e) /\ ChainInv(docs, e) /\ AgreedInv(docs, r, e)
    BY <2>1, <2>2, KnownSame, ChainSame DEF ClientInv, TurnInv, AgreedInv
  <2>6. r = "caller" => OverruledInv(e)
    BY <2>1, <2>2 DEF ClientInv, OverruledInv
  <2>7. ASSUME r = "caller" PROVE PositionInv(docs, e)
    <3>1. /\ \A k \in 1..Len(m.chain) : OffersLatest(e, k) <=> OffersLatest(m, k)
          /\ Open(docs, e) <=> Open(docs, m)
          /\ Unsettled(e) <=> Unsettled(m)
      BY <2>2 DEF OffersLatest, Open, Unsettled
    <3>2. WillOffer(m) => WillOffer(e)
      BY <2>2, <3>1 DEF WillOffer
    <3> QED BY <1>2, <2>1, <2>2, <2>7, <3>1, <3>2 DEF ClientInv, PositionInv
  <2> QED BY <2>3, <2>4, <2>5, <2>6, <2>7 DEF Good, ClientInv
<1> QED BY <1>1, <1>2

(* The position of a caller does not depend on negotiations of the other   *)
(* side.                                                                   *)
LEMMA RemoteMayEnd ==
  ASSUME NEW docs, NEW r \in Roles, NEW m, NEW i \in 1..m.processed, m.known[i].remote
  PROVE  MayEnd(docs, r, m, i)
BY DEF MayEnd, Open

LEMMA RemoteNotOffered ==
  ASSUME NEW docs, NEW r \in Roles, NEW m, Good(docs, r, m), NEW i, m.known[i].remote,
         i = Len(m.known)
  PROVE  \A k \in 1..Len(m.chain) : ~OffersLatest(m, k)
BY DEF Good, ClientInv, ChainInv, Sided, OffersLatest

LEMMA CreateOfferOK ==
  ASSUME NEW docs, DocsOK(docs), NEW r \in Roles, NEW m, NEW n, Popped(docs, r, m, n),
         m.chain[1].op = "createOffer"
  PROVE  Good(docs, r, CreateOffer(r, n, m.chain[1].at))
<1> DEFINE i == m.chain[1].at
           p == RequestDirection(n)
           d == Describe(p, i)
           L == Len(m.known)
<1>1. n \in Client /\ Core(docs, r, n) /\ n.known = m.known
  BY PoppedFacts
<1>2. m.chain[1].op \in Offers /\ m.chain[1].op \notin Settling
  BY DEF Offers, Settling
<1>3. i \in 1..n.processed /\ ~n.known[i].remote
  BY <1>2, PoppedFacts
<1>4. p \in Client /\ SameCourse(p, n) /\ p.agreed = n.agreed /\ p.peer = n.peer
      /\ p.direction = n.held
  BY <1>1 DEF Client, RequestDirection, SameCourse
<1>5. d \in Client /\ SameCourse(d, n) /\ d.agreed = n.agreed /\ d.peer = n.peer
  <2>1. [p.described EXCEPT ![i] = p.direction] \in [Ids -> BOOLEAN]
    BY <1>4 DEF Client
  <2>2. d = [p EXCEPT !.described = [p.described EXCEPT ![i] = p.direction]]
    BY DEF Describe
  <2> HIDE DEF d, p
  <2>3. d \in Client
    BY <1>4, <2>1, <2>2 DEF Client
  <2> QED BY <1>4, <2>2, <2>3 DEF Client, SameCourse
<1> HIDE DEF p, d
<1>6. CreateOffer(r, n, i) = IF n.peer = "have-remote-offer" THEN p ELSE Then(d, i, "localOffer")
  BY DEF CreateOffer, p, d
<1>7. CASE n.peer = "have-remote-offer"
  BY <1>4, <1>6, <1>7, PoppedBusy
<1>8. CASE n.peer # "have-remote-offer" /\ ~Active(d, i)
  <2>1. i \in n.ended /\ Then(d, i, "localOffer") = d
    BY <1>5, <1>8 DEF Active, SameCourse, Then
  <2>2. Core(docs, r, d)
    BY <1>1, <1>5, CoreSame
  <2>3. ASSUME r = "caller" PROVE PositionInv(docs, d)
    <3>1. /\ \A k \in 1..Len(n.chain) : OffersLatest(d, k) <=> OffersLatest(n, k)
          /\ Open(docs, d) <=> Open(docs, n)
          /\ Unsettled(d) <=> Unsettled(n)
      BY <1>5 DEF SameCourse, OffersLatest, Open, Unsettled
    <3>2. WillOffer(n) => WillOffer(d)
      BY <1>5, <3>1 DEF SameCourse, WillOffer
    <3>3. Open(docs, n) => WillOffer(n) \/ (n.peer # "stable" /\ Unsettled(n))
      BY <2>1, <2>3 DEF Popped
    <3> QED BY <1>1, <1>5, <2>3, <3>1, <3>2, <3>3 DEF Popped, PositionInv, SameCourse
  <2> QED BY <1>6, <1>8, <2>1, <2>2, <2>3, CoreGood
<1>9. CASE n.peer # "have-remote-offer" /\ Active(d, i)
  <2> DEFINE b == Begins(d, "localOffer", i)
  <2>1. i \notin n.ended /\ Then(d, i, "localOffer") = b
    BY <1>5, <1>9 DEF Active, SameCourse, Then, Begins
  <2>2. Core(docs, r, d)
    BY <1>1, <1>5, CoreSame
  <2>3. i \in 1..d.processed /\ ~d.known[i].remote
    BY <1>3, <1>5 DEF SameCourse
  <2>4. "localOffer" \in Operations /\ "localOffer" \notin Answers \cup Settling /\ "localOffer" # "remoteAnswer"
        /\ "localOffer" \in Offers
    BY DEF Operations, Answers, Settling, Offers
  <2>5. /\ Core(docs, r, b)
        /\ b.known = d.known /\ b.processed = d.processed /\ b.ended = d.ended
        /\ b.gathering = d.gathering /\ b.peer = d.peer
        /\ Len(d.chain) \in Nat /\ Len(b.chain) = Len(d.chain) + 1
        /\ \A k \in 1..Len(d.chain) : b.chain[k] = d.chain[k]
        /\ b.chain[Len(d.chain) + 1].op = "localOffer" /\ b.chain[Len(d.chain) + 1].at = i
    BY <2>2, <2>3, <2>4, BeginCore
  <2> HIDE DEF b
  <2>6. /\ b.known = m.known /\ b.processed = n.processed /\ b.ended = n.ended
        /\ b.gathering = n.gathering /\ b.peer = n.peer
        /\ Len(n.chain) \in Nat /\ Len(b.chain) = Len(n.chain) + 1
        /\ \A k \in 1..Len(n.chain) : b.chain[k] = n.chain[k]
        /\ b.chain[Len(n.chain) + 1].op = "localOffer" /\ b.chain[Len(n.chain) + 1].at = i
    BY <1>1, <1>5, <2>5 DEF SameCourse
  <2>7. ASSUME r = "caller" PROVE PositionInv(docs, b)
    <3> DEFINE N == Len(n.chain)
    <3>1. /\ 1..N \subseteq 1..Len(b.chain) /\ N + 1 \in 1..Len(b.chain)
          /\ \A k \in 1..Len(b.chain) : k \in 1..N \/ k = N + 1
          /\ \A k \in 1..N : k < N + 1
      BY <2>6
    <3>2. \A k \in 1..N : OffersLatest(b, k) <=> OffersLatest(n, k)
      BY <1>1, <2>6 DEF OffersLatest
    <3>3. OffersLatest(b, N + 1) <=> i = L
      BY <2>4, <2>6 DEF OffersLatest
    <3>4. i = L => (\A k \in 1..N : ~OffersLatest(n, k)) /\ L \notin n.gathering
      BY <1>2, <2>7 DEF Popped
    <3>5. \A k, l \in 1..Len(b.chain) : OffersLatest(b, k) /\ OffersLatest(b, l) => k = l
      <4>1. \A k, l \in 1..N : OffersLatest(n, k) /\ OffersLatest(n, l) => k = l
        BY <2>7 DEF Popped
      <4> QED BY <3>1, <3>2, <3>3, <3>4, <4>1
    <3>6. Len(b.known) \in b.gathering => \A k \in 1..Len(b.chain) : ~OffersLatest(b, k)
      <4>1. L \in n.gathering => \A k \in 1..N : ~OffersLatest(n, k)
        BY <2>7 DEF Popped
      <4> QED BY <2>6, <3>1, <3>2, <3>3, <3>4, <4>1
    <3>7. \A l \in 1..Len(b.chain) : b.chain[l].op \in Settling => l \in 1..N /\ n.chain[l].op \in Settling
      BY <2>4, <2>6, <3>1
    <3>8. ASSUME Open(docs, b) PROVE WillOffer(b) \/ (b.peer # "stable" /\ Unsettled(b))
      <4>1. Open(docs, n)
        BY <1>1, <2>6, <3>8 DEF Open
      <4>2. CASE WillOffer(n)
        <5>1. PICK k \in 1..N : /\ OffersLatest(n, k)
                                /\ \A l \in 1..N : n.chain[l].op \in Settling => l < k
          BY <4>2 DEF WillOffer
        <5>2. L \notin n.ended
          BY <1>1, <4>2 DEF WillOffer
        <5> QED BY <2>6, <3>1, <3>2, <3>7, <5>1, <5>2 DEF WillOffer
      <4>3. CASE n.peer # "stable" /\ Unsettled(n)
        BY <2>6, <3>7, <4>3 DEF Unsettled
      <4>4. CASE i = L /\ L \notin n.ended /\ Unsettled(n)
        <5>1. \A l \in 1..Len(b.chain) : b.chain[l].op \notin Settling
          BY <3>7, <4>4 DEF Unsettled
        <5> QED BY <2>6, <3>1, <3>3, <4>4, <5>1 DEF WillOffer
      <4> QED BY <2>7, <4>1, <4>2, <4>3, <4>4 DEF Popped
    <3> QED BY <3>5, <3>6, <3>8 DEF PositionInv
  <2> QED BY <1>6, <1>9, <2>1, <2>5, <2>7, CoreGood
<1> QED BY <1>7, <1>8, <1>9

LEMMA LocalOfferOK ==
  ASSUME NEW docs, DocsOK(docs), NEW r \in Roles, NEW m, NEW n, Popped(docs, r, m, n),
         m.chain[1].op = "localOffer"
  PROVE  Good(docs, r, LocalOffer(r, n, m.chain[1].at))
<1> DEFINE i == m.chain[1].at
           L == Len(m.known)
<1>1. n \in Client /\ n.known = m.known /\ i \in 1..n.processed
  BY PoppedFacts
<1>2. ASSUME r = "caller", i = L PROVE \A k \in 1..Len(n.chain) : ~OffersLatest(n, k)
  BY <1>2 DEF Popped, Offers
<1>3. CASE n.peer = "have-remote-offer"
  <2> DEFINE f == Fail(r, n, i)
  <2>1. Good(docs, r, n)
    BY <1>1, <1>3, PoppedBusy DEF SameCourse
  <2>2. MayEnd(docs, r, n, i)
    <3>1. ASSUME r = "caller", Open(docs, n), i = L PROVE Unsettled(n)
      <4>1. ~WillOffer(n)
        BY <1>2, <3>1 DEF WillOffer
      <4> QED BY <3>1, <4>1 DEF Popped
    <3> QED BY <1>1, <1>3, <3>1 DEF MayEnd
  <2>3. /\ Good(docs, r, f) /\ f.known = n.known /\ i \in 1..f.processed
        /\ Active(f, i) => f.chain = n.chain
    BY <2>1, <2>2, FailOK
  <2> HIDE DEF f
  <2>4. ASSUME r = "caller", Active(f, i), i = Len(f.known)
        PROVE  \A k \in 1..Len(f.chain) : ~OffersLatest(f, k)
    BY <1>1, <1>2, <2>3, <2>4 DEF OffersLatest
  <2>5. Good(docs, r, Gather(f, i))
    BY <2>3, <2>4, GatherOK
  <2> QED BY <1>3, <2>5 DEF LocalOffer, f
<1>4. CASE n.peer # "have-remote-offer"
  <2> DEFINE e == [n EXCEPT !.peer = "have-local-offer"]
  <2>1. e \in Client /\ SameCourse(e, n) /\ e.agreed = n.agreed /\ e.peer = "have-local-offer"
    BY <1>1 DEF Client, SameCourse
  <2> HIDE DEF e
  <2>2. Good(docs, r, e)
    BY <2>1, PoppedBusy
  <2>3. ASSUME r = "caller", i = Len(e.known)
        PROVE  \A k \in 1..Len(e.chain) : ~OffersLatest(e, k)
    BY <1>1, <1>2, <2>1, <2>3 DEF OffersLatest, SameCourse
  <2>4. Good(docs, r, Gather(e, i))
    BY <1>1, <2>1, <2>2, <2>3, GatherOK DEF SameCourse
  <2> QED BY <1>4, <2>4 DEF LocalOffer, e
<1> QED BY <1>3, <1>4

LEMMA RemoteOfferOK ==
  ASSUME NEW docs, DocsOK(docs), NEW r \in Roles, NEW m, NEW n, Popped(docs, r, m, n),
         m.chain[1].op = "remoteOffer"
  PROVE  Good(docs, r, RemoteOffer(r, n, m.chain[1].at))
<1> DEFINE i == m.chain[1].at
           e == [RequestDirection(n) EXCEPT !.peer = "have-remote-offer"]
<1>1. n \in Client
  BY PoppedFacts
<1>2. /\ i \in 1..n.processed /\ n.known[i].remote
      /\ r = "caller" => i = n.current \/ i \in n.ended
  BY PoppedRemote DEF Answers
<1>3. e \in Client /\ SameCourse(e, n) /\ e.agreed = n.agreed /\ e.peer = "have-remote-offer"
  BY <1>1 DEF Client, RequestDirection, SameCourse
<1>4. RemoteOffer(r, n, i) = Then(e, i, "createAnswer")
  BY DEF RemoteOffer
<1> HIDE DEF e
<1>5. Good(docs, r, e)
  BY <1>3, PoppedBusy
<1>6. Good(docs, r, Begins(e, "createAnswer", i))
  <2>1. "createAnswer" \in Operations /\ "createAnswer" \notin Offers \cup Settling
        /\ "createAnswer" # "remoteAnswer"
    BY DEF Operations, Offers, Settling
  <2>2. i \in 1..e.processed /\ e.known[i].remote /\ (r = "caller" => i = e.current \/ i \in e.ended)
    BY <1>2, <1>3 DEF SameCourse
  <2> QED BY <1>5, <2>1, <2>2, BeginOK
<1> QED BY <1>4, <1>5, <1>6 DEF Then, Begins

LEMMA CreateAnswerOK ==
  ASSUME NEW docs, DocsOK(docs), NEW r \in Roles, NEW m, NEW n, Popped(docs, r, m, n),
         m.chain[1].op = "createAnswer"
  PROVE  Good(docs, r, CreateAnswer(r, n, m.chain[1].at))
<1> DEFINE i == m.chain[1].at
           d == Describe(n, i)
<1>1. n \in Client
  BY PoppedFacts
<1>2. /\ i \in 1..n.processed /\ n.known[i].remote
      /\ r = "caller" => i = n.current \/ i \in n.ended
  BY PoppedRemote DEF Answers
<1>3. Good(docs, r, n)
  BY PoppedDone DEF Offers
<1>4. CASE n.peer # "have-remote-offer"
  <2>1. MayEnd(docs, r, n, i)
    BY <1>2, RemoteMayEnd
  <2> QED BY <1>3, <1>4, <2>1, FailOK DEF CreateAnswer
<1>5. CASE n.peer = "have-remote-offer"
  <2>1. d \in Client /\ SameCourse(d, n) /\ d.agreed = n.agreed /\ d.peer = n.peer
    <3>1. [n.described EXCEPT ![i] = n.direction] \in [Ids -> BOOLEAN]
      BY <1>1 DEF Client
    <3>2. d = [n EXCEPT !.described = [n.described EXCEPT ![i] = n.direction]]
      BY DEF Describe
    <3> HIDE DEF d
    <3>3. d \in Client
      BY <1>1, <3>1, <3>2 DEF Client
    <3> QED BY <1>1, <3>2, <3>3 DEF Client, SameCourse
  <2> HIDE DEF d
  <2>2. Good(docs, r, d)
    BY <1>5, <2>1, PoppedBusy
  <2>3. ASSUME Active(d, i) PROVE Good(docs, r, Begins(d, "localAnswer", i))
    <3>1. "localAnswer" \in Operations /\ "localAnswer" \notin Offers
          /\ "localAnswer" # "remoteAnswer"
      BY DEF Operations, Offers
    <3>2. i \in 1..d.processed /\ d.known[i].remote /\ (r = "caller" => i = d.current \/ i \in d.ended)
      BY <1>2, <2>1 DEF SameCourse
    <3>3. ASSUME r = "caller" PROVE ~Open(docs, d)
      <4>1. i = d.current /\ d.current \in {0, d.processed}
        BY <2>2, <2>3, <3>2, <3>3 DEF Active, Good, ClientInv, TurnInv
      <4>2. d.processed \in 0..MaxNegotiations
        BY <2>1, Fields
      <4>3. i = d.processed
        BY <3>2, <4>1, <4>2, NegotiationAssumption DEF NegotiationAssumption
      <4> QED BY <3>2, <4>3 DEF Open
    <3> QED BY <2>2, <3>1, <3>2, <3>3, BeginOK
  <2>4. CreateAnswer(r, n, i) = Then(d, i, "localAnswer")
    BY <1>5 DEF CreateAnswer, d
  <2> QED BY <2>2, <2>3, <2>4 DEF Then, Begins
<1> QED BY <1>4, <1>5

(* Both sides have done their part of a negotiation that has an answer, or *)
(* that is of the other side.                                              *)
LEMMA SettledOK ==
  ASSUME NEW docs, DocsOK(docs), NEW r, NEW m, Core(docs, r, m), NEW i \in 1..m.processed,
         m.known[i].remote \/ docs[m.known[i].id].answer
  PROVE  LET d == m.known[i].id
         IN  d \in 1..Len(docs) /\ docs[d].offer /\ (docs[d].offerer = r => docs[d].answer)
<1> DEFINE d == m.known[i].id
<1>1. i \in 1..Len(m.known)
  <2>1. m.processed \in 0..Len(m.known) /\ Len(m.known) \in Nat
    BY Fields DEF Core, TurnInv
  <2> QED BY <2>1
<1>2. /\ d \in 1..Len(docs)
      /\ m.known[i].remote <=> docs[d].offerer # r
      /\ m.known[i].remote => docs[d].offer
  BY <1>1 DEF Core, KnownInv
<1>3. m.known[i].remote \/ docs[d].answer
  OBVIOUS
<1>4. docs[d].answer => docs[d].offer
  <2> HIDE DEF d
  <2> QED BY <1>2 DEF DocsOK
<1> HIDE DEF d
<1>5. d \in 1..Len(docs) /\ docs[d].offer /\ (docs[d].offerer = r => docs[d].answer)
  BY <1>2, <1>3, <1>4
<1> QED BY <1>5 DEF d

(* The connection is stable with negotiation i, which both sides have done *)
(* their part of; the caller's latest is still to be offered.              *)
LEMMA StableOK ==
  ASSUME NEW docs, DocsOK(docs), NEW r \in Roles, NEW m, NEW n, Popped(docs, r, m, n),
         m.chain[1].op \in Settling, NEW type \in {"offer", "answer"}
  PROVE  LET e == Stable(n, m.chain[1].at, type)
         IN  Good(docs, r, e) /\ e.known = n.known /\ e.processed = n.processed
<1> DEFINE i == m.chain[1].at
           e == Stable(n, i, type)
           d == n.known[i].id
<1>1. n \in Client /\ Core(docs, r, n) /\ i \in 1..n.processed
  BY PoppedFacts
<1>2. d \in 1..Len(docs) /\ docs[d].offer /\ (docs[d].offerer = r => docs[d].answer)
  <2>1. n.known[i].remote \/ docs[d].answer
    BY PoppedFacts DEF Settling, Answers
  <2> HIDE DEF i
  <2> QED BY <1>1, <2>1, SettledOK
<1>3. d \in 0..MaxNegotiations
  BY <1>2, NegotiationAssumption DEF NegotiationAssumption, DocsOK
<1>4. i \in Ids
  <2>1. n.processed \in 0..MaxNegotiations
    BY <1>1, Fields
  <2> QED BY <1>1, <2>1, NegotiationAssumption DEF NegotiationAssumption, Ids
<1>5. n.described[i] \in BOOLEAN
  <2>1. n.described \in [Ids -> BOOLEAN]
    BY <1>1 DEF Client
  <2> QED BY <1>4, <2>1
<1>6. e \in Client /\ SameCourse(e, n) /\ e.agreed = d
  <2> DEFINE b == n.described[i]
  <2>1. e = [n EXCEPT !.peer = "stable", !.local = type, !.agreed = d,
                      !.negotiated = b, !.fired = FALSE]
    BY DEF Stable
  <2>2. b \in BOOLEAN
    BY <1>5
  <2> HIDE DEF e, d, b, i
  <2>3. e \in Client
    BY <1>1, <1>3, <2>1, <2>2 DEF Client
  <2>4. /\ e.known = n.known /\ e.processed = n.processed /\ e.current = n.current
        /\ e.ended = n.ended /\ e.gathering = n.gathering /\ e.chain = n.chain
        /\ e.agreed = d
    BY <1>1, <2>1 DEF Client
  <2> QED BY <2>3, <2>4 DEF SameCourse
<1> HIDE DEF e
<1>7. KnownInv(docs, r, e) /\ TurnInv(e) /\ ChainInv(docs, e) /\ (r = "caller" => OverruledInv(e))
  <2>1. KnownInv(docs, r, e) /\ ChainInv(docs, e)
    BY <1>1, <1>6, KnownSame, ChainSame DEF Core, SameCourse
  <2>2. TurnInv(e)
    BY <1>1, <1>6 DEF Core, SameCourse, TurnInv
  <2>3. r = "caller" => OverruledInv(e)
    BY <1>1, <1>6 DEF Core, SameCourse, OverruledInv
  <2> QED BY <2>1, <2>2, <2>3
<1>8. AgreedInv(docs, r, e)
  <2>1. Len(docs) \in Nat
    BY DEF DocsOK
  <2> HIDE DEF d
  <2> QED BY <1>2, <1>6, <2>1 DEF AgreedInv
<1>9. ASSUME r = "caller" PROVE PositionInv(docs, e)
  <2>1. m.chain[1].op \notin Offers
    BY DEF Settling, Offers
  <2>2. Open(docs, n) => WillOffer(n)
    BY <1>9, <2>1 DEF Popped
  <2>3. /\ \A k \in 1..Len(n.chain) : OffersLatest(e, k) <=> OffersLatest(n, k)
        /\ Open(docs, e) <=> Open(docs, n)
    BY <1>6 DEF SameCourse, OffersLatest, Open
  <2>4. WillOffer(n) => WillOffer(e)
    BY <1>6, <2>3 DEF SameCourse, WillOffer
  <2> QED BY <1>6, <1>9, <2>2, <2>3, <2>4 DEF Popped, PositionInv, SameCourse
<1>10. Good(docs, r, e)
  BY <1>6, <1>7, <1>8, <1>9 DEF Good, ClientInv
<1> QED BY <1>6, <1>10 DEF SameCourse, e

LEMMA LocalAnswerOK ==
  ASSUME NEW docs, DocsOK(docs), NEW r \in Roles, NEW m, NEW n, Popped(docs, r, m, n),
         m.chain[1].op = "localAnswer"
  PROVE  Good(docs, r, LocalAnswer(r, n, m.chain[1].at))
<1> DEFINE i == m.chain[1].at
           f == IF n.peer # "have-remote-offer" THEN Fail(r, n, i) ELSE Stable(n, i, "answer")
<1>1. i \in 1..n.processed /\ n.known[i].remote
  BY PoppedRemote DEF Answers
<1>2. Good(docs, r, f) /\ f.known = n.known /\ i \in 1..f.processed
  <2>1. Good(docs, r, n)
    BY PoppedDone DEF Offers
  <2>2. MayEnd(docs, r, n, i)
    BY <1>1, RemoteMayEnd
  <2>3. CASE n.peer # "have-remote-offer"
    BY <2>1, <2>2, <2>3, FailOK
  <2>4. CASE n.peer = "have-remote-offer"
    <3>1. /\ Good(docs, r, Stable(n, i, "answer")) /\ Stable(n, i, "answer").known = n.known
          /\ Stable(n, i, "answer").processed = n.processed
      BY StableOK DEF Settling
    <3> QED BY <1>1, <2>4, <3>1
  <2> QED BY <2>3, <2>4
<1>3. LocalAnswer(r, n, i) = Gather(f, i)
  BY DEF LocalAnswer
<1> HIDE DEF f
<1>4. i = Len(f.known) => \A k \in 1..Len(f.chain) : ~OffersLatest(f, k)
  BY <1>1, <1>2, RemoteNotOffered
<1> QED BY <1>2, <1>3, <1>4, GatherOK

LEMMA RemoteAnswerOK ==
  ASSUME NEW docs, DocsOK(docs), NEW r \in Roles, NEW m, NEW n, Popped(docs, r, m, n),
         m.chain[1].op = "remoteAnswer"
  PROVE  Good(docs, r, RemoteAnswer(r, n, m.chain[1].at))
<1> DEFINE i == m.chain[1].at
           f == IF n.peer # "have-local-offer" THEN Fail(r, n, i) ELSE Stable(n, i, "offer")
<1>1. i \in 1..n.processed /\ docs[n.known[i].id].answer
  BY PoppedFacts
<1>2. Good(docs, r, f) /\ f.known = n.known /\ i \in 1..f.processed
  <2>1. Good(docs, r, n)
    BY PoppedDone DEF Offers
  <2>2. MayEnd(docs, r, n, i)
    BY <1>1 DEF MayEnd, Open
  <2>3. CASE n.peer # "have-local-offer"
    BY <2>1, <2>2, <2>3, FailOK
  <2>4. CASE n.peer = "have-local-offer"
    <3>1. /\ Good(docs, r, Stable(n, i, "offer")) /\ Stable(n, i, "offer").known = n.known
          /\ Stable(n, i, "offer").processed = n.processed
      BY StableOK DEF Settling
    <3> QED BY <1>1, <2>4, <3>1
  <2> QED BY <2>3, <2>4
<1>3. RemoteAnswer(r, n, i) = End(r, f, i)
  BY DEF RemoteAnswer
<1> HIDE DEF f
<1>4. MayEnd(docs, r, f, i)
  BY <1>1, <1>2 DEF MayEnd, Open
<1> QED BY <1>2, <1>3, <1>4, EndOK

-----------------------------------------------------------------------------
(* The steps of a client                                                   *)

LEMMA OperateOK ==
  ASSUME NegotiationInv, TypeOK, NEW r \in Roles, Operate(r)
  PROVE  /\ \E e : Good(negs, r, e) /\ client' = [client EXCEPT ![r] = e]
         /\ UNCHANGED <<accepted, negs, server, signals>>
<1> DEFINE m == client[r]
           n == [m EXCEPT !.chain = Tail(@)]
           o == m.chain[1]
<1>1. Good(negs, r, m) /\ m.chain # << >> /\ DocsOK(negs)
  BY DEF Operate, TypeOK, NegotiationInv, Good
<1>2. Popped(negs, r, m, n) /\ Head(m.chain) = o
  BY <1>1, PopOK
<1>3. client' = [client EXCEPT ![r] =
        CASE o.op = "createOffer"  -> CreateOffer(r, n, o.at)
          [] o.op = "localOffer"   -> LocalOffer(r, n, o.at)
          [] o.op = "remoteOffer"  -> RemoteOffer(r, n, o.at)
          [] o.op = "createAnswer" -> CreateAnswer(r, n, o.at)
          [] o.op = "localAnswer"  -> LocalAnswer(r, n, o.at)
          [] o.op = "remoteAnswer" -> RemoteAnswer(r, n, o.at)]
  BY <1>2 DEF Operate
<1> HIDE DEF n, m
<1>4. o.op \in Operations
  BY <1>2 DEF Popped
<1>5. CASE o.op = "createOffer"
  BY <1>1, <1>2, <1>3, <1>5, CreateOfferOK DEF Operate
<1>6. CASE o.op = "localOffer"
  BY <1>1, <1>2, <1>3, <1>6, LocalOfferOK DEF Operate
<1>7. CASE o.op = "remoteOffer"
  BY <1>1, <1>2, <1>3, <1>7, RemoteOfferOK DEF Operate
<1>8. CASE o.op = "createAnswer"
  BY <1>1, <1>2, <1>3, <1>8, CreateAnswerOK DEF Operate
<1>9. CASE o.op = "localAnswer"
  BY <1>1, <1>2, <1>3, <1>9, LocalAnswerOK DEF Operate
<1>10. CASE o.op = "remoteAnswer"
  BY <1>1, <1>2, <1>3, <1>10, RemoteAnswerOK DEF Operate
<1> QED BY <1>4, <1>5, <1>6, <1>7, <1>8, <1>9, <1>10 DEF Operations

(* What a client sends is about a negotiation there is. *)
LEMMA GatheredOK ==
  ASSUME NegotiationInv, TypeOK, NEW r \in Roles, NEW i \in Ids, Gathered(r, i)
  PROVE  /\ \E e : Good(negs, r, e) /\ client' = [client EXCEPT ![r] = e]
         /\ \/ server' = server
            \/ \E j \in Job : JobInv(negs, j) /\ server' = server (+) SetToBag({j})
         /\ UNCHANGED <<accepted, negs, signals>>
<1> DEFINE c == client[r]
           m == [c EXCEPT !.gathering = @ \ {i}]
           j == [step |-> "save", role |-> r, id |-> m.known[i].id, sdp |-> LocalDescription(m)]
           sends == Active(m, i) /\ LocalDescription(m) # "none"
           e == IF sends THEN IF m.known[i].remote THEN End(r, m, i) ELSE m
                ELSE IF Active(m, i) THEN Fail(r, m, i) ELSE m
<1>1. c \in Client /\ ClientInv(negs, r, c) /\ DocsOK(negs) /\ i \in c.gathering
  BY DEF TypeOK, NegotiationInv, Gathered
<1>2. /\ client' = [client EXCEPT ![r] = e]
      /\ server' = IF sends THEN server (+) SetToBag({j}) ELSE server
      /\ UNCHANGED <<accepted, negs, signals>>
  BY DEF Gathered
<1>3. /\ m \in Client
      /\ m.known = c.known /\ m.processed = c.processed /\ m.current = c.current
      /\ m.ended = c.ended /\ m.gathering = c.gathering \ {i}
      /\ m.chain = c.chain /\ m.peer = c.peer /\ m.agreed = c.agreed
  BY <1>1 DEF Client
<1> HIDE DEF m
<1>4. Good(negs, r, m)
  <2>1. KnownInv(negs, r, m) /\ ChainInv(negs, m)
    BY <1>1, <1>3, KnownSame, ChainSame DEF ClientInv
  <2>4. TurnInv(m) /\ AgreedInv(negs, r, m)
    BY <1>1, <1>3 DEF ClientInv, TurnInv, AgreedInv
  <2>2. r = "caller" => OverruledInv(m)
    BY <1>1, <1>3 DEF ClientInv, OverruledInv
  <2>3. r = "caller" => PositionInv(negs, m)
    BY <1>1, <1>3 DEF ClientInv, PositionInv, OffersLatest, Open, WillOffer, Unsettled
  <2> QED BY <1>3, <2>1, <2>2, <2>3, <2>4 DEF Good, ClientInv
<1>5. i \in 1..m.processed
  BY <1>1, <1>3 DEF ClientInv, TurnInv
<1>6. LocalDescription(m) \in {"none", "offer", "answer"}
      /\ (LocalDescription(m) = "none" => m.peer # "have-local-offer")
  BY <1>3 DEF Client, LocalDescription
<1>7. Good(negs, r, e)
  <2>1. CASE sends /\ m.known[i].remote
    <3>1. MayEnd(negs, r, m, i)
      BY <1>5, <2>1, RemoteMayEnd
    <3>2. Good(negs, r, End(r, m, i))
      BY <1>1, <1>4, <3>1, EndOK
    <3> QED BY <2>1, <3>2
  <2>2. CASE ~sends /\ Active(m, i)
    <3>1. ASSUME r = "caller", Open(negs, m), i = Len(m.known)
          PROVE  m.peer # "stable" /\ Unsettled(m)
      <4>1. PositionInv(negs, m) /\ PositionInv(negs, c)
        BY <1>1, <1>4, <3>1 DEF Good, ClientInv
      <4>2. \A k \in 1..Len(c.chain) : ~OffersLatest(c, k)
        BY <1>1, <1>3, <3>1, <4>1 DEF PositionInv
      <4>3. ~WillOffer(m)
        BY <1>3, <4>2 DEF WillOffer, OffersLatest
      <4> QED BY <3>1, <4>1, <4>3 DEF PositionInv
    <3>2. MayEnd(negs, r, m, i)
      BY <1>5, <3>1 DEF MayEnd
    <3>3. Good(negs, r, Fail(r, m, i))
      BY <1>1, <1>4, <3>2, FailOK
    <3> QED BY <2>2, <3>3
  <2> QED BY <1>4, <2>1, <2>2
<1>8. ASSUME sends PROVE j \in Job /\ JobInv(negs, j)
  <2>1. i \in 1..Len(m.known)
    <3>1. m.processed \in 0..Len(m.known) /\ Len(m.known) \in Nat
      BY <1>3, <1>4, Fields DEF Good, ClientInv, TurnInv
    <3> QED BY <1>5, <3>1
  <2>2. /\ m.known[i].id \in 1..Len(negs)
        /\ m.known[i].remote <=> negs[m.known[i].id].offerer # r
        /\ m.known[i].remote => negs[m.known[i].id].offer
    BY <1>4, <2>1 DEF Good, ClientInv, KnownInv
  <2>3. m.known[i].id \in 0..MaxNegotiations
    BY <1>1, <2>2, NegotiationAssumption DEF NegotiationAssumption, DocsOK
  <2>4. LocalDescription(m) \in {"none", "offer", "answer"} /\ LocalDescription(m) # "none"
    BY <1>6, <1>8
  <2> HIDE DEF c
  <2>5. j \in Job
    BY <2>3, <2>4 DEF Job
  <2> QED BY <2>2, <2>4, <2>5 DEF JobInv
<1> HIDE DEF e, j
<1> QED BY <1>2, <1>7, <1>8

LEMMA AskForNegotiationOK ==
  ASSUME NegotiationInv, TypeOK, NEW r \in Roles, AskForNegotiation(r)
  PROVE  /\ \E e : Good(negs, r, e) /\ client' = [client EXCEPT ![r] = e]
         /\ \/ server' = server
            \/ \E j \in Job : JobInv(negs, j) /\ server' = server (+) SetToBag({j})
         /\ UNCHANGED <<accepted, negs, signals>>
<1> DEFINE m == client[r]
           L == Len(m.known)
           e == [m EXCEPT !.fired = TRUE]
           d == m.known[L].id
           j == Do("needed", r, d)
<1>1. m \in Client /\ ClientInv(negs, r, m) /\ DocsOK(negs)
  BY DEF TypeOK, NegotiationInv
<1>2. /\ client' = [client EXCEPT ![r].fired = TRUE]
      /\ server' = IF m.ready /\ m.processed > 0 /\ ~FulfillingQueued(r, m)
                     THEN server (+) SetToBag({j}) ELSE server
      /\ UNCHANGED <<accepted, negs, signals>>
      /\ m.peer = "stable" /\ m.chain = << >>
  BY DEF AskForNegotiation
<1>3. client' = [client EXCEPT ![r] = e]
  BY <1>2
<1>4. /\ e \in Client
      /\ e.known = m.known /\ e.processed = m.processed /\ e.current = m.current
      /\ e.ended = m.ended /\ e.gathering = m.gathering /\ e.chain = m.chain
      /\ e.peer = m.peer /\ e.agreed = m.agreed
  BY <1>1 DEF Client
<1> HIDE DEF e
<1>5. Good(negs, r, e)
  BY <1>1, <1>4, SameFields DEF Good
<1>6. ASSUME m.processed > 0, ~FulfillingQueued(r, m)
      PROVE  j \in Job /\ JobInv(negs, j)
  <2>1. L \in Nat /\ m.processed \in 0..L
    BY <1>1, Fields DEF ClientInv, TurnInv
  <2>2. L \in 1..L /\ L > 0
    BY <1>6, <2>1
  <2>3. d \in 1..Len(negs) /\ (m.known[L].remote <=> negs[d].offerer # r)
    BY <1>1, <2>2 DEF ClientInv, KnownInv
  <2>4. d \in 0..MaxNegotiations
    BY <1>1, <2>3, NegotiationAssumption DEF NegotiationAssumption, DocsOK
  <2>5. /\ j.step = "needed" /\ j.role = r /\ j.id = d /\ j.sdp = "none"
    BY DEF Do
  <2>6. j \in Job
    <3> HIDE DEF d, m
    <3> QED BY <2>4 DEF Job, Do
  <2>7. ASSUME r = "caller", negs[d].offerer = "caller", ~negs[d].answer PROVE FALSE
    <3>1. ~m.known[L].remote
      BY <2>3, <2>7
    <3>2. HighestImpolite(r, m) = L
      BY <1>1, <2>2, <2>7, <3>1, Queue
    <3>3. ~(L > m.processed)
      BY <1>6, <2>7, <3>2 DEF FulfillingQueued
    <3>4. m.processed = L
      BY <2>1, <3>3
    <3>5. Open(negs, m)
      BY <2>2, <2>7, <3>1, <3>4 DEF Open
    <3>6. ~WillOffer(m)
      BY <1>2 DEF WillOffer
    <3> QED BY <1>1, <1>2, <2>7, <3>5, <3>6 DEF ClientInv, PositionInv
  <2> HIDE DEF j
  <2> QED BY <2>3, <2>5, <2>6, <2>7 DEF JobInv
<1> HIDE DEF j, d
<1> QED BY <1>2, <1>3, <1>5, <1>6

LEMMA SetHeldOK ==
  ASSUME NegotiationInv, TypeOK, NEW r \in Roles, SetHeld(r)
  PROVE  /\ \E e : Good(negs, r, e) /\ client' = [client EXCEPT ![r] = e]
         /\ UNCHANGED <<accepted, negs, server, signals>>
<1> DEFINE m == client[r]
           direction == IF m.peer = "stable" THEN ~m.held ELSE m.direction
           e == [m EXCEPT !.toggles = @ + 1, !.held = ~@, !.direction = direction,
                          !.fired = @ /\ direction # m.negotiated]
<1>1. m \in Client /\ ClientInv(negs, r, m)
  BY DEF TypeOK, NegotiationInv
<1>2. direction \in BOOLEAN
  BY <1>1 DEF Client
<1>3. client' = [client EXCEPT ![r] = e] /\ UNCHANGED <<accepted, negs, server, signals>>
  BY DEF SetHeld
<1> HIDE DEF direction
<1>4. (m.fired /\ direction # m.negotiated) \in BOOLEAN /\ (~m.held) \in BOOLEAN /\ m.toggles + 1 \in Nat
  BY <1>1 DEF Client
<1> HIDE DEF m
<1>5. e \in Client /\ SameCourse(e, m) /\ e.peer = m.peer /\ e.agreed = m.agreed
  <2> DEFINE t == m.toggles + 1
             h == ~m.held
             f == m.fired /\ direction # m.negotiated
  <2>1. e = [m EXCEPT !.toggles = t, !.held = h, !.direction = direction, !.fired = f]
    OBVIOUS
  <2>2. t \in Nat /\ h \in BOOLEAN /\ f \in BOOLEAN
    BY <1>4
  <2> HIDE DEF t, h, f, e
  <2>3. e \in Client
    BY <1>1, <1>2, <2>1, <2>2 DEF Client
  <2>4. /\ e.known = m.known /\ e.processed = m.processed /\ e.current = m.current
        /\ e.ended = m.ended /\ e.gathering = m.gathering /\ e.chain = m.chain
        /\ e.peer = m.peer /\ e.agreed = m.agreed
    BY <1>1, <2>1 DEF Client
  <2> QED BY <2>3, <2>4 DEF SameCourse
<1> HIDE DEF e
<1>6. Good(negs, r, e)
  BY <1>1, <1>5, SameFields DEF Good, SameCourse
<1> QED BY <1>3, <1>6

LEMMA GetInputTrackOK ==
  ASSUME NegotiationInv, TypeOK, NEW r \in Roles, GetInputTrack(r)
  PROVE  /\ \E e : Good(negs, r, e) /\ client' = [client EXCEPT ![r] = e]
         /\ UNCHANGED <<accepted, negs, server, signals>>
<1> DEFINE m == client[r]
           e == [m EXCEPT !.ready = TRUE]
<1>1. m \in Client /\ ClientInv(negs, r, m) /\ DocsOK(negs)
  BY DEF TypeOK, NegotiationInv
<1>2. /\ client' = [client EXCEPT ![r] = ProcessNegotiations(r, e)]
      /\ UNCHANGED <<accepted, negs, server, signals>>
  BY DEF GetInputTrack
<1> HIDE DEF m
<1>3. /\ e \in Client
      /\ e.known = m.known /\ e.processed = m.processed /\ e.current = m.current
      /\ e.ended = m.ended /\ e.gathering = m.gathering /\ e.chain = m.chain
      /\ e.peer = m.peer /\ e.agreed = m.agreed
  BY <1>1 DEF Client
<1> HIDE DEF e
<1>4. Good(negs, r, e)
  BY <1>1, <1>3, SameFields DEF Good
<1>5. Good(negs, r, ProcessNegotiations(r, e))
  BY <1>1, <1>4, ProcessOK
<1> QED BY <1>2, <1>5

LEMMA ReceiveOK ==
  ASSUME NegotiationInv, TypeOK, NEW s \in signals, Receive(s)
  PROVE  /\ s.to \in Roles
         /\ \E e : Good(negs, s.to, e) /\ client' = [client EXCEPT ![s.to] = e]
         /\ signals' = signals \ {s} /\ UNCHANGED <<accepted, negs, server>>
<1> DEFINE r == s.to
           m == client[r]
<1>1. s \in Signal /\ SignalInv(negs, s) /\ DocsOK(negs)
  BY DEF TypeOK, NegotiationInv
<1>2. r \in Roles /\ s.type \in {"request-offer", "offer", "answer"} /\ s.id \in 1..Len(negs)
  BY <1>1 DEF Signal, SignalInv
<1> HIDE DEF r
<1>3. m \in Client /\ ClientInv(negs, r, m)
  BY <1>2 DEF TypeOK, NegotiationInv
<1>4. Good(negs, r, m)
  BY <1>3 DEF Good
<1>5. CASE s.type = "answer"
  <2>1. Good(negs, r, SetRemoteAnswer(m, s.id))
    BY <1>1, <1>2, <1>4, <1>5, SetRemoteAnswerOK DEF SignalInv
  <2> QED BY <1>2, <1>5, <2>1 DEF Receive, r
<1>6. CASE s.type # "answer"
  <2> DEFINE remote == s.type = "offer"
  <2>1. Hears(negs, r, s.id, remote)
    <3>1. negs[s.id] \in Document
      BY <1>1, <1>2 DEF DocsOK
    <3>2. CASE s.type = "offer"
      BY <1>1, <1>2, <3>2 DEF Hears, SignalInv, r
    <3>3. CASE s.type = "request-offer"
      BY <1>1, <1>2, <3>3 DEF Hears, SignalInv, r
    <3> QED BY <1>2, <1>6, <3>2, <3>3
  <2> HIDE DEF remote
  <2>2. Good(negs, r, AddNegotiation(r, m, s.id, remote))
    BY <1>1, <1>2, <1>4, <2>1, AddNegotiationOK
  <2> QED BY <1>2, <1>6, <2>2 DEF Receive, r, remote
<1> QED BY <1>5, <1>6

-----------------------------------------------------------------------------
(* The steps of the server                                                 *)

(* The documents of the server only grow. *)
Grows(docs, new) ==
    /\ Len(docs) <= Len(new)
    /\ \A n \in 1..Len(docs) : /\ new[n].offerer = docs[n].offerer
                               /\ docs[n].offer => new[n].offer
                               /\ docs[n].answer => new[n].answer

(* So what the clients know, the signals tell and the jobs refer to stays. *)
LEMMA GrowOK ==
  ASSUME NEW docs, DocsOK(docs), NEW new, DocsOK(new), Grows(docs, new)
  PROVE  /\ \A r \in Roles : \A m : Good(docs, r, m) => Good(new, r, m)
         /\ \A s : SignalInv(docs, s) => SignalInv(new, s)
         /\ \A j : JobInv(docs, j) => JobInv(new, j)
<1>1. Len(docs) \in Nat /\ Len(new) \in Nat /\ 1..Len(docs) \subseteq 1..Len(new)
  BY DEF DocsOK, Grows
<1>2. ASSUME NEW r \in Roles, NEW m, Good(docs, r, m) PROVE Good(new, r, m)
  <2>1. m \in Client /\ KnownInv(docs, r, m) /\ TurnInv(m) /\ ChainInv(docs, m) /\ AgreedInv(docs, r, m)
    BY <1>2 DEF Good, ClientInv
  <2>2. \A i \in 1..Len(m.known) : m.known[i].id \in 1..Len(docs)
    BY <2>1 DEF KnownInv
  <2>3. KnownInv(new, r, m)
    BY <1>1, <2>1, <2>2 DEF KnownInv, Grows
  <2>4. \A i \in 1..m.processed : i \in 1..Len(m.known)
    <3>1. m.processed \in 0..Len(m.known) /\ Len(m.known) \in Nat
      BY <2>1, Fields DEF TurnInv
    <3> QED BY <3>1
  <2>5. ChainInv(new, m)
    <3>1. ASSUME NEW k \in 1..Len(m.chain)
          PROVE  /\ m.chain[k].at \in 1..m.processed
                 /\ m.known[m.chain[k].at].id \in 1..Len(docs)
      BY <2>1, <2>2, <2>4 DEF ChainInv, Sided
    <3>2. ASSUME NEW k \in 1..Len(m.chain) PROVE Sided(new, m, m.chain[k])
      <4>1. Sided(docs, m, m.chain[k])
        BY <2>1 DEF ChainInv
      <4> QED BY <3>1, <4>1 DEF Sided, Grows
    <3> QED BY <3>2 DEF ChainInv
  <2>6. AgreedInv(new, r, m)
    <3>1. m.agreed \in Nat
      BY <2>1, Fields, NegotiationAssumption DEF NegotiationAssumption
    <3>2. m.agreed <= Len(new)
      BY <1>1, <2>1, <3>1 DEF AgreedInv, Grows
    <3>3. m.agreed > 0 => m.agreed \in 1..Len(docs)
      BY <1>1, <2>1, <3>1 DEF AgreedInv
    <3> QED BY <2>1, <3>2, <3>3 DEF AgreedInv, Grows
  <2>7. ASSUME r = "caller" PROVE PositionInv(new, m)
    <3>1. PositionInv(docs, m)
      BY <1>2, <2>7 DEF Good, ClientInv
    <3>2. Open(new, m) => Open(docs, m)
      <4>1. Len(m.known) \in Nat
        BY <2>1, Fields
      <4>2. Len(m.known) > 0 => m.known[Len(m.known)].id \in 1..Len(docs)
        BY <2>2, <4>1
      <4> QED BY <4>2 DEF Open, Grows
    <3> QED BY <3>1, <3>2 DEF PositionInv
  <2> QED BY <1>2, <2>1, <2>3, <2>5, <2>6, <2>7 DEF Good, ClientInv
<1>3. ASSUME NEW s, SignalInv(docs, s) PROVE SignalInv(new, s)
  BY <1>1, <1>3 DEF SignalInv, Grows
<1>4. ASSUME NEW j, JobInv(docs, j) PROVE JobInv(new, j)
  BY <1>1, <1>4 DEF JobInv, Grows
<1> QED BY <1>2, <1>3, <1>4

(* A step of a client *)
LEMMA ClientStepOK ==
  ASSUME NegotiationInv, TypeOK, NEW r \in Roles,
         \E e : Good(negs, r, e) /\ client' = [client EXCEPT ![r] = e],
         \/ server' = server
         \/ \E j \in Job : JobInv(negs, j) /\ server' = server (+) SetToBag({j}),
         signals' \subseteq signals, UNCHANGED <<accepted, negs>>
  PROVE  TypeOK' /\ NegotiationInv'
<1>1. PICK e : Good(negs, r, e) /\ client' = [client EXCEPT ![r] = e]
  OBVIOUS
<1>2. client' \in [Roles -> Client] /\ \A q \in Roles : ClientInv(negs, q, client'[q])
  <2>1. client \in [Roles -> Client] /\ e \in Client /\ ClientInv(negs, r, e)
    BY <1>1 DEF TypeOK, Good
  <2>2. client' \in [Roles -> Client]
    BY <1>1, <2>1
  <2>3. \A q \in Roles : client'[q] = IF q = r THEN e ELSE client[q]
    BY <1>1, <2>1
  <2> QED BY <2>1, <2>2, <2>3 DEF NegotiationInv
<1>3. IsABag(server') /\ BagToSet(server') \subseteq Job /\ \A j \in BagToSet(server') : JobInv(negs, j)
  <2>1. IsABag(server) /\ BagToSet(server) \subseteq Job /\ \A j \in BagToSet(server) : JobInv(negs, j)
    BY DEF TypeOK, NegotiationInv, Pending
  <2>2. ASSUME NEW j \in Job, JobInv(negs, j), server' = server (+) SetToBag({j})
        PROVE  IsABag(server') /\ BagToSet(server') = BagToSet(server) \cup {j}
    BY <2>1, <2>2, BagAdd
  <2> QED BY <2>1, <2>2
<1>4. TypeOK'
  BY <1>2, <1>3 DEF TypeOK
<1>5. DocsOK(negs') /\ \A s \in signals' : SignalInv(negs', s)
  BY DEF NegotiationInv
<1>6. NegotiationInv'
  BY <1>2, <1>3, <1>5 DEF NegotiationInv, Pending
<1> QED BY <1>4, <1>6

(* A job is done: its successors and the signals that it sends are right   *)
(* about the documents it leaves.                                          *)
LEMMA ServerStepOK ==
  ASSUME NegotiationInv, TypeOK, NEW j, NEW next \in SUBSET Job, NEW sent \in SUBSET Signal,
         Proceed(j, next, sent), DocsOK(negs'), Grows(negs, negs'),
         \A k \in next : JobInv(negs', k), \A s \in sent : SignalInv(negs', s),
         accepted' \in BOOLEAN, client' = client
  PROVE  TypeOK' /\ NegotiationInv'
<1>1. /\ \A r \in Roles : \A m : Good(negs, r, m) => Good(negs', r, m)
      /\ \A s : SignalInv(negs, s) => SignalInv(negs', s)
      /\ \A k : JobInv(negs, k) => JobInv(negs', k)
  BY GrowOK DEF NegotiationInv
<1>2. IsABag(server') /\ BagToSet(server') \subseteq BagToSet(server) \cup next
  BY BagStep DEF TypeOK, Proceed
<1>3. signals' = signals \cup sent
  BY DEF Proceed
<1>4. TypeOK'
  BY <1>2, <1>3 DEF TypeOK, DocsOK
<1>5. \A k \in BagToSet(server') : JobInv(negs', k)
  BY <1>1, <1>2 DEF NegotiationInv, Pending
<1>6. \A s \in signals' : SignalInv(negs', s)
  BY <1>1, <1>3 DEF NegotiationInv
<1>7. \A r \in Roles : ClientInv(negs', r, client'[r])
  <2>1. \A r \in Roles : Good(negs, r, client[r])
    BY DEF NegotiationInv, TypeOK, Good
  <2> QED BY <1>1, <2>1 DEF Good
<1>8. NegotiationInv'
  BY <1>5, <1>6, <1>7 DEF NegotiationInv, Pending
<1> QED BY <1>4, <1>8

LEMMA GrowsRefl ==
  ASSUME NEW docs, DocsOK(docs) PROVE Grows(docs, docs)
BY DEF DocsOK, Grows

(* A job that follows another one, or that a message of a client brings *)
LEMMA DoOK ==
  ASSUME NEW step \in {"startFirst", "initialOffer", "forward", "send", "start"},
         NEW role \in Roles, NEW id \in 0..Len(negs), DocsOK(negs),
         step \in {"forward", "send"} => id # 0
  PROVE  Do(step, role, id) \in Job /\ JobInv(negs, Do(step, role, id))
<1>1. id \in 0..MaxNegotiations /\ Len(negs) \in Nat
  BY NegotiationAssumption DEF NegotiationAssumption, DocsOK
<1>2. Do(step, role, id) \in Job
  BY <1>1 DEF Do, Job
<1> QED BY <1>1, <1>2 DEF Do, JobInv

(* A signal about a negotiation there is *)
LEMMA SignalOK ==
  ASSUME NEW type \in {"request-offer", "offer", "answer"}, NEW r \in Roles, NEW n \in 1..Len(negs),
         DocsOK(negs)
  PROVE  [type |-> type, to |-> r, id |-> n] \in Signal
<1>1. n \in Ids
  BY NegotiationAssumption DEF NegotiationAssumption, DocsOK, Ids
<1> QED BY <1>1 DEF Signal

(* startNewNegotiation: the document is new. *)
LEMMA StartOK ==
  ASSUME NegotiationInv, TypeOK, NEW j \in Pending, StartNewNegotiation(j)
  PROVE  TypeOK' /\ NegotiationInv'
<1> DEFINE d == [offerer |-> j.role, offer |-> FALSE, answer |-> FALSE]
           s == Request(j.role, Len(negs) + 1)
<1>1. j \in Job /\ DocsOK(negs)
  BY DEF TypeOK, NegotiationInv, Pending
<1>2. /\ Len(negs) < MaxNegotiations /\ negs' = Append(negs, d)
      /\ Proceed(j, {}, {s}) /\ UNCHANGED <<accepted, client>>
  BY DEF StartNewNegotiation, Start
<1>3. j.role \in Roles
  BY <1>1 DEF Job
<1>4. d \in Document /\ d.offerer = j.role /\ d.offer = FALSE /\ d.answer = FALSE
  BY <1>3 DEF Document
<1>5. /\ s.type = "request-offer" /\ s.to = j.role /\ s.id = Len(negs) + 1
  BY DEF Request
<1> HIDE DEF d
<1>6. /\ negs \in Seq(Document) /\ Len(negs) <= MaxNegotiations
      /\ \A n \in 1..Len(negs) : negs[n].answer => negs[n].offer
  BY <1>1 DEF DocsOK
<1>7. /\ negs' \in Seq(Document) /\ Len(negs) \in Nat /\ Len(negs') = Len(negs) + 1
      /\ \A n \in 1..Len(negs) : negs'[n] = negs[n]
      /\ negs'[Len(negs) + 1] = d
  BY <1>2, <1>4, <1>6, Appended
<1>8. DocsOK(negs') /\ Grows(negs, negs')
  <2>1. \A n \in 1..Len(negs') : n \in 1..Len(negs) \/ n = Len(negs) + 1
    BY <1>7
  <2>2. Len(negs') <= MaxNegotiations
    BY <1>2, <1>7, NegotiationAssumption DEF NegotiationAssumption
  <2>3. \A n \in 1..Len(negs') : negs'[n].answer => negs'[n].offer
    BY <1>4, <1>6, <1>7, <2>1
  <2>4. Grows(negs, negs')
    BY <1>7 DEF Grows
  <2> QED BY <1>7, <2>2, <2>3, <2>4 DEF DocsOK
<1>9. SignalInv(negs', s)
  BY <1>4, <1>5, <1>7 DEF SignalInv
<1>10. s \in Signal
  <2>1. Len(negs) + 1 \in Ids
    BY <1>2, <1>7, NegotiationAssumption DEF NegotiationAssumption, Ids
  <2> QED BY <1>3, <2>1 DEF Request, Signal
<1> HIDE DEF s
<1>11. accepted' \in BOOLEAN /\ client' = client
  BY <1>2 DEF TypeOK
<1> QED BY <1>2, <1>8, <1>9, <1>10, <1>11, ServerStepOK

(* saveWebrtcSession: an answer is of a negotiation that has an offer. *)
LEMMA SaveSessionOK ==
  ASSUME NegotiationInv, TypeOK, NEW j \in Pending, SaveSession(j)
  PROVE  TypeOK' /\ NegotiationInv'
<1>1. j \in Job /\ DocsOK(negs) /\ JobInv(negs, j) /\ j.step = "save"
  BY DEF TypeOK, NegotiationInv, Pending, SaveSession
<1>2. /\ j.role \in Roles /\ j.sdp \in {"offer", "answer"} /\ j.id \in 1..Len(negs)
      /\ negs[j.id].offerer # j.role => negs[j.id].offer
  BY <1>1 DEF Job, JobInv
<1>3. accepted' \in BOOLEAN /\ client' = client
  BY DEF SaveSession, TypeOK
<1>4. CASE CanSave(j)
  <2> DEFINE d == [negs[j.id] EXCEPT ![j.sdp] = TRUE]
             k == Do("forward", Opposite(j.role), j.id)
  <2>1. negs' = [negs EXCEPT ![j.id] = d] /\ Proceed(j, {k}, {})
    BY <1>4 DEF SaveSession
  <2>2. /\ negs \in Seq(Document) /\ Len(negs) \in Nat /\ Len(negs) <= MaxNegotiations
        /\ \A n \in 1..Len(negs) : negs[n] \in Document /\ (negs[n].answer => negs[n].offer)
    BY <1>1 DEF DocsOK
  <2>3. /\ d \in Document /\ d.offerer = negs[j.id].offerer
        /\ negs[j.id].offer => d.offer
        /\ negs[j.id].answer => d.answer
        /\ d.answer => d.offer
    <3>1. negs[j.id] \in Document /\ (negs[j.id].answer => negs[j.id].offer)
      BY <1>2, <2>2
    <3>2. CASE j.sdp = "offer"
      BY <3>1, <3>2 DEF Document
    <3>3. CASE j.sdp = "answer"
      <4>1. negs[j.id].offer
        BY <1>2, <1>4, <3>3 DEF CanSave
      <4> QED BY <3>1, <3>3, <4>1 DEF Document
    <3> QED BY <1>2, <3>2, <3>3
  <2> HIDE DEF d
  <2>4. /\ negs' \in Seq(Document) /\ Len(negs') = Len(negs)
        /\ \A n \in 1..Len(negs) : negs'[n] = IF n = j.id THEN d ELSE negs[n]
    BY <1>2, <2>1, <2>2, <2>3
  <2>5. DocsOK(negs') /\ Grows(negs, negs')
    <3>1. DocsOK(negs')
      BY <2>2, <2>3, <2>4 DEF DocsOK
    <3>2. Grows(negs, negs')
      BY <2>2, <2>3, <2>4 DEF Grows
    <3> QED BY <3>1, <3>2
  <2>6. k \in Job /\ JobInv(negs', k)
    <3>1. Opposite(j.role) \in Roles
      BY DEF Opposite, Roles
    <3>2. j.id \in 0..Len(negs) /\ j.id # 0
      BY <1>2, <2>2
    <3>3. k \in Job /\ JobInv(negs, k)
      BY <1>1, <3>1, <3>2, DoOK
    <3> QED BY <1>1, <2>5, <3>3, GrowOK
  <2> HIDE DEF k
  <2>7. {k} \in SUBSET Job /\ {} \in SUBSET Signal
    BY <2>6
  <2>8. (\A q \in {k} : JobInv(negs', q)) /\ \A s \in {} : SignalInv(negs', s)
    BY <2>6
  <2> QED BY <1>3, <2>1, <2>5, <2>7, <2>8, ServerStepOK
<1>5. CASE ~CanSave(j)
  <2>1. Proceed(j, {}, {}) /\ negs' = negs
    BY <1>5 DEF SaveSession
  <2>2. DocsOK(negs') /\ Grows(negs, negs')
    BY <1>1, <2>1, GrowsRefl
  <2> QED BY <1>3, <2>1, <2>2, ServerStepOK
<1> QED BY <1>4, <1>5

(* The other handlers leave the documents as they are. *)
LEMMA ReadOnlyOK ==
  ASSUME NegotiationInv, TypeOK, NEW j, NEW next \in SUBSET Job, NEW sent \in SUBSET Signal,
         Proceed(j, next, sent), negs' = negs,
         \A k \in next : JobInv(negs, k), \A s \in sent : SignalInv(negs, s),
         accepted' \in BOOLEAN, client' = client
  PROVE  TypeOK' /\ NegotiationInv'
<1>1. DocsOK(negs') /\ Grows(negs, negs')
  BY GrowsRefl DEF NegotiationInv
<1> QED BY <1>1, ServerStepOK

(* What is sent of the latest negotiation, or of a description that is saved *)
LEMMA DescriptionOK ==
  ASSUME DocsOK(negs), NEW r \in Roles, NEW n \in 1..Len(negs), NEW s \in DescriptionFor(r, n)
  PROVE  s \in Signal /\ SignalInv(negs, s)
<1>1. CASE s = Request(r, n) /\ negs[n].offerer = r
  <2>1. s \in Signal
    BY <1>1, SignalOK DEF Request
  <2> QED BY <1>1, <2>1 DEF Request, SignalInv
<1>2. CASE s = [type |-> "answer", to |-> r, id |-> n] /\ negs[n].answer
  <2>1. s \in Signal
    BY <1>2, SignalOK
  <2> QED BY <1>2, <2>1 DEF SignalInv
<1>3. CASE s = [type |-> "offer", to |-> r, id |-> n] /\ negs[n].offer /\ negs[n].offerer # r
  <2>1. s \in Signal
    BY <1>3, SignalOK
  <2> QED BY <1>3, <2>1 DEF SignalInv
<1> QED BY <1>1, <1>2, <1>3 DEF DescriptionFor

LEMMA HandleOK ==
  ASSUME NegotiationInv, TypeOK, NEW j \in Pending, Handle(j)
  PROVE  TypeOK' /\ NegotiationInv'
<1>1. j \in Job /\ DocsOK(negs) /\ JobInv(negs, j) /\ j.role \in Roles
  BY DEF TypeOK, NegotiationInv, Pending, Job
<1>2. 0 \in 0..Len(negs) /\ Len(negs) \in Nat /\ (negs # << >> => Len(negs) \in 1..Len(negs))
  BY <1>1 DEF DocsOK
<1>3. CASE Acknowledge(j)
  <2> DEFINE next == IF negs = << >> THEN {Do("startFirst", "caller", 0)} ELSE {}
  <2>1. Proceed(j, next, {}) /\ negs' = negs /\ accepted' \in BOOLEAN /\ client' = client
    BY <1>3 DEF Acknowledge, TypeOK
  <2>2. next \in SUBSET Job /\ \A k \in next : JobInv(negs, k)
    BY <1>1, <1>2, DoOK DEF Roles
  <2> HIDE DEF next
  <2> QED BY <2>1, <2>2, ReadOnlyOK
<1>4. CASE StartNewNegotiation(j)
  BY <1>4, StartOK
<1>5. CASE Accept(j)
  <2> DEFINE next == {Do("initialOffer", "callee", 0)}
  <2>1. Proceed(j, next, {}) /\ negs' = negs /\ accepted' \in BOOLEAN /\ client' = client
    BY <1>5 DEF Accept
  <2>2. next \in SUBSET Job /\ \A k \in next : JobInv(negs, k)
    BY <1>1, <1>2, DoOK DEF Roles
  <2> HIDE DEF next
  <2> QED BY <2>1, <2>2, ReadOnlyOK
<1>6. CASE InitialOffer(j)
  <2> DEFINE n == Len(negs)
             sent == IF n > 0 /\ negs[n].offer /\ negs[n].offerer # j.role
                       THEN {[type |-> "offer", to |-> j.role, id |-> n]} ELSE {}
  <2>1. Proceed(j, {}, sent) /\ negs' = negs /\ accepted' \in BOOLEAN /\ client' = client
    BY <1>6 DEF InitialOffer, TypeOK
  <2>2. ASSUME NEW s \in sent PROVE s \in Signal /\ SignalInv(negs, s)
    <3>1. n > 0 /\ negs[n].offer /\ negs[n].offerer # j.role /\ s = [type |-> "offer", to |-> j.role, id |-> n]
      BY <2>2
    <3>2. n \in 1..Len(negs)
      BY <1>2, <3>1
    <3>3. s \in Signal
      BY <1>1, <3>1, <3>2, SignalOK
    <3> QED BY <3>1, <3>2, <3>3 DEF SignalInv
  <2> HIDE DEF sent
  <2> QED BY <2>1, <2>2, ReadOnlyOK
<1>7. CASE SaveSession(j)
  BY <1>7, SaveSessionOK
<1>8. CASE Forward(j)
  <2> DEFINE next == IF accepted THEN {Do("send", j.role, j.id)} ELSE {}
  <2>1. Proceed(j, next, {}) /\ negs' = negs /\ accepted' \in BOOLEAN /\ client' = client
    BY <1>8 DEF Forward, TypeOK
  <2>2. j.id \in 0..Len(negs) /\ j.id # 0
    BY <1>1, <1>2, <1>8 DEF Forward, JobInv
  <2>3. next \in SUBSET Job /\ \A k \in next : JobInv(negs, k)
    BY <1>1, <2>2, DoOK
  <2> HIDE DEF next
  <2> QED BY <2>1, <2>3, ReadOnlyOK
<1>9. CASE Send(j)
  <2> DEFINE sent == DescriptionFor(j.role, j.id)
  <2>1. Proceed(j, {}, sent) /\ negs' = negs /\ accepted' \in BOOLEAN /\ client' = client
    BY <1>9 DEF Send, TypeOK
  <2>2. j.id \in 1..Len(negs)
    BY <1>1, <1>9 DEF Send, JobInv
  <2>3. sent \in SUBSET Signal /\ \A s \in sent : SignalInv(negs, s)
    BY <1>1, <2>2, DescriptionOK
  <2> HIDE DEF sent
  <2> QED BY <2>1, <2>3, ReadOnlyOK
<1>10. CASE NegotiationNeeded(j)
  <2> DEFINE next == IF MayStart(j.role, j.id) THEN {Do("start", j.role, 0)} ELSE {}
             sent == IF MayResend(j.role, j.id) THEN {Request(j.role, Len(negs))} ELSE {}
  <2>1. Proceed(j, next, sent) /\ negs' = negs /\ accepted' \in BOOLEAN /\ client' = client
    BY <1>10 DEF NegotiationNeeded, TypeOK
  <2>2. next \in SUBSET Job /\ \A k \in next : JobInv(negs, k)
    BY <1>1, <1>2, DoOK
  <2>3. ASSUME NEW s \in sent PROVE s \in Signal /\ SignalInv(negs, s)
    <3>1. MayResend(j.role, j.id) /\ s = Request(j.role, Len(negs))
      BY <2>3
    <3>2. Len(negs) \in 1..Len(negs) /\ negs[Len(negs)].offerer = j.role
      BY <1>2, <3>1 DEF MayResend
    <3>3. s \in Signal
      BY <1>1, <3>1, <3>2, SignalOK DEF Request
    <3> QED BY <3>1, <3>2, <3>3 DEF Request, SignalInv
  <2> HIDE DEF next, sent
  <2> QED BY <2>1, <2>2, <2>3, ReadOnlyOK
<1> QED BY <1>3, <1>4, <1>5, <1>6, <1>7, <1>8, <1>9, <1>10 DEF Handle

-----------------------------------------------------------------------------
(* The invariant holds. *)

LEMMA InitOK ==
  ASSUME Init PROVE TypeOK /\ NegotiationInv
<1>1. negs = << >> /\ signals = {} /\ accepted = FALSE
  BY DEF Init
<1> DEFINE jobs == {Do("ack", "caller", 0), Do("accept", "callee", 0)}
<1>2. MaxNegotiations \in Nat /\ 0 \in 0..MaxNegotiations
  BY NegotiationAssumption DEF NegotiationAssumption
<1>3. \A j \in jobs : j \in Job /\ j.step \in {"ack", "accept"}
  BY <1>2 DEF Do, Job, Roles
<1> HIDE DEF jobs
<1>4. IsABag(server) /\ BagToSet(server) = jobs
  BY DEF Init, IsABag, SetToBag, BagToSet, jobs
<1>5. ASSUME NEW r \in Roles
      PROVE  /\ client[r] \in Client
             /\ client[r].known = << >> /\ client[r].chain = << >> /\ client[r].processed = 0
             /\ client[r].current = 0 /\ client[r].ended = {} /\ client[r].gathering = {}
             /\ client[r].agreed = 0
  <2> DEFINE m == [known |-> << >>, current |-> 0, processed |-> 0, ended |-> {}, failed |-> {},
                   chain |-> << >>, gathering |-> {}, peer |-> "stable", local |-> "none",
                   agreed |-> 0, ready |-> r \notin Tardy, toggles |-> 0, held |-> FALSE,
                   direction |-> FALSE, described |-> [n \in Ids |-> FALSE], negotiated |-> FALSE,
                   fired |-> FALSE]
  <2>1. client[r] = m
    BY DEF Init
  <2>2. m \in Client
    <3>1. [n \in Ids |-> FALSE] \in [Ids -> BOOLEAN] /\ (r \notin Tardy) \in BOOLEAN
      OBVIOUS
    <3>2. << >> \in Seq([id : Ids, remote : BOOLEAN]) /\ << >> \in Seq([op : Operations, at : Ids])
      OBVIOUS
    <3> QED BY <1>2, <3>1, <3>2 DEF Client
  <2> QED BY <2>1, <2>2
<1>6. \A r \in Roles : ClientInv(negs, r, client[r])
  <2>1. Len(negs) = 0
    BY <1>1
  <2>2. ASSUME NEW r \in Roles PROVE ClientInv(negs, r, client[r])
    <3>1. Len(client[r].known) = 0 /\ Len(client[r].chain) = 0
      BY <1>5
    <3>2. KnownInv(negs, r, client[r]) /\ ChainInv(negs, client[r]) /\ OverruledInv(client[r])
      BY <3>1 DEF KnownInv, ChainInv, OverruledInv
    <3>3. TurnInv(client[r]) /\ AgreedInv(negs, r, client[r])
      BY <1>5, <2>1, <3>1 DEF TurnInv, AgreedInv
    <3>4. PositionInv(negs, client[r])
      BY <3>1 DEF PositionInv, Open
    <3> QED BY <3>2, <3>3, <3>4 DEF ClientInv
  <2> QED BY <2>2
<1>7. client \in [Roles -> Client]
  BY <1>5 DEF Init
<1>8. TypeOK
  <2>1. accepted \in BOOLEAN /\ negs \in Seq(Document) /\ Len(negs) <= MaxNegotiations /\ signals \subseteq Signal
    <3>1. negs \in Seq(Document) /\ Len(negs) = 0
      BY <1>1
    <3>2. Len(negs) <= MaxNegotiations
      BY <1>2, <3>1
    <3>3. accepted \in BOOLEAN
      BY <1>1
    <3>4. signals \subseteq Signal
      BY <1>1
    <3> QED BY <3>1, <3>2, <3>3, <3>4
  <2>2. IsABag(server) /\ BagToSet(server) \subseteq Job
    BY <1>3, <1>4
  <2> QED BY <1>7, <2>1, <2>2 DEF TypeOK
<1>9. DocsOK(negs)
  BY <1>1, <1>2 DEF DocsOK
<1>10. \A j \in Pending : JobInv(negs, j)
  BY <1>3, <1>4 DEF Pending, JobInv
<1>11. NegotiationInv
  BY <1>1, <1>6, <1>9, <1>10 DEF NegotiationInv
<1> QED BY <1>8, <1>11

LEMMA StepOK ==
  ASSUME TypeOK, NegotiationInv, [Next]_vars PROVE TypeOK' /\ NegotiationInv'
<1>1. ASSUME NEW j \in BagToSet(server), Handle(j) PROVE TypeOK' /\ NegotiationInv'
  BY <1>1, HandleOK DEF Pending
<1>2. ASSUME NEW s \in signals, Receive(s) PROVE TypeOK' /\ NegotiationInv'
  <2>1. /\ s.to \in Roles
        /\ \E e : Good(negs, s.to, e) /\ client' = [client EXCEPT ![s.to] = e]
        /\ signals' = signals \ {s} /\ UNCHANGED <<accepted, negs, server>>
    BY <1>2, ReceiveOK
  <2> QED BY <2>1, ClientStepOK
<1>3. ASSUME NEW r \in Roles, Operate(r) PROVE TypeOK' /\ NegotiationInv'
  BY <1>3, OperateOK, ClientStepOK
<1>4. ASSUME NEW r \in Roles, AskForNegotiation(r) PROVE TypeOK' /\ NegotiationInv'
  BY <1>4, AskForNegotiationOK, ClientStepOK
<1>5. ASSUME NEW r \in Roles, NEW i \in Ids, Gathered(r, i) PROVE TypeOK' /\ NegotiationInv'
  BY <1>5, GatheredOK, ClientStepOK
<1>6. ASSUME NEW r \in Roles, SetHeld(r) PROVE TypeOK' /\ NegotiationInv'
  BY <1>6, SetHeldOK, ClientStepOK
<1>7. ASSUME NEW r \in Tardy, GetInputTrack(r) PROVE TypeOK' /\ NegotiationInv'
  <2>1. r \in Roles
    BY NegotiationAssumption DEF NegotiationAssumption
  <2> QED BY <1>7, <2>1, GetInputTrackOK, ClientStepOK
<1>8. CASE UNCHANGED vars
  <2>1. /\ accepted' = accepted /\ negs' = negs /\ server' = server /\ signals' = signals
        /\ client' = client
    BY <1>8 DEF vars
  <2>2. TypeOK'
    BY <2>1 DEF TypeOK
  <2>3. NegotiationInv'
    BY <2>1 DEF NegotiationInv, Pending
  <2> QED BY <2>2, <2>3
<1> QED BY <1>1, <1>2, <1>3, <1>4, <1>5, <1>6, <1>7, <1>8 DEF Next, ClientStep

(* The invariant, of every behaviour *)
THEOREM NegotiationInvariance == Spec => [](TypeOK /\ NegotiationInv)
<1>1. Init => TypeOK /\ NegotiationInv
  BY InitOK
<1>2. (TypeOK /\ NegotiationInv) /\ [Next]_vars => (TypeOK /\ NegotiationInv)'
  BY StepOK
<1> QED BY <1>1, <1>2, PTL DEF Spec

(* The documents, jobs, signals and clients are what they are taken for:   *)
(* among others, no client knows of more negotiations than there are.      *)
THEOREM NegotiationTypes == Spec => []TypeOK
BY NegotiationInvariance, PTL

(* saveWebrtcSession never stores an answer without an offer, although its *)
(* two updates do not look at each other: only a client that was sent the  *)
(* offer makes an answer.                                                  *)
THEOREM AnswersFollowOffers == Spec => []AnswerFollowsOffer
<1>1. NegotiationInv => AnswerFollowsOffer
  BY DEF NegotiationInv, DocsOK, AnswerFollowsOffer
<1> QED BY NegotiationInvariance, <1>1, PTL

(* A peer connection is only stable with a negotiation whose offer, and on *)
(* the offerer's side whose answer, saveWebrtcSession has stored.          *)
THEOREM AgreementsAreRecorded == Spec => []AgreedIsRecorded
<1>1. TypeOK /\ NegotiationInv => AgreedIsRecorded
  BY DEF NegotiationInv, ClientInv, AgreedInv, AgreedIsRecorded
<1> QED BY NegotiationInvariance, <1>1, PTL

(* processNegotiationNeeded never meets a caller that asks for another     *)
(* negotiation while the latest, which it knows of, is its own and lacks   *)
(* an answer.                                                              *)
THEOREM CallerAsksInPosition == Spec => []AsksInPosition
<1>1. TypeOK /\ NegotiationInv => AsksInPosition
  BY DEF NegotiationInv, JobInv, AsksInPosition, Latest
<1> QED BY NegotiationInvariance, <1>1, PTL

=============================================================================
