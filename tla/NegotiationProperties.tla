----------------------- MODULE NegotiationProperties -----------------------
(***************************************************************************)
(* What the exchange of descriptions modelled in Negotiation promises, and *)
(* what a comment of its code says of it that does not hold.               *)
(***************************************************************************)
EXTENDS Negotiation

Pending == BagToSet(server)

Latest == negs[Len(negs)]

(* Nothing is on its way and both clients have done all they had to do. *)
Quiet == /\ server = EmptyBag
         /\ signals = {}
         /\ \A r \in Roles : /\ client[r].ready
                             /\ client[r].chain = << >>
                             /\ client[r].gathering = {}

(***************************************************************************)
(* When both users put the call on hold                                    *)
(***************************************************************************)

(* The two conditional updates of saveWebrtcSession know nothing of each   *)
(* other; still a negotiation never has an answer without an offer, in     *)
(* whatever order the signals of the two clients are handled.              *)
AnswerFollowsOffer == \A n \in 1..Len(negs) : negs[n].answer => negs[n].offer

(* A peer connection is only ever stable with a negotiation that the       *)
(* server has: its offer, and on the offerer's side its answer too.        *)
AgreedIsRecorded ==
    \A r \in Roles :
        LET n == client[r].agreed IN
        n > 0 => negs[n].offer /\ (negs[n].offerer = r => negs[n].answer)

(* "If the request came from the same side as the last negotiation, the    *)
(* client was in no position to request it" (processNegotiationNeeded):    *)
(* the first of the two errors is never met by the caller.  Its client, if *)
(* it knows of the latest negotiation and offers it, asks for no other     *)
(* before the answer, in whatever order negotiations, rollbacks and        *)
(* answers reach its connection.  The callee's client may, after five      *)
(* holds: once currentNegotiation was reset (CurrentUntilCompleted), its   *)
(* own next negotiation is begun while it still answers the caller's, and  *)
(* the connection refuses its offer.                                       *)
AsksInPosition ==
    \A j \in Pending :
        j.step = "needed" /\ j.role = "caller" /\ j.id = Len(negs) /\ Latest.offerer = j.role
            => Latest.answer

(***************************************************************************)
(* When one of them does                                                   *)
(***************************************************************************)

(* The two connections end up stable with the same negotiation, whether    *)
(* the callee accepts before or after the first offer is saved and however *)
(* late the microphones are there.                                         *)
PeersAgree == Quiet => /\ client["caller"].agreed = client["callee"].agreed
                       /\ \A r \in Roles : client[r].peer = "stable"

(* No connection goes back to an older negotiation, while a client has one *)
(* request for a negotiation on its way.  From the third hold on it may    *)
(* have two; both are granted, and their offers may be requested the other *)
(* way round, which the two clients then take for the order.               *)
AgreementsAdvance == [][\A r \in Roles : client'[r].agreed >= client[r].agreed]_client

(* Both sides get connected: the first offer reaches the callee by one of  *)
(* the two ways there are, through acceptCall or through saveWebrtcSession. *)
FirstExchange == <>(\A r \in Roles : client[r].agreed > 0)

(* A direction that the caller's connection was asked for is negotiated in *)
(* the end.                                                                *)
CallerIsHeard ==
    client["caller"].direction # client["caller"].negotiated
        ~> client["caller"].direction = client["caller"].negotiated

(***************************************************************************)
(* What a comment says, and the code does not do                           *)
(***************************************************************************)

(* "negotiation actively being processed, null once completed"             *)
(* (currentNegotiation): a negotiation that has operations of the peer     *)
(* connection in flight, and has not ended, is the current one.            *)
CurrentUntilCompleted ==
    \A r \in Roles :
        LET m == client[r] IN
        \A k \in 1..Len(m.chain) : Active(m, m.chain[k].at) => m.current = m.chain[k].at
=============================================================================
