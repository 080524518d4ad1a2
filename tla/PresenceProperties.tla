-------------------------- MODULE PresenceProperties --------------------------
(***************************************************************************)
(* What others can rely on, although the calls of the service overlap.     *)
(***************************************************************************)
EXTENDS Presence

(* The user, the recorded connections and the calls have their types: a    *)
(* stashed claim is a claim, and no job is scheduled for no time.          *)
TypeOK ==
    /\ user \in Owner /\ status \in Statuses
    /\ conns \in [Connections -> {"online", "away", None}] /\ stale \subseteq Recorded
    /\ clients \in [Connections -> {"new", "open", "closed"}] /\ down \subseteq Nodes
    /\ now \in 0..Max(Moments \cup {0}) + 1
    /\ workers \in [Workers -> Worker]
    /\ token \in Workers \cup {None} /\ jobs \subseteq Moments /\ plan \subseteq Connections
    /\ events \in 0..MaxEvents /\ made \subseteq Claims /\ ended \subseteq made
    /\ {cleared, outdated, overlapped} \subseteq BOOLEAN

Quiet == \A w \in Workers : workers[w].step \in {"idle", "take token", "find next", "remove job", "add job"}

(* When no update is on its way, the status is that of the displayed claim *)
(* and of the connections recorded, unless the last update relied on reads *)
(* that had changed before it wrote: then, and only then, one update has   *)
(* overwritten another (updateUserPresence reads, awaits and writes).      *)
SettledStatus ==
    Quiet /\ ~outdated =>
      \/ status = Status(user.claim, "connection")
      \/ cleared /\ Recorded = {} /\ status = "online"

(* The ids of the calls that the user is in *)
InCalls == {c.id : c \in {c \in made \ ended : c.source = "internal"}}
Displayed(c) == IF c # None /\ c.source = "internal" THEN {c.id} ELSE {}
Shown(owner) == Displayed(owner.claim) \cup Displayed(owner.stash)

(* The user is busy for the calls that the user is in and for no other, in *)
(* whatever order calls and other claims begin and end (endActiveState),   *)
(* as long as no two such updates overlap.                                  *)
ClaimsFollowCalls ==
    Quiet /\ ~overlapped => Shown(user) = InCalls

(* The claims of services, for a user who does not choose to be shown as   *)
(* offline: a call claims for no limited time, under an id that no other   *)
(* claim has (claimBusyForCall).                                           *)
OrdinaryClaims ==
    \A c \in Claims :
      /\ c.default # "offline"
      /\ c.source = "internal" => c.until = None /\ \A d \in Claims : d.id = c.id => d = c

(* What is on display and what is under it: there is no room for a third.  *)
AtMostTwoCalls == \A a, b, c \in InCalls : a = b \/ b = c \/ a = c

(* When a claim expires, the claim under it is displayed: however many     *)
(* runs of the job and ends of the same claim there are, they take one     *)
(* claim only (the filter of updatePresenceAndStatus).                     *)
ExpiryEndsOne ==
    [][\A w \in Workers :
         /\ workers[w].step = "write" /\ workers[w].update.kind = "expire"
         /\ workers'[w].step # "write" /\ user' # user
         => user.claim.until \in Past]_vars

(* A claim does not stay on display after its time.                        *)
ExpiredEnds ==
    \A m \in Moments : user.claim.until = m /\ m \in Past ~> user.claim.until # m

(* A user with an open connection is not shown as offline for ever, even   *)
(* after an outdated write; but those who choose to be offline are.        *)
Present(k) == IsOpen(k) /\ conns[k] # None
ConnectedIsShown ==
    \A k \in Connections :
      <>[](Present(k) /\ user.claim.default # "offline") => <>[](status # "offline")

(* A connection that was closed does not stay recorded, though its node    *)
(* died or its removal overtook its addition.                              *)
ClosedIsRemoved == \A k \in Connections : clients[k] = "closed" /\ conns[k] # None ~> conns[k] = None
=============================================================================
