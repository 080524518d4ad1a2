--------------------------- MODULE PresenceEngine ---------------------------
(***************************************************************************)
(* How claims on a user's status are resolved (presenceEngine.ts): pure    *)
(* operators, shared by the presence service and by the services that make *)
(* claims.  A user displays one claim and keeps at most one more, the      *)
(* previousState, to return to.                                            *)
(***************************************************************************)
EXTENDS Naturals

CONSTANTS
    ClaimIds,   \* the values of statusId
    Moments,    \* the values of statusExpiresAt
    None        \* the absence of either, and of a previousState

ASSUME EngineAssumption == None \notin ClaimIds \cup Moments

Statuses == {"online", "away", "busy", "offline"}

(* A smaller number is a higher priority. *)
Priority == [internal |-> 1, manual |-> 2, external |-> 3, none |-> 4]
Sources == DOMAIN Priority

Claim == [default : Statuses, source : Sources, id : ClaimIds \cup {None},
          until : Moments \cup {None}]

ASSUME NoPreviousState == None \notin Claim

Owner == [claim : Claim, stash : Claim \cup {None}]

Unclaimed == [default |-> "online", source |-> "none", id |-> None, until |-> None]

NoClaims == [claim |-> Unclaimed, stash |-> None]

(* A claim update is resolved into the fields of the user that are set or  *)
(* unset, those of the displayed claim or those of the other; Rejected is  *)
(* neither.                                                                *)
Update == [claim : Claim, stash : Claim \cup {None}, sets : SUBSET {"claim", "stash"}]

Rejected == [claim |-> Unclaimed, stash |-> None, sets |-> {}]
ResetToOnline == [Rejected EXCEPT !.sets = {"claim", "stash"}]
Display(claim, stash) == [claim |-> claim, stash |-> stash, sets |-> {"claim", "stash"}]
Keep(stash) == [claim |-> Unclaimed, stash |-> stash, sets |-> {"stash"}]

Written(user, update) ==
    [claim |-> IF "claim" \in update.sets THEN update.claim ELSE user.claim,
     stash |-> IF "stash" \in update.sets THEN update.stash ELSE user.stash]

HasId(stash, id) == stash # None /\ stash.id = id

(* What is stashed can be used at a time when the moments of past are over. *)
Usable(stash, past) == stash # None /\ stash.until \notin past

(* A bug to find: only the displayed claim is looked at. *)
EndDisplayed(user, id, past) ==
    IF id # None /\ user.claim.id # id THEN Rejected
    ELSE IF Usable(user.stash, past) THEN Display(user.stash, None)
    ELSE ResetToOnline

EndActive(user, id, past) ==
    IF id # None /\ user.claim.id # id
    THEN IF HasId(user.stash, id) THEN Keep(None) ELSE Rejected
    ELSE IF Usable(user.stash, past) THEN Display(user.stash, None)
    ELSE ResetToOnline

(* Nothing is stashed under a manual claim, and of equals only internal     *)
(* ones stack.                                                             *)
Stashes(user, new) ==
    /\ new.source # "manual" /\ user.claim.source # "none"
    /\ new.source # user.claim.source \/ new.source = "internal"

SetActive(user, new, past) ==
    LET cur == user.claim
    IN  IF cur.default = "offline" /\ new.source # "manual" THEN Rejected
        ELSE IF Priority[new.source] <= Priority[cur.source]
        THEN IF Stashes(user, new) THEN Display(new, cur)
             ELSE IF new.source = "manual" THEN Display(new, None)
             ELSE [Display(new, None) EXCEPT !.sets = {"claim"}]
        ELSE IF \/ ~Usable(user.stash, past)
                \/ Priority[new.source] <= Priority[user.stash.source]
        THEN Keep(new)
        ELSE Rejected

(* What is stored if nothing interferes *)
Claiming(user, new, past) == Written(user, SetActive(user, new, past))
Ending(user, id, past) == Written(user, EndActive(user, id, past))
=============================================================================
