------------------------ MODULE PresenceEngineProofs ------------------------
(***************************************************************************)
(* Facts about the resolution of claims, for every user, claim and time.   *)
(***************************************************************************)
EXTENDS PresenceEngine, TLAPS

(* The constants of presenceEngine.ts have their types. *)
LEMMA ConstantTypes ==
  /\ Unclaimed \in Claim /\ NoClaims \in Owner
  /\ Rejected \in Update /\ ResetToOnline \in Update
  BY DEF Unclaimed, NoClaims, Rejected, ResetToOnline, Claim, Owner, Update, Statuses, Sources, Priority

(* A claim that is made is resolved to an update (setActive). *)
LEMMA SetActiveType ==
  ASSUME NEW user \in Owner, NEW new \in Claim, NEW past
  PROVE  SetActive(user, new, past) \in Update
  BY DEF SetActive, Update, Owner, Claim, Rejected, Unclaimed, Display, Keep, Statuses, Sources, Priority

(* So is one that is given up (endActive). *)
LEMMA EndActiveType ==
  ASSUME NEW user \in Owner, NEW id, NEW past
  PROVE  EndActive(user, id, past) \in Update
  BY DEF EndActive, Update, Owner, Claim, Rejected, ResetToOnline, Unclaimed, Display, Keep, Usable,
         Statuses, Sources, Priority

(* What is written has the type of a user's claims. *)
LEMMA WrittenType ==
  ASSUME NEW user \in Owner, NEW update \in Update
  PROVE  Written(user, update) \in Owner
  BY DEF Written, Update, Owner

LEMMA ClaimingType ==
  ASSUME NEW user \in Owner, NEW new \in Claim, NEW past
  PROVE  Claiming(user, new, past) \in Owner
  BY SetActiveType, WrittenType DEF Claiming

LEMMA EndingType ==
  ASSUME NEW user \in Owner, NEW id, NEW past
  PROVE  Ending(user, id, past) \in Owner
  BY EndActiveType, WrittenType DEF Ending

(* A claim that was made over another and then ends gives the status back  *)
(* as it was, unless the other has expired: a call ends and the meeting is *)
(* on display again (setActive stashes, endActive restores).               *)
THEOREM EndRestores ==
  ASSUME NEW user \in Owner, NEW new \in Claim, NEW past,
         Stashes(user, new), SetActive(user, new, past) = Display(new, user.claim),
         user.claim.until \notin past
  PROVE  Ending(Claiming(user, new, past), new.id, past) = [claim |-> user.claim, stash |-> None]
<1> DEFINE claimed == Claiming(user, new, past)
<1>1. claimed = [claim |-> new, stash |-> user.claim]
  BY DEF Claiming, Written, Display
<1>2. user.claim # None
  BY NoPreviousState DEF NoPreviousState, Owner
<1>3. EndActive(claimed, new.id, past) = Display(user.claim, None)
  BY <1>1, <1>2 DEF EndActive, Usable
<1> QED BY <1>1, <1>3 DEF Ending, Written, Display
=============================================================================
