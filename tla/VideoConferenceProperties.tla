--------------------- MODULE VideoConferenceProperties ---------------------
(***************************************************************************)
(* What the members of a video conference can rely on.                     *)
(***************************************************************************)
EXTENDS VideoConference

(* Documents, claims, handlers and timers have their types, and only a     *)
(* member in the call has a lease that can run out.                        *)
TypeOK ==
    /\ calls \in [Calls -> Call] /\ \A c \in Calls : calls[c].lapsed \subseteq In(c)
    /\ windows \subseteq Users \X Calls
    /\ presence \in [Users -> Owner]
    /\ tasks \in [Handlers -> Task]
    /\ graces \in [Calls -> Nat]
    /\ rings \subseteq Direct
    /\ crashes \in 0..MaxCrashes

Left(c) == {u \in Users : calls[c].users[u] \in {"reported", "timeout"}}
Closed(c) == \A u \in Users : <<u, c>> \notin windows

(* No handler works for the user. *)
Quiet(u) == \A t \in Handlers : tasks[t].user # u /\ u \notin tasks[t].todo
HasClaim(u) == presence[u].claim.id = "video-conference"

-----------------------------------------------------------------------------
(* Safety *)

(* Whoever is in a running call is busy, however joins, sweeps, revivals   *)
(* and ends of the call interleave, unless an instance died in between.    *)
(* Only users whose departures are inferred and who have taken part in no  *)
(* other call: a sweep that read a call before a reported leave, be it by  *)
(* the join of another call, releases the claim that is made after it      *)
(* (claimBusyForCall, releaseBusyForCall).                                 *)
PresentIsBusy ==
    crashes = 0 =>
      \A u \in Users \ Reporters :
        /\ Quiet(u)
        /\ \E c \in Calls :
             /\ ~calls[c].over /\ u \in In(c)
             /\ \A d \in Calls \ {c} : calls[d].users[u] \in {"none", "invited"}
        => HasClaim(u)

(* "A user is in one call at a time" (addUserToCall), as far as joins go: a *)
(* join leaves the user's other calls, whatever sweeps, cancellations and  *)
(* ends do between its steps, and only a renewal brings somebody back into *)
(* a call while in another one.  It needs one request at a time: neither   *)
(* of two joins that are handled at once sees the other.                   *)
JoinLeavesOthers ==
    [][\A u \in Users, c, d \in Calls :
         /\ c # d /\ Running(d) /\ u \in In(d)
         /\ u \notin In(c) /\ u \in In(c)'
         => calls[c].users[u] = "timeout"]_vars

(* While a direct call rings unanswered, its cancellation is pending or    *)
(* under way: answering and cancelling cannot both miss (startDirect's     *)
(* timer, cancel, updateDirectCall).                                       *)
Cancelling(t, c) == tasks[t].call = c /\ tasks[t].step \in {"cancel", "cancelWrite"}
UnansweredIsCancelled ==
    crashes = 0 =>
      \A c \in Direct :
        calls[c].status = "calling" /\ ~calls[c].over =>
          c \in rings \/ \E t \in Handlers : Cancelling(t, c)

-----------------------------------------------------------------------------
(* Liveness *)

(* A member whose window is gone does not stay in the call, even if an     *)
(* instance dies between any two steps: the sweep finds whom nobody        *)
(* reported (expirePresenceLeases).                                        *)
AbandonedMemberLeaves ==
    \A c \in Calls, u \in Users :
      Running(c) /\ u \in In(c) /\ <<u, c>> \notin windows
        ~> ~Running(c) \/ u \notin In(c) \/ <<u, c>> \in windows

(* A departure is reported, or being reported. *)
Reported(c) ==
    \/ \E u \in Users : calls[c].users[u] = "reported"
    \/ \E t \in Handlers : tasks[t].call = c /\ tasks[t].step \in {"leave", "setLeft"}

(* A call that everybody abandons without a word ends: its members are     *)
(* given up on one by one and in any order, and the sweep that finds the   *)
(* last of them ends the call (expirePresenceLeases).                      *)
SilentCallEnds ==
    \A c \in Calls :
      Running(c) /\ Left(c) # {} /\ Closed(c) /\ ~Reported(c) /\ crashes = 0
        ~> calls[c].over \/ ~Closed(c) \/ Reported(c) \/ crashes > 0
=============================================================================
