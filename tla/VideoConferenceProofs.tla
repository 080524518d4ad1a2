----------------------- MODULE VideoConferenceProofs -----------------------
(***************************************************************************)
(* For every set of users, calls and handlers, and every choice of who     *)
(* reports, freezes or crashes:                                            *)
(*                                                                         *)
(*   - types, and that a ringing call is always about to be cancelled: a   *)
(*     step writes one document and moves one handler, and only the steps  *)
(*     of a cancellation drop one, once the call is answered or over;      *)
(*   - that who is in a call is busy: claims are counted, the ones made    *)
(*     and the ones that a handler is about to make, against the release   *)
(*     that the sweep still owes;                                          *)
(*   - that a join leaves the other calls of its user: what is left of     *)
(*     them is always among the calls that it has yet to leave.            *)
(*                                                                         *)
(* The last two rest on what a handler's state says of what was: no handler*)
(* forgets which calls exist and whom they have had as members.            *)
(***************************************************************************)
EXTENDS VideoConferenceProperties, PresenceEngineProofs

(* Beside its type: a busy handler serves a call; only a leave remembers a *)
(* join to resume, and then its loop is over calls; the sweep's is over    *)
(* users.                                                                  *)
TaskInv(k) ==
    /\ k.step # "idle" => k.call \in Calls
    /\ k.resume # None => k.step \in {"leave", "setLeft", "release"} /\ k.todo \subseteq Calls
    /\ k.step \in {"sweepMark", "sweepRelease"} => k.todo \subseteq Users

TasksOK == tasks \in [Handlers -> Task] /\ \A t \in Handlers : TaskInv(tasks[t])

LeasesOK == \A c \in Calls : calls[c].lapsed \subseteq In(c)

IInv == TypeOK /\ TasksOK /\ UnansweredIsCancelled

Ringing(c) == calls[c].status = "calling" /\ ~calls[c].over

(* What a step may do to the handlers: it moves t. *)
Moves(t) == TasksOK' /\ \A s \in Handlers \ {t} : tasks'[s] = tasks[s]

(* What most writes do to the documents: no call begins to ring. *)
RingsNoNew == calls' \in [Calls -> Call] /\ LeasesOK' /\ \A c \in Calls : Ringing(c)' => Ringing(c)

NotCancelling(t) == tasks[t].step \notin {"cancel", "cancelWrite"}

-----------------------------------------------------------------------------
(* Claims                                                                  *)

(* A claim by a call has the type of claims. *)
LEMMA OnACallType == OnACall \in Claim
  BY VideoConferenceAssumption DEF VideoConferenceAssumption, OnACall, Claim, Statuses, Sources, Priority

(* Claiming and releasing the status of a user keep the type. *)
LEMMA PresenceType ==
  ASSUME presence \in [Users -> Owner], NEW u, ClaimBusy(u) \/ ReleaseBusy(u)
  PROVE  presence' \in [Users -> Owner]
  BY ClaimingType, EndingType, OnACallType DEF ClaimBusy, ReleaseBusy

-----------------------------------------------------------------------------
(* Handlers                                                                *)

(* A handler that gets a proper value moves, and no other does. *)
LEMMA Moved ==
  ASSUME TasksOK, NEW t \in Handlers, NEW k \in Task, TaskInv(k), tasks' = [tasks EXCEPT ![t] = k]
  PROVE  Moves(t) /\ tasks'[t] = k
  BY DEF TasksOK, Moves

LEMMA IdleIsProper == Idle \in Task /\ TaskInv(Idle)
  BY DEF Idle, Task, TaskInv, Steps, Nothing, Seen

(* What a handler sees of a call has the type of that. *)
LEMMA SeeType ==
  ASSUME NEW c
  PROVE  See(c) \in Seen
  BY DEF See, Seen, In

LEMMA BeginMoves ==
  ASSUME TasksOK, NEW t \in Handlers, NEW step \in Steps \ {"sweepMark", "sweepRelease"},
         NEW c \in Calls, NEW u \in Users \cup {None}, Begin(t, step, c, u)
  PROVE  Moves(t) /\ NotCancelling(t) /\ tasks'[t].step = step /\ tasks'[t].call = c
<1> DEFINE k == [Idle EXCEPT !.step = step, !.call = c, !.user = u]
<1>1. k \in Task /\ TaskInv(k) /\ k.step = step /\ k.call = c
  BY DEF Idle, Task, TaskInv, Nothing, Seen
<1>2. tasks' = [tasks EXCEPT ![t] = k]
  BY DEF Begin
<1> HIDE DEF k
<1>3. Moves(t) /\ tasks'[t] = k
  BY <1>1, <1>2, Moved
<1>4. NotCancelling(t)
  BY DEF Begin, At, NotCancelling
<1> QED BY <1>1, <1>3, <1>4

(* Only a leave goes on with a join to resume, and only the sweep sweeps. *)
LEMMA GoMoves ==
  ASSUME TasksOK, NEW t \in Handlers, NEW step \in Steps, ~At(t, "idle"), Go(t, step),
         tasks[t].resume = None \/ step \in {"leave", "setLeft", "release"},
         step \in {"sweepMark", "sweepRelease"} => tasks[t].todo \subseteq Users
  PROVE  Moves(t) /\ tasks'[t].step = step /\ tasks'[t].call = tasks[t].call
<1> DEFINE k == [tasks[t] EXCEPT !.step = step]
<1>1. k \in Task /\ TaskInv(k) /\ k.step = step /\ k.call = tasks[t].call
  BY DEF TasksOK, Task, TaskInv, At
<1>2. tasks' = [tasks EXCEPT ![t] = k]
  BY DEF Go
<1> HIDE DEF k
<1> QED BY <1>1, <1>2, Moved

LEMMA GoSeeingMoves ==
  ASSUME TasksOK, NEW t \in Handlers, NEW step \in Steps \ {"sweepMark", "sweepRelease"},
         ~At(t, "idle"), NEW seen \in Seen, GoSeeing(t, step, seen),
         tasks[t].resume = None \/ step \in {"leave", "setLeft", "release"}
  PROVE  Moves(t)
<1> DEFINE k == [tasks[t] EXCEPT !.step = step, !.seen = seen]
<1>1. k \in Task /\ TaskInv(k)
  BY DEF TasksOK, Task, TaskInv, At
<1>2. tasks' = [tasks EXCEPT ![t] = k]
  BY DEF GoSeeing, TasksOK
<1> HIDE DEF k
<1> QED BY <1>1, <1>2, Moved

LEMMA FinishMoves ==
  ASSUME TasksOK, NEW t \in Handlers, Finish(t)
  PROVE  Moves(t) /\ tasks'[t] = Idle
  BY IdleIsProper, Moved DEF Finish

LEMMA LeaveForMoves ==
  ASSUME TasksOK, NEW t \in Handlers, NEW join \in [call : Calls, seen : Seen],
         NEW others \in SUBSET Calls, LeaveFor(t, join, others)
  PROVE  Moves(t)
<1>1. PICK c \in others :
        tasks' = [tasks EXCEPT ![t] =
          [@ EXCEPT !.step = "leave", !.call = c, !.todo = others \ {c}, !.resume = join]]
  BY DEF LeaveFor
<1> DEFINE k == [tasks[t] EXCEPT !.step = "leave", !.call = c, !.todo = others \ {c}, !.resume = join]
<1>2. k \in Task /\ TaskInv(k)
  BY DEF TasksOK, Task, TaskInv, Steps
<1>3. tasks' = [tasks EXCEPT ![t] = k]
  BY <1>1
<1> HIDE DEF k
<1> QED BY <1>2, <1>3, Moved

LEMMA FinishLeaveMoves ==
  ASSUME TasksOK, NEW t \in Handlers, FinishLeave(t)
  PROVE  Moves(t)
<1> DEFINE task == tasks[t]
<1>0. task \in Task /\ TaskInv(task)
  BY DEF TasksOK
<1>1. CASE task.resume = None
  BY <1>1, FinishMoves DEF FinishLeave
<1>2. CASE task.resume # None /\ task.todo # {}
  <2>1. task.resume \in [call : Calls, seen : Seen] /\ task.todo \in SUBSET Calls
    BY <1>0, <1>2 DEF Task, TaskInv
  <2> QED BY <1>2, <2>1, LeaveForMoves DEF FinishLeave
<1>3. CASE task.resume # None /\ task.todo = {}
  <2> DEFINE k == [task EXCEPT !.step = "addMember", !.call = task.resume.call,
                               !.seen = task.resume.seen, !.resume = None]
  <2>1. k \in Task /\ TaskInv(k)
    BY <1>0, <1>3 DEF Task, TaskInv, Steps
  <2>2. tasks' = [tasks EXCEPT ![t] = k]
    BY <1>3 DEF FinishLeave
  <2> HIDE DEF k
  <2> QED BY <2>1, <2>2, Moved
<1> QED BY <1>1, <1>2, <1>3

-----------------------------------------------------------------------------
(* Documents                                                               *)

(* An entry that changes begins no ringing. *)
LEMMA SetUserRings ==
  ASSUME calls \in [Calls -> Call], LeasesOK, NEW c, NEW u, NEW entry \in Entries, SetUser(c, u, entry)
  PROVE  RingsNoNew
<1> DEFINE d(x) == [calls[x] EXCEPT !.users[u] = entry, !.lapsed = @ \ {u}]
<1>1. ASSUME NEW x \in Calls
      PROVE  /\ d(x) \in Call /\ d(x).status = calls[x].status /\ d(x).over = calls[x].over
             /\ d(x).lapsed \subseteq {v \in Users : d(x).users[v] = "in"}
  <2>1. calls[x] \in Call
    OBVIOUS
  <2>2. calls[x].lapsed \subseteq {v \in Users : calls[x].users[v] = "in"}
    BY DEF LeasesOK, In
  <2> QED BY <2>1, <2>2 DEF Call
<1>2. \A x \in Calls : calls'[x] = IF x = c THEN d(x) ELSE calls[x]
  BY DEF SetUser
<1>3. calls' = [x \in Calls |-> calls'[x]]
  BY DEF SetUser
<1> HIDE DEF d
<1>4. calls' \in [Calls -> Call]
  BY <1>1, <1>2, <1>3
<1>5. LeasesOK' /\ \A x \in Calls : Ringing(x)' => Ringing(x)
  BY <1>1, <1>2 DEF LeasesOK, In, Ringing
<1> QED BY <1>4, <1>5 DEF RingsNoNew

(* So does an invitation. *)
LEMMA EnsureMemberRings ==
  ASSUME calls \in [Calls -> Call], LeasesOK, NEW c, NEW u, EnsureMember(c, u)
  PROVE  RingsNoNew
<1> DEFINE d(x) == [calls[x] EXCEPT !.users[u] = IF @ = "none" THEN "invited" ELSE @]
<1>1. ASSUME NEW x \in Calls
      PROVE  /\ d(x) \in Call /\ d(x).status = calls[x].status /\ d(x).over = calls[x].over
             /\ d(x).lapsed \subseteq {v \in Users : d(x).users[v] = "in"}
  <2>1. calls[x] \in Call
    OBVIOUS
  <2>2. calls[x].lapsed \subseteq {v \in Users : calls[x].users[v] = "in"}
    BY DEF LeasesOK, In
  <2> QED BY <2>1, <2>2 DEF Call, Entries
<1>2. \A x \in Calls : calls'[x] = IF x = c THEN d(x) ELSE calls[x]
  BY DEF EnsureMember
<1>3. calls' = [x \in Calls |-> calls'[x]]
  BY DEF EnsureMember
<1> HIDE DEF d
<1>4. calls' \in [Calls -> Call]
  BY <1>1, <1>2, <1>3
<1>5. LeasesOK' /\ \A x \in Calls : Ringing(x)' => Ringing(x)
  BY <1>1, <1>2 DEF LeasesOK, In, Ringing
<1> QED BY <1>4, <1>5 DEF RingsNoNew

(* A call that is over does not ring. *)
LEMMA SetOverRings ==
  ASSUME calls \in [Calls -> Call], LeasesOK, NEW c, NEW status \in {"declined", "ended", "expired"},
         SetOver(c, status)
  PROVE  RingsNoNew /\ (c \in Calls => ~Ringing(c)')
<1> DEFINE d(x) == [calls[x] EXCEPT !.status = status, !.over = TRUE]
<1>1. ASSUME NEW x \in Calls
      PROVE  d(x) \in Call /\ d(x).over /\ d(x).users = calls[x].users /\ d(x).lapsed = calls[x].lapsed
  BY DEF Call
<1>2. \A x \in Calls : calls'[x] = IF x = c THEN d(x) ELSE calls[x]
  BY DEF SetOver
<1>3. calls' = [x \in Calls |-> calls'[x]]
  BY DEF SetOver
<1> HIDE DEF d
<1>4. calls' \in [Calls -> Call]
  BY <1>1, <1>2, <1>3
<1>5. LeasesOK' /\ \A x \in Calls : Ringing(x)' => Ringing(x)
  BY <1>1, <1>2 DEF LeasesOK, In, Ringing
<1>6. c \in Calls => ~Ringing(c)'
  BY <1>1, <1>2 DEF Ringing
<1> QED BY <1>4, <1>5, <1>6 DEF RingsNoNew

LEMMA UnchangedRings ==
  ASSUME calls \in [Calls -> Call], LeasesOK, UNCHANGED calls
  PROVE  RingsNoNew
  BY DEF LeasesOK, In, RingsNoNew, Ringing

(* The ringing calls are about to be cancelled still, if one handler moves *)
(* that was not cancelling, and no call begins to ring.                    *)
LEMMA StillCancelled ==
  ASSUME IInv, RingsNoNew, NEW t \in Handlers, Moves(t), NotCancelling(t),
         UNCHANGED <<rings, crashes>>
  PROVE  TasksOK' /\ UnansweredIsCancelled'
<1> SUFFICES ASSUME crashes = 0, NEW c \in Direct, Ringing(c)'
             PROVE  c \in rings \/ \E s \in Handlers : Cancelling(s, c)'
  BY DEF Moves, UnansweredIsCancelled, Ringing
<1>1. c \in Calls /\ Ringing(c)
  BY VideoConferenceAssumption DEF VideoConferenceAssumption, RingsNoNew
<1>2. c \in rings \/ \E s \in Handlers : Cancelling(s, c)
  BY <1>1 DEF IInv, UnansweredIsCancelled, Ringing
<1>3. ASSUME NEW s \in Handlers, Cancelling(s, c)
      PROVE  Cancelling(s, c)'
  BY <1>3 DEF Moves, Cancelling, NotCancelling
<1> QED BY <1>2, <1>3

LEMMA StillCancelledIdle ==
  ASSUME IInv, RingsNoNew, UNCHANGED <<tasks, rings, crashes>>
  PROVE  TasksOK' /\ UnansweredIsCancelled'
<1> SUFFICES ASSUME crashes = 0, NEW c \in Direct, Ringing(c)'
             PROVE  c \in rings \/ \E s \in Handlers : Cancelling(s, c)'
  BY DEF IInv, TasksOK, UnansweredIsCancelled, Ringing
<1>1. c \in Calls /\ Ringing(c)
  BY VideoConferenceAssumption DEF VideoConferenceAssumption, RingsNoNew
<1> QED BY <1>1 DEF IInv, UnansweredIsCancelled, Ringing, Cancelling

(* The rest of the types follows from these. *)
LEMMA TypesFollow ==
  ASSUME RingsNoNew, TasksOK', (windows \subseteq Users \X Calls)', (presence \in [Users -> Owner])',
         (graces \in [Calls -> Nat])', (rings \subseteq Direct)', (crashes \in 0..MaxCrashes)'
  PROVE  TypeOK'
  BY DEF RingsNoNew, LeasesOK, TasksOK, TypeOK

-----------------------------------------------------------------------------
(* The handlers' steps                                                     *)

(* A step of a handler, by what it does with its own state. *)
LEMMA HandleMoves ==
  ASSUME IInv, NEW t \in Handlers, Handle(t)
  PROVE  Moves(t)
<1> USE DEF IInv, At
<1>0. tasks[t] \in Task /\ TaskInv(tasks[t])
  BY DEF TasksOK
<1>1. CASE AddUser(t)
  BY <1>0, <1>1, GoSeeingMoves, SeeType DEF AddUser, Steps, TaskInv
<1>2. CASE LeaveOthers(t)
  <2> DEFINE others == {c \in Calls \ {tasks[t].call} : Running(c) /\ tasks[t].user \in In(c)}
  <2>1. CASE others = {}
    BY <1>0, <1>2, <2>1, GoMoves DEF LeaveOthers, Steps, TaskInv
  <2>2. CASE others # {}
    <3>1. [call |-> tasks[t].call, seen |-> tasks[t].seen] \in [call : Calls, seen : Seen]
      BY <1>0, <1>2 DEF LeaveOthers, TaskInv, Task
    <3> QED BY <1>2, <2>2, <3>1, LeaveForMoves DEF LeaveOthers
  <2> QED BY <2>1, <2>2
<1>3. CASE AddMember(t)
  BY <1>0, <1>3, GoMoves, FinishMoves DEF AddMember, Steps, TaskInv
<1>4. CASE SetJoined(t)
  BY <1>0, <1>4, GoMoves DEF SetJoined, Steps, TaskInv
<1>5. CASE SetBusy(t)
  BY <1>0, <1>5, GoMoves, FinishMoves DEF SetBusy, Steps, TaskInv
<1>6. CASE Answer(t)
  BY <1>6, FinishMoves DEF Answer
<1>7. CASE Leave(t)
  BY <1>7, GoSeeingMoves, FinishLeaveMoves, SeeType DEF Leave, Steps
<1>8. CASE SetLeft(t)
  BY <1>8, GoMoves DEF SetLeft, Steps
<1>9. CASE Release(t)
  BY <1>9, FinishLeaveMoves DEF Release
<1>10. CASE Renew(t)
  BY <1>0, <1>10, GoMoves, FinishMoves DEF Renew, Steps, TaskInv
<1>11. CASE Reclaim(t)
  BY <1>11, FinishMoves DEF Reclaim
<1>12. CASE End(t)
  BY <1>0, <1>12, GoSeeingMoves, SeeType DEF End, Steps, TaskInv
<1>13. CASE EndWrite(t)
  <2>1. CASE tasks[t].seen.in = {}
    BY <1>13, <2>1, FinishMoves DEF EndWrite
  <2>2. CASE tasks[t].seen.in # {}
    <3> DEFINE k == [tasks[t] EXCEPT !.step = "endRelease", !.todo = tasks[t].seen.in]
    <3>1. k \in Task /\ TaskInv(k)
      BY <1>0, <1>13 DEF EndWrite, Task, TaskInv, Steps, Seen
    <3>2. tasks' = [tasks EXCEPT ![t] = k]
      BY <1>13, <2>2 DEF EndWrite, TasksOK
    <3> HIDE DEF k
    <3> QED BY <3>1, <3>2, Moved
  <2> QED BY <2>1, <2>2
<1>14. CASE EndRelease(t)
  <2>1. PICK u \in tasks[t].todo :
          IF tasks[t].todo = {u} THEN Finish(t)
          ELSE tasks' = [tasks EXCEPT ![t].todo = @ \ {u}]
    BY <1>14 DEF EndRelease
  <2>2. CASE tasks[t].todo = {u}
    BY <2>1, <2>2, FinishMoves
  <2>3. CASE tasks[t].todo # {u}
    <3> DEFINE k == [tasks[t] EXCEPT !.todo = @ \ {u}]
    <3>1. k \in Task /\ TaskInv(k)
      BY <1>0, <1>14 DEF EndRelease, Task, TaskInv
    <3>2. tasks' = [tasks EXCEPT ![t] = k]
      BY <2>1, <2>3
    <3> HIDE DEF k
    <3> QED BY <3>1, <3>2, Moved
  <2> QED BY <2>2, <2>3
<1>15. CASE Cancel(t)
  BY <1>0, <1>15, GoMoves, FinishMoves DEF Cancel, Steps, TaskInv
<1>16. CASE CancelWrite(t)
  BY <1>16, FinishMoves DEF CancelWrite
<1>17. CASE Expire(t)
  BY <1>17, FinishMoves DEF Expire
<1> QED BY <1>1, <1>2, <1>3, <1>4, <1>5, <1>6, <1>7, <1>8, <1>9, <1>10, <1>11, <1>12, <1>13,
           <1>14, <1>15, <1>16, <1>17 DEF Handle

(* A step of a handler, by what it does with the documents. *)
LEMMA HandleRings ==
  ASSUME IInv, NEW t \in Handlers, Handle(t)
  PROVE  RingsNoNew
<1>0. calls \in [Calls -> Call] /\ LeasesOK
  BY DEF IInv, TypeOK, LeasesOK
<1>1. CASE UNCHANGED calls
  BY <1>0, <1>1, UnchangedRings
<1>2. CASE AddMember(t)
  BY <1>0, <1>1, <1>2, EnsureMemberRings DEF AddMember
<1>3. CASE SetJoined(t) \/ SetLeft(t)
  BY <1>0, <1>3, SetUserRings DEF SetJoined, SetLeft, Entries
<1>4. CASE Answer(t)
  <2>1. CASE calls' = [calls EXCEPT ![tasks[t].call].status = "started"]
    <3> DEFINE d(x) == [calls[x] EXCEPT !.status = "started"]
    <3>1. ASSUME NEW x \in Calls
          PROVE  /\ d(x) \in Call /\ d(x).status = "started"
                 /\ d(x).users = calls[x].users /\ d(x).lapsed = calls[x].lapsed
      BY <1>0 DEF Call
    <3>2. \A x \in Calls : calls'[x] = IF x = tasks[t].call THEN d(x) ELSE calls[x]
      BY <1>0, <2>1
    <3>3. calls' = [x \in Calls |-> calls'[x]]
      BY <1>0, <2>1
    <3> HIDE DEF d
    <3>4. calls' \in [Calls -> Call]
      BY <1>0, <3>1, <3>2, <3>3
    <3>5. LeasesOK' /\ \A x \in Calls : Ringing(x)' => Ringing(x)
      BY <1>0, <3>1, <3>2 DEF LeasesOK, In, Ringing
    <3> QED BY <3>4, <3>5 DEF RingsNoNew
  <2> QED BY <1>1, <1>4, <2>1 DEF Answer
<1>5. CASE Renew(t)
  <2> DEFINE c == tasks[t].call
             u == tasks[t].user
  <2>1. CASE Renewable(c, u)
    <3>1. (IF calls[c].users[u] = "timeout" THEN "in" ELSE calls[c].users[u]) \in Entries
      BY <2>1 DEF Renewable, Entries
    <3> QED BY <1>0, <1>5, <2>1, <3>1, SetUserRings DEF Renew
  <2> QED BY <1>1, <1>5, <2>1 DEF Renew
<1>6. CASE EndWrite(t) \/ CancelWrite(t) \/ Expire(t)
  BY <1>0, <1>6, SetOverRings DEF EndWrite, CancelWrite, Expire
<1> QED BY <1>1, <1>2, <1>3, <1>4, <1>5, <1>6
      DEF Handle, AddUser, LeaveOthers, SetBusy, Leave, Release, Reclaim, End, EndRelease, Cancel

(* A step of a handler keeps the other types. *)
LEMMA HandleTypes ==
  ASSUME IInv, NEW t \in Handlers, Handle(t)
  PROVE  /\ presence' \in [Users -> Owner]
         /\ graces' \in [Calls -> Nat]
         /\ UNCHANGED <<windows, rings, crashes>>
<1>0. presence \in [Users -> Owner] /\ graces \in [Calls -> Nat]
  BY DEF IInv, TypeOK
<1>1. CASE SetBusy(t) \/ Reclaim(t)
  BY <1>0, <1>1, PresenceType DEF SetBusy, Reclaim
<1>2. CASE Release(t)
  <2>1. presence' \in [Users -> Owner]
    BY <1>0, <1>2, PresenceType DEF Release
  <2>2. PICK b \in BOOLEAN : graces' = [graces EXCEPT ![tasks[t].call] = IF b THEN @ + 1 ELSE @]
    BY <1>2 DEF Release
  <2>3. ASSUME NEW n \in Nat
        PROVE  n + 1 \in Nat
    OBVIOUS
  <2>4. graces' = [c \in Calls |-> IF c = tasks[t].call /\ b THEN graces[c] + 1 ELSE graces[c]]
    BY <1>0, <2>2
  <2>5. graces' \in [Calls -> Nat]
    BY <1>0, <2>3, <2>4
  <2> QED BY <1>2, <2>1, <2>5 DEF Release
<1>3. CASE EndRelease(t)
  BY <1>0, <1>3, PresenceType DEF EndRelease
<1>4. CASE UNCHANGED <<windows, presence, graces, rings, crashes>>
  BY <1>0, <1>4
<1> QED BY <1>1, <1>2, <1>3, <1>4
      DEF Handle, AddUser, LeaveOthers, AddMember, SetJoined, Answer, Leave, SetLeft, Renew, End,
          EndWrite, Cancel, CancelWrite, Expire

(* Only cancelling ends a cancellation: of a call that no longer rings, or *)
(* by ending it.                                                           *)
LEMMA HandleCancels ==
  ASSUME IInv, NEW t \in Handlers, Handle(t)
  PROVE  UnansweredIsCancelled'
<1>0. Moves(t) /\ RingsNoNew /\ UNCHANGED <<rings, crashes>>
  BY HandleMoves, HandleRings, HandleTypes
<1>1. CASE NotCancelling(t)
  BY <1>0, <1>1, StillCancelled
<1>2. CASE ~NotCancelling(t)
  <2>1. Cancel(t) \/ CancelWrite(t)
    BY <1>2 DEF NotCancelling, Handle, At, AddUser, LeaveOthers, AddMember, SetJoined, SetBusy,
                Answer, Leave, SetLeft, Release, Renew, Reclaim, End, EndWrite, EndRelease, Expire
  <2>2. SUFFICES ASSUME crashes = 0, NEW c \in Direct, Ringing(c)'
                 PROVE  c \in rings \/ \E s \in Handlers : Cancelling(s, c)'
    BY <1>0 DEF UnansweredIsCancelled, Ringing
  <2>3. c \in Calls /\ Ringing(c)
    BY <1>0, <2>2, VideoConferenceAssumption DEF VideoConferenceAssumption, RingsNoNew
  <2>4. c \in rings \/ \E s \in Handlers : Cancelling(s, c)
    BY <2>2, <2>3 DEF IInv, UnansweredIsCancelled, Ringing
  <2>5. ASSUME NEW s \in Handlers, Cancelling(s, c)
        PROVE  Cancelling(s, c)'
    <3>1. CASE s # t
      BY <1>0, <2>5, <3>1 DEF Moves, Cancelling
    <3>2. CASE s = t /\ Cancel(t)
      <4>1. Go(t, "cancelWrite") /\ ~At(t, "idle")
        BY <2>3, <2>5, <3>2 DEF Cancel, Cancelling, Ringing, At
      <4> QED BY <2>5, <3>2, <4>1 DEF Go, Cancelling, IInv, TasksOK, Task
    <3>3. CASE s = t /\ CancelWrite(t)
      <4>1. SetOver(c, "declined")
        BY <2>5, <3>3 DEF CancelWrite, Cancelling
      <4>2. ~Ringing(c)'
        BY <2>3, <4>1, SetOverRings DEF IInv, TypeOK, LeasesOK
      <4> QED BY <2>2, <4>2
    <3> QED BY <2>1, <3>1, <3>2, <3>3
  <2> QED BY <2>4, <2>5
<1> QED BY <1>1, <1>2

LEMMA HandleKeeps ==
  ASSUME IInv, NEW t \in Handlers, Handle(t)
  PROVE  IInv'
<1>1. TasksOK' /\ RingsNoNew
  BY HandleMoves, HandleRings DEF Moves
<1>2. TypeOK'
  BY <1>1, HandleTypes, TypesFollow DEF IInv, TypeOK
<1> QED BY <1>1, <1>2, HandleCancels DEF IInv

-----------------------------------------------------------------------------
(* The other steps                                                         *)

(* A new direct call rings, and its timer runs. *)
LEMMA CreateKeeps ==
  ASSUME IInv, NEW c \in Calls, NEW callee \in Users \cup {None}, Create(c, callee)
  PROVE  IInv'
<1> DEFINE d == [NoCall EXCEPT !.status = IF c \in Direct THEN "calling" ELSE "started",
                               !.users = [u \in Users |-> IF u = callee THEN "invited" ELSE "none"]]
<1>1. d \in Call /\ d.lapsed = {} /\ (d.status = "calling" => c \in Direct)
  BY DEF NoCall, Call, Entries
<1>2. calls' = [calls EXCEPT ![c] = d]
  BY DEF Create
<1> HIDE DEF d
<1>3. calls' \in [Calls -> Call] /\ LeasesOK' /\ \A x \in Calls \ {c} : calls'[x] = calls[x]
  BY <1>1, <1>2 DEF IInv, TypeOK, LeasesOK, In
<1>4. /\ rings' \subseteq Direct /\ rings \subseteq rings'
      /\ calls'[c].status = "calling" => c \in rings'
  BY <1>1, <1>2 DEF Create, IInv, TypeOK
<1>5. TypeOK' /\ TasksOK'
  BY <1>3, <1>4 DEF Create, IInv, TypeOK, TasksOK, LeasesOK
<1>6. UnansweredIsCancelled'
  <2> SUFFICES ASSUME crashes = 0, NEW x \in Direct, Ringing(x)'
               PROVE  x \in rings' \/ \E s \in Handlers : Cancelling(s, x)'
    BY DEF Create, UnansweredIsCancelled, Ringing
  <2>1. CASE x = c
    BY <1>4, <2>1 DEF Ringing
  <2>2. CASE x # c
    <3>1. Ringing(x)
      BY <1>3, <2>2, VideoConferenceAssumption DEF VideoConferenceAssumption, Ringing
    <3> QED BY <1>4, <3>1 DEF Create, IInv, UnansweredIsCancelled, Ringing, Cancelling
  <2> QED BY <2>1, <2>2
<1> QED BY <1>5, <1>6 DEF IInv

(* A step that begins a handler's work other than a cancellation. *)
LEMMA BeginKeeps ==
  ASSUME IInv, NEW t \in Handlers, NEW step \in Steps \ {"sweepMark", "sweepRelease"},
         NEW c \in Calls, NEW u \in Users \cup {None}, Begin(t, step, c, u),
         windows' \subseteq Users \X Calls, graces' \in [Calls -> Nat],
         UNCHANGED <<calls, presence, rings, crashes>>
  PROVE  IInv'
<1>1. Moves(t) /\ NotCancelling(t)
  BY BeginMoves DEF IInv
<1>2. RingsNoNew
  BY UnchangedRings DEF IInv, TypeOK, LeasesOK
<1>3. TasksOK' /\ UnansweredIsCancelled'
  BY <1>1, <1>2, StillCancelled
<1>4. TypeOK'
  BY <1>2, <1>3, TypesFollow DEF IInv, TypeOK
<1> QED BY <1>3, <1>4 DEF IInv

(* A step of no handler. *)
LEMMA IdleKeeps ==
  ASSUME IInv, RingsNoNew, windows' \subseteq Users \X Calls, graces' \in [Calls -> Nat],
         UNCHANGED <<presence, tasks, rings, crashes>>
  PROVE  IInv'
<1>1. TasksOK' /\ UnansweredIsCancelled'
  BY StillCancelledIdle
<1>2. TypeOK'
  BY <1>1, TypesFollow DEF IInv, TypeOK
<1> QED BY <1>1, <1>2 DEF IInv

(* Requests: a window opens or closes, and a handler begins. *)
LEMMA RequestKeeps ==
  ASSUME IInv, NEW t \in Tasks, NEW u \in Users, NEW c \in Calls, Request(t, u, c)
  PROVE  IInv'
<1>1. t \in Handlers /\ {"addUser", "leave", "renew"} \subseteq Steps \ {"sweepMark", "sweepRelease"}
  BY DEF Handlers, Steps
<1>2. PICK step \in {"addUser", "leave", "renew"} : Begin(t, step, c, u)
  BY DEF Request, Join, ReportLeave, Heartbeat
<1>3. windows' \subseteq Users \X Calls
  BY DEF Request, Join, ReportLeave, Heartbeat, IInv, TypeOK
<1>4. graces' \in [Calls -> Nat] /\ UNCHANGED <<calls, presence, rings, crashes>>
  BY DEF Request, Join, ReportLeave, Heartbeat, IInv, TypeOK
<1> QED BY <1>1, <1>2, <1>3, <1>4, BeginKeeps

(* A cancellation begins, by request. *)
LEMMA RequestCancelKeeps ==
  ASSUME IInv, NEW t \in Tasks, NEW c \in Calls, RequestCancel(t, c)
  PROVE  IInv'
<1>1. t \in Handlers /\ "cancel" \in Steps \ {"sweepMark", "sweepRelease"}
  BY DEF Handlers, Steps
<1> QED BY <1>1, BeginKeeps DEF RequestCancel, IInv, TypeOK

(* The grace period is over. *)
LEMMA GraceOverKeeps ==
  ASSUME IInv, NEW c \in Calls, GraceOver(c)
  PROVE  IInv'
<1>0. Clock \in Handlers /\ "end" \in Steps \ {"sweepMark", "sweepRelease"}
  BY DEF Handlers, Steps
<1>1. graces' \in [Calls -> Nat]
  BY DEF GraceOver, IInv, TypeOK
<1>2. CASE UNCHANGED tasks
  BY <1>1, <1>2, UnchangedRings, IdleKeeps DEF GraceOver, IInv, TypeOK, LeasesOK
<1>3. CASE Begin(Clock, "end", c, None)
  BY <1>0, <1>1, <1>3, BeginKeeps DEF GraceOver, IInv, TypeOK
<1> QED BY <1>2, <1>3 DEF GraceOver

(* The timer of a call that rings still becomes a cancellation. *)
LEMMA RingOverKeeps ==
  ASSUME IInv, NEW c \in Calls, RingOver(c)
  PROVE  IInv'
<1>0. Clock \in Handlers /\ "cancel" \in Steps \ {"sweepMark", "sweepRelease"}
  BY DEF Handlers, Steps
<1>1. /\ rings' \subseteq Direct /\ UNCHANGED <<calls, windows, presence, graces, crashes>>
      /\ \A x \in rings \ {c} : x \in rings'
  BY DEF RingOver, IInv, TypeOK
<1>2. CASE calls[c].status = "calling"
  <2>1. Begin(Clock, "cancel", c, None)
    BY <1>2 DEF RingOver
  <2>2. Moves(Clock) /\ NotCancelling(Clock) /\ tasks'[Clock].step = "cancel" /\ tasks'[Clock].call = c
    BY <1>0, <2>1, BeginMoves DEF IInv
  <2>3. Cancelling(Clock, c)'
    BY <2>2 DEF Cancelling
  <2>4. \A s \in Handlers, x \in Direct : Cancelling(s, x) => Cancelling(s, x)'
    BY <2>2 DEF Moves, Cancelling, NotCancelling
  <2>5. UnansweredIsCancelled'
    BY <1>0, <1>1, <2>3, <2>4 DEF IInv, UnansweredIsCancelled
  <2>6. TasksOK' /\ TypeOK'
    BY <1>1, <2>2 DEF Moves, TasksOK, IInv, TypeOK, In
  <2> QED BY <2>5, <2>6 DEF IInv
<1>3. CASE calls[c].status # "calling"
  <2>1. UNCHANGED tasks
    BY <1>3 DEF RingOver
  <2>2. UnansweredIsCancelled'
    BY <1>1, <1>3, <2>1 DEF IInv, UnansweredIsCancelled, Cancelling
  <2>3. TasksOK' /\ TypeOK'
    BY <1>1, <2>1 DEF TasksOK, IInv, TypeOK, In
  <2> QED BY <2>2, <2>3 DEF IInv
<1> QED BY <1>2, <1>3

(* Windows that close, and leases that run out. *)
LEMMA OutsideKeeps ==
  ASSUME IInv, NEW u \in Users, NEW c \in Calls, Invite(c, u) \/ CloseWindow(u, c) \/ Lapse(c, u)
  PROVE  IInv'
<1>0. calls \in [Calls -> Call] /\ LeasesOK
  BY DEF IInv, TypeOK, LeasesOK
<1>1. CASE Invite(c, u)
  BY <1>0, <1>1, EnsureMemberRings, IdleKeeps DEF Invite, IInv, TypeOK
<1>2. CASE CloseWindow(u, c)
  BY <1>0, <1>2, UnchangedRings, IdleKeeps DEF CloseWindow, IInv, TypeOK
<1>3. CASE Lapse(c, u)
  <2> DEFINE d == [calls[c] EXCEPT !.lapsed = @ \cup {u}]
  <2>1. /\ d \in Call /\ d.status = calls[c].status /\ d.over = calls[c].over
        /\ d.users = calls[c].users /\ d.lapsed = calls[c].lapsed \cup {u}
    BY <1>0 DEF Call
  <2>2. calls' = [calls EXCEPT ![c] = d] /\ u \in In(c)
    BY <1>3 DEF Lapse
  <2> HIDE DEF d
  <2>3. RingsNoNew
    BY <1>0, <2>1, <2>2 DEF RingsNoNew, LeasesOK, In, Ringing
  <2> QED BY <1>3, <2>3, IdleKeeps DEF Lapse, IInv, TypeOK
<1> QED BY <1>1, <1>2, <1>3

(* The sweep of a call. *)
LEMMA SweepKeeps ==
  ASSUME IInv, NEW c \in Calls, Sweep(c)
  PROVE  IInv'
<1> DEFINE expired == In(c) \cap calls[c].lapsed
           k == [Idle EXCEPT !.step = "sweepMark", !.call = c, !.todo = expired,
                             !.seen = [See(c) EXCEPT !.in = @ \ expired]]
<1>0. Sweeper \in Handlers
  BY DEF Handlers
<1>1. k \in Task /\ TaskInv(k)
  BY SeeType DEF In, Idle, Task, TaskInv, Steps, Seen
<1>2. tasks' = [tasks EXCEPT ![Sweeper] = k]
  BY DEF Sweep
<1> HIDE DEF k
<1>3. Moves(Sweeper) /\ NotCancelling(Sweeper)
  BY <1>0, <1>1, <1>2, Moved DEF IInv, Sweep, At, NotCancelling
<1>4. RingsNoNew
  BY UnchangedRings DEF Sweep, IInv, TypeOK, LeasesOK
<1>5. TasksOK' /\ UnansweredIsCancelled'
  BY <1>0, <1>3, <1>4, StillCancelled DEF Sweep
<1>6. TypeOK'
  BY <1>4, <1>5, TypesFollow DEF Sweep, IInv, TypeOK
<1> QED BY <1>5, <1>6 DEF IInv

(* The sweep gives up on a member. *)
LEMMA SweepMarkKeeps ==
  ASSUME IInv, SweepMark
  PROVE  IInv'
<1>0. Sweeper \in Handlers /\ TasksOK /\ calls \in [Calls -> Call] /\ LeasesOK
  BY DEF Handlers, IInv, TypeOK, LeasesOK
<1>1. PICK u \in tasks[Sweeper].todo :
        /\ SetUser(tasks[Sweeper].call, u, "timeout")
        /\ tasks' = [tasks EXCEPT ![Sweeper] =
                       [tasks[Sweeper] EXCEPT !.step = "sweepRelease", !.user = u, !.todo = @ \ {u}]]
  BY DEF SweepMark
<1> DEFINE k == [tasks[Sweeper] EXCEPT !.step = "sweepRelease", !.user = u, !.todo = @ \ {u}]
<1>2. k \in Task /\ TaskInv(k)
  <2>1. tasks[Sweeper] \in Task /\ TaskInv(tasks[Sweeper]) /\ tasks[Sweeper].step = "sweepMark"
    BY <1>0 DEF SweepMark, At, TasksOK
  <2>2. /\ tasks[Sweeper].call \in Calls /\ tasks[Sweeper].resume = None
        /\ tasks[Sweeper].todo \subseteq Users /\ u \in Users
    BY <2>1 DEF TaskInv
  <2>3. k \in Task
    BY <2>1, <2>2 DEF Task, Steps
  <2>4. /\ k.step = "sweepRelease" /\ k.call = tasks[Sweeper].call
        /\ k.resume = tasks[Sweeper].resume /\ k.todo = tasks[Sweeper].todo \ {u}
    BY <2>1 DEF Task
  <2> HIDE DEF k
  <2> QED BY <2>2, <2>3, <2>4 DEF TaskInv
<1>3. tasks' = [tasks EXCEPT ![Sweeper] = k]
  BY <1>1
<1> HIDE DEF k
<1>4. Moves(Sweeper) /\ NotCancelling(Sweeper)
  BY <1>0, <1>2, <1>3, Moved DEF SweepMark, At, NotCancelling
<1>5. RingsNoNew
  BY <1>0, <1>1, SetUserRings DEF Entries
<1>6. TasksOK' /\ UnansweredIsCancelled'
  BY <1>0, <1>4, <1>5, StillCancelled DEF SweepMark
<1>7. TypeOK'
  BY <1>5, <1>6, TypesFollow DEF SweepMark, IInv, TypeOK
<1> QED BY <1>6, <1>7 DEF IInv

(* The sweep releases a claim, and goes on or ends the call. *)
LEMMA SweepReleaseKeeps ==
  ASSUME IInv, SweepRelease
  PROVE  IInv'
<1>0. Sweeper \in Handlers /\ TasksOK
  BY DEF Handlers, IInv
<1>1. /\ tasks[Sweeper].step = "sweepRelease" /\ ~At(Sweeper, "idle") /\ tasks[Sweeper].resume = None
      /\ tasks[Sweeper].todo \subseteq Users
  BY <1>0 DEF SweepRelease, At, TasksOK, TaskInv
<1>2. Moves(Sweeper) /\ NotCancelling(Sweeper)
  BY <1>0, <1>1, GoMoves, FinishMoves DEF SweepRelease, Steps, NotCancelling
<1>3. RingsNoNew
  BY UnchangedRings DEF SweepRelease, IInv, TypeOK, LeasesOK
<1>4. TasksOK' /\ UnansweredIsCancelled'
  BY <1>0, <1>2, <1>3, StillCancelled DEF SweepRelease
<1>5. presence' \in [Users -> Owner]
  BY PresenceType DEF SweepRelease, IInv, TypeOK
<1>6. TypeOK'
  BY <1>3, <1>4, <1>5, TypesFollow DEF SweepRelease, IInv, TypeOK
<1> QED BY <1>4, <1>6 DEF IInv

(* The age limit. *)
LEMMA FindLongRunningKeeps ==
  ASSUME IInv, NEW c \in Calls, FindLongRunning(c)
  PROVE  IInv'
<1>1. Clock \in Handlers /\ "expire" \in Steps \ {"sweepMark", "sweepRelease"}
  BY DEF Handlers, Steps
<1> QED BY <1>1, BeginKeeps DEF FindLongRunning, IInv, TypeOK

(* After a crash nothing is promised of a cancellation. *)
LEMMA CrashKeeps ==
  ASSUME IInv, Crash
  PROVE  IInv'
<1>1. crashes' \in 0..MaxCrashes /\ crashes' # 0
  BY VideoConferenceAssumption DEF VideoConferenceAssumption, Crash, IInv, TypeOK
<1>2. PICK dead \in SUBSET Handlers, lost \in SUBSET Calls :
        /\ tasks' = [t \in Handlers |-> IF t \in dead THEN Idle ELSE tasks[t]]
        /\ graces' = [c \in Calls |-> IF c \in lost THEN 0 ELSE graces[c]]
        /\ rings' = rings \ lost
  BY DEF Crash
<1>3. TasksOK'
  BY <1>2, IdleIsProper DEF IInv, TasksOK
<1>4. RingsNoNew
  BY UnchangedRings DEF Crash, IInv, TypeOK, LeasesOK
<1>5. graces' \in [Calls -> Nat] /\ rings' \subseteq Direct
  BY <1>2 DEF IInv, TypeOK
<1>6. TypeOK'
  BY <1>1, <1>3, <1>4, <1>5, TypesFollow DEF Crash, IInv, TypeOK
<1> QED BY <1>1, <1>3, <1>6 DEF IInv, UnansweredIsCancelled

-----------------------------------------------------------------------------
(* The invariant                                                           *)

LEMMA InitEstablishes ==
  ASSUME Init
  PROVE  IInv
<1>1. calls \in [Calls -> Call] /\ \A c \in Calls : calls[c].lapsed \subseteq In(c)
  BY DEF Init, NoCall, Call, Entries, In
<1>2. TasksOK
  BY IdleIsProper DEF Init, TasksOK
<1>3. presence \in [Users -> Owner]
  BY ConstantTypes DEF Init
<1>4. TypeOK
  BY <1>1, <1>2, <1>3, VideoConferenceAssumption DEF VideoConferenceAssumption, Init, TypeOK, TasksOK
<1>5. UnansweredIsCancelled
  BY VideoConferenceAssumption DEF VideoConferenceAssumption, Init, NoCall, UnansweredIsCancelled
<1> QED BY <1>2, <1>4, <1>5 DEF IInv

LEMMA NextKeeps ==
  ASSUME IInv, [Next]_vars
  PROVE  IInv'
<1>1. ASSUME NEW t \in Handlers, Handle(t)
      PROVE  IInv'
  BY <1>1, HandleKeeps
<1>2. ASSUME NEW t \in Tasks, NEW u \in Users, NEW c \in Calls, Request(t, u, c)
      PROVE  IInv'
  BY <1>2, RequestKeeps
<1>3. ASSUME NEW t \in Tasks, NEW c \in Calls, RequestCancel(t, c)
      PROVE  IInv'
  BY <1>3, RequestCancelKeeps
<1>4. ASSUME NEW c \in Calls, Timer(c) \/ FindLongRunning(c) \/ Sweep(c)
      PROVE  IInv'
  BY <1>4, GraceOverKeeps, RingOverKeeps, FindLongRunningKeeps, SweepKeeps DEF Timer
<1>5. ASSUME NEW c \in Calls, NEW callee \in Users \cup {None}, Create(c, callee)
      PROVE  IInv'
  BY <1>5, CreateKeeps
<1>6. CASE SweepMark \/ SweepRelease
  BY <1>6, SweepMarkKeeps, SweepReleaseKeeps
<1>7. ASSUME NEW u \in Users, NEW c \in Calls, Invite(c, u) \/ CloseWindow(u, c) \/ Lapse(c, u)
      PROVE  IInv'
  BY <1>7, OutsideKeeps
<1>8. CASE Crash
  BY <1>8, CrashKeeps
<1>9. CASE UNCHANGED vars
  BY <1>9 DEF vars, IInv, TypeOK, TasksOK, UnansweredIsCancelled, Cancelling, In
<1> QED BY <1>1, <1>2, <1>3, <1>4, <1>5, <1>6, <1>7, <1>8, <1>9 DEF Next

(* IInv is inductive. *)
LEMMA Invariant == Spec => []IInv
<1>1. Init => IInv
  BY InitEstablishes
<1>2. IInv /\ [Next]_vars => IInv'
  BY NextKeeps
<1> QED BY <1>1, <1>2, PTL DEF Spec

(* Documents, claims, handlers and timers keep their types, and only a     *)
(* member in the call has a lease that can run out.                        *)
THEOREM VideoConferenceTypes == Spec => []TypeOK
<1>1. IInv => TypeOK
  BY DEF IInv
<1> QED BY <1>1, Invariant, PTL

(* While a direct call rings unanswered, its cancellation is pending or    *)
(* under way, as long as no instance has died (startDirect, cancel).       *)
THEOREM UnansweredCallsAreCancelled == Spec => []UnansweredIsCancelled
<1>1. IInv => UnansweredIsCancelled
  BY DEF IInv
<1> QED BY <1>1, Invariant, PTL

-----------------------------------------------------------------------------
(* What was                                                                *)

Created(c) == calls[c].status # "none"

(* The user is, or was, in the call. *)
Entered(c, u) == calls[c].users[u] \notin {"none", "invited"}

(* Nothing is known of a call before its creation, and one that is not     *)
(* over rings or runs.                                                     *)
DocsInv ==
    \A c \in Calls :
      /\ ~Created(c) => ~calls[c].over /\ \A u \in Users : ~Entered(c, u)
      /\ Created(c) /\ ~calls[c].over => Running(c)

(* What is so once is so for ever. *)
Remembers ==
    \A c \in Calls :
      /\ Created(c) => Created(c)'
      /\ calls[c].over => calls'[c].over
      /\ \A u \in Users : Entered(c, u) => Entered(c, u)'

(* What a handler's state says of what was: a leave that no join waits for *)
(* was reported; a join leaves other calls than its own, in which its user *)
(* has been; a claim is for somebody who has been in the call, and so are  *)
(* the releases of the sweep and of the end, which follows the end.        *)
Knows(k) ==
    /\ k.step # "idle" => Created(k.call)
    /\ k.resume # None =>
         /\ Created(k.resume.call) /\ k.user \in Users
         /\ k.resume.call \notin k.todo \cup {k.call}
         /\ \A d \in k.todo \cup {k.call} : Entered(d, k.user)
         /\ k.user \in k.resume.seen.in => Entered(k.resume.call, k.user)
    /\ k.step \in {"leave", "setLeft", "release"} /\ k.resume = None => k.user \in Reporters
    /\ k.step \in {"addUser", "leaveOthers", "addMember", "setJoined", "claim", "renew", "reclaim", "sweepRelease"} =>
         k.user \in Users
    /\ k.step \in {"leaveOthers", "addMember"} /\ k.user \in k.seen.in => Entered(k.call, k.user)
    /\ k.step \in {"claim", "reclaim", "sweepRelease"} => Entered(k.call, k.user)
    /\ k.step \in {"sweepMark", "sweepRelease", "endRelease"} => \A v \in k.todo : v \in Users /\ Entered(k.call, v)
    /\ k.step = "endWrite" => \A v \in k.seen.in : v \in Users /\ Entered(k.call, v)
    /\ k.step = "endRelease" => calls[k.call].over

PastInv ==
    /\ DocsInv
    /\ \A t \in Handlers : Knows(tasks[t])
    /\ \A c \in Calls : graces[c] > 0 => Created(c)
    /\ \A u \in Users, c \in Calls : <<u, c>> \in windows => Created(c)

(* A document that keeps its past *)
Keeps(doc, next) ==
    /\ doc.status # "none" /\ next.status # "none"
    /\ doc.over => next.over
    /\ ~next.over => next.status \in {"calling", "started"}
    /\ \A u \in Users : doc.users[u] \notin {"none", "invited"} => next.users[u] \notin {"none", "invited"}

LEMMA KeepsRemembers ==
  ASSUME DocsInv, NEW c, NEW next, \A x \in Calls \ {c} : calls'[x] = calls[x],
         c \in Calls => calls'[c] = next /\ Keeps(calls[c], next)
  PROVE  DocsInv' /\ Remembers
<1>1. ASSUME NEW x \in Calls \ {c}
      PROVE  /\ Created(x)' = Created(x) /\ Running(x)' = Running(x) /\ calls'[x].over = calls[x].over
             /\ \A u \in Users : Entered(x, u)' = Entered(x, u)
  BY <1>1 DEF Created, Running, Entered
<1>2. ASSUME c \in Calls
      PROVE  /\ Created(c)' /\ (calls'[c].over \/ Running(c)') /\ (calls[c].over => calls'[c].over)
             /\ \A u \in Users : Entered(c, u) => Entered(c, u)'
  BY <1>2 DEF Keeps, Created, Running, Entered
<1>3. ASSUME NEW x \in Calls
      PROVE  /\ Created(x) => Created(x)'
             /\ calls[x].over => calls'[x].over
             /\ \A u \in Users : Entered(x, u) => Entered(x, u)'
             /\ ~Created(x)' => ~calls'[x].over /\ \A u \in Users : ~Entered(x, u)'
             /\ Created(x)' /\ ~calls'[x].over => Running(x)'
  <2>1. CASE x = c
    BY <1>2, <2>1
  <2>2. CASE x # c
    BY <1>1, <2>2 DEF DocsInv
  <2> QED BY <2>1, <2>2
<1> QED BY <1>3 DEF DocsInv, Remembers

LEMMA UnchangedRemembers ==
  ASSUME DocsInv, UNCHANGED calls
  PROVE  DocsInv' /\ Remembers
  BY DEF DocsInv, Remembers, Created, Running, Entered

(* The writes of a document that is there *)
LEMMA SetUserRemembers ==
  ASSUME TypeOK, DocsInv, NEW c \in Calls, Created(c), NEW u, NEW entry, SetUser(c, u, entry),
         entry \notin {"none", "invited"} \/ calls[c].users[u] = entry
  PROVE  DocsInv' /\ Remembers
<1> DEFINE d == [calls[c] EXCEPT !.users[u] = entry, !.lapsed = @ \ {u}]
<1>1. calls[c] \in Call
  BY DEF TypeOK
<1>2. calls' = [calls EXCEPT ![c] = d] /\ calls \in [Calls -> Call]
  BY DEF SetUser, TypeOK
<1>3. d.status = calls[c].status /\ d.over = calls[c].over
  BY <1>1 DEF Call
<1>4. \A v \in Users : d.users[v] = IF v = u THEN entry ELSE calls[c].users[v]
  BY <1>1 DEF Call
<1> HIDE DEF d
<1>5. Keeps(calls[c], d)
  BY <1>3, <1>4 DEF Keeps, DocsInv, Created, Running
<1> QED BY <1>2, <1>5, KeepsRemembers

LEMMA EnsureMemberRemembers ==
  ASSUME TypeOK, DocsInv, NEW c \in Calls, Created(c), NEW u, EnsureMember(c, u)
  PROVE  DocsInv' /\ Remembers
<1> DEFINE d == [calls[c] EXCEPT !.users[u] = IF @ = "none" THEN "invited" ELSE @]
<1>1. calls[c] \in Call
  BY DEF TypeOK
<1>2. calls' = [calls EXCEPT ![c] = d] /\ calls \in [Calls -> Call]
  BY DEF EnsureMember, TypeOK
<1>3. d.status = calls[c].status /\ d.over = calls[c].over
  BY <1>1 DEF Call
<1>4. \A v \in Users : d.users[v] = IF v = u /\ calls[c].users[u] = "none" THEN "invited" ELSE calls[c].users[v]
  BY <1>1 DEF Call
<1> HIDE DEF d
<1>5. Keeps(calls[c], d)
  BY <1>3, <1>4 DEF Keeps, DocsInv, Created, Running
<1> QED BY <1>2, <1>5, KeepsRemembers

LEMMA SetOverRemembers ==
  ASSUME TypeOK, DocsInv, NEW c \in Calls, Created(c), NEW status \in {"declined", "ended", "expired"},
         SetOver(c, status)
  PROVE  DocsInv' /\ Remembers /\ calls'[c].over
<1> DEFINE d == [calls[c] EXCEPT !.status = status, !.over = TRUE]
<1>1. calls[c] \in Call
  BY DEF TypeOK
<1>2. calls' = [calls EXCEPT ![c] = d] /\ calls \in [Calls -> Call]
  BY DEF SetOver, TypeOK
<1>3. d.status = status /\ d.over /\ d.users = calls[c].users
  BY <1>1 DEF Call
<1> HIDE DEF d
<1>5. Keeps(calls[c], d)
  BY <1>3 DEF Keeps, Created
<1> QED BY <1>2, <1>3, <1>5, KeepsRemembers

(* An answer, and a lease that runs out *)
LEMMA AnswerRemembers ==
  ASSUME TypeOK, DocsInv, NEW c \in Calls, Created(c), calls' = [calls EXCEPT ![c].status = "started"]
  PROVE  DocsInv' /\ Remembers
<1> DEFINE d == [calls[c] EXCEPT !.status = "started"]
<1>1. calls[c] \in Call
  BY DEF TypeOK
<1>2. calls' = [calls EXCEPT ![c] = d] /\ calls \in [Calls -> Call]
  BY DEF TypeOK
<1>3. d.status = "started" /\ d.over = calls[c].over /\ d.users = calls[c].users
  BY <1>1 DEF Call
<1> HIDE DEF d
<1>5. Keeps(calls[c], d)
  BY <1>3 DEF Keeps, Created
<1> QED BY <1>2, <1>5, KeepsRemembers

LEMMA LapseRemembers ==
  ASSUME TypeOK, DocsInv, NEW c \in Calls, Running(c), NEW lapsed, calls' = [calls EXCEPT ![c].lapsed = lapsed]
  PROVE  DocsInv' /\ Remembers
<1> DEFINE d == [calls[c] EXCEPT !.lapsed = lapsed]
<1>1. calls[c] \in Call
  BY DEF TypeOK
<1>2. calls' = [calls EXCEPT ![c] = d] /\ calls \in [Calls -> Call]
  BY DEF TypeOK
<1>3. d.status = calls[c].status /\ d.over = calls[c].over /\ d.users = calls[c].users
  BY <1>1 DEF Call
<1> HIDE DEF d
<1>5. Keeps(calls[c], d)
  BY <1>3 DEF Keeps, Running
<1> QED BY <1>2, <1>5, KeepsRemembers

(* A call that is new *)
LEMMA CreateRemembers ==
  ASSUME TypeOK, DocsInv, NEW c \in Calls, NEW callee, Create(c, callee)
  PROVE  /\ DocsInv' /\ Remembers /\ ~calls'[c].over
         /\ \A u \in Users : ~Entered(c, u) /\ ~Entered(c, u)'
<1> DEFINE d == [NoCall EXCEPT !.status = IF c \in Direct THEN "calling" ELSE "started",
                               !.users = [u \in Users |-> IF u = callee THEN "invited" ELSE "none"]]
<1>1. calls' = [calls EXCEPT ![c] = d] /\ calls \in [Calls -> Call] /\ ~Created(c)
  BY DEF Create, TypeOK, Created
<1>2. d.status \in {"calling", "started"} /\ ~d.over /\ \A u \in Users : d.users[u] \in {"none", "invited"}
  BY DEF NoCall
<1> HIDE DEF d
<1>3. \A x \in Calls : calls'[x] = IF x = c THEN d ELSE calls[x]
  BY <1>1
<1>4. ASSUME NEW x \in Calls \ {c}
      PROVE  /\ Created(x)' = Created(x) /\ Running(x)' = Running(x) /\ calls'[x].over = calls[x].over
             /\ \A u \in Users : Entered(x, u)' = Entered(x, u)
  BY <1>3, <1>4 DEF Created, Running, Entered
<1>5. /\ Created(c)' /\ Running(c)' /\ ~calls'[c].over /\ ~calls[c].over
      /\ \A u \in Users : ~Entered(c, u) /\ ~Entered(c, u)'
  BY <1>1, <1>2, <1>3 DEF Created, Running, Entered, DocsInv
<1>6. ASSUME NEW x \in Calls
      PROVE  /\ Created(x) => Created(x)'
             /\ calls[x].over => calls'[x].over
             /\ \A u \in Users : Entered(x, u) => Entered(x, u)'
             /\ ~Created(x)' => ~calls'[x].over /\ \A u \in Users : ~Entered(x, u)'
             /\ Created(x)' /\ ~calls'[x].over => Running(x)'
  <2>1. CASE x = c
    BY <1>5, <2>1
  <2>2. CASE x # c
    BY <1>4, <2>2 DEF DocsInv
  <2> QED BY <2>1, <2>2
<1> QED BY <1>5, <1>6 DEF DocsInv, Remembers

-----------------------------------------------------------------------------
(* How a handler goes on                                                   *)

Others(t) == \A s \in Handlers \ {t} : tasks'[s] = tasks[s]
SameLoop(k, j) == k.call = j.call /\ k.user = j.user /\ k.todo = j.todo /\ k.resume = j.resume

LEMMA GoFields ==
  ASSUME TasksOK, NEW t \in Handlers, NEW step, Go(t, step)
  PROVE  /\ Others(t) /\ tasks'[t].step = step
         /\ SameLoop(tasks'[t], tasks[t]) /\ tasks'[t].seen = tasks[t].seen
  BY DEF Go, TasksOK, Task, Others, SameLoop

LEMMA GoSeeingFields ==
  ASSUME TasksOK, NEW t \in Handlers, NEW step, NEW seen, GoSeeing(t, step, seen)
  PROVE  /\ Others(t) /\ tasks'[t].step = step
         /\ SameLoop(tasks'[t], tasks[t]) /\ tasks'[t].seen = seen
<1> DEFINE k == [tasks[t] EXCEPT !.step = step, !.seen = seen]
<1>1. tasks' = [tasks EXCEPT ![t] = k]
  BY DEF GoSeeing, TasksOK
<1>2. k.step = step /\ SameLoop(k, tasks[t]) /\ k.seen = seen
  BY DEF TasksOK, Task, SameLoop
<1> HIDE DEF k
<1> QED BY <1>1, <1>2 DEF TasksOK, Others

LEMMA IdleFields == /\ Idle.step = "idle" /\ Idle.call = None /\ Idle.user = None
                    /\ Idle.seen = Nothing /\ Idle.todo = {} /\ Idle.resume = None
  BY DEF Idle

LEMMA FinishFields ==
  ASSUME TasksOK, NEW t \in Handlers, Finish(t)
  PROVE  Others(t) /\ tasks'[t] = Idle
  BY DEF Finish, TasksOK, Others

LEMMA BeginFields ==
  ASSUME TasksOK, NEW t \in Handlers, NEW step, NEW c, NEW u, Begin(t, step, c, u)
  PROVE  /\ Others(t) /\ tasks'[t].step = step /\ tasks'[t].call = c /\ tasks'[t].user = u
         /\ tasks'[t].todo = {} /\ tasks'[t].resume = None
         /\ tasks[t].step = "idle"
<1> DEFINE k == [Idle EXCEPT !.step = step, !.call = c, !.user = u]
<1>1. tasks' = [tasks EXCEPT ![t] = k] /\ tasks[t].step = "idle"
  BY DEF Begin, At
<1>2. k.step = step /\ k.call = c /\ k.user = u /\ k.todo = {} /\ k.resume = None
  BY DEF Idle
<1> HIDE DEF k
<1> QED BY <1>1, <1>2 DEF TasksOK, Others

LEMMA LeaveForFields ==
  ASSUME TasksOK, NEW t \in Handlers, NEW join, NEW others, LeaveFor(t, join, others)
  PROVE  /\ Others(t) /\ tasks'[t].step = "leave" /\ tasks'[t].user = tasks[t].user
         /\ tasks'[t].resume = join /\ tasks'[t].seen = tasks[t].seen
         /\ tasks'[t].call \in others /\ tasks'[t].todo = others \ {tasks'[t].call}
<1>1. PICK c \in others :
        tasks' = [tasks EXCEPT ![t] =
          [tasks[t] EXCEPT !.step = "leave", !.call = c, !.todo = others \ {c}, !.resume = join]]
  BY DEF LeaveFor
<1> DEFINE k == [tasks[t] EXCEPT !.step = "leave", !.call = c, !.todo = others \ {c}, !.resume = join]
<1>2. /\ k.step = "leave" /\ k.call = c /\ k.user = tasks[t].user /\ k.todo = others \ {c}
      /\ k.resume = join /\ k.seen = tasks[t].seen
  BY DEF TasksOK, Task
<1>3. tasks' = [tasks EXCEPT ![t] = k]
  BY <1>1
<1> HIDE DEF k
<1> QED BY <1>2, <1>3 DEF TasksOK, Others

(* A leave is over: it was reported, or there is another call to leave, or *)
(* the join goes on.                                                       *)
LEMMA FinishLeaveFields ==
  ASSUME TasksOK, NEW t \in Handlers, FinishLeave(t)
  PROVE  /\ Others(t)
         /\ tasks[t].resume = None => tasks'[t] = Idle
         /\ tasks[t].resume # None /\ tasks[t].todo # {} =>
              /\ tasks'[t].step = "leave" /\ tasks'[t].user = tasks[t].user
              /\ tasks'[t].resume = tasks[t].resume
              /\ tasks'[t].call \in tasks[t].todo /\ tasks'[t].todo = tasks[t].todo \ {tasks'[t].call}
         /\ tasks[t].resume # None /\ tasks[t].todo = {} =>
              /\ tasks'[t].step = "addMember" /\ tasks'[t].user = tasks[t].user
              /\ tasks'[t].call = tasks[t].resume.call /\ tasks'[t].seen = tasks[t].resume.seen
              /\ tasks'[t].todo = {} /\ tasks'[t].resume = None
<1>1. CASE tasks[t].resume = None
  BY <1>1, FinishFields DEF FinishLeave
<1>2. CASE tasks[t].resume # None /\ tasks[t].todo # {}
  BY <1>2, LeaveForFields DEF FinishLeave
<1>3. CASE tasks[t].resume # None /\ tasks[t].todo = {}
  <2> DEFINE k == [tasks[t] EXCEPT !.step = "addMember", !.call = tasks[t].resume.call,
                                   !.seen = tasks[t].resume.seen, !.resume = None]
  <2>1. /\ k.step = "addMember" /\ k.user = tasks[t].user /\ k.call = tasks[t].resume.call
        /\ k.seen = tasks[t].resume.seen /\ k.todo = {} /\ k.resume = None
    BY <1>3 DEF TasksOK, Task
  <2>2. tasks' = [tasks EXCEPT ![t] = k]
    BY <1>3 DEF FinishLeave
  <2> HIDE DEF k
  <2> QED BY <1>3, <2>1, <2>2 DEF TasksOK, Others
<1> QED BY <1>1, <1>2, <1>3

-----------------------------------------------------------------------------
(* What handlers know                                                      *)

LEMMA IdleKnows == Knows(Idle) /\ Knows(Idle)'
  BY IdleFields DEF Knows

LEMMA KnowsStays ==
  ASSUME Remembers, NEW k \in Task, TaskInv(k), Knows(k)
  PROVE  Knows(k)'
<1>1. /\ k.call \in Calls \cup {None} /\ (k.step # "idle" => k.call \in Calls)
      /\ k.resume # None => k.resume.call \in Calls /\ k.todo \subseteq Calls
      /\ k.resume # None => k.step # "idle"
  BY DEF Task, TaskInv
<1>2. ASSUME k.resume # None
      PROVE  /\ Created(k.resume.call)' /\ k.user \in Users
             /\ k.resume.call \notin k.todo \cup {k.call}
             /\ \A d \in k.todo \cup {k.call} : Entered(d, k.user)'
             /\ k.user \in k.resume.seen.in => Entered(k.resume.call, k.user)'
  BY <1>1, <1>2 DEF Knows, Remembers
<1>3. ASSUME k.step # "idle"
      PROVE  /\ Created(k.call)'
             /\ calls[k.call].over => calls'[k.call].over
             /\ \A u \in Users : Entered(k.call, u) => Entered(k.call, u)'
  BY <1>1, <1>3 DEF Knows, Remembers
<1> QED BY <1>2, <1>3 DEF Knows

(* One handler moves; what the others know remains true. *)
LEMMA PastFollows ==
  ASSUME IInv, PastInv, DocsInv', Remembers, NEW t \in Handlers, Others(t), Knows(tasks[t])',
         \A c \in Calls : graces'[c] > 0 => graces[c] > 0 \/ Created(c)',
         \A u \in Users, c \in Calls : <<u, c>> \in windows' => <<u, c>> \in windows \/ Created(c)'
  PROVE  PastInv'
<1>1. ASSUME NEW s \in Handlers \ {t}
      PROVE  Knows(tasks[s])'
  <2>1. PICK k : k = tasks[s]
    OBVIOUS
  <2>2. tasks'[s] = k /\ k \in Task /\ TaskInv(k) /\ Knows(k)
    BY <2>1 DEF Others, IInv, TasksOK, PastInv
  <2>3. Knows(k)'
    BY <2>2, KnowsStays
  <2> QED BY <2>2, <2>3 DEF Knows
<1>2. \A s \in Handlers : Knows(tasks[s])'
  BY <1>1
<1>3. \A c \in Calls : graces'[c] > 0 => Created(c)'
  BY DEF PastInv, Remembers
<1>4. \A u \in Users, c \in Calls : <<u, c>> \in windows' => Created(c)'
  BY DEF PastInv, Remembers
<1> QED BY <1>2, <1>3, <1>4 DEF PastInv

(* A handler's part of the lemma before, by what it knew. *)
LEMMA StillKnows ==
  ASSUME IInv, PastInv, Remembers, NEW t \in Handlers
  PROVE  \E k \in Task : k = tasks[t] /\ TaskInv(k) /\ Knows(k) /\ Knows(k)'
<1>1. PICK k : k = tasks[t]
  OBVIOUS
<1>2. k \in Task /\ TaskInv(k) /\ Knows(k)
  BY <1>1 DEF IInv, TasksOK, PastInv
<1> QED BY <1>1, <1>2, KnowsStays

LEMMA SeeIn ==
  ASSUME NEW c
  PROVE  See(c).in = In(c) /\ \A u \in In(c) : u \in Users /\ Entered(c, u)
  BY DEF See, In, Entered

(* What a step does with the documents, whoever makes it *)
LEMMA HandleRemembers ==
  ASSUME IInv, PastInv, NEW t \in Handlers, Handle(t)
  PROVE  DocsInv' /\ Remembers
<1>0. TypeOK /\ DocsInv
  BY DEF IInv, PastInv
<1>k. /\ tasks[t] \in Task /\ TaskInv(tasks[t])
      /\ tasks[t].step # "idle" => tasks[t].call \in Calls /\ Created(tasks[t].call)
  BY DEF IInv, TasksOK, TaskInv, PastInv, Knows
<1>1. CASE UNCHANGED calls
  BY <1>0, <1>1, UnchangedRemembers
<1>2. CASE AddMember(t)
  BY <1>0, <1>k, <1>1, <1>2, EnsureMemberRemembers DEF AddMember, At
<1>3. CASE SetJoined(t)
  BY <1>0, <1>k, <1>3, SetUserRemembers DEF SetJoined, At
<1>4. CASE SetLeft(t)
  BY <1>0, <1>k, <1>4, SetUserRemembers DEF SetLeft, At
<1>5. CASE Answer(t)
  BY <1>0, <1>k, <1>1, <1>5, AnswerRemembers DEF Answer, At
<1>6. CASE Renew(t)
  <2> DEFINE c == tasks[t].call
             u == tasks[t].user
             entry == IF Renewable(c, u) /\ calls[c].users[u] = "timeout" THEN "in" ELSE calls[c].users[u]
  <2>1. SetUser(c, u, entry) \/ UNCHANGED calls
    BY <1>6 DEF Renew
  <2>2. entry \notin {"none", "invited"} \/ calls[c].users[u] = entry
    OBVIOUS
  <2>3. c \in Calls /\ Created(c)
    BY <1>k, <1>6 DEF Renew, At
  <2> HIDE DEF c, u, entry
  <2> QED BY <1>0, <1>1, <2>1, <2>2, <2>3, SetUserRemembers
<1>7. CASE EndWrite(t) \/ CancelWrite(t) \/ Expire(t)
  BY <1>0, <1>k, <1>7, SetOverRemembers DEF EndWrite, CancelWrite, Expire, At
<1>8. UNCHANGED calls \/ AddMember(t) \/ SetJoined(t) \/ SetLeft(t) \/ Answer(t) \/ Renew(t)
      \/ EndWrite(t) \/ CancelWrite(t) \/ Expire(t)
  BY DEF Handle, AddUser, LeaveOthers, SetBusy, Leave, Release, Reclaim, End, EndRelease, Cancel
<1> QED BY <1>1, <1>2, <1>3, <1>4, <1>5, <1>6, <1>7, <1>8

(* What the handler knows after its step *)
LEMMA HandleKnows ==
  ASSUME IInv, PastInv, NEW t \in Handlers, Handle(t)
  PROVE  Others(t) /\ Knows(tasks[t])'
<1>0. TasksOK /\ DocsInv' /\ Remembers
  BY HandleRemembers DEF IInv
<1>k. PICK k \in Task : k = tasks[t] /\ TaskInv(k) /\ Knows(k) /\ Knows(k)'
  BY <1>0, StillKnows
<1>i. ASSUME tasks'[t] = Idle
      PROVE  Knows(tasks[t])'
  BY <1>i, IdleKnows DEF Knows
<1>f. ASSUME FinishLeave(t), k.step \in {"leave", "setLeft", "release"}
      PROVE  Others(t) /\ Knows(tasks[t])'
  <2>1. CASE k.resume = None
    BY <1>0, <1>k, <1>f, <1>i, <2>1, FinishLeaveFields
  <2>2. CASE k.resume # None /\ k.todo # {}
    <3>1. /\ Others(t) /\ tasks'[t].step = "leave" /\ tasks'[t].user = k.user /\ tasks'[t].resume = k.resume
          /\ tasks'[t].call \in k.todo /\ tasks'[t].todo = k.todo \ {tasks'[t].call} /\ k.todo \subseteq Calls
      BY <1>0, <1>k, <1>f, <2>2, FinishLeaveFields DEF TaskInv
    <3>2. Created(tasks[t].call)'
      <4>1. PICK c \in k.todo : tasks'[t].call = c
        BY <3>1
      <4>2. c \in Calls /\ Entered(c, k.user)' /\ k.user \in Users
        BY <1>k, <2>2, <3>1, <4>1 DEF Knows
      <4>3. Created(c)'
        BY <1>0, <4>2 DEF DocsInv
      <4> QED BY <4>1, <4>3 DEF Created
    <3> QED BY <1>k, <2>2, <3>1, <3>2 DEF Knows
  <2>3. CASE k.resume # None /\ k.todo = {}
    <3>1. /\ Others(t) /\ tasks'[t].step = "addMember" /\ tasks'[t].user = k.user
          /\ tasks'[t].call = k.resume.call /\ tasks'[t].seen = k.resume.seen
          /\ tasks'[t].todo = {} /\ tasks'[t].resume = None
      BY <1>0, <1>k, <1>f, <2>3, FinishLeaveFields
    <3> QED BY <1>k, <2>3, <3>1 DEF Knows
  <2> QED BY <2>1, <2>2, <2>3
<1>1. CASE AddUser(t)
  <2>1. /\ Others(t) /\ tasks'[t].step = "leaveOthers" /\ SameLoop(tasks'[t], k)
        /\ tasks'[t].seen = See(k.call) /\ UNCHANGED calls /\ k.step = "addUser"
    BY <1>0, <1>k, <1>1, GoSeeingFields DEF AddUser, At
  <2>2. k.resume = None
    BY <1>k, <2>1 DEF TaskInv
  <2>3. k.user \in See(k.call).in => Entered(k.call, k.user)'
    BY <2>1, SeeIn DEF Entered
  <2> QED BY <1>k, <2>1, <2>2, <2>3 DEF SameLoop, Knows
<1>2. CASE LeaveOthers(t)
  <2> DEFINE others == {c \in Calls \ {k.call} : Running(c) /\ k.user \in In(c)}
  <2>0. k.step = "leaveOthers" /\ k.resume = None /\ UNCHANGED calls
    BY <1>k, <1>2 DEF LeaveOthers, At, TaskInv
  <2>1. CASE others = {}
    <3>1. /\ Others(t) /\ tasks'[t].step = "addMember" /\ SameLoop(tasks'[t], k) /\ tasks'[t].seen = k.seen
      BY <1>0, <1>k, <1>2, <2>1, GoFields DEF LeaveOthers
    <3> QED BY <1>k, <2>0, <3>1 DEF SameLoop, Knows
  <2>2. CASE others # {}
    <3> DEFINE join == [call |-> k.call, seen |-> k.seen]
    <3>1. LeaveFor(t, join, others)
      BY <1>k, <1>2, <2>2 DEF LeaveOthers
    <3>2. join.call = k.call /\ join.seen = k.seen /\ k.user \in Users /\ Created(k.call)'
          /\ (k.user \in k.seen.in => Entered(k.call, k.user)')
      BY <1>k, <2>0 DEF Knows
    <3>3. \A d \in others : d \in Calls \ {k.call} /\ Created(d)' /\ Entered(d, k.user)'
      BY <2>0 DEF In, Entered, Running, Created
    <3> HIDE DEF others
    <3>4. /\ Others(t) /\ tasks'[t].step = "leave" /\ tasks'[t].user = k.user
          /\ tasks'[t].resume = join /\ tasks'[t].call \in others
          /\ tasks'[t].todo = others \ {tasks'[t].call}
      BY <1>0, <1>k, <3>1, LeaveForFields
    <3>5. PICK c \in others : tasks'[t].call = c
      BY <3>4
    <3>6. join # None
      BY <1>k, <2>0, NoJoinToResume DEF TaskInv, Task
    <3> HIDE DEF join
    <3>7. Created(tasks[t].call)'
      BY <3>3, <3>5 DEF Created
    <3> QED BY <3>2, <3>3, <3>4, <3>5, <3>6, <3>7 DEF Knows
  <2> QED BY <2>1, <2>2
<1>3. CASE AddMember(t)
  <2>0. k.step = "addMember" /\ k.resume = None
    BY <1>k, <1>3 DEF AddMember, At, TaskInv
  <2>1. CASE k.user \in k.seen.in
    BY <1>0, <1>k, <1>3, <1>i, <2>1, FinishFields DEF AddMember
  <2>2. CASE k.user \notin k.seen.in
    <3>1. Others(t) /\ tasks'[t].step = "setJoined" /\ SameLoop(tasks'[t], k)
      BY <1>0, <1>k, <1>3, <2>2, GoFields DEF AddMember
    <3> QED BY <1>k, <2>0, <3>1 DEF SameLoop, Knows
  <2> QED BY <2>1, <2>2
<1>4. CASE SetJoined(t)
  <2>1. /\ k.step = "setJoined" /\ k.resume = None /\ SetUser(k.call, k.user, "in")
        /\ Others(t) /\ tasks'[t].step = "claim" /\ SameLoop(tasks'[t], k) /\ k.call \in Calls /\ k.user \in Users
    BY <1>0, <1>k, <1>4, GoFields DEF SetJoined, At, TaskInv, Knows
  <2>2. Entered(k.call, k.user)'
    BY <2>1 DEF SetUser, Entered, IInv, TypeOK, Call
  <2> QED BY <1>k, <2>1, <2>2 DEF SameLoop, Knows
<1>5. CASE SetBusy(t)
  <2>0. k.step = "claim" /\ k.resume = None
    BY <1>k, <1>5 DEF SetBusy, At, TaskInv
  <2>1. CASE Finish(t)
    BY <1>0, <1>i, <2>1, FinishFields
  <2>2. CASE Go(t, "answer")
    <3>1. Others(t) /\ tasks'[t].step = "answer" /\ SameLoop(tasks'[t], k)
      BY <1>0, <1>k, <2>2, GoFields
    <3> QED BY <1>k, <2>0, <3>1 DEF SameLoop, Knows
  <2> QED BY <1>5, <2>1, <2>2 DEF SetBusy
<1>6. CASE Answer(t) \/ Reclaim(t) \/ CancelWrite(t) \/ Expire(t)
  BY <1>0, <1>6, <1>i, FinishFields DEF Answer, Reclaim, CancelWrite, Expire
<1>7. CASE Leave(t)
  <2>0. k.step = "leave"
    BY <1>k, <1>7 DEF Leave, At
  <2>1. CASE FinishLeave(t)
    BY <1>f, <2>0, <2>1
  <2>2. CASE GoSeeing(t, "setLeft", See(k.call))
    <3>1. Others(t) /\ tasks'[t].step = "setLeft" /\ SameLoop(tasks'[t], k)
      BY <1>0, <1>k, <2>2, GoSeeingFields
    <3> QED BY <1>k, <2>0, <3>1 DEF SameLoop, Knows
  <2> QED BY <1>k, <1>7, <2>1, <2>2 DEF Leave
<1>8. CASE SetLeft(t)
  <2>1. k.step = "setLeft" /\ Others(t) /\ tasks'[t].step = "release" /\ SameLoop(tasks'[t], k)
    BY <1>0, <1>k, <1>8, GoFields DEF SetLeft, At
  <2> QED BY <1>k, <2>1 DEF SameLoop, Knows
<1>9. CASE Release(t)
  BY <1>k, <1>9, <1>f DEF Release, At
<1>10. CASE Renew(t)
  <2>0. k.step = "renew" /\ k.resume = None /\ k.user \in Users /\ k.call \in Calls
    BY <1>k, <1>10 DEF Renew, At, TaskInv, Knows
  <2>1. CASE Finish(t)
    BY <1>0, <1>i, <2>1, FinishFields
  <2>2. CASE ~Finish(t)
    <3>1. /\ Renewable(k.call, k.user) /\ calls[k.call].users[k.user] = "timeout"
          /\ Go(t, "reclaim") /\ SetUser(k.call, k.user, "in")
      BY <1>k, <1>10, <2>2 DEF Renew
    <3>2. Others(t) /\ tasks'[t].step = "reclaim" /\ SameLoop(tasks'[t], k)
      BY <1>0, <1>k, <3>1, GoFields
    <3>3. Entered(k.call, k.user)'
      BY <2>0, <3>1 DEF SetUser, Entered, IInv, TypeOK, Call
    <3> QED BY <1>k, <2>0, <3>2, <3>3 DEF SameLoop, Knows
  <2> QED BY <2>1, <2>2
<1>11. CASE End(t)
  <2>1. /\ k.step = "end" /\ k.resume = None /\ UNCHANGED calls
        /\ Others(t) /\ tasks'[t].step = "endWrite" /\ SameLoop(tasks'[t], k) /\ tasks'[t].seen = See(k.call)
    BY <1>0, <1>k, <1>11, GoSeeingFields DEF End, At, TaskInv
  <2>2. \A v \in See(k.call).in : v \in Users /\ Entered(k.call, v)'
    BY <2>1, SeeIn DEF Entered
  <2> QED BY <1>k, <2>1, <2>2 DEF SameLoop, Knows
<1>12. CASE EndWrite(t)
  <2>0. /\ k.step = "endWrite" /\ k.resume = None /\ k.call \in Calls /\ Created(k.call)
        /\ SetOver(k.call, "ended")
    BY <1>k, <1>12 DEF EndWrite, At, TaskInv, Knows
  <2>1. calls'[k.call].over
    BY <2>0, SetOverRemembers DEF IInv, PastInv
  <2>2. CASE Finish(t)
    BY <1>0, <1>i, <2>2, FinishFields
  <2>3. CASE ~Finish(t)
    <3> DEFINE j == [k EXCEPT !.step = "endRelease", !.todo = k.seen.in]
    <3>1. tasks' = [tasks EXCEPT ![t] = j]
      BY <1>0, <1>k, <1>12, <2>3 DEF EndWrite, TasksOK
    <3>2. /\ j.step = "endRelease" /\ j.call = k.call /\ j.user = k.user /\ j.resume = k.resume
          /\ j.todo = k.seen.in
      BY DEF Task
    <3> HIDE DEF j
    <3>3. Others(t) /\ tasks'[t] = j
      BY <1>0, <3>1 DEF TasksOK, Others
    <3> QED BY <1>k, <2>0, <2>1, <3>2, <3>3 DEF Knows
  <2> QED BY <2>2, <2>3
<1>13. CASE EndRelease(t)
  <2>0. k.step = "endRelease" /\ k.resume = None
    BY <1>k, <1>13 DEF EndRelease, At, TaskInv
  <2>1. PICK u \in k.todo : Finish(t) \/ tasks' = [tasks EXCEPT ![t].todo = k.todo \ {u}]
    BY <1>k, <1>13 DEF EndRelease
  <2>2. CASE Finish(t)
    BY <1>0, <1>i, <2>2, FinishFields
  <2>3. CASE tasks' = [tasks EXCEPT ![t].todo = k.todo \ {u}]
    <3>1. /\ Others(t) /\ tasks'[t].step = k.step /\ tasks'[t].call = k.call /\ tasks'[t].user = k.user
          /\ tasks'[t].resume = k.resume /\ tasks'[t].todo = k.todo \ {u}
      BY <1>0, <1>k, <2>3 DEF TasksOK, Task, Others
    <3> QED BY <1>k, <2>0, <3>1 DEF Knows
  <2> QED BY <2>1, <2>2, <2>3
<1>14. CASE Cancel(t)
  <2>0. k.step = "cancel" /\ k.resume = None
    BY <1>k, <1>14 DEF Cancel, At, TaskInv
  <2>1. CASE Finish(t)
    BY <1>0, <1>i, <2>1, FinishFields
  <2>2. CASE Go(t, "cancelWrite")
    <3>1. Others(t) /\ tasks'[t].step = "cancelWrite" /\ SameLoop(tasks'[t], k)
      BY <1>0, <1>k, <2>2, GoFields
    <3> QED BY <1>k, <2>0, <3>1 DEF SameLoop, Knows
  <2> QED BY <1>14, <2>1, <2>2 DEF Cancel
<1> QED BY <1>1, <1>2, <1>3, <1>4, <1>5, <1>6, <1>7, <1>8, <1>9, <1>10, <1>11, <1>12, <1>13, <1>14 DEF Handle

LEMMA HandlePast ==
  ASSUME IInv, PastInv, NEW t \in Handlers, Handle(t)
  PROVE  PastInv' /\ Remembers
<1>1. DocsInv' /\ Remembers /\ Others(t) /\ Knows(tasks[t])'
  BY HandleRemembers, HandleKnows
<1>2. \A c \in Calls : graces'[c] > 0 => graces[c] > 0 \/ Created(c)'
  <2>1. CASE UNCHANGED graces
    BY <2>1
  <2>2. CASE Release(t)
    <3>1. Created(tasks[t].call) /\ graces \in [Calls -> Nat]
      BY <2>2 DEF Release, At, PastInv, Knows, IInv, TypeOK
    <3>2. ASSUME NEW c \in Calls, c # tasks[t].call PROVE graces'[c] = graces[c]
      BY <2>2, <3>1, <3>2 DEF Release
    <3> QED BY <1>1, <3>1, <3>2 DEF Remembers
  <2> QED BY <2>1, <2>2 DEF Handle, AddUser, LeaveOthers, AddMember, SetJoined, SetBusy, Answer, Leave,
                            SetLeft, Renew, Reclaim, End, EndWrite, EndRelease, Cancel, CancelWrite, Expire
<1>3. UNCHANGED windows
  BY DEF Handle, AddUser, LeaveOthers, AddMember, SetJoined, SetBusy, Answer, Leave, Release,
         SetLeft, Renew, Reclaim, End, EndWrite, EndRelease, Cancel, CancelWrite, Expire
<1> QED BY <1>1, <1>2, <1>3, PastFollows

(* A handler that begins *)
LEMMA BeginPast ==
  ASSUME IInv, PastInv, NEW t \in Handlers, NEW step, NEW c \in Calls, NEW u, Begin(t, step, c, u),
         Created(c), UNCHANGED calls,
         \/ step \in {"addUser", "renew"} /\ u \in Users
         \/ step = "leave" /\ u \in Reporters
         \/ step \in {"end", "cancel", "expire"},
         \A x \in Calls : graces'[x] > 0 => graces[x] > 0,
         \A v \in Users, x \in Calls : <<v, x>> \in windows' => <<v, x>> \in windows \/ x = c
  PROVE  PastInv' /\ Remembers
<1>1. DocsInv' /\ Remembers /\ Created(c)'
  BY UnchangedRemembers DEF PastInv, Created
<1>2. /\ Others(t) /\ tasks'[t].step = step /\ tasks'[t].call = c /\ tasks'[t].user = u
      /\ tasks'[t].todo = {} /\ tasks'[t].resume = None
  BY BeginFields DEF IInv
<1>3. Knows(tasks[t])'
  BY <1>1, <1>2 DEF Knows
<1> QED BY <1>1, <1>2, <1>3, PastFollows

(* No handler moves. *)
LEMMA IdlePast ==
  ASSUME IInv, PastInv, DocsInv', Remembers, UNCHANGED <<tasks, graces>>, windows' \subseteq windows
  PROVE  PastInv'
<1>1. ASSUME NEW s \in Handlers
      PROVE  Knows(tasks[s])'
  <2>1. PICK k \in Task : k = tasks[s] /\ Knows(k)'
    BY StillKnows
  <2> QED BY <2>1 DEF Knows
<1> QED BY <1>1 DEF PastInv, Remembers

LEMMA SweepPast ==
  ASSUME IInv, PastInv, NEW c \in Calls, Sweep(c)
  PROVE  PastInv' /\ Remembers
<1> DEFINE expired == In(c) \cap calls[c].lapsed
           k == [Idle EXCEPT !.step = "sweepMark", !.call = c, !.todo = expired,
                             !.seen = [See(c) EXCEPT !.in = @ \ expired]]
<1>0. Sweeper \in Handlers /\ TasksOK
  BY DEF Handlers, IInv
<1>1. tasks' = [tasks EXCEPT ![Sweeper] = k] /\ UNCHANGED <<calls, windows, graces>> /\ Created(c)
  BY DEF Sweep, Running, Created
<1>2. k.step = "sweepMark" /\ k.call = c /\ k.todo = expired /\ k.resume = None
  BY DEF Idle
<1> HIDE DEF k
<1>3. Others(Sweeper) /\ tasks'[Sweeper] = k
  BY <1>0, <1>1 DEF TasksOK, Others
<1>4. DocsInv' /\ Remembers /\ Created(c)' /\ \A v \in expired : v \in Users /\ Entered(c, v)'
  BY <1>1, UnchangedRemembers DEF PastInv, Created, Entered, In
<1>5. Knows(tasks[Sweeper])'
  BY <1>2, <1>3, <1>4 DEF Knows
<1> QED BY <1>0, <1>1, <1>3, <1>4, <1>5, PastFollows

(* What the sweep marks, and what becomes of the handler *)
LEMMA SweepMarkFields ==
  ASSUME IInv, SweepMark
  PROVE  /\ tasks[Sweeper].step = "sweepMark" /\ Others(Sweeper)
         /\ \E u \in tasks[Sweeper].todo :
              /\ SetUser(tasks[Sweeper].call, u, "timeout")
              /\ tasks'[Sweeper].step = "sweepRelease" /\ tasks'[Sweeper].user = u
              /\ tasks'[Sweeper].call = tasks[Sweeper].call /\ tasks'[Sweeper].resume = tasks[Sweeper].resume
              /\ tasks'[Sweeper].todo = tasks[Sweeper].todo \ {u}
<1>0. Sweeper \in Handlers /\ TasksOK
  BY DEF Handlers, IInv
<1>1. PICK u \in tasks[Sweeper].todo :
        /\ SetUser(tasks[Sweeper].call, u, "timeout")
        /\ tasks' = [tasks EXCEPT ![Sweeper] =
                       [tasks[Sweeper] EXCEPT !.step = "sweepRelease", !.user = u, !.todo = @ \ {u}]]
  BY DEF SweepMark
<1> DEFINE k == [tasks[Sweeper] EXCEPT !.step = "sweepRelease", !.user = u, !.todo = @ \ {u}]
<1>2. /\ k.step = "sweepRelease" /\ k.user = u /\ k.call = tasks[Sweeper].call
      /\ k.resume = tasks[Sweeper].resume /\ k.todo = tasks[Sweeper].todo \ {u}
  BY <1>0 DEF TasksOK, Task
<1>3. tasks' = [tasks EXCEPT ![Sweeper] = k]
  BY <1>1
<1> HIDE DEF k
<1>4. Others(Sweeper) /\ tasks'[Sweeper] = k /\ tasks[Sweeper].step = "sweepMark"
  BY <1>0, <1>3 DEF TasksOK, Others, SweepMark, At
<1> QED BY <1>1, <1>2, <1>4

LEMMA SweepMarkPast ==
  ASSUME IInv, PastInv, SweepMark
  PROVE  PastInv' /\ Remembers
<1>0. Sweeper \in Handlers /\ TypeOK /\ DocsInv
  BY DEF Handlers, IInv, PastInv
<1>1. PICK u \in tasks[Sweeper].todo :
        /\ SetUser(tasks[Sweeper].call, u, "timeout")
        /\ tasks'[Sweeper].step = "sweepRelease" /\ tasks'[Sweeper].user = u
        /\ tasks'[Sweeper].call = tasks[Sweeper].call /\ tasks'[Sweeper].resume = tasks[Sweeper].resume
        /\ tasks'[Sweeper].todo = tasks[Sweeper].todo \ {u}
  BY SweepMarkFields
<1>2. tasks[Sweeper].step = "sweepMark" /\ Others(Sweeper)
  BY SweepMarkFields
<1>3. /\ tasks[Sweeper].call \in Calls /\ Created(tasks[Sweeper].call) /\ tasks[Sweeper].resume = None
      /\ u \in Users /\ Entered(tasks[Sweeper].call, u)
  BY <1>0, <1>2 DEF IInv, TasksOK, TaskInv, PastInv, Knows
<1>4. DocsInv' /\ Remembers
  BY <1>0, <1>1, <1>3, SetUserRemembers
<1>5. PICK k \in Task : k = tasks[Sweeper] /\ TaskInv(k) /\ Knows(k) /\ Knows(k)'
  BY <1>0, <1>4, StillKnows
<1>6. Entered(k.call, u)'
  BY <1>3, <1>4, <1>5 DEF Remembers
<1>7. Knows(tasks[Sweeper])'
  BY <1>1, <1>2, <1>3, <1>5, <1>6 DEF Knows
<1> QED BY <1>0, <1>2, <1>4, <1>7, PastFollows DEF SweepMark

LEMMA SweepReleaseFields ==
  ASSUME IInv, SweepRelease
  PROVE  /\ tasks[Sweeper].step = "sweepRelease" /\ Others(Sweeper) /\ UNCHANGED calls
         /\ ReleaseBusy(tasks[Sweeper].user)
         /\ \/ tasks'[Sweeper] = Idle
            \/ /\ SameLoop(tasks'[Sweeper], tasks[Sweeper])
               /\ \/ tasks'[Sweeper].step = "sweepMark"
                  \/ tasks'[Sweeper].step = "end"
<1>0. Sweeper \in Handlers /\ TasksOK
  BY DEF Handlers, IInv
<1>1. /\ tasks[Sweeper].step = "sweepRelease" /\ UNCHANGED calls
      /\ Go(Sweeper, "sweepMark") \/ Finish(Sweeper) \/ Go(Sweeper, "end")
      /\ ReleaseBusy(tasks[Sweeper].user)
  BY DEF SweepRelease, At
<1>2. CASE Go(Sweeper, "sweepMark")
  BY <1>0, <1>1, <1>2, GoFields
<1>3. CASE Finish(Sweeper)
  BY <1>0, <1>1, <1>3, FinishFields
<1>4. CASE Go(Sweeper, "end")
  BY <1>0, <1>1, <1>4, GoFields
<1> QED BY <1>1, <1>2, <1>3, <1>4

LEMMA SweepReleasePast ==
  ASSUME IInv, PastInv, SweepRelease
  PROVE  PastInv' /\ Remembers
<1>0. Sweeper \in Handlers
  BY DEF Handlers
<1>1. DocsInv' /\ Remembers
  BY SweepReleaseFields, UnchangedRemembers DEF PastInv
<1>2. PICK k \in Task : k = tasks[Sweeper] /\ TaskInv(k) /\ Knows(k) /\ Knows(k)'
  BY <1>0, <1>1, StillKnows
<1>3. k.step = "sweepRelease" /\ k.resume = None
  BY <1>2, SweepReleaseFields DEF TaskInv
<1>4. Knows(tasks[Sweeper])'
  <2>1. CASE tasks'[Sweeper] = Idle
    BY <2>1, IdleKnows DEF Knows
  <2>2. CASE tasks'[Sweeper] # Idle
    BY <1>2, <1>3, <2>2, SweepReleaseFields DEF SameLoop, Knows
  <2> QED BY <2>1, <2>2
<1> QED BY <1>0, <1>1, <1>4, SweepReleaseFields, PastFollows DEF SweepRelease

LEMMA OutsidePast ==
  ASSUME IInv, PastInv, NEW u \in Users, NEW c \in Calls, Invite(c, u) \/ CloseWindow(u, c) \/ Lapse(c, u)
  PROVE  PastInv' /\ Remembers
<1>0. TypeOK /\ DocsInv
  BY DEF IInv, PastInv
<1>1. CASE Invite(c, u)
  BY <1>0, <1>1, EnsureMemberRemembers, IdlePast DEF Invite, Created
<1>2. CASE CloseWindow(u, c)
  BY <1>0, <1>2, UnchangedRemembers, IdlePast DEF CloseWindow
<1>3. CASE Lapse(c, u)
  <2>1. PICK lapsed : calls' = [calls EXCEPT ![c].lapsed = lapsed]
    BY <1>3 DEF Lapse
  <2> QED BY <1>0, <1>3, <2>1, LapseRemembers, IdlePast DEF Lapse
<1> QED BY <1>1, <1>2, <1>3

LEMMA CrashPast ==
  ASSUME IInv, PastInv, Crash
  PROVE  PastInv' /\ Remembers
<1>1. DocsInv' /\ Remembers
  BY UnchangedRemembers DEF Crash, PastInv
<1>2. PICK dead \in SUBSET Handlers, lost \in SUBSET Calls :
        /\ tasks' = [t \in Handlers |-> IF t \in dead THEN Idle ELSE tasks[t]]
        /\ graces' = [c \in Calls |-> IF c \in lost THEN 0 ELSE graces[c]]
  BY DEF Crash
<1>3. ASSUME NEW s \in Handlers
      PROVE  Knows(tasks[s])'
  <2>1. PICK k \in Task : k = tasks[s] /\ Knows(k)'
    BY <1>1, StillKnows
  <2>2. tasks'[s] = Idle \/ tasks'[s] = k
    BY <1>2, <2>1
  <2> QED BY <2>1, <2>2, IdleKnows DEF Knows
<1>4. \A c \in Calls : graces'[c] > 0 => graces[c] > 0
  BY <1>2
<1> QED BY <1>1, <1>3, <1>4 DEF PastInv, Remembers, Crash

LEMMA PastInit == Init => PastInv
<1> SUFFICES ASSUME Init PROVE PastInv
  OBVIOUS
<1>1. DocsInv
  BY DEF Init, DocsInv, Created, Entered, Running, NoCall
<1>2. \A t \in Handlers : Knows(tasks[t])
  BY IdleKnows DEF Init
<1> QED BY <1>1, <1>2 DEF Init, PastInv

LEMMA PastStep == IInv /\ PastInv /\ [Next]_vars => PastInv' /\ Remembers
<1> SUFFICES ASSUME IInv, PastInv, [Next]_vars PROVE PastInv' /\ Remembers
  OBVIOUS
<1>0. TypeOK /\ DocsInv /\ Clock \in Handlers
  BY DEF IInv, PastInv, Handlers
<1>1. ASSUME NEW t \in Handlers, Handle(t)
      PROVE  PastInv' /\ Remembers
  BY <1>1, HandlePast
<1>2. ASSUME NEW t \in Tasks, NEW u \in Users, NEW c \in Calls, Request(t, u, c)
      PROVE  PastInv' /\ Remembers
  <2>0. t \in Handlers
    BY DEF Handlers
  <2>1. CASE Join(t, u, c)
    BY <2>0, <2>1, BeginPast DEF Join, Created
  <2>2. CASE ReportLeave(t, u, c)
    BY <2>0, <2>2, BeginPast DEF ReportLeave, PastInv
  <2>3. CASE Heartbeat(t, u, c)
    BY <2>0, <2>3, BeginPast DEF Heartbeat, Running, Created
  <2> QED BY <1>2, <2>1, <2>2, <2>3 DEF Request
<1>3. ASSUME NEW t \in Tasks, NEW c \in Calls, RequestCancel(t, c)
      PROVE  PastInv' /\ Remembers
  BY <1>3, BeginPast DEF RequestCancel, Created, Handlers
<1>4. ASSUME NEW c \in Calls, GraceOver(c)
      PROVE  PastInv' /\ Remembers
  <2>1. /\ Created(c) /\ UNCHANGED <<calls, windows>>
        /\ \A x \in Calls : graces'[x] > 0 => graces[x] > 0
    BY <1>0, <1>4 DEF GraceOver, PastInv, TypeOK
  <2>2. CASE Begin(Clock, "end", c, None)
    BY <1>0, <2>1, <2>2, BeginPast
  <2>3. CASE UNCHANGED tasks
    <3>1. DocsInv' /\ Remembers
      BY <1>0, <2>1, UnchangedRemembers
    <3>2. ASSUME NEW s \in Handlers
          PROVE  Knows(tasks[s])'
      <4>1. PICK k \in Task : k = tasks[s] /\ Knows(k)'
        BY <3>1, StillKnows
      <4> QED BY <2>3, <4>1 DEF Knows
    <3> QED BY <2>1, <3>1, <3>2 DEF PastInv, Remembers
  <2> QED BY <1>4, <2>2, <2>3 DEF GraceOver
<1>5. ASSUME NEW c \in Calls, RingOver(c)
      PROVE  PastInv' /\ Remembers
  <2>1. CASE calls[c].status = "calling"
    BY <1>0, <1>5, <2>1, BeginPast DEF RingOver, Created
  <2>2. CASE calls[c].status # "calling"
    BY <1>0, <1>5, <2>2, UnchangedRemembers, IdlePast DEF RingOver
  <2> QED BY <2>1, <2>2
<1>6. ASSUME NEW c \in Calls, FindLongRunning(c)
      PROVE  PastInv' /\ Remembers
  BY <1>0, <1>6, BeginPast DEF FindLongRunning, Created
<1>7. ASSUME NEW c \in Calls, NEW callee \in Users \cup {None}, Create(c, callee)
      PROVE  PastInv' /\ Remembers
  BY <1>0, <1>7, CreateRemembers, IdlePast DEF Create
<1>8. CASE UNCHANGED vars
  BY <1>0, <1>8, UnchangedRemembers, IdlePast DEF vars
<1> QED BY <1>1, <1>2, <1>3, <1>4, <1>5, <1>6, <1>7, <1>8, SweepPast, SweepMarkPast, SweepReleasePast,
           OutsidePast, CrashPast DEF Next, Timer

-----------------------------------------------------------------------------
(* Claims that overlap                                                     *)

Once == [claim |-> OnACall, stash |-> None]
Twice == [claim |-> OnACall, stash |-> OnACall]

(* Calls alone claim the status: it is claimed twice at most, since there  *)
(* is one place for what a claim displaces.                                *)
ClaimsInv == \A u \in Users : presence[u] \in {NoClaims, Once, Twice}

LEMMA ClaimsDiffer ==
  /\ NoClaims # Once /\ NoClaims # Twice /\ Once # Twice
  /\ Once.claim.id = "video-conference" /\ Twice.claim.id = "video-conference"
<1>1. OnACall # None /\ OnACall.id = "video-conference"
  BY OnACallType, NoPreviousState DEF OnACall
<1>2. NoClaims.claim.id = None /\ None # "video-conference"
  BY EngineAssumption, VideoConferenceAssumption
     DEF EngineAssumption, VideoConferenceAssumption, NoClaims, Unclaimed
<1>3. /\ Once.claim = OnACall /\ Twice.claim = OnACall /\ Once.stash = None /\ Twice.stash = OnACall
  BY DEF Once, Twice
<1> QED BY <1>1, <1>2, <1>3

LEMMA ClaimOnce == Claiming(NoClaims, OnACall, {}) = Once
  BY DEF Claiming, SetActive, Written, NoClaims, Unclaimed, OnACall, Once, Priority, Stashes, Display, Sources

LEMMA ClaimTwice ==
  ASSUME NEW stash, NEW user, user = [claim |-> OnACall, stash |-> stash]
  PROVE  Claiming(user, OnACall, {}) = Twice
  BY DEF Claiming, SetActive, Written, OnACall, Twice, Priority, Stashes, Display, Sources

LEMMA EndNone == Ending(NoClaims, "video-conference", {}) = NoClaims
<1>1. None # "video-conference"
  BY EngineAssumption, VideoConferenceAssumption DEF EngineAssumption, VideoConferenceAssumption
<1> QED BY <1>1 DEF Ending, EndActive, Written, NoClaims, Unclaimed, HasId, Rejected

LEMMA EndOnce == Ending(Once, "video-conference", {}) = NoClaims
  BY DEF Ending, EndActive, Written, NoClaims, Once, OnACall, Usable, ResetToOnline, Rejected

LEMMA EndTwice == Ending(Twice, "video-conference", {}) = Once
<1>1. OnACall # None /\ OnACall.id = "video-conference"
  BY OnACallType, NoPreviousState DEF OnACall
<1>2. Twice.claim = OnACall /\ Twice.stash = OnACall
  BY DEF Twice
<1>3. Usable(Twice.stash, {})
  BY <1>1, <1>2 DEF Usable
<1>4. EndActive(Twice, "video-conference", {}) = Display(OnACall, None)
  BY <1>1, <1>2, <1>3 DEF EndActive
<1> QED BY <1>4 DEF Ending, Written, Display, Once

(* Who will claim the status of u *)
Claims(t, u) == tasks[t].user = u /\ tasks[t].step \in {"claim", "reclaim"}

(* Made, or about to be made *)
One(u) == presence[u] # NoClaims \/ \E t \in Handlers : Claims(t, u)
Two(u) == \/ presence[u] = Twice
          \/ presence[u] = Once /\ \E t \in Handlers : Claims(t, u)
          \/ \E s, t \in Handlers : s # t /\ Claims(s, u) /\ Claims(t, u)

LEMMA ClaimsStay ==
  ASSUME NEW u, presence'[u] = presence[u], \A t \in Handlers : Claims(t, u) => Claims(t, u)'
  PROVE  (One(u) => One(u)') /\ (Two(u) => Two(u)')
  BY DEF One, Two

(* A handler is about to claim. *)
LEMMA ClaimsMore ==
  ASSUME ClaimsInv, NEW u \in Users, presence'[u] = presence[u], NEW t \in Handlers,
         \A s \in Handlers \ {t} : Claims(s, u) => Claims(s, u)',
         ~Claims(t, u), Claims(t, u)'
  PROVE  One(u)' /\ (One(u) => Two(u)')
<1>1. One(u)'
  BY DEF One
<1>2. ASSUME One(u) PROVE Two(u)'
  <2>1. CASE presence[u] = NoClaims
    <3>1. PICK s \in Handlers : Claims(s, u)
      BY <1>2, <2>1 DEF One
    <3>2. s # t /\ Claims(s, u)'
      BY <3>1
    <3> QED BY <3>2 DEF Two
  <2>2. CASE presence[u] = Once \/ presence[u] = Twice
    BY <2>2 DEF Two
  <2> QED BY <2>1, <2>2 DEF ClaimsInv
<1> QED BY <1>1, <1>2

(* It claims. *)
LEMMA ClaimMade ==
  ASSUME ClaimsInv, presence \in [Users -> Owner], NEW u \in Users, NEW t \in Handlers, ClaimBusy(u),
         \A s \in Handlers \ {t} : Claims(s, u) => Claims(s, u)'
  PROVE  One(u)' /\ (Two(u) => Two(u)') /\ presence'[u] \in {Once, Twice}
<1>1. presence'[u] = Claiming(presence[u], OnACall, {})
  BY DEF ClaimBusy
<1>2. CASE presence[u] = NoClaims
  <2>1. presence'[u] = Once
    BY <1>1, <1>2, ClaimOnce
  <2>2. ASSUME Two(u) PROVE Two(u)'
    <3>1. PICK r, s \in Handlers : r # s /\ Claims(r, u) /\ Claims(s, u)
      BY <1>2, <2>2, ClaimsDiffer DEF Two
    <3>2. \E x \in Handlers : Claims(x, u)'
      BY <3>1
    <3> QED BY <2>1, <3>2 DEF Two
  <2> QED BY <2>1, <2>2, ClaimsDiffer DEF One
<1>3. CASE presence[u] \in {Once, Twice}
  <2>1. presence'[u] = Twice
    BY <1>1, <1>3, ClaimTwice DEF Once, Twice
  <2> QED BY <2>1, ClaimsDiffer DEF One, Two
<1> QED BY <1>2, <1>3 DEF ClaimsInv

(* A claim is released. *)
LEMMA ClaimReleased ==
  ASSUME ClaimsInv, presence \in [Users -> Owner], NEW u \in Users, ReleaseBusy(u),
         \A s \in Handlers : Claims(s, u) => Claims(s, u)'
  PROVE  (Two(u) => One(u)') /\ presence'[u] \in {NoClaims, Once}
<1>1. presence'[u] = Ending(presence[u], "video-conference", {})
  BY DEF ReleaseBusy
<1>2. CASE presence[u] = Twice
  BY <1>1, <1>2, EndTwice, ClaimsDiffer DEF One
<1>3. CASE presence[u] \in {NoClaims, Once}
  <2>1. presence'[u] = NoClaims
    BY <1>1, <1>3, EndNone, EndOnce
  <2>2. ASSUME Two(u) PROVE One(u)'
    <3>1. \E t \in Handlers : Claims(t, u)
      BY <1>3, <2>2, ClaimsDiffer DEF Two
    <3> QED BY <3>1 DEF One
  <2> QED BY <2>1, <2>2
<1> QED BY <1>2, <1>3 DEF ClaimsInv

-----------------------------------------------------------------------------
(* Steps that neither join, leave, claim nor release                       *)

Begins(t) ==
    /\ tasks[t].step = "idle"
    /\ \/ tasks'[t].step \in {"addUser", "leave", "renew"} /\ tasks'[t].resume = None /\ t \in Tasks
       \/ tasks'[t].step \in {"cancel", "end", "expire"} /\ tasks'[t].resume = None
       \/ /\ t = Sweeper /\ tasks'[t].step = "sweepMark" /\ tasks'[t].resume = None
          /\ tasks'[t].todo \subseteq In(tasks'[t].call)

SameIn == \A c \in Calls, u \in Users : (u \in In(c))' = (u \in In(c))

Aside == /\ SameIn /\ UNCHANGED <<presence, crashes>>
         /\ \E t \in Handlers : Others(t) /\ (tasks'[t] = tasks[t] \/ Begins(t))

LEMMA BeginAside ==
  ASSUME IInv, NEW t \in Handlers, NEW step, NEW c, NEW u, Begin(t, step, c, u),
         \/ step \in {"addUser", "leave", "renew"} /\ t \in Tasks
         \/ step \in {"cancel", "end", "expire"},
         UNCHANGED <<calls, presence, crashes>>
  PROVE  Aside
<1>1. Others(t) /\ Begins(t)
  BY BeginFields DEF IInv, Begins
<1> QED BY <1>1 DEF Aside, SameIn, In

LEMMA IdleAside ==
  ASSUME UNCHANGED <<tasks, presence, crashes>>, SameIn
  PROVE  Aside
<1>1. Clock \in Handlers
  BY DEF Handlers
<1> QED BY <1>1 DEF Aside, Others

LEMMA SweepAside ==
  ASSUME IInv, NEW c \in Calls, Sweep(c)
  PROVE  Aside
<1> DEFINE expired == In(c) \cap calls[c].lapsed
           k == [Idle EXCEPT !.step = "sweepMark", !.call = c, !.todo = expired,
                             !.seen = [See(c) EXCEPT !.in = @ \ expired]]
<1>0. Sweeper \in Handlers /\ TasksOK
  BY DEF Handlers, IInv
<1>1. tasks' = [tasks EXCEPT ![Sweeper] = k] /\ UNCHANGED <<calls, presence, crashes>> /\ tasks[Sweeper].step = "idle"
  BY DEF Sweep, At
<1>2. k.step = "sweepMark" /\ k.call = c /\ k.todo = expired /\ k.resume = None
  BY DEF Idle
<1> HIDE DEF k
<1>3. Others(Sweeper) /\ tasks'[Sweeper] = k
  BY <1>0, <1>1 DEF TasksOK, Others
<1>4. expired \subseteq In(c)
  OBVIOUS
<1> HIDE DEF expired
<1>5. Begins(Sweeper)
  BY <1>1, <1>2, <1>3, <1>4 DEF Begins
<1> QED BY <1>0, <1>1, <1>3, <1>5 DEF Aside, SameIn, In

LEMMA OutsideAside ==
  ASSUME IInv, NEW u \in Users, NEW c \in Calls, Invite(c, u) \/ CloseWindow(u, c) \/ Lapse(c, u)
  PROVE  Aside
<1>0. calls \in [Calls -> Call]
  BY DEF IInv, TypeOK
<1>1. CASE Invite(c, u)
  <2>1. ASSUME NEW x \in Calls, NEW v \in Users
        PROVE  calls'[x].users[v] = "in" <=> calls[x].users[v] = "in"
    <3> DEFINE d == [calls[c] EXCEPT !.users[u] = IF @ = "none" THEN "invited" ELSE @]
    <3>1. calls' = [calls EXCEPT ![c] = d]
      BY <1>1 DEF Invite, EnsureMember
    <3>2. d.users[v] = IF v = u /\ calls[c].users[u] = "none" THEN "invited" ELSE calls[c].users[v]
      BY <1>0 DEF Call
    <3> HIDE DEF d
    <3> QED BY <1>0, <3>1, <3>2
  <2> QED BY <1>1, <2>1, IdleAside DEF SameIn, In, Invite
<1>2. CASE CloseWindow(u, c)
  BY <1>2, IdleAside DEF CloseWindow, SameIn, In
<1>3. CASE Lapse(c, u)
  <2>1. ASSUME NEW x \in Calls
        PROVE  calls'[x].users = calls[x].users
    <3> DEFINE d == [calls[c] EXCEPT !.lapsed = calls[c].lapsed \cup {u}]
    <3>1. calls' = [calls EXCEPT ![c] = d]
      BY <1>3 DEF Lapse
    <3>2. d.users = calls[c].users
      BY <1>0 DEF Call
    <3> HIDE DEF d
    <3> QED BY <1>0, <3>1, <3>2
  <2> QED BY <1>3, <2>1, IdleAside DEF SameIn, In, Lapse
<1> QED BY <1>1, <1>2, <1>3

LEMMA CreateAside ==
  ASSUME IInv, PastInv, NEW c \in Calls, NEW callee, Create(c, callee)
  PROVE  Aside
<1>1. \A u \in Users : u \notin In(c) /\ (u \notin In(c))'
  BY CreateRemembers DEF IInv, PastInv, In, Entered
<1>2. \A x \in Calls \ {c} : calls'[x] = calls[x]
  BY DEF Create
<1>3. SameIn
  <2>1. ASSUME NEW x \in Calls, NEW u \in Users
        PROVE  (u \in In(x))' = (u \in In(x))
    <3>1. CASE x = c
      BY <1>1, <3>1
    <3>2. CASE x # c
      BY <1>2, <3>2 DEF In
    <3> QED BY <3>1, <3>2
  <2> QED BY <2>1 DEF SameIn
<1> QED BY <1>3, IdleAside DEF Create

LEMMA StepKinds ==
  ASSUME IInv, PastInv, [Next]_vars
  PROVE  (\E t \in Handlers : Handle(t)) \/ SweepMark \/ SweepRelease \/ Aside \/ Crash
<1>0. Clock \in Handlers /\ Tasks \subseteq Handlers
  BY DEF Handlers
<1>1. ASSUME NEW t \in Tasks, NEW u \in Users, NEW c \in Calls, Request(t, u, c)
      PROVE  Aside
  BY <1>0, <1>1, BeginAside DEF Request, Join, ReportLeave, Heartbeat
<1>2. ASSUME NEW t \in Tasks, NEW c \in Calls, RequestCancel(t, c)
      PROVE  Aside
  BY <1>0, <1>2, BeginAside DEF RequestCancel
<1>3. ASSUME NEW c \in Calls, GraceOver(c)
      PROVE  Aside
  BY <1>0, <1>3, BeginAside, IdleAside DEF GraceOver, SameIn, In
<1>4. ASSUME NEW c \in Calls, RingOver(c)
      PROVE  Aside
  <2>1. CASE calls[c].status = "calling"
    BY <1>0, <1>4, <2>1, BeginAside DEF RingOver
  <2>2. CASE calls[c].status # "calling"
    BY <1>4, <2>2, IdleAside DEF RingOver, SameIn, In
  <2> QED BY <2>1, <2>2
<1>5. ASSUME NEW c \in Calls, FindLongRunning(c)
      PROVE  Aside
  BY <1>0, <1>5, BeginAside DEF FindLongRunning
<1>6. CASE UNCHANGED vars
  BY <1>6, IdleAside DEF vars, SameIn, In
<1> QED BY <1>1, <1>2, <1>3, <1>4, <1>5, <1>6, SweepAside, OutsideAside, CreateAside DEF Next, Timer

-----------------------------------------------------------------------------
(* Steps of handlers, by the state they begin in                           *)

LEMMA HandleAt ==
  ASSUME NEW t \in Handlers, Handle(t)
  PROVE  /\ tasks[t].step = "addMember" => AddMember(t)
         /\ tasks[t].step = "setJoined" => SetJoined(t)
         /\ tasks[t].step \in {"claim", "reclaim"} => SetBusy(t) \/ Reclaim(t)
         /\ tasks[t].step = "leave" => Leave(t)
         /\ tasks[t].step = "setLeft" => SetLeft(t)
         /\ tasks[t].step = "release" => Release(t)
         /\ tasks[t].step \notin {"idle", "sweepMark", "sweepRelease"}
  BY DEF Handle, At, AddUser, LeaveOthers, AddMember, SetJoined, SetBusy, Answer, Leave, SetLeft, Release,
         Renew, Reclaim, End, EndWrite, EndRelease, Cancel, CancelWrite, Expire

(* A step writes at most the entry of its user, ... *)
LEMMA SetUserIn ==
  ASSUME calls \in [Calls -> Call], NEW c \in Calls, NEW u \in Users, NEW entry, SetUser(c, u, entry)
  PROVE  /\ \A x \in Calls, v \in Users : x # c \/ v # u => (v \in In(x))' = (v \in In(x))
         /\ (u \in In(c))' = (entry = "in") /\ calls'[c].users[u] = entry
<1> DEFINE d == [calls[c] EXCEPT !.users[u] = entry, !.lapsed = @ \ {u}]
<1>1. \A v \in Users : d.users[v] = IF v = u THEN entry ELSE calls[c].users[v]
  BY DEF Call
<1>2. calls' = [calls EXCEPT ![c] = d]
  BY DEF SetUser
<1> HIDE DEF d
<1> QED BY <1>1, <1>2 DEF In

LEMMA EnsureMemberIn ==
  ASSUME calls \in [Calls -> Call], NEW c, NEW u, EnsureMember(c, u)
  PROVE  SameIn
<1>1. ASSUME NEW x \in Calls, NEW v \in Users
      PROVE  calls'[x].users[v] = "in" <=> calls[x].users[v] = "in"
  <2> DEFINE d == [calls[x] EXCEPT !.users[u] = IF @ = "none" THEN "invited" ELSE @]
  <2>1. calls'[x] = d \/ calls'[x] = calls[x]
    BY DEF EnsureMember
  <2>2. d.users[v] = IF v = u /\ calls[x].users[u] = "none" THEN "invited" ELSE calls[x].users[v]
    BY DEF Call
  <2> HIDE DEF d
  <2> QED BY <2>1, <2>2
<1> QED BY <1>1 DEF SameIn, In

LEMMA SetOverIn ==
  ASSUME calls \in [Calls -> Call], NEW c, NEW status, SetOver(c, status)
  PROVE  SameIn
<1>1. ASSUME NEW x \in Calls
      PROVE  calls'[x].users = calls[x].users
  <2> DEFINE d == [calls[x] EXCEPT !.status = status, !.over = TRUE]
  <2>1. calls'[x] = d \/ calls'[x] = calls[x]
    BY DEF SetOver
  <2>2. d.users = calls[x].users
    BY DEF Call
  <2> HIDE DEF d
  <2> QED BY <2>1, <2>2
<1> QED BY <1>1 DEF SameIn, In

(* ... only a join and a renewal put anybody in, and only a reported leave *)
(* gets anybody out.                                                       *)
LEMMA HandleIn ==
  ASSUME IInv, PastInv, NEW t \in Handlers, Handle(t)
  PROVE  SameIn \/ SetJoined(t) \/ SetLeft(t) \/ Renew(t)
<1>0. calls \in [Calls -> Call]
  BY DEF IInv, TypeOK
<1>1. CASE UNCHANGED calls
  BY <1>1 DEF SameIn, In
<1>2. CASE AddMember(t)
  BY <1>0, <1>1, <1>2, EnsureMemberIn DEF AddMember
<1>3. CASE Answer(t)
  <2>1. ASSUME NEW x \in Calls
        PROVE  calls'[x].users = calls[x].users
    <3> DEFINE d == [calls[x] EXCEPT !.status = "started"]
    <3>1. calls'[x] = d \/ calls'[x] = calls[x]
      BY <1>3 DEF Answer
    <3>2. d.users = calls[x].users
      BY <1>0 DEF Call
    <3> HIDE DEF d
    <3> QED BY <3>1, <3>2
  <2> QED BY <2>1 DEF SameIn, In
<1>4. CASE EndWrite(t) \/ CancelWrite(t) \/ Expire(t)
  BY <1>0, <1>4, SetOverIn DEF EndWrite, CancelWrite, Expire
<1>5. UNCHANGED calls \/ AddMember(t) \/ SetJoined(t) \/ SetLeft(t) \/ Answer(t) \/ Renew(t)
      \/ EndWrite(t) \/ CancelWrite(t) \/ Expire(t)
  BY DEF Handle, AddUser, LeaveOthers, SetBusy, Leave, Release, Reclaim, End, EndRelease, Cancel
<1> QED BY <1>1, <1>2, <1>3, <1>4, <1>5

(* An end frees its handler, or goes on to release the claims. *)
LEMMA EndFields ==
  ASSUME TasksOK, NEW t \in Handlers, EndWrite(t) \/ EndRelease(t)
  PROVE  \/ tasks'[t] = Idle
         \/ tasks'[t].step = "endRelease" /\ tasks'[t].user = tasks[t].user /\ tasks'[t].resume = tasks[t].resume
<1> DEFINE k(todo) == [tasks[t] EXCEPT !.step = "endRelease", !.todo = todo]
<1>1. ASSUME NEW todo
      PROVE  /\ k(todo).step = "endRelease" /\ k(todo).user = tasks[t].user /\ k(todo).resume = tasks[t].resume
  BY DEF TasksOK, Task
<1>2. CASE EndWrite(t)
  <2>1. CASE tasks' = [tasks EXCEPT ![t].step = "endRelease", ![t].todo = tasks[t].seen.in]
    <3>1. tasks' = [tasks EXCEPT ![t] = k(tasks[t].seen.in)]
      BY <2>1 DEF TasksOK
    <3> HIDE DEF k
    <3> QED BY <1>1, <3>1 DEF TasksOK
  <2> QED BY <1>2, <2>1, FinishFields DEF EndWrite
<1>3. CASE EndRelease(t)
  <2>1. PICK u : Finish(t) \/ tasks' = [tasks EXCEPT ![t].todo = @ \ {u}]
    BY <1>3 DEF EndRelease
  <2>2. CASE tasks' = [tasks EXCEPT ![t].todo = @ \ {u}]
    BY <1>3, <2>2 DEF EndRelease, At, TasksOK, Task
  <2> QED BY <2>1, <2>2, FinishFields
<1> QED BY <1>2, <1>3

(* Who is about to claim after a step has just been put in. *)
LEMMA HandleAfter ==
  ASSUME IInv, PastInv, NEW t \in Handlers, Handle(t)
  PROVE  /\ Others(t)
         /\ tasks'[t].user = tasks[t].user \/ tasks'[t] = Idle
         /\ tasks'[t].step \in {"claim", "reclaim"} => SetJoined(t) \/ Renew(t)
         /\ tasks'[t].step \notin {"sweepMark", "sweepRelease"}
<1>0. TasksOK /\ Others(t)
  BY HandleKnows DEF IInv
<1>1. CASE Finish(t)
  BY <1>0, <1>1, FinishFields, IdleFields
<1>2. CASE FinishLeave(t)
  BY <1>0, <1>2, FinishLeaveFields, IdleFields
<1>3. ASSUME NEW step \in Steps \ {"claim", "reclaim", "sweepMark", "sweepRelease"}, NEW seen,
             Go(t, step) \/ GoSeeing(t, step, seen)
      PROVE  tasks'[t].user = tasks[t].user /\ tasks'[t].step = step
  BY <1>0, <1>3, GoFields, GoSeeingFields DEF SameLoop
<1>4. CASE AddUser(t) \/ AddMember(t) \/ Leave(t) \/ SetLeft(t) \/ End(t) \/ Cancel(t) \/ SetBusy(t)
  BY <1>0, <1>1, <1>2, <1>3, <1>4 DEF AddUser, AddMember, Leave, SetLeft, End, Cancel, SetBusy, Steps
<1>5. CASE LeaveOthers(t)
  BY <1>0, <1>3, <1>5, LeaveForFields DEF LeaveOthers, Steps
<1>6. CASE SetJoined(t) \/ Renew(t)
  <2>1. Finish(t) \/ \E step \in {"claim", "reclaim"} : Go(t, step)
    BY <1>6 DEF SetJoined, Renew
  <2> QED BY <1>0, <1>1, <1>6, <2>1, GoFields DEF SameLoop
<1>7. CASE EndWrite(t) \/ EndRelease(t)
  BY <1>0, <1>7, EndFields, IdleFields
<1>8. CASE Answer(t) \/ Release(t) \/ Reclaim(t) \/ CancelWrite(t) \/ Expire(t)
  BY <1>0, <1>1, <1>2, <1>8 DEF Answer, Release, Reclaim, CancelWrite, Expire
<1> QED BY <1>0, <1>4, <1>5, <1>6, <1>7, <1>8 DEF Handle

-----------------------------------------------------------------------------
(* Who has been in one call only                                           *)

(* The user was in another call, or a join of another call has begun to    *)
(* leave this one.                                                         *)
Joins(t, u, c) ==
    /\ tasks[t].user = u
    /\ \/ tasks[t].resume # None /\ tasks[t].resume.call # c
       \/ tasks[t].step \in {"addMember", "setJoined"} /\ tasks[t].call # c
Elsewhere(u, c) ==
    \/ \E d \in Calls \ {c} : Entered(d, u)
    \/ \E t \in Handlers : Joins(t, u, c)

LEMMA ElsewhereStays ==
  ASSUME IInv, PastInv, [Next]_vars, ~Crash, NEW u \in Users, NEW c \in Calls, Elsewhere(u, c)
  PROVE  Elsewhere(u, c)'
<1>0. Remembers /\ TasksOK
  BY PastStep DEF IInv
<1>1. CASE \E d \in Calls \ {c} : Entered(d, u)
  BY <1>0, <1>1 DEF Remembers, Elsewhere
<1>2. ASSUME NEW t \in Handlers, Joins(t, u, c)
      PROVE  Elsewhere(u, c)'
  <2>0. /\ tasks[t].user = u /\ tasks[t] \in Task /\ TaskInv(tasks[t]) /\ Knows(tasks[t])
        /\ tasks[t].step \in {"leave", "setLeft", "release", "addMember", "setJoined"}
    BY <1>0, <1>2 DEF Joins, TasksOK, TaskInv, PastInv
  <2>1. CASE tasks'[t] = tasks[t]
    BY <1>2, <2>1 DEF Joins, Elsewhere
  <2>2. CASE Handle(t)
    <3>1. CASE tasks[t].resume # None
      <4>0. tasks[t].step \in {"leave", "setLeft", "release"} /\ tasks[t].resume.call # c
        BY <1>2, <2>0, <3>1 DEF Joins, TaskInv
      <4>1. CASE FinishLeave(t)
        <5>1. /\ tasks'[t].user = u
              /\ \/ tasks'[t].resume = tasks[t].resume
                 \/ tasks'[t].step = "addMember" /\ tasks'[t].call = tasks[t].resume.call
          BY <1>0, <2>0, <3>1, <4>1, FinishLeaveFields
        <5> QED BY <3>1, <4>0, <5>1 DEF Elsewhere, Joins
      <4>2. CASE Go(t, "release")
        BY <1>0, <2>0, <3>1, <4>0, <4>2, GoFields DEF Elsewhere, Joins, SameLoop
      <4>3. CASE GoSeeing(t, "setLeft", See(tasks[t].call))
        BY <1>0, <2>0, <3>1, <4>0, <4>3, GoSeeingFields DEF Elsewhere, Joins, SameLoop
      <4> QED BY <2>2, <4>0, <4>1, <4>2, <4>3, HandleAt DEF Leave, SetLeft, Release
    <3>2. CASE tasks[t].resume = None /\ tasks[t].step = "addMember"
      <4>0. AddMember(t) /\ tasks[t].call # c /\ tasks[t].call \in Calls
        BY <1>2, <2>0, <2>2, <3>2, HandleAt DEF Joins, TaskInv
      <4>1. CASE u \in tasks[t].seen.in
        <5>1. Entered(tasks[t].call, u)
          BY <2>0, <3>2, <4>1 DEF Knows
        <5>2. PICK d \in Calls \ {c} : d = tasks[t].call
          BY <4>0
        <5> QED BY <1>0, <5>1, <5>2 DEF Remembers, Elsewhere
      <4>2. CASE u \notin tasks[t].seen.in
        <5>1. Go(t, "setJoined")
          BY <2>0, <4>0, <4>2 DEF AddMember
        <5> QED BY <1>0, <2>0, <4>0, <5>1, GoFields DEF Elsewhere, Joins, SameLoop
      <4> QED BY <4>1, <4>2
    <3>3. CASE tasks[t].resume = None /\ tasks[t].step = "setJoined"
      <4>1. SetUser(tasks[t].call, u, "in") /\ tasks[t].call # c /\ tasks[t].call \in Calls
        BY <1>2, <2>0, <2>2, <3>3, HandleAt DEF Joins, TaskInv, SetJoined
      <4>2. calls'[tasks[t].call].users[u] = "in"
        BY <4>1, SetUserIn DEF IInv, TypeOK
      <4> QED BY <4>1, <4>2 DEF Entered, Elsewhere
    <3> QED BY <1>2, <3>1, <3>2, <3>3 DEF Joins
  <2>3. ASSUME NEW s \in Handlers \ {t}, Others(s)
        PROVE  Elsewhere(u, c)'
    BY <2>1, <2>3 DEF Others
  <2>4. CASE SweepMark \/ SweepRelease
    <3>1. /\ Sweeper \in Handlers /\ Others(Sweeper)
          /\ tasks[Sweeper].step \in {"sweepMark", "sweepRelease"}
      BY <2>4, SweepMarkFields, SweepReleaseFields DEF Handlers
    <3> QED BY <2>0, <2>3, <3>1
  <2>5. CASE Aside
    <3>1. PICK s \in Handlers : Others(s) /\ (tasks'[s] = tasks[s] \/ Begins(s))
      BY <2>5 DEF Aside
    <3> QED BY <2>0, <2>1, <2>3, <3>1 DEF Begins
  <2>6. ASSUME NEW s \in Handlers, Handle(s)
        PROVE  Elsewhere(u, c)'
    BY <2>2, <2>3, <2>6, HandleAfter
  <2> QED BY <2>4, <2>5, <2>6, StepKinds
<1> QED BY <1>1, <1>2 DEF Elsewhere

(* A user who has been in one call only, whose departures are not reported *)
Stays(u, c) == u \notin Reporters /\ ~Elsewhere(u, c)

LEMMA NoLeave ==
  ASSUME IInv, PastInv, NEW u \in Users, NEW c \in Calls, Stays(u, c), NEW t \in Handlers,
         tasks[t].user = u
  PROVE  /\ tasks[t].step \notin {"leave", "setLeft", "release"}
         /\ tasks[t].step \in {"setJoined", "claim", "reclaim", "sweepRelease"} => tasks[t].call = c
<1>0. tasks[t] \in Task /\ TaskInv(tasks[t]) /\ Knows(tasks[t])
  BY DEF IInv, TasksOK, PastInv
<1>1. \A d \in Calls : Entered(d, u) => d = c
  BY DEF Stays, Elsewhere
<1>2. tasks[t].step \notin {"leave", "setLeft", "release"}
  <2> SUFFICES ASSUME tasks[t].step \in {"leave", "setLeft", "release"} PROVE FALSE
    OBVIOUS
  <2>1. tasks[t].resume # None
    BY <1>0 DEF Knows, Stays
  <2>2. /\ Entered(tasks[t].call, u) /\ tasks[t].call \in Calls
        /\ tasks[t].resume.call # tasks[t].call
    BY <1>0, <2>1 DEF Knows, TaskInv
  <2>3. tasks[t].resume.call = c
    BY <2>1 DEF Stays, Elsewhere, Joins
  <2> QED BY <1>1, <2>2, <2>3
<1>3. ASSUME tasks[t].step = "setJoined" PROVE tasks[t].call = c
  BY <1>3 DEF Stays, Elsewhere, Joins
<1>4. ASSUME tasks[t].step \in {"claim", "reclaim", "sweepRelease"} PROVE tasks[t].call = c
  BY <1>0, <1>1, <1>4 DEF Knows, TaskInv
<1> QED BY <1>2, <1>3, <1>4

-----------------------------------------------------------------------------
(* Who is in a call is busy                                                *)

Sweeping == tasks[Sweeper].step \in {"sweepMark", "sweepRelease"}

(* Whom the sweep gives up on is in the call until then. *)
SweepInv ==
    crashes = 0 /\ Sweeping =>
      \A u \in tasks[Sweeper].todo, c \in Calls :
        c = tasks[Sweeper].call /\ Stays(u, c) => u \in In(c)

(* A member has a claim, made or about to be made, and one more while the  *)
(* sweep has yet to release one; the sweep releases only what is claimed.  *)
Releasing(u) == tasks[Sweeper].step = "sweepRelease" /\ tasks[Sweeper].user = u
Pays(u, c) ==
    /\ u \in In(c) \/ Releasing(u) => One(u)
    /\ u \in In(c) /\ Releasing(u) => Two(u)
BusyInv ==
    crashes = 0 =>
      \A u \in Users, c \in Calls : Stays(u, c) /\ ~calls[c].over => Pays(u, c)

MembersInv == IInv /\ PastInv /\ ClaimsInv /\ SweepInv /\ BusyInv

LEMMA HandleSweep ==
  ASSUME IInv, PastInv, NEW t \in Handlers, Handle(t)
  PROVE  Sweeping' = Sweeping /\ (Sweeping => tasks'[Sweeper] = tasks[Sweeper])
         /\ \A u : Releasing(u)' = Releasing(u)
<1>1. CASE t = Sweeper
  <2>1. tasks[Sweeper].step \notin {"sweepMark", "sweepRelease"}
    BY <1>1, HandleAt
  <2>2. tasks'[Sweeper].step \notin {"sweepMark", "sweepRelease"}
    BY <1>1, HandleAfter
  <2> QED BY <2>1, <2>2 DEF Sweeping, Releasing
<1>2. CASE t # Sweeper
  <2>1. tasks'[Sweeper] = tasks[Sweeper]
    BY <1>2, HandleAfter DEF Others, Handlers
  <2> QED BY <2>1 DEF Sweeping, Releasing
<1> QED BY <1>1, <1>2

LEMMA AsideSweep ==
  ASSUME IInv, Aside
  PROVE  /\ \A u : Releasing(u)' = Releasing(u)
         /\ \A t \in Handlers : \A u : Claims(t, u)' = Claims(t, u)
         /\ Sweeping' => (Sweeping /\ tasks'[Sweeper] = tasks[Sweeper])
                          \/ tasks'[Sweeper].todo \subseteq In(tasks'[Sweeper].call)
<1>1. PICK t \in Handlers : Others(t) /\ (tasks'[t] = tasks[t] \/ Begins(t))
  BY DEF Aside
<1>2. Sweeper \in Handlers /\ \A s \in Handlers \ {t} : tasks'[s] = tasks[s]
  BY <1>1 DEF Handlers, Others
<1>3. CASE tasks'[t] = tasks[t]
  BY <1>2, <1>3 DEF Releasing, Sweeping, Claims
<1>4. CASE Begins(t)
  <2>1. \A u : ~Claims(t, u) /\ ~Claims(t, u)'
    BY <1>4 DEF Begins, Claims
  <2>2. CASE t = Sweeper
    BY <1>2, <1>4, <2>1, <2>2, VideoConferenceAssumption
       DEF Begins, Releasing, Sweeping, Claims, VideoConferenceAssumption
  <2>3. CASE t # Sweeper
    BY <1>2, <2>1, <2>3 DEF Releasing, Sweeping, Claims
  <2> QED BY <2>2, <2>3
<1> QED BY <1>1, <1>3, <1>4

LEMMA StaysBefore ==
  ASSUME IInv, PastInv, [Next]_vars, ~Crash, NEW u \in Users, NEW c \in Calls, Stays(u, c)'
  PROVE  Stays(u, c)
  BY ElsewhereStays DEF Stays

LEMMA NotOverBefore ==
  ASSUME IInv, PastInv, [Next]_vars, NEW c \in Calls, ~calls'[c].over
  PROVE  ~calls[c].over
  BY PastStep DEF Remembers

(* A step claims or releases the status of one user at most. *)
LEMMA HandlePresence ==
  ASSUME IInv, PastInv, NEW t \in Handlers, Handle(t)
  PROVE  \/ UNCHANGED presence /\ tasks[t].step \notin {"claim", "reclaim"}
         \/ tasks[t].step \in {"claim", "reclaim"} /\ tasks[t].user \in Users /\ ClaimBusy(tasks[t].user)
         \/ tasks[t].step = "release" /\ ReleaseBusy(tasks[t].user)
         \/ tasks[t].step = "endRelease" /\ \E v \in tasks[t].todo : v \in Users /\ ReleaseBusy(v)
<1>0. Knows(tasks[t])
  BY DEF PastInv
<1>1. CASE SetBusy(t) \/ Reclaim(t)
  BY <1>0, <1>1 DEF SetBusy, Reclaim, At, Knows
<1>2. CASE Release(t)
  BY <1>2 DEF Release, At
<1>3. CASE EndRelease(t)
  BY <1>0, <1>3 DEF EndRelease, At, Knows
<1>4. CASE AddUser(t) \/ LeaveOthers(t) \/ AddMember(t) \/ SetJoined(t) \/ Answer(t)
  BY <1>4 DEF AddUser, LeaveOthers, AddMember, SetJoined, Answer, At
<1>5. CASE Leave(t) \/ SetLeft(t) \/ Renew(t) \/ End(t) \/ EndWrite(t) \/ Cancel(t) \/ CancelWrite(t) \/ Expire(t)
  BY <1>5 DEF Leave, SetLeft, Renew, End, EndWrite, Cancel, CancelWrite, Expire, At
<1> QED BY <1>1, <1>2, <1>3, <1>4, <1>5 DEF Handle

LEMMA OthersClaim ==
  ASSUME NEW t, Others(t), NEW u
  PROVE  \A s \in Handlers \ {t} : Claims(s, u)' = Claims(s, u)
  BY DEF Others, Claims

(* The statuses that are not touched *)
LEMMA OnlyOneStatus ==
  ASSUME presence \in [Users -> Owner], NEW v, ClaimBusy(v) \/ ReleaseBusy(v), NEW u \in Users, u # v
  PROVE  presence'[u] = presence[u]
  BY DEF ClaimBusy, ReleaseBusy

LEMMA HandleClaims ==
  ASSUME IInv, PastInv, ClaimsInv, NEW t \in Handlers, Handle(t)
  PROVE  ClaimsInv'
<1>0. Others(t) /\ presence \in [Users -> Owner]
  BY HandleAfter DEF IInv, TypeOK
<1> SUFFICES ASSUME NEW u \in Users
             PROVE  presence'[u] \in {NoClaims, Once, Twice}
  BY DEF ClaimsInv, NoClaims, Once, Twice, OnACall
<1>1. CASE presence'[u] = presence[u]
  BY <1>1 DEF ClaimsInv
<1>2. CASE ClaimBusy(u)
  BY <1>0, <1>2, ClaimMade, OthersClaim
<1>3. CASE ReleaseBusy(u)
  <2>1. presence'[u] = Ending(presence[u], "video-conference", {})
    BY <1>0, <1>3 DEF ReleaseBusy
  <2> QED BY <2>1, EndNone, EndOnce, EndTwice DEF ClaimsInv
<1> QED BY <1>0, <1>1, <1>2, <1>3, HandlePresence, OnlyOneStatus

(* A step gets a member who stays neither in nor out, unless it puts the   *)
(* member in and is about to claim the status.                             *)
LEMMA HandleMember ==
  ASSUME IInv, PastInv, NEW t \in Handlers, Handle(t), NEW u \in Users, NEW c \in Calls, Stays(u, c)
  PROVE  \/ (u \in In(c))' = (u \in In(c))
         \/ (u \in In(c))' /\ UNCHANGED presence /\ ~Claims(t, u) /\ Claims(t, u)'
<1>0. TasksOK /\ calls \in [Calls -> Call] /\ Knows(tasks[t]) /\ TaskInv(tasks[t])
  BY DEF IInv, TypeOK, PastInv, TasksOK
<1>1. CASE SameIn
  BY <1>1 DEF SameIn
<1>2. CASE SetJoined(t)
  <2>1. /\ tasks[t].step = "setJoined" /\ tasks[t].call \in Calls /\ tasks[t].user \in Users
        /\ SetUser(tasks[t].call, tasks[t].user, "in") /\ Go(t, "claim") /\ UNCHANGED presence
    BY <1>0, <1>2 DEF SetJoined, At, TaskInv, Knows
  <2>2. CASE tasks[t].user = u
    <3>1. tasks[t].call = c
      BY <2>1, <2>2, NoLeave
    <3>2. (u \in In(c))'
      BY <1>0, <2>1, <2>2, <3>1, SetUserIn
    <3>3. ~Claims(t, u) /\ Claims(t, u)'
      BY <1>0, <2>1, <2>2, GoFields DEF Claims, SameLoop
    <3> QED BY <2>1, <3>2, <3>3
  <2>3. CASE tasks[t].user # u
    BY <1>0, <2>1, <2>3, SetUserIn
  <2> QED BY <2>2, <2>3
<1>3. CASE SetLeft(t)
  <2>1. /\ tasks[t].step = "setLeft" /\ tasks[t].call \in Calls
        /\ SetUser(tasks[t].call, tasks[t].user, "reported")
    BY <1>0, <1>3 DEF SetLeft, At, TaskInv
  <2>2. tasks[t].user # u
    BY <2>1, NoLeave
  <2>3. CASE tasks[t].user \in Users
    BY <1>0, <2>1, <2>2, <2>3, SetUserIn
  <2>4. CASE tasks[t].user \notin Users
    BY <1>0, <2>1, <2>4, VideoConferenceAssumption DEF Knows, VideoConferenceAssumption
  <2> QED BY <2>3, <2>4
<1>4. CASE Renew(t)
  <2> DEFINE d == tasks[t].call
             v == tasks[t].user
  <2>1. tasks[t].step = "renew" /\ d \in Calls /\ v \in Users /\ UNCHANGED presence
    BY <1>0, <1>4 DEF Renew, At, TaskInv, Knows
  <2>2. CASE ~Renewable(d, v)
    BY <1>4, <2>2 DEF Renew, In
  <2>3. CASE Renewable(d, v) /\ calls[d].users[v] # "timeout"
    <3>1. SetUser(d, v, calls[d].users[v])
      BY <1>4, <2>3 DEF Renew
    <3> QED BY <1>0, <2>1, <3>1, SetUserIn DEF In
  <2>4. CASE Renewable(d, v) /\ calls[d].users[v] = "timeout"
    <3>1. SetUser(d, v, "in") /\ Go(t, "reclaim")
      BY <1>4, <2>4 DEF Renew
    <3>2. CASE v = u
      <4>1. Entered(d, u)
        BY <2>4, <3>2 DEF Entered
      <4>2. d = c
        BY <2>1, <4>1 DEF Stays, Elsewhere
      <4>3. (u \in In(c))'
        BY <1>0, <2>1, <3>1, <3>2, <4>2, SetUserIn
      <4>4. ~Claims(t, u) /\ Claims(t, u)'
        BY <1>0, <2>1, <3>1, <3>2, GoFields DEF Claims, SameLoop
      <4> QED BY <2>1, <4>3, <4>4
    <3>3. CASE v # u
      BY <1>0, <2>1, <3>1, <3>3, SetUserIn
    <3> QED BY <3>2, <3>3
  <2> QED BY <2>2, <2>3, <2>4
<1> QED BY <1>1, <1>2, <1>3, <1>4, HandleIn

(* What is claimed, or about to be, stays so under a step of a handler.    *)
LEMMA HandleKeepsClaims ==
  ASSUME IInv, PastInv, ClaimsInv, NEW t \in Handlers, Handle(t),
         NEW u \in Users, NEW c \in Calls, Stays(u, c), ~calls[c].over
  PROVE  (One(u) => One(u)') /\ (Two(u) => Two(u)')
<1>0. /\ Others(t) /\ presence \in [Users -> Owner] /\ Knows(tasks[t]) /\ TaskInv(tasks[t])
      /\ \A s \in Handlers \ {t} : Claims(s, u)' = Claims(s, u)
  BY HandleAfter, OthersClaim DEF IInv, TypeOK, PastInv, TasksOK
<1>1. CASE presence'[u] = presence[u] /\ ~Claims(t, u)
  BY <1>0, <1>1, ClaimsStay
<1>2. CASE ClaimBusy(u)
  BY <1>0, <1>2, ClaimMade
<1>3. CASE UNCHANGED presence /\ tasks[t].step \notin {"claim", "reclaim"}
  BY <1>1, <1>3 DEF Claims
<1>4. CASE tasks[t].step \in {"claim", "reclaim"} /\ ClaimBusy(tasks[t].user) /\ tasks[t].user # u
  BY <1>0, <1>1, <1>4, OnlyOneStatus DEF Claims
<1>5. CASE tasks[t].step = "release" /\ ReleaseBusy(tasks[t].user)
  <2>1. tasks[t].user # u
    BY <1>5, NoLeave
  <2> QED BY <1>0, <1>1, <1>5, <2>1, OnlyOneStatus DEF Claims
<1>6. ASSUME tasks[t].step = "endRelease", NEW v \in tasks[t].todo, ReleaseBusy(v)
      PROVE  (One(u) => One(u)') /\ (Two(u) => Two(u)')
  <2>1. CASE v = u
    <3>1. tasks[t].call \in Calls /\ Entered(tasks[t].call, u) /\ calls[tasks[t].call].over
      BY <1>0, <1>6, <2>1 DEF Knows, TaskInv
    <3>2. tasks[t].call = c
      BY <3>1 DEF Stays, Elsewhere
    <3> QED BY <3>1, <3>2
  <2>2. CASE v # u
    BY <1>0, <1>1, <1>6, <2>2, OnlyOneStatus DEF Claims
  <2> QED BY <2>1, <2>2
<1> QED BY <1>2, <1>3, <1>4, <1>5, <1>6, HandlePresence

-----------------------------------------------------------------------------
(* Every step keeps the claims and the members together                    *)

LEMMA HandleBusy ==
  ASSUME MembersInv, NEW t \in Handlers, Handle(t), crashes = 0,
         NEW u \in Users, NEW c \in Calls, Stays(u, c), ~calls[c].over
  PROVE  Pays(u, c)'
<1>0. /\ Pays(u, c) /\ Releasing(u)' = Releasing(u) /\ Others(t)
      /\ (One(u) => One(u)') /\ (Two(u) => Two(u)')
  BY HandleSweep, HandleAfter, HandleKeepsClaims DEF MembersInv, BusyInv
<1>1. CASE (u \in In(c))' = (u \in In(c))
  BY <1>0, <1>1 DEF Pays
<1>2. CASE (u \in In(c))' /\ UNCHANGED presence /\ ~Claims(t, u) /\ Claims(t, u)'
  <2>1. One(u)' /\ (One(u) => Two(u)')
    BY <1>0, <1>2, OthersClaim, ClaimsMore DEF MembersInv
  <2> QED BY <1>0, <2>1 DEF Pays
<1> QED BY <1>1, <1>2, HandleMember DEF MembersInv

LEMMA HandleMembers ==
  ASSUME MembersInv, [Next]_vars, ~Crash, NEW t \in Handlers, Handle(t)
  PROVE  ClaimsInv' /\ SweepInv' /\ BusyInv'
<1>0. crashes' = crashes
  BY HandleTypes DEF MembersInv
<1>1. ClaimsInv'
  BY HandleClaims DEF MembersInv
<1>2. SweepInv'
  <2> SUFFICES ASSUME crashes = 0, Sweeping', NEW u \in tasks'[Sweeper].todo, NEW c \in Calls,
                      c = tasks'[Sweeper].call, Stays(u, c)'
               PROVE  (u \in In(c))'
    BY <1>0 DEF SweepInv
  <2>1. Sweeping /\ tasks'[Sweeper] = tasks[Sweeper]
    BY HandleSweep DEF MembersInv
  <2>2. u \in Users
    BY <2>1 DEF MembersInv, IInv, TasksOK, TaskInv, Sweeping, Handlers
  <2>3. Stays(u, c)
    BY <2>2, StaysBefore DEF MembersInv
  <2>4. u \in In(c)
    BY <2>1, <2>3 DEF MembersInv, SweepInv
  <2> QED BY <2>2, <2>3, <2>4, HandleMember DEF MembersInv
<1>3. BusyInv'
  <2> SUFFICES ASSUME crashes = 0, NEW u \in Users, NEW c \in Calls, Stays(u, c)', ~calls'[c].over
               PROVE  Pays(u, c)'
    BY <1>0 DEF BusyInv
  <2>1. Stays(u, c) /\ ~calls[c].over
    BY StaysBefore, NotOverBefore DEF MembersInv
  <2> QED BY <2>1, HandleBusy
<1> QED BY <1>1, <1>2, <1>3

LEMMA SweepMarkMembers ==
  ASSUME MembersInv, [Next]_vars, ~Crash, SweepMark
  PROVE  ClaimsInv' /\ SweepInv' /\ BusyInv'
<1>0. /\ UNCHANGED <<presence, crashes>> /\ Others(Sweeper) /\ Sweeper \in Handlers
      /\ tasks[Sweeper].step = "sweepMark" /\ TaskInv(tasks[Sweeper]) /\ Knows(tasks[Sweeper])
      /\ calls \in [Calls -> Call]
  BY SweepMarkFields DEF SweepMark, MembersInv, IInv, TypeOK, TasksOK, PastInv, Handlers
<1>1. PICK v \in tasks[Sweeper].todo :
        /\ SetUser(tasks[Sweeper].call, v, "timeout")
        /\ tasks'[Sweeper].step = "sweepRelease" /\ tasks'[Sweeper].user = v
        /\ tasks'[Sweeper].call = tasks[Sweeper].call
        /\ tasks'[Sweeper].todo = tasks[Sweeper].todo \ {v}
  BY SweepMarkFields DEF MembersInv
<1>2. v \in Users /\ tasks[Sweeper].call \in Calls /\ Entered(tasks[Sweeper].call, v)
  BY <1>0 DEF Knows, TaskInv
<1>3. \A u \in Users, c \in Calls : u # v \/ c # tasks[Sweeper].call => (u \in In(c))' = (u \in In(c))
  BY <1>0, <1>1, <1>2, SetUserIn
<1>4. ClaimsInv'
  BY <1>0 DEF MembersInv, ClaimsInv, NoClaims, Once, Twice, OnACall
<1>5. SweepInv'
  <2> SUFFICES ASSUME crashes = 0, NEW u \in tasks'[Sweeper].todo, NEW c \in Calls,
                      c = tasks'[Sweeper].call, Stays(u, c)'
               PROVE  (u \in In(c))'
    BY <1>0 DEF SweepInv
  <2>1. u \in tasks[Sweeper].todo /\ u # v /\ u \in Users
    BY <1>0, <1>1 DEF TaskInv
  <2>2. Stays(u, c)
    BY <2>1, StaysBefore DEF MembersInv
  <2>3. u \in In(c)
    BY <1>0, <1>1, <2>1, <2>2 DEF MembersInv, SweepInv, Sweeping
  <2> QED BY <1>3, <2>1, <2>3
<1>6. BusyInv'
  <2> SUFFICES ASSUME crashes = 0, NEW u \in Users, NEW c \in Calls, Stays(u, c)', ~calls'[c].over
               PROVE  Pays(u, c)'
    BY <1>0 DEF BusyInv
  <2>1. Stays(u, c) /\ ~calls[c].over
    BY StaysBefore, NotOverBefore DEF MembersInv
  <2>2. Pays(u, c)
    BY <2>1 DEF MembersInv, BusyInv
  <2>3. \A s \in Handlers : Claims(s, u) => Claims(s, u)'
    BY <1>0 DEF Claims, Others
  <2>4. (One(u) => One(u)') /\ (Two(u) => Two(u)')
    BY <1>0, <2>3, ClaimsStay
  <2>5. CASE u = v
    <3>1. tasks[Sweeper].call = c
      BY <1>2, <2>1, <2>5 DEF Stays, Elsewhere
    <3>2. u \in In(c)
      BY <1>0, <2>1, <2>5, <3>1 DEF MembersInv, SweepInv, Sweeping
    <3>3. (u \notin In(c))'
      BY <1>0, <1>1, <1>2, <2>5, <3>1, SetUserIn
    <3> QED BY <2>2, <2>4, <3>2, <3>3 DEF Pays
  <2>6. CASE u # v
    <3>1. ~Releasing(u)' /\ (u \in In(c))' = (u \in In(c))
      BY <1>1, <1>3, <2>6 DEF Releasing
    <3> QED BY <2>2, <2>4, <3>1 DEF Pays
  <2> QED BY <2>5, <2>6
<1> QED BY <1>4, <1>5, <1>6

LEMMA SweepReleaseMembers ==
  ASSUME MembersInv, [Next]_vars, ~Crash, SweepRelease
  PROVE  ClaimsInv' /\ SweepInv' /\ BusyInv'
<1> DEFINE v == tasks[Sweeper].user
<1>0. /\ UNCHANGED crashes /\ Others(Sweeper) /\ Sweeper \in Handlers
      /\ tasks[Sweeper].step = "sweepRelease" /\ TaskInv(tasks[Sweeper]) /\ v \in Users
      /\ presence \in [Users -> Owner] /\ ReleaseBusy(v) /\ SameIn
  BY SweepReleaseFields DEF SweepRelease, MembersInv, IInv, TypeOK, TasksOK, PastInv, Knows, Handlers, SameIn, In
<1>1. \/ tasks'[Sweeper] = Idle
      \/ /\ SameLoop(tasks'[Sweeper], tasks[Sweeper])
         /\ tasks'[Sweeper].step \in {"sweepMark", "end"}
  BY SweepReleaseFields DEF MembersInv
<1> HIDE DEF v
<1>2. tasks'[Sweeper].step \in {"idle", "sweepMark", "end"}
  BY <1>1, IdleFields
<1>3. \A u \in Users : presence'[u] = presence[u] \/ u = v
  BY <1>0, OnlyOneStatus
<1>4. \A s \in Handlers, u \in Users : Claims(s, u) => Claims(s, u)'
  BY <1>0 DEF Claims, Others
<1>5. ClaimsInv'
  <2> SUFFICES ASSUME NEW u \in Users
               PROVE  presence'[u] \in {NoClaims, Once, Twice}
    BY DEF ClaimsInv, NoClaims, Once, Twice, OnACall
  <2>1. CASE u = v
    <3>1. presence'[u] = Ending(presence[u], "video-conference", {})
      BY <1>0, <2>1 DEF ReleaseBusy
    <3> QED BY <3>1, EndNone, EndOnce, EndTwice DEF MembersInv, ClaimsInv
  <2> QED BY <1>3, <2>1 DEF MembersInv, ClaimsInv
<1>6. SweepInv'
  <2> SUFFICES ASSUME crashes = 0, Sweeping', NEW u \in tasks'[Sweeper].todo, NEW c \in Calls,
                      c = tasks'[Sweeper].call, Stays(u, c)'
               PROVE  (u \in In(c))'
    BY <1>0 DEF SweepInv
  <2>1. u \in tasks[Sweeper].todo /\ c = tasks[Sweeper].call /\ u \in Users
    BY <1>0, <1>1, IdleFields DEF TaskInv, SameLoop
  <2>2. Stays(u, c)
    BY <2>1, StaysBefore DEF MembersInv
  <2>3. u \in In(c)
    BY <1>0, <2>1, <2>2 DEF MembersInv, SweepInv, Sweeping
  <2> QED BY <1>0, <2>1, <2>3 DEF SameIn
<1>7. BusyInv'
  <2> SUFFICES ASSUME crashes = 0, NEW u \in Users, NEW c \in Calls, Stays(u, c)', ~calls'[c].over
               PROVE  Pays(u, c)'
    BY <1>0 DEF BusyInv
  <2>1. Stays(u, c) /\ ~calls[c].over
    BY StaysBefore, NotOverBefore DEF MembersInv
  <2>2. Pays(u, c) /\ (u \in In(c))' = (u \in In(c)) /\ ~Releasing(u)'
    BY <1>0, <1>2, <2>1 DEF MembersInv, BusyInv, SameIn, Releasing
  <2>3. CASE u = v
    <3>1. Releasing(u)
      BY <1>0, <2>3 DEF Releasing, v
    <3>2. Two(u) => One(u)'
      BY <1>0, <1>4, <2>3, ClaimReleased DEF MembersInv
    <3> QED BY <2>2, <3>1, <3>2 DEF Pays
  <2>4. CASE u # v
    <3>1. One(u) => One(u)'
      BY <1>3, <1>4, <2>4, ClaimsStay
    <3> QED BY <2>2, <3>1 DEF Pays
  <2> QED BY <2>3, <2>4
<1> QED BY <1>5, <1>6, <1>7

LEMMA AsideMembers ==
  ASSUME MembersInv, [Next]_vars, ~Crash, Aside
  PROVE  ClaimsInv' /\ SweepInv' /\ BusyInv'
<1>0. /\ SameIn /\ UNCHANGED <<presence, crashes>>
      /\ \A u : Releasing(u)' = Releasing(u)
      /\ \A t \in Handlers : \A u : Claims(t, u)' = Claims(t, u)
  BY AsideSweep DEF Aside, MembersInv
<1>1. ClaimsInv'
  BY <1>0 DEF MembersInv, ClaimsInv, NoClaims, Once, Twice, OnACall
<1>2. SweepInv'
  <2> SUFFICES ASSUME crashes = 0, Sweeping', NEW u \in tasks'[Sweeper].todo, NEW c \in Calls,
                      c = tasks'[Sweeper].call, Stays(u, c)'
               PROVE  (u \in In(c))'
    BY <1>0 DEF SweepInv
  <2>1. CASE Sweeping /\ tasks'[Sweeper] = tasks[Sweeper]
    <3>1. u \in tasks[Sweeper].todo /\ c = tasks[Sweeper].call /\ u \in Users
      BY <2>1 DEF MembersInv, IInv, TasksOK, TaskInv, Sweeping, Handlers
    <3>2. Stays(u, c)
      BY <3>1, StaysBefore DEF MembersInv
    <3>3. u \in In(c)
      BY <2>1, <3>1, <3>2 DEF MembersInv, SweepInv
    <3> QED BY <1>0, <3>1, <3>3 DEF SameIn
  <2>2. CASE tasks'[Sweeper].todo \subseteq In(tasks'[Sweeper].call)
    <3>1. u \in In(c) /\ u \in Users
      BY <2>2 DEF In
    <3> QED BY <1>0, <3>1 DEF SameIn
  <2> QED BY <2>1, <2>2, AsideSweep DEF MembersInv
<1>3. BusyInv'
  <2> SUFFICES ASSUME crashes = 0, NEW u \in Users, NEW c \in Calls, Stays(u, c)', ~calls'[c].over
               PROVE  Pays(u, c)'
    BY <1>0 DEF BusyInv
  <2>1. Stays(u, c) /\ ~calls[c].over
    BY StaysBefore, NotOverBefore DEF MembersInv
  <2>2. (One(u) => One(u)') /\ (Two(u) => Two(u)')
    BY <1>0, ClaimsStay
  <2> QED BY <1>0, <2>1, <2>2 DEF MembersInv, BusyInv, Pays, SameIn
<1> QED BY <1>1, <1>2, <1>3

(* An instance that dies ends the claim that the members are busy. *)
LEMMA CrashMembers ==
  ASSUME MembersInv, Crash
  PROVE  ClaimsInv' /\ SweepInv' /\ BusyInv'
<1>1. crashes' # 0 /\ UNCHANGED presence
  BY DEF Crash, MembersInv, IInv, TypeOK
<1> QED BY <1>1 DEF MembersInv, ClaimsInv, NoClaims, Once, Twice, OnACall, SweepInv, BusyInv

LEMMA MembersNext ==
  ASSUME MembersInv, [Next]_vars
  PROVE  MembersInv'
<1>1. IInv' /\ PastInv'
  BY NextKeeps, PastStep DEF MembersInv
<1>2. ClaimsInv' /\ SweepInv' /\ BusyInv'
  BY StepKinds, HandleMembers, SweepMarkMembers, SweepReleaseMembers, AsideMembers, CrashMembers DEF MembersInv
<1> QED BY <1>1, <1>2 DEF MembersInv

LEMMA MembersInit == Init => MembersInv
<1> SUFFICES ASSUME Init PROVE MembersInv
  OBVIOUS
<1>1. IInv /\ PastInv
  BY InitEstablishes, PastInit
<1>2. ClaimsInv
  BY DEF Init, ClaimsInv
<1>3. tasks[Sweeper].step = "idle"
  BY IdleFields DEF Init, Handlers
<1>4. \A c \in Calls, u \in Users : u \notin In(c)
  BY DEF Init, NoCall, In
<1> QED BY <1>1, <1>2, <1>3, <1>4 DEF MembersInv, SweepInv, Sweeping, BusyInv, Pays, Releasing

LEMMA MembersInvariant == Spec => []MembersInv
<1>1. MembersInv /\ [Next]_vars => MembersInv'
  BY MembersNext
<1> QED BY <1>1, MembersInit, PTL DEF Spec

(* Whoever is in a running call, has been in no other one and waits for no *)
(* handler, is busy, as long as no instance has died (claimBusyForCall,    *)
(* releaseBusyForCall).                                                    *)
THEOREM PresentMembersAreBusy == Spec => []PresentIsBusy
<1>1. ASSUME MembersInv PROVE PresentIsBusy
  <2> SUFFICES ASSUME crashes = 0, NEW u \in Users \ Reporters, Quiet(u),
                      NEW c \in Calls, ~calls[c].over, u \in In(c),
                      \A d \in Calls \ {c} : calls[d].users[u] \in {"none", "invited"}
               PROVE  HasClaim(u)
    BY DEF PresentIsBusy
  <2>1. Stays(u, c)
    BY DEF Stays, Elsewhere, Entered, Joins, Quiet
  <2>2. One(u)
    BY <1>1, <2>1 DEF MembersInv, BusyInv, Pays
  <2>3. presence[u] # NoClaims
    BY <2>2 DEF One, Claims, Quiet
  <2>4. presence[u] \in {Once, Twice}
    BY <1>1, <2>3 DEF MembersInv, ClaimsInv
  <2> QED BY <2>4, ClaimsDiffer DEF HasClaim
<1> QED BY <1>1, MembersInvariant, PTL

-----------------------------------------------------------------------------
(* A join leaves the other calls                                           *)

(* The requests that may put their user in a call *)
Enters(k) == \/ k.step \in {"addUser", "leaveOthers", "addMember", "setJoined", "renew"}
             \/ k.resume # None

(* A user's joins and renewals are handled one at a time. *)
OneEntry == \A s, t \in Tasks :
              s # t /\ Enters(tasks[s]) /\ Enters(tasks[t]) => tasks[s].user # tasks[t].user

(* The other running calls that the user is in, and what a join has yet to *)
(* leave of them: nothing is left of them once it goes on.                 *)
InOther(u, c) == {d \in Calls \ {c} : Running(d) /\ u \in In(d)}
Leaving(k) == k.todo \cup (IF k.step \in {"leave", "setLeft"} THEN {k.call} ELSE {})
LeavesAll(k) ==
    /\ k.step \in {"addMember", "setJoined"} => InOther(k.user, k.call) = {}
    /\ k.resume # None => InOther(k.user, k.resume.call) \subseteq Leaving(k)

(* Only requests join, leave and renew. *)
RequestsInv ==
    \A t \in {Clock, Sweeper} :
      tasks[t].step \notin {"addUser", "leaveOthers", "addMember", "setJoined", "renew",
                            "leave", "setLeft", "release"}

JoinsInv ==
    /\ IInv /\ PastInv /\ RequestsInv
    /\ \A t \in Tasks : LeavesAll(tasks[t])

(* Who is in a call after a step and was not before has joined it, or is   *)
(* back in it.                                                             *)
LEMMA WhoEnters ==
  ASSUME IInv, PastInv, [Next]_vars, NEW u \in Users, NEW c \in Calls, u \notin In(c), (u \in In(c))'
  PROVE  \E s \in Handlers :
           /\ tasks[s].user = u /\ tasks[s].call = c /\ tasks'[s] # tasks[s]
           /\ \/ tasks[s].step = "setJoined"
              \/ tasks[s].step = "renew" /\ calls[c].users[u] = "timeout"
<1>0. calls \in [Calls -> Call]
  BY DEF IInv, TypeOK
<1>1. ~SameIn /\ ~UNCHANGED calls
  BY DEF SameIn, In
<1>2. ~SweepMark
  <2> SUFFICES ASSUME SweepMark PROVE FALSE
    OBVIOUS
  <2>1. PICK v \in tasks[Sweeper].todo : SetUser(tasks[Sweeper].call, v, "timeout")
    BY SweepMarkFields
  <2>2. v \in Users /\ tasks[Sweeper].call \in Calls
    BY SweepMarkFields DEF IInv, TasksOK, TaskInv, Handlers
  <2> QED BY <1>0, <2>1, <2>2, SetUserIn
<1>3. ASSUME NEW s \in Handlers, Handle(s)
      PROVE  /\ tasks[s].user = u /\ tasks[s].call = c /\ tasks'[s] # tasks[s]
             /\ \/ tasks[s].step = "setJoined"
                \/ tasks[s].step = "renew" /\ calls[c].users[u] = "timeout"
  <2>0. TasksOK /\ Knows(tasks[s]) /\ TaskInv(tasks[s])
    BY DEF IInv, PastInv, TasksOK
  <2>1. CASE SetJoined(s)
    <3>1. /\ tasks[s].step = "setJoined" /\ tasks[s].call \in Calls /\ tasks[s].user \in Users
          /\ SetUser(tasks[s].call, tasks[s].user, "in") /\ Go(s, "claim")
      BY <2>0, <2>1 DEF SetJoined, At, TaskInv, Knows
    <3>2. tasks'[s].step = "claim"
      BY <2>0, <3>1, GoFields
    <3> QED BY <1>0, <3>1, <3>2, SetUserIn
  <2>2. CASE SetLeft(s)
    <3>1. tasks[s].step = "setLeft" /\ tasks[s].call \in Calls /\ SetUser(tasks[s].call, tasks[s].user, "reported")
      BY <2>0, <2>2 DEF SetLeft, At, TaskInv
    <3>2. tasks[s].user \in Users
      BY <2>0, <3>1, VideoConferenceAssumption DEF Knows, VideoConferenceAssumption
    <3> QED BY <1>0, <3>1, <3>2, SetUserIn
  <2>3. CASE Renew(s)
    <3> DEFINE d == tasks[s].call
               v == tasks[s].user
    <3>1. tasks[s].step = "renew" /\ d \in Calls /\ v \in Users
      BY <2>0, <2>3 DEF Renew, At, TaskInv, Knows
    <3>2. Renewable(d, v)
      BY <1>1, <2>3 DEF Renew
    <3>3. CASE calls[d].users[v] # "timeout"
      <4>1. SetUser(d, v, calls[d].users[v])
        BY <2>3, <3>2, <3>3 DEF Renew
      <4> QED BY <1>0, <3>1, <4>1, SetUserIn DEF In
    <3>4. CASE calls[d].users[v] = "timeout"
      <4>1. SetUser(d, v, "in") /\ Go(s, "reclaim")
        BY <2>3, <3>2, <3>4 DEF Renew
      <4>2. tasks'[s].step = "reclaim"
        BY <2>0, <4>1, GoFields
      <4> QED BY <1>0, <3>1, <3>4, <4>1, <4>2, SetUserIn
    <3> QED BY <3>3, <3>4
  <2> QED BY <1>1, <1>3, <2>1, <2>2, <2>3, HandleIn
<1>4. ~SweepRelease /\ ~Aside /\ ~Crash
  BY <1>1 DEF SweepRelease, Aside, Crash
<1> QED BY <1>2, <1>3, <1>4, StepKinds

(* The user of a request that puts nobody in, or does not move, gets into  *)
(* no call.                                                                *)
LEMMA InFewer ==
  ASSUME JoinsInv, OneEntry, [Next]_vars, NEW t \in Tasks, Enters(tasks[t]), NEW u, u = tasks[t].user,
         tasks'[t] = tasks[t] \/ tasks[t].step \notin {"setJoined", "renew"}
  PROVE  /\ \A c \in Calls : (u \in In(c))' => u \in In(c)
         /\ \A c : InOther(u, c)' \subseteq InOther(u, c)
<1>0. t \in Handlers /\ u \in Users
  BY DEF JoinsInv, PastInv, Knows, Enters, Handlers
<1>1. ASSUME NEW c \in Calls, (u \in In(c))', u \notin In(c)
      PROVE  FALSE
  <2>1. PICK s \in Handlers :
          tasks[s].user = u /\ tasks'[s] # tasks[s] /\ tasks[s].step \in {"setJoined", "renew"}
    BY <1>0, <1>1, WhoEnters DEF JoinsInv
  <2>2. s \in Tasks /\ Enters(tasks[s])
    BY <2>1 DEF JoinsInv, RequestsInv, Enters, Handlers
  <2> QED BY <2>1, <2>2 DEF OneEntry
<1>2. ASSUME NEW d \in Calls, Running(d)', (u \in In(d))'
      PROVE  Running(d) /\ u \in In(d)
  <2>1. u \in In(d)
    BY <1>1, <1>2
  <2>2. Entered(d, u) /\ ~calls[d].over
    BY <1>2, <2>1, NotOverBefore DEF JoinsInv, Running, Entered, In
  <2>3. Created(d)
    BY <1>0, <2>2 DEF JoinsInv, PastInv, DocsInv
  <2> QED BY <2>1, <2>2, <2>3 DEF JoinsInv, PastInv, DocsInv
<1> QED BY <1>1, <1>2 DEF InOther

(* A handler that does not move has left as much as before, ...            *)
LEMMA LeavesStay ==
  ASSUME JoinsInv, OneEntry, [Next]_vars, NEW t \in Tasks, tasks'[t] = tasks[t]
  PROVE  LeavesAll(tasks[t])'
<1> DEFINE k == tasks[t]
<1>1. LeavesAll(k)
  BY DEF JoinsInv
<1>2. ASSUME Enters(k)
      PROVE  \A c : InOther(k.user, c)' \subseteq InOther(k.user, c)
  <2>1. PICK u : u = k.user
    OBVIOUS
  <2>2. \A c : InOther(u, c)' \subseteq InOther(u, c)
    BY <1>2, <2>1, InFewer
  <2> QED BY <2>1, <2>2 DEF InOther, Running, In
<1> QED BY <1>1, <1>2 DEF LeavesAll, Enters, InOther, Running, In, Leaving

(* ... and so does one that goes on: it leaves the calls that it found,    *)
(* one by one, and gets into no other meanwhile.                           *)
LEMMA HandleLeaves ==
  ASSUME JoinsInv, OneEntry, [Next]_vars, NEW t \in Tasks, Handle(t)
  PROVE  LeavesAll(tasks[t])'
<1>0. /\ t \in Handlers /\ TasksOK /\ tasks[t] \in Task /\ TaskInv(tasks[t]) /\ Knows(tasks[t])
      /\ LeavesAll(tasks[t]) /\ calls \in [Calls -> Call]
  BY DEF JoinsInv, IInv, TypeOK, TasksOK, PastInv, Handlers
<1> PICK j : j = tasks[t]
  OBVIOUS
<1> PICK k : k = tasks'[t]
  OBVIOUS
<1> DEFINE u == j.user
           Goes == /\ k.step \in {"addMember", "setJoined"} => InOther(k.user, k.call)' = {}
                   /\ k.resume # None => InOther(k.user, k.resume.call)' \subseteq Leaving(k)
<1> SUFFICES Goes
  BY DEF LeavesAll, InOther, Running, In, Leaving
<1>1. CASE k.step \notin {"addMember", "setJoined"} /\ k.resume = None
  BY <1>1
<1>2. CASE Finish(t)
  BY <1>0, <1>1, <1>2, FinishFields, IdleFields
<1>3. ASSUME NEW step, step \notin {"addMember", "setJoined"}, NEW seen, j.resume = None,
             Go(t, step) \/ GoSeeing(t, step, seen)
      PROVE  k.step \notin {"addMember", "setJoined"} /\ k.resume = None
  BY <1>0, <1>3, GoFields, GoSeeingFields DEF SameLoop
<1>4. ASSUME Enters(j), j.step \notin {"setJoined", "renew"}
      PROVE  /\ \A c \in Calls : (u \in In(c))' => u \in In(c)
             /\ \A c : InOther(u, c)' \subseteq InOther(u, c)
  BY <1>4, InFewer
<1>5. CASE LeaveOthers(t)
  <2>1. j.step = "leaveOthers" /\ j.resume = None /\ UNCHANGED calls
    BY <1>0, <1>5 DEF LeaveOthers, At, TaskInv
  <2>2. \A c : InOther(u, c)' = InOther(u, c)
    BY <2>1 DEF InOther, Running, In
  <2>3. CASE InOther(u, j.call) = {}
    <3>1. Go(t, "addMember")
      BY <1>5, <2>3 DEF LeaveOthers, InOther
    <3>2. k.step = "addMember" /\ SameLoop(k, j)
      BY <1>0, <3>1, GoFields
    <3> QED BY <2>1, <2>2, <2>3, <3>2 DEF SameLoop
  <2>4. CASE InOther(u, j.call) # {}
    <3>1. LeaveFor(t, [call |-> j.call, seen |-> j.seen], InOther(u, j.call))
      BY <1>5, <2>4 DEF LeaveOthers, InOther
    <3>2. /\ k.step = "leave" /\ k.user = u
          /\ k.resume = [call |-> j.call, seen |-> j.seen]
          /\ k.todo = InOther(u, j.call) \ {k.call}
      BY <1>0, <3>1, LeaveForFields
    <3> QED BY <2>2, <3>2 DEF Leaving
  <2> QED BY <2>3, <2>4
<1>6. CASE AddMember(t)
  <2>1. j.step = "addMember" /\ j.resume = None
    BY <1>0, <1>6 DEF AddMember, At, TaskInv
  <2>2. CASE Go(t, "setJoined")
    <3>1. k.step = "setJoined" /\ SameLoop(k, j)
      BY <1>0, <2>2, GoFields
    <3>2. InOther(u, j.call)' = {}
      BY <1>0, <1>4, <2>1 DEF LeavesAll, Enters
    <3> QED BY <2>1, <3>1, <3>2 DEF SameLoop
  <2> QED BY <1>2, <1>6, <2>2 DEF AddMember
<1>7. ASSUME FinishLeave(t), j.resume # None, InOther(u, j.resume.call)' \subseteq j.todo
      PROVE  Goes
  <2>1. CASE j.todo = {}
    <3>1. /\ k.user = u /\ k.call = j.resume.call /\ k.resume = None
      BY <1>0, <1>7, <2>1, FinishLeaveFields
    <3> QED BY <1>7, <2>1, <3>1
  <2>2. CASE j.todo # {}
    <3>1. /\ k.step = "leave" /\ k.user = u /\ k.resume = j.resume
          /\ k.todo = j.todo \ {k.call}
      BY <1>0, <1>7, <2>2, FinishLeaveFields
    <3> QED BY <1>7, <3>1 DEF Leaving
  <2> QED BY <2>1, <2>2
<1>8. CASE j.resume # None /\ (Leave(t) \/ SetLeft(t) \/ Release(t))
  <2>0. /\ j.step \in {"leave", "setLeft", "release"} /\ j.call \in Calls
        /\ InOther(u, j.resume.call) \subseteq Leaving(j)
        /\ InOther(u, j.resume.call)' \subseteq InOther(u, j.resume.call)
        /\ Enters(j)
    BY <1>0, <1>4, <1>8 DEF TaskInv, LeavesAll, Enters
  <2>1. CASE Leave(t)
    <3>1. j.step = "leave" /\ UNCHANGED calls
      BY <2>1 DEF Leave, At
    <3>2. CASE calls[j.call].over \/ calls[j.call].users[u] \in {"none", "reported", "timeout"}
      <4>1. FinishLeave(t)
        BY <2>1, <3>2 DEF Leave
      <4>2. j.call \notin InOther(u, j.resume.call)
        BY <3>2 DEF InOther, Running, In
      <4>3. InOther(u, j.resume.call)' \subseteq j.todo
        BY <2>0, <4>2 DEF Leaving
      <4> QED BY <1>7, <1>8, <4>1, <4>3
    <3>3. CASE GoSeeing(t, "setLeft", See(j.call))
      <4>1. k.step = "setLeft" /\ SameLoop(k, j)
        BY <1>0, <3>3, GoSeeingFields
      <4> QED BY <2>0, <3>1, <4>1 DEF SameLoop, Leaving
    <3> QED BY <2>1, <3>2, <3>3 DEF Leave
  <2>2. CASE SetLeft(t)
    <3>1. /\ j.step = "setLeft" /\ SetUser(j.call, u, "reported") /\ Go(t, "release") /\ u \in Users
      BY <1>0, <1>8, <2>2 DEF SetLeft, At, Knows
    <3>2. k.step = "release" /\ SameLoop(k, j)
      BY <1>0, <3>1, GoFields
    <3>3. (u \notin In(j.call))'
      BY <1>0, <2>0, <3>1, SetUserIn
    <3>4. j.call \notin InOther(u, j.resume.call)'
      BY <3>3 DEF InOther
    <3> QED BY <2>0, <3>2, <3>4 DEF SameLoop, Leaving
  <2>3. CASE Release(t)
    <3>1. j.step = "release" /\ FinishLeave(t)
      BY <2>3 DEF Release, At
    <3>2. InOther(u, j.resume.call)' \subseteq j.todo
      BY <2>0, <3>1 DEF Leaving
    <3> QED BY <1>7, <1>8, <3>1, <3>2
  <2> QED BY <1>8, <2>1, <2>2, <2>3
<1>9. CASE j.resume = None /\ (Leave(t) \/ SetLeft(t) \/ Release(t))
  <2>1. CASE FinishLeave(t)
    BY <1>2, <1>9, <2>1 DEF FinishLeave
  <2> QED BY <1>1, <1>3, <1>9, <2>1 DEF Leave, SetLeft, Release
<1>10. CASE AddUser(t) \/ SetJoined(t) \/ SetBusy(t) \/ Renew(t) \/ Reclaim(t) \/ Answer(t) \/ End(t)
            \/ Cancel(t) \/ CancelWrite(t) \/ Expire(t)
  <2>1. j.resume = None
    BY <1>0, <1>10 DEF TaskInv, AddUser, SetJoined, SetBusy, Renew, Reclaim, Answer, End, Cancel, CancelWrite, Expire, At
  <2> QED BY <1>1, <1>2, <1>3, <1>10, <2>1
          DEF AddUser, SetJoined, SetBusy, Renew, Reclaim, Answer, End, Cancel, CancelWrite, Expire
<1>11. CASE EndWrite(t) \/ EndRelease(t)
  <2>1. j.resume = None /\ j.step \in {"endWrite", "endRelease"}
    BY <1>0, <1>11 DEF TaskInv, EndWrite, EndRelease, At
  <2> QED BY <1>0, <1>1, <1>11, <2>1, EndFields, IdleFields
<1> QED BY <1>5, <1>6, <1>8, <1>9, <1>10, <1>11 DEF Handle

(* Clock and Sweeper serve no request. *)
LEMMA RequestsKeep ==
  ASSUME JoinsInv, [Next]_vars
  PROVE  RequestsInv'
<1>0. /\ IInv /\ PastInv /\ TasksOK /\ RequestsInv /\ {Clock, Sweeper} \subseteq Handlers
      /\ {Clock, Sweeper} \cap Tasks = {}
  BY VideoConferenceAssumption DEF JoinsInv, IInv, Handlers, VideoConferenceAssumption
<1> DEFINE Entry == {"addUser", "leaveOthers", "addMember", "setJoined", "renew",
                     "leave", "setLeft", "release"}
<1> SUFFICES ASSUME NEW t \in {Clock, Sweeper}
             PROVE  tasks'[t].step \notin Entry
  BY DEF RequestsInv
<1>1. tasks[t].step \notin Entry
  BY <1>0 DEF RequestsInv
<1>2. CASE Handle(t)
  <2>1. CASE Finish(t)
    BY <1>0, <2>1, FinishFields, IdleFields
  <2>2. ASSUME NEW step, step \notin Entry, NEW seen, Go(t, step) \/ GoSeeing(t, step, seen)
        PROVE  tasks'[t].step \notin Entry
    BY <1>0, <2>2, GoFields, GoSeeingFields
  <2>3. CASE EndWrite(t) \/ EndRelease(t)
    BY <1>0, <2>3, EndFields, IdleFields
  <2>4. CASE SetBusy(t) \/ Answer(t) \/ Reclaim(t) \/ End(t) \/ Cancel(t) \/ CancelWrite(t) \/ Expire(t)
    BY <2>1, <2>2, <2>4 DEF SetBusy, Answer, Reclaim, End, Cancel, CancelWrite, Expire
  <2>5. CASE AddUser(t) \/ LeaveOthers(t) \/ AddMember(t) \/ SetJoined(t) \/ Leave(t) \/ SetLeft(t)
             \/ Release(t) \/ Renew(t)
    BY <1>1, <2>5 DEF AddUser, LeaveOthers, AddMember, SetJoined, Leave, SetLeft, Release, Renew, At
  <2> QED BY <1>2, <2>3, <2>4, <2>5 DEF Handle
<1>3. ASSUME NEW s \in Handlers, Others(s), s # t
      PROVE  tasks'[t].step \notin Entry
  BY <1>0, <1>1, <1>3 DEF Others
<1>4. ASSUME NEW s \in Handlers, Handle(s)
      PROVE  tasks'[t].step \notin Entry
  BY <1>0, <1>2, <1>3, <1>4, HandleAfter
<1>5. CASE SweepMark \/ SweepRelease
  <2>1. Others(Sweeper) /\ tasks'[Sweeper].step \in {"sweepRelease", "idle", "sweepMark", "end"}
    BY <1>0, <1>5, SweepMarkFields, SweepReleaseFields, IdleFields
  <2> QED BY <1>0, <1>3, <2>1
<1>6. CASE Aside
  <2>1. PICK s \in Handlers : Others(s) /\ (tasks'[s] = tasks[s] \/ Begins(s))
    BY <1>6 DEF Aside
  <2>2. CASE s = t
    BY <1>0, <1>1, <2>1, <2>2 DEF Begins
  <2> QED BY <1>3, <2>1, <2>2
<1>7. CASE Crash
  BY <1>0, <1>1, <1>7, IdleFields DEF Crash
<1> QED BY <1>0, <1>4, <1>5, <1>6, <1>7, StepKinds

LEMMA JoinsNext ==
  ASSUME JoinsInv, OneEntry, [Next]_vars
  PROVE  JoinsInv'
<1>1. IInv' /\ PastInv' /\ RequestsInv'
  BY NextKeeps, PastStep, RequestsKeep DEF JoinsInv
<1>2. ASSUME NEW t \in Tasks
      PROVE  LeavesAll(tasks[t])'
  <2>0. t \in Handlers /\ t # Sweeper
    BY VideoConferenceAssumption DEF Handlers, VideoConferenceAssumption
  <2>1. ASSUME tasks'[t].step \notin {"addMember", "setJoined"}, tasks'[t].resume = None
        PROVE  LeavesAll(tasks[t])'
    BY <2>1 DEF LeavesAll
  <2>2. ASSUME NEW s \in Handlers, Others(s), s # t
        PROVE  LeavesAll(tasks[t])'
    BY <2>0, <2>2, LeavesStay DEF Others
  <2>3. ASSUME NEW s \in Handlers, Handle(s)
        PROVE  LeavesAll(tasks[t])'
    BY <2>2, <2>3, HandleLeaves, HandleAfter DEF JoinsInv
  <2>4. CASE SweepMark \/ SweepRelease
    <3>1. Sweeper \in Handlers /\ Others(Sweeper)
      BY <2>4, SweepMarkFields, SweepReleaseFields DEF JoinsInv, Handlers
    <3> QED BY <2>0, <2>2, <3>1
  <2>5. CASE Aside
    <3>1. PICK s \in Handlers : Others(s) /\ (tasks'[s] = tasks[s] \/ Begins(s))
      BY <2>5 DEF Aside
    <3> QED BY <2>1, <2>2, <3>1, LeavesStay DEF Begins
  <2>6. CASE Crash
    <3>1. tasks'[t] = Idle \/ tasks'[t] = tasks[t]
      BY <2>0, <2>6 DEF Crash
    <3> QED BY <2>1, <3>1, LeavesStay, IdleFields
  <2> QED BY <2>3, <2>4, <2>5, <2>6, StepKinds DEF JoinsInv
<1> QED BY <1>1, <1>2 DEF JoinsInv

LEMMA JoinsInit == Init => JoinsInv
<1> SUFFICES ASSUME Init PROVE JoinsInv
  OBVIOUS
<1>1. IInv /\ PastInv
  BY InitEstablishes, PastInit
<1>2. \A t \in Handlers : tasks[t].step = "idle" /\ tasks[t].resume = None
  BY IdleFields DEF Init
<1> QED BY <1>1, <1>2 DEF JoinsInv, RequestsInv, LeavesAll, Handlers

(* While a user's joins and renewals are handled one at a time, a join     *)
(* puts the user in no second running call, whatever sweeps, ends and      *)
(* cancellations do meanwhile (addUserToCall, leaveOtherConferences): who  *)
(* is in two calls was brought back by a renewal.                          *)
THEOREM JoinsLeaveOtherCalls == Spec /\ []OneEntry => JoinLeavesOthers
<1> DEFINE Alone == \A u \in Users, c, d \in Calls :
                      /\ c # d /\ Running(d) /\ u \in In(d)
                      /\ u \notin In(c) /\ u \in In(c)'
                      => calls[c].users[u] = "timeout"
<1>1. JoinsInv /\ OneEntry /\ [Next]_vars => JoinsInv'
  BY JoinsNext
<1>2. JoinsInv /\ [Next]_vars => [Alone]_vars
  <2> SUFFICES ASSUME JoinsInv, [Next]_vars, NEW u \in Users, NEW c \in Calls, NEW d \in Calls,
                      c # d, Running(d), u \in In(d), u \notin In(c), (u \in In(c))'
               PROVE  calls[c].users[u] = "timeout"
    OBVIOUS
  <2>1. PICK s \in Handlers :
          /\ tasks[s].user = u /\ tasks[s].call = c
          /\ \/ tasks[s].step = "setJoined"
             \/ calls[c].users[u] = "timeout"
    BY WhoEnters DEF JoinsInv
  <2>2. CASE tasks[s].step = "setJoined"
    <3>1. s \in Tasks
      BY <2>2 DEF JoinsInv, RequestsInv, Handlers
    <3>2. d \in InOther(u, c)
      BY DEF InOther
    <3> QED BY <2>1, <2>2, <3>1, <3>2 DEF JoinsInv, LeavesAll
  <2> QED BY <2>1, <2>2
<1> HIDE DEF Alone
<1>3. Spec /\ []OneEntry => [][Alone]_vars
  BY <1>1, <1>2, JoinsInit, PTL DEF Spec
<1> QED BY <1>3 DEF JoinLeavesOthers, Alone
=============================================================================
