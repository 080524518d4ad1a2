-------------------------- MODULE VideoConference --------------------------
(***************************************************************************)
(* Who is in a video conference, and when it ends: the calls of a provider *)
(* that renders inside Rocket.Chat.  A member joins and leaves by request, *)
(* the conference window renews a lease meanwhile, and a sweep gives up on *)
(* whoever let the lease lapse.  Each join, leave, revival and end also    *)
(* claims or releases the member's status.                                 *)
(*                                                                         *)
(* Every handler reads a document and writes after other awaits; seen is   *)
(* the part of it that the handler still uses.                             *)
(***************************************************************************)
EXTENDS PresenceEngine

CONSTANTS
    Users, Calls,
    Direct,       \* the calls between two users, who ring; the others are groups
    Reporters,    \* users whose window manages to report that it closes
    Frozen,       \* users whose open window may stop renewing for a while
    LongRunning,  \* calls that reach the age limit
    Tasks,        \* handlers of requests that run at the same time
    Clock,        \* the handler of timers and of the age limit
    Sweeper,      \* the handler of the sweeps, which run one at a time
    MaxTimers,    \* grace periods that overlap: with as many, nobody joins or leaves
    MaxCrashes    \* handlers, or timers, lost with their instance

ASSUME VideoConferenceAssumption ==
    /\ Direct \subseteq Calls /\ LongRunning \subseteq Calls
    /\ Reporters \subseteq Users /\ Frozen \subseteq Users
    /\ MaxTimers \in Nat /\ MaxCrashes \in Nat
    /\ {Clock, Sweeper} \cap Tasks = {} /\ Clock # Sweeper
    /\ "video-conference" \in ClaimIds

VARIABLES
    calls,       \* the documents of rocketchat_video_conference
    windows,     \* the open conference windows, <<user, call>>
    presence,    \* the claims on each user's status
    tasks,       \* the handlers in progress
    graces,      \* how many grace periods run for a call
    rings,       \* the direct calls whose automatic cancellation is pending
    crashes

vars == <<calls, windows, presence, tasks, graces, rings, crashes>>

(* A member's entry: invited has joined = false; reported and timeout have *)
(* leftAt and are the two ways to read leftReason.  lapsed are the members *)
(* in the call whose lastSeenAt is older than a lease.                     *)
Entries == {"none", "invited", "in", "reported", "timeout"}
Call == [status : {"none", "calling", "started", "declined", "ended", "expired"},
         over : BOOLEAN, users : [Users -> Entries], lapsed : SUBSET Users]

NoCall == [status |-> "none", over |-> FALSE, users |-> [u \in Users |-> "none"], lapsed |-> {}]

(* isInVideoConference *)
In(c) == {u \in Users : calls[c].users[u] = "in"}
Running(c) == calls[c].status \in {"calling", "started"} /\ ~calls[c].over

Steps == {"idle", "addUser", "leaveOthers", "addMember", "setJoined", "claim", "answer",
          "leave", "setLeft", "release", "renew", "reclaim", "sweepMark", "sweepRelease",
          "end", "endWrite", "endRelease", "cancel", "cancelWrite", "expire"}

Seen == [in : SUBSET Users, calling : BOOLEAN]

(* A handler: the call and user it serves, what it saw of the call, what   *)
(* is left of its loop, and the join it resumes once it has left a call.   *)
Task == [step : Steps, call : Calls \cup {None}, user : Users \cup {None}, seen : Seen,
         todo : SUBSET (Users \cup Calls), resume : [call : Calls, seen : Seen] \cup {None}]

ASSUME NoJoinToResume == None \notin [call : Calls, seen : Seen]

Nothing == [in |-> {}, calling |-> FALSE]
Idle == [step |-> "idle", call |-> None, user |-> None, seen |-> Nothing, todo |-> {},
         resume |-> None]
Handlers == Tasks \cup {Clock, Sweeper}

See(c) == [in |-> In(c), calling |-> calls[c].status = "calling"]

Init ==
    /\ calls = [c \in Calls |-> NoCall]
    /\ windows = {}
    /\ presence = [u \in Users |-> NoClaims]
    /\ tasks = [t \in Handlers |-> Idle]
    /\ graces = [c \in Calls |-> 0]
    /\ rings = {}
    /\ crashes = 0

-----------------------------------------------------------------------------
(* Steps of handlers *)

At(t, step) == tasks[t].step = step
Begin(t, step, c, u) ==
    At(t, "idle") /\ tasks' = [tasks EXCEPT ![t] = [Idle EXCEPT !.step = step, !.call = c, !.user = u]]
Go(t, step) == tasks' = [tasks EXCEPT ![t].step = step]
GoSeeing(t, step, seen) == tasks' = [tasks EXCEPT ![t].step = step, ![t].seen = seen]
Finish(t) == tasks' = [tasks EXCEPT ![t] = Idle]

(* A join leaves the other calls of its user, todo, before it goes on.     *)
LeaveFor(t, join, others) ==
    \E c \in others :
      tasks' = [tasks EXCEPT ![t] =
        [@ EXCEPT !.step = "leave", !.call = c, !.todo = others \ {c}, !.resume = join]]

FinishLeave(t) ==
    LET task == tasks[t]
    IN  IF task.resume = None THEN Finish(t)
        ELSE IF task.todo # {} THEN LeaveFor(t, task.resume, task.todo)
        ELSE tasks' = [tasks EXCEPT ![t] =
               [task EXCEPT !.step = "addMember", !.call = task.resume.call,
                            !.seen = task.resume.seen, !.resume = None]]

(* A bug to find: an entry changes, and its old lease stays. *)
SetUserKeepingLease(c, u, entry) == calls' = [calls EXCEPT ![c].users[u] = entry]

(* A member's entry changes, and with it any lease that had run out. *)
SetUser(c, u, entry) == calls' = [calls EXCEPT ![c].users[u] = entry, ![c].lapsed = @ \ {u}]

(* The query of addMemberById matches only who is not a member yet. *)
EnsureMember(c, u) ==
    calls' = [calls EXCEPT ![c].users[u] = IF @ = "none" THEN "invited" ELSE @]

SetOver(c, status) == calls' = [calls EXCEPT ![c].status = status, ![c].over = TRUE]

OnACall == [default |-> "busy", source |-> "internal", id |-> "video-conference", until |-> None]
ClaimBusy(u) == presence' = [presence EXCEPT ![u] = Claiming(@, OnACall, {})]
ReleaseBusy(u) == presence' = [presence EXCEPT ![u] = Ending(@, "video-conference", {})]

(* The bound on timers. *)
MoreTimers == \A c \in Calls : graces[c] < MaxTimers

-----------------------------------------------------------------------------
(* Creation and joining *)

(* A bug to find: nothing cancels a call that is not answered. *)
CreateWithoutTimer(c, callee) ==
    /\ calls[c].status = "none"
    /\ c \in Direct <=> callee # None
    /\ calls' = [calls EXCEPT ![c] =
                   [NoCall EXCEPT !.status = IF c \in Direct THEN "calling" ELSE "started",
                                  !.users = [u \in Users |-> IF u = callee THEN "invited" ELSE "none"]]]
    /\ UNCHANGED <<windows, presence, tasks, graces, rings, crashes>>

(* The callee of a direct call is a member from the start. *)
Create(c, callee) ==
    /\ calls[c].status = "none"
    /\ c \in Direct <=> callee # None
    /\ calls' = [calls EXCEPT ![c] =
                   [NoCall EXCEPT !.status = IF c \in Direct THEN "calling" ELSE "started",
                                  !.users = [u \in Users |-> IF u = callee THEN "invited" ELSE "none"]]]
    /\ rings' = IF c \in Direct THEN rings \cup {c} ELSE rings
    /\ UNCHANGED <<windows, presence, tasks, graces, crashes>>

(* Someone is added to a call, or declines it without being a member. *)
Invite(c, u) ==
    /\ calls[c].status # "none" /\ calls[c].users[u] = "none"
    /\ EnsureMember(c, u)
    /\ UNCHANGED <<windows, presence, tasks, graces, rings, crashes>>

(* The request answers before the roster is written: the window opens. *)
Join(t, u, c) ==
    /\ calls[c].status # "none" /\ ~calls[c].over
    /\ <<u, c>> \notin windows /\ MoreTimers
    /\ Begin(t, "addUser", c, u)
    /\ windows' = windows \cup {<<u, c>>}
    /\ UNCHANGED <<calls, presence, graces, rings, crashes>>

AddUser(t) ==
    /\ At(t, "addUser")
    /\ GoSeeing(t, "leaveOthers", See(tasks[t].call))
    /\ UNCHANGED <<calls, windows, presence, graces, rings, crashes>>

(* A bug to find: who is a member already does not leave other calls. *)
LeaveOthersWhenNew(t) ==
    LET task == tasks[t]
        others == {c \in Calls \ {task.call} : Running(c) /\ task.user \in In(c)}
    IN  /\ At(t, "leaveOthers")
        /\ IF others = {} \/ calls[task.call].users[task.user] # "none" THEN Go(t, "addMember")
           ELSE LeaveFor(t, [call |-> task.call, seen |-> task.seen], others)
        /\ UNCHANGED <<calls, windows, presence, graces, rings, crashes>>

(* Every other running call that the user is in is left first; only then   *)
(* does it matter whether the user was in this one.                        *)
LeaveOthers(t) ==
    LET task == tasks[t]
        others == {c \in Calls \ {task.call} : Running(c) /\ task.user \in In(c)}
    IN  /\ At(t, "leaveOthers")
        /\ IF others = {} THEN Go(t, "addMember")
           ELSE LeaveFor(t, [call |-> task.call, seen |-> task.seen], others)
        /\ UNCHANGED <<calls, windows, presence, graces, rings, crashes>>

AddMember(t) ==
    LET task == tasks[t]
    IN  /\ At(t, "addMember")
        /\ IF task.user \in task.seen.in
           THEN Finish(t) /\ UNCHANGED calls
           ELSE EnsureMember(task.call, task.user) /\ Go(t, "setJoined")
        /\ UNCHANGED <<windows, presence, graces, rings, crashes>>

SetJoined(t) ==
    /\ At(t, "setJoined")
    /\ SetUser(tasks[t].call, tasks[t].user, "in")
    /\ Go(t, "claim")
    /\ UNCHANGED <<windows, presence, graces, rings, crashes>>

SetBusy(t) ==
    /\ At(t, "claim")
    /\ ClaimBusy(tasks[t].user)
    /\ IF tasks[t].call \in Direct THEN Go(t, "answer") ELSE Finish(t)
    /\ UNCHANGED <<calls, windows, graces, rings, crashes>>

(* A direct call that was seen calling has been answered. *)
Answer(t) ==
    /\ At(t, "answer")
    /\ calls' = IF tasks[t].seen.calling
                THEN [calls EXCEPT ![tasks[t].call].status = "started"] ELSE calls
    /\ Finish(t)
    /\ UNCHANGED <<windows, presence, graces, rings, crashes>>

-----------------------------------------------------------------------------
(* Leaving *)

CloseWindow(u, c) ==
    /\ <<u, c>> \in windows
    /\ windows' = windows \ {<<u, c>>}
    /\ UNCHANGED <<calls, presence, tasks, graces, rings, crashes>>

ReportLeave(t, u, c) ==
    /\ u \in Reporters
    /\ <<u, c>> \in windows /\ MoreTimers
    /\ windows' = windows \ {<<u, c>>}
    /\ Begin(t, "leave", c, u)
    /\ UNCHANGED <<calls, presence, graces, rings, crashes>>

Leave(t) ==
    LET task == tasks[t]
        c == task.call
    IN  /\ At(t, "leave")
        /\ IF calls[c].over \/ calls[c].users[task.user] \in {"none", "reported", "timeout"}
           THEN FinishLeave(t)
           ELSE GoSeeing(t, "setLeft", See(c))
        /\ UNCHANGED <<calls, windows, presence, graces, rings, crashes>>

SetLeft(t) ==
    /\ At(t, "setLeft")
    /\ SetUser(tasks[t].call, tasks[t].user, "reported")
    /\ Go(t, "release")
    /\ UNCHANGED <<windows, presence, graces, rings, crashes>>

(* Nobody else was in the call when it was read: the grace period begins. *)
Release(t) ==
    LET task == tasks[t]
        alone == task.seen.in \subseteq {task.user}
    IN  /\ At(t, "release")
        /\ ReleaseBusy(task.user)
        /\ graces' = [graces EXCEPT ![task.call] = IF alone THEN @ + 1 ELSE @]
        /\ FinishLeave(t)
        /\ UNCHANGED <<calls, windows, rings, crashes>>

GraceOver(c) ==
    /\ graces[c] > 0
    /\ graces' = [graces EXCEPT ![c] = @ - 1]
    /\ IF calls[c].over \/ In(c) # {} THEN At(Clock, "idle") /\ UNCHANGED tasks
                                      ELSE Begin(Clock, "end", c, None)
    /\ UNCHANGED <<calls, windows, presence, rings, crashes>>

-----------------------------------------------------------------------------
(* Leases *)

(* Three minutes without a renewal.  A join is handled in less. *)
Lapse(c, u) ==
    /\ Running(c) /\ u \in In(c) \ calls[c].lapsed
    /\ <<u, c>> \in windows => u \in Frozen
    /\ \A t \in Tasks : tasks[t].call = c /\ tasks[t].user = u => ~At(t, "claim")
    /\ calls' = [calls EXCEPT ![c].lapsed = @ \cup {u}]
    /\ UNCHANGED <<windows, presence, tasks, graces, rings, crashes>>

(* A renewal may be handled after its window has closed.  One for a lease  *)
(* that is still good changes nothing.                                     *)
Heartbeat(t, u, c) ==
    /\ <<u, c>> \in windows
    /\ Running(c)
    /\ calls[c].users[u] = "timeout" \/ u \in calls[c].lapsed
    /\ Begin(t, "renew", c, u)
    /\ UNCHANGED <<calls, windows, presence, graces, rings, crashes>>

Renewable(c, u) == ~calls[c].over /\ calls[c].users[u] \in {"invited", "in", "timeout"}

(* A bug to find: the claim that the sweep released is not made again. *)
RenewSilently(t) ==
    LET c == tasks[t].call
        u == tasks[t].user
    IN  /\ At(t, "renew")
        /\ IF Renewable(c, u) THEN SetUser(c, u, IF calls[c].users[u] = "timeout" THEN "in" ELSE calls[c].users[u])
                              ELSE UNCHANGED calls
        /\ Finish(t)
        /\ UNCHANGED <<windows, presence, graces, rings, crashes>>

Renew(t) ==
    LET c == tasks[t].call
        u == tasks[t].user
        revived == Renewable(c, u) /\ calls[c].users[u] = "timeout"
    IN  /\ At(t, "renew")
        /\ IF Renewable(c, u) THEN SetUser(c, u, IF revived THEN "in" ELSE calls[c].users[u])
                              ELSE UNCHANGED calls
        /\ IF revived THEN Go(t, "reclaim") ELSE Finish(t)
        /\ UNCHANGED <<windows, presence, graces, rings, crashes>>

Reclaim(t) ==
    /\ At(t, "reclaim")
    /\ ClaimBusy(tasks[t].user)
    /\ Finish(t)
    /\ UNCHANGED <<calls, windows, graces, rings, crashes>>

(* A bug to find: those who are about to be marked still count as present. *)
SweepCountingExpired(c) ==
    LET expired == In(c) \cap calls[c].lapsed
    IN  /\ At(Sweeper, "idle") /\ Running(c) /\ expired # {}
        /\ tasks' = [tasks EXCEPT ![Sweeper] =
             [Idle EXCEPT !.step = "sweepMark", !.call = c, !.todo = expired, !.seen = See(c)]]
        /\ UNCHANGED <<calls, windows, presence, graces, rings, crashes>>

(* A bug to find: a call is swept only once every lease has run out. *)
SweepWhenAllExpired(c) ==
    LET expired == In(c) \cap calls[c].lapsed
    IN  /\ At(Sweeper, "idle") /\ Running(c) /\ expired # {} /\ expired = In(c)
        /\ tasks' = [tasks EXCEPT ![Sweeper] =
             [Idle EXCEPT !.step = "sweepMark", !.call = c, !.todo = expired,
                          !.seen = [See(c) EXCEPT !.in = @ \ expired]]]
        /\ UNCHANGED <<calls, windows, presence, graces, rings, crashes>>

(* The sweep of a call with expired leases: seen are those who remain. *)
Sweep(c) ==
    LET expired == In(c) \cap calls[c].lapsed
    IN  /\ At(Sweeper, "idle") /\ Running(c) /\ expired # {}
        /\ tasks' = [tasks EXCEPT ![Sweeper] =
             [Idle EXCEPT !.step = "sweepMark", !.call = c, !.todo = expired,
                          !.seen = [See(c) EXCEPT !.in = @ \ expired]]]
        /\ UNCHANGED <<calls, windows, presence, graces, rings, crashes>>

SweepMark ==
    LET task == tasks[Sweeper]
    IN  /\ At(Sweeper, "sweepMark")
        /\ \E u \in task.todo :
             /\ SetUser(task.call, u, "timeout")
             /\ tasks' = [tasks EXCEPT ![Sweeper] =
                            [task EXCEPT !.step = "sweepRelease", !.user = u, !.todo = @ \ {u}]]
        /\ UNCHANGED <<windows, presence, graces, rings, crashes>>

SweepRelease ==
    LET task == tasks[Sweeper]
    IN  /\ At(Sweeper, "sweepRelease")
        /\ ReleaseBusy(task.user)
        /\ IF task.todo # {} THEN Go(Sweeper, "sweepMark")
           ELSE IF task.seen.in # {} THEN Finish(Sweeper)
           ELSE Go(Sweeper, "end")
        /\ UNCHANGED <<calls, windows, graces, rings, crashes>>

-----------------------------------------------------------------------------
(* Ending *)

End(t) ==
    /\ At(t, "end")
    /\ GoSeeing(t, "endWrite", See(tasks[t].call))
    /\ UNCHANGED <<calls, windows, presence, graces, rings, crashes>>

EndWrite(t) ==
    LET task == tasks[t]
    IN  /\ At(t, "endWrite")
        /\ SetOver(task.call, "ended")
        /\ IF task.seen.in = {} THEN Finish(t)
           ELSE tasks' = [tasks EXCEPT ![t].step = "endRelease", ![t].todo = task.seen.in]
        /\ UNCHANGED <<windows, presence, graces, rings, crashes>>

EndRelease(t) ==
    /\ At(t, "endRelease")
    /\ \E u \in tasks[t].todo :
         /\ ReleaseBusy(u)
         /\ IF tasks[t].todo = {u} THEN Finish(t)
            ELSE tasks' = [tasks EXCEPT ![t].todo = @ \ {u}]
    /\ UNCHANGED <<calls, windows, graces, rings, crashes>>

(* A ringing call is cancelled by request, or 40 seconds after creation. *)
RequestCancel(t, c) ==
    /\ c \in Direct /\ calls[c].status = "calling"
    /\ Begin(t, "cancel", c, None)
    /\ UNCHANGED <<calls, windows, presence, graces, rings, crashes>>

RingOver(c) ==
    /\ c \in rings
    /\ rings' = rings \ {c}
    /\ IF calls[c].status = "calling" THEN Begin(Clock, "cancel", c, None)
                                      ELSE At(Clock, "idle") /\ UNCHANGED tasks
    /\ UNCHANGED <<calls, windows, presence, graces, crashes>>

Cancel(t) ==
    LET c == tasks[t].call
    IN  /\ At(t, "cancel")
        /\ IF calls[c].status = "calling" /\ ~calls[c].over THEN Go(t, "cancelWrite") ELSE Finish(t)
        /\ UNCHANGED <<calls, windows, presence, graces, rings, crashes>>

CancelWrite(t) ==
    /\ At(t, "cancelWrite")
    /\ SetOver(tasks[t].call, "declined")
    /\ Finish(t)
    /\ UNCHANGED <<windows, presence, graces, rings, crashes>>

(* The age limit ends a call without giving anybody their status back. *)
FindLongRunning(c) ==
    /\ c \in LongRunning
    /\ calls[c].status # "none" /\ ~calls[c].over
    /\ Begin(Clock, "expire", c, None)
    /\ UNCHANGED <<calls, windows, presence, graces, rings, crashes>>

Expire(t) ==
    /\ At(t, "expire")
    /\ SetOver(tasks[t].call, "expired")
    /\ Finish(t)
    /\ UNCHANGED <<windows, presence, graces, rings, crashes>>

(* An instance dies: its handlers and its timers are lost. *)
Crash ==
    /\ crashes < MaxCrashes
    /\ crashes' = crashes + 1
    /\ \E dead \in SUBSET Handlers, lost \in SUBSET Calls :
         /\ tasks' = [t \in Handlers |-> IF t \in dead THEN Idle ELSE tasks[t]]
         /\ graces' = [c \in Calls |-> IF c \in lost THEN 0 ELSE graces[c]]
         /\ rings' = rings \ lost
    /\ UNCHANGED <<calls, windows, presence>>

-----------------------------------------------------------------------------
Handle(t) ==
    \/ AddUser(t) \/ LeaveOthers(t) \/ AddMember(t) \/ SetJoined(t) \/ SetBusy(t) \/ Answer(t)
    \/ Leave(t) \/ SetLeft(t) \/ Release(t) \/ Renew(t) \/ Reclaim(t)
    \/ End(t) \/ EndWrite(t) \/ EndRelease(t) \/ Cancel(t) \/ CancelWrite(t) \/ Expire(t)

Request(t, u, c) == Join(t, u, c) \/ ReportLeave(t, u, c) \/ Heartbeat(t, u, c)

Timer(c) == GraceOver(c) \/ RingOver(c)

Next ==
    \/ \E t \in Handlers : Handle(t)
    \/ \E t \in Tasks, u \in Users, c \in Calls : Request(t, u, c)
    \/ \E t \in Tasks, c \in Calls : RequestCancel(t, c)
    \/ \E c \in Calls : Timer(c) \/ FindLongRunning(c) \/ Sweep(c) \/ \E callee \in Users \cup {None} : Create(c, callee)
    \/ SweepMark \/ SweepRelease
    \/ \E u \in Users, c \in Calls : Invite(c, u) \/ CloseWindow(u, c) \/ Lapse(c, u)
    \/ Crash

Spec == Init /\ [][Next]_vars

(* Handlers go on; the sweep runs every minute, whatever else the server   *)
(* does; a lease that nobody renews runs out.                              *)
Fairness ==
    /\ \A t \in Handlers : WF_vars(Handle(t))
    /\ WF_vars(SweepMark \/ SweepRelease)
    /\ \A c \in Calls : WF_vars(Sweep(c))
    /\ \A c \in Calls, u \in Users :
         WF_vars(Lapse(c, u) /\ <<u, c>> \notin windows)

FairSpec == Spec /\ Fairness
=============================================================================
