------------------------------ MODULE Presence ------------------------------
(***************************************************************************)
(* The presence service and one user: the connections that are recorded    *)
(* for the user, the claims on the user's status, the status that is       *)
(* stored, and the job that ends claims at their time.                     *)
(*                                                                         *)
(* There is one instance of the service.  Its calls overlap: each reads    *)
(* the user, then the connections, and writes what follows from both.      *)
(***************************************************************************)
EXTENDS PresenceEngine, FiniteSetsExt

CONSTANTS
    Connections, Nodes,
    NodeOf,        \* the node of a connection, which keeps it alive
    Claims,        \* the claims that are made, once each
    Ongoing,       \* those that may have been made before, with no time to end
    Calls,         \* the calls of the service that are in progress
    ExpirationJob, \* and the run of its scheduled job
    Clears,        \* whether the user may choose to be online without a text
    Flaky,         \* the connections that may be silent for minutes
    Mortal,        \* the nodes that may die
    MaxEvents      \* how many events come from outside

Workers == Calls \cup {ExpirationJob}

ASSUME PresenceAssumption ==
    /\ NodeOf \in [Connections -> Nodes] /\ Ongoing \subseteq Claims /\ Claims \subseteq Claim
    /\ Moments \subseteq Nat \ {0} /\ IsFiniteSet(Moments) /\ Clears \in BOOLEAN
    /\ ExpirationJob \notin Calls /\ None \notin Workers \cup Statuses
    /\ Flaky \subseteq Connections /\ Mortal \subseteq Nodes /\ MaxEvents \in Nat

VARIABLES
    user,       \* the claims of the user
    status,     \* the status of the user
    conns,      \* usersSessions: the status of each connection, or None
    stale,      \* the recorded connections not touched for five minutes
    clients,    \* what became of the connections themselves
    down,       \* the nodes that died
    now,
    workers,    \* what each call knows and does next
    token,      \* expirationScheduleToken
    jobs,       \* the times of the scheduled jobs
    plan,       \* the connections that the reaper is about to remove
    events,
    made, ended, cleared,    \* what the user and other services did
    outdated,   \* whether what was written last relied on outdated reads
    overlapped  \* whether claim updates ever did

service == <<user, status, workers, token, jobs, outdated, overlapped>>
recorded == <<conns, stale, plan>>
outside == <<clients, down, now, made, ended, cleared, events>>
vars == <<service, recorded, outside>>

-----------------------------------------------------------------------------
(* Claim updates, and the calls that carry them out *)

Kinds == {"connection", "setActive", "endActive", "clearActive", "expire"}
ClaimUpdate == [kind : Kinds, claim : Claim, id : ClaimIds \cup {None}]

NoClaimUpdate == [kind |-> "connection", claim |-> Unclaimed, id |-> None]
SettingActive(c) == [NoClaimUpdate EXCEPT !.kind = "setActive", !.claim = c]
EndingActive(id) == [NoClaimUpdate EXCEPT !.kind = "endActive", !.id = id]
ClearingActive == [NoClaimUpdate EXCEPT !.kind = "clearActive"]
Expiring == [NoClaimUpdate EXCEPT !.kind = "expire"]

(* What a call is to do next; late: what it read has changed since.        *)
Steps == {"idle", "add connection", "read user", "read connections", "write",
          "find expired", "take token", "find next", "remove job", "add job"}
Worker == [step : Steps, update : ClaimUpdate, connection : Connections \cup {None},
           seen : Owner, write : Update, status : Statuses \cup {None},
           next : Moments \cup {None}, late : BOOLEAN]

Idle == [step |-> "idle", update |-> NoClaimUpdate, connection |-> None, seen |-> NoClaims,
         write |-> Rejected, status |-> None, next |-> None, late |-> FALSE]

Past == {m \in Moments : m < now}
Recorded == {k \in Connections : conns[k] # None}
Reported == {conns[k] : k \in Recorded}

(* The status of a user who has claim on display. *)
Status(claim, kind) ==
    LET connection == IF "online" \in Reported THEN "online" ELSE "away"
    IN  IF Reported = {} THEN IF kind = "clearActive" THEN "online" ELSE "offline"
        ELSE IF claim.default = "online" THEN connection ELSE claim.default

(* The service has been running: the user may be connected, and in a call. *)
Init ==
    /\ \E open \in SUBSET Connections :
         /\ conns = [k \in Connections |-> IF k \in open THEN "online" ELSE None]
         /\ clients = [k \in Connections |-> IF k \in open THEN "open" ELSE "new"]
    /\ \E c \in Ongoing \cup {Unclaimed} :
         /\ user = [claim |-> c, stash |-> None]
         /\ made = {c} \cap Claims
    /\ status = Status(user.claim, "connection")
    /\ stale = {} /\ down = {} /\ now = 0
    /\ workers = [w \in Workers |-> Idle]
    /\ token = None /\ jobs = {} /\ plan = {} /\ events = 0
    /\ ended = {} /\ cleared = FALSE
    /\ outdated = FALSE /\ overlapped = FALSE

(* Worker w goes on; the others may have read what changes now. *)
Outdate(ws, steps, w, next) ==
    [v \in Workers |-> IF v = w THEN next
                       ELSE IF ws[v].step \in steps THEN [ws[v] EXCEPT !.late = TRUE] ELSE ws[v]]

(* Something happens that neither the service nor a clock brings about. *)
Event == events < MaxEvents /\ events' = events + 1

Begin(w, update) ==
    /\ w \in Calls /\ workers[w].step = "idle"
    /\ workers' = [workers EXCEPT ![w] = [Idle EXCEPT !.step = "read user", !.update = update]]

UpdatesClaim(worker) ==
    worker.update.kind # "connection" /\ worker.step \in {"read user", "read connections", "write"}
Overlap == overlapped' = (overlapped \/ \E w \in Workers : UpdatesClaim(workers[w]))

BeginClaim(w, update) == Begin(w, update) /\ Overlap

(* A call that first changes the recorded connections *)
BeginChanging(w) ==
    /\ w \in Calls /\ workers[w].step = "idle"
    /\ workers' = Outdate(workers, {"write"}, w, [Idle EXCEPT !.step = "read user"])

-----------------------------------------------------------------------------
(* Connections *)

IsOpen(k) == clients[k] = "open"

(* newConnection, of a login *)
NewConnection(w, k) ==
    /\ Event
    /\ clients[k] = "new" /\ NodeOf[k] \notin down
    /\ w \in Calls /\ workers[w].step = "idle"
    /\ clients' = [clients EXCEPT ![k] = "open"]
    /\ workers' = [workers EXCEPT ![w] = [Idle EXCEPT !.step = "add connection", !.connection = k]]
    /\ UNCHANGED <<user, status, token, jobs, outdated, overlapped, recorded>>
    /\ UNCHANGED <<down, now, made, ended, cleared>>

AddConnection(w) ==
    /\ workers[w].step = "add connection"
    /\ conns' = [conns EXCEPT ![workers[w].connection] = "online"]
    /\ workers' = Outdate(workers, {"write"}, w, [Idle EXCEPT !.step = "read user"])
    /\ UNCHANGED <<user, status, token, jobs, outdated, overlapped, stale, plan, outside>>

(* A bug to find: the status is not looked at. *)
TouchConnection(w, k) ==
    /\ IsOpen(k) /\ conns[k] # None /\ w \in Calls /\ workers[w].step = "idle"
    /\ stale' = stale \ {k}
    /\ UNCHANGED <<service, conns, plan, outside>>

(* updateConnection, at a heartbeat; it ends there if nothing is recorded. *)
UpdateConnection(w, k) ==
    /\ IsOpen(k) /\ conns[k] # None
    /\ Begin(w, NoClaimUpdate)
    /\ stale' = stale \ {k}
    /\ UNCHANGED <<user, status, token, jobs, outdated, overlapped, conns, plan, outside>>

(* setConnectionStatus *)
SetConnectionStatus(w, k, s) ==
    /\ Event
    /\ IsOpen(k) /\ conns[k] # s
    /\ IF conns[k] = None
       THEN Begin(w, NoClaimUpdate) /\ UNCHANGED <<conns, stale>>
       ELSE /\ BeginChanging(w)
            /\ conns' = [conns EXCEPT ![k] = s] /\ stale' = stale \ {k}
    /\ UNCHANGED <<user, status, token, jobs, outdated, overlapped, plan>>
    /\ UNCHANGED <<clients, down, now, made, ended, cleared>>

Remove(ks) ==
    conns' = [k \in Connections |-> IF k \in ks THEN None ELSE conns[k]] /\ stale' = stale \ ks

(* removeConnection, of a logout or a connection that closes *)
RemoveConnection(w, k) ==
    /\ Event
    /\ IsOpen(k)
    /\ clients' = [clients EXCEPT ![k] = "closed"]
    /\ Remove({k}) /\ BeginChanging(w)
    /\ UNCHANGED <<user, status, token, jobs, outdated, overlapped, plan>>
    /\ UNCHANGED <<down, now, made, ended, cleared>>

(* A bug to find: the status is left to a heartbeat. *)
RemoveLostQuietly(w, n) ==
    LET gone == {k \in Recorded : NodeOf[k] = n}
    IN  /\ n \in down /\ gone # {} /\ w \in Calls
        /\ Remove(gone)
        /\ UNCHANGED <<service, plan, outside>>

(* removeLostConnections, for a node that is gone: without effect unless   *)
(* something is removed.                                                   *)
RemoveLostConnections(w, n) ==
    LET gone == {k \in Recorded : NodeOf[k] = n}
    IN  /\ n \in down /\ gone # {}
        /\ Remove(gone) /\ BeginChanging(w)
        /\ UNCHANGED <<user, status, token, jobs, outdated, overlapped, plan, outside>>

(* A bug to find: connections of nodes that run are left to their nodes. *)
FindOfDeadNodes ==
    /\ plan = {} /\ {k \in stale : NodeOf[k] \in down} # {}
    /\ plan' = {k \in stale : NodeOf[k] \in down}
    /\ UNCHANGED <<service, conns, stale, outside>>

(* PresenceReaper.run: the connections that are stale are found ...        *)
FindStale ==
    /\ plan = {} /\ stale # {}
    /\ plan' = stale
    /\ UNCHANGED <<service, conns, stale, outside>>

(* ... and, in flushBatch, removed if they still are.                      *)
FlushBatch(w) ==
    /\ plan # {} /\ plan' = {}
    /\ Remove(plan \cap stale) /\ BeginChanging(w)
    /\ UNCHANGED <<user, status, token, jobs, outdated, overlapped, outside>>

(* Five minutes pass without a heartbeat; a run of the reaper takes less.  *)
GrowsStale(k) ==
    /\ conns[k] # None /\ k \notin stale \cup plan
    /\ IF IsOpen(k) THEN k \in Flaky /\ Event ELSE UNCHANGED events
    /\ stale' = stale \cup {k}
    /\ UNCHANGED <<service, conns, plan, clients, down, now, made, ended, cleared>>

NodeDies(n) ==
    /\ Event
    /\ n \in Mortal \ down
    /\ down' = down \cup {n}
    /\ clients' = [k \in Connections |-> IF NodeOf[k] = n THEN "closed" ELSE clients[k]]
    /\ UNCHANGED <<service, recorded, now, made, ended, cleared>>

-----------------------------------------------------------------------------
(* Claims *)

SetActiveState(w, c) ==
    /\ Event
    /\ c \in Claims \ made /\ c.until \notin {m \in Moments : m <= now}
    /\ BeginClaim(w, SettingActive(c))
    /\ made' = made \cup {c}
    /\ UNCHANGED <<user, status, token, jobs, outdated, recorded>>
    /\ UNCHANGED <<clients, down, now, ended, cleared>>

(* Whoever made a claim with an id ends it. *)
EndActiveState(w, c) ==
    /\ Event
    /\ c \in made \ ended /\ c.id # None
    /\ BeginClaim(w, EndingActive(c.id))
    /\ ended' = ended \cup {c}
    /\ UNCHANGED <<user, status, token, jobs, outdated, recorded>>
    /\ UNCHANGED <<clients, down, now, made, cleared>>

ClearActiveState(w) ==
    /\ Event
    /\ Clears /\ ~cleared
    /\ BeginClaim(w, ClearingActive)
    /\ cleared' = TRUE /\ ended' = made
    /\ UNCHANGED <<user, status, token, jobs, outdated, recorded>>
    /\ UNCHANGED <<clients, down, now, made>>

-----------------------------------------------------------------------------
(* updateUserPresence *)

ReadUser(w) ==
    /\ workers[w].step = "read user"
    /\ workers' = [workers EXCEPT ![w].step = "read connections", ![w].seen = user]
    /\ UNCHANGED <<user, status, token, jobs, outdated, overlapped, recorded, outside>>

(* resolveIntent *)
Resolved(seen, update) ==
    CASE update.kind = "setActive" -> SetActive(seen, update.claim, Past)
      [] update.kind \in {"endActive", "expire"} -> EndActive(seen, update.id, Past)
      [] update.kind = "clearActive" -> ResetToOnline
      [] OTHER -> Rejected

(* Updates of claims and the job go on to setupNextExpiration.             *)
AfterUpdate(kind) ==
    [Idle EXCEPT !.step = IF kind = "connection" THEN "idle" ELSE "take token"]

(* The end of an expiring claim *)
IsGuarded(worker) == worker.update.kind \in {"endActive", "expire"} /\ worker.seen.claim.until # None

(* processPresence; after a rejection there is nothing to write.           *)
ReadConnections(w) ==
    LET worker == workers[w]
        update == worker.update
        write == Resolved(worker.seen, update)
        claim == Written(worker.seen, write).claim
    IN  /\ worker.step = "read connections"
        /\ workers' = [workers EXCEPT ![w] =
             IF update.kind # "connection" /\ write = Rejected
             THEN AfterUpdate(update.kind)
             ELSE [worker EXCEPT !.step = "write", !.write = write,
                                 !.update = [NoClaimUpdate EXCEPT !.kind = update.kind],
                                 !.status = Status(claim, update.kind),
                                 !.seen = IF IsGuarded(worker) THEN @ ELSE NoClaims]]
        /\ UNCHANGED <<user, status, token, jobs, outdated, overlapped, recorded, outside>>

(* A bug to find: no filter. *)
MatchesAny(worker) == TRUE

(* Users.updatePresenceAndStatus with its extra filter: only those that    *)
(* end an expiring claim are sure that it is still the same.               *)
Matches(worker) ==
    IsGuarded(worker) => /\ user.claim.until = worker.seen.claim.until
                         /\ user.stash = worker.seen.stash

Write(w) ==
    LET worker == workers[w]
        next == AfterUpdate(worker.update.kind)
    IN  /\ worker.step = "write"
        /\ IF Matches(worker)
           THEN /\ user' = Written(user, worker.write) /\ status' = worker.status
                /\ outdated' = worker.late
                /\ workers' = IF user' = user THEN [workers EXCEPT ![w] = next]
                              ELSE Outdate(workers, {"read connections", "write"}, w, next)
           ELSE workers' = [workers EXCEPT ![w] = next] /\ UNCHANGED <<user, status, outdated>>
        /\ UNCHANGED <<token, jobs, overlapped, recorded, outside>>

-----------------------------------------------------------------------------
(* Expiration *)

(* Agenda runs the job, which starts over with processExpiredStatuses.     *)
RunJob(m) ==
    /\ m \in jobs /\ m <= now /\ workers[ExpirationJob].step = "idle"
    /\ jobs' = jobs \ {m}
    /\ workers' = [workers EXCEPT ![ExpirationJob].step = "find expired"]
    /\ UNCHANGED <<user, status, token, outdated, overlapped, recorded, outside>>

FindExpired(w) ==
    /\ workers[w].step = "find expired"
    /\ workers' = [workers EXCEPT ![w] =
         IF user.claim.until \in Past
         THEN [Idle EXCEPT !.step = "read connections", !.update = Expiring, !.seen = user]
         ELSE [Idle EXCEPT !.step = "take token"]]
    /\ IF user.claim.until \in Past THEN Overlap ELSE UNCHANGED overlapped
    /\ UNCHANGED <<user, status, token, jobs, outdated, recorded, outside>>

(* setupNextExpiration *)
TakeToken(w) ==
    /\ workers[w].step = "take token"
    /\ token' = w
    /\ workers' = [workers EXCEPT ![w].step = "find next"]
    /\ UNCHANGED <<user, status, jobs, outdated, overlapped, recorded, outside>>

FindNext(w) ==
    /\ workers[w].step = "find next"
    /\ workers' = [workers EXCEPT ![w].step = "remove job", ![w].next = user.claim.until]
    /\ UNCHANGED <<user, status, token, jobs, outdated, overlapped, recorded, outside>>

(* A bug to find: the lookup is trusted. *)
RemoveJobUnchecked(w) ==
    /\ workers[w].step = "remove job"
    /\ jobs' = {}
    /\ workers' = [workers EXCEPT ![w] =
         IF @.next = None THEN Idle ELSE [@ EXCEPT !.step = "add job"]]
    /\ UNCHANGED <<user, status, token, outdated, overlapped, recorded, outside>>

(* A bug to find: a job is scheduled for no time. *)
RemoveJobAlways(w) ==
    /\ workers[w].step = "remove job"
    /\ IF token # w THEN workers' = [workers EXCEPT ![w] = Idle] /\ UNCHANGED <<token, jobs>>
       ELSE /\ jobs' = {} /\ token' = None
            /\ workers' = [workers EXCEPT ![w].step = "add job"]
    /\ UNCHANGED <<user, status, outdated, overlapped, recorded, outside>>

(* Unless a newer call has taken the token during the lookup.  Afterwards  *)
(* nobody looks for this token any more.                                   *)
RemoveJob(w) ==
    /\ workers[w].step = "remove job"
    /\ IF token # w THEN workers' = [workers EXCEPT ![w] = Idle] /\ UNCHANGED <<token, jobs>>
       ELSE /\ jobs' = {} /\ token' = None
            /\ workers' = [workers EXCEPT ![w] =
                 IF @.next = None THEN Idle ELSE [@ EXCEPT !.step = "add job"]]
    /\ UNCHANGED <<user, status, outdated, overlapped, recorded, outside>>

AddJob(w) ==
    /\ workers[w].step = "add job"
    /\ jobs' = jobs \cup {workers[w].next}
    /\ workers' = [workers EXCEPT ![w] = Idle]
    /\ UNCHANGED <<user, status, token, outdated, overlapped, recorded, outside>>

(* A moment comes; in the next it is past.                                 *)
Tick ==
    /\ now <= Max(Moments \cup {0})
    /\ now' = now + 1
    /\ UNCHANGED <<service, recorded, clients, down, made, ended, cleared, events>>

(* The service dies and starts; started ends the claims that expired.      *)
Crash ==
    /\ Event
    /\ workers' = [w \in Workers |->
         IF w = ExpirationJob THEN [Idle EXCEPT !.step = "find expired"] ELSE Idle]
    /\ token' = None /\ plan' = {}
    /\ outdated' = TRUE /\ overlapped' = TRUE
    /\ UNCHANGED <<user, status, jobs, conns, stale, clients, down, now, made, ended, cleared>>

-----------------------------------------------------------------------------
Advance(w) ==
    \/ AddConnection(w) \/ ReadUser(w) \/ ReadConnections(w) \/ Write(w)
    \/ FindExpired(w) \/ TakeToken(w) \/ FindNext(w) \/ RemoveJob(w) \/ AddJob(w)

Next ==
    \/ \E w \in Workers : Advance(w)
    \/ \E w \in Calls :
         \/ \E k \in Connections :
              \/ NewConnection(w, k) \/ UpdateConnection(w, k) \/ RemoveConnection(w, k)
              \/ \E s \in {"online", "away"} : SetConnectionStatus(w, k, s)
         \/ \E n \in Nodes : RemoveLostConnections(w, n)
         \/ \E c \in Claims : SetActiveState(w, c) \/ EndActiveState(w, c)
         \/ ClearActiveState(w) \/ FlushBatch(w)
    \/ \E k \in Connections : GrowsStale(k)
    \/ \E n \in Nodes : NodeDies(n)
    \/ \E m \in Moments : RunJob(m)
    \/ FindStale \/ Tick \/ Crash

Spec == Init /\ [][Next]_vars

(* The service's promises settle, time passes, due jobs run, the reaper    *)
(* runs every minute, and open connections are pinged.                     *)
Fairness ==
    /\ \A w \in Workers : WF_vars(Advance(w))
    /\ WF_vars(Tick) /\ \A m \in Moments : WF_vars(RunJob(m))
    /\ \A k \in Connections :
         /\ SF_vars(\E w \in Calls : UpdateConnection(w, k))
         /\ WF_vars(GrowsStale(k) /\ ~IsOpen(k))
    /\ WF_vars(FindStale) /\ SF_vars(\E w \in Calls : FlushBatch(w))

FairSpec == Spec /\ Fairness
=============================================================================
