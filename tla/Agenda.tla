-------------------------------- MODULE Agenda --------------------------------
(***************************************************************************)
(* Scheduled jobs: the documents of one collection, which the instances of *)
(* the server lock, queue, run and save.  A lock is a time, lockedAt, and  *)
(* counts for as long as its lifetime; it does not say whose it is.        *)
(*                                                                         *)
(* Recurring jobs are the cron jobs, one document for a name; the others   *)
(* are jobs at a timestamp, a document each.                               *)
(***************************************************************************)
EXTENDS Naturals, FiniteSetsExt, SequencesExt

CONSTANTS
    Instances, Names, Docs,
    NameOf,       \* the name of the job of a document
    Recurring,    \* the names of cron jobs
    Mortal,       \* the instances that may crash
    Slow,         \* the jobs that may wait or run for longer than a lock lives
    MaxFaults     \* how often that, a crash or a removal happens

ASSUME AgendaAssumption ==
    /\ IsFiniteSet(Instances) /\ IsFiniteSet(Docs)
    /\ NameOf \in [Docs -> Names] /\ Recurring \subseteq Names
    /\ Mortal \subseteq Instances /\ Slow \subseteq Docs /\ MaxFaults \in Nat

VARIABLES
    docs,       \* the collection
    up,         \* the instances that run
    inst,       \* what each instance holds in memory
    lapses,
    crashes,
    runs,       \* how often the job at a timestamp was run
    overruns    \* how often its lock ran out during a run

vars == <<docs, up, inst, lapses, crashes, runs, overruns>>

(* nextRunAt: ahead but within reach of the next scan, due, or null.       *)
Times == {"ahead", "due", "none"}
Doc == [status : {"new", "stored", "removed"}, next : Times, lock : {"free", "held", "expired"}]

(* The Job object of an instance, with its own copy of the attributes.     *)
Queued == [doc : Docs, next : {"ahead", "due"}, expired : BOOLEAN, phase : {"queued"}]
Run == [doc : Docs, next : Times, expired : BOOLEAN, phase : {"saving", "calling", "saved"}]

(* timers: the pending calls of _jobProcessing, for when the job that is   *)
(* the next is due.  count: the running field of a definition.             *)
Instance ==
    [defined : SUBSET Names, queue : Seq(Queued), running : Seq(Run),
     timers : Nat, count : [Names -> Nat]]

Started ==
    [defined |-> {}, queue |-> <<>>, running |-> <<>>,
     timers |-> 0, count |-> [n \in Names |-> 0]]

Stored(d) == docs[d].status = "stored"
Gone == {d \in Docs : docs[d].status = "removed"}
MayFail == lapses + crashes + Cardinality(Gone) < MaxFaults
StoredAs(n) == {d \in Docs : NameOf[d] = n /\ Stored(d)}
Unused(n) == {d \in Docs : NameOf[d] = n /\ docs[d].status = "new"}

Init ==
    /\ docs = [d \in Docs |-> [status |-> "new", next |-> "none", lock |-> "free"]]
    /\ up = Instances
    /\ inst = [i \in Instances |-> Started]
    /\ lapses = 0 /\ crashes = 0
    /\ runs = [d \in Docs |-> 0]
    /\ overruns = [d \in Docs |-> 0]

-----------------------------------------------------------------------------
(* The queue of an instance, local being what the instance holds           *)

Ahead(job) == job.next = "ahead"
Due(job) == job.next = "due"

(* JobProcessingQueue.insert keeps the latest to the left.  The model does *)
(* not keep the times: the jobs that are ahead come first, in any order,   *)
(* and a job that is due is later than those that were due before.         *)
FirstDue(q) == Min({k \in DOMAIN q : Due(q[k])} \cup {Len(q) + 1})
Insert(q, job) == InsertAt(q, FirstDue(q), job)

(* A bug to find: null is kept. *)
JobAsFound(d, next) == [doc |-> d, next |-> next, expired |-> FALSE, phase |-> "queued"]

(* A job is made of what was found; one without nextRunAt is due now.      *)
JobOf(d, next) == [doc |-> d, next |-> IF next = "ahead" THEN "ahead" ELSE "due",
                   expired |-> FALSE, phase |-> "queued"]

(* defaultConcurrency of the cron jobs. *)
Concurrency == 1
IsFree(local, job) == local.count[NameOf[job.doc]] < Concurrency

(* returnNextConcurrencyFreeJob: the leftmost job is returned unchecked.   *)
NextFree(local) ==
    LET free == {k \in 2..Len(local.queue) : IsFree(local, local.queue[k])}
    IN  local.queue[IF free = {} THEN 1 ELSE Max(free)]

(* _jobProcessing has a job to run, and _runOrRetry takes the rightmost.   *)
Pops(local) == local.queue # <<>> /\ NextFree(local).next = "due"

(* A lock ran out in the queue: the job is dropped.                        *)
Drops(local) == Pops(local) /\ IsFree(local, Last(local.queue)) /\ Last(local.queue).expired

Upto(local, k) == [local EXCEPT !.queue = SubSeq(@, 1, k)]

(* _runOrRetry calls _jobProcessing for the next job, until one is not     *)
(* dropped.                                                                *)
DropAll(local) ==
    Upto(local, Max({k \in 0..Len(local.queue) : ~Drops(Upto(local, k))}))

(* computeNextRunAt *)
NextOf(d) == IF NameOf[d] \in Recurring THEN "ahead" ELSE "none"

(* job.run *)
Start(local) ==
    LET job == Last(local.queue)
    IN  [local EXCEPT !.queue = Front(@), !.count[NameOf[job.doc]] = @ + 1,
           !.running = Append(@, [job EXCEPT !.next = NextOf(job.doc), !.phase = "saving"])]

(* More timers than there are jobs to run would change nothing.            *)
MaxTimers == Cardinality(Docs)

SetTimer(local) == [local EXCEPT !.timers = IF @ < MaxTimers THEN @ + 1 ELSE @]

(* A bug to find: a lock that ran out in the queue is not noticed. *)
ProcessExpired(local) ==
    IF local.queue = <<>> THEN local
    ELSE IF ~Pops(local) THEN SetTimer(local)
    ELSE IF ~IsFree(local, Last(local.queue)) THEN local
    ELSE Start(local)

(* A bug to find: what is dropped ends the call. *)
ProcessOnce(local) ==
    IF local.queue = <<>> THEN local
    ELSE IF ~Pops(local) THEN SetTimer(local)
    ELSE IF ~IsFree(local, Last(local.queue)) THEN local
    ELSE IF Last(local.queue).expired THEN [local EXCEPT !.queue = Front(@)]
    ELSE Start(local)

(* _jobProcessing and _runOrRetry, once nothing is left to drop: a job     *)
(* that its definition's concurrency does not admit is enqueued again,     *)
(* where it was.                                                           *)
ProcessKept(rest) ==
    IF rest.queue = <<>> THEN rest
    ELSE IF ~Pops(rest) THEN SetTimer(rest)
    ELSE IF ~IsFree(rest, Last(rest.queue)) THEN rest
    ELSE Start(rest)

The(S) == CHOOSE x \in S : TRUE

(* One call of _jobProcessing.  Singletons, so that TLC computes each      *)
(* state of the queue once.                                                *)
Process(local) == The({ProcessKept(rest) : rest \in {DropAll(now) : now \in {local}}})

(* _processJobResult *)
Ended(local, k) ==
    Process([local EXCEPT !.running = RemoveAt(@, k),
                          !.count[NameOf[local.running[k].doc]] = IF @ > 0 THEN @ - 1 ELSE @])

-----------------------------------------------------------------------------
(* Scheduling and locking *)

(* A document is written as doc, but locked, and the job is enqueued.      *)
LockAndQueue(i, d, doc, local) ==
    /\ docs' = [docs EXCEPT ![d] = [doc EXCEPT !.lock = "held"]]
    /\ inst' = [inst EXCEPT ![i] = Process([local EXCEPT !.queue = Insert(@, JobOf(d, doc.next))])]

(* Instance i saved an unlocked document and, if it is due before the next *)
(* scan, hands it to processJobs and _lockOnTheFly.  That is up to the     *)
(* time of the last scan; the attempt to lock is made at once or, with no  *)
(* other effect than that of a scan, later or never.                       *)
SavedUnlocked(i, d, doc, local) ==
    \/ docs' = [docs EXCEPT ![d] = doc] /\ inst' = [inst EXCEPT ![i] = local]
    \/ LockAndQueue(i, d, doc, local)

(* define: a definition is made anew, its counters too.                    *)
Define(local, n) == [local EXCEPT !.defined = @ \cup {n}, !.count[n] = 0]

(* add -> every -> _saveSingleJob, at startup and after a removal.  The    *)
(* next time of a cron expression is ahead, so it is set; lockedAt is not. *)
Every(i, n) ==
    /\ i \in up /\ n \in Recurring
    /\ n \notin inst[i].defined \/ StoredAs(n) = {}
    /\ \E d \in IF StoredAs(n) # {} THEN StoredAs(n) ELSE Unused(n) :
         LET doc == [docs[d] EXCEPT !.status = "stored", !.next = "ahead"]
         IN  IF doc.lock = "free" THEN SavedUnlocked(i, d, doc, Define(inst[i], n))
             ELSE /\ docs' = [docs EXCEPT ![d] = doc]
                  /\ inst' = [inst EXCEPT ![i] = Define(@, n)]
    /\ UNCHANGED <<up, lapses, crashes, runs, overruns>>

(* addAtTimestamp -> schedule -> _saveNewJob *)
Schedule(i, n) ==
    /\ i \in up /\ n \notin Recurring
    /\ \E d \in Unused(n), next \in {"ahead", "due"} :
         SavedUnlocked(i, d, [status |-> "stored", next |-> next, lock |-> "free"],
                       Define(inst[i], n))
    /\ UNCHANGED <<up, lapses, crashes, runs, overruns>>

(* remove -> cancel: the documents go, whatever an instance has locked.    *)
RemoveJobs(n) ==
    /\ MayFail /\ StoredAs(n) # {}
    /\ docs' = [d \in Docs |-> IF d \in StoredAs(n) THEN [docs[d] EXCEPT !.status = "removed"]
                               ELSE docs[d]]
    /\ UNCHANGED <<up, inst, lapses, crashes, runs, overruns>>

(* A bug to find: the query forgets lockedAt. *)
LockableOrLocked(n) == {d \in StoredAs(n) : docs[d].next # "none"}

(* A bug to find: only jobs with a time are looked for. *)
LockableInTime(n) ==
    {d \in StoredAs(n) : docs[d].lock = "free" /\ docs[d].next # "none"}

(* The query of _findAndLockNextJob; null sorts before any time.           *)
Lockable(n) ==
    {d \in StoredAs(n) : \/ docs[d].lock = "free" /\ docs[d].next # "none"
                         \/ docs[d].lock = "expired"}

(* The sort by nextRunAt: null comes first. *)
Rank(d) == CASE docs[d].next = "none" -> 0 [] docs[d].next = "due" -> 1 [] OTHER -> 2
First(n) == {d \in Lockable(n) : \A e \in Lockable(n) : Rank(d) <= Rank(e)}

(* processJobs, _jobQueueFilling: one turn of the recursion.  Its call of  *)
(* _jobProcessing is not put off until there is nothing more to lock.      *)
Fill(i, n) ==
    /\ i \in up /\ n \in inst[i].defined
    /\ UNCHANGED <<up, lapses, crashes, runs, overruns>>
    /\ \E d \in First(n) : LockAndQueue(i, d, docs[d], inst[i])

-----------------------------------------------------------------------------
(* Running *)

(* A bug to find: a job that is gone is written all the same. *)
SaveOrInsert(d, next, lock) ==
    docs' = [docs EXCEPT ![d] = [status |-> "stored", next |-> next, lock |-> lock]]

(* _updateJob: by _id, and only if the job is still there                  *)
Save(d, next, lock) ==
    docs' = [docs EXCEPT ![d] = IF Stored(d) THEN [@ EXCEPT !.next = next, !.lock = lock] ELSE @]

InPhase(i, k, phase) == k \in DOMAIN inst[i].running /\ inst[i].running[k].phase = phase

(* The first save of job.run, with the lock of this run; then the callback *)
(* is called.                                                              *)
Call(i, k) ==
    /\ InPhase(i, k, "saving")
    /\ UNCHANGED <<up, lapses, crashes, overruns>>
    /\ LET job == inst[i].running[k]
       IN  /\ Save(job.doc, job.next, IF job.expired THEN "expired" ELSE "held")
           /\ inst' = [inst EXCEPT ![i].running[k].phase = "calling"]
           /\ runs' = [runs EXCEPT ![job.doc] = IF NameOf[job.doc] \in Recurring THEN @ ELSE @ + 1]

(* The callback returns or throws: the job is saved unlocked.              *)
Return(i, k) ==
    /\ InPhase(i, k, "calling")
    /\ UNCHANGED <<up, lapses, crashes, runs, overruns>>
    /\ Save(inst[i].running[k].doc, inst[i].running[k].next, "free")
    /\ inst' = [inst EXCEPT ![i].running[k].phase = "saved"]

(* The save is answered: _processDbResult, then _processJobResult.         *)
Finish(i, k) ==
    /\ InPhase(i, k, "saved")
    /\ UNCHANGED <<up, lapses, crashes, runs, overruns>>
    /\ LET d == inst[i].running[k].doc
       IN  IF Stored(d) /\ docs[d].lock = "free" /\ docs[d].next # "none"
           THEN SavedUnlocked(i, d, docs[d], Ended(inst[i], k))
           ELSE inst' = [inst EXCEPT ![i] = Ended(@, k)] /\ UNCHANGED docs

-----------------------------------------------------------------------------
(* Time and crashes *)

(* The elements of a sequence at some positions, in their order            *)
At(s, K) == [n \in 1..Cardinality(K) |-> s[CHOOSE k \in K : Cardinality({l \in K : l <= k}) = n]]

(* The jobs of a document of which it is time *)
Comes(d, job) == job.doc = d /\ Ahead(job)
Timely(d, jobs) ==
    [k \in DOMAIN jobs |-> IF Comes(d, jobs[k]) THEN [jobs[k] EXCEPT !.next = "due"] ELSE jobs[k]]

(* Its time comes: it is now the latest of those that are due.             *)
Come(d, q) ==
    LET come == {k \in DOMAIN q : Comes(d, q[k])}
        due == {k \in DOMAIN q : Due(q[k])}
    IN  At(q, DOMAIN q \ (come \cup due)) \o At(Timely(d, q), come) \o At(q, due)

IsAhead(d) ==
    \/ Stored(d) /\ docs[d].next = "ahead"
    \/ \E i \in Instances : \E job \in Range(inst[i].queue) \cup Range(inst[i].running) :
         job.doc = d /\ job.next = "ahead"

Tick(d) ==
    /\ IsAhead(d)
    /\ UNCHANGED <<up, lapses, crashes, runs, overruns>>
    /\ docs' = [docs EXCEPT ![d].next = IF @ = "ahead" THEN "due" ELSE @]
    /\ inst' = [i \in Instances |->
         [inst[i] EXCEPT !.queue = Come(d, @), !.running = Timely(d, @)]]

(* The timers that were set for a time that has come, in turn.             *)
Fired(local) ==
    LET fired[n \in 0..MaxTimers] ==
          IF n = 0 THEN [local EXCEPT !.timers = 0] ELSE Process(fired[n - 1])
    IN  fired[local.timers]

Fire(i) ==
    /\ inst[i].timers > 0 /\ (inst[i].queue = <<>> \/ Pops(inst[i]))
    /\ UNCHANGED <<docs, up, lapses, crashes, runs, overruns>>
    /\ inst' = [inst EXCEPT ![i] = Fired(@)]

Lapse(d, jobs) ==
    [k \in DOMAIN jobs |-> IF jobs[k].doc = d THEN [jobs[k] EXCEPT !.expired = TRUE] ELSE jobs[k]]
Holds(d, job) == job.doc = d /\ ~job.expired /\ job.phase # "saved"
InQueue(d) == \E i \in Instances : \E job \in Range(inst[i].queue) : Holds(d, job)
LockedRuns(d) ==
    UNION {{<<i, k>> : k \in {k \in DOMAIN inst[i].running : Holds(d, inst[i].running[k])}} :
             i \in Instances}
InRun(d) == LockedRuns(d) # {}

(* The locks of a document run out, perhaps while they are in use, and     *)
(* never before the job is due: it is locked at most a scan ahead.         *)
LockExpires(d) ==
    /\ docs[d].lock = "held" \/ InQueue(d) \/ InRun(d)
    /\ \A i \in Instances : \A job \in Range(inst[i].queue) : job.doc = d => job.next = "due"
    /\ UNCHANGED <<up, crashes, runs>>
    /\ docs' = [docs EXCEPT ![d].lock = IF @ = "held" THEN "expired" ELSE @]
    /\ lapses' = IF InQueue(d) \/ InRun(d) THEN lapses + 1 ELSE lapses
    /\ InQueue(d) \/ InRun(d) => d \in Slow /\ MayFail
    /\ overruns' = [overruns EXCEPT ![d] = @ + Cardinality(LockedRuns(d))]
    /\ inst' = [i \in Instances |->
         [inst[i] EXCEPT !.queue = Lapse(d, @), !.running = Lapse(d, @)]]

(* What an instance had in memory is gone, its locks are not.              *)
Crash(i) ==
    /\ MayFail /\ i \in up \cap Mortal
    /\ up' = up \ {i} /\ inst' = [inst EXCEPT ![i] = Started] /\ crashes' = crashes + 1
    /\ UNCHANGED <<docs, lapses, runs, overruns>>

Restart(i) ==
    /\ i \notin up /\ up' = up \cup {i}
    /\ UNCHANGED <<docs, inst, lapses, crashes, runs, overruns>>

-----------------------------------------------------------------------------
Next ==
    \/ \E i \in Instances :
         \/ \E n \in Names : Every(i, n) \/ Schedule(i, n) \/ Fill(i, n)
         \/ \E k \in DOMAIN inst[i].running : Call(i, k) \/ Return(i, k) \/ Finish(i, k)
         \/ Fire(i) \/ Crash(i) \/ Restart(i)
    \/ \E n \in Names : RemoveJobs(n)
    \/ \E d \in Docs : Tick(d) \/ LockExpires(d)

Spec == Init /\ [][Next]_vars

(* A step of a run of a document *)
Advance(i, d) ==
    \E k \in DOMAIN inst[i].running :
      inst[i].running[k].doc = d /\ (Call(i, k) \/ Return(i, k) \/ Finish(i, k))

(* Time passes, scans and timers come, and callbacks return.  Nobody has   *)
(* to schedule anything or restart an instance.                            *)
Fairness ==
    /\ \A d \in Docs : WF_vars(Tick(d)) /\ WF_vars(LockExpires(d))
    /\ \A i \in Instances :
         /\ \A n \in Names : WF_vars(Fill(i, n))
         /\ WF_vars(Fire(i))
         /\ \A d \in Docs : WF_vars(Advance(i, d))

FairSpec == Spec /\ Fairness
=============================================================================
