--------------------------- MODULE AgendaProperties ---------------------------
(***************************************************************************)
(* What a job that was scheduled can rely on.                              *)
(***************************************************************************)
EXTENDS Agenda

(* The collection and what the instances hold have their types; above all  *)
(* a job in a queue has a time, although documents are stored without one, *)
(* and no counter of a definition goes below zero.                         *)
TypeOK ==
    /\ docs \in [Docs -> Doc] /\ up \subseteq Instances
    /\ inst \in [Instances -> Instance]
    /\ lapses \in Nat /\ crashes \in Nat /\ lapses + crashes <= MaxFaults
    /\ runs \in [Docs -> Nat] /\ overruns \in [Docs -> Nat]

(* An instance that holds locked jobs in its queue will look at it again:  *)
(* some call of _jobProcessing is due, or a job runs whose end makes one.  *)
NoLostWakeup ==
    \A i \in Instances :
      inst[i].queue # <<>> =>
        inst[i].timers > 0 \/ inst[i].running # <<>>

(* Runs of a document that have not been saved at their end. *)
RunsOf(d) == UNION {{<<i, k>> : k \in {k \in DOMAIN inst[i].running :
                                         /\ inst[i].running[k].doc = d
                                         /\ inst[i].running[k].phase # "saved"}} : i \in Instances}

(* A job is run by two instances at once, or twice by one, only if a run   *)
(* took longer than its lock lives (lockedAt, lockLifetime).               *)
ExclusiveRun == \A d \in Docs : overruns[d] = 0 => Cardinality(RunsOf(d)) <= 1

(* A job at a timestamp is run once, and again only for a fault: once for  *)
(* a crash, twice for a run that outlives its lock (the first save of a    *)
(* run writes the lock it began with, which may have run out by then).     *)
(* Never because a lock ran out in a queue, nor because a scan and         *)
(* _lockOnTheFly both took the job.                                        *)
OneRunPerFault == \A d \in Docs : runs[d] <= 1 + crashes + 2 * overruns[d]

(* What was removed does not come back, although jobs that were locked at  *)
(* the time still run and save what they know (cancel, _updateJob).        *)
RemovedStaysRemoved ==
    [][\A d \in Docs : docs[d].status = "removed" => docs'[d].status = "removed"]_vars

(* A job waits for its time, or its lock was left behind by a crash.       *)
Waits(d) == Stored(d) /\ (docs[d].next # "none" \/ docs[d].lock # "free")
Known(n) == \E i \in up : n \in inst[i].defined

(* A job that waits is run, by whichever instance, as long as there is one *)
(* that defines it; or it is removed first.                                *)
EveryJobRuns ==
    \A d \in Docs :
      Waits(d) ~> RunsOf(d) # {} \/ ~Stored(d) \/ ~Known(NameOf[d])
=============================================================================
