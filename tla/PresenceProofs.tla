--------------------------- MODULE PresenceProofs ---------------------------
(***************************************************************************)
(* What the status of a user is when everything has settled, for every set *)
(* of connections, nodes, claims and overlapping calls.  The argument: a   *)
(* call that has read what is still true will write the right status; one  *)
(* whose reads have changed will write outdated; and whoever changes the   *)
(* connections owes an update that cannot be rejected.                     *)
(***************************************************************************)
EXTENDS PresenceProperties, PresenceEngineProofs, DataLemmas

Types ==
    /\ user \in Owner
    /\ conns \in [Connections -> {"online", "away", None}]
    /\ workers \in [Workers -> Worker]
    /\ now \in Nat /\ cleared \in BOOLEAN /\ outdated \in BOOLEAN

(* A call that knows what is true: its copy of the user is the user, and   *)
(* the status that it will write follows from what it will write.          *)
Timely(k) ==
    ~k.late => /\ k.step = "read connections" => k.seen = user
               /\ k.step = "write" =>
                    k.status = Status(Written(user, k.write).claim, k.update.kind)

(* The end of an expired claim begins with that claim. *)
Expires(k) ==
    k.update.kind = "expire" => k.step \in {"read connections", "write"} /\ k.seen.claim.until \in Past

WorkersOK ==
    \A w \in Workers :
      /\ Timely(workers[w]) /\ Expires(workers[w])
      /\ workers[w].update.kind = "clearActive" => cleared

(* The status follows from the claim and the connections. *)
Settled ==
    \/ status = Status(user.claim, "connection")
    \/ cleared /\ Reported = {} /\ status = "online"

(* A call that will write, whatever it reads *)
Owes(k) == k.update.kind = "connection" /\ k.step \in {"read user", "read connections", "write"}

Balanced == Settled \/ outdated \/ \E w \in Workers : Owes(workers[w])

IInv == Types /\ WorkersOK /\ Balanced

-----------------------------------------------------------------------------
(* Types                                                                   *)

LEMMA StatusType ==
  ASSUME NEW claim \in Claim, NEW kind
  PROVE  Status(claim, kind) \in Statuses
  BY DEF Status, Claim, Statuses

LEMMA IdleType == Idle \in Worker /\ Idle.update = NoClaimUpdate /\ NoClaimUpdate \in ClaimUpdate
  BY ConstantTypes DEF Idle, Worker, NoClaimUpdate, ClaimUpdate, Kinds, Steps

(* What Outdate does to each worker. *)
Marks(steps, w, k) ==
    /\ workers' \in [Workers -> Worker] /\ workers'[w] = k
    /\ \A v \in Workers \ {w} :
         /\ workers'[v].step = workers[v].step /\ workers'[v].update = workers[v].update
         /\ workers'[v].seen = workers[v].seen /\ workers'[v].write = workers[v].write
         /\ workers'[v].late = (workers[v].late \/ workers[v].step \in steps)

LEMMA Outdated ==
  ASSUME workers \in [Workers -> Worker], NEW steps, NEW w \in Workers, NEW k \in Worker,
         workers' = Outdate(workers, steps, w, k)
  PROVE  Marks(steps, w, k)
<1> DEFINE late(v) == [workers[v] EXCEPT !.late = TRUE]
<1>1. ASSUME NEW v \in Workers
      PROVE  /\ late(v) \in Worker /\ late(v).late
             /\ late(v).step = workers[v].step /\ late(v).update = workers[v].update
             /\ late(v).seen = workers[v].seen /\ late(v).write = workers[v].write
             /\ workers[v].late \in BOOLEAN
  BY DEF Worker
<1>2. workers' = [v \in Workers |-> IF v = w THEN k
                                    ELSE IF workers[v].step \in steps THEN late(v) ELSE workers[v]]
  BY DEF Outdate
<1> HIDE DEF late
<1> QED BY <1>1, <1>2 DEF Marks

(* What a call of resolveIntent results in. *)
LEMMA ResolvedType ==
  ASSUME NEW seen \in Owner, NEW update \in ClaimUpdate
  PROVE  Resolved(seen, update) \in Update
  BY ConstantTypes, SetActiveType, EndActiveType DEF Resolved, ClaimUpdate

-----------------------------------------------------------------------------
(* Steps that leave the user alone                                         *)

LEMMA TimelyStays ==
  ASSUME NEW j, Timely(j), user' = user, Reported' = Reported
  PROVE  Timely(j)'
<1>1. ASSUME NEW claim, NEW kind
      PROVE  Status(claim, kind)' = Status(claim, kind)
  BY DEF Status
<1>2. Status(Written(user, j.write).claim, j.update.kind)' = Status(Written(user, j.write).claim, j.update.kind)
  BY <1>1 DEF Status
<1> QED BY <1>2 DEF Timely

(* What is past stays past. *)
LEMMA ExpiresStays ==
  ASSUME Types, NEW j, Expires(j), now' = now \/ now' = now + 1
  PROVE  Expires(j)'
<1>0. now' \in Nat /\ now <= now' /\ now \in Nat
  BY DEF Types
<1>1. ASSUME NEW m \in Moments, m < now
      PROVE  m < now'
  BY <1>0, <1>1, PresenceAssumption DEF PresenceAssumption
<1>2. Past \subseteq Past'
  BY <1>1 DEF Past
<1> QED BY <1>2 DEF Expires

LEMMA SettledStays ==
  ASSUME Reported' = Reported, UNCHANGED <<user, status, cleared>>
  PROVE  Settled' = Settled
  BY DEF Settled, Status

(* A worker of the next state is as it should be. *)
LEMMA WorkersOKNext ==
  ASSUME \A v \in Workers : \A j :
           j = workers'[v] => Timely(j)' /\ Expires(j)' /\ (j.update.kind = "clearActive" => cleared')
  PROVE  WorkersOK'
<1> SUFFICES ASSUME NEW v \in Workers
             PROVE  /\ Timely(workers[v])' /\ Expires(workers[v])'
                    /\ workers'[v].update.kind = "clearActive" => cleared'
  BY DEF WorkersOK
<1>1. PICK j : j = workers'[v]
  OBVIOUS
<1>2. Timely(j)' /\ Expires(j)' /\ (j.update.kind = "clearActive" => cleared')
  BY <1>1
<1> QED BY <1>1, <1>2 DEF Timely, Expires

(* One worker goes on, and owes no less than before. *)
LEMMA TurnKeeps ==
  ASSUME IInv, UNCHANGED <<user, status, conns, outdated, now>>,
         cleared' = cleared \/ cleared' = TRUE,
         NEW w \in Workers, NEW k \in Worker, workers' = [workers EXCEPT ![w] = k],
         Timely(k), Expires(k), k.update.kind = "clearActive" => cleared',
         Owes(workers[w]) => Owes(k)
  PROVE  IInv'
<1>0. cleared => cleared'
  OBVIOUS
<1>1. workers' \in [Workers -> Worker] /\ workers'[w] = k /\ \A v \in Workers \ {w} : workers'[v] = workers[v]
  BY DEF IInv, Types
<1>2. Types'
  BY <1>1 DEF IInv, Types
<1>3. Reported' = Reported
  BY DEF Reported, Recorded
<1>4. ASSUME NEW v \in Workers, NEW j, j = workers'[v]
      PROVE  Timely(j)' /\ Expires(j)' /\ (j.update.kind = "clearActive" => cleared')
  <2>1. Timely(j) /\ Expires(j) /\ (j.update.kind = "clearActive" => cleared')
    BY <1>0, <1>1, <1>4 DEF IInv, WorkersOK
  <2> QED BY <1>3, <2>1, TimelyStays, ExpiresStays DEF IInv
<1>5. WorkersOK'
  BY <1>4, WorkersOKNext
<1>6. Settled => Settled'
  BY <1>0, <1>3 DEF Settled, Status
<1>7. ASSUME NEW v \in Workers, Owes(workers[v])
      PROVE  Owes(workers'[v])
  BY <1>1, <1>7
<1>8. Balanced'
  BY <1>6, <1>7 DEF IInv, Balanced, Owes
<1> QED BY <1>2, <1>5, <1>8 DEF IInv

(* The recorded connections change, and a worker is to follow. *)
LEMMA ChangeKeeps ==
  ASSUME IInv, UNCHANGED <<user, status, outdated, now, cleared>>,
         conns' \in [Connections -> {"online", "away", None}], NEW w \in Workers,
         workers' = Outdate(workers, {"write"}, w, [Idle EXCEPT !.step = "read user"])
  PROVE  IInv'
<1> DEFINE k == [Idle EXCEPT !.step = "read user"]
<1>1. k \in Worker /\ k.step = "read user" /\ k.update.kind = "connection"
  BY IdleType DEF Idle, Worker, Steps, NoClaimUpdate
<1> DEFINE steps == {"write"}
<1>2. Marks(steps, w, k)
  BY <1>1, Outdated DEF IInv, Types
<1> USE DEF Marks
<1> HIDE DEF k
<1>3. Types'
  BY <1>2 DEF IInv, Types
<1>4. ASSUME NEW v \in Workers, NEW j, j = workers'[v]
      PROVE  Timely(j)' /\ Expires(j)' /\ (j.update.kind = "clearActive" => cleared')
  <2>1. CASE v = w
    BY <1>1, <1>2, <1>4, <2>1 DEF Timely, Expires
  <2>2. CASE v # w
    <3>1. Timely(workers[v]) /\ Expires(workers[v]) /\ (workers[v].update.kind = "clearActive" => cleared)
      BY DEF IInv, WorkersOK
    <3>2. /\ j.step = workers[v].step /\ j.update = workers[v].update /\ j.seen = workers[v].seen
          /\ j.late = (workers[v].late \/ workers[v].step \in {"write"})
      BY <1>2, <1>4, <2>2
    <3>3. Timely(j)'
      BY <3>1, <3>2 DEF Timely
    <3>4. Expires(j)
      BY <3>1, <3>2 DEF Expires
    <3> QED BY <3>1, <3>2, <3>3, <3>4, ExpiresStays DEF IInv
  <2> QED BY <2>1, <2>2
<1>5. WorkersOK'
  BY <1>4, WorkersOKNext
<1>6. Balanced'
  BY <1>1, <1>2 DEF Balanced, Owes
<1> QED BY <1>3, <1>5, <1>6 DEF IInv

(* A worker that begins has read nothing yet. *)
LEMMA BeginKeeps ==
  ASSUME IInv, UNCHANGED <<user, status, conns, outdated, now>>,
         cleared' = cleared \/ cleared' = TRUE,
         NEW w, NEW update \in ClaimUpdate, Begin(w, update), update.kind # "expire",
         update.kind = "clearActive" => cleared'
  PROVE  IInv'
<1> DEFINE k == [Idle EXCEPT !.step = "read user", !.update = update]
<1>1. k \in Worker /\ k.step = "read user" /\ k.update = update
  BY IdleType DEF Idle, Worker, Steps
<1>2. w \in Workers /\ workers[w].step = "idle" /\ workers' = [workers EXCEPT ![w] = k]
  BY DEF Begin, Workers
<1> HIDE DEF k
<1>3. Timely(k) /\ Expires(k) /\ (k.update.kind = "clearActive" => cleared') /\ ~Owes(workers[w])
  BY <1>1, <1>2 DEF Timely, Expires, Owes
<1> QED BY <1>1, <1>2, <1>3, TurnKeeps

(* No worker does anything. *)
LEMMA StillKeeps ==
  ASSUME IInv, UNCHANGED <<user, status, conns, outdated, cleared, workers>>,
         now' = now \/ now' = now + 1
  PROVE  IInv'
<1>1. Types'
  BY DEF IInv, Types
<1>2. Reported' = Reported
  BY DEF Reported, Recorded
<1>3. ASSUME NEW v \in Workers, NEW j, j = workers'[v]
      PROVE  Timely(j)' /\ Expires(j)' /\ (j.update.kind = "clearActive" => cleared')
  <2>1. Timely(j) /\ Expires(j) /\ (j.update.kind = "clearActive" => cleared')
    BY <1>3 DEF IInv, WorkersOK
  <2> QED BY <1>2, <2>1, TimelyStays, ExpiresStays DEF IInv
<1>4. WorkersOK'
  BY <1>3, WorkersOKNext
<1>5. Settled => Settled'
  BY <1>2, SettledStays
<1>6. Balanced'
  BY <1>5 DEF IInv, Balanced, Owes
<1> QED BY <1>1, <1>4, <1>6 DEF IInv

-----------------------------------------------------------------------------
(* The steps of calls                                                      *)

LEMMA AddConnectionKeeps ==
  ASSUME IInv, NEW w \in Workers, AddConnection(w)
  PROVE  IInv'
<1>1. conns' \in [Connections -> {"online", "away", None}]
  BY DEF AddConnection, IInv, Types
<1> QED BY <1>1, ChangeKeeps DEF AddConnection, outside

LEMMA ReadUserKeeps ==
  ASSUME IInv, NEW w \in Workers, ReadUser(w)
  PROVE  IInv'
<1> DEFINE k == [workers[w] EXCEPT !.step = "read connections", !.seen = user]
<1>0. workers[w] \in Worker /\ user \in Owner /\ workers \in [Workers -> Worker]
  BY DEF IInv, Types
<1>1. /\ k \in Worker /\ k.step = "read connections" /\ k.seen = user
      /\ k.update = workers[w].update
  BY <1>0 DEF Worker, Steps
<1>2. workers' = [workers EXCEPT ![w] = k]
  BY <1>0 DEF ReadUser
<1> HIDE DEF k
<1>3. workers[w].step = "read user" /\ Expires(workers[w])
      /\ (workers[w].update.kind = "clearActive" => cleared)
  BY DEF ReadUser, IInv, WorkersOK
<1>4. Timely(k) /\ Expires(k) /\ (k.update.kind = "clearActive" => cleared') /\ (Owes(workers[w]) => Owes(k))
  BY <1>1, <1>3 DEF ReadUser, outside, Timely, Expires, Owes
<1> QED BY <1>1, <1>2, <1>4, TurnKeeps DEF ReadUser, outside, recorded

LEMMA AfterUpdateType ==
  ASSUME NEW kind
  PROVE  /\ AfterUpdate(kind) \in Worker /\ AfterUpdate(kind).step \in {"idle", "take token"}
         /\ AfterUpdate(kind).update.kind = "connection"
  BY IdleType DEF AfterUpdate, Idle, Worker, Steps, NoClaimUpdate

(* A call that read what is true computes the right status (processPresence). *)
LEMMA ReadConnectionsKeeps ==
  ASSUME IInv, NEW w \in Workers, ReadConnections(w)
  PROVE  IInv'
<1> DEFINE worker == workers[w]
           update == worker.update
           write == Resolved(worker.seen, update)
           next == Status(Written(worker.seen, write).claim, update.kind)
           seen == IF IsGuarded(worker) THEN worker.seen ELSE NoClaims
           kept == [NoClaimUpdate EXCEPT !.kind = update.kind]
           k == [worker EXCEPT !.step = "write", !.write = write, !.update = kept,
                               !.status = next, !.seen = seen]
<1>0. worker \in Worker /\ workers \in [Workers -> Worker] /\ worker.step = "read connections"
  BY DEF IInv, Types, ReadConnections
<1>1. worker.seen \in Owner /\ update \in ClaimUpdate
  BY <1>0 DEF Worker
<1>2. write \in Update
  BY <1>1, ResolvedType
<1>3. next \in Statuses
  <2>1. Written(worker.seen, write).claim \in Claim
    BY <1>1, <1>2, WrittenType DEF Owner
  <2> QED BY <2>1, StatusType
<1>4. kept \in ClaimUpdate /\ kept.kind = update.kind
  BY <1>1, IdleType DEF ClaimUpdate, NoClaimUpdate
<1>5. seen \in Owner
  BY <1>1, ConstantTypes
<1>6. Timely(worker) /\ Expires(worker) /\ (update.kind = "clearActive" => cleared)
  BY DEF IInv, WorkersOK
<1>7. CASE update.kind # "connection" /\ write = Rejected
  <2>1. workers' = [workers EXCEPT ![w] = AfterUpdate(update.kind)]
    BY <1>7 DEF ReadConnections
  <2>2. /\ Timely(AfterUpdate(update.kind)) /\ Expires(AfterUpdate(update.kind))
        /\ AfterUpdate(update.kind).update.kind # "clearActive" /\ ~Owes(worker)
    BY <1>7, AfterUpdateType DEF Timely, Expires, Owes
  <2> QED BY <2>1, <2>2, AfterUpdateType, TurnKeeps DEF ReadConnections, outside, recorded
<1>8. CASE ~(update.kind # "connection" /\ write = Rejected)
  <2>1. workers' = [workers EXCEPT ![w] = k]
    BY <1>8 DEF ReadConnections
  <2> HIDE DEF write, next, seen, kept
  <2>2. /\ k \in Worker /\ k.step = "write" /\ k.write = write /\ k.update = kept
        /\ k.status = next /\ k.seen = seen /\ k.late = worker.late
    BY <1>0, <1>2, <1>3, <1>4, <1>5 DEF Worker, Steps
  <2> HIDE DEF k
  <2>3. Timely(k)
    <3>1. CASE worker.late
      BY <2>2, <3>1 DEF Timely
    <3>2. CASE ~worker.late
      <4>1. worker.seen = user
        BY <1>0, <1>6, <3>2 DEF Timely
      <4>2. next = Status(Written(user, write).claim, kept.kind)
        BY <1>4, <4>1 DEF next
      <4> QED BY <2>2, <4>2 DEF Timely
    <3> QED BY <3>1, <3>2
  <2>4. Expires(k)
    <3>1. CASE update.kind = "expire"
      <4>1. worker.seen.claim.until \in Past /\ worker.seen.claim.until # None
        BY <1>6, <3>1, EngineAssumption DEF Expires, Past, EngineAssumption
      <4>2. seen = worker.seen
        BY <3>1, <4>1 DEF seen, IsGuarded
      <4> QED BY <2>2, <4>1, <4>2 DEF Expires
    <3>2. CASE update.kind # "expire"
      BY <1>4, <2>2, <3>2 DEF Expires
    <3> QED BY <3>1, <3>2
  <2>5. (k.update.kind = "clearActive" => cleared') /\ (Owes(worker) => Owes(k))
    BY <1>4, <1>6, <2>2 DEF ReadConnections, outside, Owes
  <2> QED BY <2>1, <2>2, <2>3, <2>4, <2>5, TurnKeeps DEF ReadConnections, outside, recorded
<1> QED BY <1>7, <1>8

(* A write that matches: the status is right, or the write is outdated.    *)
LEMMA MatchedWriteKeeps ==
  ASSUME IInv, NEW w \in Workers, Write(w), Matches(workers[w])
  PROVE  IInv'
<1> DEFINE worker == workers[w]
           k == AfterUpdate(worker.update.kind)
           steps == {"read connections", "write"}
<1>0. /\ worker \in Worker /\ workers \in [Workers -> Worker] /\ worker.step = "write"
      /\ user' = Written(user, worker.write) /\ status' = worker.status /\ outdated' = worker.late
      /\ UNCHANGED <<conns, now, cleared>>
  BY DEF IInv, Types, Write, recorded, outside
<1>1. workers' = IF user' = user THEN [workers EXCEPT ![w] = k] ELSE Outdate(workers, steps, w, k)
  BY DEF Write
<1>2. /\ k \in Worker /\ k.step \in {"idle", "take token"} /\ k.update.kind = "connection"
  BY AfterUpdateType
<1> HIDE DEF k, steps
<1>3. user' \in Owner
  BY <1>0, WrittenType DEF IInv, Types, Worker
<1>4. user' # user => Marks(steps, w, k)
  BY <1>0, <1>1, <1>2, Outdated
<1>5. user' = user => /\ workers' \in [Workers -> Worker] /\ workers'[w] = k
                      /\ \A v \in Workers \ {w} : workers'[v] = workers[v]
  BY <1>0, <1>1, <1>2
<1>6. Types'
  BY <1>0, <1>3, <1>4, <1>5 DEF IInv, Types, Marks, Worker
<1>7. Reported' = Reported
  BY <1>0 DEF Reported, Recorded
<1>8. ASSUME NEW v \in Workers, NEW j, j = workers'[v]
      PROVE  Timely(j)' /\ Expires(j)' /\ (j.update.kind = "clearActive" => cleared')
  <2>1. CASE v = w
    BY <1>2, <1>4, <1>5, <1>8, <2>1 DEF Marks, Timely, Expires
  <2>2. CASE v # w
    <3>1. Timely(workers[v]) /\ Expires(workers[v]) /\ (workers[v].update.kind = "clearActive" => cleared)
      BY DEF IInv, WorkersOK
    <3>2. CASE user' = user
      <4>1. j = workers[v]
        BY <1>5, <1>8, <2>2, <3>2
      <4> QED BY <1>0, <1>7, <3>1, <3>2, <4>1, TimelyStays, ExpiresStays DEF IInv
    <3>3. CASE user' # user
      <4>1. /\ j.step = workers[v].step /\ j.update = workers[v].update /\ j.seen = workers[v].seen
            /\ j.late = (workers[v].late \/ workers[v].step \in steps)
        BY <1>4, <1>8, <2>2, <3>3 DEF Marks
      <4>2. Timely(j)'
        BY <4>1 DEF Timely, steps
      <4>3. Expires(j)
        BY <3>1, <4>1 DEF Expires
      <4> QED BY <1>0, <3>1, <4>1, <4>2, <4>3, ExpiresStays DEF IInv
    <3> QED BY <3>2, <3>3
  <2> QED BY <2>1, <2>2
<1>9. WorkersOK'
  BY <1>8, WorkersOKNext
<1>10. CASE worker.late
  BY <1>0, <1>6, <1>9, <1>10 DEF IInv, Balanced
<1>11. CASE ~worker.late
  <2>1. Timely(worker) /\ (worker.update.kind = "clearActive" => cleared)
    BY DEF IInv, WorkersOK
  <2>2. status' = Status(user'.claim, worker.update.kind)
    BY <1>0, <1>11, <2>1 DEF Timely
  <2>3. Settled'
    <3>1. CASE worker.update.kind = "clearActive"
      BY <1>0, <1>7, <2>1, <2>2, <3>1 DEF Settled, Status
    <3>2. CASE worker.update.kind # "clearActive"
      BY <1>7, <2>2, <3>2 DEF Settled, Status
    <3> QED BY <3>1, <3>2
  <2> QED BY <1>6, <1>9, <2>3 DEF IInv, Balanced
<1> QED BY <1>10, <1>11

(* One that does not match owed nothing. *)
LEMMA WriteKeeps ==
  ASSUME IInv, NEW w \in Workers, Write(w)
  PROVE  IInv'
<1> DEFINE k == AfterUpdate(workers[w].update.kind)
<1>1. CASE Matches(workers[w])
  BY <1>1, MatchedWriteKeeps
<1>2. CASE ~Matches(workers[w])
  <2>1. workers' = [workers EXCEPT ![w] = k] /\ UNCHANGED <<user, status, conns, outdated, now, cleared>>
    BY <1>2 DEF Write, recorded, outside
  <2>2. ~Owes(workers[w])
    BY <1>2 DEF Matches, IsGuarded, Owes
  <2>3. k \in Worker /\ k.step \in {"idle", "take token"} /\ k.update.kind = "connection"
    BY AfterUpdateType
  <2> HIDE DEF k
  <2>4. Timely(k) /\ Expires(k) /\ k.update.kind # "clearActive"
    BY <2>3 DEF Timely, Expires
  <2> QED BY <2>1, <2>2, <2>3, <2>4, TurnKeeps
<1> QED BY <1>1, <1>2

(* A worker that goes on where it owes nothing. *)
LEMMA GoOnKeeps ==
  ASSUME IInv, UNCHANGED <<user, status, conns, outdated, now, cleared>>,
         NEW w \in Workers, NEW k \in Worker, workers' = [workers EXCEPT ![w] = k],
         workers[w].step \notin {"read user", "read connections", "write"},
         k.step \notin {"read connections", "write"},
         k.update = workers[w].update \/ k.update = NoClaimUpdate
  PROVE  IInv'
<1>1. Expires(workers[w]) /\ (workers[w].update.kind = "clearActive" => cleared) /\ ~Owes(workers[w])
  BY DEF IInv, WorkersOK, Owes
<1>2. workers[w].update.kind # "expire"
  BY <1>1 DEF Expires
<1>3. NoClaimUpdate.kind = "connection"
  BY DEF NoClaimUpdate
<1>4. k.update.kind # "expire" /\ (k.update.kind = "clearActive" => cleared)
  BY <1>1, <1>2, <1>3
<1>5. Timely(k) /\ Expires(k)
  BY <1>4 DEF Timely, Expires
<1> QED BY <1>1, <1>4, <1>5, TurnKeeps

(* The job finds a claim that has expired, or nothing. *)
LEMMA FindExpiredKeeps ==
  ASSUME IInv, NEW w \in Workers, FindExpired(w)
  PROVE  IInv'
<1> USE DEF FindExpired, recorded, outside
<1>1. CASE user.claim.until \in Past
  <2> DEFINE k == [Idle EXCEPT !.step = "read connections", !.update = Expiring, !.seen = user]
  <2>1. /\ k \in Worker /\ k.step = "read connections" /\ k.seen = user /\ k.update.kind = "expire"
    BY IdleType DEF Idle, Worker, Steps, Expiring, NoClaimUpdate, ClaimUpdate, Kinds, IInv, Types
  <2>2. workers' = [workers EXCEPT ![w] = k]
    BY <1>1
  <2> HIDE DEF k
  <2>3. Timely(k) /\ Expires(k) /\ k.update.kind # "clearActive" /\ ~Owes(workers[w])
    BY <1>1, <2>1 DEF Timely, Expires, Owes
  <2> QED BY <2>1, <2>2, <2>3, TurnKeeps
<1>2. CASE user.claim.until \notin Past
  <2> DEFINE k == [Idle EXCEPT !.step = "take token"]
  <2>1. k \in Worker /\ k.step = "take token" /\ k.update = NoClaimUpdate
    BY IdleType DEF Idle, Worker, Steps
  <2>2. workers' = [workers EXCEPT ![w] = k]
    BY <1>2
  <2> HIDE DEF k
  <2> QED BY <2>1, <2>2, GoOnKeeps
<1> QED BY <1>1, <1>2

(* setupNextExpiration *)
LEMMA RescheduleKeeps ==
  ASSUME IInv, NEW w \in Workers, TakeToken(w) \/ FindNext(w) \/ RemoveJob(w) \/ AddJob(w)
  PROVE  IInv'
<1> USE DEF recorded, outside
<1>0. workers[w] \in Worker /\ workers \in [Workers -> Worker] /\ user \in Owner
  BY DEF IInv, Types
<1>1. Idle \in Worker /\ Idle.step = "idle" /\ Idle.update = NoClaimUpdate
  BY IdleType DEF Idle
<1>2. CASE workers' = [workers EXCEPT ![w] = Idle]
  BY <1>1, <1>2, GoOnKeeps DEF TakeToken, FindNext, RemoveJob, AddJob
<1>3. CASE TakeToken(w)
  <2> DEFINE k == [workers[w] EXCEPT !.step = "find next"]
  <2>1. k \in Worker /\ k.step = "find next" /\ k.update = workers[w].update
    BY <1>0 DEF Worker, Steps
  <2>2. workers' = [workers EXCEPT ![w] = k]
    BY <1>3 DEF TakeToken
  <2> HIDE DEF k
  <2> QED BY <1>3, <2>1, <2>2, GoOnKeeps DEF TakeToken
<1>4. CASE FindNext(w)
  <2> DEFINE k == [workers[w] EXCEPT !.step = "remove job", !.next = user.claim.until]
  <2>1. k \in Worker /\ k.step = "remove job" /\ k.update = workers[w].update
    BY <1>0 DEF Worker, Steps, Owner, Claim
  <2>2. workers' = [workers EXCEPT ![w] = k]
    BY <1>0, <1>4 DEF FindNext
  <2> HIDE DEF k
  <2> QED BY <1>4, <2>1, <2>2, GoOnKeeps DEF FindNext
<1>5. CASE RemoveJob(w) /\ workers' # [workers EXCEPT ![w] = Idle]
  <2> DEFINE k == [workers[w] EXCEPT !.step = "add job"]
  <2>1. k \in Worker /\ k.step = "add job" /\ k.update = workers[w].update
    BY <1>0 DEF Worker, Steps
  <2>2. workers' = [workers EXCEPT ![w] = k]
    BY <1>5 DEF RemoveJob
  <2> HIDE DEF k
  <2> QED BY <1>5, <2>1, <2>2, GoOnKeeps DEF RemoveJob
<1> QED BY <1>2, <1>3, <1>4, <1>5 DEF AddJob

LEMMA AdvanceKeeps ==
  ASSUME IInv, NEW w \in Workers, Advance(w)
  PROVE  IInv'
  BY AddConnectionKeeps, ReadUserKeeps, ReadConnectionsKeeps, WriteKeeps, FindExpiredKeeps, RescheduleKeeps
    DEF Advance

-----------------------------------------------------------------------------
(* Connections, claims, the reaper, time and crashes                       *)

(* Every call that changes what is recorded is followed by an update. *)
LEMMA RemovalKeeps ==
  ASSUME IInv, NEW ks, Remove(ks), NEW w, BeginChanging(w),
         UNCHANGED <<user, status, outdated, now, cleared>>
  PROVE  IInv'
<1>1. conns' \in [Connections -> {"online", "away", None}]
  BY DEF Remove, IInv, Types
<1>2. w \in Workers /\ workers' = Outdate(workers, {"write"}, w, [Idle EXCEPT !.step = "read user"])
  BY DEF BeginChanging, Workers
<1> QED BY <1>1, <1>2, ChangeKeeps

LEMMA NewConnectionKeeps ==
  ASSUME IInv, NEW w \in Calls, NEW k \in Connections, NewConnection(w, k)
  PROVE  IInv'
<1> DEFINE next == [Idle EXCEPT !.step = "add connection", !.connection = k]
<1>1. next \in Worker /\ next.step = "add connection" /\ next.update = NoClaimUpdate
  BY IdleType DEF Idle, Worker, Steps
<1>2. w \in Workers /\ workers' = [workers EXCEPT ![w] = next] /\ workers[w].step = "idle"
  BY DEF NewConnection, Workers
<1> HIDE DEF next
<1> QED BY <1>1, <1>2, GoOnKeeps DEF NewConnection, recorded

LEMMA ConnectionKeeps ==
  ASSUME IInv, NEW w \in Calls, NEW k \in Connections,
         UpdateConnection(w, k) \/ RemoveConnection(w, k)
           \/ \E s \in {"online", "away"} : SetConnectionStatus(w, k, s)
  PROVE  IInv'
<1>0. NoClaimUpdate \in ClaimUpdate /\ NoClaimUpdate.kind = "connection"
  BY IdleType DEF NoClaimUpdate
<1>1. CASE UpdateConnection(w, k)
  BY <1>0, <1>1, BeginKeeps DEF UpdateConnection, outside
<1>2. CASE RemoveConnection(w, k)
  BY <1>2, RemovalKeeps DEF RemoveConnection
<1>3. ASSUME NEW s \in {"online", "away"}, SetConnectionStatus(w, k, s)
      PROVE  IInv'
  <2>1. CASE conns[k] = None
    BY <1>0, <1>3, <2>1, BeginKeeps DEF SetConnectionStatus
  <2>2. CASE conns[k] # None
    <3>1. conns' \in [Connections -> {"online", "away", None}]
      BY <1>3, <2>2 DEF SetConnectionStatus, IInv, Types
    <3>2. w \in Workers /\ workers' = Outdate(workers, {"write"}, w, [Idle EXCEPT !.step = "read user"])
      BY <1>3, <2>2 DEF SetConnectionStatus, BeginChanging, Workers
    <3> QED BY <1>3, <3>1, <3>2, ChangeKeeps DEF SetConnectionStatus
  <2> QED BY <2>1, <2>2
<1> QED BY <1>1, <1>2, <1>3

LEMMA LostKeeps ==
  ASSUME IInv, NEW w \in Calls, FlushBatch(w) \/ \E n \in Nodes : RemoveLostConnections(w, n)
  PROVE  IInv'
<1>1. CASE FlushBatch(w)
  BY <1>1, RemovalKeeps DEF FlushBatch, outside
<1>2. ASSUME NEW n \in Nodes, RemoveLostConnections(w, n)
      PROVE  IInv'
  BY <1>2, RemovalKeeps DEF RemoveLostConnections, outside
<1> QED BY <1>1, <1>2

(* Claim updates *)
LEMMA ClaimKeeps ==
  ASSUME IInv, NEW w \in Calls,
         ClearActiveState(w) \/ \E c \in Claims : SetActiveState(w, c) \/ EndActiveState(w, c)
  PROVE  IInv'
<1> USE DEF recorded
<1>1. ASSUME NEW c \in Claims, SetActiveState(w, c)
      PROVE  IInv'
  <2>1. SettingActive(c) \in ClaimUpdate /\ SettingActive(c).kind = "setActive"
    BY IdleType, PresenceAssumption DEF SettingActive, NoClaimUpdate, ClaimUpdate, Kinds, PresenceAssumption
  <2> QED BY <1>1, <2>1, BeginKeeps DEF SetActiveState, BeginClaim
<1>2. ASSUME NEW c \in Claims, EndActiveState(w, c)
      PROVE  IInv'
  <2>1. EndingActive(c.id) \in ClaimUpdate /\ EndingActive(c.id).kind = "endActive"
    BY IdleType, PresenceAssumption DEF EndingActive, NoClaimUpdate, ClaimUpdate, Kinds, PresenceAssumption, Claim
  <2> QED BY <1>2, <2>1, BeginKeeps DEF EndActiveState, BeginClaim
<1>3. CASE ClearActiveState(w)
  <2>1. ClearingActive \in ClaimUpdate /\ ClearingActive.kind = "clearActive"
    BY IdleType DEF ClearingActive, NoClaimUpdate, ClaimUpdate, Kinds
  <2> QED BY <1>3, <2>1, BeginKeeps DEF ClearActiveState, BeginClaim
<1> QED BY <1>1, <1>2, <1>3

LEMMA RunJobKeeps ==
  ASSUME IInv, NEW m, RunJob(m)
  PROVE  IInv'
<1> DEFINE w == ExpirationJob
           k == [workers[w] EXCEPT !.step = "find expired"]
<1>0. w \in Workers /\ workers[w] \in Worker
  BY DEF Workers, IInv, Types
<1>1. k \in Worker /\ k.step = "find expired" /\ k.update = workers[w].update
  BY <1>0 DEF Worker, Steps
<1>2. workers' = [workers EXCEPT ![w] = k]
  BY DEF RunJob
<1> HIDE DEF k
<1> QED BY <1>0, <1>1, <1>2, GoOnKeeps DEF RunJob, recorded, outside

(* Whatever was on its way is lost: the status is outdated. *)
LEMMA CrashKeeps ==
  ASSUME IInv, Crash
  PROVE  IInv'
<1> DEFINE start == [Idle EXCEPT !.step = "find expired"]
<1>1. /\ Idle \in Worker /\ Idle.step = "idle" /\ Idle.update.kind = "connection"
      /\ start \in Worker /\ start.step = "find expired" /\ start.update.kind = "connection"
  BY IdleType DEF Idle, Worker, Steps, NoClaimUpdate
<1>2. workers' = [w \in Workers |-> IF w = ExpirationJob THEN start ELSE Idle]
  BY DEF Crash
<1> HIDE DEF start
<1>3. Types'
  BY <1>1, <1>2 DEF Crash, IInv, Types
<1>4. ASSUME NEW v \in Workers, NEW j, j = workers'[v]
      PROVE  Timely(j)' /\ Expires(j)' /\ (j.update.kind = "clearActive" => cleared')
  BY <1>1, <1>2, <1>4 DEF Timely, Expires
<1>5. WorkersOK'
  BY <1>4, WorkersOKNext
<1> QED BY <1>3, <1>5 DEF Crash, IInv, Balanced

-----------------------------------------------------------------------------
(* The invariant                                                           *)

LEMMA InitEstablishes ==
  ASSUME Init
  PROVE  IInv
<1>1. PICK c \in Ongoing \cup {Unclaimed} : user = [claim |-> c, stash |-> None]
  BY DEF Init
<1>2. user \in Owner
  BY <1>1, ConstantTypes, PresenceAssumption DEF PresenceAssumption, Owner
<1>3. conns \in [Connections -> {"online", "away", None}]
  BY DEF Init
<1>4. Idle \in Worker /\ Idle.step = "idle" /\ Idle.update.kind = "connection"
  BY IdleType DEF Idle, NoClaimUpdate
<1>5. workers = [w \in Workers |-> Idle] /\ now = 0 /\ cleared = FALSE /\ outdated = FALSE
      /\ status = Status(user.claim, "connection")
  BY DEF Init
<1>6. Types
  BY <1>2, <1>3, <1>4, <1>5 DEF Types
<1>7. WorkersOK
  BY <1>4, <1>5 DEF WorkersOK, Timely, Expires
<1> QED BY <1>5, <1>6, <1>7 DEF IInv, Balanced, Settled

LEMMA NextKeeps ==
  ASSUME IInv, [Next]_vars
  PROVE  IInv'
<1>1. ASSUME NEW w \in Workers, Advance(w)
      PROVE  IInv'
  BY <1>1, AdvanceKeeps
<1>2. ASSUME NEW w \in Calls, NEW k \in Connections,
             NewConnection(w, k) \/ UpdateConnection(w, k) \/ RemoveConnection(w, k)
               \/ \E s \in {"online", "away"} : SetConnectionStatus(w, k, s)
      PROVE  IInv'
  BY <1>2, NewConnectionKeeps, ConnectionKeeps
<1>3. ASSUME NEW w \in Calls,
             FlushBatch(w) \/ ClearActiveState(w) \/ (\E n \in Nodes : RemoveLostConnections(w, n))
               \/ \E c \in Claims : SetActiveState(w, c) \/ EndActiveState(w, c)
      PROVE  IInv'
  BY <1>3, LostKeeps, ClaimKeeps
<1>4. ASSUME NEW k \in Connections, GrowsStale(k)
      PROVE  IInv'
  BY <1>4, StillKeeps DEF GrowsStale, service
<1>5. ASSUME NEW n \in Nodes, NodeDies(n)
      PROVE  IInv'
  BY <1>5, StillKeeps DEF NodeDies, service, recorded
<1>6. ASSUME NEW m \in Moments, RunJob(m)
      PROVE  IInv'
  BY <1>6, RunJobKeeps
<1>7. CASE FindStale \/ Tick
  BY <1>7, StillKeeps DEF FindStale, Tick, service, recorded, outside
<1>8. CASE Crash
  BY <1>8, CrashKeeps
<1>9. CASE UNCHANGED vars
  BY <1>9, StillKeeps DEF vars, service, recorded, outside
<1> QED BY <1>1, <1>2, <1>3, <1>4, <1>5, <1>6, <1>7, <1>8, <1>9 DEF Next

(* IInv is inductive. *)
LEMMA Invariant == Spec => []IInv
<1>1. Init => IInv
  BY InitEstablishes
<1>2. IInv /\ [Next]_vars => IInv'
  BY NextKeeps
<1> QED BY <1>1, <1>2, PTL DEF Spec

(* When no update is on its way, the status is that of the displayed claim *)
(* and of the recorded connections, unless the last write was outdated.    *)
THEOREM StatusSettles == Spec => []SettledStatus
<1>1. IInv => SettledStatus
  <2> SUFFICES ASSUME IInv, Quiet, ~outdated
               PROVE  Settled
    BY DEF SettledStatus, Settled, Reported
  <2>1. \A w \in Workers : ~Owes(workers[w])
    BY DEF Quiet, Owes
  <2> QED BY <2>1 DEF IInv, Balanced
<1> QED BY <1>1, Invariant, PTL

(* Only a write that matches changes the claims of a user. *)
LEMMA OnlyWritesChangeUser ==
  ASSUME Next, user' # user
  PROVE  \E w \in Workers : Write(w) /\ Matches(workers[w])
<1>1. ASSUME NEW w \in Workers, Advance(w)
      PROVE  Write(w)
  BY <1>1 DEF Advance, AddConnection, ReadUser, ReadConnections, FindExpired, TakeToken, FindNext,
              RemoveJob, AddJob
<1>2. ASSUME NEW w \in Workers, Write(w)
      PROVE  Matches(workers[w])
  BY <1>2 DEF Write
<1>3. ASSUME NEW w \in Calls, NEW k \in Connections,
             \/ NewConnection(w, k) \/ UpdateConnection(w, k) \/ RemoveConnection(w, k)
             \/ \E s \in {"online", "away"} : SetConnectionStatus(w, k, s)
      PROVE  FALSE
  BY <1>3 DEF NewConnection, UpdateConnection, RemoveConnection, SetConnectionStatus
<1>4. ASSUME NEW w \in Calls,
             \/ \E n \in Nodes : RemoveLostConnections(w, n)
             \/ \E c \in Claims : SetActiveState(w, c) \/ EndActiveState(w, c)
             \/ ClearActiveState(w) \/ FlushBatch(w)
      PROVE  FALSE
  BY <1>4 DEF RemoveLostConnections, SetActiveState, EndActiveState, ClearActiveState, FlushBatch
<1>5. CASE \/ \E k \in Connections : GrowsStale(k)
           \/ \E n \in Nodes : NodeDies(n)
           \/ \E m \in Moments : RunJob(m)
           \/ FindStale \/ Tick \/ Crash
  BY <1>5 DEF GrowsStale, NodeDies, RunJob, FindStale, Tick, Crash, service
<1> QED BY <1>1, <1>2, <1>3, <1>4, <1>5 DEF Next

(* A write leaves the other workers where they are. *)
LEMMA WriteIsOfOne ==
  ASSUME IInv, NEW v \in Workers, Write(v), NEW w \in Workers \ {v}
  PROVE  workers'[w].step = workers[w].step
<1> DEFINE k == AfterUpdate(workers[v].update.kind)
           steps == {"read connections", "write"}
<1>1. k \in Worker /\ workers \in [Workers -> Worker]
  BY AfterUpdateType DEF IInv, Types
<1>2. workers' = [workers EXCEPT ![v] = k] \/ workers' = Outdate(workers, steps, v, k)
  BY DEF Write
<1> HIDE DEF k, steps
<1>3. CASE workers' = [workers EXCEPT ![v] = k]
  BY <1>1, <1>3
<1>4. CASE workers' = Outdate(workers, steps, v, k)
  <2>1. Marks(steps, v, k)
    BY <1>1, <1>4, Outdated
  <2> QED BY <2>1 DEF Marks
<1> QED BY <1>2, <1>3, <1>4

(* However many runs of the job and ends of a claim overlap, the claim     *)
(* that a run of the job takes off display has expired.                    *)
THEOREM ExpiryTakesOneClaim == Spec => ExpiryEndsOne
<1> DEFINE Step == \A w \in Workers :
         /\ workers[w].step = "write" /\ workers[w].update.kind = "expire"
         /\ workers'[w].step # "write" /\ user' # user
         => user.claim.until \in Past
<1>1. IInv /\ [Next]_vars => [Step]_vars
  <2> SUFFICES ASSUME IInv, Next, NEW w \in Workers, user' # user,
                      workers[w].step = "write", workers[w].update.kind = "expire",
                      workers'[w].step # "write"
               PROVE  user.claim.until \in Past
    OBVIOUS
  <2>1. PICK v \in Workers : Write(v) /\ Matches(workers[v])
    BY OnlyWritesChangeUser
  <2>2. v = w
    BY <2>1, WriteIsOfOne
  <2>3. workers[w].seen.claim.until \in Past
    BY DEF IInv, WorkersOK, Expires
  <2>4. workers[w].seen.claim.until # None
    BY <2>3, EngineAssumption DEF EngineAssumption, Past
  <2> QED BY <2>1, <2>2, <2>3, <2>4 DEF Matches, IsGuarded
<1> QED BY <1>1, Invariant, PTL DEF Spec, ExpiryEndsOne

-----------------------------------------------------------------------------
(* Types.  A job is only scheduled for a time, and what is written has     *)
(* been computed.                                                          *)
Ready(k) ==
    /\ k.step = "write" => k.status \in Statuses
    /\ k.step = "add job" => k.next \in Moments

AllReady == \A w \in Workers : Ready(workers[w])

(* What is not in the hands of the calls *)
OutsideOK ==
    /\ status \in Statuses /\ stale \subseteq Recorded
    /\ clients \in [Connections -> {"new", "open", "closed"}] /\ down \subseteq Nodes
    /\ now \in 0..Max(Moments \cup {0}) + 1
    /\ token \in Workers \cup {None} /\ jobs \subseteq Moments /\ plan \subseteq Connections
    /\ events \in 0..MaxEvents /\ made \subseteq Claims /\ ended \subseteq made
    /\ overlapped \in BOOLEAN

LEMMA TurnIsReady ==
  ASSUME Types, AllReady, NEW w \in Workers, NEW k \in Worker, Ready(k), NEW steps,
         workers' = [workers EXCEPT ![w] = k] \/ workers' = Outdate(workers, steps, w, k)
  PROVE  AllReady'
<1>1. CASE workers' = [workers EXCEPT ![w] = k]
  BY <1>1 DEF Types, AllReady
<1>2. CASE workers' = Outdate(workers, steps, w, k)
  <2> SUFFICES ASSUME NEW v \in Workers
               PROVE  Ready(workers'[v])
    BY DEF AllReady
  <2>1. Ready(workers[v]) /\ workers[v] \in Worker
    BY DEF AllReady, Types
  <2>2. Ready([workers[v] EXCEPT !.late = TRUE])
    BY <2>1 DEF Ready, Worker
  <2>3. workers'[v] = IF v = w THEN k ELSE IF workers[v].step \in steps
                      THEN [workers[v] EXCEPT !.late = TRUE] ELSE workers[v]
    BY <1>2 DEF Outdate
  <2> QED BY <2>1, <2>2, <2>3
<1> QED BY <1>1, <1>2

(* No call writes or adds a job at the beginning. *)
LEMMA ReadyAtFirst ==
  ASSUME NEW k, k.step \notin {"write", "add job"}
  PROVE  Ready(k)
  BY DEF Ready

LEMMA BeginIsReady ==
  ASSUME IInv, AllReady, NEW w \in Calls, NEW update \in ClaimUpdate,
         Begin(w, update) \/ BeginChanging(w)
  PROVE  AllReady'
<1> DEFINE j == [Idle EXCEPT !.step = "read user", !.update = update]
           k == [Idle EXCEPT !.step = "read user"]
<1>1. j \in Worker /\ j.step = "read user" /\ k \in Worker /\ k.step = "read user"
  BY IdleType DEF Idle, Worker, Steps
<1>2. Ready(j) /\ Ready(k) /\ w \in Workers
  BY <1>1 DEF Ready, Workers
<1>3. workers' = [workers EXCEPT ![w] = j] \/ workers' = Outdate(workers, {"write"}, w, k)
  BY DEF Begin, BeginChanging
<1> HIDE DEF j, k
<1> QED BY <1>1, <1>2, <1>3, TurnIsReady DEF IInv

(* The steps of the calls *)
LEMMA AdvanceIsReady ==
  ASSUME IInv, AllReady, NEW w \in Workers, Advance(w)
  PROVE  AllReady'
<1> DEFINE worker == workers[w]
<1>0. worker \in Worker /\ workers \in [Workers -> Worker] /\ user \in Owner /\ Types
  BY DEF IInv, Types
<1>1. Idle \in Worker /\ Idle.step = "idle"
  BY IdleType DEF Idle
<1>2. CASE AddConnection(w)
  <2> DEFINE k == [Idle EXCEPT !.step = "read user"]
  <2>1. k \in Worker /\ k.step = "read user"
    BY <1>1 DEF Idle, Worker, Steps
  <2>2. workers' = Outdate(workers, {"write"}, w, k)
    BY <1>2 DEF AddConnection
  <2> HIDE DEF k
  <2> QED BY <1>0, <2>1, <2>2, ReadyAtFirst, TurnIsReady
<1>3. CASE ReadUser(w)
  <2> DEFINE k == [worker EXCEPT !.step = "read connections", !.seen = user]
  <2>1. k \in Worker /\ k.step = "read connections"
    BY <1>0 DEF Worker, Steps
  <2>2. workers' = [workers EXCEPT ![w] = k]
    BY <1>0, <1>3 DEF ReadUser
  <2> HIDE DEF k
  <2> QED BY <1>0, <2>1, <2>2, ReadyAtFirst, TurnIsReady
<1>4. CASE ReadConnections(w)
  <2> DEFINE update == worker.update
             write == Resolved(worker.seen, update)
             next == Status(Written(worker.seen, write).claim, update.kind)
             seen == IF IsGuarded(worker) THEN worker.seen ELSE NoClaims
             kept == [NoClaimUpdate EXCEPT !.kind = update.kind]
             k == [worker EXCEPT !.step = "write", !.write = write, !.update = kept,
                                 !.status = next, !.seen = seen]
  <2>1. worker.seen \in Owner /\ update \in ClaimUpdate
    BY <1>0 DEF Worker
  <2>2. write \in Update
    BY <2>1, ResolvedType
  <2>3. next \in Statuses
    <3>1. Written(worker.seen, write).claim \in Claim
      BY <2>1, <2>2, WrittenType DEF Owner
    <3> QED BY <3>1, StatusType
  <2>4. kept \in ClaimUpdate
    BY <2>1, IdleType DEF ClaimUpdate, NoClaimUpdate
  <2>5. seen \in Owner
    BY <2>1, ConstantTypes
  <2>6. CASE update.kind # "connection" /\ write = Rejected
    <3>1. workers' = [workers EXCEPT ![w] = AfterUpdate(update.kind)]
      BY <1>4, <2>6 DEF ReadConnections
    <3> QED BY <1>0, <3>1, AfterUpdateType, ReadyAtFirst, TurnIsReady
  <2>7. CASE ~(update.kind # "connection" /\ write = Rejected)
    <3>1. workers' = [workers EXCEPT ![w] = k]
      BY <1>4, <2>7 DEF ReadConnections
    <3> HIDE DEF write, next, seen, kept
    <3>2. k \in Worker /\ k.step = "write" /\ k.status = next
      BY <1>0, <2>2, <2>3, <2>4, <2>5 DEF Worker, Steps
    <3> HIDE DEF k
    <3>3. Ready(k)
      BY <2>3, <3>2 DEF Ready
    <3> QED BY <1>0, <3>1, <3>2, <3>3, TurnIsReady
  <2> QED BY <2>6, <2>7
<1>5. CASE Write(w)
  <2> DEFINE k == AfterUpdate(worker.update.kind)
  <2>1. \/ workers' = [workers EXCEPT ![w] = k]
        \/ workers' = Outdate(workers, {"read connections", "write"}, w, k)
    BY <1>5 DEF Write
  <2>2. k \in Worker /\ k.step \in {"idle", "take token"}
    BY AfterUpdateType
  <2> HIDE DEF k
  <2> QED BY <1>0, <2>1, <2>2, ReadyAtFirst, TurnIsReady
<1>6. CASE FindExpired(w)
  <2> DEFINE j == [Idle EXCEPT !.step = "read connections", !.update = Expiring, !.seen = user]
             k == [Idle EXCEPT !.step = "take token"]
  <2>1. j \in Worker /\ j.step = "read connections" /\ k \in Worker /\ k.step = "take token"
    BY <1>0, IdleType DEF Idle, Worker, Steps, Expiring, NoClaimUpdate, ClaimUpdate, Kinds
  <2>2. workers' = [workers EXCEPT ![w] = j] \/ workers' = [workers EXCEPT ![w] = k]
    BY <1>6 DEF FindExpired
  <2> HIDE DEF j, k
  <2> QED BY <1>0, <2>1, <2>2, ReadyAtFirst, TurnIsReady
<1>7. CASE TakeToken(w)
  <2> DEFINE k == [worker EXCEPT !.step = "find next"]
  <2>1. k \in Worker /\ k.step = "find next"
    BY <1>0 DEF Worker, Steps
  <2>2. workers' = [workers EXCEPT ![w] = k]
    BY <1>7 DEF TakeToken
  <2> HIDE DEF k
  <2> QED BY <1>0, <2>1, <2>2, ReadyAtFirst, TurnIsReady
<1>8. CASE FindNext(w)
  <2> DEFINE k == [worker EXCEPT !.step = "remove job", !.next = user.claim.until]
  <2>1. k \in Worker /\ k.step = "remove job"
    BY <1>0 DEF Worker, Steps, Owner, Claim
  <2>2. workers' = [workers EXCEPT ![w] = k]
    BY <1>0, <1>8 DEF FindNext
  <2> HIDE DEF k
  <2> QED BY <1>0, <2>1, <2>2, ReadyAtFirst, TurnIsReady
<1>9. CASE RemoveJob(w)
  <2> DEFINE k == [worker EXCEPT !.step = "add job"]
  <2>1. k \in Worker /\ k.step = "add job" /\ k.next = worker.next
    BY <1>0 DEF Worker, Steps
  <2>2. \/ workers' = [workers EXCEPT ![w] = Idle]
        \/ workers' = [workers EXCEPT ![w] = k] /\ worker.next # None
    BY <1>9 DEF RemoveJob
  <2> HIDE DEF k
  <2>3. worker.next # None => Ready(k)
    BY <1>0, <2>1 DEF Ready, Worker
  <2> QED BY <1>0, <1>1, <2>1, <2>2, <2>3, ReadyAtFirst, TurnIsReady
<1>10. CASE AddJob(w)
  BY <1>0, <1>1, <1>10, ReadyAtFirst, TurnIsReady DEF AddJob
<1> QED BY <1>2, <1>3, <1>4, <1>5, <1>6, <1>7, <1>8, <1>9, <1>10 DEF Advance

LEMMA NextIsReady ==
  ASSUME IInv, AllReady, [Next]_vars
  PROVE  AllReady'
<1> USE DEF service, recorded, outside
<1>0. NoClaimUpdate \in ClaimUpdate /\ Types /\ Idle \in Worker /\ Idle.step = "idle"
  BY IdleType DEF Idle, IInv
<1>1. ASSUME NEW w \in Workers, Advance(w)
      PROVE  AllReady'
  BY <1>1, AdvanceIsReady
<1>2. ASSUME NEW w \in Calls, NEW k \in Connections, NewConnection(w, k)
      PROVE  AllReady'
  <2> DEFINE j == [Idle EXCEPT !.step = "add connection", !.connection = k]
  <2>1. j \in Worker /\ j.step = "add connection" /\ w \in Workers
    BY <1>0 DEF Idle, Worker, Steps, Workers
  <2>2. workers' = [workers EXCEPT ![w] = j]
    BY <1>2 DEF NewConnection
  <2> HIDE DEF j
  <2> QED BY <1>0, <2>1, <2>2, ReadyAtFirst, TurnIsReady
<1>3. ASSUME NEW w \in Calls, NEW k \in Connections,
             UpdateConnection(w, k) \/ RemoveConnection(w, k)
               \/ \E s \in {"online", "away"} : SetConnectionStatus(w, k, s)
      PROVE  AllReady'
  <2>1. Begin(w, NoClaimUpdate) \/ BeginChanging(w)
    BY <1>3 DEF UpdateConnection, RemoveConnection, SetConnectionStatus
  <2> QED BY <1>0, <2>1, BeginIsReady
<1>4. ASSUME NEW w \in Calls, NEW c \in Claims, SetActiveState(w, c) \/ EndActiveState(w, c)
      PROVE  AllReady'
  <2>1. SettingActive(c) \in ClaimUpdate /\ EndingActive(c.id) \in ClaimUpdate
    BY <1>0, PresenceAssumption
       DEF SettingActive, EndingActive, NoClaimUpdate, ClaimUpdate, Kinds, PresenceAssumption, Claim
  <2> QED BY <1>4, <2>1, BeginIsReady DEF SetActiveState, EndActiveState, BeginClaim
<1>5. ASSUME NEW w \in Calls, ClearActiveState(w)
      PROVE  AllReady'
  <2>1. ClearingActive \in ClaimUpdate
    BY <1>0 DEF ClearingActive, NoClaimUpdate, ClaimUpdate, Kinds
  <2> QED BY <1>5, <2>1, BeginIsReady DEF ClearActiveState, BeginClaim
<1>6. ASSUME NEW w \in Calls, FlushBatch(w) \/ \E n \in Nodes : RemoveLostConnections(w, n)
      PROVE  AllReady'
  <2>1. BeginChanging(w)
    BY <1>6 DEF FlushBatch, RemoveLostConnections
  <2> QED BY <1>0, <2>1, BeginIsReady
<1>7. ASSUME NEW m \in Moments, RunJob(m)
      PROVE  AllReady'
  <2> DEFINE k == [workers[ExpirationJob] EXCEPT !.step = "find expired"]
  <2>1. ExpirationJob \in Workers /\ workers[ExpirationJob] \in Worker
    BY <1>0 DEF Workers, Types
  <2>2. k \in Worker /\ k.step = "find expired"
    BY <2>1 DEF Worker, Steps
  <2>3. workers' = [workers EXCEPT ![ExpirationJob] = k]
    BY <1>7 DEF RunJob
  <2> HIDE DEF k
  <2> QED BY <1>0, <2>1, <2>2, <2>3, ReadyAtFirst, TurnIsReady
<1>8. CASE Crash
  <2> DEFINE start == [Idle EXCEPT !.step = "find expired"]
  <2>1. start.step = "find expired"
    BY <1>0 DEF Idle
  <2>2. workers' = [w \in Workers |-> IF w = ExpirationJob THEN start ELSE Idle]
    BY <1>8 DEF Crash
  <2> HIDE DEF start
  <2> QED BY <1>0, <2>1, <2>2 DEF AllReady, Ready
<1>9. CASE \/ \E k \in Connections : GrowsStale(k)
           \/ \E n \in Nodes : NodeDies(n)
           \/ FindStale \/ Tick \/ UNCHANGED vars
  <2>1. UNCHANGED workers
    BY <1>9 DEF GrowsStale, NodeDies, FindStale, Tick, vars
  <2> QED BY <2>1 DEF AllReady
<1> QED BY <1>1, <1>2, <1>3, <1>4, <1>5, <1>6, <1>7, <1>8, <1>9 DEF Next

(* Time ends after the last moment. *)
LEMMA LastMoment == Max(Moments \cup {0}) \in Nat
<1> DEFINE S == Moments \cup {0}
<1>1. S \in SUBSET Nat /\ S # {}
  BY PresenceAssumption DEF PresenceAssumption
<1>2. IsFiniteSet(S)
  BY PresenceAssumption, FS_AddElement DEF PresenceAssumption
<1> QED BY <1>1, <1>2, MaxOfFinite

LEMMA AdvanceOutside ==
  ASSUME IInv, AllReady, OutsideOK, NEW w \in Workers, Advance(w)
  PROVE  OutsideOK'
<1> USE DEF OutsideOK, service, recorded, outside
<1>0. workers[w] \in Worker /\ conns \in [Connections -> {"online", "away", None}] /\ Ready(workers[w])
  BY DEF IInv, Types, AllReady
<1>1. CASE AddConnection(w)
  <2>1. Recorded \subseteq Recorded'
    <3> SUFFICES ASSUME NEW k \in Connections, conns[k] # None
                 PROVE  conns'[k] # None
      BY DEF Recorded
    <3>1. "online" # None
      BY PresenceAssumption DEF PresenceAssumption, Statuses
    <3> QED BY <1>0, <1>1, <3>1 DEF AddConnection
  <2> QED BY <1>1, <2>1 DEF AddConnection
<1>2. CASE ReadUser(w) \/ ReadConnections(w) \/ FindNext(w)
  BY <1>2 DEF ReadUser, ReadConnections, FindNext, Recorded
<1>3. CASE Write(w)
  BY <1>0, <1>3 DEF Write, Ready, Recorded
<1>4. CASE FindExpired(w)
  BY <1>4 DEF FindExpired, Overlap, Recorded
<1>5. CASE TakeToken(w) \/ RemoveJob(w)
  BY <1>5 DEF TakeToken, RemoveJob, Recorded
<1>6. CASE AddJob(w)
  BY <1>0, <1>6 DEF AddJob, Ready, Recorded
<1> QED BY <1>1, <1>2, <1>3, <1>4, <1>5, <1>6 DEF Advance

LEMMA EventInRange == ASSUME events \in 0..MaxEvents, Event PROVE events' \in 0..MaxEvents
  BY PresenceAssumption DEF PresenceAssumption, Event

(* The connections recorded change. *)
LEMMA RemoveOutside ==
  ASSUME NEW ks, Remove(ks), stale \subseteq Recorded
  PROVE  stale' \subseteq Recorded'
  BY DEF Remove, Recorded

LEMMA NextOutside ==
  ASSUME IInv, AllReady, OutsideOK, [Next]_vars
  PROVE  OutsideOK'
<1> USE DEF OutsideOK, service, recorded, outside
<1>0. conns \in [Connections -> {"online", "away", None}] /\ now \in Nat
  BY DEF IInv, Types
<1>1. ASSUME NEW w \in Workers, Advance(w)
      PROVE  OutsideOK'
  BY <1>1, AdvanceOutside
<1>2. ASSUME NEW w \in Calls, NEW k \in Connections, NewConnection(w, k) \/ UpdateConnection(w, k)
      PROVE  OutsideOK'
  BY <1>2, EventInRange DEF NewConnection, UpdateConnection, Recorded
<1>3. ASSUME NEW w \in Calls, NEW k \in Connections, RemoveConnection(w, k)
      PROVE  OutsideOK'
  BY <1>3, EventInRange, RemoveOutside DEF RemoveConnection
<1>4. ASSUME NEW w \in Calls, NEW k \in Connections, NEW s \in {"online", "away"},
             SetConnectionStatus(w, k, s)
      PROVE  OutsideOK'
  <2>1. CASE conns[k] = None
    BY <1>4, <2>1, EventInRange DEF SetConnectionStatus, Recorded
  <2>2. CASE conns[k] # None
    <3>1. stale' \subseteq Recorded'
      BY <1>0, <1>4, <2>2 DEF SetConnectionStatus, Recorded
    <3> QED BY <1>4, <2>2, <3>1, EventInRange DEF SetConnectionStatus
  <2> QED BY <2>1, <2>2
<1>5. ASSUME NEW w \in Calls, FlushBatch(w) \/ \E n \in Nodes : RemoveLostConnections(w, n)
      PROVE  OutsideOK'
  BY <1>5, RemoveOutside DEF FlushBatch, RemoveLostConnections
<1>6. ASSUME NEW w \in Calls, NEW c \in Claims, SetActiveState(w, c) \/ EndActiveState(w, c)
      PROVE  OutsideOK'
  BY <1>6, EventInRange DEF SetActiveState, EndActiveState, BeginClaim, Overlap, Recorded
<1>7. ASSUME NEW w \in Calls, ClearActiveState(w)
      PROVE  OutsideOK'
  BY <1>7, EventInRange DEF ClearActiveState, BeginClaim, Overlap, Recorded
<1>8. ASSUME NEW k \in Connections, GrowsStale(k)
      PROVE  OutsideOK'
  <2>1. events' \in 0..MaxEvents
    BY <1>8, EventInRange DEF GrowsStale
  <2> QED BY <1>8, <2>1 DEF GrowsStale, Recorded
<1>9. ASSUME NEW n \in Nodes, NodeDies(n)
      PROVE  OutsideOK'
  BY <1>9, EventInRange, PresenceAssumption DEF NodeDies, Recorded, PresenceAssumption
<1>10. ASSUME NEW m \in Moments, RunJob(m)
      PROVE  OutsideOK'
  BY <1>10 DEF RunJob, Recorded
<1>11. CASE FindStale
  BY <1>11 DEF FindStale, Recorded
<1>12. CASE Tick
  <2>1. now' \in 0..Max(Moments \cup {0}) + 1
    BY <1>0, <1>12, LastMoment DEF Tick
  <2> QED BY <1>12, <2>1 DEF Tick, Recorded
<1>13. CASE Crash
  BY <1>13, EventInRange DEF Crash, Recorded
<1>14. CASE UNCHANGED vars
  BY <1>14 DEF vars, Recorded
<1> QED BY <1>1, <1>2, <1>3, <1>4, <1>5, <1>6, <1>7, <1>8, <1>9, <1>10, <1>11, <1>12, <1>13, <1>14 DEF Next

(* The user, what is recorded, the calls and the jobs have their types,    *)
(* whatever overlaps and dies: a job is never scheduled for no time, and   *)
(* every write has a status to write.                                      *)
THEOREM PresenceTypes == Spec => []TypeOK
<1> DEFINE TInv == IInv /\ AllReady /\ OutsideOK
<1>1. Init => TInv
  <2> SUFFICES ASSUME Init
               PROVE  TInv
    OBVIOUS
  <2>1. IInv
    BY InitEstablishes
  <2>2. Idle.step = "idle" /\ Unclaimed \in Claim
    BY ConstantTypes DEF Idle
  <2>3. AllReady
    BY <2>2, ReadyAtFirst DEF Init, AllReady
  <2>4. user.claim \in Claim
    BY <2>1 DEF IInv, Types, Owner
  <2>5. status \in Statuses
    BY <2>4, StatusType DEF Init
  <2>6. made \subseteq Claims
    BY DEF Init
  <2>7. clients \in [Connections -> {"new", "open", "closed"}]
    BY DEF Init
  <2>8. now \in 0..Max(Moments \cup {0}) + 1
    BY LastMoment DEF Init
  <2>9. stale \subseteq Recorded /\ down \subseteq Nodes /\ events \in 0..MaxEvents
    BY PresenceAssumption DEF Init, PresenceAssumption
  <2>10. OutsideOK
    BY <2>5, <2>6, <2>7, <2>8, <2>9 DEF Init, OutsideOK
  <2> QED BY <2>1, <2>3, <2>10
<1>2. TInv /\ [Next]_vars => TInv'
  BY NextKeeps, NextIsReady, NextOutside
<1>3. TInv => TypeOK
  BY DEF TypeOK, IInv, Types, OutsideOK
<1> QED BY <1>1, <1>2, <1>3, PTL DEF Spec

-----------------------------------------------------------------------------
(* The calls that are shown                                                *)

IsCall(c) == c # None /\ c.source = "internal"

(* A call is never under something else, and not twice on display. *)
Proper(owner) ==
  /\ owner.claim \in Claims \cup {Unclaimed} /\ owner.stash \in Claims \cup {None}
  /\ IsCall(owner.stash) => IsCall(owner.claim) /\ owner.claim # owner.stash

LEMMA ClaimsAreClaims ==
  /\ Claims \cup {Unclaimed} \subseteq Claim /\ None \notin Claim
  /\ ~IsCall(Unclaimed) /\ ~IsCall(None) /\ Unclaimed.default = "online"
  BY ConstantTypes, PresenceAssumption, NoPreviousState DEF PresenceAssumption, NoPreviousState, IsCall, Unclaimed

LEMMA ProperOwner == ASSUME NEW owner, Proper(owner), owner = [claim |-> owner.claim, stash |-> owner.stash]
                     PROVE  owner \in Owner
  BY ClaimsAreClaims DEF Proper, Owner

LEMMA PrioritiesOf ==
  /\ Priority["internal"] = 1 /\ Priority["manual"] = 2 /\ Priority["external"] = 3 /\ Priority["none"] = 4
  /\ Sources = {"internal", "manual", "external", "none"}
  BY DEF Priority, Sources

(* A claim that is resolved against what is displayed (setActive) adds its *)
(* call to those shown, if there is room, and hides none.                  *)
LEMMA ClaimShows ==
  ASSUME OrdinaryClaims, NEW owner, Proper(owner), NEW c \in Claims, NEW past, None \notin past,
         Displayed(c) \cap Shown(owner) = {},
         IsCall(c) => ~IsCall(owner.stash)
  PROVE  LET next == Written(owner, SetActive(owner, c, past))
         IN  Proper(next) /\ Shown(next) = Shown(owner) \cup Displayed(c)
<1> DEFINE next == Written(owner, SetActive(owner, c, past))
<1>1. /\ owner.claim \in Claim /\ c \in Claim /\ c # None /\ owner.claim # None
      /\ owner.stash = None \/ owner.stash \in Claim
  BY ClaimsAreClaims DEF Proper
<1>2. c.source \in Sources /\ owner.claim.source \in Sources
      /\ (owner.stash # None => owner.stash.source \in Sources)
  BY <1>1 DEF Claim
<1>3. owner.claim.default # "offline"
  BY ClaimsAreClaims DEF Proper, OrdinaryClaims
<1>4. CASE IsCall(c)
  <2>1. Priority[c.source] = 1 /\ Priority[c.source] <= Priority[owner.claim.source]
    BY <1>2, <1>4, PrioritiesOf DEF IsCall
  <2>2. ~IsCall(owner.stash) /\ c # owner.claim
    BY <1>1, <1>4 DEF Displayed, Shown, IsCall
  <2>3. CASE owner.claim.source # "none"
    <3>1. next = [claim |-> c, stash |-> owner.claim]
      BY <1>3, <1>4, <2>1, <2>3 DEF SetActive, Stashes, Written, Display, IsCall
    <3>2. owner.claim \in Claims
      BY <2>3 DEF Proper, Unclaimed
    <3> QED BY <1>1, <1>4, <2>2, <3>1, <3>2 DEF Proper, Shown, Displayed, IsCall
  <2>4. CASE owner.claim.source = "none"
    <3>1. next = [claim |-> c, stash |-> owner.stash]
      BY <1>3, <1>4, <2>1, <2>4 DEF SetActive, Stashes, Written, Display, IsCall
    <3> QED BY <1>1, <1>4, <2>2, <2>4, <3>1 DEF Proper, Shown, Displayed, IsCall
  <2> QED BY <2>3, <2>4
<1>5. CASE ~IsCall(c) /\ IsCall(owner.claim)
  <2>1. ~(Priority[c.source] <= Priority[owner.claim.source])
    BY <1>1, <1>2, <1>5, PrioritiesOf DEF IsCall
  <2>2. CASE IsCall(owner.stash)
    <3>1. owner.stash \in Claims /\ owner.stash.until = None
      BY <2>2 DEF Proper, OrdinaryClaims, IsCall
    <3>2. Usable(owner.stash, past) /\ ~(Priority[c.source] <= Priority[owner.stash.source])
      BY <1>1, <1>2, <1>5, <2>2, <3>1, PrioritiesOf DEF IsCall, Usable
    <3>3. SetActive(owner, c, past) = Rejected
      BY <1>3, <2>1, <3>2 DEF SetActive
    <3>4. next = [claim |-> owner.claim, stash |-> owner.stash]
      BY <3>3 DEF Written, Rejected
    <3> QED BY <1>5, <3>4 DEF Proper, Shown, Displayed, IsCall
  <2>3. CASE ~IsCall(owner.stash)
    <3>1. SetActive(owner, c, past) \in {Rejected, Keep(c)}
      BY <1>1, <1>3, <1>5, <2>1 DEF SetActive, IsCall
    <3>2. next = [claim |-> owner.claim, stash |-> owner.stash] \/ next = [claim |-> owner.claim, stash |-> c]
      BY <3>1 DEF Written, Rejected, Keep
    <3> QED BY <1>1, <1>5, <2>3, <3>2 DEF Proper, Shown, Displayed, IsCall
  <2> QED BY <2>2, <2>3
<1>6. CASE ~IsCall(c) /\ ~IsCall(owner.claim)
  <2>1. ~IsCall(owner.stash)
    BY <1>6 DEF Proper
  <2>2. /\ next.claim \in {owner.claim, c} /\ next.stash \in {owner.stash, owner.claim, c, None}
        /\ next.stash = owner.claim => owner.claim \in Claims \/ next.stash = owner.stash
    <3>1. owner.claim.source # "none" => owner.claim \in Claims
      BY DEF Proper, Unclaimed
    <3>2. CASE SetActive(owner, c, past) = Rejected
      BY <3>2 DEF Written, Rejected
    <3>3. CASE SetActive(owner, c, past) = Keep(c)
      BY <3>3 DEF Written, Keep
    <3>4. CASE SetActive(owner, c, past) = Display(c, owner.claim) /\ owner.claim.source # "none"
      BY <3>1, <3>4 DEF Written, Display
    <3>5. CASE SetActive(owner, c, past) = Display(c, None)
      BY <1>1, <3>5 DEF Written, Display
    <3>6. CASE SetActive(owner, c, past) = [Display(c, None) EXCEPT !.sets = {"claim"}]
      BY <3>6 DEF Written, Display
    <3> QED BY <3>2, <3>3, <3>4, <3>5, <3>6 DEF SetActive, Stashes
  <2>3. Shown(next) = {} /\ Shown(owner) = {} /\ Displayed(c) = {}
    BY <1>6, <2>1, <2>2 DEF Shown, Displayed, IsCall
  <2>4. Proper(next)
    BY <1>6, <2>1, <2>2 DEF Proper, IsCall
  <2> QED BY <2>3, <2>4
<1> QED BY <1>4, <1>5, <1>6

(* The end of a claim (endActive) takes its call from those shown, whether *)
(* it was on top or under another, and hides no other; without an id it    *)
(* is what is on display that ends.                                        *)
LEMMA EndShows ==
  ASSUME OrdinaryClaims, NEW owner, Proper(owner), NEW id, NEW past, None \notin past,
         id = None => ~IsCall(owner.claim)
  PROVE  LET next == Written(owner, EndActive(owner, id, past))
         IN  Proper(next) /\ Shown(next) = Shown(owner) \ (IF id = None THEN {} ELSE {id})
<1> DEFINE next == Written(owner, EndActive(owner, id, past))
<1>1. owner.claim # None /\ (owner.stash = None \/ owner.stash \in Claims)
  BY ClaimsAreClaims DEF Proper
<1>2. IsCall(owner.stash) =>
        /\ IsCall(owner.claim) /\ owner.claim \in Claims /\ owner.stash.id # owner.claim.id
        /\ owner.stash.until = None
  BY <1>1, ClaimsAreClaims DEF Proper, OrdinaryClaims, IsCall
<1>3. CASE id # None /\ owner.claim.id # id
  <2>1. CASE HasId(owner.stash, id)
    <3>1. next = [claim |-> owner.claim, stash |-> None]
      BY <1>3, <2>1 DEF EndActive, Keep, Written
    <3>2. Shown(next) = Displayed(owner.claim)
      BY <3>1 DEF Shown, Displayed
    <3>3. Shown(owner) \ {id} = Displayed(owner.claim)
      BY <1>3, <2>1 DEF Shown, Displayed, HasId
    <3> QED BY <1>3, <3>1, <3>2, <3>3, ClaimsAreClaims DEF Proper
  <2>2. CASE ~HasId(owner.stash, id)
    <3>1. next = [claim |-> owner.claim, stash |-> owner.stash]
      BY <1>3, <2>2 DEF EndActive, Rejected, Written
    <3> QED BY <1>3, <2>2, <3>1 DEF Proper, Shown, Displayed, HasId, IsCall
  <2> QED BY <2>1, <2>2
<1>4. CASE id = None \/ owner.claim.id = id
  <2>1. Shown(owner) \ (IF id = None THEN {} ELSE {id}) = Displayed(owner.stash)
    BY <1>1, <1>2, <1>4 DEF Shown, Displayed, IsCall
  <2>2. CASE Usable(owner.stash, past)
    <3>1. next = [claim |-> owner.stash, stash |-> None]
      BY <1>4, <2>2 DEF EndActive, Display, Written
    <3>2. Proper(next)
      BY <1>1, <2>2, <3>1, ClaimsAreClaims DEF Proper, Usable
    <3>3. Shown(next) = Displayed(owner.stash)
      BY <3>1 DEF Shown, Displayed
    <3> QED BY <2>1, <3>2, <3>3
  <2>3. CASE ~Usable(owner.stash, past)
    <3>1. next = [claim |-> Unclaimed, stash |-> None]
      BY <1>4, <2>3 DEF EndActive, ResetToOnline, Rejected, Written
    <3>2. ~IsCall(owner.stash)
      BY <1>2, <2>3 DEF Usable, IsCall
    <3>3. Proper(next) /\ Shown(next) = {} /\ Displayed(owner.stash) = {}
      BY <3>1, <3>2, ClaimsAreClaims DEF Proper, Shown, Displayed, IsCall
    <3> QED BY <2>1, <3>3
  <2> QED BY <2>2, <2>3
<1> QED BY <1>3, <1>4

(* The user is reset (clearActive). *)
LEMMA ClearShows ==
  ASSUME NEW owner
  PROVE  LET next == Written(owner, ResetToOnline)
         IN  Proper(next) /\ Shown(next) = {}
<1>1. Written(owner, ResetToOnline) = [claim |-> Unclaimed, stash |-> None]
  BY DEF Written, ResetToOnline, Rejected
<1> QED BY <1>1, ClaimsAreClaims DEF Proper, Shown, Displayed, IsCall

(* Who makes a claim is in its call, and who ends it is not any more. *)
LEMMA MadeInCalls ==
  ASSUME OrdinaryClaims, made \subseteq Claims, ended \subseteq made,
         NEW c \in Claims \ made, made' = made \cup {c}, ended' = ended
  PROVE  InCalls' = InCalls \cup Displayed(c) /\ Displayed(c) \cap InCalls = {}
<1>1. c # None
  BY ClaimsAreClaims
<1>2. \A x : x \in InCalls <=> \E d \in made \ ended : d.source = "internal" /\ d.id = x
  BY DEF InCalls
<1>3. \A x : x \in InCalls' <=> \E d \in (made \cup {c}) \ ended : d.source = "internal" /\ d.id = x
  BY DEF InCalls
<1>4. InCalls' = InCalls \cup Displayed(c)
  BY <1>1, <1>2, <1>3 DEF Displayed
<1>5. Displayed(c) \cap InCalls = {}
  BY <1>2 DEF Displayed, OrdinaryClaims
<1> QED BY <1>4, <1>5

LEMMA EndedInCalls ==
  ASSUME OrdinaryClaims, made \subseteq Claims, ended \subseteq made,
         NEW c \in made \ ended, ended' = ended \cup {c}, made' = made
  PROVE  InCalls' = InCalls \ {c.id}
<1>2. \A x : x \in InCalls <=> \E d \in made \ ended : d.source = "internal" /\ d.id = x
  BY DEF InCalls
<1>3. \A x : x \in InCalls' <=> \E d \in made \ (ended \cup {c}) : d.source = "internal" /\ d.id = x
  BY DEF InCalls
<1>4. \A d \in made : d.source = "internal" /\ d.id = c.id => d = c
  BY DEF OrdinaryClaims
<1> QED BY <1>2, <1>3, <1>4

-----------------------------------------------------------------------------
(* The calls that are shown are those the user is in                       *)

(* How the calls that the user is in differ from those shown, while update *)
(* is on its way. *)
Awaits(update) ==
  /\ update.kind = "setActive" =>
       /\ update.claim \in Claims /\ Displayed(update.claim) \cap Shown(user) = {}
       /\ InCalls = Shown(user) \cup Displayed(update.claim)
  /\ update.kind = "endActive" => update.id # None /\ InCalls = Shown(user) \ {update.id}
  /\ update.kind = "clearActive" => InCalls = {}
  /\ update.kind = "expire" =>
       update.id = None /\ ~IsCall(user.claim) /\ InCalls = Shown(user)

(* A call of the service that updates claims, and is the only one *)
OnItsWay(k) ==
  IF k.step = "write"
  THEN /\ Proper(Written(user, k.write)) /\ Shown(Written(user, k.write)) = InCalls
       /\ IsGuarded(k) => k.seen = user
  ELSE (k.step = "read connections" => k.seen = user) /\ Awaits(k.update)

LeavesClaims(k) == k.step = "write" /\ k.update.kind = "connection" => k.write = Rejected

Followed ==
  /\ Proper(user)
  /\ \A v, w \in Workers : UpdatesClaim(workers[v]) /\ UpdatesClaim(workers[w]) => v = w
  /\ (\A w \in Workers : ~UpdatesClaim(workers[w])) => Shown(user) = InCalls
  /\ \A w \in Workers : UpdatesClaim(workers[w]) => OnItsWay(workers[w])

CallsInv == (\A w \in Workers : LeavesClaims(workers[w])) /\ (overlapped \/ Followed)

SameWork(v) ==
  /\ workers'[v].step = workers[v].step /\ workers'[v].update = workers[v].update
  /\ workers'[v].seen = workers[v].seen /\ workers'[v].write = workers[v].write

(* Worker w goes on with a claim update, or ends it, alone. *)
LEMMA AloneFollows ==
  ASSUME CallsInv, NEW w \in Workers, \A v \in Workers \ {w} : SameWork(v),
         NEW k, k = workers'[w], LeavesClaims(k),
         ~overlapped' => /\ \A v \in Workers \ {w} : ~UpdatesClaim(workers[v])
                         /\ Proper(user')
                         /\ IF UpdatesClaim(k) THEN OnItsWay(k)' ELSE Shown(user') = InCalls'
  PROVE  CallsInv'
<1>1. \A v \in Workers : LeavesClaims(workers'[v])
  BY DEF CallsInv, LeavesClaims, SameWork
<1>2. ASSUME ~overlapped', NEW v \in Workers, UpdatesClaim(workers'[v])
      PROVE  v = w
  BY <1>2 DEF SameWork, UpdatesClaim
<1>3. ASSUME ~overlapped'
      PROVE  Followed'
  <2>1. Proper(user')
    BY <1>3
  <2>2. \A v \in Workers : UpdatesClaim(workers'[v]) => v = w
    BY <1>2, <1>3
  <2>3. (\A v \in Workers : ~UpdatesClaim(workers'[v])) => Shown(user') = InCalls'
    BY <1>3
  <2>4. UpdatesClaim(k) => OnItsWay(k)'
    BY <1>3
  <2>5. ASSUME NEW v \in Workers, UpdatesClaim(workers[v])'
        PROVE  OnItsWay(workers[v])'
    <3>1. k = workers'[v] /\ UpdatesClaim(k)
      BY <2>2, <2>5
    <3>2. OnItsWay(k)'
      BY <2>4, <3>1
    <3> QED BY <3>1, <3>2 DEF OnItsWay, Awaits, IsGuarded
  <2> QED BY <2>1, <2>2, <2>3, <2>5 DEF Followed
<1>4. (\A v \in Workers : LeavesClaims(workers[v]))'
  BY <1>1 DEF LeavesClaims
<1> QED BY <1>3, <1>4 DEF CallsInv

(* Nobody goes on with a claim update. *)
LEMMA OthersFollow ==
  ASSUME CallsInv, UNCHANGED <<user, made, ended, overlapped>>,
         NEW w \in Workers, \A v \in Workers \ {w} : SameWork(v),
         NEW k, k = workers'[w], LeavesClaims(k),
         ~UpdatesClaim(workers[w]), ~UpdatesClaim(k)
  PROVE  CallsInv'
<1>1. \A v \in Workers : LeavesClaims(workers'[v])
  BY DEF CallsInv, LeavesClaims, SameWork
<1>2. (\A v \in Workers : LeavesClaims(workers[v]))'
  BY <1>1 DEF LeavesClaims
<1>3. InCalls' = InCalls /\ Shown(user)' = Shown(user) /\ Proper(user)' = Proper(user)
  BY DEF InCalls, Shown, Displayed, Proper, IsCall
<1>4. \A v \in Workers : UpdatesClaim(workers'[v]) = UpdatesClaim(workers[v])
  BY DEF SameWork, UpdatesClaim
<1>5. ASSUME Followed
      PROVE  Followed'
  <2>5. ASSUME NEW v \in Workers, UpdatesClaim(workers[v])'
        PROVE  OnItsWay(workers[v])'
    <3>0. v # w /\ UpdatesClaim(workers[v])
      BY <1>4, <2>5
    <3>1. OnItsWay(workers[v])
      BY <1>5, <3>0 DEF Followed
    <3>2. SameWork(v)
      BY <3>0
    <3> QED BY <1>3, <3>1, <3>2 DEF OnItsWay, Awaits, IsGuarded, SameWork
  <2> QED BY <1>3, <1>4, <1>5, <2>5 DEF Followed
<1> QED BY <1>2, <1>5 DEF CallsInv

LEMMA StillFollow ==
  ASSUME CallsInv, UNCHANGED <<user, made, ended, overlapped, workers>>
  PROVE  CallsInv'
<1>3. InCalls' = InCalls /\ Shown(user)' = Shown(user) /\ Proper(user)' = Proper(user)
  BY DEF InCalls, Shown, Displayed, Proper, IsCall
<1>1. ASSUME NEW v \in Workers
      PROVE  /\ OnItsWay(workers[v])' = OnItsWay(workers[v])
             /\ UpdatesClaim(workers[v])' = UpdatesClaim(workers[v])
             /\ LeavesClaims(workers[v])' <=> LeavesClaims(workers[v])
  BY <1>3 DEF OnItsWay, Awaits, IsGuarded, UpdatesClaim, LeavesClaims
<1>2. Followed' <=> Followed
  BY <1>1, <1>3 DEF Followed
<1>4. (\A w \in Workers : LeavesClaims(workers[w]))'
  BY DEF CallsInv, LeavesClaims
<1>5. Followed => Followed'
  BY <1>2
<1> QED BY <1>4, <1>5 DEF CallsInv

(* One worker moves, or begins; the others are at most marked. *)
LEMMA MovedWork ==
  ASSUME Types, NEW w \in Workers, NEW k \in Worker, NEW steps,
         workers' = [workers EXCEPT ![w] = k] \/ workers' = Outdate(workers, steps, w, k)
  PROVE  k = workers'[w] /\ \A v \in Workers \ {w} : SameWork(v)
<1>1. CASE workers' = [workers EXCEPT ![w] = k]
  BY <1>1 DEF Types, SameWork
<1>2. CASE workers' = Outdate(workers, steps, w, k)
  <2>1. Marks(steps, w, k)
    BY <1>2, Outdated DEF Types
  <2> QED BY <2>1 DEF Marks, SameWork
<1> QED BY <1>1, <1>2

(* What a claim update is resolved into shows the calls it should show. *)
LEMMA ResolvedShows ==
  ASSUME OrdinaryClaims, AtMostTwoCalls, Proper(user), NEW update, Awaits(update),
         update.kind \in Kinds \ {"connection"}
  PROVE  LET next == Written(user, Resolved(user, update))
         IN  Proper(next) /\ Shown(next) = InCalls
<1>0. None \notin Past
  BY EngineAssumption DEF EngineAssumption, Past
<1>1. CASE update.kind = "setActive"
  <2> DEFINE c == update.claim
  <2>1. /\ c \in Claims /\ Displayed(c) \cap Shown(user) = {}
        /\ InCalls = Shown(user) \cup Displayed(c)
    BY <1>1 DEF Awaits
  <2>2. ASSUME IsCall(c), IsCall(user.stash)
        PROVE  FALSE
    <3>1. /\ IsCall(user.claim) /\ user.claim \in Claims /\ user.stash \in Claims
          /\ user.claim # user.stash
      BY <2>2, ClaimsAreClaims DEF Proper, IsCall
    <3>2. user.claim.id # user.stash.id
      BY <3>1 DEF OrdinaryClaims, IsCall
    <3>3. Shown(user) = {user.claim.id, user.stash.id} /\ Displayed(c) = {c.id}
      BY <2>2, <3>1 DEF Shown, Displayed, IsCall
    <3>4. {user.claim.id, user.stash.id, c.id} \subseteq InCalls /\ c.id \notin Shown(user)
      BY <2>1, <3>3
    <3> QED BY <3>2, <3>3, <3>4 DEF AtMostTwoCalls
  <2>3. Resolved(user, update) = SetActive(user, c, Past)
    BY <1>1 DEF Resolved
  <2> HIDE DEF c
  <2>4. LET next == Written(user, SetActive(user, c, Past))
        IN  Proper(next) /\ Shown(next) = Shown(user) \cup Displayed(c)
    BY <1>0, <2>1, <2>2, ClaimShows
  <2> QED BY <2>1, <2>3, <2>4
<1>2. CASE update.kind \in {"endActive", "expire"}
  <2>1. Resolved(user, update) = EndActive(user, update.id, Past)
    BY <1>2 DEF Resolved
  <2>2. update.id = None => ~IsCall(user.claim)
    BY <1>2 DEF Awaits
  <2>3. InCalls = Shown(user) \ (IF update.id = None THEN {} ELSE {update.id})
    BY <1>2 DEF Awaits
  <2> QED BY <1>0, <2>1, <2>2, <2>3, EndShows
<1>3. CASE update.kind = "clearActive"
  <2>1. Resolved(user, update) = ResetToOnline /\ InCalls = {}
    BY <1>3 DEF Resolved, Awaits
  <2> QED BY <2>1, ClearShows
<1> QED BY <1>1, <1>2, <1>3 DEF Kinds

LEMMA RejectedKeeps ==
  ASSUME user \in Owner
  PROVE  Written(user, Rejected) = user
  BY DEF Written, Rejected, Owner

(* While nothing is overlapped, a claim update is the only one and right.  *)
LEMMA OnlyOne ==
  ASSUME CallsInv, NEW w \in Workers, UpdatesClaim(workers[w]), ~overlapped
  PROVE  /\ \A v \in Workers \ {w} : ~UpdatesClaim(workers[v])
         /\ Proper(user) /\ OnItsWay(workers[w])
  BY DEF CallsInv, Followed

LEMMA NoneAtWork ==
  ASSUME CallsInv, Overlap, ~overlapped'
  PROVE  /\ ~overlapped /\ \A v \in Workers : ~UpdatesClaim(workers[v])
         /\ Proper(user) /\ Shown(user) = InCalls
  BY DEF CallsInv, Followed, Overlap

-----------------------------------------------------------------------------
LEMMA ReadUserFollows ==
  ASSUME IInv, CallsInv, NEW w \in Workers, ReadUser(w)
  PROVE  CallsInv'
<1>0. workers[w] \in Worker /\ user \in Owner /\ workers \in [Workers -> Worker] /\ Types
  BY DEF IInv, Types
<1>1. PICK k \in Worker : /\ k.step = "read connections" /\ k.seen = user
                          /\ k.update = workers[w].update
                          /\ workers' = [workers EXCEPT ![w] = k]
  <2> DEFINE j == [workers[w] EXCEPT !.step = "read connections", !.seen = user]
  <2>1. j \in Worker /\ j.step = "read connections" /\ j.seen = user /\ j.update = workers[w].update
    BY <1>0 DEF Worker, Steps
  <2>2. workers' = [workers EXCEPT ![w] = j]
    BY <1>0 DEF ReadUser
  <2> HIDE DEF j
  <2> QED BY <2>1, <2>2
<1>3. k = workers'[w] /\ \A v \in Workers \ {w} : SameWork(v)
  BY <1>0, <1>1, MovedWork
<1>4. LeavesClaims(k) /\ workers[w].step = "read user"
  BY <1>1 DEF LeavesClaims, ReadUser
<1>5. UNCHANGED <<user, made, ended, overlapped>>
  BY DEF ReadUser, outside
<1>6. CASE ~UpdatesClaim(workers[w])
  <2>1. ~UpdatesClaim(k)
    BY <1>1, <1>4, <1>6 DEF UpdatesClaim
  <2> QED BY <1>3, <1>4, <1>5, <1>6, <2>1, OthersFollow
<1>7. CASE UpdatesClaim(workers[w])
  <2>1. ASSUME ~overlapped'
        PROVE  /\ \A v \in Workers \ {w} : ~UpdatesClaim(workers[v])
               /\ Proper(user') /\ OnItsWay(k)'
    <3>1. /\ \A v \in Workers \ {w} : ~UpdatesClaim(workers[v])
          /\ Proper(user) /\ OnItsWay(workers[w])
      BY <1>5, <1>7, <2>1, OnlyOne
    <3>2. Awaits(k.update)
      BY <1>1, <1>4, <3>1 DEF OnItsWay
    <3>3. InCalls' = InCalls
      BY <1>5 DEF InCalls
    <3>4. OnItsWay(k)'
      BY <1>1, <1>5, <3>2, <3>3 DEF OnItsWay, Awaits
    <3> QED BY <1>5, <3>1, <3>4
  <2>2. UpdatesClaim(k)
    BY <1>1, <1>4, <1>7 DEF UpdatesClaim
  <2> QED BY <1>3, <1>4, <2>1, <2>2, AloneFollows
<1> QED BY <1>6, <1>7

LEMMA ReadConnectionsFollows ==
  ASSUME OrdinaryClaims, AtMostTwoCalls, IInv, CallsInv, NEW w \in Workers, ReadConnections(w)
  PROVE  CallsInv'
<1> DEFINE worker == workers[w]
           update == worker.update
           write == Resolved(worker.seen, update)
           next == Status(Written(worker.seen, write).claim, update.kind)
           seen == IF IsGuarded(worker) THEN worker.seen ELSE NoClaims
           kept == [NoClaimUpdate EXCEPT !.kind = update.kind]
           j == [worker EXCEPT !.step = "write", !.write = write, !.update = kept,
                               !.status = next, !.seen = seen]
<1>0. worker \in Worker /\ workers \in [Workers -> Worker] /\ worker.step = "read connections" /\ Types
      /\ user \in Owner
  BY DEF IInv, Types, ReadConnections
<1>1. worker.seen \in Owner /\ update \in ClaimUpdate
  BY <1>0 DEF Worker
<1>2. write \in Update /\ next \in Statuses /\ seen \in Owner
  <2>1. write \in Update
    BY <1>1, ResolvedType
  <2>2. Written(worker.seen, write).claim \in Claim
    BY <1>1, <2>1, WrittenType DEF Owner
  <2> QED BY <1>1, <2>1, <2>2, StatusType, ConstantTypes
<1>3. kept \in ClaimUpdate /\ kept.kind = update.kind /\ update.kind \in Kinds
  BY <1>1, IdleType DEF ClaimUpdate, NoClaimUpdate
<1>4. UNCHANGED <<user, made, ended, overlapped>>
  BY DEF ReadConnections, outside
<1>5. InCalls' = InCalls
  BY <1>4 DEF InCalls
<1>6. ASSUME update.kind # "connection", ~overlapped
      PROVE  /\ \A v \in Workers \ {w} : ~UpdatesClaim(workers[v])
             /\ worker.seen = user /\ Proper(user)
             /\ Proper(Written(user, write)) /\ Shown(Written(user, write)) = InCalls
  <2>1. UpdatesClaim(worker)
    BY <1>0, <1>6 DEF UpdatesClaim
  <2>2. /\ \A v \in Workers \ {w} : ~UpdatesClaim(workers[v])
        /\ Proper(user) /\ OnItsWay(worker)
    BY <1>6, <2>1, OnlyOne
  <2>3. worker.seen = user /\ Awaits(update)
    BY <1>0, <2>2 DEF OnItsWay
  <2>4. write = Resolved(user, update)
    BY <2>3
  <2> HIDE DEF write
  <2> QED BY <1>3, <1>6, <2>2, <2>3, <2>4, ResolvedShows
<1>7. CASE update.kind # "connection" /\ write = Rejected
  <2> DEFINE i == AfterUpdate(update.kind)
  <2>1. workers' = [workers EXCEPT ![w] = i]
    BY <1>7 DEF ReadConnections
  <2>2. i \in Worker /\ ~UpdatesClaim(i) /\ LeavesClaims(i)
    BY AfterUpdateType DEF UpdatesClaim, LeavesClaims
  <2> HIDE DEF i, write
  <2>3. i = workers'[w] /\ \A v \in Workers \ {w} : SameWork(v)
    BY <1>0, <2>1, <2>2, MovedWork
  <2>4. ~overlapped' => /\ \A v \in Workers \ {w} : ~UpdatesClaim(workers[v])
                        /\ Proper(user') /\ Shown(user') = InCalls'
    BY <1>0, <1>4, <1>5, <1>6, <1>7, RejectedKeeps
  <2> QED BY <2>2, <2>3, <2>4, AloneFollows
<1>8. CASE ~(update.kind # "connection" /\ write = Rejected)
  <2>1. NoClaims.claim.until = None
    BY DEF NoClaims, Unclaimed
  <2>2. PICK k \in Worker : /\ k.step = "write" /\ k.write = write /\ k.update = kept /\ k.seen = seen
                            /\ workers' = [workers EXCEPT ![w] = k]
    <3>1. workers' = [workers EXCEPT ![w] = j]
      BY <1>8 DEF ReadConnections
    <3> HIDE DEF write, next, seen, kept
    <3>2. /\ j \in Worker /\ j.step = "write" /\ j.write = write /\ j.update = kept
          /\ j.seen = seen
      BY <1>0, <1>2, <1>3 DEF Worker, Steps
    <3> HIDE DEF j
    <3> QED BY <3>1, <3>2
  <2>6. update.kind = "connection" => write = Rejected
    BY DEF Resolved
  <2> HIDE DEF write, next, seen, kept, j
  <2>3. k = workers'[w] /\ \A v \in Workers \ {w} : SameWork(v)
    BY <1>0, <2>2, MovedWork
  <2>4. LeavesClaims(k)
    BY <1>3, <2>2, <2>6 DEF LeavesClaims
  <2>5. CASE update.kind = "connection"
    <3>1. ~UpdatesClaim(worker) /\ ~UpdatesClaim(k)
      BY <1>3, <2>2, <2>5 DEF UpdatesClaim
    <3> QED BY <1>4, <2>3, <2>4, <3>1, OthersFollow
  <2>8. CASE update.kind # "connection"
    <3>1. UpdatesClaim(k)
      BY <1>3, <2>2, <2>8 DEF UpdatesClaim
    <3>2. IsGuarded(k) => k.seen = worker.seen
      BY <2>1, <2>2 DEF IsGuarded, seen
    <3>3. ASSUME ~overlapped'
          PROVE  /\ \A v \in Workers \ {w} : ~UpdatesClaim(workers[v])
                 /\ Proper(user') /\ OnItsWay(k)'
      <4>1. /\ \A v \in Workers \ {w} : ~UpdatesClaim(workers[v])
            /\ worker.seen = user /\ Proper(user)
            /\ Proper(Written(user, write)) /\ Shown(Written(user, write)) = InCalls
        BY <1>4, <1>6, <2>8, <3>3
      <4>2. OnItsWay(k)'
        BY <1>4, <1>5, <2>2, <3>2, <4>1 DEF OnItsWay, IsGuarded
      <4> QED BY <1>4, <4>1, <4>2
    <3> QED BY <2>3, <2>4, <3>1, <3>3, AloneFollows
  <2> QED BY <2>5, <2>8
<1> QED BY <1>7, <1>8

LEMMA WriteFollows ==
  ASSUME IInv, CallsInv, NEW w \in Workers, Write(w)
  PROVE  CallsInv'
<1> DEFINE worker == workers[w]
           k == AfterUpdate(worker.update.kind)
           steps == {"read connections", "write"}
<1>0. worker \in Worker /\ worker.step = "write" /\ Types /\ user \in Owner
  BY DEF IInv, Types, Write
<1>1. k \in Worker /\ ~UpdatesClaim(k) /\ LeavesClaims(k)
  BY AfterUpdateType DEF UpdatesClaim, LeavesClaims
<1>2. workers' = [workers EXCEPT ![w] = k] \/ workers' = Outdate(workers, steps, w, k)
  BY DEF Write
<1>3. UNCHANGED <<made, ended, overlapped>>
  BY DEF Write, outside
<1>4. user' = IF Matches(worker) THEN Written(user, worker.write) ELSE user
  BY DEF Write
<1> HIDE DEF k, steps
<1>5. k = workers'[w] /\ \A v \in Workers \ {w} : SameWork(v)
  BY <1>0, <1>1, <1>2, MovedWork
<1>6. CASE worker.update.kind = "connection"
  <2>1. worker.write = Rejected
    BY <1>0, <1>6 DEF CallsInv, LeavesClaims
  <2>2. user' = user /\ ~UpdatesClaim(worker)
    BY <1>0, <1>4, <1>6, <2>1, RejectedKeeps DEF UpdatesClaim
  <2> QED BY <1>1, <1>3, <1>5, <2>2, OthersFollow
<1>7. CASE worker.update.kind # "connection"
  <2>1. ASSUME ~overlapped'
        PROVE  /\ \A v \in Workers \ {w} : ~UpdatesClaim(workers[v])
               /\ Proper(user') /\ Shown(user') = InCalls'
    <3>1. UpdatesClaim(worker)
      BY <1>0, <1>7 DEF UpdatesClaim
    <3>2. \A v \in Workers \ {w} : ~UpdatesClaim(workers[v])
      BY <1>3, <2>1, <3>1, OnlyOne
    <3>3. /\ Proper(Written(user, worker.write)) /\ Shown(Written(user, worker.write)) = InCalls
          /\ IsGuarded(worker) => worker.seen = user
      BY <1>0, <1>3, <2>1, <3>1, OnlyOne DEF OnItsWay
    <3>4. Matches(worker)
      BY <3>3 DEF Matches
    <3>5. InCalls' = InCalls
      BY <1>3 DEF InCalls
    <3> QED BY <1>4, <3>2, <3>3, <3>4, <3>5
  <2> QED BY <1>1, <1>5, <2>1, AloneFollows
<1> QED BY <1>6, <1>7

(* The job goes on to end an expired claim, or finds none. *)
LEMMA FindExpiredFollows ==
  ASSUME OrdinaryClaims, IInv, CallsInv, NEW w \in Workers, FindExpired(w)
  PROVE  CallsInv'
<1>0. Types /\ workers[w].step = "find expired" /\ user \in Owner
  BY DEF IInv, Types, FindExpired
<1>1. UNCHANGED <<user, made, ended>> /\ ~UpdatesClaim(workers[w])
  BY <1>0 DEF FindExpired, outside, UpdatesClaim
<1>2. CASE user.claim.until \in Past
  <2>1. PICK k \in Worker : /\ k.step = "read connections" /\ k.seen = user /\ k.update = Expiring
                            /\ workers' = [workers EXCEPT ![w] = k]
    <3> DEFINE j == [Idle EXCEPT !.step = "read connections", !.update = Expiring, !.seen = user]
    <3>1. j \in Worker /\ j.step = "read connections" /\ j.update = Expiring /\ j.seen = user
      BY <1>0, IdleType DEF Idle, Worker, Steps, Expiring, NoClaimUpdate, ClaimUpdate, Kinds
    <3>2. workers' = [workers EXCEPT ![w] = j]
      BY <1>2 DEF FindExpired
    <3> HIDE DEF j
    <3> QED BY <3>1, <3>2
  <2>2. k = workers'[w] /\ \A v \in Workers \ {w} : SameWork(v)
    BY <1>0, <2>1, MovedWork
  <2>3. k.update.kind = "expire" /\ k.update.id = None
    BY <2>1 DEF Expiring, NoClaimUpdate
  <2>4. LeavesClaims(k) /\ UpdatesClaim(k)
    BY <2>1, <2>3 DEF LeavesClaims, UpdatesClaim
  <2>5. Overlap
    BY <1>2 DEF FindExpired
  <2>6. ASSUME ~overlapped'
        PROVE  /\ \A v \in Workers \ {w} : ~UpdatesClaim(workers[v])
               /\ Proper(user') /\ OnItsWay(k)'
    <3>1. (\A v \in Workers : ~UpdatesClaim(workers[v])) /\ Proper(user) /\ Shown(user) = InCalls
      BY <2>5, <2>6, NoneAtWork
    <3>2. user.claim.until # None
      BY <1>2, EngineAssumption DEF EngineAssumption, Past
    <3>3. ~IsCall(user.claim)
      BY <3>1, <3>2, ClaimsAreClaims DEF Proper, OrdinaryClaims, IsCall
    <3>4. InCalls' = InCalls
      BY <1>1 DEF InCalls
    <3>5. OnItsWay(k)'
      BY <1>1, <2>1, <2>3, <3>1, <3>3, <3>4 DEF OnItsWay, Awaits
    <3> QED BY <1>1, <3>1, <3>5
  <2> QED BY <2>2, <2>4, <2>6, AloneFollows
<1>3. CASE user.claim.until \notin Past
  <2> DEFINE k == [Idle EXCEPT !.step = "take token"]
  <2>1. k \in Worker /\ k.step = "take token" /\ workers' = [workers EXCEPT ![w] = k]
    BY <1>3, IdleType DEF Idle, Worker, Steps, FindExpired
  <2> HIDE DEF k
  <2>2. k = workers'[w] /\ \A v \in Workers \ {w} : SameWork(v)
    BY <1>0, <2>1, MovedWork
  <2>3. LeavesClaims(k) /\ ~UpdatesClaim(k)
    BY <2>1 DEF LeavesClaims, UpdatesClaim
  <2>4. overlapped' = overlapped
    BY <1>3 DEF FindExpired
  <2> QED BY <1>1, <2>2, <2>3, <2>4, OthersFollow
<1> QED BY <1>2, <1>3

(* One worker goes on to something else than an update. *)
LEMMA GoOnFollows ==
  ASSUME IInv, CallsInv, UNCHANGED <<user, made, ended, overlapped>>, NEW w \in Workers,
         NEW k \in Worker, NEW steps,
         workers' = [workers EXCEPT ![w] = k] \/ workers' = Outdate(workers, steps, w, k),
         ~UpdatesClaim(workers[w]), ~UpdatesClaim(k), k.step # "write"
  PROVE  CallsInv'
<1>1. k = workers'[w] /\ \A v \in Workers \ {w} : SameWork(v)
  BY MovedWork DEF IInv
<1>2. LeavesClaims(k)
  BY DEF LeavesClaims
<1> QED BY <1>1, <1>2, OthersFollow

LEMMA AdvanceFollows ==
  ASSUME OrdinaryClaims, AtMostTwoCalls, IInv, CallsInv, NEW w \in Workers, Advance(w)
  PROVE  CallsInv'
<1> DEFINE worker == workers[w]
<1> USE DEF outside, recorded
<1>0. worker \in Worker /\ workers \in [Workers -> Worker] /\ user \in Owner /\ Types
  BY DEF IInv, Types
<1>1. Idle \in Worker /\ Idle.step = "idle" /\ ~UpdatesClaim(Idle)
  BY IdleType DEF Idle, UpdatesClaim
<1>2. CASE AddConnection(w)
  <2> DEFINE k == [Idle EXCEPT !.step = "read user"]
  <2>1. k \in Worker /\ k.step = "read user" /\ k.update.kind = "connection"
    BY <1>1 DEF Idle, Worker, Steps, NoClaimUpdate
  <2>2. workers' = Outdate(workers, {"write"}, w, k)
    BY <1>2 DEF AddConnection
  <2> HIDE DEF k
  <2>3. ~UpdatesClaim(worker) /\ ~UpdatesClaim(k)
    BY <1>2, <2>1 DEF AddConnection, UpdatesClaim
  <2> QED BY <1>2, <2>1, <2>2, <2>3, GoOnFollows DEF AddConnection
<1>7. CASE TakeToken(w)
  <2> DEFINE k == [worker EXCEPT !.step = "find next"]
  <2>1. k \in Worker /\ k.step = "find next"
    BY <1>0 DEF Worker, Steps
  <2>2. workers' = [workers EXCEPT ![w] = k]
    BY <1>7 DEF TakeToken
  <2> HIDE DEF k
  <2>3. ~UpdatesClaim(worker) /\ ~UpdatesClaim(k)
    BY <1>7, <2>1 DEF TakeToken, UpdatesClaim
  <2> QED BY <1>7, <2>1, <2>2, <2>3, GoOnFollows DEF TakeToken
<1>8. CASE FindNext(w)
  <2> DEFINE k == [worker EXCEPT !.step = "remove job", !.next = user.claim.until]
  <2>1. k \in Worker /\ k.step = "remove job"
    BY <1>0 DEF Worker, Steps, Owner, Claim
  <2>2. workers' = [workers EXCEPT ![w] = k]
    BY <1>0, <1>8 DEF FindNext
  <2> HIDE DEF k
  <2>3. ~UpdatesClaim(worker) /\ ~UpdatesClaim(k)
    BY <1>8, <2>1 DEF FindNext, UpdatesClaim
  <2> QED BY <1>8, <2>1, <2>2, <2>3, GoOnFollows DEF FindNext
<1>9. CASE RemoveJob(w)
  <2> DEFINE k == [worker EXCEPT !.step = "add job"]
  <2>1. k \in Worker /\ k.step = "add job"
    BY <1>0 DEF Worker, Steps
  <2>2. workers' = [workers EXCEPT ![w] = Idle] \/ workers' = [workers EXCEPT ![w] = k]
    BY <1>9 DEF RemoveJob
  <2> HIDE DEF k
  <2>3. ~UpdatesClaim(worker) /\ ~UpdatesClaim(k)
    BY <1>9, <2>1 DEF RemoveJob, UpdatesClaim
  <2> QED BY <1>1, <1>9, <2>1, <2>2, <2>3, GoOnFollows DEF RemoveJob
<1>10. CASE AddJob(w)
  <2>1. workers' = [workers EXCEPT ![w] = Idle] /\ ~UpdatesClaim(worker)
    BY <1>10 DEF AddJob, UpdatesClaim
  <2> QED BY <1>1, <1>10, <2>1, GoOnFollows DEF AddJob
<1> QED BY <1>2, <1>7, <1>8, <1>9, <1>10, ReadUserFollows, ReadConnectionsFollows, WriteFollows,
           FindExpiredFollows DEF Advance

(* A claim is made, given up or reset: the calls the user is in change at  *)
(* once, and those shown when the update is written.                       *)
LEMMA ClaimFollows ==
  ASSUME OrdinaryClaims, made \subseteq Claims, ended \subseteq made, IInv, CallsInv, NEW w \in Calls,
         ClearActiveState(w) \/ \E c \in Claims : SetActiveState(w, c) \/ EndActiveState(w, c)
  PROVE  CallsInv'
<1>0. Types /\ w \in Workers
  BY DEF IInv, Workers
<1>1. ASSUME NEW update \in ClaimUpdate, BeginClaim(w, update), user' = user,
             ~overlapped' => update.kind # "connection" /\ Awaits(update)'
      PROVE  CallsInv'
  <2>1. PICK k \in Worker : /\ k.step = "read user" /\ k.update = update
                            /\ workers' = [workers EXCEPT ![w] = k]
    <3> DEFINE j == [Idle EXCEPT !.step = "read user", !.update = update]
    <3>1. j \in Worker /\ j.step = "read user" /\ j.update = update
      BY <1>1, IdleType DEF Idle, Worker, Steps
    <3>2. workers' = [workers EXCEPT ![w] = j]
      BY <1>1 DEF BeginClaim, Begin
    <3> HIDE DEF j
    <3> QED BY <3>1, <3>2
  <2>2. k = workers'[w] /\ \A v \in Workers \ {w} : SameWork(v)
    BY <1>0, <2>1, MovedWork
  <2>3. LeavesClaims(k)
    BY <2>1 DEF LeavesClaims
  <2>4. ASSUME ~overlapped'
        PROVE  /\ \A v \in Workers \ {w} : ~UpdatesClaim(workers[v])
               /\ Proper(user') /\ UpdatesClaim(k) /\ OnItsWay(k)'
    <3>1. (\A v \in Workers : ~UpdatesClaim(workers[v])) /\ Proper(user)
      BY <1>1, <2>4, NoneAtWork DEF BeginClaim
    <3>2. Awaits(update)' /\ UpdatesClaim(k)
      BY <1>1, <2>1, <2>4 DEF UpdatesClaim
    <3>3. OnItsWay(k)'
      BY <2>1, <3>2 DEF OnItsWay, Awaits
    <3> QED BY <1>1, <3>1, <3>2, <3>3
  <2> QED BY <1>0, <2>2, <2>3, <2>4, AloneFollows
<1>2. ASSUME NEW c \in Claims, SetActiveState(w, c)
      PROVE  CallsInv'
  <2> DEFINE update == SettingActive(c)
  <2>1. update \in ClaimUpdate /\ update.kind = "setActive" /\ update.claim = c
    BY IdleType, PresenceAssumption DEF SettingActive, NoClaimUpdate, ClaimUpdate, Kinds, PresenceAssumption
  <2>2. BeginClaim(w, update) /\ user' = user /\ made' = made \cup {c} /\ ended' = ended /\ c \notin made
    BY <1>2 DEF SetActiveState
  <2> HIDE DEF update
  <2>3. ASSUME ~overlapped'
        PROVE  Awaits(update)'
    <3>1. Shown(user) = InCalls
      BY <2>2, <2>3, NoneAtWork DEF BeginClaim
    <3>2. InCalls' = InCalls \cup Displayed(c) /\ Displayed(c) \cap InCalls = {}
      BY <2>2, MadeInCalls
    <3>3. InCalls' = Shown(user') \cup Displayed(c) /\ Displayed(c) \cap Shown(user') = {}
      BY <2>2, <3>1, <3>2
    <3> QED BY <2>1, <3>3 DEF Awaits
  <2> QED BY <1>1, <2>1, <2>2, <2>3
<1>3. ASSUME NEW c \in Claims, EndActiveState(w, c)
      PROVE  CallsInv'
  <2> DEFINE update == EndingActive(c.id)
  <2>1. update \in ClaimUpdate /\ update.kind = "endActive" /\ update.id = c.id
    BY IdleType, PresenceAssumption DEF EndingActive, NoClaimUpdate, ClaimUpdate, Kinds, PresenceAssumption, Claim
  <2>2. /\ BeginClaim(w, update) /\ user' = user /\ ended' = ended \cup {c} /\ made' = made
        /\ c \in made \ ended /\ c.id # None
    BY <1>3 DEF EndActiveState
  <2> HIDE DEF update
  <2>3. ASSUME ~overlapped'
        PROVE  Awaits(update)'
    <3>1. Shown(user) = InCalls
      BY <2>2, <2>3, NoneAtWork DEF BeginClaim
    <3>2. InCalls' = InCalls \ {c.id}
      BY <2>2, EndedInCalls
    <3>3. InCalls' = Shown(user') \ {c.id}
      BY <2>2, <3>1, <3>2
    <3> QED BY <2>1, <2>2, <3>3 DEF Awaits
  <2> QED BY <1>1, <2>1, <2>2, <2>3
<1>4. CASE ClearActiveState(w)
  <2> DEFINE update == ClearingActive
  <2>1. update \in ClaimUpdate /\ update.kind = "clearActive"
    BY IdleType DEF ClearingActive, NoClaimUpdate, ClaimUpdate, Kinds
  <2>2. BeginClaim(w, update) /\ user' = user /\ ended' = made /\ made' = made
    BY <1>4 DEF ClearActiveState
  <2> HIDE DEF update
  <2>3. InCalls' = {}
    BY <2>2 DEF InCalls
  <2>4. Awaits(update)'
    BY <2>1, <2>3 DEF Awaits
  <2> QED BY <1>1, <2>1, <2>2, <2>4
<1> QED BY <1>2, <1>3, <1>4

LEMMA BeginFollows ==
  ASSUME IInv, CallsInv, UNCHANGED <<user, made, ended, overlapped>>, NEW w \in Calls,
         Begin(w, NoClaimUpdate) \/ BeginChanging(w)
  PROVE  CallsInv'
<1> DEFINE k == [Idle EXCEPT !.step = "read user"]
           j == [Idle EXCEPT !.step = "read user", !.update = NoClaimUpdate]
<1>1. /\ k \in Worker /\ k.step = "read user" /\ k.update.kind = "connection"
      /\ j \in Worker /\ j.step = "read user" /\ j.update.kind = "connection"
  BY IdleType DEF Idle, Worker, Steps, NoClaimUpdate
<1>2. w \in Workers /\ workers[w].step = "idle"
  BY DEF Workers, Begin, BeginChanging
<1>3. workers' = [workers EXCEPT ![w] = j] \/ workers' = Outdate(workers, {"write"}, w, k)
  BY DEF Begin, BeginChanging
<1> HIDE DEF k, j
<1>4. ~UpdatesClaim(workers[w]) /\ ~UpdatesClaim(k) /\ ~UpdatesClaim(j)
  BY <1>1, <1>2 DEF UpdatesClaim
<1> QED BY <1>1, <1>2, <1>3, <1>4, GoOnFollows

LEMMA CallsInit ==
  ASSUME Init
  PROVE  CallsInv
<1>1. PICK c \in Ongoing \cup {Unclaimed} : user = [claim |-> c, stash |-> None] /\ made = {c} \cap Claims
  BY DEF Init
<1>2. ended = {} /\ workers = [w \in Workers |-> Idle]
  BY DEF Init
<1>3. \A w \in Workers : LeavesClaims(workers[w]) /\ ~UpdatesClaim(workers[w])
  BY <1>2, IdleType DEF Idle, LeavesClaims, UpdatesClaim
<1>4. (c \in Claims \/ c = Unclaimed) /\ c # None /\ ~IsCall(None)
  BY PresenceAssumption, ClaimsAreClaims DEF PresenceAssumption
<1>5. Proper(user)
  BY <1>1, <1>4 DEF Proper
<1>6. \A x : x \in InCalls <=> c \in Claims /\ c.source = "internal" /\ c.id = x
  BY <1>1, <1>2 DEF InCalls
<1>7. Shown(user) = Displayed(c)
  BY <1>1, <1>4 DEF Shown, Displayed
<1>8. \A x : x \in Displayed(c) <=> c.source = "internal" /\ c.id = x
  BY <1>4 DEF Displayed
<1>9. c = Unclaimed => c.source # "internal"
  BY DEF Unclaimed
<1>10. Shown(user) = InCalls
  BY <1>4, <1>6, <1>7, <1>8, <1>9
<1> QED BY <1>3, <1>5, <1>10 DEF CallsInv, Followed

LEMMA NextFollows ==
  ASSUME OrdinaryClaims, AtMostTwoCalls, TypeOK, IInv, CallsInv, [Next]_vars
  PROVE  CallsInv'
<1> USE DEF service, recorded, outside
<1>0. made \subseteq Claims /\ ended \subseteq made /\ Types
  BY DEF TypeOK, IInv
<1>1. ASSUME NEW w \in Workers, Advance(w)
      PROVE  CallsInv'
  BY <1>1, AdvanceFollows
<1>2. ASSUME NEW w \in Calls, NEW k \in Connections, NewConnection(w, k)
      PROVE  CallsInv'
  <2> DEFINE j == [Idle EXCEPT !.step = "add connection", !.connection = k]
  <2>1. j \in Worker /\ j.step = "add connection"
    BY IdleType DEF Idle, Worker, Steps
  <2>2. w \in Workers /\ workers' = [workers EXCEPT ![w] = j] /\ workers[w].step = "idle"
    BY <1>2 DEF NewConnection, Workers
  <2> HIDE DEF j
  <2>3. ~UpdatesClaim(workers[w]) /\ ~UpdatesClaim(j)
    BY <2>1, <2>2 DEF UpdatesClaim
  <2> QED BY <1>2, <2>1, <2>2, <2>3, GoOnFollows DEF NewConnection
<1>3. ASSUME NEW w \in Calls, NEW k \in Connections,
             UpdateConnection(w, k) \/ RemoveConnection(w, k)
               \/ \E s \in {"online", "away"} : SetConnectionStatus(w, k, s)
      PROVE  CallsInv'
  BY <1>3, BeginFollows DEF UpdateConnection, RemoveConnection, SetConnectionStatus
<1>4. ASSUME NEW w \in Calls, FlushBatch(w) \/ \E n \in Nodes : RemoveLostConnections(w, n)
      PROVE  CallsInv'
  BY <1>4, BeginFollows DEF FlushBatch, RemoveLostConnections
<1>5. ASSUME NEW w \in Calls,
             ClearActiveState(w) \/ \E c \in Claims : SetActiveState(w, c) \/ EndActiveState(w, c)
      PROVE  CallsInv'
  BY <1>0, <1>5, ClaimFollows
<1>6. CASE \/ FindStale \/ Tick \/ UNCHANGED vars
           \/ (\E k \in Connections : GrowsStale(k)) \/ \E n \in Nodes : NodeDies(n)
  BY <1>6, StillFollow DEF FindStale, Tick, vars, GrowsStale, NodeDies
<1>7. ASSUME NEW m \in Moments, RunJob(m)
      PROVE  CallsInv'
  <2> DEFINE w == ExpirationJob
             j == [workers[w] EXCEPT !.step = "find expired"]
  <2>1. w \in Workers /\ workers[w] \in Worker
    BY <1>0 DEF Workers, Types
  <2>2. j \in Worker /\ j.step = "find expired"
    BY <2>1 DEF Worker, Steps
  <2>3. workers' = [workers EXCEPT ![w] = j] /\ workers[w].step = "idle"
    BY <1>7 DEF RunJob
  <2> HIDE DEF j, w
  <2>4. ~UpdatesClaim(workers[w]) /\ ~UpdatesClaim(j)
    BY <2>2, <2>3 DEF UpdatesClaim
  <2> QED BY <1>7, <2>1, <2>2, <2>3, <2>4, GoOnFollows DEF RunJob
<1>8. CASE Crash
  <2>1. \A w \in Workers : workers'[w].step # "write"
    BY <1>8 DEF Crash, Idle
  <2>2. (\A w \in Workers : LeavesClaims(workers[w]))'
    BY <2>1 DEF LeavesClaims
  <2> QED BY <1>8, <2>2 DEF Crash, CallsInv
<1> QED BY <1>1, <1>2, <1>3, <1>4, <1>5, <1>6, <1>7, <1>8 DEF Next

(* In whatever order calls and other claims begin, end, expire and are     *)
(* reset, the user is shown in the calls that the user is in and in no     *)
(* other (setActiveState, endActiveState, processExpiredStatuses), as long *)
(* as claims are ordinary, the user is in two calls at most and no two     *)
(* updates of claims overlap.                                              *)
THEOREM ShownCallsAreCurrent ==
  OrdinaryClaims /\ Spec /\ []AtMostTwoCalls => []ClaimsFollowCalls
<1>1. OrdinaryClaims /\ Init => CallsInv
  BY CallsInit
<1>2. OrdinaryClaims /\ AtMostTwoCalls /\ TypeOK /\ IInv /\ CallsInv /\ [Next]_vars => CallsInv'
  BY NextFollows
<1>3. CallsInv => ClaimsFollowCalls
  <2> SUFFICES ASSUME CallsInv, Quiet, ~overlapped
               PROVE  Shown(user) = InCalls
    BY DEF ClaimsFollowCalls
  <2>1. \A w \in Workers : ~UpdatesClaim(workers[w])
    BY DEF Quiet, UpdatesClaim
  <2> QED BY <2>1 DEF CallsInv, Followed
<1>4. OrdinaryClaims => []OrdinaryClaims
  OBVIOUS
<1> QED BY <1>1, <1>2, <1>3, <1>4, Invariant, PresenceTypes, PTL DEF Spec
=============================================================================
