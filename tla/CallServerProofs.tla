-------------------------- MODULE CallServerProofs --------------------------
(***************************************************************************)
(* The safety of CallServer for every set of users, sessions, calls and    *)
(* tasks, and whatever the clients send.  The argument: the collection     *)
(* changes one record at a time, from a record to one that Evolves from    *)
(* it; what the other tasks remember and what the notices told stays true  *)
(* of every record that evolves; so each action has only its own task, its *)
(* own record and its own notice to answer for.                            *)
(***************************************************************************)
EXTENDS CallServerProperties, TLAPS

(* What one write may do to a record: the parties are fixed, a signature   *)
(* and a transfer stay, and an ended record is not touched.                *)
Evolves(d, e) ==
    /\ d.state # "absent" => /\ e.state # "absent" /\ e.caller = d.caller
                             /\ e.callee = d.callee /\ e.callerContract = d.callerContract
    /\ d.contract # None => e.contract = d.contract
    /\ d.transferredBy # None => e.transferredBy # None
    /\ d.ended => e = d

Proper(d, e) == e \in CallDoc /\ RecordInv(e) /\ Evolves(d, e)

-----------------------------------------------------------------------------
(* The documents that the updates of MediaCalls write                      *)

(* setExpiresAtById keeps a record proper. *)
LEMMA RenewedIsProper ==
  ASSUME NEW d \in CallDoc, RecordInv(d), ~d.ended
  PROVE  Proper(d, Renewed(d)) \/ d.state = "absent"
  BY DEF Proper, CallDoc, RecordInv, Evolves, Renewed

(* The passing of expiresAt keeps a record proper. *)
LEMMA OverdueIsProper ==
  ASSUME NEW d \in CallDoc, RecordInv(d), ~d.ended, d.state # "absent"
  PROVE  Proper(d, Overdue(d))
  BY DEF Proper, CallDoc, RecordInv, Evolves, Overdue

(* startRingingById keeps a record proper. *)
LEMMA RungIsProper ==
  ASSUME NEW d \in CallDoc, RecordInv(d), d.state = "none"
  PROVE  Proper(d, Rung(d))
  BY DEF Proper, CallDoc, RecordInv, Evolves, Rung, Pending, Busy, States

(* acceptCallById keeps a record proper if a session of the callee signs. *)
LEMMA AcceptedIsProper ==
  ASSUME NEW d \in CallDoc, RecordInv(d), d.state \in Pending,
         NEW s \in Sessions, UserOf[s] = d.callee
  PROVE  Proper(d, Accepted(d, s))
  BY NoneIsFresh DEF NoneIsFresh, Proper, CallDoc, RecordInv, Evolves, Accepted, Pending, Busy, States

(* activateCallById keeps a record proper. *)
LEMMA ActivatedIsProper ==
  ASSUME NEW d \in CallDoc, RecordInv(d), d.state = "accepted"
  PROVE  Proper(d, Activated(d))
  BY DEF Proper, CallDoc, RecordInv, Evolves, Activated, Pending, Busy, States

(* A field that hangupCallById or transferCallById sets keeps a record a record. *)
LEMMA FieldTypes ==
  ASSUME NEW d \in CallDoc
  PROVE  /\ \A x \in States : [d EXCEPT !.state = x] \in CallDoc
         /\ \A x \in BOOLEAN : [d EXCEPT !.ended = x] \in CallDoc
         /\ \A x \in Users \cup {"server", None} : [d EXCEPT !.endedBy = x] \in CallDoc
         /\ \A x \in Reasons : [d EXCEPT !.reason = x] \in CallDoc
         /\ \A x \in Sessions \cup {None} : [d EXCEPT !.transferredBy = x] \in CallDoc
         /\ \A x \in Users \cup {None} : [d EXCEPT !.transferredTo = x] \in CallDoc
<1>1. \A x \in States : [d EXCEPT !.state = x] \in CallDoc
  BY DEF CallDoc
<1>2. \A x \in BOOLEAN : [d EXCEPT !.ended = x] \in CallDoc
  BY DEF CallDoc
<1>3. \A x \in Users \cup {"server", None} : [d EXCEPT !.endedBy = x] \in CallDoc
  BY DEF CallDoc
<1>4. \A x \in Reasons : [d EXCEPT !.reason = x] \in CallDoc
  BY DEF CallDoc
<1>5. \A x \in Sessions \cup {None} : [d EXCEPT !.transferredBy = x] \in CallDoc
  BY DEF CallDoc
<1>6. \A x \in Users \cup {None} : [d EXCEPT !.transferredTo = x] \in CallDoc
  BY DEF CallDoc
<1> QED BY <1>1, <1>2, <1>3, <1>4, <1>5, <1>6

(* The fields that hangupCallById sets have the right types. *)
LEMMA EndedType ==
  ASSUME NEW d \in CallDoc, NEW by \in Users \cup {"server", None}, NEW reason \in Reasons
  PROVE  Ended(d, by, reason) \in CallDoc
<1> DEFINE e1 == [d EXCEPT !.state = "hangup"]
           e2 == [e1 EXCEPT !.ended = TRUE]
           e3 == [e2 EXCEPT !.endedBy = by]
<1>1. e1 \in CallDoc
  BY FieldTypes DEF States
<1>2. e2 \in CallDoc
  <2> HIDE DEF e1
  <2> QED BY <1>1, FieldTypes
<1>3. e3 \in CallDoc
  <2> HIDE DEF e2
  <2> QED BY <1>2, FieldTypes
<1>4. [e3 EXCEPT !.reason = reason] \in CallDoc
  <2> HIDE DEF e3
  <2> QED BY <1>3, FieldTypes
<1>5. Ended(d, by, reason) = [e3 EXCEPT !.reason = reason]
  BY DEF CallDoc, Ended
<1> QED BY <1>4, <1>5

(* So do those that transferCallById sets. *)
LEMMA TransferredType ==
  ASSUME NEW d \in CallDoc, NEW by \in Sessions \cup {None}, NEW to \in Users \cup {None}
  PROVE  Transferred(d, by, to) \in CallDoc
<1> DEFINE e == [d EXCEPT !.transferredBy = by]
<1>1. e \in CallDoc
  BY FieldTypes
<1>2. [e EXCEPT !.transferredTo = to] \in CallDoc
  <2> HIDE DEF e
  <2> QED BY <1>1, FieldTypes
<1>3. Transferred(d, by, to) = [e EXCEPT !.transferredTo = to]
  BY DEF CallDoc, Transferred
<1> QED BY <1>2, <1>3

(* hangupCallById keeps a record proper. *)
LEMMA EndedIsProper ==
  ASSUME NEW d \in CallDoc, RecordInv(d), ~d.ended, d.state # "absent",
         NEW by \in Users \cup {"server", None}, NEW reason \in Reasons
  PROVE  Proper(d, Ended(d, by, reason)) /\ Ended(d, by, reason).ended
<1>1. Ended(d, by, reason) \in CallDoc
  BY EndedType
<1>2. RecordInv(Ended(d, by, reason)) /\ Ended(d, by, reason).ended
  BY DEF CallDoc, RecordInv, Ended, Pending, Busy
<1>3. Evolves(d, Ended(d, by, reason))
  BY DEF CallDoc, Evolves, Ended
<1> QED BY <1>1, <1>2, <1>3 DEF Proper

(* transferCallById keeps a record proper. *)
LEMMA TransferredIsProper ==
  ASSUME NEW d \in CallDoc, RecordInv(d), d.state \in Busy, d.transferredBy = None,
         NEW by \in Sessions \cup {None}, NEW to \in Users \cup {None},
         by # None, to # None
  PROVE  Proper(d, Transferred(d, by, to)) /\ Transferred(d, by, to).transferredBy # None
<1>1. Transferred(d, by, to) \in CallDoc
  BY TransferredType
<1>2. RecordInv(Transferred(d, by, to)) /\ Transferred(d, by, to).transferredBy # None
  BY DEF CallDoc, RecordInv, Transferred, Pending, Busy
<1>3. Evolves(d, Transferred(d, by, to))
  BY DEF CallDoc, Evolves, Transferred, RecordInv, Busy
<1> QED BY <1>1, <1>2, <1>3 DEF Proper

(* What createCall inserts is proper, prevented or not. *)
LEMMA NewIsProper ==
  ASSUME NEW t \in Task, t.from # None, t.to # None, UserOf[t.from] # t.to
  PROVE  /\ Proper(NoCall, NewCall(t)) /\ NewCall(t).state # "absent"
         /\ Proper(NoCall, Prevented(NewCall(t))) /\ Prevented(NewCall(t)).ended
         /\ Prevented(NewCall(t)).state # "absent"
<1>0. NewCall(t) \in CallDoc
  BY SessionsBelongToUsers DEF SessionsBelongToUsers, Task, CallDoc, NewCall, NoCall, States, Pending, Reasons
<1>1. Prevented(NewCall(t)) \in CallDoc
  BY <1>0 DEF CallDoc, Prevented, States
<1>2. RecordInv(NewCall(t)) /\ NewCall(t).state # "absent"
  BY SessionsBelongToUsers DEF SessionsBelongToUsers, Task, RecordInv, NewCall, NoCall, Pending, Busy
<1>3. /\ RecordInv(Prevented(NewCall(t))) /\ Prevented(NewCall(t)).ended
      /\ Prevented(NewCall(t)).state # "absent"
  BY SessionsBelongToUsers DEF SessionsBelongToUsers, Task, RecordInv, NewCall, Prevented, NoCall, Pending, Busy
<1>4. Evolves(NoCall, NewCall(t)) /\ Evolves(NoCall, Prevented(NewCall(t)))
  BY DEF Evolves, NewCall, NoCall
<1> QED BY <1>0, <1>1, <1>2, <1>3, <1>4 DEF Proper

-----------------------------------------------------------------------------
(* What a step does to the collection                                      *)

CallsOK == /\ calls' \in [Calls -> CallDoc]
           /\ RecordsInv'
           /\ \A c \in Calls : Evolves(calls[c], calls'[c])

(* A write of a proper document keeps the collection proper. *)
LEMMA WriteOK ==
  ASSUME TypeOK, RecordsInv, NEW c \in Calls, NEW e, Proper(calls[c], e), Write(c, e)
  PROVE  CallsOK
<1>1. \A x \in Calls : Evolves(calls[x], calls[x])
  BY DEF Evolves
<1>2. /\ calls' \in [Calls -> CallDoc]
      /\ calls'[c] = e
      /\ \A x \in Calls \ {c} : calls'[x] = calls[x]
  BY DEF TypeOK, Proper, Write
<1> QED BY <1>1, <1>2 DEF CallsOK, Proper, RecordsInv

(* So does a step that leaves it alone. *)
LEMMA NoWriteOK ==
  ASSUME TypeOK, RecordsInv, UNCHANGED calls
  PROVE  CallsOK
  BY DEF CallsOK, TypeOK, RecordsInv, Evolves

(* The call that a task in flight has read is a record of the collection. *)
LEMMA ReadCall ==
  ASSUME TypeOK, TasksInv, NEW h \in Tasks,
         tasks[h].pc \in {"renew", "act", "retrace", "react", "expire", "record", "recordPrevented", "tell"}
  PROVE  tasks[h].call \in Calls /\ Exists(tasks[h].call)
  BY DEF TypeOK, Task, TasksInv, ReaderInv

(* The sender of the signal that a task processes is one of the two users. *)
LEMMA Sender ==
  ASSUME TypeOK, TasksInv, NEW h \in Tasks, tasks[h].pc \in {"renew", "act", "retrace", "react"}
  PROVE  /\ tasks[h].sess \in Sessions /\ UserOf[tasks[h].sess] \in Users
         /\ TakesPart(tasks[h].call, UserOf[tasks[h].sess])
  BY SessionsBelongToUsers DEF SessionsBelongToUsers, TypeOK, Task, TasksInv, ReaderInv

(* Whoever ends a call ends a proper one. *)
LEMMA EndCallOK ==
  ASSUME TypeOK, RecordsInv, NEW h \in Tasks, NEW c \in Calls, Exists(c),
         NEW by \in Users \cup {"server", None}, NEW reason \in Reasons, EndCall(h, c, by, reason)
  PROVE  CallsOK
<1>1. CASE CanEnd(c) /\ Write(c, Ended(calls[c], by, reason))
  <2>1. calls[c] \in CallDoc /\ RecordInv(calls[c]) /\ ~calls[c].ended /\ calls[c].state # "absent"
    BY <1>1 DEF TypeOK, RecordsInv, CanEnd, Exists
  <2>2. Proper(calls[c], Ended(calls[c], by, reason))
    BY <2>1, EndedIsProper
  <2> QED BY <1>1, <2>2, WriteOK
<1>2. CASE UNCHANGED calls
  BY <1>2, NoWriteOK
<1> QED BY <1>1, <1>2 DEF EndCall

(* Renewing a call that exists is proper. *)
LEMMA RenewCallOK ==
  ASSUME TypeOK, RecordsInv, NEW c \in Calls, Exists(c), RenewCall(c)
  PROVE  CallsOK
<1>1. CASE ~calls[c].ended /\ Write(c, Renewed(calls[c]))
  <2>1. Proper(calls[c], Renewed(calls[c]))
    BY <1>1, RenewedIsProper DEF TypeOK, RecordsInv, Exists
  <2> QED BY <1>1, <2>1, WriteOK
<1>2. CASE UNCHANGED calls
  BY <1>2, NoWriteOK
<1> QED BY <1>1, <1>2 DEF RenewCall, UpdateOne

(* Every step keeps the collection proper. *)
LEMMA CallsStep ==
  ASSUME TypeOK, IInv, Next
  PROVE  CallsOK
<1> USE DEF IInv
<1>1. ASSUME NEW h \in Tasks, Renew(h) PROVE CallsOK
  BY <1>1, ReadCall, RenewCallOK DEF Renew, At
<1>2. ASSUME NEW h \in Tasks, StartRinging(h) PROVE CallsOK
  <2> DEFINE c == tasks[h].call
  <2>1. c \in Calls
    BY <1>2, ReadCall DEF StartRinging, At
  <2>2. CASE CanRing(c) /\ Write(c, Rung(calls[c]))
    <3>1. Proper(calls[c], Rung(calls[c]))
      BY <2>1, <2>2, RungIsProper DEF TypeOK, RecordsInv, CanRing
    <3> QED BY <2>1, <2>2, <3>1, WriteOK
  <2>3. CASE UNCHANGED calls
    BY <2>3, NoWriteOK
  <2> QED BY <1>2, <2>2, <2>3 DEF StartRinging, UpdateOne
<1>3. ASSUME NEW h \in Tasks, AcceptCall(h) PROVE CallsOK
  <2> DEFINE c == tasks[h].call
  <2>1. c \in Calls /\ tasks[h].sess \in Sessions /\ UserOf[tasks[h].sess] = calls[c].callee
    BY <1>3, ReadCall, Sender DEF AcceptCall, At, WantsAccept, PendingCallee, MyRole, RoleOf, TakesPart
  <2>2. CASE CanAccept(c) /\ Write(c, Accepted(calls[c], tasks[h].sess))
    <3>1. Proper(calls[c], Accepted(calls[c], tasks[h].sess))
      BY <2>1, <2>2, AcceptedIsProper DEF TypeOK, RecordsInv, CanAccept
    <3> QED BY <2>1, <2>2, <3>1, WriteOK
  <2>3. CASE UNCHANGED calls
    BY <2>3, NoWriteOK
  <2> QED BY <1>3, <2>2, <2>3 DEF AcceptCall
<1>4. ASSUME NEW h \in Tasks, Activate(h) PROVE CallsOK
  <2> DEFINE c == tasks[h].call
  <2>1. c \in Calls
    BY <1>4, ReadCall DEF Activate, At
  <2>2. CASE CanActivate(c) /\ Write(c, Activated(calls[c]))
    <3>1. Proper(calls[c], Activated(calls[c]))
      BY <2>1, <2>2, ActivatedIsProper DEF TypeOK, RecordsInv, CanActivate
    <3> QED BY <2>1, <2>2, <3>1, WriteOK
  <2>3. CASE UNCHANGED calls
    BY <2>3, NoWriteOK
  <2> QED BY <1>4, <2>2, <2>3 DEF Activate
<1>5. ASSUME NEW h \in Tasks, FlagTransfer(h) PROVE CallsOK
  <2> DEFINE c == tasks[h].call
  <2>1. /\ c \in Calls /\ tasks[h].sess \in Sessions /\ tasks[h].sess # None
        /\ tasks[h].to \in Users \cup {None} /\ tasks[h].to # None
    BY <1>5, ReadCall, Sender, NoneIsFresh
       DEF NoneIsFresh, FlagTransfer, At, WantsTransfer, TasksInv, ReaderInv, TypeOK, Task
  <2>2. CASE CanTransfer(c) /\ Write(c, Transferred(calls[c], tasks[h].sess, tasks[h].to))
    <3>1. Proper(calls[c], Transferred(calls[c], tasks[h].sess, tasks[h].to))
      BY <2>1, <2>2, TransferredIsProper DEF TypeOK, RecordsInv, CanTransfer
    <3> QED BY <2>1, <2>2, <3>1, WriteOK
  <2>3. CASE UNCHANGED calls
    BY <2>3, NoWriteOK
  <2> QED BY <1>5, <2>2, <2>3 DEF FlagTransfer
<1>6. ASSUME NEW h \in Tasks, EndBySignal(h) PROVE CallsOK
  <2>1. (IF tasks[h].kind = "reject" THEN "rejected" ELSE tasks[h].kind) \in Reasons
    BY <1>6 DEF EndBySignal, WantsEnd, Reasons, EndingSignals
  <2> QED BY <1>6, <2>1, ReadCall, Sender, EndCallOK DEF EndBySignal, At
<1>7. ASSUME NEW h \in Tasks, NEW c \in Calls, CreateCall(h, c) \/ PreventCall(h, c) PROVE CallsOK
  <2>1. /\ tasks[h] \in Task /\ tasks[h].from # None /\ tasks[h].to # None
        /\ UserOf[tasks[h].from] # tasks[h].to
    BY <1>7 DEF CreateCall, PreventCall, At, TasksInv, CreatorInv, TypeOK
  <2>2. calls[c] = NoCall
    BY <1>7 DEF CreateCall, PreventCall, Exists, RecordsInv, RecordInv
  <2>3. Proper(calls[c], NewCall(tasks[h])) /\ Proper(calls[c], Prevented(NewCall(tasks[h])))
    BY <2>1, <2>2, NewIsProper
  <2> QED BY <1>7, <2>3, WriteOK DEF CreateCall, PreventCall
<1>8. ASSUME NEW h \in Tasks, EndTransferred(h) PROVE CallsOK
  <2> DEFINE c == tasks[h].parent
  <2>1. c \in Calls
    BY <1>8 DEF EndTransferred, At, TasksInv, CreatorInv, TypeOK, Task
  <2>2. CASE calls[c].transferredBy # None /\ EndCall(h, c, UserOf[calls[c].transferredBy], "transfer")
    <3>1. calls[c].transferredBy \in Sessions /\ Exists(c)
      BY <2>1, <2>2 DEF TypeOK, CallDoc, RecordsInv, RecordInv, Exists, NoCall
    <3>2. UserOf[calls[c].transferredBy] \in Users /\ "transfer" \in Reasons
      BY <3>1, SessionsBelongToUsers DEF SessionsBelongToUsers, Reasons
    <3> QED BY <2>1, <2>2, <3>1, <3>2, EndCallOK
  <2>3. CASE UNCHANGED calls
    BY <2>3, NoWriteOK
  <2> QED BY <1>8, <2>2, <2>3 DEF EndTransferred
<1>9. ASSUME NEW h \in Tasks, React(h) PROVE CallsOK
  <2> DEFINE c == tasks[h].call
  <2>1. c \in Calls /\ Exists(c) /\ UserOf[tasks[h].sess] \in Users /\ "unknown" \in Reasons
    BY <1>9, ReadCall, Sender DEF React, At, Reasons
  <2>2. CASE EndCall(h, c, UserOf[tasks[h].sess], "unknown")
    BY <2>1, <2>2, EndCallOK
  <2>3. CASE RenewCall(c)
    BY <2>1, <2>3, RenewCallOK
  <2>4. CASE UNCHANGED calls
    BY <2>4, NoWriteOK
  <2> QED BY <1>9, <2>2, <2>3, <2>4 DEF React
<1>10. ASSUME NEW c \in Calls, Expire(c) PROVE CallsOK
  <2>1. Proper(calls[c], Overdue(calls[c]))
    BY <1>10, OverdueIsProper DEF Expire, Unfinished, Exists, TypeOK, RecordsInv
  <2> QED BY <1>10, <2>1, WriteOK DEF Expire
<1>11. ASSUME NEW h \in Tasks, EndExpired(h) PROVE CallsOK
  <2>1. "expired" \in Reasons
    BY DEF Reasons
  <2> QED BY <1>11, <2>1, ReadCall, EndCallOK DEF EndExpired, At
<1>12. CASE UNCHANGED calls
  BY <1>12, NoWriteOK
<1> QED
  BY <1>1, <1>2, <1>3, <1>4, <1>5, <1>6, <1>7, <1>8, <1>9, <1>10, <1>11, <1>12, Environment
  DEF Environment, Next, Stimulus, Begin, Continue, Act, Creation, ReceiveSignal, RequestCall, Register, FindExpired,
      RepeatRequest, Crash, Ignore, CheckBusy, CheckCaller, CheckCallee, RecordPrevented,
      FailCreation, RequestTransfer, Record, Tell
-----------------------------------------------------------------------------
(* Types of the tasks                                                      *)

(* A task is replaced by a task. *)
LEMMA MoveType ==
  ASSUME TypeOK, NEW h \in Tasks, NEW t \in Task, Move(h, t)
  PROVE  tasks' \in [Tasks -> Task]
  BY DEF TypeOK, Move

(* A task that moves on is a task. *)
LEMMA GotoType ==
  ASSUME TypeOK, NEW h \in Tasks, NEW step \in Steps, Goto(h, step)
  PROVE  tasks' \in [Tasks -> Task]
<1>1. tasks[h] \in Task
  BY DEF TypeOK
<1>2. [tasks[h] EXCEPT !.pc = step] \in Task
  BY <1>1 DEF Task
<1> QED BY <1>2, MoveType DEF Goto

(* So is one that is not in use, *)
LEMMA IdleType == Idle \in Task
<1>1. NoSnapshot \in Snapshot
  BY DEF NoSnapshot, Snapshot, States
<1>2. "idle" \in Steps /\ << >> \in Seq(Roles)
  BY DEF Steps
<1> QED BY <1>1, <1>2 DEF Idle, Task

(* one that has finished, *)
LEMMA FinishType ==
  ASSUME TypeOK, NEW h \in Tasks, Finish(h)
  PROVE  tasks' \in [Tasks -> Task]
  BY IdleType, MoveType DEF Finish

(* and one that has notices to send. *)
LEMMA AnnounceType ==
  ASSUME TypeOK, NEW h \in Tasks, NEW say \in {"none", "new", "accepted", "active", "hangup"},
         NEW todo \in Seq(Roles), Announce(h, say, todo)
  PROVE  tasks' \in [Tasks -> Task]
<1>1. tasks[h] \in Task /\ "tell" \in Steps
  BY DEF TypeOK, Steps
<1>2. [tasks[h] EXCEPT !.pc = "tell", !.say = say, !.todo = todo] \in Task
  BY <1>1 DEF Task
<1> QED BY <1>2, MoveType DEF Announce

(* A task that ends call c, or has created it, goes on with it. *)
LEMMA CallTaskType ==
  ASSUME NEW t \in Task, NEW step \in Steps, NEW c \in Calls \cup {None}
  PROVE  [t EXCEPT !.pc = step, !.call = c] \in Task
  BY DEF Task

(* A task that ends a call, or finds it ended, is a task. *)
LEMMA EndCallType ==
  ASSUME TypeOK, NEW h \in Tasks, NEW c \in Calls, NEW by, NEW reason, EndCall(h, c, by, reason)
  PROVE  tasks' \in [Tasks -> Task]
<1>1. tasks[h] \in Task /\ "record" \in Steps
  BY DEF TypeOK, Steps
<1>2. [tasks[h] EXCEPT !.pc = "record", !.call = c] \in Task
  BY <1>1, CallTaskType
<1> QED BY <1>2, MoveType, FinishType DEF EndCall

(* The snapshot of a record *)
LEMMA SnapshotType ==
  ASSUME TypeOK, NEW c \in Calls
  PROVE  SnapshotOf(c) \in Snapshot
  BY DEF TypeOK, CallDoc, SnapshotOf, Snapshot

(* A reader starts. *)
LEMMA ReaderType ==
  ASSUME TypeOK, NEW c \in Calls, NEW s \in Sessions \cup {None}, NEW old \in Sessions \cup {None},
         NEW to \in Users \cup {None}, NEW step \in Steps,
         NEW kind \in Signals \cup {"none", "request", "register", "sweep"}
  PROVE  /\ [Idle EXCEPT !.pc = step, !.kind = kind, !.call = c, !.sess = s,
                        !.seen = SnapshotOf(c), !.to = to] \in Task
         /\ [Idle EXCEPT !.pc = step, !.kind = kind, !.call = c, !.sess = s,
                        !.old = old, !.seen = SnapshotOf(c)] \in Task
         /\ [Idle EXCEPT !.pc = step, !.kind = kind, !.call = c] \in Task
<1>1. SnapshotOf(c) \in Snapshot /\ Idle \in Task /\ c \in Calls \cup {None}
  BY SnapshotType, IdleType
<1>2. ASSUME NEW t \in Task, NEW d \in Calls \cup {None}
      PROVE  [t EXCEPT !.pc = step, !.kind = kind, !.call = d] \in Task
  BY DEF Task
<1>3. ASSUME NEW t \in Task, NEW sn \in Snapshot
      PROVE  /\ [t EXCEPT !.sess = s, !.seen = sn, !.to = to] \in Task
             /\ [t EXCEPT !.sess = s, !.old = old, !.seen = sn] \in Task
  <2>1. [t EXCEPT !.sess = s, !.seen = sn, !.to = to] \in Task
    BY DEF Task
  <2>2. [t EXCEPT !.sess = s, !.old = old, !.seen = sn] \in Task
    BY DEF Task
  <2> QED BY <2>1, <2>2
<1> DEFINE t == [Idle EXCEPT !.pc = step, !.kind = kind, !.call = c]
<1>4. t \in Task
  BY <1>1, <1>2
<1>5. /\ [t EXCEPT !.sess = s, !.seen = SnapshotOf(c), !.to = to] \in Task
      /\ [t EXCEPT !.sess = s, !.old = old, !.seen = SnapshotOf(c)] \in Task
  <2> HIDE DEF t
  <2> QED BY <1>1, <1>3, <1>4
<1> QED BY <1>4, <1>5 DEF Idle

(* A request starts. *)
LEMMA RequestType ==
  ASSUME NEW s \in Sessions \cup {None}, NEW to \in Users \cup {None}, NEW rid \in RequestIds \cup {None}
  PROVE  [Idle EXCEPT !.pc = "checkBusy", !.kind = "request",
                      !.sess = s, !.from = s, !.to = to, !.rid = rid] \in Task
<1>1. "checkBusy" \in Steps /\ "request" \in Signals \cup {"none", "request", "register", "sweep"}
  BY DEF Steps
<1> QED BY <1>1, IdleType DEF Task

(* The other party's call is requested. *)
LEMMA TransferTaskType ==
  ASSUME NEW t \in Task, NEW from \in Sessions \cup {None}, NEW to \in Users \cup {None},
         NEW c \in Calls \cup {None}, NEW step \in Steps
  PROVE  [t EXCEPT !.pc = step, !.from = from, !.to = to, !.parent = c] \in Task
  BY DEF Task

(* A task that has created its call has notices to send about it. *)
LEMMA CreatedTaskType ==
  ASSUME NEW t \in Task, NEW c \in Calls \cup {None}, NEW step \in Steps,
         NEW say \in {"none", "new", "accepted", "active", "hangup"}, NEW todo \in Seq(Roles)
  PROVE  [t EXCEPT !.pc = step, !.say = say, !.call = c, !.todo = todo] \in Task
  BY DEF Task

(* Every step leaves every task well-typed. *)
LEMMA TasksType ==
  ASSUME TypeOK, IInv, Next
  PROVE  tasks' \in [Tasks -> Task]
<1> USE DEF IInv, Steps
<1>1. ASSUME NEW h \in Tasks, NEW c \in Calls, NEW s \in Sessions, NEW k \in SentSignals,
             NEW to \in TransferTargets \cup {None}, ReceiveSignal(h, c, s, k, to)
      PROVE  tasks' \in [Tasks -> Task]
  <2>1. k \in Signals \cup {"none", "request", "register", "sweep"} /\ to \in Users \cup {None}
    BY Environment DEF Environment
  <2>2. [Idle EXCEPT !.pc = "renew", !.kind = k, !.call = c, !.sess = s,
                     !.seen = SnapshotOf(c), !.to = to] \in Task
    BY <2>1, ReaderType
  <2> QED BY <1>1, <2>2, MoveType DEF ReceiveSignal
<1>2. ASSUME NEW h \in Tasks, Renew(h) PROVE tasks' \in [Tasks -> Task]
  BY <1>2, GotoType DEF Renew
<1>3. ASSUME NEW h \in Tasks, \/ Ignore(h) \/ StartRinging(h) \/ FailCreation(h)
                             \/ RecordPrevented(h) \/ Crash(h)
      PROVE  tasks' \in [Tasks -> Task]
  BY <1>3, FinishType DEF Ignore, StartRinging, FailCreation, RecordPrevented, Crash, RejectRequest
<1>4. ASSUME NEW h \in Tasks, AcceptCall(h) PROVE tasks' \in [Tasks -> Task]
  <2>1. <<"callee", "caller">> \in Seq(Roles)
    BY DEF Roles
  <2> QED BY <1>4, <2>1, AnnounceType, FinishType DEF AcceptCall
<1>5. ASSUME NEW h \in Tasks, Activate(h) PROVE tasks' \in [Tasks -> Task]
  <2>1. <<Opposite(MyRole(h))>> \in Seq(Roles)
    BY DEF Roles, Opposite
  <2> QED BY <1>5, <2>1, AnnounceType, FinishType DEF Activate
<1>6. ASSUME NEW h \in Tasks, FlagTransfer(h) PROVE tasks' \in [Tasks -> Task]
  BY <1>6, GotoType, FinishType DEF FlagTransfer
<1>7. ASSUME NEW h \in Tasks, EndBySignal(h) \/ EndExpired(h) PROVE tasks' \in [Tasks -> Task]
  BY <1>7, ReadCall, EndCallType DEF EndBySignal, EndExpired, At
<1>8. ASSUME NEW h \in Tasks, CheckBusy(h) \/ CheckCaller(h) \/ CheckCallee(h)
      PROVE  tasks' \in [Tasks -> Task]
  BY <1>8, GotoType, FinishType DEF CheckBusy, CheckCaller, CheckCallee, RejectRequest
<1>9. ASSUME NEW h \in Tasks, NEW c \in Calls, CreateCall(h, c) PROVE tasks' \in [Tasks -> Task]
  <2>1. tasks[h] \in Task /\ <<"caller", "callee">> \in Seq(Roles)
    BY DEF Roles, TypeOK
  <2>2. [tasks[h] EXCEPT !.pc = "tell", !.say = "new", !.call = c,
                         !.todo = <<"caller", "callee">>] \in Task
    BY <2>1, CreatedTaskType
  <2> QED BY <1>9, <2>2, MoveType DEF CreateCall
<1>10. ASSUME NEW h \in Tasks, NEW c \in Calls, PreventCall(h, c) PROVE tasks' \in [Tasks -> Task]
  <2>1. tasks[h] \in Task
    BY DEF TypeOK
  <2>2. [tasks[h] EXCEPT !.pc = "recordPrevented", !.call = c] \in Task
    BY <2>1, CallTaskType
  <2> QED BY <1>10, <2>2, MoveType DEF PreventCall
<1>11. ASSUME NEW h \in Tasks, RequestTransfer(h) PROVE tasks' \in [Tasks -> Task]
  <2> DEFINE c == tasks[h].call
             from == IF MyRole(h) = "callee" THEN calls[c].callerContract ELSE calls[c].contract
  <2>1. tasks[h] \in Task /\ c \in Calls
    BY <1>11, ReadCall DEF RequestTransfer, At, TypeOK
  <2>2. from \in Sessions \cup {None} /\ calls[c].transferredTo \in Users \cup {None}
    BY <2>1 DEF TypeOK, CallDoc
  <2>3. [tasks[h] EXCEPT !.pc = "checkCaller", !.from = from,
                         !.to = calls[c].transferredTo, !.parent = c] \in Task
    <3> HIDE DEF from, c
    <3> QED BY <2>1, <2>2, TransferTaskType
  <2> QED BY <1>11, <2>3, MoveType, FinishType DEF RequestTransfer
<1>12. ASSUME NEW h \in Tasks, EndTransferred(h) PROVE tasks' \in [Tasks -> Task]
  <2>1. tasks[h].parent \in Calls
    BY <1>12 DEF EndTransferred, At, TasksInv, CreatorInv, TypeOK, Task
  <2> QED BY <1>12, <2>1, EndCallType, FinishType DEF EndTransferred
<1>13. ASSUME NEW h \in Tasks, React(h) PROVE tasks' \in [Tasks -> Task]
  BY <1>13, ReadCall, EndCallType, FinishType DEF React, At
<1>14. ASSUME NEW h \in Tasks, Record(h) PROVE tasks' \in [Tasks -> Task]
  <2>1. PICK first \in (IF tasks[h].kind \in EndingSignals THEN {MyRole(h)} ELSE Roles) :
          Announce(h, "hangup", <<first, Opposite(first)>>)
    BY <1>14 DEF Record
  <2>2. <<first, Opposite(first)>> \in Seq(Roles)
    BY DEF Roles, Opposite, MyRole, RoleOf
  <2> QED BY <2>1, <2>2, AnnounceType
<1>15. ASSUME NEW h \in Tasks, Tell(h) PROVE tasks' \in [Tasks -> Task]
  <2>1. CASE Len(tasks[h].todo) > 1 /\ Announce(h, tasks[h].say, Tail(tasks[h].todo))
    <3>1. tasks[h].todo \in Seq(Roles) /\ tasks[h].todo # << >>
      BY <2>1 DEF TypeOK, Task
    <3>2. Tail(tasks[h].todo) \in Seq(Roles)
      BY <3>1
    <3>3. tasks[h].say \in {"none", "new", "accepted", "active", "hangup"}
      BY DEF TypeOK, Task
    <3> QED BY <2>1, <3>2, <3>3, AnnounceType
  <2>2. CASE Goto(h, "endParent") \/ Finish(h)
    BY <2>2, GotoType, FinishType
  <2> QED BY <1>15, <2>1, <2>2 DEF Tell
<1>16. ASSUME NEW r \in SentRequests, NEW h \in Tasks, RequestCall(h, r.from, r.to, r.rid)
       PROVE  tasks' \in [Tasks -> Task]
  <2>1. r.from \in Sessions /\ r.to \in Users /\ r.rid \in RequestIds
    BY Environment DEF Environment
  <2>2. [Idle EXCEPT !.pc = "checkBusy", !.kind = "request",
                     !.sess = r.from, !.from = r.from, !.to = r.to, !.rid = r.rid] \in Task
    BY <2>1, RequestType
  <2> QED BY <1>16, <2>2, MoveType DEF RequestCall
<1>17. ASSUME NEW h \in Tasks, NEW c \in Calls, NEW r \in Registrations, Register(h, c, r[1], r[2])
       PROVE  tasks' \in [Tasks -> Task]
  <2>1. r[1] \in Sessions /\ r[2] \in Sessions \cup {None}
    BY Environment DEF Environment
  <2>2. [Idle EXCEPT !.pc = "react", !.kind = "register", !.call = c, !.sess = r[1],
                     !.old = r[2], !.seen = SnapshotOf(c)] \in Task
    BY <2>1, ReaderType
  <2> QED BY <1>17, <2>2, MoveType DEF Register
<1>18. ASSUME NEW h \in Tasks, NEW c \in Calls, FindExpired(h, c) PROVE tasks' \in [Tasks -> Task]
  <2>1. [Idle EXCEPT !.pc = "expire", !.kind = "sweep", !.call = c] \in Task
    BY ReaderType
  <2> QED BY <1>18, <2>1, MoveType DEF FindExpired
<1>19. CASE UNCHANGED tasks
  BY <1>19 DEF TypeOK
<1> QED
  BY <1>1, <1>2, <1>3, <1>4, <1>5, <1>6, <1>7, <1>8, <1>9, <1>10, <1>11, <1>12, <1>13, <1>14,
     <1>15, <1>16, <1>17, <1>18, <1>19, Environment
  DEF Environment, Next, Stimulus, Begin, Continue, Act, Creation, RepeatRequest, Expire
-----------------------------------------------------------------------------
(* What the tasks rely on                                                  *)

TaskInv(h) == ReaderInv(tasks[h]) /\ CreatorInv(tasks[h]) /\ TellerInv(tasks[h])

(* Whatever happens to the records, a task that does not move keeps what   *)
(* it relies on.                                                           *)
LEMMA OthersKept ==
  ASSUME TypeOK, TasksInv, CallsOK, NEW g \in Tasks, tasks'[g] = tasks[g]
  PROVE  TaskInv(g)'
<1>1. tasks[g] \in Task /\ ReaderInv(tasks[g]) /\ CreatorInv(tasks[g]) /\ TellerInv(tasks[g])
  BY DEF TypeOK, TasksInv
<1>2. tasks[g].call \in Calls \cup {None}
  BY <1>1 DEF Task
<1>3. ReaderInv(tasks[g])'
  BY <1>1, <1>2 DEF ReaderInv, CallsOK, Evolves, Exists, TakesPart
<1>4. CreatorInv(tasks[g])'
  BY <1>1 DEF CreatorInv
<1>5. TellerInv(tasks[g])'
  BY <1>1, <1>2 DEF TellerInv, ReaderInv, CallsOK, Evolves
<1> QED BY <1>3, <1>4, <1>5 DEF TaskInv

(* A step of one task is left with that task to answer for. *)
LEMMA MoverSuffices ==
  ASSUME TypeOK, TasksInv, CallsOK, NEW h \in Tasks, NEW t, Move(h, t), TaskInv(h)'
  PROVE  TasksInv'
<1>1. \A g \in Tasks \ {h} : tasks'[g] = tasks[g]
  BY DEF Move, TypeOK
<1>2. \A g \in Tasks : TaskInv(g)'
  BY <1>1, OthersKept
<1> QED BY <1>2 DEF TasksInv, TaskInv

(* The task that moves becomes what it moves to. *)
LEMMA Moved ==
  ASSUME TypeOK, NEW h \in Tasks, NEW t, Move(h, t)
  PROVE  tasks'[h] = t
  BY DEF Move, TypeOK

(* A task that finishes relies on nothing. *)
LEMMA FinishOK ==
  ASSUME TypeOK, TasksInv, CallsOK, NEW h \in Tasks, Finish(h)
  PROVE  TasksInv'
<1>1. tasks'[h] = Idle
  BY Moved DEF Finish
<1>2. TaskInv(h)'
  BY <1>1 DEF TaskInv, Idle, ReaderInv, CreatorInv, TellerInv
<1> QED BY <1>2, MoverSuffices DEF Finish

(* Moving on keeps everything a task knows but its place. *)
LEMMA GotoFields ==
  ASSUME TypeOK, NEW h \in Tasks, NEW step, Goto(h, step)
  PROVE  /\ tasks'[h].pc = step /\ tasks'[h].kind = tasks[h].kind
         /\ tasks'[h].call = tasks[h].call /\ tasks'[h].sess = tasks[h].sess
         /\ tasks'[h].seen = tasks[h].seen /\ tasks'[h].from = tasks[h].from
         /\ tasks'[h].to = tasks[h].to /\ tasks'[h].rid = tasks[h].rid
         /\ tasks'[h].parent = tasks[h].parent
<1>1. tasks[h] \in Task
  BY DEF TypeOK
<1>2. tasks'[h] = [tasks[h] EXCEPT !.pc = step]
  BY Moved DEF Goto
<1> QED BY <1>1, <1>2 DEF Task

(* So does having notices to send. *)
LEMMA AnnounceFields ==
  ASSUME TypeOK, NEW h \in Tasks, NEW say, NEW todo, Announce(h, say, todo)
  PROVE  /\ tasks'[h].pc = "tell" /\ tasks'[h].say = say /\ tasks'[h].todo = todo
         /\ tasks'[h].call = tasks[h].call /\ tasks'[h].sess = tasks[h].sess
         /\ tasks'[h].kind = tasks[h].kind /\ tasks'[h].parent = tasks[h].parent
<1>1. tasks[h] \in Task
  BY DEF TypeOK
<1>2. tasks'[h] = [tasks[h] EXCEPT !.pc = "tell", !.say = say, !.todo = todo]
  BY Moved DEF Announce
<1> QED BY <1>1, <1>2 DEF Task

(* A record that existed still does, with the same parties and signature. *)
LEMMA StillThere ==
  ASSUME CallsOK, NEW c \in Calls, Exists(c)
  PROVE  /\ Exists(c)'
         /\ calls[c].ended => calls'[c].ended
         /\ calls'[c].caller = calls[c].caller /\ calls'[c].callee = calls[c].callee
         /\ calls'[c].callerContract = calls[c].callerContract
         /\ calls[c].contract # None => calls'[c].contract = calls[c].contract
         /\ calls[c].transferredBy # None => calls'[c].transferredBy # None
  BY DEF CallsOK, Evolves, Exists

(* A task that tells something about a call that exists. *)
LEMMA AnnounceOK ==
  ASSUME TypeOK, TasksInv, CallsOK, NEW h \in Tasks, NEW say, NEW todo, Announce(h, say, todo),
         say # "none", todo # << >>, tasks[h].call \in Calls, calls'[tasks[h].call].state # "absent",
         say = "accepted" => tasks[h].sess # None /\ calls'[tasks[h].call].contract = tasks[h].sess,
         say = "hangup" => calls'[tasks[h].call].ended
  PROVE  TasksInv'
<1>1. TaskInv(h)'
  BY AnnounceFields, NoneIsFresh DEF NoneIsFresh, TaskInv, ReaderInv, CreatorInv, TellerInv, Exists
<1> QED BY <1>1, MoverSuffices DEF Announce

(* Whoever ends a call goes on to report it. *)
LEMMA EndCallTasks ==
  ASSUME TypeOK, TasksInv, CallsOK, NEW h \in Tasks, NEW c \in Calls, Exists(c),
         NEW by, NEW reason, EndCall(h, c, by, reason)
  PROVE  TasksInv'
<1>1. CASE Move(h, [tasks[h] EXCEPT !.pc = "record", !.call = c])
  <2>1. tasks[h] \in Task /\ Exists(c)' /\ c # None
    BY StillThere, NoneIsFresh DEF NoneIsFresh, TypeOK
  <2>2. tasks'[h].pc = "record" /\ tasks'[h].call = c
    BY <1>1, <2>1, Moved DEF Task
  <2>3. TaskInv(h)'
    BY <2>1, <2>2 DEF TaskInv, ReaderInv, CreatorInv, TellerInv, Exists
  <2> QED BY <1>1, <2>3, MoverSuffices
<1>2. CASE Finish(h)
  BY <1>2, FinishOK
<1> QED BY <1>1, <1>2 DEF EndCall

(* What a task reads of a record is so. *)
LEMMA SnapshotOK ==
  ASSUME TypeOK, RecordsInv, CallsOK, NEW c \in Calls, NEW u, TakesPart(c, u)
  PROVE  /\ c # None /\ Exists(c)' /\ TakesPart(c, u)'
         /\ SnapshotOf(c).contract # None => calls'[c].contract = SnapshotOf(c).contract
         /\ SnapshotOf(c).state \in Busy => SnapshotOf(c).contract # None
<1>1. Exists(c) /\ c # None /\ RecordInv(calls[c])
  BY NoneIsFresh DEF NoneIsFresh, TakesPart, RecordsInv
<1>2. /\ SnapshotOf(c).contract # None => calls'[c].contract = SnapshotOf(c).contract
      /\ SnapshotOf(c).state \in Busy => SnapshotOf(c).contract # None
  BY <1>1, StillThere DEF SnapshotOf, RecordInv
<1> QED BY <1>1, <1>2, StillThere DEF TakesPart

(* Of two notices to send, one is left after the first. *)
LEMMA LongTail ==
  ASSUME NEW q \in Seq(Roles), Len(q) > 1
  PROVE  Tail(q) # << >>
<1>1. Len(q) \in Nat /\ Len(Tail(q)) = Len(q) - 1
  OBVIOUS
<1>2. Len(Tail(q)) # 0
  <2> DEFINE n == Len(q)
             m == Len(Tail(q))
  <2>1. n \in Nat /\ n > 1 /\ m = n - 1
    BY <1>1
  <2> HIDE DEF n, m
  <2>2. m # 0
    BY <2>1
  <2> QED BY <2>2 DEF m
<1>3. Len(<< >>) = 0
  OBVIOUS
<1> QED BY <1>2, <1>3

(* Every step leaves every task with what it relies on. *)
LEMMA TasksStep ==
  ASSUME TypeOK, IInv, Next
  PROVE  TasksInv'
<1>0. CallsOK /\ RecordsInv /\ TasksInv /\ ReportsInv
  BY CallsStep DEF IInv
<1>1. ASSUME NEW h \in Tasks, NEW c \in Calls, NEW s \in Sessions, NEW k \in SentSignals,
             NEW to \in TransferTargets \cup {None}, ReceiveSignal(h, c, s, k, to)
      PROVE  TasksInv'
  <2> DEFINE t == [Idle EXCEPT !.pc = "renew", !.kind = k, !.call = c, !.sess = s,
                               !.seen = SnapshotOf(c), !.to = to]
  <2>1. Move(h, t) /\ TakesPart(c, UserOf[s]) /\ (k = "transfer" => to # None)
    BY <1>1 DEF ReceiveSignal
  <2>2. tasks'[h] = t
    BY <2>1, Moved
  <2>3. s # None
    BY NoneIsFresh DEF NoneIsFresh
  <2>4. TaskInv(h)'
    BY <1>0, <2>1, <2>2, <2>3, SnapshotOK DEF TaskInv, Idle, ReaderInv, CreatorInv, TellerInv
  <2> QED BY <1>0, <2>1, <2>4, MoverSuffices
<1>2. ASSUME NEW h \in Tasks, Renew(h) PROVE TasksInv'
  <2>1. Goto(h, "act") /\ tasks[h].pc = "renew"
    BY <1>2 DEF Renew, At
  <2>2. ReaderInv(tasks[h]) /\ tasks[h].call \in Calls /\ Exists(tasks[h].call)
    BY <1>0, <2>1, ReadCall DEF TasksInv
  <2>3. TaskInv(h)'
    BY <1>0, <2>1, <2>2, GotoFields, StillThere
       DEF TaskInv, ReaderInv, CreatorInv, TellerInv, TakesPart
  <2> QED BY <1>0, <2>1, <2>3, MoverSuffices DEF Goto
<1>3. ASSUME NEW h \in Tasks, Finish(h) PROVE TasksInv'
  BY <1>0, <1>3, FinishOK
<1>4. ASSUME NEW h \in Tasks, AcceptCall(h) PROVE TasksInv'
  <2> DEFINE c == tasks[h].call
  <2>1. c \in Calls /\ calls'[c].state # "absent" /\ tasks[h].sess \in Sessions /\ tasks[h].sess # None
    BY <1>0, <1>4, ReadCall, Sender, StillThere, NoneIsFresh DEF NoneIsFresh, AcceptCall, At, Exists
  <2>2. CASE Write(c, Accepted(calls[c], tasks[h].sess)) /\ Announce(h, "accepted", <<"callee", "caller">>)
    <3>1. calls'[c].contract = tasks[h].sess
      BY <2>1, <2>2 DEF Write, Accepted, TypeOK, CallDoc
    <3> QED BY <1>0, <2>1, <2>2, <3>1, AnnounceOK
  <2> QED BY <1>3, <1>4, <2>2 DEF AcceptCall
<1>5. ASSUME NEW h \in Tasks, Activate(h) PROVE TasksInv'
  <2>1. tasks[h].call \in Calls /\ calls'[tasks[h].call].state # "absent"
    BY <1>0, <1>5, ReadCall, StillThere DEF Activate, At, Exists
  <2>2. CASE Announce(h, "active", <<Opposite(MyRole(h))>>)
    BY <1>0, <2>1, <2>2, AnnounceOK
  <2> QED BY <1>3, <1>5, <2>2 DEF Activate
<1>6. ASSUME NEW h \in Tasks, FlagTransfer(h) PROVE TasksInv'
  <2> DEFINE c == tasks[h].call
  <2>1. /\ c \in Calls /\ Exists(c) /\ tasks[h].sess # None /\ c # None
        /\ TakesPart(c, UserOf[tasks[h].sess])
    BY <1>0, <1>6, ReadCall, Sender, NoneIsFresh DEF NoneIsFresh, FlagTransfer, At
  <2>2. CASE Write(c, Transferred(calls[c], tasks[h].sess, tasks[h].to)) /\ Goto(h, "retrace")
    <3>1. calls'[c].transferredBy # None
      BY <2>1, <2>2 DEF Write, Transferred, TypeOK, CallDoc
    <3>2. TaskInv(h)'
      BY <1>0, <2>1, <2>2, <3>1, GotoFields, StillThere
         DEF TaskInv, ReaderInv, CreatorInv, TellerInv, TakesPart
    <3> QED BY <1>0, <2>2, <3>2, MoverSuffices DEF Goto
  <2> QED BY <1>3, <1>6, <2>2 DEF FlagTransfer
<1>7. ASSUME NEW h \in Tasks, EndBySignal(h) \/ EndExpired(h) PROVE TasksInv'
  BY <1>0, <1>7, ReadCall, EndCallTasks DEF EndBySignal, EndExpired, At
<1>8. ASSUME NEW h \in Tasks, EndTransferred(h) PROVE TasksInv'
  <2> DEFINE c == tasks[h].parent
  <2>1. c \in Calls
    BY <1>0, <1>8 DEF EndTransferred, At, TasksInv, CreatorInv, TypeOK, Task
  <2>2. CASE calls[c].transferredBy # None /\ EndCall(h, c, UserOf[calls[c].transferredBy], "transfer")
    <3>1. Exists(c)
      BY <1>0, <2>1, <2>2 DEF RecordsInv, RecordInv, Exists, NoCall
    <3> QED BY <1>0, <2>1, <2>2, <3>1, EndCallTasks
  <2> QED BY <1>3, <1>8, <2>2 DEF EndTransferred
<1>9. ASSUME NEW h \in Tasks, React(h) PROVE TasksInv'
  BY <1>0, <1>3, <1>9, ReadCall, EndCallTasks DEF React, At
<1>10. ASSUME NEW h \in Tasks, CheckBusy(h) \/ CheckCaller(h) \/ CheckCallee(h) PROVE TasksInv'
  <2>1. /\ CreatorInv(tasks[h])
        /\ At(h, "checkBusy") \/ At(h, "checkCaller") \/ At(h, "checkCallee")
    BY <1>0, <1>10 DEF TasksInv, CheckBusy, CheckCaller, CheckCallee
  <2>2. ASSUME NEW step \in {"checkCaller", "checkCallee", "create"}, Goto(h, step),
               CreatorInv(tasks[h]),
               At(h, "checkBusy") \/ At(h, "checkCaller") \/ At(h, "checkCallee"),
               step # "checkCaller" => UserOf[tasks[h].from] # tasks[h].to
        PROVE  TasksInv'
    <3>1. TaskInv(h)'
      BY <1>0, <2>2, GotoFields DEF TaskInv, ReaderInv, CreatorInv, TellerInv, At
    <3> QED BY <1>0, <2>2, <3>1, MoverSuffices DEF Goto
  <2>3. CASE CheckBusy(h)
    BY <1>0, <1>3, <2>2, <2>3 DEF CheckBusy, RejectRequest, TasksInv
  <2>4. CASE CheckCaller(h)
    BY <1>0, <1>3, <2>2, <2>4 DEF CheckCaller, RejectRequest, TasksInv
  <2>5. CASE CheckCallee(h)
    <3>1. At(h, "checkCallee") => UserOf[tasks[h].from] # tasks[h].to
      BY <1>0 DEF At, TasksInv, CreatorInv
    <3> QED BY <1>0, <1>3, <2>2, <2>5, <3>1 DEF CheckCallee, RejectRequest, TasksInv
  <2> QED BY <1>10, <2>3, <2>4, <2>5
<1>11. ASSUME NEW h \in Tasks, NEW c \in Calls, CreateCall(h, c) PROVE TasksInv'
  <2>1. /\ tasks[h] \in Task /\ tasks[h].from # None /\ tasks[h].to # None
        /\ UserOf[tasks[h].from] # tasks[h].to /\ c # None
    BY <1>0, <1>11, NoneIsFresh DEF NoneIsFresh, CreateCall, At, TasksInv, CreatorInv, TypeOK
  <2>2. Exists(c)'
    BY <1>11, <2>1, NewIsProper DEF CreateCall, Write, TypeOK, Exists
  <2>3. Move(h, [tasks[h] EXCEPT !.pc = "tell", !.say = "new", !.call = c,
                                 !.todo = <<"caller", "callee">>])
    BY <1>11 DEF CreateCall
  <2>4. /\ tasks'[h].pc = "tell" /\ tasks'[h].say = "new" /\ tasks'[h].call = c
        /\ tasks'[h].todo = <<"caller", "callee">>
    BY <2>1, <2>3, Moved DEF Task
  <2>5. TaskInv(h)'
    BY <2>1, <2>2, <2>4 DEF TaskInv, ReaderInv, CreatorInv, TellerInv, Exists
  <2> QED BY <1>0, <2>3, <2>5, MoverSuffices
<1>12. ASSUME NEW h \in Tasks, NEW c \in Calls, PreventCall(h, c) PROVE TasksInv'
  <2>1. /\ tasks[h] \in Task /\ tasks[h].from # None /\ tasks[h].to # None
        /\ UserOf[tasks[h].from] # tasks[h].to /\ tasks[h].sess # None /\ c # None
        /\ tasks[h].rid # None \/ tasks[h].parent # None
    BY <1>0, <1>12, NoneIsFresh DEF NoneIsFresh, PreventCall, At, TasksInv, CreatorInv, TypeOK
  <2>2. Exists(c)'
    BY <1>12, <2>1, NewIsProper DEF PreventCall, Write, TypeOK, Exists
  <2>3. Move(h, [tasks[h] EXCEPT !.pc = "recordPrevented", !.call = c])
    BY <1>12 DEF PreventCall
  <2>4. /\ tasks'[h].pc = "recordPrevented" /\ tasks'[h].call = c
        /\ tasks'[h].sess = tasks[h].sess /\ tasks'[h].from = tasks[h].from
        /\ tasks'[h].to = tasks[h].to /\ tasks'[h].rid = tasks[h].rid
        /\ tasks'[h].parent = tasks[h].parent
    BY <2>1, <2>3, Moved DEF Task
  <2>5. TaskInv(h)'
    BY <2>1, <2>2, <2>4 DEF TaskInv, ReaderInv, CreatorInv, TellerInv, Exists
  <2> QED BY <1>0, <2>3, <2>5, MoverSuffices
<1>13. ASSUME NEW h \in Tasks, RequestTransfer(h) PROVE TasksInv'
  <2> DEFINE c == tasks[h].call
             from == IF MyRole(h) = "callee" THEN calls[c].callerContract ELSE calls[c].contract
             t == [tasks[h] EXCEPT !.pc = "checkCaller", !.from = from,
                                   !.to = calls[c].transferredTo, !.parent = c]
  <2>1. /\ c \in Calls /\ tasks[h] \in Task /\ c # None /\ tasks[h].sess # None
        /\ calls[c].transferredTo # None
    BY <1>0, <1>13, ReadCall, Sender, NoneIsFresh
       DEF NoneIsFresh, RequestTransfer, At, TasksInv, ReaderInv, TypeOK, RecordsInv, RecordInv
  <2>2. CASE from # None /\ Move(h, t)
    <3>1. /\ tasks'[h].pc = "checkCaller" /\ tasks'[h].from # None /\ tasks'[h].to # None
          /\ tasks'[h].parent # None /\ tasks'[h].sess # None
      <4>1. tasks'[h] = t
        BY <2>2, Moved
      <4> HIDE DEF from, c
      <4> QED BY <2>1, <2>2, <4>1 DEF Task
    <3>2. TaskInv(h)'
      BY <3>1 DEF TaskInv, ReaderInv, CreatorInv, TellerInv
    <3> QED BY <1>0, <2>2, <3>2, MoverSuffices
  <2> QED BY <1>3, <1>13, <2>2 DEF RequestTransfer
<1>14. ASSUME NEW h \in Tasks, Record(h) PROVE TasksInv'
  <2> DEFINE c == tasks[h].call
  <2>1. c \in Calls /\ calls'[c].state # "absent"
    BY <1>0, <1>14, ReadCall, StillThere DEF Record, At, Exists
  <2>2. calls'[c].ended
    BY <1>0, <1>14, <2>1, ReadCall, StillThere DEF Record, At, ReportsInv, ReporterInv, Reports
  <2>3. PICK first \in (IF tasks[h].kind \in EndingSignals THEN {MyRole(h)} ELSE Roles) :
          Announce(h, "hangup", <<first, Opposite(first)>>)
    BY <1>14 DEF Record
  <2> QED BY <1>0, <2>1, <2>2, <2>3, AnnounceOK
<1>15. ASSUME NEW h \in Tasks, Tell(h) PROVE TasksInv'
  <2> DEFINE c == tasks[h].call
  <2>1. /\ c \in Calls /\ Exists(c) /\ calls'[c].state # "absent" /\ tasks[h].pc = "tell"
        /\ TellerInv(tasks[h]) /\ tasks[h].say # "none"
    BY <1>0, <1>15, ReadCall, StillThere DEF Tell, At, TasksInv, TellerInv, Exists
  <2>2. CASE Len(tasks[h].todo) > 1 /\ Announce(h, tasks[h].say, Tail(tasks[h].todo))
    <3>1. Tail(tasks[h].todo) # << >>
      BY <2>2, LongTail DEF TypeOK, Task
    <3>2. /\ tasks[h].say = "accepted" => tasks[h].sess # None /\ calls'[c].contract = tasks[h].sess
          /\ tasks[h].say = "hangup" => calls'[c].ended
      BY <1>0, <2>1, StillThere DEF TellerInv
    <3> QED BY <1>0, <2>1, <2>2, <3>1, <3>2, AnnounceOK
  <2>3. CASE ReplacesParent(h) /\ Goto(h, "endParent")
    <3>1. TaskInv(h)'
      BY <2>3, GotoFields DEF ReplacesParent, TaskInv, ReaderInv, CreatorInv, TellerInv
    <3> QED BY <1>0, <2>3, <3>1, MoverSuffices DEF Goto
  <2> QED BY <1>3, <1>15, <2>2, <2>3 DEF Tell
<1>16. ASSUME NEW r \in SentRequests, NEW h \in Tasks, RequestCall(h, r.from, r.to, r.rid)
       PROVE  TasksInv'
  <2> DEFINE t == [Idle EXCEPT !.pc = "checkBusy", !.kind = "request",
                               !.sess = r.from, !.from = r.from, !.to = r.to, !.rid = r.rid]
  <2>1. r.from # None /\ r.to # None /\ r.rid # None
    BY Environment, NoneIsFresh DEF Environment, NoneIsFresh
  <2>2. Move(h, t) /\ tasks'[h] = t
    BY <1>16, Moved DEF RequestCall
  <2>3. TaskInv(h)'
    BY <2>1, <2>2 DEF TaskInv, Idle, ReaderInv, CreatorInv, TellerInv
  <2> QED BY <1>0, <2>2, <2>3, MoverSuffices
<1>17. ASSUME NEW h \in Tasks, NEW c \in Calls, NEW r \in Registrations, Register(h, c, r[1], r[2])
       PROVE  TasksInv'
  <2> DEFINE t == [Idle EXCEPT !.pc = "react", !.kind = "register", !.call = c,
                               !.sess = r[1], !.old = r[2], !.seen = SnapshotOf(c)]
  <2>1. Move(h, t) /\ tasks'[h] = t /\ TakesPart(c, UserOf[r[1]])
    BY <1>17, Moved DEF Register
  <2>2. r[1] # None
    BY Environment, NoneIsFresh DEF Environment, NoneIsFresh
  <2>3. TaskInv(h)'
    BY <1>0, <2>1, <2>2, SnapshotOK DEF TaskInv, Idle, ReaderInv, CreatorInv, TellerInv
  <2> QED BY <1>0, <2>1, <2>3, MoverSuffices
<1>18. ASSUME NEW h \in Tasks, NEW c \in Calls, FindExpired(h, c) PROVE TasksInv'
  <2> DEFINE t == [Idle EXCEPT !.pc = "expire", !.kind = "sweep", !.call = c]
  <2>1. Move(h, t) /\ tasks'[h] = t /\ Exists(c)' /\ c # None
    BY <1>0, <1>18, Moved, StillThere, NoneIsFresh DEF NoneIsFresh, FindExpired, Unfinished
  <2>2. TaskInv(h)'
    BY <2>1 DEF TaskInv, Idle, ReaderInv, CreatorInv, TellerInv
  <2> QED BY <1>0, <2>1, <2>2, MoverSuffices
<1>19. CASE UNCHANGED tasks
  BY <1>0, <1>19, OthersKept DEF TasksInv, TaskInv
<1> QED
  BY <1>1, <1>2, <1>3, <1>4, <1>5, <1>6, <1>7, <1>8, <1>9, <1>10, <1>11, <1>12, <1>13, <1>14,
     <1>15, <1>16, <1>17, <1>18, <1>19, Environment
  DEF Environment, Next, Stimulus, Begin, Continue, Act, Creation, RepeatRequest, Expire,
      Ignore, StartRinging, FailCreation, RecordPrevented, Crash, RejectRequest
-----------------------------------------------------------------------------
(* The notices                                                             *)

(* Old notices stay true; a step has the new ones to answer for. *)
LEMMA NoticesSuffice ==
  ASSUME TypeOK, NoticesInv, CallsOK, NEW new \in SUBSET Notice, notices' = notices \cup new,
         \A n \in new : NoticeInv(n)'
  PROVE  notices' \subseteq Notice /\ NoticesInv'
<1>1. ASSUME NEW n \in notices PROVE NoticeInv(n)'
  <2>1. n \in Notice /\ NoticeInv(n)
    BY DEF TypeOK, NoticesInv
  <2> QED BY <2>1 DEF NoticeInv, CallsOK, Evolves, Exists
<1>2. notices' \subseteq Notice
  BY DEF TypeOK
<1> QED BY <1>1, <1>2 DEF NoticesInv

(* One new notice *)
LEMMA OneNotice ==
  ASSUME TypeOK, NoticesInv, CallsOK, NEW n \in Notice, notices' = notices \cup {n}, NoticeInv(n)'
  PROVE  notices' \subseteq Notice /\ NoticesInv'
<1>1. {n} \in SUBSET Notice
  OBVIOUS
<1>2. \A m \in {n} : NoticeInv(m)'
  OBVIOUS
<1> QED BY <1>1, <1>2, NoticesSuffice

(* So nothing is left to show where nobody is told anything. *)
LEMMA NoNotice ==
  ASSUME TypeOK, NoticesInv, CallsOK, UNCHANGED notices
  PROVE  notices' \subseteq Notice /\ NoticesInv'
BY NoticesSuffice, {} \in SUBSET Notice, notices' = notices \cup {}

(* The addressee of a notice about a record is a user. *)
LEMMA AddresseeType ==
  ASSUME TypeOK, RecordsInv, NEW c \in Calls, Exists(c), NEW role
  PROVE  UserIn(c, role) \in Users
BY SessionsBelongToUsers DEF SessionsBelongToUsers, TypeOK, CallDoc, RecordsInv, RecordInv, Exists, UserIn

(* Refusing a request tells nothing about a record. *)
LEMMA RejectOK ==
  ASSUME TypeOK, NoticesInv, TasksInv, CallsOK, NEW h \in Tasks, RejectRequest(h),
         tasks[h].pc \in {"checkBusy", "checkCaller", "checkCallee", "create", "recordPrevented"}
  PROVE  notices' \subseteq Notice /\ NoticesInv'
<1> DEFINE t == tasks[h]
<1>0. PICK n : n = [type |-> "rejected", call |-> IF t.rid # None THEN t.rid ELSE t.parent,
                    user |-> UserOf[t.sess], contract |-> t.sess]
  OBVIOUS
<1>1. t \in Task /\ t.sess # None /\ (t.rid # None \/ t.parent # None)
  BY DEF TypeOK, TasksInv, CreatorInv
<1>2. n \in Notice
  BY <1>0, <1>1, SessionsBelongToUsers DEF SessionsBelongToUsers, Task, Notice
<1>3. NoticeInv(n)'
  BY <1>0 DEF NoticeInv
<1>4. notices' = notices \cup {n}
  BY <1>0 DEF RejectRequest
<1> QED BY <1>2, <1>3, <1>4, OneNotice

(* Every notice that a step adds is true. *)
LEMMA NoticesStep ==
  ASSUME TypeOK, IInv, Next
  PROVE  notices' \subseteq Notice /\ NoticesInv'
<1>0. CallsOK /\ RecordsInv /\ TasksInv /\ NoticesInv
  BY CallsStep DEF IInv
<1>1. ASSUME NEW r \in SentRequests, NEW c \in Calls, RepeatRequest(r.from, r.rid, c)
      PROVE  notices' \subseteq Notice /\ NoticesInv'
  <2>0. PICK n : /\ notices' = notices \cup {n}
                 /\ \/ n = NoticeTo(c, "caller", "new", None)
                    \/ n = [type |-> "rejected", call |-> r.rid,
                            user |-> UserOf[r.from], contract |-> r.from]
    BY <1>1 DEF RepeatRequest
  <2>1. r.from \in Sessions /\ r.rid \in RequestIds /\ UserOf[r.from] \in Users
    BY Environment, SessionsBelongToUsers DEF Environment, SessionsBelongToUsers
  <2>2. n \in Notice
    BY <1>1, <2>0, <2>1 DEF RepeatRequest, NoticeTo, UserIn, Notice
  <2>3. NoticeInv(n)'
    BY <2>0 DEF NoticeInv, NoticeTo
  <2> QED BY <1>0, <2>0, <2>2, <2>3, OneNotice
<1>2. ASSUME NEW h \in Tasks, Tell(h)
      PROVE  notices' \subseteq Notice /\ NoticesInv'
  <2> DEFINE c == tasks[h].call
             role == Head(tasks[h].todo)
  <2>0. PICK n : n = NoticeTo(c, role, tasks[h].say, Named(h, role))
    OBVIOUS
  <2>1. /\ c \in Calls /\ Exists(c) /\ tasks[h] \in Task /\ TellerInv(tasks[h])
        /\ tasks[h].pc = "tell" /\ calls[c] \in CallDoc
    BY <1>0, <1>2, ReadCall DEF Tell, At, TypeOK, TasksInv
  <2>2. Named(h, role) \in Sessions \cup {None}
    BY <2>1 DEF Named, Task, CallDoc
  <2>3. tasks[h].say \in {"new", "accepted", "active", "hangup"}
    BY <2>1 DEF TellerInv, Task
  <2>4. UserIn(c, role) \in Users
    BY <1>0, <2>1, AddresseeType
  <2>5. n \in Notice
    BY <2>0, <2>1, <2>2, <2>3, <2>4 DEF NoticeTo, Notice
  <2>6. n.type = "accepted" /\ n.user = calls'[c].callee =>
          n.contract # None /\ n.contract = calls'[c].contract
    <3>1. calls'[c] = calls[c] /\ calls[c].caller # calls[c].callee
      BY <1>0, <1>2, <2>1 DEF Tell, RecordsInv, RecordInv, Exists
    <3>2. tasks[h].say = "accepted" => tasks[h].sess # None /\ calls[c].contract = tasks[h].sess
      BY <2>1 DEF TellerInv
    <3>3. role = "callee" \/ UserIn(c, role) = calls[c].caller \/ role \notin Roles
      BY DEF UserIn, Roles
    <3>4. role \in Roles
      BY <2>1 DEF Task, TellerInv
    <3> QED BY <2>0, <3>1, <3>2, <3>3, <3>4 DEF NoticeTo, Named
  <2>7. /\ n.call = c /\ n.type = tasks[h].say
        /\ calls'[c].state # "absent"
        /\ n.type = "hangup" => calls'[c].ended
    BY <1>2, <2>0, <2>1 DEF NoticeTo, Tell, TellerInv, Exists
  <2>8. NoticeInv(n)'
    <3> HIDE DEF c
    <3> QED BY <2>1, <2>6, <2>7 DEF NoticeInv, Exists
  <2>9. notices' = notices \cup {n}
    BY <1>2, <2>0 DEF Tell
  <2> QED BY <1>0, <2>5, <2>8, <2>9, OneNotice
<1>3. ASSUME NEW h \in Tasks, React(h)
      PROVE  notices' \subseteq Notice /\ NoticesInv'
  <2> DEFINE c == tasks[h].call
             role == MyRole(h)
  <2>1. /\ c \in Calls /\ Exists(c) /\ tasks[h] \in Task /\ ReaderInv(tasks[h])
        /\ tasks[h].pc = "react" /\ calls[c] \in CallDoc /\ RecordInv(calls[c])
    BY <1>0, <1>3, ReadCall DEF React, At, TypeOK, TasksInv, RecordsInv
  <2>2. ASSUME NEW n \in ExistingCallSignals(h) PROVE n \in Notice /\ NoticeInv(n)'
    <3>1. UserIn(c, role) \in Users /\ SeenContract(h, role) \in Sessions \cup {None}
      BY <1>0, <2>1, AddresseeType DEF SeenContract, Task, Snapshot, CallDoc
    <3>2. CASE n = NoticeTo(c, role, "new", None)
      BY <2>1, <3>1, <3>2 DEF NoticeTo, Notice, NoticeInv
    <3>3. CASE /\ tasks[h].seen.state \in Busy
               /\ n = NoticeTo(c, role, tasks[h].seen.state, SeenContract(h, role))
      <4>1. n \in Notice
        BY <2>1, <3>1, <3>3 DEF NoticeTo, Notice, Busy
      <4>2. /\ tasks[h].seen.contract # None
            /\ calls'[c].contract = tasks[h].seen.contract
        BY <1>0, <2>1, <3>3, StillThere DEF ReaderInv
      <4>3. /\ calls'[c].callee = calls[c].callee /\ calls'[c].state # "absent"
            /\ calls[c].caller # calls[c].callee
        BY <1>0, <2>1, StillThere DEF RecordInv, Exists
      <4>4. n.user = calls'[c].callee => role = "callee"
        BY <3>3, <4>3 DEF NoticeTo, UserIn, MyRole, RoleOf
      <4>5. n.user = calls'[c].callee => n.contract # None /\ n.contract = calls'[c].contract
        BY <3>3, <4>2, <4>4 DEF NoticeTo, SeenContract
      <4>6. n.call = c /\ n.type \in {"accepted", "active"}
        BY <3>3 DEF NoticeTo, Busy
      <4> HIDE DEF c
      <4> QED BY <2>1, <4>1, <4>3, <4>5, <4>6 DEF NoticeInv, Exists
    <3> QED BY <3>2, <3>3 DEF ExistingCallSignals
  <2>3. notices' = notices \/ notices' = notices \cup ExistingCallSignals(h)
    BY <1>3 DEF React
  <2> QED BY <1>0, <2>2, <2>3, NoNotice, NoticesSuffice
<1>4. ASSUME NEW h \in Tasks,
             \/ CheckBusy(h) \/ CheckCaller(h) \/ CheckCallee(h)
             \/ RecordPrevented(h) \/ FailCreation(h)
      PROVE  notices' \subseteq Notice /\ NoticesInv'
  BY <1>0, <1>4, RejectOK, NoNotice
     DEF CheckBusy, CheckCaller, CheckCallee, RecordPrevented, FailCreation, At
<1>5. CASE UNCHANGED notices
  BY <1>0, <1>5, NoNotice
<1> QED
  BY <1>1, <1>2, <1>3, <1>4, <1>5
  DEF Next, Stimulus, Begin, Continue, Act, Creation, ReceiveSignal, RequestCall, Register, FindExpired,
      Expire, Crash, Renew, Ignore, StartRinging, AcceptCall, Activate, FlagTransfer, EndBySignal,
      CreateCall, PreventCall, RequestTransfer, EndTransferred, EndExpired, Record
-----------------------------------------------------------------------------
(* The history                                                             *)

(* Nobody becomes a reporter where nobody ends a call. *)
LEMMA QuietOK ==
  ASSUME TypeOK, ReportsInv, CallsOK, UNCHANGED history,
         \A g \in Tasks, c \in Calls : Reports(g, c)' => Reports(g, c)
  PROVE  ReportsInv'
<1>1. ASSUME NEW c \in Calls PROVE ReporterInv(c)'
  <2>1. ReporterInv(c) /\ (calls[c].ended => calls'[c].ended)
    BY DEF ReportsInv, CallsOK, Evolves
  <2> QED BY <2>1 DEF ReporterInv
<1> QED BY <1>1 DEF ReportsInv

(* A task that moves on to anything but a report *)
LEMMA QuietMove ==
  ASSUME TypeOK, ReportsInv, CallsOK, UNCHANGED history, NEW h \in Tasks, NEW t, Move(h, t),
         t.pc \notin {"record", "recordPrevented"}
  PROVE  ReportsInv'
<1>1. tasks'[h] = t /\ \A g \in Tasks \ {h} : tasks'[g] = tasks[g]
  BY DEF Move, TypeOK
<1>2. \A g \in Tasks, c \in Calls : Reports(g, c)' => Reports(g, c)
  BY <1>1 DEF Reports
<1> QED BY <1>2, QuietOK

(* A task that finishes, moves on or has notices to send does not report. *)
LEMMA QuietStep ==
  ASSUME TypeOK, ReportsInv, CallsOK, UNCHANGED history, NEW h \in Tasks,
         \/ Finish(h)
         \/ \E step \in Steps \ {"record", "recordPrevented"} : Goto(h, step)
         \/ \E say, todo : Announce(h, say, todo)
  PROVE  ReportsInv'
<1>0. tasks[h] \in Task
  BY DEF TypeOK
<1>1. CASE Finish(h)
  BY <1>1, QuietMove DEF Finish, Idle
<1>2. ASSUME NEW step \in Steps \ {"record", "recordPrevented"}, Goto(h, step) PROVE ReportsInv'
  <2>1. [tasks[h] EXCEPT !.pc = step].pc = step
    BY <1>0 DEF Task
  <2> QED BY <1>2, <2>1, QuietMove DEF Goto
<1>3. ASSUME NEW say, NEW todo, Announce(h, say, todo) PROVE ReportsInv'
  <2>1. [tasks[h] EXCEPT !.pc = "tell", !.say = say, !.todo = todo].pc = "tell"
    BY <1>0 DEF Task
  <2> QED BY <1>3, <2>1, QuietMove DEF Announce
<1> QED BY <1>1, <1>2, <1>3

(* Whoever ends a call is its only reporter: nobody ended it before. *)
LEMMA NewReporter ==
  ASSUME TypeOK, ReportsInv, CallsOK, UNCHANGED history, NEW h \in Tasks, NEW c \in Calls,
         ~calls[c].ended, calls'[c].ended, NEW t, Move(h, t), t.call = c
  PROVE  ReportsInv'
<1>1. tasks'[h] = t /\ \A g \in Tasks \ {h} : tasks'[g] = tasks[g]
  BY DEF Move, TypeOK
<1>2. history[c] = 0 /\ \A g \in Tasks : ~Reports(g, c)
  BY DEF ReportsInv, ReporterInv, TypeOK
<1>3. ReporterInv(c)'
  BY <1>1, <1>2 DEF ReporterInv, Reports
<1>4. ASSUME NEW d \in Calls, d # c PROVE ReporterInv(d)'
  <2>1. ReporterInv(d) /\ (calls[d].ended => calls'[d].ended)
    BY DEF ReportsInv, CallsOK, Evolves
  <2>2. \A g \in Tasks : Reports(g, d)' => Reports(g, d)
    BY <1>1, <1>4 DEF Reports
  <2> QED BY <2>1, <2>2 DEF ReporterInv
<1> QED BY <1>3, <1>4 DEF ReportsInv

(* Ending a call makes a reporter of the winner. *)
LEMMA EndCallReports ==
  ASSUME TypeOK, RecordsInv, ReportsInv, CallsOK, UNCHANGED history, NEW h \in Tasks,
         NEW c \in Calls, NEW by, NEW reason, EndCall(h, c, by, reason)
  PROVE  ReportsInv'
<1>1. CASE /\ CanEnd(c) /\ Write(c, Ended(calls[c], by, reason))
           /\ Move(h, [tasks[h] EXCEPT !.pc = "record", !.call = c])
  <2>1. tasks[h] \in Task /\ calls[c] \in CallDoc
    BY DEF TypeOK
  <2>2. [tasks[h] EXCEPT !.pc = "record", !.call = c].call = c
    BY <2>1 DEF Task
  <2>3. ~calls[c].ended /\ calls'[c].ended
    BY <1>1, <2>1 DEF CanEnd, Write, Ended, TypeOK, CallDoc
  <2> QED BY <1>1, <2>2, <2>3, NewReporter
<1>2. CASE Finish(h)
  BY <1>2, QuietStep
<1> QED BY <1>1, <1>2 DEF EndCall

(* The report is made once: its reporter was the only one. *)
LEMMA ReportMade ==
  ASSUME TypeOK, ReportsInv, UNCHANGED calls, NEW h \in Tasks, NEW c \in Calls, Reports(h, c),
         history' = [history EXCEPT ![c] = @ + 1],
         NEW t, Move(h, t), t.pc \notin {"record", "recordPrevented"}
  PROVE  ReportsInv' /\ history' \in [Calls -> Nat]
<1>1. tasks'[h] = t /\ \A g \in Tasks \ {h} : tasks'[g] = tasks[g]
  BY DEF Move, TypeOK
<1>2. calls[c].ended /\ history[c] = 0 /\ \A g \in Tasks : Reports(g, c) => g = h
  BY DEF ReportsInv, ReporterInv
<1>3. history'[c] = 1 /\ \A d \in Calls \ {c} : history'[d] = history[d]
  BY <1>2 DEF TypeOK
<1>4. \A g \in Tasks, d \in Calls : Reports(g, d)' => g # h /\ Reports(g, d)
  BY <1>1 DEF Reports
<1>5. ReporterInv(c)'
  BY <1>2, <1>3, <1>4 DEF ReporterInv
<1>6. \A d \in Calls \ {c} : ReporterInv(d)'
  BY <1>3, <1>4 DEF ReportsInv, ReporterInv
<1>7. history' \in [Calls -> Nat]
  BY DEF TypeOK
<1> QED BY <1>5, <1>6, <1>7 DEF ReportsInv

(* Every end has one reporter until it is reported, and none after. *)
LEMMA ReportsStep ==
  ASSUME TypeOK, IInv, Next
  PROVE  ReportsInv' /\ history' \in [Calls -> Nat]
<1>0. CallsOK /\ RecordsInv /\ TasksInv /\ ReportsInv /\ (UNCHANGED history => history' \in [Calls -> Nat])
  BY CallsStep DEF IInv, TypeOK
<1>1. ASSUME NEW h \in Tasks, Record(h) PROVE ReportsInv' /\ history' \in [Calls -> Nat]
  <2> DEFINE c == tasks[h].call
  <2>1. c \in Calls /\ Reports(h, c) /\ tasks[h] \in Task
    BY <1>0, <1>1, ReadCall DEF Record, At, Reports, TypeOK
  <2>2. PICK first \in (IF tasks[h].kind \in EndingSignals THEN {MyRole(h)} ELSE Roles) :
          Announce(h, "hangup", <<first, Opposite(first)>>)
    BY <1>1 DEF Record
  <2> DEFINE t == [tasks[h] EXCEPT !.pc = "tell", !.say = "hangup", !.todo = <<first, Opposite(first)>>]
  <2>3. Move(h, t) /\ t.pc = "tell"
    BY <2>1, <2>2 DEF Announce, Task
  <2> HIDE DEF t
  <2> QED BY <1>0, <1>1, <2>1, <2>3, ReportMade DEF Record
<1>2. ASSUME NEW h \in Tasks, RecordPrevented(h) PROVE ReportsInv' /\ history' \in [Calls -> Nat]
  <2> DEFINE c == tasks[h].call
  <2>1. c \in Calls /\ Reports(h, c)
    BY <1>0, <1>2, ReadCall DEF RecordPrevented, At, Reports
  <2>2. Move(h, Idle) /\ Idle.pc = "idle"
    BY <1>2 DEF RecordPrevented, RejectRequest, Finish, Idle
  <2> QED BY <1>0, <1>2, <2>1, <2>2, ReportMade DEF RecordPrevented
<1>3. ASSUME NEW h \in Tasks, \/ EndBySignal(h) \/ EndExpired(h) \/ EndTransferred(h) \/ React(h)
      PROVE  ReportsInv' /\ history' \in [Calls -> Nat]
  <2>1. CASE EndBySignal(h) \/ EndExpired(h) \/ React(h)
    BY <1>0, <2>1, ReadCall, EndCallReports, QuietStep DEF EndBySignal, EndExpired, React, At
  <2>2. CASE EndTransferred(h)
    <3>1. tasks[h].parent \in Calls
      BY <1>0, <2>2 DEF EndTransferred, At, TasksInv, CreatorInv, TypeOK, Task
    <3> QED BY <1>0, <2>2, <3>1, EndCallReports, QuietStep DEF EndTransferred
  <2> QED BY <1>3, <2>1, <2>2
<1>4. ASSUME NEW h \in Tasks, NEW c \in Calls, PreventCall(h, c)
      PROVE  ReportsInv' /\ history' \in [Calls -> Nat]
  <2> DEFINE t == [tasks[h] EXCEPT !.pc = "recordPrevented", !.call = c]
  <2>1. /\ tasks[h] \in Task /\ tasks[h].from # None /\ tasks[h].to # None
        /\ UserOf[tasks[h].from] # tasks[h].to
    BY <1>0, <1>4 DEF PreventCall, At, TasksInv, CreatorInv, TypeOK
  <2>2. calls'[c].ended
    BY <1>4, <2>1, NewIsProper DEF PreventCall, Write, TypeOK
  <2>3. ~calls[c].ended
    BY <1>0, <1>4 DEF PreventCall, Exists, RecordsInv, RecordInv
  <2>4. Move(h, t) /\ t.call = c
    BY <1>4, <2>1 DEF PreventCall, Task
  <2> HIDE DEF t
  <2> QED BY <1>0, <1>4, <2>2, <2>3, <2>4, NewReporter DEF PreventCall
<1>5. ASSUME NEW h \in Tasks, UNCHANGED history,
             \/ Finish(h)
             \/ \E step \in Steps \ {"record", "recordPrevented"} : Goto(h, step)
             \/ \E say, todo : Announce(h, say, todo)
      PROVE  ReportsInv' /\ history' \in [Calls -> Nat]
  BY <1>0, <1>5, QuietStep
<1>6. ASSUME NEW h \in Tasks, UNCHANGED history, NEW t, Move(h, t),
             t.pc \notin {"record", "recordPrevented"}
      PROVE  ReportsInv' /\ history' \in [Calls -> Nat]
  BY <1>0, <1>6, QuietMove
<1>7. ASSUME NEW h \in Tasks, \/ Renew(h) \/ FlagTransfer(h)
                             \/ CheckBusy(h) \/ CheckCaller(h) \/ CheckCallee(h)
      PROVE  ReportsInv' /\ history' \in [Calls -> Nat]
  BY <1>5, <1>7 DEF Steps, Renew, FlagTransfer, CheckBusy, CheckCaller, CheckCallee, RejectRequest
<1>8. ASSUME NEW h \in Tasks, \/ Ignore(h) \/ StartRinging(h) \/ FailCreation(h) \/ Crash(h)
                             \/ AcceptCall(h) \/ Activate(h)
      PROVE  ReportsInv' /\ history' \in [Calls -> Nat]
  BY <1>5, <1>8 DEF Ignore, StartRinging, FailCreation, RejectRequest, Crash, AcceptCall, Activate
<1>9. ASSUME NEW h \in Tasks, Tell(h) PROVE ReportsInv' /\ history' \in [Calls -> Nat]
  BY <1>5, <1>9 DEF Steps, Tell
<1>10. ASSUME NEW h \in Tasks, NEW c \in Calls, CreateCall(h, c)
       PROVE  ReportsInv' /\ history' \in [Calls -> Nat]
  <2> DEFINE t == [tasks[h] EXCEPT !.pc = "tell", !.say = "new", !.call = c,
                                   !.todo = <<"caller", "callee">>]
  <2>1. tasks[h] \in Task
    BY DEF TypeOK
  <2>2. Move(h, t) /\ t.pc = "tell"
    BY <1>10, <2>1 DEF CreateCall, Task
  <2> HIDE DEF t
  <2> QED BY <1>6, <1>10, <2>2 DEF CreateCall
<1>11. ASSUME NEW h \in Tasks, RequestTransfer(h) PROVE ReportsInv' /\ history' \in [Calls -> Nat]
  <2>1. ASSUME NEW from, NEW to, NEW c,
               Move(h, [tasks[h] EXCEPT !.pc = "checkCaller", !.from = from, !.to = to, !.parent = c])
        PROVE  ReportsInv' /\ history' \in [Calls -> Nat]
    <3>1. tasks[h] \in Task
      BY DEF TypeOK
    <3>2. [tasks[h] EXCEPT !.pc = "checkCaller", !.from = from, !.to = to, !.parent = c].pc = "checkCaller"
      BY <3>1 DEF Task
    <3>3. UNCHANGED history
      BY <1>11 DEF RequestTransfer
    <3> QED BY <1>6, <2>1, <3>2, <3>3
  <2> QED BY <1>5, <1>11, <2>1 DEF RequestTransfer
<1>12. ASSUME NEW h \in Tasks,
              \/ \E c \in Calls : \E s, k, to : ReceiveSignal(h, c, s, k, to)
              \/ \E s, to, rid : RequestCall(h, s, to, rid)
              \/ \E c \in Calls : \E s, old : Register(h, c, s, old)
              \/ \E c \in Calls : FindExpired(h, c)
       PROVE  ReportsInv' /\ history' \in [Calls -> Nat]
  BY <1>6, <1>12 DEF ReceiveSignal, RequestCall, Register, FindExpired, Idle
<1>13. CASE UNCHANGED <<tasks, history>>
  BY <1>0, <1>13, QuietOK DEF Reports
<1>14. CASE Stimulus
  BY <1>12, <1>13, <1>14 DEF Stimulus, Begin, RepeatRequest, Expire
<1>15. ASSUME NEW h \in Tasks, Continue(h) PROVE ReportsInv' /\ history' \in [Calls -> Nat]
  BY <1>1, <1>2, <1>3, <1>4, <1>7, <1>8, <1>9, <1>10, <1>11, <1>15 DEF Continue, Act, Creation
<1> QED BY <1>8, <1>14, <1>15, Environment DEF Environment, Next
-----------------------------------------------------------------------------
(* The invariant, and what follows from it                                 *)

(* Nothing has happened yet. *)
LEMMA InitOK == Init => TypeOK /\ IInv
<1> SUFFICES ASSUME Init PROVE TypeOK /\ IInv
  OBVIOUS
<1>1. NoCall \in CallDoc /\ RecordInv(NoCall)
  BY DEF NoCall, CallDoc, RecordInv, States, Reasons, Pending, Busy
<1>2. TypeOK
  BY <1>1, IdleType DEF Init, TypeOK
<1>3. RecordsInv /\ NoticesInv
  BY <1>1 DEF Init, RecordsInv, NoticesInv
<1>4. TasksInv
  BY DEF Init, TasksInv, ReaderInv, CreatorInv, TellerInv, Idle
<1>5. ReportsInv
  BY DEF Init, ReportsInv, ReporterInv, Reports, Idle
<1> QED BY <1>2, <1>3, <1>4, <1>5 DEF IInv

(* The invariant is inductive. *)
LEMMA StepOK == TypeOK /\ IInv /\ [Next]_vars => TypeOK' /\ IInv'
<1> SUFFICES ASSUME TypeOK, IInv, [Next]_vars PROVE TypeOK' /\ IInv'
  OBVIOUS
<1>1. CASE Next
  <2>1. calls' \in [Calls -> CallDoc] /\ RecordsInv'
    BY <1>1, CallsStep DEF CallsOK
  <2>2. TypeOK'
    BY <1>1, <2>1, TasksType, NoticesStep, ReportsStep DEF TypeOK
  <2> QED BY <1>1, <2>1, <2>2, TasksStep, NoticesStep, ReportsStep DEF IInv
<1>2. CASE UNCHANGED vars
  <2>1. TypeOK'
    BY <1>2 DEF vars, TypeOK
  <2>2. RecordsInv' /\ NoticesInv'
    BY <1>2 DEF vars, IInv, RecordsInv, NoticesInv, NoticeInv, Exists
  <2>3. TasksInv'
    BY <1>2 DEF vars, IInv, TasksInv, ReaderInv, CreatorInv, TellerInv, TakesPart, Exists
  <2>4. ReportsInv'
    BY <1>2 DEF vars, IInv, ReportsInv, ReporterInv, Reports
  <2> QED BY <2>1, <2>2, <2>3, <2>4 DEF IInv
<1> QED BY <1>1, <1>2

(* Records, tasks, notices and history are well-typed throughout, and what *)
(* tasks and notices rely on holds throughout.                             *)
THEOREM Invariance == Spec => [](TypeOK /\ IInv)
  BY InitOK, StepOK, PTL DEF Spec

(* The types alone: the handlers build no ill-formed record or notice.     *)
THEOREM TypeCorrect == Spec => []TypeOK
  BY Invariance, PTL

(* The fields of a record agree, whatever was interleaved.                 *)
THEOREM RecordsAgree == Spec => []RecordConsistent
<1>1. TypeOK /\ IInv => RecordConsistent
  BY DEF IInv, RecordsInv, RecordInv, RecordConsistent
<1> QED BY <1>1, Invariance, PTL

(* Of several sessions that answer, only the one that signed is told so.   *)
THEOREM OneWinner == Spec => []AcceptedNoticeNamesWinner
<1>1. TypeOK /\ IInv => AcceptedNoticeNamesWinner
  BY DEF IInv, NoticesInv, NoticeInv, AcceptedNoticeNamesWinner
<1> QED BY <1>1, Invariance, PTL

(* An end reaches the history at most once.                                *)
THEOREM RecordedOnce == Spec => []HistoryAtMostOnce
<1>1. TypeOK /\ IInv => HistoryAtMostOnce
  BY DEF IInv, ReportsInv, ReporterInv, HistoryAtMostOnce
<1> QED BY <1>1, Invariance, PTL

(* Nobody is told of an end that is not stored.                            *)
THEOREM HangupsAreTrue == Spec => []HangupNoticeIsTrue
<1>1. TypeOK /\ IInv => HangupNoticeIsTrue
  BY DEF IInv, NoticesInv, NoticeInv, HangupNoticeIsTrue
<1> QED BY <1>1, Invariance, PTL

(* An ended record and a signature never change.                           *)
THEOREM Finality == Spec => EndIsFinal /\ ContractIsFinal
<1>1. TypeOK /\ IInv /\ [Next]_vars
        => /\ [\A c \in Calls : calls[c].ended => calls'[c] = calls[c]]_vars
           /\ [\A c \in Calls : calls[c].contract # None
                                  => calls'[c].contract = calls[c].contract]_vars
  BY CallsStep DEF CallsOK, Evolves
<1> QED BY <1>1, Invariance, PTL DEF Spec, EndIsFinal, ContractIsFinal

-----------------------------------------------------------------------------
(* The collection implements the life cycle of a record                    *)

StateMap == [x \in Calls |-> calls[x].state]
ContractMap == [x \in Calls |-> calls[x].contract]

(* What a write does to the mapped variables *)
LEMMA MappedWrite ==
  ASSUME TypeOK, NEW c \in Calls, NEW e, Write(c, e)
  PROVE  /\ StateMap' = [StateMap EXCEPT ![c] = e.state]
         /\ ContractMap' = [ContractMap EXCEPT ![c] = e.contract]
         /\ e.state = calls[c].state => StateMap' = StateMap
         /\ e.contract = calls[c].contract => ContractMap' = ContractMap
BY DEF TypeOK, Write, StateMap, ContractMap

(* The life cycle's actions, said of the mapped variables *)
LEMMA MappedActions ==
  ASSUME NEW c \in Calls, NEW s
  PROVE  /\ (/\ StateMap[c] = "none" /\ StateMap' = [StateMap EXCEPT ![c] = "ringing"]
             /\ ContractMap' = ContractMap /\ UNCHANGED history) => Lifecycle!Ring(c)
         /\ (/\ StateMap[c] \in {"none", "ringing"} /\ StateMap' = [StateMap EXCEPT ![c] = "accepted"]
             /\ ContractMap' = [ContractMap EXCEPT ![c] = s] /\ UNCHANGED history) => Lifecycle!Accept(c, s)
         /\ (/\ StateMap[c] = "accepted" /\ StateMap' = [StateMap EXCEPT ![c] = "active"]
             /\ ContractMap' = ContractMap /\ UNCHANGED history) => Lifecycle!Activate(c)
         /\ (/\ StateMap[c] \notin {"absent", "hangup"} /\ StateMap' = [StateMap EXCEPT ![c] = "hangup"]
             /\ ContractMap' = ContractMap /\ UNCHANGED history) => Lifecycle!End(c)
BY DEF StateMap, ContractMap, Lifecycle!Ring, Lifecycle!Accept, Lifecycle!Activate,
       Lifecycle!End, Lifecycle!Unfinished

(* A step that ends a call, or finds it ended *)
LEMMA MappedEnd ==
  ASSUME TypeOK, RecordsInv, UNCHANGED history, NEW h \in Tasks, NEW c \in Calls, Exists(c),
         NEW by, NEW reason, EndCall(h, c, by, reason)
  PROVE  Lifecycle!End(c) \/ UNCHANGED Lifecycle!vars
<1>1. CASE CanEnd(c) /\ Write(c, Ended(calls[c], by, reason))
  <2>1. calls[c].state \notin {"absent", "hangup"}
    BY <1>1 DEF CanEnd, RecordsInv, RecordInv, Exists
  <2>2. /\ Ended(calls[c], by, reason).state = "hangup"
        /\ Ended(calls[c], by, reason).contract = calls[c].contract
    BY DEF TypeOK, CallDoc, Ended
  <2>3. /\ StateMap[c] = calls[c].state /\ ContractMap' = ContractMap
        /\ StateMap' = [StateMap EXCEPT ![c] = "hangup"]
    BY <1>1, <2>2, MappedWrite DEF StateMap
  <2> QED BY <2>1, <2>3, MappedActions
<1>2. CASE UNCHANGED calls
  BY <1>2 DEF Lifecycle!vars
<1> QED BY <1>1, <1>2 DEF EndCall

(* A write that changes neither state nor signature is a stutter. *)
LEMMA MappedStutter ==
  ASSUME TypeOK, UNCHANGED history, NEW c \in Calls, NEW e, Write(c, e),
         e.state = calls[c].state, e.contract = calls[c].contract
  PROVE  UNCHANGED Lifecycle!vars
BY MappedWrite DEF Lifecycle!vars, StateMap, ContractMap

(* Every step is a step of the life cycle of one record, or none.          *)
LEMMA LifecycleStep ==
  ASSUME TypeOK, IInv, Next
  PROVE  Lifecycle!Next \/ UNCHANGED Lifecycle!vars
<1> DEFINE Goal == Lifecycle!Next \/ UNCHANGED Lifecycle!vars
<1>0. RecordsInv /\ TasksInv /\ ReportsInv
  BY DEF IInv
<1>1. ASSUME UNCHANGED <<calls, history>> PROVE Goal
  BY <1>1 DEF Lifecycle!vars
<1>2. ASSUME NEW c \in Calls, RenewCall(c), UNCHANGED history PROVE Goal
  <2>1. Renewed(calls[c]).state = calls[c].state /\ Renewed(calls[c]).contract = calls[c].contract
    BY DEF TypeOK, CallDoc, Renewed
  <2> QED BY <1>1, <1>2, <2>1, MappedStutter DEF RenewCall, UpdateOne
<1>3. ASSUME NEW h \in Tasks, StartRinging(h) PROVE Goal
  <2>1. PICK c \in Calls : c = tasks[h].call
    BY <1>0, <1>3, ReadCall DEF StartRinging, At
  <2>2. CASE CanRing(c) /\ Write(c, Rung(calls[c]))
    <3>1. Rung(calls[c]).state = "ringing" /\ Rung(calls[c]).contract = calls[c].contract
      BY <2>1 DEF TypeOK, CallDoc, Rung
    <3>2. /\ StateMap[c] = "none" /\ StateMap' = [StateMap EXCEPT ![c] = "ringing"]
          /\ ContractMap' = ContractMap
      BY <2>2, <3>1, MappedWrite DEF CanRing, StateMap
    <3>3. Lifecycle!Ring(c)
      BY <1>3, <3>2, MappedActions DEF StartRinging
    <3> QED BY <2>1, <3>3 DEF Lifecycle!Next
  <2> QED BY <1>1, <1>3, <2>1, <2>2 DEF StartRinging, UpdateOne
<1>4. ASSUME NEW h \in Tasks, AcceptCall(h) PROVE Goal
  <2>1. PICK c \in Calls, s \in Sessions : c = tasks[h].call /\ s = tasks[h].sess
    BY <1>0, <1>4, ReadCall, Sender DEF AcceptCall, At
  <2>2. CASE CanAccept(c) /\ Write(c, Accepted(calls[c], s))
    <3>1. Accepted(calls[c], s).state = "accepted" /\ Accepted(calls[c], s).contract = s
      BY <2>1 DEF TypeOK, CallDoc, Accepted
    <3>2. /\ StateMap[c] \in {"none", "ringing"}
          /\ StateMap' = [StateMap EXCEPT ![c] = "accepted"]
          /\ ContractMap' = [ContractMap EXCEPT ![c] = s]
      BY <2>2, <3>1, MappedWrite DEF CanAccept, Pending, StateMap
    <3>3. Lifecycle!Accept(c, s)
      BY <1>4, <3>2, MappedActions DEF AcceptCall
    <3> QED BY <2>1, <3>3 DEF Lifecycle!Next
  <2> QED BY <1>1, <1>4, <2>1, <2>2 DEF AcceptCall
<1>5. ASSUME NEW h \in Tasks, Activate(h) PROVE Goal
  <2>1. PICK c \in Calls : c = tasks[h].call
    BY <1>0, <1>5, ReadCall DEF Activate, At
  <2>2. CASE CanActivate(c) /\ Write(c, Activated(calls[c]))
    <3>1. Activated(calls[c]).state = "active" /\ Activated(calls[c]).contract = calls[c].contract
      BY <2>1 DEF TypeOK, CallDoc, Activated
    <3>2. /\ StateMap[c] = "accepted" /\ StateMap' = [StateMap EXCEPT ![c] = "active"]
          /\ ContractMap' = ContractMap
      BY <2>2, <3>1, MappedWrite DEF CanActivate, StateMap
    <3>3. Lifecycle!Activate(c)
      BY <1>5, <3>2, MappedActions DEF Activate
    <3> QED BY <2>1, <3>3 DEF Lifecycle!Next
  <2> QED BY <1>1, <1>5, <2>1, <2>2 DEF Activate
<1>6. ASSUME NEW h \in Tasks, FlagTransfer(h) PROVE Goal
  <2> DEFINE c == tasks[h].call
             e == Transferred(calls[c], tasks[h].sess, tasks[h].to)
  <2>1. c \in Calls
    BY <1>0, <1>6, ReadCall DEF FlagTransfer, At
  <2>2. CASE Write(c, e)
    <3>1. e.state = calls[c].state /\ e.contract = calls[c].contract
      BY <2>1 DEF TypeOK, CallDoc, Transferred
    <3> QED BY <1>6, <2>1, <2>2, <3>1, MappedStutter DEF FlagTransfer
  <2> QED BY <1>1, <1>6, <2>2 DEF FlagTransfer
<1>7. ASSUME NEW h \in Tasks, NEW c \in Calls, Exists(c), NEW by, NEW reason,
             EndCall(h, c, by, reason), UNCHANGED history
      PROVE  Goal
  BY <1>0, <1>7, MappedEnd DEF Lifecycle!Next
<1>8. ASSUME NEW h \in Tasks, EndBySignal(h) \/ EndExpired(h) PROVE Goal
  BY <1>0, <1>7, <1>8, ReadCall DEF EndBySignal, EndExpired, At
<1>9. ASSUME NEW h \in Tasks, EndTransferred(h) PROVE Goal
  <2> DEFINE c == tasks[h].parent
  <2>1. c \in Calls
    BY <1>0, <1>9 DEF EndTransferred, At, TasksInv, CreatorInv, TypeOK, Task
  <2>2. CASE calls[c].transferredBy # None /\ EndCall(h, c, UserOf[calls[c].transferredBy], "transfer")
    <3>1. Exists(c)
      BY <1>0, <2>1, <2>2 DEF RecordsInv, RecordInv, Exists, NoCall
    <3> QED BY <1>7, <1>9, <2>1, <2>2, <3>1 DEF EndTransferred
  <2> QED BY <1>1, <1>9, <2>2 DEF EndTransferred
<1>10. ASSUME NEW h \in Tasks, React(h) PROVE Goal
  BY <1>0, <1>1, <1>2, <1>7, <1>10, ReadCall DEF React, At
<1>11. ASSUME NEW h \in Tasks, Renew(h) PROVE Goal
  BY <1>0, <1>2, <1>11, ReadCall DEF Renew, At
<1>12. ASSUME NEW h \in Tasks, NEW c \in Calls, NEW e, e.state \in {"none", "hangup"},
              e.contract = None, Write(c, e), ~Exists(c), UNCHANGED history
       PROVE  Goal
  <2>1. calls[c].contract = None
    BY <1>0, <1>12 DEF RecordsInv, RecordInv, Exists, NoCall
  <2>2. Lifecycle!Create(c)
    BY <1>12, <2>1, MappedWrite DEF Exists, Lifecycle!Create, StateMap, ContractMap
  <2> QED BY <2>2 DEF Lifecycle!Next
<1>13. ASSUME NEW h \in Tasks, NEW c \in Calls, CreateCall(h, c) \/ PreventCall(h, c) PROVE Goal
  <2>1. /\ NewCall(tasks[h]).state = "none" /\ NewCall(tasks[h]).contract = None
        /\ Prevented(NewCall(tasks[h])).state = "hangup"
        /\ Prevented(NewCall(tasks[h])).contract = None
    BY DEF NewCall, Prevented, NoCall
  <2> QED BY <1>12, <1>13, <2>1 DEF CreateCall, PreventCall
<1>14. ASSUME NEW h \in Tasks, NEW c \in Calls, Reports(h, c), UNCHANGED calls,
              history' = [history EXCEPT ![c] = @ + 1]
       PROVE  Goal
  <2>1. history[c] = 0 /\ calls[c].state = "hangup"
    BY <1>0, <1>14 DEF ReportsInv, ReporterInv, RecordsInv, RecordInv
  <2>2. history' = [history EXCEPT ![c] = 1]
    BY <1>14, <2>1
  <2>3. Lifecycle!Record(c)
    BY <1>14, <2>1, <2>2 DEF Lifecycle!Record
  <2> QED BY <2>3 DEF Lifecycle!Next
<1>15. ASSUME NEW h \in Tasks, Record(h) \/ RecordPrevented(h) PROVE Goal
  BY <1>0, <1>14, <1>15, ReadCall DEF Record, RecordPrevented, At, Reports
<1>16. ASSUME NEW c \in Calls, Expire(c) PROVE Goal
  <2>1. Overdue(calls[c]).state = calls[c].state /\ Overdue(calls[c]).contract = calls[c].contract
    BY DEF TypeOK, CallDoc, Overdue
  <2> QED BY <1>16, <2>1, MappedStutter DEF Expire
<1> HIDE DEF Goal
<1>17. ASSUME Stimulus PROVE Goal
  <2>1. ASSUME NEW h \in Tasks, Begin(h) PROVE UNCHANGED <<calls, history>>
    BY <2>1 DEF Begin, ReceiveSignal, RequestCall, Register, FindExpired
  <2>2. ASSUME NEW r, NEW c, RepeatRequest(r.from, r.rid, c) PROVE UNCHANGED <<calls, history>>
    BY <2>2 DEF RepeatRequest
  <2> QED BY <1>1, <1>16, <1>17, <2>1, <2>2, Environment DEF Environment, Stimulus
<1>18. ASSUME NEW h \in Tasks, Continue(h) PROVE Goal
  BY <1>1, <1>3, <1>4, <1>5, <1>6, <1>8, <1>9, <1>10, <1>11, <1>13, <1>15, <1>18
     DEF Continue, Act, Creation, Ignore, CheckBusy, CheckCaller, CheckCallee, FailCreation,
         RequestTransfer, Tell
<1>19. ASSUME NEW h \in Mortal, Crash(h) PROVE Goal
  BY <1>1, <1>19 DEF Crash
<1>20. Goal
  BY <1>17, <1>18, <1>19 DEF Next
<1> QED BY <1>20 DEF Goal

(* CallServer implements MediaCallLifecycle: whichever signals, requests,  *)
(* sweeps and transfers are in flight, each record goes through its states *)
(* in order, is signed once, ends once and is reported once.               *)
THEOREM Refinement == Spec => ImplementsLifecycle
<1>1. Init => Lifecycle!Init
  BY DEF Init, NoCall, Lifecycle!Init
<1>2. TypeOK /\ IInv /\ [Next]_vars => [Lifecycle!Next]_(Lifecycle!vars)
  <2> SUFFICES ASSUME TypeOK, IInv, [Next]_vars PROVE Lifecycle!Next \/ UNCHANGED Lifecycle!vars
    OBVIOUS
  <2>1. CASE UNCHANGED vars
    BY <2>1 DEF vars, Lifecycle!vars
  <2> QED BY <2>1, LifecycleStep
<1> QED BY <1>1, <1>2, Invariance, PTL DEF Spec, ImplementsLifecycle, Lifecycle!Spec

-----------------------------------------------------------------------------
(* Transfers: a call that is transferred is replaced at most once, and it  *)
(* ends for the transfer only if it has been replaced.  The argument: the  *)
(* right to replace a call is a token.  The write that flags the transfer  *)
(* gives it to one task, which loses it by a crash, a refusal or the       *)
(* creation of the call; and a call is flagged once, so that there is      *)
(* never a second token.                                                   *)

(* Task t has the token: it is on the way to the call that replaces p.     *)
Seeks(t, p) == \/ t.pc = "retrace" /\ t.call = p
               \/ t.pc \in {"checkCaller", "checkCallee", "create"} /\ t.parent = p

(* Task t has created it, and will end p. *)
Settles(t, p) == t.parent = p /\ (t.pc = "endParent" \/ (t.pc = "tell" /\ t.say = "new"))

(* A record for p was inserted, prevented or not. *)
Begot(c, p) == Exists(c) /\ calls[c].parent = p

Flagged(p) == calls[p].transferredBy # None

(* The token is there once, and before the record. *)
SeekerInv(h) ==
    /\ \A p \in Calls : Seeks(tasks[h], p) =>
         /\ Flagged(p)
         /\ \A c \in Calls : ~Begot(c, p)
         /\ \A g \in Tasks : Seeks(tasks[g], p) => g = h
         /\ tasks[h].pc # "retrace" => tasks[h].to = calls[p].transferredTo
    /\ tasks[h].pc = "checkBusy" => tasks[h].parent = None

SettlerInv(h) == \A p \in Calls : Settles(tasks[h], p) => \E c \in Calls : Replaces(c, p)

ChildInv(c) ==
    \A p \in Calls : Begot(c, p) =>
      /\ Flagged(p) /\ calls[c].callee = calls[p].transferredTo
      /\ \A d \in Calls : Begot(d, p) => d = c

EndInv(p) == calls[p].reason = "transfer" => \E c \in Calls : Replaces(c, p)

TransferInv ==
    /\ \A h \in Tasks : SeekerInv(h) /\ SettlerInv(h)
    /\ \A c \in Calls : ChildInv(c) /\ EndInv(c)

-----------------------------------------------------------------------------
(* Steps that create no token and insert no record                         *)

(* No record comes, goes or changes in what the transfers look at, except  *)
(* that a call which has been replaced may end for it.                     *)
CallsKept ==
    \A c \in Calls :
      /\ Exists(c)' <=> Exists(c)
      /\ calls'[c].parent = calls[c].parent /\ calls'[c].callee = calls[c].callee
      /\ calls'[c].prevented = calls[c].prevented
      /\ calls'[c].transferredBy = calls[c].transferredBy
      /\ calls'[c].transferredTo = calls[c].transferredTo
      /\ calls'[c].reason = "transfer" => \E x \in Calls : Replaces(x, c)

(* Task t has no token that h does not have, and creates what is wanted.   *)
Follows(h, t) ==
    /\ \A p \in Calls : /\ Seeks(t, p) => /\ Seeks(tasks[h], p)
                                          /\ t.pc # "retrace" => t.to = calls[p].transferredTo
                        /\ Settles(t, p) => Settles(tasks[h], p)
    /\ t.pc = "checkBusy" => t.parent = None

(* A task that has nothing to do with a transfer. *)
Apart(t) == /\ t.pc \notin {"retrace", "checkBusy", "checkCaller", "checkCallee", "create", "endParent"}
            /\ t.pc = "tell" => t.say # "new"

LEMMA ApartFollows ==
  ASSUME NEW h, NEW t, Apart(t)
  PROVE  Follows(h, t)
  BY DEF Apart, Follows, Seeks, Settles

(* Such a step keeps the token where it is, or loses it. *)
LEMMA KeptStep ==
  ASSUME TransferInv, CallsKept, \A g \in Tasks : Follows(g, tasks'[g])
  PROVE  TransferInv'
<1>1. \A c, p \in Calls : /\ Begot(c, p)' <=> Begot(c, p)
                          /\ Replaces(c, p)' <=> Replaces(c, p)
  BY DEF CallsKept, Begot, Replaces
<1>2. \A p \in Calls : /\ Flagged(p)' <=> Flagged(p)
                       /\ calls'[p].transferredTo = calls[p].transferredTo
                       /\ calls'[p].callee = calls[p].callee
  BY DEF CallsKept, Flagged
<1>3. ASSUME NEW h \in Tasks PROVE SeekerInv(h)'
  <2>1. ASSUME NEW p \in Calls, Seeks(tasks'[h], p)
        PROVE  /\ Flagged(p)'
               /\ \A c \in Calls : ~Begot(c, p)'
               /\ \A g \in Tasks : Seeks(tasks'[g], p) => g = h
               /\ tasks'[h].pc # "retrace" => tasks'[h].to = calls'[p].transferredTo
    <3>1. Seeks(tasks[h], p) /\ SeekerInv(h)
      BY <2>1 DEF Follows, TransferInv
    <3>2. \A g \in Tasks : Seeks(tasks'[g], p) => Seeks(tasks[g], p)
      BY DEF Follows
    <3>3. tasks'[h].pc # "retrace" => tasks'[h].to = calls'[p].transferredTo
      BY <1>2, <2>1 DEF Follows
    <3> QED BY <1>1, <1>2, <3>1, <3>2, <3>3 DEF SeekerInv
  <2>2. tasks'[h].pc = "checkBusy" => tasks'[h].parent = None
    BY DEF Follows
  <2> QED BY <2>1, <2>2 DEF SeekerInv
<1>4. ASSUME NEW h \in Tasks PROVE SettlerInv(h)'
  BY <1>1 DEF Follows, TransferInv, SettlerInv
<1>5. ASSUME NEW c \in Calls PROVE ChildInv(c)'
  BY <1>1, <1>2 DEF TransferInv, ChildInv
<1>6. ASSUME NEW c \in Calls PROVE EndInv(c)'
  BY <1>1 DEF CallsKept, EndInv
<1> QED BY <1>3, <1>4, <1>5, <1>6 DEF TransferInv

(* One task moves and the others wait: it is left to answer for itself. *)
LEMMA MoverFollows ==
  ASSUME TypeOK, TransferInv, NEW h \in Tasks, NEW t, Move(h, t), Follows(h, t)
  PROVE  \A g \in Tasks : Follows(g, tasks'[g])
<1>1. tasks'[h] = t
  BY Moved
<1>2. \A g \in Tasks \ {h} : tasks'[g] = tasks[g]
  BY DEF Move, TypeOK
<1>3. ASSUME NEW g \in Tasks PROVE Follows(g, tasks[g])
  BY DEF TransferInv, SeekerInv, Follows, Seeks
<1> QED BY <1>1, <1>2, <1>3

(* Nothing of the collection changes. *)
LEMMA SameCalls ==
  ASSUME TransferInv, UNCHANGED calls
  PROVE  CallsKept
  BY DEF TransferInv, EndInv, CallsKept, Exists

(* A write that leaves the fields of a transfer alone. *)
LEMMA KeptWrite ==
  ASSUME TypeOK, TransferInv, NEW c \in Calls, NEW e, Write(c, e),
         e.state = "absent" <=> calls[c].state = "absent",
         e.parent = calls[c].parent, e.callee = calls[c].callee, e.prevented = calls[c].prevented,
         e.transferredBy = calls[c].transferredBy, e.transferredTo = calls[c].transferredTo,
         e.reason = "transfer" => calls[c].reason = "transfer" \/ \E x \in Calls : Replaces(x, c)
  PROVE  CallsKept
<1>1. calls'[c] = e /\ \A x \in Calls \ {c} : calls'[x] = calls[x]
  BY DEF Write, TypeOK
<1>2. \A x \in Calls : EndInv(x)
  BY DEF TransferInv
<1>3. ASSUME NEW x \in Calls \ {c}, calls'[x].reason = "transfer"
      PROVE  \E y \in Calls : Replaces(y, x)
  BY <1>1, <1>2, <1>3 DEF EndInv
<1>4. Exists(c)' <=> Exists(c)
  BY <1>1 DEF Exists
<1>5. \A x \in Calls \ {c} : Exists(x)' <=> Exists(x)
  BY <1>1 DEF Exists
<1> QED BY <1>1, <1>2, <1>3, <1>4, <1>5 DEF CallsKept, EndInv

(* The task that moves has nothing to do with a transfer. *)
LEMMA ApartStep ==
  ASSUME TypeOK, TransferInv, CallsKept, NEW h \in Tasks, NEW t, Move(h, t), Apart(t)
  PROVE  TransferInv'
<1>1. Follows(h, t)
  BY ApartFollows
<1> QED BY <1>1, MoverFollows, KeptStep

(* A task finishes. *)
LEMMA FinishKept ==
  ASSUME TypeOK, TransferInv, CallsKept, NEW h \in Tasks, Finish(h)
  PROVE  TransferInv'
<1>1. Apart(Idle)
  BY DEF Apart, Idle
<1> QED BY <1>1, ApartStep DEF Finish

(* A task announces something other than a new call. *)
LEMMA AnnounceKept ==
  ASSUME TypeOK, TransferInv, CallsKept, NEW h \in Tasks, NEW say, NEW todo,
         Announce(h, say, todo), say # "new"
  PROVE  TransferInv'
<1> DEFINE t == [tasks[h] EXCEPT !.pc = "tell", !.say = say, !.todo = todo]
<1>1. Move(h, t)
  BY DEF Announce
<1>2. tasks[h] \in Task
  BY DEF TypeOK
<1>3. t.pc = "tell" /\ t.say = say
  BY <1>2 DEF Task
<1> HIDE DEF t
<1>4. Apart(t)
  BY <1>3 DEF Apart
<1> QED BY <1>1, <1>4, ApartStep

(* A call is ended: for its transfer, only if it has been replaced. *)
LEMMA EndCallKept ==
  ASSUME TypeOK, RecordsInv, TransferInv, NEW h \in Tasks, NEW c \in Calls, Exists(c), NEW by, NEW reason,
         EndCall(h, c, by, reason), reason = "transfer" => \E x \in Calls : Replaces(x, c)
  PROVE  TransferInv'
<1>1. CASE /\ Write(c, Ended(calls[c], by, reason))
           /\ Move(h, [tasks[h] EXCEPT !.pc = "record", !.call = c])
  <2> DEFINE e == Ended(calls[c], by, reason)
             t == [tasks[h] EXCEPT !.pc = "record", !.call = c]
  <2>1. calls[c] \in CallDoc /\ tasks[h] \in Task
    BY DEF TypeOK
  <2>2. /\ e.state = "hangup" /\ e.reason = reason
        /\ e.parent = calls[c].parent /\ e.callee = calls[c].callee
        /\ e.prevented = calls[c].prevented
        /\ e.transferredBy = calls[c].transferredBy /\ e.transferredTo = calls[c].transferredTo
    BY <2>1 DEF Ended, CallDoc
  <2>3. t.pc = "record"
    BY <2>1 DEF Task
  <2>4. Write(c, e) /\ Move(h, t)
    BY <1>1
  <2>5. calls[c].state # "absent"
    BY DEF Exists
  <2> HIDE DEF e, t
  <2>6. CallsKept
    BY <2>2, <2>4, <2>5, KeptWrite
  <2>7. Apart(t)
    BY <2>3 DEF Apart
  <2> QED BY <2>4, <2>6, <2>7, ApartStep
<1>2. CASE Finish(h) /\ UNCHANGED calls
  BY <1>2, SameCalls, FinishKept
<1> QED BY <1>1, <1>2 DEF EndCall

(* The updates that renew, ring, accept and activate leave the fields of a *)
(* transfer alone, and so does the clock.                                  *)
LEMMA UpdatesKept ==
  ASSUME TypeOK, TransferInv, NEW c \in Calls, Exists(c), NEW s,
         \/ Write(c, Renewed(calls[c])) \/ Write(c, Overdue(calls[c])) \/ Write(c, Rung(calls[c]))
         \/ Write(c, Accepted(calls[c], s)) \/ Write(c, Activated(calls[c]))
  PROVE  CallsKept
<1>1. calls[c] \in CallDoc /\ calls[c].state # "absent"
  BY DEF TypeOK, Exists
<1>2. ASSUME NEW e \in {Renewed(calls[c]), Overdue(calls[c]), Rung(calls[c]),
                        Accepted(calls[c], s), Activated(calls[c])}
      PROVE  /\ e.state # "absent" /\ e.parent = calls[c].parent /\ e.callee = calls[c].callee
             /\ e.prevented = calls[c].prevented /\ e.reason = calls[c].reason
             /\ e.transferredBy = calls[c].transferredBy /\ e.transferredTo = calls[c].transferredTo
  <2>1. CASE e = Renewed(calls[c])
    BY <1>1, <2>1 DEF Renewed, CallDoc
  <2>2. CASE e = Overdue(calls[c])
    BY <1>1, <2>2 DEF Overdue, CallDoc
  <2>3. CASE e = Rung(calls[c])
    BY <1>1, <2>3 DEF Rung, CallDoc
  <2>4. CASE e = Accepted(calls[c], s)
    BY <1>1, <2>4 DEF Accepted, CallDoc
  <2>5. CASE e = Activated(calls[c])
    BY <1>1, <2>5 DEF Activated, CallDoc
  <2> QED BY <2>1, <2>2, <2>3, <2>4, <2>5
<1>3. PICK e \in {Renewed(calls[c]), Overdue(calls[c]), Rung(calls[c]),
                  Accepted(calls[c], s), Activated(calls[c])} : Write(c, e)
  OBVIOUS
<1> QED BY <1>1, <1>2, <1>3, KeptWrite

LEMMA RenewCallKept ==
  ASSUME TypeOK, TransferInv, NEW c \in Calls, Exists(c), RenewCall(c)
  PROVE  CallsKept
  BY UpdatesKept, SameCalls DEF RenewCall, UpdateOne

(* A task with the token goes on to the next check. *)
LEMMA CheckKept ==
  ASSUME TypeOK, TransferInv, UNCHANGED calls, NEW h \in Tasks,
         tasks[h].pc \in {"checkBusy", "checkCaller", "checkCallee"},
         NEW step \in {"checkCaller", "checkCallee", "create"}, Goto(h, step)
  PROVE  TransferInv'
<1> DEFINE t == [tasks[h] EXCEPT !.pc = step]
<1>1. tasks[h] \in Task /\ SeekerInv(h)
  BY DEF TypeOK, TransferInv
<1>2. t.pc = step /\ t.parent = tasks[h].parent /\ t.to = tasks[h].to /\ t.call = tasks[h].call
  BY <1>1 DEF Task
<1> HIDE DEF t
<1>3. \A p \in Calls : p # None
  BY NoneIsFresh DEF NoneIsFresh
<1>4. ASSUME NEW p \in Calls, Seeks(t, p)
      PROVE  Seeks(tasks[h], p) /\ (t.pc # "retrace" => t.to = calls[p].transferredTo)
  <2>1. tasks[h].parent = p /\ tasks[h].pc # "checkBusy"
    BY <1>1, <1>2, <1>3, <1>4 DEF Seeks, SeekerInv
  <2>2. Seeks(tasks[h], p)
    BY <2>1 DEF Seeks
  <2>3. tasks[h].to = calls[p].transferredTo
    BY <1>1, <2>2 DEF SeekerInv
  <2> QED BY <1>2, <2>2, <2>3
<1>5. Follows(h, t)
  BY <1>2, <1>4 DEF Follows, Settles
<1>6. Move(h, t)
  BY DEF Goto, t
<1> QED BY <1>5, <1>6, SameCalls, MoverFollows, KeptStep

(* Either side's agent takes the token on to the creation. *)
LEMMA RequestTransferKept ==
  ASSUME TypeOK, IInv, TransferInv, NEW h \in Tasks, RequestTransfer(h)
  PROVE  TransferInv'
<1> DEFINE c == tasks[h].call
           from == IF MyRole(h) = "callee" THEN calls[c].callerContract ELSE calls[c].contract
           t == [tasks[h] EXCEPT !.pc = "checkCaller", !.from = from,
                                 !.to = calls[c].transferredTo, !.parent = c]
<1>1. tasks[h] \in Task /\ tasks[h].pc = "retrace" /\ UNCHANGED calls
  BY DEF TypeOK, RequestTransfer, At
<1>2. CASE Move(h, t)
  <2>1. t.pc = "checkCaller" /\ t.parent = c /\ t.to = calls[c].transferredTo
    <3> HIDE DEF c, from
    <3> QED BY <1>1 DEF Task
  <2> HIDE DEF t
  <2>2. \A p \in Calls : Seeks(t, p) => p = c /\ Seeks(tasks[h], p)
    BY <1>1, <2>1 DEF Seeks
  <2>3. Follows(h, t)
    BY <2>1, <2>2 DEF Follows, Settles
  <2> QED BY <1>1, <1>2, <2>3, SameCalls, MoverFollows, KeptStep
<1>3. CASE Finish(h)
  BY <1>1, <1>3, SameCalls, FinishKept
<1> QED BY <1>2, <1>3 DEF RequestTransfer

(* The notices about a new call are sent, and then its parent is ended. *)
LEMMA TellKept ==
  ASSUME TypeOK, TransferInv, NEW h \in Tasks, Tell(h)
  PROVE  TransferInv'
<1>1. tasks[h] \in Task /\ tasks[h].pc = "tell" /\ CallsKept
  BY SameCalls DEF TypeOK, Tell, At
<1>2. ASSUME NEW t, Move(h, t), t.parent = tasks[h].parent,
             \/ t.pc = "tell" /\ t.say = tasks[h].say
             \/ t.pc = "endParent" /\ tasks[h].say = "new"
      PROVE  TransferInv'
  <2>1. Follows(h, t)
    BY <1>1, <1>2 DEF Follows, Seeks, Settles
  <2> QED BY <1>1, <1>2, <2>1, MoverFollows, KeptStep
<1>3. CASE Announce(h, tasks[h].say, Tail(tasks[h].todo))
  <2> DEFINE t == [tasks[h] EXCEPT !.pc = "tell", !.say = tasks[h].say, !.todo = Tail(tasks[h].todo)]
  <2>1. t.parent = tasks[h].parent /\ t.pc = "tell" /\ t.say = tasks[h].say
    BY <1>1 DEF Task
  <2>2. Move(h, t)
    BY <1>3 DEF Announce
  <2> HIDE DEF t
  <2> QED BY <1>2, <2>1, <2>2
<1>4. CASE ReplacesParent(h) /\ Goto(h, "endParent")
  <2> DEFINE t == [tasks[h] EXCEPT !.pc = "endParent"]
  <2>1. t.parent = tasks[h].parent /\ t.pc = "endParent" /\ tasks[h].say = "new"
    BY <1>1, <1>4 DEF Task, ReplacesParent
  <2>2. Move(h, t)
    BY <1>4 DEF Goto
  <2> HIDE DEF t
  <2> QED BY <1>2, <2>1, <2>2
<1>5. CASE Finish(h)
  BY <1>1, <1>5, FinishKept
<1> QED BY <1>3, <1>4, <1>5 DEF Tell

-----------------------------------------------------------------------------
(* The two steps that deal with the token                                  *)

(* transferCallById gives out the token, for a call that never had one. *)
LEMMA FlagTransferKept ==
  ASSUME TypeOK, IInv, TransferInv, NEW h \in Tasks, FlagTransfer(h)
  PROVE  TransferInv'
<1>1. tasks[h] \in Task /\ tasks[h].pc = "act"
  BY DEF TypeOK, FlagTransfer, At
<1>2. PICK c \in Calls : c = tasks[h].call /\ Exists(c) /\ tasks[h].sess \in Sessions
  BY <1>1, ReadCall, Sender DEF IInv
<1>3. CASE /\ CanTransfer(c) /\ Goto(h, "retrace")
           /\ Write(c, Transferred(calls[c], tasks[h].sess, tasks[h].to))
  <2> DEFINE e == Transferred(calls[c], tasks[h].sess, tasks[h].to)
  <2>1. calls[c] \in CallDoc /\ calls[c].transferredBy = None /\ calls[c].state # "absent"
    BY <1>2, <1>3 DEF TypeOK, CanTransfer, Exists
  <2>2. /\ e.transferredBy # None /\ e.state = calls[c].state /\ e.parent = calls[c].parent
        /\ e.callee = calls[c].callee /\ e.prevented = calls[c].prevented
        /\ e.reason = calls[c].reason
    <3>1. tasks[h].sess # None
      BY <1>2, NoneIsFresh DEF NoneIsFresh
    <3> QED BY <2>1, <3>1 DEF Transferred, CallDoc
  <2>3. calls'[c] = e /\ \A x \in Calls \ {c} : calls'[x] = calls[x]
    BY <1>2, <1>3 DEF Write, TypeOK
  <2>4. tasks'[h].pc = "retrace" /\ tasks'[h].call = c /\ tasks'[h].parent = tasks[h].parent
    BY <1>2, <1>3, GotoFields
  <2>5. \A g \in Tasks \ {h} : tasks'[g] = tasks[g]
    BY <1>3 DEF Goto, Move, TypeOK
  <2> HIDE DEF e
  <2>6. ~Flagged(c) /\ Flagged(c)'
    BY <2>1, <2>2, <2>3 DEF Flagged
  <2>7. \A p \in Calls : Flagged(p) => p # c /\ Flagged(p)' /\ calls'[p].transferredTo = calls[p].transferredTo
    BY <2>3, <2>6 DEF Flagged
  <2>8. \A x, p \in Calls : /\ Begot(x, p)' <=> Begot(x, p)
                            /\ Replaces(x, p)' <=> Replaces(x, p)
    BY <2>2, <2>3 DEF Begot, Replaces, Exists
  <2>9. \A p \in Calls : Seeks(tasks'[h], p) => p = c
    BY <2>4 DEF Seeks
  <2>10. \A x \in Calls : ~Begot(x, c)
    BY <1>2, <2>6 DEF TransferInv, ChildInv
  <2>11. \A g \in Tasks : ~Seeks(tasks[g], c)
    BY <1>2, <2>6 DEF TransferInv, SeekerInv
  <2>12. ASSUME NEW g \in Tasks PROVE SeekerInv(g)'
    <3>1. CASE g = h
      <4>1. ASSUME NEW p \in Calls, Seeks(tasks'[g], p)
            PROVE  /\ Flagged(p)' /\ \A x \in Calls : ~Begot(x, p)'
                   /\ \A f \in Tasks : Seeks(tasks'[f], p) => f = g
        BY <2>5, <2>6, <2>8, <2>9, <2>10, <2>11, <3>1, <4>1
      <4> QED BY <2>4, <3>1, <4>1 DEF SeekerInv
    <3>2. CASE g # h
      <4>1. tasks'[g] = tasks[g] /\ SeekerInv(g)
        BY <2>5, <3>2 DEF TransferInv
      <4>2. ASSUME NEW p \in Calls, Seeks(tasks'[g], p)
            PROVE  /\ Flagged(p)' /\ \A x \in Calls : ~Begot(x, p)'
                   /\ \A f \in Tasks : Seeks(tasks'[f], p) => f = g
                   /\ tasks'[g].pc # "retrace" => tasks'[g].to = calls'[p].transferredTo
        <5>1. Seeks(tasks[g], p) /\ Flagged(p) /\ p # c
          BY <2>7, <4>1, <4>2 DEF SeekerInv
        <5>2. ~Seeks(tasks'[h], p)
          BY <2>9, <5>1
        <5>3. \A f \in Tasks : Seeks(tasks'[f], p) => f = g
          BY <2>5, <4>1, <5>1, <5>2 DEF SeekerInv
        <5> QED BY <2>7, <2>8, <4>1, <5>1, <5>3 DEF SeekerInv
      <4> QED BY <4>1, <4>2 DEF SeekerInv
    <3> QED BY <3>1, <3>2
  <2>13. ASSUME NEW g \in Tasks PROVE SettlerInv(g)'
    <3>1. \A p \in Calls : Settles(tasks'[g], p) => Settles(tasks[g], p)
      BY <2>4, <2>5 DEF Settles
    <3> QED BY <2>8, <3>1 DEF TransferInv, SettlerInv
  <2>14. ASSUME NEW x \in Calls PROVE ChildInv(x)'
    <3>1. calls'[x].callee = calls[x].callee
      BY <2>2, <2>3
    <3> QED BY <2>7, <2>8, <3>1 DEF TransferInv, ChildInv
  <2>15. ASSUME NEW x \in Calls PROVE EndInv(x)'
    BY <2>2, <2>3, <2>8 DEF TransferInv, EndInv
  <2> QED BY <2>12, <2>13, <2>14, <2>15 DEF TransferInv
<1>4. CASE Finish(h) /\ UNCHANGED calls
  BY <1>4, SameCalls, FinishKept
<1> QED BY <1>2, <1>3, <1>4 DEF FlagTransfer

(* What the insertions write *)
LEMMA InsertedFields ==
  ASSUME NEW t \in Task, NEW e \in {NewCall(t), Prevented(NewCall(t))}
  PROVE  /\ e.state # "absent" /\ e.parent = t.parent /\ e.callee = t.to
         /\ e.reason = None /\ e.transferredBy = None
         /\ e = NewCall(t) => ~e.prevented
<1>1. CASE e = NewCall(t)
  BY <1>1 DEF NewCall, NoCall
<1>2. CASE e = Prevented(NewCall(t))
  BY <1>2 DEF Prevented, NewCall, NoCall
<1> QED BY <1>1, <1>2

(* The insertion of a record takes the token: nobody else has it, and no   *)
(* record was made with it before.                                         *)
LEMMA InsertKept ==
  ASSUME TypeOK, IInv, TransferInv, NEW h \in Tasks, NEW c \in Calls, tasks[h].pc = "create", ~Exists(c),
         NEW e \in {NewCall(tasks[h]), Prevented(NewCall(tasks[h]))}, Write(c, e),
         NEW t, Move(h, t), t.parent = tasks[h].parent,
         \/ t.pc = "tell" /\ e = NewCall(tasks[h])
         \/ t.pc = "recordPrevented"
  PROVE  TransferInv'
<1>1. /\ e.state # "absent" /\ e.parent = tasks[h].parent /\ e.callee = tasks[h].to
      /\ e.reason = None /\ e.transferredBy = None
      /\ t.pc = "tell" => ~e.prevented
  BY InsertedFields DEF TypeOK
<1>2. calls'[c] = e /\ \A x \in Calls \ {c} : calls'[x] = calls[x]
  BY DEF Write, TypeOK
<1>3. tasks'[h] = t /\ \A g \in Tasks \ {h} : tasks'[g] = tasks[g]
  BY DEF Move, TypeOK
<1> HIDE DEF Write, Move
<1>4. \A p \in Calls : ~Seeks(tasks'[h], p)
  BY <1>3 DEF Seeks
<1>5. \A p \in Calls : Flagged(p) => p # c /\ Flagged(p)' /\ calls'[p].transferredTo = calls[p].transferredTo
  <2>1. ~Flagged(c)
    BY DEF IInv, RecordsInv, RecordInv, Exists, NoCall, Flagged
  <2> QED BY <1>2, <2>1 DEF Flagged
<1>6. \A x, p \in Calls : x # c => (Begot(x, p)' <=> Begot(x, p))
  BY <1>2 DEF Begot, Exists
<1>7. \A x, p \in Calls : Replaces(x, p) => Replaces(x, p)'
  BY <1>2 DEF Replaces, Exists
<1>8. \A p \in Calls : Begot(c, p)' <=> p = tasks[h].parent
  BY <1>1, <1>2 DEF Begot, Exists
<1>9. \A p \in Calls : p = tasks[h].parent => Seeks(tasks[h], p)
  BY DEF Seeks
<1>10. SeekerInv(h)
  BY DEF TransferInv
<1>11. ASSUME NEW g \in Tasks PROVE SeekerInv(g)'
  <2>1. CASE g = h
    BY <1>3, <1>4, <2>1 DEF SeekerInv
  <2>2. CASE g # h
    <3>1. tasks'[g] = tasks[g] /\ SeekerInv(g)
      BY <1>3, <2>2 DEF TransferInv
    <3>2. ASSUME NEW p \in Calls, Seeks(tasks'[g], p)
          PROVE  /\ Flagged(p)' /\ \A x \in Calls : ~Begot(x, p)'
                 /\ \A f \in Tasks : Seeks(tasks'[f], p) => f = g
                 /\ tasks'[g].pc # "retrace" => tasks'[g].to = calls'[p].transferredTo
      <4>1. /\ Seeks(tasks[g], p) /\ Flagged(p)
            /\ \A x \in Calls : ~Begot(x, p)
            /\ \A f \in Tasks : Seeks(tasks[f], p) => f = g
            /\ tasks[g].pc # "retrace" => tasks[g].to = calls[p].transferredTo
        BY <3>1, <3>2 DEF SeekerInv
      <4>2. p # tasks[h].parent
        BY <1>9, <2>2, <4>1
      <4>3. \A x \in Calls : ~Begot(x, p)'
        BY <1>6, <1>8, <4>1, <4>2
      <4>4. \A f \in Tasks : Seeks(tasks'[f], p) => f = g
        BY <1>3, <1>4, <4>1
      <4> QED BY <1>5, <3>1, <4>1, <4>3, <4>4
    <3> QED BY <3>1, <3>2 DEF SeekerInv
  <2> QED BY <2>1, <2>2
<1>12. ASSUME NEW g \in Tasks PROVE SettlerInv(g)'
  <2>1. CASE g = h
    <3>1. ASSUME NEW p \in Calls, Settles(tasks'[h], p) PROVE Replaces(c, p)'
      BY <1>1, <1>2, <1>3, <3>1 DEF Settles, Replaces, Exists
    <3> QED BY <2>1, <3>1 DEF SettlerInv
  <2>2. CASE g # h
    BY <1>3, <1>7, <2>2 DEF TransferInv, SettlerInv
  <2> QED BY <2>1, <2>2
<1>13. ASSUME NEW x \in Calls, NEW p \in Calls, Begot(x, p)'
       PROVE  /\ Flagged(p)' /\ calls'[x].callee = calls'[p].transferredTo
              /\ \A d \in Calls : Begot(d, p)' => d = x
  <2>1. CASE x = c
    <3>1. p = tasks[h].parent /\ Seeks(tasks[h], p)
      BY <1>8, <1>9, <1>13, <2>1
    <3>2. Flagged(p) /\ tasks[h].to = calls[p].transferredTo /\ \A d \in Calls : ~Begot(d, p)
      BY <1>10, <3>1 DEF SeekerInv
    <3> QED BY <1>1, <1>2, <1>5, <1>6, <2>1, <3>2
  <2>2. CASE x # c
    <3>1. Begot(x, p)
      BY <1>6, <1>13, <2>2
    <3>2. /\ Flagged(p) /\ calls[x].callee = calls[p].transferredTo
          /\ \A d \in Calls : Begot(d, p) => d = x
      BY <3>1 DEF TransferInv, ChildInv
    <3>3. p # tasks[h].parent
      BY <1>9, <1>10, <3>1 DEF SeekerInv
    <3> QED BY <1>2, <1>5, <1>6, <1>8, <2>2, <3>2, <3>3
  <2> QED BY <2>1, <2>2
<1>14. ASSUME NEW p \in Calls PROVE EndInv(p)'
  <2>1. None # "transfer"
    BY NoneIsFresh DEF NoneIsFresh, Signals
  <2>2. calls'[p].reason = "transfer" => calls[p].reason = "transfer"
    BY <1>1, <1>2, <2>1
  <2> QED BY <1>7, <2>2 DEF TransferInv, EndInv
<1> QED BY <1>11, <1>12, <1>13, <1>14 DEF TransferInv, ChildInv

(* No inserted record begets two; the other actions keep the invariant.    *)
LEMMA TransferStep ==
  ASSUME TypeOK, IInv, TransferInv, Next
  PROVE  TransferInv'
<1>0. RecordsInv /\ TasksInv
  BY DEF IInv
<1>1. ASSUME NEW h \in Tasks, Begin(h) PROVE TransferInv'
  <2>1. CallsKept
    BY <1>1, SameCalls DEF Begin, ReceiveSignal, RequestCall, Register, FindExpired
  <2>2. ASSUME NEW t, Move(h, t), t.pc \in {"renew", "react", "expire"} PROVE TransferInv'
    BY <2>1, <2>2, ApartStep DEF Apart
  <2>3. ASSUME NEW c \in Calls, NEW s \in Sessions, NEW k \in SentSignals,
               NEW to \in TransferTargets \cup {None}, ReceiveSignal(h, c, s, k, to)
        PROVE  TransferInv'
    <3> DEFINE t == [Idle EXCEPT !.pc = "renew", !.kind = k, !.call = c, !.sess = s,
                                 !.seen = SnapshotOf(c), !.to = to]
    <3>1. Move(h, t) /\ t.pc = "renew"
      BY <2>3 DEF ReceiveSignal, Idle
    <3> QED BY <2>2, <3>1
  <2>4. ASSUME NEW r \in SentRequests, RequestCall(h, r.from, r.to, r.rid) PROVE TransferInv'
    <3> DEFINE t == [Idle EXCEPT !.pc = "checkBusy", !.kind = "request",
                                 !.sess = r.from, !.from = r.from, !.to = r.to, !.rid = r.rid]
    <3>1. Move(h, t) /\ t.pc = "checkBusy" /\ t.parent = None
      BY <2>4 DEF RequestCall, Idle
    <3> HIDE DEF t
    <3>2. Follows(h, t)
      BY <3>1 DEF Follows, Seeks, Settles
    <3> QED BY <2>1, <3>1, <3>2, MoverFollows, KeptStep
  <2>5. ASSUME NEW c \in Calls, NEW r \in Registrations, Register(h, c, r[1], r[2]) PROVE TransferInv'
    <3> DEFINE t == [Idle EXCEPT !.pc = "react", !.kind = "register", !.call = c,
                                 !.sess = r[1], !.old = r[2], !.seen = SnapshotOf(c)]
    <3>1. Move(h, t) /\ t.pc = "react"
      BY <2>5 DEF Register, Idle
    <3> QED BY <2>2, <3>1
  <2>6. ASSUME NEW c \in Calls, FindExpired(h, c) PROVE TransferInv'
    <3> DEFINE t == [Idle EXCEPT !.pc = "expire", !.kind = "sweep", !.call = c]
    <3>1. Move(h, t) /\ t.pc = "expire"
      BY <2>6 DEF FindExpired, Idle
    <3> QED BY <2>2, <3>1
  <2> QED BY <1>1, <2>3, <2>4, <2>5, <2>6 DEF Begin
<1>2. ASSUME NEW h \in Tasks, Finish(h), UNCHANGED calls PROVE TransferInv'
  BY <1>2, SameCalls, FinishKept
<1>3. ASSUME NEW h \in Tasks, Renew(h) PROVE TransferInv'
  <2>1. CallsKept
    BY <1>0, <1>3, ReadCall, RenewCallKept DEF Renew, At
  <2> DEFINE t == [tasks[h] EXCEPT !.pc = "act"]
  <2>2. Move(h, t) /\ t.pc = "act"
    BY <1>3 DEF Renew, Goto, TypeOK, Task
  <2> HIDE DEF t
  <2>3. Apart(t)
    BY <2>2 DEF Apart
  <2> QED BY <2>1, <2>2, <2>3, ApartStep
<1>4. ASSUME NEW h \in Tasks, StartRinging(h) PROVE TransferInv'
  <2>1. CallsKept
    BY <1>0, <1>4, ReadCall, UpdatesKept, SameCalls DEF StartRinging, At, UpdateOne
  <2> QED BY <1>4, <2>1, FinishKept DEF StartRinging
<1>5. ASSUME NEW h \in Tasks, AcceptCall(h) PROVE TransferInv'
  <2>1. CallsKept
    BY <1>0, <1>5, ReadCall, UpdatesKept, SameCalls DEF AcceptCall, At
  <2> QED BY <1>5, <2>1, FinishKept, AnnounceKept DEF AcceptCall
<1>6. ASSUME NEW h \in Tasks, Activate(h) PROVE TransferInv'
  <2>1. CallsKept
    BY <1>0, <1>6, ReadCall, UpdatesKept, SameCalls DEF Activate, At
  <2> QED BY <1>6, <2>1, FinishKept, AnnounceKept DEF Activate
<1>7. ASSUME NEW h \in Tasks, EndBySignal(h) PROVE TransferInv'
  <2> DEFINE reason == IF tasks[h].kind = "reject" THEN "rejected" ELSE tasks[h].kind
  <2>1. reason # "transfer"
    BY <1>7 DEF EndBySignal, WantsEnd
  <2> HIDE DEF reason
  <2>2. EndCall(h, tasks[h].call, UserOf[tasks[h].sess], reason)
    BY <1>7 DEF EndBySignal, reason
  <2>3. tasks[h].call \in Calls /\ Exists(tasks[h].call)
    BY <1>0, <1>7, ReadCall DEF EndBySignal, At
  <2> QED BY <1>0, <2>1, <2>2, <2>3, EndCallKept
<1>8. ASSUME NEW h \in Tasks, EndExpired(h) PROVE TransferInv'
  BY <1>0, <1>8, ReadCall, EndCallKept DEF EndExpired, At
<1>9. ASSUME NEW h \in Tasks, EndTransferred(h) PROVE TransferInv'
  <2> DEFINE c == tasks[h].parent
  <2>1. c \in Calls /\ tasks[h].pc = "endParent"
    BY <1>0, <1>9 DEF EndTransferred, At, TasksInv, CreatorInv, TypeOK, Task
  <2>2. \E x \in Calls : Replaces(x, c)
    BY <2>1 DEF TransferInv, SettlerInv, Settles
  <2>3. CASE calls[c].transferredBy # None /\ EndCall(h, c, UserOf[calls[c].transferredBy], "transfer")
    <3>1. Exists(c)
      BY <1>0, <2>1, <2>3 DEF RecordsInv, RecordInv, Exists, NoCall
    <3> QED BY <1>0, <2>1, <2>2, <2>3, <3>1, EndCallKept
  <2> QED BY <1>2, <1>9, <2>3 DEF EndTransferred
<1>10. ASSUME NEW h \in Tasks, React(h) PROVE TransferInv'
  <2>1. tasks[h].call \in Calls /\ Exists(tasks[h].call)
    BY <1>0, <1>10, ReadCall DEF React, At
  <2>2. CASE EndCall(h, tasks[h].call, UserOf[tasks[h].sess], "unknown")
    BY <1>0, <2>1, <2>2, EndCallKept
  <2>3. CASE (RenewCall(tasks[h].call) \/ UNCHANGED calls) /\ Finish(h)
    BY <2>1, <2>3, RenewCallKept, SameCalls, FinishKept
  <2> QED BY <1>10, <2>2, <2>3 DEF React
<1>11. ASSUME NEW h \in Tasks, CheckBusy(h) \/ CheckCaller(h) \/ CheckCallee(h) PROVE TransferInv'
  BY <1>2, <1>11, CheckKept DEF CheckBusy, CheckCaller, CheckCallee, At, RejectRequest
<1>12. ASSUME NEW h \in Tasks, NEW c \in Calls, CreateCall(h, c) PROVE TransferInv'
  <2> DEFINE e == NewCall(tasks[h])
             t == [tasks[h] EXCEPT !.pc = "tell", !.say = "new", !.call = c,
                                   !.todo = <<"caller", "callee">>]
  <2>1. t.pc = "tell" /\ t.parent = tasks[h].parent
    BY DEF TypeOK, Task
  <2>2. Write(c, e) /\ Move(h, t) /\ tasks[h].pc = "create" /\ ~Exists(c)
    BY <1>12 DEF CreateCall, At
  <2> HIDE DEF t
  <2> QED BY <2>1, <2>2, InsertKept
<1>13. ASSUME NEW h \in Tasks, NEW c \in Calls, PreventCall(h, c) PROVE TransferInv'
  <2> DEFINE e == Prevented(NewCall(tasks[h]))
             t == [tasks[h] EXCEPT !.pc = "recordPrevented", !.call = c]
  <2>1. t.pc = "recordPrevented" /\ t.parent = tasks[h].parent
    BY DEF TypeOK, Task
  <2>2. Write(c, e) /\ Move(h, t) /\ tasks[h].pc = "create" /\ ~Exists(c)
    BY <1>13 DEF PreventCall, At
  <2> HIDE DEF t
  <2> QED BY <2>1, <2>2, InsertKept
<1>14. ASSUME NEW h \in Tasks, Record(h) PROVE TransferInv'
  BY <1>14, SameCalls, AnnounceKept DEF Record
<1>15. ASSUME NEW c \in Calls, Expire(c) PROVE TransferInv'
  <2>1. CallsKept
    BY <1>15, UpdatesKept DEF Expire, Unfinished
  <2>2. \A g \in Tasks : Follows(g, tasks'[g])
    BY <1>15 DEF Expire, TransferInv, SeekerInv, Follows, Seeks
  <2> QED BY <2>1, <2>2, KeptStep
<1>16. CASE UNCHANGED <<calls, tasks>>
  <2>1. \A g \in Tasks : Follows(g, tasks'[g])
    BY <1>16 DEF TransferInv, SeekerInv, Follows, Seeks
  <2> QED BY <1>16, <2>1, SameCalls, KeptStep
<1>17. ASSUME NEW h \in Tasks, Continue(h) PROVE TransferInv'
  BY <1>2, <1>3, <1>4, <1>5, <1>6, <1>7, <1>8, <1>9, <1>10, <1>11, <1>12, <1>13, <1>14, <1>17,
     FlagTransferKept, RequestTransferKept, TellKept
  DEF Continue, Act, Creation, Ignore, RecordPrevented, FailCreation, RejectRequest
<1> QED BY <1>1, <1>2, <1>15, <1>16, <1>17, Environment
        DEF Environment, Next, Stimulus, RepeatRequest, Crash

(* Nobody has the token yet. *)
LEMMA TransferInit == Init => TransferInv
<1> SUFFICES ASSUME Init PROVE TransferInv
  OBVIOUS
<1>1. \A c \in Calls : calls[c].state = "absent" /\ calls[c].reason # "transfer"
  BY NoneIsFresh DEF NoneIsFresh, Signals, Init, NoCall
<1>2. \A h \in Tasks : tasks[h].pc = "idle"
  BY DEF Init, Idle
<1>3. \A h \in Tasks : SeekerInv(h) /\ SettlerInv(h)
  BY <1>2 DEF SeekerInv, SettlerInv, Seeks, Settles
<1>4. \A c \in Calls : ChildInv(c) /\ EndInv(c)
  BY <1>1 DEF ChildInv, EndInv, Begot, Exists
<1> QED BY <1>3, <1>4 DEF TransferInv

(* The token and the records agree throughout. *)
LEMMA TransferInvariance == Spec => []TransferInv
<1>1. TypeOK /\ IInv /\ TransferInv /\ [Next]_vars => TransferInv'
  <2> SUFFICES ASSUME TypeOK, IInv, TransferInv, [Next]_vars PROVE TransferInv'
    OBVIOUS
  <2>1. CASE UNCHANGED vars
    <3>1. \A g \in Tasks : Follows(g, tasks'[g])
      BY <2>1 DEF vars, TransferInv, SeekerInv, Follows, Seeks
    <3> QED BY <2>1, <3>1, SameCalls, KeptStep DEF vars
  <2> QED BY <2>1, TransferStep
<1> QED BY <1>1, TransferInit, Invariance, PTL DEF Spec

(* One call is replaced at most once, however often and by whichever side  *)
(* its transfer is requested, and whatever crashes in between.             *)
THEOREM ReplacedAtMostOnce == Spec => []ReplacedOnce
<1>1. TransferInv => ReplacedOnce
  BY DEF TransferInv, ChildInv, Begot, Replaces, ReplacedOnce
<1> QED BY <1>1, TransferInvariance, PTL

(* A call that ended because of a transfer has been replaced by a call to  *)
(* the party that it was transferred to: nobody is hung up on for a call   *)
(* that was refused, prevented or lost.                                    *)
THEOREM TransferReplaces == Spec => []TransferEndsReplaced
<1>1. TransferInv => TransferEndsReplaced
  <2> SUFFICES ASSUME TransferInv, NEW p \in Calls, calls[p].reason = "transfer"
               PROVE  \E c \in Calls : Replaces(c, p) /\ calls[c].callee = calls[p].transferredTo
    BY DEF TransferEndsReplaced
  <2>1. PICK c \in Calls : Replaces(c, p)
    BY DEF TransferInv, EndInv
  <2>2. calls[c].callee = calls[p].transferredTo
    BY <2>1 DEF TransferInv, ChildInv, Begot, Replaces
  <2> QED BY <2>1, <2>2
<1> QED BY <1>1, TransferInvariance, PTL
=============================================================================
