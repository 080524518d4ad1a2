------------------------ MODULE CallServerProperties ------------------------
(***************************************************************************)
(* What the call server guarantees about the records, notices and history  *)
(* of CallServer.  CallServerProofs proves the safety part for every value *)
(* of the constants; the MC modules check all of it on small instances.    *)
(***************************************************************************)
EXTENDS CallServer

(* The record machine that the collection implements. *)
Lifecycle == INSTANCE MediaCallLifecycle
               WITH state <- [c \in Calls |-> calls[c].state],
                    contract <- [c \in Calls |-> calls[c].contract],
                    history <- history

-----------------------------------------------------------------------------
(* Safety *)

(* The fields of a record agree, whatever was interleaved: ended goes with *)
(* state hangup (hangupCallById), a busy call was accepted, only accepted  *)
(* calls are activated or transferred, and both signing sessions belong to *)
(* the right user.                                                         *)
RecordConsistent ==
    \A c \in Calls : LET d == calls[c] IN
        /\ d.ended <=> d.state = "hangup"
        /\ d.state \in Busy => d.contract # None
        /\ d.state \in Pending => d.contract = None
        /\ d.state = "active" => d.activated
        /\ d.activated \/ d.transferredBy # None => d.contract # None
        /\ d.contract # None => UserOf[d.contract] = d.callee
        /\ d.caller # d.callee \/ d.state = "absent"

(* Once a call has ended its record is final: no late signal, transfer,    *)
(* renewal or second hangup of a task that read it earlier changes a field *)
(* (the filters on state and ended in every update of MediaCalls).         *)
EndIsFinal == [][\A c \in Calls : calls[c].ended => calls'[c] = calls[c]]_vars

(* The session that signed for the callee stays the one that signed, even  *)
(* if several sessions of the callee accept at once (acceptCallById).      *)
ContractIsFinal ==
    [][\A c \in Calls : calls[c].contract # None => calls'[c].contract = calls[c].contract]_vars

(* Of several sessions of the callee that answer, only the one whose       *)
(* contract is stored is ever told that it has the call: a second one      *)
(* would go on to send its media (onCallAccepted, getStateNotification).   *)
AcceptedNoticeNamesWinner ==
    \A n \in notices : n.type = "accepted" /\ n.user = calls[n.call].callee
                         => n.contract # None /\ n.contract = calls[n.call].contract

(* An end is reported to the history at most once, and only a call that is *)
(* over is reported: concurrent hangups, sweeps and transfers cannot write *)
(* the entries twice (hangupCallById's callers, saveCallToHistory).        *)
HistoryAtMostOnce == \A c \in Calls : history[c] <= 1 /\ (history[c] = 1 => calls[c].ended)

(* A user is told that a call ended only after its record says so: no      *)
(* client tears down a call that the server still keeps (triggerOnCallEnded,*)
(* hangupDetachedCall).                                                    *)
HangupNoticeIsTrue == \A n \in notices : n.type = "hangup" => calls[n.call].ended

(* Call c was created to replace call p. *)
Replaces(c, p) == Exists(c) /\ calls[c].parent = p /\ ~calls[c].prevented

(* "the old call will only end when the new one is created": a call that   *)
(* ended because of a transfer has been replaced by a call to the party    *)
(* that it was transferred to (InternalCallProvider.createCall).           *)
TransferEndsReplaced ==
    \A p \in Calls : calls[p].reason = "transfer" =>
        \E c \in Calls : Replaces(c, p) /\ calls[c].callee = calls[p].transferredTo

(* One call is replaced at most once, however often and by whichever side  *)
(* its transfer is requested (transferredAt in transferCallById).          *)
ReplacedOnce ==
    \A c, d, p \in Calls : Replaces(c, p) /\ Replaces(d, p) => c = d

(* The records move as MediaCallLifecycle allows. *)
ImplementsLifecycle == Lifecycle!Spec

-----------------------------------------------------------------------------
(* Liveness, when no task crashes *)

Told(c, role) == \E n \in notices : /\ n.type = "hangup" /\ n.call = c
                                    /\ n.user = UserIn(c, role)

(* When a call that was under way ends, its end reaches the history and    *)
(* both users, whoever ended it and whichever tasks were in flight         *)
(* (hangupCallById, triggerOnCallEnded, hangupDetachedCall).               *)
EndReachesEverybody ==
    \A c \in Calls :
        calls[c].ended /\ ~calls[c].prevented
          ~> history[c] = 1 /\ Told(c, "caller") /\ Told(c, "callee")

(* A request of a call is answered: by the new call, or by a rejection     *)
(* that carries its id (requestCall, rejectCallRequest).                   *)
RequestIsAnswered ==
    \A h \in Tasks, s \in Sessions, r \in RequestIds :
        tasks[h].kind = "request" /\ tasks[h].sess = s /\ tasks[h].rid = r
          ~> \E n \in notices :
               \/ n.type = "rejected" /\ n.call = r /\ n.user = UserOf[s]
               \/ n.type = "new" /\ n.user = UserOf[s] /\ n.call \in Calls
                                 /\ calls[n.call].request = r

(* A transfer does not leave the old call hanging: the call ends, or the   *)
(* one who asked for the transfer is told that it failed                   *)
(* (onCallTransferred, requestCall, hangupTransferredCallById).            *)
TransferIsSettled ==
    \A c \in Calls, s \in Sessions :
        calls[c].transferredBy = s
          ~> \/ calls[c].ended
             \/ \E n \in notices : /\ n.type = "rejected" /\ n.call = c
                                   /\ n.user = UserOf[s]
-----------------------------------------------------------------------------
(* The inductive invariant behind the safety properties *)

(* A record: RecordConsistent, and who the signing sessions belong to. *)
RecordInv(d) ==
    /\ d.state = "absent" => d = NoCall
    /\ d.ended <=> d.state = "hangup"
    /\ d.state \in Busy => d.contract # None
    /\ d.state \in Pending => d.contract = None
    /\ d.state = "active" => d.activated
    /\ d.activated => d.contract # None
    /\ d.transferredBy # None => d.contract # None /\ d.transferredTo # None
    /\ d.contract # None => UserOf[d.contract] = d.callee
    /\ d.state # "absent" => /\ d.callerContract # None /\ UserOf[d.callerContract] = d.caller
                             /\ d.callee # None /\ d.caller # d.callee

(* Task t, which has read a record, knows its sender and may rely on the   *)
(* signature it saw.                                                       *)
ReaderInv(t) ==
    /\ t.pc \in {"renew", "act", "retrace", "react", "expire", "record", "recordPrevented", "tell"}
         => t.call # None /\ Exists(t.call)
    /\ t.pc \in {"renew", "act", "retrace", "react"} => t.sess # None /\ TakesPart(t.call, UserOf[t.sess])
    /\ t.pc \in {"renew", "act", "react"} =>
         /\ t.seen.contract # None => calls[t.call].contract = t.seen.contract
         /\ t.seen.state \in Busy => t.seen.contract # None
         /\ t.kind = "transfer" => t.to # None
    /\ t.pc = "retrace" => calls[t.call].transferredBy # None

(* Task t, which is about to create a call, has what the record needs. *)
CreatorInv(t) ==
    /\ t.pc \in {"checkBusy", "checkCaller", "checkCallee", "create", "recordPrevented"} =>
         /\ t.sess # None /\ t.from # None /\ t.to # None
         /\ t.rid # None \/ t.parent # None
    /\ t.pc \in {"checkCallee", "create"} => UserOf[t.from] # t.to
    /\ t.pc = "endParent" => t.parent # None

(* What task t is about to tell is so. *)
TellerInv(t) ==
    t.pc = "tell" =>
        /\ t.say # "none" /\ t.todo # << >>
        /\ t.say = "accepted" => t.sess # None /\ calls[t.call].contract = t.sess
        /\ t.say = "hangup" => calls[t.call].ended

(* A task that ended call c has yet to report it, and is the only one. *)
Reports(h, c) == tasks[h].pc \in {"record", "recordPrevented"} /\ tasks[h].call = c

ReporterInv(c) ==
    /\ history[c] <= 1
    /\ history[c] = 1 => calls[c].ended
    /\ \A h \in Tasks : Reports(h, c) =>
         /\ calls[c].ended /\ history[c] = 0
         /\ \A g \in Tasks : Reports(g, c) => g = h

(* What notice n told is so, and stays so. *)
NoticeInv(n) ==
    /\ n.type \in {"accepted", "hangup"} => n.call \in Calls /\ Exists(n.call)
    /\ n.type = "accepted" /\ n.user = calls[n.call].callee
         => n.contract # None /\ n.contract = calls[n.call].contract
    /\ n.type = "hangup" => calls[n.call].ended

RecordsInv == \A c \in Calls : RecordInv(calls[c])
TasksInv == \A h \in Tasks : ReaderInv(tasks[h]) /\ CreatorInv(tasks[h]) /\ TellerInv(tasks[h])
ReportsInv == \A c \in Calls : ReporterInv(c)
NoticesInv == \A n \in notices : NoticeInv(n)

IInv == RecordsInv /\ TasksInv /\ ReportsInv /\ NoticesInv
=============================================================================
