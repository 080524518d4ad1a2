----------------------------- MODULE CallServer -----------------------------
(***************************************************************************)
(* The media call server for calls between two users of the workspace      *)
(* (ee/packages/media-calls).  The call records live in a MongoDB          *)
(* collection, whose every update is one atomic conditional write.  A      *)
(* client signal, a call request, a client registration and a sweep over   *)
(* expired calls are asynchronous tasks: each one reads a record once,     *)
(* decides on that snapshot, and awaits between its database steps, so the *)
(* tasks interleave at every step here.                                    *)
(*                                                                         *)
(* The WebRTC negotiation of a call (another collection), SIP calls and    *)
(* the clients themselves are not part of this module.                     *)
(***************************************************************************)
EXTENDS Naturals, Sequences

CONSTANTS
    Users,       \* users of the workspace
    Sessions,    \* client sessions, named by their contract ids
    UserOf,      \* the user who is logged in on each session
    Calls,       \* identifiers a call record may get (randomUUID)
    RequestIds,  \* identifiers that clients make up for the calls they request
    Tasks,       \* server tasks that can be in flight at once
    None,        \* "no such field"
    \* What clients and faults do.  No definition depends on these: they bound
    \* the instances.
    SentSignals,    \* the kinds of signals about an existing call
    TransferTargets,\* the users to whom they transfer calls
    SentRequests,   \* the calls they request: records [from, to, rid]
    Registrations,  \* the registrations: pairs of a session and the one it replaces
    Neglected,      \* the calls that may go without renewal until they expire
    Mortal          \* the tasks that may crash

ASSUME SessionsBelongToUsers == UserOf \in [Sessions -> Users]

(* Signals of a client about an existing call, by what the handlers tell   *)
(* apart.  "hangup" is one that speaks for the session, "another-client"   *)
(* one that is sent because another session took the call, "local-active"  *)
(* a local-state signal with clientState active; "error" and               *)
(* "service-error" are critical; "other" is every signal that leaves the   *)
(* record alone (uncritical errors, DTMF, local states, descriptions).     *)
EndingSignals == {"reject", "unavailable", "hangup", "another-client", "error", "service-error"}
Signals == EndingSignals \cup {"ack", "accept", "local-active", "transfer", "other"}

ASSUME NoneIsFresh == None \notin Users \cup Sessions \cup Calls \cup RequestIds
                                 \cup Signals \cup {"rejected", "unknown", "expired"}

ASSUME Environment ==
    /\ SentSignals \subseteq Signals
    /\ TransferTargets \subseteq Users
    /\ SentRequests \subseteq [from : Sessions, to : Users, rid : RequestIds]
    /\ Registrations \subseteq Sessions \X (Sessions \cup {None})
    /\ Neglected \subseteq Calls
    /\ Mortal \subseteq Tasks

VARIABLES
    calls,    \* the media_calls collection: calls[c] is the record c
    tasks,    \* tasks[h]: where task h is in its handler and what it read
    history,  \* history[c]: how often saveCallToHistory was asked for the ended call c
    notices   \* every signal sent to a user so far

vars == <<calls, tasks, history, notices>>

-----------------------------------------------------------------------------
(* Records *)

Roles == {"caller", "callee"}

(* isPendingState and the two stored states of isBusyState *)
Pending == {"none", "ringing"}
Busy == {"accepted", "active"}
States == {"absent", "hangup"} \cup Pending \cup Busy

(* hangupReason; the wording of "hangup" is the client's *)
Reasons == (EndingSignals \ {"reject"}) \cup {"rejected", "transfer", "unknown", "expired", None}

(* A record of the collection.  acceptedAt is set together with contract   *)
(* (callee.contractId), and transferredAt with transferredBy.  expired     *)
(* says that the clock has passed expiresAt.                               *)
CallDoc == [state : States, ended : BOOLEAN,
            caller : Users \cup {None}, callerContract : Sessions \cup {None},
            callee : Users \cup {None}, contract : Sessions \cup {None},
            activated : BOOLEAN, expired : BOOLEAN,
            transferredBy : Sessions \cup {None}, transferredTo : Users \cup {None},
            parent : Calls \cup {None}, request : RequestIds \cup {None},
            prevented : BOOLEAN,
            endedBy : Users \cup {"server", None}, reason : Reasons]

NoCall == [state |-> "absent", ended |-> FALSE,
           caller |-> None, callerContract |-> None,
           callee |-> None, contract |-> None,
           activated |-> FALSE, expired |-> FALSE,
           transferredBy |-> None, transferredTo |-> None,
           parent |-> None, request |-> None,
           prevented |-> FALSE,
           endedBy |-> None, reason |-> None]

(* What a handler keeps of the record it read. *)
Snapshot == [state : States, activated : BOOLEAN, contract : Sessions \cup {None}]

NoSnapshot == [state |-> "absent", activated |-> FALSE, contract |-> None]

(* A task: pc is its next database or notification step; call the record   *)
(* it works on; sess the session that sent the signal; old the session     *)
(* that a registering client replaces; from, to and rid the caller's       *)
(* session, the callee and the requested id of a call to create; parent    *)
(* the call that is being transferred; say and todo the notices to send.   *)
Steps == {"idle", "renew", "act", "react", "expire", "retrace", "checkBusy",
          "checkCaller", "checkCallee", "create", "endParent", "record",
          "recordPrevented", "tell"}

Task == [pc : Steps, kind : Signals \cup {"none", "request", "register", "sweep"},
         call : Calls \cup {None}, sess : Sessions \cup {None},
         seen : Snapshot, old : Sessions \cup {None},
         from : Sessions \cup {None}, to : Users \cup {None},
         rid : RequestIds \cup {None}, parent : Calls \cup {None},
         say : {"none", "new", "accepted", "active", "hangup"}, todo : Seq(Roles)]

Idle == [pc |-> "idle", kind |-> "none", call |-> None, sess |-> None,
         seen |-> NoSnapshot, old |-> None, from |-> None, to |-> None,
         rid |-> None, parent |-> None, say |-> "none", todo |-> << >>]

Notice == [type : {"new", "accepted", "active", "hangup", "rejected"},
           call : Calls \cup RequestIds, user : Users,
           contract : Sessions \cup {None}]

TypeOK == /\ calls \in [Calls -> CallDoc]
          /\ tasks \in [Tasks -> Task]
          /\ history \in [Calls -> Nat]
          /\ notices \subseteq Notice

Init == /\ calls = [c \in Calls |-> NoCall]
        /\ tasks = [h \in Tasks |-> Idle]
        /\ history = [c \in Calls |-> 0]
        /\ notices = {}

-----------------------------------------------------------------------------
(* Helpers *)

Exists(c) == calls[c].state # "absent"
Unfinished(c) == Exists(c) /\ ~calls[c].ended

Opposite(role) == IF role = "caller" THEN "callee" ELSE "caller"

UserIn(c, role) == IF role = "caller" THEN calls[c].caller ELSE calls[c].callee

(* getCallRoleForUser, for a user who takes part in the call *)
RoleOf(c, u) == IF calls[c].caller = u THEN "caller" ELSE "callee"

TakesPart(c, u) == Exists(c) /\ u \in {calls[c].caller, calls[c].callee}

(* hasUnfinishedCallsByUid: expired calls count until they are ended. *)
HasUnfinished(u, except) == \E c \in Calls : Unfinished(c) /\ TakesPart(c, u) /\ c # except

SnapshotOf(c) == [state |-> calls[c].state, activated |-> calls[c].activated,
                  contract |-> calls[c].contract]

(* The contract of one side of the call, as task h read it.  The caller's  *)
(* is written by the insertion and never changes.                          *)
SeenContract(h, role) == IF role = "caller" THEN calls[tasks[h].call].callerContract
                                            ELSE tasks[h].seen.contract

At(h, step) == tasks[h].pc = step

Move(h, t) == tasks' = [tasks EXCEPT ![h] = t]

Goto(h, step) == Move(h, [tasks[h] EXCEPT !.pc = step])

(* The task has nothing left to do, or its promise was rejected. *)
Finish(h) == Move(h, Idle)

(* Begin to send a notice to each role of the sequence in turn. *)
Announce(h, say, todo) ==
    Move(h, [tasks[h] EXCEPT !.pc = "tell", !.say = say, !.todo = todo])

(* Document d of the collection is replaced by e.  updateOne writes if the *)
(* filter matches and otherwise leaves the collection alone.               *)
Write(c, e) == calls' = [calls EXCEPT ![c] = e]

UpdateOne(c, matches, e) == \/ matches /\ Write(c, e)
                            \/ ~matches /\ UNCHANGED calls

MyRole(h) == RoleOf(tasks[h].call, UserOf[tasks[h].sess])
Signed(h) == SeenContract(h, MyRole(h)) = tasks[h].sess

(* sendSignal of a notice about the task's call. *)
NoticeTo(c, role, type, contract) ==
    [type |-> type, call |-> c, user |-> UserIn(c, role), contract |-> contract]

-----------------------------------------------------------------------------
(* Reading the record: the first step of GlobalSignalProcessor             *)

(* processCallSignal up to its first write: the sender must be exactly one *)
(* of the two users, and a session other than the one that signed for them *)
(* is ignored, unless it hangs up on behalf of another client.             *)
ReceiveSignal(h, c, s, k, to) ==
    /\ At(h, "idle")
    /\ TakesPart(c, UserOf[s])
    /\ LET role == RoleOf(c, UserOf[s])
           signer == IF role = "caller" THEN calls[c].callerContract ELSE calls[c].contract
       IN  k = "another-client" \/ signer \in {None, s}
    /\ (to # None) <=> (k = "transfer")
    /\ Move(h, [Idle EXCEPT !.pc = "renew", !.kind = k, !.call = c, !.sess = s,
                            !.seen = SnapshotOf(c), !.to = to])
    /\ UNCHANGED <<calls, history, notices>>

(* setExpiresAtById matches a call that has not ended. *)
Renewed(d) == [d EXCEPT !.expired = FALSE]

RenewCall(c) == UpdateOne(c, ~calls[c].ended, Renewed(calls[c]))

(* renewCallId *)
Renew(h) ==
    /\ At(h, "renew")
    /\ RenewCall(tasks[h].call)
    /\ Goto(h, "act")
    /\ UNCHANGED <<history, notices>>

-----------------------------------------------------------------------------
(* Acting on the snapshot: UserActorSignalProcessor                        *)

(* validatePendingCallee *)
PendingCallee(h) == MyRole(h) = "callee" /\ tasks[h].seen.state \in Pending

(* What each signal asks for, given what the task read. *)
WantsRing(h) == /\ tasks[h].kind = "ack"
                /\ MyRole(h) = "callee" /\ tasks[h].seen.state = "none"

WantsAccept(h) == tasks[h].kind = "accept" /\ PendingCallee(h)

WantsActivate(h) == /\ tasks[h].kind = "local-active"
                    /\ Signed(h) /\ ~tasks[h].seen.activated

WantsTransfer(h) == tasks[h].kind = "transfer" /\ tasks[h].seen.state \in Busy

WantsEnd(h) == \/ tasks[h].kind = "reject" /\ PendingCallee(h)
               \/ tasks[h].kind \in {"unavailable", "error"} /\ Signed(h)
               \/ tasks[h].kind \in {"hangup", "another-client"}
               \/ /\ tasks[h].kind = "service-error" /\ Signed(h)
                  /\ tasks[h].seen.state \notin {"active", "hangup"}

(* Early returns: nothing is asked of the record. *)
Ignore(h) ==
    /\ At(h, "act")
    /\ ~(WantsRing(h) \/ WantsAccept(h) \/ WantsActivate(h) \/ WantsTransfer(h) \/ WantsEnd(h))
    /\ Finish(h)
    /\ UNCHANGED <<calls, history, notices>>

(* clientIsReachable: startRingingById matches only state none. *)
Rung(d) == [d EXCEPT !.state = "ringing", !.expired = FALSE]

(* A bug to find: an answered call may go back to ringing. *)
CanRingUnlessEnded(c) == ~calls[c].ended

CanRing(c) == calls[c].state = "none"

StartRinging(h) ==
    /\ At(h, "act") /\ WantsRing(h)
    /\ LET c == tasks[h].call IN UpdateOne(c, CanRing(c), Rung(calls[c]))
    /\ Finish(h)
    /\ UNCHANGED <<history, notices>>

(* acceptCall: acceptCallById matches only a pending call; the winner then *)
(* tells the callee first and the caller next.                             *)
Accepted(d, s) == [d EXCEPT !.state = "accepted", !.contract = s, !.expired = FALSE]

CanAccept(c) == calls[c].state \in Pending

(* A bug to find: modifiedCount is not looked at. *)
AcceptCallUnchecked(h) ==
    /\ At(h, "act") /\ WantsAccept(h)
    /\ LET c == tasks[h].call IN UpdateOne(c, CanAccept(c), Accepted(calls[c], tasks[h].sess))
    /\ Announce(h, "accepted", <<"callee", "caller">>)
    /\ UNCHANGED <<history, notices>>

AcceptCall(h) ==
    /\ At(h, "act") /\ WantsAccept(h)
    /\ LET c == tasks[h].call IN
       \/ /\ CanAccept(c)
          /\ Write(c, Accepted(calls[c], tasks[h].sess))
          /\ Announce(h, "accepted", <<"callee", "caller">>)
       \/ /\ ~CanAccept(c)
          /\ Finish(h)
          /\ UNCHANGED calls
    /\ UNCHANGED <<history, notices>>

(* activate: activateCallById matches only state accepted; the other side  *)
(* is told.                                                                *)
Activated(d) == [d EXCEPT !.state = "active", !.activated = TRUE, !.expired = FALSE]

(* A bug to find: whatever is not active yet may be activated. *)
CanActivateAny(c) == ~calls[c].activated

CanActivate(c) == calls[c].state = "accepted"

Activate(h) ==
    /\ At(h, "act") /\ WantsActivate(h)
    /\ LET c == tasks[h].call IN
       \/ /\ CanActivate(c)
          /\ Write(c, Activated(calls[c]))
          /\ Announce(h, "active", <<Opposite(MyRole(h))>>)
       \/ /\ ~CanActivate(c)
          /\ Finish(h)
          /\ UNCHANGED calls
    /\ UNCHANGED <<history, notices>>

-----------------------------------------------------------------------------
(* Ending a call                                                           *)

(* A bug to find: the field ended is forgotten. *)
EndedInState(d, by, reason) == [d EXCEPT !.state = "hangup", !.endedBy = by, !.reason = reason]

(* hangupCallById matches only a call that has not ended; whoever wins     *)
(* goes on to report the end.                                              *)
Ended(d, by, reason) == [d EXCEPT !.state = "hangup", !.ended = TRUE,
                                  !.endedBy = by, !.reason = reason]

(* A bug to find: the filter on ended is missing. *)
CanEndAny(c) == Exists(c)

CanEnd(c) == ~calls[c].ended

(* A bug to find: the one who loses reports the end, too. *)
EndCallUnchecked(h, c, by, reason) ==
    /\ UpdateOne(c, CanEnd(c), Ended(calls[c], by, reason))
    /\ Move(h, [tasks[h] EXCEPT !.pc = "record", !.call = c])

EndCall(h, c, by, reason) ==
    \/ /\ CanEnd(c)
       /\ Write(c, Ended(calls[c], by, reason))
       /\ Move(h, [tasks[h] EXCEPT !.pc = "record", !.call = c])
    \/ /\ ~CanEnd(c)
       /\ Finish(h)
       /\ UNCHANGED calls

(* A bug to find: the signal's name is stored as the reason. *)
EndBySignalVerbatim(h) ==
    /\ At(h, "act") /\ WantsEnd(h)
    /\ EndCall(h, tasks[h].call, UserOf[tasks[h].sess], tasks[h].kind)
    /\ UNCHANGED <<history, notices>>

(* MediaCallDirector.hangup on behalf of the signal's sender *)
EndBySignal(h) ==
    /\ At(h, "act") /\ WantsEnd(h)
    /\ EndCall(h, tasks[h].call, UserOf[tasks[h].sess],
               IF tasks[h].kind = "reject" THEN "rejected" ELSE tasks[h].kind)
    /\ UNCHANGED <<history, notices>>

(* A bug to find: the sender of the ending signal is not told. *)
RecordForOther(h) ==
    /\ At(h, "record")
    /\ history' = [history EXCEPT ![tasks[h].call] = @ + 1]
    /\ \E first \in (IF tasks[h].kind \in EndingSignals THEN {Opposite(MyRole(h))} ELSE Roles) :
         Announce(h, "hangup", <<first>>)
    /\ UNCHANGED <<calls, notices>>

(* The winner asks for the history entry, emits callEnded, and tells the   *)
(* two sides: the sender of an ending signal first, in any order when the  *)
(* call was ended without an agent (hangupDetachedCall).                   *)
Record(h) ==
    /\ At(h, "record")
    /\ LET c == tasks[h].call IN
       /\ history' = [history EXCEPT ![c] = @ + 1]
       /\ \E first \in (IF tasks[h].kind \in EndingSignals THEN {MyRole(h)} ELSE Roles) :
            Announce(h, "hangup", <<first, Opposite(first)>>)
    /\ UNCHANGED <<calls, notices>>

(* One notice to one side.  An accepted notice names the session that      *)
(* signed for its addressee.  After the notices about a new call, the call *)
(* that it replaces is ended.                                              *)
Named(h, role) == IF tasks[h].say # "accepted" THEN None
                  ELSE IF role = "callee" THEN tasks[h].sess
                  ELSE calls[tasks[h].call].callerContract

ReplacesParent(h) == tasks[h].say = "new" /\ tasks[h].parent # None

Tell(h) ==
    /\ At(h, "tell")
    /\ LET todo == tasks[h].todo IN
       /\ notices' = notices \cup {NoticeTo(tasks[h].call, Head(todo), tasks[h].say,
                                            Named(h, Head(todo)))}
       /\ \/ Len(todo) > 1 /\ Announce(h, tasks[h].say, Tail(todo))
          \/ Len(todo) = 1 /\ ReplacesParent(h) /\ Goto(h, "endParent")
          \/ Len(todo) = 1 /\ ~ReplacesParent(h) /\ Finish(h)
    /\ UNCHANGED <<calls, history>>

-----------------------------------------------------------------------------
(* Creating a call                                                         *)

(* A bug to find: only a request that has an id is rejected. *)
RejectRequestById(h) ==
    LET t == tasks[h] IN
    /\ IF t.rid = None THEN UNCHANGED notices
       ELSE notices' = notices \cup {[type |-> "rejected", call |-> t.rid,
                                      user |-> UserOf[t.sess], contract |-> t.sess]}
    /\ Finish(h)

(* CallRejectedError: the requester is told; the notice carries the        *)
(* requested id, or the id of the call that was to be transferred.         *)
RejectRequest(h) ==
    LET t == tasks[h] IN
    /\ notices' = notices \cup {[type |-> "rejected",
                                 call |-> IF t.rid # None THEN t.rid ELSE t.parent,
                                 user |-> UserOf[t.sess], contract |-> t.sess]}
    /\ Finish(h)

(* getExistingRequestedCall finds the call: its new-call signal is sent    *)
(* again while the requester's own call is pending, and refused otherwise. *)
RepeatRequest(s, rid, c) ==
    /\ calls[c].caller = UserOf[s] /\ calls[c].request = rid
    /\ notices' = notices \cup
         {IF calls[c].state \in Pending /\ calls[c].callerContract = s
            THEN NoticeTo(c, "caller", "new", None)
            ELSE [type |-> "rejected", call |-> rid,
                  user |-> UserOf[s], contract |-> s]}
    /\ UNCHANGED <<calls, tasks, history>>

(* getExistingRequestedCall finds nothing. *)
RequestCall(h, s, to, rid) ==
    /\ At(h, "idle")
    /\ ~\E c \in Calls : calls[c].caller = UserOf[s] /\ calls[c].request = rid
    /\ Move(h, [Idle EXCEPT !.pc = "checkBusy", !.kind = "request",
                            !.sess = s, !.from = s, !.to = to, !.rid = rid])
    /\ UNCHANGED <<calls, history, notices>>

(* processRequestCallSignal: a caller with an unfinished call is refused. *)
CheckBusy(h) ==
    /\ At(h, "checkBusy")
    /\ \/ /\ HasUnfinished(UserOf[tasks[h].sess], None)
          /\ RejectRequest(h)
       \/ /\ ~HasUnfinished(UserOf[tasks[h].sess], None)
          /\ Goto(h, "checkCaller")
          /\ UNCHANGED notices
    /\ UNCHANGED <<calls, history>>

(* parseCallContacts may refuse for lack of a permission or of a contact;  *)
(* then InternalCallProvider.createCall refuses a call to oneself and a    *)
(* caller with an unfinished call other than the one being transferred.    *)
CheckCaller(h) ==
    /\ At(h, "checkCaller")
    /\ \/ RejectRequest(h)
       \/ /\ UserOf[tasks[h].from] # tasks[h].to
          /\ ~HasUnfinished(UserOf[tasks[h].from], tasks[h].parent)
          /\ Goto(h, "checkCallee")
          /\ UNCHANGED notices
    /\ UNCHANGED <<calls, history>>

CheckCallee(h) ==
    /\ At(h, "checkCallee")
    /\ \/ /\ HasUnfinished(tasks[h].to, None)
          /\ RejectRequest(h)
       \/ /\ ~HasUnfinished(tasks[h].to, None)
          /\ Goto(h, "create")
          /\ UNCHANGED notices
    /\ UNCHANGED <<calls, history>>

(* The fields of getCallIdentity *)
NewCall(t) == [NoCall EXCEPT !.state = "none",
                             !.caller = UserOf[t.from], !.callerContract = t.from,
                             !.callee = t.to, !.parent = t.parent, !.request = t.rid]

(* createCall: no app prevents the call, and it is inserted. *)
CreateCall(h, c) ==
    /\ At(h, "create")
    /\ ~Exists(c)
    /\ Write(c, NewCall(tasks[h]))
    /\ Move(h, [tasks[h] EXCEPT !.pc = "tell", !.say = "new", !.call = c,
                                !.todo = <<"caller", "callee">>])
    /\ UNCHANGED <<history, notices>>

Prevented(d) == [d EXCEPT !.state = "hangup", !.ended = TRUE, !.expired = TRUE,
                          !.prevented = TRUE, !.endedBy = "server"]

(* recordPreventedCall: an app prevented the call; a record that is already *)
(* over is inserted for the history.                                       *)
PreventCall(h, c) ==
    /\ At(h, "create")
    /\ ~Exists(c)
    /\ Write(c, Prevented(NewCall(tasks[h])))
    /\ Move(h, [tasks[h] EXCEPT !.pc = "recordPrevented", !.call = c])
    /\ UNCHANGED <<history, notices>>

RecordPrevented(h) ==
    /\ At(h, "recordPrevented")
    /\ history' = [history EXCEPT ![tasks[h].call] = @ + 1]
    /\ RejectRequest(h)
    /\ UNCHANGED calls

(* A bug to find: the error is swallowed. *)
FailCreationSilently(h) ==
    /\ At(h, "create")
    /\ Finish(h)
    /\ UNCHANGED <<calls, history, notices>>

(* A bug to find: the call that was to be replaced is ended all the same. *)
FailCreationEndingParent(h) ==
    /\ At(h, "create")
    /\ IF tasks[h].parent # None
         THEN Goto(h, "endParent") /\ UNCHANGED notices
         ELSE RejectRequest(h)
    /\ UNCHANGED <<calls, history>>

(* The insertion, or the hook before it, fails: the requester is told. *)
FailCreation(h) ==
    /\ At(h, "create")
    /\ RejectRequest(h)
    /\ UNCHANGED <<calls, history>>

-----------------------------------------------------------------------------
(* Transferring a call                                                     *)

(* transferCall: transferCallById matches a busy call that nobody          *)
(* transferred before.                                                     *)
Transferred(d, by, to) == [d EXCEPT !.transferredBy = by, !.transferredTo = to]

(* A bug to find: a call may be transferred again. *)
CanTransferAgain(c) == calls[c].state \in Busy

CanTransfer(c) == calls[c].state \in Busy /\ calls[c].transferredBy = None

FlagTransfer(h) ==
    /\ At(h, "act") /\ WantsTransfer(h)
    /\ LET c == tasks[h].call IN
       \/ /\ CanTransfer(c)
          /\ Write(c, Transferred(calls[c], tasks[h].sess, tasks[h].to))
          /\ Goto(h, "retrace")
       \/ /\ ~CanTransfer(c)
          /\ Finish(h)
          /\ UNCHANGED calls
    /\ UNCHANGED <<history, notices>>

(* onCallTransferred of the other side's agent: it reads the record again  *)
(* and requests a call from its own session to the new party, whatever has *)
(* become of the old call meanwhile.                                       *)
RequestTransfer(h) ==
    /\ At(h, "retrace")
    /\ LET c == tasks[h].call
           from == IF MyRole(h) = "callee" THEN calls[c].callerContract ELSE calls[c].contract
       IN  \/ /\ from # None
              /\ Move(h, [tasks[h] EXCEPT !.pc = "checkCaller", !.from = from,
                                          !.to = calls[c].transferredTo, !.parent = c])
           \/ from = None /\ Finish(h)
    /\ UNCHANGED <<calls, history, notices>>

(* hangupTransferredCallById *)
EndTransferred(h) ==
    /\ At(h, "endParent")
    /\ LET c == tasks[h].parent IN
       \/ /\ calls[c].transferredBy # None
          /\ EndCall(h, c, UserOf[calls[c].transferredBy], "transfer")
       \/ /\ calls[c].transferredBy = None
          /\ Finish(h)
          /\ UNCHANGED calls
    /\ UNCHANGED <<history, notices>>

-----------------------------------------------------------------------------
(* Registrations and sweeps: one task for each call that the query found   *)

(* processRegisterSignal reads the calls of the user that are not over     *)
(* (neither ended nor expired).                                            *)
Register(h, c, s, old) ==
    /\ At(h, "idle")
    /\ Unfinished(c) /\ ~calls[c].expired
    /\ TakesPart(c, UserOf[s])
    /\ old # None => UserOf[old] = UserOf[s] /\ old # s
    /\ Move(h, [Idle EXCEPT !.pc = "react", !.kind = "register", !.call = c,
                            !.sess = s, !.old = old, !.seen = SnapshotOf(c)])
    /\ UNCHANGED <<calls, history, notices>>

(* getSignalsForExistingCall, on the snapshot *)
ExistingCallSignals(h) ==
    LET c == tasks[h].call
        role == MyRole(h)
    IN  {NoticeTo(c, role, "new", None)} \cup
        (IF tasks[h].seen.state \in Busy
           THEN {NoticeTo(c, role, tasks[h].seen.state, SeenContract(h, role))} ELSE {})

(* reactToUnknownCall: the call of a session that the new one replaces is  *)
(* ended; a call that nobody signed for is renewed; the signals are sent   *)
(* again if the client asked for them.                                     *)
React(h) ==
    /\ At(h, "react")
    /\ LET c == tasks[h].call
           signer == SeenContract(h, MyRole(h))
       IN  \/ /\ signer # None /\ signer = tasks[h].old
              /\ EndCall(h, c, UserOf[tasks[h].sess], "unknown")
              /\ UNCHANGED notices
           \/ /\ signer = None \/ signer # tasks[h].old
              /\ IF signer = None THEN RenewCall(c) ELSE UNCHANGED calls
              /\ notices' \in {notices, notices \cup ExistingCallSignals(h)}
              /\ Finish(h)
    /\ UNCHANGED history

(* The clock passes expiresAt: nobody renewed the call for two minutes. *)
Overdue(d) == [d EXCEPT !.expired = TRUE]

Expire(c) ==
    /\ Unfinished(c) /\ ~calls[c].expired
    /\ Write(c, Overdue(calls[c]))
    /\ UNCHANGED <<tasks, history, notices>>

(* hangupExpiredCalls: the query yields the call, and later the loop ends  *)
(* it by its id, without looking at expiresAt again.                       *)
FindExpired(h, c) ==
    /\ At(h, "idle")
    /\ Unfinished(c) /\ calls[c].expired
    /\ Move(h, [Idle EXCEPT !.pc = "expire", !.kind = "sweep", !.call = c])
    /\ UNCHANGED <<calls, history, notices>>

EndExpired(h) ==
    /\ At(h, "expire")
    /\ EndCall(h, tasks[h].call, "server", "expired")
    /\ UNCHANGED <<history, notices>>

(* The instance that runs the task dies, or its next database step throws. *)
Crash(h) ==
    /\ ~At(h, "idle")
    /\ Finish(h)
    /\ UNCHANGED <<calls, history, notices>>

-----------------------------------------------------------------------------
(* The next step of a task that has started *)
Act(h) == \/ Ignore(h) \/ StartRinging(h) \/ AcceptCall(h)
          \/ Activate(h) \/ FlagTransfer(h) \/ EndBySignal(h)

Creation(h) == \/ CheckBusy(h) \/ CheckCaller(h) \/ CheckCallee(h)
               \/ \E c \in Calls : CreateCall(h, c) \/ PreventCall(h, c)
               \/ RecordPrevented(h) \/ FailCreation(h)

Continue(h) == \/ Renew(h) \/ Act(h) \/ Creation(h)
               \/ RequestTransfer(h) \/ EndTransferred(h)
               \/ React(h) \/ EndExpired(h) \/ Record(h) \/ Tell(h)

(* What clients and the clock start *)
Begin(h) ==
    \/ \E c \in Calls, s \in Sessions, k \in SentSignals, to \in TransferTargets \cup {None} :
         ReceiveSignal(h, c, s, k, to)
    \/ \E r \in SentRequests : RequestCall(h, r.from, r.to, r.rid)
    \/ \E c \in Calls, r \in Registrations : Register(h, c, r[1], r[2])
    \/ \E c \in Calls : FindExpired(h, c)

Stimulus == \/ \E h \in Tasks : Begin(h)
            \/ \E r \in SentRequests, c \in Calls : RepeatRequest(r.from, r.rid, c)
            \/ \E c \in Neglected : Expire(c)

Next == \/ Stimulus
        \/ \E h \in Tasks : Continue(h)
        \/ \E h \in Mortal : Crash(h)

Spec == Init /\ [][Next]_vars

(* Without crashes: every promise settles, so a started task goes on.      *)
NextNoCrash == Stimulus \/ \E h \in Tasks : Continue(h)

FairSpec == Init /\ [][NextNoCrash]_vars /\ \A h \in Tasks : WF_vars(Continue(h))
=============================================================================
