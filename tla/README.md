# A TLA+ model of Rocket.Chat's calls, presence and scheduled jobs

This directory specifies, model-checks and proves properties of the parts of
Rocket.Chat whose correctness depends most on the order of events:

* voice calls between users (`ee/packages/media-calls`, the `media_calls`
  collection) and the WebRTC negotiations of a call (`packages/media-signaling`);
* video conferences that are held inside Rocket.Chat
  (`apps/meteor/server/services/video-conference`);
* presence (`ee/packages/presence`), on which both of them make claims;
* scheduled jobs (`packages/agenda`, `packages/cron`).

Most of the repository is something else: user interface, REST validation, type
definitions, translations, data, and request handlers that make one change to
one document.  What is modelled is therefore a small part of its lines, but a
large part of its concurrent state machines.

## 1. The system

| Part | State | Operations | Speaks with |
| --- | --- | --- | --- |
| Call director (`CallDirector.ts`, `InternalCallProvider.ts`, `MediaCallServer.ts`, `CastDirector.ts`) | the `media_calls` collection; one timer per call and instance | create, prevent, accept, activate, transfer, end, expire a call | agents, hooks of apps, the service (emitter) |
| Signal processing (`SignalProcessor.ts`, `CallSignalProcessor.ts`, `UserActorAgent.ts`) | none of its own: a snapshot of the record per signal | request, register, and one handler per signal about a call | clients (signals in, notices out), director |
| Negotiations (`MediaCallNegotiations.ts`, `saveWebrtcSession`) | one document per exchange of offer and answer | start, offer, answer, stable | signal processing, clients |
| Client library (`media-signaling`: `Session.ts`, `Call.ts`, `NegotiationManager.ts`, `services/webrtc`) | known calls, each call's local state and contract, a queue of negotiations, a peer connection | accept, reject, hang up, transfer, renegotiate, hold | server by signals and notices |
| SIP (`sip/`) | dialogs of drachtio-srf per call | the same as an agent's, over SIP | director, PBX |
| Media call service (`apps/meteor/server/services/media-call`) | presence claims, `call_history` | `answerCall` (REST), presence on activation and end, history entry, expiry sweep at start | director (emitter), presence |
| Video conferences (`video-conference/service.ts`, `VideoConference.ts`, `participants.ts`) | a document per conference: status, end, members with joined, left, last seen | create, invite, join, leave, renew, sweep, cancel, end, expire | clients (requests, heartbeats), presence, timers, a cron job |
| Presence (`Presence.ts`, `presenceEngine.ts`, `PresenceReaper.ts`, `UsersSessions.ts`) | connections per user and instance, a displayed and a stashed claim per user, the status | connect, disconnect, make, end and clear a claim, expire, reap | all instances through the collections, Agenda |
| Agenda, cron (`packages/agenda`, `packages/cron`) | jobs with `lockedAt`/`nextRunAt`; per instance a queue, running jobs, counters | schedule, remove, lock, queue, run, save | all instances through the collection |
| Streamer, DDP client, instance registry | subscriptions, a connection, heartbeats | publish, reconnect, broadcast | clients, instances |
| Everything else (messages, rooms, apps engine, UI, federation, licensing) | documents | validation and wiring | - |

### How the parts interact

1. A client sends a *signal* (a JSON message with its user, its session's
   `contractId`, a call id and a type).  Any instance may process it.
   `GlobalSignalProcessor` reads the record, finds the sender's role, ignores
   sessions that did not sign the call, renews the call's expiration (an
   `await`), and hands the record **as it was read** to the agent of that role.
2. The agent's processor decides on that snapshot and calls the director, whose
   updates are single conditional writes (`findOneAndUpdate` with a filter on
   `state` or `ended`).  Whoever's write matched goes on to send the notices;
   whoever lost returns.
3. A call is created by a request: six awaited steps (is the caller busy, may
   he call, has the callee an unfinished call, pre-call hook, insert, notices).
   A transfer flags the record, makes the agent of the *other* side request a
   new call with `parentCallId`, and ends the old call once the new one exists.
   Signals push `expiresAt` two minutes ahead; timers and the start of an
   instance end whatever is overdue.
4. A member joins a video conference by a request that enters the member,
   leaves the member's other calls, marks the member as joined, claims a busy
   status and answers a direct call.  The conference window renews a lease; a
   sweep once a minute gives up on members whose lease is older than three.
   Who leaves last starts a grace period after which the empty call ends.
5. Both kinds of calls *claim* a status from presence under an id of their own,
   and *end* the claim.  A user shows one claim and keeps at most one more to
   return to.  Presence computes the status of claim and connections, and lets
   a job of Agenda end the next claim that has a time.
6. Agenda's instances scan for jobs, lock them by a conditional write of
   `lockedAt`, keep them in a queue until they are due, run them and save them.

### What is hard

The updates are atomic, the handlers are not.  Every handler reads, awaits,
decides on what it read, writes with a weaker condition than it decided on, and
then sends notices, or claims a status, without looking again.  The hazards in
`PROJECT.json` list where this bites most, each with its line.  What makes the
parts correct:

* director and signals: one session wins a call; an end is final, reported
  once, and reaches both users; a notice is true when it is sent and stays
  true; a transfer ends the old call only if it replaced it, and replaces it
  once; every request is answered;
* negotiations: no two open exchanges, the callee gets the first offer however
  the answer and the offer interleave, both sides settle;
* video conferences: who is in a call is busy; who is gone leaves it; a join
  leaves the other calls; an unanswered call is cancelled, an abandoned one ends;
* presence: the status follows from claims and connections once the updates are
  over; a user is busy exactly as long as a call lasts; a claim ends at its
  time and takes no other along; a closed connection is forgotten;
* agenda: a job that waits is run, by one instance at a time while its lock
  lives, and what was removed stays removed.

## 2. Modules

| Module | Models |
| --- | --- |
| `MediaCallLifecycle` | what the server promises about one call record: its states, the one signature, the one report |
| `CallServer` | the call server between two users of the workspace |
| `Negotiation` | the exchange of WebRTC descriptions of one call: the server's documents and both clients' queues and connections |
| `PresenceEngine` | pure operators: how a claim that is made or ended changes the displayed and the stashed claim |
| `VideoConference` | membership, leases and the end of video conferences; claims by `PresenceEngine` |
| `Presence` | one user at the presence service, whose calls overlap; claims by `PresenceEngine` |
| `Agenda` | jobs in the collection and in the memory of each instance |
| `...Properties` | safety, action, refinement and liveness properties of the module |
| `...Proofs` | theorems for every value of the constants, proved with TLAPS |
| `DataLemmas` | lemmas on finite sets of numbers that the proofs share |
| `MC...` | instances for TLC, where the constants need more than a `.cfg` can say |

`VideoConference` and `Presence` both extend `PresenceEngine`, the code they
share.  A call of one module to the presence service is one atomic application
of the engine's operators; that calls of the service overlap is the subject of
`Presence`, whose inputs are the claims which calls make.

### CallServer

| In the model | In the code |
| --- | --- |
| `calls[c]` | a document of `media_calls`; `expired` stands for `expiresAt <= now` |
| `tasks[h]` | an asynchronous handler between two awaits: `pc` is the next database step or notice, `seen` the record it read |
| `notices` | every signal sent to a user so far (a set: the transport may delay and reorder, and properties ask whether a notice was ever sent) |
| `history[c]` | how often `saveCallToHistory` was requested for the ended call |
| `ReceiveSignal`, `Renew` | `processCallSignal` up to and including `renewCallId` |
| `StartRinging`, `AcceptCall`, `Activate`, `FlagTransfer`, `EndBySignal`, `Ignore` | the handlers of `UserActorSignalProcessor` with the director's operation they call, decided on `seen` |
| `EndCall`, `Record`, `Tell` | `hangupCallById`, then history and `callEnded`, then one notice at a time |
| `RequestCall` ... `CreateCall`, `PreventCall`, `FailCreation` | `processRequestCallSignal`, `parseCallContacts`, `InternalCallProvider.createCall`, `createCall`, `recordPreventedCall` |
| `RequestTransfer`, `EndTransferred` | `onCallTransferred`, `hangupTransferredCallById` |
| `Register`, `React` | `processRegisterSignal`, `reactToUnknownCall` |
| `Expire`, `FindExpired`, `EndExpired` | time, `findAllExpiredCalls`, the loop of `hangupExpiredCalls` |
| `Crash` | an instance dies, or a database step throws, in the middle of a handler |

Abstractions: a signal is one of eleven kinds, by what the handlers tell apart;
contacts, features, display names, push notifications, logs and app
notifications are left out; so are the notices `trying` and the descriptions,
which change no record.  Signals are not queued: a client may send any signal at
any time, which includes every delay, duplicate and reordering of the
transport.  Several instances need no model of their own, as tasks share nothing
but the collection.

### Negotiation

| In the model | In the code |
| --- | --- |
| `negs[n]` | a document of `media_call_negotiations`; `n` is its place by `requestTimestamp` |
| `server` | a bag of signals on their way to the server and of what handlers have left to do after an await |
| `signals` | signals on their way to a client, in no order; a set, as a client ignores a negotiation that it has heard of |
| `client[r].known`, `current`, `processed`, `ended`, `failed` | `NegotiationManager`'s map by sequence, `currentNegotiation`, `highestProcessedSequence`, and the flags of a `Negotiation` |
| `client[r].chain`, `peer`, `local`, `gathering`, `agreed` | the `RTCPeerConnection`: operations in flight, `signalingState`, type of the local description, negotiations that wait for candidates, negotiation that it was last stable with |
| `client[r].held`, `direction`, `described`, `negotiated`, `fired` | the hold the user wants, the transceiver's direction, what each description says of it, what the last one agreed said, and whether `negotiationneeded` was fired for it |
| `Acknowledge`, `StartNewNegotiation`, `NegotiationNeeded` | `clientIsReachable`, `startNewNegotiation`, `processNegotiationNeeded` |
| `Accept`, `InitialOffer` | `acceptCall`, `getInitialOfferSignal` |
| `SaveSession`, `Forward`, `Send` | `saveWebrtcSession`, and the two reads of `onRemoteDescriptionChanged` |
| `Receive`, `AddNegotiation`, `AddToQueue`, `ProcessNegotiations`, `End`, `Fail`, `SetRemoteAnswer` | the handlers of the client and its `NegotiationManager`, with what they call synchronously through events |
| `Operate`, `Gathered` | an operation of the connection, with the code that runs after it up to the next one; the end of `waitForIceGathering` |
| `GetInputTrack`, `SetHeld`, `AskForNegotiation` | `setInputTrack`, `setHeld`, `onWebRTCNegotiationNeeded` |

The server handles each signal without waiting for the one before
(`packages/streamer/src/notifications.module.ts:311` does not await) and sends
its own by a broadcast that it does not await either, so neither direction is
in order.  No client passes a sequence number, so a negotiation's sequence is
its place among those that the client has heard of.  The connection is external:
operations run one at a time, a remote offer rolls a local one back, an offer is
refused while there is a remote one, and `negotiationneeded` is fired once, when
the connection is stable and idle, until it is stable again.  The call does not
end; an error of a negotiation is not critical and changes nothing on the server.

### PresenceEngine

| In the model | In the code |
| --- | --- |
| `Claim`, `Owner` | `statusDefault`, `statusSource`, `statusId`, `statusExpiresAt` of a user; with them `previousState` |
| `Priority`, `Usable`, `HasId` | `PRIORITY`, `isExpired` and the comparisons of `statusId` |
| `SetActive`, `Stashes` | `resolveIntent` of `setActive`, `shouldStash`: what a new claim displaces, and where the displaced one goes |
| `EndActive` | `resolveIntent` of `endActive`: return to what was stashed, or drop the stashed claim that is meant |
| `Claiming`, `Ending` | the engine and the write of its result, as one step |

### VideoConference

| In the model | In the code |
| --- | --- |
| `calls[c]` | a document of `rocketchat_video_conference`; `over` is `endedAt`; a member's entry is `none`, `invited` (not joined), `in`, or has left, `reported` or by `timeout` (`leftReason`); `lapsed` are members whose `lastSeenAt` is older than three minutes |
| `windows` | the conference windows that are open |
| `presence[u]` | the user's claims, by `PresenceEngine` |
| `tasks[t]` | a handler between two awaits: `Tasks` serve requests, `Clock` the timers and the age limit, `Sweeper` the sweep, of which one runs at a time |
| `graces`, `rings` | timers: the grace periods of empty calls (`endCallIfEmpty`), the cancellations of direct calls that ring (`startDirect`) |
| `Create`, `Invite` | `startDirect`, `startGroup`; `addMembers` |
| `Join`, `AddUser`, `LeaveOthers`, `AddMember`, `SetJoined`, `SetBusy`, `Answer` | `join`, `addUser`, `leaveOtherCalls`, `addUserToCall`, `claimBusyForCall`, `updateDirectCall` |
| `ReportLeave`, `Leave`, `SetLeft`, `Release`, `GraceOver` | `leaveCall`, `releaseBusyForCall`, `endCallIfEmpty` and its timer |
| `Heartbeat`, `Renew`, `Reclaim`, `Lapse` | `renewPresence`, `renewUserPresenceById`, and time |
| `Sweep`, `SweepMark`, `SweepRelease` | `expirePresenceLeases` |
| `End`, `EndWrite`, `EndRelease` | `endCall` |
| `RequestCancel`, `RingOver`, `Cancel`, `CancelWrite` | `cancel`, by request or by the timer |
| `FindLongRunning`, `Expire` | the search for calls over the age limit, and `expireCall` |
| `Crash` | an instance dies in the middle of a handler, or with a timer |

Abstractions: a call of the presence service is atomic; the other calls of a
member are left one after another in any order (the code leaves them at once);
a heartbeat is an action only when it can change something; providers outside
of Rocket.Chat, livechat calls, ringing, declining, pushes, messages,
discussions and URLs are left out.

### Presence

| In the model | In the code |
| --- | --- |
| `user`, `status` | the claims and `status` of one user (a person, not a bot or an app) |
| `conns`, `stale` | the connections of the `usersSessions` document; those whose `_updatedAt` is over five minutes old |
| `clients`, `down`, `now` | outside: what became of a connection, which nodes died, the time |
| `workers[w]` | a call of the service between two awaits: `Calls` are calls in progress, `ExpirationJob` the run of its job |
| `token`, `jobs` | `expirationScheduleToken`; the scheduled job of Agenda |
| `plan` | the connections that the reaper found and is about to remove |
| `outdated`, `overlapped`, `made`, `ended`, `cleared` | history: whether the last write relied on reads that had changed, whether claim updates overlapped, what was asked |
| `NewConnection`, `AddConnection`, `UpdateConnection`, `SetConnectionStatus`, `RemoveConnection`, `RemoveLostConnections` | `newConnection`, `updateConnection`, `setConnectionStatus`, `removeConnection`, `removeLostConnections` |
| `SetActiveState`, `EndActiveState`, `ClearActiveState` | `setActiveState`, `endActiveState`, and `setStatus` to online without a text |
| `ReadUser`, `ReadConnections`, `Matches`, `Write` | `updateUserPresence`: the two reads, the engine on what was read, and `updatePresenceAndStatus`, whose filter repeats the displayed claim when a claim with a time is ended |
| `RunJob`, `FindExpired`, `AfterUpdate`, `TakeToken`, `FindNext`, `RemoveJob`, `AddJob` | the expiration job (`processExpiredStatuses`) and `setupNextExpiration` |
| `FindOfDeadNodes`, `FindStale`, `FlushBatch` | the connections of nodes that are gone, and `PresenceReaper` |
| `Crash`, `NodeDies`, `Tick` | the service restarts, a node dies, time |

Abstractions: two awaits are one step where nothing can come between that
matters (the check of the token and the removal of the job; the search for a
node's connections and their removal); pings are free; one instance of the
service; texts, broadcasts, the limit on connections and the service users are
left out.  The module has claims of every source, and open connections that fall
silent (`Flaky`); the checked instance has the claims of calls and one with a
time, and only connections that are gone fall silent.

### Agenda

| In the model | In the code |
| --- | --- |
| `docs[d]` | a document of the collection: `nextRunAt` ahead, due or null; `lockedAt` free, held, or older than `lockLifetime` |
| `inst[i]` | the memory of one instance: the definitions, `_jobQueue`, `_runningJobs`, pending calls of `_jobProcessing`, the counters `running` |
| `lapses`, `crashes`, `runs`, `overruns` | what faults there were, how often a job was run, and how many of its runs outlived their lock (`LockedRuns`, counted one by one: several instances may run a job whose lock ran out) |
| `Every`, `Schedule`, `RemoveJobs` | `every`, `schedule` and `cancel` as `packages/cron` calls them: `add`, `addAtTimestamp`, `remove` |
| `Lockable`, `First`, `Fill` | `_findAndLockNextJob` and `_jobQueueFilling` |
| `LockAndQueue`, `SavedUnlocked` | `_lockOnTheFly` of a job that was just saved |
| `Insert`, `NextFree`, `Process`, `DropAll`, `Start`, `Fire` | `JobProcessingQueue.insert` and `returnNextConcurrencyFreeJob`, `_jobProcessing`, `_runOrRetry`, and the timer |
| `Call`, `Return`, `Finish` | `Job.run`: the first save, the function, the second save, the end |
| `Come`, `Timely`, `Tick`, `LockExpires`, `Crash`, `Restart` | time and faults |

Abstractions: a time is ahead, due or null; concurrency is 1, as cron defines
every job; priorities, lock limits, disabled and unique jobs and the unlocking
at `stop()` are left out, since the server uses none of them; the database does
not fail; the attempt of `_lockOnTheFly` belongs to the save before it.

## 3. Runs

The names of `PROJECT.json`.

| Run | Question | Instance |
| --- | --- | --- |
| `answers` | who wins a call, is an end final, do records refine `MediaCallLifecycle` | 2 users, 2 competing sessions, 1 call, every kind of signal but a transfer |
| `faults` | are ends reported once and truly, with crashes, expiry, sweeps and a refresh; is `IInv` invariant | 1 call, a task that may crash |
| `transfer` | is a call replaced once, does a transfer end only what it replaced | 3 users, 3 calls: a second replacement needs a third record |
| `live` | does everybody hear of an end, is every request answered, every transfer settled | 3 users, 2 calls, no crash |
| `negotiation_glare` | do connections and server agree when both sides negotiate at once | 3 holds, by either user; up to 5 negotiations |
| `negotiation_settles` | does the first exchange complete, do the connections settle on the same negotiation, is the caller heard | 2 holds of one user (either), microphones that come late |
| `negotiation_current` | violated: a negotiation in progress is the current one | 2 holds, by either user |
| `video_direct` | is who is in a call busy, is an unanswered call cancelled | a direct call of 2 users, one of whom reports departures and one of whom freezes; the age limit |
| `video_moves` | does a join leave the other calls | 1 user, a direct call and a group call |
| `video_abandoned` | does who is gone leave, does an abandoned call end | a group call of 2 users, 1 crash |
| `presence` | is the status right once updates are over, do claims end, do closed connections go | 1 connection on a node that may die; a voice call, a video call and a meeting with a time; 2 overlapping calls of the service, 2 events |
| `agenda` | do jobs run, one at a time, and no more often than faults explain | a cron job and a job at a timestamp, 2 instances, 1 fault: a crash, a lock that runs out, or a removal |

Bounds, and why they are enough:

* `CallServer`: two tasks in flight, enough for a read, an overtaking write and
  a late decision (the third party of the three-way races is the notice that
  has been sent).  `Calls`, `RequestIds`, `Tasks` and the environment constants
  (`SentSignals`, `TransferTargets`, `SentRequests`, `Registrations`,
  `Neglected`, `Mortal`) say what clients and faults of an instance do.  In
  `transfer` nobody hangs up, so that three records stay within reach.
* `Negotiation`: `MaxNegotiations` is not met by any passing run: more would
  give the same states.  `MaxToggles` is the number of holds of both users
  together; three are enough for a glare on top of a glare.  With `Together`
  false only one of the users puts the call on or off hold, and TLC chooses
  which; there the bound of two in `settles` is also the limit of what holds
  (see section 3), and `TwoHoldsAdvance` and `TwoHoldsAgree` prove the two
  safety properties for that bound and any number of negotiations.
  `Tardy` are the users whose microphone may come late.
* `VideoConference`: one request beside the clock and the sweep, so a request,
  a timer and the sweep interleave; `MaxTimers` bounds the grace periods that
  overlap, `MaxCrashes` the crashes.  Joins, departures, lapses and revivals
  are not bounded.
* `Presence`: a third internal claim would need a third kind of call, which the
  code does not have; `MaxEvents` bounds what comes from outside (a claim made,
  ended or cleared; a connection that opens, closes or goes away; a
  node or the service that dies), beginning with or without a voice call.
* `Agenda`: one document per name; `MaxFaults` bounds crashes, locks that run
  out and removals together.  Two faults at once are not checked.

`CHECK_DEADLOCK FALSE` everywhere: when the bounded ids are used up and all
calls are over, or both connections are stable, or every job is done, nothing is
left to happen.

Fairness:

* `CallServer`, `Negotiation`, and the handlers of `VideoConference`, `Presence`
  and `Agenda`: weak fairness of each handler's own steps.  A promise of the
  driver or of the hooks settles, and Node runs its continuation.  No fairness
  is assumed of what people do, of requests, of crashes or restarts.
* `CallServer`: no task crashes in `live` (with a crash after `EndCall` the
  history entry and the notices are lost for good; see the hazards).
* `Negotiation`: besides, the arrival of every signal, the connections'
  operations, the wait for candidates (which has a timeout) and the microphone:
  without it no call of the client library starts.
* `VideoConference`: the sweep is started for every call by an interval, and the
  lease of a window that is closed runs out.  An open window may stay frozen or
  renew for ever.
* `Presence`: time goes on, the job fires at its time, a connection that is not
  open grows stale, the reaper finds it.  Strong fairness of the heartbeat
  (`UpdateConnection`) and of the reaper's removal (`FlushBatch`), which
  compete with other calls for one of the two places in the instance; the
  service itself has no such limit.
* `Agenda`: time goes on, locks age, an instance that is up scans (an interval)
  and its timers fire.  `EveryJobRuns` promises nothing when no instance is up
  that defines the job.

### Divergences

* `negotiation_current`: `addToQueue` ends the current polite negotiation, whose
  `ended` listener begins the new impolite one and makes it current; then
  `addToQueue` sets `currentNegotiation` to null.  The answer to the impolite
  negotiation is refused and the caller's connection waits for ever.  The
  assignment is redundant: without it the model satisfies `CurrentUntilCompleted`.
  It also lets a callee ask while its own latest negotiation is unanswered
  ("the client was in no position to request it", `CallSignalProcessor.ts:238`):
  begun while the callee still answers the caller's, that negotiation has its
  offer refused by the connection, which the caller's exchange then settles, and
  the next hold makes it ask.  This takes five holds, more than any run makes;
  `AsksInPosition` is therefore stated, and proved, of the caller.

What follows are behaviours that the models reach and that differ from what a
comment or a message says, or that a property had to be stated around.  No run
is spent on them; most are in the hazards.

Voice calls:

* `clientHasRejected` checks that the call is pending on the record read before
  the renewal; the write that follows matches any call that has not ended.  One
  session accepts in between, and the other's rejection ends the answered call
  (`CallSignalProcessor.ts:299`).  The comment above `processSignal` (lines
  96-100) says the call "has not been accepted yet".
* `hasUnfinishedCallsByUid` for the callee (`InternalCallProvider.ts:31`) and
  the insertion are separate; two callers both get through, against "Unable to
  make calls while another call is ongoing" (`en.i18n.json:6877`).

Negotiations:

* A hold during a negotiation, after its description was made, is not requested
  when the negotiation is over (`Processor.ts:514`).
* An offer of the callee is forwarded although the server has started a newer
  negotiation since, and may arrive after it; the client then processes the
  older one as if it were the newer.
* A client whose user holds three times in a row may have two requests for a
  negotiation on their way: the first hold asks, the second takes the wish
  back, the third asks again.  Both are granted against the same answered
  negotiation (`CallSignalProcessor.ts:205`), and the requests for their offers
  may arrive the other way round.  Both clients then negotiate the newer one
  first and go back to the older: `AgreementsAdvance` fails in `settles` with
  `MaxToggles` 3.  `PeersAgree` does not, up to the five holds tried.
* The callee's connection is stable before its answer is sent, by as long as
  candidates are gathered.  A hold in between makes it ask for a negotiation
  that the server drops as invalid; the connection does not ask again.
* A request of the caller that is handled late finds the caller's own newer
  negotiation with an offer, and the server blames a proxy for it.

Because of `negotiation_current` and the second of these, the connections may
disagree in the end when both sides negotiate at once: `PeersAgree` is checked
with one side only.  Because of the fourth, `CallerIsHeard` has no counterpart
for the callee.

Video conferences (`service.ts`):

* Two members who leave at once each see the other still in the call (1578): no
  grace period begins, and the empty call stays open until the age limit.
  `SilentCallEnds` excludes reported departures for this reason.
* A sweep that read a call before a member left by a request marks the member as
  timed out over the reported departure (1668) and releases the claim that a
  join has made since (1671).  `PresentIsBusy` leaves these members out.
* Two joins of one user at once, or a renewal that revives a member who has
  joined another call, put the user in two calls, against "A user is in one call
  at a time" (1248).  `JoinLeavesOthers` says what is left.
* `cancel` ends a call that was answered after its reads (250).
* Calls that end by the age limit never release the claims of their members (563).

Presence (`Presence.ts`):

* Two claim updates of one user that overlap are resolved against the same state
  (370); the second write undoes the first and may leave a claim that nobody
  ends.  `ClaimsFollowCalls` is stated for updates that do not overlap, and
  `SettledStatus` excepts a last write that relied on outdated reads.

## 4. Proofs

Seven modules hold the theorems, for every value of the constants, and
`DataLemmas` the lemmas that they share.  The assumptions are the named
`ASSUME`s of the modules they extend and nothing else: which constants are
subsets of which, that `None` is no id and no join to resume, that the handlers are
distinct, that `Presence`'s moments and `Agenda`'s instances and documents are
finitely many, that bounds are numbers.  The bounds themselves are arbitrary.

`CallServerProofs` proves, for any number of users, sessions, calls and tasks,
with crashes:

* `TypeCorrect`, `RecordsAgree`, `OneWinner`, `RecordedOnce`, `HangupsAreTrue`:
  the safety invariants of `answers` and `faults`;
* `Finality`: the action properties `EndIsFinal` and `ContractIsFinal` (the
  latter is no run's property, as the refinement implies it);
* `Refinement`: `Spec => Lifecycle!Spec`.

All rest on `Invariance`: `Spec => [](TypeOK /\ IInv)`.  The safety properties are not
inductive: that a late writer cannot break a record depends on what its
snapshot still guarantees.  `IInv` therefore says, per task, which facts of the
snapshot are stable (a contract seen is the contract stored; a busy call seen
was signed), and, per call, that at most one task is between `EndCall` and its
report, and only while `history` is 0; per notice, that what it told is so and
stays so.  Each action has one lemma; an action that does not touch a variable
uses a frame lemma for the conjuncts about it.

The same module proves `ReplacedAtMostOnce` and `TransferReplaces`.
Neither property mentions what makes it true, that the right to replace a call
is a token which never doubles.  `TransferInv` follows it: the write that flags
the record gives it to one task (`Seeks`: the notice, the request, the steps of
the creation), the insertion of a call with that parent passes it on
(`Begot`), and the task that goes on to end the old call knows of that record
(`Settles`).  At most one task seeks to replace a call, none does once a record
was begot, at most one record is, and nothing of this before the flag, which is
written once.  A crash loses the token, which is why the two are only safety
properties.

`NegotiationProofs` proves `NegotiationTypes`, `AnswersFollowOffers`,
`AgreementsAreRecorded` and `CallerAsksInPosition` from one invariant,
`NegotiationInv`, since each needs the others to hold in the meantime:

* documents only grow, so what a signal or an operation in flight was made from
  is still so when it arrives (`SignalInv`, `JobInv`, `KnownInv`);
* the operations which wait in a connection are those of its side of the
  exchange, and a connection that has a local or a remote offer has it from a
  negotiation with that offerer (`TurnInv`, `ChainInv`, `AgreedInv`);
* a negotiation of the callee that the caller still works on is its current one
  or was overruled, and then ends without an answer (`OverruledInv`);
* while the caller's own latest negotiation is open, either its offer is still
  to be made after every operation that may settle the connection, or the
  connection is not stable and nothing in flight can settle it
  (`PositionInv`).  This is the part that fails for the callee.

`NegotiationOneSideProofs` proves the two safety properties of a call that only
one user puts on hold, for any number of negotiations and whoever is late:

* `OneSideAgrees` and `OneSideAdvances`, of any number of holds:
  `~Together => (Spec /\ []RequestsOneByOne => []PeersAgree)`, and the same of
  `AgreementsAdvance`.  `RequestsOneByOne` says that at most one request for
  another negotiation, or start that it was granted, is on its way.
* `RequestsDoNotOverlap`: with `MaxToggles <= 2` that is so in every behaviour;
  hence `TwoHoldsAgree` and `TwoHoldsAdvance`, of `Spec` alone.

`PeersAgree` speaks of the end, when nothing is on its way, and says nothing of
how one gets there; `OneSideInv` follows every negotiation to it.  Negotiations
follow each other: each is started after the answer to the one before
(`FirstInv`), by the user who holds (`SilentInv`).  So a client knows them in
their order, has none or one to process, and its connection is at one of the few
places of that one's exchange (`QueueInv`: `Between`, `Offering`, `Answering`);
nothing is ever overruled.  And for every document and each side, `DocInv` says
where what is missing is: a description is saved or in the job that saves it if
and only if the client has sent it (`OfferInv`, `AnswerInv`); a saved answer is
on its way to the offerer that waits for it, by exactly one job or signal
(`ReplyInv`); and whoever has not heard of the negotiation is about to, the
callee by either of the two ways there are, through `acceptCall` or through
`saveWebrtcSession` (`HearInv`, `AcceptInv`).  When there are no jobs and no
signals, nothing is missing.  For `RequestsDoNotOverlap` the invariant is
strengthened by `PatienceInv`: a request is made by a client that is stable with
the latest negotiation, and its connection will not tell again before it is
stable with a later one (`Patient`), which a third hold would undo.

`VideoConferenceProofs` proves all of `VideoConference`'s safety properties, for
any number of users, calls, handlers and overlapping timers:

* `VideoConferenceTypes` and `UnansweredCallsAreCancelled`.  The invariant is
  `TypeOK`, what each step of a handler needs of its task (`TasksOK`), and
  `UnansweredIsCancelled`: only the steps of a cancellation may take away what
  will cancel a call, and they do so when the call is answered or over.
* `PresentMembersAreBusy`.  `PresentIsBusy` speaks of moments when nothing is
  done for a user; what carries it there counts claims.  A member's claim is
  made, or some handler is about to make it (`One`); while the sweep that gave up
  on the member has yet to release a claim, a member who is back needs one more
  (`Two`), which is there because the renewal found the first one.  A user's
  entry holds two claims of calls at most (`ClaimsInv`), since there is one place
  for what a claim displaces: a third one is lost, but no more than two are ever
  counted on.  All of this is about members who have been in no other call and
  whose leaves nobody reports (`Stays`), which is why the invariant has to know
  what was: the entry of who has been in a call never again reads as that of an
  invitation, a handler that claims, releases or leaves for a join does it for
  somebody who has been in the call (`PastInv`), and those whom the sweep found
  are in the call until it marks them (`SweepInv`).
* `JoinsLeaveOtherCalls`: `Spec /\ []OneEntry => JoinLeavesOthers`.  `OneEntry`
  says that a user's joins and renewals are handled one at a time; reported
  leaves, of other windows of the same user, may overlap with them.  It is
  needed: `leaveOthers` of each of two joins that are handled at once finds
  nothing to leave.  The run has one handler of requests, for which it holds;
  the theorem says that other users' requests, sweeps, ends, cancellations and
  crashes do not matter.  What is left of the user's other calls is always among
  those that the join has yet to leave (`LeavesAll`), and nobody else puts the
  user in one (`WhoEnters`).

`PresenceEngineProofs` proves `EndRestores`: a claim that is put over another and
ended by its id gives back what was displayed before.

`PresenceProofs` is about any number of connections, nodes, claims and overlapping
calls:

* `PresenceTypes`, `StatusSettles` and `ExpiryTakesOneClaim`.  `SettledStatus` is
  about moments without updates; what carries it there is `Balanced` (the status
  is settled, or the last write was outdated, or some call still owes an update)
  with `Timely` (what a call has read and is not marked as late is still true).
  `Expires` says what a call that ends an expired claim has seen of it.
* `ShownCallsAreCurrent`:
  `OrdinaryClaims /\ Spec /\ []AtMostTwoCalls => []ClaimsFollowCalls`.
  `OrdinaryClaims` is about the claims that are made: none shows the user as
  offline (under such a claim no call is shown, `setActive` rejects it), and that
  of a call has no time to end and an id that no other claim has, as in
  `claimBusyForCall`.  `AtMostTwoCalls` is needed since a user displays one claim
  and keeps one more: a third call would be lost.  The run's claims satisfy both
  (`MCOrdinary`).  `ClaimsFollowCalls` says nothing of the moments during an
  update; `Awaits` does: how the calls shown differ from those the user is in,
  by the kind of update that is on its way, and that what is written will make up
  for it (`OnItsWay`).  `Proper` adds that a call is never under anything but
  another call; without it, the end of a meeting or its expiration could bring
  back, or lose, a call.  What `setActive` and `endActive` do to the calls that
  are shown is stated for all claims by `ClaimShows` and `EndShows`.

`AgendaProofs` proves all of `Agenda`'s safety properties, for any number of
instances, names, documents and faults (the run has two instances and one
fault):

* `RemovalIsFinal`: every write of a job in memory goes to a stored document
  only, whichever instance makes it and however late.
* `AgendaTypes`, `WakeupsAreKept` and `RunsExclude`, from one invariant,
  `AgendaInv`.  It says of the memory of each instance that a definition counts
  as busy only if one of its jobs runs (`Memory`), so that a job which the queue
  cannot start has a run whose end looks again, and that a queue has a timer or
  a run (`Wakes`).  It says of each document whose locks
  never ran out in a run that at most one queued or running job holds it, and
  that the document then shows a lock which counts (`HeldOnce`).  `ExclusiveRun`
  alone is not inductive: a job that waits in the queue of a second instance, or
  one that two instances can lock, would break it at the next step.  What
  carries `HeldOnce` through the loop of `_jobProcessing` is that whatever an
  instance holds after a step it held before, but for the job it locked.
* `FaultsPayForRuns`: a job at a timestamp has a budget.  Its runs so far, the
  runs it is owed by queues and by runs that were not called yet (`Debt`; two
  where the first save may write a lock that has run out), and one if
  somebody may lock its document (`Open`) are together at most
  `1 + crashes + 2 * overruns` (`Budget`).  A call uses up a debt, a lock turns
  `Open` into one, and only a crash, which leaves a lock behind, and a lock that
  runs out in a run add to the sum.

The attempt to prove the last one showed that the model merged the lapses of
several runs of a document into one: with three instances `OneRunPerFault` failed
without a fault to pay for it.  `LockExpires` counts each run since.  A bound in
`TypeOK` on the removals was dropped, as one `cancel` may remove several
documents of a name.

Only model-checked:

* of `Negotiation`: `CurrentUntilCompleted`, which is violated; every other
  invariant and action property of the passing runs has a theorem;
* all liveness properties (`EveryJobRuns`, `FirstExchange`, `CallerIsHeard`, the
  ends of calls, of claims and of connections), which are out of the prover's
  reach, as is `ENABLED`.

## 5. What is left

Worth modelling next:

1. A voice call with presence and history: the emitter of the director and the
   media call service between `CallServer` and `Presence`.
2. The expiration timers of each instance, and the renewal against them.
3. The client's own state machine of a call (`Call.ts`, `Session.ts`) composed
   with the notices of `CallServer`.
4. Several instances of the presence service, whose tokens are not shared.
5. A SIP actor on one side of a call.
6. Proofs: `PeersAgree` for one side whose requests overlap, where the clients
   number the negotiations otherwise than the server.

### Not modelled

* Calls over SIP: need a model of drachtio-srf's dialogs, more of the library
  than of this code.
* Streamer, DDP client, instance registry: subscriptions and heartbeats; what
  they may lose or reorder is modelled where it matters, as signals in any
  order, connections that are gone without a word and nodes that die.
* Messages, rooms, users, permissions, settings, livechat: request handlers that
  validate and change one document, without a protocol between them.
* User interface, type definitions (`rest-typings`, `core-typings`),
  translations and emoji tables, vendored codecs: no state machine, or none of
  this program.  They and the request handlers are nearly all of the lines of
  the repository.
* Apps Engine, federation, licensing, ABAC, omnichannel routing: enterprise
  subsystems, each a project of its own.
* WebRTC, MongoDB and the Moleculer broker beyond their use here.
