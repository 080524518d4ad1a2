---------------------------- MODULE AgendaProofs ----------------------------
(***************************************************************************)
(* The safety of Agenda, for every set of instances, names and documents   *)
(* and any number of faults.  Three arguments:                             *)
(*                                                                         *)
(*   - no step writes the document of a job that is gone, whatever an      *)
(*     instance remembers of it, so what is removed stays removed;         *)
(*                                                                         *)
(*   - what an instance holds after a step comes of what it held before,   *)
(*     but for the job that the step locked.  A document whose locks never *)
(*     ran out during a run is held at most once, with a lock that counts  *)
(*     and that the document shows, so nobody can lock it a second time;   *)
(*                                                                         *)
(*   - a document can be run as often as its job is owed a run, by a queue *)
(*     or by a run that was not called yet, and once more if it is open to *)
(*     be locked.  A run uses one of these up, and only a fault adds to    *)
(*     them.                                                               *)
(***************************************************************************)
EXTENDS AgendaProperties, DataLemmas

-----------------------------------------------------------------------------
(* What is removed *)

(* A document has its fields, whatever is in them. *)
IsDoc(doc) == \E s, n, l : doc = [status |-> s, next |-> n, lock |-> l]

DocsOK == docs = [d \in Docs |-> docs[d]] /\ \A d \in Docs : IsDoc(docs[d])

Removed(d) == docs[d].status = "removed"

(* What a step may do to the collection *)
Respects == DocsOK' /\ \A d \in Docs : Removed(d) => Removed(d)'

(* A write to one document that is not one of a job that is gone. *)
LEMMA WriteOne ==
  ASSUME DocsOK, NEW d, NEW doc, IsDoc(doc), docs' = [docs EXCEPT ![d] = doc],
         d \in Docs /\ Removed(d) => doc.status = "removed"
  PROVE  Respects
<1>1. docs' = [x \in Docs |-> IF x = d THEN doc ELSE docs[x]]
  BY DEF DocsOK
<1> QED BY <1>1 DEF DocsOK, Respects, Removed

LEMMA WriteNone ==
  ASSUME DocsOK, UNCHANGED docs
  PROVE  Respects
  BY DEF DocsOK, Respects, Removed

(* Fields of a document change. *)
LEMMA FieldsKeepDoc ==
  ASSUME NEW doc, IsDoc(doc), NEW status, NEW next, NEW lock
  PROVE  /\ IsDoc([doc EXCEPT !.lock = lock])
         /\ [doc EXCEPT !.lock = lock].status = doc.status
         /\ IsDoc([doc EXCEPT !.next = next])
         /\ [doc EXCEPT !.next = next].status = doc.status
         /\ IsDoc([doc EXCEPT !.next = next, !.lock = lock])
         /\ [doc EXCEPT !.next = next, !.lock = lock].status = doc.status
         /\ IsDoc([doc EXCEPT !.status = status, !.next = next])
         /\ [doc EXCEPT !.status = status, !.next = next].status = status
         /\ IsDoc([doc EXCEPT !.status = status])
         /\ [doc EXCEPT !.status = status].status = status
<1> DEFINE rec(s, n, l) == [status |-> s, next |-> n, lock |-> l]
<1>1. PICK s, n, l : doc = rec(s, n, l)
  BY DEF IsDoc
<1>2. \A x, y, z : IsDoc(rec(x, y, z)) /\ rec(x, y, z).status = x
  BY DEF IsDoc
<1>3. [doc EXCEPT !.lock = lock] = rec(s, n, lock)
  BY <1>1
<1>4. [doc EXCEPT !.next = next] = rec(s, next, l)
  BY <1>1
<1>5. [doc EXCEPT !.next = next, !.lock = lock] = rec(s, next, lock)
  <2>1. [rec(s, next, l) EXCEPT !.lock = lock] = rec(s, next, lock)
    OBVIOUS
  <2> HIDE DEF rec
  <2> QED BY <1>4, <2>1
<1>6. [doc EXCEPT !.status = status, !.next = next] = rec(status, next, l)
  <2>1. [doc EXCEPT !.status = status] = rec(status, n, l)
    BY <1>1
  <2>2. [rec(status, n, l) EXCEPT !.next = next] = rec(status, next, l)
    OBVIOUS
  <2> HIDE DEF rec
  <2> QED BY <2>1, <2>2
<1>7. [doc EXCEPT !.status = status] = rec(status, n, l)
  BY <1>1
<1>8. doc.status = s
  BY <1>1
<1> HIDE DEF rec
<1> QED BY <1>2, <1>3, <1>4, <1>5, <1>6, <1>7, <1>8

(* A document that is locked, or handed to _lockOnTheFly *)
LEMMA LockRespects ==
  ASSUME DocsOK, NEW i, NEW d \in Docs, NEW doc, IsDoc(doc), NEW local,
         LockAndQueue(i, d, doc, local) \/ SavedUnlocked(i, d, doc, local),
         ~Removed(d) \/ doc.status = "removed"
  PROVE  Respects
<1>1. CASE LockAndQueue(i, d, doc, local)
  <2> DEFINE locked == [doc EXCEPT !.lock = "held"]
  <2>1. IsDoc(locked) /\ locked.status = doc.status /\ docs' = [docs EXCEPT ![d] = locked]
    BY <1>1, FieldsKeepDoc DEF LockAndQueue
  <2> HIDE DEF locked
  <2> QED BY <2>1, WriteOne
<1>2. CASE docs' = [docs EXCEPT ![d] = doc]
  BY <1>2, WriteOne
<1> QED BY <1>1, <1>2 DEF SavedUnlocked

LEMMA SaveRespects ==
  ASSUME DocsOK, NEW d, NEW next, NEW lock, Save(d, next, lock)
  PROVE  Respects
<1>1. CASE d \in Docs /\ Stored(d)
  <2> DEFINE doc == [docs[d] EXCEPT !.next = next, !.lock = lock]
  <2>1. IsDoc(doc) /\ ~Removed(d)
    BY <1>1, FieldsKeepDoc DEF DocsOK, Stored, Removed
  <2>2. docs' = [docs EXCEPT ![d] = doc]
    BY <1>1 DEF Save, DocsOK
  <2> HIDE DEF doc
  <2> QED BY <2>1, <2>2, WriteOne
<1>2. CASE ~(d \in Docs /\ Stored(d))
  <2>1. UNCHANGED docs
    BY <1>2 DEF Save, DocsOK
  <2> QED BY <2>1, WriteNone
<1> QED BY <1>1, <1>2

LEMMA EveryRespects ==
  ASSUME DocsOK, NEW i, NEW n, Every(i, n)
  PROVE  Respects
<1>1. PICK d \in IF StoredAs(n) # {} THEN StoredAs(n) ELSE Unused(n) :
        LET doc == [docs[d] EXCEPT !.status = "stored", !.next = "ahead"]
        IN  \/ SavedUnlocked(i, d, doc, Define(inst[i], n))
            \/ docs' = [docs EXCEPT ![d] = doc]
  BY DEF Every
<1> DEFINE doc == [docs[d] EXCEPT !.status = "stored", !.next = "ahead"]
<1>2. d \in Docs /\ ~Removed(d)
  BY DEF StoredAs, Unused, Stored, Removed
<1>3. IsDoc(doc)
  BY <1>2, FieldsKeepDoc DEF DocsOK
<1>4. SavedUnlocked(i, d, doc, Define(inst[i], n)) \/ docs' = [docs EXCEPT ![d] = doc]
  BY <1>1
<1> HIDE DEF doc
<1> QED BY <1>2, <1>3, <1>4, LockRespects, WriteOne

LEMMA ScheduleRespects ==
  ASSUME DocsOK, NEW i, NEW n, Schedule(i, n)
  PROVE  Respects
<1>1. PICK d \in Unused(n), next \in {"ahead", "due"} :
        SavedUnlocked(i, d, [status |-> "stored", next |-> next, lock |-> "free"], Define(inst[i], n))
  BY DEF Schedule
<1>2. d \in Docs /\ ~Removed(d) /\ IsDoc([status |-> "stored", next |-> next, lock |-> "free"])
  BY DEF Unused, Removed, IsDoc
<1> QED BY <1>1, <1>2, LockRespects

LEMMA RemoveRespects ==
  ASSUME DocsOK, NEW n, RemoveJobs(n)
  PROVE  Respects
<1>1. \A d \in Docs : IsDoc(docs'[d]) /\ (Removed(d) => Removed(d)')
  <2> SUFFICES ASSUME NEW d \in Docs
               PROVE  IsDoc(docs'[d]) /\ (Removed(d) => Removed(d)')
    OBVIOUS
  <2>1. CASE d \in StoredAs(n)
    BY <2>1, FieldsKeepDoc DEF RemoveJobs, DocsOK, Removed
  <2>2. CASE d \notin StoredAs(n)
    BY <2>2 DEF RemoveJobs, DocsOK, Removed
  <2> QED BY <2>1, <2>2
<1>2. docs' = [d \in Docs |-> docs'[d]]
  BY DEF RemoveJobs
<1> QED BY <1>1, <1>2 DEF Respects, DocsOK

LEMMA FillRespects ==
  ASSUME DocsOK, NEW i, NEW n, Fill(i, n)
  PROVE  Respects
<1>1. PICK d \in First(n) : LockAndQueue(i, d, docs[d], inst[i])
  BY DEF Fill
<1>2. d \in Docs /\ Stored(d)
  BY DEF First, Lockable, StoredAs
<1>3. IsDoc(docs[d]) /\ ~Removed(d)
  BY <1>2 DEF DocsOK, Stored, Removed
<1> QED BY <1>1, <1>2, <1>3, LockRespects

(* The saves of a run, and what follows the last of them *)
LEMMA RunRespects ==
  ASSUME DocsOK, NEW i, NEW k, Call(i, k) \/ Return(i, k) \/ Finish(i, k)
  PROVE  Respects
<1>1. CASE Call(i, k) \/ Return(i, k)
  BY <1>1, SaveRespects DEF Call, Return
<1>2. CASE Finish(i, k)
  <2> DEFINE d == inst[i].running[k].doc
  <2>1. CASE d \in Docs /\ Stored(d) /\ SavedUnlocked(i, d, docs[d], Ended(inst[i], k))
    <3>1. IsDoc(docs[d]) /\ ~Removed(d)
      BY <2>1 DEF DocsOK, Stored, Removed
    <3> HIDE DEF d
    <3> QED BY <2>1, <3>1, LockRespects
  <2>2. CASE UNCHANGED docs
    BY <2>2, WriteNone
  <2>3. CASE d \notin Docs /\ SavedUnlocked(i, d, docs[d], Ended(inst[i], k))
    <3>1. UNCHANGED docs
      BY <2>3 DEF SavedUnlocked, LockAndQueue, DocsOK
    <3> QED BY <3>1, WriteNone
  <2> QED BY <1>2, <2>1, <2>2, <2>3 DEF Finish
<1> QED BY <1>1, <1>2

LEMMA TimeRespects ==
  ASSUME DocsOK, NEW d, Tick(d) \/ LockExpires(d)
  PROVE  Respects
<1> DEFINE next == IF docs[d].next = "ahead" THEN "due" ELSE docs[d].next
           lock == IF docs[d].lock = "held" THEN "expired" ELSE docs[d].lock
           ticked == [docs[d] EXCEPT !.next = next]
           lapsed == [docs[d] EXCEPT !.lock = lock]
<1>1. CASE d \in Docs
  <2>1. docs' = [docs EXCEPT ![d] = ticked] \/ docs' = [docs EXCEPT ![d] = lapsed]
    BY DEF Tick, LockExpires
  <2> HIDE DEF next, lock
  <2>2. IsDoc(ticked) /\ ticked.status = docs[d].status /\ IsDoc(lapsed) /\ lapsed.status = docs[d].status
    BY <1>1, FieldsKeepDoc DEF DocsOK
  <2> HIDE DEF ticked, lapsed
  <2> QED BY <2>1, <2>2, WriteOne DEF Removed
<1>2. CASE d \notin Docs
  <2>1. UNCHANGED docs
    BY <1>2 DEF Tick, LockExpires, DocsOK
  <2> QED BY <2>1, WriteNone
<1> QED BY <1>1, <1>2

LEMMA NextRespects ==
  ASSUME DocsOK, Next
  PROVE  Respects
<1>1. ASSUME NEW i \in Instances, NEW n \in Names, Every(i, n) \/ Schedule(i, n) \/ Fill(i, n)
      PROVE  Respects
  BY <1>1, EveryRespects, ScheduleRespects, FillRespects
<1>2. ASSUME NEW i \in Instances, NEW k \in DOMAIN inst[i].running, Call(i, k) \/ Return(i, k) \/ Finish(i, k)
      PROVE  Respects
  BY <1>2, RunRespects
<1>3. ASSUME NEW i \in Instances, Fire(i) \/ Crash(i) \/ Restart(i)
      PROVE  Respects
  BY <1>3, WriteNone DEF Fire, Crash, Restart
<1>4. ASSUME NEW n \in Names, RemoveJobs(n)
      PROVE  Respects
  BY <1>4, RemoveRespects
<1>5. ASSUME NEW d \in Docs, Tick(d) \/ LockExpires(d)
      PROVE  Respects
  BY <1>5, TimeRespects
<1> QED BY <1>1, <1>2, <1>3, <1>4, <1>5 DEF Next

LEMMA DocsStay == Spec => []DocsOK
<1>1. Init => DocsOK
  <2>1. IsDoc([status |-> "new", next |-> "none", lock |-> "free"])
    BY DEF IsDoc
  <2> QED BY <2>1 DEF Init, DocsOK
<1>2. DocsOK /\ [Next]_vars => DocsOK'
  BY NextRespects DEF Respects, DocsOK, vars
<1> QED BY <1>1, <1>2, PTL DEF Spec

(* What was removed does not come back, although a job that was locked at  *)
(* the time still runs and saves what it knows (cancel, _updateJob).       *)
THEOREM RemovalIsFinal == Spec => RemovedStaysRemoved
<1> DEFINE Step == \A d \in Docs : docs[d].status = "removed" => docs'[d].status = "removed"
<1>1. DocsOK /\ [Next]_vars => [Step]_vars
  BY NextRespects DEF Respects, Removed
<1> QED BY <1>1, DocsStay, PTL DEF Spec, RemovedStaysRemoved

-----------------------------------------------------------------------------
(* Sequences *)

LEMMA Elements ==
  ASSUME NEW S, NEW s \in Seq(S)
  PROVE  Len(s) \in Nat /\ DOMAIN s = 1..Len(s) /\ \A k \in 1..Len(s) : s[k] \in S
  OBVIOUS

LEMMA Appended ==
  ASSUME NEW S, NEW s \in Seq(S), NEW x \in S
  PROVE  /\ Append(s, x) \in Seq(S) /\ Len(s) \in Nat /\ Len(Append(s, x)) = Len(s) + 1
         /\ \A k \in 1..Len(s) : Append(s, x)[k] = s[k]
         /\ Append(s, x)[Len(s) + 1] = x
  OBVIOUS

LEMMA Prefixed ==
  ASSUME NEW S, NEW s \in Seq(S), NEW n \in 0..Len(s)
  PROVE  /\ SubSeq(s, 1, n) \in Seq(S) /\ Len(SubSeq(s, 1, n)) = n
         /\ \A k \in 1..n : SubSeq(s, 1, n)[k] = s[k]
  OBVIOUS

LEMMA Fronted ==
  ASSUME NEW S, NEW s \in Seq(S), s # <<>>
  PROVE  /\ Len(s) \in Nat \ {0} /\ Last(s) = s[Len(s)] /\ Last(s) \in S
         /\ Front(s) \in Seq(S) /\ Len(Front(s)) = Len(s) - 1
         /\ \A k \in 1..(Len(s) - 1) : Front(s)[k] = s[k]
<1>1. Len(s) \in Nat \ {0} /\ s[Len(s)] \in S
  OBVIOUS
<1>2. Len(s) - 1 \in 0..Len(s)
  BY <1>1
<1>3. Front(s) = SubSeq(s, 1, Len(s) - 1) /\ Last(s) = s[Len(s)]
  BY DEF Front, Last
<1>4. /\ SubSeq(s, 1, Len(s) - 1) \in Seq(S) /\ Len(SubSeq(s, 1, Len(s) - 1)) = Len(s) - 1
      /\ \A k \in 1..(Len(s) - 1) : SubSeq(s, 1, Len(s) - 1)[k] = s[k]
  BY <1>2, Prefixed
<1> QED BY <1>1, <1>3, <1>4

LEMMA Joined ==
  ASSUME NEW S, NEW a \in Seq(S), NEW b \in Seq(S)
  PROVE  /\ Len(a) \in Nat /\ Len(b) \in Nat
         /\ a \o b \in Seq(S) /\ Len(a \o b) = Len(a) + Len(b)
         /\ \A k \in 1..Len(a) : (a \o b)[k] = a[k]
         /\ \A k \in 1..Len(b) : (a \o b)[Len(a) + k] = b[k]
  OBVIOUS

LEMMA InsertedAt ==
  ASSUME NEW S, NEW s \in Seq(S), NEW x \in S, NEW i \in 1..(Len(s) + 1)
  PROVE  /\ InsertAt(s, i, x) \in Seq(S) /\ Len(InsertAt(s, i, x)) = Len(s) + 1
         /\ \A k \in 1..(i - 1) : InsertAt(s, i, x)[k] = s[k]
         /\ InsertAt(s, i, x)[i] = x
         /\ \A k \in i..Len(s) : InsertAt(s, i, x)[k + 1] = s[k]
<1> DEFINE a == SubSeq(s, 1, i - 1)
           b == SubSeq(s, i, Len(s))
           one == <<x>>
           c == a \o one
<1>0. Len(s) \in Nat /\ i \in Nat \ {0}
  OBVIOUS
<1>1. a \in Seq(S) /\ Len(a) = i - 1 /\ \A k \in 1..(i - 1) : a[k] = s[k]
  BY <1>0
<1>2. b \in Seq(S) /\ Len(b) = Len(s) - i + 1 /\ \A k \in 1..(Len(s) - i + 1) : b[k] = s[i + k - 1]
  BY <1>0
<1>3. one \in Seq(S) /\ Len(one) = 1 /\ one[1] = x
  OBVIOUS
<1>4. InsertAt(s, i, x) = c \o b
  BY DEF InsertAt
<1> HIDE DEF a, b, one
<1>5. c \in Seq(S) /\ Len(c) = i /\ c[i] = x /\ \A k \in 1..(i - 1) : c[k] = s[k]
  <2>1. /\ c \in Seq(S) /\ Len(c) = Len(a) + Len(one)
        /\ \A k \in 1..Len(a) : c[k] = a[k]
        /\ \A k \in 1..Len(one) : c[Len(a) + k] = one[k]
    <3>1. a \in Seq(S) /\ one \in Seq(S)
      BY <1>1, <1>3
    <3> QED BY <3>1, Joined
  <2>2. Len(a) = i - 1 /\ Len(one) = 1 /\ Len(a) + Len(one) = i /\ 1 \in 1..Len(one) /\ Len(a) + 1 = i
    BY <1>0, <1>1, <1>3
  <2> HIDE DEF c
  <2>3. c[Len(a) + 1] = one[1]
    BY <2>1, <2>2
  <2>4. c[i] = x
    BY <1>3, <2>2, <2>3
  <2> QED BY <1>1, <2>1, <2>2, <2>4
<1> HIDE DEF c
<1>6. /\ c \o b \in Seq(S) /\ Len(c \o b) = Len(s) + 1
      /\ \A k \in 1..i : (c \o b)[k] = c[k]
      /\ \A k \in 1..(Len(s) - i + 1) : (c \o b)[i + k] = b[k]
  <2>1. /\ c \o b \in Seq(S) /\ Len(c \o b) = Len(c) + Len(b)
        /\ \A k \in 1..Len(c) : (c \o b)[k] = c[k]
        /\ \A k \in 1..Len(b) : (c \o b)[Len(c) + k] = b[k]
    <3>1. c \in Seq(S) /\ b \in Seq(S)
      BY <1>2, <1>5
    <3> QED BY <3>1, Joined
  <2>2. Len(c) = i /\ Len(b) = Len(s) - i + 1 /\ Len(c) + Len(b) = Len(s) + 1
    BY <1>0, <1>2, <1>5
  <2> QED BY <2>1, <2>2
<1>7. ASSUME NEW k \in i..Len(s) PROVE (c \o b)[k + 1] = s[k]
  <2> DEFINE j == k - i + 1
  <2>1. j \in 1..(Len(s) - i + 1) /\ i + j - 1 = k /\ i + j = k + 1
    BY <1>0
  <2> HIDE DEF j
  <2>2. (c \o b)[i + j] = b[j] /\ b[j] = s[i + j - 1]
    BY <1>2, <1>6, <2>1
  <2> QED BY <2>1, <2>2
<1> QED BY <1>0, <1>4, <1>5, <1>6, <1>7

LEMMA RemovedAt ==
  ASSUME NEW S, NEW s \in Seq(S), NEW i \in 1..Len(s)
  PROVE  /\ RemoveAt(s, i) \in Seq(S) /\ Len(RemoveAt(s, i)) = Len(s) - 1
         /\ \A k \in 1..(i - 1) : RemoveAt(s, i)[k] = s[k]
         /\ \A k \in i..(Len(s) - 1) : RemoveAt(s, i)[k] = s[k + 1]
<1> DEFINE a == SubSeq(s, 1, i - 1)
           b == SubSeq(s, i + 1, Len(s))
<1>0. Len(s) \in Nat /\ i \in Nat \ {0}
  OBVIOUS
<1>1. a \in Seq(S) /\ Len(a) = i - 1 /\ \A k \in 1..(i - 1) : a[k] = s[k]
  BY <1>0
<1>2. b \in Seq(S) /\ Len(b) = Len(s) - i /\ \A k \in 1..(Len(s) - i) : b[k] = s[i + k]
  BY <1>0
<1>3. RemoveAt(s, i) = a \o b
  BY DEF RemoveAt
<1> HIDE DEF a, b
<1>4. /\ a \o b \in Seq(S) /\ Len(a \o b) = Len(s) - 1
      /\ \A k \in 1..(i - 1) : (a \o b)[k] = a[k]
      /\ \A k \in 1..(Len(s) - i) : (a \o b)[i - 1 + k] = b[k]
  <2>1. /\ a \o b \in Seq(S) /\ Len(a \o b) = Len(a) + Len(b)
        /\ \A k \in 1..Len(a) : (a \o b)[k] = a[k]
        /\ \A k \in 1..Len(b) : (a \o b)[Len(a) + k] = b[k]
    <3>1. a \in Seq(S) /\ b \in Seq(S)
      BY <1>1, <1>2
    <3> QED BY <3>1, Joined
  <2>2. Len(a) = i - 1 /\ Len(b) = Len(s) - i /\ Len(a) + Len(b) = Len(s) - 1
    BY <1>0, <1>1, <1>2
  <2> QED BY <2>1, <2>2
<1>5. ASSUME NEW k \in i..(Len(s) - 1) PROVE (a \o b)[k] = s[k + 1]
  <2> DEFINE j == k - i + 1
  <2>1. j \in 1..(Len(s) - i) /\ i + j = k + 1 /\ i - 1 + j = k
    BY <1>0
  <2> HIDE DEF j
  <2>2. (a \o b)[i - 1 + j] = b[j] /\ b[j] = s[i + j]
    BY <1>2, <1>4, <2>1
  <2> QED BY <2>1, <2>2
<1> QED BY <1>0, <1>1, <1>3, <1>4, <1>5

(* The elements of s at the positions K, one for each position *)
LEMMA AtPositions ==
  ASSUME NEW S, NEW s \in Seq(S), NEW K \in SUBSET (1..Len(s))
  PROVE  /\ At(s, K) \in Seq(S) /\ Len(At(s, K)) = Cardinality(K) /\ Cardinality(K) \in Nat
         /\ \E f \in [1..Cardinality(K) -> K] :
              /\ \A m, n \in 1..Cardinality(K) : f[m] = f[n] => m = n
              /\ \A n \in 1..Cardinality(K) : At(s, K)[n] = s[f[n]]
<1> DEFINE c == Cardinality(K)
           U(k) == {l \in K : l <= k}
           rank == [k \in K |-> Cardinality(U(k))]
           P(n) == CHOOSE k \in K : Cardinality(U(k)) = n
           f == [n \in 1..c |-> P(n)]
<1>0. Len(s) \in Nat /\ \A k \in K : s[k] \in S /\ k \in Nat
  OBVIOUS
<1>1. IsFiniteSet(K) /\ c \in Nat
  <2>1. IsFiniteSet(1..Len(s))
    BY <1>0, FS_Interval
  <2> QED BY <2>1, FS_Subset, FS_CardinalityType
<1>2. ASSUME NEW k \in K
      PROVE  IsFiniteSet(U(k)) /\ Cardinality(U(k)) \in 1..c /\ Cardinality(U(k)) \in Nat
  <2>1. IsFiniteSet(U(k)) /\ Cardinality(U(k)) <= c
    BY <1>1, FS_Subset
  <2>2. Cardinality(U(k)) \in Nat /\ U(k) # {}
    BY <1>0, <2>1, FS_CardinalityType
  <2>3. Cardinality(U(k)) # 0
    BY <2>1, <2>2, FS_EmptySet
  <2> QED BY <1>1, <2>1, <2>2, <2>3
<1>3. ASSUME NEW k \in K, NEW l \in K, k < l
      PROVE  Cardinality(U(k)) < Cardinality(U(l))
  <2>0. k \in Nat /\ l \in Nat
    BY <1>0
  <2>1. U(k) \in SUBSET U(l) /\ U(k) # U(l)
    <3>1. \A x \in U(k) : x \in K /\ x \in Nat /\ x <= k
      BY <1>0
    <3>2. \A x \in U(k) : x <= l
      BY <1>3, <2>0, <3>1
    <3>3. l \in U(l) /\ l \notin U(k)
      BY <1>3, <2>0
    <3> QED BY <3>1, <3>2, <3>3
  <2>2. Cardinality(U(k)) <= Cardinality(U(l)) /\ Cardinality(U(k)) # Cardinality(U(l))
    BY <1>2, <2>1, FS_Subset
  <2>3. Cardinality(U(k)) \in Nat /\ Cardinality(U(l)) \in Nat
    BY <1>2
  <2> HIDE DEF U
  <2> QED BY <2>2, <2>3
<1>4. rank \in Injection(K, 1..c)
  <2>1. rank \in [K -> 1..c]
    BY <1>2
  <2>2. \A k, l \in K : rank[k] = rank[l] => k = l
    <3> SUFFICES ASSUME NEW k \in K, NEW l \in K, k # l
                 PROVE  Cardinality(U(k)) # Cardinality(U(l))
      OBVIOUS
    <3>1. k < l \/ l < k
      BY <1>0
    <3>2. \A x, y \in K : x < y => Cardinality(U(x)) < Cardinality(U(y))
      BY <1>3
    <3>3. Cardinality(U(k)) \in Nat /\ Cardinality(U(l)) \in Nat
      BY <1>2
    <3> HIDE DEF U
    <3> QED BY <3>1, <3>2, <3>3
  <2> HIDE DEF rank
  <2> QED BY <2>1, <2>2 DEF Injection, IsInjective
<1>5. rank \in Surjection(K, 1..c)
  <2>1. IsFiniteSet(1..c) /\ Cardinality(1..c) = c
    BY <1>1, FS_Interval
  <2> HIDE DEF rank
  <2> QED BY <1>4, <2>1, FS_Injection
<1>6. ASSUME NEW n \in 1..c
      PROVE  P(n) \in K /\ Cardinality(U(P(n))) = n
  <2>1. \E k \in K : rank[k] = n
    <3> HIDE DEF rank
    <3> QED BY <1>5 DEF Surjection
  <2>2. \E k \in K : Cardinality(U(k)) = n
    BY <2>1
  <2> QED BY <2>2
<1>7. f \in [1..c -> K] /\ \A m, n \in 1..c : f[m] = f[n] => m = n
  <2>1. f \in [1..c -> K]
    BY <1>6
  <2>2. \A n \in 1..c : f[n] = P(n)
    OBVIOUS
  <2>3. ASSUME NEW m \in 1..c, NEW n \in 1..c, P(m) = P(n) PROVE m = n
    <3>1. Cardinality(U(P(m))) = m /\ Cardinality(U(P(n))) = n
      BY <1>6
    <3> QED BY <2>3, <3>1
  <2> HIDE DEF f, P
  <2> QED BY <2>1, <2>2, <2>3
<1>8. At(s, K) = [n \in 1..c |-> s[P(n)]]
  BY DEF At
<1>9. At(s, K) \in Seq(S) /\ Len(At(s, K)) = c /\ \A n \in 1..c : At(s, K)[n] = s[f[n]]
  <2>1. \A n \in 1..c : s[P(n)] \in S
    BY <1>0, <1>6
  <2> HIDE DEF P
  <2>2. [n \in 1..c |-> s[P(n)]] \in Seq(S) /\ Len([n \in 1..c |-> s[P(n)]]) = c
    BY <1>1, <2>1
  <2> QED BY <1>8, <2>2
<1> HIDE DEF f
<1> QED BY <1>1, <1>7, <1>9

-----------------------------------------------------------------------------
(* What an instance holds, from one state to a later one *)

(* Where an instance holds jobs: in its queue, to the right of zero, and   *)
(* running, to the left of it.                                             *)
Places(m) == {x \in Int : \/ 1 <= x /\ x <= Len(m.queue)
                          \/ 1 <= -x /\ -x <= Len(m.running)}
Job(m, x) == IF x > 0 THEN m.queue[x] ELSE m.running[-x]

(* A job stays what it is, or is started before its lock runs out. *)
Moved(o, e) == /\ e.doc = o.doc
               /\ \/ e.phase = o.phase /\ e.expired = o.expired
                  \/ o.phase = "queued" /\ ~o.expired /\ e.phase = "saving" /\ ~e.expired

(* The jobs of b, but for those at N, are jobs of a. *)
Maps(f, a, b, N) == /\ f \in [Places(b) \ N -> Places(a)]
                    /\ \A x, y \in Places(b) \ N : f[x] = f[y] => x = y
                    /\ \A x \in Places(b) \ N : Moved(Job(a, f[x]), Job(b, x))
Stems(a, b) == \E f : Maps(f, a, b, {})

(* Callbacks under a lock that counts go on, and what has begun to run and *)
(* does not recur has no time to run again.                                *)
Calling(m, d) == \E k \in 1..Len(m.running) : /\ m.running[k].doc = d /\ m.running[k].phase = "calling"
                                              /\ ~m.running[k].expired
Spent(m) == \A k \in 1..Len(m.running) :
              NameOf[m.running[k].doc] \notin Recurring => m.running[k].next = "none"
Continues(a, b) == (\A d : Calling(a, d) => Calling(b, d)) /\ (Spent(a) => Spent(b))

Follows(a, b) == Stems(a, b) /\ Continues(a, b)

(* Besides, b has at most one new job, which is of document d. *)
Single(N) == \A x, y \in N : x = y
Fresh(b, d, N) == \A x \in N : /\ Job(b, x).doc = d /\ Job(b, x).phase \in {"queued", "saving"}
                               /\ ~Job(b, x).expired
Gains(a, b, d) ==
    /\ \E N, f : N \subseteq Places(b) /\ Single(N) /\ Fresh(b, d, N) /\ Maps(f, a, b, N)
    /\ Continues(a, b)

LEMMA Stays ==
  ASSUME NEW m PROVE Follows(m, m)
<1> DEFINE f == [x \in Places(m) |-> x]
<1>1. Maps(f, m, m, {})
  BY DEF Maps, Moved
<1> QED BY <1>1 DEF Follows, Stems, Continues

LEMMA FollowsOn ==
  ASSUME NEW a, NEW b, NEW c, Follows(b, c)
  PROVE  /\ Follows(a, b) => Follows(a, c)
         /\ \A d : Gains(a, b, d) => Gains(a, c, d)
<1>1. PICK g : Maps(g, b, c, {})
  BY DEF Follows, Stems
<1>2. ASSUME NEW N, N \subseteq Places(b), NEW f, Maps(f, a, b, N)
      PROVE  LET M == {x \in Places(c) : g[x] \in N}
                 h == [x \in Places(c) \ M |-> f[g[x]]]
             IN  Maps(h, a, c, M)
  <2> DEFINE M == {x \in Places(c) : g[x] \in N}
             h == [x \in Places(c) \ M |-> f[g[x]]]
  <2>1. \A x \in Places(c) \ M : g[x] \in Places(b) \ N
    BY <1>1 DEF Maps
  <2>2. h \in [Places(c) \ M -> Places(a)]
    BY <1>2, <2>1 DEF Maps
  <2>3. \A x, y \in Places(c) \ M : h[x] = h[y] => x = y
    BY <1>1, <1>2, <2>1 DEF Maps
  <2>4. ASSUME NEW x \in Places(c) \ M PROVE Moved(Job(a, h[x]), Job(c, x))
    <3>1. Moved(Job(b, g[x]), Job(c, x)) /\ Moved(Job(a, f[g[x]]), Job(b, g[x])) /\ h[x] = f[g[x]]
      BY <1>1, <1>2, <2>1, <2>4 DEF Maps
    <3> QED BY <3>1 DEF Moved
  <2> HIDE DEF h, M
  <2> QED BY <2>2, <2>3, <2>4 DEF Maps, h, M
<1>3. Follows(a, b) => Follows(a, c)
  <2> SUFFICES ASSUME NEW f, Maps(f, a, b, {}), Continues(a, b) PROVE Follows(a, c)
    BY DEF Follows, Stems
  <2> DEFINE M == {x \in Places(c) : g[x] \in {}}
  <2>1. M = {} /\ \E h : Maps(h, a, c, M)
    BY <1>2
  <2> HIDE DEF M
  <2> QED BY <2>1 DEF Follows, Stems, Continues
<1>4. ASSUME NEW d, Gains(a, b, d) PROVE Gains(a, c, d)
  <2>1. PICK N, f : N \subseteq Places(b) /\ Single(N) /\ Fresh(b, d, N) /\ Maps(f, a, b, N)
    BY <1>4 DEF Gains
  <2> DEFINE M == {x \in Places(c) : g[x] \in N}
  <2>2. M \subseteq Places(c) /\ Single(M)
    BY <1>1, <2>1 DEF Maps, Single
  <2>3. Fresh(c, d, M)
    BY <1>1, <2>1 DEF Maps, Fresh, Moved
  <2>4. \E h : Maps(h, a, c, M)
    BY <1>2, <2>1
  <2> HIDE DEF M
  <2>5. Continues(a, c)
    BY <1>4 DEF Gains, Follows, Continues
  <2> QED BY <2>2, <2>3, <2>4, <2>5 DEF Gains
<1> QED BY <1>3, <1>4

(* Fewer jobs in the queue *)
LEMMA Shorter ==
  ASSUME NEW a, NEW b, Len(a.queue) \in Nat, Len(b.queue) \in Nat, Len(b.queue) <= Len(a.queue),
         \A k \in 1..Len(b.queue) : b.queue[k] = a.queue[k], b.running = a.running
  PROVE  Follows(a, b)
<1> DEFINE f == [x \in Places(b) |-> x]
<1>1. Places(b) \subseteq Places(a)
  BY DEF Places
<1>2. \A x \in Places(b) : Job(b, x) = Job(a, x)
  BY DEF Places, Job
<1>3. Maps(f, a, b, {})
  BY <1>1, <1>2 DEF Maps, Moved
<1>4. Continues(a, b)
  BY DEF Continues, Calling, Spent
<1> QED BY <1>3, <1>4 DEF Follows, Stems

-----------------------------------------------------------------------------
(* What _jobProcessing leaves in memory *)

(* A definition is busy only if one of its jobs runs. *)
Counted(m) ==
    \A n \in Names : /\ m.count[n] <= Concurrency
                     /\ m.count[n] > 0 => \E k \in 1..Len(m.running) : NameOf[m.running[k].doc] = n

Memory(m) == m \in Instance /\ m.timers <= MaxTimers /\ Counted(m)

Wakes(m) == m.queue # <<>> => m.timers > 0 \/ m.running # <<>>

LEMMA Fields ==
  ASSUME NEW m \in Instance
  PROVE  /\ m.defined \in SUBSET Names /\ m.timers \in Nat /\ m.count \in [Names -> Nat]
         /\ m.queue \in Seq(Queued) /\ Len(m.queue) \in Nat
         /\ \A k \in 1..Len(m.queue) : /\ m.queue[k] \in Queued /\ m.queue[k].doc \in Docs
                                       /\ m.queue[k].phase = "queued" /\ m.queue[k].expired \in BOOLEAN
         /\ m.running \in Seq(Run) /\ Len(m.running) \in Nat
         /\ \A k \in 1..Len(m.running) : /\ m.running[k] \in Run /\ m.running[k].doc \in Docs
                                         /\ m.running[k].phase \in {"saving", "calling", "saved"}
                                         /\ m.running[k].expired \in BOOLEAN
<1>1. m.defined \in SUBSET Names /\ m.timers \in Nat /\ m.count \in [Names -> Nat]
  BY DEF Instance
<1>2. m.queue \in Seq(Queued) /\ m.running \in Seq(Run)
  BY DEF Instance
<1>3. Len(m.queue) \in Nat /\ \A k \in 1..Len(m.queue) : m.queue[k] \in Queued
  BY <1>2, Elements
<1>4. Len(m.running) \in Nat /\ \A k \in 1..Len(m.running) : m.running[k] \in Run
  BY <1>2, Elements
<1>5. \A j \in Queued : j.doc \in Docs /\ j.phase = "queued" /\ j.expired \in BOOLEAN
  BY DEF Queued
<1>6. \A j \in Run : j.doc \in Docs /\ j.phase \in {"saving", "calling", "saved"} /\ j.expired \in BOOLEAN
  BY DEF Run
<1> QED BY <1>1, <1>2, <1>3, <1>4, <1>5, <1>6

LEMMA TimersFit ==
  /\ MaxTimers \in Nat
  /\ \A d \in Docs : MaxTimers > 0
<1>1. MaxTimers \in Nat
  BY AgendaAssumption, FS_CardinalityType DEF AgendaAssumption, MaxTimers
<1>2. Docs # {} => MaxTimers # 0
  BY AgendaAssumption, FS_EmptySet DEF AgendaAssumption, MaxTimers
<1> QED BY <1>1, <1>2

(* Fewer jobs in the queue are no harm to the rest. *)
LEMMA UptoOK ==
  ASSUME NEW m, Memory(m), NEW n \in 0..Len(m.queue)
  PROVE  /\ Memory(Upto(m, n)) /\ Follows(m, Upto(m, n))
<1> DEFINE b == Upto(m, n)
<1>1. m \in Instance
  BY DEF Memory
<1>2. /\ SubSeq(m.queue, 1, n) \in Seq(Queued) /\ Len(SubSeq(m.queue, 1, n)) = n
      /\ \A k \in 1..n : SubSeq(m.queue, 1, n)[k] = m.queue[k]
  BY <1>1, Fields, Prefixed
<1>3. b = [m EXCEPT !.queue = SubSeq(m.queue, 1, n)]
  BY DEF Upto
<1>4. b.queue = SubSeq(m.queue, 1, n) /\ b.running = m.running /\ b.timers = m.timers /\ b.count = m.count
  BY <1>1, <1>3 DEF Instance
<1>5. b \in Instance
  BY <1>1, <1>2, <1>3 DEF Instance
<1> HIDE DEF b
<1>6. Memory(b)
  BY <1>4, <1>5 DEF Memory, Counted
<1>7. Len(m.queue) \in Nat /\ n \in Nat /\ n <= Len(m.queue)
  BY <1>1, Fields
<1>8. Follows(m, b)
  BY <1>2, <1>4, <1>7, Shorter
<1> QED BY <1>6, <1>8 DEF b

LEMMA Empty ==
  ASSUME NEW S, NEW s \in Seq(S)
  PROVE  s = <<>> <=> Len(s) = 0
  OBVIOUS

LEMMA DropAllOK ==
  ASSUME NEW m, Memory(m)
  PROVE  /\ Memory(DropAll(m)) /\ Follows(m, DropAll(m)) /\ ~Drops(DropAll(m))
<1> DEFINE L == Len(m.queue)
           S == {k \in 0..L : ~Drops(Upto(m, k))}
<1>1. m \in Instance /\ L \in Nat
  BY Fields DEF Memory
<1>2. ~Pops(Upto(m, 0))
  <2>1. /\ SubSeq(m.queue, 1, 0) \in Seq(Queued) /\ Len(SubSeq(m.queue, 1, 0)) = 0
    BY <1>1, Fields, Prefixed
  <2>2. Upto(m, 0).queue = SubSeq(m.queue, 1, 0)
    BY <1>1 DEF Upto, Instance
  <2>3. Upto(m, 0).queue = <<>>
    BY <2>1, <2>2, Empty
  <2> QED BY <2>3 DEF Pops
<1>3. 0 \in S
  BY <1>1, <1>2 DEF Drops
<1>4. IsFiniteSet(S) /\ S \in SUBSET Nat /\ S # {}
  <2>1. IsFiniteSet(0..L) /\ S \in SUBSET (0..L)
    BY <1>1, FS_Interval
  <2> QED BY <1>1, <1>3, <2>1, FS_Subset
<1>5. Max(S) \in S
  BY <1>4, MaxOfFinite
<1>6. DropAll(m) = Upto(m, Max(S))
  BY DEF DropAll
<1>7. Max(S) \in 0..L /\ ~Drops(Upto(m, Max(S)))
  BY <1>5
<1> HIDE DEF S
<1> QED BY <1>6, <1>7, UptoOK

(* A job is started that is locked, and no other of its definition runs.   *)
LEMMA StartOK ==
  ASSUME NEW m, Memory(m), m.queue # <<>>, IsFree(m, Last(m.queue)), ~Last(m.queue).expired
  PROVE  Memory(Start(m)) /\ Start(m).running # <<>> /\ Follows(m, Start(m))
<1> DEFINE job == Last(m.queue)
           name == NameOf[job.doc]
           run == [job EXCEPT !.next = NextOf(job.doc), !.phase = "saving"]
           b == Start(m)
           Q == Len(m.queue)
           R == Len(m.running)
<1>1. m \in Instance /\ Counted(m)
  BY DEF Memory
<1>2. /\ Q \in Nat \ {0} /\ job = m.queue[Q] /\ job \in Queued /\ Front(m.queue) \in Seq(Queued)
      /\ Len(Front(m.queue)) = Q - 1 /\ \A k \in 1..(Q - 1) : Front(m.queue)[k] = m.queue[k]
  BY <1>1, Fields, Fronted
<1>3. run \in Run /\ run.doc = job.doc /\ run.phase = "saving" /\ run.expired = job.expired
  <2>1. NextOf(job.doc) \in Times
    BY DEF NextOf, Times
  <2> HIDE DEF job
  <2> QED BY <1>2, <2>1 DEF Queued, Run
<1>4. name \in Names /\ job.doc \in Docs /\ job.phase = "queued"
  BY <1>2, AgendaAssumption DEF AgendaAssumption, Queued
<1>5. m.count[name] = 0
  BY <1>1, <1>4, Fields DEF IsFree, Concurrency
<1>6. b = [m EXCEPT !.queue = Front(m.queue), !.count[name] = m.count[name] + 1,
             !.running = Append(m.running, run)]
  BY DEF Start
<1> HIDE DEF run, b
<1>7. /\ Append(m.running, run) \in Seq(Run) /\ R \in Nat /\ Len(Append(m.running, run)) = R + 1
      /\ \A k \in 1..R : Append(m.running, run)[k] = m.running[k]
      /\ Append(m.running, run)[R + 1] = run
  BY <1>1, <1>3, Fields, Appended
<1>8. /\ b.queue = Front(m.queue) /\ b.running = Append(m.running, run) /\ b.timers = m.timers
      /\ b.count = [m.count EXCEPT ![name] = 1]
  BY <1>1, <1>5, <1>6 DEF Instance
<1>9. b \in Instance
  <2>1. [m.count EXCEPT ![name] = m.count[name] + 1] \in [Names -> Nat]
    BY <1>1, <1>4, <1>5, Fields
  <2> HIDE DEF name, job
  <2>2. b = [m EXCEPT !.queue = Front(m.queue), !.count = [m.count EXCEPT ![name] = m.count[name] + 1],
               !.running = Append(m.running, run)]
    BY <1>1, <1>6 DEF Instance
  <2> QED BY <1>1, <1>2, <1>7, <2>1, <2>2 DEF Instance
<1>10. Counted(b)
  <2> SUFFICES ASSUME NEW n \in Names
               PROVE  /\ b.count[n] <= 1
                      /\ b.count[n] > 0 => \E k \in 1..Len(b.running) : NameOf[b.running[k].doc] = n
    BY DEF Counted, Concurrency
  <2>1. CASE n = name
    <3>1. b.count[n] = 1 /\ b.running[R + 1] = run /\ R + 1 \in 1..Len(b.running)
      BY <1>1, <1>7, <1>8, <2>1, Fields
    <3> QED BY <1>3, <2>1, <3>1
  <2>2. CASE n # name
    <3>1. b.count[n] = m.count[n] /\ m.count[n] \in Nat
      BY <1>1, <1>8, <2>2, Fields
    <3>2. ASSUME b.count[n] > 0 PROVE \E k \in 1..Len(b.running) : NameOf[b.running[k].doc] = n
      <4>1. PICK k \in 1..R : NameOf[m.running[k].doc] = n
        BY <1>1, <3>1, <3>2 DEF Counted
      <4>2. k \in 1..Len(b.running) /\ b.running[k] = m.running[k]
        BY <1>7, <1>8, <4>1
      <4> QED BY <4>1, <4>2
    <3> QED BY <1>1, <3>1, <3>2 DEF Counted, Concurrency
  <2> QED BY <2>1, <2>2
<1>11. Stems(m, b)
  <2> DEFINE f == [x \in Places(b) |-> IF x = -(R + 1) THEN Q ELSE x]
  <2>1. /\ Q \in Places(m) /\ Len(b.queue) = Q - 1 /\ Len(b.running) = R + 1
        /\ \A x \in Places(b) : x = -(R + 1) \/ (x \in Places(m) /\ x # Q)
    <3>1. Len(b.queue) = Q - 1 /\ Len(b.running) = R + 1
      BY <1>2, <1>7, <1>8
    <3>2. Q \in Places(m)
      BY <1>2 DEF Places
    <3>3. ASSUME NEW x \in Places(b) PROVE x = -(R + 1) \/ (x \in Places(m) /\ x # Q)
      <4>1. x \in Int /\ ((1 <= x /\ x <= Q - 1) \/ (1 <= -x /\ -x <= R + 1))
        BY <3>1 DEF Places
      <4> QED BY <1>2, <1>7, <4>1 DEF Places
    <3> QED BY <3>1, <3>2, <3>3
  <2>2. f \in [Places(b) -> Places(m)] /\ \A x, y \in Places(b) : f[x] = f[y] => x = y
    BY <2>1
  <2>3. ASSUME NEW x \in Places(b) PROVE Moved(Job(m, f[x]), Job(b, x))
    <3>1. CASE x = -(R + 1)
      <4>1. f[x] = Q /\ Job(m, Q) = job /\ Job(b, x) = run
        BY <1>2, <1>7, <1>8, <3>1 DEF Job
      <4> QED BY <1>3, <1>4, <4>1 DEF Moved
    <3>2. CASE x # -(R + 1)
      <4>1. f[x] = x /\ Job(m, x) = Job(b, x)
        <5>1. CASE x > 0
          BY <1>2, <1>8, <2>1, <3>2, <5>1 DEF Job, Places
        <5>2. CASE ~(x > 0)
          <6>1. -x \in 1..R
            BY <2>1, <3>2, <5>2, <1>7 DEF Places
          <6> QED BY <1>7, <1>8, <3>2, <5>2, <6>1 DEF Job
        <5> QED BY <5>1, <5>2
      <4> QED BY <4>1 DEF Moved
    <3> QED BY <3>1, <3>2
  <2> HIDE DEF f
  <2> QED BY <2>2, <2>3 DEF Maps, Stems
<1>12. b.running # <<>>
  BY <1>7, <1>8
<1>13. Memory(b)
  BY <1>8, <1>9, <1>10 DEF Memory
<1>14. Continues(m, b)
  <2>1. Len(b.running) = R + 1 /\ b.running[R + 1] = run /\ \A k \in 1..R : b.running[k] = m.running[k]
    BY <1>7, <1>8
  <2>2. NameOf[run.doc] \notin Recurring => run.next = "none"
    BY <1>2, <1>3 DEF run, NextOf, Queued
  <2>3. \A d : Calling(m, d) => Calling(b, d)
    BY <1>7, <2>1 DEF Calling
  <2>4. ASSUME Spent(m), NEW k \in 1..(R + 1)
        PROVE  NameOf[b.running[k].doc] \notin Recurring => b.running[k].next = "none"
    <3>1. k = R + 1 \/ k \in 1..R
      BY <1>7
    <3> QED BY <2>1, <2>2, <2>4, <3>1 DEF Spent
  <2> QED BY <2>1, <2>3, <2>4 DEF Continues, Spent
<1> QED BY <1>11, <1>12, <1>13, <1>14 DEF b, Follows

LEMMA SetTimerOK ==
  ASSUME NEW m, Memory(m)
  PROVE  Memory(SetTimer(m)) /\ Follows(m, SetTimer(m)) /\ Wakes(SetTimer(m))
<1> DEFINE b == SetTimer(m)
           t == IF m.timers < MaxTimers THEN m.timers + 1 ELSE m.timers
<1>1. m \in Instance
  BY DEF Memory
<1>2. b = [m EXCEPT !.timers = t]
  BY DEF SetTimer
<1>3. t \in Nat /\ t <= MaxTimers /\ (MaxTimers > 0 => t > 0)
  BY <1>1, Fields, TimersFit DEF Memory
<1> HIDE DEF t, b
<1>4. b.queue = m.queue /\ b.running = m.running /\ b.timers = t /\ b.count = m.count /\ b \in Instance
  BY <1>1, <1>2, <1>3 DEF Instance
<1>5. Memory(b)
  BY <1>3, <1>4 DEF Memory, Counted
<1>6. Follows(m, b)
  BY <1>1, <1>4, Fields, Shorter
<1>7. Wakes(b)
  <2> SUFFICES ASSUME m.queue # <<>> PROVE MaxTimers > 0
    BY <1>3, <1>4 DEF Wakes
  <2>1. Last(m.queue) \in Queued
    BY <1>1, Fields, Fronted
  <2> QED BY <2>1, TimersFit DEF Queued
<1> QED BY <1>5, <1>6, <1>7 DEF b

(* One call of _jobProcessing *)
LEMMA ProcessOK ==
  ASSUME NEW m, Memory(m)
  PROVE  Memory(Process(m)) /\ Follows(m, Process(m)) /\ Wakes(Process(m))
<1> DEFINE rest == DropAll(m)
           b == ProcessKept(rest)
<1>1. Memory(rest) /\ Follows(m, rest) /\ ~Drops(rest) /\ rest \in Instance
  BY DropAllOK DEF Memory
<1>2. Process(m) = b
  <2>1. {DropAll(now) : now \in {m}} = {rest}
    OBVIOUS
  <2>2. {ProcessKept(x) : x \in {DropAll(now) : now \in {m}}} = {b}
    OBVIOUS
  <2> HIDE DEF b
  <2>3. The({b}) = b
    BY DEF The
  <2> QED BY <2>2, <2>3 DEF Process
<1> HIDE DEF rest
<1>3. CASE rest.queue = <<>>
  <2>1. b = rest
    BY <1>3 DEF ProcessKept
  <2> HIDE DEF b
  <2> QED BY <1>1, <1>2, <1>3, <2>1 DEF Wakes
<1>4. CASE rest.queue # <<>> /\ ~Pops(rest)
  <2>1. b = SetTimer(rest)
    BY <1>4 DEF ProcessKept
  <2> HIDE DEF b
  <2> QED BY <1>1, <1>2, <2>1, SetTimerOK, FollowsOn
<1>5. CASE rest.queue # <<>> /\ Pops(rest) /\ ~IsFree(rest, Last(rest.queue))
  <2>1. b = rest
    BY <1>5 DEF ProcessKept
  <2> DEFINE n == NameOf[Last(rest.queue).doc]
  <2>2. Last(rest.queue) \in Queued
    BY <1>1, <1>5, Fields, Fronted
  <2>3. n \in Names
    BY <2>2, AgendaAssumption DEF AgendaAssumption, Queued
  <2>4. rest.count[n] \in Nat /\ ~(rest.count[n] < 1)
    BY <1>1, <1>5, <2>3, Fields DEF IsFree, Concurrency
  <2>5. Len(rest.running) \in Nat /\ 1..Len(rest.running) # {}
    <3> HIDE DEF n
    <3> QED BY <1>1, <2>3, <2>4, Fields DEF Memory, Counted
  <2>6. rest.running # <<>>
    BY <2>5
  <2> HIDE DEF b
  <2> QED BY <1>1, <1>2, <2>1, <2>6 DEF Wakes
<1>6. CASE rest.queue # <<>> /\ Pops(rest) /\ IsFree(rest, Last(rest.queue))
  <2>1. b = Start(rest)
    BY <1>6 DEF ProcessKept
  <2>2. ~Last(rest.queue).expired
    BY <1>1, <1>6 DEF Drops
  <2>3. Memory(b) /\ b.running # <<>> /\ Follows(rest, b)
    BY <1>1, <1>6, <2>1, <2>2, StartOK
  <2> HIDE DEF b
  <2> QED BY <1>1, <1>2, <2>3, FollowsOn DEF Wakes
<1> QED BY <1>3, <1>4, <1>5, <1>6

-----------------------------------------------------------------------------
(* Definitions, jobs that are enqueued and jobs that are done *)

(* A definition is made anew. *)
LEMMA DefineOK ==
  ASSUME NEW m, Memory(m), NEW n \in Names
  PROVE  Memory(Define(m, n)) /\ Follows(m, Define(m, n))
<1> DEFINE b == Define(m, n)
<1>1. m \in Instance /\ Counted(m)
  BY DEF Memory
<1>2. [m.count EXCEPT ![n] = 0] \in [Names -> Nat]
  BY <1>1, Fields
<1>3. b = [m EXCEPT !.defined = m.defined \cup {n}, !.count = [m.count EXCEPT ![n] = 0]]
  BY <1>1 DEF Define, Instance
<1> HIDE DEF b
<1>4. b \in Instance
  BY <1>1, <1>2, <1>3 DEF Instance
<1>5. /\ b.queue = m.queue /\ b.running = m.running /\ b.timers = m.timers
      /\ b.count = [m.count EXCEPT ![n] = 0]
  BY <1>1, <1>3 DEF Instance
<1>6. Counted(b)
  <2>1. \A x \in Names : b.count[x] = IF x = n THEN 0 ELSE m.count[x]
    BY <1>1, <1>5, Fields
  <2> QED BY <1>1, <1>5, <2>1 DEF Counted, Concurrency
<1>7. Follows(m, b)
  BY <1>1, <1>5, Fields, Shorter
<1> QED BY <1>4, <1>5, <1>6, <1>7 DEF Memory, b

(* A job that was just locked is put between the others. *)
Enqueued(m, d, next) == [m EXCEPT !.queue = Insert(m.queue, JobOf(d, next))]

LEMMA EnqueuedOK ==
  ASSUME NEW m, Memory(m), NEW d \in Docs, NEW next
  PROVE  Memory(Enqueued(m, d, next)) /\ Gains(m, Enqueued(m, d, next), d)
<1> DEFINE b == Enqueued(m, d, next)
           q == m.queue
           job == JobOf(d, next)
           i == FirstDue(q)
<1>1. m \in Instance /\ q \in Seq(Queued) /\ Len(q) \in Nat
  BY Fields DEF Memory
<1>2. job \in Queued /\ job.doc = d /\ job.phase = "queued" /\ ~job.expired
  BY DEF JobOf, Queued
<1> HIDE DEF job
<1>3. i \in 1..(Len(q) + 1)
  <2> DEFINE S == {k \in DOMAIN q : Due(q[k])} \cup {Len(q) + 1}
  <2>1. S \in SUBSET Nat /\ S # {} /\ S \subseteq 1..(Len(q) + 1)
    BY <1>1
  <2>2. i = Min(S)
    BY DEF FirstDue
  <2> HIDE DEF S
  <2> QED BY <2>1, <2>2, MinOfNonempty
<1> HIDE DEF i
<1> DEFINE r == InsertAt(q, i, job)
<1>4. /\ r \in Seq(Queued) /\ Len(r) = Len(q) + 1 /\ r[i] = job
      /\ \A k \in 1..(i - 1) : r[k] = q[k]
      /\ \A k \in i..Len(q) : r[k + 1] = q[k]
  BY <1>1, <1>2, <1>3, InsertedAt, SMTT(20)
<1>5. b = [m EXCEPT !.queue = r]
  BY DEF Enqueued, Insert, i, job
<1> HIDE DEF b, r, q
<1>6. /\ b \in Instance /\ b.queue = r /\ b.running = m.running /\ b.timers = m.timers
      /\ b.count = m.count
  BY <1>1, <1>4, <1>5 DEF Instance
<1>7. Memory(b)
  BY <1>6 DEF Memory, Counted
<1> DEFINE f == [x \in Places(b) \ {i} |-> IF x > i THEN x - 1 ELSE x]
<1>8. /\ i \in Places(b) /\ i \in Nat \ {0}
      /\ \A x \in Places(b) \ {i} : f[x] \in Places(m) /\ Job(m, f[x]) = Job(b, x)
  <2>0. Len(b.running) = Len(m.running) /\ Len(m.running) \in Nat
    BY <1>1, <1>6, Fields
  <2>1. i \in Places(b) /\ i \in Nat \ {0}
    BY <1>1, <1>3, <1>4, <1>6 DEF Places
  <2>2. ASSUME NEW x \in Places(b) \ {i} PROVE f[x] \in Places(m) /\ Job(m, f[x]) = Job(b, x)
    <3>0. x \in Int /\ ((1 <= x /\ x <= Len(q) + 1) \/ (1 <= -x /\ -x <= Len(m.running)))
      BY <1>4, <1>6, <2>0 DEF Places
    <3>1. CASE x > i
      <4>1. f[x] = x - 1 /\ x - 1 \in i..Len(q) /\ (x - 1) + 1 = x
        BY <1>1, <1>3, <2>1, <3>0, <3>1
      <4>2. r[x] = q[x - 1]
        BY <1>4, <4>1
      <4>3. x - 1 \in Places(m)
        BY <1>1, <2>1, <4>1 DEF Places, q
      <4> QED BY <1>6, <2>1, <3>0, <3>1, <4>1, <4>2, <4>3 DEF Job, q
    <3>2. CASE ~(x > i)
      <4>1. f[x] = x /\ (x > 0 => x \in 1..(i - 1))
        BY <1>3, <2>1, <3>0, <3>2
      <4>2. x > 0 => r[x] = q[x]
        BY <1>4, <4>1
      <4>3. x \in Places(m)
        BY <1>1, <1>3, <2>0, <2>1, <3>0, <3>2 DEF Places, q
      <4> QED BY <1>6, <3>0, <4>1, <4>2, <4>3 DEF Job, q
    <3> QED BY <3>1, <3>2
  <2> QED BY <2>1, <2>2
<1>9. \A x, y \in Places(b) \ {i} : f[x] = f[y] => x = y
  <2>1. \A x \in Places(b) \ {i} : x \in Int /\ x # i
    BY DEF Places
  <2>2. \A x \in Places(b) \ {i} : f[x] = IF x > i THEN x - 1 ELSE x
    OBVIOUS
  <2> HIDE DEF f
  <2> QED BY <1>8, <2>1, <2>2
<1>10. Maps(f, m, b, {i})
  <2>1. f \in [Places(b) \ {i} -> Places(m)]
    BY <1>8
  <2> HIDE DEF f
  <2> QED BY <1>8, <1>9, <2>1 DEF Maps, Moved
<1>11. Single({i}) /\ Fresh(b, d, {i}) /\ {i} \subseteq Places(b)
  <2>1. Job(b, i) = job
    BY <1>4, <1>6, <1>8 DEF Job
  <2> QED BY <1>2, <1>8, <2>1 DEF Single, Fresh
<1>12. Continues(m, b)
  BY <1>6 DEF Continues, Calling, Spent
<1> HIDE DEF f
<1> QED BY <1>7, <1>10, <1>11, <1>12 DEF Gains, b

(* A job that is done goes, and its definition may run another. *)
Dropped(m, k) ==
    [m EXCEPT !.running = RemoveAt(@, k),
              !.count[NameOf[m.running[k].doc]] = IF @ > 0 THEN @ - 1 ELSE @]

LEMMA DroppedOK ==
  ASSUME NEW m, Memory(m), NEW k \in 1..Len(m.running), m.running[k].phase = "saved"
  PROVE  Memory(Dropped(m, k)) /\ Follows(m, Dropped(m, k))
<1> DEFINE b == Dropped(m, k)
           r == RemoveAt(m.running, k)
           R == Len(m.running)
           name == NameOf[m.running[k].doc]
           c == [m.count EXCEPT ![name] = IF m.count[name] > 0 THEN m.count[name] - 1 ELSE m.count[name]]
<1>1. m \in Instance /\ Counted(m)
  BY DEF Memory
<1>2. R \in Nat /\ k \in Nat \ {0} /\ k <= R /\ name \in Names /\ m.count \in [Names -> Nat]
  BY <1>1, Fields, AgendaAssumption DEF AgendaAssumption
<1>3. /\ r \in Seq(Run) /\ Len(r) = R - 1
      /\ \A n \in 1..(k - 1) : r[n] = m.running[n]
      /\ \A n \in k..(R - 1) : r[n] = m.running[n + 1]
  BY <1>1, Fields, RemovedAt
<1>4. /\ c \in [Names -> Nat] /\ c[name] = 0 /\ \A n \in Names : n # name => c[n] = m.count[n]
  <2>1. m.count[name] \in {0, 1}
    BY <1>1, <1>2 DEF Counted, Concurrency
  <2> HIDE DEF name
  <2> QED BY <1>2, <2>1
<1>5. b = [m EXCEPT !.running = r, !.count = c]
  BY <1>1 DEF Dropped, Instance
<1> HIDE DEF b, r, c
<1>6. /\ b \in Instance /\ b.queue = m.queue /\ b.running = r /\ b.timers = m.timers /\ b.count = c
  BY <1>1, <1>3, <1>4, <1>5 DEF Instance
<1>7. Counted(b)
  <2> SUFFICES ASSUME NEW n \in Names, n # name, m.count[n] > 0
               PROVE  \E l \in 1..(R - 1) : NameOf[r[l].doc] = n
    BY <1>1, <1>3, <1>4, <1>6 DEF Counted, Concurrency
  <2>0. m.count[n] > 0 => \E l \in 1..R : NameOf[m.running[l].doc] = n
    BY <1>1 DEF Counted
  <2>1. PICK l \in 1..R : NameOf[m.running[l].doc] = n
    BY <2>0
  <2>2. l # k
    BY <2>1
  <2>3. CASE l < k
    BY <1>2, <1>3, <2>1, <2>3
  <2>4. CASE l > k
    <3>1. l - 1 \in k..(R - 1) /\ (l - 1) + 1 = l /\ l - 1 \in 1..(R - 1)
      BY <1>2, <2>4
    <3>2. r[l - 1] = m.running[l]
      BY <1>3, <3>1
    <3> QED BY <2>1, <3>1, <3>2
  <2> QED BY <1>2, <2>2, <2>3, <2>4
<1>8. Memory(b)
  BY <1>6, <1>7 DEF Memory
<1> DEFINE f == [x \in Places(b) |-> IF x <= -k THEN x - 1 ELSE x]
<1>9. \A x \in Places(b) : x \in Int /\ f[x] \in Places(m) /\ Job(m, f[x]) = Job(b, x)
  <2> SUFFICES ASSUME NEW x \in Places(b)
               PROVE  x \in Int /\ f[x] \in Places(m) /\ Job(m, f[x]) = Job(b, x)
    OBVIOUS
  <2>1. x \in Int /\ ((1 <= x /\ x <= Len(m.queue)) \/ (1 <= -x /\ -x <= R - 1))
    BY <1>3, <1>6 DEF Places
  <2>2. CASE x <= -k
    <3>1. f[x] = x - 1 /\ -x \in k..(R - 1) /\ -(x - 1) = -x + 1
      BY <1>2, <2>1, <2>2
    <3>2. r[-x] = m.running[-(x - 1)]
      BY <1>3, <3>1
    <3>3. ~(x > 0) /\ ~(x - 1 > 0) /\ x - 1 \in Places(m)
      BY <1>2, <2>1, <2>2 DEF Places
    <3> QED BY <1>6, <2>1, <3>1, <3>2, <3>3 DEF Job
  <2>3. CASE ~(x <= -k)
    <3>1. f[x] = x /\ (~(x > 0) => -x \in 1..(k - 1))
      BY <1>2, <2>1, <2>3
    <3>2. ~(x > 0) => r[-x] = m.running[-x]
      BY <1>3, <3>1
    <3>3. x \in Places(m)
      BY <1>2, <2>1 DEF Places
    <3> QED BY <1>6, <2>1, <3>1, <3>2, <3>3 DEF Job
  <2> QED BY <2>2, <2>3
<1>10. \A x, y \in Places(b) : f[x] = f[y] => x = y
  <2>1. \A x \in Places(b) : f[x] = IF x <= -k THEN x - 1 ELSE x
    OBVIOUS
  <2>2. \A x \in Places(b) : x \in Int
    BY <1>9
  <2> HIDE DEF f
  <2> QED BY <1>2, <2>1, <2>2
<1>11. Maps(f, m, b, {})
  <2>1. f \in [Places(b) -> Places(m)]
    BY <1>9
  <2> HIDE DEF f
  <2> QED BY <1>9, <1>10, <2>1 DEF Maps, Moved
<1> HIDE DEF f
<1>12. \A l \in 1..R : l # k => \E n \in 1..Len(b.running) : b.running[n] = m.running[l]
  <2> SUFFICES ASSUME NEW l \in 1..R, l # k PROVE \E n \in 1..(R - 1) : r[n] = m.running[l]
    BY <1>3, <1>6
  <2>1. CASE l < k
    BY <1>2, <1>3, <2>1
  <2>2. CASE l > k
    <3>1. l - 1 \in k..(R - 1) /\ (l - 1) + 1 = l /\ l - 1 \in 1..(R - 1)
      BY <1>2, <2>2
    <3> QED BY <1>3, <3>1
  <2> QED BY <1>2, <2>1, <2>2
<1>13. \A n \in 1..Len(b.running) : \E l \in 1..R : b.running[n] = m.running[l]
  <2> SUFFICES ASSUME NEW n \in 1..(R - 1) PROVE \E l \in 1..R : r[n] = m.running[l]
    BY <1>3, <1>6
  <2>1. n \in 1..(k - 1) \/ n \in k..(R - 1)
    BY <1>2
  <2> QED BY <1>2, <1>3, <2>1
<1>14. Continues(m, b)
  <2>1. \A d : Calling(m, d) => Calling(b, d)
    BY <1>12 DEF Calling
  <2>2. Spent(m) => Spent(b)
    BY <1>13 DEF Spent
  <2> QED BY <2>1, <2>2 DEF Continues
<1> QED BY <1>8, <1>11, <1>14 DEF Follows, Stems, b

LEMMA EndedOK ==
  ASSUME NEW m, Memory(m), NEW k \in 1..Len(m.running), m.running[k].phase = "saved"
  PROVE  Memory(Ended(m, k)) /\ Follows(m, Ended(m, k)) /\ Wakes(Ended(m, k))
<1> DEFINE b == Dropped(m, k)
<1>1. Ended(m, k) = Process(b)
  BY DEF Ended, Dropped
<1>2. Memory(b) /\ Follows(m, b)
  BY DroppedOK
<1> HIDE DEF b
<1> QED BY <1>1, <1>2, ProcessOK, FollowsOn

-----------------------------------------------------------------------------
(* Timers *)

LEMMA FiredSteps ==
  ASSUME NEW m
  PROVE  \E f : /\ f = [n \in 0..MaxTimers |->
                          IF n = 0 THEN [m EXCEPT !.timers = 0] ELSE Process(f[n - 1])]
                /\ Fired(m) = f[m.timers]
<1> DEFINE zero == [m EXCEPT !.timers = 0]
           Steps(f, c) == f = [n \in 0..c |-> IF n = 0 THEN zero ELSE Process(f[n - 1])]
           T == {c \in 0..MaxTimers : ~\E f : Steps(f, c)}
           fired[n \in 0..MaxTimers] == IF n = 0 THEN zero ELSE Process(fired[n - 1])
<1>1. Fired(m) = fired[m.timers]
  BY DEF Fired
<1> HIDE DEF zero
<1>2. \E f : Steps(f, MaxTimers)
  <2> SUFFICES ASSUME T # {} PROVE FALSE
    BY TimersFit
  <2>1. PICK c \in T : \A n \in T : c <= n
    <3>1. T \in SUBSET Nat
      BY TimersFit
    <3> HIDE DEF T
    <3> QED BY <3>1, LeastElement
  <2>2. c # 0
    <3> DEFINE f == [n \in 0..0 |-> zero]
    <3>1. Steps(f, 0)
      OBVIOUS
    <3> QED BY <2>1, <3>1
  <2>3. c - 1 \in 0..MaxTimers /\ c - 1 \notin T /\ c \in Nat
    BY <2>1, <2>2, TimersFit
  <2>4. PICK f : Steps(f, c - 1)
    BY <2>3
  <2> DEFINE g == [n \in 0..c |-> IF n = c THEN Process(f[c - 1]) ELSE f[n]]
  <2>5. \A n \in 0..(c - 1) : g[n] = f[n] /\ f[n] = IF n = 0 THEN zero ELSE Process(f[n - 1])
    BY <2>3, <2>4
  <2>6. \A n \in 0..c : g[n] = IF n = 0 THEN zero ELSE Process(g[n - 1])
    <3> SUFFICES ASSUME NEW n \in 0..c
                 PROVE  g[n] = IF n = 0 THEN zero ELSE Process(g[n - 1])
      OBVIOUS
    <3>1. CASE n = c
      BY <2>2, <2>3, <2>5, <3>1
    <3>2. CASE n # c
      <4>1. n \in 0..(c - 1) /\ (n # 0 => n - 1 \in 0..(c - 1))
        BY <2>3, <3>2
      <4> HIDE DEF g
      <4> QED BY <2>5, <4>1
    <3> QED BY <3>1, <3>2
  <2>7. Steps(g, c)
    <3>1. g = [n \in 0..c |-> g[n]]
      OBVIOUS
    <3> HIDE DEF g
    <3> QED BY <2>6, <3>1
  <2> QED BY <2>1, <2>7
<1>3. Steps(fired, MaxTimers)
  BY <1>2 DEF fired
<1> HIDE DEF fired
<1> QED BY <1>1, <1>3 DEF zero

(* The timers that were set for a time fire, in turn. *)
LEMMA FiredOK ==
  ASSUME NEW m, Memory(m), m.timers > 0
  PROVE  Memory(Fired(m)) /\ Follows(m, Fired(m)) /\ Wakes(Fired(m))
<1> DEFINE zero == [m EXCEPT !.timers = 0]
           Good(x) == Memory(x) /\ Follows(m, x)
<1>1. m \in Instance /\ m.timers \in 1..MaxTimers
  BY Fields, TimersFit DEF Memory
<1>2. Good(zero)
  <2>1. /\ zero \in Instance /\ zero.queue = m.queue /\ zero.running = m.running /\ zero.timers = 0
        /\ zero.count = m.count
    BY <1>1 DEF Instance
  <2> HIDE DEF zero
  <2>2. Memory(zero)
    BY <2>1, TimersFit DEF Memory, Counted
  <2>3. Follows(m, zero)
    BY <1>1, <2>1, Fields, Shorter
  <2> QED BY <2>2, <2>3
<1>3. \A x : Good(x) => Good(Process(x)) /\ Wakes(Process(x))
  BY ProcessOK, FollowsOn
<1>4. PICK f : /\ f = [n \in 0..MaxTimers |-> IF n = 0 THEN zero ELSE Process(f[n - 1])]
               /\ Fired(m) = f[m.timers]
  BY FiredSteps
<1> HIDE DEF zero, Good
<1>5. \A n \in 0..MaxTimers : f[n] = IF n = 0 THEN zero ELSE Process(f[n - 1])
  BY <1>4
<1>6. \A n \in 0..MaxTimers : Good(f[n])
  <2> DEFINE T == {n \in 0..MaxTimers : ~Good(f[n])}
  <2> SUFFICES ASSUME T # {} PROVE FALSE
    OBVIOUS
  <2>1. PICK c \in T : \A n \in T : c <= n
    <3>1. T \in SUBSET Nat
      BY TimersFit
    <3> HIDE DEF T
    <3> QED BY <3>1, LeastElement
  <2>2. c \in 0..MaxTimers /\ c \in Nat /\ ~Good(f[c])
    BY <2>1, TimersFit
  <2>3. c # 0
    BY <1>2, <1>5, <2>2
  <2>4. c - 1 \in 0..MaxTimers /\ Good(f[c - 1])
    BY <2>1, <2>2, <2>3, TimersFit
  <2>5. f[c] = Process(f[c - 1])
    BY <1>5, <2>2, <2>3
  <2> QED BY <1>3, <2>2, <2>4, <2>5
<1>7. Good(f[m.timers]) /\ Wakes(f[m.timers])
  <2>1. m.timers \in 0..MaxTimers /\ m.timers # 0 /\ m.timers - 1 \in 0..MaxTimers
    BY <1>1, TimersFit
  <2>2. f[m.timers] = Process(f[m.timers - 1])
    BY <1>5, <2>1
  <2> QED BY <1>3, <1>6, <2>1, <2>2
<1> QED BY <1>4, <1>7 DEF Good

-----------------------------------------------------------------------------
(* The time of a job comes *)

Rearranges(r, p, q, S) ==
    /\ r \in Seq(S)
    /\ \E h \in [1..Len(r) -> 1..Len(q)] :
         /\ \A m, n \in 1..Len(r) : h[m] = h[n] => m = n
         /\ \A n \in 1..Len(r) : r[n] = q[h[n]] \/ r[n] = p[h[n]]

(* Elements of two sequences of one length, each from another position     *)
LEMMA Rearranged ==
  ASSUME NEW S, NEW p \in Seq(S), NEW q \in Seq(S), Len(p) = Len(q),
         NEW K \in SUBSET (1..Len(q)), NEW L \in SUBSET (1..Len(q)), NEW M \in SUBSET (1..Len(q)),
         K \cap L = {}, K \cap M = {}, L \cap M = {}
  PROVE  Rearranges(At(q, K) \o At(p, L) \o At(q, M), p, q, S)
<1>0. /\ At(q, K) \in Seq(S) /\ Len(At(q, K)) = Cardinality(K) /\ Cardinality(K) \in Nat
      /\ \E f \in [1..Cardinality(K) -> K] :
           /\ \A x, y \in 1..Cardinality(K) : f[x] = f[y] => x = y
           /\ \A n \in 1..Cardinality(K) : At(q, K)[n] = q[f[n]]
  BY AtPositions
<1> DEFINE a == At(q, K)
           b == At(p, L)
           c == At(q, M)
           r == a \o b \o c
           k == Cardinality(K)
           l == Cardinality(L)
           m == Cardinality(M)
<1>1. /\ a \in Seq(S) /\ Len(a) = k /\ k \in Nat
      /\ \E f \in [1..k -> K] : /\ \A x, y \in 1..k : f[x] = f[y] => x = y
                                /\ \A n \in 1..k : a[n] = q[f[n]]
  BY <1>0
<1>2. /\ b \in Seq(S) /\ Len(b) = l /\ l \in Nat
      /\ \E f \in [1..l -> L] : /\ \A x, y \in 1..l : f[x] = f[y] => x = y
                                /\ \A n \in 1..l : b[n] = p[f[n]]
  BY AtPositions
<1>3. /\ c \in Seq(S) /\ Len(c) = m /\ m \in Nat
      /\ \E f \in [1..m -> M] : /\ \A x, y \in 1..m : f[x] = f[y] => x = y
                                /\ \A n \in 1..m : c[n] = q[f[n]]
  BY AtPositions
<1> HIDE DEF a, b, c, k, l, m
<1>4. /\ a \o b \in Seq(S) /\ Len(a \o b) = k + l
      /\ \A n \in 1..k : (a \o b)[n] = a[n]
      /\ \A n \in 1..l : (a \o b)[k + n] = b[n]
  <2> DEFINE ab == a \o b
  <2>1. a \in Seq(S) /\ b \in Seq(S)
    BY <1>1, <1>2
  <2>2. /\ ab \in Seq(S) /\ Len(ab) = Len(a) + Len(b)
        /\ \A n \in 1..Len(a) : ab[n] = a[n]
        /\ \A n \in 1..Len(b) : ab[Len(a) + n] = b[n]
    BY <2>1, Joined
  <2> HIDE DEF ab
  <2>3. Len(a) = k /\ Len(b) = l
    BY <1>1, <1>2
  <2>4. /\ ab \in Seq(S) /\ Len(ab) = k + l
        /\ \A n \in 1..k : ab[n] = a[n]
        /\ \A n \in 1..l : ab[k + n] = b[n]
    BY <2>2, <2>3
  <2> QED BY <2>4 DEF ab
<1>5. /\ r \in Seq(S) /\ Len(r) = k + l + m
      /\ \A n \in 1..(k + l) : r[n] = (a \o b)[n]
      /\ \A n \in 1..m : r[k + l + n] = c[n]
  <2> DEFINE ab == a \o b
  <2> DEFINE abc == ab \o c
  <2>0. ab \in Seq(S) /\ c \in Seq(S)
    BY <1>3, <1>4
  <2>1. Len(ab) = k + l /\ Len(c) = m
    BY <1>3, <1>4
  <2> HIDE DEF ab
  <2>2. /\ abc \in Seq(S) /\ Len(abc) = Len(ab) + Len(c)
        /\ \A n \in 1..Len(ab) : abc[n] = ab[n]
        /\ \A n \in 1..Len(c) : abc[Len(ab) + n] = c[n]
    BY <2>0, Joined
  <2> HIDE DEF abc
  <2>3. /\ abc \in Seq(S) /\ Len(abc) = k + l + m
        /\ \A n \in 1..(k + l) : abc[n] = ab[n]
        /\ \A n \in 1..m : abc[k + l + n] = c[n]
    BY <2>0, <2>1, <2>2
  <2> QED BY <2>3 DEF abc, ab
<1>6. PICK f \in [1..k -> K] : /\ \A x, y \in 1..k : f[x] = f[y] => x = y
                               /\ \A n \in 1..k : a[n] = q[f[n]]
  BY <1>1
<1>7. PICK g \in [1..l -> L] : /\ \A x, y \in 1..l : g[x] = g[y] => x = y
                               /\ \A n \in 1..l : b[n] = p[g[n]]
  BY <1>2
<1>8. PICK e \in [1..m -> M] : /\ \A x, y \in 1..m : e[x] = e[y] => x = y
                               /\ \A n \in 1..m : c[n] = q[e[n]]
  BY <1>3
<1> HIDE DEF r
<1> DEFINE h == [n \in 1..Len(r) |-> IF n <= k THEN f[n] ELSE IF n <= k + l THEN g[n - k]
                                     ELSE e[n - (k + l)]]
<1>9. \A n \in 1..Len(r) : \/ n \in 1..k /\ h[n] = f[n] /\ h[n] \in K /\ r[n] = q[h[n]]
                           \/ n - k \in 1..l /\ h[n] = g[n - k] /\ h[n] \in L /\ r[n] = p[h[n]]
                           \/ n - (k + l) \in 1..m /\ h[n] = e[n - (k + l)] /\ h[n] \in M /\ r[n] = q[h[n]]
  <2> SUFFICES ASSUME NEW n \in 1..Len(r)
               PROVE \/ n \in 1..k /\ h[n] = f[n] /\ h[n] \in K /\ r[n] = q[h[n]]
                     \/ n - k \in 1..l /\ h[n] = g[n - k] /\ h[n] \in L /\ r[n] = p[h[n]]
                     \/ n - (k + l) \in 1..m /\ h[n] = e[n - (k + l)] /\ h[n] \in M /\ r[n] = q[h[n]]
    OBVIOUS
  <2>0. n \in Nat \ {0} /\ n <= k + l + m /\ k \in Nat /\ l \in Nat /\ m \in Nat
    BY <1>1, <1>2, <1>3, <1>5
  <2>00. h[n] = IF n <= k THEN f[n] ELSE IF n <= k + l THEN g[n - k] ELSE e[n - (k + l)]
    OBVIOUS
  <2> HIDE DEF h
  <2>1. CASE n <= k
    <3>1. n \in 1..k /\ n \in 1..(k + l)
      BY <2>0, <2>1
    <3>2. r[n] = a[n] /\ h[n] = f[n]
      BY <1>4, <1>5, <2>00, <2>1, <3>1
    <3> QED BY <1>6, <3>1, <3>2
  <2>2. CASE n > k /\ n <= k + l
    <3>1. n - k \in 1..l /\ n \in 1..(k + l) /\ k + (n - k) = n /\ ~(n <= k)
      BY <2>0, <2>2
    <3>2. r[n] = b[n - k]
      BY <1>4, <1>5, <3>1
    <3>3. h[n] = g[n - k]
      BY <2>00, <2>2, <3>1
    <3> QED BY <1>7, <3>1, <3>2, <3>3
  <2>3. CASE n > k + l
    <3>1. n - (k + l) \in 1..m /\ (k + l) + (n - (k + l)) = n /\ ~(n <= k) /\ ~(n <= k + l)
      BY <2>0, <2>3
    <3>2. r[n] = c[n - (k + l)]
      BY <1>5, <3>1
    <3>3. h[n] = e[n - (k + l)]
      BY <2>00, <3>1
    <3> QED BY <1>8, <3>1, <3>2, <3>3
  <2> QED BY <2>0, <2>1, <2>2, <2>3
<1>10. h \in [1..Len(r) -> 1..Len(q)]
  <2>1. \A n \in 1..Len(r) : h[n] \in 1..Len(q)
    BY <1>9
  <2> QED BY <2>1
<1>11. \A x, y \in 1..Len(r) : h[x] = h[y] => x = y
  <2> SUFFICES ASSUME NEW x \in 1..Len(r), NEW y \in 1..Len(r), h[x] = h[y]
               PROVE  x = y
    OBVIOUS
  <2> HIDE DEF h
  <2>0. x \in Int /\ y \in Int
    BY <1>1, <1>2, <1>3, <1>5
  <2>1. CASE h[x] \in K
    <3>1. x \in 1..k /\ y \in 1..k /\ f[x] = f[y]
      BY <1>9, <2>1
    <3> QED BY <1>6, <3>1
  <2>2. CASE h[x] \in L
    <3>1. x - k \in 1..l /\ y - k \in 1..l /\ g[x - k] = g[y - k]
      BY <1>9, <2>2
    <3>2. x - k = y - k
      BY <1>7, <3>1
    <3> QED BY <1>1, <2>0, <3>2
  <2>3. CASE h[x] \in M
    <3>1. x - (k + l) \in 1..m /\ y - (k + l) \in 1..m /\ e[x - (k + l)] = e[y - (k + l)]
      BY <1>9, <2>3
    <3>2. x - (k + l) = y - (k + l)
      BY <1>8, <3>1
    <3> QED BY <1>1, <1>2, <2>0, <3>2
  <2> QED BY <1>9, <2>1, <2>2, <2>3
<1>12. \A n \in 1..Len(r) : r[n] = q[h[n]] \/ r[n] = p[h[n]]
  BY <1>9
<1> HIDE DEF h
<1>13. \E z \in [1..Len(r) -> 1..Len(q)] :
                  /\ \A x, n \in 1..Len(r) : z[x] = z[n] => x = n
                  /\ \A n \in 1..Len(r) : r[n] = q[z[n]] \/ r[n] = p[z[n]]
  BY <1>10, <1>11, <1>12
<1>14. Rearranges(r, p, q, S)
  BY <1>5, <1>13 DEF Rearranges
<1> QED BY <1>14 DEF r, a, b, c

(* The time of a document's jobs comes. *)
Later(m, d) == [m EXCEPT !.queue = Come(d, @), !.running = Timely(d, @)]

LEMMA LaterOK ==
  ASSUME NEW m, Memory(m), NEW d
  PROVE  /\ Memory(Later(m, d)) /\ Follows(m, Later(m, d))
         /\ Wakes(m) => Wakes(Later(m, d))
<1> DEFINE b == Later(m, d)
           q == m.queue
           p == Timely(d, q)
           t == Timely(d, m.running)
           come == {k \in DOMAIN q : Comes(d, q[k])}
           due == {k \in DOMAIN q : Due(q[k])}
           rest == DOMAIN q \ (come \cup due)
           r == At(q, rest) \o At(p, come) \o At(q, due)
<1>1. m \in Instance /\ Len(q) \in Nat /\ Len(m.running) \in Nat /\ DOMAIN q = 1..Len(q)
  BY Fields, Elements DEF Memory
<1>2. /\ p \in Seq(Queued) /\ Len(p) = Len(q)
      /\ \A k \in 1..Len(q) : Moved(q[k], p[k])
  <2>1. p = [k \in 1..Len(q) |-> IF Comes(d, q[k]) THEN [q[k] EXCEPT !.next = "due"] ELSE q[k]]
    BY <1>1, Zenon DEF Timely
  <2>2. ASSUME NEW k \in 1..Len(q) PROVE p[k] \in Queued /\ Moved(q[k], p[k])
    <3>1. q[k] \in Queued
      BY <1>1, Fields
    <3>2. p[k] = IF Comes(d, q[k]) THEN [q[k] EXCEPT !.next = "due"] ELSE q[k]
      BY <2>1
    <3> HIDE DEF p, q
    <3> QED BY <3>1, <3>2 DEF Queued, Moved
  <2>3. p \in [1..Len(q) -> Queued]
    <3>1. p = [k \in 1..Len(q) |-> p[k]]
      BY <2>1
    <3> HIDE DEF p
    <3> QED BY <2>2, <3>1
  <2> HIDE DEF p
  <2> QED BY <1>1, <2>2, <2>3
<1>3. /\ t \in Seq(Run) /\ Len(t) = Len(m.running)
      /\ \A k \in 1..Len(m.running) : /\ Moved(m.running[k], t[k])
                                      /\ m.running[k].next = "none" => t[k].next = "none"
  <2> DEFINE j == m.running
  <2>0. DOMAIN j = 1..Len(j)
    BY <1>1, Fields, Elements
  <2>1. t = [k \in 1..Len(j) |-> IF Comes(d, j[k]) THEN [j[k] EXCEPT !.next = "due"] ELSE j[k]]
    BY <2>0, Zenon DEF Timely
  <2>2. ASSUME NEW k \in 1..Len(j)
        PROVE  t[k] \in Run /\ Moved(j[k], t[k]) /\ (j[k].next = "none" => t[k].next = "none")
    <3>1. j[k] \in Run
      BY <1>1, Fields
    <3>2. t[k] = IF Comes(d, j[k]) THEN [j[k] EXCEPT !.next = "due"] ELSE j[k]
      BY <2>1
    <3> HIDE DEF t, j
    <3> QED BY <3>1, <3>2 DEF Run, Times, Moved, Comes, Ahead
  <2>3. t \in [1..Len(j) -> Run]
    <3>1. t = [k \in 1..Len(j) |-> t[k]]
      BY <2>1
    <3> HIDE DEF t
    <3> QED BY <2>2, <3>1
  <2> HIDE DEF t
  <2> QED BY <1>1, <2>2, <2>3
<1>4. r \in Seq(Queued) /\ Rearranges(r, p, q, Queued)
  <2>1. rest \in SUBSET (1..Len(q)) /\ come \in SUBSET (1..Len(q)) /\ due \in SUBSET (1..Len(q))
    BY <1>1
  <2>2. rest \cap come = {} /\ rest \cap due = {} /\ come \cap due = {}
    BY DEF Comes, Ahead, Due
  <2>3. q \in Seq(Queued)
    BY <1>1, Fields
  <2>4. p \in Seq(Queued) /\ Len(p) = Len(q)
    BY <1>2
  <2> HIDE DEF p, q, rest, come, due
  <2>5. Rearranges(r, p, q, Queued)
    BY <2>1, <2>2, <2>3, <2>4, Rearranged
  <2> QED BY <2>5 DEF Rearranges
<1>5. Come(d, q) = r
  BY DEF Come
<1>6. b = [m EXCEPT !.queue = r, !.running = t]
  BY <1>5 DEF Later
<1> HIDE DEF b, p, t, r
<1>7. b \in Instance /\ b.queue = r /\ b.running = t /\ b.timers = m.timers /\ b.count = m.count
  BY <1>1, <1>3, <1>4, <1>6 DEF Instance
<1>8. Memory(b)
  <2>1. \A n \in Names, k \in 1..Len(m.running) : NameOf[m.running[k].doc] = n => NameOf[t[k].doc] = n
    BY <1>3 DEF Moved
  <2> QED BY <1>3, <1>7, <2>1 DEF Memory, Counted
<1>9. PICK h \in [1..Len(r) -> 1..Len(q)] :
           /\ \A x, y \in 1..Len(r) : h[x] = h[y] => x = y
           /\ \A n \in 1..Len(r) : r[n] = q[h[n]] \/ r[n] = p[h[n]]
  BY <1>4 DEF Rearranges
<1>10. Stems(m, b)
  <2> DEFINE f == [x \in Places(b) |-> IF x > 0 THEN h[x] ELSE x]
  <2>1. \A x \in Places(b) : x \in Int /\ \/ x > 0 /\ x \in 1..Len(r)
                                          \/ ~(x > 0) /\ -x \in 1..Len(m.running)
    BY <1>3, <1>4, <1>7 DEF Places
  <2>2. \A x \in Places(b) : /\ f[x] \in Places(m) /\ (x > 0 <=> f[x] > 0)
                             /\ x > 0 => f[x] = h[x]
                             /\ ~(x > 0) => f[x] = x
    <3> SUFFICES ASSUME NEW x \in Places(b)
                 PROVE  /\ f[x] \in Places(m) /\ (x > 0 <=> f[x] > 0)
                        /\ x > 0 => f[x] = h[x]
                        /\ ~(x > 0) => f[x] = x
      OBVIOUS
    <3>0. f[x] = IF x > 0 THEN h[x] ELSE x
      OBVIOUS
    <3> HIDE DEF f
    <3>1. CASE x > 0
      <4>1. f[x] = h[x] /\ h[x] \in 1..Len(q)
        BY <2>1, <3>0, <3>1
      <4>2. h[x] \in Int /\ 1 <= h[x] /\ h[x] <= Len(m.queue)
        BY <1>1, <4>1
      <4> QED BY <3>1, <4>1, <4>2 DEF Places
    <3>2. CASE ~(x > 0)
      <4>1. f[x] = x /\ x \in Int /\ 1 <= -x /\ -x <= Len(m.running)
        BY <1>1, <2>1, <3>0, <3>2
      <4> QED BY <3>2, <4>1 DEF Places
    <3> QED BY <3>1, <3>2
  <2>3. \A x \in Places(b) : Moved(Job(m, f[x]), Job(b, x))
    <3> SUFFICES ASSUME NEW x \in Places(b) PROVE Moved(Job(m, f[x]), Job(b, x))
      OBVIOUS
    <3>1. CASE x > 0
      <4>1. Job(b, x) = r[x] /\ Job(m, f[x]) = q[h[x]] /\ x \in 1..Len(r) /\ h[x] \in 1..Len(q)
        BY <1>7, <2>1, <2>2, <3>1 DEF Job
      <4>2. Moved(q[h[x]], q[h[x]])
        BY DEF Moved
      <4> HIDE DEF q
      <4> QED BY <1>2, <1>9, <4>1, <4>2
    <3>2. CASE ~(x > 0)
      <4>1. Job(b, x) = t[-x] /\ Job(m, f[x]) = m.running[-x]
        BY <1>7, <2>1, <2>2, <3>2 DEF Job
      <4> QED BY <1>3, <2>1, <3>2, <4>1
    <3> QED BY <3>1, <3>2
  <2>4. \A x, y \in Places(b) : f[x] = f[y] => x = y
    <3> HIDE DEF f
    <3> QED BY <1>9, <2>1, <2>2
  <2>5. f \in [Places(b) -> Places(m)]
    BY <2>2
  <2> HIDE DEF f
  <2> QED BY <2>3, <2>4, <2>5 DEF Stems, Maps
<1>11. ASSUME Wakes(m) PROVE Wakes(b)
  <2> SUFFICES ASSUME r # <<>> PROVE m.timers > 0 \/ t # <<>>
    BY <1>7 DEF Wakes
  <2>1. Len(r) \in Nat /\ Len(r) # 0
    BY <1>4, Empty
  <2>2. h[1] \in 1..Len(q)
    BY <2>1
  <2>3. q # <<>>
    BY <1>1, <2>2
  <2>4. m.timers > 0 \/ m.running # <<>>
    BY <1>11, <2>3 DEF Wakes
  <2>5. m.running # <<>> => t # <<>>
    BY <1>1, <1>3, Fields, Empty
  <2> QED BY <2>4, <2>5
<1>12. Continues(m, b)
  <2>1. \A e : Calling(m, e) => Calling(b, e)
    BY <1>3, <1>7 DEF Calling, Moved
  <2>2. Spent(m) => Spent(b)
    BY <1>3, <1>7 DEF Spent, Moved
  <2> QED BY <2>1, <2>2 DEF Continues
<1> QED BY <1>8, <1>10, <1>11, <1>12 DEF b, Follows

-----------------------------------------------------------------------------
(* Who holds the lock of a document *)

(* A job that an instance locked and holds: in the queue until its lock    *)
(* runs out, as a run until it has been saved.                             *)
Locked(job) == job.phase # "saved" /\ (job.phase = "queued" => ~job.expired)
Holders(m, d) == {x \in Places(m) : Job(m, x).doc = d /\ Locked(Job(m, x))}

(* Nothing new holds d. *)
Passes(f, a, b, d) ==
    /\ f \in [Holders(b, d) -> Holders(a, d)]
    /\ \A x, y \in Holders(b, d) : f[x] = f[y] => x = y
    /\ \A x \in Holders(b, d) : Job(b, x).expired => Job(a, f[x]).expired
Inherits(a, b, d) == \E f : Passes(f, a, b, d)

LEMMA MapsHolders ==
  ASSUME NEW a, NEW b, NEW N, NEW f, Maps(f, a, b, N), NEW d,
         \A x \in N \cap Places(b) : Job(b, x).doc # d
  PROVE  Inherits(a, b, d)
<1> DEFINE g == [x \in Holders(b, d) |-> f[x]]
<1>1. ASSUME NEW x \in Holders(b, d)
      PROVE  x \in Places(b) \ N /\ f[x] \in Holders(a, d) /\ (Job(b, x).expired => Job(a, f[x]).expired)
  <2>1. x \in Places(b) \ N /\ Job(b, x).doc = d /\ Locked(Job(b, x))
    BY DEF Holders
  <2>2. Moved(Job(a, f[x]), Job(b, x)) /\ f[x] \in Places(a)
    BY <2>1 DEF Maps
  <2>3. Job(a, f[x]).doc = d /\ Locked(Job(a, f[x])) /\ (Job(b, x).expired => Job(a, f[x]).expired)
    BY <2>1, <2>2 DEF Moved, Locked
  <2> QED BY <2>1, <2>2, <2>3 DEF Holders
<1>2. g \in [Holders(b, d) -> Holders(a, d)]
  BY <1>1
<1>3. \A x, y \in Holders(b, d) : g[x] = g[y] => x = y
  BY <1>1 DEF Maps
<1>4. \A x \in Holders(b, d) : Job(b, x).expired => Job(a, g[x]).expired
  BY <1>1
<1>5. Passes(g, a, b, d)
  <2> HIDE DEF g
  <2> QED BY <1>2, <1>3, <1>4 DEF Passes
<1> QED BY <1>5 DEF Inherits

LEMMA FollowersInherit ==
  ASSUME NEW a, NEW b, Stems(a, b), NEW d
  PROVE  Inherits(a, b, d)
<1>1. PICK f : Maps(f, a, b, {})
  BY DEF Stems
<1> QED BY <1>1, MapsHolders

LEMMA GainsInherit ==
  ASSUME NEW a, NEW b, NEW d, Gains(a, b, d)
  PROVE  /\ \A e : e # d => Inherits(a, b, e)
         /\ Holders(a, d) = {} => /\ \A x, y \in Holders(b, d) : x = y
                                  /\ \A x \in Holders(b, d) : ~Job(b, x).expired
<1>1. PICK N, f : N \subseteq Places(b) /\ Single(N) /\ Fresh(b, d, N) /\ Maps(f, a, b, N)
  BY DEF Gains
<1>2. ASSUME NEW e, e # d PROVE Inherits(a, b, e)
  BY <1>1, <1>2, MapsHolders DEF Fresh
<1>3. ASSUME Holders(a, d) = {}, NEW x \in Holders(b, d) PROVE x \in N
  <2> SUFFICES ASSUME x \notin N PROVE FALSE
    OBVIOUS
  <2>1. x \in Places(b) \ N /\ Job(b, x).doc = d /\ Locked(Job(b, x))
    BY DEF Holders
  <2>2. Moved(Job(a, f[x]), Job(b, x)) /\ f[x] \in Places(a)
    BY <1>1, <2>1 DEF Maps
  <2>3. Job(a, f[x]).doc = d /\ Locked(Job(a, f[x]))
    BY <2>1, <2>2 DEF Moved, Locked
  <2> QED BY <1>3, <2>2, <2>3 DEF Holders
<1> QED BY <1>1, <1>2, <1>3 DEF Single, Fresh

LEMMA NoneInherited ==
  ASSUME NEW a, NEW b, NEW d, Inherits(a, b, d), Holders(a, d) = {}
  PROVE  Holders(b, d) = {}
  BY DEF Inherits, Passes

(* Jobs that stay where they are, but change *)
LEMMA ChangedHolders ==
  ASSUME NEW a \in Instance, NEW b \in Instance, NEW d,
         Len(b.queue) = Len(a.queue), Len(b.running) = Len(a.running),
         \A k \in 1..Len(a.queue) : b.queue[k].doc = d /\ Locked(b.queue[k]) =>
           a.queue[k].doc = d /\ Locked(a.queue[k]) /\ (b.queue[k].expired => a.queue[k].expired),
         \A k \in 1..Len(a.running) : b.running[k].doc = d /\ Locked(b.running[k]) =>
           a.running[k].doc = d /\ Locked(a.running[k]) /\ (b.running[k].expired => a.running[k].expired)
  PROVE  Inherits(a, b, d) /\ Holders(b, d) \subseteq Holders(a, d)
<1> DEFINE f == [x \in Holders(b, d) |-> x]
<1>1. Places(b) = Places(a)
  BY DEF Places
<1>2. ASSUME NEW x \in Holders(b, d)
      PROVE  x \in Holders(a, d) /\ (Job(b, x).expired => Job(a, x).expired)
  <2>1. x \in Places(a) /\ Job(b, x).doc = d /\ Locked(Job(b, x))
    BY <1>1 DEF Holders
  <2>2. Len(a.queue) \in Nat /\ Len(a.running) \in Nat
    BY Fields
  <2>3. CASE x > 0
    <3>1. x \in 1..Len(a.queue) /\ Job(b, x) = b.queue[x] /\ Job(a, x) = a.queue[x]
      BY <2>1, <2>2, <2>3 DEF Places, Job
    <3> QED BY <2>1, <3>1 DEF Holders
  <2>4. CASE ~(x > 0)
    <3>1. -x \in 1..Len(a.running) /\ Job(b, x) = b.running[-x] /\ Job(a, x) = a.running[-x]
      BY <2>1, <2>2, <2>4 DEF Places, Job
    <3> QED BY <2>1, <3>1 DEF Holders
  <2> QED BY <2>3, <2>4
<1>3. Passes(f, a, b, d)
  BY <1>2 DEF Passes
<1> QED BY <1>2, <1>3 DEF Inherits

LEMMA ReflectedInherits ==
  ASSUME NEW a, NEW d
  PROVE  Inherits(a, a, d)
  BY Stays, FollowersInherit DEF Follows

(* At most one job of d is held, ... *)
Only(d) == \A i, j \in Instances : \A x \in Holders(inst[i], d), y \in Holders(inst[j], d) : i = j /\ x = y
(* ... with a lock that counts, ... *)
Live(d) == \A i \in Instances : \A x \in Holders(inst[i], d) : ~Job(inst[i], x).expired
(* ... which is that of the document. *)
Used(d) == \E i \in Instances : Holders(inst[i], d) # {}
Taken(doc) == doc.status # "new" /\ (doc.status = "stored" => doc.lock = "held")
HeldOnce(d) == overruns[d] = 0 => Only(d) /\ Live(d) /\ (Used(d) => Taken(docs[d]))

Inheriting(d) == \A i \in Instances : Inherits(inst[i], inst'[i], d)

LEMMA HeldOnceStays ==
  ASSUME NEW d, HeldOnce(d), overruns'[d] = overruns[d], Inheriting(d),
         Taken(docs[d]) => Taken(docs'[d])
  PROVE  HeldOnce(d)'
<1> SUFFICES ASSUME overruns[d] = 0
             PROVE  Only(d)' /\ Live(d)' /\ (Used(d)' => Taken(docs'[d]))
  BY DEF HeldOnce
<1>1. Only(d) /\ Live(d) /\ (Used(d) => Taken(docs[d]))
  BY DEF HeldOnce
<1>2. ASSUME NEW i \in Instances
      PROVE  \E f : Passes(f, inst[i], inst'[i], d)
  BY DEF Inheriting, Inherits
<1>3. Only(d)'
  <2> SUFFICES ASSUME NEW i \in Instances, NEW j \in Instances,
                      NEW x \in Holders(inst'[i], d), NEW y \in Holders(inst'[j], d)
               PROVE  i = j /\ x = y
    BY DEF Only
  <2>1. PICK f : Passes(f, inst[i], inst'[i], d)
    BY <1>2
  <2>2. PICK g : Passes(g, inst[j], inst'[j], d)
    BY <1>2
  <2>3. f[x] \in Holders(inst[i], d) /\ f[y] \in {f[y]} /\ g[y] \in Holders(inst[j], d)
    BY <2>1, <2>2 DEF Passes
  <2>4. i = j
    BY <1>1, <2>3 DEF Only
  <2>5. f[x] \in Holders(inst[i], d) /\ f[y] \in Holders(inst[i], d)
    BY <2>1, <2>4 DEF Passes
  <2>6. f[x] = f[y]
    BY <1>1, <2>5 DEF Only
  <2> QED BY <2>1, <2>4, <2>6 DEF Passes
<1>4. Live(d)'
  <2> SUFFICES ASSUME NEW i \in Instances, NEW x \in Holders(inst'[i], d)
               PROVE  ~Job(inst'[i], x).expired
    BY DEF Live
  <2>1. PICK f : Passes(f, inst[i], inst'[i], d)
    BY <1>2
  <2>2. f[x] \in Holders(inst[i], d) /\ (Job(inst'[i], x).expired => Job(inst[i], f[x]).expired)
    BY <2>1 DEF Passes
  <2> QED BY <1>1, <2>2 DEF Live
<1>5. Used(d)' => Used(d)
  BY NoneInherited DEF Used, Inheriting
<1> QED BY <1>1, <1>3, <1>4, <1>5

LEMMA NotHeld ==
  ASSUME NEW d, \A i \in Instances : Holders(inst'[i], d) = {}
  PROVE  HeldOnce(d)'
  BY DEF HeldOnce, Only, Live, Used

LEMMA UnlockedUnused ==
  ASSUME NEW d, HeldOnce(d), overruns[d] = 0, ~Taken(docs[d])
  PROVE  \A i \in Instances : Holders(inst[i], d) = {}
  BY DEF HeldOnce, Used

(* What a step keeps *)
MemoryInv == inst \in [Instances -> Instance] /\ \A i \in Instances : Memory(inst[i]) /\ Wakes(inst[i])

LEMMA OneMemory ==
  ASSUME MemoryInv, NEW i \in Instances, NEW m, Memory(m), Wakes(m), inst' = [inst EXCEPT ![i] = m]
  PROVE  MemoryInv' /\ inst'[i] = m /\ \A j \in Instances : j # i => inst'[j] = inst[j]
<1>1. m \in Instance
  BY DEF Memory
<1>2. inst'[i] = m /\ (\A j \in Instances : j # i => inst'[j] = inst[j]) /\ inst' \in [Instances -> Instance]
  BY <1>1 DEF MemoryInv
<1>3. \A j \in Instances : Memory(inst'[j]) /\ Wakes(inst'[j])
  BY <1>2 DEF MemoryInv
<1> QED BY <1>2, <1>3 DEF MemoryInv

LEMMA OneInherits ==
  ASSUME NEW i, NEW d, Inherits(inst[i], inst'[i], d), \A j \in Instances : j # i => inst'[j] = inst[j]
  PROVE  Inheriting(d)
  BY ReflectedInherits DEF Inheriting

(* A document is locked and its job enqueued. *)
LEMMA LockAndQueueOK ==
  ASSUME MemoryInv, docs \in [Docs -> Doc], UNCHANGED overruns, \A e \in Docs : HeldOnce(e),
         NEW i \in Instances, NEW d \in Docs, NEW doc \in Doc,
         doc.status = "stored", ~Taken(docs[d]), NEW local, Memory(local), Follows(inst[i], local),
         LockAndQueue(i, d, doc, local)
  PROVE  MemoryInv' /\ docs' \in [Docs -> Doc] /\ \A e \in Docs : HeldOnce(e)'
<1> DEFINE grown == Enqueued(local, d, doc.next)
           b == Process(grown)
           locked == [doc EXCEPT !.lock = "held"]
<1>1. docs' = [docs EXCEPT ![d] = locked] /\ inst' = [inst EXCEPT ![i] = b]
  BY DEF LockAndQueue, Enqueued
<1>2. locked \in Doc /\ Taken(locked)
  BY DEF Doc, Taken
<1>3. Memory(grown) /\ Gains(local, grown, d)
  BY EnqueuedOK
<1>4. Memory(b) /\ Follows(grown, b) /\ Wakes(b)
  <2> HIDE DEF grown
  <2> QED BY <1>3, ProcessOK
<1>5. Gains(local, b, d)
  BY <1>3, <1>4, FollowsOn
<1> HIDE DEF b, locked
<1>6. MemoryInv' /\ inst'[i] = b /\ \A j \in Instances : j # i => inst'[j] = inst[j]
  BY <1>1, <1>4, OneMemory
<1>7. ASSUME NEW e \in Docs, e # d PROVE HeldOnce(e)'
  <2>1. Inherits(inst[i], b, e)
    <3>1. Inherits(inst[i], local, e) /\ Inherits(local, b, e)
      BY <1>5, <1>7, FollowersInherit, GainsInherit DEF Follows
    <3>2. PICK f, g : Passes(f, inst[i], local, e) /\ Passes(g, local, b, e)
      BY <3>1 DEF Inherits
    <3> DEFINE h == [x \in Holders(b, e) |-> f[g[x]]]
    <3>3. Passes(h, inst[i], b, e)
      BY <3>2 DEF Passes
    <3> QED BY <3>3 DEF Inherits
  <2>2. Inheriting(e) /\ docs'[e] = docs[e]
    BY <1>1, <1>6, <1>7, <2>1, OneInherits
  <2> QED BY <2>2, HeldOnceStays
<1>8. HeldOnce(d)'
  <2> SUFFICES ASSUME overruns[d] = 0 PROVE HeldOnce(d)'
    BY DEF HeldOnce
  <2>1. \A j \in Instances : Holders(inst[j], d) = {}
    BY UnlockedUnused
  <2>2. Holders(local, d) = {}
    BY <2>1, FollowersInherit, NoneInherited DEF Follows
  <2>3. /\ \A x, y \in Holders(b, d) : x = y
        /\ \A x \in Holders(b, d) : ~Job(b, x).expired
    BY <1>5, <2>2, GainsInherit
  <2>4. docs'[d] = locked
    BY <1>1
  <2>5. Only(d)' /\ Live(d)'
    BY <1>6, <2>1, <2>3 DEF Only, Live
  <2> QED BY <1>2, <2>4, <2>5 DEF HeldOnce
<1>9. docs' \in [Docs -> Doc]
  BY <1>1, <1>2
<1> QED BY <1>6, <1>7, <1>8, <1>9

(* A document is written, and what one instance holds comes of what it held. *)
LEMMA WriteOK ==
  ASSUME MemoryInv, docs \in [Docs -> Doc], UNCHANGED overruns, \A e \in Docs : HeldOnce(e),
         NEW i \in Instances, NEW d \in Docs, NEW doc \in Doc, Taken(docs[d]) => Taken(doc),
         NEW local, Memory(local), Wakes(local), Follows(inst[i], local),
         docs' = [docs EXCEPT ![d] = doc], inst' = [inst EXCEPT ![i] = local]
  PROVE  MemoryInv' /\ docs' \in [Docs -> Doc] /\ \A e \in Docs : HeldOnce(e)'
<1>1. MemoryInv' /\ inst'[i] = local /\ \A j \in Instances : j # i => inst'[j] = inst[j]
  BY OneMemory
<1>2. ASSUME NEW e \in Docs PROVE HeldOnce(e)'
  <2>1. Inheriting(e)
    BY <1>1, FollowersInherit, OneInherits DEF Follows
  <2>2. Taken(docs[e]) => Taken(docs'[e])
    BY DEF Taken
  <2> QED BY <2>1, <2>2, HeldOnceStays
<1> QED BY <1>1, <1>2

LEMMA DefineWakes ==
  ASSUME NEW m, Memory(m), Wakes(m), NEW n \in Names
  PROVE  Wakes(Define(m, n))
<1>1. m \in Instance
  BY DEF Memory
<1>2. Define(m, n).queue = m.queue /\ Define(m, n).timers = m.timers /\ Define(m, n).running = m.running
  BY <1>1 DEF Define, Instance
<1> QED BY <1>2 DEF Wakes

-----------------------------------------------------------------------------
(* The steps of the system: writes, timers, crashes *)

AgendaInv == TypeOK /\ MemoryInv /\ \A d \in Docs : HeldOnce(d)

(* What remains to be shown of a step that changes no counter but runs *)
Held == MemoryInv /\ docs \in [Docs -> Doc] /\ \A d \in Docs : HeldOnce(d)

LEMMA Parts ==
  ASSUME AgendaInv
  PROVE  /\ docs \in [Docs -> Doc] /\ MemoryInv /\ \A d \in Docs : HeldOnce(d)
         /\ \A i \in Instances : inst[i] \in Instance /\ Memory(inst[i]) /\ Wakes(inst[i])
         /\ up \subseteq Instances
  BY DEF AgendaInv, TypeOK, MemoryInv

LEMMA SavedOK ==
  ASSUME AgendaInv, UNCHANGED overruns, NEW i \in Instances, NEW d \in Docs, NEW doc \in Doc,
         doc.status = "stored", ~Taken(docs[d]),
         NEW local, Memory(local), Wakes(local), Follows(inst[i], local),
         SavedUnlocked(i, d, doc, local)
  PROVE  Held'
<1>1. CASE LockAndQueue(i, d, doc, local)
  BY <1>1, LockAndQueueOK, Parts DEF Held
<1>2. CASE docs' = [docs EXCEPT ![d] = doc] /\ inst' = [inst EXCEPT ![i] = local]
  BY <1>2, WriteOK, Parts DEF Held
<1> QED BY <1>1, <1>2 DEF SavedUnlocked

LEMMA EveryOK ==
  ASSUME AgendaInv, NEW i \in Instances, NEW n \in Names, Every(i, n)
  PROVE  Held'
<1> DEFINE local == Define(inst[i], n)
<1>1. PICK d \in IF StoredAs(n) # {} THEN StoredAs(n) ELSE Unused(n) :
        LET doc == [docs[d] EXCEPT !.status = "stored", !.next = "ahead"]
        IN  IF doc.lock = "free" THEN SavedUnlocked(i, d, doc, Define(inst[i], n))
            ELSE docs' = [docs EXCEPT ![d] = doc] /\ inst' = [inst EXCEPT ![i] = Define(@, n)]
  BY Zenon DEF Every
<1> DEFINE doc == [docs[d] EXCEPT !.status = "stored", !.next = "ahead"]
<1>2. d \in Docs /\ docs[d] \in Doc /\ docs[d].status \in {"new", "stored"}
  BY Parts DEF StoredAs, Unused, Stored
<1>3. doc \in Doc /\ doc.status = "stored" /\ doc.lock = docs[d].lock
  BY <1>2 DEF Doc, Times
<1>4. Memory(local) /\ Wakes(local) /\ Follows(inst[i], local)
  BY DefineOK, DefineWakes, Parts
<1>5. UNCHANGED overruns
  BY DEF Every
<1>6. CASE doc.lock = "free"
  <2>1. SavedUnlocked(i, d, doc, local)
    BY <1>1, <1>6, Zenon
  <2>2. ~Taken(docs[d])
    BY <1>2, <1>3, <1>6 DEF Taken
  <2> HIDE DEF doc, local
  <2> QED BY <1>2, <1>3, <1>4, <1>5, <2>1, <2>2, SavedOK
<1>7. CASE doc.lock # "free"
  <2>1. docs' = [docs EXCEPT ![d] = doc] /\ inst' = [inst EXCEPT ![i] = local]
    BY <1>1, <1>7, Zenon
  <2>2. Taken(docs[d]) => Taken(doc)
    BY <1>2, <1>3 DEF Taken
  <2> HIDE DEF doc, local
  <2> QED BY <1>2, <1>3, <1>4, <1>5, <2>1, <2>2, WriteOK, Parts DEF Held
<1> QED BY <1>6, <1>7

LEMMA ScheduleOK ==
  ASSUME AgendaInv, NEW i \in Instances, NEW n \in Names, Schedule(i, n)
  PROVE  Held'
<1> DEFINE local == Define(inst[i], n)
<1>1. PICK d \in Unused(n), next \in {"ahead", "due"} :
        SavedUnlocked(i, d, [status |-> "stored", next |-> next, lock |-> "free"], local)
  BY DEF Schedule
<1> DEFINE doc == [status |-> "stored", next |-> next, lock |-> "free"]
<1>2. d \in Docs /\ doc \in Doc /\ doc.status = "stored" /\ ~Taken(docs[d])
  BY DEF Unused, Doc, Times, Taken
<1>3. Memory(local) /\ Wakes(local) /\ Follows(inst[i], local)
  BY DefineOK, DefineWakes, Parts
<1>4. UNCHANGED overruns /\ SavedUnlocked(i, d, doc, local)
  BY <1>1 DEF Schedule
<1> HIDE DEF doc, local
<1> QED BY <1>2, <1>3, <1>4, SavedOK

LEMMA FillOK ==
  ASSUME AgendaInv, NEW i \in Instances, NEW n \in Names, Fill(i, n)
  PROVE  Held'
<1>1. PICK d \in First(n) : LockAndQueue(i, d, docs[d], inst[i])
  BY DEF Fill
<1>2. d \in Docs /\ docs[d] \in Doc /\ docs[d].status = "stored" /\ ~Taken(docs[d])
  BY Parts DEF First, Lockable, StoredAs, Stored, Taken
<1>3. Memory(inst[i]) /\ Wakes(inst[i]) /\ Follows(inst[i], inst[i]) /\ UNCHANGED overruns
  BY Parts, Stays DEF Fill
<1>4. SavedUnlocked(i, d, docs[d], inst[i])
  BY <1>1 DEF SavedUnlocked
<1> QED BY <1>2, <1>3, <1>4, SavedOK

LEMMA FinishOK ==
  ASSUME AgendaInv, NEW i \in Instances, NEW k \in DOMAIN inst[i].running, Finish(i, k)
  PROVE  Held'
<1> DEFINE local == Ended(inst[i], k)
           d == inst[i].running[k].doc
<1>1. k \in 1..Len(inst[i].running) /\ d \in Docs
  BY Parts, Fields, Elements
<1>2. Memory(local) /\ Wakes(local) /\ Follows(inst[i], local)
  <2>1. inst[i].running[k].phase = "saved"
    BY DEF Finish, InPhase
  <2> QED BY <1>1, <2>1, EndedOK, Parts
<1>3. UNCHANGED overruns /\ docs[d] \in Doc
  BY <1>1, Parts DEF Finish
<1>4. CASE Stored(d) /\ docs[d].lock = "free" /\ docs[d].next # "none"
  <2>1. SavedUnlocked(i, d, docs[d], local)
    BY <1>4 DEF Finish
  <2>2. docs[d].status = "stored" /\ ~Taken(docs[d])
    BY <1>4 DEF Stored, Taken
  <2> HIDE DEF d, local
  <2> QED BY <1>1, <1>2, <1>3, <2>1, <2>2, SavedOK
<1>5. CASE ~(Stored(d) /\ docs[d].lock = "free" /\ docs[d].next # "none")
  <2>1. inst' = [inst EXCEPT ![i] = local] /\ docs' = docs
    BY <1>5 DEF Finish
  <2>2. docs' = [docs EXCEPT ![d] = docs[d]]
    BY <1>1, <2>1, Parts
  <2> HIDE DEF d, local
  <2> QED BY <1>1, <1>2, <1>3, <2>1, <2>2, WriteOK, Parts DEF Held
<1> QED BY <1>4, <1>5

(* A step of one instance that writes nothing *)
LEMMA LocalOK ==
  ASSUME AgendaInv, UNCHANGED <<docs, overruns>>, NEW i \in Instances,
         NEW local, Memory(local), Wakes(local), Stems(inst[i], local),
         inst' = [inst EXCEPT ![i] = local]
  PROVE  Held'
<1>1. MemoryInv' /\ inst'[i] = local /\ \A j \in Instances : j # i => inst'[j] = inst[j]
  BY OneMemory, Parts
<1>2. ASSUME NEW e \in Docs PROVE HeldOnce(e)'
  <2>1. Inheriting(e)
    BY <1>1, FollowersInherit, OneInherits
  <2> QED BY <2>1, HeldOnceStays, Parts
<1> QED BY <1>1, <1>2, Parts DEF Held

LEMMA FireOK ==
  ASSUME AgendaInv, NEW i \in Instances, Fire(i)
  PROVE  Held'
<1>1. Memory(Fired(inst[i])) /\ Wakes(Fired(inst[i])) /\ Follows(inst[i], Fired(inst[i]))
  BY FiredOK, Parts DEF Fire
<1> QED BY <1>1, LocalOK DEF Fire, Follows

LEMMA StartedOK ==
  /\ Memory(Started) /\ Wakes(Started) /\ Places(Started) = {}
<1>1. Started \in Instance
  BY DEF Started, Instance
<1>2. Started.queue = <<>> /\ Started.running = <<>> /\ Started.timers = 0 /\ \A n \in Names : Started.count[n] = 0
  BY DEF Started
<1>3. Memory(Started)
  BY <1>1, <1>2, TimersFit DEF Memory, Counted, Concurrency
<1> QED BY <1>2, <1>3 DEF Wakes, Places

LEMMA CrashOK ==
  ASSUME AgendaInv, NEW i \in Instances, Crash(i)
  PROVE  Held'
<1>1. Stems(inst[i], Started)
  <2>1. Maps([x \in {} |-> x], inst[i], Started, {})
    BY StartedOK DEF Maps
  <2> QED BY <2>1 DEF Stems
<1> QED BY <1>1, StartedOK, LocalOK DEF Crash

LEMMA RestartOK ==
  ASSUME AgendaInv, NEW i \in Instances, Restart(i)
  PROVE  Held'
  BY Parts DEF Restart, Held, MemoryInv, HeldOnce, Only, Live, Used

LEMMA RemoveOK ==
  ASSUME AgendaInv, NEW n \in Names, RemoveJobs(n)
  PROVE  Held'
<1>1. ASSUME NEW d \in Docs
      PROVE  docs'[d] \in Doc /\ (Taken(docs[d]) => Taken(docs'[d]))
  <2>1. docs'[d] = IF d \in StoredAs(n) THEN [docs[d] EXCEPT !.status = "removed"] ELSE docs[d]
    BY DEF RemoveJobs
  <2>2. docs[d] \in Doc
    BY Parts
  <2> QED BY <2>1, <2>2 DEF Doc, Taken
<1>2. docs' = [d \in Docs |-> docs'[d]]
  BY DEF RemoveJobs
<1>3. docs' \in [Docs -> Doc]
  BY <1>1, <1>2
<1>4. UNCHANGED <<inst, overruns>>
  BY DEF RemoveJobs
<1>5. \A d \in Docs : Inheriting(d)
  BY <1>4, ReflectedInherits DEF Inheriting
<1>6. \A d \in Docs : HeldOnce(d)'
  BY <1>1, <1>4, <1>5, HeldOnceStays, Parts
<1> QED BY <1>3, <1>4, <1>6, Parts DEF Held, MemoryInv

-----------------------------------------------------------------------------
(* The steps of a run *)

(* A run gets into its next phase. *)
Phased(m, k, phase) == [m EXCEPT !.running[k].phase = phase]

GoesOn(m, b, k, phase) ==
    /\ b.queue = m.queue /\ Len(b.running) = Len(m.running)
    /\ b.running[k] = [m.running[k] EXCEPT !.phase = phase]
    /\ \A l \in 1..Len(m.running) : l # k => b.running[l] = m.running[l]

LEMMA PhasedOK ==
  ASSUME NEW m, Memory(m), NEW k \in 1..Len(m.running), m.running[k].phase # "saved",
         NEW phase \in {"calling", "saved"}
  PROVE  LET b == Phased(m, k, phase)
         IN  /\ Memory(b) /\ Wakes(b) /\ GoesOn(m, b, k, phase)
             /\ \A d : Inherits(m, b, d) /\ Holders(b, d) \subseteq Holders(m, d)
             /\ phase = "saved" => \A d : -k \notin Holders(b, d)
<1> DEFINE R == Len(m.running)
           run == [m.running[k] EXCEPT !.phase = phase]
           r == [m.running EXCEPT ![k] = run]
           b == Phased(m, k, phase)
<1>1. m \in Instance /\ R \in Nat /\ m.running \in Seq(Run) /\ DOMAIN m.running = 1..R
  BY Fields, Elements DEF Memory
<1>2. run \in Run /\ run.doc = m.running[k].doc /\ run.expired = m.running[k].expired /\ run.phase = phase
  <2>1. m.running[k] \in Run
    BY <1>1, Fields
  <2> QED BY <2>1 DEF Run
<1>3. b = [m EXCEPT !.running = r]
  BY DEF Phased
<1> HIDE DEF run, b
<1>4. r \in Seq(Run) /\ Len(r) = R /\ r[k] = run /\ \A l \in 1..R : l # k => r[l] = m.running[l]
  BY <1>1, <1>2
<1> HIDE DEF r
<1>5. /\ b.running = r /\ b.queue = m.queue /\ b.timers = m.timers /\ b.count = m.count
      /\ b \in Instance
  BY <1>1, <1>3, <1>4 DEF Instance
<1>6. Memory(b)
  <2>1. \A l \in 1..R : r[l].doc = m.running[l].doc
    BY <1>2, <1>4
  <2> QED BY <1>4, <1>5, <2>1 DEF Memory, Counted
<1>7. Wakes(b)
  BY <1>1, <1>4, <1>5, Empty DEF Wakes
<1>8. ASSUME NEW d
      PROVE  Inherits(m, b, d) /\ Holders(b, d) \subseteq Holders(m, d)
  <2>1. \A l \in 1..Len(m.running) : b.running[l].doc = d /\ Locked(b.running[l]) =>
           m.running[l].doc = d /\ Locked(m.running[l]) /\ (b.running[l].expired => m.running[l].expired)
    <3>1. m.running[k].phase \in {"saving", "calling"}
      BY <1>1, Fields
    <3> QED BY <1>2, <1>4, <1>5, <3>1 DEF Locked
  <2> QED BY <1>1, <1>4, <1>5, <2>1, ChangedHolders
<1>9. phase = "saved" => \A d : -k \notin Holders(b, d)
  <2>1. ~(-k > 0) /\ -(-k) = k
    BY <1>1
  <2>2. Job(b, -k) = run
    BY <1>4, <1>5, <2>1 DEF Job
  <2> QED BY <1>2, <2>2 DEF Holders, Locked
<1>10. GoesOn(m, b, k, phase)
  BY <1>4, <1>5 DEF GoesOn, run
<1> QED BY <1>6, <1>7, <1>8, <1>9, <1>10 DEF b

Writes(d, next, lock) ==
    /\ \A e \in Docs : e # d => docs'[e] = docs[e]
    /\ docs'[d] = IF Stored(d) THEN [docs[d] EXCEPT !.next = next, !.lock = lock] ELSE docs[d]

LEMMA SaveWrites ==
  ASSUME docs \in [Docs -> Doc], NEW d \in Docs, NEW next \in Times,
         NEW lock \in {"free", "held", "expired"}, Save(d, next, lock)
  PROVE  docs' \in [Docs -> Doc] /\ Writes(d, next, lock)
<1> DEFINE doc == IF Stored(d) THEN [docs[d] EXCEPT !.next = next, !.lock = lock] ELSE docs[d]
<1>1. doc \in Doc
  <2>1. docs[d] \in Doc
    OBVIOUS
  <2> QED BY <2>1 DEF Doc
<1>2. docs' = [docs EXCEPT ![d] = doc]
  BY DEF Save
<1> HIDE DEF doc
<1>3. docs' \in [Docs -> Doc] /\ docs'[d] = doc /\ \A e \in Docs : e # d => docs'[e] = docs[e]
  BY <1>1, <1>2
<1> QED BY <1>3 DEF doc, Writes

LEMMA RunFields ==
  ASSUME AgendaInv, NEW i \in Instances, NEW k \in DOMAIN inst[i].running
  PROVE  /\ k \in 1..Len(inst[i].running) /\ k \in Nat \ {0} /\ -k \in Places(inst[i])
         /\ inst[i].running[k] \in Run /\ inst[i].running[k].doc \in Docs
         /\ inst[i].running[k].next \in Times /\ inst[i].running[k].expired \in BOOLEAN
         /\ Job(inst[i], -k) = inst[i].running[k]
<1>1. inst[i] \in Instance
  BY Parts
<1>2. k \in 1..Len(inst[i].running) /\ Len(inst[i].running) \in Nat /\ inst[i].running[k] \in Run
  BY <1>1, Fields, Elements
<1>3. k \in Nat \ {0} /\ -k \in Int /\ ~(-k > 0) /\ -(-k) = k
  BY <1>2
<1>4. Job(inst[i], -k) = inst[i].running[k] /\ -k \in Places(inst[i])
  BY <1>2, <1>3 DEF Job, Places
<1> QED BY <1>2, <1>3, <1>4 DEF Run

LEMMA CallOK ==
  ASSUME AgendaInv, NEW i \in Instances, NEW k \in DOMAIN inst[i].running, Call(i, k)
  PROVE  Held'
<1> DEFINE job == inst[i].running[k]
           lock == IF job.expired THEN "expired" ELSE "held"
           b == Phased(inst[i], k, "calling")
<1>1. job.phase = "saving" /\ UNCHANGED overruns /\ Save(job.doc, job.next, lock)
      /\ inst' = [inst EXCEPT ![i] = b]
  BY DEF Call, InPhase, Phased
<1>2. job.doc \in Docs /\ job.next \in Times /\ job.expired \in BOOLEAN /\ k \in 1..Len(inst[i].running)
  BY RunFields
<1>3. Memory(b) /\ Wakes(b) /\ \A d : Inherits(inst[i], b, d)
  <2>1. k \in 1..Len(inst[i].running) /\ Memory(inst[i]) /\ inst[i].running[k].phase # "saved"
    BY <1>1, <1>2, Parts
  <2> QED BY <2>1, PhasedOK
<1> HIDE DEF b
<1>4. MemoryInv' /\ inst'[i] = b /\ \A j \in Instances : j # i => inst'[j] = inst[j]
  BY <1>1, <1>3, OneMemory, Parts
<1>5. /\ docs' \in [Docs -> Doc] /\ \A e \in Docs : e # job.doc => docs'[e] = docs[e]
      /\ docs'[job.doc] = IF Stored(job.doc) THEN [docs[job.doc] EXCEPT !.next = job.next, !.lock = lock]
                          ELSE docs[job.doc]
  <2>1. lock \in {"free", "held", "expired"}
    OBVIOUS
  <2> HIDE DEF job, lock
  <2>2. docs' \in [Docs -> Doc] /\ Writes(job.doc, job.next, lock)
    BY <1>1, <1>2, <2>1, SaveWrites, Parts
  <2> QED BY <2>2 DEF Writes
<1>6. ASSUME NEW d \in Docs PROVE HeldOnce(d)'
  <2>1. Inheriting(d)
    BY <1>3, <1>4, OneInherits
  <2>2. CASE d # job.doc
    BY <1>1, <1>5, <2>1, <2>2, HeldOnceStays, Parts
  <2>3. CASE d = job.doc /\ overruns[d] = 0
    <3>1. -k \in Holders(inst[i], d) /\ Job(inst[i], -k) = job
      BY <1>1, <2>3, RunFields DEF Holders, Locked
    <3>2. ~job.expired
      <4>1. HeldOnce(d)
        BY Parts
      <4> QED BY <2>3, <3>1, <4>1 DEF HeldOnce, Live
    <3>3. docs[d] \in Doc
      BY Parts
    <3>4. lock = "held"
      BY <3>2
    <3> HIDE DEF job, lock
    <3>5. Taken(docs[d]) => Taken(docs'[d])
      BY <1>5, <2>3, <3>3, <3>4 DEF Taken, Stored, Doc
    <3> QED BY <1>1, <2>1, <3>5, HeldOnceStays, Parts
  <2>4. CASE overruns[d] # 0
    BY <1>1, <2>4 DEF HeldOnce
  <2> QED BY <2>2, <2>3, <2>4
<1> QED BY <1>4, <1>5, <1>6 DEF Held

LEMMA ReturnOK ==
  ASSUME AgendaInv, NEW i \in Instances, NEW k \in DOMAIN inst[i].running, Return(i, k)
  PROVE  Held'
<1> DEFINE job == inst[i].running[k]
           b == Phased(inst[i], k, "saved")
<1>1. job.phase = "calling" /\ UNCHANGED overruns /\ Save(job.doc, job.next, "free")
      /\ inst' = [inst EXCEPT ![i] = b]
  BY DEF Return, InPhase, Phased
<1>2. job.doc \in Docs /\ job.next \in Times /\ k \in 1..Len(inst[i].running)
  BY RunFields
<1>3. Memory(b) /\ Wakes(b) /\ \A d : /\ Inherits(inst[i], b, d) /\ -k \notin Holders(b, d)
                                      /\ Holders(b, d) \subseteq Holders(inst[i], d)
  <2>1. k \in 1..Len(inst[i].running) /\ Memory(inst[i]) /\ inst[i].running[k].phase # "saved"
    BY <1>1, <1>2, Parts
  <2> QED BY <2>1, PhasedOK
<1> HIDE DEF b
<1>4. MemoryInv' /\ inst'[i] = b /\ \A j \in Instances : j # i => inst'[j] = inst[j]
  BY <1>1, <1>3, OneMemory, Parts
<1>5. docs' \in [Docs -> Doc] /\ \A e \in Docs : e # job.doc => docs'[e] = docs[e]
  <2>1. "free" \in {"free", "held", "expired"}
    OBVIOUS
  <2> HIDE DEF job
  <2>2. docs' \in [Docs -> Doc] /\ Writes(job.doc, job.next, "free")
    BY <1>1, <1>2, <2>1, SaveWrites, Parts
  <2> QED BY <2>2 DEF Writes
<1>6. ASSUME NEW d \in Docs PROVE HeldOnce(d)'
  <2>1. Inheriting(d)
    BY <1>3, <1>4, OneInherits
  <2>2. CASE d # job.doc
    BY <1>1, <1>5, <2>1, <2>2, HeldOnceStays, Parts
  <2>3. CASE d = job.doc /\ overruns[d] = 0
    <3>1. -k \in Holders(inst[i], d)
      BY <1>1, <2>3, RunFields DEF Holders, Locked
    <3>2. Only(d)
      BY <2>3, Parts DEF HeldOnce
    <3>3. ASSUME NEW j \in Instances, NEW x \in Holders(inst'[j], d) PROVE FALSE
      <4>1. x \in Holders(inst[j], d)
        BY <1>3, <1>4, <3>3
      <4>2. j = i /\ x = -k
        BY <3>1, <3>2, <4>1 DEF Only
      <4> QED BY <1>3, <1>4, <3>3, <4>2
    <3> QED BY <3>3, NotHeld
  <2>4. CASE overruns[d] # 0
    BY <1>1, <2>4 DEF HeldOnce
  <2> QED BY <2>2, <2>3, <2>4
<1> QED BY <1>4, <1>5, <1>6 DEF Held

-----------------------------------------------------------------------------
(* Time and locks that run out *)

LEMMA TickOK ==
  ASSUME AgendaInv, NEW d \in Docs, Tick(d)
  PROVE  Held'
<1> DEFINE next == IF docs[d].next = "ahead" THEN "due" ELSE docs[d].next
           doc == [docs[d] EXCEPT !.next = next]
<1>1. UNCHANGED overruns /\ docs' = [docs EXCEPT ![d] = doc]
      /\ inst' = [i \in Instances |-> Later(inst[i], d)]
  BY DEF Tick, Later
<1>2. doc \in Doc /\ (Taken(docs[d]) => Taken(doc))
  <2>1. docs[d] \in Doc
    BY Parts
  <2> QED BY <2>1 DEF Doc, Times, Taken
<1> HIDE DEF doc
<1>3. docs' \in [Docs -> Doc] /\ \A e \in Docs : Taken(docs[e]) => Taken(docs'[e])
  <2>1. \A e \in Docs : docs[e] \in Doc /\ docs'[e] = IF e = d THEN doc ELSE docs[e]
    BY <1>1, Parts
  <2>2. docs' \in [Docs -> Doc]
    BY <1>1, <1>2, Parts
  <2> QED BY <1>2, <2>1, <2>2
<1>4. \A i \in Instances : /\ inst'[i] = Later(inst[i], d)
                           /\ Memory(inst'[i]) /\ Wakes(inst'[i]) /\ Follows(inst[i], inst'[i])
  BY <1>1, LaterOK, Parts
<1>5. MemoryInv'
  <2>1. \A i \in Instances : inst'[i] \in Instance
    BY <1>4 DEF Memory
  <2>2. inst' \in [Instances -> Instance]
    BY <1>1, <1>4, <2>1
  <2> QED BY <1>4, <2>2 DEF MemoryInv
<1>6. \A e \in Docs : Inheriting(e)
  BY <1>4, FollowersInherit DEF Inheriting, Follows
<1>7. \A e \in Docs : HeldOnce(e)'
  BY <1>1, <1>3, <1>6, HeldOnceStays, Parts
<1> QED BY <1>3, <1>5, <1>7 DEF Held

(* The locks of the jobs of a document run out. *)
Lapsed(m, d) == [m EXCEPT !.queue = Lapse(d, @), !.running = Lapse(d, @)]

RunsOut(s, r, d) ==
    /\ Len(r) = Len(s)
    /\ \A k \in 1..Len(s) : /\ r[k].doc = s[k].doc /\ r[k].phase = s[k].phase
                            /\ r[k].next = s[k].next
                            /\ s[k].doc # d => r[k] = s[k]
                            /\ s[k].doc = d => r[k].expired

LEMMA LapseSeq ==
  ASSUME NEW S \in {Queued, Run}, NEW s \in Seq(S), NEW d
  PROVE  Lapse(d, s) \in Seq(S) /\ RunsOut(s, Lapse(d, s), d)
<1> DEFINE r == Lapse(d, s)
<1>1. Len(s) \in Nat /\ DOMAIN s = 1..Len(s) /\ \A k \in 1..Len(s) : s[k] \in S
  BY Elements
<1>2. r = [k \in 1..Len(s) |-> IF s[k].doc = d THEN [s[k] EXCEPT !.expired = TRUE] ELSE s[k]]
  BY <1>1 DEF Lapse
<1>3. ASSUME NEW k \in 1..Len(s)
      PROVE  /\ r[k] \in S /\ r[k].doc = s[k].doc /\ r[k].phase = s[k].phase
             /\ r[k].next = s[k].next
             /\ s[k].doc # d => r[k] = s[k]
             /\ s[k].doc = d => r[k].expired
  <2>1. r[k] = IF s[k].doc = d THEN [s[k] EXCEPT !.expired = TRUE] ELSE s[k]
    BY <1>2
  <2>2. s[k] \in S
    BY <1>1
  <2> HIDE DEF r
  <2>3. CASE S = Queued
    BY <2>1, <2>2, <2>3 DEF Queued
  <2>4. CASE S = Run
    BY <2>1, <2>2, <2>4 DEF Run
  <2> QED BY <2>3, <2>4
<1>4. r \in Seq(S) /\ Len(r) = Len(s)
  <2>1. r = [k \in 1..Len(s) |-> r[k]]
    BY <1>2
  <2> HIDE DEF r
  <2> QED BY <1>1, <1>3, <2>1
<1> QED BY <1>3, <1>4 DEF RunsOut

LEMMA LapsedOK ==
  ASSUME NEW m, Memory(m), Wakes(m), NEW d
  PROVE  /\ Memory(Lapsed(m, d)) /\ Wakes(Lapsed(m, d))
         /\ RunsOut(m.queue, Lapsed(m, d).queue, d) /\ RunsOut(m.running, Lapsed(m, d).running, d)
         /\ \A e : e # d => Inherits(m, Lapsed(m, d), e)
<1> DEFINE q == Lapse(d, m.queue)
           r == Lapse(d, m.running)
           b == Lapsed(m, d)
<1>1. /\ m \in Instance /\ m.queue \in Seq(Queued) /\ m.running \in Seq(Run)
      /\ Len(m.queue) \in Nat /\ Len(m.running) \in Nat
  BY Fields DEF Memory
<1>2. q \in Seq(Queued) /\ RunsOut(m.queue, q, d) /\ r \in Seq(Run) /\ RunsOut(m.running, r, d)
  BY <1>1, LapseSeq
<1>3. b = [m EXCEPT !.queue = q, !.running = r]
  BY DEF Lapsed
<1> HIDE DEF b, q, r
<1>4. b \in Instance /\ b.queue = q /\ b.running = r /\ b.timers = m.timers /\ b.count = m.count
  BY <1>1, <1>2, <1>3 DEF Instance
<1>5. Memory(b)
  BY <1>2, <1>4 DEF Memory, Counted, RunsOut
<1>6. Wakes(b)
  <2>1. (q = <<>> <=> Len(q) = 0) /\ (m.queue = <<>> <=> Len(m.queue) = 0)
    BY <1>1, <1>2, Empty
  <2>2. (r = <<>> <=> Len(r) = 0) /\ (m.running = <<>> <=> Len(m.running) = 0)
    BY <1>1, <1>2, Empty
  <2>3. Len(q) = Len(m.queue) /\ Len(r) = Len(m.running)
    BY <1>2 DEF RunsOut
  <2> QED BY <1>4, <2>1, <2>2, <2>3 DEF Wakes
<1>7. ASSUME NEW e, e # d PROVE Inherits(m, b, e)
  <2>1. \A k \in 1..Len(m.queue) : b.queue[k].doc = e => b.queue[k] = m.queue[k]
    BY <1>2, <1>4, <1>7 DEF RunsOut
  <2>2. \A k \in 1..Len(m.running) : b.running[k].doc = e => b.running[k] = m.running[k]
    BY <1>2, <1>4, <1>7 DEF RunsOut
  <2>3. Len(b.queue) = Len(m.queue) /\ Len(b.running) = Len(m.running)
    BY <1>2, <1>4 DEF RunsOut
  <2> QED BY <1>1, <1>4, <2>1, <2>2, <2>3, ChangedHolders
<1> QED BY <1>2, <1>4, <1>5, <1>6, <1>7 DEF b

(* A document is held by finitely many runs. *)
LEMMA LockedRunsFinite ==
  ASSUME \A i \in Instances : inst[i] \in Instance, NEW d
  PROVE  IsFiniteSet(LockedRuns(d)) /\ Cardinality(LockedRuns(d)) \in Nat
<1> DEFINE H(i) == {k \in DOMAIN inst[i].running : Holds(d, inst[i].running[k])}
           f == [i \in Instances |-> {<<i, k>> : k \in H(i)}]
<1>1. ASSUME NEW i \in Instances PROVE IsFiniteSet(f[i])
  <2>1. DOMAIN inst[i].running = 1..Len(inst[i].running) /\ Len(inst[i].running) \in Nat
    BY Fields, Elements
  <2>2. IsFiniteSet(H(i))
    <3>1. IsFiniteSet(1..Len(inst[i].running)) /\ H(i) \in SUBSET (1..Len(inst[i].running))
      BY <2>1, FS_Interval
    <3> HIDE DEF H
    <3> QED BY <3>1, FS_Subset
  <2> DEFINE g == [k \in H(i) |-> <<i, k>>]
  <2>3. f[i] = {g[k] : k \in H(i)}
    OBVIOUS
  <2> HIDE DEF f, g, H
  <2> QED BY <2>2, <2>3, FiniteImage
<1>2. LockedRuns(d) = UNION {f[i] : i \in Instances}
  BY DEF LockedRuns
<1> HIDE DEF f
<1>3. IsFiniteSet(UNION {f[i] : i \in Instances})
  BY <1>1, FiniteFamily, AgendaAssumption DEF AgendaAssumption
<1> QED BY <1>2, <1>3, FS_CardinalityType

LEMMA LockExpiresOK ==
  ASSUME AgendaInv, NEW d \in Docs, LockExpires(d)
  PROVE  Held' /\ overruns' \in [Docs -> Nat]
<1> DEFINE lock == IF docs[d].lock = "held" THEN "expired" ELSE docs[d].lock
           doc == [docs[d] EXCEPT !.lock = lock]
           c == Cardinality(LockedRuns(d))
<1>1. /\ docs' = [docs EXCEPT ![d] = doc] /\ inst' = [i \in Instances |-> Lapsed(inst[i], d)]
      /\ overruns' = [overruns EXCEPT ![d] = @ + c]
  BY DEF LockExpires, Lapsed
<1>2. doc \in Doc
  <2>1. docs[d] \in Doc
    BY Parts
  <2> QED BY <2>1 DEF Doc
<1> HIDE DEF doc
<1>3. docs' \in [Docs -> Doc] /\ \A e \in Docs : e # d => docs'[e] = docs[e]
  BY <1>1, <1>2, Parts
<1>4. IsFiniteSet(LockedRuns(d)) /\ c \in Nat
  BY LockedRunsFinite, Parts
<1>5. overruns \in [Docs -> Nat]
  BY DEF AgendaInv, TypeOK
<1> HIDE DEF c
<1>6. /\ overruns' \in [Docs -> Nat] /\ overruns'[d] = overruns[d] + c
      /\ \A e \in Docs : e # d => overruns'[e] = overruns[e]
  BY <1>1, <1>4, <1>5
<1>7. ASSUME NEW i \in Instances
      PROVE  /\ inst'[i] = Lapsed(inst[i], d) /\ Memory(inst'[i]) /\ Wakes(inst'[i])
             /\ \A e : e # d => Inherits(inst[i], inst'[i], e)
  <2>1. inst'[i] = Lapsed(inst[i], d) /\ Memory(inst[i]) /\ Wakes(inst[i])
    BY <1>1, Parts
  <2> QED BY <2>1, LapsedOK
<1>8. MemoryInv'
  <2>1. \A i \in Instances : inst'[i] \in Instance
    BY <1>7 DEF Memory
  <2>2. inst' \in [Instances -> Instance]
    BY <1>1, <2>1
  <2> QED BY <1>7, <2>2 DEF MemoryInv
<1>9. ASSUME NEW e \in Docs, e # d PROVE HeldOnce(e)'
  <2>1. Inheriting(e)
    BY <1>7, <1>9 DEF Inheriting
  <2> QED BY <1>3, <1>6, <1>9, <2>1, HeldOnceStays, Parts
<1>10. HeldOnce(d)'
  <2> SUFFICES ASSUME overruns[d] = 0, c = 0 PROVE HeldOnce(d)'
    BY <1>4, <1>5, <1>6 DEF HeldOnce
  <2>1. LockedRuns(d) = {}
    BY <1>4, FS_EmptySet DEF c
  <2>2. Live(d)
    BY Parts DEF HeldOnce
  <2>3. ASSUME NEW i \in Instances, NEW x \in Holders(inst'[i], d) PROVE FALSE
    <3> DEFINE m == inst[i]
               b == inst'[i]
    <3>1. b = Lapsed(m, d) /\ Memory(m) /\ Wakes(m) /\ m \in Instance
      BY <1>7, Parts
    <3>2. RunsOut(m.queue, b.queue, d) /\ RunsOut(m.running, b.running, d)
      BY <3>1, LapsedOK
    <3>3. x \in Places(b) /\ Job(b, x).doc = d /\ Locked(Job(b, x))
      BY <2>3 DEF Holders
    <3> HIDE DEF b
    <3>4. CASE x > 0
      <4>1. x \in 1..Len(m.queue) /\ Job(b, x) = b.queue[x]
        BY <3>1, <3>2, <3>3, <3>4, Fields DEF Places, Job, RunsOut
      <4>2. m.queue[x].phase = "queued"
        BY <3>1, <4>1, Fields
      <4> QED BY <3>2, <3>3, <4>1, <4>2 DEF Locked, RunsOut
    <3>5. CASE ~(x > 0)
      <4>1. -x \in 1..Len(m.running) /\ Job(b, x) = b.running[-x] /\ Job(m, x) = m.running[-x] /\ x \in Places(m)
        BY <3>1, <3>2, <3>3, <3>5, Fields DEF Places, Job, RunsOut
      <4>2. m.running[-x].doc = d /\ m.running[-x].phase # "saved"
        BY <3>2, <3>3, <4>1 DEF Locked, RunsOut
      <4>0. m.running[-x].phase # "queued" /\ -x \in DOMAIN m.running
        BY <3>1, <4>1, Fields, Elements
      <4>3. x \in Holders(m, d)
        BY <4>0, <4>1, <4>2 DEF Holders, Locked
      <4>4. ~m.running[-x].expired
        BY <2>2, <4>1, <4>3 DEF Live
      <4>5. <<i, -x>> \in LockedRuns(d)
        BY <4>0, <4>2, <4>4 DEF LockedRuns, Holds
      <4> QED BY <2>1, <4>5
    <3> QED BY <3>4, <3>5
  <2> QED BY <2>3, NotHeld
<1> QED BY <1>3, <1>6, <1>8, <1>9, <1>10 DEF Held

-----------------------------------------------------------------------------
(* The invariant *)

LEMMA AgendaInit == Init => AgendaInv
<1> SUFFICES ASSUME Init PROVE AgendaInv
  OBVIOUS
<1>1. MemoryInv
  <2>1. \A i \in Instances : inst[i] = Started
    BY DEF Init
  <2>2. Started \in Instance
    BY StartedOK DEF Memory
  <2>3. inst \in [Instances -> Instance]
    BY <2>2 DEF Init
  <2> QED BY <2>1, <2>3, StartedOK DEF MemoryInv
<1>2. TypeOK
  <2>1. docs \in [Docs -> Doc]
    BY DEF Init, Doc, Times
  <2> QED BY <1>1, <2>1, AgendaAssumption DEF Init, TypeOK, MemoryInv, AgendaAssumption
<1>3. \A d \in Docs : HeldOnce(d)
  <2>1. \A i \in Instances, d \in Docs : Holders(inst[i], d) = {}
    BY StartedOK DEF Init, Holders
  <2> QED BY <2>1 DEF HeldOnce, Only, Live, Used
<1> QED BY <1>1, <1>2, <1>3 DEF AgendaInv

(* Faults are counted, and not beyond their bound. *)
Counters ==
    /\ up \subseteq Instances
    /\ lapses \in Nat /\ crashes \in Nat /\ lapses + crashes <= MaxFaults
    /\ runs \in [Docs -> Nat] /\ overruns \in [Docs -> Nat]

LEMMA RoomForFault ==
  ASSUME TypeOK, MayFail
  PROVE  lapses + crashes + 1 <= MaxFaults
<1>1. IsFiniteSet(Gone)
  BY AgendaAssumption, FS_Subset DEF AgendaAssumption, Gone
<1>2. Cardinality(Gone) \in Nat
  BY <1>1, FS_CardinalityType
<1> QED BY <1>2, AgendaAssumption DEF MayFail, TypeOK, AgendaAssumption

LEMMA AgendaStep == AgendaInv /\ [Next]_vars => AgendaInv'
<1> SUFFICES ASSUME AgendaInv, [Next]_vars PROVE AgendaInv'
  OBVIOUS
<1>0. /\ up \subseteq Instances
      /\ lapses \in Nat /\ crashes \in Nat /\ lapses + crashes <= MaxFaults
      /\ runs \in [Docs -> Nat] /\ overruns \in [Docs -> Nat] /\ TypeOK
  BY DEF AgendaInv, TypeOK
<1>00. Held' /\ Counters' => AgendaInv'
  BY DEF Held, Counters, AgendaInv, TypeOK, MemoryInv
<1>000. UNCHANGED <<up, lapses, crashes, runs, overruns>> => Counters'
  BY <1>0 DEF Counters
<1>1. ASSUME NEW i \in Instances, NEW n \in Names, Every(i, n) PROVE AgendaInv'
  <2>1. Counters'
    BY <1>000, <1>1 DEF Every
  <2>2. Held'
    BY <1>00, <1>1, EveryOK
  <2> QED BY <1>00, <2>1, <2>2
<1>2. ASSUME NEW i \in Instances, NEW n \in Names, Schedule(i, n) PROVE AgendaInv'
  <2>1. Counters'
    BY <1>000, <1>2 DEF Schedule
  <2>2. Held'
    BY <1>00, <1>2, ScheduleOK
  <2> QED BY <1>00, <2>1, <2>2
<1>3. ASSUME NEW i \in Instances, NEW n \in Names, Fill(i, n) PROVE AgendaInv'
  <2>1. Counters'
    BY <1>000, <1>3 DEF Fill
  <2>2. Held'
    BY <1>00, <1>3, FillOK
  <2> QED BY <1>00, <2>1, <2>2
<1>4. ASSUME NEW i \in Instances, NEW k \in DOMAIN inst[i].running, Call(i, k) PROVE AgendaInv'
  <2>1. inst[i].running[k].doc \in Docs
    BY RunFields
  <2>2. runs' \in [Docs -> Nat]
    BY <1>0, <1>4, <2>1 DEF Call
  <2>3. UNCHANGED <<up, lapses, crashes, overruns>>
    BY <1>4 DEF Call
  <2>4. Counters'
    BY <1>0, <2>2, <2>3 DEF Counters
  <2> QED BY <1>00, <1>4, <2>4, CallOK
<1>5. ASSUME NEW i \in Instances, NEW k \in DOMAIN inst[i].running, Return(i, k) PROVE AgendaInv'
  BY <1>00, <1>000, <1>5, ReturnOK DEF Return
<1>6. ASSUME NEW i \in Instances, NEW k \in DOMAIN inst[i].running, Finish(i, k) PROVE AgendaInv'
  BY <1>00, <1>000, <1>6, FinishOK DEF Finish
<1>7. ASSUME NEW i \in Instances, Fire(i) PROVE AgendaInv'
  BY <1>00, <1>000, <1>7, FireOK DEF Fire
<1>8. ASSUME NEW i \in Instances, Crash(i) PROVE AgendaInv'
  <2>1. lapses + (crashes + 1) <= MaxFaults
    <3>1. lapses + crashes + 1 <= MaxFaults
      BY <1>0, <1>8, RoomForFault DEF Crash
    <3> QED BY <1>0, <3>1, AgendaAssumption DEF AgendaAssumption
  <2>2. /\ up' = up \ {i} /\ crashes' = crashes + 1
        /\ lapses' = lapses /\ runs' = runs /\ overruns' = overruns
    BY <1>8 DEF Crash
  <2>3. Counters'
    BY <1>0, <2>1, <2>2 DEF Counters
  <2> QED BY <1>00, <1>8, <2>3, CrashOK
<1>9. ASSUME NEW i \in Instances, Restart(i) PROVE AgendaInv'
  <2>1. up' \subseteq Instances /\ UNCHANGED <<lapses, crashes, runs, overruns>>
    BY <1>0, <1>9 DEF Restart
  <2>2. Counters'
    BY <1>0, <2>1 DEF Counters
  <2> QED BY <1>00, <1>9, <2>2, RestartOK
<1>10. ASSUME NEW n \in Names, RemoveJobs(n) PROVE AgendaInv'
  <2>1. Counters'
    BY <1>000, <1>10 DEF RemoveJobs
  <2>2. Held'
    BY <1>00, <1>10, RemoveOK
  <2> QED BY <1>00, <2>1, <2>2
<1>11. ASSUME NEW d \in Docs, Tick(d) PROVE AgendaInv'
  <2>1. Counters'
    BY <1>000, <1>11 DEF Tick
  <2>2. Held'
    BY <1>00, <1>11, TickOK
  <2> QED BY <1>00, <2>1, <2>2
<1>12. ASSUME NEW d \in Docs, LockExpires(d) PROVE AgendaInv'
  <2>1. lapses' = lapses \/ (lapses' = lapses + 1 /\ MayFail)
    BY <1>12 DEF LockExpires
  <2>2. lapses' \in Nat /\ lapses' + crashes <= MaxFaults
    <3>1. CASE lapses' = lapses
      BY <1>0, <3>1
    <3>2. CASE lapses' = lapses + 1 /\ MayFail
      <4>1. lapses + crashes + 1 <= MaxFaults
        BY <1>0, <3>2, RoomForFault
      <4> QED BY <1>0, <3>2, <4>1, AgendaAssumption DEF AgendaAssumption
    <3> QED BY <2>1, <3>1, <3>2
  <2>3. UNCHANGED <<up, crashes, runs>>
    BY <1>12 DEF LockExpires
  <2>4. Held' /\ overruns' \in [Docs -> Nat]
    BY <1>12, LockExpiresOK
  <2>5. Counters'
    BY <1>0, <2>2, <2>3, <2>4 DEF Counters
  <2> QED BY <1>00, <2>4, <2>5
<1>13. CASE UNCHANGED vars
  <2>1. UNCHANGED <<docs, up, inst, lapses, crashes, runs, overruns>>
    BY <1>13 DEF vars
  <2>2. Counters'
    BY <1>000, <2>1
  <2>3. Held'
    BY <2>1 DEF AgendaInv, TypeOK, MemoryInv, Held, HeldOnce, Only, Live, Used
  <2> QED BY <1>00, <2>2, <2>3
<1> QED BY <1>1, <1>2, <1>3, <1>4, <1>5, <1>6, <1>7, <1>8, <1>9, <1>10, <1>11, <1>12, <1>13 DEF Next

LEMMA AgendaInvariance == Spec => []AgendaInv
  BY AgendaInit, AgendaStep, PTL DEF Spec

(* All that is stored and remembered has its type; what is queued has a    *)
(* time, although documents are stored without one.                        *)
THEOREM AgendaTypes == Spec => []TypeOK
<1>1. AgendaInv => TypeOK
  BY DEF AgendaInv
<1> QED BY <1>1, AgendaInvariance, PTL

(* No call of _jobProcessing leaves jobs in a queue without a timer set or *)
(* a run whose end makes the next call.                                    *)
THEOREM WakeupsAreKept == Spec => []NoLostWakeup
<1>1. AgendaInv => NoLostWakeup
  BY DEF AgendaInv, MemoryInv, Wakes, NoLostWakeup
<1> QED BY <1>1, AgendaInvariance, PTL

(* The runs of a document are among the holders of its lock. *)
LEMMA RunsHold ==
  ASSUME AgendaInv, NEW d, NEW run \in RunsOf(d)
  PROVE  \E i \in Instances, k \in Nat : run = <<i, k>> /\ -k \in Holders(inst[i], d)
<1>1. PICK i \in Instances : \E k \in DOMAIN inst[i].running :
        run = <<i, k>> /\ inst[i].running[k].doc = d /\ inst[i].running[k].phase # "saved"
  BY DEF RunsOf
<1>0. PICK k \in DOMAIN inst[i].running :
        run = <<i, k>> /\ inst[i].running[k].doc = d /\ inst[i].running[k].phase # "saved"
  BY <1>1
<1>2. /\ k \in 1..Len(inst[i].running) /\ k \in Nat /\ -k \in Places(inst[i])
      /\ Job(inst[i], -k) = inst[i].running[k] /\ inst[i].running[k] \in Run
  BY RunFields
<1>3. -k \in Holders(inst[i], d)
  BY <1>0, <1>2 DEF Holders, Locked, Run
<1> QED BY <1>0, <1>2, <1>3

(* However many instances scan, lock on the fly and run: as long as no     *)
(* lock of a document runs out during a run, it has one run at a time.     *)
THEOREM RunsExclude == Spec => []ExclusiveRun
<1>1. ASSUME AgendaInv, NEW d \in Docs, overruns[d] = 0
      PROVE  Cardinality(RunsOf(d)) <= 1
  <2>1. Only(d)
    BY <1>1 DEF AgendaInv, HeldOnce
  <2>2. \A r, s \in RunsOf(d) : r = s
    <3> SUFFICES ASSUME NEW r \in RunsOf(d), NEW s \in RunsOf(d) PROVE r = s
      OBVIOUS
    <3>1. PICK i \in Instances, k \in Nat : r = <<i, k>> /\ -k \in Holders(inst[i], d)
      BY <1>1, RunsHold
    <3>2. PICK j \in Instances, l \in Nat : s = <<j, l>> /\ -l \in Holders(inst[j], d)
      BY <1>1, RunsHold
    <3>3. i = j /\ -k = -l
      BY <2>1, <3>1, <3>2 DEF Only
    <3> QED BY <3>1, <3>2, <3>3
  <2>3. CASE RunsOf(d) = {}
    BY <2>3, FS_EmptySet
  <2>4. CASE RunsOf(d) # {}
    <3>1. PICK r \in RunsOf(d) : TRUE
      BY <2>4
    <3>2. RunsOf(d) = {r}
      BY <2>2, <3>1
    <3> QED BY <3>2, FS_Singleton
  <2> QED BY <2>3, <2>4
<1>2. AgendaInv => ExclusiveRun
  BY <1>1 DEF ExclusiveRun
<1> QED BY <1>2, AgendaInvariance, PTL

-----------------------------------------------------------------------------
(* What is owed: the jobs that will be run *)

(* A job that will be run, and one whose first save will write a lock that *)
(* has run out.                                                            *)
Owing(job) == job.phase = "saving" \/ (job.phase = "queued" /\ ~job.expired)
Debts(m, d) ==
    {t \in Places(m) \X {1, 2} :
       Job(m, t[1]).doc = d /\ Owing(Job(m, t[1])) /\ (t[2] = 2 => Job(m, t[1]).expired)}

(* Nothing is owed that was not owed before, but for E. *)
Pays(a, b, d, E) ==
    \E g : /\ g \in [Debts(b, d) \ E -> Debts(a, d)]
           /\ \A s, t \in Debts(b, d) \ E : g[s] = g[t] => s = t
           /\ \A t \in Debts(b, d) \ E : Job(b, t[1]).expired => Job(a, g[t][1]).expired

LEMMA MapsPay ==
  ASSUME NEW a, NEW b, NEW N, NEW f, Maps(f, a, b, N), NEW d, NEW E,
         \A t \in Debts(b, d) : t[1] \in N => t \in E
  PROVE  Pays(a, b, d, E)
<1> DEFINE D == Debts(b, d) \ E
           g == [t \in D |-> <<f[t[1]], t[2]>>]
<1>1. ASSUME NEW t \in D
      PROVE  /\ t[1] \in Places(b) \ N /\ f[t[1]] \in Places(a) /\ t = <<t[1], t[2]>>
             /\ g[t] \in Debts(a, d)
             /\ Job(b, t[1]).expired => Job(a, f[t[1]]).expired
  <2>0. t \in Debts(b, d) /\ t \notin E
    OBVIOUS
  <2>1. /\ t[1] \in Places(b) \ N /\ t[2] \in {1, 2} /\ t = <<t[1], t[2]>>
        /\ Job(b, t[1]).doc = d /\ Owing(Job(b, t[1])) /\ (t[2] = 2 => Job(b, t[1]).expired)
    <3>1. t[1] \notin N
      BY <2>0
    <3>2. /\ t \in Places(b) \X {1, 2}
          /\ Job(b, t[1]).doc = d /\ Owing(Job(b, t[1])) /\ (t[2] = 2 => Job(b, t[1]).expired)
      BY <2>0, Zenon DEF Debts
    <3>3. t = <<t[1], t[2]>> /\ t[1] \in Places(b) /\ t[2] \in {1, 2}
      BY <3>2
    <3> QED BY <3>1, <3>2, <3>3
  <2>2. Moved(Job(a, f[t[1]]), Job(b, t[1])) /\ f[t[1]] \in Places(a)
    BY <2>1 DEF Maps
  <2>3. /\ Job(a, f[t[1]]).doc = d /\ Owing(Job(a, f[t[1]]))
        /\ Job(b, t[1]).expired => Job(a, f[t[1]]).expired
    BY <2>1, <2>2 DEF Moved, Owing
  <2>4. <<f[t[1]], t[2]>> \in Debts(a, d)
    BY <2>1, <2>2, <2>3 DEF Debts
  <2> QED BY <2>1, <2>2, <2>3, <2>4
<1>2. g \in [D -> Debts(a, d)]
  BY <1>1
<1>3. ASSUME NEW s \in D, NEW t \in D, g[s] = g[t] PROVE s = t
  <2>1. f[s[1]] = f[t[1]] /\ s[2] = t[2]
    BY <1>3
  <2>2. s[1] = t[1]
    BY <1>1, <2>1 DEF Maps
  <2> QED BY <1>1, <2>1, <2>2
<1>4. \A t \in D : g[t][1] = f[t[1]]
  OBVIOUS
<1>5. \A t \in D : Job(b, t[1]).expired => Job(a, g[t][1]).expired
  <2> HIDE DEF g, D
  <2> QED BY <1>1, <1>4
<1> HIDE DEF g
<1> QED BY <1>2, <1>3, <1>5 DEF Pays

LEMMA StemsPay ==
  ASSUME NEW a, NEW b, Stems(a, b), NEW d
  PROVE  Pays(a, b, d, {})
<1>1. PICK f : Maps(f, a, b, {})
  BY DEF Stems
<1> QED BY <1>1, MapsPay

(* What is gained is a debt that is not expired. *)
LEMMA GainsPay ==
  ASSUME NEW a, NEW b, NEW d, Gains(a, b, d)
  PROVE  /\ \A e : e # d => Pays(a, b, e, {})
         /\ \/ Pays(a, b, d, {})
            \/ \E t \in Debts(b, d) : ~Job(b, t[1]).expired /\ Pays(a, b, d, {t})
<1>1. PICK N, f : N \subseteq Places(b) /\ Single(N) /\ Fresh(b, d, N) /\ Maps(f, a, b, N)
  BY DEF Gains
<1>2. ASSUME NEW e, e # d PROVE Pays(a, b, e, {})
  <2>1. \A t \in Debts(b, e) : t[1] \notin N
    BY <1>1, <1>2 DEF Debts, Fresh
  <2> QED BY <1>1, <2>1, MapsPay
<1>3. CASE N = {}
  BY <1>1, <1>2, <1>3, MapsPay
<1>4. ASSUME NEW x \in N
      PROVE  \E t \in Debts(b, d) : ~Job(b, t[1]).expired /\ Pays(a, b, d, {t})
  <2> DEFINE t == <<x, 1>>
  <2>1. Job(b, x).doc = d /\ Owing(Job(b, x)) /\ ~Job(b, x).expired /\ x \in Places(b)
    BY <1>1 DEF Fresh, Owing
  <2>2. t \in Debts(b, d) /\ t[1] = x
    <3>1. t[1] = x /\ t[2] = 1 /\ 1 # 2
      OBVIOUS
    <3>2. t \in Places(b) \X {1, 2}
      BY <2>1
    <3> HIDE DEF t
    <3>3. /\ Job(b, t[1]).doc = d /\ Owing(Job(b, t[1])) /\ (t[2] = 2 => Job(b, t[1]).expired)
      BY <2>1, <3>1
    <3> QED BY <3>1, <3>2, <3>3, Zenon DEF Debts
  <2>3. \A s \in Debts(b, d) : s[1] \in N => s \in {t}
    <3> SUFFICES ASSUME NEW s \in Debts(b, d), s[1] \in N PROVE s = t
      OBVIOUS
    <3>1. s[1] = x
      BY <1>1 DEF Single
    <3>2. s = <<s[1], s[2]>> /\ s[2] \in {1, 2} /\ s[2] # 2
      BY <2>1, <3>1 DEF Debts
    <3> QED BY <3>1, <3>2
  <2> HIDE DEF t
  <2>4. Pays(a, b, d, {t})
    BY <1>1, <2>3, MapsPay
  <2> QED BY <2>1, <2>2, <2>4
<1> QED BY <1>2, <1>3, <1>4

(* Debts of jobs that stay where they are *)
LEMMA FewerPay ==
  ASSUME NEW a, NEW b, NEW d, Debts(b, d) \subseteq Debts(a, d),
         \A t \in Debts(b, d) : Job(b, t[1]).expired => Job(a, t[1]).expired
  PROVE  Pays(a, b, d, {})
<1> DEFINE g == [t \in Debts(b, d) \ {} |-> t]
<1>1. g \in [Debts(b, d) \ {} -> Debts(a, d)] /\ \A t \in Debts(b, d) : g[t] = t
  OBVIOUS
<1> HIDE DEF g
<1> QED BY <1>1 DEF Pays

(* Follows and Gains, one after the other *)
LEMMA GainsAfter ==
  ASSUME NEW a, NEW b, NEW c, NEW d, Follows(a, b), Gains(b, c, d)
  PROVE  Gains(a, c, d)
<1>1. PICK f : Maps(f, a, b, {})
  BY DEF Follows, Stems
<1>2. PICK N, g : N \subseteq Places(c) /\ Single(N) /\ Fresh(c, d, N) /\ Maps(g, b, c, N)
  BY DEF Gains
<1> DEFINE h == [x \in Places(c) \ N |-> f[g[x]]]
<1>3. \A x \in Places(c) \ N : h[x] = f[g[x]] /\ g[x] \in Places(b) \ {}
  BY <1>2 DEF Maps
<1>4. h \in [Places(c) \ N -> Places(a)]
  BY <1>1, <1>3 DEF Maps
<1>5. \A x, y \in Places(c) \ N : h[x] = h[y] => x = y
  BY <1>1, <1>2, <1>3 DEF Maps
<1>6. ASSUME NEW x \in Places(c) \ N PROVE Moved(Job(a, h[x]), Job(c, x))
  <2>1. Moved(Job(b, g[x]), Job(c, x)) /\ Moved(Job(a, f[g[x]]), Job(b, g[x]))
    BY <1>1, <1>2, <1>3 DEF Maps
  <2> QED BY <1>3, <2>1 DEF Moved
<1> HIDE DEF h
<1>7. Maps(h, a, c, N)
  BY <1>4, <1>5, <1>6 DEF Maps
<1>8. Continues(a, c)
  BY DEF Follows, Gains, Continues
<1> QED BY <1>2, <1>7, <1>8 DEF Gains

(* All that is owed for d, and who holds its lock *)
Owed(d) == {t \in Instances \X (Int \X {1, 2}) : t[2] \in Debts(inst[t[1]], d)}
Debt(d) == Cardinality(Owed(d))
Pending(m, d) == \E t \in Debts(m, d) : ~Job(m, t[1]).expired
Guarded(d) == \E i \in Instances : Calling(inst[i], d) \/ Pending(inst[i], d)

(* Whether the document can be locked, or will be once its lock runs out,  *)
(* without any other fault.                                                *)
Loose(doc) == \/ doc.status = "new"
              \/ doc.status = "stored" /\ ((doc.lock = "free" /\ doc.next # "none") \/ doc.lock = "expired")
Left(doc) == doc.status = "stored" /\ doc.lock = "held"
Available(d) == Loose(docs[d]) \/ (Left(docs[d]) /\ ~Guarded(d))
Open(d) == IF Available(d) THEN 1 ELSE 0

LEMMA DebtElements ==
  ASSUME NEW m, NEW d, NEW t \in Debts(m, d)
  PROVE  t \in Int \X {1, 2} /\ t = <<t[1], t[2]>> /\ t[1] \in Places(m) /\ t[2] \in {1, 2}
  BY DEF Debts, Places

OwedShape(d) ==
    /\ \A o \in Owed(d) : o[1] \in Instances /\ o[2] \in Debts(inst[o[1]], d) /\ o = <<o[1], o[2]>>
    /\ \A k \in Instances : \A s \in Debts(inst[k], d) : <<k, s>> \in Owed(d)

LEMMA OwedElements ==
  ASSUME NEW d
  PROVE  OwedShape(d)
<1>1. ASSUME NEW o \in Owed(d)
      PROVE  o[1] \in Instances /\ o[2] \in Debts(inst[o[1]], d) /\ o = <<o[1], o[2]>>
  <2>1. o \in Instances \X (Int \X {1, 2}) /\ o[2] \in Debts(inst[o[1]], d)
    BY DEF Owed
  <2> QED BY <2>1
<1>2. ASSUME NEW i \in Instances, NEW t \in Debts(inst[i], d) PROVE <<i, t>> \in Owed(d)
  <2> DEFINE o == <<i, t>>
  <2>1. t \in Int \X {1, 2}
    BY DebtElements
  <2>2. o \in Instances \X (Int \X {1, 2}) /\ o[1] = i /\ o[2] = t
    BY <2>1
  <2> HIDE DEF o
  <2>3. o \in Owed(d)
    BY <2>2 DEF Owed
  <2> QED BY <2>3 DEF o
<1> QED BY <1>1, <1>2 DEF OwedShape

LEMMA DebtsFinite ==
  ASSUME NEW m \in Instance, NEW d
  PROVE  IsFiniteSet(Debts(m, d))
<1> DEFINE Q == Len(m.queue)
           R == Len(m.running)
<1>1. Q \in Nat /\ R \in Nat /\ -R \in Int
  BY Fields
<1>2. Places(m) \in SUBSET ((-R)..Q)
  BY <1>1 DEF Places
<1>3. IsFiniteSet((-R)..Q)
  <2>1. Q \in Int
    BY <1>1
  <2> QED BY <1>1, <2>1, FS_Interval
<1>4. IsFiniteSet({1, 2})
  <2>1. 1..2 = {1, 2} /\ 1 \in Int /\ 2 \in Int
    OBVIOUS
  <2> QED BY <2>1, FS_Interval
<1>5. IsFiniteSet(((-R)..Q) \X {1, 2})
  BY <1>3, <1>4, FS_Product
<1>6. Debts(m, d) \in SUBSET (((-R)..Q) \X {1, 2})
  <2>1. ASSUME NEW t \in Debts(m, d) PROVE t \in ((-R)..Q) \X {1, 2}
    <3>1. t = <<t[1], t[2]>> /\ t[1] \in Places(m) /\ t[2] \in {1, 2}
      BY DebtElements
    <3>2. t[1] \in (-R)..Q
      BY <1>2, <3>1
    <3> HIDE DEF R, Q
    <3> QED BY <3>1, <3>2
  <2> QED BY <2>1
<1> QED BY <1>5, <1>6, FS_Subset

LEMMA OwedFinite ==
  ASSUME \A i \in Instances : inst[i] \in Instance, NEW d
  PROVE  IsFiniteSet(Owed(d)) /\ Debt(d) \in Nat
<1> DEFINE f == [i \in Instances |-> {<<i, t>> : t \in Debts(inst[i], d)}]
<1>1. ASSUME NEW i \in Instances PROVE IsFiniteSet(f[i])
  <2> DEFINE T == Debts(inst[i], d)
             g == [t \in T |-> <<i, t>>]
  <2>1. IsFiniteSet(T)
    BY DebtsFinite
  <2>2. f[i] = {g[t] : t \in T}
    OBVIOUS
  <2> HIDE DEF f, g, T
  <2> QED BY <2>1, <2>2, FiniteImage
<1>2. Owed(d) \in SUBSET UNION {f[i] : i \in Instances}
  <2>1. ASSUME NEW o \in Owed(d) PROVE \E i \in Instances : o \in f[i]
    <3>1. o[1] \in Instances /\ o[2] \in Debts(inst[o[1]], d) /\ o = <<o[1], o[2]>>
      BY OwedElements DEF OwedShape
    <3>2. o \in f[o[1]]
      BY <3>1
    <3> QED BY <3>1, <3>2
  <2> HIDE DEF f
  <2> QED BY <2>1
<1> HIDE DEF f
<1>3. IsFiniteSet(UNION {f[i] : i \in Instances})
  BY <1>1, FiniteFamily, AgendaAssumption DEF AgendaAssumption
<1>4. IsFiniteSet(Owed(d))
  BY <1>2, <1>3, FS_Subset
<1> QED BY <1>4, FS_CardinalityType DEF Debt

(* Each debt but those in E comes of one before. *)
LEMMA OwedComes ==
  ASSUME NEW d, NEW h, \A i \in Instances : Pays(inst[i], inst'[i], d, h[i])
  PROVE  \E g : /\ g \in [{o \in Owed(d)' : o[2] \notin h[o[1]]} -> Owed(d)]
                /\ \A o, p \in {o \in Owed(d)' : o[2] \notin h[o[1]]} : g[o] = g[p] => o = p
                /\ \A o \in {o \in Owed(d)' : o[2] \notin h[o[1]]} :
                     /\ g[o][1] = o[1]
                     /\ Job(inst'[o[1]], o[2][1]).expired => Job(inst[o[1]], g[o][2][1]).expired
<1> DEFINE P(i, q) == /\ q \in [Debts(inst'[i], d) \ h[i] -> Debts(inst[i], d)]
                      /\ \A s, t \in Debts(inst'[i], d) \ h[i] : q[s] = q[t] => s = t
                      /\ \A t \in Debts(inst'[i], d) \ h[i] :
                           Job(inst'[i], t[1]).expired => Job(inst[i], q[t][1]).expired
           O == {o \in Owed(d)' : o[2] \notin h[o[1]]}
           F == [i \in Instances |-> CHOOSE q : P(i, q)]
           g == [o \in O |-> <<o[1], F[o[1]][o[2]]>>]
<1>1. ASSUME NEW i \in Instances PROVE P(i, F[i])
  <2>1. \E q : P(i, q)
    BY DEF Pays
  <2> HIDE DEF P
  <2> QED BY <2>1
<1> HIDE DEF F
<1>2. ASSUME NEW o \in O
      PROVE  /\ o[1] \in Instances /\ o[2] \in Debts(inst'[o[1]], d) \ h[o[1]] /\ o = <<o[1], o[2]>>
             /\ g[o] \in Owed(d) /\ g[o][1] = o[1] /\ g[o][2] = F[o[1]][o[2]]
  <2>1. o \in Owed(d)' /\ o[2] \notin h[o[1]]
    OBVIOUS
  <2>2. o[1] \in Instances /\ o[2] \in Debts(inst'[o[1]], d) /\ o = <<o[1], o[2]>>
    <3>1. o \in Instances \X (Int \X {1, 2}) /\ o[2] \in Debts(inst'[o[1]], d)
      BY <2>1 DEF Owed
    <3> QED BY <3>1
  <2>3. F[o[1]][o[2]] \in Debts(inst[o[1]], d)
    BY <1>1, <2>1, <2>2
  <2>4. g[o] = <<o[1], F[o[1]][o[2]]>>
    OBVIOUS
  <2> HIDE DEF g, O
  <2> QED BY <2>1, <2>2, <2>3, <2>4, OwedElements DEF OwedShape
<1> HIDE DEF g, O, P
<1>3. g \in [O -> Owed(d)]
  BY <1>2 DEF g
<1>4. ASSUME NEW o \in O, NEW p \in O, g[o] = g[p] PROVE o = p
  <2>1. o[1] = p[1] /\ F[o[1]][o[2]] = F[p[1]][p[2]]
    BY <1>2, <1>4
  <2>2. o[2] = p[2]
    <3> DEFINE i == o[1]
               q == F[o[1]]
    <3>1. o[2] \in Debts(inst'[i], d) \ h[i] /\ i \in Instances
      BY <1>2
    <3>2. p[2] \in Debts(inst'[i], d) \ h[i] /\ q[o[2]] = q[p[2]]
      <4>1. p[2] \in Debts(inst'[p[1]], d) \ h[p[1]]
        BY <1>2
      <4> QED BY <2>1, <4>1
    <3>3. \A s, t \in Debts(inst'[i], d) \ h[i] : q[s] = q[t] => s = t
      BY <1>1, <3>1, Zenon DEF P
    <3> HIDE DEF i, q
    <3> QED BY <3>1, <3>2, <3>3
  <2> QED BY <1>2, <2>1, <2>2
<1>5. ASSUME NEW o \in O
      PROVE  Job(inst'[o[1]], o[2][1]).expired => Job(inst[o[1]], g[o][2][1]).expired
  <2>1. o[1] \in Instances /\ o[2] \in Debts(inst'[o[1]], d) \ h[o[1]] /\ g[o][2] = F[o[1]][o[2]]
    BY <1>2
  <2>2. P(o[1], F[o[1]])
    BY <1>1, <2>1
  <2>3. Job(inst'[o[1]], o[2][1]).expired => Job(inst[o[1]], F[o[1]][o[2]][1]).expired
    <3> DEFINE i == o[1]
               q == F[o[1]]
    <3>1. \A t \in Debts(inst'[i], d) \ h[i] : Job(inst'[i], t[1]).expired => Job(inst[i], q[t][1]).expired
      BY <2>2, Zenon DEF P
    <3> HIDE DEF i, q
    <3>2. o[2] \in Debts(inst'[i], d) \ h[i]
      BY <2>1 DEF i
    <3>3. Job(inst'[i], o[2][1]).expired => Job(inst[i], q[o[2]][1]).expired
      BY <3>1, <3>2
    <3> QED BY <3>3 DEF i, q
  <2> QED BY <2>1, <2>3
<1>6. \A o \in O : g[o][1] = o[1]
  BY <1>2
<1> QED BY <1>3, <1>4, <1>5, <1>6 DEF O

-----------------------------------------------------------------------------
(* Steps that leave no more to run than there was *)

Typed == \A i \in Instances : inst[i] \in Instance

(* Nothing new is owed; and less, when the last debt that guards goes. *)
LEMMA DebtFalls ==
  ASSUME NEW d, Typed, Typed', \A i \in Instances : Pays(inst[i], inst'[i], d, {})
  PROVE  /\ Debt(d)' <= Debt(d)
         /\ \A i \in Instances :
              Pending(inst[i], d) /\ ~Pending(inst'[i], d) => Debt(d)' <= Debt(d) - 1
<1> DEFINE h == [i \in Instances |-> {}]
           A == Owed(d)
           B == Owed(d)'
           O == {o \in Owed(d)' : o[2] \notin h[o[1]]}
<1>1. IsFiniteSet(A) /\ IsFiniteSet(B) /\ Debt(d) \in Nat /\ Debt(d)' \in Nat
      /\ Debt(d) = Cardinality(A) /\ Debt(d)' = Cardinality(B)
  <2>1. IsFiniteSet(Owed(d)) /\ Debt(d) \in Nat
    BY OwedFinite DEF Typed
  <2>2. (Typed => IsFiniteSet(Owed(d)) /\ Debt(d) \in Nat)'
    BY OwedFinite, PTL DEF Typed
  <2> QED BY <2>1, <2>2 DEF Debt
<1>2. \A o \in B : o[1] \in Instances /\ o[2] \in Debts(inst'[o[1]], d) /\ o = <<o[1], o[2]>>
  <2>1. OwedShape(d)'
    BY OwedElements, PTL
  <2> QED BY <2>1 DEF OwedShape
<1>3. O = B
  BY <1>2
<1>4. \A i \in Instances : Pays(inst[i], inst'[i], d, h[i])
  OBVIOUS
<1> HIDE DEF h
<1>5. PICK g : /\ g \in [O -> A]
               /\ \A o, p \in O : g[o] = g[p] => o = p
               /\ \A o \in O : /\ g[o][1] = o[1]
                               /\ Job(inst'[o[1]], o[2][1]).expired => Job(inst[o[1]], g[o][2][1]).expired
  BY <1>4, OwedComes
<1> HIDE DEF A, B, O
<1>6. Debt(d)' <= Debt(d)
  <2>1. g \in Injection(B, A)
    BY <1>3, <1>5 DEF Injection, IsInjective
  <2> QED BY <1>1, <2>1, FS_Injection
<1>7. ASSUME NEW i \in Instances, Pending(inst[i], d), ~Pending(inst'[i], d)
      PROVE  Debt(d)' <= Debt(d) - 1
  <2>1. PICK t \in Debts(inst[i], d) : ~Job(inst[i], t[1]).expired
    BY <1>7 DEF Pending
  <2> DEFINE last == <<i, t>>
             C == A \ {last}
  <2>2. last \in A
    BY OwedElements DEF OwedShape, A
  <2>3. IsFiniteSet(C) /\ Cardinality(C) = Debt(d) - 1
    BY <1>1, <2>2, FS_RemoveElement
  <2>4. ASSUME NEW o \in O PROVE g[o] # last
    <3> SUFFICES ASSUME g[o] = last PROVE FALSE
      OBVIOUS
    <3>1. o[1] = i /\ g[o][2] = t
      BY <1>5
    <3>2. ~Job(inst'[i], o[2][1]).expired
      BY <1>5, <2>1, <3>1
    <3>3. o[2] \in Debts(inst'[i], d)
      BY <1>2, <1>3, <3>1
    <3> QED BY <1>7, <3>2, <3>3 DEF Pending
  <2> HIDE DEF last
  <2>5. g \in Injection(B, C)
    <3>1. g \in [B -> C]
      BY <1>3, <1>5, <2>4
    <3> HIDE DEF C
    <3> QED BY <1>3, <1>5, <3>1 DEF Injection, IsInjective
  <2> HIDE DEF C
  <2> QED BY <1>1, <2>3, <2>5, FS_Injection
<1> QED BY <1>6, <1>7

(* What leaves a document as open as it was, leaves less to run. *)
Settles(d) == Debt(d)' + Open(d)' <= Debt(d) + Open(d)

LEMMA QuietSettles ==
  ASSUME NEW d, Typed, Typed', \A i \in Instances : Pays(inst[i], inst'[i], d, {}),
         \A i \in Instances : Calling(inst[i], d) => Calling(inst'[i], d),
         Loose(docs'[d]) => Loose(docs[d]), Left(docs'[d]) => Left(docs[d]) \/ Loose(docs[d])
  PROVE  Settles(d)
<1>1. Debt(d) \in Nat /\ Debt(d)' \in Nat
  <2>1. (Typed => Debt(d) \in Nat)'
    BY OwedFinite, PTL DEF Typed
  <2> QED BY <2>1, OwedFinite DEF Typed
<1>2. Debt(d)' <= Debt(d)
  BY DebtFalls
<1>3. Open(d) \in {0, 1} /\ Open(d)' \in {0, 1}
  BY DEF Open
<1>4. ASSUME Open(d) = 0, Open(d)' = 1 PROVE Debt(d)' <= Debt(d) - 1
  <2>1. ~Available(d) /\ Available(d)'
    BY <1>4 DEF Open
  <2>2. Left(docs[d]) /\ Guarded(d) /\ ~Guarded(d)'
    BY <2>1 DEF Available
  <2>3. PICK i \in Instances : Calling(inst[i], d) \/ Pending(inst[i], d)
    BY <2>2 DEF Guarded
  <2>4. ~Calling(inst'[i], d) /\ ~Pending(inst'[i], d)
    BY <2>2 DEF Guarded
  <2> QED BY <2>3, <2>4, DebtFalls
<1> QED BY <1>1, <1>2, <1>3, <1>4 DEF Settles

LEMMA SelfPays ==
  ASSUME NEW a, NEW d PROVE Pays(a, a, d, {})
  BY Stays, StemsPay DEF Follows

(* A document that is open is locked, for at most one more job. *)
LEMMA LockSettles ==
  ASSUME NEW d, Typed, Typed', NEW i \in Instances, Gains(inst[i], inst'[i], d),
         \A j \in Instances : j # i => inst'[j] = inst[j], Loose(docs[d]), Left(docs'[d])
  PROVE  Settles(d)
<1>1. Debt(d) \in Nat /\ Debt(d)' \in Nat
  <2>1. (Typed => Debt(d) \in Nat)'
    BY OwedFinite, PTL DEF Typed
  <2> QED BY <2>1, OwedFinite DEF Typed
<1>2. Open(d) = 1 /\ Open(d)' \in {0, 1}
  BY DEF Open, Available
<1>3. CASE Pays(inst[i], inst'[i], d, {})
  <2>1. Debt(d)' <= Debt(d)
    BY <1>3, SelfPays, DebtFalls
  <2> QED BY <1>1, <1>2, <2>1 DEF Settles
<1>4. ASSUME NEW t \in Debts(inst'[i], d), ~Job(inst'[i], t[1]).expired, Pays(inst[i], inst'[i], d, {t})
      PROVE  Settles(d)
  <2>1. Open(d)' = 0
    <3>1. Guarded(d)'
      BY <1>4 DEF Guarded, Pending
    <3> QED BY <3>1 DEF Open, Available, Loose, Left
  <2> DEFINE h == [j \in Instances |-> IF j = i THEN {t} ELSE {}]
             A == Owed(d)
             B == Owed(d)'
             O == {o \in Owed(d)' : o[2] \notin h[o[1]]}
             new == <<i, t>>
  <2>2. IsFiniteSet(A) /\ IsFiniteSet(B) /\ Debt(d) = Cardinality(A) /\ Debt(d)' = Cardinality(B)
    <3>1. (Typed => IsFiniteSet(Owed(d)))'
      BY OwedFinite, PTL DEF Typed
    <3> QED BY <3>1, OwedFinite DEF Typed, Debt
  <2>3. \A o \in B : o[1] \in Instances /\ o[2] \in Debts(inst'[o[1]], d) /\ o = <<o[1], o[2]>>
    <3>1. OwedShape(d)'
      BY OwedElements, PTL
    <3> QED BY <3>1 DEF OwedShape
  <2>4. new \in B
    <3>1. OwedShape(d)'
      BY OwedElements, PTL
    <3> QED BY <1>4, <3>1 DEF OwedShape
  <2>5. O = B \ {new}
    <3>1. ASSUME NEW o \in B PROVE o[2] \in h[o[1]] <=> o = new
      <4>1. o[1] \in Instances /\ o = <<o[1], o[2]>>
        BY <2>3
      <4> QED BY <4>1
    <3> HIDE DEF h, new
    <3> QED BY <3>1
  <2>6. \A j \in Instances : Pays(inst[j], inst'[j], d, h[j])
    BY <1>4, SelfPays
  <2> HIDE DEF h
  <2>7. PICK g : /\ g \in [O -> A]
                 /\ \A o, p \in O : g[o] = g[p] => o = p
                 /\ \A o \in O : /\ g[o][1] = o[1]
                                 /\ Job(inst'[o[1]], o[2][1]).expired => Job(inst[o[1]], g[o][2][1]).expired
    BY <2>6, OwedComes
  <2> HIDE DEF A, B, O, new
  <2>8. g \in Injection(O, A)
    BY <2>7 DEF Injection, IsInjective
  <2>9. Cardinality(O) <= Cardinality(A)
    BY <2>2, <2>8, FS_Injection
  <2>10. Cardinality(O) = Cardinality(B) - 1
    BY <2>2, <2>4, <2>5, FS_RemoveElement
  <2> QED BY <1>1, <1>2, <2>1, <2>2, <2>9, <2>10 DEF Settles
<1> QED BY <1>3, <1>4, GainsPay

AllSpent == \A i \in Instances : Spent(inst[i])
SpentStays == AllSpent => AllSpent'

LEMMA TypedInv ==
  /\ AgendaInv => Typed
  /\ AgendaInv' => Typed'
<1>1. AgendaInv => Typed
  BY Parts DEF Typed
<1> QED BY <1>1, PTL

(* One instance changes what it holds, and nothing is owed for it. *)
LEMMA OneSettles ==
  ASSUME Typed, Typed', NEW i \in Instances, \A j \in Instances : j # i => inst'[j] = inst[j],
         NEW e, Pays(inst[i], inst'[i], e, {}), Calling(inst[i], e) => Calling(inst'[i], e),
         Loose(docs'[e]) => Loose(docs[e]), Left(docs'[e]) => Left(docs[e]) \/ Loose(docs[e])
  PROVE  Settles(e)
<1>1. \A j \in Instances : Pays(inst[j], inst'[j], e, {})
  BY SelfPays
<1>2. \A j \in Instances : Calling(inst[j], e) => Calling(inst'[j], e)
  OBVIOUS
<1> QED BY <1>1, <1>2, QuietSettles

LEMMA WriteSettles ==
  ASSUME Typed, Typed', NEW i \in Instances, NEW d \in Docs, NEW doc, docs \in [Docs -> Doc],
         NEW local \in Instance, Follows(inst[i], local),
         docs' = [docs EXCEPT ![d] = doc], inst' = [inst EXCEPT ![i] = local],
         inst \in [Instances -> Instance]
  PROVE  /\ SpentStays
         /\ \A e \in Docs : e # d \/ Loose(docs[d]) \/ doc = docs[d] => Settles(e)
<1>1. inst'[i] = local /\ \A j \in Instances : j # i => inst'[j] = inst[j]
  OBVIOUS
<1>2. SpentStays
  BY <1>1 DEF SpentStays, AllSpent, Follows, Continues
<1>3. ASSUME NEW e \in Docs, e # d \/ Loose(docs[d]) \/ doc = docs[d] PROVE Settles(e)
  <2>1. Pays(inst[i], inst'[i], e, {}) /\ (Calling(inst[i], e) => Calling(inst'[i], e))
    BY <1>1, StemsPay DEF Follows, Continues
  <2>2. docs'[e] = docs[e] \/ (e = d /\ Loose(docs[e]))
    BY <1>3
  <2> QED BY <1>1, <2>1, <2>2, OneSettles
<1> QED BY <1>2, <1>3

LEMMA LockAndQueueSettles ==
  ASSUME AgendaInv, AgendaInv', NEW i \in Instances, NEW d \in Docs, NEW doc \in Doc,
         doc.status = "stored", NEW local, Memory(local), Follows(inst[i], local),
         LockAndQueue(i, d, doc, local)
  PROVE  /\ SpentStays
         /\ \A e \in Docs : e # d \/ Loose(docs[d]) => Settles(e)
<1> DEFINE grown == Enqueued(local, d, doc.next)
           b == Process(grown)
           locked == [doc EXCEPT !.lock = "held"]
<1>1. docs' = [docs EXCEPT ![d] = locked] /\ inst' = [inst EXCEPT ![i] = b]
  BY DEF LockAndQueue, Enqueued
<1>2. Left(locked)
  BY DEF Doc, Left
<1>3. Memory(grown) /\ Gains(local, grown, d)
  BY EnqueuedOK
<1>4. Follows(grown, b)
  <2> HIDE DEF grown
  <2> QED BY <1>3, ProcessOK
<1>5. Gains(inst[i], b, d)
  BY <1>3, <1>4, FollowsOn, GainsAfter
<1> HIDE DEF b, locked
<1>6. /\ inst'[i] = b /\ \A j \in Instances : j # i => inst'[j] = inst[j]
      /\ docs'[d] = locked /\ \A e \in Docs : e # d => docs'[e] = docs[e]
  BY <1>1, Parts DEF MemoryInv
<1>7. SpentStays
  BY <1>5, <1>6 DEF SpentStays, AllSpent, Gains, Continues
<1>8. ASSUME NEW e \in Docs, e # d PROVE Settles(e)
  <2>1. Pays(inst[i], inst'[i], e, {}) /\ (Calling(inst[i], e) => Calling(inst'[i], e))
    BY <1>5, <1>6, <1>8, GainsPay DEF Gains, Continues
  <2> QED BY <1>6, <1>8, <2>1, OneSettles, TypedInv
<1>9. Loose(docs[d]) => Settles(d)
  BY <1>2, <1>5, <1>6, LockSettles, TypedInv
<1> QED BY <1>7, <1>8, <1>9

LEMMA SavedSettles ==
  ASSUME AgendaInv, AgendaInv', NEW i \in Instances, NEW d \in Docs, NEW doc \in Doc,
         doc.status = "stored", NEW local, Memory(local), Follows(inst[i], local),
         SavedUnlocked(i, d, doc, local)
  PROVE  /\ SpentStays
         /\ \A e \in Docs : e # d \/ Loose(docs[d]) => Settles(e)
<1>1. CASE LockAndQueue(i, d, doc, local)
  BY <1>1, LockAndQueueSettles
<1>2. CASE docs' = [docs EXCEPT ![d] = doc] /\ inst' = [inst EXCEPT ![i] = local]
  BY <1>2, WriteSettles, TypedInv, Parts DEF MemoryInv, Memory
<1> QED BY <1>1, <1>2 DEF SavedUnlocked

(* What remains to be shown of a step that runs nothing *)
Quiet == SpentStays /\ \A e \in Docs : NameOf[e] \notin Recurring => Settles(e)

LEMMA EverySettles ==
  ASSUME AgendaInv, AgendaInv', NEW i \in Instances, NEW n \in Names, Every(i, n)
  PROVE  Quiet
<1> DEFINE local == Define(inst[i], n)
<1>1. PICK d \in IF StoredAs(n) # {} THEN StoredAs(n) ELSE Unused(n) :
        LET doc == [docs[d] EXCEPT !.status = "stored", !.next = "ahead"]
        IN  IF doc.lock = "free" THEN SavedUnlocked(i, d, doc, Define(inst[i], n))
            ELSE docs' = [docs EXCEPT ![d] = doc] /\ inst' = [inst EXCEPT ![i] = Define(@, n)]
  BY Zenon DEF Every
<1> DEFINE doc == [docs[d] EXCEPT !.status = "stored", !.next = "ahead"]
<1>2. d \in Docs /\ docs[d] \in Doc /\ NameOf[d] \in Recurring
  BY Parts DEF StoredAs, Unused, Every
<1>3. doc \in Doc /\ doc.status = "stored"
  BY <1>2 DEF Doc, Times
<1>4. Memory(local) /\ Follows(inst[i], local) /\ local \in Instance
  BY DefineOK, Parts DEF Memory
<1>5. CASE doc.lock = "free"
  <2>1. SavedUnlocked(i, d, doc, local)
    BY <1>1, <1>5, Zenon
  <2> HIDE DEF doc, local
  <2> QED BY <1>2, <1>3, <1>4, <2>1, SavedSettles DEF Quiet
<1>6. CASE doc.lock # "free"
  <2>1. docs' = [docs EXCEPT ![d] = doc] /\ inst' = [inst EXCEPT ![i] = local]
    BY <1>1, <1>6, Zenon
  <2> HIDE DEF doc, local
  <2> QED BY <1>2, <1>4, <2>1, WriteSettles, TypedInv, Parts DEF Quiet, MemoryInv
<1> QED BY <1>5, <1>6

LEMMA ScheduleSettles ==
  ASSUME AgendaInv, AgendaInv', NEW i \in Instances, NEW n \in Names, Schedule(i, n)
  PROVE  Quiet
<1> DEFINE local == Define(inst[i], n)
<1>1. PICK d \in Unused(n), next \in {"ahead", "due"} :
        SavedUnlocked(i, d, [status |-> "stored", next |-> next, lock |-> "free"], local)
  BY DEF Schedule
<1> DEFINE doc == [status |-> "stored", next |-> next, lock |-> "free"]
<1>2. d \in Docs /\ doc \in Doc /\ doc.status = "stored" /\ Loose(docs[d])
  BY DEF Unused, Doc, Times, Loose
<1>3. Memory(local) /\ Follows(inst[i], local)
  BY DefineOK, Parts
<1>4. SavedUnlocked(i, d, doc, local)
  BY <1>1
<1> HIDE DEF doc, local
<1> QED BY <1>2, <1>3, <1>4, SavedSettles DEF Quiet

LEMMA FillSettles ==
  ASSUME AgendaInv, AgendaInv', NEW i \in Instances, NEW n \in Names, Fill(i, n)
  PROVE  Quiet
<1>1. PICK d \in First(n) : LockAndQueue(i, d, docs[d], inst[i])
  BY DEF Fill
<1>2. d \in Docs /\ docs[d] \in Doc /\ docs[d].status = "stored" /\ Loose(docs[d])
  BY Parts DEF First, Lockable, StoredAs, Stored, Loose
<1>3. Memory(inst[i]) /\ Follows(inst[i], inst[i])
  BY Parts, Stays
<1> QED BY <1>1, <1>2, <1>3, LockAndQueueSettles DEF Quiet

LEMMA FinishSettles ==
  ASSUME AgendaInv, AgendaInv', NEW i \in Instances, NEW k \in DOMAIN inst[i].running, Finish(i, k)
  PROVE  Quiet
<1> DEFINE local == Ended(inst[i], k)
           d == inst[i].running[k].doc
<1>1. k \in 1..Len(inst[i].running) /\ d \in Docs
  BY RunFields
<1>2. Memory(local) /\ Follows(inst[i], local) /\ local \in Instance
  <2>1. inst[i].running[k].phase = "saved"
    BY DEF Finish, InPhase
  <2> QED BY <1>1, <2>1, EndedOK, Parts DEF Memory
<1>3. docs[d] \in Doc
  BY <1>1, Parts
<1>4. CASE Stored(d) /\ docs[d].lock = "free" /\ docs[d].next # "none"
  <2>1. SavedUnlocked(i, d, docs[d], local)
    BY <1>4 DEF Finish
  <2>2. docs[d].status = "stored" /\ Loose(docs[d])
    BY <1>4 DEF Stored, Loose
  <2> HIDE DEF d, local
  <2> QED BY <1>1, <1>2, <1>3, <2>1, <2>2, SavedSettles DEF Quiet
<1>5. CASE ~(Stored(d) /\ docs[d].lock = "free" /\ docs[d].next # "none")
  <2>1. inst' = [inst EXCEPT ![i] = local] /\ docs' = docs
    BY <1>5 DEF Finish
  <2>2. docs' = [docs EXCEPT ![d] = docs[d]]
    BY <1>1, <2>1, Parts
  <2> HIDE DEF d, local
  <2> QED BY <1>1, <1>2, <2>1, <2>2, WriteSettles, TypedInv, Parts DEF Quiet, MemoryInv
<1> QED BY <1>4, <1>5

LEMMA FireSettles ==
  ASSUME AgendaInv, AgendaInv', NEW i \in Instances, Fire(i)
  PROVE  Quiet
<1>1. Follows(inst[i], Fired(inst[i])) /\ inst' = [inst EXCEPT ![i] = Fired(inst[i])] /\ docs' = docs
  BY FiredOK, Parts DEF Fire
<1>2. inst'[i] = Fired(inst[i]) /\ \A j \in Instances : j # i => inst'[j] = inst[j]
  BY <1>1, Parts DEF MemoryInv
<1>3. SpentStays
  BY <1>1, <1>2 DEF SpentStays, AllSpent, Follows, Continues
<1>4. ASSUME NEW e \in Docs PROVE Settles(e)
  <2>1. Pays(inst[i], inst'[i], e, {}) /\ (Calling(inst[i], e) => Calling(inst'[i], e))
    BY <1>1, <1>2, StemsPay DEF Follows, Continues
  <2> QED BY <1>1, <1>2, <2>1, OneSettles, TypedInv
<1> QED BY <1>3, <1>4 DEF Quiet

(* Steps that leave to the instances what they hold *)
LEMMA IdleSettles ==
  ASSUME AgendaInv, AgendaInv', inst' = inst,
         \A e \in Docs : docs'[e] = docs[e] \/ docs'[e].status = "removed"
  PROVE  Quiet
<1>1. ASSUME NEW e \in Docs PROVE Settles(e)
  <2>1. \A i \in Instances : Pays(inst[i], inst'[i], e, {})
    BY SelfPays
  <2>2. /\ Loose(docs'[e]) => Loose(docs[e])
        /\ Left(docs'[e]) => Left(docs[e])
    BY DEF Loose, Left
  <2> QED BY <2>1, <2>2, QuietSettles, TypedInv
<1> QED BY <1>1 DEF Quiet, SpentStays, AllSpent

LEMMA TickSettles ==
  ASSUME AgendaInv, AgendaInv', NEW d \in Docs, Tick(d)
  PROVE  Quiet
<1>1. /\ docs' = [docs EXCEPT ![d].next = IF @ = "ahead" THEN "due" ELSE @]
      /\ inst' = [i \in Instances |-> Later(inst[i], d)]
  BY DEF Tick, Later
<1>2. \A i \in Instances : inst'[i] = Later(inst[i], d) /\ Follows(inst[i], inst'[i])
  BY <1>1, LaterOK, Parts
<1>3. SpentStays
  BY <1>2 DEF SpentStays, AllSpent, Follows, Continues
<1>4. ASSUME NEW e \in Docs PROVE Settles(e)
  <2>1. \A i \in Instances : /\ Pays(inst[i], inst'[i], e, {})
                             /\ Calling(inst[i], e) => Calling(inst'[i], e)
    BY <1>2, StemsPay DEF Follows, Continues
  <2>2. /\ Loose(docs'[e]) => Loose(docs[e])
        /\ Left(docs'[e]) => Left(docs[e])
    <3>1. docs[e] \in Doc
      BY Parts
    <3>2. /\ docs'[e].status = docs[e].status /\ docs'[e].lock = docs[e].lock
          /\ docs'[e].next = "none" <=> docs[e].next = "none"
      BY <1>1, <3>1, Parts DEF Doc
    <3> QED BY <3>2 DEF Loose, Left
  <2> QED BY <2>1, <2>2, QuietSettles, TypedInv
<1> QED BY <1>3, <1>4 DEF Quiet

-----------------------------------------------------------------------------
(* Steps that run a job, or that are faults *)

(* A run that is called or has returned owes nothing any more. *)
LEMMA PhasedDebts ==
  ASSUME NEW m, Memory(m), NEW k \in 1..Len(m.running), m.running[k].phase # "saved",
         NEW phase \in {"calling", "saved"}, NEW e
  PROVE  LET b == Phased(m, k, phase)
         IN  /\ Debts(b, e) = {t \in Debts(m, e) : t[1] # -k}
             /\ \A t \in Debts(b, e) : Job(b, t[1]) = Job(m, t[1])
             /\ Spent(m) => Spent(b)
             /\ m.running[k].doc # e \/ m.running[k].phase = "saving" =>
                  (Calling(m, e) => Calling(b, e))
             /\ m.running[k].doc = e /\ ~m.running[k].expired /\ phase = "calling" => Calling(b, e)
<1> DEFINE b == Phased(m, k, phase)
           R == Len(m.running)
           Q == Len(m.queue)
<1>1. /\ b.queue = m.queue /\ Len(b.running) = R
      /\ b.running[k] = [m.running[k] EXCEPT !.phase = phase]
      /\ \A l \in 1..R : l # k => b.running[l] = m.running[l]
  <2>1. GoesOn(m, b, k, phase)
    BY PhasedOK
  <2> HIDE DEF b
  <2> QED BY <2>1 DEF GoesOn
<1> HIDE DEF b
<1>2. R \in Nat /\ Q \in Nat /\ k \in Nat \ {0} /\ m.running[k] \in Run
  BY Fields DEF Memory
<1>3. b.running[k].phase = phase /\ b.running[k].doc = m.running[k].doc /\ b.running[k].next = m.running[k].next
      /\ b.running[k].expired = m.running[k].expired
  BY <1>1, <1>2 DEF Run
<1>4. Places(b) = Places(m)
  BY <1>1 DEF Places
<1>5. ASSUME NEW x \in Places(m), x # -k PROVE Job(b, x) = Job(m, x)
  <2>1. CASE x > 0
    BY <1>1, <2>1 DEF Job
  <2>2. CASE ~(x > 0)
    <3>1. -x \in 1..R /\ -x # k
      BY <1>2, <1>5, <2>2 DEF Places
    <3> QED BY <1>1, <2>2, <3>1 DEF Job
  <2> QED BY <2>1, <2>2
<1>6. ~Owing(Job(b, -k))
  <2>1. ~(-k > 0) /\ -(-k) = k
    BY <1>2
  <2> QED BY <1>3, <2>1 DEF Job, Owing
<1>7. Debts(b, e) = {t \in Debts(m, e) : t[1] # -k}
  <2>1. ASSUME NEW t \in Places(m) \X {1, 2}
        PROVE  t \in Debts(b, e) <=> t \in Debts(m, e) /\ t[1] # -k
    <3>1. t[1] \in Places(m)
      OBVIOUS
    <3>2. t[1] # -k => Job(b, t[1]) = Job(m, t[1])
      BY <1>5, <3>1
    <3>3. CASE t[1] = -k
      BY <1>6, <3>3 DEF Debts
    <3>4. CASE t[1] # -k
      BY <1>4, <3>2, <3>4 DEF Debts
    <3> QED BY <3>3, <3>4
  <2>2. Debts(b, e) \subseteq Places(m) \X {1, 2} /\ Debts(m, e) \subseteq Places(m) \X {1, 2}
    BY <1>4 DEF Debts
  <2> QED BY <2>1, <2>2
<1>8. \A t \in Debts(b, e) : Job(b, t[1]) = Job(m, t[1])
  BY <1>5, <1>7, DebtElements
<1>9. Spent(m) => Spent(b)
  <2>1. \A l \in 1..R : b.running[l].doc = m.running[l].doc /\ b.running[l].next = m.running[l].next
    BY <1>1, <1>3
  <2> QED BY <1>1, <2>1 DEF Spent
<1>10. ASSUME m.running[k].doc # e \/ m.running[k].phase = "saving", Calling(m, e)
       PROVE  Calling(b, e)
  <2>1. PICK l \in 1..R : m.running[l].doc = e /\ m.running[l].phase = "calling" /\ ~m.running[l].expired
    BY <1>10 DEF Calling
  <2>2. l # k
    BY <1>10, <2>1
  <2> QED BY <1>1, <2>1, <2>2 DEF Calling
<1>11. m.running[k].doc = e /\ ~m.running[k].expired /\ phase = "calling" => Calling(b, e)
  BY <1>1, <1>3 DEF Calling
<1> QED BY <1>7, <1>8, <1>9, <1>10, <1>11 DEF b

(* Other documents, when a run gets into its next phase *)
LEMMA PhasedSettles ==
  ASSUME AgendaInv, AgendaInv', NEW i \in Instances, NEW k \in DOMAIN inst[i].running,
         inst[i].running[k].phase # "saved", NEW phase \in {"calling", "saved"},
         inst' = [inst EXCEPT ![i] = Phased(inst[i], k, phase)],
         \A e \in Docs : e # inst[i].running[k].doc => docs'[e] = docs[e]
  PROVE  /\ SpentStays
         /\ \A e \in Docs : e # inst[i].running[k].doc => Settles(e)
         /\ \A e \in Docs : \A j \in Instances : Pays(inst[j], inst'[j], e, {})
<1> DEFINE b == Phased(inst[i], k, phase)
<1>1. inst'[i] = b /\ \A j \in Instances : j # i => inst'[j] = inst[j]
  BY Parts DEF MemoryInv
<1>2. k \in 1..Len(inst[i].running) /\ Memory(inst[i])
  BY RunFields, Parts
<1>3. ASSUME NEW e
      PROVE  /\ Debts(b, e) \subseteq Debts(inst[i], e)
             /\ \A t \in Debts(b, e) : Job(b, t[1]) = Job(inst[i], t[1])
             /\ Spent(inst[i]) => Spent(b)
             /\ inst[i].running[k].doc # e => (Calling(inst[i], e) => Calling(b, e))
  BY <1>2, PhasedDebts
<1> HIDE DEF b
<1>4. SpentStays
  BY <1>1, <1>3 DEF SpentStays, AllSpent
<1>5. \A e : Pays(inst[i], inst'[i], e, {})
  BY <1>1, <1>3, FewerPay
<1>6. \A e : \A j \in Instances : Pays(inst[j], inst'[j], e, {})
  BY <1>1, <1>5, SelfPays
<1>7. ASSUME NEW e \in Docs, e # inst[i].running[k].doc PROVE Settles(e)
  BY <1>1, <1>3, <1>5, <1>7, OneSettles, TypedInv
<1> QED BY <1>4, <1>6, <1>7

LEMMA DebtTypes ==
  ASSUME AgendaInv, AgendaInv', NEW d
  PROVE  /\ IsFiniteSet(Owed(d)) /\ IsFiniteSet(Owed(d)')
         /\ Debt(d) \in Nat /\ Debt(d)' \in Nat
         /\ Debt(d) = Cardinality(Owed(d)) /\ Debt(d)' = Cardinality(Owed(d)')
         /\ Open(d) \in {0, 1} /\ Open(d)' \in {0, 1}
<1>1. (Typed => IsFiniteSet(Owed(d)) /\ Debt(d) \in Nat)'
  BY OwedFinite, PTL DEF Typed
<1>2. IsFiniteSet(Owed(d)) /\ Debt(d) \in Nat
  BY OwedFinite, TypedInv DEF Typed
<1> QED BY <1>1, <1>2, TypedInv DEF Debt, Open

LEMMA ReturnSettles ==
  ASSUME AgendaInv, AgendaInv', AllSpent, NEW i \in Instances, NEW k \in DOMAIN inst[i].running,
         Return(i, k)
  PROVE  Quiet
<1> DEFINE job == inst[i].running[k]
<1>0. PICK d : d = job.doc
  OBVIOUS
<1>1. job.phase = "calling" /\ Save(job.doc, job.next, "free")
      /\ inst' = [inst EXCEPT ![i] = Phased(inst[i], k, "saved")]
  BY DEF Return, InPhase, Phased
<1>2. d \in Docs /\ job.next \in Times /\ k \in 1..Len(inst[i].running)
  BY <1>0, RunFields
<1>3. /\ \A e \in Docs : e # d => docs'[e] = docs[e]
      /\ docs'[d] = IF Stored(d) THEN [docs[d] EXCEPT !.next = job.next, !.lock = "free"] ELSE docs[d]
  <2>1. "free" \in {"free", "held", "expired"}
    OBVIOUS
  <2> HIDE DEF job
  <2>2. Writes(d, job.next, "free")
    BY <1>0, <1>1, <1>2, <2>1, SaveWrites, Parts
  <2> QED BY <2>2 DEF Writes
<1>4. /\ SpentStays
      /\ \A e \in Docs : e # d => Settles(e)
      /\ \A j \in Instances : Pays(inst[j], inst'[j], d, {})
  <2>1. /\ inst[i].running[k].phase # "saved" /\ inst' = [inst EXCEPT ![i] = Phased(inst[i], k, "saved")]
        /\ d = inst[i].running[k].doc
    BY <1>0, <1>1
  <2>2. "saved" \in {"calling", "saved"}
    OBVIOUS
  <2> HIDE DEF job
  <2>3. \A e \in Docs : e # inst[i].running[k].doc => docs'[e] = docs[e]
    BY <1>3, <2>1
  <2> QED BY <1>2, <2>1, <2>2, <2>3, PhasedSettles
<1>5. ASSUME NameOf[d] \notin Recurring PROVE Settles(d)
  <2>1. Debt(d)' <= Debt(d)
    BY <1>4, DebtFalls, TypedInv
  <2>2. job.next = "none"
    BY <1>0, <1>2, <1>5 DEF AllSpent, Spent
  <2>3. docs[d] \in Doc
    BY <1>2, Parts
  <2> HIDE DEF job
  <2>4. CASE Stored(d)
    <3>1. docs'[d].lock = "free" /\ docs'[d].next = "none" /\ docs'[d].status = "stored"
      BY <1>3, <2>2, <2>3, <2>4 DEF Doc, Stored
    <3>2. Open(d)' = 0
      BY <3>1 DEF Open, Available, Loose, Left
    <3> QED BY <2>1, <3>2, DebtTypes DEF Settles
  <2>5. CASE ~Stored(d)
    <3>1. docs'[d] = docs[d] /\ docs[d].status # "stored"
      BY <1>3, <2>5 DEF Stored
    <3>2. Open(d)' = Open(d)
      BY <3>1 DEF Open, Available, Loose, Left
    <3> QED BY <2>1, <3>2, DebtTypes DEF Settles
  <2> QED BY <2>4, <2>5
<1> QED BY <1>4, <1>5 DEF Quiet

LEMMA CallSettles ==
  ASSUME AgendaInv, AgendaInv', NEW i \in Instances, NEW k \in DOMAIN inst[i].running, Call(i, k),
         NEW d, d = inst[i].running[k].doc
  PROVE  /\ SpentStays
         /\ \A e \in Docs : e # d => Settles(e)
         /\ 1 + Debt(d)' + Open(d)' <= Debt(d) + Open(d)
<1> DEFINE job == inst[i].running[k]
           lock == IF job.expired THEN "expired" ELSE "held"
           b == Phased(inst[i], k, "calling")
<1>1. job.phase = "saving" /\ Save(job.doc, job.next, lock) /\ inst' = [inst EXCEPT ![i] = b]
  BY DEF Call, InPhase, Phased
<1>2. /\ d \in Docs /\ job.next \in Times /\ job.expired \in BOOLEAN /\ k \in 1..Len(inst[i].running)
      /\ -k \in Places(inst[i]) /\ Job(inst[i], -k) = job /\ Memory(inst[i])
  BY RunFields, Parts
<1>3. /\ \A e \in Docs : e # d => docs'[e] = docs[e]
      /\ docs'[d] = IF Stored(d) THEN [docs[d] EXCEPT !.next = job.next, !.lock = lock] ELSE docs[d]
  <2>1. lock \in {"free", "held", "expired"}
    OBVIOUS
  <2>2. Save(d, job.next, lock) /\ d \in Docs /\ job.next \in Times /\ docs \in [Docs -> Doc]
    BY <1>1, <1>2, Parts
  <2> HIDE DEF job, lock
  <2>3. Writes(d, job.next, lock)
    BY <2>1, <2>2, SaveWrites, Zenon
  <2> QED BY <2>3 DEF Writes
<1>4. /\ SpentStays
      /\ \A e \in Docs : e # d => Settles(e)
  <2>1. job.phase # "saved"
    BY <1>1
  <2> QED BY <1>1, <1>2, <1>3, <2>1, PhasedSettles
<1>5. /\ Debts(b, d) = {t \in Debts(inst[i], d) : t[1] # -k}
      /\ ~job.expired => Calling(b, d)
  <2>1. inst[i].running[k].phase # "saved"
    BY <1>1
  <2> QED BY <1>2, <2>1, PhasedDebts
<1>6. inst'[i] = b /\ \A j \in Instances : j # i => inst'[j] = inst[j]
  BY <1>1, Parts DEF MemoryInv
<1> DEFINE one == <<i, <<-k, 1>>>>
           two == <<i, <<-k, 2>>>>
<1>7. one # two /\ one \in Owed(d) /\ (job.expired => two \in Owed(d))
  <2>1. <<-k, 1>> \in Debts(inst[i], d) /\ (job.expired => <<-k, 2>> \in Debts(inst[i], d))
    BY <1>1, <1>2 DEF Debts, Owing
  <2> QED BY <2>1, OwedElements DEF OwedShape
<1>8. Owed(d)' \subseteq Owed(d) \ {one, two}
  <2> SUFFICES ASSUME NEW o \in Owed(d)' PROVE o \in Owed(d) \ {one, two}
    OBVIOUS
  <2>1. o[1] \in Instances /\ o[2] \in Debts(inst'[o[1]], d) /\ o = <<o[1], o[2]>>
    <3>1. OwedShape(d)'
      BY OwedElements, PTL
    <3> QED BY <3>1 DEF OwedShape
  <2> HIDE DEF b
  <2>2. CASE o[1] = i
    <3>1. o[2] \in Debts(inst[i], d) /\ o[2][1] # -k
      BY <1>5, <1>6, <2>1, <2>2
    <3> QED BY <2>1, <2>2, <3>1, OwedElements DEF OwedShape
  <2>3. CASE o[1] # i
    <3>1. o[2] \in Debts(inst[o[1]], d)
      BY <1>6, <2>1, <2>3
    <3> QED BY <2>1, <2>3, <3>1, OwedElements DEF OwedShape
  <2> QED BY <2>2, <2>3
<1>9. docs[d] \in Doc
  BY <1>2, Parts
<1> HIDE DEF one, two, b
<1>10. CASE job.expired
  <2>1. Debt(d)' <= Debt(d) - 2
    <3> DEFINE A == Owed(d) \ {one}
               B == A \ {two}
    <3>1. IsFiniteSet(A) /\ Cardinality(A) = Debt(d) - 1
      BY <1>7, DebtTypes, FS_RemoveElement
    <3>2. two \in A
      BY <1>7, <1>10
    <3> HIDE DEF A
    <3>3. IsFiniteSet(B) /\ Cardinality(B) = Cardinality(A) - 1
      BY <3>1, <3>2, FS_RemoveElement
    <3>4. Owed(d)' \in SUBSET B
      BY <1>8 DEF A
    <3> HIDE DEF B
    <3>5. Debt(d)' <= Cardinality(B)
      BY <3>3, <3>4, DebtTypes, FS_Subset
    <3> QED BY <3>1, <3>3, <3>5, DebtTypes
  <2>2. /\ Debt(d) \in Nat /\ Debt(d)' \in Nat /\ Open(d) \in {0, 1} /\ Open(d)' \in {0, 1}
    BY DebtTypes
  <2> QED BY <1>4, <2>1, <2>2
<1>11. CASE ~job.expired
  <2>1. Debt(d)' <= Debt(d) - 1
    <3> DEFINE A == Owed(d) \ {one}
    <3>1. IsFiniteSet(A) /\ Cardinality(A) = Debt(d) - 1
      BY <1>7, DebtTypes, FS_RemoveElement
    <3>2. Owed(d)' \in SUBSET A
      BY <1>8
    <3> HIDE DEF A
    <3> QED BY <3>1, <3>2, DebtTypes, FS_Subset
  <2>2. Open(d)' <= Open(d)
    <3>1. CASE Stored(d)
      <4>1. docs'[d].status = "stored" /\ docs'[d].lock = "held"
        BY <1>3, <1>9, <1>11, <3>1 DEF Doc, Stored
      <4>2. Guarded(d)'
        BY <1>5, <1>6, <1>11 DEF Guarded
      <4>3. Open(d)' = 0
        BY <4>1, <4>2 DEF Open, Available, Loose
      <4> QED BY <4>3, DebtTypes
    <3>2. CASE ~Stored(d)
      <4>1. docs'[d] = docs[d] /\ docs[d].status # "stored"
        BY <1>3, <3>2 DEF Stored
      <4>2. Open(d)' = Open(d)
        BY <4>1 DEF Open, Available, Loose, Left
      <4> QED BY <4>2, DebtTypes
    <3> QED BY <3>1, <3>2
  <2>3. /\ Debt(d) \in Nat /\ Debt(d)' \in Nat /\ Open(d) \in {0, 1} /\ Open(d)' \in {0, 1}
    BY DebtTypes
  <2> QED BY <1>4, <2>1, <2>2, <2>3
<1> QED BY <1>10, <1>11

(* When locks run out, what is queued is owed no more; a run that was to   *)
(* be called owes one more.                                                *)
LEMMA LapsedDebts ==
  ASSUME NEW m, Memory(m), Wakes(m), NEW d
  PROVE  LET b == Lapsed(m, d)
         IN  /\ Spent(m) => Spent(b)
             /\ \A e : e # d => /\ Debts(b, e) \subseteq Debts(m, e)
                                /\ \A t \in Debts(b, e) : Job(b, t[1]) = Job(m, t[1])
                                /\ Calling(m, e) => Calling(b, e)
             /\ \A t \in Debts(b, d) :
                  \E k \in 1..Len(m.running) :
                    /\ t[1] = -k /\ Job(m, -k) = m.running[k]
                    /\ t \in Debts(m, d) \/ (t = <<-k, 2>> /\ Holds(d, m.running[k]))
<1> DEFINE b == Lapsed(m, d)
           R == Len(m.running)
           Q == Len(m.queue)
<1>1. RunsOut(m.queue, b.queue, d) /\ RunsOut(m.running, b.running, d)
  BY LapsedOK
<1> HIDE DEF b
<1>2. R \in Nat /\ Q \in Nat /\ m \in Instance
  BY Fields DEF Memory
<1>3. Len(b.queue) = Q /\ Len(b.running) = R
  BY <1>1 DEF RunsOut
<1>4. Places(b) = Places(m)
  BY <1>3 DEF Places
<1>5. ASSUME NEW x \in Places(m)
      PROVE  /\ Job(b, x).doc = Job(m, x).doc /\ Job(b, x).phase = Job(m, x).phase
             /\ Job(m, x).doc # d => Job(b, x) = Job(m, x)
             /\ Job(m, x).doc = d => Job(b, x).expired
             /\ x > 0 => Job(m, x).phase = "queued"
             /\ ~(x > 0) => -x \in 1..R /\ Job(m, x) = m.running[-x] /\ Job(m, x) \in Run
  <2>1. CASE x > 0
    <3>1. x \in 1..Q /\ Job(b, x) = b.queue[x] /\ Job(m, x) = m.queue[x]
      BY <1>2, <2>1 DEF Places, Job
    <3>2. m.queue[x] \in Queued
      BY <1>2, <3>1, Fields, Elements
    <3> QED BY <1>1, <2>1, <3>1, <3>2 DEF RunsOut, Queued
  <2>2. CASE ~(x > 0)
    <3>1. -x \in 1..R /\ Job(b, x) = b.running[-x] /\ Job(m, x) = m.running[-x]
      BY <1>2, <2>2 DEF Places, Job
    <3>2. m.running[-x] \in Run
      BY <1>2, <3>1, Fields, Elements
    <3> QED BY <1>1, <2>2, <3>1, <3>2 DEF RunsOut
  <2> QED BY <2>1, <2>2
<1>6. Spent(m) => Spent(b)
  BY <1>1, <1>3 DEF Spent, RunsOut
<1>7. ASSUME NEW e, e # d
      PROVE  /\ Debts(b, e) \subseteq Debts(m, e)
             /\ \A t \in Debts(b, e) : Job(b, t[1]) = Job(m, t[1])
             /\ Calling(m, e) => Calling(b, e)
  <2>1. ASSUME NEW t \in Debts(b, e) PROVE t \in Debts(m, e) /\ Job(b, t[1]) = Job(m, t[1])
    <3>1. t \in Places(m) \X {1, 2} /\ t[1] \in Places(m) /\ Job(b, t[1]).doc = e
      BY <1>4 DEF Debts
    <3>2. Job(b, t[1]) = Job(m, t[1])
      BY <1>5, <1>7, <3>1
    <3> QED BY <3>1, <3>2 DEF Debts
  <2>2. \A k \in 1..R : m.running[k].doc = e => b.running[k] = m.running[k]
    BY <1>1, <1>7 DEF RunsOut
  <2>3. Calling(m, e) => Calling(b, e)
    BY <1>3, <2>2 DEF Calling
  <2> QED BY <2>1, <2>3
<1>8. ASSUME NEW t \in Debts(b, d)
      PROVE  \E k \in 1..R : /\ t[1] = -k /\ Job(m, -k) = m.running[k]
                             /\ t \in Debts(m, d) \/ (t = <<-k, 2>> /\ Holds(d, m.running[k]))
  <2>1. /\ t \in Places(m) \X {1, 2} /\ t[1] \in Places(m) /\ t = <<t[1], t[2]>> /\ t[2] \in {1, 2}
        /\ Job(b, t[1]).doc = d /\ Owing(Job(b, t[1]))
    BY <1>4 DEF Debts
  <2> DEFINE x == t[1]
  <2>2. Job(b, x).expired /\ Job(b, x).phase = "saving" /\ Job(m, x).doc = d /\ Job(m, x).phase = "saving"
    BY <1>5, <2>1 DEF Owing
  <2>3. ~(x > 0) /\ -x \in 1..R /\ Job(m, x) = m.running[-x] /\ Job(m, x) \in Run /\ x \in Int
    BY <1>5, <2>1, <2>2 DEF Places
  <2> DEFINE k == -x
  <2>4. k \in 1..R /\ x = -k /\ Job(m, -k) = m.running[k]
    BY <2>3
  <2>5. CASE t[2] = 1 \/ m.running[k].expired
    BY <2>1, <2>2, <2>3, <2>4, <2>5 DEF Debts, Owing
  <2>6. CASE t[2] = 2 /\ ~m.running[k].expired
    <3>1. t = <<-k, 2>>
      BY <2>1, <2>4, <2>6
    <3>2. Holds(d, m.running[k])
      BY <2>2, <2>3, <2>6 DEF Holds
    <3> HIDE DEF k, x
    <3> QED BY <2>4, <3>1, <3>2 DEF x
  <2> QED BY <2>1, <2>5, <2>6
<1> QED BY <1>6, <1>7, <1>8 DEF b

(* Each lock that ran out during a run counts twice. *)
LEMMA ExpirySettles ==
  ASSUME AgendaInv, AgendaInv', NEW d \in Docs, LockExpires(d)
  PROVE  /\ SpentStays
         /\ \A e \in Docs : e # d => Settles(e)
         /\ Debt(d)' + Open(d)' <= Debt(d) + Open(d) + 2 * Cardinality(LockedRuns(d))
<1> DEFINE L == LockedRuns(d)
           c == Cardinality(L)
<1>1. /\ docs' = [docs EXCEPT ![d].lock = IF @ = "held" THEN "expired" ELSE @]
      /\ \A i \in Instances : inst'[i] = Lapsed(inst[i], d)
  BY DEF LockExpires, Lapsed
<1>2. IsFiniteSet(L) /\ c \in Nat
  BY LockedRunsFinite, Parts
<1>3. ASSUME NEW i \in Instances
      PROVE  /\ Spent(inst[i]) => Spent(inst'[i])
             /\ \A e : e # d => /\ Debts(inst'[i], e) \subseteq Debts(inst[i], e)
                                /\ \A t \in Debts(inst'[i], e) : Job(inst'[i], t[1]) = Job(inst[i], t[1])
                                /\ Calling(inst[i], e) => Calling(inst'[i], e)
             /\ \A t \in Debts(inst'[i], d) :
                  \E k \in 1..Len(inst[i].running) :
                    /\ t[1] = -k /\ Job(inst[i], -k) = inst[i].running[k]
                    /\ t \in Debts(inst[i], d) \/ (t = <<-k, 2>> /\ Holds(d, inst[i].running[k]))
  BY <1>1, LapsedDebts, Parts
<1>4. SpentStays
  BY <1>3 DEF SpentStays, AllSpent
<1>5. ASSUME NEW e \in Docs, e # d PROVE Settles(e)
  <2>1. \A i \in Instances : Pays(inst[i], inst'[i], e, {})
    BY <1>3, <1>5, FewerPay
  <2>2. docs'[e] = docs[e]
    BY <1>1, <1>5, Parts
  <2> QED BY <1>3, <1>5, <2>1, <2>2, QuietSettles, TypedInv
<1>6. \A i \in Instances : \A k \in 1..Len(inst[i].running) :
        Holds(d, inst[i].running[k]) => <<i, k>> \in L
  <2>1. \A i \in Instances : DOMAIN inst[i].running = 1..Len(inst[i].running)
    BY Parts, Fields, Elements
  <2> QED BY <2>1 DEF LockedRuns
<1> DEFINE more == [l \in L |-> <<l[1], <<-l[2], 2>>>>]
           M == {more[l] : l \in L}
<1>7. ASSUME NEW o \in Owed(d)'
      PROVE  \/ o \in M
             \/ o \in Owed(d) /\ Job(inst[o[1]], o[2][1]).phase # "queued"
  <2>1. o[1] \in Instances /\ o[2] \in Debts(inst'[o[1]], d) /\ o = <<o[1], o[2]>>
    <3>1. OwedShape(d)'
      BY OwedElements, PTL
    <3> QED BY <3>1 DEF OwedShape
  <2>2. PICK k \in 1..Len(inst[o[1]].running) :
          /\ o[2][1] = -k /\ Job(inst[o[1]], -k) = inst[o[1]].running[k]
          /\ o[2] \in Debts(inst[o[1]], d) \/ (o[2] = <<-k, 2>> /\ Holds(d, inst[o[1]].running[k]))
    BY <1>3, <2>1
  <2>3. CASE o[2] \in Debts(inst[o[1]], d)
    <3>1. inst[o[1]].running[k].phase # "queued"
      <4>1. inst[o[1]].running[k] \in Run
        BY <2>1, <2>2, Parts, Fields, Elements
      <4> QED BY <4>1 DEF Run
    <3> QED BY <2>1, <2>2, <2>3, <3>1, OwedElements DEF OwedShape
  <2>4. CASE o[2] = <<-k, 2>> /\ Holds(d, inst[o[1]].running[k])
    <3> DEFINE l == <<o[1], k>>
    <3>1. l \in L
      BY <1>6, <2>1, <2>2, <2>4
    <3>2. more[l] = o
      BY <2>1, <2>4, <3>1
    <3> HIDE DEF l, more, L
    <3> QED BY <3>1, <3>2
  <2> QED BY <2>2, <2>3, <2>4
<1>8. IsFiniteSet(M) /\ Cardinality(M) <= c
  <2>1. more \in Surjection(L, M)
    BY DEF Surjection
  <2> HIDE DEF more, M, L
  <2> QED BY <1>2, <2>1, FS_Surjection
<1> HIDE DEF M
<1>9. Debt(d)' <= Debt(d) + c
  <2>1. IsFiniteSet(Owed(d) \cup M) /\ Cardinality(Owed(d) \cup M) <= Debt(d) + Cardinality(M)
    <3>1. IsFiniteSet(Owed(d)) /\ IsFiniteSet(M) /\ Debt(d) = Cardinality(Owed(d))
      BY <1>8, DebtTypes
    <3>2. /\ IsFiniteSet(Owed(d) \cup M)
          /\ Cardinality(Owed(d) \cup M) = Cardinality(Owed(d)) + Cardinality(M) - Cardinality(Owed(d) \cap M)
      BY <3>1, FS_Union
    <3>3. IsFiniteSet(Owed(d) \cap M)
      BY <3>1, FS_Intersection
    <3>4. Cardinality(Owed(d) \cap M) \in Nat /\ Cardinality(M) \in Nat /\ Debt(d) \in Nat
      BY <3>1, <3>3, FS_CardinalityType
    <3> QED BY <3>1, <3>2, <3>4
  <2>2. Owed(d)' \in SUBSET (Owed(d) \cup M)
    BY <1>7
  <2>3. Debt(d)' <= Cardinality(Owed(d) \cup M)
    BY <2>1, <2>2, DebtTypes, FS_Subset
  <2>4. Cardinality(M) \in Nat /\ Cardinality(Owed(d) \cup M) \in Nat
    BY <1>8, <2>1, FS_CardinalityType
  <2> QED BY <1>2, <1>8, <2>1, <2>3, <2>4, DebtTypes
<1>10. CASE c = 0
  <2>1. L = {}
    BY <1>2, <1>10, FS_EmptySet
  <2>2. M = {}
    BY <2>1 DEF M
  <2>3. Debt(d)' <= Debt(d)
    BY <1>2, <1>9, <1>10, DebtTypes
  <2>4. ASSUME Open(d) = 0, Open(d)' = 1 PROVE Debt(d)' <= Debt(d) - 1
    <3>1. Left(docs[d]) /\ Guarded(d)
      <4>1. docs[d] \in Doc /\ docs'[d] = [docs[d] EXCEPT !.lock = IF @ = "held" THEN "expired" ELSE @]
        BY <1>1, Parts
      <4>2. /\ docs'[d].status = docs[d].status /\ docs'[d].next = docs[d].next
            /\ docs'[d].lock = IF docs[d].lock = "held" THEN "expired" ELSE docs[d].lock
        BY <4>1 DEF Doc
      <4>3. ~Available(d) /\ Available(d)'
        BY <2>4 DEF Open
      <4>4. Loose(docs'[d]) /\ ~Loose(docs[d])
        BY <4>2, <4>3 DEF Available, Left
      <4>5. Left(docs[d])
        BY <4>1, <4>2, <4>4 DEF Loose, Left
      <4> QED BY <4>3, <4>5 DEF Available
    <3>2. PICK i \in Instances : Calling(inst[i], d) \/ Pending(inst[i], d)
      BY <3>1 DEF Guarded
    <3>3. ~Calling(inst[i], d)
      BY <1>6, <2>1 DEF Calling, Holds
    <3>4. PICK t \in Debts(inst[i], d) : ~Job(inst[i], t[1]).expired
      BY <3>2, <3>3 DEF Pending
    <3>5. Job(inst[i], t[1]).phase = "queued"
      <4> SUFFICES ASSUME Job(inst[i], t[1]).phase = "saving" PROVE FALSE
        BY DEF Debts, Owing
      <4>1. t[1] \in Places(inst[i]) /\ Job(inst[i], t[1]).doc = d
        BY DEF Debts
      <4>2. inst[i] \in Instance
        BY Parts
      <4>3. CASE t[1] > 0
        <5>1. t[1] \in 1..Len(inst[i].queue) /\ Job(inst[i], t[1]) = inst[i].queue[t[1]]
          BY <4>1, <4>2, <4>3, Fields DEF Places, Job
        <5>2. inst[i].queue[t[1]] \in Queued
          BY <4>2, <5>1, Fields, Elements
        <5> QED BY <5>1, <5>2 DEF Queued
      <4>4. CASE ~(t[1] > 0)
        <5>1. -t[1] \in 1..Len(inst[i].running) /\ Job(inst[i], t[1]) = inst[i].running[-t[1]]
          BY <4>1, <4>2, <4>4, Fields DEF Places, Job
        <5>2. Holds(d, inst[i].running[-t[1]])
          BY <3>4, <4>1, <5>1 DEF Holds
        <5> QED BY <1>6, <2>1, <5>1, <5>2
      <4> QED BY <4>3, <4>4
    <3> DEFINE last == <<i, t>>
               A == Owed(d) \ {last}
    <3>6. last \in Owed(d)
      BY OwedElements DEF OwedShape
    <3>7. last \notin Owed(d)'
      BY <1>7, <2>2, <3>5
    <3>8. Owed(d)' \in SUBSET A
      BY <1>7, <2>2, <3>7
    <3>9. IsFiniteSet(A) /\ Cardinality(A) = Debt(d) - 1
      BY <3>6, DebtTypes, FS_RemoveElement
    <3> HIDE DEF A
    <3> QED BY <3>8, <3>9, DebtTypes, FS_Subset
  <2> QED BY <1>2, <1>4, <1>5, <1>10, <2>3, <2>4, DebtTypes
<1>11. CASE c > 0
  <2> HIDE DEF c
  <2>1. Debt(d) \in Nat /\ Debt(d)' \in Nat /\ Open(d) \in {0, 1} /\ Open(d)' \in {0, 1}
    BY DebtTypes
  <2>2. Debt(d)' + Open(d)' <= Debt(d) + Open(d) + 2 * c
    BY <1>2, <1>9, <1>11, <2>1
  <2> QED BY <1>4, <1>5, <2>2 DEF c
<1> QED BY <1>2, <1>10, <1>11

LEMMA CrashSettles ==
  ASSUME AgendaInv, AgendaInv', NEW i \in Instances, Crash(i)
  PROVE  SpentStays /\ \A e \in Docs : Debt(e)' + Open(e)' <= Debt(e) + Open(e) + 1
<1>1. inst'[i] = Started /\ \A j \in Instances : j # i => inst'[j] = inst[j]
  BY Parts DEF Crash, MemoryInv
<1>2. Started.running = <<>>
  BY DEF Started
<1>3. SpentStays
  BY <1>1, <1>2 DEF SpentStays, AllSpent, Spent
<1>4. Stems(inst[i], Started)
  <2>1. Maps([x \in {} |-> x], inst[i], Started, {})
    BY StartedOK DEF Maps
  <2> QED BY <2>1 DEF Stems
<1>5. ASSUME NEW e \in Docs PROVE Debt(e)' + Open(e)' <= Debt(e) + Open(e) + 1
  <2>1. \A j \in Instances : Pays(inst[j], inst'[j], e, {})
    BY <1>1, <1>4, StemsPay, SelfPays
  <2>2. Debt(e)' <= Debt(e)
    BY <2>1, DebtFalls, TypedInv
  <2> QED BY <2>2, DebtTypes
<1> QED BY <1>3, <1>5

-----------------------------------------------------------------------------
(* Runs and faults *)

(* Every run of a job at a timestamp is paid for. *)
Budget(d) ==
    IF NameOf[d] \in Recurring THEN runs[d] = 0
    ELSE runs[d] + Debt(d) + Open(d) <= 1 + crashes + 2 * overruns[d]

RunsInv == AgendaInv /\ AllSpent /\ \A d \in Docs : Budget(d)

LEMMA RunsCount ==
  ASSUME AgendaInv, NEW d \in Docs
  PROVE  /\ runs[d] \in Nat /\ overruns[d] \in Nat /\ crashes \in Nat
         /\ Debt(d) \in Nat /\ Open(d) \in {0, 1}
  BY OwedFinite, Parts DEF AgendaInv, TypeOK, Open

(* What a step may add to the runs and the debts, a fault has to pay for.  *)
LEMMA BudgetStays ==
  ASSUME RunsInv, AgendaInv', NEW d \in Docs,
         IF NameOf[d] \in Recurring THEN runs'[d] = runs[d]
         ELSE runs'[d] + Debt(d)' + Open(d)'
                + crashes + 2 * overruns[d]
              <= runs[d] + Debt(d) + Open(d) + crashes' + 2 * overruns'[d]
  PROVE  Budget(d)'
<1>1. Budget(d)
  BY DEF RunsInv
<1>2. /\ runs[d] \in Nat /\ overruns[d] \in Nat /\ crashes \in Nat
      /\ Debt(d) \in Nat /\ Open(d) \in {0, 1}
  BY RunsCount DEF RunsInv
<1>3. /\ runs'[d] \in Nat /\ overruns'[d] \in Nat /\ crashes' \in Nat
      /\ Debt(d)' \in Nat /\ Open(d)' \in {0, 1}
  <2>1. runs'[d] \in Nat /\ overruns'[d] \in Nat /\ crashes' \in Nat
    BY DEF AgendaInv, TypeOK
  <2> QED BY <2>1, DebtTypes DEF RunsInv
<1>4. CASE NameOf[d] \in Recurring
  BY <1>1, <1>4 DEF Budget
<1>5. CASE NameOf[d] \notin Recurring
  BY <1>1, <1>2, <1>3, <1>5 DEF Budget
<1> QED BY <1>4, <1>5

LEMMA QuietBudget ==
  ASSUME RunsInv, AgendaInv', Quiet, UNCHANGED <<runs, crashes, overruns>>
  PROVE  RunsInv'
<1>1. ASSUME NEW d \in Docs PROVE Budget(d)'
  <2>1. CASE NameOf[d] \in Recurring
    BY <2>1, BudgetStays
  <2>2. CASE NameOf[d] \notin Recurring
    <3>1. Debt(d)' + Open(d)' <= Debt(d) + Open(d)
      BY <2>2 DEF Quiet, Settles
    <3>2. /\ runs[d] \in Nat /\ overruns[d] \in Nat /\ crashes \in Nat
          /\ Debt(d) \in Nat /\ Open(d) \in {0, 1}
          /\ Debt(d)' \in Nat /\ Open(d)' \in {0, 1}
      BY RunsCount, DebtTypes DEF RunsInv
    <3>3. runs[d] + Debt(d)' + Open(d)' + crashes + 2 * overruns[d]
            <= runs[d] + Debt(d) + Open(d) + crashes + 2 * overruns[d]
      BY <3>1, <3>2
    <3> QED BY <2>2, <3>3, BudgetStays
  <2> QED BY <2>1, <2>2
<1> QED BY <1>1 DEF RunsInv, Quiet, SpentStays

LEMMA CallBudget ==
  ASSUME RunsInv, AgendaInv', NEW i \in Instances, NEW k \in DOMAIN inst[i].running, Call(i, k)
  PROVE  RunsInv'
<1>1. PICK c : c = inst[i].running[k].doc
  OBVIOUS
<1>2. c \in Docs
  BY <1>1, RunFields DEF RunsInv
<1>3. /\ SpentStays
      /\ \A e \in Docs : e # c => Settles(e)
      /\ 1 + Debt(c)' + Open(c)' <= Debt(c) + Open(c)
  BY <1>1, CallSettles DEF RunsInv
<1>4. /\ runs' = [runs EXCEPT ![c] = IF NameOf[c] \in Recurring THEN @ ELSE @ + 1]
      /\ UNCHANGED <<crashes, overruns>>
  BY <1>1 DEF Call
<1>5. runs \in [Docs -> Nat]
  BY DEF RunsInv, AgendaInv, TypeOK
<1>6. ASSUME NEW d \in Docs PROVE Budget(d)'
  <2>1. /\ runs[d] \in Nat /\ overruns[d] \in Nat /\ crashes \in Nat
        /\ Debt(d) \in Nat /\ Open(d) \in {0, 1}
        /\ Debt(d)' \in Nat /\ Open(d)' \in {0, 1}
    BY RunsCount, DebtTypes DEF RunsInv
  <2>2. CASE NameOf[d] \in Recurring
    <3>1. runs'[d] = runs[d]
      BY <1>4, <1>5, <2>2
    <3> QED BY <2>2, <3>1, BudgetStays
  <2>3. CASE NameOf[d] \notin Recurring /\ d # c
    <3>1. runs'[d] = runs[d]
      BY <1>4, <1>5, <2>3
    <3>2. Debt(d)' + Open(d)' <= Debt(d) + Open(d)
      BY <1>3, <2>3 DEF Settles
    <3>3. runs'[d] + Debt(d)' + Open(d)' + crashes + 2 * overruns[d]
            <= runs[d] + Debt(d) + Open(d) + crashes' + 2 * overruns'[d]
      BY <1>4, <2>1, <3>1, <3>2
    <3> QED BY <2>3, <3>3, BudgetStays
  <2>4. CASE NameOf[d] \notin Recurring /\ d = c
    <3>1. runs'[d] = runs[d] + 1
      BY <1>4, <1>5, <2>4
    <3>2. 1 + Debt(d)' + Open(d)' <= Debt(d) + Open(d)
      BY <1>3, <2>4
    <3>3. runs'[d] + Debt(d)' + Open(d)' + crashes + 2 * overruns[d]
            <= runs[d] + Debt(d) + Open(d) + crashes' + 2 * overruns'[d]
      BY <1>4, <2>1, <3>1, <3>2
    <3> QED BY <2>4, <3>3, BudgetStays
  <2> QED BY <2>2, <2>3, <2>4
<1> QED BY <1>3, <1>6 DEF RunsInv, SpentStays

LEMMA ExpiryBudget ==
  ASSUME RunsInv, AgendaInv', NEW c \in Docs, LockExpires(c)
  PROVE  RunsInv'
<1> DEFINE l == Cardinality(LockedRuns(c))
<1>1. /\ SpentStays
      /\ \A e \in Docs : e # c => Settles(e)
      /\ Debt(c)' + Open(c)' <= Debt(c) + Open(c) + 2 * l
  BY ExpirySettles DEF RunsInv
<1>2. UNCHANGED <<runs, crashes>> /\ overruns' = [overruns EXCEPT ![c] = @ + l]
  BY DEF LockExpires
<1>3. overruns \in [Docs -> Nat]
  BY DEF RunsInv, AgendaInv, TypeOK
<1>4. l \in Nat
  BY LockedRunsFinite, Parts DEF RunsInv
<1> HIDE DEF l
<1>5. ASSUME NEW d \in Docs, NameOf[d] \notin Recurring PROVE Budget(d)'
  <2>1. /\ runs[d] \in Nat /\ overruns[d] \in Nat /\ crashes \in Nat
        /\ Debt(d) \in Nat /\ Open(d) \in {0, 1}
        /\ Debt(d)' \in Nat /\ Open(d)' \in {0, 1}
    BY RunsCount, DebtTypes DEF RunsInv
  <2>2. CASE d # c
    <3>1. overruns'[d] = overruns[d]
      BY <1>2, <1>3, <2>2
    <3>2. Debt(d)' + Open(d)' <= Debt(d) + Open(d)
      BY <1>1, <2>2 DEF Settles
    <3>3. runs'[d] + Debt(d)' + Open(d)' + crashes + 2 * overruns[d]
            <= runs[d] + Debt(d) + Open(d) + crashes' + 2 * overruns'[d]
      BY <1>2, <2>1, <3>1, <3>2
    <3> QED BY <1>5, <3>3, BudgetStays
  <2>3. CASE d = c
    <3>1. overruns'[d] = overruns[d] + l
      BY <1>2, <1>3, <2>3
    <3>2. Debt(d)' + Open(d)' <= Debt(d) + Open(d) + 2 * l
      BY <1>1, <2>3
    <3>3. runs'[d] + Debt(d)' + Open(d)' + crashes + 2 * overruns[d]
            <= runs[d] + Debt(d) + Open(d) + crashes' + 2 * overruns'[d]
      BY <1>2, <1>4, <2>1, <3>1, <3>2
    <3> QED BY <1>5, <3>3, BudgetStays
  <2> QED BY <2>2, <2>3
<1>6. ASSUME NEW d \in Docs, NameOf[d] \in Recurring PROVE Budget(d)'
  BY <1>2, <1>6, BudgetStays
<1> QED BY <1>1, <1>5, <1>6 DEF RunsInv, SpentStays

LEMMA CrashBudget ==
  ASSUME RunsInv, AgendaInv', NEW i \in Instances, Crash(i)
  PROVE  RunsInv'
<1>1. SpentStays /\ \A e \in Docs : Debt(e)' + Open(e)' <= Debt(e) + Open(e) + 1
  BY CrashSettles DEF RunsInv
<1>2. UNCHANGED <<runs, overruns>> /\ crashes' = crashes + 1
  BY DEF Crash
<1>3. ASSUME NEW d \in Docs, NameOf[d] \notin Recurring PROVE Budget(d)'
  <2>1. /\ runs[d] \in Nat /\ overruns[d] \in Nat /\ crashes \in Nat
        /\ Debt(d) \in Nat /\ Open(d) \in {0, 1}
        /\ Debt(d)' \in Nat /\ Open(d)' \in {0, 1}
    BY RunsCount, DebtTypes DEF RunsInv
  <2>2. Debt(d)' + Open(d)' <= Debt(d) + Open(d) + 1
    BY <1>1
  <2>3. runs'[d] + Debt(d)' + Open(d)' + crashes + 2 * overruns[d]
          <= runs[d] + Debt(d) + Open(d) + crashes' + 2 * overruns'[d]
    BY <1>2, <2>1, <2>2
  <2> QED BY <1>3, <2>3, BudgetStays
<1>4. ASSUME NEW d \in Docs, NameOf[d] \in Recurring PROVE Budget(d)'
  BY <1>2, <1>4, BudgetStays
<1> QED BY <1>1, <1>3, <1>4 DEF RunsInv, SpentStays

LEMMA RunsInit == Init => RunsInv
<1> SUFFICES ASSUME Init PROVE RunsInv
  OBVIOUS
<1>1. AgendaInv
  BY AgendaInit
<1>2. \A i \in Instances : inst[i] = Started
  BY DEF Init
<1>3. AllSpent
  BY <1>2 DEF AllSpent, Spent, Started
<1>4. ASSUME NEW d \in Docs PROVE Budget(d)
  <2>1. Owed(d) = {}
    BY <1>2, StartedOK, OwedElements DEF OwedShape, Debts
  <2>2. Debt(d) = 0
    BY <2>1, FS_EmptySet DEF Debt
  <2>3. runs[d] = 0 /\ crashes = 0 /\ overruns[d] = 0 /\ Open(d) \in {0, 1}
    BY DEF Init, Open
  <2> QED BY <2>2, <2>3 DEF Budget
<1> QED BY <1>1, <1>3, <1>4 DEF RunsInv

LEMMA RunsStep == RunsInv /\ [Next]_vars => RunsInv'
<1> SUFFICES ASSUME RunsInv, [Next]_vars PROVE RunsInv'
  OBVIOUS
<1>0. AgendaInv /\ AgendaInv' /\ AllSpent
  BY AgendaStep DEF RunsInv
<1>1. ASSUME NEW i \in Instances, NEW n \in Names, Every(i, n) PROVE RunsInv'
  BY <1>0, <1>1, EverySettles, QuietBudget DEF Every
<1>2. ASSUME NEW i \in Instances, NEW n \in Names, Schedule(i, n) PROVE RunsInv'
  BY <1>0, <1>2, ScheduleSettles, QuietBudget DEF Schedule
<1>3. ASSUME NEW i \in Instances, NEW n \in Names, Fill(i, n) PROVE RunsInv'
  BY <1>0, <1>3, FillSettles, QuietBudget DEF Fill
<1>4. ASSUME NEW i \in Instances, NEW k \in DOMAIN inst[i].running, Call(i, k) PROVE RunsInv'
  BY <1>0, <1>4, CallBudget
<1>5. ASSUME NEW i \in Instances, NEW k \in DOMAIN inst[i].running, Return(i, k) PROVE RunsInv'
  BY <1>0, <1>5, ReturnSettles, QuietBudget DEF Return
<1>6. ASSUME NEW i \in Instances, NEW k \in DOMAIN inst[i].running, Finish(i, k) PROVE RunsInv'
  BY <1>0, <1>6, FinishSettles, QuietBudget DEF Finish
<1>7. ASSUME NEW i \in Instances, Fire(i) PROVE RunsInv'
  BY <1>0, <1>7, FireSettles, QuietBudget DEF Fire
<1>8. ASSUME NEW i \in Instances, Crash(i) PROVE RunsInv'
  BY <1>0, <1>8, CrashBudget
<1>9. ASSUME NEW i \in Instances, Restart(i) PROVE RunsInv'
  BY <1>0, <1>9, IdleSettles, QuietBudget DEF Restart
<1>10. ASSUME NEW n \in Names, RemoveJobs(n) PROVE RunsInv'
  <2>1. inst' = inst /\ UNCHANGED <<runs, crashes, overruns>>
    BY <1>10 DEF RemoveJobs
  <2>2. ASSUME NEW e \in Docs PROVE docs'[e] = docs[e] \/ docs'[e].status = "removed"
    <3>1. docs'[e] = IF e \in StoredAs(n) THEN [docs[e] EXCEPT !.status = "removed"] ELSE docs[e]
      BY <1>10 DEF RemoveJobs
    <3>2. AgendaInv
      BY <1>0 DEF RunsInv
    <3>3. docs[e] \in Doc
      BY <3>2, Parts
    <3> QED BY <3>1, <3>3 DEF Doc
  <2> QED BY <1>0, <2>1, <2>2, IdleSettles, QuietBudget
<1>11. ASSUME NEW d \in Docs, Tick(d) PROVE RunsInv'
  BY <1>0, <1>11, TickSettles, QuietBudget DEF Tick
<1>12. ASSUME NEW d \in Docs, LockExpires(d) PROVE RunsInv'
  BY <1>0, <1>12, ExpiryBudget
<1>13. CASE UNCHANGED vars
  BY <1>0, <1>13, IdleSettles, QuietBudget DEF vars
<1> QED BY <1>1, <1>2, <1>3, <1>4, <1>5, <1>6, <1>7, <1>8, <1>9, <1>10, <1>11, <1>12, <1>13 DEF Next

(* A job at a timestamp is run once, and once more for each crash and twice *)
(* for each run that outlives its lock.                                     *)
THEOREM FaultsPayForRuns == Spec => []OneRunPerFault
<1>1. RunsInv => OneRunPerFault
  <2> SUFFICES ASSUME RunsInv, NEW d \in Docs PROVE runs[d] <= 1 + crashes + 2 * overruns[d]
    BY DEF OneRunPerFault
  <2>1. Budget(d)
    BY DEF RunsInv
  <2>2. /\ runs[d] \in Nat /\ overruns[d] \in Nat /\ crashes \in Nat
        /\ Debt(d) \in Nat /\ Open(d) \in {0, 1}
    BY RunsCount DEF RunsInv
  <2> QED BY <2>1, <2>2 DEF Budget
<1> QED BY <1>1, RunsInit, RunsStep, PTL DEF Spec
=============================================================================
