----------------------------- MODULE OutboxProofs -----------------------------
(***************************************************************************)
(* Proofs about Outbox for any finite set of keys, any number of requests  *)
(* and workers, any batch and any number of crashes.                       *)
(*                                                                         *)
(* Why an e-mail goes out once: a worker's batch is made of queued rows    *)
(* that no other worker has, and stays so till its commit, because nothing *)
(* else writes a queued row.  So a row that is sent has been picked once   *)
(* for each worker that died with it, and once more.                       *)
(***************************************************************************)
EXTENDS Outbox, FiniteSetTheorems, TLAPS

(* The types of the variables, whole (Outbox!TypeOK bounds them).          *)
OutboxTypes ==
    /\ status \in [Keys -> Statuses]
    /\ preference \in {"unset", "on", "off"}
    /\ happened \subseteq Keys
    /\ request \in [Requests -> [stage : {"idle", "after", "read"},
                                 key : Keys \cup {"none"}, saw : BOOLEAN]]
    /\ \A r \in Requests : request[r].stage # "idle" => request[r].key \in Keys
    /\ worker \in [Workers -> [todo : SUBSET Keys, sent : SUBSET Keys, failed : SUBSET Keys]]
    /\ mailed \in [Keys -> 0..(MaxCrashes + 2)]
    /\ crashes \in 0..MaxCrashes

(* A worker never holds more than it may pick.                             *)
BatchesSmall == \A w \in Workers : Cardinality(Batch(w)) <= Limit

(* The rows of a batch are locked: queued, in no other batch, and on one   *)
(* list of it.                                                             *)
BatchesLocked ==
    /\ \A w \in Workers : \A k \in Batch(w) : status[k] = "queued"
    /\ \A v, w \in Workers : v # w => Batch(v) \cap Batch(w) = {}
    /\ \A w \in Workers : worker[w].todo \cap (worker[w].sent \cup worker[w].failed) = {}

(* A worker is past the SMTP conversation about k, or its outcome is there.*)
Attempted(k) == \/ status[k] \in {"sent", "failed"}
                \/ \E w \in Workers : k \in worker[w].sent \cup worker[w].failed

(* One e-mail for each crash, and one more once the row has been attempted.*)
MailedCounted ==
    \A k \in Keys : mailed[k] <= IF Attempted(k) THEN crashes + 1 ELSE crashes

(* What is sent, or is going to be called so, has been accepted.           *)
AcceptedIfSent ==
    \A k \in Keys : status[k] = "sent" \/ (\E w \in Workers : k \in worker[w].sent)
                    => mailed[k] >= 1

(* A request that has seen a row is right: rows are not deleted.           *)
SeenRowsStay ==
    \A r \in Requests :
        request[r].stage = "read" /\ request[r].saw => status[request[r].key] # "none"

IInv == /\ OutboxTypes /\ BatchesSmall /\ BatchesLocked
        /\ MailedCounted /\ AcceptedIfSent /\ SeenRowsStay

-------------------------------------------------------------------------------
(* A batch is made of due rows, and no more of them than a worker may take.*)
LEMMA BatchesOfDue ==
    ASSUME NEW batch \in Batches
    PROVE  batch \subseteq Due /\ Cardinality(batch) <= Limit
  <1>1. IsFiniteSet(Due)
    BY OutboxAssumption, FS_Subset DEF Due
  <1>2. Cardinality(Due) \in Nat
    BY <1>1, FS_CardinalityType
  <1>3. Min({Limit, Cardinality(Due)}) <= Limit
    <2>1. \E x \in {Limit, Cardinality(Due)} : \A y \in {Limit, Cardinality(Due)} : x <= y
      BY <1>2, OutboxAssumption
    <2>2. QED
      BY <2>1 DEF Min
  <1>4. QED
    BY <1>3 DEF Batches, kSubset

(* The initial states satisfy the invariant.                               *)
LEMMA InitInvariant == Init => IInv
  <1> SUFFICES ASSUME Init PROVE IInv
    OBVIOUS
  <1>1. \A w \in Workers : Batch(w) = {}
    BY DEF Init, Batch, NoBatch
  <1>2. BatchesSmall
    BY <1>1, FS_EmptySet, OutboxAssumption DEF BatchesSmall
  <1>3. OutboxTypes
    BY OutboxAssumption DEF Init, OutboxTypes, Statuses, NoRequest, NoBatch
  <1>4. BatchesLocked
    BY <1>1 DEF BatchesLocked, Init, NoBatch
  <1>5. QED
    BY <1>2, <1>3, <1>4
       DEF Init, IInv, MailedCounted, AcceptedIfSent, SeenRowsStay, Attempted,
           NoRequest, NoBatch

-------------------------------------------------------------------------------
(* What requests do to the rows: nothing, or one row that was not there is *)
(* queued.                                                                 *)
Queues == \/ UNCHANGED status
          \/ \E k \in Keys : status[k] = "none" /\ Insert(k)

RequestsAct ==
    \/ \E k \in Keys : ListenerCommits(k)
    \/ \E r \in Requests, k \in Keys : EventCommits(r, k) \/ QueueRead(r, k)
    \/ \E r \in Requests : QueueCommits(r) \/ QueueConflicts(r) \/ RequestDies(r)

(* A step of a request changes the queue by inserting rows, and nothing    *)
(* a worker holds.                                                         *)
LEMMA RequestsQueue ==
    ASSUME OutboxTypes, RequestsAct
    PROVE  /\ Queues /\ UNCHANGED delivery
           /\ crashes' \in {crashes, crashes + 1} /\ crashes' <= MaxCrashes
  <1> USE OutboxAssumption DEF OutboxTypes, Queues, delivery
  <1>1. CASE \E k \in Keys : ListenerCommits(k)
    BY <1>1 DEF ListenerCommits, InsertWanted
  <1>2. CASE \E r \in Requests, k \in Keys : EventCommits(r, k) \/ QueueRead(r, k)
    BY <1>2 DEF EventCommits, QueueRead
  <1>3. CASE \E r \in Requests : QueueCommits(r)
    <2>1. PICK r \in Requests : QueueCommits(r)
      BY <1>3
    <2>2. request[r].key \in Keys
      BY <2>1 DEF QueueCommits
    <2>3. QED
      BY <2>1, <2>2 DEF QueueCommits, InsertWanted, Conflict
  <1>4. CASE \E r \in Requests : QueueConflicts(r) \/ RequestDies(r)
    BY <1>4 DEF QueueConflicts, RequestDies
  <1>5. QED
    BY <1>1, <1>2, <1>3, <1>4 DEF RequestsAct

(* Requests keep the types.                                                *)
LEMMA RequestsTypes ==
    ASSUME OutboxTypes, RequestsAct
    PROVE  OutboxTypes'
  <1>1. Queues /\ UNCHANGED delivery /\ crashes' \in 0..MaxCrashes
    BY RequestsQueue, OutboxAssumption DEF OutboxTypes
  <1>2. status' \in [Keys -> Statuses]
    BY <1>1 DEF OutboxTypes, Queues, Insert, Statuses
  <1> DEFINE RequestWork == [stage : {"idle", "after", "read"}, key : Keys \cup {"none"},
                      saw : BOOLEAN]
             RequestsTyped == /\ request' \in [Requests -> RequestWork]
                              /\ \A q \in Requests :
                                     request'[q].stage # "idle" => request'[q].key \in Keys
  <1>3. ASSUME NEW r \in Requests, NEW w \in RequestWork, w.stage # "idle" => w.key \in Keys,
               request' = [request EXCEPT ![r] = w]
        PROVE  RequestsTyped
    BY <1>3 DEF OutboxTypes
  <1>4. RequestsTyped /\ preference' = preference /\ happened' \subseteq Keys
    <2>1. ASSUME NEW k \in Keys, ListenerCommits(k) PROVE RequestsTyped /\ preference' = preference /\ happened' \subseteq Keys
      BY <2>1 DEF OutboxTypes, ListenerCommits
    <2>2. ASSUME NEW r \in Requests, NEW k \in Keys, EventCommits(r, k) PROVE RequestsTyped /\ preference' = preference /\ happened' \subseteq Keys
      <3>1. [stage |-> "after", key |-> k, saw |-> FALSE] \in RequestWork
        OBVIOUS
      <3>2. QED
        BY <2>2, <3>1, <1>3 DEF OutboxTypes, EventCommits
    <2>3. ASSUME NEW r \in Requests, NEW k \in Keys, QueueRead(r, k) PROVE RequestsTyped /\ preference' = preference /\ happened' \subseteq Keys
      <3>1. [stage |-> "read", key |-> k, saw |-> status[k] # "none"] \in RequestWork
        OBVIOUS
      <3>2. QED
        BY <2>3, <3>1, <1>3 DEF OutboxTypes, QueueRead
    <2>4. ASSUME NEW r \in Requests, QueueCommits(r) \/ QueueConflicts(r) \/ RequestDies(r)
          PROVE  RequestsTyped /\ preference' = preference /\ happened' \subseteq Keys
      <3>1. NoRequest \in RequestWork /\ NoRequest.stage = "idle"
        BY DEF NoRequest
      <3>2. request' = [request EXCEPT ![r] = NoRequest]
        BY <2>4 DEF QueueCommits, QueueConflicts, RequestDies
      <3>3. QED
        BY <2>4, <3>1, <3>2, <1>3
           DEF OutboxTypes, QueueCommits, QueueConflicts, RequestDies
    <2>5. QED
      BY <2>1, <2>2, <2>3, <2>4 DEF RequestsAct
  <1>5. QED
    BY <1>1, <1>2, <1>4 DEF OutboxTypes, delivery

(* Requests keep the rest: a row they queue was in nobody's batch.         *)
LEMMA RequestsStep ==
    ASSUME IInv, RequestsAct
    PROVE  IInv'
  <1>t. OutboxTypes /\ OutboxTypes'
    BY RequestsTypes DEF IInv
  <1>1. /\ Queues /\ UNCHANGED delivery
        /\ crashes' \in {crashes, crashes + 1} /\ crashes' <= MaxCrashes
    BY <1>t, RequestsQueue
  <1>2. UNCHANGED <<worker, mailed>> /\ \A w \in Workers : Batch(w)' = Batch(w)
    BY <1>1 DEF delivery, Batch
  <1>3. \A k \in Keys : status[k] # "none" => status'[k] = status[k]
    BY <1>1, <1>t DEF Queues, Insert, OutboxTypes
  <1>4. \A k \in Keys : status'[k] \in {status[k], "queued"}
    BY <1>1, <1>t DEF Queues, Insert, OutboxTypes
  <1>5. BatchesSmall' /\ BatchesLocked'
    BY <1>2, <1>3, <1>t DEF IInv, BatchesSmall, BatchesLocked, Batch, OutboxTypes
  <1>6. MailedCounted'
    <2> SUFFICES ASSUME NEW k \in Keys
                 PROVE  mailed'[k] <= IF Attempted(k)' THEN crashes' + 1 ELSE crashes'
      BY DEF MailedCounted
    <2>1. Attempted(k)' <=> Attempted(k)
      BY <1>2, <1>3, <1>4, <1>t DEF Attempted, OutboxTypes
    <2>2. mailed[k] <= IF Attempted(k) THEN crashes + 1 ELSE crashes
      BY DEF IInv, MailedCounted
    <2>3. mailed[k] \in Nat /\ crashes \in Nat
      BY <1>t, OutboxAssumption DEF OutboxTypes
    <2>4. QED
      BY <1>1, <1>2, <2>1, <2>2, <2>3
  <1>7. AcceptedIfSent'
    BY <1>2, <1>4, <1>t DEF IInv, AcceptedIfSent, OutboxTypes
  <1>8. SeenRowsStay'
    <2> SUFFICES ASSUME NEW q \in Requests, request'[q].stage = "read", request'[q].saw
                 PROVE  status'[request'[q].key] # "none"
      BY DEF SeenRowsStay
    <2>1. CASE request'[q] = request[q]
      <3>1. request[q].key \in Keys /\ status[request[q].key] # "none"
        BY <2>1, <1>t DEF IInv, SeenRowsStay, OutboxTypes
      <3>2. QED
        BY <2>1, <3>1, <1>3
    <2>2. CASE request'[q] # request[q]
      <3>1. PICK r \in Requests, k \in Keys : QueueRead(r, k)
        BY <2>2, <1>t DEF OutboxTypes, RequestsAct, ListenerCommits, EventCommits,
                          QueueCommits, QueueConflicts, RequestDies, NoRequest
      <3>2. request'[q].key = k /\ status[k] # "none"
        BY <2>2, <3>1, <1>t DEF OutboxTypes, QueueRead
      <3>3. QED
        BY <3>1, <3>2, <1>3
    <2>3. QED
      BY <2>1, <2>2
  <1>9. QED
    BY <1>t, <1>5, <1>6, <1>7, <1>8 DEF IInv

-------------------------------------------------------------------------------
(* The workers.  A worker picks rows nobody has.                           *)
LEMMA PickStep ==
    ASSUME IInv, NEW w \in Workers, Pick(w) PROVE IInv'
  <1>t. OutboxTypes
    BY DEF IInv
  <1>1. PICK batch \in Batches : worker' = [worker EXCEPT ![w].todo = batch]
    BY DEF Pick
  <1>2. batch \subseteq Due /\ Cardinality(batch) <= Limit
    BY BatchesOfDue
  <1>3. batch \subseteq Keys /\ \A k \in batch : status[k] = "queued" /\ k \notin Locked
    BY <1>2 DEF Due, Deliverable
  <1>4. OutboxTypes'
    BY <1>t, <1>1, <1>3 DEF Pick, OutboxTypes
  <1>5. /\ worker'[w].todo = batch /\ worker'[w].sent = {} /\ worker'[w].failed = {}
        /\ \A v \in Workers \ {w} : worker'[v] = worker[v]
    BY <1>t, <1>1 DEF Pick, OutboxTypes, NoBatch
  <1>6. Batch(w)' = batch /\ \A v \in Workers \ {w} : Batch(v)' = Batch(v)
    BY <1>5 DEF Batch
  <1>7. worker[w].sent = {} /\ worker[w].failed = {}
    BY DEF Pick, NoBatch
  <1>8. UNCHANGED <<status, mailed, crashes, request>>
    BY DEF Pick
  <1>9. BatchesSmall'
    BY <1>2, <1>6 DEF IInv, BatchesSmall
  <1>10. BatchesLocked'
    <2>1. \A v \in Workers \ {w} : Batch(v) \cap batch = {}
      BY <1>3 DEF Locked
    <2>2. \A v, x \in Workers : v # x => Batch(v)' \cap Batch(x)' = {}
      BY <1>6, <2>1 DEF IInv, BatchesLocked
    <2>3. \A v \in Workers : \A k \in Batch(v)' : status'[k] = "queued"
      BY <1>3, <1>6, <1>8 DEF IInv, BatchesLocked
    <2>4. \A v \in Workers :
              worker'[v].todo \cap (worker'[v].sent \cup worker'[v].failed) = {}
      BY <1>5 DEF IInv, BatchesLocked
    <2>5. QED
      BY <2>2, <2>3, <2>4 DEF BatchesLocked
  <1>11. MailedCounted' /\ AcceptedIfSent'
    BY <1>5, <1>7, <1>8 DEF IInv, MailedCounted, AcceptedIfSent, Attempted
  <1>12. SeenRowsStay'
    BY <1>8 DEF IInv, SeenRowsStay
  <1>13. QED
    BY <1>4, <1>9, <1>10, <1>11, <1>12 DEF IInv

(* A row on nobody's list of outcomes that is still queued was mailed once *)
(* for each crash at most; sending it leaves it attempted.                 *)
LEMMA SendStep ==
    ASSUME IInv, NEW w \in Workers, Send(w) PROVE IInv'
  <1>t. OutboxTypes
    BY DEF IInv
  <1>1. PICK k \in worker[w].todo, accepted, raised \in BOOLEAN :
            /\ accepted \/ raised
            /\ mailed' = [mailed EXCEPT ![k] = IF accepted /\ @ <= MaxCrashes + 1
                                               THEN @ + 1 ELSE @]
            /\ worker' = [worker EXCEPT
                    ![w].todo = @ \ {k},
                    ![w].sent = IF raised THEN @ ELSE @ \cup {k},
                    ![w].failed = IF raised THEN @ \cup {k} ELSE @]
    BY DEF Send
  <1>2. k \in Keys /\ k \in Batch(w)
    BY <1>t DEF OutboxTypes, Batch
  <1>3. UNCHANGED <<status, preference, happened, request, crashes>>
    BY DEF Send
  <1>4. /\ \A v \in Workers \ {w} : worker'[v] = worker[v]
        /\ worker'[w].todo = worker[w].todo \ {k}
        /\ worker'[w].sent = IF raised THEN worker[w].sent ELSE worker[w].sent \cup {k}
        /\ worker'[w].failed = IF raised THEN worker[w].failed \cup {k}
                               ELSE worker[w].failed
    BY <1>t, <1>1 DEF OutboxTypes
  <1>5. /\ mailed'[k] = IF accepted /\ mailed[k] <= MaxCrashes + 1
                        THEN mailed[k] + 1 ELSE mailed[k]
        /\ \A j \in Keys \ {k} : mailed'[j] = mailed[j]
    BY <1>t, <1>1, <1>2 DEF OutboxTypes
  <1>6. OutboxTypes'
    <2>1. mailed' \in [Keys -> 0..(MaxCrashes + 2)]
      BY <1>t, <1>1, <1>2, OutboxAssumption DEF OutboxTypes
    <2>2. worker' \in [Workers -> [todo : SUBSET Keys, sent : SUBSET Keys,
                                   failed : SUBSET Keys]]
      <3>1. worker[w] \in [todo : SUBSET Keys, sent : SUBSET Keys, failed : SUBSET Keys]
        BY <1>t DEF OutboxTypes
      <3>2. CASE raised
        BY <1>t, <1>1, <1>2, <3>1, <3>2 DEF OutboxTypes
      <3>3. CASE ~raised
        BY <1>t, <1>1, <1>2, <3>1, <3>3 DEF OutboxTypes
      <3>4. QED
        BY <3>2, <3>3
    <2>3. QED
      BY <1>t, <1>3, <2>1, <2>2 DEF OutboxTypes
  <1>7. \A v \in Workers : Batch(v)' = Batch(v)
    <2>1. Batch(w)' = Batch(w)
      <3>1. k \in worker[w].todo
        BY <1>1
      <3>2. CASE raised
        BY <1>4, <3>1, <3>2, Zenon DEF Batch
      <3>3. CASE ~raised
        BY <1>4, <3>1, <3>3, Zenon DEF Batch
      <3>4. QED
        BY <3>2, <3>3
    <2>2. QED
      BY <1>4, <2>1 DEF Batch
  <1>8. BatchesSmall'
    BY <1>7 DEF IInv, BatchesSmall
  <1>9. BatchesLocked'
    <2>1. \A v \in Workers :
              worker'[v].todo \cap (worker'[v].sent \cup worker'[v].failed) = {}
      BY <1>4 DEF IInv, BatchesLocked
    <2>2. QED
      BY <1>3, <1>7, <2>1 DEF IInv, BatchesLocked
  <1>10. ~Attempted(k)
    BY <1>2 DEF IInv, BatchesLocked, Batch, Attempted
  <1>11. Attempted(k)' /\ \A j \in Keys \ {k} : Attempted(j)' <=> Attempted(j)
    BY <1>3, <1>4 DEF Attempted
  <1>12. mailed[k] \in Nat /\ mailed[k] <= crashes /\ crashes \in Nat /\ crashes <= MaxCrashes
    BY <1>t, <1>2, <1>10, OutboxAssumption DEF IInv, MailedCounted, OutboxTypes
  <1>13. MailedCounted'
    <2>1. mailed'[k] <= crashes' + 1
      BY <1>3, <1>5, <1>12
    <2>2. \A j \in Keys \ {k} : mailed'[j] <= IF Attempted(j)' THEN crashes' + 1 ELSE crashes'
      BY <1>3, <1>5, <1>11 DEF IInv, MailedCounted
    <2>3. QED
      BY <1>11, <2>1, <2>2 DEF MailedCounted
  <1>14. AcceptedIfSent'
    <2>1. accepted => mailed'[k] >= 1
      BY <1>5, <1>12, OutboxAssumption
    <2>2. status[k] = "queued" /\ \A v \in Workers : k \notin worker[v].sent
      BY <1>2, <1>10 DEF IInv, BatchesLocked, Attempted
    <2>3. raised \/ accepted
      BY <1>1
    <2>4. \A j \in Keys : status'[j] = "sent" \/ (\E v \in Workers : j \in worker'[v].sent)
                          => mailed'[j] >= 1
      BY <1>3, <1>4, <1>5, <2>1, <2>2, <2>3 DEF IInv, AcceptedIfSent
    <2>5. QED
      BY <2>4 DEF AcceptedIfSent
  <1>15. SeenRowsStay'
    BY <1>3 DEF IInv, SeenRowsStay
  <1>16. QED
    BY <1>6, <1>8, <1>9, <1>13, <1>14, <1>15 DEF IInv

(* The commit turns what the worker has learnt into what the rows say.     *)
LEMMA CommitStep ==
    ASSUME IInv, NEW w \in Workers, Commit(w) PROVE IInv'
  <1>t. OutboxTypes
    BY DEF IInv
  <1>1. /\ status' = Outcome(w)
        /\ worker' = [worker EXCEPT ![w] = NoBatch]
        /\ UNCHANGED <<preference, happened, request, mailed, crashes>>
    BY DEF Commit
  <1>2. worker'[w] = NoBatch /\ \A v \in Workers \ {w} : worker'[v] = worker[v]
    BY <1>t, <1>1 DEF OutboxTypes
  <1>3. Batch(w) = worker[w].sent \cup worker[w].failed
    BY DEF Commit, Batch
  <1>4. \A k \in Keys : status'[k] = IF k \in worker[w].sent THEN "sent"
                                     ELSE IF k \in worker[w].failed THEN "failed"
                                     ELSE status[k]
    BY <1>1 DEF Outcome
  <1>5. OutboxTypes'
    <2>1. status' \in [Keys -> Statuses]
      BY <1>t, <1>1 DEF OutboxTypes, Outcome, Statuses
    <2>2. worker' \in [Workers -> [todo : SUBSET Keys, sent : SUBSET Keys,
                                   failed : SUBSET Keys]]
      BY <1>t, <1>1 DEF OutboxTypes, NoBatch
    <2>3. QED
      BY <1>t, <1>1, <2>1, <2>2 DEF OutboxTypes
  <1>6. Batch(w)' = {} /\ \A v \in Workers \ {w} : Batch(v)' = Batch(v)
    BY <1>2 DEF Batch, NoBatch
  <1>7. BatchesSmall'
    BY <1>6, FS_EmptySet, OutboxAssumption DEF IInv, BatchesSmall
  <1>8. BatchesLocked'
    <2>1. \A v \in Workers \ {w} : \A k \in Batch(v) : k \in Keys /\ k \notin Batch(w)
      BY <1>t DEF IInv, BatchesLocked, OutboxTypes, Batch
    <2>2. \A v \in Workers : \A k \in Batch(v)' : status'[k] = "queued"
      BY <1>3, <1>4, <1>6, <2>1 DEF IInv, BatchesLocked
    <2>3. \A v, x \in Workers : v # x => Batch(v)' \cap Batch(x)' = {}
      BY <1>6 DEF IInv, BatchesLocked
    <2>4. \A v \in Workers :
              worker'[v].todo \cap (worker'[v].sent \cup worker'[v].failed) = {}
      BY <1>2 DEF IInv, BatchesLocked, NoBatch
    <2>5. QED
      BY <2>2, <2>3, <2>4 DEF BatchesLocked
  <1>9. \A k \in Keys : Attempted(k)' <=> Attempted(k)
    BY <1>2, <1>4 DEF Attempted, NoBatch
  <1>10. MailedCounted'
    BY <1>1, <1>9 DEF IInv, MailedCounted
  <1>11. AcceptedIfSent'
    BY <1>1, <1>2, <1>4 DEF IInv, AcceptedIfSent, NoBatch
  <1>12. SeenRowsStay'
    <2>1. \A k \in Keys : status[k] # "none" => status'[k] # "none"
      BY <1>4
    <2>2. QED
      BY <1>t, <1>1, <2>1 DEF IInv, SeenRowsStay, OutboxTypes
  <1>13. QED
    BY <1>5, <1>7, <1>8, <1>10, <1>11, <1>12 DEF IInv

(* A worker that dies leaves its rows queued, each mailed once more than   *)
(* there had been crashes before.                                          *)
LEMMA WorkerDiesStep ==
    ASSUME IInv, NEW w \in Workers, WorkerDies(w) PROVE IInv'
  <1>t. OutboxTypes
    BY DEF IInv
  <1>1. /\ crashes < MaxCrashes /\ crashes' = crashes + 1
        /\ worker' = [worker EXCEPT ![w] = NoBatch]
        /\ UNCHANGED <<status, preference, happened, request, mailed>>
    BY DEF WorkerDies
  <1>2. worker'[w] = NoBatch /\ \A v \in Workers \ {w} : worker'[v] = worker[v]
    BY <1>t, <1>1 DEF OutboxTypes
  <1>3. OutboxTypes'
    <2>1. worker' \in [Workers -> [todo : SUBSET Keys, sent : SUBSET Keys,
                                   failed : SUBSET Keys]]
      BY <1>t, <1>1 DEF OutboxTypes, NoBatch
    <2>2. QED
      BY <1>t, <1>1, <2>1, OutboxAssumption DEF OutboxTypes
  <1>4. Batch(w)' = {} /\ \A v \in Workers \ {w} : Batch(v)' = Batch(v)
    BY <1>2 DEF Batch, NoBatch
  <1>5. BatchesSmall'
    BY <1>4, FS_EmptySet, OutboxAssumption DEF IInv, BatchesSmall
  <1>6. BatchesLocked'
    <2>1. \A v, x \in Workers : v # x => Batch(v)' \cap Batch(x)' = {}
      BY <1>4 DEF IInv, BatchesLocked
    <2>2. \A v \in Workers :
              worker'[v].todo \cap (worker'[v].sent \cup worker'[v].failed) = {}
      BY <1>2 DEF IInv, BatchesLocked, NoBatch
    <2>3. QED
      BY <1>1, <1>4, <2>1, <2>2 DEF IInv, BatchesLocked
  <1>7. MailedCounted'
    <2>1. \A k \in Keys : Attempted(k)' => Attempted(k)
      BY <1>1, <1>2 DEF Attempted, NoBatch
    <2>2. \A k \in Keys : mailed[k] \in Nat /\ crashes \in Nat /\ mailed[k] <= crashes + 1
      BY <1>t, OutboxAssumption DEF IInv, MailedCounted, OutboxTypes
    <2>3. QED
      BY <1>1, <2>1, <2>2 DEF MailedCounted
  <1>8. AcceptedIfSent'
    BY <1>1, <1>2 DEF IInv, AcceptedIfSent, NoBatch
  <1>9. SeenRowsStay'
    BY <1>1 DEF IInv, SeenRowsStay
  <1>10. QED
    BY <1>3, <1>5, <1>6, <1>7, <1>8, <1>9 DEF IInv

-------------------------------------------------------------------------------
(* Every step keeps the invariant.                                         *)
LEMMA InvariantStep == IInv /\ [Next]_vars => IInv'
  <1> SUFFICES ASSUME IInv, [Next]_vars PROVE IInv'
    OBVIOUS
  <1>1. CASE RequestsAct
    BY <1>1, RequestsStep
  <1>2. CASE \E w \in Workers : Work(w) \/ WorkerDies(w)
    BY <1>2, PickStep, SendStep, CommitStep, WorkerDiesStep DEF Work
  <1>3. CASE UNCHANGED vars
    BY <1>3 DEF IInv, vars, OutboxTypes, BatchesSmall, BatchesLocked, Batch, MailedCounted,
                Attempted, AcceptedIfSent, SeenRowsStay
  <1>4. QED
    BY <1>1, <1>2, <1>3 DEF Next, RequestsAct

(* The invariant holds in every reachable state.                           *)
THEOREM OutboxInvariant == Spec => []IInv
  BY InitInvariant, InvariantStep, PTL DEF Spec

(* TypeOK for every instance: in particular no worker ever holds more rows *)
(* than it may pick.                                                       *)
THEOREM OutboxTypeCorrect == Spec => []TypeOK
  <1>1. IInv => TypeOK
    BY DEF IInv, OutboxTypes, BatchesSmall, TypeOK
  <1>2. QED
    BY <1>1, OutboxInvariant, PTL

(* MailedOncePerLife for every instance: an e-mail goes out once, and once *)
(* more for each process that has died, however many workers there are.    *)
THEOREM NoDuplicateMail == Spec => []MailedOncePerLife
  <1>1. IInv => MailedOncePerLife
    <2> SUFFICES ASSUME IInv, NEW k \in Keys PROVE mailed[k] <= 1 + crashes
      BY DEF MailedOncePerLife
    <2>1. mailed[k] \in Nat /\ crashes \in Nat
      BY OutboxAssumption DEF IInv, OutboxTypes
    <2>2. QED
      BY <2>1 DEF IInv, MailedCounted
  <1>2. QED
    BY <1>1, OutboxInvariant, PTL

(* SentWasMailed for every instance: no row is called sent unless the SMTP *)
(* server has accepted its e-mail.                                         *)
THEOREM SentMeansAccepted == Spec => []SentWasMailed
  <1>1. IInv => SentWasMailed
    BY DEF IInv, AcceptedIfSent, SentWasMailed
  <1>2. QED
    BY <1>1, OutboxInvariant, PTL

(* EventHasMail for every instance: an event is committed with its row, or *)
(* with a request that is going to write it, or to somebody who wants none.*)
THEOREM NoEventWithoutMail == Spec => EventHasMail
  <1> DEFINE Accounted(k) ==
        \/ preference = "off" \/ status'[k] # "none"
        \/ \E r \in Requests :
               request'[r] = [stage |-> "after", key |-> k, saw |-> FALSE]
  <1>1. IInv /\ [Next]_vars => \A k \in happened' \ happened : Accounted(k)
    <2> SUFFICES ASSUME IInv, [Next]_vars, NEW k \in happened' \ happened PROVE Accounted(k)
      OBVIOUS
    <2>t. OutboxTypes /\ k \in Keys
      BY InvariantStep DEF IInv, OutboxTypes
    <2>1. CASE ListenerCommits(k)
      BY <2>1, <2>t DEF ListenerCommits, InsertWanted, Enabled, Insert, OutboxTypes
    <2>2. ASSUME NEW r \in Requests, EventCommits(r, k) PROVE Accounted(k)
      BY <2>2, <2>t DEF EventCommits, OutboxTypes
    <2>3. ASSUME NEW r \in Requests, QueueCommits(r), request[r].key = k PROVE Accounted(k)
      <3>1. k \in Keys /\ request[r].stage = "read"
        BY <2>3, <2>t DEF QueueCommits, OutboxTypes
      <3>2. CASE request[r].saw
        <4>1. status[k] # "none"
          BY <2>3, <3>1, <3>2 DEF IInv, SeenRowsStay
        <4>2. QED
          BY <2>3, <3>1, <3>2, <4>1, <2>t DEF QueueCommits, InsertWanted
      <3>3. CASE ~request[r].saw
        BY <2>3, <3>1, <3>3, <2>t
           DEF QueueCommits, Conflict, InsertWanted, Enabled, Insert, OutboxTypes
      <3>4. QED
        BY <3>2, <3>3, <3>1, <2>t DEF OutboxTypes
    <2>4. \/ ListenerCommits(k)
          \/ \E r \in Requests : EventCommits(r, k)
          \/ \E r \in Requests : QueueCommits(r) /\ request[r].key = k
      <3>1. happened' # happened /\ k \notin happened
        OBVIOUS
      <3>2. CASE \E j \in Keys : ListenerCommits(j)
        BY <3>1, <3>2 DEF ListenerCommits
      <3>3. CASE \E r \in Requests, j \in Keys : EventCommits(r, j)
        BY <3>1, <3>3 DEF EventCommits
      <3>4. CASE \E r \in Requests : QueueCommits(r)
        BY <3>1, <3>4 DEF QueueCommits
      <3>5. QED
        BY <3>1, <3>2, <3>3, <3>4
           DEF Next, vars, QueueRead, QueueConflicts, RequestDies, Work, Pick, Send, Commit,
               WorkerDies
    <2>5. QED
      BY <2>1, <2>2, <2>3, <2>4
  <1>2. QED
    BY <1>1, OutboxInvariant, PTL DEF Spec, EventHasMail
===============================================================================
