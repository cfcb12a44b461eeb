-------------------------------- MODULE Outbox --------------------------------
(***************************************************************************)
(* The notification outbox: handlers write e-mails as rows, in the         *)
(* transaction of the event they report ("inside"), from an ORM listener   *)
(* of that transaction ("listener"), or in a transaction of their own after*)
(* it ("after": a host's missed deadline, a submitted payment).  Worker    *)
(* processes pick queued rows, send them and record the outcome of the     *)
(* whole batch in one commit.                                              *)
(***************************************************************************)
EXTENDS Naturals, FiniteSets, FiniteSetsExt

CONSTANTS
    Keys,           \* deduplication keys: one e-mail about one event each
    Kind,           \* how each key's row is written: "inside", "listener", "after"
    Requests,       \* concurrent requests writing rows
    Workers,        \* delivering processes
    Limit,          \* rows a worker picks at once (25 in the code)
    MaxCrashes      \* bound: processes that die

ASSUME OutboxAssumption ==
    /\ Kind \in [Keys -> {"inside", "listener", "after"}]
    /\ IsFiniteSet(Keys)
    /\ Limit \in Nat \ {0} /\ MaxCrashes \in Nat

VARIABLES
    status,         \* notification_outbox: status of each key's row
    preference,     \* the recipient's setting for the category of these keys
    happened,       \* events that are committed
    request,        \* each request: [stage, key, saw]
    worker,         \* each worker: rows to send, sent and failed; all locked
    mailed,         \* e-mails the SMTP server accepted for each key
    crashes

vars == <<status, preference, happened, request, worker, mailed, crashes>>
delivery == <<worker, mailed>>

NoRequest == [stage |-> "idle", key |-> "none", saw |-> FALSE]
NoBatch == [todo |-> {}, sent |-> {}, failed |-> {}]
Batch(w) == worker[w].todo \cup worker[w].sent \cup worker[w].failed
Statuses == {"none", "queued", "sent", "failed"}

TypeOK ==
    /\ status \in [Keys -> Statuses]
    /\ \A w \in Workers : Cardinality(Batch(w)) <= Limit
    /\ happened \subseteq Keys
    /\ \A k \in Keys : mailed[k] \in 0..(MaxCrashes + 2)

Init ==
    /\ status = [k \in Keys |-> "none"]
    /\ preference \in {"unset", "on", "off"}
    /\ happened = {}
    /\ request = [r \in Requests |-> NoRequest]
    /\ worker = [w \in Workers |-> NoBatch]
    /\ mailed = [k \in Keys |-> 0]
    /\ crashes = 0

-------------------------------------------------------------------------------
(* Writing rows.                                                           *)

EnabledIfOn == preference = "on"                \* a missing row taken for "off"
Enabled == preference # "off"

Insert(k) == status' = [status EXCEPT ![k] = "queued"]

InsertWanted(k, saw) == IF ~saw /\ Enabled THEN Insert(k) ELSE UNCHANGED status

(* The listener's insert does nothing on conflict.                         *)
ListenerCommits(k) ==
    /\ Kind[k] = "listener" /\ k \notin happened
    /\ happened' = happened \cup {k}
    /\ InsertWanted(k, status[k] # "none")
    /\ UNCHANGED <<preference, request, delivery, crashes>>

EventCommits(r, k) ==
    /\ Kind[k] = "after" /\ request[r] = NoRequest
    /\ happened' = happened \cup {k}
    /\ request' = [request EXCEPT ![r] = [stage |-> "after", key |-> k, saw |-> FALSE]]
    /\ UNCHANGED <<status, preference, delivery, crashes>>

(* queue_email: is the key there?                                          *)
QueueRead(r, k) ==
    /\ \/ Kind[k] = "inside" /\ request[r] = NoRequest /\ k \notin happened
       \/ request[r].stage = "after" /\ request[r].key = k
    /\ request' = [request EXCEPT ![r] = [stage |-> "read", key |-> k,
                                          saw |-> status[k] # "none"]]
    /\ UNCHANGED <<status, preference, happened, delivery, crashes>>

(* ... and the commit, which the unique key refuses if it has come to be   *)
(* there since: the event of an "inside" key is rolled back with it.       *)
NoConflict(r) == request[r] = NoRequest         \* without the unique constraint
Conflict(r) == LET k == request[r].key IN
               ~request[r].saw /\ Enabled /\ status[k] # "none"

QueueCommits(r) ==
    /\ request[r].stage = "read" /\ ~Conflict(r)
    /\ InsertWanted(request[r].key, request[r].saw)
    /\ happened' = happened \cup {request[r].key}
    /\ request' = [request EXCEPT ![r] = NoRequest]
    /\ UNCHANGED <<preference, delivery, crashes>>

QueueConflicts(r) ==
    /\ request[r].stage = "read" /\ Conflict(r)
    /\ request' = [request EXCEPT ![r] = NoRequest]
    /\ UNCHANGED <<status, preference, happened, delivery, crashes>>

RequestDies(r) ==
    /\ request[r] # NoRequest /\ crashes < MaxCrashes
    /\ crashes' = crashes + 1
    /\ request' = [request EXCEPT ![r] = NoRequest]
    /\ UNCHANGED <<status, preference, happened, delivery>>

-------------------------------------------------------------------------------
(* deliver_queued: up to Limit queued rows not locked by another worker.   *)
(* (The code takes the oldest; no property depends on which.)              *)

NoneLocked == {}                                \* without FOR UPDATE
Locked == UNION {Batch(w) : w \in Workers}
Deliverable(k) == status[k] = "queued"
Due == {k \in Keys : Deliverable(k) /\ k \notin Locked}
Batches == kSubset(Min({Limit, Cardinality(Due)}), Due)

Pick(w) ==
    /\ worker[w] = NoBatch /\ Due # {}
    /\ \E batch \in Batches : worker' = [worker EXCEPT ![w].todo = batch]
    /\ UNCHANGED <<status, preference, happened, request, mailed, crashes>>

(* The SMTP conversation: a failure may come after the server has accepted.*)
Send(w) ==
    /\ \E k \in worker[w].todo, accepted, raised \in BOOLEAN :
        /\ accepted \/ raised
        /\ mailed' = [mailed EXCEPT ![k] = IF accepted /\ @ <= MaxCrashes + 1 THEN @ + 1 ELSE @]
        /\ worker' = [worker EXCEPT
                ![w].todo = @ \ {k},
                ![w].sent = IF raised THEN @ ELSE @ \cup {k},
                ![w].failed = IF raised THEN @ \cup {k} ELSE @]
    /\ UNCHANGED <<status, preference, happened, request, crashes>>

AllSent(w) == [k \in Keys |-> IF k \in Batch(w) THEN "sent" ELSE status[k]]
Unwritten(w) == status                          \* without the commit
Outcome(w) == [k \in Keys |-> IF k \in worker[w].sent THEN "sent"
                              ELSE IF k \in worker[w].failed THEN "failed" ELSE status[k]]

Commit(w) ==
    /\ worker[w].todo = {} /\ worker[w] # NoBatch
    /\ status' = Outcome(w)
    /\ worker' = [worker EXCEPT ![w] = NoBatch]
    /\ UNCHANGED <<preference, happened, request, mailed, crashes>>

(* The process dies and is restarted; its locks are released.              *)
WorkerDies(w) ==
    /\ worker[w] # NoBatch /\ crashes < MaxCrashes
    /\ crashes' = crashes + 1
    /\ worker' = [worker EXCEPT ![w] = NoBatch]
    /\ UNCHANGED <<status, preference, happened, request, mailed>>

Work(w) == Pick(w) \/ Send(w) \/ Commit(w)

Next ==
    \/ \E k \in Keys : \/ ListenerCommits(k)
                       \/ \E r \in Requests : EventCommits(r, k) \/ QueueRead(r, k)
    \/ \E r \in Requests : QueueCommits(r) \/ QueueConflicts(r) \/ RequestDies(r)
    \/ \E w \in Workers : Work(w) \/ WorkerDies(w)

Spec == Init /\ [][Next]_vars

(* A worker polls for ever and docker restarts it when it has died.        *)
FairSpec == Spec /\ \A w \in Workers : WF_vars(Work(w))

-------------------------------------------------------------------------------
(* Safety: an e-mail goes out once, and once more only for a process that  *)
(* died between the SMTP server's answer and the commit, however many      *)
(* workers share the outbox.                                               *)
MailedOncePerLife == \A k \in Keys : mailed[k] <= 1 + crashes

(* Safety: what the outbox calls sent, the SMTP server has accepted.       *)
SentWasMailed == \A k \in Keys : status[k] = "sent" => mailed[k] >= 1

(* Action property: no event goes by without its e-mail unless the         *)
(* recipient has turned its category off; only the row of an "after" event *)
(* may come later, or be lost with the request that was to write it.       *)
EventHasMail ==
    [][\A k \in happened' \ happened :
           \/ preference = "off" \/ status'[k] # "none"
           \/ \E r \in Requests : request'[r] = [stage |-> "after", key |-> k, saw |-> FALSE]]_vars

(* Liveness: a queued e-mail is sent or given up.                          *)
QueuedIsSettled == \A k \in Keys : status[k] = "queued" ~> status[k] # "queued"
===============================================================================
