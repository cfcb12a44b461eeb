------------------------------ MODULE Migrations ------------------------------
(***************************************************************************)
(* The database schema between releases: the chain of alembic revisions,   *)
(* and ops/deploy-backend.sh, by which a push reaches the server: the tree *)
(* is replaced, an image built from it, the schema upgraded while the old  *)
(* release is still serving, the demonstration listings are archived and   *)
(* the image is started; with the mail settings written, it is built and   *)
(* started again, from the tree there is by then.  A deployment that is    *)
(* cancelled may go on while the next one runs; tree and image are shared, *)
(* and any deployment may die.                                             *)
(*                                                                         *)
(* alembic runs all pending revisions in one transaction, each with its DDL*)
(* and an UPDATE of the stamp in alembic_version.                          *)
(***************************************************************************)
EXTENDS Naturals, FiniteSets

CONSTANTS
    Deployments,    \* deployments that may run at a time
    Releases,       \* what is pushed, each by the head of its revisions
    MaxCrashes,     \* bound: deployments that die
    MaxDowngrades   \* bound: revisions an operator takes back

(* 0001 to 0009; the two that were once both 0010; 0011.                   *)
Launch == 10
Market == 11
Head == 12
Revisions == 1..Head

ASSUME MigrationsAssumption ==
    /\ Releases \subseteq Revisions /\ Head \in Releases
    /\ MaxCrashes \in Nat /\ MaxDowngrades \in Nat

VARIABLES
    version,        \* the stamp, 0: none
    schema,         \* what is there, by the revision that is to create it
    overlap,        \* do active bookings overlap?
    demo,           \* the demonstration listings of older deployments
    tree,           \* the release whose source is on the server
    image,          \* the one the image was last built from
    release,        \* the one that serves
    deploy,         \* each deployment
    startedFrom,    \* history: who built what serves: "before", "own", "other"
    twin,           \* history: was 0010 stamped by the other file of that name?
    crashes, downgrades

server == <<tree, image, release, startedFrom>>
others == <<overlap, demo, twin, crashes, downgrades>>
vars == <<version, schema, server, deploy, others>>

(* What each revision creates and its downgrade drops: tables, or columns, *)
(* keys and indexes of a table that is there.                              *)
Core == {"users", "refresh_tokens", "vehicles", "parking_spaces", "parking_space_images",
         "availability_rules", "availability_blocks", "bookings", "booking_events"}
Overlap == {"bookings_no_active_overlap"}
Owner == {"owner", "owner_key", "owner_index"}
Price == {"price_override_cents"}
Payments == {"host_payment_accounts", "payments", "payment_webhook_events"}
Trust == {"verification_requests", "safety_reports", "notification_outbox"}
Accounts == {"notification_preferences", "password_reset_tokens", "admin_audit_logs"}
Direct == {"host_direct_payment_settings", "submission_columns"}
LaunchOps == {"host_subscriptions", "receipt_columns", "deadline_column", "refund_column"}
Media == {"profile_image", "image_review", "reviews", "review_indexes"}
UserBlocks == {"user_blocks"}

(* 0004 repeats what 0003 should have done.                                *)
Objects(r) == CASE r = 1 -> Core         [] r = 2 -> Overlap
                [] r \in {3, 4} -> Owner [] r = 5 -> Price
                [] r = 6 -> Payments     [] r = 7 -> Trust
                [] r = 8 -> Accounts     [] r = 9 -> Direct
                [] r = Launch -> LaunchOps [] r = Market -> Media
                [] r = Head -> UserBlocks  [] OTHER -> {}
(* The tables it alters or refers to.                                      *)
Needs(r) == CASE r = 1 -> {}
              [] r \in {2, 6, 7} -> {"users", "bookings", "parking_spaces"}
              [] r \in {3, 4} -> {"parking_spaces", "users"}
              [] r = 5 -> {"availability_rules"}
              [] r \in {9, Launch} -> {"users", "payments"}
              [] r = Market -> {"users", "bookings", "parking_spaces", "parking_space_images"}
              [] OTHER -> {"users"}
Created(v) == UNION {Objects(r) : r \in 1..v}

(* Revisions that look first what is there.                                *)
Guarded == {3, 4, 5, Market}

Idle == [pc |-> "idle", brought |-> 0, head |-> 0, base |-> 0, at |-> 0,
         saw |-> {}, made |-> {}]

TypeOK ==
    /\ version \in 0..Head /\ schema \subseteq Created(Head)
    /\ overlap \in BOOLEAN /\ twin \in BOOLEAN
    /\ demo \in {"none", "active", "archived"}
    /\ {tree, image, release} \subseteq 0..Head
    /\ startedFrom \in {"before", "own", "other"}
    /\ \A d \in Deployments :
        /\ deploy[d].pc \in {"idle", "build", "upgrade", "inspect", "apply", "archive",
                             "start", "restart"}
        /\ {deploy[d].brought, deploy[d].head, deploy[d].base, deploy[d].at}
                \subseteq 0..Head
        /\ deploy[d].made \subseteq Created(Head)
    /\ crashes \in 0..MaxCrashes /\ downgrades \in 0..MaxDowngrades

(* Databases there are: those an earlier release left at some revision;    *)
(* those whose 0001 created what the models of its day had, and 0003 may   *)
(* have missed; and those stamped 0010 by either file of that name.        *)
Whole(s) == /\ s \cap {"owner_key", "owner_index"} # {} => "owner" \in s
            /\ "review_indexes" \in s => "reviews" \in s
Legacy ==
    {[version |-> v, schema |-> Created(v)] : v \in 0..Head}
    \cup {[version |-> v, schema |-> Created(IF v = 3 THEN 2 ELSE v) \cup s] :
            v \in 1..3, s \in SUBSET (Owner \cup Price)}
    \cup {[version |-> Launch, schema |-> Created(Launch) \cup s] : s \in SUBSET Media}
    \cup {[version |-> Launch, schema |-> Created(9) \cup Media]}

Init ==
    /\ \E database \in Legacy :
        /\ Whole(database.schema)
        /\ version = database.version /\ schema = database.schema
        /\ twin = (version = Launch /\ ~(LaunchOps \subseteq schema))
    /\ overlap = FALSE
    /\ demo \in IF version = 0 THEN {"none"} ELSE {"none", "active"}
    /\ tree = version /\ image = version /\ release = version
    /\ startedFrom = "before"
    /\ deploy = [d \in Deployments |-> Idle]
    /\ crashes = 0 /\ downgrades = 0

-------------------------------------------------------------------------------
(* A push carries the main branch, which only moves forward, and the image *)
(* is built from what is there by then.                                    *)
At(d, pc) == deploy[d].pc = pc

Push(d) ==
    /\ At(d, "idle")
    /\ \E r \in Releases :
        /\ r >= tree /\ tree' = r
        /\ deploy' = [deploy EXCEPT ![d] = [Idle EXCEPT !.pc = "build", !.brought = r]]
    /\ UNCHANGED <<version, schema, image, release, startedFrom, others>>

ReusedImage == image
BuiltImage == tree
Build(d) ==
    /\ At(d, "build")
    /\ image' = BuiltImage
    /\ deploy' = [deploy EXCEPT ![d].pc = "upgrade"]
    /\ UNCHANGED <<version, schema, tree, release, startedFrom, others>>

-------------------------------------------------------------------------------
(* alembic upgrade heads, in the image there is.                           *)

Visible(d) == schema \cup deploy[d].made
Pending(d) == deploy[d].at + 1
(* What another has done and not committed, the stamp at least, is locked. *)
Working(d) == At(d, "inspect") \/ At(d, "apply")
LockedBy(d) == Working(d) /\ deploy[d].at # deploy[d].base
Waits(d) == \E c \in Deployments \ {d} : LockedBy(c)

(* A stamp that the image's revisions do not have cannot be located.       *)
Begin(d) ==
    /\ At(d, "upgrade")
    /\ deploy' = IF version <= image
                 THEN [deploy EXCEPT ![d].pc = "inspect", ![d].head = image,
                                     ![d].base = version, ![d].at = version]
                 ELSE [deploy EXCEPT ![d] = Idle]
    /\ UNCHANGED <<version, schema, server, others>>

Inspect(d) ==
    /\ At(d, "inspect") /\ deploy[d].at < deploy[d].head
    /\ deploy' = [deploy EXCEPT ![d].pc = "apply", ![d].saw = Visible(d)]
    /\ UNCHANGED <<version, schema, server, others>>

AllOfThem(d) == Objects(Pending(d))
Needed(d) == IF Pending(d) \in Guarded THEN Objects(Pending(d)) \ deploy[d].saw
             ELSE Objects(Pending(d))
(* The stamp is still the one the transaction started from, nothing exists *)
(* twice, the tables referred to are there, and the exclusion constraint   *)
(* holds for the bookings there are.                                       *)
Applies(d) == /\ version = deploy[d].base
              /\ Needed(d) \cap Visible(d) = {}
              /\ Needs(Pending(d)) \subseteq Visible(d)
              /\ Pending(d) = 2 => ~overlap

AutoCommitted(d) == schema \cup Needed(d)
InTransaction(d) == schema

ApplyRevision(d) ==
    /\ At(d, "apply") /\ ~Waits(d)
    /\ IF Applies(d)
       THEN /\ deploy' = [deploy EXCEPT ![d].pc = "inspect", ![d].at = @ + 1,
                                        ![d].made = @ \cup Needed(d)]
            /\ schema' = InTransaction(d)
       ELSE deploy' = [deploy EXCEPT ![d] = Idle] /\ UNCHANGED schema
    /\ UNCHANGED <<version, server, others>>

(* Without a revision to apply there is nothing to commit.                 *)
Commit(d) ==
    /\ At(d, "inspect") /\ deploy[d].at = deploy[d].head
    /\ IF LockedBy(d) THEN version' = deploy[d].head /\ schema' = Visible(d)
                      ELSE UNCHANGED <<version, schema>>
    /\ deploy' = [deploy EXCEPT ![d].pc = "archive", ![d].made = {}]
    /\ UNCHANGED <<server, others>>

-------------------------------------------------------------------------------
(* The rest of the deployment.                                             *)
Archive(d) ==
    /\ At(d, "archive")
    /\ demo' = IF demo = "active" THEN "archived" ELSE demo
    /\ deploy' = [deploy EXCEPT ![d].pc = "start"]
    /\ UNCHANGED <<version, schema, server, overlap, twin, crashes, downgrades>>

BuiltBy(d, built) == IF built = deploy[d].brought THEN "own" ELSE "other"

(* docker compose up -d.                                                   *)
Start(d) ==
    /\ At(d, "start")
    /\ release' = image /\ startedFrom' = BuiltBy(d, image)
    /\ deploy' = [deploy EXCEPT ![d].pc = "restart"]
    /\ UNCHANGED <<version, schema, tree, image, others>>

(* docker compose up -d --build --force-recreate.                          *)
Restart(d) ==
    /\ At(d, "restart")
    /\ image' = tree /\ release' = tree /\ startedFrom' = BuiltBy(d, tree)
    /\ deploy' = [deploy EXCEPT ![d] = Idle]
    /\ UNCHANGED <<version, schema, tree, others>>

Crash(d) ==
    /\ ~At(d, "idle") /\ crashes < MaxCrashes
    /\ deploy' = [deploy EXCEPT ![d] = Idle]
    /\ crashes' = crashes + 1
    /\ UNCHANGED <<version, schema, server, overlap, demo, twin, downgrades>>

-------------------------------------------------------------------------------
(* An operator takes the last revision back, between deployments, and has  *)
(* the release before it serve.  0004 keeps what it repaired; 0001 drops   *)
(* its tables with every column they have, unless reviews refer to them;   *)
(* the unguarded ones fail if what they drop is not there.                 *)
Downgradable == version > 0 /\ (version = 1 => "reviews" \notin schema)
Columns == Owner \cup Price \cup {"profile_image", "image_review"}
Dropped == CASE version = 4 -> {}
             [] version = 1 -> Objects(1) \cup Columns
             [] OTHER -> Objects(version)

Downgrade ==
    /\ downgrades < MaxDowngrades /\ \A d \in Deployments : At(d, "idle")
    /\ Downgradable
    /\ version \in Guarded \cup {2} \/ Objects(version) \subseteq schema
    /\ version' = version - 1 /\ schema' = schema \ Dropped
    /\ release' = version'
    /\ downgrades' = downgrades + 1
    /\ UNCHANGED <<tree, image, startedFrom, overlap, demo, deploy, twin, crashes>>

(* Without the constraint two bookings may overlap; cancelling helps.      *)
BookingsOverlap == /\ Core \subseteq schema /\ ~(Overlap \subseteq schema)
                   /\ \A d \in Deployments : Overlap \cap deploy[d].made = {}
                   /\ overlap' = ~overlap
                   /\ UNCHANGED <<version, schema, demo, server, deploy, twin,
                                  crashes, downgrades>>

DeployStep(d) == \/ Push(d) \/ Build(d)
                 \/ Begin(d) \/ Inspect(d) \/ ApplyRevision(d) \/ Commit(d)
                 \/ Archive(d) \/ Start(d) \/ Restart(d)
Next == \/ \E d \in Deployments : DeployStep(d) \/ Crash(d)
        \/ Downgrade \/ BookingsOverlap

(* A deployment goes on unless it dies, and a failed one is repeated.      *)
FairSpec == /\ Init /\ [][Next]_vars
            /\ \A d \in Deployments : WF_vars(DeployStep(d))

-------------------------------------------------------------------------------
(* Safety: the stamp tells the schema, whatever died or ran at the same    *)
(* time: what the stamped revisions create is there and what later ones    *)
(* create is not.  Except what the mutable 0001 made early or 0003 missed, *)
(* and what the other file stamped 0010 left out: the head lacks it too.   *)
Exempt == (IF twin THEN LaunchOps ELSE {})
          \cup (IF version < 4 THEN Owner ELSE {})
          \cup (IF version < 5 THEN Price ELSE {})
          \cup (IF version < Market THEN Media ELSE {})
StampTellsSchema == schema \ Exempt = Created(version) \ Exempt

(* Safety: the release that serves finds the revisions it was written for, *)
(* and no demonstration listing once a deployment has started one.  Except *)
(* for what a deployment starts of the next one: it builds again from the  *)
(* tree there is, which a push may have replaced and not yet migrated to.  *)
NewReleaseServesHead == /\ release > version => startedFrom = "other"
                        /\ startedFrom # "before" => demo # "active"

(* Liveness: every database there is reaches the release that was pushed,  *)
(* unless and as long as active bookings overlap.                          *)
UpgradeReaches == []<>(version >= tree \/ overlap)
===============================================================================
