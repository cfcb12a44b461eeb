--------------------------- MODULE MigrationsProofs ---------------------------
(***************************************************************************)
(* What holds of the schema for any number of deployments that overlap, die*)
(* and are repeated, and of downgrades between them.                       *)
(***************************************************************************)
EXTENDS Migrations, TLAPS

(* What is created by a revision is created by one of the numbers up to it.*)
LEMMA InCreated ==
    ASSUME NEW v, NEW x
    PROVE  x \in Created(v) <=> \E r \in 1..v : x \in Objects(r)
  BY DEF Created

(* The chain, one revision at a time.                                      *)
LEMMA CreatedNext ==
    ASSUME NEW v \in 0..Head, v > 0
    PROVE  Created(v) = Created(v - 1) \cup Objects(v)
<1>1. 1..v = (1..(v - 1)) \cup {v}
  BY DEF Head
<1> QED
  BY <1>1, InCreated

(* Earlier revisions create a part of what later ones have.                *)
LEMMA CreatedGrows ==
    ASSUME NEW v \in 0..Head, NEW w \in 0..Head, v <= w
    PROVE  Created(v) \subseteq Created(w)
<1>1. 1..v \subseteq 1..w
  BY DEF Head
<1> QED
  BY <1>1, InCreated

(* Every revision of the chain is at most the head.                        *)
LEMMA ObjectsKnown ==
    ASSUME NEW r \in Revisions
    PROVE  Objects(r) \subseteq Created(Head)
  BY InCreated DEF Revisions

(* Only 0003 and 0004 create the same.                                     *)
LEMMA ObjectsDiffer ==
    ASSUME NEW r \in Revisions, NEW v \in Revisions, r # v, v \notin {3, 4}
    PROVE  Objects(r) \cap Objects(v) = {}
<1> USE DEF Objects, Core, Overlap, Owner, Price, Payments, Trust, Accounts, Direct, LaunchOps,
            Media, UserBlocks, Launch, Market, Head, Revisions
<1>1. CASE v = 1
  BY <1>1
<1>2. CASE v = 2
  BY <1>2
<1>3. CASE v = 5
  BY <1>3
<1>4. CASE v = 6
  BY <1>4
<1>5. CASE v = 7
  BY <1>5
<1>6. CASE v = 8
  BY <1>6
<1>7. CASE v = 9
  BY <1>7
<1>8. CASE v = 10
  BY <1>8
<1>9. CASE v = 11
  BY <1>9
<1>10. CASE v = 12
  BY <1>10
<1> QED
  BY <1>1, <1>2, <1>3, <1>4, <1>5, <1>6, <1>7, <1>8, <1>9, <1>10

(* The revisions the exceptions are about.                                 *)
LEMMA Named ==
    /\ Objects(3) = Owner /\ Objects(4) = Owner /\ Objects(5) = Price
    /\ Objects(Launch) = LaunchOps /\ Objects(Market) = Media
  BY DEF Objects, Launch, Market, Head

-------------------------------------------------------------------------------
(* The invariant.                                                          *)

DeployStates == [pc : {"idle", "build", "upgrade", "inspect", "apply", "archive", "start",
                       "restart"},
                 brought : 0..Head, head : 0..Head, base : 0..Head, at : 0..Head,
                 saw : SUBSET Created(Head), made : SUBSET Created(Head)]
Types == /\ version \in 0..Head /\ schema \subseteq Created(Head)
         /\ tree \in 0..Head /\ image \in 0..Head /\ release \in 0..Head
         /\ twin \in BOOLEAN
         /\ deploy \in [Deployments -> DeployStates]

(* A deployment at work started from a stamp that can only have grown.  If *)
(* it has changed nothing it has made nothing; if it has, it alone has, and*)
(* the stamp is the one it started from.                                   *)
BaseHolds ==
    \A d \in Deployments : Working(d) =>
        /\ deploy[d].base <= version /\ deploy[d].base <= deploy[d].at
        /\ deploy[d].at <= deploy[d].head
        /\ ~LockedBy(d) => deploy[d].made = {}
        /\ LockedBy(d) => version = deploy[d].base
        /\ deploy[d].made \subseteq Created(deploy[d].at)
OneAlters == \A c, d \in Deployments : LockedBy(c) /\ LockedBy(d) => c = d

(* What it has applied is there or made.                                   *)
MadeAll ==
    \A d \in Deployments : LockedBy(d) =>
        \A r \in (deploy[d].base + 1)..deploy[d].at : Objects(r) \subseteq Visible(d)

(* What a revision saw is still so, unless the stamp has moved.            *)
SawCurrent ==
    \A d \in Deployments : At(d, "apply") =>
        /\ deploy[d].at < deploy[d].head
        /\ version = deploy[d].base => deploy[d].saw = Visible(d)

(* What a deployment brought is in the tree, then in the image, then in the*)
(* revisions it applies, and then in the database; and once it has         *)
(* archived, no demonstration listing is active.                           *)
Upgraded ==
    /\ image <= tree
    /\ \A d \in Deployments :
        /\ At(d, "build") => deploy[d].brought <= tree /\ deploy[d].made = {}
        /\ At(d, "upgrade") => deploy[d].brought <= image /\ deploy[d].made = {}
        /\ Working(d) => deploy[d].brought <= deploy[d].head
        /\ At(d, "archive") \/ At(d, "start") \/ At(d, "restart") =>
              deploy[d].brought <= version
        /\ At(d, "start") \/ At(d, "restart") => demo # "active"

IInv == /\ Types /\ BaseHolds /\ OneAlters /\ MadeAll /\ SawCurrent /\ Upgraded
        /\ StampTellsSchema /\ NewReleaseServesHead

-------------------------------------------------------------------------------
(* What the actions do to a deployment's record; the others' stay.         *)
OthersKept(d) == \A c \in Deployments \ {d} : deploy'[c] = deploy[c]

(* A deployment begins with a push, with nothing made.                     *)
LEMMA PushFacts ==
    ASSUME Types, NEW d \in Deployments, Push(d)
    PROVE  /\ deploy' \in [Deployments -> DeployStates] /\ OthersKept(d)
           /\ deploy'[d].pc = "build" /\ deploy'[d].brought = tree' /\ deploy'[d].made = {}
           /\ tree' \in 0..Head /\ tree <= tree'
<1>1. PICK r \in Releases : /\ r >= tree /\ tree' = r
                           /\ deploy' = [deploy EXCEPT ![d] =
                                            [Idle EXCEPT !.pc = "build", !.brought = r]]
  BY DEF Push
<1>2. r \in 0..Head
  BY <1>1, MigrationsAssumption DEF Revisions, Head
<1> DEFINE new == [Idle EXCEPT !.pc = "build", !.brought = r]
<1>3. new \in DeployStates /\ new.pc = "build" /\ new.brought = r /\ new.made = {}
  <2> DEFINE begun == [Idle EXCEPT !.pc = "build"]
  <2>1. Idle \in DeployStates /\ Idle.made = {}
    BY DEF DeployStates, Idle, Head
  <2>2. begun \in DeployStates /\ begun.pc = "build" /\ begun.made = {}
    BY <2>1 DEF DeployStates
  <2>3. new = [begun EXCEPT !.brought = r]
    BY <2>1 DEF DeployStates
  <2> HIDE DEF new, begun
  <2> QED
    BY <1>2, <2>2, <2>3 DEF DeployStates
<1>4. deploy' = [deploy EXCEPT ![d] = new]
  BY <1>1
<1>5. tree <= r
  BY <1>1, <1>2 DEF Types, Head
<1> HIDE DEF new
<1> QED
  BY <1>1, <1>2, <1>3, <1>4, <1>5 DEF Types, OthersKept

(* The upgrade begins at the stamp it finds, with the image's revisions.   *)
LEMMA BeginFacts ==
    ASSUME Types, NEW d \in Deployments,
           deploy' = [deploy EXCEPT ![d].pc = "inspect", ![d].head = image,
                                    ![d].base = version, ![d].at = version]
    PROVE  /\ deploy' \in [Deployments -> DeployStates] /\ OthersKept(d)
           /\ deploy'[d].pc = "inspect" /\ deploy'[d].base = version
           /\ deploy'[d].at = version /\ deploy'[d].head = image
           /\ deploy'[d].made = deploy[d].made /\ deploy'[d].brought = deploy[d].brought
<1> DEFINE one == [deploy EXCEPT ![d].pc = "inspect"]
           two == [one EXCEPT ![d].head = image]
           three == [two EXCEPT ![d].base = version]
<1>1. /\ one \in [Deployments -> DeployStates]
      /\ \A c \in Deployments \ {d} : one[c] = deploy[c]
      /\ one[d].pc = "inspect" /\ one[d].made = deploy[d].made
      /\ one[d].brought = deploy[d].brought
  BY DEF Types, DeployStates
<1>2. deploy' = [three EXCEPT ![d].at = version]
  BY DEF Types, DeployStates
<1> HIDE DEF one
<1>3. /\ two \in [Deployments -> DeployStates]
      /\ \A c \in Deployments \ {d} : two[c] = deploy[c]
      /\ two[d].pc = "inspect" /\ two[d].made = deploy[d].made /\ two[d].head = image
      /\ two[d].brought = deploy[d].brought
  BY <1>1 DEF Types, DeployStates
<1> HIDE DEF two
<1>4. /\ three \in [Deployments -> DeployStates]
      /\ \A c \in Deployments \ {d} : three[c] = deploy[c]
      /\ three[d].pc = "inspect" /\ three[d].made = deploy[d].made /\ three[d].head = image
      /\ three[d].brought = deploy[d].brought /\ three[d].base = version
  BY <1>3 DEF Types, DeployStates
<1> HIDE DEF three
<1>5. deploy' \in [Deployments -> DeployStates]
  <2> DEFINE record == [three[d] EXCEPT !.at = version]
  <2>1. three[d] \in DeployStates /\ version \in 0..Head
    BY <1>4 DEF Types
  <2>2. record \in DeployStates
    BY <2>1 DEF DeployStates
  <2>3. deploy' = [three EXCEPT ![d] = record] /\ three \in [Deployments -> DeployStates]
    BY <1>2, <1>4
  <2> HIDE DEF record
  <2> QED
    BY <2>1, <2>2, <2>3
<1>7. OthersKept(d)
  BY <1>2, <1>4 DEF OthersKept
<1>6. /\ deploy'[d].pc = "inspect" /\ deploy'[d].base = version
      /\ deploy'[d].at = version /\ deploy'[d].head = image
      /\ deploy'[d].made = deploy[d].made /\ deploy'[d].brought = deploy[d].brought
  BY <1>2, <1>4 DEF DeployStates
<1> QED
  BY <1>5, <1>6, <1>7

(* Inspecting the schema only notes which objects are visible.             *)
LEMMA InspectFacts ==
    ASSUME Types, NEW d \in Deployments, Inspect(d)
    PROVE  /\ deploy' \in [Deployments -> DeployStates] /\ OthersKept(d)
           /\ deploy[d].pc = "inspect" /\ deploy'[d].pc = "apply"
           /\ deploy'[d].base = deploy[d].base /\ deploy'[d].at = deploy[d].at
           /\ deploy'[d].made = deploy[d].made /\ deploy'[d].saw = Visible(d)
           /\ deploy'[d].head = deploy[d].head /\ deploy'[d].brought = deploy[d].brought
<1> DEFINE mid == [deploy EXCEPT ![d].pc = "apply"]
<1>1. Visible(d) \in SUBSET Created(Head)
  BY DEF Visible, Types, DeployStates
<1>2. /\ mid \in [Deployments -> DeployStates]
      /\ \A c \in Deployments \ {d} : mid[c] = deploy[c]
      /\ mid[d].pc = "apply" /\ mid[d].base = deploy[d].base /\ mid[d].at = deploy[d].at
      /\ mid[d].made = deploy[d].made /\ mid[d].head = deploy[d].head
      /\ mid[d].brought = deploy[d].brought
  BY DEF Types, DeployStates
<1>3. deploy' = [mid EXCEPT ![d].saw = Visible(d)] /\ deploy[d].pc = "inspect"
  BY DEF Inspect, At, Types, DeployStates
<1> HIDE DEF mid
<1> QED
  BY <1>1, <1>2, <1>3 DEF DeployStates, OthersKept

(* A revision that was applied moves the transaction to the next one,      *)
(* with the objects it made.                                               *)
LEMMA AppliedFacts ==
    ASSUME Types, NEW d \in Deployments, deploy[d].at < deploy[d].head,
           deploy' = [deploy EXCEPT ![d].pc = "inspect", ![d].at = @ + 1,
                                    ![d].made = @ \cup Needed(d)]
    PROVE  /\ deploy' \in [Deployments -> DeployStates] /\ OthersKept(d)
           /\ deploy'[d].pc = "inspect"
           /\ deploy'[d].base = deploy[d].base /\ deploy'[d].at = deploy[d].at + 1
           /\ deploy'[d].made = deploy[d].made \cup Needed(d)
           /\ deploy'[d].head = deploy[d].head /\ deploy'[d].brought = deploy[d].brought
           /\ deploy[d].at + 1 \in 0..Head
<1> DEFINE one == [deploy EXCEPT ![d].pc = "inspect"]
           two == [one EXCEPT ![d].at = deploy[d].at + 1]
<1>0. deploy[d].at + 1 \in 0..Head /\ Pending(d) \in Revisions
  BY DEF Types, DeployStates, Head, Pending, Revisions
<1>1. deploy[d].made \cup Needed(d) \in SUBSET Created(Head)
  BY <1>0, ObjectsKnown DEF Needed, Types, DeployStates
<1>2. /\ one \in [Deployments -> DeployStates]
      /\ \A c \in Deployments \ {d} : one[c] = deploy[c]
      /\ one[d].pc = "inspect" /\ one[d].base = deploy[d].base /\ one[d].at = deploy[d].at
      /\ one[d].made = deploy[d].made /\ one[d].head = deploy[d].head
      /\ one[d].brought = deploy[d].brought
  BY DEF Types, DeployStates
<1>3. deploy' = [two EXCEPT ![d].made = deploy[d].made \cup Needed(d)]
  BY DEF Types, DeployStates
<1> HIDE DEF one
<1>4. /\ two \in [Deployments -> DeployStates]
      /\ \A c \in Deployments \ {d} : two[c] = deploy[c]
      /\ two[d].pc = "inspect" /\ two[d].base = deploy[d].base
      /\ two[d].at = deploy[d].at + 1 /\ two[d].head = deploy[d].head
      /\ two[d].brought = deploy[d].brought
  BY <1>0, <1>2 DEF DeployStates
<1> HIDE DEF two
<1> QED
  BY <1>1, <1>3, <1>4 DEF DeployStates, OthersKept

(* A deployment that fails, dies or has finished changes no other.         *)
LEMMA EndedFacts ==
    ASSUME Types, NEW d \in Deployments, deploy' = [deploy EXCEPT ![d] = Idle]
    PROVE  /\ deploy' \in [Deployments -> DeployStates] /\ OthersKept(d)
           /\ deploy'[d].pc = "idle"
<1>1. Idle \in DeployStates /\ Idle.pc = "idle"
  BY DEF DeployStates, Idle, Head
<1> QED
  BY <1>1 DEF Types, OthersKept

(* One that goes on to its next command changes no other either.           *)
LEMMA GoesOnFacts ==
    ASSUME Types, NEW d \in Deployments,
           NEW pc \in {"upgrade", "archive", "start", "restart"},
           deploy' = [deploy EXCEPT ![d].pc = pc]
    PROVE  /\ deploy' \in [Deployments -> DeployStates] /\ OthersKept(d)
           /\ deploy'[d].pc = pc /\ deploy'[d].brought = deploy[d].brought
           /\ deploy'[d].made = deploy[d].made
  BY DEF Types, DeployStates, OthersKept

(* A commit goes on to the next command with nothing uncommitted.          *)
LEMMA CommitFacts ==
    ASSUME Types, NEW d \in Deployments, Commit(d)
    PROVE  /\ deploy' \in [Deployments -> DeployStates] /\ OthersKept(d)
           /\ deploy[d].pc = "inspect" /\ deploy[d].at = deploy[d].head
           /\ deploy'[d].pc = "archive" /\ deploy'[d].brought = deploy[d].brought
<1> DEFINE one == [deploy EXCEPT ![d].pc = "archive"]
<1>1. one \in [Deployments -> DeployStates] /\ {} \in SUBSET Created(Head)
  BY DEF Types, DeployStates
<1>2. deploy' = [one EXCEPT ![d].made = {}]
  BY DEF Types, DeployStates, Commit
<1>3. /\ \A c \in Deployments \ {d} : one[c] = deploy[c]
      /\ one[d].pc = "archive" /\ one[d].brought = deploy[d].brought
  BY DEF Types, DeployStates
<1> HIDE DEF one
<1>4. deploy' \in [Deployments -> DeployStates] /\ OthersKept(d)
  BY <1>1, <1>2, <1>3 DEF DeployStates, OthersKept
<1>5. deploy'[d].pc = "archive" /\ deploy'[d].brought = deploy[d].brought
  BY <1>1, <1>2, <1>3 DEF DeployStates
<1> QED
  BY <1>4, <1>5 DEF Commit, At

-------------------------------------------------------------------------------
(* Steps that leave the database as it is.                                 *)
Database == <<version, schema, twin>>

(* What it takes of a deployment that does not touch the schema.           *)
LEMMA AsideKeeps ==
    ASSUME IInv, NEW d \in Deployments, UNCHANGED Database,
           deploy' \in [Deployments -> DeployStates], OthersKept(d),
           deploy'[d].pc \notin {"inspect", "apply"},
           Types', Upgraded', NewReleaseServesHead'
    PROVE  IInv'
<1> USE DEF IInv, Types, OthersKept, Working, LockedBy, At, Visible, Database
<1>1. StampTellsSchema'
  BY DEF StampTellsSchema, Exempt
<1>2. BaseHolds' /\ OneAlters' /\ MadeAll' /\ SawCurrent'
  BY DEF BaseHolds, OneAlters, MadeAll, SawCurrent
<1> QED
  BY <1>1, <1>2

(* A push moves the tree forward.                                          *)
LEMMA PushKeeps ==
    ASSUME IInv, NEW d \in Deployments, Push(d)
    PROVE  IInv'
<1>1. /\ deploy' \in [Deployments -> DeployStates] /\ OthersKept(d)
      /\ deploy'[d].pc = "build" /\ deploy'[d].brought = tree' /\ deploy'[d].made = {}
      /\ tree' \in 0..Head /\ tree <= tree'
      /\ UNCHANGED <<version, schema, image, release, startedFrom, others>>
  BY PushFacts DEF Push, IInv
<1>2. Types' /\ NewReleaseServesHead'
  BY <1>1 DEF IInv, Types, NewReleaseServesHead, others
<1>3. tree \in Nat /\ tree' \in Nat /\ image \in Nat
  BY <1>1 DEF IInv, Types, Head
<1>4. \A c \in Deployments : deploy[c].brought \in Nat
  BY DEF IInv, Types, DeployStates, Head
<1>5. Upgraded'
  BY <1>1, <1>3, <1>4 DEF IInv, Upgraded, OthersKept, At, Working, others
<1> QED
  BY <1>1, <1>2, <1>5, AsideKeeps DEF Database, others

(* The image follows the tree.                                             *)
LEMMA BuildKeeps ==
    ASSUME IInv, NEW d \in Deployments, Build(d)
    PROVE  IInv'
<1>1. /\ deploy' \in [Deployments -> DeployStates] /\ OthersKept(d)
      /\ deploy[d].pc = "build" /\ deploy'[d].pc = "upgrade" /\ image' = tree
      /\ deploy'[d].brought = deploy[d].brought /\ deploy'[d].made = deploy[d].made
      /\ UNCHANGED <<version, schema, tree, release, startedFrom, others>>
  BY GoesOnFacts DEF Build, BuiltImage, IInv, At
<1>2. Types' /\ NewReleaseServesHead'
  BY <1>1 DEF IInv, Types, NewReleaseServesHead, others
<1>3. tree \in Nat /\ image \in Nat
  BY <1>1 DEF IInv, Types, Head
<1>4. \A c \in Deployments : deploy[c].brought \in Nat
  BY DEF IInv, Types, DeployStates, Head
<1>5. Upgraded'
  BY <1>1, <1>3, <1>4 DEF IInv, Upgraded, OthersKept, At, Working, others
<1> QED
  BY <1>1, <1>2, <1>5, AsideKeeps DEF Database, others

(* A deployment that fails or dies leaves everything to the others.        *)
LEMMA EndKeeps ==
    ASSUME IInv, NEW d \in Deployments, deploy' = [deploy EXCEPT ![d] = Idle],
           UNCHANGED <<Database, server, demo>>
    PROVE  IInv'
<1>1. /\ deploy' \in [Deployments -> DeployStates] /\ OthersKept(d)
      /\ deploy'[d].pc = "idle"
  BY EndedFacts DEF IInv
<1>2. Types' /\ NewReleaseServesHead' /\ Upgraded'
  BY <1>1 DEF IInv, Types, NewReleaseServesHead, Upgraded, OthersKept, At, Working, Database,
              server
<1> QED
  BY <1>1, <1>2, AsideKeeps

(* Archiving leaves no demonstration listing active.                       *)
LEMMA ArchiveKeeps ==
    ASSUME IInv, NEW d \in Deployments, Archive(d)
    PROVE  IInv'
<1>1. /\ deploy' \in [Deployments -> DeployStates] /\ OthersKept(d)
      /\ deploy[d].pc = "archive" /\ deploy'[d].pc = "start"
      /\ deploy'[d].brought = deploy[d].brought
      /\ demo' # "active" /\ UNCHANGED <<Database, server>>
  BY GoesOnFacts DEF Archive, IInv, At, Database
<1>2. Types' /\ NewReleaseServesHead' /\ Upgraded'
  BY <1>1 DEF IInv, Types, NewReleaseServesHead, Upgraded, OthersKept, At, Working, Database,
              server
<1> QED
  BY <1>1, <1>2, AsideKeeps

(* What a deployment starts of its own has its revisions.                  *)
LEMMA StartKeeps ==
    ASSUME IInv, NEW d \in Deployments, Start(d)
    PROVE  IInv'
<1>1. /\ deploy' \in [Deployments -> DeployStates] /\ OthersKept(d)
      /\ deploy[d].pc = "start" /\ deploy'[d].pc = "restart"
      /\ deploy'[d].brought = deploy[d].brought
      /\ release' = image /\ startedFrom' = BuiltBy(d, image)
      /\ UNCHANGED <<version, schema, tree, image, others>>
  BY GoesOnFacts DEF Start, IInv, At
<1>2. deploy[d].brought <= version /\ demo # "active"
  BY <1>1 DEF IInv, Upgraded, At
<1>3. release' > version => startedFrom' = "other"
  BY <1>1, <1>2 DEF BuiltBy, IInv, Types, DeployStates, Head
<1>4. Types' /\ NewReleaseServesHead' /\ Upgraded'
  BY <1>1, <1>2, <1>3
     DEF IInv, Types, NewReleaseServesHead, Upgraded, OthersKept, At, Working, others
<1> QED
  BY <1>1, <1>4, AsideKeeps DEF Database, others

(* So has what it starts again, unless the tree is another's.              *)
LEMMA RestartKeeps ==
    ASSUME IInv, NEW d \in Deployments, Restart(d)
    PROVE  IInv'
<1>1. /\ deploy' \in [Deployments -> DeployStates] /\ OthersKept(d)
      /\ deploy[d].pc = "restart" /\ deploy'[d].pc = "idle"
      /\ image' = tree /\ release' = tree /\ startedFrom' = BuiltBy(d, tree)
      /\ UNCHANGED <<version, schema, tree, others>>
  BY EndedFacts DEF Restart, IInv, At
<1>2. deploy[d].brought <= version /\ demo # "active"
  BY <1>1 DEF IInv, Upgraded, At
<1>3. release' > version => startedFrom' = "other"
  BY <1>1, <1>2 DEF BuiltBy, IInv, Types, DeployStates, Head
<1>4. Types' /\ NewReleaseServesHead'
  BY <1>1, <1>2, <1>3 DEF IInv, Types, NewReleaseServesHead, others
<1>5. tree \in Nat /\ image \in Nat /\ \A c \in Deployments : deploy[c].brought \in Nat
  BY DEF IInv, Types, DeployStates, Head
<1>6. Upgraded'
  BY <1>1, <1>5 DEF IInv, Upgraded, OthersKept, At, Working, others
<1> QED
  BY <1>1, <1>4, <1>6, AsideKeeps DEF Database, others

(* An upgrade that begins has made nothing and has today's stamp.          *)
LEMMA BeginKeeps ==
    ASSUME IInv, NEW d \in Deployments, Begin(d), version <= image
    PROVE  IInv'
<1> USE DEF IInv, Types, OthersKept, Working, LockedBy, At, Visible, others, server
<1>1. /\ deploy' \in [Deployments -> DeployStates]
      /\ \A c \in Deployments \ {d} : deploy'[c] = deploy[c]
      /\ deploy[d].pc = "upgrade"
      /\ deploy'[d].pc = "inspect" /\ deploy'[d].base = version
      /\ deploy'[d].at = version /\ deploy'[d].head = image
      /\ deploy'[d].made = deploy[d].made /\ deploy'[d].brought = deploy[d].brought
      /\ UNCHANGED <<version, schema, server, others>>
  BY BeginFacts DEF Begin
<1>2. Types' /\ StampTellsSchema' /\ NewReleaseServesHead'
  BY <1>1 DEF StampTellsSchema, Exempt, NewReleaseServesHead
<1>3. version \in Nat /\ deploy'[d].made = {}
  BY <1>1 DEF Head, Upgraded
<1>4. BaseHolds' /\ OneAlters'
  BY <1>1, <1>3 DEF BaseHolds, OneAlters
<1>5. MadeAll' /\ SawCurrent' /\ Upgraded'
  BY <1>1 DEF MadeAll, SawCurrent, Upgraded
<1> QED
  BY <1>2, <1>4, <1>5

(* A look changes nothing, and what it saw is what is there.               *)
LEMMA InspectKeeps ==
    ASSUME IInv, NEW d \in Deployments, Inspect(d)
    PROVE  IInv'
<1> USE DEF IInv, Types, OthersKept, Working, LockedBy, At, Visible, others, server
<1>1. /\ deploy' \in [Deployments -> DeployStates]
      /\ \A c \in Deployments \ {d} : deploy'[c] = deploy[c]
      /\ deploy[d].pc = "inspect" /\ deploy'[d].pc = "apply"
      /\ deploy'[d].base = deploy[d].base /\ deploy'[d].at = deploy[d].at
      /\ deploy'[d].made = deploy[d].made /\ deploy'[d].saw = Visible(d)
      /\ deploy'[d].head = deploy[d].head /\ deploy'[d].brought = deploy[d].brought
      /\ deploy[d].at < deploy[d].head /\ UNCHANGED <<version, schema, server, others>>
  BY InspectFacts DEF Inspect
<1>2. Types' /\ StampTellsSchema' /\ NewReleaseServesHead'
  BY <1>1 DEF StampTellsSchema, Exempt, NewReleaseServesHead
<1>4. BaseHolds' /\ OneAlters'
  BY <1>1 DEF BaseHolds, OneAlters
<1>5. MadeAll'
  BY <1>1 DEF MadeAll
<1>6. SawCurrent' /\ Upgraded'
  BY <1>1 DEF SawCurrent, Upgraded
<1> QED
  BY <1>2, <1>4, <1>5, <1>6

(* A revision that applies does so for the only transaction that alters    *)
(* anything, on the schema it looked at.                                   *)
LEMMA ApplyKeeps ==
    ASSUME IInv, NEW d \in Deployments, ApplyRevision(d), Applies(d)
    PROVE  IInv'
<1> USE DEF IInv, Types, OthersKept, Working, LockedBy, At, Visible, others, server
<1>0. /\ deploy[d].pc = "apply" /\ deploy[d].at < deploy[d].head
      /\ version = deploy[d].base
  BY DEF ApplyRevision, Applies, SawCurrent
<1>1. /\ deploy' \in [Deployments -> DeployStates]
      /\ \A c \in Deployments \ {d} : deploy'[c] = deploy[c]
      /\ deploy'[d].pc = "inspect" /\ deploy'[d].base = deploy[d].base
      /\ deploy'[d].at = deploy[d].at + 1
      /\ deploy'[d].made = deploy[d].made \cup Needed(d)
      /\ deploy'[d].head = deploy[d].head /\ deploy'[d].brought = deploy[d].brought
      /\ deploy[d].at + 1 \in 0..Head
      /\ UNCHANGED <<version, schema, server, others>>
  BY <1>0, AppliedFacts DEF ApplyRevision, InTransaction
<1>2. Types' /\ StampTellsSchema' /\ NewReleaseServesHead'
  BY <1>1 DEF StampTellsSchema, Exempt, NewReleaseServesHead
<1>3. \A c \in Deployments \ {d} : ~LockedBy(c)
  BY DEF ApplyRevision, Waits
<1>4. /\ deploy[d].base \in Nat /\ deploy[d].at \in Nat /\ deploy[d].head \in Nat
      /\ deploy[d].base <= deploy[d].at
  BY <1>0 DEF BaseHolds, DeployStates, Head
<1>9. deploy'[d].made \subseteq Created(deploy'[d].at)
  <2>1. Created(deploy[d].at + 1) = Created(deploy[d].at) \cup Objects(deploy[d].at + 1)
    BY <1>1, <1>4, CreatedNext
  <2>2. Needed(d) \subseteq Objects(deploy[d].at + 1)
    BY DEF Needed, Pending
  <2> QED
    BY <1>0, <1>1, <2>1, <2>2 DEF BaseHolds
<1>5. BaseHolds' /\ OneAlters'
  BY <1>0, <1>1, <1>3, <1>4, <1>9 DEF BaseHolds, OneAlters
<1>6. Objects(deploy[d].at + 1) \subseteq schema \cup deploy'[d].made
  <2>1. deploy[d].saw = Visible(d)
    BY <1>0 DEF SawCurrent
  <2> QED
    BY <1>1, <2>1 DEF Needed, Pending
<1>7. MadeAll'
  <2> SUFFICES ASSUME NEW c \in Deployments, LockedBy(c)',
                      NEW r \in (deploy'[c].base + 1)..deploy'[c].at
               PROVE  Objects(r) \subseteq schema \cup deploy'[c].made
    BY <1>1 DEF MadeAll
  <2>1. c = d
    BY <1>1, <1>3
  <2>2. CASE r = deploy[d].at + 1
    BY <1>6, <2>1, <2>2
  <2>3. CASE r \in (deploy[d].base + 1)..deploy[d].at
    <3>1. LockedBy(d)
      BY <1>0, <1>4, <2>3
    <3> QED
      BY <1>1, <2>1, <2>3, <3>1 DEF MadeAll
  <2> QED
    BY <1>1, <1>4, <2>1, <2>2, <2>3
<1>8. SawCurrent'
  BY <1>1 DEF SawCurrent
<1>10. Upgraded'
  BY <1>0, <1>1 DEF Upgraded
<1> QED
  BY <1>2, <1>5, <1>7, <1>8, <1>10

-------------------------------------------------------------------------------
(* The upgrade's commit and the downgrade.                                 *)

(* What a stamp excuses and a higher one does not, a revision up to the    *)
(* higher one creates.                                                     *)
LEMMA ExemptIsCreatedLater ==
    ASSUME version \in 0..Head, version' \in 0..Head, version <= version', twin' = twin,
           NEW x \in Exempt, x \notin Exempt'
    PROVE  \E r \in (version + 1)..version' : x \in Objects(r)
<1>1. CASE version < 4 /\ x \in Owner
  <2>1. 4 \in (version + 1)..version'
    BY <1>1 DEF Head, Exempt
  <2> QED
    BY <1>1, <2>1, Named
<1>2. CASE version < 5 /\ x \in Price
  <2>1. 5 \in (version + 1)..version'
    BY <1>2 DEF Head, Exempt
  <2> QED
    BY <1>2, <2>1, Named
<1>3. CASE version < Market /\ x \in Media
  <2>1. Market \in (version + 1)..version'
    BY <1>3 DEF Head, Market, Exempt
  <2> QED
    BY <1>3, <2>1, Named
<1> QED
  BY <1>1, <1>2, <1>3 DEF Exempt

(* A complete upgrade of a database that its stamp described is described  *)
(* by the new stamp.                                                       *)
LEMMA CommitTells ==
    ASSUME IInv, NEW d \in Deployments, Commit(d), LockedBy(d)
    PROVE  /\ schema' \subseteq Created(Head) /\ version' \in 0..Head
           /\ version = deploy[d].base /\ version < version'
           /\ version' = deploy[d].head /\ StampTellsSchema'
<1> USE DEF IInv, Types, Working, LockedBy, At, Visible, others
<1>1. /\ deploy[d].pc = "inspect" /\ deploy[d].at = deploy[d].head
      /\ version' = deploy[d].head /\ schema' = Visible(d) /\ twin' = twin
  BY DEF Commit
<1>2. /\ schema' \subseteq Created(Head) /\ version' \in 0..Head
  BY <1>1 DEF DeployStates
<1>3. version = deploy[d].base /\ version < version'
  BY <1>1 DEF BaseHolds, DeployStates, Head
<1>4. \A r \in (version + 1)..version' : Objects(r) \subseteq schema'
  BY <1>1, <1>3 DEF MadeAll
<1>5. Created(version) \subseteq Created(version')
  <2>1. version <= version'
    BY <1>2, <1>3 DEF Head
  <2> QED
    BY <1>2, <2>1, CreatedGrows
<1>6. ASSUME NEW x \in Created(version'), x \notin Exempt' PROVE x \in schema'
  <2>1. CASE \E r \in (version + 1)..version' : x \in Objects(r)
    BY <1>4, <2>1
  <2>2. CASE ~\E r \in (version + 1)..version' : x \in Objects(r)
    <3>1. PICK r \in 1..version' : x \in Objects(r)
      BY InCreated
    <3>2. r \in 1..version
      BY <1>2, <1>3, <2>2, <3>1 DEF Head
    <3>3. x \in Created(version)
      BY <3>1, <3>2, InCreated
    <3>4. version <= version'
      BY <1>2, <1>3 DEF Head
    <3>5. x \notin Exempt
      BY <1>1, <1>2, <1>6, <2>2, <3>4, ExemptIsCreatedLater
    <3> QED
      BY <1>1, <3>3, <3>5 DEF StampTellsSchema
  <2> QED
    BY <2>1, <2>2
<1>7. ASSUME NEW x \in schema', x \notin Exempt' PROVE x \in Created(version')
  <2>1. CASE x \in deploy[d].made
    BY <1>1, <2>1 DEF BaseHolds
  <2>2. CASE x \in schema /\ x \notin Exempt
    BY <1>5, <2>2 DEF StampTellsSchema
  <2>3. CASE x \in Exempt
    <3>1. version <= version'
      BY <1>2, <1>3 DEF Head
    <3>2. PICK r \in (version + 1)..version' : x \in Objects(r)
      BY <1>1, <1>2, <1>7, <2>3, <3>1, ExemptIsCreatedLater
    <3>3. r \in 1..version'
      BY <1>2, <3>2 DEF Head
    <3> QED
      BY <3>2, <3>3, InCreated
  <2> QED
    BY <1>1, <2>1, <2>2, <2>3
<1> QED
  BY <1>1, <1>2, <1>3, <1>6, <1>7 DEF StampTellsSchema

(* The commit of the only deployment that has altered anything; of one that*)
(* has not, it changes nothing.                                            *)
LEMMA CommitKeeps ==
    ASSUME IInv, NEW d \in Deployments, Commit(d)
    PROVE  IInv'
<1> USE DEF IInv, Types, OthersKept, Working, LockedBy, At, Visible, others, server
<1>1. /\ deploy' \in [Deployments -> DeployStates]
      /\ \A c \in Deployments \ {d} : deploy'[c] = deploy[c]
      /\ deploy[d].pc = "inspect" /\ deploy'[d].pc = "archive"
      /\ deploy'[d].brought = deploy[d].brought /\ deploy[d].at = deploy[d].head
      /\ UNCHANGED <<server, others>>
  BY CommitFacts DEF Commit
<1>2. /\ schema' \subseteq Created(Head) /\ version' \in 0..Head /\ StampTellsSchema'
      /\ version <= version' /\ deploy[d].head <= version'
      /\ IF LockedBy(d) THEN version = deploy[d].base /\ version < version'
                        ELSE UNCHANGED <<version, schema>>
  <2>1. CASE LockedBy(d)
    BY <2>1, CommitTells DEF Head, DeployStates
  <2>2. CASE ~LockedBy(d)
    <3>1. UNCHANGED <<version, schema>>
      BY <2>2 DEF Commit
    <3>2. deploy[d].head <= version
      BY <1>1, <2>2 DEF BaseHolds
    <3> QED
      BY <1>1, <2>2, <3>1, <3>2 DEF StampTellsSchema, Exempt, Head
  <2> QED
    BY <2>1, <2>2
<1>3. Types'
  BY <1>1, <1>2
<1>4. version \in Nat /\ version' \in Nat /\ release \in Nat
  BY <1>2 DEF Head
<1>5. NewReleaseServesHead'
  BY <1>1, <1>2, <1>4 DEF NewReleaseServesHead
<1>6. \A c \in Deployments \ {d} : LockedBy(c) => UNCHANGED <<version, schema>>
  BY <1>2 DEF OneAlters
<1>7. \A c \in Deployments : deploy[c].base \in Nat /\ deploy[c].brought \in Nat
                              /\ deploy[c].head \in Nat
  BY DEF DeployStates, Head
<1>8. BaseHolds' /\ OneAlters'
  BY <1>1, <1>2, <1>4, <1>6, <1>7 DEF BaseHolds, OneAlters
<1>9. MadeAll'
  BY <1>1, <1>6 DEF MadeAll
<1>10. SawCurrent'
  <2> SUFFICES ASSUME NEW c \in Deployments, deploy'[c].pc = "apply"
               PROVE  /\ deploy'[c].at < deploy'[c].head
                      /\ version' = deploy'[c].base =>
                            deploy'[c].saw = schema' \cup deploy'[c].made
    BY DEF SawCurrent
  <2>1. c # d /\ deploy'[c] = deploy[c] /\ deploy[c].at < deploy[c].head
    BY <1>1 DEF SawCurrent
  <2>2. deploy[c].base <= version
    BY <2>1 DEF BaseHolds
  <2>3. CASE LockedBy(d)
    BY <1>2, <1>4, <1>7, <2>1, <2>2, <2>3
  <2>4. CASE ~LockedBy(d)
    BY <1>2, <2>1, <2>4 DEF SawCurrent
  <2> QED
    BY <2>3, <2>4
<1>11. Upgraded'
  <2>1. deploy'[d].brought <= version'
    BY <1>1, <1>2, <1>4, <1>7 DEF Upgraded
  <2>2. \A c \in Deployments : deploy[c].brought <= version => deploy[c].brought <= version'
    BY <1>2, <1>4, <1>7
  <2> QED
    BY <1>1, <2>1, <2>2 DEF Upgraded
<1> QED
  BY <1>2, <1>3, <1>5, <1>8, <1>9, <1>10, <1>11

(* Taking the last revision back leaves what the stamp below tells.        *)
LEMMA DowngradeTells ==
    ASSUME IInv, Downgrade
    PROVE  /\ version' \in 0..Head /\ schema' \subseteq Created(Head)
           /\ StampTellsSchema'
<1> USE DEF IInv, Types
<1>1. /\ version > 0 /\ version \in Revisions /\ version' = version - 1
      /\ schema' = schema \ Dropped /\ twin' = twin
  BY DEF Downgrade, Downgradable, Revisions, Head
<1>2. version' \in 0..Head /\ schema' \subseteq Created(Head)
  BY <1>1 DEF Revisions, Head
<1>3. Exempt \subseteq Exempt'
  BY <1>1 DEF Exempt, Market, Head, Revisions
<1>4. Created(version) = Created(version') \cup Objects(version)
  BY <1>1, CreatedNext
<1>7. CASE version = 1
  <2>1. Created(version') = {}
    BY <1>1, <1>7 DEF Created
  <2>2. Columns \subseteq Exempt' /\ Dropped = Objects(1) \cup Columns
    BY <1>1, <1>7 DEF Exempt, Columns, Media, Market, Dropped
  <2> QED
    BY <1>1, <1>2, <1>3, <1>4, <1>7, <2>1, <2>2 DEF StampTellsSchema
<1>5. CASE version \in {3, 4}
  <2>1. Owner \subseteq Exempt' /\ Objects(version) = Owner
    BY <1>1, <1>5, Named DEF Exempt
  <2>3. version # 1
    BY <1>5
  <2>2. Dropped \subseteq Owner
    BY <2>1, <2>3 DEF Dropped
  <2> QED
    BY <1>1, <1>2, <1>3, <1>4, <2>1, <2>2 DEF StampTellsSchema
<1>6. CASE version \notin {1, 3, 4}
  <2>1. Dropped = Objects(version)
    BY <1>6 DEF Dropped
  <2>2. Created(version') \cap Objects(version) = {}
    <3> SUFFICES ASSUME NEW x \in Created(version'), x \in Objects(version) PROVE FALSE
      OBVIOUS
    <3>1. PICK r \in 1..(version - 1) : x \in Objects(r)
      BY <1>1, InCreated
    <3>2. r \in Revisions /\ r # version
      BY <1>1 DEF Revisions, Head
    <3> QED
      BY <1>1, <1>6, <3>1, <3>2, ObjectsDiffer
  <2> QED
    BY <1>1, <1>2, <1>3, <1>4, <2>1, <2>2 DEF StampTellsSchema
<1> QED
  BY <1>2, <1>5, <1>6, <1>7

(* Nobody deploys during a downgrade, and the earlier release serves then. *)
LEMMA DowngradeKeeps ==
    ASSUME IInv, Downgrade
    PROVE  IInv'
<1> USE DEF IInv, Types, Working, LockedBy, At, Visible
<1>1. /\ version' \in 0..Head /\ schema' \subseteq Created(Head) /\ StampTellsSchema'
  BY DowngradeTells
<1>2. /\ release' = version' /\ UNCHANGED <<demo, deploy, twin, tree, image, startedFrom>>
      /\ \A d \in Deployments : deploy[d].pc = "idle"
  BY DEF Downgrade
<1>3. Types' /\ NewReleaseServesHead'
  BY <1>1, <1>2 DEF NewReleaseServesHead, Head
<1>4. BaseHolds' /\ OneAlters' /\ MadeAll' /\ SawCurrent' /\ Upgraded'
  BY <1>2 DEF BaseHolds, OneAlters, MadeAll, SawCurrent, Upgraded
<1> QED
  BY <1>1, <1>3, <1>4

-------------------------------------------------------------------------------
(* The databases there are.                                                *)

(* Their stamps tell what they hold, but for the exceptions.               *)
LEMMA LegacyTells ==
    ASSUME Init
    PROVE  /\ version \in 0..Head /\ schema \subseteq Created(Head) /\ twin \in BOOLEAN
           /\ StampTellsSchema
<1>0. PICK database \in Legacy : /\ version = database.version /\ schema = database.schema
                                 /\ twin = (version = Launch /\ ~(LaunchOps \subseteq schema))
  BY DEF Init
<1>1. twin \in BOOLEAN
  BY <1>0
<1>2. \A v \in 0..Head : Created(v) \subseteq Created(Head)
  BY CreatedGrows DEF Head
<1>3. Owner \cup Price \cup Media \subseteq Created(Head)
  BY Named, ObjectsKnown DEF Revisions, Head, Market
<1>4. CASE \E v \in 0..Head : database = [version |-> v, schema |-> Created(v)]
  BY <1>0, <1>1, <1>2, <1>4 DEF StampTellsSchema
<1>5. CASE \E v \in 1..3, s \in SUBSET (Owner \cup Price) :
             database = [version |-> v,
                         schema |-> Created(IF v = 3 THEN 2 ELSE v) \cup s]
  <2>1. PICK v \in 1..3, s \in SUBSET (Owner \cup Price) :
             database = [version |-> v,
                         schema |-> Created(IF v = 3 THEN 2 ELSE v) \cup s]
    BY <1>5
  <2>2. /\ version = v /\ version \in 0..Head
        /\ schema = Created(IF v = 3 THEN 2 ELSE v) \cup s
    BY <1>0, <2>1 DEF Head
  <2>3. Owner \cup Price \subseteq Exempt
    BY <2>1, <2>2 DEF Exempt
  <2>4. Created(3) = Created(2) \cup Owner
    BY CreatedNext, Named DEF Head
  <2>5. schema \subseteq Created(Head)
    BY <1>2, <1>3, <2>1, <2>2 DEF Head
  <2> QED
    BY <1>1, <2>1, <2>2, <2>3, <2>4, <2>5 DEF StampTellsSchema
<1>6. CASE \E s \in SUBSET Media :
             database = [version |-> Launch, schema |-> Created(Launch) \cup s]
  <2>1. PICK s \in SUBSET Media : /\ version = Launch /\ schema = Created(Launch) \cup s
    BY <1>0, <1>6
  <2>2. Media \subseteq Exempt
    BY <2>1 DEF Exempt, Launch, Market
  <2>3. version \in 0..Head /\ schema \subseteq Created(Head)
    BY <1>2, <1>3, <2>1 DEF Launch, Head
  <2> QED
    BY <1>1, <2>1, <2>2, <2>3 DEF StampTellsSchema
<1>7. CASE database = [version |-> Launch, schema |-> Created(9) \cup Media]
  <2>1. version = Launch /\ schema = Created(9) \cup Media
    BY <1>0, <1>7
  <2>2. Created(Launch) = Created(9) \cup LaunchOps
    BY CreatedNext, Named DEF Launch, Head
  <2>3. ~(LaunchOps \subseteq schema)
    <3>1. PICK x \in LaunchOps : TRUE
      BY DEF LaunchOps
    <3>2. x \notin Media
      BY ObjectsDiffer, Named, <3>1 DEF Revisions, Launch, Market, Head
    <3>3. x \notin Created(9)
      <4> SUFFICES ASSUME x \in Created(9) PROVE FALSE
        OBVIOUS
      <4>1. PICK r \in 1..9 : x \in Objects(r)
        BY InCreated
      <4>2. r \in Revisions /\ Launch \in Revisions /\ r # Launch /\ Launch \notin {3, 4}
        BY DEF Revisions, Launch, Head
      <4> QED
        BY <3>1, <4>1, <4>2, ObjectsDiffer, Named
    <3> QED
      BY <2>1, <3>1, <3>2, <3>3
  <2>4. LaunchOps \subseteq Exempt /\ Media \subseteq Exempt
    <3>1. twin
      BY <1>0, <2>1, <2>3
    <3>2. 10 < 11
      OBVIOUS
    <3> QED
      BY <2>1, <3>1, <3>2 DEF Exempt, Launch, Market
  <2>5. version \in 0..Head /\ schema \subseteq Created(Head)
    BY <1>2, <1>3, <2>1 DEF Launch, Head
  <2> QED
    BY <1>1, <2>1, <2>2, <2>4, <2>5 DEF StampTellsSchema
<1> QED
  BY <1>0, <1>4, <1>5, <1>6, <1>7 DEF Legacy

(* Nothing is being deployed at first.                                     *)
LEMMA IInvInit == Init => IInv
<1> SUFFICES ASSUME Init PROVE IInv
  OBVIOUS
<1>1. Idle \in DeployStates /\ Idle.pc = "idle"
  BY DEF Idle, DeployStates, Head
<1>2. Types /\ StampTellsSchema
  BY <1>1, LegacyTells DEF Init, Types
<1>3. \A d \in Deployments : deploy[d].pc = "idle"
  BY <1>1 DEF Init
<1>4. version <= version /\ ~(version > version)
  BY <1>2 DEF Types, Head
<1> QED
  BY <1>2, <1>3, <1>4
     DEF Init, IInv, BaseHolds, OneAlters, MadeAll, SawCurrent, Upgraded, Working, LockedBy,
         At, NewReleaseServesHead

-------------------------------------------------------------------------------
(* Every step keeps the invariant.                                         *)
LEMMA IInvStep ==
    ASSUME IInv, [Next]_vars
    PROVE  IInv'
<1>0. Types
  BY DEF IInv
<1>1. ASSUME NEW d \in Deployments, DeployStep(d) \/ Crash(d) PROVE IInv'
  <2>1. CASE Push(d)
    BY <2>1, PushKeeps
  <2>2. CASE Build(d)
    BY <2>2, BuildKeeps
  <2>3. CASE Begin(d) /\ version <= image
    BY <2>3, BeginKeeps
  <2>4. CASE Inspect(d)
    BY <2>4, InspectKeeps
  <2>5. CASE ApplyRevision(d) /\ Applies(d)
    BY <2>5, ApplyKeeps
  <2>6. CASE \/ Begin(d) /\ ~(version <= image)
             \/ ApplyRevision(d) /\ ~Applies(d)
             \/ Crash(d)
    <3>1. /\ deploy' = [deploy EXCEPT ![d] = Idle]
          /\ UNCHANGED <<Database, server, demo>>
      BY <2>6 DEF Begin, ApplyRevision, Crash, others, Database
    <3> QED
      BY <3>1, EndKeeps
  <2>7. CASE Commit(d)
    BY <2>7, CommitKeeps
  <2>8. CASE Archive(d)
    BY <2>8, ArchiveKeeps
  <2>9. CASE Start(d)
    BY <2>9, StartKeeps
  <2>10. CASE Restart(d)
    BY <2>10, RestartKeeps
  <2> QED
    BY <1>1, <2>1, <2>2, <2>3, <2>4, <2>5, <2>6, <2>7, <2>8, <2>9, <2>10 DEF DeployStep
<1>2. CASE Downgrade
  BY <1>2, DowngradeKeeps
<1>3. CASE BookingsOverlap \/ UNCHANGED vars
  BY <1>3 DEF BookingsOverlap, vars, server, others, IInv, Types, BaseHolds, OneAlters, MadeAll, SawCurrent,
              Upgraded, Working, LockedBy, At, Visible, StampTellsSchema, Exempt,
              NewReleaseServesHead
<1> QED
  BY <1>1, <1>2, <1>3 DEF Next

(* The invariant, for any number of deployments, crashes and downgrades.   *)
THEOREM MigrationsInvariant == FairSpec => []IInv
<1> QED
  BY IInvInit, IInvStep, PTL DEF FairSpec

(* The stamp tells the schema, whichever deployments died or overlapped on *)
(* whichever legacy database: no revision is skipped or applied twice.     *)
THEOREM StampIsTrue == FairSpec => []StampTellsSchema
<1>1. IInv => StampTellsSchema
  BY DEF IInv
<1> QED
  BY <1>1, MigrationsInvariant, PTL

(* A deployment never serves what it brought before the database has its   *)
(* revisions, however pushes overlap, die and share tree and image; and no *)
(* demonstration listing is active once any has started a release.         *)
THEOREM NewReleaseIsReady == FairSpec => []NewReleaseServesHead
<1>1. IInv => NewReleaseServesHead
  BY DEF IInv
<1> QED
  BY <1>1, MigrationsInvariant, PTL

===============================================================================
