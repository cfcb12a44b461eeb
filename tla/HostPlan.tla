------------------------------- MODULE HostPlan -------------------------------
(***************************************************************************)
(* One host's plan and the number of listings it allows.                   *)
(*                                                                         *)
(* POST /api/host/parking-spaces passes a middleware that, in a session of *)
(* its own, creates the subscription row if it is missing, counts the      *)
(* host's listings and commits; only then does the handler insert the      *)
(* listing in another transaction.  An exception in the middleware is      *)
(* logged and the request goes on.                                         *)
(***************************************************************************)
EXTENDS Naturals, FiniteSets

CONSTANTS
    Spaces,         \* listings the host may create
    Sessions,       \* concurrent requests to create one
    FreeLimit, ProLimit,
    MaxUnchecked    \* bound: failures of the middleware's check

VARIABLES
    listed,         \* each listing: "none", "live" (active or paused) or "archived"
    sub,            \* host_subscriptions: [plan, status], or NoSubscription
    session,        \* each request: "idle", "subscribing", or "admitted"
    unchecked       \* history: requests let through because the check failed

vars == <<listed, sub, session, unchecked>>

Subscriptions == [plan : {"free", "pro"}, status : {"active", "pending", "cancelled"}]
NoSubscription == [plan |-> "none", status |-> "none"]
FreePlan == [plan |-> "free", status |-> "active"]

TypeOK ==
    /\ listed \in [Spaces -> {"none", "live", "archived"}]
    /\ sub \in Subscriptions \cup {NoSubscription}
    /\ session \in [Sessions -> {"idle", "subscribing", "admitted"}]
    /\ unchecked \in Nat

Init ==
    /\ listed = [p \in Spaces |-> "none"]
    /\ sub = NoSubscription
    /\ session = [s \in Sessions |-> "idle"]
    /\ unchecked = 0

-------------------------------------------------------------------------------
(* The limit goes by the plan alone, whatever the status says.             *)
ListingLimit == IF sub.plan = "pro" THEN ProLimit ELSE FreeLimit

Listings == Cardinality({p \in Spaces : listed[p] = "live"})
AtMostLimit == Listings <= ListingLimit         \* off by one
HasCapacity == Listings < ListingLimit

(* subscription_for: the row is inserted if db.get finds none.             *)
WithDefault == IF sub = NoSubscription THEN FreePlan ELSE sub

(* The middleware's transaction.  A request that found no row and waits for*)
(* another's insert to commit is at "subscribing".                         *)
MeetRow(s) == /\ session[s] = "idle"
              /\ sub # NoSubscription /\ HasCapacity
              /\ session' = [session EXCEPT ![s] = "admitted"]
              /\ UNCHANGED <<listed, sub, unchecked>>

MissRow(s) == /\ session[s] = "idle"
              /\ sub = NoSubscription
              /\ session' = [session EXCEPT ![s] = "subscribing"]
              /\ UNCHANGED <<listed, sub, unchecked>>

InsertRow(s) == /\ session[s] = "subscribing" /\ sub = NoSubscription
                /\ sub' = WithDefault
                /\ session' = [session EXCEPT ![s] = IF HasCapacity THEN "admitted" ELSE "idle"]
                /\ UNCHANGED <<listed, unchecked>>

(* The primary key refuses the second row; the exception is swallowed.     *)
InsertFails(s) == /\ session[s] = "subscribing" /\ sub # NoSubscription
                  /\ session' = [session EXCEPT ![s] = "admitted"]
                  /\ UNCHANGED <<listed, sub, unchecked>>

(* So is any other: the connection or a statement fails or takes too long, *)
(* or the commit of the subscription's row does, which the database may    *)
(* have made all the same.                                                 *)
CheckFails(s) == /\ session[s] # "admitted" /\ unchecked < MaxUnchecked
                 /\ sub' \in {sub, IF session[s] = "subscribing" THEN WithDefault ELSE sub}
                 /\ session' = [session EXCEPT ![s] = "admitted"]
                 /\ unchecked' = unchecked + 1
                 /\ UNCHANGED listed

(* add_host_space.                                                         *)
Create(s, p) == /\ session[s] = "admitted" /\ listed[p] = "none"
                /\ listed' = [listed EXCEPT ![p] = "live"]
                /\ session' = [session EXCEPT ![s] = "idle"]
                /\ UNCHANGED <<sub, unchecked>>

(* The handler refuses (the account was deleted since, the data are not     *)
(* valid) or fails.                                                        *)
CreationFails(s) == /\ session[s] = "admitted"
                    /\ session' = [session EXCEPT ![s] = "idle"]
                    /\ UNCHANGED <<listed, sub, unchecked>>

(* The process dies with the request.                                      *)
ProcessDies(s) == /\ session[s] # "idle"
                  /\ session' = [session EXCEPT ![s] = "idle"]
                  /\ UNCHANGED <<listed, sub, unchecked>>

Archive(p) == /\ listed[p] = "live"
              /\ listed' = [listed EXCEPT ![p] = "archived"]
              /\ UNCHANGED <<sub, session, unchecked>>

-------------------------------------------------------------------------------
(* request_pro: an active pro plan is left alone, any other becomes        *)
(* pending; the plan, and with it the limit, stays.                        *)
RequestPro == /\ sub # [plan |-> "pro", status |-> "active"]
              /\ sub' = [WithDefault EXCEPT !.status = "pending"]
              /\ UNCHANGED <<listed, session, unchecked>>

(* set_plan, by an administrator.                                          *)
SetPlan(plan, status) == /\ sub' = [plan |-> plan, status |-> status]
                         /\ UNCHANGED <<listed, session, unchecked>>

Next ==
    \/ \E s \in Sessions :
        \/ MeetRow(s) \/ MissRow(s) \/ InsertRow(s) \/ InsertFails(s)
        \/ CheckFails(s) \/ CreationFails(s) \/ ProcessDies(s)
        \/ \E p \in Spaces : Create(s, p)
    \/ \E p \in Spaces : Archive(p)
    \/ RequestPro
    \/ \E plan \in {"free", "pro"}, status \in {"active", "pending", "cancelled"} :
        SetPlan(plan, status)

Spec == Init /\ [][Next]_vars

-------------------------------------------------------------------------------
MaxLimit == IF FreeLimit > ProLimit THEN FreeLimit ELSE ProLimit

(* Safety: the checks of concurrent requests race, and one that loses the  *)
(* insert of the subscription row is not checked at all; still n requests  *)
(* at a time put a host at most n - 1 listings above the largest limit, and*)
(* one more for each request whose check failed otherwise.                 *)
OverrunBounded == Listings <= MaxLimit + Cardinality(Sessions) - 1 + unchecked
===============================================================================
