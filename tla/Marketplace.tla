------------------------------ MODULE Marketplace ------------------------------
(***************************************************************************)
(* A host, the host's listings and the people around one of them: Listing, *)
(* HostPlan and Reviews composed.  They share the listing's row, the stays *)
(* and the requests, and a handler that concerns two of them is one step of*)
(* both: a booking is a stay, archiving a listing frees a place of the     *)
(* plan, and deleting the account archives all the host's listings.        *)
(***************************************************************************)
EXTENDS Naturals, FiniteSets

CONSTANTS
    Sessions,       \* concurrent requests
    Bookings,       \* bookings of the listing
    Verifications,  \* its verification requests
    Ratings,        \* see Reviews
    Others,         \* further listings the host may create
    FreeLimit, ProLimit,
    MaxUnchecked,   \* bound: see HostPlan
    First           \* the listing that is booked and reviewed

ASSUME MarketplaceAssumption ==
    /\ Ratings \subseteq 1..5
    /\ FreeLimit \in Nat \ {0} /\ ProLimit \in Nat \ {0}
    /\ MaxUnchecked \in Nat
    /\ First \notin Others
    /\ IsFiniteSet(Sessions) /\ IsFiniteSet(Others)

VARIABLES
    space, verification, lsession, crossed, doubled,    \* Listing
    others, sub, psession, unchecked,                   \* HostPlan
    stay, review, shown, author, drifted,               \* Reviews
    swept,          \* the other listings a deletion of the account has read
    focus           \* bound: what happens besides the host's own operations

lvars == <<space, verification, lsession, crossed, doubled>>
pvars == <<others, sub, psession, unchecked>>
rvars == <<stay, review, shown, author, drifted>>
vars == <<lvars, pvars, rvars, swept, focus>>

(* To archiving, deletion and booking a stay that is over or cancelled is  *)
(* all the same.                                                           *)
Taken == [b \in Bookings |-> IF stay[b] = "cancelled" THEN "over" ELSE stay[b]]
StillListed == [p \in Others \cup {First} |->
                  IF p # First THEN others[p]
                  ELSE IF space.status = "archived" THEN "archived" ELSE "live"]

L == INSTANCE Listing WITH booking <- Taken, review <- verification, session <- lsession
P == INSTANCE HostPlan WITH Spaces <- Others \cup {First}, listed <- StillListed,
                            session <- psession
R == INSTANCE Reviews

TypeOK == /\ L!TypeOK /\ P!TypeOK /\ R!TypeOK
          /\ swept \subseteq Others

(* The listing is the host's, or one of the demonstration listings that    *)
(* seed.py makes: verified, without an owner, and with invented reviews.   *)
(* Nothing here archives those again (see Migrations).                     *)
Demonstration ==
    /\ space = [L!NewSpace EXCEPT !.owned = FALSE, !.verified = TRUE]
    /\ verification = [v \in Verifications |-> "none"]
    /\ lsession = [s \in Sessions |-> L!Idle]
    /\ crossed = {} /\ doubled = FALSE

(* The host has a listing, but none of the plans that came after it        *)
(* (0010_launch_operations.py).  Plan, listing and reviews have nothing in  *)
(* common but the stays and the listing's owner, so a behaviour is about   *)
(* one of them: about the plan and the listing's status, about the listing *)
(* and its stays, or about the stays and their reviews.                    *)
Init == /\ R!Init
        /\ focus \in {"plan", "listing", "reviews"}
        /\ \/ shown = R!Fresh /\ L!Init
           \/ shown = R!Seeded /\ focus # "plan" /\ Demonstration
        /\ others = [p \in Others |-> "none"]
        /\ sub = P!NoSubscription
        /\ psession = [s \in Sessions |-> "idle"]
        /\ unchecked = 0
        /\ swept = {}

(* A request is in one handler.                                            *)
Free(s) == /\ lsession[s] = L!Idle /\ psession[s] = "idle"
           /\ author[s] = R!Silent

-------------------------------------------------------------------------------
(* The host and the administrators, on the listing.                        *)
ListingStep(s) ==
    /\ focus # "reviews" /\ UNCHANGED <<pvars, rvars, swept, focus>>
    /\ \/ Free(s) /\ \/ \E status \in {"active", "paused"} : L!StatusRead(s, status)
                     \/ L!ArchiveRead(s)
       \/ L!StatusWrite(s) \/ L!ArchiveWrite(s)

VerificationStep(s) ==
    /\ focus = "listing" /\ UNCHANGED <<pvars, rvars, swept, focus>>
    /\ \/ Free(s) /\ \E v \in Verifications :
            L!VerifyRead(s, v) \/ \E verdict \in L!Verdicts : L!ReviewRead(s, v, verdict)
       \/ L!VerifyInsert(s) \/ L!ReviewWrite(s)

(* delete_account: every listing the host has when they are read.          *)
AllListings == {p \in Others : others[p] = "live"}

DeletionRead(s) == /\ focus # "reviews" /\ Free(s)
                   /\ UNCHANGED <<pvars, rvars, focus>>
                   /\ L!DeleteRead(s)
                   /\ swept' = AllListings
DeletionWrite(s) ==
    /\ UNCHANGED <<sub, psession, unchecked, rvars, focus>>
    /\ L!DeleteWrite(s)
    /\ others' = [p \in Others |-> IF p \in swept THEN "archived" ELSE others[p]]
    /\ swept' = {}

-------------------------------------------------------------------------------
(* The plan.                                                               *)
AnyAccount == TRUE
AccountActive == space.owned

Creation(s) ==
    /\ focus = "plan" /\ UNCHANGED <<lvars, rvars, swept, focus>>
    /\ \/ /\ Free(s) /\ AccountActive
          /\ UNCHANGED others
          /\ P!MeetRow(s) \/ P!MissRow(s) \/ P!CheckFails(s)
       \/ /\ psession[s] # "idle" /\ UNCHANGED others
          /\ \/ P!InsertRow(s) \/ P!InsertFails(s) \/ P!CheckFails(s)
             \/ P!CreationFails(s) \/ P!ProcessDies(s)
       \/ \E p \in Others : /\ others' = [others EXCEPT ![p] = "live"]
                            /\ P!Create(s, p)

PlanStep ==
    /\ focus = "plan" /\ UNCHANGED <<lvars, rvars, swept, focus>>
    /\ \/ /\ UNCHANGED others
          /\ \/ AccountActive /\ P!RequestPro
             \/ \E plan \in {"free", "pro"}, status \in {"active", "pending", "cancelled"} :
                    P!SetPlan(plan, status)
       \/ \E p \in Others : /\ AccountActive
                            /\ others' = [others EXCEPT ![p] = "archived"]
                            /\ P!Archive(p)

-------------------------------------------------------------------------------
(* The renters.                                                            *)
BookingStep(s) ==
    /\ focus # "plan" /\ UNCHANGED <<pvars, swept, focus>>
    /\ \/ Free(s) /\ UNCHANGED rvars /\ \E b \in Bookings : L!BookRead(s, b)
       \/ \E b \in Bookings : R!StayBooked(b) /\ lsession[s].arg = b /\ L!BookInsert(s)

StayStep(b) ==
    /\ focus # "plan" /\ UNCHANGED <<pvars, swept, focus>>
    /\ R!StayEnds(b) \/ R!StayCancelled(b)
    /\ L!BookingEnds(b) \/ (stay[b] = "over" /\ UNCHANGED lvars)

ReviewStep(s) ==
    /\ focus = "reviews" /\ UNCHANGED <<lvars, pvars, swept, focus>>
    /\ author[s] = R!Silent => Free(s)
    /\ R!ReviewStep(s)

Next ==
    \/ \E s \in Sessions :
        \/ ListingStep(s) \/ VerificationStep(s) \/ DeletionRead(s) \/ DeletionWrite(s)
        \/ Creation(s) \/ BookingStep(s) \/ ReviewStep(s)
    \/ PlanStep
    \/ \E b \in Bookings : StayStep(b)

Spec == Init /\ [][Next]_vars

-------------------------------------------------------------------------------
(* Safety and action properties of Listing, in the whole: a booking that   *)
(* still runs has its listing, the badge says whether a request was        *)
(* approved, both with their exceptions, and a verdict is never reversed.  *)
ActiveBookingHasSpace == L!ActiveBookingHasSpace
BadgeMatchesReview == L!BadgeMatchesReview
VerdictIsFinal == L!VerdictIsFinal

(* Safety property of HostPlan: racing creations overrun the limit by less *)
(* than their number, failed checks by one each.                           *)
OverrunBounded == P!OverrunBounded

(* Safety properties of Reviews: the next review of a listing repairs a    *)
(* count and average that a race left wrong; till then they stay plausible.*)
AggregatesRecover == R!AggregatesRecover
AggregatesPlausible == R!AggregatesPlausible

(* Action property: once the account is deleted no request begins that     *)
(* would add to its listings, so those that outlive it are of requests that*)
(* were in flight: creations, and changes of status that bring the archived*)
(* listing back.                                                           *)
Creations == {s \in Sessions : psession[s] # "idle"}
Reopenings == {s \in Sessions : lsession[s].op = "status"}
Promised == P!Listings + Cardinality(Creations \cup Reopenings)
DeletedHostStops == [][~space.owned => Promised' <= Promised]_vars
===============================================================================
