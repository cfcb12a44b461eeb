-------------------------------- MODULE Listing --------------------------------
(***************************************************************************)
(* One listing (a parking_spaces row) between the people who write it: the *)
(* host pauses, archives and has it verified or deletes the account, an    *)
(* administrator reviews, renters book.                                    *)
(*                                                                         *)
(* Every handler is a transaction at READ COMMITTED that reads first and   *)
(* writes later, mostly without a lock; SQLAlchemy writes only the columns *)
(* that differ from what it read.  So each handler is a reading and a      *)
(* writing action, and "saw" is what it goes by in between.                *)
(***************************************************************************)
EXTENDS Naturals, FiniteSets

CONSTANTS
    Sessions,       \* concurrent requests
    Bookings,       \* bookings renters may make
    Verifications   \* verification requests the host may file

VARIABLES
    space,          \* [status, owned, verified]; not owned: the host's account is deleted
    booking,        \* "active": pending or confirmed and not over yet
    review,         \* status of each verification request
    session,        \* what each request is doing: [op, arg, saw]
    crossed,        \* history: bookings made while the listing was being archived
    doubled         \* history: two requests were filed for one verification

vars == <<space, booking, review, session, crossed, doubled>>
history == <<crossed, doubled>>

Spaces == [status : {"active", "paused", "archived"}, owned : BOOLEAN, verified : BOOLEAN]
NewSpace == [status |-> "active", owned |-> TRUE, verified |-> FALSE]
Verdicts == {"approved", "rejected"}
Idle == [op |-> "idle", arg |-> "none", saw |-> NewSpace]

TypeOK ==
    /\ space \in Spaces
    /\ booking \in [Bookings -> {"none", "active", "over"}]
    /\ review \in [Verifications -> {"none", "pending"} \cup Verdicts]
    /\ \A s \in Sessions : session[s].saw \in Spaces
    /\ crossed \subseteq Bookings /\ doubled \in BOOLEAN

Init ==
    /\ space = NewSpace
    /\ booking = [b \in Bookings |-> "none"]
    /\ review = [v \in Verifications |-> "none"]
    /\ session = [s \in Sessions |-> Idle]
    /\ crossed = {} /\ doubled = FALSE

-------------------------------------------------------------------------------
Begin(s, op, arg) == /\ session[s] = Idle
                     /\ session' = [session EXCEPT ![s] = [op |-> op, arg |-> arg, saw |-> space]]
                     /\ UNCHANGED <<space, booking, review, history>>
Doing(s, op) == session[s].op = op
Saw(s) == session[s].saw
Unused(id) == \A s \in Sessions : session[s].arg # id
Finish(s) == session' = [session EXCEPT ![s] = Idle]

(* UPDATE of the columns whose new value differs from the one read.        *)
Flush(saw, new) == [f \in DOMAIN space |-> IF new[f] = saw[f] THEN space[f] ELSE new[f]]

OwnedSpace == space.owned /\ space.status # "archived"
NothingChecked == TRUE
NoActiveBooking == \A b \in Bookings : booking[b] # "active"

-------------------------------------------------------------------------------
(* Renters.  The checkout route reads the listing; BookingService.create   *)
(* selects it FOR UPDATE, but the session already holds the object and does*)
(* not refresh it, so the status checked under the lock is the one read    *)
(* before.                                                                 *)
Bookable == space.status = "active"

BookRead(s, b) == /\ booking[b] = "none" /\ Unused(b)
                  /\ Bookable
                  /\ Begin(s, "book", b)

(* Whoever archives has looked for bookings before, so one made now is not *)
(* found any more.                                                         *)
BeingArchived == \/ space.status = "archived"
                 \/ \E r \in Sessions : session[r].op \in {"archive", "delete"}

BookInsert(s) == /\ Doing(s, "book")
                 /\ booking' = [booking EXCEPT ![session[s].arg] = "active"]
                 /\ crossed' = IF BeingArchived THEN crossed \cup {session[s].arg} ELSE crossed
                 /\ Finish(s)
                 /\ UNCHANGED <<space, review, doubled>>

(* The stay ends, or the booking is cancelled or expires.                  *)
BookingEnds(b) == /\ booking[b] = "active"
                  /\ booking' = [booking EXCEPT ![b] = "over"]
                  /\ UNCHANGED <<space, review, session, history>>

-------------------------------------------------------------------------------
(* The host.                                                               *)

StatusRead(s, status) == /\ OwnedSpace
                         /\ Begin(s, "status", status)
StatusWrite(s) == /\ Doing(s, "status")
                  /\ space' = Flush(Saw(s), [Saw(s) EXCEPT !.status = session[s].arg])
                  /\ Finish(s)
                  /\ UNCHANGED <<booking, review, history>>

ArchiveRead(s) == /\ OwnedSpace /\ NoActiveBooking
                  /\ Begin(s, "archive", "none")
ArchiveWrite(s) == /\ Doing(s, "archive")
                   /\ space' = Flush(Saw(s), [Saw(s) EXCEPT !.status = "archived"])
                   /\ Finish(s)
                   /\ UNCHANGED <<booking, review, history>>

DeleteRead(s) == /\ space.owned /\ NoActiveBooking
                 /\ Begin(s, "delete", "none")
DeleteWrite(s) ==
    /\ Doing(s, "delete")
    /\ space' = Flush(Saw(s), [status |-> "archived", owned |-> FALSE, verified |-> FALSE])
    /\ Finish(s)
    /\ UNCHANGED <<booking, review, history>>

NonePending == \A v \in Verifications : review[v] # "pending"
Unverified == ~space.verified /\ NonePending

VerifyRead(s, v) == /\ review[v] = "none" /\ Unused(v)
                    /\ OwnedSpace /\ Unverified
                    /\ Begin(s, "verify", v)
(* Since this request was read to be the only one another was filed, or it *)
(* was filed and approved.                                                 *)
FiledMeanwhile(s) == ~NonePending \/ (space.verified /\ ~Saw(s).verified)

VerifyInsert(s) == /\ Doing(s, "verify")
                   /\ review' = [review EXCEPT ![session[s].arg] = "pending"]
                   /\ doubled' = (doubled \/ FiledMeanwhile(s))
                   /\ Finish(s)
                   /\ UNCHANGED <<space, booking, crossed>>

-------------------------------------------------------------------------------
(* An administrator: the verification request is locked, the listing not.  *)

RequestUnlocked(v) == v \in Verifications
RequestFree(v) == \A s \in Sessions : session[s].op \in Verdicts => session[s].arg # v
Reviewable(v) == review[v] = "pending"

ReviewRead(s, v, verdict) == /\ RequestFree(v) /\ Reviewable(v)
                             /\ Begin(s, verdict, v)
ArgTaken(s) == session[s].arg
Verdict(s) == session[s].op

ReviewWrite(s) ==
    /\ session[s].op \in Verdicts
    /\ review' = [review EXCEPT ![session[s].arg] = Verdict(s)]
    /\ space' = Flush(Saw(s), [Saw(s) EXCEPT !.verified = (Verdict(s) = "approved")])
    /\ Finish(s)
    /\ UNCHANGED <<booking, history>>

Next ==
    \/ \E s \in Sessions :
        \/ \E b \in Bookings : BookRead(s, b)
        \/ \E status \in {"active", "paused"} : StatusRead(s, status)
        \/ \E v \in Verifications :
            VerifyRead(s, v) \/ \E verdict \in Verdicts : ReviewRead(s, v, verdict)
        \/ ArchiveRead(s) \/ DeleteRead(s)
        \/ BookInsert(s) \/ StatusWrite(s) \/ ArchiveWrite(s) \/ DeleteWrite(s)
        \/ VerifyInsert(s) \/ ReviewWrite(s)
    \/ \E b \in Bookings : BookingEnds(b)

Spec == Init /\ [][Next]_vars

-------------------------------------------------------------------------------
(* Safety: a listing with an active booking is not archived, be it by the  *)
(* host or by the deletion of the account, unless the booking was made     *)
(* between the archiving handler's look at the bookings and the booking's  *)
(* own commit.                                                             *)
ActiveBookingHasSpace ==
    \A b \in Bookings : booking[b] = "active" /\ space.status = "archived" => b \in crossed

(* Action property: a booking is only ever made on an active listing.      *)
BookedOnlyWhenActive ==
    [][\A b \in Bookings : booking[b] = "none" /\ booking'[b] = "active"
                           => space.status = "active"]_vars

(* Safety: while the host has the account, a listing with the public badge *)
(* was approved, however requests, verdicts and other changes overlap; and *)
(* an approved one has the badge, no rejection takes it away, unless two   *)
(* requests were filed side by side.                                       *)
BadgeMatchesReview ==
    LET approved == \E v \in Verifications : review[v] = "approved" IN
    space.owned => /\ space.verified => approved
                   /\ approved => space.verified \/ doubled

(* Action property: a reviewed request keeps its verdict, also when two    *)
(* administrators review it at once.                                       *)
VerdictIsFinal ==
    [][\A v \in Verifications : review[v] \in Verdicts => review'[v] = review[v]]_vars
===============================================================================
