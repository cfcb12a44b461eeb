-------------------------------- MODULE Reviews --------------------------------
(***************************************************************************)
(* The reviews of one listing and the count and average its row shows.     *)
(*                                                                         *)
(* POST /api/bookings/{id}/review checks that the stay is over and not     *)
(* reviewed, inserts the review, counts and averages the listing's reviews *)
(* and writes both into the parking_spaces row, all at READ COMMITTED and  *)
(* without a lock: every statement sees what is committed when it starts,  *)
(* and its own transaction's insert.                                       *)
(***************************************************************************)
EXTENDS Integers, FiniteSets, FiniteSetsExt

CONSTANTS
    Bookings,       \* bookings of the listing
    Sessions,       \* concurrent requests
    Ratings         \* the stars renters give

VARIABLES
    stay,           \* "none", "active" (pending or confirmed, not over), "over"
                    \* (confirmed, its end has passed) or "cancelled" (or expired)
    review,         \* reviews.rating by booking, 0: no row
    shown,          \* parking_spaces.review_count and rating, in tenths
    author,         \* what each request has read and inserted so far
    drifted         \* history: the last review overlapped another

vars == <<stay, review, shown, author, drifted>>
rows == <<stay, review, shown, drifted>>

Silent == [pc |-> "idle", on |-> "none", stars |-> 0, count |-> 0, rating |-> 0,
           saw |-> [count |-> 0, rating |-> 0], overtaken |-> FALSE]
(* A host's listing starts with nothing, a demonstration listing with      *)
(* invented reviews (seed.py).                                             *)
Fresh == [count |-> 0, rating |-> 0]
Seeded == [count |-> 42, rating |-> 47]

TypeOK ==
    /\ stay \in [Bookings -> {"none", "active", "over", "cancelled"}]
    /\ review \in [Bookings -> {0} \cup Ratings]
    /\ shown \in [count : 0..Cardinality(Bookings), rating : 0..50] \cup {Seeded}
    /\ \A s \in Sessions :
        author[s].pc \in {"idle", "checked", "inserted", "counted", "averaged", "loaded"}

Init ==
    /\ stay = [b \in Bookings |-> "none"]
    /\ review = [b \in Bookings |-> 0]
    /\ shown \in {Fresh, Seeded}
    /\ author = [s \in Sessions |-> Silent]
    /\ drifted = FALSE

-------------------------------------------------------------------------------
(* The stays.  A cancellation looks at the status only, so it may come     *)
(* after the end of the stay.                                              *)
StayBooked(b) == /\ stay[b] = "none"
                 /\ stay' = [stay EXCEPT ![b] = "active"]
                 /\ UNCHANGED <<review, shown, author, drifted>>
StayEnds(b) == /\ stay[b] = "active"
               /\ stay' = [stay EXCEPT ![b] = "over"]
               /\ UNCHANGED <<review, shown, author, drifted>>
StayCancelled(b) == /\ stay[b] \in {"active", "over"}
                    /\ stay' = [stay EXCEPT ![b] = "cancelled"]
                    /\ UNCHANGED <<review, shown, author, drifted>>

-------------------------------------------------------------------------------
(* create_review, statement by statement.                                  *)

At(s, pc) == author[s].pc = pc
Set(s, pc, field, value) == author' = [author EXCEPT ![s].pc = pc, ![s][field] = value]

ReviewRead(s, b, stars) ==
    /\ At(s, "idle") /\ stay[b] = "over" /\ review[b] = 0
    /\ author' = [author EXCEPT ![s] = [Silent EXCEPT !.pc = "checked", !.on = b,
                                                      !.stars = stars]]
    /\ UNCHANGED rows

(* uq_reviews_booking_id: a second insert waits for the first to commit or *)
(* to roll back, and fails if it committed.                                *)
Uncommitted == {"inserted", "counted", "averaged", "loaded"}
UniqueKey(s) == review[author[s].on] = 0
InsertWaits(s) == \E t \in Sessions \ {s} :
                      author[t].pc \in Uncommitted /\ author[t].on = author[s].on

ReviewInsert(s) == /\ At(s, "checked") /\ ~InsertWaits(s) /\ UniqueKey(s)
                   /\ author' = [author EXCEPT ![s].pc = "inserted"]
                   /\ UNCHANGED rows

(* The reviews a statement of s sees.                                      *)
SeenByOthers(s) == review                       \* not flushed yet
SeenBy(s) == [review EXCEPT ![author[s].on] = author[s].stars]
Given(r) == {b \in Bookings : r[b] # 0}
CountOf(r) == Cardinality(Given(r))
(* round(avg, 1).  From four reviews on an average may lie half way between*)
(* two tenths: it is rounded up here, in the code up or down, to the nearer*)
(* as a float has it or else to even.                                      *)
AverageOf(r) ==
    LET n == CountOf(r)
        total == MapThenSumSet(LAMBDA b : r[b], Given(r))
    IN  IF n = 0 THEN 0 ELSE (20 * total + n) \div (2 * n)

ReviewCount(s) ==
    /\ At(s, "inserted")
    /\ author' = [author EXCEPT ![s].pc = "counted", ![s].count = CountOf(SeenBy(s)),
                                ![s].overtaken = FALSE]
    /\ UNCHANGED rows
ReviewAverage(s) == /\ At(s, "counted")
                    /\ Set(s, "averaged", "rating", AverageOf(SeenBy(s)))
                    /\ UNCHANGED rows
ReviewLoad(s) == /\ At(s, "averaged")
                 /\ Set(s, "loaded", "saw", shown)
                 /\ UNCHANGED rows

(* The commit: only the columns that differ from the loaded row are        *)
(* written, each with the value computed before.  The rating is loaded as a*)
(* Decimal and computed as a float, which are equal only if they are both  *)
(* exact: tenths are not, but for wholes and halves.                       *)
SameRating(loaded, computed) == loaded = computed /\ computed % 5 = 0
AddOne(s) == [shown EXCEPT !.count = @ + 1, !.rating = author[s].rating]
WriteChanged(s) ==
    [shown EXCEPT !.count = IF author[s].count = author[s].saw.count THEN @ ELSE author[s].count,
                  !.rating = IF SameRating(author[s].saw.rating, author[s].rating)
                             THEN @ ELSE author[s].rating]

ReviewCommit(s) ==
    /\ At(s, "loaded")
    /\ review' = [review EXCEPT ![author[s].on] = author[s].stars]
    /\ shown' = WriteChanged(s)
    /\ drifted' = author[s].overtaken
    /\ author' = [t \in Sessions |-> IF t = s THEN Silent
                                     ELSE [author[t] EXCEPT !.overtaken = TRUE]]
    /\ UNCHANGED stay

(* The insert fails or the handler dies; everything is rolled back.        *)
ReviewFails(s) == /\ ~At(s, "idle")
                  /\ author' = [author EXCEPT ![s] = Silent]
                  /\ UNCHANGED rows

ReviewStep(s) ==
    \/ \E b \in Bookings, stars \in Ratings : ReviewRead(s, b, stars)
    \/ ReviewInsert(s) \/ ReviewCount(s) \/ ReviewAverage(s) \/ ReviewLoad(s)
    \/ ReviewCommit(s) \/ ReviewFails(s)

Next == \/ \E s \in Sessions : ReviewStep(s)
        \/ \E b \in Bookings : StayBooked(b) \/ StayEnds(b) \/ StayCancelled(b)

Spec == Init /\ [][Next]_vars

-------------------------------------------------------------------------------
(* Safety: reviews that overlap lose each other's counts, but one that     *)
(* overlaps no other puts count and average right again, also on a listing *)
(* that started with invented numbers.                                     *)
AggregatesRecover ==
    Given(review) # {} /\ ~drifted => shown = [count |-> CountOf(review),
                                               rating |-> AverageOf(review)]

(* Safety: whatever overlapped, a reviewed listing never shows more reviews*)
(* than it has, none at all, or an average outside the stars given.        *)
AggregatesPlausible ==
    LET given == Given(review) IN
    given # {} =>
        /\ shown.count \in 1..CountOf(review)
        /\ \E b, c \in given : 10 * review[b] <= shown.rating /\ shown.rating <= 10 * review[c]
===============================================================================
