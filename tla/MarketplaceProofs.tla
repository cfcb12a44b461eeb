--------------------------- MODULE MarketplaceProofs ---------------------------
(***************************************************************************)
(* Proofs about a listing in Marketplace, for any sets of requests,        *)
(* bookings and verification requests, whatever operations overlap.        *)
(***************************************************************************)
EXTENDS Marketplace, FiniteSetTheorems, WellFoundedInduction, TLAPS

(* The types of what a listing's handlers use.                             *)
Ops == {"idle", "book", "status", "archive", "delete", "verify"} \cup L!Verdicts
Args == Bookings \cup Verifications \cup {"none", "active", "paused"}
OnRequests == {"verify"} \cup L!Verdicts
Works ==
    {w \in [op : Ops, arg : Args, saw : L!Spaces] :
        /\ w.op = "book" => w.arg \in Bookings
        /\ w.op \in OnRequests => w.arg \in Verifications
        /\ w.op = "status" => w.arg \in {"active", "paused"}}
ListingTypes ==
    /\ space \in L!Spaces
    /\ Taken \in [Bookings -> {"none", "active", "over"}]
    /\ verification \in [Verifications -> {"none", "pending"} \cup L!Verdicts]
    /\ lsession \in [Sessions -> Works]
    /\ crossed \subseteq Bookings /\ doubled \in BOOLEAN
StayTypes == stay \in [Bookings -> {"none", "active", "over", "cancelled"}]

(* The stays keep their types.                                             *)
LEMMA StayTypesHold == Spec => []StayTypes
  <1>1. Init => StayTypes
    BY DEF Init, R!Init, StayTypes
  <1>2. StayTypes /\ [Next]_vars => StayTypes'
    BY DEF StayTypes, Next, vars, rvars, ListingStep, VerificationStep, DeletionRead,
           DeletionWrite, Creation, PlanStep, BookingStep, StayStep, ReviewStep,
           R!ReviewStep, R!ReviewRead, R!ReviewInsert, R!ReviewCount, R!ReviewAverage,
           R!ReviewLoad, R!ReviewCommit, R!ReviewFails, R!rows, R!StayBooked,
           R!StayEnds, R!StayCancelled
  <1>3. QED
    BY <1>1, <1>2, PTL DEF Spec

(* Whatever happens around the listing, to the listing it is a step of     *)
(* Listing, or none.                                                       *)
LEMMA ListingSteps == StayTypes /\ [Next]_vars => [L!Next]_(L!vars)
  <1> SUFFICES ASSUME StayTypes, [Next]_vars PROVE [L!Next]_(L!vars)
    OBVIOUS
  <1>1. UNCHANGED stay => UNCHANGED Taken
    BY DEF Taken
  <1>2. ASSUME NEW s \in Sessions, ListingStep(s) PROVE L!Next
    BY <1>1, <1>2 DEF ListingStep, L!Next, rvars, L!StatusRead
  <1>3. ASSUME NEW s \in Sessions, VerificationStep(s) PROVE L!Next
    BY <1>3 DEF VerificationStep, L!Next
  <1>4. ASSUME NEW s \in Sessions, DeletionRead(s) \/ DeletionWrite(s) PROVE L!Next
    BY <1>4 DEF DeletionRead, DeletionWrite, L!Next
  <1>5. ASSUME NEW s \in Sessions, BookingStep(s) PROVE L!Next
    BY <1>5 DEF BookingStep, L!Next
  <1>6. ASSUME NEW s \in Sessions, Creation(s) \/ ReviewStep(s) PROVE UNCHANGED L!vars
    <2>1. UNCHANGED stay
      BY <1>6 DEF Creation, ReviewStep, R!ReviewStep, R!ReviewRead, R!ReviewInsert,
                  R!ReviewCount, R!ReviewAverage, R!ReviewLoad, R!ReviewCommit,
                  R!ReviewFails, R!rows, rvars
    <2>2. UNCHANGED lvars
      BY <1>6 DEF Creation, ReviewStep
    <2>3. QED
      BY <1>1, <2>1, <2>2 DEF lvars, L!vars
  <1>7. CASE PlanStep
    BY <1>1, <1>7 DEF PlanStep, L!vars, lvars, rvars
  <1>8. ASSUME NEW b \in Bookings, StayStep(b) PROVE [L!Next]_(L!vars)
    <2>1. CASE L!BookingEnds(b)
      BY <2>1 DEF L!Next
    <2>2. CASE stay[b] = "over" /\ UNCHANGED lvars
      <3>1. R!StayCancelled(b)
        BY <1>8, <2>2 DEF StayStep, R!StayEnds
      <3>2. stay' = [stay EXCEPT ![b] = "cancelled"]
        BY <3>1 DEF R!StayCancelled
      <3>3. UNCHANGED Taken
        BY <3>2, <2>2 DEF Taken, StayTypes
      <3>4. QED
        BY <2>2, <3>3 DEF L!vars, lvars
    <2>3. QED
      BY <1>8, <2>1, <2>2 DEF StayStep
  <1>9. CASE UNCHANGED vars
    BY <1>1, <1>9 DEF vars, lvars, rvars, L!vars
  <1>10. QED
    BY <1>2, <1>3, <1>4, <1>5, <1>6, <1>7, <1>8, <1>9 DEF Next

(* A flush writes some of the new values, and makes a listing of a listing.*)
LEMMA FlushTypes ==
    ASSUME space \in L!Spaces, NEW saw \in L!Spaces, NEW new \in L!Spaces
    PROVE  L!Flush(saw, new) = [status |-> IF new.status = saw.status THEN space.status
                                           ELSE new.status,
                                owned |-> IF new.owned = saw.owned THEN space.owned
                                          ELSE new.owned,
                                verified |-> IF new.verified = saw.verified
                                             THEN space.verified ELSE new.verified]
  BY DEF L!Flush, L!Spaces

(* What a handler writes into the listing, given what it saw.              *)
LEMMA StatusWritten ==
    ASSUME ListingTypes, NEW s \in Sessions, L!StatusWrite(s)
    PROVE  /\ space' \in L!Spaces
           /\ space'.status \in {space.status, "active", "paused"}
           /\ space'.owned = space.owned /\ space'.verified = space.verified
  <1> DEFINE saw == lsession[s].saw
             new == [saw EXCEPT !.status = lsession[s].arg]
  <1>1. saw \in L!Spaces /\ space \in L!Spaces
    BY DEF ListingTypes, Works
  <1>2. /\ new \in L!Spaces /\ new.status \in {"active", "paused"}
        /\ new.owned = saw.owned /\ new.verified = saw.verified
    BY <1>1 DEF L!StatusWrite, L!Doing, ListingTypes, Works, L!Spaces
  <1>3. space' = L!Flush(saw, new)
    BY DEF L!StatusWrite, L!Saw
  <1> HIDE DEF new
  <1>4. space' = [status |-> IF new.status = saw.status THEN space.status ELSE new.status,
                  owned |-> space.owned, verified |-> space.verified]
    BY <1>1, <1>2, <1>3, FlushTypes
  <1>5. QED
    BY <1>1, <1>2, <1>4 DEF L!Spaces

(* An archive flushes the status at most: it archives the listing or       *)
(* leaves it.                                                              *)
LEMMA ArchiveWritten ==
    ASSUME ListingTypes, NEW s \in Sessions, L!ArchiveWrite(s)
    PROVE  /\ space' \in L!Spaces
           /\ space'.status \in {space.status, "archived"}
           /\ space'.owned = space.owned /\ space'.verified = space.verified
  <1> DEFINE saw == lsession[s].saw
             new == [saw EXCEPT !.status = "archived"]
  <1>1. saw \in L!Spaces /\ space \in L!Spaces
    BY DEF ListingTypes, Works
  <1>2. /\ new \in L!Spaces /\ new.status = "archived"
        /\ new.owned = saw.owned /\ new.verified = saw.verified
    BY <1>1 DEF L!Spaces
  <1>3. space' = L!Flush(saw, new)
    BY DEF L!ArchiveWrite, L!Saw
  <1> HIDE DEF new
  <1>4. space' = [status |-> IF new.status = saw.status THEN space.status ELSE new.status,
                  owned |-> space.owned, verified |-> space.verified]
    BY <1>1, <1>2, <1>3, FlushTypes
  <1>5. QED
    BY <1>1, <1>2, <1>4 DEF L!Spaces

(* The deletion of the account flushes the status and the owner of what    *)
(* it has read.                                                            *)
LEMMA DeleteWritten ==
    ASSUME ListingTypes, NEW s \in Sessions, L!DeleteWrite(s)
    PROVE  /\ space' \in L!Spaces
           /\ space'.status \in {space.status, "archived"}
           /\ space'.owned = (space.owned /\ ~lsession[s].saw.owned)
  <1> DEFINE saw == lsession[s].saw
             new == [status |-> "archived", owned |-> FALSE, verified |-> FALSE]
  <1>1. saw \in L!Spaces /\ space \in L!Spaces
    BY DEF ListingTypes, Works
  <1>2. /\ new \in L!Spaces /\ new.status = "archived"
        /\ new.owned = FALSE /\ new.verified = FALSE
    BY DEF L!Spaces
  <1>3. space' = L!Flush(saw, new)
    BY DEF L!DeleteWrite, L!Saw
  <1> HIDE DEF new
  <1>4. space' = [status |-> IF new.status = saw.status THEN space.status ELSE new.status,
                  owned |-> IF new.owned = saw.owned THEN space.owned ELSE new.owned,
                  verified |-> IF new.verified = saw.verified THEN space.verified
                               ELSE new.verified]
    BY <1>1, <1>2, <1>3, FlushTypes
  <1>5. QED
    BY <1>1, <1>2, <1>4 DEF L!Spaces

(* A verdict flushes the badge alone, and only if it differs from the      *)
(* badge that was read.                                                    *)
LEMMA ReviewWritten ==
    ASSUME ListingTypes, NEW s \in Sessions, L!ReviewWrite(s)
    PROVE  /\ space' \in L!Spaces
           /\ space'.status = space.status /\ space'.owned = space.owned
           /\ space'.verified = IF lsession[s].saw.verified = (lsession[s].op = "approved")
                                THEN space.verified ELSE lsession[s].op = "approved"
  <1> DEFINE saw == lsession[s].saw
             new == [saw EXCEPT !.verified = (lsession[s].op = "approved")]
  <1>1. saw \in L!Spaces /\ space \in L!Spaces
    BY DEF ListingTypes, Works
  <1>2. /\ new \in L!Spaces /\ new.verified = (lsession[s].op = "approved")
        /\ new.owned = saw.owned /\ new.status = saw.status
    BY <1>1 DEF L!Spaces
  <1>3. space' = L!Flush(saw, new)
    BY DEF L!ReviewWrite, L!Saw, L!Verdict
  <1> HIDE DEF new
  <1>4. space' = [status |-> space.status, owned |-> space.owned,
                  verified |-> IF new.verified = saw.verified THEN space.verified
                               ELSE new.verified]
    BY <1>1, <1>2, <1>3, FlushTypes
  <1>5. QED
    BY <1>1, <1>2, <1>4 DEF L!Spaces

-------------------------------------------------------------------------------
(* A handler that begins, with what it has made sure of; and one that      *)
(* writes and ends.                                                        *)
Checked(op, arg) ==
    CASE op = "book"    -> arg \in Bookings /\ L!Bookable
      [] op = "status"  -> arg \in {"active", "paused"} /\ L!OwnedSpace
      [] op = "archive" -> arg = "none" /\ L!NoActiveBooking
      [] op = "delete"  -> arg = "none" /\ space.owned /\ L!NoActiveBooking
      [] op = "verify"  -> /\ arg \in Verifications /\ verification[arg] = "none"
                           /\ L!Unused(arg) /\ space.owned /\ L!Unverified
      [] op \in L!Verdicts -> /\ arg \in Verifications /\ verification[arg] = "pending"
                              /\ L!RequestFree(arg)
Begins(s, op, arg) ==
    /\ lsession[s] = L!Idle /\ Checked(op, arg)
    /\ lsession' = [lsession EXCEPT ![s] = [op |-> op, arg |-> arg, saw |-> space]]
    /\ UNCHANGED <<space, Taken, verification, crossed, doubled>>
Writes(s) == \/ L!BookInsert(s) \/ L!StatusWrite(s) \/ L!ArchiveWrite(s)
             \/ L!DeleteWrite(s) \/ L!VerifyInsert(s) \/ L!ReviewWrite(s)

(* A step of the listing begins a request, writes what one has read, or    *)
(* ends a booking.                                                         *)
LEMMA ListingSummary ==
    ASSUME [L!Next]_(L!vars)
    PROVE  \/ \E s \in Sessions, op \in Ops \ {"idle"}, arg \in Args : Begins(s, op, arg)
           \/ \E s \in Sessions : Writes(s)
           \/ \E b \in Bookings : L!BookingEnds(b)
           \/ UNCHANGED <<space, Taken, verification, lsession, crossed, doubled>>
  <1> DEFINE Some == \E s \in Sessions, op \in Ops \ {"idle"}, arg \in Args : Begins(s, op, arg)
  <1> USE DEF Ops, Args, Begins, Checked, L!Begin, L!Verdicts, L!history
  <1>1. ASSUME NEW s \in Sessions, NEW b \in Bookings, L!BookRead(s, b) PROVE Some
    <2>1. Begins(s, "book", b)
      BY <1>1 DEF L!BookRead
    <2>2. QED
      BY <2>1
  <1>2. ASSUME NEW s \in Sessions, NEW status \in {"active", "paused"},
               L!StatusRead(s, status)
        PROVE  Some
    <2>1. Begins(s, "status", status)
      BY <1>2 DEF L!StatusRead
    <2>2. QED
      BY <2>1
  <1>3. ASSUME NEW s \in Sessions, L!ArchiveRead(s) PROVE Some
    <2>1. Begins(s, "archive", "none")
      BY <1>3 DEF L!ArchiveRead
    <2>2. QED
      BY <2>1
  <1>4. ASSUME NEW s \in Sessions, L!DeleteRead(s) PROVE Some
    <2>1. Begins(s, "delete", "none")
      BY <1>4 DEF L!DeleteRead
    <2>2. QED
      BY <2>1
  <1>5. ASSUME NEW s \in Sessions, NEW v \in Verifications, L!VerifyRead(s, v) PROVE Some
    <2>1. Begins(s, "verify", v)
      BY <1>5 DEF L!VerifyRead, L!OwnedSpace
    <2>2. QED
      BY <2>1
  <1>6. ASSUME NEW s \in Sessions, NEW v \in Verifications, NEW verdict \in L!Verdicts,
               L!ReviewRead(s, v, verdict)
        PROVE  Some
    <2>1. Begins(s, verdict, v)
      BY <1>6 DEF L!ReviewRead, L!Reviewable
    <2>2. QED
      BY <2>1
  <1> HIDE DEF Some
  <1>7. QED
    BY <1>1, <1>2, <1>3, <1>4, <1>5, <1>6 DEF L!Next, L!vars, Writes, Some

(* A handler that writes ends.                                             *)
LEMMA WritesEnd ==
    ASSUME NEW s \in Sessions, Writes(s)
    PROVE  lsession' = [lsession EXCEPT ![s] = L!Idle]
  BY DEF Writes, L!BookInsert, L!StatusWrite, L!ArchiveWrite, L!DeleteWrite,
         L!VerifyInsert, L!ReviewWrite, L!Finish

(* Every step keeps the types.                                             *)
LEMMA ListingTypesStep ==
    ASSUME ListingTypes, [L!Next]_(L!vars)
    PROVE  ListingTypes'
  <1>0. space \in L!Spaces /\ L!Idle \in Works
    BY DEF ListingTypes, Works, Ops, Args, OnRequests, L!Idle, L!NewSpace, L!Spaces, L!Verdicts
  <1>1. ASSUME NEW s \in Sessions, NEW op \in Ops \ {"idle"}, NEW arg \in Args, Begins(s, op, arg)
        PROVE  ListingTypes'
    <2>1. /\ op = "book" => arg \in Bookings
          /\ op \in OnRequests => arg \in Verifications
          /\ op = "status" => arg \in {"active", "paused"}
      BY <1>1 DEF Begins, Checked, Ops, OnRequests, L!Verdicts
    <2>2. [op |-> op, arg |-> arg, saw |-> space] \in Works
      BY <1>0, <2>1 DEF Works
    <2>3. QED
      BY <1>1, <2>2 DEF ListingTypes, Begins
  <1>2. ASSUME NEW s \in Sessions, Writes(s) PROVE ListingTypes'
    <2>1. lsession' \in [Sessions -> Works]
      BY <1>0, <1>2, WritesEnd DEF ListingTypes
    <2>2. CASE L!BookInsert(s)
      <3>1. crossed' \subseteq Bookings /\ doubled' = doubled
        BY <2>2 DEF L!BookInsert, L!Doing, ListingTypes, Works
      <3>2. QED
        BY <2>1, <2>2, <3>1 DEF L!BookInsert, ListingTypes
    <2>3. CASE L!StatusWrite(s)
      BY <2>1, <2>3, StatusWritten DEF L!StatusWrite, L!history, ListingTypes
    <2>4. CASE L!ArchiveWrite(s)
      BY <2>1, <2>4, ArchiveWritten DEF L!ArchiveWrite, L!history, ListingTypes
    <2>5. CASE L!DeleteWrite(s)
      BY <2>1, <2>5, DeleteWritten DEF L!DeleteWrite, L!history, ListingTypes
    <2>6. CASE L!VerifyInsert(s)
      BY <2>1, <2>6 DEF L!VerifyInsert, ListingTypes
    <2>7. CASE L!ReviewWrite(s)
      <3>1. space' \in L!Spaces
        BY <2>7, ReviewWritten
      <3>2. QED
        BY <2>1, <2>7, <3>1 DEF L!ReviewWrite, L!Verdict, L!history, ListingTypes
    <2>8. QED
      BY <1>2, <2>2, <2>3, <2>4, <2>5, <2>6, <2>7 DEF Writes
  <1>3. ASSUME NEW b \in Bookings, L!BookingEnds(b) PROVE ListingTypes'
    BY <1>3 DEF L!BookingEnds, L!history, ListingTypes
  <1>4. CASE UNCHANGED <<space, Taken, verification, lsession, crossed, doubled>>
    BY <1>4 DEF ListingTypes
  <1>5. QED
    BY <1>1, <1>2, <1>3, <1>4, ListingSummary

(* The initial states have the types.                                      *)
LEMMA ListingTypesInit == Init => ListingTypes
  <1>1. L!Idle \in Works /\ L!NewSpace \in L!Spaces
    BY DEF Works, Ops, Args, OnRequests, L!Idle, L!NewSpace, L!Spaces, L!Verdicts
  <1>2. Init => Taken = [b \in Bookings |-> "none"]
    BY DEF Init, R!Init, Taken
  <1>3. Init => space \in L!Spaces
    <2>1. L!Init => space = L!NewSpace
      BY DEF L!Init
    <2>2. Demonstration => space = [L!NewSpace EXCEPT !.owned = FALSE, !.verified = TRUE]
      BY DEF Demonstration
    <2>3. [L!NewSpace EXCEPT !.owned = FALSE, !.verified = TRUE] \in L!Spaces
      BY DEF L!Spaces, L!NewSpace
    <2>4. QED
      BY <1>1, <2>1, <2>2, <2>3 DEF Init
  <1>4. Init => /\ verification = [v \in Verifications |-> "none"]
                /\ lsession = [s \in Sessions |-> L!Idle]
                /\ crossed = {} /\ doubled = FALSE
    BY DEF Init, L!Init, Demonstration
  <1>5. QED
    BY <1>1, <1>2, <1>3, <1>4 DEF ListingTypes

-------------------------------------------------------------------------------
(* Verdicts.  Whoever is at a request has it for himself: a filing writes  *)
(* a request that is not there, a review one that is pending.              *)
RequestsHeld ==
    /\ \A s \in Sessions :
        /\ lsession[s].op = "verify" => verification[lsession[s].arg] = "none"
        /\ lsession[s].op \in L!Verdicts => verification[lsession[s].arg] = "pending"
    /\ \A s, t \in Sessions :
        /\ lsession[s].op \in OnRequests /\ lsession[t].op \in OnRequests
        /\ lsession[s].arg = lsession[t].arg
        => s = t

(* A request under review stays locked by its reviewer, so a verdict is    *)
(* never overwritten.                                                      *)
LEMMA RequestsHeldStep ==
    ASSUME ListingTypes, RequestsHeld, [L!Next]_(L!vars)
    PROVE  RequestsHeld' /\ \A v \in Verifications :
               verification[v] \in L!Verdicts => verification'[v] = verification[v]
  <1> DEFINE Goal == RequestsHeld' /\ \A v \in Verifications :
               verification[v] \in L!Verdicts => verification'[v] = verification[v]
  <1>0. L!Idle.op \notin OnRequests
    BY DEF L!Idle, OnRequests, L!Verdicts
  <1>1. ASSUME NEW s \in Sessions, NEW op \in Ops \ {"idle"}, NEW arg \in Args, Begins(s, op, arg)
        PROVE  Goal
    <2>1. /\ lsession'[s].op = op /\ lsession'[s].arg = arg
          /\ \A t \in Sessions \ {s} : lsession'[t] = lsession[t]
          /\ verification' = verification
      BY <1>1 DEF Begins, ListingTypes
    <2>2. /\ op = "verify" => verification[arg] = "none"
          /\ op \in L!Verdicts => verification[arg] = "pending"
      BY <1>1 DEF Begins, Checked, L!Verdicts
    <2>3. op \in OnRequests =>
              \A t \in Sessions : lsession[t].op \in OnRequests => lsession[t].arg # arg
      <3>1. CASE op = "verify"
        BY <1>1, <3>1 DEF Begins, Checked, L!Unused, L!Verdicts
      <3>2. CASE op \in L!Verdicts
        BY <1>1, <3>2 DEF Begins, Checked, L!Verdicts, L!RequestFree, RequestsHeld, OnRequests
      <3>3. QED
        BY <3>1, <3>2 DEF OnRequests
    <2>4. QED
      BY <2>1, <2>2, <2>3 DEF RequestsHeld
  <1>2. ASSUME NEW s \in Sessions, Writes(s) PROVE Goal
    <2>1. /\ lsession'[s].op \notin OnRequests
          /\ \A t \in Sessions \ {s} : lsession'[t] = lsession[t]
      BY <1>0, <1>2, WritesEnd DEF ListingTypes
    <2>2. CASE UNCHANGED verification
      BY <2>1, <2>2 DEF RequestsHeld, OnRequests
    <2>3. CASE L!VerifyInsert(s) \/ L!ReviewWrite(s)
      <3>1. lsession[s].op \in OnRequests /\ lsession[s].arg \in Verifications
        BY <2>3 DEF L!VerifyInsert, L!Doing, L!ReviewWrite, OnRequests, ListingTypes, Works
      <3>2. verification[lsession[s].arg] \notin L!Verdicts
        BY <2>3, <3>1 DEF RequestsHeld, OnRequests, L!Verdicts
      <3>3. \A v \in Verifications \ {lsession[s].arg} : verification'[v] = verification[v]
        BY <2>3 DEF L!VerifyInsert, L!ReviewWrite, ListingTypes
      <3>4. \A t \in Sessions \ {s} : lsession[t].op \in OnRequests =>
                lsession[t].arg \in Verifications \ {lsession[s].arg}
        BY <3>1 DEF RequestsHeld, ListingTypes, Works
      <3>5. QED
        BY <2>1, <3>2, <3>3, <3>4 DEF RequestsHeld, OnRequests
    <2>4. QED
      BY <1>2, <2>2, <2>3
         DEF Writes, L!BookInsert, L!StatusWrite, L!ArchiveWrite, L!DeleteWrite
  <1>3. CASE UNCHANGED <<verification, lsession>>
    BY <1>3 DEF RequestsHeld
  <1>4. QED
    BY <1>1, <1>2, <1>3, ListingSummary DEF L!BookingEnds

(* VerdictIsFinal for every instance: whatever overlaps, a request that    *)
(* was reviewed keeps its verdict, because a review holds the request and  *)
(* takes only a pending one.                                               *)
THEOREM VerdictStays == Spec => VerdictIsFinal
  <1>1. Init => ListingTypes /\ RequestsHeld
    BY ListingTypesInit
       DEF Init, L!Init, Demonstration, RequestsHeld, L!Idle, OnRequests, L!Verdicts
  <1>2. StayTypes /\ ListingTypes /\ RequestsHeld /\ [Next]_vars
        => /\ (ListingTypes /\ RequestsHeld)'
           /\ \A v \in Verifications :
                  verification[v] \in L!Verdicts => verification'[v] = verification[v]
    BY ListingSteps, ListingTypesStep, RequestsHeldStep
  <1>3. QED
    BY <1>1, <1>2, StayTypesHold, PTL DEF Spec, VerdictIsFinal, L!VerdictIsFinal

-------------------------------------------------------------------------------
(* The badge.  As long as no two requests were filed side by side, one is  *)
(* pending at a time and the listing has no badge then, nor has the copy of*)
(* it that a reviewer goes by.                                             *)
BadgeInv ==
    /\ BadgeMatchesReview
    /\ ~doubled =>
        /\ \A v, w \in Verifications :
               verification[v] = "pending" /\ verification[w] = "pending" => v = w
        /\ space.owned /\ (\E v \in Verifications : verification[v] = "pending")
               => ~space.verified
        /\ \A s \in Sessions :
               lsession[s].op \in L!Verdicts /\ space.owned => ~lsession[s].saw.verified
    /\ \A s \in Sessions :
        /\ lsession[s].op = "verify" => ~lsession[s].saw.verified
        /\ lsession[s].op = "delete" => lsession[s].saw.owned

(* Every step keeps the badge that of the verdicts.                        *)
LEMMA BadgeStep ==
    ASSUME ListingTypes, RequestsHeld, BadgeInv, [L!Next]_(L!vars)
    PROVE  BadgeInv'
  <1> DEFINE Pending == \E v \in Verifications : verification[v] = "pending"
             Approved == \E v \in Verifications : verification[v] = "approved"
  <1>a. /\ space.owned => (space.verified => Approved) /\ (Approved => space.verified \/ doubled)
        /\ ~doubled /\ space.owned /\ Pending => ~space.verified
        /\ space.verified \in BOOLEAN /\ space.owned \in BOOLEAN /\ doubled \in BOOLEAN
    BY DEF BadgeInv, BadgeMatchesReview, L!BadgeMatchesReview, ListingTypes, L!Spaces
  <1>b. ~doubled => \A v, w \in Verifications :
            verification[v] = "pending" /\ verification[w] = "pending" => v = w
    BY DEF BadgeInv
  <1>c. BadgeMatchesReview' <=>
            (space'.owned => (space'.verified => Approved') /\ (Approved' => space'.verified \/ doubled'))
    BY DEF BadgeMatchesReview, L!BadgeMatchesReview
  <1>0. /\ L!Idle.op = "idle" /\ "idle" # "verify" /\ "idle" \notin L!Verdicts
        /\ "verify" \notin L!Verdicts /\ "delete" \notin L!Verdicts
    BY DEF L!Idle, L!Verdicts
  <1>1. ASSUME NEW s \in Sessions, NEW op \in Ops \ {"idle"}, NEW arg \in Args,
               Begins(s, op, arg)
        PROVE  BadgeInv'
    <2>1. /\ lsession'[s] = [op |-> op, arg |-> arg, saw |-> space]
          /\ \A t \in Sessions \ {s} : lsession'[t] = lsession[t]
          /\ UNCHANGED <<space, verification, doubled>>
      BY <1>1 DEF Begins, ListingTypes
    <2>2. /\ op = "verify" => ~space.verified
          /\ op = "delete" => space.owned
          /\ op \in L!Verdicts => Pending
      BY <1>1 DEF Begins, Checked, L!Verdicts, L!Unverified
    <2>3. BadgeMatchesReview' = BadgeMatchesReview
      BY <2>1 DEF BadgeMatchesReview, L!BadgeMatchesReview
    <2>4. QED
      BY <1>a, <2>1, <2>2, <2>3 DEF BadgeInv
  <1>2. ASSUME NEW s \in Sessions, Writes(s) PROVE BadgeInv'
    <2>1. /\ lsession'[s] = L!Idle
          /\ \A t \in Sessions \ {s} : lsession'[t] = lsession[t]
      BY <1>2, WritesEnd DEF ListingTypes
    <2>2. \A t \in Sessions :
              /\ lsession'[t].op = "verify" => ~lsession'[t].saw.verified
              /\ lsession'[t].op = "delete" => lsession'[t].saw.owned
              /\ lsession'[t].op \in L!Verdicts /\ space.owned /\ ~doubled
                     => ~lsession'[t].saw.verified
      BY <2>1, <1>0 DEF BadgeInv
    <2>3. CASE /\ UNCHANGED <<verification, doubled>> /\ space'.owned = space.owned
               /\ space'.verified = space.verified
      BY <1>a, <1>b, <1>c, <2>2, <2>3 DEF BadgeInv
    <2>4. CASE L!DeleteWrite(s)
      <3>1. ~space'.owned /\ UNCHANGED <<verification, doubled>>
        BY <2>4, DeleteWritten DEF BadgeInv, L!DeleteWrite, L!Doing, L!history
      <3>2. QED
        BY <1>b, <1>c, <2>2, <3>1 DEF BadgeInv
    <2>5. CASE L!VerifyInsert(s)
      <3>1. /\ lsession[s].arg \in Verifications /\ UNCHANGED space
            /\ verification' = [verification EXCEPT ![lsession[s].arg] = "pending"]
            /\ doubled' = (doubled \/ L!FiledMeanwhile(s)) /\ lsession[s].op = "verify"
        BY <2>5 DEF L!VerifyInsert, L!Doing, ListingTypes, Works, OnRequests
      <3>2. \A v \in Verifications :
                verification'[v] = IF v = lsession[s].arg THEN "pending" ELSE verification[v]
        BY <3>1 DEF ListingTypes
      <3>3. ~doubled' => ~doubled /\ ~Pending /\ ~space.verified
        BY <3>1, <1>a DEF BadgeInv, L!FiledMeanwhile, L!NonePending, L!Saw
      <3>4. Approved' <=> Approved
        <4>1. verification[lsession[s].arg] = "none"
          BY <3>1 DEF RequestsHeld
        <4>2. QED
          BY <3>2, <4>1
      <3>5. BadgeMatchesReview'
        BY <1>a, <1>c, <3>1, <3>3, <3>4
      <3>6. ~doubled' => /\ \A v, w \in Verifications :
                                verification'[v] = "pending" /\ verification'[w] = "pending"
                                => v = w
                         /\ ~space'.verified
        BY <3>1, <3>2, <3>3
      <3>7. QED
        BY <2>2, <3>1, <3>3, <3>5, <3>6 DEF BadgeInv
    <2>6. CASE L!ReviewWrite(s)
      <3> DEFINE verdict == lsession[s].op
      <3>1. /\ lsession[s].arg \in Verifications /\ verdict \in {"approved", "rejected"}
            /\ verification' = [verification EXCEPT ![lsession[s].arg] = verdict]
            /\ doubled' = doubled
        BY <2>6 DEF L!ReviewWrite, L!Verdict, L!Verdicts, ListingTypes, Works, OnRequests,
                    L!history
      <3>2. verification[lsession[s].arg] = "pending"
        BY <3>1 DEF RequestsHeld, L!Verdicts
      <3>3. \A v \in Verifications :
                verification'[v] = IF v = lsession[s].arg THEN verdict ELSE verification[v]
        BY <3>1 DEF ListingTypes
      <3>4. ~doubled => \A v \in Verifications : verification'[v] # "pending"
        BY <1>b, <3>1, <3>2, <3>3
      <3>5. /\ space'.owned = space.owned
            /\ space'.verified = IF lsession[s].saw.verified = (verdict = "approved")
                                 THEN space.verified ELSE verdict = "approved"
            /\ lsession[s].saw.verified \in BOOLEAN
        BY <2>6, ReviewWritten DEF ListingTypes, Works, L!Spaces
      <3>6. Approved' <=> Approved \/ verdict = "approved"
        BY <3>1, <3>2, <3>3
      <3>7. space.owned /\ ~doubled => /\ ~space.verified /\ ~lsession[s].saw.verified
                                       /\ ~Approved
        BY <1>a, <3>1, <3>2 DEF BadgeInv, L!Verdicts
      <3>8. space'.owned => (space'.verified => Approved')
        BY <1>a, <3>5, <3>6
      <3>9. space'.owned => (Approved' => space'.verified \/ doubled')
        BY <1>a, <3>1, <3>5, <3>6, <3>7
      <3>10. BadgeMatchesReview'
        BY <1>c, <3>8, <3>9
      <3>11. QED
        BY <2>2, <3>1, <3>4, <3>5, <3>10 DEF BadgeInv
    <2>7. QED
      BY <1>2, <2>3, <2>4, <2>5, <2>6, StatusWritten, ArchiveWritten
         DEF Writes, L!BookInsert, L!StatusWrite, L!ArchiveWrite, L!history
  <1>3. CASE UNCHANGED <<space, verification, lsession, doubled>>
    BY <1>3 DEF BadgeInv, BadgeMatchesReview, L!BadgeMatchesReview
  <1>4. QED
    BY <1>1, <1>2, <1>3, ListingSummary DEF L!BookingEnds, L!history

(* BadgeMatchesReview for every instance and with every overlap: a badge   *)
(* was earned, and what was earned is there unless two requests were filed *)
(* side by side.                                                           *)
THEOREM BadgeIsEarned == Spec => []BadgeMatchesReview
  <1>1. Init => ListingTypes /\ RequestsHeld /\ BadgeInv
    <2> SUFFICES ASSUME Init PROVE ListingTypes /\ RequestsHeld /\ BadgeInv
      OBVIOUS
    <2>1. /\ \A v \in Verifications : verification[v] = "none"
          /\ \A s \in Sessions : lsession[s].op = "idle"
      BY DEF Init, L!Init, Demonstration, L!Idle
    <2>2. space.owned => ~space.verified
      <3>1. CASE space = L!NewSpace
        BY <3>1 DEF L!NewSpace
      <3>2. CASE space = [L!NewSpace EXCEPT !.owned = FALSE, !.verified = TRUE]
        BY <3>2 DEF L!NewSpace
      <3>3. QED
        BY <3>1, <3>2 DEF Init, L!Init, Demonstration
    <2>3. QED
      BY <2>1, <2>2, ListingTypesInit
         DEF RequestsHeld, OnRequests, L!Verdicts, BadgeInv, BadgeMatchesReview,
             L!BadgeMatchesReview, ListingTypes, L!Spaces
  <1>2. StayTypes /\ ListingTypes /\ RequestsHeld /\ BadgeInv /\ [Next]_vars
        => (ListingTypes /\ RequestsHeld /\ BadgeInv)'
    BY ListingSteps, ListingTypesStep, RequestsHeldStep, BadgeStep
  <1>3. BadgeInv => BadgeMatchesReview
    BY DEF BadgeInv
  <1>4. QED
    BY <1>1, <1>2, <1>3, StayTypesHold, PTL DEF Spec

-------------------------------------------------------------------------------
(* Bookings and the end of the listing: whoever is archiving it has seen no*)
(* booking but those made since.                                           *)
BookedInv ==
    /\ ActiveBookingHasSpace
    /\ \A s \in Sessions : lsession[s].op \in {"archive", "delete"} =>
           \A b \in Bookings : Taken[b] = "active" => b \in crossed

(* Every step keeps booked listings there, but for the bookings it names.  *)
LEMMA BookedStep ==
    ASSUME ListingTypes, BookedInv, [L!Next]_(L!vars)
    PROVE  BookedInv'
  <1> DEFINE Endangered == \E s \in Sessions : lsession[s].op \in {"archive", "delete"}
             Alt == \A b \in Bookings : Taken[b] = "active" =>
                        \/ b \in crossed
                        \/ space.status # "archived" /\ ~Endangered
  <1>a. /\ BookedInv <=> Alt
        /\ BookedInv' <=> Alt'
    BY DEF BookedInv, ActiveBookingHasSpace, L!ActiveBookingHasSpace
  <1>b. Alt
    BY <1>a
  <1>0. L!Idle.op = "idle"
    BY DEF L!Idle
  <1>1. ASSUME NEW s \in Sessions, NEW op \in Ops \ {"idle"}, NEW arg \in Args,
               Begins(s, op, arg)
        PROVE  Alt'
    <2>1. /\ lsession'[s].op = op
          /\ \A t \in Sessions \ {s} : lsession'[t] = lsession[t]
          /\ UNCHANGED <<space, Taken, crossed>>
      BY <1>1 DEF Begins, ListingTypes
    <2>2. op \in {"archive", "delete"} => \A b \in Bookings : Taken[b] # "active"
      BY <1>1 DEF Begins, Checked, L!NoActiveBooking, L!Verdicts
    <2>3. op \notin {"archive", "delete"} => (Endangered' => Endangered)
      BY <2>1
    <2>4. CASE op \in {"archive", "delete"}
      BY <2>1, <2>2, <2>4
    <2>5. CASE op \notin {"archive", "delete"}
      <3> HIDE DEF Endangered
      <3>1. QED
        BY <1>b, <2>1, <2>3, <2>5
    <2>6. QED
      BY <2>4, <2>5
  <1>2. ASSUME NEW s \in Sessions, Writes(s) PROVE Alt'
    <2>1. Endangered' => Endangered
      BY <1>0, <1>2, WritesEnd DEF ListingTypes
    <2>2. CASE L!BookInsert(s)
      <3>1. /\ space' = space
            /\ crossed' = IF L!BeingArchived THEN crossed \cup {lsession[s].arg} ELSE crossed
            /\ Taken' = [Taken EXCEPT ![lsession[s].arg] = "active"]
        BY <2>2 DEF L!BookInsert
      <3>2. L!BeingArchived <=> space.status = "archived" \/ Endangered
        BY DEF L!BeingArchived
      <3>3. \A b \in Bookings : Taken'[b] = "active" =>
                Taken[b] = "active" \/ b = lsession[s].arg
        BY <3>1 DEF ListingTypes
      <3> HIDE DEF Endangered
      <3>4. QED
        BY <1>b, <2>1, <3>1, <3>2, <3>3
    <2>3. CASE UNCHANGED <<Taken, crossed>> /\ space'.status \in {space.status, "active", "paused"}
      <3> HIDE DEF Endangered
      <3>1. QED
        BY <1>b, <2>1, <2>3
    <2>4. CASE L!ArchiveWrite(s) \/ L!DeleteWrite(s)
      <3>1. Endangered /\ UNCHANGED <<Taken, crossed>>
        BY <2>4 DEF L!ArchiveWrite, L!DeleteWrite, L!Doing, L!history
      <3> HIDE DEF Endangered
      <3>2. QED
        BY <1>b, <3>1
    <2>5. QED
      BY <1>2, <2>2, <2>3, <2>4, StatusWritten, ReviewWritten
         DEF Writes, L!StatusWrite, L!VerifyInsert, L!ReviewWrite, L!history
  <1>3. ASSUME NEW b \in Bookings, L!BookingEnds(b) PROVE Alt'
    <2>1. /\ \A c \in Bookings : Taken'[c] = "active" => Taken[c] = "active"
          /\ UNCHANGED <<space, lsession, crossed>>
      BY <1>3 DEF L!BookingEnds, L!history, ListingTypes
    <2>2. QED
      BY <1>b, <2>1
  <1>4. CASE UNCHANGED <<space, Taken, lsession, crossed>>
    <2>1. space' = space /\ Taken' = Taken /\ lsession' = lsession /\ crossed' = crossed
      BY <1>4
    <2>2. Endangered' <=> Endangered
      BY <2>1
    <2> HIDE DEF Endangered
    <2>3. QED
      BY <1>a, <1>b, <2>1, <2>2
  <1>5. QED
    BY <1>a, <1>1, <1>2, <1>3, <1>4, ListingSummary

(* ActiveBookingHasSpace for every instance and with every overlap: an     *)
(* archived listing has no active booking but those that were made after   *)
(* the archiving handler had looked for one.                               *)
THEOREM BookedListingStays == Spec => []ActiveBookingHasSpace
  <1>1. Init => ListingTypes /\ BookedInv
    <2> SUFFICES ASSUME Init PROVE ListingTypes /\ BookedInv
      OBVIOUS
    <2>1. /\ \A b \in Bookings : Taken[b] = "none"
          /\ \A s \in Sessions : lsession[s].op = "idle"
      BY DEF Init, L!Init, Demonstration, L!Idle, R!Init, Taken
    <2>2. QED
      BY <2>1, ListingTypesInit DEF BookedInv, ActiveBookingHasSpace, L!ActiveBookingHasSpace
  <1>2. StayTypes /\ ListingTypes /\ BookedInv /\ [Next]_vars => (ListingTypes /\ BookedInv)'
    BY ListingSteps, ListingTypesStep, BookedStep
  <1>3. BookedInv => ActiveBookingHasSpace
    BY DEF BookedInv
  <1>4. QED
    BY <1>1, <1>2, <1>3, StayTypesHold, PTL DEF Spec

-------------------------------------------------------------------------------
(* The reviews.  What their count and average are is left to the model's   *)
(* CountOf and AverageOf: the proof is about which table they are of.      *)
Tables == [Bookings -> {0} \cup Ratings]
Counts == {R!CountOf(r) : r \in Tables} \cup {0, 42}
Averages == {R!AverageOf(r) : r \in Tables} \cup {0, 47}
Figures == [count : Counts, rating : Averages]
Authors == [pc : {"idle", "checked", "inserted", "counted", "averaged", "loaded"},
            on : Bookings \cup {"none"}, stars : Ratings \cup {0},
            count : Counts, rating : Averages, saw : Figures, overtaken : BOOLEAN]

ReviewTypes ==
    /\ review \in Tables
    /\ shown \in Figures
    /\ author \in [Sessions -> Authors]
    /\ \A s \in Sessions : author[s].pc # "idle" =>
           author[s].on \in Bookings /\ author[s].stars \in Ratings

(* As long as no other review has committed since its count, what a review *)
(* has computed is of the table it will leave, and it will write that.     *)
Recomputed ==
    \A s \in Sessions : ~author[s].overtaken =>
        /\ author[s].pc \in {"counted", "averaged", "loaded"} =>
               author[s].count = R!CountOf(R!SeenBy(s))
        /\ author[s].pc \in {"averaged", "loaded"} =>
               author[s].rating = R!AverageOf(R!SeenBy(s))
        /\ author[s].pc = "loaded" => author[s].saw = shown

(* To the reviews, whatever happens is a step of Reviews, or none.         *)
LEMMA ReviewSteps == [Next]_vars => [R!Next]_(R!vars)
  <1> SUFFICES ASSUME [Next]_vars PROVE [R!Next]_(R!vars)
    OBVIOUS
  <1>1. ASSUME UNCHANGED rvars PROVE UNCHANGED R!vars
    BY <1>1 DEF rvars, R!vars
  <1>2. ASSUME NEW s \in Sessions, ReviewStep(s) PROVE R!Next
    BY <1>2 DEF ReviewStep, R!Next
  <1>3. ASSUME NEW s \in Sessions, BookingStep(s) PROVE [R!Next]_(R!vars)
    BY <1>1, <1>3 DEF BookingStep, R!Next
  <1>4. ASSUME NEW b \in Bookings, StayStep(b) PROVE R!Next
    BY <1>4 DEF StayStep, R!Next
  <1>5. QED
    BY <1>1, <1>2, <1>3, <1>4
       DEF Next, ListingStep, VerificationStep, DeletionRead, DeletionWrite, Creation,
           PlanStep, vars

(* A review's own view is a table, and its count and average are figures.  *)
LEMMA SeenIsTable ==
    ASSUME ReviewTypes, NEW s \in Sessions, author[s].pc # "idle"
    PROVE  /\ R!SeenBy(s) \in Tables
           /\ R!CountOf(R!SeenBy(s)) \in Counts /\ R!AverageOf(R!SeenBy(s)) \in Averages
  <1>1. R!SeenBy(s) \in Tables
    BY DEF R!SeenBy, ReviewTypes, Tables
  <1>2. QED
    BY <1>1 DEF Counts, Averages

(* Every step of a review, and the stays, keep types and figures.          *)
LEMMA ReviewTypesStep ==
    ASSUME ReviewTypes, [R!Next]_(R!vars) PROVE ReviewTypes'
  <1> USE DEF ReviewTypes
  <1>0. R!Silent \in Authors /\ R!Silent.pc = "idle"
    BY DEF R!Silent, Authors, Counts, Averages, Figures
  <1>1. ASSUME NEW s \in Sessions, NEW a \in Authors,
               a.pc # "idle" => a.on \in Bookings /\ a.stars \in Ratings,
               author' = [author EXCEPT ![s] = a], UNCHANGED R!rows
        PROVE  ReviewTypes'
    BY <1>1 DEF R!rows
  <1>2. ASSUME NEW s \in Sessions, NEW b \in Bookings, NEW stars \in Ratings,
               R!ReviewRead(s, b, stars)
        PROVE  ReviewTypes'
    <2> DEFINE a == [R!Silent EXCEPT !.pc = "checked", !.on = b, !.stars = stars]
    <2>1. a \in Authors /\ a.on \in Bookings /\ a.stars \in Ratings
      BY <1>0 DEF R!Silent, Authors
    <2>2. QED
      BY <1>1, <1>2, <2>1 DEF R!ReviewRead
  <1>3. ASSUME NEW s \in Sessions, R!ReviewInsert(s) PROVE ReviewTypes'
    BY <1>3 DEF R!ReviewInsert, R!At, R!rows, Authors
  <1>4. ASSUME NEW s \in Sessions, R!ReviewCount(s) PROVE ReviewTypes'
    <2> DEFINE a == [author[s] EXCEPT !.pc = "counted", !.count = R!CountOf(R!SeenBy(s)),
                                      !.overtaken = FALSE]
    <2>1. author[s] \in Authors /\ author[s].pc # "idle"
      BY <1>4 DEF R!ReviewCount, R!At
    <2>2. R!CountOf(R!SeenBy(s)) \in Counts
      BY <2>1, SeenIsTable
    <2>3. a \in Authors /\ a.on = author[s].on /\ a.stars = author[s].stars
      BY <2>1, <2>2 DEF Authors
    <2>4. author' = [author EXCEPT ![s] = a] /\ UNCHANGED R!rows
      BY <1>4 DEF R!ReviewCount
    <2>5. QED
      BY <1>1, <2>1, <2>3, <2>4
  <1>5. ASSUME NEW s \in Sessions, R!ReviewAverage(s) PROVE ReviewTypes'
    BY <1>5, SeenIsTable DEF R!ReviewAverage, R!At, R!Set, R!rows, Authors
  <1>6. ASSUME NEW s \in Sessions, R!ReviewLoad(s) PROVE ReviewTypes'
    BY <1>6 DEF R!ReviewLoad, R!At, R!Set, R!rows, Authors
  <1>7. ASSUME NEW s \in Sessions, R!ReviewCommit(s) PROVE ReviewTypes'
    <2>1. review' \in Tables
      BY <1>7 DEF R!ReviewCommit, R!At, Tables
    <2>2. shown' \in Figures
      BY <1>7 DEF R!ReviewCommit, R!WriteChanged, Figures, Authors
    <2>3. \A t \in Sessions : [author[t] EXCEPT !.overtaken = TRUE] \in Authors
      BY DEF Authors
    <2>4. author' \in [Sessions -> Authors]
      BY <1>0, <1>7, <2>3 DEF R!ReviewCommit
    <2>5. \A t \in Sessions : author'[t].pc # "idle" =>
              author'[t].on = author[t].on /\ author'[t].stars = author[t].stars
              /\ author[t].pc # "idle"
      BY <1>0, <1>7 DEF R!ReviewCommit, Authors
    <2>6. QED
      BY <2>1, <2>2, <2>4, <2>5
  <1>8. ASSUME NEW s \in Sessions, R!ReviewFails(s) PROVE ReviewTypes'
    BY <1>0, <1>1, <1>8 DEF R!ReviewFails
  <1>9. CASE UNCHANGED <<review, shown, author>>
    BY <1>9
  <1>10. QED
    BY <1>2, <1>3, <1>4, <1>5, <1>6, <1>7, <1>8, <1>9
       DEF R!Next, R!ReviewStep, R!StayBooked, R!StayEnds, R!StayCancelled, R!vars

(* What is computed stays right till another review commits.               *)
LEMMA RecomputedStep ==
    ASSUME ReviewTypes, Recomputed, [R!Next]_(R!vars) PROVE Recomputed'
  <1>0. R!Silent.pc = "idle"
    BY DEF R!Silent
  <1>1. ASSUME NEW s \in Sessions, UNCHANGED <<review, shown>>,
               \A t \in Sessions \ {s} : author'[t] = author[t],
               author'[s].on = author[s].on, author'[s].stars = author[s].stars,
               ~author'[s].overtaken =>
                   /\ author'[s].pc \in {"counted", "averaged", "loaded"} =>
                          author'[s].count = R!CountOf(R!SeenBy(s))
                   /\ author'[s].pc \in {"averaged", "loaded"} =>
                          author'[s].rating = R!AverageOf(R!SeenBy(s))
                   /\ author'[s].pc = "loaded" => author'[s].saw = shown
        PROVE  Recomputed'
    <2>1. \A t \in Sessions : R!SeenBy(t)' = R!SeenBy(t)
      BY <1>1 DEF R!SeenBy
    <2>2. \A t \in Sessions : R!CountOf(R!SeenBy(t))' = R!CountOf(R!SeenBy(t))
                              /\ R!AverageOf(R!SeenBy(t))' = R!AverageOf(R!SeenBy(t))
      BY <2>1
    <2>3. QED
      BY <1>1, <2>2 DEF Recomputed
  <1>2. ASSUME NEW s \in Sessions, NEW b \in Bookings, NEW stars \in Ratings,
               R!ReviewRead(s, b, stars)
        PROVE  Recomputed'
    <2>1. author'[s].pc = "checked" /\ \A t \in Sessions \ {s} : author'[t] = author[t]
      BY <1>2 DEF R!ReviewRead, R!Silent, ReviewTypes
    <2>2. \A t \in Sessions \ {s} : R!SeenBy(t)' = R!SeenBy(t)
      BY <1>2, <2>1 DEF R!SeenBy, R!ReviewRead, R!rows
    <2>3. \A t \in Sessions \ {s} : R!CountOf(R!SeenBy(t))' = R!CountOf(R!SeenBy(t))
                                    /\ R!AverageOf(R!SeenBy(t))' = R!AverageOf(R!SeenBy(t))
      BY <2>2
    <2>4. QED
      BY <1>2, <2>1, <2>3 DEF Recomputed, R!ReviewRead, R!rows
  <1>3. ASSUME NEW s \in Sessions, R!ReviewInsert(s) PROVE Recomputed'
    <2>1. /\ author'[s].pc = "inserted" /\ author'[s].on = author[s].on
          /\ author'[s].stars = author[s].stars
          /\ \A t \in Sessions \ {s} : author'[t] = author[t]
      BY <1>3 DEF R!ReviewInsert, ReviewTypes, Authors
    <2>2. QED
      BY <1>1, <1>3, <2>1 DEF R!ReviewInsert, R!rows
  <1>4. ASSUME NEW s \in Sessions, R!ReviewCount(s) PROVE Recomputed'
    <2>1. /\ author'[s].pc = "counted" /\ author'[s].on = author[s].on
          /\ author'[s].stars = author[s].stars
          /\ author'[s].count = R!CountOf(R!SeenBy(s))
          /\ \A t \in Sessions \ {s} : author'[t] = author[t]
      BY <1>4 DEF R!ReviewCount, ReviewTypes, Authors
    <2>2. QED
      BY <1>1, <1>4, <2>1 DEF R!ReviewCount, R!rows
  <1>5. ASSUME NEW s \in Sessions, R!ReviewAverage(s) PROVE Recomputed'
    <2>1. /\ author'[s].pc = "averaged" /\ author'[s].on = author[s].on
          /\ author'[s].stars = author[s].stars /\ author'[s].count = author[s].count
          /\ author'[s].overtaken = author[s].overtaken
          /\ author'[s].rating = R!AverageOf(R!SeenBy(s))
          /\ author[s].pc = "counted"
          /\ \A t \in Sessions \ {s} : author'[t] = author[t]
      BY <1>5 DEF R!ReviewAverage, R!Set, R!At, ReviewTypes, Authors
    <2>2. ~author[s].overtaken => author[s].count = R!CountOf(R!SeenBy(s))
      BY <2>1 DEF Recomputed
    <2>3. QED
      BY <1>1, <1>5, <2>1, <2>2 DEF R!ReviewAverage, R!rows
  <1>6. ASSUME NEW s \in Sessions, R!ReviewLoad(s) PROVE Recomputed'
    <2>1. /\ author'[s].pc = "loaded" /\ author'[s].on = author[s].on
          /\ author'[s].stars = author[s].stars /\ author'[s].count = author[s].count
          /\ author'[s].overtaken = author[s].overtaken
          /\ author'[s].rating = author[s].rating /\ author'[s].saw = shown
          /\ author[s].pc = "averaged"
          /\ \A t \in Sessions \ {s} : author'[t] = author[t]
      BY <1>6 DEF R!ReviewLoad, R!Set, R!At, ReviewTypes, Authors
    <2>2. ~author[s].overtaken => /\ author[s].count = R!CountOf(R!SeenBy(s))
                                  /\ author[s].rating = R!AverageOf(R!SeenBy(s))
      BY <2>1 DEF Recomputed
    <2>3. QED
      BY <1>1, <1>6, <2>1, <2>2 DEF R!ReviewLoad, R!rows
  <1>7. ASSUME NEW s \in Sessions, R!ReviewCommit(s) PROVE Recomputed'
    <2>1. \A t \in Sessions : author'[t].pc = "idle" \/ author'[t].overtaken
      BY <1>0, <1>7 DEF R!ReviewCommit, ReviewTypes, Authors
    <2>2. QED
      BY <2>1 DEF Recomputed
  <1>8. ASSUME NEW s \in Sessions, R!ReviewFails(s) PROVE Recomputed'
    <2>1. author'[s].pc = "idle" /\ \A t \in Sessions \ {s} : author'[t] = author[t]
      BY <1>0, <1>8 DEF R!ReviewFails, ReviewTypes
    <2>2. \A t \in Sessions \ {s} : R!SeenBy(t)' = R!SeenBy(t)
      BY <1>8, <2>1 DEF R!SeenBy, R!ReviewFails, R!rows
    <2>3. \A t \in Sessions \ {s} : R!CountOf(R!SeenBy(t))' = R!CountOf(R!SeenBy(t))
                                    /\ R!AverageOf(R!SeenBy(t))' = R!AverageOf(R!SeenBy(t))
      BY <2>2
    <2>4. QED
      BY <1>8, <2>1, <2>3 DEF Recomputed, R!ReviewFails, R!rows
  <1>9. CASE UNCHANGED <<review, shown, author>>
    <2>1. \A t \in Sessions : R!SeenBy(t)' = R!SeenBy(t)
      BY <1>9 DEF R!SeenBy
    <2>2. \A t \in Sessions : R!CountOf(R!SeenBy(t))' = R!CountOf(R!SeenBy(t))
                              /\ R!AverageOf(R!SeenBy(t))' = R!AverageOf(R!SeenBy(t))
      BY <2>1
    <2>3. QED
      BY <1>9, <2>2 DEF Recomputed
  <1>10. QED
    BY <1>2, <1>3, <1>4, <1>5, <1>6, <1>7, <1>8, <1>9
       DEF R!Next, R!ReviewStep, R!StayBooked, R!StayEnds, R!StayCancelled, R!vars

(* A review nobody has overtaken writes the count and average of the table *)
(* it leaves, whether or not they differ from those it found.              *)
LEMMA AggregatesStep ==
    ASSUME ReviewTypes, Recomputed, AggregatesRecover, [R!Next]_(R!vars)
    PROVE  AggregatesRecover'
  <1>1. ASSUME NEW s \in Sessions, R!ReviewCommit(s) PROVE AggregatesRecover'
    <2> SUFFICES ASSUME ~drifted'
                 PROVE  shown' = [count |-> R!CountOf(review'), rating |-> R!AverageOf(review')]
      BY DEF AggregatesRecover, R!AggregatesRecover
    <2>1. author[s].pc = "loaded" /\ ~author[s].overtaken
      BY <1>1 DEF R!ReviewCommit, R!At
    <2>2. /\ author[s].count = R!CountOf(R!SeenBy(s))
          /\ author[s].rating = R!AverageOf(R!SeenBy(s)) /\ author[s].saw = shown
      BY <2>1 DEF Recomputed
    <2>3. review' = R!SeenBy(s)
      BY <1>1 DEF R!ReviewCommit, R!SeenBy
    <2>4. shown' = [count |-> author[s].count, rating |-> author[s].rating]
      BY <1>1, <2>2 DEF R!ReviewCommit, R!WriteChanged, R!SameRating, ReviewTypes, Figures
    <2>5. QED
      BY <2>2, <2>3, <2>4
  <1>2. CASE UNCHANGED <<review, shown, drifted>>
    <2>1. /\ R!Given(review)' = R!Given(review) /\ R!CountOf(review)' = R!CountOf(review)
          /\ R!AverageOf(review)' = R!AverageOf(review)
      BY <1>2
    <2>2. QED
      BY <1>2, <2>1 DEF AggregatesRecover, R!AggregatesRecover
  <1>3. QED
    BY <1>1, <1>2
       DEF R!Next, R!ReviewStep, R!StayBooked, R!StayEnds, R!StayCancelled, R!vars, R!rows,
           R!ReviewRead, R!ReviewInsert, R!ReviewCount, R!ReviewAverage, R!ReviewLoad,
           R!ReviewFails

(* AggregatesRecover for every instance: a listing that was reviewed shows *)
(* the count and average of its reviews, unless the last of them was       *)
(* overtaken by another.                                                   *)
THEOREM AggregatesAreRepaired == Spec => []AggregatesRecover
  <1>1. Init => ReviewTypes /\ Recomputed /\ AggregatesRecover
    <2> SUFFICES ASSUME Init PROVE ReviewTypes /\ Recomputed /\ AggregatesRecover
      OBVIOUS
    <2>1. /\ review = [b \in Bookings |-> 0] /\ shown \in {R!Fresh, R!Seeded}
          /\ author = [s \in Sessions |-> R!Silent]
      BY DEF Init, R!Init
    <2>2. R!Silent \in Authors /\ R!Silent.pc = "idle"
      BY DEF R!Silent, Authors, Counts, Averages, Figures
    <2>3. R!Fresh \in Figures /\ R!Seeded \in Figures
      BY DEF R!Fresh, R!Seeded, Figures, Counts, Averages
    <2>4. R!Given(review) = {}
      BY <2>1 DEF R!Given
    <2>5. QED
      BY <2>1, <2>2, <2>3, <2>4
         DEF ReviewTypes, Recomputed, AggregatesRecover, R!AggregatesRecover, Tables
  <1>2. ReviewTypes /\ Recomputed /\ AggregatesRecover /\ [Next]_vars
        => (ReviewTypes /\ Recomputed /\ AggregatesRecover)'
    BY ReviewSteps, ReviewTypesStep, RecomputedStep, AggregatesStep
  <1>3. QED
    BY <1>1, <1>2, PTL DEF Spec

-------------------------------------------------------------------------------
(* What the reviews show stays plausible.                                  *)
(*                                                                         *)
(* First the sum that the average is made of: what a fold over a set is,   *)
(* is known only from the CHOOSE of a function that satisfies the fold's   *)
(* equation, so one has to exist.  Induction is on the number of elements, *)
(* as the least counterexample.                                            *)

(* A set of naturals that is not empty has a least element.                *)
LEMMA LeastNatural ==
    ASSUME NEW N \in SUBSET Nat, N # {}
    PROVE  \E n \in N : \A m \in N : n <= m
  <1>1. PICK n \in N : \A m \in N : ~(<<m, n>> \in OpToRel(<, Nat))
    BY NatLessThanWellFounded, WFMin
  <1>2. \A m \in N : <<m, n>> \in OpToRel(<, Nat) <=> m < n
    BY DEF OpToRel
  <1>3. \A m \in N : ~(m < n)
    BY <1>1, <1>2, Zenon
  <1>4. QED
    BY <1>3

(* The equation that the sum of FiniteSetsExt is defined by.               *)
Adds(g, r, D) ==
    g = [S \in D |-> IF S = {} THEN 0
                     ELSE LET b == CHOOSE b \in S : TRUE IN r[b] + g[S \ {b}]]
(* The sum of the ratings r over T, as Reviews takes it.                   *)
Total(r, T) == R!MapThenSumSet(LAMBDA b : r[b], T)

(* The subsets of T with at most n elements.                               *)
Small(T, n) == {S \in SUBSET T : Cardinality(S) <= n}

(* The equation has a solution on the subsets of a finite set: on those of *)
(* at most n elements, for the least n on which it had none.               *)
LEMMA SumExists ==
    ASSUME NEW T, IsFiniteSet(T), NEW r
    PROVE  \E g : Adds(g, r, SUBSET T)
  <1> DEFINE Failing == {n \in Nat : ~\E g : Adds(g, r, Small(T, n))}
  <1>1. Failing = {}
    <2> SUFFICES ASSUME Failing # {} PROVE FALSE
      OBVIOUS
    <2>1. PICK n \in Failing : \A m \in Failing : n <= m
      BY LeastNatural
    <2>2. CASE n = 0
      <3>1. Small(T, 0) = {{}}
        BY FS_Subset, FS_EmptySet, FS_CardinalityType DEF Small
      <3>2. Adds([S \in {{}} |-> 0], r, {{}})
        BY DEF Adds
      <3>3. QED
        BY <2>1, <2>2, <3>1, <3>2
    <2>3. CASE n # 0
      <3>1. n \in Nat /\ n - 1 \in Nat /\ n - 1 \notin Failing
        BY <2>1, <2>3
      <3>2. PICK g : Adds(g, r, Small(T, n - 1))
        BY <3>1
      <3> DEFINE wider == [S \in Small(T, n) |->
                             IF S = {} THEN 0
                             ELSE LET b == CHOOSE b \in S : TRUE IN r[b] + g[S \ {b}]]
      <3>3. ASSUME NEW S \in Small(T, n), S # {}, NEW b, b = CHOOSE c \in S : TRUE
            PROVE  /\ S \ {b} \in Small(T, n - 1) /\ S \ {b} \in Small(T, n)
        <4>1. b \in S /\ IsFiniteSet(S) /\ S \subseteq T
          BY <3>3, FS_Subset DEF Small
        <4>2. IsFiniteSet(S \ {b}) /\ Cardinality(S \ {b}) = Cardinality(S) - 1
          BY <4>1, FS_RemoveElement
        <4>3. Cardinality(S) \in Nat
          BY <4>1, FS_CardinalityType
        <4>4. QED
          BY <3>1, <4>1, <4>2, <4>3 DEF Small
      <3>4. ASSUME NEW S \in Small(T, n - 1) PROVE wider[S] = g[S]
        <4>1. S \in Small(T, n)
          BY <3>1, <3>4, FS_Subset, FS_CardinalityType DEF Small
        <4>2. QED
          BY <3>2, <4>1, <3>4 DEF Adds
      <3>5. ASSUME NEW S \in Small(T, n), S # {}
            PROVE  wider[S] = LET b == CHOOSE b \in S : TRUE IN r[b] + wider[S \ {b}]
        <4> DEFINE b == CHOOSE c \in S : TRUE
        <4>1. wider[S] = r[b] + g[S \ {b}]
          BY <3>5
        <4>2. wider[S \ {b}] = g[S \ {b}]
          BY <3>3, <3>4, <3>5
        <4>3. QED
          BY <4>1, <4>2
      <3>6. Adds(wider, r, Small(T, n))
        BY <3>5 DEF Adds
      <3>7. QED
        BY <2>1, <3>6
    <2>4. QED
      BY <2>2, <2>3
  <1>2. Cardinality(T) \in Nat
    BY FS_CardinalityType
  <1>3. Small(T, Cardinality(T)) = SUBSET T
    BY FS_Subset DEF Small
  <1>4. \E g : Adds(g, r, Small(T, Cardinality(T)))
    BY <1>1, <1>2
  <1>5. QED
    BY <1>3, <1>4

(* So a sum satisfies it, at every subset.                                 *)
LEMMA SumIsSolution ==
    ASSUME NEW T, IsFiniteSet(T), NEW r
    PROVE  \E g : Adds(g, r, SUBSET T) /\ Total(r, T) = g[T]
  <1> DEFINE Solves(g) == Adds(g, r, SUBSET T)
  <1>1. Solves(CHOOSE g : Solves(g))
    BY SumExists
  <1>2. Total(r, T) = (CHOOSE g : Solves(g))[T]
    BY DEF Adds, Total, R!MapThenSumSet, R!MapThenFoldSet
  <1>3. QED
    BY <1>1, <1>2

(* Between the number of summands times the least and times the largest.   *)
LEMMA SumBounds ==
    ASSUME NEW T, IsFiniteSet(T), NEW r, NEW lo \in Nat, NEW hi \in Nat,
           \A b \in T : r[b] \in lo..hi
    PROVE  /\ Total(r, T) \in Nat
           /\ Cardinality(T) * lo <= Total(r, T) /\ Total(r, T) <= Cardinality(T) * hi
  <1>1. PICK g : Adds(g, r, SUBSET T) /\ Total(r, T) = g[T]
    BY SumIsSolution
  <1> DEFINE Within(S) == /\ g[S] \in Nat
                          /\ Cardinality(S) * lo <= g[S] /\ g[S] <= Cardinality(S) * hi
             Failing == {n \in Nat : \E S \in SUBSET T : Cardinality(S) = n /\ ~Within(S)}
  <1>2. Failing = {}
    <2> SUFFICES ASSUME Failing # {} PROVE FALSE
      OBVIOUS
    <2>1. PICK n \in Failing : \A m \in Failing : n <= m
      BY LeastNatural
    <2>2. PICK S \in SUBSET T : Cardinality(S) = n /\ ~Within(S)
      BY <2>1
    <2>3. IsFiniteSet(S) /\ n \in Nat
      BY <2>1, FS_Subset
    <2>4. CASE S = {}
      <3>1. g[S] = 0 /\ Cardinality(S) = 0
        BY <1>1, <2>4, FS_EmptySet DEF Adds
      <3>2. QED
        BY <2>2, <3>1
    <2>5. CASE S # {}
      <3>1. PICK b \in S : g[S] = r[b] + g[S \ {b}]
        BY <1>1, <2>5 DEF Adds
      <3>2. IsFiniteSet(S \ {b}) /\ Cardinality(S \ {b}) = n - 1
        BY <2>2, <2>3, FS_RemoveElement
      <3>3. n - 1 \in Nat /\ S \ {b} \in SUBSET T /\ n - 1 \notin Failing
        BY <2>1, <2>3, <3>2, FS_CardinalityType
      <3>4. Within(S \ {b})
        BY <3>2, <3>3
      <3>5. r[b] \in lo..hi
        OBVIOUS
      <3>6. (n - 1) * lo = n * lo - lo /\ (n - 1) * hi = n * hi - hi
        BY <2>3
      <3>7. n * lo \in Nat /\ n * hi \in Nat
        BY <2>3
      <3>8. QED
        BY <2>2, <2>3, <3>1, <3>2, <3>4, <3>5, <3>6, <3>7
    <2>6. QED
      BY <2>4, <2>5
  <1>3. Cardinality(T) \in Nat
    BY FS_CardinalityType
  <1>4. QED
    BY <1>1, <1>2, <1>3

(* A rating, in tenths, that the stars of table r allow.                   *)
Fitting(r, rating) ==
    /\ rating \in 0..50
    /\ \E b, c \in R!Given(r) : 10 * r[b] <= rating /\ rating <= 10 * r[c]

(* The reviews are counted by the cardinality of the set of those given.   *)
LEMMA CountIs == ASSUME NEW r PROVE R!CountOf(r) = Cardinality(R!Given(r))
  BY DEF R!CountOf, R!Cardinality, Cardinality

(* Rounding to a tenth stays between bounds that are whole stars.          *)
LEMMA RoundedMean ==
    ASSUME NEW n \in Nat \ {0}, NEW t \in Nat, NEW lo \in Nat, NEW hi \in Nat,
           n * lo <= t, t <= n * hi
    PROVE  (20 * t + n) \div (2 * n) \in (10 * lo)..(10 * hi)
  <1> DEFINE q == (20 * t + n) \div (2 * n)
             rest == (20 * t + n) % (2 * n)
  <1>1. 2 * n \in Nat /\ 2 * n > 0 /\ 20 * t + n \in Nat
    OBVIOUS
  <1>2. q \in Int /\ rest \in 0..(2 * n - 1) /\ 20 * t + n = (2 * n) * q + rest
    BY <1>1
  <1>3. n * q \in Int /\ (2 * n) * q = 2 * (n * q)
    <2>1. \A x, y \in Int : x * y \in Int /\ (2 * x) * y = 2 * (x * y)
      OBVIOUS
    <2>2. n \in Int /\ q \in Int
      BY <1>2
    <2>3. QED
      BY <2>1, <2>2
  <1>4. n * lo \in Int /\ n * hi \in Int
    OBVIOUS
  <1>5. 10 * lo <= q
    <2>1. SUFFICES ASSUME q <= 10 * lo - 1 PROVE FALSE
      BY <1>2
    <2>2. n * q <= n * (10 * lo - 1)
      BY <1>2, <2>1
    <2>3. n * (10 * lo - 1) = 10 * (n * lo) - n
      OBVIOUS
    <2>4. QED
      BY <1>2, <1>3, <1>4, <2>2, <2>3
  <1>6. q <= 10 * hi
    <2>1. SUFFICES ASSUME 10 * hi + 1 <= q PROVE FALSE
      BY <1>2
    <2>2. n * (10 * hi + 1) <= n * q
      BY <1>2, <2>1
    <2>3. n * (10 * hi + 1) = 10 * (n * hi) + n
      OBVIOUS
    <2>4. QED
      BY <1>2, <1>3, <1>4, <2>2, <2>3
  <1>7. QED
    BY <1>2, <1>5, <1>6

(* The average of a table lies between its lowest and its highest rating.  *)
LEMMA AverageFits ==
    ASSUME NEW r \in Tables, IsFiniteSet(R!Given(r)), R!Given(r) # {}
    PROVE  Fitting(r, R!AverageOf(r)) /\ R!CountOf(r) \in Nat \ {0}
  <1> DEFINE T == R!Given(r)
             Stars == {r[b] : b \in T}
  <1>1. \A b \in T : r[b] \in 1..5
    BY MarketplaceAssumption DEF Tables, R!Given
  <1>2. PICK b \in T : \A c \in T : r[b] <= r[c]
    <2>1. PICK n \in Stars : \A m \in Stars : n <= m
      BY <1>1, LeastNatural
    <2>2. QED
      BY <2>1
  <1>3. PICK c \in T : \A d \in T : r[d] <= r[c]
    <2> DEFINE Missing == {5 - n : n \in Stars}
    <2>1. Missing \in SUBSET Nat /\ Missing # {}
      BY <1>1
    <2>2. PICK n \in Missing : \A m \in Missing : n <= m
      BY <2>1, LeastNatural
    <2>3. QED
      BY <1>1, <2>2
  <1>4. R!CountOf(r) \in Nat \ {0}
    BY CountIs, FS_EmptySet, FS_CardinalityType
  <1>5. /\ Total(r, T) \in Nat
        /\ R!CountOf(r) * r[b] <= Total(r, T) /\ Total(r, T) <= R!CountOf(r) * r[c]
    <2>1. \A d \in T : r[d] \in r[b]..r[c]
      BY <1>1, <1>2, <1>3
    <2>2. r[b] \in Nat /\ r[c] \in Nat
      BY <1>1
    <2>3. QED
      BY <2>1, <2>2, SumBounds, CountIs
  <1>6. R!AverageOf(r) = (20 * Total(r, T) + R!CountOf(r)) \div (2 * R!CountOf(r))
    BY <1>4 DEF R!AverageOf, Total
  <1>7. R!AverageOf(r) \in (10 * r[b])..(10 * r[c])
    <2>1. r[b] \in Nat /\ r[c] \in Nat
      BY <1>1
    <2>2. QED
      BY <1>4, <1>5, <1>6, <2>1, RoundedMean
  <1>8. QED
    BY <1>1, <1>4, <1>7 DEF Fitting

(* Two reviews that are inserted and not committed are of different stays, *)
(* and of stays without a review: the unique key makes the second wait.    *)
Apart ==
    \A s \in Sessions : author[s].pc \in R!Uncommitted =>
        /\ review[author[s].on] = 0
        /\ \A t \in Sessions \ {s} :
               author[t].pc \in R!Uncommitted => author[t].on # author[s].on

(* What a review has computed fits the reviews that were committed since,  *)
(* and its own.                                                            *)
Computed ==
    \A s \in Sessions :
        /\ author[s].pc \in {"counted", "averaged", "loaded"} =>
               author[s].count \in 1..R!CountOf(R!SeenBy(s))
        /\ author[s].pc \in {"averaged", "loaded"} => Fitting(R!SeenBy(s), author[s].rating)

(* Before the first review the row shows what it began with, and that is   *)
(* what a review has loaded; neither equals what a first review computes,  *)
(* so the first review writes both columns.                                *)
FirstReview ==
    R!Given(review) = {} =>
        /\ shown \in {R!Fresh, R!Seeded}
        /\ \A s \in Sessions : author[s].pc = "loaded" => author[s].saw = shown

(* What is shown after it fits the reviews there are.                      *)
ShownFits ==
    R!Given(review) # {} => /\ shown.count \in 1..R!CountOf(review)
                            /\ Fitting(review, shown.rating)

PlausibleInv == /\ IsFiniteSet(R!Given(review))
                /\ Apart /\ Computed /\ FirstReview /\ ShownFits

(* The reviews a request sees are those committed and its own.             *)
LEMMA SeenGiven ==
    ASSUME ReviewTypes, IsFiniteSet(R!Given(review)),
           NEW s \in Sessions, author[s].pc # "idle"
    PROVE  /\ R!Given(R!SeenBy(s)) = R!Given(review) \cup {author[s].on}
           /\ IsFiniteSet(R!Given(R!SeenBy(s)))
           /\ R!SeenBy(s) \in Tables
           /\ Fitting(R!SeenBy(s), R!AverageOf(R!SeenBy(s)))
           /\ R!CountOf(R!SeenBy(s)) \in Nat \ {0}
  <1>1. R!SeenBy(s) \in Tables
    BY SeenIsTable
  <1>2. R!Given(R!SeenBy(s)) = R!Given(review) \cup {author[s].on}
    BY MarketplaceAssumption DEF ReviewTypes, Tables, R!SeenBy, R!Given
  <1>3. IsFiniteSet(R!Given(R!SeenBy(s)))
    BY <1>2, FS_AddElement
  <1>4. QED
    BY <1>1, <1>2, <1>3, AverageFits

(* What fits a table fits one that has more reviews.                       *)
LEMMA MoreReviews ==
    ASSUME NEW r \in Tables, NEW q \in Tables, IsFiniteSet(R!Given(q)),
           R!Given(r) \subseteq R!Given(q), \A b \in R!Given(r) : q[b] = r[b]
    PROVE  /\ \A rating : Fitting(r, rating) => Fitting(q, rating)
           /\ 1..R!CountOf(r) \subseteq 1..R!CountOf(q)
  <1>1. \A rating : Fitting(r, rating) => Fitting(q, rating)
    BY DEF Fitting
  <1>2. Cardinality(R!Given(r)) <= Cardinality(R!Given(q))
        /\ Cardinality(R!Given(r)) \in Nat /\ Cardinality(R!Given(q)) \in Nat
    BY FS_Subset, FS_CardinalityType
  <1>3. QED
    BY <1>1, <1>2, CountIs

(* A step of one request that writes no row.                               *)
LEMMA PlausibleAlone ==
    ASSUME ReviewTypes, PlausibleInv, NEW s \in Sessions, NEW a \in Authors,
           author' = [author EXCEPT ![s] = a], UNCHANGED <<review, shown>>,
           a.pc \in R!Uncommitted =>
               /\ review[a.on] = 0
               /\ \A t \in Sessions \ {s} :
                      author[t].pc \in R!Uncommitted => author[t].on # a.on,
           a.pc \in {"counted", "averaged", "loaded"} =>
               a.count \in 1..R!CountOf([review EXCEPT ![a.on] = a.stars]),
           a.pc \in {"averaged", "loaded"} =>
               Fitting([review EXCEPT ![a.on] = a.stars], a.rating),
           a.pc = "loaded" => a.saw = shown \/ R!Given(review) # {}
    PROVE  PlausibleInv'
  <1>1. author'[s] = a /\ \A t \in Sessions \ {s} : author'[t] = author[t]
    BY DEF ReviewTypes
  <1>2. R!SeenBy(s)' = [review EXCEPT ![a.on] = a.stars]
    BY <1>1 DEF R!SeenBy
  <1>3. \A t \in Sessions \ {s} : R!SeenBy(t)' = R!SeenBy(t)
    BY <1>1 DEF R!SeenBy
  <1>4. Apart'
    BY <1>1 DEF PlausibleInv, Apart, R!Uncommitted
  <1>5. Computed'
    <2>1. ASSUME NEW t \in Sessions
          PROVE  /\ author'[t].pc \in {"counted", "averaged", "loaded"} =>
                        author'[t].count \in 1..R!CountOf(R!SeenBy(t)')
                 /\ author'[t].pc \in {"averaged", "loaded"} =>
                        Fitting(R!SeenBy(t)', author'[t].rating)
      <3>1. CASE t = s
        BY <1>1, <1>2, <3>1
      <3>2. CASE t # s
        BY <1>1, <1>3, <3>2 DEF PlausibleInv, Computed
      <3>3. QED
        BY <3>1, <3>2
    <2>2. QED
      BY <2>1 DEF Computed, Fitting, R!CountOf, R!Given
  <1>6. R!Given(review)' = R!Given(review)
    OBVIOUS
  <1>7. FirstReview'
    BY <1>1, <1>6 DEF PlausibleInv, FirstReview
  <1>8. ShownFits' /\ IsFiniteSet(R!Given(review))'
    BY <1>6 DEF PlausibleInv, ShownFits, Fitting, R!CountOf
  <1>9. QED
    BY <1>4, <1>5, <1>7, <1>8 DEF PlausibleInv

(* The commit writes what fits the table it leaves; so does what it keeps. *)
LEMMA PlausibleCommit ==
    ASSUME ReviewTypes, PlausibleInv, NEW s \in Sessions, R!ReviewCommit(s),
           ReviewTypes'
    PROVE  PlausibleInv'
  <1>1. /\ author[s].pc = "loaded" /\ author[s].on \in Bookings
        /\ author[s].stars \in Ratings /\ author[s].stars # 0
        /\ review[author[s].on] = 0 /\ review' = R!SeenBy(s)
        /\ shown' = R!WriteChanged(s)
        /\ author'[s] = R!Silent
        /\ \A t \in Sessions \ {s} : author'[t] = [author[t] EXCEPT !.overtaken = TRUE]
    BY MarketplaceAssumption
       DEF R!ReviewCommit, R!At, R!SeenBy, ReviewTypes, PlausibleInv, Apart, R!Uncommitted
  <1>2. /\ R!Given(review') = R!Given(review) \cup {author[s].on}
        /\ IsFiniteSet(R!Given(review')) /\ R!CountOf(review') \in Nat \ {0}
    BY <1>1, SeenGiven DEF PlausibleInv
  <1>3. \A t \in Sessions \ {s} :
            /\ author'[t].pc = author[t].pc /\ author'[t].on = author[t].on
            /\ author'[t].stars = author[t].stars /\ author'[t].count = author[t].count
            /\ author'[t].rating = author[t].rating
    BY <1>1 DEF ReviewTypes, Authors
  <1>4. R!Silent.pc = "idle"
    BY DEF R!Silent
  <1>5. Apart'
    BY <1>1, <1>3, <1>4 DEF PlausibleInv, Apart, R!Uncommitted, R!SeenBy, ReviewTypes, Tables
  <1>6. Computed'
    <2> SUFFICES ASSUME NEW t \in Sessions \ {s}
                 PROVE  /\ author[t].pc \in {"counted", "averaged", "loaded"} =>
                               author[t].count \in 1..R!CountOf(R!SeenBy(t)')
                        /\ author[t].pc \in {"averaged", "loaded"} =>
                               Fitting(R!SeenBy(t)', author[t].rating)
      BY <1>1, <1>3, <1>4 DEF Computed, Fitting, R!CountOf, R!Given
    <2>1. CASE author[t].pc \in {"counted", "averaged", "loaded"}
      <3>1. author[t].pc # "idle" /\ author[t].on # author[s].on
        BY <1>1, <2>1 DEF PlausibleInv, Apart, R!Uncommitted
      <3>2. R!SeenBy(t)' = [review' EXCEPT ![author[t].on] = author[t].stars]
        BY <1>3 DEF R!SeenBy
      <3>3. R!SeenBy(t)' \in Tables
        BY <3>1, <3>2 DEF ReviewTypes, Tables
      <3>4. R!Given(R!SeenBy(t)) = R!Given(review) \cup {author[t].on}
            /\ R!SeenBy(t) \in Tables
        BY <3>1, SeenGiven DEF PlausibleInv
      <3>5. author[t].on \in Bookings /\ author[t].stars # 0
        BY <3>1, MarketplaceAssumption DEF ReviewTypes
      <3>6. R!Given(R!SeenBy(t)') = R!Given(review') \cup {author[t].on}
        BY <3>2, <3>5 DEF R!Given, ReviewTypes, Tables
      <3>7. IsFiniteSet(R!Given(R!SeenBy(t)'))
        BY <1>2, <3>6, FS_AddElement
      <3>8. \A b \in R!Given(R!SeenBy(t)) : R!SeenBy(t)'[b] = R!SeenBy(t)[b]
        BY <1>1, <3>1, <3>2, <3>5 DEF R!SeenBy, R!Given, ReviewTypes, Tables
      <3>9. /\ \A rating : Fitting(R!SeenBy(t), rating) => Fitting(R!SeenBy(t)', rating)
            /\ 1..R!CountOf(R!SeenBy(t)) \subseteq 1..R!CountOf(R!SeenBy(t)')
        BY <1>2, <3>3, <3>4, <3>6, <3>7, <3>8, MoreReviews
      <3>10. QED
        BY <3>9 DEF PlausibleInv, Computed
    <2>2. QED
      BY <2>1
  <1>7. FirstReview'
    <2>1. R!Given(review)' # {}
      BY <1>2
    <2>2. QED
      BY <2>1 DEF FirstReview
  <1>8. author[s].count \in 1..R!CountOf(review') /\ Fitting(review', author[s].rating)
    BY <1>1 DEF PlausibleInv, Computed
  <1>9. shown'.count \in 1..R!CountOf(review') /\ Fitting(review', shown'.rating)
    <2>1. /\ shown'.count = IF author[s].count = author[s].saw.count THEN shown.count
                            ELSE author[s].count
          /\ \/ shown'.rating = author[s].rating
             \/ shown'.rating = shown.rating /\ author[s].rating = author[s].saw.rating
      BY <1>1 DEF R!WriteChanged, R!SameRating, ReviewTypes, Figures
    <2>2. CASE R!Given(review) # {}
      <3>1. shown.count \in 1..R!CountOf(review) /\ Fitting(review, shown.rating)
        BY <2>2 DEF PlausibleInv, ShownFits
      <3>2. \A b \in R!Given(review) : review'[b] = review[b]
        BY <1>1 DEF R!SeenBy, R!Given, ReviewTypes, Tables
      <3>3. review \in Tables /\ review' \in Tables
        BY DEF ReviewTypes
      <3>4. shown.count \in 1..R!CountOf(review') /\ Fitting(review', shown.rating)
        BY <1>2, <3>1, <3>2, <3>3, MoreReviews
      <3>5. QED
        BY <1>8, <2>1, <3>4
    <2>3. CASE R!Given(review) = {}
      <3>1. /\ shown \in {R!Fresh, R!Seeded} /\ author[s].saw = shown
            /\ R!Given(review') = {author[s].on}
        BY <1>1, <1>2, <2>3 DEF PlausibleInv, FirstReview
      <3>2. R!CountOf(review') = 1
        BY <3>1, FS_Singleton, CountIs
      <3>3. author[s].count = 1
        BY <1>8, <3>2
      <3>4. review'[author[s].on] \in 1..5
        BY <1>1, MarketplaceAssumption DEF R!SeenBy, ReviewTypes, Tables
      <3>5. author[s].rating = 10 * review'[author[s].on]
        BY <1>8, <3>1, <3>4 DEF Fitting
      <3>6. shown.count # 1 /\ shown.rating # author[s].rating
        BY <3>1, <3>4, <3>5 DEF R!Fresh, R!Seeded
      <3>7. QED
        BY <1>8, <2>1, <3>1, <3>3, <3>6
    <2>4. QED
      BY <2>2, <2>3
  <1>10. ShownFits'
    BY <1>9 DEF ShownFits, Fitting
  <1>11. QED
    BY <1>2, <1>5, <1>6, <1>7, <1>10 DEF PlausibleInv

(* Every step of a review keeps what is shown plausible.                   *)
LEMMA PlausibleStep ==
    ASSUME ReviewTypes, PlausibleInv, [R!Next]_(R!vars), ReviewTypes'
    PROVE  PlausibleInv'
  <1>1. ASSUME NEW s \in Sessions, NEW b \in Bookings, NEW stars \in Ratings,
               R!ReviewRead(s, b, stars)
        PROVE  PlausibleInv'
    <2> DEFINE a == [R!Silent EXCEPT !.pc = "checked", !.on = b, !.stars = stars]
    <2>1. a \in Authors /\ a.pc = "checked"
      BY DEF R!Silent, Authors, Counts, Averages, Figures
    <2>2. author' = [author EXCEPT ![s] = a] /\ UNCHANGED <<review, shown>>
      BY <1>1 DEF R!ReviewRead, R!rows
    <2>3. QED
      BY <2>1, <2>2, PlausibleAlone DEF R!Uncommitted
  <1>2. ASSUME NEW s \in Sessions, R!ReviewInsert(s) PROVE PlausibleInv'
    <2> DEFINE a == [author[s] EXCEPT !.pc = "inserted"]
    <2>1. a \in Authors /\ a.pc = "inserted" /\ a.on = author[s].on
      BY DEF ReviewTypes, Authors
    <2>2. author' = [author EXCEPT ![s] = a] /\ UNCHANGED <<review, shown>>
      BY <1>2 DEF R!ReviewInsert, R!rows
    <2>3. /\ review[a.on] = 0
          /\ \A t \in Sessions \ {s} :
                 author[t].pc \in R!Uncommitted => author[t].on # a.on
      BY <1>2, <2>1 DEF R!ReviewInsert, R!UniqueKey, R!InsertWaits
    <2>4. QED
      BY <2>1, <2>2, <2>3, PlausibleAlone
  <1>3. ASSUME NEW s \in Sessions, R!ReviewCount(s) PROVE PlausibleInv'
    <2> DEFINE a == [author[s] EXCEPT !.pc = "counted", !.count = R!CountOf(R!SeenBy(s)),
                                      !.overtaken = FALSE]
    <2>1. author[s].pc = "inserted" /\ author[s] \in Authors
      BY <1>3 DEF R!ReviewCount, R!At, ReviewTypes
    <2>2. R!CountOf(R!SeenBy(s)) \in Counts /\ R!CountOf(R!SeenBy(s)) \in Nat \ {0}
      BY <2>1, SeenIsTable, SeenGiven DEF PlausibleInv
    <2>3. /\ a \in Authors /\ a.pc = "counted" /\ a.on = author[s].on
          /\ a.stars = author[s].stars /\ a.count = R!CountOf(R!SeenBy(s))
      BY <2>1, <2>2 DEF Authors
    <2>4. author' = [author EXCEPT ![s] = a] /\ UNCHANGED <<review, shown>>
      BY <1>3 DEF R!ReviewCount, R!rows
    <2>5. /\ review[a.on] = 0
          /\ \A t \in Sessions \ {s} :
                 author[t].pc \in R!Uncommitted => author[t].on # a.on
      BY <2>1, <2>3 DEF PlausibleInv, Apart, R!Uncommitted
    <2>6. a.count \in 1..R!CountOf([review EXCEPT ![a.on] = a.stars])
      BY <2>2, <2>3 DEF R!SeenBy
    <2>7. QED
      BY <2>3, <2>4, <2>5, <2>6, PlausibleAlone
  <1>4. ASSUME NEW s \in Sessions, R!ReviewAverage(s) PROVE PlausibleInv'
    <2> DEFINE a == [author[s] EXCEPT !.pc = "averaged", !.rating = R!AverageOf(R!SeenBy(s))]
    <2>1. author[s].pc = "counted" /\ author[s] \in Authors
      BY <1>4 DEF R!ReviewAverage, R!At, ReviewTypes
    <2>2. /\ R!AverageOf(R!SeenBy(s)) \in Averages
          /\ Fitting(R!SeenBy(s), R!AverageOf(R!SeenBy(s)))
      BY <2>1, SeenIsTable, SeenGiven DEF PlausibleInv
    <2>3. /\ a \in Authors /\ a.pc = "averaged" /\ a.on = author[s].on
          /\ a.stars = author[s].stars /\ a.count = author[s].count
          /\ a.rating = R!AverageOf(R!SeenBy(s))
      BY <2>1, <2>2 DEF Authors
    <2>4. author' = [author EXCEPT ![s] = a] /\ UNCHANGED <<review, shown>>
      BY <1>4, <2>1 DEF R!ReviewAverage, R!Set, R!rows, ReviewTypes, Authors
    <2>5. /\ review[a.on] = 0
          /\ \A t \in Sessions \ {s} :
                 author[t].pc \in R!Uncommitted => author[t].on # a.on
      BY <2>1, <2>3 DEF PlausibleInv, Apart, R!Uncommitted
    <2>6. a.count \in 1..R!CountOf([review EXCEPT ![a.on] = a.stars])
      BY <2>1, <2>3 DEF R!SeenBy, PlausibleInv, Computed
    <2>7. Fitting([review EXCEPT ![a.on] = a.stars], a.rating)
      BY <2>2, <2>3 DEF R!SeenBy
    <2>8. QED
      BY <2>3, <2>4, <2>5, <2>6, <2>7, PlausibleAlone
  <1>5. ASSUME NEW s \in Sessions, R!ReviewLoad(s) PROVE PlausibleInv'
    <2> DEFINE a == [author[s] EXCEPT !.pc = "loaded", !.saw = shown]
    <2>1. author[s].pc = "averaged" /\ author[s] \in Authors /\ shown \in Figures
      BY <1>5 DEF R!ReviewLoad, R!At, ReviewTypes
    <2>2. /\ a \in Authors /\ a.pc = "loaded" /\ a.on = author[s].on
          /\ a.stars = author[s].stars /\ a.count = author[s].count
          /\ a.rating = author[s].rating /\ a.saw = shown
      BY <2>1 DEF Authors
    <2>3. author' = [author EXCEPT ![s] = a] /\ UNCHANGED <<review, shown>>
      BY <1>5, <2>1 DEF R!ReviewLoad, R!Set, R!rows, ReviewTypes, Authors
    <2>4. /\ review[a.on] = 0
          /\ \A t \in Sessions \ {s} :
                 author[t].pc \in R!Uncommitted => author[t].on # a.on
      BY <2>1, <2>2 DEF PlausibleInv, Apart, R!Uncommitted
    <2>5. a.count \in 1..R!CountOf([review EXCEPT ![a.on] = a.stars])
      BY <2>1, <2>2 DEF R!SeenBy, PlausibleInv, Computed
    <2>6. Fitting([review EXCEPT ![a.on] = a.stars], a.rating)
      BY <2>1, <2>2 DEF R!SeenBy, PlausibleInv, Computed
    <2>7. QED
      BY <2>2, <2>3, <2>4, <2>5, <2>6, PlausibleAlone
  <1>6. ASSUME NEW s \in Sessions, R!ReviewCommit(s) PROVE PlausibleInv'
    BY <1>6, PlausibleCommit
  <1>7. ASSUME NEW s \in Sessions, R!ReviewFails(s) PROVE PlausibleInv'
    <2>1. R!Silent \in Authors /\ R!Silent.pc = "idle"
      BY DEF R!Silent, Authors, Counts, Averages, Figures
    <2>2. author' = [author EXCEPT ![s] = R!Silent] /\ UNCHANGED <<review, shown>>
      BY <1>7 DEF R!ReviewFails, R!rows
    <2>3. QED
      BY <2>1, <2>2, PlausibleAlone DEF R!Uncommitted
  <1>8. CASE UNCHANGED <<review, shown, author>>
    BY <1>8 DEF PlausibleInv, Apart, Computed, FirstReview, ShownFits, Fitting,
                R!CountOf, R!Given, R!SeenBy
  <1>9. QED
    BY <1>1, <1>2, <1>3, <1>4, <1>5, <1>6, <1>7, <1>8
       DEF R!Next, R!ReviewStep, R!StayBooked, R!StayEnds, R!StayCancelled, R!vars

(* Nothing is reviewed at first.                                           *)
LEMMA PlausibleInit == Init => ReviewTypes /\ PlausibleInv
  <1> SUFFICES ASSUME Init PROVE ReviewTypes /\ PlausibleInv
    OBVIOUS
  <1>1. /\ review = [b \in Bookings |-> 0] /\ shown \in {R!Fresh, R!Seeded}
        /\ author = [s \in Sessions |-> R!Silent]
    BY DEF Init, R!Init
  <1>2. R!Silent \in Authors /\ R!Silent.pc = "idle"
    BY DEF R!Silent, Authors, Counts, Averages, Figures
  <1>3. R!Fresh \in Figures /\ R!Seeded \in Figures
    BY DEF R!Fresh, R!Seeded, Figures, Counts, Averages
  <1>4. R!Given(review) = {}
    BY <1>1 DEF R!Given
  <1>5. QED
    BY <1>1, <1>2, <1>3, <1>4, FS_EmptySet
       DEF ReviewTypes, Tables, PlausibleInv, Apart, Computed, FirstReview, ShownFits,
           R!Uncommitted

(* Together they hold for ever.                                            *)
LEMMA PlausibleInvHolds == Spec => [](ReviewTypes /\ PlausibleInv)
  <1>1. ReviewTypes /\ PlausibleInv /\ [Next]_vars => (ReviewTypes /\ PlausibleInv)'
    BY ReviewSteps, ReviewTypesStep, PlausibleStep
  <1>2. QED
    BY <1>1, PlausibleInit, PTL DEF Spec

(* AggregatesPlausible for every instance: whatever reviews overlap, a     *)
(* reviewed listing shows at least one review, never more than it has, and *)
(* an average between the fewest and the most stars given.                 *)
THEOREM AggregatesStayPlausible == Spec => []AggregatesPlausible
  <1>1. PlausibleInv => AggregatesPlausible
    BY DEF PlausibleInv, ShownFits, Fitting, AggregatesPlausible, R!AggregatesPlausible
  <1>2. QED
    BY <1>1, PlausibleInvHolds, PTL
===============================================================================
