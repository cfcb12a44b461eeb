---------------------------- MODULE CapacityProofs ----------------------------
(***************************************************************************)
(* Proofs about the number of listings of a host in Marketplace, for any   *)
(* finite sets of requests and listings.  Listings and creations under way *)
(* are counted together: a creation turns one into the other.              *)
(***************************************************************************)
EXTENDS MarketplaceProofs, FiniteSetTheorems

(* The host's listings, the requests that are creating one, and whether a  *)
(* change of status under way may bring back the archived listing.         *)
Live == {p \in Others \cup {First} : StillListed[p] = "live"}
Making == {s \in Sessions : psession[s] # "idle"}
LetIn == {s \in Sessions : psession[s] = "admitted"}
Reopening == First \notin Live /\ \E s \in Sessions : lsession[s].op = "status"

PlanTypes ==
    /\ others \in [Others -> {"none", "live", "archived"}]
    /\ sub \in P!Subscriptions \cup {P!NoSubscription}
    /\ psession \in [Sessions -> {"idle", "subscribing", "admitted"}]
    /\ swept \subseteq Others
    /\ unchecked \in Nat

(* A request is in one handler.                                            *)
OneHandler == \A s \in Sessions : lsession[s] # L!Idle => psession[s] = "idle"

(* Before there is a subscription only what was not checked is created;    *)
(* afterwards every request that is at work may create one.                *)
CapacityInv ==
    /\ sub = P!NoSubscription =>
           Cardinality(Live) + Cardinality(LetIn) + (IF Reopening THEN 1 ELSE 0)
           <= 1 + unchecked
    /\ sub # P!NoSubscription =>
           Cardinality(Live) + Cardinality(Making) + (IF Reopening THEN 1 ELSE 0)
           <= P!MaxLimit + Cardinality(Sessions) - 1 + unchecked

(* What is in the set of listings.                                         *)
LEMMA LiveFacts ==
    /\ First \in Live <=> space.status # "archived"
    /\ \A p \in Others : p \in Live <=> others[p] = "live"
    /\ Live \subseteq Others \cup {First}
    /\ P!Listings = Cardinality(Live)
  <1>1. P!Listings = Cardinality(Live)
    BY DEF Live, P!Listings, P!Cardinality, Cardinality
  <1>2. QED
    BY <1>1, MarketplaceAssumption DEF Live, StillListed

(* The same facts in the state after a step.                               *)
LEMMA LiveFactsNext ==
    /\ First \in Live' <=> space'.status # "archived"
    /\ \A p \in Others : p \in Live' <=> others'[p] = "live"
    /\ Live' \subseteq Others \cup {First}
    /\ P!Listings' = Cardinality(Live')
  <1>1. P!Listings' = Cardinality(Live')
    BY DEF Live, P!Listings, P!Cardinality, Cardinality
  <1>2. QED
    BY <1>1, MarketplaceAssumption DEF Live, StillListed

-------------------------------------------------------------------------------
(* The six kinds of steps, by what they do to listings and creations.      *)
Shrinks ==
    /\ Live' \subseteq Live /\ Making' \subseteq Making
    /\ sub = P!NoSubscription => LetIn' \subseteq LetIn
    /\ sub' = sub /\ unchecked' = unchecked
    /\ Reopening' => Reopening \/ First \in Live
Creates ==
    /\ \E p \in Others \ Live, s \in Making \cap LetIn :
           Live' = Live \cup {p} /\ Making' = Making \ {s} /\ LetIn' = LetIn \ {s}
    /\ sub' = sub /\ unchecked' = unchecked
    /\ Reopening' <=> Reopening
Admits ==
    /\ \E s \in Sessions \ Making : Making' = Making \cup {s}
    /\ Live' = Live /\ sub' = sub /\ unchecked' = unchecked /\ space.owned
    /\ sub = P!NoSubscription => LetIn' = LetIn
    /\ sub # P!NoSubscription => P!HasCapacity
    /\ Reopening' <=> Reopening
LetsIn ==
    /\ \E s \in Sessions \ LetIn : LetIn' = LetIn \cup {s} /\ Making' = Making \cup {s}
                                   /\ (space.owned \/ s \in Making)
    /\ Live' = Live /\ unchecked' = unchecked + 1
    /\ sub' = sub \/ sub' # P!NoSubscription
    /\ Reopening' <=> Reopening
Reopens ==
    /\ First \in Live' /\ Live' \subseteq Live \cup {First}
    /\ \E s \in Sessions : L!StatusWrite(s)
    /\ Making' = Making /\ LetIn' = LetIn /\ sub' = sub /\ unchecked' = unchecked
Subscribes ==
    /\ Live' = Live /\ Making' \subseteq Making
    /\ sub' # P!NoSubscription /\ unchecked' = unchecked
    /\ Reopening' <=> Reopening
CapacityStep == Shrinks \/ Creates \/ Admits \/ LetsIn \/ Reopens \/ Subscribes

(* The requests about a subscription and a creation.                       *)
LEMMA CreationSteps ==
    ASSUME PlanTypes, NEW s \in Sessions, Creation(s)
    PROVE  CapacityStep
  <1> USE DEF PlanTypes
  <1>0. UNCHANGED lvars
    BY DEF Creation
  <1>1. UNCHANGED <<space, lsession>>
    BY <1>0 DEF lvars
  <1>2. UNCHANGED others => Live' = Live /\ (Reopening' <=> Reopening)
    BY <1>1 DEF Live, StillListed, Reopening
  <1>3. CASE AccountActive /\ UNCHANGED others /\ P!MeetRow(s)
    <2>1. s \notin Making /\ Making' = Making \cup {s}
      BY <1>3 DEF P!MeetRow, Making
    <2>2. QED
      BY <1>2, <1>3, <2>1 DEF P!MeetRow, CapacityStep, Admits, AccountActive
  <1>4. CASE AccountActive /\ UNCHANGED others /\ P!MissRow(s)
    <2>1. s \notin Making /\ Making' = Making \cup {s} /\ LetIn' = LetIn
      BY <1>4 DEF P!MissRow, Making, LetIn
    <2>2. QED
      BY <1>2, <1>4, <2>1 DEF P!MissRow, CapacityStep, Admits, AccountActive
  <1>5. CASE UNCHANGED others /\ P!InsertRow(s)
    <2>1. Making' \subseteq Making
      BY <1>5 DEF P!InsertRow, Making
    <2>2. sub' # P!NoSubscription
      BY <1>5 DEF P!InsertRow, P!WithDefault, P!FreePlan, P!NoSubscription
    <2>3. QED
      BY <1>2, <1>5, <2>1, <2>2 DEF P!InsertRow, CapacityStep, Subscribes
  <1>6. CASE UNCHANGED others /\ (P!InsertFails(s) \/ P!CreationFails(s) \/ P!ProcessDies(s))
    <2>1. Making' \subseteq Making /\ sub' = sub /\ unchecked' = unchecked
      BY <1>6 DEF P!InsertFails, P!CreationFails, P!ProcessDies, Making
    <2>2. sub = P!NoSubscription => LetIn' \subseteq LetIn
      BY <1>6 DEF P!InsertFails, P!CreationFails, P!ProcessDies, LetIn
    <2>3. QED
      BY <1>2, <1>6, <2>1, <2>2 DEF CapacityStep, Shrinks
  <1>7. CASE UNCHANGED others /\ P!CheckFails(s) /\ (AccountActive \/ psession[s] # "idle")
    <2>1. s \notin LetIn /\ LetIn' = LetIn \cup {s} /\ Making' = Making \cup {s}
      BY <1>7 DEF P!CheckFails, LetIn, Making
    <2>2. sub' = sub \/ sub' # P!NoSubscription
      BY <1>7 DEF P!CheckFails, P!WithDefault, P!FreePlan, P!NoSubscription
    <2>3. space.owned \/ s \in Making
      BY <1>7 DEF AccountActive, Making
    <2>4. QED
      BY <1>2, <1>7, <2>1, <2>2, <2>3 DEF P!CheckFails, CapacityStep, LetsIn
  <1>8. ASSUME NEW p \in Others, others' = [others EXCEPT ![p] = "live"], P!Create(s, p)
        PROVE  CapacityStep
    <2>1. /\ s \in Making /\ Making' = Making \ {s}
          /\ s \in LetIn /\ LetIn' = LetIn \ {s}
      BY <1>8 DEF P!Create, Making, LetIn
    <2>2. p \notin Live
      BY <1>8, MarketplaceAssumption DEF P!Create, Live
    <2>3. Live' = Live \cup {p}
      BY <1>1, <1>8, LiveFacts, LiveFactsNext, MarketplaceAssumption
    <2>4. sub' = sub /\ unchecked' = unchecked
      BY <1>8 DEF P!Create
    <2>5. Reopening' <=> Reopening
      BY <1>1, <2>3, MarketplaceAssumption DEF Reopening
    <2>6. QED
      BY <2>1, <2>2, <2>3, <2>4, <2>5 DEF CapacityStep, Creates
  <1>9. QED
    BY <1>3, <1>4, <1>5, <1>6, <1>7, <1>8 DEF Creation

(* The plan's other steps.                                                 *)
LEMMA PlanSteps == ASSUME PlanTypes, PlanStep PROVE CapacityStep
  <1> USE DEF PlanTypes
  <1>1. UNCHANGED <<space, lsession>>
    BY DEF PlanStep, lvars
  <1>2. ASSUME UNCHANGED others,
               \/ P!RequestPro
               \/ \E plan \in {"free", "pro"}, status \in {"active", "pending", "cancelled"} :
                      P!SetPlan(plan, status)
        PROVE  CapacityStep
    <2>1. Live' = Live /\ (Reopening' <=> Reopening)
      BY <1>1, <1>2 DEF Live, StillListed, Reopening
    <2>2. CASE P!RequestPro
      <3>1. sub' # P!NoSubscription
        BY <2>2 DEF P!RequestPro, P!WithDefault, P!FreePlan, P!NoSubscription, P!Subscriptions
      <3>2. QED
        BY <2>1, <2>2, <3>1 DEF P!RequestPro, CapacityStep, Subscribes, Making
    <2>3. ASSUME NEW plan \in {"free", "pro"},
                 NEW status \in {"active", "pending", "cancelled"}, P!SetPlan(plan, status)
          PROVE  CapacityStep
      <3>1. sub' # P!NoSubscription
        BY <2>3 DEF P!SetPlan, P!NoSubscription
      <3>2. QED
        BY <2>1, <2>3, <3>1 DEF P!SetPlan, CapacityStep, Subscribes, Making
    <2>4. QED
      BY <1>2, <2>2, <2>3
  <1>3. ASSUME NEW p \in Others, others' = [others EXCEPT ![p] = "archived"], P!Archive(p)
        PROVE  CapacityStep
    <2>1. Live' \subseteq Live
      BY <1>1, <1>3, LiveFacts, LiveFactsNext
    <2>2. First \in Live' <=> First \in Live
      BY <1>1, LiveFacts, LiveFactsNext
    <2>3. QED
      BY <1>1, <1>3, <2>1, <2>2 DEF P!Archive, CapacityStep, Shrinks, Making, LetIn, Reopening
  <1>4. QED
    BY <1>2, <1>3 DEF PlanStep

(* What happens to the listing itself: only a change of status may bring   *)
(* it back.                                                                *)
LEMMA StatusSteps ==
    ASSUME ListingTypes, [L!Next]_(L!vars), UNCHANGED <<sub, psession, unchecked>>,
           \A p \in Others : others'[p] = "live" => others[p] = "live"
    PROVE  CapacityStep
  <1>1. Making' = Making /\ LetIn' = LetIn /\ sub' = sub /\ unchecked' = unchecked
    BY DEF Making, LetIn
  <1>2. ASSUME space'.status = "archived" \/ space.status # "archived",
               (\E s \in Sessions : lsession'[s].op = "status")
                   => (\E s \in Sessions : lsession[s].op = "status")
                      \/ space.status # "archived"
        PROVE  Shrinks
    <2>1. Live' \subseteq Live
      BY <1>2, LiveFacts, LiveFactsNext
    <2>2. Reopening' => Reopening \/ First \in Live
      BY <1>2, LiveFacts DEF Reopening
    <2>3. QED
      BY <1>1, <2>1, <2>2 DEF Shrinks
  <1>3. ASSUME NEW s \in Sessions, NEW op \in Ops \ {"idle"}, NEW arg \in Args,
               Begins(s, op, arg)
        PROVE  CapacityStep
    <2>1. op = "status" => space.status # "archived"
      BY <1>3 DEF Begins, Checked, L!OwnedSpace, L!Verdicts
    <2>2. lsession'[s].op = op /\ \A t \in Sessions \ {s} : lsession'[t] = lsession[t]
      BY <1>3 DEF Begins, ListingTypes
    <2>3. space' = space
      BY <1>3 DEF Begins
    <2>4. QED
      BY <1>2, <2>1, <2>2, <2>3 DEF CapacityStep
  <1>4. ASSUME NEW s \in Sessions, Writes(s) PROVE CapacityStep
    <2>1. /\ lsession'[s].op = "idle"
          /\ \A t \in Sessions \ {s} : lsession'[t] = lsession[t]
      BY <1>4, WritesEnd DEF ListingTypes, L!Idle
    <2>2. CASE space'.status = "archived" \/ space.status # "archived"
      BY <1>2, <2>1, <2>2 DEF CapacityStep
    <2>3. CASE space'.status # "archived" /\ space.status = "archived"
      <3>1. L!StatusWrite(s)
        BY <1>4, <2>3, ArchiveWritten, DeleteWritten, ReviewWritten
           DEF Writes, L!BookInsert, L!VerifyInsert
      <3>2. First \in Live' /\ Live' \subseteq Live \cup {First}
        BY <2>3, LiveFacts, LiveFactsNext
      <3>3. QED
        BY <1>1, <3>1, <3>2 DEF CapacityStep, Reopens
    <2>4. QED
      BY <2>2, <2>3
  <1>5. CASE UNCHANGED <<space, lsession>>
    <2>1. space' = space /\ lsession' = lsession
      BY <1>5
    <2>2. QED
      BY <1>2, <2>1 DEF CapacityStep
  <1>6. QED
    BY <1>3, <1>4, <1>5, ListingSummary DEF L!BookingEnds

(* Every step is of one of the six kinds.                                  *)
LEMMA CapacitySteps ==
    ASSUME StayTypes, ListingTypes, PlanTypes, [Next]_vars
    PROVE  CapacityStep
  <1>1. CASE \E s \in Sessions : Creation(s)
    BY <1>1, CreationSteps
  <1>2. CASE PlanStep
    BY <1>2, PlanSteps
  <1>3. ASSUME UNCHANGED <<sub, psession, unchecked>>,
               \A p \in Others : others'[p] = "live" => others[p] = "live"
        PROVE  CapacityStep
    BY <1>3, ListingSteps, StatusSteps
  <1>4. CASE \E s \in Sessions : \/ ListingStep(s) \/ VerificationStep(s) \/ DeletionRead(s)
                                 \/ BookingStep(s) \/ ReviewStep(s)
    BY <1>3, <1>4
       DEF ListingStep, VerificationStep, DeletionRead, BookingStep, ReviewStep, pvars
  <1>5. CASE \E s \in Sessions : DeletionWrite(s)
    BY <1>3, <1>5 DEF DeletionWrite
  <1>6. CASE \E b \in Bookings : StayStep(b)
    BY <1>3, <1>6 DEF StayStep, pvars
  <1>7. CASE UNCHANGED vars
    BY <1>3, <1>7 DEF vars, pvars
  <1>8. QED
    BY <1>1, <1>2, <1>4, <1>5, <1>6, <1>7 DEF Next

-------------------------------------------------------------------------------
(* Types, and the handlers of a request.                                   *)
LEMMA PlanTypesStep ==
    ASSUME PlanTypes, [Next]_vars PROVE PlanTypes'
  <1> USE DEF PlanTypes
  <1>1. ASSUME NEW s \in Sessions, Creation(s) PROVE PlanTypes'
    <2>1. swept' = swept
      BY <1>1 DEF Creation
    <2>2. CASE UNCHANGED others /\ (P!MeetRow(s) \/ P!MissRow(s))
      BY <2>1, <2>2 DEF P!MeetRow, P!MissRow
    <2>3. CASE UNCHANGED others /\ P!InsertRow(s)
      BY <2>1, <2>3 DEF P!InsertRow, P!WithDefault, P!FreePlan, P!Subscriptions,
                        P!NoSubscription
    <2>4. CASE UNCHANGED others /\ (P!InsertFails(s) \/ P!CreationFails(s) \/ P!ProcessDies(s))
      BY <2>1, <2>4 DEF P!InsertFails, P!CreationFails, P!ProcessDies
    <2>5. CASE UNCHANGED others /\ P!CheckFails(s)
      BY <2>1, <2>5 DEF P!CheckFails, P!WithDefault, P!FreePlan, P!Subscriptions,
                        P!NoSubscription
    <2>6. ASSUME NEW p \in Others, others' = [others EXCEPT ![p] = "live"], P!Create(s, p)
          PROVE  PlanTypes'
      BY <2>1, <2>6 DEF P!Create
    <2>7. QED
      BY <1>1, <2>2, <2>3, <2>4, <2>5, <2>6 DEF Creation
  <1>2. CASE PlanStep
    <2>1. swept' = swept
      BY <1>2 DEF PlanStep
    <2>2. CASE UNCHANGED others /\ P!RequestPro
      BY <2>1, <2>2 DEF P!RequestPro, P!WithDefault, P!FreePlan, P!Subscriptions,
                        P!NoSubscription
    <2>3. ASSUME NEW plan \in {"free", "pro"},
                 NEW status \in {"active", "pending", "cancelled"},
                 UNCHANGED others, P!SetPlan(plan, status)
          PROVE  PlanTypes'
      BY <2>1, <2>3 DEF P!SetPlan, P!Subscriptions, P!NoSubscription
    <2>4. ASSUME NEW p \in Others, others' = [others EXCEPT ![p] = "archived"], P!Archive(p)
          PROVE  PlanTypes'
      <3>1. others[p] = "live"
        BY <2>4, MarketplaceAssumption DEF P!Archive, StillListed
      <3>2. QED
        BY <2>1, <2>4, <3>1 DEF P!Archive
    <2>5. QED
      BY <1>2, <2>2, <2>3, <2>4 DEF PlanStep
  <1>3. ASSUME NEW s \in Sessions, DeletionRead(s) PROVE PlanTypes'
    BY <1>3 DEF DeletionRead, AllListings, pvars
  <1>4. ASSUME NEW s \in Sessions, DeletionWrite(s) PROVE PlanTypes'
    BY <1>4 DEF DeletionWrite
  <1>5. CASE UNCHANGED <<pvars, swept>>
    BY <1>5 DEF pvars
  <1>6. QED
    BY <1>1, <1>2, <1>3, <1>4, <1>5
       DEF Next, ListingStep, VerificationStep, BookingStep, ReviewStep, StayStep, vars

(* Every step keeps a request in one handler at a time.                    *)
LEMMA OneHandlerStep ==
    ASSUME ListingTypes, PlanTypes, OneHandler, [Next]_vars PROVE OneHandler'
  <1>0. L!Idle' = L!Idle
    BY DEF L!Idle, L!NewSpace
  <1>1. ASSUME NEW s \in Sessions, UNCHANGED psession,
               \A t \in Sessions \ {s} : lsession'[t] = lsession[t],
               Free(s) \/ lsession'[s] = L!Idle
        PROVE  OneHandler'
    BY <1>0, <1>1 DEF OneHandler, Free
  <1>2. ASSUME NEW s \in Sessions, NEW op, NEW arg, L!Begin(s, op, arg), Free(s),
               UNCHANGED psession
        PROVE  OneHandler'
    BY <1>1, <1>2 DEF L!Begin, ListingTypes
  <1>3. ASSUME NEW s \in Sessions, Writes(s), UNCHANGED psession PROVE OneHandler'
    BY <1>1, <1>3, WritesEnd DEF ListingTypes
  <1>4. ASSUME NEW s \in Sessions, ListingStep(s) PROVE OneHandler'
    BY <1>2, <1>3, <1>4 DEF ListingStep, L!StatusRead, L!ArchiveRead, Writes, pvars
  <1>5. ASSUME NEW s \in Sessions, VerificationStep(s) PROVE OneHandler'
    BY <1>2, <1>3, <1>5 DEF VerificationStep, L!VerifyRead, L!ReviewRead, Writes, pvars
  <1>6. ASSUME NEW s \in Sessions, DeletionRead(s) \/ DeletionWrite(s) PROVE OneHandler'
    BY <1>2, <1>3, <1>6 DEF DeletionRead, DeletionWrite, L!DeleteRead, Writes, pvars
  <1>7. ASSUME NEW s \in Sessions, BookingStep(s) PROVE OneHandler'
    BY <1>2, <1>3, <1>7 DEF BookingStep, L!BookRead, Writes, pvars
  <1>8. ASSUME NEW s \in Sessions, Creation(s) PROVE OneHandler'
    <2>1. lsession' = lsession
      BY <1>8 DEF Creation, lvars
    <2>2. /\ \A t \in Sessions \ {s} : psession'[t] = psession[t]
          /\ Free(s) \/ psession[s] # "idle"
      BY <1>8 DEF Creation, PlanTypes, P!MeetRow, P!MissRow, P!InsertRow, P!InsertFails,
                  P!CheckFails, P!CreationFails, P!ProcessDies, P!Create
    <2>3. QED
      BY <1>0, <2>1, <2>2 DEF OneHandler, Free
  <1>9. CASE UNCHANGED <<lsession, psession>>
    BY <1>0, <1>9 DEF OneHandler
  <1>10. CASE PlanStep
    BY <1>9, <1>10 DEF PlanStep, P!RequestPro, P!SetPlan, P!Archive, lvars
  <1>11. ASSUME NEW b \in Bookings, StayStep(b) PROVE OneHandler'
    BY <1>9, <1>11 DEF StayStep, L!BookingEnds, lvars, pvars
  <1>12. ASSUME NEW s \in Sessions, ReviewStep(s) PROVE OneHandler'
    BY <1>9, <1>12 DEF ReviewStep, lvars, pvars
  <1>13. CASE UNCHANGED vars
    BY <1>9, <1>13 DEF vars, lvars, pvars
  <1>14. QED
    BY <1>4, <1>5, <1>6, <1>7, <1>8, <1>10, <1>11, <1>12, <1>13 DEF Next

(* The types of the plan and the invariants above, of the initial states.  *)
LEMMA CapacityInit == Init => PlanTypes /\ OneHandler
  BY DEF Init, PlanTypes, OneHandler, P!NoSubscription

(* ... and of all states.                                                  *)
CommonInv == StayTypes /\ ListingTypes /\ PlanTypes /\ OneHandler

(* Every step keeps the part of the invariant both theorems share.         *)
LEMMA CommonInvStep ==
    CommonInv /\ [Next]_vars => (ListingTypes /\ PlanTypes /\ OneHandler)'
  BY ListingSteps, ListingTypesStep, PlanTypesStep, OneHandlerStep DEF CommonInv

(* The shared part holds in every behaviour.                               *)
LEMMA CommonInvHolds == Spec => []CommonInv
  <1>1. Init => ListingTypes /\ PlanTypes /\ OneHandler
    BY ListingTypesInit, CapacityInit
  <1>2. StayTypes /\ (ListingTypes /\ PlanTypes /\ OneHandler) /\ [Next]_vars
        => (ListingTypes /\ PlanTypes /\ OneHandler)'
    BY CommonInvStep DEF CommonInv
  <1>3. QED
    BY <1>1, <1>2, StayTypesHold, PTL DEF Spec, CommonInv

-------------------------------------------------------------------------------
(* Counting.                                                               *)
LEMMA Finite ==
    /\ IsFiniteSet(Sessions) /\ Cardinality(Sessions) \in Nat
    /\ IsFiniteSet(Live) /\ Cardinality(Live) \in Nat
    /\ IsFiniteSet(Making) /\ Cardinality(Making) \in Nat
    /\ IsFiniteSet(LetIn) /\ Cardinality(LetIn) \in Nat
    /\ Cardinality(Making) <= Cardinality(Sessions)
    /\ Cardinality(LetIn) <= Cardinality(Making)
  <1>1. IsFiniteSet(Sessions) /\ IsFiniteSet(Others)
    BY MarketplaceAssumption
  <1>2. IsFiniteSet(Others \cup {First})
    BY <1>1, FS_AddElement
  <1>3. /\ Live \in SUBSET (Others \cup {First}) /\ Making \in SUBSET Sessions
        /\ LetIn \in SUBSET Making
    BY LiveFacts DEF Making, LetIn
  <1>4. IsFiniteSet(Live) /\ IsFiniteSet(Making) /\ Cardinality(Making) <= Cardinality(Sessions)
    BY <1>1, <1>2, <1>3, FS_Subset
  <1>5. IsFiniteSet(LetIn) /\ Cardinality(LetIn) <= Cardinality(Making)
    BY <1>3, <1>4, FS_Subset
  <1>6. QED
    BY <1>1, <1>4, <1>5, FS_CardinalityType

(* The same of the state after a step.                                     *)
LEMMA FiniteNext ==
    /\ IsFiniteSet(Live') /\ Cardinality(Live') \in Nat
    /\ IsFiniteSet(Making') /\ Cardinality(Making') \in Nat
    /\ IsFiniteSet(LetIn') /\ Cardinality(LetIn') \in Nat
    /\ Cardinality(Making') <= Cardinality(Sessions)
    /\ Cardinality(LetIn') <= Cardinality(Making')
  <1>1. IsFiniteSet(Sessions) /\ IsFiniteSet(Others)
    BY MarketplaceAssumption
  <1>2. IsFiniteSet(Others \cup {First})
    BY <1>1, FS_AddElement
  <1>3. /\ Live' \in SUBSET (Others \cup {First}) /\ Making' \in SUBSET Sessions
        /\ LetIn' \in SUBSET Making'
    BY LiveFactsNext DEF Making, LetIn
  <1>4. IsFiniteSet(Live') /\ IsFiniteSet(Making')
        /\ Cardinality(Making') <= Cardinality(Sessions)
    BY <1>1, <1>2, <1>3, FS_Subset
  <1>5. IsFiniteSet(LetIn') /\ Cardinality(LetIn') <= Cardinality(Making')
    BY <1>3, <1>4, FS_Subset
  <1>6. QED
    BY <1>1, <1>4, <1>5, FS_CardinalityType

(* A set that gains one element at most gains one at most in number.       *)
LEMMA OneMore ==
    ASSUME NEW S, NEW T, NEW e, IsFiniteSet(S), T \in SUBSET (S \cup {e})
    PROVE  IsFiniteSet(T) /\ Cardinality(T) \in Nat /\ Cardinality(T) <= Cardinality(S) + 1
  <1>1. /\ IsFiniteSet(S \cup {e})
        /\ Cardinality(S \cup {e}) = IF e \in S THEN Cardinality(S) ELSE Cardinality(S) + 1
    BY FS_AddElement
  <1>2. Cardinality(T) <= Cardinality(S \cup {e}) /\ IsFiniteSet(T)
    BY <1>1, FS_Subset
  <1>3. Cardinality(T) \in Nat /\ Cardinality(S) \in Nat
    BY <1>2, FS_CardinalityType
  <1>4. QED
    BY <1>1, <1>2, <1>3

(* The effect of each kind of step on the numbers.                         *)
LEMMA CountedSteps ==
    /\ Shrinks => /\ Cardinality(Live') <= Cardinality(Live)
                  /\ Cardinality(Making') <= Cardinality(Making)
                  /\ sub = P!NoSubscription => Cardinality(LetIn') <= Cardinality(LetIn)
                  /\ First \in Live \ Live' => Cardinality(Live') <= Cardinality(Live) - 1
    /\ Creates => /\ Cardinality(Live') = Cardinality(Live) + 1
                  /\ Cardinality(Making') = Cardinality(Making) - 1
                  /\ Cardinality(LetIn') = Cardinality(LetIn) - 1
    /\ Admits => /\ Cardinality(Live') = Cardinality(Live)
                 /\ Cardinality(Making') = Cardinality(Making) + 1
                 /\ sub = P!NoSubscription => Cardinality(LetIn') = Cardinality(LetIn)
    /\ LetsIn => /\ Cardinality(Live') = Cardinality(Live)
                 /\ Cardinality(Making') <= Cardinality(Making) + 1
                 /\ Cardinality(LetIn') = Cardinality(LetIn) + 1
    /\ Reopens => /\ Cardinality(Live') <= Cardinality(Live) + 1
                  /\ Cardinality(Making') = Cardinality(Making)
                  /\ Cardinality(LetIn') = Cardinality(LetIn)
    /\ Subscribes => /\ Cardinality(Live') = Cardinality(Live)
                     /\ Cardinality(Making') <= Cardinality(Making)
  <1> USE Finite, FiniteNext
  <1>1. ASSUME Shrinks
        PROVE  /\ Cardinality(Live') <= Cardinality(Live)
               /\ Cardinality(Making') <= Cardinality(Making)
               /\ sub = P!NoSubscription => Cardinality(LetIn') <= Cardinality(LetIn)
               /\ First \in Live \ Live' => Cardinality(Live') <= Cardinality(Live) - 1
    <2>1. /\ Live' \in SUBSET Live /\ Making' \in SUBSET Making
          /\ sub = P!NoSubscription => LetIn' \in SUBSET LetIn
      BY <1>1 DEF Shrinks
    <2>2. /\ Cardinality(Live') <= Cardinality(Live)
          /\ Cardinality(Making') <= Cardinality(Making)
          /\ sub = P!NoSubscription => Cardinality(LetIn') <= Cardinality(LetIn)
      BY <2>1, FS_Subset
    <2>3. First \in Live \ Live' => Cardinality(Live') <= Cardinality(Live) - 1
      BY <2>1, <2>2, FS_Subset
    <2>4. QED
      BY <2>2, <2>3
  <1>2. Creates => /\ Cardinality(Live') = Cardinality(Live) + 1
                   /\ Cardinality(Making') = Cardinality(Making) - 1
                   /\ Cardinality(LetIn') = Cardinality(LetIn) - 1
    BY FS_AddElement, FS_RemoveElement DEF Creates
  <1>3. Admits => /\ Cardinality(Live') = Cardinality(Live)
                  /\ Cardinality(Making') = Cardinality(Making) + 1
                  /\ sub = P!NoSubscription => Cardinality(LetIn') = Cardinality(LetIn)
    BY FS_AddElement DEF Admits
  <1>4. LetsIn => /\ Cardinality(Live') = Cardinality(Live)
                  /\ Cardinality(Making') <= Cardinality(Making) + 1
                  /\ Cardinality(LetIn') = Cardinality(LetIn) + 1
    BY FS_AddElement, OneMore DEF LetsIn
  <1>5. Reopens => /\ Cardinality(Live') <= Cardinality(Live) + 1
                   /\ Cardinality(Making') = Cardinality(Making)
                   /\ Cardinality(LetIn') = Cardinality(LetIn)
    <2>1. Reopens => Live' \in SUBSET (Live \cup {First})
      BY DEF Reopens
    <2>2. QED
      BY <2>1, OneMore DEF Reopens
  <1>6. Subscribes => /\ Cardinality(Live') = Cardinality(Live)
                      /\ Cardinality(Making') <= Cardinality(Making)
    BY FS_Subset DEF Subscribes
  <1>7. QED
    BY <1>1, <1>2, <1>3, <1>4, <1>5, <1>6

-------------------------------------------------------------------------------
(* The limit.  A request that changes the status of the listing creates    *)
(* none, so what may come back is a listing one request less can overrun.  *)
LEMMA RoomToReopen ==
    ASSUME OneHandler
    PROVE  Cardinality(Making) + (IF Reopening THEN 1 ELSE 0) <= Cardinality(Sessions)
  <1>1. CASE Reopening
    <2>1. PICK t \in Sessions : lsession[t].op = "status"
      BY <1>1 DEF Reopening
    <2>2. Making \in SUBSET (Sessions \ {t})
      BY <2>1 DEF OneHandler, Making, L!Idle
    <2>3. IsFiniteSet(Sessions \ {t}) /\ Cardinality(Sessions \ {t}) = Cardinality(Sessions) - 1
      BY <2>1, Finite, FS_RemoveElement
    <2>4. Cardinality(Making) <= Cardinality(Sessions \ {t})
      BY <2>2, <2>3, FS_Subset
    <2>5. QED
      BY <1>1, <2>3, <2>4, Finite
  <1>2. CASE ~Reopening
    BY <1>2, Finite
  <1>3. QED
    BY <1>1, <1>2

(* Every step keeps the count of live and promised listings below its      *)
(* bound.                                                                  *)
LEMMA CapacityInvStep ==
    ASSUME FreeLimit > 1 \/ ProLimit > 1, CommonInv, CapacityInv, [Next]_vars
    PROVE  CapacityInv'
  <1> DEFINE n == Cardinality(Sessions)
             m == P!MaxLimit
             back == IF Reopening THEN 1 ELSE 0
             live == Cardinality(Live)
             making == Cardinality(Making)
             letin == Cardinality(LetIn)
             none == sub = P!NoSubscription
  <1>1. CapacityStep
    BY CapacitySteps DEF CommonInv
  <1>2. m \in Nat /\ m >= 2 /\ P!ListingLimit <= m /\ P!ListingLimit \in Nat
    BY MarketplaceAssumption DEF P!MaxLimit, P!ListingLimit
  <1>3. /\ n \in Nat /\ live \in Nat /\ making \in Nat /\ letin \in Nat /\ back \in {0, 1}
        /\ live' \in Nat /\ making' \in Nat /\ letin' \in Nat /\ back' \in {0, 1}
        /\ letin <= making /\ making <= n /\ making' <= n
        /\ unchecked \in Nat /\ unchecked' \in Nat
    <2>1. unchecked \in Nat /\ unchecked' \in Nat
      BY CommonInvStep DEF CommonInv, PlanTypes
    <2>2. QED
      BY <2>1, Finite, FiniteNext
  <1>4. making + back <= n
    BY RoomToReopen DEF CommonInv
  <1>5. /\ none => live + letin + back <= 1 + unchecked
        /\ ~none => live + making + back <= m + n - 1 + unchecked
    BY DEF CapacityInv
  <1>6. CapacityInv' <=> /\ none' => live' + letin' + back' <= 1 + unchecked'
                         /\ ~none' => live' + making' + back' <= m + n - 1 + unchecked'
    BY DEF CapacityInv, P!MaxLimit
  <1>7. making' + back' = making + 1 + back => making' + back' <= n
    <2>1. OneHandler'
      BY CommonInvStep DEF CommonInv
    <2>2. CASE Reopening'
      <3>1. PICK t \in Sessions : lsession'[t].op = "status"
        BY <2>2 DEF Reopening
      <3>2. Making' \in SUBSET (Sessions \ {t})
        BY <2>1, <3>1 DEF OneHandler, Making, L!Idle
      <3>3. IsFiniteSet(Sessions \ {t}) /\ Cardinality(Sessions \ {t}) = n - 1
        BY <3>1, Finite, FS_RemoveElement
      <3>4. Cardinality(Making') <= Cardinality(Sessions \ {t})
        BY <3>2, <3>3, FS_Subset
      <3>5. QED
        BY <2>2, <3>3, <3>4, <1>3
    <2>3. CASE ~Reopening'
      BY <2>3, <1>3
    <2>4. QED
      BY <2>2, <2>3
  <1>8. CASE Shrinks
    <2>1. /\ live' <= live /\ making' <= making /\ (none => letin' <= letin)
          /\ First \in Live \ Live' => live' <= live - 1
          /\ sub' = sub /\ unchecked' = unchecked /\ (none' <=> none)
      BY <1>8, CountedSteps DEF Shrinks, P!NoSubscription
    <2>2. Reopening' /\ ~Reopening => First \in Live \ Live'
      BY <1>8 DEF Shrinks, Reopening
    <2>3. live' + back' <= live + back
      BY <1>3, <2>1, <2>2
    <2>4. QED
      BY <1>2, <1>3, <1>5, <1>6, <2>1, <2>3
  <1>9. CASE Creates
    <2>1. /\ live' = live + 1 /\ making' = making - 1 /\ letin' = letin - 1 /\ back' = back
          /\ unchecked' = unchecked /\ (none' <=> none)
      BY <1>9, CountedSteps DEF Creates, P!NoSubscription
    <2>2. QED
      BY <1>2, <1>3, <1>5, <1>6, <2>1
  <1>10. CASE Admits
    <2>1. /\ live' = live /\ making' = making + 1 /\ back' = back
          /\ none => letin' = letin
          /\ unchecked' = unchecked /\ (none' <=> none)
      BY <1>10, CountedSteps DEF Admits, P!NoSubscription
    <2>2. ~none => live < P!ListingLimit
      BY <1>10, LiveFacts DEF Admits, P!HasCapacity
    <2>3. QED
      BY <1>2, <1>3, <1>5, <1>6, <1>7, <2>1, <2>2
  <1>11. CASE LetsIn
    <2>1. /\ live' = live /\ making' <= making + 1 /\ letin' = letin + 1 /\ back' = back
          /\ unchecked' = unchecked + 1 /\ (none' => none)
      BY <1>11, CountedSteps DEF LetsIn, P!NoSubscription
    <2>2. none => live' + making' + back' <= m + n - 1 + unchecked'
      <3>1. none => live' + back' <= 1 + unchecked
        BY <1>3, <1>5, <2>1
      <3>2. QED
        BY <1>2, <1>3, <2>1, <3>1
    <2>3. ~none => live' + making' + back' <= m + n - 1 + unchecked'
      BY <1>2, <1>3, <1>5, <2>1
    <2>4. none' => live' + letin' + back' <= 1 + unchecked'
      BY <1>3, <1>5, <2>1
    <2>5. QED
      BY <1>6, <2>2, <2>3, <2>4
  <1>12. CASE Reopens
    <2>1. back' = 0
      BY <1>12 DEF Reopens, Reopening
    <2>2. First \notin Live => back = 1
      <3>1. \E s \in Sessions : lsession[s].op = "status"
        BY <1>12 DEF Reopens, L!StatusWrite, L!Doing
      <3>2. QED
        BY <3>1 DEF Reopening
    <2>3. First \in Live => Live' \in SUBSET Live
      BY <1>12 DEF Reopens
    <2>4. First \in Live => live' <= live
      BY <2>3, Finite, FS_Subset
    <2>5. /\ live' <= live + 1 /\ making' = making /\ letin' = letin
          /\ unchecked' = unchecked /\ (none' <=> none)
      BY <1>12, CountedSteps DEF Reopens, P!NoSubscription
    <2>6. live' + back' <= live + back
      BY <1>3, <2>1, <2>2, <2>4, <2>5
    <2>7. QED
      BY <1>2, <1>3, <1>5, <1>6, <2>5, <2>6
  <1>13. CASE Subscribes
    <2>1. /\ live' = live /\ making' <= making /\ back' = back /\ unchecked' = unchecked
          /\ ~none'
      BY <1>13, CountedSteps DEF Subscribes, P!NoSubscription
    <2>2. none => live' + making' + back' <= m + n - 1 + unchecked'
      BY <1>2, <1>3, <1>5, <2>1
    <2>3. ~none => live' + making' + back' <= m + n - 1 + unchecked'
      BY <1>2, <1>3, <1>5, <2>1
    <2>4. QED
      BY <1>6, <2>1, <2>2, <2>3
  <1>14. QED
    BY <1>1, <1>8, <1>9, <1>10, <1>11, <1>12, <1>13 DEF CapacityStep

(* OverrunBounded for every instance with a plan that allows more than one *)
(* listing: n requests at a time overrun the largest limit by at most n - 1*)
(* listings, and by one more for each check that failed, whatever pauses,  *)
(* archiving, deletion and changes of the plan overlap.  (With limits of 1 *)
(* alone a host who had a listing before there were plans could get n      *)
(* more.)                                                                  *)
THEOREM OverrunIsBounded ==
    ASSUME FreeLimit > 1 \/ ProLimit > 1
    PROVE  Spec => []OverrunBounded
  <1>1. Init => CapacityInv
    <2> SUFFICES ASSUME Init PROVE CapacityInv
      OBVIOUS
    <2>1. /\ sub = P!NoSubscription /\ unchecked = 0 /\ ~Reopening /\ LetIn = {}
          /\ \A p \in Others : others[p] = "none"
      BY DEF Init, L!Init, Demonstration, Reopening, LetIn, L!Idle
    <2>2. Live \in SUBSET {First}
      BY <2>1, LiveFacts
    <2>3. IsFiniteSet({First}) /\ Cardinality({First}) = 1
      BY FS_Singleton
    <2>4. Cardinality(Live) <= 1
      BY <2>2, <2>3, FS_Subset
    <2>5. Cardinality(LetIn) = 0
      BY <2>1, FS_EmptySet
    <2>6. QED
      BY <2>1, <2>4, <2>5, Finite DEF CapacityInv
  <1>2. CommonInv /\ CapacityInv /\ [Next]_vars => CapacityInv'
    BY CapacityInvStep
  <1>3. CommonInv /\ CapacityInv => OverrunBounded
    <2> SUFFICES ASSUME CommonInv, CapacityInv PROVE OverrunBounded
      OBVIOUS
    <2>1. P!MaxLimit \in Nat /\ P!MaxLimit >= 2
      BY MarketplaceAssumption DEF P!MaxLimit
    <2>2. unchecked \in Nat
      BY DEF CommonInv, PlanTypes
    <2>3. Cardinality(Live) <= P!MaxLimit + Cardinality(Sessions) - 1 + unchecked
      <3>1. CASE sub = P!NoSubscription
        BY <2>1, <2>2, <3>1, Finite DEF CapacityInv
      <3>2. CASE sub # P!NoSubscription
        BY <2>1, <2>2, <3>2, Finite DEF CapacityInv
      <3>3. QED
        BY <3>1, <3>2
    <2>4. P!Listings <= P!MaxLimit + Cardinality(Sessions) - 1 + unchecked
      BY <2>3, LiveFacts
    <2>5. QED
      BY <2>4 DEF OverrunBounded, P!OverrunBounded, P!Cardinality, Cardinality
  <1>4. QED
    BY <1>1, <1>2, <1>3, CommonInvHolds, PTL DEF Spec

-------------------------------------------------------------------------------
(* The end of the account: what its requests in flight may still add.      *)
Busy == Creations \cup Reopenings

(* Once the account is deleted no request begins that could add a listing, *)
(* and one that adds a listing ends.                                       *)
LEMMA DeletedStep ==
    ASSUME CommonInv, [Next]_vars, ~space.owned
    PROVE  \/ Live' \subseteq Live /\ Busy' \subseteq Busy
           \/ \E p, s : s \in Busy /\ Live' \subseteq Live \cup {p} /\ Busy' \subseteq Busy \ {s}
  <1> USE DEF CommonInv
  <1>0. L!Idle.op = "idle"
    BY DEF L!Idle
  <1>1. Creations = Making /\ Creations' = Making'
    BY DEF Creations, Making
  <1>2. Reopenings' \subseteq Reopenings
    <2>1. ASSUME NEW s \in Sessions, NEW op \in Ops \ {"idle"}, NEW arg \in Args,
                 Begins(s, op, arg)
          PROVE  Reopenings' \subseteq Reopenings
      <3>1. op # "status"
        BY <2>1 DEF Begins, Checked, L!OwnedSpace, L!Verdicts
      <3>2. QED
        BY <2>1, <3>1 DEF Begins, Reopenings, ListingTypes
    <2>2. ASSUME NEW s \in Sessions, Writes(s) PROVE Reopenings' \subseteq Reopenings
      BY <1>0, <2>2, WritesEnd DEF Reopenings, ListingTypes
    <2>3. CASE lsession' = lsession
      BY <2>3 DEF Reopenings
    <2>4. QED
      BY <2>1, <2>2, <2>3, ListingSteps, ListingSummary DEF L!BookingEnds
  <1>3. ASSUME Live' \subseteq Live, Making' \subseteq Making PROVE Busy' \subseteq Busy
    BY <1>1, <1>2, <1>3 DEF Busy
  <1>4. CASE Shrinks \/ Subscribes
    BY <1>3, <1>4 DEF Shrinks, Subscribes
  <1>5. CASE Creates
    <2>1. PICK p \in Others \ Live, s \in Making \cap LetIn :
              Live' = Live \cup {p} /\ Making' = Making \ {s}
      BY <1>5 DEF Creates
    <2>2. s \notin Reopenings
      BY <2>1, <1>0 DEF OneHandler, Making, Reopenings
    <2>3. QED
      BY <1>1, <1>2, <2>1, <2>2 DEF Busy
  <1>6. CASE LetsIn
    BY <1>1, <1>2, <1>6 DEF LetsIn, Busy
  <1>7. CASE Reopens
    <2>1. PICK s \in Sessions : L!StatusWrite(s)
      BY <1>7 DEF Reopens
    <2>2. s \in Reopenings /\ s \notin Making
      BY <2>1, <1>0 DEF L!StatusWrite, L!Doing, Reopenings, OneHandler, Making
    <2>3. s \notin Reopenings'
      BY <1>0, <2>1 DEF L!StatusWrite, L!Finish, Reopenings, ListingTypes
    <2>4. QED
      BY <1>1, <1>2, <1>7, <2>2, <2>3 DEF Reopens, Busy
  <1>8. QED
    BY <1>4, <1>5, <1>6, <1>7, CapacitySteps DEF CapacityStep, Admits

(* DeletedHostStops for every instance and with every overlap: once the    *)
(* account is deleted, its listings and the requests in flight that could  *)
(* add to them only become fewer, taken together.                          *)
THEOREM DeletedHostHasStopped == Spec => DeletedHostStops
  <1>1. CommonInv /\ [Next]_vars => (~space.owned => Promised' <= Promised)
    <2> SUFFICES ASSUME CommonInv, [Next]_vars, ~space.owned PROVE Promised' <= Promised
      OBVIOUS
    <2> DEFINE live == Cardinality(Live)
               busy == Cardinality(Busy)
    <2>1. Promised = live + busy /\ Promised' = live' + busy'
      BY LiveFacts, LiveFactsNext DEF Promised, Busy
    <2>2. /\ IsFiniteSet(Busy) /\ IsFiniteSet(Busy')
          /\ live \in Nat /\ live' \in Nat /\ busy \in Nat /\ busy' \in Nat
      <3>1. Busy \in SUBSET Sessions /\ Busy' \in SUBSET Sessions
        BY DEF Busy, Creations, Reopenings
      <3>2. QED
        BY <3>1, Finite, FiniteNext, FS_Subset, FS_CardinalityType
    <2>3. CASE Live' \subseteq Live /\ Busy' \subseteq Busy
      <3>1. live' <= live /\ busy' <= busy
        BY <2>2, <2>3, Finite, FS_Subset
      <3>2. QED
        BY <2>1, <2>2, <3>1
    <2>4. ASSUME NEW p, NEW s \in Busy, Live' \subseteq Live \cup {p}, Busy' \subseteq Busy \ {s}
          PROVE  Promised' <= Promised
      <3>1. Live' \in SUBSET (Live \cup {p}) /\ Busy' \in SUBSET (Busy \ {s})
        BY <2>4
      <3>2. live' <= live + 1
        BY <3>1, Finite, OneMore
      <3>3. IsFiniteSet(Busy \ {s}) /\ Cardinality(Busy \ {s}) = busy - 1
        BY <2>2, <2>4, FS_RemoveElement
      <3>4. busy' <= Cardinality(Busy \ {s})
        BY <3>1, <3>3, FS_Subset
      <3>5. QED
        BY <2>1, <2>2, <3>2, <3>3, <3>4
    <2>5. QED
      BY <2>3, <2>4, DeletedStep
  <1>2. QED
    BY <1>1, CommonInvHolds, PTL DEF Spec, DeletedHostStops

-------------------------------------------------------------------------------
(* Marketplace's TypeOK for every instance with finitely many bookings:    *)
(* above all, what a listing shows of its reviews is never a count beyond  *)
(* its bookings or a rating beyond five stars.                             *)
THEOREM MarketplaceTypeCorrect ==
    ASSUME IsFiniteSet(Bookings)
    PROVE  Spec => []TypeOK
  <1>1. ListingTypes => L!TypeOK
    BY DEF ListingTypes, L!TypeOK, Works
  <1>2. PlanTypes /\ ListingTypes => P!TypeOK /\ swept \subseteq Others
    BY DEF PlanTypes, P!TypeOK, StillListed
  <1>3. StayTypes /\ ReviewTypes /\ PlausibleInv => R!TypeOK
    <2> SUFFICES ASSUME StayTypes, ReviewTypes, PlausibleInv PROVE R!TypeOK
      OBVIOUS
    <2> DEFINE Sizes == 0..R!Cardinality(Bookings)
    <2>1. R!Cardinality(Bookings) = Cardinality(Bookings)
      BY DEF R!Cardinality, Cardinality
    <2>2. /\ Cardinality(Bookings) \in Nat /\ R!CountOf(review) \in Nat
          /\ R!CountOf(review) <= Cardinality(Bookings)
      <3>1. R!Given(review) \subseteq Bookings
        BY DEF R!Given
      <3>2. QED
        BY <3>1, CountIs, FS_Subset, FS_CardinalityType
    <2>3. shown \in [count : Sizes, rating : 0..50] \cup {R!Seeded}
      <3>1. CASE R!Given(review) = {}
        BY <2>1, <2>2, <3>1 DEF PlausibleInv, FirstReview, R!Fresh
      <3>2. CASE R!Given(review) # {}
        <4>1. shown.count \in Sizes /\ shown.rating \in 0..50
          BY <2>1, <2>2, <3>2 DEF PlausibleInv, ShownFits, Fitting
        <4>2. shown = [count |-> shown.count, rating |-> shown.rating]
          BY DEF ReviewTypes, Figures
        <4>3. QED
          BY <4>1, <4>2
      <3>3. QED
        BY <3>1, <3>2
    <2>4. QED
      BY <2>3 DEF R!TypeOK, StayTypes, ReviewTypes, Tables, Authors
  <1>4. QED
    BY <1>1, <1>2, <1>3, CommonInvHolds, PlausibleInvHolds, PTL DEF TypeOK, CommonInv
===============================================================================
