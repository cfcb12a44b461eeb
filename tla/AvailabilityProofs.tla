-------------------------- MODULE AvailabilityProofs --------------------------
(***************************************************************************)
(* evaluate_availability for any length of the day, any number of days, any*)
(* schedule and any window: the walk over the segments gives the answer    *)
(* that the slots give one by one.                                         *)
(***************************************************************************)
EXTENDS Availability, FiniteSetTheorems, TLAPS

-------------------------------------------------------------------------------
(* Days and slots.                                                         *)
Midnight(d) == d * DaySlots

(* Days follow each other without a gap.                                   *)
LEMMA NextMidnight ==
    ASSUME NEW d \in Nat
    PROVE  /\ Midnight(d) \in Nat
           /\ Midnight(d + 1) = Midnight(d) + DaySlots
<1>1. DaySlots \in Nat
  BY AvailabilityAssumption
<1> QED
  BY <1>1 DEF Midnight

(* A later day begins after the earlier one has ended.                     *)
LEMMA DaysApart ==
    ASSUME NEW c \in Nat, NEW d \in Nat, c < d
    PROVE  Midnight(c) + DaySlots <= Midnight(d)
<1>1. DaySlots \in Nat
  BY AvailabilityAssumption
<1>2. PICK k \in Nat : d = c + 1 + k
  <2>1. d - c - 1 \in Nat /\ d = c + 1 + (d - c - 1)
    OBVIOUS
  <2> QED
    BY <2>1
<1>3. d * DaySlots = c * DaySlots + DaySlots + k * DaySlots
  BY <1>1, <1>2
<1>4. k * DaySlots >= 0 /\ c * DaySlots \in Nat /\ k * DaySlots \in Nat
  BY <1>1
<1> QED
  BY <1>1, <1>3, <1>4 DEF Midnight

(* A slot is its time of day after the midnight of its day.                *)
LEMMA SlotOfDay ==
    ASSUME NEW t \in Nat
    PROVE  /\ DayOf(t) \in Nat /\ TimeOf(t) \in 0..(DaySlots - 1)
           /\ t = Midnight(DayOf(t)) + TimeOf(t)
<1>1. DaySlots \in Nat /\ DaySlots > 0
  BY AvailabilityAssumption
<1>2. t \div DaySlots \in Nat /\ t % DaySlots \in 0..(DaySlots - 1)
  BY <1>1
<1>3. t = (t \div DaySlots) * DaySlots + (t % DaySlots)
  BY <1>1
<1> QED
  BY <1>2, <1>3 DEF DayOf, TimeOf, Midnight

(* The slots between two midnights are those of the day.                   *)
LEMMA SameDay ==
    ASSUME NEW d \in Nat, NEW t \in Nat, Midnight(d) <= t, t < Midnight(d) + DaySlots
    PROVE  DayOf(t) = d /\ TimeOf(t) = t - Midnight(d)
<1>1. /\ DayOf(t) \in Nat /\ TimeOf(t) \in 0..(DaySlots - 1) /\ DaySlots \in Nat
      /\ t = Midnight(DayOf(t)) + TimeOf(t)
      /\ Midnight(d) \in Nat /\ Midnight(DayOf(t)) \in Nat
  BY SlotOfDay, NextMidnight, AvailabilityAssumption
<1>2. ~(DayOf(t) < d)
  BY <1>1, DaysApart
<1>3. ~(d < DayOf(t))
  BY <1>1, DaysApart
<1>4. DayOf(t) = d
  BY <1>1, <1>2, <1>3
<1> QED
  BY <1>1, <1>4

-------------------------------------------------------------------------------
(* The invariant.                                                          *)
Before == window.start..(cursor - 1)
Scheduled == rules # NoRules
Through == ~Scheduled \/ cursor = window.end

Types == /\ rules \in Schedules \cup {NoRules}
         /\ block \in Windows \cup {NoWindow} /\ booked \in Windows \cup {NoWindow}
         /\ TypeOK /\ IsFiniteSet(matched)

(* The segments walked so far are open in every slot, and their overrides  *)
(* are those of the days of these slots.                                   *)
OpenSoFar == Scheduled => \A t \in Before : OpenAt(t)
MatchedSoFar ==
    matched = IF Scheduled THEN {rules[DayOf(t)].price : t \in Before} \ {Unset} ELSE {}

(* The answer is right, and an accepted window has been walked through.    *)
Answered == /\ AcceptsExactlyFree
            /\ decision.code = "available" => Through /\ decision.price = EffectivePrice

IInv == Types /\ OpenSoFar /\ MatchedSoFar /\ Answered

(* The window lies in the days modelled, and so does each of its slots.    *)
LEMMA WindowFacts ==
    ASSUME Types
    PROVE  /\ window.start \in Nat /\ window.end \in Nat /\ window.start < window.end
           /\ window.end <= Midnight(Days) /\ cursor \in Nat
           /\ window.start <= cursor /\ cursor <= window.end
           /\ \A t : t \in Asked <=> t \in Nat /\ window.start <= t /\ t < window.end
<1>1. Days \in Nat /\ DaySlots \in Nat /\ Days * DaySlots \in Nat
  BY AvailabilityAssumption
<1>2. window \in [start : Slots, end : Slots] /\ window.start < window.end
  BY DEF Types, TypeOK, Windows
<1>3. window.start \in Slots /\ window.end \in Slots
  BY <1>2
<1>4. cursor \in window.start..window.end
  BY DEF Types, TypeOK
<1>5. Slots = 0..Midnight(Days) /\ Midnight(Days) \in Nat
  BY <1>1 DEF Slots, Midnight
<1> QED
  BY <1>2, <1>3, <1>4, <1>5 DEF Asked, Within

(* A schedule has a rule for each of their days, one that closes at 23:59  *)
(* at the latest, or none that opens.                                      *)
LEMMA RuleFacts ==
    ASSUME Types, Scheduled, NEW t \in Nat, t < Midnight(Days)
    PROVE  /\ DayOf(t) \in 0..(Days - 1)
           /\ rules[DayOf(t)].price \in Prices \cup {Unset}
           /\ rules[DayOf(t)] # Closed =>
                 /\ rules[DayOf(t)].opens \in Nat /\ rules[DayOf(t)].closes \in Nat
                 /\ rules[DayOf(t)].closes <= Last
<1> DEFINE d == DayOf(t)
<1>1. Days \in Nat /\ DaySlots \in Nat
  BY AvailabilityAssumption
<1>2. d \in Nat /\ Midnight(d) <= t /\ Midnight(d) \in Nat /\ Midnight(Days) \in Nat
  BY <1>1, SlotOfDay, NextMidnight
<1>3. d < Days
  BY <1>1, <1>2, DaysApart
<1>4. d \in 0..(Days - 1)
  BY <1>1, <1>2, <1>3
<1>5. rules \in Schedules
  BY DEF Types, Scheduled
<1>6. /\ rules[d] \in Rules
      /\ rules[d] = Closed \/ [opens |-> rules[d].opens, closes |-> rules[d].closes] \in RuleTimes
  BY <1>4, <1>5 DEF Schedules
<1>7. rules[d].price \in Prices \cup {Unset}
  BY <1>6 DEF Rules, Closed
<1>8. ASSUME rules[d] # Closed
      PROVE  /\ rules[d].opens \in Nat /\ rules[d].closes \in Nat
             /\ rules[d].closes <= Last
  <2> DEFINE h == [opens |-> rules[d].opens, closes |-> rules[d].closes]
  <2>1. h \in RuleTimes
    BY <1>6, <1>8
  <2>2. h.opens \in Nat /\ h.closes \in 0..(DaySlots - 1)
    BY <2>1, AvailabilityAssumption
  <2> QED
    BY <1>1, <2>2 DEF Last
<1> QED
  BY <1>4, <1>7, <1>8

(* The segment: it begins at the cursor, ends within the window, and stays *)
(* within the cursor's day.                                                *)
LEMMA SegmentFacts ==
    ASSUME Types, cursor < window.end
    PROVE  LET m == Midnight(DayOf(cursor)) IN
           /\ DayOf(cursor) \in Nat /\ m \in Nat /\ m <= cursor
           /\ TimeOf(cursor) = cursor - m
           /\ SegmentEnd \in Nat /\ cursor < SegmentEnd /\ SegmentEnd <= window.end
           /\ SegmentEnd <= m + DaySlots
           /\ SegmentCloses(SegmentEnd) =
                 IF SegmentEnd = m + DaySlots THEN Last ELSE SegmentEnd - m
           /\ \A t \in cursor..(SegmentEnd - 1) :
                 DayOf(t) = DayOf(cursor) /\ TimeOf(t) = t - m
<1> DEFINE d == DayOf(cursor)
           m == Midnight(d)
<1>1. DaySlots \in Nat /\ DaySlots > 0
  BY AvailabilityAssumption
<1>2. /\ cursor \in Nat /\ window.end \in Nat
      /\ d \in Nat /\ TimeOf(cursor) \in 0..(DaySlots - 1) /\ cursor = m + TimeOf(cursor)
  BY WindowFacts, SlotOfDay
<1>3. m \in Nat /\ (d + 1) * DaySlots = m + DaySlots
  BY <1>2, NextMidnight DEF Midnight
<1>4. SegmentEnd = IF window.end < m + DaySlots THEN window.end ELSE m + DaySlots
  BY <1>3 DEF SegmentEnd
<1>5. /\ SegmentEnd \in Nat /\ cursor < SegmentEnd /\ SegmentEnd <= window.end
      /\ SegmentEnd <= m + DaySlots /\ m <= cursor
  BY <1>1, <1>2, <1>3, <1>4
<1> HIDE DEF m, d
<1>6. \A t \in cursor..(SegmentEnd - 1) : DayOf(t) = d /\ TimeOf(t) = t - m
  BY <1>1, <1>2, <1>3, <1>5, SameDay DEF m
<1>7. SegmentCloses(SegmentEnd) = IF SegmentEnd = m + DaySlots THEN Last ELSE SegmentEnd - m
  <2>1. CASE SegmentEnd = m + DaySlots
    <3>1. DayOf(SegmentEnd) = d + 1
      <4>1. d + 1 \in Nat /\ Midnight(d + 1) = SegmentEnd
        BY <1>2, <2>1, NextMidnight DEF m
      <4> QED
        BY <1>1, <1>5, <4>1, SameDay
    <3> QED
      BY <1>2, <2>1, <3>1 DEF SegmentCloses, d
  <2>2. CASE SegmentEnd # m + DaySlots
    <3>1. DayOf(SegmentEnd) = d /\ TimeOf(SegmentEnd) = SegmentEnd - m
      BY <1>1, <1>2, <1>3, <1>5, <2>2, SameDay DEF m
    <3> QED
      BY <1>2, <2>2, <3>1 DEF SegmentCloses, d
  <2> QED
    BY <2>1, <2>2
<1> QED
  BY <1>2, <1>3, <1>5, <1>6, <1>7 DEF m, d

(* A rule covers a segment exactly if it is open in all of its slots.      *)
LEMMA CoversMeansOpen ==
    ASSUME Types, Scheduled, cursor < window.end
    PROVE  Covers(rules[DayOf(cursor)], SegmentEnd)
               <=> \A t \in cursor..(SegmentEnd - 1) : OpenAt(t)
<1> DEFINE d == DayOf(cursor)
           m == Midnight(d)
           rule == rules[d]
<1>1. DaySlots \in Nat /\ DaySlots > 0 /\ Last = DaySlots - 1
  BY AvailabilityAssumption DEF Last
<1>2. /\ cursor \in Nat /\ window.end \in Nat /\ Midnight(Days) \in Nat
      /\ window.end <= Midnight(Days)
  BY WindowFacts, NextMidnight, AvailabilityAssumption
<1>3. /\ d \in Nat /\ m \in Nat /\ m <= cursor /\ TimeOf(cursor) = cursor - m
      /\ SegmentEnd \in Nat /\ cursor < SegmentEnd /\ SegmentEnd <= m + DaySlots
      /\ SegmentCloses(SegmentEnd) =
            IF SegmentEnd = m + DaySlots THEN Last ELSE SegmentEnd - m
      /\ \A t \in cursor..(SegmentEnd - 1) : DayOf(t) = d /\ TimeOf(t) = t - m
  BY SegmentFacts
<1>4. rule # Closed => rule.opens \in Nat /\ rule.closes \in Nat /\ rule.closes <= Last
  BY <1>2, RuleFacts
<1>5. ASSUME NEW t \in cursor..(SegmentEnd - 1)
      PROVE  OpenAt(t) <=> /\ rule # Closed /\ rule.opens <= t - m
                           /\ t - m < rule.closes \/ rule.closes = Last
  BY <1>3, <1>5 DEF OpenAt
<1>6. Covers(rule, SegmentEnd) <=>
        /\ rule # Closed /\ rule.opens <= cursor - m
        /\ rule.closes >= SegmentCloses(SegmentEnd)
  BY <1>3 DEF Covers
<1> HIDE DEF rule, m, d
<1>7. ASSUME Covers(rule, SegmentEnd), NEW t \in cursor..(SegmentEnd - 1)
      PROVE  OpenAt(t)
  <2>1. CASE SegmentEnd = m + DaySlots
    BY <1>1, <1>2, <1>3, <1>4, <1>5, <1>6, <1>7, <2>1
  <2>2. CASE SegmentEnd # m + DaySlots
    BY <1>1, <1>2, <1>3, <1>4, <1>5, <1>6, <1>7, <2>2
  <2> QED
    BY <2>1, <2>2
<1>8. ASSUME \A t \in cursor..(SegmentEnd - 1) : OpenAt(t)
      PROVE  Covers(rule, SegmentEnd)
  <2>1. /\ cursor \in cursor..(SegmentEnd - 1)
        /\ SegmentEnd - 1 \in cursor..(SegmentEnd - 1)
    BY <1>2, <1>3
  <2>2. rule # Closed /\ rule.opens <= cursor - m
    BY <1>5, <1>8, <2>1
  <2>3. SegmentEnd - 1 - m < rule.closes \/ rule.closes = Last
    BY <1>5, <1>8, <2>1
  <2>4. CASE SegmentEnd = m + DaySlots
    BY <1>1, <1>3, <1>4, <1>6, <2>2, <2>3, <2>4
  <2>5. CASE SegmentEnd # m + DaySlots
    BY <1>1, <1>3, <1>4, <1>6, <2>2, <2>3, <2>5
  <2> QED
    BY <2>4, <2>5
<1> QED
  BY <1>7, <1>8 DEF rule, d

-------------------------------------------------------------------------------
(* The conflicts: two windows overlap exactly if they have a slot in       *)
(* common, and the absent one has none.                                    *)
LEMMA OverlapsMeansShared ==
    ASSUME Types, NEW w \in Windows \cup {NoWindow}
    PROVE  Overlaps(w) <=> \E t \in Asked : Within(t, w)
<1>1. /\ window.start \in Nat /\ window.end \in Nat /\ window.start < window.end
      /\ \A t : t \in Asked <=> t \in Nat /\ window.start <= t /\ t < window.end
  BY WindowFacts
<1>2. /\ w.start \in Nat /\ w.end \in Nat
      /\ w.start < w.end \/ (w.start = 0 /\ w.end = 0)
  <2>1. CASE w \in Windows
    <3>1. w \in [start : Slots, end : Slots] /\ w.start < w.end
      BY <2>1 DEF Windows
    <3>2. \A x \in Slots : x \in Nat
      BY DEF Slots
    <3> QED
      BY <3>1, <3>2
  <2>2. CASE w = NoWindow
    BY <2>2 DEF NoWindow
  <2> QED
    BY <2>1, <2>2
<1>3. ASSUME Overlaps(w) PROVE \E t \in Asked : Within(t, w)
  <2>1. CASE w.start <= window.start
    BY <1>1, <1>2, <1>3, <2>1 DEF Overlaps, Within
  <2>2. CASE window.start < w.start
    BY <1>1, <1>2, <1>3, <2>2 DEF Overlaps, Within
  <2> QED
    BY <1>1, <1>2, <2>1, <2>2
<1>4. ASSUME NEW t \in Asked, Within(t, w) PROVE Overlaps(w)
  BY <1>1, <1>2, <1>4 DEF Overlaps, Within
<1> QED
  BY <1>3, <1>4

(* The price that is quoted is the space's or one of the overrides.        *)
LEMMA PriceTyped ==
    ASSUME Types
    PROVE  EffectivePrice \in Prices \cup {BasePrice}
<1>1. CASE Cardinality(matched) = 1
  <2>1. PICK p : matched = {p}
    BY <1>1, FS_Singleton DEF Types
  <2>2. (CHOOSE q \in matched : TRUE) = p
    BY <2>1
  <2> QED
    BY <1>1, <2>1, <2>2 DEF EffectivePrice, Types, TypeOK
<1>2. CASE Cardinality(matched) # 1
  BY <1>2 DEF EffectivePrice
<1> QED
  BY <1>1, <1>2

(* One segment further, or the answer that no rule covers it.              *)
LEMMA MatchKeeps ==
    ASSUME IInv, MatchSegment
    PROVE  IInv'
<1> DEFINE rule == rules[DayOf(cursor)]
<1>0. Types /\ Scheduled /\ cursor < window.end /\ decision.code = "open"
  BY DEF IInv, MatchSegment, Scheduled
<1>1. /\ window.start \in Nat /\ window.end \in Nat /\ window.start < window.end
      /\ window.end <= Midnight(Days) /\ cursor \in Nat /\ window.start <= cursor
      /\ \A t : t \in Asked <=> t \in Nat /\ window.start <= t /\ t < window.end
      /\ Midnight(Days) \in Nat
  BY <1>0, WindowFacts, NextMidnight, AvailabilityAssumption
<1>2. /\ SegmentEnd \in Nat /\ cursor < SegmentEnd /\ SegmentEnd <= window.end
      /\ \A t \in cursor..(SegmentEnd - 1) : DayOf(t) = DayOf(cursor)
  BY <1>0, SegmentFacts
<1>3. rule.price \in Prices \cup {Unset}
  BY <1>0, <1>1, RuleFacts
<1>4. UNCHANGED <<rules, block, booked, window>>
  BY DEF MatchSegment, asked
<1>5. CASE /\ Covers(rule, SegmentEnd)
           /\ matched' = matched \cup ({rule.price} \ {Unset})
           /\ cursor' = SegmentEnd /\ UNCHANGED decision
  <2>1. Types'
    <3>1. matched' \subseteq Prices /\ IsFiniteSet(matched')
      <4>1. CASE rule.price = Unset
        BY <1>0, <1>5, <4>1 DEF Types, TypeOK
      <4>2. CASE rule.price # Unset
        <5>1. matched' = matched \cup {rule.price}
          BY <1>5, <4>2
        <5> QED
          BY <1>0, <1>3, <4>2, <5>1, FS_AddElement DEF Types, TypeOK
      <4> QED
        BY <4>1, <4>2
    <3>2. cursor' \in window.start..window.end
      BY <1>1, <1>2, <1>5
    <3> QED
      BY <1>0, <1>4, <1>5, <3>1, <3>2 DEF Types, TypeOK
  <2>2. Before' = Before \cup (cursor..(SegmentEnd - 1))
    BY <1>1, <1>2, <1>4, <1>5 DEF Before
  <2>3. OpenSoFar'
    <3>1. \A t \in cursor..(SegmentEnd - 1) : OpenAt(t)
      BY <1>0, <1>5, CoversMeansOpen
    <3> QED
      BY <1>0, <1>4, <2>2, <3>1 DEF IInv, OpenSoFar, OpenAt, Scheduled
  <2>4. MatchedSoFar'
    <3>1. {rules[DayOf(t)].price : t \in Before'}
            = {rules[DayOf(t)].price : t \in Before} \cup {rule.price}
      <4>1. cursor \in cursor..(SegmentEnd - 1)
        BY <1>1, <1>2
      <4> QED
        BY <1>2, <2>2, <4>1
    <3>2. matched = {rules[DayOf(t)].price : t \in Before} \ {Unset}
      BY <1>0 DEF IInv, MatchedSoFar
    <3> QED
      BY <1>0, <1>4, <1>5, <3>1, <3>2 DEF MatchedSoFar, Scheduled
  <2>5. Answered'
    BY <1>0, <1>5 DEF Answered, AcceptsExactlyFree
  <2> QED
    BY <2>1, <2>3, <2>4, <2>5 DEF IInv
<1>6. CASE /\ ~Covers(rule, SegmentEnd)
           /\ Decide("outside_schedule", BasePrice)
           /\ UNCHANGED <<cursor, matched>>
  <2>1. Types'
    BY <1>0, <1>4, <1>6 DEF Types, TypeOK, Decide, Codes
  <2>2. PICK t \in cursor..(SegmentEnd - 1) : ~OpenAt(t)
    BY <1>0, <1>6, CoversMeansOpen
  <2>3. t \in Asked
    BY <1>1, <1>2
  <2>4. ~FreeThroughout
    BY <1>0, <2>2, <2>3 DEF FreeThroughout, Scheduled
  <2>5. FreeThroughout' = FreeThroughout
    BY <1>4 DEF FreeThroughout, Asked, Within, OpenAt
  <2>6. decision'.code = "outside_schedule"
    BY <1>6 DEF Decide
  <2>7. Answered'
    BY <2>4, <2>5, <2>6 DEF Answered, AcceptsExactlyFree
  <2>8. OpenSoFar' /\ MatchedSoFar'
    BY <1>4, <1>6 DEF IInv, OpenSoFar, MatchedSoFar, Before, Scheduled, OpenAt
  <2> QED
    BY <2>1, <2>7, <2>8 DEF IInv
<1> QED
  BY <1>5, <1>6 DEF MatchSegment

(* The walk is over: the conflicts decide.                                 *)
LEMMA ConflictsKeep ==
    ASSUME IInv, CheckConflicts
    PROVE  IInv'
<1>0. Types /\ Through /\ decision.code = "open"
  BY DEF IInv, CheckConflicts, Through, Scheduled
<1>1. /\ UNCHANGED <<rules, block, booked, window, cursor, matched>>
  BY DEF CheckConflicts, asked
<1>2. decision' = [code |-> IF Overlaps(block) THEN "availability_block"
                            ELSE IF Overlaps(booked) THEN "booking_conflict" ELSE "available",
                   price |-> IF Overlaps(block) \/ Overlaps(booked) THEN BasePrice
                             ELSE EffectivePrice]
  BY DEF CheckConflicts, Decide
<1>3. Types'
  BY <1>0, <1>1, <1>2, PriceTyped DEF Types, TypeOK, Codes
<1>4. OpenSoFar' /\ MatchedSoFar'
  BY <1>1 DEF IInv, OpenSoFar, MatchedSoFar, Before, Scheduled, OpenAt
<1>5. Scheduled => \A t \in Asked : OpenAt(t)
  <2> SUFFICES ASSUME Scheduled, NEW t \in Asked PROVE OpenAt(t)
    OBVIOUS
  <2>1. t \in Before
    BY <1>0, WindowFacts DEF Through, Before
  <2> QED
    BY <2>1 DEF IInv, OpenSoFar
<1>6. FreeThroughout <=> ~Overlaps(block) /\ ~Overlaps(booked)
  <2>1. /\ Overlaps(block) <=> \E t \in Asked : Within(t, block)
        /\ Overlaps(booked) <=> \E t \in Asked : Within(t, booked)
    BY <1>0, OverlapsMeansShared DEF Types
  <2> QED
    BY <1>5, <2>1 DEF FreeThroughout, Scheduled
<1>7. FreeThroughout' = FreeThroughout /\ EffectivePrice' = EffectivePrice
  BY <1>1 DEF FreeThroughout, Asked, Within, OpenAt, EffectivePrice
<1>8. /\ decision'.code = "available" <=> ~Overlaps(block) /\ ~Overlaps(booked)
      /\ decision'.code = "available" => decision'.price = EffectivePrice
  BY <1>2
<1>9. Answered'
  BY <1>0, <1>1, <1>6, <1>7, <1>8 DEF Answered, AcceptsExactlyFree, Through, Scheduled
<1> QED
  BY <1>3, <1>4, <1>9 DEF IInv

(* The walk begins at the window's start, with nothing decided.            *)
LEMMA IInvInit == Init => IInv
<1> SUFFICES ASSUME Init PROVE IInv
  OBVIOUS
<1>1. window.start \in Nat /\ window.end \in Nat /\ window.start < window.end
  <2>1. window \in [start : Slots, end : Slots] /\ window.start < window.end
    BY DEF Init, Windows
  <2>2. \A x \in Slots : x \in Nat
    BY DEF Slots
  <2> QED
    BY <2>1, <2>2
<1>2. Types
  BY <1>1, FS_EmptySet DEF Init, Types, TypeOK, Undecided, Codes
<1>3. Before = {}
  BY <1>1 DEF Init, Before
<1>4. OpenSoFar /\ MatchedSoFar
  BY <1>3 DEF Init, OpenSoFar, MatchedSoFar
<1>5. Answered
  BY DEF Init, Answered, AcceptsExactlyFree, Undecided
<1> QED
  BY <1>2, <1>4, <1>5 DEF IInv

(* The invariant, for any schedule, window, block and booking.             *)
THEOREM AvailabilityInvariant == Spec => []IInv
<1>1. IInv /\ [Next]_vars => IInv'
  <2> SUFFICES ASSUME IInv, [Next]_vars PROVE IInv'
    OBVIOUS
  <2>1. CASE UNCHANGED vars
    BY <2>1 DEF vars, IInv, Types, TypeOK, OpenSoFar, MatchedSoFar, Before, Scheduled, OpenAt,
                Answered, AcceptsExactlyFree, FreeThroughout, Asked, Within, Through,
                EffectivePrice
  <2> QED
    BY <2>1, MatchKeeps, ConflictsKeep DEF Next
<1> QED
  BY <1>1, IInvInit, PTL DEF Spec

(* The segment arithmetic and the half-open overlaps accept exactly what is*)
(* open and free in every slot: midnight, 23:59 and any number of days     *)
(* included.                                                               *)
THEOREM AcceptsWhatIsFree == Spec => []AcceptsExactlyFree
<1>1. IInv => AcceptsExactlyFree
  BY DEF IInv, Answered
<1> QED
  BY <1>1, AvailabilityInvariant, PTL

-------------------------------------------------------------------------------
(* The price.                                                              *)

(* A window of finitely many slots has finitely many prices.               *)
LEMMA DayPricesFinite ==
    ASSUME Types
    PROVE  IsFiniteSet(DayPrices)
<1>1. IsFiniteSet(Asked)
  <2>1. Asked \subseteq window.start..window.end
    BY WindowFacts
  <2>2. IsFiniteSet(window.start..window.end)
    <3>1. window.start \in Int /\ window.end \in Int
      BY WindowFacts
    <3> QED
      BY <3>1, FS_Interval
  <2> QED
    BY <2>1, <2>2, FS_Subset
<1> DEFINE f == [t \in Asked |-> DayPrice(DayOf(t))]
<1>2. f \in Surjection(Asked, DayPrices)
  BY DEF Surjection, DayPrices
<1> QED
  BY <1>1, <1>2, FS_Surjection

(* Where all days of an accepted window have one price, it is the one that *)
(* is quoted.                                                              *)
LEMMA UniformIsQuoted ==
    ASSUME IInv, decision.code = "available", Cardinality(DayPrices) = 1
    PROVE  decision.price \in DayPrices
<1>0. Types /\ Through /\ decision.price = EffectivePrice
  BY DEF IInv, Answered
<1>1. PICK p : DayPrices = {p}
  BY <1>0, DayPricesFinite, FS_Singleton
<1>2. window.start \in Asked
  BY <1>0, WindowFacts
<1>3. \A t \in Asked : DayPrice(DayOf(t)) = p
  BY <1>1 DEF DayPrices
<1>4. CASE ~Scheduled
  <2>1. matched = {}
    BY <1>4 DEF IInv, MatchedSoFar
  <2>2. EffectivePrice = BasePrice
    BY <2>1, FS_EmptySet DEF EffectivePrice
  <2>3. DayPrice(DayOf(window.start)) = BasePrice
    BY <1>4 DEF DayPrice, Scheduled
  <2> QED
    BY <1>0, <1>1, <1>2, <1>3, <2>2, <2>3
<1>5. CASE Scheduled
  <2>1. Before = Asked
    <3>1. cursor = window.end
      BY <1>0, <1>5 DEF Through
    <3>2. \A t : t \in Asked <=> t \in Nat /\ window.start <= t /\ t < window.end
      BY <1>0, WindowFacts
    <3>3. \A t : t \in Before <=> t \in Nat /\ window.start <= t /\ t < window.end
      BY <1>0, <3>1, WindowFacts DEF Before
    <3> QED
      BY <3>2, <3>3
  <2>2. matched = {rules[DayOf(t)].price : t \in Asked} \ {Unset}
    BY <1>5, <2>1 DEF IInv, MatchedSoFar
  <2>3. \A q \in matched : q = p
    BY <1>3, <1>5, <2>2 DEF DayPrice, Scheduled
  <2>4. CASE matched = {}
    <3>1. EffectivePrice = BasePrice
      BY <2>4, FS_EmptySet DEF EffectivePrice
    <3>2. rules[DayOf(window.start)].price = Unset
      BY <1>2, <2>2, <2>4
    <3>3. DayPrice(DayOf(window.start)) = BasePrice
      BY <3>2 DEF DayPrice
    <3> QED
      BY <1>0, <1>1, <1>2, <1>3, <3>1, <3>3
  <2>5. CASE matched # {}
    <3>1. matched = {p}
      BY <2>3, <2>5
    <3>2. Cardinality(matched) = 1
      BY <3>1, FS_Singleton
    <3>3. (CHOOSE q \in matched : TRUE) = p
      BY <3>1
    <3> QED
      BY <1>0, <1>1, <3>2, <3>3 DEF EffectivePrice
  <2> QED
    BY <2>4, <2>5
<1> QED
  BY <1>4, <1>5

(* The renter of a window whose days all have one price is quoted that     *)
(* price, whatever mixture of overrides expresses it.                      *)
THEOREM UniformPriceIsQuoted == Spec => []UniformPriceQuoted
<1>1. IInv => UniformPriceQuoted
  BY UniformIsQuoted DEF UniformPriceQuoted
<1> QED
  BY <1>1, AvailabilityInvariant, PTL

===============================================================================
