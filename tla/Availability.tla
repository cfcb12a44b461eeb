----------------------------- MODULE Availability -----------------------------
(***************************************************************************)
(* evaluate_availability: is a parking space free for [from, to), and at   *)
(* what hourly price?  The window is cut at every local midnight, each     *)
(* segment must lie within its weekday's rule, no block and no booking may *)
(* overlap, and the rules met may override the price.                      *)
(*                                                                         *)
(* Time is local wall-clock time in slots, DaySlots to a day; the last slot*)
(* begins at 23:59, the latest end a rule can have.  The day the clocks    *)
(* change is left out.                                                     *)
(***************************************************************************)
EXTENDS Integers, FiniteSets

CONSTANTS
    DaySlots,       \* slots of a day
    Days,           \* bound: days the window may touch
    RuleTimes,      \* [opens, closes] pairs of slots a rule may have
    Prices,         \* price overrides
    BasePrice,      \* parking_spaces.hourly_price_cents
    Unset           \* no override

ASSUME AvailabilityAssumption ==
    /\ DaySlots \in Nat \ {0, 1} /\ Days \in Nat \ {0}
    /\ \A h \in RuleTimes : h.opens \in Nat /\ h.closes \in 0..(DaySlots - 1)
                            /\ h.opens < h.closes
    /\ BasePrice \in Nat /\ Prices \subseteq Nat /\ Unset \notin Nat

VARIABLES
    rules,          \* rules[d]: the rule of day d, or Closed; or NoRules
    block, booked,  \* a host's block and another booking: windows, or NoWindow
    window,         \* the window asked for
    cursor,         \* start of the segment looked at next
    matched,        \* overrides of the rules matched so far
    decision        \* "open" while undecided, then the code and the price

vars == <<rules, block, booked, window, cursor, matched, decision>>
asked == <<rules, block, booked, window>>

Last == DaySlots - 1                        \* 23:59
Slots == 0..(Days * DaySlots)
Windows == {w \in [start : Slots, end : Slots] : w.start < w.end}
NoWindow == [start |-> 0, end |-> 0]
Closed == [opens |-> 0, closes |-> 0, price |-> Unset]
Rules == {Closed} \cup [opens : {h.opens : h \in RuleTimes},
                        closes : {h.closes : h \in RuleTimes},
                        price : Prices \cup {Unset}]
NoRules == << >>

Undecided == [code |-> "open", price |-> BasePrice]
Codes == {"open", "outside_schedule", "availability_block", "booking_conflict", "available"}

TypeOK ==
    /\ window \in Windows
    /\ cursor \in window.start..window.end
    /\ matched \subseteq Prices
    /\ decision \in [code : Codes, price : Prices \cup {BasePrice}]

(* A schedule has exactly one rule for each weekday; an active one closes  *)
(* after it opens.  A space may also have no rules at all.                 *)
Schedules == [0..(Days - 1) -> {r \in Rules : r = Closed
                                              \/ [opens |-> r.opens, closes |-> r.closes]
                                                     \in RuleTimes}]

Init ==
    /\ rules \in Schedules \cup {NoRules}
    /\ window \in Windows
    /\ block \in Windows \cup {NoWindow} /\ booked \in Windows \cup {NoWindow}
    /\ block = NoWindow \/ booked = NoWindow    \* bound: one obstacle at a time
    /\ cursor = window.start
    /\ matched = {}
    /\ decision = Undecided

-------------------------------------------------------------------------------
DayOf(t) == t \div DaySlots
TimeOf(t) == t % DaySlots

SegmentEnd == LET midnight == (DayOf(cursor) + 1) * DaySlots
              IN  IF window.end < midnight THEN window.end ELSE midnight

(* A segment that reaches midnight is taken to end at 23:59.               *)
EndsAtMidnight(end) == TimeOf(end)                             \* 00:00 taken as it is
SegmentCloses(end) == IF DayOf(end) > DayOf(cursor) THEN Last ELSE TimeOf(end)

Covers(rule, end) == /\ rule # Closed
                     /\ rule.opens <= TimeOf(cursor)
                     /\ rule.closes >= SegmentCloses(end)

Decide(code, price) == decision' = [code |-> code, price |-> price]

MatchSegment ==
    /\ decision.code = "open" /\ rules # NoRules /\ cursor < window.end
    /\ LET rule == rules[DayOf(cursor)] IN
       \/ /\ Covers(rule, SegmentEnd)
          /\ matched' = matched \cup ({rule.price} \ {Unset})
          /\ cursor' = SegmentEnd
          /\ UNCHANGED decision
       \/ /\ ~Covers(rule, SegmentEnd)
          /\ Decide("outside_schedule", BasePrice)
          /\ UNCHANGED <<cursor, matched>>
    /\ UNCHANGED asked

Touches(w) == w.start <= window.end /\ w.end >= window.start
Overlaps(w) == w.start < window.end /\ w.end > window.start

(* One override for all of the window's rules replaces the price; several  *)
(* different ones leave the space's own price.                             *)
OnePerDay == IF Cardinality(matched) = DayOf(window.end - 1) - DayOf(window.start) + 1
             THEN CHOOSE p \in matched : TRUE ELSE BasePrice    \* overrides not merged
EffectivePrice == IF Cardinality(matched) = 1 THEN CHOOSE p \in matched : TRUE
                  ELSE BasePrice

CheckConflicts ==
    /\ decision.code = "open"
    /\ rules = NoRules \/ cursor = window.end
    /\ IF Overlaps(block) THEN Decide("availability_block", BasePrice)
       ELSE IF Overlaps(booked) THEN Decide("booking_conflict", BasePrice)
       ELSE Decide("available", EffectivePrice)
    /\ UNCHANGED <<asked, cursor, matched>>

Next == MatchSegment \/ CheckConflicts
Spec == Init /\ [][Next]_vars /\ WF_vars(Next)

-------------------------------------------------------------------------------
(* What the answer means, slot by slot.                                    *)

Within(t, w) == w.start <= t /\ t < w.end
Asked == {t \in Slots : Within(t, window)}

OpenAt(t) == LET rule == rules[DayOf(t)] IN
             /\ rule # Closed /\ rule.opens <= TimeOf(t)
             /\ TimeOf(t) < rule.closes \/ rule.closes = Last

FreeThroughout ==
    \A t \in Asked : /\ rules # NoRules => OpenAt(t)
                     /\ ~Within(t, block) /\ ~Within(t, booked)

DayPrice(d) == IF rules = NoRules \/ rules[d].price = Unset THEN BasePrice
               ELSE rules[d].price
DayPrices == {DayPrice(DayOf(t)) : t \in Asked}

(* Safety: the segment arithmetic (midnight, 23:59, several days) and the  *)
(* half-open overlaps accept a window exactly if the space is open and free*)
(* in every slot of it.                                                    *)
AcceptsExactlyFree ==
    decision.code # "open" => (decision.code = "available" <=> FreeThroughout)

(* Safety: where every day of the window has the same price, the renter is *)
(* quoted that price, whatever mixture of overrides expresses it.          *)
UniformPriceQuoted ==
    decision.code = "available" /\ Cardinality(DayPrices) = 1 => decision.price \in DayPrices
===============================================================================
