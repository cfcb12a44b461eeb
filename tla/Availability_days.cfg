SPECIFICATION Spec
CONSTANTS
    DaySlots = 4
    Days = 2
    RuleTimes <- ThreeRules
    Prices <- TwoPrices
    BasePrice = 7
    Unset = Unset
INVARIANT AcceptsExactlyFree UniformPriceQuoted
CHECK_DEADLOCK FALSE
