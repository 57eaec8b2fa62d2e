-------------------------- MODULE ControllerHelpers --------------------------
(***************************************************************************)
(* getScaledValueFromIntOrPercent (src/controllers/helpers.go): a count  *)
(* given as an int or as a percentage of a total, scaled in float64 and   *)
(* rounded up or down by math.Ceil or math.Floor; the deadline           *)
(* arithmetic; the label selector check; the modified-error test.         *)
(*                                                                         *)
(* Strings are sequences of symbols; only a symbol's character class      *)
(* matters to the selector grammar.                                        *)
(***************************************************************************)
EXTENDS Float64, FiniteSets

CONSTANTS
    PercentChoices,   \* percentages given as "<n>%"
    TotalChoices,     \* totals the percentage is taken of
    Alnum,            \* symbols of the class [A-Za-z0-9]
    LabelPunct,       \* the symbols "-", "_" and "."
    SelectorStrings,  \* selector.String() values to check
    ModifiedMessage   \* "please apply your changes to the latest version ..."

\* float64(n) / float64(d) for 0 < n and 0 < d < Base: the quotient scaled
\* to a 53-bit significand and rounded half to even.
Divide(n, d) ==
    LET e0 == Precision - IntBits(n) + IntBits(d) - 1
        x0 == DivLimb(Shl(FromInt(n), e0), d)
        e == IF BitLen(x0.q) < Precision THEN e0 + 1 ELSE e0
        x == DivLimb(Shl(FromInt(n), e), d)
        up == 2 * x.r > d \/ (2 * x.r = d /\ Odd(x.q))
    IN [m |-> IF up THEN Add(x.q, <<1>>) ELSE x.q, e |-> e]

\* math.Floor and math.Ceil of a positive double, as an integer.
Floor(x) == Trunc(x)
Ceil(x) == IF Shl(Shr(x.m, x.e), x.e) = x.m THEN Floor(x) ELSE Floor(x) + 1

\* Mutant: the percentage taken as a fraction first, then multiplied by
\* the total, as Inject computes its jitter.
getScaledValueDivideFirst(value, isPercent, total, roundUp) ==
    IF ~isPercent \/ value * total = 0 THEN (IF isPercent THEN 0 ELSE value)
    ELSE LET x == Product(Quotient(value, 100), total)
         IN IF roundUp THEN Ceil(x) ELSE Floor(x)

\* The scaled value: an int as is; a percentage of total, the product
\* float64(value) * float64(total) (exact below 2^53) divided by 100.
getScaledValueFromIntOrPercent(value, isPercent, total, roundUp) ==
    IF ~isPercent \/ value * total = 0 THEN (IF isPercent THEN 0 ELSE value)
    ELSE LET x == Divide(value * total, 100)
         IN IF roundUp THEN Ceil(x) ELSE Floor(x)

\* calculateDeadline: creationTime.Add(duration).Sub(now), for times and
\* durations far from the int64 limits where Add and Sub saturate.
calculateDeadline(duration, creationTime, now) == creationTime + duration - now

\* The label grammar ([A-Za-z0-9][-A-Za-z0-9_.]*)?[A-Za-z0-9], matched as a
\* whole: one alnum symbol, or an alnum, any alnum or punctuation, and an
\* alnum.
LabelGrammar(w) ==
    /\ Len(w) >= 1
    /\ w[Len(w)] \in Alnum
    /\ Len(w) >= 2 => /\ w[1] \in Alnum
                      /\ \A i \in 2..Len(w) - 1 : w[i] \in Alnum \cup LabelPunct

\* regexp.MatchString is unanchored: the selector passes when any
\* substring of it is in the grammar.  TRUE when no error is returned.
validateLabelSelector(selector) == \E w \in SubSeqs(selector) : LabelGrammar(w)

\* isModifiedError: strings.Contains of the conflict message.
isModifiedError(err) == ModifiedMessage \in SubSeqs(err)

\* What validateLabelSelector accepts, stated directly: every selector
\* with at least one letter or digit.  The comment above it says it
\* asserts the selector "matches valid grammar"; unanchored, the grammar
\* only requires one alnum symbol somewhere, so "a=!" or "-a-" pass.
LabelSelectorAcceptsAnyAlnum ==
    \A sel \in SelectorStrings :
        validateLabelSelector(sel) <=> \E i \in 1..Len(sel) : sel[i] \in Alnum

\* The helper's comment: a percentage is "scaled appropriately in
\* accordance to the total", rounded up or down as asked.  The float64
\* computation must give exactly the integer ceiling or floor of
\* value * total / 100 for every percentage and total: one unit too few
\* or too many targets changes how many pods a disruption hits.
ScaledValueExact ==
    \A v \in PercentChoices, t \in TotalChoices :
        /\ getScaledValueFromIntOrPercent(v, TRUE, t, TRUE) = (v * t + 99) \div 100
        /\ getScaledValueFromIntOrPercent(v, TRUE, t, FALSE) = (v * t) \div 100

====
