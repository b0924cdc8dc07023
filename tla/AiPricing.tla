------------------------------- MODULE AiPricing -------------------------------
(***************************************************************************)
(* The rules that price and judge (ai-pricing.service.ts and               *)
(* ai-fraud.service.ts): ride fares with surge, product discounts,         *)
(* retention offers and the fraud score, each blended with the answer of a *)
(* TensorFlow model when one is loaded; and the risk assessment of         *)
(* Q-Points movements, which uses that score.                              *)
(*                                                                         *)
(* One request is answered at a time and nothing is kept, so the state is  *)
(* the request; what the code answers is a function of it.  Money is in    *)
(* cents, a share or a score in percent unless said otherwise, and the     *)
(* rounding to two or four decimals is the code's, half up.                *)
(***************************************************************************)
EXTENDS Integers, Sequences, FiniteSetsExt

CONSTANTS
    NoHint,     \* no model is loaded, it fails, or it answers nothing
    Hints,      \* what a model can answer, in percent, with NoHint
    Demands, Supplies, Hours, Kms,        \* a ride's request
    DaysIdle, Views, Conversions, Stocks, \* a product
    Months, LoginDays, Usages,            \* a subscriber
    Counts, Amounts, Averages             \* a payment and what preceded it

\* Exact in sixtieths: every supply divides 6.
PricingAssumption ==
    /\ NoHint \notin Nat /\ Hints \subseteq 0..100 \cup {NoHint}
    /\ \A s \in Supplies : s \in Nat /\ (s > 0 => 6 % s = 0)
    /\ Hours \subseteq 0..23 /\ Usages \subseteq 0..100 /\ Conversions \subseteq 0..100
    /\ UNION {Demands, Kms, DaysIdle, Views, Stocks, Months, LoginDays, Counts, Amounts,
              Averages} \subseteq Nat

VARIABLE ask

-----------------------------------------------------------------------------
Least(a, b) == IF a < b THEN a ELSE b
Most(a, b)  == IF a < b THEN b ELSE a
Clamp(n, lo, hi) == Least(hi, Most(lo, n))
Round(n, d) == (2 * n + d) \div (2 * d)
When(cond, n) == IF cond THEN n ELSE 0

\* Seven parts the model's answer, three parts the rule's.
Blend(hinted, rule) == Round(7 * hinted + 3 * rule, 10)

-----------------------------------------------------------------------------
(* Ride fares.                                                              *)

Peak(h)      == h \in 7..9 \/ h \in 17..20
LateNight(h) == h >= 23 \/ h <= 4

\* Mutant: the highest band forgets the base fare's share.
DemandBare(d, s) ==
    IF s = 0 \/ d <= s    THEN 60
    ELSE IF d > 2 * s     THEN Least(210, (48 * (d - s)) \div s)
    ELSE IF 2 * d > 3 * s THEN Least(120, 60 + (36 * (d - s)) \div s)
    ELSE 60 + (18 * (d - s)) \div s

\* In sixtieths.  Without any supply the demand is not looked at.
DemandSurge(d, s) ==
    IF s = 0 \/ d <= s    THEN 60
    ELSE IF d > 2 * s     THEN Least(210, 60 + (48 * (d - s)) \div s)
    ELSE IF 2 * d > 3 * s THEN Least(120, 60 + (36 * (d - s)) \div s)
    ELSE 60 + (18 * (d - s)) \div s

Surge(d, s, hour, weekend) ==
    LET hourly == IF Peak(hour) THEN 125 ELSE IF LateNight(hour) THEN 115 ELSE 100
        daily  == IF weekend THEN 110 ELSE 100
    IN Clamp(Round(DemandSurge(d, s) * hourly * daily, 6000), 100, 350)

\* Forty kilometres an hour, rounded to minutes.
Minutes(km) == Round(60 * km, 40)
PreGross(km) == 500 + 250 * km + 35 * Minutes(km)

Fare(km, surge) ==
    LET surgeFee == Round((surge - 100) * PreGross(km), 100)
        platform == Round(8 * (PreGross(km) + surgeFee), 100)
    IN PreGross(km) + surgeFee + platform

\* The model answers a share of [1, 3.5].
RideSurge(r) ==
    LET rule == Surge(r.demand, r.supply, r.hour, r.weekend) IN
    IF r.hint = NoHint THEN rule
    ELSE Clamp(Round(7 * (1000 + 25 * r.hint) + 30 * rule, 100), 100, 350)

RidePrice(r) == Fare(r.km, RideSurge(r))

\* rides.service.ts passes neither demand nor supply and asks no model.
BookedRide(r) == [r EXCEPT !.demand = 1, !.supply = 1, !.hint = NoHint]

-----------------------------------------------------------------------------
(* Discounts.                                                               *)

\* In thirds of a percent, then rounded; the cap at 40 % is never reached.
RuleDiscount(p) ==
    Least(40, Round(
        When(p.views > 50 /\ p.conversion < 2, 30)
        + When(p.days > 30, 24 + Least(30, p.days - 30))
        + When(p.stock > 200, 15), 3))

Discount(p) ==
    IF p.hint = NoHint THEN RuleDiscount(p)
    ELSE Clamp(Round(7 * p.hint + 6 * RuleDiscount(p), 20), 0, 50)

\* products.service.ts has neither the days since the last sale nor the conversion.
CatalogueDiscount(p) == RuleDiscount([p EXCEPT !.days = 0, !.conversion = 2])

-----------------------------------------------------------------------------
(* Retention offers.                                                        *)

ChurnRisk(s) ==
    When(s.login > 14, 30) + When(s.usage < 30, 25) + When(s.months < 3, 20)

Offer(risk, high, some, months) ==
    IF risk >= high THEN IF months < 3 THEN 50 ELSE 30
    ELSE IF risk >= some THEN 15 ELSE 0

\* The rule asks for more than 60 and 35, the model for 70 and 45 or more.
Retention(s) ==
    IF s.hint = NoHint THEN Offer(ChurnRisk(s), 61, 36, s.months)
    ELSE Offer(s.hint, 70, 45, s.months)

-----------------------------------------------------------------------------
(* Fraud.                                                                   *)

Signal(name, risk) == [name |-> name, risk |-> risk]

Signals(t) ==
    { s \in {
        Signal("velocity_breach", When(t.count >= 10, Least(100, 50 + 5 * (t.count - 10)))),
        Signal("amount_anomaly",
               IF t.average > 0 /\ t.amount > 5 * t.average
               THEN Least(100, 40 + Round(5 * (t.amount - 5 * t.average), t.average)) ELSE 0),
        Signal("risky_payment_method", When(t.risky, 40)),
        Signal("round_number_pattern", When(t.amount % 100 = 0 /\ t.amount >= 1000, 20)),
        Signal("late_night_high_value", When(t.hour \in 1..5 /\ t.amount > 500, 30)),
        Signal("duplicate_amount_pattern", When(t.repeated, 60))} : s.risk > 0 }

\* In hundredths of a percent: six parts the worst signal, four parts the mean.
AggregateRisk(signals) ==
    IF signals = {} THEN 0
    ELSE LET n == Cardinality(signals)
             worst == Max({s.risk : s \in signals})
             sum == FoldSet(LAMBDA s, acc : s.risk + acc, 0, signals)
         IN Least(10000, Round(60 * worst * n + 40 * sum, n))

RuleScore(t) == AggregateRisk(Signals(t))
Score(t) ==
    IF t.hint = NoHint THEN RuleScore(t) ELSE Round(600 * t.hint + 4 * RuleScore(t), 10)

ClassifyRisk(score) ==
    IF score >= 8500 THEN "critical"
    ELSE IF score >= 5500 THEN "high"
    ELSE IF score >= 3000 THEN "medium" ELSE "low"

\* The thresholds of the verdict are constants of their own.
BlockThreshold  == 8500
ReviewThreshold == 5500
Blocked(score)    == score >= BlockThreshold
ReviewFlag(score) == score >= ReviewThreshold /\ score < BlockThreshold

\* orders.service.ts and wallets.service.ts tell the amount and the method only; the
\* hour is the server's.
CallerContext(t) == [t EXCEPT !.count = 0, !.average = 0, !.repeated = FALSE]

\* After three seconds, or on an error, the payment proceeds.
Declined(t, answered) == answered /\ Blocked(Score(CallerContext(t)))

\* users.service.ts scores every login as a payment of nothing, by the rules alone.
LoginRisk(t) ==
    RuleScore([CallerContext(t) EXCEPT !.amount = 0, !.risky = FALSE])

LocationRisk(km) == IF km > 500 THEN Least(100, 30 + Round(km, 50)) ELSE 0

-----------------------------------------------------------------------------
(* The risk of a movement of Q-Points (qpoints-transaction.service.ts):     *)
(* the account's own history, six parts the fraud score, four parts the     *)
(* sum of the flags.                                                        *)

\* In the order the code looks; the first names the reason for the fraud log.
Flags(r) ==
    SelectSeq(<<Signal("UNUSUAL_AMOUNT",    When(r.amount >= 5000, 30)),
                Signal("HIGH_VELOCITY",     When(r.volume >= 10000, 25)),
                Signal("UNUSUAL_FREQUENCY", When(r.count >= 20, 20)),
                Signal("HIGH_VELOCITY",     When(r.recent >= 5, 25)),
                Signal("DEVICE_MISMATCH",   When(r.device = "new", 15)),
                Signal("MULTIPLE_FAILURES", When(r.failures >= 3, 20))>>,
              LAMBDA f : f.risk > 0)

FlagScore(r) == FoldFunction(LAMBDA f, sum : f.risk + sum, 0, Flags(r))
FraudReason(r) == IF Flags(r) = <<>> THEN "SUSPICIOUS_BEHAVIOR" ELSE Head(Flags(r)).name

\* The check is told the amount only, a type no method list knows, and the hour.
\* When it throws, the flags decide alone; that sum has no cap.
AssessedScore(r) ==
    LET told == [count |-> 0, amount |-> r.amount, average |-> 0, risky |-> FALSE,
                 hour |-> r.hour, repeated |-> FALSE]
    IN IF r.fails THEN FlagScore(r)
       ELSE Least(100, Round(400 * FlagScore(r) + 6 * RuleScore(told), 1000))

AssessedLevel(r) ==
    IF AssessedScore(r) >= 75 THEN "critical"
    ELSE IF AssessedScore(r) >= 50 THEN "high"
    ELSE IF AssessedScore(r) >= 25 THEN "medium" ELSE "low"

IsFlagged(r)        == AssessedScore(r) >= 50
RequiresApproval(r) == AssessedScore(r) >= 75

-----------------------------------------------------------------------------
(* Requests.                                                                *)

RideAsks ==
    [kind : {"ride"}, demand : Demands, supply : Supplies, hour : Hours,
     weekend : BOOLEAN, km : Kms, hint : Hints]
DiscountAsks ==
    [kind : {"discount"}, days : DaysIdle, views : Views, conversion : Conversions,
     stock : Stocks, hint : Hints]
RetentionAsks ==
    [kind : {"retention"}, months : Months, login : LoginDays, usage : Usages, hint : Hints]
FraudAsks ==
    [kind : {"fraud"}, count : Counts, amount : Amounts, average : Averages,
     risky : BOOLEAN, hour : Hours, repeated : BOOLEAN, hint : Hints]
\* Counts and sums on both sides of their thresholds; a request may name no device.
RiskAsks ==
    [kind : {"risk"}, amount : Amounts, volume : {9999, 10000}, count : {19, 20},
     recent : {4, 5}, device : {"none", "known", "new"}, failures : {2, 3}, hour : Hours,
     fails : BOOLEAN]
NoAsk == [kind |-> "none"]

Init == ask = NoAsk
AskRide      == ask = NoAsk /\ ask' \in RideAsks
AskDiscount  == ask = NoAsk /\ ask' \in DiscountAsks
AskRetention == ask = NoAsk /\ ask' \in RetentionAsks
AskFraud     == ask = NoAsk /\ ask' \in FraudAsks
AskRisk      == ask = NoAsk /\ ask' \in RiskAsks
Next == AskRide \/ AskDiscount \/ AskRetention \/ AskFraud \/ AskRisk
Spec == Init /\ [][Next]_ask

-----------------------------------------------------------------------------
(* Properties.  Each compares the answer with the answers to requests that  *)
(* differ in one respect.                                                   *)

TypeOK ==
    ask \in {NoAsk} \cup RideAsks \cup DiscountAsks \cup RetentionAsks \cup FraudAsks \cup RiskAsks

\* More demand, a longer way or, while there is some supply, less of it never
\* makes a ride cheaper, across the three bands of the surge, its clamps, the
\* rounding of minutes and fees, and the blend.  (No supply at all does: the
\* demand is then ignored.)
FareFollowsScarcity ==
    ask.kind = "ride" =>
        /\ \A d \in Demands : d > ask.demand =>
               RidePrice([ask EXCEPT !.demand = d]) >= RidePrice(ask)
        /\ \A s \in Supplies : (0 < s /\ s < ask.supply) =>
               RidePrice([ask EXCEPT !.supply = s]) >= RidePrice(ask)
        /\ \A k \in Kms : k > ask.km => RidePrice([ask EXCEPT !.km = k]) > RidePrice(ask)

\* The multiplier stays in [1, 3.5] whatever the factors and the model say, and a
\* ride that is booked, priced without demand and supply, never pays more than
\* the time of day adds.
SurgeIsBounded ==
    ask.kind = "ride" =>
        /\ RideSurge(ask) \in 100..350
        /\ RideSurge(BookedRide(ask)) <= 138

\* A product that sells worse is never offered a smaller discount, and the
\* discounts stay under the caps (33 % by the rules, 50 % with a model).  The
\* catalogue's own recommendation is 0 or 5 %: two of the three reasons are
\* never told to it.
DiscountFollowsSales ==
    ask.kind = "discount" =>
        /\ \A d \in DaysIdle : d > ask.days => Discount([ask EXCEPT !.days = d]) >= Discount(ask)
        /\ \A c \in Conversions : c < ask.conversion =>
               Discount([ask EXCEPT !.conversion = c]) >= Discount(ask)
        /\ \A s \in Stocks : s > ask.stock => Discount([ask EXCEPT !.stock = s]) >= Discount(ask)
        /\ RuleDiscount(ask) <= 33 /\ Discount(ask) <= 50
        /\ CatalogueDiscount(ask) \in {0, 5}

\* A subscriber more likely to leave is never offered less: longer absent, less
\* use, or a higher probability from the model.  By the rules 30 % is never
\* offered, for only a new subscriber has all three reasons.
OfferFollowsRisk ==
    ask.kind = "retention" =>
        /\ \A d \in LoginDays : d > ask.login =>
               Retention([ask EXCEPT !.login = d]) >= Retention(ask)
        /\ \A u \in Usages : u < ask.usage =>
               Retention([ask EXCEPT !.usage = u]) >= Retention(ask)
        /\ \A h \in Hints \ {NoHint} : (ask.hint # NoHint /\ h > ask.hint) =>
               Retention([ask EXCEPT !.hint = h]) >= Retention(ask)
        /\ ask.hint = NoHint => Retention(ask) # 30

\* What a payment could show on top of what it shows.
Worse(t) ==
    {[t EXCEPT !.risky = TRUE], [t EXCEPT !.repeated = TRUE]}
    \cup {[t EXCEPT !.count = n] : n \in {m \in Counts : m >= t.count}}

\* The verdict and the level agree although their thresholds are written twice; a
\* payment that shows more than one under review keeps at least medium risk (its
\* score may fall: the mean of the signals counts); and what orders, wallet
\* payments and logins tell the check can never get one declined, even when the
\* model is sure.
VerdictsAgree ==
    ask.kind = "fraud" =>
        /\ Blocked(Score(ask)) <=> ClassifyRisk(Score(ask)) = "critical"
        /\ ReviewFlag(Score(ask)) <=> ClassifyRisk(Score(ask)) = "high"
        /\ RuleScore(ask) >= ReviewThreshold =>
               \A w \in Worse(ask) : ClassifyRisk(RuleScore(w)) # "low"
        /\ ~Declined(ask, TRUE)
        /\ LoginRisk(ask) = 0

\* The account's history with one more reason for suspicion.
MoreSuspect(r) ==
    {[r EXCEPT !.volume = 10000], [r EXCEPT !.count = 20], [r EXCEPT !.recent = 5],
     [r EXCEPT !.device = "new"], [r EXCEPT !.failures = 3]}

\* A movement of Q-Points with more against it never scores lower, and what is
\* flagged has a reason of its own to log and more than one flag.  Only a fraud
\* check that throws lets the flags reach the score that needs an approval: with
\* its share no history does.
RiskFollowsHistory ==
    ask.kind = "risk" =>
        /\ \A r \in MoreSuspect(ask) : AssessedScore(r) >= AssessedScore(ask)
        /\ IsFlagged(ask) <=> AssessedLevel(ask) \in {"high", "critical"}
        /\ IsFlagged(ask) => FraudReason(ask) # "SUSPICIOUS_BEHAVIOR" /\ Len(Flags(ask)) > 1
        /\ RequiresApproval(ask) => ask.fails

PricesFit ==
    FareFollowsScarcity /\ SurgeIsBounded /\ DiscountFollowsSales /\ OfferFollowsRisk
    /\ VerdictsAgree /\ RiskFollowsHistory
=============================================================================
