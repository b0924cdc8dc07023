------------------------------- MODULE AiInsights -------------------------------
(***************************************************************************)
(* Financial insights (ai-insights.service.ts, with the queries of         *)
(* planner.service.ts that feed it): savings rate, largest category,       *)
(* spending spike, volatile income, the spending pattern and the linear    *)
(* forecast.  The state is the request, the answer a function of it; sums  *)
(* are compared without dividing, so no rounding is involved.              *)
(***************************************************************************)
EXTENDS Integers, Sequences, FiniteSets, FiniteSetsExt, Functions

CONSTANTS
    Periods,     \* months
    Categories,
    Nothing,     \* no transaction in a month
    Incomes,     \* an income per month, with Nothing
    Expenses,    \* an expense per month and category, with Nothing
    Revenues,    \* a day's revenue
    MaxDays,     \* bound: days forecast from
    Recent       \* how many transactions the planner reads (90 in the code)

InsightsAssumption ==
    /\ Nothing \notin Nat
    /\ Incomes \subseteq Nat \cup {Nothing} /\ Expenses \subseteq Nat \cup {Nothing}
    /\ Revenues \subseteq Nat /\ MaxDays \in Nat \ {0} /\ Recent \in Nat \ {0}
    /\ IsFiniteSet(Periods) /\ IsFiniteSet(Categories)

VARIABLE books

-----------------------------------------------------------------------------
(* Totals.                                                                  *)

Amount(a) == IF a = Nothing THEN 0 ELSE a
Total(f) == MapThenSumSet(LAMBDA k : Amount(f[k]), DOMAIN f)

\* groupByMonth: only months with a transaction appear.
IncomeByMonth(b) == [m \in {n \in Periods : b.income[n] # Nothing} |-> b.income[m]]
ExpenseByMonth(b) ==
    [m \in {n \in Periods : \E c \in Categories : b.expense[<<n, c>>] # Nothing} |->
        MapThenSumSet(LAMBDA c : Amount(b.expense[<<m, c>>]), Categories)]
ByCategory(b) ==
    [c \in {d \in Categories : \E m \in Periods : b.expense[<<m, d>>] # Nothing} |->
        MapThenSumSet(LAMBDA m : Amount(b.expense[<<m, c>>]), Periods)]

-----------------------------------------------------------------------------
(* analyseFinancials.                                                       *)

\* The savings rate of someone without income is zero.
LowSavings(b) ==
    Total(b.income) > 0 /\ 10 * (Total(b.income) - Total(b.expense)) < Total(b.income)
GreatSavings(b) ==
    Total(b.income) > 0 /\ 5 * (Total(b.income) - Total(b.expense)) >= Total(b.income)

\* Any of the largest: they come in the order of their first transaction.
TopCategories(b) ==
    LET sums == ByCategory(b) IN
    {c \in DOMAIN sums : \A d \in DOMAIN sums : sums[c] >= sums[d]}

\* The largest of several months is over one and a half times their mean.
Spike(b) ==
    LET months == ExpenseByMonth(b)
        n == Cardinality(DOMAIN months)
    IN n > 1 /\ \E m \in DOMAIN months : 2 * n * months[m] > 3 * Total(months)

\* The coefficient of variation of at least two months is over 0.35.
Volatile(b) ==
    LET months == IncomeByMonth(b)
        n == Cardinality(DOMAIN months)
        squares == MapThenSumSet(LAMBDA m : months[m] * months[m], DOMAIN months)
        sum == Total(months)
    IN n >= 2 /\ sum > 0 /\ 10000 * (n * squares - sum * sum) > 1225 * sum * sum

\* Without any transaction there is nothing to say.
Insights(b) ==
    IF \A m \in Periods : b.income[m] = Nothing /\ \A c \in Categories : b.expense[<<m, c>>] = Nothing
    THEN {}
    ELSE {k \in {"low savings", "great savings", "top category", "spike", "volatile"} :
            CASE k = "low savings"   -> LowSavings(b)
              [] k = "great savings" -> GreatSavings(b) /\ ~LowSavings(b)
              [] k = "top category"  -> TopCategories(b) # {}
              [] k = "spike"         -> Spike(b)
              [] OTHER               -> Volatile(b)}

-----------------------------------------------------------------------------
(* forecastRevenue: a line through the days, continued from the last one.   *)
(* The slope is Rise / Run, the intercept Start / (n Run).                  *)

SumOf(v) == MapThenSumSet(LAMBDA i : v[i], DOMAIN v)
Weighted(v) == MapThenSumSet(LAMBDA i : (i - 1) * v[i], DOMAIN v)
Index(v) == [i \in DOMAIN v |-> i - 1]

Rise(v) == Len(v) * Weighted(v) - SumOf(Index(v)) * SumOf(v)
Run(v) == Len(v) * Weighted(Index(v)) - SumOf(Index(v)) * SumOf(Index(v))
Start(v) == SumOf(v) * Run(v) - Rise(v) * SumOf(Index(v))

\* n n Run times the forecast: to the last day's revenue come the slope over the days
\* ahead and an n-th of the intercept.
Ahead(v, days) ==
    LET n == Len(v)
        value == v[n] * n * n * Run(v) + days * Rise(v) * n * n + Start(v)
    IN IF value > 0 THEN value ELSE 0

Trend(v) ==
    CASE 200 * Rise(v) > v[Len(v)] * Run(v)  -> "up"
      [] 200 * Rise(v) < -(v[Len(v)] * Run(v)) -> "down"
      [] OTHER -> "flat"

NoForecast == [week |-> 0, month |-> 0, trend |-> "flat"]
Forecast(v) ==
    IF Len(v) < 3 THEN NoForecast
    ELSE [week |-> Ahead(v, 7), month |-> Ahead(v, 30), trend |-> Trend(v)]

\* The planner reads the oldest transactions, up to a number, each as a day of its own.
PlannerForecast(v) == Forecast(SubSeq(v, 1, IF Len(v) < Recent THEN Len(v) ELSE Recent))

-----------------------------------------------------------------------------
Books ==
    [kind : {"books"}, income : [Periods -> Incomes],
     expense : [Periods \X Categories -> Expenses]]
Sales == [kind : {"sales"}, days : UNION {[1..n -> Revenues] : n \in 0..MaxDays}]
NoBooks == [kind |-> "none"]

Init == books = NoBooks
AskInsights == books = NoBooks /\ books' \in Books
AskForecast == books = NoBooks /\ books' \in Sales
Next == AskInsights \/ AskForecast
Spec == Init /\ [][Next]_books

-----------------------------------------------------------------------------
(* Properties.                                                              *)

TypeOK == books \in {NoBooks} \cup Books \cup Sales

\* What a month or a category is told about adds up, whichever way it is
\* grouped; nobody is warned and praised for the same savings; spending more
\* never turns a warning into praise; and whoever spends more than he earns is
\* warned, except without any income, when nobody says a word of it.
InsightsAddUp ==
    books.kind = "books" =>
        LET told == Insights(books) IN
        /\ Total(ExpenseByMonth(books)) = Total(books.expense)
        /\ Total(ByCategory(books)) = Total(books.expense)
        /\ ~({"low savings", "great savings"} \subseteq told)
        /\ (0 < Total(books.income) /\ Total(books.income) < Total(books.expense)) =>
              "low savings" \in told
        /\ Total(books.income) = 0 => told \subseteq {"top category", "spike"}

\* Of two or three months only one that exceeds every other can be a spike, and equal
\* months never alarm, whether of spending or of income.
SpikesAreRare ==
    books.kind = "books" =>
        LET months == ExpenseByMonth(books) IN
        /\ (Spike(books) /\ Cardinality(DOMAIN months) <= 3) =>
              \E m \in DOMAIN months : \A o \in DOMAIN months \ {m} : months[m] > months[o]
        /\ (Cardinality(Range(months)) = 1) => ~Spike(books)
        /\ Cardinality(Range(IncomeByMonth(books))) = 1 => ~Volatile(books)

\* The forecast moves with the trend it announces: rising sales are forecast higher
\* for the month than for the week, falling ones no higher.  Steady sales are
\* called flat, and yet forecast above every day there was: the intercept's share
\* comes on top of the last day.
ForecastFollowsTrend ==
    books.kind = "sales" =>
        LET f == Forecast(books.days)
            v == books.days
        IN  /\ f.trend = "up" => f.month > f.week \/ f.month = 0
            /\ f.trend = "down" => f.month <= f.week
            /\ (Len(v) >= 3 /\ Cardinality(Range(v)) = 1) =>
                  /\ f.trend = "flat" /\ f.week = f.month
                  /\ f.week = (Len(v) + 1) * Len(v) * Run(v) * v[1]
            /\ Len(v) <= Recent => PlannerForecast(v) = f

\* Days after the ones the planner reads never change what it forecasts: a busy user's
\* forecast stays that of his first transactions.
OldDaysOnly ==
    (books.kind = "sales" /\ Len(books.days) > Recent) =>
        \A r \in Revenues :
            PlannerForecast([books.days EXCEPT ![Len(books.days)] = r])
                = PlannerForecast(books.days)

InsightsFit == InsightsAddUp /\ SpikesAreRare /\ ForecastFollowsTrend /\ OldDaysOnly
=============================================================================
