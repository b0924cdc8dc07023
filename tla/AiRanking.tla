------------------------------- MODULE AiRanking -------------------------------
(***************************************************************************)
(* Ranking and recommending (ai-recommendations.service.ts, the similarity *)
(* and intent rules of ai-nlp.service.ts, rankCandidates of                *)
(* ai-search.service.ts and collaborativeFilter of ai-insights.service.ts).*)
(*                                                                         *)
(* Nothing is kept between requests: the state is the request, the answer  *)
(* a function of it.  A text is how often each word occurs in it, its      *)
(* words already reduced to stems; a list is the sequence of its scores,   *)
(* its items named by their positions.  Scores are in percent.             *)
(***************************************************************************)
EXTENDS Integers, Sequences, FiniteSets, FiniteSetsExt, Functions

CONSTANTS
    Words,       \* the stems
    NoTags,      \* an item without tags
    NoHint,      \* the model gives no score for an item
    Hints,       \* the scores it can give, in percent, with NoHint
    Goods,       \* what users interact with
    Others,      \* the other users
    Neighbours,  \* how many similar users are heard (5 in the code)
    Tops,        \* how many results are asked for
    Patterns     \* the number of keywords of each intent, in the order declared

RankingAssumption ==
    /\ NoHint \notin Nat /\ Hints \subseteq 0..100 \cup {NoHint}
    /\ NoTags \notin [Words -> Nat]
    /\ IsFiniteSet(Words) /\ IsFiniteSet(Goods) /\ IsFiniteSet(Others)
    /\ Neighbours \in Nat \ {0} /\ Tops \subseteq Nat \ {0}
    /\ Patterns \in Seq(Nat \ {0}) /\ Patterns # <<>>

VARIABLE wanted

-----------------------------------------------------------------------------
(* Sorting: by score, best first; items of equal score keep their order.    *)

Least(a, b) == IF a < b THEN a ELSE b

Place(scores, i) ==
    1 + Cardinality({j \in DOMAIN scores :
            scores[j] > scores[i] \/ (scores[j] = scores[i] /\ j < i)})

Best(scores, n) ==
    [k \in 1..Least(n, Len(scores)) |-> CHOOSE i \in DOMAIN scores : Place(scores, i) = k]

\* The list as it came.
AsGiven(scores, n) == [k \in 1..Least(n, Len(scores)) |-> k]

-----------------------------------------------------------------------------
(* Similarity of two texts, or of two users' interactions: the cosine of    *)
(* their counts, in percent rounded down.                                   *)

Root(n) == CHOOSE r \in 0..100 : r * r <= n /\ (r + 1) * (r + 1) > n

Dot(u, v) == MapThenSumSet(LAMBDA w : u[w] * v[w], DOMAIN u)
Similarity(u, v) ==
    IF Dot(u, u) = 0 \/ Dot(v, v) = 0 THEN 0
    ELSE Root((10000 * Dot(u, v) * Dot(u, v)) \div (Dot(u, u) * Dot(v, v)))

Texts == [Words -> 0..2]
Blank == [w \in Words |-> 0]

Match(target, items) == [i \in DOMAIN items |-> Similarity(target, items[i])]

\* getSimilarItems and rankCandidates always compare; getProductRecommendations and
\* getPersonalizedFeed give the first items when nothing is known of the user.
SimilarItems(target, items, n) == Best(Match(target, items), n)
Recommendations(known, items, n) ==
    IF known = Blank THEN AsGiven(items, n) ELSE SimilarItems(known, items, n)

\* An item the model fails on counts as neutral, and so does one without tags.
Relevance(target, items, loaded) ==
    [i \in DOMAIN items |->
        LET likeness == IF target = Blank \/ items[i].tags = NoTags THEN 50
                        ELSE Similarity(target, items[i].tags)
            hinted == IF items[i].hint = NoHint THEN 50 ELSE items[i].hint
        IN IF loaded THEN (70 * hinted + 30 * likeness) \div 100 ELSE likeness]

-----------------------------------------------------------------------------
(* Collaborative filtering.                                                 *)

\* What a user has not touched has no entry.
Owned(v) == {g \in Goods : v[g] > 0}

Likeness(mine, all) == [u \in Others |-> Similarity(mine, all[u])]
Heard(mine, all) ==
    LET like == Likeness(mine, all) IN
    {H \in SUBSET {u \in Others : like[u] > 0} :
        /\ Cardinality(H) = Least(Neighbours, Cardinality({u \in Others : like[u] > 0}))
        /\ \A h \in H, u \in Others \ H : like[h] >= like[u]}

Collaborative(mine, all, heard) ==
    [g \in UNION {Owned(all[u]) : u \in heard} \ Owned(mine) |->
        MapThenSumSet(LAMBDA u : all[u][g] * Similarity(mine, all[u]), heard)]

\* Six parts what similar users like, four parts what the texts say, summed by item.
Shares(list, item) ==
    MapThenSumSet(LAMBDA i : IF list[i].id = item THEN list[i].score ELSE 0, DOMAIN list)
Named(list) == {list[i].id : i \in DOMAIN list}
Blended(collaborative, content) ==
    [item \in Named(collaborative) \cup Named(content) |->
        (60 * Shares(collaborative, item) + 40 * Shares(content, item)) \div 100]

-----------------------------------------------------------------------------
(* Advice.                                                                  *)

FirstThat(plans, Test(_)) ==
    CHOOSE i \in DOMAIN plans : Test(plans[i]) /\ \A j \in 1..(i - 1) : ~Test(plans[j])
Some(plans, Test(_)) == \E i \in DOMAIN plans : Test(plans[i])

\* recommendSubscriptionPlan: the plan named and why; 0 when there is none at all.
PlanAdvice(usage, tier, plans) ==
    LET richer(p) == p.features > 70 /\ p.tier # tier
        lighter(p) == p.features < 40
        current(p) == p.tier = tier
    IN IF usage > 80 /\ Some(plans, richer)
         THEN [plan |-> FirstThat(plans, richer), why |-> "upgrade"]
       ELSE IF usage < 20 /\ Some(plans, lighter)
         THEN [plan |-> FirstThat(plans, lighter), why |-> "downgrade"]
       ELSE IF Some(plans, current)
         THEN [plan |-> FirstThat(plans, current), why |-> "keep"]
       ELSE [plan |-> Least(1, Len(plans)), why |-> "keep"]

\* In thousandths.  A budget of nothing counts as none.
WishScore(item) ==
    LET recent == IF item.days >= 30 THEN 0 ELSE 300 - 10 * item.days
        affordable == IF item.budget > 0 /\ item.price <= item.budget THEN 300
                      ELSE IF item.budget = 0 THEN 150 ELSE 0
    IN (6 - item.priority) * 80 + recent + affordable
Suggestion(score) == IF score > 700 THEN "buy" ELSE IF score > 400 THEN "watch" ELSE "keep"

\* wishlist.service.ts names the price as the budget.
OwnWish(item) == [item EXCEPT !.budget = item.price]

-----------------------------------------------------------------------------
(* Intents and summaries.                                                   *)

\* found[i] of the keywords of intent i occur in the text.  The confidence is a
\* tenth more than the share found, and without any match the first intent wins.
Intent(found) ==
    LET order == Best(found, 2)
        top == order[1]
    IN [intent |-> top,
        confidence |-> Least(100, (100 * found[top]) \div Patterns[top] + 10),
        sub |-> IF Len(order) = 2 /\ found[order[2]] > 0 THEN order[2] ELSE 0]

\* With the NLU model: the likeliest class, and the second when it has over a tenth.
EnhancedIntent(found, probs) ==
    IF probs = <<>> THEN Intent(found)
    ELSE LET order == Best(probs, 2) IN
         [intent |-> order[1], confidence |-> probs[order[1]],
          sub |-> IF Len(order) = 2 /\ probs[order[2]] > 10 THEN order[2] ELSE 0]

\* A quarter of the sentences, three at most, those with the most keywords first.
Summary(overlaps) == Best(overlaps, Least(3, (Len(overlaps) + 3) \div 4))

-----------------------------------------------------------------------------
(* Requests.                                                                *)

UpTo(S, n) == UNION {[1..k -> S] : k \in 0..n}
Scored == [id : {1, 2}, score : {0, 50, 100}]

ItemAsks == [kind : {"items"}, target : Texts, items : UpTo(Texts, 2), top : Tops]
RelevanceAsks ==
    [kind : {"relevance"}, target : {Blank, [w \in Words |-> 1]},
     items : UpTo([tags : {NoTags} \cup Texts, hint : Hints], 2), loaded : BOOLEAN]
TasteAsks ==
    [kind : {"taste"}, mine : [Goods -> 0..1], all : [Others -> [Goods -> 0..2]]]
BlendAsks == [kind : {"blend"}, collaborative : UpTo(Scored, 2), content : UpTo(Scored, 2)]
PlanAsks ==
    [kind : {"plan"}, usage : {10, 50, 90}, tier : {"a", "b"},
     plans : UpTo([tier : {"a", "b"}, features : {10, 60, 90}], 3)]
WishAsks ==
    [kind : {"wish"}, priority : 1..5, days : {0, 15, 29, 30, 60}, price : {0, 10, 20},
     budget : {0, 10, 20}]
IntentAsks ==
    [kind : {"intent"}, found : {f \in [DOMAIN Patterns -> 0..4] :
                                    \A i \in DOMAIN f : f[i] <= Patterns[i]},
     probs : {<<>>} \cup [DOMAIN Patterns -> {0, 10, 20, 80}]]
SummaryAsks == [kind : {"summary"}, overlaps : UpTo(0..1, 9) \ {<<>>}]
NoAsk == [kind |-> "none"]

Init == wanted = NoAsk
AskItems == wanted = NoAsk /\ wanted' \in ItemAsks \cup RelevanceAsks
AskTaste == wanted = NoAsk /\ wanted' \in TasteAsks \cup BlendAsks
AskAdvice == wanted = NoAsk /\ wanted' \in PlanAsks \cup WishAsks
AskText == wanted = NoAsk /\ wanted' \in IntentAsks \cup SummaryAsks
Next == AskItems \/ AskTaste \/ AskAdvice \/ AskText
Spec == Init /\ [][Next]_wanted

-----------------------------------------------------------------------------
(* Properties.                                                              *)

TypeOK ==
    wanted \in {NoAsk} \cup ItemAsks \cup RelevanceAsks \cup TasteAsks \cup BlendAsks
        \cup PlanAsks \cup WishAsks \cup IntentAsks \cup SummaryAsks

\* A text is fully like itself, two texts are as like in either order, and they
\* have something in common exactly when they are alike at all; so what is
\* recommended first to someone who bought it is the item itself, unless
\* another is as like, and nothing left out is better than what is kept.
LikenessIsFair ==
    wanted.kind = "items" =>
        LET t == wanted.target
            kept == Recommendations(t, wanted.items, wanted.top)
        IN  /\ \A i \in DOMAIN wanted.items :
                  LET u == wanted.items[i] IN
                  /\ Similarity(t, u) = Similarity(u, t)
                  /\ (t = u /\ t # Blank) => Similarity(t, u) = 100
                  /\ Similarity(t, u) = 0 <=> \A w \in Words : t[w] = 0 \/ u[w] = 0
            /\ \A i \in DOMAIN wanted.items \ Range(kept), j \in Range(kept) :
                  t # Blank => Similarity(t, wanted.items[i]) <= Similarity(t, wanted.items[j])
            /\ Cardinality(Range(kept)) = Least(wanted.top, Len(wanted.items))

\* When no item has a score of the model, loading it changes no order.
NeutralModelChangesNothing ==
    (wanted.kind = "relevance" /\ \A i \in DOMAIN wanted.items : wanted.items[i].hint = NoHint) =>
        \A i, j \in DOMAIN wanted.items :
            Relevance(wanted.target, wanted.items, FALSE)[i]
                <= Relevance(wanted.target, wanted.items, FALSE)[j]
            => Relevance(wanted.target, wanted.items, TRUE)[i]
                <= Relevance(wanted.target, wanted.items, TRUE)[j]

\* Whoever is heard shares something with the user, nothing the user has is
\* recommended to him, and what all who are heard like is not left out; a user
\* who shares something is heard unless enough others are as like.
TasteIsShared ==
    wanted.kind = "taste" =>
        \A heard \in Heard(wanted.mine, wanted.all) :
            LET offered == Collaborative(wanted.mine, wanted.all, heard) IN
            /\ \A u \in heard : Owned(wanted.all[u]) \cap Owned(wanted.mine) # {}
            /\ DOMAIN offered \cap Owned(wanted.mine) = {}
            /\ \A g \in DOMAIN offered : offered[g] > 0
            /\ \A u \in Others \ heard :
                  Owned(wanted.all[u]) \cap Owned(wanted.mine) # {} =>
                      Cardinality(heard) = Neighbours

\* An item that one list puts above another and the other list does not put
\* below it comes out no lower.
BlendKeepsAgreement ==
    wanted.kind = "blend" =>
        LET blend == Blended(wanted.collaborative, wanted.content) IN
        \A i, j \in DOMAIN blend :
            (/\ Shares(wanted.collaborative, i) >= Shares(wanted.collaborative, j)
             /\ Shares(wanted.content, i) >= Shares(wanted.content, j))
            => blend[i] >= blend[j]

\* Who uses little is never told to upgrade nor who uses much to downgrade, and an
\* upgrade brings more and a downgrade less when the plan he has is on the other
\* side of the threshold (the code does not compare with it otherwise).
AdviceFitsUse ==
    wanted.kind = "plan" =>
        LET advice == PlanAdvice(wanted.usage, wanted.tier, wanted.plans)
            mine == {wanted.plans[i].features :
                        i \in {k \in DOMAIN wanted.plans : wanted.plans[k].tier = wanted.tier}}
        IN  /\ advice.why = "upgrade" =>
                  /\ wanted.usage > 20 /\ wanted.plans[advice.plan].tier # wanted.tier
                  /\ \A f \in mine : f <= 70 => wanted.plans[advice.plan].features > f
            /\ advice.why = "downgrade" =>
                  /\ wanted.usage < 80
                  /\ \A f \in mine : f >= 40 => wanted.plans[advice.plan].features < f
            /\ (advice.why = "keep" /\ mine # {}) =>
                  wanted.plans[advice.plan].tier = wanted.tier

\* A wish that is more urgent or newer is never suggested with less insistence, and
\* a user's own wishes, whose budget is their price, never count as too dear.
WishesFollowUrgency ==
    wanted.kind = "wish" =>
        LET score == WishScore(wanted) IN
        /\ score \in 0..1000
        /\ \A p \in 1..wanted.priority : WishScore([wanted EXCEPT !.priority = p]) >= score
        /\ \A d \in {0, 15, 29, 30} :
              d < wanted.days => WishScore([wanted EXCEPT !.days = d]) >= score
        /\ Suggestion(score) = "buy" => wanted.priority <= 4
        /\ WishScore(OwnWish(wanted)) >= IF wanted.price = 0 THEN 230 ELSE 380

\* More than the tenth everyone gets needs a keyword, no other intent has more of
\* them, and what is named second is another intent that was found.
IntentHasEvidence ==
    wanted.kind = "intent" =>
        LET plain == Intent(wanted.found)
            enhanced == EnhancedIntent(wanted.found, wanted.probs)
        IN  /\ plain.confidence > 10 <=> wanted.found[plain.intent] > 0
            /\ \A i \in DOMAIN Patterns : wanted.found[i] <= wanted.found[plain.intent]
            /\ plain.sub # 0 => plain.sub # plain.intent /\ wanted.found[plain.sub] > 0
            /\ enhanced.sub # enhanced.intent
            /\ plain.confidence <= 100

\* A summary has something, never more than three sentences, and when a sentence
\* has a keyword, only such ones until they run out.
SummaryTellsMost ==
    wanted.kind = "summary" =>
        LET kept == Summary(wanted.overlaps) IN
        /\ Len(kept) \in 1..3
        /\ \A k \in DOMAIN kept : wanted.overlaps[kept[k]] = 0 =>
              \A i \in DOMAIN wanted.overlaps :
                  wanted.overlaps[i] > 0 => i \in Range(kept)

RanksFit ==
    /\ LikenessIsFair /\ NeutralModelChangesNothing /\ TasteIsShared /\ BlendKeepsAgreement
    /\ AdviceFitsUse /\ WishesFollowUrgency /\ IntentHasEvidence /\ SummaryTellsMost
=============================================================================
