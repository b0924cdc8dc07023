---------------------------- MODULE LifeCyclesProofs ----------------------------
(***************************************************************************)
(* Proofs about the life cycles (LifeCycles).  Each part has an inductive  *)
(* invariant of its own, written as a conjunction of named shapes: what a  *)
(* caller's position says of its copies, of the rows and of the history.   *)
(* The theorems about the parts come with them; the last section carries   *)
(* them over to the whole, a behaviour of which is one of every part.      *)
(***************************************************************************)
EXTENDS LifeCycles, Sequences, SumLemmas

-----------------------------------------------------------------------------
(* Tokens.                                                                  *)

\* Only an idle request shows no pair, and a pair that was never issued is shown
\* by none, exchanged by none and logged out by none.
PairShape ==
    /\ \A v \in Visits : visit[v] = "idle" \/ (shown[v] \in Pairs /\ age[shown[v]] # "none")
    /\ \A p \in Pairs : age[p] = "none" => exchanged[p] = 0 /\ p \notin out

\* A pair that was logged out is on the blacklist as long as its access token lives.
OutShape == \A p \in out : age[p] = "both" => Au!Listed(p)

\* Of a pair that no two refreshes held at once and nobody logged out: one refresh
\* holds it, before it is exchanged, and once it is listed it stays so while a
\* refresh could use it.
ExchangeShape ==
    \A p \in Pairs \ (together \cup out) :
        /\ \A v, w \in Au!Holding(p) : v = w
        /\ Au!Holding(p) # {} => exchanged[p] = 0
        /\ exchanged[p] <= 1
        /\ exchanged[p] = 1 \/ (\E v \in Au!Holding(p) : visit[v] = "issue")
              => age[p] = "over" \/ listed[p] = "refresh"

TokenInv ==
    Au!TokenTypes /\ PairShape /\ OutShape /\ ExchangeShape /\ Au!LoggedOutIsRefused

-----------------------------------------------------------------------------

\* A refresh is let in.
LEMMA CheckRefreshInv ==
  ASSUME TokenInv, NoPair \notin Pairs, NEW v \in Visits, NEW p \in Pairs, Au!CheckRefresh(v, p)
  PROVE  TokenInv'
<1>1. /\ visit[v] = "idle" /\ age[p] \in {"both", "refresh"} /\ listed[p] = "no"
      /\ visit' = [visit EXCEPT ![v] = "list"] /\ shown' = [shown EXCEPT ![v] = p]
      /\ together \subseteq together'
      /\ Au!Holding(p) # {} => p \in together'
      /\ UNCHANGED <<age, listed, exchanged, out>>
  BY DEF Au!CheckRefresh, Au!Refreshable, Au!Listed
<1>2. Au!TokenTypes' /\ Au!LoggedOutIsRefused'
  BY <1>1 DEF TokenInv, OutShape, Au!TokenTypes, Au!LoggedOutIsRefused, Au!CheckRefresh, Au!Listed
<1>3. PairShape' /\ OutShape'
  BY <1>1 DEF TokenInv, Au!TokenTypes, PairShape, OutShape, Au!Listed
<1>4. \A q \in Pairs \ {p} : Au!Holding(q)' = Au!Holding(q)
  BY <1>1 DEF TokenInv, Au!TokenTypes, Au!Holding
<1>5. Au!Holding(p)' = Au!Holding(p) \cup {v}
  BY <1>1 DEF TokenInv, Au!TokenTypes, Au!Holding
<1>6. ExchangeShape'
  <2> SUFFICES ASSUME NEW q \in Pairs, q \notin together' \cup out'
      PROVE  /\ \A u, w \in Au!Holding(q)' : u = w
             /\ Au!Holding(q)' # {} => exchanged[q] = 0
             /\ exchanged[q] <= 1
             /\ exchanged[q] = 1 \/ (\E w \in Au!Holding(q)' : visit'[w] = "issue")
                   => age[q] = "over" \/ listed[q] = "refresh"
    BY <1>1 DEF ExchangeShape
  <2>1. /\ \A u, w \in Au!Holding(q) : u = w
        /\ Au!Holding(q) # {} => exchanged[q] = 0
        /\ exchanged[q] <= 1
        /\ exchanged[q] = 1 \/ (\E w \in Au!Holding(q) : visit[w] = "issue")
              => age[q] = "over" \/ listed[q] = "refresh"
    BY <1>1 DEF TokenInv, ExchangeShape
  <2>2. CASE q = p
    <3>1. Au!Holding(p) = {} /\ exchanged[p] # 1 /\ exchanged[p] \in Nat
      BY <1>1, <2>1, <2>2 DEF TokenInv, Au!TokenTypes
    <3>2. visit'[v] = "list"
      BY <1>1 DEF TokenInv, Au!TokenTypes
    <3> QED
      BY <1>5, <2>1, <2>2, <3>1, <3>2
  <2>3. CASE q # p
    BY <1>1, <1>4, <2>1, <2>3 DEF Au!Holding, TokenInv, Au!TokenTypes
  <2> QED
    BY <2>2, <2>3
<1> QED
  BY <1>2, <1>3, <1>6 DEF TokenInv
\* A request ends without a change to what it showed.
LEMMA LeaveInv ==
  ASSUME TokenInv, NEW v \in Visits, visit[v] # "idle", Au!Leave(v),
         UNCHANGED <<age, listed, exchanged, together, late, out>>
  PROVE  TokenInv'
<1>1. Au!TokenTypes' /\ Au!LoggedOutIsRefused'
  BY DEF TokenInv, Au!TokenTypes, Au!LoggedOutIsRefused, Au!Leave
<1>2. PairShape' /\ OutShape'
  BY DEF TokenInv, Au!TokenTypes, PairShape, OutShape, Au!Listed, Au!Leave
<1>3. \A q \in Pairs : \A w \in Au!Holding(q)' : w \in Au!Holding(q) /\ visit'[w] = visit[w]
  BY DEF TokenInv, Au!TokenTypes, Au!Holding, Au!Leave
<1>4. ExchangeShape'
  BY <1>3 DEF TokenInv, ExchangeShape
<1> QED
  BY <1>1, <1>2, <1>4 DEF TokenInv

\* A pair is issued: it was shown, exchanged and logged out by none.
LEMMA IssueInv ==
  ASSUME TokenInv, NEW p \in Pairs, Au!Issue(p),
         UNCHANGED <<listed, visit, shown, exchanged, together, late, out>>
  PROVE  TokenInv'
<1>1. age[p] = "none" /\ age' = [age EXCEPT ![p] = "both"]
  BY DEF Au!Issue
<1>2. Au!TokenTypes' /\ Au!LoggedOutIsRefused'
  BY <1>1 DEF TokenInv, Au!TokenTypes, Au!LoggedOutIsRefused
<1>3. PairShape' /\ OutShape'
  BY <1>1 DEF TokenInv, Au!TokenTypes, PairShape, OutShape, Au!Listed
<1>4. Au!Holding(p) = {} /\ exchanged[p] = 0 /\ \A q \in Pairs : Au!Holding(q)' = Au!Holding(q)
  BY <1>1 DEF TokenInv, PairShape, Au!Holding
<1>5. ExchangeShape'
  BY <1>1, <1>4 DEF TokenInv, ExchangeShape, Au!TokenTypes
<1> QED
  BY <1>2, <1>3, <1>5 DEF TokenInv

\* A token runs out, and with it the entry of the blacklist made for as long.
LEMMA ExpireInv ==
  ASSUME TokenInv, NEW p \in Pairs, Au!Expire(p)
  PROVE  TokenInv'
<1>1. /\ age[p] \in {"both", "refresh"}
      /\ age' = [age EXCEPT ![p] = IF age[p] = "both" THEN "refresh" ELSE "over"]
      /\ listed' = [listed EXCEPT ![p] =
            IF listed[p] = (IF age[p] = "both" THEN "access" ELSE "refresh")
            THEN "no" ELSE listed[p]]
      /\ UNCHANGED <<visit, shown, exchanged, together, late, out>>
  BY DEF Au!Expire, Au!pairHist
<1>2. Au!TokenTypes' /\ Au!LoggedOutIsRefused'
  BY <1>1 DEF TokenInv, Au!TokenTypes, Au!LoggedOutIsRefused
<1>3. PairShape' /\ OutShape'
  BY <1>1 DEF TokenInv, Au!TokenTypes, PairShape, OutShape, Au!Listed
<1>4. \A q \in Pairs : /\ Au!Holding(q)' = Au!Holding(q)
                       /\ (age[q] = "over" \/ listed[q] = "refresh")
                              => (age'[q] = "over" \/ listed'[q] = "refresh")
  BY <1>1 DEF TokenInv, Au!TokenTypes, Au!Holding
<1>5. ExchangeShape'
  BY <1>1, <1>4 DEF TokenInv, ExchangeShape
<1> QED
  BY <1>2, <1>3, <1>5 DEF TokenInv

\* A refresh lists the id of its pair.
LEMMA ListIdInv ==
  ASSUME TokenInv, NEW v \in Visits, Au!ListId(v)
  PROVE  TokenInv'
<1>1. CASE Au!Leave(v) /\ UNCHANGED listed
  BY <1>1, LeaveInv DEF Au!ListId, Au!pairHist
<1>2. CASE Au!Step(v, "issue")
  <2> DEFINE p == shown[v]
  <2>1. /\ visit[v] = "list" /\ visit' = [visit EXCEPT ![v] = "issue"]
        /\ p \in Pairs /\ age[p] # "none"
        /\ listed' = IF age[p] \in {"both", "refresh"} THEN [listed EXCEPT ![p] = "refresh"]
                     ELSE listed
        /\ UNCHANGED <<age, shown, exchanged, together, late, out>>
    BY <1>2 DEF TokenInv, Au!TokenTypes, PairShape, Au!ListId, Au!Step, Au!Leave,
                Au!pairHist, Au!Refreshable
  <2> HIDE DEF p
  <2>2. Au!TokenTypes' /\ Au!LoggedOutIsRefused'
    BY <2>1 DEF TokenInv, Au!TokenTypes, Au!LoggedOutIsRefused
  <2>3. PairShape' /\ OutShape'
    BY <2>1 DEF TokenInv, Au!TokenTypes, PairShape, OutShape, Au!Listed
  <2>4. \A q \in Pairs : /\ Au!Holding(q)' = Au!Holding(q)
                         /\ listed[q] = "refresh" => listed'[q] = "refresh"
                         /\ q # p => \A w \in Au!Holding(q) : visit'[w] = visit[w]
    BY <2>1 DEF TokenInv, Au!TokenTypes, Au!Holding, p
  <2>5. age[p] = "over" \/ listed'[p] = "refresh"
    BY <2>1 DEF TokenInv, Au!TokenTypes
  <2>6. ExchangeShape'
    BY <2>1, <2>4, <2>5 DEF TokenInv, ExchangeShape
  <2> QED
    BY <2>2, <2>3, <2>6 DEF TokenInv
<1> QED
  BY <1>1, <1>2 DEF Au!ListId

\* A refresh is done: its pair counts as exchanged, and the next is issued if there
\* is one left.
LEMMA ExchangeInv ==
  ASSUME TokenInv, NEW v \in Visits, visit[v] = "issue", Au!Leave(v),
         exchanged' = [exchanged EXCEPT ![shown[v]] = @ + 1],
         UNCHANGED age \/ \E q \in Pairs : Au!Issue(q),
         UNCHANGED <<listed, together, late, out>>
  PROVE  TokenInv'
<1> DEFINE p == shown[v]
<1>1. /\ p \in Pairs /\ age[p] # "none" /\ v \in Au!Holding(p)
      /\ \A q \in Pairs : q # p => exchanged'[q] = exchanged[q]
      /\ exchanged'[p] = exchanged[p] + 1 /\ exchanged' \in [Pairs -> Nat]
  BY DEF TokenInv, Au!TokenTypes, PairShape, Au!Holding
<1>2. \A q \in Pairs : \A w \in Au!Holding(q)' :
         w \in Au!Holding(q) /\ w # v /\ visit'[w] = visit[w]
  BY DEF TokenInv, Au!TokenTypes, Au!Holding, Au!Leave
<1> HIDE DEF p
<1>6. /\ age' \in [Pairs -> {"none", "both", "refresh", "over"}]
      /\ \A q \in Pairs : age'[q] = age[q] \/ (age[q] = "none" /\ age'[q] = "both")
  BY DEF TokenInv, Au!TokenTypes, Au!Issue
<1>3. Au!TokenTypes' /\ Au!LoggedOutIsRefused'
  BY <1>1, <1>6 DEF TokenInv, Au!TokenTypes, Au!LoggedOutIsRefused, Au!Leave
<1>4. PairShape' /\ OutShape'
  BY <1>1, <1>6 DEF TokenInv, Au!TokenTypes, PairShape, OutShape, Au!Listed, Au!Leave
<1>5. ExchangeShape'
  <2> SUFFICES ASSUME NEW q \in Pairs, q \notin together \cup out
      PROVE  /\ \A u, w \in Au!Holding(q)' : u = w
             /\ Au!Holding(q)' # {} => exchanged'[q] = 0
             /\ exchanged'[q] <= 1
             /\ exchanged'[q] = 1 \/ (\E w \in Au!Holding(q)' : visit'[w] = "issue")
                   => age'[q] = "over" \/ listed[q] = "refresh"
    BY DEF ExchangeShape
  <2>1. /\ \A u, w \in Au!Holding(q) : u = w
        /\ Au!Holding(q) # {} => exchanged[q] = 0
        /\ exchanged[q] <= 1
        /\ exchanged[q] = 1 \/ (\E w \in Au!Holding(q) : visit[w] = "issue")
              => age[q] = "over" \/ listed[q] = "refresh"
    BY DEF TokenInv, ExchangeShape
  <2>2. CASE q = p
    BY <1>1, <1>2, <1>6, <2>1, <2>2
  <2>3. CASE q # p
    <3>1. age[q] = "over" => age'[q] = "over"
      BY <1>6
    <3> QED
      BY <1>1, <1>2, <2>1, <2>3, <3>1
  <2> QED
    BY <2>2, <2>3
<1> QED
  BY <1>3, <1>4, <1>5 DEF TokenInv

\* A request with an access token is let in.
LEMMA EnterInv ==
  ASSUME TokenInv, NEW v \in Visits, NEW p \in Pairs, Au!Enter(v, p)
  PROVE  TokenInv'
<1>1. /\ visit[v] = "idle" /\ age[p] = "both"
      /\ visit' = [visit EXCEPT ![v] = "out"] /\ shown' = [shown EXCEPT ![v] = p]
      /\ UNCHANGED <<age, listed, exchanged, together, late, out>>
  BY DEF Au!Enter, Au!pairHist
<1>2. Au!TokenTypes' /\ Au!LoggedOutIsRefused'
  BY <1>1 DEF TokenInv, Au!TokenTypes, Au!LoggedOutIsRefused
<1>3. PairShape' /\ OutShape'
  BY <1>1 DEF TokenInv, Au!TokenTypes, PairShape, OutShape, Au!Listed
<1>4. \A q \in Pairs : \A w \in Au!Holding(q)' : w \in Au!Holding(q) /\ visit'[w] = visit[w]
  BY <1>1 DEF TokenInv, Au!TokenTypes, Au!Holding
<1>5. ExchangeShape'
  BY <1>1, <1>4 DEF TokenInv, ExchangeShape
<1> QED
  BY <1>2, <1>3, <1>5 DEF TokenInv

\* A logout lists the id; what it shortens is excepted from ExchangeShape.
LEMMA LogoutInv ==
  ASSUME TokenInv, NEW v \in Visits, Au!Logout(v)
  PROVE  TokenInv'
<1>1. CASE UNCHANGED <<listed, out>>
  BY <1>1, LeaveInv DEF Au!Logout
<1>2. CASE age[shown[v]] = "both"
  <2> DEFINE p == shown[v]
  <2>1. /\ visit[v] = "out" /\ Au!Leave(v)
        /\ p \in Pairs /\ age[p] = "both"
        /\ listed' = [listed EXCEPT ![p] = "access"] /\ out' = out \cup {p}
        /\ UNCHANGED <<age, exchanged, together, late>>
    BY <1>2 DEF TokenInv, PairShape, Au!Logout
  <2> HIDE DEF p
  <2>2. Au!TokenTypes' /\ Au!LoggedOutIsRefused'
    BY <2>1 DEF TokenInv, Au!TokenTypes, Au!LoggedOutIsRefused, Au!Leave
  <2>3. PairShape' /\ OutShape'
    BY <2>1 DEF TokenInv, Au!TokenTypes, PairShape, OutShape, Au!Listed, Au!Leave
  <2>4. \A q \in Pairs : \A w \in Au!Holding(q)' : w \in Au!Holding(q) /\ visit'[w] = visit[w]
    BY <2>1 DEF TokenInv, Au!TokenTypes, Au!Holding, Au!Leave
  <2>5. ExchangeShape'
    BY <2>1, <2>4 DEF TokenInv, ExchangeShape, Au!TokenTypes
  <2> QED
    BY <2>2, <2>3, <2>5 DEF TokenInv
<1> QED
  BY <1>1, <1>2 DEF Au!Logout

\* Every step of the tokens keeps TokenInv.
LEMMA TokenNextInv ==
  ASSUME NoPair \notin Pairs, TokenInv, [Au!TokenNext]_(Au!pairVars)
  PROVE  TokenInv'
<1>1. CASE UNCHANGED Au!pairVars
  BY <1>1 DEF TokenInv, PairShape, OutShape, ExchangeShape, Au!pairVars, Au!pairHist, Au!TokenTypes,
     Au!LoggedOutIsRefused, Au!Listed, Au!Holding
<1>2. CASE Au!Login
  BY <1>2, IssueInv DEF Au!Login, Au!pairHist
<1>3. ASSUME NEW v \in Visits, Au!IssueNext(v)
      PROVE  TokenInv'
  BY <1>3, LeaveInv, ExchangeInv DEF Au!IssueNext
<1> QED
  BY <1>1, <1>2, <1>3, ExpireInv, CheckRefreshInv, EnterInv, ListIdInv, LogoutInv DEF Au!TokenNext

-----------------------------------------------------------------------------
(* Codes.                                                                   *)

\* What a try knows of the code it has read: that it was sent, for a password if the
\* try is to change one, that it had tries left, and that it is used up once used.
TryShape ==
    \A t \in Tries : try[t] # "idle" =>
        /\ code[t] \in 1..Len(codes) /\ attempt[t] < MaxAttempts
        /\ resets[t] => codes[code[t]].kind = "reset"
        /\ try[t] = "effect" => codes[code[t]].used

\* Of a code that no two tries were using at once: one try is using it, before it is
\* used, and it is marked as used afterwards.
UseShape ==
    \A n \in Au!Numbers \ shared :
        /\ uses[n] <= 1
        /\ \A t, o \in Au!Using(n) : t = o
        /\ Au!Using(n) # {} => uses[n] = 0
        /\ uses[n] = 1 => n \in 1..Len(codes) /\ codes[n].used

\* The count of a code is behind its wrong tries by at most a full count for each
\* write that was lost.
CountShape ==
    /\ \A n \in Au!Numbers : n > Len(codes) => wrongTries[n] = 0 /\ lost[n] = 0
    /\ \A n \in 1..Len(codes) : wrongTries[n] <= MaxAttempts * lost[n] + codes[n].attempts

\* What changed the password was used up and sent for that.
ChangeShape == \A n \in changed : n \in 1..Len(codes) /\ codes[n].used /\ codes[n].kind = "reset"

CodeInv == Au!CodeTypes /\ TryShape /\ UseShape /\ CountShape /\ ChangeShape

-----------------------------------------------------------------------------
\* The columns of a code.
Row == [kind : {"sms", "reset"}, used : BOOLEAN, over : BOOLEAN, attempts : 0..MaxAttempts]

\* A code among those sent is a row with these columns, and stays in the table when one
\* of them is changed.
LEMMA CodeRow ==
  ASSUME Au!AuthAssumption, Au!CodeTypes
  PROVE  /\ codes \in Seq(Row) /\ Len(codes) \in Nat /\ DOMAIN codes = 1..Len(codes)
         /\ MaxCodes \in Nat /\ MaxAttempts \in Nat \ {0} /\ 0 \in 0..MaxAttempts
         /\ \A n \in 1..Len(codes) : n \in Au!Numbers /\ n \in Nat /\ codes[n] \in Row
         /\ \A n \in 1..Len(codes), r \in Row :
               /\ [codes EXCEPT ![n] = r] \in Seq(Row)
               /\ Len([codes EXCEPT ![n] = r]) = Len(codes)
<1>1. /\ codes \in Seq(Row) /\ Len(codes) <= MaxCodes
      /\ MaxCodes \in Nat /\ MaxAttempts \in Nat \ {0} /\ 0 \in 0..MaxAttempts
  BY DEF Au!CodeTypes, Au!Kinds, Row, Au!AuthAssumption
<1> HIDE DEF Row
<1>2. Len(codes) \in Nat /\ DOMAIN codes = 1..Len(codes)
  BY <1>1
<1>3. ASSUME NEW n \in 1..Len(codes)
      PROVE  n \in Au!Numbers /\ n \in Nat /\ codes[n] \in Row
  BY <1>1, <1>2 DEF Au!Numbers
<1>4. ASSUME NEW n \in 1..Len(codes), NEW r \in Row
      PROVE  [codes EXCEPT ![n] = r] \in Seq(Row) /\ Len([codes EXCEPT ![n] = r]) = Len(codes)
  BY <1>1
<1> QED
  BY <1>1, <1>2, <1>3, <1>4

\* One lost write allows one full count more.
LEMMA OneMore ==
  ASSUME NEW m \in Nat, NEW k \in Nat
  PROVE  m * (k + 1) = m * k + m /\ m * (1 + k) = m * k + m /\ m * k \in Nat
  OBVIOUS

\* A write of the value read plus one, whether it rises above the present value or not.
LEMMA CountBound ==
  ASSUME NEW m \in Nat, NEW most \in Nat, NEW now \in 0..most, NEW was \in Nat, was < most,
         NEW w \in Nat, w <= m + now
  PROVE  /\ w + 1 <= (m + most) + (was + 1)
         /\ ~(was + 1 <= now) => w + 1 <= m + (was + 1)
         /\ w <= m + most
  OBVIOUS

\* A code is sent.
LEMMA SendInv ==
  ASSUME Au!AuthAssumption, CodeInv, NEW kind \in Au!Kinds, Au!SendCode(kind)
  PROVE  CodeInv'
<1> DEFINE new == [kind |-> kind, used |-> FALSE, over |-> FALSE, attempts |-> 0]
<1>1. /\ MaxCodes \in Nat /\ MaxAttempts \in Nat \ {0}
      /\ Len(codes) \in Nat /\ Len(codes) < MaxCodes
      /\ codes' = Append(codes, new) /\ Len(codes') = Len(codes) + 1
      /\ \A n \in 1..Len(codes) : codes'[n] = codes[n]
      /\ codes'[Len(codes) + 1] = new
      /\ UNCHANGED <<try, code, attempt, resets, proved, uses, wrongTries, lost, shared, changed>>
  BY DEF Au!AuthAssumption, CodeInv, Au!CodeTypes, Au!SendCode, Au!codeHist
<1>2. Au!CodeTypes'
  <2>1. new \in [kind : Au!Kinds, used : BOOLEAN, over : BOOLEAN, attempts : 0..MaxAttempts]
    BY <1>1
  <2> QED
    BY <1>1, <2>1 DEF CodeInv, Au!CodeTypes
<1> HIDE DEF new
<1>3. TryShape' /\ ChangeShape'
  BY <1>1 DEF CodeInv, TryShape, ChangeShape
<1>4. UseShape'
  BY <1>1 DEF CodeInv, UseShape, Au!Using
<1>5. CountShape'
  <2>1. new.attempts = 0 /\ Len(codes) + 1 \in Au!Numbers
    BY <1>1 DEF new, Au!Numbers
  <2>2. wrongTries[Len(codes) + 1] = 0 /\ lost[Len(codes) + 1] = 0 /\ MaxAttempts * 0 = 0
    BY <1>1, <2>1 DEF CodeInv, CountShape
  <2>3. \A n \in Au!Numbers : n > Len(codes') => wrongTries'[n] = 0 /\ lost'[n] = 0
    BY <1>1 DEF CodeInv, CountShape, Au!Numbers
  <2>4. \A n \in 1..Len(codes) :
           wrongTries'[n] <= MaxAttempts * lost'[n] + codes'[n].attempts
    BY <1>1 DEF CodeInv, CountShape
  <2>5. wrongTries'[Len(codes) + 1]
           <= MaxAttempts * lost'[Len(codes) + 1] + codes'[Len(codes) + 1].attempts
    BY <1>1, <2>1, <2>2
  <2>6. \A n \in 1..Len(codes') : n \in 1..Len(codes) \/ n = Len(codes) + 1
    BY <1>1
  <2> QED
    BY <2>3, <2>4, <2>5, <2>6 DEF CountShape
<1> QED
  BY <1>2, <1>3, <1>4, <1>5 DEF CodeInv

\* A code runs out, which nothing else depends on.
LEMMA ExpireCodeInv ==
  ASSUME Au!AuthAssumption, CodeInv, NEW n \in DOMAIN codes, Au!ExpireCode(n)
  PROVE  CodeInv'
<1> DEFINE r == [codes[n] EXCEPT !.over = TRUE]
<1>1. /\ n \in 1..Len(codes) /\ codes[n] \in Row /\ Len(codes) \in Nat
      /\ codes' = [codes EXCEPT ![n] = r]
      /\ UNCHANGED <<try, code, attempt, resets, proved, uses, wrongTries, lost, shared, changed>>
  BY CodeRow DEF CodeInv, Au!ExpireCode, Au!codeHist
<1>2. /\ r \in Row
      /\ r.kind = codes[n].kind /\ r.used = codes[n].used /\ r.attempts = codes[n].attempts
  BY <1>1 DEF Row
<1> HIDE DEF r
<1>3. codes' \in Seq(Row) /\ Len(codes') = Len(codes)
  BY <1>1, <1>2, CodeRow DEF CodeInv
<1>4. \A k \in 1..Len(codes) : /\ codes'[k].kind = codes[k].kind
                              /\ codes'[k].used = codes[k].used
                              /\ codes'[k].attempts = codes[k].attempts
  BY <1>1, <1>2, CodeRow DEF CodeInv
<1>5. Au!CodeTypes'
  BY <1>1, <1>3 DEF CodeInv, Au!CodeTypes, Row, Au!Kinds
<1>6. TryShape' /\ ChangeShape' /\ UseShape' /\ CountShape'
  BY <1>1, <1>3, <1>4 DEF CodeInv, TryShape, ChangeShape, UseShape, CountShape, Au!Using
<1> QED
  BY <1>5, <1>6 DEF CodeInv

\* A try that ends leaves what the others know.
LEMMA ForgetInv ==
  ASSUME Au!AuthAssumption, CodeInv, NEW t \in Tries, Au!Forget(t),
         UNCHANGED <<codes, uses, wrongTries, lost, shared>>,
         proved' \in BOOLEAN, ChangeShape', changed' \subseteq Au!Numbers
  PROVE  CodeInv'
<1>1. /\ try' = [try EXCEPT ![t] = "idle"] /\ code' = [code EXCEPT ![t] = 0]
      /\ attempt' = [attempt EXCEPT ![t] = 0] /\ resets' = [resets EXCEPT ![t] = FALSE]
      /\ MaxCodes \in Nat /\ MaxAttempts \in Nat \ {0}
  BY DEF Au!Forget, Au!Goto, Au!AuthAssumption
<1>2. Au!CodeTypes'
  BY <1>1 DEF CodeInv, Au!CodeTypes
<1>3. TryShape'
  BY <1>1 DEF CodeInv, TryShape, Au!CodeTypes
<1>4. \A n \in Au!Numbers : Au!Using(n)' \subseteq Au!Using(n)
  BY <1>1 DEF CodeInv, Au!CodeTypes, Au!Using
<1>5. UseShape'
  BY <1>4 DEF CodeInv, UseShape
<1>6. CountShape'
  BY DEF CodeInv, CountShape
<1> QED
  BY <1>2, <1>3, <1>5, <1>6 DEF CodeInv
\* A try reads the newest code it can use.
LEMMA ReadCodeInv ==
  ASSUME Au!AuthAssumption, CodeInv, NEW t \in Tries, NEW reset \in BOOLEAN, NEW right \in BOOLEAN,
         Au!ReadCode(t, reset, right)
  PROVE  CodeInv'
<1>1. PICK n \in Au!Newest(reset) :
         /\ Au!Usable(codes[n])
         /\ code' = [code EXCEPT ![t] = n]
         /\ attempt' = [attempt EXCEPT ![t] = codes[n].attempts]
         /\ shared' = IF right /\ Au!Using(n) # {} THEN shared \cup {n} ELSE shared
  BY DEF Au!ReadCode
<1>2. /\ try[t] = "idle" /\ try' = [try EXCEPT ![t] = IF right THEN "use" ELSE "count"]
      /\ resets' = [resets EXCEPT ![t] = reset]
      /\ UNCHANGED <<codes, proved, uses, wrongTries, lost, changed>>
  BY DEF Au!ReadCode, Au!Goto
<1>3. /\ n \in 1..Len(codes) /\ n \in Au!Numbers /\ codes[n] \in Row
      /\ reset => codes[n].kind = "reset"
      /\ ~codes[n].used /\ codes[n].attempts < MaxAttempts /\ codes[n].attempts \in 0..MaxAttempts
      /\ n \in 0..MaxCodes
  <2>1. n \in DOMAIN codes /\ (reset => codes[n].kind = "reset")
    BY DEF Au!Newest
  <2> QED
    BY <1>1, <2>1, CodeRow DEF Au!Usable, Row, CodeInv, Au!Numbers
<1>4. Au!CodeTypes'
  BY <1>1, <1>2, <1>3 DEF CodeInv, Au!CodeTypes
<1>5. TryShape'
  BY <1>1, <1>2, <1>3 DEF CodeInv, TryShape, Au!CodeTypes
<1>6. UseShape'
  <2>1. uses[n] # 1 \/ n \in shared
    BY <1>3 DEF CodeInv, UseShape
  <2>2. \A k \in Au!Numbers \ {n} : Au!Using(k)' = Au!Using(k)
    BY <1>1, <1>2 DEF CodeInv, Au!CodeTypes, Au!Using
  <2>3. Au!Using(n)' \subseteq Au!Using(n) \cup {t}
    BY <1>1, <1>2 DEF CodeInv, Au!CodeTypes, Au!Using
  <2>4. t \in Au!Using(n)' => right
    BY <1>1, <1>2 DEF CodeInv, Au!CodeTypes, Au!Using
  <2>5. shared \subseteq shared' /\ (right /\ Au!Using(n) # {} => n \in shared')
    BY <1>1
  <2>6. uses[n] \in Nat
    BY <1>3 DEF CodeInv, Au!CodeTypes
  <2> QED
    BY <1>2, <1>3, <2>1, <2>2, <2>3, <2>4, <2>5, <2>6 DEF CodeInv, UseShape
<1>7. CountShape' /\ ChangeShape'
  BY <1>2 DEF CodeInv, CountShape, ChangeShape
<1> QED
  BY <1>4, <1>5, <1>6, <1>7 DEF CodeInv

\* A wrong try is counted with the value read plus one.
LEMMA CountWrongInv ==
  ASSUME Au!AuthAssumption, CodeInv, NEW t \in Tries, Au!CountWrong(t)
  PROVE  CodeInv'
<1>n. PICK n : code[t] = n
  OBVIOUS
<1> DEFINE r == [codes[n] EXCEPT !.attempts = attempt[t] + 1]
<1>1. /\ n \in 1..Len(codes) /\ codes[n] \in Row /\ Len(codes) \in Nat /\ n \in Au!Numbers
      /\ attempt[t] \in Nat /\ attempt[t] < MaxAttempts /\ MaxAttempts \in Nat
      /\ codes' = [codes EXCEPT ![n] = r] /\ Au!Forget(t)
      /\ wrongTries' = [wrongTries EXCEPT ![n] = wrongTries[n] + 1]
      /\ lost' = IF attempt[t] + 1 <= codes[n].attempts
                 THEN [lost EXCEPT ![n] = lost[n] + 1] ELSE lost
      /\ UNCHANGED <<proved, uses, shared, changed>>
  BY <1>n, CodeRow DEF CodeInv, Au!CountWrong, TryShape, Au!CodeTypes
<1>2. /\ r \in Row /\ r.kind = codes[n].kind /\ r.used = codes[n].used
      /\ r.attempts = attempt[t] + 1 /\ codes[n].attempts \in 0..MaxAttempts
  BY <1>1 DEF Row
<1>3. wrongTries[n] \in Nat /\ lost[n] \in Nat
  BY <1>1 DEF CodeInv, Au!CodeTypes
<1> HIDE DEF r
<1>4. /\ codes' \in Seq(Row) /\ Len(codes') = Len(codes)
      /\ \A k \in 1..Len(codes) : /\ codes'[k].kind = codes[k].kind
                                  /\ codes'[k].used = codes[k].used
                                  /\ codes'[k].attempts =
                                        IF k = n THEN attempt[t] + 1 ELSE codes[k].attempts
  BY <1>1, <1>2, CodeRow DEF CodeInv
<1>5. /\ try' = [try EXCEPT ![t] = "idle"] /\ code' = [code EXCEPT ![t] = 0]
      /\ attempt' = [attempt EXCEPT ![t] = 0] /\ resets' = [resets EXCEPT ![t] = FALSE]
      /\ MaxCodes \in Nat
  BY <1>1 DEF Au!Forget, Au!Goto, Au!AuthAssumption
<1>6. wrongTries' \in [Au!Numbers -> Nat] /\ lost' \in [Au!Numbers -> Nat]
  <2>1. wrongTries \in [Au!Numbers -> Nat] /\ lost \in [Au!Numbers -> Nat]
    BY DEF CodeInv, Au!CodeTypes
  <2>2. CASE attempt[t] + 1 <= codes[n].attempts
    BY <1>1, <1>3, <2>1, <2>2
  <2>3. CASE ~(attempt[t] + 1 <= codes[n].attempts)
    BY <1>1, <1>3, <2>1, <2>3
  <2> QED
    BY <2>2, <2>3
<1>7. Au!CodeTypes'
  <2>1. 0 \in 0..MaxCodes /\ 0 \in 0..MaxAttempts
    BY <1>1, <1>5
  <2> QED
    BY <1>1, <1>4, <1>5, <1>6, <2>1 DEF CodeInv, Au!CodeTypes, Row, Au!Kinds
<1>8. TryShape'
  BY <1>4, <1>5 DEF CodeInv, TryShape, Au!CodeTypes
<1>9. UseShape'
  <2>1. \A k \in Au!Numbers : Au!Using(k)' \subseteq Au!Using(k)
    BY <1>5 DEF CodeInv, Au!CodeTypes, Au!Using
  <2> QED
    BY <1>1, <1>4, <2>1 DEF CodeInv, UseShape
<1>10. CountShape'
  <2>1. /\ \A k \in Au!Numbers : k # n => wrongTries'[k] = wrongTries[k] /\ lost'[k] = lost[k]
        /\ wrongTries'[n] = wrongTries[n] + 1
        /\ lost'[n] = IF attempt[t] + 1 <= codes[n].attempts THEN lost[n] + 1 ELSE lost[n]
    BY <1>1 DEF CodeInv, Au!CodeTypes
  <2>2. wrongTries[n] <= MaxAttempts * lost[n] + codes[n].attempts
    BY <1>1 DEF CodeInv, CountShape
  <2>3. wrongTries'[n] <= MaxAttempts * lost'[n] + codes'[n].attempts
    <3> DEFINE m == MaxAttempts * lost[n]
    <3>1. m \in Nat /\ MaxAttempts * (lost[n] + 1) = m + MaxAttempts
      BY <1>1, <1>3, OneMore
    <3>2. codes'[n].attempts = attempt[t] + 1
      BY <1>1, <1>4
    <3> HIDE DEF m
    <3>3. wrongTries[n] <= m + codes[n].attempts
      BY <2>2 DEF m
    <3>4. /\ wrongTries[n] + 1 <= (m + MaxAttempts) + (attempt[t] + 1)
          /\ ~(attempt[t] + 1 <= codes[n].attempts)
                => wrongTries[n] + 1 <= m + (attempt[t] + 1)
      BY <1>1, <1>2, <1>3, <3>1, <3>3, CountBound
    <3>5. MaxAttempts * lost'[n]
            = IF attempt[t] + 1 <= codes[n].attempts THEN m + MaxAttempts ELSE m
      BY <2>1, <3>1 DEF m
    <3> QED
      BY <2>1, <3>2, <3>4, <3>5
  <2>4. ASSUME NEW k \in 1..Len(codes), k # n
        PROVE  wrongTries'[k] <= MaxAttempts * lost'[k] + codes'[k].attempts
    <3>1. /\ k \in Au!Numbers /\ wrongTries'[k] = wrongTries[k] /\ lost'[k] = lost[k]
          /\ codes'[k].attempts = codes[k].attempts
      BY <1>4, <2>1, <2>4, CodeRow DEF CodeInv
    <3> QED
      BY <3>1 DEF CodeInv, CountShape
  <2>5. \A k \in Au!Numbers : k > Len(codes) => k # n
    BY <1>1 DEF Au!Numbers
  <2> QED
    BY <1>1, <1>4, <2>1, <2>3, <2>4, <2>5 DEF CodeInv, CountShape
<1>11. ChangeShape'
  BY <1>1, <1>4 DEF CodeInv, ChangeShape
<1> QED
  BY <1>7, <1>8, <1>9, <1>10, <1>11 DEF CodeInv

\* A code is marked as used.
LEMMA UseCodeInv ==
  ASSUME Au!AuthAssumption, CodeInv, NEW t \in Tries, Au!UseCode(t)
  PROVE  CodeInv'
<1>n. PICK n : code[t] = n
  OBVIOUS
<1> DEFINE r == [codes[n] EXCEPT !.used = TRUE]
<1>1. /\ n \in 1..Len(codes) /\ codes[n] \in Row /\ Len(codes) \in Nat /\ n \in Au!Numbers
      /\ codes' = [codes EXCEPT ![n] = r] /\ try[t] = "use"
      /\ uses' = [uses EXCEPT ![n] = uses[n] + 1] /\ try' = [try EXCEPT ![t] = "effect"]
      /\ UNCHANGED <<code, attempt, resets, proved, wrongTries, lost, shared, changed>>
  BY <1>n, CodeRow DEF CodeInv, Au!UseCode, TryShape, Au!CodeTypes, Au!Goto
<1>2. /\ r \in Row /\ r.kind = codes[n].kind /\ r.used = TRUE /\ r.attempts = codes[n].attempts
  BY <1>1 DEF Row
<1> HIDE DEF r
<1>3. /\ codes' \in Seq(Row) /\ Len(codes') = Len(codes)
      /\ \A k \in 1..Len(codes) : /\ codes'[k].kind = codes[k].kind
                                  /\ codes'[k].used = (k = n \/ codes[k].used)
                                  /\ codes'[k].attempts = codes[k].attempts
  <2>1. \A k \in 1..Len(codes) : codes[k].used \in BOOLEAN
    BY CodeRow DEF CodeInv, Row
  <2> QED
    BY <1>1, <1>2, <2>1, CodeRow DEF CodeInv
<1>4. uses' \in [Au!Numbers -> Nat] /\ uses[n] \in Nat
  BY <1>1 DEF CodeInv, Au!CodeTypes
<1>5. Au!CodeTypes'
  BY <1>1, <1>3, <1>4 DEF CodeInv, Au!CodeTypes, Row, Au!Kinds
<1>6. TryShape'
  BY <1>1, <1>n, <1>3, ZenonT(40) DEF CodeInv, TryShape, Au!CodeTypes
<1>7. UseShape'
  <2>1. \A k \in Au!Numbers : Au!Using(k)' = Au!Using(k) \ {t}
    BY <1>1 DEF CodeInv, Au!CodeTypes, Au!Using
  <2>2. t \in Au!Using(n)
    BY <1>1, <1>n DEF CodeInv, Au!CodeTypes, Au!Using
  <2>3. ASSUME n \notin shared
        PROVE  uses'[n] = 1 /\ Au!Using(n)' = {}
    <3>1. uses[n] = 0 /\ \A o \in Au!Using(n) : o = t
      BY <1>1, <2>2, <2>3 DEF CodeInv, UseShape
    <3>2. uses'[n] = uses[n] + 1
      BY <1>1 DEF CodeInv, Au!CodeTypes
    <3>3. Au!Using(n)' = Au!Using(n) \ {t}
      BY <1>1, <2>1
    <3> QED
      BY <3>1, <3>2, <3>3
  <2>4. \A k \in Au!Numbers \ {n} : uses'[k] = uses[k]
    BY <1>1 DEF CodeInv, Au!CodeTypes
  <2>5. codes'[n].used
    BY <1>1, <1>3
  <2> SUFFICES ASSUME NEW k \in Au!Numbers, k \notin shared
      PROVE  /\ uses'[k] <= 1
             /\ \A o, q \in Au!Using(k)' : o = q
             /\ Au!Using(k)' # {} => uses'[k] = 0
             /\ uses'[k] = 1 => k \in 1..Len(codes) /\ codes'[k].used
    BY <1>1, <1>3 DEF UseShape
  <2>6. CASE k = n
    BY <1>1, <2>3, <2>5, <2>6
  <2>7. CASE k # n
    <3>1. /\ uses'[k] = uses[k] /\ Au!Using(k)' \subseteq Au!Using(k)
          /\ k \in 1..Len(codes) /\ codes[k].used => codes'[k].used
      BY <1>3, <2>1, <2>4, <2>7
    <3> QED
      BY <3>1 DEF CodeInv, UseShape
  <2> QED
    BY <2>6, <2>7
<1>8. CountShape' /\ ChangeShape'
  BY <1>1, <1>3 DEF CodeInv, CountShape, ChangeShape
<1> QED
  BY <1>5, <1>6, <1>7, <1>8 DEF CodeInv

\* A used code has its effect, or the call dies before.
LEMMA EffectInv ==
  ASSUME Au!AuthAssumption, CodeInv, NEW t \in Tries, Au!Effect(t) \/ Au!Die(t)
  PROVE  CodeInv'
<1>1. CASE Au!Effect(t)
  <2>1. /\ code[t] \in 1..Len(codes) /\ code[t] \in Au!Numbers /\ codes[code[t]].used
        /\ resets[t] => codes[code[t]].kind = "reset"
    BY <1>1, CodeRow DEF Au!Effect, CodeInv, TryShape
  <2>2. ChangeShape' /\ changed' \subseteq Au!Numbers /\ proved' \in BOOLEAN
    BY <1>1, <2>1 DEF Au!Effect, CodeInv, ChangeShape, Au!CodeTypes
  <2> QED
    BY <1>1, <2>2, ForgetInv DEF Au!Effect
<1>2. CASE Au!Die(t)
  <2>1. ChangeShape' /\ changed' \subseteq Au!Numbers /\ proved' \in BOOLEAN
    BY <1>2 DEF Au!Die, Au!codeHist, CodeInv, ChangeShape, Au!CodeTypes
  <2> QED
    BY <1>2, <2>1, ForgetInv DEF Au!Die, Au!codeHist
<1> QED
  BY <1>1, <1>2

\* Every step of the codes keeps CodeInv.
LEMMA CodeNextInv ==
  ASSUME Au!AuthAssumption, CodeInv, [Au!CodeNext]_(Au!codeVars)
  PROVE  CodeInv'
<1>1. CASE UNCHANGED Au!codeVars
  BY <1>1 DEF Au!codeVars, Au!codeHist, CodeInv, Au!CodeTypes, TryShape, UseShape, CountShape,
     ChangeShape, Au!Using
<1>2. CASE Au!CodeNext
  BY <1>2, SendInv, ExpireCodeInv, ReadCodeInv, CountWrongInv, UseCodeInv, EffectInv DEF Au!CodeNext
<1> QED
  BY <1>1, <1>2

-----------------------------------------------------------------------------
(* The theorems about logins.                                               *)

LoginInv == TokenInv /\ CodeInv

\* LoginInv holds at first and every step keeps it, of the tokens and of the codes.
LEMMA LoginInvariance ==
  ASSUME Au!AuthAssumption
  PROVE  Au!Spec => []LoginInv
<1>1. Au!Init => LoginInv
  <2> SUFFICES ASSUME Au!Init PROVE LoginInv
    OBVIOUS
  <2>1. TokenInv
    BY DEF Au!Init, Au!TokenInit, TokenInv, Au!TokenTypes, PairShape, OutShape, ExchangeShape,
       Au!LoggedOutIsRefused, Au!Holding
  <2>2. CodeInv
    <3>1. codes = <<>> /\ Len(codes) = 0 /\ codes \in Seq(Row) /\ MaxCodes \in Nat
          /\ MaxAttempts \in Nat \ {0} /\ MaxAttempts * 0 = 0
          /\ 0 \in 0..MaxCodes /\ 0 \in 0..MaxAttempts /\ Len(codes) <= MaxCodes
      BY DEF Au!Init, Au!CodeInit, Au!AuthAssumption
    <3>2. Au!CodeTypes
      BY <3>1 DEF Au!Init, Au!CodeInit, Au!CodeTypes, Row, Au!Kinds
    <3> QED
      BY <3>1, <3>2 DEF Au!Init, Au!CodeInit, CodeInv, TryShape, UseShape, CountShape, ChangeShape,
         Au!Using
  <2> QED
    BY <2>1, <2>2 DEF LoginInv
<1>2. LoginInv /\ [Au!Next]_<<Au!pairVars, Au!codeVars>> => LoginInv'
  BY TokenNextInv, CodeNextInv DEF LoginInv, Au!Next, Au!AuthAssumption
<1> QED
  BY <1>1, <1>2, PTL DEF Au!Spec

\* The types of the tables and of the requests.
THEOREM LoginTypes ==
  ASSUME Au!AuthAssumption
  PROVE  Au!Spec => []Au!TypeOK
<1>1. LoginInv => Au!TypeOK
  BY DEF LoginInv, TokenInv, CodeInv, Au!TypeOK
<1> QED
  BY <1>1, LoginInvariance, PTL

\* A refresh token is exchanged once, unless two refreshes held it at once or its
\* owner logged out with the pair.
THEOREM TokenExchangedOnce ==
  ASSUME Au!AuthAssumption
  PROVE  Au!Spec => []Au!ExchangedOnce
<1>1. LoginInv => Au!ExchangedOnce
  BY DEF LoginInv, TokenInv, ExchangeShape, Au!ExchangedOnce
<1> QED
  BY <1>1, LoginInvariance, PTL

\* No refresh is let in by a pair that was logged out while its access token lives.
THEOREM LoggedOutRefused ==
  ASSUME Au!AuthAssumption
  PROVE  Au!Spec => []Au!LoggedOutIsRefused
<1>1. LoginInv => Au!LoggedOutIsRefused
  BY DEF LoginInv, TokenInv
<1> QED
  BY <1>1, LoginInvariance, PTL

\* A code allows its number of wrong tries, and as many again for each lost count.
THEOREM TriesBounded ==
  ASSUME Au!AuthAssumption
  PROVE  Au!Spec => []Au!WrongTriesBounded
<1>1. LoginInv => Au!WrongTriesBounded
  <2> SUFFICES ASSUME LoginInv, NEW n \in Au!Numbers
      PROVE  wrongTries[n] <= MaxAttempts * (1 + lost[n])
    BY DEF Au!WrongTriesBounded
  <2>1. /\ wrongTries[n] \in Nat /\ lost[n] \in Nat /\ MaxAttempts \in Nat /\ n \in Nat /\ n >= 1
        /\ Len(codes) \in Nat
    BY CodeRow DEF LoginInv, CodeInv, Au!CodeTypes, Au!AuthAssumption, Au!Numbers
  <2>2. MaxAttempts * (1 + lost[n]) = MaxAttempts * lost[n] + MaxAttempts
        /\ MaxAttempts * lost[n] \in Nat
    BY <2>1, OneMore
  <2>3. CASE n \in 1..Len(codes)
    <3>1. codes[n].attempts \in 0..MaxAttempts
      BY <2>3, CodeRow DEF LoginInv, CodeInv, Row
    <3>2. wrongTries[n] <= MaxAttempts * lost[n] + codes[n].attempts
      BY <2>3 DEF LoginInv, CodeInv, CountShape
    <3> DEFINE m == MaxAttempts * lost[n]
    <3>3. m \in Nat /\ MaxAttempts * (1 + lost[n]) = m + MaxAttempts
          /\ wrongTries[n] <= m + codes[n].attempts
      BY <2>2, <3>2
    <3> HIDE DEF m
    <3> QED
      BY <2>1, <3>1, <3>3
  <2>4. CASE n > Len(codes)
    <3>1. wrongTries[n] = 0
      BY <2>4 DEF LoginInv, CodeInv, CountShape
    <3>2. MaxAttempts * (1 + lost[n]) >= 0
      BY <2>1, <2>2
    <3> QED
      BY <3>1, <3>2
  <2> QED
    BY <2>1, <2>3, <2>4
<1> QED
  BY <1>1, LoginInvariance, PTL

\* A code is used once unless two tries were using it at the same moment.
THEOREM CodeOnce ==
  ASSUME Au!AuthAssumption
  PROVE  Au!Spec => []Au!CodeUsedOnce
<1>1. LoginInv => Au!CodeUsedOnce
  BY DEF LoginInv, CodeInv, UseShape, Au!CodeUsedOnce
<1> QED
  BY <1>1, LoginInvariance, PTL

\* A code that has changed the password is used up and had been sent for that.
THEOREM PasswordNeedsCode ==
  ASSUME Au!AuthAssumption
  PROVE  Au!Spec => []Au!PasswordHasCode
<1>1. LoginInv => Au!PasswordHasCode
  BY DEF LoginInv, CodeInv, ChangeShape, Au!PasswordHasCode
<1> QED
  BY <1>1, LoginInvariance, PTL

-----------------------------------------------------------------------------
(* Terms of service.                                                        *)

\* What a user was shown had been published, and a version that was published with two
\* texts is known as edited.
ShownShape ==
    /\ terms \in published
    /\ \A u \in Users : screen[u] # NoEntry =>
          screen[u] \in published /\ <<u, screen[u][1], screen[u][2]>> \in display
    /\ \A s, t \in published : s[1] = t[1] /\ s[2] # t[2] => s[1] \in edited

\* What a request is about to insert was shown to its user, word for word unless it was
\* edited, and who passed the guard has accepted what the build asks for.
SessionShape ==
    \A c \in Sessions :
        LET u == session[c].user
            t == session[c].mine
        IN /\ session[c].at = "insert" =>
                \/ <<u, t[1], t[2]>> \in display
                \/ t[1] \in edited /\ \E x \in Hashes : <<u, t[1], x>> \in display
           /\ session[c].at = "act" => \E r \in acceptances : r[1] = u /\ r[2][1] = t[1][1]

TermsInv ==
    /\ Tos!TypeOK /\ ShownShape /\ SessionShape
    /\ Tos!ActsHaveConsent /\ Tos!ConsentIsInformed /\ Tos!AcceptedOnce

-----------------------------------------------------------------------------
\* A deployment publishes another version, or the same one with other texts.
LEMMA DeployInv ==
  ASSUME TermsInv, Tos!TermsAssumption, NEW t \in Tos!Terms, Tos!Deploy(t)
  PROVE  TermsInv'
<1>1. /\ deploys < MaxDeploys /\ deploys' = deploys + 1
      /\ terms' = t /\ published' = published \cup {t}
      /\ edited \subseteq edited'
      /\ (\E s \in published : s[1] = t[1] /\ s[2] # t[2]) => t[1] \in edited'
      /\ edited' \subseteq edited \cup {t[1]}
      /\ UNCHANGED <<acceptances, screen, session, display, told, acted>>
  BY DEF Tos!Deploy
<1>2. t[1] \in Releases /\ t[2] \in Hashes /\ t \in Releases \X Hashes
  BY DEF Tos!Terms
<1>3. Tos!TypeOK'
  BY <1>1, <1>2 DEF TermsInv, Tos!TypeOK, Tos!Terms, Tos!TermsAssumption
<1>4. ShownShape'
  BY <1>1, <1>2 DEF TermsInv, ShownShape
<1>5. SessionShape'
  BY <1>1 DEF TermsInv, SessionShape
<1>6. Tos!ActsHaveConsent' /\ Tos!ConsentIsInformed' /\ Tos!AcceptedOnce'
  BY <1>1 DEF TermsInv, Tos!ActsHaveConsent, Tos!ConsentIsInformed, Tos!AcceptedOnce, Tos!Accepted
<1> QED
  BY <1>3, <1>4, <1>5, <1>6 DEF TermsInv

\* A user is shown the terms in force.
LEMMA ShowInv ==
  ASSUME TermsInv, NEW u \in Users, Tos!Show(u)
  PROVE  TermsInv'
<1>1. /\ screen' = [screen EXCEPT ![u] = terms]
      /\ display' = display \cup {<<u, terms[1], terms[2]>>}
      /\ UNCHANGED <<terms, acceptances, session, deploys, edited, published, told, acted>>
  BY DEF Tos!Show
<1>2. terms \in Releases \X Hashes /\ terms[1] \in Releases /\ terms[2] \in Hashes
  BY DEF TermsInv, Tos!TypeOK, Tos!Terms
<1>3. Tos!TypeOK'
  BY <1>1, <1>2 DEF TermsInv, Tos!TypeOK, Tos!Terms
<1>4. ShownShape'
  BY <1>1 DEF TermsInv, ShownShape, Tos!TypeOK
<1>5. SessionShape'
  BY <1>1 DEF TermsInv, SessionShape
<1>6. Tos!ActsHaveConsent' /\ Tos!ConsentIsInformed' /\ Tos!AcceptedOnce'
  BY <1>1 DEF TermsInv, Tos!ActsHaveConsent, Tos!ConsentIsInformed, Tos!AcceptedOnce, Tos!Accepted
<1> QED
  BY <1>3, <1>4, <1>5, <1>6 DEF TermsInv

\* A request begins, with what it needs.
LEMMA SessionBegins ==
  ASSUME TermsInv, NEW c \in Sessions, NEW u \in Users, NEW at \in {"insert", "act"},
         session' = [session EXCEPT ![c] = [at |-> at, user |-> u, mine |-> terms]],
         at = "insert" => \/ <<u, terms[1], terms[2]>> \in display
                          \/ terms[1] \in edited
                               /\ \E x \in Hashes : <<u, terms[1], x>> \in display,
         at = "act" => \E r \in acceptances : r[1] = u /\ r[2][1] = terms[1][1],
         UNCHANGED <<terms, acceptances, screen, deploys, display, edited, published, told, acted>>
  PROVE  TermsInv'
<1>1. Tos!TypeOK'
  BY DEF TermsInv, Tos!TypeOK, Tos!Terms
<1>2. ShownShape'
  BY DEF TermsInv, ShownShape
<1>3. SessionShape'
  BY DEF TermsInv, SessionShape, Tos!TypeOK
<1>4. Tos!ActsHaveConsent' /\ Tos!ConsentIsInformed' /\ Tos!AcceptedOnce'
  BY DEF TermsInv, Tos!ActsHaveConsent, Tos!ConsentIsInformed, Tos!AcceptedOnce, Tos!Accepted
<1> QED
  BY <1>1, <1>2, <1>3, <1>4 DEF TermsInv

\* An acceptance of the version in force looks for the row it would repeat.
LEMMA AcceptInv ==
  ASSUME TermsInv, NEW u \in Users, NEW c \in Sessions, Tos!Accept(c, u)
  PROVE  TermsInv'
<1>1. /\ screen[u] # NoEntry /\ screen[u][1] = terms[1]
      /\ UNCHANGED <<terms, acceptances, screen, deploys, display, edited, published, acted>>
  BY DEF Tos!Accept
<1>2. CASE Tos!Accepted(u, terms[1])
  <2>1. told' = told \cup {<<u, terms[1]>>} /\ UNCHANGED session
    BY <1>2 DEF Tos!Accept
  <2>2. terms[1] \in Releases
    BY DEF TermsInv, Tos!TypeOK, Tos!Terms
  <2>3. Tos!TypeOK'
    BY <1>1, <2>1, <2>2 DEF TermsInv, Tos!TypeOK, Tos!Terms
  <2>4. ShownShape' /\ SessionShape'
    BY <1>1, <2>1 DEF TermsInv, ShownShape, SessionShape
  <2>5. Tos!ActsHaveConsent' /\ Tos!ConsentIsInformed' /\ Tos!AcceptedOnce'
    BY <1>1, <1>2, <2>1 DEF TermsInv, Tos!ActsHaveConsent, Tos!ConsentIsInformed,
       Tos!AcceptedOnce, Tos!Accepted
  <2> QED
    BY <2>3, <2>4, <2>5 DEF TermsInv
<1>3. CASE ~Tos!Accepted(u, terms[1])
  <2>1. /\ session' = [session EXCEPT ![c] = [at |-> "insert", user |-> u, mine |-> terms]]
        /\ UNCHANGED told
    BY <1>3 DEF Tos!Accept, Tos!Begin
  <2>2. screen[u] \in published /\ <<u, screen[u][1], screen[u][2]>> \in display
        /\ terms \in published /\ screen[u][2] \in Hashes
    BY <1>1 DEF TermsInv, ShownShape, Tos!TypeOK, Tos!Terms
  <2>3. screen[u][2] # terms[2] => terms[1] \in edited
    BY <1>1, <2>2 DEF TermsInv, ShownShape
  <2>4. \/ <<u, terms[1], terms[2]>> \in display
        \/ terms[1] \in edited /\ \E x \in Hashes : <<u, terms[1], x>> \in display
    BY <1>1, <2>2, <2>3
  <2> QED
    BY <1>1, <2>1, <2>4, SessionBegins
<1> QED
  BY <1>2, <1>3

\* The guard lets a request pass whose user has accepted the version in force.
LEMMA GuardInv ==
  ASSUME TermsInv, NEW u \in Users, NEW c \in Sessions, Tos!Guard(c, u)
  PROVE  TermsInv'
<1>1. /\ session' = [session EXCEPT ![c] = [at |-> "act", user |-> u, mine |-> terms]]
      /\ \E r \in acceptances : r[1] = u /\ r[2][1] = terms[1][1]
      /\ UNCHANGED <<terms, acceptances, screen, deploys, display, edited, published, told, acted>>
  BY DEF Tos!Guard, Tos!Begin, Tos!HasAcceptedCurrentTos
<1> QED
  BY <1>1, SessionBegins

\* An acceptance is inserted, and the unique index refuses a second row.
LEMMA InsertInv ==
  ASSUME TermsInv, NEW c \in Sessions, Tos!Insert(c)
  PROVE  TermsInv'
<1> DEFINE u == session[c].user
           t == session[c].mine
<1>1. /\ session[c].at = "insert"
      /\ session' = [session EXCEPT ![c] = [at |-> "idle", user |-> NoEntry, mine |-> NoEntry]]
      /\ UNCHANGED <<terms, screen, deploys, display, edited, published, acted>>
      /\ \/ UNCHANGED <<acceptances, told>>
         \/ /\ ~Tos!Accepted(u, t[1])
            /\ acceptances' = acceptances \cup {<<u, t[1], t[2]>>}
            /\ told' = told \cup {<<u, t[1]>>}
  BY DEF Tos!Insert, Tos!End, Tos!Idle
<1>a. session[c] \in [at : {"insert", "act"}, user : Users, mine : Releases \X Hashes]
  BY <1>1 DEF TermsInv, Tos!TypeOK, Tos!Terms, Tos!Idle
<1>b. u \in Users /\ t \in Releases \X Hashes /\ t[1] \in Releases /\ t[2] \in Hashes
  BY <1>a
<1>2. /\ u \in Users /\ t \in Releases \X Hashes /\ t[1] \in Releases /\ t[2] \in Hashes
      /\ \/ <<u, t[1], t[2]>> \in display
         \/ t[1] \in edited /\ \E x \in Hashes : <<u, t[1], x>> \in display
  BY <1>1, <1>b DEF TermsInv, SessionShape
<1>3. \A d \in Sessions : d # c => session'[d] = session[d]
  BY <1>1 DEF TermsInv, Tos!TypeOK
<1>4. session'[c] = [at |-> "idle", user |-> NoEntry, mine |-> NoEntry]
  BY <1>1 DEF TermsInv, Tos!TypeOK
<1> HIDE DEF u, t
<1>5. Tos!TypeOK'
  BY <1>1, <1>2 DEF TermsInv, Tos!TypeOK, Tos!Terms, Tos!Idle
<1>6. ShownShape'
  BY <1>1 DEF TermsInv, ShownShape
<1>7. acceptances \subseteq acceptances'
  BY <1>1
<1>8. SessionShape'
  <2> SUFFICES ASSUME NEW d \in Sessions, session'[d].at # "idle"
      PROVE  /\ session'[d].at = "insert" =>
                  \/ <<session'[d].user, session'[d].mine[1], session'[d].mine[2]>> \in display'
                  \/ /\ session'[d].mine[1] \in edited'
                     /\ \E x \in Hashes : <<session'[d].user, session'[d].mine[1], x>> \in display'
             /\ session'[d].at = "act" =>
                  \E r \in acceptances' : /\ r[1] = session'[d].user
                                          /\ r[2][1] = session'[d].mine[1][1]
    BY DEF SessionShape
  <2>1. d # c
    BY <1>4
  <2> QED
    BY <1>1, <1>3, <1>7, <2>1 DEF TermsInv, SessionShape
<1>9. Tos!ActsHaveConsent' /\ Tos!ConsentIsInformed' /\ Tos!AcceptedOnce'
  BY <1>1, <1>2 DEF TermsInv, Tos!ActsHaveConsent, Tos!ConsentIsInformed, Tos!AcceptedOnce,
       Tos!Accepted
<1> QED
  BY <1>5, <1>6, <1>8, <1>9 DEF TermsInv

\* A user acts on the market.
LEMMA ActInv ==
  ASSUME TermsInv, NEW c \in Sessions, Tos!Act(c)
  PROVE  TermsInv'
<1> DEFINE u == session[c].user
           t == session[c].mine
<1>1. /\ session[c].at = "act"
      /\ session' = [session EXCEPT ![c] = [at |-> "idle", user |-> NoEntry, mine |-> NoEntry]]
      /\ acted' = acted \cup {<<u, t[1]>>}
      /\ UNCHANGED <<terms, acceptances, screen, deploys, display, edited, published, told>>
  BY DEF Tos!Act, Tos!End, Tos!Idle
<1>a. session[c] \in [at : {"insert", "act"}, user : Users, mine : Releases \X Hashes]
  BY <1>1 DEF TermsInv, Tos!TypeOK, Tos!Terms, Tos!Idle
<1>b. u \in Users /\ t[1] \in Releases
  BY <1>a
<1>2. /\ u \in Users /\ t[1] \in Releases
      /\ \E r \in acceptances : r[1] = u /\ r[2][1] = t[1][1]
  BY <1>1, <1>b DEF TermsInv, SessionShape
<1> HIDE DEF u, t
<1>3. Tos!TypeOK'
  BY <1>1, <1>2 DEF TermsInv, Tos!TypeOK, Tos!Terms, Tos!Idle
<1>4. ShownShape'
  BY <1>1 DEF TermsInv, ShownShape
<1>5. SessionShape'
  BY <1>1 DEF TermsInv, SessionShape, Tos!TypeOK
<1>6. Tos!ActsHaveConsent' /\ Tos!ConsentIsInformed' /\ Tos!AcceptedOnce'
  BY <1>1, <1>2 DEF TermsInv, Tos!ActsHaveConsent, Tos!ConsentIsInformed, Tos!AcceptedOnce,
       Tos!Accepted
<1> QED
  BY <1>3, <1>4, <1>5, <1>6 DEF TermsInv

\* A behaviour of the terms keeps their invariant.
LEMMA TermsInvariance ==
  ASSUME Tos!TermsAssumption
  PROVE  Tos!Spec => []TermsInv
<1>1. Tos!Init => TermsInv
  BY DEF Tos!Init, TermsInv, Tos!TypeOK, Tos!Terms, Tos!Idle, ShownShape, SessionShape,
     Tos!ActsHaveConsent, Tos!ConsentIsInformed, Tos!AcceptedOnce, Tos!TermsAssumption
<1>2. TermsInv /\ [Tos!Next]_(Tos!vars) => TermsInv'
  <2> SUFFICES ASSUME TermsInv, [Tos!Next]_(Tos!vars) PROVE TermsInv'
    OBVIOUS
  <2>1. CASE Tos!Next
    BY <2>1, DeployInv, ShowInv, AcceptInv, GuardInv, InsertInv, ActInv DEF Tos!Next
  <2>2. CASE UNCHANGED Tos!vars
    BY <2>2 DEF Tos!vars, TermsInv, Tos!TypeOK, Tos!Idle, ShownShape, SessionShape,
       Tos!ActsHaveConsent, Tos!ConsentIsInformed, Tos!AcceptedOnce, Tos!Accepted
  <2> QED
    BY <2>1, <2>2
<1> QED
  BY <1>1, <1>2, PTL DEF Tos!Spec

\* Whoever used the market had accepted what the build that served the request asks for.
THEOREM ActedWithConsent ==
  ASSUME Tos!TermsAssumption
  PROVE  Tos!Spec => []Tos!ActsHaveConsent
<1>1. TermsInv => Tos!ActsHaveConsent
  BY DEF TermsInv
<1> QED
  BY <1>1, TermsInvariance, PTL

\* What is on record as accepted was shown to that user, unless edited since.
THEOREM AcceptedWhatWasShown ==
  ASSUME Tos!TermsAssumption
  PROVE  Tos!Spec => []Tos!ConsentIsInformed
<1>1. TermsInv => Tos!ConsentIsInformed
  BY DEF TermsInv
<1> QED
  BY <1>1, TermsInvariance, PTL

\* What was confirmed is on record, once.
THEOREM AcceptedOnceEach ==
  ASSUME Tos!TermsAssumption
  PROVE  Tos!Spec => []Tos!AcceptedOnce
<1>1. TermsInv => Tos!AcceptedOnce
  BY DEF TermsInv
<1> QED
  BY <1>1, TermsInvariance, PTL

-----------------------------------------------------------------------------
(* Signed models.                                                           *)

\* Until its bundle is signed over or forgotten, a client holds what is on record.
ClientShape ==
    /\ client.at = "holds" => client.key \in Si!Keys
    /\ client.at = "holds" /\ replaced = FALSE =>
          signed[client.key] # NoEntry /\ signed[client.key].hash = client.hash
    /\ client.at = "refused" => replaced = TRUE

SignedInv == Si!TypeOK /\ ClientShape /\ Si!OfferedIsCurrent

Signed(m, s, k) == k[1] = m /\ signed[k] # NoEntry /\ signed[k].shard = s /\ signed[k].active = TRUE

-----------------------------------------------------------------------------
\* The active records of a model at a shard are the signed ones that say so.
LEMMA ActiveAre ==
  ASSUME Si!TypeOK, Si!ProvenanceAssumption, NEW m \in Models, NEW s \in Shards
  PROVE  Si!Active(m, s) = {k \in Si!Keys : Signed(m, s, k)}
<1>1. \A k \in Si!Keys : signed[k] # NoEntry => signed[k].active \in BOOLEAN
  BY DEF Si!TypeOK, Si!Record
<1> QED
  BY <1>1 DEF Si!Active, Signed

\* A model is signed: the records that were active are switched off, and the new one is active.
LEMMA SignInv ==
  ASSUME SignedInv, Si!ProvenanceAssumption,
         NEW m \in Models, NEW v \in Versions, NEW s \in Shards, NEW h \in Hashes,
         Si!Sign(m, v, s, h)
  PROVE  SignedInv'
<1> DEFINE new == [shard |-> s, hash |-> h, active |-> TRUE]
           k0 == <<m, v>>
           old == signed[k0]
<1>k. k0 \in Si!Keys /\ new \in Si!Record /\ new # NoEntry
  <2>1. new \in Si!Record
    BY DEF Si!Record
  <2>2. NoEntry \notin Si!Record
    BY DEF Si!Record, Si!ProvenanceAssumption
  <2> QED
    BY <2>1, <2>2 DEF Si!Keys
<1>a. \A k \in Si!Keys : k \in Si!Active(m, s) => Signed(m, s, k) /\ signed[k] \in Si!Record
  <2>1. Si!Active(m, s) = {k \in Si!Keys : Signed(m, s, k)}
    BY ActiveAre DEF SignedInv
  <2>2. \A k \in Si!Keys : signed[k] \in Si!Record \cup {NoEntry}
    BY DEF SignedInv, Si!TypeOK
  <2> QED
    BY <2>1, <2>2 DEF Signed
<1>1. /\ requests < MaxSigned /\ requests' = requests + 1 /\ UNCHANGED client
      /\ signed'[k0] = new
      /\ \A k \in Si!Keys : k # k0 /\ k \in Si!Active(m, s)
            => signed'[k] = [signed[k] EXCEPT !.active = FALSE]
      /\ \A k \in Si!Keys : k # k0 /\ k \notin Si!Active(m, s) => signed'[k] = signed[k]
      /\ current' = [current EXCEPT ![<<m, s>>] = v]
      /\ displaced' = (displaced \ {<<m, s>>}) \cup
            {p \in {m} \X (Shards \ {s}) : old # NoEntry /\ old.shard = p[2] /\ old.active}
      /\ signed' = [k \in Si!Keys |-> signed'[k]]
  BY <1>k DEF Si!Sign
<1>r. /\ replaced' \in BOOLEAN
      /\ replaced = TRUE => replaced' = TRUE
      /\ client.key = k0 /\ client.hash # h => replaced' = TRUE
  BY Zenon DEF Si!Sign, SignedInv, Si!TypeOK
<1>2. Si!TypeOK'
  <2>1. \A k \in Si!Keys : signed'[k] \in Si!Record \cup {NoEntry}
    <3> SUFFICES ASSUME NEW k \in Si!Keys PROVE signed'[k] \in Si!Record \cup {NoEntry}
      OBVIOUS
    <3>1. CASE k = k0
      BY <1>1, <1>k, <3>1
    <3>2. CASE k # k0 /\ k \in Si!Active(m, s)
      BY <1>1, <1>a, <3>2 DEF Si!Record
    <3>3. CASE k # k0 /\ k \notin Si!Active(m, s)
      BY <1>1, <3>3 DEF SignedInv, Si!TypeOK
    <3> QED
      BY <3>1, <3>2, <3>3
  <2>2. current' \in [Models \X Shards -> Versions \cup {NoEntry}]
    BY <1>1 DEF SignedInv, Si!TypeOK
  <2>3. requests' \in 0..MaxSigned
    BY <1>1 DEF SignedInv, Si!TypeOK, Si!ProvenanceAssumption
  <2>4. displaced' \subseteq Models \X Shards
    BY <1>1 DEF SignedInv, Si!TypeOK
  <2>5. signed' \in [Si!Keys -> Si!Record \cup {NoEntry}]
    BY <1>1, <2>1
  <2> QED
    BY <1>1, <1>r, <2>2, <2>3, <2>4, <2>5 DEF SignedInv, Si!TypeOK, Si!Keys
<1>3. ClientShape'
  <2>1. client.at = "refused" => replaced' = TRUE
    BY <1>r DEF SignedInv, ClientShape
  <2>2. ASSUME client.at = "holds", replaced' = FALSE
        PROVE  signed'[client.key] # NoEntry /\ signed'[client.key].hash = client.hash
    <3>1. /\ client.key \in Si!Keys /\ signed[client.key] # NoEntry
          /\ signed[client.key].hash = client.hash
          /\ client.key = k0 => client.hash = h
      BY <1>r, <2>2 DEF SignedInv, ClientShape, Si!TypeOK
    <3>2. CASE client.key = k0
      BY <1>1, <1>k, <3>1, <3>2
    <3>3. CASE client.key # k0 /\ client.key \in Si!Active(m, s)
      <4>1. signed'[client.key] = [signed[client.key] EXCEPT !.active = FALSE]
        BY <1>1, <3>1, <3>3
      <4>2. signed[client.key] \in Si!Record
        BY <1>a, <3>1, <3>3
      <4>3. signed'[client.key] \in Si!Record /\ signed'[client.key].hash = client.hash
        BY <4>1, <4>2, <3>1 DEF Si!Record
      <4> QED
        BY <4>3 DEF Si!ProvenanceAssumption, Si!Record
    <3>4. CASE client.key # k0 /\ client.key \notin Si!Active(m, s)
      BY <1>1, <3>1, <3>4
    <3> QED
      BY <3>2, <3>3, <3>4
  <2>3. client.at = "holds" => client.key \in Si!Keys
    BY DEF SignedInv, ClientShape
  <2> QED
    BY <1>1, <2>1, <2>2, <2>3 DEF ClientShape, Si!Keys
<1>4. ASSUME NEW n \in Models, NEW t \in Shards
      PROVE  Si!Active(n, t)' = IF current'[<<n, t>>] = NoEntry \/ <<n, t>> \in displaced' THEN {}
                                ELSE {<<n, current'[<<n, t>>]>>}
  <2>1. Si!Active(n, t)' = {k \in Si!Keys : Signed(n, t, k)'}
    <3>1. \A k \in Si!Keys : signed'[k] # NoEntry => signed'[k].active \in BOOLEAN
      BY <1>2 DEF Si!TypeOK, Si!Record
    <3> QED
      BY <3>1 DEF Si!Active, Signed, Si!Keys
  <2>2. Si!Active(n, t) = {k \in Si!Keys : Signed(n, t, k)}
    BY ActiveAre DEF SignedInv
  <2>3. Si!Active(n, t) = IF current[<<n, t>>] = NoEntry \/ <<n, t>> \in displaced THEN {}
                          ELSE {<<n, current[<<n, t>>]>>}
    BY DEF SignedInv, Si!OfferedIsCurrent
  <2>4. CASE n = m /\ t = s
    <3>1. current'[<<n, t>>] = v /\ v # NoEntry /\ <<n, t>> \notin displaced'
      BY <1>1, <2>4 DEF SignedInv, Si!TypeOK, Si!ProvenanceAssumption
    <3>2. \A k \in Si!Keys : Signed(n, t, k)' <=> k = k0
      <4> SUFFICES ASSUME NEW k \in Si!Keys PROVE Signed(n, t, k)' <=> k = k0
        OBVIOUS
      <4>1. CASE k = k0
        BY <1>1, <1>k, <2>4, <4>1 DEF Signed
      <4>2. CASE k # k0 /\ k \in Si!Active(m, s)
        BY <1>1, <1>a, <4>2 DEF Signed, Si!Record
      <4>3. CASE k # k0 /\ k \notin Si!Active(m, s)
        BY <1>1, <2>2, <2>4, <4>3 DEF Signed
      <4> QED
        BY <4>1, <4>2, <4>3
    <3> QED
      BY <2>1, <2>4, <3>1, <3>2, <1>k
  <2>5. CASE n # m \/ t # s
    <3>1. <<n, t>> # <<m, s>> /\ current'[<<n, t>>] = current[<<n, t>>]
      BY <1>1, <2>5 DEF SignedInv, Si!TypeOK
    <3>2. \A k \in Si!Keys : Signed(n, t, k)' <=> Signed(n, t, k) /\ k # k0
      <4> SUFFICES ASSUME NEW k \in Si!Keys PROVE Signed(n, t, k)' <=> Signed(n, t, k) /\ k # k0
        OBVIOUS
      <4>1. CASE k = k0
        BY <1>1, <1>k, <2>5, <4>1 DEF Signed
      <4>2. CASE k # k0 /\ k \in Si!Active(m, s)
        BY <1>1, <1>a, <2>5, <4>2 DEF Signed, Si!Record
      <4>3. CASE k # k0 /\ k \notin Si!Active(m, s)
        BY <1>1, <4>3 DEF Signed
      <4> QED
        BY <4>1, <4>2, <4>3
    <3>3. <<n, t>> \in displaced' <=> <<n, t>> \in displaced \/ Signed(n, t, k0)
      <4>1. <<n, t>> \in displaced' <=>
              \/ <<n, t>> \in displaced
              \/ n = m /\ t # s /\ old # NoEntry /\ old.shard = t /\ old.active
        BY <1>1, <3>1
      <4>2. old # NoEntry => old.active \in BOOLEAN
        BY <1>k DEF SignedInv, Si!TypeOK, Si!Record
      <4> QED
        BY <4>1, <4>2, <2>5 DEF Signed
    <3>4. Si!Active(n, t)' = Si!Active(n, t) \ {k0}
      BY <2>1, <2>2, <3>2
    <3>5. CASE Signed(n, t, k0)
      <4>1. Si!Active(n, t) = {k0}
        BY <2>2, <2>3, <3>5, <1>k
      <4> QED
        BY <3>3, <3>4, <3>5, <4>1
    <3>6. CASE ~Signed(n, t, k0)
      <4>1. Si!Active(n, t)' = Si!Active(n, t)
        BY <2>2, <3>4, <3>6
      <4> QED
        BY <2>3, <3>1, <3>3, <3>6, <4>1
    <3> QED
      BY <3>5, <3>6
  <2> QED
    BY <2>4, <2>5
<1> QED
  BY <1>2, <1>3, <1>4 DEF SignedInv, Si!OfferedIsCurrent

\* A client fetches what is on record.
LEMMA FetchInv ==
  ASSUME SignedInv, Si!ProvenanceAssumption, NEW s \in Shards, Si!Fetch(s)
  PROVE  SignedInv'
<1>1. PICK k \in Si!Offered(s) : client' = [at |-> "holds", key |-> k, hash |-> signed[k].hash]
  BY DEF Si!Fetch
<1>2. k \in Si!Keys /\ signed[k] # NoEntry /\ signed[k] \in Si!Record
  BY DEF Si!Offered, Si!Active, SignedInv, Si!TypeOK
<1>3. signed[k].hash \in Hashes
  BY <1>2 DEF Si!Record
<1>4. replaced' = FALSE /\ UNCHANGED <<signed, current, displaced, requests>>
  BY DEF Si!Fetch
<1>5. Si!TypeOK'
  BY <1>1, <1>2, <1>3, <1>4 DEF SignedInv, Si!TypeOK, Si!Keys, Si!Record
<1>6. ClientShape'
  BY <1>1, <1>2, <1>4 DEF ClientShape, Si!Keys
<1>7. Si!OfferedIsCurrent'
  BY <1>4 DEF SignedInv, Si!OfferedIsCurrent, Si!Active, Si!Keys
<1> QED
  BY <1>5, <1>6, <1>7 DEF SignedInv

\* A client compares its bundle with the record.
LEMMA VerifyInv ==
  ASSUME SignedInv, Si!ProvenanceAssumption, Si!Verify
  PROVE  SignedInv'
<1>1. /\ client.at = "holds"
      /\ client' = [client EXCEPT !.at =
            IF signed[client.key] # NoEntry /\ signed[client.key].hash = client.hash
            THEN "accepted" ELSE "refused"]
      /\ UNCHANGED <<signed, current, displaced, replaced, requests>>
  BY DEF Si!Verify
<1>2. Si!TypeOK'
  BY <1>1 DEF SignedInv, Si!TypeOK, Si!Keys, Si!Record
<1>3. client'.at \in {"accepted", "refused"}
      /\ (client'.at = "refused" => replaced = TRUE)
  <2>1. replaced \in {TRUE, FALSE}
    BY DEF SignedInv, Si!TypeOK
  <2>2. client'.at = IF signed[client.key] # NoEntry /\ signed[client.key].hash = client.hash
                     THEN "accepted" ELSE "refused"
    BY <1>1 DEF SignedInv, Si!TypeOK
  <2> QED
    BY <1>1, <2>1, <2>2 DEF SignedInv, ClientShape
<1>4. ClientShape'
  BY <1>1, <1>3 DEF ClientShape
<1>5. Si!OfferedIsCurrent'
  BY <1>1 DEF SignedInv, Si!OfferedIsCurrent, Si!Active, Si!Keys
<1> QED
  BY <1>2, <1>4, <1>5 DEF SignedInv

\* A rollback switches a version off.
LEMMA RollbackInv ==
  ASSUME SignedInv, Si!ProvenanceAssumption, NEW m \in Models, NEW v \in Versions,
         Si!Rollback(m, v)
  PROVE  SignedInv'
<1> DEFINE k0 == <<m, v>>
           old == signed[k0]
           s == old.shard
<1>1. /\ old # NoEntry
      /\ signed' = [signed EXCEPT ![k0].active = FALSE]
      /\ current' = [current EXCEPT ![<<m, s>>] = IF current[<<m, s>>] = v THEN NoEntry
                                                  ELSE current[<<m, s>>]]
      /\ UNCHANGED <<displaced, client, replaced, requests>>
  BY DEF Si!Rollback
<1>2. k0 \in Si!Keys /\ old \in Si!Record /\ s \in Shards
  BY <1>1 DEF SignedInv, Si!TypeOK, Si!Keys, Si!Record
<1>3. /\ signed'[k0] = [old EXCEPT !.active = FALSE]
      /\ signed'[k0] \in Si!Record /\ signed'[k0] # NoEntry /\ signed'[k0].hash = old.hash
      /\ signed'[k0].active = FALSE
      /\ \A k \in Si!Keys : k # k0 => signed'[k] = signed[k]
  <2>1. signed'[k0] = [old EXCEPT !.active = FALSE] /\ \A k \in Si!Keys : k # k0 =>
          signed'[k] = signed[k]
    BY <1>1, <1>2 DEF SignedInv, Si!TypeOK
  <2> QED
    BY <1>2, <2>1 DEF Si!Record, Si!ProvenanceAssumption
<1>4. Si!TypeOK'
  <2>1. signed' \in [Si!Keys -> Si!Record \cup {NoEntry}]
    BY <1>1, <1>2, <1>3 DEF SignedInv, Si!TypeOK
  <2>2. current' \in [Models \X Shards -> Versions \cup {NoEntry}]
    BY <1>1, <1>2 DEF SignedInv, Si!TypeOK
  <2> QED
    BY <1>1, <2>1, <2>2 DEF SignedInv, Si!TypeOK, Si!Keys, Si!Record
<1>5. ClientShape'
  <2>1. \A k \in Si!Keys : signed[k] # NoEntry =>
             signed'[k] # NoEntry /\ signed'[k].hash = signed[k].hash
    BY <1>3
  <2> QED
    BY <1>1, <2>1 DEF SignedInv, ClientShape, Si!Keys
<1>6. ASSUME NEW n \in Models, NEW t \in Shards
      PROVE  Si!Active(n, t)' = IF current'[<<n, t>>] = NoEntry \/ <<n, t>> \in displaced' THEN {}
                                ELSE {<<n, current'[<<n, t>>]>>}
  <2>1. Si!Active(n, t)' = {k \in Si!Keys : Signed(n, t, k)'}
    <3>1. \A k \in Si!Keys : signed'[k] # NoEntry => signed'[k].active \in BOOLEAN
      BY <1>4 DEF Si!TypeOK, Si!Record
    <3> QED
      BY <3>1 DEF Si!Active, Signed, Si!Keys
  <2>2. Si!Active(n, t) = {k \in Si!Keys : Signed(n, t, k)}
    BY ActiveAre DEF SignedInv
  <2>3. Si!Active(n, t) = IF current[<<n, t>>] = NoEntry \/ <<n, t>> \in displaced THEN {}
                          ELSE {<<n, current[<<n, t>>]>>}
    BY DEF SignedInv, Si!OfferedIsCurrent
  <2>4. Si!Active(n, t)' = Si!Active(n, t) \ {k0}
    BY <2>1, <2>2, <1>3 DEF Signed
  <2>5. CASE n = m /\ t = s
    <3>1. current'[<<n, t>>] = IF current[<<n, t>>] = v THEN NoEntry ELSE current[<<n, t>>]
      BY <1>1, <1>2, <2>5 DEF SignedInv, Si!TypeOK
    <3> HIDE DEF s
    <3> QED
      BY <1>1, <2>3, <2>4, <2>5, <3>1
  <2>6. CASE n # m \/ t # s
    <3>1. current'[<<n, t>>] = current[<<n, t>>]
      BY <1>1, <1>2, <2>6 DEF SignedInv, Si!TypeOK
    <3>2. k0 \notin Si!Active(n, t)
      BY <2>2, <2>6 DEF Signed
    <3> HIDE DEF s
    <3> QED
      BY <1>1, <2>3, <2>4, <3>1, <3>2
  <2> QED
    BY <2>5, <2>6
<1> QED
  BY <1>4, <1>5, <1>6 DEF SignedInv, Si!OfferedIsCurrent

\* The registry forgets its records when the process restarts.
LEMMA ModelsRestartInv ==
  ASSUME SignedInv, Si!ProvenanceAssumption, Si!Restart
  PROVE  SignedInv'
<1>1. /\ requests < MaxSigned /\ requests' = requests + 1
      /\ signed' = [k \in Si!Keys |-> NoEntry]
      /\ current' = [p \in Models \X Shards |-> NoEntry]
      /\ displaced' = {} /\ replaced' = TRUE /\ UNCHANGED client
  BY DEF Si!Restart
<1>2. Si!TypeOK'
  BY <1>1 DEF SignedInv, Si!TypeOK, Si!Keys, Si!Record, Si!ProvenanceAssumption
<1>3. ClientShape'
  BY <1>1 DEF SignedInv, ClientShape, Si!Keys
<1>4. Si!OfferedIsCurrent'
  BY <1>1 DEF Si!OfferedIsCurrent, Si!Active, Si!Keys
<1> QED
  BY <1>2, <1>3, <1>4 DEF SignedInv

\* A behaviour of the signed models keeps their invariant.
LEMMA SignedInvariance ==
  ASSUME Si!ProvenanceAssumption
  PROVE  Si!Spec => []SignedInv
<1>1. Si!Init => SignedInv
  <2> SUFFICES ASSUME Si!Init PROVE SignedInv
    OBVIOUS
  <2>1. Si!TypeOK
    <3>1. /\ signed \in [Si!Keys -> Si!Record \cup {NoEntry}]
          /\ current \in [Models \X Shards -> Versions \cup {NoEntry}]
          /\ displaced \subseteq Models \X Shards
      BY DEF Si!Init
    <3>2. client \in [at : {"idle", "holds", "accepted", "refused"}, key : Si!Keys \cup {NoEntry},
                      hash : Hashes \cup {NoEntry}]
      BY DEF Si!Init
    <3>3. replaced \in BOOLEAN
      BY Zenon DEF Si!Init
    <3>4. requests \in 0..MaxSigned
      <4>1. requests = 0 /\ MaxSigned \in Nat
        BY DEF Si!Init, Si!ProvenanceAssumption
      <4> QED
        BY <4>1
    <3> QED
      BY <3>1, <3>2, <3>3, <3>4 DEF Si!TypeOK, Si!Keys, Si!Record
  <2>2. ClientShape
    BY DEF Si!Init, ClientShape
  <2>3. Si!OfferedIsCurrent
    BY DEF Si!Init, Si!OfferedIsCurrent, Si!Active, Si!Keys
  <2> QED
    BY <2>1, <2>2, <2>3 DEF SignedInv
<1>2. SignedInv /\ [Si!Next]_(Si!vars) => SignedInv'
  <2> SUFFICES ASSUME SignedInv, [Si!Next]_(Si!vars) PROVE SignedInv'
    OBVIOUS
  <2>1. CASE Si!Next
    BY <2>1, SignInv, FetchInv, VerifyInv, RollbackInv, ModelsRestartInv DEF Si!Next
  <2>2. CASE UNCHANGED Si!vars
    BY <2>2 DEF Si!vars, SignedInv, Si!TypeOK, Si!Keys, Si!Record, ClientShape,
       Si!OfferedIsCurrent, Si!Active
  <2> QED
    BY <2>1, <2>2
<1> QED
  BY <1>1, <1>2, PTL DEF Si!Spec

\* A shard is offered one version of a model: the last one signed for it.
THEOREM OfferedVersion ==
  ASSUME Si!ProvenanceAssumption
  PROVE  Si!Spec => []Si!OfferedIsCurrent
<1>1. SignedInv => Si!OfferedIsCurrent
  BY DEF SignedInv
<1> QED
  BY <1>1, SignedInvariance, PTL

\* A client is refused only a bundle that was signed over or forgotten.
THEOREM RefusedForReason ==
  ASSUME Si!ProvenanceAssumption
  PROVE  Si!Spec => []Si!RefusedWasReplaced
<1>1. SignedInv => Si!RefusedWasReplaced
  BY DEF SignedInv, ClientShape, Si!RefusedWasReplaced
<1> QED
  BY <1>1, SignedInvariance, PTL

-----------------------------------------------------------------------------
(* Workflows.                                                               *)

Working == {"announce", "execute", "count", "complete", "fail"}
Copy    == [status : Fl!WorkflowStatus, steps : 0..Steps]
Places  == Fl!Ended \cup {"begin", "cancel"} \cup Working

\* What a call is about to do, of its copy and of the steps that it has executed.
Ready(c, where, copy, steps) ==
    /\ where \notin Fl!Ended => copy.status # "COMPLETED"
    /\ where \in Working => copy.status = "RUNNING"
    /\ where \in {"idle", "begin", "refused"} => steps = 0
    /\ where = "begin" => Steps > 0
    /\ where \in {"announce", "execute"} => steps < Steps
    /\ where = "complete" => steps = Steps /\ copy.steps = Steps
    /\ c \in Runs => where # "cancel"
    /\ c \in Cancels => where \in Fl!Ended \cup {"cancel"}

StepsOf(c) == IF c \in Runs THEN ran[c] ELSE 0

FlowShape == \A c \in Fl!Agents : Ready(c, agent[c], mine[c], StepsOf(c)) /\ wrote[c] = mine[c]

\* Completed once more than it was overwritten at most, and then it is completed now.
TimesShape == runsCompleted <= overwrites + (IF flow.status = "COMPLETED" THEN 1 ELSE 0)

\* A running workflow has a run, or one that was cut off.
RunnerShape == flow.status = "RUNNING" =>
                   crashed # {} \/ \E r \in Runs : agent[r] \notin Fl!Ended

FlowInv ==
    /\ Fl!TypeOK /\ FlowShape /\ TimesShape /\ RunnerShape /\ Fl!CompletedRanEverything

\* What the invariant says of the types of a workflow and its callers.
LEMMA FlowTypes ==
  Fl!TypeOK <=> /\ flow \in Copy /\ agent \in [Fl!Agents -> Places]
                /\ mine \in [Fl!Agents -> Copy] /\ wrote \in [Fl!Agents -> Copy]
                /\ ran \in [Runs -> 0..Steps]
                /\ runsCompleted \in Nat /\ overwrites \in Nat /\ crashed \subseteq Fl!Agents
<1>1. Places = Fl!Ended \cup {"begin", "announce", "execute", "count", "complete", "fail", "cancel"}
  BY DEF Places, Working
<1> QED
  BY <1>1 DEF Fl!TypeOK, Copy

-----------------------------------------------------------------------------
\* A call saves its copy of the row and goes on.
LEMMA SaveFlowInv ==
  ASSUME FlowInv, Fl!WorkflowAssumption, NEW c \in Fl!Agents, NEW copy \in Copy,
         NEW where \in Places, agent[c] \notin Fl!Ended,
         Fl!SaveFlow(c, copy), Fl!Go(c, where), UNCHANGED <<ran, crashed>>,
         Ready(c, where, copy, StepsOf(c)),
         runsCompleted' = runsCompleted + (IF copy.status = "COMPLETED" THEN 1 ELSE 0),
         copy.status = "COMPLETED" => copy.steps = Steps /\ \E r \in Runs : ran[r] = Steps,
         copy.status = "RUNNING" => c \in Runs /\ where \notin Fl!Ended
  PROVE  FlowInv'
<1>1. /\ flow' = copy
      /\ mine' = [mine EXCEPT ![c] = copy] /\ wrote' = [wrote EXCEPT ![c] = copy]
      /\ overwrites' = IF flow = wrote[c] THEN overwrites ELSE overwrites + 1
      /\ agent' = [agent EXCEPT ![c] = where]
  BY DEF Fl!SaveFlow, Fl!Go
<1>2. /\ flow \in Copy /\ agent \in [Fl!Agents -> Places]
      /\ mine \in [Fl!Agents -> Copy] /\ wrote \in [Fl!Agents -> Copy]
      /\ ran \in [Runs -> 0..Steps]
      /\ runsCompleted \in Nat /\ overwrites \in Nat /\ crashed \subseteq Fl!Agents
  BY FlowTypes DEF FlowInv
<1>3. Fl!TypeOK'
  <2>1. /\ flow' \in Copy /\ agent' \in [Fl!Agents -> Places]
        /\ mine' \in [Fl!Agents -> Copy] /\ wrote' \in [Fl!Agents -> Copy]
        /\ ran' \in [Runs -> 0..Steps]
        /\ runsCompleted' \in Nat /\ overwrites' \in Nat /\ crashed' \subseteq Fl!Agents
    BY <1>1, <1>2
  <2>2. Places = Fl!Ended \cup {"begin", "announce", "execute", "count", "complete", "fail", "cancel"}
    BY DEF Places, Working
  <2> QED
    BY <2>1, <2>2 DEF Fl!TypeOK, Copy, Fl!Agents
<1>4. FlowShape'
  <2> SUFFICES ASSUME NEW d \in Fl!Agents
      PROVE  Ready(d, agent'[d], mine'[d], StepsOf(d)') /\ wrote'[d] = mine'[d]
    BY DEF FlowShape, Fl!Agents, Ready, Fl!Ended
  <2>1. StepsOf(d)' = StepsOf(d)
    BY DEF StepsOf
  <2>2. CASE d = c
    BY <1>1, <1>2, <2>1, <2>2
  <2>3. CASE d # c
    BY <1>1, <1>2, <2>1, <2>3 DEF FlowInv, FlowShape
  <2> QED
    BY <2>2, <2>3
<1>5. TimesShape'
  <2>1. wrote[c].status # "COMPLETED"
    BY DEF FlowInv, FlowShape, Ready
  <2> DEFINE k == IF flow.status = "COMPLETED" THEN 1 ELSE 0
             k1 == IF copy.status = "COMPLETED" THEN 1 ELSE 0
  <2>2. runsCompleted <= overwrites + k
    BY DEF FlowInv, TimesShape
  <2>3. overwrites' \in Nat /\ overwrites + k <= overwrites'
    BY <1>1, <1>2, <2>1
  <2>4. k \in Nat /\ k1 \in Nat
    OBVIOUS
  <2>5. runsCompleted' = runsCompleted + k1 /\ flow' = copy
    BY <1>1
  <2> HIDE DEF k, k1
  <2>6. runsCompleted' <= overwrites' + k1
    <3>1. runsCompleted \in Nat /\ overwrites \in Nat
      BY <1>2
    <3>2. runsCompleted <= overwrites'
      BY <2>2, <2>3, <2>4, <3>1
    <3>3. \A i, j, l \in Nat : i <= j => i + l <= j + l
      OBVIOUS
    <3>4. runsCompleted + k1 <= overwrites' + k1
      BY <2>3, <2>4, <3>1, <3>2, <3>3
    <3> QED
      BY ONLY <2>5, <3>4
  <2> QED
    BY <2>5, <2>6 DEF TimesShape, k1
<1>6. RunnerShape'
  <2> SUFFICES ASSUME copy.status = "RUNNING"
      PROVE  \E r \in Runs : agent'[r] \notin Fl!Ended
    BY <1>1 DEF RunnerShape, Fl!Ended
  <2> QED
    BY <1>1, <1>2 DEF Fl!Agents
<1>7. Fl!CompletedRanEverything'
  BY <1>1 DEF Fl!CompletedRanEverything
<1> QED
  BY <1>3, <1>4, <1>5, <1>6, <1>7 DEF FlowInv

\* What is known of a call at work.
LEMMA FlowFacts ==
  ASSUME FlowInv, NEW c \in Fl!Agents
  PROVE  /\ mine[c] \in Copy /\ flow \in Copy /\ agent[c] \in Places
         /\ Ready(c, agent[c], mine[c], StepsOf(c))
         /\ runsCompleted \in Nat
         /\ c \in Runs => StepsOf(c) = ran[c] /\ ran[c] \in 0..Steps
BY FlowTypes DEF FlowInv, FlowShape, StepsOf

\* A caller reads the workflow it is to run or cancel.
LEMMA ReadFlowInv ==
  ASSUME FlowInv, Fl!WorkflowAssumption, NEW c \in Fl!Agents, Fl!ReadFlow(c)
  PROVE  FlowInv'
<1> DEFINE where == IF c \in Runs THEN IF Fl!MayRun(flow.status)
      /\ Steps > 0 THEN "begin" ELSE "refused"
                    ELSE IF Fl!MayCancel(flow.status) THEN "cancel" ELSE "refused"
<1>1. /\ agent[c] = "idle"
      /\ mine' = [mine EXCEPT ![c] = flow] /\ wrote' = [wrote EXCEPT ![c] = flow]
      /\ agent' = [agent EXCEPT ![c] = where]
      /\ UNCHANGED <<flow, ran, runsCompleted, overwrites, crashed>>
  BY DEF Fl!ReadFlow, Fl!Go, Fl!flowHist
<1>2. /\ flow \in Copy /\ agent \in [Fl!Agents -> Places]
      /\ mine \in [Fl!Agents -> Copy] /\ wrote \in [Fl!Agents -> Copy]
      /\ ran \in [Runs -> 0..Steps]
      /\ runsCompleted \in Nat /\ overwrites \in Nat /\ crashed \subseteq Fl!Agents
  BY FlowTypes DEF FlowInv
<1>3. where \in Places
  BY DEF Places, Fl!Ended
<1>4. Ready(c, where, flow, StepsOf(c))
  <2>1. StepsOf(c) = 0
    BY <1>1 DEF FlowInv, FlowShape, Ready
  <2>2. (c \in Runs \/ c \in Cancels) /\ ~(c \in Runs /\ c \in Cancels)
    BY DEF Fl!Agents, Fl!WorkflowAssumption
  <2> QED
    BY <2>1, <2>2 DEF Ready, Fl!MayRun, Fl!MayCancel, Fl!Ended, Working
<1> HIDE DEF where
<1>5. Fl!TypeOK'
  <2>1. /\ flow' \in Copy /\ agent' \in [Fl!Agents -> Places]
        /\ mine' \in [Fl!Agents -> Copy] /\ wrote' \in [Fl!Agents -> Copy]
        /\ ran' \in [Runs -> 0..Steps]
        /\ runsCompleted' \in Nat /\ overwrites' \in Nat /\ crashed' \subseteq Fl!Agents
    BY <1>1, <1>2, <1>3
  <2>2. Places = Fl!Ended \cup {"begin", "announce", "execute", "count", "complete", "fail", "cancel"}
    BY DEF Places, Working
  <2> QED
    BY <2>1, <2>2 DEF Fl!TypeOK, Copy, Fl!Agents
<1>6. FlowShape'
  <2> SUFFICES ASSUME NEW d \in Fl!Agents
      PROVE  Ready(d, agent'[d], mine'[d], StepsOf(d)') /\ wrote'[d] = mine'[d]
    BY DEF FlowShape, Fl!Agents, Ready, Fl!Ended
  <2>1. StepsOf(d)' = StepsOf(d)
    BY <1>1 DEF StepsOf
  <2>2. CASE d = c
    BY <1>1, <1>2, <1>4, <2>1, <2>2
  <2>3. CASE d # c
    BY <1>1, <1>2, <2>1, <2>3 DEF FlowInv, FlowShape
  <2> QED
    BY <2>2, <2>3
<1>7. TimesShape' /\ Fl!CompletedRanEverything'
  BY <1>1 DEF FlowInv, TimesShape, Fl!CompletedRanEverything
<1>8. RunnerShape'
  <2>1. \A r \in Runs : agent[r] \notin Fl!Ended => agent'[r] = agent[r]
    BY <1>1, <1>2 DEF Fl!Ended, Fl!Agents
  <2> QED
    BY <1>1, <2>1 DEF FlowInv, RunnerShape, Fl!Ended
<1> QED
  BY <1>5, <1>6, <1>7, <1>8 DEF FlowInv

\* A runner executes one step.
LEMMA ExecuteStepInv ==
  ASSUME FlowInv, Fl!WorkflowAssumption, NEW r \in Runs, Fl!ExecuteStep(r)
  PROVE  FlowInv'
<1>r. r \in Fl!Agents
  BY DEF Fl!Agents
<1>1. /\ agent[r] = "execute" /\ UNCHANGED <<flow, mine, wrote, runsCompleted, overwrites, crashed>>
      /\ \/ ran' = [ran EXCEPT ![r] = ran[r] + 1] /\ agent' = [agent EXCEPT ![r] = "count"]
         \/ agent' = [agent EXCEPT ![r] = "fail"] /\ ran' = ran
  BY DEF Fl!ExecuteStep, Fl!Go, Fl!flowHist
<1>2. /\ flow \in Copy /\ agent \in [Fl!Agents -> Places]
      /\ mine \in [Fl!Agents -> Copy] /\ wrote \in [Fl!Agents -> Copy]
      /\ ran \in [Runs -> 0..Steps]
      /\ runsCompleted \in Nat /\ overwrites \in Nat /\ crashed \subseteq Fl!Agents
  BY FlowTypes DEF FlowInv
<1>3. /\ Ready(r, "execute", mine[r], ran[r]) /\ wrote[r] = mine[r]
      /\ ran[r] < Steps /\ Steps \in Nat /\ ran[r] \in Nat
  BY <1>r, <1>1, <1>2, FlowFacts DEF FlowInv, FlowShape, Ready, StepsOf, Fl!WorkflowAssumption
<1>4. /\ ran' \in [Runs -> 0..Steps] /\ agent' \in [Fl!Agents -> Places]
      /\ agent'[r] \in {"count", "fail"}
      /\ \A d \in Fl!Agents : d # r => agent'[d] = agent[d] /\ StepsOf(d)' = StepsOf(d)
      /\ \A q \in Runs : ran[q] = Steps => ran'[q] = Steps
  BY <1>r, <1>1, <1>2, <1>3 DEF Places, Working, StepsOf
<1>5. Fl!TypeOK'
  <2>2. Places = Fl!Ended \cup {"begin", "announce", "execute", "count", "complete", "fail", "cancel"}
    BY DEF Places, Working
  <2> QED
    BY <1>1, <1>2, <1>4, <2>2 DEF Fl!TypeOK, Copy, Fl!Agents
<1>6. FlowShape'
  <2> SUFFICES ASSUME NEW d \in Fl!Agents
      PROVE  Ready(d, agent'[d], mine'[d], StepsOf(d)') /\ wrote'[d] = mine'[d]
    BY DEF FlowShape, Fl!Agents, Ready, Fl!Ended
  <2>2. CASE d = r
    BY <1>1, <1>3, <1>4, <2>2 DEF Ready, Fl!Ended, Working
  <2>3. CASE d # r
    BY <1>1, <1>4, <2>3 DEF FlowInv, FlowShape
  <2> QED
    BY <2>2, <2>3
<1>7. TimesShape' /\ Fl!CompletedRanEverything'
  BY <1>1, <1>4 DEF FlowInv, TimesShape, Fl!CompletedRanEverything
<1>8. RunnerShape'
  BY <1>1, <1>4 DEF RunnerShape, Fl!Ended
<1> QED
  BY <1>5, <1>6, <1>7, <1>8 DEF FlowInv

\* The process dies in the middle of a run.
LEMMA FlowCrashInv ==
  ASSUME FlowInv, NEW c \in Fl!Agents, Fl!Crash(c)
  PROVE  FlowInv'
<1>1. /\ agent[c] \notin Fl!Ended /\ agent' = [agent EXCEPT ![c] = "crashed"]
      /\ crashed' = crashed \cup {c}
      /\ UNCHANGED <<flow, mine, wrote, ran, runsCompleted, overwrites>>
  BY DEF Fl!Crash, Fl!Go
<1>2. /\ flow \in Copy /\ agent \in [Fl!Agents -> Places]
      /\ mine \in [Fl!Agents -> Copy] /\ wrote \in [Fl!Agents -> Copy]
      /\ ran \in [Runs -> 0..Steps]
      /\ runsCompleted \in Nat /\ overwrites \in Nat /\ crashed \subseteq Fl!Agents
  BY FlowTypes DEF FlowInv
<1>5. Fl!TypeOK'
  <2>1. Places = Fl!Ended \cup {"begin", "announce", "execute", "count", "complete", "fail", "cancel"}
    BY DEF Places, Working
  <2>2. agent' \in [Fl!Agents -> Places]
    BY <1>1, <1>2, <2>1 DEF Fl!Ended
  <2> QED
    BY <1>1, <1>2, <2>1, <2>2 DEF Fl!TypeOK, Copy, Fl!Agents
<1>6. FlowShape'
  <2> SUFFICES ASSUME NEW d \in Fl!Agents
      PROVE  Ready(d, agent'[d], mine'[d], StepsOf(d)') /\ wrote'[d] = mine'[d]
    BY DEF FlowShape, Fl!Agents, Ready, Fl!Ended
  <2>1. StepsOf(d)' = StepsOf(d)
    BY <1>1 DEF StepsOf
  <2>2. CASE d = c
    <3>1. agent'[d] = "crashed" /\ mine'[d] = wrote'[d]
      BY <1>1, <1>2, <2>2 DEF FlowInv, FlowShape
    <3> QED
      BY <3>1 DEF Ready, Fl!Ended, Working
  <2>3. CASE d # c
    BY <1>1, <1>2, <2>1, <2>3 DEF FlowInv, FlowShape
  <2> QED
    BY <2>2, <2>3
<1>7. TimesShape' /\ Fl!CompletedRanEverything' /\ RunnerShape'
  BY <1>1 DEF FlowInv, TimesShape, Fl!CompletedRanEverything, RunnerShape
<1> QED
  BY <1>5, <1>6, <1>7 DEF FlowInv

\* The saves of a run.
LEMMA RunSavesInv ==
  ASSUME FlowInv, Fl!WorkflowAssumption, NEW r \in Runs,
         \/ Fl!MarkRunning(r) \/ Fl!SaveCurrentStep(r) \/ Fl!CountStep(r)
         \/ Fl!Complete(r) \/ Fl!Fail(r)
  PROVE  FlowInv'
<1>r. r \in Fl!Agents /\ r \notin Cancels
  BY DEF Fl!Agents, Fl!WorkflowAssumption
<1>1. /\ mine[r] \in Copy /\ agent[r] \in Places /\ Ready(r, agent[r], mine[r], ran[r])
      /\ StepsOf(r) = ran[r] /\ ran[r] \in 0..Steps /\ Steps \in Nat /\ runsCompleted \in Nat
  BY <1>r, FlowFacts DEF Fl!WorkflowAssumption
<1>2. ASSUME NEW s \in Fl!WorkflowStatus PROVE [mine[r] EXCEPT !.status = s] \in Copy
  BY <1>1 DEF Copy
<1>3. CASE Fl!MarkRunning(r)
  <2> DEFINE copy == [mine[r] EXCEPT !.status = "RUNNING"]
  <2>1. copy \in Copy /\ copy.status = "RUNNING"
    BY <1>1, <1>2 DEF Fl!WorkflowStatus, Copy
  <2>2. /\ agent[r] = "begin" /\ Fl!SaveFlow(r, copy) /\ Fl!Go(r, "announce")
        /\ UNCHANGED <<ran, crashed>> /\ runsCompleted' = runsCompleted + 0
    BY <1>1, <1>3 DEF Fl!MarkRunning
  <2> HIDE DEF copy
  <2>3. Ready(r, "announce", copy, ran[r])
    BY <1>r, <1>1, <2>1, <2>2 DEF Ready, Working, Fl!Ended
  <2>4. agent[r] \notin Fl!Ended /\ "announce" \in Places /\ "announce" \notin Fl!Ended
    BY <2>2 DEF Fl!Ended, Places, Working
  <2> QED
    BY <1>r, <1>1, <2>1, <2>2, <2>3, <2>4, SaveFlowInv
<1>4. CASE Fl!SaveCurrentStep(r)
  <2>2. /\ agent[r] = "announce" /\ Fl!SaveFlow(r, mine[r]) /\ Fl!Go(r, "execute")
        /\ UNCHANGED <<ran, crashed>> /\ runsCompleted' = runsCompleted + 0
    BY <1>1, <1>4 DEF Fl!SaveCurrentStep
  <2>1. mine[r].status = "RUNNING"
    BY <1>1, <2>2 DEF Ready, Working
  <2>3. Ready(r, "execute", mine[r], ran[r])
    BY <1>r, <1>1, <2>1, <2>2 DEF Ready, Working, Fl!Ended
  <2>4. agent[r] \notin Fl!Ended /\ "execute" \in Places /\ "execute" \notin Fl!Ended
    BY <2>2 DEF Fl!Ended, Places, Working
  <2> QED
    BY <1>r, <1>1, <2>1, <2>2, <2>3, <2>4, SaveFlowInv
<1>5. CASE Fl!CountStep(r)
  <2> DEFINE copy == [mine[r] EXCEPT !.steps = ran[r]]
             where == IF ran[r] = Steps THEN "complete" ELSE "announce"
  <2>2. /\ agent[r] = "count" /\ Fl!SaveFlow(r, copy) /\ Fl!Go(r, where)
        /\ UNCHANGED <<ran, crashed>> /\ runsCompleted' = runsCompleted + 0
    BY <1>1, <1>5 DEF Fl!CountStep
  <2>1. copy \in Copy /\ copy.status = "RUNNING" /\ copy.steps = ran[r]
    BY <1>1, <2>2 DEF Ready, Working, Copy
  <2> HIDE DEF copy
  <2>3. Ready(r, where, copy, ran[r])
    BY <1>r, <1>1, <2>1, <2>2 DEF Ready, Working, Fl!Ended
  <2>4. agent[r] \notin Fl!Ended /\ where \in Places /\ where \notin Fl!Ended
    BY <2>2 DEF Fl!Ended, Places, Working
  <2> HIDE DEF where
  <2> QED
    BY <1>r, <1>1, <2>1, <2>2, <2>3, <2>4, SaveFlowInv
<1>6. CASE Fl!Complete(r)
  <2> DEFINE copy == [mine[r] EXCEPT !.status = "COMPLETED"]
  <2>2. /\ agent[r] = "complete" /\ Fl!SaveFlow(r, copy) /\ Fl!Go(r, "done")
        /\ UNCHANGED <<ran, crashed>> /\ runsCompleted' = runsCompleted + 1
    BY <1>6 DEF Fl!Complete
  <2>1. /\ copy \in Copy /\ copy.status = "COMPLETED" /\ copy.steps = Steps
        /\ ran[r] = Steps
    BY <1>1, <1>2, <2>2 DEF Fl!WorkflowStatus, Copy, Ready
  <2> HIDE DEF copy
  <2>3. Ready(r, "done", copy, ran[r])
    BY <1>r, <1>1, <2>1, <2>2 DEF Ready, Working, Fl!Ended
  <2>4. agent[r] \notin Fl!Ended /\ "done" \in Places
    BY <2>2 DEF Fl!Ended, Places, Working
  <2> QED
    BY <1>r, <1>1, <2>1, <2>2, <2>3, <2>4, SaveFlowInv
<1>7. CASE Fl!Fail(r)
  <2> DEFINE copy == [mine[r] EXCEPT !.status = "FAILED"]
  <2>2. /\ agent[r] = "fail" /\ Fl!SaveFlow(r, copy) /\ Fl!Go(r, "done")
        /\ UNCHANGED <<ran, crashed>> /\ runsCompleted' = runsCompleted + 0
    BY <1>1, <1>7 DEF Fl!Fail
  <2>1. copy \in Copy /\ copy.status = "FAILED"
    BY <1>1, <1>2 DEF Fl!WorkflowStatus, Copy
  <2> HIDE DEF copy
  <2>3. Ready(r, "done", copy, ran[r])
    BY <1>r, <1>1, <2>1, <2>2 DEF Ready, Working, Fl!Ended
  <2>4. agent[r] \notin Fl!Ended /\ "done" \in Places
    BY <2>2 DEF Fl!Ended, Places, Working
  <2> QED
    BY <1>r, <1>1, <2>1, <2>2, <2>3, <2>4, SaveFlowInv
<1> QED
  BY <1>3, <1>4, <1>5, <1>6, <1>7

\* A cancellation is written over the row it read.
LEMMA CancelWorkflowInv ==
  ASSUME FlowInv, Fl!WorkflowAssumption, NEW c \in Cancels, Fl!CancelWorkflow(c)
  PROVE  FlowInv'
<1> DEFINE copy == [mine[c] EXCEPT !.status = "CANCELLED"]
<1>r. c \in Fl!Agents /\ c \notin Runs
  BY DEF Fl!Agents, Fl!WorkflowAssumption
<1>1. mine[c] \in Copy /\ StepsOf(c) = 0 /\ runsCompleted \in Nat
  BY <1>r, FlowFacts DEF StepsOf
<1>2. /\ agent[c] = "cancel" /\ Fl!SaveFlow(c, copy) /\ Fl!Go(c, "done")
      /\ UNCHANGED <<ran, crashed>> /\ runsCompleted' = runsCompleted + 0
  BY <1>1 DEF Fl!CancelWorkflow
<1>3. copy \in Copy /\ copy.status = "CANCELLED"
  BY <1>1 DEF Fl!WorkflowStatus, Copy
<1> HIDE DEF copy
<1>4. Ready(c, "done", copy, 0)
  BY <1>r, <1>3 DEF Ready, Working, Fl!Ended
<1>5. agent[c] \notin Fl!Ended /\ "done" \in Places
  BY <1>2 DEF Fl!Ended, Places, Working
<1> QED
  BY <1>r, <1>1, <1>2, <1>3, <1>4, <1>5, SaveFlowInv

\* A behaviour of the workflows keeps their invariant.
LEMMA FlowInvariance ==
  ASSUME Fl!WorkflowAssumption
  PROVE  Fl!Spec => []FlowInv
<1>1. Fl!Init => FlowInv
  <2> SUFFICES ASSUME Fl!Init PROVE FlowInv
    OBVIOUS
  <2>1. /\ Fl!Fresh \in Copy /\ Fl!Fresh.status = "PENDING" /\ "idle" \in Places
        /\ 0 \in 0..Steps
    BY DEF Fl!Fresh, Copy, Fl!WorkflowStatus, Places, Fl!Ended, Fl!WorkflowAssumption
  <2>2. Fl!TypeOK
    BY <2>1, FlowTypes DEF Fl!Init
  <2>3. FlowShape
    BY <2>1 DEF Fl!Init, FlowShape, Ready, StepsOf, Fl!Ended, Working
  <2>4. TimesShape /\ RunnerShape /\ Fl!CompletedRanEverything
    BY <2>1 DEF Fl!Init, TimesShape, RunnerShape, Fl!CompletedRanEverything
  <2> QED
    BY <2>2, <2>3, <2>4 DEF FlowInv
<1>2. FlowInv /\ [Fl!Next]_(Fl!flowVars) => FlowInv'
  <2> SUFFICES ASSUME FlowInv, [Fl!Next]_(Fl!flowVars) PROVE FlowInv'
    OBVIOUS
  <2>1. CASE Fl!Next
    <3> SUFFICES ASSUME NEW c \in Fl!Agents, Fl!Step(c) \/ Fl!Crash(c) PROVE FlowInv'
      BY <2>1 DEF Fl!Next
    <3> QED
      BY ReadFlowInv, RunSavesInv, ExecuteStepInv, CancelWorkflowInv, FlowCrashInv DEF Fl!Step
  <2>2. CASE UNCHANGED Fl!flowVars
    BY <2>2 DEF Fl!flowVars, Fl!flowHist, FlowInv, Fl!TypeOK, Fl!Agents, Fl!Ended, FlowShape,
       StepsOf, Ready, TimesShape, RunnerShape, Fl!CompletedRanEverything
  <2> QED
    BY <2>1, <2>2
<1> QED
  BY <1>1, <1>2, PTL DEF Fl!Spec

\* A workflow that is completed was executed from the first step to the last by one run.
THEOREM CompletedWhole ==
  ASSUME Fl!WorkflowAssumption
  PROVE  Fl!Spec => []Fl!CompletedRanEverything
<1>1. FlowInv => Fl!CompletedRanEverything
  BY DEF FlowInv
<1> QED
  BY <1>1, FlowInvariance, PTL

\* It is completed once, and once more for each save that overwrote what another wrote.
THEOREM CompletedOnceEach ==
  ASSUME Fl!WorkflowAssumption
  PROVE  Fl!Spec => []Fl!CompletedOnce
<1>1. FlowInv => Fl!CompletedOnce
  BY FlowTypes DEF FlowInv, TimesShape, Fl!CompletedOnce
<1> QED
  BY <1>1, FlowInvariance, PTL

\* No workflow stays running when its runs have ended and none was cut off.
THEOREM RunningHasRunner ==
  ASSUME Fl!WorkflowAssumption
  PROVE  Fl!Spec => []Fl!NotLeftRunning
<1>1. FlowInv => Fl!NotLeftRunning
  BY DEF FlowInv, RunnerShape, Fl!NotLeftRunning
<1> QED
  BY <1>1, FlowInvariance, PTL

-----------------------------------------------------------------------------
(* Communities.                                                             *)

\* A membership has a row, deleted or not, once somebody joined; a leave or a ban under
\* way has found one; and who was banned is marked so.
SeatShape ==
    /\ \A u \in Users : u \in gone => seat[u] # "none"
    /\ \A u \in Users : u \in bannedOnce => seat[u] = "banned"
    /\ \A m \in Members : place[m] = "write" /\ asks[m].op # "join" => seat[asks[m].user] # "none"

\* What each request has still to add to the member count.
Outstanding == [m \in Members |-> IF place[m] # "count" THEN 0
                                  ELSE IF asks[m].op = "join" THEN 1 ELSE -1]

MembersShape ==
    (\A m \in Members : place[m] # "stopped") =>
        count + SumFunctionOnSet(Outstanding, Members) = 1 + Cardinality(Cm!Active) - repeats

SeatInv == Cm!TypeOK /\ SeatShape /\ MembersShape

\* Finite sets and their sizes are those of the library.
LEMMA CommunityLibrary ==
  /\ \A S : Cm!IsFiniteSet(S) <=> IsFiniteSet(S)
  /\ \A S : Cm!Cardinality(S) = Cardinality(S)
BY DEF Cm!IsFiniteSet, IsFiniteSet, Cm!Cardinality, Cardinality

\* Members are finitely many, and what each still owes the count is a number.
LEMMA SeatFacts ==
  ASSUME SeatInv, Cm!CommunityAssumption
  PROVE  /\ IsFiniteSet(Users) /\ IsFiniteSet(Members)
         /\ IsFiniteSet(Cm!Active) /\ Cardinality(Cm!Active) \in Nat
         /\ \A m \in Members : Outstanding[m] \in Int
         /\ SumFunctionOnSet(Outstanding, Members) \in Int
         /\ count \in Int /\ repeats \in Nat
<1>1. IsFiniteSet(Users) /\ IsFiniteSet(Members)
  BY CommunityLibrary DEF Cm!CommunityAssumption
<1>2. Cm!Active \in SUBSET Users
  BY DEF Cm!Active
<1>3. IsFiniteSet(Cm!Active) /\ Cardinality(Cm!Active) \in Nat
  BY <1>1, <1>2, FS_Subset, FS_CardinalityType
<1>4. \A m \in Members : Outstanding[m] \in Int
  BY DEF Outstanding
<1> QED
  BY <1>1, <1>3, <1>4, SumInt DEF SeatInv, Cm!TypeOK

\* A request goes to another place.
LEMMA OutstandingMoves ==
  ASSUME SeatInv, Cm!CommunityAssumption, NEW m \in Members, NEW where,
         place' = [place EXCEPT ![m] = where],
         \A q \in Members : q # m => asks'[q] = asks[q]
  PROVE  /\ SumFunctionOnSet(Outstanding', Members)
                = SumFunctionOnSet(Outstanding, Members) - Outstanding[m] + Outstanding'[m]
         /\ Outstanding'[m] = (IF where # "count" THEN 0
                               ELSE IF asks'[m].op = "join" THEN 1 ELSE -1)
         /\ Outstanding[m] \in Int /\ Outstanding'[m] \in Int
<1>1. place'[m] = where /\ \A q \in Members \ {m} : place'[q] = place[q] /\ asks'[q] = asks[q]
  BY DEF SeatInv, Cm!TypeOK
<1>2. \A q \in Members : Outstanding[q] \in Int /\ Outstanding'[q] \in Int
  BY DEF Outstanding
<1>3. \A q \in Members \ {m} : Outstanding'[q] = Outstanding[q]
  BY <1>1 DEF Outstanding
<1>4. Outstanding'[m] = IF where # "count" THEN 0 ELSE IF asks'[m].op = "join" THEN 1 ELSE -1
  BY <1>1 DEF Outstanding
<1> QED
  BY <1>2, <1>3, <1>4, SumUpdate, SeatFacts

-----------------------------------------------------------------------------
\* A request finds the membership it is about.
LEMMA AskInv ==
  ASSUME SeatInv, Cm!CommunityAssumption, NEW m \in Members, Cm!Ask(m)
  PROVE  SeatInv'
<1>1. PICK a \in Cm!Asks :
        /\ asks' = [asks EXCEPT ![m] = a]
        /\ place' = [place EXCEPT ![m] = IF (a.op = "join") = Cm!Found(a.user) THEN "refused" ELSE "write"]
  BY DEF Cm!Ask, Cm!Go
<1>2. place[m] = "idle" /\ UNCHANGED <<seat, gone, count, repeats, bannedOnce, stopped>>
  BY DEF Cm!Ask, Cm!seatHist
<1>3. Cm!TypeOK'
  BY <1>1, <1>2 DEF SeatInv, Cm!TypeOK, Cm!Asks, Cm!Ended
<1>4. SeatShape'
  <2> SUFFICES ASSUME NEW q \in Members, place'[q] = "write", asks'[q].op # "join"
      PROVE  seat[asks'[q].user] # "none"
    BY <1>2 DEF SeatInv, SeatShape
  <2>1. CASE q = m
    <3>1. asks'[q] = a /\ place'[q] = IF (a.op = "join") = Cm!Found(a.user) THEN "refused" ELSE "write"
      BY <1>1, <2>1 DEF SeatInv, Cm!TypeOK
    <3>2. a.op # "join"
      BY <3>1
    <3>3. CASE ~Cm!Found(a.user)
      <4>1. (a.op = "join") = Cm!Found(a.user)
        BY <3>2, <3>3 DEF Cm!Found
      <4> QED
        BY <3>1, <4>1
    <3>4. CASE Cm!Found(a.user)
      BY <3>1, <3>4 DEF Cm!Found
    <3> QED
      BY <3>3, <3>4
  <2>2. CASE q # m
    BY <1>1, <2>2 DEF SeatInv, Cm!TypeOK, SeatShape
  <2> QED
    BY <2>1, <2>2
<1>5. MembersShape'
  <2> SUFFICES ASSUME \A q \in Members : place'[q] # "stopped"
      PROVE  count' + SumFunctionOnSet(Outstanding', Members)
                = 1 + Cardinality(Cm!Active') - repeats'
    BY DEF MembersShape, Cm!Active
  <2>1. \A q \in Members : place[q] # "stopped"
    BY <1>1, <1>2 DEF SeatInv, Cm!TypeOK
  <2>2. SumFunctionOnSet(Outstanding', Members) = SumFunctionOnSet(Outstanding, Members)
    <3>1. \A q \in Members : Outstanding'[q] = Outstanding[q]
      BY <1>1, <1>2 DEF Outstanding, SeatInv, Cm!TypeOK
    <3> QED
      BY <3>1, SeatFacts, SumEqual
  <2>3. Cm!Active' = Cm!Active
    BY <1>2 DEF Cm!Active
  <2> QED
    BY <1>2, <2>1, <2>2, <2>3 DEF SeatInv, MembersShape
<1> QED
  BY <1>3, <1>4, <1>5 DEF SeatInv

\* A new membership is inserted.
LEMMA InsertMembershipInv ==
  ASSUME SeatInv, Cm!CommunityAssumption, NEW m \in Members, Cm!InsertMembership(m)
  PROVE  SeatInv'
<1> DEFINE u == asks[m].user
<1>1. place[m] = "write" /\ asks[m].op = "join" /\ u \in Users
      /\ UNCHANGED <<gone, count, asks, repeats, bannedOnce, stopped>>
  BY DEF Cm!InsertMembership, Cm!seatHist, SeatInv, Cm!TypeOK, Cm!Asks
<1>2. CASE seat[u] = "none"
  <2>1. seat' = [seat EXCEPT ![u] = "active"] /\ place' = [place EXCEPT ![m] = "count"]
    BY <1>2 DEF Cm!InsertMembership, Cm!Go, Cm!User
  <2> HIDE DEF u
  <2>2. Cm!TypeOK'
    BY <1>1, <2>1 DEF SeatInv, Cm!TypeOK, Cm!Asks, Cm!Ended
  <2>3. SeatShape'
    BY <1>1, <1>2, <2>1 DEF SeatInv, Cm!TypeOK, SeatShape, Cm!Asks
  <2>4. u \notin Cm!Active /\ Cm!Active' = Cm!Active \cup {u}
    BY <1>1, <1>2, <2>1 DEF SeatInv, Cm!TypeOK, SeatShape, Cm!Active
  <2>5. Cardinality(Cm!Active') = Cardinality(Cm!Active) + 1
    BY <2>4, FS_AddElement, SeatFacts
  <2>6. Outstanding[m] = 0
    BY <1>1 DEF Outstanding
  <2>7. SumFunctionOnSet(Outstanding', Members) = SumFunctionOnSet(Outstanding, Members) + 1
    <3>1. \A q \in Members : q # m => asks'[q] = asks[q]
      BY <1>1
    <3>2. /\ SumFunctionOnSet(Outstanding', Members)
                = SumFunctionOnSet(Outstanding, Members) - Outstanding[m] + Outstanding'[m]
          /\ Outstanding'[m] = (IF "count" # "count" THEN 0
                                ELSE IF asks'[m].op = "join" THEN 1 ELSE -1)
      BY <2>1, <3>1, OutstandingMoves
    <3>3. Outstanding'[m] = 1
      BY <1>1, <3>2
    <3> QED
      BY <2>6, <3>2, <3>3, SeatFacts
  <2>8. (\A q \in Members : place'[q] # "stopped") => \A q \in Members : place[q] # "stopped"
    BY <1>1, <2>1 DEF SeatInv, Cm!TypeOK
  <2>9. MembersShape'
    <3>1. count \in Int /\ repeats \in Nat /\ Cardinality(Cm!Active) \in Nat
          /\ SumFunctionOnSet(Outstanding, Members) \in Int
      BY SeatFacts
    <3> QED
      BY <1>1, <2>5, <2>7, <2>8, <3>1 DEF SeatInv, MembersShape, Cm!Active
  <2> QED
    BY <2>2, <2>3, <2>9 DEF SeatInv
<1>3. CASE seat[u] # "none"
  <2>1. place' = [place EXCEPT ![m] = "refused"] /\ UNCHANGED seat
    BY <1>3 DEF Cm!InsertMembership, Cm!Go, Cm!User
  <2> HIDE DEF u
  <2>2. Cm!TypeOK'
    BY <1>1, <2>1 DEF SeatInv, Cm!TypeOK, Cm!Asks, Cm!Ended
  <2>3. SeatShape'
    BY <1>1, <2>1 DEF SeatInv, Cm!TypeOK, SeatShape
  <2>4. MembersShape'
    <3>1. \A q \in Members : Outstanding'[q] = Outstanding[q]
      BY <1>1, <2>1 DEF Outstanding, SeatInv, Cm!TypeOK
    <3>2. SumFunctionOnSet(Outstanding', Members) = SumFunctionOnSet(Outstanding, Members)
      BY <3>1, SeatFacts, SumEqual
    <3>3. (\A q \in Members : place'[q] # "stopped") => \A q \in Members : place[q] # "stopped"
      BY <1>1, <2>1 DEF SeatInv, Cm!TypeOK
    <3>4. Cm!Active' = Cm!Active
      BY <1>1, <2>1 DEF Cm!Active
    <3> QED
      BY <1>1, <2>1, <3>2, <3>3, <3>4 DEF SeatInv, MembersShape
  <2> QED
    BY <2>2, <2>3, <2>4 DEF SeatInv
<1> QED
  BY <1>2, <1>3

\* A membership is left or banned.
LEMMA EndMembershipInv ==
  ASSUME SeatInv, Cm!CommunityAssumption, NEW m \in Members, Cm!EndMembership(m)
  PROVE  SeatInv'
<1> DEFINE u == asks[m].user
<1>1. /\ place[m] = "write" /\ asks[m].op \in {"leave", "ban"} /\ u \in Users
      /\ place' = [place EXCEPT ![m] = "count"]
      /\ repeats' = IF u \in Cm!Active THEN repeats ELSE repeats + 1
      /\ UNCHANGED <<count, asks, stopped>>
  BY DEF Cm!EndMembership, Cm!Go, Cm!User, SeatInv, Cm!TypeOK, Cm!Asks
<1>2. \/ gone' = gone \cup {u} /\ UNCHANGED <<seat, bannedOnce>>
      \/ /\ seat' = [seat EXCEPT ![u] = "banned"] /\ bannedOnce' = bannedOnce \cup {u}
         /\ UNCHANGED gone
  BY DEF Cm!EndMembership, Cm!User
<1>3. seat[u] # "none"
  BY <1>1 DEF SeatInv, SeatShape
<1> HIDE DEF u
<1>4. Cm!TypeOK'
  BY <1>1, <1>2 DEF SeatInv, Cm!TypeOK, Cm!Asks, Cm!Ended
<1>5. SeatShape'
  BY <1>1, <1>2, <1>3 DEF SeatInv, Cm!TypeOK, SeatShape, Cm!Asks
<1>6. Cm!Active' = Cm!Active \ {u}
  BY <1>1, <1>2 DEF SeatInv, Cm!TypeOK, Cm!Active
<1>7. Cardinality(Cm!Active') = IF u \in Cm!Active THEN Cardinality(Cm!Active) - 1
                                ELSE Cardinality(Cm!Active)
  BY <1>6, FS_RemoveElement, SeatFacts
<1>8. SumFunctionOnSet(Outstanding', Members) = SumFunctionOnSet(Outstanding, Members) - 1
  <2>1. Outstanding[m] = 0
    BY <1>1 DEF Outstanding
  <2>2. asks'[m].op # "join"
    BY <1>1
  <2> QED
    <3>1. \A q \in Members : q # m => asks'[q] = asks[q]
      BY <1>1
    <3>2. /\ SumFunctionOnSet(Outstanding', Members)
                = SumFunctionOnSet(Outstanding, Members) - Outstanding[m] + Outstanding'[m]
          /\ Outstanding'[m] = (IF "count" # "count" THEN 0
                                ELSE IF asks'[m].op = "join" THEN 1 ELSE -1)
      BY <1>1, <3>1, OutstandingMoves
    <3>3. Outstanding'[m] = -1
      BY <2>2, <3>2
    <3> QED
      BY <2>1, <3>2, <3>3, SeatFacts
<1>9. MembersShape'
  <2>1. (\A q \in Members : place'[q] # "stopped") => \A q \in Members : place[q] # "stopped"
    BY <1>1 DEF SeatInv, Cm!TypeOK
  <2>2. count \in Int /\ repeats \in Nat /\ Cardinality(Cm!Active) \in Nat
        /\ SumFunctionOnSet(Outstanding, Members) \in Int
    BY SeatFacts
  <2> QED
    BY <1>1, <1>7, <1>8, <2>1, <2>2 DEF SeatInv, MembersShape, Cm!Active
<1> QED
  BY <1>4, <1>5, <1>9 DEF SeatInv

\* The count follows the membership by one.
LEMMA CountMemberInv ==
  ASSUME SeatInv, Cm!CommunityAssumption, NEW m \in Members, Cm!CountMember(m)
  PROVE  SeatInv'
<1>1. /\ place[m] = "count"
      /\ count' = IF asks[m].op = "join" THEN count + 1 ELSE count - 1
      /\ place' = [place EXCEPT ![m] = "done"]
      /\ UNCHANGED <<seat, gone, asks, repeats, bannedOnce, stopped>>
  BY DEF Cm!CountMember, Cm!Go, Cm!seatHist
<1>2. Cm!TypeOK'
  BY <1>1 DEF SeatInv, Cm!TypeOK, Cm!Ended, Cm!Asks
<1>3. SeatShape'
  BY <1>1 DEF SeatInv, Cm!TypeOK, SeatShape
<1>4. SumFunctionOnSet(Outstanding', Members) = SumFunctionOnSet(Outstanding, Members) - Outstanding[m]
  <2>1. \A q \in Members : q # m => asks'[q] = asks[q]
    BY <1>1
  <2>2. /\ SumFunctionOnSet(Outstanding', Members)
              = SumFunctionOnSet(Outstanding, Members) - Outstanding[m] + Outstanding'[m]
        /\ Outstanding'[m] = (IF "done" # "count" THEN 0
                              ELSE IF asks'[m].op = "join" THEN 1 ELSE -1)
        /\ Outstanding[m] \in Int
    BY <1>1, <2>1, OutstandingMoves
  <2>3. Outstanding'[m] = 0
    BY <2>2
  <2> QED
    BY <2>2, <2>3, SeatFacts
<1>5. count' = count + Outstanding[m] /\ Outstanding[m] \in Int
  BY <1>1, SeatFacts DEF Outstanding
<1>6. MembersShape'
  <2>1. (\A q \in Members : place'[q] # "stopped") => \A q \in Members : place[q] # "stopped"
    BY <1>1 DEF SeatInv, Cm!TypeOK
  <2>2. count \in Int /\ repeats \in Nat /\ Cardinality(Cm!Active) \in Nat
        /\ SumFunctionOnSet(Outstanding, Members) \in Int
    BY SeatFacts
  <2>3. Cm!Active' = Cm!Active
    BY <1>1 DEF Cm!Active
  <2> QED
    BY <1>1, <1>4, <1>5, <2>1, <2>2, <2>3 DEF SeatInv, MembersShape
<1> QED
  BY <1>2, <1>3, <1>6 DEF SeatInv

\* The process stops between the membership and the count.
LEMMA StopInv ==
  ASSUME SeatInv, Cm!CommunityAssumption, NEW m \in Members, Cm!Stop(m)
  PROVE  SeatInv'
<1>1. /\ stopped' = stopped \cup {m} /\ place' = [place EXCEPT ![m] = "stopped"]
      /\ UNCHANGED <<seat, gone, count, asks, repeats, bannedOnce>>
  BY DEF Cm!Stop, Cm!Go
<1>2. Cm!TypeOK'
  BY <1>1 DEF SeatInv, Cm!TypeOK, Cm!Ended, Cm!Asks
<1>3. SeatShape'
  BY <1>1 DEF SeatInv, Cm!TypeOK, SeatShape
<1>4. MembersShape'
  BY <1>1 DEF SeatInv, Cm!TypeOK, MembersShape
<1> QED
  BY <1>2, <1>3, <1>4 DEF SeatInv

\* A behaviour of the communities keeps their invariant.
LEMMA SeatInvariance ==
  ASSUME Cm!CommunityAssumption
  PROVE  Cm!Spec => []SeatInv
<1>1. Cm!Init => SeatInv
  <2> SUFFICES ASSUME Cm!Init PROVE SeatInv
    OBVIOUS
  <2>1. Cm!Asks # {}
    <3>1. PICK u : u \in Users
      BY DEF Cm!CommunityAssumption
    <3>2. [op |-> "join", user |-> u] \in Cm!Asks
      BY <3>1 DEF Cm!Asks
    <3> QED
      BY <3>2
  <2>2. Cm!TypeOK
    BY <2>1 DEF Cm!Init, Cm!TypeOK, Cm!Ended
  <2>3. SeatShape
    BY DEF Cm!Init, SeatShape
  <2>4. MembersShape
    <3>1. \A m \in Members : Outstanding[m] = 0
      BY DEF Cm!Init, Outstanding
    <3>2. IsFiniteSet(Members)
      BY CommunityLibrary DEF Cm!CommunityAssumption
    <3>3. SumFunctionOnSet(Outstanding, Members) = 0
      BY <3>1, <3>2, SumZero
    <3>4. Cm!Active = {}
      BY DEF Cm!Init, Cm!Active
    <3> QED
      BY <3>3, <3>4, FS_EmptySet DEF Cm!Init, MembersShape
  <2> QED
    BY <2>2, <2>3, <2>4 DEF SeatInv
<1>2. SeatInv /\ [Cm!Next]_(Cm!seatVars) => SeatInv'
  <2> SUFFICES ASSUME SeatInv, [Cm!Next]_(Cm!seatVars) PROVE SeatInv'
    OBVIOUS
  <2>1. CASE Cm!Next
    BY <2>1, AskInv, InsertMembershipInv, EndMembershipInv, CountMemberInv, StopInv DEF Cm!Next
  <2>2. CASE UNCHANGED Cm!seatVars
    <3>1. UNCHANGED <<seat, gone, count, place, asks, repeats, bannedOnce, stopped>>
      BY <2>2 DEF Cm!seatVars, Cm!seatHist
    <3>2. Outstanding' = Outstanding /\ Cm!Active' = Cm!Active
      BY <3>1 DEF Outstanding, Cm!Active
    <3> QED
      BY <3>1, <3>2 DEF SeatInv, Cm!TypeOK, Cm!Ended, Cm!Asks, SeatShape, MembersShape
  <2> QED
    BY <2>1, <2>2
<1> QED
  BY <1>1, <1>2, PTL DEF Cm!Spec

\* The member count is the owner and the active members, short by one for each time
\* somebody left or was banned who was no longer active.
THEOREM MembersCounted ==
  ASSUME Cm!CommunityAssumption
  PROVE  Cm!Spec => []Cm!CountExplained
<1>1. SeatInv => Cm!CountExplained
  <2> SUFFICES ASSUME SeatInv, \A m \in Members : place[m] \in Cm!Ended \ {"stopped"}
      PROVE  count = 1 + Cardinality(Cm!Active) - repeats
    BY CommunityLibrary DEF Cm!CountExplained
  <2>1. \A m \in Members : Outstanding[m] = 0
    BY DEF Outstanding, Cm!Ended
  <2>2. SumFunctionOnSet(Outstanding, Members) = 0
    BY <2>1, SumZero, SeatFacts
  <2>3. \A m \in Members : place[m] # "stopped"
    OBVIOUS
  <2> QED
    BY <2>2, <2>3, SeatFacts DEF SeatInv, MembersShape
<1> QED
  BY <1>1, SeatInvariance, PTL

\* Who was banned is not active again.
THEOREM BannedForGood ==
  ASSUME Cm!CommunityAssumption
  PROVE  Cm!Spec => []Cm!BannedStaysOut
<1>1. SeatInv => Cm!BannedStaysOut
  BY DEF SeatInv, SeatShape, Cm!BannedStaysOut, Cm!Active
<1> QED
  BY <1>1, SeatInvariance, PTL

-----------------------------------------------------------------------------
(* Rides.                                                                   *)

\* A request that saves has read a ride that exists and allowed it.
RideCalls ==
    \A s \in Slots :
        /\ slot[s] \in {"read", "save"} => wish[s].op # "refer" /\ ride.status # "none"
        /\ slot[s] = "save" => Ri!Allowed(wish[s], seen[s]) /\ seen[s].status # "none"

\* What was compared or assigned is in the row, or a stale save lost it.
RideCounts ==
    /\ \A p \in Ri!Sides : wrong[p] <= MaxTries * stale + ride.tries[p]
    /\ ride.status = "none" => \A p \in Ri!Sides : wrong[p] = 0
    /\ assigned <= stale + (IF ride.status \in {"none", "REQUESTED"} THEN 0 ELSE 1)

\* Deposits that the calls under way may still make to each party.
RewardsDue == [p \in {"referrer", "referee"} |->
            [s \in Slots |-> IF slot[s] = "referrer" \/ slot[s] = p THEN 1 ELSE 0]]

RewardShape ==
    \A p \in {"referrer", "referee"} :
        rewards[p] + SumFunctionOnSet(RewardsDue[p], Slots) <= completions

RideInv == Ri!TypeOK /\ RideCalls /\ RideCounts /\ RewardShape

\* Finite sets are those of the library.
LEMMA RideLibrary == \A S : Ri!IsFiniteSet(S) <=> IsFiniteSet(S)
BY DEF Ri!IsFiniteSet, IsFiniteSet

\* What the assumption says of the constants.
LEMMA RideFacts ==
  ASSUME Ri!RideAssumption
  PROVE  /\ IsFiniteSet(Slots)
         /\ MaxTries \in Nat /\ MaxTries > 0 /\ NoDriver \notin Drivers
         /\ \A m \in Menus : m \subseteq Ri!Wishes
BY RideLibrary DEF Ri!RideAssumption

\* What a request on a ride may be.
LEMMA WishFacts ==
  ASSUME NEW w \in Ri!Wishes
  PROVE  /\ w.op \in {"assign", "status", "pin", "wait", "refer"}
         /\ w.op = "assign" => w.driver \in Drivers
         /\ w.op = "status" => w.to \in Ri!Status \ {"none"}
         /\ w.op = "pin" => w.side \in Ri!Sides /\ w.right \in BOOLEAN
         /\ w.op = "wait" => w.odd \in BOOLEAN
BY DEF Ri!Wishes

\* What a request makes of the ride that it read.
LEMMA ChangedRide ==
  ASSUME Ri!RideAssumption, NEW w \in Ri!Wishes, w.op # "refer", NEW r \in Ri!Rows,
         Ri!Allowed(w, r), ~Ri!NotANumber(w)
  PROVE  /\ Ri!Changed(w, r) \in Ri!Rows
         /\ \A p \in Ri!Sides : Ri!Changed(w, r).tries[p] =
                IF w.op # "pin" \/ p # w.side THEN r.tries[p]
                ELSE IF w.right THEN 0 ELSE r.tries[p] + 1
         /\ w.op = "assign" => /\ r.status = "REQUESTED"
                               /\ Ri!Changed(w, r).status = "DRIVER_ASSIGNED"
         /\ Ri!Changed(w, r).status \in {"none", "REQUESTED"}
                => r.status \in {"none", "REQUESTED"}
         /\ Ri!Changed(w, r).status = "none" => r.status = "none"
<1>0. /\ r.status \in Ri!Status \ {"RIDE_COMPLETED"} /\ r.driver \in Drivers \cup {NoDriver}
      /\ r.tries \in [Ri!Sides -> 0..MaxTries] /\ r.verified \in SUBSET Ri!Sides
      /\ r = [status |-> r.status, driver |-> r.driver, tries |-> r.tries, verified |-> r.verified]
  BY DEF Ri!Rows
<1>1. CASE w.op = "assign"
  <2>1. Ri!Changed(w, r) = [r EXCEPT !.driver = w.driver, !.status = "DRIVER_ASSIGNED"]
        /\ r.status = "REQUESTED" /\ w.driver \in Drivers
    BY <1>1, WishFacts DEF Ri!Changed, Ri!Allowed
  <2>2. Ri!Changed(w, r) = [status |-> "DRIVER_ASSIGNED", driver |-> w.driver,
                            tries |-> r.tries, verified |-> r.verified]
    BY <1>0, <2>1
  <2> QED
    BY <1>0, <1>1, <2>1, <2>2 DEF Ri!Rows, Ri!Status
<1>2. CASE w.op = "status"
  <2>1. /\ Ri!Changed(w, r) = [r EXCEPT !.status = w.to]
        /\ <<r.status, w.to>> \in Ri!Edges /\ w.to \in Ri!Status \ {"none"}
        /\ w.to # "RIDE_COMPLETED"
    BY <1>2, WishFacts DEF Ri!Changed, Ri!Allowed, Ri!NotANumber
  <2>2. Ri!Changed(w, r) = [status |-> w.to, driver |-> r.driver,
                            tries |-> r.tries, verified |-> r.verified]
    BY <1>0, <2>1
  <2>3. w.to # "REQUESTED"
    BY <2>1 DEF Ri!Edges
  <2> QED
    BY <1>0, <1>2, <2>1, <2>2, <2>3 DEF Ri!Rows
<1>3. CASE w.op = "pin"
  <2>1. r.tries[w.side] < MaxTries /\ w.side \in Ri!Sides /\ w.right \in BOOLEAN
    BY <1>3, WishFacts DEF Ri!Allowed
  <2>2. CASE w.right
    <3> DEFINE t == [r.tries EXCEPT ![w.side] = 0]
               v == r.verified \cup {w.side}
    <3>1. Ri!Changed(w, r) = [r EXCEPT !.verified = v, !.tries[w.side] = 0]
      BY <1>3, <2>2 DEF Ri!Changed
    <3>2. Ri!Changed(w, r) = [status |-> r.status, driver |-> r.driver, tries |-> t, verified |-> v]
      BY <1>0, <3>1
    <3>3. t \in [Ri!Sides -> 0..MaxTries] /\ v \in SUBSET Ri!Sides
      BY <1>0, <2>1, RideFacts
    <3>4. \A p \in Ri!Sides : t[p] = IF p # w.side THEN r.tries[p] ELSE 0
      BY <1>0
    <3> HIDE DEF t, v
    <3> QED
      BY <1>0, <1>3, <2>2, <3>2, <3>3, <3>4 DEF Ri!Rows
  <2>3. CASE ~w.right
    <3> DEFINE t == [r.tries EXCEPT ![w.side] = r.tries[w.side] + 1]
    <3>1. Ri!Changed(w, r) = [r EXCEPT !.tries[w.side] = r.tries[w.side] + 1]
      BY <1>3, <2>3 DEF Ri!Changed
    <3>2. Ri!Changed(w, r) = [status |-> r.status, driver |-> r.driver, tries |-> t,
                              verified |-> r.verified]
      BY <1>0, <3>1
    <3>3. t \in [Ri!Sides -> 0..MaxTries]
      BY <1>0, <2>1, RideFacts
    <3>4. \A p \in Ri!Sides : t[p] = IF p # w.side THEN r.tries[p] ELSE r.tries[p] + 1
      BY <1>0
    <3> HIDE DEF t
    <3> QED
      BY <1>0, <1>3, <2>3, <3>2, <3>3, <3>4 DEF Ri!Rows
  <2> QED
    BY <2>2, <2>3
<1>4. CASE w.op = "wait"
  <2>1. Ri!Changed(w, r) = r
    BY <1>4 DEF Ri!Changed
  <2> QED
    BY <1>0, <1>4, <2>1
<1> QED
  BY <1>1, <1>2, <1>3, <1>4, WishFacts

\* Requests that owe no deposit move without owing one.
LEMMA OwedSame ==
  ASSUME RideInv, NEW s \in Slots, NEW where, slot' = [slot EXCEPT ![s] = where],
         slot[s] \notin {"referrer", "referee"}, where \notin {"referrer", "referee"},
         UNCHANGED <<completions, rewards>>
  PROVE  RewardShape'
<1>1. \A p \in {"referrer", "referee"} : RewardsDue'[p] = RewardsDue[p]
  BY DEF RideInv, Ri!TypeOK, RewardsDue
<1> QED
  BY <1>1 DEF RideInv, RewardShape

-----------------------------------------------------------------------------
\* A ride is requested, or its waiting time begins.
LEMMA RideRequestsInv ==
  ASSUME RideInv, Ri!RideAssumption, Ri!CreateRide \/ Ri!StartWaitTime
  PROVE  RideInv'
<1>1. UNCHANGED <<offered, slot, wish, seen, stale, wrong, assigned, referral, completions, rewards>>
  BY DEF Ri!CreateRide, Ri!StartWaitTime, Ri!rideHist, Ri!referVars
<1>2. RewardShape'
  BY <1>1 DEF RideInv, RewardShape, RewardsDue
<1>a. ride'.status # "none" \/ UNCHANGED ride
  BY DEF Ri!CreateRide, Ri!StartWaitTime, Ri!NoRide
<1>b. RideCalls'
  BY <1>1, <1>a DEF RideInv, RideCalls, Ri!Allowed
<1>3. CASE Ri!CreateRide
  <2>1. /\ ride.status = "none" /\ UNCHANGED wait
        /\ ride' = [status |-> "REQUESTED", driver |-> NoDriver, tries |-> [p \in Ri!Sides |-> 0],
                    verified |-> {}]
    BY <1>3 DEF Ri!CreateRide, Ri!NoRide
  <2>2. ride' \in Ri!Rows /\ \A p \in Ri!Sides : ride'.tries[p] = 0
    BY <2>1, RideFacts DEF Ri!Rows, Ri!Status
  <2>3. Ri!TypeOK'
    BY <1>1, <2>1, <2>2 DEF RideInv, Ri!TypeOK, Ri!Rows
  <2>4. RideCounts'
    <3>1. MaxTries * stale \in Nat /\ stale \in Nat
      BY OneMore, RideFacts DEF RideInv, Ri!TypeOK
    <3>2. wrong' = wrong /\ assigned' = assigned /\ stale' = stale /\ ride'.status = "REQUESTED"
      BY <1>1, <2>1
    <3> QED
      BY <2>1, <2>2, <3>1, <3>2 DEF RideInv, RideCounts, Ri!TypeOK
  <2> QED
    BY <1>2, <1>b, <2>3, <2>4 DEF RideInv
<1>4. CASE Ri!StartWaitTime
  <2>1. wait' = "open" /\ UNCHANGED ride
    BY <1>4 DEF Ri!StartWaitTime
  <2> QED
    BY <1>1, <1>2, <1>b, <2>1 DEF RideInv, Ri!TypeOK, RideCounts
<1> QED
  BY <1>3, <1>4

\* A request on the ride arrives.
LEMMA RideCallInv ==
  ASSUME RideInv, Ri!RideAssumption, NEW s \in Slots, Ri!Call(s)
  PROVE  RideInv'
<1>1. PICK w \in offered :
        /\ wish' = [wish EXCEPT ![s] = w]
        /\ slot' = [slot EXCEPT ![s] = IF w.op = "refer" THEN "refer" ELSE "read"]
        /\ w.op # "refer" => ride.status # "none"
  BY DEF Ri!Call, Ri!Goto
<1>2. slot[s] = "idle" /\ UNCHANGED <<offered, ride, wait, seen, stale, wrong, assigned,
                                      referral, completions, rewards>>
  BY DEF Ri!Call, Ri!rideHist, Ri!referVars
<1>3. w \in Ri!Wishes
  BY RideFacts DEF RideInv, Ri!TypeOK
<1>4. Ri!TypeOK'
  BY <1>1, <1>2, <1>3 DEF RideInv, Ri!TypeOK
<1>5. RideCalls'
  BY <1>1, <1>2 DEF RideInv, Ri!TypeOK, RideCalls
<1>6. RideCounts'
  BY <1>2 DEF RideInv, RideCounts
<1>7. RewardShape'
  <2> DEFINE where == IF w.op = "refer" THEN "refer" ELSE "read"
  <2>1. where \notin {"referrer", "referee"} /\ slot' = [slot EXCEPT ![s] = where]
    BY <1>1
  <2>2. slot[s] \notin {"referrer", "referee"} /\ UNCHANGED <<completions, rewards>>
    BY <1>2
  <2> HIDE DEF where
  <2> QED
    BY <2>1, <2>2, OwedSame
<1> QED
  BY <1>4, <1>5, <1>6, <1>7 DEF RideInv

\* A request ends, whatever it saved.
LEMMA ReturnCalls ==
  ASSUME RideInv, Ri!RideAssumption, NEW s \in Slots, Ri!Return(s),
         slot[s] \notin {"referrer", "referee"}, UNCHANGED <<completions, rewards>>,
         ride'.status = "none" => ride.status = "none"
  PROVE  /\ RideCalls' /\ RewardShape'
         /\ slot' \in [Slots -> {"idle", "read", "save", "ended", "refer", "referrer", "referee"}]
         /\ wish' \in [Slots -> Ri!Wishes] /\ seen' \in [Slots -> Ri!Rows]
<1>1. /\ slot' = [slot EXCEPT ![s] = "idle"] /\ wish' = [wish EXCEPT ![s] = Ri!Idle]
      /\ seen' = [seen EXCEPT ![s] = Ri!NoRide]
  BY DEF Ri!Return, Ri!Goto
<1>2. Ri!Idle \in Ri!Wishes
  BY DEF Ri!Idle, Ri!Wishes
<1>3. Ri!NoRide \in Ri!Rows
  BY RideFacts DEF Ri!NoRide, Ri!Rows, Ri!Status
<1>4. RideCalls'
  BY <1>1 DEF RideInv, Ri!TypeOK, RideCalls
<1>5. RewardShape'
  BY <1>1, OwedSame
<1> QED
  BY <1>1, <1>2, <1>3, <1>4, <1>5 DEF RideInv, Ri!TypeOK

\* A call reads the ride, and is refused or goes on.
LEMMA RideReadInv ==
  ASSUME RideInv, Ri!RideAssumption, NEW s \in Slots, Ri!Read(s)
  PROVE  RideInv'
<1>1. slot[s] = "read" /\ UNCHANGED <<offered, ride, wait, stale, wrong, assigned,
                                      referral, completions, rewards>>
  BY DEF Ri!Read, Ri!rideHist, Ri!referVars
<1>2. RideCounts'
  BY <1>1 DEF RideInv, RideCounts
<1>3. CASE Ri!Allowed(wish[s], ride)
  <2>1. /\ seen' = [seen EXCEPT ![s] = ride] /\ slot' = [slot EXCEPT ![s] = "save"]
        /\ UNCHANGED wish
    BY <1>3 DEF Ri!Read, Ri!Goto
  <2>2. Ri!TypeOK'
    BY <1>1, <2>1 DEF RideInv, Ri!TypeOK
  <2>3. RideCalls'
    <3> SUFFICES ASSUME NEW q \in Slots
        PROVE  /\ slot'[q] \in {"read", "save"} => wish[q].op # "refer" /\ ride.status # "none"
               /\ slot'[q] = "save" => Ri!Allowed(wish[q], seen'[q]) /\ seen'[q].status # "none"
      BY <1>1, <2>1 DEF RideCalls, Ri!Allowed
    <3>1. CASE q = s
      BY <1>1, <1>3, <2>1, <3>1 DEF RideInv, Ri!TypeOK, RideCalls
    <3>2. CASE q # s
      BY <2>1, <3>2 DEF RideInv, Ri!TypeOK, RideCalls
    <3> QED
      BY <3>1, <3>2
  <2>4. RewardShape'
    BY <1>1, <2>1, OwedSame
  <2> QED
    BY <1>2, <2>2, <2>3, <2>4 DEF RideInv
<1>4. CASE ~Ri!Allowed(wish[s], ride)
  <2>1. Ri!Return(s)
    BY <1>4 DEF Ri!Read
  <2> QED
    BY <1>1, <1>2, <2>1, ReturnCalls DEF RideInv, Ri!TypeOK
<1> QED
  BY <1>3, <1>4

\* A call saves the ride as it read it, with its own change.
LEMMA RideSaveInv ==
  ASSUME RideInv, Ri!RideAssumption, NEW s \in Slots, Ri!Save(s)
  PROVE  RideInv'
<1> DEFINE w == wish[s]
           r == seen[s]
<1>1. /\ slot[s] = "save" /\ w \in Ri!Wishes /\ r \in Ri!Rows /\ w.op # "refer" /\ Ri!Allowed(w, r)
      /\ UNCHANGED <<offered, wait, referral, completions, rewards>>
  BY DEF Ri!Save, RideInv, RideCalls, Ri!TypeOK, Ri!referVars
<1>a. r.status # "none" /\ ride.status # "none"
  BY <1>1 DEF RideInv, RideCalls
<1>b. ride'.status # "none"
  <2>1. CASE Ri!NotANumber(w)
    BY <1>a, <2>1 DEF Ri!Save
  <2>2. CASE ~Ri!NotANumber(w)
    <3>1. ride' = Ri!Changed(w, r)
      BY <2>2 DEF Ri!Save
    <3> HIDE DEF w, r
    <3> QED
      BY <1>1, <1>a, <2>2, <3>1, ChangedRide
  <2> QED
    BY <2>1, <2>2
<1>2. /\ RideCalls' /\ RewardShape'
      /\ slot' \in [Slots -> {"idle", "read", "save", "ended", "refer", "referrer", "referee"}]
      /\ wish' \in [Slots -> Ri!Wishes] /\ seen' \in [Slots -> Ri!Rows]
  <2>1. CASE Ri!Return(s)
    BY <1>1, <1>b, <2>1, ReturnCalls
  <2>2. CASE Ri!Goto(s, "ended") /\ UNCHANGED <<wish, seen>>
    <3>1. slot' = [slot EXCEPT ![s] = "ended"]
      BY <2>2 DEF Ri!Goto
    <3>2. RewardShape'
      BY <1>1, <3>1, OwedSame
    <3>3. RideCalls'
      BY <1>b, <2>2, <3>1 DEF RideInv, Ri!TypeOK, RideCalls, Ri!Allowed
    <3> QED
      BY <2>2, <3>1, <3>2, <3>3 DEF RideInv, Ri!TypeOK
  <2> QED
    BY <2>1, <2>2 DEF Ri!Save
<1>3. CASE Ri!NotANumber(w)
  <2>1. UNCHANGED <<ride, stale, wrong, assigned>>
    BY <1>3 DEF Ri!Save, Ri!rideHist
  <2>2. RideCounts'
    BY <2>1 DEF RideInv, RideCounts
  <2> QED
    BY <1>1, <1>2, <2>1, <2>2 DEF RideInv, Ri!TypeOK, Ri!Rows, Ri!Wishes, Ri!Sides
<1>4. CASE ~Ri!NotANumber(w)
  <2>1. /\ ride' = Ri!Changed(w, r)
        /\ stale' = IF ride = r THEN stale ELSE stale + 1
        /\ wrong' = IF w.op = "pin"
                    THEN [wrong EXCEPT ![w.side] = IF w.right THEN 0 ELSE wrong[w.side] + 1]
                    ELSE wrong
        /\ assigned' = IF w.op = "assign" THEN assigned + 1 ELSE assigned
    BY <1>4 DEF Ri!Save
  <2> HIDE DEF w, r
  <2>2. /\ ride' \in Ri!Rows
        /\ \A p \in Ri!Sides : ride'.tries[p] =
                IF w.op # "pin" \/ p # w.side THEN r.tries[p]
                ELSE IF w.right THEN 0 ELSE r.tries[p] + 1
        /\ w.op = "assign" => /\ r.status = "REQUESTED" /\ ride'.status = "DRIVER_ASSIGNED"
        /\ ride'.status \in {"none", "REQUESTED"} => r.status \in {"none", "REQUESTED"}
    BY <1>1, <1>4, <2>1, ChangedRide
  <2>3. /\ stale \in Nat /\ stale' \in Nat /\ wrong \in [Ri!Sides -> Nat] /\ assigned \in Nat
        /\ ride \in Ri!Rows
    BY <2>1 DEF RideInv, Ri!TypeOK
  <2>4. wrong' \in [Ri!Sides -> Nat] /\ assigned' \in Nat
    BY <1>1, <2>1, <2>3, WishFacts
  <2>5. ASSUME NEW p \in Ri!Sides
        PROVE  wrong'[p] <= MaxTries * stale' + ride'.tries[p]
    <3> DEFINE m == MaxTries * stale
               m1 == MaxTries * stale'
    <3>1. /\ m \in Nat /\ m1 = IF ride = r THEN m ELSE m + MaxTries
          /\ MaxTries \in Nat
      BY <2>1, <2>3, OneMore, RideFacts
    <3>2. /\ wrong[p] \in Nat /\ wrong[p] <= m + ride.tries[p]
          /\ ride.tries[p] \in 0..MaxTries /\ r.tries[p] \in 0..MaxTries
          /\ ride'.tries[p] \in 0..MaxTries
      BY <1>1, <2>2, <2>3 DEF RideInv, RideCounts, Ri!Rows
    <3> HIDE DEF m, m1
    <3>3. CASE w.op # "pin" \/ p # w.side
      <4>1. wrong'[p] = wrong[p] /\ ride'.tries[p] = r.tries[p]
        BY <2>1, <2>2, <2>3, <3>3
      <4>2. CASE ride = r
        BY <3>1, <3>2, <4>1, <4>2 DEF m, m1
      <4>3. CASE ride # r
        <5>1. wrong'[p] <= m1 + ride'.tries[p]
          BY <3>1, <3>2, <4>1, <4>3
        <5> QED
          BY <5>1 DEF m1
      <4> QED
        BY <4>2, <4>3
    <3>4. CASE w.op = "pin" /\ p = w.side /\ w.right
      <4>1. wrong'[p] = 0
        BY <2>1, <2>3, <3>4
      <4>2. m1 \in Nat
        BY <3>1
      <4>3. wrong'[p] <= m1 + ride'.tries[p]
        BY <3>2, <4>1, <4>2
      <4> QED
        BY <4>3 DEF m1
    <3>5. CASE w.op = "pin" /\ p = w.side /\ ~w.right
      <4>1. wrong'[p] = wrong[p] + 1 /\ ride'.tries[p] = r.tries[p] + 1
        BY <2>1, <2>2, <2>3, <3>5
      <4>2. CASE ride = r
        <5>1. wrong'[p] <= m1 + ride'.tries[p]
          BY <3>1, <3>2, <4>1, <4>2
        <5> QED
          BY <5>1 DEF m1
      <4>3. CASE ride # r
        <5>1. wrong'[p] <= m1 + ride'.tries[p]
          BY <3>1, <3>2, <4>1, <4>3
        <5> QED
          BY <5>1 DEF m1
      <4> QED
        BY <4>2, <4>3
    <3> QED
      BY <3>3, <3>4, <3>5
  <2>6. assigned' <= stale' + (IF ride'.status \in {"none", "REQUESTED"} THEN 0 ELSE 1)
    <3>1. assigned <= stale + (IF ride.status \in {"none", "REQUESTED"} THEN 0 ELSE 1)
      BY DEF RideInv, RideCounts
    <3>2. CASE w.op = "assign"
      <4>1. assigned' = assigned + 1 /\ ride'.status = "DRIVER_ASSIGNED" /\ r.status = "REQUESTED"
        BY <2>1, <2>2, <3>2
      <4>2. CASE ride = r
        BY <2>1, <2>3, <3>1, <4>1, <4>2
      <4>3. CASE ride # r
        BY <2>1, <2>3, <3>1, <4>1, <4>3
      <4> QED
        BY <4>2, <4>3
    <3>3. CASE w.op # "assign"
      <4>1. assigned' = assigned
        BY <2>1, <3>3
      <4>2. CASE ride = r
        BY <2>1, <2>2, <2>3, <3>1, <4>1, <4>2
      <4>3. CASE ride # r
        BY <2>1, <2>3, <3>1, <4>1, <4>3
      <4> QED
        BY <4>2, <4>3
    <3> QED
      BY <3>2, <3>3
  <2>7. RideCounts'
    BY <1>b, <2>5, <2>6 DEF RideCounts, Ri!Sides
  <2>8. Ri!TypeOK'
    BY <1>1, <1>2, <2>2, <2>3, <2>4 DEF RideInv, Ri!TypeOK, Ri!Rows, Ri!Wishes, Ri!Sides
  <2> QED
    BY <1>2, <2>7, <2>8 DEF RideInv
<1> QED
  BY <1>3, <1>4

\* The waiting time is saved.
LEMMA SaveWaitInv ==
  ASSUME RideInv, Ri!RideAssumption, NEW s \in Slots, Ri!SaveWait(s)
  PROVE  RideInv'
<1>1. /\ slot[s] = "ended" /\ wait' = "ended" /\ Ri!Return(s)
      /\ UNCHANGED <<offered, ride, stale, wrong, assigned, referral, completions, rewards>>
  BY DEF Ri!SaveWait, Ri!rideHist, Ri!referVars
<1>2. RideCounts'
  BY <1>1 DEF RideInv, RideCounts
<1> QED
  BY <1>1, <1>2, ReturnCalls DEF RideInv, Ri!TypeOK

\* A request of the referral moves, and what it owes changes.
LEMMA OwedMoves ==
  ASSUME RideInv, Ri!RideAssumption, NEW s \in Slots, NEW where,
         slot' = [slot EXCEPT ![s] = where], NEW p \in {"referrer", "referee"}
  PROVE  /\ SumFunctionOnSet(RewardsDue'[p], Slots)
                = SumFunctionOnSet(RewardsDue[p], Slots) - RewardsDue[p][s] + RewardsDue'[p][s]
         /\ SumFunctionOnSet(RewardsDue[p], Slots) \in Nat
         /\ RewardsDue[p][s] = IF slot[s] = "referrer" \/ slot[s] = p THEN 1 ELSE 0
         /\ RewardsDue'[p][s] = IF where = "referrer" \/ where = p THEN 1 ELSE 0
<1>1. \A q \in Slots : RewardsDue[p][q] \in Nat /\ RewardsDue'[p][q] \in Nat
  BY DEF RewardsDue
<1>2. \A q \in Slots \ {s} : RewardsDue'[p][q] = RewardsDue[p][q]
  BY DEF RewardsDue, RideInv, Ri!TypeOK
<1>3. /\ RewardsDue[p][s] = IF slot[s] = "referrer" \/ slot[s] = p THEN 1 ELSE 0
      /\ RewardsDue'[p][s] = IF where = "referrer" \/ where = p THEN 1 ELSE 0
  BY DEF RewardsDue, RideInv, Ri!TypeOK
<1>4. SumFunctionOnSet(RewardsDue[p], Slots) \in Nat
  BY <1>1, SumNat, RideFacts
<1>5. \A q \in Slots : RewardsDue[p][q] \in Int /\ RewardsDue'[p][q] \in Int
  BY <1>1
<1> QED
  BY <1>2, <1>3, <1>4, <1>5, SumUpdate, RideFacts

\* A referral is completed.
LEMMA CompleteReferralInv ==
  ASSUME RideInv, Ri!RideAssumption, NEW s \in Slots, Ri!CompleteReferral(s)
  PROVE  RideInv'
<1>1. /\ slot[s] = "refer" /\ referral' = "COMPLETED" /\ completions' = completions + 1
      /\ slot' = [slot EXCEPT ![s] = "referrer"]
      /\ UNCHANGED <<offered, ride, wait, wish, seen, stale, wrong, assigned, rewards>>
  BY DEF Ri!CompleteReferral, Ri!Goto, Ri!rideHist
<1>2. Ri!TypeOK'
  BY <1>1 DEF RideInv, Ri!TypeOK
<1>3. RideCalls'
  BY <1>1 DEF RideInv, Ri!TypeOK, RideCalls, Ri!Allowed
<1>4. RideCounts'
  BY <1>1 DEF RideInv, RideCounts
<1>5. RewardShape'
  <2> SUFFICES ASSUME NEW p \in {"referrer", "referee"}
      PROVE  rewards'[p] + SumFunctionOnSet(RewardsDue'[p], Slots) <= completions'
    BY DEF RewardShape
  <2>1. /\ SumFunctionOnSet(RewardsDue'[p], Slots)
                = SumFunctionOnSet(RewardsDue[p], Slots) - RewardsDue[p][s] + RewardsDue'[p][s]
        /\ SumFunctionOnSet(RewardsDue[p], Slots) \in Nat
        /\ RewardsDue[p][s] = IF slot[s] = "referrer" \/ slot[s] = p THEN 1 ELSE 0
        /\ RewardsDue'[p][s] = IF "referrer" = "referrer" \/ "referrer" = p THEN 1 ELSE 0
    BY <1>1, OwedMoves
  <2>2. RewardsDue[p][s] = 0 /\ RewardsDue'[p][s] = 1
    BY <1>1, <2>1
  <2>3. rewards[p] \in Nat /\ completions \in Nat
        /\ rewards[p] + SumFunctionOnSet(RewardsDue[p], Slots) <= completions
    BY DEF RideInv, Ri!TypeOK, RewardShape
  <2> QED
    BY <1>1, <2>1, <2>2, <2>3
<1> QED
  BY <1>2, <1>3, <1>4, <1>5 DEF RideInv

\* A completed referral is rewarded, referrer first.
LEMMA RewardInv ==
  ASSUME RideInv, Ri!RideAssumption, NEW s \in Slots, Ri!Reward(s)
  PROVE  RideInv'
<1> DEFINE next == IF slot[s] = "referrer" THEN "referee" ELSE "idle"
<1>1. /\ slot[s] \in {"referrer", "referee"}
      /\ UNCHANGED <<offered, ride, wait, wish, seen, stale, wrong, assigned, referral, completions>>
      /\ \/ rewards' = [rewards EXCEPT ![slot[s]] = rewards[slot[s]] + 1]
            /\ slot' = [slot EXCEPT ![s] = next]
         \/ slot' = [slot EXCEPT ![s] = next] /\ UNCHANGED rewards
         \/ slot' = [slot EXCEPT ![s] = "idle"] /\ UNCHANGED rewards
  BY DEF Ri!Reward, Ri!Goto, Ri!rideHist
<1>2. Ri!TypeOK'
  BY <1>1 DEF RideInv, Ri!TypeOK
<1>3. RideCalls'
  BY <1>1 DEF RideInv, Ri!TypeOK, RideCalls, Ri!Allowed
<1>4. RideCounts'
  BY <1>1 DEF RideInv, RideCounts
<1>5. PICK where \in {next, "idle"} :
        /\ slot' = [slot EXCEPT ![s] = where]
        /\ \/ rewards' = [rewards EXCEPT ![slot[s]] = rewards[slot[s]] + 1] /\ where = next
           \/ UNCHANGED rewards
  BY <1>1
<1>6. RewardShape'
  <2> SUFFICES ASSUME NEW p \in {"referrer", "referee"}
      PROVE  rewards'[p] + SumFunctionOnSet(RewardsDue'[p], Slots) <= completions'
    BY DEF RewardShape
  <2>1. /\ SumFunctionOnSet(RewardsDue'[p], Slots)
                = SumFunctionOnSet(RewardsDue[p], Slots) - RewardsDue[p][s] + RewardsDue'[p][s]
        /\ SumFunctionOnSet(RewardsDue[p], Slots) \in Nat
        /\ RewardsDue[p][s] = IF slot[s] = "referrer" \/ slot[s] = p THEN 1 ELSE 0
        /\ RewardsDue'[p][s] = IF where = "referrer" \/ where = p THEN 1 ELSE 0
    BY <1>5, OwedMoves
  <2>3. rewards[p] \in Nat /\ completions \in Nat
        /\ rewards[p] + SumFunctionOnSet(RewardsDue[p], Slots) <= completions
    BY DEF RideInv, Ri!TypeOK, RewardShape
  <2>4. /\ rewards'[p] \in Nat /\ rewards'[p] <= rewards[p] + 1
        /\ rewards'[p] # rewards[p] => p = slot[s] /\ where = next
    BY <1>5, <2>3 DEF RideInv, Ri!TypeOK
  <2>5. RewardsDue'[p][s] <= RewardsDue[p][s]
    BY <1>1, <2>1
  <2>6. rewards'[p] # rewards[p] => RewardsDue[p][s] = 1 /\ RewardsDue'[p][s] = 0
    BY <1>1, <2>1, <2>4
  <2>7. RewardsDue[p][s] \in Nat /\ RewardsDue'[p][s] \in Nat /\ completions' = completions
    BY <1>1, <2>1
  <2>8. CASE rewards'[p] = rewards[p]
    BY <2>1, <2>3, <2>5, <2>7, <2>8
  <2>9. CASE rewards'[p] # rewards[p]
    BY <2>1, <2>3, <2>4, <2>6, <2>7, <2>9
  <2> QED
    BY <2>8, <2>9
<1> QED
  BY <1>2, <1>3, <1>4, <1>6 DEF RideInv

\* A behaviour of the rides keeps their invariant.
LEMMA RideInvariance ==
  ASSUME Ri!RideAssumption
  PROVE  Ri!Spec => []RideInv
<1>1. Ri!Init => RideInv
  <2> SUFFICES ASSUME Ri!Init PROVE RideInv
    OBVIOUS
  <2>1. Ri!NoRide \in Ri!Rows /\ Ri!Idle \in Ri!Wishes /\ Ri!NoRide.status = "none"
        /\ \A p \in Ri!Sides : Ri!NoRide.tries[p] = 0
    BY RideFacts DEF Ri!NoRide, Ri!Rows, Ri!Status, Ri!Idle, Ri!Wishes
  <2>2. Ri!TypeOK
    BY <2>1 DEF Ri!Init, Ri!TypeOK
  <2>3. RideCalls
    BY DEF Ri!Init, RideCalls
  <2>4. RideCounts
    BY <2>1, RideFacts DEF Ri!Init, RideCounts
  <2>5. RewardShape
    <3> SUFFICES ASSUME NEW p \in {"referrer", "referee"}
        PROVE  rewards[p] + SumFunctionOnSet(RewardsDue[p], Slots) <= completions
      BY DEF RewardShape
    <3>1. \A s \in Slots : RewardsDue[p][s] = 0
      BY DEF RewardsDue, Ri!Init
    <3>2. SumFunctionOnSet(RewardsDue[p], Slots) = 0
      BY <3>1, SumZero, RideFacts
    <3> QED
      BY <3>2 DEF Ri!Init
  <2> QED
    BY <2>2, <2>3, <2>4, <2>5 DEF RideInv
<1>2. RideInv /\ [Ri!Next]_(Ri!rideVars) => RideInv'
  <2> SUFFICES ASSUME RideInv, [Ri!Next]_(Ri!rideVars) PROVE RideInv'
    OBVIOUS
  <2>1. CASE Ri!Next
    BY <2>1, RideRequestsInv, RideCallInv, RideReadInv, RideSaveInv, SaveWaitInv,
       CompleteReferralInv, RewardInv DEF Ri!Next
  <2>2. CASE UNCHANGED Ri!rideVars
    <3>1. UNCHANGED <<offered, ride, wait, slot, wish, seen, stale, wrong, assigned, referral,
                      completions, rewards>>
      BY <2>2 DEF Ri!rideVars, Ri!rideHist, Ri!referVars
    <3>2. Ri!TypeOK'
      BY <3>1 DEF RideInv, Ri!TypeOK, Ri!Rows, Ri!Wishes, Ri!Sides, Ri!Status
    <3>3. RideCalls' /\ RideCounts'
      BY <3>1 DEF RideInv, RideCalls, Ri!Allowed, RideCounts, Ri!Sides
    <3>4. RewardsDue' = RewardsDue
      BY <3>1 DEF RewardsDue
    <3>5. RewardShape'
      BY <3>1, <3>4 DEF RideInv, RewardShape
    <3> QED
      BY <3>2, <3>3, <3>5 DEF RideInv
  <2> QED
    BY <2>1, <2>2
<1> QED
  BY <1>1, <1>2, PTL DEF Ri!Spec

\* Each side's wrong PINs keep to the limit, and each stale save buys one more round.
THEOREM PinsBounded ==
  ASSUME Ri!RideAssumption
  PROVE  Ri!Spec => []Ri!WrongPinsBounded
<1>1. RideInv => Ri!WrongPinsBounded
  <2> SUFFICES ASSUME RideInv, NEW p \in Ri!Sides PROVE wrong[p] <= MaxTries * (1 + stale)
    BY DEF Ri!WrongPinsBounded
  <2> DEFINE m == MaxTries * stale
  <2>1. m \in Nat /\ MaxTries * (1 + stale) = m + MaxTries /\ MaxTries \in Nat
    BY OneMore, RideFacts DEF RideInv, Ri!TypeOK
  <2>2. wrong[p] \in Nat /\ wrong[p] <= m + ride.tries[p] /\ ride.tries[p] \in 0..MaxTries
    BY DEF RideInv, Ri!TypeOK, RideCounts, Ri!Rows
  <2> HIDE DEF m
  <2> QED
    BY <2>1, <2>2
<1> QED
  BY <1>1, RideInvariance, PTL

\* A ride is assigned once, and once more for each stale save.
THEOREM DriverOnce ==
  ASSUME Ri!RideAssumption
  PROVE  Ri!Spec => []Ri!OneDriver
<1>1. RideInv => Ri!OneDriver
  BY DEF RideInv, RideCounts, Ri!TypeOK, Ri!OneDriver
<1> QED
  BY <1>1, RideInvariance, PTL

\* No party of a referral is rewarded more often than the referral was completed.
THEOREM RewardsEarned ==
  ASSUME Ri!RideAssumption
  PROVE  Ri!Spec => []Ri!RewardsFollowCompletion
<1>1. RideInv => Ri!RewardsFollowCompletion
  <2> SUFFICES ASSUME RideInv, NEW p \in DOMAIN rewards PROVE rewards[p] <= completions
    BY DEF Ri!RewardsFollowCompletion
  <2>1. p \in {"referrer", "referee"} /\ rewards[p] \in Nat /\ completions \in Nat
    BY DEF RideInv, Ri!TypeOK
  <2>2. \A s \in Slots : RewardsDue[p][s] \in Nat
    BY <2>1 DEF RewardsDue
  <2>3. SumFunctionOnSet(RewardsDue[p], Slots) \in Nat
    BY <2>2, SumNat, RideFacts
  <2>4. rewards[p] + SumFunctionOnSet(RewardsDue[p], Slots) <= completions
    BY <2>1 DEF RideInv, RewardShape
  <2> QED
    BY <2>1, <2>3, <2>4
<1> QED
  BY <1>1, RideInvariance, PTL

-----------------------------------------------------------------------------
(* Plugins.                                                                 *)

PluginPlaces == {"idle", "new", "stored", "read", "ran", "threw", "twice", "set", "forgot", "done"}
Holding      == {"read", "ran", "threw", "twice", "set", "forgot"}
PluginUsers  == [at : PluginPlaces, ask : Pl!AllAsks \cup {<<>>}, copy : Pl!Plugin \cup {NoEntry},
                 fresh : BOOLEAN]

\* What a call at `at` makes of the row `of`.
MadeOf(at, copy, of) ==
    /\ copy.id = of.id
    /\ at # "set" => copy.status = of.status
    /\ copy.ran = of.ran + (IF at \in {"ran", "twice"} THEN 1 ELSE 0)
    /\ copy.erred = of.erred + (IF at \in {"threw", "twice"} THEN 1 ELSE 0)

\* A call that holds a copy read a row, and made it of the present one unless somebody
\* wrote since.
UserShape ==
    /\ user \in [Calls -> PluginUsers]
    /\ \A c \in Calls :
         /\ user[c].at = "read" => user[c].ask \in Pl!AllAsks
         /\ user[c].at \in Holding => user[c].copy \in Pl!Plugin
         /\ user[c].at \in Holding /\ user[c].fresh = TRUE =>
                plugin \in Pl!Plugin /\ MadeOf(user[c].at, user[c].copy, plugin)

\* A row is named after a call that has inserted it, which it does once.
Starting == {c \in Calls : user[c].at \in {"idle", "new"}}
NameShape ==
    /\ removed \cap Starting = {}
    /\ plugin # NoEntry => plugin.id \notin Starting
    /\ \A c \in Calls : user[c].at \in Holding => user[c].copy.id \notin Starting

\* While no code was compiled as its row was deleted, all there is is the present row's.
CodeOfRow ==
    crossed = FALSE =>
        /\ registry # NoEntry => plugin # NoEntry /\ registry = plugin.id
        /\ \A c \in Calls : user[c].at = "stored" => plugin # NoEntry /\ plugin.id = c
        /\ \A c \in Calls : user[c].at = "read" /\ user[c].ask = <<"run">> =>
               plugin # NoEntry /\ user[c].copy.id = plugin.id
        /\ ranOther = {}

RowTold ==
    reverted = FALSE /\ plugin # NoEntry =>
        /\ plugin.status = decided /\ plugin.id \notin removed
        /\ plugin.ran = tally.ok + tally.twice /\ plugin.erred = tally.bad

PluginInv == Pl!TypeOK /\ UserShape /\ NameShape /\ CodeOfRow /\ RowTold

\* What the assumption says of the constants and the requests.
LEMMA PluginFacts ==
  ASSUME PluginInv, Pl!PluginAssumption
  PROVE  /\ NoEntry \notin Calls /\ NoEntry \notin Pl!Plugin
         /\ plugin \in Pl!Plugin \cup {NoEntry}
         /\ registry \in Calls \cup {NoEntry}
         /\ user \in [Calls -> PluginUsers]
         /\ decided \in Pl!Statuses /\ tally \in [ok : Nat, bad : Nat, twice : Nat]
         /\ removed \subseteq Calls /\ ranOther \subseteq Calls
         /\ reverted \in BOOLEAN /\ crossed \in BOOLEAN /\ dropped \in 0..MaxFaults
BY DEF PluginInv, Pl!TypeOK, Pl!PluginAssumption, UserShape

\* A row, by its fields.
LEMMA PluginRow ==
  ASSUME NEW r \in Pl!Plugin
  PROVE  /\ r.id \in Calls /\ r.status \in Pl!Statuses /\ r.ran \in Nat /\ r.erred \in Nat
         /\ r = [id |-> r.id, status |-> r.status, ran |-> r.ran, erred |-> r.erred]
BY DEF Pl!Plugin

\* A call moves alone.
LEMMA PluginMoves ==
  ASSUME user \in [Calls -> PluginUsers], NEW c \in Calls, NEW s \in PluginPlaces,
         Pl!Move(c, s)
  PROVE  /\ user' \in [Calls -> PluginUsers]
         /\ user'[c].at = s /\ user'[c].ask = user[c].ask /\ user'[c].copy = user[c].copy
         /\ user'[c].fresh = user[c].fresh
         /\ \A d \in Calls : d # c => user'[d] = user[d]
BY DEF Pl!Move, PluginUsers

\* A call commits, and every other copy is out of date.
LEMMA PluginCommits ==
  ASSUME user \in [Calls -> PluginUsers], NEW c \in Calls, NEW s \in PluginPlaces,
         Pl!Commit(c, s)
  PROVE  /\ user' \in [Calls -> PluginUsers]
         /\ user'[c].at = s /\ user'[c].ask = user[c].ask /\ user'[c].copy = user[c].copy
         /\ \A d \in Calls : d # c =>
                /\ user'[d].at = user[d].at /\ user'[d].ask = user[d].ask
                /\ user'[d].copy = user[d].copy /\ user'[d].fresh = FALSE
<1>1. \A d \in Calls : user[d] \in PluginUsers
  OBVIOUS
<1>2. user' = [d \in Calls |-> IF d = c THEN [user[c] EXCEPT !.at = s]
                               ELSE [user[d] EXCEPT !.fresh = FALSE]]
  BY DEF Pl!Commit
<1>3. \A d \in Calls : d # c => user'[d] = [user[d] EXCEPT !.fresh = FALSE]
  BY <1>2
<1>4. user'[c] = [user[c] EXCEPT !.at = s]
  BY <1>2
<1>5. user'[c] \in PluginUsers
  BY <1>1, <1>4 DEF PluginUsers
<1>6. ASSUME NEW d \in Calls, d # c
      PROVE  user'[d] \in PluginUsers
  <2>1. user[d] \in PluginUsers /\ user'[d] = [user[d] EXCEPT !.fresh = FALSE]
    BY <1>1, <1>3, <1>6
  <2> QED
    BY <2>1 DEF PluginUsers
<1>7. user' \in [Calls -> PluginUsers]
  BY <1>2, <1>5, <1>6
<1> QED
  BY <1>1, <1>3, <1>4, <1>7 DEF PluginUsers

\* A call goes to its end, or from its start to a refusal, and nothing else happens.
LEMMA QuietInv ==
  ASSUME PluginInv, Pl!PluginAssumption, NEW c \in Calls,
         user' \in [Calls -> PluginUsers], user'[c].at = "done",
         \A d \in Calls : d # c => user'[d] = user[d],
         UNCHANGED <<plugin, decided, tally, removed, reverted, ranOther>>,
         crossed' \in BOOLEAN, crossed' = FALSE => crossed = FALSE,
         registry' \in {registry, NoEntry}, dropped' \in 0..MaxFaults
  PROVE  PluginInv'
<1>1. Pl!TypeOK'
  BY PluginFacts DEF PluginInv, Pl!TypeOK, PluginUsers
<1>2. UserShape'
  BY DEF PluginInv, UserShape, Holding, MadeOf, PluginUsers
<1>3. NameShape'
  BY PluginFacts, PluginRow DEF PluginInv, UserShape, NameShape, Starting, Holding
<1>4. CodeOfRow' /\ RowTold'
  BY DEF PluginInv, CodeOfRow, RowTold
<1> QED
  BY <1>1, <1>2, <1>3, <1>4 DEF PluginInv

-----------------------------------------------------------------------------
\* A registration looks the name up.
LEMMA RegisterInv ==
  ASSUME PluginInv, Pl!PluginAssumption, NEW c \in Calls, Pl!Register(c)
  PROVE  PluginInv'
<1>1. /\ user[c].at = "idle"
      /\ UNCHANGED <<plugin, registry, decided, tally, removed, reverted, ranOther, crossed, dropped>>
  BY DEF Pl!Register, Pl!In
<1>2. /\ user' \in [Calls -> PluginUsers]
      /\ user'[c].at \in {"new", "done"} /\ user'[c].ask = <<"register">>
      /\ user'[c].copy = user[c].copy
      /\ \A d \in Calls : d # c => user'[d] = user[d]
  <2>1. user' = [user EXCEPT ![c] = [user[c] EXCEPT !.at = IF plugin = NoEntry THEN "new" ELSE "done",
                                                   !.ask = <<"register">>]]
    BY DEF Pl!Register
  <2>2. user \in [Calls -> PluginUsers] /\ <<"register">> \in Pl!AllAsks
    BY PluginFacts DEF Pl!AllAsks
  <2>3. user'[c] = [at |-> IF plugin = NoEntry THEN "new" ELSE "done", ask |-> <<"register">>,
                    copy |-> user[c].copy, fresh |-> user[c].fresh]
    BY <2>1, <2>2 DEF PluginUsers
  <2>4. user'[c] \in PluginUsers
    BY <2>2, <2>3 DEF PluginUsers, PluginPlaces
  <2> QED
    BY <2>1, <2>2, <2>3, <2>4
<1>3. Pl!TypeOK'
  BY <1>1, <1>2, PluginFacts DEF PluginInv, Pl!TypeOK, PluginUsers
<1>4. UserShape'
  BY <1>1, <1>2 DEF PluginInv, UserShape, Holding, MadeOf, PluginUsers
<1>5. NameShape'
  BY <1>1, <1>2, PluginFacts, PluginRow DEF PluginInv, UserShape, NameShape, Starting, Holding
<1>6. CodeOfRow' /\ RowTold'
  BY <1>1, <1>2 DEF PluginInv, CodeOfRow, RowTold
<1> QED
  BY <1>3, <1>4, <1>5, <1>6 DEF PluginInv

\* A registered plugin is saved.
LEMMA SaveNewInv ==
  ASSUME PluginInv, Pl!PluginAssumption, NEW c \in Calls, Pl!SaveNew(c)
  PROVE  PluginInv'
<1>1. user[c].at = "new" /\ UNCHANGED <<registry, removed, reverted, ranOther, crossed, dropped>>
  BY DEF Pl!SaveNew, Pl!In
<1>2. CASE plugin = NoEntry
  <2> DEFINE new == [id |-> c, status |-> "active", ran |-> 0, erred |-> 0]
  <2>1. /\ Pl!Commit(c, "stored") /\ plugin' = new
        /\ decided' = "active" /\ tally' = [ok |-> 0, bad |-> 0, twice |-> 0]
    BY <1>2 DEF Pl!SaveNew, Pl!NoTally
  <2>2. new \in Pl!Plugin /\ new # NoEntry
    BY PluginFacts DEF Pl!Plugin, Pl!Statuses
  <2>3. /\ user' \in [Calls -> PluginUsers]
        /\ user'[c].at = "stored" /\ user'[c].ask = user[c].ask /\ user'[c].copy = user[c].copy
        /\ \A d \in Calls : d # c =>
               /\ user'[d].at = user[d].at /\ user'[d].ask = user[d].ask
               /\ user'[d].copy = user[d].copy /\ user'[d].fresh = FALSE
    BY <2>1, PluginFacts, PluginCommits DEF PluginPlaces
  <2>4. Pl!TypeOK'
    BY <1>1, <2>1, <2>2, <2>3, PluginFacts DEF Pl!TypeOK, PluginUsers, PluginPlaces, Pl!Statuses,
         Pl!Plugin
  <2>5. UserShape'
    BY <1>1, <2>3 DEF PluginInv, UserShape, Holding, Pl!AllAsks, Pl!Plugin, Pl!Statuses, PluginUsers
  <2>6. NameShape'
    <3>1. \A d \in Calls : user'[d].at \in Holding =>
               user[d].at \in Holding /\ user'[d].copy = user[d].copy
      BY <2>3 DEF Holding
    <3>2. Starting' \subseteq Starting /\ c \notin Starting'
      BY <2>3 DEF Starting
    <3> QED
      BY <1>1, <2>1, <3>1, <3>2 DEF PluginInv, NameShape
  <2>7. CodeOfRow'
    BY <1>1, <1>2, <2>1, <2>2, <2>3 DEF PluginInv, CodeOfRow
  <2>8. RowTold'
    <3>1. c \notin removed
      BY <1>1 DEF PluginInv, NameShape, Starting
    <3> QED
      BY <1>1, <2>1, <2>2, <3>1 DEF RowTold
  <2> QED
    BY <2>4, <2>5, <2>6, <2>7, <2>8 DEF PluginInv
<1>3. CASE plugin # NoEntry
  <2>1. Pl!Move(c, "done") /\ UNCHANGED <<plugin, decided, tally>>
    BY <1>3 DEF Pl!SaveNew
  <2>2. /\ user' \in [Calls -> PluginUsers]
        /\ user'[c].at = "done" /\ user'[c].ask = user[c].ask /\ user'[c].copy = user[c].copy
        /\ \A d \in Calls : d # c => user'[d] = user[d]
    BY <2>1, PluginFacts, PluginMoves DEF PluginPlaces
  <2>3. /\ registry' \in {registry, NoEntry} /\ dropped' \in 0..MaxFaults
        /\ crossed' \in BOOLEAN /\ (crossed' = FALSE => crossed = FALSE)
    BY <1>1, PluginFacts
  <2> QED
    BY <1>1, <2>1, <2>2, <2>3, QuietInv
<1> QED
  BY <1>2, <1>3

\* The code of an inserted plugin is compiled into the registry.
LEMMA CompileInv ==
  ASSUME PluginInv, Pl!PluginAssumption, NEW c \in Calls, Pl!Compile(c)
  PROVE  PluginInv'
<1>1. /\ user[c].at = "stored" /\ Pl!Move(c, "done") /\ registry' = c
      /\ UNCHANGED <<plugin, decided, tally, removed, reverted, ranOther, crossed, dropped>>
  BY DEF Pl!Compile, Pl!In
<1>2. /\ user' \in [Calls -> PluginUsers]
      /\ user'[c].at = "done" /\ user'[c].ask = user[c].ask /\ user'[c].copy = user[c].copy
      /\ \A d \in Calls : d # c => user'[d] = user[d]
  BY <1>1, PluginFacts, PluginMoves DEF PluginPlaces
<1>3. Pl!TypeOK'
  BY <1>1, <1>2, PluginFacts DEF PluginInv, Pl!TypeOK, PluginUsers
<1>4. UserShape'
  BY <1>1, <1>2 DEF PluginInv, UserShape, Holding, MadeOf, PluginUsers
<1>5. NameShape'
  BY <1>1, <1>2, PluginFacts, PluginRow DEF PluginInv, UserShape, NameShape, Starting, Holding
<1>6. CodeOfRow' /\ RowTold'
  BY <1>1, <1>2 DEF PluginInv, CodeOfRow, RowTold
<1> QED
  BY <1>3, <1>4, <1>5, <1>6 DEF PluginInv

\* An execution finds the plugin by its name.
LEMMA FindByNameInv ==
  ASSUME PluginInv, Pl!PluginAssumption, NEW c \in Calls, Pl!FindByName(c)
  PROVE  PluginInv'
<1>1. PICK a \in PluginAsks[c] \ {<<"register">>} :
        user' = [user EXCEPT ![c] = [at |-> IF Pl!Refused(a) THEN "done" ELSE "read",
                                     ask |-> a, copy |-> plugin, fresh |-> TRUE]]
  BY DEF Pl!FindByName
<1>2. /\ user[c].at = "idle"
      /\ UNCHANGED <<plugin, registry, decided, tally, removed, reverted, ranOther, crossed, dropped>>
  BY DEF Pl!FindByName, Pl!In
<1>3. a \in Pl!AllAsks
  BY DEF Pl!PluginAssumption
<1>4. ~Pl!Refused(a) => plugin # NoEntry
  BY DEF Pl!Refused
<1>5. user'[c] = [at |-> IF Pl!Refused(a) THEN "done" ELSE "read", ask |-> a, copy |-> plugin, fresh |-> TRUE]
      /\ \A d \in Calls : d # c => user'[d] = user[d]
  BY <1>1, PluginFacts
<1>6. user' \in [Calls -> PluginUsers]
  <2>1. [at |-> IF Pl!Refused(a) THEN "done" ELSE "read", ask |-> a, copy |-> plugin, fresh |-> TRUE]
          \in PluginUsers
    BY <1>3, PluginFacts DEF PluginUsers, PluginPlaces
  <2> QED
    BY <1>1, <2>1, PluginFacts
<1>7. CASE Pl!Refused(a)
  <2>1. /\ registry' \in {registry, NoEntry} /\ dropped' \in 0..MaxFaults
        /\ crossed' \in BOOLEAN /\ (crossed' = FALSE => crossed = FALSE)
    BY <1>2, PluginFacts
  <2>2. user'[c].at = "done" /\ \A d \in Calls : d # c => user'[d] = user[d]
    BY <1>5, <1>7
  <2> QED
    BY <1>2, <1>6, <2>1, <2>2, QuietInv
<1>8. CASE ~Pl!Refused(a)
  <2>1. user'[c].at = "read" /\ user'[c].ask = a /\ user'[c].copy = plugin /\ user'[c].fresh = TRUE
        /\ plugin \in Pl!Plugin
    BY <1>4, <1>5, <1>8, PluginFacts
  <2>2. Pl!TypeOK'
    <3>1. \A d \in Calls : /\ user'[d].at \in PluginPlaces /\ user'[d].fresh \in BOOLEAN
                            /\ user'[d].copy \in Pl!Plugin \cup {NoEntry}
      BY <1>6 DEF PluginUsers
    <3> QED
      BY <1>2, <3>1, PluginFacts DEF Pl!TypeOK, PluginPlaces, Pl!Plugin, Pl!Statuses
  <2>3. MadeOf(user'[c].at, user'[c].copy, plugin)
    BY <2>1, PluginRow DEF MadeOf
  <2>4. UserShape'
    BY <1>2, <1>3, <1>5, <1>6, <2>1, <2>3 DEF PluginInv, UserShape, Holding, MadeOf, PluginUsers
  <2>5. NameShape'
    <3>1. Starting' \subseteq Starting
      BY <1>5, <2>1 DEF Starting
    <3>2. \A d \in Calls : user'[d].at \in Holding => user'[d].copy.id \notin Starting
      <4>1. plugin.id \notin Starting
        BY <2>1, PluginFacts DEF PluginInv, NameShape
      <4>2. \A d \in Calls : d # c /\ user'[d].at \in Holding => user'[d].copy.id \notin Starting
        BY <1>5 DEF PluginInv, NameShape
      <4> QED
        BY <2>1, <4>1, <4>2
    <3> QED
      BY <1>2, <3>1, <3>2 DEF PluginInv, NameShape
  <2>6. CodeOfRow' /\ RowTold'
    BY <1>2, <1>4, <1>5, <1>8, <2>1 DEF PluginInv, CodeOfRow, RowTold
  <2> QED
    BY <2>2, <2>4, <2>5, <2>6 DEF PluginInv
<1> QED
  BY <1>7, <1>8

\* A call works on its copy.
LEMMA WorkOnCopy ==
  ASSUME PluginInv, Pl!PluginAssumption, NEW c \in Calls,
         user[c].at \in {"read", "ran"}, NEW s \in Holding \ {"read"},
         NEW r \in Pl!Plugin, r.id = user[c].copy.id,
         user' \in [Calls -> PluginUsers],
         user'[c].at = s, user'[c].copy = r, user'[c].fresh = user[c].fresh,
         \A d \in Calls : d # c => user'[d] = user[d],
         user[c].fresh = TRUE => MadeOf(s, r, plugin),
         UNCHANGED <<plugin, decided, tally, removed, reverted, crossed>>,
         registry' \in Calls \cup {NoEntry}, ranOther' \subseteq Calls, dropped' \in 0..MaxFaults,
         crossed = FALSE => /\ registry' # NoEntry => plugin # NoEntry /\ registry' = plugin.id
                            /\ ranOther' = {}
  PROVE  PluginInv'
<1>3. Pl!TypeOK'
  <2>1. \A d \in Calls : /\ user'[d].at \in PluginPlaces /\ user'[d].fresh \in BOOLEAN
                          /\ user'[d].copy \in Pl!Plugin \cup {NoEntry}
    BY DEF PluginUsers
  <2>2. /\ plugin' \in Pl!Plugin \cup {NoEntry} /\ decided' \in Pl!Statuses
        /\ tally' \in [ok : Nat, bad : Nat, twice : Nat] /\ removed' \subseteq Calls
        /\ reverted' \in BOOLEAN /\ crossed' \in BOOLEAN
    BY PluginFacts
  <2> QED
    BY <2>1, <2>2 DEF Pl!TypeOK, PluginPlaces, Pl!Plugin, Pl!Statuses
<1>4. UserShape'
  <2> SUFFICES ASSUME NEW d \in Calls
      PROVE  /\ user'[d].at = "read" => user'[d].ask \in Pl!AllAsks
             /\ user'[d].at \in Holding => user'[d].copy \in Pl!Plugin
             /\ user'[d].at \in Holding /\ user'[d].fresh = TRUE =>
                    plugin \in Pl!Plugin /\ MadeOf(user'[d].at, user'[d].copy, plugin)
    BY DEF UserShape, Pl!AllAsks, Pl!Plugin, Pl!Statuses, PluginUsers, PluginPlaces, Holding, MadeOf
  <2>1. CASE d = c
    <3>1. user[c].fresh = TRUE => plugin \in Pl!Plugin
      BY DEF PluginInv, UserShape, Holding
    <3>2. user'[c].at # "read"
      OBVIOUS
    <3>3. user'[c].fresh = TRUE => plugin \in Pl!Plugin
            /\ MadeOf(user'[c].at, user'[c].copy, plugin)
      BY <3>1
    <3> QED
      BY <2>1, <3>2, <3>3
  <2>2. CASE d # c
    BY <2>2 DEF PluginInv, UserShape
  <2> QED
    BY <2>1, <2>2
<1>5. NameShape'
  <2>1. Starting' \subseteq Starting
    BY DEF Starting, Holding
  <2>2. \A d \in Calls : user'[d].at \in Holding => user'[d].copy.id \notin Starting
    BY DEF Holding, PluginInv, NameShape
  <2> QED
    BY <2>1, <2>2 DEF PluginInv, NameShape
<1>6. CodeOfRow'
  <2>1. \A d \in Calls : user'[d].at \in {"stored", "read"} => user'[d] = user[d]
    BY DEF Holding
  <2> QED
    BY <2>1 DEF PluginInv, CodeOfRow
<1>7. RowTold'
  BY DEF PluginInv, RowTold
<1> QED
  BY <1>3, <1>4, <1>5, <1>6, <1>7 DEF PluginInv

\* What a call that has read or run holds.
LEMMA HeldCopy ==
  ASSUME PluginInv, Pl!PluginAssumption, NEW c \in Calls, user[c].at \in {"read", "ran"}
  PROVE  /\ user[c] \in PluginUsers /\ user[c].copy \in Pl!Plugin
         /\ user[c].fresh = TRUE => plugin \in Pl!Plugin /\ MadeOf(user[c].at, user[c].copy, plugin)
         /\ user[c] = [at |-> user[c].at, ask |-> user[c].ask, copy |-> user[c].copy,
                       fresh |-> user[c].fresh]
<1>1. user[c] \in PluginUsers
  BY PluginFacts
<1>2. user[c].at \in Holding
  BY DEF Holding
<1> QED
  BY <1>1, <1>2 DEF PluginInv, UserShape, PluginUsers

\* The code in the registry runs, or throws.
LEMMA ExecutePluginInv ==
  ASSUME PluginInv, Pl!PluginAssumption, NEW c \in Calls, Pl!Execute(c)
  PROVE  PluginInv'
<1> DEFINE k == user[c].copy
           its == IF registry = NoEntry THEN k.id ELSE registry
<1>1. /\ user[c].at = "read" /\ user[c].ask = <<"run">>
      /\ registry' = its
      /\ ranOther' = IF its = k.id THEN ranOther ELSE ranOther \cup {c}
      /\ UNCHANGED <<plugin, decided, tally, removed, reverted, crossed, dropped>>
  BY DEF Pl!Execute, Pl!In
<1>2. k \in Pl!Plugin /\ k.id \in Calls /\ k.status \in Pl!Statuses /\ k.ran \in Nat
        /\ k.erred \in Nat
      /\ k = [id |-> k.id, status |-> k.status, ran |-> k.ran, erred |-> k.erred]
  BY <1>1, HeldCopy, PluginRow
<1>3. crossed = FALSE =>
          /\ registry' # NoEntry => plugin # NoEntry /\ registry' = plugin.id
          /\ ranOther' = {}
  BY <1>1 DEF PluginInv, CodeOfRow
<1>4. registry' \in Calls \cup {NoEntry} /\ ranOther' \subseteq Calls /\ dropped' \in 0..MaxFaults
  BY <1>1, <1>2, PluginFacts
<1>5. PICK s \in {"ran", "threw"} :
        user' = [user EXCEPT ![c] = [user[c] EXCEPT !.at = s,
                    !.copy = IF s = "ran" THEN [k EXCEPT !.ran = k.ran + 1]
                             ELSE [k EXCEPT !.erred = k.erred + 1]]]
  <2>1. CASE user' = [user EXCEPT ![c].at = "ran", ![c].copy.ran = @ + 1]
    <3>1. user' = [user EXCEPT ![c] = [user[c] EXCEPT !.at = "ran", !.copy = [k EXCEPT !.ran = k.ran + 1]]]
      BY <2>1, <1>1, HeldCopy, PluginFacts DEF PluginUsers
    <3> QED
      BY <3>1
  <2>2. CASE user' = [user EXCEPT ![c].at = "threw", ![c].copy.erred = @ + 1]
    <3>1. user' = [user EXCEPT ![c] = [user[c] EXCEPT !.at = "threw", !.copy = [k EXCEPT !.erred = k.erred + 1]]]
      BY <2>2, <1>1, HeldCopy, PluginFacts DEF PluginUsers
    <3> QED
      BY <3>1
  <2> QED
    BY <2>1, <2>2 DEF Pl!Execute
<1> DEFINE r == IF s = "ran" THEN [k EXCEPT !.ran = k.ran + 1] ELSE [k EXCEPT !.erred = k.erred + 1]
<1>6. /\ r \in Pl!Plugin /\ r.id = k.id /\ r.status = k.status
      /\ r.ran = k.ran + (IF s = "ran" THEN 1 ELSE 0)
      /\ r.erred = k.erred + (IF s = "threw" THEN 1 ELSE 0)
  <2>1. CASE s = "ran"
    <3>1. r = [id |-> k.id, status |-> k.status, ran |-> k.ran + 1, erred |-> k.erred]
      BY <1>2, <2>1
    <3> QED
      BY <1>2, <2>1, <3>1 DEF Pl!Plugin
  <2>2. CASE s = "threw"
    <3>1. r = [id |-> k.id, status |-> k.status, ran |-> k.ran, erred |-> k.erred + 1]
      BY <1>2, <2>2
    <3> QED
      BY <1>2, <2>2, <3>1 DEF Pl!Plugin
  <2> QED
    BY <2>1, <2>2
<1>7. /\ user' \in [Calls -> PluginUsers]
      /\ user'[c].at = s /\ user'[c].copy = r /\ user'[c].fresh = user[c].fresh
      /\ \A d \in Calls : d # c => user'[d] = user[d]
  <2> HIDE DEF r
  <2>1. user' = [user EXCEPT ![c] = [user[c] EXCEPT !.at = s, !.copy = r]]
    BY <1>5 DEF r
  <2>2. [user[c] EXCEPT !.at = s, !.copy = r] \in PluginUsers
    BY <1>1, <1>6, HeldCopy DEF PluginUsers, PluginPlaces
  <2>3. user'[c] = [user[c] EXCEPT !.at = s, !.copy = r]
    BY <2>1, PluginFacts
  <2> QED
    BY <1>1, <2>1, <2>2, <2>3, HeldCopy, PluginFacts DEF PluginUsers
<1>8. ASSUME user[c].fresh = TRUE PROVE MadeOf(s, r, plugin)
  <2>1. plugin \in Pl!Plugin /\ MadeOf(user[c].at, user[c].copy, plugin)
    BY <1>1, <1>8, HeldCopy
  <2>3. plugin.ran \in Nat /\ plugin.erred \in Nat
    BY <2>1, PluginRow
  <2> HIDE DEF r
  <2> QED
    BY <1>1, <1>2, <1>6, <2>1, <2>3 DEF MadeOf
<1> HIDE DEF r, its
<1> QED
  BY <1>1, <1>3, <1>4, <1>6, <1>7, <1>8, WorkOnCopy DEF Holding

\* A change of status is made to the copy, and "inactive" forgets the function.
LEMMA SetStatusInv ==
  ASSUME PluginInv, Pl!PluginAssumption, NEW c \in Calls, Pl!SetStatus(c)
  PROVE  PluginInv'
<1> DEFINE k == user[c].copy
           to == user[c].ask[2]
           r == [k EXCEPT !.status = to]
<1>1. /\ user[c].at = "read" /\ user[c].ask[1] = "status"
      /\ registry' = IF to = "inactive" THEN NoEntry ELSE registry
      /\ user' = [user EXCEPT ![c].at = "set", ![c].copy.status = to]
      /\ UNCHANGED <<plugin, decided, tally, removed, reverted, ranOther, crossed, dropped>>
  BY DEF Pl!SetStatus, Pl!In
<1>2. k \in Pl!Plugin /\ k.id \in Calls /\ k.status \in Pl!Statuses /\ k.ran \in Nat
        /\ k.erred \in Nat
      /\ k = [id |-> k.id, status |-> k.status, ran |-> k.ran, erred |-> k.erred]
  BY <1>1, HeldCopy, PluginRow
<1>3. to \in Pl!Statuses
  <2>1. user[c].ask \in Pl!AllAsks
    BY <1>1 DEF PluginInv, UserShape
  <2>2. <<"register">>[1] # "status" /\ <<"run">>[1] # "status" /\ <<"delete">>[1] # "status"
    OBVIOUS
  <2>3. user[c].ask \in {"status"} \X Pl!Statuses
    BY <1>1, <2>1, <2>2 DEF Pl!AllAsks
  <2> QED
    BY <2>3
<1> HIDE DEF to
<1>4. r = [id |-> k.id, status |-> to, ran |-> k.ran, erred |-> k.erred]
  BY <1>2
<1>5. r \in Pl!Plugin /\ r.id = k.id /\ r.ran = k.ran /\ r.erred = k.erred
  BY <1>2, <1>3, <1>4 DEF Pl!Plugin
<1>7. /\ user' \in [Calls -> PluginUsers]
      /\ user'[c].at = "set" /\ user'[c].copy = r /\ user'[c].fresh = user[c].fresh
      /\ \A d \in Calls : d # c => user'[d] = user[d]
  <2>1. user' = [user EXCEPT ![c] = [user[c] EXCEPT !.at = "set", !.copy = r]]
    BY <1>1, HeldCopy, PluginFacts DEF PluginUsers
  <2> HIDE DEF r
  <2>2. [user[c] EXCEPT !.at = "set", !.copy = r] \in PluginUsers
    BY <1>1, <1>5, HeldCopy DEF PluginUsers, PluginPlaces
  <2>3. user'[c] = [user[c] EXCEPT !.at = "set", !.copy = r]
    BY <2>1, PluginFacts
  <2>4. user'[c].at = "set" /\ user'[c].copy = r /\ user'[c].fresh = user[c].fresh
    <3>1. user[c] = [at |-> user[c].at, ask |-> user[c].ask, copy |-> user[c].copy,
                     fresh |-> user[c].fresh]
      BY <1>1, HeldCopy
    <3>2. user'[c] = [at |-> "set", ask |-> user[c].ask, copy |-> r, fresh |-> user[c].fresh]
      BY <2>3, <3>1
    <3> QED
      BY <3>2
  <2>5. user \in [Calls -> PluginUsers]
    BY PluginFacts
  <2>6. user' \in [Calls -> PluginUsers] /\ \A d \in Calls : d # c => user'[d] = user[d]
    BY <2>1, <2>2, <2>5
  <2> QED
    BY <2>4, <2>6
<1> HIDE DEF r
<1>8. ASSUME user[c].fresh = TRUE PROVE MadeOf("set", r, plugin)
  <2>1. plugin \in Pl!Plugin /\ MadeOf(user[c].at, user[c].copy, plugin)
    BY <1>1, <1>8, HeldCopy
  <2>3. plugin.ran \in Nat /\ plugin.erred \in Nat
    BY <2>1, PluginRow
  <2> QED
    BY <1>1, <1>2, <1>5, <2>1, <2>3 DEF MadeOf
<1>9. /\ registry' \in Calls \cup {NoEntry}
      /\ crossed = FALSE => /\ registry' # NoEntry => plugin # NoEntry /\ registry' = plugin.id
                            /\ ranOther' = {}
  BY <1>1, PluginFacts DEF PluginInv, CodeOfRow
<1>10. /\ user[c].at \in {"read", "ran"} /\ "set" \in Holding \ {"read"}
       /\ ranOther' \subseteq Calls /\ dropped' \in 0..MaxFaults
  BY <1>1, PluginFacts DEF Holding
<1> HIDE DEF k
<1>11. r.id = user[c].copy.id
  BY <1>5 DEF k
<1>12. UNCHANGED <<plugin, decided, tally, removed, reverted, crossed>>
  BY <1>1
<1>13. user[c].fresh = TRUE => MadeOf("set", r, plugin)
  BY <1>8
<1>14. r \in Pl!Plugin
  BY <1>5
<1> QED
  BY <1>7, <1>9, <1>10, <1>11, <1>12, <1>13, <1>14, WorkOnCopy

\* A call that may save holds a row of its own.
LEMMA SavedCopy ==
  ASSUME PluginInv, Pl!PluginAssumption, NEW c \in Calls,
         user[c].at \in {"ran", "threw", "twice", "set"}
  PROVE  /\ user[c] \in PluginUsers /\ user[c].copy \in Pl!Plugin
         /\ user[c].copy.id \notin Starting
         /\ user[c].fresh = TRUE => plugin \in Pl!Plugin /\ MadeOf(user[c].at, user[c].copy, plugin)
<1>1. user[c] \in PluginUsers
  BY PluginFacts
<1>2. user[c].at \in Holding
  BY DEF Holding
<1> QED
  BY <1>1, <1>2 DEF PluginInv, UserShape, NameShape

\* The row is saved as it was read, with the change.
LEMMA SavePluginInv ==
  ASSUME PluginInv, Pl!PluginAssumption, NEW c \in Calls, Pl!SavePlugin(c)
  PROVE  PluginInv'
<1> DEFINE k == user[c].copy
<1>1. /\ user[c].at \in {"ran", "threw", "twice", "set"} /\ ~(plugin # NoEntry /\ plugin.id # k.id)
      /\ Pl!Commit(c, "done") /\ plugin' = k
      /\ decided' = IF user[c].at = "set" THEN k.status ELSE decided
      /\ tally' = Pl!Counted(tally, user[c].at)
      /\ reverted' = (reverted \/ ~user[c].fresh)
      /\ UNCHANGED <<registry, removed, ranOther, crossed, dropped>>
  BY DEF Pl!SavePlugin, Pl!Saves, Pl!In
<1>2. k \in Pl!Plugin /\ k.id \in Calls /\ k.status \in Pl!Statuses /\ k.ran \in Nat
        /\ k.erred \in Nat
      /\ k # NoEntry /\ k.id \notin Starting
  BY <1>1, SavedCopy, PluginRow, PluginFacts
<1>3. /\ user' \in [Calls -> PluginUsers]
      /\ user'[c].at = "done" /\ user'[c].ask = user[c].ask /\ user'[c].copy = user[c].copy
      /\ \A d \in Calls : d # c =>
             /\ user'[d].at = user[d].at /\ user'[d].ask = user[d].ask
             /\ user'[d].copy = user[d].copy /\ user'[d].fresh = FALSE
  BY <1>1, PluginFacts, PluginCommits DEF PluginPlaces
<1> HIDE DEF k
<1>4. /\ tally'.ok = tally.ok + (IF user[c].at = "ran" THEN 1 ELSE 0)
      /\ tally'.bad = tally.bad + (IF user[c].at \in {"threw", "twice"} THEN 1 ELSE 0)
      /\ tally'.twice = tally.twice + (IF user[c].at = "twice" THEN 1 ELSE 0)
      /\ tally' \in [ok : Nat, bad : Nat, twice : Nat]
      /\ tally.ok \in Nat /\ tally.bad \in Nat /\ tally.twice \in Nat
  <2> DEFINE w == user[c].at
  <2>1. tally \in [ok : Nat, bad : Nat, twice : Nat]
    BY PluginFacts
  <2>2. w \in {"ran", "threw", "twice", "set"} /\ tally' = Pl!Counted(tally, w)
    BY <1>1
  <2> HIDE DEF w
  <2>3. CASE w = "ran"
    <3>1. tally' = [tally EXCEPT !.ok = tally.ok + 1]
      BY <2>2, <2>3 DEF Pl!Counted
    <3> QED
      BY <2>1, <2>3, <3>1 DEF w
  <2>4. CASE w = "threw"
    <3>1. tally' = [tally EXCEPT !.bad = tally.bad + 1]
      BY <2>2, <2>4 DEF Pl!Counted
    <3> QED
      BY <2>1, <2>4, <3>1 DEF w
  <2>5. CASE w = "twice"
    <3>1. tally' = [ok |-> tally.ok, bad |-> tally.bad + 1, twice |-> tally.twice + 1]
      BY <2>1, <2>2, <2>5 DEF Pl!Counted
    <3> QED
      BY <2>1, <2>5, <3>1 DEF w
  <2>6. CASE w = "set"
    <3>1. tally' = tally
      BY <2>2, <2>6 DEF Pl!Counted
    <3> QED
      BY <2>1, <2>6, <3>1 DEF w
  <2> QED
    BY <2>2, <2>3, <2>4, <2>5, <2>6
<1>5. reverted' \in BOOLEAN /\ (reverted' = FALSE => reverted = FALSE /\ user[c].fresh = TRUE)
  <2>1. user[c].fresh \in BOOLEAN /\ reverted \in BOOLEAN
    BY PluginFacts DEF PluginUsers
  <2> QED
    BY <1>1, <2>1
<1>6. Pl!TypeOK'
  <2>1. \A d \in Calls : /\ user'[d].at \in PluginPlaces /\ user'[d].fresh \in BOOLEAN
                          /\ user'[d].copy \in Pl!Plugin \cup {NoEntry}
    BY <1>3 DEF PluginUsers
  <2>2. plugin' \in Pl!Plugin /\ decided' \in Pl!Statuses
    BY <1>1, <1>2, PluginFacts
  <2>3. /\ registry' \in Calls \cup {NoEntry} /\ removed' \subseteq Calls
             /\ ranOther' \subseteq Calls
        /\ crossed' \in BOOLEAN /\ dropped' \in 0..MaxFaults
    BY <1>1, PluginFacts
  <2> QED
    BY <1>4, <1>5, <2>1, <2>2, <2>3 DEF Pl!TypeOK, PluginPlaces, Pl!Plugin, Pl!Statuses
<1>7. UserShape'
  BY <1>3 DEF PluginInv, UserShape, Holding, Pl!AllAsks, Pl!Plugin, Pl!Statuses, PluginUsers
<1>8. NameShape'
  <2>1. \A d \in Calls : user'[d].at \in Holding =>
             user[d].at \in Holding /\ user'[d].copy = user[d].copy
    BY <1>3 DEF Holding
  <2>2. Starting' \subseteq Starting
    BY <1>3 DEF Starting
  <2> QED
    BY <1>1, <1>2, <2>1, <2>2 DEF PluginInv, NameShape
<1>9. CodeOfRow'
  <2>1. plugin # NoEntry => plugin'.id = plugin.id
    BY <1>1
  <2>2. \A d \in Calls : user'[d].at \in {"stored", "read"} =>
            user'[d].at = user[d].at /\ user'[d].ask = user[d].ask /\ user'[d].copy = user[d].copy
    BY <1>3
  <2> QED
    BY <1>1, <1>2, <2>1, <2>2 DEF PluginInv, CodeOfRow
<1>10. RowTold'
  <2> SUFFICES ASSUME reverted' = FALSE
      PROVE  /\ plugin'.status = decided' /\ plugin'.id \notin removed'
             /\ plugin'.ran = tally'.ok + tally'.twice /\ plugin'.erred = tally'.bad
    BY DEF RowTold
  <2>1. plugin \in Pl!Plugin /\ plugin # NoEntry /\ MadeOf(user[c].at, k, plugin)
    BY <1>1, <1>5, SavedCopy, PluginFacts DEF k
  <2>2. /\ plugin.status = decided /\ plugin.id \notin removed
        /\ plugin.ran = tally.ok + tally.twice /\ plugin.erred = tally.bad
    BY <1>5, <2>1 DEF PluginInv, RowTold
  <2>3. plugin'.status = decided' /\ plugin'.id \notin removed'
    BY <1>1, <2>1, <2>2 DEF MadeOf
  <2>4. plugin'.ran = tally'.ok + tally'.twice /\ plugin'.erred = tally'.bad
    BY <1>1, <1>4, <2>1, <2>2 DEF MadeOf
  <2> QED
    BY <2>3, <2>4
<1> QED
  BY <1>6, <1>7, <1>8, <1>9, <1>10 DEF PluginInv

\* The save of a run that had succeeded fails, and counts as a failed run.
LEMMA SaveFailsInv ==
  ASSUME PluginInv, Pl!PluginAssumption, NEW c \in Calls, Pl!SaveFails(c)
  PROVE  PluginInv'
<1>1. /\ user[c].at \in {"ran", "threw", "twice", "set"}
      /\ UNCHANGED <<plugin, registry, decided, tally, removed, reverted, ranOther, crossed>>
  BY DEF Pl!SaveFails
<1>2. registry' \in {registry, NoEntry} /\ dropped' \in 0..MaxFaults /\ crossed' \in BOOLEAN
      /\ registry' \in Calls \cup {NoEntry} /\ ranOther' \subseteq Calls
  BY <1>1, PluginFacts DEF Pl!SaveFails, Pl!PluginAssumption
<1>3. CASE user[c].at # "ran"
  <2>1. Pl!Move(c, "done")
    BY <1>3 DEF Pl!SaveFails, Pl!In, Pl!Move
  <2>2. /\ user' \in [Calls -> PluginUsers]
        /\ user'[c].at = "done" /\ user'[c].ask = user[c].ask /\ user'[c].copy = user[c].copy
        /\ \A d \in Calls : d # c => user'[d] = user[d]
    BY <2>1, PluginFacts, PluginMoves DEF PluginPlaces
  <2> QED
    BY <1>1, <1>2, <2>2, QuietInv
<1>4. CASE user[c].at = "ran"
  <2> DEFINE k == user[c].copy
             r == [k EXCEPT !.erred = k.erred + 1]
  <2>1. k \in Pl!Plugin /\ k.id \in Calls /\ k.status \in Pl!Statuses /\ k.ran \in Nat
          /\ k.erred \in Nat
        /\ k = [id |-> k.id, status |-> k.status, ran |-> k.ran, erred |-> k.erred]
    BY <1>4, HeldCopy, PluginRow
  <2>2. user' = [user EXCEPT ![c].at = "twice", ![c].copy.erred = @ + 1]
    BY <1>4 DEF Pl!SaveFails, Pl!In
  <2>3. user' = [user EXCEPT ![c] = [user[c] EXCEPT !.at = "twice", !.copy = r]]
    BY <2>2, <1>4, HeldCopy, PluginFacts DEF PluginUsers
  <2>4. r = [id |-> k.id, status |-> k.status, ran |-> k.ran, erred |-> k.erred + 1]
    BY <2>1
  <2>5. r \in Pl!Plugin /\ r.id = k.id /\ r.status = k.status /\ r.ran = k.ran
          /\ r.erred = k.erred + 1
    BY <2>1, <2>4 DEF Pl!Plugin
  <2> HIDE DEF r
  <2>6. /\ user' \in [Calls -> PluginUsers]
        /\ user'[c].at = "twice" /\ user'[c].copy = r /\ user'[c].fresh = user[c].fresh
        /\ \A d \in Calls : d # c => user'[d] = user[d]
    <3>1. user[c] = [at |-> user[c].at, ask |-> user[c].ask, copy |-> user[c].copy,
                     fresh |-> user[c].fresh] /\ user[c] \in PluginUsers
      BY <1>4, HeldCopy
    <3>2. user'[c] = [user[c] EXCEPT !.at = "twice", !.copy = r]
      BY <2>3, PluginFacts
    <3>3. user'[c] = [at |-> "twice", ask |-> user[c].ask, copy |-> r, fresh |-> user[c].fresh]
      <4> HIDE DEF k
      <4> QED
        BY <3>1, <3>2
    <3>4. user'[c] \in PluginUsers
      BY <3>1, <3>3, <2>5 DEF PluginUsers, PluginPlaces
    <3>5. user' \in [Calls -> PluginUsers] /\ \A d \in Calls : d # c => user'[d] = user[d]
      <4>1. [user[c] EXCEPT !.at = "twice", !.copy = r] \in PluginUsers
        BY <3>2, <3>4
      <4>2. user \in [Calls -> PluginUsers]
        BY PluginFacts
      <4> QED
        BY <2>3, <4>1, <4>2
    <3> QED
      BY <3>3, <3>5
  <2>7. ASSUME user[c].fresh = TRUE PROVE MadeOf("twice", r, plugin)
    <3>1. plugin \in Pl!Plugin /\ MadeOf(user[c].at, user[c].copy, plugin)
      BY <1>4, <2>7, HeldCopy
    <3>2. plugin.ran \in Nat /\ plugin.erred \in Nat
      BY <3>1, PluginRow
    <3> QED
      BY <1>4, <2>1, <2>5, <3>1, <3>2 DEF MadeOf
  <2>8. "twice" \in Holding \ {"read"} /\ r.id = user[c].copy.id
    BY <2>5 DEF Holding
  <2>9. crossed = FALSE => /\ registry' # NoEntry => plugin # NoEntry /\ registry' = plugin.id
                           /\ ranOther' = {}
    BY <1>1 DEF PluginInv, CodeOfRow
  <2> HIDE DEF k
  <2> QED
    BY <1>1, <1>2, <1>4, <2>5, <2>6, <2>7, <2>8, <2>9, WorkOnCopy
<1> QED
  BY <1>3, <1>4

\* The registry forgets the code of a plugin.
LEMMA PluginForgetInv ==
  ASSUME PluginInv, Pl!PluginAssumption, NEW c \in Calls, Pl!Forget(c)
  PROVE  PluginInv'
<1>1. /\ user[c].at = "read" /\ Pl!Move(c, "forgot") /\ registry' = NoEntry
      /\ UNCHANGED <<plugin, decided, tally, removed, reverted, ranOther, crossed, dropped>>
  BY DEF Pl!Forget, Pl!In
<1>2. /\ user' \in [Calls -> PluginUsers]
      /\ user'[c].at = "forgot" /\ user'[c].copy = user[c].copy /\ user'[c].fresh = user[c].fresh
      /\ \A d \in Calls : d # c => user'[d] = user[d]
  BY <1>1, PluginFacts, PluginMoves DEF PluginPlaces
<1>3. user[c].copy \in Pl!Plugin /\ (user[c].fresh = TRUE => MadeOf("forgot", user[c].copy, plugin))
  BY <1>1, HeldCopy DEF MadeOf
<1>4. crossed = FALSE => ranOther' = {}
  BY <1>1 DEF PluginInv, CodeOfRow
<1>5. "forgot" \in Holding \ {"read"} /\ registry' \in Calls \cup {NoEntry}
      /\ ranOther' \subseteq Calls /\ dropped' \in 0..MaxFaults
  BY <1>1, PluginFacts DEF Holding
<1> QED
  BY <1>1, <1>2, <1>3, <1>4, <1>5, WorkOnCopy

\* The row of a plugin is removed.
LEMMA RemoveInv ==
  ASSUME PluginInv, Pl!PluginAssumption, NEW c \in Calls, Pl!Remove(c)
  PROVE  PluginInv'
<1>1. /\ user[c].at = "forgot"
      /\ crossed' = (crossed \/ registry # NoEntry \/ \E d \in Calls : Pl!Compiles(d))
      /\ UNCHANGED <<registry, decided, tally, reverted, ranOther, dropped>>
  BY DEF Pl!Remove, Pl!In
<1>2. crossed' \in BOOLEAN /\ (crossed' = FALSE => crossed = FALSE)
  BY <1>1, PluginFacts
<1>3. CASE ~(plugin # NoEntry /\ plugin.id = user[c].copy.id)
  <2>1. Pl!Move(c, "done") /\ UNCHANGED <<plugin, removed>>
    BY <1>3 DEF Pl!Remove
  <2>2. /\ user' \in [Calls -> PluginUsers] /\ user'[c].at = "done"
        /\ \A d \in Calls : d # c => user'[d] = user[d]
    BY <2>1, PluginFacts, PluginMoves DEF PluginPlaces
  <2>3. registry' \in {registry, NoEntry} /\ dropped' \in 0..MaxFaults
    BY <1>1, PluginFacts
  <2> QED
    BY <1>1, <1>2, <2>1, <2>2, <2>3, QuietInv
<1>4. CASE plugin # NoEntry /\ plugin.id = user[c].copy.id
  <2>1. Pl!Commit(c, "done") /\ plugin' = NoEntry /\ removed' = removed \cup {plugin.id}
    BY <1>4 DEF Pl!Remove
  <2>2. /\ user' \in [Calls -> PluginUsers]
        /\ user'[c].at = "done" /\ user'[c].ask = user[c].ask /\ user'[c].copy = user[c].copy
        /\ \A d \in Calls : d # c =>
               /\ user'[d].at = user[d].at /\ user'[d].ask = user[d].ask
               /\ user'[d].copy = user[d].copy /\ user'[d].fresh = FALSE
    BY <2>1, PluginFacts, PluginCommits DEF PluginPlaces
  <2>3. plugin.id \in Calls /\ plugin.id \notin Starting
    BY <1>4, PluginFacts, PluginRow DEF PluginInv, NameShape
  <2>4. Pl!TypeOK'
    <3>1. \A d \in Calls : /\ user'[d].at \in PluginPlaces /\ user'[d].fresh \in BOOLEAN
                            /\ user'[d].copy \in Pl!Plugin \cup {NoEntry}
      BY <2>2 DEF PluginUsers
    <3>2. /\ registry' \in Calls \cup {NoEntry} /\ decided' \in Pl!Statuses
          /\ tally' \in [ok : Nat, bad : Nat, twice : Nat] /\ removed' \subseteq Calls
          /\ ranOther' \subseteq Calls /\ reverted' \in BOOLEAN /\ dropped' \in 0..MaxFaults
      BY <1>1, <2>1, <2>3, PluginFacts
    <3> QED
      BY <1>2, <2>1, <3>1, <3>2 DEF Pl!TypeOK, PluginPlaces, Pl!Plugin, Pl!Statuses
  <2>5. UserShape'
    BY <2>2 DEF PluginInv, UserShape, Holding, Pl!AllAsks, Pl!Plugin, Pl!Statuses, PluginUsers
  <2>6. NameShape'
    <3>1. \A d \in Calls : user'[d].at \in Holding =>
               user[d].at \in Holding /\ user'[d].copy = user[d].copy
      BY <2>2 DEF Holding
    <3>2. Starting' \subseteq Starting
      BY <2>2 DEF Starting
    <3> QED
      BY <2>1, <2>3, <3>1, <3>2 DEF PluginInv, NameShape
  <2>7. CodeOfRow'
    <3> SUFFICES ASSUME crossed' = FALSE
        PROVE  /\ registry' = NoEntry /\ ranOther' = {}
               /\ \A d \in Calls : /\ user'[d].at # "stored"
                                   /\ ~(user'[d].at = "read" /\ user'[d].ask = <<"run">>)
      BY DEF CodeOfRow
    <3>1. registry = NoEntry /\ \A d \in Calls : ~Pl!Compiles(d)
      BY <1>1
    <3>2. ranOther = {}
      BY <1>2 DEF PluginInv, CodeOfRow
    <3>3. \A d \in Calls : user[d].at # "stored" /\ ~(user[d].at = "read"
            /\ user[d].ask = <<"run">>)
      BY <3>1 DEF Pl!Compiles, Pl!In
    <3> QED
      BY <1>1, <2>2, <3>1, <3>2, <3>3
  <2>8. RowTold'
    BY <2>1 DEF RowTold
  <2> QED
    BY <2>4, <2>5, <2>6, <2>7, <2>8 DEF PluginInv
<1> QED
  BY <1>3, <1>4

\* The invariant holds in every state of a registry.
LEMMA PluginInvariance ==
  ASSUME Pl!PluginAssumption
  PROVE  Pl!Spec => []PluginInv
<1>1. ASSUME Pl!Init
      PROVE  PluginInv
  <2>1. /\ plugin = NoEntry /\ registry = NoEntry /\ decided = "active" /\ removed = {}
        /\ tally = [ok |-> 0, bad |-> 0, twice |-> 0]
        /\ reverted = FALSE /\ ranOther = {} /\ crossed = FALSE /\ dropped = 0
        /\ user = [c \in Calls |-> [at |-> "idle", ask |-> <<>>, copy |-> NoEntry, fresh |-> TRUE]]
    BY <1>1 DEF Pl!Init, Pl!NoTally
  <2>2. Pl!TypeOK
    <3>1. \A c \in Calls : user[c].at = "idle" /\ user[c].copy = NoEntry /\ user[c].fresh = TRUE
      BY <2>1
    <3>2. dropped \in 0..MaxFaults /\ tally \in [ok : Nat, bad : Nat, twice : Nat]
      BY <2>1 DEF Pl!PluginAssumption
    <3> QED
      BY <2>1, <3>1, <3>2 DEF Pl!TypeOK, Pl!Statuses
  <2>3. UserShape
    BY <2>1 DEF UserShape, PluginUsers, PluginPlaces, Holding
  <2>4. NameShape
    BY <2>1 DEF NameShape, Holding
  <2>5. CodeOfRow /\ RowTold
    BY <2>1 DEF CodeOfRow, RowTold
  <2> QED
    BY <2>2, <2>3, <2>4, <2>5 DEF PluginInv
<1>2. ASSUME PluginInv, [Pl!Next]_(Pl!vars)
      PROVE  PluginInv'
  <2>1. CASE UNCHANGED Pl!vars
    BY <1>2, <2>1 DEF Pl!vars, PluginInv, Pl!TypeOK, UserShape, Holding, MadeOf, NameShape,
         Starting,
       CodeOfRow, RowTold
  <2>2. ASSUME NEW c \in Calls, Pl!Step(c)
        PROVE  PluginInv'
    <3> USE <1>2
    <3>1. CASE Pl!Register(c)
      BY <3>1, RegisterInv
    <3>2. CASE Pl!SaveNew(c)
      BY <3>2, SaveNewInv
    <3>3. CASE Pl!Compile(c)
      BY <3>3, CompileInv
    <3>4. CASE Pl!FindByName(c)
      BY <3>4, FindByNameInv
    <3>5. CASE Pl!Execute(c)
      BY <3>5, ExecutePluginInv
    <3>6. CASE Pl!SetStatus(c)
      BY <3>6, SetStatusInv
    <3>7. CASE Pl!SavePlugin(c)
      BY <3>7, SavePluginInv
    <3>8. CASE Pl!SaveFails(c)
      BY <3>8, SaveFailsInv
    <3>9. CASE Pl!Forget(c)
      BY <3>9, PluginForgetInv
    <3>10. CASE Pl!Remove(c)
      BY <3>10, RemoveInv
    <3> QED
      BY <2>2, <3>1, <3>2, <3>3, <3>4, <3>5, <3>6, <3>7, <3>8, <3>9, <3>10 DEF Pl!Step
  <2> QED
    BY <1>2, <2>1, <2>2 DEF Pl!Next
<1> QED
  BY <1>1, <1>2, PTL DEF Pl!Spec

\* Unless a call saved a copy that another had overtaken (plugin.service.ts saves the whole
\* row it read), the row has the status an administrator last gave it, a deleted one stays
\* deleted, and its counters are the outcomes that runs reported.
THEOREM RowIsTold ==
  ASSUME Pl!PluginAssumption
  PROVE  Pl!Spec => [](Pl!StatusIsDecided /\ Pl!RunsAreCounted)
<1>1. PluginInv => Pl!StatusIsDecided /\ Pl!RunsAreCounted
  BY DEF PluginInv, Pl!TypeOK, RowTold, Pl!StatusIsDecided, Pl!RunsAreCounted
<1> QED
  BY <1>1, PluginInvariance, PTL

\* Unless code was compiled while its row was deleted, what runs is the code of the row that
\* was read.
THEOREM OwnCodeRuns ==
  ASSUME Pl!PluginAssumption
  PROVE  Pl!Spec => []Pl!RunsItsCode
<1>1. PluginInv => Pl!RunsItsCode
  BY DEF PluginInv, Pl!TypeOK, CodeOfRow, Pl!RunsItsCode
<1> QED
  BY <1>1, PluginInvariance, PTL

-----------------------------------------------------------------------------
(* The small tables.                                                        *)

RecordStatuses == {"none", table.first} \cup {m[2] : m \in table.moves}
Entries == [is : {"none", "live", "removed", "gone"}, status : RecordStatuses, tally : Nat,
            side : {1, 2}]
RecordCalls ==
    [at : {"idle", "insert", "write", "done", "refused"},
     op : {"create", "touch", "move", "add", "remove"}, id : Ids \cup {NoEntry},
     copy : Entries, met : SUBSET Ids]

EntryShape ==
    /\ table \in Rc!Tables /\ entry \in [Ids -> Entries] /\ request \in [Calls -> RecordCalls]
    /\ added \in [Ids -> Nat]
    /\ ended \subseteq Ids /\ overtaken \subseteq Ids /\ blind \subseteq Ids
         /\ rejoined \subseteq Ids

\* A create has met nothing, where it looks; a write has read a row that is there, and
\* a row keeps the way its key is written.
RequestShape ==
    \A c \in Calls :
        /\ request[c].at = "insert" =>
               /\ request[c].copy.is = "live" /\ request[c].copy.tally = 0
               /\ table.key # "none" => request[c].met = {}
        /\ request[c].at = "write" =>
               /\ request[c].id \in Ids /\ entry[request[c].id].is # "none"
               /\ request[c].copy.is = "live"
               /\ request[c].copy.side = entry[request[c].id].side

\* Nothing has happened to a row that is not there yet.
FreshShape == \A r \in Ids : entry[r].is = "none" => added[r] = 0 /\ r \notin ended

Alone   == Rc!Occupying \ (blind \cup rejoined \cup overtaken)
OneEach ==
    /\ table.key # "none" => \A r, q \in Alone : r = q
    /\ table.key = "indexed" => \A r, q \in Rc!Stored : r = q \/ entry[r].side # entry[q].side

RecordInv ==
    /\ EntryShape /\ RequestShape /\ FreshShape /\ OneEach
    /\ Rc!EndedStaysEnded /\ Rc!TallyExplained

\* What the tables have in common: the sides of a key, and that statements on columns only
\* lead to last statuses.
LEMMA TableFacts ==
  \A t \in Rc!Tables :
      /\ t.sides \subseteq {1, 2}
      /\ t.saves = "column" =>
             \A m, n \in t.moves : n[1] = m[2] => n[2] = m[2]
<1>1. /\ Rc!FavoriteDrivers.sides = {1} /\ Rc!FavoriteDrivers.saves = "copy"
      /\ Rc!FavoriteShops.sides = {1} /\ Rc!FavoriteShops.saves = "never"
      /\ Rc!Interests.sides = {1} /\ Rc!Interests.saves = "never"
      /\ Rc!ConnectionRequests.sides = {1, 2} /\ Rc!ConnectionRequests.saves = "copy"
      /\ Rc!VehicleBands.sides = {1} /\ Rc!VehicleBands.saves = "copy"
      /\ Rc!BandMemberships.sides = {1} /\ Rc!BandMemberships.saves = "never"
      /\ Rc!Vehicles.sides = {1} /\ Rc!Vehicles.saves = "copy"
      /\ Rc!Assignments.sides = {1} /\ Rc!Assignments.saves = "copy"
  BY DEF Rc!Table, Rc!FavoriteDrivers, Rc!FavoriteShops, Rc!Interests, Rc!ConnectionRequests,
     Rc!VehicleBands, Rc!BandMemberships, Rc!Vehicles, Rc!Assignments
<1>2. /\ Rc!VehicleMedia.sides = {1} /\ Rc!VehicleMedia.saves = "never"
      /\ Rc!VehiclePricing.sides = {1} /\ Rc!VehiclePricing.saves = "copy"
      /\ Rc!Profiles.sides = {1} /\ Rc!Profiles.saves = "copy"
      /\ Rc!ProfilePreferences.sides = {1} /\ Rc!ProfilePreferences.saves = "copy"
      /\ Rc!IndividualEntities.sides = {1} /\ Rc!IndividualEntities.saves = "never"
      /\ Rc!OtherEntities.sides = {1} /\ Rc!OtherEntities.saves = "never"
      /\ Rc!Branches.sides = {1} /\ Rc!Branches.saves = "never"
      /\ Rc!EntitySettings.sides = {1} /\ Rc!EntitySettings.saves = "copy"
  BY DEF Rc!Table, Rc!VehicleMedia, Rc!VehiclePricing, Rc!Profiles, Rc!ProfilePreferences,
     Rc!IndividualEntities, Rc!OtherEntities, Rc!Branches, Rc!EntitySettings
<1>3. /\ Rc!OperatingHours.sides = {1} /\ Rc!OperatingHours.saves = "copy"
      /\ Rc!BusinessCategories.sides = {1} /\ Rc!BusinessCategories.saves = "copy"
      /\ Rc!MarketProfiles.sides = {1} /\ Rc!MarketProfiles.saves = "copy"
      /\ Rc!MarketNotifications.sides = {1} /\ Rc!MarketNotifications.saves = "copy"
      /\ Rc!CreatorProfiles.sides = {1} /\ Rc!CreatorProfiles.saves = "never"
      /\ Rc!StaffRoles.sides = {1} /\ Rc!StaffRoles.saves = "never"
      /\ Rc!UserAccounts.sides = {1} /\ Rc!UserAccounts.saves = "copy"
      /\ Rc!Enterprises.sides = {1} /\ Rc!Enterprises.saves = "copy"
  BY DEF Rc!Table, Rc!OperatingHours, Rc!BusinessCategories, Rc!MarketProfiles,
     Rc!MarketNotifications, Rc!CreatorProfiles, Rc!StaffRoles, Rc!UserAccounts, Rc!Enterprises
<1>4. /\ Rc!Places.sides = {1} /\ Rc!Places.saves = "copy"
      /\ Rc!Products.sides = {1} /\ Rc!Products.saves = "copy"
      /\ Rc!ProductViews.sides = {1} /\ Rc!ProductViews.saves = "copy"
      /\ Rc!ProductMedia.sides = {1} /\ Rc!ProductMedia.saves = "never"
      /\ Rc!DiscountTiers.sides = {1} /\ Rc!DiscountTiers.saves = "copy"
      /\ Rc!SOSAlerts.sides = {1} /\ Rc!SOSAlerts.saves = "copy"
      /\ Rc!DeliveryZones.sides = {1} /\ Rc!DeliveryZones.saves = "copy"
      /\ Rc!Campaigns.sides = {1} /\ Rc!Campaigns.saves = "copy"
  BY DEF Rc!Table, Rc!Places, Rc!Products, Rc!ProductViews, Rc!ProductMedia, Rc!DiscountTiers,
     Rc!SOSAlerts, Rc!DeliveryZones, Rc!Campaigns
<1>5. /\ Rc!Channels.sides = {1} /\ Rc!Channels.saves = "copy"
      /\ Rc!FulfilmentTasks.sides = {1} /\ Rc!FulfilmentTasks.saves = "copy"
      /\ Rc!PlannerTransactions.sides = {1} /\ Rc!PlannerTransactions.saves = "copy"
      /\ Rc!WishlistItems.sides = {1} /\ Rc!WishlistItems.saves = "copy"
      /\ Rc!CalendarEvents.sides = {1} /\ Rc!CalendarEvents.saves = "copy"
      /\ Rc!Statements.sides = {1} /\ Rc!Statements.saves = "copy"
      /\ Rc!Alerts.sides = {1} /\ Rc!Alerts.saves = "copy"
      /\ Rc!HeyYas.sides = {1} /\ Rc!HeyYas.saves = "copy"
  BY DEF Rc!Table, Rc!Channels, Rc!FulfilmentTasks, Rc!PlannerTransactions, Rc!WishlistItems,
     Rc!CalendarEvents, Rc!Statements, Rc!Alerts, Rc!HeyYas
<1>6. /\ Rc!ChatSessions.sides = {1} /\ Rc!ChatSessions.saves = "copy"
      /\ Rc!SocialUpdates.sides = {1} /\ Rc!SocialUpdates.saves = "copy"
      /\ Rc!Engagements.sides = {1} /\ Rc!Engagements.saves = "never"
      /\ Rc!RideAlerts.sides = {1} /\ Rc!RideAlerts.saves = "copy"
      /\ Rc!ConciergeSessions.sides = {1} /\ Rc!ConciergeSessions.saves = "copy"
      /\ Rc!WebhookSubscriptions.sides = {1} /\ Rc!WebhookSubscriptions.saves = "never"
  BY DEF Rc!Table, Rc!ChatSessions, Rc!SocialUpdates, Rc!Engagements, Rc!RideAlerts,
     Rc!ConciergeSessions, Rc!WebhookSubscriptions
<1>7. Rc!ApiKeys.sides = {1} /\ \A m, n \in Rc!ApiKeys.moves : n[1] = m[2] => n[2] = m[2]
  BY DEF Rc!ApiKeys, Rc!Table
<1>8. Rc!DigitalAssets.sides = {1} /\ \A m, n \in Rc!DigitalAssets.moves : n[1] = m[2] =>
        n[2] = m[2]
  BY DEF Rc!DigitalAssets, Rc!Table
<1>9. Rc!RoutingRules.sides = {1} /\ \A m, n \in Rc!RoutingRules.moves : n[1] = m[2] => n[2] = m[2]
  BY DEF Rc!RoutingRules, Rc!Table
<1>10. Rc!Messages.sides = {1} /\ \A m, n \in Rc!Messages.moves : n[1] = m[2] => n[2] = m[2]
  BY DEF Rc!Messages, Rc!Table
<1>11. Rc!CommunityPosts.sides = {1} /\ \A m, n \in Rc!CommunityPosts.moves : n[1] = m[2] =>
         n[2] = m[2]
  BY DEF Rc!CommunityPosts, Rc!Table
<1>12. Rc!MarketNotices.sides = {1} /\ \A m, n \in Rc!MarketNotices.moves : n[1] = m[2] =>
         n[2] = m[2]
  BY DEF Rc!MarketNotices, Rc!Table
<1> QED
  BY <1>1, <1>2, <1>3, <1>4, <1>5, <1>6, <1>7, <1>8, <1>9, <1>10, <1>11, <1>12 DEF Rc!Tables

\* The statuses of a table do not change.
LEMMA SameStatuses ==
  ASSUME UNCHANGED table
  PROVE  Entries' = Entries /\ RecordCalls' = RecordCalls /\ Rc!Last' = Rc!Last
BY DEF Entries, RecordCalls, RecordStatuses, Rc!Last

\* A request moves, and the rows stay.
LEMMA RequestMoves ==
  ASSUME RecordInv, NEW c \in Calls,
         UNCHANGED <<table, entry, ended, overtaken, blind, rejoined, added>>,
         request' \in [Calls -> RecordCalls],
         \A d \in Calls : d # c => request'[d] = request[d],
         request'[c].at = "insert" =>
               /\ request'[c].copy.is = "live" /\ request'[c].copy.tally = 0
               /\ table.key # "none" => request'[c].met = {},
         request'[c].at = "write" =>
               /\ request'[c].id \in Ids /\ entry[request'[c].id].is # "none"
               /\ request'[c].copy.is = "live"
               /\ request'[c].copy.side = entry[request'[c].id].side
  PROVE  RecordInv'
<1>1. EntryShape'
  BY SameStatuses DEF RecordInv, EntryShape
<1>2. RequestShape'
  BY DEF RecordInv, RequestShape
<1>3. FreshShape' /\ OneEach' /\ Rc!EndedStaysEnded' /\ Rc!TallyExplained'
  BY DEF RecordInv, FreshShape, OneEach, Alone, Rc!Occupying, Rc!Live, Rc!Stored,
     Rc!EndedStaysEnded, Rc!Last, Rc!TallyExplained
<1> QED
  BY <1>1, <1>2, <1>3 DEF RecordInv

\* A request that writes a row, and is done.
LEMMA EntryWritten ==
  ASSUME RecordInv, NEW c \in Calls, NEW r \in Ids, NEW new \in Entries,
         new.is # "none", entry[r].is # "none" => new.side = entry[r].side,
         UNCHANGED table, entry' = [entry EXCEPT ![r] = new],
         request' = [request EXCEPT ![c].at = "done"],
         added' \in [Ids -> Nat], \A q \in Ids : q # r => added'[q] = added[q],
         ended' \subseteq ended \cup {r},
         overtaken \subseteq overtaken', overtaken' \subseteq Ids,
         blind \subseteq blind', blind' \subseteq Ids,
         rejoined \subseteq rejoined', rejoined' \subseteq Ids,
         r \in ended' /\ r \notin overtaken' => new.is # "live" \/ new.status \in Rc!Last,
         r \notin overtaken' => new.tally = added'[r],
         table.key = "indexed" /\ new.is \in {"live", "removed"} =>
             r \in Rc!Stored \/ ~Rc!Clash(new.side),
         table.key # "none" /\ new.is = "live" /\ new.status \notin table.freed
             /\ r \notin blind' \cup rejoined' \cup overtaken' =>
             r \in Rc!Occupying \/ Rc!Occupying = {}
  PROVE  RecordInv'
<1>1. /\ table \in Rc!Tables /\ entry \in [Ids -> Entries] /\ request \in [Calls -> RecordCalls]
      /\ added \in [Ids -> Nat]
      /\ ended \subseteq Ids /\ overtaken \subseteq Ids /\ blind \subseteq Ids
           /\ rejoined \subseteq Ids
  BY DEF RecordInv, EntryShape
<1>2. entry'[r] = new /\ \A q \in Ids : q # r => entry'[q] = entry[q]
  BY <1>1
<1>3. entry' \in [Ids -> Entries]
  BY <1>1
<1>4. /\ request' \in [Calls -> RecordCalls] /\ request'[c].at = "done"
      /\ \A d \in Calls : d # c => request'[d] = request[d]
  BY <1>1 DEF RecordCalls
<1>5. EntryShape'
  BY <1>1, <1>3, <1>4, SameStatuses DEF EntryShape
<1>6. RequestShape'
  <2> SUFFICES ASSUME NEW d \in Calls
      PROVE /\ request'[d].at = "insert" =>
                 /\ request'[d].copy.is = "live" /\ request'[d].copy.tally = 0
                 /\ table.key # "none" => request'[d].met = {}
            /\ request'[d].at = "write" =>
                 /\ request'[d].id \in Ids /\ entry'[request'[d].id].is # "none"
                 /\ request'[d].copy.is = "live"
                 /\ request'[d].copy.side = entry'[request'[d].id].side
    BY DEF RequestShape
  <2>1. CASE d = c
    BY <1>4, <2>1
  <2>2. CASE d # c
    BY <1>2, <1>4, <2>2 DEF RecordInv, RequestShape
  <2> QED
    BY <2>1, <2>2
<1>7. FreshShape'
  <2> SUFFICES ASSUME NEW q \in Ids, entry'[q].is = "none"
      PROVE  added'[q] = 0 /\ q \notin ended'
    BY DEF FreshShape
  <2>1. q # r
    BY <1>2
  <2> QED
    BY <1>2, <2>1 DEF RecordInv, FreshShape
<1>8. Rc!EndedStaysEnded'
  <2> SUFFICES ASSUME NEW q \in Ids, q \in ended', q \notin overtaken'
      PROVE  entry'[q].is # "live" \/ entry'[q].status \in Rc!Last
    BY <1>1, SameStatuses DEF Rc!EndedStaysEnded
  <2>1. CASE q = r
    BY <1>2, <2>1
  <2>2. CASE q # r
    BY <1>2, <2>2 DEF RecordInv, Rc!EndedStaysEnded
  <2> QED
    BY <2>1, <2>2
<1>9. Rc!TallyExplained'
  <2> SUFFICES ASSUME NEW q \in Ids, q \notin overtaken'
      PROVE  entry'[q].tally = added'[q]
    BY DEF Rc!TallyExplained
  <2>1. CASE q = r
    BY <1>2, <2>1
  <2>2. CASE q # r
    BY <1>2, <2>2 DEF RecordInv, Rc!TallyExplained
  <2> QED
    BY <2>1, <2>2
<1>10. ASSUME table.key # "none", NEW p \in Alone', NEW q \in Alone'
       PROVE  p = q
  <2>1. /\ p \in Ids /\ entry'[p].is = "live" /\ entry'[p].status \notin table.freed
        /\ p \notin blind' \cup rejoined' \cup overtaken'
        /\ q \in Ids /\ entry'[q].is = "live" /\ entry'[q].status \notin table.freed
        /\ q \notin blind' \cup rejoined' \cup overtaken'
    BY <1>10 DEF Alone, Rc!Occupying, Rc!Live
  <2>2. \A k \in Ids : k # r /\ entry'[k].is = "live" /\ entry'[k].status \notin table.freed
                         /\ k \notin blind' \cup rejoined' \cup overtaken' =>
            k \in Alone /\ k \in Rc!Occupying
    BY <1>2 DEF Alone, Rc!Occupying, Rc!Live
  <2>3. entry'[r].is = "live" /\ entry'[r].status \notin table.freed
          /\ r \notin blind' \cup rejoined' \cup overtaken' => r \in Alone \/ Rc!Occupying = {}
    BY <1>2, <1>10 DEF Alone
  <2>4. \A k, l \in Alone : k = l
    BY <1>10 DEF RecordInv, OneEach
  <2> QED
    BY <2>1, <2>2, <2>3, <2>4
<1>11. ASSUME table.key = "indexed", NEW p \in Rc!Stored', NEW q \in Rc!Stored', p # q
       PROVE  entry'[p].side # entry'[q].side
  <2>1. /\ p \in Ids /\ entry'[p].is \in {"live", "removed"}
        /\ q \in Ids /\ entry'[q].is \in {"live", "removed"}
    BY <1>11 DEF Rc!Stored
  <2>2. \A k \in Ids : k # r /\ entry'[k].is \in {"live", "removed"} =>
            k \in Rc!Stored /\ entry'[k].side = entry[k].side
    BY <1>2 DEF Rc!Stored
  <2>3. \A k, l \in Rc!Stored : k = l \/ entry[k].side # entry[l].side
    BY <1>11 DEF RecordInv, OneEach
  <2>4. entry'[r].is \in {"live", "removed"} =>
            \A k \in Rc!Stored : k # r => entry[k].side # entry'[r].side
    <3> SUFFICES ASSUME new.is \in {"live", "removed"}, NEW k \in Rc!Stored, k # r
        PROVE  entry[k].side # new.side
      BY <1>2
    <3>1. CASE r \in Rc!Stored
      <4>1. new.side = entry[r].side
        BY <3>1 DEF Rc!Stored
      <4> QED
        BY <2>3, <3>1, <4>1
    <3>2. CASE ~Rc!Clash(new.side)
      BY <1>11, <3>2 DEF Rc!Clash
    <3> QED
      BY <1>11, <3>1, <3>2
  <2> QED
    BY <1>11, <2>1, <2>2, <2>3, <2>4
<1>12. OneEach'
  BY <1>10, <1>11 DEF OneEach
<1> QED
  BY <1>5, <1>6, <1>7, <1>8, <1>9, <1>12 DEF RecordInv

\* What the assumption and the invariant say of rows and calls.
LEMMA RecordFacts ==
  ASSUME RecordInv
  PROVE  /\ table \in Rc!Tables /\ entry \in [Ids -> Entries] /\ request \in [Calls -> RecordCalls]
         /\ added \in [Ids -> Nat]
         /\ ended \subseteq Ids /\ overtaken \subseteq Ids /\ blind \subseteq Ids
         /\ rejoined \subseteq Ids
BY DEF RecordInv, EntryShape

\* A request is refused, or finds nothing to write.
LEMMA RequestEnds ==
  ASSUME RecordInv, NEW c \in Calls, NEW where \in {"done", "refused"}, Rc!Go(c, where),
         UNCHANGED <<table, entry, ended, overtaken, blind, rejoined, added>>
  PROVE  RecordInv'
<1>1. request' = [request EXCEPT ![c].at = where] /\ request \in [Calls -> RecordCalls]
  BY RecordFacts DEF Rc!Go
<1>2. /\ request' \in [Calls -> RecordCalls] /\ request'[c].at = where
      /\ \A d \in Calls : d # c => request'[d] = request[d]
  BY <1>1 DEF RecordCalls
<1> QED
  BY <1>2, RequestMoves

\* A request reads a row.
LEMMA ReadRow ==
  ASSUME RecordInv, NEW r \in Ids, NEW op \in {"touch", "move", "add", "remove"}
  PROVE  /\ Rc!Reading(op, r) \in RecordCalls /\ Rc!Reading(op, r).at = "write"
         /\ Rc!Reading(op, r).id = r /\ Rc!Reading(op, r).copy = entry[r]
<1>1. Rc!Reading(op, r) = [Rc!Idle EXCEPT !.at = "write", !.op = op, !.id = r, !.copy = entry[r]]
  BY DEF Rc!Reading
<1>2. Rc!Idle \in RecordCalls
  BY DEF Rc!Idle, Rc!NoRecord, RecordCalls, Entries, RecordStatuses
<1>3. entry[r] \in Entries
  BY RecordFacts
<1> QED
  BY <1>1, <1>2, <1>3 DEF RecordCalls

\* A call looks for the row that occupies its key.
LEMMA LookInv ==
  ASSUME RecordInv, NEW c \in Calls, Rc!Look(c)
  PROVE  RecordInv'
<1>1. /\ request[c].at = "idle"
      /\ UNCHANGED <<table, entry, ended, overtaken, blind, rejoined, added>>
  BY DEF Rc!Look, Rc!recordHist
<1>2. CASE table.key = "none" \/ Rc!Occupying = {}
  <2>1. PICK side \in table.sides : request' = [request EXCEPT ![c] = Rc!Asking(side)]
    BY <1>2 DEF Rc!Look
  <2>2. side \in {1, 2}
    BY TableFacts, RecordFacts
  <2> DEFINE copy == [is |-> "live", status |-> table.first, tally |-> 0, side |-> side]
             ask  == Rc!Asking(side)
  <2>3. copy \in Entries /\ copy.is = "live" /\ copy.tally = 0
    BY <2>2 DEF Entries, RecordStatuses
  <2>4. Rc!Occupying \subseteq Ids /\ Rc!NoRecord \in Entries
    BY DEF Rc!Occupying, Rc!Live, Rc!NoRecord, Entries, RecordStatuses
  <2>5. /\ ask.at = "insert" /\ ask.copy = copy /\ ask.met = Rc!Occupying
        /\ ask \in RecordCalls
    <3> HIDE DEF copy
    <3>1. ask = [Rc!Idle EXCEPT !.at = "insert", !.met = Rc!Occupying, !.copy = copy]
      BY DEF Rc!Asking, copy
    <3>2. Rc!Idle \in RecordCalls
      BY <2>4 DEF Rc!Idle, RecordCalls
    <3> QED
      BY <2>3, <2>4, <3>1, <3>2 DEF RecordCalls
  <2> HIDE DEF copy, ask
  <2>9. /\ request' \in [Calls -> RecordCalls] /\ request'[c] = ask
        /\ \A d \in Calls : d # c => request'[d] = request[d]
    BY <2>1, <2>5, RecordFacts DEF ask
  <2> QED
    BY <1>1, <1>2, <2>3, <2>5, <2>9, RequestMoves
<1>3. CASE ~(table.key = "none" \/ Rc!Occupying = {}) /\ table.upserts
  <2>1. PICK r \in Rc!Occupying : request' = [request EXCEPT ![c] = Rc!Reading("touch", r)]
    BY <1>3 DEF Rc!Look
  <2> DEFINE ask == Rc!Reading("touch", r)
  <2>3. r \in Ids /\ entry[r].is = "live"
    BY DEF Rc!Occupying, Rc!Live
  <2>5. ask \in RecordCalls /\ ask.at = "write" /\ ask.id = r /\ ask.copy = entry[r]
    BY <2>3, ReadRow
  <2> HIDE DEF ask
  <2>6. /\ request' \in [Calls -> RecordCalls] /\ request'[c] = ask
        /\ \A d \in Calls : d # c => request'[d] = request[d]
    BY <2>1, <2>5, RecordFacts DEF ask
  <2> QED
    BY <1>1, <2>3, <2>5, <2>6, RequestMoves
<1>4. CASE ~(table.key = "none" \/ Rc!Occupying = {}) /\ ~table.upserts
  BY <1>1, <1>4, RequestEnds DEF Rc!Look
<1> QED
  BY <1>2, <1>3, <1>4

\* A call reads its row.
LEMMA ReadInv ==
  ASSUME RecordInv, NEW c \in Calls, Rc!Read(c)
  PROVE  RecordInv'
<1>1. /\ request[c].at = "idle"
      /\ UNCHANGED <<table, entry, ended, overtaken, blind, rejoined, added>>
  BY DEF Rc!Read, Rc!recordHist
<1>2. PICK r \in Rc!Live, op \in Rc!Ops : request' = [request EXCEPT ![c] = Rc!Reading(op, r)]
  BY DEF Rc!Read
<1> DEFINE ask == Rc!Reading(op, r)
<1>4. r \in Ids /\ entry[r].is = "live" /\ op \in {"touch", "move", "add", "remove"}
  BY DEF Rc!Live, Rc!Ops
<1>6. ask \in RecordCalls /\ ask.at = "write" /\ ask.id = r /\ ask.copy = entry[r]
  BY <1>4, ReadRow
<1> HIDE DEF ask
<1>7. /\ request' \in [Calls -> RecordCalls] /\ request'[c] = ask
      /\ \A d \in Calls : d # c => request'[d] = request[d]
  BY <1>2, <1>6, RecordFacts DEF ask
<1> QED
  BY <1>1, <1>4, <1>6, <1>7, RequestMoves

\* A row is inserted.
LEMMA InsertRowInv ==
  ASSUME RecordInv, NEW c \in Calls, Rc!Insert(c)
  PROVE  RecordInv'
<1> DEFINE new == request[c].copy
<1>1. /\ request[c].at = "insert"
      /\ UNCHANGED <<table, ended, overtaken, rejoined, added>>
  BY DEF Rc!Insert
<1>2. CASE Rc!Go(c, "refused") /\ UNCHANGED <<entry, blind>>
  BY <1>1, <1>2, RequestEnds
<1>3. CASE /\ ~Rc!Clash(new.side) /\ Rc!Go(c, "done")
           /\ \E r \in Ids :
                /\ entry[r].is = "none" /\ entry' = [entry EXCEPT ![r] = new]
                /\ blind' = IF Rc!Occupying \subseteq request[c].met THEN blind ELSE blind \cup {r}
  <2>1. PICK r \in Ids :
                /\ entry[r].is = "none" /\ entry' = [entry EXCEPT ![r] = new]
                /\ blind' = IF Rc!Occupying \subseteq request[c].met THEN blind ELSE blind \cup {r}
    BY <1>3
  <2>2. /\ new \in Entries /\ new.is = "live" /\ new.tally = 0
        /\ table.key # "none" => request[c].met = {}
    BY <1>1, RecordFacts DEF RecordInv, RequestShape, RecordCalls
  <2>3. added[r] = 0 /\ r \notin ended
    BY <2>1 DEF RecordInv, FreshShape
  <2>4. request' = [request EXCEPT ![c].at = "done"]
    BY <1>3 DEF Rc!Go
  <2>5. blind \subseteq blind' /\ blind' \subseteq Ids
    BY <2>1, RecordFacts
  <2>6. table.key # "none" /\ r \notin blind' => Rc!Occupying = {}
    BY <2>1, <2>2
  <2>7. /\ added' \in [Ids -> Nat] /\ added' = added /\ ended' = ended /\ overtaken' = overtaken
        /\ rejoined' = rejoined /\ overtaken' \subseteq Ids /\ rejoined' \subseteq Ids
    BY <1>1, RecordFacts
  <2> HIDE DEF new
  <2> QED
    BY <1>1, <1>3, <2>1, <2>2, <2>3, <2>4, <2>5, <2>6, <2>7, EntryWritten
<1> QED
  BY <1>2, <1>3 DEF Rc!Insert

\* What a request makes of a row keeps what it does not name.
LEMMA MadeRow ==
  ASSUME RecordInv, NEW c \in Calls, NEW from \in Entries, NEW new \in Rc!Made(c, from)
  PROVE  /\ new \in Entries /\ new.is = from.is /\ new.side = from.side
         /\ new.tally = from.tally + (IF request[c].op = "add" THEN 1 ELSE 0)
         /\ request[c].op # "move" => new.status = from.status
         /\ request[c].op = "move" =>
                \E m \in table.moves : m[1] = request[c].copy.status /\ new.status = m[2]
<1>1. from = [is |-> from.is, status |-> from.status, tally |-> from.tally, side |-> from.side]
      /\ from.is \in {"none", "live", "removed", "gone"} /\ from.status \in RecordStatuses
      /\ from.tally \in Nat /\ from.side \in {1, 2}
  BY DEF Entries
<1>2. CASE request[c].op = "move"
  <2>1. PICK m \in table.moves : m[1] = request[c].copy.status
          /\ new = [from EXCEPT !.status = m[2]]
    BY <1>2 DEF Rc!Made
  <2>2. m[2] \in RecordStatuses
    BY DEF RecordStatuses
  <2>3. new = [is |-> from.is, status |-> m[2], tally |-> from.tally, side |-> from.side]
    BY <1>1, <2>1
  <2>4. new \in Entries
    BY <1>1, <2>2, <2>3 DEF Entries
  <2> QED
    BY <1>1, <1>2, <2>1, <2>3, <2>4
<1>3. CASE request[c].op = "add"
  <2>1. new = [from EXCEPT !.tally = from.tally + 1]
    BY <1>3 DEF Rc!Made
  <2>2. new = [is |-> from.is, status |-> from.status, tally |-> from.tally + 1, side |-> from.side]
    BY <1>1, <2>1
  <2>3. new \in Entries
    BY <1>1, <2>2 DEF Entries
  <2> QED
    BY <1>1, <1>3, <2>2, <2>3
<1>4. CASE request[c].op \notin {"move", "add"}
  BY <1>1, <1>4 DEF Rc!Made
<1> QED
  BY <1>2, <1>3, <1>4

\* What is noted of a change.
LEMMA Noted ==
  ASSUME RecordInv, NEW c \in Calls, NEW r \in Ids, NEW new, Rc!Note(c, r, new)
  PROVE  /\ ended' \subseteq ended \cup {r}
         /\ request[c].op # "move" => ended' = ended
         /\ r \in ended' => r \in ended \/ new.status \in Rc!Last
         /\ rejoined \subseteq rejoined' /\ rejoined' \subseteq Ids
         /\ request[c].op = "move" /\ new.status \notin table.freed => r \in rejoined'
         /\ added' \in [Ids -> Nat] /\ \A q \in Ids : q # r => added'[q] = added[q]
         /\ added'[r] = added[r] + (IF request[c].op = "add" THEN 1 ELSE 0)
<1>1. /\ ended' = IF request[c].op = "move" /\ new.status \in Rc!Last THEN ended \cup {r} ELSE ended
      /\ rejoined' = IF request[c].op = "move" /\ new.status \notin table.freed
                     THEN rejoined \cup {r} ELSE rejoined
      /\ added' = IF request[c].op = "add" THEN [added EXCEPT ![r] = added[r] + 1] ELSE added
  BY DEF Rc!Note
<1>2. /\ added' \in [Ids -> Nat] /\ \A q \in Ids : q # r => added'[q] = added[q]
      /\ added'[r] = added[r] + (IF request[c].op = "add" THEN 1 ELSE 0)
  BY <1>1, RecordFacts
<1>3. rejoined \subseteq rejoined' /\ rejoined' \subseteq Ids
  BY <1>1, RecordFacts
<1> QED
  BY <1>1, <1>2, <1>3

\* A row is saved as it was read, with the change.
LEMMA SaveCopyInv ==
  ASSUME RecordInv, NEW c \in Calls, Rc!SaveCopy(c)
  PROVE  RecordInv'
<1> DEFINE r == request[c].id
           copy == request[c].copy
<1>1. request[c].at = "write" /\ UNCHANGED table
  BY DEF Rc!SaveCopy
<1>2. /\ r \in Ids /\ entry[r].is # "none" /\ copy \in Entries /\ copy.is = "live"
      /\ copy.side = entry[r].side
  BY <1>1, RecordFacts DEF RecordInv, RequestShape, RecordCalls
<1>3. CASE Rc!Made(c, copy) = {} \/ (r \notin Rc!Stored /\ Rc!Clash(copy.side))
  BY <1>1, <1>3, RequestEnds DEF Rc!SaveCopy, Rc!recordHist
<1>4. CASE ~(Rc!Made(c, copy) = {} \/ (r \notin Rc!Stored /\ Rc!Clash(copy.side)))
  <2>1. PICK new \in Rc!Made(c, copy) :
              /\ entry' = [entry EXCEPT ![r] = new]
              /\ overtaken' = IF entry[r] = copy THEN overtaken ELSE overtaken \cup {r}
              /\ Rc!Note(c, r, new)
              /\ Rc!Go(c, "done") /\ UNCHANGED blind
    BY <1>4 DEF Rc!SaveCopy
  <2>2. /\ new \in Entries /\ new.is = copy.is /\ new.side = copy.side
        /\ new.tally = copy.tally + (IF request[c].op = "add" THEN 1 ELSE 0)
        /\ request[c].op # "move" => new.status = copy.status
        /\ request[c].op = "move" =>
                \E m \in table.moves : m[1] = copy.status /\ new.status = m[2]
    BY <1>2, MadeRow
  <2> HIDE DEF r, copy
  <2>3. /\ ended' \subseteq ended \cup {r}
        /\ request[c].op # "move" => ended' = ended
        /\ r \in ended' => r \in ended \/ new.status \in Rc!Last
        /\ rejoined \subseteq rejoined' /\ rejoined' \subseteq Ids
        /\ request[c].op = "move" /\ new.status \notin table.freed => r \in rejoined'
        /\ added' \in [Ids -> Nat] /\ \A q \in Ids : q # r => added'[q] = added[q]
        /\ added'[r] = added[r] + (IF request[c].op = "add" THEN 1 ELSE 0)
    BY <1>2, <2>1, Noted
  <2>4. overtaken \subseteq overtaken' /\ overtaken' \subseteq Ids
        /\ blind \subseteq blind' /\ blind' \subseteq Ids
        /\ (r \notin overtaken' => entry[r] = copy /\ r \notin overtaken)
    BY <1>2, <2>1, RecordFacts
  <2>5. r \in ended' /\ r \notin overtaken' => new.status \in Rc!Last
    <3> SUFFICES ASSUME r \in ended, r \notin overtaken'
        PROVE  new.status \in Rc!Last
      BY <2>3
    <3>1. copy.status \in Rc!Last
      BY <1>2, <2>4 DEF RecordInv, Rc!EndedStaysEnded
    <3>2. CASE request[c].op = "move"
      <4>1. PICK m \in table.moves : m[1] = copy.status /\ new.status = m[2]
        BY <2>2, <3>2
      <4>2. m[2] = m[1]
        BY <3>1, <4>1 DEF Rc!Last
      <4> QED
        BY <3>1, <4>1, <4>2
    <3>3. CASE request[c].op # "move"
      BY <2>2, <3>1, <3>3
    <3> QED
      BY <3>2, <3>3
  <2>6. r \notin overtaken' => new.tally = added'[r]
    BY <1>2, <2>2, <2>3, <2>4 DEF RecordInv, Rc!TallyExplained
  <2>7. r \in Rc!Stored \/ ~Rc!Clash(new.side)
    BY <1>4, <2>2 DEF r, copy
  <2>8. new.is = "live" /\ new.status \notin table.freed /\ r \notin rejoined' \cup overtaken' =>
            r \in Rc!Occupying
    BY <1>2, <2>2, <2>3, <2>4 DEF Rc!Occupying, Rc!Live
  <2>9. request' = [request EXCEPT ![c].at = "done"]
    BY <2>1 DEF Rc!Go
  <2> QED
    BY <1>1, <1>2, <2>1, <2>2, <2>3, <2>4, <2>5, <2>6, <2>7, <2>8, <2>9, EntryWritten, ZenonT(40)
<1> QED
  BY <1>3, <1>4

\* One statement updates a row where it stands.
LEMMA UpdateColumnsInv ==
  ASSUME RecordInv, NEW c \in Calls, Rc!UpdateColumns(c)
  PROVE  RecordInv'
<1> DEFINE r == request[c].id
<1>1. /\ request[c].at = "write" /\ Rc!ByColumn(c) /\ Rc!Go(c, "done")
      /\ UNCHANGED <<table, overtaken, blind>>
  BY DEF Rc!UpdateColumns
<1>2. r \in Ids /\ entry[r].is # "none" /\ entry[r] \in Entries
  BY <1>1, RecordFacts DEF RecordInv, RequestShape
<1>3. CASE r \notin Rc!Stored
  BY <1>1, <1>3, RequestEnds DEF Rc!UpdateColumns, Rc!recordHist
<1>4. CASE r \in Rc!Stored
  <2>1. PICK new \in Rc!Made(c, entry[r]) : entry' = [entry EXCEPT ![r] = new] /\ Rc!Note(c, r, new)
    BY <1>4 DEF Rc!UpdateColumns
  <2>2. /\ new \in Entries /\ new.is = entry[r].is /\ new.side = entry[r].side
        /\ new.tally = entry[r].tally + (IF request[c].op = "add" THEN 1 ELSE 0)
        /\ request[c].op # "move" => new.status = entry[r].status
        /\ request[c].op = "move" =>
                \E m \in table.moves : m[1] = request[c].copy.status /\ new.status = m[2]
    BY <1>2, MadeRow
  <2> HIDE DEF r
  <2>3. /\ ended' \subseteq ended \cup {r}
        /\ request[c].op # "move" => ended' = ended
        /\ r \in ended' => r \in ended \/ new.status \in Rc!Last
        /\ rejoined \subseteq rejoined' /\ rejoined' \subseteq Ids
        /\ request[c].op = "move" /\ new.status \notin table.freed => r \in rejoined'
        /\ added' \in [Ids -> Nat] /\ \A q \in Ids : q # r => added'[q] = added[q]
        /\ added'[r] = added[r] + (IF request[c].op = "add" THEN 1 ELSE 0)
    BY <1>2, <2>1, Noted
  <2>4. /\ overtaken' = overtaken /\ blind' = blind
        /\ overtaken' \subseteq Ids /\ blind' \subseteq Ids
    BY <1>1, RecordFacts
  <2>5. r \in ended' /\ r \notin overtaken' => new.is # "live" \/ new.status \in Rc!Last
    <3> SUFFICES ASSUME r \in ended, r \notin overtaken, new.is = "live"
        PROVE  new.status \in Rc!Last
      BY <2>3, <2>4
    <3>1. entry[r].status \in Rc!Last
      BY <1>2, <2>2 DEF RecordInv, Rc!EndedStaysEnded
    <3>2. CASE request[c].op = "move"
      <4>1. PICK m \in table.moves : m[1] = request[c].copy.status /\ new.status = m[2]
        BY <2>2, <3>2
      <4>2. table.saves = "column"
        BY <1>1, <3>2 DEF Rc!ByColumn
      <4>3. \A n \in table.moves : n[1] = m[2] => n[2] = m[2]
        BY <4>2, TableFacts, RecordFacts
      <4> QED
        BY <4>1, <4>3 DEF Rc!Last
    <3>3. CASE request[c].op # "move"
      BY <2>2, <3>1, <3>3
    <3> QED
      BY <3>2, <3>3
  <2>6. r \notin overtaken' => new.tally = added'[r]
    BY <1>2, <2>2, <2>3, <2>4 DEF RecordInv, Rc!TallyExplained
  <2>8. new.is = "live" /\ new.status \notin table.freed /\ r \notin rejoined' =>
            r \in Rc!Occupying
    BY <1>2, <2>2, <2>3 DEF Rc!Occupying, Rc!Live
  <2>9. request' = [request EXCEPT ![c].at = "done"]
    BY <1>1 DEF Rc!Go
  <2>10. r \in Rc!Stored
    BY <1>4 DEF r
  <2> QED
    BY <1>1, <1>2, <2>1, <2>2, <2>3, <2>4, <2>5, <2>6, <2>8, <2>9, <2>10, EntryWritten
<1> QED
  BY <1>3, <1>4

\* A row is removed.
LEMMA RemoveRowInv ==
  ASSUME RecordInv, NEW c \in Calls, Rc!Remove(c)
  PROVE  RecordInv'
<1> DEFINE r == request[c].id
<1>1. /\ request[c].at = "write" /\ UNCHANGED <<table, overtaken, blind, rejoined, added>>
  BY DEF Rc!Remove
<1>2. r \in Ids /\ entry[r].is # "none" /\ entry[r] \in Entries
  BY <1>1, RecordFacts DEF RecordInv, RequestShape
<1>3. CASE request[c].copy.status \in table.kept
  BY <1>1, <1>3, RequestEnds DEF Rc!Remove
<1>4. CASE request[c].copy.status \notin table.kept
  <2> DEFINE is == IF table.removal = "soft" /\ r \in Rc!Stored THEN "removed" ELSE "gone"
             new == [entry[r] EXCEPT !.is = is]
  <2>1. entry' = [entry EXCEPT ![r].is = is] /\ ended' = ended \cup {r} /\ Rc!Go(c, "done")
    BY <1>4 DEF Rc!Remove
  <2>2. is \in {"removed", "gone"} /\ (is = "removed" => r \in Rc!Stored)
    OBVIOUS
  <2> HIDE DEF is, r
  <2>3. entry' = [entry EXCEPT ![r] = new]
    BY <2>1
  <2>4. new \in Entries /\ new.is = is /\ new.side = entry[r].side /\ new.tally = entry[r].tally
    BY <1>2, <2>2 DEF Entries
  <2> HIDE DEF new
  <2>5. /\ overtaken' = overtaken /\ blind' = blind /\ rejoined' = rejoined /\ added' = added
        /\ overtaken' \subseteq Ids /\ blind' \subseteq Ids /\ rejoined' \subseteq Ids
        /\ added' \in [Ids -> Nat]
    BY <1>1, RecordFacts
  <2>6. r \notin overtaken' => new.tally = added'[r]
    BY <1>2, <2>4, <2>5 DEF RecordInv, Rc!TallyExplained
  <2>7. request' = [request EXCEPT ![c].at = "done"]
    BY <2>1 DEF Rc!Go
  <2>8. new.is # "none" /\ new.is # "live" /\ (new.is \in {"live", "removed"} => r \in Rc!Stored)
    BY <2>2, <2>4
  <2> QED
    BY <1>1, <1>2, <2>1, <2>3, <2>4, <2>5, <2>6, <2>7, <2>8, EntryWritten
<1> QED
  BY <1>3, <1>4

\* The invariant holds in every state of a table.
LEMMA RecordInvariance == Rc!Spec => []RecordInv
<1>1. ASSUME Rc!Init
      PROVE  RecordInv
  <2> DEFINE none == [is |-> "none", status |-> "none", tally |-> 0, side |-> 1]
             idle == [at |-> "idle", op |-> "create", id |-> NoEntry, copy |-> none, met |-> {}]
  <2>1. /\ table \in Rc!Tables /\ entry = [r \in Ids |-> none] /\ request = [c \in Calls |-> idle]
        /\ ended = {} /\ overtaken = {} /\ blind = {} /\ rejoined = {}
        /\ added = [r \in Ids |-> 0]
    BY <1>1 DEF Rc!Init, Rc!Idle, Rc!NoRecord
  <2>2. none \in Entries
    BY DEF Entries, RecordStatuses
  <2>3. none.is = "none" /\ none.tally = 0
    OBVIOUS
  <2> HIDE DEF none
  <2>4. idle \in RecordCalls /\ idle.at = "idle"
    BY <2>2 DEF RecordCalls
  <2> HIDE DEF idle
  <2>5. EntryShape
    BY <2>1, <2>2, <2>4 DEF EntryShape
  <2>6. RequestShape
    BY <2>1, <2>4 DEF RequestShape
  <2>7. FreshShape
    BY <2>1 DEF FreshShape
  <2>8. OneEach
    BY <2>1, <2>3 DEF OneEach, Alone, Rc!Occupying, Rc!Live, Rc!Stored
  <2>9. Rc!EndedStaysEnded
    BY <2>1 DEF Rc!EndedStaysEnded
  <2>10. Rc!TallyExplained
    BY <2>1, <2>3 DEF Rc!TallyExplained
  <2> QED
    BY <2>5, <2>6, <2>7, <2>8, <2>9, <2>10 DEF RecordInv
<1>2. ASSUME RecordInv, [Rc!Next]_(Rc!recordVars)
      PROVE  RecordInv'
  <2>1. CASE UNCHANGED Rc!recordVars
    <3>1. UNCHANGED <<table, entry, request, ended, overtaken, blind, rejoined, added>>
      BY <2>1 DEF Rc!recordVars, Rc!recordHist
    <3>2. EntryShape'
      BY <1>2, <3>1, SameStatuses DEF RecordInv, EntryShape
    <3>3. RequestShape' /\ FreshShape' /\ OneEach' /\ Rc!EndedStaysEnded' /\ Rc!TallyExplained'
      BY <1>2, <3>1 DEF RecordInv, RequestShape, FreshShape, OneEach, Alone, Rc!Occupying, Rc!Live,
         Rc!Stored, Rc!EndedStaysEnded, Rc!Last, Rc!TallyExplained
    <3> QED
      BY <3>2, <3>3 DEF RecordInv
  <2>2. ASSUME NEW c \in Calls,
               \/ Rc!Look(c) \/ Rc!Insert(c) \/ Rc!Read(c) \/ Rc!SaveCopy(c)
               \/ Rc!UpdateColumns(c) \/ Rc!Remove(c)
        PROVE  RecordInv'
    BY <1>2, <2>2, LookInv, InsertRowInv, ReadInv, SaveCopyInv, UpdateColumnsInv, RemoveRowInv
  <2> QED
    BY <1>2, <2>1, <2>2 DEF Rc!Next
<1> QED
  BY <1>1, <1>2, PTL DEF Rc!Spec

\* The library that the module of the tables extends counts as this one's.
LEMMA RecordLibrary ==
  \A S : (\A x, y \in S : x = y) => Rc!Cardinality(S) <= 1
<1> SUFFICES ASSUME NEW S, \A x, y \in S : x = y
    PROVE  Rc!Cardinality(S) <= 1
  OBVIOUS
<1>1. Rc!Cardinality(S) = Cardinality(S)
  BY DEF Rc!Cardinality, Cardinality, Rc!IsFiniteSet, IsFiniteSet
<1>2. CASE S = {}
  BY <1>1, <1>2, FS_EmptySet
<1>3. CASE S # {}
  <2>1. PICK x \in S : TRUE
    BY <1>3
  <2>2. S = {x}
    BY <2>1
  <2>3. Cardinality({x}) = 1
    BY FS_Singleton
  <2> QED
    BY <1>1, <2>2, <2>3
<1> QED
  BY <1>2, <1>3

\* The rows of every table of the platform have the types the code gives them.
THEOREM RowTypes == Rc!Spec => []Rc!TypeOK
<1>1. RecordInv => Rc!TypeOK
  BY DEF RecordInv, EntryShape, Rc!TypeOK, Entries, RecordCalls
<1> QED
  BY <1>1, RecordInvariance, PTL

\* A natural key belongs to one row, apart from rows that a create inserted without seeing
\* another, a change of status let back, or an old copy revived; and an index admits no
\* second row written the same way.
THEOREM KeyHasOneRow == Rc!Spec => []Rc!OneLiveRow
<1>1. ASSUME RecordInv
      PROVE  Rc!OneLiveRow
  <2>1. ASSUME table.key # "none"
        PROVE  Rc!Cardinality(Alone) <= 1
    <3>1. \A r, q \in Alone : r = q
      BY <1>1, <2>1 DEF RecordInv, OneEach
    <3> QED
      BY <3>1, RecordLibrary
  <2> QED
    BY <1>1, <2>1 DEF RecordInv, OneEach, Alone, Rc!OneLiveRow
<1> QED
  BY <1>1, RecordInvariance, PTL

\* What a caller was told is over stays over, unless somebody saved an older copy.
THEOREM EndIsKept == Rc!Spec => []Rc!EndedStaysEnded
<1>1. RecordInv => Rc!EndedStaysEnded
  BY DEF RecordInv
<1> QED
  BY <1>1, RecordInvariance, PTL

\* A counter of a row is what its callers were told, unless a copy was saved over it.
THEOREM TalliesAreTold == Rc!Spec => []Rc!TallyExplained
<1>1. RecordInv => Rc!TallyExplained
  BY DEF RecordInv
<1> QED
  BY <1>1, RecordInvariance, PTL

-----------------------------------------------------------------------------
(* Subscriptions.                                                           *)

SubRows   == [begun : BOOLEAN, active : BOOLEAN, auto : BOOLEAN, until : Nat, trial : BOOLEAN]
SubPlaces == {"idle", "activate", "cancel", "delete", "renew"}
Bases     == [rows : [Subs -> SubRows], plan : {"live", "deleted"}]
PaidFor(s) == fees[s] + (IF s \in trials THEN 1 ELSE 0)

SubTypes ==
    /\ plan \in {"live", "deleted"} /\ sub \in [Subs -> SubRows] /\ month \in 0..MaxMonths
    /\ clerk \in [Desks -> SubPlaces] /\ about \in [Desks -> Subs \cup {NoSub}]
    /\ basis \in [Desks -> Bases] /\ list \in [Desks -> SUBSET Subs]
    /\ since \in [Subs -> Nat] /\ fees \in [Subs -> Nat]
    /\ revenue \in [Subs -> Nat] /\ undone \in [Subs -> Nat]
    /\ trials \subseteq Subs /\ cancelled \subseteq Subs
    /\ afterwards \in Nat /\ outdated \in Nat

\* What a request has read: a copy is of a row that began, and was paid for; a request
\* that activates creates a row of its own.
OwnShape(d) ==
    /\ clerk[d] = "activate" =>
           /\ about[d] \in Subs /\ sub[about[d]].begun = FALSE
           /\ basis[d].plan = "live" /\ \A s \in Subs : basis[d].rows[s].active = FALSE
           /\ \A e \in Desks : e # d => about[e] # about[d]
    /\ clerk[d] = "cancel" => about[d] \in Subs /\ basis[d].rows[about[d]].begun = TRUE
    /\ clerk[d] = "delete" => \A s \in Subs : basis[d].rows[s].active = FALSE
    /\ list[d] # {} => clerk[d] = "renew"
    /\ \A s \in list[d] : basis[d].rows[s].active = TRUE
    /\ \A s \in Subs : basis[d].rows[s].active = TRUE => basis[d].rows[s].begun = TRUE
    /\ \A s \in Subs : basis[d].rows[s].begun = TRUE =>
           sub[s].begun = TRUE /\ basis[d].rows[s].until - since[s] <= PaidFor(s)
DeskShape == \A d \in Desks : OwnShape(d)

RowPaid ==
    \A s \in Subs :
        /\ sub[s].active = TRUE => sub[s].begun = TRUE
        /\ sub[s].begun = TRUE => sub[s].until - since[s] <= PaidFor(s)
        /\ s \in cancelled => sub[s].begun = TRUE /\ sub[s].active = FALSE
        /\ s \in trials => sub[s].begun = TRUE
        /\ revenue[s] <= fees[s] + undone[s]

\* Every subscription but the first, and every free trial, took an outdated write.
ActiveOnes == {s \in Subs : sub[s].active = TRUE}
WriteShape ==
    /\ IsFiniteSet(ActiveOnes) /\ Cardinality(ActiveOnes) <= 1 + outdated
    /\ IsFiniteSet(trials) /\ Cardinality(trials) <= 1 + outdated
    /\ plan = "deleted" => ActiveOnes = {} \/ outdated > 0
    /\ afterwards <= outdated

SubInv == SubTypes /\ DeskShape /\ RowPaid /\ WriteShape

\* What the assumption and the invariant say of rows and desks.
LEMMA SubFacts ==
  ASSUME SubInv
  PROVE  /\ plan \in {"live", "deleted"} /\ sub \in [Subs -> SubRows] /\ month \in 0..MaxMonths
         /\ clerk \in [Desks -> SubPlaces] /\ about \in [Desks -> Subs \cup {NoSub}]
         /\ basis \in [Desks -> Bases] /\ list \in [Desks -> SUBSET Subs]
         /\ since \in [Subs -> Nat] /\ fees \in [Subs -> Nat]
         /\ revenue \in [Subs -> Nat] /\ undone \in [Subs -> Nat]
         /\ trials \subseteq Subs /\ cancelled \subseteq Subs
         /\ afterwards \in Nat /\ outdated \in Nat
BY DEF SubInv, SubTypes

\* A row, and a copy of one, by its fields.
LEMMA SubRow ==
  ASSUME NEW r \in SubRows
  PROVE  /\ r.begun \in BOOLEAN /\ r.active \in BOOLEAN /\ r.auto \in BOOLEAN
         /\ r.until \in Nat /\ r.trial \in BOOLEAN
BY DEF SubRows

\* A desk that has read a subscription holds a copy of its row.
LEMMA SubCopy ==
  ASSUME SubInv, NEW d \in Desks
  PROVE  /\ basis[d].rows \in [Subs -> SubRows] /\ basis[d].plan \in {"live", "deleted"}
         /\ \A s \in Subs : basis[d].rows[s] \in SubRows /\ sub[s] \in SubRows
BY SubFacts DEF Bases

\* The module's sets of rows.
LEMMA SubSets ==
  ASSUME SubInv
  PROVE  /\ Su!ActiveSubs = ActiveOnes
         /\ \A s : s \in Su!Started <=> s \in Subs /\ sub[s].begun = TRUE
         /\ \A s : s \in Su!Due => s \in Subs /\ sub[s].active = TRUE /\ sub[s].begun = TRUE
<1>1. \A s \in Subs : sub[s].begun \in BOOLEAN /\ sub[s].active \in BOOLEAN
  BY SubFacts, SubRow
<1>2. Su!ActiveSubs = ActiveOnes
  BY <1>1, Zenon DEF Su!ActiveSubs, ActiveOnes
<1>3. \A s : s \in Su!Started <=> s \in Subs /\ sub[s].begun = TRUE
  BY <1>1, Zenon DEF Su!Started
<1>4. \A s : s \in Su!Due => s \in Su!Started /\ sub[s].active
  BY Zenon DEF Su!Due
<1> QED
  BY <1>1, <1>2, <1>3, <1>4, Zenon

\* A request ends, or goes on with what it has read.
LEMMA DeskFinishes ==
  ASSUME SubInv, NEW d \in Desks, Su!Finish(d)
  PROVE  /\ clerk' \in [Desks -> SubPlaces] /\ about' \in [Desks -> Subs \cup {NoSub}]
         /\ basis' \in [Desks -> Bases]
         /\ clerk'[d] = "idle" /\ about'[d] = NoSub
         /\ \A s \in Subs : basis'[d].rows[s].begun = FALSE /\ basis'[d].rows[s].active = FALSE
         /\ \A e \in Desks : e # d =>
                clerk'[e] = clerk[e] /\ about'[e] = about[e] /\ basis'[e] = basis[e]
<1> DEFINE new == [begun |-> FALSE, active |-> FALSE, auto |-> FALSE, until |-> 0, trial |-> FALSE]
           none == [rows |-> [s \in Subs |-> new], plan |-> "live"]
<1>1. /\ clerk' = [clerk EXCEPT ![d] = "idle"] /\ about' = [about EXCEPT ![d] = NoSub]
      /\ basis' = [basis EXCEPT ![d] = none]
  BY DEF Su!Finish, Su!NoBasis, Su!NewSub
<1>2. new \in SubRows /\ new.begun = FALSE /\ new.active = FALSE
  BY DEF SubRows
<1> HIDE DEF new
<1>3. none \in Bases /\ none.rows = [s \in Subs |-> new]
  BY <1>2 DEF Bases
<1> HIDE DEF none
<1>4. basis' \in [Desks -> Bases] /\ basis'[d] = none
      /\ \A e \in Desks : e # d => basis'[e] = basis[e]
  BY <1>1, <1>3, SubFacts
<1>5. /\ clerk' \in [Desks -> SubPlaces] /\ about' \in [Desks -> Subs \cup {NoSub}]
      /\ clerk'[d] = "idle" /\ about'[d] = NoSub
      /\ \A e \in Desks : e # d => clerk'[e] = clerk[e] /\ about'[e] = about[e]
  BY <1>1, SubFacts DEF SubPlaces
<1> QED
  BY <1>2, <1>3, <1>4, <1>5

\* A desk that moves on leaves the rows as they are.
LEMMA DeskProceeds ==
  ASSUME SubInv, NEW d \in Desks, NEW where \in SubPlaces, NEW s \in Subs \cup {NoSub},
         Su!Proceed(d, where, s)
  PROVE  /\ clerk' \in [Desks -> SubPlaces] /\ about' \in [Desks -> Subs \cup {NoSub}]
         /\ basis' \in [Desks -> Bases]
         /\ clerk'[d] = where /\ about'[d] = s /\ basis'[d].rows = sub /\ basis'[d].plan = plan
         /\ \A e \in Desks : e # d =>
                clerk'[e] = clerk[e] /\ about'[e] = about[e] /\ basis'[e] = basis[e]
<1> DEFINE now == [rows |-> sub, plan |-> plan]
<1>1. /\ clerk' = [clerk EXCEPT ![d] = where] /\ about' = [about EXCEPT ![d] = s]
      /\ basis' = [basis EXCEPT ![d] = now]
  BY DEF Su!Proceed
<1>2. now \in Bases /\ now.rows = sub /\ now.plan = plan
  BY SubFacts DEF Bases
<1> HIDE DEF now
<1> QED
  BY <1>1, <1>2, SubFacts

\* A request has read the rows.
LEMMA DeskReads ==
  ASSUME SubInv, NEW d \in Desks,
         UNCHANGED <<plan, sub, month, since, fees, revenue, undone, trials, cancelled, afterwards,
                     outdated>>,
         clerk' \in [Desks -> SubPlaces], about' \in [Desks -> Subs \cup {NoSub}],
         basis' \in [Desks -> Bases], list' \in [Desks -> SUBSET Subs],
         basis'[d].rows = sub, basis'[d].plan = plan,
         \A e \in Desks : e # d =>
             clerk'[e] = clerk[e] /\ about'[e] = about[e] /\ basis'[e] = basis[e]
               /\ list'[e] = list[e],
         clerk'[d] = "activate" =>
             /\ about'[d] \in Subs /\ sub[about'[d]].begun = FALSE /\ plan = "live"
             /\ \A e \in Desks : about[e] # about'[d],
         clerk'[d] \in {"activate", "delete"} => ActiveOnes = {},
         about'[d] \in Subs /\ clerk'[d] # "activate" => sub[about'[d]].begun = TRUE,
         clerk'[d] = "cancel" => about'[d] \in Subs,
         NoSub \notin Subs,
         list'[d] # {} => clerk'[d] = "renew", \A s \in list'[d] : sub[s].active = TRUE
  PROVE  SubInv'
<1>1. SubTypes'
  BY SubFacts DEF SubTypes
<1>2. RowPaid' /\ WriteShape'
  BY DEF SubInv, RowPaid, WriteShape, ActiveOnes, PaidFor
<1>3. OwnShape(d)'
  <2>1. clerk'[d] \in {"activate", "delete"} => \A s \in Subs : sub[s].active = FALSE
    BY SubFacts, SubRow DEF ActiveOnes
  <2>2. \A s \in Subs : /\ sub[s].active = TRUE => sub[s].begun = TRUE
                        /\ sub[s].begun = TRUE => sub[s].until - since[s] <= PaidFor(s)
    BY DEF SubInv, RowPaid
  <2>3. \A s \in Subs : PaidFor(s)' = PaidFor(s)
    BY DEF PaidFor
  <2> QED
    BY <2>1, <2>2, <2>3 DEF OwnShape
<1>4. ASSUME NEW e \in Desks, e # d
      PROVE  OwnShape(e)'
  <2>1. clerk[e] = "activate" => about'[d] # about[e]
    <3> SUFFICES ASSUME clerk[e] = "activate"
        PROVE  about'[d] # about[e]
      OBVIOUS
    <3>1. about[e] \in Subs /\ sub[about[e]].begun = FALSE
      BY DEF SubInv, DeskShape, OwnShape
    <3> QED
      BY <3>1
  <2>2. \A s \in Subs : PaidFor(s)' = PaidFor(s)
    BY DEF PaidFor
  <2>3. OwnShape(e)
    BY DEF SubInv, DeskShape
  <2> QED
    BY <1>4, <2>1, <2>2, <2>3 DEF OwnShape
<1> QED
  BY <1>1, <1>2, <1>3, <1>4 DEF SubInv, DeskShape

\* A request that wrote goes on renewing its list, or has ended.
LEMMA DeskWrote ==
  ASSUME SubInv, NEW d \in Desks,
         \A e \in Desks : e # d =>
             clerk'[e] = clerk[e] /\ about'[e] = about[e] /\ basis'[e] = basis[e]
               /\ list'[e] = list[e],
         about'[d] \in {about[d], NoSub}, NoSub \notin Subs,
         \/ /\ clerk'[d] = "idle" /\ list'[d] = {}
            /\ \A s \in Subs : basis'[d].rows[s].begun = FALSE /\ basis'[d].rows[s].active = FALSE
         \/ /\ clerk[d] = "renew" /\ clerk'[d] = clerk[d] /\ basis'[d] = basis[d]
            /\ list'[d] \subseteq list[d],
         \A s \in Subs : sub[s].begun = TRUE => sub'[s].begun = TRUE /\ since'[s] = since[s],
         \A s \in Subs : PaidFor(s)' >= PaidFor(s) /\ PaidFor(s)' \in Int /\ PaidFor(s) \in Int
                           /\ since[s] \in Nat,
         \A s \in Subs, e \in Desks : clerk[e] = "activate" /\ about[e] = s /\ e # d =>
             sub'[s].begun = FALSE
  PROVE  DeskShape'
<1>1. ASSUME NEW e \in Desks, NEW s \in Subs, basis[e].rows[s].begun = TRUE
      PROVE  sub'[s].begun = TRUE /\ basis[e].rows[s].until - since'[s] <= PaidFor(s)'
  <2>1. sub[s].begun = TRUE /\ basis[e].rows[s].until - since[s] <= PaidFor(s)
    BY <1>1 DEF SubInv, DeskShape, OwnShape
  <2>2. basis[e].rows[s].until \in Nat
    BY SubCopy, SubRow
  <2> QED
    BY <2>1, <2>2
<1>2. OwnShape(d)'
  <2>1. CASE /\ clerk'[d] = "idle" /\ list'[d] = {}
             /\ \A s \in Subs : basis'[d].rows[s].begun = FALSE /\ basis'[d].rows[s].active = FALSE
    BY <2>1 DEF OwnShape
  <2>2. CASE /\ clerk[d] = "renew" /\ clerk'[d] = clerk[d] /\ basis'[d] = basis[d]
             /\ list'[d] \subseteq list[d]
    BY <1>1, <2>2 DEF SubInv, DeskShape, OwnShape
  <2> QED
    BY <2>1, <2>2
<1>3. ASSUME NEW e \in Desks, e # d
      PROVE  OwnShape(e)'
  <2>1. OwnShape(e)
    BY DEF SubInv, DeskShape
  <2>2. clerk'[e] = clerk[e] /\ about'[e] = about[e] /\ basis'[e] = basis[e] /\ list'[e] = list[e]
    BY <1>3
  <2>3. clerk[e] = "activate" =>
            sub'[about[e]].begun = FALSE /\ \A f \in Desks : f # e => about'[f] # about[e]
    BY <1>3, <2>1 DEF OwnShape
  <2>4. clerk'[e] = "activate" =>
           /\ about'[e] \in Subs /\ sub'[about'[e]].begun = FALSE
           /\ basis'[e].plan = "live" /\ \A s \in Subs : basis'[e].rows[s].active = FALSE
           /\ \A f \in Desks : f # e => about'[f] # about'[e]
    BY <2>1, <2>2, <2>3 DEF OwnShape
  <2>5. \A s \in Subs : basis'[e].rows[s].begun = TRUE =>
            sub'[s].begun = TRUE /\ basis'[e].rows[s].until - since'[s] <= PaidFor(s)'
    BY <1>1, <2>2
  <2>6. /\ clerk'[e] = "cancel" => about'[e] \in Subs /\ basis'[e].rows[about'[e]].begun = TRUE
        /\ clerk'[e] = "delete" => \A s \in Subs : basis'[e].rows[s].active = FALSE
        /\ list'[e] # {} => clerk'[e] = "renew"
        /\ \A s \in list'[e] : basis'[e].rows[s].active = TRUE
        /\ \A s \in Subs : basis'[e].rows[s].active = TRUE => basis'[e].rows[s].begun = TRUE
    BY <2>1, <2>2 DEF OwnShape
  <2> QED
    BY <2>4, <2>5, <2>6 DEF OwnShape
<1> QED
  BY <1>2, <1>3 DEF DeskShape

\* The rows stay: time passes, the plan goes, or a transaction is rolled back.
LEMMA SubKept ==
  ASSUME SubInv, UNCHANGED <<sub, since, fees, trials, cancelled, afterwards>>,
         SubTypes', DeskShape',
         \A s \in Subs : revenue'[s] <= fees[s] + undone'[s],
         outdated' \in {outdated, outdated + 1},
         plan' = "deleted" => plan = "deleted" \/ ActiveOnes = {} \/ outdated' = outdated + 1
  PROVE  SubInv'
<1>1. RowPaid'
  BY DEF SubInv, RowPaid, PaidFor
<1>2. WriteShape'
  <2>1. IsFiniteSet(ActiveOnes) /\ IsFiniteSet(trials)
    BY DEF SubInv, WriteShape
  <2>2. Cardinality(ActiveOnes) \in Nat /\ Cardinality(trials) \in Nat /\ outdated \in Nat
        /\ afterwards \in Nat
    BY <2>1, FS_CardinalityType, SubFacts
  <2>3. ActiveOnes' = ActiveOnes
    BY DEF ActiveOnes
  <2> QED
    BY <2>1, <2>2, <2>3 DEF SubInv, WriteShape
<1> QED
  BY <1>1, <1>2 DEF SubInv

\* A set to which at most one was added.
LEMMA OneMoreActive ==
  ASSUME NEW S, IsFiniteSet(S), NEW T, NEW s, T \subseteq S \cup {s}, NEW n \in Nat,
         Cardinality(S) <= 1 + n, NEW k \in {n, n + 1},
         T \subseteq S \/ k = n + 1 \/ S = {}
  PROVE  IsFiniteSet(T) /\ Cardinality(T) <= 1 + k
<1>1. IsFiniteSet(S \cup {s}) /\ Cardinality(S \cup {s}) \in {Cardinality(S), Cardinality(S) + 1}
  BY FS_AddElement
<1>2. IsFiniteSet(T) /\ Cardinality(T) <= Cardinality(S \cup {s})
  BY <1>1, FS_Subset
<1>3. Cardinality(T) \in Nat /\ Cardinality(S) \in Nat
  BY <1>2, FS_CardinalityType
<1>4. CASE T \subseteq S
  <2>1. Cardinality(T) <= Cardinality(S)
    BY <1>4, FS_Subset
  <2> QED
    BY <1>2, <1>3, <2>1
<1>5. CASE S = {}
  <2>1. Cardinality(S) = 0
    BY <1>5, FS_EmptySet
  <2> QED
    BY <1>1, <1>2, <1>3, <2>1
<1>6. CASE k = n + 1
  BY <1>1, <1>2, <1>3, <1>6
<1> QED
  BY <1>4, <1>5, <1>6

\* A request writes the row of a subscription.
LEMMA SubWritten ==
  ASSUME SubInv, NEW s \in Subs, NEW new \in SubRows, new.begun = TRUE,
         sub' = [sub EXCEPT ![s] = new], UNCHANGED <<plan, month>>,
         SubTypes', DeskShape',
         \A q \in Subs : q # s => since'[q] = since[q] /\ fees'[q] = fees[q]
                                    /\ revenue'[q] = revenue[q] /\ undone'[q] = undone[q],
         trials \subseteq trials', trials' \subseteq trials \cup {s},
         cancelled' \subseteq cancelled \cup {s}, s \in cancelled' => new.active = FALSE,
         new.until - since'[s] <= PaidFor(s)', revenue'[s] <= fees'[s] + undone'[s],
         outdated' \in {outdated, outdated + 1}, afterwards' <= outdated',
         new.active = TRUE => \/ sub[s].active = TRUE \/ outdated' = outdated + 1
                              \/ ActiveOnes = {} /\ plan = "live",
         s \in trials' => s \in trials \/ outdated' = outdated + 1 \/ trials = {}
  PROVE  SubInv'
<1>1. sub'[s] = new /\ \A q \in Subs : q # s => sub'[q] = sub[q]
  BY SubFacts
<1>2. RowPaid'
  <2> SUFFICES ASSUME NEW q \in Subs
      PROVE  /\ sub'[q].active = TRUE => sub'[q].begun = TRUE
             /\ sub'[q].begun = TRUE => sub'[q].until - since'[q] <= PaidFor(q)'
             /\ q \in cancelled' => sub'[q].begun = TRUE /\ sub'[q].active = FALSE
             /\ q \in trials' => sub'[q].begun = TRUE
             /\ revenue'[q] <= fees'[q] + undone'[q]
    BY DEF RowPaid
  <2>1. CASE q = s
    BY <1>1, <2>1
  <2>2. CASE q # s
    <3>1. PaidFor(q)' = PaidFor(q)
      BY <2>2 DEF PaidFor
    <3> QED
      BY <1>1, <2>2, <3>1 DEF SubInv, RowPaid
  <2> QED
    BY <2>1, <2>2
<1>3. WriteShape'
  <2>1. /\ IsFiniteSet(ActiveOnes) /\ Cardinality(ActiveOnes) <= 1 + outdated
        /\ IsFiniteSet(trials) /\ Cardinality(trials) <= 1 + outdated
        /\ (plan = "deleted" => ActiveOnes = {} \/ outdated > 0) /\ outdated \in Nat
    BY SubFacts DEF SubInv, WriteShape
  <2>2. ActiveOnes' \subseteq ActiveOnes \cup {s}
    BY <1>1 DEF ActiveOnes
  <2>3. \/ ActiveOnes' \subseteq ActiveOnes \/ outdated' = outdated + 1
        \/ ActiveOnes = {} /\ plan = "live"
    BY <1>1 DEF ActiveOnes
  <2>4. IsFiniteSet(ActiveOnes') /\ Cardinality(ActiveOnes') <= 1 + outdated'
    BY <2>1, <2>2, <2>3, OneMoreActive
  <2>5. IsFiniteSet(trials') /\ Cardinality(trials') <= 1 + outdated'
    <3>1. trials' \subseteq trials \/ outdated' = outdated + 1 \/ trials = {}
      OBVIOUS
    <3> QED
      BY <2>1, <3>1, OneMoreActive
  <2>6. plan' = "deleted" => ActiveOnes' = {} \/ outdated' > 0
    BY <2>1, <2>3
  <2> QED
    BY <2>4, <2>5, <2>6 DEF WriteShape
<1> QED
  BY <1>2, <1>3 DEF SubInv

\* A month passes.
LEMMA MonthInv ==
  ASSUME SubInv, Su!SubscriptionAssumption, Su!Month
  PROVE  SubInv'
<1>1. /\ month < MaxMonths /\ month' = month + 1
      /\ UNCHANGED <<plan, sub, clerk, about, basis, list, since, fees, revenue, undone, trials,
                     cancelled, afterwards, outdated>>
  BY DEF Su!Month, Su!ledger, Su!subHist
<1>2. month' \in 0..MaxMonths
  BY <1>1, SubFacts DEF Su!SubscriptionAssumption
<1>3. SubTypes'
  BY <1>1, <1>2, SubFacts DEF SubTypes
<1>4. DeskShape'
  BY <1>1 DEF SubInv, DeskShape, OwnShape, PaidFor
<1>5. \A s \in Subs : revenue[s] <= fees[s] + undone[s]
  BY DEF SubInv, RowPaid
<1> QED
  BY <1>1, <1>3, <1>4, <1>5, SubKept

\* An activation reads the subscription.
LEMMA ReadForActivationInv ==
  ASSUME SubInv, Su!SubscriptionAssumption, NEW d \in Desks, Su!ReadForActivation(d)
  PROVE  SubInv'
<1>1. /\ clerk[d] = "idle" /\ plan = "live" /\ Su!ActiveSubs = {}
      /\ UNCHANGED <<plan, sub, month, list, since, fees, revenue, undone, trials, cancelled,
                     afterwards, outdated>>
  BY DEF Su!ReadForActivation, Su!Starts, Su!ledger, Su!subHist
<1>2. PICK s \in Subs \ Su!Started : /\ \A e \in Desks : about[e] # s
                                   /\ Su!Proceed(d, "activate", s)
  BY DEF Su!ReadForActivation
<1>3. s \in Subs /\ sub[s].begun = FALSE /\ ActiveOnes = {}
  BY <1>1, <1>2, SubSets, SubFacts, SubRow
<1>4. list[d] = {} /\ list \in [Desks -> SUBSET Subs]
  BY <1>1, SubFacts DEF SubInv, DeskShape, OwnShape
<1>5. /\ clerk' \in [Desks -> SubPlaces] /\ about' \in [Desks -> Subs \cup {NoSub}]
      /\ basis' \in [Desks -> Bases]
      /\ clerk'[d] = "activate" /\ about'[d] = s /\ basis'[d].rows = sub /\ basis'[d].plan = plan
      /\ \A e \in Desks : e # d =>
             clerk'[e] = clerk[e] /\ about'[e] = about[e] /\ basis'[e] = basis[e]
  BY <1>2, <1>3, DeskProceeds DEF SubPlaces
<1> QED
  BY <1>1, <1>2, <1>3, <1>4, <1>5, DeskReads DEF Su!SubscriptionAssumption

\* A cancellation reads the subscription.
LEMMA ReadForCancelInv ==
  ASSUME SubInv, Su!SubscriptionAssumption, NEW d \in Desks, Su!ReadForCancel(d)
  PROVE  SubInv'
<1>1. /\ clerk[d] = "idle"
      /\ UNCHANGED <<plan, sub, month, list, since, fees, revenue, undone, trials, cancelled,
                     afterwards, outdated>>
  BY DEF Su!ReadForCancel, Su!Starts, Su!ledger, Su!subHist
<1>2. PICK s \in Su!Started : Su!Proceed(d, "cancel", s)
  BY DEF Su!ReadForCancel
<1>3. s \in Subs /\ sub[s].begun = TRUE
  BY <1>2, SubSets
<1>4. list[d] = {} /\ list \in [Desks -> SUBSET Subs]
  BY <1>1, SubFacts DEF SubInv, DeskShape, OwnShape
<1>5. /\ clerk' \in [Desks -> SubPlaces] /\ about' \in [Desks -> Subs \cup {NoSub}]
      /\ basis' \in [Desks -> Bases]
      /\ clerk'[d] = "cancel" /\ about'[d] = s /\ basis'[d].rows = sub /\ basis'[d].plan = plan
      /\ \A e \in Desks : e # d =>
             clerk'[e] = clerk[e] /\ about'[e] = about[e] /\ basis'[e] = basis[e]
  BY <1>2, <1>3, DeskProceeds DEF SubPlaces
<1> QED
  BY <1>1, <1>3, <1>4, <1>5, DeskReads DEF Su!SubscriptionAssumption

\* The deletion of a plan counts its active subscriptions.
LEMMA CountActiveInv ==
  ASSUME SubInv, Su!SubscriptionAssumption, NEW d \in Desks, Su!CountActive(d)
  PROVE  SubInv'
<1>1. /\ clerk[d] = "idle" /\ Su!ActiveSubs = {} /\ Su!Proceed(d, "delete", NoSub)
      /\ UNCHANGED <<plan, sub, month, list, since, fees, revenue, undone, trials, cancelled,
                     afterwards, outdated>>
  BY DEF Su!CountActive, Su!Starts, Su!ledger, Su!subHist
<1>3. ActiveOnes = {}
  BY <1>1, SubSets
<1>4. list[d] = {} /\ list \in [Desks -> SUBSET Subs]
  BY <1>1, SubFacts DEF SubInv, DeskShape, OwnShape
<1>5. /\ clerk' \in [Desks -> SubPlaces] /\ about' \in [Desks -> Subs \cup {NoSub}]
      /\ basis' \in [Desks -> Bases]
      /\ clerk'[d] = "delete" /\ about'[d] = NoSub /\ basis'[d].rows = sub /\ basis'[d].plan = plan
      /\ \A e \in Desks : e # d =>
             clerk'[e] = clerk[e] /\ about'[e] = about[e] /\ basis'[e] = basis[e]
  BY <1>1, DeskProceeds DEF SubPlaces
<1> QED
  BY <1>1, <1>3, <1>4, <1>5, DeskReads DEF Su!SubscriptionAssumption

\* The renewal job lists the subscriptions that are due.
LEMMA FindDueInv ==
  ASSUME SubInv, Su!SubscriptionAssumption, NEW d \in Desks, Su!FindDue(d)
  PROVE  SubInv'
<1>1. /\ clerk[d] = "idle" /\ Su!Proceed(d, "renew", NoSub)
      /\ list' = [list EXCEPT ![d] = Su!Due]
      /\ UNCHANGED <<plan, sub, month, since, fees, revenue, undone, trials, cancelled,
                     afterwards, outdated>>
  BY DEF Su!FindDue, Su!Starts, Su!ledger, Su!subHist
<1>2. Su!Due \subseteq Subs /\ \A s \in Su!Due : sub[s].active = TRUE
  BY SubSets
<1>4. list'[d] = Su!Due /\ list' \in [Desks -> SUBSET Subs]
      /\ \A e \in Desks : e # d => list'[e] = list[e]
  BY <1>1, <1>2, SubFacts
<1>5. /\ clerk' \in [Desks -> SubPlaces] /\ about' \in [Desks -> Subs \cup {NoSub}]
      /\ basis' \in [Desks -> Bases]
      /\ clerk'[d] = "renew" /\ about'[d] = NoSub /\ basis'[d].rows = sub /\ basis'[d].plan = plan
      /\ \A e \in Desks : e # d =>
             clerk'[e] = clerk[e] /\ about'[e] = about[e] /\ basis'[e] = basis[e]
  BY <1>1, DeskProceeds DEF SubPlaces
<1> QED
  BY <1>1, <1>2, <1>4, <1>5, DeskReads DEF Su!SubscriptionAssumption

\* What is paid for a subscription is a number.
LEMMA PaidNumber ==
  ASSUME SubInv, NEW s \in Subs
  PROVE  PaidFor(s) \in Nat /\ since[s] \in Nat /\ fees[s] \in Nat /\ revenue[s] \in Nat
         /\ undone[s] \in Nat
BY SubFacts DEF PaidFor

\* A plan is deleted when the count was zero.
LEMMA DeletePlanInv ==
  ASSUME SubInv, Su!SubscriptionAssumption, NEW d \in Desks, Su!DeletePlan(d)
  PROVE  SubInv'
<1>1. /\ clerk[d] = "delete" /\ plan' = "deleted" /\ Su!Finish(d)
      /\ Su!Outdated(Su!ActiveSubs # {s \in Subs : basis[d].rows[s].active})
      /\ UNCHANGED <<sub, month, list, since, fees, revenue, undone, trials, cancelled,
                     afterwards>>
  BY DEF Su!DeletePlan, Su!ledger, Su!subHist
<1>2. outdated' \in {outdated, outdated + 1}
  BY <1>1 DEF Su!Outdated
<1>3. ActiveOnes = {} \/ outdated' = outdated + 1
  <2>1. \A s \in Subs : basis[d].rows[s].active = FALSE
    BY <1>1 DEF SubInv, DeskShape, OwnShape
  <2>2. {s \in Subs : basis[d].rows[s].active} = {}
    BY <2>1
  <2> QED
    BY <1>1, <2>2, SubSets DEF Su!Outdated
<1>4. /\ clerk' \in [Desks -> SubPlaces] /\ about' \in [Desks -> Subs \cup {NoSub}]
      /\ basis' \in [Desks -> Bases]
      /\ clerk'[d] = "idle" /\ about'[d] = NoSub
      /\ \A s \in Subs : basis'[d].rows[s].begun = FALSE /\ basis'[d].rows[s].active = FALSE
      /\ \A e \in Desks : e # d =>
             clerk'[e] = clerk[e] /\ about'[e] = about[e] /\ basis'[e] = basis[e]
  BY <1>1, DeskFinishes
<1>5. SubTypes'
  BY <1>1, <1>2, <1>4, SubFacts DEF SubTypes
<1>6. list'[d] = {} /\ \A e \in Desks : list'[e] = list[e]
  BY <1>1 DEF SubInv, DeskShape, OwnShape
<1>7. \A s \in Subs : PaidFor(s)' >= PaidFor(s) /\ PaidFor(s)' \in Int /\ PaidFor(s) \in Int
                        /\ since[s] \in Nat
  BY <1>1, PaidNumber DEF PaidFor
<1>8. \A s \in Subs, e \in Desks : clerk[e] = "activate" /\ about[e] = s /\ e # d =>
          sub'[s].begun = FALSE
  BY <1>1 DEF SubInv, DeskShape, OwnShape
<1>9. DeskShape'
  BY <1>1, <1>4, <1>6, <1>7, <1>8, DeskWrote DEF Su!SubscriptionAssumption
<1>10. \A s \in Subs : revenue'[s] <= fees[s] + undone'[s]
  BY <1>1 DEF SubInv, RowPaid
<1> QED
  BY <1>1, <1>2, <1>3, <1>5, <1>9, <1>10, SubKept

\* A cancellation is saved.
LEMMA CancelInv ==
  ASSUME SubInv, Su!SubscriptionAssumption, NEW d \in Desks, Su!Cancel(d)
  PROVE  SubInv'
<1>0. PICK s \in Subs : s = about[d] /\ clerk[d] = "cancel" /\ basis[d].rows[s].begun = TRUE
  BY DEF Su!Cancel, SubInv, DeskShape, OwnShape
<1> DEFINE copy == basis[d].rows[s]
           new == [copy EXCEPT !.active = FALSE, !.auto = FALSE]
<1>1. /\ clerk[d] = "cancel" /\ sub' = [sub EXCEPT ![s] = new]
      /\ cancelled' = cancelled \cup {s} /\ Su!Outdated(copy # sub[s]) /\ Su!Finish(d)
      /\ UNCHANGED <<plan, month, list, since, fees, revenue, undone, trials, afterwards>>
  BY <1>0 DEF Su!Cancel, Su!ledger
<1>2. s \in Subs /\ copy.begun = TRUE /\ copy \in SubRows
  BY <1>0, SubCopy
<1>3. sub[s].begun = TRUE /\ copy.until - since[s] <= PaidFor(s)
  BY <1>2 DEF SubInv, DeskShape, OwnShape
<1>4. outdated' \in {outdated, outdated + 1}
  BY <1>1 DEF Su!Outdated
<1> HIDE DEF copy
<1>5. new \in SubRows /\ new.begun = TRUE /\ new.active = FALSE /\ new.until = copy.until
  BY <1>2 DEF SubRows
<1> HIDE DEF new
<1>6. /\ clerk' \in [Desks -> SubPlaces] /\ about' \in [Desks -> Subs \cup {NoSub}]
      /\ basis' \in [Desks -> Bases]
      /\ clerk'[d] = "idle" /\ about'[d] = NoSub
      /\ \A q \in Subs : basis'[d].rows[q].begun = FALSE /\ basis'[d].rows[q].active = FALSE
      /\ \A e \in Desks : e # d =>
             clerk'[e] = clerk[e] /\ about'[e] = about[e] /\ basis'[e] = basis[e]
  BY <1>1, DeskFinishes
<1>7. sub' \in [Subs -> SubRows] /\ sub'[s] = new /\ \A q \in Subs : q # s => sub'[q] = sub[q]
  BY <1>1, <1>2, <1>5, SubFacts
<1>8. SubTypes'
  BY <1>1, <1>2, <1>4, <1>6, <1>7, SubFacts DEF SubTypes
<1>9. list'[d] = {} /\ \A e \in Desks : list'[e] = list[e]
  BY <1>1 DEF SubInv, DeskShape, OwnShape
<1>10. \A q \in Subs : PaidFor(q)' >= PaidFor(q) /\ PaidFor(q)' \in Int /\ PaidFor(q) \in Int
                         /\ since[q] \in Nat
  BY <1>1, PaidNumber DEF PaidFor
<1>11. DeskShape'
  <2>1. \A q \in Subs : sub[q].begun = TRUE => sub'[q].begun = TRUE /\ since'[q] = since[q]
    BY <1>1, <1>5, <1>7
  <2>2. \A q \in Subs, e \in Desks : clerk[e] = "activate" /\ about[e] = q /\ e # d =>
            sub'[q].begun = FALSE
    <3>1. \A q \in Subs, e \in Desks : clerk[e] = "activate" /\ about[e] = q => sub[q].begun = FALSE
      BY DEF SubInv, DeskShape, OwnShape
    <3> QED
      BY <1>3, <1>7, <3>1
  <2>3. \A e \in Desks : e # d =>
             clerk'[e] = clerk[e] /\ about'[e] = about[e] /\ basis'[e] = basis[e]
               /\ list'[e] = list[e]
    BY <1>6, <1>9
  <2>4. NoSub \notin Subs
    BY DEF Su!SubscriptionAssumption
  <2>5. about'[d] \in {about[d], NoSub} /\ clerk'[d] = "idle" /\ list'[d] = {}
        /\ \A q \in Subs : basis'[d].rows[q].begun = FALSE /\ basis'[d].rows[q].active = FALSE
    BY <1>6, <1>9
  <2> QED
    BY <1>10, <2>1, <2>2, <2>3, <2>4, <2>5, DeskWrote
<1>12. PaidFor(s)' = PaidFor(s) /\ since'[s] = since[s] /\ afterwards' <= outdated'
  <2>1. afterwards <= outdated /\ afterwards \in Nat /\ outdated \in Nat
    BY SubFacts DEF SubInv, WriteShape
  <2> QED
    BY <1>1, <1>4, <2>1 DEF PaidFor
<1>13. revenue'[s] <= fees'[s] + undone'[s]
  BY <1>1, <1>2 DEF SubInv, RowPaid
<1> QED
  BY <1>1, <1>2, <1>3, <1>4, <1>5, <1>8, <1>11, <1>12, <1>13, SubWritten

\* An activation is paid for and saved.
LEMMA ActivateInv ==
  ASSUME SubInv, Su!SubscriptionAssumption, NEW d \in Desks, Su!Activate(d)
  PROVE  SubInv'
<1>0. PICK s \in Subs :
        /\ s = about[d] /\ clerk[d] = "activate" /\ sub[s].begun = FALSE /\ basis[d].plan = "live"
        /\ \A q \in Subs : basis[d].rows[q].active = FALSE
        /\ \A e \in Desks : e # d => about[e] # s
  BY DEF Su!Activate, SubInv, DeskShape, OwnShape
<1> DEFINE trial == \A t \in Subs : ~basis[d].rows[t].begun
           new == [begun |-> TRUE, active |-> TRUE, auto |-> TRUE, until |-> month + 1,
                   trial |-> trial]
<1>1. PICK commits \in BOOLEAN, recorded \in Su!Recorded(trial) :
        /\ revenue' = [revenue EXCEPT ![s] = revenue[s] + recorded]
        /\ IF commits
           THEN /\ sub' = [sub EXCEPT ![s] = new]
                /\ since' = [since EXCEPT ![s] = month]
                /\ trials' = IF trial THEN trials \cup {s} ELSE trials
                /\ fees' = [fees EXCEPT ![s] = fees[s] + IF trial THEN 0 ELSE 1]
                /\ Su!Outdated(basis[d] # [rows |-> sub, plan |-> plan])
                /\ UNCHANGED undone
           ELSE /\ undone[s] < MaxUndone
                /\ undone' = [undone EXCEPT ![s] = undone[s] + 1]
                /\ UNCHANGED <<sub, since, trials, fees, outdated>>
  BY <1>0 DEF Su!Activate
<1>2. Su!Finish(d) /\ UNCHANGED <<plan, month, list, cancelled, afterwards>>
  BY DEF Su!Activate
<1>3. recorded \in {0, 1} /\ (trial => recorded = 0)
  BY <1>1 DEF Su!Recorded
<1>4. new \in SubRows /\ new.begun = TRUE /\ new.active = TRUE /\ new.until = month + 1
      /\ month \in Nat
  <2>1. trial \in BOOLEAN
    OBVIOUS
  <2> HIDE DEF trial
  <2> QED
    BY <2>1, SubFacts DEF SubRows, Su!SubscriptionAssumption
<1>5. trial => \A q \in Subs : basis[d].rows[q].begun = FALSE
  BY SubCopy, SubRow
<1> HIDE DEF trial, new
<1>6. /\ clerk' \in [Desks -> SubPlaces] /\ about' \in [Desks -> Subs \cup {NoSub}]
      /\ basis' \in [Desks -> Bases]
      /\ clerk'[d] = "idle" /\ about'[d] = NoSub
      /\ \A q \in Subs : basis'[d].rows[q].begun = FALSE /\ basis'[d].rows[q].active = FALSE
      /\ \A e \in Desks : e # d =>
             clerk'[e] = clerk[e] /\ about'[e] = about[e] /\ basis'[e] = basis[e]
  BY <1>2, DeskFinishes
<1>7. list'[d] = {} /\ \A e \in Desks : list'[e] = list[e]
  BY <1>0, <1>2 DEF SubInv, DeskShape, OwnShape
<1>8. /\ \A e \in Desks : e # d =>
             clerk'[e] = clerk[e] /\ about'[e] = about[e] /\ basis'[e] = basis[e]
               /\ list'[e] = list[e]
      /\ NoSub \notin Subs
      /\ about'[d] \in {about[d], NoSub} /\ clerk'[d] = "idle" /\ list'[d] = {}
      /\ \A q \in Subs : basis'[d].rows[q].begun = FALSE /\ basis'[d].rows[q].active = FALSE
  BY <1>6, <1>7 DEF Su!SubscriptionAssumption
<1>9. /\ revenue' \in [Subs -> Nat] /\ revenue'[s] = revenue[s] + recorded
      /\ \A q \in Subs : q # s => revenue'[q] = revenue[q]
      /\ revenue[s] \in Nat /\ fees[s] \in Nat /\ undone[s] \in Nat
  BY <1>1, <1>3, SubFacts
<1>10. \A q \in Subs, e \in Desks : clerk[e] = "activate" /\ about[e] = q /\ e # d =>
          q # s /\ sub[q].begun = FALSE
  BY <1>0 DEF SubInv, DeskShape, OwnShape
<1>11. \A q \in Subs : revenue[q] <= fees[q] + undone[q]
  BY DEF SubInv, RowPaid
<1>12. CASE ~commits
  <2>1. /\ undone' = [undone EXCEPT ![s] = undone[s] + 1]
        /\ UNCHANGED <<sub, since, trials, fees, outdated>>
    BY <1>1, <1>12
  <2>2. undone' \in [Subs -> Nat] /\ undone'[s] = undone[s] + 1
        /\ \A q \in Subs : q # s => undone'[q] = undone[q]
    BY <2>1, SubFacts
  <2>3. SubTypes'
    BY <1>2, <1>6, <1>9, <2>1, <2>2, SubFacts DEF SubTypes
  <2>4. \A q \in Subs : PaidFor(q)' >= PaidFor(q) /\ PaidFor(q)' \in Int /\ PaidFor(q) \in Int
                          /\ since[q] \in Nat
    BY <2>1, PaidNumber DEF PaidFor
  <2>5. DeskShape'
    BY <1>8, <1>10, <2>1, <2>4, DeskWrote
  <2>6. \A q \in Subs : revenue'[q] <= fees[q] + undone'[q]
    BY <1>3, <1>9, <1>11, <2>2
  <2> QED
    BY <1>2, <2>1, <2>3, <2>5, <2>6, SubKept
<1>13. CASE commits
  <2>1. /\ sub' = [sub EXCEPT ![s] = new]
        /\ since' = [since EXCEPT ![s] = month]
        /\ trials' = IF trial THEN trials \cup {s} ELSE trials
        /\ fees' = [fees EXCEPT ![s] = fees[s] + IF trial THEN 0 ELSE 1]
        /\ Su!Outdated(basis[d] # [rows |-> sub, plan |-> plan])
        /\ UNCHANGED undone
    BY <1>1, <1>13
  <2>2. /\ sub' \in [Subs -> SubRows] /\ sub'[s] = new
        /\ \A q \in Subs : q # s => sub'[q] = sub[q]
    BY <1>4, <2>1, SubFacts
  <2>3. /\ since' \in [Subs -> Nat] /\ since'[s] = month
        /\ \A q \in Subs : q # s => since'[q] = since[q]
    BY <1>4, <2>1, SubFacts
  <2>4. /\ fees' \in [Subs -> Nat] /\ fees'[s] = fees[s] + IF trial THEN 0 ELSE 1
        /\ \A q \in Subs : q # s => fees'[q] = fees[q]
    BY <2>1, SubFacts
  <2>5. trials \subseteq trials' /\ trials' \subseteq trials \cup {s} /\ trials' \subseteq Subs
        /\ (trial => s \in trials') /\ (~trial => trials' = trials)
    BY <2>1, SubFacts
  <2>6. outdated' \in {outdated, outdated + 1}
    BY <2>1 DEF Su!Outdated
  <2>7. SubTypes'
    BY <1>2, <1>6, <1>9, <2>1, <2>2, <2>3, <2>4, <2>5, <2>6, SubFacts DEF SubTypes
  <2>8. \A q \in Subs : PaidFor(q)' >= PaidFor(q) /\ PaidFor(q)' \in Int /\ PaidFor(q) \in Int
                          /\ since[q] \in Nat
    <3> SUFFICES ASSUME NEW q \in Subs
        PROVE  PaidFor(q)' >= PaidFor(q) /\ PaidFor(q)' \in Int /\ PaidFor(q) \in Int
                 /\ since[q] \in Nat
      OBVIOUS
    <3>1. fees'[q] >= fees[q] /\ fees'[q] \in Nat /\ fees[q] \in Nat /\ since[q] \in Nat
      <4>1. CASE q = s
        BY <1>9, <2>4, <4>1, SubFacts
      <4>2. CASE q # s
        BY <2>4, <4>2, SubFacts
      <4> QED
        BY <4>1, <4>2
    <3>2. q \in trials => q \in trials'
      BY <2>5
    <3> QED
      BY <3>1, <3>2 DEF PaidFor
  <2>9. DeskShape'
    <3>1. \A q \in Subs : sub[q].begun = TRUE => sub'[q].begun = TRUE /\ since'[q] = since[q]
      BY <1>0, <2>2, <2>3
    <3>2. \A q \in Subs, e \in Desks : clerk[e] = "activate" /\ about[e] = q /\ e # d =>
              sub'[q].begun = FALSE
      BY <1>10, <2>2
    <3> QED
      BY <1>8, <2>8, <3>1, <3>2, DeskWrote
  <2>10. new.until - since'[s] <= PaidFor(s)'
    <3>1. PaidFor(s)' >= 1
      BY <1>9, <2>4, <2>5 DEF PaidFor
    <3> QED
      BY <1>4, <2>3, <2>8, <3>1
  <2>11. revenue'[s] <= fees'[s] + undone'[s]
    BY <1>3, <1>9, <1>11, <2>1, <2>4
  <2>12. afterwards' <= outdated'
    <3>1. afterwards <= outdated /\ afterwards \in Nat /\ outdated \in Nat
      BY SubFacts DEF SubInv, WriteShape
    <3> QED
      BY <1>2, <2>6, <3>1
  <2>13. s \notin cancelled'
    BY <1>0, <1>2 DEF SubInv, RowPaid
  <2>14. outdated' = outdated + 1 \/ (basis[d].rows = sub /\ basis[d].plan = plan)
    <3>1. CASE basis[d] = [rows |-> sub, plan |-> plan]
      BY <3>1
    <3>2. CASE basis[d] # [rows |-> sub, plan |-> plan]
      BY <2>1, <3>2 DEF Su!Outdated
    <3> QED
      BY <3>1, <3>2
  <2>15. outdated' = outdated + 1 \/ (ActiveOnes = {} /\ plan = "live")
    BY <1>0, <2>14 DEF ActiveOnes
  <2>16. s \in trials' => s \in trials \/ outdated' = outdated + 1 \/ trials = {}
    <3> SUFFICES ASSUME trial, basis[d].rows = sub
        PROVE  trials = {}
      BY <2>5, <2>14
    <3>1. \A q \in Subs : sub[q].begun = FALSE
      BY <1>5
    <3> QED
      BY <3>1, SubFacts DEF SubInv, RowPaid
  <2>17. cancelled' \subseteq cancelled \cup {s} /\ UNCHANGED <<plan, month>>
    BY <1>2
  <2>18. \A q \in Subs : q # s => since'[q] = since[q] /\ fees'[q] = fees[q]
                                    /\ revenue'[q] = revenue[q] /\ undone'[q] = undone[q]
    BY <1>9, <2>1, <2>3, <2>4
  <2> QED
    BY <1>4, <2>1, <2>5, <2>6, <2>7, <2>9, <2>10, <2>11, <2>12, <2>13, <2>15, <2>16, <2>17, <2>18,
       SubWritten
<1> QED
  BY <1>12, <1>13

\* A renewal writes the copy of its list.
LEMMA RenewInv ==
  ASSUME SubInv, Su!SubscriptionAssumption, NEW d \in Desks, Su!Renew(d)
  PROVE  SubInv'
<1>1. PICK s \in list[d] : LET copy == basis[d].rows[s] IN
         /\ list' = [list EXCEPT ![d] = list[d] \ {s}]
         /\ \/ /\ basis[d].plan = "live"
               /\ sub' = [sub EXCEPT ![s] = Su!RenewMonth(copy)]
               /\ fees' = [fees EXCEPT ![s] = fees[s] + 1]
               /\ afterwards' = afterwards + IF s \in cancelled THEN 1 ELSE 0
               /\ \E recorded \in {0, 1} : revenue' = [revenue EXCEPT ![s] = revenue[s] + recorded]
               /\ cancelled' = cancelled \ {s}
               /\ Su!Outdated(sub[s] # copy)
               /\ UNCHANGED undone
            \/ /\ basis[d].plan = "live"
               /\ sub' = [sub EXCEPT ![s] = [copy EXCEPT !.active = FALSE, !.auto = FALSE,
                                                         !.trial = FALSE]]
               /\ cancelled' = cancelled \cup {s}
               /\ Su!Outdated(sub[s] # copy)
               /\ UNCHANGED <<fees, revenue, undone, afterwards>>
            \/ /\ basis[d].plan = "live" /\ undone[s] < MaxUndone
               /\ undone' = [undone EXCEPT ![s] = undone[s] + 1]
               /\ \E recorded \in {0, 1} : revenue' = [revenue EXCEPT ![s] = revenue[s] + recorded]
               /\ UNCHANGED <<sub, fees, cancelled, afterwards, outdated>>
            \/ /\ basis[d].plan = "deleted"
               /\ UNCHANGED <<sub, fees, revenue, undone, cancelled, afterwards, outdated>>
         /\ IF list[d] = {s} THEN Su!Finish(d) ELSE UNCHANGED <<clerk, about, basis>>
  BY DEF Su!Renew, Su!ledger
<1>2. clerk[d] = "renew" /\ UNCHANGED <<plan, month, since, trials>>
  BY DEF Su!Renew
<1> DEFINE copy == basis[d].rows[s]
<1>3. s \in Subs /\ copy \in SubRows /\ copy.begun = TRUE /\ copy.active = TRUE
      /\ sub[s].begun = TRUE /\ copy.until - since[s] <= PaidFor(s)
  <2>1. s \in Subs
    BY SubFacts
  <2> QED
    BY <2>1, SubCopy DEF SubInv, DeskShape, OwnShape
<1>4. /\ list' \in [Desks -> SUBSET Subs] /\ list'[d] = list[d] \ {s}
      /\ \A e \in Desks : e # d => list'[e] = list[e]
  BY <1>1, SubFacts
<1>5. /\ clerk' \in [Desks -> SubPlaces] /\ about' \in [Desks -> Subs \cup {NoSub}]
      /\ basis' \in [Desks -> Bases]
      /\ \A e \in Desks : e # d =>
             clerk'[e] = clerk[e] /\ about'[e] = about[e] /\ basis'[e] = basis[e]
               /\ list'[e] = list[e]
      /\ about'[d] \in {about[d], NoSub}
      /\ \/ /\ clerk'[d] = "idle" /\ list'[d] = {}
            /\ \A q \in Subs : basis'[d].rows[q].begun = FALSE /\ basis'[d].rows[q].active = FALSE
         \/ /\ clerk[d] = "renew" /\ clerk'[d] = clerk[d] /\ basis'[d] = basis[d]
            /\ list'[d] \subseteq list[d]
  <2>1. CASE list[d] = {s}
    <3>1. Su!Finish(d) /\ list'[d] = {}
      BY <1>1, <1>4, <2>1
    <3> QED
      BY <1>4, <3>1, DeskFinishes
  <2>2. CASE list[d] # {s}
    BY <1>1, <1>2, <1>4, <2>2, SubFacts
  <2> QED
    BY <2>1, <2>2
<1>6. NoSub \notin Subs
  BY DEF Su!SubscriptionAssumption
<1>7. \A q \in Subs, e \in Desks : clerk[e] = "activate" /\ about[e] = q /\ e # d =>
          q # s /\ sub[q].begun = FALSE
  BY <1>3 DEF SubInv, DeskShape, OwnShape
<1>8. \A q \in Subs : revenue[q] <= fees[q] + undone[q]
  BY DEF SubInv, RowPaid
<1>9. revenue[s] \in Nat /\ fees[s] \in Nat /\ undone[s] \in Nat /\ outdated \in Nat
      /\ afterwards \in Nat /\ afterwards <= outdated
  BY <1>3, SubFacts DEF SubInv, WriteShape
<1>10. CASE /\ UNCHANGED <<sub, fees, cancelled, afterwards, outdated>>
            /\ undone' \in [Subs -> Nat] /\ revenue' \in [Subs -> Nat]
            /\ \A q \in Subs : revenue'[q] <= fees[q] + undone'[q]
  <2>1. SubTypes'
    BY <1>2, <1>4, <1>5, <1>10, SubFacts DEF SubTypes
  <2>2. \A q \in Subs : PaidFor(q)' >= PaidFor(q) /\ PaidFor(q)' \in Int /\ PaidFor(q) \in Int
                          /\ since[q] \in Nat
    BY <1>2, <1>10, PaidNumber DEF PaidFor
  <2>3. DeskShape'
    <3>1. \A q \in Subs : sub[q].begun = TRUE => sub'[q].begun = TRUE /\ since'[q] = since[q]
      BY <1>2, <1>10
    <3>2. \A q \in Subs, e \in Desks : clerk[e] = "activate" /\ about[e] = q /\ e # d =>
              sub'[q].begun = FALSE
      BY <1>7, <1>10
    <3> QED
      BY <1>5, <1>6, <2>2, <3>1, <3>2, DeskWrote
  <2> QED
    BY <1>2, <1>10, <2>1, <2>3, SubKept
<1>11. CASE /\ basis[d].plan = "deleted"
            /\ UNCHANGED <<sub, fees, revenue, undone, cancelled, afterwards, outdated>>
  BY <1>8, <1>10, <1>11, SubFacts
<1>12. CASE /\ undone' = [undone EXCEPT ![s] = undone[s] + 1]
            /\ \E recorded \in {0, 1} : revenue' = [revenue EXCEPT ![s] = revenue[s] + recorded]
            /\ UNCHANGED <<sub, fees, cancelled, afterwards, outdated>>
  <2>1. PICK recorded \in {0, 1} : revenue' = [revenue EXCEPT ![s] = revenue[s] + recorded]
    BY <1>12
  <2>2. /\ undone' \in [Subs -> Nat] /\ undone'[s] = undone[s] + 1
        /\ \A q \in Subs : q # s => undone'[q] = undone[q]
    BY <1>3, <1>12, SubFacts
  <2>3. /\ revenue' \in [Subs -> Nat] /\ revenue'[s] = revenue[s] + recorded
        /\ \A q \in Subs : q # s => revenue'[q] = revenue[q]
    BY <1>3, <2>1, SubFacts
  <2>4. \A q \in Subs : revenue'[q] <= fees[q] + undone'[q]
    BY <1>8, <1>9, <2>2, <2>3
  <2> QED
    BY <1>10, <1>12, <2>2, <2>3, <2>4
<1>13. ASSUME NEW new \in SubRows, new.begun = TRUE, sub' = [sub EXCEPT ![s] = new],
              fees' \in [Subs -> Nat], revenue' \in [Subs -> Nat], fees'[s] >= fees[s],
              \A q \in Subs : q # s => fees'[q] = fees[q] /\ revenue'[q] = revenue[q],
              UNCHANGED undone,
              cancelled' \subseteq cancelled \cup {s}, s \in cancelled' => new.active = FALSE,
              Su!Outdated(sub[s] # copy), afterwards' \in Nat, afterwards' <= outdated',
              new.until - since[s] <= PaidFor(s)', revenue'[s] <= fees'[s] + undone[s],
              new.active = TRUE => sub[s].active = TRUE \/ outdated' = outdated + 1
       PROVE  SubInv'
  <2>1. /\ sub' \in [Subs -> SubRows] /\ sub'[s] = new
        /\ \A q \in Subs : q # s => sub'[q] = sub[q]
    BY <1>3, <1>13, SubFacts
  <2>2. outdated' \in {outdated, outdated + 1}
    BY <1>13 DEF Su!Outdated
  <2>3. SubTypes'
    <3>1. cancelled' \subseteq Subs /\ outdated' \in Nat /\ undone' \in [Subs -> Nat]
      BY <1>3, <1>9, <1>13, <2>2, SubFacts
    <3> QED
      BY <1>2, <1>4, <1>5, <1>13, <2>1, <3>1, SubFacts DEF SubTypes
  <2>4. \A q \in Subs : PaidFor(q)' >= PaidFor(q) /\ PaidFor(q)' \in Int /\ PaidFor(q) \in Int
                          /\ since[q] \in Nat
    <3> SUFFICES ASSUME NEW q \in Subs
        PROVE  PaidFor(q)' >= PaidFor(q) /\ PaidFor(q)' \in Int /\ PaidFor(q) \in Int
                 /\ since[q] \in Nat
      OBVIOUS
    <3>1. fees'[q] >= fees[q] /\ fees'[q] \in Nat /\ fees[q] \in Nat /\ since[q] \in Nat
      <4>1. CASE q = s
        BY <1>9, <1>13, <4>1, SubFacts
      <4>2. CASE q # s
        BY <1>13, <4>2, SubFacts
      <4> QED
        BY <4>1, <4>2
    <3> QED
      BY <1>2, <3>1 DEF PaidFor
  <2>5. DeskShape'
    <3>1. \A q \in Subs : sub[q].begun = TRUE => sub'[q].begun = TRUE /\ since'[q] = since[q]
      BY <1>2, <1>13, <2>1
    <3>2. \A q \in Subs, e \in Desks : clerk[e] = "activate" /\ about[e] = q /\ e # d =>
              sub'[q].begun = FALSE
      BY <1>7, <2>1
    <3> QED
      BY <1>5, <1>6, <2>4, <3>1, <3>2, DeskWrote
  <2>6. \A q \in Subs : q # s => since'[q] = since[q] /\ fees'[q] = fees[q]
                                   /\ revenue'[q] = revenue[q] /\ undone'[q] = undone[q]
    BY <1>2, <1>13
  <2>7. trials' = trials /\ since'[s] = since[s] /\ undone'[s] = undone[s]
          /\ UNCHANGED <<plan, month>>
    BY <1>2, <1>13
  <2> QED
    BY <1>3, <1>13, <2>2, <2>3, <2>5, <2>6, <2>7, SubWritten
<1>15. CASE /\ sub' = [sub EXCEPT ![s] = Su!RenewMonth(copy)]
            /\ fees' = [fees EXCEPT ![s] = fees[s] + 1]
            /\ afterwards' = afterwards + IF s \in cancelled THEN 1 ELSE 0
            /\ \E recorded \in {0, 1} : revenue' = [revenue EXCEPT ![s] = revenue[s] + recorded]
            /\ cancelled' = cancelled \ {s}
            /\ Su!Outdated(sub[s] # copy)
            /\ UNCHANGED undone
  <2> DEFINE new == Su!RenewMonth(copy)
  <2> HIDE DEF copy
  <2>1. new \in SubRows /\ new.begun = TRUE /\ new.active = TRUE /\ new.until = copy.until + 1
        /\ copy.until \in Nat
    <3>1. new = [copy EXCEPT !.until = copy.until + 1, !.trial = FALSE]
      BY DEF Su!RenewMonth
    <3>2. copy.until \in Nat
      BY <1>3, SubRow
    <3>3. copy = [begun |-> copy.begun, active |-> copy.active, auto |-> copy.auto,
                  until |-> copy.until, trial |-> copy.trial]
      BY <1>3 DEF SubRows
    <3>4. new = [begun |-> copy.begun, active |-> copy.active, auto |-> copy.auto,
                 until |-> copy.until + 1, trial |-> FALSE]
      BY <3>1, <3>3
    <3>5. copy.auto \in BOOLEAN /\ copy.until + 1 \in Nat
      BY <1>3, <3>2, SubRow
    <3> HIDE DEF new
    <3>6. new \in SubRows
      BY <1>3, <3>4, <3>5 DEF SubRows
    <3> QED
      BY <1>3, <3>2, <3>4, <3>6
  <2> HIDE DEF new
  <2>2. PICK recorded \in {0, 1} : revenue' = [revenue EXCEPT ![s] = revenue[s] + recorded]
    BY <1>15
  <2>3. /\ revenue' \in [Subs -> Nat] /\ revenue'[s] = revenue[s] + recorded
        /\ \A q \in Subs : q # s => revenue'[q] = revenue[q]
    BY <1>3, <2>2, SubFacts
  <2>4. /\ fees' \in [Subs -> Nat] /\ fees'[s] = fees[s] + 1
        /\ \A q \in Subs : q # s => fees'[q] = fees[q]
    BY <1>3, <1>15, SubFacts
  <2>5. outdated' = IF sub[s] # copy THEN outdated + 1 ELSE outdated
    BY <1>15 DEF Su!Outdated
  <2>6. s \in cancelled => sub[s].active = FALSE
    BY <1>3 DEF SubInv, RowPaid
  <2>7. s \in cancelled => sub[s] # copy
    BY <1>3, <2>6
  <2>8. afterwards' \in Nat /\ afterwards' <= outdated'
    BY <1>9, <1>15, <2>5, <2>7
  <2>9. PaidFor(s)' = PaidFor(s) + 1 /\ PaidFor(s) \in Nat /\ since[s] \in Nat
    BY <1>2, <1>3, <1>9, <2>4, PaidNumber DEF PaidFor
  <2>10. new.until - since[s] <= PaidFor(s)'
    BY <1>3, <2>1, <2>9
  <2>11. revenue'[s] <= fees'[s] + undone[s]
    BY <1>3, <1>8, <1>9, <2>3, <2>4
  <2>12. sub[s].active = TRUE \/ outdated' = outdated + 1
    BY <1>3, <2>5
  <2>13. sub' = [sub EXCEPT ![s] = new]
    BY <1>15 DEF new
  <2>14. cancelled' \subseteq cancelled \cup {s} /\ s \notin cancelled' /\ UNCHANGED undone
         /\ Su!Outdated(sub[s] # copy)
    BY <1>15
  <2>15. fees'[s] >= fees[s] /\ \A q \in Subs : q # s => fees'[q] = fees[q]
           /\ revenue'[q] = revenue[q]
    BY <1>9, <2>3, <2>4
  <2> QED
    BY <1>13, <2>1, <2>3, <2>4, <2>8, <2>10, <2>11, <2>12, <2>13, <2>14, <2>15 DEF copy
<1>16. CASE /\ sub' = [sub EXCEPT ![s] = [copy EXCEPT !.active = FALSE, !.auto = FALSE,
                                                      !.trial = FALSE]]
            /\ cancelled' = cancelled \cup {s}
            /\ Su!Outdated(sub[s] # copy)
            /\ UNCHANGED <<fees, revenue, undone, afterwards>>
  <2> DEFINE new == [copy EXCEPT !.active = FALSE, !.auto = FALSE, !.trial = FALSE]
  <2> HIDE DEF copy
  <2>1. new \in SubRows /\ new.begun = TRUE /\ new.active = FALSE /\ new.until = copy.until
    BY <1>3, SubRow DEF SubRows
  <2>2. sub' = [sub EXCEPT ![s] = new]
    BY <1>16
  <2> HIDE DEF new
  <2>3. PaidFor(s)' = PaidFor(s)
    BY <1>2, <1>16 DEF PaidFor
  <2>4. outdated' \in {outdated, outdated + 1}
    BY <1>16 DEF Su!Outdated
  <2>5. /\ afterwards' \in Nat /\ afterwards' <= outdated'
        /\ fees' \in [Subs -> Nat] /\ revenue' \in [Subs -> Nat] /\ fees'[s] >= fees[s]
    BY <1>9, <1>16, <2>4, SubFacts
  <2>6. new.until - since[s] <= PaidFor(s)' /\ revenue'[s] <= fees'[s] + undone[s]
    BY <1>3, <1>8, <1>16, <2>1, <2>3
  <2> QED
    BY <1>13, <1>16, <2>1, <2>2, <2>5, <2>6 DEF copy
<1> QED
  BY <1>1, <1>11, <1>12, <1>15, <1>16

\* The invariant holds in every state of the subscriptions.
LEMMA SubInvariance ==
  ASSUME Su!SubscriptionAssumption
  PROVE  Su!Spec => []SubInv
<1>1. ASSUME Su!Init
      PROVE  SubInv
  <2> DEFINE new == [begun |-> FALSE, active |-> FALSE, auto |-> FALSE, until |-> 0, trial |-> FALSE]
             none == [rows |-> [s \in Subs |-> new], plan |-> "live"]
  <2>1. /\ plan = "live" /\ sub = [s \in Subs |-> new] /\ month = 0
        /\ clerk = [d \in Desks |-> "idle"] /\ about = [d \in Desks |-> NoSub]
        /\ basis = [d \in Desks |-> none] /\ list = [d \in Desks |-> {}]
        /\ since = [s \in Subs |-> 0] /\ fees = [s \in Subs |-> 0]
        /\ revenue = [s \in Subs |-> 0] /\ undone = [s \in Subs |-> 0]
        /\ trials = {} /\ cancelled = {} /\ afterwards = 0 /\ outdated = 0
    BY <1>1 DEF Su!Init, Su!NoBasis, Su!NewSub
  <2>2. new \in SubRows /\ new.begun = FALSE /\ new.active = FALSE
    BY DEF SubRows
  <2> HIDE DEF new
  <2>3. none \in Bases /\ none.rows = [s \in Subs |-> new]
    BY <2>2 DEF Bases
  <2> HIDE DEF none
  <2>4. SubTypes
    BY <2>1, <2>2, <2>3 DEF SubTypes, SubPlaces, Su!SubscriptionAssumption
  <2>5. DeskShape
    BY <2>1, <2>2, <2>3 DEF DeskShape, OwnShape
  <2>6. RowPaid
    BY <2>1, <2>2 DEF RowPaid
  <2>7. WriteShape
    <3>1. ActiveOnes = {}
      BY <2>1, <2>2 DEF ActiveOnes
    <3> QED
      BY <2>1, <3>1, FS_EmptySet DEF WriteShape
  <2> QED
    BY <2>4, <2>5, <2>6, <2>7 DEF SubInv
<1>2. ASSUME SubInv, [Su!Next]_(Su!subVars)
      PROVE  SubInv'
  <2>1. CASE UNCHANGED Su!subVars
    BY <1>2, <2>1 DEF Su!subVars, Su!ledger, Su!subHist, SubInv, SubTypes, DeskShape, OwnShape,
       RowPaid, PaidFor, WriteShape, ActiveOnes
  <2>2. CASE Su!Month
    BY <1>2, <2>2, MonthInv
  <2>3. ASSUME NEW d \in Desks,
               \/ Su!ReadForActivation(d) \/ Su!Activate(d) \/ Su!ReadForCancel(d) \/ Su!Cancel(d)
               \/ Su!CountActive(d) \/ Su!DeletePlan(d) \/ Su!FindDue(d) \/ Su!Renew(d)
        PROVE  SubInv'
    BY <1>2, <2>3, ReadForActivationInv, ActivateInv, ReadForCancelInv, CancelInv, CountActiveInv,
       DeletePlanInv, FindDueInv, RenewInv
  <2> QED
    BY <1>2, <2>1, <2>2, <2>3 DEF Su!Next
<1> QED
  BY <1>1, <1>2, PTL DEF Su!Spec

\* The library that the module of the subscriptions extends counts as this one's.
LEMMA SubLibrary == \A S : Su!Cardinality(S) = Cardinality(S)
BY DEF Su!Cardinality, Cardinality, Su!IsFiniteSet, IsFiniteSet

\* The rows and requests have the types the code gives them.
THEOREM SubscriptionTypes ==
  ASSUME Su!SubscriptionAssumption
  PROVE  Su!Spec => []Su!TypeOK
<1>1. ASSUME SubInv
      PROVE  Su!TypeOK
  <2>1. \A s \in Subs : sub[s].active = TRUE => sub[s].begun = TRUE
    BY <1>1 DEF SubInv, RowPaid
  <2>2. \A s \in Subs : /\ sub[s].begun \in BOOLEAN /\ sub[s].active \in BOOLEAN
                        /\ sub[s].auto \in BOOLEAN /\ sub[s].trial \in BOOLEAN
                        /\ sub[s].until \in Nat /\ (sub[s].active => sub[s].begun)
    BY <1>1, <2>1, SubFacts, SubRow
  <2>3. \A d \in Desks : list[d] \subseteq Subs /\ (list[d] # {} => clerk[d] = "renew")
    BY <1>1, SubFacts DEF SubInv, DeskShape, OwnShape
  <2> QED
    BY <1>1, <2>2, <2>3, SubFacts DEF Su!TypeOK, SubPlaces
<1> QED
  BY <1>1, SubInvariance, PTL

\* A target has one active subscription and one free trial, and one more at most for each
\* write decided on rows that had changed since (subscriptions.service.ts checks before it
\* writes, with no lock); and a deleted plan has none without such a write.
THEOREM OneSubscriptionEach ==
  ASSUME Su!SubscriptionAssumption
  PROVE  Su!Spec => [](Su!OneSubscription /\ Su!DeletedPlanUnused)
<1>1. ASSUME SubInv
      PROVE  Su!OneSubscription /\ Su!DeletedPlanUnused
  BY <1>1, SubSets, SubLibrary DEF SubInv, WriteShape, Su!OneSubscription, Su!DeletedPlanUnused
<1> QED
  BY <1>1, SubInvariance, PTL

\* Every month a subscription runs is paid or the free trial; a cancelled one is charged only
\* by a renewal that had read it before; and every revenue record has its fee, or a
\* transaction that was rolled back after it sent the record off.
THEOREM FeesHaveReason ==
  ASSUME Su!SubscriptionAssumption
  PROVE  Su!Spec => [](Su!MonthsArePaid /\ Su!CancelledIsNotCharged /\ Su!RevenueHasFee)
<1>1. ASSUME SubInv
      PROVE  Su!MonthsArePaid /\ Su!CancelledIsNotCharged /\ Su!RevenueHasFee
  <2>1. Su!MonthsArePaid
    BY <1>1, SubSets DEF SubInv, RowPaid, PaidFor, Su!MonthsArePaid
  <2> QED
    BY <1>1, <2>1 DEF SubInv, RowPaid, WriteShape, Su!CancelledIsNotCharged, Su!RevenueHasFee
<1> QED
  BY <1>1, SubInvariance, PTL

-----------------------------------------------------------------------------
(* Orders.                                                                  *)

\* A call that has begun carries one of its requests.
FormShape ==
    /\ form \in [Clerks -> [kind : Or!OnOrder \cup Or!OnRow, order : Orders,
                            of : Clerks \cup {Nobody},
                            to : Or!Statuses \cup Or!RowStatuses \cup {"none"}]]
    /\ \A c \in Clerks :
          IF desk[c] = "idle" THEN form[c] = Or!NoForm /\ amount[c] = FALSE
          ELSE form[c] \in Jobs[c]

\* Where a call may be, by what it was asked; a row is there when its call has ended,
\* and a request about a row has found it.
ClerkShape ==
    \A c \in Clerks :
      /\ desk[c] # "idle" /\ form[c].of # Nobody =>
           /\ row[form[c].of] # "none" /\ form[form[c].of].order = form[c].order
           /\ form[form[c].of].kind = Or!Subject(form[c].kind)
      /\ desk[c] = "items" => form[c].kind = "create"
      /\ desk[c] = "order" =>
           form[c].kind \in {"start", "deliver", "complete", "deliveryStatus", "returnStatus"}
      /\ desk[c] = "save" => form[c].kind \notin {"create", "status"}
      /\ desk[c] = "pay" => form[c].kind = "returnStatus" /\ amount[c] = TRUE
      /\ row[c] # "none" => desk[c] = "done" /\ form[c].kind \in {"start", "deliver", "return"}
      /\ desk[c] = "done" /\ form[c].kind \in {"start", "deliver", "return"} => row[c] # "none"
      /\ desk[c] = "broken" <=> c \in broken

\* Only a return that was approved has an amount, and only an order that was delivered
\* has a return.
ReturnShape ==
    /\ \A c \in Clerks : amount[c] = TRUE => form[c].of \in agreed
    /\ \A c \in paid : desk[c] # "idle" /\ form[c].kind = "returnStatus" /\ form[c].of \in agreed
    /\ \A o \in Orders : ord[o] = "DELIVERED" => o \in delivered
    /\ \A c \in Clerks : form[c].kind = "return" /\ desk[c] \in {"save", "done"} =>
          form[c].order \in delivered

\* Until its call has created an order nobody else works on it, and then its items are
\* added one by one.
CreateShape ==
    /\ \A o \in Orders : ord[o] = "none" => items[o] = 0
    /\ \A c \in Clerks : desk[c] # "idle" /\ form[c].kind # "create" => ord[form[c].order] # "none"
    /\ \A c \in Clerks : desk[c] = "read" /\ form[c].kind = "create" => ord[form[c].order] = "none"
    /\ \A c \in Clerks : desk[c] = "items" =>
          items[form[c].order] < Items /\ ord[form[c].order] # "none"

\* The calls that have given an order to a driver, or are about to.
Given(o) == {c \in Clerks : /\ form[c].kind = "deliver" /\ form[c].order = o
                            /\ desk[c] \in {"order", "save"} \/ row[c] # "none"}

\* A call that is giving the order away.
Giving(o) == {c \in Clerks : desk[c] = "order" /\ form[c].kind = "deliver" /\ form[c].order = o}

\* While its calls do not overlap, an order has been given away at most as often as it was
\* ready, and once less while it waits.
PickupShape ==
    \A o \in Orders \ crowded :
      /\ \A c, q \in Or!Active : form[c].order = o /\ form[q].order = o => c = q
      /\ Cardinality(Given(o)) <= readied[o]
      /\ ord[o] = "READY_FOR_PICKUP" /\ Giving(o) = {} => Cardinality(Given(o)) + 1 <= readied[o]

\* The call that brought an order to PROCESSING or OUT_FOR_DELIVERY saves its row, unless
\* it is cut off.
BroughtShape ==
    \A o \in Orders : \A k \in {"start", "deliver"} :
        ord[o] = (IF k = "start" THEN "PROCESSING" ELSE "OUT_FOR_DELIVERY") /\ o \notin forced =>
            \E c \in Clerks : form[c].kind = k /\ form[c].order = o
                              /\ desk[c] \in {"save", "done", "broken"}

OrderInv == Or!TypeOK /\ FormShape /\ ClerkShape /\ ReturnShape /\ CreateShape /\ PickupShape
            /\ BroughtShape

\* Finite sets and their sizes are those of the library.
LEMMA OrderLibrary ==
  /\ \A S : Or!IsFiniteSet(S) <=> IsFiniteSet(S)
  /\ \A S : Or!Cardinality(S) = Cardinality(S)
BY DEF Or!IsFiniteSet, IsFiniteSet, Or!Cardinality, Cardinality

\* What the assumption says of the constants.
LEMMA OrderFacts ==
  ASSUME Or!OrderAssumption
  PROVE  /\ IsFiniteSet(Clerks) /\ Nobody \notin Clerks /\ Or!NoForm.order \in Orders
         /\ \A S \in SUBSET Clerks : IsFiniteSet(S) /\ Cardinality(S) \in Nat
BY OrderLibrary, FS_Subset, FS_CardinalityType DEF Or!OrderAssumption, Or!NoForm

\* The first state has the invariant.
LEMMA OrderStart ==
  ASSUME Or!OrderAssumption, Or!Init
  PROVE  OrderInv
<1>1. /\ \A c \in Clerks : /\ form[c] = Or!NoForm /\ desk[c] = "idle" /\ amount[c] = FALSE
                           /\ row[c] = "none"
      /\ broken = {} /\ paid = {} /\ refund = {} /\ agreed = {} /\ crowded = {} /\ forced = {}
      /\ ord \in [Orders -> Begun] /\ Or!NoForm.kind = "create"
  BY DEF Or!Init, Or!NoForm
<1>2. Or!NoForm \in [kind : Or!OnOrder \cup Or!OnRow, order : Orders, of : Clerks \cup {Nobody},
                     to : Or!Statuses \cup Or!RowStatuses \cup {"none"}]
  BY OrderFacts DEF Or!NoForm, Or!OnOrder
<1>3. Or!TypeOK
  <2>1. ord \in [Orders -> Or!Statuses \cup {"none"}]
    BY DEF Or!Init, Or!OrderAssumption
  <2>2. items \in [Orders -> 0..Items] /\ readied \in [Orders -> Nat]
    BY DEF Or!Init, Or!OrderAssumption
  <2>3. /\ row \in [Clerks -> Or!RowStatuses \cup {"none"}] /\ amount \in [Clerks -> BOOLEAN]
        /\ desk \in [Clerks -> Or!Over \cup {"read", "items", "order", "save", "pay"}]
    BY DEF Or!Init, Or!Over
  <2>4. delivered \subseteq Orders
    BY DEF Or!Init
  <2> QED
    BY <1>1, <2>1, <2>2, <2>3, <2>4 DEF Or!TypeOK
<1>4. FormShape
  BY <1>1, <1>2 DEF Or!Init, FormShape
<1>5. ClerkShape
  BY <1>1 DEF ClerkShape
<1>6. ReturnShape
  BY <1>1 DEF Or!Init, ReturnShape
<1>7. CreateShape
  BY <1>1 DEF Or!Init, CreateShape
<1>8. PickupShape
  <2> SUFFICES ASSUME NEW o \in Orders
      PROVE  /\ \A c, q \in Or!Active : form[c].order = o /\ form[q].order = o => c = q
             /\ Cardinality(Given(o)) <= readied[o]
             /\ ord[o] = "READY_FOR_PICKUP" => Cardinality(Given(o)) + 1 <= readied[o]
    BY DEF PickupShape
  <2>1. Given(o) = {} /\ Or!Active = {}
    BY <1>1 DEF Given, Or!Active, Or!Over
  <2>2. Cardinality(Given(o)) = 0
    BY <2>1, FS_EmptySet
  <2> QED
    BY <2>1, <2>2 DEF Or!Init
<1>9. BroughtShape
  BY <1>1 DEF BroughtShape, Or!OrderAssumption
<1> QED
  BY <1>3, <1>4, <1>5, <1>6, <1>7, <1>8, <1>9 DEF OrderInv

\* What a request says.
LEMMA JobFacts ==
  ASSUME OrderInv, Or!OrderAssumption, NEW c \in Clerks
  PROVE  /\ desk[c] \in {"idle", "done", "failed", "broken", "read", "items", "order", "save", "pay"}
         /\ form[c].order \in Orders
         /\ desk[c] # "idle" =>
              /\ form[c] \in Jobs[c]
              /\ form[c].of = Nobody <=> form[c].kind \in Or!OnOrder
              /\ form[c].of \in Clerks <=> form[c].kind \in Or!OnRow
              /\ form[c].kind = "status" => form[c].to \in Or!Statuses
              /\ form[c].kind \in {"deliveryStatus", "returnStatus"} =>
                   form[c].to \in Or!RowStatuses
              /\ \A q \in Clerks \ {c} :
                   desk[q] # "idle" /\ form[c].kind = "create" /\ form[q].kind = "create" =>
                       form[q].order # form[c].order
<1>1. desk[c] \in {"idle", "done", "failed", "broken", "read", "items", "order", "save", "pay"}
  BY DEF OrderInv, Or!TypeOK, Or!Over
<1>2. form[c] \in [kind : Or!OnOrder \cup Or!OnRow, order : Orders, of : Clerks \cup {Nobody},
                   to : Or!Statuses \cup Or!RowStatuses \cup {"none"}]
  BY DEF OrderInv, FormShape
<1>3. \A q \in Clerks : desk[q] # "idle" => form[q] \in Jobs[q]
  BY DEF OrderInv, FormShape
<1>4. Or!OnOrder \cap Or!OnRow = {}
  BY DEF Or!OnOrder, Or!OnRow
<1> QED
  BY <1>1, <1>2, <1>3, <1>4 DEF Or!OrderAssumption

\* One call goes to another place; nothing else of its request changes.
LEMMA DeskMoves ==
  ASSUME OrderInv, NEW c \in Clerks, NEW s, Or!To(c, s)
  PROVE  /\ desk'[c] = s /\ \A q \in Clerks \ {c} : desk'[q] = desk[q]
         /\ s \in Or!Over \cup {"read", "items", "order", "save", "pay"} =>
              desk' \in [Clerks -> Or!Over \cup {"read", "items", "order", "save", "pay"}]
BY DEF Or!To, OrderInv, Or!TypeOK

\* The calls on an order that do not overlap, when none begins.
LEMMA StillAlone ==
  ASSUME OrderInv, NEW c \in Clerks, NEW s, Or!To(c, s), desk[c] \notin Or!Over,
         UNCHANGED <<form, crowded>>
  PROVE  \A o \in Orders \ crowded : \A p, q \in Or!Active' :
             form'[p].order = o /\ form'[q].order = o => p = q
<1>1. Or!Active' \subseteq Or!Active
  BY DeskMoves DEF Or!Active
<1> QED
  BY <1>1 DEF OrderInv, PickupShape

-----------------------------------------------------------------------------
\* A clerk takes up one of its requests.
LEMMA BeginInv ==
  ASSUME OrderInv, Or!OrderAssumption, NEW c \in Clerks, Or!Begin(c)
  PROVE  OrderInv'
<1>1. PICK j \in Jobs[c] :
        /\ IF j.kind = "create" THEN ord[j.order] = "none" ELSE ord[j.order] # "none"
        /\ j.of # Nobody =>
             row[j.of] # "none" /\ form[j.of].kind = Or!Subject(j.kind)
               /\ form[j.of].order = j.order
        /\ form' = [form EXCEPT ![c] = j]
        /\ crowded' = IF \E p \in Or!Active : form[p].order = j.order
                      THEN crowded \cup {j.order} ELSE crowded
  BY DEF Or!Begin, Or!Order
<1>2. /\ desk[c] = "idle" /\ Or!To(c, "read")
      /\ UNCHANGED <<ord, items, row, refund, agreed, paid, amount, readied, delivered, forced, broken>>
  BY DEF Or!Begin, Or!extras
<1>3. /\ desk'[c] = "read" /\ \A q \in Clerks \ {c} : desk'[q] = desk[q]
      /\ desk' \in [Clerks -> Or!Over \cup {"read", "items", "order", "save", "pay"}]
  BY <1>2, DeskMoves
<1>4. /\ j \in [kind : Or!OnOrder \cup Or!OnRow, order : Orders, of : Clerks \cup {Nobody},
                 to : Or!Statuses \cup Or!RowStatuses \cup {"none"}]
      /\ j.of = Nobody <=> j.kind \in Or!OnOrder
  BY DEF Or!OrderAssumption
<1>5. /\ form'[c] = j /\ \A q \in Clerks \ {c} : form'[q] = form[q]
      /\ row[c] = "none" /\ c \notin paid /\ amount[c] = FALSE
  BY <1>1, <1>2 DEF OrderInv, FormShape, ClerkShape, ReturnShape
<1>6. Or!TypeOK'
  BY <1>1, <1>2, <1>3, <1>4 DEF OrderInv, Or!TypeOK
<1>7. FormShape'
  BY <1>1, <1>2, <1>3, <1>4, <1>5 DEF OrderInv, FormShape
<1>8. ClerkShape'
  <2> SUFFICES ASSUME NEW q \in Clerks
      PROVE  /\ desk'[q] # "idle" /\ form'[q].of # Nobody =>
                  /\ row[form'[q].of] # "none" /\ form'[form'[q].of].order = form'[q].order
                  /\ form'[form'[q].of].kind = Or!Subject(form'[q].kind)
             /\ desk'[q] = "items" => form'[q].kind = "create"
             /\ desk'[q] = "order" => form'[q].kind
                  \in {"start", "deliver", "complete", "deliveryStatus", "returnStatus"}
             /\ desk'[q] = "save" => form'[q].kind \notin {"create", "status"}
             /\ desk'[q] = "pay" => form'[q].kind = "returnStatus" /\ amount[q] = TRUE
             /\ row[q] # "none" =>
                  desk'[q] = "done" /\ form'[q].kind \in {"start", "deliver", "return"}
             /\ desk'[q] = "done" /\ form'[q].kind \in {"start", "deliver", "return"} =>
                  row[q] # "none"
             /\ desk'[q] = "broken" <=> q \in broken
    BY <1>2 DEF ClerkShape, Or!Subject
  <2>1. \A p \in Clerks : row[p] # "none" => form'[p] = form[p]
    BY <1>5
  <2>2. desk'[q] # "idle" => form'[q].of \in Clerks \cup {Nobody}
    BY <1>3, <1>4, <1>5 DEF OrderInv, FormShape
  <2>3. CASE q = c
    BY <1>1, <1>2, <1>3, <1>4, <1>5, <2>1, <2>2, <2>3 DEF OrderInv, ClerkShape
  <2>4. CASE q # c
    <3>1. desk'[q] = desk[q] /\ form'[q] = form[q]
      BY <1>3, <1>5, <2>4
    <3> QED
      BY <2>1, <2>2, <3>1 DEF OrderInv, ClerkShape
  <2> QED
    BY <2>3, <2>4
<1>9. ReturnShape'
  <2>1. \A q \in paid : q \in Clerks /\ q # c
    BY <1>5 DEF OrderInv, Or!TypeOK
  <2>2. \A q \in Clerks : amount[q] = TRUE => q # c
    BY <1>5
  <2>3. \A q \in Clerks : desk'[q] \in {"save", "done"} => q # c
    BY <1>3
  <2> QED
    BY <1>2, <1>3, <1>5, <2>1, <2>2, <2>3 DEF OrderInv, ReturnShape
<1>10. CreateShape'
  BY <1>1, <1>2, <1>3, <1>5 DEF OrderInv, CreateShape
<1>11. PickupShape'
  <2> SUFFICES ASSUME NEW o \in Orders \ crowded'
      PROVE  /\ \A p, q \in Or!Active' : form'[p].order = o /\ form'[q].order = o => p = q
             /\ Cardinality(Given(o)') <= readied[o]
             /\ ord[o] = "READY_FOR_PICKUP" /\ Giving(o)' = {} =>
                  Cardinality(Given(o)') + 1 <= readied[o]
    BY <1>2 DEF PickupShape
  <2>1. o \in Orders \ crowded
    BY <1>1
  <2>2. Given(o)' = Given(o) /\ Giving(o)' = Giving(o)
    BY <1>2, <1>3, <1>5 DEF Given, Giving
  <2>3. Or!Active' = Or!Active \cup {c}
    BY <1>2, <1>3 DEF Or!Active, Or!Over
  <2>4. \A p \in Or!Active : form[p].order = o => j.order # o
    BY <1>1
  <2>5. \A p, q \in Or!Active' : form'[p].order = o /\ form'[q].order = o => p = q
    <3>1. \A p, q \in Or!Active : form[p].order = o /\ form[q].order = o => p = q
      BY <2>1 DEF OrderInv, PickupShape
    <3>2. c \notin Or!Active /\ Or!Active \subseteq Clerks
      BY <1>2 DEF Or!Active, Or!Over
    <3> QED
      BY <1>5, <2>3, <2>4, <3>1, <3>2
  <2>6. /\ Cardinality(Given(o)) <= readied[o]
        /\ ord[o] = "READY_FOR_PICKUP" /\ Giving(o) = {} => Cardinality(Given(o)) + 1 <= readied[o]
    BY <2>1 DEF OrderInv, PickupShape
  <2> QED
    BY <2>2, <2>5, <2>6
<1>12. BroughtShape'
  <2> SUFFICES ASSUME NEW o \in Orders, NEW k \in {"start", "deliver"},
                      ord[o] = (IF k = "start" THEN "PROCESSING" ELSE "OUT_FOR_DELIVERY"),
                      o \notin forced
      PROVE  \E p \in Clerks : form'[p].kind = k /\ form'[p].order = o
                               /\ desk'[p] \in {"save", "done", "broken"}
    BY <1>2 DEF BroughtShape
  <2>1. PICK p \in Clerks : form[p].kind = k /\ form[p].order = o
                            /\ desk[p] \in {"save", "done", "broken"}
    BY DEF OrderInv, BroughtShape
  <2> QED
    BY <1>2, <1>3, <1>5, <2>1
<1> QED
  BY <1>6, <1>7, <1>8, <1>9, <1>10, <1>11, <1>12 DEF OrderInv

-----------------------------------------------------------------------------
(* What a step of a call that has begun leaves as it was.                   *)

\* Requests and the amounts of the other calls.
LEMMA FormKeeps ==
  ASSUME OrderInv, NEW c \in Clerks, NEW s, Or!To(c, s), desk[c] # "idle", s # "idle",
         UNCHANGED form, \A q \in Clerks \ {c} : amount'[q] = amount[q]
  PROVE  FormShape'
<1>1. desk'[c] = s /\ \A q \in Clerks \ {c} : desk'[q] = desk[q]
  BY DeskMoves
<1>2. form \in [Clerks -> [kind : Or!OnOrder \cup Or!OnRow, order : Orders,
                            of : Clerks \cup {Nobody},
                            to : Or!Statuses \cup Or!RowStatuses \cup {"none"}]]
  BY DEF OrderInv, FormShape
<1>3. \A q \in Clerks : IF desk'[q] = "idle" THEN form[q] = Or!NoForm /\ amount'[q] = FALSE
                         ELSE form[q] \in Jobs[q]
  BY <1>1 DEF OrderInv, FormShape
<1> QED
  BY <1>2, <1>3 DEF FormShape, Or!NoForm

\* Rows once saved, and the shapes of the other calls.
LEMMA DeskKeeps ==
  ASSUME OrderInv, NEW c \in Clerks, NEW s, Or!To(c, s), desk[c] # "idle", s # "idle",
         UNCHANGED form,
         \A q \in Clerks : row[q] # "none" => row'[q] # "none",
         \A q \in Clerks \ {c} : /\ amount'[q] = amount[q] /\ (row'[q] # "none" => row[q] # "none")
                                 /\ (q \in broken' <=> q \in broken),
         /\ s = "items" => form[c].kind = "create"
         /\ s = "order" =>
              form[c].kind \in {"start", "deliver", "complete", "deliveryStatus", "returnStatus"}
         /\ s = "save" => form[c].kind \notin {"create", "status"}
         /\ s = "pay" => form[c].kind = "returnStatus" /\ amount'[c] = TRUE
         /\ row'[c] # "none" => s = "done" /\ form[c].kind \in {"start", "deliver", "return"}
         /\ s = "done" /\ form[c].kind \in {"start", "deliver", "return"} => row'[c] # "none"
         /\ s = "broken" <=> c \in broken'
  PROVE  ClerkShape'
<1>1. desk'[c] = s /\ \A q \in Clerks \ {c} : desk'[q] = desk[q]
  BY DeskMoves
<1>2. \A q \in Clerks : form[q].of # Nobody => form[q].of \in Clerks
  BY DEF OrderInv, FormShape
<1> SUFFICES ASSUME NEW q \in Clerks
    PROVE  /\ desk'[q] # "idle" /\ form'[q].of # Nobody =>
                /\ row'[form'[q].of] # "none" /\ form'[form'[q].of].order = form'[q].order
                /\ form'[form'[q].of].kind = Or!Subject(form'[q].kind)
           /\ desk'[q] = "items" => form'[q].kind = "create"
           /\ desk'[q] = "order" => form'[q].kind
                \in {"start", "deliver", "complete", "deliveryStatus", "returnStatus"}
           /\ desk'[q] = "save" => form'[q].kind \notin {"create", "status"}
           /\ desk'[q] = "pay" => form'[q].kind = "returnStatus" /\ amount'[q] = TRUE
           /\ row'[q] # "none" =>
                desk'[q] = "done" /\ form'[q].kind \in {"start", "deliver", "return"}
           /\ desk'[q] = "done" /\ form'[q].kind \in {"start", "deliver", "return"} =>
                row'[q] # "none"
           /\ desk'[q] = "broken" <=> q \in broken'
  BY DEF ClerkShape, Or!Subject
<1>3. CASE q = c
  <2>1. desk'[q] # "idle" /\ form[q].of # Nobody =>
                /\ row'[form[q].of] # "none" /\ form[form[q].of].order = form[q].order
                /\ form[form[q].of].kind = Or!Subject(form[q].kind)
    BY <1>2, <1>3 DEF OrderInv, ClerkShape
  <2> QED
    BY <1>1, <1>3, <2>1
<1>4. CASE q # c
  <2>1. /\ desk'[q] = desk[q] /\ amount'[q] = amount[q] /\ (row'[q] # "none" <=> row[q] # "none")
        /\ (q \in broken' <=> q \in broken)
    BY <1>1, <1>4
  <2>2. form[q].of # Nobody /\ row[form[q].of] # "none" => row'[form[q].of] # "none"
    BY <1>2
  <2> QED
    BY <2>1, <2>2 DEF OrderInv, ClerkShape
<1> QED
  BY <1>3, <1>4

\* Approvals, refunds and what was delivered.
LEMMA ReturnKeeps ==
  ASSUME OrderInv, NEW c \in Clerks, NEW s, Or!To(c, s), s # "idle",
         UNCHANGED form, agreed \subseteq agreed', delivered \subseteq delivered',
         paid' \subseteq paid \cup {c},
         \A q \in Clerks \ {c} : amount'[q] = amount[q],
         amount'[c] = TRUE => form[c].of \in agreed',
         c \in paid' => form[c].kind = "returnStatus" /\ form[c].of \in agreed',
         \A o \in Orders : ord'[o] = "DELIVERED" => ord[o] = "DELIVERED" \/ o \in delivered',
         form[c].kind = "return" /\ s \in {"save", "done"} => form[c].order \in delivered'
  PROVE  ReturnShape'
<1>1. desk'[c] = s /\ \A q \in Clerks \ {c} : desk'[q] = desk[q]
  BY DeskMoves
<1>2. \A q \in Clerks : amount'[q] = TRUE => form[q].of \in agreed'
  BY DEF OrderInv, ReturnShape
<1>3. \A q \in paid' : desk'[q] # "idle" /\ form[q].kind = "returnStatus" /\ form[q].of \in agreed'
  BY <1>1 DEF OrderInv, ReturnShape, Or!TypeOK
<1>4. \A o \in Orders : ord'[o] = "DELIVERED" => o \in delivered'
  BY DEF OrderInv, ReturnShape
<1>5. \A q \in Clerks : form[q].kind = "return" /\ desk'[q] \in {"save", "done"} =>
          form[q].order \in delivered'
  BY <1>1 DEF OrderInv, ReturnShape
<1> QED
  BY <1>2, <1>3, <1>4, <1>5 DEF ReturnShape

\* Orders that are still being created.
LEMMA CreateKeeps ==
  ASSUME OrderInv, Or!OrderAssumption, NEW c \in Clerks, NEW s, Or!To(c, s), desk[c] # "idle",
         s \notin {"idle", "read"}, UNCHANGED form,
         \A o \in Orders : o # form[c].order => ord'[o] = ord[o] /\ items'[o] = items[o],
         ord[form[c].order] # "none" => ord'[form[c].order] # "none",
         ord'[form[c].order] = "none" => UNCHANGED <<ord, items>>,
         form[c].kind # "create" => UNCHANGED items,
         s = "items" => items'[form[c].order] < Items /\ ord'[form[c].order] # "none"
  PROVE  CreateShape'
<1>1. desk'[c] = s /\ \A q \in Clerks \ {c} : desk'[q] = desk[q]
  BY DeskMoves
<1>2. \A q \in Clerks : form[q].order \in Orders
  BY JobFacts
<1>3. \A o \in Orders : ord'[o] = "none" => items'[o] = 0
  BY <1>2 DEF OrderInv, CreateShape
<1>4. \A q \in Clerks : desk'[q] # "idle" /\ form[q].kind # "create" => ord'[form[q].order] # "none"
  BY <1>1, <1>2 DEF OrderInv, CreateShape
<1>5. ASSUME NEW q \in Clerks, desk'[q] \in {"read", "items"}, form[q].kind = "create", q # c,
             form[q].order = form[c].order
      PROVE  form[c].kind # "create"
  BY <1>1, <1>5, JobFacts
<1>6. ASSUME NEW q \in Clerks, desk'[q] = "read", form[q].kind = "create"
      PROVE  ord'[form[q].order] = "none"
  <2>1. q # c /\ desk[q] = "read" /\ ord[form[q].order] = "none"
    BY <1>1, <1>6 DEF OrderInv, CreateShape
  <2>2. form[q].order # form[c].order
    BY <1>5, <1>6, <2>1 DEF OrderInv, CreateShape
  <2> QED
    BY <1>2, <2>1, <2>2
<1>7. ASSUME NEW q \in Clerks, desk'[q] = "items"
      PROVE  items'[form[q].order] < Items /\ ord'[form[q].order] # "none"
  <2>1. CASE q = c
    BY <1>1, <1>7, <2>1
  <2>2. CASE q # c
    <3>1. /\ desk[q] = "items" /\ items[form[q].order] < Items /\ form[q].kind = "create"
          /\ ord[form[q].order] # "none"
      BY <1>1, <1>7, <2>2 DEF OrderInv, CreateShape, ClerkShape
    <3>2. items'[form[q].order] = items[form[q].order] /\ ord'[form[q].order] # "none"
      BY <1>2, <1>5, <1>7, <2>2, <3>1
    <3> QED
      BY <3>1, <3>2
  <2> QED
    BY <2>1, <2>2
<1> QED
  BY <1>3, <1>4, <1>6, <1>7 DEF CreateShape

\* Pickups of the other orders.
LEMMA PickupKeeps ==
  ASSUME OrderInv, NEW c \in Clerks, NEW s, Or!To(c, s), desk[c] \notin Or!Over,
         UNCHANGED <<form, crowded>>,
         \A o \in Orders : o # form[c].order => ord'[o] = ord[o] /\ readied'[o] = readied[o],
         \A q \in Clerks \ {c} : row'[q] # "none" <=> row[q] # "none",
         form[c].order \notin crowded =>
            /\ Cardinality(Given(form[c].order)') <= readied'[form[c].order]
            /\ ord'[form[c].order] = "READY_FOR_PICKUP" /\ Giving(form[c].order)' = {} =>
                 Cardinality(Given(form[c].order)') + 1 <= readied'[form[c].order]
  PROVE  PickupShape'
<1>1. desk'[c] = s /\ \A q \in Clerks \ {c} : desk'[q] = desk[q]
  BY DeskMoves
<1> SUFFICES ASSUME NEW o \in Orders \ crowded
    PROVE  /\ \A p, q \in Or!Active' : form[p].order = o /\ form[q].order = o => p = q
           /\ Cardinality(Given(o)') <= readied'[o]
           /\ ord'[o] = "READY_FOR_PICKUP" /\ Giving(o)' = {} =>
                Cardinality(Given(o)') + 1 <= readied'[o]
  BY DEF PickupShape
<1>2. \A p, q \in Or!Active' : form[p].order = o /\ form[q].order = o => p = q
  BY StillAlone
<1>3. ASSUME o # form[c].order
      PROVE  /\ Cardinality(Given(o)') <= readied'[o]
             /\ ord'[o] = "READY_FOR_PICKUP" /\ Giving(o)' = {} =>
                  Cardinality(Given(o)') + 1 <= readied'[o]
  <2>1. Given(o)' = Given(o) /\ Giving(o)' = Giving(o)
    BY <1>1, <1>3 DEF Given, Giving
  <2>2. ord'[o] = ord[o] /\ readied'[o] = readied[o]
    BY <1>3
  <2> QED
    BY <2>1, <2>2 DEF OrderInv, PickupShape
<1> QED
  BY <1>2, <1>3

\* Pickups, when nothing is given away and no status changes.
LEMMA PickupStays ==
  ASSUME OrderInv, NEW c \in Clerks, NEW s, Or!To(c, s), desk[c] \notin Or!Over,
         UNCHANGED <<form, crowded, ord, readied>>,
         \A q \in Clerks \ {c} : row'[q] # "none" <=> row[q] # "none",
         form[c].kind # "deliver" \/ (desk[c] \notin {"order", "save"} /\ s \notin {"order", "save"}
                                       /\ (row'[c] # "none" <=> row[c] # "none"))
  PROVE  PickupShape'
<1>1. desk'[c] = s /\ \A q \in Clerks \ {c} : desk'[q] = desk[q]
  BY DeskMoves
<1>2. \A o \in Orders : Given(o)' = Given(o) /\ Giving(o)' = Giving(o)
  BY <1>1 DEF Given, Giving
<1>3. form[c].order \in Orders
  BY DEF OrderInv, FormShape
<1>4. form[c].order \notin crowded =>
            /\ Cardinality(Given(form[c].order)') <= readied'[form[c].order]
            /\ ord'[form[c].order] = "READY_FOR_PICKUP" /\ Giving(form[c].order)' = {} =>
                 Cardinality(Given(form[c].order)') + 1 <= readied'[form[c].order]
  <2> SUFFICES ASSUME NEW o \in Orders \ crowded, o = form[c].order
      PROVE  /\ Cardinality(Given(o)') <= readied'[o]
             /\ ord'[o] = "READY_FOR_PICKUP" /\ Giving(o)' = {} =>
                  Cardinality(Given(o)') + 1 <= readied'[o]
    BY <1>3
  <2> QED
    BY <1>2 DEF OrderInv, PickupShape
<1> QED
  BY <1>4, PickupKeeps

\* Who brought an order to its status, when no order comes to another one.
LEMMA BroughtKeeps ==
  ASSUME OrderInv, NEW c \in Clerks, NEW s, Or!To(c, s), desk[c] \notin Or!Over,
         UNCHANGED form, forced \subseteq forced',
         desk[c] = "save" => s \in {"done", "broken"},
         \A o \in Orders : \/ ord'[o] = ord[o]
                           \/ o \in forced'
                           \/ ord'[o] \notin {"PROCESSING", "OUT_FOR_DELIVERY"}
                           \/ /\ form[c].order = o /\ s = "save"
                              /\ \A k \in {"start", "deliver"} :
                                   ord'[o] = (IF k = "start" THEN "PROCESSING" ELSE "OUT_FOR_DELIVERY")
                                       => form[c].kind = k
  PROVE  BroughtShape'
<1>1. desk'[c] = s /\ \A q \in Clerks \ {c} : desk'[q] = desk[q]
  BY DeskMoves
<1> SUFFICES ASSUME NEW o \in Orders, NEW k \in {"start", "deliver"},
                    ord'[o] = (IF k = "start" THEN "PROCESSING" ELSE "OUT_FOR_DELIVERY"),
                    o \notin forced'
    PROVE  \E p \in Clerks : form[p].kind = k /\ form[p].order = o
                             /\ desk'[p] \in {"save", "done", "broken"}
  BY DEF BroughtShape
<1>2. CASE ord'[o] = ord[o]
  <2>1. PICK p \in Clerks : form[p].kind = k /\ form[p].order = o
                            /\ desk[p] \in {"save", "done", "broken"}
    BY <1>2 DEF OrderInv, BroughtShape
  <2>2. desk'[p] \in {"save", "done", "broken"}
    BY <1>1, <2>1 DEF Or!Over
  <2> QED
    BY <2>1, <2>2
<1>3. CASE ord'[o] # ord[o]
  BY <1>1, <1>3
<1> QED
  BY <1>2, <1>3

-----------------------------------------------------------------------------

\* An order is created.
LEMMA CreateOrderInv ==
  ASSUME OrderInv, Or!OrderAssumption, NEW c \in Clerks, Or!CreateOrder(c)
  PROVE  OrderInv'
<1>1. /\ desk[c] = "read" /\ form[c].kind = "create" /\ form[c].order \in Orders
      /\ UNCHANGED <<row, form, items, refund, agreed, paid, amount, readied, delivered, forced,
                     crowded, broken>>
  BY JobFacts DEF Or!CreateOrder, Or!Does, Or!extras
<1>2. ord[form[c].order] = "none" /\ items[form[c].order] = 0 /\ row[c] = "none" /\ c \notin broken
  BY <1>1 DEF OrderInv, CreateShape, ClerkShape
<1>3. PICK s \in {"failed", "items"} :
        /\ Or!To(c, s)
        /\ \/ s = "failed" /\ UNCHANGED ord
           \/ s = "items" /\ ord' = [ord EXCEPT ![form[c].order] = "PENDING"]
  BY DEF Or!CreateOrder, Or!Order
<1>4. desk[c] \notin Or!Over /\ desk[c] # "idle"
  BY <1>1 DEF Or!Over
<1>5. Or!TypeOK'
  <2>1. desk' \in [Clerks -> Or!Over \cup {"read", "items", "order", "save", "pay"}]
    BY <1>3, DeskMoves DEF Or!Over
  <2>2. ord' \in [Orders -> Or!Statuses \cup {"none"}]
    BY <1>3 DEF OrderInv, Or!TypeOK, Or!Statuses
  <2> QED
    BY <1>1, <2>1, <2>2 DEF OrderInv, Or!TypeOK
<1>6. FormShape'
  BY <1>1, <1>3, <1>4, FormKeeps
<1>7. ClerkShape'
  BY <1>1, <1>2, <1>3, <1>4, DeskKeeps
<1>8. ReturnShape'
  <2>1. \A o \in Orders : ord'[o] = "DELIVERED" => ord[o] = "DELIVERED"
    BY <1>1, <1>3 DEF OrderInv, Or!TypeOK
  <2>2. amount[c] = TRUE => form[c].of \in agreed
    BY DEF OrderInv, ReturnShape
  <2>3. c \in paid => form[c].kind = "returnStatus" /\ form[c].of \in agreed
    BY DEF OrderInv, ReturnShape
  <2> QED
    BY <1>1, <1>3, <2>1, <2>2, <2>3, ReturnKeeps
<1>9. CreateShape'
  <2>1. CASE s = "failed"
    <3>1. CreateShape'
      BY <1>1, <1>3, <1>4, <2>1, CreateKeeps
    <3> QED
      BY <3>1
  <2>2. CASE s = "items"
    <3>1. \A o \in Orders : o # form[c].order => ord'[o] = ord[o] /\ items'[o] = items[o]
      BY <1>1, <1>3, <2>2 DEF OrderInv, Or!TypeOK
    <3>2. ord'[form[c].order] = "PENDING"
      BY <1>1, <1>3, <2>2 DEF OrderInv, Or!TypeOK
    <3>3. items'[form[c].order] < Items
      BY <1>1, <1>2 DEF Or!OrderAssumption
    <3> QED
      BY <1>1, <1>3, <1>4, <2>2, <3>1, <3>2, <3>3, CreateKeeps
  <2> QED
    BY <1>3, <2>1, <2>2
<1>10. PickupShape'
  <2>1. \A o \in Orders : o # form[c].order => ord'[o] = ord[o] /\ readied'[o] = readied[o]
    BY <1>1, <1>3 DEF OrderInv, Or!TypeOK
  <2>2. ord'[form[c].order] # "READY_FOR_PICKUP"
    BY <1>1, <1>2, <1>3 DEF OrderInv, Or!TypeOK
  <2>3. desk'[c] = s /\ \A q \in Clerks \ {c} : desk'[q] = desk[q]
    BY <1>3, DeskMoves
  <2>4. Given(form[c].order)' = Given(form[c].order)
    BY <1>1, <2>3 DEF Given
  <2>5. form[c].order \notin crowded =>
          Cardinality(Given(form[c].order)') <= readied'[form[c].order]
    BY <1>1, <2>4 DEF OrderInv, PickupShape
  <2> QED
    BY <1>1, <1>3, <1>4, <2>1, <2>2, <2>5, PickupKeeps
<1>11. BroughtShape'
  <2>1. \A o \in Orders : ord'[o] = ord[o] \/ ord'[o] \notin {"PROCESSING", "OUT_FOR_DELIVERY"}
    BY <1>1, <1>3 DEF OrderInv, Or!TypeOK
  <2> QED
    BY <1>1, <1>3, <1>4, <2>1, BroughtKeeps
<1> QED
  BY <1>5, <1>6, <1>7, <1>8, <1>9, <1>10, <1>11 DEF OrderInv

\* One item of a new order is saved.
LEMMA SaveItemInv ==
  ASSUME OrderInv, Or!OrderAssumption, NEW c \in Clerks, Or!SaveItem(c)
  PROVE  OrderInv'
<1>1. /\ desk[c] = "items" /\ form[c].order \in Orders
      /\ items' = [items EXCEPT ![form[c].order] = @ + 1]
      /\ UNCHANGED <<ord, row, form, refund, agreed, paid, amount, readied, delivered, forced,
                     crowded, broken>>
  BY JobFacts DEF Or!SaveItem, Or!Order, Or!orderHist
<1>2. /\ form[c].kind = "create" /\ items[form[c].order] < Items
           /\ items[form[c].order] \in 0..Items
      /\ row[c] = "none" /\ c \notin broken /\ Items \in Nat
  BY <1>1 DEF OrderInv, CreateShape, ClerkShape, Or!TypeOK, Or!OrderAssumption
<1>3. PICK s \in {"done", "items"} :
        /\ Or!To(c, s)
        /\ s = "items" => items[form[c].order] + 1 # Items
  BY DEF Or!SaveItem, Or!Order
<1>4. desk[c] \notin Or!Over /\ desk[c] # "idle"
  BY <1>1 DEF Or!Over
<1>5. Or!TypeOK'
  <2>1. desk' \in [Clerks -> Or!Over \cup {"read", "items", "order", "save", "pay"}]
    BY <1>3, DeskMoves DEF Or!Over
  <2>2. items' \in [Orders -> 0..Items]
    BY <1>1, <1>2 DEF OrderInv, Or!TypeOK
  <2> QED
    BY <1>1, <2>1, <2>2 DEF OrderInv, Or!TypeOK
<1>6. FormShape'
  BY <1>1, <1>3, <1>4, FormKeeps
<1>7. ClerkShape'
  BY <1>1, <1>2, <1>3, <1>4, DeskKeeps
<1>8. ReturnShape'
  <2>2. amount[c] = TRUE => form[c].of \in agreed
    BY DEF OrderInv, ReturnShape
  <2>3. c \in paid => form[c].kind = "returnStatus" /\ form[c].of \in agreed
    BY DEF OrderInv, ReturnShape
  <2> QED
    BY <1>1, <1>2, <1>3, <2>2, <2>3, ReturnKeeps
<1>9. CreateShape'
  <2>1. \A o \in Orders : o # form[c].order => ord'[o] = ord[o] /\ items'[o] = items[o]
    BY <1>1 DEF OrderInv, Or!TypeOK
  <2>2. ord[form[c].order] # "none"
    BY <1>1, <1>2 DEF OrderInv, CreateShape
  <2>3. s = "items" => items'[form[c].order] < Items
    BY <1>1, <1>2, <1>3 DEF OrderInv, Or!TypeOK
  <2> QED
    BY <1>1, <1>2, <1>3, <1>4, <2>1, <2>2, <2>3, CreateKeeps
<1>10. PickupShape'
  BY <1>1, <1>2, <1>3, <1>4, PickupStays
<1>11. BroughtShape'
  BY <1>1, <1>3, <1>4, BroughtKeeps
<1> QED
  BY <1>5, <1>6, <1>7, <1>8, <1>9, <1>10, <1>11 DEF OrderInv

\* An order takes a status.
LEMMA SetFacts ==
  ASSUME OrderInv, NEW o \in Orders, NEW t \in Or!Statuses, Or!SetOrder(o, t)
  PROVE  /\ ord' \in [Orders -> Or!Statuses \cup {"none"}] /\ readied' \in [Orders -> Nat]
         /\ delivered \subseteq delivered' /\ delivered' \subseteq Orders
         /\ ord'[o] = t /\ t # "none"
         /\ \A p \in Orders : p # o => ord'[p] = ord[p] /\ readied'[p] = readied[p]
         /\ readied'[o] = (IF t = "READY_FOR_PICKUP" THEN readied[o] + 1 ELSE readied[o])
         /\ \A p \in Orders : ord'[p] = "DELIVERED" => ord[p] = "DELIVERED" \/ p \in delivered'
<1>1. ord' \in [Orders -> Or!Statuses \cup {"none"}] /\ readied' \in [Orders -> Nat]
  BY DEF Or!SetOrder, OrderInv, Or!TypeOK
<1>2. t # "none"
  BY DEF Or!Statuses
<1>3. ord'[o] = t /\ \A p \in Orders : p # o => ord'[p] = ord[p] /\ readied'[p] = readied[p]
  BY DEF Or!SetOrder, OrderInv, Or!TypeOK
<1>4. readied'[o] = IF t = "READY_FOR_PICKUP" THEN readied[o] + 1 ELSE readied[o]
  BY DEF Or!SetOrder, OrderInv, Or!TypeOK
<1>5. delivered \subseteq delivered' /\ delivered' \subseteq Orders /\ (t = "DELIVERED" =>
        o \in delivered')
  BY DEF Or!SetOrder, OrderInv, Or!TypeOK
<1> QED
  BY <1>1, <1>2, <1>3, <1>4, <1>5

\* Pickups, when an order takes a status and is not given away.
LEMMA PickupSet ==
  ASSUME OrderInv, Or!OrderAssumption, NEW c \in Clerks, NEW s, Or!To(c, s), desk[c] \notin Or!Over,
         UNCHANGED <<form, crowded, row>>, form[c].kind # "deliver",
         NEW t \in Or!Statuses, Or!SetOrder(form[c].order, t)
  PROVE  PickupShape'
<1>1. form[c].order \in Orders
  BY JobFacts
<1>2. /\ \A p \in Orders : p # form[c].order => ord'[p] = ord[p] /\ readied'[p] = readied[p]
      /\ ord'[form[c].order] = t
      /\ readied'[form[c].order] = (IF t = "READY_FOR_PICKUP" THEN readied[form[c].order] + 1
                                    ELSE readied[form[c].order])
  BY <1>1, SetFacts
<1>3. desk'[c] = s /\ \A q \in Clerks \ {c} : desk'[q] = desk[q]
  BY DeskMoves
<1>4. Given(form[c].order)' = Given(form[c].order)
  BY <1>3 DEF Given
<1>5. Cardinality(Given(form[c].order)) \in Nat /\ readied[form[c].order] \in Nat
  <2>1. Given(form[c].order) \in SUBSET Clerks
    BY DEF Given
  <2> QED
    BY <1>1, <2>1, OrderFacts DEF OrderInv, Or!TypeOK
<1>6. form[c].order \notin crowded => Cardinality(Given(form[c].order)) <= readied[form[c].order]
  BY <1>1 DEF OrderInv, PickupShape
<1>7. form[c].order \notin crowded =>
            /\ Cardinality(Given(form[c].order)') <= readied'[form[c].order]
            /\ ord'[form[c].order] = "READY_FOR_PICKUP" /\ Giving(form[c].order)' = {} =>
                 Cardinality(Given(form[c].order)') + 1 <= readied'[form[c].order]
  <2> HIDE DEF Given
  <2> QED
    BY <1>2, <1>4, <1>5, <1>6
<1> QED
  BY <1>2, <1>7, PickupKeeps

\* The status of an order is set.
LEMMA UpdateOrderStatusInv ==
  ASSUME OrderInv, Or!OrderAssumption, NEW c \in Clerks, Or!UpdateOrderStatus(c)
  PROVE  OrderInv'
<1>1. /\ desk[c] = "read" /\ form[c].kind = "status" /\ form[c].order \in Orders
      /\ form[c].to \in Or!Statuses
      /\ Or!SetOrder(form[c].order, form[c].to) /\ Or!To(c, "done")
      /\ forced' = forced \cup {form[c].order}
      /\ UNCHANGED <<row, form, items, refund, agreed, paid, amount, crowded, broken>>
  BY JobFacts DEF Or!UpdateOrderStatus, Or!Does, Or!extras, Or!Order
<1>2. row[c] = "none" /\ c \notin broken
  BY <1>1 DEF OrderInv, ClerkShape
<1>3. /\ ord' \in [Orders -> Or!Statuses \cup {"none"}] /\ readied' \in [Orders -> Nat]
      /\ delivered \subseteq delivered' /\ delivered' \subseteq Orders
      /\ ord'[form[c].order] # "none"
      /\ \A p \in Orders : p # form[c].order => ord'[p] = ord[p]
      /\ \A p \in Orders : ord'[p] = "DELIVERED" => ord[p] = "DELIVERED" \/ p \in delivered'
  BY <1>1, SetFacts
<1>4. desk[c] \notin Or!Over /\ desk[c] # "idle"
  BY <1>1 DEF Or!Over
<1>5. Or!TypeOK'
  <2>1. desk' \in [Clerks -> Or!Over \cup {"read", "items", "order", "save", "pay"}]
    BY <1>1, DeskMoves DEF Or!Over
  <2> QED
    BY <1>1, <1>3, <2>1 DEF OrderInv, Or!TypeOK
<1>6. FormShape'
  BY <1>1, <1>4, FormKeeps
<1>7. ClerkShape'
  BY <1>1, <1>2, <1>4, DeskKeeps
<1>8. ReturnShape'
  <2>1. amount[c] = TRUE => form[c].of \in agreed
    BY DEF OrderInv, ReturnShape
  <2>2. c \in paid => form[c].kind = "returnStatus" /\ form[c].of \in agreed
    BY DEF OrderInv, ReturnShape
  <2> QED
    BY <1>1, <1>3, <2>1, <2>2, ReturnKeeps
<1>9. CreateShape'
  BY <1>1, <1>3, <1>4, CreateKeeps
<1>10. PickupShape'
  BY <1>1, <1>4, PickupSet
<1>11. BroughtShape'
  <2>1. \A o \in Orders : ord'[o] = ord[o] \/ o \in forced'
    BY <1>1, <1>3
  <2> QED
    BY <1>1, <1>4, <2>1, BroughtKeeps
<1> QED
  BY <1>5, <1>6, <1>7, <1>8, <1>9, <1>10, <1>11 DEF OrderInv

\* A call reads the order it is about.
LEMMA ReadOrderInv ==
  ASSUME OrderInv, Or!OrderAssumption, NEW c \in Clerks, Or!ReadOrder(c)
  PROVE  OrderInv'
<1>1. /\ desk[c] = "read" /\ form[c].kind \in {"start", "deliver", "return"}
      /\ form[c].order \in Orders
      /\ UNCHANGED <<ord, row, form, items, refund, agreed, paid, amount, readied, delivered, forced,
                     crowded, broken>>
  BY JobFacts DEF Or!ReadOrder, Or!extras, Or!orderHist
<1>2. row[c] = "none" /\ c \notin broken
  BY <1>1 DEF OrderInv, ClerkShape
<1>3. PICK s \in {"failed", "save", "order"} :
        /\ Or!To(c, s)
        /\ s = "save" => form[c].kind = "return" /\ ord[form[c].order] = "DELIVERED"
        /\ s = "order" => form[c].kind \in {"start", "deliver"}
        /\ s = "order" /\ form[c].kind = "deliver" => ord[form[c].order] = "READY_FOR_PICKUP"
  BY <1>1 DEF Or!ReadOrder, Or!Order, Or!Needs
<1>4. desk[c] \notin Or!Over /\ desk[c] # "idle"
  BY <1>1 DEF Or!Over
<1>5. Or!TypeOK'
  <2>1. desk' \in [Clerks -> Or!Over \cup {"read", "items", "order", "save", "pay"}]
    BY <1>3, DeskMoves DEF Or!Over
  <2> QED
    BY <1>1, <2>1 DEF OrderInv, Or!TypeOK
<1>6. FormShape'
  BY <1>1, <1>3, <1>4, FormKeeps
<1>7. ClerkShape'
  BY <1>1, <1>2, <1>3, <1>4, DeskKeeps
<1>8. ReturnShape'
  <2>1. amount[c] = TRUE => form[c].of \in agreed
    BY DEF OrderInv, ReturnShape
  <2>2. c \in paid => form[c].kind = "returnStatus" /\ form[c].of \in agreed
    BY DEF OrderInv, ReturnShape
  <2>3. s = "save" => form[c].order \in delivered
    BY <1>1, <1>3 DEF OrderInv, ReturnShape
  <2> QED
    BY <1>1, <1>3, <2>1, <2>2, <2>3, ReturnKeeps
<1>9. CreateShape'
  <2>1. ord[form[c].order] # "none"
    BY <1>1 DEF OrderInv, CreateShape
  <2> QED
    BY <1>1, <1>3, <1>4, <2>1, CreateKeeps
<1>10. PickupShape'
  <2>1. CASE s = "order" /\ form[c].kind = "deliver"
    <3>1. desk'[c] = s /\ \A q \in Clerks \ {c} : desk'[q] = desk[q]
      BY <1>3, DeskMoves
    <3>2. c \in Giving(form[c].order)'
      BY <1>1, <2>1, <3>1 DEF Giving
    <3>3. Given(form[c].order)' = Given(form[c].order) \cup {c} /\ c \notin Given(form[c].order)
      BY <1>1, <1>2, <2>1, <3>1 DEF Given
    <3>4. Given(form[c].order) \in SUBSET Clerks
      BY DEF Given
    <3>5. Cardinality(Given(form[c].order)') = Cardinality(Given(form[c].order)) + 1
      BY <3>3, <3>4, FS_AddElement, OrderFacts
    <3>6. form[c].order \notin crowded => Giving(form[c].order) = {}
      <4>1. ASSUME NEW q \in Giving(form[c].order), form[c].order \notin crowded
            PROVE  FALSE
        <5>1. q \in Clerks /\ desk[q] = "order" /\ form[q].order = form[c].order
          BY <4>1 DEF Giving
        <5>2. q \in Or!Active /\ c \in Or!Active
          BY <1>4, <5>1 DEF Or!Active, Or!Over
        <5>3. q = c
          BY <1>1, <4>1, <5>1, <5>2 DEF OrderInv, PickupShape
        <5> QED
          BY <1>1, <5>1, <5>3
      <4> QED
        BY <4>1
    <3>7. form[c].order \notin crowded =>
            Cardinality(Given(form[c].order)) + 1 <= readied[form[c].order]
      BY <1>1, <1>3, <2>1, <3>6 DEF OrderInv, PickupShape
    <3> QED
      BY <1>1, <1>3, <1>4, <3>2, <3>5, <3>7, PickupKeeps
  <2>2. CASE ~(s = "order" /\ form[c].kind = "deliver")
    BY <1>1, <1>2, <1>3, <1>4, <2>2, PickupStays
  <2> QED
    BY <2>1, <2>2
<1>11. BroughtShape'
  BY <1>1, <1>3, <1>4, BroughtKeeps
<1> QED
  BY <1>5, <1>6, <1>7, <1>8, <1>9, <1>10, <1>11 DEF OrderInv

\* A call reads the session or delivery it completes.
LEMMA ReadRowInv ==
  ASSUME OrderInv, Or!OrderAssumption, NEW c \in Clerks, Or!ReadRow(c)
  PROVE  OrderInv'
<1>1. /\ desk[c] = "read" /\ form[c].kind \in {"complete", "deliveryStatus"}
      /\ form[c].order \in Orders
      /\ UNCHANGED <<ord, row, form, items, refund, agreed, paid, amount, readied, delivered, forced,
                     crowded, broken>>
  BY JobFacts DEF Or!ReadRow, Or!extras, Or!orderHist
<1>2. row[c] = "none" /\ c \notin broken
  BY <1>1 DEF OrderInv, ClerkShape
<1>3. PICK s \in {"save", "order"} : Or!To(c, s)
  BY <1>1 DEF Or!ReadRow
<1>4. desk[c] \notin Or!Over /\ desk[c] # "idle"
  BY <1>1 DEF Or!Over
<1>5. Or!TypeOK'
  <2>1. desk' \in [Clerks -> Or!Over \cup {"read", "items", "order", "save", "pay"}]
    BY <1>3, DeskMoves DEF Or!Over
  <2> QED
    BY <1>1, <2>1 DEF OrderInv, Or!TypeOK
<1>6. FormShape'
  BY <1>1, <1>3, <1>4, FormKeeps
<1>7. ClerkShape'
  BY <1>1, <1>2, <1>3, <1>4, DeskKeeps
<1>8. ReturnShape'
  <2>1. amount[c] = TRUE => form[c].of \in agreed
    BY DEF OrderInv, ReturnShape
  <2>2. c \in paid => form[c].kind = "returnStatus" /\ form[c].of \in agreed
    BY DEF OrderInv, ReturnShape
  <2> QED
    BY <1>1, <1>3, <2>1, <2>2, ReturnKeeps
<1>9. CreateShape'
  <2>1. ord[form[c].order] # "none"
    BY <1>1 DEF OrderInv, CreateShape
  <2> QED
    BY <1>1, <1>3, <1>4, <2>1, CreateKeeps
<1>10. PickupShape'
  BY <1>1, <1>2, <1>3, <1>4, PickupStays
<1>11. BroughtShape'
  BY <1>1, <1>3, <1>4, BroughtKeeps
<1> QED
  BY <1>5, <1>6, <1>7, <1>8, <1>9, <1>10, <1>11 DEF OrderInv

\* The order follows the record.
LEMMA UpdateOrderInv ==
  ASSUME OrderInv, Or!OrderAssumption, NEW c \in Clerks, Or!UpdateOrder(c)
  PROVE  OrderInv'
<1>1. /\ desk[c] = "order" /\ form[c].order \in Orders
      /\ Or!SetOrder(form[c].order, Or!OrderBecomes(c)) /\ Or!To(c, "save")
      /\ UNCHANGED <<row, form, items, refund, agreed, paid, amount, forced, crowded, broken>>
  BY JobFacts DEF Or!UpdateOrder, Or!extras, Or!Order
<1>2. /\ row[c] = "none" /\ c \notin broken
      /\ form[c].kind \in {"start", "deliver", "complete", "deliveryStatus", "returnStatus"}
  BY <1>1 DEF OrderInv, ClerkShape
<1>3. PICK t \in Or!Statuses :
        /\ t = Or!OrderBecomes(c)
        /\ t = "PROCESSING" => form[c].kind = "start"
        /\ t = "OUT_FOR_DELIVERY" => form[c].kind = "deliver"
        /\ form[c].kind = "deliver" => t = "OUT_FOR_DELIVERY"
  BY <1>2 DEF Or!OrderBecomes, Or!Statuses
<1>4. /\ ord' \in [Orders -> Or!Statuses \cup {"none"}] /\ readied' \in [Orders -> Nat]
      /\ delivered \subseteq delivered' /\ delivered' \subseteq Orders
      /\ ord'[form[c].order] = t /\ t # "none"
      /\ \A p \in Orders : p # form[c].order => ord'[p] = ord[p] /\ readied'[p] = readied[p]
      /\ \A p \in Orders : ord'[p] = "DELIVERED" => ord[p] = "DELIVERED" \/ p \in delivered'
      /\ form[c].kind = "deliver" => readied'[form[c].order] = readied[form[c].order]
  <2>1. Or!SetOrder(form[c].order, t)
    BY <1>1, <1>3
  <2> QED
    BY <1>1, <1>3, <2>1, SetFacts
<1>5. desk[c] \notin Or!Over /\ desk[c] # "idle"
  BY <1>1 DEF Or!Over
<1>6. Or!TypeOK'
  <2>1. desk' \in [Clerks -> Or!Over \cup {"read", "items", "order", "save", "pay"}]
    BY <1>1, DeskMoves DEF Or!Over
  <2> QED
    BY <1>1, <1>4, <2>1 DEF OrderInv, Or!TypeOK
<1>7. FormShape'
  BY <1>1, <1>5, FormKeeps
<1>8. ClerkShape'
  BY <1>1, <1>2, <1>5, DeskKeeps
<1>9. ReturnShape'
  <2>1. amount[c] = TRUE => form[c].of \in agreed
    BY DEF OrderInv, ReturnShape
  <2>2. c \in paid => form[c].kind = "returnStatus" /\ form[c].of \in agreed
    BY DEF OrderInv, ReturnShape
  <2> QED
    BY <1>1, <1>2, <1>4, <2>1, <2>2, ReturnKeeps
<1>10. CreateShape'
  BY <1>1, <1>4, <1>5, CreateKeeps
<1>11. PickupShape'
  <2>1. CASE form[c].kind = "deliver"
    <3>1. desk'[c] = "save" /\ \A q \in Clerks \ {c} : desk'[q] = desk[q]
      BY <1>1, DeskMoves
    <3>2. Given(form[c].order)' = Given(form[c].order)
      BY <1>1, <3>1 DEF Given
    <3>3. ord'[form[c].order] # "READY_FOR_PICKUP"
      BY <1>3, <1>4, <2>1
    <3>4. form[c].order \notin crowded =>
            Cardinality(Given(form[c].order)') <= readied'[form[c].order]
      BY <1>1, <1>4, <2>1, <3>2 DEF OrderInv, PickupShape
    <3> QED
      BY <1>1, <1>4, <1>5, <3>3, <3>4, PickupKeeps
  <2>2. CASE form[c].kind # "deliver"
    <3>1. Or!SetOrder(form[c].order, t)
      BY <1>1, <1>3
    <3> QED
      BY <1>1, <1>3, <1>5, <2>2, <3>1, PickupSet
  <2> QED
    BY <2>1, <2>2
<1>12. BroughtShape'
  <2>1. \A o \in Orders : \/ ord'[o] = ord[o]
                           \/ /\ form[c].order = o
                              /\ \A k \in {"start", "deliver"} :
                                   ord'[o] = (IF k = "start" THEN "PROCESSING" ELSE "OUT_FOR_DELIVERY")
                                       => form[c].kind = k
    BY <1>3, <1>4
  <2> QED
    BY <1>1, <1>5, <2>1, BroughtKeeps
<1> QED
  BY <1>6, <1>7, <1>8, <1>9, <1>10, <1>11, <1>12 DEF OrderInv

\* The record is saved.
LEMMA SaveRowInv ==
  ASSUME OrderInv, Or!OrderAssumption, NEW c \in Clerks, Or!SaveRow(c)
  PROVE  OrderInv'
<1>1. /\ desk[c] = "save" /\ form[c].order \in Orders /\ Or!To(c, "done")
      /\ UNCHANGED <<ord, form, items, paid, amount, readied, delivered, forced, crowded, broken>>
  BY JobFacts DEF Or!SaveRow, Or!orderHist
<1>2. /\ row[c] = "none" /\ c \notin broken /\ form[c].kind \notin {"create", "status"}
      /\ form[c].kind \in Or!OnRow =>
           /\ form[c].of \in Clerks /\ row[form[c].of] # "none"
           /\ form[c].of # c
  BY <1>1, JobFacts DEF OrderInv, ClerkShape, Or!OnRow, Or!OnOrder
<1>3. desk[c] \notin Or!Over /\ desk[c] # "idle"
  BY <1>1 DEF Or!Over
<1>4. PICK t \in Or!RowStatuses :
        \/ form[c].kind \in {"start", "deliver", "return"} /\ row' = [row EXCEPT ![c] = t]
        \/ form[c].kind \in Or!OnRow /\ row' = [row EXCEPT ![form[c].of] = t]
  <2>1. form[c].kind \in {"start", "deliver", "return"} \/ form[c].kind \in Or!OnRow
    BY <1>1, <1>2, <1>3, JobFacts DEF Or!OnRow, Or!OnOrder, OrderInv, FormShape
  <2>2. CASE form[c].kind \in {"start", "deliver", "return"}
    BY <2>2 DEF Or!SaveRow, Or!RowStatuses
  <2>3. CASE form[c].kind = "complete"
    BY <2>3 DEF Or!SaveRow, Or!RowStatuses, Or!OnRow
  <2>4. CASE form[c].kind \in {"deliveryStatus", "returnStatus"}
    <3>1. form[c].to \in Or!RowStatuses
      BY <1>3, <2>4, JobFacts
    <3> QED
      BY <2>4, <3>1 DEF Or!SaveRow, Or!OnRow
  <2> QED
    BY <2>1, <2>2, <2>3, <2>4 DEF Or!OnRow
<1>5. t # "none"
  BY DEF Or!RowStatuses
<1>6. /\ row' \in [Clerks -> Or!RowStatuses \cup {"none"}]
      /\ \A q \in Clerks : row[q] # "none" => row'[q] # "none"
      /\ \A q \in Clerks \ {c} : row'[q] # "none" => row[q] # "none"
      /\ row'[c] # "none" <=> form[c].kind \in {"start", "deliver", "return"}
  BY <1>2, <1>4, <1>5 DEF OrderInv, Or!TypeOK, Or!OnRow
<1>7. /\ refund' \subseteq agreed' /\ agreed \subseteq agreed' /\ agreed' \subseteq Clerks
  <2>1. refund \subseteq agreed /\ agreed \subseteq Clerks /\ amount[c] \in BOOLEAN
    BY DEF OrderInv, Or!TypeOK
  <2>2. PICK given \in (IF form[c].to = "APPROVED" THEN BOOLEAN ELSE {amount[c]}) :
          \/ UNCHANGED <<refund, agreed>>
          \/ /\ given = TRUE /\ form[c].kind = "returnStatus"
             /\ refund' = refund \cup {form[c].of}
             /\ agreed' = IF form[c].to = "APPROVED" THEN agreed \cup {form[c].of} ELSE agreed
          \/ refund' = refund \ {form[c].of} /\ UNCHANGED agreed
    BY DEF Or!SaveRow, Or!SaveAmount
  <2>3. CASE /\ given = TRUE /\ form[c].kind = "returnStatus"
             /\ refund' = refund \cup {form[c].of}
             /\ agreed' = IF form[c].to = "APPROVED" THEN agreed \cup {form[c].of} ELSE agreed
    <3>1. form[c].of \in Clerks
      BY <1>2, <2>3 DEF Or!OnRow
    <3>2. form[c].to # "APPROVED" => form[c].of \in agreed
      BY <2>2, <2>3 DEF OrderInv, ReturnShape
    <3> QED
      BY <2>1, <2>3, <3>1, <3>2
  <2> QED
    BY <2>1, <2>2, <2>3
<1>8. Or!TypeOK'
  <2>1. desk' \in [Clerks -> Or!Over \cup {"read", "items", "order", "save", "pay"}]
    BY <1>1, DeskMoves DEF Or!Over
  <2> QED
    BY <1>1, <1>6, <1>7, <2>1 DEF OrderInv, Or!TypeOK
<1>9. FormShape'
  BY <1>1, <1>3, FormKeeps
<1>10. ClerkShape'
  BY <1>1, <1>2, <1>3, <1>6, DeskKeeps
<1>11. ReturnShape'
  <2>1. amount[c] = TRUE => form[c].of \in agreed
    BY DEF OrderInv, ReturnShape
  <2>2. c \in paid => form[c].kind = "returnStatus" /\ form[c].of \in agreed
    BY DEF OrderInv, ReturnShape
  <2>3. form[c].kind = "return" => form[c].order \in delivered
    BY <1>1 DEF OrderInv, ReturnShape
  <2> QED
    BY <1>1, <1>7, <2>1, <2>2, <2>3, ReturnKeeps
<1>12. CreateShape'
  <2>1. ord[form[c].order] # "none"
    BY <1>2, <1>3 DEF OrderInv, CreateShape
  <2> QED
    BY <1>1, <1>3, <2>1, CreateKeeps
<1>13. PickupShape'
  <2>1. desk'[c] = "done" /\ \A q \in Clerks \ {c} : desk'[q] = desk[q]
    BY <1>1, DeskMoves
  <2>2. \A q \in Clerks \ {c} : row'[q] # "none" <=> row[q] # "none"
    BY <1>6
  <2>3. Given(form[c].order)' = Given(form[c].order)
          /\ Giving(form[c].order)' = Giving(form[c].order)
    BY <1>1, <1>6, <2>1, <2>2 DEF Given, Giving
  <2>4. form[c].order \notin crowded =>
            /\ Cardinality(Given(form[c].order)) <= readied[form[c].order]
            /\ ord[form[c].order] = "READY_FOR_PICKUP" /\ Giving(form[c].order) = {} =>
                 Cardinality(Given(form[c].order)) + 1 <= readied[form[c].order]
    BY <1>1 DEF OrderInv, PickupShape
  <2> QED
    BY <1>1, <1>3, <2>2, <2>3, <2>4, PickupKeeps
<1>14. BroughtShape'
  BY <1>1, <1>3, BroughtKeeps
<1> QED
  BY <1>8, <1>9, <1>10, <1>11, <1>12, <1>13, <1>14 DEF OrderInv

\* A refund reads its return.
LEMMA ReadReturnInv ==
  ASSUME OrderInv, Or!OrderAssumption, NEW c \in Clerks, Or!ReadReturn(c)
  PROVE  OrderInv'
<1>1. /\ desk[c] = "read" /\ form[c].kind = "returnStatus" /\ form[c].order \in Orders
      /\ amount' = [amount EXCEPT ![c] = form[c].of \in refund]
      /\ UNCHANGED <<ord, row, form, items, refund, agreed, paid, readied, delivered, forced,
                     crowded, broken>>
  BY JobFacts DEF Or!ReadReturn, Or!Does, Or!orderHist
<1>2. row[c] = "none" /\ c \notin broken
  BY <1>1 DEF OrderInv, ClerkShape
<1>3. PICK s \in {"save", "pay"} : Or!To(c, s) /\ (s = "pay" => form[c].of \in refund)
  BY DEF Or!ReadReturn
<1>4. desk[c] \notin Or!Over /\ desk[c] # "idle"
  BY <1>1 DEF Or!Over
<1>5. /\ amount' \in [Clerks -> BOOLEAN] /\ \A q \in Clerks \ {c} : amount'[q] = amount[q]
      /\ amount'[c] = (form[c].of \in refund)
  BY <1>1 DEF OrderInv, Or!TypeOK
<1>6. Or!TypeOK'
  <2>1. desk' \in [Clerks -> Or!Over \cup {"read", "items", "order", "save", "pay"}]
    BY <1>3, DeskMoves DEF Or!Over
  <2> QED
    BY <1>1, <1>5, <2>1 DEF OrderInv, Or!TypeOK
<1>7. FormShape'
  BY <1>1, <1>3, <1>4, <1>5, FormKeeps
<1>8. ClerkShape'
  <2>1. s = "pay" => amount'[c] = TRUE
    BY <1>3, <1>5
  <2> QED
    BY <1>1, <1>2, <1>3, <1>4, <1>5, <2>1, DeskKeeps
<1>9. ReturnShape'
  <2>1. amount'[c] = TRUE => form[c].of \in agreed
    BY <1>5 DEF OrderInv, Or!TypeOK
  <2>2. c \in paid => form[c].kind = "returnStatus" /\ form[c].of \in agreed
    BY DEF OrderInv, ReturnShape
  <2> QED
    BY <1>1, <1>3, <1>5, <2>1, <2>2, ReturnKeeps
<1>10. CreateShape'
  <2>1. ord[form[c].order] # "none"
    BY <1>1 DEF OrderInv, CreateShape
  <2> QED
    BY <1>1, <1>3, <1>4, <2>1, CreateKeeps
<1>11. PickupShape'
  BY <1>1, <1>3, <1>4, PickupStays
<1>12. BroughtShape'
  BY <1>1, <1>3, <1>4, BroughtKeeps
<1> QED
  BY <1>6, <1>7, <1>8, <1>9, <1>10, <1>11, <1>12 DEF OrderInv

\* A refund is paid.
LEMMA PayRefundInv ==
  ASSUME OrderInv, Or!OrderAssumption, NEW c \in Clerks, Or!PayRefund(c)
  PROVE  OrderInv'
<1>1. /\ desk[c] = "pay" /\ form[c].order \in Orders
      /\ UNCHANGED <<ord, row, form, items, refund, agreed, amount, readied, delivered, forced,
                     crowded, broken>>
  BY JobFacts DEF Or!PayRefund, Or!orderHist
<1>2. /\ row[c] = "none" /\ c \notin broken /\ form[c].kind = "returnStatus" /\ amount[c] = TRUE
      /\ form[c].of \in agreed
  BY <1>1 DEF OrderInv, ClerkShape, ReturnShape
<1>3. PICK s \in {"order", "failed"} : Or!To(c, s)
  BY DEF Or!PayRefund
<1>4. paid \subseteq paid' /\ paid' \subseteq paid \cup {c}
  BY DEF Or!PayRefund
<1>5. desk[c] \notin Or!Over /\ desk[c] # "idle"
  BY <1>1 DEF Or!Over
<1>6. Or!TypeOK'
  <2>1. desk' \in [Clerks -> Or!Over \cup {"read", "items", "order", "save", "pay"}]
    BY <1>3, DeskMoves DEF Or!Over
  <2> QED
    BY <1>1, <1>4, <2>1 DEF OrderInv, Or!TypeOK
<1>7. FormShape'
  BY <1>1, <1>3, <1>5, FormKeeps
<1>8. ClerkShape'
  BY <1>1, <1>2, <1>3, <1>5, DeskKeeps
<1>9. ReturnShape'
  BY <1>1, <1>2, <1>3, <1>4, ReturnKeeps
<1>10. CreateShape'
  <2>1. ord[form[c].order] # "none"
    BY <1>2, <1>5 DEF OrderInv, CreateShape
  <2> QED
    BY <1>1, <1>3, <1>5, <2>1, CreateKeeps
<1>11. PickupShape'
  BY <1>1, <1>2, <1>3, <1>5, PickupStays
<1>12. BroughtShape'
  BY <1>1, <1>3, <1>5, BroughtKeeps
<1> QED
  BY <1>6, <1>7, <1>8, <1>9, <1>10, <1>11, <1>12 DEF OrderInv

\* The process stops between the writes of a call.
LEMMA BreakInv ==
  ASSUME OrderInv, Or!OrderAssumption, NEW c \in Clerks, Or!Break(c)
  PROVE  OrderInv'
<1>1. /\ desk[c] \notin Or!Over /\ desk[c] # "idle" /\ form[c].order \in Orders
      /\ Or!To(c, "broken") /\ broken' = broken \cup {c}
      /\ UNCHANGED <<ord, row, form, items, refund, agreed, paid, amount, readied, delivered, forced,
                     crowded>>
  BY JobFacts DEF Or!Break, Or!extras, Or!Active, Or!Over
<1>2. row[c] = "none"
  BY <1>1 DEF OrderInv, ClerkShape, Or!Over
<1>3. /\ desk' \in [Clerks -> Or!Over \cup {"read", "items", "order", "save", "pay"}]
      /\ desk'[c] = "broken" /\ \A q \in Clerks \ {c} : desk'[q] = desk[q]
  BY <1>1, DeskMoves DEF Or!Over
<1>4. Or!TypeOK'
  BY <1>1, <1>3 DEF OrderInv, Or!TypeOK
<1>5. FormShape'
  BY <1>1, FormKeeps
<1>6. ClerkShape'
  BY <1>1, <1>2, DeskKeeps
<1>7. ReturnShape'
  <2>1. amount[c] = TRUE => form[c].of \in agreed
    BY DEF OrderInv, ReturnShape
  <2>2. c \in paid => form[c].kind = "returnStatus" /\ form[c].of \in agreed
    BY DEF OrderInv, ReturnShape
  <2> QED
    BY <1>1, <2>1, <2>2, ReturnKeeps
<1>8. CreateShape'
  <2>1. CreateShape
    BY DEF OrderInv
  <2> QED
    BY <1>1, <1>3, <2>1 DEF CreateShape
<1>9. PickupShape'
  <2>1. CASE form[c].order \notin crowded /\ c \in Given(form[c].order)
    <3>1. Given(form[c].order)' = Given(form[c].order) \ {c}
      BY <1>1, <1>2, <1>3, <2>1 DEF Given
    <3>2. Given(form[c].order) \in SUBSET Clerks
      BY DEF Given
    <3>3. /\ Cardinality(Given(form[c].order)') = Cardinality(Given(form[c].order)) - 1
          /\ Cardinality(Given(form[c].order)) \in Nat
      BY <2>1, <3>1, <3>2, FS_RemoveElement, OrderFacts
    <3>4. /\ Cardinality(Given(form[c].order)) <= readied[form[c].order]
          /\ readied[form[c].order] \in Nat
      BY <1>1, <2>1 DEF OrderInv, PickupShape, Or!TypeOK
    <3>5. /\ Cardinality(Given(form[c].order)') <= readied[form[c].order]
          /\ Cardinality(Given(form[c].order)') + 1 <= readied[form[c].order]
      BY <3>3, <3>4
    <3> QED
      BY <1>1, <3>5, PickupKeeps
  <2>2. CASE form[c].order \notin crowded /\ c \notin Given(form[c].order)
    <3>1. /\ Given(form[c].order)' = Given(form[c].order)
          /\ Giving(form[c].order)' = Giving(form[c].order)
      BY <1>1, <1>2, <1>3, <2>2 DEF Given, Giving
    <3>2. /\ Cardinality(Given(form[c].order)) <= readied[form[c].order]
          /\ ord[form[c].order] = "READY_FOR_PICKUP" /\ Giving(form[c].order) = {} =>
               Cardinality(Given(form[c].order)) + 1 <= readied[form[c].order]
      BY <1>1, <2>2 DEF OrderInv, PickupShape
    <3> QED
      BY <1>1, <3>1, <3>2, PickupKeeps
  <2>3. CASE form[c].order \in crowded
    BY <1>1, <2>3, PickupKeeps
  <2> QED
    BY <2>1, <2>2, <2>3
<1>10. BroughtShape'
  BY <1>1, BroughtKeeps
<1> QED
  BY <1>4, <1>5, <1>6, <1>7, <1>8, <1>9, <1>10 DEF OrderInv

\* OrderInv is preserved by every step of the orders.
LEMMA OrderStep ==
  ASSUME OrderInv, Or!OrderAssumption, [Or!Next]_(Or!orderVars)
  PROVE  OrderInv'
<1>1. CASE UNCHANGED Or!orderVars
  <2>1. UNCHANGED <<ord, row, desk, form, items, refund, agreed, paid, amount, readied, delivered, forced,
                    crowded, broken>>
    BY <1>1 DEF Or!orderVars, Or!extras, Or!orderHist
  <2>2. Or!TypeOK' /\ FormShape' /\ ClerkShape'
    BY <2>1 DEF OrderInv, Or!TypeOK, FormShape, ClerkShape, Or!NoForm, Or!Subject
  <2>3. ReturnShape' /\ CreateShape' /\ BroughtShape'
    BY <2>1 DEF OrderInv, ReturnShape, CreateShape, BroughtShape
  <2>4. PickupShape'
    BY <2>1 DEF OrderInv, PickupShape, Given, Giving, Or!Active
  <2> QED
    BY <2>2, <2>3, <2>4 DEF OrderInv
<1>2. ASSUME NEW c \in Clerks,
             \/ Or!Begin(c) \/ Or!CreateOrder(c) \/ Or!SaveItem(c) \/ Or!UpdateOrderStatus(c)
             \/ Or!ReadOrder(c) \/ Or!ReadRow(c) \/ Or!UpdateOrder(c) \/ Or!SaveRow(c)
             \/ Or!ReadReturn(c) \/ Or!PayRefund(c) \/ Or!Break(c)
      PROVE  OrderInv'
  BY <1>2, BeginInv, CreateOrderInv, SaveItemInv, UpdateOrderStatusInv, ReadOrderInv, ReadRowInv,
     UpdateOrderInv, SaveRowInv, ReadReturnInv, PayRefundInv, BreakInv
<1> QED
  BY <1>1, <1>2 DEF Or!Next

\* What the invariant says of the orders.
LEMMA OrderInvImplies ==
  ASSUME OrderInv, Or!OrderAssumption
  PROVE  /\ Or!TypeOK /\ Or!StatusHasRecord /\ Or!RefundsFollowApproval
         /\ Or!OneDeliveryPerPickup
<1>1. Or!StatusHasRecord
  <2> SUFFICES ASSUME NEW o \in Orders, NEW k \in {"start", "deliver"},
                      ord[o] = (IF k = "start" THEN "PROCESSING" ELSE "OUT_FOR_DELIVERY"),
                      o \notin forced,
                      \A c \in Clerks : form[c].order = o => c \notin Or!Active \cup broken
      PROVE  \E c \in Clerks : form[c].kind = k /\ form[c].order = o /\ row[c] # "none"
    BY DEF Or!StatusHasRecord, Or!Order
  <2>1. PICK c \in Clerks : /\ form[c].kind = k /\ form[c].order = o
                            /\ desk[c] \in {"save", "done", "broken"}
    BY DEF OrderInv, BroughtShape
  <2>2. c \notin broken /\ c \notin Or!Active
    BY <2>1
  <2>3. desk[c] = "done"
    BY <2>1, <2>2 DEF OrderInv, ClerkShape, Or!Active, Or!Over
  <2> QED
    BY <2>1, <2>3 DEF OrderInv, ClerkShape
<1>2. Or!RefundsFollowApproval
  <2> SUFFICES ASSUME NEW c \in paid
      PROVE  form[c].of \in agreed /\ form[c].order \in delivered
    BY DEF Or!RefundsFollowApproval, Or!Order
  <2>1. /\ c \in Clerks /\ desk[c] # "idle" /\ form[c].kind = "returnStatus"
        /\ form[c].of \in agreed /\ form[c].of \in Clerks
    BY DEF OrderInv, ReturnShape, Or!TypeOK
  <2>2. form[c].of # Nobody
    BY <2>1, OrderFacts
  <2>3. /\ row[form[c].of] # "none" /\ form[form[c].of].order = form[c].order
        /\ form[form[c].of].kind = "return"
    BY <2>1, <2>2 DEF OrderInv, ClerkShape, Or!Subject
  <2>4. desk[form[c].of] = "done"
    BY <2>1, <2>3 DEF OrderInv, ClerkShape
  <2> QED
    BY <2>1, <2>3, <2>4 DEF OrderInv, ReturnShape
<1>3. Or!OneDeliveryPerPickup
  <2> SUFFICES ASSUME NEW o \in Orders \ crowded
      PROVE  Cardinality(Or!Deliveries(o)) <= readied[o]
    BY OrderLibrary DEF Or!OneDeliveryPerPickup
  <2>1. Or!Deliveries(o) \in SUBSET Given(o) /\ Given(o) \in SUBSET Clerks
    BY DEF Or!Deliveries, Given, Or!Order
  <2>2. /\ IsFiniteSet(Given(o)) /\ Cardinality(Given(o)) \in Nat
        /\ Cardinality(Or!Deliveries(o)) \in Nat
    BY <2>1, OrderFacts
  <2>3. Cardinality(Or!Deliveries(o)) <= Cardinality(Given(o))
    BY <2>1, <2>2, FS_Subset
  <2>4. Cardinality(Given(o)) <= readied[o] /\ readied[o] \in Nat
    BY DEF OrderInv, PickupShape, Or!TypeOK
  <2> QED
    BY <2>2, <2>3, <2>4
<1> QED
  BY <1>1, <1>2, <1>3 DEF OrderInv

\* The orders' part of the whole keeps its invariant.
LEMMA OrdersHold ==
  ASSUME Or!OrderAssumption
  PROVE  Or!Spec => []OrderInv
<1>1. Or!Init => OrderInv
  BY OrderStart
<1>2. OrderInv /\ [Or!Next]_(Or!orderVars) => OrderInv'
  BY OrderStep
<1> QED
  BY <1>1, <1>2, PTL DEF Or!Spec

\* An order that is PROCESSING or OUT_FOR_DELIVERY has the session or the delivery that
\* brought it there, a refund is paid for an approved return of a delivered order, and an
\* order is given to a driver once for each time it became ready, unless calls on it
\* overlapped (orders.service.ts).
THEOREM OrdersFollow ==
  ASSUME Or!OrderAssumption
  PROVE  Or!Spec => [](Or!StatusHasRecord /\ Or!RefundsFollowApproval /\ Or!OneDeliveryPerPickup)
<1>1. OrderInv => Or!StatusHasRecord /\ Or!RefundsFollowApproval /\ Or!OneDeliveryPerPickup
  BY OrderInvImplies
<1> QED
  BY <1>1, OrdersHold, PTL

-----------------------------------------------------------------------------
(* The whole.                                                               *)

\* A behaviour of the whole is a behaviour of each part: the parts share no variable, and
\* a step of one leaves the others as they are.
LEMMA PartsBehave ==
  Spec => /\ Or!Spec /\ Ri!Spec /\ Su!Spec /\ Au!Spec /\ Fl!Spec /\ Cm!Spec
          /\ Rc!Spec /\ Pl!Spec /\ Si!Spec /\ Tos!Spec
<1>1. Init => /\ Or!Init /\ Ri!Init /\ Su!Init /\ Au!Init /\ Fl!Init /\ Cm!Init
              /\ Rc!Init /\ Pl!Init /\ Si!Init /\ Tos!Init
  BY DEF Init, Au!Init
<1>2. [Next]_vars => [Or!Next]_(Or!orderVars)
  BY DEF Next, vars, orders, Or!orderVars, Or!extras, Or!orderHist
<1>3. [Next]_vars => [Ri!Next]_(Ri!rideVars)
  BY DEF Next, vars, rides, Ri!rideVars, Ri!rideHist, Ri!referVars
<1>4. [Next]_vars => [Su!Next]_(Su!subVars)
  BY DEF Next, vars, subscriptions, Su!subVars, Su!ledger, Su!subHist
<1>5. [Next]_vars => [Au!Next]_(<<Au!pairVars, Au!codeVars>>)
  BY DEF Next, vars, login, tokens, onetime, Au!Next, Au!pairVars, Au!pairHist, Au!codeVars,
         Au!codeHist
<1>6. [Next]_vars => [Fl!Next]_(Fl!flowVars)
  BY DEF Next, vars, workflows, Fl!flowVars, Fl!flowHist
<1>7. [Next]_vars => [Cm!Next]_(Cm!seatVars)
  BY DEF Next, vars, commons, communities, Cm!seatVars, Cm!seatHist
<1>8. [Next]_vars => [Rc!Next]_(Rc!recordVars)
  BY DEF Next, vars, records, Rc!recordVars, Rc!recordHist
<1>9. [Next]_vars => [Pl!Next]_(Pl!vars)
  BY DEF Next, vars, extensions, plugins, Pl!vars
<1>10. [Next]_vars => [Si!Next]_(Si!vars)
  BY DEF Next, vars, extensions, models, Si!vars
<1>11. [Next]_vars => [Tos!Next]_(Tos!vars)
  BY DEF Next, vars, commons, service, Tos!vars
<1> QED
  BY <1>1, <1>2, <1>3, <1>4, <1>5, <1>6, <1>7, <1>8, <1>9, <1>10, <1>11, PTL
     DEF Spec, Or!Spec, Ri!Spec, Su!Spec, Au!Spec, Fl!Spec, Cm!Spec, Rc!Spec, Pl!Spec,
         Si!Spec, Tos!Spec

\* A behaviour follows one part.
LEMMA PartStays == Spec => [](part \in Parts)
<1>1. Init => part \in Parts
  BY DEF Init
<1>2. part \in Parts /\ [Next]_vars => (part \in Parts)'
  BY DEF Parts, Next, vars
<1> QED
  BY <1>1, <1>2, PTL DEF Spec

\* Every value keeps its type: rows, copies, requests and positions of the calls, whatever
\* part the behaviour follows.
THEOREM LifeCycleTypes == Spec => []TypeOK
<1>1. OrderInv => Or!TypeOK
  BY DEF OrderInv
<1>2. RideInv => Ri!TypeOK
  BY DEF RideInv
<1>3. Au!TypeOK => Au!TokenTypes /\ Au!CodeTypes
  BY DEF Au!TypeOK
<1>4. FlowInv => Fl!TypeOK
  BY DEF FlowInv
<1>5. SeatInv => Cm!TypeOK
  BY DEF SeatInv
<1>6. PluginInv => Pl!TypeOK
  BY DEF PluginInv
<1>7. SignedInv => Si!TypeOK
  BY DEF SignedInv
<1>8. TermsInv => Tos!TypeOK
  BY DEF TermsInv
<1>9. /\ Or!TypeOK /\ Ri!TypeOK /\ Su!TypeOK /\ Au!TokenTypes /\ Au!CodeTypes /\ Fl!TypeOK
       /\ Cm!TypeOK /\ Rc!TypeOK /\ Pl!TypeOK /\ Si!TypeOK /\ Tos!TypeOK
       /\ part \in Parts
       => TypeOK
  BY DEF TypeOK, Parts
<1> QED
  BY <1>1, <1>2, <1>3, <1>4, <1>5, <1>6, <1>7, <1>8, <1>9, PartsBehave, PartStays,
     LifeCyclesAssumption, OrdersHold, RideInvariance, SubscriptionTypes, LoginTypes,
     FlowInvariance, SeatInvariance, RowTypes, PluginInvariance, SignedInvariance,
     TermsInvariance, PTL

\* A status has the history it claims: of orders and their returns, workflows, removed rows,
\* plugins, signed models and accepted terms.
THEOREM StatusesAreEarned == Spec => []RecordsFollow
<1>1. /\ Or!StatusHasRecord /\ Or!RefundsFollowApproval /\ Or!OneDeliveryPerPickup
      /\ Fl!CompletedRanEverything /\ Fl!CompletedOnce /\ Fl!NotLeftRunning
      /\ Rc!EndedStaysEnded /\ Pl!StatusIsDecided /\ Pl!RunsItsCode
      /\ Si!RefusedWasReplaced /\ Tos!ActsHaveConsent /\ Tos!ConsentIsInformed
      => RecordsFollow
  BY DEF RecordsFollow
<1> QED
  BY <1>1, PartsBehave, LifeCyclesAssumption, OrdersFollow, CompletedWhole, CompletedOnceEach,
     RunningHasRunner, EndIsKept, RowIsTold, OwnCodeRuns, RefusedForReason,
     ActedWithConsent, AcceptedWhatWasShown, PTL

\* One at a time: a ride's driver, a user's subscription, a banned member's seat, the row of
\* a natural key, the offered version of a model, an acceptance of the terms.
THEOREM HolderIsAlone == Spec => []OneHolder
<1>1. /\ Ri!OneDriver /\ Su!OneSubscription /\ Su!DeletedPlanUnused /\ Cm!BannedStaysOut
      /\ Rc!OneLiveRow /\ Si!OfferedIsCurrent /\ Tos!AcceptedOnce
      => OneHolder
  BY DEF OneHolder
<1> QED
  BY <1>1, PartsBehave, LifeCyclesAssumption, DriverOnce, OneSubscriptionEach, BannedForGood,
     KeyHasOneRow, OfferedVersion, AcceptedOnceEach, PTL

\* Counters count what happened, or less by what is known to be lost: wrong PINs and codes,
\* members, the tallies of rows and plugins.
THEOREM CountersTell == Spec => []CountersExplained
<1>1. /\ Ri!WrongPinsBounded /\ Au!WrongTriesBounded /\ Cm!CountExplained /\ Rc!TallyExplained
      /\ Pl!RunsAreCounted
      => CountersExplained
  BY DEF CountersExplained
<1> QED
  BY <1>1, PartsBehave, LifeCyclesAssumption, PinsBounded, TriesBounded, MembersCounted,
     TalliesAreTold, RowIsTold, PTL

\* Money moves for a reason: months, fees and revenue of subscriptions, rewards of rides.
THEOREM ChargesAreDue == Spec => []ChargesHaveReason
<1>1. /\ Su!MonthsArePaid /\ Su!CancelledIsNotCharged /\ Su!RevenueHasFee
      /\ Ri!RewardsFollowCompletion
      => ChargesHaveReason
  BY DEF ChargesHaveReason
<1> QED
  BY <1>1, PartsBehave, LifeCyclesAssumption, FeesHaveReason, RewardsEarned, PTL

\* A refresh token is exchanged once and refused after its logout, a code is used once, and
\* a password changes only with a code.
THEOREM SecretsWorkOnce == Spec => []SecretsAdmitOnce
<1>1. Au!ExchangedOnce /\ Au!LoggedOutIsRefused /\ Au!CodeUsedOnce /\ Au!PasswordHasCode
      => SecretsAdmitOnce
  BY DEF SecretsAdmitOnce
<1> QED
  BY <1>1, PartsBehave, LifeCyclesAssumption, TokenExchangedOnce, LoggedOutRefused, CodeOnce,
     PasswordNeedsCode, PTL
=============================================================================
