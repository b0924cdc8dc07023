---------------------------- MODULE Authentication ----------------------------
(***************************************************************************)
(* Logins: the tokens they are given (auth.service.ts, jwt.strategy.ts,    *)
(* token-blacklist.service.ts) and the one-time codes sent to a phone      *)
(* number (users.service.ts, auth.service.ts).                             *)
(*                                                                         *)
(* A login or a refresh issues a pair of an access and a refresh token     *)
(* that share one token id; the access token expires first.  A refresh     *)
(* checks the blacklist, reads the user, puts the id on the blacklist and  *)
(* issues the next pair, each in a request of its own.                     *)
(*                                                                         *)
(* A try of a code, which verifies the phone or resets the password, reads *)
(* the newest code, checks it and then updates single columns of its row,  *)
(* the count of wrong tries with the value it read plus one.               *)
(***************************************************************************)
EXTENDS Integers, FiniteSets, Sequences

CONSTANTS
    Pairs,       \* pairs of tokens that may be issued
    NoPair,
    Visits,      \* requests with a token served at the same time
    Tries,       \* requests with a code served at the same time
    MaxCodes,    \* bound: codes sent
    MaxAttempts, \* wrong tries a code allows, 5 in the code
    MaxWrong     \* bound: wrong tries after which none is made

AuthAssumption ==
    /\ NoPair \notin Pairs
    /\ MaxCodes \in Nat /\ MaxAttempts \in Nat \ {0} /\ MaxWrong \in Nat

VARIABLES
    age,       \* of each pair: "none", "both" tokens live, "refresh" only, or "over"
    listed,    \* until when its id is on the blacklist: "no", "access", "refresh"
    visit,     \* where each request is
    shown,     \* the pair whose token it shows
    exchanged, \* refreshes completed with each pair (history)
    together,  \* pairs two refreshes have held at once (history)
    late,      \* refreshes let in by a pair that had been logged out (history)
    out        \* pairs logged out (history)

pairHist == <<exchanged, together, late, out>>
pairVars == <<age, listed, visit, shown, pairHist>>

TokenInit ==
    /\ age = [p \in Pairs |-> "none"] /\ listed = [p \in Pairs |-> "no"]
    /\ visit = [v \in Visits |-> "idle"] /\ shown = [v \in Visits |-> NoPair]
    /\ exchanged = [p \in Pairs |-> 0] /\ together = {} /\ late = {} /\ out = {}

Refreshable(p) == age[p] \in {"both", "refresh"}
Listed(p) == listed[p] # "no"
Holding(p) == {v \in Visits : shown[v] = p /\ visit[v] \in {"list", "issue"}}

Issue(p) == age[p] = "none" /\ age' = [age EXCEPT ![p] = "both"]
Leave(v) == visit' = [visit EXCEPT ![v] = "idle"] /\ shown' = [shown EXCEPT ![v] = NoPair]
Step(v, where) == visit' = [visit EXCEPT ![v] = where]

\* A login with the right password of a verified user.
Login ==
    /\ \E p \in Pairs : Issue(p)
    /\ UNCHANGED <<listed, visit, shown, pairHist>>

\* A token runs out; so does the entry of the blacklist made for as long.
Expire(p) ==
    /\ age[p] \in {"both", "refresh"}
    /\ age' = [age EXCEPT ![p] = IF @ = "both" THEN "refresh" ELSE "over"]
    /\ listed' = [listed EXCEPT ![p] =
                     IF @ = (IF age[p] = "both" THEN "access" ELSE "refresh") THEN "no" ELSE @]
    /\ UNCHANGED <<visit, shown, pairHist>>

-----------------------------------------------------------------------------
\* The signature and the blacklist; a refused token changes nothing.
CheckRefresh(v, p) ==
    /\ visit[v] = "idle" /\ Refreshable(p) /\ ~Listed(p)
    /\ visit' = [visit EXCEPT ![v] = "list"] /\ shown' = [shown EXCEPT ![v] = p]
    /\ together' = IF Holding(p) # {} THEN together \cup {p} ELSE together
    /\ late' = IF p \in out /\ age[p] = "both" THEN late \cup {p} ELSE late
    /\ UNCHANGED <<age, listed, exchanged, out>>

\* The id is listed for what is left of the refresh token, unless that has run out;
\* with the user gone or Redis away the call ends.
ListId(v) ==
    /\ visit[v] = "list"
    /\ \/ /\ listed' = IF Refreshable(shown[v]) THEN [listed EXCEPT ![shown[v]] = "refresh"]
                       ELSE listed
          /\ Step(v, "issue") /\ UNCHANGED shown
       \/ Leave(v) /\ UNCHANGED listed
    /\ UNCHANGED <<age, pairHist>>

\* Once all of Pairs are issued the next ones are not followed any more; signing may
\* fail after the old id was listed.
IssueNext(v) ==
    /\ visit[v] = "issue"
    /\ \/ /\ \/ \E p \in Pairs : Issue(p)
             \/ (\E p \in Pairs : age[p] = "none") = FALSE /\ UNCHANGED age
          /\ exchanged' = [exchanged EXCEPT ![shown[v]] = @ + 1]
       \/ UNCHANGED <<age, exchanged>>
    /\ Leave(v)
    /\ UNCHANGED <<listed, together, late, out>>

-----------------------------------------------------------------------------
\* The guard lets the access token in, as it is neither expired nor listed.
Enter(v, p) ==
    /\ visit[v] = "idle" /\ age[p] = "both" /\ ~Listed(p)
    /\ visit' = [visit EXCEPT ![v] = "out"] /\ shown' = [shown EXCEPT ![v] = p]
    /\ UNCHANGED <<age, listed, pairHist>>

\* The id is listed for what is left of the access token: SET shortens an entry a
\* refresh has made meanwhile, and an expired token lists nothing.
Logout(v) ==
    /\ visit[v] = "out"
    /\ IF age[shown[v]] = "both"
       THEN /\ listed' = [listed EXCEPT ![shown[v]] = "access"]
            /\ out' = out \cup {shown[v]}
       ELSE UNCHANGED <<listed, out>>
    /\ Leave(v)
    /\ UNCHANGED <<age, exchanged, together, late>>

TokenNext ==
    \/ Login
    \/ \E p \in Pairs : Expire(p)
    \/ \E v \in Visits : \/ \E p \in Pairs : CheckRefresh(v, p) \/ Enter(v, p)
                         \/ ListId(v) \/ IssueNext(v) \/ Logout(v)

-----------------------------------------------------------------------------
(* One-time codes.                                                          *)

Kinds == {"sms", "reset"}

VARIABLES
    codes,      \* the rows in the order of their creation
    try,        \* where each request is
    code,       \* the code it has read, as a number in codes
    attempt,    \* the count of wrong tries it has read with it
    resets,     \* whether it resets the password
    proved,     \* whether the phone is verified
    uses,       \* tries that have used each code (history)
    wrongTries, \* wrong tries of it (history)
    lost,       \* counts written that did not rise (history)
    shared,     \* codes two tries were using at once (history)
    changed     \* codes that have changed the password (history)

codeHist == <<uses, wrongTries, lost, shared, changed>>
codeVars == <<codes, try, code, attempt, resets, proved, codeHist>>

Numbers == 1..MaxCodes

CodeInit ==
    /\ codes = <<>> /\ proved = FALSE
    /\ try = [t \in Tries |-> "idle"] /\ code = [t \in Tries |-> 0]
    /\ attempt = [t \in Tries |-> 0] /\ resets = [t \in Tries |-> FALSE]
    /\ uses = [n \in Numbers |-> 0] /\ wrongTries = [n \in Numbers |-> 0]
    /\ lost = [n \in Numbers |-> 0] /\ shared = {} /\ changed = {}

Goto(t, where) == try' = [try EXCEPT ![t] = where]
Forget(t) ==
    /\ Goto(t, "idle")
    /\ code' = [code EXCEPT ![t] = 0] /\ attempt' = [attempt EXCEPT ![t] = 0]
    /\ resets' = [resets EXCEPT ![t] = FALSE]

\* register, resendOtp and forgotPassword: a new code; the older ones stay.
SendCode(kind) ==
    /\ Len(codes) < MaxCodes
    /\ codes' = Append(codes, [kind |-> kind, used |-> FALSE, over |-> FALSE, attempts |-> 0])
    /\ UNCHANGED <<try, code, attempt, resets, proved, codeHist>>

ExpireCode(n) ==
    /\ ~codes[n].over
    /\ codes' = [codes EXCEPT ![n].over = TRUE]
    /\ UNCHANGED <<try, code, attempt, resets, proved, codeHist>>

-----------------------------------------------------------------------------
\* The newest code of the number: the phone is verified with one of any kind.
Newest(reset) ==
    LET fitting == {n \in DOMAIN codes : reset => codes[n].kind = "reset"} IN
    {n \in fitting : \A k \in fitting : k <= n}

Usable(c) == ~c.used /\ ~c.over /\ c.attempts < MaxAttempts

Using(n) == {t \in Tries : code[t] = n /\ try[t] = "use"}

\* The checks of verifyOtp and resetPassword; a try that is refused changes nothing.
ReadCode(t, reset, right) ==
    /\ try[t] = "idle"
    /\ \E n \in Newest(reset) :
         /\ Usable(codes[n]) /\ (right \/ wrongTries[n] < MaxWrong)
         /\ code' = [code EXCEPT ![t] = n]
         /\ attempt' = [attempt EXCEPT ![t] = codes[n].attempts]
         /\ shared' = IF right /\ Using(n) # {} THEN shared \cup {n} ELSE shared
    /\ resets' = [resets EXCEPT ![t] = reset]
    /\ Goto(t, IF right THEN "use" ELSE "count")
    /\ UNCHANGED <<codes, proved, uses, wrongTries, lost, changed>>

CountWrong(t) ==
    /\ try[t] = "count"
    /\ codes' = [codes EXCEPT ![code[t]].attempts = attempt[t] + 1]
    /\ wrongTries' = [wrongTries EXCEPT ![code[t]] = @ + 1]
    /\ lost' = IF attempt[t] + 1 <= codes[code[t]].attempts
               THEN [lost EXCEPT ![code[t]] = @ + 1] ELSE lost
    /\ Forget(t)
    /\ UNCHANGED <<proved, uses, shared, changed>>

\* Mutant: the password is changed before the code is used up.
ChangeFirst(t) ==
    /\ try[t] = "use"
    /\ changed' = IF resets[t] THEN changed \cup {code[t]} ELSE changed
    /\ Goto(t, "effect")
    /\ UNCHANGED <<codes, code, attempt, resets, proved, uses, wrongTries, lost, shared>>

UseCode(t) ==
    /\ try[t] = "use"
    /\ codes' = [codes EXCEPT ![code[t]].used = TRUE]
    /\ uses' = [uses EXCEPT ![code[t]] = @ + 1]
    /\ Goto(t, "effect")
    /\ UNCHANGED <<code, attempt, resets, proved, wrongTries, lost, shared, changed>>

\* The user row in a statement of its own.
Effect(t) ==
    /\ try[t] = "effect"
    /\ IF resets[t]
       THEN changed' = changed \cup {code[t]} /\ UNCHANGED proved
       ELSE proved' = TRUE /\ UNCHANGED changed
    /\ Forget(t)
    /\ UNCHANGED <<codes, uses, wrongTries, lost, shared>>

\* A statement fails or the process dies: a used code may have had no effect.
Die(t) ==
    /\ try[t] # "idle"
    /\ Forget(t)
    /\ UNCHANGED <<codes, proved, codeHist>>

CodeNext ==
    \/ \E kind \in Kinds : SendCode(kind)
    \/ \E n \in DOMAIN codes : ExpireCode(n)
    \/ \E t \in Tries : \/ \E reset, right \in BOOLEAN : ReadCode(t, reset, right)
                        \/ CountWrong(t) \/ UseCode(t) \/ Effect(t) \/ Die(t)

-----------------------------------------------------------------------------
\* Tokens and codes are of different tables, and no request has to do with both.
Init == TokenInit /\ CodeInit
Next ==
    \/ TokenNext /\ UNCHANGED codeVars
    \/ CodeNext /\ UNCHANGED pairVars
Spec == Init /\ [][Next]_<<pairVars, codeVars>>

-----------------------------------------------------------------------------
(* Properties.                                                              *)

TokenTypes ==
    /\ age \in [Pairs -> {"none", "both", "refresh", "over"}]
    /\ listed \in [Pairs -> {"no", "access", "refresh"}]
    /\ visit \in [Visits -> {"idle", "list", "issue", "out"}]
    /\ shown \in [Visits -> Pairs \cup {NoPair}]
    /\ exchanged \in [Pairs -> Nat]
    /\ together \subseteq Pairs /\ late \subseteq Pairs /\ out \subseteq Pairs

CodeTypes ==
    /\ codes \in Seq([kind : Kinds, used : BOOLEAN, over : BOOLEAN, attempts : 0..MaxAttempts])
    /\ Len(codes) <= MaxCodes
    /\ try \in [Tries -> {"idle", "count", "use", "effect"}]
    /\ code \in [Tries -> 0..MaxCodes] /\ attempt \in [Tries -> 0..MaxAttempts]
    /\ resets \in [Tries -> BOOLEAN] /\ proved \in BOOLEAN
    /\ uses \in [Numbers -> Nat]
    /\ wrongTries \in [Numbers -> Nat] /\ lost \in [Numbers -> Nat]
    /\ shared \subseteq Numbers /\ changed \subseteq Numbers

TypeOK == TokenTypes /\ CodeTypes

\* A refresh token is exchanged once, unless two refreshes held it at once or its
\* owner logged out with the pair, which shortens the entry of the blacklist.
ExchangedOnce ==
    \A p \in Pairs : exchanged[p] <= 1 \/ p \in together \/ p \in out

\* Once a pair is logged out no refresh is let in by it as long as its access token
\* lives.
LoggedOutIsRefused == late = {}

\* A code allows no more than its number of wrong tries, and as many again for each
\* count that was lost because two tries had read the same one.
WrongTriesBounded == \A n \in Numbers : wrongTries[n] <= MaxAttempts * (1 + lost[n])

\* A code is used once unless two tries were using it at the same moment.
CodeUsedOnce == \A n \in Numbers : uses[n] <= 1 \/ n \in shared

\* A code that has changed the password is used up and had been sent for that.
PasswordHasCode == \A n \in changed : codes[n].used /\ codes[n].kind = "reset"
=============================================================================
