---------------------------- MODULE TermsOfService ----------------------------
(***************************************************************************)
(* Acceptance of the Q Points Terms of Service (qpoints-tos.service.ts)    *)
(* and the guard in front of the market (qpoints-tos.guard.ts).            *)
(*                                                                         *)
(* The current terms are constants of the build, so a deployment changes   *)
(* them; a request is served to its end by the build it began in.  A user  *)
(* is shown the terms, accepts the version shown, and then may use the     *)
(* market: any accepted version with the major number of the current one   *)
(* will do.  The check and the insert of an acceptance are two statements, *)
(* and so are the guard's query and the operation behind it.               *)
(***************************************************************************)
EXTENDS Naturals, FiniteSets

CONSTANTS
    Users, Calls,
    Texts,        \* what the terms hash to
    Versions,     \* <<major, minor>>
    NoTerms,
    MaxDeploys    \* bound: deployments

TermsAssumption ==
    Versions \subseteq Nat \X Nat /\ MaxDeploys \in Nat /\ NoTerms \notin Versions \X Texts

VARIABLES
    terms,     \* CURRENT_TOS_VERSION and CURRENT_TOS_HASH of the newest build
    rows,      \* qpoints_tos_acceptances: {<<user, version, text>>}
    screen,    \* the terms each user was last shown
    call,      \* each request: [at, user, mine], mine the terms of its build
    deploys,   \* deployments so far
    shown,     \* history: <<user, version, text>> shown
    edited,    \* history: versions deployed with more than one text
    published, \* history: terms deployed
    told,      \* history: <<user, version>> whose acceptance was confirmed
    acted      \* history: <<user, version>>, operations and the version their build asks for

vars == <<terms, rows, screen, call, deploys, shown, edited, published, told, acted>>

Terms == Versions \X Texts
Idle == [at |-> "idle", user |-> NoTerms, mine |-> NoTerms]

Init ==
    /\ terms \in Terms /\ published = {terms}
    /\ rows = {} /\ shown = {} /\ edited = {} /\ told = {} /\ acted = {} /\ deploys = 0
    /\ screen = [u \in Users |-> NoTerms]
    /\ call = [c \in Calls |-> Idle]

-----------------------------------------------------------------------------
\* A build with other terms, with or without another version.
Deploy(t) ==
    /\ deploys < MaxDeploys /\ deploys' = deploys + 1
    /\ terms' = t /\ published' = published \cup {t}
    /\ edited' = IF \E o \in published : o[1] = t[1] /\ o[2] # t[2]
                 THEN edited \cup {t[1]} ELSE edited
    /\ UNCHANGED <<rows, screen, call, shown, told, acted>>

\* GET tos, exempt from the guard.
Show(u) ==
    /\ screen' = [screen EXCEPT ![u] = terms]
    /\ shown' = shown \cup {<<u, terms[1], terms[2]>>}
    /\ UNCHANGED <<terms, rows, call, deploys, edited, published, told, acted>>

Begin(c, at, u) == call' = [call EXCEPT ![c] = [at |-> at, user |-> u, mine |-> terms]]
End(c) == call' = [call EXCEPT ![c] = Idle]
Accepted(u, v) == \E r \in rows : r[1] = u /\ r[2] = v

\* recordAcceptance: the version must be the current one and all three consents
\* given; who has accepted it already gets the old row.  Refusals change nothing.
Accept(c, u) ==
    /\ call[c].at = "idle" /\ screen[u] # NoTerms
    /\ screen[u][1] = terms[1]
    /\ IF Accepted(u, terms[1])
       THEN told' = told \cup {<<u, terms[1]>>} /\ UNCHANGED call
       ELSE Begin(c, "insert", u) /\ UNCHANGED told
    /\ UNCHANGED <<terms, rows, screen, deploys, shown, edited, published, acted>>

\* The insert stores the hash of the build's text, not of the text shown; the
\* unique index refuses a second row, and the request fails.
Insert(c) ==
    /\ call[c].at = "insert"
    /\ LET u == call[c].user
           t == call[c].mine
       IN IF Accepted(u, t[1])
          THEN UNCHANGED <<rows, told>>
          ELSE /\ rows' = rows \cup {<<u, t[1], t[2]>>}
               /\ told' = told \cup {<<u, t[1]>>}
    /\ End(c)
    /\ UNCHANGED <<terms, screen, deploys, shown, edited, published, acted>>

-----------------------------------------------------------------------------
\* hasAcceptedCurrentTos.
HasAcceptedCurrentTos(u) == \E r \in rows : r[1] = u /\ r[2][1] = terms[1][1]

\* The guard lets the request pass, or answers 403 and nothing happens.
Guard(c, u) ==
    /\ call[c].at = "idle"
    /\ HasAcceptedCurrentTos(u)
    /\ Begin(c, "act", u)
    /\ UNCHANGED <<terms, rows, screen, deploys, shown, edited, published, told, acted>>

\* The market's operation, whichever it is.
Act(c) ==
    /\ call[c].at = "act"
    /\ acted' = acted \cup {<<call[c].user, call[c].mine[1]>>}
    /\ End(c)
    /\ UNCHANGED <<terms, rows, screen, deploys, shown, edited, published, told>>

Next ==
    \/ \E t \in Terms : Deploy(t)
    \/ \E u \in Users : Show(u)
    \/ \E u \in Users, c \in Calls : Accept(c, u) \/ Guard(c, u)
    \/ \E c \in Calls : Insert(c) \/ Act(c)

Spec == Init /\ [][Next]_vars

-----------------------------------------------------------------------------
(* Properties.                                                              *)

TypeOK ==
    /\ terms \in Terms /\ published \subseteq Terms /\ edited \subseteq Versions
    /\ rows \subseteq Users \X Versions \X Texts /\ shown \subseteq Users \X Versions \X Texts
    /\ screen \in [Users -> Terms \cup {NoTerms}]
    /\ call \in [Calls -> {Idle} \cup [at : {"insert", "act"}, user : Users, mine : Terms]]
    /\ told \subseteq Users \X Versions /\ acted \subseteq Users \X Versions
    /\ deploys \in 0..MaxDeploys

\* Whoever used the market had accepted terms with the major version that the
\* build serving the request asks for, whatever was deployed meanwhile.
ActsHaveConsent ==
    \A a \in acted : \E r \in rows : r[1] = a[1] /\ r[2][1] = a[2][1]

\* What is on record as accepted was shown to that user, word for word unless the
\* text was edited under the same version: the service compares versions only,
\* although it says "Validates all required confirmations and the version/hash"
\* (qpoints-tos.service.ts:258).
ConsentIsInformed ==
    \A r \in rows : \/ r \in shown
                    \/ r[2] \in edited /\ \E x \in Texts : <<r[1], r[2], x>> \in shown

\* A confirmed acceptance is on record, and no user accepts one version twice,
\* also when two requests accept it together.
AcceptedOnce ==
    /\ \A a \in told : Accepted(a[1], a[2])
    /\ \A r, s \in rows : r[1] = s[1] /\ r[2] = s[2] => r = s
=============================================================================
