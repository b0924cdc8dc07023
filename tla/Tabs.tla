--------------------------------- MODULE Tabs ---------------------------------
(***************************************************************************)
(* The credit tabs of a shop's customers (tabs.service.ts).                *)
(*                                                                         *)
(* A charge or a settlement reads the tab, computes the new balance, saves *)
(* the tab, and then inserts a row that tells of it; an update and a       *)
(* removal read and write the same row.  A save reads the row once more    *)
(* and updates the columns in which its copy differs.  Nothing is locked   *)
(* and the statements of a call are not one transaction, so a call can     *)
(* write back what another has changed, join its columns to those of       *)
(* another, or die before its row is inserted.                             *)
(***************************************************************************)
EXTENDS Integers, FiniteSets, Functions

CONSTANTS
    Calls,
    Menu,        \* the requests each call may make
    FirstLimits, \* credit limits a tab may be opened with; 0 is none
    MaxFaults    \* bound: inserts that fail, and crashes

Kinds    == {"charge", "settle", "limit", "status", "remove"}
Statuses == {"open", "suspended", "closed"}

TabAssumption ==
    /\ IsFiniteSet(Calls) /\ FirstLimits \subseteq Nat /\ MaxFaults \in Nat
    /\ \A c \in Calls : \A r \in Menu[c] :
          /\ r.kind \in Kinds
          /\ IF r.kind = "status" THEN r.to \in Statuses ELSE r.to \in Nat

VARIABLES
    tab,         \* the row: [balance, limit, status, gone]
    booked,      \* the sum of its rows in tab_transactions
    at, ask,     \* where each call is, and what it was asked
    copy,        \* the tab as each call has last read it
    new,         \* the tab as each call wants it saved
    decided,     \* history: the status last asked for
    removed,     \* history: a removal was confirmed
    overwritten, \* history: a call has saved a copy that was out of date
    crossed,     \* history: a row was updated after it had changed since the comparison
    lowered,     \* history: the limit was set below the balance
    untold,      \* history: what calls moved that died before their row
    faults

history == <<decided, removed, overwritten, crossed, lowered, untold>>
vars == <<tab, booked, at, ask, copy, new, history, faults>>

NoAsk == [kind |-> "remove", to |-> 0]

\* create.
Init ==
    /\ tab \in [balance : {0}, limit : FirstLimits, status : {"open"}, gone : {FALSE}]
    /\ booked = 0
    /\ at = [c \in Calls |-> "idle"] /\ ask = [c \in Calls |-> NoAsk]
    /\ copy = [c \in Calls |-> tab] /\ new = [c \in Calls |-> tab]
    /\ decided = "open" /\ removed = FALSE
    /\ overwritten = FALSE /\ crossed = FALSE /\ lowered = FALSE
    /\ untold = 0 /\ faults = 0

-----------------------------------------------------------------------------
\* findOne; a tab that is gone answers 404.
Begin(c, r) ==
    /\ at[c] = "idle" /\ ~tab.gone
    /\ ask' = [ask EXCEPT ![c] = r]
    /\ copy' = [copy EXCEPT ![c] = tab]
    /\ at' = [at EXCEPT ![c] = "save"]
    /\ UNCHANGED <<tab, booked, new, history, faults>>

Moves(c) == ask[c].kind \in {"charge", "settle"}

Delta(r) == CASE r.kind = "charge" -> r.to [] r.kind = "settle" -> -r.to [] OTHER -> 0

Allowed(t, r) ==
    /\ t.status = "open"
    /\ r.kind = "charge" => t.limit = 0 \/ t.balance + Delta(r) <= t.limit
    /\ r.kind = "settle" => t.balance + Delta(r) >= 0

\* The tab a call wants saved.  update looks neither at the status nor at the
\* balance.
Wanted(t, r) ==
    CASE r.kind = "limit"  -> [t EXCEPT !.limit = r.to]
      [] r.kind = "status" -> [t EXCEPT !.status = r.to]
      [] OTHER             -> [t EXCEPT !.balance = @ + Delta(r)]

\* save, first half: the row is read again, to be compared with what the call
\* wants, which was computed from its first reading.
Compare(c) ==
    /\ at[c] = "save" /\ ask[c].kind # "remove"
    /\ Moves(c) => Allowed(copy[c], ask[c])
    /\ new' = [new EXCEPT ![c] = Wanted(copy[c], ask[c])]
    /\ copy' = [copy EXCEPT ![c] = tab]
    /\ overwritten' = (overwritten \/ copy[c] # tab)
    /\ at' = [at EXCEPT ![c] = "update"]
    /\ UNCHANGED <<tab, booked, ask, decided, removed, crossed, lowered, untold, faults>>

\* The columns that differ are written.  An amount that was set is a number, and
\* the one read a string: they always differ.
Differs(c) ==
    [balance |-> Moves(c) \/ new[c].balance # copy[c].balance,
     limit   |-> ask[c].kind = "limit" \/ new[c].limit # copy[c].limit,
     status  |-> new[c].status # copy[c].status,
     gone    |-> new[c].gone # copy[c].gone]

\* save, second half: what others wrote before the comparison is undone, a removal
\* too; what they write after it stays in the columns the call leaves alone.
Write(c) ==
    /\ at[c] = "update"
    /\ tab' = LET d == Differs(c) IN
              [balance |-> IF d.balance THEN new[c].balance ELSE tab.balance,
               limit   |-> IF d.limit   THEN new[c].limit   ELSE tab.limit,
               status  |-> IF d.status  THEN new[c].status  ELSE tab.status,
               gone    |-> IF d.gone    THEN new[c].gone    ELSE tab.gone]
    /\ crossed' = (crossed \/ copy[c] # tab)
    /\ lowered' = (lowered \/ (ask[c].kind = "limit" /\ new[c].balance > new[c].limit))
    /\ decided' = IF ask[c].kind = "status" THEN ask[c].to ELSE decided
    /\ at' = [at EXCEPT ![c] = IF Moves(c) THEN "tell" ELSE "done"]
    /\ UNCHANGED <<booked, ask, copy, new, removed, overwritten, untold, faults>>

Refuse(c) ==
    /\ at[c] = "save" /\ Moves(c) /\ ~Allowed(copy[c], ask[c])
    /\ at' = [at EXCEPT ![c] = "done"]
    /\ UNCHANGED <<tab, booked, ask, copy, new, history, faults>>

Tell(c) ==
    /\ at[c] = "tell"
    /\ booked' = booked + Delta(ask[c])
    /\ at' = [at EXCEPT ![c] = "done"]
    /\ UNCHANGED <<tab, ask, copy, new, history, faults>>

\* A statement fails or the process dies; a balance that was written stays.
Fail(c) ==
    /\ at[c] \in {"save", "update", "tell"} /\ faults < MaxFaults /\ faults' = faults + 1
    /\ untold' = IF at[c] = "tell" THEN untold + Delta(ask[c]) ELSE untold
    /\ at' = [at EXCEPT ![c] = "done"]
    /\ UNCHANGED <<tab, booked, ask, copy, new, decided, removed, overwritten, crossed, lowered>>

\* softDelete sets one column, whatever the tab owes.
Remove(c) ==
    /\ at[c] = "save" /\ ask[c].kind = "remove"
    /\ tab' = [tab EXCEPT !.gone = TRUE]
    /\ removed' = TRUE
    /\ at' = [at EXCEPT ![c] = "done"]
    /\ UNCHANGED <<booked, ask, copy, new, decided, overwritten, crossed, lowered, untold, faults>>

Step(c) == Compare(c) \/ Write(c) \/ Refuse(c) \/ Tell(c) \/ Remove(c)
Next == \E c \in Calls : Step(c) \/ Fail(c) \/ \E r \in Menu[c] : Begin(c, r)
Spec == Init /\ [][Next]_vars

-----------------------------------------------------------------------------
(* Properties.                                                              *)

Tab == [balance : Nat, limit : Nat, status : Statuses, gone : BOOLEAN]

TypeOK ==
    /\ tab \in Tab /\ copy \in [Calls -> Tab] /\ new \in [Calls -> Tab]
    /\ booked \in Int /\ untold \in Int /\ faults \in 0..MaxFaults
    /\ at \in [Calls -> {"idle", "save", "update", "tell", "done"}]
    /\ DOMAIN ask = Calls /\ \A c \in Calls : ask[c] \in Menu[c] \cup {NoAsk}
    /\ decided \in Statuses /\ removed \in BOOLEAN
    /\ overwritten \in BOOLEAN /\ crossed \in BOOLEAN /\ lowered \in BOOLEAN

\* What calls have moved and have yet to tell.
ToTell == [c \in Calls |-> IF at[c] = "tell" THEN Delta(ask[c]) ELSE 0]

\* The balance is the sum of the rows that tell of it, those still to come and
\* those that failed, unless a call has saved a copy that was out of date.
BalanceExplained ==
    \/ overwritten \/ crossed
    \/ tab.balance = booked + untold + SumFunctionOnSet(ToTell, Calls)

\* A tab is within its limit although calls save copies that are out of date, for
\* a save brings back a balance together with the limit it was held against.  Only
\* setting the limit below the balance breaks it, and a row that another call
\* changed between a save's comparison and its update: then one's limit may meet
\* the other's balance.
WithinLimit == tab.limit > 0 => tab.balance <= tab.limit \/ lowered \/ crossed

\* A tab has the status last asked for and stays removed, unless a call saved a
\* copy from before: a charge in progress reopens and revives a tab.
StatusIsDecided ==
    overwritten \/ crossed \/ (tab.status = decided /\ (removed => tab.gone))
=============================================================================
