------------------------------ MODULE Plugins ------------------------------
(***************************************************************************)
(* The plugin registry (plugin.service.ts), for one plugin name.           *)
(*                                                                         *)
(* A plugin is a row of ai_plugins, whose name is unique, and a compiled   *)
(* function in a map of the process.  Registering, setting the status,     *)
(* running and deleting each read the row, and what they save afterwards   *)
(* is the whole row as they read it: a run saves its count, and with it    *)
(* the status it read.  Calls interleave at every await.                   *)
(***************************************************************************)
EXTENDS Integers, FiniteSets

CONSTANTS
    Calls,      \* requests; the name of a registering call is its row's id and code
    Asks,       \* [Calls -> SUBSET AllAsks]
    NoRow,      \* no row, no compiled function
    MaxFaults   \* saves that fail

Statuses == {"active", "inactive", "error"}
AllAsks == {<<"register">>, <<"run">>, <<"delete">>} \cup ({"status"} \X Statuses)

Plugin == [id : Calls, status : Statuses, ran : Nat, erred : Nat]

PluginAssumption ==
    /\ MaxFaults \in Nat /\ NoRow \notin Calls \cup Plugin
    /\ Asks \in [Calls -> SUBSET AllAsks]

VARIABLES
    plugin,     \* the row, or NoRow
    registry,   \* the code compiled in the process, or NoRow
    user,       \* [Calls -> [at, ask, copy, fresh]]; fresh: nobody wrote since the copy was read
    decided,    \* history: the status last asked for and saved
    tally,      \* history: [ok, bad, twice], the saved outcomes of runs since registration
    removed,    \* history: rows that were deleted
    reverted,   \* history: a row was saved over by a call whose copy was not fresh
    ranOther,   \* history: runs whose function was not the code of the row they read
    crossed,    \* history: code was compiled, or about to be, while its row was deleted
    dropped     \* saves that failed so far

vars == <<plugin, registry, user, decided, tally, removed, reverted, ranOther, crossed, dropped>>

In(c, s) == user[c].at = s
Move(c, s) == user' = [user EXCEPT ![c].at = s]
NoTally == [ok |-> 0, bad |-> 0, twice |-> 0]

Init ==
    /\ plugin = NoRow /\ registry = NoRow
    /\ user = [c \in Calls |-> [at |-> "idle", ask |-> <<>>, copy |-> NoRow, fresh |-> TRUE]]
    /\ decided = "active" /\ tally = NoTally /\ removed = {}
    /\ reverted = FALSE /\ ranOther = {} /\ crossed = FALSE /\ dropped = 0

\* A write commits: the caller goes on, and every other copy is out of date.
Commit(c, s) ==
    user' = [d \in Calls |-> IF d = c THEN [user[c] EXCEPT !.at = s]
                             ELSE [user[d] EXCEPT !.fresh = FALSE]]

-----------------------------------------------------------------------------
(* Registration *)

\* register: an existing name is a conflict.
Register(c) ==
    /\ In(c, "idle") /\ <<"register">> \in Asks[c]
    /\ user' = [user EXCEPT ![c].at = IF plugin = NoRow THEN "new" ELSE "done",
                            ![c].ask = <<"register">>]
    /\ UNCHANGED <<plugin, registry, decided, tally, removed, reverted, ranOther, crossed, dropped>>

\* The insert; the unique name refuses a second row.
SaveNew(c) ==
    /\ In(c, "new")
    /\ IF plugin = NoRow
       THEN /\ Commit(c, "stored")
            /\ plugin' = [id |-> c, status |-> "active", ran |-> 0, erred |-> 0]
            /\ decided' = "active" /\ tally' = NoTally
       ELSE Move(c, "done") /\ UNCHANGED <<plugin, decided, tally>>
    /\ UNCHANGED <<registry, removed, reverted, ranOther, crossed, dropped>>

\* compilePlugin, once the insert has answered.
Compile(c) ==
    /\ In(c, "stored") /\ Move(c, "done")
    /\ registry' = c
    /\ UNCHANGED <<plugin, decided, tally, removed, reverted, ranOther, crossed, dropped>>

-----------------------------------------------------------------------------
(* Runs, status and deletion *)

\* findByName: no row is a 404, and a run needs an active one.
Refused(a) == plugin = NoRow \/ (a = <<"run">> /\ plugin.status # "active")
FindByName(c) ==
    /\ In(c, "idle")
    /\ \E a \in Asks[c] \ {<<"register">>} :
         user' = [user EXCEPT ![c] = [at |-> IF Refused(a) THEN "done" ELSE "read",
                                      ask |-> a, copy |-> plugin, fresh |-> TRUE]]
    /\ UNCHANGED <<plugin, registry, decided, tally, removed, reverted, ranOther, crossed, dropped>>

\* execute: the compiled function, or the row's code compiled now, returns, or
\* throws or runs out of time; the copy's counter goes up.
Execute(c) ==
    /\ In(c, "read") /\ user[c].ask = <<"run">>
    /\ LET code == IF registry = NoRow THEN user[c].copy.id ELSE registry IN
         /\ registry' = code
         /\ ranOther' = IF code = user[c].copy.id THEN ranOther ELSE ranOther \cup {c}
    /\ \/ user' = [user EXCEPT ![c].at = "ran", ![c].copy.ran = @ + 1]
       \/ user' = [user EXCEPT ![c].at = "threw", ![c].copy.erred = @ + 1]
    /\ UNCHANGED <<plugin, decided, tally, removed, reverted, crossed, dropped>>

\* setStatus: the copy takes the status; only "inactive" forgets the function.
SetStatus(c) ==
    LET to == user[c].ask[2] IN
    /\ In(c, "read") /\ user[c].ask[1] = "status"
    /\ user' = [user EXCEPT ![c].at = "set", ![c].copy.status = to]
    /\ registry' = IF to = "inactive" THEN NoRow ELSE registry
    /\ UNCHANGED <<plugin, decided, tally, removed, reverted, ranOther, crossed, dropped>>

\* The copy is written back whole, or inserted again when its row has gone; a
\* new row of that name refuses it, and the database may fail.
Saves(c) == ~(plugin # NoRow /\ plugin.id # user[c].copy.id)
Counted(t, s) ==
    CASE s = "ran"   -> [t EXCEPT !.ok = @ + 1]
      [] s = "threw" -> [t EXCEPT !.bad = @ + 1]
      [] s = "twice" -> [t EXCEPT !.bad = @ + 1, !.twice = @ + 1]
      [] OTHER       -> t

SavePlugin(c) ==
    /\ user[c].at \in {"ran", "threw", "twice", "set"} /\ Saves(c)
    /\ Commit(c, "done")
    /\ plugin' = user[c].copy
    /\ decided' = IF In(c, "set") THEN user[c].copy.status ELSE decided
    /\ tally' = Counted(tally, user[c].at)
    /\ reverted' = (reverted \/ ~user[c].fresh)
    /\ UNCHANGED <<registry, removed, ranOther, crossed, dropped>>

\* The save of a run that had succeeded fails: it lands in the same catch as a
\* run that threw, which counts the failure as well and saves again.
SaveFails(c) ==
    /\ user[c].at \in {"ran", "threw", "twice", "set"}
    /\ \/ ~Saves(c) /\ UNCHANGED dropped
       \/ dropped < MaxFaults /\ dropped' = dropped + 1
    /\ user' = IF In(c, "ran") THEN [user EXCEPT ![c].at = "twice", ![c].copy.erred = @ + 1]
               ELSE [user EXCEPT ![c].at = "done"]
    /\ UNCHANGED <<plugin, registry, decided, tally, removed, reverted, ranOther, crossed>>

\* delete: the function is forgotten, then the row is removed.
Forget(c) ==
    /\ In(c, "read") /\ user[c].ask = <<"delete">> /\ Move(c, "forgot")
    /\ registry' = NoRow
    /\ UNCHANGED <<plugin, decided, tally, removed, reverted, ranOther, crossed, dropped>>

\* Calls that will compile the code they hold.
Compiles(d) == In(d, "stored") \/ (In(d, "read") /\ user[d].ask = <<"run">>)

Remove(c) ==
    /\ In(c, "forgot")
    /\ IF plugin # NoRow /\ plugin.id = user[c].copy.id
       THEN /\ Commit(c, "done") /\ plugin' = NoRow /\ removed' = removed \cup {plugin.id}
       ELSE Move(c, "done") /\ UNCHANGED <<plugin, removed>>
    /\ crossed' = (crossed \/ registry # NoRow \/ \E d \in Calls : Compiles(d))
    /\ UNCHANGED <<registry, decided, tally, reverted, ranOther, dropped>>

-----------------------------------------------------------------------------
Step(c) ==
    \/ Register(c) \/ SaveNew(c) \/ Compile(c)
    \/ FindByName(c) \/ Execute(c) \/ SetStatus(c) \/ SavePlugin(c) \/ SaveFails(c)
    \/ Forget(c) \/ Remove(c)

Next == \E c \in Calls : Step(c)

Spec == Init /\ [][Next]_vars

-----------------------------------------------------------------------------
TypeOK ==
    /\ plugin \in Plugin \cup {NoRow}
    /\ registry \in Calls \cup {NoRow}
    /\ \A c \in Calls :
         /\ user[c].at \in {"idle", "new", "stored", "read", "ran", "threw", "twice", "set",
                            "forgot", "done"}
         /\ user[c].copy \in Plugin \cup {NoRow} /\ user[c].fresh \in BOOLEAN
    /\ decided \in Statuses
    /\ tally \in [ok : Nat, bad : Nat, twice : Nat]
    /\ removed \subseteq Calls /\ ranOther \subseteq Calls
    /\ reverted \in BOOLEAN /\ crossed \in BOOLEAN /\ dropped \in 0..MaxFaults

\* The row has the status an administrator last gave it and a deleted plugin
\* stays deleted, unless a call saved a copy that another had overtaken: a run
\* that began before the plugin was switched off switches it on again, and one
\* that began before it was deleted brings it back.
StatusIsDecided ==
    ~reverted /\ plugin # NoRow => plugin.status = decided /\ plugin.id \notin removed

\* The counters are the outcomes that runs reported, a run whose success could
\* not be saved counting both as one and as a failure, again unless a copy was
\* overtaken.
RunsAreCounted ==
    ~reverted /\ plugin # NoRow =>
      plugin.ran = tally.ok + tally.twice /\ plugin.erred = tally.bad

\* What runs is the code of the row that was read.  Only a call that compiles
\* its code while the row is being deleted leaves a function behind, which a
\* later plugin of that name then runs instead of its own.
RunsItsCode == ~crossed => ranOther = {}
=============================================================================
