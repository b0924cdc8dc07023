--------------------------------- MODULE Rides ---------------------------------
(***************************************************************************)
(* One ride and one referral (rides.service.ts).  Every call reads the     *)
(* ride, checks and changes its copy and saves the copy: TypeORM writes    *)
(* back every column that differs from the row, so a copy that has become  *)
(* stale undoes what others wrote.  Different rides share no row.          *)
(*                                                                         *)
(* The two wrong-PIN counters live in one metadata column of the ride.     *)
(***************************************************************************)
EXTENDS Integers, FiniteSets

CONSTANTS Slots,       \* requests served at the same time
          Drivers, NoDriver,
          Menus,       \* sets of requests; a behaviour makes those of one of them
          MaxTries,    \* wrong PINs allowed, 5 in the code
          MaxWrong,    \* bound: wrong PINs after which no PIN call starts
          MaxStale,    \* bound: stale saves after which no call starts
          MaxRewards   \* bound: completions of the referral

Sides  == {"rider", "driver"}
Status == {"none", "REQUESTED", "DRIVER_ASSIGNED", "DRIVER_ARRIVED", "RIDE_STARTED",
           "RIDE_COMPLETED", "CANCELLED"}

Wishes ==
         [op : {"assign"}, driver : Drivers]
    \cup [op : {"status"}, to : Status \ {"none"}]
    \cup [op : {"pin"}, side : Sides, right : BOOLEAN]
    \cup [op : {"wait"}, odd : BOOLEAN]
    \cup [op : {"refer"}]

RideAssumption ==
    /\ NoDriver \notin Drivers /\ \A m \in Menus : m \subseteq Wishes
    /\ IsFiniteSet(Slots)
    /\ MaxTries \in Nat \ {0} /\ MaxWrong \in Nat /\ MaxStale \in Nat /\ MaxRewards \in Nat

VARIABLES
    ride,        \* the row of the ride
    wait,        \* the row of its wait time: "none", "open" or "ended"
    referral,    \* status of the referral
    offered,     \* the requests of this behaviour
    slot,        \* where each request is
    wish,        \* what it asks
    seen,        \* the ride it has read
    stale,       \* saves of a copy the row had left behind (history)
    wrong,       \* wrong PINs compared since the last right one (history)
    assigned,    \* assignments that succeeded (history)
    completions, \* saves of the referral as COMPLETED (history)
    rewards      \* deposits made to each party of the referral (history)

rideHist == <<stale, wrong, assigned>>
referVars == <<referral, completions, rewards>>
rideVars == <<offered, ride, wait, slot, wish, seen, rideHist, referVars>>

NoRide == [status |-> "none", driver |-> NoDriver, tries |-> [s \in Sides |-> 0], verified |-> {}]

Idle == [op |-> "refer"]

Init ==
    /\ ride = NoRide /\ wait = "none" /\ referral = "PENDING"
    /\ offered \in Menus
    /\ slot = [s \in Slots |-> "idle"]
    /\ wish = [s \in Slots |-> Idle]
    /\ seen = [s \in Slots |-> NoRide]
    /\ stale = 0 /\ wrong = [s \in Sides |-> 0] /\ assigned = 0
    /\ completions = 0 /\ rewards = [p \in {"referrer", "referee"} |-> 0]

Goto(s, where) == slot' = [slot EXCEPT ![s] = where]

\* A request that ends forgets what it asked and read.
Return(s) ==
    /\ Goto(s, "idle")
    /\ wish' = [wish EXCEPT ![s] = Idle]
    /\ seen' = [seen EXCEPT ![s] = NoRide]

\* Distance and price come from other services, which may fail before the insert.
CreateRide ==
    /\ ride.status = "none"
    /\ ride' = [NoRide EXCEPT !.status = "REQUESTED"]
    /\ UNCHANGED <<offered, wait, slot, wish, seen, rideHist, referVars>>

StartWaitTime ==
    /\ ride.status # "none" /\ wait = "none"
    /\ wait' = "open"
    /\ UNCHANGED <<offered, ride, slot, wish, seen, rideHist, referVars>>

Call(s) ==
    /\ slot[s] = "idle" /\ stale < MaxStale
    /\ \E w \in offered :
         /\ IF w.op = "refer" THEN completions < MaxRewards ELSE ride.status # "none"
         /\ w.op = "wait" => wait # "none"
         /\ w.op = "pin" => wrong[w.side] < MaxWrong
         /\ wish' = [wish EXCEPT ![s] = w]
         /\ Goto(s, IF w.op = "refer" THEN "refer" ELSE "read")
    /\ UNCHANGED <<offered, ride, wait, seen, rideHist, referVars>>

-----------------------------------------------------------------------------
(* Calls on the ride.                                                       *)

Edges ==
    {<<"REQUESTED", "DRIVER_ASSIGNED">>, <<"REQUESTED", "CANCELLED">>,
     <<"DRIVER_ASSIGNED", "DRIVER_ARRIVED">>, <<"DRIVER_ASSIGNED", "CANCELLED">>,
     <<"DRIVER_ARRIVED", "RIDE_STARTED">>, <<"DRIVER_ARRIVED", "CANCELLED">>,
     <<"RIDE_STARTED", "RIDE_COMPLETED">>}

\* Mutant: the limit on tries is not checked.
AllowedAlways(w, r) ==
    CASE w.op = "assign" -> r.status = "REQUESTED"
      [] w.op = "status" -> <<r.status, w.to>> \in Edges
      [] OTHER           -> TRUE

Allowed(w, r) ==
    CASE w.op = "assign" -> r.status = "REQUESTED"
      [] w.op = "status" -> <<r.status, w.to>> \in Edges
      [] w.op = "pin"    -> r.tries[w.side] < MaxTries
      [] w.op = "wait"   -> TRUE

\* A status changes whether or not a driver was assigned or a PIN verified.
Changed(w, r) ==
    CASE w.op = "assign" -> [r EXCEPT !.driver = w.driver, !.status = "DRIVER_ASSIGNED"]
      [] w.op = "status" -> [r EXCEPT !.status = w.to]
      [] w.op = "pin"    -> IF w.right
                            THEN [r EXCEPT !.verified = @ \cup {w.side}, !.tries[w.side] = 0]
                            ELSE [r EXCEPT !.tries[w.side] = @ + 1]
      [] w.op = "wait"   -> r

\* The driver returns decimals as strings and + joins them: the final fare
\* "12.50" + "0.00" and the charge "0.00" + "0.5" of an odd minute are no numbers,
\* so the database refuses the save; the charge of an even minute only adds digits
\* beyond the cents.
NotANumber(w) == (w.op = "status" /\ w.to = "RIDE_COMPLETED") \/ (w.op = "wait" /\ w.odd)

Read(s) ==
    /\ slot[s] = "read"
    /\ IF Allowed(wish[s], ride)
       THEN seen' = [seen EXCEPT ![s] = ride] /\ Goto(s, "save") /\ UNCHANGED wish
       ELSE Return(s)
    /\ UNCHANGED <<offered, ride, wait, rideHist, referVars>>

Save(s) ==
    LET w == wish[s] IN
    /\ slot[s] = "save"
    /\ IF NotANumber(w)
       THEN UNCHANGED <<ride, rideHist>>
       ELSE /\ ride' = Changed(w, seen[s])
            /\ stale' = IF ride = seen[s] THEN stale ELSE stale + 1
            /\ wrong' = IF w.op = "pin"
                        THEN [wrong EXCEPT ![w.side] = IF w.right THEN 0 ELSE @ + 1] ELSE wrong
            /\ assigned' = IF w.op = "assign" THEN assigned + 1 ELSE assigned
    /\ IF w.op = "wait" /\ ~w.odd
       THEN Goto(s, "ended") /\ UNCHANGED <<wish, seen>>
       ELSE Return(s)
    /\ UNCHANGED <<offered, wait, referVars>>

\* A wait that has ended may be ended, and charged, again.
SaveWait(s) ==
    /\ slot[s] = "ended"
    /\ wait' = "ended"
    /\ Return(s)
    /\ UNCHANGED <<offered, ride, rideHist, referVars>>

-----------------------------------------------------------------------------
(* The referral: saved as COMPLETED, then two deposits.                     *)

CompleteReferral(s) ==
    /\ slot[s] = "refer"
    /\ referral' = "COMPLETED" /\ completions' = completions + 1
    /\ Goto(s, "referrer")
    /\ UNCHANGED <<offered, ride, wait, wish, seen, rideHist, rewards>>

\* The deposit of QPAccounts pays, is skipped without an account, or throws, which
\* ends the call: the referral stays COMPLETED and nothing pays it later.
Reward(s) ==
    /\ slot[s] \in {"referrer", "referee"}
    /\ LET next == IF slot[s] = "referrer" THEN "referee" ELSE "idle" IN
       \/ rewards' = [rewards EXCEPT ![slot[s]] = @ + 1] /\ Goto(s, next)
       \/ Goto(s, next) /\ UNCHANGED rewards
       \/ Goto(s, "idle") /\ UNCHANGED rewards
    /\ UNCHANGED <<offered, ride, wait, wish, seen, rideHist, referral, completions>>

-----------------------------------------------------------------------------

Next ==
    \/ CreateRide
    \/ StartWaitTime
    \/ \E s \in Slots : \/ Call(s) \/ Read(s) \/ Save(s) \/ SaveWait(s)
                        \/ CompleteReferral(s) \/ Reward(s)

Spec == Init /\ [][Next]_rideVars

-----------------------------------------------------------------------------
(* Properties.                                                              *)

Rows == [status : Status \ {"RIDE_COMPLETED"}, driver : Drivers \cup {NoDriver},
         tries : [Sides -> 0..MaxTries], verified : SUBSET Sides]

TypeOK ==
    /\ ride \in Rows
    /\ wait \in {"none", "open", "ended"} /\ offered \in Menus
    /\ referral \in {"PENDING", "COMPLETED"}
    /\ slot \in [Slots -> {"idle", "read", "save", "ended", "refer", "referrer", "referee"}]
    /\ wish \in [Slots -> Wishes]
    /\ seen \in [Slots -> Rows]
    /\ stale \in Nat /\ wrong \in [Sides -> Nat] /\ assigned \in Nat
    /\ completions \in Nat /\ rewards \in [{"referrer", "referee"} -> Nat]

\* The limit on wrong PINs may be passed only through stale saves, and each of
\* them buys at most one more full round of tries.
WrongPinsBounded ==
    \A s \in Sides : wrong[s] <= MaxTries * (1 + stale)

\* A ride is given to one driver: a second assignment can succeed only when it or
\* another call has saved a stale copy.
OneDriver == assigned <= 1 + stale

\* Neither party of a referral is rewarded more often than the referral was saved
\* as COMPLETED, whatever calls repeat or are cut off.
RewardsFollowCompletion ==
    \A p \in DOMAIN rewards : rewards[p] <= completions
=============================================================================
