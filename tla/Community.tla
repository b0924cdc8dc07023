------------------------------- MODULE Community -------------------------------
(***************************************************************************)
(* The members of one community (community.service.ts).  A membership row  *)
(* is unique for its user, also after it was soft-deleted, and no read     *)
(* finds it then; the member count is a column of the community that a     *)
(* statement of its own adds to after each change.                         *)
(***************************************************************************)
EXTENDS Integers, FiniteSets

CONSTANTS Users,    \* users other than the owner
          Members,  \* requests, each made once
          MaxStops  \* bound: requests cut off between two statements

CommunityAssumption ==
    MaxStops \in Nat /\ Users # {} /\ IsFiniteSet(Users) /\ IsFiniteSet(Members)

Asks == [op : {"join", "leave", "ban"}, user : Users]

VARIABLES
    seat,     \* each user's membership: "none", "active" or "banned"
    gone,     \* users whose row is soft-deleted
    count,    \* memberCount of the community
    place,    \* where each request is
    asks,     \* what it asks
    repeats,  \* memberships ended that were not active (history)
    bannedOnce, \* users that have been banned (history)
    stopped   \* requests cut off (history)

seatHist == <<repeats, bannedOnce, stopped>>
seatVars == <<seat, gone, count, place, asks, seatHist>>

Init ==
    /\ seat = [u \in Users |-> "none"] /\ gone = {}
    /\ count = 1
    /\ place = [m \in Members |-> "idle"]
    /\ asks = [m \in Members |-> CHOOSE a \in Asks : TRUE]
    /\ repeats = 0 /\ bannedOnce = {} /\ stopped = {}

Ended == {"idle", "done", "refused", "stopped"}
Go(m, where) == place' = [place EXCEPT ![m] = where]
User(m) == asks[m].user

Found(u)  == seat[u] # "none" /\ u \notin gone
Active    == {u \in Users : seat[u] = "active" /\ u \notin gone}

\* Joining is refused to members and to the banned; leaving and banning look for
\* the row alone, so one who is banned may leave or be banned again.
Ask(m) ==
    /\ place[m] = "idle"
    /\ \E a \in Asks :
         /\ asks' = [asks EXCEPT ![m] = a]
         /\ Go(m, IF (a.op = "join") = Found(a.user) THEN "refused" ELSE "write")
    /\ UNCHANGED <<seat, gone, count, seatHist>>

\* Mutant: a new row is inserted beside the soft-deleted one.
InsertBeside(m) ==
    /\ place[m] = "write" /\ asks[m].op = "join"
    /\ IF ~Found(User(m))
       THEN /\ seat' = [seat EXCEPT ![User(m)] = "active"] /\ gone' = gone \ {User(m)}
            /\ Go(m, "count")
       ELSE Go(m, "refused") /\ UNCHANGED <<seat, gone>>
    /\ UNCHANGED <<count, asks, seatHist>>

\* The unique index refuses a second row, that of a user who has left as well.
InsertMembership(m) ==
    /\ place[m] = "write" /\ asks[m].op = "join"
    /\ IF seat[User(m)] = "none"
       THEN seat' = [seat EXCEPT ![User(m)] = "active"] /\ Go(m, "count")
       ELSE Go(m, "refused") /\ UNCHANGED seat
    /\ UNCHANGED <<gone, count, asks, seatHist>>

EndMembership(m) ==
    LET u == User(m) IN
    /\ place[m] = "write" /\ asks[m].op \in {"leave", "ban"}
    /\ IF asks[m].op = "leave"
       THEN gone' = gone \cup {u} /\ UNCHANGED <<seat, bannedOnce>>
       ELSE /\ seat' = [seat EXCEPT ![u] = "banned"]
            /\ bannedOnce' = bannedOnce \cup {u}
            /\ UNCHANGED gone
    /\ repeats' = IF u \in Active THEN repeats ELSE repeats + 1
    /\ Go(m, "count")
    /\ UNCHANGED <<count, asks, stopped>>

\* Mutant: a ban leaves the count as it is.
CountMovesOnly(m) ==
    /\ place[m] = "count"
    /\ count' = CASE asks[m].op = "join"  -> count + 1
                  [] asks[m].op = "leave" -> count - 1
                  [] asks[m].op = "ban"   -> count
    /\ Go(m, "done")
    /\ UNCHANGED <<seat, gone, asks, seatHist>>

\* increment and decrement of the column.
CountMember(m) ==
    /\ place[m] = "count"
    /\ count' = IF asks[m].op = "join" THEN count + 1 ELSE count - 1
    /\ Go(m, "done")
    /\ UNCHANGED <<seat, gone, asks, seatHist>>

Stop(m) ==
    /\ place[m] \notin Ended /\ Cardinality(stopped) < MaxStops
    /\ stopped' = stopped \cup {m} /\ Go(m, "stopped")
    /\ UNCHANGED <<seat, gone, count, asks, repeats, bannedOnce>>

Next == \E m \in Members : \/ Ask(m) \/ InsertMembership(m) \/ EndMembership(m)
                           \/ CountMember(m) \/ Stop(m)

Spec == Init /\ [][Next]_seatVars

-----------------------------------------------------------------------------
(* Properties.                                                              *)

TypeOK ==
    /\ seat \in [Users -> {"none", "active", "banned"}] /\ gone \subseteq Users
    /\ count \in Int
    /\ place \in [Members -> Ended \cup {"write", "count"}] /\ asks \in [Members -> Asks]
    /\ repeats \in Nat /\ bannedOnce \subseteq Users /\ stopped \subseteq Members

\* With no request under way or cut off, the member count is the owner and the
\* active members, short by one for every time somebody who was no longer active
\* left or was banned.
CountExplained ==
    (\A m \in Members : place[m] \in Ended \ {"stopped"}) =>
        count = 1 + Cardinality(Active) - repeats

\* A user who has been banned is never an active member again, not by leaving and
\* joining either: the soft-deleted row keeps the place.
BannedStaysOut == bannedOnce \cap Active = {}
=============================================================================
