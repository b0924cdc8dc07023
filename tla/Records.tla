------------------------------- MODULE Records -------------------------------
(***************************************************************************)
(* Rows of one natural key in one table of the platform, under overlapping *)
(* requests.  The services share one shape: look for the row, decide,      *)
(* write later, no lock and no version column.  They differ in what the    *)
(* look covers, in the index behind it, in how a row is removed and in     *)
(* whether an update writes back the whole copy it read; `table` holds     *)
(* these differences and is chosen once.                                   *)
(*                                                                         *)
(* repository.save compares the copy with the stored row, soft-deleted or  *)
(* not, and writes every column that differs, deletedAt too; if no row has *)
(* the id it inserts the copy again.                                       *)
(***************************************************************************)
EXTENDS Integers, FiniteSets

CONSTANTS Ids,    \* row ids of the key
          Calls,  \* requests, each made once
          NoRow

RecordAssumption == NoRow \notin Ids

-----------------------------------------------------------------------------
(* What the services do with the rows of each table.  A table that needs   *)
(* its parent row to be there checks it once, before the steps modelled.   *)
(*                                                                         *)
(* The fields of a table:                                                  *)
(*   key      "none": rows have no natural key; "looked": a create looks   *)
(*            for a row that occupies it; "indexed": the database refuses  *)
(*            a second row too, soft-deleted rows included                 *)
(*   upserts  a create that meets a row updates it instead of failing      *)
(*   sides    the ways to write the key (a pair may be written both ways;  *)
(*            the look covers both, the index only the same way)           *)
(*   first    status of a new row;  moves: status changes the code lets    *)
(*            through;  freed: statuses the look passes over               *)
(*   removal  "soft", "hard" or "never";  kept: statuses it refuses        *)
(*   saves    "copy": an update writes the whole row it read; "column":    *)
(*            it names the columns;  "never"                               *)
(*   tally    "none", "copy": the new count is computed on the copy,       *)
(*            "column": the statement adds to the column                   *)

Table ==
    [key |-> "none", upserts |-> FALSE, sides |-> {1}, first |-> "set", moves |-> {},
     freed |-> {}, removal |-> "soft", kept |-> {}, saves |-> "copy", tally |-> "none"]

-----------------------------------------------------------------------------
(* Lists people keep.  Favourites, interests and band memberships have an   *)
(* index and are soft-deleted: what was removed cannot be added again.      *)
FavoriteDrivers == [Table EXCEPT !.key = "indexed"]
FavoriteShops   == [Table EXCEPT !.key = "indexed", !.saves = "never"]
Interests       == [Table EXCEPT !.key = "indexed", !.saves = "never"]

\* A request between two users, looked for both ways; the receiver may block at
\* any time, the sender take back what is pending.
ConnectionRequests ==
    [Table EXCEPT !.key = "indexed", !.sides = {1, 2}, !.first = "pending",
        !.moves = {<<"pending", "approved">>, <<"pending", "rejected">>, <<"pending", "blocked">>,
                   <<"approved", "blocked">>, <<"rejected", "blocked">>},
        !.kept = {"approved", "rejected", "blocked"}]

(* Vehicles.  An assignment is looked for only while it is active, has no   *)
(* index, and an update may make an ended one active again.                 *)
VehicleBands     == [Table EXCEPT !.key = "looked"]
BandMemberships  == [Table EXCEPT !.key = "indexed", !.saves = "never"]
Vehicles         == [Table EXCEPT !.key = "indexed"]
Assignments ==
    [Table EXCEPT !.key = "looked", !.first = "active", !.freed = {"completed"},
        !.moves = {<<"active", "completed">>, <<"completed", "active">>,
                   <<"completed", "completed">>},
        !.removal = "never"]
VehicleMedia     == [Table EXCEPT !.saves = "never"]
VehiclePricing   == [Table EXCEPT !.key = "indexed"]

(* Profiles and entities. *)
Profiles            == [Table EXCEPT !.key = "indexed"]
ProfilePreferences  == [Table EXCEPT !.removal = "never"]
IndividualEntities  == [Table EXCEPT !.key = "indexed", !.removal = "never", !.saves = "never"]
OtherEntities       == [Table EXCEPT !.key = "indexed", !.removal = "never", !.saves = "never"]
Branches            == [Table EXCEPT !.removal = "never", !.saves = "never"]
EntitySettings      == [Table EXCEPT !.key = "indexed"]
OperatingHours      == Table
BusinessCategories  == [Table EXCEPT !.key = "indexed"]
MarketProfiles      == [Table EXCEPT !.key = "indexed"]
MarketNotifications ==
    [Table EXCEPT !.first = "unread", !.removal = "never", !.moves = {"unread", "read"} \X {"read"}]
CreatorProfiles     == [Table EXCEPT !.key = "indexed", !.removal = "never", !.saves = "never"]
StaffRoles          == [Table EXCEPT !.removal = "never", !.saves = "never"]
\* A phone number that asked for a code has a row without a password, which the
\* registration completes.
UserAccounts ==
    [Table EXCEPT !.key = "indexed", !.first = "skeleton", !.removal = "never",
        !.moves = {<<"skeleton", "registered">>}]
Enterprises ==
    [Table EXCEPT !.key = "indexed", !.first = "pending", !.removal = "never",
        !.moves = {"pending", "active"} \X {"pending", "active"}]
ApiKeys ==
    [Table EXCEPT !.first = "active", !.removal = "never", !.saves = "column",
        !.moves = {"active", "revoked"} \X {"revoked"}]

(* Catalogue.  Stock and review counts are computed on the copy, views are  *)
(* added in the database, and every other update writes both back.          *)
Places         == [Table EXCEPT !.key = "indexed", !.tally = "copy"]
Products       == [Table EXCEPT !.tally = "copy"]
ProductViews   == [Table EXCEPT !.tally = "column"]
ProductMedia   == [Table EXCEPT !.saves = "never"]
DiscountTiers  == Table
SOSAlerts ==
    [Table EXCEPT !.first = "active", !.removal = "never",
        !.moves = {"active", "resolved", "cancelled"} \X {"resolved", "cancelled"}]
DeliveryZones  == Table
Campaigns ==
    [Table EXCEPT !.first = "draft",
        !.moves = {"draft", "active", "paused"} \X {"active", "paused"}]
Channels ==
    [Table EXCEPT !.first = "idle", !.removal = "never",
        !.moves = {<<"idle", "syncing">>, <<"error", "syncing">>}
                  \cup ({"idle", "syncing", "error"} \X {"idle", "error"})]
DigitalAssets ==
    [Table EXCEPT !.first = "draft", !.removal = "never", !.saves = "column",
        !.moves = {<<"draft", "published">>}]
RoutingRules ==
    [Table EXCEPT !.first = "active", !.removal = "never", !.saves = "column",
        !.moves = {"active", "inactive"} \X {"inactive"}]
FulfilmentTasks ==
    [Table EXCEPT !.first = "dispatched", !.removal = "never",
        !.moves = {"dispatched", "delivered", "failed"} \X {"dispatched", "delivered", "failed"}]

(* Personal tools.  Their rows are deleted for good, and a slower update    *)
(* inserts them again.                                                      *)
PlannerTransactions == [Table EXCEPT !.removal = "hard"]
WishlistItems       == [Table EXCEPT !.removal = "hard"]
CalendarEvents      == [Table EXCEPT !.removal = "hard"]
Statements          == [Table EXCEPT !.key = "indexed", !.upserts = TRUE, !.removal = "hard"]
\* The tally is the number of timeline entries, a column of the alert.
Alerts ==
    [Table EXCEPT !.first = "open", !.tally = "copy",
        !.moves = {"open", "escalated", "resolved"} \X {"open", "escalated", "resolved"}]

(* Social.  Neither a greeting, a session nor an engagement has an index.   *)
HeyYas ==
    [Table EXCEPT !.key = "looked", !.first = "pending", !.freed = {"accepted", "declined"},
        !.moves = {<<"pending", "accepted">>, <<"pending", "declined">>}, !.removal = "never"]
\* The tally is the unread count of one side.
ChatSessions ==
    [Table EXCEPT !.key = "looked", !.upserts = TRUE, !.removal = "never", !.tally = "copy"]
Messages ==
    [Table EXCEPT !.first = "unread", !.saves = "column", !.moves = {"unread", "read"} \X {"read"}]
\* The tally is the number of comments.
SocialUpdates       == [Table EXCEPT !.tally = "column"]
Engagements         == [Table EXCEPT !.key = "looked", !.saves = "never"]
CommunityPosts ==
    [Table EXCEPT !.first = "shown", !.removal = "never", !.saves = "column",
        !.moves = {"shown", "hidden"} \X {"hidden"}]
RideAlerts ==
    [Table EXCEPT !.first = "active", !.removal = "never",
        !.moves = {"active", "resolved"} \X {"resolved"}]
ConciergeSessions ==
    [Table EXCEPT !.first = "active", !.moves = {"active", "closed"} \X {"closed"},
        !.removal = "never"]

(* The market's notices, and webhooks. *)
MarketNotices ==
    [Table EXCEPT !.first = "unread", !.removal = "never", !.saves = "column",
        !.moves = {"unread", "read"} \X {"read"}]
WebhookSubscriptions == [Table EXCEPT !.removal = "hard", !.saves = "never"]

Tables ==
    {FavoriteDrivers, FavoriteShops, Interests, ConnectionRequests,
     VehicleBands, BandMemberships, Vehicles, Assignments, VehicleMedia, VehiclePricing,
     Profiles, ProfilePreferences, IndividualEntities, OtherEntities, Branches, EntitySettings,
     OperatingHours, BusinessCategories, MarketProfiles, MarketNotifications, CreatorProfiles,
     StaffRoles, UserAccounts, Enterprises, ApiKeys,
     Places, Products, ProductViews, ProductMedia, DiscountTiers, SOSAlerts, DeliveryZones,
     Campaigns, Channels, DigitalAssets, RoutingRules, FulfilmentTasks,
     PlannerTransactions, WishlistItems, CalendarEvents, Statements, Alerts,
     HeyYas, ChatSessions, Messages, SocialUpdates, Engagements, CommunityPosts,
     RideAlerts, ConciergeSessions, MarketNotices, WebhookSubscriptions}

-----------------------------------------------------------------------------
VARIABLES
    table,     \* the table this behaviour is about
    row,       \* its rows by id
    call,      \* where each request is, with what it read
    ended,     \* rows removed, or moved to a last status (history)
    overtaken, \* rows saved over a state that was not read (history)
    blind,     \* rows inserted while one the look had not met occupied the key (history)
    rejoined,  \* rows that a change of status let occupy the key (history)
    added      \* additions each row's callers were told of (history)

recordHist == <<ended, overtaken, blind, rejoined, added>>
recordVars == <<table, row, call, recordHist>>

NoRecord == [is |-> "none", status |-> "none", tally |-> 0, side |-> 1]
Idle     == [at |-> "idle", op |-> "create", id |-> NoRow, copy |-> NoRecord, met |-> {}]

Init ==
    /\ table \in Tables
    /\ row = [r \in Ids |-> NoRecord]
    /\ call = [c \in Calls |-> Idle]
    /\ ended = {} /\ overtaken = {} /\ blind = {} /\ rejoined = {}
    /\ added = [r \in Ids |-> 0]

Go(c, where) == call' = [call EXCEPT ![c].at = where]

Live      == {r \in Ids : row[r].is = "live"}
Occupying == {r \in Live : row[r].status \notin table.freed}
Stored    == {r \in Ids : row[r].is \in {"live", "removed"}}
\* The unique index, which keeps soft-deleted rows.
Clash(side) == table.key = "indexed" /\ \E r \in Stored : row[r].side = side
\* Statuses no change leads away from.
Last == {m[2] : m \in {m \in table.moves :
                          \A n \in table.moves : n[1] = m[2] => n[2] = m[2]}}

Asking(side) ==
    [Idle EXCEPT !.at = "insert", !.met = Occupying,
                 !.copy = [is |-> "live", status |-> table.first, tally |-> 0, side |-> side]]
Reading(op, r) == [Idle EXCEPT !.at = "write", !.op = op, !.id = r, !.copy = row[r]]

\* A create looks for a row that occupies the key, written either way.
Look(c) ==
    /\ call[c].at = "idle"
    /\ IF table.key = "none" \/ Occupying = {}
       THEN \E side \in table.sides : call' = [call EXCEPT ![c] = Asking(side)]
       ELSE IF table.upserts
            THEN \E r \in Occupying : call' = [call EXCEPT ![c] = Reading("touch", r)]
            ELSE Go(c, "refused")
    /\ UNCHANGED <<table, row, recordHist>>

Insert(c) ==
    /\ call[c].at = "insert"
    /\ \/ Clash(call[c].copy.side) /\ Go(c, "refused") /\ UNCHANGED <<row, blind>>
       \/ /\ ~Clash(call[c].copy.side)
          /\ \E r \in Ids :
               /\ row[r].is = "none"
               /\ row' = [row EXCEPT ![r] = call[c].copy]
               /\ blind' = IF Occupying \subseteq call[c].met THEN blind ELSE blind \cup {r}
          /\ Go(c, "done")
    /\ UNCHANGED <<table, ended, overtaken, rejoined, added>>

Ops == {op \in {"touch", "move", "add", "remove"} :
          CASE op = "touch"  -> table.saves = "copy"
            [] op = "move"   -> table.moves # {}
            [] op = "add"    -> table.tally # "none"
            [] op = "remove" -> table.removal # "never"}

\* Every other request reads a row that is there.
Read(c) ==
    /\ call[c].at = "idle"
    /\ \E r \in Live, op \in Ops : call' = [call EXCEPT ![c] = Reading(op, r)]
    /\ UNCHANGED <<table, row, recordHist>>

\* What the request makes of a row; the status it read decides.
Made(c, from) ==
    CASE call[c].op = "move" ->
           {[from EXCEPT !.status = m[2]] : m \in {m \in table.moves : m[1] = call[c].copy.status}}
      [] call[c].op = "add"  -> {[from EXCEPT !.tally = @ + 1]}
      [] OTHER -> {from}

ByColumn(c) == IF call[c].op = "add" THEN table.tally = "column" ELSE table.saves = "column"

Note(c, r, new) ==
    /\ ended' = IF call[c].op = "move" /\ new.status \in Last THEN ended \cup {r} ELSE ended
    /\ rejoined' = IF call[c].op = "move" /\ new.status \notin table.freed
                   THEN rejoined \cup {r} ELSE rejoined
    /\ added' = IF call[c].op = "add" THEN [added EXCEPT ![r] = @ + 1] ELSE added

\* The whole copy is written back, or inserted when its row is gone.
SaveCopy(c) ==
    LET r == call[c].id IN
    /\ call[c].at = "write" /\ call[c].op # "remove" /\ ~ByColumn(c)
    /\ IF Made(c, call[c].copy) = {} \/ (r \notin Stored /\ Clash(call[c].copy.side))
       THEN Go(c, "refused") /\ UNCHANGED <<row, recordHist>>
       ELSE \E new \in Made(c, call[c].copy) :
              /\ row' = [row EXCEPT ![r] = new]
              /\ overtaken' = IF row[r] = call[c].copy THEN overtaken ELSE overtaken \cup {r}
              /\ Note(c, r, new)
              /\ Go(c, "done") /\ UNCHANGED blind
    /\ UNCHANGED table

\* A statement on some columns of the row with this id, removed or not.
UpdateColumns(c) ==
    LET r == call[c].id IN
    /\ call[c].at = "write" /\ call[c].op # "remove" /\ ByColumn(c)
    /\ IF r \in Stored
       THEN \E new \in Made(c, row[r]) : row' = [row EXCEPT ![r] = new] /\ Note(c, r, new)
       ELSE UNCHANGED <<row, recordHist>>
    /\ Go(c, "done")
    /\ UNCHANGED <<table, overtaken, blind>>

Remove(c) ==
    LET r == call[c].id IN
    /\ call[c].at = "write" /\ call[c].op = "remove"
    /\ IF call[c].copy.status \in table.kept
       THEN Go(c, "refused") /\ UNCHANGED <<row, ended>>
       ELSE /\ row' = [row EXCEPT ![r].is =
                         IF table.removal = "soft" /\ r \in Stored THEN "removed" ELSE "gone"]
            /\ ended' = ended \cup {r}
            /\ Go(c, "done")
    /\ UNCHANGED <<table, overtaken, blind, rejoined, added>>

Next == \E c \in Calls :
    Look(c) \/ Insert(c) \/ Read(c) \/ SaveCopy(c) \/ UpdateColumns(c) \/ Remove(c)

Spec == Init /\ [][Next]_recordVars

-----------------------------------------------------------------------------
TypeOK ==
    /\ table \in Tables
    /\ \A r \in Ids : row[r].is \in {"none", "live", "removed", "gone"} /\ row[r].side \in {1, 2}
    /\ \A c \in Calls : call[c].at \in {"idle", "insert", "write", "done", "refused"}
    /\ ended \cup overtaken \cup blind \cup rejoined \subseteq Ids

\* One row at a time occupies a natural key.  Without an index two creates that
\* do not see each other both stay, a status moved back or an old copy saved
\* over a removal brings a second one; an index leaves only the pair that is
\* written the other way round.
OneLiveRow ==
    /\ table.key # "none" => Cardinality(Occupying \ (blind \cup rejoined \cup overtaken)) <= 1
    /\ table.key = "indexed" =>
         \A r, q \in Stored : r = q \/ row[r].side # row[q].side

\* What a caller was told is over stays over, a removed row removed and a last
\* status last, unless somebody saved a copy older than that.
EndedStaysEnded ==
    \A r \in ended \ overtaken : row[r].is # "live" \/ row[r].status \in Last

\* A counter is what its callers were told, unless a copy was saved over it.
TallyExplained == \A r \in Ids \ overtaken : row[r].tally = added[r]
=============================================================================
