----------------------------- MODULE Provenance -----------------------------
(***************************************************************************)
(* Signed model artifacts (model-provenance.service.ts).                   *)
(*                                                                         *)
(* The pipeline signs a bundle of a model for a role shard, clients ask    *)
(* which bundles are active for their shard and verify the hash they       *)
(* downloaded, and an operator rolls a version back.  The records are a    *)
(* map in the process, keyed by model and version but not by shard.        *)
(***************************************************************************)
EXTENDS Naturals, FiniteSets

CONSTANTS
    Models, Versions, Shards,
    Hashes,      \* what bundles hash to
    NoRecord,
    MaxSigned    \* signatures and restarts in a behaviour

ProvenanceAssumption ==
    /\ MaxSigned \in Nat
    /\ NoRecord \notin Versions \cup [shard : Shards, hash : Hashes, active : BOOLEAN]

VARIABLES
    signed,     \* [Models \X Versions -> record or NoRecord], in the process
    current,    \* history: [Models \X Shards -> version last signed and not rolled back, or NoRecord]
    displaced,  \* history: model and shard whose record another shard signed over
    client,     \* one client: [at, key, hash], what it downloaded and what it was told
    replaced,   \* history: the bundle the client holds was signed over or forgotten since
    requests    \* signatures and restarts so far

vars == <<signed, current, displaced, client, replaced, requests>>

Keys == Models \X Versions
Record == [shard : Shards, hash : Hashes, active : BOOLEAN]
Active(m, s) == {k \in Keys : k[1] = m /\ signed[k] # NoRecord
                              /\ signed[k].shard = s /\ signed[k].active}

Init ==
    /\ signed = [k \in Keys |-> NoRecord]
    /\ current = [p \in Models \X Shards |-> NoRecord]
    /\ displaced = {} /\ requests = 0
    /\ client = [at |-> "idle", key |-> NoRecord, hash |-> NoRecord] /\ replaced = FALSE

\* sign: the shard's active records of the model are switched off, then the new
\* one takes its key, whatever record is there.
Sign(m, v, s, h) ==
    /\ requests < MaxSigned /\ requests' = requests + 1
    /\ signed' = [k \in Keys |->
                    IF k = <<m, v>> THEN [shard |-> s, hash |-> h, active |-> TRUE]
                    ELSE IF k \in Active(m, s) THEN [signed[k] EXCEPT !.active = FALSE]
                    ELSE signed[k]]
    /\ current' = [current EXCEPT ![<<m, s>>] = v]
    /\ LET old == signed[<<m, v>>] IN
         displaced' = (displaced \ {<<m, s>>}) \cup
                      {p \in {m} \X (Shards \ {s}) : old # NoRecord /\ old.shard = p[2] /\ old.active}
    /\ replaced' = (replaced \/ (client.key = <<m, v>> /\ client.hash # h))
    /\ UNCHANGED client

\* getActive: a client takes one of the bundles offered for its shard or for
\* all; "all" is a shard like another.
Offered(s) == {k \in Keys : \E t \in {s, "all"} \cap Shards : k \in Active(k[1], t)}
Fetch(s) ==
    /\ client.at # "holds"
    /\ \E k \in Offered(s) : client' = [at |-> "holds", key |-> k, hash |-> signed[k].hash]
    /\ replaced' = FALSE
    /\ UNCHANGED <<signed, current, displaced, requests>>

\* verify: the client's hash against the record of that model and version, if
\* there is one, whether it is still active or not.
Verify ==
    /\ client.at = "holds"
    /\ client' = [client EXCEPT !.at =
                    IF signed[client.key] # NoRecord /\ signed[client.key].hash = client.hash
                    THEN "accepted" ELSE "refused"]
    /\ UNCHANGED <<signed, current, displaced, replaced, requests>>

\* rollback: the version is switched off; no other is switched on.
Rollback(m, v) ==
    LET old == signed[<<m, v>>] IN
    /\ old # NoRecord
    /\ signed' = [signed EXCEPT ![<<m, v>>].active = FALSE]
    /\ current' = [current EXCEPT ![<<m, old.shard>>] = IF @ = v THEN NoRecord ELSE @]
    /\ UNCHANGED <<displaced, client, replaced, requests>>

\* The map is lost with the process.
Restart ==
    /\ requests < MaxSigned /\ requests' = requests + 1
    /\ signed' = [k \in Keys |-> NoRecord]
    /\ current' = [p \in Models \X Shards |-> NoRecord]
    /\ displaced' = {}
    /\ replaced' = TRUE
    /\ UNCHANGED client

Next ==
    \/ \E m \in Models, v \in Versions :
         \/ \E s \in Shards, h \in Hashes : Sign(m, v, s, h)
         \/ Rollback(m, v)
    \/ \E s \in Shards : Fetch(s)
    \/ Verify \/ Restart

Spec == Init /\ [][Next]_vars

-----------------------------------------------------------------------------
TypeOK ==
    /\ signed \in [Keys -> Record \cup {NoRecord}]
    /\ current \in [Models \X Shards -> Versions \cup {NoRecord}]
    /\ displaced \subseteq Models \X Shards
    /\ client \in [at : {"idle", "holds", "accepted", "refused"}, key : Keys \cup {NoRecord},
                   hash : Hashes \cup {NoRecord}]
    /\ replaced \in BOOLEAN
    /\ requests \in 0..MaxSigned

\* A shard is offered one version of a model: the last one signed for it, none
\* once that was rolled back, and none either when another shard's bundle was
\* signed under the same version, for the key has no shard.
OfferedIsCurrent ==
    \A m \in Models, s \in Shards :
      Active(m, s) = IF current[<<m, s>>] = NoRecord \/ <<m, s>> \in displaced THEN {}
                     ELSE {<<m, current[<<m, s>>]>>}

\* A client that downloaded what it was offered is refused only if that bundle
\* was signed over or the records were lost meanwhile; a rollback refuses nobody.
RefusedWasReplaced == client.at = "refused" => replaced
=============================================================================
