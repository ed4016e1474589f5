----------------------------- MODULE VaultStore -----------------------------
(***************************************************************************)
(* What the vault promises the one writer it is built for: a map from      *)
(* record ids to payloads that a completed call changes in one step, all   *)
(* of a batch or none of it, and that nothing else changes: not an unlock, *)
(* not a new passphrase, not a crash.                                      *)
(***************************************************************************)
EXTENDS Naturals, Sequences

CONSTANTS
    RecordId,
    Batch,     \* the sequences of [id, payload, ...] that callers submit
    Absent     \* "no such record"

VARIABLE store \* what get(id) returns for each id

InitStore == [id \in RecordId |-> Absent]

\* The items of a batch take effect in order, so the last one of an id wins.
Applied(st, b) ==
    [id \in RecordId |->
        LET at == {i \in DOMAIN b : b[i].id = id}
        IN  IF at = {} THEN st[id]
            ELSE b[CHOOSE i \in at : \A j \in at : j <= i].payload]

Put == \E b \in Batch : store' = Applied(store, b)
Remove == \E id \in RecordId : store' = [store EXCEPT ![id] = Absent]

Init == store = InitStore
Next == Put \/ Remove
Spec == Init /\ [][Next]_store
=============================================================================
