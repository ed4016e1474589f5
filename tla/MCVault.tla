------------------------------ MODULE MCVault ------------------------------
(* Values of Vault's constants for TLC.  Model values come from the cfg.   *)
EXTENDS Vault, TLC

CONSTANTS r1, r2, r3, l1, l2, k1, v1, v2

Q(i, l, k, v, b) == [id |-> i, label |-> l, kind |-> k, payload |-> v, bytes |-> b]

\* Two JSON records, written in one batch, so that half of it is not a change
\* any caller asked for; and a file record, whose content changes.
StableBatch == {<<Q(r1, l1, k1, v2, FALSE), Q(r2, l1, k1, v2, FALSE)>>}
               \cup {<<Q(r3, l1, k1, v, TRUE)>> : v \in {v1, v2}}
StableRequest == UNION {{batch[i] : i \in DOMAIN batch} : batch \in StableBatch}

\* One record, written with one payload.
PlainRequest == {Q(r1, l1, k1, v1, FALSE)}
PlainBatch == {<<q>> : q \in PlainRequest}

\* A caller that updates a record under a new label.
RelabelRequest == {Q(r1, l, k1, v, FALSE) : l \in {l1, l2}, v \in {v1}}
RelabelBatch == {<<q>> : q \in RelabelRequest}

SharedOps == {"create", "unlock", "upsert", "delete", "change", "rotate", "fail"}
KeyOps == {"create", "unlock", "lock", "upsert", "change", "rotate"}
RelabelOps == {"unlock", "upsert"}

\* Sessions are alike, and so are the codes drawn at random.
SharedSymmetry == Permutations(Session) \cup Permutations(Code)
=============================================================================
