------------------------------- MODULE Bundles -------------------------------
(***************************************************************************)
(* The bulk file service (vault/store/bulk_file_service.py): contents of   *)
(* any size as a manifest record and the chunk records it lists, over the  *)
(* store that a vault is to its users (VaultStore).  Each call of the      *)
(* vault service is one step here; adding a large content takes hours of   *)
(* them, and other sessions add, restore and delete in between.            *)
(***************************************************************************)
EXTENDS Naturals, Sequences

CONSTANTS
    Session,
    Id,           \* record ids
    Piece,        \* contents of one chunk
    Content,      \* what users add: non-empty sequences of Piece
    None, Broken  \* no record; a bundle that cannot be restored

ASSUME ContentAssumption ==
    /\ Content \subseteq Seq(Piece) \ {<< >>}
    /\ None \notin Id

VARIABLES
    store,    \* the records of the vault, as get and get_file_bytes open them
    op,       \* the call of BulkFileService each session is in
    drawn,    \* record ids drawn so far
    deleted   \* history: records users have deleted

vars == <<store, op, drawn, deleted>>

\* A manifest lists its chunks; its data stands for the size and SHA-256 of
\* the whole content.
Record == [kind : {"bundle-manifest", "bundle-chunk"}, chunks : Seq(Id), data : Seq(Piece)]

ASSUME NoneAssumption == {None, Broken} \cap (Record \cup Seq(Piece)) = {}

ChunkOf(p) == [kind |-> "bundle-chunk", chunks |-> << >>, data |-> <<p>>]
ManifestOf(ids, d) == [kind |-> "bundle-manifest", chunks |-> ids, data |-> d]

IsManifest(m) == store[m] # None /\ store[m].kind = "bundle-manifest"

Records == INSTANCE VaultStore WITH
    RecordId <- Id, Absent <- None,
    Batch <- {<<[id |-> i, payload |-> r]>> : i \in Id, r \in Record}

Put(i, r) == store' = Records!Applied(store, <<[id |-> i, payload |-> r]>>)

\* target: the manifest's id, None for a new one; data: the content; ids: the
\* chunks saved, or those to be read; got: the pieces read.
Op == [pc : {"idle", "adding", "restoring"}, target : Id \cup {None},
       data : Seq(Piece), ids : Seq(Id), got : Seq(Piece)]

Idle == [pc |-> "idle", target |-> None, data |-> << >>, ids |-> << >>, got |-> << >>]

Init ==
    /\ store = Records!InitStore
    /\ op = [s \in Session |-> Idle]
    /\ drawn = {}
    /\ deleted = {}
-----------------------------------------------------------------------------
(* upsert_large_bytes and upsert_paths.                                    *)

\* A new bundle, or new content for the one of a given record id.
BeginAdd(s, m, d) ==
    /\ op[s] = Idle
    /\ m # None => IsManifest(m)
    /\ op' = [op EXCEPT ![s] = [Idle EXCEPT !.pc = "adding", !.target = m, !.data = d]]
    /\ UNCHANGED <<store, drawn, deleted>>

\* Seeded fault: the chunks of the bundle that is replaced are used again.
SaveChunkInPlace(s) ==
    LET n == Len(op[s].ids) + 1
        m == op[s].target
    IN  /\ op[s].pc = "adding" /\ n <= Len(op[s].data)
        /\ \E c \in Id :
            /\ IF m # None /\ IsManifest(m) /\ n <= Len(store[m].chunks)
               THEN c = store[m].chunks[n] ELSE c \notin drawn
            /\ Put(c, ChunkOf(op[s].data[n]))
            /\ op' = [op EXCEPT ![s].ids = Append(@, c)]
            /\ drawn' = drawn \cup {c}
        /\ UNCHANGED deleted

\* Each chunk is a record of its own, under an id drawn for it.
SaveChunk(s) ==
    LET n == Len(op[s].ids) + 1
    IN  /\ op[s].pc = "adding" /\ n <= Len(op[s].data)
        /\ \E c \in Id \ drawn :
            /\ Put(c, ChunkOf(op[s].data[n]))
            /\ op' = [op EXCEPT ![s].ids = Append(@, c)]
            /\ drawn' = drawn \cup {c}
        /\ UNCHANGED deleted

\* Seeded fault: a bundle that is replaced takes its chunks along.
SaveManifestCleaningUp(s) ==
    /\ op[s].pc = "adding" /\ Len(op[s].ids) = Len(op[s].data)
    /\ \E m \in Id :
        /\ IF op[s].target = None THEN m \notin drawn ELSE m = op[s].target
        /\ store' = [i \in Id |->
              IF i = m THEN ManifestOf(op[s].ids, op[s].data)
              ELSE IF IsManifest(m) /\ \E n \in DOMAIN store[m].chunks : store[m].chunks[n] = i
              THEN None ELSE store[i]]
        /\ drawn' = drawn \cup {m}
    /\ op' = [op EXCEPT ![s] = Idle]
    /\ UNCHANGED deleted

\* The manifest comes last.  Chunks of the bundle it replaces stay.
SaveManifest(s) ==
    /\ op[s].pc = "adding" /\ Len(op[s].ids) = Len(op[s].data)
    /\ \E m \in Id :
        /\ IF op[s].target = None THEN m \notin drawn ELSE m = op[s].target
        /\ Put(m, ManifestOf(op[s].ids, op[s].data))
        /\ drawn' = drawn \cup {m}
    /\ op' = [op EXCEPT ![s] = Idle]
    /\ UNCHANGED deleted
-----------------------------------------------------------------------------
(* restore_bytes and restore_paths.                                        *)

BeginRestore(s, m) ==
    /\ op[s] = Idle
    /\ IsManifest(m)
    /\ op' = [op EXCEPT ![s] = [Idle EXCEPT !.pc = "restoring", !.target = m,
                                  !.data = store[m].data, !.ids = store[m].chunks]]
    /\ UNCHANGED <<store, drawn, deleted>>

ReadChunk(s) ==
    LET n == Len(op[s].got) + 1
    IN  /\ op[s].pc = "restoring" /\ n <= Len(op[s].ids)
        /\ store[op[s].ids[n]] # None
        /\ op' = [op EXCEPT ![s].got = @ \o store[op[s].ids[n]].data]
        /\ UNCHANGED <<store, drawn, deleted>>

\* Size and SHA-256 agree; if they do not, the call raises (Fail).
FinishRestore(s) ==
    /\ op[s].pc = "restoring" /\ Len(op[s].got) = Len(op[s].ids)
    /\ op[s].got = op[s].data
    /\ op' = [op EXCEPT ![s] = Idle]
    /\ UNCHANGED <<store, drawn, deleted>>
-----------------------------------------------------------------------------
\* VaultService.delete, of any record: the CLI lists chunks like others.
Delete(i) ==
    /\ store[i] # None
    /\ store' = [store EXCEPT ![i] = None]
    /\ deleted' = deleted \cup {i}
    /\ UNCHANGED <<op, drawn>>

\* A call raises, or its process ends, between two calls of the vault service.
Fail(s) ==
    /\ op[s] # Idle
    /\ op' = [op EXCEPT ![s] = Idle]
    /\ UNCHANGED <<store, drawn, deleted>>

Next ==
    \/ \E s \in Session :
        \/ \E m \in Id \cup {None}, d \in Content : BeginAdd(s, m, d)
        \/ SaveChunk(s) \/ SaveManifest(s)
        \/ \E m \in Id : BeginRestore(s, m)
        \/ ReadChunk(s) \/ FinishRestore(s)
        \/ Fail(s)
    \/ \E i \in Id : Delete(i)

Spec == Init /\ [][Next]_vars
-----------------------------------------------------------------------------
(* Properties.                                                             *)

TypeOK ==
    /\ store \in [Id -> Record \cup {None}]
    /\ op \in [Session -> Op]
    /\ drawn \subseteq Id
    /\ deleted \subseteq drawn

\* Record i still is, or once was, the chunk p: nothing but a user's deletion
\* takes it away.
Kept(i, p) == store[i] = ChunkOf(p) \/ (i \in deleted /\ store[i] = None)

\* A restore under way reads the content of the manifest it began with, piece
\* by piece, even if that bundle is replaced or deleted meanwhile; only a
\* chunk that a user deleted can make it fail.
RestoresServed ==
    \A s \in Session : op[s].pc = "restoring" =>
        /\ op[s].got = SubSeq(op[s].data, 1, Len(op[s].got))
        /\ Len(op[s].ids) = Len(op[s].data)
        /\ \A n \in DOMAIN op[s].ids : Kept(op[s].ids[n], op[s].data[n])

\* What restore_bytes returns of each id: None where it finds no manifest or
\* where the user has deleted a chunk.
Restored ==
    [m \in Id |->
        IF ~IsManifest(m) THEN None
        ELSE LET ids == store[m].chunks
                 d == store[m].data
             IN  IF \E n \in DOMAIN ids : ids[n] \in deleted THEN None
                 ELSE IF /\ Len(ids) = Len(d)
                         /\ \A n \in DOMAIN ids : store[ids[n]] = ChunkOf(d[n])
                 THEN d ELSE Broken]

BundleStore == INSTANCE VaultStore WITH
    RecordId <- Id, Absent <- None, store <- Restored,
    Batch <- {<<[id |-> m, payload |-> d]>> : m \in Id, d \in Content}

\* A bundle of any number of chunks behaves as one record of the store: it
\* appears, changes and disappears in one step, and nothing that sessions do
\* at the same time, nor a call that stops half-way, breaks it or another one.
AtomicBundles == BundleStore!Spec
=============================================================================
