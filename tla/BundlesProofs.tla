---------------------------- MODULE BundlesProofs ----------------------------
(***************************************************************************)
(* Proofs about Bundles: its types, that restores are served whatever else *)
(* happens, and that a bundle is one record of the abstract store.         *)
(***************************************************************************)
EXTENDS Bundles, SequenceTheorems, TLAPS

\* The ids were drawn for these chunks of d, and each still holds its piece or
\* was deleted.
Listed(st, dr, del, ids, d) ==
    /\ Len(ids) <= Len(d)
    /\ \A n \in DOMAIN ids :
          /\ ids[n] \in dr
          /\ st[ids[n]] = ChunkOf(d[n]) \/ (ids[n] \in del /\ st[ids[n]] = None)

Chunks(m) == {store[m].chunks[n] : n \in DOMAIN store[m].chunks}
Saved(s) == {op[s].ids[n] : n \in DOMAIN op[s].ids}

StoreInv ==
    /\ \A i \in Id : store[i] # None => i \in drawn
    /\ \A m \in Id : IsManifest(m) =>
          /\ Listed(store, drawn, deleted, store[m].chunks, store[m].data)
          /\ Len(store[m].chunks) = Len(store[m].data)
          /\ store[m].data \in Content

OpInv ==
    \A s \in Session :
        /\ Listed(store, drawn, deleted, op[s].ids, op[s].data)
        /\ op[s].pc = "adding" => op[s].data \in Content
        /\ op[s].pc = "restoring" =>
              /\ op[s].got = SubSeq(op[s].data, 1, Len(op[s].got))
              /\ Len(op[s].got) <= Len(op[s].ids)
              /\ Len(op[s].ids) = Len(op[s].data)

\* The record a bundle is saved under is nobody's chunk, although it may have
\* been deleted since the call looked at it.
TargetInv ==
    \A s \in Session : op[s].pc = "adding" /\ op[s].target # None =>
        /\ op[s].target \in drawn
        /\ \A t \in Session : op[s].target \notin Saved(t)
        /\ \A m \in Id : IsManifest(m) => op[s].target \notin Chunks(m)

\* No two bundles share a chunk, be they saved or being added.
DisjointInv ==
    /\ \A m, l \in Id : IsManifest(m) /\ IsManifest(l) /\ m # l =>
          Chunks(m) \cap Chunks(l) = {}
    /\ \A s \in Session, m \in Id : op[s].pc = "adding" /\ IsManifest(m) =>
          Saved(s) \cap Chunks(m) = {}
    /\ \A s, t \in Session : op[s].pc = "adding" /\ op[t].pc = "adding" /\ s # t =>
          Saved(s) \cap Saved(t) = {}

Inv == TypeOK /\ StoreInv /\ OpInv /\ TargetInv /\ DisjointInv
-----------------------------------------------------------------------------
\* A batch of one item changes one record.
LEMMA AppliedOne ==
    ASSUME NEW i \in Id, NEW r, Put(i, r), store \in [Id -> Record \cup {None}]
    PROVE  store' = [store EXCEPT ![i] = r]
<1> DEFINE b == <<[id |-> i, payload |-> r]>>
<1>1. \A n : n \in DOMAIN b <=> n = 1
      OBVIOUS
<1>2. b[1].id = i /\ b[1].payload = r
      OBVIOUS
<1>3. \A j \in Id : {n \in DOMAIN b : b[n].id = j} = IF j = i THEN {1} ELSE {}
      BY <1>1, <1>2
<1>4. \A j \in Id : Records!Applied(store, b)[j] = IF j = i THEN r ELSE store[j]
  <2> SUFFICES ASSUME NEW j \in Id
               PROVE  Records!Applied(store, b)[j] = IF j = i THEN r ELSE store[j]
      OBVIOUS
  <2>1. Records!Applied(store, b)[j] =
            LET at == {n \in DOMAIN b : b[n].id = j}
            IN  IF at = {} THEN store[j]
                ELSE b[CHOOSE n \in at : \A k \in at : k <= n].payload
      BY DEF Records!Applied
  <2>2. CASE j = i
    <3>1. (CHOOSE n \in {1} : \A k \in {1} : k <= n) = 1
          OBVIOUS
    <3> QED BY <2>1, <2>2, <1>2, <1>3, <3>1
  <2>3. CASE j # i
        BY <2>1, <2>3, <1>3
  <2> QED BY <2>2, <2>3
<1> QED BY <1>4 DEF Put, Records!Applied

LEMMA IdleTyped == Idle \in Op
BY DEF Idle, Op

LEMMA ChunkTyped ==
    \A p \in Piece : /\ ChunkOf(p) \in Record /\ ChunkOf(p) # None
                     /\ ChunkOf(p).kind = "bundle-chunk" /\ ChunkOf(p).data = <<p>>
<1> SUFFICES ASSUME NEW p \in Piece
             PROVE  /\ ChunkOf(p) \in Record /\ ChunkOf(p) # None
                    /\ ChunkOf(p).kind = "bundle-chunk" /\ ChunkOf(p).data = <<p>>
    OBVIOUS
<1>1. << >> \in Seq(Id) /\ <<p>> \in Seq(Piece)
      OBVIOUS
<1>2. ChunkOf(p) \in Record
      BY <1>1 DEF ChunkOf, Record
<1> QED BY <1>2, NoneAssumption DEF ChunkOf

LEMMA ManifestTyped ==
    \A ids \in Seq(Id), d \in Seq(Piece) :
        /\ ManifestOf(ids, d) \in Record /\ ManifestOf(ids, d) # None
        /\ ManifestOf(ids, d).kind = "bundle-manifest"
        /\ ManifestOf(ids, d).chunks = ids /\ ManifestOf(ids, d).data = d
BY NoneAssumption DEF ManifestOf, Record

\* A list stays one when its records are left alone or deleted.
LEMMA ListedKept ==
    ASSUME NEW st, NEW st2, NEW dr, NEW dr2, NEW del, NEW del2, NEW ids, NEW d,
           Listed(st, dr, del, ids, d),
           dr \subseteq dr2, del \subseteq del2,
           \A n \in DOMAIN ids : \/ st2[ids[n]] = st[ids[n]]
                                 \/ st2[ids[n]] = None /\ ids[n] \in del2
    PROVE  Listed(st2, dr2, del2, ids, d)
BY DEF Listed

\* A manifest is nobody's chunk.
LEMMA ManifestNoChunk ==
    ASSUME TypeOK, StoreInv, OpInv, NEW m \in Id, IsManifest(m)
    PROVE  /\ \A t \in Session : m \notin Saved(t)
           /\ \A l \in Id : IsManifest(l) => m \notin Chunks(l)
<1>1. \A ids \in Seq(Id), d \in Seq(Piece) :
          Listed(store, drawn, deleted, ids, d) => \A n \in DOMAIN ids : ids[n] # m
  <2> SUFFICES ASSUME NEW ids \in Seq(Id), NEW d \in Seq(Piece),
                      Listed(store, drawn, deleted, ids, d),
                      NEW n \in DOMAIN ids, ids[n] = m
               PROVE  FALSE
      OBVIOUS
  <2>1. n \in DOMAIN d
        BY DEF Listed
  <2>2. d[n] \in Piece
        BY <2>1
  <2> QED BY <2>2, ChunkTyped DEF Listed, IsManifest
<1>2. \A t \in Session : op[t].ids \in Seq(Id) /\ op[t].data \in Seq(Piece)
      BY DEF TypeOK, Op
<1>3. \A l \in Id : IsManifest(l) => store[l].chunks \in Seq(Id) /\ store[l].data \in Seq(Piece)
      BY DEF TypeOK, Record, IsManifest
<1> QED BY <1>1, <1>2, <1>3 DEF StoreInv, OpInv, Saved, Chunks
-----------------------------------------------------------------------------
\* A step of s that leaves the store alone and forgets its chunks, takes a
\* bundle's to read or keeps those it has.
LEMMA OpStep ==
    ASSUME Inv, NEW s \in Session, NEW o \in Op,
           op' = [op EXCEPT ![s] = o], UNCHANGED <<store, drawn, deleted>>,
           Listed(store, drawn, deleted, o.ids, o.data),
           o.pc = "adding" => /\ o.data \in Content
                              /\ o.ids = << >>
                              /\ o.target # None => IsManifest(o.target),
           o.pc = "restoring" =>
              /\ o.got = SubSeq(o.data, 1, Len(o.got))
              /\ Len(o.got) <= Len(o.ids)
              /\ Len(o.ids) = Len(o.data),
           \/ o.ids = << >>
           \/ \E m \in Id : IsManifest(m) /\ o.ids = store[m].chunks
           \/ o.ids = op[s].ids
    PROVE  Inv'
<1>1. TypeOK'
      BY DEF Inv, TypeOK
<1>2. /\ op'[s] = o
      /\ \A t \in Session : t # s => op'[t] = op[t] /\ Saved(t)' = Saved(t)
      /\ \A m \in Id : (IsManifest(m) <=> IsManifest(m)') /\ Chunks(m)' = Chunks(m)
      BY DEF Inv, TypeOK, Saved, IsManifest, Chunks
<1>3. StoreInv'
      BY <1>2 DEF Inv, StoreInv, IsManifest
<1>4. OpInv'
      BY <1>2 DEF Inv, OpInv
<1>5. \/ Saved(s)' = {} \/ Saved(s)' = Saved(s)
      \/ \E m \in Id : IsManifest(m) /\ Saved(s)' = Chunks(m)
      BY <1>2 DEF Saved, Chunks
<1>6. o.pc = "adding" => Saved(s)' = {}
      BY <1>2 DEF Saved
<1>7. TargetInv'
  <2> SUFFICES ASSUME NEW r \in Session, op'[r].pc = "adding", op'[r].target # None
               PROVE  /\ op'[r].target \in drawn
                      /\ \A t \in Session : op'[r].target \notin Saved(t)'
                      /\ \A m \in Id : IsManifest(m) => op'[r].target \notin Chunks(m)
      BY <1>2 DEF TargetInv
  <2>1. CASE r = s
    <3>1. o.target \in Id /\ IsManifest(o.target)
          BY <2>1, <1>2 DEF Op
    <3>2. o.target \in drawn
          BY <3>1 DEF Inv, StoreInv, IsManifest
    <3>3. /\ \A t \in Session : o.target \notin Saved(t)
          /\ \A m \in Id : IsManifest(m) => o.target \notin Chunks(m)
          BY <3>1, ManifestNoChunk DEF Inv
    <3> QED BY <2>1, <1>2, <1>6, <3>2, <3>3
  <2>2. CASE r # s
    <3>1. /\ op[r].target \in drawn
          /\ \A t \in Session : op[r].target \notin Saved(t)
          /\ \A m \in Id : IsManifest(m) => op[r].target \notin Chunks(m)
          BY <2>2, <1>2 DEF Inv, TargetInv
    <3> QED BY <2>2, <3>1, <1>2, <1>5
  <2> QED BY <2>1, <2>2
<1>8. DisjointInv'
      BY <1>2, <1>6 DEF Inv, DisjointInv
<1> QED BY <1>1, <1>3, <1>4, <1>7, <1>8 DEF Inv

LEMMA BeginAddInv ==
    ASSUME Inv, NEW s \in Session, NEW m \in Id \cup {None}, NEW d \in Content,
           BeginAdd(s, m, d)
    PROVE  Inv'
<1> DEFINE o == [Idle EXCEPT !.pc = "adding", !.target = m, !.data = d]
<1>1. d \in Seq(Piece)
      BY ContentAssumption
<1>2. /\ o \in Op /\ o.pc = "adding" /\ o.target = m
      /\ o.data = d /\ o.ids = << >>
      BY <1>1, IdleTyped DEF Op, Idle
<1>3. Listed(store, drawn, deleted, o.ids, o.data)
      BY <1>1, <1>2 DEF Listed
<1> HIDE DEF o
<1> QED BY <1>2, <1>3, OpStep DEF BeginAdd, o

LEMMA BeginRestoreInv ==
    ASSUME Inv, NEW s \in Session, NEW m \in Id, BeginRestore(s, m)
    PROVE  Inv'
<1> DEFINE o == [Idle EXCEPT !.pc = "restoring", !.target = m,
                             !.data = store[m].data, !.ids = store[m].chunks]
<1>1. /\ IsManifest(m)
      /\ store[m].data \in Seq(Piece) /\ store[m].chunks \in Seq(Id)
      BY DEF Inv, TypeOK, IsManifest, Record, BeginRestore
<1>2. /\ o \in Op /\ o.pc = "restoring" /\ o.got = << >>
      /\ o.data = store[m].data /\ o.ids = store[m].chunks
      BY <1>1, IdleTyped DEF Op, Idle
<1>3. /\ Listed(store, drawn, deleted, o.ids, o.data)
      /\ Len(o.ids) = Len(o.data)
      BY <1>1, <1>2 DEF Inv, StoreInv
<1>4. o.got = SubSeq(o.data, 1, Len(o.got)) /\ Len(o.got) <= Len(o.ids)
  <2>1. SubSeq(o.data, 1, 0) = << >>
        BY SubSeqEmpty
  <2>2. Len(o.ids) \in Nat
        BY <1>1, <1>2
  <2>3. Len(o.got) = 0
        BY <1>2
  <2> HIDE DEF o
  <2> QED BY <1>2, <2>1, <2>2, <2>3
<1> HIDE DEF o
<1> QED BY <1>1, <1>2, <1>3, <1>4, OpStep DEF BeginRestore, o

LEMMA IdledInv ==
    ASSUME Inv, NEW s \in Session, op' = [op EXCEPT ![s] = Idle],
           UNCHANGED <<store, drawn, deleted>>
    PROVE  Inv'
<1>1. /\ Idle.pc = "idle" /\ Idle.ids = << >>
      /\ Listed(store, drawn, deleted, Idle.ids, Idle.data)
      BY DEF Idle, Listed
<1> QED BY <1>1, IdleTyped, OpStep

\* A chunk that is there is the piece it was saved for.
LEMMA ReadChunkInv ==
    ASSUME Inv, NEW s \in Session, ReadChunk(s)
    PROVE  Inv'
<1> DEFINE n == Len(op[s].got) + 1
           o == [op[s] EXCEPT !.got = op[s].got \o store[op[s].ids[n]].data]
<1>1. /\ op[s] \in Op /\ op[s].pc = "restoring"
      /\ op[s].ids \in Seq(Id) /\ op[s].data \in Seq(Piece) /\ op[s].got \in Seq(Piece)
      BY DEF Inv, TypeOK, Op, ReadChunk
<1>2. /\ n \in DOMAIN op[s].ids /\ store[op[s].ids[n]] # None
      /\ Len(op[s].ids) = Len(op[s].data)
      /\ Listed(store, drawn, deleted, op[s].ids, op[s].data)
      /\ op[s].got = SubSeq(op[s].data, 1, Len(op[s].got))
      BY <1>1 DEF Inv, OpInv, ReadChunk
<1>3. n \in DOMAIN op[s].data /\ op[s].data[n] \in Piece
      BY <1>1, <1>2
<1>4. store[op[s].ids[n]].data = <<op[s].data[n]>>
      BY <1>2, <1>3, ChunkTyped DEF Listed
<1>5. op[s].got \o <<op[s].data[n]>> = SubSeq(op[s].data, 1, n)
      BY <1>1, <1>2, <1>3
<1>6. /\ o \in Op /\ o.pc = "restoring" /\ o.ids = op[s].ids /\ o.data = op[s].data
      /\ o.got = SubSeq(o.data, 1, n) /\ Len(o.got) = n
  <2>1. /\ o.pc = "restoring" /\ o.ids = op[s].ids /\ o.data = op[s].data
        /\ o.got = op[s].got \o <<op[s].data[n]>>
        BY <1>1, <1>4 DEF Op
  <2>2. o.got \in Seq(Piece) /\ Len(o.got) = n
    <3>1. <<op[s].data[n]>> \in Seq(Piece) /\ Len(<<op[s].data[n]>>) = 1
          BY <1>3
    <3> HIDE DEF o
    <3> QED BY <1>1, <3>1, <2>1, ConcatProperties
  <2>3. o \in Op
        BY <1>1, <2>1, <2>2 DEF Op
  <2> QED BY <1>5, <2>1, <2>2, <2>3
<1>7. op' = [op EXCEPT ![s] = o] /\ UNCHANGED <<store, drawn, deleted>>
      BY <1>1 DEF ReadChunk, Inv, TypeOK
<1>8. n <= Len(op[s].ids)
      BY <1>1, <1>2
<1> HIDE DEF o, n
<1> QED BY <1>2, <1>6, <1>7, <1>8, OpStep
-----------------------------------------------------------------------------
\* A fresh id is nobody's target, chunk or record.
LEMMA FreshId ==
    ASSUME Inv, NEW c \in Id \ drawn
    PROVE  /\ store[c] = None
           /\ \A t \in Session : c \notin Saved(t)
           /\ \A m \in Id : IsManifest(m) => c \notin Chunks(m)
BY DEF Inv, StoreInv, OpInv, Listed, Saved, Chunks

LEMMA SaveChunkInv ==
    ASSUME Inv, NEW s \in Session, SaveChunk(s)
    PROVE  Inv'
<1> DEFINE n == Len(op[s].ids) + 1
<1>1. PICK c \in Id \ drawn : /\ Put(c, ChunkOf(op[s].data[n]))
                              /\ op' = [op EXCEPT ![s].ids = Append(@, c)]
                              /\ drawn' = drawn \cup {c}
      BY DEF SaveChunk
<1> DEFINE p == op[s].data[n]
           o == [op[s] EXCEPT !.ids = Append(op[s].ids, c)]
<1>2. /\ op[s] \in Op /\ op[s].pc = "adding" /\ n <= Len(op[s].data)
      /\ op[s].ids \in Seq(Id) /\ op[s].data \in Seq(Piece)
      /\ deleted' = deleted
      BY DEF Inv, TypeOK, Op, SaveChunk
<1>3. n \in DOMAIN op[s].data /\ p \in Piece
      BY <1>2
<1>4. store' = [store EXCEPT ![c] = ChunkOf(p)]
      BY <1>1, AppliedOne DEF Inv, TypeOK
<1>5. /\ Append(op[s].ids, c) \in Seq(Id)
      /\ Len(Append(op[s].ids, c)) = n
      /\ \A k \in DOMAIN op[s].ids : Append(op[s].ids, c)[k] = op[s].ids[k]
      /\ Append(op[s].ids, c)[n] = c
      /\ DOMAIN op[s].ids = 1..(n - 1) /\ DOMAIN Append(op[s].ids, c) = 1..n
      BY <1>2
<1>6. /\ o \in Op /\ o.pc = "adding" /\ o.ids = Append(op[s].ids, c)
      /\ o.data = op[s].data /\ o.target = op[s].target
      BY <1>2, <1>5 DEF Op
<1>7. op' = [op EXCEPT ![s] = o]
      BY <1>1
<1> HIDE DEF o, p
<1>8. TypeOK'
      BY <1>1, <1>2, <1>3, <1>4, <1>6, <1>7, ChunkTyped DEF Inv, TypeOK
<1>9. /\ op'[s] = o
      /\ \A t \in Session : t # s => op'[t] = op[t]
      /\ store'[c] = ChunkOf(p)
      /\ \A i \in Id : i # c => store'[i] = store[i]
      BY <1>4, <1>7 DEF Inv, TypeOK
<1>10. /\ Saved(s)' = Saved(s) \cup {c}
       /\ \A t \in Session : t # s => Saved(t)' = Saved(t)
  <2>1. Saved(s)' = {o.ids[k] : k \in 1..n}
        BY <1>5, <1>6, <1>9 DEF Saved
  <2>2. Saved(s) = {op[s].ids[k] : k \in 1..(n - 1)}
        BY <1>5 DEF Saved
  <2>3. n \in Nat \ {0}
        BY <1>2
  <2>4. \A k \in 1..n : o.ids[k] = IF k = n THEN c ELSE op[s].ids[k]
        BY <1>5, <1>6, <2>3
  <2>5. Saved(s)' = Saved(s) \cup {c}
    <3> HIDE DEF n
    <3> QED BY <2>1, <2>2, <2>3, <2>4
  <2> QED BY <2>5, <1>9 DEF Saved
<1>11. \A m \in Id : /\ IsManifest(m)' <=> IsManifest(m)
                     /\ IsManifest(m) => store'[m] = store[m] /\ Chunks(m)' = Chunks(m)
       BY <1>3, <1>9, FreshId, ChunkTyped DEF IsManifest, Chunks
<1>12. \A ids, d : Listed(store, drawn, deleted, ids, d)
                    /\ (\A k \in DOMAIN ids : ids[k] \in Id)
                    => Listed(store', drawn', deleted', ids, d)
       BY <1>1, <1>2, <1>9, ListedKept DEF Listed
<1>13. StoreInv'
  <2>1. \A m \in Id : IsManifest(m) => store[m].chunks \in Seq(Id)
        BY DEF Inv, TypeOK, Record, IsManifest
  <2>2. \A i \in Id : store'[i] # None => i \in drawn'
        BY <1>1, <1>9 DEF Inv, StoreInv
  <2>3. \A m \in Id : IsManifest(m) =>
            Listed(store', drawn', deleted', store[m].chunks, store[m].data)
        BY <2>1, <1>12 DEF Inv, StoreInv
  <2> QED BY <2>2, <2>3, <1>11 DEF Inv, StoreInv
<1>14. OpInv'
  <2>1. \A t \in Session : Listed(store', drawn', deleted', op[t].ids, op[t].data)
    <3>1. \A t \in Session : op[t].ids \in Seq(Id)
          BY DEF Inv, TypeOK, Op
    <3> QED BY <3>1, <1>12 DEF Inv, OpInv
  <2>2. Listed(store', drawn', deleted', o.ids, o.data)
    <3>1. \A k \in 1..(n - 1) : /\ op[s].ids[k] \in drawn'
                                /\ \/ store'[op[s].ids[k]] = ChunkOf(op[s].data[k])
                                   \/ op[s].ids[k] \in deleted' /\ store'[op[s].ids[k]] = None
          BY <2>1, <1>5 DEF Listed
    <3>2. c \in drawn' /\ store'[c] = ChunkOf(op[s].data[n])
          BY <1>1, <1>9 DEF p
    <3> QED BY <3>1, <3>2, <1>2, <1>5, <1>6 DEF Listed
  <2>3. o.data \in Content
        BY <1>2, <1>6 DEF Inv, OpInv
  <2> QED BY <2>1, <2>2, <2>3, <1>6, <1>9 DEF Inv, OpInv
<1>15. TargetInv'
       BY <1>1, <1>6, <1>9, <1>10, <1>11 DEF Inv, TargetInv
<1>16. DisjointInv'
  <2>1. \A t \in Session : t # s => c \notin Saved(t)
        BY FreshId
  <2>2. \A m \in Id : IsManifest(m) => c \notin Chunks(m)
        BY FreshId
  <2> QED BY <2>1, <2>2, <1>2, <1>6, <1>9, <1>10, <1>11 DEF Inv, DisjointInv
<1> QED BY <1>8, <1>13, <1>14, <1>15, <1>16 DEF Inv

LEMMA SaveManifestInv ==
    ASSUME Inv, NEW s \in Session, SaveManifest(s)
    PROVE  Inv'
<1>1. PICK m \in Id :
         /\ IF op[s].target = None THEN m \notin drawn ELSE m = op[s].target
         /\ Put(m, ManifestOf(op[s].ids, op[s].data))
         /\ drawn' = drawn \cup {m}
      BY DEF SaveManifest
<1> DEFINE r == ManifestOf(op[s].ids, op[s].data)
<1>2. /\ op[s].pc = "adding" /\ Len(op[s].ids) = Len(op[s].data)
      /\ op[s].ids \in Seq(Id) /\ op[s].data \in Seq(Piece) /\ op[s].data \in Content
      /\ op' = [op EXCEPT ![s] = Idle] /\ deleted' = deleted
      BY DEF Inv, TypeOK, OpInv, Op, SaveManifest
<1>3. /\ r \in Record /\ r # None /\ r.kind = "bundle-manifest"
      /\ r.chunks = op[s].ids /\ r.data = op[s].data
      BY <1>2, ManifestTyped
<1>4. store' = [store EXCEPT ![m] = r]
      BY <1>1, AppliedOne DEF Inv, TypeOK
<1> HIDE DEF r
<1>5. TypeOK'
      BY <1>1, <1>2, <1>3, <1>4, IdleTyped DEF Inv, TypeOK
<1>6. /\ op'[s] = Idle /\ Idle.pc = "idle" /\ Idle.ids = << >> /\ Saved(s)' = {}
      /\ \A t \in Session : t # s => op'[t] = op[t] /\ Saved(t)' = Saved(t)
      /\ store'[m] = r
      /\ \A i \in Id : i # m => store'[i] = store[i]
      BY <1>2, <1>4 DEF Inv, TypeOK, Idle, Saved
<1>7. /\ \A t \in Session : m \notin Saved(t)
      /\ \A l \in Id : IsManifest(l) => m \notin Chunks(l)
      BY <1>1, <1>2, FreshId DEF Inv, TargetInv
<1>8. /\ IsManifest(m)' /\ Chunks(m)' = Saved(s)
      /\ \A l \in Id : l # m => /\ IsManifest(l)' <=> IsManifest(l)
                                /\ Chunks(l)' = Chunks(l)
      BY <1>3, <1>6 DEF IsManifest, Chunks, Saved
<1>9. \A ids, d : Listed(store, drawn, deleted, ids, d)
                   /\ (\A k \in DOMAIN ids : ids[k] \in Id /\ ids[k] # m)
                   => Listed(store', drawn', deleted', ids, d)
      BY <1>1, <1>2, <1>6, ListedKept
<1>10. \A t \in Session : Listed(store', drawn', deleted', op[t].ids, op[t].data)
  <2> SUFFICES ASSUME NEW t \in Session
               PROVE  Listed(store', drawn', deleted', op[t].ids, op[t].data)
      OBVIOUS
  <2>1. op[t].ids \in Seq(Id)
        BY DEF Inv, TypeOK, Op
  <2>2. \A k \in DOMAIN op[t].ids : op[t].ids[k] \in Id /\ op[t].ids[k] # m
        BY <2>1, <1>7 DEF Saved
  <2>3. Listed(store, drawn, deleted, op[t].ids, op[t].data)
        BY DEF Inv, OpInv
  <2> QED BY <2>2, <2>3, <1>9
<1>11. StoreInv'
  <2>1. \A i \in Id : store'[i] # None => i \in drawn'
        BY <1>1, <1>6 DEF Inv, StoreInv
  <2>2. ASSUME NEW l \in Id, l # m, IsManifest(l)
        PROVE  Listed(store', drawn', deleted', store[l].chunks, store[l].data)
    <3>1. store[l].chunks \in Seq(Id)
          BY <2>2 DEF Inv, TypeOK, Record, IsManifest
    <3>2. \A k \in DOMAIN store[l].chunks : store[l].chunks[k] \in Id /\ store[l].chunks[k] # m
          BY <2>2, <3>1, <1>7 DEF Chunks
    <3>3. Listed(store, drawn, deleted, store[l].chunks, store[l].data)
          BY <2>2 DEF Inv, StoreInv
    <3> QED BY <3>2, <3>3, <1>9
  <2> QED BY <2>1, <2>2, <1>2, <1>3, <1>6, <1>8, <1>10 DEF Inv, StoreInv
<1>12. OpInv'
  <2>1. Listed(store', drawn', deleted', Idle.ids, Idle.data)
        BY DEF Idle, Listed
  <2> QED BY <2>1, <1>6, <1>10 DEF Inv, OpInv
<1>13. TargetInv'
  <2> SUFFICES ASSUME NEW t \in Session, t # s, op[t].pc = "adding", op[t].target # None
               PROVE  /\ op[t].target \in drawn'
                      /\ \A u \in Session : op[t].target \notin Saved(u)'
                      /\ \A l \in Id : IsManifest(l)' => op[t].target \notin Chunks(l)'
      BY <1>6 DEF TargetInv
  <2>1. /\ op[t].target \in drawn
        /\ \A u \in Session : op[t].target \notin Saved(u)
        /\ \A l \in Id : IsManifest(l) => op[t].target \notin Chunks(l)
        BY DEF Inv, TargetInv
  <2> QED BY <2>1, <1>1, <1>6, <1>8
<1>14. DisjointInv'
       BY <1>2, <1>6, <1>8 DEF Inv, DisjointInv
<1> QED BY <1>5, <1>11, <1>12, <1>13, <1>14 DEF Inv

LEMMA DeleteInv ==
    ASSUME Inv, NEW i \in Id, Delete(i)
    PROVE  Inv'
<1>1. /\ store' = [store EXCEPT ![i] = None] /\ deleted' = deleted \cup {i}
      /\ op' = op /\ drawn' = drawn /\ i \in drawn
      BY DEF Delete, Inv, StoreInv
<1>2. /\ store'[i] = None
      /\ \A j \in Id : j # i => store'[j] = store[j]
      BY <1>1 DEF Inv, TypeOK
<1>3. TypeOK'
      BY <1>1 DEF Inv, TypeOK
<1>4. /\ \A l \in Id : IsManifest(l)' => l # i /\ IsManifest(l) /\ Chunks(l)' = Chunks(l)
      /\ \A t \in Session : Saved(t)' = Saved(t)
      BY <1>1, <1>2 DEF IsManifest, Chunks, Saved
<1>5. \A ids, d : Listed(store, drawn, deleted, ids, d)
                   /\ (\A k \in DOMAIN ids : ids[k] \in Id)
                   => Listed(store', drawn', deleted', ids, d)
  <2>1. \A j \in Id : \/ store'[j] = store[j]
                      \/ store'[j] = None /\ j \in deleted'
        BY <1>1, <1>2
  <2>2. drawn \subseteq drawn' /\ deleted \subseteq deleted'
        BY <1>1
  <2> QED BY <2>1, <2>2, ListedKept
<1>6. StoreInv'
  <2>1. \A l \in Id : IsManifest(l) => store[l].chunks \in Seq(Id)
        BY DEF Inv, TypeOK, Record, IsManifest
  <2>2. \A l \in Id : IsManifest(l) => Listed(store', drawn', deleted', store[l].chunks, store[l].data)
        BY <2>1, <1>5 DEF Inv, StoreInv
  <2> QED BY <2>2, <1>1, <1>2, <1>4 DEF Inv, StoreInv
<1>7. OpInv'
  <2>1. \A t \in Session : op[t].ids \in Seq(Id)
        BY DEF Inv, TypeOK, Op
  <2>2. \A t \in Session : Listed(store', drawn', deleted', op[t].ids, op[t].data)
        BY <2>1, <1>5 DEF Inv, OpInv
  <2> QED BY <2>2, <1>1 DEF Inv, OpInv
<1>8. TargetInv' /\ DisjointInv'
      BY <1>1, <1>4 DEF Inv, TargetInv, DisjointInv
<1> QED BY <1>3, <1>6, <1>7, <1>8 DEF Inv

LEMMA InitInv == Init => Inv
<1> SUFFICES ASSUME Init PROVE Inv
    OBVIOUS
<1>1. /\ store = [i \in Id |-> None] /\ \A m \in Id : ~IsManifest(m)
      /\ \A s \in Session : op[s] = Idle
      BY DEF Init, Records!InitStore, IsManifest
<1>2. TypeOK
      BY <1>1, IdleTyped DEF Init, TypeOK
<1>3. Listed(store, drawn, deleted, Idle.ids, Idle.data)
      BY DEF Idle, Listed
<1>4. Idle.pc = "idle"
      BY DEF Idle
<1> QED BY <1>1, <1>2, <1>3, <1>4
        DEF Inv, StoreInv, OpInv, TargetInv, DisjointInv

LEMMA NextInv == Inv /\ [Next]_vars => Inv'
<1> SUFFICES ASSUME Inv, [Next]_vars PROVE Inv'
    OBVIOUS
<1>1. ASSUME NEW s \in Session, NEW m \in Id \cup {None}, NEW d \in Content, BeginAdd(s, m, d)
      PROVE  Inv'
      BY <1>1, BeginAddInv
<1>2. ASSUME NEW s \in Session, SaveChunk(s) PROVE Inv'
      BY <1>2, SaveChunkInv
<1>3. ASSUME NEW s \in Session, SaveManifest(s) PROVE Inv'
      BY <1>3, SaveManifestInv
<1>4. ASSUME NEW s \in Session, NEW m \in Id, BeginRestore(s, m) PROVE Inv'
      BY <1>4, BeginRestoreInv
<1>5. ASSUME NEW s \in Session, ReadChunk(s) PROVE Inv'
      BY <1>5, ReadChunkInv
<1>6. ASSUME NEW s \in Session, FinishRestore(s) \/ Fail(s) PROVE Inv'
      BY <1>6, IdledInv DEF FinishRestore, Fail
<1>7. ASSUME NEW i \in Id, Delete(i) PROVE Inv'
      BY <1>7, DeleteInv
<1>8. CASE UNCHANGED vars
  <2>1. store' = store /\ op' = op /\ drawn' = drawn /\ deleted' = deleted
        BY <1>8 DEF vars
  <2>2. /\ \A m \in Id : (IsManifest(m)' <=> IsManifest(m)) /\ Chunks(m)' = Chunks(m)
        /\ \A s \in Session : Saved(s)' = Saved(s)
        BY <2>1 DEF IsManifest, Chunks, Saved
  <2>3. TypeOK' /\ StoreInv' /\ OpInv'
        BY <2>1, <2>2 DEF Inv, TypeOK, StoreInv, OpInv
  <2>4. TargetInv' /\ DisjointInv'
        BY <2>1, <2>2 DEF Inv, TargetInv, DisjointInv
  <2> QED BY <2>3, <2>4 DEF Inv
<1> QED BY <1>1, <1>2, <1>3, <1>4, <1>5, <1>6, <1>7, <1>8 DEF Next

LEMMA Invariance == Spec => []Inv
BY InitInv, NextInv, PTL DEF Spec
-----------------------------------------------------------------------------
\* Type correctness of the bulk file service.
THEOREM BundlesTyped == Spec => []TypeOK
<1>1. Inv => TypeOK
      BY DEF Inv
<1> QED BY Invariance, <1>1, PTL

\* restore_bytes, once it has read a manifest, finds every chunk of it as it
\* was saved unless a user deletes one, however long it takes and whatever
\* other sessions add, replace and delete meanwhile.
THEOREM RestoresAlwaysServed == Spec => []RestoresServed
<1>1. Inv => RestoresServed
      BY DEF Inv, OpInv, Listed, RestoresServed, Kept
<1> QED BY Invariance, <1>1, PTL
-----------------------------------------------------------------------------
Whole(m) == \A n \in DOMAIN store[m].chunks : store[m].chunks[n] \notin deleted

\* No bundle is ever broken.
NoneBroken ==
    \A m \in Id : Restored[m] = IF IsManifest(m) /\ Whole(m) THEN store[m].data ELSE None

LEMMA RestoredIs == Inv => NoneBroken
<1> SUFFICES ASSUME Inv, NEW m \in Id
             PROVE  Restored[m] = IF IsManifest(m) /\ Whole(m) THEN store[m].data ELSE None
    BY DEF NoneBroken
<1>1. CASE IsManifest(m)
  <2>1. /\ Len(store[m].chunks) = Len(store[m].data)
        /\ Listed(store, drawn, deleted, store[m].chunks, store[m].data)
        BY <1>1 DEF Inv, StoreInv
  <2>2. Whole(m) => \A n \in DOMAIN store[m].chunks :
                        store[store[m].chunks[n]] = ChunkOf(store[m].data[n])
        BY <2>1 DEF Whole, Listed
  <2> QED BY <1>1, <2>1, <2>2 DEF Restored, Whole
<1>2. CASE ~IsManifest(m)
      BY <1>2 DEF Restored
<1> QED BY <1>1, <1>2

LEMMA RestoredIsNext == Inv' => NoneBroken'
BY RestoredIs, PTL

\* What a step does to the bundles is what it does to each.
LEMMA RestoredSame ==
    ASSUME \A m \in Id : Restored'[m] = Restored[m]
    PROVE  Restored' = Restored
BY DEF Restored

LEMMA RemoveOne ==
    ASSUME NEW m \in Id, \A l \in Id : Restored'[l] = IF l = m THEN None ELSE Restored[l]
    PROVE  BundleStore!Next
<1>1. Restored' = [Restored EXCEPT ![m] = None]
      BY DEF Restored
<1> QED BY <1>1 DEF BundleStore!Next, BundleStore!Remove

LEMMA PutOne ==
    ASSUME NEW m \in Id, NEW d \in Content,
           \A l \in Id : Restored'[l] = IF l = m THEN d ELSE Restored[l]
    PROVE  BundleStore!Next
<1> DEFINE b == <<[id |-> m, payload |-> d]>>
<1>1. \A n : n \in DOMAIN b <=> n = 1
      OBVIOUS
<1>2. b[1].id = m /\ b[1].payload = d
      OBVIOUS
<1>3. \A j \in Id : {n \in DOMAIN b : b[n].id = j} = IF j = m THEN {1} ELSE {}
      BY <1>1, <1>2
<1>4. \A j \in Id : BundleStore!Applied(Restored, b)[j] = IF j = m THEN d ELSE Restored[j]
  <2> SUFFICES ASSUME NEW j \in Id
               PROVE  BundleStore!Applied(Restored, b)[j] = IF j = m THEN d ELSE Restored[j]
      OBVIOUS
  <2>1. BundleStore!Applied(Restored, b)[j] =
            LET at == {n \in DOMAIN b : b[n].id = j}
            IN  IF at = {} THEN Restored[j]
                ELSE b[CHOOSE n \in at : \A k \in at : k <= n].payload
      BY DEF BundleStore!Applied
  <2>2. CASE j = m
    <3>1. (CHOOSE n \in {1} : \A k \in {1} : k <= n) = 1
          OBVIOUS
    <3> QED BY <2>1, <2>2, <1>2, <1>3, <3>1
  <2>3. CASE j # m
        BY <2>1, <2>3, <1>3
  <2> QED BY <2>2, <2>3
<1>5. Restored' = BundleStore!Applied(Restored, b)
      BY <1>4 DEF Restored, BundleStore!Applied
<1> QED BY <1>5 DEF BundleStore!Next, BundleStore!Put

\* A chunk saved under a fresh id is no bundle and no bundle's.
LEMMA SaveChunkStep ==
    ASSUME Inv, Inv', NEW s \in Session, SaveChunk(s)
    PROVE  Restored' = Restored
<1> DEFINE n == Len(op[s].ids) + 1
<1>1. PICK c \in Id \ drawn : Put(c, ChunkOf(op[s].data[n]))
      BY DEF SaveChunk
<1>2. op[s].data[n] \in Piece /\ deleted' = deleted
      BY DEF Inv, TypeOK, Op, SaveChunk
<1>3. store' = [store EXCEPT ![c] = ChunkOf(op[s].data[n])]
      BY <1>1, AppliedOne DEF Inv, TypeOK
<1>4. /\ store'[c].kind = "bundle-chunk"
      /\ \A i \in Id : i # c => store'[i] = store[i]
      BY <1>2, <1>3, ChunkTyped DEF Inv, TypeOK
<1>5. \A m \in Id : /\ IsManifest(m)' <=> IsManifest(m)
                    /\ IsManifest(m) => store'[m] = store[m]
      BY <1>4, FreshId DEF IsManifest
<1>6. \A m \in Id : IsManifest(m) => (Whole(m)' <=> Whole(m))
      BY <1>2, <1>5 DEF Whole
<1>7. \A m \in Id : Restored'[m] = Restored[m]
      BY RestoredIs, RestoredIsNext, <1>5, <1>6 DEF NoneBroken
<1> QED BY <1>7, RestoredSame

\* The manifest makes the new content the bundle's, unless a user has deleted
\* one of its chunks already.
LEMMA SaveManifestStep ==
    ASSUME Inv, Inv', NEW s \in Session, SaveManifest(s)
    PROVE  BundleStore!Next
<1>1. PICK m \in Id :
         /\ IF op[s].target = None THEN m \notin drawn ELSE m = op[s].target
         /\ Put(m, ManifestOf(op[s].ids, op[s].data))
      BY DEF SaveManifest
<1> DEFINE r == ManifestOf(op[s].ids, op[s].data)
<1>2. /\ op[s].pc = "adding" /\ deleted' = deleted
      /\ op[s].ids \in Seq(Id) /\ op[s].data \in Seq(Piece) /\ op[s].data \in Content
      BY DEF Inv, TypeOK, OpInv, Op, SaveManifest
<1>3. r # None /\ r.kind = "bundle-manifest" /\ r.chunks = op[s].ids /\ r.data = op[s].data
      BY <1>2, ManifestTyped
<1>4. store' = [store EXCEPT ![m] = r]
      BY <1>1, AppliedOne DEF Inv, TypeOK
<1> HIDE DEF r
<1>5. /\ store'[m] = r
      /\ \A l \in Id : l # m => store'[l] = store[l]
      BY <1>4 DEF Inv, TypeOK
<1>6. IsManifest(m)'
      BY <1>3, <1>5 DEF IsManifest
<1>7. \A l \in Id : l # m => /\ IsManifest(l)' <=> IsManifest(l)
                             /\ Whole(l)' <=> Whole(l)
      BY <1>2, <1>5 DEF IsManifest, Whole
<1>8. \A l \in Id : l # m => Restored'[l] = Restored[l]
      BY RestoredIs, RestoredIsNext, <1>5, <1>7 DEF NoneBroken
<1>9. CASE Whole(m)'
  <2>1. Restored'[m] = op[s].data
        BY RestoredIsNext, <1>3, <1>5, <1>6, <1>9 DEF NoneBroken
  <2> QED BY <2>1, <1>2, <1>8, PutOne
<1>10. CASE ~Whole(m)'
  <2>1. Restored'[m] = None
        BY RestoredIsNext, <1>10 DEF NoneBroken
  <2> QED BY <2>1, <1>8, RemoveOne
<1> QED BY <1>9, <1>10

\* A deleted record was one bundle's manifest, one bundle's chunk, or neither.
LEMMA DeleteStep ==
    ASSUME Inv, Inv', NEW i \in Id, Delete(i)
    PROVE  BundleStore!Next \/ Restored' = Restored
<1>1. /\ store'[i] = None
      /\ \A j \in Id : j # i => store'[j] = store[j]
      /\ deleted' = deleted \cup {i}
      BY DEF Delete, Inv, TypeOK
<1>2. \A l \in Id : l # i => /\ IsManifest(l)' <=> IsManifest(l)
                             /\ IsManifest(l) => (Whole(l)' <=> Whole(l) /\ i \notin Chunks(l))
      BY <1>1 DEF IsManifest, Whole, Chunks
<1>3. ~IsManifest(i)'
      BY <1>1 DEF IsManifest
<1>4. \A l \in Id : Restored'[l] =
          IF l = i \/ (IsManifest(l) /\ i \in Chunks(l)) THEN None ELSE Restored[l]
      BY RestoredIs, RestoredIsNext, <1>1, <1>2, <1>3 DEF NoneBroken
<1>5. CASE IsManifest(i)
  <2>1. \A l \in Id : IsManifest(l) => i \notin Chunks(l)
        BY <1>5, ManifestNoChunk DEF Inv
  <2> QED BY <2>1, <1>4, RemoveOne
<1>6. CASE ~IsManifest(i) /\ \E m \in Id : IsManifest(m) /\ i \in Chunks(m)
  <2>1. PICK m \in Id : IsManifest(m) /\ i \in Chunks(m)
        BY <1>6
  <2>2. \A l \in Id : IsManifest(l) /\ i \in Chunks(l) => l = m
        BY <2>1 DEF Inv, DisjointInv
  <2>3. Restored[i] = None
        BY <1>6, RestoredIs DEF NoneBroken
  <2>4. \A l \in Id : Restored'[l] = IF l = m THEN None ELSE Restored[l]
        BY <1>4, <2>1, <2>2, <2>3
  <2> QED BY <2>4, RemoveOne
<1>7. CASE ~IsManifest(i) /\ \A m \in Id : IsManifest(m) => i \notin Chunks(m)
  <2>1. Restored[i] = None
        BY <1>7, RestoredIs DEF NoneBroken
  <2>2. \A l \in Id : Restored'[l] = Restored[l]
        BY <1>4, <1>7, <2>1
  <2> QED BY <2>2, RestoredSame
<1> QED BY <1>5, <1>6, <1>7

LEMMA BundlesInit == Init => BundleStore!Init
<1> SUFFICES ASSUME Init PROVE BundleStore!Init
    OBVIOUS
<1>1. \A m \in Id : Restored[m] = None
      BY DEF Init, Records!InitStore, Restored, IsManifest
<1> QED BY <1>1 DEF BundleStore!Init, BundleStore!InitStore, Restored

LEMMA BundlesStep ==
    Inv /\ Inv' /\ [Next]_vars => [BundleStore!Next]_Restored
<1> SUFFICES ASSUME Inv, Inv', [Next]_vars
             PROVE  BundleStore!Next \/ Restored' = Restored
    OBVIOUS
<1>1. ASSUME NEW s \in Session, SaveChunk(s) PROVE Restored' = Restored
      BY <1>1, SaveChunkStep
<1>2. ASSUME NEW s \in Session, SaveManifest(s) PROVE BundleStore!Next
      BY <1>2, SaveManifestStep
<1>3. ASSUME NEW i \in Id, Delete(i) PROVE BundleStore!Next \/ Restored' = Restored
      BY <1>3, DeleteStep
<1>4. ASSUME store' = store, deleted' = deleted
      PROVE  Restored' = Restored
      BY <1>4 DEF Restored, IsManifest
<1> QED BY <1>1, <1>2, <1>3, <1>4
        DEF Next, vars, BeginAdd, BeginRestore, ReadChunk, FinishRestore, Fail

\* The bulk file service implements the store of whole contents: adding a
\* content of any number of chunks, replacing or deleting it takes effect in
\* one step or not at all, for any number of sessions.
THEOREM BundlesAtomic == Spec => AtomicBundles
BY Invariance, BundlesInit, BundlesStep, PTL
   DEF Spec, AtomicBundles, BundleStore!Spec
=============================================================================
