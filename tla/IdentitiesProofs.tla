-------------------------- MODULE IdentitiesProofs --------------------------
(***************************************************************************)
(* Bundles stay restorable for any processes, names, chunks and contents.  *)
(* Every file and every copy under way is a Sound record, and each command *)
(* makes a Sound record of a Sound one: whole records are all that is ever *)
(* exchanged, so it does not matter whose copy is saved last.              *)
(* With one command at a time (the actions of Spec) two further invariants *)
(* follow: every entry is sealed under the key the user took away last     *)
(* (KeyInv), and each name holds, as a file and as a bundle, what was last  *)
(* attached to it so (LatestInv).                                          *)
(***************************************************************************)
EXTENDS Identities, SequenceTheorems, TLAPS

Sound(rec) ==
    /\ rec \in Record
    /\ \A b \in Base : HasManifest(rec.att, b) => Restores(rec.att, b)

Inv ==
    /\ TypeOK
    /\ record # None => Sound(record)
    /\ \A s \in Process : op[s].work # None => Sound(op[s].work)
-----------------------------------------------------------------------------
(* What the commands do to a record.                                       *)

LEMMA SealedTyped ==
    ASSUME NEW k \in Key, NEW p \in Piece
    PROVE  Sealed(k, <<p>>) \in Entry
BY DEF Sealed, Entry

\* A manifest of some content lists as many chunks as the content has.
LEMMA ChunksListed ==
    ASSUME NEW d \in Bundle
    PROVE  /\ SubSeq(Chunk, 1, Len(d)) \in Seq(ChunkPart)
           /\ Len(SubSeq(Chunk, 1, Len(d))) = Len(d)
           /\ \A i \in 1..Len(d) : SubSeq(Chunk, 1, Len(d))[i] = Chunk[i]
<1>1. Len(d) \in Nat /\ Len(d) <= Len(Chunk) /\ Len(Chunk) \in Nat
      BY ChunkAssumption, NamesAssumption
<1>2. \A i \in 1..Len(d) : Chunk[i] \in ChunkPart
      BY <1>1, ChunkAssumption DEF ChunkPart
<1> QED BY <1>1, <1>2, SubSeqProperties, 1 \in Int, Len(d) \in Int

\* Where a file and the manifest of a bundle are kept.
LEMMA AttachedNames ==
    /\ Attached \subseteq Name
    /\ \A c \in Base : <<c, "whole">> \in Attached /\ <<c, "manifest">> \in Attached
    /\ \A n \in Attached : n[2] \in {"whole", "manifest"} /\ n[2] \notin ChunkPart
BY ChunkAssumption DEF Attached, Name

LEMMA NewRecordSound ==
    ASSUME NEW k \in Key
    PROVE  Sound([template |-> k, att |-> NoAttachments])
BY DEF Sound, Record, Attachments, NoAttachments, HasManifest, Name

LEMMA AttachWholeSound ==
    ASSUME NEW rec, Sound(rec), NEW b \in Base, NEW p \in Piece, NEW k \in Key
    PROVE  Sound([rec EXCEPT !.att = AttachWhole(@, b, p, k)])
<1> DEFINE new == AttachWhole(rec.att, b, p, k)
<1>1. rec \in Record /\ rec.att \in Attachments
      BY DEF Sound, Record
<1>2. <<b, "whole">> \in Name
      BY DEF Name
<1>3. new \in Attachments
      BY <1>1, <1>2, SealedTyped DEF AttachWhole, Attachments
<1>4. \A n \in Name : n[2] # "whole" => new[n] = rec.att[n]
      BY <1>1 DEF AttachWhole, Attachments
<1> HIDE DEF new
<1>5. ASSUME NEW c \in Base, HasManifest(new, c)
      PROVE  Restores(new, c)
  <2>1. <<c, "manifest">> \in Name /\ new[<<c, "manifest">>] = rec.att[<<c, "manifest">>]
        BY <1>4 DEF Name
  <2>2. Restores(rec.att, c)
        BY <1>5, <2>1 DEF HasManifest, Sound
  <2>3. rec.att[<<c, "manifest">>] \in Entry
        BY <1>1, <1>5, <2>1 DEF HasManifest, Attachments
  <2>4. ASSUME NEW i \in DOMAIN rec.att[<<c, "manifest">>].chunks
        PROVE  new[<<c, rec.att[<<c, "manifest">>].chunks[i]>>]
               = rec.att[<<c, rec.att[<<c, "manifest">>].chunks[i]>>]
    <3>1. rec.att[<<c, "manifest">>].chunks[i] \in ChunkPart
          BY <2>3, <2>4 DEF Entry
    <3> QED BY <3>1, <1>4, ChunkAssumption DEF Name
  <2> QED BY <2>1, <2>2, <2>4 DEF Restores
<1> QED BY <1>1, <1>3, <1>5 DEF Sound, Record, new

LEMMA AttachBundleSound ==
    ASSUME NEW rec, Sound(rec), NEW b \in Base, NEW d \in Bundle, NEW k \in Key
    PROVE  Sound([rec EXCEPT !.att = AttachBundle(@, b, d, k)])
<1> DEFINE new == AttachBundle(rec.att, b, d, k)
           at(n) == CHOOSE i \in DOMAIN d : n[2] = Chunk[i]
           manifest == [key |-> k, chunks |-> SubSeq(Chunk, 1, Len(d)), data |-> d]
<1>1. rec \in Record /\ rec.att \in Attachments
      BY DEF Sound, Record
<1>2. d \in Seq(Piece) /\ Len(d) <= Len(Chunk)
      BY NamesAssumption
<1>3. ASSUME NEW n \in Name, n[1] = b, \E i \in DOMAIN d : n[2] = Chunk[i]
      PROVE  new[n] = Sealed(k, <<d[at(n)]>>) /\ at(n) \in DOMAIN d
             /\ n[2] = Chunk[at(n)]
      BY <1>3 DEF AttachBundle
<1>4. ASSUME NEW n \in Name, ~(n[1] = b /\ \E i \in DOMAIN d : n[2] = Chunk[i])
      PROVE  new[n] = IF n = <<b, "manifest">> THEN manifest ELSE rec.att[n]
      BY <1>4 DEF AttachBundle
<1>5. manifest \in Entry
      BY <1>2, ChunksListed DEF Entry
<1>6. new = [n \in Name |-> new[n]]
      BY DEF AttachBundle
<1>7. \A i \in DOMAIN d : Chunk[i] \in ChunkPart
      BY <1>2, ChunkAssumption DEF ChunkPart
<1>8. <<b, "manifest">> \in Name /\ new[<<b, "manifest">>] = manifest
      BY <1>4, <1>7, ChunkAssumption DEF Name
<1> HIDE DEF new, manifest
<1>9. new \in Attachments
  <2>1. ASSUME NEW n \in Name
        PROVE  new[n] \in Entry \cup {None}
    <3>1. CASE n[1] = b /\ \E i \in DOMAIN d : n[2] = Chunk[i]
      <4>1. new[n] = Sealed(k, <<d[at(n)]>>) /\ at(n) \in DOMAIN d
            BY <1>3, <3>1
      <4>2. d[at(n)] \in Piece
            BY <1>2, <4>1
      <4> QED BY <4>1, <4>2, SealedTyped
    <3>2. CASE ~(n[1] = b /\ \E i \in DOMAIN d : n[2] = Chunk[i])
          BY <3>2, <1>1, <1>4, <1>5 DEF Attachments
    <3> QED BY <3>1, <3>2
  <2> QED BY <1>6, <2>1 DEF Attachments
<1>10. ASSUME NEW c \in Base, HasManifest(new, c)
       PROVE  Restores(new, c)
  <2>1. CASE c = b
    <3>1. ASSUME NEW i \in 1..Len(d)
          PROVE  new[<<b, Chunk[i]>>] = Sealed(k, <<d[i]>>)
      <4>1. i \in DOMAIN d /\ <<b, Chunk[i]>> \in Name
            BY <1>2, <1>7 DEF Name
      <4>2. /\ new[<<b, Chunk[i]>>] = Sealed(k, <<d[at(<<b, Chunk[i]>>)]>>)
            /\ at(<<b, Chunk[i]>>) \in DOMAIN d
            /\ Chunk[i] = Chunk[at(<<b, Chunk[i]>>)]
            BY <1>3, <4>1
      <4>3. at(<<b, Chunk[i]>>) = i
            BY <4>1, <4>2, <1>2, ChunkAssumption
      <4> QED BY <4>2, <4>3
    <3>2. /\ manifest.key = k /\ manifest.data = d
          /\ Len(manifest.chunks) = Len(d)
          /\ DOMAIN manifest.chunks = 1..Len(d)
          /\ \A i \in 1..Len(d) : manifest.chunks[i] = Chunk[i]
          BY ChunksListed DEF manifest
    <3> QED BY <2>1, <1>8, <3>1, <3>2 DEF Restores
  <2>2. CASE c # b
    <3>1. \A n \in Name : n[1] = c => new[n] = rec.att[n]
          BY <1>4, <2>2
    <3>2. <<c, "manifest">> \in Name
          BY DEF Name
    <3>3. Restores(rec.att, c)
          BY <1>10, <3>1, <3>2 DEF HasManifest, Sound
    <3>4. rec.att[<<c, "manifest">>] \in Entry
          BY <1>1, <1>10, <3>1, <3>2 DEF HasManifest, Attachments
    <3>5. \A i \in DOMAIN rec.att[<<c, "manifest">>].chunks :
             <<c, rec.att[<<c, "manifest">>].chunks[i]>> \in Name
          BY <3>4 DEF Entry, Name
    <3> QED BY <3>1, <3>2, <3>3, <3>5 DEF Restores
  <2> QED BY <2>1, <2>2
<1> QED BY <1>1, <1>9, <1>10 DEF Sound, Record, new

LEMMA RemovedSound ==
    ASSUME NEW rec, Sound(rec), NEW b \in Base, NEW k
    PROVE  Sound([rec EXCEPT !.att = Removed(@, b, k)])
<1> DEFINE new == Removed(rec.att, b, k)
<1>1. rec \in Record /\ rec.att \in Attachments
      BY DEF Sound, Record
<1>2. new \in Attachments
      BY <1>1 DEF Removed, Attachments
<1>3. \A n \in Name : n[1] # b => new[n] = rec.att[n]
      BY <1>1 DEF Removed, Attachments
<1>4. ~HasManifest(new, b)
      BY <1>1 DEF Removed, HasManifest, Attachments, Name
<1> HIDE DEF new
<1>5. ASSUME NEW c \in Base, HasManifest(new, c)
      PROVE  Restores(new, c)
  <2>1. c # b /\ <<c, "manifest">> \in Name
        BY <1>4, <1>5 DEF Name
  <2>2. Restores(rec.att, c)
        BY <1>3, <1>5, <2>1 DEF HasManifest, Sound
  <2>3. rec.att[<<c, "manifest">>] \in Entry
        BY <1>1, <1>3, <1>5, <2>1 DEF HasManifest, Attachments
  <2>4. \A i \in DOMAIN rec.att[<<c, "manifest">>].chunks :
           <<c, rec.att[<<c, "manifest">>].chunks[i]>> \in Name
        BY <2>3 DEF Entry, Name
  <2> QED BY <1>3, <2>1, <2>2, <2>4 DEF Restores
<1> QED BY <1>1, <1>2, <1>5 DEF Sound, Record, new
-----------------------------------------------------------------------------
(* The inductive step.                                                     *)

LEMMA IdleTyped == Idle \in Op
BY DEF Idle, Op

LEMMA StartsTyped ==
    ASSUME TypeOK, NEW s \in Process, Starts(s)
    PROVE  /\ latest' \in [Attached -> Seq(Piece) \cup {None}]
           /\ overlapped' \in BOOLEAN
BY DEF TypeOK, Starts, Overlaps, NothingLatest

\* A command that took up a sound copy.
LEMMA WorkInv ==
    ASSUME Inv, NEW s \in Process, Starts(s), NEW rec, Sound(rec),
           NEW n \in Attached \cup {None}, NEW d \in Seq(Piece) \cup {None},
           Work(s, rec, n, d)
    PROVE  Inv'
<1> DEFINE new == [Idle EXCEPT !.pc = "working", !.work = rec,
                               !.name = n, !.data = d]
<1>1. new \in Op /\ new.pc = "working" /\ new.work = rec
      BY IdleTyped DEF Op, Idle, Sound
<1>2. op' = [op EXCEPT ![s] = new]
      BY DEF Work
<1>3. rec # None
      BY NoneAssumption DEF Sound
<1> HIDE DEF new
<1>4. op' \in [Process -> Op]
      /\ \A t \in Process : op'[t] = IF t = s THEN new ELSE op[t]
      BY <1>1, <1>2 DEF Inv, TypeOK
<1>5. TypeOK'
      BY <1>1, <1>3, <1>4, StartsTyped DEF Inv, TypeOK, Work, diskVars
<1> QED BY <1>1, <1>4, <1>5 DEF Inv, Work, diskVars

\* A step after which the command of s holds no copy.
LEMMA IdledInv ==
    ASSUME Inv, TypeOK', NEW s \in Process,
           op' = op \/ \E c \in Op : c.work = None /\ op' = [op EXCEPT ![s] = c],
           record' # None => Sound(record)' \/ record' = record
    PROVE  Inv'
<1>1. record' # None => Sound(record)'
      BY DEF Inv
<1>2. \A t \in Process : op'[t].work # None => op'[t].work = op[t].work
      BY DEF Inv, TypeOK
<1> QED BY <1>1, <1>2 DEF Inv, Sound

LEMMA InitInv == Init => Inv
<1> SUFFICES ASSUME Init PROVE Inv
    OBVIOUS
<1>1. TypeOK
      BY IdleTyped DEF Init, TypeOK, NothingLatest, Idle
<1> QED BY <1>1 DEF Init, Inv, Idle

LEMMA NextInv == Inv /\ [Next]_vars => Inv'
<1> SUFFICES ASSUME Inv, [Next]_vars PROVE Inv'
    OBVIOUS
<1> USE DEF Inv
<1>1. CASE UNCHANGED vars
      BY <1>1 DEF vars, diskVars, historyVars, TypeOK, Sound
<1>2. ASSUME NEW s \in Process, Unlock(s) PROVE Inv'
  <2>1. TypeOK'
        BY <1>2 DEF Unlock, TypeOK, diskVars, historyVars
  <2> QED BY <1>2, <2>1, IdledInv DEF Unlock, diskVars
<1>3. ASSUME NEW s \in Process, BeginKeyring(s) PROVE Inv'
  <2>1. [Idle EXCEPT !.pc = "creating"] \in Op
        BY IdleTyped DEF Op, Idle
  <2>2. TypeOK'
        BY <1>3, <2>1, StartsTyped DEF BeginKeyring, TypeOK, diskVars, Idle
  <2> QED BY <1>3, <2>1, <2>2, IdledInv DEF BeginKeyring, diskVars, Idle
<1>4. ASSUME NEW s \in Process, FinishKeyring(s) PROVE Inv'
  <2>1. TypeOK'
        BY <1>4, IdleTyped DEF FinishKeyring, TypeOK, historyVars, Idle
  <2> QED BY <1>4, <2>1, IdleTyped, IdledInv DEF FinishKeyring, Idle
<1>5. ASSUME NEW s \in Process, TruncateKeyring(s) PROVE Inv'
  <2>1. PICK k \in Key : op' = [op EXCEPT ![s] =
                           [Idle EXCEPT !.pc = "filling", !.key = k]]
                         /\ minted' = minted \cup {k}
        BY <1>5 DEF TruncateKeyring
  <2>2. [Idle EXCEPT !.pc = "filling", !.key = k] \in Op
        BY IdleTyped DEF Op, Idle
  <2>3. TypeOK'
        BY <1>5, <2>1, <2>2 DEF TruncateKeyring, TypeOK, historyVars, Idle
  <2> QED BY <1>5, <2>1, <2>2, <2>3, IdledInv DEF TruncateKeyring, Idle
<1>6. ASSUME NEW s \in Process, FillKeyring(s) PROVE Inv'
  <2>1. op[s].key \in Key \cup {None}
        BY DEF TypeOK, Op
  <2>2. TypeOK'
        BY <1>6, <2>1, IdleTyped DEF FillKeyring, TypeOK, historyVars, Idle
  <2> QED BY <1>6, <2>2, IdleTyped, IdledInv DEF FillKeyring, Idle
<1>7. ASSUME NEW s \in Process, Enroll(s) PROVE Inv'
  <2>1. held[s] \in Key
        BY <1>7 DEF Enroll, TypeOK
  <2> QED BY <1>7, <2>1, NewRecordSound, WorkInv DEF Enroll
<1>8. ASSUME NEW s \in Process, NEW b \in SmallNames, NEW p \in SmallFile,
             AttachFile(s, b, p)
      PROVE  Inv'
  <2>1. held[s] \in Key /\ Sound(record) /\ b \in Base /\ p \in Piece
        BY <1>8, NamesAssumption DEF AttachFile, TypeOK
  <2>2. Sound([record EXCEPT !.att = AttachWhole(@, b, p, held[s])])
        BY <2>1, AttachWholeSound
  <2>3. <<p>> \in Seq(Piece)
        BY <2>1
  <2>4. /\ Starts(s) /\ <<b, "whole">> \in Attached
        /\ Work(s, [record EXCEPT !.att = AttachWhole(@, b, p, held[s])],
                <<b, "whole">>, <<p>>)
        BY <1>8, <2>1, AttachedNames DEF AttachFile
  <2> QED BY <2>2, <2>3, <2>4, WorkInv
<1>9. ASSUME NEW s \in Process, NEW b \in BundleNames, NEW d \in Bundle,
             AttachPaths(s, b, d)
      PROVE  Inv'
  <2>1. held[s] \in Key /\ Sound(record) /\ b \in Base /\ d \in Seq(Piece)
        BY <1>9, NamesAssumption DEF AttachPaths, TypeOK
  <2>2. Sound([record EXCEPT !.att = AttachBundle(@, b, d, held[s])])
        BY <2>1, AttachBundleSound
  <2>3. /\ Starts(s) /\ <<b, "manifest">> \in Attached
        /\ Work(s, [record EXCEPT !.att = AttachBundle(@, b, d, held[s])],
                <<b, "manifest">>, d)
        BY <1>9, <2>1, AttachedNames DEF AttachPaths
  <2> QED BY <2>1, <2>2, <2>3, WorkInv
<1>10. ASSUME NEW s \in Process, NEW b \in Base, RemoveAttachment(s, b)
       PROVE  Inv'
  <2>1. Sound(record)
        BY <1>10 DEF RemoveAttachment
  <2>2. Sound([record EXCEPT !.att = Removed(@, b, held[s])])
        BY <2>1, RemovedSound
  <2>3. /\ Starts(s) /\ Uppermost(b) \in Attached
        /\ Work(s, [record EXCEPT !.att = Removed(@, b, held[s])], Uppermost(b), None)
        BY <1>10, AttachedNames DEF RemoveAttachment, Uppermost
  <2> QED BY <2>2, <2>3, WorkInv
<1>11. ASSUME NEW s \in Process, Save(s) PROVE Inv'
  <2>1. op[s].work # None /\ Sound(op[s].work)
        BY <1>11 DEF Save, TypeOK
  <2>2. record' = op[s].work /\ Sound(record)'
        BY <1>11, <2>1 DEF Save, Sound
  <2>3. latest' \in [Attached -> Seq(Piece) \cup {None}]
        BY <1>11 DEF Save, TypeOK, NothingLatest, Op
  <2>4. TypeOK'
        BY <1>11, <2>2, <2>3, IdleTyped DEF Save, TypeOK, Sound, Idle
  <2> QED BY <1>11, <2>2, <2>4, IdleTyped, IdledInv DEF Save, Idle
<1>12. ASSUME NEW s \in Process, Delete(s) PROVE Inv'
  <2>1. TypeOK'
        BY <1>12 DEF Delete, TypeOK, Overlaps, NothingLatest
  <2> QED BY <1>12, <2>1, IdledInv DEF Delete
<1>13. ASSUME NEW s \in Process, Abandon(s) PROVE Inv'
  <2>1. TypeOK'
        BY <1>13, IdleTyped DEF Abandon, TypeOK, diskVars, historyVars, Idle
  <2> QED BY <1>13, <2>1, IdleTyped, IdledInv DEF Abandon, diskVars, Idle
<1>14. ASSUME NEW s \in Process, Exit(s) PROVE Inv'
  <2>1. TypeOK'
        BY <1>14, IdleTyped DEF Exit, TypeOK, diskVars, historyVars, Idle
  <2> QED BY <1>14, <2>1, IdleTyped, IdledInv DEF Exit, diskVars, Idle
<1> QED BY <1>1, <1>2, <1>3, <1>4, <1>5, <1>6, <1>7, <1>8, <1>9, <1>10,
           <1>11, <1>12, <1>13, <1>14 DEF Next
-----------------------------------------------------------------------------
LEMMA Invariance == Spec => []Inv
BY InitInv, NextInv, PTL DEF Spec

\* Type correctness of the biometrics store.
THEOREM IdentitiesTyped == Spec => []TypeOK
<1>1. Inv => TypeOK
      BY DEF Inv
<1> QED BY Invariance, <1>1, PTL

\* However many commands overlap, fail or are killed, each bundle named by the
\* saved record restores (attach_large_bytes against restore_large_bytes).
THEOREM BundlesStayRestorable == Spec => []BundlesRestorable
<1>1. Inv => BundlesRestorable
      BY DEF Inv, Sound, BundlesRestorable
<1> QED BY Invariance, <1>1, PTL
-----------------------------------------------------------------------------
(***************************************************************************)
(* Commands run one after another.  While no two were ever under way at    *)
(* once, a command is alone from its first look at the files to its last,  *)
(* and the copy it works on differs from the record by what it was asked   *)
(* for.                                                                    *)
(***************************************************************************)

\* All of a record is sealed under k.
Keyed(rec, k) ==
    /\ rec.template = k
    /\ \A n \in Name : rec.att[n] # None => rec.att[n].key = k

Sole == \A s, t \in Process : op[s] # Idle /\ op[t] # Idle => s = t

\* Nobody holds another key than the file, and nobody waits to put another
\* there over a record.
KeyInv ==
    ~overlapped =>
        /\ Sole
        /\ record # None => Keyed(record, keyring)
        /\ \A s \in Process :
              /\ held[s] # None => held[s] = keyring
              /\ op[s].pc = "creating" => keyring = None
              /\ op[s].pc = "filling" => keyring = Broken
              /\ op[s].pc = "working" => Keyed(op[s].work, keyring)

\* A command that starts, and overlaps nothing, is the only one.
LEMMA StartsAlone ==
    ASSUME NEW s \in Process, Starts(s), ~overlapped'
    PROVE  /\ ~overlapped /\ latest' = latest
           /\ \A t \in Process : op[t] = Idle
BY DEF Starts, Overlaps

\* What the commands seal is sealed under the key they hold.
LEMMA AttachWholeKeyed ==
    ASSUME NEW rec \in Record, NEW k, Keyed(rec, k), NEW b, NEW p
    PROVE  Keyed([rec EXCEPT !.att = AttachWhole(@, b, p, k)], k)
<1> DEFINE new == AttachWhole(rec.att, b, p, k)
<1>1. \A n \in Name : new[n] = rec.att[n] \/ new[n] = Sealed(k, <<p>>)
      BY DEF AttachWhole, Record, Attachments
<1>2. Sealed(k, <<p>>).key = k
      BY DEF Sealed
<1> HIDE DEF new
<1>3. \A n \in Name : new[n] # None => new[n].key = k
      BY <1>1, <1>2 DEF Keyed
<1> QED BY <1>3 DEF Keyed, Record, new

LEMMA AttachBundleKeyed ==
    ASSUME NEW rec \in Record, NEW k, Keyed(rec, k), NEW b, NEW d
    PROVE  Keyed([rec EXCEPT !.att = AttachBundle(@, b, d, k)], k)
<1> DEFINE new == AttachBundle(rec.att, b, d, k)
<1>1. ASSUME NEW n \in Name PROVE new[n] = rec.att[n] \/ new[n].key = k
      BY DEF AttachBundle, Sealed
<1> HIDE DEF new
<1>2. \A n \in Name : new[n] # None => new[n].key = k
      BY <1>1 DEF Keyed
<1> QED BY <1>2 DEF Keyed, Record, new

LEMMA RemovedKeyed ==
    ASSUME NEW rec \in Record, NEW k, Keyed(rec, k), NEW b, NEW h
    PROVE  Keyed([rec EXCEPT !.att = Removed(@, b, h)], k)
<1> DEFINE new == Removed(rec.att, b, h)
<1>1. \A n \in Name : new[n] = rec.att[n] \/ new[n] = None
      BY DEF Removed, Record, Attachments
<1> HIDE DEF new
<1>2. \A n \in Name : new[n] # None => new[n].key = k
      BY <1>1 DEF Keyed
<1> QED BY <1>2 DEF Keyed, Record, new

LEMMA NewKeyed ==
    ASSUME NEW k PROVE Keyed([template |-> k, att |-> NoAttachments], k)
BY DEF Keyed, NoAttachments

\* A command that takes up a copy sealed under the key of the file.
LEMMA WorkKeyed ==
    ASSUME Inv, KeyInv, NEW s \in Process, Starts(s), ~overlapped',
           NEW rec, Keyed(rec, keyring), NEW b, NEW d, Work(s, rec, b, d)
    PROVE  KeyInv'
<1>1. ~overlapped /\ \A t \in Process : op[t] = Idle
      BY StartsAlone
<1>2. /\ op'[s].pc = "working" /\ op'[s].work = rec
      /\ \A t \in Process \ {s} : op'[t] = Idle
      /\ UNCHANGED <<diskVars, held>>
      BY <1>1 DEF Work, Inv, TypeOK, Idle
<1>3. Idle.pc = "idle"
      BY DEF Idle
<1> QED BY <1>1, <1>2, <1>3 DEF KeyInv, Sole, diskVars

\* A step after which nobody but the sole command is in one.
LEMMA IdledKeyed ==
    ASSUME Inv, KeyInv, ~overlapped, overlapped' = overlapped, NEW s \in Process,
           op' = [op EXCEPT ![s] = Idle], op[s] # Idle
    PROVE  \A t \in Process : op'[t] = Idle
BY DEF KeyInv, Sole, Inv, TypeOK

LEMMA KeyStep == Inv /\ KeyInv /\ [Next]_vars => KeyInv'
<1> SUFFICES ASSUME Inv, KeyInv, [Next]_vars, ~overlapped' PROVE KeyInv'
    BY DEF KeyInv
<1>i. Idle.pc = "idle"
      BY DEF Idle
<1>t. /\ op \in [Process -> Op] /\ held \in [Process -> Key \cup {None}]
      /\ keyring \in Key \cup {None, Broken} /\ record \in Record \cup {None}
      BY DEF Inv, TypeOK
<1>1. CASE UNCHANGED vars
      BY <1>1 DEF vars, diskVars, historyVars, KeyInv, Sole
<1>2. ASSUME NEW s \in Process, Unlock(s) PROVE KeyInv'
      BY <1>t, <1>2 DEF Unlock, diskVars, historyVars, KeyInv, Sole
<1>3. ASSUME NEW s \in Process, BeginKeyring(s) PROVE KeyInv'
  <2>1. ~overlapped /\ \A t \in Process : op[t] = Idle
        BY <1>3, StartsAlone DEF BeginKeyring
  <2>2. /\ op'[s].pc = "creating" /\ \A t \in Process \ {s} : op'[t] = Idle
        /\ UNCHANGED <<diskVars, held>> /\ keyring = None
        BY <1>t, <1>3, <2>1 DEF BeginKeyring, Idle
  <2> QED BY <1>i, <2>1, <2>2 DEF KeyInv, Sole, diskVars
<1>4. ASSUME NEW s \in Process, FinishKeyring(s) PROVE KeyInv'
  <2>1. /\ op[s] # Idle /\ ~overlapped /\ overlapped' = overlapped /\ record' = record
        /\ op' = [op EXCEPT ![s] = Idle] /\ op[s].pc = "creating"
        /\ held' = [held EXCEPT ![s] = keyring']
        BY <1>4, <1>i DEF FinishKeyring, historyVars
  <2>2. \A t \in Process : op'[t] = Idle
        BY <2>1, IdledKeyed
  <2>3. keyring = None
        BY <2>1 DEF KeyInv
  <2>4. record = None
        BY <1>t, <2>1, <2>3, NamesAssumption, NoneAssumption DEF KeyInv, Keyed, Record
  <2>5. \A t \in Process : held[t] = None
        BY <2>1, <2>3 DEF KeyInv
  <2> QED BY <1>t, <1>i, <2>1, <2>2, <2>4, <2>5 DEF KeyInv, Sole
<1>5. ASSUME NEW s \in Process, TruncateKeyring(s) PROVE KeyInv'
  <2>1. /\ op[s] # Idle /\ ~overlapped /\ op[s].pc = "creating"
        /\ record' = record /\ held' = held /\ keyring' = Broken
        BY <1>5, <1>i DEF TruncateKeyring, historyVars
  <2>2. op'[s].pc = "filling" /\ \A t \in Process \ {s} : op'[t] = op[t]
        BY <1>t, <1>5 DEF TruncateKeyring, Idle
  <2>3. \A t \in Process \ {s} : op'[t] = Idle
        BY <2>1, <2>2 DEF KeyInv, Sole
  <2>4. keyring = None
        BY <2>1 DEF KeyInv
  <2>5. record = None
        BY <1>t, <2>1, <2>4, NamesAssumption, NoneAssumption DEF KeyInv, Keyed, Record
  <2>6. \A t \in Process : held[t] = None
        BY <2>1, <2>4 DEF KeyInv
  <2> QED BY <1>t, <1>i, <2>1, <2>2, <2>3, <2>5, <2>6 DEF KeyInv, Sole
<1>6. ASSUME NEW s \in Process, FillKeyring(s) PROVE KeyInv'
  <2>1. /\ op[s] # Idle /\ ~overlapped /\ overlapped' = overlapped /\ record' = record
        /\ op' = [op EXCEPT ![s] = Idle] /\ op[s].pc = "filling"
        /\ held' = [held EXCEPT ![s] = keyring']
        BY <1>6, <1>i DEF FillKeyring, historyVars
  <2>2. \A t \in Process : op'[t] = Idle
        BY <2>1, IdledKeyed
  <2>3. keyring = Broken
        BY <2>1 DEF KeyInv
  <2>4. record = None
        BY <1>t, <2>1, <2>3, NamesAssumption DEF KeyInv, Keyed, Record
  <2>5. \A t \in Process : held[t] = None
        BY <1>t, <2>1, <2>3, NamesAssumption DEF KeyInv
  <2> QED BY <1>t, <1>i, <2>1, <2>2, <2>4, <2>5 DEF KeyInv, Sole
<1>7. ASSUME NEW s \in Process, Enroll(s) PROVE KeyInv'
  <2>1. Starts(s) /\ held[s] = keyring
        BY <1>7, StartsAlone DEF Enroll, KeyInv
  <2>2. Keyed([template |-> held[s], att |-> NoAttachments], keyring)
        BY <2>1, NewKeyed
  <2> QED BY <1>7, <2>1, <2>2, WorkKeyed DEF Enroll
<1>8. ASSUME NEW s \in Process, NEW b \in SmallNames, NEW p \in SmallFile,
             AttachFile(s, b, p)
      PROVE  KeyInv'
  <2>1. Starts(s) /\ held[s] = keyring /\ Keyed(record, keyring) /\ record \in Record
        BY <1>t, <1>8, StartsAlone DEF AttachFile, KeyInv
  <2>2. Keyed([record EXCEPT !.att = AttachWhole(@, b, p, held[s])], keyring)
        BY <2>1, AttachWholeKeyed
  <2> QED BY <1>8, <2>1, <2>2, WorkKeyed DEF AttachFile
<1>9. ASSUME NEW s \in Process, NEW b \in BundleNames, NEW d \in Bundle,
             AttachPaths(s, b, d)
      PROVE  KeyInv'
  <2>1. Starts(s) /\ held[s] = keyring /\ Keyed(record, keyring) /\ record \in Record
        BY <1>t, <1>9, StartsAlone DEF AttachPaths, KeyInv
  <2>2. Keyed([record EXCEPT !.att = AttachBundle(@, b, d, held[s])], keyring)
        BY <2>1, AttachBundleKeyed
  <2> QED BY <1>9, <2>1, <2>2, WorkKeyed DEF AttachPaths
<1>10. ASSUME NEW s \in Process, NEW b \in Base, RemoveAttachment(s, b)
       PROVE  KeyInv'
  <2>1. Starts(s) /\ Keyed(record, keyring) /\ record \in Record
        BY <1>t, <1>10, StartsAlone DEF RemoveAttachment, KeyInv
  <2>2. Keyed([record EXCEPT !.att = Removed(@, b, held[s])], keyring)
        BY <2>1, RemovedKeyed
  <2> QED BY <1>10, <2>1, <2>2, WorkKeyed DEF RemoveAttachment
<1>11. ASSUME NEW s \in Process, Save(s) PROVE KeyInv'
  <2>1. /\ op[s] # Idle /\ ~overlapped /\ overlapped' = overlapped
        /\ op' = [op EXCEPT ![s] = Idle] /\ op[s].pc = "working"
        /\ record' = op[s].work /\ UNCHANGED <<keyring, held>>
        BY <1>11, <1>i DEF Save
  <2>2. \A t \in Process : op'[t] = Idle
        BY <2>1, IdledKeyed
  <2> QED BY <1>i, <2>1, <2>2 DEF KeyInv, Sole
<1>12. ASSUME NEW s \in Process, Delete(s) PROVE KeyInv'
  <2>1. ~overlapped /\ \A t \in Process : op[t] = Idle
        BY <1>12 DEF Delete, Overlaps
  <2>2. record' = None /\ UNCHANGED <<keyring, held, op>>
        BY <1>12 DEF Delete
  <2> QED BY <2>1, <2>2 DEF KeyInv, Sole
<1>13. ASSUME NEW s \in Process, Abandon(s) \/ Exit(s) PROVE KeyInv'
  <2>1. /\ ~overlapped /\ op' = [op EXCEPT ![s] = Idle] /\ UNCHANGED diskVars
        /\ \A t \in Process : held'[t] \in {None, held[t]}
        BY <1>t, <1>13 DEF Abandon, Exit, historyVars
  <2>2. \A t \in Process : op'[t] \in {op[t], Idle}
        BY <1>t, <2>1
  <2> QED BY <1>i, <2>1, <2>2 DEF KeyInv, Sole, diskVars
<1> QED BY <1>1, <1>2, <1>3, <1>4, <1>5, <1>6, <1>7, <1>8, <1>9, <1>10,
           <1>11, <1>12, <1>13 DEF Next

\* Commands that run one after another, killed and restarted at will, leave
\* nothing in the record that the keyring file does not open.
THEOREM SerialKeepsOneKey == Spec => []EverythingOpens
<1>1. Init => KeyInv
      BY DEF Init, KeyInv, Sole, Idle
<1>2. KeyInv => EverythingOpens
      BY DEF KeyInv, Keyed, EverythingOpens
<1> QED BY InitInv, NextInv, KeyStep, <1>1, <1>2, PTL DEF Spec
-----------------------------------------------------------------------------
(* What extract-attachment returns.                                        *)

\* What an attachment holds, as a file or as the manifest of a bundle.
Holds(att, n) == IF att[n] = None THEN None ELSE att[n].data

\* What a copy holds that was taken up to set n to d.
Changed(att, n, d, l) ==
    \A m \in Attached : Holds(att, m) = IF n = None THEN None
                                        ELSE IF m = n THEN d ELSE l[m]

\* latest is what the record holds; a copy under way differs by what its
\* command was asked for.
LatestInv ==
    ~overlapped =>
        /\ \A m \in Attached : latest[m] = IF record = None THEN None
                                           ELSE Holds(record.att, m)
        /\ \A s \in Process : op[s].pc = "working" =>
              Changed(op[s].work.att, op[s].name, op[s].data, latest)

\* Of a record whose bundles restore.
LEMMA ExtractedSound ==
    ASSUME NEW rec, Sound(rec), NEW c \in Base
    PROVE  Extracted(rec.att, c) =
              IF HasManifest(rec.att, c) THEN Holds(rec.att, <<c, "manifest">>)
              ELSE Holds(rec.att, <<c, "whole">>)
BY DEF Sound, Extracted, HasManifest, Holds

LEMMA AttachWholeHolds ==
    ASSUME NEW rec \in Record, NEW b \in Base, NEW p \in Piece, NEW k \in Key
    PROVE  LET new == [rec EXCEPT !.att = AttachWhole(@, b, p, k)]
           IN  \A m \in Attached : Holds(new.att, m) =
                  IF m = <<b, "whole">> THEN <<p>> ELSE Holds(rec.att, m)
<1> DEFINE new == [rec EXCEPT !.att = AttachWhole(@, b, p, k)]
<1>1. /\ new.att = [rec.att EXCEPT ![<<b, "whole">>] = Sealed(k, <<p>>)]
      /\ rec.att \in Attachments
      BY DEF AttachWhole, Record
<1>2. Sealed(k, <<p>>).data = <<p>> /\ Sealed(k, <<p>>) # None
      BY SealedTyped, NoneAssumption DEF Sealed
<1> HIDE DEF new
<1>3. ASSUME NEW m \in Attached
      PROVE  new.att[m] = IF m = <<b, "whole">> THEN Sealed(k, <<p>>) ELSE rec.att[m]
      BY <1>1, AttachedNames DEF Attachments
<1>4. \A m \in Attached : Holds(new.att, m) =
         IF m = <<b, "whole">> THEN <<p>> ELSE Holds(rec.att, m)
      BY <1>2, <1>3 DEF Holds
<1> QED BY <1>4 DEF new

LEMMA AttachBundleHolds ==
    ASSUME NEW rec \in Record, NEW b \in BundleNames, NEW d \in Bundle, NEW k \in Key
    PROVE  LET new == [rec EXCEPT !.att = AttachBundle(@, b, d, k)]
           IN  \A m \in Attached : Holds(new.att, m) =
                  IF m = <<b, "manifest">> THEN d ELSE Holds(rec.att, m)
<1> DEFINE new == [rec EXCEPT !.att = AttachBundle(@, b, d, k)]
           manifest == [key |-> k, chunks |-> SubSeq(Chunk, 1, Len(d)), data |-> d]
<1>1. new.att = AttachBundle(rec.att, b, d, k) /\ b \in Base /\ Len(d) <= Len(Chunk)
      BY NamesAssumption DEF Record
<1>2. \A i \in DOMAIN d : Chunk[i] \in ChunkPart
      BY <1>1, NamesAssumption, ChunkAssumption DEF ChunkPart
<1>3. manifest.data = d /\ manifest # None
  <2>1. manifest \in Entry
        BY NamesAssumption, ChunksListed DEF Entry
  <2> QED BY <2>1, NoneAssumption
<1> HIDE DEF new
<1>4. ASSUME NEW m \in Attached
      PROVE  new.att[m] = IF m = <<b, "manifest">> THEN manifest ELSE rec.att[m]
      BY <1>1, <1>2, AttachedNames DEF AttachBundle
<1> HIDE DEF manifest
<1>5. \A m \in Attached : Holds(new.att, m) =
         IF m = <<b, "manifest">> THEN d ELSE Holds(rec.att, m)
      BY <1>3, <1>4 DEF Holds
<1> QED BY <1>5 DEF new

LEMMA RemovedHolds ==
    ASSUME NEW rec \in Record, NEW b \in Base, NEW k, NEW top,
           top = IF HasManifest(rec.att, b) THEN <<b, "manifest">> ELSE <<b, "whole">>
    PROVE  LET new == [rec EXCEPT !.att = Removed(@, b, k)]
           IN  \A m \in Attached : Holds(new.att, m) =
                  IF m = top THEN None ELSE Holds(rec.att, m)
<1> DEFINE new == [rec EXCEPT !.att = Removed(@, b, k)]
<1>1. new.att = Removed(rec.att, b, k) /\ rec.att \in Attachments
      BY DEF Record
<1> HIDE DEF new
<1>2. ASSUME NEW m \in Attached
      PROVE  new.att[m] = IF m = top THEN None ELSE rec.att[m]
  <2>1. CASE HasManifest(rec.att, b)
    <3>1. rec.att[<<b, "manifest">>] \in Entry
          BY <1>1, <2>1, AttachedNames DEF HasManifest, Attachments
    <3>2. \A i \in DOMAIN rec.att[<<b, "manifest">>].chunks :
             rec.att[<<b, "manifest">>].chunks[i] \in ChunkPart
          BY <3>1 DEF Entry
    <3> QED BY <1>1, <2>1, <3>2, AttachedNames DEF Removed
  <2>2. CASE ~HasManifest(rec.att, b)
        BY <1>1, <2>2, AttachedNames DEF Removed, Attachments
  <2> QED BY <2>1, <2>2
<1>3. \A m \in Attached : Holds(new.att, m) =
         IF m = top THEN None ELSE Holds(rec.att, m)
      BY <1>2 DEF Holds
<1> QED BY <1>3 DEF new

\* The history tells which of the two the record has.
LEMMA UppermostHeld ==
    ASSUME LatestInv, ~overlapped, record \in Record, NEW b \in Base
    PROVE  Uppermost(b) = IF HasManifest(record.att, b) THEN <<b, "manifest">>
                          ELSE <<b, "whole">>
<1>1. record # None /\ latest[<<b, "manifest">>] = Holds(record.att, <<b, "manifest">>)
      BY AttachedNames, NoneAssumption DEF LatestInv
<1>2. record.att[<<b, "manifest">>] # None =>
         Holds(record.att, <<b, "manifest">>) # None
  <2>1. record.att[<<b, "manifest">>] \in Entry \cup {None}
        BY AttachedNames DEF Record, Attachments
  <2> QED BY <2>1, NamesAssumption DEF Holds, Entry
<1> QED BY <1>1, <1>2 DEF Uppermost, HasManifest, Holds

\* A command that takes up a copy with the change it was asked for.
LEMMA WorkLatest ==
    ASSUME Inv, LatestInv, NEW s \in Process, Starts(s), ~overlapped',
           NEW rec, NEW n, NEW d, Changed(rec.att, n, d, latest),
           Work(s, rec, n, d)
    PROVE  LatestInv'
<1>1. ~overlapped /\ latest' = latest /\ \A t \in Process : op[t] = Idle
      BY StartsAlone
<1>2. /\ op'[s].work = rec /\ op'[s].name = n /\ op'[s].data = d
      /\ \A t \in Process \ {s} : op'[t] = Idle
      /\ UNCHANGED diskVars
      BY <1>1 DEF Work, Inv, TypeOK, Idle
<1>3. Idle.pc = "idle"
      BY DEF Idle
<1> QED BY <1>1, <1>2, <1>3 DEF LatestInv, diskVars

LEMMA LatestStep ==
    ASSUME Inv, KeyInv, LatestInv, [Next]_vars
    PROVE  LatestInv'
<1> SUFFICES ASSUME ~overlapped' PROVE LatestInv'
    BY DEF LatestInv
<1>i. Idle.pc = "idle"
      BY DEF Idle
<1>t. /\ op \in [Process -> Op] /\ latest \in [Attached -> Seq(Piece) \cup {None}]
      /\ record \in Record \cup {None} /\ held \in [Process -> Key \cup {None}]
      BY DEF Inv, TypeOK
<1>0. ASSUME record' = record, overlapped' = overlapped, latest' = latest,
             \A t \in Process : op'[t] = op[t] \/ op'[t].pc # "working"
      PROVE  LatestInv'
      BY <1>0 DEF LatestInv
<1>1. CASE UNCHANGED vars
      BY <1>0, <1>1 DEF vars, diskVars, historyVars
<1>2. ASSUME NEW s \in Process, Unlock(s) PROVE LatestInv'
      BY <1>0, <1>2 DEF Unlock, diskVars, historyVars
<1>3. ASSUME NEW s \in Process, BeginKeyring(s) PROVE LatestInv'
  <2>1. ~overlapped /\ latest' = latest /\ record' = record
        BY <1>3, StartsAlone DEF BeginKeyring, diskVars
  <2>2. \A t \in Process : op'[t] = op[t] \/ op'[t].pc = "creating"
        BY <1>t, <1>3 DEF BeginKeyring, Idle
  <2> QED BY <2>1, <2>2 DEF LatestInv
<1>4. ASSUME NEW s \in Process,
             FinishKeyring(s) \/ FillKeyring(s) \/ Abandon(s) \/ Exit(s)
      PROVE  LatestInv'
  <2>1. /\ op' = [op EXCEPT ![s] = Idle] /\ record' = record
        /\ overlapped' = overlapped /\ latest' = latest
        BY <1>4 DEF FinishKeyring, FillKeyring, Abandon, Exit, diskVars, historyVars
  <2> QED BY <1>t, <1>i, <1>0, <2>1
<1>5. ASSUME NEW s \in Process, TruncateKeyring(s) PROVE LatestInv'
  <2>1. \A t \in Process : op'[t] = op[t] \/ op'[t].pc = "filling"
        BY <1>t, <1>5 DEF TruncateKeyring, Idle
  <2> QED BY <1>0, <1>5, <2>1 DEF TruncateKeyring, historyVars
<1>6. ASSUME record # None, ~overlapped
      PROVE  /\ record \in Record
             /\ \A m \in Attached : latest[m] = Holds(record.att, m)
      BY <1>t, <1>6 DEF LatestInv
<1>7. ASSUME NEW s \in Process, Enroll(s) PROVE LatestInv'
  <2> DEFINE rec == [template |-> held[s], att |-> NoAttachments]
  <2>1. Starts(s) /\ rec.att = NoAttachments
        BY <1>7 DEF Enroll
  <2>2. Changed(rec.att, None, None, latest)
        BY <2>1, AttachedNames DEF Changed, Holds, NoAttachments
  <2> HIDE DEF rec
  <2>3. Work(s, rec, None, None)
        BY <1>7 DEF Enroll, rec
  <2> QED BY <2>1, <2>2, <2>3, WorkLatest
<1>8. ASSUME NEW s \in Process, NEW b \in SmallNames, NEW p \in SmallFile,
             AttachFile(s, b, p)
      PROVE  LatestInv'
  <2> DEFINE rec == [record EXCEPT !.att = AttachWhole(@, b, p, held[s])]
  <2>1. /\ Starts(s) /\ held[s] \in Key /\ record # None /\ ~overlapped
        /\ p \in Piece /\ b \in Base
        BY <1>t, <1>8, NamesAssumption, StartsAlone DEF AttachFile
  <2>2. \A m \in Attached : Holds(rec.att, m) =
           IF m = <<b, "whole">> THEN <<p>> ELSE Holds(record.att, m)
        BY <1>6, <2>1, AttachWholeHolds
  <2> HIDE DEF rec
  <2>3. Changed(rec.att, <<b, "whole">>, <<p>>, latest)
        BY <1>6, <2>1, <2>2, AttachedNames, NamesAssumption DEF Changed
  <2>4. Work(s, rec, <<b, "whole">>, <<p>>)
        BY <1>8 DEF AttachFile, rec
  <2> QED BY <2>1, <2>3, <2>4, WorkLatest
<1>9. ASSUME NEW s \in Process, NEW b \in BundleNames, NEW d \in Bundle,
             AttachPaths(s, b, d)
      PROVE  LatestInv'
  <2> DEFINE rec == [record EXCEPT !.att = AttachBundle(@, b, d, held[s])]
  <2>1. /\ Starts(s) /\ held[s] \in Key /\ record # None /\ ~overlapped
        /\ b \in Base
        BY <1>t, <1>9, NamesAssumption, StartsAlone DEF AttachPaths
  <2>2. \A m \in Attached : Holds(rec.att, m) =
           IF m = <<b, "manifest">> THEN d ELSE Holds(record.att, m)
        BY <1>6, <2>1, AttachBundleHolds
  <2> HIDE DEF rec
  <2>3. Changed(rec.att, <<b, "manifest">>, d, latest)
        BY <1>6, <2>1, <2>2, AttachedNames, NamesAssumption DEF Changed
  <2>4. Work(s, rec, <<b, "manifest">>, d)
        BY <1>9 DEF AttachPaths, rec
  <2> QED BY <2>1, <2>3, <2>4, WorkLatest
<1>10. ASSUME NEW s \in Process, NEW b \in Base, RemoveAttachment(s, b)
       PROVE  LatestInv'
  <2> DEFINE rec == [record EXCEPT !.att = Removed(@, b, held[s])]
             top == Uppermost(b)
  <2>1. Starts(s) /\ record # None /\ ~overlapped
        BY <1>10, StartsAlone DEF RemoveAttachment
  <2>2. top = IF HasManifest(record.att, b) THEN <<b, "manifest">> ELSE <<b, "whole">>
        BY <1>6, <2>1, UppermostHeld
  <2>3. Work(s, rec, top, None)
        BY <1>10 DEF RemoveAttachment
  <2> HIDE DEF top
  <2>4. \A m \in Attached : Holds(rec.att, m) =
           IF m = top THEN None ELSE Holds(record.att, m)
        BY <1>6, <2>1, <2>2, RemovedHolds
  <2> HIDE DEF rec
  <2>5. top \in Attached
        BY <2>2, AttachedNames
  <2>6. Changed(rec.att, top, None, latest)
        BY <1>6, <2>1, <2>4, <2>5, NamesAssumption DEF Changed
  <2> QED BY <2>1, <2>3, <2>6, WorkLatest
<1>11. ASSUME NEW s \in Process, Save(s) PROVE LatestInv'
  <2>1. /\ op[s] # Idle /\ ~overlapped /\ overlapped' = overlapped
        /\ op' = [op EXCEPT ![s] = Idle] /\ op[s].pc = "working"
        /\ record' = op[s].work /\ op[s].work # None
        /\ latest' = IF op[s].name = None THEN NothingLatest
                     ELSE [latest EXCEPT ![op[s].name] = op[s].data]
        BY <1>11, <1>i DEF Save, Inv, TypeOK
  <2>2. \A t \in Process : op'[t] = Idle
        BY <2>1, IdledKeyed
  <2>3. Changed(op[s].work.att, op[s].name, op[s].data, latest)
        BY <2>1 DEF LatestInv
  <2>4. \A m \in Attached : latest'[m] = Holds(op[s].work.att, m)
        BY <1>t, <2>1, <2>3 DEF Changed, NothingLatest
  <2> QED BY <1>i, <2>1, <2>2, <2>4 DEF LatestInv
<1>12. ASSUME NEW s \in Process, Delete(s) PROVE LatestInv'
  <2>1. ~overlapped /\ \A t \in Process : op[t] = Idle
        BY <1>12 DEF Delete, Overlaps
  <2>2. record' = None /\ latest' = NothingLatest /\ op' = op
        BY <1>12 DEF Delete
  <2> QED BY <1>i, <2>1, <2>2 DEF LatestInv, NothingLatest
<1> QED BY <1>1, <1>2, <1>3, <1>4, <1>5, <1>7, <1>8, <1>9, <1>10, <1>11, <1>12 DEF Next

\* Commands that run one after another, killed and restarted at will, keep what
\* extract-attachment returns for a name equal to the bundle last attached under
\* it or, when there is none, to the file last attached under it.
THEOREM SerialExtractsLatest == Spec => []LatestExtracted
<1>1. Init => KeyInv /\ LatestInv
      BY DEF Init, KeyInv, Sole, LatestInv, NothingLatest, Idle
<1>2. Inv /\ LatestInv => LatestExtracted
  <2> SUFFICES ASSUME Inv, LatestInv, ~overlapped, NEW b \in Base
               PROVE  latest[Uppermost(b)] = IF record = None THEN None
                                             ELSE Extracted(record.att, b)
      BY DEF LatestExtracted
  <2>1. CASE record = None
        BY <2>1, AttachedNames DEF LatestInv, Uppermost
  <2>2. CASE record # None
    <3>1. Sound(record) /\ record \in Record
          BY <2>2 DEF Inv, Sound
    <3>2. Uppermost(b) = IF HasManifest(record.att, b) THEN <<b, "manifest">>
                         ELSE <<b, "whole">>
          BY <3>1, UppermostHeld
    <3> QED BY <2>2, <3>1, <3>2, ExtractedSound, AttachedNames DEF LatestInv
  <2> QED BY <2>1, <2>2
<1>3. Inv /\ KeyInv /\ LatestInv /\ [Next]_vars => LatestInv'
      BY LatestStep
<1> QED BY InitInv, NextInv, KeyStep, <1>1, <1>2, <1>3, PTL DEF Spec
=============================================================================
