----------------------------- MODULE Identities -----------------------------
(***************************************************************************)
(* The biometrics keyring and the record of one identity, with the         *)
(* processes that work on them: CLI commands (biometrics/app.py) and GUI   *)
(* tabs (gui/tabs/tab_biometrics.py).  Records of other identities are     *)
(* other files.  A command loads the record, works on its copy for a long  *)
(* time (features, zip files, sealing) and saves the copy whole; nothing   *)
(* is locked meanwhile.  A large file or a set of paths is attached as a   *)
(* bundle: chunks and a manifest, all ordinary attachments.                *)
(***************************************************************************)
EXTENDS Naturals, Sequences

CONSTANTS
    Process,
    Key,          \* master keys the code draws
    Base,         \* the names users give to attachments
    Chunk,        \* the suffixes ".chunk0", ".chunk1", ... in order
    Piece,        \* contents of one chunk
    SmallNames,   \* names under which small files are attached
    SmallFile,    \* and their contents, of one Piece
    BundleNames,  \* names under which large files or paths are attached
    Bundle,       \* their contents: sequences of Piece
    None, Broken  \* no file or entry; a file that is not JSON

ChunkPart == {Chunk[i] : i \in DOMAIN Chunk}

\* A file and a bundle attached under one name are kept side by side.
Attached == Base \X {"whole", "manifest"}

ASSUME ChunkAssumption ==
    /\ Chunk \in Seq(ChunkPart)
    /\ \A i, j \in DOMAIN Chunk : Chunk[i] = Chunk[j] => i = j
    /\ {"whole", "manifest"} \cap ChunkPart = {}

ASSUME NamesAssumption ==
    /\ SmallNames \subseteq Base /\ BundleNames \subseteq Base
    /\ SmallFile \subseteq Piece
    /\ Bundle \subseteq {d \in Seq(Piece) : Len(d) <= Len(Chunk)}
    /\ {None, Broken} \cap Key = {} /\ None \notin Attached \cup Seq(Piece)

VARIABLES
    keyring,     \* keyring.json: its master key, None or Broken
    record,      \* the identity's file, or None
    held,        \* the key a process has unlocked, or None
    op,          \* the command each process is in
    minted,      \* keys drawn so far
    \* History, for the properties.
    overlapped,  \* whether two commands were ever under way at once
    latest       \* until then: what completed commands left under each name,
                 \* of files and of bundles

diskVars == <<keyring, record>>
historyVars == <<overlapped, latest>>
vars == <<diskVars, held, op, minted, historyVars>>

\* The name in the code is the base followed by ".manifest", ".chunk0", ...
Name == Base \X ({"whole", "manifest"} \cup ChunkPart)

\* A sealed entry.  A manifest lists its chunks; its data stands for the size
\* and the SHA-256 of the whole content.
Entry == [key : Key, chunks : Seq(ChunkPart), data : Seq(Piece)]
Attachments == [Name -> Entry \cup {None}]
Record == [template : Key, att : Attachments]

ASSUME NoneAssumption == None \notin Entry \cup Record

Sealed(k, d) == [key |-> k, chunks |-> << >>, data |-> d]

\* attach_bytes -> set_attachment
AttachWhole(att, b, p, k) == [att EXCEPT ![<<b, "whole">>] = Sealed(k, <<p>>)]

\* attach_large_bytes.  Chunks that the new content does not need stay.
AttachBundle(att, b, d, k) ==
    [n \in Name |->
        IF n[1] = b /\ \E i \in DOMAIN d : n[2] = Chunk[i]
        THEN Sealed(k, <<d[CHOOSE i \in DOMAIN d : n[2] = Chunk[i]]>>)
        ELSE IF n = <<b, "manifest">>
        THEN [key |-> k, chunks |-> SubSeq(Chunk, 1, Len(d)), data |-> d]
        ELSE att[n]]

HasManifest(att, b) == att[<<b, "manifest">>] # None

\* Seeded fault: a bundle is not told from a plain attachment.
RemovedAsPlain(att, b, k) == [att EXCEPT ![<<b, "whole">>] = None]

\* Seeded fault: the manifest of a removed bundle stays.
RemovedButManifest(att, b, k) ==
    [n \in Name |->
        IF HasManifest(att, b)
        THEN IF n[1] = b /\ \E i \in DOMAIN att[<<b, "manifest">>].chunks :
                                n[2] = att[<<b, "manifest">>].chunks[i]
             THEN None ELSE att[n]
        ELSE IF n = <<b, "whole">> THEN None ELSE att[n]]

\* command_remove_attachment.  A manifest that does not open under the key
\* goes without its chunks.
Removed(att, b, k) ==
    LET manifest == att[<<b, "manifest">>]
        Listed(n) == /\ manifest.key = k
                     /\ n[1] = b
                     /\ \E i \in DOMAIN manifest.chunks : n[2] = manifest.chunks[i]
    IN  IF HasManifest(att, b)
        THEN [n \in Name |-> IF n = <<b, "manifest">> \/ Listed(n) THEN None
                             ELSE att[n]]
        ELSE [att EXCEPT ![<<b, "whole">>] = None]

\* restore_large_bytes: every listed chunk opens, and what they hold is the
\* content the manifest was made from.
Restores(att, b) ==
    LET manifest == att[<<b, "manifest">>]
    IN  /\ Len(manifest.chunks) = Len(manifest.data)
        /\ \A i \in DOMAIN manifest.chunks :
              att[<<b, manifest.chunks[i]>>] = Sealed(manifest.key, <<manifest.data[i]>>)

\* command_extract_attachment: a manifest of that name comes first.
Extracted(att, b) ==
    IF HasManifest(att, b)
    THEN IF Restores(att, b) THEN att[<<b, "manifest">>].data ELSE None
    ELSE IF att[<<b, "whole">>] # None THEN att[<<b, "whole">>].data ELSE None

NoAttachments == [n \in Name |-> None]
NothingLatest == [n \in Attached |-> None]
-----------------------------------------------------------------------------
\* key: of a keyring being written; work: the copy to be saved; name, data:
\* what it holds that is new, None for every name or for nothing.
Op == [pc : {"idle", "creating", "filling", "working"},
       key : Key \cup {None}, work : Record \cup {None},
       name : Attached \cup {None}, data : Seq(Piece) \cup {None}]

Idle == [pc |-> "idle", key |-> None, work |-> None, name |-> None, data |-> None]

Init ==
    /\ keyring = None
    /\ record = None
    /\ held = [s \in Process |-> None]
    /\ op = [s \in Process |-> Idle]
    /\ minted = {}
    /\ overlapped = FALSE
    /\ latest = NothingLatest

Overlaps == overlapped \/ \E s \in Process : op[s] # Idle

Starts(s) ==
    /\ op[s] = Idle
    /\ overlapped' = Overlaps
    /\ latest' = IF Overlaps THEN NothingLatest ELSE latest
-----------------------------------------------------------------------------
(* The keyring: _load_or_create_keyring and _unlock_keyring of the CLI,    *)
(* _ensure_keyring of the GUI.  Its throttle is that of AttemptLimiter.    *)

Unlock(s) ==
    /\ op[s] = Idle /\ held[s] = None
    /\ keyring \in Key
    /\ held' = [held EXCEPT ![s] = keyring]
    /\ UNCHANGED <<diskVars, op, minted, historyVars>>

\* Seeded fault: a keyring is made without a look for an existing one.
BeginKeyringBlindly(s) ==
    /\ Starts(s) /\ held[s] = None
    /\ op' = [op EXCEPT ![s] = [Idle EXCEPT !.pc = "creating"]]
    /\ UNCHANGED <<diskVars, held, minted>>

\* The only look at the path; prompts and two key derivations follow.
BeginKeyring(s) ==
    /\ Starts(s) /\ held[s] = None
    /\ keyring = None
    /\ op' = [op EXCEPT ![s] = [Idle EXCEPT !.pc = "creating"]]
    /\ UNCHANGED <<diskVars, held, minted>>

\* The CLI replaces the file atomically.
FinishKeyring(s) ==
    /\ op[s].pc = "creating"
    /\ \E k \in Key \ minted :
        /\ keyring' = k
        /\ held' = [held EXCEPT ![s] = k]
        /\ minted' = minted \cup {k}
    /\ op' = [op EXCEPT ![s] = Idle]
    /\ UNCHANGED <<record, historyVars>>

\* The GUI truncates the file and then writes to it.
TruncateKeyring(s) ==
    /\ op[s].pc = "creating"
    /\ \E k \in Key \ minted :
        /\ op' = [op EXCEPT ![s] = [Idle EXCEPT !.pc = "filling", !.key = k]]
        /\ minted' = minted \cup {k}
    /\ keyring' = Broken
    /\ UNCHANGED <<record, held, historyVars>>

FillKeyring(s) ==
    /\ op[s].pc = "filling"
    /\ keyring' = op[s].key
    /\ held' = [held EXCEPT ![s] = op[s].key]
    /\ op' = [op EXCEPT ![s] = Idle]
    /\ UNCHANGED <<record, minted, historyVars>>
-----------------------------------------------------------------------------
(* Commands on the record.                                                 *)

Work(s, rec, n, d) ==
    /\ op' = [op EXCEPT ![s] = [Idle EXCEPT !.pc = "working", !.work = rec,
                                          !.name = n, !.data = d]]
    /\ UNCHANGED <<diskVars, held, minted>>

\* The existence check comes before the extraction of the templates.
Enroll(s) ==
    /\ Starts(s) /\ held[s] # None
    /\ record = None
    /\ Work(s, [template |-> held[s], att |-> NoAttachments], None, None)

\* command_attach with a small file.
AttachFile(s, b, p) ==
    /\ Starts(s) /\ held[s] # None
    /\ record # None
    /\ Work(s, [record EXCEPT !.att = AttachWhole(@, b, p, held[s])],
            <<b, "whole">>, <<p>>)

\* command_attach with a large file, command_attach_paths, and every
\* attachment made in the GUI.
AttachPaths(s, b, d) ==
    /\ Starts(s) /\ held[s] # None
    /\ record # None
    /\ Work(s, [record EXCEPT !.att = AttachBundle(@, b, d, held[s])],
            <<b, "manifest">>, d)

\* Of a bundle and a file attached under b, the one that extract and remove
\* are about.
Uppermost(b) ==
    IF latest[<<b, "manifest">>] # None THEN <<b, "manifest">> ELSE <<b, "whole">>

\* Only a bundle needs the key.
RemoveAttachment(s, b) ==
    /\ Starts(s)
    /\ record # None
    /\ HasManifest(record.att, b) => held[s] # None
    /\ Work(s, [record EXCEPT !.att = Removed(@, b, held[s])],
            Uppermost(b), None)

Save(s) ==
    /\ op[s].pc = "working"
    /\ record' = op[s].work
    /\ latest' = IF overlapped \/ op[s].name = None THEN NothingLatest
                 ELSE [latest EXCEPT ![op[s].name] = op[s].data]
    /\ op' = [op EXCEPT ![s] = Idle]
    /\ UNCHANGED <<keyring, held, minted, overlapped>>

Delete(s) ==
    /\ op[s] = Idle
    /\ record # None
    /\ overlapped' = Overlaps
    /\ latest' = NothingLatest
    /\ record' = None
    /\ UNCHANGED <<keyring, held, op, minted>>

\* The command fails before its save.
Abandon(s) ==
    /\ op[s] # Idle
    /\ op' = [op EXCEPT ![s] = Idle]
    /\ UNCHANGED <<diskVars, held, minted, historyVars>>

\* The process ends, in a command or between two.
Exit(s) ==
    /\ held[s] # None \/ op[s] # Idle
    /\ held' = [held EXCEPT ![s] = None]
    /\ op' = [op EXCEPT ![s] = Idle]
    /\ UNCHANGED <<diskVars, minted, historyVars>>

Next == \E s \in Process :
    \/ Unlock(s) \/ BeginKeyring(s) \/ FinishKeyring(s)
    \/ TruncateKeyring(s) \/ FillKeyring(s)
    \/ Enroll(s)
    \/ \E b \in SmallNames, p \in SmallFile : AttachFile(s, b, p)
    \/ \E b \in BundleNames, d \in Bundle : AttachPaths(s, b, d)
    \/ \E b \in Base : RemoveAttachment(s, b)
    \/ Save(s) \/ Delete(s) \/ Abandon(s) \/ Exit(s)

Spec == Init /\ [][Next]_vars
-----------------------------------------------------------------------------
(* Properties.                                                             *)

\* Every file, key and copy has the shape its readers rely on; in particular
\* no command works on a record that it could not load.
TypeOK ==
    /\ keyring \in Key \cup {None, Broken}
    /\ record \in Record \cup {None}
    /\ held \in [Process -> Key \cup {None}]
    /\ op \in [Process -> Op]
    /\ \A s \in Process : op[s].pc = "working" => op[s].work # None
    /\ minted \subseteq Key
    /\ latest \in [Attached -> Seq(Piece) \cup {None}]
    /\ overlapped \in BOOLEAN

\* In whatever order the commands of all processes load, save, fail and end,
\* a bundle that the record names can be restored from it: manifest and chunks
\* are never of different versions, although each is saved many times.
BundlesRestorable ==
    record # None =>
        \A b \in Base : HasManifest(record.att, b) => Restores(record.att, b)

\* Run one after another, the commands leave under each name what they say:
\* extract-attachment returns the bundle last attached under it or, when there
\* is none or it was removed, the file last attached that was not; and nothing
\* once the identity is gone.  It does not return the content last attached: a
\* file attached under the name of a bundle stays behind it (biometrics/app.py:347;
\* :338 promises "what was originally attached"), and comes up again when the
\* name is removed once.
LatestExtracted ==
    ~overlapped => \A b \in Base :
        latest[Uppermost(b)] = IF record = None THEN None ELSE Extracted(record.att, b)

\* Run one after another, the commands of all processes, killed and restarted
\* at will, seal everything under the one key that the keyring file holds.
EverythingOpens ==
    ~overlapped /\ record # None =>
        /\ record.template = keyring
        /\ \A n \in Name : record.att[n] # None => record.att[n].key = keyring
=============================================================================
