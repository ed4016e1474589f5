------------------------------- MODULE Packages -------------------------------
(***************************************************************************)
(* One package file (packages/package.py, custody.py, audit.py), worked on *)
(* by commands of packages/main.py, which load it, change it and save it,  *)
(* and by packages tabs of the GUI, which load it when it is chosen and    *)
(* then go on from the state they hold.  Both save by writing the file in  *)
(* place.                                                                  *)
(***************************************************************************)
EXTENDS Naturals, Sequences, FiniteSets

CONSTANTS
    Process,            \* commands of the command line, and tabs
    Tab,                \* the tabs among them
    Person,             \* identities; each has a master key of its own
    Key,                \* content keys
    None, Absent,       \* no key or state; no file
    Empty, Torn,        \* a file just truncated, and any other that does not parse
    MaxLength,          \* bound: entries of a custody chain
    MaxAudits,          \* bound: audit entries of a kind
    MaxMishaps          \* bound: refusals, failures and ends of processes

ASSUME TabAssumption == Tab \subseteq Process
ASSUME BoundAssumption == MaxLength \in Nat /\ MaxAudits \in Nat /\ MaxMishaps \in Nat

VARIABLES
    file,       \* the package file
    held,       \* self.state of each tab
    op,         \* the command each process is in: what it will save
    audit,      \* number of audit files of each event
    minted,     \* content keys drawn so far
    mishaps,    \* history: refusals, failures and ends of processes
    log,        \* history: the changes saved, in order
    overlapped, \* history: some command began while another was under way
    stale       \* history: or began with something else than the file holds

vars == <<file, held, op, audit, minted, mishaps, log, overlapped, stale>>
history == <<log, overlapped, stale>>

Action == {"created", "recipient_added", "recipient_removed", "opened", "open_denied"}
Event == [action : Action, who : Person]
Entry(a, p) == [action |-> a, who |-> p]

\* slots[p] is the content key sealed under p's master key, None where p is no
\* recipient.  key is the key of the payload; chain is the custody chain, whose
\* hashes need no modelling: nothing but append builds one.
Package == [key : Key, slots : [Person -> Key \cup {None}], chain : Seq(Event)]

ASSUME MarksAssumption ==
    /\ None \notin Key \cup Package
    /\ {Absent, Empty, Torn} \cap Package = {}
    /\ Absent \notin {Empty, Torn} /\ Empty # Torn

Recipients(g) == {p \in Person : g.slots[p] # None}

Op == [pc : {"idle", "working", "saving", "writing"}, state : Package \cup {None}]
Idle == [pc |-> "idle", state |-> None]

Init ==
    /\ file = Absent
    /\ held = [p \in Process |-> None]
    /\ op = [p \in Process |-> Idle]
    /\ audit = [e \in Event |-> 0]
    /\ minted = {}
    /\ mishaps = 0
    /\ log = << >>
    /\ overlapped = FALSE
    /\ stale = FALSE
-----------------------------------------------------------------------------
(* The package a command makes of the one it has.                          *)

Logged(g, a, p) == [g EXCEPT !.chain = Append(@, Entry(a, p))]

NewChain(p) == <<Entry("created", p)>>

NewPackage(k, p) ==
    [key   |-> k,
     slots |-> [q \in Person |-> IF q = p THEN k ELSE None],
     chain |-> NewChain(p)]

\* What the master key of p unwraps from p's slot; another key unwraps nothing.
ContentKey(g, p) == g.slots[p]

Added(g, p, by) ==
    [Logged(g, "recipient_added", p) EXCEPT !.slots[p] = ContentKey(g, by)]

Removed(g, p) == [Logged(g, "recipient_removed", p) EXCEPT !.slots[p] = None]
-----------------------------------------------------------------------------
(* Commands, up to the work that takes minutes.                            *)

\* The chain begins with its genesis entry.  Each other entry holds the hash of
\* the one before it in every chain that append built, and nothing else builds
\* one here.
VerifyChain(chain) == chain # << >> /\ chain[1].action = "created"

Parses(g) == g \notin {None, Absent, Empty, Torn}
Usable(g) == Parses(g) /\ VerifyChain(g.chain)

\* What a command starts from: the file, or what the tab holds.
Loaded(p) == IF p \in Tab THEN held[p] ELSE file

Start(p, g) ==
    /\ op[p] = Idle
    /\ op' = [op EXCEPT ![p] = [pc |-> "working", state |-> g]]
    /\ overlapped' = (overlapped \/ \E q \in Process : op[q] # Idle)
    /\ stale' = (stale \/ overlapped' \/ (Usable(Loaded(p)) /\ Loaded(p) # file))
    /\ UNCHANGED <<file, held, audit, mishaps, log>>

\* Seeded fault: the file is not looked for.
CreateBlindly(p, who) ==
    \E k \in Key \ minted :
        /\ Start(p, NewPackage(k, who))
        /\ minted' = minted \cup {k}

Create(p, who) ==
    /\ file = Absent
    /\ \E k \in Key \ minted :
        /\ Start(p, NewPackage(k, who))
        /\ minted' = minted \cup {k}

\* add_recipient and remove_recipient by an authorized recipient.
AddRecipient(p, who, by) ==
    LET g == Loaded(p)
    IN  /\ Usable(g) /\ Len(g.chain) < MaxLength
        /\ who \notin Recipients(g) /\ by \in Recipients(g)
        /\ Start(p, Added(g, who, by))
        /\ UNCHANGED minted

\* Seeded fault: the last recipient may be removed.
RemoveAnyRecipient(p, who, by) ==
    LET g == Loaded(p)
    IN  /\ Usable(g) /\ Len(g.chain) < MaxLength
        /\ {who, by} \subseteq Recipients(g)
        /\ Start(p, Removed(g, who))
        /\ UNCHANGED minted

RemoveRecipient(p, who, by) ==
    LET g == Loaded(p)
    IN  /\ Usable(g) /\ Len(g.chain) < MaxLength
        /\ {who, by} \subseteq Recipients(g)
        /\ Recipients(g) # {who}
        /\ Start(p, Removed(g, who))
        /\ UNCHANGED minted

Open(p, who) ==
    LET g == Loaded(p)
    IN  /\ Usable(g) /\ Len(g.chain) < MaxLength
        /\ who \in Recipients(g)
        /\ Start(p, Logged(g, "opened", who))
        /\ UNCHANGED minted

Mishap == mishaps < MaxMishaps /\ mishaps' = mishaps + 1

\* Somebody who is no recipient, or gives another key, is turned away.
DenyOpen(p, who) ==
    /\ op[p] = Idle /\ Usable(Loaded(p))
    /\ audit[Entry("open_denied", who)] < MaxAudits
    /\ audit' = [audit EXCEPT ![Entry("open_denied", who)] = @ + 1]
    /\ Mishap
    /\ UNCHANGED <<file, held, op, minted, history>>

\* Seeded fault: a tab keeps what it could not read.
ChooseUnchecked(p) ==
    /\ p \in Tab /\ op[p] = Idle
    /\ held' = [held EXCEPT ![p] = IF file = Absent THEN None ELSE file]
    /\ UNCHANGED <<file, op, audit, minted, mishaps, history>>

\* A tab reads the file when it is chosen.
Choose(p) ==
    /\ p \in Tab /\ op[p] = Idle
    /\ held' = [held EXCEPT ![p] = IF Usable(file) THEN file ELSE None]
    /\ UNCHANGED <<file, op, audit, minted, mishaps, history>>
-----------------------------------------------------------------------------
(* The end of a command.                                                   *)

Change(p) == op[p].state.chain[Len(op[p].state.chain)]

\* Seeded fault: an opening by a recipient is not audited.
AuditOnlyChanges(p) ==
    /\ op[p].pc = "working"
    /\ audit[Change(p)] < MaxAudits
    /\ audit' = IF Change(p).action = "opened" THEN audit
                ELSE [audit EXCEPT ![Change(p)] = @ + 1]
    /\ op' = [op EXCEPT ![p].pc = "saving"]
    /\ UNCHANGED <<file, held, minted, mishaps, history>>

\* record_event comes last in each function of package.py.
Audit(p) ==
    /\ op[p].pc = "working"
    /\ audit[Change(p)] < MaxAudits
    /\ audit' = [audit EXCEPT ![Change(p)] = @ + 1]
    /\ op' = [op EXCEPT ![p].pc = "saving"]
    /\ UNCHANGED <<file, held, minted, mishaps, history>>

\* A tab keeps the new state whether or not it can be saved.
Kept(p) == IF p \in Tab THEN [held EXCEPT ![p] = op[p].state] ELSE held

\* Opening the file for writing empties it.
Truncate(p) ==
    /\ op[p].pc = "saving"
    /\ held' = Kept(p)
    /\ file' = Empty
    /\ op' = [op EXCEPT ![p].pc = "writing"]
    /\ UNCHANGED <<audit, minted, mishaps, history>>

\* Where others wrote since, their text may stick out behind this one.
Fill(p) ==
    /\ op[p].pc = "writing"
    /\ file' \in {op[p].state} \cup (IF file = Empty THEN {} ELSE {Torn})
    /\ log' = Append(log, Change(p))
    /\ op' = [op EXCEPT ![p] = Idle]
    /\ UNCHANGED <<held, audit, minted, mishaps, overlapped, stale>>

\* The file cannot be opened for writing.
SaveRefused(p) ==
    /\ op[p].pc = "saving"
    /\ held' = Kept(p)
    /\ op' = [op EXCEPT ![p] = Idle]
    /\ Mishap
    /\ UNCHANGED <<file, audit, minted, history>>

\* A command may fail or its process end in the middle of the text.
HalfWritten(p) == file' \in {file} \cup (IF op[p].pc = "writing" THEN {Torn} ELSE {})

Fail(p) ==
    /\ op[p].pc \in {"working", "writing"}
    /\ HalfWritten(p)
    /\ op' = [op EXCEPT ![p] = Idle]
    /\ Mishap
    /\ UNCHANGED <<held, audit, minted, history>>

\* A tab forgets what it holds.
Exit(p) ==
    /\ op[p] # Idle \/ held[p] # None
    /\ HalfWritten(p)
    /\ op' = [op EXCEPT ![p] = Idle]
    /\ held' = [held EXCEPT ![p] = None]
    /\ Mishap
    /\ UNCHANGED <<audit, minted, history>>

Next == \E p \in Process :
    \/ \E who \in Person :
        \/ Create(p, who) \/ Open(p, who) \/ DenyOpen(p, who)
        \/ \E by \in Person : AddRecipient(p, who, by) \/ RemoveRecipient(p, who, by)
    \/ Choose(p)
    \/ Audit(p) \/ Truncate(p) \/ Fill(p)
    \/ SaveRefused(p) \/ Fail(p) \/ Exit(p)

Spec == Init /\ [][Next]_vars
-----------------------------------------------------------------------------
(* Properties.                                                             *)

TypeOK ==
    /\ file \in Package \cup {Absent, Empty, Torn}
    /\ held \in [Process -> Package \cup {None}]
    /\ op \in [Process -> Op]
    /\ audit \in [Event -> 0..MaxAudits]
    /\ minted \subseteq Key
    /\ mishaps \in 0..MaxMishaps
    /\ log \in Seq(Event)
    /\ overlapped \in BOOLEAN /\ stale \in BOOLEAN

\* Who a chain says the recipients are.
Members(chain) ==
    {p \in Person : \E i \in DOMAIN chain :
        /\ chain[i] \in {Entry("created", p), Entry("recipient_added", p)}
        /\ \A j \in DOMAIN chain : j > i => chain[j] # Entry("recipient_removed", p)}

\* A package can be loaded, and opened by somebody, every slot holds the key of
\* its payload, and its chain accounts for exactly its recipients.
Sound(g) ==
    /\ VerifyChain(g.chain)
    /\ Recipients(g) # {}
    /\ \A p \in Recipients(g) : g.slots[p] = g.key
    /\ Members(g.chain) = Recipients(g)

\* Whatever commands and tabs overwrite of each other's work, a file that
\* parses is a sound package.
FileSound == Parses(file) => Sound(file)

Occurrences(e, chain) == Cardinality({i \in DOMAIN chain : chain[i] = e})

\* The audit directory has an entry for every entry of the custody chain in
\* the file.  (It may have more: those of commands that were never saved.)
AuditCoversCustody ==
    Usable(file) => \A e \in Event : Occurrences(e, file.chain) <= audit[e]

\* If every command began with what the file held and none with another under
\* way, the chain is the complete history of the file.
CustodyComplete == Usable(file) /\ ~stale => file.chain = log

=============================================================================
