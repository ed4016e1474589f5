------------------------------- MODULE Devices -------------------------------
(***************************************************************************)
(* The drivers of hardware/: a card reader (PCSCReader), a fingerprint     *)
(* scanner (FingerprintScanner) and a camera (ONVIFCamera), each a set of  *)
(* fields around a binding or transport that its operator supplies.  Only  *)
(* the contract of the binding is known (hardware/base/): any call of it   *)
(* may fail, between two calls devices, cards and fingers come and go, and *)
(* the camera may be given other addresses.                                *)
(*                                                                         *)
(* One driver object is modelled, of any of the three kinds.  health_check *)
(* and capture_image of the camera change nothing and are left out, as is  *)
(* last_error, which reports the last exception.                           *)
(***************************************************************************)
EXTENDS Naturals

CONSTANTS
    Names,         \* device names the operating system may list
    Matching,      \* those that match what the caller asked for
    Objects,       \* cards, or fingers
    Addresses,     \* of the media service of the camera
    RetryCount,    \* CONNECT_RETRY_COUNT, CAPTURE_RETRY_COUNT (1)
    MaxSessions,   \* bound: sessions open at the binding
    Nothing

\* Nothing is no device, object or address, and a count is one.
ASSUME DriverAssumption ==
    /\ Nothing \notin Names \cup Objects \cup Addresses
    /\ RetryCount \in Nat

VARIABLES
    kind,          \* what the driver drives
    driver,        \* the fields of the driver object
    call,          \* the call under way
    binding,       \* what the binding holds: sessions, the open device, the card
    attached,      \* devices that are plugged in
    present,       \* the card in, or finger on, each device
    address,       \* of the media service, as the camera has it now
    \* History, read by no action:
    returned,      \* what the last read or scan returned
    witnessed,     \* objects that were on the device since that call began
    twice,         \* connect() was called on a connected device
    unreleased     \* the binding failed to close a session

world == <<attached, present, address>>
history == <<returned, witnessed, twice, unreleased>>
driverVars == <<kind, driver, call, binding, world, history>>

\* open: _connected or _session_open; name: _reader_name or _device_name.
Disconnected == [open |-> FALSE, name |-> Nothing, media |-> Nothing, snapshot |-> Nothing]

\* found: the name just listed; attempt, atr: local variables of the loop.
Rest == [pc |-> "rest", found |-> Nothing, attempt |-> 0, atr |-> Nothing]
Goto(pc) == call' = [call EXCEPT !.pc = pc]

\* What is on the device that the driver drives.
OnDevice == IF driver.name \in attached THEN present[driver.name] ELSE Nothing

DriverInit ==
    /\ kind \in {"reader", "scanner", "camera"}
    /\ driver = Disconnected /\ call = Rest
    /\ binding = [sessions |-> 0, device |-> Nothing, card |-> Nothing]
    /\ attached = {} /\ present = [n \in Names |-> Nothing]
    /\ address \in Addresses
    /\ returned = Nothing /\ witnessed = {} /\ twice = FALSE /\ unreleased = FALSE

-----------------------------------------------------------------------------
(* connect and disconnect of reader and scanner *)

\* disconnect(): close what is open, as far as the binding can, and forget it.
Teardown ==
    /\ \E closes, releases \in BOOLEAN :
          /\ binding' =
               [sessions |-> IF driver.open /\ releases THEN binding.sessions - 1
                             ELSE binding.sessions,
                device |-> IF closes THEN Nothing ELSE binding.device,
                card |-> IF closes THEN Nothing ELSE binding.card]
          /\ unreleased' = (unreleased \/ (driver.open /\ ~releases))
    /\ driver' = Disconnected
    /\ call' = Rest

Disconnect ==
    /\ kind # "camera" /\ call.pc = "rest"
    /\ Teardown
    /\ UNCHANGED <<kind, world, returned, witnessed, twice>>

\* Seeded fault: the session is noted once the device was found.
ConnectUnnoted ==
    /\ kind # "camera" /\ call.pc = "rest" /\ binding.sessions < MaxSessions
    /\ twice' = (twice \/ driver.open)
    /\ binding' = [binding EXCEPT !.sessions = @ + 1]
    /\ Goto("list")
    /\ UNCHANGED <<kind, driver, world, returned, witnessed, unreleased>>

\* establish_context() or open_session() succeeds.
Connect ==
    /\ kind # "camera" /\ call.pc = "rest" /\ binding.sessions < MaxSessions
    /\ twice' = (twice \/ driver.open)
    /\ binding' = [binding EXCEPT !.sessions = @ + 1]
    /\ driver' = [driver EXCEPT !.open = TRUE]
    /\ Goto("list")
    /\ UNCHANGED <<kind, world, returned, witnessed, unreleased>>

\* _find_reader_name, _find_device_name: the first name listed that matches.
FindName ==
    /\ call.pc = "list"
    /\ \E n \in attached \cap Matching :
          \/ /\ kind = "reader"
             /\ driver' = [driver EXCEPT !.name = n]
             /\ call' = Rest
          \/ /\ kind = "scanner"
             /\ call' = [call EXCEPT !.pc = "open", !.found = n]
             /\ UNCHANGED driver
    /\ UNCHANGED <<kind, binding, world, history>>

OpenDevice ==
    /\ call.pc = "open" /\ call.found \in attached
    /\ binding' = [binding EXCEPT !.device = call.found]
    /\ driver' = [driver EXCEPT !.name = call.found]
    /\ call' = Rest
    /\ UNCHANGED <<kind, world, history>>

\* Any of the three calls fails, or nothing that matches is attached:
\* connect() tears down what there is, of an earlier connect() too, and
\* returns False.
ConnectFails ==
    /\ kind # "camera" /\ call.pc \in {"rest", "list", "open"}
    /\ Teardown
    /\ UNCHANGED <<kind, world, returned, witnessed, twice>>

-----------------------------------------------------------------------------
(* read_card *)

ReadCard ==
    /\ kind = "reader" /\ call.pc = "rest" /\ driver.name # Nothing
    /\ Goto("link")
    /\ returned' = Nothing /\ witnessed' = {OnDevice} \ {Nothing}
    /\ UNCHANGED <<kind, driver, binding, world, twice, unreleased>>

\* Seeded fault: a retry keeps the ATR that it has.
LinkKeepingAtr ==
    /\ call.pc = "link" /\ OnDevice # Nothing
    /\ binding' = [binding EXCEPT !.card = OnDevice]
    /\ Goto(IF call.atr = Nothing THEN "atr" ELSE "transmit")
    /\ UNCHANGED <<kind, driver, world, history>>

\* binding.connect(reader_name)
Link ==
    /\ call.pc = "link" /\ OnDevice # Nothing
    /\ binding' = [binding EXCEPT !.card = OnDevice]
    /\ Goto("atr")
    /\ UNCHANGED <<kind, driver, world, history>>

\* binding.get_atr() of the card it is connected to.
GetAtr ==
    /\ call.pc = "atr" /\ binding.card # Nothing
    /\ call' = [call EXCEPT !.pc = "transmit", !.atr = binding.card]
    /\ UNCHANGED <<kind, driver, binding, world, history>>

\* The card answers with its UID and status 9000.
Transmit ==
    /\ call.pc = "transmit" /\ binding.card # Nothing
    /\ returned' = [atr |-> call.atr, uid |-> binding.card]
    /\ call' = Rest
    /\ UNCHANGED <<kind, driver, binding, world, witnessed, twice, unreleased>>

\* An exception within the loop of read_card or scan: once more, or give up.
AttemptFails(first) ==
    IF call.attempt < RetryCount
    THEN call' = [call EXCEPT !.pc = first, !.attempt = @ + 1]
    ELSE call' = Rest

\* The binding fails, or the status word is another.
ReadFails ==
    /\ call.pc \in {"link", "atr", "transmit"}
    /\ AttemptFails("link")
    /\ UNCHANGED <<kind, driver, binding, world, history>>

-----------------------------------------------------------------------------
(* scan *)

Scan ==
    /\ kind = "scanner" /\ call.pc = "rest" /\ driver.name # Nothing
    /\ Goto("capture")
    /\ returned' = Nothing /\ witnessed' = {OnDevice} \ {Nothing}
    /\ UNCHANGED <<kind, driver, binding, world, twice, unreleased>>

\* capture() returns an image that _validate_capture_shape accepts.
Capture ==
    /\ call.pc = "capture" /\ OnDevice # Nothing
    /\ returned' = [atr |-> OnDevice, uid |-> OnDevice]
    /\ call' = Rest
    /\ UNCHANGED <<kind, driver, binding, world, witnessed, twice, unreleased>>

\* No finger, a failure, or an image of the wrong shape.
ScanFails ==
    /\ call.pc = "capture"
    /\ AttemptFails("capture")
    /\ UNCHANGED <<kind, driver, binding, world, history>>

-----------------------------------------------------------------------------
(* The camera *)

\* _discover_media_service_url
Discover ==
    /\ kind = "camera" /\ call.pc = "rest"
    /\ driver' = [driver EXCEPT !.media = address]
    /\ Goto("profile")
    /\ UNCHANGED <<kind, binding, world, history>>

\* _post_soap to the media service, which answers at its address only.
MediaAnswers == driver.media = address

\* _get_first_profile_token
GetProfile ==
    /\ call.pc = "profile" /\ MediaAnswers
    /\ Goto("uri")
    /\ UNCHANGED <<kind, driver, binding, world, history>>

\* _get_snapshot_uri: the URI belongs to the media service that was asked.
GetUri ==
    /\ call.pc = "uri" /\ MediaAnswers
    /\ driver' = [driver EXCEPT !.snapshot = driver.media]
    /\ call' = Rest
    /\ UNCHANGED <<kind, binding, world, history>>

\* connect() fails at any of its requests, or disconnect() is called.
CameraCleared ==
    /\ kind = "camera"
    /\ driver' = Disconnected
    /\ call' = Rest
    /\ UNCHANGED <<kind, binding, world, history>>

-----------------------------------------------------------------------------
(* The world around the driver *)

\* The connection to a card ends when the card, or its reader, is taken away.
Cut(o) == binding' = [binding EXCEPT !.card = IF @ = o THEN Nothing ELSE @]

Lift(n) ==
    /\ present[n] # Nothing
    /\ present' = [present EXCEPT ![n] = Nothing]
    /\ Cut(present[n])
    /\ UNCHANGED <<kind, driver, call, attached, address, history>>

Place(n, o) ==
    /\ kind # "camera" /\ present[n] = Nothing /\ \A m \in Names : present[m] # o
    /\ present' = [present EXCEPT ![n] = o]
    /\ witnessed' = IF n = driver.name /\ n \in attached THEN witnessed \cup {o}
                    ELSE witnessed
    /\ UNCHANGED <<kind, driver, call, binding, attached, address, returned,
                   twice, unreleased>>

Plug(n) ==
    /\ kind # "camera"
    /\ attached' = attached \cup {n}
    /\ witnessed' = IF n = driver.name THEN witnessed \cup ({present[n]} \ {Nothing})
                    ELSE witnessed
    /\ UNCHANGED <<kind, driver, call, binding, present, address, returned,
                   twice, unreleased>>

Unplug(n) ==
    /\ attached' = attached \ {n}
    /\ Cut(present[n])
    /\ UNCHANGED <<kind, driver, call, present, address, history>>

Reconfigure ==
    /\ kind = "camera"
    /\ address' \in Addresses \ {address}
    /\ UNCHANGED <<kind, driver, call, binding, attached, present, history>>

DriverNext ==
    \/ Connect \/ FindName \/ OpenDevice \/ ConnectFails \/ Disconnect
    \/ ReadCard \/ Link \/ GetAtr \/ Transmit \/ ReadFails
    \/ Scan \/ Capture \/ ScanFails
    \/ Discover \/ GetProfile \/ GetUri \/ CameraCleared \/ Reconfigure
    \/ \E n \in Names :
          \/ Lift(n) \/ Plug(n) \/ Unplug(n)
          \/ \E o \in Objects : Place(n, o)

DriverSpec == DriverInit /\ [][DriverNext]_driverVars
-----------------------------------------------------------------------------
(* Properties *)

Fields == [open : BOOLEAN, name : Names \cup {Nothing},
           media : Addresses \cup {Nothing}, snapshot : Addresses \cup {Nothing}]
Stage == {"rest", "list", "open", "link", "atr", "transmit", "capture",
          "profile", "uri"}
Calls == [pc : Stage, found : Names \cup {Nothing},
          attempt : 0..RetryCount, atr : Objects \cup {Nothing}]
Bindings == [sessions : Nat, device : Names \cup {Nothing}, card : Objects \cup {Nothing}]

DriverTypeOK ==
    /\ kind \in {"reader", "scanner", "camera"}
    /\ driver \in Fields /\ call \in Calls /\ binding \in Bindings
    /\ attached \subseteq Names /\ present \in [Names -> Objects \cup {Nothing}]
    /\ address \in Addresses
    /\ returned \in [atr : Objects, uid : Objects] \cup {Nothing}
    /\ witnessed \subseteq Objects /\ twice \in BOOLEAN /\ unreleased \in BOOLEAN

\* ATR and UID that read_card returns are those of one card, and it, or the
\* finger scanned, was on the device during this very call, however often
\* cards were swapped between its steps and whatever the connection to an
\* earlier card, which the driver never ends, still holds.
OneObjectPerRead ==
    returned # Nothing => returned.atr = returned.uid /\ returned.uid \in witnessed

\* Between calls a driver is connected or it is not, after every failure half-
\* way through connect() too ("connect() is a boolean probe",
\* pcsc_reader.py:60): a name goes with an open session, a scanner's name with
\* the device that the binding has open, and a camera's snapshot URI with the
\* media service it came from.  And a caller that connects only what is not
\* connected leaves no session behind, unless the binding fails to close one.
ConnectedOrNot ==
    /\ DriverTypeOK
    /\ call.pc = "rest" =>
          /\ (driver.name # Nothing) = driver.open
          /\ kind = "scanner" /\ driver.name # Nothing => binding.device = driver.name
          /\ driver.snapshot = driver.media
          /\ ~twice /\ ~unreleased =>
                binding.sessions = IF driver.open THEN 1 ELSE 0
=============================================================================
