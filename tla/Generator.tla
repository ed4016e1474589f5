------------------------------ MODULE Generator ------------------------------
(***************************************************************************)
(* The random generator: crypto/rng.py (ManagedGenerator) around the       *)
(* vendored BrisartDRBG, with its client, encrypt of                       *)
(* vendor/brisart_security_envelope.py, which mixes in a sample of         *)
(* vendor/brisart_security_entropy.py.                                     *)
(*                                                                         *)
(* A request is carried out block by block.  A block is the seeding of the *)
(* DRBG it comes from and its place in it; whether its bytes repeat those  *)
(* of the block before, which the DRBG compares, is a choice of the model, *)
(* and so are the samples of the operating system.                         *)
(***************************************************************************)
EXTENDS Naturals, Sequences

CONSTANTS
    ReseedInterval,      \* requests the DRBG serves between seedings (100,000)
    MaxBytes,            \* bytes it generates between seedings (16 MiB)
    MaxRequest,          \* bytes of the longest request (1 MiB)
    BlockBytes,          \* bytes of a block (64)
    ManagedRequests,     \* REQUESTS_BEFORE_RESEED (50,000)
    ManagedBytes,        \* BYTES_BEFORE_RESEED (8 MiB)
    Lengths,             \* lengths callers ask for, valid or not
    EnvelopeBytes,       \* SALT_BYTES and NONCE_BYTES (32)
    Samples,             \* what the operating system returns
    None,
    MaxSeedings          \* bound: seedings of the generator

\* crypto/rng.py:29 sets its limits below those of the DRBG.
ASSUME GeneratorAssumption ==
    /\ ReseedInterval \in Nat /\ MaxBytes \in Nat /\ MaxRequest \in Nat
    /\ BlockBytes \in Nat \ {0}
    /\ ManagedRequests \in Nat \ {0} /\ ManagedBytes \in Nat \ {0}
    /\ ManagedRequests <= ReseedInterval
    /\ ManagedBytes <= MaxBytes /\ MaxRequest <= MaxBytes
    /\ Lengths \subseteq Nat /\ EnvelopeBytes \in Nat
    /\ MaxSeedings \in Nat

Block == [seeding : Nat, place : Nat]

ASSUME NoneAssumption == None \notin Samples /\ None \notin Block

VARIABLES
    drbg,        \* the BrisartDRBG: its seeding, counters and previous block
    managed,     \* the counters of the ManagedGenerator around it
    call,        \* the request under way
    sealing,     \* the encrypt under way: its step, and the sample of its salt
    previous,    \* _PREVIOUS_SAMPLE of the process
    \* History, read by no action but for the bound on seedings:
    seedings,    \* how often the DRBG was seeded
    repeats,     \* blocks that repeated in the last request
    raised,      \* the last request: its length, whether it found a destroyed
                 \* DRBG, and whether it raised
    returned,    \* what the generator returned last
    envelope     \* the samples in the salt and nonce of the last envelope

generator == <<drbg, managed, call, seedings, repeats, raised, returned>>
vars == <<generator, sealing, previous, envelope>>

Drbg == [seeding : Nat, counter : Nat, requests : Nat, bytes : Nat,
         previous : Block \cup {None}, destroyed : BOOLEAN]

Counters == [requests : Nat, bytes : Nat]
NoneCounted == [requests |-> 0, bytes |-> 0]

\* pc: "entered", about to call drbg.generate, or in its loop ("blocks");
\* retry: the second call, on the generator rebuilt after an error.
Call == [pc : {"idle", "entered", "blocks"}, retry : BOOLEAN,
         length : Nat, output : Seq(Block)]
Idle == [pc |-> "idle", retry |-> FALSE, length |-> 0, output |-> <<>>]
Entered(retry, length) ==
    [pc |-> "entered", retry |-> retry, length |-> length, output |-> <<>>]

\* The steps of encrypt: the generator is asked for a salt, then for a nonce,
\* then each is mixed with a sample.
Steps == {"idle", "salt", "salted", "nonce", "mixSalt", "mixNonce"}
NotSealing == [pc |-> "idle", sample |-> None]

TypeOK ==
    /\ drbg \in Drbg /\ managed \in Counters /\ call \in Call
    /\ sealing \in [pc : Steps, sample : Samples \cup {None}]
    /\ previous \in Samples \cup {None}
    /\ seedings \in Nat /\ repeats \in Nat
    /\ raised \in [length : Nat, dead : BOOLEAN, failed : BOOLEAN]
    /\ returned \in Seq(Block)
    /\ envelope \in [salt : Samples, nonce : Samples] \cup {None}

\* BrisartDRBG.__init__ and reseed: the counters start anew.
Fresh(n) == [seeding |-> n, counter |-> 0, requests |-> 0, bytes |-> 0,
             previous |-> None, destroyed |-> FALSE]

\* BrisartDRBG.destroy.
Zeroed(d) == [d EXCEPT !.counter = 0, !.requests = ReseedInterval,
                       !.bytes = MaxBytes, !.previous = None,
                       !.destroyed = TRUE]

Init ==
    /\ drbg = Fresh(1) /\ managed = NoneCounted /\ call = Idle
    /\ sealing = NotSealing /\ previous = None
    /\ seedings = 1 /\ repeats = 0 /\ returned = <<>>
    /\ raised = [length |-> 0, dead |-> FALSE, failed |-> FALSE] /\ envelope = None

-----------------------------------------------------------------------------
(* ManagedGenerator.generate, and drbg.generate inside it *)

\* _require_active and the checks of drbg.generate.  (Additional input is
\* never empty: callers pass a constant prefix.)
Accepts(d, length) ==
    /\ ~d.destroyed
    /\ d.requests < ReseedInterval
    /\ d.bytes < MaxBytes
    /\ length > 0
    /\ length <= MaxRequest
    /\ d.bytes + length <= MaxBytes

\* while len(output) < length
Enough(output, length) == Len(output) * BlockBytes >= length

\* Seeded fault: the bytes of the request itself are not counted in, and
\* the limit is that of the DRBG.
ReseedsAtLimit(length) ==
    \/ managed.requests >= ManagedRequests
    \/ managed.bytes >= MaxBytes

Reseeds(length) ==
    \/ managed.requests >= ManagedRequests
    \/ managed.bytes + length >= ManagedBytes

\* generate(length): reseed first where the counters call for it.
Request(length) ==
    /\ call.pc = "idle"
    /\ seedings + 2 <= MaxSeedings
    /\ call' = Entered(FALSE, length)
    /\ repeats' = 0
    /\ raised' = [length |-> length, dead |-> drbg.destroyed /\ ~Reseeds(length),
                 failed |-> FALSE]
    /\ IF Reseeds(length)
       THEN /\ drbg' = Fresh(seedings + 1) /\ managed' = NoneCounted
            /\ seedings' = seedings + 1
       ELSE UNCHANGED <<drbg, managed, seedings>>
    /\ UNCHANGED <<returned, previous, envelope>>

\* The error of the second attempt reaches the caller; an encrypt ends with it.
Raise ==
    /\ call' = Idle
    /\ raised' = [raised EXCEPT !.failed = TRUE]
    /\ sealing' = NotSealing
    /\ UNCHANGED <<managed, seedings>>

\* Seeded fault: the second attempt uses the DRBG that just failed.
RebuildNothing ==
    /\ call' = Entered(TRUE, call.length)
    /\ UNCHANGED <<drbg, managed, seedings, raised, sealing>>

\* BrisartDRBGError in the first attempt: a new DRBG from fresh entropy, and
\* the request once more.
Rebuild ==
    /\ drbg' = Fresh(seedings + 1) /\ managed' = NoneCounted
    /\ seedings' = seedings + 1
    /\ call' = Entered(TRUE, call.length)
    /\ UNCHANGED <<raised, sealing>>

Enter ==
    /\ call.pc = "entered" /\ Accepts(drbg, call.length)
    /\ call' = [call EXCEPT !.pc = "blocks"]
    /\ UNCHANGED <<drbg, managed, sealing, previous, seedings, repeats, raised,
                   returned, envelope>>

Refuse ==
    /\ call.pc = "entered" /\ ~Accepts(drbg, call.length)
    /\ \/ ~call.retry /\ Rebuild
       \/ call.retry /\ Raise /\ UNCHANGED drbg
    /\ UNCHANGED <<repeats, returned, previous, envelope>>

\* _next_block
NextBlock ==
    LET block == [seeding |-> drbg.seeding, place |-> drbg.counter]
    IN  /\ call.pc = "blocks" /\ ~Enough(call.output, call.length)
        /\ call' = [call EXCEPT !.output = Append(@, block)]
        /\ drbg' = [drbg EXCEPT !.counter = @ + 1, !.previous = block]
        /\ UNCHANGED <<managed, sealing, previous, seedings, repeats, raised,
                       returned, envelope>>

\* Seeded fault: a second attempt goes on with the output of the first.
RepeatBlockKeepingOutput ==
    /\ call.pc = "blocks" /\ ~Enough(call.output, call.length)
    /\ drbg.previous # None /\ ~call.retry
    /\ drbg' = Fresh(seedings + 1) /\ managed' = NoneCounted
    /\ seedings' = seedings + 1 /\ repeats' = repeats + 1
    /\ call' = [call EXCEPT !.retry = TRUE]
    /\ UNCHANGED <<sealing, previous, raised, returned, envelope>>

\* _next_block finds the previous block repeated, destroys the DRBG and
\* raises.  What was generated for the request is dropped.
RepeatBlock ==
    /\ call.pc = "blocks" /\ ~Enough(call.output, call.length)
    /\ drbg.previous # None
    /\ repeats' = repeats + 1
    /\ \/ ~call.retry /\ Rebuild
       \/ call.retry /\ Raise /\ drbg' = Zeroed(drbg)
    /\ UNCHANGED <<returned, previous, envelope>>

\* Both count the request.  encrypt goes on with its next step.
Return ==
    /\ call.pc = "blocks" /\ Enough(call.output, call.length)
    /\ drbg' = [drbg EXCEPT !.requests = @ + 1, !.bytes = @ + call.length]
    /\ managed' = [requests |-> managed.requests + 1,
                   bytes |-> managed.bytes + call.length]
    /\ returned' = call.output
    /\ call' = Idle
    /\ sealing' = [sealing EXCEPT !.pc =
                     CASE @ = "salt" -> "salted"
                       [] @ = "nonce" -> "mixSalt"
                       [] OTHER -> @]
    /\ UNCHANGED <<previous, seedings, repeats, raised, envelope>>

\* ManagedGenerator.destroy: only the DRBG; the next request revives it.
Destroy ==
    /\ call.pc = "idle" /\ sealing.pc = "idle" /\ ~drbg.destroyed
    /\ drbg' = Zeroed(drbg)
    /\ UNCHANGED <<managed, call, sealing, previous, seedings, repeats, raised,
                   returned, envelope>>

Generate(length) ==
    /\ sealing.pc = "idle"
    /\ Request(length)
    /\ UNCHANGED sealing

-----------------------------------------------------------------------------
(* encrypt *)

\* _generate_value for the salt, then for the nonce.
SealSalt ==
    /\ sealing.pc = "idle"
    /\ Request(EnvelopeBytes)
    /\ sealing' = [pc |-> "salt", sample |-> None]

SealNonce ==
    /\ sealing.pc = "salted"
    /\ Request(EnvelopeBytes)
    /\ sealing' = [sealing EXCEPT !.pc = "nonce"]

\* The generator or the mixing produced equal salt and nonce, or the operating
\* system gave nothing usable: encrypt raises.
SealRefused ==
    /\ sealing.pc \in {"mixSalt", "mixNonce"}
    /\ sealing' = NotSealing
    /\ UNCHANGED <<generator, previous, envelope>>

\* Seeded fault: a sample is compared but not kept for the next comparison.
DrawForgetting(sample) ==
    previous' = IF previous = None THEN sample ELSE previous

\* system_entropy, for a sample that differs from the one before.
Draw(sample) == previous' = sample

MixSalt(sample) ==
    /\ sealing.pc = "mixSalt" /\ previous # sample
    /\ Draw(sample)
    /\ sealing' = [pc |-> "mixNonce", sample |-> sample]
    /\ UNCHANGED <<generator, envelope>>

\* Seeded fault: the first sample is taken for that of the nonce.
MixNonceOutOfTurn(sample) ==
    /\ sealing.pc \in {"mixSalt", "mixNonce"} /\ previous # sample
    /\ Draw(sample)
    /\ envelope' = [salt |-> sealing.sample, nonce |-> sample]
    /\ sealing' = NotSealing
    /\ UNCHANGED generator

MixNonce(sample) ==
    /\ sealing.pc = "mixNonce" /\ previous # sample
    /\ Draw(sample)
    /\ envelope' = [salt |-> sealing.sample, nonce |-> sample]
    /\ sealing' = NotSealing
    /\ UNCHANGED generator

\* system_entropy finds its sample to be the one before, forgets it and raises.
SampleRepeated ==
    /\ sealing.pc \in {"mixSalt", "mixNonce"} /\ previous # None
    /\ previous' = None
    /\ sealing' = NotSealing
    /\ UNCHANGED <<generator, envelope>>

Next ==
    \/ \E length \in Lengths : Generate(length)
    \/ Enter \/ Refuse \/ NextBlock \/ RepeatBlock \/ Return \/ Destroy
    \/ SealSalt \/ SealNonce \/ SealRefused \/ SampleRepeated
    \/ \E sample \in Samples : MixSalt(sample) \/ MixNonce(sample)

Spec == Init /\ [][Next]_vars

-----------------------------------------------------------------------------
(* Properties *)

Valid(length) == length > 0 /\ length <= MaxRequest

\* The wrapper is ahead of the limits: whenever it decides against a reseed,
\* a living DRBG has room for the request in both its limits, so that running
\* into them is never what makes a request start over (crypto/rng.py:29,
\* "Reseed before upstream's own limits rather than at them").
AheadOfLimits ==
    call.pc = "idle" /\ ~drbg.destroyed =>
        \A length \in Lengths :
            Valid(length) /\ ~Reseeds(length) => Accepts(drbg, length)

\* A caller sees a valid request fail only if a generator that was seeded for
\* this very request repeated a block, after the one before it had failed the
\* same way or had been destroyed: limits never surface, nor does a generator
\* that died earlier (crypto/rng.py:13, a long-lived process "should not crash
\* on record 100,001").
ServedUnlessBroken ==
    raised.failed /\ Valid(raised.length) =>
        repeats = IF raised.dead THEN 1 ELSE 2

\* What a request returns comes from one seeding, block after block, and
\* from behind everything returned before: no block is handed out twice, and
\* a request that had to start over keeps nothing of its first attempt.
After(b, c) ==
    \/ b.seeding > c.seeding
    \/ b.seeding = c.seeding /\ b.place > c.place

OutputsFresh ==
    [][returned' # returned =>
        /\ \A i \in 2..Len(returned') :
                /\ returned'[i].seeding = returned'[1].seeding
                /\ returned'[i].place = returned'[1].place + (i - 1)
        /\ returned # <<>> => After(returned'[1], returned[Len(returned)])]_vars

\* An operating system whose entropy is stuck seals nothing: salt and nonce of
\* an envelope were mixed with different samples, although the comparison
\* looks back one sample only and forgets it after each alarm.
StuckEntropySealsNothing ==
    envelope # None => envelope.salt # envelope.nonce
=============================================================================
