# TLA+ verification of bip375-interop

The harness in this repository sends one PSBT through several signer
implementations, round by round, checks every step, has independent validators
re-check the result, and turns the outcome into a row, a label and an exit code.
It exists to *judge* other programs, so what matters most about it is that its
own verdicts can be trusted: that a signer under test cannot slip a record past
it, that no row says more than was verified, and that a crash, an interrupt or a
second process does not leave something behind that a later command mistakes
for a result. These modules model that core and check it with TLC on small
instances; every invariant those runs check is also proved with TLAPS, for every
value of the constants.

Line numbers of every definition are in `PROJECT.json` ("map"); the comment
above a definition names the function it stands for.

## 1. The system

| Component | Code | State it keeps | Operations | What makes it correct |
|---|---|---|---|---|
| PSBT container and merge | `psbt_maps.py` | none (values) | parse, diff, merge strict / combiner | a merge never loses or rewrites a record; tx_modifiable bits are only cleared |
| Round engine and contracts | `engine.py` | the carried PSBT, steps, repairs | `run_rounds`, `_assert_phase_contract` | only an owner signs or contributes for its input; a witness is made of a signature of that owner |
| Schedule and suites | `suites.py`, `models.py` | none | `scenario_rounds`, order options | shares before scripts; every owner has a signing turn |
| Worker transport | `worker.py` | process, read buffer, request id | `start`, `process_psbt`, `stop` | a reply answers its request; nothing survives `stop()` |
| Signer and device workers | `*_worker.py` | device session, emulator child | request loop, `_open`, `close`, enrolment, signing | a device signs with the keys of this request; a worker that ends leaves no emulator |
| Verification and fixtures | `verification.py`, `fixtures.py` | none | `require_input_utxos`, `verify_bip375_completion`, `build_bip375_fixture` | a PSBT that passes pays the scenario, signed and proved by its owners |
| Scenario run and claims | `cli.py`, `verification.py` | workers held, records, manifest | `_run_generated_scenario`, `_run_psbt_scenario`, `run_claim`, `manifest_claim_fields` | evidence is earned; no worker left; a manifest is left |
| Batch check | `cli.py`, `batch.py`, `regression.py`, `expectations.py` | `report.json` of each batch | `check` | exit code and labels mean what the README's tables say |
| Checkouts, lock, fetch, pin | `fetch.py`, `checkouts.py`, `config.py`, `cli.py` | directories, `interop.lock` | `fetch --in-place`, `pin`, inspection | no half checkout at a final path; success means at the pins |
| Window | `gui/src/main.rs` | choices, result slots, progress, channel | seven actions, each a thread with CLI processes | what is shown belongs to what is chosen; only a command that runs blocks the window; pins follow a review |
| Validators | `adapters/`, `caravan_validate.cjs`, `spdk-cli/` | none | a process given the snapshots | (outcomes only) |
| Interop Lab stage | `interop_lab.py` | findings, failures, the status of each file | parser matrix, native parses, roundtrips, approvals | a change that is let through says what the PSBT said before |
| Test seeds, adapters, preflight, comparison, build, device tests, MuSig2 legs, data | see `PROJECT.json` | little or none | pure functions or sequences of external commands | not modelled, or their outcome only: section 7 |

How they interact:

```
 gui/main.rs --spawns--> cli (check, fetch, pin, doctor, compare)
                          |  stderr progress lines --> reader thread --> mpsc channel --> slots
 check: for each case --> scenario run --> row --> report.json --> labels (with the
                          |                         newest earlier report) --> exit code
 scenario run: start workers --> run_rounds --> verify --> validators --> lab --> manifest
                          |          |
                   WorkerClient   parse, contract, merge  (psbt_maps)
                          | JSON lines over pipes
                   worker process --(same process group)--> device emulator
 fetch / pin / inspect share the checkout directories and interop.lock
```

Behaviours that make it hard: signers return anything; answers come late or
never and processes die leaving an emulator; every stage may raise, and an
interrupt may arrive in any of them; reports, locks and checkouts are files
written in several steps by commands that may be killed or run at once; and the
window mixes a user, a thread, a process, a second thread and a channel.
`PROJECT.json` ("hazards") lists forty such places with their lines, and for
each the properties that cover it or why none does.

## 2. Modules

| Module | Models | State ↔ code | Actions ↔ code |
|---|---|---|---|
| `PsbtMaps` | `psbt_maps.py` | a PSBT is a function from record slots (scope, index, field, key data) to contents (`Absent`, a value, or for tx_modifiable a set of flag bits) | operators `WellFormed`, `IsAdded`, `Mergeable`, `Merged`, `Repairs` |
| `AdditivePsbt` | the promise "without permitting any silent mutation" | `psbt` | abstract: a step may only add records and clear flags |
| `Engine` | `run_rounds`, `scenario_rounds`, `_assert_phase_contract` | `current`, `repairs`, `step` as in the loop; `round` and `waiting` are its position; `author` is a history variable | one signer turn: `WorkerFails`, `RejectWarning`, or `SignerStep`, whose verdict is format / contract / merge / accept, in the code's order; `RejectRound` (the MuSig2 snapshot check); `Finish` |
| `EngineProofs` | theorems about `Engine` | | |
| `WorkerTransport` | `WorkerClient`, the serve loop of the workers, the emulator child | `process`, `buffer` are `_process`, `_stdout_buffer`; one `worker`, `child`, `stdin`, `stdout` per process | `Start`, `Process_psbt`, `Stop` (calls); `Write`, `ReadChunk`, `TakeReply`, `ReadTimeout`, `ReadEof`, `StopTerm`, `StopKill` (their steps); `Take`, `Spawn`, `Respond`, `PrintNoise`, `WorkerDies`, ... (the processes) |
| `Claims` | `run_claim`, `manifest_claim_fields`, `case_result_for_run`, the release gate | operators on records of the outcomes | |
| `ScenarioRun` | `_start_workers`, `_run_generated_scenario`, `_run_psbt_scenario` | `held` is the workers dict, `worker` what really runs; `records`, `lab`, `manifest` as in the code | one action per stage; `StageRaises`, `Except`, `UnwindOne`, `CleanupOne`, `Interrupt` |
| `Check` | the `check` command, `BatchRun`, `classify`, the exit code | `disk` is the batches; `results`, `labels`, `exit` as in the code; `finalized` is history | one action per case outcome, per report write (begin and end apart), per way to end; `Kill` anywhere |
| `Checkouts` | `fetch.py`, `inspect_checkout`, `pin`, `write_lock` | `dest` and `partial` are the trees at the final and the temporary path; `lock`; one record per fetch process | one action per git command, `FailFetch` (a failure or a kill before any of them), `Clear` and `ClearFails` (what is left at the temporary path is removed, or some of it stays), `Rename`, `FailCollision`, `BeginPin` ... `WriteLock`, `KillPin`, `Commit` |
| `Gui` | `main.rs` | a result slot holds what the result was *made for* (profile, project, baseline, for pins the revision); `stray` is the lines of a reader that was not joined | `Choose*`, `Click` (user); `Spawn`, `SendFinished`, ... (thread); `Cli*` (process); `Forward` (stderr reader); `Receive` (a frame drains the channel); `SendFinishedUnread`, `ReceiveStray` (`run_cli` returns before it joins its reader); `Commit` (someone, in a checkout) |
| `DeviceWorker` | `JadeWorker`, `ColdcardPsbtWorker`, two of different runs on one host | `own` is `_qemu` / `_simulator`, `device` is `_jade` / `_device`, `mnemonic` and `descriptor` as in the code; `emulator` is what really runs: its seed, and the one descriptor it has room for | `Ask` (a request), `StartEmulator`, `Connect`, `ConnectFails`, `ConnectRaises` (`_open`, with the raises that skip `close()`), `SetMnemonic`, `Enroll`, `RememberDescriptor`, `Sign`, `DeviceGone`, `Serve_ends` (the `finally`), `Stopped` (the client's `stop()`), `CallerDies`; `Listen`, `EmulatorDies` |
| `Verification` | `verification.py`, the fixture | operators on a PSBT whose keys, proofs and signatures are names of owners | `RequireInputUtxos`, `CompletionHolds` and its parts, one operator per function |
| `InteropLab` | `interop_lab.py` | a returned PSBT is a function from records to contents; a `Mark` is the findings and failures of a file | `KnownRoundtripChange`, `ParserMark`, `NativeMark`, `ReturnedMark`, `FilePasses` |
| `Evidence` | the path of one PSBT through a run, to its manifest | `initial` and `final` are the first and the last snapshot; `records`, `lab`, `manifest` as in the code; `odd` counts what differed; `harm` is history | `Prepare`, `AuthorDiffers`, `RunRounds`, `DeviceDiffers`, `Verify`, `RunValidators`, the lab's answers (`ReadParsers`, `ReadAdapter`, `AdapterChanges`, ...), `Finalize`, `FinalizeRaises` |
| `EvidenceProofs` | theorems about `Evidence` | | |
| `DeviceProofs` | theorems about `DeviceWorker` | | |
| `TransportProofs`, `ScenarioProofs`, `CheckProofs`, `CheckoutsProofs`, `GuiProofs` | theorems about `WorkerTransport`, `ScenarioRun`, `Check`, `Checkouts` and `Gui` | | |
| `MC*` | constants for TLC | | |

Composition. `Engine` uses `PsbtMaps` and implements `AdditivePsbt`
(`Additive == INSTANCE AdditivePsbt WITH psbt <- current`, property
`OnlyGrows`). `ScenarioRun` takes the rounds of `Engine`, and a start and a
stop of `WorkerTransport`, as single steps whose outcomes (returns, raises,
repaired) are those the detailed modules have. `Check` takes a run as the row
`Claims!RunRow` gives it, the same operator `ScenarioRun` is checked with.
`Evidence` composes `Verification`, `InteropLab` and `Claims` into what a run
does with *data*, where `ScenarioRun` has what it does with workers, exceptions
and interrupts; its devices may return more than `Engine` would let through, so
what it shows does not lean on the phase contracts. `DeviceWorker` is the process
`WorkerTransport` talks to, seen from inside: `Stopped` is that module's signal
to the process group. `Gui` takes a command as the progress lines, the exit code and the output it makes.

Operators beginning a comment with "Mutant:" are variants of the definition
that follows, each with a plausible bug. Nothing uses them; `PROJECT.json`
("mutants") pairs each with the property that fails when it takes the
definition's place.

## 3. Runs

| Run (`cfg`) | Bounds | Distinct states | Properties |
|---|---|---|---|
| engine (`MCEngine`) | 8 scenarios, ≤ 3 signers, 2 inputs, 2 keys on the first, 1 silent-payment output | 16 494 | `TypeOK RepairsRestore OwnersSpeakForInputs WitnessIsOwnSignature ResolvedAfterShares DoneMeansEveryOwnerSigned OnlyGrows` |
| worker_transport (`WorkerTransport`) | 2 starts, 3 requests, 1 noise line | 105 204 | `TypeOK ReplyAnswersRequest NothingLeftUnsignalled CallsReturn StoppedGroupDies` |
| device_worker (`MCDeviceWorker`) | 2 workers (Jade and Jade, Jade and ColdCard), 1 port, 2 mnemonics, 2 descriptors, 2 emulators, 3 requests of 5 kinds, 2 faults | 460 440 | `TypeOK SignsWithRequestKeys GoneLeavesNothing OrphanEnds` |
| scenario_run (`MCScenarioRun`) | 8 scenarios, 2 workers, interrupts at ≤ 2 points | 13 934 | `TypeOK EvidenceIsEarned PassIsEvidence NoWorkerLeft ManifestUnlessInterrupted` |
| evidence (`MCEvidence`) | 6 scenarios, 3 sets of approvals, 2 deviations | 725 665 | `EvidencePays EvidenceIsProven EvidenceRoundTrips HonestRunIsEvidence` |
| check (`MCCheck`) | 3 checks, 2 cases, 5 expectation files | 3 156 426 | `TypeOK ExitZeroMeansNoRegression SteadyMeansUnchanged ExitHasReport` |
| checkouts (`MCCheckouts`) | 2 checkouts, 2 fetchers, 2 revisions, 2 failures or kills | 1 107 442 | `TypeOK InterruptedFetchLeavesNoHalf LeftoverNeverBlocks DoneMeansAtPins` |
| gui (`MCGui`) | 3 profiles, 2 projects, 2 baselines, 1 case, 2 legs, 1 commit, ≤ 1 line unread | 1 671 528 | `TypeOK ShownBelongsToChoice NothingAfterFinished PinFollowsReview OnlyACommandHoldsTheWindow` |

Why the bounds are enough to be interesting:

- **engine.** The scenarios are one for each branch of `scenario_rounds` and of
  the contract: two owners in both orders and under both policies, three signers
  of whom one owns nothing, one signer in global mode, no output to resolve, one
  owner for every input, a redundant round, MuSig2. In a turn the signer returns
  what it was given changed by an honest contribution of *any* phase combined
  with none or one of twenty-one deviations (another owner's input, a second
  signature of its own, a witness of another content, rewritten or dropped
  records, the edges of tx_modifiable, ...), so every check of a step meets a PSBT
  it must refuse and one it must let through.
- **worker_transport.** Three requests over two starts hold the dangerous case:
  a request times out, its answer arrives later, and the next call, or the next
  start, reads from the same client.
- **device_worker.** Two workers and a single port give the race of
  `_unused_port` in every order; two mnemonics and three requests, a device that
  was seeded by a call that failed and is then asked for the other mnemonic; two
  descriptors, the second of which replaces the first under the one name both are
  registered with. Two emulators are one for each worker, or a second attempt of
  one of them. Two faults are one before and one after something took effect, or
  an emulator and a harness that die. A liveness property rules symmetry out; in
  its place requests that differ only by a renaming of mnemonics and descriptors
  are sent in one form (`MCRequests`).
- **evidence.** A generated mixed run; an external one that pays a recipient
  twice beside a plain output; global shares of one signer, with two recipients
  and a BIP-376 spend; one owner for both inputs, with shares per input; a structural run; one without intent.
  Each of the two things that may differ is any of: a field of the external
  PSBT, a missing input, an output more or in another place; a share, a proof, a
  signature, a script or a flag of a device; a validator; an answer of a parser or
  adapter, where an adapter may drop any two records, fill scripts or rewrite a
  record. Two of them suffice for one to hide the other: a payment that a changed
  recipient *and* a script derived for it make consistent. Without a deviation the
  run is honest, which is what `HonestRunIsEvidence` needs.
- **scenario_run.** One scenario for each combination the claims tell apart; two
  workers, so that one is up when the other fails to start; two interrupts, so
  that one can hit the handling of the other.
- **check.** Three checks in a row: one that is killed, one that meets what it
  left, one after that. One case that runs and one that is blocked without a
  PSBT, or bound to one; the file missing, malformed, complete or short an entry.
- **checkouts.** Two fetchers and two failures give every interleaving of two
  fetches, and a failure, a temporary directory that is not wholly removed
  (`ignore_errors=True`), and any number of retries; two revisions let
  the lock and the trees disagree.
- **gui.** An original profile, the MuSig2 one and the live one are the cases in
  which buttons and comparisons differ (a fetched profile offers what the MuSig2
  one does, but for the pins, and those the live one lacks too); two projects and
  two baselines, so that a result can be of another one. One case, since the bar
  counts each alike, beside the lines of two legs. One line that was left unread
  by a `run_cli` which gave up before it joined its reader suffices to reach the
  bar of the next action or the comparison of the next choice; one commit, to make
  a pin preview stale.

`CHECK_DEADLOCK FALSE` is set in every configuration because every system here
ends: a run returns, a bound on starts, checks or interrupts is used up.

### Findings

Four runs check one sentence of the documentation, or of a comment, that the code
does not keep; TLC prints the behaviour.

| Run | Property | What the documentation says, and the code does |
|---|---|---|
| redundant_sign | `SignedOnlyByOwner` | "a signature only on an owned input while signing": the redundant-sign round has no contract, and takes one on any input |
| torn_report | `DoneCasesAreReported` | each check writes its report: after a check killed inside the write of `report.json` the next ones end with a traceback and write none |
| concurrent_fetch | `NoHalfAtFinalPath` | an interrupted fetch never leaves a half-made checkout at the final path: two fetches at once do, since they share the temporary name |
| pin_review | `PinsWhatWasReviewed` | pins are written "only after review" of "exact revision changes": **Update pins** runs `pin` again and locks what the checkouts are at by then |

Met while modelling, and said here only:

- Exit 0 does not mean that "everything matches expectations" (`README.md:173`): a
  supported case that was blocked (NOT-RUN) and a finding that passed (FIXED) do not
  fail a run (`regression.py:14-15`), as the runbook says. `ExitZeroMeansNoRegression`
  claims what the code does.
- Exit 1 is also returned, as "every selected scenario was blocked", when every row
  is `completed` as expected: `cli.py:847` asks for a row that passed or failed.
- The reason `_addition_allowed` gives for its rule on witnesses, "verification
  checks the signature and the witness is what is broadcast" (`engine.py:138-140`),
  holds of one signature. An owner may add two, under two public keys, and a witness
  of either; verification reads the first (`verification.py:294`). `MCEngine` has
  that step, and `WitnessIsOwnSignature` is stated so as not to deny it.
- The exit table's "2: nothing ran" is not kept by a malformed
  `expectations.yaml`, which is read after the last case (`cli.py:810`), nor by a
  missing MuSig2 script, looked for after the report (`cli.py:839`).
- "`interop-only`: the round completed" is also in the manifest of a MuSig2 or
  intent-less run that failed before its rounds, since the except clause claims by
  the scenario alone (`cli.py:485`, `cli.py:559`). In the same way a run whose
  `finalize` raises after everything passed is recorded again by the except clause
  with status failed *and* scope evidence (`Evidence!FinalizeRaises`).
- A response of an adapter without its id or status raises a `KeyError` outside
  the stage's `try` (`interop_lab.py:246`): the run fails where the stage was meant
  to (`Evidence!AdapterAnswersHalf`).
- A roundtrip that drops records of two kinds is reported under one finding's
  name (`interop_lab.py:106`): approving that one lets the other pass. It changes
  nothing the PSBT says, which `KnownChangesSayNothing` proves.
- The runbook speaks of four findings that may be allowed; `KNOWN_FINDINGS` has
  six.
- A taproot signature is verified against the key of the UTXO and with the sighash
  byte it carries; nothing compares the UTXO's key with the one the derivation
  leads to, or asks the byte to be ALL. Evidence of such a PSBT is reachable, and
  `EvidenceIsProven` is stated so as not to deny it.
- The contract asks for *a* share and *a* proof on each input (`engine.py:207-222`),
  not for one of every scan key: with two scan keys a script may be resolved while a
  share of one of them is missing. `MCEngine` has two keys and reaches it;
  `ResolvedAfterShares` claims no more than the code asks, and `Verification` finds
  the missing share at the end.
- `run_cli` returns an error before it joins its stderr reader when stdout is no
  UTF-8 or the wait fails (`main.rs:637-640`). Lines of the check that ended may
  then move the bar of the next one, or bring the comparison of an earlier choice;
  nothing else, which the gui run checks.
- A later check takes a torn `report.json` for the newest batch and ends with a
  traceback; only batches without any report are passed over.
- A Jade worker may sign through the QEMU of another run, when that QEMU won the
  race for the port and has no client: the docstring calls the instance isolated.
  The keys are still those of the request (`SignsWithRequestKeys`), because a
  worker seeds whatever it connects to.
- Every descriptor is registered under the name `bip375-interop`, and a worker skips
  an enrolment of the one it remembers. If an enrolment raised after the device took
  the new descriptor, the worker remembers the old one, and a request for that signs
  without it: the exception `SignsWithRequestKeys` names (`lost`).

Where a property of a passing run has an exception, the exception is in its
statement, and is one of these findings or in the note of a hazard: two
fetches at once (`~ overlapped`), an interrupt between a worker's start and the
dict or inside a cleanup (`NoWorkerLeft`), an interrupted run, which leaves no
manifest (`ManifestUnlessInterrupted`), a reader left behind (`stray = {}`), an
emulator whose start a raise left unattended (`dropped`), an enrolment that raised
after it took effect (`lost`).

## 4. Fairness

Liveness is checked only where the code's own bounds justify fairness.

- `WorkerTransport`: `WF(Proceed)`, the steps of a call under way: a read ends by
  its timeout, and `stop()` waits five seconds and then kills. *No* fairness for
  a worker: it may never answer. A child that got SIGTERM dies, as the two
  emulators the harness starts do; this is an assumption about them, and a
  hazard of its own says what follows if it fails.
- `Gui`: `WF` of `Receive` (a frame is requested every 100 ms while an action
  runs), of the thread and of the stderr reader. *No* fairness for the command:
  `run_cli` sets no limit and kills nothing, the MuSig2 legs (`cli.py:345`) and git
  (`fetch.py:23`) have none. So it is not claimed that an action ends, only that
  nothing but a command that runs can hold the window
  (`OnlyACommandHoldsTheWindow`).
- `DeviceWorker`: `WF(Proceed(w))`, the steps a worker takes without waiting for a
  device: starting an emulator, connecting or giving up at the deadline, refusing
  a request, the `finally`. *No* fairness for the calls that wait for a device, which
  have no limit of their own (`timeout=None`, and the poll at
  `coldcard_psbt_worker.py:261`): `OrphanEnds` names exactly that as the one way
  in which a worker whose harness was killed may stay.
- `Engine`, `ScenarioRun`, `Check`, `Checkouts` and `Evidence` are checked for safety
  only: their loops are over finite lists, and what they call has no limit in the
  code but the worker's.

## 5. Proofs

`EngineProofs` proves, for any set of signers, scenarios, orders, record slots,
initial PSBTs and changes that signers may make:

| Theorem | Statement | Argument |
|---|---|---|
| `TypeCorrect` | `Spec => []TypeOK` | inductive as it stands, with the lemmas that a merge of PSBTs is one (`MergedIsPsbt`), that what a signer may return is one (`OffersArePsbts`), that the first of the order is a waiting signer (`FirstIsWaiting`, `TurnTyped`), and that schedules are well formed (`RoundsTyped`) |
| `CarriedPsbtOnlyGrows` | `Spec => OnlyGrows` | every step leaves `current` alone or merges (`StepMerges`), and a permitted merge extends its base (`MergeExtends`): the refinement of `AdditivePsbt` |
| `InitialRecordsSurvive` | `Spec => []InitialSurvives` | from the same two facts |
| `OwnersSpeak` | `Spec => []OwnersSpeakForInputs` | a record gains its author in the step that adds it, and the contract held there |
| `WitnessesAreOwnSignatures` | `Spec => []WitnessIsOwnSignature` | needs `AuthorsHold` (a record with an author is in the PSBT): without it the signature beside a witness could be thought to be replaced later |
| `RepairsAreRestored` | `Spec => []RepairsRestore` | a merge that repairs puts the record back, and no later merge takes it away |
| `DoneMeansSigned` | `Spec => []DoneMeansEveryOwnerSigned` | see below |
| `SharesBeforeScripts` | `Spec => []ResolvedAfterShares` | see below |

The last two are not inductive: nothing in a state with a finished round says
what happened in it. The strengthening is `TurnsServed` (every signer served so
far, in earlier rounds and in this one, left the records the phase of its turn
asks for) with `LoopEnds` (nobody waits only at the end of the last round).
`Schedules` lists the shapes `scenario_rounds` can return; from it follow
`EveryoneSigns` (each signer has a turn in a signing phase) and
`ContributionsFirst` (no other phase comes before a contribute round). A run that
is done has served every turn, hence `DoneMeansSigned`. A script is added only
in a resolve-sign turn, when all contribute rounds are past, hence
`SharesBeforeScripts`.

`EvidenceProofs` proves, for any set of names, recipients, scenarios and
approvals, and any number of deviations:

| Theorem | Statement | Argument |
|---|---|---|
| `EvidencePaysTheScenario` | `Spec => []EvidencePays` | from `VerifyInvariant` and `ScenarioIsValid` |
| `EvidenceIsTheOwners` | `Spec => []EvidenceIsProven` | from the same two |
| `KnownChangesSayNothing` | a roundtrip change with a name leaves `Meaning` as it was | the added scripts are empty (`EmptyScriptsSayNothing`); each dropped record is redundant, so flags, sighashes and the rest agree (`RedundantDropsSayNothing`, `MeaningByParts`) |
| `EvidenceCameThroughTheLab` | `Spec => []EvidenceRoundTrips` | from `LabInvariant` and `EvidenceAfterLab` |
| `HonestRunsAreEvidence` | `Spec => []HonestRunIsEvidence` | from `HonestInvariant`, `LabInvariant` and `ScenarioIsValid` |

`VerifyInv` says that once the run is past the verification, and whenever its
manifest says evidence, `CompletionHolds(sc, final)` is true of the PSBT that is
there: a claim needs the lab (`ClaimNeedsLab`), the lab comes after the
verification, and nothing later writes `final`. From `CompletionHolds` of a full
scenario with intent follow the owners' keys (`KeysAreOwners`), the recipients
(`RecipientsAreTheScenarios`), hence the scripts owed (`VerifiedPays`), the
signatures and the shares (`VerifiedIsProven`). `LabInv` keeps the books of the
stage: when harm was met, either it is marked on the file under way in a way
that no approval lets pass (`Caught`), or fewer files passed than were read, so
the stage cannot pass. One lemma for each kind of answer (`ParsersCaught`,
`AdapterCaught`) shows that its mark is as bad as its harm, and `JudgedCaught`
that the last answer of a file carries it over; `FailureStays` is that a mark is
never taken back. `ClaimedAfterLab` ties the manifest to a stage that passed.

The other direction, that the checks refuse nothing honest devices make, is
`HonestRunsAreEvidence`. `HonestInv` follows an honest run of a scenario that may
be evidence (`Sound`): it starts with the scenario's PSBT, verifies what honest
devices make of it, no file has a mark, every record is a pass, as many files
passed as were read. A step in which something differs is counted
(`DifferingIsNotHonest`), so it concerns this run no more; of the others only two
are hard. That the verification accepts (`HonestCompletes`) is taken apart into
what `Prepared` and `Completed` make of an input (`HonestInput`) and of an output
(`HonestOutputs`), from which follow the keys, the intent, the shares, the
signatures and the scripts: an output's number among those of its recipient is
the same counted by the device and by the verifier. That the manifest says
evidence (`HonestManifest`) is a computation on the claim.

`DeviceProofs` proves, for any number of workers, pairings, ports, emulators,
requests and faults:

| Theorem | Statement | Argument |
|---|---|---|
| `DeviceTypeCorrect` | `Spec => []TypeOK` | needs `Serving`: a worker under way has a request, and one past the opening has a device |
| `SignsWithTheRequestsKeys` | `Spec => []SignsWithRequestKeys` | from `Told` and `InHand`, see below |
| `AGoneWorkerLeavesNothing` | `Spec => []GoneLeavesNothing` | from `Owned` and `Opening`, see below |

`Told` is the heart of the first: as long as the emulator of a worker's `device`
is up, it serves that worker and no other, it has the seed the worker remembers,
and the descriptor the worker remembers is the one it holds, or (`lost`) the one that
was replaced by an enrolment that then raised. It survives another
worker's step because an emulator serves one connection at a time (an assumption
on the emulators), and a failed call because the worker remembers nothing of it.
`Opening` says that a worker without a device remembers nothing, so an emulator
that is reached for the first time is always seeded; `InHand` carries the
comparison with the request to the step that signs. `Owned` says that the only
emulator a worker may have to end is the one in `own`, so ending that one is
enough, unless a raise out of `_open` dropped it (`dropped`, which the property
excepts by name); it rests on `Records` (an emulator not started yet is nobody's). The
three ways a worker forgets (`ConnectFails`, `Serve_ends`, `Stopped`) are one
lemma, `ForgetKeeps`.

`TransportProofs` proves, for any number of starts, requests and lines of noise:

| Theorem | Statement | Argument |
|---|---|---|
| `TransportTypeCorrect` | `Spec => []TypeOK` | needs `FreshInv`: a process not started yet has nothing on its pipes |
| `RepliesMatch` | `Spec => []ReplyAnswersRequest` | from `LockInv`, see below |
| `WhatIsLeftWasSignalled` | `Spec => []NothingLeftUnsignalled` | needs that `stop()` waits only for a group it has signalled (`SignalInv`) |

`ReplyAnswersRequest` alone says nothing of what is still on the way. `LockInv`
does: as long as no call of the process failed, client and worker are in lock
step. During a read exactly one of three holds: the request is in the pipe, the
worker has it, or its answer is the only one among the lines that are buffered or
unread (`Answered`); between calls nothing but noise is anywhere (`Unanswered`).
It is what a late answer would break, and what the code keeps by never using a
process again after a call of it failed (`CallInv`). The lemmas on lines
(`AppendAnswer`, `SplitLines`, `FirstLine`) carry it over the pipe and the buffer.

`ScenarioProofs` proves, for any scenarios, signers and number of interrupts:

| Theorem | Statement | Argument |
|---|---|---|
| `RunTypeCorrect` | `Spec => []TypeOK` | a part of `RunInv` |
| `EvidenceWasEarned` | `Spec => []EvidenceIsEarned` | `ManifestInv`: the manifest's scope is the one the run's results give now, so `EvidenceClaim` applies to them |
| `PassedMeansEvidence` | `Spec => []PassIsEvidence` | the row is made of the same results (`PassedRowIsEvidence`) |
| `EveryWorkerIsStopped` | `Spec => []NoWorkerLeft` | from `WorkerInv` |
| `ManifestIsLeft` | `Spec => []ManifestUnlessInterrupted` | from `ManifestInv` and `RaiseInv` |

`RunInv` is the conjunction of the types, `HeldInv` (the dict holds the first of
the signers, in order), `WorkerInv` (unless an interrupt fell into the three
places the property names, a worker that is up is in the dict or is the one about
to be recorded), `RaiseInv` (where an exception is under way), `ResultInv` (a
result exists only after the stage that makes it) and `ManifestInv`. Without
`ResultInv` a manifest could be written with results that came later.

`CheckProofs` proves, for any entries, expectation files and number of checks:

| Theorem | Statement | Argument |
|---|---|---|
| `CheckTypeCorrect` | `Spec => []TypeOK` | from `CheckInv` |
| `ExitZeroHidesNoRegression` | `Spec => []ExitZeroMeansNoRegression` | `LabelsInv`: a label fits its row and its expectation (`LabelFits`) from `Judge` to the exit |
| `SteadyIsUnchanged` | `Spec => []SteadyMeansUnchanged` | from `FinalizedInv` and `PriorIsFinalized` |
| `ExitIsReported` | `Spec => []ExitHasReport` | from `ReportInv` |

The property about `STEADY` relates the labels of a check to what an earlier
check left on the disk. `finalized`, its history variable, is the rows of the
newest whole report; `FinalizedInv` says of *which* batches: of all of them
between checks, of all but the one under way during a check, and of one or the
other after a kill. A batch without a report does not count, and the code passes it
over (`regression.py:113`). A torn one the code does take, and ends with a traceback
when it reads it (`JudgeCrashes`), so no label is ever made of it. The lemma `LargestOf`
(a nonempty set of indices has a largest one) is what makes "newest" well defined
for any number of batches.

`CheckoutsProofs` proves, for any checkouts, fetchers, revisions and failures:

| Theorem | Statement | Argument |
|---|---|---|
| `CheckoutsTypeCorrect` | `Spec => []TypeOK` | trees, fetches and pin separately |
| `NoHalfCheckout` | `Spec => []InterruptedFetchLeavesNoHalf` | from `Alone` |
| `NothingBlocksTheNext` | `Spec => []LeftoverNeverBlocks` | from `Alone` |
| `DoneIsAtPins` | `Spec => []DoneMeansAtPins` | from `Alone` and the pins a fetch read |

`Alone` holds as long as no two fetches overlapped: at most one is under way,
every final path is empty or whole, and `FetchInv` says for each place of a
fetch what is at its temporary path and that the checkouts it has dealt with are
at the pins it read or at a commit on top of them. A fetch that fails or is
killed stops with any of these, and the next one begins by clearing what is
there. Its negation is the `concurrent_fetch` finding.

`GuiProofs` proves, for any profiles, projects, baselines, cases, commits and lines
left unread:

| Theorem | Statement | Argument |
|---|---|---|
| `GuiTypeCorrect` | `Spec => []TypeOK` | from `GuiInv`; the bounds of the bar from `BarInv` |
| `ShownIsOfTheChoice` | `Spec => []ShownBelongsToChoice` | from `ShownInv` and `AsideInv` |
| `NothingIsLeftOver` | `Spec => []NothingAfterFinished` | from `QueueInv` |
| `PinIsReviewed` | `Spec => []PinFollowsReview` | from `ShownInv` |

That what is shown is of the choice rests on everything under way being of it:
the thread (`ThreadInv`), the output of its command (`CliInv`) and each event in
the channel (`QueueInv`, `OwnEvents`), which holds because choices are disabled
while an action runs, and an action is over only with its `finished` event, the
last of the queue, after which the thread is gone. The type of the progress bar is
the one part that does not follow: that it never passes its end needs a count of
the lines still on their way. `BarInv` says that there is an offset by which the
bar, the lines in the channel and in the pipe, and the legs the command has still
to start add up. Both, and the comparison, are claimed as long as no reader was left
behind: `AsideInv` says what the lines of one can do, and `StrayStays` that it is
never forgotten. `PinIsReviewed` says that a preview of the profile which found
changes is shown while `pin` runs, and nothing of the revisions: pin_review shows that
they may be others.

Assumptions: `PsbtAssumption` (slots are scope, index, field and key data; the absent
value is no value) and `EngineAssumption` (scenarios are those `validate` and
`_resolve_signer_order` admit, initial PSBTs are well formed);
`VerificationAssumption` (a stranger is no signer, the absent value is nothing
else) and `EvidenceAssumption` (scenarios are those `Scenario.from_dict` and the
suite admit, approvals are known findings); `DeviceAssumption` (the kinds of
workers, requests as the two suites make them, and that the absent value is nothing
else); `TransportAssumption` (the
bounds are numbers); `RunAssumption` (scenarios are lists of signers and of known
validators); `CheckAssumption` (names of entries differ, a generated scenario
declares its intent, files are those the loader can meet); `CheckoutsAssumption`
(the names are a list without repetitions, and not empty); `GuiAssumption` (the
live and the MuSig2 profile, and a baseline to compare with). TLC evaluates all of
them in the runs above.

Model-checked only: the liveness properties (`CallsReturn`, `StoppedGroupDies`,
`OrphanEnds`, `OnlyACommandHoldsTheWindow`), since fairness and `ENABLED` are beyond
the prover, and the four properties that a run refutes.

## 6. Abstractions to keep in mind

- A record's bytes are one of a few values; a signature is never *verified* in
  `Engine`, only attributed. The bytes of a final witness are named by the
  signature and the key they stand for (`Stack`).
- In `Verification` a key is the name of the signer whose seed it comes from, a
  share and its proof are the key they were made with, a signature is who made it,
  a script is the recipient, the keys and the position it was derived from. What
  the primitives of embit compute is taken for granted; what the harness asks of
  them, in which order and about whose key, is modelled.
- `Evidence` has two snapshots, the first and the last; those between are more of
  the same to the lab. The chunks of 32 files are one.
- An emulator serves one connection, exits if it cannot bind its port, and dies
  when it is terminated. It has one descriptor under the name all are registered
  with: an acknowledged registration is what the device holds.
- In `Gui` a command that has exited has its pipes at their end. An error of the pipe
  while the command still runs, after which the window would be free beside it, is
  left out, and so is a second reader left behind.
- In `ScenarioRun` validators and lab are their outcomes; that a validator may
  report on fewer snapshots than it was given is one of them (`short`).
- A line on a pipe is whole, and the pipe takes it: a write never blocks, though in
  the code one of more than the pipe holds may, and has no limit of time.
- `Check` reads `expectations.yaml` once, and takes one case at a time as a step.
- A revision stands for a commit whichever version control names it.

## 7. Not modelled, and why

- The primitives of verification (BIP-352 derivation, DLEQ, ECDSA, Schnorr):
  arithmetic on bytes, in embit. `verify_musig2_sp_completion` counts records of a
  MuSig2 round and claims nothing of them.
- The Caravan and SPDK validators' own checks, and the lab's programs.
- Test seeds, worker adapters, the MuSig2 treasury, baselines and expectation
  data: pure functions and data; the models take their results as constants.
- The SeedSigner and BitSaga workers' requests: calls into their checkouts.
- `BIP375_JADE_ENDPOINT`, with which a Jade worker starts nothing.
- `build`, smoke and device test runs, MuSig2 legs: sequences of external
  commands that keep no state.
- Git's ahead / behind answers in a comparison; the import path that
  `use_checkout_embit` changes.
- `fetch` without `--in-place`, which also writes a config; `check --dry-run`,
  `--since` and scenario selection; the window's messages, layout and
  `--allow-dirty`.
- The reason strings of a skipped lab, JUnit and SARIF.

## 8. Plan

Order of the whole development; all are done.

1. `PsbtMaps`, `AdditivePsbt`, `Engine` with proofs: the judge's core.
2. `WorkerTransport` with proofs: what the engine's steps rest on.
3. `Claims`, `ScenarioRun` with proofs: what a run may say.
4. `Check` with proofs: what a batch says.
5. `Checkouts` with proofs: what was under test.
6. `Gui` with proofs: what a user is shown.
7. `DeviceWorker` with proofs: whose keys sign, and what is left when a worker ends.
8. `Verification`, `InteropLab`, `Evidence` with proofs: what evidence means.
9. `Gui` extended by the revisions a pin preview showed, to compare what is written
   with what was reviewed.
10. Proofs of every invariant the runs check (section 5).

## 9. Running

In this directory, with the community modules on TLC's path:

```
tlc -workers 2 -config MCEngine.cfg MCEngine.tla
for m in Engine Evidence Device Transport Scenario Check Checkouts Gui; do
  tlapm ${m}Proofs.tla
done
```

The longest runs are `MCGui`, `MCDeviceWorker`, `MCCheck` and `MCEngine`, of one to two
minutes each.
