# nixtropic firmware: TLA+ verification project

nixtropic is firmware for an STM32U5 with a TROPIC01 secure element: a FIDO2
authenticator and an OpenPGP card on one USB device. These modules model the
parts of `firmware/src/` whose correctness depends on what happens *between* two
calls: power cuts, lost replies, USB callbacks that re-enter a running request.
TLC checks them on small instances; TLAPS proves the theorems listed below for
every value of the constants.

    tlc -workers 2 -config MCRecPair.cfg MCRecPair      # one run
    tlapm RecPairProofs.tla                             # one proof module (also the other *Proofs)

`PROJECT.json` has the runs, the definition-to-source map, the mutants (one
plausible bug per checked property, each of which TLC must catch), the hazards
and the theorems.

## 1. Inventory

The firmware is single-threaded. `main()` loops over `tud_task()`,
`usb_ccid_task()` and `fido_hid_task()`. There is one real interrupt of interest
(SysTick: the button debouncer). Concurrency comes from re-entry: a handler that
waits for a touch, or reaches a progress point before a chip call, pumps USB,
and USB callbacks then change transport state under it. Persistence is in the
secure element: R-memory slots (write once until erased), ECC key slots, a
down-counter and 128 MAC-and-Destroy (M&D) slots. Each chip call can be cut by a
power loss or lose its reply, and no call is retried.

| Component | State | Operations | Talks to |
|---|---|---|---|
| Mirrored records, `tropic/rec_pair.c` | two R-memory slots; RAM `uncertain` | read (with repair), write, init, clear | chip; used by every record below |
| PIN kernel, `tropic/pin_md_kernel.c` | binding record, M&D slots | status, setup, verify, change, clear | records, chip |
| FIDO store, `fido_hid/{slots,credstore,fido_state,pin_md}.c` | O1 (bitmap, forceUV, pin_bound), metadata and key slots, O2 (PIN), counter; RAM copy of O1 | make, erase, sign, set PIN, config, boot, factory reset | records, PIN kernel, chip |
| CTAPHID, `fido_hid/ctaphid.c` | assembly, queued or running request, `abandoned`, response, two held packets | packet callback, main-loop task, progress point | USB, CTAP2, user presence |
| User presence, `fido_hid/user_presence.c` | debounced button, awaiting, cancel latch | check (wait), cancel, SysTick | CTAPHID, CTAP2, OpenPGP |
| CTAP2, `ctap2*.c` | assertion state for GetNextAssertion | MakeCredential, GetAssertion, Reset, config | store, clientPIN, user presence |
| clientPIN and token, `pin.c`, `pin_token.c` | key-agreement key, consecutive failures, token with permissions, RP, timers | setPin, changePin, getPinToken, verify, consume | FIDO PIN, CTAP2 |
| credMgmt, `credmgmt.c` | one iterator and the token generation behind it | enumerate, delete, update | store, token |
| OpenPGP, `openpgp/*.c` | O3 state record, O4-O6 PINs, three ECC slots, the DEC key wrapped in O3; RAM: copy of O3, access flags, KEK, boot tries | one handler per APDU, terminate, activate, boot | records, PIN kernel, chip, user presence, CCID |
| CCID, `usb/usb_ccid.c`, `ccid/apdu_dispatch.c` | receive and send buffers, pending length, `s_processing`, epoch, interface | task, bus reset, open, transfer callbacks | OpenPGP, USB |
| L3 session, `tropic/tropic.c`, `l3_result.h` | handle ready, session on or off, nonces (libtropic) | ensure, one wrapper per chip call, drop | chip; every record, PIN and key call goes through it |
| Parsing and encoding, USB descriptors, debug RPC, platform | none, or build-time | - | - |

What makes each one correct, and what is hard about it:

- **Records**: one fault never rolls an object back and never loses it; a value
  that was superseded never returns, even from a slot that read as empty for a
  while. Hard: six chip calls per commit, each of which can be torn.
- **PIN kernel**: no PIN evaluation without a spent attempt; the old or the new
  PIN always opens; a replaced range of slots is dead before success is
  reported. Hard: up to 24 M&D calls and two record writes per setup.
- **FIDO store**: a credential keeps its own key, survives failures of other
  operations, and stays behind the PIN; a reset that answers OK left nothing.
  Hard: five kinds of chip object updated in sequence without a transaction.
- **CTAPHID**: a host that re-synchronises gets no answer of the transaction it
  left, a handler's buffers are not written under it, and everyone is served.
  Hard: packets arrive in every state of the loop.
- **User presence**: consent is a new press, in the wait it is for.
- **clientPIN and token**: a token serves only what it was granted, in time, for
  one RP and one touch, and dies with its PIN; three wrong PINs stop a power-up.
  Hard: expiry is lazy, and a failing change may or may not have happened.
- **CTAP2 and credMgmt**: what is kept between two commands (the assertion list,
  the iterator, a request that waits for its touch) is still right when it is
  used. Hard: any command, failure or time may come in between.
- **OpenPGP**: factory PINs never meet old keys and a new PIN never an old
  wrapped key; the lifecycle record is true; a replaced Resetting Code is dead;
  the KEK lives as long as its access flag; no signature is uncounted; a
  permanent touch is permanent; there is always a way back to a working card.
  Hard: TERMINATE is a dozen chip calls over three kinds of object, any of
  which fails or is cut, and the next boot decides from what it finds.
- **CCID**: nothing crosses a bus reset, and the reader never stops listening.
  Hard: the reset comes in the middle of an APDU that waits for a touch.
- **L3 session**: a lost frame costs one call, not all the following ones, and
  no command is run twice. Hard: host and chip count messages separately.

## 2. Modules

### RecPair, AtomicRecord: `tropic/rec_pair.c`

`RecPair` has one action per public call that starts it (`rec_pair_read`,
`rec_pair_write`, `rec_pair_init`, `rec_pair_clear`), and then one action per
chip call: `ReadA`, `ReadB` (which also takes `rec_pair_read`'s decision),
`EraseCopy`, `WriteCopy`, `CheckCopy` (read back and compare). `op` and `phase`
say which call and which copy, `step` which chip call. A slot is empty, bad, a
valid record, or *masked*: a record that at the moment fails to decrypt, which
the chip reports as empty. A record is reduced to generation and payload; header
and checksum only decide "valid". `uncertain` is the RAM flag of `rec_pair_t`.

Faults: `PowerCut` and `LostReply` hit any chip call, with every outcome of a
torn erase or write; `Damage` and `Revive` hit a slot at any time. `MaxFaults`
bounds the faults between two *clean* states (both copies valid and equal, or
both empty), which is the fault model of `docs/history/PHASE-9-M4-DESIGN.md`
(section 1.1): one fault, then a completed repair.

`AtomicRecord` is what `rec_pair.h` promises: a set `may` of values the object
may have; a write adds its payload, an acknowledgement or a successful read
reduces the set to one value, and nothing that left it returns.

### PinKernel: `tropic/pin_md_kernel.c`

One action per public call, then one per M&D call or record store (`Retire`,
`Unpend`, `Reserve`, `Guess`, `Rekey`, `Restore`, `Key`, `Commit`, `Wipe`,
`Drop`); `Load` is `load` plus the branch of `settle`. The record is the atomic
one of `RecPair`, so a store is one step that may be cut before or after; only
the first commit and the clear can leave a record in limbo.

Data: M&D replaces the slot's key by a digest of the input, so a slot is "the
secret s whose u it was last keyed with", or `None`. A tag matches exactly when
the slot holds the key its `ci` was made with and the PIN is the same: the
cryptography is taken as collision-free. `tropic_random` never repeats a secret
that is still in use (`Fresh`).

### FidoStore: `slots.c`, `credstore.c`, `fido_state.c`, `pin_md.c`

Actions per operation (`credstore_make`, `credstore_erase_slot`, `fido_pin_set`,
`slots_force_uv_set`, `Assertion`, `credstore_factory_reset`, boot), then one
step per chip call through `ChipStep`; `Successor` is the order of the calls.
O1 is an atomic record. O2, the FIDO PIN, is `PinKernel` reduced to "ok",
"absent" or "torn". A credential is the name of its key. `secured`, `counts` and
`live` are history variables, for the properties. `Damage` and `LosePin` are the
single-slot damages the code has guards for.

### CtapHid: `ctaphid.c` and the wait in `user_presence.c`

`Receive` is one packet from the host, in any state of the loop, with the whole
handler behind it (`handle_init_packet`, `handle_cont_packet`); the output
functions are functions on the output state `out` (`push_packet`,
`flush_pending`, `send_now`, `queue_response`, `reply_short`,
`emit_response_packet`). `fido_hid_task` starts, drops or finishes a request;
`fido_hid_progress` is the progress point; `RequestTouch`, `OpenPgpTouch`,
`Button` and `WaitOver` are the touch wait of both applications. The IN endpoint
takes one packet until the host polls (`HostPoll`). A message is its channel and
its number of packets. The field `old` marks everything that belongs to a
transaction whose host has sent INIT since.

### ClientPin: `pin.c`, `pin_token.c`, `pin_md.c`

One action per clientPIN sub-command (`handle_set_pin`, `handle_change_pin`,
`handle_get_pin_token`), per check another command makes of the token
(`check_token`, `check_cm_token`, `ContinueCm`, `ToggleAlwaysUv`, `CheckFails`),
and for the touch, the reset, the power cycle and time. The token is the record
`tok`; `same` is the comparison of `s_iter_gen` with the token's generation (a
counter that never comes round). The binding is `pin` and `left`: what
`PinKernel` guarantees of it, with every outcome of a call that fails. `ready`
is `credstore_ready()`. `grant` and `auth` are history: what the token in use
was granted and used for, and what the last request was authorised to do.

Time is in abstract units and `HAL_GetTick` is `now % TickRange`, as the 32-bit
tick is. The key agreement is abstracted to its result.

### Ctap2: `ctap2.c`, `ctap2_creds.c`, `credmgmt.c`, `ctap2_config.c`

It extends `ClientPin`: a command's action is the dispatcher's resets, the
policy, the token step of `ClientPin`, and the answer. A command that waits for
a touch, or that changes the store, is left in `req` and goes on in a second
step (`Touch`, `NoTouch`, `Make`, `ga_sign_respond`, `Erase`, `Wipe`), so that
time, a failing read and a power cut come in between. `cred` is the published
credential of each slot; what a cut leaves of the write itself is `FidoStore`'s
subject. Any read of a credential may fail, which is why a list (`ga_discover`,
`build_rp_list`) may leave out any of them; it is given by its order (`BySlot`,
`NewestFirst`) rather than by the loop that sorts it. `ga` is `s_ga` and
`iter` the iterator of `credmgmt.c`; `ret` is the last answer. A command that
is refused before it changes anything is `OtherCommand`.

### PgpCard: `openpgp/*.c`

A handler is an action up to its first chip call (`handle_verify`,
`handle_put_data`, `pgp_pin_set_rc`, `handle_terminate_df`, ...); then `pc` walks
through its calls, one step each: `Status` and `Attempt` (PIN records), `Erase`,
`Generate`, `Sign`, `Authenticate` (ECC slots), `Load`, `openpgp_state_clear`,
`openpgp_state_init`, `Store` (O3; `StoreValue` says what each `openpgp_state_*`
setter commits), `Retire`, `Drop` and `Bind` (a PIN's `clear` and `setup`). The
order of the calls is in the `Goto` of each step. `pgp_lifecycle_ensure` runs
before an APDU, at most `PGP_BOOT_TRIES` times, and `Gate` is the lifecycle
switch of the dispatcher. A handler that returns early without changing anything
is `Refuse`.

O3 is the atomic record of `RecPair` ("ok", "absent" or, after a cut in init or
clear, "torn": any read may find it, find nothing or fail). A PIN is what
`PinKernel` proves of it: a secret, a number of spent attempts, and `keyed`,
whether its slots still open it; it may be torn by a cut in its first setup or
its clear. The PIN's digits are left out: an attempt on a keyed PIN may be right
or wrong. Key material is named by the secret it belongs to, so that "a key meets
a PIN that is not its own" is visible. Of the data objects only DO C4, the UIFs
(one value: the code has one byte for all) and the Resetting Code have control;
names, languages and fingerprints are stores that leave the record as it was.

`Interrupted` is what a cut call leaves; `Lost*` are the error returns of each
group of calls, `PowerCut` a cut in a call, `Replug` one between two APDUs.
`lead`, `perm`, `asked` and `ret` are history.

### CardSession, UsbCcid: `usb_ccid.c`, `apdu_dispatch.c`

`Take`, `process_message`, `TouchEnds` and `Finish` are `usb_ccid_task`;
`ccid_reset`, `ccid_open`, `Received` and `Delivered` are TinyUSB's callbacks,
which run in the main loop and in the touch wait of an APDU (`UsbRuns`). The
touch wait of a FIDO request only delays `Take`. Requests are numbered and carry
the bus session they were sent in, so a buffer that changes and an answer that
crosses a reset are visible. `epoch` is `s_epoch`; its 32 bits are not reached
within one APDU. `access` is the applet's access status, which `PgpCard` models
flag by flag; `openpgp_applet_card_reset` is the step both modules share.

`CardSession` is what a reader promises: one request at a time, each answered at
most once and in its session, and a reset ends request, answer and access.

### ChipCall, L3Session: `tropic.c`, `l3_result.h`

One action per wrapper (they differ in their argument check only), then
`lt_get_info_cert_store` and `lt_session_start` when the session is off, `Send`
and `Receive` for the one libtropic call, and `l3_done`. Both ends have a key and
two nonces; the chip closes its session on a request that is out of step. A frame
may be lost in either direction, the chip may answer with an L2 status or a
result that libtropic does not know, and power may be cut.

`ChipCall` is the assumption of all the other modules: a call runs at most once
on the chip, an answer means that it ran, an error leaves open whether it did.
`L3Session` implements it, so the steps of `RecPair`, `PinKernel`, `FidoStore`
and `PgpCard` that "may lose their reply" are what the code below them gives.

## 3. Runs

| Run | Question | Result |
|---|---|---|
| `rec_pair` | with one fault between clean states, does the pair implement the atomic record? | holds: `NeverStale`, `Durable`, refinement `ImplementsAtomicRecord` |
| `pin_kernel` | two ranges, everything cut or lost anywhere | holds: `NoFreeGuess`, `Usable`, `OldRangeRetired`, `SecretKept` |
| `fido_store` | all operations, cut or failing at every chip call | holds: `OwnKey`, `Survives`, `NeverUnprotected`, `ResetErasesAll`, `SignCountGrows` |
| `ctaphid` | four packets on two channels in every state; is everything accepted served and delivered once the host stops? | holds: `NothingStale`, `OwnsBuffers`, `CancelOwned`, `FreshConsent`, `Served` |
| `ctaphid_resync` | is every INIT on a busy channel answered, as the changelog says? | `ResyncAnswered` is violated, see findings |
| `client_pin` | all clientPIN requests and token uses, with time, failures, resets and power cycles | holds: `TokenOfThisPin`, `GrantedUse`, `LockoutHolds` |
| `ctap2` | all commands, one RP, two users | holds: `TypeOK`, `OneAccount`, `NoStaleLists`, `AlwaysUvHolds`, refinement `ImplementsClientPin`, so that what is shown of `ClientPin` is about the whole command layer |
| `ctap2_list` | enumerations with two RPs and tokens bound to one | holds: `EnumerationScope` |
| `pgp_card` | all APDUs, cut or failing in any chip call, bus resets in the touch wait | holds: `KeysOfThisPin`, `RecordIsTrue`, `OnlyLatestCode`, `KekIsLive`, `SigsCounted`, `PermanentTouch`, `WipeErasesAll` |
| `pgp_wayout` | two faults: can the card always be brought back? | holds: `WayOut` |
| `ccid` | bus resets and requests in every state of an APDU | holds: `BuffersStable`, `Listens`, refinement `ImplementsCardSession` |
| `l3_session` | lost frames, chip errors and power cycles in every wrapper | holds: `OneFailurePerFault`, `NoBlindRun`, refinement `ImplementsChipCall` |

The type invariants are proved rather than run (section 5); that of `Ctap2` is
both.

`OldRangeRetired` is about the moment at which setup or change answers OK: a
later change keys the other range again, under the same secret, before its own
commit.

`Served` excepts what waits behind a queued request that its host has left: that
exception is exactly the finding, and `ctaphid_resync` is the same question
without it.

### Bounds

- `RecPair`: three payloads, one of them longer than a reader's buffer; three
  generations. Two payloads tell old from new, the third tells superseded from
  old. `MaxGen = 3` stands for UINT32_MAX, so the exhausted generation is
  reached too. One fault between clean states; more faults are left to the
  theorem `Safety`, which has no bound.
- `PinKernel`: two ranges, and two rounds instead of eight: a first, a last and
  a spent slot exist. One range (the OpenPGP Resetting Code) and every other
  number of rounds are left to the theorems. Two PINs; four secrets, because
  a binding, two ranges and the call can hold a different one each.
- `FidoStore`: two slots and three keys, so that a slot is reused while an older
  key is still around; counter of 2, so that it runs out.
- `CtapHid`: two channels and the broadcast, requests and answers of at most two
  packets (the shortest with a continuation), four packets from the host: a
  two-packet request, a second request behind its unsent answer, and an INIT or
  CANCEL; or three requests and an INIT.
- `ClientPin`: two RPs and two PINs; three attempts and a lockout after two, so
  that lockout and exhaustion differ; a first-use time of 1, a life of 2 and an
  uptime of 4, so that both timers run out. `MaxUptime < TickRange` means an
  uptime below 49.7 days, and the tick does not wrap in the run. Beyond it a token
  that nobody presented for a whole turn of the tick would count as young again,
  since expiry is lazy; `UseIsGranted` has the same assumption.
- `Ctap2`: two slots and two sequence numbers, so that both run out; two users
  make a list of two assertions, two RPs an enumeration of two. Timeouts are 0
  and the uptime 1: something is in time at once and late one unit later. One
  attempt and a lockout after one wrong PIN; the rest is `client_pin`'s.
- `PgpCard`: one round, so that one wrong PIN blocks; two secrets per PIN (the
  bound one and a new one; one that is held nowhere is free again, as with random
  values) and two Resetting Codes, the replaced and the new one; two boot tries.
  One fault in `pgp_card`; two in `pgp_wayout`, which leaves out PUT DATA.
  Secrets and codes are symmetric where only safety is checked.
- `UsbCcid`: four resets and five requests, so that a reset comes in each of two
  consecutive APDUs and requests are sent in three sessions. The theorems have no
  bound. Its deadlock is the last request, read.
- `L3Session`: four calls and three faults, so that a session goes out of step,
  is dropped, is started again with a lost handshake and serves; the theorems
  have no bound. Its deadlock is the end of the calls.

### Fairness

`CtapHid`: the main loop runs for ever, so `fido_hid_task` is taken infinitely
often: strong fairness, because a touch wait of the OpenPGP side disables it for a
while again and again. A running handler ends (`WF(Finish)`) and a touch wait ends
by its timeout (`WF(WaitOver)`, `user_presence.c:134-174`). `WF(HostPoll)` says
that the host reads the endpoint: without a reader nothing can be delivered.
Nothing is assumed about the user or about further packets.

`PgpCard`: a chip call that was started returns or is cut (`WF(Step)`,
`WF(pgp_lifecycle_ensure)`). The rest is an owner who wants the card back and keeps
sending VERIFY of PW3, TERMINATE and ACTIVATE, now and then TERMINATE while PW3 is
verified. Strong fairness, since each is possible only in some of the states the
owner comes through; no answer is assumed to be OK, and replugs are unlimited.

## 4. Findings

1. **`ctaphid.c:675`, `:702`, `:184`: three-way wait after INIT on a queued
   request.** A request that arrives while an earlier answer is not yet read
   stays queued (line 675). If its host then sends INIT on that channel, the
   INIT answer is held until the request is over (184), the answer is held
   until the INIT answer is out (702), and the request waits for the answer.
   Nothing frees them but an INIT on the channel of the unsent answer, and when
   the request is of that channel too, only a power cycle (theorem `KnotHolds`).
   `docs/changelog.md:43`: "its answer is dropped and the INIT is answered". Run
   `ctaphid_resync`.

Remarks without a run, where a comment or a document says a little more than the
code does:

- `pin.c:664`: `pin_reset_ram` clears `s_auth_blocked`, also after a wipe that
  stopped before the PIN, against "Once true, only power-cycle clears it"
  (`pin.c:92`). It takes the reset window and a touch; `LockoutHolds` has the
  exception.
- `ctap2.c:219`: the reset window is a comparison of the 32-bit tick with no latch,
  so it opens again after 49.7 days; `docs/card-setup.md:154`: "only within
  **10 seconds of plugging in**". The touch is still required.
- `credmgmt.c:611`: a sub-command whose token check fails returns before the reset
  of the iterator that `credmgmt.h:43` states for every other sub-command.
  `EnumerationScope` and `NoStaleLists` hold all the same.
- `openpgp_applet.c:532-535` lists the events that clear the access status. A VERIFY
  of PW3 that was accepted while O3 could not be read keeps its flag when the
  `pgp_lifecycle_ensure` of the next APDU wipes the card and binds the factory PW3.
  The card is fresh and its PW3 public then; `KeysOfThisPin` and `RecordIsTrue`
  hold.
- `slots.c:98` says that a failed O1 write leaves the pair uncertain. One whose
  opening read fails returns that error and leaves the store usable
  (`rec_pair.c:164-171`); the model has that outcome (`LostStore`), nothing was
  written, and `RamIsChip` (`FidoStoreProofs`) holds.
- `ctaphid.c:200`: there is one slot for one-packet answers; a second one is dropped
  while it is full, so the host of the dropped one must ask again.
- `ctaphid.c:559`: a host that stops in the middle of a message keeps every other
  channel BUSY until it sends INIT or CANCEL; there is no assembly timeout.

## 5. Proofs

`RecPairProofs` (for all payload sets, generation limits and fault bounds):

- `TypeCorrect`: `Spec => []TypeOK`. `TypeOK` is inductive.
- `Safety`: `Spec => [](NeverStale /\ NoContradiction)`, under any number of
  faults. These are not inductive alone; `SafeInv` adds `Progress`, which says
  for each phase of a call what the copy already done and the copy not yet
  touched hold (for example: while B is being written, A holds the record).
- `DurableUnderOneFault`: with `MaxFaults <= 1` an existing object reads OK at
  the next boot. `OneFaultInv` adds `OneFault`: with no fault so far every copy
  is on track; after one, the other copy is.
- `Refinement`: with `MaxFaults <= 1`, `Spec => ImplementsAtomicRecord`. Each
  chip step is a step of `AtomicRecord` or leaves its variables alone; the
  refinement mapping is the identity on `op`, `arg`, `ret` and `may`.

Assumptions: `None` and `Absent` are not payloads, `MaxGen` is a positive
natural number, `MaxFaults` a natural number.

`PinKernelProofs` (for both layouts, every number of rounds, every set of PINs
and secrets, and any number of cuts and lost replies):

- `TypeCorrect`, `EveryGuessCounted` (`NoFreeGuess`), `AlwaysUsable` (`Usable`),
  `RetiredBeforeSuccess` (`OldRangeRetired`), `SecretOnlyFromSetup`
  (`SecretKept`).
- One inductive invariant, `Ind`, carries all of them. Beside the properties it
  says, for each phase of a call, how the binding in RAM relates to the stored
  one (`SameBinding`), how many slots are keyed or retired (`Keying`,
  `Retiring`), that the reserved attempt is in the record before the evaluation
  (`Counted`), that a secret drawn by setup is in no slot that setup did not key
  (`CallState`), and that a stored record's `ci` all belong to its secret
  (`StoredForm`). `Kept` is `Usable` without its condition on `stored`: a record
  in limbo after a torn first commit opens too, if a later read finds it.
- `Chip` is the part of `Ind` that survives a power cut; the lemmas `MdChip` and
  `StoreChip` prove it for each M&D call and each store, so that every cut
  follows from them at once.

Assumptions: one or two ranges, at least one round, `None` is no PIN and no
secret; and the abstraction of the M&D function stated in section 2.

`UsbCcidProofs` (for every number of resets and requests):

- `TypeCorrect`, `BuffersOwned` (`BuffersStable`), `SessionsApart`
  (`NothingCrosses`: stated for the proof only, the run has the refinement),
  `AlwaysListens` (`Listens`) and `Refinement` (`Spec => ImplementsCardSession`).
- The inductive invariant says who owns the buffers at each point: while an APDU
  runs, `processing` holds, nothing is pending, OUT is not armed and the request in
  `rx` is of session `snap`; a pending request is of the session that is on; the
  answer on the IN endpoint is what `tx` holds. None of the properties is inductive
  without it: `NothingCrosses` needs the session of `rx`, which needs that no
  message lands in `rx` during the wait.
- In the refinement a request overtaken by a reset maps to "no request", so that
  the rest of its APDU, `Finish` included, is a stutter.

`L3SessionProofs` (for every number of calls and faults):

- `TypeCorrect`, `FaultsCostOnce` (`OneFailurePerFault`), `NeverBlind`
  (`NoBlindRun`) and `Refinement` (`Spec => ImplementsChipCall`).
- The inductive invariant has a credit: a session that is on and out of step with
  the chip, or a call that is about to fail, is backed by a fault that has not cost
  a call yet (`failed + 1 <= faults`); and a call whose answer is awaited has both
  ends in step unless a fault struck it.

`FidoStoreProofs` (for any number of slots and keys, any counter, any number of
cuts, lost replies and damaged slots):

- `TypeCorrect`, `KeysMatch` (`OwnKey`), `CredentialsSurvive` (`Survives`),
  `PinProtects` (`NeverUnprotected`), `ResetIsComplete` (`ResetErasesAll`) and
  `CountsGrow` (`SignCountGrows`).
- The inductive invariant has two halves. `Safe` is about the chip alone, so it is
  what a power cut hands to the next boot; the lemmas up to `InterruptedStep` prove
  it for each chip call that runs, tears or does not happen. It adds `Keyed` (a key
  under a PIN exists), `Guarded` (a chip whose PIN may read as not set and whose
  guard is off has no key that was under one) and `Counted` (no signCount is ahead
  of the counter).
- `Control` is about the operation in progress: `RamIsChip` and `Trusted` (the copy
  of O1 is the record, whenever a call depends on it), `Making`, `Replacing` and
  `Deleting` (a key or metadata is only written or erased in a slot that is not
  published, or whose credential was given up), `Wiping` (how far a wipe has come),
  `Setting`, `Signing` and `Phase`. One lemma for each way an operation goes on
  (`ReturnStep`, `NextReplacedStep`, `AbortStep`), then one for each action.
- `NeverUnprotected` follows from `Guarded` and `RamIsChip`: a store that answers
  requests reads the guard that is on the chip.

`CtapHidProofs` (for any number of channels, lengths and packets):

- `TypeCorrect`, `InitEndsTheOld` (`NothingStale`), `BuffersOwned` (`OwnsBuffers`),
  `CancelIsOwned` (`CancelOwned`) and `ConsentIsFresh` (`FreshConsent`).
- `OutOK` is the invariant of the output state, proved for each output function as
  a lemma on any such state: only an error may be held or sent for a transaction
  that its host has left, and only while the INIT is unanswered; a held INIT answer
  is never of such a transaction. `Latched` says what `abandoned` and the held INIT
  answer mean for the queued request, `Pressing` when a button press counts.
- `LoopProgress` (`OnlyTheKnotWaits`) is the safety half of `Served`, for any number
  of channels and packets: a round of `fido_hid_task` that finds work and a free
  endpoint moves something, unless a request was abandoned in the queue behind an
  unsent answer (`Knot`). `KnotHolds` (`KnotIsTight`) says what ends the knot. Both
  are action properties stated for the proof; they rest on `Latched`.

`Ctap2Proofs`, first half, about `ClientPin` (for any PINs, RPs, permissions,
limits and times):

- `PinTypeCorrect` (`PinTypeOK`), `TokensFollowThePin` (`TokenOfThisPin`),
  `UseIsGranted` (`GrantedUse`, with `MaxUptime < TickRange`) and `LockoutIsFinal`
  (`LockoutHolds`).
- The inductive invariant `PinInv` compares the token with its grant (`Holds`: the
  PIN of today, no permission that was not granted, none after a touch, one RP) and
  says that the limit of wrong PINs means blocked (`Locked`); `Timed` adds the date
  of the token (`Dated`).

`Ctap2Proofs`, second half, about `Ctap2` (also for any number of slots, users,
sequence numbers and timeouts):

- `Refinement` (`Spec => ImplementsClientPin`), `TypeCorrect` (`TypeOK`),
  `AccountCorrect` (`OneAccount`), `ListsCorrect` (`NoStaleLists`), `ScopeCorrect`
  (`EnumerationScope`), `UvCorrect` (`AlwaysUvHolds`), and `CommandsKeepThePin`,
  the first half for the commands.
- The inductive invariant `CmdInv` adds to the four properties what they rest on.
  `Alone`: while a request waits, no list is kept and nothing is answered, so the
  store can change under no list; this is what the dispatcher's resets are for.
  `Stands`: what a waiting request found before its touch is still so after it (a
  new credential is newer than all and replaces all of its account, a list is one
  of credentials of its RP, the UV policy was met). `GaScope` and `IterScope`: what
  goes on without a token was allowed by one. `OneAccount` needs `Stands`,
  `EnumerationScope` needs `IterScope` and `NoStaleLists`, `AlwaysUvHolds` needs
  `GaScope` and `Stands`.
- The commands' invariant needs that of the token (a verified token is not an
  expired one), and the token's steps need the commands' (a delete names an RP that
  the store holds): `CtapInv` is their conjunction and is proved at once. The
  lemmas `RefusedStep`, `StartStep` and `EndedStep` settle every command that ends
  in a refusal, starts a request or ends one.
- `Least` and `NextSeq` are CHOOSEs; that they find something is `MinExists`, from
  the well-foundedness of the naturals.

`PgpCardProofs` (for any number of rounds, boot tries, secrets and codes, and any
number of faults):

- `TypeCorrect` (`TypeOK`), `KeysCorrect` (`KeysOfThisPin`), `RecordCorrect`
  (`RecordIsTrue`), `CodeCorrect` (`OnlyLatestCode`), `KekCorrect` (`KekIsLive`),
  `CounterCorrect` (`SigsCounted`), `TouchCorrect` (`PermanentTouch`) and
  `WipeCorrect` (`WipeErasesAll`). Run `pgp_card` has one fault; the theorems have
  no such limit.
- `Safe` is the part of the inductive invariant that is about the chip, so it is
  what a cut hands to the next boot: types, `Forms` (a PIN holds a secret of its
  kind), `Owned` (a key belongs to the PIN that is there or may be found again),
  `RecordIsTrue` and `Permanent`. `ChipStep` proves it for every chip call, run,
  torn or lost.
- `Control` is about the operation in progress: `Shape` (which calls an operation
  makes, with which argument), `RamIsChip` and `Trusted` (O3 in RAM is the record
  when a call depends on it), `Wiping` (how far a wipe has come: keys, then O3, then
  the PINs, then the factory PINs), `Access` (no KEK while PW1 or the DEC key is
  being replaced), `Writing`, `Working` and `Answered`. One lemma for each action,
  grouped by the kind of call.
- None of the properties is inductive alone. `KeysOfThisPin` needs `Wiping` (a
  factory PIN is bound over erased keys) and `Writing` (a reset of PW1 destroys the
  wrap first); `RecordIsTrue` needs both to know what is behind the record that a
  wipe writes last; `KekIsLive` needs `Access`.

Assumptions of these two: the ones of the modules, that is `None` is no PIN, RP,
secret or code, and limits are natural numbers (positive where a zero would mean no
attempt, slot or tick).

Only model-checked: `Served` (beyond its safety half) and `WayOut`, because liveness
is beyond the prover.
Every other property of a passing run is a theorem. That the runs reach every
action, and that each property can fail (the mutants), is TLC's part as well.

## 6. Not modelled

- Byte layouts, CBOR, COSE, CRC and key derivation: a record, a message or a
  secret is a value; what the code decides from it is in the model.
- CTAPHID channel allocation, the contents of PING and MSG, the keepalive timer's
  period. A KEEPALIVE is a packet that the wait may send.
- The debouncer's counting: `Button` is a debounced edge.
- The order of a command's chip calls in `Ctap2`: a cut in a command is the
  command done or failed, then `PowerCut`. The touch of a reset has its own
  timeout in the code; the model has one for all.
- OpenPGP data objects other than C4, the UIFs and the Resetting Code, TLV and APDU
  encoding, the CCID message headers; the AES-GCM wrap of the DEC key is "opens
  under the KEK it was sealed with".
- libtropic and the TROPIC01: external, modelled as far as `tropic.c` can tell.
- `CtapHid` and `UsbCcid` are not composed: they share the touch wait, which is an
  action of each (`OpenPgpTouch`, `TouchEnds`), and no other state.
- USB descriptors and TinyUSB, suspend and resume; platform code; the debug
  RPC, which is not in the release build.
- Host tools, packaging and tests.

## 7. Plan

Next, in this order:

1. The safety half of `WayOut`, as `LoopProgress` is that of `Served`: in every
   state of `PgpCard`'s lifecycle, which APDU brings the card on.
2. The debouncer's counting in `user_presence.c`.
3. `CtapHid` and `UsbCcid` composed over the one touch wait.
