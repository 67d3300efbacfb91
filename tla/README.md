# ward3n in TLA+

Verification project for the firmware of ward3n, a USB smart-card token (RP2040)
that signs with a PIV key after a PIN and a press of a button. Source paths are
relative to the repository.

## 1. The system

| Component | State | Operations | Hard about it |
|---|---|---|---|
| `src/device_state.c` authorization state machine | `_state`, `_deadline`, `_auth_consumed` | init, tick, request_auth, button_pressed, begin_processing, op_complete, consume_auth | called from three places in any order; deadlines only seen by the tick; one-shot flag |
| `src/button.c` user presence | `_edge_seen`, `_edge_time`, the pin | GPIO interrupt, `button_was_pressed()` | the interrupt strikes anywhere in the poll; bounces |
| `src/piv.c` applet | `_piv.selected`, `pin_verified`, `chain_*` | SELECT, VERIFY, GET DATA, GET RESPONSE, GENERAL AUTHENTICATE, `piv_init()` | state across commands: PIN, chaining, a signature that fails half-way |
| `src/apdu.c` parser, response builder | none (reads `_rx_buf` in place) | `apdu_parse`, `apdu_resp_*` | Le of 00, capacity, offsets, bytes that earlier messages left |
| `src/ccid.c` USB class driver | `_icc_powered`, `_response_pending`, `_rx_buf`, `_tx_buf` | dispatcher of 8 message types, `_ccid_open/reset/xfer_cb`, `ccid_task()` | bus reset and disconnection at any point, one transmit buffer, lengths the host invents |
| `src/main.c` main loop | none of its own | `tud_task`, `ccid_task`, `button_was_pressed`, `dev_state_tick`, `neopixel_tick`; `tud_umount_cb` | what runs between what; what a disconnection resets and what a bus reset does |
| `src/crypto_backend_soft.c` key and certificate | flash sector, `_pk_9a`, `_cert_9a_*` | init, load, generate, save, sign, get_cert_der | power loss while the sector is written |
| `src/neopixel.c`, `ws2812.pio` LED | `_next_tick`, `_blink_on` | `neopixel_tick`, `neopixel_off` | reads the state only when its timer has run out; the phase of the blinking outlives a request |
| `src/usb_descriptors.c`, `include/config.h` | constants | - | - |
| `tools/generate_keys.py`, build files | - | - | run on a PC, not in the firmware |

Interaction: everything but the GPIO interrupt runs in one thread. `tud_task()`
takes USB events from a queue that interrupts fill and calls the CCID driver,
which calls the applet, which asks `device_state.c` for the user's permission
and, once it has it, signs within the same call. The response is left in
`_tx_buf` and sent by `ccid_task()`. The button poll gives the permission, the
tick withdraws it. The host retries a signature that was answered with 6985.

What makes each part correct:

- state machine: one press that was asked for, one operation; deadlines are not
  pushed out; nothing stays authorized.
- button: a report for a press, each report paid for by an edge, a held press
  not lost, bounces harmless.
- applet: no signature without PIN; chained parts join; lengths right at the
  boundaries; every signature, failed or not, leaves the state machine ready.
- driver: each request its own answer, once, in the end; nothing from before a
  reset; never deaf; the status byte true.
- APDU parser: a command is what the host wrote, decided by its own bytes; the bytes that
  get signed are the challenge.
- key and certificate: what hosts were shown once stays, whenever power fails.
- LED: no old state for longer than its timer; the prompt is seen in time.
- the whole: PIN **and** press for each operation, whatever the bus does; a host that goes away
  leaves nothing to the next one.

## 2. Modules

| Module | EXTENDS | Implements | Proofs |
|---|---|---|---|
| `DeviceState` | | `UserPresence` | `DeviceStateProofs` |
| `Button`, `ButtonHistory` | `DeviceState`, `Button` | | in `PanelProofs` |
| `Neopixel` | `DeviceState` | | in `PanelProofs` |
| `Panel` | `Neopixel`, `ButtonHistory` | `UserPresence` | `PanelProofs` |
| `PivCommands` | | | |
| `Apdu` | `PivCommands` | | `ApduProofs` |
| `Piv`, `PivHistory` | `PivCommands`, `DeviceState`; `Piv` | | `PivProofs` |
| `Ccid`, `CcidTransport` | `Ccid` | | `CcidProofs` |
| `Ward3n` | `Button`, `Piv`, `CcidTransport` | `SigningPolicy`, `CcidTransport` | `Ward3nProofs` |
| `KeyStore` | | `TokenIdentity` | `KeyStoreProofs` |

Three modules run the main
loop, each with the parts that its questions need: `Ward3n` the applet, the bus and the
button; `Panel` the button, the state machine and the LED; `KeyStore` the start-up.

**Abstract specifications.** `UserPresence` is the promise of the button without
timers, flags and calls (none, asked, given, spent). `SigningPolicy` adds the
card session (closed, locked, unlocked): the user is asked, and the key used, in
an unlocked session only, no session begins or ends during an operation, and none
begins unlocked. `TokenIdentity` is what a host is shown from the first start-up on.

**DeviceState** has one action for each function of `device_state.c`. Its next-state
relation calls them in any order, which is more than the firmware does. `_deadline`
is kept as the time left: the code only asks whether `_deadline - now <= 0`, so
a countdown that stops at 0 tells it everything. A call that the code turns into
a no-op is a stuttering step.

**Button** is the interrupt (`Fall`), the release (`Rise`) and the poll. The poll is
two steps, `PollClear` and `PollSample`, because the interrupt may strike between
`_edge_seen = false` and `gpio_get()`; before that it returns without a side effect.
`ButtonHistory` adds the memory of a bystander: which press was reported, how often.

**Neopixel** is `neopixel_tick()` with the colour that was sent last, `_next_tick` as the
time left, and `_blink_on`, which both blinking states share; `neopixel_off()` leaves
timer and blinking alone. **Panel** puts it into the main loop with the button and the
state machine: one action for each call of `main.c`, the edges, and the calls that
`tud_task()` may cause (a request, an operation, `tud_umount_cb()`, `tud_suspend_cb()`).
`stale` and `prompted` are the observer's: how long the LED has shown a colour that is not
of the present state, and whether the present request was shown. Time passes only when
nothing in the loop is due, or while a signature is computed: the loop takes microseconds and
the timers tens of milliseconds.

**PivCommands** is the alphabet that the byte level and the applet share: which checks
a command can fail, and the status word of each. **Apdu** is the byte level: `rxBuf` keeps
what earlier messages left behind the end of the present one, `ApduParse` is
`apdu_parse()`, and the `...Arg` operators are the checks that the handlers make on bytes,
in the order of the code. What they yield is exactly a command of `Piv`. The other direction is
external: `Asks` says what a host puts into the data when it wants something, and
`WrittenShort` that a message is that command as a short APDU, byte for byte, the template in either
form of its length. `ShortAssumption` ties the label `short` of a message to it.

**Piv** has one operator for each handler, with the checks in the order of the code.
A command is its instruction, the first check it fails (`arg`: `badP1`, `noData`, ...)
or what it asks for, and its Le byte. A body is the object and the byte range it was
cut from, with the length rules kept: Le 00 and no Le are 256, `apdu_resp_append()`
drops what does not fit, `_ber_len_write()` and `inner_len` are computed as in the code.
A signature is three steps (`HandleGenAuth` consumes the permission, `BeginSigning`,
`FinishSigning`), so that the clock and the interrupt can move during it.
`PivHistory` adds what the host has received, how its last PIN came out, and
everything around the applet that can change the state machine.

**Ccid** is the driver with TinyUSB and the host. The driver's part: one operator for
each message type, `XferOut`/`XferOutApplet` for `_ccid_xfer_cb`, `Open`, `BusReset`,
`SendPending` for `ccid_task()`. TinyUSB and the host are external, modelled from how
the driver uses them: an event queue that interrupts fill, endpoints that are armed
or busy, a host with at most `MaxOutstanding` requests. `dwLength` is abstracted to how
it compares with what came and with the buffer (`empty`, `exact`, `short`, `huge`,
`wraps`). `CcidTransport` closes it with an applet that answers at once.

**KeyStore** is the start-up: `main()` up to the loop with `crypto_backend_init()`. The sector
is its first page (`head`: magic, scalar, length and first bytes of the certificate) and
the pages behind it (`tail`). Power may fail at any step (`PowerLoss`); a page being programmed
or a sector being erased is then left with any mixture. Assumed of the flash: pages are
programmed in ascending order, a page left half-way reads the same every time, and an
interrupted erase does not make up the magic (it only sets bits, and the magic was not
there). `shown` remembers what hosts saw when the token first came up; with it the module
implements **TokenIdentity**. It stands alone: the applet knows only the certificate's length,
which is the constant `CertLen` of `Piv`.

**Ward3n** composes applet, driver and button under the main loop: `pc` says which call
is running; `tud_task()` handles events until the queue is empty; the host, the user and
the clock move between any two steps. A disconnection also runs `tud_umount_cb()`; a bus
reset does not. Where `CcidTransport` has an applet that answers at once, here a signature takes
time, and the calls of the loop alternate (an event stays at the head of `evq` while its callback runs, where
TinyUSB has already taken it off; no guard looks for a message in the queue); since both share the driver's variables, `Ward3n`
implements `CcidTransport` as it stands (`ImplementsTransport`, no mapping), and what is proved of the transport
holds of the firmware.

`DeviceStateProofs`, `PanelProofs`, `PivProofs`, `ApduProofs`, `CcidProofs`, `Ward3nProofs` and
`KeyStoreProofs` hold the theorems. The operators named `<Operation>_<Change>` are mutants:
the operation with a plausible bug. No specification uses them; they show that each
property can be violated.

## 3. Runs

| Run (cfg) | Question | Result |
|---|---|---|
| `MCPanel` | button: `EdgePerConfirm`, `DebounceNotRestarted`, `HeldPressConfirmed`; state machine: `ImplementsPresence`, `DeadlineNeverExtended`, `AuthorizationEnds`; LED: `LedFollows`, `PromptSeen` | holds |
| `MCPanelOnce` | "exactly once per confirmed press" (`button.c:6`) | violated |
| `MCApdu` | `ShortUnderstood`, `ParsedInsideMessage`, `AnswerFromMessage`, `SignedIsChallenge` for every pair of 587 messages | holds |
| `MCApduExtended` | extended APDUs are understood too (`usb_descriptors.c:60`) | violated |
| `MCPiv` | `SigningNeedsPin`, `BodiesNotLost`, `AnnouncedLengthKept`, `CertObjWellFormed`, `BetweenOperations`, `ChunksAssemble`, `RefusalAsksUser` | holds |
| `MCCcid` | `AnswersMatch`, `OneAnswerEach`, `NeverDeaf`, `StatusTruthful`, `RequestsAnswered`, one request at a time | holds |
| `MCCcidPipelined` | the buffer is safe while it is being sent (`ccid.c:350`) | violated |
| `MCWard3n` | `OneEdgeOneOperation`, `IdleWithoutHost`, `ImplementsPolicy`, `ImplementsTransport` of the whole firmware | holds |
| `MCWard3nLive` | `DeviceComesBack`, `HostIsAnswered` of the whole firmware | holds |
| `MCWard3nWindow` | an operation starts within the window (`device_state.h:51`) | violated |
| `MCKeyStore` | `CertMatchesKey`, `KeyNeverReplaced`, `ImplementsIdentity` with power loss at any point | holds |
| `MCKeyStoreCert` | a token that comes up has its certificate (`README.md:571`) | violated |

Each of `MCPanel`, `MCApdu`, `MCPiv`, `MCCcid`, `MCWard3n` and `MCKeyStore` also checks its type invariant.

**Bounds.** `MaxEdges` (3, 2 or 1 falling edges): two are enough for a bounce that races a
poll and for a second press after a first, three for a bounce in one of two presses.
`MCPanel` scales the timers of the code and keeps their order: `Debounce` 2 (30 ms),
`ProcessingPeriod` 1 (100 ms), `WaitPeriod` 2 (200), `AuthPeriod` 3 (250), `IdlePeriod` 4 (500),
`AuthWindow` 5 (10 s), `WaitButtonTimeout` 8 (30 s). The two timeouts exceed every period of the LED, as
in the code, so that a prompt is due before it ends, and every order of "before",
"at" and "after" a deadline occurs; the theorems cover the times of the code.
In `Ward3n` timeouts of 1 or 2 and `Debounce` 1: an edge can be young and old enough.

`MCApdu` sends at most two messages (`MaxMessages`): the second finds what the first left in the
buffer, and a third would find no more than another second one does. It ends there, hence
`CHECK_DEADLOCK FALSE`. The messages are every command a host would write, short and extended, and
short ones cut off at every length, with one byte changed at each place to each of four values
(0, 3, 81, FF: an empty field, a short one, the long form of a length, one that reaches beyond the end),
one byte too long, or announced one to three bytes shorter than they are.

`SeqModulus` 1, 3 or 4: `MCCcid` tells a response from its predecessors' with three; the composed
runs use one, which still tells whether a step of the driver is one of the transport; that each
answer has its own bSeq is what the theorems carry over to them. `MaxOutstanding` 1 is what
`bMaxCCIDBusySlots` (`usb_descriptors.c:110`) asks of a host; 2 lets an Abort overtake.
`MCPiv` has a certificate of 600 bytes (three parts at Le 256, many at 52) and the Le
values where an object is cut: none, 00, 52 (one below the length of the CCC), 255.
`CertObjWellFormed` is run for these 600 bytes and proved for every length up to 3994.
`MCWard3n` uses the commands that the policy distinguishes. The bus events in the queue are at
most one of a kind, since a second reset before the first is handled adds nothing.
`MCKeyStore`: three keys, so that two may be lost before one stays; three pages (a
certificate of about 450 bytes), so that there is an inner page.

**Deadlock** is checked in every other run; the clock, the host and the loop can always move.

**Fairness.** Weak fairness of the calls of the main loop (`while (1)` in `main()`), of
the clock, and of the host reading a response it asked for. None for the
host's other actions or the user. In `Panel` the calls that a host causes are not part of
what is fair, so that a silent host is one of the behaviours. `DeviceComesBack` and `HostIsAnswered` are stated
under `LoopTurns`: `tud_task()` returns only when its queue is empty, and nothing in
the code keeps a host from filling it as fast as it is emptied. A permanently busy bus is
an assumption on the host and is left explicit.

## 4. What the violations say

- `button.c:54`: the latch is cleared before the pin is read; a bounce in between is latched
  as a new edge and the same press is reported again. The state machine ignores a
  report it does not wait for, and each report has an edge of its own (`EdgePerConfirm`).
- `apdu.c:37`: only short APDUs are parsed. The 00 that opens an extended one is taken for
  Lc = 0: SELECT and GET DATA are refused with 6A80, VERIFY is answered with the retry counter (63C3). The
  descriptor announces extended APDU exchange. Hosts that stay with short APDUs and chaining,
  as PIV ones do, never see it (`ShortUnderstood`).
- `ccid.c:211,346`: with a second request in time (an Abort), `_tx_buf` is rewritten while
  it is being sent. With one request at a time this cannot happen: a request comes after the
  previous response was read (`OneAnswerEach`).
- `crypto_backend_soft.c:109`: the magic is written with the first page. If power fails before
  the last one, the sector counts as complete and the token comes up for ever with a
  certificate that is cut. Writing the first page last would repair it, at the price of
  checking that the certificate belongs to the key (that is the mutant of `CertMatchesKey`).
- `device_state.c:87`: the window is closed by the tick only; a command handled between the
  deadline and the tick is still signed.

Seen while modelling, without a run:

- The echo of SetParameters is as long as dwLength of the request says, up to 502 bytes (`ccid.c:161`),
  which is more than the 271 of `dwMaxCCIDMessageLength`. `AnnouncedLengthKept` speaks of the applet's responses.
- SetParameters and SetDataRateAndClockFrequency say "active" of a card that is not powered
  (`ccid.c:169,187`); the other responses with a status of the card are right (`StatusTruthful`).
- IccPowerOff leaves the PIN verified until the next IccPowerOn (`ccid.c:106`), while `piv.c:12` says
  that it resets it. No command gets through in between, so `ImplementsPolicy` holds.
- The red flash for an error (`README.md:113`, `neopixel.h:9`) is not in the code; the
  blinking of PROCESSING cannot be seen, since that state begins and ends within one
  call of `tud_task()`; and what `tud_suspend_cb()` switches off is lit again by the next
  `neopixel_tick()`, at the latest after 500 ms (`LedFollows` bounds it).
- The tag of a GET DATA is compared over three bytes even if Lc leaves fewer (`piv.c:259`); the rest comes
  from an earlier message. `AnswerFromMessage` excepts this case by name (`TagCutShort`).

## 5. Proofs

All theorems are checked by TLAPS for every value of the constants that meets
the named assumptions: `TimingAssumption` (positive timeouts), `ButtonAssumption`,
`PeriodAssumption` (the LED's period in IDLE is its longest), `ApduAssumption` (messages are
bytes), `ShortAssumption` (a message labelled short is the short APDU of what it means),
`PivAssumption` (the certificate fits in its flash area, the response buffer holds 256
bytes and a status word, signatures have 1 to 72 bytes), `CcidAssumption` and
`KeyStoreAssumption` (the certificate reaches the second page).

- `DeviceStateProofs`. `DevTypeOK` (with the bound on each deadline) is inductive.
  `DeadlinesHold` and `PresenceImplemented` follow from it step by step; the mapping is `GrantOf`.
- `PanelProofs`. Whatever the loop does to the state machine is a call of its functions
  (`PanelCalls`), so that the theorems of `DeviceStateProofs` carry over (`PanelPresence`, `PanelDeadlines`).
  The invariant `PanelInv` joins the types, `EdgePerConfirm`, `LedTimer` and `Prompting`.
  The last two are the strengthening: the time for which a colour has been wrong and the time left
  on the timer add up to at most the colour's period, without which `LedFollows` is not inductive; and a
  request that was not shown yet is either waiting for the timer that ran when it came, or
  was drawn once, dark, and will be yellow next, without which `PromptSeen` is not.
  `EdgePaysConfirm`, `LedHonest`, `PromptInTime` and `DebounceHolds` follow from it.
- `PivProofs`. The invariant `AppletInv` joins the types, `BetweenOperations`, `BodiesInv`
  (`BodiesNotLost` and `AnnouncedLengthKept`), `ChainInv` and `PinInv`. The last two are the strengthening: `ChainInv`
  says that the host's bytes are exactly those `chain_offset` counts and that `chain_len` is the
  object's length, without which `ChunksAssemble` is not inductive; `PinInv` says what the
  flag `pin_verified` stands for, without which `SigningNeedsPin` is not. There is one lemma for
  each handler, on top of lemmas on lengths (`CertLengths`, `LeRange`, `BodyFits`). From
  it follow the five invariants, `CertObjWellFormed` (with `LengthReadBack`), and the action
  properties `ChunksAssemble` and `RefusalAsksUser`.
- `ApduProofs`. `MessageInv`: the front of the buffer is the last message, and the body, the
  command and the bytes to sign are what the handlers make of the buffer. `ParsedInside` follows
  by the three lengths that `apdu_parse()` tells apart. For `AnswersFromMessage` two buffers that
  agree on the message's bytes are compared: `apdu_parse()` finds the same body (`ParseSame`);
  each handler's checks either read inside Lc, or an earlier check fails in both buffers and
  hides the rest (`FirstFailingHides`); and a template is signed only when it was found whole
  (`OnlyTemplatesSigned`). `ApduTypeCorrect` says that every string of bytes becomes a command
  that `Piv` knows (`HandlerArgs`). They hold for every message and all that came before.
  `ChallengeSigned`: the bytes that the handler tests one by one are those of a frame around the
  bytes it signs (`TemplateFound`, for the two forms of the length), and the data of a frame pass every
  test (`NoneTurnedAway`). `ShortIsUnderstood` goes from the host to the
  handler: the four lengths of a short APDU are laid out (`LayoutOf`), `apdu_parse()` finds the same
  body and Le (`ShortParsed`), and for each instruction the data that ask for something pass the
  handler's checks up to the answer that was asked for (`SelectUnderstood`, `VerifyUnderstood`,
  `GetDataUnderstood`, `GenAuthUnderstood`). It covers every challenge, PIN, AID, Le and every
  content of the buffer behind the message.
- `CcidProofs`. Lemmas on the event queue say what taking and adding an event does to what is
  queued. `CcidInv` (types, `LinkKnown`, `NeverDeaf`) holds for every number of requests: the
  host goes on only after the firmware has handled the loss of the link, so that no reset is queued
  on a configured link; from it follow `CcidTypeCorrect` and `AlwaysListening`. `AnswerInv` is for
  `MaxOutstanding = 1`: nothing the host sent comes after the loss of its link (`LostLast`), until the
  link is up again everything from before is gone (`Forgotten`), and on a link that is up
  the one request is received, built or sent (`OneRequest`). From it follow
  `AnswersTheRequest`, `AnswersOnce` and `StatusHonest`. A second request overwrites
  `_tx_buf` (`MCCcidPipelined`), hence the assumption.
- `Ward3nProofs`. The invariant `WardInv` joins the types, `BetweenOperations` and
  `OneEdgeOneOperation`. The types carry that the poll is inside the button call and
  a signature inside `tud_task()`; `BetweenOperations` is needed because a session may only
  change when no operation runs. From it follow `EdgePaysOperation` and
  `PolicyImplemented`, the refinement of `SigningPolicy` by the whole firmware.
  `TransportImplemented` shows each call of the loop to be a step of the transport or to leave driver
  and host alone (`TransportStep`). With it the theorems of `CcidProofs` hold of the firmware: `FirmwareListens`
  for any number of requests, `FirmwareAnswers` for `MaxOutstanding = 1`. `NothingLeft`
  is `IdleWithoutHost`; alone it is not inductive, because a message still queued could ask again or
  power the card on. `GoneInv` adds that none comes behind a disconnection (`LostLast`) and
  none is left once that is handled. `FirmwareDeadlines` carries the state machine's theorem over,
  since all that the loop does to it is a call of its functions (`WardCalls`).
- `KeyStoreProofs`. The invariant `KeyInv` joins the types with `Writing` (while the sector is
  written nothing was shown, and flash holds as much of the pair as pages are done),
  `Vouched` (a whole certificate in flash belongs to the scalar beside it) and `Remembered` (what was
  shown is what flash holds). There is one lemma for each action; `PowerLoss_Inv` is split by
  the page that is hit. From it follow `CertMatchesKey`, `KeyNeverReplaced` and the refinement
  of `TokenIdentity`.

Only model-checked: all liveness (TLAPS does no fairness here): `AuthorizationEnds`,
`HeldPressConfirmed`, `RequestsAnswered`, `DeviceComesBack`, `HostIsAnswered`. Every other property of the passing runs
is stated by a theorem. The expected violations are found by TLC.

## 6. Not modelled, and the plan

Left out for good:

- USB packets below whole messages, among them the zero-length packet behind a response
  of a multiple of 64 bytes; the USB descriptors apart from the three promises that are
  held against the code (`AnnouncedLengthKept`, `ExtendedUnderstood`, `MaxOutstanding`).
- What an XfrBlock contains whose dwLength wraps modulo 2^32, and what SetParameters sends back if
  fewer bytes came than announced: that they are answered is checked (`wraps`, `short`),
  the bytes are those of earlier messages.
- The contents of certificates and signatures, mbedtls, the PIO program of the LED, the
  size of the stack, the build and `generate_keys.py`.
- `_ccid_control_xfer_cb()` answers without state, `tud_mount_cb()` and `tud_resume_cb()`
  are empty, `_press_confirmed` is never read.

Next, in this order:

1. `KeyStore` under the main loop, so that a card whose certificate is cut is seen through
   GET DATA, and a power cycle in the middle of a session.
2. Theorems: the invariants of `PivHistory` (`ChunksAssemble`, `SigningNeedsPin`) for the composition `Ward3n`,
   by the same road as the transport's.
3. `Panel` with the signature's duration spread over the timers of the LED.
