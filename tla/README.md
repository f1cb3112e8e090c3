# T2 TOTP Authenticator: TLA+ models, checks and proofs

The program manages the TOTP profiles of Token2 FIDO2 keys, over USB-HID or over
PC/SC (a contact or NFC reader), from a desktop window, a global hotkey and a
command line. This directory models the parts that are hard to test: the report
protocol on USB-HID and sessions that read each other's answers there; sessions that
share a card on PC/SC; commands, the pieces their replies come in, and the records inside
them; the window's worker threads whose results arrive late and out of order, with the
clipboard it clears; and the hotkey whose services outlive their registration by a thread. Line numbers are those of
the sources under `src/src/`.

## Inventory

| Part | Source | State it keeps | Operations | What makes it correct |
|---|---|---|---|---|
| HID framing | `hidframe.rs` | `buf`, `received` (u8), `busy_retries` | `build_send_frames`, `push`, `into_response` | cutting and joining are inverse; a lost report is noticed |
| HID exchange | `transport.rs` 135-271 | handle, timeout, prompt callback; per call: assembler, deadline, `prompted` | `write_report`, `read_report`, `transmit` | an Ok is the device's whole answer; the timeout is honoured; one prompt |
| PC/SC transport | `transport.rs` 296-509 | card connection; on the card: selected applet, enumeration cursor | `open_first`, `open_first_token2`, `open_named`, `discover`, `select`, `raw_transmit` | the key opened is the one promised, on the OTP applet |
| Session | `transport.rs` 524-793 | transport, `is_pcsc`, cached serial number | `open`, `detect*`, `enumerate`, `read_entry`, `write_entry`, `delete_entry`, `erase_all`, `read_device_info`, `read_serial`, `seal` | complete lists; a write reported done is done; every operation returns |
| Codec | `proto.rs`, `entry.rs` | none | APDU builders, status words, record parsers and serializers, base32 | parsers invert serializers, never index out of bounds |
| Encryption | `crypto.rs` | none | `encrypt_seed_payload` | (cryptography, outside TLC) |
| HID enumeration | `hid.rs` | none | `enumerate` | (sysfs I/O) |
| Window | `bin/gui.rs` | `App`: transport, rows, serial, `loaded`, `refreshing`, `busy`, `info`, `error`, `touch_codes`, dialogs, channel, clipboard, hotkey | `update` each frame: `drain_jobs`, refresh, dialogs; workers: `job_load`, `job_refresh`, closures | the list shown is one read of one key and converges to the key; nothing wedges |
| Hotkey | `gui/hotkey.rs` | OS registration, poll thread, shared transport, outcomes channel | `new`, `drop`, `read_and_type` | one press types one code, by the service in force |
| Settings | `gui/config.rs` | the settings file | `load`, `save` | a restart restores what the user chose |
| Clipboard | `bin/gui.rs` 585-670 | `clipboard_clear_at` | `copy_code`, `maybe_clear_clipboard` | a copied code does not stay; the user's own text is not wiped |
| QR import | `gui/qr.rs` | none | `scan_screens`, `parse_otpauth` | (libraries; the parser is pure) |
| Command line | `main.rs` | none | one command per process | as the session's |

How they interact. The window never talks to a key on the UI thread: `spawn` and
`refresh_codes` start a thread that opens a session of its own, does one
operation and sends one `JobResult` over an mpsc channel; `drain_jobs` handles
results at the start of a frame. The hotkey's poll thread opens sessions the same
way and sends outcomes over a second channel. Nothing serialises these sessions:
several may use one key at a time. Over PC/SC they share the card's
selected applet and its enumeration cursor (`ShareMode::Shared`, no transaction),
and dropping `pcsc::Card` resets the card for all of them. Over USB-HID each
session writes to, and reads from, one interface that the FIDO application uses too.

What is hard: interleaved exchanges of sessions; lost, late and foreign reports;
timeouts; a key pulled out or swapped at any moment; results out of order; one
step of several failing after earlier ones took effect. `PROJECT.json` lists
the hazards line by line.

## Modules

| Module | Models | Run by |
|---|---|---|
| `HidFrame` | framing as operators | through `HidTransmit` |
| `HidTransmit` | one `HidTransport::transmit` with device and kernel queue | `MCHidTransmit` |
| `HidSession` | opening and every operation over USB-HID, several sessions on one interface | `MCHidSession` |
| `PcscSession` | opening, discovery and every operation over PC/SC, several sessions, several cards | `MCPcscSession` |
| `RawTransmit` | one `PcScTransport::raw_transmit` with the card | through `Applet` |
| `Exchange` | what one command promises its caller (abstract) | refined by `HidTransmit` and by `RawTransmit` |
| `Apdu` | the APDU builders, and a card's reading of an APDU | through `Applet` |
| `Entries` | record serializers and parsers, base32, serial number | through `Applet` |
| `Applet` | one command from request to result: builders, `RawTransmit`, parsers | `MCApplet` |
| `GuiApp` | `App`, its workers, the clipboard, the keys | `MCGuiApp` |
| `ListView` | what the window promises about the list (abstract) | refined by `GuiApp` |
| `Hotkey` | the hotkey's services and poll threads, the window's controls of it, the settings file over crashes and restarts | itself |
| `HidTransmitProofs`, `HidSessionProofs`, `RawTransmitProofs`, `PcscSessionProofs`, `PcscAloneProofs`, `AppletProofs`, `GuiAppProofs`, `HotkeyProofs` | lemmas and theorems | `tlapm` |

Definitions whose comment begins with "Mutant" are deliberate mistakes, used
only to see that a property notices them; no specification refers to them.

How the levels fit: `HidTransmit` and `RawTransmit` are one command each, report by report and
piece by piece, and both are shown to implement `Exchange`. `HidSession` and `PcscSession` take a
command as one step and are about whose card, applet, cursor or answer it meets. `Applet`
puts the bytes back: it composes `RawTransmit` with the codec. `GuiApp` and `Hotkey` take a
session's operation as one step of a worker.

### HidFrame and HidTransmit

A report is a record of what `push` looks at. `magic` stands for a report that is
long enough and opens with 0x21 (`ShortFrame` and `BadMagic` lead to the same
place). `PushStep` is the result of `push` in the order of its returns,
`PushState` the assembler after it: a data report resets the busy count before
its sequence number is looked at, and is counted before its length is.

`HidTransmit` has one action per step of `transmit`: `WriteReport`, the
deadline at the top of the loop (`CheckDeadline`), the read (`ReadNothing` is
hidapi's 250 ms without a report; `ReadBusy`, `ReadFrame`, `ReadAlien`;
`ReadFails`), and `Offer`, which pushes a report and acts on the result.
`BlockingRead` chooses the backend. The deadline is a flag that `Expire`
sets. The device (external) executes a command it holds whole and emits its answer; busy
reports come before it and between its reports, up to `MaxBusy` in a row; the kernel (external) may
drop up to `MaxLost` reports. The write side assumes the device takes every report. `RecvMod` is where
the counter `received` wraps: 256 in the code, any multiple of 16 up to that in the model. Two history
variables state `PromptOnce`: `busyRow`, the busy reports since the last report of the answer, and
`touchDue`, three of them have come.

Abstract specification: `Exchange`, an execution that happens at most once and an Ok
that carries the whole answer to an executed command.

### HidSession

A session has its command (`pc`), whether it is reading (`waiting`), half an answer
(`partial`) and the queue of reports at its handle. An answer is one report or two, which is
enough to miss the first half of one. `Execute` (external) copies every answer to every open
handle; no report says whose it is. `Accepts` is what each caller checks of an answer: the
probe and the writes look at the status word only, `enumerate` takes anyone's "not found" for an
empty key, `read_entry` takes a page for an entry and `enumerate` an entry for a page where the bytes
allow it (`MayRefuse`), and neither compares the names. `Timeout` is the
deadline, which hidraw reaches only when a report comes (`Wakes`); `GiveUp` is
`probe_hid_owned` going on without its probe thread, whose handle stays open and reads for
nobody. Two history variables state the property: `alone`, no other session has commanded
the device since this one opened, and `crossed`, it took the answer to another command.

`AloneReportsItsOwn` leaves out `info`: after a READ_SERIAL that timed out its late answer is read as the
device's configuration, since `DeviceInfo::parse` takes any bytes. Assumed of the device:
it executes commands in the order they were written.

### PcscSession

A session's `pc` names the exchange it does next. `probe_otp`, `probe_fido`,
`probe_serial`, `probe_again` are `PcScTransport::probe`; `legacy_otp` is
`open_first`; `serial_*` is `read_serial`; the rest are the operations.
`NextReader` is what follows a reader that is done with: the next one, the legacy scan of
`detect_pcsc_any`, an error, or for `discover` (the operation "readers") its return.
Readers are empty, hold a card that refuses the OTP applet ("other", to a scan
the same as none), a key, or a key that refuses READ_SERIAL ("mute"). Cards are external: SELECT sets
the applet and resets the cursor, WRITE_SEED changes the entries. `Fault` is an exchange that fails
although the card is there, `LostAnswer` a write that is done and reported
failed. A session that returns drops its card (`Drop`), and PC/SC then fails
the other sessions' next exchange (`broken`, `Reset`); a probe that is turned away disconnects
with `LeaveCard` and resets nothing. `connect` tries Shared, then Exclusive (384-395): a
card on which only the second try works is one that the other sessions cannot connect to
meanwhile, a failed exchange at `probe_otp` or `legacy_otp` of theirs, and the modes are told apart no further.

Assumed of the key, which is not part of the repository: a single cursor, reset by SELECT;
another applet answers an OTP command with an error; a continuation
with nothing to continue is refused.

### Apdu, Entries, RawTransmit, Applet

`RawTransmit` is the loop of `raw_transmit`: 61 XX continues with GET RESPONSE, 6C XX sends
the command again with another Le and starts over, anything else is final. The card (external)
chooses the size of each piece of its reply, and may refuse Le up to `MaxRefusals` times,
a bound that the code does not have. It cuts a command up by its length as ISO 7816-4
says, and answers 6700 when that does not add up. This is not idle: the re-issue
*appends* Le (486-492). For a command that carries Le already (READ_CONFIG, GET_ECDH_PUBKEY)
and for every extended one with a body the result is malformed, so only SELECT and the bodyless erase
survive a 6C; the caller gets an error, never a wrong reply (`ReplyIsWhole` has both cases). That a
6C answers a GET RESPONSE is assumed not to happen, as its Le is the one 61 XX gave.

`Apdu` and `Entries` are `proto.rs` and `entry.rs` over sequences of bytes, with the positions
and checks of the code. `Applet` starts from what a caller asks for (`Requests`), builds the command
with them, lets `RawTransmit` carry it, and parses the reply. The key is written
independently of the host's code: `Understood` reads a command, `PageBytes` and `EntryBytes` write
what it has to say (`content`). The properties compare the two ends. A request whose parameters
the host refuses never becomes a command; names and seeds on both sides of each limit are among
the requests. `RequestSet` is what the callers' types allow and `ContentSet` what the key's records can
hold (a text of up to 255 ASCII bytes, an account with a name, a code where the key gives one);
`AppletAssumption` says that requests and contents are among them, and TLC evaluates it for
`MCApplet`. `MaxText` and `MaxSeed` stand for the 64 of the code. Encryption is a box that
only the key opens. A base32 letter is its value, a byte of text is itself.

### GuiApp

The UI thread's frame is split into its parts, one action each: user clicks, one result
taken by `drain_jobs`, `ExpireInfo`, `RefreshCodes`. They are all on one thread,
so an action is atomic as in the code. A job occupies a slot: `spawned`,
`opened` (session on a key), `finished` (its result is on the way). A result waits
in its slot for any time, which gives every order of arrival. What a worker reads of the key, its serial
number and all pages, is one step (`JobRead`): what comes between those exchanges, and what fails between
them, is the subject of `PcscSession` and `HidSession`. `Spawn` and
`Reload` are the functions of those names. Dialogs can be open together with
anything else, because `modal` does not block the rest of the window. A code is
identified by the key and the profile it was computed from. `MaxFaults` counts
failures of I/O with the key present, including an entry that the serializers or
the base32 decoder refuse, which end in the same `Err`.

`ClickCopy` is `copy_code`, `MaybeClearClipboard` what `maybe_clear_clipboard` does when the 45 s
are over, `CopyOther` any other text copied anywhere. The code compares text; here a code is its key
and profile, so a later code of the same profile counts as the same. `Init` starts on the default
transport; a saved other choice is one `SelectTransport` away.

`ListView` is the promise: rows, serial number and transport on show always come from
one read of one reachable key, or are empty. `GuiApp` implements it with the
results on their way as the pool of reads that may still be shown.

### Hotkey

`hotkey` is the service in force, an index into `svc`; the other slots are services
that were dropped and whose threads are not over. A service has the letter it registered,
the transport it shares with its thread, the stop flag, the thread's place
in its loop, and whether an outcome waits for `poll_hotkey`. The thread's
actions are `LoopTop` (`while !stop`), `RecvTimeout` and `RecvEvent`
(`recv_timeout` on the channel of the process), `ReadCode` and `TypeCode` (the two
halves of `read_and_type`). `Enable` and `Disable` are `enable_hotkey` and
`disable_hotkey`; `Dropped` and `Registered` are `Drop` and `new` of
`HotkeyService`, as functions on the three variables they change, because Apply drops
and registers in one step of the UI thread. Each control of the window is one action with
the `save_settings` it makes; `DisableInSettings` and `EditSettings` make none.

`Save` may fail and leave the file alone, or truncate it; `CrashInSave` ends the
program there. `unregister`'s error is ignored (`hotkey.rs` 350), so `Dropped` leaves the combination free or,
when it fails, "other": held, and dead for us, as if another program had it. `intact` records whether the last attempt left a whole file. `Load` is
`Persisted::load` with its defaults.

Left out or abstracted: `hotkey_append_enter`, a preference like the letter that decides only what is
typed after the code; the four modifier flags, which are saved and
never used; releases, which the threads ignore; a platform that refuses
`GlobalHotKeyManager::new` (a failed registration is a combination another program
owns, and both end in the same branch); that the dialog must be open for its
buttons (it can be opened at any time). A slot is reused when no thread and no queued
press refers to it, and `Enable` waits for one: that is a bound of the
model (`MaxServices`), not of the program.

## Runs

| Run | Question | Bounds, and why they are enough |
|---|---|---|
| `hid_exchange` | is an Ok the whole answer, whatever is lost; does `transmit` return | two-byte chunks; commands of 2 and 3 reports (a full and a partial last one); answers of 0, 1, 5 and 36 bytes: no status word, a lone byte, 3 reports, and 18 reports, two more than there are sequence numbers; 15 lost, the most the property promises; 4 busy reports in a row, one more than the prompt needs, before and between the reports of an answer; a counter that wraps at 16 (256 in the code), so that 18 reports wrap it as 258 would |
| `hid_hidraw_silent` (violation) | does a blocking read honour the timeout | as above |
| `hid_session` | is what a session reports its own; does opening, and over hidapi every operation, return | 2 sessions, every pair of operations that begins with a read or an erase (the pair is unordered), except the write, which sends what the delete sends; both backends, any number of timeouts, unplugging: one other session is enough to cross answers, three commands to shift them by one |
| `hid_crossed_answer` (violation) | is an erase that is reported done confirmed | 2 sessions, a read and an erase |
| `gui_list` | is the list always one read of one key | 2 interchangeable keys (symmetric), 2 ports, 2 transports (one that falls back to the other port, one that does not), 1 profile, 2 workers, 2 clicks, 2 plug events, 1 fault: enough for a swap under a job and a late result over a newer one |
| `gui_progress` | does the window converge, the spinner end, a copied code leave | 1 key with a plain and a touch profile, 1 port; no symmetry, as there are liveness properties |
| `gui_absent_key` (violation) | are codes of an absent key forgotten | 2 keys, a touch profile, 2 plug events |
| `pcsc` | every operation and every way to open | one session: 2 readers of every kind, 2 profiles and pages of one entry, so that a list needs a continuation, 1 failed exchange; or two sessions over 1 key of either kind, resets included (`MCPcscSession`) |
| `pcsc_wrong_key` (violation) | is the first key opened | 2 keys, 2 sessions |
| `applet` | does the key understand what was asked, and the caller what the key said | names up to 2 bytes and seeds up to 5, with one of each above the limit; pages of 0, 1 and 2 entries of both types; pieces of up to 20 bytes, at most 3 pieces and 18 bytes, so that both limits are met exactly and passed; 2 refusals of Le, the second after the first re-issue |
| `hotkey` | do registrations, file and transport follow what the user chose; are presses taken, do dropped threads end | 2 letters, 2 transports, 2 services (one in force, one dropped and still running), 1 press in the channel; crashes and restarts unbounded |
| `hotkey_stale_press` (violation) | is a press served by the service it was made for | as `hotkey` |

`gui_*` runs bound clicks, plug events, faults and workers (`MaxClicks`,
`MaxWorld`, `MaxFaults`, `MaxJobs`); the counters are otherwise unbounded in the
program. A bound on clicks and plug events is also what "the user comes to rest"
means in `Converges`.

Deadlock is checked everywhere: a session or an exchange that has ended
stutters explicitly (`Returned`, `Done`, `Closed`).

### What the violations show

* `hid_hidraw_silent`. `set_timeout` (167-168) promises a response timeout; with hidraw
  (the Linux default) `read_report` blocks and the deadline is looked at only
  between reads. `probe_hid_owned` protects the probe with a thread, nothing protects
  a touch read or an erase that follows. The hidapi backend does return (`Returns`
  in `hid_exchange`, with no assumption about the device).
* `hid_crossed_answer`. The erase's probe takes the answer to another session's probe for its own. From then
  on the session is one answer late: its erase takes the answer to its own probe, which arrives
  while the key waits for the button, and the key is reported erased.
  `AloneReportsItsOwn` is the other half: a session that is alone is not misled, even
  by its own late answers.
* `gui_absent_key`. Touch codes are keyed by profile name; a swap between two
  refreshes, or a `TouchCode` handled after the list was cleared, leaves the code
  of one key beside the row of another.
* `pcsc_wrong_key`. A second session's SELECT OTP between a probe's SELECT FIDO
  and READ_SERIAL makes the probe reject a good key, and the scan takes the next.
* `hotkey_stale_press`. A dropped service's thread looks at its flag between two
  events only, and all threads take from one channel: after Apply the old thread can
  take the new service's press, and a press still queued at Disable is typed
  after the next enable.

Behaviours that are visible in the models, or in the code beside them, without a run of their own:

* `OnOtpApplet` is stated for keys that answer READ_SERIAL: for one that
  refuses it, `read_serial` returns at 770-772 before the restoring SELECT, the
  caller ignores the error, and ENUM_CODES goes to the FIDO applet (this is why `MayFail` has
  a case for it). It is also stated for at most one failed exchange (`faults <= 1`), and two break it:
  the first ends the probe of a reader and leads to the legacy scan, whose session has no serial
  number; the second ends READ_SERIAL before the restoring SELECT. `ListIsComplete` is stated among sessions that do not list or
  write (`OthersOnlyRead`): they may probe, read a code and reset the card between two pages. Two
  that page at once share the cursor and cross their pages.
* `PreferenceSurvives` is an implication and not an equivalence: the dialog's Disable is not
  saved until Close, so leaving through the erase dialog, or exiting, brings the hotkey back at the
  next start.
* "Added ..." and "Deleted." are never drawn: `Ok(msg)` sets the message and calls `reload()`, whose
  `spawn()` clears it in the same frame (`gui.rs` 640; `HandleOk`).
* The example settings file in the repository's README (116-117) has comments after values; `load`
  (`config.rs` 75-84) drops comment lines only, so those values are not the ones meant.
* A 6C answer ends in an error for most commands, as the re-issue appends Le (see `RawTransmit`).
* A page that holds its marker byte and no entry is refused, not read as empty (`AnswerIsRead`).
* `Interface::Auto` and the first lines on `detect` say USB-HID comes first (`transport.rs` 517, 587); the code,
  and the comment inside `detect`, take PC/SC first, and so do the models.

## Fairness

* `HidTransmit`: the host's steps and the passing of time. Nothing is assumed of the
  device, so `Returns` holds for a silent one.
* `HidSession`: threads run, and on hidapi the deadline comes. Nothing is assumed of the device; on hidraw the
  deadline may never be looked at, and only the probe is given up.
* `RawTransmit`, `Applet`: a pcsc transmit returns.
* `GuiApp`: results are drained (the window repaints every 250 ms), workers make
  progress, the refresh and the wiping of the clipboard come due. Progress of workers assumes that
  exchanges end, which the hidraw backend does not guarantee (see `hid_hidraw_silent`): `gui_progress`
  is about a window over a transport that honours its timeouts.
* `PcscSession`: each session's thread runs and each PC/SC exchange ends.
* `Hotkey`: a poll thread runs, and `recv_timeout`, a read of the key and the typing return;
  the read with the reservation just made about hidraw. Nothing is assumed of the
  user, of other programs, or that the program is ever started.

## Proofs

`HidTransmitProofs` proves, for every chunk size, set of commands, set of
answers, number of lost reports below 16, number of busy reports and either backend:

* `TypeCorrect`, `CommandDelivered`, `AnswerDelivered`, `PromptedOnce`: the
  four invariants that `hid_exchange` checks;
* `Refinement`: `HidTransmit` implements `Exchange`.

`AnswerIsWhole` is not inductive: it speaks of the end of the exchange only. `IInv`
adds what holds on the way. `DeviceInv`: the device holds the first `sent`
chunks of the command. `AssemblerInv`: as long as nothing was refused, the assembler
holds the first `taken - lost` chunks and its counter is that number modulo 256, and
if it holds any report past a loss the exchange is over. `OkInv` and `PromptInv` tie the result and
the prompt to these. The arithmetic heart is `SequenceDetectsLoss` in
the same module: a counter that wraps at 256 and a sequence number modulo 16 agree
only if the number of lost reports is a multiple of 16, hence none below 16.
`IInv` was model-checked before it was proved.

Assumptions used: `MaxChunkAssumption` (a chunk holds at least a byte) and
`TransmitAssumption` (commands are not empty, `MaxLost < 16`). With 16 reports lost in a row the
property is false, by design of the 4-bit sequence number.

`RawTransmitProofs` proves, for every command, every reply and every limit: `TypeCorrect`,
`ReplyWhole`, `FailsOnlyBeyondLimits` (three invariants of the run `applet`) and
`Refinement`: `RawTransmit` implements `Exchange`. `ReplyIsWhole` speaks of the end only; while the loop runs
(`InLoop`) the card owes an answer exactly when it has executed the command, GET RESPONSE is sent
only then, and `acc` is the part of the reply given so far, or nothing after a refusal. The assumption is
`RawTransmitAssumption` (the limits are numbers): the proofs cover the 64 pieces and 64 KiB of the code.

`PcscSessionProofs` proves, for any number of sessions, readers and profiles, with or without resets:
`TypeCorrect`, `SerialIsConfirmed` and `WritesStay`, three invariants of `pcsc`. That the legacy scan is
`detect`'s alone is a part of `TypeOK`. `LocalInv` is what one session
needs: its serial number is that of the reader it is at, its exchange belongs to its operation
(`PathAt`), and only a scan over "Auto" reaches a key that gave no serial number. `WritesLast`
relates a session that has returned to the others that go on: it is preserved because every step
of a session leaves the entries alone or is a write of its own (`Moves`), and a write adds or removes one
profile and keeps the rest (`AppendStored`, `WithoutStored`). The assumption is `PcscAssumption`.

`HotkeyProofs` proves, for every set of letters and of transports, every first file
and every bound: `TypeCorrect`, `RegistrationMatches`, `PreferenceKept`,
`TransportFollows` (the four invariants of the run `hotkey`) and `ApplyWorks`, its action
property. `RegistrationMatchesIntent` follows from `IInv`, whose part `Sound` is
stated of a record of registrations rather than of the variables: Apply passes
through registrations that no state shows (dropped, not yet registered again), and
`DroppedSound` and `RegisteredSound` say that each half keeps `Sound`. `LiveInv`
adds that the thread of the service in force is not over; `ApplyWorks` needs it to tell the
new service's slot from the old one's. Every step of a poll thread is an instance
of one lemma, `ThreadSound`. The only assumption is `HotkeyAssumption` (the default letter
is offered, "nfc" is a transport).

`PcscAloneProofs` proves, for any number of readers, profiles and failed exchanges and any page size, what
`pcsc` says of a session that has the readers for itself: `CommandsFindTheirApplet` (`OnOtpApplet`),
`FirstKeyIsOpened`, `DiscoveryIsExact` and `FailuresHaveReasons`. None of them is inductive: each speaks
of the end of a scan or an operation. `AloneInv` says what holds on the way: the applet the card is on at
each exchange (`AppletAt`), that the readers passed over hold nothing the scan would open (`ScanAt`), what
`discover` has found in them (`FoundAt`), and that the list so far is the first entries of the card, up to its
cursor (`ListAt`). How many exchanges may fail is said by each property: none for the scans and the
reasons of a failure, one for `OnOtpApplet` (above; the attempt to prove it without is what showed the run
with two). `AInv` was model-checked with two failed exchanges too. `ListsAreComplete` is proved beside
it, for a session among others that probe, read and return: such a session leaves the cursor of a card or resets
it to 0 (`Leaves`), and a card whose cursor is at 0 refuses to continue, so while the cursor is not 0 the list so far is
the card's first entries up to it (`Listed`).

`HidSessionProofs` proves `TypeCorrect` and `ReportsItsOwn` (`AloneReportsItsOwn`) for any number of
sessions and operations, over both backends. While a session is alone, what is on its way to it, at the device, in
its queue and half read, is at most one answer, to the command it is at (`OneAnswer`). The exception is
an enumeration after a READ_SERIAL that timed out: it may meet the late serial number, which does not
read as a page, and it refuses it (`LateSerial`). Sessions that come and go do not matter, because
`alone` is lost as soon as another one sends a command.

`GuiAppProofs` proves `TypeCorrect` (the window's fields and its jobs') and `ShowsOneRead`: `GuiApp`
implements `ListView`, for any number of keys, ports, transports, profiles and
workers. Each action maps to `Read`, `Show` or `World` of `ListView` or to a stutter. What makes a worker's
result a read of *one* key is `SessionsReach`: as long as a worker's session is on a key, the port it opened
reaches that key, and pulling the key out takes the session with it.

`AppletProofs` proves `CommandUnderstood`, `AnswerRead` and `CutPageRead`, the
codec's properties of the run `applet`, for every request, every content, every size of the
pieces and every limit. A request's steps are `RawTransmit`'s, so it also keeps what that one promises
(`RequestReplyWhole`, and `RequestIsExchange`: `Applet` implements `Exchange`). `AppletInv` is `IInv` of `RawTransmitProofs` with two conjuncts. `Asks`: what is sent is
the request's command, that command with another Le appended, or GET RESPONSE. `Begins`: what was read
is a beginning of the key's reply. The argument over these has four parts.

* *A text is read back where it was written*, whatever stands around it (`TextAt`, `TwoTexts`,
  `ThreeTexts`): records are built by appending counted texts, and the parsers find each end by the
  counts alone. So an entry followed by anything is read as itself (`EntryAfter`).
* *An appended Le is never read as a part of the command*: a command with a body stops being an APDU when
  another Le is appended, and one without keeps its header (`SentWhole`, `ShortSent`).
* *A page is read entry by entry* (`WholeIsRead`), and a page cut anywhere is refused or its entries
  are the first ones (`CutIsRead`): a beginning of an entry is not an entry (`CutEntry`).
* *A secret is read five bits at a time.* `DecodedAt` is the state of `base32_decode` after n
  letters: 5n modulo 8 bits are held back, 5n div 8 bytes are out and are the ones the letters' bits
  say, and the buffer ends in the last two letters. A byte is made of two letters or three; the five cases
  of a group of eight letters are `FirstByte` to `FifthByte`. Blanks and pads are dropped by `LettersAre`.

Pages and secrets have no bound in these proofs, so they need induction. The library's induction theorems take an
operator, which the provers cannot instantiate; `Counting` is induction over a *set* of numbers, from
the well-foundedness of <, and the existence of the functions that `FlattenSeq`, `FoldLeft` and
`EntriesFrom` define recursively is shown with it (`FlattenIs`, `DecodeIs`, `EntriesFromIs`). The provers
do not know `SelectSeq`, which is why `Kept` says the same with `FlattenSeq`. The assumptions are
`EntriesAssumption` (a limit fits in the byte that counts it) and `AppletAssumption`.

Two mistakes of the models came out of proof attempts: the arms of `ResultOf`'s CASE overlapped (an enumeration that
finds nothing has also a status that is not OK), so the result depended on which arm was
chosen; and `OnOtpApplet` did not say how many exchanges may fail.

Every invariant and every refinement that the passing runs check is proved, and so is the action property of
`hotkey`. The inductive invariants were model-checked before they were proved, except the parts of `AppletInv`
that speak of unbounded contents.

Left to TLC: the liveness properties (`Returns`, `OpenReturns`, `SessionReturns`, `Converges`, `ReadingEnds`, `BusyEnds`,
`CopiedCodeLeaves`, `EveryOperationReturns`, `PressesAreTaken`, `DroppedThreadsEnd`), which need ENABLED and fairness, and the runs
that end in a violation.

## Plan

Every component with state is modelled and every safety property proved. What is left:

1. Theorems: the conditions under which the
   violated properties hold (for `pcsc_wrong_key` that is `FirstKeyIsOpened`; for
   `hotkey_stale_press`, a channel that is empty when a service is registered and whose old thread is over).
2. Models: the Add form (what a second QR scan leaves of the first, `gui.rs` 1141).

## Not modelled

`crypto.rs` (cryptography; `Seal` and the sealed commands of `Applet` have its protocol side), `hid.rs` (reading sysfs,
without state), screen capture, QR decoding and `parse_otpauth` (libraries, and a parser over characters), argument parsing,
printing, drawing and styling. The time in a code, and the period after which one is out
of date, are left out everywhere. The rest is listed with its status in `PROJECT.json`.
