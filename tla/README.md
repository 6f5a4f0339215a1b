# Verification of the air-alarm relay

TLA+ models of the firmware in this repository, TLC runs that check them on
small instances, and TLAPS proofs for every instance. The firmware is for an
ESP8266 that switches a street light by an hourly schedule and keeps it off
during an air-raid alarm. File and line references are to `src/`.

Contents: [the system](#the-system), [the plan](#the-plan),
[modules and code](#modules-and-code), [runs](#runs), [bounds](#bounds),
[fairness](#fairness), [proofs](#proofs), [disagreements](#disagreements),
[what is not modelled](#what-is-not-modelled).

## The system

The program has one stack. `loop()` (`main.cpp:141`) runs, one after the other
and each to its end, the tasks of a scheduler, the FTP server and the web
server. Callbacks of the network stack (an answer of the alarm API, WiFi events)
run when the loop yields: always between tasks, and *within* the relay task when
`print_DEBUG` broadcasts its text to a browser that shows `/debug`. A processor
that resets starts again at `setup()` with zeroed globals; the RTC user memory
survives a reset but not a loss of power, the flash survives both, and so does
the position of the relay, which is bistable and is switched by pulses.

| component | state | operations | interacts with |
|---|---|---|---|
| relay control (`relay.cpp`) | contact, `RTCDATA.relay_state` | `relay_on`, `relay_off`, `init_relay`, the relay task | reads `alert_status`, the hour, the schedule; saves to RTC memory |
| alarm polling (`alert.cpp`) | `alert_status`, the request | `init_alert`, the alert task, `requestCB` | calls `relay_off` from a callback, also in the middle of the relay task |
| setup and loop (`main.cpp`) | phase, `conf_...`, `wifi_status` | start-up, WiFi handlers, restart | starts everything; reads the settings once |
| clock (`timer.cpp`) | the hour of `timeClient` | NTP update | gives the hour to the relay task |
| button (`buttom.cpp`) | last sample, time of the press | sampling task | a long press stores `safe_mode` and restarts |
| RTC memory (`rtc_memory.cpp`) | RAM copy, RTC copy under a CRC, backup file | `begin`, `save`, `persist`, `getData` | keeps `RTCDATA` over resets |
| settings and portal (`WiFiSettings.cpp`) | one file per setting, parameters in RAM, forms in browsers | `begin`, `GET` and `POST /portal`, `/restart`, `/update` | the files `setup()` reads; the password of the FTP server |
| update (`WiFiSettings.cpp:292`, `main.cpp:67`) | the global `Update`, `firmware.bin`, the boot loader's command | upload by `POST /update`, installation of `firmware.bin` | the boot loader's command lies where `rtcMemory` keeps its data |
| file manager (`web.cpp`) | the file system, `uploadFile` | create, rename, delete, upload, `print_DEBUG` | the same file system as FTP and settings |
| FTP server (`lib/FTPS`) | control and data connection, `cmdState`, `transferState`, `file`, `rnFrom`, `cwd` | `handleFTP` and its commands, `getPathName` | the file system |
| FTP client (`lib/FTPS`) | `ftpState`, one timer, the file, the data connection | `begin`, `transfer`, `handleFTP` | a server; the program has no instance of it |
| DS3231 clock (`lib/DS3231`) | registers in binary coded decimal | `now`, `unixtime`, `DateTime` | `setup()` reads it once |

What is hard about each, and what makes it correct:

* *Relay and alarm.* An answer may raise the flag between the check of the flag
  and the pulse (`relay.cpp:64`); an old flag is acted on while there is no
  network. Correct: light only by a decision without alarm in a due hour; a flag
  that was seen keeps the light off; a lasting alarm ends with an open contact.
* *Resets.* A pulse and the save of what it did are two steps, a reset may fall
  between them; after a loss of power the RTC memory is noise and the contact is
  where it was. Correct: what the program believes of a closed contact is true,
  and no boot re-enters safe mode for a press that was served.
* *RTC memory.* Two copies of different age, both of which may be torn. Correct:
  `begin()` recovers the newest copy that is whole.
* *Button.* Unsigned times that wrap. Correct: a press is long if it was.
* *Settings.* A save writes one file after the other, a form may be older than
  the files, a mask stands for a password, and a page does not show every value as
  it is. Correct: a form that was saved whole is what the next start works with, the
  mask and the defaults of one that was not edited change nothing, a generated
  password stays.
* *Update.* A client may leave within an upload, a reset may fall between the
  installation of `firmware.bin` and its removal, a save may overwrite the command
  for the boot loader. Correct: no image that cannot run gets into the flash by a
  fault alone, and the device does not restart for ever.
* *File manager.* Recursion over a tree that LittleFS changes underneath, and that a
  restart may cut short; an upload whose client leaves. Correct: a delete removes exactly what it should,
  replies name directories that exist, only an upload changes a content.
* *FTP server.* One file handle, one data connection and one buffer are shared by
  all commands; connections break at any chunk; a command that waits for its data
  connection is processed again in every pass; a line may be too long and memory too
  short for a buffer. Correct: one final reply for each command, and more only in those
  two cases; what is reported done is whole, no client is served on the login of
  another, silent clients go, names change only where a command says so.
* *Paths.* `getPathName` shortens one string by the length of another. Correct: a
  tidy name means what it says from every directory a client gets to, and it is known
  from which of them the loop over slashes does not end.
* *FTP client.* One timer serves five waits, and a blocking transfer loops until
  its end. Correct: every transfer ends; what is reported OK is whole, but for a
  blocking put, which sends nothing.
* *DS3231.* Leap days are counted in two places. Correct: every date is the right
  number of seconds, and comes back from it.

`PROJECT.json` lists every hazard at its line with the properties that cover it.

## The plan

In this order; each module is written so that it can be proved about: no `RECURSIVE`
operator (the recursion of `deleteRecursive` is in the steps of `FileManager`, the loops
of `DateTime` and the reading of a path are definitions of what they compute),
parameters as constants with named assumptions, one action for each operation.

1. **Done: the core.** `Device` (shared state) <- `Relay` <- `Alert` <- `Firmware`
   (composition, start-up, resets) <- `FirmwareProps`; abstract specification
   `RelayPolicy`. Runs `core_safety`, `contact`, and three that show the
   documentation wrong (`no_api`, `switch_under_alarm`, `lost_relay`).
2. **Done: the parts with a state of their own.** `RtcMemory` (shown to be what
   `Firmware` uses, by refinement), `Button`, `FtpServer`/`FtpProps`, `Settings`,
   `FileManager`.
3. **Done: the rest of what the program does.** `Update` (and its effect on the RTC
   memory in `Firmware`), `FtpPath`, `FtpClient`, `Calendar`; `MCParts` runs them with
   `RtcMemory` and `Button` in one instance.
4. **Done: proofs** of every invariant and action property the passing runs check.
5. **Open.** Clients of the FTP server that log in twice (their command gets no reply,
   `FTPServer.cpp:223`); the status and listing pages of the file manager; several
   writers on one file system.

## Modules and code

| module | models |
|---|---|
| `Device` | the globals of `main.h`, what survives what, when callbacks run (`Yielding`), `save()` |
| `Relay` | `relay.cpp`: the task is split where it prints: flag (`RelayCheck`), hour (`RelayHour`), switch (`RelaySwitch`) |
| `Alert` | `alert.cpp`: `init_alert` is in `Firmware`; a request goes `unsent`/`done` -> `open` -> an answer -> `done`; `requestCB` for each kind of answer |
| `Firmware` | `main.cpp`: `setup()` in the order of the code, tasks, WiFi events, portal, long press, four kinds of reset; `Spec`, `FairSpec` |
| `FirmwareProps` | the properties, the refinement mappings to `RelayPolicy` and `RtcMemory` |
| `RelayPolicy` | abstract: what the device promises about its contact |
| `RtcMemory` | `rtc_memory.cpp` with a backup file; histories `saved`, `backup` |
| `Button` | `buttom.cpp` with a `millis()` that wraps after `2 * HALF` values |
| `FtpServer`, `FtpProps` | `FTPServer.cpp`, `FTPCommon.cpp`; a pass of `handleFTP()` in its two halves; every command is an operator of its name |
| `Update` | both ways a new firmware gets in: pieces, their end or abort, `firmware.bin` in `setup()`, resets and the boot loader |
| `FtpPath` | `getPathName` on strings of letters and slashes, and what `CWD`, `CDUP`, `MKD`, `RMD` make of it |
| `FtpClient` | `FTPClient.cpp`: every state of `handleFTP()`, `waitFor` split into its three branches, blocking and other transfers |
| `Calendar` | `DS3231.cpp`: `RTClib::now`, `DateTime(t)`, `unixtime`, day by day |
| `Settings` | `WiFiSettings.cpp`: files, parameters in RAM, forms, saves file by file |
| `FileManager` | `handleFileCreate`, `handleFileDelete`, `handleFileUpload` of `web.cpp` over a tree; `deleteRecursive` call by call: `DeleteContents` goes into an entry, `DeleteEntry` removes one and returns |
| `MC...` | instances for TLC; `MCParts` lets one of six components run, the others rest |
| `FirmwareProofs`, `FirmwareRefinement` | theorems about the firmware and the specifications it implements |
| `FtpProofs`, `FtpTransferProofs` | theorems about the FTP server: replies, logins, names; then what it transfers |
| `SettingsProofs`, `FileManagerProofs`, `CalendarProofs` | theorems about the module of that name |
| `PartsProofs` | theorems about the other parts: `Update`, `Button`, `RtcMemory`, `FtpClient`, `FtpPath` |

Choices a reader should know:

* `saving` in `Device` is the point between a change of `RTCDATA` (or a pulse) and
  the end of `rtcMemory.save()`. Nothing but a reset can come between; the model
  makes that point visible for resets only.
* `Faults` selects the rare events of an instance: `reset` (watchdog, exception,
  pin), `midSwitch` (one that falls on such a point, with the old copy or a torn
  one left), `powerLoss`, `fsLost` (LittleFS is formatted, `main.cpp:65`), `update` (the
  boot loader's command takes the place of `RTCDATA`; how it gets there is the
  business of module `Update`).
* Both pulses go to `RELAY_ON_PIN` with the level of `LED_GREEN`, `HIGH` in `relay_on`
  and `LOW` in `relay_off` (`relay.cpp`): the contact latches that level.
* `HOURS` is the length of a day; the last hour never switches on, because
  `getBytes(relay_buf, 24)` copies 23 characters (`relay.cpp:52`).
* `PortalSave` in `Firmware` is one step: any mixture of an old and a new schedule
  and check is again a value of `Settings`. How files are saved one by one is the
  business of module `Settings`.
* In `FtpServer`, names are flat under the root; `NOOP` stands for all commands
  that only reply (`PWD`, `TYPE`, `MODE`, `STRU`, `SITE`, `SYST`, unknown), `LIST`
  for `MLSD` and `NLST` as well, `SIZE` for `MDTM`. User and password are both set,
  as `main.cpp` does. `stop()` is not used.
* In `FtpServer`, `HeapFull` lets `allocateBuffer()` fail (`NotAllocated`). What follows
  depends on `fileBufferSize`, which a freed buffer leaves as it was: if it is still
  zero, the file is closed, the client gets a 226 and a 451, and since the transfer is
  still under way (`starved`), the same pass ends it with another 226; else the transfer
  begins without a buffer, and its first chunk moves to or from address zero, which
  resets the processor (`NoBuffer`). `Surplus` counts the extra replies.
* `TOOLONG` is a line of more than `FTP_CMD_SIZE` characters (`LineTooLong`): it is
  answered 500 as soon as the limit is reached, and what follows the limit is read as
  another line (`Rests`): an unknown command for a polite client, any for another.
* In `Update` an image is `old`, `new` or `broken`: whole and spliced images are told
  apart, the bytes are not. LittleFS and the boot loader are external.
* In `FtpPath`, LittleFS is external and reads several slashes like one; a parameter
  may hold any slashes. The loop of `getPathName` cuts the same prefix in every turn,
  so it ends after two turns or never (`Endless`), and then the watchdog bites.
* In `FtpClient` the server may send the expected reply, another or none, and may
  close when it likes; sizes are in chunks. `direction` has the four values of
  `TransferType`; a blocking put shares a bit with `FTP_GET` and opens its file to write
  (`OpenedToWrite`, `FTPClient.cpp:22`).
* In `Settings`, three parameters stand for all: the portal's password (the only
  one that generates a value), a text, a box. Files are changed by the portal
  only, and LittleFS makes each file's new content visible when it is closed.
* `Foreign` in `Settings` are the names and values with characters outside ASCII.
  `html_entities` (`WiFiSettings.cpp:36`) writes one reference for each of their bytes,
  the browser makes a character of each reference and sends it in two bytes: what comes
  back is another, longer value of this kind, also from a form nobody touched
  (`Returned`). All other values come back as they went out.
* In `FileManager` the effects of LittleFS are external: directories that come
  with a file and go with their last entry, and open handles whose file is removed
  or renamed. Moving a directory into itself is not asked for. A delete is as many
  steps as `deleteRecursive` makes calls, in any order of the entries, since it is the
  one request that a restart can leave half done in a way the others cannot; `at` is
  the path of the call that runs, which with `target` is all its stack holds. A call
  whose path is gone (its directory went with the last entry) has nothing to remove.
* In `FtpPath`, `Normal` keeps the characters of a path that are neither a slash before
  another slash nor one at the end; in `Calendar`, the loops of `DateTime` are the year
  and month they stop at, the only ones for which the rest is within the year or month.

## Runs

Passing:

* `core_safety` - the firmware under every fault, all kinds of answers, and an open
  debug page. `BelievedOnIsOn`: in the loop a `relay_state` of closed is true.
  `OnOnlyAfterAllClear`: with the check on, no light before an answer of this boot
  lowered the flag. `AlarmHonoured`: a flag that a relay run has seen keeps the
  light off until it falls. `SafeModeOnlyByButton`: the access point starts only
  for a long press that was not served.
* `contact` - without a debug page, with warm resets and a lost file system: the
  firmware implements `RelayPolicy` (`ContactPolicy`, and its liveness
  `ContactProgress`) and uses its RTC memory as the class allows (`MemoryContract`);
  `relay_state` is the contact (`Mirror`); a lasting siren opens the contact
  (`SirenOpensContact`), polling never stops (`PollingGoesOn`), and a long press
  reaches safe mode (`SafeModeReached`).
* `parts` - six components that share no state, each on its own. RTC memory:
  `BeginRecovers`, the last surviving save, else the last complete backup, else
  zeros. Button: `LongPressOnly`, across the wrap of the clock. Update:
  `WholeImages`, only a spliced upload or an incomplete `firmware.bin` breaks the
  flash; `BootEnds`, the device does not restart for ever. Paths: `PathTypeOK` keeps the
  working directory in the form the code relies on; `TidyNamesResolve`, from *every*
  directory of the run, those behind doubled slashes included: a tidy name leads where
  it says, and a `CDUP` never ends exactly if slashes are doubled before the last name
  of the directory (`MKD a`, `CWD ///a`, `CDUP`).
  FTP client: `TransferComesToEnd`; `OkIsWhole`, a get has all that was sent, a put that
  does not block has sent its file unless the server closed, a blocking put has sent
  nothing of a file it has emptied. Clock: `NowCounts`. `PartsTypeOK` has
  the values of the first, second, third and fifth, and where timers, buffers and
  pieces of an update may be.
* `ftp_sessions` - clients that wait for their replies, lines that are too long, and a
  heap that may be full: `OneReplyEach`, one final reply for each command, and beyond
  those only the two more of a transfer that found no memory and the one for the rest
  of a long line; `BufferHeld`, a transfer under way has a buffer exactly if there was
  memory when it began; `TransferIsWhole`, `SilentClientFreed`, `TransferEnds`.
* `ftp_names` - clients that do not wait, two entries, a file system that may be
  full: `OwnLogin`, `OnlyNamedChanges`.
* `settings` - `UneditedComesBack`, a form that is up to date and not edited leaves
  each file as it was, but for a network nobody had chosen and for foreign values, which
  turn into others when their turn comes; `ShowsWhatIsStored`, `PasswordKept`,
  `SavedIsInForce`, with stale forms and restarts within saves.
* `file_manager` - from every tree of two levels: `ReplyIsDirectory`; `DeleteIsExact`,
  the calls of `deleteRecursive` against a definition of what is left without them, and,
  when a restart falls between two of them, nothing gone but entries below the path;
  `OnlyUploadsWrite`.

Violated, each by what the code does (quotes are in `PROJECT.json`):

* `switch_under_alarm` - with a debug page open, an answer that arrives between
  `relay.cpp:64` and the pulse does not stop it: the light comes on under an alarm
  until the next run of the task. Without a debug page the policy holds.
* `no_api` - without a network no request is made, so nothing raises the flag and
  the light stays on, contrary to `README.md:91`.
* `lost_relay` - after a loss of power `relay_state` is zero while the contact may be
  closed: `relay_off` does nothing, and under a lasting alarm the light stays on,
  contrary to `README.md:90`.
* `update_lost` - after "Update Success" an answer of the alarm API that opens the
  relay saves `RTCDATA` over the command for the boot loader, and the restart starts
  the old program.
* `ftp_stale_file` - a `RETR` or `STOR` that got no data connection leaves its file
  open, and the next one transfers that file instead of its own.

Every property of a passing run has a mutant in `PROJECT.json`: a change of one
definition that a bug could make and that violates the property.

## Bounds

* *Firmware.* Two hours (`HOURS = 2`): one that may be scheduled and the last one,
  which never is; every property depends on one hour at a time. Two schedules,
  both settings of the check. No other bound: the state space is finite.
* *RTC memory.* Three values: the last save, an older backup and an assignment that
  was not saved can all differ.
* *Button.* `HALF = 8`, so that the clock wraps within a press; `MaxHeld = 7`, the
  largest below half the range (in the product: presses under 24.8 days), with
  `LONG_PRESS_TIME = 3`; `MaxGap = 2` between samples, `MaxSetup = 2` before
  `init_buttom`.
* *Update.* No bound: one image is under way at a time.
* *Paths.* One letter, parameters and the working directory of up to four characters:
  enough for two levels, double and final slashes, and the endless loop.
* *FTP client.* Files of two chunks, so that a transfer can be cut before, between and
  after them; a buffer may be refused.
* *Calendar.* Ten years from 2000, so that both kinds of year follow each other in each
  order; four times of the day. The chip's calendar ends with the last year, which is
  why the run does not check deadlock.
* *FTP.* One file beside the root (sessions), two (names); files of at most one
  chunk (`MaxSize`), which is enough for data that is unread, in flight or written
  when a connection breaks; one waiting connection (`MaxKnocks`). The heap may be full
  in `ftp_sessions` only: names and login do not depend on it in `ftp_names`, and the
  theorems about them are for both.
* *Settings.* Two passwords, one value beside the empty one elsewhere, two foreign
  values, of which each comes back as the other, two pages in one boot.
* *File manager.* Two names, two levels: a directory with two entries beside a file
  or a second directory; moves that leave the bound are not made.

Symmetry is used for names, passwords and foreign values, only in runs without liveness.

## Fairness

`FairSpec`: weak fairness of what the program does next by itself (`Save`, the steps
of `setup()`, `Restart`) and of `Serve`, since the HTTP client times out; strong
fairness of the relay task, the alert task and `requestCB`, which are enabled again
and again when the loop passes: the scheduler runs every due task in each pass, and
callbacks are delivered when it yields. None for the hour, the siren, the network,
the button, the portal or a fault. `FairFtp`: weak fairness of `handleFTP()`, which
every pass calls, and of time running out (`Expire`); none of clients or network.
`UpdateFairness`: `setup()`, the removal of `firmware.bin` and a restart run to their
end, as straight code does; none of clients, faults or saves. `ClientFairness`:
`handleFTP()` is called again and again, by the user's loop or by `transfer()` itself,
and a timer runs out; none of the server. `MCParts` states both for the component that
runs. `RtcMemory`, `Button`, `FtpPath`, `Calendar`, `Settings` and `FileManager` have
safety properties only.

## Proofs

For all values of the constants under their assumptions (`HoursAssumption` and so on,
which TLC evaluates in every run):

| theorem | says | by |
|---|---|---|
| `TypeCorrect` | `TypeOK` | inductive; one lemma for each part |
| `BeliefIsRight` | `BelievedOnIsOn` | with `TaskInLoop`: the relay task is at work only in the loop |
| `AllClearFirst` | `OnOnlyAfterAllClear` | with `NotYetClear`: before the first all-clear the flag is up, the relay open and the task not past its check |
| `FlagHonoured` | `AlarmHonoured` | with `StaleFlag`: under a flag that is not new, no run that found it down is on its way |
| `SafeModeWasAsked` | `SafeModeOnlyByButton` | with `Asked`: `safe_mode`, in RAM or in RTC memory, means a press to be served |
| `RelayStateIsContact` | `Mirror`, unless power is lost, a reset falls before a save or an update is installed | `Mirrored`: with it, nothing is left unsaved when a boot begins |
| `PolicyImplemented` | `ContactPolicy` without a debug client | `DecidedUnderNoFlag`: a decision to close is pending only while the flag is down; one refinement step for each action |
| `MemoryImplemented` | `MemoryContract`, without an update | with `AfterBegin`; each step is one of `RtcMemory` or a stutter |
| `Recovery` | `BeginRecovers`, for every type of the structure | `Histories`: the copies hold what their histories say |
| `ServedAfterLogin` | `OwnLogin` | inductive; `LoginKept` for the commands outside the login |
| `NoChunkWithoutBuffer` | `BufferHeld`, with memory or without | inductive; `CommandHoldsBuffer` |
| `RepliesMatch` | `OneReplyEach`, for polite clients | `Accounts`: while the client is there, what is owed is the greeting or login reply, the unread line, the waiting command and the transfer under way; each command answers, waits or starts a transfer (`CommandAnswers`); the extra replies of a transfer without memory and of a long line are owed from the moment they have their reason |
| `NamesAreSafe` | `OnlyNamedChanges`, for all clients | every step but five commands at most stores what the open handle wrote (`Stores`) |
| `FtpTypes` | `FtpTypeOK`, for polite clients | `Inv` of `FtpTransferProofs`: with `Accounts`, a handle has room for what arrived |
| `TransfersAreWhole` | `TransferIsWhole`, for polite clients and a file system that takes all data | `Counted`: a fresh handle has what was received less what is unread, or has sent what was counted; `Unused`: a file that its own command opened is untouched until it starts |
| `OnlySplicedImagesBreak` | `WholeImages` | `Origins`: whatever is broken or mixed comes from a spliced upload or an incomplete file |
| `PressesAreMeasured` | `LongPressOnly`, for every width of `millis()` and every limit | `Timed`: while the button is down, the clock is where the time measured since the press takes it; `Ticks` and `Measures` are the arithmetic of the wrap |
| `OkTransfersAreWhole` | `OkIsWhole`, for files of any number of chunks and all four directions | `Accounts` of `PartsProofs`: chunks moved, unread and sent in each phase; the file of a blocking put is empty while it runs |
| `PartsTypes` | `PartsTypeOK` | from the types of each part (`ClientTypes`: the timer runs only in a wait, a transfer has its file); `PartsAreComponents`: the instance implements the specification of every component |
| `PathsKeepTheirForm` | `PathTypeOK`, for names and directories of any length | `Sanetized`, `Joined`: what the helpers make of an absolute path is one; a directory is stored under a normal name (`NormalIsNormal`) |
| `TidyNamesMeanWhatTheySay` | `TidyNamesResolve`, likewise, from every directory | `NormalForm`: a string is normal exactly if it has no doubled or final slash; `NormalOfJoined`: what is kept of a path and of a normal one behind it are kept of both together; `ParentHangs`: the parent's path is shorter than `cwd`, so what is cut off lies beyond its end |
| `ClockIsRight` | `NowCounts`, for every `LastYear` to 2037 and every time of the day | `Dated`: the registers hold the date of the days that went by; `date2days` grows by one at each midnight, so the year and the month the loops stop at are those of the date |
| `TheTreeStaysOne`, `RepliesNameDirectories`, `DeletesAreExact`, `WritesAreUploads` | `ManagerTypeOK`, `ReplyIsDirectory`, `DeleteIsExact`, `OnlyUploadsWrite`, for any names and any depth | one invariant: `Tree` (what exists has only directories above it), `FileOpen` (a handle has its path only while the file is there), `DeleteAtWork` with `Progress`: of the tree the delete found, nothing is gone but below its path, until the entry itself goes, and then exactly what `Left` says |
| `SettingsTypes`, `FormsShowFiles`, `UneditedIsHarmless`, `PasswordLasts`, `SavedFormsAct` | `SettingsTypeOK`, `ShowsWhatIsStored`, `UneditedComesBack`, `PasswordKept`, `SavedIsInForce` | one invariant: `InStep` (RAM and files agree when a page can be served), `Lasting` (a password in force is stored before it can be lost), `Written` and `Fresh` (how far a save has come, which forms are up to date), `AsBefore` and `Matches` (what went out and what comes back, up to `Returned`) |

An invariant that a run checks is seldom inductive: `AlarmHonoured`, for instance,
says nothing of a task that has read the flag and not yet switched, and from such a
state a step could break it. The strengthenings above close these gaps. `DeleteIsExact`
is another: it speaks of the whole delete, its steps remove one entry each, and with an
entry LittleFS may remove the parents. `Progress` is what holds between: as long as the
entry at `target` is there, so are all directories above it; it goes in one step with
those of them that have nothing else in them (`EntryDeleted`).

Where a proof needs induction (over the length of a path, the days of a year), it takes
the least counterexample: `LeastNatural`, which rests on the library's facts about
finite sets, gives every set of numbers a least one. So `TreeOfParents` gets from "every
parent is a directory", which is what the code checks, to "everything above is one", and
`YearLoop` and `MonthLoop` find where the loops of `DateTime` stop.

"Polite" clients wait for the reply before the next command, but for `ABOR`, and log in
once; others can make the server owe a reply for ever (`FTPServer.cpp:223`), so these
theorems assume it as the run does. They also wait for all replies they have coming, and
what follows the limit of their long lines is no command. `OwnLogin`, `BufferHeld` and `OnlyNamedChanges` need
no such assumption.

Only model-checked: the liveness properties `SirenOpensContact`, `PollingGoesOn`,
`SafeModeReached` and `ContactProgress` of `contact`, `BootEnds` and `TransferComesToEnd`
of `parts`, `SilentClientFreed` and `TransferEnds` of `ftp_sessions`: the prover has
neither `ENABLED` nor temporal reasoning beyond propositional steps. Every invariant and
every action property of a passing run has a theorem.

## Disagreements

Beside the five that runs show, the code and its documentation were found apart in:

* `README.md:83` has the relay off at start, but after a loss of power a bistable
  relay stays closed until it was switched on once (`lost_relay`); in safe mode it is
  not opened either.
* `README.md:64` has 24 hours in the schedule, of which `getBytes` copies 23.
* `rtc_memory.h:31` has `persist()` true when data were written; what `write` returns
  is not looked at.
* `README.md:71` has a press of 10 seconds, `buttom.cpp:10` has 2000 ms; a press that
  begins before `init_buttom` is measured from the start of the processor.
* `FTPServer.cpp:926` reports 226 also after the data connection was lost.
* `FTPCommon.h:25` speaks of inactivity, but a transfer does not restart the timer.
* `FTPServer.cpp:1059` says `"/some/path/ => /some/path"`, but what is removed depends on
  the length of `cwd`: from the root the path becomes the root, and from others the
  loop may never end. A `CDUP` in `///a` is one such case (`TidyNamesResolve`).
* `FTPServer.cpp:661`, `:713`: without memory for a buffer, the client gets 226, 451 and
  another 226, the first two while the transfer is still under way; a `STOR` has then
  emptied its file, and both 226 say "File successfully transferred".
* `FTPServer.cpp:949` has `readChar()` return -1 for a line that is too long; it never
  does. The line is answered 500, and the rest of it is answered as another command.
* `FTPServer.cpp:223`: `USER` or `PASS` after the login gets no reply.
* `FTPClient.cpp:22`: `direction & FTP_GET` holds for a blocking `FTP_PUT` too: the local
  file is opened to write and emptied, nothing is sent, and the result is OK.
* `FTPClient.cpp`: a blocking `transfer()` returns `PROGRESS` after a failure, since its
  loop ends before the result is set; OK is reported without waiting for the server's
  226; a control connection that failed counts as made (`controlConnect` gives -1); a
  failed transfer leaves file, connection and buffer as they are; a `227` that cannot
  be read starts the timer again; without `begin()` a blocking call never returns; `GET`
  empties the local file before it connects.
* `FTPCommon.cpp:50`: `allocateBuffer` returns the size of an earlier buffer when there is
  no memory: the transfer begins without one, and its first chunk uses address zero.
* `WiFiSettings.cpp:43`: a value or a network's name with characters outside ASCII comes
  back changed from a form nobody edited, and grows with every save; a network with such
  a name cannot be chosen.
* `web.cpp:107`: an empty directory is listed as `]`.
* `WiFiSettings.cpp:224`: `POST /portal` is served only after a `GET /portal` of the same
  boot, and each such page registers one more handler.
* `FTPServer.h:91` has `rnFrom` set by the previous command; only `RNTO` clears it.

## What is not modelled

Code the program neither includes nor calls: SSDP (`lib/SSDP`), the copy of the core's
timer for another processor (`esp32compat`), and of the DS3231 driver everything but
the reading of the time (alarms, temperature, oscillator, setters). Text: pages,
replies, listings, logs, and the stored status page. WiFi scanning, the captive DNS,
the wait for the network in `connect()` and the websocket's own events, which keep no
state the rest reads. `stop()` of the FTP server is never called.

The NTP server, the alarm API, WiFi, LittleFS, TCP and the boot loader are external:
they are modelled from how the code uses them. A failure of the SDK to read or write
RTC memory, and exhaustion of the heap outside the FTP server and client, are left out. The FTP
server, the file manager and the settings work on one file system in turns; each model
has what a removal or a renaming does to an open handle, but not the steps of the other
writers: what two handles on one file leave is up to LittleFS, not to this code.
