# Formal models of myRemoteDevice

myRemoteDevice is the firmware of an ESP32-S3 (ESP-IDF 5.2, NimBLE host, FreeRTOS on two
cores). The device keeps a small table of variables in NVS, lets a BLE central read and write
it, advertises an ID, can be driven from a serial console, updates itself over HTTPS and keeps
its clock across resets. Besides, it drives an LED strip and carries code for requests
and servers over Wi-Fi. This directory models those parts in TLA+, checks them with TLC and
proves the main properties with TLAPS. Line numbers below are those of `src/main/`.

Contents: [inventory](#inventory), [modules](#modules), [modelling decisions](#modelling-decisions),
[runs](#runs), [fairness](#fairness-and-deadlock), [proofs](#proofs),
[divergences](#divergences-between-the-code-and-what-is-said-of-it),
[not modelled](#not-modelled), [plan](#plan).

## Inventory

| Component | Source | State | Operations | Where |
|---|---|---|---|---|
| Variable table and boot | `myRemoteDevice.c/.h` | five `nvsVariable` records (`value` pointers), NVS namespace `storage` | `readVariablesFromNvs`, `writeVariablesToNvs`, `fillVariblseFromJsonString`, `variablesAreEmpty`, `writeDefaultValues`, `app_main` | Provisioning, ProvisionedDevice |
| BLE provisioning service | `ble.c/.h` | GAP name, advertising fields, NimBLE's links and advertisement | the two GATT callbacks, `ble_app_advertise`, `ble_gap_event`, `ble_app_on_sync`, `host_task` | Provisioning, ProvisionedDevice, GapLink |
| Console and NVS commands | `consoleRegister.c`, `consoleCommands.c`, `nvsFunctions.c` | one line buffer, NVS handles (some leaked), an NVS iterator | `printNvs`, `setNvs`, `delNvs`, `ota`, `do`, `strip`, `printMRD` | Console; for what they do elsewhere Provisioning, Ota, TimeSync, LedStrip |
| OTA update | `ota.c`, `partitions.csv` | app partitions, otadata | `ota_task` | Ota, Update |
| Time synchronisation | `time_sync.c/.h` | `timestamp` in NVS, the clock, the SNTP client, a periodic timer | `doTime`, `update_time_from_nvs`, `fetch_and_store_time_in_nvs`, the timer callback | TimeSync |
| LED strip command | `strip.c` | the handle of the strip, kept for ever | `strip`, `do asdf` | LedStrip |
| LED strip driver | `managed_components/espressif__led_strip` | the strip object, `pixel_buf`, an RMT channel with an encoder or an SPI device | `led_strip_new_*_device`, `set_pixel`, `set_pixel_rgbw`, `set_pixel_hsv`, `refresh`, `clear`, `del` | LedStrip, PixelStrip |
| HTTPS request task | `requestTaskBundle.c` | a TLS connection, a request, a write offset | compiled, started by nothing | HttpTasks |
| Wi-Fi and TCP server | `wifi.c` | the station, a listening socket and one connection | compiled, called by nothing | HttpTasks, Servers |
| Network examples | `exampleCom.c`, `exapmleCom2.c` | an HTTP client; an HTTPS server with two handlers | compiled, called by nothing | HttpTasks, Servers |
| Image metadata, certificates, build output, the LED driver for ESP-IDF 4 | `test.c`, `root_ca_cert.c`, `build/`, `led_strip_rmt_dev_idf4.c` | none that matters here | | [not modelled](#not-modelled) |

How they interact:

- `app_main` starts the NimBLE host task (`nimble()`, myRemoteDevice.c:164) **before** it reads
  the table, so that both tasks allocate, fill and free the same five pointers without a lock
  until `app_main` is through.
- Each GATT callback and each advertisement reads the whole table from NVS first, works on the
  table, and a write stores the table back key by key, sets the advertisement up again and only
  then answers the central.
- The console task starts last. It changes NVS and never the table (printMRD alone reads it);
  the next callback picks the change up.
- `delNvs all` calls `nvs_flash_erase`, which closes every handle of every task.
- `ota` hands its task a pointer into the console's line buffer; the task ends in `esp_restart`.
- `doTime` runs in `app_main` after `nimble()` and before the table is read, and later in the task
  of esp_timer.
- `strip` and `do asdf` call `setLedStripColor`, which creates a strip of one LED over RMT at its
  first call and never releases it; the driver's interrupt calls back into the strip encoder.
- The requests need the station that `wifi()` joins; they and the servers share nothing else with
  the rest, and nothing in `app_main` starts them.

What is hard here: two tasks and later three on one table without a lock; NVS that makes each
key durable on its own, so that a power cut leaves mixtures; pairs of calls (size, then value)
with other tasks in between; an event queue that goes on filling while the host task sleeps for
a second; two OTA tasks on one partition; SNTP answers that come too late; an encoder that stops
and goes on wherever the memory of the RMT channel ends; writes that the network takes in parts;
clients that never speak. `PROJECT.json` lists
every such hazard at its line, with the properties that cover it or a note why none does.

What makes each component correct:

- **Provisioning**: callbacks after the boot use memory properly and never store garbage; the
  defaults never overwrite an ID that was there; what a write was acknowledged for stays, is
  read back and is advertised; the device boots wherever the power failed.
- **GapLink**: a device that nobody is linked to advertises; host and controller agree when all
  is quiet; a link always finds a free connection in the host.
- **Ota**: the device always runs a whole image, never writes the one it runs, switches only by
  a complete update, and does switch then; tasks end unless their server falls silent.
- **TimeSync**: the stamp is a time SNTP has told, does not go back and is at most a day old
  while fetches succeed; fetches end.
- **Console**: a print shows values that were there, and all that did not change; it ends.
- **LedStrip**: after a refresh the LEDs show the last colours asked for; every creation that
  fails and every deletion leaves nothing behind; a refresh ends.
- **HttpTasks**: the server receives a beginning of one well-formed request however writes are
  cut; a task that has its request ends and releases what it holds.
- **Servers**: the next client is served unless the present one neither speaks nor leaves.

## Modules

Each component has a module with its constants, state, actions and properties; an `MC` module
that gives the constants values, with one `.cfg` for each question; and a `_proofs` module (two
for Provisioning, one for HttpTasks, Servers and Peripherals together).
`map` in `PROJECT.json` names the source lines of every definition.

**Provisioning** (with MCProvisioning, Provisioning_proofs, ProvisioningStore_proofs) is the core. One action is one C
statement that touches shared state. `task` holds, for `app_main` ("main") and for the host
task ("host"), the place in the code, the loop counter `i`, the `required_size` read (`sz`) and
whether the NVS handle is still open (`live`). `ram[v]` is `variables[v]->value`: what it points
to (nothing, a string literal, heap memory, released memory), the contents and the capacity.
`ReadOpen .. ReadNull` are the statements of `readVariablesFromNvs`, run by both tasks;
`MainBoot, MainCheck, MainDefault` the rest of `app_main`; `FillFree, FillDup, Mark, Store,
LogTable` a GATT write; `Respond` a GATT read; `AdvName, AdvData` `ble_app_advertise`;
`SetNvs, DelNvs, EraseNvs, EraseInit, PrintMRD` the console; `PowerCycle` a power failure or a restart.
The model has one variable for the flag, one or more in between, of which the last is the name,
and one for the ID; the other variables of the code's table are treated like the name but for
the advertisement.

**ProvisionedDevice** is what the device is meant to be for a central, a scanner and whoever cuts
the power: variables that are kept, a write that is stored one variable at a time in their order,
a read that is answered with all that is kept, an advertisement that says it. It has no table, no
pointers, no NVS handle and no second task. `BehavesAsDevice` is that Provisioning implements it.
The mapping: `store` is NVS; `boot` is the place of `app_main` ("loading" until
`variablesAreEmpty`, "defaulting" while the defaults are written, "up"); `phase` is the place of
the host task and its request, all of the reading and filling of the table being "idle" or
"announcing"; `due` is what the loops of `writeDefaultValues` and `writeVariablesToNvs` have
still before them and the write names; `answer` is what a read callback finds in the table when
it answers; `settled`, `lost`, `name` and `data` are `fresh`, `idLoss`, `gapName` and `adv`. The
race of the two tasks during the boot is in it as "meddling": a write that a central begins before
`app_main` is through may leave anything in a key, but deletes none, and takes back what was promised
before. What an advertisement says is settled only if it began after the boot.

**GapLink** is the other half of `ble.c`: the controller (`ctrlAdv`, `links`), the queue of
events to the host task, what the host believes (`hostAdv`, `conns`) and where the host task is
(`pc`). Events: connected, failed, disconnected, written, hardware error. The one-second
`vTaskDelay` in `BLE_GAP_EVENT_DISCONNECT` is the state "delay", in which the queue fills. The
two modules share no variable: what a callback does to the table does not decide whether
`ble_gap_adv_start` is reached, except by a panic, which Provisioning has.

**Ota** has the partitions as blocks, so that an update can be torn anywhere; `ota_task` as
`Begin, WriteBlock, EndImage, CheckImage, Commit, Restart, PrintError`; and the bootloader's
order of partitions (`BootOrder`). **Update** is what an update is meant to be: an image is
chosen all at once or not at all, and the next reset runs it. `UpdatesWhole` is that Ota
implements Update. The mapping: `image` is the image in the running partition, `chosen` the one
the bootloader would find if the device were reset now, however torn the other partitions are,
and `outcome` the image of the task that has just told `ESP_OK`.

**TimeSync** has real time, the clock, the stamp, the SNTP client and the one task that runs the
code at a time (`doTime` before the timer exists, the timer task afterwards).

**Console** has all namespaces of NVS, the print command under way (`cmd`), the keys its
iterator has not reached (`todo`), what it has printed (`shown`), and the namespaces with a
leaked handle. `HostStores` is what Provisioning's `Store` looks like from here. `CommandResets`
are the lines that reset the device: `do 2`, and `do` and `delNvs` without arguments.

**LedStrip** (with LedStrip_proofs) has `setLedStripColor` and the component under it, for two
kinds of caller: the firmware, which does what strip.c does, and any client of led_strip.h. `held`
is what has been allocated; `buf` is `pixel_buf` with one element per colour byte, which for SPI
is the three bytes that carry it; `enc` is the RMT encoder, called again (`Encode`) each time the
driver has room; `lit` is what the LEDs show, decoded from what went over the wire. **PixelStrip**
is what led_strip_interface.h promises, with no buffer, no channel and no order of components.
`KeepsPromise` is that LedStrip implements it: `inUse` is the length of the strip, and `pix`
decodes the buffer, a pixel that holds no valid code being `Unset`, which is no colour
(`UnsetAssumption`). PixelStrip states hues by distances on the colour wheel, not by the six cases
of `led_strip_hsv2rgb`; MCPeripherals compares the two for all hues from 0 to 359
(`ASSUME HuesRight`), and the lemma `HueRight` proves them equal for every saturation and value.

**HttpTasks** has the station, and one task at a time from its creation to its end: the request
of requestTaskBundle.c (`Connect, Build, Write, Read, CleanUp`), the GET and the POST over
esp_http_client (`Perform`). The request is a sequence of a few tokens and the URL's characters,
since `get_host_from_url` cuts the host out by character. `AddressAssumption` takes URLs apart into
scheme, host and path, and says that no `/` is in the first two and that a path begins with one: a
query comes after a path. `Characters` is what texts are made of. **Servers** has tcp_server_task with its
backlog and its clients, and the HTTPS server with its two handlers.

**Peripherals** puts these three together. They share no state, so a variable `part` chooses which
of them runs in a behaviour; the others rest in their initial state, and the state space is the sum
of the three and not the product. MCPeripherals gives its constants values.

## Modelling decisions

*Undefined behaviour.* Each step that may misuse memory goes through `Outcome(kinds, Effect)`:
a `free` of a literal, a write into one and a null dereference always panic; anything else
(double free, use after free, overrun) either goes on unnoticed or panics, and a panic reboots.
The history `misuse` records only what callbacks do that **began after the boot**; the race
during the boot does misuse memory, and the properties say what survives it. Contents of fresh
and released memory are the value `Garbage`, which may reach NVS during the boot.

*NVS.* Each `nvs_set_str` is atomic and durable; `nvs_commit` adds nothing. An erase that is cut
short leaves any subset of the keys (`Survivors`). A handle that was never opened
(`writeVariablesToNvs` does not check `nvs_open`) is taken to be invalid in Provisioning; in
Console, where leaked handles are part of the state, `setNvs` may write through any open one.

*Data.* Strings are members of a small set with their sizes and `atoi`; the JSON a central
writes is the partial function from variables to strings that it sets (a text that does not
parse is the empty one); the advertisement is the flag and the byte `atoi(id) % 256`.

*Left out*: the heap is not counted, `malloc` may fail at any time instead; printed memory and
log text; page-level garbage
collection of NVS during an iteration; `setNvs` on the 64-bit key `timestamp`, which NVS refuses
by type; the order of entries in a namespace but for the key that has just been stored, which is
last; NimBLE's pairing, of which this program uses nothing; which of the waits of a TLS
connection comes back with want-read or want-write, as such a call changes nothing.

*Peripherals.* A colour byte of the SPI is the three bytes it is turned into, bit by bit, as the
wrong bytes would be valid codes for other colours. `MaxFaults` bounds how often malloc, the RMT
or the SPI driver fail in a behaviour. A client does not use a strip again that it could delete
only in part (`"given up"`), and does not call the API while a call of its own is running: the
component has no lock, and led_strip.h does not offer one.

*History variables* (`misuse`, `acked`, `fresh`, `idLoss`, and `held` of Console) are read by no
guard.

## Runs

Every run is one question. All bounds are constants of the configuration.

| Run | Question | Bounds and why they are enough |
|---|---|---|
| `boot_race` | What holds of callbacks after the boot although both tasks shared the table without a lock? `TypeOK`, `MemorySafeOnceBooted`, `NoGarbageStoredOnceBooted` | A new device, three variables, every interleaving of `app_main` with callbacks, payloads that set name and ID or the flag. No console and no reset, which have their own runs. |
| `power_loss` | What does NVS hold, and does the device boot, when the power fails between two statements? `IdNeverWithoutFlag`, `AckedWriteDurable`, `NoNullDerefOnceBooted`, `BootCompletes`. And is all of it what ProvisionedDevice says? `BehavesAsDevice` | A new device and a provisioned one; one power cut at any state, and any number of panics besides. (The defaults alone are what a new device reaches.) After a cut the state is flash alone, and every flash that a cut leaves is then booted from. |
| `misfortunes` | What if malloc, the flash or `nvs_flash_init` fail, keys or all of NVS with every open handle go away in the middle of a callback, or `printMRD` reads the table meanwhile? `EmptinessTestSound`, `NoGarbageStoredOnceBooted` | A provisioned device; any call may fail at any time, `delNvs` of any key, `delNvs all`, any number of panics. `CONSTRAINT Calm` leaves the boot race to `boot_race`. |
| `operator` | Do reads, flash and air follow the last acknowledged write when `setNvs` changes NVS behind the table? `ReadBack`, `AdvMatchesStore`, `AckedIdIsAdvertised` | `setNvs` of the name to one that is too long for the advertisement and back, and of the other keys to a name, so that values grow between size and read and the advertisement loses and regains its room. `CONSTRAINT CalmLongName` leaves the boot race to `boot_race`, and the long name to the name: on the other keys it does what the short one does. |
| `gap` | Does the device go dark, and does it light up again? `TypeOK`, `NeverDark`, `LinkFits`, `SidesAgree`, `Relit` | Three connections as configured, four handles so that one is always left for a fourth link, two hardware errors so that the second hits while the first is still being served. |
| `ota_concurrent` | Two updates at once, with failures, silent servers and power cuts. `TypeOK`, `RunningWhole`, `RunningUntouched`, `TaskEnds` | Two tasks, images of one and two blocks in partitions of four, three and two; one power cut. |
| `ota_effect` | Is an update all or nothing, and does it take effect? `UpdatesWhole`, `OtaTakesEffect` | One update at a time, of all images, also those that fit one partition or none; two power cuts, no other failure, and servers that go on sending (`ServedSpec`). |
| `time` | `TypeOK`, `StampGenuine`, `StampFresh`, `StampNeverBack`, `FetchEnds` | Three tries in place of ten, a day of two ticks, seven ticks, three resets: several periods before and after a reset. |
| `console` | Prints while the host task stores. `TypeOK`, `ShownWasStored`, `UnchangedShown`, `PromptReturns` | Two namespaces, two keys, a short and a longer value, two stores during a print: one key is stored ahead of the iterator and once more behind it. |
| `peripherals` | The LED strip, the requests and the servers. `PeripheralsTypeOK`, `NothingLeft`, `SentRight`, `KeepsPromise`, `RefreshReturns`, `TaskLetsGo`, `ServersAttend` | Two LEDs of three or four components and an RMT memory of 24 symbols: one GRB pixel fills it exactly, one GRBW pixel does not fit, two of either take refills; colours beyond a byte, indices below and beyond the strip; one failure of a driver. Six URLs: with a port, without a path, without a host, without a scheme, with a URL in the path, with a host longer than its buffer. Three clients and a backlog of one, so that one is served, one waits and one is refused. |
| `ota_fits` (violation) | Is there room for every image that `ota` downloads? | See below. |
| `console_scope` (violation) | Does `delNvs <namespace> all` erase one namespace? | See below. |

`BootCompletes` needs its two conditions. *Meddled*: a central that goes on writing before
`app_main` is through can make it panic again and again, which fairness cannot rule out.
*Stranded*: a flag "initialized" without an ID makes `atoi(NULL)` panic in the host task; if
that comes before the defaults are written, on every boot, the device boots in a loop. Cutting
the power between the flag and the ID of the first write during the boot of a new device leads
there, as does deleting the ID. TLC finds both loops when the condition is dropped.

The constraints `Calm` (`misfortunes`) and `CalmLongName` (`operator`) end the exploration where a
callback begins before `app_main` is through: the race together with every failure, or with every
value that `setNvs` stores, is too large for TLC. `boot_race` and `power_loss`, which have no
constraint, explore it, and the theorems `AlwaysMemorySafe`, `AlwaysSoundTest`, `AlwaysReadBack` and
`AlwaysAdvertised` cover it for the safety properties of the two runs, but for
`NoGarbageStoredOnceBooted` after a race with commands. `AckedIdIsAdvertised` is checked of devices
that were in no race.

`AckedIdIsAdvertised` has two parts, as `setNvs` changes NVS and starts no advertisement. The first
says how far the device gets by itself: the ID of an acknowledged write gets on the air, unless the
operator has changed NVS since the last advertisement began (`Outdated`). The second says what the
events of the link add: as long as there are advertisements, the ID gets on the air whatever the
operator does, if the name leaves room. TLC shows what the exception is for: the name is set long,
the fields of the next write are refused (ble.c:183), the name is set short, and the ID stays off
the air until a link begins or ends.

The payloads of `misfortunes` do not name the flag. When the flag's key is gone from NVS,
`initialized.value` may be a string literal when a callback fills the table, and a payload that
names the flag then frees it; TLC shows the panic with `delNvs`. The theorem `AlwaysMemorySafe`
has the same hypothesis; `boot_race` has such payloads, with nothing deleted.

The properties of `ota_effect` are about one task at a time. With two, one task may tear the
partition that the other has committed, and what the bootloader would find changes in the middle
of an update; what holds then is in `ota_concurrent`.
`OtaTakesEffect` is checked with no other line entered until the task has read the URL
(`OtherCommands = FALSE`): the URL is a pointer into the line buffer.

## Fairness and deadlock

The FreeRTOS scheduler runs every ready task, and most waits of the code have a timeout, so each
specification has weak fairness on the steps of the code's own tasks and on nothing else:
`app_main`, the host task's callbacks with the first synchronisation, and the end of an erase
(Provisioning); the host task (GapLink); each OTA task but for the steps of a download (Ota);
the task that runs the fetch (TimeSync); the console task (Console); the transmission and the
caller that waits for it (LedStrip); the request task, `tcp_server_task` (HttpTasks,
Servers). The waits of `esp_tls_conn_read` and of `recv` are
no exception: those steps are enabled only when the other end has closed or spoken. Nothing is
assumed of centrals, clients, servers, the operator or the power. `PromptReturns` relies on `MaxWrites`: were the
host task to store a new value for ever, the iterator would never come to the end.

Deadlock is checked everywhere but in `time`, where the bounds on time and on resets let the
model stop at `MaxTime`, and in `peripherals`, where tasks end, every client comes once, and a
strip that was deleted in part is not used again.

An OTA task that has begun a download waits for its server without end. The configuration of
`ota_task` (ota.c:8-14) sets neither a limit nor keep-alive, and in ESP-IDF 5.2 a read that times out
in the middle of a download makes `esp_https_ota` read again. So `FairSpec` has no fairness on the
steps of a download, `TaskEnds` excepts a server that falls silent (`[]Downloading`), and
`OtaTakesEffect`, which asks what happens when nothing fails, is checked under `ServedSpec`, where
the servers go on sending. Connecting and reading the headers end by the timeout of the HTTP client,
which is library code that is not in the repository.

In `TaskLetsGo` a task that still waits for an answer ends only once the server is gone, as
`esp_tls_conn_read` has no timeout; in `ServersAttend` the client that stays silent for ever is
excepted, as `recv` has none. TLC shows both waits when the exception is dropped.

## Proofs

`_proofs` modules prove, for every value of the constants that the named assumptions allow
(`TableAssumption`, `StringAssumption`, `EnvironmentAssumption`, `ConnsAssumption`,
`ImageAssumption`, `BoundAssumption`, `TimeAssumption`, `TimeBoundAssumption`,
`ConsoleAssumption`, `StripAssumption`, `UnsetAssumption`, `AddressAssumption`, `ServerAssumption`:
types, and that the defaults, sizes and bounds make sense):

| Module | Theorems | Inductive invariant |
|---|---|---|
| Provisioning_proofs | `TypeCorrect`, `Invariance`, `AlwaysMemorySafe` | `TypeOK`, and `DupKey`: strdup is called only for a key the payload has, without which `req.load[v]` need not be a string. For memory safety `Owned`: only the flag is ever a literal (`Literal`); a released pointer is in the table only while some task is about to replace it (`Dangling`); and while a callback that began after the boot runs, `app_main` is through and the buffer it is filling or freeing is the one it has allocated, of the size it asked for (`Exclusive`). That no literal is freed is the one part of `Owned` that depends on the payloads (`Safe`). |
| ProvisioningStore_proofs | `AlwaysSoundTest`, `NoGarbageSpreads`, `NoGarbageAfterCleanBoot`, `AlwaysFlagWithId`, `AlwaysNoNullDeref`, `AlwaysDurable`, `AlwaysReadBack`, `AlwaysAdvertised`, `DeviceBehaves` | What NVS and the table say of each other; see [below](#provisioning-what-nvs-and-the-table-say-of-each-other). |
| GapLink_proofs | `TypeCorrect`, `NeverGoesDark`, `SidesAlwaysAgree`, `LinkAlwaysFits` | `Slots`: a connection is free while the host advertises. `OneEnd`: at most one event in the queue ends the advertisement, and the host takes itself for advertising until it has served it. `Silence`: an error is the last event, and the controller is mute until the reset. `Knowledge`: host and controller differ about a link only by events in the queue, in the right order. `Lit`: an idle host without connections advertises. |
| Ota_proofs | `TypeCorrect`, `AlwaysRunsWhole`, `NeverWritesRunning`, `OneUpdateWhole` | `Guarded`: the running and the factory image are whole, and each task works on another partition (`Apart`). Nothing is needed about otadata: the bootloader checks what it boots, and factory is there to fall back to. For the refinement of Update, with one task (`OneTask`), `OneInv` adds that what otadata selects is whole, that it runs unless an update has just ended, and how many blocks the task has written (`Progress`): then the bootloader's search never reaches a torn partition. |
| TimeSync_proofs | `TypeCorrect`, `AlwaysGenuine`, `NeverBack`, `AlwaysFresh` | `ClockRight`: an answered client means a right clock, and only a fetch has a client. `Armed`: how the timer, the last fetch and the stamp go together. |
| Console_proofs | `TypeCorrect`, `AlwaysStored`, `UnchangedAlwaysShown` | `HeldTracks`: the history holds what NVS holds. `NoneSkipped`: an unchanged key is ahead of the iterator, being read, or shown. |
| LedStrip_proofs | `LeavesNothing`, `SendsAll`, `StripTypeCorrect`, `StripKeepsPromise` | `Owned`: a strip holds no more than its backend acquires. For the encoder `Shape` (the buffer has a byte for each component of each LED) and `Sent`: what is on the wire is what the bytes encoder has passed, and in state 1 that is everything. For the types `Cells`: every colour that is stored, whatever its size and by whichever call, is kept as bytes, or as three bytes of SPI code. For the refinement of PixelStrip `Turns`: outside a refresh an enabled channel means that a driver has failed, and the firmware's first call finds no strip; see [below](#the-colours-of-the-strip). |
| Peripherals_proofs | `AlwaysSentRight`, `TaskTypeCorrect`, `PeripheralsTypeCorrect` | `TaskInv`: what the server has received is the request up to some character, and up to `written` as long as the server is there; only a URL with a scheme gets as far as that. `ServersInv`: while it serves, `tcp_server_task` has a client. `AllInv` puts these and `StripInv` together. |

Each proof shows that the initial states satisfy the invariant, that each action preserves it
(one lemma or step per action), and that it implies the property; a temporal step ends it.

`AlwaysMemorySafe` assumes that no payload names the flag (`NoFlagPayload`, see [runs](#runs)).
`SendsAll` states `WholeSent`, which no run checks by itself: for any memory of the channel and any
strip, all symbols are on the wire when the refresh is complete. `StripKeepsPromise` rests on it.

### Provisioning: what NVS and the table say of each other

The theorems of ProvisioningStore_proofs hold for any number of variables, all strings and
payloads, and power cuts and panics at any step and in any number. What they assume besides is
what can really break the property; each is what the run that checks the property has.

| Theorem | Assumes | Because otherwise |
|---|---|---|
| `AlwaysSoundTest` | nothing | |
| `NoGarbageSpreads` | the console only prints (`NoRemoval`, `NoSetNvs`) | a key that the console deletes or stores between the callback's read and its write changes what is garbage already |
| `NoGarbageAfterCleanBoot` | the race during the boot has stored no garbage (`CleanBoot`) | the property is about what callbacks after the boot add |
| `AlwaysFlagWithId` | malloc and the flash do not fail (`NoLostWrite`), the console only prints, no flash image that the device starts with has an ID without a flag | the flag's write may fail and the ID's succeed; the console may delete one of the two |
| `AlwaysNoNullDeref` | no call fails (`NoFaults`), the console only prints | `ble_app_advertise` checks neither pointer |
| `AlwaysDurable`, `AlwaysReadBack` | `NoFaults`, no key is deleted (`NoRemoval`); `setNvs` may store anything | the write is acknowledged before its result is known |
| `AlwaysAdvertised` | malloc and `nvs_flash_init` do not fail (`NoStarvation`), NVS is not erased as a whole (`NoErase`); `setNvs`, deletions and refused writes may happen | a callback whose handle goes away advertises what it had |
| `DeviceBehaves` | `NoFaults`, the console only prints (`NoRemoval`, `NoSetNvs`) | ProvisionedDevice stores what a write names and answers with what is stored: a refused write, a read without memory and a key that the operator changes under a callback are none of its steps |

The invariants, from the bottom up. `Steady`: a task that reads has an open handle, and every loop
over the table starts with the first variable. `KeyThere` (with it, `Quiet`): a key whose size was
read is still there. For `AlwaysSoundTest` `IdInv`: when `app_main` judges by the ID, either it has
loaded it or noted that it failed (`idLoss`), however often the host task has replaced the pointer
meanwhile. For garbage `Filled`: memory is uninitialized only between `malloc` and the second
`nvs_get_str`; after a race, `LoadedGarbage`: what a callback has read is garbage only where NVS
has it. For the flag `FlagInv`: the first advertisement gives it a value before any write
(`FlagFirst`), and a write stores it before anything else (`FlagStored`). For null pointers
`NullInv`: `app_main` leaves no device without an ID, and after the boot nobody changes a key
between the two calls of `nvs_get_str`. For acknowledged writes `AckInv`: the write under way has
filled the variables up to `i` (`LoadFilled`) and stored those before `i` (`StoreHolds`), the read
under way has them up to `i` (`AckedRead`), and the defaults of the next boot are not written, as
the ID is there (`NothingToDefault`). For the advertisement `AdvInv`: a callback that advertises has
loaded what NVS holds (`Loading`), and between two callbacks that is on the air (`Advertised`).

`DeviceBehaves` takes each step of Provisioning to a step of ProvisionedDevice or to one that
nobody sees (`DeviceNext`, with one lemma for each action). What the table holds has to follow from
what NVS holds, at every step whose effect a central sees; the invariants above know that of a key
that is there, or that the last write named. `Seeing` adds the others. `Blanks`: a variable that
NVS does not hold has no value in the table either, but for the flag that `ble_app_advertise` fills
in, and for what a write is about to store. Without it a callback could store, answer or advertise a
value that was never written, as `readVariablesFromNvs` leaves alone what NVS does not hold. `Copied`: what a
callback has read, and its payload does not replace, is what NVS holds, so that writing the whole
table back changes nothing else. `HasId`: a device that has booted has an ID, unless a write that
began during the boot is about to store it. `StoreKnows` and `LoadGiven` tie the history to the
write under way. Three steps of the abstract device are there because the proof needed them, and
the code does them: `KeepFlag` (a write stores a flag that was missing), a write during the boot
that takes back earlier promises (`Spoil`), and the end of a boot without an ID while such a write
is under way (`FinishLoading`).

`Spec` in the statements of these theorems has no fairness, which no safety property needs.

### The host in the request

`get_host_from_url` searches a sequence of any length. `Least` (from the well-foundedness of `<`)
gives `Min` a meaning; `HostFound` shows that the first `://` of a URL with a scheme is the one
behind the scheme, even if the path contains another, that the first `/` behind it ends the host,
and that the host is cut out whole if the buffer has room. `PrefixGrows` is one write:
the part up to `written` and the part behind it, however short, are the part up to both.

### The colours of the strip

`StripKeepsPromise` takes each step of LedStrip to a step of PixelStrip or to a stutter (`NextKeeps`).
PixelStrip's `pix` is what the buffer decodes to, so the argument is about decoding:

- `CodeOf`: the SPI code of a byte is legible, and reads back as that byte; `ZeroIsNoCode`: a
  buffer fresh from calloc is not, so a new SPI strip is `Unset`.
- `StorePaints`: a call that stores a colour changes the pixel at its index and, as the pixels share
  no cell (`Shares`), no other; one that is refused changes none.
- `NthIs`: as long as every cell up to the n-th is a code, the n-th code on the wire is the n-th cell.
  So `LatchShows`: the LEDs show each pixel up to the first that is `Unset`, and `WholeShows` with
  `WholeSent`: for the RMT, after whatever number of portions, all of them.
- `HueRight`: the six cases of `led_strip_hsv2rgb` are the distances on the wheel.

It assumes `HuesInRange`: hues from 0 to 359, saturation and value up to 255. At 360, which
led_strip.h admits, the two differ (see [divergences](#divergences-between-the-code-and-what-is-said-of-it)).

### Only model-checked

All liveness properties (the prover has neither `ENABLED` nor fairness): `BootCompletes`,
`AckedIdIsAdvertised`, `Relit`, `TaskEnds`, `OtaTakesEffect`, `FetchEnds`, `PromptReturns`,
`RefreshReturns`, `TaskLetsGo`, `ServersAttend`. Every other property of the passing runs is
stated by a theorem.

## Divergences between the code and what is said of it

- `ota_fits`: the program prints `ota "https://esp.ya-niv.com/myRemoteDeviceBin"`
  (myRemoteDevice.c:175) as the command to give, and its own image has 1252192 bytes: more than
  `ota_0` (0x100000) or `ota_1` (0xF0000). The sizes in MCOta are in these proportions. The
  update fails in the middle, after the old contents of the partition are lost; the device goes
  on running what it ran.
- `console_scope`: `delNvs <namespace> <variable or 'all'>` (consoleRegister.c:33) erases every
  namespace, as `eraseNvsData` ignores its parameter.

Facts of the code that the models have and no run singles out:

- A committed update boots on every reset from then on, while `prompt.txt:4` wants the device
  "to always boot from my myRemoteDevice.bin"; nothing selects `factory` again.
- `otaCB` passes a pointer into the console's line buffer (consoleCommands.c:69-70): a line that
  is entered before the task has read it replaces the URL.
- `delNvs` compares `argc` with 0 (consoleCommands.c:49), which it never is, and `do` does not look
  at it (line 76): without arguments they panic in `strcmp` and `atoi`.
- `setNvs` starts no advertisement (nvsFunctions.c:13-20): what it changes, and what it makes room
  for, is on the air after the next event of the link.
- An OTA task whose server falls silent in the middle of a download waits for ever (ota.c:8-15).
- A write between `variablesAreEmpty` and the defaults is acknowledged and lost
  (myRemoteDevice.c:166-169); so is one while NVS is down or the flash fails.
- A deleted key comes back with the next write of any other key.
- When `rmt_transmit` fails, the channel stays enabled (led_strip_rmt_dev.c:72-73): every later
  refresh and deletion of the strip is refused until the device restarts, and strip.c looks at no
  answer.
- The SPI buffer starts as zeros, which are the code of no bit: until a pixel is set or the strip
  is cleared, the colours behind it move up by one LED.
- led_strip.h gives hues as 0 to 360; 360 falls into the default case of `led_strip_hsv2rgb`,
  which is that of 300 to 359 with nothing subtracted: magenta in place of red. The run's hues
  end at 359.
- A client of the TCP server that neither speaks nor leaves keeps all others waiting
  (wifi.c:97).
- When the malloc of the request fails, the TLS connection is never destroyed
  (requestTaskBundle.c:93); a `?` directly behind the host goes into the Host header; the POST
  goes on without a client when `esp_http_client_init` fails.
- A station that has lost its access point does not join again before the next call of `wifi()`.

## Not modelled

- **The LED driver for ESP-IDF 4** (`led_strip_rmt_dev_idf4.c`): the component's CMakeLists.txt
  compiles it only under ESP-IDF 4, and this program is written for and built with ESP-IDF 5.
- **Image metadata** (`test.c`, `getPartition` and the partition printers): they read flash and
  print it, keep nothing and decide nothing; the call is commented out.
- **Certificates, linker script, configuration, build output**: no behaviour. The configured number
  of connections, the partition table and the size of the image are constants of the models.
- **Code without a caller or an effect**: `doHex`, `call_ota_0`, `app2`, `app_main2`,
  `initializedCallback2`; `doFunction1` sets a variable that nothing reads.
- **The library tasks**: esp_timer's task runs NimBLE's timers as well as the time stamp's callback,
  which waits in it for up to 20 seconds (time_sync.c:142). Which NimBLE timers that delays depends
  on library code that is not in the repository.
- **The size of the heap**: every read of the table leaks it (myRemoteDevice.c:79). The models let
  `malloc` fail at any time, which has all the effects of a full heap except that it is for good.

## Plan

Done: the modules and proofs above, in the order Provisioning, GapLink, Ota, TimeSync, Console,
Update, LedStrip, HttpTasks, Servers, Peripherals, ProvisionedDevice. Every safety and refinement
property that a run checks is stated by a theorem. What could follow: a ProvisionedDevice whose
steps include the operator's `setNvs` and calls that fail, so that `DeviceBehaves` needs fewer
assumptions; and an abstract OTA client for two updates at once.
