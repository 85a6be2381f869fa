# A TLA+ model of esp32-web-terminal

The firmware puts the serial console of a single-board computer into a browser:
an ESP32 relays bytes between a UART or a USB CDC adapter and WebSocket
terminals served over HTTPS, and keeps sessions, WiFi, power control and
updates around that. This directory models the parts of it where order,
concurrency and time matter, checks them with TLC and proves some of the
results with TLAPS. Paths are relative to the repository's `main/` unless they
say otherwise.

## The system

Tasks that run concurrently: the **httpd task** (every request handler, every
close callback, every WebSocket send), **uart_rx_task**, the **USB CDC driver
task** and **usb_event_task**, the **system event task** (WiFi and IP events),
the **timer task** (the STA watchdog).

| component | state | operations | talks to | hard parts |
|---|---|---|---|---|
| transmit ring (`web_server.c` 136-384) | 32 slots, head and tail, `s_tx_kick_pending` | `ws_enqueue`, `ws_flush_work` | producers call it; it queues a call to the httpd task | several writers and one reader; coalesced wake-ups; the queueing may fail; the ring fills; indices wrap |
| sessions and lockout (`auth.c`) | `s_sessions[4]`, `s_hosts[8]` | login, validate, logout, invalidate all, lockout check | called by handlers, the WebSocket, and the push path | sliding expiry, LRU eviction, recycling of counters |
| WebSocket clients (`web_server.c` 114-278, 1236-1353) | `s_ws_clients[4]` | register, touch, revalidate, evict, remove | sessions, sockets, serial ports | sockets outlive sessions, socket numbers are reused, checks are throttled |
| HTTP handlers (`web_server.c`) | none of their own | login, logout, config, power, reset, OTA, scan, TLS, token | everything | one task for all; fields applied one by one |
| configuration (`config.c`) | `s_config`, NVS | `config_init`, `config_set_*`, `save_to_nvs` | NVS | reset between two writes |
| TLS store (`web_server.c` 56-112, 1073-1177) | two blobs | load or save, upload | NVS, server start | reset between two writes, fallback |
| WiFi manager (`wifi_manager.c`) | `s_status`, retry count, `s_scanning`, watchdog timer, driver mode | init, connect, disconnect, update AP, scan, events, timer | driver, config | three tasks, no lock |
| USB CDC bridge (`usb_cdc_bridge.c`) | device handle, baud rate, event queue of 5 | attach and detach events, send, set baud | ring, serial ports | bounded queue, handle lifetime |
| UART, serial ports (`uart_bridge.c`, `serial_port.c`) | port table | init, send, baud, receive callback | ring | start-up of an optional port |
| GPIO (`gpio_control.c`) | power level, time of the last change | reset pulse, power | handlers | the relay interval |
| OTA (`ota_github.c`, `web_server.c` 982-1232) and boot (`main.c`) | partitions and their states | upload, download, boot, confirm | everything | reset at any point, rollback |
| browser client (`frontend/index.html`) | token, socket, port, reconnect timer | login, connect, switch port, reconnect, logout | HTTP API | answers that arrive late |

Not behaviour to model: `frontend/terminal.js` and the styles (presentation),
`tools/`, `certs/` (one-shot scripts), and vendored code (cJSON, Unity, xterm).

What makes each component correct:

- *ring*: what is sent is what was accepted, in order, once; a payload is cut at
  its end and never in the middle; nothing waits in the ring with nobody coming.
- *sessions*: an idle session dies; eviction takes the least recently used;
  a lockout belongs to the address that earned it and lasts.
- *clients*: data goes to, and keystrokes come from, the connection that
  authenticated, and only while its session is valid.
- *configuration*: after a reset at any point, between the writes of the
  credentials aside, a password that somebody knows opens the device, and it is
  not the default one once the device is set up.
- *TLS store*: the certificate and the key the server runs with belong together.
- *WiFi*: a stored network is retried for as long as it is stored; without one
  the access point is on air, with the stored name; the status catches up.
- *USB*: an attached adapter ends up open, at the baud rate last set; a handle is
  never used after it is closed.
- *GPIO*: two relay changes are never closer than the interval.
- *OTA and boot*: an image that does not come up is never confirmed, there is
  always one to go back to, and the device comes to serve again.
- *browser*: at most one socket; none after logout (not modelled).

`PROJECT.json` lists the places in the code where these are at risk (`hazards`)
and the property that covers each, or why none does.

## Modules

| module | models |
|---|---|
| `SerialFifo` | abstract: a bounded line that lets in a prefix of each payload and delivers in order |
| `WsTxRing` | the ring: producers, lock, wake-up, httpd task |
| `WsTxRingProofs` | its invariants, proved |
| `WsTxRingRefinement` | the proof that it implements `SerialFifo` |
| `Auth` | `auth.c` |
| `AuthProofs` | its sessions, its eviction and its lockouts, proved |
| `Terminal` | extends `Auth`: client table, sockets, handlers, push path |
| `TerminalProofs` | who owns a socket and whose session moves data, proved over the lemmas of `AuthProofs` |
| `UsbCdc` | `usb_cdc_bridge.c` once started: events, handle, rate |
| `UsbCdcProofs` | its handle, what it shows and its rate, proved |
| `Wifi` | `wifi_manager.c` and the driver under it |
| `WifiProofs` | its watchdog, its access point and its way back to AP mode, proved |
| `Store` | `config.c` and POST /api/config, key by key |
| `StoreProofs` | what a reset or a failed write leaves of the password and the settings, proved |
| `Relay` | the operations of `gpio_control.c`, for `Device` |
| `Device` | extends `Relay`: bootloader, `app_main`, USB library task, OTA, TLS pair, restarts |
| `DeviceProofs` | its type, its images, its pair and its relay, proved |
| `MC*` | the instances TLC checks |

### WsTxRing

One step is what no other task can interrupt: a critical section of `s_tx_mux`
or a call of `httpd_queue_work`. `Enqueue`, `Drop`, `PostOk`, `PostFail`,
`Unkick` are `ws_enqueue`, in `pc[p]`; `ClearKick`, `Pop`, `Send`, `EndFlush`
are `ws_flush_work`, in `flush`; `StartFlush` is the server taking the call off
its queue. A payload is a number and a length in slots, a chunk is (producer,
payload, index), so the model can tell a lost, doubled, reordered or overwritten
chunk. `Modulus` stands for 2^32. A broadcast before `s_server` is set returns at
once and is therefore not a step. `sent` and `gaveUp` are history: the
code has no such variables. `s_tx_dropped`, which is only logged, is left out.

`RefinesFifo` maps the ring to `SerialFifo`: the line is the frame copied to the
stack followed by the slots from tail to head, hence a capacity of one more than
the slots. `Enqueue` is `Accept`, `Send` is `Deliver`, all else stutters.

### Auth

A function of `auth.c` is one step: all its callers are on the httpd task. A
token is the number of the login that made it. The clock is in ticks,
`mono_now` in seconds. The sessions and hosts are arrays, scanned in the code's
order, with the code's sentinels: `lockout_until = 0` for "not locked", and
`oldest_time = 0` for "none yet", which would pass over a session of second 0. The
clock starts in second 1, as the server starts after WiFi. `wrong` and `used`
are history: what the client did, against which the tables are judged.

### Terminal

A request, a close callback, a frame and a flush are one step each. The steps of
a flush inside the ring are in `WsTxRing`; here a flush finds some set of ports in
the ring, and any send may fail. `Accept` and `CloseConn` are the server's sockets
(external). An inactive entry of the table is reset to `NoClient`: the code
leaves the old values, which nothing reads. Failed logins touch nothing read here
and are left to `Auth`. `pushed` and `relayed` are the tokens the last step sent
data to and took data from; `died` is when a token became invalid, `barred` the
last token older than the latest password change.

### UsbCdc

The callbacks of the USB host, `usb_event_task` and the httpd task interleave. A
step of the event task is what lies between its waits and what it shares: taking
an event, `open_device` and the reading of the rate, the line coding, each
critical section of `s_cdc_mutex`, the update of `available`. `usb_cdc_send` holds
the mutex over two steps, `usb_cdc_set_baud_rate` writes the rate in one and
applies it in the next. A device gets a number when it is plugged in, which is its
handle, too. The driver (external) reports each connect and, to the owner of an
open handle, each disconnect; the port is a root port with one device at a time,
and no order is assumed between freeing one handle and the next device's connect.
`open_device` goes by vendor and product: it may find the device that is there
instead of the one the event was about, or fail. `lost`, `unserved`, `untuned`
and `late` are history: what was dropped, could not be opened, refused a
rate, or was opened during a rate change. Texts to the browsers are chunks in the
ring; a received byte is a producer there.

### Wifi

Three tasks without a lock: `EventTask` is `event_handler`, `TimerTask` the
reconnect watchdog, `Httpd` the requests. A step is one call of the driver or one
write of state that another task looks at, so the two halves of "set the driver's
mode, then `s_status.mode`" can be separated by another task's. `wifi` is the
driver (external): mode, started, configurations, link; `evq` is what it has posted.
A call in the wrong state fails and changes nothing. In the right state it succeeds
unless the code looks at its result: `CallFails` is a mode, a station configuration or
a start that fails, which ends the request and leaves a stopped driver stopped, and
`ApRefused` an access point configuration the driver does not take. The latter is in
reach of a client: the handler sets no upper bound on the password (`web_server.c`
828). `wifi_manager_update_ap` stores the configuration before it offers it, so a
refused one stays stored, and the request ends with an error (`UpdateAp`; a save that
fails ends the same way). That also holds in station mode, where the driver takes no
access point configuration: the new one is stored and goes on air at the next
fallback. The other callers of `start_ap` ignore its result; after such a boot the
access point has the driver's own configuration, written 0. A failing
`esp_wifi_connect` in the right state (389) is left out. `Network` is what the network
does to the link. A stored network is none, usable, or longer than the driver takes. A
request (`Request`) comes over an interface that is up, at any time; after its answer
the next one finds the events of the last one handled (`NextRequest`): a round trip
over TLS is longer than a handler on the higher-priority event task. Changing the
access point and another change may be one request. `wifi_manager_init` waits for a
connection or 15 seconds at its end; the model starts there, with the server of
`Device` taken to be up. The access point's other parameters, addresses, host name and
mDNS are left out. `left`, `raced`, `crossed` and `refused` are history; `refused`
says that the access point on air is not the one it was last offered, because the
driver or, before it, the flash would not take that one.

### Store

`s_config` is the copy in memory, `flash` the keys of namespace "webterm". A setter
changes the copy and starts `save_to_nvs`; `Write` is one `nvs_set_*`, in
`SaveOrder`; `WriteFails` one whose error nobody looks at; `Reset` may come between any
two, and `config_init` (`Loaded`) follows. A request is the set of its fields, `todo`
those it still has to go through in `FieldOrder`; `PassOver`, `Refuse` and
`Set`/`SetAuth` are what can become of one, `Commit` ends its save and may answer with
the error of the WiFi call after it. A hash is what was hashed: password, salt and
version, hence equal only if all agree. Values that no property looks into are the
number of the request that set them; the baud rates are one key. `prev` and `next` are
the password before and after the request, `torn` says that a reset or an error hit the
credentials. A failing commit, the erasing of NVS after a version change, and lack of
memory are left out. Requests passed the session check; `Locked` is the setup lock.

### Device and Relay

`main` is where `app_main` is, `BootOrder` its order. A step that ends in
`ESP_ERROR_CHECK` may fail only in an image that is bad (`ImageAborts`). The bootloader
(external) tries a new image once and gives up one found still pending. `image`, `ota`
and `boot` are the two partitions and otadata. The USB library task runs beside
`app_main`; `board` says whether `usb_host_install` works, is slower than the five
seconds of `usb_cdc_start`, or returns an error. A slow one notifies a main task that
may have ended: `LibInstalls` where that is harmless, `LibInstallsTooLate` where it is
not. A task function that returns aborts the device (`LibFails`). Requests are `req`, one
at a time, after the session and setup checks: an upload read by read with its timeouts
in a row, a download, a restart after its delay, the two writes of a TLS pair, the pulse
of the reset line. `Serving` asks for a pair that matches: with another one no client
can connect. `PowerCut`, a failed write or a task that is not created is a fault, of
which there are `MaxFaults`. The embedded pair is the same in all images. The release's
JSON and `semver_compare` are the choice whether `GithubBegin` happens; the checks of a
TLS upload are what makes its pair match.

`Relay` has the relay and the reset line with the clock they go by; `RelayReset` is what
a reset does to them. `moved` is history: when a request moved the relay in this boot.

## Runs

| run | instance | shows |
|---|---|---|
| `ws_tx_ring` | 2 producers, 2 slots, modulus 4, 2 payloads of up to 2 chunks, fair | `TypeOK`, `OneWakeup`, `NoLostWakeup`, `RefinesFifo`, `EnqueuedIsSent` |
| `auth` | 2 sessions, 3 logins, 2 counters, 3 addresses, limit 2, 5 seconds | `AuthTypeOK`, `AbandonedExpires`, `LruEviction`, `NoInheritedLockout`, `LockoutHonoured` |
| `terminal` | 3 sockets and entries, 3 connections, 1 session slot, 2 logins, half-second ticks | `TypeOK`, `ClientOwnsSocket`, `RevokedWithinRecheck`, `KeystrokesNeedSession`, `PasswordCutsAll` |
| `usb_cdc` | 3 devices in turn, queue of 2, 2 rates, fair | `TypeOK`, `WriteHasHandle`, `NoHandleLeak`, `GoneIsReported`, `NeverClosesLive`, `AvailableIsOpen`, `RateUnlessRaced`, `GoneIsClosed`, `PluggedIsServed` |
| `wifi` | 1 retry, 2 access point configurations, 2 events waiting, 4 requests, fair | `TypeOK`, `NeverForgotten`, `ApIsCurrent`, `LeftMeansAp`, `FallbackComes`, `StatusCatchesUp` |
| `store` | 2 passwords, 11 sets of fields, 2 requests, 2 faults | `TypeOK`, `DefaultRetired`, `PasswordKnown`, `SavedSurvives`, `ErrorKeepsPassword` |
| `device` | uploads of up to 2 reads, cut after 2 timeouts, interval of 2 ticks in 3, 3 kinds of board, 2 faults, fair | `TypeOK`, `Bootable`, `ServedPairMatches`, `RelayInterval`, `ServesAgain` |
| `usb_cdc_rate` | 1 device, 2 rates | **violated**: `RateTakesEffect` |
| `terminal_idle` | 2 sockets | **violated**: `AbandonedExpires` |
| `terminal_grace` | 2 sockets | **violated**: `RevocationImmediate` |
| `wifi_race` | 1 retry, 1 request | **violated**: `DisconnectMeansAp` |
| `boot_usb` | a board whose USB host returns an error, fair | **violated**: `UsbIsOptional` |

Why the bounds are enough. In a ring of two that holds a chunk, a payload of two is
cut inside; with modulus 4 both indices wrap; two producers are enough for
one to rely on a wake-up another has taken on, and the proofs hold for any number.
Three logins in two session slots give reuse,
expiry and eviction; two counters for three addresses give recycling, also with
every counter locked. Five seconds span a timeout of two, twice. Three connections
over three sockets give reuse of a socket number beside an open terminal. Three
devices over a queue of two let the queue overflow before a
disconnect, and a connect that is out of date open a later device; the proofs
hold for any queue and number. One retry tells a first failure from the last; two events
are an address and the loss of it waiting at once; four requests are a connect, a change
of the access point, a disconnect and a scan in any order, and a fifth (tried) changes no
result. Two requests and two faults let the second save make good, or not, what the
first one lost, also after a reset; each field occurs alone, and two sets have fields on
both sides of a refusal. Two timeouts of the five are one that may be followed by data
and one that may not; two reads are one in mid-upload and the last; two power cuts
interrupt an update and its trial, and the number of updates is not bounded.

The requests, devices and events of most instances run out, and a device with a torn TLS
pair that nobody restarts stops, so deadlock is not checked.

`ApIsCurrent` leaves out two cases, both real: a configuration that was changed while a
fallback was putting up the one it had read before (`crossed`), and one that was refused
(`refused`), where the stored configuration and the one on air differ until another is
taken. No document says what holds then.

The five violations are disagreements of documents and code:

- **an abandoned terminal does not expire** (`terminal_idle`). The README and a
  comment in `auth.c` say an abandoned session still expires. The push path checks
  the session of each open terminal with `auth_validate_session`, which slides it,
  so serial output alone keeps a session alive. Within `Auth`, without terminals,
  the property holds.
- **a logout is not immediate** (`terminal_grace`). The README says a logout or an
  idle timeout cuts the stream immediately. It does so at the next check, which is
  throttled to one per second; `RevokedWithinRecheck` is what holds, and
  `PasswordCutsAll` for the one path that does cut at once.
- **a new baud rate may not reach the adapter** (`usb_cdc_rate`). The README says it
  takes effect immediately. A change that falls between the event task's reading of
  the rate and its storing of the handle finds no device and returns success, and
  the adapter keeps the older rate. `RateUnlessRaced` shows that, an adapter that
  refuses a rate aside, this is the only way.
- **a disconnect may leave no access point** (`wifi_race`). The README says it returns
  to AP mode. The got-IP handler looks at the mode and sets station mode afterwards; a
  disconnect request that comes between is answered ok, and the device ends as a
  station, joining the network it was told to leave. `LeftMeansAp` shows that only such
  an overlap has this effect.
- **an S3 that cannot install its USB host does not boot** (`boot_usb`). Comments in
  `serial_port.c` and `usb_cdc_bridge.c` say it does, with the UART. `usb_lib_task`
  returns from its task function on the error, which aborts: the device restarts in
  every boot before the server is up. An install that hangs is survived, and
  `ServesAgain` shows that all other boards come to serve.

## Fairness

`ws_tx_ring` assumes weak fairness of each producer's steps inside
`ws_enqueue`, which never waits, and of the httpd task's steps, which returns to its
queue after every request (its receives and sends have timeouts). Nothing makes a
producer broadcast. `httpd_queue_work` may fail any number of times; the property
excepts a chunk whose wake-up was refused, which the next broadcast picks up.

`usb_cdc` assumes weak fairness of the end of a write, which has a timeout, and
of the second half of a rate change; and strong fairness of the event task. Weak
is not enough (TLC shows it): one write after the other could hold the mutex
whenever the event task looks. FreeRTOS gives a mutex that is released to the
highest-priority waiter, and the event task (10) is above the httpd task (5, the
server's default).

`wifi` assumes weak fairness of the event, timer and httpd tasks, none of which waits
for another here, and that the driver reports how a connection attempt ended. The
network need not come back, and a link that has joined need not get an address.

`device` assumes weak fairness of `app_main`, of a bad image to abort (a panic, an
`ESP_ERROR_CHECK` or a watchdog), of a USB library that is not slow to install or
return, and of a request that was begun: a read returns with data, an error or a
timeout, and delays end. Nothing makes a client send a request or a read time out; an
upload may be fed at any pace, but not beyond its length.

## Proofs

`WsTxRingProofs`, for every set of producers, number of slots, modulus that is a
multiple of it, number and length of payloads:

- `TypeCorrect`: `Spec => []TypeOK`. `TypeOK` is not inductive: `sent` holds
  chunks only if `Pop` never reads an empty slot, and `next` stays in range only
  with the producer's position in its payload. `RingInv` adds `ProducerInv`
  (`next` is at most `last` inside `ws_enqueue`), `Used <= Slots`, and `Filled`
  (the slots from tail to head hold chunks). What it needs of arithmetic, that
  slots less than a lap apart differ also across the wrap of the index, follows
  from `ModulusAssumption` in the lemmas `Division*`, `Slot*`, `Used*`.
- `WakeupIsUnique`: `Spec => []OneWakeup`, which is inductive with `TypeOK`.
- `NothingStranded`: `Spec => []NoLostWakeup`. It is not inductive alone:
  a producer that finds the flag set relies on `OneWakeup` for somebody to be on
  the way.

`WsTxRingRefinement`, for the same constants:

- `RingIsFifo`: `Spec => RefinesFifo`. The line is the stack copy followed by the
  occupied slots. `Enqueue` appends because the head's slot is none of them
  (`SlotsDiffer`), `Pop` moves the first slot into the copy, `Send` delivers it.
  That a producer's payloads stay in order in `SerialFifo` needs `StreamInv`: what
  a producer has in the path lies behind its place in its stream, and a
  chunk that is let in follows the one before it.

`AuthProofs`, for any numbers of sessions, counters, addresses and logins, any limit and
timeouts (positive where the code's are), over `AuthSpec`:

- `SessionsExpire`: `[]AbandonedExpires`. `UsedInv` says that an open session was last
  looked at when its client last used it. It needs `SlotInv`: a token is in one slot only,
  was drawn, and an open slot was not last used in second 0.
- `OldestEvicted`: `LruEviction`. By `SlotInv` the scan passes over no live session, so
  `LoginSlotIs` gives the slot of a login: one that is not live, or the least recently
  used. `UsedInv` turns its time into the client's.
- `LockoutIsOwn` and `LockoutRuns`: `[]NoInheritedLockout` and `LockoutHonoured`, from
  `HostsOK`: one counter for an address, none beyond the address's own wrong passwords
  in a row, each locked exactly when it is at the limit. That is a statement about a table,
  not a state, so that it can be carried through the three things `LoginWrong` does to the
  table (`ForgivenKeeps`, `ClaimedKeeps`, `FailedKeeps`).
- `AuthTypeCorrect`: `[]AuthTypeOK`; a counter stays within its limit because an address at
  the limit is refused or forgiven before it is counted again.

The tables are searched for their least element. That there is one is `Least`: not by
induction, but because the subsets of a set of numbers that end at one of them are
finite, and inclusion of finite sets is well-founded.

`TerminalProofs`, for the same constants and any sockets, ports, numbers of entries and
connections, and recheck interval. One inductive invariant, `TermInv`:

- `SocketsOwned`: `[]ClientOwnsSocket`, which with the types is inductive (`SocketInv`):
  a closing socket takes its one client along (`RemovedIs`), and a handshake is on a
  socket that has none.
- `RevocationBites`, `TypingNeedsSession`, `PasswordChangeCuts`:
  `[]RevokedWithinRecheck`, `[]KeystrokesNeedSession`, `[]PasswordCutsAll`. They speak of
  the last step; what makes the next step right is `SessionInv`: an active client's token is
  younger than the password change, and is valid or died no earlier than the client was
  last checked. `Moves`, which each operation of `auth.c` satisfies, says that no session
  comes back to life; with it `DiedInv` (a token has a time of death exactly when it was
  drawn and is not valid) and `BarredInv` (no token from before the password change is
  valid) are kept. `UsedInv` is not part of it: a flush slides sessions nobody uses, which
  is the violation of `terminal_idle`.
- `TerminalTypeCorrect`: `[]TypeOK`.

`StoreProofs`, for any passwords, sets of fields, requests and faults:

- `DefaultIsRetired`, `PasswordIsKnown`, `ErrorIsHarmless`, `SavesSurvive`:
  `DefaultRetired`, `PasswordKnown`, `ErrorKeepsPassword` and `SavedSurvives`, from one
  inductive invariant. `SaveInv` says that a key that was written and not lost is the same
  in flash and in memory; `SetupInv` that a device not set up has nothing but a password
  to set, and that flash does not count it as set up before memory does; `RequestInv` whose
  password memory has where the request is; `FlashInv` what a reset would find: all of the
  old credentials until the first of them is written (place 8 of `SaveOrder`), and all of
  the new ones after the save, or a torn state. It needs the order of the keys and that the
  password is the last field (`Order`, `PasswordLast`).
- `TypeCorrect`: `[]TypeOK`.

`WifiProofs`, for any numbers of retries, configurations, events and requests, over `Spec`,
without fairness:

- `NetworkNeverForgotten`: `[]NeverForgotten`. `RetryInv` lists who is coming for a
  network that is out of reach: the watchdog, its retry, the fallback, a start or a
  disconnect in the queue, a request that is connecting or scanning. A got-IP event that
  stops the watchdog is no danger by `LostInv`: if the link is down again, its disconnect is
  behind the address in the queue.
- `ApStaysCurrent`: `[]ApIsCurrent`. `ApInv` says who is about to set an access point
  that is not the stored one, unless it was refused, and that the copy the fallback took
  is the stored one.
- `LeavingMeansAp`: `[]LeftMeansAp`. `LeftInv` follows a disconnect request through its
  steps; `ModeInv` says that without a network to join a driver that runs is in AP mode or
  about to be stopped, `StoppedInv` that nothing starts one a request has stopped.
- `TypeCorrect`: `[]TypeOK`.

`UsbCdcProofs`, for any queue length, rates and number of devices:

- `WritesAreSafe`, `HandlesAreKept`, `OnlyGoneIsClosed`: `WriteHasHandle`,
  `NoHandleLeak` and `NeverClosesLive`, from one inductive invariant `IInv`, with
  `TypeCorrect`. `HandleInv` says whose the open handle is in each place of the event task,
  and that a write holds on to `s_cdc_dev`. `DisconnectInv` says that at most one
  disconnect is under way, that it is the open handle's, and that its device is
  gone: without it a second disconnect could close the next device.
- `AvailableIsTrue`: `[]AvailableIsOpen`; `AvailableInv` adds where `available` lags.
- `GoneReported`: `[]GoneIsReported`, inductive over `IInv`: a disconnect that waits stays
  in the queue whatever is posted behind or taken before it.
- `RateTaken`: `[]RateUnlessRaced`; `RateInv` adds that the rate read for a device that is
  being opened is still the configured one unless the device is in `late`.

`DeviceProofs`, for any boards, relay interval, and numbers of reads, timeouts, faults
and ticks:

- `TypeCorrect`: `Spec => []TypeOK`. It needs `UsbInv`: the event task, which
  exists only over an installed library, is started after the wait for that library.
- `AlwaysBootable`: `Spec => []Bootable`. `BootInv` adds what the bootloader and the
  handlers rely on: while an image is on trial the other one was confirmed or is the
  factory's and works; the running image is the one to boot unless an update waits for
  its restart; `esp_ota_begin` is refused while it is unconfirmed, so that an update never
  erases the way back; and only an image whose server runs is confirmed.
- `PairsMatch`: `Spec => []ServedPairMatches`. `PairInv` says that flash holds a pair that
  does not match only between the two writes or after a fault that fell there, and
  that the pair in memory is the one served: a later upload that completes takes
  the mark away, and must not do so under a server that still has the torn pair.
- `RelayKeepsInterval`: `Spec => RelayInterval`, from `last_power_toggle = moved`
  in `ServerInv`: only requests move the relay once the server runs.

All safety properties and action properties of the passing runs are proved. Only
model-checked: `EnqueuedIsSent`, `GoneIsClosed`, `PluggedIsServed`, `FallbackComes`,
`StatusCatchesUp` and `ServesAgain`, since liveness under fairness is out of the prover's
reach, and the five violations, which are counterexamples. The inductive invariants were
checked by TLC on instances like those of the runs before they were proved.

The assumptions on constants are those named in the modules and evaluated by every run.
They are what the code's constants satisfy (`TimeoutS` may be 0, `LockoutS` and `MaxFailed`
may not; a modulus is a multiple of the slots; port 0 exists), and that the models' own
markers (`NoAddr`, `Absent`) are told apart from values.

## Not modelled

- The browser client (`frontend/index.html`): its sockets and timers are a program of
  their own in the browser's event loop; the requests it makes are those of `Terminal`.
- `frontend/terminal.js`, the styles, `tools/`, `certs/`: presentation, and one-shot
  programs of a developer's machine. The host tests were read as statements of intent.
- Handlers that only read (GET /api/config, /api/sysinfo, /api/ota/check, /api/token),
  the static routes, headers and the parsing of bodies: no state.
- NTP: it sets the wall clock, which no decision of the code goes by.
- `uart_send` and the rate of the UART: one call of the driver each.
- Fast producers that keep the drain loop busy (`web_server.c` 338), a call that
  fails and leaves WiFi stopped (`wifi_manager.c` 376; the model has the step)
  and a network that gives no address (65): the code does not say what holds then, so
  there is nothing to check; `PROJECT.json` has them under `hazards`.

## Plan

1. The client table as a gate between sessions and the serial line, stated as an abstract
   specification, and the proof that `Terminal` implements it. `Store` has no such
   abstraction as one atomic password: on a device whose hash was written by the old
   firmware (no `hash_ver`), a save that fails to write `hash_ver`, followed by one that
   writes only `hash_ver`, leaves the earlier password in flash. Three writes must fail for
   it; `PasswordKnown` makes an exception of such saves.
2. The comparison of versions (`semver_compare`) against a reference order.
