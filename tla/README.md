# platform-nordicnrf52 in TLA+

This directory specifies and verifies the parts of platform-nordicnrf52 that
have behaviour of their own: the upload logic of `builder/main.py`, and the
example programs that a user of the platform starts from. Each module names the
code it models; `PROJECT.json` maps every definition to its lines.

Run a model with `tlc -config X.cfg M`, check a proof with `tlapm M.tla`.

## 1. Inventory

The platform is a PlatformIO package. It has one program of some size, the SCons
script `builder/main.py`, board manifests that are data, and twelve example
projects that are firmware and run on their own.

### Serial upload (`builder/main.py` 24-125, 298-342)

- State: the USB bus with its boards (outside), and for each invocation of
  `pio run` its `env["UPLOAD_PORT"]`, the serial number it remembers, and the
  start time of its wait.
- Operations: find the board at `UPLOAD_PORT`; return at once if there is none
  or if it is in its bootloader; flush and touch the port at 1200 baud; poll the
  port list until a bootloader with the same serial number shows up or ten
  seconds are over; run the upload tool on `UPLOAD_PORT`.
- Interaction: only by reading the port list and by opening a port *by name*. The
  name is looked up in one step and used in a later one.
- Hard: boards leave, come back under other names and change mode between any
  two steps; other invocations reset and flash boards at the same time; a
  timeout is not reported.
- Correct means: the image and the touch reach the board the user selected, the
  port variable follows that board and no other, the wait ends, success means
  that something was written.

### Flash targets (`builder/main.py` 252-366)

- State: the construction environment, one object for all targets.
- Operations: each target's action stores its tool, runner, flags and command
  line in the environment, then runs `$UPLOADCMD`, which is expanded then. The serial
  targets first reset the board and store the port it comes back at.
- Hard: two steps on shared variables, and SCons runs jobs in parallel; what a target
  stores stays there for the next one.
- Correct means: a target executes its own command, on the user's port or one that a
  board was found at.

### Build pipeline (`builder/main.py` 128-249)

- State: `.hex`, `.uf2` and `.zip` files in the build directory, and the Zephyr
  `.config` the UF2 family is read from.
- Operations: the West build, the packages for UF2 and the two DFU bootloaders.
- Hard: what is rebuilt after a change or a failed step; `get_zephyr_config` is a
  dependency SCons does not know of.
- Correct means: what is uploaded was built from the current program and options.

### Echo client (`examples/zephyr-net-echo-client`)

- State: per protocol a socket, the awaited length `expecting`, the delayed work
  `recv`; global `connected`, `run_app`, `fds`/`nfds`.
- Operations: `start_client` waits for the semaphore, opens sockets, sends, polls
  and compares; `wait_reply` sends anew after ten seconds without an echo;
  `event_handler` follows the link.
- Interaction: three threads (main, system work queue, network management) share
  all of it without a lock; the network loses, delays, duplicates, reorders.
- Hard: the echo, its cancel and the running handler; a handler that outlives
  `stop_udp`; connect and disconnect while main is anywhere, the wait for the semaphore
  included, which both of them end; failing calls.
- Correct means: while it waits, some timer is armed; when it has stopped nothing
  of it is left running; no connect is forgotten; connected, it goes on for ever.

### NVS sample (`examples/zephyr-subsys-nvs`)

- State: five items in flash, a counter in RAM.
- Operations: look up or add each item, delete one at a given count, count up and
  reboot, or end the test.
- Hard: power can go between any two steps; no result of a write is looked at.
- Correct means: the items agree with the stored counter at every moment, the
  counter counts, the test ends.

### NFC smart poster (`examples/mbed-rtos-nfc`)

- State: the held remote initiator; in the controller the delegate, the discovery and
  the events not told yet. A smart poster's fields.
- Operations: `main` initialises and starts a discovery; callbacks tell of the end of
  a discovery, of a peer, of its disconnect, and ask for a message.
- Hard: the end of a discovery and the peer it found are told separately; three places
  start a discovery and none looks at the result; the size of the message is announced
  by other functions than those that write it.
- Correct means: the peer that is connected is the one held, there is no discovery
  meanwhile and one again after it, the records fill exactly the announced size.

### Serial plotter (`examples/arduino-serial-plotter`)

- State: `sampleBuffer` and the volatile `samplesRead`, both shared with an interrupt.
- Operations: `loop()` waits for a count, prints that many samples and clears the
  count; `onPDMdata` refills the buffer from its front and sets the count.
- Hard: the interrupt comes between any two looks of the loop, with batches of any
  size, and never waits for the loop.
- Correct means: no older sample after a newer one, a batch that found the loop waiting
  and was not overrun is printed whole, the loop gets through.

### BLE battery (`examples/mbed-rtos-ble-battery`)

- State: the event queue (16 events), the level, the advertising data under
  construction and the data that is advertised.
- Operations: the library's hook puts a call of `processEvents` in the queue, from any
  context; one of these calls starts the advertising and the periodic update; the update
  decrements the level, wraps it, and sets the new data.
- Hard: a full queue drops calls silently; each BLE call may fail half way.
- Correct means: BLE events are processed, the level shown is the current one unless an
  update failed, and goes from 100 to 10 over and over.

### bleuart (`examples/arduino-bluefruit-bleuart`)

- State: in the libraries, two receive FIFOs and the connection; in `loop()`, a buffer.
- Operations: read what is typed in chunks and write it to the central; read from the
  central and write to the host byte by byte; advertise, again after each disconnect.
- Hard: two inner loops in one thread, input and connections at any time, results of
  writes dropped.
- Correct means: either direction keeps the order and repeats nothing; each is served
  when the other is quiet; a central can always connect.

### The other examples and scripts

| Component | State and operations | Hard | Correct means |
| --- | --- | --- | --- |
| NINA-B1, BLE LED | characteristics, pins, two tickers | none: one polling thread | the pins follow the characteristics |
| BLE beacon, blink | none | none | - |
| `scripts/vid_dump.py` | none, prints a table | a header without VID | every PID under its VID |
| `platform.py`, `frameworks/zephyr.py` | none | none | - |
| boards, SVD, configuration | data | - | - |

## 2. Modules

| Module | Models | Proofs |
| --- | --- | --- |
| `SerialUpload`, `MCSerialUpload` | serial upload | `SerialUploadProofs` |
| `UploadContract` | what an upload target promises; implemented by `SerialUpload` | `SerialUploadProofs` |
| `FlashTargets` | flash targets | `FlashTargetsProofs` |
| `EchoClient`, `MCEchoClient` | echo client | `EchoClientProofs` |
| `NvsSample` | NVS sample | `NvsSampleProofs` |
| `SmartPoster`, `NfcProcess`, `MCNfcProcess` | NFC smart poster | `NfcProcessProofs` |
| `SerialPlotter` | serial plotter | `SerialPlotterProofs` |
| `BleBattery` | BLE battery | `BleBatteryProofs` |
| `BleUart` | bleuart | `BleUartProofs` |
| `LossyFifo` | what a direction of a byte bridge promises; implemented twice by `BleUart` | |

Names of actions follow the function or the branch they model. History variables,
which no action reads, are declared last and marked. Definitions that begin with
"Mutant of" are faulty variants of the definition that follows them; nothing
uses them, they are substituted for it to see that a property notices.

### SerialUpload

A *session* is one invocation with an environment of its own. `pc[s]` walks
through `reset` (the first port scan), `flush`, `touch`, `poll`, `upload`, `done`.
A scan of the port list with the `env.Replace` after it is one step, since the
code sees the bus through nothing else; flushing, touching, each poll and the
transfer are steps of their own. The bus is `at` (board to port), `mode` (`app` or
`boot`) and two actions nobody controls: `Reenumerate` brings a board that is off
the bus to *any* free port, `Depart` unplugs or resets a board. `HwidOf` says what
a board shows in each mode; its serial number may be missing, and then
`get_serial_port_info` returns three `None`s and no table matches. Time is counted
in polls, and a poll may take as long as the rest of the timeout.

- `WrongBoardHasACause`: the image reaches a board that was not selected only if
  the port was empty at the look, the ten seconds ran out, or someone took the
  board away after it was found.
- `TouchHitsSelected`: the same for the 1200 baud touch.
- `PortFollowsBoard` (action property): `UPLOAD_PORT` changes only to the port at
  which the selected board is at that moment.
- `EveryRunEnds` (liveness): an invocation ends.
- `UploadsAsPromised` (refinement): the module implements `UploadContract`, which knows
  no ports, modes or polls. There a session *chooses* a board, *finishes* with at most
  one board programmed, the chosen one unless it is *excused*, and a success of a
  reporting session means that one was; in between, anything may excuse sessions that
  have not ended. The mapping: requested is `reset`, ended is `done`, chosen is all
  between; the excuses are an empty port, a timeout, and a board taken away; reporting
  are the sessions of the nordic target. The adafruit target cannot be among them.
- `SuccessIsAFlash`: refuted, see below.

### FlashTargets

`env` is the shared environment, reduced to the variables that more than one target
reads or replaces: the command line and its parts, `UPLOAD_PORT` and `UPLOAD_SPEED`
(`ENV` is the same for both SWD targets). A target is `waiting`, in its `reset`
(before the port is looked up) or `touch` (before the reset ends), at its `replace`
step, at its `run` step, or done. SCons' scheduler is `Start`: at most `Jobs` targets at
a time and none after a failure. The keyword arguments of one `env.Replace` are stored
in one step: splitting them would only add ways to fail, and what is false is false
already.

`UPLOAD_PORT` is `"user"` or the name of the serial target whose reset found its board
elsewhere; what a reset does on the bus is `SerialUpload`'s. A reset ends without a
store (no device, or ten seconds are over), with a store of the port it had looked up
(the board is in its bootloader already: `current` is the local of the code, and may
be older than what another reset stored meanwhile), or with a store of the new port.
`flash_serial_nordic` runs on the port right after that; the adafruit action replaces
the command and ends, for its command is never run.

- `WrongCommandHasACause`: a target runs with another one's tool, runner or flags only
  if that one replaced them between the two steps. What ran earlier, and failed or
  not, does not matter for these: each target sets every one its command needs (but
  `UPLOADERFLAGS` of the SWD targets, which belongs to the user). `flash_serial_nordic`
  programs a port other than the one its own reset stored only if another reset
  stored one in between. The flags of `flash_uf2` name a port too, and that one is
  whatever is in the environment:
- `ForeignPortHasACause`: a command is given a port other than the user's only if some
  reset of the same invocation stored that port. So `flash_uf2` after a serial target is
  run on the port that one's board came back at, and a serial target whose own reset
  fails on the port of another.
- `ForeignFlagsHaveACause`: `upload_swd` uses `$UPLOADERFLAGS` and does not set it. `west`
  gets flags other than the user's only after a target that stores its own.

That a target runs the command of its title, without the cause, is false with two jobs.
With one job it holds for the tool, the runner, the flags, and the port of
`flash_serial_nordic`: that is the theorem `OneJobIsSafe`. Foreign flags of an SWD target
and a foreign port of `flash_uf2` need one job only.

### EchoClient

The main thread's `pc` has a value for each place where the others can come in
between: before `k_sem_take`, between drawing a length, sending it and arming the
timer, before each `recv`, between a match and its cancel, between a cancel and its
close. The system work queue runs one handler at a time, itself split into draw,
send and arm; `TimerExpires` moves an item from the timer to the queue.
`k_work_cancel_delayable` takes an item out of timer and queue, but does not wait
for a running handler. The network is a set of lengths per socket: a packet may
be lost, delayed, reordered with others, or echoed several times.
`k_work_init_delayable` on an item in use is undefined behaviour: the model lets the
item forget its timer and queue entry, or keep them. Every socket call may fail, up
to `MaxErrors` times; a failing `send` in the handler is the same as a lost packet.
A packet is its length, since that is all `compare_udp_data` can tell apart when the
peer echoes what it got. The random draw is one step that yields any acceptable
length; the values it rejects in between are not visible to anything but a
comparison that then drops an echo, which the network can do as well. Where there is
none, because the MTU is still 0, main stays at the draw until a connect sets it (in a
build where the handler cannot interrupt that loop, it stays there for good).

`event_handler` sets the flag and then touches the semaphore, in two steps, so that
main may look at the flag in between; a build in which the handler is not interrupted
has fewer orders. What the connection manager tells it is `LinkIs`: the changes of the
link, up and down in turn, and once more how the link is, for `init_app` asks for that
with `net_conn_mgr_resend_status`. The first event can therefore be a disconnect.
A `k_sem_take` that finds no semaphore is `pending`. `k_sem_give` hands the semaphore to
it, and `k_sem_reset` ends it as well, with `-EAGAIN`, which line 285 does not look
at: the client is started without a link. It opens its sockets, sends, and stops at
the first look at `connected`, or goes on if a connect has come by then, whose semaphore
is kept and starts the client once more when it has stopped, unless a disconnect
resets it. `poll` may fail without a consequence but a round that
counts (`PollFails`).

- `SomeoneWillSend`: while main waits in `poll`, each protocol has its timer
  running, its item queued or its handler running.
- `QuietWhileStopped`: when the client has stopped, no timer, entry or handler is
  left, but of a handler that was running when it was cancelled.
- `NoConnectForgotten`: main is not blocked in `k_sem_take` while the link is up and the
  handler is through, unless a call failed since the last connect. Connects, disconnects,
  the waits they end and the rounds in between come in any order, and the semaphore
  holds at most one connect.
- `KeepsSending` (liveness): if the link stays up and no call failed since the last
  connect event, every protocol sends again and again, however it was started.
- `WaitsWithinFds`: refuted.

### NvsSample

`stored` and `counter` are the flash, `pc`, `mounted` and `reboot_counter` one boot.
A lookup with the write that may follow it is one step: nothing lies between them
that power loss could separate, since a read changes nothing. `Crash` starts a new
boot from any step. Each NVS call is atomic, which is what the NVS file system
promises, and may fail.

- `StringFollowsCounter`: the string is in flash while the stored counter is between
  1 and `DELETE_AT` - 1 and not when it is above `DELETE_AT`. Breaking it takes
  a particular order of writes and a power loss in the right boot.
- `CounterSteps` (action property): the stored counter goes up by one, from
  `MAX_REBOOT` to 0, or appears as 0; power losses never repeat or skip a count.
- `TestEnds` (liveness): with finitely many power losses the program reaches its end.

### SmartPoster and NfcProcess

`SmartPoster` holds the operators of `SmartPoster.cpp`: the six sizes, the six appends
over a buffer of the announced size, and the record as a whole. `RecordSize` is a
constant, so nothing depends on the layout of a record, and a field is its length. A
poster may have any of the fields, although `main.cpp` sets only three.

`NfcProcess` has one action per callback, atomic because all of them run on one event
queue, and two actions of the radio: `Find` ends a discovery with a peer, `Abort` without
one. What they leave to be told, `found` and `terminated`, is dispatched in any order. The
controller is external; it is assumed to report a peer only out of a discovery and to
stop discovering then. `start_discovery` and `connect` may fail, `MaxErrors` times.

- `HeldWhileConnected`: whoever is connected is the initiator that is held, so
  `on_disconnected` never dereferences NULL and never releases another peer.
- `OnePeerAtATime`: no discovery goes on and no further peer is pending while one is
  connected.
- `MessageDescribesPoster`: a message is empty or has every field once, the URI last,
  and fills its announced size.
- `KeepsListening` (liveness): unless a call fails, the process always comes back to
  discovering or to a peer. With a failing call it does not: nothing tries again.

### SerialPlotter

`pc` walks through `wait` (the test at line 44), `check` (the condition of the for loop),
`print` and `clear`; each looks once at what the interrupt writes. `onPDMdata` is one
step, for the loop cannot interrupt it, and may come at each `pc` after `setup`. Samples
have no values: the first `latest` places of the buffer hold the latest batch, the
others something older. That keeps the module finite with interrupts without end.

- `PrintsTheRest`: when the loop is through, the printed indexes of the latest batch are
  exactly those that lay ahead of the loop's index when it arrived. A batch that found
  the loop waiting is printed whole; one that came between the last test and the clear
  is lost whole. That is the race of lines 47 and 52, with its exact extent.
- `NeverGoesBack` (action property): after a sample of the latest batch no older one is
  printed, although a short batch leaves older samples behind it in the buffer. It
  holds because the for loop reads the volatile count in every round.
- `AlwaysCatchesUp` (liveness): the loop gets back to a count of 0 again and again.

### BleBattery

`queued` counts the calls of `processEvents` in the queue, `running` says that one is being
executed, `periodic` is the entry of `call_every`. All three take up slots of the
queue, and a call that finds no slot free is dropped. The BLE library is external: it
calls the hook whenever it likes, or leaves it out while an earlier call has not been
answered. `on_init_complete`, `start_advertising` included, runs within a `processEvents`.
Each BLE call may fail, `MaxErrors` times in all. The level is a byte and is decremented
modulo 256.

- `PayloadShowsLevel`: the advertised data has its three fields, none of the scan
  response's, and shows the level of the last update that did not fail: the level and
  the one shown differ, in the circle of 91 values, by the updates that failed since.
- `PendingIsScheduled`: although the result of `event_queue.call` is dropped, there is a
  `processEvents` in the queue whenever the library has something to process. A full
  queue holds one as soon as it has three places, one for the running event and one for
  the update: `Capacity` is at least 3 by assumption (with 2 the property is false), and
  3 in the run.
- `EventsAreProcessed` (liveness): no BLE event waits for ever, however many there are.
- `KeepsDischarging` (liveness): once `call_every` was accepted, 100 and 10 are advertised
  again and again. If the library fills the queue before, `call_every` is dropped and
  the level never changes.

### BleUart

`pc` is at one of the tests of the two inner loops, or in `readBytes`, which takes typed
bytes one by one until the buffer is full or nothing comes for a second. `serial` and
`ble` are the libraries' receive FIFOs. `bleuart.write` sends a part of the chunk while a
central is connected, and nothing otherwise; `Serial.write` sends the byte or not. The
connection is the library's: `CentralConnects` and `CentralDisconnects` are its changes,
of which the program's two callbacks are told and only print text.

- `HostToCentralInOrder`, `CentralToHostInOrder` (refinement): each direction implements
  `LossyFifo`, where bytes enter at the end, leave from the front, and a prefix of those
  that leave together comes out. The bytes in flight are `buf` and then `serial`, or `ble`.
  Order is checked fully; a repeated byte is noticed only if something else came out in
  between, since the same output once more, at once, changes no variable.
- `EachSideIsServed` (liveness): bytes of the central are forwarded once nothing more is
  typed, even if the central never pauses, and the other way round. Without the
  condition it is false: a host that types without a pause keeps the first loop going.
- `AlwaysReachable`: a central is connected or the device advertises, which is what
  `restartOnDisconnect` is for.

## 3. Runs and bounds

| Run | Shows | Instance |
| --- | --- | --- |
| `serial_upload` | the three safety properties and `UploadsAsPromised` | 2 sessions, 2 boards, 3 ports, timeout 2 polls, 1 departure |
| `serial_upload_ends` | `EveryRunEnds` | both targets, 2 boards, one without serial number, that contend for 1 port |
| `serial_upload_report` | refutes `SuccessIsAFlash` | both targets |
| `flash_targets` | `WrongCommandHasACause`, `ForeignFlagsHaveACause`, `ForeignPortHasACause` | all five targets, 2 jobs, with and without an `UPLOAD_SPEED` |
| `echo_client` | safety | IPv6 and IPv4, 2 wake-ups, 3 events of the link, 1 failing call |
| `echo_client_live` | `KeepsSending` | IPv6, two lengths, 3 events of the link, 1 failing call |
| `echo_client_fds` | refutes `WaitsWithinFds` | IPv6, up to 10 events of the link, no failing call |
| `nvs_sample` | safety, `CounterSteps` and `TestEnds` | 5 reboots, deletion at 3, 3 power losses, 1 failure |
| `nfc_process` | safety and `KeepsListening` | 3 peers, 1 failing call, posters with every set of optional fields, 2 buffers |
| `serial_plotter` | safety, `NeverGoesBack`, `AlwaysCatchesUp` | buffer of 4, batches of 0, 1, 2 and 4, interrupts without end |
| `ble_battery` | safety (`PayloadShowsLevel`, `PendingIsScheduled`) and both liveness properties | queue of 3, 2 failing calls, BLE events without end |
| `ble_uart` | both refinements, `EachSideIsServed`, `AlwaysReachable` | 2 byte values, FIFOs of 3, buffer of 2, input without end |

Why the bounds are enough:

- *SerialUpload.* Mixing up two boards takes two boards; a second session is enough
  for "another invocation", and three ports let both boards move and leave one free.
  With a timeout of two polls a board can be missed once and found, or never found.
  Symmetry is used on ports and on sessions with the same target, in the safety run
  only. `SerialUploadProofs` removes all bounds for the safety properties.
- *EchoClient.* One length is enough for the timers, since a mismatch does what
  a lost packet does; the liveness run has two lengths, so that late echoes of an
  earlier packet do not match. Three events of the link, the resent one among them, give a
  disconnect under a waiting main thread before any connect, and a complete stop and
  restart with whatever the first round left behind. Two wake-ups let the safety run reach the
  exit; the liveness run has no such limit. The net is unbounded in time, a set of
  lengths otherwise: a second copy of the same packet is a redelivery.
- *NvsSample.* The code's 400 and 10 become 5 and 3: boots with the counter at 0,
  between 1 and the deletion, at it, past it, and at the end all occur. The proofs
  cover every pair of values and any number of power losses.
- *FlashTargets* has no bound but the number of jobs, and the proofs remove that.

- *NfcProcess.* Three peers give a disconnect with events of the previous discovery still
  pending, and a second one after it; lengths are on both sides of the one from which a
  record has a longer header, and one buffer is too short for most posters.
- *SerialPlotter.* Batches are shorter than, as long as and longer than what the loop has
  printed so far, and one is empty; nothing else of a size matters to the loop.
- *BleBattery.* The queue of the code has 16 places; the smallest one that is enough is
  the hardest case. The level runs through all its 91 values.
- *BleUart.* Two values tell a byte from its neighbour; a FIFO of three with a buffer of
  two gives full, partial and several chunks, and bytes typed while a chunk is read.

Deadlock is not checked, for the systems stop: sessions end, the SCons run ends,
the client exits or blocks on the semaphore (see section 4),
the test exits, no further peer comes, the microphone may not start.

### Fairness

- *SerialUpload*: weak fairness of each session's next step, for the interpreter
  goes on to the next line. Nothing is asked of the boards.
- *EchoClient*: weak fairness of the main thread, of the second half of
  `event_handler` and of the timers (the kernel runs what can run, time passes).
  Strong fairness of each item on the work queue: the queue is first come, first
  served, and an item that is queued, cancelled and queued anew, with the other
  protocol's handler in between, gets its turn. Nothing is asked of the network or
  of the link, and no `poll` has to fail.
- *NvsSample*: weak fairness of the program. Power losses are finite in number;
  with infinitely many no test could end.
- *NfcProcess*: weak fairness of `main` and of each pending callback, for
  `dispatch_forever` runs whatever is queued. No peer has to come or to leave, and a
  peer may stay for ever.
- *SerialPlotter*: weak fairness of `loop()`: an interrupt ends, and the processor goes on
  with the loop. Nothing is asked of the microphone.
- *BleBattery*: weak fairness of time and of the end of a `processEvents`; strong fairness
  of the start of one and of the update, because `dispatch_forever` takes what is due in
  the order of its time, so that later calls, however many, do not overtake.
- *BleUart*: weak fairness of `loop()`, whose calls return. Nothing is asked of the host,
  of the central, or of `setup()`, which waits for a host for as long as it takes.

## 4. What was found

| Run | Code | Against |
| --- | --- | --- |
| `serial_upload_report` | `builder/main.py:317`: the upload command of `flash_serial_adafruit` (also `upload`) is built as a keyword of `env.Replace` and never called: success, nothing written | title at :356, "Upload firmware" of the READMEs |
| `echo_client_fds` | `echo-client.c:115`: `nfds` is never reset, the array has four entries; every start adds some, whether a connect or a disconnect caused it | comment at :127 |

Noticed while modelling, and left without a run of their own:

- `builder/main.py:262`: two upload targets with `--jobs` share `UPLOADCMD` and its parts, so
  that one may run the command of the other, against the titles at :346, :349 and :351.
  `WrongCommandHasACause` says exactly when.
- `builder/main.py:265`: after `flash_uf2` in the same invocation `west flash` gets its flags
  `-D -d <port>`; see `ForeignFlagsHaveACause`.
- `builder/main.py:123`: the port that a reset stores stays in the environment, and
  `flash_uf2` in the same invocation is run on it; see `ForeignPortHasACause`.
- `echo-client.c:285`: the result of `k_sem_take` is dropped. A disconnect that finds main
  waiting starts the client without a link: sockets, a packet, `nfds`, and a stop. The
  comment at :284 says "Wait for the connection."
- `echo-client.c:285`: after a failing call the client waits for a connect event of a link
  that is up, against the help text at `Kconfig:58`, "run forever". This is why
  `KeepsSending` has the condition that no call failed.
- `udp.c:37`: without the connection manager the MTU stays 0 and the draw never ends,
  against the comment at `echo-client.c:312`. `CONNECTION_MANAGER = FALSE` shows it. With the
  connection manager the same happens when a disconnect is the first event that is told,
  until a connect sets the MTU.
- `main.cpp:52` of the serial plotter drops a batch that arrives after the last test;
  the head comment says that it "prints out the samples". See `PrintsTheRest`.
- `main.cpp:129` of the BLE battery drops the result of `call_every`: if BLE events fill the
  queue at that moment, the level never changes. See `KeepsDischarging`.
- `main.cpp:104` of the bleuart example serves the central only when typing pauses.
- `main.cpp:213` of the NINA-B1 example stores `t` in an integer characteristic also when it
  is NaN, which has no integer value; the test at :200 only guards the printing.
- `echo-client.c:293` counts wake-ups, not packets: a start sends before the first
  wake-up, a matching echo sends again, a duplicate may count without sending. The
  help text at `Kconfig:58` speaks of sending "this many times".
- `main.c:220` of the NVS sample counts the program's own reboots only; the comment
  at :20 says "every reboot". The action property `CounterSteps` is what does hold.
- `main.c:150` drops the result of `nvs_delete` and tries it only in the boots whose
  counter is 10. `StringFollowsCounter` therefore has the condition that no call
  failed, and the comment at :26 ("can no longer be read") needs it too.
- `SmartPoster.cpp:237` gives `std::reverse_copy` the range `&_resource_size` to
  `&_resource_size + 4`: four 32-bit words, of which one is the size, instead of its four
  bytes. The size record has the right length and the wrong contents. `main.cpp` sets
  no resource size. The model has lengths only and does not show it.
- `main.cpp:115`, `:145` and `:154` of the NFC example drop the results of
  `start_discovery` and `connect`; after a failure nothing starts the discovery again.

## 5. Proofs

All proofs hold for every value of the constants that satisfies the named
assumptions of the module: types, bounds in `Nat`, and

- `SerialsIdentify`: two boards do not show the same serial number,
- `0 < DELETE_AT < MAX_REBOOT` and `Capacity >= 3`, as in the two programs,
- `ProtoSeqAssumption`: the echo client handles each enabled protocol once, and there is one,
- `RecordSizeAssumption`: a record has at least one byte, whatever its kind and length
  (nothing else is assumed of the layout of an NDEF record),
- `BufLen > 0`, and `None` is no initiator.

**SerialUploadProofs.** `TypeCorrect`; `Invariance`: the inductive invariant `IInv`;
from it `WrongBoardOnlyWithCause`, `TouchOnlySelected`, and `PortFollows` as an
action property. `WrongBoardHasACause` says nothing about a session that has not
written yet, so it is not inductive. `IInv` adds what a session knows before: in
`flush` and `touch` its board is at its port unless someone moved it
(`FoundIsThere`); the serial number it waits for is one of its board
(`SerialIsSelecteds`, where `SerialsIdentify` makes the board unique); in `upload`,
after "already" or "detected", the board is at the port unless moved
(`DetectedIsThere`); and a port carries one board (`OneBoardPerPort`).

In the same module `Implements`: `Spec => UploadsAsPromised`. `IInv` gains that a session
has no outcome before `reset_to_bootloader` returns; with it no step takes an excuse
back or gives one to a session that has ended. Then the first step of a session is a
`Choose`, the failing flush and the upload actions are a `Finish`, where
`WrongBoardHasACause` is what the contract asks for, and all other steps are a `Disturb`.

`UploadRunsDown` is the safety that `EveryRunEnds` rests on: a session has at most
`RESET_TIMEOUT + 5` steps left, each of its steps takes at least one off, and nothing that
the boards or other sessions do gives one back. That a session which is not done always has
a next step is left to TLC.

**FlashTargetsProofs.** `TypeCorrect`, `WrongCommandOnlyWithCause`, `OneJobIsSafe`. The
invariant adds that the environment holds the values of every target at its `run`
step that was not overtaken, for `flash_serial_nordic` the port it stored, and that with one job at most one target is active,
which takes facts about the cardinality of finite sets. `ForeignFlagsOnlyAfterOthers` has
an invariant of its own: flags other than the user's are in the environment only once a
target has stored them, and no target goes back to before that.
`ForeignPortOnlyAfterReset` follows a port on its way from a reset through the
environment into a command, or into the local `current_port` of another reset that may
store it anew: each is the user's or one that a reset has stored.

**NvsSampleProofs.** `TypeCorrect`, `StringFollows`, `CountsOneByOne`. The invariant
`BootFollowsCode` says that while no call has failed the local counter is 0 until it
is read and equal to the stored one from `string` to `sleep`, and that from `long`
on the string has been written for 0 or deleted for `DELETE_AT`: that is what makes
it safe to store the next count. A power loss throws all of it away and loses
nothing, because each conjunct speaks of what the boot has done so far.

**SerialPlotterProofs.** `TypeCorrect`, `PrintsRest`, `NoStepBack`. The invariant says, for
each `pc`, which indexes of the latest batch are printed: none while it waits, those
from where it found the loop up to the index while the loop runs, all of the rest at the
clear. `StaleComesFirst` is the subtle part: a test that passed before an interrupt may
let one old sample through, but then nothing of the new batch has been printed yet.

**BleBatteryProofs.** `TypeCorrect`, `ShowsLevel`, `NothingForgotten`. `NothingForgotten` rests
on the capacity of three or more. `ShowsLevel` needs that the builder has its fields from
the start on; a failing update moves the level and the lag by one each, which leaves their
difference modulo 91 as it is. The type of the lag needs that it never exceeds the
number of errors.

**NfcProcessProofs.** `TypeCorrect`, `HeldIsConnected`, `OnlyOnePeer`, `MessagesDescribe`.
The first half is about the message. The size functions and the append functions are
written separately in `SmartPoster.cpp`, each with its own test of whether a field is
set; `BuildDescribes` goes through the six appends and shows that each finds the room
its size has announced, whatever the size of a record, so that no record is refused in
the middle and no byte is left at the end. The second half is about the callbacks.
Neither `HeldWhileConnected` nor `OnePeerAtATime` is inductive: when a peer is told of,
nothing in them says that the one before is gone. `OneActivity` says that at most one of
these holds: the controller discovers, it has found a peer it has not told of, a
discovery was aborted and nobody was told, a peer is held. Each of the three places that
start a discovery ends one of them.

**EchoClientProofs.** `TypeCorrect`, `TimerIsNeverLost`, `StopsQuietly`,
`ConnectsCount`, `OverflowTakesEvents`. Neither `SomeoneWillSend` nor `QuietWhileStopped` speaks of more
than one or two places of the main thread. `AliveInv` says for all of them which work items
are alive (a timer, a queue entry or a running handler): all of them between the rounds;
all but the one whose packet is being replaced, between the cancel after a matching echo
and the next arm; those started so far, during the start. `QuietInv` says the same of the
items that `stop_udp` has cancelled. What makes the interleaving harmless is one lemma,
`WorkQueueLife`: a timer that expires, a handler that starts, sends, arms and returns, move
an item on and neither lose nor revive it. It needs that an item is only being
cancelled while its handler runs (`WorkInv`), for otherwise an expiring timer would
leave nothing behind. `ServingInv`
says what becomes of a connect: while the link is up, its event was dealt with and no
call failed since, the semaphore is there, or the client runs and no error ends it, or
its rounds are done; so main is not pending (`ConnectsCount`). `TypeOK` has an entry with
substance: `nfds` is at most one entry for each protocol and event of the link. Its
invariant, `FdsInv`, counts the starts that are over as the events, connects and
disconnects, less those that are still under way: in the handler, in the semaphore, or
in a start that has not got to `prepare_fds`. Connects alone would be no bound, for a
disconnect may start the client too. `OverflowTakesEvents` is the other side of the
finding of `echo_client_fds`: the array is safe up to the number of events that it has
room for.

**BleUartProofs.** `TypeCorrect`, `Reachable`, and the two refinements `HostToCentral` and
`CentralToHost`. The bytes on their way to the central are the buffer and then the FIFO, so
`readBytes` does not change them (`MoveHead`), typing appends one (`AppendToConcat`), and a
write takes the buffer off the front, of which any prefix may come out (`Prefix`). This
holds for any size of the buffer: where chunks are cut makes no difference. `Reachable`
needs that `setup()` has asked for the restart before a first connection can come.

**Only model-checked.** Liveness (`EveryRunEnds`, `KeepsSending`, `TestEnds`, `KeepsListening`,
`AlwaysCatchesUp`, `EventsAreProcessed`, `KeepsDischarging`, `EachSideIsServed`), which
rests on fairness and ENABLED and is out of the prover's reach, and all
refutations. All invariants, action properties and refinements that the runs check are
proved. No module uses a
RECURSIVE operator, for the prover loses its SMT backend in such a module, and
no theorem needs induction over data, which the installed provers cannot do.

## 6. Not modelled, and why

- The TCP half of the echo client: `tcp.c` is not in the tree and the overlay that is
  shipped switches TCP off; `init_vlan`, TLS credentials, user mode: set-up calls.
- What adafruit-nrfutil, nrfutil, west and uf2conv do: external tools. A transfer
  succeeds, breaks off, or is refused.
- `nvs_read_hist` and the printing of the counter's history: no state.
- NVS garbage collection (the 78th reboot of the comment) happens inside the library
  and depends on the page size.
- The build pipeline (`main.py` 128-249): the lines declare builders and their command
  lines. Which of them runs, and whether a `.uf2` or `.zip` is rebuilt when an option
  changed that the `.hex` does not show, is decided by SCons and by the framework's
  `platformio-build-pre.py` with its `WestBuilder`; neither is in the repository, and a
  model would be one of them.
- NINA-B1 and BLE LED: one thread that polls; each handler copies one value to a pin or a
  characteristic. Whatever state and order there is belongs to the libraries.
- `scripts/vid_dump.py`: one pass over files of another repository, no state.
- The status text of the bleuart callbacks, and `pretty_printer.h`: printing.
- BLE beacon, blink, `platform.py`, `frameworks/zephyr.py`, board manifests: nothing
  to get wrong in an order or a state.

## 7. Plan

The components that have behaviour of their own are modelled: `SerialUpload` with
`UploadContract`, `FlashTargets`, `EchoClient`, `NvsSample`, `SmartPoster` and `NfcProcess`,
`SerialPlotter`, `BleBattery`, `BleUart` with `LossyFifo`, and every safety property of the
runs is proved. What is left:

1. What the other liveness properties rest on, as far as it is safety and as it is done
   for uploads: a measure that each boot of the NVS test lowers (`TestEnds`), as an action
   property with its proof.
2. An abstract specification of the echo client for one protocol, send and then wait for
   the echo or the timeout, and `EchoClient` shown to implement it.
