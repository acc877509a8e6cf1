# A TLA+ model of phev2mqtt

phev2mqtt connects to a Mitsubishi Outlander PHEV over Wi-Fi, decodes its
proprietary protocol and mirrors the car's registers as retained MQTT topics,
takes commands from MQTT, and contains an emulator of the car. The code is Go:
a handful of goroutines joined by bounded channels, one rolling XOR key that two
of them share without a lock, and an MQTT broker that may come and go. Most of
what can go wrong is an order of events, which is what these modules are about.

## 1. Inventory

| Part (source) | State | Operations | Modelled in |
|---|---|---|---|
| client (`client/client.go`) | `Recv`, `Send`, `started`, the listeners and their channels, `closed`, the socket, `ModelYear` | `Connect`, `Start`, `Close`, `SetRegister`; goroutines `reader`, `writer`, `manage`, `pinger` | `Client`; its promise in `Connection` |
| session key (`protocol/raw.go`) | `keyMap`, `sNum`, `rNum`, `State` | `Update`, `SKey`, `RKey`, `GenerateProposal`, `AcceptProposal` | `KeyMap`, `KeySync`; the bytes it comes from in `Framing` |
| framing (`protocol/raw.go`, `message.go`) | none between two reads | `NewFromBytes`, `DecodeFromBytes`, `EncodeToBytes`, checksum, xor guess | `Framing` |
| registers (`protocol/message.go`) | none | `Decode`, `Encode` of 14 types | `Registers` (13 of them) |
| settings (`protocol/settings.go`) | list of settings | `FromRegister`, `Clear`, `NewSender` | sender, in `Session` |
| MQTT bridge (`cmd/mqtt.go`) | `mqttData` (last payloads), `climate`, `enabled`, `phev`, `lastConnect`, `publishedDiscovery` | `Run`, `handlePhev`, `publishRegister`, `handleIncomingMqtt`, discovery | `Bridge`; commands and register topics in `Control`; its use of a client in `Client` |
| emulator (`emulator/`, `cmd/emulator.go`) | list of connections; of each its queue, `pingCount`, `registerIndex`, `settingsSender`, key | `Begin`, `reader`, `writer`, `manage`, `Car.SetRegister`, the handler of MQTT messages | one connection in `Session`, several in `Emulator` |
| Wi-Fi watchdog (`scripts/`) | fail counter, stuck flag | ping, restart, reload, reboot | no |
| command line (`cmd/set.go`, `watch.go`, `register.go`) | what is still to be set; the goroutine that reads `Recv` | `set`, `watch`, `register`, `unregister` | `Commands`, over `Client` |
| decoders of captures (`cmd/decode.go`, `hex.go`, `file.go`, `pcap.go`) | - | sequential input and printing | no: pure I/O |

How they interact. `reader` decodes frames (and thereby installs a new key map in
the shared `SecurityKey`), hands each frame to every listener without blocking
(a full listener loses it), then puts it into `Recv`, where it blocks. `manage`
has one of the listeners and answers start requests on `Send`; every call of
`SetRegister` has another. `writer` drains `Send`, drawing the key of each frame
from the same `SecurityKey`. `handlePhev` calls `Connect` and `Start`, then reads
`Recv`, publishes, and acknowledges on `Send`. The handler of incoming MQTT
messages runs on the library's goroutine and calls `Close` and `SetRegister`. The
emulator is the mirror image with its own queues.

What is hard. (a) Four goroutines and their callers close and use the same
channels at the end of a session, after whichever error comes first. (b) All
channels are bounded, so sends block: every cycle of blocked parties is a
deadlock. (c) The start response, the acknowledgements and the key index must
leave in the right order. (d) The key is shared without a lock. (e) The broker
loses and forgets messages while the bridge remembers what it "published".
(f) `enabled` and `/available` are written from two goroutines. (g) A read of the
socket may end anywhere, and the parser keeps nothing for the next one. (h) `m.phev`
is replaced on one goroutine while another waits for the answer of the old client.

What makes each part correct:

- client: no panic on a closed channel; `nil` from `Start` and `SetRegister` means
  what it says; errors mean that the connection is down; every goroutine ends.
- key: every frame is encoded with a key map the car has; the counts of both sides
  agree; no key is lost by the shuffle or reused before the index wraps.
- framing: what is read whole is read exactly; a loss ends with the next read that
  begins with a frame, and nothing misread touches the key.
- commands: success means that the car has taken every frame of the command; a
  command comes back; the topics show the car as it is.
- bridge: the broker shows what the car reported, the topics agree with each
  other, discovery is complete, `/available` tells the truth.
- emulator with client: the register sequence is stop-and-wait, starts only after
  the handshake, and gets to its end; a client that comes back is served, whatever
  became of its old connection.

`PROJECT.json` lists the hazards line by line, with the properties that would
catch each of them going wrong.

## 2. The modules

**`Client`** (instances in `MCClient`). One connection, from `New` on. Each goroutine
has a program counter: `rpc` (read, deliver, recv, closeRecv, stop, done), `wpc`,
`mpc`, `ppc`; `upc` is `handlePhev` (new, assign, start, loop, ack, out), `cpc[s]` a
caller of `SetRegister`. Every blocking point of the code (a read, a send on a
channel, a receive) is a step of its own; what runs under `lMu` without blocking is
one step. Frames are records with the fields the code tests. Timers may fire
whenever they are armed. `ExternalClose` is a `Close` from the MQTT handler.

**`Connection`**. What a client promises to the code that uses it, without goroutines
and channels: a phase (new, up, down), the frames that have come and were not read,
the model year, the result of `Start`, and for every caller its register, whether an
ack of it has come, and its result. `Client` instantiates it under the name `Conn`; the
mapping counts the frame in the reader's hand as arrived, reads `phase` off `rpc` and
`recvClosed`, and `calls` off `cpc`, `creg`, `acked` and `cres`.

**`KeySync`**. `SecurityKey` between reader and writer, with the non-atomic parts
split: the map is installed and filled (`ReaderBuild`, `ReaderBuilt`), the index
reset (`ReaderReset`), the frame delivered (`ReaderDeliver`); the writer reads the
index (`WriterTake`), stores the incremented one (`WriterStore`: from what it read
or from a second read, as the compiler likes), looks up the key (`WriterPut`). The
car is the emulator's, and shares its key in the same way. Its reader decodes and counts
all frames of a `Read` (`CarRead`, `CarDecode`, `CarStore`) and only then offers them to
the listener, which may be full (`CarHandOut`); its manager takes the proposed map into
use and resets the count when the start response comes out of the listener (`CarAccept`,
`CarReset`), by which time the reader may have counted sends behind it. A map is
abstracted to the number of the proposal it comes from.

**`KeyMap`**. The shuffle that makes 256 keys from one byte, iteration by iteration,
then the draws of `SKey(true)`.

**`Bridge`**. `mqttClient`: `pc` walks through `Run` and `handlePhev`, `hpc` through the
handler of `/connection`. The session with the car is reduced to `conn`. The broker
keeps `retained`, `configs` (discovery) and `available`; `BrokerDrop` breaks the
connection (the will is published) or restarts a broker that forgets everything,
and what is published meanwhile is lost without an error (QoS 0). `BrokerDrop` and
`BrokerReconnect` stand for the MQTT library and the broker, which are external.

**`Session`**. Client and emulator joined: `Send`, TCP, listener, the emulator's
`Send`, TCP back, listener and `Recv`, each with its capacity. The emulator's
`manage` counts pings, proposes the key, and sends register after register, one for
each acknowledgement; `SetRegister` calls of both sides come in between.

**`Framing`** (instance in `MCFraming`). The only module with bytes on the wire. The car
encodes its frames with a rolling xor (`CarSend`, external) into one stream; `ReadWhole`,
`ReadCut` and `ReadTail` are the ways in which a `Read` can divide it, and each hands its
bytes to `NewFromBytes` (`data`: what that has still to parse). An action is one turn of
its loop: guess the xor from the third byte, check the sum, skip to the first place where
that succeeds (`First`), and then `Deliver` the frame, on a snapshot of the key behind
skipped bytes, `Stop`, or `Panic`. The key is kept as the eight bytes it is computed from.

**`Registers`**. `Decode` and `Encode` of the register types as operators on sequences of
bytes, lengths and sentinels included; no state.

**`Control`** (instance in `MCControl`). The two users of a client in `cmd/mqtt.go` side by
side: the handler of the set commands (`hpc`, its one or two calls `want`) and
`handlePhev`, which replaces the client (`Replace`) and publishes registers (`Receive`,
with `Registers`). The client is reduced to `sess`, the frames on their way (`out`, `in`)
and `tie`: whether the client of a waiting call will still answer it (`live`), has closed
its listener (`dropped`) or has been given up (`orphan`). The car is external and has one
register per behaviour, out of `Focus`.

**`Commands`** (instance in `MCCommands`). EXTENDS `Client`: the user and the only caller of
`SetRegister` are the command. `main` is its main goroutine, `gpc` the goroutine that
reads `Recv` for `register`, `exit` how the process ended.

**`Emulator`**. `Car` with the list of its connections, each with reader and writer, and
`Car.SetRegister`: a goroutine per connection (`gpc`), which reads the shared loop variable
(`cur`) where it adds its listener (`on`) and again where it sends (`to`), as go 1.16 has
it. A call may begin before there is any connection. Manager and handshake are in `Session`.

**`Counting`**. How many entries of a kind a queue has, and how many behind a place;
`KeySync` and `Session` state their invariants with it.

**`ClientProofs`** (also of `Commands`), **`KeySyncProofs`** (also of `KeyMap`),
**`FramingProofs`**, **`SessionProofs`**, **`BridgeProofs`**, **`EmulatorProofs`**,
**`ControlProofs`**, and the lemmas of **`CountingProofs`**: section 5. The inductive invariants themselves (`ClientInv`,
`SyncInv`, `ControlInv`, ...) are defined in the modules they are about.

History variables (`answered`, `acked`, `owed`, `disturbed`, `early`, `good`, `lost`, `extra`,
`dropped`, `used`, `applied`, `doubt`, `expect`, `clean`, `skipped`, `told`, `heard`) are read by
properties only.

## 3. Runs

Passing:

| Run | What it shows | Instance |
|---|---|---|
| `client_safety` | no send on, or close of, a closed channel in any order of failures; `Start` and `SetRegister` tell the truth; `Client` implements `Connection` (`ConnectionSpec`): `Recv` loses nothing, whatever the listeners lose | one caller that may set either of two registers, all capacities 1; 2.3 M states |
| `session_live` | once the socket closes, the reader closes `Recv` and all listeners, the pinger ends | no caller, handshake and updates; 340 k states |
| `key_sync` | after a key exchange no frame is encoded with another map; the counts agree unless an index was drawn in one of two windows: by the client between reset and start response, by the emulator between decoding the start response and its reset (`SyncUnlessDisturbed`); drift never changes in between | 3 keys (so the index wraps), 2 proposals, 3 frames under way, of which a read may return any number; 1.7 M states |
| `key_map` | the map stays one-to-one, no key comes back within a round | bytes of 8 values, every security key; 136 states |
| `framing` | what is read whole is delivered exactly, in order, with the right key (`ExactWhenWhole`); a loss ends with the next read that begins with a frame (`BackInStep`) | 3 frames out of 5 kinds, up to 2 reads that end inside one, at any byte; 83 k states |
| `bridge` | the broker shows what the car said last; climate topics never contradict each other; discovery complete; a car that cannot be reached ends up offline | 2 modes, 2 states, one outage; 824 k states |
| `control` | a command that succeeded has been carried out, both calls of it (`OkMeansApplied`); topics show the car through any number of sessions (`ShownCurrent`); what of each state survives `Encode` and `Decode` (`CodecsKeep`: all of five registers, four in part or with padding, nothing of the battery level); a command comes back (`CommandEnds`) | 13 registers, model years 14, 18 and 24, capacities 1, one rejection, one change of the car; 1.2 M states |
| `commands` | success of `set` and `register` means an ack (`SuccessMeansSet`); the process ends with its connection (`CommandExits`) | one register to set, 3 frames out of 4, capacities 1; 170 k states |
| `session` | stop-and-wait over all queues; no register before the key is accepted; until its end exactly one entry of the sequence is under way (`NeverStalls`); the sequence completes | capacities 1 and 2, two registers, one setting; about 10^5 states |
| `emulator` | success means that the newest client acknowledged, if there was any client (`NilMeansAcked`); the newest client gets the register of each call, even after that has timed out, although older connections are dead (`NewestIsTold`); the call returns (`SetRegisterEnds`) | 2 connections, 2 calls, one register of the sequence each; 269 k states |

Capacities are smaller than in the code (5, and 2 for `started`), which makes "full"
and "blocked" common instead of rare; a property of an interleaving that needs more
room than one or two entries would be missed by the runs. The theorems of section 5
are for every capacity. Deadlock checking is off wherever the system may stop: a client
lives for one connection, a command ends, `KeySync` bounds the proposals, `Session` the
pings, `Framing` the frames, `Emulator` the calls, and a panic ends `Bridge`. `KeyMap` and
`Control` never stop and are checked for deadlock.

Violations, each a disagreement between code and documentation:

| Run | What happens |
|---|---|
| `off_online` | `off` while a session is being started is overtaken by `online`, or undone by `Connect` (`mqtt.go:403`, `client.go:154`) |
| `key_disturbed` | behind skipped bytes the first false frame works on a snapshot of the key, the next one on the live key: a false start request clears it (`message.go:252`, against the comment at 231); 4 frames out of 2 kinds, one read that ends inside one |

### Known disagreements without a run

The models have these behaviours too; each is met by the exception in a property, or
by a state the properties leave out.

- `started` holds 2 tokens and `Start` takes 1: the fourth start request of a
  connection blocks `manage` for good (`client.go:303`), though `protocol/README.md:80`
  has the car send them "at occasional times during the connection".
- `handlePhev` blocks on `Send` behind a writer that ended on an error, and the bridge
  never reconnects (`mqtt.go:447`): the exception of `SessionEnds`.
- The handler of MQTT messages blocks on the full `Send` of a client that has been
  replaced or never connected, and then handles no message any more, `/connection`
  included (`mqtt.go:275`): the exception of `CommandEnds`.
- `client set` does not read `Recv` while it waits (`set.go:99`), and `register` blocks at
  a second VIN (`register.go:94`): after `RecvCap + 1` frames the ack is not heard and
  the call times out.
- A value whose publication was lost in an outage is never sent again while it stays
  the same (`mqtt.go:250`): `lost` in `BrokerShowsCar`.
- The emulator proposes its key with the tenth ping, and a client whose `Recv` is full of
  ping responses never reads it (`client.go:351`, `state_machine.go:24`).
- `RegisterBatteryLevel.Encode` gives three bytes, where `protocol/README.md:268` and its
  own `Decode` have four, so that `Decode` ignores what it encodes (`message.go:508`, `499`).
  Nothing in the repository encodes a battery level with it so far: the emulator keeps
  that register as raw bytes.
- `RegisterVIN.Decode` takes 16 of the 17 characters of the VIN, `RegisterECUVersion` 9 of
  10 (`message.go:430`, `464`). `RegisterACMode.Encode` leaves the duration out (829), and
  `RegisterWIFISSID.Decode` keeps the padding (898). `CodecsKeep` says so of all five.
- The emulator counts a send that shares a read with a start response, or comes right
  behind it, before its manager resets the count (`connection.go:101`,
  `state_machine.go:35`), and is behind the client until the next key exchange: `early`
  in `SyncUnlessDisturbed`. It decodes all the same, since it guesses the xor.
- With no client connected `Car.SetRegister` returns nil (`car.go:80`), though nobody has
  the register ("SetRegister sends a register to client", `car.go:52`): the exception
  of `NilMeansAcked`.
- A frame with ack 1 that is followed by another in one read may be misread
  (`raw.go:185`): `clean` in `ExactWhenWhole`. A false frame of length 2 makes the parser
  slice out of bounds and ends the program (`message.go:172`).
- `Car.SetRegister` may send an update twice to the newest client and not at all to an
  older one (`car.go:56`), and blocks for ever on the `Send` of a dead one.

Every property of a passing run has a mutant in `PROJECT.json`: a definition next to
the faithful one, marked `Mutation:`, under which the run must fail.

### Bounds, by name

`KeySync`: `KeyLen` (256 in the code), `MaxGen`, `PipeCap`. `KeyMap`: `N` (256).
`Bridge`: `MaxOutages`. `Session`: `PingsToStart` (10), `Registers`, `Settings`,
`MaxInputs` (calls of `SetRegister`), `PipeCap`; pings sent after the car has
counted enough are left out. `Client` has no bound other than the capacities, which
are the code's own. `Commands`: `MaxFrames` (frames of the car; 3 are a start request, a
VIN and an ack, in any order and with repetitions). `Control`: `OutCap` and `InCap`
(the queues together with the network), `MaxBad` (rejections), `MaxChanges` (of the car by
itself), `Levels` and `Remainings` (values at both sides of each limit). `Framing`:
`MaxFrames`, `MaxCuts`; `MCFraming` chooses frames and keys for which false frames do
occur, one that makes the parser panic among them. `Emulator`: `MaxConns`, `MaxCalls`, `Dump` (registers of the sequence).

## 4. Fairness

Go runs every goroutine that can run: weak fairness for each. Goroutines blocked on
a send to the same channel are queued first come first served, hence strong fairness
for senders on a channel that is drained again and again. A `Read` ends with its
30 s deadline, a `Write` with its 15 s, a `Start` with its 45 s, a call with its 10 s.
In `Bridge` time passes (`Tick`) and the MQTT library reconnects
(`SetAutoReconnect`). In `Control` a dial ends, and the car takes a frame in, rejects it
or the session ends, which is what the deadlines amount to; in `Commands` every timer
that is armed fires at last, except that of `watch`, which need not be set; in `Emulator`
only the emulator's own goroutines are fair, since it has no control over its clients.
Nothing is assumed of what comes from outside: closing, dialling
successfully, commands, calls, registers.

The liveness properties name what they do not promise. `SessionEnds` excepts a
user that has left or is blocked on `Send` behind a dead writer, `CommandExits` a
command blocked there, `CommandEnds` a command blocked on the `Send` of a client that is
gone, `SetRegisterEnds` one blocked on the `Send` of a dead connection, `DumpCompletes` a
lost acknowledgement, `NewestIsTold` a newest connection that ends itself, and a call
that the next one follows before its register has got through.

## 5. Proofs

Checked by TLAPS for every value of the constants. Each theorem `Spec => []P` has the
same three steps: `Init` implies an inductive invariant, every action preserves it (one
lemma or step per action, or per group of actions that leave a part alone), and it
implies `P`. Each inductive invariant was checked by TLC on the instance of the
component's run before it was proved.

What is assumed of the constants, each assumption in the module that declares them:

| Assumption | Says |
|---|---|
| `CapAssumption` (`Client`) | capacities of channels are positive |
| `NameAssumption` (`Client`) | the manager is no caller, "unknown" is no model year, the car sends frames of the known kinds |
| `CommandAssumption` (`Commands`) | the command is one of the callers, and what it sets are registers |
| `NAssumption` (`KeyMap`) | there is at least one byte value |
| `BoundAssumption` (`KeySync`, `Session`) | capacities, `KeyLen`, `PingsToStart` and `Registers` positive, the rest natural |
| `ReportAssumption` (`Bridge`) | the car reports modes and states the protocol knows; a remaining time is not the empty text |
| `FrameAssumption` (`Framing`) | what the car sends are bytes: at most 250 of data, so that the length byte does not wrap; a start request carries a key of eight bytes; an acknowledgement carries an odd number of bytes of data (one, in the protocol: with an even number the code's first guess of the xor can fit by accident). There is at least one byte to encode with |
| `EmulatorAssumption` (`Emulator`) | capacities and `MaxConns` positive, the rest natural |
| `ControlAssumption` (`Control`) | the registers are the modelled ones, the model years the client knows (14, 18, 24), levels are bytes, the high byte of a remaining time is below 255 (255 is the sentinel of the protocol) |

**`ClientProofs`**: any number of callers, registers, model years, any capacities, any
frames. `ClientInv` is the conjunction of five parts.

- `TypeCorrect`: `TypeOK`, with the bounds of all channels, one lemma per goroutine.
- `NoPanic`, `StartError`, `CallError`: from `LifeInv`. The safety properties are not
  inductive: that a listener's channel is open where the reader offers a frame
  depends on who closed it, and when. `LifeInv` tells the age of the connection by
  the reader: a channel that is found closed means that the reader has done all of
  its cleanup, since nobody else closes one but the manager, after its own channel.
- `Handshake`: from `HandshakeInv`, that a token in `started` implies a noted model
  year and a queued or written start response.
- `AckSound`: from `AckInv`, that an ack waiting in a caller's channel came while that
  call listened, since its channel is fresh.
- `Refines`: `Spec => ConnectionSpec`. Every initial state of `Client` is one of
  `Connection` under the mapping, and every step of a goroutine is one of its actions
  or a stutter. `ServeInv` has what the mapping needs besides: the frame in the reader's hand is one
  of the car's, the result of `Start` goes with how far the user has come, and a
  caller listens exactly while its call is on. `ConnectionSpec` is the safety part of
  the promise, and it is proved whole.
- `CommandTypeCorrect`, `CommandSuccess`: `Commands` runs over `Client`, so each of
  its steps is one of the command joined with one of the goroutines. `AckInv` is carried over, and
  `ProgressInv` says how far the command is: it sets registers only from inside a
  call, and goes on only with a nil from it.

**`KeySyncProofs`**, for any length of a key, capacities and number of proposals:
`TypeCorrect`, `Fresh`, `InSync`, and the action property `Frozen`. `SyncInv` holds
together what is spread over both sides. `OneExchange` counts the places a pending
proposal can be in (request, reader, listener, `Send`, writer, wire, the emulator's reader,
listener and manager): it is in at most one, and in none once a full listener has lost
it. `MapOf` and `MapsInPipe` say which map each side is at and which the frames on the
wire have, hence `Fresh`. `OwedMeans` and `CountsAhead` say that from the reset on the
client's index is the number of frames sent behind the start response, wherever that
is, unless an index was drawn in the first window; `CarCounts` says that what the
emulator's reader holds is stale only in the second; hence `InSync`. `WriterHasRoom` was missing
at first: without it even the bound of the wire is not inductive. Of `KeyMap`, for any
number of byte values: `MapTypeCorrect` (in no run of its own), `ShuffleInjective` (a swap keeps a one-to-one map
one-to-one) and `KeyNotReused`, from `KeyInv`, whose part `Drawn` says that the keys drawn
are those below the index. This is what `protocol/README.md` calls 256 distinct byte
values.

**`FramingProofs`**, for any frames that `FrameAssumption` allows, any key bytes to encode
with, any number of frames, reads and cuts: `FramingTypes`, `ExactDelivery`, and the action property `InStepAgain`, all
from `FramingInvariant`.

- The parser is sound (`Decodes`): bytes that begin with the encoding of a frame, under
  any xor, decode to that frame, although the xor is only guessed. If ack is 0 the first
  guess is right. If it is 1 the first guess turns the even length byte into the next
  odd one, so that the frame would have to be one byte longer than it is: the bytes
  must end there, which is the exception the properties make. It rests on the laws of
  `Xor`, proved bit by bit (`XorLaws`), and on the sum of a prefix depending on that prefix
  only (`SumPrefix`).
- `FramingInv`: the packets on the way are encodings of their frames (`WireInv`); what is
  being parsed begins with the bytes of the frames expected (`TurnInv`); and while
  nothing was cut, the frames delivered, expected and unread, joined, are those sent
  (`ExactInv`). `ExactWhenWhole` is not inductive: it does not say what the bytes are.
- A misread is not excluded anywhere else. `FramingTypes` holds of false frames, too: that
  the key has eight bytes or none, whatever a false start request consists of.
- `Sum` and `Flat` are recursive functions. That they exist, and what they return for a
  prefix or a concatenation, needs induction over the naturals, whose theorem in the
  library takes an operator as a parameter. `SetInduction` is induction over a set
  instead, from the well-foundedness of the subset relation on finite sets.

**`SessionProofs`**, for any capacities, numbers of registers, settings, pings and calls:
`TypeCorrect`, `StopAndWait`, `KeyFirst`, `Unstalled`. `FlowInv` counts what is out over
nine places on the way to the client and back: each action moves one entry, and the
lemmas of `CountingProofs` say what that does to each count. The client's actions keep the
sum; the car's keep what it is allowed to have out less the sum, until the sequence is
through or its listener loses an ack. That the sum never falls short (`NeverStalls`) is the
safety half of `DumpCompletes`: what fairness then has to move is always there. `Early`
follows the order of start response and acks through three queues: before the key is
accepted, every ack has a start response ahead of it, so that the car's manager sees
that one first.

**`BridgeProofs`**, for any modes, states, remaining times and number of outages:
`TypeCorrect` (types only), `ShowsCar`, `TopicsAgree`, `Discovered`. `CacheInv` relates three copies
of a value: the car's last report determines the cache, and the cache the broker's
topic, unless that publication was lost. `OutageInv` (each reconnection is due to an outage)
is what bounds the number of pending reconnection handlers, and `NilInv` says that the
first client exists where `Run` uses it.

**`EmulatorProofs`**, for any number of connections, registers and calls: `TypeCorrect`,
`NilIsAcked`. The goroutines of a call share the variable of its loop, so that most of
them may listen to one connection and send to another; with no connection there are none,
and `nil` means nothing, which `NilIsAcked` says. `LastInv` says that the one
started last cannot: it finds the variable at its last value. `GoInv` says which
goroutines there are and what they have.

**`ControlProofs`**, for any readings, capacities and bounds, and for all 13 registers:

- `TypeCorrect`, through the types of every `Decode` and `Encode` in `Registers`.
- `CommandApplied`: from `OkInv`. Of the frames for the current call's register, those on
  the way to the car are the call's own, and an ack on the way back means that the car
  has applied it, unless an answer to an earlier call was outstanding (`doubt`).
- `CodecsKept`: what `Decode` makes of the bytes `Encode` gives, each register by
  itself, with arithmetic over bytes and lengths of sequences.
- `TopicsCurrent`: from `LastReport`, that the last report on its way tells the car as it
  is unless one is due, and `NoSentinel`. Each arm of `Shows` has a lemma: publishing
  a report makes the topics show it, whatever they showed before.

The proofs found no wrong behaviour, but they did find that the type invariants of `KeySync`,
`Bridge`, `Emulator` and `Commands` did not hold by themselves: a bound of a queue or of a
counter depended on a fact about another goroutine that no module stated. These facts
are now named parts of the invariants.

Every invariant and every action property of a passing run is a theorem. Only
model-checked is liveness (`SessionEnds`, `PingerEnds`, `DumpCompletes`, `CommandExits`,
`CommandEnds`, `NewestIsTold`, `SetRegisterEnds`, `UnreachableMeansOffline`): it rests on
fairness, hence on ENABLED, which the prover does not have. The two runs that expect a
violation refute `OffMeansOffline` and `KeyUndisturbed`.

## 6. Not modelled

- The xor value that a BadEncoding frame asks for, and what the car makes of the retry.
- In `Framing`, the draws of `SKey` and `RKey` that a false frame of type 0xf6 or 0x6f
  would make. `RKey` itself: its index is kept but decodes nothing.
- The time register, generic registers, and all `String` and `Raw` methods.
- `FromRegister`, `Clear` and `Dump` of the settings, hence `/settings/dump`.
- `/set/register`, which is a single call of `SetRegister` with any register; the parsing
  of topics and payloads; `restartWifi`; subscriptions, which are made once and not
  renewed after a reconnection; the count of BadEncoding frames in `handlePhev`.
- Go data races on `m.phev`, `enabled` and `Settings` beyond the order of accesses.
- In the emulator: a second rekey, which a client asks for with an ack of 0 in its start
  response, and the retry at a BadEncoding frame; no client here sends either.
- In `Client`, a `Read` that returns several frames: one is one frame (`ReaderRead`). In the
  code the rest of a read is still delivered after the socket has closed; here these
  are frames that were read before.
- Scripts, decoders of captures, packaging, flags.

One behaviour has no property although `Client` has it: `manage` adds its listener
from its own goroutine (`client.go:272`); if the connection ends before that, the
reader's cleanup misses it and `manage` never ends, contrary to `CONSISTENCY.md` R2.

## 7. Plan

1. `Bridge`: `restartWifi`, and the count of BadEncoding frames.
2. `Control`: the settings and their dump.
3. `Watchdog`: the two scripts, their counter and the escalation from restart to
   reload to reboot.
4. Proofs: of the liveness properties the safety half, as `NeverStalls` is of
   `DumpCompletes`: that in every state short of the end some step can be taken.
