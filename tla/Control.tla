------------------------------ MODULE Control -------------------------------
(***************************************************************************)
(* Controlling the car over MQTT: the set commands of handleIncomingMqtt   *)
(* and the registers that handlePhev turns into topics (cmd/mqtt.go), with *)
(* the decoders of protocol/message.go.                                    *)
(*                                                                         *)
(* The handler of incoming messages runs on the MQTT library's goroutine,  *)
(* one message at a time; a command is one call of SetRegister or two.     *)
(* The bridge's own goroutine replaces m.phev whenever a session is over.  *)
(* The client is reduced to what these two see of it (its goroutines are   *)
(* in module Client): the frames on their way to the car, those on their   *)
(* way back, and for a call whether its client will still answer it.       *)
(*                                                                         *)
(* The car is external: its bytes follow protocol/README.md and Encode.    *)
(* A behaviour is about one register, that of car; the settings, the topic *)
(* /connection and the climate topics are in Session and Bridge, and the   *)
(* broker keeps what it gets.  A payload is <<>> when nothing was          *)
(* published and <<v>> otherwise.                                          *)
(***************************************************************************)
EXTENDS Registers

CONSTANTS
  Focus,       \* the cars of this instance: pairs of register and model year
  Levels, Remainings,    \* readings of the battery and of the charge time
  OutCap,      \* capacity of c.Send, and of the way to the car
  InCap,       \* frames that fit on the way back
  MaxBad,      \* bound on BadEncoding frames
  MaxChanges   \* bound on changes of the car by itself

ChargeTimerRegister == 23    \* 0x17, written and never decoded
UpdateRegister      == 6

\* The registers a behaviour may be about.
Modelled == {DoorStatusRegister, BatteryLevelRegister, ChargeStatusRegister,
             ChargePlugRegister, LightStatusRegister, PreACStateRegister,
             ACModeRegister, VINRegister, ECUVersionRegister,
             BatteryWarningRegister, ACOperStatusRegister, WIFISSIDRegister,
             ChargeTimerRegister}

\* Of the two bytes of the remaining charge time the high one is never 0xff,
\* which stands for no estimate; a byte holds the level.
ASSUME ControlAssumption ==
  /\ Focus \subseteq Modelled \X {14, 18, 24}
  /\ Levels \subseteq Byte
  /\ Remainings \subseteq Nat /\ \A m \in Remainings : m \div 256 < 255
  /\ OutCap \in Nat \ {0} /\ InCap \in Nat \ {0}
  /\ MaxBad \in Nat /\ MaxChanges \in Nat

VARIABLES
  reg,      \* the register this behaviour is about
  car,      \* what the car holds in it
  carYear,  \* model year of the car
  stale,    \* the car has not reported car yet
  sess,     \* m.phev: "new", "linked" (Connect), "up" (Start), "dead"
  known,    \* m.phev.ModelYear is known
  out,      \* frames in m.phev.Send and on the way to the car
  in,       \* frames from the car
  shown,    \* retained payload of each topic
  bad,      \* BadEncoding frames so far
  changes,  \* changes of the car by itself so far
  hpc,      \* handler: "idle", "call", "put" (blocked on Send), "wait"
  want, k,  \* its calls of SetRegister, and the one it is at
  tie,      \* the client of the call: "live", "dropped" or "orphan"
  res       \* how the last command ended

\* History variables, read by the properties only.
VARIABLES
  applied,  \* frames of the command the car took in since it came
  doubt     \* a call began with an answer to an earlier one outstanding

session == <<sess, known, out, in>>
handler == <<hpc, want, k, tie, res>>
bounds  == <<bad, changes>>
vars == <<reg, car, carYear, stale, session, shown, bounds, handler, applied, doubt>>

-----------------------------------------------------------------------------
(* The car (external).                                                     *)

Text(n) == [i \in 1..n |-> 64 + i]    \* n different letters

\* What the car may hold in register r.
DoorStates    == {[f \in DoorFlags |-> f = g] : g \in DoorFlags \cup {"none"}}
BatteryStates == [level : Levels, parkingLights : BOOLEAN]
ChargeStates  == {c \in [charging : BOOLEAN, remaining : Remainings \cup {0}] :
                    c.remaining \in IF c.charging THEN Remainings ELSE {0}}
LightStates   == [interior : BOOLEAN, hazard : BOOLEAN]
ClimateStates == [mode : 0..3, duration : {0, 16, 32}, on : BOOLEAN]
VINStates     == [vin : {Text(17)}, registrations : {1, 2}]
Flags         == BOOLEAN

CarStates(r) ==
  CASE r = DoorStatusRegister   -> DoorStates
    [] r = BatteryLevelRegister -> BatteryStates
    [] r = ChargeStatusRegister -> ChargeStates
    [] r \in {ChargePlugRegister, ACOperStatusRegister} -> Flags
    [] r = LightStatusRegister  -> LightStates
    [] r = PreACStateRegister   -> {0, 2, 3}
    [] r = ACModeRegister       -> ClimateStates
    [] r = VINRegister          -> VINStates
    [] r = ECUVersionRegister   -> {Text(10)}
    [] r = BatteryWarningRegister -> {0, 1, 255}
    [] r = WIFISSIDRegister     -> {Text(12)}
    [] r = ChargeTimerRegister  -> {<<0>>, <<1>>, <<17>>}

\* To begin with, all is closed and switched off.
ParkedBattery == {s \in BatteryStates : ~s.parkingLights}

Parked(r) ==
  CASE r = DoorStatusRegister -> {[f \in DoorFlags |-> FALSE]}
    [] r = ACModeRegister -> {[mode |-> 0, duration |-> 0, on |-> FALSE]}
    [] r = BatteryLevelRegister -> ParkedBattery
    [] OTHER -> CarStates(r)

\* Its layout of the door register, bytes counted from 1.
CarDoorByte ==
  [locked |-> 1, driver |-> 4, frontPassenger |-> 5, rearRight |-> 6,
   rearLeft |-> 7, boot |-> 8, bonnet |-> 9, headlights |-> 10]

CarDoorData(s) ==
  [i \in 1..10 |-> IF \E f \in DoorFlags : s[f] /\ CarDoorByte[f] = i
                   THEN 1 ELSE IF i = 1 THEN 2 ELSE 0]

CarLightData(s) ==
  <<0, 0, 0, IF s.hazard THEN 1 ELSE 2, IF s.interior THEN 1 ELSE 2>>

CarVINData(s) ==
  [i \in 1..20 |-> CASE i = 1 -> 3 [] i = 19 -> 1 [] i = 20 -> s.registrations
                     [] OTHER -> s.vin[i - 1]]

\* Model year 14 sends the first n bytes of some registers.
Cut(d, n) == IF carYear = 14 THEN SubSeq(d, 1, n) ELSE d

\* The data with which it reports s.
CarData(r, s) ==
  CASE r = DoorStatusRegister   -> CarDoorData(s)
    [] r = BatteryLevelRegister -> Append(EncodeBatteryLevel(s), 3)
    [] r = ChargeStatusRegister -> EncodeChargeStatus(s)
    [] r = ChargePlugRegister   -> EncodeChargePlug(s)
    [] r = LightStatusRegister  -> CarLightData(s)
    [] r = PreACStateRegister   -> Cut(<<s, 0, 0>>, 1)
    [] r = ACModeRegister       -> <<s.mode + s.duration>>
    [] r = VINRegister          -> CarVINData(s)
    [] r = ECUVersionRegister   -> EncodeECUVersion(s)
    [] r = BatteryWarningRegister -> EncodeBatteryWarning(s)
    [] r = ACOperStatusRegister -> Cut(EncodeACOperStatus(s), 2)
    [] r = WIFISSIDRegister     -> EncodeWIFISSID(s)
    [] r = ChargeTimerRegister  -> s

\* What a frame does to it.
Switch(flag, f, v) == [car EXCEPT ![flag] = f.data = <<v>>]
ModeOfByte(b)      == [car EXCEPT !.mode = b % 16, !.duration = 16 * (b \div 16)]
Climate(data)      == [mode |-> data[2], duration |-> data[3], on |-> data[1] = 2]

Effect(f) ==
  CASE f.reg = 10 /\ reg = DoorStatusRegister   -> Switch("headlights", f, 1)
    [] f.reg = 11 /\ reg = BatteryLevelRegister -> Switch("parkingLights", f, 1)
    [] f.reg = 19 /\ reg = PreACStateRegister /\ car = 3 -> 0
    [] f.reg = 23 -> f.data
    [] f.reg = 2  -> ModeOfByte(f.data[1])
    [] f.reg = 4  -> Switch("on", f, 2)
    [] f.reg = 27 -> Climate(f.data)
    [] OTHER -> car

-----------------------------------------------------------------------------
(* publishRegister: the topics of a register.                              *)

OnOff(b)  == IF b THEN <<"on">> ELSE <<"off">>
OpenIf(b) == IF b THEN <<"open">> ELSE <<"closed">>

DoorTopics(d) ==
  LET r == DecodeDoorStatus(d)
  IN  [f \in DoorFlags \cup {"frontLeft"} |->
         CASE f = "locked"     -> OpenIf(~r.locked)
           [] f = "headlights" -> OnOff(r.headlights)
           [] f = "frontLeft"  -> OpenIf(r.frontPassenger)
           [] OTHER            -> OpenIf(r[f])]

\* An implausible level repeats the last one that was published, if any.
BatteryTopics(d) ==
  LET r == DecodeBatteryLevel(d)
  IN  [level |-> IF r.level > 5 /\ r.level < 255 THEN <<r.level>> ELSE shown.level,
       parking |-> OnOff(r.parkingLights)]

ChargeTopics(d) ==
  LET r == DecodeChargeStatus(d)
  IN  [charging |-> OnOff(r.charging),
       remaining |-> IF r.remaining < 1000 THEN <<r.remaining>> ELSE shown.remaining]

\* publish drops an empty text unless it replaces one: <<>> for both.
TextPayload(t) == IF t = <<>> THEN <<>> ELSE <<t>>

PlugTopics(d)  == [plug |-> IF DecodeChargePlug(d) THEN <<"connected">>
                                                   ELSE <<"unplugged">>]
LightTopics(d) == [interior |-> OnOff(DecodeLightStatus(d).interior),
                   hazard |-> OnOff(DecodeLightStatus(d).hazard)]
VINTopics(d)   == [vin |-> TextPayload(DecodeVIN(d).vin),
                   registrations |-> <<DecodeVIN(d).registrations>>]

\* The topics of the type of a register.  Those of the climate follow from mode
\* and state (Bridge).
TypeTopics(r, d) ==
  CASE r = DoorStatusRegister   -> DoorTopics(d)
    [] r = BatteryLevelRegister -> BatteryTopics(d)
    [] r = ChargeStatusRegister -> ChargeTopics(d)
    [] r = ChargePlugRegister   -> PlugTopics(d)
    [] r = LightStatusRegister  -> LightTopics(d)
    [] r = PreACStateRegister   -> [state |-> <<DecodePreACState(d)>>]
    [] r = ACModeRegister       -> [mode |-> <<DecodeACMode(d).mode>>]
    [] r = VINRegister          -> VINTopics(d)
    [] r = ECUVersionRegister   -> [version |-> TextPayload(DecodeECUVersion(d))]
    [] OTHER -> <<>>

\* publishRegister: the raw data, and the topics of its type.
Published(r, d) ==
  LET T == TypeTopics(r, d)
  IN  [t \in DOMAIN shown \cup DOMAIN T \cup {"raw"} |->
         IF t = "raw" THEN <<d>> ELSE IF t \in DOMAIN T THEN T[t] ELSE shown[t]]

-----------------------------------------------------------------------------
(* handleIncomingMqtt: the calls a command makes.                          *)

Frame(r, data) == [reg |-> r, data |-> data]

\* /set/parkinglights and /set/headlights.
LightCalls(r, payload) ==
  CASE payload = "on"  -> <<Frame(r, <<1>>)>>
    [] payload = "off" -> <<Frame(r, <<2>>)>>
    [] OTHER -> <<>>

ModeMap == [off |-> 0, cool |-> 1, heat |-> 2, windscreen |-> 3]
DurMap  == [t \in {"10", "20", "30", "on", "off"} |->
              CASE t = "20" -> 16 [] t = "30" -> 32 [] OTHER -> 0]

\* /set/climate/last.  Of the 15 bytes for model year 14 only number 6 tells
\* anything; 18 and 24 are treated alike.  A client that does not know its model
\* year sends nothing.
ClimateCalls(last, payload) ==
  LET named == IF last = "mode" THEN payload ELSE last
      p     == IF last = "mode" THEN "on" ELSE payload
      mode  == IF p = "off" THEN 0 ELSE ModeMap[named]
      dur   == IF p \in DOMAIN DurMap THEN DurMap[p] ELSE 0
  IN  IF named \notin DOMAIN ModeMap \/ (mode # 0 /\ p \notin DOMAIN DurMap) \/ ~known
      THEN <<>>
      ELSE IF carYear = 14
      THEN <<Frame(2, <<mode + dur>>), Frame(4, IF mode = 0 THEN <<1>> ELSE <<2>>)>>
      ELSE <<Frame(27, <<IF mode = 0 THEN 1 ELSE 2, mode, dur>>)>>

\* The commands about the register of this behaviour.
ClimateCommands == {ClimateCalls("heat", p) : p \in {"30", "off"}}
                     \cup {ClimateCalls("mode", "cool")}
Commands ==
  CASE reg = BatteryLevelRegister -> {LightCalls(11, p) : p \in {"on", "off"}}
    [] reg = DoorStatusRegister   -> {LightCalls(10, p) : p \in {"on", "off"}}
    [] reg = PreACStateRegister   -> {<<Frame(19, <<1>>)>>}
    [] reg = ChargeTimerRegister  -> {<<Frame(23, <<1>>), Frame(23, <<17>>)>>}
    [] reg = ACModeRegister       -> ClimateCommands
    [] OTHER -> {}

-----------------------------------------------------------------------------
Init ==
  /\ \E f \in Focus : reg = f[1] /\ carYear = f[2]
  /\ car \in Parked(reg) /\ stale = FALSE
  /\ sess = "new" /\ known = FALSE /\ out = <<>> /\ in = <<>>
  /\ shown = [t \in {"raw", "level", "parking", "remaining"} |-> <<>>]
  /\ bad = 0 /\ changes = 0
  /\ hpc = "idle" /\ want = <<>> /\ k = 1 /\ tie = "orphan" /\ res = "none"
  /\ applied = {} /\ doubt = FALSE

-----------------------------------------------------------------------------
(* handlePhev and Run: m.phev from New to the end of its session.          *)

\* Connect succeeds: the writer starts on what Send holds already.
Connect ==
  /\ sess = "new"
  /\ sess' = "linked"
  /\ UNCHANGED <<reg, car, carYear, stale, known, out, in, shown, bounds, handler,
                 applied, doubt>>

\* A call that waits on a client nobody will answer for any more.
Untied(t) == IF hpc \in {"put", "wait"} /\ tie = "live" THEN t ELSE tie

\* Connect fails, or a session has ended: handlePhev makes a new client.
Replace ==
  /\ sess \in {"new", "dead"}
  /\ sess' = "new" /\ known' = FALSE /\ out' = <<>> /\ in' = <<>>
  /\ tie' = Untied("orphan")
  /\ UNCHANGED <<reg, car, carYear, stale, shown, bounds, hpc, want, k, res,
                 applied, doubt>>

\* manage() takes the start request and notes the model year.
StartRequest ==
  /\ sess = "linked" /\ ~known
  /\ known' = TRUE
  /\ UNCHANGED <<reg, car, carYear, stale, sess, out, in, shown, bounds, handler,
                 applied, doubt>>

\* Start returns; the car sends all its registers.
Start ==
  /\ sess = "linked" /\ known
  /\ sess' = "up" /\ stale' = TRUE
  /\ UNCHANGED <<reg, car, carYear, known, out, in, shown, bounds, handler,
                 applied, doubt>>

\* The session ends: the reader closes Recv and the listeners.  A call that
\* waits returns; one that is blocked on Send would, if it got that far.
Drop ==
  /\ sess \in {"linked", "up"}
  /\ sess' = "dead" /\ in' = <<>>
  /\ tie' = Untied("dropped")
  /\ UNCHANGED <<reg, car, carYear, stale, known, out, shown, bounds, hpc, want, k,
                 res, applied, doubt>>

\* handlePhev takes a register update from Recv.
Receive ==
  /\ sess = "up" /\ in # <<>> /\ in[1].type = "update"
  /\ in' = Tail(in)
  /\ shown' = Published(reg, in[1].data)
  /\ UNCHANGED <<reg, car, carYear, stale, sess, known, out, bounds, handler,
                 applied, doubt>>

\* The ticker asks for all registers, in a goroutine of its own.  Bound: one
\* request at a time.
Refresh ==
  /\ sess = "up" /\ Len(out) < OutCap
  /\ \A i \in DOMAIN out : out[i].reg # UpdateRegister
  /\ out' = Append(out, Frame(UpdateRegister, <<3>>))
  /\ UNCHANGED <<reg, car, carYear, stale, sess, known, in, shown, bounds, handler,
                 applied, doubt>>

-----------------------------------------------------------------------------
(* handleIncomingMqtt and SetRegister.                                     *)

\* A message of MQTT; one that makes no call is ignored or only logged.
Command(calls) ==
  /\ hpc = "idle" /\ calls # <<>>
  /\ hpc' = "call" /\ want' = calls /\ k' = 1 /\ res' = "none"
  /\ applied' = {} /\ doubt' = FALSE
  /\ UNCHANGED <<reg, car, carYear, stale, session, shown, bounds, tie>>

\* An answer to the register of the call is still to come.
Outstanding(r) ==
  \/ \E i \in DOMAIN out : out[i].reg = r
  \/ \E i \in DOMAIN in : in[i].type = "ack" /\ in[i].reg = r

\* Mutation: the frame is put into Send whether there is room or not.
CallUnbounded ==
  /\ hpc = "call"
  /\ tie' = IF sess = "dead" THEN "orphan" ELSE "live"
  /\ doubt' = (doubt \/ Outstanding(want[k].reg))
  /\ hpc' = "wait" /\ out' = Append(out, want[k])
  /\ UNCHANGED <<reg, car, carYear, stale, sess, known, in, shown, bounds, want, k,
                 res, applied>>

\* m.phev is read, a listener added, the frame put into Send if there is room.
\* The listener of an ended client is never closed; its writer may take one
\* more frame before it fails.
Call ==
  /\ hpc = "call"
  /\ tie' = IF sess = "dead" THEN "orphan" ELSE "live"
  /\ doubt' = (doubt \/ Outstanding(want[k].reg))
  /\ \/ Len(out) < OutCap /\ hpc' = "wait" /\ out' = Append(out, want[k])
     \/ Len(out) = OutCap /\ hpc' = "put" /\ UNCHANGED out
     \/ Len(out) = OutCap /\ sess = "dead"
          /\ hpc' = "wait" /\ out' = Append(Tail(out), want[k])
  /\ UNCHANGED <<reg, car, carYear, stale, sess, known, in, shown, bounds, want, k,
                 res, applied>>

\* A blocked call gets its frame into Send.
Put ==
  /\ hpc = "put" /\ tie = "live" /\ Len(out) < OutCap
  /\ hpc' = "wait" /\ out' = Append(out, want[k])
  /\ UNCHANGED <<reg, car, carYear, stale, sess, known, in, shown, bounds, want, k,
                 tie, res, applied, doubt>>

\* The handler goes on to its next call, or is done.
Succeed ==
  IF k < Len(want)
  THEN hpc' = "call" /\ k' = k + 1 /\ UNCHANGED <<want, tie, res>>
  ELSE hpc' = "idle" /\ res' = (IF doubt THEN "doubt" ELSE "ok")
       /\ UNCHANGED <<want, k, tie>>

\* An error is logged, and the rest of the command left out.
Fail == hpc' = "idle" /\ res' = "error" /\ UNCHANGED <<want, k, tie>>

\* Mutation: an ack of any register will do.
AnswersAny == hpc = "wait" /\ tie = "live"

\* The ack at the head of in is the one the call waits for.
Answers == hpc = "wait" /\ tie = "live" /\ in[1].reg = want[k].reg

TakeAck ==
  /\ in # <<>> /\ in[1].type = "ack"
  /\ in' = Tail(in)
  /\ IF Answers THEN Succeed ELSE UNCHANGED handler
  /\ UNCHANGED <<reg, car, carYear, stale, sess, known, out, shown, bounds,
                 applied, doubt>>

\* A BadEncoding frame, whatever it is about, sends the register again.
TakeBad ==
  /\ in # <<>> /\ in[1].type = "bad"
  /\ in' = Tail(in)
  /\ IF hpc = "wait" /\ tie = "live"
     THEN IF Len(out) < OutCap THEN out' = Append(out, want[k]) /\ UNCHANGED hpc
                               ELSE hpc' = "put" /\ UNCHANGED out
     ELSE UNCHANGED <<out, hpc>>
  /\ UNCHANGED <<reg, car, carYear, stale, sess, known, shown, bounds, want, k, tie,
                 res, applied, doubt>>

\* Mutation: there is no timer, only the listener that closes.
GiveUpWhenClosed ==
  /\ hpc = "wait" /\ tie = "dropped"
  /\ Fail
  /\ UNCHANGED <<reg, car, carYear, stale, session, shown, bounds, applied, doubt>>

\* Ten seconds without an answer, or the listener closed.
GiveUp ==
  /\ hpc = "wait"
  /\ Fail
  /\ UNCHANGED <<reg, car, carYear, stale, session, shown, bounds, applied, doubt>>

\* A call blocked when its session ended gets into Send after all, since the
\* writer takes one more frame, and finds its listener closed.
GiveUpLate ==
  /\ hpc = "put" /\ tie = "dropped"
  /\ Fail
  /\ UNCHANGED <<reg, car, carYear, stale, session, shown, bounds, applied, doubt>>

-----------------------------------------------------------------------------
(* The car (external).                                                     *)

Update == [type |-> "update", data |-> CarData(reg, car)]

\* It takes a frame in and acknowledges it.
CarTake ==
  /\ sess \in {"linked", "up"} /\ out # <<>> /\ Len(in) < InCap
  /\ out' = Tail(out)
  /\ in' = Append(in, [type |-> "ack", reg |-> out[1].reg])
  /\ car' = Effect(out[1])
  /\ stale' = (stale \/ car' # car \/ (out[1].reg = UpdateRegister /\ sess = "up"))
  /\ applied' = IF \E i \in DOMAIN want : want[i] = out[1]
                THEN applied \cup {out[1]} ELSE applied
  /\ UNCHANGED <<reg, carYear, sess, known, shown, bounds, handler, doubt>>

\* Before it has proposed a key it may say nothing to a frame.
CarIgnore ==
  /\ sess = "linked" /\ out # <<>>
  /\ out' = Tail(out)
  /\ UNCHANGED <<reg, car, carYear, stale, sess, known, in, shown, bounds, handler,
                 applied, doubt>>

\* It cannot decode a frame of the client.
CarReject ==
  /\ sess \in {"linked", "up"} /\ Len(in) < InCap /\ bad < MaxBad
  /\ bad' = bad + 1 /\ UNCHANGED changes
  /\ in' = Append(in, [type |-> "bad"])
  /\ \/ out # <<>> /\ out' = Tail(out)    \* one of these
     \/ UNCHANGED out                     \* a ping, or an acknowledgement
  /\ UNCHANGED <<reg, car, carYear, stale, sess, known, shown, handler, applied,
                 doubt>>

\* Somebody opens a door, the battery drains.
CarChange ==
  /\ \E s \in CarStates(reg) \ {car} : car' = s
  /\ reg # ACModeRegister /\ reg # ChargeTimerRegister
  /\ changes < MaxChanges /\ changes' = changes + 1
  /\ stale' = TRUE
  /\ UNCHANGED <<reg, carYear, session, shown, bad, handler, applied, doubt>>

CarReport ==
  /\ sess = "up" /\ stale /\ Len(in) < InCap
  /\ stale' = FALSE
  /\ in' = Append(in, Update)
  /\ UNCHANGED <<reg, car, carYear, sess, known, out, shown, bounds, handler,
                 applied, doubt>>

-----------------------------------------------------------------------------
Next ==
  \/ Connect \/ Replace \/ StartRequest \/ Start \/ Drop \/ Receive \/ Refresh
  \/ (\E c \in Commands : Command(c))
  \/ Call \/ Put \/ TakeAck \/ TakeBad \/ GiveUp \/ GiveUpLate
  \/ CarTake \/ CarIgnore \/ CarReject \/ CarChange \/ CarReport

Spec == Init /\ [][Next]_vars

\* Goroutines run; a dial ends; a car takes frames in or the session ends; one
\* of the goroutines blocked on Send gets in, first come first served.
Fairness ==
  /\ WF_vars(Connect \/ Replace) /\ WF_vars(Call) /\ SF_vars(Put)
  /\ WF_vars(TakeAck \/ TakeBad \/ Receive) /\ WF_vars(GiveUp)
  /\ WF_vars(CarTake \/ CarIgnore \/ CarReject \/ Drop)

FairSpec == Spec /\ Fairness

-----------------------------------------------------------------------------
\* Frames of the commands about register r, mode and duration in one byte, or in
\* one each; and those on their way to the car, with the request of the ticker.
ModeBytes == {m + d : m \in 0..3, d \in {0, 16, 32}}
ClimateFrames == [reg : {2}, data : {<<b>> : b \in ModeBytes}]
                   \cup {Frame(4, <<1>>), Frame(4, <<2>>)}
                   \cup [reg : {27}, data : {1, 2} \X (0..3) \X {0, 16, 32}]
FramesOf(r) ==
  CASE r = DoorStatusRegister   -> {Frame(10, <<1>>), Frame(10, <<2>>)}
    [] r = BatteryLevelRegister -> {Frame(11, <<1>>), Frame(11, <<2>>)}
    [] r = PreACStateRegister   -> {Frame(19, <<1>>)}
    [] r = ChargeTimerRegister  -> {Frame(23, <<1>>), Frame(23, <<17>>)}
    [] r = ACModeRegister       -> ClimateFrames
    [] OTHER -> {}
Frames == FramesOf(reg) \cup {Frame(UpdateRegister, <<3>>)}

Reports == [type : {"ack"}, reg : Byte]
             \cup [type : {"bad"}] \cup [type : {"update"}, data : Seq(Byte)]

DoorTypes == [DoorFlags -> BOOLEAN]
CarTypes(r) == IF r = DoorStatusRegister THEN DoorTypes ELSE CarStates(r)

CarType ==
  /\ <<reg, carYear>> \in Focus /\ car \in CarTypes(reg)
  /\ {stale, known} \subseteq BOOLEAN /\ sess \in {"new", "linked", "up", "dead"}
  /\ bad \in 0..MaxBad /\ changes \in 0..MaxChanges

QueueType ==
  /\ out \in Seq(Frames) /\ Len(out) <= OutCap
  /\ in \in Seq(Reports) /\ Len(in) <= InCap

CallType ==
  /\ hpc \in {"idle", "call", "put", "wait"} /\ k \in 1..2
  /\ want \in Seq(Frames) /\ Len(want) <= 2
  /\ hpc # "idle" => k \in DOMAIN want
  /\ tie \in {"live", "dropped", "orphan"} /\ res \in {"none", "ok", "doubt", "error"}
  /\ doubt \in BOOLEAN /\ applied \subseteq Frames

ShownType == /\ {"raw", "level", "parking", "remaining"} \subseteq DOMAIN shown
             /\ \A t \in DOMAIN shown : Len(shown[t]) <= 1

\* Every variable keeps its type, and no channel more than it can hold.
TypeOK == CarType /\ QueueType /\ CallType /\ ShownType

\* What README.md promises of the topics for a car in state s.
DoorsShown(s) ==
  /\ shown.locked = <<IF s.locked THEN "closed" ELSE "open">>
  /\ shown.headlights = <<IF s.headlights THEN "on" ELSE "off">>
  /\ \A f \in DoorFlags \ {"locked", "headlights"} :
       shown[f] = <<IF s[f] THEN "open" ELSE "closed">>

BatteryShown(s) ==
  /\ shown.parking = <<IF s.parkingLights THEN "on" ELSE "off">>
  /\ IF s.level \in 6..254 THEN shown.level = <<s.level>> ELSE shown.level # <<s.level>>

ChargeShown(s) ==
  /\ shown.charging = <<IF s.charging THEN "on" ELSE "off">>
  /\ IF s.remaining < 1000 THEN shown.remaining = <<s.remaining>>
                            ELSE shown.remaining # <<s.remaining>>

LightsShown(s) ==
  /\ shown.interior = <<IF s.interior THEN "on" ELSE "off">>
  /\ shown.hazard = <<IF s.hazard THEN "on" ELSE "off">>

ModeShown(s) ==
  shown.mode = <<CASE s.mode = 0 -> "off" [] s.mode = 1 -> "cool"
                   [] s.mode = 2 -> "heat" [] s.mode = 3 -> "windscreen">>

PlugShown(s) == shown.plug = <<IF s THEN "connected" ELSE "unplugged">>

Shows(r, s) ==
  CASE r = DoorStatusRegister   -> DoorsShown(s)
    [] r = BatteryLevelRegister -> BatteryShown(s)
    [] r = ChargeStatusRegister -> ChargeShown(s)
    [] r = ChargePlugRegister   -> PlugShown(s)
    [] r = LightStatusRegister  -> LightsShown(s)
    [] r = PreACStateRegister   -> shown.state = <<s>>
    [] r = ACModeRegister       -> ModeShown(s)
    [] r = VINRegister          -> shown.registrations = <<s.registrations>>
    [] OTHER -> shown.raw = <<CarData(r, s)>>

Told == sess = "up" /\ ~stale /\ \A i \in DOMAIN in : in[i].type # "update"

\* Once everything the car reported has been taken in, the topics say what the
\* car is, through any number of sessions and whatever commands came between;
\* sentinels of level and remaining time are never shown.
ShownCurrent == Told => Shows(reg, car)

\* What Decode makes of the bytes that Encode gives for s, which is not always s.
\* The battery level is lost (three bytes, where Decode wants four); a VIN and a
\* version come back without their last character, a network name with its
\* padding, and a climate mode with the shortest duration, whatever it was.
ReadBack(r, s) ==
  CASE r = DoorStatusRegister     -> DecodeDoorStatus(EncodeDoorStatus(s)) = s
    [] r = ChargeStatusRegister   -> DecodeChargeStatus(EncodeChargeStatus(s)) = s
    [] r = ChargePlugRegister     -> DecodeChargePlug(EncodeChargePlug(s)) = s
    [] r = BatteryWarningRegister -> DecodeBatteryWarning(EncodeBatteryWarning(s)) = s
    [] r = ACOperStatusRegister   -> DecodeACOperStatus(CarData(r, s)) = s
    [] r = WIFISSIDRegister       ->
         DecodeWIFISSID(EncodeWIFISSID(s)) = [i \in 1..32 |-> IF i <= Len(s) THEN s[i] ELSE 0]
    [] r = ACModeRegister         ->
         LET name == ACModes[s.mode + 1]
         IN  DecodeACMode(EncodeACMode([mode |-> name])) = [mode |-> name, duration |-> 10]
    [] r = VINRegister            ->
         DecodeVIN(EncodeVIN(s)) = [vin |-> SubSeq(s.vin, 1, 16),
                                    registrations |-> s.registrations]
    [] r = ECUVersionRegister     -> DecodeECUVersion(EncodeECUVersion(s)) = SubSeq(s, 1, 9)
    [] r = BatteryLevelRegister   ->
         DecodeBatteryLevel(EncodeBatteryLevel(s)) = [level |-> 0, parkingLights |-> FALSE]
    [] OTHER -> TRUE    \* Encode is missing, or Decode

\* Exactly this survives of every state the car comes to, when it is encoded by
\* this repository's Encode and decoded by its Decode: all of doors, charge, plug,
\* warning and operating status (at both its lengths), and of the others no more
\* than ReadBack says.
CodecsKeep == ReadBack(reg, car)

\* A command that ended without an error has been carried out, both its calls
\* if there are two: no ack was taken for that of another frame.  SetRegister
\* tells acks apart by the register only, so a call that begins while an answer
\* to an earlier one is outstanding (timed out, or sent again) is excepted.
OkMeansApplied ==
  hpc = "idle" /\ res = "ok" => \A i \in DOMAIN want : want[i] \in applied

-----------------------------------------------------------------------------
(* The inductive strengthening of the safety properties.                   *)

\* The calls of a command before the current one have been carried out, and what
\* would answer the current one comes from its own frame; unless there is doubt.
OkInv ==
  /\ hpc # "idle" /\ ~doubt => \A j \in 1..(k - 1) : want[j] \in applied
  /\ hpc \in {"put", "wait"} /\ tie = "live" /\ ~doubt =>
       /\ \A i \in DOMAIN out : out[i].reg = want[k].reg => out[i] = want[k]
       /\ \A i \in DOMAIN in : in[i].type = "ack" /\ in[i].reg = want[k].reg
                              => want[k] \in applied

\* The last report on its way tells the car as it is, unless one is due.
LastReport ==
  sess = "up" /\ ~stale =>
    \A i \in DOMAIN in :
      in[i].type = "update" /\ (\A j \in DOMAIN in : j > i => in[j].type # "update")
        => in[i] = Update

\* A sentinel is never shown.
LevelsShown     == 6..254
RemainingsShown == 0..999
NoSentinel == /\ shown.level # <<>> => shown.level[1] \in LevelsShown
              /\ shown.remaining # <<>> => shown.remaining[1] \in RemainingsShown

ControlInv == TypeOK /\ OkInv /\ LastReport /\ NoSentinel /\ ShownCurrent /\ OkMeansApplied

-----------------------------------------------------------------------------
\* A command comes back, so that the next message is handled, unless it is
\* blocked on the Send of a client that has been given up.
CommandEnds ==
  hpc # "idle" ~> hpc = "idle" \/ (hpc = "put" /\ tie # "live")
=============================================================================
