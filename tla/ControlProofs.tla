---------------------------- MODULE ControlProofs ----------------------------
(***************************************************************************)
(* Proofs about Control: the topics show the car, a command that ended     *)
(* well was carried out, and what of each state survives Encode and Decode *)
(* is what ReadBack says; for any readings, capacities and bounds.         *)
(***************************************************************************)
EXTENDS Control, SequenceTheorems, TLAPS

LEMMA Caps == /\ OutCap \in Nat \ {0} /\ InCap \in Nat \ {0}
              /\ MaxBad \in Nat /\ MaxChanges \in Nat
BY ControlAssumption

\* The names of the registers are different numbers.
LEMMA Numbers ==
  /\ DoorStatusRegister = 36 /\ BatteryLevelRegister = 29 /\ ChargeStatusRegister = 31
  /\ ChargePlugRegister = 30 /\ LightStatusRegister = 35 /\ PreACStateRegister = 16
  /\ ACModeRegister = 28 /\ VINRegister = 21 /\ ECUVersionRegister = 192
  /\ BatteryWarningRegister = 2 /\ ACOperStatusRegister = 26 /\ WIFISSIDRegister = 40
  /\ ChargeTimerRegister = 23 /\ UpdateRegister = 6
BY DEF DoorStatusRegister, BatteryLevelRegister, ChargeStatusRegister, ChargePlugRegister,
   LightStatusRegister, PreACStateRegister, ACModeRegister, VINRegister, ECUVersionRegister,
   BatteryWarningRegister, ACOperStatusRegister, WIFISSIDRegister, ChargeTimerRegister,
   UpdateRegister

-----------------------------------------------------------------------------
(* The car and the frames that change it.                                  *)

\* What the registers hold.
LEMMA CarTypesAre ==
  /\ CarTypes(DoorStatusRegister) = DoorTypes
  /\ CarTypes(BatteryLevelRegister) = BatteryStates
  /\ CarTypes(ChargeStatusRegister) = ChargeStates
  /\ CarTypes(ChargePlugRegister) = Flags
  /\ CarTypes(LightStatusRegister) = LightStates
  /\ CarTypes(PreACStateRegister) = {0, 2, 3}
  /\ CarTypes(ACModeRegister) = ClimateStates
  /\ CarTypes(VINRegister) = VINStates
  /\ CarTypes(ECUVersionRegister) = {Text(10)}
  /\ CarTypes(BatteryWarningRegister) = {0, 1, 255}
  /\ CarTypes(ACOperStatusRegister) = Flags
  /\ CarTypes(WIFISSIDRegister) = {Text(12)}
  /\ CarTypes(ChargeTimerRegister) = {<<0>>, <<1>>, <<17>>}
BY Numbers DEF CarTypes, CarStates

LEMMA FramesAre ==
  /\ FramesOf(DoorStatusRegister) = {Frame(10, <<1>>), Frame(10, <<2>>)}
  /\ FramesOf(BatteryLevelRegister) = {Frame(11, <<1>>), Frame(11, <<2>>)}
  /\ FramesOf(PreACStateRegister) = {Frame(19, <<1>>)}
  /\ FramesOf(ChargeTimerRegister) = {Frame(23, <<1>>), Frame(23, <<17>>)}
  /\ FramesOf(ACModeRegister) = ClimateFrames
BY Numbers DEF FramesOf

\* The other registers have none.
LEMMA NoFrames ==
  ASSUME NEW r, r \notin {DoorStatusRegister, BatteryLevelRegister, PreACStateRegister,
                          ChargeTimerRegister, ACModeRegister}
  PROVE  FramesOf(r) = {}
BY DEF FramesOf

\* Four bits each.
LEMMA ModeByte ==
  ASSUME NEW m \in 0..3, NEW d \in {0, 16, 32}
  PROVE  (m + d) % 16 = m /\ 16 * ((m + d) \div 16) = d
OBVIOUS

LEMMA ModeBytesAre ==
  ASSUME NEW b \in ModeBytes
  PROVE  b % 16 \in 0..3 /\ 16 * (b \div 16) \in {0, 16, 32}
BY ModeByte DEF ModeBytes

LEMMA SetFlag ==
  ASSUME NEW f, NEW n
  PROVE  /\ car \in DoorTypes => Switch("headlights", f, n) \in DoorTypes
         /\ car \in BatteryStates => Switch("parkingLights", f, n) \in BatteryStates
         /\ car \in ClimateStates => Switch("on", f, n) \in ClimateStates
<1> DEFINE v == (f.data = <<n>>)
<1>1. v \in BOOLEAN
  OBVIOUS
<1>2. \A g : Switch(g, f, n) = [car EXCEPT ![g] = v]
  BY Zenon DEF Switch
<1> HIDE DEF v
<1> QED BY <1>1, <1>2 DEF DoorTypes, BatteryStates, ClimateStates

LEMMA SetClimate ==
  ASSUME NEW d \in {1, 2} \X (0..3) \X {0, 16, 32}
  PROVE  Climate(d) \in ClimateStates
<1> DEFINE v == (d[1] = 2)
<1>1. v \in BOOLEAN
  OBVIOUS
<1>2. Climate(d) = [mode |-> d[2], duration |-> d[3], on |-> v]
  BY Zenon DEF Climate
<1>3. d[2] \in 0..3 /\ d[3] \in {0, 16, 32}
  OBVIOUS
<1> HIDE DEF v
<1> QED BY <1>1, <1>2, <1>3 DEF ClimateStates

LEMMA SetMode ==
  ASSUME NEW b \in ModeBytes, car \in ClimateStates
  PROVE  ModeOfByte(b) \in ClimateStates
BY ModeBytesAre DEF ClimateStates, ModeOfByte

\* A frame leaves the car with something its register can hold.
LEMMA EffectType ==
  ASSUME CarType, NEW f \in Frames
  PROVE  Effect(f) \in CarTypes(reg)
<1>1. car \in CarTypes(reg)
  BY DEF CarType
<1>2. CASE f = Frame(UpdateRegister, <<3>>)
  <2>1. f.reg = 6
    BY <1>2, Numbers DEF Frame
  <2> QED BY <1>1, <2>1 DEF Effect
<1>3. CASE f \in FramesOf(reg) /\ reg = DoorStatusRegister
  <2>1. f.reg = 10
    BY <1>3, FramesAre DEF Frame
  <2>2. Effect(f) = Switch("headlights", f, 1)
    BY <1>3, <2>1 DEF Effect
  <2> QED BY <1>1, <1>3, <2>2, CarTypesAre, SetFlag
<1>4. CASE f \in FramesOf(reg) /\ reg = BatteryLevelRegister
  <2>1. f.reg = 11
    BY <1>4, FramesAre DEF Frame
  <2>2. Effect(f) = Switch("parkingLights", f, 1)
    BY <1>4, <2>1 DEF Effect
  <2> QED BY <1>1, <1>4, <2>2, CarTypesAre, SetFlag
<1>5. CASE f \in FramesOf(reg) /\ reg = PreACStateRegister
  <2>1. f.reg = 19 /\ car \in {0, 2, 3}
    BY <1>1, <1>5, FramesAre, CarTypesAre DEF Frame
  <2>2. Effect(f) \in {0, 2, 3}
    BY <1>5, <2>1 DEF Effect
  <2> QED BY <1>5, <2>2, CarTypesAre
<1>6. CASE f \in FramesOf(reg) /\ reg = ChargeTimerRegister
  <2>1. f.reg = 23 /\ f.data \in {<<1>>, <<17>>}
    BY <1>6, FramesAre DEF Frame
  <2>2. Effect(f) = f.data
    BY <1>6, <2>1 DEF Effect
  <2> QED BY <1>6, <2>1, <2>2, CarTypesAre
<1>7. CASE f \in FramesOf(reg) /\ reg = ACModeRegister
  <2>1. car \in ClimateStates
    BY <1>1, <1>7, CarTypesAre
  <2>2. CASE f \in [reg : {2}, data : {<<b>> : b \in ModeBytes}]
    <3>1. f.reg = 2 /\ \E b \in ModeBytes : f.data = <<b>>
      BY <2>2
    <3>2. PICK b \in ModeBytes : f.data = <<b>>
      BY <3>1
    <3>3. Effect(f) = ModeOfByte(b)
      BY <3>1, <3>2 DEF Effect
    <3> QED BY <1>7, <2>1, <3>3, SetMode, CarTypesAre
  <2>3. CASE f \in {Frame(4, <<1>>), Frame(4, <<2>>)}
    <3>1. f.reg = 4
      BY <2>3 DEF Frame
    <3>2. Effect(f) = Switch("on", f, 2)
      BY <3>1 DEF Effect
    <3> QED BY <1>7, <2>1, <3>2, CarTypesAre, SetFlag
  <2>4. CASE f \in [reg : {27}, data : {1, 2} \X (0..3) \X {0, 16, 32}]
    <3>1. f.reg = 27 /\ f.data \in {1, 2} \X (0..3) \X {0, 16, 32}
      BY <2>4
    <3>2. Effect(f) = Climate(f.data)
      BY <3>1 DEF Effect
    <3> QED BY <1>7, <3>1, <3>2, CarTypesAre, SetClimate
  <2> QED BY <1>7, <2>2, <2>3, <2>4, FramesAre DEF ClimateFrames
<1> QED
  BY <1>2, <1>3, <1>4, <1>5, <1>6, <1>7, NoFrames DEF Frames

-----------------------------------------------------------------------------
(* The calls of a command.                                                 *)

LEMMA ModeAndDuration ==
  /\ \A n \in DOMAIN ModeMap : ModeMap[n] \in 0..3
  /\ \A p \in DOMAIN DurMap : DurMap[p] \in {0, 16, 32}
<1>1. \A n \in DOMAIN ModeMap : ModeMap[n] \in 0..3
  BY DEF ModeMap
<1>2. \A p \in DOMAIN DurMap : DurMap[p] \in {0, 16, 32}
  BY DEF DurMap
<1> QED BY <1>1, <1>2

LEMMA Short ==
  ASSUME NEW S, NEW x \in S, NEW y \in S
  PROVE  /\ <<x>> \in Seq(S) /\ Len(<<x>>) = 1
         /\ <<x, y>> \in Seq(S) /\ Len(<<x, y>>) = 2
         /\ <<>> \in Seq(S) /\ Len(<<>>) = 0
OBVIOUS

\* Whatever topic and payload say.
LEMMA ClimateCallsType ==
  ASSUME NEW last, NEW payload
  PROVE  /\ ClimateCalls(last, payload) \in Seq(ClimateFrames)
         /\ Len(ClimateCalls(last, payload)) <= 2
<1> DEFINE named == IF last = "mode" THEN payload ELSE last
           p     == IF last = "mode" THEN "on" ELSE payload
           mode  == IF p = "off" THEN 0 ELSE ModeMap[named]
           dur   == IF p \in DOMAIN DurMap THEN DurMap[p] ELSE 0
           s     == IF mode = 0 THEN 1 ELSE 2
           f2    == Frame(2, <<mode + dur>>)
           f4    == Frame(4, IF mode = 0 THEN <<1>> ELSE <<2>>)
           f27   == Frame(27, <<s, mode, dur>>)
<1>1. \/ ClimateCalls(last, payload) = <<>>
      \/ named \in DOMAIN ModeMap /\ ClimateCalls(last, payload) \in {<<f2, f4>>, <<f27>>}
  BY Zenon DEF ClimateCalls
<1>2. ASSUME named \in DOMAIN ModeMap
      PROVE  {f2, f4, f27} \subseteq ClimateFrames
  <2>1. mode \in 0..3 /\ dur \in {0, 16, 32} /\ s \in {1, 2}
    BY <1>2, ModeAndDuration
  <2> HIDE DEF mode, dur, s
  <2>2. f2 \in [reg : {2}, data : {<<b>> : b \in ModeBytes}]
    BY <2>1 DEF Frame, ModeBytes
  <2>3. f4 \in {Frame(4, <<1>>), Frame(4, <<2>>)}
    OBVIOUS
  <2>4. f27 \in [reg : {27}, data : {1, 2} \X (0..3) \X {0, 16, 32}]
    BY <2>1 DEF Frame
  <2> QED BY <2>2, <2>3, <2>4 DEF ClimateFrames
<1> HIDE DEF f2, f4, f27, named
<1>3. CASE ClimateCalls(last, payload) = <<>>
  BY <1>3
<1>4. CASE named \in DOMAIN ModeMap /\ ClimateCalls(last, payload) = <<f2, f4>>
  BY <1>2, <1>4, Short
<1>5. CASE named \in DOMAIN ModeMap /\ ClimateCalls(last, payload) = <<f27>>
  BY <1>2, <1>5, Short
<1> QED BY <1>1, <1>3, <1>4, <1>5

\* A command makes two calls at most, of frames of its register.
LEMMA CommandsType ==
  ASSUME NEW c \in Commands
  PROVE  c \in Seq(Frames) /\ Len(c) <= 2
<1>1. CASE reg = BatteryLevelRegister
  <2>1. c \in {LightCalls(11, "on"), LightCalls(11, "off")}
    BY <1>1, Numbers DEF Commands
  <2>2. \E f \in {Frame(11, <<1>>), Frame(11, <<2>>)} : c = <<f>>
    BY <2>1 DEF LightCalls
  <2> QED BY <1>1, <2>2, FramesAre, Short DEF Frames
<1>2. CASE reg = DoorStatusRegister
  <2>1. c \in {LightCalls(10, "on"), LightCalls(10, "off")}
    BY <1>2, Numbers DEF Commands
  <2>2. \E f \in {Frame(10, <<1>>), Frame(10, <<2>>)} : c = <<f>>
    BY <2>1 DEF LightCalls
  <2> QED BY <1>2, <2>2, FramesAre, Short DEF Frames
<1>3. CASE reg = PreACStateRegister
  <2>1. c = <<Frame(19, <<1>>)>>
    BY <1>3, Numbers DEF Commands
  <2> QED BY <1>3, <2>1, FramesAre DEF Frames
<1>4. CASE reg = ChargeTimerRegister
  <2>1. c = <<Frame(23, <<1>>), Frame(23, <<17>>)>>
    BY <1>4, Numbers DEF Commands
  <2> QED BY <1>4, <2>1, FramesAre DEF Frames
<1>5. CASE reg = ACModeRegister
  <2>1. c \in ClimateCommands
    BY <1>5, Numbers DEF Commands
  <2>2. \E last, p : c = ClimateCalls(last, p)
    BY <2>1, Zenon DEF ClimateCommands
  <2>3. c \in Seq(ClimateFrames) /\ Len(c) <= 2
    BY <2>2, ClimateCallsType
  <2>4. ClimateFrames \subseteq Frames
    BY <1>5, FramesAre DEF Frames
  <2> QED BY <2>3, <2>4
<1>6. CASE reg \notin {BatteryLevelRegister, DoorStatusRegister, PreACStateRegister,
                      ChargeTimerRegister, ACModeRegister}
  BY <1>6 DEF Commands
<1> QED BY <1>1, <1>2, <1>3, <1>4, <1>5, <1>6

-----------------------------------------------------------------------------
(* The data of a report.                                                   *)

LEMMA TextBytes ==
  /\ Text(10) \in Seq(Byte) /\ Len(Text(10)) = 10
  /\ Text(12) \in Seq(Byte) /\ Len(Text(12)) = 12
  /\ Text(17) \in Seq(Byte) /\ Len(Text(17)) = 17
BY DEF Text, Byte

LEMMA Joined ==
  ASSUME NEW s \in Seq(Byte), NEW t \in Seq(Byte)
  PROVE  s \o t \in Seq(Byte)
OBVIOUS

LEMMA BytesInSeq ==
  ASSUME NEW n \in Nat, NEW f \in [1..n -> Byte]
  PROVE  f \in Seq(Byte)
OBVIOUS

LEMMA DataOf ==
  ASSUME NEW s
  PROVE  /\ CarData(DoorStatusRegister, s) = CarDoorData(s)
         /\ CarData(BatteryLevelRegister, s) = Append(EncodeBatteryLevel(s), 3)
         /\ CarData(ChargeStatusRegister, s) = EncodeChargeStatus(s)
         /\ CarData(ChargePlugRegister, s) = EncodeChargePlug(s)
         /\ CarData(LightStatusRegister, s) = CarLightData(s)
         /\ CarData(PreACStateRegister, s) = Cut(<<s, 0, 0>>, 1)
         /\ CarData(ACModeRegister, s) = <<s.mode + s.duration>>
         /\ CarData(VINRegister, s) = CarVINData(s)
         /\ CarData(ECUVersionRegister, s) = EncodeECUVersion(s)
         /\ CarData(BatteryWarningRegister, s) = EncodeBatteryWarning(s)
         /\ CarData(ACOperStatusRegister, s) = Cut(EncodeACOperStatus(s), 2)
         /\ CarData(WIFISSIDRegister, s) = EncodeWIFISSID(s)
         /\ CarData(ChargeTimerRegister, s) = s
BY Numbers DEF CarData

LEMMA DoorData ==
  ASSUME NEW s \in DoorTypes
  PROVE  CarDoorData(s) \in Seq(Byte)
<1>1. CarDoorData(s) \in [1..10 -> Byte]
  BY DEF CarDoorData, Byte
<1> QED BY <1>1, BytesInSeq

\* The high byte of the remaining time is not 0xff.
LEMMA Readings ==
  /\ \A l \in Levels : l \in Byte
  /\ \A m \in Remainings : m \in Nat /\ m \div 256 < 255
BY ControlAssumption

LEMMA FlagBytes ==
  ASSUME NEW s
  PROVE  /\ CarLightData(s) \in Seq(Byte)
         /\ EncodeChargePlug(s) \in Seq(Byte)
         /\ EncodeACOperStatus(s) \in Seq(Byte) /\ Len(EncodeACOperStatus(s)) = 5
BY DEF CarLightData, EncodeChargePlug, EncodeACOperStatus, Byte

LEMMA CutBytes ==
  ASSUME NEW d \in Seq(Byte), NEW n \in 0..Len(d)
  PROVE  Cut(d, n) \in Seq(Byte)
BY DEF Cut

\* What is reported of a state is bytes.
LEMMA DataType ==
  ASSUME CarType
  PROVE  CarData(reg, car) \in Seq(Byte)
<1>1. car \in CarTypes(reg) /\ reg \in Modelled
  BY ControlAssumption DEF CarType
<1>2. CASE reg = DoorStatusRegister
  <2>1. car \in DoorTypes
    BY <1>1, <1>2, CarTypesAre
  <2> QED BY <1>2, <2>1, DataOf, DoorData
<1>3. CASE reg = BatteryLevelRegister
  <2>1. car \in BatteryStates
    BY <1>1, <1>3, CarTypesAre
  <2>2. car.level \in Byte
    BY <2>1, ControlAssumption DEF BatteryStates
  <2>3. EncodeBatteryLevel(car) \in Seq(Byte) /\ 3 \in Byte
    BY <2>2 DEF EncodeBatteryLevel, Byte
  <2>4. Append(EncodeBatteryLevel(car), 3) \in Seq(Byte)
    BY <2>3
  <2> QED BY <1>3, <2>4, DataOf
<1>4. CASE reg = ChargeStatusRegister
  <2>1. car \in ChargeStates
    BY <1>1, <1>4, CarTypesAre
  <2>2. car.remaining \in Remainings \cup {0}
    BY <2>1 DEF ChargeStates
  <2>3. car.remaining \in Nat
    BY <2>2, Readings
  <2>3a. car.remaining % 256 \in Byte /\ (car.remaining \div 256) % 256 \in Byte
    BY <2>3 DEF Byte
  <2>4. <<1, car.remaining % 256, (car.remaining \div 256) % 256>> \in Seq(Byte)
    BY <2>3a DEF Byte
  <2>5. Zeros(3) \in [1..3 -> Byte]
    BY DEF Zeros, Byte
  <2>6. Zeros(3) \in Seq(Byte)
    BY <2>5, BytesInSeq
  <2>7. EncodeChargeStatus(car) \in Seq(Byte)
    BY <2>4, <2>6 DEF EncodeChargeStatus
  <2> QED BY <1>4, <2>7, DataOf
<1>5. CASE reg = ChargePlugRegister
  <2>1. EncodeChargePlug(car) \in Seq(Byte)
    BY FlagBytes
  <2> QED BY <1>5, <2>1, DataOf
<1>6. CASE reg = LightStatusRegister
  <2>1. CarLightData(car) \in Seq(Byte)
    BY FlagBytes
  <2> QED BY <1>6, <2>1, DataOf
<1>7. CASE reg = PreACStateRegister
  <2>1. car \in {0, 2, 3}
    BY <1>1, <1>7, CarTypesAre
  <2>2. <<car, 0, 0>> \in Seq(Byte) /\ 1 \in 0..Len(<<car, 0, 0>>)
    BY <2>1 DEF Byte
  <2> QED BY <1>7, <2>2, DataOf, CutBytes
<1>8. CASE reg = ACModeRegister
  <2>1. car \in ClimateStates
    BY <1>1, <1>8, CarTypesAre
  <2>2. car.mode + car.duration \in Byte
    BY <2>1 DEF ClimateStates, Byte
  <2>3. <<car.mode + car.duration>> \in Seq(Byte)
    BY <2>2
  <2> QED BY <1>8, <2>3, DataOf
<1>9. CASE reg = VINRegister
  <2>1. car \in VINStates
    BY <1>1, <1>9, CarTypesAre
  <2>2. car.vin = Text(17) /\ car.registrations \in {1, 2}
    BY <2>1 DEF VINStates
  <2>3. car.registrations \in Byte /\ 3 \in Byte /\ 1 \in Byte
    BY <2>2 DEF Byte
  <2>4. \A i \in 1..17 : car.vin[i] \in Byte
    BY <2>2, TextBytes
  <2>5. CarVINData(car) \in [1..20 -> Byte]
    BY <2>3, <2>4 DEF CarVINData
  <2>6. CarVINData(car) \in Seq(Byte)
    BY <2>5, BytesInSeq
  <2> QED BY <1>9, <2>6, DataOf
<1>10. CASE reg = ECUVersionRegister
  <2>1. car \in Seq(Byte)
    BY <1>1, <1>10, CarTypesAre, TextBytes
  <2>2. <<17, 0, 0>> \in Seq(Byte)
    BY DEF Byte
  <2>3. EncodeECUVersion(car) \in Seq(Byte)
    BY <2>1, <2>2, Joined DEF EncodeECUVersion
  <2> QED BY <1>10, <2>3, DataOf
<1>11. CASE reg = BatteryWarningRegister
  <2>1. car \in {0, 1, 255}
    BY <1>1, <1>11, CarTypesAre
  <2>2. EncodeBatteryWarning(car) \in Seq(Byte)
    BY <2>1 DEF EncodeBatteryWarning, Byte
  <2> QED BY <1>11, <2>2, DataOf
<1>12. CASE reg = ACOperStatusRegister
  <2> DEFINE d == EncodeACOperStatus(car)
  <2>1. d \in Seq(Byte) /\ Len(d) = 5
    BY FlagBytes
  <2>2. CarData(reg, car) = Cut(d, 2)
    BY <1>12, DataOf
  <2> HIDE DEF d
  <2>3. 2 \in 0..Len(d)
    BY <2>1
  <2> QED BY <2>1, <2>2, <2>3, CutBytes
<1>13. CASE reg = WIFISSIDRegister
  <2>1. car \in Seq(Byte)
    BY <1>1, <1>13, CarTypesAre, TextBytes
  <2>2. 0 \in Byte
    BY DEF Byte
  <2>3. \A i \in 1..32 : i <= Len(car) => car[i] \in Byte
    BY <2>1
  <2>4. EncodeWIFISSID(car) \in [1..32 -> Byte]
    BY <2>2, <2>3 DEF EncodeWIFISSID
  <2>5. EncodeWIFISSID(car) \in Seq(Byte)
    BY <2>4, BytesInSeq
  <2> QED BY <1>13, <2>5, DataOf
<1>14. CASE reg = ChargeTimerRegister
  <2>1. car \in {<<0>>, <<1>>, <<17>>}
    BY <1>1, <1>14, CarTypesAre
  <2>2. <<0>> \in Seq(Byte) /\ <<1>> \in Seq(Byte) /\ <<17>> \in Seq(Byte)
    BY DEF Byte
  <2> QED BY <1>14, <2>1, <2>2, DataOf
<1> QED
  BY <1>1, <1>2, <1>3, <1>4, <1>5, <1>6, <1>7, <1>8, <1>9, <1>10, <1>11, <1>12, <1>13,
     <1>14 DEF Modelled

-----------------------------------------------------------------------------
(* The topics of a report.                                                 *)

LEMMA TopicsAre ==
  ASSUME NEW d
  PROVE  /\ TypeTopics(DoorStatusRegister, d) = DoorTopics(d)
         /\ TypeTopics(BatteryLevelRegister, d) = BatteryTopics(d)
         /\ TypeTopics(ChargeStatusRegister, d) = ChargeTopics(d)
         /\ TypeTopics(ChargePlugRegister, d) = PlugTopics(d)
         /\ TypeTopics(LightStatusRegister, d) = LightTopics(d)
         /\ TypeTopics(PreACStateRegister, d) = [state |-> <<DecodePreACState(d)>>]
         /\ TypeTopics(ACModeRegister, d) = [mode |-> <<DecodeACMode(d).mode>>]
         /\ TypeTopics(VINRegister, d) = VINTopics(d)
         /\ TypeTopics(ECUVersionRegister, d) = [version |-> TextPayload(DecodeECUVersion(d))]
BY Numbers DEF TypeTopics

LEMMA NoTopics ==
  ASSUME NEW r, NEW d,
         r \notin {DoorStatusRegister, BatteryLevelRegister, ChargeStatusRegister,
                   ChargePlugRegister, LightStatusRegister, PreACStateRegister,
                   ACModeRegister, VINRegister, ECUVersionRegister}
  PROVE  TypeTopics(r, d) = <<>>
BY DEF TypeTopics

\* A topic has one payload or none.
LEMMA Payloads ==
  ASSUME NEW b, NEW x
  PROVE  /\ Len(OnOff(b)) = 1 /\ Len(OpenIf(b)) = 1
         /\ Len(<<x>>) = 1 /\ Len(TextPayload(x)) <= 1
BY DEF OnOff, OpenIf, TextPayload

LEMMA DoorTopicsSmall ==
  ASSUME NEW d
  PROVE \A t \in DOMAIN DoorTopics(d) : Len(DoorTopics(d)[t]) <= 1
BY DEF DoorTopics, OnOff, OpenIf

LEMMA TopicsSmall ==
  ASSUME ShownType, NEW r, NEW d
  PROVE  \A t \in DOMAIN TypeTopics(r, d) : Len(TypeTopics(r, d)[t]) <= 1
<1>1. Len(shown.level) <= 1 /\ Len(shown.remaining) <= 1
  BY DEF ShownType
<1>2. CASE r = DoorStatusRegister
  BY <1>2, TopicsAre, DoorTopicsSmall
<1>3. CASE r = BatteryLevelRegister
  <2> DEFINE L == IF DecodeBatteryLevel(d).level > 5 /\ DecodeBatteryLevel(d).level < 255
                  THEN <<DecodeBatteryLevel(d).level>> ELSE shown.level
             P == OnOff(DecodeBatteryLevel(d).parkingLights)
  <2>1. BatteryTopics(d) = [level |-> L, parking |-> P]
    BY DEF BatteryTopics
  <2>2. Len(L) <= 1
    BY <1>1
  <2>3. Len(P) <= 1
    BY DEF OnOff
  <2> HIDE DEF L, P
  <2>4. \A t \in DOMAIN BatteryTopics(d) : Len(BatteryTopics(d)[t]) <= 1
    BY <2>1, <2>2, <2>3
  <2> QED BY <1>3, <2>4, TopicsAre
<1>4. CASE r = ChargeStatusRegister
  <2> DEFINE C == OnOff(DecodeChargeStatus(d).charging)
             R == IF DecodeChargeStatus(d).remaining < 1000
                  THEN <<DecodeChargeStatus(d).remaining>> ELSE shown.remaining
  <2>1. ChargeTopics(d) = [charging |-> C, remaining |-> R]
    BY DEF ChargeTopics
  <2>2. Len(C) <= 1
    BY DEF OnOff
  <2>3. Len(R) <= 1
    BY <1>1
  <2> HIDE DEF C, R
  <2>4. \A t \in DOMAIN ChargeTopics(d) : Len(ChargeTopics(d)[t]) <= 1
    BY <2>1, <2>2, <2>3
  <2> QED BY <1>4, <2>4, TopicsAre
<1>5. CASE r = ChargePlugRegister
  <2>1. \A t \in DOMAIN PlugTopics(d) : Len(PlugTopics(d)[t]) <= 1
    BY DEF PlugTopics
  <2> QED BY <1>5, <2>1, TopicsAre
<1>6. CASE r = LightStatusRegister
  <2> DEFINE I == OnOff(DecodeLightStatus(d).interior)
             H == OnOff(DecodeLightStatus(d).hazard)
  <2>1. LightTopics(d) = [interior |-> I, hazard |-> H]
    BY DEF LightTopics
  <2>2. Len(I) <= 1
    BY DEF OnOff
  <2>3. Len(H) <= 1
    BY DEF OnOff
  <2> HIDE DEF I, H
  <2>4. \A t \in DOMAIN LightTopics(d) : Len(LightTopics(d)[t]) <= 1
    BY <2>1, <2>2, <2>3
  <2> QED BY <1>6, <2>4, TopicsAre
<1>7. CASE r \in {PreACStateRegister, ACModeRegister}
  BY <1>7, TopicsAre
<1>8. CASE r = VINRegister
  <2> DEFINE V == TextPayload(DecodeVIN(d).vin)
             R == <<DecodeVIN(d).registrations>>
  <2>1. VINTopics(d) = [vin |-> V, registrations |-> R]
    BY DEF VINTopics
  <2>2. Len(V) <= 1 /\ Len(R) <= 1
    BY <1>1, Payloads
  <2> HIDE DEF V, R
  <2>3. \A t \in DOMAIN VINTopics(d) : Len(VINTopics(d)[t]) <= 1
    BY <2>1, <2>2
  <2> QED BY <1>8, <2>3, TopicsAre
<1>9. CASE r = ECUVersionRegister
  BY <1>9, TopicsAre, Payloads
<1> QED
  BY <1>2, <1>3, <1>4, <1>5, <1>6, <1>7, <1>8, <1>9, NoTopics

LEMMA PublishedType ==
  ASSUME ShownType, NEW d, shown' = Published(reg, d)
  PROVE  ShownType'
<1> DEFINE T == TypeTopics(reg, d)
<1>1. shown' = [t \in DOMAIN shown \cup DOMAIN T \cup {"raw"} |->
                 IF t = "raw" THEN <<d>> ELSE IF t \in DOMAIN T THEN T[t] ELSE shown[t]]
  BY DEF Published
<1>2. \A t \in DOMAIN T : Len(T[t]) <= 1
  BY TopicsSmall
<1> HIDE DEF T
<1> QED BY <1>1, <1>2 DEF ShownType

-----------------------------------------------------------------------------
(* The types.                                                              *)

LEMMA InitType == Init => TypeOK
<1> SUFFICES ASSUME Init PROVE TypeOK
  OBVIOUS
<1>1. PICK f \in Focus : reg = f[1] /\ carYear = f[2]
  BY DEF Init
<1>2. <<reg, carYear>> \in Focus /\ reg \in Modelled
  BY <1>1, ControlAssumption
<1>3. car \in CarTypes(reg)
  <2>1. car \in Parked(reg)
    BY DEF Init
  <2>2. CASE reg = DoorStatusRegister
    <3>1. car = [g \in DoorFlags |-> FALSE]
      BY <2>1, <2>2, Numbers DEF Parked
    <3>2. car \in DoorTypes
      BY <3>1 DEF DoorTypes
    <3> QED BY <2>2, <3>2, CarTypesAre
  <2>3. CASE reg = ACModeRegister
    <3>1. car = [mode |-> 0, duration |-> 0, on |-> FALSE]
      BY <2>1, <2>3, Numbers DEF Parked
    <3>2. car \in ClimateStates
      BY <3>1 DEF ClimateStates
    <3> QED BY <2>3, <3>2, CarTypesAre
  <2>4. CASE reg = BatteryLevelRegister
    <3>1. car \in ParkedBattery
      BY <2>1, <2>4, Numbers DEF Parked
    <3>2. car \in BatteryStates
      BY <3>1 DEF BatteryStates, ParkedBattery
    <3> QED BY <2>4, <3>2, CarTypesAre
  <2>5. CASE reg \notin {DoorStatusRegister, ACModeRegister, BatteryLevelRegister}
    BY <2>1, <2>5 DEF Parked, CarTypes
  <2> QED BY <2>2, <2>3, <2>4, <2>5
<1>4. stale = FALSE /\ known = FALSE /\ sess = "new" /\ bad = 0 /\ changes = 0
  BY DEF Init
<1>5. CarType
  <2>1. {stale, known} \subseteq BOOLEAN
    BY <1>4, Zenon
  <2>2. bad \in 0..MaxBad /\ changes \in 0..MaxChanges
    BY <1>4, Caps
  <2> QED BY <1>2, <1>3, <1>4, <2>1, <2>2, Zenon DEF CarType
<1>6. out = <<>> /\ in = <<>>
  BY DEF Init
<1>7. QueueType
  BY <1>6, Caps DEF QueueType
<1>8. CallType
  <2>1. want = <<>> /\ k = 1 /\ applied = {} /\ hpc = "idle" /\ tie = "orphan" /\ res = "none"
    BY DEF Init
  <2>2. doubt \in BOOLEAN
    BY Zenon DEF Init
  <2> QED BY <2>1, <2>2 DEF CallType
<1>9. ShownType
  BY DEF ShownType, Init
<1> QED BY <1>5, <1>7, <1>8, <1>9 DEF TypeOK

\* No state of a register is outside its type.
LEMMA StatesInTypes ==
  ASSUME NEW r
  PROVE  CarStates(r) \subseteq CarTypes(r)
<1>1. DoorStates \subseteq DoorTypes
  <2> DEFINE D(g) == [f \in DoorFlags |-> f = g]
  <2>1. \A g : D(g) \in DoorTypes
    BY Zenon DEF DoorTypes
  <2>2. \A s \in DoorStates : \E g : s = D(g)
    BY Zenon DEF DoorStates
  <2> HIDE DEF D
  <2> QED BY <2>1, <2>2
<1>2. CarStates(DoorStatusRegister) = DoorStates
  BY Numbers DEF CarStates
<1> QED BY <1>1, <1>2, CarTypesAre DEF CarTypes

LEMMA CarStep ==
  ASSUME TypeOK, [Next]_vars
  PROVE  CarType'
<1> USE DEF TypeOK, CarType
<1>1. CASE Connect
  BY <1>1 DEF Connect, bounds
<1>2. CASE Replace
  BY <1>2 DEF Replace, bounds
<1>3. CASE StartRequest
  BY <1>3 DEF StartRequest, bounds
<1>4. CASE Start
  BY <1>4 DEF Start, bounds
<1>5. CASE Drop
  BY <1>5 DEF Drop, bounds
<1>6. CASE CarTake
  <2>1. out[1] \in Frames
    BY <1>6 DEF CarTake, QueueType
  <2>2. car' \in CarTypes(reg)
    BY <1>6, <2>1, EffectType DEF CarTake
  <2>3. stale' \in BOOLEAN
    BY <1>6, Zenon DEF CarTake
  <2> QED BY <1>6, <2>2, <2>3 DEF CarTake, bounds
<1>7. CASE CarReject
  BY <1>7, Caps DEF CarReject
<1>8. CASE CarChange
  BY <1>8, Caps, StatesInTypes DEF CarChange, session
<1>9. CASE CarReport
  BY <1>9 DEF CarReport, bounds
<1>10. CASE UNCHANGED <<reg, car, carYear, stale, sess, known, bounds>>
  BY <1>10 DEF bounds
<1>11. \/ Connect \/ Replace \/ StartRequest \/ Start \/ Drop \/ CarTake \/ CarReject
       \/ CarChange \/ CarReport \/ UNCHANGED <<reg, car, carYear, stale, sess, known, bounds>>
  BY DEF Next, Receive, Refresh, Command, Call, Put, TakeAck, TakeBad, GiveUp, GiveUpLate,
     CarIgnore, vars, session
<1> QED
  BY <1>1, <1>2, <1>3, <1>4, <1>5, <1>6, <1>7, <1>8, <1>9, <1>10, <1>11

LEMMA ShownStep ==
  ASSUME TypeOK, [Next]_vars
  PROVE  ShownType'
<1>1. CASE Receive
  BY <1>1, PublishedType DEF Receive, TypeOK
<1>2. CASE UNCHANGED shown
  BY <1>2 DEF TypeOK, ShownType
<1>3. Receive \/ UNCHANGED shown
  BY DEF Next, Connect, Replace, StartRequest, Start, Drop, Refresh, Command, Call, Put,
     TakeAck, TakeBad, GiveUp, GiveUpLate, CarTake, CarIgnore, CarReject, CarChange,
     CarReport, vars
<1> QED BY <1>1, <1>2, <1>3

LEMMA RegStays ==
  ASSUME [Next]_vars
  PROVE  reg' = reg /\ carYear' = carYear /\ Frames' = Frames
<1>1. reg' = reg /\ carYear' = carYear
  BY DEF Next, Connect, Replace, StartRequest, Start, Drop, Receive, Refresh, Command, Call,
     Put, TakeAck, TakeBad, GiveUp, GiveUpLate, CarTake, CarIgnore, CarReject, CarChange,
     CarReport, vars
<1> QED BY <1>1 DEF Frames

\* What the car sends back is of the kinds of Reports.
LEMMA FrameReg ==
  ASSUME NEW f \in Frames
  PROVE  f.reg \in Byte
<1>1. \A n \in {2, 4, 6, 10, 11, 19, 23, 27} : n \in Byte
  BY DEF Byte
<1>2. \A g \in ClimateFrames : g.reg \in {2, 4, 27}
  BY DEF ClimateFrames, Frame
<1>3. \A g \in FramesOf(reg) : g.reg \in {2, 4, 10, 11, 19, 23, 27}
  BY <1>2, FramesAre, NoFrames DEF Frame
<1>4. Frame(UpdateRegister, <<3>>).reg = 6
  BY Numbers DEF Frame
<1> QED BY <1>1, <1>3, <1>4 DEF Frames

LEMMA ReportTypes ==
  ASSUME CarType
  PROVE  /\ \A f \in Frames : [type |-> "ack", reg |-> f.reg] \in Reports
         /\ [type |-> "bad"] \in Reports
         /\ Update \in Reports
BY FrameReg, DataType DEF Reports, Update

\* Putting something into a channel that has room, and taking something out.
LEMMA Moves ==
  ASSUME NEW S, NEW q \in Seq(S), NEW n \in Nat, Len(q) <= n
  PROVE  /\ \A x \in S : Len(q) < n => Append(q, x) \in Seq(S) /\ Len(Append(q, x)) <= n
         /\ q # <<>> => Tail(q) \in Seq(S) /\ Len(Tail(q)) < n
         /\ q # <<>> => q[1] \in S
OBVIOUS

LEMMA QueueStep ==
  ASSUME TypeOK, [Next]_vars
  PROVE  QueueType'
<1> DEFINE OutOK(q) == q \in Seq(Frames) /\ Len(q) <= OutCap
           InOK(q) == q \in Seq(Reports) /\ Len(q) <= InCap
<1>1. OutOK(out) /\ InOK(in) /\ CarType /\ (hpc # "idle" => want[k] \in Frames)
  BY DEF TypeOK, CallType, QueueType
<1>2. ASSUME OutOK(out'), InOK(in')
      PROVE  QueueType'
  BY <1>2, RegStays DEF QueueType
<1>3. OutOK(<<>>) /\ InOK(<<>>)
  BY Caps
<1>4. /\ out # <<>> => OutOK(Tail(out)) /\ out[1] \in Frames
      /\ in # <<>> => InOK(Tail(in))
  BY <1>1, Caps, Moves
<1>5. /\ \A f \in Frames : Len(out) < OutCap => OutOK(Append(out, f))
      /\ \A r \in Reports : Len(in) < InCap => InOK(Append(in, r))
  BY <1>1, Caps, Moves
<1>6. \A f \in Frames : out # <<>> => OutOK(Append(Tail(out), f))
  BY <1>1, Caps
<1>7. Len(out) = OutCap => out # <<>>
  BY Caps
<1> HIDE DEF OutOK, InOK
<1>8. CASE Replace \/ Drop
  BY <1>1, <1>2, <1>3, <1>8 DEF Replace, Drop
<1>9. CASE Receive \/ TakeAck
  BY <1>1, <1>2, <1>4, <1>9 DEF Receive, TakeAck
<1>10. CASE Refresh
  <2>1. Frame(UpdateRegister, <<3>>) \in Frames
    BY DEF Frames
  <2> QED BY <1>1, <1>2, <1>5, <1>10, <2>1 DEF Refresh
<1>11. CASE Call
  BY <1>1, <1>2, <1>5, <1>6, <1>7, <1>11 DEF Call
<1>12. CASE Put
  BY <1>1, <1>2, <1>5, <1>12 DEF Put
<1>13. CASE TakeBad
  BY <1>1, <1>2, <1>4, <1>5, <1>13 DEF TakeBad
<1>14. CASE CarTake
  BY <1>1, <1>2, <1>4, <1>5, <1>14, ReportTypes DEF CarTake
<1>15. CASE CarIgnore
  BY <1>1, <1>2, <1>4, <1>15 DEF CarIgnore
<1>16. CASE CarReject
  BY <1>1, <1>2, <1>4, <1>5, <1>16, ReportTypes DEF CarReject
<1>17. CASE CarReport
  BY <1>1, <1>2, <1>5, <1>17, ReportTypes DEF CarReport
<1>18. CASE UNCHANGED <<out, in>>
  BY <1>1, <1>2, <1>18
<1>19. \/ Replace \/ Drop \/ Receive \/ TakeAck \/ Refresh \/ Call \/ Put \/ TakeBad \/ CarTake
       \/ CarIgnore \/ CarReject \/ CarReport \/ UNCHANGED <<out, in>>
  BY DEF Next, Connect, StartRequest, Start, Command, GiveUp, GiveUpLate, CarChange, vars,
     session
<1> QED
  BY <1>8, <1>9, <1>10, <1>11, <1>12, <1>13, <1>14, <1>15, <1>16, <1>17, <1>18, <1>19

LEMMA CallStep ==
  ASSUME TypeOK, [Next]_vars
  PROVE  CallType'
<1> USE RegStays
<1>1. CallType
  BY DEF TypeOK
<1>2. CASE Replace \/ Drop
  BY <1>1, <1>2 DEF Replace, Drop, Untied, CallType
<1>3. CASE \E c \in Commands : Command(c)
  <2>1. PICK c \in Commands : Command(c)
    BY <1>3
  <2>2. c \in Seq(Frames) /\ Len(c) <= 2 /\ c # <<>>
    BY <2>1, CommandsType DEF Command
  <2>3. 1 \in DOMAIN c
    BY <2>2
  <2>4. doubt' \in BOOLEAN
    BY <2>1, Zenon DEF Command
  <2> QED BY <1>1, <2>1, <2>2, <2>3, <2>4 DEF Command, CallType
<1>4. CASE Call
  <2>1. doubt' \in BOOLEAN
    BY <1>4, Zenon DEF Call
  <2>2. hpc' \in {"wait", "put"} /\ tie' \in {"live", "orphan"}
    BY <1>4 DEF Call
  <2>3. UNCHANGED <<want, k, res, applied>> /\ hpc # "idle"
    BY <1>4 DEF Call
  <2> QED BY <1>1, <2>1, <2>2, <2>3 DEF CallType
<1>5. CASE Put
  BY <1>1, <1>5 DEF Put, CallType
<1>6. CASE TakeAck /\ Answers /\ Succeed
  <2>1. UNCHANGED <<want, tie, applied, doubt>>
    BY <1>6 DEF TakeAck, Succeed
  <2>2. hpc' \in {"call", "idle"} /\ res' \in {res, "doubt", "ok"}
    BY <1>6 DEF Succeed
  <2>3. k' \in 1..2 /\ (hpc' # "idle" => k' \in DOMAIN want)
    BY <1>1, <1>6 DEF Succeed, CallType
  <2> QED BY <1>1, <2>1, <2>2, <2>3 DEF CallType
<1>7. CASE TakeBad
  BY <1>1, <1>7 DEF TakeBad, CallType
<1>8. CASE GiveUp \/ GiveUpLate
  BY <1>1, <1>8 DEF GiveUp, GiveUpLate, Fail, CallType
<1>9. CASE CarTake
  <2>1. out[1] \in Frames
    BY <1>9 DEF CarTake, TypeOK, QueueType
  <2>2. applied' \subseteq Frames
    BY <1>1, <1>9, <2>1 DEF CarTake, CallType
  <2>3. UNCHANGED <<handler, doubt>>
    BY <1>9 DEF CarTake
  <2> QED BY <1>1, <2>2, <2>3 DEF CallType, handler
<1>10. CASE UNCHANGED <<handler, applied, doubt>>
  BY <1>1, <1>10 DEF CallType, handler
<1>11. \/ Replace \/ Drop \/ (\E c \in Commands : Command(c)) \/ Call \/ Put
       \/ (TakeAck /\ Answers /\ Succeed) \/ TakeBad \/ GiveUp \/ GiveUpLate \/ CarTake
       \/ UNCHANGED <<handler, applied, doubt>>
  BY DEF Next, Connect, StartRequest, Start, Receive, Refresh, TakeAck, CarIgnore, CarReject,
     CarChange, CarReport, vars
<1> QED BY <1>2, <1>3, <1>4, <1>5, <1>6, <1>7, <1>8, <1>9, <1>10, <1>11

LEMMA TypeStep == TypeOK /\ [Next]_vars => TypeOK'
BY CarStep, QueueStep, CallStep, ShownStep DEF TypeOK

\* Every variable keeps its type, and no channel more than it can hold.
THEOREM TypeCorrect == Spec => []TypeOK
BY InitType, TypeStep, PTL DEF Spec

-----------------------------------------------------------------------------
(* A command that ended well was carried out.                              *)

OkAll == OkInv /\ OkMeansApplied

\* What OkInv says of the answers on their way to call j of the command.
Own(j) ==
  /\ \A i \in DOMAIN out : out[i].reg = want[j].reg => out[i] = want[j]
  /\ \A i \in DOMAIN in : in[i].type = "ack" /\ in[i].reg = want[j].reg
                         => want[j] \in applied

LEMMA OkAllUnfolded ==
  OkAll <=> /\ hpc # "idle" /\ ~doubt => \A j \in 1..(k - 1) : want[j] \in applied
            /\ hpc \in {"put", "wait"} /\ tie = "live" /\ ~doubt => Own(k)
            /\ hpc = "idle" /\ res = "ok" => \A i \in DOMAIN want : want[i] \in applied
BY DEF OkAll, OkInv, OkMeansApplied, Own

\* Its last call answered, the whole command has been carried out.
LEMMA OkAnswered ==
  ASSUME TypeOK, OkAll, TakeAck, Answers, Succeed
  PROVE  OkAll'
<1>1. /\ k \in DOMAIN want /\ k \in Nat /\ want \in Seq(Frames)
      /\ in # <<>> /\ in \in Seq(Reports) /\ hpc = "wait" /\ tie = "live"
  BY DEF TypeOK, QueueType, CallType, TakeAck, Answers
<1>2. ~doubt => \A j \in 1..k : want[j] \in applied
  <2> SUFFICES ASSUME ~doubt PROVE \A j \in 1..k : want[j] \in applied
    OBVIOUS
  <2>1. Own(k) /\ \A j \in 1..(k - 1) : want[j] \in applied
    BY <1>1, OkAllUnfolded
  <2>2. 1 \in DOMAIN in /\ in[1].type = "ack" /\ in[1].reg = want[k].reg
    BY <1>1 DEF TakeAck, Answers
  <2>3. want[k] \in applied
    BY <2>1, <2>2 DEF Own
  <2> QED BY <1>1, <2>1, <2>3
<1>3. UNCHANGED <<want, applied, doubt, tie>>
  BY DEF TakeAck, Succeed
<1>4. CASE k < Len(want)
  <2>1. hpc' = "call" /\ k' = k + 1
    BY <1>4 DEF Succeed
  <2> QED BY <1>1, <1>2, <1>3, <2>1 DEF OkAll, OkInv, OkMeansApplied
<1>5. CASE ~(k < Len(want))
  <2>1. hpc' = "idle" /\ (res' = "ok" => ~doubt)
    BY <1>5 DEF Succeed
  <2>2. DOMAIN want = 1..k
    BY <1>1, <1>5
  <2> QED BY <1>1, <1>2, <1>3, <2>1, <2>2 DEF OkAll, OkInv, OkMeansApplied
<1> QED BY <1>4, <1>5

LEMMA Elements ==
  ASSUME NEW S, NEW q \in Seq(S)
  PROVE  /\ \A x \in S : \A i \in DOMAIN Append(q, x) :
              Append(q, x)[i] = x \/ \E j \in DOMAIN q : Append(q, x)[i] = q[j]
         /\ q # <<>> => \A i \in DOMAIN Tail(q) : \E j \in DOMAIN q : Tail(q)[i] = q[j]
OBVIOUS

\* Only the frame of the call comes to the frames of its register, and only
\* what has been carried out to the acknowledgements.
LEMMA OwnKept ==
  ASSUME Own(k), UNCHANGED <<want, k>>, applied \subseteq applied',
         \A i \in DOMAIN out' : \/ out'[i] = want[k] \/ out'[i].reg # want[k].reg
                                \/ \E j \in DOMAIN out : out'[i] = out[j],
         \A i \in DOMAIN in' : \/ in'[i].type # "ack" \/ in'[i].reg # want[k].reg
                               \/ want[k] \in applied'
                               \/ \E j \in DOMAIN in : in'[i] = in[j]
  PROVE  Own(k)'
BY DEF Own

LEMMA OkKept ==
  ASSUME OkAll, UNCHANGED <<want, k, res, doubt>>, applied \subseteq applied',
         hpc = "idle" <=> hpc' = "idle",
         /\ hpc \in {"put", "wait"} /\ tie = "live" /\ ~doubt /\ Own(k)
            /\ hpc' \in {"put", "wait"} /\ tie' = "live" => Own(k)',
         hpc' \in {"put", "wait"} /\ tie' = "live" => hpc \in {"put", "wait"} /\ tie = "live"
  PROVE  OkAll'
BY OkAllUnfolded DEF OkAll, OkInv, OkMeansApplied, Own

LEMMA UpdateFrame ==
  ASSUME NEW f \in Frames, f.reg = UpdateRegister
  PROVE  f = Frame(UpdateRegister, <<3>>)
<1>1. \A g \in ClimateFrames : g.reg \in {2, 4, 27}
  BY DEF ClimateFrames, Frame
<1>2. \A g \in FramesOf(reg) : g.reg \in {2, 4, 10, 11, 19, 23, 27}
  BY <1>1, FramesAre, NoFrames DEF Frame
<1> QED BY <1>2, Numbers DEF Frames

LEMMA OkStep ==
  ASSUME TypeOK, OkAll, [Next]_vars
  PROVE  OkAll'
<1>1. /\ k \in Nat /\ want \in Seq(Frames) /\ out \in Seq(Frames) /\ in \in Seq(Reports)
      /\ hpc # "idle" => k \in DOMAIN want /\ want[k] \in Frames
  BY DEF TypeOK, QueueType, CallType
<1>2. CASE Replace \/ Drop
  BY <1>2, OkKept DEF Replace, Drop, Untied
<1>3. CASE Receive
  BY <1>1, <1>3, OkKept, OwnKept, Elements DEF Receive, handler
<1>4. CASE Refresh
  <2> DEFINE f == Frame(UpdateRegister, <<3>>)
  <2>1. f \in Frames /\ f.reg = UpdateRegister
    BY DEF Frames, Frame
  <2>2. hpc # "idle" /\ f.reg = want[k].reg => f = want[k]
    BY <1>1, <2>1, UpdateFrame
  <2>3. UNCHANGED <<in, handler, applied, doubt>> /\ out' = Append(out, f)
    BY <1>4 DEF Refresh
  <2> HIDE DEF f
  <2>4. \A i \in DOMAIN out' : out'[i] = f \/ \E j \in DOMAIN out : out'[i] = out[j]
    BY <1>1, <2>1, <2>3, Elements
  <2>5. hpc # "idle" /\ Own(k) => Own(k)'
    BY <2>2, <2>3, <2>4, OwnKept DEF handler
  <2> QED BY <2>3, <2>5, OkKept DEF handler
<1>5. CASE \E c \in Commands : Command(c)
  BY <1>5 DEF Command, OkAll, OkInv, OkMeansApplied
<1>6. CASE Call
  <2>1. UNCHANGED <<want, k, res, applied, in>> /\ hpc = "call" /\ hpc' \in {"wait", "put"}
    BY <1>6 DEF Call
  <2>2. CASE doubt' \/ tie' # "live"
    BY <2>1, <2>2, <1>6, OkAllUnfolded DEF Call, OkAll, OkInv, OkMeansApplied
  <2>3. CASE ~doubt' /\ tie' = "live"
    <3>1. ~doubt /\ ~Outstanding(want[k].reg) /\ sess # "dead"
      BY <1>6, <2>3 DEF Call
    <3>2. out' = Append(out, want[k]) \/ out' = out
      BY <1>6, <3>1 DEF Call
    <3>3. \A i \in DOMAIN out' : out'[i] = want[k] \/ \E j \in DOMAIN out : out'[i] = out[j]
      <4>1. CASE out' = Append(out, want[k])
        BY <1>1, <2>1, <4>1, Elements
      <4>2. CASE out' = out
        BY <4>2
      <4> QED BY <3>2, <4>1, <4>2
    <3>4. Own(k)'
      BY <2>1, <3>1, <3>3 DEF Own, Outstanding
    <3>5. \A j \in 1..(k - 1) : want[j] \in applied
      BY <2>1, <3>1, OkAllUnfolded
    <3> QED BY <2>1, <3>4, <3>5 DEF OkAll, OkInv, OkMeansApplied, Own
  <2> QED BY <2>2, <2>3
<1>7. CASE Put
  <2>1. \A i \in DOMAIN out' : out'[i] = want[k] \/ \E j \in DOMAIN out : out'[i] = out[j]
    BY <1>1, <1>7, Elements DEF Put
  <2> QED BY <1>7, <2>1, OkKept, OwnKept DEF Put
<1>8. CASE TakeAck
  <2>1. CASE Answers
    BY <1>8, <2>1, OkAnswered DEF TakeAck
  <2>2. CASE ~Answers
    BY <1>1, <1>8, <2>2, OkKept, OwnKept, Elements DEF TakeAck, handler
  <2> QED BY <2>1, <2>2
<1>9. CASE TakeBad
  <2>1. \A i \in DOMAIN in' : \E j \in DOMAIN in : in'[i] = in[j]
    BY <1>1, <1>9, Elements DEF TakeBad
  <2>2. \A i \in DOMAIN out' : out'[i] = want[k] \/ \E j \in DOMAIN out : out'[i] = out[j]
    <3>1. CASE want[k] \in Frames /\ out' = Append(out, want[k])
      BY <1>1, <3>1, Elements
    <3>2. CASE out' = out
      BY <3>2
    <3> QED BY <1>1, <1>9, <3>1, <3>2 DEF TakeBad
  <2>3. /\ UNCHANGED <<want, k, tie, res, applied, doubt>>
        /\ hpc' = hpc \/ (hpc = "wait" /\ hpc' = "put")
    BY <1>9 DEF TakeBad
  <2>4. Own(k) => Own(k)'
    BY <2>1, <2>2, <2>3, OwnKept
  <2> QED BY <2>3, <2>4, OkKept
<1>10. CASE GiveUp \/ GiveUpLate
  BY <1>10 DEF GiveUp, GiveUpLate, Fail, OkAll, OkInv, OkMeansApplied
<1>11. CASE CarTake
  <2> DEFINE a == [type |-> "ack", reg |-> out[1].reg]
  <2>1. UNCHANGED <<handler, doubt>> /\ in' = Append(in, a) /\ out' = Tail(out) /\ out # <<>>
    BY <1>11 DEF CarTake
  <2>2. /\ applied \subseteq applied'
        /\ \A j \in DOMAIN want : want[j] = out[1] => out[1] \in applied'
    BY <1>11 DEF CarTake
  <2>3. \A i \in DOMAIN out' : \E j \in DOMAIN out : out'[i] = out[j]
    BY <1>1, <2>1, Elements
  <2>4. out[1] \in Frames /\ 1 \in DOMAIN out
    BY <1>1, <2>1
  <2>5. \A i \in DOMAIN in' : in'[i] = a \/ \E j \in DOMAIN in : in'[i] = in[j]
    BY <1>1, <2>1, <2>4, Elements, ReportTypes DEF TypeOK
  <2>6. a.reg = out[1].reg
    OBVIOUS
  <2> HIDE DEF a
  <2>7. hpc # "idle" /\ Own(k) /\ a.reg = want[k].reg => want[k] \in applied'
    BY <1>1, <2>2, <2>4, <2>6 DEF Own
  <2>8. hpc # "idle" /\ Own(k) => Own(k)'
    BY <2>1, <2>2, <2>3, <2>5, <2>7, OwnKept DEF handler
  <2> QED BY <2>1, <2>2, <2>8, OkKept DEF handler
<1>12. CASE CarIgnore
  BY <1>1, <1>12, OkKept, OwnKept, Elements DEF CarIgnore, handler
<1>13. CASE CarReject
  <2> DEFINE b == [type |-> "bad"]
  <2>1. b.type = "bad"
    OBVIOUS
  <2>2. UNCHANGED <<handler, applied, doubt>> /\ in' = Append(in, b)
    BY <1>13 DEF CarReject
  <2>3. \A i \in DOMAIN out' : \E j \in DOMAIN out : out'[i] = out[j]
    <3>1. CASE out # <<>> /\ out' = Tail(out)
      BY <1>1, <3>1, Elements
    <3>2. CASE out' = out
      BY <3>2
    <3> QED BY <1>13, <3>1, <3>2 DEF CarReject
  <2>4. \A i \in DOMAIN in' : in'[i] = b \/ \E j \in DOMAIN in : in'[i] = in[j]
    BY <1>1, <2>2, Elements, ReportTypes DEF TypeOK
  <2> HIDE DEF b
  <2>5. Own(k) => Own(k)'
    BY <2>1, <2>2, <2>3, <2>4, OwnKept DEF handler
  <2> QED BY <2>2, <2>5, OkKept DEF handler
<1>14. CASE CarReport
  <2>1. Update.type = "update"
    BY DEF Update
  <2>2. \A i \in DOMAIN in' : in'[i] = Update \/ \E j \in DOMAIN in : in'[i] = in[j]
    BY <1>1, <1>14, Elements, ReportTypes DEF CarReport, TypeOK
  <2>3. UNCHANGED <<handler, out, applied, doubt>>
    BY <1>14 DEF CarReport
  <2>4. Own(k) => Own(k)'
    BY <2>1, <2>2, <2>3, OwnKept DEF handler
  <2> QED BY <2>3, <2>4, OkKept DEF handler
<1>15. CASE UNCHANGED <<out, in, handler, applied, doubt>>
  BY <1>15 DEF handler, OkAll, OkInv, OkMeansApplied
<1>16. \/ Replace \/ Drop \/ Receive \/ Refresh \/ (\E c \in Commands : Command(c)) \/ Call \/ Put
       \/ TakeAck \/ TakeBad \/ GiveUp \/ GiveUpLate \/ CarTake \/ CarIgnore \/ CarReject
       \/ CarReport \/ UNCHANGED <<out, in, handler, applied, doubt>>
  BY DEF Next, Connect, StartRequest, Start, CarChange, vars, session
<1> QED
  BY <1>2, <1>3, <1>4, <1>5, <1>6, <1>7, <1>8, <1>9, <1>10, <1>11, <1>12, <1>13, <1>14,
     <1>15, <1>16

\* A command that ended without an error and without doubt has been carried out.
THEOREM CommandApplied == Spec => []OkMeansApplied
<1>1. Init => OkAll
  BY DEF Init, OkAll, OkInv, OkMeansApplied
<1>2. TypeOK /\ OkAll /\ [Next]_vars => OkAll'
  BY OkStep
<1>3. OkAll => OkMeansApplied
  BY DEF OkAll
<1> QED BY <1>1, <1>2, <1>3, TypeCorrect, PTL DEF Spec

-----------------------------------------------------------------------------
(* What is encoded is decoded.                                             *)

\* Each flag of the door register has a byte of its own, and the car's are
\* where Decode looks for them.
LEMMA DoorBytes ==
  /\ \A f \in DoorFlags : DoorByte[f] \in 0..9
  /\ \A f, g \in DoorFlags : DoorByte[f] = DoorByte[g] => f = g
  /\ \A f \in DoorFlags : CarDoorByte[f] = DoorByte[f] + 1
BY DEF DoorFlags, DoorByte, CarDoorByte

LEMMA SameFunction ==
  ASSUME NEW S, NEW F, NEW G, F = [x \in S |-> F[x]], G = [x \in S |-> G[x]],
         \A x \in S : F[x] = G[x]
  PROVE  F = G
OBVIOUS

LEMMA DoorRead ==
  ASSUME NEW s \in DoorTypes, NEW d, Len(d) = 10,
         \A f \in DoorFlags : d[DoorByte[f] + 1] = 1 <=> s[f]
  PROVE  DecodeDoorStatus(d) = s
<1> DEFINE D == DecodeDoorStatus(d)
<1>1. D = [f \in DoorFlags |-> D[f]]
  BY Zenon DEF DecodeDoorStatus
<1>2. \A f \in DoorFlags : D[f] \in BOOLEAN /\ (D[f] <=> s[f])
  BY Zenon DEF DecodeDoorStatus, At
<1>3. s = [f \in DoorFlags |-> s[f]] /\ \A f \in DoorFlags : s[f] \in BOOLEAN
  BY DEF DoorTypes
<1> HIDE DEF D
<1>4. \A f \in DoorFlags : D[f] = s[f]
  BY <1>2, <1>3, Zenon
<1>5. D = s
  BY <1>1, <1>3, <1>4, SameFunction
<1> QED BY <1>5 DEF D

LEMMA DoorReadBack ==
  ASSUME NEW s \in DoorTypes
  PROVE  DecodeDoorStatus(EncodeDoorStatus(s)) = s
<1> DEFINE d == EncodeDoorStatus(s)
<1>1. Len(d) = 10 /\ \A i \in 1..10 : d[i] = 1 <=> \E f \in DoorFlags : s[f] /\ DoorByte[f] = i - 1
  BY DEF EncodeDoorStatus
<1> HIDE DEF d
<1>2. \A f \in DoorFlags : d[DoorByte[f] + 1] = 1 <=> s[f]
  BY <1>1, DoorBytes
<1> QED BY <1>1, <1>2, DoorRead DEF d

LEMMA CarDoorReadBack ==
  ASSUME NEW s \in DoorTypes
  PROVE  DecodeDoorStatus(CarDoorData(s)) = s
<1> DEFINE d == CarDoorData(s)
<1>1. Len(d) = 10 /\ \A i \in 1..10 : d[i] = 1 <=> \E f \in DoorFlags : s[f] /\ CarDoorByte[f] = i
  BY DEF CarDoorData
<1> HIDE DEF d
<1>2. \A f \in DoorFlags : d[DoorByte[f] + 1] = 1 <=> s[f]
  BY <1>1, DoorBytes
<1> QED BY <1>1, <1>2, DoorRead DEF d

\* The minutes of the remaining time go through their two bytes.
LEMMA TwoBytes ==
  ASSUME NEW m \in Nat, m \div 256 < 255
  PROVE  /\ (m \div 256) % 256 = m \div 256
         /\ m = 256 * (m \div 256) + (m % 256)
<1> DEFINE q == m \div 256
<1>1. q \in Nat /\ q < 255 /\ m % 256 \in 0..255
  OBVIOUS
<1>2. m = 256 * q + (m % 256)
  BY Z3
<1> HIDE DEF q
<1>3. q % 256 = q
  BY <1>1
<1> QED BY <1>2, <1>3, Zenon DEF q

LEMMA ChargeDecoded ==
  ASSUME NEW d, Len(d) = 3, NEW c \in BOOLEAN, c <=> At(d, 0) = 1, NEW m,
         m = IF At(d, 2) = 255 THEN 0 ELSE 256 * At(d, 2) + At(d, 1)
  PROVE  DecodeChargeStatus(d) = [charging |-> c, remaining |-> m]
<1> DEFINE v == At(d, 0) = 1
           n == IF At(d, 2) = 255 THEN 0 ELSE 256 * At(d, 2) + At(d, 1)
<1>1. DecodeChargeStatus(d) = [charging |-> v, remaining |-> n]
  BY Zenon DEF DecodeChargeStatus
<1>2. v \in BOOLEAN /\ (v <=> c)
  OBVIOUS
<1> HIDE DEF v
<1>3. v = c
  BY <1>2, Zenon
<1> QED BY <1>1, <1>3

LEMMA ChargeReadBack ==
  ASSUME NEW s \in ChargeStates
  PROVE  /\ DecodeChargeStatus(EncodeChargeStatus(s)) = s
         /\ Len(EncodeChargeStatus(s)) = 3
<1> DEFINE m == s.remaining
           c == s.charging
           d == EncodeChargeStatus(s)
<1>1. /\ c \in BOOLEAN /\ s = [charging |-> c, remaining |-> m]
      /\ c => m \in Remainings
      /\ ~c => m = 0
  BY DEF ChargeStates
<1>2. CASE c
  <2>1. m \in Nat /\ m \div 256 < 255
    BY <1>1, <1>2, Readings
  <2>2. d = <<1, m % 256, (m \div 256) % 256>>
    BY <1>2 DEF EncodeChargeStatus
  <2> HIDE DEF d, m
  <2>3. /\ (m \div 256) % 256 = m \div 256 /\ m = 256 * (m \div 256) + (m % 256)
        /\ m \div 256 # 255
    BY <2>1, TwoBytes
  <2>4. Len(d) = 3 /\ At(d, 0) = 1 /\ At(d, 1) = m % 256 /\ At(d, 2) = m \div 256
    BY <2>2, <2>3 DEF At
  <2>5. m = IF At(d, 2) = 255 THEN 0 ELSE 256 * At(d, 2) + At(d, 1)
    BY <2>1, <2>3, <2>4
  <2>6. c <=> At(d, 0) = 1
    BY <1>2, <2>4
  <2> HIDE DEF c
  <2>7. DecodeChargeStatus(d) = [charging |-> c, remaining |-> m]
    BY <1>1, <2>4, <2>5, <2>6, ChargeDecoded
  <2> QED BY <1>1, <2>4, <2>7 DEF d
<1>3. CASE ~c
  <2>1. d = Zeros(3)
    BY <1>3 DEF EncodeChargeStatus
  <2> HIDE DEF d
  <2>2. Len(d) = 3 /\ At(d, 0) = 0 /\ At(d, 1) = 0 /\ At(d, 2) = 0
    BY <2>1 DEF At, Zeros
  <2> HIDE DEF m, c
  <2>3. m = IF At(d, 2) = 255 THEN 0 ELSE 256 * At(d, 2) + At(d, 1)
    BY <1>1, <1>3, <2>2
  <2>4. c <=> At(d, 0) = 1
    BY <1>3, <2>2
  <2>5. DecodeChargeStatus(d) = [charging |-> c, remaining |-> m]
    BY <1>1, <2>2, <2>3, <2>4, ChargeDecoded
  <2> QED BY <1>1, <2>2, <2>5 DEF d
<1> QED BY <1>1, <1>2, <1>3

LEMMA SameFlag ==
  ASSUME NEW a \in BOOLEAN, NEW b \in BOOLEAN, a <=> b
  PROVE  a = b
BY Zenon

LEMMA PlugReadBack ==
  ASSUME NEW s \in Flags
  PROVE  DecodeChargePlug(EncodeChargePlug(s)) = s
<1> DEFINE d == EncodeChargePlug(s)
           v == DecodeChargePlug(d)
<1>1. Len(d) = 2 /\ At(d, 0) = 0 /\ At(d, 1) = IF s THEN 1 ELSE 0
  BY DEF EncodeChargePlug, At
<1> HIDE DEF d
<1>2. At(d, 0) > 0 \/ At(d, 1) > 0 <=> s
  BY <1>1
<1>3. v \in BOOLEAN /\ (v <=> s)
  BY <1>1, <1>2, Zenon DEF DecodeChargePlug
<1>4. s \in BOOLEAN
  BY DEF Flags
<1> HIDE DEF v
<1>5. v = s
  BY <1>3, <1>4, SameFlag
<1> QED BY <1>5 DEF v, d

\* Model year 14 sends two of the five bytes, and Decode wants no more.
LEMMA OperReadBack ==
  ASSUME NEW s \in Flags
  PROVE  DecodeACOperStatus(Cut(EncodeACOperStatus(s), 2)) = s
<1> DEFINE e == EncodeACOperStatus(s)
           d == Cut(e, 2)
           v == DecodeACOperStatus(d)
<1>1. e = <<0, IF s THEN 1 ELSE 0, 0, 0, 0>>
  BY DEF EncodeACOperStatus
<1> HIDE DEF e
<1>2. Len(d) >= 2 /\ At(d, 1) = IF s THEN 1 ELSE 0
  BY <1>1 DEF Cut, At
<1> HIDE DEF d
<1>3. At(d, 1) = 1 <=> s
  BY <1>2
<1>4. v \in BOOLEAN /\ (v <=> s)
  BY <1>2, <1>3, Zenon DEF DecodeACOperStatus
<1>5. s \in BOOLEAN
  BY DEF Flags
<1> HIDE DEF v
<1>6. v = s
  BY <1>4, <1>5, SameFlag
<1> QED BY <1>6 DEF v, d, e

LEMMA WarningReadBack ==
  ASSUME NEW s
  PROVE  DecodeBatteryWarning(EncodeBatteryWarning(s)) = s
BY DEF DecodeBatteryWarning, EncodeBatteryWarning, At

\* A name comes back with its padding.
LEMMA SSIDReadBack ==
  ASSUME NEW s, s = Text(12)
  PROVE  DecodeWIFISSID(EncodeWIFISSID(s)) = [i \in 1..32 |-> IF i <= Len(s) THEN s[i] ELSE 0]
<1> DEFINE d == [i \in 1..32 |-> IF i <= Len(s) THEN s[i] ELSE 0]
<1>1. d = EncodeWIFISSID(s)
  BY DEF EncodeWIFISSID
<1>2. Len(s) = 12 /\ \A i \in 1..12 : s[i] = 64 + i
  BY DEF Text
<1>3. Len(d) = 32 /\ \A i \in 1..32 : d[i] # 255
  <2>1. \A i \in 1..32 : d[i] = IF i <= 12 THEN 64 + i ELSE 0
    <3> SUFFICES ASSUME NEW i \in 1..32 PROVE d[i] = IF i <= 12 THEN 64 + i ELSE 0
      OBVIOUS
    <3>1. d[i] = IF i <= 12 THEN s[i] ELSE 0
      BY <1>2
    <3>2. i <= 12 => s[i] = 64 + i
      BY <1>2
    <3> QED BY <3>1, <3>2
  <2>2. Len(d) = 32
    OBVIOUS
  <2> HIDE DEF d
  <2> QED BY <2>1, <2>2
<1>4. d = [i \in 1..32 |-> d[i]]
  OBVIOUS
<1> HIDE DEF d
<1>5. DecodeWIFISSID(d) = [i \in 1..32 |-> IF d[i] = 255 THEN 0 ELSE d[i]]
  BY <1>3, Zenon DEF DecodeWIFISSID
<1>6. \A i \in 1..32 : (IF d[i] = 255 THEN 0 ELSE d[i]) = d[i]
  BY <1>3
<1>7. DecodeWIFISSID(d) = d
  BY <1>4, <1>5, <1>6
<1> QED BY <1>1, <1>7 DEF d

\* Nothing comes back of a battery level: it is encoded in three bytes.
LEMMA BatteryReadBack ==
  ASSUME NEW s
  PROVE  DecodeBatteryLevel(EncodeBatteryLevel(s)) = [level |-> 0, parkingLights |-> FALSE]
<1>1. Len(EncodeBatteryLevel(s)) = 3
  BY DEF EncodeBatteryLevel
<1> QED BY <1>1 DEF DecodeBatteryLevel

LEMMA ConcatLen ==
  ASSUME NEW s \in Seq(Byte), NEW t \in Seq(Byte)
  PROVE  /\ s \o t \in Seq(Byte) /\ Len(s \o t) = Len(s) + Len(t)
         /\ \A i \in 1..Len(s) : (s \o t)[i] = s[i]
         /\ \A i \in 1..Len(t) : (s \o t)[Len(s) + i] = t[i]
<1>1. \A i \in 1..Len(s) + Len(t) :
        (s \o t)[i] = IF i <= Len(s) THEN s[i] ELSE t[i - Len(s)]
  BY ConcatProperties
<1>2. \A i \in 1..Len(t) : Len(s) + i \in 1..Len(s) + Len(t) /\ ~(Len(s) + i <= Len(s))
                           /\ (Len(s) + i) - Len(s) = i
  OBVIOUS
<1>3. \A i \in 1..Len(s) : i \in 1..Len(s) + Len(t) /\ i <= Len(s)
  OBVIOUS
<1> QED BY <1>1, <1>2, <1>3, ConcatProperties

LEMMA Part ==
  ASSUME NEW s \in Seq(Byte), NEW m \in Nat, NEW n \in Nat, 1 <= m, m <= n, n <= Len(s)
  PROVE  /\ SubSeq(s, m, n) \in Seq(Byte) /\ Len(SubSeq(s, m, n)) = n - m + 1
         /\ \A i \in 1..n - m + 1 : SubSeq(s, m, n)[i] = s[m + i - 1]
<1>1. \A i \in m..n : s[i] \in Byte
  OBVIOUS
<1> QED BY <1>1, SubSeqProperties

\* A text of n characters in front of others: the first m of it.
LEMMA FirstOf ==
  ASSUME NEW t \in Seq(Byte), NEW u \in Seq(Byte), NEW m \in Nat, m <= Len(t)
  PROVE  SubSeq(t \o u, 1, m) = SubSeq(t, 1, m)
<1> DEFINE a == SubSeq(t \o u, 1, m)
           b == SubSeq(t, 1, m)
<1>1. t \o u \in Seq(Byte) /\ Len(t \o u) = Len(t) + Len(u) /\ Len(t) \in Nat
      /\ Len(u) \in Nat
  OBVIOUS
<1>2. a \in Seq(Byte) /\ b \in Seq(Byte) /\ Len(a) = m /\ Len(b) = m
  BY <1>1
<1>3. ASSUME NEW i \in 1..m PROVE a[i] = b[i]
  BY <1>1, <1>3
<1> HIDE DEF a, b
<1>4. a = b
  BY <1>2, <1>3, SeqEqual
<1> QED BY <1>4 DEF a, b

\* A version comes back without its last character.
LEMMA VersionReadBack ==
  ASSUME NEW s, s = Text(10)
  PROVE  DecodeECUVersion(EncodeECUVersion(s)) = SubSeq(s, 1, 9)
<1> DEFINE u == <<17, 0, 0>>
           d == EncodeECUVersion(s)
<1>1. s \in Seq(Byte) /\ Len(s) = 10
  BY TextBytes
<1>2. u \in Seq(Byte) /\ Len(u) = 3
  BY DEF Byte
<1>3. d = s \o u
  BY DEF EncodeECUVersion
<1> HIDE DEF d, u
<1>4. Len(d) = 13
  <2>1. Len(s \o u) = Len(s) + Len(u)
    BY <1>1, <1>2, ConcatLen, Zenon
  <2>2. Len(d) = Len(s) + Len(u)
    BY <1>3, <2>1, Zenon
  <2> QED BY <1>1, <1>2, <2>2
<1>5. SubSeq(d, 1, 9) = SubSeq(s, 1, 9)
  BY <1>1, <1>2, <1>3, FirstOf
<1>6. DecodeECUVersion(d) = SubSeq(d, 1, 9)
  BY <1>4 DEF DecodeECUVersion, Slice
<1> QED BY <1>5, <1>6 DEF d

\* A VIN comes back without its last character, with the registrations.
LEMMA VINReadBack ==
  ASSUME NEW s \in VINStates
  PROVE  DecodeVIN(EncodeVIN(s)) = [vin |-> SubSeq(s.vin, 1, 16),
                                    registrations |-> s.registrations]
<1> DEFINE v == s.vin
           n == s.registrations
           u == <<0, n % 256>>
           d == EncodeVIN(s)
           a == SubSeq(d, 2, 17)
           b == SubSeq(v, 1, 16)
<1>1. v \in Seq(Byte) /\ Len(v) = 17 /\ n \in {1, 2}
  BY TextBytes DEF VINStates
<1>2. u \in Seq(Byte) /\ Len(u) = 2 /\ u[2] = n /\ <<3>> \in Seq(Byte)
  BY <1>1 DEF Byte
<1>3. d = <<3>> \o v \o u
  BY DEF EncodeVIN
<1> HIDE DEF d, u, v, n
<1>4. d \in Seq(Byte) /\ Len(d) = 20 /\ d[20] = n /\ \A i \in 1..16 : d[i + 1] = v[i]
  <2> DEFINE t == <<3>>
             w == t \o v
  <2>1. t \in Seq(Byte) /\ Len(t) = 1
    BY <1>2
  <2> HIDE DEF t
  <2>2. w \in Seq(Byte) /\ Len(w) = 18
    <3>1. w \in Seq(Byte) /\ Len(w) = Len(t) + Len(v)
      BY <1>1, <2>1, ConcatLen, Zenon
    <3> QED BY <1>1, <2>1, <3>1
  <2>3. \A i \in 1..16 : w[i + 1] = v[i]
    <3> SUFFICES ASSUME NEW i \in 1..16 PROVE w[i + 1] = v[i]
      OBVIOUS
    <3>1. (t \o v)[Len(t) + i] = v[i]
      <4>1. i \in 1..Len(v)
        BY <1>1
      <4> QED BY <1>1, <2>1, <4>1, ConcatLen, Zenon
    <3>2. Len(t) + i = i + 1
      BY <2>1
    <3> QED BY <3>1, <3>2
  <2>4. d = w \o u
    BY <1>3 DEF t
  <2> HIDE DEF w
  <2>5. d \in Seq(Byte) /\ Len(d) = 20
    <3>1. d \in Seq(Byte) /\ Len(d) = Len(w) + Len(u)
      BY <1>2, <2>2, <2>4, ConcatLen, Zenon
    <3> QED BY <1>2, <2>2, <3>1
  <2>6. d[20] = n
    <3>1. (w \o u)[Len(w) + 2] = u[2]
      <4>1. 2 \in 1..Len(u)
        BY <1>2
      <4> QED BY <1>2, <2>2, <4>1, ConcatLen, Zenon
    <3>2. Len(w) + 2 = 20
      BY <2>2
    <3>3. d[Len(w) + 2] = n
      BY <1>2, <2>4, <3>1, Zenon
    <3> QED BY <3>2, <3>3, Zenon
  <2>7. \A i \in 1..16 : d[i + 1] = w[i + 1]
    <3> SUFFICES ASSUME NEW i \in 1..16 PROVE (w \o u)[i + 1] = w[i + 1]
      BY <2>4
    <3>1. i + 1 \in 1..Len(w)
      BY <2>2
    <3> QED BY <1>2, <2>2, <3>1, ConcatLen, Zenon
  <2> QED BY <2>3, <2>5, <2>6, <2>7
<1>5. a \in Seq(Byte) /\ Len(a) = 16 /\ \A i \in 1..16 : a[i] = d[i + 1]
  <2>1. \A i \in 1..16 : a[i] = d[2 + i - 1]
    BY <1>4, Part
  <2>2. a \in Seq(Byte) /\ Len(a) = 16
    <3>1. 2 \in Nat /\ 17 \in Nat /\ 1 <= 2 /\ 2 <= 17 /\ 17 <= Len(d)
      BY <1>4
    <3>2. SubSeq(d, 2, 17) \in Seq(Byte) /\ Len(SubSeq(d, 2, 17)) = 17 - 2 + 1
      BY <1>4, <3>1, Part, Zenon
    <3>3. 17 - 2 + 1 = 16
      OBVIOUS
    <3> QED BY <3>2, <3>3, Zenon
  <2>3. \A i \in 1..16 : 2 + i - 1 = i + 1
    OBVIOUS
  <2> QED BY <2>1, <2>2, <2>3
<1>6. b \in Seq(Byte) /\ Len(b) = 16 /\ \A i \in 1..16 : b[i] = v[i]
  <2>1. \A i \in 1..16 : b[i] = v[1 + i - 1]
    BY <1>1, Part
  <2>2. b \in Seq(Byte) /\ Len(b) = 16
    <3>1. 1 \in Nat /\ 16 \in Nat /\ 1 <= 1 /\ 1 <= 16 /\ 16 <= Len(v)
      BY <1>1
    <3>2. SubSeq(v, 1, 16) \in Seq(Byte) /\ Len(SubSeq(v, 1, 16)) = 16 - 1 + 1
      BY <1>1, <3>1, Part, Zenon
    <3>3. 16 - 1 + 1 = 16
      OBVIOUS
    <3> QED BY <3>2, <3>3, Zenon
  <2>3. \A i \in 1..16 : 1 + i - 1 = i
    OBVIOUS
  <2> QED BY <2>1, <2>2, <2>3
<1>7. a = b
  <2> HIDE DEF a, b
  <2>1. \A i \in 1..Len(a) : a[i] = b[i]
    BY <1>4, <1>5, <1>6
  <2> QED BY <1>5, <1>6, <2>1, SeqEqual
<1>8. DecodeVIN(d) = [vin |-> a, registrations |-> n]
  <2>1. Slice(d, 1, 17) = a /\ At(d, 19) = d[20]
    BY DEF Slice, At
  <2> HIDE DEF a
  <2> QED BY <1>4, <2>1 DEF DecodeVIN
<1> QED BY <1>7, <1>8 DEF d, v, n

\* Of a climate mode the duration is not encoded: it comes back as the shortest.
LEMMA ModeReadBack ==
  ASSUME NEW m \in 0..3
  PROVE  DecodeACMode(EncodeACMode([mode |-> ACModes[m + 1]]))
           = [mode |-> ACModes[m + 1], duration |-> 10]
<1> DEFINE r == [mode |-> ACModes[m + 1]]
           d == EncodeACMode(r)
<1>1. /\ ACModes[1] = "off" /\ ACModes[2] = "cool" /\ ACModes[3] = "heat"
      /\ ACModes[4] = "windscreen"
  BY DEF ACModes
<1>2. d = <<m>>
  <2>1. CASE m = 0
    <3>1. ~ \E i \in 2..4 : ACModes[i] = r.mode
      BY <1>1, <2>1
    <3> QED BY <2>1, <3>1 DEF EncodeACMode
  <2>2. CASE m \in 1..3
    <3>1. \A i \in 2..4 : ACModes[i] = r.mode <=> i = m + 1
      BY <1>1, <2>2
    <3>2. (CHOOSE i \in 2..4 : ACModes[i] = r.mode) = m + 1
      BY <2>2, <3>1
    <3> QED BY <2>2, <3>1, <3>2 DEF EncodeACMode
  <2> QED BY <2>1, <2>2
<1> HIDE DEF d
<1>3. Len(d) = 1 /\ At(d, 0) % 16 = m /\ At(d, 0) \div 16 = 0
  BY <1>2 DEF At
<1>4. DecodeACMode(d) = [mode |-> ACModes[m + 1], duration |-> 10]
  BY <1>3 DEF DecodeACMode
<1> QED BY <1>4 DEF d

-----------------------------------------------------------------------------
LEMMA ReadBackIs ==
  ASSUME NEW s
  PROVE  /\ ReadBack(DoorStatusRegister, s) <=> DecodeDoorStatus(EncodeDoorStatus(s)) = s
         /\ ReadBack(ChargeStatusRegister, s) <=> DecodeChargeStatus(EncodeChargeStatus(s)) = s
         /\ ReadBack(ChargePlugRegister, s) <=> DecodeChargePlug(EncodeChargePlug(s)) = s
         /\ ReadBack(BatteryWarningRegister, s)
              <=> DecodeBatteryWarning(EncodeBatteryWarning(s)) = s
         /\ ReadBack(ACOperStatusRegister, s)
              <=> DecodeACOperStatus(CarData(ACOperStatusRegister, s)) = s
         /\ ReadBack(ACModeRegister, s)
              <=> DecodeACMode(EncodeACMode([mode |-> ACModes[s.mode + 1]]))
                    = [mode |-> ACModes[s.mode + 1], duration |-> 10]
         /\ ReadBack(WIFISSIDRegister, s)
              <=> DecodeWIFISSID(EncodeWIFISSID(s))
                    = [i \in 1..32 |-> IF i <= Len(s) THEN s[i] ELSE 0]
         /\ ReadBack(VINRegister, s)
              <=> DecodeVIN(EncodeVIN(s)) = [vin |-> SubSeq(s.vin, 1, 16),
                                             registrations |-> s.registrations]
         /\ ReadBack(ECUVersionRegister, s)
              <=> DecodeECUVersion(EncodeECUVersion(s)) = SubSeq(s, 1, 9)
         /\ ReadBack(BatteryLevelRegister, s)
              <=> DecodeBatteryLevel(EncodeBatteryLevel(s))
                    = [level |-> 0, parkingLights |-> FALSE]
BY Numbers DEF ReadBack

\* What survives Encode and Decode of each state is what ReadBack says.
LEMMA TypedReadBack == TypeOK => CodecsKeep
<1> SUFFICES ASSUME TypeOK PROVE ReadBack(reg, car)
  BY DEF CodecsKeep
<1>1. reg \in Modelled /\ car \in CarTypes(reg)
  BY ControlAssumption DEF TypeOK, CarType
<1>2. CASE reg = DoorStatusRegister
  BY <1>1, <1>2, CarTypesAre, ReadBackIs, DoorReadBack
<1>3. CASE reg = ChargeStatusRegister
  BY <1>1, <1>3, CarTypesAre, ReadBackIs, ChargeReadBack
<1>4. CASE reg = ChargePlugRegister
  BY <1>1, <1>4, CarTypesAre, ReadBackIs, PlugReadBack
<1>5. CASE reg = BatteryWarningRegister
  BY <1>5, ReadBackIs, WarningReadBack
<1>6. CASE reg = ACOperStatusRegister
  <2>1. car \in Flags
    BY <1>1, <1>6, CarTypesAre
  <2>2. DecodeACOperStatus(CarData(ACOperStatusRegister, car)) = car
    BY <2>1, DataOf, OperReadBack
  <2> QED BY <1>6, <2>2, ReadBackIs
<1>7. CASE reg = WIFISSIDRegister
  <2>1. car = Text(12)
    BY <1>1, <1>7, CarTypesAre
  <2>2. DecodeWIFISSID(EncodeWIFISSID(car))
          = [i \in 1..32 |-> IF i <= Len(car) THEN car[i] ELSE 0]
    BY <2>1, SSIDReadBack
  <2>3. ReadBack(WIFISSIDRegister, car)
    BY <2>2, ReadBackIs, Zenon
  <2> QED BY <1>7, <2>3, Zenon
<1>8. CASE reg = ACModeRegister
  <2>1. car.mode \in 0..3
    BY <1>1, <1>8, CarTypesAre DEF ClimateStates
  <2>2. DecodeACMode(EncodeACMode([mode |-> ACModes[car.mode + 1]]))
          = [mode |-> ACModes[car.mode + 1], duration |-> 10]
    BY <2>1, ModeReadBack
  <2>3. ReadBack(ACModeRegister, car)
    BY <2>2, ReadBackIs, Zenon
  <2> QED BY <1>8, <2>3, Zenon
<1>9. CASE reg = VINRegister
  <2>1. car \in VINStates
    BY <1>1, <1>9, CarTypesAre
  <2>2. DecodeVIN(EncodeVIN(car)) = [vin |-> SubSeq(car.vin, 1, 16),
                                     registrations |-> car.registrations]
    BY <2>1, VINReadBack
  <2>3. ReadBack(VINRegister, car)
    BY <2>2, ReadBackIs, Zenon
  <2> QED BY <1>9, <2>3, Zenon
<1>10. CASE reg = ECUVersionRegister
  <2>1. car = Text(10)
    BY <1>1, <1>10, CarTypesAre
  <2>2. DecodeECUVersion(EncodeECUVersion(car)) = SubSeq(car, 1, 9)
    BY <2>1, VersionReadBack
  <2>3. ReadBack(ECUVersionRegister, car)
    BY <2>2, ReadBackIs, Zenon
  <2> QED BY <1>10, <2>3, Zenon
<1>11. CASE reg = BatteryLevelRegister
  BY <1>11, ReadBackIs, BatteryReadBack
<1>12. CASE reg \notin {DoorStatusRegister, ChargeStatusRegister, ChargePlugRegister,
                        BatteryWarningRegister, ACOperStatusRegister, WIFISSIDRegister,
                        ACModeRegister, VINRegister, ECUVersionRegister,
                        BatteryLevelRegister}
  BY <1>12 DEF ReadBack
<1> QED BY <1>2, <1>3, <1>4, <1>5, <1>6, <1>7, <1>8, <1>9, <1>10, <1>11, <1>12

\* What comes back of a register when Decode reads what Encode wrote: the whole state
\* for doors, charge, plug, warning and operating status, a part for mode, VIN,
\* version and network name, nothing for the battery level.
THEOREM CodecsKept == Spec => []CodecsKeep
BY TypeCorrect, TypedReadBack, PTL

-----------------------------------------------------------------------------
(* The last report on its way.                                             *)

\* LastReport of a queue q: its last report is u.
Latest(q, u) ==
  \A i \in DOMAIN q :
    q[i].type = "update" /\ (\A j \in DOMAIN q : j > i => q[j].type # "update") => q[i] = u

LEMMA UpdateStays ==
  ASSUME UNCHANGED <<reg, car, carYear>>
  PROVE  Update' = Update
BY DEF Update, CarData, Cut

LEMMA LatestTail ==
  ASSUME NEW S, NEW q \in Seq(S), q # <<>>, NEW u, Latest(q, u)
  PROVE  Latest(Tail(q), u)
<1> SUFFICES ASSUME NEW i \in DOMAIN Tail(q), Tail(q)[i].type = "update",
                    \A j \in DOMAIN Tail(q) : j > i => Tail(q)[j].type # "update"
             PROVE  Tail(q)[i] = u
  BY DEF Latest
<1>1. \A j \in DOMAIN Tail(q) : j + 1 \in DOMAIN q /\ Tail(q)[j] = q[j + 1]
  OBVIOUS
<1>2. i \in Nat /\ i + 1 \in DOMAIN q /\ q[i + 1].type = "update"
  BY <1>1
<1>3. ASSUME NEW j \in DOMAIN q, j > i + 1
      PROVE  q[j].type # "update"
  <2>1. j - 1 \in DOMAIN Tail(q) /\ j - 1 > i /\ Tail(q)[j - 1] = q[j]
    BY <1>2, <1>3
  <2> QED BY <2>1
<1>4. q[i + 1] = u
  BY <1>2, <1>3 DEF Latest
<1> QED BY <1>1, <1>4

\* What comes last is no report, or it is u.
LEMMA LatestAppend ==
  ASSUME NEW S, NEW q \in Seq(S), NEW x \in S, NEW u,
         (x.type # "update" /\ Latest(q, u)) \/ (x.type = "update" /\ x = u)
  PROVE  Latest(Append(q, x), u)
<1> DEFINE a == Append(q, x)
<1>1. DOMAIN a = 1..(Len(q) + 1) /\ a[Len(q) + 1] = x /\ \A i \in 1..Len(q) : a[i] = q[i]
  OBVIOUS
<1>2. Len(q) \in Nat /\ DOMAIN q = 1..Len(q)
  OBVIOUS
<1> HIDE DEF a
<1>3. ASSUME NEW i \in DOMAIN a, a[i].type = "update",
             \A j \in DOMAIN a : j > i => a[j].type # "update"
      PROVE  a[i] = u
  <2>1. CASE x.type = "update" /\ x = u
    <3>1. Len(q) + 1 \in DOMAIN a /\ ~(Len(q) + 1 > i)
      BY <1>1, <1>2, <1>3, <2>1
    <3>2. i = Len(q) + 1
      BY <1>1, <1>2, <3>1
    <3> QED BY <1>1, <2>1, <3>2
  <2>2. CASE x.type # "update" /\ Latest(q, u)
    <3>1. i \in 1..Len(q) /\ q[i].type = "update"
      BY <1>1, <1>2, <1>3, <2>2
    <3>2. \A j \in DOMAIN q : j > i => q[j].type # "update"
      BY <1>1, <1>2, <1>3
    <3>3. q[i] = u
      BY <1>2, <2>2, <3>1, <3>2 DEF Latest
    <3> QED BY <1>1, <3>1, <3>3
  <2> QED BY <2>1, <2>2
<1> QED BY <1>3 DEF Latest, a

LEMMA LastReportIs == LastReport <=> (sess = "up" /\ ~stale => Latest(in, Update))
BY DEF LastReport, Latest

\* Only a report that is what the car is now enters the queue, unless another
\* one is due.
LEMMA LastReportStep ==
  ASSUME TypeOK, LastReport, [Next]_vars
  PROVE  LastReport'
<1> SUFFICES ASSUME sess' = "up", ~stale' PROVE Latest(in', Update')
  BY DEF LastReport, Latest
<1>1. in \in Seq(Reports) /\ CarType
  BY DEF TypeOK, QueueType
<1>2. ASSUME UNCHANGED <<reg, car, carYear, sess, stale>>
      PROVE  Update' = Update /\ Latest(in, Update)
  BY <1>2, LastReportIs, UpdateStays
<1>3. CASE Receive
  BY <1>1, <1>2, <1>3, LatestTail DEF Receive
<1>4. CASE TakeAck
  BY <1>1, <1>2, <1>4, LatestTail DEF TakeAck
<1>5. CASE TakeBad
  BY <1>1, <1>2, <1>5, LatestTail DEF TakeBad
<1>6. CASE CarTake
  <2> DEFINE x == [type |-> "ack", reg |-> out[1].reg]
  <2>1. UNCHANGED <<reg, car, carYear, sess, stale>> /\ in' = Append(in, x)
    BY <1>6 DEF CarTake, TypeOK, CarType
  <2>2. x \in Reports /\ x.type # "update"
    BY <1>1, <1>6, ReportTypes DEF CarTake, TypeOK, QueueType
  <2> HIDE DEF x
  <2> QED BY <1>1, <1>2, <2>1, <2>2, LatestAppend
<1>7. CASE CarReject
  <2> DEFINE x == [type |-> "bad"]
  <2>1. UNCHANGED <<reg, car, carYear, sess, stale>> /\ in' = Append(in, x)
    BY <1>7 DEF CarReject
  <2>2. x \in Reports /\ x.type # "update"
    BY <1>1, ReportTypes
  <2> HIDE DEF x
  <2> QED BY <1>1, <1>2, <2>1, <2>2, LatestAppend
<1>8. CASE CarReport
  <2>1. UNCHANGED <<reg, car, carYear>> /\ in' = Append(in, Update)
    BY <1>8 DEF CarReport
  <2>2. Update' = Update
    BY <2>1, UpdateStays
  <2>3. Update \in Reports /\ Update.type = "update"
    BY <1>1, ReportTypes DEF Update
  <2> QED BY <1>1, <2>1, <2>2, <2>3, LatestAppend
<1>9. CASE UNCHANGED <<reg, car, carYear, sess, stale, in>>
  BY <1>2, <1>9
<1>10. \/ Receive \/ TakeAck \/ TakeBad \/ CarTake \/ CarReject \/ CarReport
       \/ UNCHANGED <<reg, car, carYear, sess, stale, in>>
  BY DEF Next, Connect, Replace, StartRequest, Start, Drop, Refresh, Command, Call, Put,
     GiveUp, GiveUpLate, CarIgnore, CarChange, vars, session
<1> QED BY <1>3, <1>4, <1>5, <1>6, <1>7, <1>8, <1>9, <1>10

-----------------------------------------------------------------------------
(* What a report makes of the topics.                                      *)

LEMMA PublishedTopics ==
  ASSUME NEW d, NEW T, T = TypeTopics(reg, d), shown' = Published(reg, d)
  PROVE  /\ shown'.raw = <<d>>
         /\ \A t \in DOMAIN T : t # "raw" => shown'[t] = T[t]
         /\ \A t \in DOMAIN shown \ DOMAIN T : t # "raw" => shown'[t] = shown[t]
<1>1. shown' = [t \in DOMAIN shown \cup DOMAIN T \cup {"raw"} |->
                 IF t = "raw" THEN <<d>> ELSE IF t \in DOMAIN T THEN T[t] ELSE shown[t]]
  BY DEF Published
<1> QED BY <1>1

\* Topics of the other registers are neither level nor remaining.
LEMMA OtherTopics ==
  ASSUME NEW r, NEW d
  PROVE  /\ r # BatteryLevelRegister => "level" \notin DOMAIN TypeTopics(r, d)
         /\ r # ChargeStatusRegister => "remaining" \notin DOMAIN TypeTopics(r, d)
<1>1. DOMAIN DoorTopics(d) = DoorFlags \cup {"frontLeft"}
  BY Zenon DEF DoorTopics
<1>2. DoorFlags = {"locked", "driver", "frontPassenger", "rearRight", "rearLeft", "boot",
                   "bonnet", "headlights"}
  BY DEF DoorFlags, DoorByte
<1>3. /\ DOMAIN BatteryTopics(d) = {"level", "parking"}
      /\ DOMAIN ChargeTopics(d) = {"charging", "remaining"}
      /\ DOMAIN PlugTopics(d) = {"plug"}
      /\ DOMAIN LightTopics(d) = {"interior", "hazard"}
      /\ DOMAIN VINTopics(d) = {"vin", "registrations"}
  BY DEF BatteryTopics, ChargeTopics, PlugTopics, LightTopics, VINTopics
<1>4. CASE r \in {DoorStatusRegister, BatteryLevelRegister, ChargeStatusRegister}
  BY <1>1, <1>2, <1>3, <1>4, TopicsAre
<1>5. CASE r \in {ChargePlugRegister, LightStatusRegister, VINRegister}
  BY <1>3, <1>5, TopicsAre
<1>6. CASE r \in {PreACStateRegister, ACModeRegister, ECUVersionRegister}
  BY <1>6, TopicsAre
<1> QED BY <1>4, <1>5, <1>6, NoTopics

\* A payload, if there is one, is of S.
In(p, S) == p # <<>> => p[1] \in S

LEMMA OnePayload ==
  ASSUME NEW p, NEW S, NEW n
  PROVE  /\ n \in S => In(<<n>>, S)
         /\ In(p, S) /\ n \notin S => p # <<n>>
BY DEF In

LEMMA NoSentinelIs ==
  NoSentinel <=> In(shown.level, LevelsShown) /\ In(shown.remaining, RemainingsShown)
BY Zenon DEF NoSentinel, In

LEMMA NoSentinelNext ==
  ASSUME In(shown'.level, LevelsShown), In(shown'.remaining, RemainingsShown)
  PROVE  NoSentinel'
BY Zenon DEF NoSentinel, In

LEMMA LevelPublished ==
  ASSUME NEW d \in Seq(Byte), NoSentinel, ShownType, reg = BatteryLevelRegister,
         shown' = Published(reg, d)
  PROVE  NoSentinel'
<1> DEFINE l == DecodeBatteryLevel(d).level
           T == TypeTopics(reg, d)
<1>1. l \in Byte
  <2>1. CASE Len(d) = 4
    <3>1. l = At(d, 0)
      BY <2>1 DEF DecodeBatteryLevel
    <3>2. 1 \in 1..Len(d)
      BY <2>1
    <3>3. d[1] \in Byte
      BY <3>2
    <3> QED BY <3>1, <3>3 DEF At
  <2>2. CASE Len(d) # 4
    BY <2>2 DEF DecodeBatteryLevel, Byte
  <2> QED BY <2>1, <2>2
<1>2. "level" \in DOMAIN T /\ T["level"] = IF l > 5 /\ l < 255 THEN <<l>> ELSE shown.level
  BY TopicsAre DEF BatteryTopics
<1>3. "remaining" \in DOMAIN shown \ DOMAIN T
  BY OtherTopics, Numbers DEF ShownType
<1>4. /\ shown'.level = IF l > 5 /\ l < 255 THEN <<l>> ELSE shown.level
      /\ shown'.remaining = shown.remaining
  BY <1>2, <1>3, PublishedTopics
<1> HIDE DEF l, T
<1>5. l > 5 /\ l < 255 => l \in LevelsShown
  BY <1>1 DEF Byte, LevelsShown
<1>6. In(shown'.level, LevelsShown)
  <2>1. CASE l > 5 /\ l < 255
    <3>1. shown'.level = <<l>> /\ l \in LevelsShown
      BY <1>4, <1>5, <2>1
    <3> QED BY <3>1, OnePayload, Zenon
  <2>2. CASE ~(l > 5 /\ l < 255)
    <3>1. shown'.level = shown.level
      BY <1>4, <2>2
    <3> QED BY <3>1, NoSentinelIs, Zenon
  <2> QED BY <2>1, <2>2
<1>7. In(shown'.level, LevelsShown) /\ In(shown'.remaining, RemainingsShown)
  <2>1. shown'.remaining = shown.remaining
    BY <1>4
  <2> QED BY <1>6, <2>1, NoSentinelIs, Zenon
<1> QED BY <1>7, NoSentinelNext

LEMMA RemainingPublished ==
  ASSUME NEW d \in Seq(Byte), NoSentinel, ShownType, reg = ChargeStatusRegister,
         shown' = Published(reg, d)
  PROVE  NoSentinel'
<1> DEFINE m == DecodeChargeStatus(d).remaining
           T == TypeTopics(reg, d)
<1>1. m \in Nat
  <2>1. CASE Len(d) = 3
    <3>1. m = IF At(d, 2) = 255 THEN 0 ELSE 256 * At(d, 2) + At(d, 1)
      BY <2>1 DEF DecodeChargeStatus
    <3>2. 2 \in 1..Len(d) /\ 3 \in 1..Len(d)
      BY <2>1
    <3> DEFINE a == At(d, 1)
               b == At(d, 2)
    <3>3. a \in 0..255 /\ b \in 0..255
      <4>1. d[2] \in Byte /\ d[3] \in Byte
        BY <3>2
      <4> QED BY <4>1 DEF At, Byte
    <3> HIDE DEF a, b
    <3>4. 256 * b + a \in Nat
      BY <3>3
    <3> QED BY <3>1, <3>4 DEF a, b
  <2>2. CASE Len(d) # 3
    BY <2>2 DEF DecodeChargeStatus
  <2> QED BY <2>1, <2>2
<1>2. "remaining" \in DOMAIN T /\ T["remaining"] = IF m < 1000 THEN <<m>> ELSE shown.remaining
  BY TopicsAre DEF ChargeTopics
<1>3. "level" \in DOMAIN shown \ DOMAIN T
  BY OtherTopics, Numbers DEF ShownType
<1>4. /\ shown'.remaining = IF m < 1000 THEN <<m>> ELSE shown.remaining
      /\ shown'.level = shown.level
  BY <1>2, <1>3, PublishedTopics
<1> HIDE DEF m, T
<1>5. m < 1000 => m \in RemainingsShown
  BY <1>1 DEF RemainingsShown
<1>6. In(shown'.remaining, RemainingsShown)
  <2>1. CASE m < 1000
    <3>1. shown'.remaining = <<m>> /\ m \in RemainingsShown
      BY <1>4, <1>5, <2>1
    <3> QED BY <3>1, OnePayload, Zenon
  <2>2. CASE ~(m < 1000)
    <3>1. shown'.remaining = shown.remaining
      BY <1>4, <2>2
    <3> QED BY <3>1, NoSentinelIs, Zenon
  <2> QED BY <2>1, <2>2
<1>7. In(shown'.level, LevelsShown) /\ In(shown'.remaining, RemainingsShown)
  <2>1. shown'.level = shown.level
    BY <1>4
  <2> QED BY <1>6, <2>1, NoSentinelIs, Zenon
<1> QED BY <1>7, NoSentinelNext

\* Whatever is reported, a sentinel does not get to the topics.
LEMMA NoSentinelStep ==
  ASSUME TypeOK, NoSentinel, [Next]_vars
  PROVE  NoSentinel'
<1>1. CASE Receive
  <2> DEFINE d == in[1].data
             T == TypeTopics(reg, d)
  <2>1. shown' = Published(reg, d)
    BY <1>1 DEF Receive
  <2>2. d \in Seq(Byte)
    <3>1. in[1] \in Reports /\ in[1].type = "update"
      BY <1>1 DEF Receive, TypeOK, QueueType
    <3> QED BY <3>1 DEF Reports
  <2>3. ShownType
    BY DEF TypeOK
  <2> HIDE DEF d
  <2>4. CASE reg \notin {BatteryLevelRegister, ChargeStatusRegister}
    <3>1. {"level", "remaining"} \subseteq DOMAIN shown \ DOMAIN T
      BY <2>3, <2>4, OtherTopics DEF ShownType
    <3>2. shown'.level = shown.level /\ shown'.remaining = shown.remaining
      BY <2>1, <3>1, PublishedTopics
    <3> QED BY <3>2 DEF NoSentinel
  <2> QED BY <2>1, <2>2, <2>3, <2>4, LevelPublished, RemainingPublished
<1>2. CASE UNCHANGED shown
  BY <1>2 DEF NoSentinel
<1>3. Receive \/ UNCHANGED shown
  BY DEF Next, Connect, Replace, StartRequest, Start, Drop, Refresh, Command, Call, Put,
     TakeAck, TakeBad, GiveUp, GiveUpLate, CarTake, CarIgnore, CarReject, CarChange,
     CarReport, vars
<1> QED BY <1>1, <1>2, <1>3

-----------------------------------------------------------------------------
(* A report of the car shows the car.                                      *)

\* The report of the car has been taken in.
Reported == shown' = Published(reg, CarData(reg, car)) /\ UNCHANGED <<reg, car, carYear>>

LEMMA ShowsIs ==
  ASSUME UNCHANGED <<reg, car, carYear>>
  PROVE  /\ reg = DoorStatusRegister   => (Shows(reg, car)' <=> DoorsShown(car)')
         /\ reg = BatteryLevelRegister => (Shows(reg, car)' <=> BatteryShown(car)')
         /\ reg = ChargeStatusRegister => (Shows(reg, car)' <=> ChargeShown(car)')
         /\ reg = ChargePlugRegister   => (Shows(reg, car)' <=> PlugShown(car)')
         /\ reg = LightStatusRegister  => (Shows(reg, car)' <=> LightsShown(car)')
         /\ reg = PreACStateRegister   => (Shows(reg, car)' <=> shown'.state = <<car>>)
         /\ reg = ACModeRegister       => (Shows(reg, car)' <=> ModeShown(car)')
         /\ reg = VINRegister
              => (Shows(reg, car)' <=> shown'.registrations = <<car.registrations>>)
BY Numbers DEF Shows

\* The topics of a register are those of its type.
LEMMA TopicsShown ==
  ASSUME Reported, NEW T, T = TypeTopics(reg, CarData(reg, car))
  PROVE  /\ shown'.raw = <<CarData(reg, car)>>
         /\ \A t \in DOMAIN T : t # "raw" => shown'[t] = T[t]
BY PublishedTopics DEF Reported

LEMMA DoorsReported ==
  ASSUME Reported, reg = DoorStatusRegister, car \in DoorTypes
  PROVE  DoorsShown(car)'
<1> DEFINE T == DoorTopics(CarDoorData(car))
<1>1. DecodeDoorStatus(CarDoorData(car)) = car
  BY CarDoorReadBack
<1>2. T = [f \in DoorFlags \cup {"frontLeft"} |->
             CASE f = "locked"     -> OpenIf(~car.locked)
               [] f = "headlights" -> OnOff(car.headlights)
               [] f = "frontLeft"  -> OpenIf(car.frontPassenger)
               [] OTHER            -> OpenIf(car[f])]
  BY <1>1, Zenon DEF DoorTopics
<1>3. \A t \in DOMAIN T : t # "raw" => shown'[t] = T[t]
  BY TopicsShown, DataOf, TopicsAre
<1> HIDE DEF T
<1>4. DoorFlags = {"locked", "driver", "frontPassenger", "rearRight", "rearLeft", "boot",
                   "bonnet", "headlights"}
  BY DEF DoorFlags, DoorByte
<1>5. shown'.locked = OpenIf(~car.locked) /\ shown'.headlights = OnOff(car.headlights)
  BY <1>2, <1>3, <1>4
<1>6. \A f \in DoorFlags \ {"locked", "headlights"} : shown'[f] = OpenIf(car[f])
  BY <1>2, <1>3, <1>4
<1>7. car' = car
  BY DEF Reported
<1> QED BY <1>5, <1>6, <1>7 DEF DoorsShown, OpenIf, OnOff

LEMMA Appended ==
  ASSUME NEW S, NEW q \in Seq(S), NEW x \in S
  PROVE  /\ Len(Append(q, x)) = Len(q) + 1
         /\ \A i \in 1..Len(q) : Append(q, x)[i] = q[i]
OBVIOUS

LEMMA BatteryReported ==
  ASSUME Reported, NoSentinel, reg = BatteryLevelRegister, car \in BatteryStates
  PROVE  BatteryShown(car)'
<1> DEFINE d == Append(EncodeBatteryLevel(car), 3)
           T == BatteryTopics(d)
           l == DecodeBatteryLevel(d).level
           p == DecodeBatteryLevel(d).parkingLights
<1>1. car.level \in 0..255 /\ car.parkingLights \in BOOLEAN
  BY Readings DEF BatteryStates, Byte
<1>2. l = car.level /\ (p <=> car.parkingLights)
  <2> DEFINE e == EncodeBatteryLevel(car)
  <2>1. /\ e \in Seq(Nat) /\ Len(e) = 3 /\ e[1] = car.level
        /\ e[3] = IF car.parkingLights THEN 1 ELSE 0
    BY <1>1 DEF EncodeBatteryLevel
  <2> HIDE DEF e
  <2>2. Len(Append(e, 3)) = 4 /\ At(Append(e, 3), 0) = e[1] /\ At(Append(e, 3), 2) = e[3]
    <3>1. /\ Len(Append(e, 3)) = Len(e) + 1
          /\ \A i \in 1..Len(e) : Append(e, 3)[i] = e[i]
      <4>1. e \in Seq(Nat) /\ 3 \in Nat
        BY <2>1
      <4> QED BY <4>1, Appended, Zenon
    <3> QED BY <2>1, <3>1 DEF At
  <2>3. d = Append(e, 3)
    BY DEF e
  <2> DEFINE v == e[3] = 1
  <2> HIDE DEF d
  <2>4. DecodeBatteryLevel(d) = [level |-> e[1], parkingLights |-> v]
    BY <2>2, <2>3, Zenon DEF DecodeBatteryLevel
  <2>5. v <=> car.parkingLights
    BY <2>1
  <2> HIDE DEF v
  <2>6. p = v /\ l = car.level
    BY <2>1, <2>4
  <2> QED BY <2>5, <2>6, Zenon
<1>3. DOMAIN T = {"level", "parking"} /\ T.parking = OnOff(p)
      /\ T.level = IF l > 5 /\ l < 255 THEN <<l>> ELSE shown.level
  BY DEF BatteryTopics
<1>4. \A t \in DOMAIN T : t # "raw" => shown'[t] = T[t]
  BY TopicsShown, DataOf, TopicsAre
<1> HIDE DEF T, l, p
<1>5. shown'.parking = OnOff(p) /\ shown'.level = IF l > 5 /\ l < 255 THEN <<l>> ELSE shown.level
  BY <1>3, <1>4
<1>6. shown'.parking = <<IF car.parkingLights THEN "on" ELSE "off">>
  BY <1>2, <1>5 DEF OnOff
<1>7. IF car.level \in 6..254 THEN shown'.level = <<car.level>> ELSE shown'.level # <<car.level>>
  <2>1. car.level \in 6..254 <=> l > 5 /\ l < 255
    BY <1>1, <1>2
  <2>2. CASE car.level \in 6..254
    BY <1>2, <1>5, <2>1, <2>2
  <2>3. CASE car.level \notin 6..254
    <3>1. shown'.level = shown.level
      BY <1>5, <2>1, <2>3
    <3>2. car.level \notin LevelsShown
      BY <2>3 DEF LevelsShown
    <3>3. shown.level # <<car.level>>
      BY <3>2, NoSentinelIs, OnePayload, Zenon
    <3> QED BY <2>3, <3>1, <3>3
  <2> QED BY <2>2, <2>3
<1>8. car' = car
  BY DEF Reported
<1> QED BY <1>6, <1>7, <1>8 DEF BatteryShown

LEMMA ChargeReported ==
  ASSUME Reported, NoSentinel, reg = ChargeStatusRegister, car \in ChargeStates
  PROVE  ChargeShown(car)'
<1> DEFINE T == ChargeTopics(EncodeChargeStatus(car))
<1>1. DecodeChargeStatus(EncodeChargeStatus(car)) = car
  BY ChargeReadBack
<1>2. DOMAIN T = {"charging", "remaining"} /\ T.charging = OnOff(car.charging)
      /\ T.remaining = IF car.remaining < 1000 THEN <<car.remaining>> ELSE shown.remaining
  BY <1>1 DEF ChargeTopics
<1>3. \A t \in DOMAIN T : t # "raw" => shown'[t] = T[t]
  BY TopicsShown, DataOf, TopicsAre
<1> HIDE DEF T
<1>4. /\ shown'.charging = OnOff(car.charging)
      /\ shown'.remaining = IF car.remaining < 1000 THEN <<car.remaining>> ELSE shown.remaining
  BY <1>2, <1>3
<1>5. IF car.remaining < 1000 THEN shown'.remaining = <<car.remaining>>
                              ELSE shown'.remaining # <<car.remaining>>
  <2>1. CASE car.remaining < 1000
    BY <1>4, <2>1
  <2>2. CASE ~(car.remaining < 1000)
    <3>1. car.remaining \notin RemainingsShown
      BY <2>2 DEF RemainingsShown
    <3>2. shown'.remaining = shown.remaining
      BY <1>4, <2>2
    <3>3. shown.remaining # <<car.remaining>>
      BY <3>1, NoSentinelIs, OnePayload, Zenon
    <3> QED BY <2>2, <3>2, <3>3
  <2> QED BY <2>1, <2>2
<1>6. car' = car
  BY DEF Reported
<1> QED BY <1>4, <1>5, <1>6 DEF ChargeShown, OnOff

LEMMA PlugReported ==
  ASSUME Reported, reg = ChargePlugRegister, car \in Flags
  PROVE  PlugShown(car)'
<1> DEFINE T == PlugTopics(EncodeChargePlug(car))
<1>1. DecodeChargePlug(EncodeChargePlug(car)) = car
  BY PlugReadBack
<1>2. T = [plug |-> IF car THEN <<"connected">> ELSE <<"unplugged">>]
  BY <1>1, Zenon DEF PlugTopics
<1>3. \A t \in DOMAIN T : t # "raw" => shown'[t] = T[t]
  BY TopicsShown, DataOf, TopicsAre
<1> HIDE DEF T
<1>4. shown'.plug = IF car THEN <<"connected">> ELSE <<"unplugged">>
  BY <1>2, <1>3
<1>5. car' = car
  BY DEF Reported
<1> QED BY <1>4, <1>5 DEF PlugShown

LEMMA LightsReported ==
  ASSUME Reported, reg = LightStatusRegister, car \in LightStates
  PROVE  LightsShown(car)'
<1> DEFINE d == CarLightData(car)
           T == LightTopics(d)
           i == DecodeLightStatus(d).interior
           h == DecodeLightStatus(d).hazard
<1>1. (i <=> car.interior) /\ (h <=> car.hazard)
  <2>1. d = <<0, 0, 0, IF car.hazard THEN 1 ELSE 2, IF car.interior THEN 1 ELSE 2>>
    BY DEF CarLightData
  <2>2. Len(d) = 5 /\ (At(d, 4) % 4 = 1 <=> car.interior) /\ (At(d, 3) % 4 = 1 <=> car.hazard)
    BY <2>1 DEF At
  <2> HIDE DEF d
  <2> QED BY <2>2, Zenon DEF DecodeLightStatus
<1>2. DOMAIN T = {"interior", "hazard"} /\ T.interior = OnOff(i) /\ T.hazard = OnOff(h)
  BY DEF LightTopics
<1>3. \A t \in DOMAIN T : t # "raw" => shown'[t] = T[t]
  BY TopicsShown, DataOf, TopicsAre
<1> HIDE DEF T, i, h
<1>4. shown'.interior = OnOff(i) /\ shown'.hazard = OnOff(h)
  BY <1>2, <1>3
<1>5. car' = car
  BY DEF Reported
<1> QED BY <1>1, <1>4, <1>5 DEF LightsShown, OnOff

LEMMA StateReported ==
  ASSUME Reported, reg = PreACStateRegister, car \in {0, 2, 3}
  PROVE  shown'.state = <<car>>
<1> DEFINE e == <<car, 0, 0>>
           d == Cut(e, 1)
           T == [state |-> <<DecodePreACState(d)>>]
<1>1. DecodePreACState(d) = car
  <2>1. Len(d) # 0 /\ At(d, 0) = car
    BY DEF Cut, At
  <2> HIDE DEF d
  <2> QED BY <2>1 DEF DecodePreACState
<1>2. \A t \in DOMAIN T : t # "raw" => shown'[t] = T[t]
  BY TopicsShown, DataOf, TopicsAre
<1> HIDE DEF d
<1>3. shown'.state = <<DecodePreACState(d)>>
  BY <1>2
<1> QED BY <1>1, <1>3

LEMMA ModeReported ==
  ASSUME Reported, reg = ACModeRegister, car \in ClimateStates
  PROVE  ModeShown(car)'
<1> DEFINE d == <<car.mode + car.duration>>
           T == [mode |-> <<DecodeACMode(d).mode>>]
<1>1. car.mode \in 0..3 /\ car.duration \in {0, 16, 32}
  BY DEF ClimateStates
<1>2. DecodeACMode(d).mode = ACModes[car.mode + 1]
  <2>1. Len(d) = 1 /\ At(d, 0) % 16 = car.mode
    BY <1>1, ModeByte DEF At
  <2> HIDE DEF d
  <2> QED BY <1>1, <2>1 DEF DecodeACMode
<1>3. \A t \in DOMAIN T : t # "raw" => shown'[t] = T[t]
  BY TopicsShown, DataOf, TopicsAre
<1> HIDE DEF d
<1>4. shown'.mode = <<ACModes[car.mode + 1]>>
  BY <1>2, <1>3
<1>5. car' = car
  BY DEF Reported
<1> QED BY <1>1, <1>4, <1>5 DEF ModeShown, ACModes

LEMMA VINReported ==
  ASSUME Reported, reg = VINRegister, car \in VINStates
  PROVE  shown'.registrations = <<car.registrations>>
<1> DEFINE d == CarVINData(car)
           T == VINTopics(d)
<1>1. DecodeVIN(d).registrations = car.registrations
  <2>1. Len(d) = 20 /\ At(d, 19) = car.registrations
    BY DEF CarVINData, At
  <2> HIDE DEF d
  <2> QED BY <2>1 DEF DecodeVIN
<1>2. DOMAIN T = {"vin", "registrations"} /\ T.registrations = <<DecodeVIN(d).registrations>>
  BY DEF VINTopics
<1>3. \A t \in DOMAIN T : t # "raw" => shown'[t] = T[t]
  BY TopicsShown, DataOf, TopicsAre
<1> HIDE DEF d, T
<1>4. shown'.registrations = <<DecodeVIN(d).registrations>>
  BY <1>2, <1>3
<1> QED BY <1>1, <1>4

LEMMA DataStays ==
  ASSUME UNCHANGED <<reg, car, carYear>>
  PROVE  CarData(reg, car)' = CarData(reg, car)
BY DEF CarData, Cut

\* What the registers without topics of their own show.
LEMMA ShowsRaw ==
  ASSUME UNCHANGED <<reg, car, carYear>>,
         reg \notin {DoorStatusRegister, BatteryLevelRegister, ChargeStatusRegister,
                     ChargePlugRegister, LightStatusRegister, PreACStateRegister,
                     ACModeRegister, VINRegister}
  PROVE  Shows(reg, car)' <=> shown'.raw = <<CarData(reg, car)>>
<1>1. Shows(reg, car)' <=> shown'.raw = <<CarData(reg, car)'>>
  BY Zenon DEF Shows
<1> QED BY <1>1, DataStays

LEMMA ReportShows ==
  ASSUME TypeOK, NoSentinel, Reported
  PROVE  Shows(reg, car)'
<1>1. reg \in Modelled /\ car \in CarTypes(reg)
  BY ControlAssumption DEF TypeOK, CarType
<1>2. UNCHANGED <<reg, car, carYear>>
  BY DEF Reported
<1>3. CASE reg = DoorStatusRegister
  BY <1>1, <1>2, <1>3, CarTypesAre, ShowsIs, DoorsReported
<1>4. CASE reg = BatteryLevelRegister
  BY <1>1, <1>2, <1>4, CarTypesAre, ShowsIs, BatteryReported
<1>5. CASE reg = ChargeStatusRegister
  BY <1>1, <1>2, <1>5, CarTypesAre, ShowsIs, ChargeReported
<1>6. CASE reg = ChargePlugRegister
  BY <1>1, <1>2, <1>6, CarTypesAre, ShowsIs, PlugReported
<1>7. CASE reg = LightStatusRegister
  BY <1>1, <1>2, <1>7, CarTypesAre, ShowsIs, LightsReported
<1>8. CASE reg = PreACStateRegister
  BY <1>1, <1>2, <1>8, CarTypesAre, ShowsIs, StateReported
<1>9. CASE reg = ACModeRegister
  BY <1>1, <1>2, <1>9, CarTypesAre, ShowsIs, ModeReported
<1>10. CASE reg = VINRegister
  BY <1>1, <1>2, <1>10, CarTypesAre, ShowsIs, VINReported
<1>11. CASE reg \notin {DoorStatusRegister, BatteryLevelRegister, ChargeStatusRegister,
                        ChargePlugRegister, LightStatusRegister, PreACStateRegister,
                        ACModeRegister, VINRegister}
  BY <1>2, <1>11, ShowsRaw, TopicsShown
<1> QED
  BY <1>3, <1>4, <1>5, <1>6, <1>7, <1>8, <1>9, <1>10, <1>11

LEMMA ShowsStays ==
  ASSUME UNCHANGED <<reg, car, carYear, shown>>
  PROVE  Shows(reg, car)' <=> Shows(reg, car)
<1>1. DoorsShown(car)' <=> DoorsShown(car)
  BY DEF DoorsShown
<1>2. BatteryShown(car)' <=> BatteryShown(car)
  BY DEF BatteryShown
<1>3. ChargeShown(car)' <=> ChargeShown(car)
  BY DEF ChargeShown
<1>4. PlugShown(car)' <=> PlugShown(car)
  BY DEF PlugShown
<1>5. LightsShown(car)' <=> LightsShown(car)
  BY DEF LightsShown
<1>6. ModeShown(car)' <=> ModeShown(car)
  BY DEF ModeShown
<1> QED BY <1>1, <1>2, <1>3, <1>4, <1>5, <1>6, DataStays DEF Shows

\* The topics are as current as the queue is empty of reports: the last of them
\* is the car as it is, and it is what the topics are made of.
LEMMA CurrentStep ==
  ASSUME TypeOK, LastReport, NoSentinel, ShownCurrent, [Next]_vars
  PROVE  ShownCurrent'
<1> SUFFICES ASSUME Told' PROVE Shows(reg, car)'
  BY DEF ShownCurrent
<1>1. in \in Seq(Reports) /\ CarType /\ out \in Seq(Frames)
  BY DEF TypeOK, QueueType
<1>2. sess' = "up" /\ ~stale' /\ \A i \in DOMAIN in' : in'[i].type # "update"
  BY DEF Told
<1>3. ASSUME UNCHANGED <<reg, car, carYear, shown>>, Told
      PROVE  Shows(reg, car)'
  BY <1>3, ShowsStays DEF ShownCurrent
<1>4. CASE Receive
  <2>1. \A i \in DOMAIN in : i > 1 => in[i].type # "update"
    <3> SUFFICES ASSUME NEW i \in DOMAIN in, i > 1 PROVE in[i].type # "update"
      OBVIOUS
    <3>1. in' = Tail(in) /\ in # <<>>
      BY <1>4 DEF Receive
    <3>2. i - 1 \in DOMAIN Tail(in) /\ Tail(in)[i - 1] = in[i]
      BY <1>1, <3>1
    <3> QED BY <1>2, <3>1, <3>2
  <2>2. 1 \in DOMAIN in /\ in[1].type = "update" /\ sess = "up" /\ ~stale
    BY <1>1, <1>2, <1>4 DEF Receive
  <2>3. in[1] = Update
    BY <2>1, <2>2 DEF LastReport
  <2>4. Reported
    BY <1>4, <2>3 DEF Receive, Reported, Update
  <2> QED BY <2>4, ReportShows
<1>5. CASE TakeAck \/ TakeBad
  <2>1. UNCHANGED <<reg, car, carYear, shown, sess, stale>> /\ in' = Tail(in) /\ in # <<>>
        /\ in[1].type # "update"
    BY <1>5 DEF TakeAck, TakeBad
  <2>2. \A i \in DOMAIN in : in[i].type # "update"
    <3> SUFFICES ASSUME NEW i \in DOMAIN in, i # 1 PROVE in[i].type # "update"
      BY <2>1
    <3>1. i - 1 \in DOMAIN Tail(in) /\ Tail(in)[i - 1] = in[i]
      BY <1>1, <2>1
    <3> QED BY <1>2, <2>1, <3>1
  <2> QED BY <1>2, <1>3, <2>1, <2>2 DEF Told
<1>6. CASE CarTake \/ CarReject \/ CarReport
  <2>1. PICK r \in Reports : in' = Append(in, r)
    BY <1>1, <1>6, ReportTypes DEF CarTake, CarReject, CarReport
  <2>2. /\ Len(in) + 1 \in DOMAIN in' /\ in'[Len(in) + 1] = r
        /\ \A i \in DOMAIN in : i \in DOMAIN in' /\ in'[i] = in[i]
    BY <1>1, <2>1
  <2>3. \A i \in DOMAIN in : in[i].type # "update"
    BY <1>2, <2>2
  <2>4. ~CarReport
    <3> SUFFICES ASSUME CarReport PROVE FALSE
      OBVIOUS
    <3>1. in' = Append(in, Update) /\ Update \in Reports /\ Update.type = "update"
      BY <1>1, ReportTypes DEF CarReport, Update
    <3>2. Len(in) + 1 \in DOMAIN in' /\ in'[Len(in) + 1] = Update
      BY <1>1, <3>1
    <3> QED BY <1>2, <3>1, <3>2
  <2>5. UNCHANGED <<reg, car, carYear, shown, sess, stale>>
    BY <1>2, <1>6, <2>4 DEF CarTake, CarReject, TypeOK, CarType
  <2> QED BY <1>2, <1>3, <2>3, <2>5 DEF Told
<1>7. CASE UNCHANGED <<reg, car, carYear, shown, sess, stale, in>>
  BY <1>2, <1>3, <1>7 DEF Told
<1>8. \/ Receive \/ TakeAck \/ TakeBad \/ CarTake \/ CarReject \/ CarReport
      \/ UNCHANGED <<reg, car, carYear, shown, sess, stale, in>>
  BY <1>2 DEF Next, Connect, Replace, StartRequest, Start, Drop, Refresh, Command, Call, Put,
     GiveUp, GiveUpLate, CarIgnore, CarChange, vars, session
<1> QED BY <1>4, <1>5, <1>6, <1>7, <1>8

\* Once everything the car reported has been taken in, the topics say what the
\* car is, through any number of sessions and commands.
THEOREM TopicsCurrent == Spec => []ShownCurrent
<1> DEFINE CurrentInv == LastReport /\ NoSentinel /\ ShownCurrent
<1>1. Init => CurrentInv
  <2> SUFFICES ASSUME Init PROVE CurrentInv
    OBVIOUS
  <2>1. sess = "new" /\ shown.level = <<>> /\ shown.remaining = <<>>
    BY DEF Init
  <2> QED BY <2>1 DEF LastReport, NoSentinel, ShownCurrent, Told
<1>2. TypeOK /\ CurrentInv /\ [Next]_vars => CurrentInv'
  BY LastReportStep, NoSentinelStep, CurrentStep
<1>3. CurrentInv => ShownCurrent
  OBVIOUS
<1> HIDE DEF CurrentInv
<1> QED BY <1>1, <1>2, <1>3, TypeCorrect, PTL DEF Spec
=============================================================================
