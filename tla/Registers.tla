----------------------------- MODULE Registers ------------------------------
(***************************************************************************)
(* The registers of the car: the Decode and Encode methods of the register *)
(* types of protocol/message.go, as operators on the data of a frame, a    *)
(* sequence of bytes.  A decoded register is a record of the fields of the *)
(* Go struct; Decode starts from a new struct, so data of the wrong length *)
(* leaves every field zero.  Text is the sequence of its bytes.  The time  *)
(* register is left out: nothing in the repository reads its fields.       *)
(***************************************************************************)
EXTENDS Integers, Sequences

Byte == 0..255

BatteryWarningRegister == 2
PreACStateRegister     == 16
VINRegister            == 21
ACOperStatusRegister   == 26
ACModeRegister         == 28
BatteryLevelRegister   == 29
ChargePlugRegister     == 30
ChargeStatusRegister   == 31
LightStatusRegister    == 35
DoorStatusRegister     == 36
WIFISSIDRegister       == 40
ECUVersionRegister     == 192

\* Byte i of the data, counted as in Go; data[:i] and data[i:j].
At(d, i)       == d[i + 1]
Slice(d, i, j) == SubSeq(d, i + 1, j)
Zeros(n)       == [i \in 1..n |-> 0]

-----------------------------------------------------------------------------
\* Mutation: a byte of the door register is read at the place of another.
DoorBytesSwapped ==
  [locked |-> 0, driver |-> 3, frontPassenger |-> 4, rearLeft |-> 5,
   rearRight |-> 6, boot |-> 7, bonnet |-> 8, headlights |-> 9]

\* Where RegisterDoorStatus keeps each of its flags.
DoorByte ==
  [locked |-> 0, driver |-> 3, frontPassenger |-> 4, rearRight |-> 5,
   rearLeft |-> 6, boot |-> 7, bonnet |-> 8, headlights |-> 9]
DoorFlags == DOMAIN DoorByte

DecodeDoorStatus(d) ==
  [f \in DoorFlags |-> Len(d) = 10 /\ At(d, DoorByte[f]) = 1]

EncodeDoorStatus(r) ==
  [i \in 1..10 |-> IF \E f \in DoorFlags : r[f] /\ DoorByte[f] = i - 1
                   THEN 1 ELSE 0]

DecodeBatteryLevel(d) ==
  IF Len(d) = 4 THEN [level |-> At(d, 0), parkingLights |-> At(d, 2) = 1]
                ELSE [level |-> 0, parkingLights |-> FALSE]

\* Three bytes, where Decode wants four.
EncodeBatteryLevel(r) == <<r.level, 0, IF r.parkingLights THEN 1 ELSE 0>>

DecodeBatteryWarning(d) == IF Len(d) = 4 THEN At(d, 2) ELSE 0
EncodeBatteryWarning(w) == <<0, 0, w, 0>>

\* A high byte of 0xff stands for no estimate.
DecodeChargeStatus(d) ==
  IF Len(d) = 3
  THEN [charging  |-> At(d, 0) = 1,
        remaining |-> IF At(d, 2) = 255 THEN 0 ELSE 256 * At(d, 2) + At(d, 1)]
  ELSE [charging |-> FALSE, remaining |-> 0]

\* Mutation: the high byte of the minutes is dropped.
EncodeChargeStatusLow(r) ==
  IF r.charging THEN <<1, r.remaining % 256, 0>> ELSE Zeros(3)

EncodeChargeStatus(r) ==
  IF r.charging THEN <<1, r.remaining % 256, (r.remaining \div 256) % 256>>
                ELSE Zeros(3)

DecodeChargePlug(d) == Len(d) = 2 /\ (At(d, 0) > 0 \/ At(d, 1) > 0)
EncodeChargePlug(connected) == <<0, IF connected THEN 1 ELSE 0>>

\* The two lower bits: 1 for on, 2 for off.
DecodeLightStatus(d) ==
  [interior |-> Len(d) = 5 /\ At(d, 4) % 4 = 1,
   hazard   |-> Len(d) = 5 /\ At(d, 3) % 4 = 1]

\* PreACState is an int8 taken from the first byte, whatever the length.
DecodePreACState(d) ==
  IF Len(d) = 0 THEN 0
  ELSE IF At(d, 0) < 128 THEN At(d, 0) ELSE At(d, 0) - 256

DecodeACOperStatus(d) == Len(d) >= 2 /\ At(d, 1) = 1
EncodeACOperStatus(operating) == <<0, IF operating THEN 1 ELSE 0, 0, 0, 0>>

ACModes == <<"off", "cool", "heat", "windscreen">>

\* Lower half of the byte: the mode; upper half: the duration, 0 if unknown.
DecodeACMode(d) ==
  IF Len(d) # 1 THEN [mode |-> "", duration |-> 0]
  ELSE LET low == At(d, 0) % 16
           high == At(d, 0) \div 16
       IN  [mode     |-> IF low < 4 THEN ACModes[low + 1] ELSE "unknown",
            duration |-> IF high < 3 THEN 10 * (high + 1) ELSE 0]

\* The duration is not encoded, "unknown" is 0.
EncodeACMode(r) ==
  <<IF \E i \in 2..4 : ACModes[i] = r.mode
    THEN (CHOOSE i \in 2..4 : ACModes[i] = r.mode) - 1 ELSE 0>>

\* Sixteen bytes after the first.
DecodeVIN(d) ==
  IF Len(d) = 20 THEN [vin |-> Slice(d, 1, 17), registrations |-> At(d, 19)]
                 ELSE [vin |-> <<>>, registrations |-> 0]
EncodeVIN(r) == <<3>> \o r.vin \o <<0, r.registrations % 256>>

DecodeECUVersion(d) == IF Len(d) = 13 THEN Slice(d, 0, 9) ELSE <<>>
EncodeECUVersion(version) == version \o <<17, 0, 0>>

\* The padding with 0 stays: 0xff is made 0, and 0 is part of the text.
DecodeWIFISSID(d) ==
  IF Len(d) = 32 THEN [i \in 1..32 |-> IF d[i] = 255 THEN 0 ELSE d[i]] ELSE <<>>
EncodeWIFISSID(ssid) == [i \in 1..32 |-> IF i <= Len(ssid) THEN ssid[i] ELSE 0]
=============================================================================
