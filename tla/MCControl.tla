----------------------------- MODULE MCControl ------------------------------
(* Model-checking instance of Control: every register type on a car of     *)
(* model year 18, and of model years 14 and 24 where that matters.         *)
EXTENDS Control

MCFocus ==
  {<<r, 18>> : r \in {PreACStateRegister, VINRegister, ChargeTimerRegister,
                      ACModeRegister, BatteryLevelRegister, ChargePlugRegister,
                      ChargeStatusRegister, LightStatusRegister,
                      DoorStatusRegister, ECUVersionRegister,
                      BatteryWarningRegister, ACOperStatusRegister,
                      WIFISSIDRegister}}
    \cup {<<PreACStateRegister, 14>>, <<ACOperStatusRegister, 14>>,
          <<ACModeRegister, 14>>, <<ACModeRegister, 24>>}
=============================================================================
