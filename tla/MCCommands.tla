----------------------------- MODULE MCCommands -----------------------------
(* Instance of Commands for TLC: the car starts the session, reports its   *)
(* VIN, acknowledges the register that is set, and rejects what it cannot  *)
(* decode.                                                                 *)
EXTENDS Commands

CONSTANTS vin, reg, y18

MCMsgs == {[type |-> "CmdInStartReq", year |-> y18],
           [type |-> "CmdInResp", ack |-> "Request", reg |-> vin],
           [type |-> "CmdInResp", ack |-> "Ack", reg |-> reg],
           [type |-> "CmdInBadEncoding"]}

MCRegisters == {vin, reg}
MCSettable  == {<<reg>>}
MCRegister  == {reg}
JustMain    == {Main}
=============================================================================
