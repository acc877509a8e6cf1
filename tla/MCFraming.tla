----------------------------- MODULE MCFraming ------------------------------
(* Model-checking instance of Framing: a start request (that of the tests  *)
(* of protocol), the update of the battery level, an update that holds a   *)
(* frame without room for data, the answer to a ping and the answer to a   *)
(* set command.  The battery level's bytes from the register on read as a  *)
(* start request without a key when it is cut in front of them, and the    *)
(* two keys are such that an answer is misread when an update follows in   *)
(* the same read.                                                          *)
EXTENDS Framing

MCStart ==
  [type |-> 94, ack |-> 0, register |-> 1,
   data |-> <<190, 207, 233, 173, 173, 165, 21, 139, 1>>]
MCLevel == [type |-> CmdInResp, ack |-> 0, register |-> 29, data |-> <<64, 67, 161, 0>>]
MCHolds == [type |-> CmdInResp, ack |-> 0, register |-> 4, data |-> <<1, 2, 0, 3>>]
MCPing  == [type |-> 63, ack |-> 1, register |-> 5, data |-> <<0>>]
MCSet   == [type |-> CmdInResp, ack |-> 1, register |-> 10, data |-> <<0>>]

MCFrames  == {MCStart, MCLevel, MCHolds, MCPing, MCSet}
MCUpdates == {MCStart, MCLevel}

MCKeys == <<17, 129>>
=============================================================================
