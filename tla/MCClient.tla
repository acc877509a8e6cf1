------------------------------ MODULE MCClient ------------------------------
(* Instances of Client for TLC.                                            *)
EXTENDS Client

CONSTANTS r1, r2, c1, y18

Resp(a, r) == [type |-> "CmdInResp", ack |-> a, reg |-> r]
Start(y)   == [type |-> "CmdInStartReq", year |-> y]
Signal(t)  == [type |-> t]

\* A handshake, and what concerns a call: an ack of r1, the ack of another
\* register for a call that sets r2, and a BadEncoding.
CallMsgs == {Start(y18), Resp("Ack", r1), Signal("CmdInBadEncoding")}

\* For the end of a session: both steps of the handshake, a register update.
LiveMsgs == {Start(y18), Signal("CmdInStartResp"), Resp("Request", r1)}

OneRegister  == {r1}
TwoRegisters == {r1, r2}
OneCaller    == {c1}
=============================================================================
