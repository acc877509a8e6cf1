------------------------------- MODULE Client -------------------------------
(***************************************************************************)
(* The connection core of phev2mqtt: client/client.go, with the goroutines *)
(* of one Client and the code that drives it, handlePhev of cmd/mqtt.go.   *)
(*                                                                         *)
(* One Client value lives for one TCP connection.  Connect starts four     *)
(* goroutines: the reader fans every frame of the car out to the listeners *)
(* and then to the Recv channel, the writer drains the Send channel, the   *)
(* manager answers the car's handshake, the pinger keeps the link alive.   *)
(* The user waits for Start and then reads Recv; any number of goroutines  *)
(* call SetRegister, each with a listener of its own; another goroutine    *)
(* may call Close at any time.                                             *)
(*                                                                         *)
(* Abstractions.  The bytes of a frame are left to the modules of the      *)
(* protocol package: a frame is a record with the fields this code tests.  *)
(* Timers (45 s, 10 s, 30 s, 15 s) may fire whenever they are armed.  One  *)
(* Read returns one frame: a Read that returns several is the same         *)
(* sequence of deliveries.  The loop over the listeners runs under lMu and *)
(* never blocks, so a delivery to all of them is one step.                 *)
(***************************************************************************)
EXTENDS Naturals, Sequences, FiniteSets

CONSTANTS
  Callers,       \* goroutines that may call SetRegister
  Manager,       \* the goroutine running manage(), as owner of a listener
  Registers,     \* register numbers in use
  SettingsReg,   \* protocol.SettingsRegister
  Years,         \* model years a start request can announce
  Unknown,       \* ModelYearUnknown
  CarMsgs,       \* frames the car sends in this instance
  RecvCap,       \* make(chan, 5) for Recv
  SendCap,       \* make(chan, 5) for Send
  StartedCap,    \* make(chan, 2) for started
  ListenerCap    \* make(chan, 5) for Listener.C

\* A frame from the car, with the fields that client.go and handlePhev test.
Responses == [type : {"CmdInResp"}, ack : {"Request", "Ack"}, reg : Registers]
StartReqs == [type : {"CmdInStartReq"}, year : Years]
Signals   == [type : {"CmdInStartResp", "CmdInBadEncoding", "CmdInPingResp"}]
InMsgs    == Responses \cup StartReqs \cup Signals

\* A frame to the car: a ping, the start response, the acknowledgement of a
\* register update, the request of a SetRegister call.
OutMsgs == {"CmdOutPingReq", "CmdOutStartResp", "CmdOutAck", "CmdOutSend"}

Ping      == "CmdOutPingReq"
StartResp == "CmdOutStartResp"
AckOut    == "CmdOutAck"
SetOut    == "CmdOutSend"

Owners == Callers \cup {Manager}

ASSUME CapAssumption ==
  /\ RecvCap \in Nat \ {0} /\ SendCap \in Nat \ {0}
  /\ StartedCap \in Nat \ {0} /\ ListenerCap \in Nat \ {0}

ASSUME NameAssumption ==
  /\ Manager \notin Callers
  /\ Unknown \notin Years
  /\ CarMsgs \subseteq InMsgs

VARIABLES
  conn,           \* c.conn: "none" (nil), "open" or "closed"
  closed,         \* c.closed
  recvQ,          \* buffer of c.Recv
  recvClosed,     \* whether c.Recv is closed
  sendQ,          \* buffer of c.Send
  started,        \* number of tokens in c.started
  startedClosed,  \* whether c.started is closed
  listeners,      \* owners whose listener is in c.listeners
  lq,             \* buffer of each owner's Listener.C
  lclosed,        \* whether each owner's Listener.C is closed
  modelYear,      \* c.ModelYear
  settings,       \* whether c.Settings has taken a block from the car
  rpc, rmsg,      \* reader: next step, frame in hand
  wpc, wmsg,      \* writer: next step, frame in hand
  mpc,            \* manager: next step
  ppc,            \* pinger: next step
  upc,            \* user: next step
  ures,           \* what Start returned to the user
  cpc, creg, cres \* SetRegister calls: next step, register, last result

\* History variables, read by the properties only.
VARIABLES
  answered,       \* a start response has reached the writer
  acked           \* the car acked the call's register since it listens

connVars == <<conn, closed>>
recvVars == <<recvQ, recvClosed>>
startVars == <<started, startedClosed, modelYear, settings>>
lisVars  == <<listeners, lq, lclosed>>
reader   == <<rpc, rmsg>>
writer   == <<wpc, wmsg>>
user     == <<upc, ures>>
calls    == <<cpc, creg, cres>>
history  == <<answered, acked>>

vars == <<connVars, recvVars, sendQ, startVars, lisVars, reader, writer, mpc,
          ppc, user, calls, history>>

NoIn  == [type |-> "none"]
NoOut == "none"

TypeOK ==
  /\ conn \in {"none", "open", "closed"}
  /\ closed \in BOOLEAN
  /\ recvQ \in Seq(InMsgs) /\ Len(recvQ) <= RecvCap
  /\ recvClosed \in BOOLEAN
  /\ sendQ \in Seq(OutMsgs) /\ Len(sendQ) <= SendCap
  /\ started \in 0..StartedCap
  /\ startedClosed \in BOOLEAN
  /\ listeners \subseteq Owners
  /\ lq \in [Owners -> Seq(InMsgs)]
  /\ \A l \in Owners : Len(lq[l]) <= ListenerCap
  /\ lclosed \in [Owners -> BOOLEAN]
  /\ modelYear \in Years \cup {Unknown}
  /\ settings \in BOOLEAN
  /\ rpc \in {"off", "read", "deliver", "recv", "closeRecv", "stop", "done"}
  /\ rmsg \in InMsgs \cup {NoIn}
  /\ rpc \in {"deliver", "recv"} => rmsg \in InMsgs
  /\ wpc \in {"off", "take", "write", "done"}
  /\ wmsg \in OutMsgs \cup {NoOut}
  /\ mpc \in {"off", "add", "loop", "ping", "respond", "signal", "close", "done"}
  /\ ppc \in {"off", "run", "done"}
  /\ upc \in {"new", "assign", "start", "loop", "ack", "out"}
  /\ ures \in {"none", "ok", "closed", "timeout"}
  /\ cpc \in [Callers -> {"idle", "send", "wait"}]
  /\ creg \in [Callers -> Registers]
  /\ cres \in [Callers -> {"none", "ok", "closed", "timeout"}]
  /\ answered \in BOOLEAN
  /\ acked \in [Callers -> BOOLEAN]

\* New (client.go:99): nothing connected, empty channels, no listener.
Init ==
  /\ conn = "none" /\ closed = FALSE
  /\ recvQ = <<>> /\ recvClosed = FALSE /\ sendQ = <<>>
  /\ started = 0 /\ startedClosed = FALSE
  /\ listeners = {}
  /\ lq = [l \in Owners |-> <<>>]
  /\ lclosed = [l \in Owners |-> FALSE]
  /\ modelYear = Unknown /\ settings = FALSE
  /\ rpc = "off" /\ rmsg = NoIn
  /\ wpc = "off" /\ wmsg = NoOut
  /\ mpc = "off" /\ ppc = "off"
  /\ upc = "new" /\ ures = "none"
  /\ cpc = [s \in Callers |-> "idle"]
  /\ creg \in [Callers -> Registers]
  /\ cres = [s \in Callers |-> "none"]
  /\ answered = FALSE
  /\ acked = [s \in Callers |-> FALSE]

-----------------------------------------------------------------------------
(* Shared operations.                                                      *)

\* Client.Close: mark closed, close the socket if there is one.
Close ==
  /\ closed' = TRUE
  /\ conn' = IF conn = "open" THEN "closed" ELSE conn

\* c.Send <- m, blocking while the buffer is full.
Enqueue(m) ==
  /\ Len(sendQ) < SendCap
  /\ sendQ' = Append(sendQ, m)

\* AddListener: a fresh channel in the list.
AddListener(l) ==
  /\ listeners' = listeners \cup {l}
  /\ lq' = [lq EXCEPT ![l] = <<>>]
  /\ lclosed' = [lclosed EXCEPT ![l] = FALSE]

\* Mutation: the returning call closes its channel and leaves it in the list.
RemoveListenerByClosing(l) ==
  /\ lclosed' = [lclosed EXCEPT ![l] = TRUE]
  /\ UNCHANGED <<listeners, lq>>

\* RemoveListener: out of the list; nobody holds its channel any more.
RemoveListener(l) ==
  /\ listeners' = listeners \ {l}
  /\ lq' = [lq EXCEPT ![l] = <<>>]
  /\ lclosed' = [lclosed EXCEPT ![l] = FALSE]

\* Listener.Send to every listener: a full channel loses the frame.
\* (OfferUnbounded, like every definition with "Mutation:" above it, is a
\* plausible bug that the properties are tested against.)
OfferUnbounded(l, m) == IF l \in listeners THEN Append(lq[l], m) ELSE lq[l]
Offer(l, m) == IF l \in listeners /\ Len(lq[l]) < ListenerCap
               THEN Append(lq[l], m) ELSE lq[l]
FanOut(m) == lq' = [l \in Owners |-> Offer(l, m)]

\* Listener.Stop and ProcessStop for every listener in the list.
StopListeners ==
  lclosed' = [l \in Owners |-> lclosed[l] \/ l \in listeners]

-----------------------------------------------------------------------------
(* reader().                                                               *)

\* Read returns a frame of the car.
ReaderRead ==
  /\ rpc = "read" /\ conn = "open"
  /\ \E m \in CarMsgs : rmsg' = m
  /\ rpc' = "deliver"
  /\ UNCHANGED <<connVars, recvVars, sendQ, startVars, lisVars, writer, mpc,
                 ppc, user, calls, history>>

\* Under lMu, offer the frame to every listener.
ReaderDeliver ==
  /\ rpc = "deliver"
  /\ FanOut(rmsg)
  /\ rpc' = "recv"
  /\ acked' = [s \in Callers |->
                 \/ acked[s]
                 \/ /\ s \in listeners /\ rmsg.type = "CmdInResp"
                    /\ rmsg.ack = "Ack" /\ rmsg.reg = creg[s]]
  /\ UNCHANGED <<connVars, recvVars, sendQ, startVars, listeners, lclosed,
                 rmsg, writer, mpc, ppc, user, calls,
                 answered>>

\* Mutation: a full Recv loses the frame, as a full listener channel does.
ReaderRecvOrDrop ==
  /\ rpc = "recv"
  /\ recvQ' = IF Len(recvQ) < RecvCap THEN Append(recvQ, rmsg) ELSE recvQ
  /\ rpc' = "read" /\ rmsg' = NoIn
  /\ UNCHANGED <<connVars, recvClosed, sendQ, startVars, lisVars, writer, mpc,
                 ppc, user, calls, history>>

\* c.Recv <- m, blocking while the buffer is full.
ReaderRecv ==
  /\ rpc = "recv" /\ Len(recvQ) < RecvCap
  /\ recvQ' = Append(recvQ, rmsg)
  /\ rpc' = "read" /\ rmsg' = NoIn
  /\ UNCHANGED <<connVars, recvClosed, sendQ, startVars, lisVars, writer, mpc,
                 ppc, user, calls, history>>

\* Mutation: the reader leaves Recv open.
ReaderErrorKeepsRecv ==
  /\ rpc = "read"
  /\ Close
  /\ rpc' = "stop"
  /\ UNCHANGED <<recvVars, sendQ, startVars, lisVars, rmsg, writer, mpc, ppc,
                 user, calls, history>>

\* Mutation: an error on a Client that is already closed is not acted upon.
ReaderErrorIfNotClosed ==
  /\ rpc = "read" /\ ~closed
  /\ Close
  /\ rpc' = "closeRecv"
  /\ UNCHANGED <<recvVars, sendQ, startVars, lisVars, rmsg, writer, mpc, ppc,
                 user, calls, history>>

\* Read fails: the socket is closed, the peer is gone, or 30 s were silent.
ReaderError ==
  /\ rpc = "read"
  /\ Close
  /\ rpc' = "closeRecv"
  /\ UNCHANGED <<recvVars, sendQ, startVars, lisVars, rmsg, writer, mpc, ppc,
                 user, calls, history>>

ReaderCloseRecv ==
  /\ rpc = "closeRecv"
  /\ recvClosed' = TRUE
  /\ rpc' = "stop"
  /\ UNCHANGED <<connVars, recvQ, sendQ, startVars, lisVars, rmsg, writer, mpc,
                 ppc, user, calls, history>>

\* Under lMu, close the channel of every listener; the reader ends.
ReaderStop ==
  /\ rpc = "stop"
  /\ StopListeners
  /\ rpc' = "done"
  /\ UNCHANGED <<connVars, recvVars, sendQ, startVars, listeners, lq, rmsg,
                 writer, mpc, ppc, user, calls, history>>

Reader == \/ ReaderRead \/ ReaderDeliver \/ ReaderRecv
          \/ ReaderError \/ ReaderCloseRecv \/ ReaderStop

-----------------------------------------------------------------------------
(* writer().  Nobody closes Send, so its !ok branch is unreachable.        *)

WriterTake ==
  /\ wpc = "take" /\ sendQ # <<>>
  /\ wmsg' = Head(sendQ)
  /\ sendQ' = Tail(sendQ)
  /\ wpc' = "write"
  /\ answered' = (answered \/ Head(sendQ) = StartResp)
  /\ UNCHANGED <<connVars, recvVars, startVars, lisVars, reader, mpc, ppc,
                 user, calls, acked>>

WriterWrite ==
  /\ wpc = "write" /\ conn = "open"
  /\ wpc' = "take" /\ wmsg' = NoOut
  /\ UNCHANGED <<connVars, recvVars, sendQ, startVars, lisVars, reader, mpc,
                 ppc, user, calls, history>>

\* Mutation: the writer cleans up for the reader.
WriterErrorClosesRecv ==
  /\ wpc = "write"
  /\ Close
  /\ recvClosed' = TRUE
  /\ wpc' = "done" /\ wmsg' = NoOut
  /\ UNCHANGED <<recvQ, sendQ, startVars, lisVars, reader, mpc, ppc, user,
                 calls, history>>

\* Write fails, or its 15 s deadline passes.
WriterError ==
  /\ wpc = "write"
  /\ Close
  /\ wpc' = "done" /\ wmsg' = NoOut
  /\ UNCHANGED <<recvVars, sendQ, startVars, lisVars, reader, mpc, ppc, user,
                 calls, history>>

Writer == WriterTake \/ WriterWrite \/ WriterError

-----------------------------------------------------------------------------
(* manage().                                                               *)

\* The listener is added by the goroutine itself, not by Connect.
ManageAdd ==
  /\ mpc = "add"
  /\ AddListener(Manager)
  /\ mpc' = "loop"
  /\ UNCHANGED <<connVars, recvVars, sendQ, startVars, reader, writer, ppc,
                 user, calls, history>>

\* Mutation: the user is told of the start before the response is sent.
HandleSignalFirst(m) ==
  /\ mpc' = IF m.type = "CmdInStartReq" THEN "signal" ELSE mpc
  /\ modelYear' = IF m.type = "CmdInStartReq" THEN m.year ELSE modelYear
  /\ UNCHANGED settings

\* What the loop body does with frame m before its first blocking operation.
\* FromRegister refuses a malformed block and keeps what Settings has.
Handle(m) ==
  \/ /\ m.type = "CmdInStartReq"
     /\ modelYear' = m.year
     /\ mpc' = "respond"
     /\ UNCHANGED settings
  \/ /\ m.type = "CmdInStartResp"
     /\ mpc' = "ping"
     /\ UNCHANGED <<modelYear, settings>>
  \/ /\ m.type = "CmdInResp"
     /\ settings' \in IF m.ack = "Request" /\ m.reg = SettingsReg
                       THEN {settings, TRUE} ELSE {settings}
     /\ UNCHANGED <<modelYear, mpc>>
  \/ /\ m.type \in {"CmdInBadEncoding", "CmdInPingResp"}
     /\ UNCHANGED <<modelYear, settings, mpc>>

ManageReceive ==
  /\ mpc = "loop" /\ lq[Manager] # <<>>
  /\ lq' = [lq EXCEPT ![Manager] = Tail(@)]
  /\ Handle(Head(lq[Manager]))
  /\ UNCHANGED <<connVars, recvVars, sendQ, started, startedClosed, listeners,
                 lclosed, reader, writer, ppc, user, calls, history>>

ManagePing ==
  /\ mpc = "ping"
  /\ Enqueue(Ping)
  /\ mpc' = "loop"
  /\ UNCHANGED <<connVars, recvVars, startVars, lisVars, reader, writer, ppc,
                 user, calls, history>>

ManageRespond ==
  /\ mpc = "respond"
  /\ Enqueue(StartResp)
  /\ mpc' = "signal"
  /\ UNCHANGED <<connVars, recvVars, startVars, lisVars, reader, writer, ppc,
                 user, calls, history>>

\* c.started <- struct{}{}, blocking while the buffer is full.
ManageSignal ==
  /\ mpc = "signal" /\ started < StartedCap
  /\ started' = started + 1
  /\ mpc' = "loop"
  /\ UNCHANGED <<connVars, recvVars, sendQ, startedClosed, modelYear, settings,
                 lisVars, reader, writer, ppc, user, calls, history>>

\* Mutation: the manager ends as soon as it has nothing to do.
ManageLoopEndWhenIdle ==
  /\ mpc = "loop" /\ lq[Manager] = <<>>
  /\ mpc' = "close"
  /\ UNCHANGED <<connVars, recvVars, sendQ, startVars, lisVars, reader, writer,
                 ppc, user, calls, history>>

\* The range loop ends when the channel is closed and drained.
ManageLoopEnd ==
  /\ mpc = "loop" /\ lq[Manager] = <<>> /\ lclosed[Manager]
  /\ mpc' = "close"
  /\ UNCHANGED <<connVars, recvVars, sendQ, startVars, lisVars, reader, writer,
                 ppc, user, calls, history>>

\* close(c.started); the deferred ml.Stop sets a flag nobody reads again.
ManageClose ==
  /\ mpc = "close"
  /\ startedClosed' = TRUE
  /\ mpc' = "done"
  /\ UNCHANGED <<connVars, recvVars, sendQ, started, modelYear, settings,
                 lisVars, reader, writer, ppc, user, calls, history>>

Manage == \/ ManageAdd \/ ManageReceive \/ ManagePing \/ ManageRespond
          \/ ManageSignal \/ ManageLoopEnd \/ ManageClose

-----------------------------------------------------------------------------
(* pinger().  A tick within 500 ms of the last Read, and a tick that finds *)
(* Send full, do nothing that is visible here: the non-blocking select.    *)

PingerPing ==
  /\ ppc = "run" /\ ~closed
  /\ Enqueue(Ping)
  /\ UNCHANGED <<connVars, recvVars, startVars, lisVars, reader, writer, mpc,
                 ppc, user, calls, history>>

\* Mutation: the ping is sent with a blocking send.
PingerExitAfterSend ==
  /\ ppc = "run" /\ closed /\ Len(sendQ) < SendCap
  /\ ppc' = "done"
  /\ UNCHANGED <<connVars, recvVars, sendQ, startVars, lisVars, reader, writer,
                 mpc, user, calls, history>>

PingerExit ==
  /\ ppc = "run" /\ closed
  /\ ppc' = "done"
  /\ UNCHANGED <<connVars, recvVars, sendQ, startVars, lisVars, reader, writer,
                 mpc, user, calls, history>>

Pinger == PingerPing \/ PingerExit

-----------------------------------------------------------------------------
(* The user: Connect and Start, then the loop of handlePhev.               *)

\* Connect: Dial fails.
DialFail ==
  /\ upc = "new"
  /\ upc' = "out"
  /\ UNCHANGED <<connVars, recvVars, sendQ, startVars, lisVars, reader, writer,
                 mpc, ppc, ures, calls, history>>

\* Connect: Dial returns a socket and closed is reset ...
Dial ==
  /\ upc = "new"
  /\ closed' = FALSE
  /\ upc' = "assign"
  /\ UNCHANGED <<conn, recvVars, sendQ, startVars, lisVars, reader, writer,
                 mpc, ppc, ures, calls, history>>

\* ... then c.conn is set and the four goroutines start.
Connect ==
  /\ upc = "assign"
  /\ conn' = "open"
  /\ rpc' = "read" /\ wpc' = "take" /\ mpc' = "add" /\ ppc' = "run"
  /\ upc' = "start"
  /\ UNCHANGED <<closed, recvVars, sendQ, startVars, lisVars, rmsg, wmsg, ures,
                 calls, history>>

\* Start receives a token: the handshake is done.
StartOk ==
  /\ upc = "start" /\ started > 0
  /\ started' = started - 1
  /\ upc' = "loop" /\ ures' = "ok"
  /\ UNCHANGED <<connVars, recvVars, sendQ, startedClosed, modelYear, settings,
                 lisVars, reader, writer, mpc, ppc, calls, history>>

\* Start finds the channel closed and drained.
StartClosed ==
  /\ upc = "start" /\ started = 0 /\ startedClosed
  /\ upc' = "out" /\ ures' = "closed"
  /\ UNCHANGED <<connVars, recvVars, sendQ, startVars, lisVars, reader, writer,
                 mpc, ppc, calls, history>>

\* Start's 45 s pass.  handlePhev returns the error and does not call Close.
StartTimeout ==
  /\ upc = "start"
  /\ upc' = "out" /\ ures' = "timeout"
  /\ UNCHANGED <<connVars, recvVars, sendQ, startVars, lisVars, reader, writer,
                 mpc, ppc, calls, history>>

IsRequest(m) == m.type = "CmdInResp" /\ m.ack = "Request"

\* One frame from Recv: a register request will be acknowledged.
UserReceive ==
  /\ upc = "loop" /\ recvQ # <<>>
  /\ recvQ' = Tail(recvQ)
  /\ upc' = IF IsRequest(Head(recvQ)) THEN "ack" ELSE "loop"
  /\ UNCHANGED <<connVars, recvClosed, sendQ, startVars, lisVars, reader,
                 writer, mpc, ppc, ures, calls, history>>

\* Too many BadEncoding frames within 15 s (the count is abstracted): Close.
UserGiveUp ==
  /\ upc = "loop" /\ recvQ # <<>> /\ Head(recvQ).type = "CmdInBadEncoding"
  /\ recvQ' = Tail(recvQ)
  /\ Close
  /\ upc' = "out"
  /\ UNCHANGED <<recvClosed, sendQ, startVars, lisVars, reader, writer, mpc,
                 ppc, ures, calls, history>>

\* The acknowledgement is sent with a plain, blocking channel send.
UserAck ==
  /\ upc = "ack"
  /\ Enqueue(AckOut)
  /\ upc' = "loop"
  /\ UNCHANGED <<connVars, recvVars, startVars, lisVars, reader, writer, mpc,
                 ppc, ures, calls, history>>

\* Recv is closed and drained: handlePhev returns, Run will reconnect.
UserEnd ==
  /\ upc = "loop" /\ recvQ = <<>> /\ recvClosed
  /\ upc' = "out"
  /\ UNCHANGED <<connVars, recvVars, sendQ, startVars, lisVars, reader, writer,
                 mpc, ppc, ures, calls, history>>

UserStart == StartOk \/ StartClosed \/ StartTimeout
UserLoop  == UserReceive \/ UserGiveUp \/ UserEnd
User      == DialFail \/ Dial \/ Connect \/ UserStart \/ UserLoop \/ UserAck

\* The MQTT handler of phev/connection, on a goroutine of its own.
ExternalClose ==
  /\ Close
  /\ UNCHANGED <<recvVars, sendQ, startVars, lisVars, reader, writer, mpc, ppc,
                 user, calls, history>>

-----------------------------------------------------------------------------
(* SetRegister(register, value), called by goroutine s.                    *)

SetRegister(s, r) ==
  /\ cpc[s] = "idle"
  /\ AddListener(s)
  /\ cpc' = [cpc EXCEPT ![s] = "send"]
  /\ creg' = [creg EXCEPT ![s] = r]
  /\ cres' = [cres EXCEPT ![s] = "none"]
  /\ acked' = [acked EXCEPT ![s] = FALSE]
  /\ UNCHANGED <<connVars, recvVars, sendQ, startVars, reader, writer, mpc,
                 ppc, user, answered>>

\* The request is queued outside the 10 s timer.
SetSend(s) ==
  /\ cpc[s] = "send"
  /\ Enqueue(SetOut)
  /\ cpc' = [cpc EXCEPT ![s] = "wait"]
  /\ UNCHANGED <<connVars, recvVars, startVars, lisVars, reader, writer, mpc,
                 ppc, user, creg, cres, history>>

\* The call returns; its deferred RemoveListener runs.
Return(s, res) ==
  /\ RemoveListener(s)
  /\ cpc' = [cpc EXCEPT ![s] = "idle"]
  /\ cres' = [cres EXCEPT ![s] = res]

\* Mutation: any acknowledgement will do.
AcksAny(m, r) == m.type = "CmdInResp" /\ m.ack = "Ack"

\* The reply that ends the wait.
Acks(m, r) == m.type = "CmdInResp" /\ m.ack = "Ack" /\ m.reg = r

SetAcked(s) ==
  /\ cpc[s] = "wait" /\ lq[s] # <<>> /\ Acks(Head(lq[s]), creg[s])
  /\ Return(s, "ok")
  /\ UNCHANGED <<connVars, recvVars, sendQ, startVars, reader, writer, mpc,
                 ppc, user, creg, history>>

\* A BadEncoding reply: send again, with a fresh timer.
SetRetry(s) ==
  /\ cpc[s] = "wait" /\ lq[s] # <<>> /\ Head(lq[s]).type = "CmdInBadEncoding"
  /\ lq' = [lq EXCEPT ![s] = Tail(@)]
  /\ cpc' = [cpc EXCEPT ![s] = "send"]
  /\ UNCHANGED <<connVars, recvVars, sendQ, startVars, listeners, lclosed,
                 reader, writer, mpc, ppc, user, creg, cres,
                 answered, acked>>

\* Any other frame is dropped and the wait goes on.
SetIgnore(s) ==
  /\ cpc[s] = "wait" /\ lq[s] # <<>>
  /\ ~Acks(Head(lq[s]), creg[s])
  /\ Head(lq[s]).type # "CmdInBadEncoding"
  /\ lq' = [lq EXCEPT ![s] = Tail(@)]
  /\ UNCHANGED <<connVars, recvVars, sendQ, startVars, listeners, lclosed,
                 reader, writer, mpc, ppc, user, calls, history>>

SetClosed(s) ==
  /\ cpc[s] = "wait" /\ lq[s] = <<>> /\ lclosed[s]
  /\ Return(s, "closed")
  /\ UNCHANGED <<connVars, recvVars, sendQ, startVars, reader, writer, mpc,
                 ppc, user, creg, history>>

\* Mutation: no timer, the closing of the channel is relied upon.
SetTimeoutNever(s) ==
  /\ cpc[s] = "wait" /\ lclosed[s]
  /\ Return(s, "timeout")
  /\ UNCHANGED <<connVars, recvVars, sendQ, startVars, reader, writer, mpc,
                 ppc, user, creg, history>>

SetTimeout(s) ==
  /\ cpc[s] = "wait"
  /\ Return(s, "timeout")
  /\ UNCHANGED <<connVars, recvVars, sendQ, startVars, reader, writer, mpc,
                 ppc, user, creg, history>>

SetWait(s) == SetAcked(s) \/ SetRetry(s) \/ SetIgnore(s) \/ SetClosed(s)
              \/ SetTimeout(s)

Call(s) == (\E r \in Registers : SetRegister(s, r)) \/ SetSend(s) \/ SetWait(s)

-----------------------------------------------------------------------------

Next == \/ Reader \/ Writer \/ Manage \/ Pinger \/ User \/ ExternalClose
        \/ \E s \in Callers : Call(s)

Spec == Init /\ [][Next]_vars

-----------------------------------------------------------------------------
(* Safety.                                                                 *)

\* A goroutine about to send on or to close a channel finds it open: a send
\* on a closed channel, or a second close, panics and takes the whole bridge
\* down.  Recv, started and the listener channels each have several parties.
NoClosedChannelPanic ==
  /\ rpc \in {"recv", "closeRecv"} => ~recvClosed
  /\ rpc \in {"deliver", "stop"} => \A l \in listeners : ~lclosed[l]
  /\ mpc \in {"signal", "close"} => ~startedClosed

\* Once Start has returned nil, the model year is known and the start response
\* is on its way: no acknowledgement of the user can overtake it on Send.
StartMeansHandshake ==
  ures = "ok" =>
    /\ modelYear # Unknown
    /\ answered \/ \E i \in DOMAIN sendQ : sendQ[i] = StartResp

\* When Start reports that the receiver closed, the connection is really gone:
\* the socket is closed and Recv is closed, so nothing is left to leak.
StartClosedMeansDead ==
  ures = "closed" => recvClosed /\ conn = "closed" /\ rpc \in {"stop", "done"}

\* SetRegister returns nil only if the car acknowledged that very register
\* after this call began to listen: a leftover of an earlier call, or the
\* acknowledgement of another register, never counts.
OkMeansAcked == \A s \in Callers : cres[s] = "ok" => acked[s]

\* A SetRegister call fails with "listener channel closed" only after the
\* connection is down and its Recv channel is closed.
CallClosedMeansDead ==
  \A s \in Callers : cres[s] = "closed" => recvClosed /\ conn = "closed"

-----------------------------------------------------------------------------
(* The inductive strengthening of the safety properties.                   *)

\* How far the connection has come, told by the reader: what is closed, and by
\* whom.  Only the reader's last step closes listener channels, so whoever saw
\* one closed knows that the whole cleanup has been done.
LifeInv ==
  /\ upc \in {"new", "assign"} => rpc = "off" /\ mpc = "off" /\ ures = "none"
  /\ rpc # "off" => conn # "none"
  /\ rpc \in {"closeRecv", "stop", "done"} => conn = "closed"
  /\ recvClosed <=> rpc \in {"stop", "done"}
  /\ \A l \in Owners : lclosed[l] => rpc = "done"
  /\ mpc \in {"close", "done"} => rpc = "done"
  /\ startedClosed => mpc = "done"
  /\ ures = "closed" => rpc = "done"
  /\ \A s \in Callers : cres[s] = "closed" => rpc = "done"

\* A start response is queued, or has left.
Responded == answered \/ \E i \in DOMAIN sendQ : sendQ[i] = StartResp

\* How far the handshake has come: the manager signals a start only after it
\* has noted the model year and queued the response.
HandshakeInv ==
  /\ mpc = "respond" => modelYear # Unknown
  /\ (mpc = "signal" \/ started > 0 \/ ures = "ok")
       => modelYear # Unknown /\ Responded

\* An ack of its register that waits in a call's channel came while it listened.
AckInv ==
  \A s \in Callers :
    /\ \A i \in DOMAIN lq[s] : Acks(lq[s][i], creg[s]) => acked[s]
    /\ cres[s] = "ok" => acked[s]

\* What the abstract specification sees of a Client: the frame in the reader's
\* hand is one of the car's, the result of Start goes with how far the user has
\* come, and a caller listens exactly while its call is on.
ServeInv ==
  /\ rpc \in {"deliver", "recv"} => rmsg \in CarMsgs
  /\ rpc = "off" => mpc = "off" /\ upc \in {"new", "assign", "out"}
  /\ upc = "start" => ures = "none"
  /\ upc \in {"loop", "ack"} => ures = "ok"
  /\ \A s \in Callers : s \in listeners <=> cpc[s] # "idle"

ClientInv == TypeOK /\ LifeInv /\ HandshakeInv /\ AckInv /\ ServeInv

(***************************************************************************)
(* Fairness.  The Go scheduler runs every goroutine that can run, so each  *)
(* has weak fairness; a Read ends by its 30 s deadline at the latest.      *)
(* Goroutines that wait to send on a channel are queued first come first   *)
(* served, so one is not passed over for ever while the writer drains it:  *)
(* strong fairness for the senders on Send and on started.  Nothing is     *)
(* assumed of a Dial, of the start of a call, or of Close.                 *)
(***************************************************************************)
Fairness ==
  /\ WF_vars(Reader) /\ WF_vars(Writer) /\ WF_vars(PingerExit)
  /\ WF_vars(Manage) /\ SF_vars(ManagePing) /\ SF_vars(ManageRespond)
  /\ WF_vars(Connect) /\ WF_vars(UserStart) /\ WF_vars(UserLoop)
  /\ SF_vars(UserAck)
  /\ \A s \in Callers : WF_vars(SetWait(s)) /\ SF_vars(SetSend(s))

FairSpec == Spec /\ Fairness

\* The user can take no more frames from Recv: handlePhev has returned, or it
\* is blocked on Send with nobody left to drain it.
UserGone == upc = "out"
UserStuck == upc = "ack" /\ wpc = "done" /\ Len(sendQ) = SendCap

\* When the socket is closed, by whomever, the reader winds the session up:
\* Recv and every listener channel get closed.  The exceptions are a user that
\* has left, and a user blocked on Send behind a writer that has ended.
SessionEnds == conn = "closed" ~> (rpc = "done" \/ UserGone \/ UserStuck)

\* The pinger ends once the socket is closed, even if Send stays full because
\* the writer has ended (pinger() never blocks on Send).
PingerEnds == conn = "closed" ~> ppc = "done"

-----------------------------------------------------------------------------
(* The promise: Client implements Connection.  The frame in the reader's   *)
(* hand that the listeners have been offered already counts as arrived.    *)

Phase == IF rpc = "off" THEN "new" ELSE IF recvClosed THEN "down" ELSE "up"
Inbox == IF rpc = "recv" THEN Append(recvQ, rmsg) ELSE recvQ
CallOf(s) == [busy |-> cpc[s] # "idle", reg |-> creg[s], acked |-> acked[s],
              result |-> cres[s]]

Conn == INSTANCE Connection WITH
  Frames <- CarMsgs,
  Room   <- RecvCap + 1,
  phase  <- Phase,
  inbox  <- Inbox,
  year   <- modelYear,
  start  <- ures,
  calls  <- [s \in Callers |-> CallOf(s)]

\* The goroutines and channels of a Client keep what Connection promises: the
\* user reads every frame of the car once and in order, whatever the listeners
\* lose, Recv is closed once and for good, and the results of Start and of
\* SetRegister say what they mean.
ConnectionSpec == Conn!Spec
=============================================================================
