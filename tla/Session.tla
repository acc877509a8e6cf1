------------------------------- MODULE Session -------------------------------
(***************************************************************************)
(* A client connected to the emulated car: the queues and goroutines of    *)
(* client/client.go and handlePhev on one side, of the emulator package on *)
(* the other, over a TCP connection that neither breaks nor loses.         *)
(*                                                                         *)
(* The car answers pings, proposes a key after the tenth, and once the     *)
(* client has answered that, sends its registers and settings one by one,  *)
(* the next one for each acknowledgement.  Every channel is bounded: a     *)
(* send on a channel blocks, except to a listener, which loses what it has *)
(* no room for.                                                            *)
(*                                                                         *)
(* Of a frame only its part in this exchange is kept.  A register of the   *)
(* initial sequence is "dump", one sent for another reason "update"; "set" *)
(* stands for a SetRegister request, "setTime" for one of register 0x05.   *)
(* The 45 s of Start are left out: the question is whether a start comes.  *)
(***************************************************************************)
EXTENDS Naturals, Sequences, Counting

CONSTANTS
  RecvCap,       \* capacity of the client's Recv: 5
  SendCap,       \* capacity of Send, on both sides: 5
  ListenerCap,   \* capacity of a listener channel: 5
  PipeCap,       \* frames that TCP buffers in one direction
  PingsToStart,  \* pings before the car proposes a key: 10
  Registers,     \* number of registers in the sequence: 37
  Settings,      \* number of settings that follow: 21
  MaxInputs      \* bound on SetRegister calls, of the client and of the car

ASSUME BoundAssumption ==
  /\ RecvCap \in Nat \ {0} /\ SendCap \in Nat \ {0}
  /\ ListenerCap \in Nat \ {0} /\ PipeCap \in Nat \ {0}
  /\ PingsToStart \in Nat \ {0} /\ Registers \in Nat \ {0}
  /\ Settings \in Nat /\ MaxInputs \in Nat

ToCar    == {"ping", "startResp", "ack", "set", "setTime"}
ToClient == {"pingResp", "startReq", "dump", "update", "setAck"}
None     == "none"
NoSender == Settings + 1

VARIABLES
  cSend,      \* client: c.Send
  cRecv,      \* client: c.Recv
  hand,       \* client reader: the frame it is about to put into Recv
  mq,         \* client manager: its listener channel
  mpc,        \* client manager: "loop", "respond" or "signal"
  started,    \* client: a token is in c.started
  user,       \* handlePhev: "start", "loop" or "ack"
  toCar,      \* TCP, client to car
  toClient,   \* TCP, car to client
  eq,         \* car: the listener channel of manage
  eout,       \* car: what the handler at work has still to send
  eSend,      \* car: s.Send
  pings,      \* car: pingCount
  key,        \* car: s.key.State
  next,       \* car: registers sent, s.registerIndex
  sender,     \* car: settings sent, or NoSender (s.settingsSender)
  inputs,     \* SetRegister calls so far
  extra,      \* history: registers sent apart from the sequence
  dropped     \* history: the car's manager missed a start response or an ack

client  == <<cSend, cRecv, hand, mq, mpc, started, user>>
pipes   == <<toCar, toClient>>
car     == <<eq, eout, eSend, pings, key, next, sender>>
history == <<extra, dropped>>
vars == <<client, pipes, car, inputs, history>>

TypeOK ==
  /\ cSend \in Seq(ToCar) /\ Len(cSend) <= SendCap
  /\ cRecv \in Seq(ToClient) /\ Len(cRecv) <= RecvCap
  /\ hand \in ToClient \cup {None}
  /\ mq \in Seq(ToClient) /\ Len(mq) <= ListenerCap
  /\ mpc \in {"loop", "respond", "signal"} /\ started \in BOOLEAN
  /\ user \in {"start", "loop", "ack"}
  /\ toCar \in Seq(ToCar) /\ Len(toCar) <= PipeCap
  /\ toClient \in Seq(ToClient) /\ Len(toClient) <= PipeCap
  /\ eq \in Seq(ToCar) /\ Len(eq) <= ListenerCap
  /\ eout \in Seq(ToClient) /\ eSend \in Seq(ToClient) /\ Len(eSend) <= SendCap
  /\ pings \in 0..(PingsToStart + 1)
  /\ key \in {"Empty", "Proposed", "Accepted"}
  /\ next \in 0..Registers /\ sender \in 0..NoSender
  /\ inputs \in 0..MaxInputs
  /\ extra \in Nat /\ dropped \in BOOLEAN

Init ==
  /\ cSend = <<>> /\ cRecv = <<>> /\ hand = None /\ mq = <<>>
  /\ mpc = "loop" /\ started = FALSE /\ user = "start"
  /\ toCar = <<>> /\ toClient = <<>>
  /\ eq = <<>> /\ eout = <<>> /\ eSend = <<>>
  /\ pings = 0 /\ key = "Empty" /\ next = 0 /\ sender = NoSender
  /\ inputs = 0 /\ extra = 0 /\ dropped = FALSE

-----------------------------------------------------------------------------
(* The client.                                                             *)

\* c.Send <- m.
ClientSend(m) == Len(cSend) < SendCap /\ cSend' = Append(cSend, m)

\* pinger: after 500 ms without a Read, if there is room.  Pings that are sent
\* after the car has counted enough are left out, to bound the model; those that
\* fill the queues by then are in it.
Ping ==
  /\ pings < PingsToStart
  /\ ClientSend("ping")
  /\ UNCHANGED <<cRecv, hand, mq, mpc, started, user, pipes, car, inputs, history>>

ClientWrite ==
  /\ cSend # <<>> /\ Len(toCar) < PipeCap
  /\ toCar' = Append(toCar, Head(cSend)) /\ cSend' = Tail(cSend)
  /\ UNCHANGED <<cRecv, hand, mq, mpc, started, user, toClient, car, inputs, history>>

\* reader: the manager's listener first; a full one loses the frame.
ClientRead ==
  /\ hand = None /\ toClient # <<>>
  /\ hand' = Head(toClient) /\ toClient' = Tail(toClient)
  /\ mq' = IF Len(mq) < ListenerCap THEN Append(mq, Head(toClient)) ELSE mq
  /\ UNCHANGED <<cSend, cRecv, mpc, started, user, toCar, car, inputs, history>>

\* Mutation: a full Recv loses the frame, as a listener does.
ClientRecvOrDrop ==
  /\ hand # None
  /\ cRecv' = IF Len(cRecv) < RecvCap THEN Append(cRecv, hand) ELSE cRecv
  /\ hand' = None
  /\ UNCHANGED <<cSend, mq, mpc, started, user, pipes, car, inputs, history>>

\* reader: c.Recv <- m.
ClientRecv ==
  /\ hand # None /\ Len(cRecv) < RecvCap
  /\ cRecv' = Append(cRecv, hand) /\ hand' = None
  /\ UNCHANGED <<cSend, mq, mpc, started, user, pipes, car, inputs, history>>

\* Mutation: the start is signalled before it is answered.
ManagerReceiveSignals ==
  /\ mpc = "loop" /\ mq # <<>>
  /\ mq' = Tail(mq)
  /\ mpc' = IF Head(mq) = "startReq" THEN "respond" ELSE "loop"
  /\ started' = (started \/ Head(mq) = "startReq")
  /\ UNCHANGED <<cSend, cRecv, hand, user, pipes, car, inputs, history>>

\* manage: only the start request matters here.
ManagerReceive ==
  /\ mpc = "loop" /\ mq # <<>>
  /\ mq' = Tail(mq)
  /\ mpc' = IF Head(mq) = "startReq" THEN "respond" ELSE "loop"
  /\ UNCHANGED <<cSend, cRecv, hand, started, user, pipes, car, inputs, history>>

ManagerRespond ==
  /\ mpc = "respond"
  /\ ClientSend("startResp")
  /\ mpc' = "signal"
  /\ UNCHANGED <<cRecv, hand, mq, started, user, pipes, car, inputs, history>>

\* The emulator proposes a key once, so there is room in started.
ManagerSignal ==
  /\ mpc = "signal"
  /\ started' = TRUE
  /\ mpc' = "loop"
  /\ UNCHANGED <<cSend, cRecv, hand, mq, user, pipes, car, inputs, history>>

\* Start returns: from now on Recv is read.
UserStart ==
  /\ user = "start" /\ started
  /\ started' = FALSE
  /\ user' = "loop"
  /\ UNCHANGED <<cSend, cRecv, hand, mq, mpc, pipes, car, inputs, history>>

\* Mutation: replies are acknowledged, too.
IsRequestOrAck(m) == m \in {"dump", "update", "setAck"}

\* A CmdInResp that is a request.
IsRequest(m) == m \in {"dump", "update"}

UserReceive ==
  /\ user = "loop" /\ cRecv # <<>>
  /\ cRecv' = Tail(cRecv)
  /\ user' = IF IsRequest(Head(cRecv)) THEN "ack" ELSE "loop"
  /\ UNCHANGED <<cSend, hand, mq, mpc, started, pipes, car, inputs, history>>

UserAck ==
  /\ user = "ack"
  /\ ClientSend("ack")
  /\ user' = "loop"
  /\ UNCHANGED <<cRecv, hand, mq, mpc, started, pipes, car, inputs, history>>

\* SetRegister, by anyone, at any time: its request.
SetRequest ==
  /\ inputs < MaxInputs
  /\ \E m \in {"set", "setTime"} : ClientSend(m)
  /\ inputs' = inputs + 1
  /\ UNCHANGED <<cRecv, hand, mq, mpc, started, user, pipes, car, history>>

Client == \/ Ping \/ ClientWrite \/ ClientRead \/ ClientRecv
          \/ ManagerReceive \/ ManagerRespond \/ ManagerSignal
          \/ UserStart \/ UserReceive \/ UserAck

-----------------------------------------------------------------------------
(* The car.                                                                *)

\* Mutation: a listener without a limit.
CarReadAll ==
  /\ toCar # <<>>
  /\ toCar' = Tail(toCar) /\ eq' = Append(eq, Head(toCar))
  /\ UNCHANGED <<client, toClient, eout, eSend, pings, key, next, sender, inputs, history>>

\* reader: never blocks, a full listener loses the frame.
CarRead ==
  /\ toCar # <<>>
  /\ toCar' = Tail(toCar)
  /\ LET m == Head(toCar) IN
       IF Len(eq) < ListenerCap
       THEN eq' = Append(eq, m) /\ UNCHANGED dropped
       ELSE dropped' = (dropped \/ m \in {"startResp", "ack"}) /\ UNCHANGED eq
  /\ UNCHANGED <<client, toClient, eout, eSend, pings, key, next, sender, inputs, extra>>

CarWrite ==
  /\ eSend # <<>> /\ Len(toClient) < PipeCap
  /\ toClient' = Append(toClient, Head(eSend)) /\ eSend' = Tail(eSend)
  /\ UNCHANGED <<client, toCar, eq, eout, pings, key, next, sender, inputs, history>>

\* s.Send <- m, for the handler at work.
CarSend ==
  /\ eout # <<>> /\ Len(eSend) < SendCap
  /\ eSend' = Append(eSend, Head(eout)) /\ eout' = Tail(eout)
  /\ UNCHANGED <<client, pipes, eq, pings, key, next, sender, inputs, history>>

\* sendNextRegister: the next register; after the last one, the settings; when
\* they are through, nothing.
SendNextRegister ==
  \/ /\ sender # NoSender
     /\ IF sender < Settings
        THEN eout' = <<"dump">> /\ sender' = sender + 1
        ELSE eout' = <<>> /\ sender' = NoSender
     /\ UNCHANGED next
  \/ /\ sender = NoSender /\ next < Registers
     /\ eout' = <<"dump">>
     /\ next' = next + 1
     /\ sender' = IF next + 1 = Registers THEN 0 ELSE NoSender
  \/ /\ sender = NoSender /\ next = Registers
     /\ eout' = <<>>
     /\ UNCHANGED <<next, sender>>

\* manage takes a message when it has sent all for the last one.
Taken(m) ==
  /\ eout = <<>> /\ eq # <<>> /\ Head(eq) = m
  /\ eq' = Tail(eq)

CarPing ==
  /\ Taken("ping")
  /\ pings' = IF pings <= PingsToStart THEN pings + 1 ELSE pings
  /\ IF key = "Empty" /\ pings + 1 = PingsToStart
     THEN eout' = <<"pingResp", "startReq">> /\ key' = "Proposed"
     ELSE eout' = <<"pingResp">> /\ UNCHANGED key
  /\ UNCHANGED <<client, pipes, eSend, next, sender, inputs, history>>

\* A start response of the client has its ack byte set: no new proposal.
CarStartResp ==
  /\ Taken("startResp")
  /\ IF key = "Proposed"
     THEN key' = "Accepted" /\ SendNextRegister
     ELSE eout' = <<>> /\ UNCHANGED <<key, next, sender>>
  /\ UNCHANGED <<client, pipes, eSend, pings, inputs, history>>

CarAck ==
  /\ Taken("ack")
  /\ SendNextRegister
  /\ UNCHANGED <<client, pipes, eSend, pings, key, inputs, history>>

\* handleSetRegister: for the time register, two updates follow the reply.
CarSet ==
  /\ \/ Taken("set") /\ eout' = <<"setAck">> /\ UNCHANGED extra
     \/ /\ Taken("setTime")
        /\ eout' = <<"setAck", "update", "update">>
        /\ extra' = extra + 2
  /\ UNCHANGED <<client, pipes, eSend, pings, key, next, sender, inputs, dropped>>

\* Car.SetRegister, on a goroutine of its own; it then waits for an ack or 10 s.
CarUpdate ==
  /\ inputs < MaxInputs
  /\ Len(eSend) < SendCap
  /\ eSend' = Append(eSend, "update")
  /\ inputs' = inputs + 1 /\ extra' = extra + 1
  /\ UNCHANGED <<client, pipes, eq, eout, pings, key, next, sender, dropped>>

Car == \/ CarRead \/ CarWrite \/ CarSend
       \/ CarPing \/ CarStartResp \/ CarAck \/ CarSet

-----------------------------------------------------------------------------

Next == Client \/ SetRequest \/ Car \/ CarUpdate

Spec == Init /\ [][Next]_vars

\* Every goroutine goes on when it can.  Senders that wait on the same channel
\* are served in turn.  Inputs from outside need not come.
Fairness ==
  /\ SF_vars(Ping) /\ WF_vars(ClientWrite) /\ WF_vars(ClientRead)
  /\ WF_vars(ClientRecv) /\ WF_vars(ManagerReceive) /\ SF_vars(ManagerRespond)
  /\ WF_vars(ManagerSignal) /\ WF_vars(UserStart) /\ WF_vars(UserReceive)
  /\ SF_vars(UserAck)
  /\ WF_vars(CarRead) /\ WF_vars(CarWrite) /\ SF_vars(CarSend)
  /\ WF_vars(CarPing) /\ WF_vars(CarStartResp) /\ WF_vars(CarAck) /\ WF_vars(CarSet)

FairSpec == Spec /\ Fairness

-----------------------------------------------------------------------------
(* Properties.                                                             *)

Updates == {"dump", "update"}

\* Registers on their way to the user, and acks on their way to the car.
Outstanding ==
  Count(eout, Updates) + Count(eSend, Updates) + Count(toClient, Updates)
    + (IF hand \in Updates THEN 1 ELSE 0) + Count(cRecv, Updates)
    + (IF user = "ack" THEN 1 ELSE 0)
    + Count(cSend, {"ack"}) + Count(toCar, {"ack"}) + Count(eq, {"ack"})

\* Stop and wait: the car has never more than one register of the sequence out,
\* plus one for each register it has sent apart from the sequence, over all the
\* queues of both sides.
FlowControl == Outstanding <= 1 + extra

Dumped == next > 0 \/ sender # NoSender

\* The sequence begins with the car's acceptance of the key and not before: no
\* ack of a register sent earlier can overtake the start response, unless the
\* car's listener lost that.
DumpNeedsKey == Dumped => key = "Accepted" \/ dropped

Complete == next = Registers /\ sender = NoSender

\* The sequence cannot stall: from the start until it is through, exactly one
\* register of it, or its ack, is in one of the nine places, besides those of the
\* registers sent apart from it; no queue of either side loses or doubles one,
\* however the handlers interleave, if the car's listener loses no ack.
NeverStalls == key = "Accepted" /\ ~dropped /\ ~Complete => Outstanding = 1 + extra

\* Once the user is in its loop, the sequence gets through all the bounded
\* channels to its end, if the car's listener loses no ack.
DumpCompletes == user # "start" ~> (Complete \/ dropped)

-----------------------------------------------------------------------------
(* The inductive invariants behind the safety properties.                  *)

\* The sequence's own register is out only once the key is accepted.
Allowance == extra + (IF key = "Accepted" THEN 1 ELSE 0)

\* Never more is out than that, and never less before the sequence is through.
FlowInv ==
  /\ Outstanding <= Allowance
  /\ ~dropped /\ ~Complete => Outstanding = Allowance
  /\ sender # NoSender => next = Registers

Has(q, m) == \E i \in DOMAIN q : q[i] = m

\* Every ack in the queue has a start response ahead of it.
Led(q) == \A i \in DOMAIN q :
            q[i] = "ack" => \E j \in DOMAIN q : j < i /\ q[j] = "startResp"

\* A start response is on its way to the car's manager.
Answered == Has(eq, "startResp") \/ Has(toCar, "startResp") \/ Has(cSend, "startResp")

\* Nobody has been asked to start.
Unasked ==
  /\ ~Has(eout, "startReq") /\ ~Has(eSend, "startReq") /\ ~Has(toClient, "startReq")
  /\ hand # "startReq" /\ ~Has(mq, "startReq") /\ mpc = "loop"
  /\ ~Answered

\* Until the car accepts the key, nothing of the sequence is sent; an ack is
\* behind the start response wherever it is; and the user is past Start only when
\* that response is on its way.
Early ==
  /\ ~Dumped
  /\ Led(eq)
  /\ Has(eq, "startResp") \/ Led(toCar)
  /\ Has(eq, "startResp") \/ Has(toCar, "startResp") \/ Led(cSend)
  /\ user # "start" \/ started \/ mpc = "signal" => Answered
  /\ key = "Empty" => Unasked

SessionInv == TypeOK /\ FlowInv /\ (key # "Accepted" /\ ~dropped => Early)

=============================================================================
