------------------------------ MODULE Commands ------------------------------
(***************************************************************************)
(* The commands of the command line that use a Client: "client register",  *)
(* "client unregister" (cmd/register.go), "client set" (cmd/set.go) and    *)
(* "client watch" (cmd/watch.go).  The Client is that of module Client;    *)
(* its user, and its one caller of SetRegister, is the command.            *)
(*                                                                         *)
(* register and unregister read Recv on a goroutine of their own, which    *)
(* hands the VIN to the main goroutine over an unbuffered channel.  set    *)
(* does not read Recv at all.  Sleeping is no step of its own; a timer may *)
(* fire at any time.  The process ends with its main goroutine, and a      *)
(* panic ends it: then nothing moves any more.                             *)
(***************************************************************************)
EXTENDS Client

CONSTANTS
  Main,           \* the main goroutine
  VINRegister,    \* 0x15
  RegisterRegs,   \* 0x10 to register, 0x15 to unregister
  MaxFrames,      \* bound on the frames that the car sends
  Settable        \* what set can be told to set: sequences of registers

ASSUME CommandAssumption ==
  /\ Main \in Callers
  /\ RegisterRegs \cup {VINRegister} \subseteq Registers
  /\ Settable \subseteq Seq(Registers) /\ MaxFrames \in Nat

\* unregister is register with the other register.
Programs == {"register", "set", "watch"}

VARIABLES
  prog,  \* the command
  todo,  \* registers still to be set
  main,  \* main goroutine, once Start has returned
  gpc,   \* the goroutine that reads Recv for register and unregister
  exit,  \* how the process ended
  frames \* frames the car has sent

cmd   == <<prog, todo, main, gpc, exit>>
cvars == <<vars, cmd, frames>>

\* Everything of the Client that only its own goroutines touch.
inner == <<recvClosed, started, startedClosed, modelYear, settings, reader,
           writer, mpc, ppc, answered>>

ToDo(p) ==
  CASE p = "register" -> {<<r>> : r \in RegisterRegs}
    [] p = "set"      -> Settable
    [] p = "watch"    -> {<<>>}

CommandInit ==
  /\ Init /\ creg = [s \in Callers |-> VINRegister]
  /\ prog \in Programs /\ todo \in ToDo(prog)
  /\ main = "start" /\ gpc = "off" /\ exit = "none"
  /\ frames = 0

-----------------------------------------------------------------------------
(* Connect and Start; an error of either is a panic.                       *)

Exit(how) == upc' = "out" /\ exit' = how

\* What follows Start: register starts its goroutine, set has slept.
Begin == /\ gpc' = IF prog = "register" THEN "read" ELSE "off"
         /\ main' = IF prog = "set" THEN "set" ELSE "wait"

Starting ==
  \/ (Dial \/ Connect) /\ UNCHANGED cmd
  \/ (DialFail \/ StartClosed \/ StartTimeout)
       /\ exit' = "panic" /\ UNCHANGED <<prog, todo, main, gpc>>
  \/ StartOk /\ Begin /\ UNCHANGED <<prog, todo, exit>>

-----------------------------------------------------------------------------
(* The goroutine of register and unregister.                               *)

\* A frame from Recv: a VIN is handed over before it is acknowledged.
GoReceive ==
  /\ gpc = "read" /\ recvQ # <<>>
  /\ recvQ' = Tail(recvQ)
  /\ LET m == Head(recvQ) IN
       gpc' = IF ~IsRequest(m) THEN "read"
              ELSE IF m.reg = VINRegister THEN "vin" ELSE "ack"
  /\ UNCHANGED <<inner, connVars, sendQ, lisVars, user, calls, acked, prog,
                 todo, main, exit>>

\* vinCh <- reg.VIN, unbuffered: main must be receiving.
HandVIN ==
  /\ gpc = "vin" /\ main = "wait"
  /\ gpc' = "ack" /\ main' = "set"
  /\ UNCHANGED <<vars, prog, todo, exit>>

GoAck ==
  /\ gpc = "ack"
  /\ Enqueue(AckOut)
  /\ gpc' = "read"
  /\ UNCHANGED <<inner, connVars, recvQ, lisVars, user, calls, acked, prog,
                 todo, main, exit>>

\* Recv is closed: close(vinCh), and the goroutine ends.
GoEnd ==
  /\ gpc = "read" /\ recvQ = <<>> /\ recvClosed
  /\ gpc' = "done"
  /\ UNCHANGED <<vars, prog, todo, main, exit>>

\* main finds vinCh closed, and returns.
VINClosed ==
  /\ prog = "register" /\ main = "wait" /\ gpc = "done"
  /\ Exit("closed")
  /\ UNCHANGED <<inner, connVars, recvQ, sendQ, lisVars, ures, calls, acked,
                 prog, todo, main, gpc>>

\* 30 s without a VIN.
VINTimeout ==
  /\ prog = "register" /\ main = "wait"
  /\ Close /\ Exit("timeout")
  /\ UNCHANGED <<inner, recvQ, sendQ, lisVars, ures, calls, acked, prog, todo,
                 main, gpc>>

Go == GoReceive \/ GoEnd
VIN == HandVIN \/ VINClosed \/ VINTimeout

-----------------------------------------------------------------------------
(* Setting registers: register, unregister and set.                        *)

\* set has set them all.
SetDone ==
  /\ prog = "set" /\ main = "set" /\ todo = <<>>
  /\ Exit("ok")
  /\ UNCHANGED <<inner, connVars, recvQ, sendQ, lisVars, ures, calls, acked,
                 prog, todo, main, gpc>>

SetNext ==
  /\ main = "set" /\ todo # <<>>
  /\ SetRegister(Main, Head(todo))
  /\ main' = "call"
  /\ UNCHANGED <<prog, todo, gpc, exit>>

\* The steps of SetRegister.
InCall == (SetSend(Main) \/ SetWait(Main)) /\ UNCHANGED cmd

Returned(res) == main = "call" /\ cpc[Main] = "idle" /\ cres[Main] = res

\* Mutation: set goes on to the next register whatever SetRegister returned.
SetReturnsAny ==
  /\ prog = "set" /\ main = "call" /\ cpc[Main] = "idle"
  /\ todo' = Tail(todo) /\ main' = "set"
  /\ UNCHANGED <<vars, prog, gpc, exit>>

\* SetRegister has returned nil to set.
SetReturns ==
  /\ prog = "set" /\ Returned("ok")
  /\ todo' = Tail(todo) /\ main' = "set"
  /\ UNCHANGED <<vars, prog, gpc, exit>>

\* SetRegister has returned nil to register: Close, and sleep for a second.
RegisterReturns ==
  /\ prog = "register" /\ Returned("ok")
  /\ Close
  /\ todo' = Tail(todo) /\ main' = "sleep"
  /\ UNCHANGED <<inner, recvQ, sendQ, lisVars, user, calls, acked, prog, gpc,
                 exit>>

RegisterDone ==
  /\ main = "sleep"
  /\ Exit("ok")
  /\ UNCHANGED <<inner, connVars, recvQ, sendQ, lisVars, ures, calls, acked,
                 prog, todo, main, gpc>>

\* SetRegister has failed: register returns, set panics.
CallFails ==
  /\ \E res \in {"closed", "timeout"} : Returned(res)
  /\ Exit(IF prog = "set" THEN "panic" ELSE "failed")
  /\ UNCHANGED <<inner, connVars, recvQ, sendQ, lisVars, ures, calls, acked,
                 prog, todo, main, gpc>>

Setting == \/ SetDone \/ SetNext \/ SetReturns \/ RegisterReturns
           \/ RegisterDone \/ CallFails

-----------------------------------------------------------------------------
(* watch: every CmdInResp is acknowledged, also one that is an ack itself. *)

WatchReceive ==
  /\ prog = "watch" /\ main = "wait" /\ recvQ # <<>>
  /\ recvQ' = Tail(recvQ)
  /\ main' = IF Head(recvQ).type = "CmdInResp" THEN "ack" ELSE "wait"
  /\ UNCHANGED <<inner, connVars, sendQ, lisVars, user, calls, acked, prog,
                 todo, gpc, exit>>

WatchAck ==
  /\ main = "ack"
  /\ Enqueue(AckOut)
  /\ main' = "wait"
  /\ UNCHANGED <<inner, connVars, recvQ, lisVars, user, calls, acked, prog,
                 todo, gpc, exit>>

WatchEnd ==
  /\ prog = "watch" /\ main = "wait" /\ recvQ = <<>> /\ recvClosed
  /\ Exit("closed")
  /\ UNCHANGED <<inner, connVars, recvQ, sendQ, lisVars, ures, calls, acked,
                 prog, todo, main, gpc>>

\* With --wait: the time is over.
WatchTimeout ==
  /\ prog = "watch" /\ main = "wait"
  /\ Close /\ Exit("ok")
  /\ UNCHANGED <<inner, recvQ, sendQ, lisVars, ures, calls, acked, prog, todo,
                 main, gpc>>

Watch == WatchReceive \/ WatchEnd

-----------------------------------------------------------------------------
Running == exit = "none" /\ UNCHANGED frames
Quiet   == Running /\ UNCHANGED cmd

Frame == /\ exit = "none" /\ ReaderRead /\ UNCHANGED cmd
         /\ frames < MaxFrames /\ frames' = frames + 1
Read  == \/ Frame
         \/ (ReaderDeliver \/ ReaderRecv \/ ReaderError \/ ReaderCloseRecv \/ ReaderStop) /\ Quiet

Command == \/ Starting \/ Go \/ GoAck \/ VIN \/ Setting \/ InCall
           \/ Watch \/ WatchAck \/ WatchTimeout

CommandNext == \/ Read
               \/ (Writer \/ Manage \/ Pinger) /\ Quiet
               \/ Command /\ Running

CommandSpec == CommandInit /\ [][CommandNext]_cvars

-----------------------------------------------------------------------------
(* Every goroutine goes on when it can; those that wait to send on Send    *)
(* are served in turn (module Client).  A timer that is armed fires at     *)
(* last, except that of watch, which need not be set.                      *)

CommandFairness ==
  /\ WF_cvars(Read) /\ WF_cvars(Writer /\ Quiet) /\ WF_cvars(Manage /\ Quiet)
  /\ SF_cvars(ManagePing /\ Quiet) /\ SF_cvars(ManageRespond /\ Quiet)
  /\ WF_cvars(upc # "new" /\ Starting /\ Running)
  /\ WF_cvars((Go \/ VIN) /\ Running) /\ SF_cvars(GoAck /\ Running)
  /\ WF_cvars((Setting \/ (SetWait(Main) /\ UNCHANGED cmd)) /\ Running)
  /\ SF_cvars(SetSend(Main) /\ Quiet)
  /\ WF_cvars(Watch /\ Running) /\ SF_cvars(WatchAck /\ Running)

FairCommandSpec == CommandSpec /\ CommandFairness

-----------------------------------------------------------------------------
(* Properties.                                                             *)

\* The state of the commands, and of their Client, is of its type.
CommandTypeOK ==
  /\ TypeOK
  /\ prog \in Programs /\ todo \in Seq(Registers)
  /\ main \in {"start", "wait", "ack", "set", "call", "sleep"}
  /\ gpc \in {"off", "read", "vin", "ack", "done"}
  /\ exit \in {"none", "ok", "closed", "timeout", "failed", "panic"}
  /\ frames \in 0..MaxFrames

\* A command that reports success has had the car's ack for its (last)
\* register since it asked, and has nothing left to set.
SuccessMeansSet ==
  exit = "ok" /\ prog # "watch" =>
    todo = <<>> /\ (cres[Main] = "none" \/ acked[Main])

\* How far the command has come: main sets registers only from inside a call, and
\* goes on only with a nil from it.
ProgressInv ==
  /\ upc \in {"new", "assign", "start"} => main = "start"
  /\ main = "start" => cres[Main] = "none"
  /\ gpc # "off" => prog = "register"
  /\ main = "call" => todo # <<>>
  /\ main # "call" => cpc[Main] = "idle"
  /\ main = "sleep" => prog = "register" /\ todo = <<>> /\ cres[Main] = "ok"
  /\ prog = "register" /\ main # "sleep" => Len(todo) = 1
  /\ prog = "set" /\ main = "set" => cres[Main] \in {"none", "ok"}

CommandInv == CommandTypeOK /\ AckInv /\ ProgressInv /\ SuccessMeansSet

\* The main goroutine waits for ever to send on a full Send that nobody drains.
SendStuck ==
  /\ wpc = "done" /\ Len(sendQ) = SendCap
  /\ main = "ack" \/ cpc[Main] = "send"

\* A command does not outlive its connection: once the socket is closed the
\* process ends, whatever the car has sent before and wherever its goroutines
\* stand, also if one of them is blocked for good on vinCh or on Recv.  Only a
\* full Send can hold it.
CommandExits == conn = "closed" ~> (exit # "none" \/ SendStuck)
=============================================================================
