----------------------------- MODULE Connection -----------------------------
(***************************************************************************)
(* What a Client of client/client.go promises to the code that uses it,    *)
(* without its goroutines and channels: Connect opens a connection, Start  *)
(* reports how the handshake ended, Recv is the stream of the car's frames *)
(* without loss, in their order, until it is closed for good, and every    *)
(* SetRegister call ends with an outcome that says something.  Module      *)
(* Client implements this specification.                                   *)
(***************************************************************************)
EXTENDS Naturals, Sequences

CONSTANTS
  Callers,    \* goroutines that may call SetRegister
  Registers,  \* register numbers
  Years,      \* model years
  Unknown,    \* no model year yet
  Frames,     \* frames the car sends
  Room,       \* how many frames wait for the user at most
  Acks(_, _)  \* whether a frame acknowledges a register

VARIABLES
  phase,   \* "new", then "up", then "down" when Recv is closed
  inbox,   \* frames that have come and were not read from Recv
  year,    \* the model year
  start,   \* what Start returned
  calls    \* of every caller: whether a call is on, its register, whether an
           \* ack of it has come since it began, the outcome of the last one

vars == <<phase, inbox, year, start, calls>>

Init ==
  /\ phase = "new" /\ inbox = <<>> /\ year = Unknown /\ start = "none"
  /\ calls \in [Callers -> [busy : {FALSE}, reg : Registers,
                            acked : {FALSE}, result : {"none"}]]

Open ==
  /\ phase = "new" /\ phase' = "up"
  /\ UNCHANGED <<inbox, year, start, calls>>

\* Recv is closed; what waits in it can still be read.
Shut ==
  /\ phase = "up" /\ phase' = "down"
  /\ UNCHANGED <<inbox, year, start, calls>>

\* What a caller makes of it: an ack is an ack while the call is on.
Heard(s, m) ==
  IF calls[s].busy /\ Acks(m, calls[s].reg) THEN [calls[s] EXCEPT !.acked = TRUE]
                                            ELSE calls[s]

\* A frame of the car comes: it will be read, and the calls that are on see it.
Arrive(m) ==
  /\ phase = "up" /\ Len(inbox) < Room
  /\ inbox' = Append(inbox, m)
  /\ calls' = [s \in Callers |-> Heard(s, m)]
  /\ UNCHANGED <<phase, year, start>>

\* The user reads a frame, once Start has succeeded.
Take ==
  /\ start = "ok" /\ inbox # <<>>
  /\ inbox' = Tail(inbox)
  /\ UNCHANGED <<phase, year, start, calls>>

Learn(y) ==
  /\ phase # "new" /\ year' = y
  /\ UNCHANGED <<phase, inbox, start, calls>>

\* Start returns: nil only with a model year, "receiver closed" only when the
\* connection is down.
Start(res) ==
  /\ phase # "new" /\ start = "none"
  /\ res = "ok" => year # Unknown
  /\ res = "closed" => phase = "down"
  /\ start' = res
  /\ UNCHANGED <<phase, inbox, year, calls>>

\* SetRegister begins ...
Begin(s, r) ==
  /\ ~calls[s].busy
  /\ calls' = [calls EXCEPT ![s] = [busy |-> TRUE, reg |-> r, acked |-> FALSE,
                                    result |-> "none"]]
  /\ UNCHANGED <<phase, inbox, year, start>>

\* ... and returns: nil only after an ack of its register, "listener channel
\* closed" only when the connection is down.
Finish(s, res) ==
  /\ calls[s].busy
  /\ res = "ok" => calls[s].acked
  /\ res = "closed" => phase = "down"
  /\ calls' = [calls EXCEPT ![s].busy = FALSE, ![s].result = res]
  /\ UNCHANGED <<phase, inbox, year, start>>

Results == {"ok", "closed", "timeout"}

Next ==
  \/ Open \/ Shut \/ Take
  \/ \E m \in Frames : Arrive(m)
  \/ \E y \in Years : Learn(y)
  \/ \E res \in Results : Start(res)
  \/ \E s \in Callers :
       \/ \E r \in Registers : Begin(s, r)
       \/ \E res \in Results : Finish(s, res)

Spec == Init /\ [][Next]_vars
=============================================================================
