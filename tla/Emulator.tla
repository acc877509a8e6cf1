------------------------------ MODULE Emulator ------------------------------
(***************************************************************************)
(* The emulator with several clients, one after the other or at once:      *)
(* emulator/car.go, emulator/connection.go and the MQTT handler of         *)
(* cmd/emulator.go.                                                        *)
(*                                                                         *)
(* Begin accepts connections and never forgets one.  Each has a reader, a  *)
(* writer and a manager of its own, which end differently: writer and      *)
(* reader on an error of the socket, the manager never.  A register set    *)
(* over MQTT is sent by Car.SetRegister, which starts a goroutine per      *)
(* connection and waits for all.  The goroutines share the variable of the *)
(* loop that starts them (go.mod says go 1.16): each reads it where it     *)
(* adds its listener and again where it sends, while the loop goes on.     *)
(*                                                                         *)
(* Of the register sequence only its length is kept; handshake, pings and  *)
(* the manager are in Session.  No client of this repository sends a       *)
(* BadEncoding, and the retry at one is left out.  A listener that is      *)
(* removed from the wrong connection stays there and loses what it is      *)
(* offered; it is left out too.                                            *)
(***************************************************************************)
EXTENDS Naturals, Sequences, FiniteSets

CONSTANTS
  MaxConns,     \* bound on the connections
  Dump,         \* registers in the sequence of a connection
  SendCap,      \* capacity of a connection's Send
  ListenerCap,  \* capacity of a listener's channel
  MaxCalls      \* bound on the calls of Car.SetRegister

ASSUME EmulatorAssumption ==
  /\ MaxConns \in Nat \ {0} /\ SendCap \in Nat \ {0} /\ ListenerCap \in Nat \ {0}
  /\ {Dump, MaxCalls} \subseteq Nat

Conns == 1..MaxConns

VARIABLES
  accepted,  \* c.connections is 1..accepted
  net,       \* socket of each connection: "none", "open" or "closed"
  send,      \* its Send
  back,      \* the client's answer on its way back, <<>> for none
  rpc, wpc,  \* its reader and writer: "off", "run", "done"
  next,      \* registers of the sequence sent
  hpc,       \* the MQTT handler: "idle", or "loop" in SetRegister
  n,         \* connections that the loop ranges over
  cur,       \* its variable conn
  gpc,       \* goroutine i: "off", "listen", "aim", "put", "wait", "done"
  on,        \* the connection its listener is on, 0 for none
  to,        \* the connection it sends to
  lq,        \* its listener's channel
  gres,      \* what it returned: "none", "nil" or "error"
  res,       \* what the last call returned
  calls      \* calls so far

\* History variables, read by the properties only.
VARIABLES
  told,   \* the client of connection n got the register during this call
  heard   \* its ack was read during this call

conn    == <<accepted, net, send, back, rpc, wpc, next>>
handler == <<hpc, n, cur, res, calls>>
routine == <<gpc, on, to, lq, gres>>
history == <<told, heard>>
vars    == <<conn, handler, routine, history>>

\* Frames: "set" is the register of the call, "seq" one of the sequence; the
\* client answers with their acks.
Frames  == {"set", "seq"}
Answers == {"ackSet", "ackSeq"}

Init ==
  /\ accepted = 0
  /\ net = [c \in Conns |-> "none"]
  /\ send = [c \in Conns |-> <<>>] /\ back = send
  /\ rpc = [c \in Conns |-> "off"] /\ wpc = rpc
  /\ next = [c \in Conns |-> 0]
  /\ hpc = "idle" /\ n = 0 /\ cur = 0 /\ res = "none" /\ calls = 0
  /\ gpc = [i \in Conns |-> "off"] /\ lq = [i \in Conns |-> <<>>]
  /\ on = [i \in Conns |-> 0] /\ to = on /\ gres = [i \in Conns |-> "none"]
  /\ told = FALSE /\ heard = FALSE

-----------------------------------------------------------------------------
(* A connection.                                                           *)

\* Begin: Accept, NewConnection, Start.
Accept ==
  /\ accepted < MaxConns
  /\ LET c == accepted + 1
     IN  /\ accepted' = c
         /\ net' = [net EXCEPT ![c] = "open"]
         /\ rpc' = [rpc EXCEPT ![c] = "run"] /\ wpc' = [wpc EXCEPT ![c] = "run"]
  /\ UNCHANGED <<send, back, next, handler, routine, history>>

Room(c) == Len(send[c]) < SendCap

\* The writer takes a frame from Send and writes it; the client (external)
\* acknowledges it.
WriterWrite(c) ==
  /\ wpc[c] = "run" /\ net[c] = "open" /\ send[c] # <<>> /\ back[c] = <<>>
  /\ send' = [send EXCEPT ![c] = Tail(@)]
  /\ back' = [back EXCEPT ![c] = IF Head(send[c]) = "set" THEN <<"ackSet">>
                                                         ELSE <<"ackSeq">>]
  /\ told' = (told \/ (Head(send[c]) = "set" /\ c = n))
  /\ UNCHANGED <<accepted, net, rpc, wpc, next, handler, routine, heard>>

\* The client has gone: Write still succeeds or fails, and then ends the writer.
WriterLose(c) ==
  /\ wpc[c] = "run" /\ net[c] = "closed" /\ send[c] # <<>>
  /\ send' = [send EXCEPT ![c] = Tail(@)]
  /\ wpc' \in {wpc, [wpc EXCEPT ![c] = "done"]}
  /\ UNCHANGED <<accepted, net, back, rpc, next, handler, routine, history>>

\* A client that does not read: Write fails after 15 s.
WriterError(c) ==
  /\ wpc[c] = "run" /\ net[c] = "open" /\ send[c] # <<>> /\ back[c] # <<>>
  /\ send' = [send EXCEPT ![c] = Tail(@)]
  /\ wpc' = [wpc EXCEPT ![c] = "done"] /\ net' = [net EXCEPT ![c] = "closed"]
  /\ UNCHANGED <<accepted, back, rpc, next, handler, routine, history>>

\* Mutation: a full listener channel takes one more frame.
OfferUnbounded(q, m) == Append(q, m)

\* Listener.Send drops the frame when the channel is full.
Offer(q, m) == IF Len(q) < ListenerCap THEN Append(q, m) ELSE q

\* The reader hands a frame to all the listeners of its connection.
ReaderRead(c) ==
  /\ rpc[c] = "run" /\ net[c] = "open" /\ back[c] # <<>>
  /\ back' = [back EXCEPT ![c] = <<>>]
  /\ lq' = [i \in Conns |-> IF on[i] = c THEN Offer(lq[i], back[c][1]) ELSE lq[i]]
  /\ heard' = (heard \/ (back[c][1] = "ackSet" /\ c = n))
  /\ UNCHANGED <<accepted, net, send, rpc, wpc, next, handler, gpc, on,
                 to, gres, told>>

\* Read fails: the client has gone, or has been silent for 30 s.  The listeners
\* are not closed, and the connection stays in c.connections.
ReaderError(c) ==
  /\ rpc[c] = "run" /\ (net[c] = "closed" \/ back[c] = <<>>)
  /\ rpc' = [rpc EXCEPT ![c] = "done"] /\ net' = [net EXCEPT ![c] = "closed"]
  /\ UNCHANGED <<accepted, send, back, wpc, next, handler, routine, history>>

\* The manager sends the next register of the sequence; that it does so at an
\* acknowledgement is in Session.
ManageSend(c) ==
  /\ net[c] # "none" /\ next[c] < Dump /\ Room(c)
  /\ send' = [send EXCEPT ![c] = Append(@, "seq")]
  /\ next' = [next EXCEPT ![c] = @ + 1]
  /\ UNCHANGED <<accepted, net, back, rpc, wpc, handler, routine, history>>

-----------------------------------------------------------------------------
(* Car.SetRegister, called by the MQTT handler.                            *)

\* handleIncomingMqtt: one message at a time, whether or not there is a connection.
SetRegister ==
  /\ hpc = "idle" /\ calls < MaxCalls
  /\ hpc' = "loop" /\ n' = accepted /\ cur' = 0 /\ res' = "none" /\ calls' = calls + 1
  /\ told' = FALSE /\ heard' = FALSE
  /\ UNCHANGED <<conn, routine>>

\* Mutation: the connections are served one after the other.
SpawnSerial ==
  /\ hpc = "loop" /\ cur < n /\ (cur > 0 => gpc[cur] = "done")
  /\ cur' = cur + 1
  /\ gpc' = [gpc EXCEPT ![cur + 1] = "listen"]
  /\ UNCHANGED <<conn, hpc, n, res, calls, on, to, lq, gres, history>>

\* g.Go: the loop variable moves on, and one more goroutine starts.
Spawn ==
  /\ hpc = "loop" /\ cur < n
  /\ cur' = cur + 1
  /\ gpc' = [gpc EXCEPT ![cur + 1] = "listen"]
  /\ UNCHANGED <<conn, hpc, n, res, calls, on, to, lq, gres, history>>

\* g.Wait returns the first error; with no goroutine to wait for, nil at once.
Wait ==
  /\ hpc = "loop" /\ cur = n /\ \A i \in 1..n : gpc[i] = "done"
  /\ hpc' = "idle"
  /\ res' = IF \A i \in 1..n : gres[i] = "nil" THEN "nil" ELSE "error"
  /\ cur' = 0 /\ gpc' = [i \in Conns |-> "off"] /\ gres' = [i \in Conns |-> "none"]
  /\ UNCHANGED <<conn, n, calls, on, to, lq, history>>

\* conn.AddListener(), with conn as it is now.
Listen(i) ==
  /\ gpc[i] = "listen"
  /\ on' = [on EXCEPT ![i] = cur] /\ lq' = [lq EXCEPT ![i] = <<>>]
  /\ gpc' = [gpc EXCEPT ![i] = "aim"]
  /\ UNCHANGED <<conn, handler, to, gres, history>>

\* conn.Send <- ...: conn is read again, and the send may block.
Aim(i) ==
  /\ gpc[i] = "aim"
  /\ to' = [to EXCEPT ![i] = cur] /\ gpc' = [gpc EXCEPT ![i] = "put"]
  /\ UNCHANGED <<conn, handler, on, lq, gres, history>>

Put(i) ==
  /\ gpc[i] = "put" /\ Room(to[i])
  /\ send' = [send EXCEPT ![to[i]] = Append(@, "set")]
  /\ gpc' = [gpc EXCEPT ![i] = "wait"]
  /\ UNCHANGED <<accepted, net, back, rpc, wpc, next, handler, on, to,
                 lq, gres, history>>

Return(i, r) ==
  /\ gpc' = [gpc EXCEPT ![i] = "done"] /\ gres' = [gres EXCEPT ![i] = r]
  /\ on' = [on EXCEPT ![i] = 0] /\ to' = [to EXCEPT ![i] = 0]
  /\ lq' = [lq EXCEPT ![i] = <<>>]

\* Mutation: the ack of any register will do.
AckedAny(m) == m \in {"ackSet", "ackSeq"}

\* The ack it waits for.
Acked(m) == m = "ackSet"

Receive(i) ==
  /\ gpc[i] = "wait" /\ lq[i] # <<>>
  /\ \/ Acked(Head(lq[i])) /\ Return(i, "nil")
     \/ /\ ~Acked(Head(lq[i])) /\ lq' = [lq EXCEPT ![i] = Tail(@)]
        /\ UNCHANGED <<gpc, on, to, gres>>
  /\ UNCHANGED <<conn, handler, history>>

\* Mutation: no timer: the reader's end is to close the listener, which it does not.
TimeoutNever(i) ==
  /\ gpc[i] = "wait" /\ rpc[on[i]] = "off"
  /\ Return(i, "error")
  /\ UNCHANGED <<conn, handler, history>>

\* 10 s without the ack; the timer is looked at only while it waits for one.
Timeout(i) ==
  /\ gpc[i] = "wait"
  /\ Return(i, "error")
  /\ UNCHANGED <<conn, handler, history>>

Start(i)   == Listen(i) \/ Aim(i)
Await(i)   == Receive(i) \/ Timeout(i)
Writer(c)  == WriterWrite(c) \/ WriterLose(c) \/ WriterError(c)
Reader(c)  == ReaderRead(c) \/ ReaderError(c)

Next ==
  \/ Accept \/ SetRegister \/ Spawn \/ Wait
  \/ \E c \in Conns : Writer(c) \/ Reader(c) \/ ManageSend(c)
  \/ \E i \in Conns : Start(i) \/ Put(i) \/ Await(i)

Spec == Init /\ [][Next]_vars

\* Goroutines run, and those blocked on one Send are served in turn.  A client
\* reads and answers until its socket closes; nobody need connect or call.
Fairness ==
  /\ WF_vars(Spawn \/ Wait)
  /\ \A c \in Conns : /\ WF_vars(Writer(c)) /\ WF_vars(ReaderRead(c))
  /\ \A i \in Conns : WF_vars(Start(i)) /\ SF_vars(Put(i)) /\ WF_vars(Await(i))

FairSpec == Spec /\ Fairness

-----------------------------------------------------------------------------
ConnType ==
  /\ accepted \in 0..MaxConns
  /\ net \in [Conns -> {"none", "open", "closed"}]
  /\ send \in [Conns -> Seq(Frames)] /\ \A c \in Conns : Len(send[c]) <= SendCap
  /\ back \in [Conns -> Seq(Answers)] /\ \A c \in Conns : Len(back[c]) <= 1
  /\ {rpc, wpc} \subseteq [Conns -> {"off", "run", "done"}]
  /\ next \in [Conns -> 0..Dump]

CallType ==
  /\ hpc \in {"idle", "loop"} /\ res \in {"none", "nil", "error"}
  /\ n \in 0..accepted /\ cur \in 0..n /\ calls \in 0..MaxCalls
  /\ {told, heard} \subseteq BOOLEAN

RoutineType ==
  /\ gpc \in [Conns -> {"off", "listen", "aim", "put", "wait", "done"}]
  /\ {on, to} \subseteq [Conns -> 0..n]
  /\ lq \in [Conns -> Seq(Answers)] /\ \A i \in Conns : Len(lq[i]) <= ListenerCap
  /\ gres \in [Conns -> {"none", "nil", "error"}]

\* Every variable keeps its type, and no channel more than it can hold.
TypeOK == ConnType /\ CallType /\ RoutineType

\* When SetRegister returns nil, either the client of the newest connection has
\* acknowledged the register during the call, however the goroutines read the
\* variable of the loop, for it is the connection the loop ends with; or there was
\* no connection at all when the call began: then nil means nothing.
NilMeansAcked == hpc = "idle" /\ res = "nil" => heard \/ n = 0

\* The goroutines of a call: those that the loop has started, with a listener as
\* long as they are at work.
Listening == {"aim", "put", "wait"}

GoInv ==
  /\ hpc = "idle" => cur = 0
  /\ \A i \in Conns :
       /\ gpc[i] # "off" <=> i <= cur
       /\ gpc[i] # "done" => gres[i] = "none"
       /\ gpc[i] \in Listening => on[i] > 0
       /\ gpc[i] \notin Listening => on[i] = 0 /\ lq[i] = <<>>
       /\ gpc[i] \in {"put", "wait"} => to[i] > 0

\* The goroutine started last finds the variable of the loop at its last value:
\* it listens to the newest connection, and what it hears was heard there.
LastInv ==
  \A i \in Conns : i = n =>
    /\ gpc[i] \in Listening => on[i] = n
    /\ (\E k \in DOMAIN lq[i] : lq[i][k] = "ackSet") => heard
    /\ gres[i] = "nil" => heard

EmulatorInv == TypeOK /\ GoInv /\ LastInv /\ NilMeansAcked

\* Unless its connection ends, the client of the newest connection gets the
\* register of every call, even when the call has timed out before, and although
\* older connections are dead, still in the list, and a goroutine may be blocked
\* for good on the Send of one.  (told is of the latest call only: whether a call
\* is followed by another is the choice of whoever publishes, and in the
\* behaviours in which it is not, each call has to keep this promise.)
NewestIsTold ==
  \A k \in 1..MaxCalls :
    hpc = "loop" /\ calls = k /\ n > 0
      ~> told \/ (\E c \in Conns : c = n /\ net[c] = "closed") \/ calls > k

\* A goroutine blocked for good on a connection whose writer has ended.
Stuck(i) == gpc[i] = "put" /\ wpc[to[i]] = "done" /\ ~Room(to[i])

\* SetRegister returns, whatever becomes of the clients, unless the Send of a
\* dead connection is full.
SetRegisterEnds == hpc = "loop" ~> (hpc = "idle" \/ \E i \in Conns : Stuck(i))
=============================================================================
