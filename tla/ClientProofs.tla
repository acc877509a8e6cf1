---------------------------- MODULE ClientProofs ----------------------------
(***************************************************************************)
(* Theorems about Client, for every value of its constants, and about the  *)
(* commands of the command line that use a Client (module Commands, which  *)
(* extends Client).  Nothing that is assumed of the commands is used for   *)
(* the theorems about Client.                                              *)
(***************************************************************************)
EXTENDS Commands, TLAPS

-----------------------------------------------------------------------------
(* The channel operations.                                                 *)

\* Sending on a buffered channel keeps its element type and its capacity.
LEMMA AppendType ==
  ASSUME NEW S, NEW q \in Seq(S), NEW m \in S, NEW cap \in Nat, Len(q) < cap
  PROVE  Append(q, m) \in Seq(S) /\ Len(Append(q, m)) <= cap
OBVIOUS

\* Receiving from a nonempty one does, too.
LEMMA TailType ==
  ASSUME NEW S, NEW q \in Seq(S), NEW cap \in Nat, Len(q) <= cap, q # <<>>
  PROVE  Head(q) \in S /\ Tail(q) \in Seq(S) /\ Len(Tail(q)) <= cap
OBVIOUS

\* What a receive leaves: every frame moves up by one.
LEMMA TailFacts ==
  ASSUME NEW S, NEW q \in Seq(S), q # <<>>
  PROVE  /\ Len(q) \in Nat /\ DOMAIN q = 1..Len(q) /\ Head(q) = q[1]
         /\ DOMAIN Tail(q) = 1..(Len(q) - 1)
         /\ \A j \in 1..(Len(q) - 1) : Tail(q)[j] = q[j + 1]
<1>1. Len(q) \in Nat \ {0} /\ DOMAIN q = 1..Len(q) /\ Head(q) = q[1]
  OBVIOUS
<1>2. Len(Tail(q)) = Len(q) - 1 /\ Tail(q) \in Seq(S)
  OBVIOUS
<1>3. DOMAIN Tail(q) = 1..(Len(q) - 1)
  BY <1>1, <1>2
<1>4. \A j \in 1..(Len(q) - 1) : Tail(q)[j] = q[j + 1]
  BY <1>1
<1> QED BY <1>1, <1>3, <1>4

\* Offering a frame to every listener keeps the type of their channels.
LEMMA FanOutType ==
  ASSUME TypeOK, NEW m \in InMsgs, FanOut(m)
  PROVE  lq' \in [Owners -> Seq(InMsgs)] /\ \A l \in Owners : Len(lq'[l]) <= ListenerCap
<1>1. ASSUME NEW l \in Owners
      PROVE  Offer(l, m) \in Seq(InMsgs) /\ Len(Offer(l, m)) <= ListenerCap
  <2>1. lq[l] \in Seq(InMsgs) /\ Len(lq[l]) <= ListenerCap BY DEF TypeOK
  <2>2. ListenerCap \in Nat BY CapAssumption
  <2> QED BY <2>1, <2>2, AppendType, Z3 DEF Offer
<1> QED BY <1>1 DEF FanOut

\* A frame of the car stays what it is.
LEMMA CarMsgType == CarMsgs \subseteq InMsgs
BY NameAssumption

\* The initial state is of the right type.
LEMMA InitType == Init => TypeOK
<1> SUFFICES ASSUME Init PROVE TypeOK
  OBVIOUS
<1>1. \A S : <<>> \in Seq(S) /\ Len(<<>>) = 0
  OBVIOUS
<1>2. lq \in [Owners -> Seq(InMsgs)] /\ \A l \in Owners : Len(lq[l]) <= ListenerCap
  BY <1>1, CapAssumption DEF Init
<1>3. /\ recvQ \in Seq(InMsgs) /\ Len(recvQ) <= RecvCap
      /\ sendQ \in Seq(OutMsgs) /\ Len(sendQ) <= SendCap
  BY <1>1, CapAssumption DEF Init
<1>4. started \in 0..StartedCap
  BY CapAssumption DEF Init
<1> QED BY <1>2, <1>3, <1>4 DEF Init, TypeOK, NoIn, NoOut

\* Every step of the reader keeps the type invariant.
LEMMA ReaderType == TypeOK /\ Reader => TypeOK'
<1> SUFFICES ASSUME TypeOK, Reader PROVE TypeOK'
  OBVIOUS
<1> USE DEF connVars, recvVars, startVars, lisVars, reader, writer, user, calls, history
<1>1. CASE ReaderRead
  BY <1>1, CarMsgType DEF TypeOK, ReaderRead
<1>2. CASE ReaderDeliver
  <2>1. rmsg \in InMsgs BY <1>2 DEF TypeOK, ReaderDeliver
  <2>2. lq' \in [Owners -> Seq(InMsgs)] /\ \A l \in Owners : Len(lq'[l]) <= ListenerCap
    BY <1>2, <2>1, FanOutType DEF ReaderDeliver
  <2>3. acked' \in [Callers -> BOOLEAN]
    BY <1>2 DEF TypeOK, ReaderDeliver
  <2> QED BY <1>2, <2>1, <2>2, <2>3 DEF TypeOK, ReaderDeliver
<1>3. CASE ReaderRecv
  <2>1. rmsg \in InMsgs BY <1>3 DEF TypeOK, ReaderRecv
  <2>2. recvQ' \in Seq(InMsgs) /\ Len(recvQ') <= RecvCap
    BY <1>3, <2>1, CapAssumption, AppendType DEF TypeOK, ReaderRecv
  <2> QED BY <1>3, <2>2 DEF TypeOK, ReaderRecv
<1>4. CASE ReaderError
  BY <1>4 DEF TypeOK, ReaderError, Close
<1>5. CASE ReaderCloseRecv
  BY <1>5 DEF TypeOK, ReaderCloseRecv
<1>6. CASE ReaderStop
  <2>1. lclosed' \in [Owners -> BOOLEAN]
    BY <1>6 DEF TypeOK, ReaderStop, StopListeners
  <2> QED BY <1>6, <2>1 DEF TypeOK, ReaderStop
<1> QED BY <1>1, <1>2, <1>3, <1>4, <1>5, <1>6 DEF Reader

\* Every step of the writer keeps the type invariant.
LEMMA WriterType == TypeOK /\ Writer => TypeOK'
<1> SUFFICES ASSUME TypeOK, Writer PROVE TypeOK'
  OBVIOUS
<1> USE DEF connVars, recvVars, startVars, lisVars, reader, writer, user, calls, history
<1>1. CASE WriterTake
  <2>1. /\ Head(sendQ) \in OutMsgs
        /\ sendQ' \in Seq(OutMsgs) /\ Len(sendQ') <= SendCap
    BY <1>1, CapAssumption, TailType DEF TypeOK, WriterTake
  <2>2. answered' \in BOOLEAN
    BY <1>1 DEF TypeOK, WriterTake
  <2> QED BY <1>1, <2>1, <2>2 DEF TypeOK, WriterTake
<1>2. CASE WriterWrite
  BY <1>2 DEF TypeOK, WriterWrite
<1>3. CASE WriterError
  BY <1>3 DEF TypeOK, WriterError, Close
<1> QED BY <1>1, <1>2, <1>3 DEF Writer

\* Queueing a frame on Send keeps its type and capacity.
LEMMA EnqueueType ==
  ASSUME TypeOK, NEW m \in OutMsgs, Enqueue(m)
  PROVE  sendQ' \in Seq(OutMsgs) /\ Len(sendQ') <= SendCap
BY CapAssumption, AppendType DEF TypeOK, Enqueue

\* What the goroutines put on Send is a frame to the car.
LEMMA OutMsgsType ==
  /\ Ping \in OutMsgs /\ StartResp \in OutMsgs /\ AckOut \in OutMsgs
  /\ SetOut \in OutMsgs
BY DEF OutMsgs, Ping, StartResp, AckOut, SetOut

\* A listener that is added, or removed, leaves well-typed listener state.
LEMMA ListenerType ==
  ASSUME TypeOK, NEW l \in Owners, AddListener(l) \/ RemoveListener(l)
  PROVE  /\ listeners' \subseteq Owners
         /\ lq' \in [Owners -> Seq(InMsgs)]
         /\ \A k \in Owners : Len(lq'[k]) <= ListenerCap
         /\ lclosed' \in [Owners -> BOOLEAN]
<1>1. <<>> \in Seq(InMsgs) /\ Len(<<>>) <= ListenerCap
  BY CapAssumption
<1>2. /\ lq' = [lq EXCEPT ![l] = <<>>]
      /\ \E b \in BOOLEAN : lclosed' = [lclosed EXCEPT ![l] = b]
  BY DEF AddListener, RemoveListener
<1>3. lq' \in [Owners -> Seq(InMsgs)] /\ lclosed' \in [Owners -> BOOLEAN]
  BY <1>1, <1>2 DEF TypeOK
<1>4. \A k \in Owners : Len(lq'[k]) <= ListenerCap
  BY <1>1, <1>2 DEF TypeOK
<1>5. listeners' \subseteq Owners
  BY DEF TypeOK, AddListener, RemoveListener
<1> QED BY <1>3, <1>4, <1>5

\* An owner that takes a frame from its channel leaves it well-typed.
LEMMA ListenerTakeType ==
  ASSUME TypeOK, NEW l \in Owners, lq[l] # <<>>,
         lq' = [lq EXCEPT ![l] = Tail(@)]
  PROVE  /\ Head(lq[l]) \in InMsgs
         /\ lq' \in [Owners -> Seq(InMsgs)]
         /\ \A k \in Owners : Len(lq'[k]) <= ListenerCap
<1>1. lq[l] \in Seq(InMsgs) /\ Len(lq[l]) <= ListenerCap /\ ListenerCap \in Nat
  BY CapAssumption DEF TypeOK
<1>2. /\ Head(lq[l]) \in InMsgs /\ Tail(lq[l]) \in Seq(InMsgs)
      /\ Len(Tail(lq[l])) <= ListenerCap
  BY <1>1, TailType
<1> QED BY <1>2 DEF TypeOK

\* Every step of the manager keeps the type invariant.
LEMMA ManageType == TypeOK /\ Manage => TypeOK'
<1> SUFFICES ASSUME TypeOK, Manage PROVE TypeOK'
  OBVIOUS
<1> USE DEF connVars, recvVars, startVars, lisVars, reader, writer, user, calls, history
<1>0. Manager \in Owners
  BY DEF Owners
<1>1. CASE ManageAdd
  BY <1>0, <1>1, ListenerType DEF TypeOK, ManageAdd
<1>2. CASE ManageReceive
  <2>1. /\ Head(lq[Manager]) \in InMsgs
        /\ lq' \in [Owners -> Seq(InMsgs)]
        /\ \A k \in Owners : Len(lq'[k]) <= ListenerCap
    BY <1>0, <1>2, ListenerTakeType DEF ManageReceive
  <2>2. modelYear' \in Years \cup {Unknown}
    BY <1>2, <2>1 DEF TypeOK, ManageReceive, Handle, InMsgs, Responses,
       StartReqs, Signals
  <2>3. settings' \in BOOLEAN
    BY <1>2 DEF TypeOK, ManageReceive, Handle
  <2>4. mpc' \in {"loop", "ping", "respond"}
    BY <1>2 DEF ManageReceive, Handle
  <2> QED BY <1>2, <2>1, <2>2, <2>3, <2>4 DEF TypeOK, ManageReceive
<1>3. CASE ManagePing
  BY <1>3, EnqueueType, OutMsgsType DEF TypeOK, ManagePing
<1>4. CASE ManageRespond
  BY <1>4, EnqueueType, OutMsgsType DEF TypeOK, ManageRespond
<1>5. CASE ManageSignal
  BY <1>5, CapAssumption DEF TypeOK, ManageSignal
<1>6. CASE ManageLoopEnd
  BY <1>6 DEF TypeOK, ManageLoopEnd
<1>7. CASE ManageClose
  BY <1>7 DEF TypeOK, ManageClose
<1> QED BY <1>1, <1>2, <1>3, <1>4, <1>5, <1>6, <1>7 DEF Manage

\* Every step of the pinger keeps the type invariant.
LEMMA PingerType == TypeOK /\ Pinger => TypeOK'
<1> SUFFICES ASSUME TypeOK, Pinger PROVE TypeOK'
  OBVIOUS
<1> USE DEF connVars, recvVars, startVars, lisVars, reader, writer, user, calls, history
<1>1. CASE PingerPing
  BY <1>1, EnqueueType, OutMsgsType DEF TypeOK, PingerPing
<1>2. CASE PingerExit
  BY <1>2 DEF TypeOK, PingerExit
<1> QED BY <1>1, <1>2 DEF Pinger

\* Every step of the user keeps the type invariant.
LEMMA UserType == TypeOK /\ User => TypeOK'
<1> SUFFICES ASSUME TypeOK, User PROVE TypeOK'
  OBVIOUS
<1> USE DEF connVars, recvVars, startVars, lisVars, reader, writer, user, calls, history
<1>1. CASE DialFail
  BY <1>1 DEF TypeOK, DialFail
<1>2. CASE Dial
  <2>1. closed' \in BOOLEAN /\ upc' = "assign"
    BY <1>2 DEF Dial
  <2>2. UNCHANGED <<conn, recvVars, sendQ, startVars, lisVars, reader, writer,
                    mpc, ppc, ures, calls, history>>
    BY <1>2 DEF Dial
  <2> QED BY <2>1, <2>2 DEF TypeOK
<1>3. CASE Connect
  <2>1. /\ conn' = "open" /\ rpc' = "read" /\ wpc' = "take" /\ mpc' = "add"
        /\ ppc' = "run" /\ upc' = "start"
        /\ UNCHANGED <<closed, recvVars, sendQ, startVars, lisVars, rmsg, wmsg,
                       ures, calls, history>>
    BY <1>3 DEF Connect
  <2> QED BY <2>1 DEF TypeOK
<1>4. CASE UserStart
  <2>1. CASE StartOk
    <3>1. started' \in 0..StartedCap
      BY <2>1, CapAssumption DEF TypeOK, StartOk
    <3> QED BY <2>1, <3>1 DEF TypeOK, StartOk
  <2>2. CASE StartClosed
    BY <2>2 DEF TypeOK, StartClosed
  <2>3. CASE StartTimeout
    BY <2>3 DEF TypeOK, StartTimeout
  <2> QED BY <1>4, <2>1, <2>2, <2>3 DEF UserStart
<1>5. ASSUME recvQ # <<>>, recvQ' = Tail(recvQ)
      PROVE  recvQ' \in Seq(InMsgs) /\ Len(recvQ') <= RecvCap
  BY <1>5, CapAssumption, TailType DEF TypeOK
<1>6. CASE UserReceive
  BY <1>5, <1>6 DEF TypeOK, UserReceive
<1>7. CASE UserGiveUp
  BY <1>5, <1>7 DEF TypeOK, UserGiveUp, Close
<1>8. CASE UserAck
  BY <1>8, EnqueueType, OutMsgsType DEF TypeOK, UserAck
<1>9. CASE UserEnd
  BY <1>9 DEF TypeOK, UserEnd
<1> QED BY <1>1, <1>2, <1>3, <1>4, <1>6, <1>7, <1>8, <1>9 DEF User, UserLoop

\* Every step of a SetRegister call keeps the type invariant.
LEMMA CallType == ASSUME NEW s \in Callers PROVE TypeOK /\ Call(s) => TypeOK'
<1> SUFFICES ASSUME TypeOK, Call(s) PROVE TypeOK'
  OBVIOUS
<1> USE DEF connVars, recvVars, startVars, lisVars, reader, writer, user, calls, history
<1>0. s \in Owners
  BY DEF Owners
<1>1. CASE \E r \in Registers : SetRegister(s, r)
  <2>1. PICK r \in Registers : SetRegister(s, r)
    BY <1>1
  <2> QED BY <1>0, <2>1, ListenerType DEF TypeOK, SetRegister
<1>2. CASE SetSend(s)
  BY <1>2, EnqueueType, OutMsgsType DEF TypeOK, SetSend
<1>3. ASSUME NEW res \in {"ok", "closed", "timeout"}, Return(s, res),
             UNCHANGED <<connVars, recvVars, sendQ, startVars, reader, writer,
                         mpc, ppc, user, creg, history>>
      PROVE  TypeOK'
  BY <1>0, <1>3, ListenerType DEF TypeOK, Return
<1>4. CASE SetAcked(s) \/ SetClosed(s) \/ SetTimeout(s)
  BY <1>3, <1>4 DEF SetAcked, SetClosed, SetTimeout
<1>5. CASE SetRetry(s)
  <2>1. /\ lq' \in [Owners -> Seq(InMsgs)]
        /\ \A k \in Owners : Len(lq'[k]) <= ListenerCap
    BY <1>0, <1>5, ListenerTakeType DEF SetRetry
  <2> QED BY <1>5, <2>1 DEF TypeOK, SetRetry
<1>6. CASE SetIgnore(s)
  <2>1. /\ lq' \in [Owners -> Seq(InMsgs)]
        /\ \A k \in Owners : Len(lq'[k]) <= ListenerCap
    BY <1>0, <1>6, ListenerTakeType DEF SetIgnore
  <2> QED BY <1>6, <2>1 DEF TypeOK, SetIgnore
<1> QED BY <1>1, <1>2, <1>4, <1>5, <1>6 DEF Call, SetWait

\* A stuttering step changes nothing.
LEMMA StutterType == TypeOK /\ UNCHANGED vars => TypeOK'
BY DEF TypeOK, vars, connVars, recvVars, startVars, lisVars, reader, writer,
   user, calls, history

\* Every step keeps the type invariant.
LEMMA NextType == TypeOK /\ [Next]_vars => TypeOK'
<1>1. TypeOK /\ ExternalClose => TypeOK'
  BY DEF TypeOK, ExternalClose, Close, recvVars, startVars, lisVars, reader,
     writer, user, calls, history
<1> QED BY <1>1, ReaderType, WriterType, ManageType, PingerType, UserType,
        CallType, StutterType DEF Next

\* The state of a Client always has the type of the Go declarations: no channel
\* ever holds more than its capacity, every pending frame is a real one.
THEOREM TypeCorrect == Spec => []TypeOK
BY InitType, NextType, PTL DEF Spec

-----------------------------------------------------------------------------
(* The life of the connection.                                             *)

LEMMA InitLife == Init => LifeInv
BY DEF Init, LifeInv

\* The reader closes Recv, then the listener channels, and is done: the order
\* in which the others can notice.
LEMMA ReaderLife == TypeOK /\ LifeInv /\ Reader => LifeInv'
<1> SUFFICES ASSUME TypeOK, LifeInv, Reader PROVE LifeInv'
  OBVIOUS
<1> USE DEF LifeInv, recvVars, startVars, lisVars, user, calls
<1>1. CASE ReaderRead
  BY <1>1 DEF ReaderRead, connVars
<1>2. CASE ReaderDeliver
  BY <1>2 DEF ReaderDeliver, connVars
<1>3. CASE ReaderRecv
  BY <1>3 DEF ReaderRecv, connVars
<1>4. CASE ReaderError
  BY <1>4 DEF ReaderError, Close, TypeOK
<1>5. CASE ReaderCloseRecv
  BY <1>5 DEF ReaderCloseRecv, connVars
<1>6. CASE ReaderStop
  BY <1>6 DEF ReaderStop, StopListeners, connVars
<1> QED BY <1>1, <1>2, <1>3, <1>4, <1>5, <1>6 DEF Reader

\* The writer and the pinger close the socket at most.
LEMMA WriterPingerLife == TypeOK /\ LifeInv /\ (Writer \/ Pinger) => LifeInv'
<1> SUFFICES ASSUME TypeOK, LifeInv, Writer \/ Pinger PROVE LifeInv'
  OBVIOUS
<1> USE DEF LifeInv, recvVars, startVars, lisVars, reader, user, calls
<1>1. CASE WriterTake \/ WriterWrite
  BY <1>1 DEF WriterTake, WriterWrite, connVars
<1>2. CASE WriterError
  BY <1>2 DEF WriterError, Close, TypeOK
<1>3. CASE Pinger
  BY <1>3 DEF Pinger, PingerPing, PingerExit, connVars
<1> QED BY <1>1, <1>2, <1>3 DEF Writer

\* The manager leaves its loop only when it has seen its channel closed.
LEMMA ManageLife == TypeOK /\ LifeInv /\ Manage => LifeInv'
<1> SUFFICES ASSUME TypeOK, LifeInv, Manage PROVE LifeInv'
  OBVIOUS
<1> USE DEF LifeInv, connVars, recvVars, startVars, lisVars, reader, user, calls
<1>0. Manager \in Owners
  BY DEF Owners
<1>1. CASE ManageAdd
  <2>1. \A l \in Owners : lclosed'[l] => lclosed[l]
    BY <1>1 DEF ManageAdd, AddListener, TypeOK
  <2> QED BY <1>1, <2>1 DEF ManageAdd
<1>2. CASE ManageReceive
  <2>1. mpc' \in {"loop", "ping", "respond"}
    BY <1>2 DEF ManageReceive, Handle
  <2> QED BY <1>2, <2>1 DEF ManageReceive
<1>3. CASE ManagePing \/ ManageRespond \/ ManageSignal
  BY <1>3 DEF ManagePing, ManageRespond, ManageSignal
<1>4. CASE ManageLoopEnd
  BY <1>0, <1>4 DEF ManageLoopEnd
<1>5. CASE ManageClose
  BY <1>5 DEF ManageClose
<1> QED BY <1>1, <1>2, <1>3, <1>4, <1>5 DEF Manage

\* The user starts the goroutines once, and reports a closed started channel
\* only if the manager has closed it.
LEMMA UserLife == TypeOK /\ LifeInv /\ User => LifeInv'
<1> SUFFICES ASSUME TypeOK, LifeInv, User PROVE LifeInv'
  OBVIOUS
<1> USE DEF LifeInv, recvVars, startVars, lisVars, reader, calls
<1>1. CASE DialFail
  BY <1>1 DEF DialFail, connVars
<1>2. CASE Dial
  BY <1>2 DEF Dial
<1>3. CASE Connect
  BY <1>3 DEF Connect
<1>4. CASE StartOk
  BY <1>4 DEF StartOk, connVars
<1>5. CASE StartClosed
  BY <1>5 DEF StartClosed, connVars
<1>6. CASE StartTimeout
  BY <1>6 DEF StartTimeout, connVars
<1>7. CASE UserReceive
  BY <1>7 DEF UserReceive, connVars
<1>8. CASE UserGiveUp
  BY <1>8 DEF UserGiveUp, Close, TypeOK
<1>9. CASE UserAck \/ UserEnd
  BY <1>9 DEF UserAck, UserEnd, connVars
<1> QED BY <1>1, <1>2, <1>3, <1>4, <1>5, <1>6, <1>7, <1>8, <1>9
        DEF User, UserStart, UserLoop

\* A call reports a closed listener only if the reader has closed it.
LEMMA CallLife ==
  ASSUME NEW s \in Callers PROVE TypeOK /\ LifeInv /\ Call(s) => LifeInv'
<1> SUFFICES ASSUME TypeOK, LifeInv, Call(s) PROVE LifeInv'
  OBVIOUS
<1> USE DEF LifeInv, connVars, recvVars, startVars, lisVars, reader, user
<1>0. s \in Owners
  BY DEF Owners
<1>1. CASE \E r \in Registers : SetRegister(s, r)
  <2>1. PICK r \in Registers : SetRegister(s, r)
    BY <1>1
  <2>2. /\ \A l \in Owners : lclosed'[l] => lclosed[l]
        /\ \A c \in Callers : cres'[c] = "closed" => cres[c] = "closed"
    BY <2>1 DEF SetRegister, AddListener, TypeOK
  <2> QED BY <2>1, <2>2 DEF SetRegister
<1>2. ASSUME NEW res, Return(s, res), res = "closed" => lclosed[s]
      PROVE  /\ \A l \in Owners : lclosed'[l] => lclosed[l]
             /\ \A c \in Callers : cres'[c] = "closed" => rpc = "done"
  BY <1>0, <1>2 DEF Return, RemoveListener, TypeOK
<1>3. CASE SetAcked(s) \/ SetTimeout(s)
  BY <1>2, <1>3 DEF SetAcked, SetTimeout
<1>4. CASE SetClosed(s)
  BY <1>2, <1>4 DEF SetClosed
<1>5. CASE SetSend(s) \/ SetIgnore(s) \/ SetRetry(s)
  BY <1>5 DEF SetSend, SetIgnore, SetRetry, calls
<1> QED BY <1>1, <1>3, <1>4, <1>5 DEF Call, SetWait

LEMMA NextLife == TypeOK /\ LifeInv /\ [Next]_vars => LifeInv'
<1>1. TypeOK /\ LifeInv /\ ExternalClose => LifeInv'
  BY DEF TypeOK, LifeInv, ExternalClose, Close, recvVars, startVars, lisVars,
     reader, user, calls
<1>2. LifeInv /\ UNCHANGED vars => LifeInv'
  BY DEF LifeInv, vars, connVars, recvVars, startVars, lisVars, reader, user, calls
<1> QED BY <1>1, <1>2, ReaderLife, WriterPingerLife, ManageLife, UserLife,
        CallLife DEF Next

LEMMA LifeAlways == Spec => [](TypeOK /\ LifeInv)
<1>1. Init => TypeOK /\ LifeInv
  BY InitType, InitLife
<1>2. TypeOK /\ LifeInv /\ [Next]_vars => (TypeOK /\ LifeInv)'
  BY NextType, NextLife
<1> QED BY <1>1, <1>2, PTL DEF Spec

\* No goroutine of a Client ever sends on, or closes, a channel that another
\* has closed: none of these panics can happen.
THEOREM NoPanic == Spec => []NoClosedChannelPanic
<1>1. TypeOK /\ LifeInv => NoClosedChannelPanic
  BY DEF TypeOK, LifeInv, NoClosedChannelPanic
<1> QED BY <1>1, LifeAlways, PTL

\* "receiver closed before getting start request" is never a false alarm.
THEOREM StartError == Spec => []StartClosedMeansDead
<1>1. TypeOK /\ LifeInv => StartClosedMeansDead
  BY DEF TypeOK, LifeInv, StartClosedMeansDead
<1> QED BY <1>1, LifeAlways, PTL

\* "listener channel closed" is never a false alarm.
THEOREM CallError == Spec => []CallClosedMeansDead
<1>1. TypeOK /\ LifeInv => CallClosedMeansDead
  BY DEF TypeOK, LifeInv, CallClosedMeansDead
<1> QED BY <1>1, LifeAlways, PTL

-----------------------------------------------------------------------------
(* The handshake.                                                          *)

LEMMA InitHandshake == Init => HandshakeInv
BY CapAssumption DEF Init, HandshakeInv

\* A queued start response stays queued while frames join the queue ...
LEMMA EnqueueResponded ==
  ASSUME TypeOK, NEW m \in OutMsgs, Enqueue(m), UNCHANGED answered
  PROVE  (Responded => Responded') /\ (m = StartResp => Responded')
<1> DEFINE n == Len(sendQ)
<1>1. /\ sendQ \in Seq(OutMsgs) /\ n \in Nat /\ DOMAIN sendQ = 1..n
      /\ sendQ' = Append(sendQ, m)
  BY DEF TypeOK, Enqueue
<1>2. /\ DOMAIN sendQ' = 1..(n + 1) /\ sendQ'[n + 1] = m
      /\ \A i \in 1..n : sendQ'[i] = sendQ[i]
  BY <1>1
<1>3. n + 1 \in DOMAIN sendQ' /\ DOMAIN sendQ \subseteq DOMAIN sendQ'
  BY <1>1, <1>2
<1> QED BY <1>1, <1>2, <1>3 DEF Responded

\* ... and has left when the writer takes it.
LEMMA TakeResponded ==
  ASSUME TypeOK, WriterTake, Responded
  PROVE  Responded'
<1> DEFINE n == Len(sendQ)
<1>1. /\ sendQ \in Seq(OutMsgs) /\ n \in Nat /\ DOMAIN sendQ = 1..n
      /\ sendQ # <<>> /\ sendQ' = Tail(sendQ)
      /\ answered' = (answered \/ Head(sendQ) = StartResp)
  BY DEF TypeOK, WriterTake
<1>2. CASE answered
  BY <1>1, <1>2 DEF Responded
<1>3. ASSUME NEW i \in 1..n, sendQ[i] = StartResp
      PROVE  Responded'
  <2>1. CASE i = 1
    <3>1. Head(sendQ) = StartResp
      BY <1>1, <1>3, <2>1, TailFacts
    <3> QED BY <1>1, <3>1 DEF Responded
  <2>2. CASE i # 1
    <3>1. /\ DOMAIN sendQ' = 1..(n - 1)
          /\ \A j \in 1..(n - 1) : sendQ'[j] = sendQ[j + 1]
      BY <1>1, TailFacts
    <3>2. i - 1 \in 1..(n - 1) /\ (i - 1) + 1 = i
      BY <1>1, <1>3, <2>2
    <3>3. sendQ'[i - 1] = StartResp
      BY <1>3, <3>1, <3>2
    <3> QED BY <3>1, <3>2, <3>3 DEF Responded
  <2> QED BY <2>1, <2>2
<1> QED BY <1>1, <1>2, <1>3 DEF Responded

\* A step that leaves the handshake and Send alone keeps the invariant.
LEMMA OtherHandshake ==
  ASSUME HandshakeInv, UNCHANGED <<modelYear, started, sendQ, answered>>,
         mpc' \in {"respond", "signal"} => mpc' = mpc, ures' = "ok" => ures = "ok"
  PROVE  HandshakeInv'
BY DEF HandshakeInv, Responded

\* So does a step of another goroutine that queues a frame.
LEMMA EnqueueHandshake ==
  ASSUME TypeOK, HandshakeInv, NEW m \in OutMsgs, Enqueue(m),
         UNCHANGED <<modelYear, started, answered, ures>>,
         mpc' \in {"respond", "signal"} => mpc' = mpc
  PROVE  HandshakeInv'
BY EnqueueResponded DEF HandshakeInv

LEMMA ManageHandshake == TypeOK /\ HandshakeInv /\ Manage => HandshakeInv'
<1> SUFFICES ASSUME TypeOK, HandshakeInv, Manage PROVE HandshakeInv'
  OBVIOUS
<1> USE DEF startVars, user, history
<1>1. CASE ManageAdd \/ ManageLoopEnd \/ ManageClose
  BY <1>1, OtherHandshake DEF ManageAdd, ManageLoopEnd, ManageClose
<1>2. CASE ManageReceive
  <2>1. Head(lq[Manager]) \in InMsgs
    BY <1>2, ListenerTakeType DEF ManageReceive, Owners
  <2>2. CASE Head(lq[Manager]).type = "CmdInStartReq"
    <3>1. Head(lq[Manager]).year \in Years
      BY <2>1, <2>2 DEF InMsgs, Responses, StartReqs, Signals
    <3>2. mpc' = "respond" /\ modelYear' # Unknown
      BY <1>2, <2>2, <3>1, NameAssumption DEF ManageReceive, Handle
    <3> QED BY <1>2, <3>2 DEF ManageReceive, HandshakeInv, Responded
  <2>3. CASE Head(lq[Manager]).type # "CmdInStartReq"
    <3>1. modelYear' = modelYear /\ mpc' \in {"loop", "ping"}
      BY <1>2, <2>3 DEF ManageReceive, Handle
    <3> QED BY <1>2, <3>1, OtherHandshake DEF ManageReceive
  <2> QED BY <2>2, <2>3
<1>3. CASE ManagePing
  BY <1>3, EnqueueHandshake, OutMsgsType DEF ManagePing
<1>4. CASE ManageRespond
  <2>1. Responded' /\ modelYear' # Unknown
    BY <1>4, EnqueueResponded, OutMsgsType DEF ManageRespond, HandshakeInv
  <2> QED BY <2>1 DEF HandshakeInv
<1>5. CASE ManageSignal
  <2>1. modelYear # Unknown /\ Responded
    BY <1>5 DEF ManageSignal, HandshakeInv
  <2> QED BY <1>5, <2>1 DEF ManageSignal, HandshakeInv, Responded
<1> QED BY <1>1, <1>2, <1>3, <1>4, <1>5 DEF Manage

LEMMA UserHandshake == TypeOK /\ HandshakeInv /\ User => HandshakeInv'
<1> SUFFICES ASSUME TypeOK, HandshakeInv, User PROVE HandshakeInv'
  OBVIOUS
<1> USE DEF startVars, user, history
<1>1. CASE Connect
  BY <1>1, OtherHandshake DEF Connect
<1>2. CASE StartOk
  <2>1. modelYear # Unknown /\ Responded
    BY <1>2 DEF StartOk, HandshakeInv
  <2>2. UNCHANGED <<modelYear, sendQ, answered, mpc>>
    BY <1>2 DEF StartOk
  <2> QED BY <2>1, <2>2 DEF HandshakeInv, Responded
<1>3. CASE UserAck
  BY <1>3, EnqueueHandshake, OutMsgsType DEF UserAck
<1>4. CASE DialFail \/ Dial \/ StartClosed \/ StartTimeout \/ UserLoop
  BY <1>4, OtherHandshake DEF DialFail, Dial, StartClosed, StartTimeout,
     UserLoop, UserReceive, UserGiveUp, UserEnd
<1> QED BY <1>1, <1>2, <1>3, <1>4 DEF User, UserStart

LEMMA CallHandshake ==
  ASSUME NEW s \in Callers
  PROVE  TypeOK /\ HandshakeInv /\ Call(s) => HandshakeInv'
<1> SUFFICES ASSUME TypeOK, HandshakeInv, Call(s) PROVE HandshakeInv'
  OBVIOUS
<1> USE DEF startVars, user, history
<1>1. CASE SetSend(s)
  BY <1>1, EnqueueHandshake, OutMsgsType DEF SetSend
<1>2. CASE \E r \in Registers : SetRegister(s, r)
  BY <1>2, OtherHandshake DEF SetRegister
<1>3. CASE SetWait(s)
  BY <1>3, OtherHandshake DEF SetWait, SetAcked, SetRetry, SetIgnore, SetClosed,
     SetTimeout
<1> QED BY <1>1, <1>2, <1>3 DEF Call

LEMMA NextHandshake == TypeOK /\ HandshakeInv /\ [Next]_vars => HandshakeInv'
<1> SUFFICES ASSUME TypeOK, HandshakeInv, [Next]_vars PROVE HandshakeInv'
  OBVIOUS
<1> USE DEF startVars, user, history
<1>1. CASE Reader
  BY <1>1, OtherHandshake DEF Reader, ReaderRead, ReaderDeliver, ReaderRecv,
     ReaderError, ReaderCloseRecv, ReaderStop
<1>2. CASE WriterTake
  <2>1. UNCHANGED <<modelYear, started, mpc, ures>>
    BY <1>2 DEF WriterTake
  <2> QED BY <1>2, <2>1, TakeResponded DEF HandshakeInv
<1>3. CASE WriterWrite \/ WriterError \/ PingerExit \/ ExternalClose
  BY <1>3, OtherHandshake DEF WriterWrite, WriterError, PingerExit, ExternalClose
<1>4. CASE PingerPing
  BY <1>4, EnqueueHandshake, OutMsgsType DEF PingerPing
<1>5. CASE UNCHANGED vars
  BY <1>5, OtherHandshake DEF vars
<1> QED BY <1>1, <1>2, <1>3, <1>4, <1>5, ManageHandshake, UserHandshake,
        CallHandshake DEF Next, Writer, Pinger

\* Start returns nil only after the handshake: the model year is set and the
\* response is on Send ahead of everything the user will send.
THEOREM Handshake == Spec => []StartMeansHandshake
<1>1. Init => TypeOK /\ HandshakeInv
  BY InitType, InitHandshake
<1>2. TypeOK /\ HandshakeInv /\ [Next]_vars => (TypeOK /\ HandshakeInv)'
  BY NextType, NextHandshake
<1>3. HandshakeInv => StartMeansHandshake
  BY DEF HandshakeInv, StartMeansHandshake, Responded
<1> QED BY <1>1, <1>2, <1>3, PTL DEF Spec

-----------------------------------------------------------------------------
(* The result of SetRegister.                                              *)

LEMMA InitAck == Init => AckInv
BY DEF Init, AckInv, Owners

\* A step that leaves the calls and their channels alone keeps the invariant.
LEMMA OtherAck ==
  ASSUME AckInv, UNCHANGED <<creg, cres, acked>>,
         \A s \in Callers : lq'[s] = lq[s]
  PROVE  AckInv'
BY DEF AckInv

\* A delivered ack of a call's register is noted when it is put in its channel.
LEMMA DeliverAck == TypeOK /\ AckInv /\ ReaderDeliver => AckInv'
<1> SUFFICES ASSUME TypeOK, AckInv, ReaderDeliver, NEW s \in Callers
             PROVE  /\ \A i \in DOMAIN lq'[s] : Acks(lq'[s][i], creg'[s]) => acked'[s]
                    /\ cres'[s] = "ok" => acked'[s]
  BY DEF AckInv
<1>1. /\ creg' = creg /\ cres' = cres
      /\ acked'[s] = \/ acked[s]
                     \/ s \in listeners /\ Acks(rmsg, creg[s])
  BY DEF ReaderDeliver, calls, Acks
<1>2. rmsg \in InMsgs /\ lq[s] \in Seq(InMsgs) /\ lq'[s] = Offer(s, rmsg)
  BY DEF TypeOK, ReaderDeliver, FanOut, Owners
<1>3. ASSUME NEW i \in DOMAIN lq'[s], Acks(lq'[s][i], creg'[s])
      PROVE  acked'[s]
  <2>1. CASE lq'[s] = lq[s]
    BY <1>1, <1>3, <2>1 DEF AckInv
  <2>2. CASE s \in listeners /\ lq'[s] = Append(lq[s], rmsg)
    <3>1. /\ DOMAIN lq'[s] = 1..(Len(lq[s]) + 1) /\ DOMAIN lq[s] = 1..Len(lq[s])
          /\ Len(lq[s]) \in Nat
          /\ lq'[s][Len(lq[s]) + 1] = rmsg
          /\ \A j \in 1..Len(lq[s]) : lq'[s][j] = lq[s][j]
      BY <1>2, <2>2
    <3>2. CASE i = Len(lq[s]) + 1
      BY <1>1, <1>3, <2>2, <3>1, <3>2
    <3>3. CASE i # Len(lq[s]) + 1
      <4>1. i \in DOMAIN lq[s] /\ lq'[s][i] = lq[s][i]
        BY <3>1, <3>3
      <4> QED BY <1>1, <1>3, <4>1 DEF AckInv
    <3> QED BY <3>2, <3>3
  <2> QED BY <1>2, <2>1, <2>2 DEF Offer
<1> QED BY <1>1, <1>3 DEF AckInv

\* Taking a frame from a channel leaves frames that were there before.
LEMMA TakeAck ==
  ASSUME TypeOK, AckInv, NEW s \in Callers, lq[s] # <<>>,
         lq' = [lq EXCEPT ![s] = Tail(@)], UNCHANGED <<creg, cres, acked>>
  PROVE  AckInv'
<1>1. /\ s \in Owners /\ lq[s] \in Seq(InMsgs)
      /\ lq'[s] = Tail(lq[s]) /\ \A c \in Callers \ {s} : lq'[c] = lq[c]
  BY DEF TypeOK, Owners
<1>2. /\ Len(lq[s]) \in Nat
      /\ DOMAIN lq[s] = 1..Len(lq[s]) /\ DOMAIN lq'[s] = 1..(Len(lq[s]) - 1)
      /\ \A j \in 1..(Len(lq[s]) - 1) : lq'[s][j] = lq[s][j + 1]
  <2>1. PICK q \in Seq(InMsgs) : q = lq[s] /\ q # <<>>
    BY <1>1
  <2>2. /\ Len(q) \in Nat /\ DOMAIN q = 1..Len(q) /\ DOMAIN Tail(q) = 1..(Len(q) - 1)
        /\ \A j \in 1..(Len(q) - 1) : Tail(q)[j] = q[j + 1]
    BY <2>1, TailFacts
  <2> QED BY <1>1, <2>1, <2>2
<1>3. \A j \in DOMAIN lq'[s] : j + 1 \in DOMAIN lq[s] /\ lq'[s][j] = lq[s][j + 1]
  <2>1. \A n \in Nat : \A j \in 1..(n - 1) : j + 1 \in 1..n
    OBVIOUS
  <2> QED BY <1>2, <2>1
<1> QED BY <1>1, <1>3 DEF AckInv

LEMMA CallAck ==
  ASSUME NEW s \in Callers PROVE TypeOK /\ AckInv /\ Call(s) => AckInv'
<1> SUFFICES ASSUME TypeOK, AckInv, Call(s) PROVE AckInv'
  OBVIOUS
<1> USE DEF lisVars, calls, history
<1>0. s \in Owners /\ DOMAIN <<>> = {}
  BY DEF Owners
<1>1. CASE \E r \in Registers : SetRegister(s, r)
  <2>1. PICK r \in Registers : SetRegister(s, r)
    BY <1>1
  <2>2. /\ lq'[s] = <<>> /\ cres'[s] = "none"
        /\ \A c \in Callers \ {s} :
             /\ lq'[c] = lq[c] /\ cres'[c] = cres[c]
             /\ creg'[c] = creg[c] /\ acked'[c] = acked[c]
    BY <1>0, <2>1 DEF SetRegister, AddListener, TypeOK, Owners
  <2> QED BY <1>0, <2>2 DEF AckInv
<1>2. CASE SetSend(s)
  BY <1>2, OtherAck DEF SetSend
<1>3. ASSUME NEW res, Return(s, res), res = "ok" => acked[s],
             UNCHANGED <<creg, acked>>
      PROVE  AckInv'
  <2>1. /\ lq'[s] = <<>> /\ cres'[s] = res
        /\ \A c \in Callers \ {s} : lq'[c] = lq[c] /\ cres'[c] = cres[c]
    BY <1>0, <1>3 DEF Return, RemoveListener, TypeOK, Owners
  <2> QED BY <1>0, <1>3, <2>1 DEF AckInv
<1>4. CASE SetAcked(s)
  <2>1. lq[s] \in Seq(InMsgs) /\ lq[s] # <<>> /\ Acks(Head(lq[s]), creg[s])
    BY <1>0, <1>4 DEF TypeOK, SetAcked
  <2>2. 1 \in DOMAIN lq[s] /\ Head(lq[s]) = lq[s][1]
    BY <2>1
  <2>3. acked[s]
    BY <2>1, <2>2 DEF AckInv
  <2> QED BY <1>3, <1>4, <2>3 DEF SetAcked
<1>5. CASE SetClosed(s) \/ SetTimeout(s)
  BY <1>3, <1>5 DEF SetClosed, SetTimeout
<1>6. CASE SetRetry(s) \/ SetIgnore(s)
  BY <1>6, TakeAck DEF SetRetry, SetIgnore
<1> QED BY <1>1, <1>2, <1>4, <1>5, <1>6 DEF Call, SetWait

LEMMA NextAck == TypeOK /\ AckInv /\ [Next]_vars => AckInv'
<1> SUFFICES ASSUME TypeOK, AckInv, [Next]_vars PROVE AckInv'
  OBVIOUS
<1> USE DEF lisVars, calls, history
<1>1. CASE ReaderRead \/ ReaderRecv \/ ReaderError \/ ReaderCloseRecv \/ ReaderStop
  BY <1>1, OtherAck DEF ReaderRead, ReaderRecv, ReaderError, ReaderCloseRecv, ReaderStop
<1>2. CASE Writer \/ Pinger \/ ExternalClose
  BY <1>2, OtherAck DEF Writer, WriterTake, WriterWrite, WriterError, Pinger,
     PingerPing, PingerExit, ExternalClose
<1>3. CASE Manage
  <2>1. \A c \in Callers : c # Manager
    BY NameAssumption
  <2>2. \A c \in Callers : lq'[c] = lq[c]
    BY <1>3, <2>1 DEF Manage, ManageAdd, AddListener, ManageReceive, ManagePing,
       ManageRespond, ManageSignal, ManageLoopEnd, ManageClose, TypeOK, Owners
  <2>3. UNCHANGED <<creg, cres, acked>>
    BY <1>3 DEF Manage, ManageAdd, ManageReceive, ManagePing, ManageRespond,
       ManageSignal, ManageLoopEnd, ManageClose
  <2> QED BY <2>2, <2>3, OtherAck
<1>4. CASE User
  BY <1>4, OtherAck DEF User, DialFail, Dial, Connect, UserStart, StartOk,
     StartClosed, StartTimeout, UserLoop, UserReceive, UserGiveUp, UserEnd, UserAck
<1>5. CASE UNCHANGED vars
  BY <1>5, OtherAck DEF vars
<1> QED BY <1>1, <1>2, <1>3, <1>4, <1>5, DeliverAck, CallAck DEF Next, Reader

\* SetRegister never reports success on a frame that is not an acknowledgement
\* of its own register, delivered while the call was listening.
THEOREM AckSound == Spec => []OkMeansAcked
<1>1. Init => TypeOK /\ AckInv
  BY InitType, InitAck
<1>2. TypeOK /\ AckInv /\ [Next]_vars => (TypeOK /\ AckInv)'
  BY NextType, NextAck
<1>3. AckInv => OkMeansAcked
  BY DEF AckInv, OkMeansAcked
<1> QED BY <1>1, <1>2, <1>3, PTL DEF Spec

-----------------------------------------------------------------------------
(* What the abstract specification sees.                                   *)

LEMMA InitServe == Init => ServeInv
BY DEF Init, ServeInv

\* A step that leaves the reader, the user's progress and the calls alone.
LEMMA OtherServe ==
  ASSUME ServeInv, UNCHANGED <<rpc, rmsg, upc, ures, cpc>>,
         rpc = "off" => mpc' = mpc,
         \A s \in Callers : s \in listeners' <=> s \in listeners
  PROVE  ServeInv'
BY DEF ServeInv

\* The reader works on the car's frames, one after the other.
LEMMA ReaderServe == ServeInv /\ Reader => ServeInv'
<1> SUFFICES ASSUME ServeInv, Reader PROVE ServeInv'
  OBVIOUS
<1> USE DEF ServeInv, lisVars, user, calls
<1>1. CASE ReaderRead
  BY <1>1 DEF ReaderRead
<1>2. CASE ReaderDeliver \/ ReaderRecv
  BY <1>2 DEF ReaderDeliver, ReaderRecv
<1>3. CASE ReaderError \/ ReaderCloseRecv \/ ReaderStop
  BY <1>3 DEF ReaderError, ReaderCloseRecv, ReaderStop
<1> QED BY <1>1, <1>2, <1>3 DEF Reader

\* The manager runs only after Connect; its listener is not a caller's.
LEMMA ManageServe == LifeInv /\ ServeInv /\ Manage => ServeInv'
<1> SUFFICES ASSUME LifeInv, ServeInv, Manage PROVE ServeInv'
  OBVIOUS
<1>1. rpc # "off"
  BY DEF ServeInv, Manage, ManageAdd, ManageReceive, ManagePing, ManageRespond,
     ManageSignal, ManageLoopEnd, ManageClose
<1>2. UNCHANGED <<rpc, rmsg, upc, ures, cpc>>
  BY DEF Manage, ManageAdd, ManageReceive, ManagePing, ManageRespond,
     ManageSignal, ManageLoopEnd, ManageClose, reader, user, calls
<1>3. \A s \in Callers : s \in listeners' <=> s \in listeners
  BY NameAssumption DEF Manage, ManageAdd, AddListener, ManageReceive,
     ManagePing, ManageRespond, ManageSignal, ManageLoopEnd, ManageClose, lisVars
<1> QED BY <1>1, <1>2, <1>3, OtherServe

\* The user reads Recv only after Start has succeeded.
LEMMA UserServe == ServeInv /\ LifeInv /\ User => ServeInv'
<1> SUFFICES ASSUME ServeInv, LifeInv, User PROVE ServeInv'
  OBVIOUS
<1> USE DEF ServeInv, lisVars, reader, calls
<1>1. CASE DialFail \/ Dial
  BY <1>1 DEF DialFail, Dial
<1>2. CASE Connect
  BY <1>2 DEF Connect, LifeInv
<1>3. CASE UserStart
  BY <1>3 DEF UserStart, StartOk, StartClosed, StartTimeout
<1>4. CASE UserLoop
  BY <1>4 DEF UserLoop, UserReceive, UserGiveUp, UserEnd
<1>5. CASE UserAck
  BY <1>5 DEF UserAck
<1> QED BY <1>1, <1>2, <1>3, <1>4, <1>5 DEF User

\* A call adds its listener first and removes it last.
LEMMA CallServe ==
  ASSUME NEW s \in Callers PROVE TypeOK /\ ServeInv /\ Call(s) => ServeInv'
<1> SUFFICES ASSUME TypeOK, ServeInv, Call(s) PROVE ServeInv'
  OBVIOUS
<1> USE DEF lisVars, reader, user
<1>1. CASE \E r \in Registers : SetRegister(s, r)
  BY <1>1 DEF SetRegister, AddListener, ServeInv, TypeOK
<1>2. CASE SetSend(s) \/ SetRetry(s)
  BY <1>2 DEF SetSend, SetRetry, ServeInv, TypeOK
<1>3. CASE SetIgnore(s)
  BY <1>3, OtherServe DEF SetIgnore, calls
<1>4. CASE SetAcked(s) \/ SetClosed(s) \/ SetTimeout(s)
  BY <1>4 DEF SetAcked, SetClosed, SetTimeout, Return, RemoveListener, ServeInv,
     TypeOK
<1> QED BY <1>1, <1>2, <1>3, <1>4 DEF Call, SetWait

LEMMA NextServe == TypeOK /\ LifeInv /\ ServeInv /\ [Next]_vars => ServeInv'
<1> SUFFICES ASSUME TypeOK, LifeInv, ServeInv, [Next]_vars PROVE ServeInv'
  OBVIOUS
<1>1. CASE Writer \/ Pinger \/ ExternalClose
  BY <1>1, OtherServe DEF Writer, WriterTake, WriterWrite, WriterError, Pinger,
     PingerPing, PingerExit, ExternalClose, reader, user, calls, lisVars
<1>2. CASE UNCHANGED vars
  BY <1>2, OtherServe DEF vars, reader, user, calls, lisVars
<1> QED BY <1>1, <1>2, ReaderServe, ManageServe, UserServe, CallServe DEF Next

\* The inductive invariant, as a whole.
LEMMA InvAlways == Spec => []ClientInv
<1>1. Init => ClientInv
  BY InitType, InitLife, InitHandshake, InitAck, InitServe DEF ClientInv
<1>2. ClientInv /\ [Next]_vars => ClientInv'
  BY NextType, NextLife, NextHandshake, NextAck, NextServe DEF ClientInv
<1> QED BY <1>1, <1>2, PTL DEF Spec

-----------------------------------------------------------------------------
(* Client implements Connection, step by step.                             *)

LEMMA InitRefines == Init => Conn!Init
<1> SUFFICES ASSUME Init PROVE Conn!Init
  OBVIOUS
<1>1. \A s \in Callers : CallOf(s) \in [busy : {FALSE}, reg : Registers,
                                        acked : {FALSE}, result : {"none"}]
  BY DEF Init, CallOf
<1> QED BY <1>1 DEF Init, Conn!Init, Phase, Inbox

\* The listeners are told of a frame, and it counts as arrived.
LEMMA DeliverRefines ==
  TypeOK /\ LifeInv /\ ServeInv /\ ReaderDeliver => Conn!Arrive(rmsg)
<1> SUFFICES ASSUME TypeOK, LifeInv, ServeInv, ReaderDeliver
             PROVE  Conn!Arrive(rmsg)
  OBVIOUS
<1>1. Phase = "up" /\ Phase' = "up" /\ UNCHANGED <<modelYear, ures>>
  BY DEF Phase, LifeInv, ReaderDeliver, recvVars, startVars, user
<1>2. Len(Inbox) < RecvCap + 1 /\ Inbox' = Append(Inbox, rmsg)
  BY CapAssumption DEF Inbox, TypeOK, ReaderDeliver, recvVars
<1>3. ASSUME NEW s \in Callers
      PROVE  CallOf(s)' = IF CallOf(s).busy /\ Acks(rmsg, CallOf(s).reg)
                          THEN [CallOf(s) EXCEPT !.acked = TRUE] ELSE CallOf(s)
  <2>1. /\ CallOf(s).busy <=> cpc[s] # "idle"
        /\ CallOf(s).reg = creg[s]
    BY DEF CallOf
  <2>2. UNCHANGED <<cpc, creg, cres>> /\ acked[s] \in BOOLEAN
    BY DEF ReaderDeliver, calls, TypeOK
  <2>3. CASE cpc[s] # "idle" /\ Acks(rmsg, creg[s])
    <3>1. acked'[s] = TRUE
      BY <2>3 DEF ReaderDeliver, ServeInv, Acks
    <3> QED BY <2>1, <2>2, <2>3, <3>1 DEF CallOf
  <2>4. CASE ~(cpc[s] # "idle" /\ Acks(rmsg, creg[s]))
    <3>1. acked'[s] = acked[s]
      BY <2>2, <2>4 DEF ReaderDeliver, ServeInv, Acks
    <3> QED BY <2>1, <2>2, <2>4, <3>1 DEF CallOf
  <2> QED BY <2>3, <2>4
<1> QED BY <1>1, <1>2, <1>3 DEF Conn!Arrive, Conn!Heard

\* A step that touches neither Recv nor what the calls and Start report.
LEMMA StutterRefines ==
  ASSUME UNCHANGED <<Phase, Inbox, modelYear, ures, cpc, creg, cres, acked>>
  PROVE  UNCHANGED Conn!vars
<1>1. ASSUME NEW s \in Callers PROVE CallOf(s)' = CallOf(s)
  BY DEF CallOf
<1> QED BY <1>1 DEF Conn!vars

\* The calls are as they were.
LEMMA CallsSame ==
  ASSUME UNCHANGED <<cpc, creg, cres, acked>>
  PROVE  [s \in Callers |-> CallOf(s)]' = [s \in Callers |-> CallOf(s)]
BY StutterRefines DEF CallOf

\* The reader's steps: a frame arrives when it is offered to the listeners, and
\* putting it into Recv changes nothing any more.
LEMMA ReaderRefines ==
  TypeOK /\ LifeInv /\ ServeInv /\ Reader => [Conn!Next]_Conn!vars
<1> SUFFICES ASSUME TypeOK, LifeInv, ServeInv, Reader PROVE [Conn!Next]_Conn!vars
  OBVIOUS
<1> USE DEF recvVars, startVars, user, calls, history
<1>1. CASE ReaderRead
  BY <1>1, StutterRefines DEF ReaderRead, Phase, Inbox
<1>2. CASE ReaderDeliver
  <2>1. rmsg \in CarMsgs
    BY <1>2 DEF ReaderDeliver, ServeInv
  <2> QED BY <1>2, <2>1, DeliverRefines DEF Conn!Next
<1>3. CASE ReaderRecv
  BY <1>3, StutterRefines DEF ReaderRecv, Phase, Inbox
<1>4. CASE ReaderError
  BY <1>4, StutterRefines DEF ReaderError, Phase, Inbox
<1>5. CASE ReaderCloseRecv
  <2>1. Phase = "up" /\ Phase' = "down"
    BY <1>5 DEF ReaderCloseRecv, Phase, LifeInv
  <2>2. Inbox' = Inbox /\ UNCHANGED <<modelYear, ures>>
    BY <1>5 DEF ReaderCloseRecv, Inbox
  <2>3. [s \in Callers |-> CallOf(s)]' = [s \in Callers |-> CallOf(s)]
    BY <1>5, CallsSame DEF ReaderCloseRecv
  <2> QED BY <2>1, <2>2, <2>3 DEF Conn!Next, Conn!Shut
<1>6. CASE ReaderStop
  BY <1>6, StutterRefines DEF ReaderStop, Phase, Inbox, LifeInv
<1> QED BY <1>1, <1>2, <1>3, <1>4, <1>5, <1>6 DEF Reader

\* Of the manager, only the model year that it learns is seen.
LEMMA ManageRefines ==
  TypeOK /\ LifeInv /\ ServeInv /\ Manage => [Conn!Next]_Conn!vars
<1> SUFFICES ASSUME TypeOK, LifeInv, ServeInv, Manage PROVE [Conn!Next]_Conn!vars
  OBVIOUS
<1> USE DEF recvVars, startVars, user, calls, history, reader
<1>1. CASE ManageReceive
  <2>1. UNCHANGED <<Phase, Inbox, ures, cpc, creg, cres, acked>>
    BY <1>1 DEF ManageReceive, Phase, Inbox
  <2>2. CASE modelYear' = modelYear
    BY <2>1, <2>2, StutterRefines
  <2>3. CASE modelYear' # modelYear
    <3>1. Head(lq[Manager]) \in InMsgs
      BY <1>1, ListenerTakeType DEF ManageReceive, Owners
    <3>2. modelYear' \in Years
      BY <1>1, <2>3, <3>1 DEF ManageReceive, Handle, InMsgs, Responses,
         StartReqs, Signals
    <3>3. Phase # "new"
      BY <1>1 DEF ManageReceive, ServeInv, Phase
    <3>4. [s \in Callers |-> CallOf(s)]' = [s \in Callers |-> CallOf(s)]
      BY <2>1, CallsSame
    <3> QED BY <2>1, <3>2, <3>3, <3>4 DEF Conn!Next, Conn!Learn
  <2> QED BY <2>2, <2>3
<1>2. CASE ManageAdd \/ ManagePing \/ ManageRespond \/ ManageSignal
           \/ ManageLoopEnd \/ ManageClose
  BY <1>2, StutterRefines DEF ManageAdd, ManagePing, ManageRespond,
     ManageSignal, ManageLoopEnd, ManageClose, Phase, Inbox
<1> QED BY <1>1, <1>2 DEF Manage

\* The user's steps: Connect opens, Start reports, a receive takes a frame.
LEMMA UserRefines == ClientInv /\ User => [Conn!Next]_Conn!vars
<1> SUFFICES ASSUME ClientInv, User PROVE [Conn!Next]_Conn!vars
  OBVIOUS
<1> USE DEF ClientInv, recvVars, startVars, calls, history, reader
<1>1. CASE DialFail \/ Dial \/ UserEnd \/ UserAck
  BY <1>1, StutterRefines DEF DialFail, Dial, UserEnd, UserAck, Phase, Inbox
<1>2. CASE Connect
  <2>1. Phase = "new" /\ Phase' = "up" /\ Inbox' = Inbox
    BY <1>2 DEF Connect, Phase, Inbox, LifeInv
  <2>2. [s \in Callers |-> CallOf(s)]' = [s \in Callers |-> CallOf(s)]
    BY <1>2, CallsSame DEF Connect
  <2> QED BY <1>2, <2>1, <2>2 DEF Connect, Conn!Next, Conn!Open
<1>3. CASE UserStart
  <2>1. Phase # "new" /\ ures = "none" /\ UNCHANGED <<Phase, Inbox, modelYear>>
    BY <1>3 DEF UserStart, StartOk, StartClosed, StartTimeout, ServeInv, Phase,
       Inbox
  <2>2. ures' \in {"ok", "closed", "timeout"}
    BY <1>3 DEF UserStart, StartOk, StartClosed, StartTimeout
  <2>3. ures' = "ok" => modelYear # Unknown
    BY <1>3 DEF UserStart, StartOk, StartClosed, StartTimeout, HandshakeInv
  <2>4. ures' = "closed" => Phase = "down"
    BY <1>3 DEF UserStart, StartOk, StartClosed, StartTimeout, LifeInv, Phase
  <2>5. [s \in Callers |-> CallOf(s)]' = [s \in Callers |-> CallOf(s)]
    BY <1>3, CallsSame DEF UserStart, StartOk, StartClosed, StartTimeout
  <2>6. Conn!Start(ures')
    BY <2>1, <2>3, <2>4, <2>5 DEF Conn!Start
  <2> QED BY <2>2, <2>6 DEF Conn!Next, Conn!Results
<1>4. CASE UserReceive \/ UserGiveUp
  <2>1. ures = "ok" /\ UNCHANGED <<Phase, modelYear, ures>>
    BY <1>4 DEF UserReceive, UserGiveUp, ServeInv, Phase
  <2>2. Inbox # <<>> /\ Inbox' = Tail(Inbox)
    <3>1. /\ recvQ \in Seq(InMsgs) /\ recvQ # <<>> /\ recvQ' = Tail(recvQ)
          /\ UNCHANGED <<rpc, rmsg>>
      BY <1>4 DEF UserReceive, UserGiveUp, TypeOK
    <3>2. CASE rpc = "recv"
      <4>1. rmsg \in InMsgs
        BY <3>2 DEF TypeOK
      <4>2. /\ Append(recvQ, rmsg) # <<>>
            /\ Append(Tail(recvQ), rmsg) = Tail(Append(recvQ, rmsg))
        BY <3>1, <4>1
      <4> QED BY <3>1, <3>2, <4>2 DEF Inbox
    <3>3. CASE rpc # "recv"
      BY <3>1, <3>3 DEF Inbox
    <3> QED BY <3>2, <3>3
  <2>3. [s \in Callers |-> CallOf(s)]' = [s \in Callers |-> CallOf(s)]
    BY <1>4, CallsSame DEF UserReceive, UserGiveUp
  <2> QED BY <2>1, <2>2, <2>3 DEF Conn!Next, Conn!Take
<1> QED BY <1>1, <1>2, <1>3, <1>4 DEF User, UserLoop

\* What a step of caller s does to what is seen of the calls.
LEMMA CallsExcept ==
  ASSUME NEW s \in Callers, NEW c,
         \A t \in Callers : CallOf(t)' = IF t = s THEN c ELSE CallOf(t)
  PROVE  [t \in Callers |-> CallOf(t)]'
           = [[t \in Callers |-> CallOf(t)] EXCEPT ![s] = c]
OBVIOUS

\* A call's steps: it begins, and it returns what it may return.
LEMMA CallRefines ==
  ASSUME NEW s \in Callers
  PROVE  ClientInv /\ Call(s) => [Conn!Next]_Conn!vars
<1> SUFFICES ASSUME ClientInv, Call(s) PROVE [Conn!Next]_Conn!vars
  OBVIOUS
<1> USE DEF ClientInv, recvVars, startVars, history, reader, user
<1>0. UNCHANGED <<Phase, Inbox, modelYear, ures>>
  BY DEF Call, SetRegister, SetSend, SetWait, SetAcked, SetRetry, SetIgnore,
     SetClosed, SetTimeout, Phase, Inbox
<1>1. CASE \E r \in Registers : SetRegister(s, r)
  <2>1. PICK r \in Registers : SetRegister(s, r)
    BY <1>1
  <2>2. ~CallOf(s).busy
    BY <2>1 DEF SetRegister, CallOf
  <2>3. \A t \in Callers : CallOf(t)' =
          IF t = s THEN [busy |-> TRUE, reg |-> r, acked |-> FALSE, result |-> "none"]
                   ELSE CallOf(t)
    BY <2>1 DEF SetRegister, CallOf, TypeOK
  <2>4. Conn!Begin(s, r)
    BY <1>0, <2>2, <2>3, CallsExcept DEF Conn!Begin
  <2> QED BY <2>1, <2>4 DEF Conn!Next
<1>2. CASE SetSend(s) \/ SetRetry(s)
  <2>1. ASSUME NEW t \in Callers PROVE CallOf(t)' = CallOf(t)
    <3>1. (cpc'[t] # "idle") = (cpc[t] # "idle")
      BY <1>2 DEF SetSend, SetRetry, TypeOK
    <3> QED BY <1>2, <3>1 DEF SetSend, SetRetry, CallOf
  <2> QED BY <1>0, <2>1 DEF Conn!vars
<1>3. CASE SetIgnore(s)
  BY <1>0, <1>3, StutterRefines DEF SetIgnore, calls
<1>4. ASSUME NEW res \in {"ok", "closed", "timeout"}, Return(s, res),
             UNCHANGED <<creg, acked>>, cpc[s] # "idle",
             res = "ok" => acked[s], res = "closed" => lclosed[s]
      PROVE  Conn!Next
  <2>1. CallOf(s).busy /\ (res = "ok" => CallOf(s).acked)
    BY <1>4 DEF CallOf
  <2>2. res = "closed" => Phase = "down"
    BY <1>4 DEF LifeInv, Phase, Owners
  <2>3. \A t \in Callers : CallOf(t)' =
          IF t = s THEN [CallOf(s) EXCEPT !.busy = FALSE, !.result = res]
                   ELSE CallOf(t)
    BY <1>4 DEF Return, CallOf, TypeOK
  <2>4. Conn!Finish(s, res)
    BY <1>0, <2>1, <2>2, <2>3, CallsExcept DEF Conn!Finish
  <2> QED BY <2>4 DEF Conn!Next, Conn!Results
<1>5. CASE SetAcked(s)
  <2>1. acked[s]
    <3>1. lq[s] \in Seq(InMsgs) /\ lq[s] # <<>> /\ Acks(Head(lq[s]), creg[s])
      BY <1>5 DEF SetAcked, TypeOK, Owners
    <3>2. 1 \in DOMAIN lq[s] /\ Head(lq[s]) = lq[s][1]
      BY <3>1
    <3> QED BY <3>1, <3>2 DEF AckInv
  <2> QED BY <1>4, <1>5, <2>1 DEF SetAcked
<1>6. CASE SetClosed(s) \/ SetTimeout(s)
  BY <1>4, <1>6 DEF SetClosed, SetTimeout
<1> QED BY <1>1, <1>2, <1>3, <1>5, <1>6 DEF Call, SetWait

LEMMA NextRefines == ClientInv /\ [Next]_vars => [Conn!Next]_Conn!vars
<1> SUFFICES ASSUME ClientInv, [Next]_vars PROVE [Conn!Next]_Conn!vars
  OBVIOUS
<1>1. CASE Writer \/ Pinger \/ ExternalClose
  BY <1>1, StutterRefines DEF Writer, WriterTake, WriterWrite, WriterError,
     Pinger, PingerPing, PingerExit, ExternalClose, recvVars, startVars, reader,
     user, calls, history, Phase, Inbox
<1>2. CASE UNCHANGED vars
  BY <1>2, StutterRefines DEF vars, recvVars, startVars, reader, user, calls,
     history, Phase, Inbox
<1> QED BY <1>1, <1>2, ReaderRefines, ManageRefines, UserRefines, CallRefines
        DEF Next, ClientInv

\* Whatever its goroutines and bounded channels do, a Client is a Connection:
\* Recv yields every frame that came, once and in order, until it is closed for
\* good; the listeners' losses are not seen; Start and SetRegister report what
\* has happened.
THEOREM Refines == Spec => ConnectionSpec
<1> QED BY InitRefines, NextRefines, InvAlways, PTL
        DEF Spec, ConnectionSpec, Conn!Spec

-----------------------------------------------------------------------------
(* The commands.                                                           *)

LEMMA ToDoType ==
  ASSUME NEW p \in Programs
  PROVE  /\ \A t \in ToDo(p) : t \in Seq(Registers)
         /\ p = "register" => \A t \in ToDo(p) : Len(t) = 1
<1>0. \A r \in Registers : <<r>> \in Seq(Registers) /\ Len(<<r>>) = 1
  OBVIOUS
<1>1. CASE p = "register"
  <2>1. ToDo(p) = {<<r>> : r \in RegisterRegs}
    BY <1>1 DEF ToDo
  <2> QED BY <1>0, <2>1, CommandAssumption
<1>2. CASE p = "set"
  BY <1>2, CommandAssumption DEF ToDo
<1>3. CASE p = "watch"
  <2>1. ToDo(p) = {<<>>} /\ p # "register"
    BY <1>3 DEF ToDo
  <2> QED BY <2>1
<1> QED BY <1>1, <1>2, <1>3 DEF Programs

LEMMA CommandInitInv == CommandInit => CommandInv
<1> SUFFICES ASSUME CommandInit PROVE CommandInv
  OBVIOUS
<1>1. Init /\ prog \in Programs /\ todo \in ToDo(prog)
  BY DEF CommandInit
<1>2. TypeOK /\ AckInv
  BY <1>1, InitType, InitAck
<1>3. todo \in Seq(Registers) /\ (prog = "register" => Len(todo) = 1)
  BY <1>1, ToDoType
<1>4. CommandTypeOK
  BY <1>2, <1>3, CommandAssumption DEF CommandInit, CommandTypeOK
<1>5. ProgressInv /\ SuccessMeansSet
  BY <1>3, CommandAssumption DEF CommandInit, Init, ProgressInv, SuccessMeansSet
<1> QED BY <1>2, <1>4, <1>5 DEF CommandInv

\* The steps of a command that the user of Client takes in another way, or not at all.
Own == GoReceive \/ GoAck \/ VINClosed \/ VINTimeout \/ SetDone \/ RegisterReturns
       \/ RegisterDone \/ CallFails \/ WatchReceive \/ WatchAck \/ WatchEnd
       \/ WatchTimeout

\* All others are steps of Client.
LEMMA ClientSteps ==
  ASSUME TypeOK, todo \in Seq(Registers), CommandNext
  PROVE  [Next]_vars \/ Own
<1>1. CASE Read
  BY <1>1 DEF Read, Frame, Next, Reader
<1>2. CASE Writer \/ Manage \/ Pinger
  BY <1>2 DEF Next
<1>3. CASE Starting
  BY <1>3 DEF Starting, Next, User, UserStart
<1>4. CASE HandVIN \/ GoEnd \/ SetReturns
  BY <1>4 DEF HandVIN, GoEnd, SetReturns
<1>5. CASE SetNext
  <2>1. Head(todo) \in Registers
    BY <1>5 DEF SetNext
  <2> QED BY <1>5, <2>1, CommandAssumption DEF SetNext, Next, Call
<1>6. CASE InCall
  BY <1>6, CommandAssumption DEF InCall, Next, Call
<1> QED
  BY <1>1, <1>2, <1>3, <1>4, <1>5, <1>6
     DEF CommandNext, Command, Go, VIN, Setting, Watch, Own

\* The steps of their own keep the Client well-typed, and its calls as they are.
LEMMA OwnType ==
  ASSUME TypeOK, Own
  PROVE  TypeOK' /\ UNCHANGED <<creg, cpc, cres, acked, lisVars>>
<1> USE DEF inner, connVars, recvVars, startVars, lisVars, reader, writer, user,
            calls, history
<1>1. ASSUME recvQ # <<>>, recvQ' = Tail(recvQ)
      PROVE  recvQ' \in Seq(InMsgs) /\ Len(recvQ') <= RecvCap
  BY <1>1, CapAssumption, TailType DEF TypeOK
<1>2. CASE GoReceive
  BY <1>1, <1>2 DEF TypeOK, GoReceive
<1>3. CASE GoAck
  BY <1>3, EnqueueType, OutMsgsType DEF TypeOK, GoAck
<1>4. CASE VINClosed
  BY <1>4 DEF TypeOK, VINClosed, Exit
<1>5. CASE VINTimeout
  BY <1>5 DEF TypeOK, VINTimeout, Close, Exit
<1>6. CASE SetDone
  BY <1>6 DEF TypeOK, SetDone, Exit
<1>7. CASE RegisterReturns
  BY <1>7 DEF TypeOK, RegisterReturns, Close
<1>8. CASE RegisterDone
  BY <1>8 DEF TypeOK, RegisterDone, Exit
<1>9. CASE CallFails
  BY <1>9 DEF TypeOK, CallFails, Exit
<1>10. CASE WatchReceive
  BY <1>1, <1>10 DEF TypeOK, WatchReceive
<1>11. CASE WatchAck
  BY <1>11, EnqueueType, OutMsgsType DEF TypeOK, WatchAck
<1>12. CASE WatchEnd
  BY <1>12 DEF TypeOK, WatchEnd, Exit
<1>13. CASE WatchTimeout
  BY <1>13 DEF TypeOK, WatchTimeout, Close, Exit
<1> QED
  BY <1>2, <1>3, <1>4, <1>5, <1>6, <1>7, <1>8, <1>9, <1>10, <1>11, <1>12, <1>13
     DEF Own

LEMMA ClientKept ==
  ASSUME TypeOK, AckInv, todo \in Seq(Registers), CommandNext
  PROVE  TypeOK' /\ AckInv'
<1>1. CASE [Next]_vars
  BY <1>1, NextType, NextAck
<1>2. CASE Own
  <2>1. TypeOK' /\ UNCHANGED <<creg, cres, acked, lq>>
    BY <1>2, OwnType DEF lisVars
  <2> QED BY <2>1, OtherAck
<1> QED BY <1>1, <1>2, ClientSteps

\* The goroutines of the Client do not touch the command or its call.
LEMMA Apart ==
  ASSUME TypeOK, Read \/ ((Writer \/ Manage \/ Pinger) /\ Quiet)
  PROVE  /\ UNCHANGED <<cmd, upc, cpc, cres>> /\ exit = "none"
         /\ frames \in 0..MaxFrames => frames' \in 0..MaxFrames
<1> USE CommandAssumption DEF user, calls, Quiet, Running
<1>1. CASE Read
  BY <1>1 DEF Read, Frame, ReaderRead, ReaderDeliver, ReaderRecv, ReaderError,
     ReaderCloseRecv, ReaderStop
<1>2. CASE (Writer \/ Manage \/ Pinger) /\ Quiet
  BY <1>2 DEF Writer, WriterTake, WriterWrite, WriterError, Manage, ManageAdd,
     ManageReceive, ManagePing, ManageRespond, ManageSignal, ManageLoopEnd,
     ManageClose, Pinger, PingerPing, PingerExit
<1> QED BY <1>1, <1>2

\* What the command does itself, and how far it is then.
LEMMA CommandStep ==
  ASSUME CommandInv, Command, Running
  PROVE  /\ ProgressInv' /\ SuccessMeansSet'
         /\ prog' \in Programs /\ todo' \in Seq(Registers)
         /\ main' \in {"start", "wait", "ack", "set", "call", "sleep"}
         /\ gpc' \in {"off", "read", "vin", "ack", "done"}
         /\ exit' \in {"none", "ok", "closed", "timeout", "failed", "panic"}
<1> DEFINE Goal ==
         /\ ProgressInv' /\ SuccessMeansSet'
         /\ prog' \in Programs /\ todo' \in Seq(Registers)
         /\ main' \in {"start", "wait", "ack", "set", "call", "sleep"}
         /\ gpc' \in {"off", "read", "vin", "ack", "done"}
         /\ exit' \in {"none", "ok", "closed", "timeout", "failed", "panic"}
<1> SUFFICES Goal
  OBVIOUS
<1> USE CommandAssumption
    DEF CommandInv, CommandTypeOK, ProgressInv, SuccessMeansSet, Running, Programs,
        cmd, user, calls
<1>1. CASE (Dial \/ Connect \/ DialFail \/ StartClosed \/ StartTimeout) /\ Starting
  BY <1>1 DEF Starting, Dial, Connect, DialFail, StartClosed, StartTimeout, StartOk
<1>2. CASE StartOk /\ Begin /\ UNCHANGED <<prog, todo, exit>>
  BY <1>2 DEF StartOk, Begin
<1>3. CASE GoReceive
  BY <1>3 DEF GoReceive, inner
<1>4. CASE GoEnd \/ HandVIN
  BY <1>4 DEF GoEnd, HandVIN, vars
<1>5. CASE GoAck
  BY <1>5 DEF GoAck
<1>6. CASE VINClosed \/ VINTimeout
  BY <1>6 DEF VINClosed, VINTimeout, Exit
<1>7. CASE SetDone
  BY <1>7 DEF SetDone, Exit, AckInv
<1>8. CASE SetNext
  BY <1>8 DEF SetNext, SetRegister
<1>9. CASE InCall
  BY <1>9 DEF InCall, SetSend, SetWait, SetAcked, SetRetry, SetIgnore, SetClosed,
     SetTimeout, Return
<1>10. CASE SetReturns
  BY <1>10 DEF SetReturns, Returned, vars
<1>11. CASE RegisterReturns
  <2>1. Tail(todo) = <<>> /\ <<>> \in Seq(Registers)
    BY <1>11 DEF RegisterReturns, Returned
  <2> QED BY <1>11, <2>1 DEF RegisterReturns, Returned
<1>12. CASE RegisterDone
  BY <1>12 DEF RegisterDone, Exit, AckInv
<1>13. CASE CallFails
  BY <1>13 DEF CallFails, Returned, Exit
<1>14. CASE WatchReceive \/ WatchAck
  BY <1>14 DEF WatchReceive, WatchAck
<1>15. CASE WatchEnd \/ WatchTimeout
  BY <1>15 DEF WatchEnd, WatchTimeout, Exit
<1> QED
  BY <1>1, <1>2, <1>3, <1>4, <1>5, <1>6, <1>7, <1>8, <1>9, <1>10, <1>11, <1>12,
     <1>13, <1>14, <1>15 DEF Command, Starting, Go, VIN, Setting, Watch

LEMMA CommandStepInv == CommandInv /\ [CommandNext]_cvars => CommandInv'
<1> SUFFICES ASSUME CommandInv, [CommandNext]_cvars PROVE CommandInv'
  OBVIOUS
<1>1. CASE UNCHANGED cvars
  <2>1. TypeOK' /\ AckInv'
    BY <1>1, NextType, NextAck DEF cvars, CommandInv, CommandTypeOK
  <2>2. UNCHANGED <<cmd, frames, upc, cpc, cres, acked>>
    BY <1>1 DEF cvars, vars, user, calls, history
  <2> QED BY <2>1, <2>2
          DEF CommandInv, CommandTypeOK, ProgressInv, SuccessMeansSet, cmd
<1>2. CASE CommandNext
  <2>1. TypeOK' /\ AckInv'
    BY <1>2, ClientKept DEF CommandInv, CommandTypeOK
  <2>2. CASE Read \/ ((Writer \/ Manage \/ Pinger) /\ Quiet)
    BY <2>1, <2>2, Apart DEF CommandInv, CommandTypeOK, ProgressInv, SuccessMeansSet, cmd
  <2>3. CASE Command /\ Running
    <3>1. /\ ProgressInv' /\ SuccessMeansSet' /\ frames' = frames
          /\ prog' \in Programs /\ todo' \in Seq(Registers)
          /\ main' \in {"start", "wait", "ack", "set", "call", "sleep"}
          /\ gpc' \in {"off", "read", "vin", "ack", "done"}
          /\ exit' \in {"none", "ok", "closed", "timeout", "failed", "panic"}
      BY <2>3, CommandStep DEF Running
    <3>2. frames' \in 0..MaxFrames
      BY <3>1 DEF CommandInv, CommandTypeOK
    <3> QED BY <2>1, <3>1, <3>2 DEF CommandInv, CommandTypeOK
  <2> QED BY <1>2, <2>2, <2>3 DEF CommandNext
<1> QED BY <1>1, <1>2

LEMMA CommandInvariant == CommandSpec => []CommandInv
BY CommandInitInv, CommandStepInv, PTL DEF CommandSpec

\* The commands of cmd/register.go, cmd/set.go and cmd/watch.go leave the Client
\* they use well-typed: what they do to its channels keeps within the capacities.
THEOREM CommandTypeCorrect == CommandSpec => []CommandTypeOK
<1>1. CommandInv => CommandTypeOK
  BY DEF CommandInv
<1> QED BY <1>1, CommandInvariant, PTL

\* runRegister and runSet: success is reported only when nothing is left to set
\* and the car has acknowledged the register that was set last.
THEOREM CommandSuccess == CommandSpec => []SuccessMeansSet
<1>1. CommandInv => SuccessMeansSet
  BY DEF CommandInv
<1> QED BY <1>1, CommandInvariant, PTL
=============================================================================
