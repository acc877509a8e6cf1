--------------------------- MODULE EmulatorProofs ---------------------------
(***************************************************************************)
(* Proofs about the emulator, for any number of connections and calls and  *)
(* any capacity of the channels: no channel overflows, and Car.SetRegister *)
(* returns nil only when the newest connection's client has acknowledged,  *)
(* although its goroutines read the shared variable of the loop.           *)
(***************************************************************************)
EXTENDS Emulator, TLAPS

-----------------------------------------------------------------------------
(* Channels.                                                               *)

LEMMA Caps == /\ MaxConns \in Nat \ {0} /\ SendCap \in Nat \ {0}
              /\ ListenerCap \in Nat \ {0} /\ Dump \in Nat /\ MaxCalls \in Nat
BY EmulatorAssumption

\* What a receive leaves.
LEMMA Taken ==
  ASSUME NEW S, NEW q \in Seq(S), q # <<>>
  PROVE  /\ Head(q) \in S /\ Tail(q) \in Seq(S) /\ Len(Tail(q)) = Len(q) - 1
         /\ Len(q) > 0 /\ Len(q) \in Nat
         /\ \A k \in DOMAIN Tail(q) : k + 1 \in DOMAIN q /\ Tail(q)[k] = q[k + 1]
OBVIOUS

\* A send to a channel with room.
LEMMA Sent ==
  ASSUME NEW S, NEW q \in Seq(S), NEW m \in S, NEW cap \in Nat, Len(q) < cap
  PROVE  Append(q, m) \in Seq(S) /\ Len(Append(q, m)) <= cap
OBVIOUS

\* A listener takes a frame, or drops it when it is full.
LEMMA Offered ==
  ASSUME NEW q \in Seq(Answers), Len(q) <= ListenerCap, NEW m \in Answers
  PROVE  /\ Offer(q, m) \in Seq(Answers) /\ Len(Offer(q, m)) <= ListenerCap
         /\ \A k \in DOMAIN Offer(q, m) :
              Offer(q, m)[k] = m \/ (k \in DOMAIN q /\ Offer(q, m)[k] = q[k])
<1>1. CASE Len(q) < ListenerCap
  BY <1>1, Caps DEF Offer
<1>2. CASE ~(Len(q) < ListenerCap)
  BY <1>2 DEF Offer
<1> QED BY <1>1, <1>2

-----------------------------------------------------------------------------
(* The type invariant.                                                     *)

\* The connections: what the goroutines of one do to its state.
LEMMA ConnStep ==
  ASSUME ConnType, RoutineType, CallType, GoInv, Next
  PROVE  ConnType'
<1>1. ASSUME UNCHANGED conn PROVE ConnType'
  BY <1>1 DEF ConnType, conn
<1>2. CASE Accept
  BY <1>2, Caps DEF Accept, ConnType, Conns
<1>3. ASSUME NEW c \in Conns, WriterWrite(c) PROVE ConnType'
  <2>1. send[c] \in Seq(Frames) /\ send[c] # <<>> /\ Len(send[c]) <= SendCap
    BY <1>3 DEF WriterWrite, ConnType
  <2>2. Tail(send[c]) \in Seq(Frames) /\ Len(Tail(send[c])) <= SendCap
    BY <2>1, Taken, Caps
  <2>3. send' = [send EXCEPT ![c] = Tail(@)]
        /\ \E m \in Answers : back' = [back EXCEPT ![c] = <<m>>]
    BY <1>3 DEF WriterWrite, Answers
  <2>4. PICK m \in Answers : back' = [back EXCEPT ![c] = <<m>>]
    BY <2>3
  <2>5. <<m>> \in Seq(Answers) /\ Len(<<m>>) <= 1
    OBVIOUS
  <2> QED BY <1>3, <2>2, <2>3, <2>4, <2>5 DEF WriterWrite, ConnType
<1>4. ASSUME NEW c \in Conns, WriterLose(c) PROVE ConnType'
  <2>1. send[c] \in Seq(Frames) /\ send[c] # <<>> /\ Len(send[c]) <= SendCap
    BY <1>4 DEF WriterLose, ConnType
  <2>2. Tail(send[c]) \in Seq(Frames) /\ Len(Tail(send[c])) <= SendCap
    BY <2>1, Taken, Caps
  <2>3. wpc' \in [Conns -> {"off", "run", "done"}]
    BY <1>4 DEF WriterLose, ConnType
  <2> QED BY <1>4, <2>2, <2>3 DEF WriterLose, ConnType
<1>5. ASSUME NEW c \in Conns, WriterError(c) PROVE ConnType'
  BY <1>5, Taken, Caps DEF WriterError, ConnType
<1>6. ASSUME NEW c \in Conns, ReaderRead(c) PROVE ConnType'
  BY <1>6 DEF ReaderRead, ConnType
<1>7. ASSUME NEW c \in Conns, ReaderError(c) PROVE ConnType'
  BY <1>7 DEF ReaderError, ConnType
<1>8. ASSUME NEW c \in Conns, ManageSend(c) PROVE ConnType'
  BY <1>8, Sent, Caps DEF ManageSend, ConnType, Room, Frames
<1>9. ASSUME NEW i \in Conns, Put(i) PROVE ConnType'
  <2>1. to[i] \in Conns
    <3>1. to[i] \in 0..n /\ to[i] > 0
      BY <1>9 DEF Put, RoutineType, GoInv
    <3>2. n \in 0..accepted /\ accepted \in 0..MaxConns
      BY DEF CallType, ConnType
    <3> QED BY ONLY <3>1, <3>2, Caps DEF Conns
  <2> QED BY <1>9, <2>1, Sent, Caps DEF Put, ConnType, Room, Frames
<1>10. ASSUME NEW i \in Conns, Start(i) \/ Await(i) PROVE UNCHANGED conn
  BY <1>10 DEF Start, Await, Listen, Aim, Receive, Timeout
<1>11. CASE SetRegister \/ Spawn \/ Wait
  BY <1>1, <1>11 DEF SetRegister, Spawn, Wait
<1> QED
  BY <1>1, <1>2, <1>3, <1>4, <1>5, <1>6, <1>7, <1>8, <1>9, <1>10, <1>11
     DEF Next, Writer, Reader

\* The call.
LEMMA CallStep ==
  ASSUME CallType, ConnType, Next
  PROVE  CallType'
<1>1. ASSUME UNCHANGED <<handler, history>>, UNCHANGED accepted PROVE CallType'
  BY <1>1 DEF CallType, handler, history
<1>2. CASE Accept
  BY <1>2, Caps DEF Accept, CallType, ConnType, handler, history
<1>3. CASE SetRegister
  <2>1. accepted' = accepted /\ accepted \in 0..MaxConns /\ n' = accepted /\ cur' = 0
        /\ calls' = calls + 1 /\ calls \in 0..MaxCalls /\ calls < MaxCalls
    BY <1>3 DEF SetRegister, CallType, ConnType, conn
  <2>2. n' \in 0..accepted' /\ cur' \in 0..n' /\ calls' \in 0..MaxCalls
    BY ONLY <2>1, Caps
  <2>3. hpc' = "loop" /\ res' = "none" /\ {told, heard}' \subseteq BOOLEAN
    BY <1>3 DEF SetRegister
  <2> QED BY <2>2, <2>3 DEF CallType
<1>4. CASE Spawn
  BY <1>4, Caps DEF Spawn, CallType, ConnType, conn, history
<1>5. CASE Wait
  BY <1>5, Caps DEF Wait, CallType, ConnType, conn, history
<1>6. ASSUME NEW c \in Conns, WriterWrite(c) PROVE CallType'
  <2>1. told' \in BOOLEAN
    BY <1>6 DEF WriterWrite
  <2> QED BY <1>6, <2>1 DEF WriterWrite, CallType, handler
<1>7. ASSUME NEW c \in Conns, ReaderRead(c) PROVE CallType'
  <2>1. heard' \in BOOLEAN
    BY <1>7 DEF ReaderRead
  <2> QED BY <1>7, <2>1 DEF ReaderRead, CallType, handler
<1>8. ASSUME NEW c \in Conns,
             WriterLose(c) \/ WriterError(c) \/ ReaderError(c) \/ ManageSend(c)
      PROVE  CallType'
  BY <1>1, <1>8 DEF WriterLose, WriterError, ReaderError, ManageSend
<1>9. ASSUME NEW i \in Conns, Start(i) \/ Put(i) \/ Await(i) PROVE CallType'
  BY <1>1, <1>9 DEF Start, Await, Listen, Aim, Put, Receive, Timeout, conn
<1> QED
  BY <1>2, <1>3, <1>4, <1>5, <1>6, <1>7, <1>8, <1>9 DEF Next, Writer, Reader

\* The goroutines of a call.
LEMMA RoutineStep ==
  ASSUME RoutineType, CallType, ConnType, Next
  PROVE  RoutineType'
<1>1. ASSUME UNCHANGED routine, UNCHANGED n PROVE RoutineType'
  BY <1>1 DEF RoutineType, routine
<1>2. CASE Accept
  BY <1>1, <1>2 DEF Accept, handler
<1>3. CASE SetRegister
  BY <1>3 DEF SetRegister, RoutineType, routine, CallType, ConnType
<1>4. CASE Spawn
  BY <1>4 DEF Spawn, RoutineType
<1>5. CASE Wait
  BY <1>5 DEF Wait, RoutineType
<1>6. ASSUME NEW c \in Conns, ReaderRead(c) PROVE RoutineType'
  <2>1. back[c] \in Seq(Answers) /\ back[c][1] \in Answers
    BY <1>6 DEF ReaderRead, ConnType
  <2>2. ASSUME NEW i \in Conns
        PROVE  lq'[i] \in Seq(Answers) /\ Len(lq'[i]) <= ListenerCap
    BY <1>6, <2>1, Offered DEF ReaderRead, RoutineType
  <2>3. lq' = [i \in Conns |-> lq'[i]]
    BY <1>6 DEF ReaderRead
  <2> QED BY <1>6, <2>2, <2>3 DEF ReaderRead, RoutineType, handler
<1>7. ASSUME NEW c \in Conns, Writer(c) \/ ReaderError(c) \/ ManageSend(c)
      PROVE  RoutineType'
  BY <1>1, <1>7 DEF Writer, WriterWrite, WriterLose, WriterError, ReaderError,
     ManageSend, handler
<1>8. ASSUME NEW i \in Conns, Listen(i) PROVE RoutineType'
  BY <1>8, Caps DEF Listen, RoutineType, CallType, handler
<1>9. ASSUME NEW i \in Conns, Aim(i) PROVE RoutineType'
  BY <1>9 DEF Aim, RoutineType, CallType, handler
<1>10. ASSUME NEW i \in Conns, Put(i) PROVE RoutineType'
  BY <1>10 DEF Put, RoutineType, handler
<1>11. ASSUME NEW i \in Conns, NEW r \in {"nil", "error"}, Return(i, r), UNCHANGED n
       PROVE  RoutineType'
  BY <1>11, Caps DEF Return, RoutineType, CallType
<1>12. ASSUME NEW i \in Conns, Await(i) PROVE RoutineType'
  <2>1. CASE Return(i, "nil") \/ Return(i, "error")
    BY <1>11, <1>12, <2>1 DEF Await, Receive, Timeout, handler
  <2>2. CASE /\ lq[i] # <<>> /\ lq' = [lq EXCEPT ![i] = Tail(@)]
             /\ UNCHANGED <<gpc, on, to, gres, n>>
    BY <2>2, Taken, Caps DEF RoutineType
  <2> QED BY <1>12, <2>1, <2>2 DEF Await, Receive, Timeout, handler
<1> QED
  BY <1>2, <1>3, <1>4, <1>5, <1>6, <1>7, <1>8, <1>9, <1>10, <1>12
     DEF Next, Reader, Start

-----------------------------------------------------------------------------
(* The goroutines and the variable of the loop.                            *)

\* A goroutine that ends leaves nothing behind.
LEMMA ReturnGo ==
  ASSUME RoutineType, GoInv, NEW i \in Conns, NEW r, gpc[i] = "wait",
         Return(i, r), UNCHANGED <<hpc, n, cur>>
  PROVE  GoInv'
BY DEF RoutineType, GoInv, Return, Listening

LEMMA GoStep ==
  ASSUME RoutineType, CallType, ConnType, GoInv, Next
  PROVE  GoInv'
<1>1. ASSUME UNCHANGED <<hpc, n, cur, gpc, on, to, lq, gres>> PROVE GoInv'
  BY <1>1 DEF GoInv
<1>2. CASE Accept
  BY <1>1, <1>2 DEF Accept, handler, routine
<1>3. CASE SetRegister
  BY <1>3, Caps DEF SetRegister, GoInv, routine, CallType, ConnType
<1>4. CASE Spawn
  <2>1. cur + 1 \in Conns
    BY <1>4, Caps DEF Spawn, CallType, ConnType, Conns
  <2>2. ASSUME NEW i \in Conns PROVE i <= cur' <=> (i <= cur \/ i = cur + 1)
    BY <1>4, Caps DEF Spawn, CallType, ConnType, Conns
  <2>3. gpc[cur + 1] = "off"
    BY <2>1, Caps DEF GoInv, CallType, ConnType
  <2> QED BY <1>4, <2>1, <2>2, <2>3 DEF Spawn, GoInv, RoutineType, Listening
<1>5. CASE Wait
  <2>1. ASSUME NEW i \in Conns PROVE gpc[i] \notin Listening /\ ~(i <= 0)
    <3>1. i \in 1..n \/ ~(i <= cur)
      BY <1>5, Caps DEF Wait, CallType, ConnType, Conns
    <3>2. gpc[i] \in {"done", "off"}
      BY <1>5, <3>1 DEF Wait, GoInv
    <3>3. ~(i <= 0)
      BY Caps DEF Conns
    <3> QED BY <3>2, <3>3 DEF Listening
  <2> QED BY <1>5, <2>1 DEF Wait, GoInv, Listening
<1>6. ASSUME NEW c \in Conns, ReaderRead(c) PROVE GoInv'
  <2>1. c # 0
    BY Caps DEF Conns
  <2>2. ASSUME NEW i \in Conns, gpc[i] \notin Listening PROVE lq'[i] = lq[i]
    BY <1>6, <2>1, <2>2 DEF ReaderRead, GoInv
  <2> QED BY <1>6, <2>2 DEF ReaderRead, GoInv, handler
<1>7. ASSUME NEW c \in Conns, Writer(c) \/ ReaderError(c) \/ ManageSend(c)
      PROVE  GoInv'
  BY <1>1, <1>7 DEF Writer, WriterWrite, WriterLose, WriterError, ReaderError,
     ManageSend, handler, routine
<1>8. ASSUME NEW i \in Conns, Start(i) \/ Put(i) \/ Await(i)
      PROVE  cur > 0 /\ UNCHANGED <<hpc, n, cur>>
  <2>1. gpc[i] # "off" /\ UNCHANGED handler
    BY <1>8 DEF Start, Await, Listen, Aim, Put, Receive, Timeout
  <2>2. i <= cur /\ i > 0
    BY <2>1, Caps DEF GoInv, Conns
  <2> QED BY <2>1, <2>2 DEF handler, CallType, ConnType, Conns
<1>9. ASSUME NEW i \in Conns, Listen(i) PROVE GoInv'
  BY <1>8, <1>9 DEF Listen, Start, GoInv, RoutineType, Listening
<1>10. ASSUME NEW i \in Conns, Aim(i) PROVE GoInv'
  BY <1>8, <1>10 DEF Aim, Start, GoInv, RoutineType, Listening
<1>11. ASSUME NEW i \in Conns, Put(i) PROVE GoInv'
  BY <1>8, <1>11 DEF Put, GoInv, RoutineType, Listening
<1>12. ASSUME NEW i \in Conns, Await(i) PROVE GoInv'
  <2>1. gpc[i] = "wait"
    BY <1>12 DEF Await, Receive, Timeout
  <2>2. CASE Return(i, "nil") \/ Return(i, "error")
    BY <1>8, <1>12, <2>1, <2>2, ReturnGo
  <2>3. CASE lq' = [lq EXCEPT ![i] = Tail(@)] /\ UNCHANGED <<gpc, on, to, gres>>
    BY <1>8, <1>12, <2>1, <2>3 DEF GoInv, Listening, RoutineType
  <2> QED BY <1>12, <2>2, <2>3 DEF Await, Receive, Timeout
<1> QED
  BY <1>2, <1>3, <1>4, <1>5, <1>6, <1>7, <1>9, <1>10, <1>11, <1>12
     DEF Next, Reader, Start

\* What the last goroutine of a call knows.
LEMMA LastStep ==
  ASSUME TypeOK, GoInv, LastInv, NilMeansAcked, Next
  PROVE  LastInv' /\ NilMeansAcked'
<1> USE DEF TypeOK
<1>1. ASSUME UNCHANGED <<hpc, n, res, heard, gpc, on, lq, gres>>
      PROVE  LastInv' /\ NilMeansAcked'
  BY <1>1 DEF LastInv, NilMeansAcked
<1>2. CASE Accept
  BY <1>1, <1>2 DEF Accept, handler, routine, history
<1>3. CASE SetRegister
  <2>1. ASSUME NEW i \in Conns
        PROVE  gpc'[i] \notin Listening /\ lq'[i] = <<>> /\ gres'[i] = "none"
    BY <1>3, Caps DEF SetRegister, GoInv, routine, Listening, Conns
  <2> QED BY <1>3, <2>1 DEF SetRegister, LastInv, NilMeansAcked
<1>4. CASE Spawn
  <2>1. cur + 1 \in Conns
    BY <1>4, Caps DEF Spawn, CallType, ConnType, Conns
  <2> QED BY <1>4, <2>1
          DEF Spawn, LastInv, NilMeansAcked, RoutineType, Listening, history
<1>5. CASE Wait
  <2>1. n # 0 => n \in Conns /\ n \in 1..n
    BY <1>5, Caps DEF Wait, GoInv, CallType, ConnType, Conns
  <2>2. n # 0 /\ res' = "nil" => gres[n] = "nil"
    BY <1>5, <2>1 DEF Wait
  <2>3. NilMeansAcked'
    BY <1>5, <2>1, <2>2 DEF Wait, LastInv, NilMeansAcked, history
  <2> QED BY <1>5, <2>3 DEF Wait, LastInv, Listening, history
<1>6. ASSUME NEW c \in Conns, ReaderRead(c) PROVE LastInv' /\ NilMeansAcked'
  <2>1. /\ heard' = (heard \/ (back[c][1] = "ackSet" /\ c = n))
        /\ lq' = [i \in Conns |-> IF on[i] = c THEN Offer(lq[i], back[c][1]) ELSE lq[i]]
        /\ UNCHANGED <<hpc, n, res, gpc, on, gres>>
    BY <1>6 DEF ReaderRead, handler
  <2>2. heard => heard'
    BY <2>1, Zenon
  <2>3. back[c][1] = "ackSet" /\ c = n => heard'
    BY <2>1, Zenon
  <2>4. back[c][1] \in Answers
    BY <1>6 DEF ReaderRead, ConnType
  <2>5. ASSUME NEW i \in Conns, i = n, NEW k \in DOMAIN lq'[i], lq'[i][k] = "ackSet"
        PROVE  heard'
    <3>1. CASE on[i] = c
      <4>1. on[i] = n
        BY <2>5, <3>1, Caps DEF LastInv, GoInv, Conns
      <4>2. /\ lq'[i] = Offer(lq[i], back[c][1])
            /\ lq[i] \in Seq(Answers) /\ Len(lq[i]) <= ListenerCap
        BY <2>1, <3>1 DEF RoutineType
      <4>3. lq'[i][k] = back[c][1] \/ (k \in DOMAIN lq[i] /\ lq'[i][k] = lq[i][k])
        BY <2>4, <2>5, <4>2, Offered
      <4> QED BY <2>2, <2>3, <2>5, <3>1, <4>1, <4>3 DEF LastInv
    <3>2. CASE on[i] # c
      BY <2>1, <2>2, <2>5, <3>2 DEF LastInv
    <3> QED BY <3>1, <3>2
  <2>6. NilMeansAcked'
    BY <2>1, <2>2 DEF NilMeansAcked
  <2>7. ASSUME NEW i \in Conns, i = n
        PROVE  /\ gpc'[i] \in Listening => on'[i] = n
               /\ gres'[i] = "nil" => heard'
    BY <2>1, <2>2, <2>7 DEF LastInv
  <2>8. n' = n
    BY <2>1
  <2> QED BY <2>5, <2>6, <2>7, <2>8 DEF LastInv
<1>7. ASSUME NEW c \in Conns, Writer(c) \/ ReaderError(c) \/ ManageSend(c)
      PROVE  LastInv' /\ NilMeansAcked'
  BY <1>1, <1>7 DEF Writer, WriterWrite, WriterLose, WriterError, ReaderError,
     ManageSend, handler, routine, history
<1>8. ASSUME NEW i \in Conns, Listen(i) PROVE LastInv' /\ NilMeansAcked'
  <2>1. i = n => cur = n
    <3>1. i <= cur
      BY <1>8 DEF Listen, GoInv
    <3> QED BY <3>1, Caps DEF CallType, ConnType, Conns
  <2> QED BY <1>8, <2>1
          DEF Listen, LastInv, NilMeansAcked, RoutineType, handler, history, Listening
<1>9. ASSUME NEW i \in Conns, Aim(i) \/ Put(i) PROVE LastInv' /\ NilMeansAcked'
  BY <1>9 DEF Aim, Put, LastInv, NilMeansAcked, RoutineType, handler, history, Listening
<1>10. ASSUME NEW i \in Conns, Await(i) PROVE LastInv' /\ NilMeansAcked'
  <2>1. UNCHANGED <<handler, history>> /\ gpc[i] = "wait"
    BY <1>10 DEF Await, Receive, Timeout
  <2>2. CASE Return(i, "error")
    BY <2>1, <2>2 DEF Return, LastInv, NilMeansAcked, RoutineType, handler, history,
       Listening
  <2>3. CASE Return(i, "nil") /\ lq[i] # <<>> /\ Acked(Head(lq[i]))
    <3>1. i = n => heard
      <4>1. lq[i] \in Seq(Answers) /\ 1 \in DOMAIN lq[i] /\ lq[i][1] = "ackSet"
        BY <2>3 DEF RoutineType, Acked
      <4> QED BY <4>1 DEF LastInv
    <3> QED BY <2>1, <2>3, <3>1 DEF Return, LastInv, NilMeansAcked, RoutineType,
            handler, history, Listening
  <2>4. CASE /\ lq[i] # <<>> /\ lq' = [lq EXCEPT ![i] = Tail(@)]
             /\ UNCHANGED <<gpc, on, to, gres>>
    <3>1. lq[i] \in Seq(Answers)
      BY DEF RoutineType
    <3>2. \A k \in DOMAIN Tail(lq[i]) :
             k + 1 \in DOMAIN lq[i] /\ Tail(lq[i])[k] = lq[i][k + 1]
      BY <2>4, <3>1, Taken
    <3> QED BY <2>1, <2>4, <3>2 DEF LastInv, NilMeansAcked, RoutineType,
            handler, history, Listening
  <2> QED BY <1>10, <2>2, <2>3, <2>4 DEF Await, Receive, Timeout
<1> QED
  BY <1>2, <1>3, <1>4, <1>5, <1>6, <1>7, <1>8, <1>9, <1>10 DEF Next, Reader, Start

-----------------------------------------------------------------------------
(* The invariant and the theorems.                                         *)

LEMMA InitInv == Init => EmulatorInv
<1> SUFFICES ASSUME Init PROVE EmulatorInv
  OBVIOUS
<1>1. ConnType
  BY Caps DEF Init, ConnType
<1>2. CallType
  <2>1. accepted = 0 /\ n = 0 /\ cur = 0 /\ calls = 0
    BY DEF Init
  <2>2. n \in 0..accepted /\ cur \in 0..n /\ calls \in 0..MaxCalls
    BY ONLY <2>1, Caps
  <2>3. hpc = "idle" /\ res = "none" /\ {told, heard} \subseteq BOOLEAN
    BY DEF Init
  <2> QED BY <2>2, <2>3 DEF CallType
<1>3. RoutineType
  BY Caps DEF Init, RoutineType
<1>4. GoInv
  BY Caps DEF Init, GoInv, Listening, Conns
<1>5. LastInv /\ NilMeansAcked
  BY DEF Init, LastInv, NilMeansAcked, Listening
<1> QED BY <1>1, <1>2, <1>3, <1>4, <1>5 DEF EmulatorInv, TypeOK

LEMMA StepInv == EmulatorInv /\ [Next]_vars => EmulatorInv'
<1> SUFFICES ASSUME EmulatorInv, [Next]_vars PROVE EmulatorInv'
  OBVIOUS
<1>1. CASE UNCHANGED vars
  BY <1>1 DEF vars, conn, handler, routine, history, EmulatorInv, TypeOK, ConnType,
     CallType, RoutineType, GoInv, LastInv, NilMeansAcked
<1>2. CASE Next
  BY <1>2, ConnStep, CallStep, RoutineStep, GoStep, LastStep DEF EmulatorInv, TypeOK
<1> QED BY <1>1, <1>2

LEMMA Invariant == Spec => []EmulatorInv
BY InitInv, StepInv, PTL DEF Spec

\* The channels of connection.go and car.go: every Send and every listener keeps
\* within its capacity, and a call ranges over connections that are there.
THEOREM TypeCorrect == Spec => []TypeOK
<1>1. EmulatorInv => TypeOK
  BY DEF EmulatorInv
<1> QED BY <1>1, Invariant, PTL

\* Car.SetRegister: nil means that the newest connection's client acknowledged the
\* register during the call, however late the goroutines read the loop's variable,
\* or that there was no connection to range over when the call began.
THEOREM NilIsAcked == Spec => []NilMeansAcked
<1>1. EmulatorInv => NilMeansAcked
  BY DEF EmulatorInv
<1> QED BY <1>1, Invariant, PTL
=============================================================================
