---------------------------- MODULE SessionProofs ----------------------------
(***************************************************************************)
(* Proofs about Session, for queues of any capacity and any number of      *)
(* registers, settings, pings and inputs.  Two parts carry them: FlowInv   *)
(* counts what is out over nine places, and Early follows the order of     *)
(* start response and acks through the three queues to the car's manager.  *)
(***************************************************************************)
EXTENDS Session, CountingProofs

-----------------------------------------------------------------------------
(* Queues: what is in them and in which order.                             *)

\* A queue has what it had and what is appended.
LEMMA HasAppend ==
  ASSUME NEW A, NEW q \in Seq(A), NEW m \in A, NEW x
  PROVE  Has(Append(q, m), x) <=> Has(q, x) \/ m = x
<1>1. /\ Len(q) \in Nat /\ DOMAIN q = 1..Len(q)
      /\ DOMAIN Append(q, m) = 1..(Len(q) + 1) /\ Append(q, m)[Len(q) + 1] = m
      /\ \A i \in DOMAIN q : Append(q, m)[i] = q[i]
  OBVIOUS
<1> QED
  BY <1>1 DEF Has

\* What is taken from a queue is all that may be missing from it.
LEMMA HasTail ==
  ASSUME NEW A, NEW q \in Seq(A), q # <<>>, NEW x
  PROVE  /\ Has(Tail(q), x) => Has(q, x)
         /\ Has(q, x) /\ Head(q) # x => Has(Tail(q), x)
         /\ Head(q) = x => Has(q, x)
<1>1. /\ Len(q) \in Nat \ {0} /\ DOMAIN q = 1..Len(q) /\ Head(q) = q[1]
      /\ DOMAIN Tail(q) = 1..(Len(q) - 1)
      /\ \A i \in DOMAIN Tail(q) : Tail(q)[i] = q[i + 1]
  BY EmptySeq
<1>2. Has(Tail(q), x) => Has(q, x)
  BY <1>1 DEF Has
<1>3. ASSUME Has(q, x), Head(q) # x PROVE Has(Tail(q), x)
  <2>1. PICK i \in DOMAIN q : q[i] = x
    BY <1>3 DEF Has
  <2>2. i - 1 \in DOMAIN Tail(q) /\ (i - 1) + 1 = i
    BY <1>1, <1>3, <2>1
  <2> QED
    BY <1>1, <2>1, <2>2 DEF Has
<1> QED
  BY <1>1, <1>2, <1>3 DEF Has

\* An ack may be appended behind a start response.
LEMMA LedAppend ==
  ASSUME NEW A, NEW q \in Seq(A), NEW m \in A, Led(q),
         m # "ack" \/ Has(q, "startResp")
  PROVE  Led(Append(q, m))
<1>1. /\ Len(q) \in Nat /\ DOMAIN q = 1..Len(q)
      /\ DOMAIN Append(q, m) = 1..(Len(q) + 1) /\ Append(q, m)[Len(q) + 1] = m
      /\ \A i \in DOMAIN q : Append(q, m)[i] = q[i]
  OBVIOUS
<1> SUFFICES ASSUME NEW i \in DOMAIN Append(q, m), Append(q, m)[i] = "ack"
             PROVE  \E j \in DOMAIN Append(q, m) : j < i /\ Append(q, m)[j] = "startResp"
  BY DEF Led
<1>2. CASE i \in DOMAIN q
  BY <1>1, <1>2 DEF Led
<1>3. CASE i = Len(q) + 1
  BY <1>1, <1>3 DEF Has
<1> QED
  BY <1>1, <1>2, <1>3

\* An ack is never at the head of such a queue, and the head may go unless it
\* is the start response.
LEMMA LedTail ==
  ASSUME NEW A, NEW q \in Seq(A), q # <<>>, Led(q)
  PROVE  /\ Head(q) # "ack"
         /\ Head(q) # "startResp" => Led(Tail(q))
<1>1. /\ Len(q) \in Nat \ {0} /\ DOMAIN q = 1..Len(q) /\ Head(q) = q[1]
      /\ DOMAIN Tail(q) = 1..(Len(q) - 1)
      /\ \A i \in DOMAIN Tail(q) : Tail(q)[i] = q[i + 1]
  BY EmptySeq
<1>2. Head(q) # "ack"
  BY <1>1 DEF Led
<1>3. ASSUME Head(q) # "startResp", NEW i \in DOMAIN Tail(q), Tail(q)[i] = "ack"
      PROVE  \E j \in DOMAIN Tail(q) : j < i /\ Tail(q)[j] = "startResp"
  <2>1. i + 1 \in DOMAIN q /\ q[i + 1] = "ack"
    BY <1>1, <1>3
  <2>2. PICK j \in DOMAIN q : j < i + 1 /\ q[j] = "startResp"
    BY <2>1 DEF Led
  <2>3. j - 1 \in DOMAIN Tail(q) /\ (j - 1) + 1 = j /\ j - 1 < i
    BY <1>1, <1>3, <2>2
  <2> QED
    BY <1>1, <2>2, <2>3
<1> QED
  BY <1>2, <1>3 DEF Led

-----------------------------------------------------------------------------
(* Types.                                                                  *)

LEMMA TypeInit == Init => TypeOK
<1> SUFFICES ASSUME Init PROVE TypeOK
  OBVIOUS
<1>1. \A S : <<>> \in Seq(S) /\ Len(<<>>) = 0
  BY EmptySeq
<1>2. NoSender \in 0..NoSender /\ 0 \in 0..MaxInputs /\ 0 \in 0..Registers
      /\ 0 \in 0..(PingsToStart + 1)
  BY BoundAssumption DEF NoSender
<1>3. /\ RecvCap >= 0 /\ SendCap >= 0 /\ ListenerCap >= 0 /\ PipeCap >= 0
  BY BoundAssumption
<1>4. /\ cSend \in Seq(ToCar) /\ Len(cSend) <= SendCap
      /\ cRecv \in Seq(ToClient) /\ Len(cRecv) <= RecvCap
      /\ mq \in Seq(ToClient) /\ Len(mq) <= ListenerCap
      /\ toCar \in Seq(ToCar) /\ Len(toCar) <= PipeCap
      /\ toClient \in Seq(ToClient) /\ Len(toClient) <= PipeCap
  BY <1>1, <1>3 DEF Init
<1>5. /\ eq \in Seq(ToCar) /\ Len(eq) <= ListenerCap
      /\ eout \in Seq(ToClient) /\ eSend \in Seq(ToClient) /\ Len(eSend) <= SendCap
  BY <1>1, <1>3 DEF Init
<1> QED
  BY <1>2, <1>4, <1>5 DEF Init, TypeOK

LEMMA TypeClient ==
  ASSUME TypeOK, Client \/ SetRequest
  PROVE  TypeOK'
<1> USE BoundAssumption DEF TypeOK, pipes, car, history, ClientSend
<1>1. {"ping", "startResp", "ack", "set", "setTime"} = ToCar
  BY DEF ToCar
<1>2. CASE Ping
  BY <1>1, <1>2 DEF Ping
<1>3. CASE ClientWrite
  BY <1>3 DEF ClientWrite
<1>4. CASE ClientRead
  <2>1. Head(toClient) \in ToClient /\ Tail(toClient) \in Seq(ToClient)
        /\ Len(Tail(toClient)) <= PipeCap
    BY <1>4 DEF ClientRead
  <2>2. mq' \in Seq(ToClient) /\ Len(mq') <= ListenerCap
    <3>1. CASE Len(mq) < ListenerCap
      BY <1>4, <2>1, <3>1 DEF ClientRead
    <3>2. CASE ~(Len(mq) < ListenerCap)
      BY <1>4, <3>2 DEF ClientRead
    <3> QED
      BY <3>1, <3>2
  <2> QED
    BY <1>4, <2>1, <2>2 DEF ClientRead
<1>5. CASE ClientRecv
  BY <1>5 DEF ClientRecv, None, ToClient
<1>6. CASE ManagerReceive
  BY <1>6 DEF ManagerReceive
<1>7. CASE ManagerRespond
  BY <1>1, <1>7 DEF ManagerRespond
<1>8. CASE ManagerSignal
  BY <1>8 DEF ManagerSignal
<1>9. CASE UserStart
  BY <1>9 DEF UserStart
<1>10. CASE UserReceive
  BY <1>10 DEF UserReceive
<1>11. CASE UserAck
  BY <1>1, <1>11 DEF UserAck
<1>12. CASE SetRequest
  BY <1>1, <1>12 DEF SetRequest
<1> QED
  BY <1>2, <1>3, <1>4, <1>5, <1>6, <1>7, <1>8, <1>9, <1>10, <1>11, <1>12 DEF Client

LEMMA SenderType ==
  ASSUME next \in 0..Registers, sender \in 0..NoSender, SendNextRegister
  PROVE  next' \in 0..Registers /\ sender' \in 0..NoSender
<1>1. next \in Nat /\ sender \in Nat /\ Registers \in Nat /\ Settings \in Nat
  BY BoundAssumption DEF NoSender
<1>2. CASE sender # NoSender
  BY <1>1, <1>2 DEF SendNextRegister, NoSender
<1>3. CASE sender = NoSender /\ next < Registers
  <2>1. next' = next + 1 /\ sender' \in {0, NoSender}
    BY <1>3 DEF SendNextRegister
  <2> QED BY <1>1, <1>3, <2>1 DEF NoSender
<1>4. CASE sender = NoSender /\ next = Registers
  BY <1>4 DEF SendNextRegister
<1> QED BY <1>1, <1>2, <1>3, <1>4

LEMMA TypeCar ==
  ASSUME TypeOK, Car \/ CarUpdate
  PROVE  TypeOK'
<1> USE BoundAssumption DEF TypeOK, client, pipes, history, Taken
<1>1. <<"dump">> \in Seq(ToClient) /\ <<"setAck">> \in Seq(ToClient)
      /\ <<"setAck", "update", "update">> \in Seq(ToClient) /\ "update" \in ToClient
      /\ <<"pingResp", "startReq">> \in Seq(ToClient) /\ <<"pingResp">> \in Seq(ToClient)
      /\ <<>> \in Seq(ToClient)
  BY DEF ToClient
<1>2. SendNextRegister =>
        eout' \in Seq(ToClient) /\ next' \in 0..Registers /\ sender' \in 0..NoSender
  <2> SUFFICES ASSUME SendNextRegister
               PROVE  /\ eout' \in Seq(ToClient)
                      /\ next' \in 0..Registers /\ sender' \in 0..NoSender
    OBVIOUS
  <2>1. eout' \in Seq(ToClient)
    BY <1>1, Zenon DEF SendNextRegister
  <2>2. next' \in 0..Registers /\ sender' \in 0..NoSender
    BY SenderType
  <2> QED
    BY <2>1, <2>2
<1>3. CASE CarRead
  <2>1. toCar' \in Seq(ToCar) /\ Len(toCar') <= PipeCap /\ Head(toCar) \in ToCar
    BY <1>3 DEF CarRead
  <2>2. eq' \in Seq(ToCar) /\ Len(eq') <= ListenerCap
    <3>1. CASE Len(eq) < ListenerCap
      <4>1. eq' = Append(eq, Head(toCar))
        BY <1>3, <3>1 DEF CarRead
      <4> QED
        BY <2>1, <3>1, <4>1
    <3>2. CASE ~(Len(eq) < ListenerCap)
      BY <1>3, <3>2 DEF CarRead
    <3> QED
      BY <3>1, <3>2
  <2>3. dropped' \in BOOLEAN
    BY <1>3, Zenon DEF CarRead
  <2> QED
    BY <1>3, <2>1, <2>2, <2>3 DEF CarRead
<1>4. CASE CarWrite
  BY <1>4 DEF CarWrite
<1>5. CASE CarSend
  BY <1>5 DEF CarSend
<1>6. CASE CarPing
  <2>1. eout' \in Seq(ToClient) /\ key' \in {"Empty", "Proposed", "Accepted"}
    BY <1>1, <1>6, Zenon DEF CarPing
  <2>2. eq' \in Seq(ToCar) /\ Len(eq') <= ListenerCap
    BY <1>6 DEF CarPing
  <2>3. pings' \in 0..(PingsToStart + 1)
    BY <1>6 DEF CarPing
  <2> QED
    BY <1>6, <2>1, <2>2, <2>3 DEF CarPing
<1>7. CASE CarStartResp
  <2>1. /\ eout' \in Seq(ToClient) /\ next' \in 0..Registers /\ sender' \in 0..NoSender
        /\ key' \in {"Empty", "Proposed", "Accepted"}
    <3>1. CASE key = "Proposed"
      BY <1>2, <1>7, <3>1 DEF CarStartResp
    <3>2. CASE key # "Proposed"
      BY <1>1, <1>7, <3>2 DEF CarStartResp
    <3> QED
      BY <3>1, <3>2
  <2>2. eq' \in Seq(ToCar) /\ Len(eq') <= ListenerCap
    BY <1>7 DEF CarStartResp
  <2> QED
    BY <1>7, <2>1, <2>2 DEF CarStartResp
<1>8. CASE CarAck
  BY <1>2, <1>8 DEF CarAck
<1>9. CASE CarSet
  <2>1. eout' \in Seq(ToClient)
    BY <1>1, <1>9, Zenon DEF CarSet
  <2>2. eq' \in Seq(ToCar) /\ Len(eq') <= ListenerCap
    <3>1. eq # <<>> /\ eq' = Tail(eq)
      BY <1>9 DEF CarSet
    <3> QED
      BY <3>1
  <2>3. extra' \in Nat
    <3>1. extra' \in {extra, extra + 2} /\ extra \in Nat
      BY <1>9, Zenon DEF CarSet
    <3> QED
      BY <3>1
  <2> QED
    BY <1>9, <2>1, <2>2, <2>3 DEF CarSet
<1>10. CASE CarUpdate
  BY <1>1, <1>10 DEF CarUpdate
<1> QED
  BY <1>3, <1>4, <1>5, <1>6, <1>7, <1>8, <1>9, <1>10 DEF Car

-----------------------------------------------------------------------------
(* Stop and wait.                                                          *)

\* The two counts, of registers on the way to the user and of acks on the way
\* back, at the ends of a queue.
LEMMA Registers1 ==
  ASSUME NEW q \in Seq(ToClient)
  PROVE  /\ Count(q, Updates) \in Nat
         /\ \A m \in ToClient : Count(Append(q, m), Updates)
                                  = Count(q, Updates) + (IF m \in Updates THEN 1 ELSE 0)
         /\ q # <<>> => /\ Head(q) \in ToClient /\ Tail(q) \in Seq(ToClient)
                        /\ Count(Tail(q), Updates) \in Nat
                        /\ Count(q, Updates) = Count(Tail(q), Updates)
                                                 + (IF Head(q) \in Updates THEN 1 ELSE 0)
<1>1. Count(q, Updates) \in Nat
  BY CountType
<1>2. \A m \in ToClient : Count(Append(q, m), Updates)
                            = Count(q, Updates) + (IF m \in Updates THEN 1 ELSE 0)
  BY CountAppend
<1>3. ASSUME q # <<>>
      PROVE  /\ Head(q) \in ToClient /\ Tail(q) \in Seq(ToClient)
             /\ Count(Tail(q), Updates) \in Nat
             /\ Count(q, Updates) = Count(Tail(q), Updates)
                                      + (IF Head(q) \in Updates THEN 1 ELSE 0)
  BY <1>3, CountTail, CountType, HeadTailProperties
<1> QED
  BY <1>1, <1>2, <1>3

LEMMA Acks1 ==
  ASSUME NEW q \in Seq(ToCar)
  PROVE  /\ Count(q, {"ack"}) \in Nat
         /\ \A m \in ToCar : Count(Append(q, m), {"ack"})
                               = Count(q, {"ack"}) + (IF m = "ack" THEN 1 ELSE 0)
         /\ q # <<>> => /\ Head(q) \in ToCar /\ Tail(q) \in Seq(ToCar)
                        /\ Count(Tail(q), {"ack"}) \in Nat
                        /\ Count(q, {"ack"}) = Count(Tail(q), {"ack"})
                                                 + (IF Head(q) = "ack" THEN 1 ELSE 0)
<1>1. Count(q, {"ack"}) \in Nat
  BY CountType
<1>2. \A m \in ToCar : Count(Append(q, m), {"ack"})
                         = Count(q, {"ack"}) + (IF m \in {"ack"} THEN 1 ELSE 0)
  BY CountAppend
<1>3. ASSUME q # <<>>
      PROVE  /\ Head(q) \in ToCar /\ Tail(q) \in Seq(ToCar)
             /\ Count(Tail(q), {"ack"}) \in Nat
             /\ Count(q, {"ack"}) = Count(Tail(q), {"ack"})
                                      + (IF Head(q) \in {"ack"} THEN 1 ELSE 0)
  BY <1>3, CountTail, CountType, HeadTailProperties
<1> QED
  BY <1>1, <1>2, <1>3

\* What the handlers of the car send, counted.
LEMMA Counted ==
  /\ Count(<<>>, Updates) = 0 /\ Count(<<"dump">>, Updates) = 1
  /\ Count(<<"pingResp">>, Updates) = 0 /\ Count(<<"pingResp", "startReq">>, Updates) = 0
  /\ Count(<<"setAck">>, Updates) = 0
  /\ Count(<<"setAck", "update", "update">>, Updates) = 2
<1>1. <<>> \in Seq(ToClient) /\ Count(<<>>, Updates) = 0
  BY EmptySeq, CountEmpty
<1>2. {"dump", "setAck", "update", "pingResp", "startReq"} \subseteq ToClient
  BY DEF ToClient
<1>3. /\ <<"dump">> = Append(<<>>, "dump") /\ <<"setAck">> = Append(<<>>, "setAck")
      /\ <<"pingResp">> = Append(<<>>, "pingResp")
      /\ <<"pingResp", "startReq">> = Append(<<"pingResp">>, "startReq")
      /\ <<"setAck", "update">> = Append(<<"setAck">>, "update")
      /\ <<"setAck", "update", "update">> = Append(<<"setAck", "update">>, "update")
  OBVIOUS
<1>4. /\ <<"setAck">> \in Seq(ToClient) /\ <<"pingResp">> \in Seq(ToClient)
      /\ <<"setAck", "update">> \in Seq(ToClient)
  BY <1>2
<1>5. ASSUME NEW q \in Seq(ToClient), NEW m \in ToClient
      PROVE  Count(Append(q, m), Updates)
               = Count(q, Updates) + (IF m \in Updates THEN 1 ELSE 0)
  BY Registers1
<1>6. Count(<<"dump">>, Updates) = 1
  <2>1. Count(Append(<<>>, "dump"), Updates) = 0 + 1
    BY <1>1, <1>2, <1>5 DEF Updates
  <2> QED
    BY <1>3, <2>1
<1>7. Count(<<"setAck">>, Updates) = 0
  <2>1. Count(Append(<<>>, "setAck"), Updates) = 0 + 0
    BY <1>1, <1>2, <1>5 DEF Updates
  <2> QED
    BY <1>3, <2>1
<1>8. Count(<<"pingResp">>, Updates) = 0
  <2>1. Count(Append(<<>>, "pingResp"), Updates) = 0 + 0
    BY <1>1, <1>2, <1>5 DEF Updates
  <2> QED
    BY <1>3, <2>1
<1>9. Count(<<"pingResp", "startReq">>, Updates) = 0
  <2>1. Count(Append(<<"pingResp">>, "startReq"), Updates) = 0 + 0
    BY <1>2, <1>4, <1>5, <1>8 DEF Updates
  <2>2. Count(Append(<<"pingResp">>, "startReq"), Updates) = 0
    BY ONLY <2>1, 0 + 0 = 0
  <2> QED
    BY <1>3, <2>2, Zenon
<1>10. Count(<<"setAck", "update">>, Updates) = 1
  <2>1. Count(Append(<<"setAck">>, "update"), Updates) = 0 + 1
    BY <1>2, <1>4, <1>5, <1>7 DEF Updates
  <2>2. Count(Append(<<"setAck">>, "update"), Updates) = 1
    BY ONLY <2>1, 0 + 1 = 1
  <2> QED
    BY <1>3, <2>2, Zenon
<1>11. Count(<<"setAck", "update", "update">>, Updates) = 2
  <2>1. Count(Append(<<"setAck", "update">>, "update"), Updates) = 1 + 1
    BY <1>2, <1>4, <1>5, <1>10 DEF Updates
  <2>2. Count(Append(<<"setAck", "update">>, "update"), Updates) = 2
    BY ONLY <2>1, 1 + 1 = 2
  <2> QED
    BY <1>3, <2>2, Zenon
<1> QED
  BY <1>1, <1>6, <1>8, <1>7, <1>9, <1>11, Zenon

LEMMA FlowInit == Init => FlowInv
<1> SUFFICES ASSUME Init PROVE FlowInv
  OBVIOUS
<1>1. \A S : Count(<<>>, S) = 0
  BY CountEmpty
<1> QED
  BY <1>1 DEF Init, FlowInv, Outstanding, Allowance, NoSender, Updates, None

\* The nine places where a register or its ack can be.
AtHandler == Count(eout, Updates)
AtSend    == Count(eSend, Updates)
OnWayOut  == Count(toClient, Updates)
InHand    == IF hand \in Updates THEN 1 ELSE 0
AtRecv    == Count(cRecv, Updates)
Acking    == IF user = "ack" THEN 1 ELSE 0
AtClient  == Count(cSend, {"ack"})
OnWayBack == Count(toCar, {"ack"})
AtManager == Count(eq, {"ack"})

LEMMA Queues ==
  TypeOK => /\ cSend \in Seq(ToCar) /\ toCar \in Seq(ToCar) /\ eq \in Seq(ToCar)
            /\ cRecv \in Seq(ToClient) /\ mq \in Seq(ToClient) /\ toClient \in Seq(ToClient)
            /\ eout \in Seq(ToClient) /\ eSend \in Seq(ToClient)
            /\ hand \in ToClient \cup {None}
  BY DEF TypeOK

LEMMA Numbers ==
  ASSUME TypeOK
  PROVE  /\ AtHandler \in Nat /\ AtSend \in Nat /\ OnWayOut \in Nat /\ InHand \in 0..1
         /\ AtRecv \in Nat /\ Acking \in 0..1 /\ AtClient \in Nat /\ OnWayBack \in Nat
         /\ AtManager \in Nat /\ Allowance \in Nat
<1>1. extra \in Nat
  BY DEF TypeOK
<1> QED
  BY <1>1, Queues, Registers1, Acks1 DEF AtHandler, AtSend, OnWayOut, InHand, AtRecv, Acking,
     AtClient, OnWayBack, AtManager, Allowance

LEMMA Sum ==
  /\ Outstanding = AtHandler + AtSend + OnWayOut + InHand + AtRecv + Acking + AtClient
                     + OnWayBack + AtManager
  /\ Outstanding' = AtHandler' + AtSend' + OnWayOut' + InHand' + AtRecv' + Acking' + AtClient'
                      + OnWayBack' + AtManager'
  BY DEF Outstanding, AtHandler, AtSend, OnWayOut, InHand, AtRecv, Acking,
         AtClient, OnWayBack, AtManager

LEMMA TotalType == TypeOK => Outstanding \in Nat /\ Allowance \in Nat
<1>1. TypeOK => Outstanding \in Nat
  BY ONLY Sum, Numbers, SMTT(30)
<1> QED
  BY <1>1, Numbers

LEMMA Primed == TypeOK' => Outstanding' \in Nat /\ Allowance' \in Nat
<1>1. (TypeOK => Outstanding \in Nat /\ Allowance \in Nat)'
  BY TotalType, PTL
<1> QED
  BY <1>1

\* What a step leaves alone, it does not count anew.
LEMMA Alike ==
  /\ eout' = eout => AtHandler' = AtHandler
  /\ eSend' = eSend => AtSend' = AtSend
  /\ toClient' = toClient => OnWayOut' = OnWayOut
  /\ hand' = hand => InHand' = InHand
  /\ cRecv' = cRecv => AtRecv' = AtRecv
  /\ user' = user => Acking' = Acking
  /\ cSend' = cSend => AtClient' = AtClient
  /\ toCar' = toCar => OnWayBack' = OnWayBack
  /\ eq' = eq => AtManager' = AtManager
  /\ extra' = extra /\ key' = key => Allowance' = Allowance
  BY DEF AtHandler, AtSend, OnWayOut, InHand, AtRecv, Acking, AtClient, OnWayBack, AtManager,
         Allowance

\* The client only moves what is out.
LEMMA FlowClient ==
  ASSUME TypeOK, Client \/ SetRequest
  PROVE  Outstanding' = Outstanding /\ Allowance' = Allowance
<1> USE DEF pipes, car, history, ClientSend
<1>1. CASE \/ Ping \/ ManagerRespond \/ SetRequest
  <2>1. PICK m \in ToCar \ {"ack"} : cSend' = Append(cSend, m)
    BY <1>1 DEF Ping, ManagerRespond, SetRequest, ToCar
  <2>2. AtClient' = AtClient
    <3>1. Count(Append(cSend, m), {"ack"}) = Count(cSend, {"ack"}) + 0
      BY Queues, Acks1
    <3> QED
      BY <2>1, <3>1, Numbers DEF AtClient
  <2>3. UNCHANGED <<eout, eSend, toClient, hand, cRecv, user, toCar, eq, extra, key>>
    BY <1>1 DEF Ping, ManagerRespond, SetRequest
  <2> QED
    BY <2>2, <2>3, Sum, Alike
<1>2. CASE ClientWrite
  <2> DEFINE b == IF Head(cSend) = "ack" THEN 1 ELSE 0
  <2>1. cSend # <<>> /\ cSend' = Tail(cSend) /\ toCar' = Append(toCar, Head(cSend))
        /\ UNCHANGED <<eout, eSend, toClient, hand, cRecv, user, eq, extra, key>>
    BY <1>2 DEF ClientWrite
  <2>2. AtClient = AtClient' + b /\ AtClient' \in Nat /\ Head(cSend) \in ToCar
    BY <2>1, Queues, Acks1 DEF AtClient
  <2>3. OnWayBack' = OnWayBack + b
    BY <2>1, <2>2, Queues, Acks1 DEF OnWayBack
  <2>9. /\ AtHandler' = AtHandler /\ AtSend' = AtSend /\ OnWayOut' = OnWayOut
        /\ InHand' = InHand /\ AtRecv' = AtRecv /\ Acking' = Acking
        /\ AtManager' = AtManager /\ Allowance' = Allowance
    BY <2>1, Alike
  <2> QED
    BY ONLY TypeOK, <2>2, <2>3, <2>9, Sum, Numbers, SMTT(30)
<1>3. CASE ClientRead
  <2> DEFINE b == IF Head(toClient) \in Updates THEN 1 ELSE 0
  <2>1. hand = None /\ hand' = Head(toClient) /\ toClient # <<>> /\ toClient' = Tail(toClient)
        /\ UNCHANGED <<eout, eSend, cRecv, user, cSend, toCar, eq, extra, key>>
    BY <1>3 DEF ClientRead
  <2>2. OnWayOut = OnWayOut' + b /\ OnWayOut' \in Nat
    BY <2>1, Queues, Registers1 DEF OnWayOut
  <2>3. InHand = 0 /\ InHand' = b
    BY <2>1 DEF InHand, None, Updates
  <2>9. /\ AtHandler' = AtHandler /\ AtSend' = AtSend /\ AtRecv' = AtRecv
        /\ Acking' = Acking /\ AtClient' = AtClient /\ OnWayBack' = OnWayBack
        /\ AtManager' = AtManager /\ Allowance' = Allowance
    BY <2>1, Alike
  <2> QED
    BY ONLY TypeOK, <2>2, <2>3, <2>9, Sum, Numbers, SMTT(30)
<1>4. CASE ClientRecv
  <2>1. hand \in ToClient /\ hand' = None /\ cRecv' = Append(cRecv, hand)
        /\ UNCHANGED <<eout, eSend, toClient, user, cSend, toCar, eq, extra, key>>
    BY <1>4, Queues DEF ClientRecv
  <2>2. AtRecv' = AtRecv + InHand
    BY <2>1, Queues, Registers1 DEF AtRecv, InHand
  <2>3. InHand' = 0
    BY <2>1 DEF InHand, None, Updates
  <2>9. /\ AtHandler' = AtHandler /\ AtSend' = AtSend /\ OnWayOut' = OnWayOut
        /\ Acking' = Acking /\ AtClient' = AtClient /\ OnWayBack' = OnWayBack
        /\ AtManager' = AtManager /\ Allowance' = Allowance
    BY <2>1, Alike
  <2> QED
    BY ONLY TypeOK, <2>2, <2>3, <2>9, Sum, Numbers, SMTT(30)
<1>5. CASE ManagerReceive \/ ManagerSignal
  <2>1. UNCHANGED <<eout, eSend, toClient, hand, cRecv, user, cSend, toCar, eq, extra, key>>
    BY <1>5 DEF ManagerReceive, ManagerSignal
  <2> QED
    BY <2>1, Sum, Alike
<1>6. CASE UserStart
  <2>1. UNCHANGED <<eout, eSend, toClient, hand, cRecv, cSend, toCar, eq, extra, key>>
    BY <1>6 DEF UserStart
  <2>2. Acking = 0 /\ Acking' = 0
    BY <1>6 DEF UserStart, Acking
  <2> QED
    BY <2>1, <2>2, Sum, Alike
<1>7. CASE UserReceive
  <2> DEFINE b == IF Head(cRecv) \in Updates THEN 1 ELSE 0
  <2>1. cRecv # <<>> /\ cRecv' = Tail(cRecv)
        /\ UNCHANGED <<eout, eSend, toClient, hand, cSend, toCar, eq, extra, key>>
    BY <1>7 DEF UserReceive
  <2>2. AtRecv = AtRecv' + b /\ AtRecv' \in Nat
    BY <2>1, Queues, Registers1 DEF AtRecv
  <2>3. Acking = 0 /\ Acking' = b
    BY <1>7 DEF UserReceive, IsRequest, Updates, Acking
  <2>9. /\ AtHandler' = AtHandler /\ AtSend' = AtSend /\ OnWayOut' = OnWayOut
        /\ InHand' = InHand /\ AtClient' = AtClient /\ OnWayBack' = OnWayBack
        /\ AtManager' = AtManager /\ Allowance' = Allowance
    BY <2>1, Alike
  <2> QED
    BY ONLY TypeOK, <2>2, <2>3, <2>9, Sum, Numbers, SMTT(30)
<1>8. CASE UserAck
  <2>1. cSend' = Append(cSend, "ack") /\ "ack" \in ToCar
        /\ UNCHANGED <<eout, eSend, toClient, hand, cRecv, toCar, eq, extra, key>>
    BY <1>8 DEF UserAck, ToCar
  <2>2. AtClient' = AtClient + 1
    BY <2>1, Queues, Acks1 DEF AtClient
  <2>3. Acking = 1 /\ Acking' = 0
    BY <1>8 DEF UserAck, Acking
  <2>9. /\ AtHandler' = AtHandler /\ AtSend' = AtSend /\ OnWayOut' = OnWayOut
        /\ InHand' = InHand /\ AtRecv' = AtRecv /\ OnWayBack' = OnWayBack
        /\ AtManager' = AtManager /\ Allowance' = Allowance
    BY <2>1, Alike
  <2> QED
    BY ONLY TypeOK, <2>2, <2>3, <2>9, Sum, Numbers, SMTT(30)
<1> QED
  BY <1>1, <1>2, <1>3, <1>4, <1>5, <1>6, <1>7, <1>8 DEF Client

\* The car sends the next register of the sequence for an ack or with the key, and
\* none only when the sequence is through; an ack is lost only by its listener.
LEMMA FlowCar ==
  ASSUME TypeOK, Car \/ CarUpdate, sender # NoSender => next = Registers
  PROVE  /\ Outstanding' + Allowance <= Outstanding + Allowance'
         /\ \/ Outstanding' + Allowance = Outstanding + Allowance'
            \/ dropped' \/ Complete'
<1> USE DEF client, pipes, history, Taken
<1>0. Outstanding \in Nat /\ Allowance \in Nat
  BY TotalType
<1>1. SendNextRegister => AtHandler' \in 0..1 /\ (AtHandler' = 1 \/ Complete')
  <2>1. SendNextRegister => (eout' = <<>> /\ Complete') \/ eout' = <<"dump">>
    BY DEF SendNextRegister, Complete
  <2>2. eout' = <<>> => AtHandler' = 0
    BY Counted DEF AtHandler
  <2>3. eout' = <<"dump">> => AtHandler' = 1
    BY Counted, Zenon DEF AtHandler
  <2> QED
    BY <2>1, <2>2, <2>3
<1>2. eout = <<>> => AtHandler = 0
  BY Counted DEF AtHandler
<1>3. ASSUME NEW m, Taken(m), m # "ack" PROVE AtManager' = AtManager
  <2>1. eq # <<>> /\ Head(eq) # "ack" /\ eq' = Tail(eq)
    BY <1>3
  <2>2. Count(eq, {"ack"}) = Count(Tail(eq), {"ack"}) + 0 /\ Count(Tail(eq), {"ack"}) \in Nat
    BY <2>1, Queues, Acks1
  <2> QED
    BY <2>1, <2>2 DEF AtManager
<1>4. CASE CarRead
  <2> DEFINE b == IF Head(toCar) = "ack" THEN 1 ELSE 0
  <2>1. toCar # <<>> /\ toCar' = Tail(toCar)
        /\ UNCHANGED <<eout, eSend, toClient, hand, cRecv, user, cSend, extra, key>>
    BY <1>4 DEF CarRead
  <2>2. OnWayBack = OnWayBack' + b /\ OnWayBack' \in Nat /\ Head(toCar) \in ToCar
    BY <2>1, Queues, Acks1 DEF OnWayBack
  <2>3. CASE eq' = Append(eq, Head(toCar))
    <3>1. AtManager' = AtManager + b
      BY <2>2, <2>3, Queues, Acks1 DEF AtManager
    <3>9. /\ AtHandler' = AtHandler /\ AtSend' = AtSend /\ OnWayOut' = OnWayOut
          /\ InHand' = InHand /\ AtRecv' = AtRecv /\ Acking' = Acking
          /\ AtClient' = AtClient /\ Allowance' = Allowance
      BY <2>1, Alike
    <3> QED
      BY ONLY TypeOK, <2>2, <3>1, <3>9, Sum, Numbers, SMTT(30)
  <2>4. CASE eq' = eq /\ (b = 0 \/ dropped')
    <3>9. /\ AtHandler' = AtHandler /\ AtSend' = AtSend /\ OnWayOut' = OnWayOut
          /\ InHand' = InHand /\ AtRecv' = AtRecv /\ Acking' = Acking
          /\ AtClient' = AtClient /\ AtManager' = AtManager /\ Allowance' = Allowance
      BY <2>1, <2>4, Alike
    <3>10. b = 0 \/ dropped'
      BY <2>4
    <3> QED
      BY ONLY TypeOK, <2>2, <3>9, <3>10, Sum, Numbers, SMTT(30)
  <2> QED
    BY <1>4, <2>3, <2>4 DEF CarRead
<1>5. CASE CarWrite
  <2> DEFINE b == IF Head(eSend) \in Updates THEN 1 ELSE 0
  <2>1. eSend # <<>> /\ eSend' = Tail(eSend) /\ toClient' = Append(toClient, Head(eSend))
        /\ UNCHANGED <<eout, hand, cRecv, user, cSend, toCar, eq, extra, key>>
    BY <1>5 DEF CarWrite
  <2>2. AtSend = AtSend' + b /\ AtSend' \in Nat /\ Head(eSend) \in ToClient
    BY <2>1, Queues, Registers1 DEF AtSend
  <2>3. OnWayOut' = OnWayOut + b
    BY <2>1, <2>2, Queues, Registers1 DEF OnWayOut
  <2>9. /\ AtHandler' = AtHandler /\ InHand' = InHand /\ AtRecv' = AtRecv
        /\ Acking' = Acking /\ AtClient' = AtClient /\ OnWayBack' = OnWayBack
        /\ AtManager' = AtManager /\ Allowance' = Allowance
    BY <2>1, Alike
  <2> QED
    BY ONLY TypeOK, <2>2, <2>3, <2>9, Sum, Numbers, SMTT(30)
<1>6. CASE CarSend
  <2> DEFINE b == IF Head(eout) \in Updates THEN 1 ELSE 0
  <2>1. eout # <<>> /\ eout' = Tail(eout) /\ eSend' = Append(eSend, Head(eout))
        /\ UNCHANGED <<toClient, hand, cRecv, user, cSend, toCar, eq, extra, key>>
    BY <1>6 DEF CarSend
  <2>2. AtHandler = AtHandler' + b /\ AtHandler' \in Nat /\ Head(eout) \in ToClient
    BY <2>1, Queues, Registers1 DEF AtHandler
  <2>3. AtSend' = AtSend + b
    BY <2>1, <2>2, Queues, Registers1 DEF AtSend
  <2>9. /\ OnWayOut' = OnWayOut /\ InHand' = InHand /\ AtRecv' = AtRecv
        /\ Acking' = Acking /\ AtClient' = AtClient /\ OnWayBack' = OnWayBack
        /\ AtManager' = AtManager /\ Allowance' = Allowance
    BY <2>1, Alike
  <2> QED
    BY ONLY TypeOK, <2>2, <2>3, <2>9, Sum, Numbers, SMTT(30)
<1>7. CASE CarPing
  <2>1. UNCHANGED <<eSend, toClient, hand, cRecv, user, cSend, toCar, extra>>
        /\ eout = <<>> /\ AtManager' = AtManager
    BY <1>3, <1>7 DEF CarPing
  <2>2. eout' = <<"pingResp">> \/ eout' = <<"pingResp", "startReq">>
    BY <1>7, Zenon DEF CarPing
  <2>3. AtHandler' = 0
    BY <2>2, Counted, Zenon DEF AtHandler
  <2>4. Allowance' = Allowance
    BY <1>7 DEF CarPing, Allowance
  <2>5. Outstanding' = Outstanding
    BY <1>2, <2>1, <2>3, Sum, Alike
  <2> QED
    BY <1>0, <2>4, <2>5
<1>8. CASE CarStartResp
  <2>1. UNCHANGED <<eSend, toClient, hand, cRecv, user, cSend, toCar, extra>>
        /\ eout = <<>> /\ AtManager' = AtManager
    BY <1>3, <1>8 DEF CarStartResp
  <2>2. CASE key = "Proposed"
    <3>1. AtHandler' \in 0..1 /\ (AtHandler' = 1 \/ Complete') /\ key' = "Accepted"
      BY <1>1, <1>8, <2>2 DEF CarStartResp
    <3>2. Allowance' = Allowance + 1
      BY <2>1, <2>2, <3>1 DEF Allowance, TypeOK
    <3>9. /\ AtSend' = AtSend /\ OnWayOut' = OnWayOut /\ InHand' = InHand
          /\ AtRecv' = AtRecv /\ Acking' = Acking /\ AtClient' = AtClient
          /\ OnWayBack' = OnWayBack
      BY <2>1, Alike
    <3> QED
      <4>1. AtHandler = 0
        BY <1>2, <2>1
      <4>2. AtManager' = AtManager
        BY <2>1
      <4> QED
        BY ONLY TypeOK, <3>1, <3>2, <3>9, <4>1, <4>2, Sum, Numbers, SMTT(30)
  <2>3. CASE key # "Proposed"
    <3>1. eout' = eout /\ key' = key
      BY <1>8, <2>1, <2>3 DEF CarStartResp
    <3>2. Outstanding' = Outstanding /\ Allowance' = Allowance
      BY <2>1, <3>1, Sum, Alike
    <3> QED
      BY <1>0, <3>2
  <2> QED
    BY <2>2, <2>3
<1>9. CASE CarAck
  <2>1. eq # <<>> /\ Head(eq) = "ack" /\ eq' = Tail(eq) /\ eout = <<>> /\ SendNextRegister
        /\ UNCHANGED <<eSend, toClient, hand, cRecv, user, cSend, toCar, extra, key>>
    BY <1>9 DEF CarAck
  <2>2. AtManager = AtManager' + 1 /\ AtManager' \in Nat
    BY <2>1, Queues, Acks1 DEF AtManager
  <2>9. /\ AtSend' = AtSend /\ OnWayOut' = OnWayOut /\ InHand' = InHand
        /\ AtRecv' = AtRecv /\ Acking' = Acking /\ AtClient' = AtClient
        /\ OnWayBack' = OnWayBack /\ Allowance' = Allowance
    BY <2>1, Alike
  <2>3. AtHandler = 0 /\ AtHandler' \in 0..1 /\ (AtHandler' = 1 \/ Complete')
    BY <1>1, <1>2, <2>1
  <2> QED
    BY ONLY TypeOK, <2>2, <2>3, <2>9, Sum, Numbers, SMTT(30)
<1>10. CASE CarSet
  <2>1. UNCHANGED <<eSend, toClient, hand, cRecv, user, cSend, toCar, key>>
        /\ eout = <<>> /\ AtManager' = AtManager
    BY <1>3, <1>10 DEF CarSet
  <2>2. CASE eout' = <<"setAck">> /\ extra' = extra
    <3>1. AtHandler' = 0
      BY <2>2, Counted, Zenon DEF AtHandler
    <3>2. Outstanding' = Outstanding /\ Allowance' = Allowance
      BY <1>2, <2>1, <2>2, <3>1, Sum, Alike
    <3> QED
      BY <1>0, <3>2
  <2>3. CASE eout' = <<"setAck", "update", "update">> /\ extra' = extra + 2
    <3>1. AtHandler' = 2
      BY <2>3, Counted, Zenon DEF AtHandler
    <3>2. Allowance' = Allowance + 2
      BY <2>1, <2>3 DEF Allowance, TypeOK
    <3>9. /\ AtSend' = AtSend /\ OnWayOut' = OnWayOut /\ InHand' = InHand
          /\ AtRecv' = AtRecv /\ Acking' = Acking /\ AtClient' = AtClient
          /\ OnWayBack' = OnWayBack
      BY <2>1, Alike
    <3> QED
      <4>1. AtHandler = 0 /\ AtManager' = AtManager /\ extra' = extra + 2
        BY <1>2, <2>1, <2>3
      <4> QED
        BY ONLY TypeOK, <3>1, <3>2, <3>9, <4>1, Sum, Numbers, SMTT(30)
  <2> QED
    BY <1>10, <2>2, <2>3, Zenon DEF CarSet
<1>11. CASE CarUpdate
  <2>1. eSend' = Append(eSend, "update") /\ extra' = extra + 1 /\ "update" \in ToClient
        /\ UNCHANGED <<eout, toClient, hand, cRecv, user, cSend, toCar, eq, key>>
    BY <1>11 DEF CarUpdate, ToClient
  <2>2. AtSend' = AtSend + 1
    BY <2>1, Queues, Registers1 DEF AtSend, Updates
  <2>3. Allowance' = Allowance + 1
    BY <2>1 DEF Allowance, TypeOK
  <2>9. /\ AtHandler' = AtHandler /\ OnWayOut' = OnWayOut /\ InHand' = InHand
        /\ AtRecv' = AtRecv /\ Acking' = Acking /\ AtClient' = AtClient
        /\ OnWayBack' = OnWayBack /\ AtManager' = AtManager
    BY <2>1, Alike
  <2> QED
    BY ONLY TypeOK, <2>2, <2>3, <2>9, Sum, Numbers, SMTT(30)
<1> QED
  BY <1>4, <1>5, <1>6, <1>7, <1>8, <1>9, <1>10, <1>11 DEF Car

LEMMA Balance ==
  ASSUME Outstanding \in Nat, Allowance \in Nat, Outstanding' \in Nat, Allowance' \in Nat
  PROVE  /\ /\ Outstanding' + Allowance <= Outstanding + Allowance'
            /\ Outstanding <= Allowance
            => Outstanding' <= Allowance'
         /\ /\ Outstanding' + Allowance = Outstanding + Allowance'
            /\ Outstanding = Allowance
            => Outstanding' = Allowance'
<1> DEFINE n == Outstanding
           m == Allowance
           p == Outstanding'
           q == Allowance'
<1>1. n \in Nat /\ m \in Nat /\ p \in Nat /\ q \in Nat
  OBVIOUS
<1> HIDE DEF n, m, p, q
<1>2. p + m <= n + q /\ n <= m => p <= q
  BY ONLY <1>1
<1>3. p + m = n + q /\ n = m => p = q
  BY ONLY <1>1
<1> QED
  BY <1>2, <1>3 DEF n, m, p, q

\* What is out keeps to the allowance, and to all of it until the end.
LEMMA FlowStep ==
  ASSUME TypeOK, FlowInv, Client \/ SetRequest \/ Car \/ CarUpdate
  PROVE  FlowInv'
<1>1. /\ Outstanding \in Nat /\ Allowance \in Nat /\ Outstanding <= Allowance
      /\ ~dropped /\ ~Complete => Outstanding = Allowance
      /\ sender # NoSender => next = Registers
  BY TotalType DEF FlowInv
<1>2. CASE Client \/ SetRequest
  <2>1. UNCHANGED <<next, sender, dropped>>
    BY <1>2 DEF Client, SetRequest, Ping, ClientWrite, ClientRead, ClientRecv, ManagerReceive,
                ManagerRespond, ManagerSignal, UserStart, UserReceive, UserAck, car, history
  <2>2. Complete' = Complete
    BY <2>1 DEF Complete, NoSender
  <2>3. Outstanding' = Outstanding /\ Allowance' = Allowance
    BY <1>2, FlowClient
  <2> QED
    BY <1>1, <2>1, <2>2, <2>3 DEF FlowInv, NoSender
<1>3. CASE Car \/ CarUpdate
  <2>1. \/ UNCHANGED <<next, sender>>
        \/ SendNextRegister
    BY <1>3 DEF Car, CarRead, CarWrite, CarSend, CarPing, CarStartResp, CarAck, CarSet,
                CarUpdate
  <2>2. SendNextRegister => /\ sender' # NoSender => next' = Registers
                            /\ Complete => Complete'
    <3>1. Settings \in Nat /\ next \in Nat /\ sender \in Nat
      BY BoundAssumption DEF TypeOK, NoSender
    <3>2. SendNextRegister /\ sender' # NoSender => next' = Registers
      BY <1>1, <3>1 DEF SendNextRegister, NoSender
    <3>3. SendNextRegister /\ Complete => Complete'
      BY <3>1 DEF SendNextRegister, Complete, NoSender
    <3> QED
      BY <3>2, <3>3
  <2>3. /\ sender' # NoSender => next' = Registers
        /\ Complete => Complete'
    BY <1>1, <2>1, <2>2 DEF Complete
  <2>4. dropped => dropped'
    BY <1>3 DEF Car, CarRead, CarWrite, CarSend, CarPing, CarStartResp, CarAck, CarSet,
                CarUpdate, history, TypeOK
  <2>5. /\ Outstanding' + Allowance <= Outstanding + Allowance'
        /\ \/ Outstanding' + Allowance = Outstanding + Allowance'
           \/ dropped' \/ Complete'
    BY <1>1, <1>3, FlowCar
  <2>6. Outstanding' \in Nat /\ Allowance' \in Nat
    <3>1. TypeOK'
      BY <1>3, TypeCar
    <3> QED
      BY <3>1, Primed
  <2>7. Outstanding' <= Allowance'
    <3>1. /\ Outstanding \in Nat /\ Allowance \in Nat /\ Outstanding <= Allowance
          /\ Outstanding' + Allowance <= Outstanding + Allowance'
      BY <1>1, <2>5
    <3> QED
      BY <2>6, <3>1, Balance
  <2>8. ASSUME ~dropped', ~Complete' PROVE Outstanding' = Allowance'
    <3>1. Outstanding = Allowance /\ Outstanding' + Allowance = Outstanding + Allowance'
      BY <1>1, <2>3, <2>4, <2>5, <2>8
    <3> QED
      BY <1>1, <2>6, <3>1, Balance
  <2> QED
    BY <2>3, <2>7, <2>8 DEF FlowInv, NoSender
<1> QED
  BY <1>2, <1>3

-----------------------------------------------------------------------------
(* The order of start response and acks.                                   *)

\* An entry moves from the head of one queue to the end of the next.
LEMMA Move ==
  ASSUME NEW q \in Seq(ToCar), NEW p \in Seq(ToCar), q # <<>>
  PROVE  /\ Has(Append(p, Head(q)), "startResp") \/ Has(Tail(q), "startResp")
              <=> Has(p, "startResp") \/ Has(q, "startResp")
         /\ Has(p, "startResp") => Has(Append(p, Head(q)), "startResp")
         /\ Has(p, "startResp") \/ Led(q) =>
              (Led(p) => Led(Append(p, Head(q))))
         /\ Has(p, "startResp") \/ Led(q) =>
              Has(Append(p, Head(q)), "startResp") \/ Led(Tail(q))
<1>1. Head(q) \in ToCar
  OBVIOUS
<1>2. /\ Has(Append(p, Head(q)), "startResp") <=> Has(p, "startResp") \/ Head(q) = "startResp"
      /\ Has(Tail(q), "startResp") => Has(q, "startResp")
      /\ Has(q, "startResp") /\ Head(q) # "startResp" => Has(Tail(q), "startResp")
      /\ Head(q) = "startResp" => Has(q, "startResp")
  BY <1>1, HasAppend, HasTail
<1>3. ASSUME Has(p, "startResp") \/ Led(q), Led(p) PROVE Led(Append(p, Head(q)))
  <2>1. Head(q) # "ack" \/ Has(p, "startResp")
    BY <1>3, LedTail
  <2> QED
    BY <1>1, <1>3, <2>1, LedAppend
<1>4. ASSUME Has(p, "startResp") \/ Led(q)
      PROVE  Has(Append(p, Head(q)), "startResp") \/ Led(Tail(q))
  BY <1>2, <1>4, LedTail
<1> QED
  BY <1>2, <1>3, <1>4

LEMMA EarlyInit == Init => Early
<1> SUFFICES ASSUME Init PROVE Early
  OBVIOUS
<1>1. \A x : ~Has(<<>>, x)
  BY DEF Has
<1>2. Led(<<>>)
  BY DEF Led
<1> QED
  BY <1>1, <1>2 DEF Init, Early, Dumped, Answered, Unasked, None

LEMMA EarlyClient ==
  ASSUME TypeOK, key # "Accepted", Early, Client \/ SetRequest
  PROVE  Early'
<1> USE DEF pipes, car, history, ClientSend
<1>1. /\ Led(eq) /\ (Has(eq, "startResp") \/ Led(toCar))
      /\ (Has(eq, "startResp") \/ Has(toCar, "startResp") \/ Led(cSend)) /\ ~Dumped
  BY DEF Early
<1>2. \/ user # "start" \/ started \/ mpc = "signal"
      => Has(eq, "startResp") \/ Has(toCar, "startResp") \/ Has(cSend, "startResp")
  BY DEF Early, Answered
<1>3. key = "Empty" => Unasked /\ user = "start" /\ ~started
  BY DEF Early, Unasked
<1>4. UNCHANGED <<eq, eout, eSend, key, next, sender>> /\ ~Dumped'
  <2>1. UNCHANGED <<eq, eout, eSend, key, next, sender>>
    BY DEF Client, SetRequest, Ping, ClientWrite, ClientRead, ClientRecv, ManagerReceive,
           ManagerRespond, ManagerSignal, UserStart, UserReceive, UserAck
  <2> QED
    BY <1>1, <2>1 DEF Dumped
\* Something is appended to Send that is no ack, or an ack behind the response.
<1>5. ASSUME NEW m \in ToCar, cSend' = Append(cSend, m), toCar' = toCar,
             m = "ack" => user = "ack"
      PROVE  /\ Has(eq, "startResp") \/ Has(toCar, "startResp") \/ Led(cSend')
             /\ Has(cSend', "startResp") <=> Has(cSend, "startResp") \/ m = "startResp"
  <2>1. Has(cSend', "startResp") <=> Has(cSend, "startResp") \/ m = "startResp"
    BY <1>5, Queues, HasAppend
  <2>2. CASE Led(cSend) /\ (m # "ack" \/ Has(cSend, "startResp"))
    BY <1>5, <2>1, <2>2, Queues, LedAppend
  <2>3. CASE ~Led(cSend) \/ (m = "ack" /\ ~Has(cSend, "startResp"))
    BY <1>1, <1>2, <1>5, <2>1, <2>3
  <2> QED
    BY <2>1, <2>2, <2>3
<1>6. CASE Ping \/ SetRequest
  <2>1. PICK m \in {"ping", "set", "setTime"} : cSend' = Append(cSend, m)
    BY <1>6 DEF Ping, SetRequest
  <2>2. m \in ToCar /\ m # "ack" /\ m # "startResp"
    BY DEF ToCar
  <2>3. UNCHANGED <<toCar, toClient, hand, mq, mpc, started, user>>
    BY <1>6 DEF Ping, SetRequest
  <2>4. /\ Has(eq, "startResp") \/ Has(toCar, "startResp") \/ Led(cSend')
        /\ Has(cSend', "startResp") <=> Has(cSend, "startResp")
    BY <1>5, <2>1, <2>2, <2>3
  <2> QED
    BY <1>1, <1>2, <1>3, <1>4, <2>3, <2>4 DEF Early, Answered, Unasked
<1>7. CASE ClientWrite
  <2>1. /\ cSend # <<>> /\ cSend' = Tail(cSend) /\ toCar' = Append(toCar, Head(cSend))
        /\ UNCHANGED <<toClient, hand, mq, mpc, started, user>>
    BY <1>7 DEF ClientWrite
  <2>2. /\ Has(toCar', "startResp") \/ Has(cSend', "startResp")
             <=> Has(toCar, "startResp") \/ Has(cSend, "startResp")
        /\ Has(eq, "startResp") \/ Led(toCar')
        /\ Has(eq, "startResp") \/ Has(toCar', "startResp") \/ Led(cSend')
    BY <1>1, <2>1, Queues, Move
  <2> QED
    BY <1>1, <1>2, <1>3, <1>4, <2>1, <2>2 DEF Early, Answered, Unasked
<1>8. CASE ClientRead
  <2>1. /\ toClient # <<>> /\ hand' = Head(toClient) /\ toClient' = Tail(toClient)
        /\ mq' = Append(mq, Head(toClient)) \/ mq' = mq
        /\ UNCHANGED <<cSend, mpc, started, user, toCar>>
    BY <1>8 DEF ClientRead
  <2>2. Unasked => Unasked'
    <3> SUFFICES ASSUME Unasked PROVE Unasked'
      OBVIOUS
    <3>1. Head(toClient) # "startReq" /\ ~Has(toClient', "startReq")
      BY <2>1, Queues, HasTail DEF Unasked
    <3>2. ~Has(mq', "startReq")
      <4>1. Head(toClient) \in ToClient
        BY <2>1, Queues
      <4> QED
        <5>1. mq \in Seq(ToClient) /\ ~Has(mq, "startReq")
          BY Queues DEF Unasked
        <5>2. ~Has(Append(mq, Head(toClient)), "startReq")
          BY ONLY <3>1, <4>1, <5>1, HasAppend
        <5> QED
          BY <2>1, <5>1, <5>2
    <3> QED
      BY <1>4, <2>1, <3>1, <3>2 DEF Unasked, Answered
  <2> QED
    BY <1>1, <1>2, <1>3, <1>4, <2>1, <2>2 DEF Early, Answered
<1>9. CASE ClientRecv
  <2>1. hand' = None /\ UNCHANGED <<cSend, mq, mpc, started, user, toCar, toClient>>
    BY <1>9 DEF ClientRecv
  <2> QED
    BY <1>1, <1>2, <1>3, <1>4, <2>1 DEF Early, Answered, Unasked, None
<1>10. CASE ManagerReceive
  <2>1. /\ mpc = "loop" /\ mq # <<>> /\ mq' = Tail(mq) /\ mpc' # "signal"
        /\ Head(mq) # "startReq" => mpc' = "loop"
        /\ UNCHANGED <<cSend, hand, started, user, toCar, toClient>>
    BY <1>10 DEF ManagerReceive
  <2>2. Unasked => mpc' = "loop" /\ ~Has(mq', "startReq")
    BY <2>1, Queues, HasTail DEF Unasked
  <2> QED
    BY <1>1, <1>2, <1>3, <1>4, <2>1, <2>2 DEF Early, Answered, Unasked
<1>11. CASE ManagerRespond
  <2>1. /\ mpc = "respond" /\ cSend' = Append(cSend, "startResp")
        /\ UNCHANGED <<hand, mq, started, user, toCar, toClient>>
    BY <1>11 DEF ManagerRespond
  <2>2. key # "Empty"
    BY <1>3, <2>1 DEF Unasked
  <2>3. /\ Has(eq, "startResp") \/ Has(toCar, "startResp") \/ Led(cSend')
        /\ Has(cSend', "startResp")
    BY <1>5, <2>1 DEF ToCar
  <2> QED
    BY <1>1, <1>4, <2>1, <2>2, <2>3 DEF Early, Answered
<1>12. CASE ManagerSignal
  <2>1. /\ mpc = "signal" /\ UNCHANGED <<cSend, hand, mq, user, toCar, toClient>>
    BY <1>12 DEF ManagerSignal
  <2>2. key # "Empty"
    BY <1>3, <2>1 DEF Unasked
  <2> QED
    BY <1>1, <1>2, <1>4, <2>1, <2>2 DEF Early, Answered
<1>13. CASE UserStart \/ UserReceive
  <2>1. /\ user # "start" \/ started
        /\ UNCHANGED <<cSend, hand, mq, mpc, toCar, toClient>>
    BY <1>13 DEF UserStart, UserReceive
  <2>2. key # "Empty"
    BY <1>3, <2>1
  <2> QED
    BY <1>1, <1>2, <1>4, <2>1, <2>2 DEF Early, Answered
<1>14. CASE UserAck
  <2>1. /\ user = "ack" /\ cSend' = Append(cSend, "ack") /\ "ack" \in ToCar
        /\ UNCHANGED <<hand, mq, mpc, started, toCar, toClient>>
    BY <1>14 DEF UserAck, ToCar
  <2>2. key # "Empty"
    BY <1>3, <2>1
  <2>3. /\ Has(eq, "startResp") \/ Has(toCar, "startResp") \/ Led(cSend')
        /\ Has(cSend', "startResp") <=> Has(cSend, "startResp")
    BY <1>5, <2>1
  <2> QED
    BY <1>1, <1>2, <1>4, <2>1, <2>2, <2>3 DEF Early, Answered
<1> QED
  BY <1>6, <1>7, <1>8, <1>9, <1>10, <1>11, <1>12, <1>13, <1>14 DEF Client

LEMMA EarlyCar ==
  ASSUME TypeOK, key # "Accepted", Early, Car \/ CarUpdate,
         key' # "Accepted", ~dropped'
  PROVE  Early'
<1> USE DEF client, pipes, history, Taken
<1>1. /\ Led(eq) /\ (Has(eq, "startResp") \/ Led(toCar))
      /\ (Has(eq, "startResp") \/ Has(toCar, "startResp") \/ Led(cSend)) /\ ~Dumped
  BY DEF Early
<1>2. \/ user # "start" \/ started \/ mpc = "signal"
      => Has(eq, "startResp") \/ Has(toCar, "startResp") \/ Has(cSend, "startResp")
  BY DEF Early, Answered
<1>3. key = "Empty" => Unasked
  BY DEF Early
<1>4. UNCHANGED <<cSend, cRecv, hand, mq, mpc, started, user>>
  BY DEF Car, CarRead, CarWrite, CarSend, CarPing, CarStartResp, CarAck, CarSet, CarUpdate
\* A message other than start response and ack is taken.
<1>5. ASSUME NEW m, Taken(m), m # "startResp", UNCHANGED <<toCar, next, sender>>
      PROVE  /\ Led(eq') /\ (Has(eq', "startResp") \/ Led(toCar'))
             /\ (Has(eq', "startResp") \/ Has(toCar', "startResp") \/ Led(cSend')) /\ ~Dumped'
             /\ Has(eq', "startResp") <=> Has(eq, "startResp")
  <2>1. eq # <<>> /\ Head(eq) # "startResp" /\ eq' = Tail(eq)
    BY <1>5
  <2>2. Led(eq') /\ (Has(eq', "startResp") <=> Has(eq, "startResp"))
    BY <1>1, <2>1, Queues, HasTail, LedTail
  <2> QED
    BY <1>1, <1>4, <1>5, <2>2 DEF Dumped
<1>6. CASE CarRead
  <2>1. /\ toCar # <<>> /\ toCar' = Tail(toCar)
        /\ UNCHANGED <<toClient, eout, eSend, key, next, sender>>
    BY <1>6 DEF CarRead
  <2>2. /\ Led(eq') /\ (Has(eq', "startResp") \/ Led(toCar'))
        /\ Has(eq, "startResp") => Has(eq', "startResp")
        /\ Has(eq', "startResp") \/ Has(toCar', "startResp")
             <=> Has(eq, "startResp") \/ Has(toCar, "startResp")
    <3>1. CASE eq' = Append(eq, Head(toCar))
      BY <1>1, <2>1, <3>1, Queues, Move
    <3>2. CASE eq' = eq /\ Head(toCar) # "startResp"
      BY <1>1, <2>1, <3>2, Queues, HasTail, LedTail
    <3>3. \/ eq' = Append(eq, Head(toCar))
          \/ eq' = eq /\ Head(toCar) # "startResp"
      BY <1>6 DEF CarRead
    <3> QED
      BY <3>1, <3>2, <3>3
  <2>3. ~Dumped'
    BY <1>1, <2>1 DEF Dumped
  <2> QED
    BY <1>1, <1>2, <1>3, <1>4, <2>1, <2>2, <2>3 DEF Early, Answered, Unasked
<1>7. CASE CarWrite
  <2>1. /\ eSend # <<>> /\ eSend' = Tail(eSend) /\ toClient' = Append(toClient, Head(eSend))
        /\ UNCHANGED <<toCar, eq, eout, key, next, sender>>
    BY <1>7 DEF CarWrite
  <2>2. ~Has(eSend, "startReq") /\ ~Has(toClient, "startReq") =>
          ~Has(eSend', "startReq") /\ ~Has(toClient', "startReq")
    BY <2>1, Queues, HasTail, HasAppend, HeadTailProperties
  <2> QED
    BY <1>1, <1>2, <1>3, <1>4, <2>1, <2>2 DEF Early, Answered, Unasked, Dumped
<1>8. CASE CarSend
  <2>1. /\ eout # <<>> /\ eout' = Tail(eout) /\ eSend' = Append(eSend, Head(eout))
        /\ UNCHANGED <<toClient, toCar, eq, key, next, sender>>
    BY <1>8 DEF CarSend
  <2>2. ~Has(eout, "startReq") /\ ~Has(eSend, "startReq") =>
          ~Has(eout', "startReq") /\ ~Has(eSend', "startReq")
    BY <2>1, Queues, HasTail, HasAppend, HeadTailProperties
  <2> QED
    BY <1>1, <1>2, <1>3, <1>4, <2>1, <2>2 DEF Early, Answered, Unasked, Dumped
<1>9. CASE CarPing
  <2>1. Taken("ping") /\ UNCHANGED <<toCar, toClient, eSend, next, sender>>
    BY <1>9 DEF CarPing
  <2>2. key' = "Empty" => key = "Empty" /\ eout' = <<"pingResp">>
    BY <1>9 DEF CarPing
  <2>3. ~Has(<<"pingResp">>, "startReq")
    BY DEF Has
  <2> QED
    BY <1>2, <1>3, <1>4, <1>5, <2>1, <2>2, <2>3 DEF Early, Answered, Unasked
<1>10. CASE CarStartResp
  <2>1. Taken("startResp")
    BY <1>10 DEF CarStartResp
  <2>2. Has(eq, "startResp")
    BY <2>1, Queues, HasTail
  <2>3. key = "Proposed"
    BY <1>3, <2>2 DEF Unasked, Answered, TypeOK
  <2> QED
    BY <1>10, <2>3 DEF CarStartResp
<1>11. CASE CarAck
  <2>1. eq # <<>> /\ Head(eq) = "ack"
    BY <1>11 DEF CarAck
  <2> QED
    BY <1>1, <2>1, Queues, LedTail
<1>12. CASE CarSet
  <2>1. \/ Taken("set") /\ eout' = <<"setAck">>
        \/ Taken("setTime") /\ eout' = <<"setAck", "update", "update">>
    BY <1>12, Zenon DEF CarSet
  <2>2. UNCHANGED <<toCar, toClient, eSend, key, next, sender>>
    BY <1>12 DEF CarSet
  <2>3. ~Has(eout', "startReq")
    BY <2>1 DEF Has
  <2> QED
    BY <1>2, <1>3, <1>4, <1>5, <2>1, <2>2, <2>3 DEF Early, Answered, Unasked
<1>13. CASE CarUpdate
  <2>1. /\ eSend' = Append(eSend, "update") /\ "update" \in ToClient
        /\ UNCHANGED <<toCar, toClient, eq, eout, key, next, sender>>
    BY <1>13 DEF CarUpdate, ToClient
  <2>2. ~Has(eSend, "startReq") => ~Has(eSend', "startReq")
    BY <2>1, Queues, HasAppend
  <2> QED
    BY <1>1, <1>2, <1>3, <1>4, <2>1, <2>2 DEF Early, Answered, Unasked, Dumped
<1> QED
  BY <1>6, <1>7, <1>8, <1>9, <1>10, <1>11, <1>12, <1>13 DEF Car

-----------------------------------------------------------------------------
(* The theorems.                                                           *)

LEMMA SessionInit == Init => SessionInv
  BY TypeInit, FlowInit, EarlyInit DEF SessionInv

LEMMA SessionStep == SessionInv /\ [Next]_vars => SessionInv'
<1> SUFFICES ASSUME SessionInv, [Next]_vars PROVE SessionInv'
  OBVIOUS
<1>1. CASE UNCHANGED vars
  BY <1>1 DEF vars, client, pipes, car, history, SessionInv, TypeOK, FlowInv, Outstanding,
              Allowance, Complete, NoSender, Early, Answered, Unasked, Dumped
<1>2. CASE Client \/ SetRequest
  <2>1. TypeOK' /\ FlowInv'
    BY <1>2, TypeClient, FlowStep DEF SessionInv
  <2>2. key' = key /\ dropped' = dropped
    BY <1>2 DEF Client, SetRequest, Ping, ClientWrite, ClientRead, ClientRecv, ManagerReceive,
                ManagerRespond, ManagerSignal, UserStart, UserReceive, UserAck, car, history
  <2> QED
    BY <1>2, <2>1, <2>2, EarlyClient DEF SessionInv
<1>3. CASE Car \/ CarUpdate
  <2>1. TypeOK' /\ FlowInv'
    BY <1>3, TypeCar, FlowStep DEF SessionInv
  <2>2. dropped => dropped'
    BY <1>3 DEF Car, CarRead, CarWrite, CarSend, CarPing, CarStartResp, CarAck, CarSet,
                CarUpdate, history, SessionInv, TypeOK
  <2>3. key = "Accepted" => key' = "Accepted"
    BY <1>3 DEF Car, CarRead, CarWrite, CarSend, CarPing, CarStartResp, CarAck, CarSet,
                CarUpdate
  <2> QED
    BY <1>3, <2>1, <2>2, <2>3, EarlyCar DEF SessionInv
<1> QED
  BY <1>1, <1>2, <1>3 DEF Next

LEMMA SessionAlways == Spec => []SessionInv
  BY SessionInit, SessionStep, PTL DEF Spec

\* Every queue of both sides keeps to its capacity, and the car's two indices
\* stay within its registers and settings, in any interleaving.
THEOREM TypeCorrect == Spec => []TypeOK
  BY SessionAlways, PTL DEF SessionInv

\* Stop and wait: over all the queues of both sides the car has never more than
\* one register of the sequence out, besides those sent apart from it, although
\* sendNextRegister is called from two handlers and listeners lose frames.
THEOREM StopAndWait == Spec => []FlowControl
<1>1. SessionInv => FlowControl
  <2> SUFFICES ASSUME SessionInv PROVE FlowControl
    OBVIOUS
  <2>1. extra \in Nat /\ Outstanding \in Nat /\ Outstanding <= Allowance
    BY TotalType DEF SessionInv, TypeOK, FlowInv
  <2> QED
    BY <2>1 DEF Allowance, FlowControl
<1> QED
  BY <1>1, SessionAlways, PTL

\* The register sequence cannot stall: from the acceptance of the key to its end
\* exactly one register or ack of it is under way, through all queues and
\* handlers of both sides, unless the car's listener has lost an ack.
THEOREM Unstalled == Spec => []NeverStalls
<1>1. SessionInv => NeverStalls
  <2> SUFFICES ASSUME SessionInv, key = "Accepted", ~dropped, ~Complete
               PROVE  Outstanding = 1 + extra
    BY DEF NeverStalls
  <2>1. extra \in Nat /\ Outstanding = Allowance
    BY DEF SessionInv, TypeOK, FlowInv
  <2> QED
    BY <2>1 DEF Allowance
<1> QED
  BY <1>1, SessionAlways, PTL

\* No register of the sequence is sent before the car has accepted the key: acks
\* cannot overtake the start response on their way through Send, the network and
\* the listener, unless the listener has lost it.
THEOREM KeyFirst == Spec => []DumpNeedsKey
<1>1. SessionInv => DumpNeedsKey
  BY DEF SessionInv, DumpNeedsKey, Early
<1> QED
  BY <1>1, SessionAlways, PTL

=============================================================================
