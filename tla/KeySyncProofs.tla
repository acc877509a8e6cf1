---------------------------- MODULE KeySyncProofs ----------------------------
(***************************************************************************)
(* Proofs about KeySync, for key maps of any size, any number of proposals *)
(* and queues of any capacity.  The invariant SyncInv is inductive: it     *)
(* follows the one exchange that can be under way from the proposal to the *)
(* response and its acceptance, and says at each station which map is in   *)
(* use on each side and what the client's index counts.                    *)
(***************************************************************************)
EXTENDS KeySync, KeyMap, CountingProofs

-----------------------------------------------------------------------------
(* Arithmetic on a byte.                                                   *)

\* A number modulo KeyLen does not change with KeyLen.
LEMMA ModShift ==
  ASSUME NEW x \in Int
  PROVE  (x + KeyLen) % KeyLen = x % KeyLen /\ (x - KeyLen) % KeyLen = x % KeyLen
<1> DEFINE q == x \div KeyLen
           r == x % KeyLen
<1>1. KeyLen \in Nat \ {0}
  BY BoundAssumption
<1>2. q \in Int /\ r \in 0..(KeyLen - 1) /\ r = x - KeyLen * q
  BY <1>1, SMT
<1>3. \A a \in Int : \A s \in 0..(KeyLen - 1) : (a * KeyLen + s) % KeyLen = s
  BY <1>1, SMT
<1> HIDE DEF q, r
<1>4. x + KeyLen = (q + 1) * KeyLen + r /\ x - KeyLen = (q - 1) * KeyLen + r
  BY <1>1, <1>2, SMT
<1>5. ((q + 1) * KeyLen + r) % KeyLen = r /\ ((q - 1) * KeyLen + r) % KeyLen = r
  BY <1>2, <1>3
<1> QED
  BY <1>4, <1>5 DEF r

\* The successor of an index is an index, one more or one round less.
LEMMA SuccIs ==
  ASSUME NEW n \in Index
  PROVE  Succ(n) \in Index /\ (Succ(n) = n + 1 \/ Succ(n) = n + 1 - KeyLen)
<1>1. KeyLen \in Nat \ {0} /\ n \in 0..(KeyLen - 1)
  BY BoundAssumption DEF Index
<1>2. CASE n + 1 < KeyLen
  BY <1>1, <1>2, SMT DEF Succ, Index
<1>3. CASE n + 1 = KeyLen
  <2>1. \A k \in Nat \ {0} : (1 * k + 0) % k = 0
    BY SMT
  <2>2. \A k \in Nat \ {0} : 1 * k + 0 = k
    BY SMT
  <2>3. KeyLen % KeyLen = 0
    BY <1>1, <2>1, <2>2
  <2>4. Succ(n) = 0
    BY <1>3, <2>3 DEF Succ
  <2> QED
    BY <1>1, <1>3, <2>4 DEF Index
<1> QED
  BY <1>1, <1>2, <1>3

\* A count and its successor differ by one, as far as a byte can tell.
LEMMA SuccMod ==
  ASSUME NEW n \in Index, NEW x \in Int
  PROVE  /\ (x + Succ(n)) % KeyLen = (x + n + 1) % KeyLen
         /\ (x - Succ(n)) % KeyLen = (x - n - 1) % KeyLen
<1>1. n \in Int /\ KeyLen \in Int
  BY BoundAssumption DEF Index
<1>2. CASE Succ(n) = n + 1
  <2>1. x + Succ(n) = x + n + 1 /\ x - Succ(n) = x - n - 1
    BY <1>1, <1>2
  <2> QED
    BY <2>1
<1>3. CASE Succ(n) = n + 1 - KeyLen
  <2>1. x + Succ(n) = (x + n + 1) - KeyLen /\ x - Succ(n) = (x - n - 1) + KeyLen
    BY <1>1, <1>3
  <2>2. (x + n + 1) \in Int /\ (x - n - 1) \in Int
    BY <1>1
  <2> QED
    BY <2>1, <2>2, ModShift
<1> QED
  BY <1>2, <1>3, SuccIs

-----------------------------------------------------------------------------
(* The one exchange.                                                       *)

\* The numbers that OneExchange adds up.
LEMMA Numbers ==
  ASSUME TypeOK
  PROVE  /\ Len(proposals) \in Nat /\ (proposals = <<>> <=> Len(proposals) = 0)
         /\ asked \in Nat
         /\ Count(sendQ, {"resp"}) \in Nat
         /\ Count(sendQ, {"resp"}) = 0 => \A i \in DOMAIN sendQ : sendQ[i] # "resp"
         /\ Count(pipe, Responses) \in Nat
         /\ Count(pipe, Responses) = 0 => \A i \in DOMAIN pipe : pipe[i].type # "resp"
         /\ Count(pipe, Moved) \in Nat
<1>1. proposals \in Seq(1..MaxGen) /\ sendQ \in Seq(Queued) /\ pipe \in Seq(Frames)
      /\ asked \in Nat
  BY BoundAssumption DEF TypeOK
<1>2. Len(proposals) \in Nat /\ (proposals = <<>> <=> Len(proposals) = 0)
  BY <1>1, EmptySeq
<1>3. Count(sendQ, {"resp"}) \in Nat /\ Count(pipe, Responses) \in Nat
      /\ Count(pipe, Moved) \in Nat
  BY <1>1, CountType
<1>4. Count(sendQ, {"resp"}) = 0 => \A i \in DOMAIN sendQ : sendQ[i] # "resp"
  BY <1>1, <1>3, CountType
<1>5. Count(pipe, Responses) = 0 => \A i \in DOMAIN pipe : pipe[i].type # "resp"
  <2>1. Count(pipe, Responses) = 0 => \A i \in DOMAIN pipe : pipe[i] \notin Responses
    BY <1>1, <1>3, CountType
  <2>2. \A i \in DOMAIN pipe : pipe[i] \in Frames
    BY <1>1
  <2> QED
    BY <2>1, <2>2 DEF Responses
<1> QED
  BY <1>1, <1>2, <1>3, <1>4, <1>5

\* The places a proposal can be in that OneExchange counts, besides asked, heard
\* and called.
Proposed   == Len(proposals)
InUpdate   == Bit(rpc # "read")
Answered   == Count(sendQ, {"resp"})
InWriter   == Bit(wpc = "put" /\ wmsg = "resp")
OnTheWire  == Count(pipe, Responses)
InAccept   == Bit(cmpc = "reset")
Pending    == Bit(pending # 0)

LEMMA OneExchangeIs ==
  OneExchange <=> Proposed + InUpdate + asked + Answered + InWriter + OnTheWire
                    + heard + called + InAccept <= Pending
  BY DEF OneExchange, Proposed, InUpdate, Answered, InWriter, OnTheWire, InAccept, Pending

LEMMA OneExchangeNext ==
  OneExchange' <=> Proposed' + InUpdate' + asked' + Answered' + InWriter' + OnTheWire'
                     + heard' + called' + InAccept' <= Pending'
  BY DEF OneExchange, Proposed, InUpdate, Answered, InWriter, OnTheWire, InAccept, Pending

\* At most one of these numbers is not zero, and only if a proposal is pending.
LEMMA Stations ==
  ASSUME TypeOK
  PROVE  /\ Proposed \in Nat /\ (proposals = <<>> <=> Proposed = 0)
         /\ InUpdate \in 0..1 /\ (rpc = "read" <=> InUpdate = 0)
         /\ asked \in Nat /\ Answered \in Nat /\ OnTheWire \in Nat
         /\ InWriter \in 0..1 /\ (wpc = "put" /\ wmsg = "resp" <=> InWriter # 0)
         /\ heard \in 0..1 /\ called \in 0..1
         /\ InAccept \in 0..1 /\ (cmpc = "reset" <=> InAccept # 0)
         /\ Pending \in 0..1 /\ (pending = 0 <=> Pending = 0)
<1>1. /\ Proposed \in Nat /\ (proposals = <<>> <=> Proposed = 0)
      /\ asked \in Nat /\ Answered \in Nat /\ OnTheWire \in Nat
  BY Numbers DEF Proposed, Answered, OnTheWire
<1>2. heard \in 0..1 /\ called \in 0..1
  BY DEF TypeOK
<1>3. InUpdate \in 0..1 /\ (rpc = "read" <=> InUpdate = 0)
  BY DEF InUpdate, Bit
<1>4. InWriter \in 0..1 /\ (wpc = "put" /\ wmsg = "resp" <=> InWriter # 0)
  BY DEF InWriter, Bit
<1>5. InAccept \in 0..1 /\ (cmpc = "reset" <=> InAccept # 0)
  BY DEF InAccept, Bit
<1>6. Pending \in 0..1 /\ (pending = 0 <=> Pending = 0)
  BY DEF Pending, Bit
<1> QED
  BY <1>1, <1>2, <1>3, <1>4, <1>5, <1>6

\* Without a pending proposal there is no trace of one anywhere.
LEMMA Quiet ==
  ASSUME TypeOK, OneExchange, pending = 0
  PROVE  /\ proposals = <<>> /\ rpc = "read" /\ asked = 0
         /\ Count(sendQ, {"resp"}) = 0 /\ ~(wpc = "put" /\ wmsg = "resp")
         /\ Count(pipe, Responses) = 0 /\ ~Responded
<1>1. Proposed + InUpdate + asked + Answered + InWriter + OnTheWire + heard + called
        + InAccept <= 0
  BY OneExchangeIs, Stations
<1>2. /\ Proposed = 0 /\ InUpdate = 0 /\ asked = 0 /\ Answered = 0 /\ InWriter = 0
      /\ OnTheWire = 0 /\ heard = 0 /\ called = 0 /\ InAccept = 0
  BY <1>1, Stations
<1> QED
  BY <1>2, Stations DEF Responded, Answered, OnTheWire

\* A proposal that is found somewhere is pending, once, and nowhere else.
LEMMA Alone ==
  ASSUME TypeOK, OneExchange
  PROVE  /\ proposals # <<>> =>
              pending # 0 /\ rpc = "read" /\ asked = 0 /\ Len(proposals) = 1
                /\ Count(sendQ, {"resp"}) = 0 /\ ~(wpc = "put" /\ wmsg = "resp")
                /\ Count(pipe, Responses) = 0 /\ ~Responded
         /\ rpc # "read" =>
              pending # 0 /\ proposals = <<>> /\ asked = 0
                /\ Count(sendQ, {"resp"}) = 0 /\ ~(wpc = "put" /\ wmsg = "resp")
                /\ Count(pipe, Responses) = 0 /\ ~Responded
         /\ asked > 0 \/ Count(sendQ, {"resp"}) > 0 =>
              pending # 0 /\ proposals = <<>> /\ rpc = "read"
                /\ asked + Count(sendQ, {"resp"}) = 1
                /\ ~(wpc = "put" /\ wmsg = "resp") /\ Count(pipe, Responses) = 0
                /\ ~Responded
         /\ wpc = "put" /\ wmsg = "resp" =>
              pending # 0 /\ proposals = <<>> /\ rpc = "read" /\ asked = 0
                /\ Count(sendQ, {"resp"}) = 0 /\ Count(pipe, Responses) = 0
                /\ ~Responded
         /\ Count(pipe, Responses) > 0 =>
              pending # 0 /\ proposals = <<>> /\ rpc = "read" /\ asked = 0
                /\ Count(sendQ, {"resp"}) = 0 /\ ~(wpc = "put" /\ wmsg = "resp")
                /\ Count(pipe, Responses) = 1 /\ ~Responded
         /\ Responded =>
              pending # 0 /\ proposals = <<>> /\ rpc = "read" /\ asked = 0
                /\ Count(sendQ, {"resp"}) = 0 /\ ~(wpc = "put" /\ wmsg = "resp")
                /\ Count(pipe, Responses) = 0 /\ heard + called + Bit(cmpc = "reset") = 1
<1> DEFINE Sum == Proposed + InUpdate + asked + Answered + InWriter + OnTheWire + heard
                   + called + InAccept
<1>0. /\ Proposed \in Nat /\ InUpdate \in Nat /\ asked \in Nat /\ Answered \in Nat
      /\ InWriter \in Nat /\ OnTheWire \in Nat /\ heard \in Nat /\ called \in Nat
      /\ InAccept \in Nat
  BY Stations
<1>1. Sum <= 1 /\ (Sum > 0 => pending # 0)
  <2>1. Sum <= Pending
    BY OneExchangeIs
  <2>2. Sum \in Nat
    BY ONLY <1>0
  <2>3. (Pending = 0 \/ Pending = 1) /\ (pending = 0 <=> Pending = 0)
    BY Stations
  <2> HIDE DEF Sum
  <2> QED
    BY ONLY <2>1, <2>2, <2>3
<1>2. /\ Proposed # 0 => pending # 0 /\ Proposed = 1 /\ InUpdate = 0 /\ asked = 0
           /\ Answered = 0 /\ InWriter = 0 /\ OnTheWire = 0
           /\ heard = 0 /\ called = 0 /\ InAccept = 0
      /\ InUpdate # 0 => pending # 0 /\ Proposed = 0 /\ asked = 0
           /\ Answered = 0 /\ InWriter = 0 /\ OnTheWire = 0
           /\ heard = 0 /\ called = 0 /\ InAccept = 0
  BY ONLY <1>0, <1>1
<1>3. asked > 0 \/ Answered > 0 =>
        pending # 0 /\ asked + Answered = 1 /\ Proposed = 0 /\ InUpdate = 0
          /\ InWriter = 0 /\ OnTheWire = 0 /\ heard = 0 /\ called = 0 /\ InAccept = 0
  BY ONLY <1>0, <1>1
<1>4. /\ InWriter # 0 => pending # 0 /\ Proposed = 0 /\ InUpdate = 0 /\ asked = 0
           /\ Answered = 0 /\ OnTheWire = 0
           /\ heard = 0 /\ called = 0 /\ InAccept = 0
      /\ OnTheWire > 0 => pending # 0 /\ OnTheWire = 1 /\ Proposed = 0 /\ InUpdate = 0
           /\ asked = 0 /\ Answered = 0 /\ InWriter = 0
           /\ heard = 0 /\ called = 0 /\ InAccept = 0
  BY ONLY <1>0, <1>1
<1>5. heard > 0 \/ called > 0 \/ InAccept # 0 =>
        pending # 0 /\ Proposed = 0 /\ InUpdate = 0 /\ asked = 0 /\ Answered = 0
          /\ InWriter = 0 /\ OnTheWire = 0 /\ heard + called + InAccept = 1
  BY ONLY <1>0, <1>1
<1> HIDE DEF Sum
<1>6. Responded <=> heard > 0 \/ called > 0 \/ InAccept # 0
  <2>1. cmpc = "reset" <=> InAccept # 0
    BY Stations
  <2> QED
    BY ONLY <2>1 DEF Responded
<1>7. heard = 0 /\ called = 0 /\ InAccept = 0 => ~Responded
  BY <1>6
<1>8. /\ Proposed = Len(proposals) /\ Answered = Count(sendQ, {"resp"})
      /\ OnTheWire = Count(pipe, Responses) /\ InAccept = Bit(cmpc = "reset")
  BY DEF Proposed, Answered, OnTheWire, InAccept
<1> QED
  BY <1>2, <1>3, <1>4, <1>5, <1>6, <1>7, <1>8, Stations

\* The numbers after a step that leaves all of them alone but what is named.
LEMMA StationsSame ==
  /\ UNCHANGED proposals => Proposed' = Proposed
  /\ UNCHANGED rpc => InUpdate' = InUpdate
  /\ UNCHANGED sendQ => Answered' = Answered
  /\ UNCHANGED <<wpc, wmsg>> => InWriter' = InWriter
  /\ UNCHANGED pipe => OnTheWire' = OnTheWire
  /\ UNCHANGED cmpc => InAccept' = InAccept
  /\ UNCHANGED pending => Pending' = Pending
  BY DEF Proposed, InUpdate, Answered, InWriter, OnTheWire, InAccept, Pending

\* What no start response needs: none is under way.
LEMMA NoResponse ==
  ASSUME TypeOK, Count(pipe, Responses) = 0
  PROVE  \A r \in DOMAIN pipe : pipe[r].type # "resp"
  BY Numbers

-----------------------------------------------------------------------------
(* The invariant holds initially and is kept by every step.                *)

LEMMA SyncInit == Init => SyncInv
<1> SUFFICES ASSUME Init PROVE SyncInv
  OBVIOUS
<1> USE BoundAssumption DEF Init
<1>1. TypeOK
  <2>1. 0 \in Index /\ 0 \in Gens
    BY DEF Index, Gens
  <2>2. /\ proposals \in Seq(1..MaxGen) /\ sendQ \in Seq(Queued) /\ pipe \in Seq(Frames)
        /\ Len(sendQ) = 0 /\ Len(pipe) = 0
    BY EmptySeq
  <2>3. Len(sendQ) <= SendCap /\ Len(pipe) <= PipeCap /\ asked \in 0..MaxGen
        /\ inhand \in 0..PipeCap /\ heard \in 0..1 /\ called \in 0..1
    BY <2>2
  <2>4. cmap \in Gens \cup {Torn} /\ cnum \in Index /\ rgen \in Gens /\ wret \in Index
        /\ gen \in Gens /\ pending \in Gens /\ carmap \in Gens /\ carnum \in Index
        /\ cret \in Index
    BY <2>1
  <2>5. rpc \in {"read", "build", "reset", "deliver"} /\ wpc \in {"take", "store", "put"}
        /\ crpc \in {"decode", "store"} /\ cmpc \in {"wait", "reset"}
        /\ wmsg \in Queued /\ owed \in BOOLEAN /\ disturbed \in BOOLEAN /\ early \in BOOLEAN
    BY DEF Queued
  <2> QED
    BY <2>2, <2>3, <2>4, <2>5 DEF TypeOK
<1>2. Count(sendQ, {"resp"}) = 0 /\ Count(pipe, Responses) = 0 /\ Count(pipe, Moved) = 0
      /\ ~Responded /\ Len(pipe) = 0
  BY CountEmpty, EmptySeq DEF Responded
<1>3. OneExchange
  <2>1. Len(proposals) = 0
    BY EmptySeq
  <2> QED
    BY <1>2, <2>1 DEF OneExchange, Bit
<1>4. MapOf /\ MapsInPipe /\ OwedMeans /\ CountsAhead /\ CarCounts
  BY <1>2 DEF MapOf, MapsInPipe, OwedMeans, CountsAhead, CarCounts
<1>5. SyncUnlessDisturbed
  <2>1. Drift = 0 % KeyLen
    BY <1>2 DEF Drift, Held, Bit
  <2>2. \A k \in Nat \ {0} : 0 % k = 0
    BY SMT
  <2> QED
    BY <2>1, <2>2 DEF SyncUnlessDisturbed
<1>6. WriterHasRoom
  BY DEF WriterHasRoom
<1> QED
  BY <1>1, <1>3, <1>4, <1>5, <1>6 DEF SyncInv

\* What a step of the client's reader or senders leaves alone on the car's side.
LEMMA CarSame ==
  ASSUME SyncInv, UNCHANGED <<pipe, car, early>>
  PROVE  CarCounts' /\ (Responded' <=> Responded)
  BY DEF SyncInv, CarCounts, Responded, car, carReader, carManager

LEMMA ReaderBuildStep == SyncInv /\ ReaderBuild => SyncInv'
<1> SUFFICES ASSUME SyncInv, ReaderBuild PROVE SyncInv'
  OBVIOUS
<1> USE BoundAssumption DEF SyncInv, WriterHasRoom, ReaderBuild, writer, car, carReader,
                            carManager, history
<1>1. /\ proposals # <<>> /\ pending # 0 /\ asked = 0 /\ Count(sendQ, {"resp"}) = 0
      /\ ~(wpc = "put" /\ wmsg = "resp") /\ Count(pipe, Responses) = 0
      /\ Len(proposals) = 1 /\ heard = 0 /\ called = 0 /\ cmpc # "reset"
      /\ ~Responded /\ ~Responded'
  BY Alone DEF Responded, TypeOK
<1>2. /\ proposals \in Seq(1..MaxGen) /\ Tail(proposals) \in Seq(1..MaxGen)
      /\ Len(Tail(proposals)) = Len(proposals) - 1
      /\ Head(proposals) = gen /\ gen \in Gens
  BY <1>1 DEF TypeOK, MapOf
<1>3. Len(proposals') = 0 /\ proposals' = <<>>
  BY <1>1, <1>2
<1>4. TypeOK'
  BY <1>2 DEF TypeOK
<1>5. OneExchange'
  <2>1. Proposed' = 0 /\ InUpdate' = 1
    BY <1>3 DEF Proposed, InUpdate, Bit
  <2>2. asked' = 0 /\ heard' = 0 /\ called' = 0
    BY <1>1
  <2>3. Answered' = 0 /\ InWriter' = 0 /\ OnTheWire' = 0 /\ InAccept' = 0 /\ Pending' = 1
    BY <1>1 DEF Answered, InWriter, OnTheWire, InAccept, Pending, Bit
  <2> QED
    BY ONLY <2>1, <2>2, <2>3, OneExchangeNext
<1>6. MapOf' /\ MapsInPipe'
  BY <1>1, <1>2, <1>3 DEF MapOf, MapsInPipe
<1>7. OwedMeans' /\ CarCounts'
  BY <1>1, CarSame DEF OwedMeans, Torn
<1>8. ~owed /\ \A r \in DOMAIN pipe : pipe[r].type # "resp"
  BY <1>1, NoResponse DEF OwedMeans
<1>9. CountsAhead' /\ SyncUnlessDisturbed'
  BY <1>1, <1>8 DEF CountsAhead, SyncUnlessDisturbed, Settled
<1> QED
  BY <1>4, <1>5, <1>6, <1>7, <1>9

LEMMA ReaderBuiltStep == SyncInv /\ ReaderBuilt => SyncInv'
<1> SUFFICES ASSUME SyncInv, ReaderBuilt PROVE SyncInv'
  OBVIOUS
<1> USE BoundAssumption DEF SyncInv, WriterHasRoom, ReaderBuilt, writer, car, carReader,
                            carManager, history
<1>1. /\ proposals = <<>> /\ pending # 0 /\ asked = 0 /\ Count(sendQ, {"resp"}) = 0
      /\ ~(wpc = "put" /\ wmsg = "resp") /\ Count(pipe, Responses) = 0
      /\ ~Responded /\ ~Responded'
  BY Alone, CarSame
<1>2. rgen = gen /\ gen \in Nat \ {0}
  BY <1>1 DEF TypeOK, MapOf, Gens
<1>3. TypeOK'
  BY DEF TypeOK
<1>4. OneExchange'
  BY <1>1 DEF OneExchange, Bit
<1>5. MapOf' /\ MapsInPipe'
  BY <1>1, <1>2 DEF MapOf, MapsInPipe
<1>6. OwedMeans' /\ CarCounts'
  BY <1>1, <1>2, CarSame DEF OwedMeans
<1>7. ~owed /\ \A r \in DOMAIN pipe : pipe[r].type # "resp"
  BY <1>1, NoResponse DEF OwedMeans
<1>8. CountsAhead' /\ SyncUnlessDisturbed'
  BY <1>1, <1>7 DEF CountsAhead, SyncUnlessDisturbed, Settled
<1> QED
  BY <1>3, <1>4, <1>5, <1>6, <1>8

LEMMA ReaderResetStep == SyncInv /\ ReaderReset => SyncInv'
<1> SUFFICES ASSUME SyncInv, ReaderReset PROVE SyncInv'
  OBVIOUS
<1> USE BoundAssumption DEF SyncInv, WriterHasRoom, ReaderReset, writer, car, carReader,
                            carManager, history
<1>1. /\ proposals = <<>> /\ pending # 0 /\ asked = 0 /\ Count(sendQ, {"resp"}) = 0
      /\ ~(wpc = "put" /\ wmsg = "resp") /\ Count(pipe, Responses) = 0
      /\ ~Responded /\ ~Responded'
  BY Alone, CarSame
<1>2. TypeOK'
  BY DEF TypeOK, Index
<1>3. OneExchange'
  BY <1>1 DEF OneExchange, Bit
<1>4. MapOf' /\ MapsInPipe'
  BY <1>1 DEF MapOf, MapsInPipe
<1>5. OwedMeans' /\ CarCounts'
  BY <1>1, CarSame DEF OwedMeans
<1>6. \A r \in DOMAIN pipe : pipe[r].type # "resp"
  BY <1>1, NoResponse
<1>7. CountsAhead' /\ SyncUnlessDisturbed'
  BY <1>1, <1>6 DEF CountsAhead, SyncUnlessDisturbed, Settled
<1> QED
  BY <1>2, <1>3, <1>4, <1>5, <1>7

LEMMA ReaderDeliverStep == SyncInv /\ ReaderDeliver => SyncInv'
<1> SUFFICES ASSUME SyncInv, ReaderDeliver PROVE SyncInv'
  OBVIOUS
<1> USE BoundAssumption DEF SyncInv, WriterHasRoom, ReaderDeliver, clientKey, writer, car,
                            carReader, carManager, history
<1>1. /\ proposals = <<>> /\ pending # 0 /\ asked = 0 /\ Count(sendQ, {"resp"}) = 0
      /\ ~(wpc = "put" /\ wmsg = "resp") /\ Count(pipe, Responses) = 0
      /\ ~Responded /\ ~Responded'
  BY Alone, CarSame
<1>2. TypeOK'
  BY <1>1 DEF TypeOK, Gens
<1>3. OneExchange'
  <2>1. (asked' = 0 \/ asked' = 1) /\ InUpdate' = 0 /\ InUpdate = 1
    BY <1>1 DEF InUpdate, Bit
  <2>2. /\ UNCHANGED <<Proposed, Answered, InWriter, OnTheWire, heard, called>>
        /\ UNCHANGED <<InAccept, Pending>>
    BY StationsSame
  <2>3. asked = 0
    BY <1>1
  <2>4. Proposed + 1 + 0 + Answered + InWriter + OnTheWire + heard + called + InAccept
          <= Pending
    BY ONLY <2>1, <2>3, OneExchangeIs, OneExchange
  <2>5. Proposed + 0 + asked' + Answered + InWriter + OnTheWire + heard + called + InAccept
          <= Pending
    <3>1. Proposed + Answered + InWriter + OnTheWire + heard + called + InAccept + 1
            <= Pending
      BY ONLY <2>4, Stations, TypeOK
    <3> QED
      BY ONLY <2>1, <3>1, Stations, TypeOK
  <2> QED
    BY ONLY <2>1, <2>2, <2>5, OneExchangeNext
<1>4. MapOf' /\ MapsInPipe'
  BY <1>1 DEF MapOf, MapsInPipe
<1>5. OwedMeans' /\ CarCounts'
  BY <1>1, CarSame DEF OwedMeans
<1>6. \A r \in DOMAIN pipe : pipe[r].type # "resp"
  BY <1>1, NoResponse
<1>7. CountsAhead' /\ SyncUnlessDisturbed'
  BY <1>1, <1>6 DEF CountsAhead, SyncUnlessDisturbed, Settled, OwedMeans
<1> QED
  BY <1>2, <1>3, <1>4, <1>5, <1>7

LEMMA RespondStep == SyncInv /\ Respond => SyncInv'
<1> SUFFICES ASSUME SyncInv, Respond PROVE SyncInv'
  OBVIOUS
<1> USE BoundAssumption DEF SyncInv, WriterHasRoom, Respond, clientKey, reader, writer, car,
                            carReader, carManager, history
<1>1. /\ proposals = <<>> /\ pending # 0 /\ rpc = "read"
      /\ ~(wpc = "put" /\ wmsg = "resp") /\ Count(pipe, Responses) = 0
      /\ asked + Count(sendQ, {"resp"}) = 1 /\ ~Responded /\ ~Responded'
  BY Alone, CarSame
<1>2. Count(sendQ', {"resp"}) = Count(sendQ, {"resp"}) + 1
  <2>1. sendQ \in Seq(Queued) /\ "resp" \in Queued /\ sendQ' = Append(sendQ, "resp")
    BY DEF TypeOK, Queued
  <2>2. Count(Append(sendQ, "resp"), {"resp"}) = Count(sendQ, {"resp"}) + 1
    BY ONLY <2>1, CountAppend
  <2> QED
    BY <2>1, <2>2
<1>3. asked = 1 /\ asked' = 0 /\ Count(sendQ, {"resp"}) = 0
  BY <1>1, Numbers
<1>4. TypeOK'
  BY <1>3 DEF TypeOK, Queued
<1>5. OneExchange'
  BY <1>1, <1>2, <1>3 DEF OneExchange, Bit
<1>6. MapOf' /\ MapsInPipe'
  BY <1>1 DEF MapOf, MapsInPipe
<1>7. OwedMeans' /\ CarCounts'
  BY <1>1, <1>2, <1>3, CarSame DEF OwedMeans
<1>8. CountsAhead' /\ SyncUnlessDisturbed'
  BY <1>1 DEF CountsAhead, SyncUnlessDisturbed, Settled, Held
<1> QED
  BY <1>4, <1>5, <1>6, <1>7, <1>8

LEMMA SendStep == SyncInv /\ Send => SyncInv'
<1> SUFFICES ASSUME SyncInv, NEW m \in {"send", "ping"}, Len(sendQ) < SendCap,
                    sendQ' = Append(sendQ, m),
                    UNCHANGED <<proposals, clientKey, reader, asked, writer, pipe, car,
                                history>>
             PROVE  SyncInv'
  BY DEF Send
<1> USE BoundAssumption DEF SyncInv, WriterHasRoom, clientKey, reader, writer, car,
                            carReader, carManager, history
<1>1. Count(sendQ', {"resp"}) = Count(sendQ, {"resp"})
  <2>1. sendQ \in Seq(Queued) /\ m \in Queued /\ m \notin {"resp"}
        /\ Count(sendQ, {"resp"}) \in Nat
    BY Numbers DEF TypeOK, Queued
  <2>2. Count(Append(sendQ, m), {"resp"}) = Count(sendQ, {"resp"}) + 0
    BY ONLY <2>1, CountAppend
  <2> QED
    BY <2>1, <2>2
<1>2. TypeOK'
  BY DEF TypeOK, Queued
<1>3. CarCounts' /\ (Responded' <=> Responded)
  BY CarSame
<1>4. OneExchange' /\ MapOf' /\ MapsInPipe' /\ OwedMeans'
  BY <1>1, <1>3 DEF OneExchange, Bit, MapOf, MapsInPipe, OwedMeans
<1>5. CountsAhead' /\ SyncUnlessDisturbed'
  BY <1>3 DEF CountsAhead, SyncUnlessDisturbed, Settled, Held, Drift
<1> QED
  BY <1>2, <1>3, <1>4, <1>5

-----------------------------------------------------------------------------
(* The writer and the car: the distance of the two counts.                 *)

\* The head of what the car has still to decode.
LEMMA HeadOfPipe ==
  ASSUME TypeOK, pipe # <<>>
  PROVE  /\ Head(pipe) \in Frames /\ Head(pipe) = pipe[1] /\ 1 \in DOMAIN pipe
         /\ Len(pipe) \in Nat \ {0} /\ DOMAIN pipe = 1..Len(pipe)
         /\ Tail(pipe) \in Seq(Frames) /\ Len(Tail(pipe)) = Len(pipe) - 1
         /\ DOMAIN Tail(pipe) = 1..(Len(pipe) - 1)
         /\ \A i \in DOMAIN Tail(pipe) : i + 1 \in DOMAIN pipe /\ Tail(pipe)[i] = pipe[i + 1]
         /\ Count(pipe, Moved)
              = Count(Tail(pipe), Moved) + (IF Head(pipe) \in Moved THEN 1 ELSE 0)
         /\ Count(pipe, Responses)
              = Count(Tail(pipe), Responses) + Bit(Head(pipe).type = "resp")
         /\ Count(Tail(pipe), Moved) \in Nat /\ Count(Tail(pipe), Responses) \in Nat
<1>1. pipe \in Seq(Frames)
  BY DEF TypeOK
<1>2. /\ Head(pipe) \in Frames /\ Head(pipe) = pipe[1] /\ 1 \in DOMAIN pipe
      /\ Len(pipe) \in Nat \ {0} /\ DOMAIN pipe = 1..Len(pipe)
      /\ Tail(pipe) \in Seq(Frames) /\ Len(Tail(pipe)) = Len(pipe) - 1
      /\ DOMAIN Tail(pipe) = 1..(Len(pipe) - 1)
      /\ \A i \in DOMAIN Tail(pipe) : i + 1 \in DOMAIN pipe /\ Tail(pipe)[i] = pipe[i + 1]
  BY <1>1, EmptySeq
<1>3. Count(pipe, Moved)
        = Count(Tail(pipe), Moved) + (IF Head(pipe) \in Moved THEN 1 ELSE 0)
  BY <1>1, CountTail
<1>4. Count(pipe, Responses)
        = Count(Tail(pipe), Responses) + (IF Head(pipe) \in Responses THEN 1 ELSE 0)
  BY <1>1, CountTail
<1>5. Head(pipe) \in Responses <=> Head(pipe).type = "resp"
  BY <1>2 DEF Responses
<1>6. Count(Tail(pipe), Moved) \in Nat /\ Count(Tail(pipe), Responses) \in Nat
  BY <1>2, CountType
<1> QED
  BY <1>2, <1>3, <1>4, <1>5, <1>6 DEF Bit

\* Between two exchanges nothing that is drawn, sent or received changes the
\* distance.
LEMMA DriftStep ==
  ASSUME SyncInv, Settled, pending' = 0, [Next]_vars
  PROVE  Drift' = Drift
<1> USE BoundAssumption DEF SyncInv
<1>1. /\ proposals = <<>> /\ rpc = "read" /\ asked = 0 /\ Count(sendQ, {"resp"}) = 0
      /\ ~(wpc = "put" /\ wmsg = "resp") /\ Count(pipe, Responses) = 0
      /\ pending = 0 /\ ~Responded /\ heard = 0 /\ called = 0 /\ cmpc = "wait"
  BY Quiet DEF Settled, Responded, TypeOK
<1>2. ~owed /\ cmap = gen /\ carmap = gen
  BY <1>1 DEF OwedMeans, MapOf
<1>3. pipe \in Seq(Frames) /\ cnum \in Index /\ carnum \in Index /\ wret \in Index
      /\ Count(pipe, Moved) \in Nat /\ Held \in 0..1
  BY Numbers DEF TypeOK, Held, Bit
<1>4. CASE UNCHANGED vars
  BY <1>4 DEF vars, clientKey, writer, car, Drift, Held
<1>5. CASE ReaderBuild \/ ReaderBuilt \/ ReaderReset \/ ReaderDeliver \/ Respond
  BY <1>1, <1>5 DEF ReaderBuild, ReaderBuilt, ReaderReset, ReaderDeliver, Respond
<1>6. CASE Send
  BY <1>6 DEF Send, clientKey, writer, car, Drift, Held
<1>7. CASE WriterTake
  <2>1. Held = 0 /\ Held' = 0
    BY <1>7 DEF WriterTake, Held, Bit, clientKey, Moves
  <2> QED
    BY <1>7, <2>1 DEF WriterTake, clientKey, car, Drift
<1>8. CASE WriterStore
  <2>1. cnum' = Succ(cnum) /\ Held = 0 /\ Held' = 1
    BY <1>2, <1>8 DEF WriterStore, OwedMeans, Held, Bit
  <2> DEFINE x == 0 - carnum - Count(pipe, Moved) - 1
  <2>2. x \in Int /\ cnum \in Int /\ Succ(cnum) \in Int
    BY <1>3, SuccIs DEF Index
  <2>3. (x + Succ(cnum)) % KeyLen = (x + cnum + 1) % KeyLen
    BY <1>3, <2>2, SuccMod
  <2>4. Drift' = (x + Succ(cnum)) % KeyLen
    <3>1. Drift' = (Succ(cnum) - carnum - Count(pipe, Moved) - 1) % KeyLen
      BY <1>8, <2>1 DEF Drift, WriterStore, car
    <3>2. Succ(cnum) - carnum - Count(pipe, Moved) - 1 = x + Succ(cnum)
      BY <1>3, <2>2 DEF Index
    <3> QED
      BY <3>1, <3>2
  <2>5. Drift = (x + cnum + 1) % KeyLen
    <3>1. Drift = (cnum - carnum - Count(pipe, Moved) - 0) % KeyLen
      BY <2>1 DEF Drift
    <3>2. cnum - carnum - Count(pipe, Moved) - 0 = x + cnum + 1
      BY <1>3, <2>2 DEF Index
    <3> QED
      BY <3>1, <3>2
  <2> QED
    BY <2>3, <2>4, <2>5
<1>9. CASE WriterPut
  <2> DEFINE f == [type |-> wmsg, map |-> cmap, num |-> wret]
  <2>1. f \in Frames /\ pipe' = Append(pipe, f)
    BY <1>9 DEF WriterPut, TypeOK, Frames
  <2>2. Count(pipe', Moved) = Count(pipe, Moved) + (IF f \in Moved THEN 1 ELSE 0)
    BY <1>3, <2>1, CountAppend
  <2>3. Held = (IF f \in Moved THEN 1 ELSE 0) /\ Held' = 0
    BY <1>9, <2>1 DEF WriterPut, Held, Bit, Moved
  <2>4. cnum' - carnum' - Count(pipe', Moved) - Held'
          = cnum - carnum - Count(pipe, Moved) - Held
    BY <1>3, <1>9, <2>2, <2>3 DEF WriterPut, clientKey, car, Index
  <2> QED
    BY <2>4 DEF Drift
<1>10. CASE CarRekey
  BY <1>10 DEF CarRekey, TypeOK, Gens
<1>11. CASE CarAccept \/ CarReset \/ CarHandOut
  BY <1>1, <1>11 DEF CarAccept, CarReset, CarHandOut
<1>12. CASE CarRead
  BY <1>12 DEF CarRead, clientKey, writer, Drift, Held
<1>13. ASSUME pipe # <<>>, pipe' = Tail(pipe), UNCHANGED <<clientKey, writer>>,
              carnum' = IF Head(pipe) \in Moved THEN Succ(carnum) ELSE carnum
       PROVE  Drift' = Drift
  <2> DEFINE f == Head(pipe)
  <2>1. Count(pipe, Moved) = Count(pipe', Moved) + (IF f \in Moved THEN 1 ELSE 0)
        /\ Count(pipe', Moved) \in Nat
    BY <1>13, HeadOfPipe
  <2>2. Held' = Held /\ cnum' = cnum
    BY <1>13 DEF clientKey, writer, Held
  <2> DEFINE x == cnum - Count(pipe', Moved) - Held
  <2>3. x \in Int /\ carnum \in Int /\ Succ(carnum) \in Int
    BY <1>3, <2>1, SuccIs DEF Index
  <2>4. CASE f \in Moved
    <3>1. (x - Succ(carnum)) % KeyLen = (x - carnum - 1) % KeyLen
      BY <1>3, <2>3, SuccMod
    <3>2. Drift' = (cnum - Succ(carnum) - Count(pipe', Moved) - Held) % KeyLen
      BY <1>13, <2>2, <2>4 DEF Drift
    <3>3. Drift = (cnum - carnum - (Count(pipe', Moved) + 1) - Held) % KeyLen
      BY <2>1, <2>4 DEF Drift
    <3>4. /\ cnum - Succ(carnum) - Count(pipe', Moved) - Held = x - Succ(carnum)
          /\ cnum - carnum - (Count(pipe', Moved) + 1) - Held = x - carnum - 1
      <4>1. \A a, b, c, d, e \in Int : /\ a - b - c - d = (a - c - d) - b
                                        /\ a - e - (c + 1) - d = (a - c - d) - e - 1
        OBVIOUS
      <4>2. cnum \in Int /\ Held \in Int /\ Count(pipe', Moved) \in Int
        BY <1>3, <2>1 DEF Index
      <4> QED
        BY <2>3, <4>1, <4>2
    <3> QED
      BY <3>1, <3>2, <3>3, <3>4
  <2>5. CASE f \notin Moved
    <3>1. carnum' = carnum /\ Count(pipe', Moved) = Count(pipe, Moved)
      BY <1>13, <2>1, <2>5
    <3> QED
      BY <2>2, <3>1 DEF Drift
  <2> QED
    BY <2>4, <2>5
<1>14. ASSUME pipe # <<>> PROVE Head(pipe) \in Frames /\ Head(pipe).map = gen
  BY <1>1, <1>14, HeadOfPipe DEF MapsInPipe
<1>15. inhand > 0 => pipe # <<>>
  BY EmptySeq DEF CarCounts, TypeOK
<1>16. CASE CarDecode
  <2>1. CASE pipe' = pipe
    BY <1>16, <2>1 DEF CarDecode, clientKey, writer, Drift, Held
  <2>2. CASE pipe' # pipe
    <3>1. pipe # <<>> /\ pipe' = Tail(pipe) /\ UNCHANGED <<clientKey, writer, carnum>>
          /\ (Head(pipe).type # "send" \/ carmap = 0)
      BY <1>15, <1>16, <2>2 DEF CarDecode
    <3>2. Head(pipe) \notin Moved
      BY <1>2, <1>14, <3>1 DEF Moved
    <3> QED
      BY <1>13, <3>1, <3>2
  <2> QED
    BY <2>1, <2>2
<1>17. CASE CarStore
  <2>1. pipe # <<>> /\ pipe' = Tail(pipe) /\ UNCHANGED <<clientKey, writer>>
        /\ Head(pipe).type = "send" /\ carmap # 0
    BY <1>15, <1>17 DEF CarStore, CarCounts
  <2>2. Head(pipe) \in Moved
    BY <1>2, <1>14, <2>1 DEF Moved
  <2>3. carnum' = Succ(carnum)
    BY <1>17 DEF CarStore, Settled
  <2> QED
    BY <1>13, <2>1, <2>2, <2>3
<1> QED
  BY <1>4, <1>5, <1>6, <1>7, <1>8, <1>9, <1>10, <1>11, <1>12, <1>16, <1>17 DEF Next

\* Outside of the early window no count is under way when an exchange has ended.
LEMMA SettledWhen ==
  ASSUME SyncInv, pending = 0, ~early
  PROVE  Settled
  BY DEF SyncInv, CarCounts, Settled

\* The counts agree after a step that neither ends an exchange nor resets the
\* mark of the early window.
LEMMA SyncKept ==
  ASSUME SyncInv, [Next]_vars, pending' = 0 => pending = 0, early => early',
         disturbed => disturbed'
  PROVE  SyncUnlessDisturbed'
<1> SUFFICES ASSUME pending' = 0, ~early', ~disturbed' PROVE Drift' = 0
  BY DEF SyncUnlessDisturbed, Settled
<1>1. pending = 0 /\ ~early /\ ~disturbed
  OBVIOUS
<1>2. Settled
  BY <1>1, SettledWhen
<1>3. Drift = 0
  BY <1>1, <1>2 DEF SyncInv, SyncUnlessDisturbed
<1> QED
  BY <1>2, <1>3, DriftStep

LEMMA WriterTakeStep == SyncInv /\ WriterTake => SyncInv'
<1> SUFFICES ASSUME SyncInv, WriterTake PROVE SyncInv'
  OBVIOUS
<1> USE BoundAssumption DEF SyncInv
<1> DEFINE h == Head(sendQ)
<1>0. /\ sendQ \in Seq(Queued) /\ sendQ # <<>> /\ sendQ' = Tail(sendQ) /\ wpc = "take"
      /\ wmsg' = h /\ wret' = cnum /\ owed' = (owed /\ h # "resp")
      /\ wpc' = (IF h = "send" /\ cmap # 0 THEN "store" ELSE "put")
      /\ UNCHANGED <<proposals, cmap, cnum, rpc, rgen, asked, pipe, gen, pending,
                     carmap, carnum, disturbed, early>>
      /\ UNCHANGED <<pipe, car, early>>
  BY DEF WriterTake, Moves, TypeOK, clientKey, reader, car
<1>1. h \in Queued /\ Tail(sendQ) \in Seq(Queued) /\ Len(Tail(sendQ)) = Len(sendQ) - 1
      /\ Len(sendQ) \in Nat
  BY <1>0, HeadTailProperties
<1>2. Count(sendQ, {"resp"}) = Count(sendQ', {"resp"}) + Bit(h = "resp")
  BY <1>0, CountTail DEF Bit
<1>3. Count(sendQ', {"resp"}) \in Nat
  BY <1>0, <1>1, CountType
<1>a. CarCounts' /\ (Responded' <=> Responded) /\ UNCHANGED <<heard, called, cmpc>>
  BY <1>0, CarSame DEF car, carReader, carManager
<1> HIDE DEF h
<1>4. TypeOK'
  BY <1>0, <1>1 DEF TypeOK, car, carReader, carManager
<1>5. OneExchange'
  <2>1. (wpc' = "put" /\ wmsg' = "resp" <=> h = "resp") /\ wpc # "put"
    BY <1>0
  <2>2. UNCHANGED <<proposals, asked, pipe, pending, rpc, heard, called, cmpc>>
    BY <1>0, <1>a
  <2>3. InWriter' = Bit(h = "resp") /\ InWriter = 0
    BY <2>1 DEF InWriter, Bit
  <2>4. Answered = Answered' + Bit(h = "resp") /\ Answered' \in Nat
        /\ Bit(h = "resp") \in 0..1
    BY <1>2, <1>3 DEF Answered, Bit
  <2>5. UNCHANGED <<Proposed, InUpdate, OnTheWire, InAccept, Pending, asked, heard, called>>
    BY <2>2, StationsSame
  <2>6. Proposed + InUpdate + asked + Answered + InWriter + OnTheWire + heard + called
          + InAccept <= Pending
    BY ONLY OneExchangeIs, OneExchange
  <2>7. /\ Proposed \in Nat /\ InUpdate \in Nat /\ asked \in Nat /\ OnTheWire \in Nat
        /\ heard \in Nat /\ called \in Nat /\ InAccept \in Nat /\ Pending \in Nat
    BY Stations
  <2>8. Proposed + InUpdate + asked + Answered' + Bit(h = "resp") + OnTheWire + heard
          + called + InAccept <= Pending
    BY ONLY <2>3, <2>4, <2>6, <2>7
  <2> QED
    BY ONLY <2>3, <2>5, <2>8, OneExchangeNext
<1>6. MapOf' /\ MapsInPipe'
  BY <1>0, <1>a DEF MapOf, MapsInPipe
<1>7. OwedMeans'
  <2> DEFINE k == Count(sendQ, {"resp"})
             l == Count(sendQ', {"resp"})
  <2>1. k \in Nat /\ l \in Nat /\ k = l + (IF h = "resp" THEN 1 ELSE 0)
    BY <1>2, <1>3, Numbers DEF Bit
  <2>2. k > 0 => asked = 0 /\ rpc = "read" /\ k = 1
    BY <2>1, Alone, Numbers
  <2>3. rpc = "deliver" \/ asked > 0 \/ k > 0 => owed
    BY DEF OwedMeans
  <2> HIDE DEF k, l
  <2>4. rpc = "deliver" \/ asked > 0 \/ l > 0 => owed'
    <3>1. CASE h = "resp"
      <4>1. k > 0 /\ l = 0 /\ asked = 0 /\ rpc = "read"
        BY <2>1, <2>2, <3>1
      <4> QED
        BY <4>1
    <3>2. CASE h # "resp"
      <4>1. k = l
        BY <2>1, <3>2
      <4>2. owed' <=> owed
        BY <1>0, <3>2, Zenon
      <4> QED
        BY <2>3, <4>1, <4>2
    <3> QED
      BY <3>1, <3>2
  <2>5. wpc' = "store" => wmsg' = "send" /\ cmap' # 0 /\ wret' = cnum'
    BY <1>0
  <2>6. owed' => owed /\ h # "resp"
    BY <1>0, Zenon
  <2>7. owed' => /\ pending' # 0 /\ proposals' = <<>> /\ rpc' \in {"read", "deliver"}
                 /\ ~(wpc' = "put" /\ wmsg' = "resp") /\ Count(pipe', Responses) = 0
                 /\ ~Responded'
    BY <1>0, <1>a, <2>6 DEF OwedMeans
  <2> QED
    BY <1>0, <2>4, <2>5, <2>7 DEF OwedMeans, l
<1>8. Held = 0 /\ Held' = 0
  BY <1>0 DEF Held, Bit
<1>9. h = "resp" => owed
  BY <1>2, <1>3 DEF OwedMeans, Bit
<1>10. CountsAhead'
  <2> SUFFICES ASSUME ~disturbed' PROVE CountsAhead'
    BY DEF CountsAhead
  <2>1. ~disturbed /\ UNCHANGED <<cnum, pipe, early>> /\ Held' = Held
    BY <1>0, <1>8
  <2>2. owed' \/ (wpc' = "put" /\ wmsg' = "resp") => owed
    BY <1>0, <1>9
  <2>3. owed' \/ (wpc' = "put" /\ wmsg' = "resp") => cnum' = 0
    BY <2>1, <2>2 DEF CountsAhead
  <2>4. \A r \in DOMAIN pipe' : pipe'[r].type = "resp" =>
          (cnum' - Behind(pipe', r, Moved) - Held') % KeyLen = 0
    BY <2>1 DEF CountsAhead
  <2>5. Responded' /\ ~early' => (cnum' - Count(pipe', Moved) - Held') % KeyLen = 0
    BY <2>1, <1>a DEF CountsAhead
  <2> QED
    BY <2>3, <2>4, <2>5 DEF CountsAhead
<1>11. SyncUnlessDisturbed'
  BY <1>0, SyncKept DEF Next
<1>12. WriterHasRoom'
  BY <1>0 DEF WriterHasRoom, WriterTake
<1> QED
  BY <1>4, <1>5, <1>6, <1>7, <1>a, <1>10, <1>11, <1>12

LEMMA WriterStoreStep == SyncInv /\ WriterStore => SyncInv'
<1> SUFFICES ASSUME SyncInv, WriterStore PROVE SyncInv'
  OBVIOUS
<1> USE BoundAssumption DEF SyncInv, WriterHasRoom, WriterStore, reader
<1>0. /\ CarCounts' /\ (Responded' <=> Responded)
      /\ UNCHANGED <<gen, pending, carmap, carnum, inhand, crpc, cret, heard, called, cmpc>>
  BY CarSame DEF car, carReader, carManager
<1>1. cnum' \in Index
  BY SuccIs DEF TypeOK
<1>2. wmsg = "send" /\ cmap # 0 /\ (wret = cnum \/ owed)
  BY DEF OwedMeans
<1>3. TypeOK'
  BY <1>0, <1>1 DEF TypeOK
<1>4. OneExchange' /\ MapOf' /\ MapsInPipe' /\ OwedMeans'
  BY <1>0, <1>2 DEF OneExchange, Bit, MapOf, MapsInPipe, OwedMeans
<1>5. SyncUnlessDisturbed'
  BY <1>0, SyncKept DEF Next
<1>6. CountsAhead'
  <2> SUFFICES ASSUME ~disturbed'
               PROVE  /\ owed' \/ (wpc' = "put" /\ wmsg' = "resp") => cnum' = 0
                      /\ \A r \in DOMAIN pipe : pipe[r].type = "resp" =>
                           (cnum' - Behind(pipe, r, Moved) - Held') % KeyLen = 0
                      /\ Responded /\ ~early =>
                           (cnum' - Count(pipe, Moved) - Held') % KeyLen = 0
    BY <1>0 DEF CountsAhead
  <2>1. ~disturbed /\ ~owed
    OBVIOUS
  <2>2. cnum' = Succ(cnum) /\ Held = 0 /\ Held' = 1
    BY <1>2, <2>1 DEF Held, Bit
  <2>3. cnum \in Index /\ cnum \in Int /\ Succ(cnum) \in Int
    BY SuccIs DEF TypeOK, Index
  <2>4. ASSUME NEW b \in Nat, (cnum - b - Held) % KeyLen = 0
        PROVE  (cnum' - b - Held') % KeyLen = 0
    <3>1. (cnum - b - 0) % KeyLen = 0
      BY <2>2, <2>4
    <3> DEFINE x == 0 - b - 1
    <3>2. x \in Int /\ x + Succ(cnum) = Succ(cnum) - b - 1 /\ x + cnum + 1 = cnum - b - 0
      BY <2>3
    <3>3. (x + Succ(cnum)) % KeyLen = (x + cnum + 1) % KeyLen
      BY <2>3, <3>2, SuccMod
    <3> QED
      BY <2>2, <3>1, <3>2, <3>3
  <2>5. ASSUME NEW r \in DOMAIN pipe, pipe[r].type = "resp"
        PROVE  (cnum' - Behind(pipe, r, Moved) - Held') % KeyLen = 0
    <3>1. Behind(pipe, r, Moved) \in Nat
      <4>1. pipe \in Seq(Frames) /\ r \in Nat
        BY DEF TypeOK
      <4> QED
        BY <4>1, BehindType
    <3>2. (cnum - Behind(pipe, r, Moved) - Held) % KeyLen = 0
      BY <2>1, <2>5 DEF CountsAhead
    <3> QED
      BY <2>4, <3>1, <3>2
  <2>6. ASSUME Responded, ~early
        PROVE  (cnum' - Count(pipe, Moved) - Held') % KeyLen = 0
    <3>1. Count(pipe, Moved) \in Nat
      BY Numbers
    <3>2. (cnum - Count(pipe, Moved) - Held) % KeyLen = 0
      BY <2>1, <2>6 DEF CountsAhead
    <3> QED
      BY <2>4, <3>1, <3>2
  <2> QED
    BY <1>2, <2>1, <2>5, <2>6
<1> QED
  BY <1>0, <1>3, <1>4, <1>5, <1>6

LEMMA WriterPutStep == SyncInv /\ WriterPut => SyncInv'
<1> SUFFICES ASSUME SyncInv, WriterPut PROVE SyncInv'
  OBVIOUS
<1> USE BoundAssumption DEF SyncInv
<1> DEFINE f == [type |-> wmsg, map |-> cmap, num |-> wret]
           n == Len(pipe) + 1
<1>0. /\ pipe' = Append(pipe, f) /\ wpc = "put" /\ wpc' = "take"
      /\ UNCHANGED <<proposals, cmap, cnum, rpc, rgen, asked, sendQ, wmsg, wret, gen,
                     pending, carmap, carnum, inhand, crpc, cret, heard, called, cmpc,
                     owed, disturbed, early>>
  BY DEF WriterPut, clientKey, reader, car, carReader, carManager, history
<1>1. f \in Frames /\ pipe \in Seq(Frames) /\ f.type = wmsg /\ f.map = cmap
  BY DEF TypeOK, Frames
<1>2. /\ Len(pipe) \in Nat /\ pipe' \in Seq(Frames) /\ Len(pipe') = n
      /\ DOMAIN pipe = 1..Len(pipe) /\ DOMAIN pipe' = 1..n /\ pipe'[n] = f
      /\ \A i \in DOMAIN pipe : pipe'[i] = pipe[i]
  BY <1>0, <1>1
<1>3. Count(pipe', Responses) = Count(pipe, Responses) + Bit(wmsg = "resp")
  <2>1. f \in Responses <=> wmsg = "resp"
    BY <1>1 DEF Responses
  <2>2. Count(Append(pipe, f), Responses)
          = Count(pipe, Responses) + (IF f \in Responses THEN 1 ELSE 0)
    BY ONLY <1>1, CountAppend
  <2> QED
    BY <1>0, <2>1, <2>2 DEF Bit
<1>4. TypeOK'
  <2>1. Len(pipe) < PipeCap
    BY <1>0 DEF WriterHasRoom
  <2> QED
    BY <1>0, <1>2, <2>1 DEF TypeOK
<1>5. OneExchange'
  BY <1>0, <1>3, Numbers DEF OneExchange, Bit
<1>a. Responded' <=> Responded
  BY <1>0 DEF Responded
<1>b. CarCounts'
  <2>1. inhand > 0 => Head(pipe') = Head(pipe)
    <3>1. ASSUME inhand > 0 PROVE Head(pipe') = Head(pipe)
      <4>1. Len(pipe) > 0 /\ 1 \in DOMAIN pipe /\ pipe # <<>> /\ pipe' # <<>>
        BY <1>2, <3>1, EmptySeq DEF CarCounts, TypeOK
      <4> QED
        BY <1>1, <1>2, <4>1, EmptySeq
    <3> QED
      BY <3>1
  <2>2. inhand <= Len(pipe')
    BY <1>2 DEF CarCounts, TypeOK
  <2> QED
    BY <1>0, <1>a, <2>1, <2>2 DEF CarCounts
<1>6. MapOf' /\ OwedMeans'
  <2>1. Bit(wmsg = "resp") = IF wmsg = "resp" THEN 1 ELSE 0
    BY DEF Bit
  <2>2. owed => wmsg # "resp" /\ Count(pipe', Responses) = 0
    BY <1>0, <1>3, <2>1 DEF OwedMeans
  <2> QED
    BY <1>0, <1>a, <2>2 DEF MapOf, OwedMeans
<1>7. MapsInPipe'
  <2>1. pending = 0 \/ Responded => cmap = gen
    BY Quiet, Alone DEF MapOf
  <2>2. wmsg = "resp" => cmap = gen
    BY <1>0, Alone DEF MapOf
  <2>3. ASSUME NEW i \in DOMAIN pipe, pipe[i].type = "resp" PROVE cmap = gen
    <3>1. Count(pipe, Responses) > 0
      BY <2>3, Numbers
    <3> QED
      BY <3>1, Alone DEF MapOf
  <2>4. pending = 0 \/ Responded => \A i \in DOMAIN pipe' : pipe'[i].map = gen
    BY <1>1, <1>2, <2>1 DEF MapsInPipe
  <2>5. ASSUME NEW i \in DOMAIN pipe', NEW j \in DOMAIN pipe', pipe'[i].type = "resp", i <= j
        PROVE  pipe'[j].map = gen
    <3>1. CASE j \in DOMAIN pipe
      <4>1. i \in DOMAIN pipe
        BY <1>2, <2>5, <3>1
      <4> QED
        BY <1>2, <2>5, <3>1, <4>1 DEF MapsInPipe
    <3>2. CASE j = n
      <4>1. cmap = gen
        BY <1>1, <1>2, <2>2, <2>3, <2>5
      <4> QED
        BY <1>1, <1>2, <3>2, <4>1
    <3> QED
      BY <1>2, <3>1, <3>2
  <2> QED
    BY <1>0, <1>a, <2>4, <2>5 DEF MapsInPipe
<1>8. Held = (IF f \in Moved THEN 1 ELSE 0) /\ Held' = 0 /\ Held \in Nat
  BY <1>0, <1>1 DEF Held, Bit, Moved
<1>9. CountsAhead'
  <2> SUFFICES ASSUME ~disturbed
               PROVE  /\ owed => cnum = 0
                      /\ \A r \in DOMAIN pipe' : pipe'[r].type = "resp" =>
                           (cnum - Behind(pipe', r, Moved) - 0) % KeyLen = 0
                      /\ Responded /\ ~early =>
                           (cnum - Count(pipe', Moved) - 0) % KeyLen = 0
    BY <1>0, <1>a, <1>8 DEF CountsAhead
  <2>1. owed => cnum = 0
    BY DEF CountsAhead
  <2>2. ASSUME NEW r \in DOMAIN pipe', pipe'[r].type = "resp"
        PROVE  (cnum - Behind(pipe', r, Moved) - 0) % KeyLen = 0
    <3>1. CASE r \in DOMAIN pipe
      <4>1. (cnum - Behind(pipe, r, Moved) - Held) % KeyLen = 0
        BY <1>2, <2>2, <3>1 DEF CountsAhead
      <4>2. r \in 0..Len(pipe)
        BY <1>2, <3>1
      <4>3. Behind(pipe', r, Moved) = Behind(pipe, r, Moved) + Held
        BY <1>0, <1>1, <1>8, <4>2, BehindAppend
      <4>4. Behind(pipe, r, Moved) \in Nat /\ Held \in Nat /\ cnum \in Int
        BY <1>1, <1>8, <4>2, BehindType DEF TypeOK, Index
      <4>5. cnum - Behind(pipe', r, Moved) - 0 = cnum - Behind(pipe, r, Moved) - Held
        BY <4>3, <4>4
      <4> QED
        BY <4>1, <4>5
    <3>2. CASE r = n
      <4>1. wmsg = "resp"
        BY <1>1, <1>2, <2>2, <3>2
      <4>2. cnum = 0
        BY <1>0, <4>1 DEF CountsAhead
      <4>3. Behind(pipe', r, Moved) = 0
        BY <1>2, <3>2, BehindType
      <4>4. 0 % KeyLen = 0
        BY \A k \in Nat \ {0} : 0 % k = 0
      <4>5. cnum - Behind(pipe', r, Moved) - 0 = 0
        BY <4>2, <4>3
      <4> QED
        BY <4>4, <4>5
    <3> QED
      BY <1>2, <3>1, <3>2
  <2>3. ASSUME Responded, ~early
        PROVE  (cnum - Count(pipe', Moved) - 0) % KeyLen = 0
    <3>1. (cnum - Count(pipe, Moved) - Held) % KeyLen = 0
      BY <2>3 DEF CountsAhead
    <3>2. Count(pipe', Moved) = Count(pipe, Moved) + Held
      BY <1>0, <1>1, <1>8, CountAppend
    <3>3. Count(pipe, Moved) \in Nat /\ cnum \in Int
      BY Numbers DEF TypeOK, Index
    <3>4. cnum - Count(pipe', Moved) - 0 = cnum - Count(pipe, Moved) - Held
      BY <1>8, <3>2, <3>3
    <3> QED
      BY <3>1, <3>4
  <2> QED
    BY <2>1, <2>2, <2>3
<1>10. SyncUnlessDisturbed'
  BY <1>0, SyncKept DEF Next
<1>11. WriterHasRoom'
  BY <1>0 DEF WriterHasRoom
<1> QED
  BY <1>4, <1>5, <1>6, <1>7, <1>b, <1>9, <1>10, <1>11

LEMMA CarRekeyStep == SyncInv /\ CarRekey => SyncInv'
<1> SUFFICES ASSUME SyncInv, CarRekey PROVE SyncInv'
  OBVIOUS
<1> USE BoundAssumption DEF SyncInv, WriterHasRoom, CarRekey, clientKey, reader, writer,
                            carReader, carManager
<1>1. /\ proposals = <<>> /\ rpc = "read" /\ asked = 0 /\ Count(sendQ, {"resp"}) = 0
      /\ ~(wpc = "put" /\ wmsg = "resp") /\ Count(pipe, Responses) = 0
      /\ ~Responded /\ heard = 0 /\ called = 0 /\ cmpc = "wait"
  BY Quiet DEF Responded, TypeOK
<1>2. gen \in Nat /\ gen + 1 \in 1..MaxGen /\ proposals' = Append(<<>>, gen + 1)
  BY <1>1 DEF TypeOK, Gens
<1>3. /\ proposals' \in Seq(1..MaxGen) /\ Len(proposals') = 1 /\ proposals' # <<>>
      /\ DOMAIN proposals' = 1..1 /\ proposals'[1] = gen + 1
  <2> DEFINE q == Append(<<>>, gen + 1)
  <2>1. <<>> \in Seq(1..MaxGen) /\ Len(<<>>) = 0
    BY EmptySeq
  <2>2. q \in Seq(1..MaxGen) /\ Len(q) = Len(<<>>) + 1 /\ q[Len(<<>>) + 1] = gen + 1
        /\ DOMAIN q = 1..(Len(<<>>) + 1)
    BY ONLY <1>2, <2>1
  <2>3. proposals' = q
    BY <1>2
  <2> HIDE DEF q
  <2>4. q \in Seq(1..MaxGen) /\ Len(q) = 1 /\ q[1] = gen + 1 /\ DOMAIN q = 1..1
    BY <2>1, <2>2
  <2>5. q # <<>>
    BY ONLY <2>4, EmptySeq
  <2> QED
    BY <2>3, <2>4, <2>5
<1>4. TypeOK'
  <2>1. gen + 1 \in Gens
    BY <1>2 DEF Gens
  <2> QED
    BY <1>3, <2>1 DEF TypeOK
<1>5. OneExchange'
  BY <1>1, <1>2, <1>3 DEF OneExchange, Bit
<1>6. MapOf'
  BY <1>1, <1>2, <1>3 DEF MapOf
<1>7. (\A r \in DOMAIN pipe : pipe[r].type # "resp") /\ ~Responded'
  BY <1>1, NoResponse DEF Responded
<1>8. MapsInPipe' /\ SyncUnlessDisturbed'
  BY <1>2, <1>7 DEF MapsInPipe, SyncUnlessDisturbed, Settled
<1>9. OwedMeans' /\ CountsAhead'
  BY <1>1, <1>7 DEF OwedMeans, CountsAhead
<1>10. CarCounts'
  BY <1>2, <1>7 DEF CarCounts
<1> QED
  BY <1>4, <1>5, <1>6, <1>8, <1>9, <1>10

LEMMA CarAcceptStep == SyncInv /\ CarAccept => SyncInv'
<1> SUFFICES ASSUME SyncInv, CarAccept PROVE SyncInv'
  OBVIOUS
<1> USE BoundAssumption DEF SyncInv, WriterHasRoom, CarAccept, clientKey, reader, writer,
                            carReader, history
<1>1. Responded
  BY DEF Responded
<1>2. /\ pending # 0 /\ proposals = <<>> /\ rpc = "read" /\ asked = 0
      /\ Count(sendQ, {"resp"}) = 0 /\ ~(wpc = "put" /\ wmsg = "resp")
      /\ Count(pipe, Responses) = 0 /\ heard + called + Bit(cmpc = "reset") = 1
  BY <1>1, Alone
<1>3. heard = 0 /\ called = 1 /\ called' = 0 /\ cmpc' = "reset" /\ carmap' = pending
      /\ pending = gen
  BY <1>2 DEF TypeOK, Bit, MapOf
<1>4. Responded'
  BY <1>3 DEF Responded
<1>5. TypeOK'
  BY <1>3 DEF TypeOK
<1>6. OneExchange'
  BY <1>2, <1>3, EmptySeq DEF OneExchange, Bit
<1>7. MapOf' /\ MapsInPipe'
  BY <1>1, <1>2, <1>3, <1>4 DEF MapOf, MapsInPipe
<1>8. OwedMeans' /\ CountsAhead'
  BY <1>1, <1>2, <1>4 DEF OwedMeans, CountsAhead, Held
<1>9. CarCounts'
  BY <1>1, <1>2, <1>3, <1>4 DEF CarCounts
<1>10. SyncUnlessDisturbed'
  BY <1>2 DEF SyncUnlessDisturbed, Settled
<1> QED
  BY <1>5, <1>6, <1>7, <1>8, <1>9, <1>10

LEMMA CarResetStep == SyncInv /\ CarReset => SyncInv'
<1> SUFFICES ASSUME SyncInv, CarReset PROVE SyncInv'
  OBVIOUS
<1> USE BoundAssumption DEF SyncInv, WriterHasRoom, CarReset, clientKey, reader, writer,
                            carReader, history
<1>1. Responded
  BY DEF Responded
<1>2. /\ pending # 0 /\ proposals = <<>> /\ rpc = "read" /\ asked = 0
      /\ Count(sendQ, {"resp"}) = 0 /\ ~(wpc = "put" /\ wmsg = "resp")
      /\ Count(pipe, Responses) = 0 /\ heard + called + Bit(cmpc = "reset") = 1
  BY <1>1, Alone
<1>3. heard = 0 /\ called = 0 /\ ~owed
  BY <1>1, <1>2 DEF TypeOK, Bit, OwedMeans
<1>4. ~Responded'
  BY <1>3 DEF Responded
<1>5. TypeOK'
  BY DEF TypeOK, Gens, Index
<1>6. OneExchange'
  <2>1. Len(proposals) = 0
    BY <1>2, EmptySeq
  <2> QED
    BY <1>2, <1>3, <2>1 DEF OneExchange, Bit
<1>7. MapOf' /\ MapsInPipe'
  BY <1>1, <1>2 DEF MapOf, MapsInPipe
<1>8. \A r \in DOMAIN pipe : pipe[r].type # "resp"
  BY <1>2, NoResponse
<1>9. OwedMeans' /\ CountsAhead'
  BY <1>2, <1>3, <1>4, <1>8 DEF OwedMeans, CountsAhead
<1>10. CarCounts'
  BY <1>1, <1>4 DEF CarCounts
<1>11. SyncUnlessDisturbed'
  <2> SUFFICES ASSUME ~disturbed, ~early PROVE Drift' = 0
    BY DEF SyncUnlessDisturbed
  <2>1. (cnum - Count(pipe, Moved) - Held) % KeyLen = 0
    BY <1>1 DEF CountsAhead
  <2>2. Drift' = (cnum - 0 - Count(pipe, Moved) - Held) % KeyLen
    BY DEF Drift, Held
  <2>3. cnum - 0 = cnum
    BY DEF TypeOK, Index
  <2> QED
    BY <2>1, <2>2, <2>3
<1> QED
  BY <1>5, <1>6, <1>7, <1>9, <1>10, <1>11

LEMMA CarReadStep == SyncInv /\ CarRead => SyncInv'
<1> SUFFICES ASSUME SyncInv, CarRead PROVE SyncInv'
  OBVIOUS
<1> USE BoundAssumption DEF SyncInv, WriterHasRoom, CarRead, clientKey, reader, writer,
                            carManager, history
<1>1. inhand' \in 1..Len(pipe) /\ Len(pipe) <= PipeCap /\ Len(pipe) \in Nat
  BY DEF TypeOK
<1>2. TypeOK'
  BY <1>1 DEF TypeOK
<1>3. Responded' <=> Responded
  BY DEF Responded
<1>4. OneExchange' /\ MapOf' /\ MapsInPipe' /\ OwedMeans' /\ CountsAhead'
  BY <1>3 DEF OneExchange, MapOf, MapsInPipe, OwedMeans, CountsAhead, Held
<1>5. CarCounts'
  BY <1>1 DEF CarCounts
<1>6. SyncUnlessDisturbed'
  BY SyncKept DEF Next
<1> QED
  BY <1>2, <1>4, <1>5, <1>6

\* What is said of the frames behind a start response holds of the frames that
\* remain when the car is done with the first.
LEMMA TailPipe ==
  ASSUME SyncInv, pipe # <<>>, pipe' = Tail(pipe),
         UNCHANGED <<clientKey, writer, disturbed>>
  PROVE  /\ Len(pipe') \in Nat /\ Len(pipe') = Len(pipe) - 1
         /\ \A i, j \in DOMAIN pipe' : pipe'[i].type = "resp" /\ i <= j => pipe'[j].map = gen
         /\ pending = 0 \/ Responded \/ Head(pipe).type = "resp" =>
              \A i \in DOMAIN pipe' : pipe'[i].map = gen
         /\ ~disturbed => \A r \in DOMAIN pipe' : pipe'[r].type = "resp" =>
              (cnum - Behind(pipe', r, Moved) - Held') % KeyLen = 0
         /\ ~disturbed /\ Head(pipe).type = "resp" =>
              (cnum - Count(pipe', Moved) - Held') % KeyLen = 0
<1> USE BoundAssumption DEF SyncInv
<1>0. pipe \in Seq(Frames)
  BY DEF TypeOK
<1>1. /\ Head(pipe) = pipe[1] /\ 1 \in DOMAIN pipe
      /\ Len(pipe) \in Nat \ {0} /\ DOMAIN pipe = 1..Len(pipe)
      /\ Len(pipe') = Len(pipe) - 1 /\ DOMAIN pipe' = 1..(Len(pipe) - 1)
      /\ \A i \in DOMAIN pipe' : i + 1 \in DOMAIN pipe /\ pipe'[i] = pipe[i + 1]
  BY HeadOfPipe
<1>2. Held' = Held
  BY DEF clientKey, writer, Held
<1>3. ASSUME NEW i \in DOMAIN pipe', NEW j \in DOMAIN pipe',
             pipe'[i].type = "resp", i <= j
      PROVE  pipe'[j].map = gen
  <2>1. i + 1 \in DOMAIN pipe /\ j + 1 \in DOMAIN pipe /\ i + 1 <= j + 1
    BY <1>1, <1>3
  <2> QED
    BY <1>1, <1>3, <2>1 DEF MapsInPipe
<1>4. ASSUME pending = 0 \/ Responded \/ Head(pipe).type = "resp"
      PROVE  \A i \in DOMAIN pipe' : pipe'[i].map = gen
  <2>1. \A j \in DOMAIN pipe : pipe[j].map = gen
    BY <1>1, <1>4 DEF MapsInPipe
  <2> QED
    BY <1>1, <2>1
<1>5. ASSUME NEW r \in DOMAIN pipe', pipe'[r].type = "resp", ~disturbed
      PROVE  (cnum - Behind(pipe', r, Moved) - Held') % KeyLen = 0
  <2>1. r \in Nat /\ r + 1 \in DOMAIN pipe /\ pipe[r + 1].type = "resp"
    BY <1>1, <1>5
  <2>2. (cnum - Behind(pipe, r + 1, Moved) - Held) % KeyLen = 0
    BY <1>5, <2>1 DEF CountsAhead
  <2>3. Behind(Tail(pipe), r, Moved) = Behind(pipe, r + 1, Moved)
    BY ONLY <1>0, <2>1, pipe # <<>>, BehindTail
  <2> QED
    BY <1>2, <2>2, <2>3
<1>6. ASSUME Head(pipe).type = "resp", ~disturbed
      PROVE  (cnum - Count(pipe', Moved) - Held') % KeyLen = 0
  <2>1. (cnum - Behind(pipe, 1, Moved) - Held) % KeyLen = 0
    BY <1>1, <1>6 DEF CountsAhead
  <2>2. Behind(Tail(pipe), 0, Moved) = Behind(pipe, 0 + 1, Moved)
    BY ONLY <1>0, pipe # <<>>, 0 \in Nat, BehindTail
  <2>3. Behind(pipe, 1, Moved) = Count(pipe', Moved)
    BY <2>2, 0 + 1 = 1 DEF Count
  <2> QED
    BY <1>2, <2>1, <2>3
<1> QED
  BY <1>1, <1>3, <1>4, <1>5, <1>6

LEMMA CarDecodeStep == SyncInv /\ CarDecode => SyncInv'
<1> SUFFICES ASSUME SyncInv, CarDecode PROVE SyncInv'
  OBVIOUS
<1> USE BoundAssumption DEF SyncInv
<1> DEFINE f == Head(pipe)
<1>0. /\ inhand > 0 /\ crpc = "decode"
      /\ early' = (early \/ (f.type = "send" /\ Responded))
      /\ UNCHANGED <<proposals, cmap, cnum, rpc, rgen, asked, sendQ, wpc, wmsg, wret, gen,
                     pending, carmap, carnum, called, cmpc, owed, disturbed>>
      /\ UNCHANGED <<clientKey, writer>>
  BY DEF CarDecode, clientKey, reader, writer, carManager
<1>1. pipe # <<>> /\ inhand \in Nat
  BY <1>0, EmptySeq DEF CarCounts, TypeOK
<1>2. early' \in BOOLEAN /\ (early => early') /\ (f.type = "send" /\ Responded => early')
  BY <1>0 DEF TypeOK
<1>3. SyncUnlessDisturbed'
  BY <1>0, <1>2, SyncKept DEF Next
<1>4. CASE f.type = "send" /\ carmap # 0
  <2>1. cret' = carnum /\ crpc' = "store" /\ UNCHANGED <<pipe, inhand, heard>>
    BY <1>4 DEF CarDecode
  <2>2. Responded' <=> Responded
    BY <1>0, <2>1 DEF Responded
  <2>3. TypeOK' /\ WriterHasRoom'
    BY <1>0, <1>2, <2>1 DEF TypeOK, WriterHasRoom
  <2>4. OneExchange' /\ MapOf' /\ MapsInPipe' /\ OwedMeans'
    BY <1>0, <2>1, <2>2 DEF OneExchange, MapOf, MapsInPipe, OwedMeans
  <2>5. CountsAhead'
    BY <1>0, <1>2, <2>1, <2>2 DEF CountsAhead, Held
  <2>6. CarCounts'
    BY <1>0, <1>2, <1>4, <2>1, <2>2 DEF CarCounts
  <2> QED
    BY <1>3, <2>3, <2>4, <2>5, <2>6
<1>5. CASE ~(f.type = "send" /\ carmap # 0)
  <2>1. /\ pipe' = Tail(pipe) /\ inhand' = inhand - 1 /\ heard' = heard + Bit(f.type = "resp")
        /\ UNCHANGED <<cret, crpc>>
    BY <1>5 DEF CarDecode
  <2>2. /\ f \in Frames /\ pipe' \in Seq(Frames) /\ Len(pipe') = Len(pipe) - 1
        /\ Len(pipe) \in Nat
        /\ Count(pipe, Responses) = Count(pipe', Responses) + Bit(f.type = "resp")
        /\ Count(pipe, Moved) = Count(pipe', Moved) + (IF f \in Moved THEN 1 ELSE 0)
        /\ Count(pipe', Responses) \in Nat /\ Count(pipe', Moved) \in Nat
    BY <1>1, <2>1, HeadOfPipe
  <2>3. /\ \A i, j \in DOMAIN pipe' : pipe'[i].type = "resp" /\ i <= j => pipe'[j].map = gen
        /\ pending = 0 \/ Responded \/ f.type = "resp" =>
              \A i \in DOMAIN pipe' : pipe'[i].map = gen
        /\ ~disturbed => \A r \in DOMAIN pipe' : pipe'[r].type = "resp" =>
              (cnum - Behind(pipe', r, Moved) - Held') % KeyLen = 0
        /\ ~disturbed /\ f.type = "resp" =>
              (cnum - Count(pipe', Moved) - Held') % KeyLen = 0
    BY <1>0, <1>1, <2>1, TailPipe
  <2>4. f.type = "resp" => /\ pending # 0 /\ proposals = <<>> /\ rpc = "read" /\ asked = 0
                           /\ Count(sendQ, {"resp"}) = 0 /\ ~(wpc = "put" /\ wmsg = "resp")
                           /\ Count(pipe, Responses) = 1 /\ ~Responded /\ heard = 0
                           /\ called = 0 /\ cmpc # "reset" /\ ~owed
    <3>1. f.type = "resp" => Count(pipe, Responses) > 0
      BY <2>2 DEF Bit
    <3> QED
      BY <3>1, Alone DEF Responded, TypeOK, OwedMeans
  <2>5. Responded' <=> Responded \/ f.type = "resp"
    BY <1>0, <2>1 DEF Responded, Bit, TypeOK
  <2>6. heard' \in 0..1
    BY <2>1, <2>4 DEF TypeOK, Bit
  <2>7. TypeOK' /\ WriterHasRoom'
    <3>1. Len(pipe') <= PipeCap /\ inhand' \in 0..PipeCap
      BY <1>0, <1>1, <2>1, <2>2 DEF TypeOK
    <3>2. TypeOK'
      BY <1>0, <1>2, <2>1, <2>2, <2>6, <3>1 DEF TypeOK
    <3> QED
      BY <1>0, <2>2, <3>2 DEF WriterHasRoom, TypeOK
  <2>8. OneExchange'
    <3> DEFINE b == Bit(f.type = "resp")
               p == Count(pipe, Responses)
               q == Count(pipe', Responses)
    <3>1. b \in Nat /\ p \in Nat /\ q \in Nat /\ p = q + b /\ heard \in Nat
          /\ heard' = heard + b
      BY <2>1, <2>2, Numbers DEF Bit, TypeOK
    <3>2. /\ Len(proposals) \in Nat /\ asked \in Nat /\ Count(sendQ, {"resp"}) \in Nat
          /\ Bit(rpc # "read") \in Nat /\ Bit(wpc = "put" /\ wmsg = "resp") \in Nat
          /\ called \in Nat /\ Bit(cmpc = "reset") \in Nat
      BY Numbers DEF Bit, TypeOK
    <3>3. Len(proposals) + Bit(rpc # "read") + asked + Count(sendQ, {"resp"})
            + Bit(wpc = "put" /\ wmsg = "resp") + p + heard + called + Bit(cmpc = "reset")
            <= Bit(pending # 0)
      BY DEF OneExchange
    <3> HIDE DEF b, p, q
    <3>4. Len(proposals) + Bit(rpc # "read") + asked + Count(sendQ, {"resp"})
            + Bit(wpc = "put" /\ wmsg = "resp") + q + heard' + called + Bit(cmpc = "reset")
            <= Bit(pending # 0)
      <4>1. p + heard = q + heard'
        BY <3>1
      <4> DEFINE t == Len(proposals) + Bit(rpc # "read") + asked + Count(sendQ, {"resp"})
                        + Bit(wpc = "put" /\ wmsg = "resp")
                 u == Bit(cmpc = "reset")
      <4>2. t \in Nat /\ u \in Nat /\ t + p + heard + called + u <= Bit(pending # 0)
        BY <3>2, <3>3
      <4> HIDE DEF t, u
      <4>3. t + q + heard' + called + u = t + p + heard + called + u
        BY <3>1, <3>2, <4>1, <4>2
      <4>4. t + q + heard' + called + u <= Bit(pending # 0)
        BY <4>2, <4>3
      <4> QED
        BY <4>4 DEF t, u
    <3> QED
      BY <1>0, <3>4 DEF OneExchange, q
  <2>9. MapOf' /\ MapsInPipe'
    BY <1>0, <2>3, <2>5 DEF MapOf, MapsInPipe
  <2>10. OwedMeans'
    <3>1. owed => Count(pipe', Responses) = 0 /\ f.type # "resp"
      BY <2>2, <2>4 DEF OwedMeans, Bit
    <3> QED
      BY <1>0, <2>5, <3>1 DEF OwedMeans
  <2>11. CountsAhead'
    <3>1. Responded /\ ~early' /\ f.type # "resp" => f \notin Moved /\ ~early
      BY <1>2 DEF Moved
    <3>2. Held' = Held
      BY <1>0 DEF Held
    <3>3. ASSUME ~disturbed, ~early', Responded'
          PROVE  (cnum - Count(pipe', Moved) - Held') % KeyLen = 0
      <4>1. CASE f.type = "resp"
        BY <2>3, <3>3, <4>1
      <4>2. CASE f.type # "resp"
        <5>1. Count(pipe', Moved) = Count(pipe, Moved) /\ Responded /\ ~early
          BY <2>2, <2>5, <3>1, <3>3, <4>2
        <5> QED
          BY <3>2, <3>3, <5>1 DEF CountsAhead
      <4> QED
        BY <4>1, <4>2
    <3> QED
      BY <1>0, <2>3, <3>3 DEF CountsAhead
  <2>12. CarCounts'
    BY <1>0, <1>1, <2>1, <2>2 DEF CarCounts
  <2> QED
    BY <1>3, <2>7, <2>8, <2>9, <2>10, <2>11, <2>12
<1> QED
  BY <1>4, <1>5

LEMMA CarStoreStep == SyncInv /\ CarStore => SyncInv'
<1> SUFFICES ASSUME SyncInv, CarStore PROVE SyncInv'
  OBVIOUS
<1> USE BoundAssumption DEF SyncInv
<1> DEFINE f == Head(pipe)
<1>0. /\ crpc = "store" /\ crpc' = "decode" /\ pipe' = Tail(pipe) /\ inhand' = inhand - 1
      /\ carnum' \in {Succ(carnum), Succ(cret)}
      /\ UNCHANGED <<proposals, cmap, cnum, rpc, rgen, asked, sendQ, wpc, wmsg, wret, gen,
                     pending, carmap, cret, heard, called, cmpc, owed, disturbed, early>>
      /\ UNCHANGED <<clientKey, writer>>
  BY DEF CarStore, clientKey, reader, writer, carManager, history
<1>1. /\ inhand > 0 /\ inhand \in Nat /\ pipe # <<>> /\ f.type = "send"
      /\ (Responded => early)
  BY <1>0, EmptySeq DEF CarCounts, TypeOK
<1>2. SyncUnlessDisturbed'
  BY <1>0, SyncKept DEF Next
<1>3. /\ pipe' \in Seq(Frames) /\ Len(pipe') = Len(pipe) - 1 /\ Len(pipe) \in Nat
      /\ Count(pipe, Responses) = Count(pipe', Responses) + Bit(f.type = "resp")
      /\ Count(pipe', Responses) \in Nat
  BY <1>0, <1>1, HeadOfPipe
<1>4. Count(pipe', Responses) = Count(pipe, Responses)
  BY <1>1, <1>3 DEF Bit
<1>5. Responded' <=> Responded
  BY <1>0 DEF Responded
<1>6. TypeOK' /\ WriterHasRoom'
  <2>1. Len(pipe') <= PipeCap /\ inhand' \in 0..PipeCap /\ carnum' \in Index
    BY <1>0, <1>1, <1>3, SuccIs DEF TypeOK
  <2>2. TypeOK'
    BY <1>0, <1>3, <2>1 DEF TypeOK
  <2> QED
    BY <1>0, <1>3, <2>2 DEF WriterHasRoom, TypeOK
<1>7. OneExchange' /\ MapOf' /\ OwedMeans'
  BY <1>0, <1>4, <1>5 DEF OneExchange, MapOf, OwedMeans
<1>8. /\ \A i, j \in DOMAIN pipe' : pipe'[i].type = "resp" /\ i <= j => pipe'[j].map = gen
      /\ pending = 0 \/ Responded => \A i \in DOMAIN pipe' : pipe'[i].map = gen
      /\ ~disturbed => \A r \in DOMAIN pipe' : pipe'[r].type = "resp" =>
           (cnum - Behind(pipe', r, Moved) - Held') % KeyLen = 0
  BY <1>0, <1>1, TailPipe
<1>9. MapsInPipe'
  BY <1>0, <1>5, <1>8 DEF MapsInPipe
<1>10. CountsAhead'
  BY <1>0, <1>1, <1>5, <1>8 DEF CountsAhead
<1>11. CarCounts'
  BY <1>0, <1>1, <1>3 DEF CarCounts
<1> QED
  BY <1>2, <1>6, <1>7, <1>9, <1>10, <1>11

LEMMA CarHandOutStep == SyncInv /\ CarHandOut => SyncInv'
<1> SUFFICES ASSUME SyncInv, CarHandOut PROVE SyncInv'
  OBVIOUS
<1> USE BoundAssumption DEF SyncInv, WriterHasRoom, CarHandOut, clientKey, reader, writer,
                            history
<1>1. Responded
  BY DEF Responded
<1>2. /\ pending # 0 /\ proposals = <<>> /\ rpc = "read" /\ asked = 0
      /\ Count(sendQ, {"resp"}) = 0 /\ ~(wpc = "put" /\ wmsg = "resp")
      /\ Count(pipe, Responses) = 0 /\ heard + called + Bit(cmpc = "reset") = 1
  BY <1>1, Alone
<1>3. heard = 1 /\ called = 0 /\ cmpc # "reset" /\ called' \in {0, 1}
  BY <1>2 DEF TypeOK, Bit
<1>4. ~owed
  BY <1>1 DEF OwedMeans
<1>5. TypeOK'
  BY <1>3 DEF TypeOK
<1>6. OneExchange'
  <2>1. heard = 1 /\ heard' = 0 /\ called = 0 /\ (called' = 0 \/ called' = 1)
    BY <1>3
  <2>2. UNCHANGED <<Proposed, InUpdate, asked, Answered, InWriter, OnTheWire, InAccept,
                    Pending>>
    BY StationsSame
  <2>3. Proposed + InUpdate + asked + Answered + InWriter + OnTheWire + 1 + 0 + InAccept
          <= Pending
    BY ONLY <2>1, OneExchangeIs, OneExchange
  <2>4. /\ Proposed \in Nat /\ InUpdate \in Nat /\ asked \in Nat /\ Answered \in Nat
        /\ InWriter \in Nat /\ OnTheWire \in Nat /\ InAccept \in Nat /\ Pending \in Nat
    BY Stations
  <2>5. Proposed + InUpdate + asked + Answered + InWriter + OnTheWire + 0 + called'
          + InAccept <= Pending
    <3> DEFINE S == Proposed + InUpdate + asked + Answered + InWriter + OnTheWire + InAccept
    <3>1. S \in Int /\ S + 1 <= Pending
      BY ONLY <2>3, <2>4
    <3>2. Proposed + InUpdate + asked + Answered + InWriter + OnTheWire + 0 + called'
            + InAccept = S + called'
      BY ONLY <2>1, <2>4
    <3> HIDE DEF S
    <3> QED
      BY ONLY <2>1, <2>4, <3>1, <3>2
  <2> QED
    BY ONLY <2>1, <2>2, <2>5, OneExchangeNext
<1>7. MapOf' /\ MapsInPipe'
  BY <1>1 DEF MapOf, MapsInPipe
<1>8. OwedMeans' /\ CountsAhead'
  BY <1>1, <1>2, <1>4 DEF OwedMeans, CountsAhead, Held
<1>9. CarCounts'
  BY <1>2 DEF CarCounts
<1>10. SyncUnlessDisturbed'
  BY <1>2 DEF SyncUnlessDisturbed, Settled
<1> QED
  BY <1>5, <1>6, <1>7, <1>8, <1>9, <1>10

LEMMA SyncStep == SyncInv /\ [Next]_vars => SyncInv'
<1> SUFFICES ASSUME SyncInv, [Next]_vars PROVE SyncInv'
  OBVIOUS
<1>1. CASE UNCHANGED vars
  BY <1>1 DEF vars, clientKey, reader, writer, car, carReader, carManager, history,
              SyncInv, TypeOK, WriterHasRoom, OneExchange, MapOf, MapsInPipe, OwedMeans,
              CountsAhead, CarCounts, Responded, SyncUnlessDisturbed, Settled, Held, Drift
<1> QED
  BY <1>1, ReaderBuildStep, ReaderBuiltStep, ReaderResetStep, ReaderDeliverStep,
     RespondStep, SendStep, WriterTakeStep, WriterStoreStep, WriterPutStep,
     CarRekeyStep, CarAcceptStep, CarResetStep, CarReadStep,
     CarDecodeStep, CarStoreStep, CarHandOutStep DEF Next

-----------------------------------------------------------------------------
(* The theorems.                                                           *)

LEMMA SyncAlways == Spec => []SyncInv
  BY SyncInit, SyncStep, PTL DEF Spec

\* Indices, maps and queues stay in range, whatever the writer reads while the
\* reader changes the key.
THEOREM TypeCorrect == Spec => []TypeOK
  BY SyncAlways, PTL DEF SyncInv

\* Once the car has taken a key into use, every frame that it decodes before its
\* next proposal was encoded with exactly that key map, although SKey and Update
\* share the map without a lock: no send can be drawn from a map half built and
\* arrive behind the start response.
THEOREM Fresh == Spec => []FreshKey
<1>1. SyncInv => FreshKey
  <2> SUFFICES ASSUME SyncInv, pending = 0, pipe # <<>> PROVE Head(pipe).map = carmap
    BY DEF FreshKey
  <2>1. Head(pipe) = pipe[1] /\ 1 \in DOMAIN pipe
    BY EmptySeq DEF SyncInv, TypeOK
  <2> QED
    BY <2>1 DEF SyncInv, MapsInPipe, MapOf
<1> QED
  BY <1>1, SyncAlways, PTL

\* When no key exchange is under way, client and car have counted the same
\* number of sends modulo a byte, unless the client's writer drew an index
\* between its reader's reset of sNum and the start response, or the car's
\* reader decoded a send between that response and its manager's reset.
THEOREM InSync == Spec => []SyncUnlessDisturbed
  BY SyncAlways, PTL DEF SyncInv

\* Between two exchanges no step changes the distance of the two counts: a drift
\* is neither added to nor made good by pings, acks or requests.
THEOREM Frozen == Spec => DriftIsFrozen
<1>1. SyncInv /\ [Next]_vars => [Settled /\ Settled' => Drift' = Drift]_vars
  BY DriftStep DEF Settled
<1> QED
  BY <1>1, SyncAlways, PTL DEF Spec, DriftIsFrozen

-----------------------------------------------------------------------------
(* The maps themselves, for every number N of byte values.  The invariant  *)
(* KeyInv of KeyMap is inductive: a swap keeps a map injective, and what    *)
(* was drawn lies below the index; hence no key is reused within a round.  *)


\* A swap of two entries leaves an injective map injective.
LEMMA SwapInjective ==
  ASSUME NEW f \in [Byte -> Byte], NEW a \in Byte, NEW b \in Byte,
         \A x, y \in Byte : f[x] = f[y] => x = y
  PROVE  /\ Swap(f, a, b) \in [Byte -> Byte]
         /\ \A x, y \in Byte : Swap(f, a, b)[x] = Swap(f, a, b)[y] => x = y
<1>1. Swap(f, a, b) \in [Byte -> Byte]
  BY DEF Swap
<1>2. \A x \in Byte : Swap(f, a, b)[x] = IF x = b THEN f[a]
                                         ELSE IF x = a THEN f[b] ELSE f[x]
  BY DEF Swap
<1>3. ASSUME NEW x \in Byte, NEW y \in Byte,
             Swap(f, a, b)[x] = Swap(f, a, b)[y]
      PROVE  x = y
  BY <1>2, <1>3
<1> QED
  BY <1>1, <1>3

\* The next index and the successor of an index are byte values.
LEMMA ByteStep ==
  ASSUME MapTypeOK, at < N
  PROVE  at \in Byte /\ NextIndex(index) \in Byte
<1>1. at \in Byte
  BY NAssumption DEF MapTypeOK, Byte
<1>2. keyMap[at] \in Nat /\ index \in Nat /\ securityKey \in Nat
  BY <1>1 DEF MapTypeOK, Byte
<1>3. \A k \in Nat : k % N \in Byte
  BY NAssumption DEF Byte
<1> QED
  BY <1>1, <1>2, <1>3 DEF NextIndex

LEMMA KeyInit == MapInit => KeyInv
<1> SUFFICES ASSUME MapInit PROVE KeyInv
  OBVIOUS
<1>1. MapTypeOK
  BY NAssumption DEF MapInit, MapTypeOK, Byte
<1>2. Injective
  BY DEF MapInit, Injective
<1>3. Drawn
  BY NAssumption DEF MapInit, Drawn
<1> QED
  BY <1>1, <1>2, <1>3 DEF KeyInv

LEMMA KeyStep == KeyInv /\ [MapNext]_mapVars => KeyInv'
<1> SUFFICES ASSUME KeyInv, [MapNext]_mapVars PROVE KeyInv'
  OBVIOUS
<1> USE DEF KeyInv
<1>1. CASE Shuffle
  <2>1. at \in Byte /\ index' \in Byte
    BY <1>1, ByteStep DEF Shuffle
  <2>2. keyMap' \in [Byte -> Byte] /\ Injective'
    <3>1. keyMap \in [Byte -> Byte]
      BY DEF MapTypeOK
    <3>2. \A x, y \in Byte : keyMap[x] = keyMap[y] => x = y
      BY DEF Injective
    <3>3. keyMap' = Swap(keyMap, at, index')
      BY <1>1 DEF Shuffle
    <3>4. /\ Swap(keyMap, at, index') \in [Byte -> Byte]
          /\ \A x, y \in Byte : Swap(keyMap, at, index')[x] = Swap(keyMap, at, index')[y]
                                => x = y
      <4> HIDE DEF KeyInv
      <4> QED
        BY ONLY <2>1, <3>1, <3>2, SwapInjective
    <3> QED
      BY <3>3, <3>4 DEF Injective
  <2>3. at' \in 0..N
    BY <1>1, NAssumption DEF Shuffle, MapTypeOK
  <2>4. MapTypeOK'
    BY <1>1, <2>1, <2>2, <2>3 DEF Shuffle, MapTypeOK
  <2>5. Drawn'
    BY <1>1 DEF Shuffle, Drawn
  <2> QED
    BY <2>2, <2>4, <2>5
<1>2. CASE SKey
  <2>1. sNum \in Byte /\ 0 \in Byte /\ keyMap \in [Byte -> Byte]
    BY NAssumption DEF MapTypeOK, Byte
  <2>2. sNum' \in Byte
    BY <1>2, <2>1, NAssumption DEF SKey, SuccByte, Byte
  <2>3. MapTypeOK'
    BY <1>2, <2>1, <2>2 DEF SKey, MapTypeOK
  <2>4. Injective'
    BY <1>2 DEF SKey, Injective
  <2>5. sNum' # 0 => sNum' = sNum + 1
    <3>1. CASE sNum = N - 1
      <4>1. N \in Nat /\ N > 0 /\ sNum + 1 = N
        BY <3>1, NAssumption
      <4>2. N % N = 0
        BY <4>1
      <4> QED
        BY <1>2, <4>1, <4>2 DEF SKey, SuccByte
    <3>2. CASE sNum # N - 1
      <4>1. N \in Nat /\ N > 0 /\ sNum + 1 \in Nat /\ sNum + 1 < N
        BY <2>1, <3>2, NAssumption DEF Byte
      <4>2. (sNum + 1) % N = sNum + 1
        BY <4>1
      <4> QED
        BY <1>2, <4>2 DEF SKey, SuccByte
    <3> QED
      BY <3>1, <3>2
  <2>6. sNum' # 0 => used' = {keyMap[a] : a \in 0..(sNum' - 1)}
    <3> SUFFICES ASSUME sNum' # 0
                 PROVE  used' = {keyMap[a] : a \in 0..(sNum' - 1)}
      OBVIOUS
    <3>1. sNum' - 1 = sNum
      BY <2>1, <2>5 DEF Byte
    <3>2. CASE sNum = 0
      BY <1>2, <2>1, <3>1, <3>2 DEF SKey
    <3>3. CASE sNum # 0
      <4>1. used = {keyMap[a] : a \in 0..(sNum - 1)}
        BY <3>3 DEF Drawn
      <4>2. 0..sNum = 0..(sNum - 1) \cup {sNum}
        BY <2>1 DEF Byte
      <4>3. used' = used \cup {keyMap[sNum]}
        BY <1>2, <3>3 DEF SKey
      <4> QED
        BY <3>1, <4>1, <4>2, <4>3
    <3> QED
      BY <3>2, <3>3
  <2>7. Drawn'
    <3>1. ~(at' < N)
      BY <1>2, NAssumption DEF SKey
    <3>2. keyMap' = keyMap
      BY <1>2 DEF SKey
    <3> QED
      BY <2>6, <3>1, <3>2 DEF Drawn
  <2> QED
    BY <2>3, <2>4, <2>7
<1>3. CASE UNCHANGED mapVars
  BY <1>3 DEF mapVars, MapTypeOK, Injective, Drawn
<1> QED
  BY <1>1, <1>2, <1>3 DEF MapNext

\* What was drawn lies below the index, so an injective map has no key of it at
\* the index.
LEMMA KeyImplies == KeyInv => NoReuse
<1> SUFFICES ASSUME KeyInv, at = N, sNum # 0, keyMap[sNum] \in used PROVE FALSE
  BY DEF NoReuse
<1> USE DEF KeyInv
<1>1. PICK a \in 0..(sNum - 1) : keyMap[sNum] = keyMap[a]
  BY DEF Drawn
<1>2. a \in Byte /\ sNum \in Byte /\ a # sNum
  BY <1>1, NAssumption DEF MapTypeOK, Byte
<1> QED
  BY <1>1, <1>2 DEF Injective

\* The key map has the right type at all times, for every number of byte values.
THEOREM MapTypeCorrect == MapSpec => []MapTypeOK
<1>1. KeyInv => MapTypeOK
  BY DEF KeyInv
<1> QED
  BY KeyInit, KeyStep, <1>1, PTL DEF MapSpec

\* The shuffle of Update never loses a key: the map is injective throughout.
THEOREM ShuffleInjective == MapSpec => []Injective
<1>1. KeyInv => Injective
  BY DEF KeyInv
<1> QED
  BY KeyInit, KeyStep, <1>1, PTL DEF MapSpec

\* No key of the map is drawn a second time before the index comes round.
THEOREM KeyNotReused == MapSpec => []NoReuse
  BY KeyInit, KeyStep, KeyImplies, PTL DEF MapSpec

=============================================================================
