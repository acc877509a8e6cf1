------------------------------ MODULE KeySync ------------------------------
(***************************************************************************)
(* The rolling key of protocol/raw.go as the client shares it between its  *)
(* reader, which installs a new key map when the car asks for a start, and *)
(* its writer, which draws the key of each frame.  SecurityKey has no lock *)
(* and the two run concurrently.                                           *)
(*                                                                         *)
(* The car follows emulator/: its manager proposes a key, and takes it     *)
(* into use, with the send index at zero, when the start response comes to *)
(* its listener.  Its reader, on another goroutine, decodes all frames of  *)
(* a Read, counting each CmdOutSend as the client counts those it encodes, *)
(* and hands them to the listener only then; nothing locks the key there   *)
(* either.  The two counts must not drift apart.                           *)
(*                                                                         *)
(* A key map is abstracted to the number of the proposal it was made from  *)
(* (0: none yet), the index arithmetic on a byte to KeyLen.  RKey is left  *)
(* out: its index is counted and never used to decode.  Reads end between  *)
(* frames (Framing has those that do not).                                 *)
(***************************************************************************)
EXTENDS Naturals, Integers, Sequences, Counting

CONSTANTS
  KeyLen,     \* entries of a key map: 256, the range of a byte
  MaxGen,     \* bound on the number of proposals
  SendCap,    \* capacity of Send: 5
  PipeCap     \* bound on the frames under way to the car

ASSUME BoundAssumption ==
  KeyLen \in Nat \ {0} /\ MaxGen \in Nat /\ SendCap \in Nat \ {0}
    /\ PipeCap \in Nat \ {0}

Gens  == 0..MaxGen
Torn  == MaxGen + 1      \* a key map that is being built
Index == 0..(KeyLen - 1)
Queued == {"resp", "send", "ping"}

VARIABLES
  proposals,   \* start requests under way to the client
  cmap,        \* client: key.keyMap
  cnum,        \* client: key.sNum
  rpc, rgen,   \* reader: step within Update, proposal in hand
  asked,       \* start requests in the manager's listener channel
  sendQ,       \* c.Send
  wpc, wmsg,   \* writer: step within SKey, frame in hand
  wret,        \* writer: the index it drew
  pipe,        \* encoded frames the car has not decoded, under way or read
  gen,         \* number of proposals so far
  pending,     \* car: the proposal not yet accepted, 0 if there is none
  carmap,      \* car: the key map in use
  carnum,      \* car: its send index
  inhand,      \* car's reader: frames of its Read that it has still to decode
  crpc, cret,  \* car's reader: step within SKey, the index it drew
  heard,       \* car's reader: start responses it has decoded of this Read
  called,      \* car: start responses in the manager's listener channel
  cmpc,        \* car's manager: step within AcceptProposal
  owed,        \* history: the client's index is reset, its response not drawn
  disturbed,   \* history: an index was drawn while a response was owed
  early        \* history: the car decoded a send between response and reset

clientKey  == <<cmap, cnum>>
reader     == <<rpc, rgen>>
writer     == <<wpc, wmsg, wret>>
carReader  == <<inhand, crpc, cret, heard>>
carManager == <<called, cmpc>>
car        == <<gen, pending, carmap, carnum, carReader, carManager>>
history    == <<owed, disturbed, early>>
vars == <<proposals, clientKey, reader, asked, sendQ, writer, pipe, car, history>>

Frames == [type : Queued, map : Gens \cup {Torn}, num : Index]

TypeOK ==
  /\ proposals \in Seq(1..MaxGen) /\ cmap \in Gens \cup {Torn} /\ cnum \in Index
  /\ rpc \in {"read", "build", "reset", "deliver"} /\ rgen \in Gens
  /\ asked \in 0..MaxGen
  /\ sendQ \in Seq(Queued) /\ Len(sendQ) <= SendCap
  /\ wpc \in {"take", "store", "put"} /\ wmsg \in Queued /\ wret \in Index
  /\ pipe \in Seq(Frames) /\ Len(pipe) <= PipeCap
  /\ gen \in Gens /\ pending \in Gens /\ carmap \in Gens /\ carnum \in Index
  /\ inhand \in 0..PipeCap /\ crpc \in {"decode", "store"} /\ cret \in Index
  /\ heard \in 0..1 /\ called \in 0..1 /\ cmpc \in {"wait", "reset"}
  /\ owed \in BOOLEAN /\ disturbed \in BOOLEAN /\ early \in BOOLEAN

Init ==
  /\ proposals = <<>> /\ cmap = 0 /\ cnum = 0
  /\ rpc = "read" /\ rgen = 0 /\ asked = 0
  /\ sendQ = <<>> /\ wpc = "take" /\ wmsg = "ping" /\ wret = 0 /\ pipe = <<>>
  /\ gen = 0 /\ pending = 0 /\ carmap = 0 /\ carnum = 0
  /\ inhand = 0 /\ crpc = "decode" /\ cret = 0 /\ heard = 0
  /\ called = 0 /\ cmpc = "wait"
  /\ owed = FALSE /\ disturbed = FALSE /\ early = FALSE

\* Mutation: an index wider than a byte.
SuccWide(n) == n + 1

\* Byte arithmetic on an index.
Succ(n) == (n + 1) % KeyLen

Bit(b) == IF b THEN 1 ELSE 0

-----------------------------------------------------------------------------
(* The client's reader: DecodeFromBytes of a start request, Update inside. *)

\* Mutation: the listeners see the frame before the key is updated.
ReaderBuildLate ==
  /\ rpc = "read" /\ proposals # <<>>
  /\ rgen' = Head(proposals) /\ proposals' = Tail(proposals)
  /\ cmap' = Torn
  /\ rpc' = "build"
  /\ asked' = asked + 1
  /\ UNCHANGED <<cnum, sendQ, writer, pipe, car, history>>

\* A fresh array is installed and filled in place.
ReaderBuild ==
  /\ rpc = "read" /\ proposals # <<>>
  /\ rgen' = Head(proposals) /\ proposals' = Tail(proposals)
  /\ cmap' = Torn
  /\ rpc' = "build"
  /\ UNCHANGED <<cnum, asked, sendQ, writer, pipe, car, history>>

ReaderBuilt ==
  /\ rpc = "build"
  /\ cmap' = rgen
  /\ rpc' = "reset"
  /\ UNCHANGED <<proposals, cnum, rgen, asked, sendQ, writer, pipe, car, history>>

\* Mutation: the indices go on counting.
ReaderNoReset ==
  /\ rpc = "reset"
  /\ rpc' = "deliver"
  /\ owed' = TRUE
  /\ UNCHANGED <<proposals, clientKey, rgen, asked, sendQ, writer, pipe, car,
                 disturbed, early>>

ReaderReset ==
  /\ rpc = "reset"
  /\ cnum' = 0
  /\ rpc' = "deliver"
  /\ owed' = TRUE
  /\ UNCHANGED <<proposals, cmap, rgen, asked, sendQ, writer, pipe, car,
                 disturbed, early>>

\* Only the decoded frame goes to the manager's listener.  If that is full it
\* misses the frame, and the exchange ends here.
ReaderDeliver ==
  /\ rpc = "deliver"
  /\ asked' \in {asked, asked + 1}
  /\ rpc' = "read"
  /\ UNCHANGED <<proposals, clientKey, rgen, sendQ, writer, pipe, car, history>>

-----------------------------------------------------------------------------
(* The client's senders.                                                   *)

\* The manager answers a start request.
Respond ==
  /\ asked > 0 /\ Len(sendQ) < SendCap
  /\ asked' = asked - 1
  /\ sendQ' = Append(sendQ, "resp")
  /\ UNCHANGED <<proposals, clientKey, reader, writer, pipe, car, history>>

\* Acks, requests and pings come at any time.
Send ==
  /\ Len(sendQ) < SendCap
  /\ \E m \in {"send", "ping"} : sendQ' = Append(sendQ, m)
  /\ UNCHANGED <<proposals, clientKey, reader, asked, writer, pipe, car, history>>

-----------------------------------------------------------------------------
(* The client's writer: EncodeToBytes, SKey inside, then Write.            *)

\* Mutation: every frame but the start response moves the index.
MovesAll(m) == m # "resp"

\* Only CmdOutSend moves the index.
Moves(m) == m = "send"

\* Take a frame; SKey reads the index, unless there is no key map.
WriterTake ==
  /\ wpc = "take" /\ sendQ # <<>> /\ Len(pipe) < PipeCap
  /\ wmsg' = Head(sendQ) /\ sendQ' = Tail(sendQ)
  /\ wret' = cnum
  /\ wpc' = IF Moves(Head(sendQ)) /\ cmap # 0 THEN "store" ELSE "put"
  /\ owed' = (owed /\ Head(sendQ) # "resp")
  /\ UNCHANGED <<proposals, clientKey, reader, asked, pipe, car, disturbed, early>>

\* sNum++: the index is read again, or the value just read is used.
WriterStore ==
  /\ wpc = "store"
  /\ cnum' \in {Succ(cnum), Succ(wret)}
  /\ disturbed' = (disturbed \/ owed)
  /\ wpc' = "put"
  /\ UNCHANGED <<proposals, cmap, reader, asked, sendQ, wmsg, wret, pipe, car, owed,
                 early>>

\* The key is looked up and the encoded frame written.
WriterPut ==
  /\ wpc = "put"
  /\ pipe' = Append(pipe, [type |-> wmsg, map |-> cmap, num |-> wret])
  /\ wpc' = "take"
  /\ UNCHANGED <<proposals, clientKey, reader, asked, sendQ, wmsg, wret, car, history>>

-----------------------------------------------------------------------------
(* The car: its manager.                                                   *)

\* It proposes a key, at the start and at occasional times.
CarRekey ==
  /\ cmpc = "wait" /\ pending = 0 /\ gen < MaxGen
  /\ gen' = gen + 1 /\ pending' = gen + 1
  /\ proposals' = Append(proposals, gen + 1)
  /\ disturbed' = FALSE /\ early' = FALSE
  /\ UNCHANGED <<clientKey, reader, asked, sendQ, writer, pipe, carmap, carnum,
                 carReader, carManager, owed>>

\* The start response: a pending proposal is installed, any other ignored.
CarAccept ==
  /\ cmpc = "wait" /\ called > 0
  /\ called' = called - 1
  /\ IF pending # 0 THEN carmap' = pending /\ cmpc' = "reset"
                    ELSE UNCHANGED <<carmap, cmpc>>
  /\ UNCHANGED <<proposals, clientKey, reader, asked, sendQ, writer, pipe, gen,
                 pending, carnum, carReader, history>>

\* The rest of AcceptProposal: the send index is reset, the proposal is done.
CarReset ==
  /\ cmpc = "reset"
  /\ carnum' = 0 /\ pending' = 0
  /\ cmpc' = "wait"
  /\ UNCHANGED <<proposals, clientKey, reader, asked, sendQ, writer, pipe, gen,
                 carmap, carReader, called, history>>

-----------------------------------------------------------------------------
(* The car: its reader.                                                    *)

\* The start response is decoded, and its key not yet taken into use.
Responded == heard > 0 \/ called > 0 \/ cmpc = "reset"

\* A Read returns some of the frames that have come, when the last is done with.
CarRead ==
  /\ inhand = 0 /\ heard = 0
  /\ inhand' \in 1..Len(pipe)
  /\ UNCHANGED <<proposals, clientKey, reader, asked, sendQ, writer, pipe, gen,
                 pending, carmap, carnum, crpc, cret, heard, carManager, history>>

\* A frame is decoded; for a send, SKey reads the index if there is a key map.
CarDecode ==
  /\ inhand > 0 /\ crpc = "decode"
  /\ LET f == Head(pipe) IN
       /\ early' = (early \/ (f.type = "send" /\ Responded))
       /\ \/ /\ f.type = "send" /\ carmap # 0
             /\ cret' = carnum /\ crpc' = "store"
             /\ UNCHANGED <<pipe, inhand, heard>>
          \/ /\ f.type # "send" \/ carmap = 0
             /\ pipe' = Tail(pipe) /\ inhand' = inhand - 1
             /\ heard' = heard + Bit(f.type = "resp")
             /\ UNCHANGED <<cret, crpc>>
  /\ UNCHANGED <<proposals, clientKey, reader, asked, sendQ, writer, gen, pending,
                 carmap, carnum, carManager, owed, disturbed>>

\* sNum++, from what was read or from a second read.
CarStore ==
  /\ crpc = "store"
  /\ carnum' \in {Succ(carnum), Succ(cret)}
  /\ pipe' = Tail(pipe) /\ inhand' = inhand - 1
  /\ crpc' = "decode"
  /\ UNCHANGED <<proposals, clientKey, reader, asked, sendQ, writer, gen, pending,
                 carmap, cret, heard, carManager, history>>

\* When all of the Read is decoded the listener gets it, or misses it if full.
CarHandOut ==
  /\ inhand = 0 /\ heard > 0
  /\ called' \in {called, called + heard}
  /\ heard' = 0
  /\ UNCHANGED <<proposals, clientKey, reader, asked, sendQ, writer, pipe, gen,
                 pending, carmap, carnum, inhand, crpc, cret, cmpc, history>>

-----------------------------------------------------------------------------

Next == \/ ReaderBuild \/ ReaderBuilt \/ ReaderReset \/ ReaderDeliver
        \/ Respond \/ Send
        \/ WriterTake \/ WriterStore \/ WriterPut
        \/ CarRekey \/ CarAccept \/ CarReset
        \/ CarRead \/ CarDecode \/ CarStore \/ CarHandOut

Spec == Init /\ [][Next]_vars

-----------------------------------------------------------------------------
(* Properties.                                                             *)

\* No key exchange is under way, nor the count of a frame that was begun before
\* the last one ended.
Settled == pending = 0 /\ (crpc = "store" => cret = carnum)

\* Frames that moved the client's index and are not yet counted by the car.
Moved == {f \in Frames : f.type = "send" /\ f.map # 0}
Held  == Bit(wpc = "put" /\ wmsg = "send" /\ cmap # 0)

\* How far the client's count is ahead of the car's.
Drift == (cnum - carnum - Count(pipe, Moved) - Held) % KeyLen

\* Once the car has taken a key into use, every frame that it decodes before its
\* next proposal was encoded with exactly that key map: none with the old one,
\* none with one half built, although reader and writer share the map without a
\* lock.
FreshKey ==
  pending = 0 /\ pipe # <<>> => Head(pipe).map = carmap

\* When no key exchange is under way, the two counts agree, unless an index was
\* drawn in one of two windows, the only ones in which the unlocked sharing of
\* the key does lasting harm: by the client's writer between its reader's reset
\* and the start response, or by the car's reader between the start response and
\* its manager's reset.
SyncUnlessDisturbed == Settled /\ ~disturbed /\ ~early => Drift = 0

\* Between two key exchanges the distance never changes: whatever drift an
\* exchange leaves stays until the next, no ping or ack adds to it, and it is
\* never made good.
DriftIsFrozen == [][Settled /\ Settled' => Drift' = Drift]_vars

-----------------------------------------------------------------------------
(* The inductive invariant behind them.                                    *)

Responses == {f \in Frames : f.type = "resp"}

\* A pending proposal is in at most one place: on its way to the client as a
\* request, or on its way back as a response, up to the car's manager.
OneExchange ==
  Len(proposals) + Bit(rpc # "read") + asked + Count(sendQ, {"resp"})
    + Bit(wpc = "put" /\ wmsg = "resp") + Count(pipe, Responses)
    + heard + called + Bit(cmpc = "reset")
  <= Bit(pending # 0)

\* Which proposal each side is at.
MapOf ==
  /\ pending \in {0, gen}
  /\ carmap = IF pending = 0 \/ cmpc = "reset" THEN gen ELSE gen - 1
  /\ \A i \in DOMAIN proposals : proposals[i] = gen
  /\ rpc # "read" => rgen = gen
  /\ cmap = IF proposals # <<>> THEN gen - 1 ELSE IF rpc = "build" THEN Torn ELSE gen

\* A start response, and all that follows it, is encoded with the proposal.
MapsInPipe ==
  /\ pending = 0 \/ Responded => \A i \in DOMAIN pipe : pipe[i].map = gen
  /\ \A i, j \in DOMAIN pipe :
       pipe[i].type = "resp" /\ i <= j => pipe[j].map = gen

\* A response that is owed is not yet on the wire.  What the writer read is
\* stale only after a reset, in the disturbed window.
OwedMeans ==
  /\ rpc = "deliver" \/ asked > 0 \/ Count(sendQ, {"resp"}) > 0 => owed
  /\ owed => /\ pending # 0 /\ proposals = <<>> /\ rpc \in {"read", "deliver"}
             /\ ~(wpc = "put" /\ wmsg = "resp") /\ Count(pipe, Responses) = 0
             /\ ~Responded
  /\ wpc = "store" => wmsg = "send" /\ cmap # 0 /\ (wret = cnum \/ owed)

\* From the reset on, the client's count is that of the sends behind the start
\* response, wherever that is, until the car has reset its own.
CountsAhead ==
  ~disturbed =>
    /\ owed \/ (wpc = "put" /\ wmsg = "resp") => cnum = 0
    /\ \A r \in DOMAIN pipe : pipe[r].type = "resp" =>
         (cnum - Behind(pipe, r, Moved) - Held) % KeyLen = 0
    /\ Responded /\ ~early => (cnum - Count(pipe, Moved) - Held) % KeyLen = 0

\* What the car's reader read is stale only after a reset, in the early window.
CarCounts ==
  /\ inhand <= Len(pipe)
  /\ crpc = "store" =>
       /\ inhand > 0 /\ Head(pipe).type = "send" /\ carmap # 0
       /\ Responded => early
       /\ pending = 0 => cret = carnum \/ early

\* A frame is taken only when there is room for it.
WriterHasRoom == wpc # "take" => Len(pipe) < PipeCap

SyncInv == /\ TypeOK /\ WriterHasRoom /\ OneExchange /\ MapOf /\ MapsInPipe /\ OwedMeans
           /\ CountsAhead /\ CarCounts /\ SyncUnlessDisturbed

=============================================================================
