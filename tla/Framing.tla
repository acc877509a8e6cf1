------------------------------ MODULE Framing -------------------------------
(***************************************************************************)
(* Frames on the wire: how the car's frames, run together in one TCP       *)
(* stream and encoded with a rolling xor, are cut out of single reads      *)
(* (protocol/message.go, protocol/raw.go, the Read of client.go).          *)
(*                                                                         *)
(* Each Read is parsed by itself; nothing is kept of one for the next.  A  *)
(* frame is [type][length][ack][register][data...][checksum], every byte   *)
(* xored with one key byte.  The parser does not use the receive key: it   *)
(* guesses the xor from the third byte, which is 0 or 1 when decoded.      *)
(* Bytes are 8 bits wide.  The session key is kept as the eight bytes it   *)
(* is computed from (module KeyMap), <<>> when it was cleared.             *)
(***************************************************************************)
EXTENDS Naturals, Sequences, FiniteSets

CONSTANTS
  CarFrames,   \* frames the car sends: records of type, ack, register, data
  CarKeys,     \* the bytes with which it encodes, in their order
  MaxFrames,   \* bound on the frames sent
  MaxCuts      \* bound on the reads that end inside a frame

Byte == 0..255

CmdInResp  == 111    \* 0x6f
StartTypes == {110, 94, 78}    \* 0x6e, 0x5e, 0x4e: CmdInMy24/18/14StartReq

\* What a frame carries (protocol/README.md): a request or an acknowledgement of
\* one; a start request a key of eight bytes, an acknowledgement one byte.
ASSUME FrameAssumption ==
  /\ CarFrames \subseteq [type : Byte, ack : {0, 1}, register : Byte, data : Seq(Byte)]
  /\ \A f \in CarFrames : /\ Len(f.data) <= 250
                          /\ f.ack = 1 => Len(f.data) % 2 = 1
                          /\ f.type \in StartTypes => Len(f.data) >= 8
  /\ CarKeys \in Seq(Byte) /\ CarKeys # <<>>
  /\ MaxFrames \in Nat /\ MaxCuts \in Nat

VARIABLES
  sent,    \* frames the car has sent
  rkey,    \* frames of type CmdInResp among them: index into the car's keys
  rest,    \* frames on the way that have not been read at all, with their bytes
  tail,    \* the bytes of a frame that the last read cut through
  data,    \* what NewFromBytes has still to parse of the last read
  got,     \* messages parsed
  live,    \* what the client's session key comes from
  panic,   \* the parser has sliced out of bounds

  cuts,    \* reads that ended inside a frame
  expect,  \* the frames that data begins with, if the read began with one (history)
  clean,   \* nothing was read behind a frame with ack set (history)
  skipped  \* the last read did not begin with a frame (history)

wire   == <<sent, rkey, rest>>
client == <<got, live, panic>>
vars   == <<wire, tail, data, client, cuts, expect, clean, skipped>>

-----------------------------------------------------------------------------
(* Encoding.                                                               *)

\* Exclusive or of two bytes: the bits, by weight, in which they differ.
Differ(a, b, weight) ==
  IF (a \div weight) % 2 = (b \div weight) % 2 THEN 0 ELSE weight
Xor(a, b) == Differ(a, b, 1) + Differ(a, b, 2) + Differ(a, b, 4) + Differ(a, b, 8)
               + Differ(a, b, 16) + Differ(a, b, 32) + Differ(a, b, 64) + Differ(a, b, 128)

XorTable == [a \in Byte |-> [b \in Byte |-> Xor(a, b)]]
XorMessageWith(m, x) == [i \in DOMAIN m |-> XorTable[m[i]][x]]

\* Sum of the first n bytes.
Sum(m, n) == LET s[i \in 0..n] == IF i = 0 THEN 0 ELSE (s[i - 1] + m[i]) % 256
             IN  s[n]

\* Checksum and ValidateChecksum, for a message that is long enough.
ValidateChecksum(m) ==
  LET length == m[2] + 2
  IN  Len(m) >= length /\ Sum(m, length - 1) = m[length]

\* EncodeToBytes with the given xor.
EncodeToBytes(f, xor) ==
  LET body == <<f.type, Len(f.data) + 3, f.ack, f.register>> \o f.data
  IN  XorMessageWith(Append(body, Sum(body, Len(body))), xor)

-----------------------------------------------------------------------------
(* Decoding.                                                               *)

From(d, o) == SubSeq(d, o + 1, Len(d))

\* Mutation: the third byte is the only xor that is tried.
XorsThird(m) ==
  {x \in {m[i] : i \in DOMAIN m \cap {3}} :
     Len(m) >= 4 /\ ValidateChecksum(XorMessageWith(m, x))}

\* The xors under which m begins with a valid frame: the third byte, or that
\* with the lowest bit flipped.
Xors(m) ==
  IF Len(m) < 4 THEN {}
  ELSE {x \in {m[3], XorTable[m[3]][1]} : ValidateChecksum(XorMessageWith(m, x))}

\* ValidateAndDecodeMessage: the third byte itself comes first.
XorOf(m) == IF m[3] \in Xors(m) THEN m[3] ELSE XorTable[m[3]][1]
Decoded(m) ==
  LET msg == XorMessageWith(m, XorOf(m)) IN SubSeq(msg, 1, msg[2] + 2)

\* DecodeFromBytes on the decoded bytes m of a frame.
Message(m) == [type |-> m[1], ack |-> m[3], register |-> m[4],
               data |-> SubSeq(m, 5, Len(m) - 1)]

\* Mutation: the last byte of the key is forgotten.
UpdateShort(raw) == IF Len(raw) < 12 THEN <<>> ELSE SubSeq(raw, 5, 11)

\* Mutation: the key is taken one byte too early.
UpdateEarly(raw) == IF Len(raw) < 12 THEN <<>> ELSE SubSeq(raw, 4, 11)

\* SecurityKey.Update with the bytes of a start request as they came.
Update(raw) == IF Len(raw) < 12 THEN <<>> ELSE SubSeq(raw, 5, 12)

\* The session key after the frame raw found at offset o: behind skipped bytes
\* the frame works on a Snapshot of it.
KeyAfter(raw, o, key) ==
  IF o = 0 /\ Decoded(raw)[1] \in StartTypes THEN Update(raw) ELSE key

\* Where NewFromBytes looks for a frame: at the start, and then up to the
\* seventh byte from the end.
Offsets(d) == {0} \cup {o \in 1..Len(d) : o + 6 < Len(d)}
Found(d) == {o \in Offsets(d) : Xors(From(d, o)) # {}}

-----------------------------------------------------------------------------
Init ==
  /\ sent = <<>> /\ rkey = 0 /\ rest = <<>> /\ tail = <<>> /\ data = <<>>
  /\ got = <<>> /\ live = <<>> /\ panic = FALSE
  /\ cuts = 0 /\ expect = <<>> /\ clean = TRUE /\ skipped = FALSE

\* The car sends a frame: a start request as it is, anything else with the key
\* whose turn it is (protocol/README.md).
CarSend ==
  /\ Len(sent) < MaxFrames
  /\ \E f \in CarFrames :
       LET xor == IF f.type \in StartTypes THEN 0
                  ELSE CarKeys[1 + (rkey % Len(CarKeys))]
       IN  /\ sent' = Append(sent, f)
           /\ rest' = Append(rest, [frame |-> f, bytes |-> EncodeToBytes(f, xor)])
           /\ rkey' = IF f.type = CmdInResp THEN rkey + 1 ELSE rkey
  /\ UNCHANGED <<tail, data, client, cuts, expect, clean, skipped>>

\* The bytes of frames that follow each other.
Flat(s) == LET f[i \in 0..Len(s)] == IF i = 0 THEN <<>> ELSE f[i - 1] \o s[i].bytes
           IN  f[Len(s)]

\* The reader hands the bytes d to NewFromBytes when it is through with those of
\* the last read.  The first n frames on the way are whole in d, and end it
\* unless more is set: only the last byte of all may be that of an ack.
Read(d, n, more) ==
  LET inTurn == \A i \in 1..n : (i < n \/ more) => rest[i].frame.ack = 0
  IN  /\ data = <<>> /\ ~panic
      /\ data' = d
      /\ skipped' = (Xors(d) = {})
      /\ expect' = IF tail = <<>> /\ inTurn THEN SubSeq(rest, 1, n) ELSE <<>>
      /\ clean' = (clean /\ inTurn)
      /\ UNCHANGED <<sent, rkey, client>>

\* A Read that returns up to the end of the n-th frame.
ReadWhole ==
  \E n \in 1..Len(rest) :
    /\ Read(tail \o Flat(SubSeq(rest, 1, n)), n, FALSE)
    /\ rest' = SubSeq(rest, n + 1, Len(rest)) /\ tail' = <<>>
    /\ UNCHANGED cuts

\* A Read that ends inside a frame.
ReadCut ==
  /\ cuts < MaxCuts
  /\ cuts' = cuts + 1
  /\ \E n \in 1..Len(rest) : \E c \in 1..(Len(rest[n].bytes) - 1) :
       /\ Read(tail \o Flat(SubSeq(rest, 1, n - 1)) \o SubSeq(rest[n].bytes, 1, c),
               n - 1, TRUE)
       /\ tail' = From(rest[n].bytes, c) /\ rest' = SubSeq(rest, n + 1, Len(rest))

\* A Read of what is left of a frame that was cut, before the next one.
ReadTail ==
  /\ tail # <<>>
  /\ Read(tail, 0, FALSE) /\ tail' = <<>>
  /\ UNCHANGED <<rest, cuts>>

-----------------------------------------------------------------------------
(* NewFromBytes, one turn of its loop at a time.                           *)

\* Where the next frame begins, and its decoded bytes.
First == CHOOSE o \in Found(data) : \A p \in Found(data) : o <= p
Frame == Decoded(From(data, First))

\* The search ends at the end of the bytes; less than four bytes of a frame are
\* an error that ends it too.
Stop ==
  /\ data # <<>> /\ ~panic
  /\ Found(data) # {} => Len(Frame) < 4
  /\ data' = <<>> /\ expect' = <<>>
  /\ UNCHANGED <<wire, tail, client, cuts, clean, skipped>>

\* Four bytes have no room for the data, and with 257 the length wraps.
Panic ==
  /\ data # <<>> /\ ~panic
  /\ Found(data) # {} /\ Len(Frame) \in {4, 257}
  /\ panic' = TRUE
  /\ UNCHANGED <<wire, tail, data, got, live, cuts, expect, clean, skipped>>

Deliver ==
  /\ data # <<>> /\ ~panic
  /\ Found(data) # {} /\ Len(Frame) >= 4 /\ Len(Frame) \notin {4, 257}
  /\ LET d == From(data, First)
         l == Len(Frame)
     IN  /\ got' = Append(got, Message(Frame))
         /\ live' = KeyAfter(SubSeq(d, 1, l), First, live)
         /\ data' = From(d, l)
  /\ expect' = IF expect = <<>> THEN <<>> ELSE Tail(expect)
  /\ UNCHANGED <<wire, tail, panic, cuts, clean, skipped>>

Next == CarSend \/ ReadWhole \/ ReadCut \/ ReadTail \/ Stop \/ Panic \/ Deliver

Spec == Init /\ [][Next]_vars

-----------------------------------------------------------------------------
Messages == [type : Byte, ack : {0, 1}, register : Byte, data : Seq(Byte)]
Packets  == [frame : CarFrames, bytes : Seq(Byte)]

\* Every variable keeps its type.
TypeOK ==
  /\ sent \in Seq(CarFrames) /\ Len(sent) <= MaxFrames
  /\ rkey \in Nat /\ rkey <= Len(sent) /\ cuts \in 0..MaxCuts
  /\ rest \in Seq(Packets) /\ expect \in Seq(Packets)
  /\ tail \in Seq(Byte) /\ data \in Seq(Byte)
  /\ got \in Seq(Messages)
  /\ live \in Seq(Byte) /\ Len(live) \in {0, 8}
  /\ panic \in BOOLEAN /\ clean \in BOOLEAN /\ skipped \in BOOLEAN

\* The key a start request brings, and that of the last one in s.
KeyOf(f) == SubSeq(f.data, 1, 8)
Starts(s) == {i \in DOMAIN s : s[i].type \in StartTypes}
LastKey(s) == IF Starts(s) = {} THEN <<>>
              ELSE KeyOf(s[CHOOSE i \in Starts(s) : \A j \in Starts(s) : j <= i])

\* As long as no read cuts a frame, the client sees exactly what the car sent,
\* in order, whatever keys it was encoded with and however many frames one read
\* returns, its key is that of the last start request, and the parser never
\* slices out of bounds.  A frame with ack set must be the last of its read:
\* behind it the guess of the xor can fail.
ExactWhenWhole ==
  clean /\ cuts = 0 =>
    /\ Len(got) <= Len(sent) /\ got = SubSeq(sent, 1, Len(got))
    /\ data = <<>> => Len(got) = Len(sent) - Len(rest)
    /\ live = LastKey(got) /\ ~panic

\* A loss ends with the first read that begins with a frame: whatever was lost
\* or misread before, each turn of the loop delivers the next frame of that
\* read, and a start request sets the key again.
BackInStep ==
  [][expect # <<>> /\ (data' # data \/ panic')
     => LET f == Head(expect).frame
        IN  /\ ~panic' /\ got' = Append(got, f)
            /\ live' = IF f.type \in StartTypes THEN KeyOf(f) ELSE live]_vars

Genuine(key) == \E i \in Starts(sent) : key = KeyOf(sent[i])

\* What a read that does not begin with a frame is taken for never damages the
\* session key: "the live SecurityKey is replaced with a snapshot so that a
\* false-positive CmdInMy18StartReq cannot regenerate the keymap and corrupt all
\* subsequent outgoing frames" (NewFromBytes).
KeyUndisturbed ==
  [][skipped' /\ clean' /\ live' # live => Genuine(live')]_vars

-----------------------------------------------------------------------------
(* The inductive strengthening.                                            *)

FramesOf(s) == [i \in DOMAIN s |-> s[i].frame]

\* The bytes of a packet are an encoding of its frame.
Encoded(p) == \E x \in Byte : /\ p.frame.type \in StartTypes => x = 0
                             /\ p.bytes = EncodeToBytes(p.frame, x)

WireInv == /\ \A i \in DOMAIN rest : Encoded(rest[i])
           /\ \A i \in DOMAIN expect : Encoded(expect[i])

\* The data begin with the bytes of the frames expected, only the last byte of
\* all is that of an ack, and the parser has not failed on them.
TurnInv ==
  LET b == Flat(expect)
  IN  /\ expect # <<>> => ~panic
      /\ Len(b) <= Len(data) /\ SubSeq(data, 1, Len(b)) = b
      /\ \A i \in DOMAIN expect :
           (i < Len(expect) \/ Len(b) < Len(data)) => expect[i].frame.ack = 0

\* What was delivered, what is being parsed and what is on the way are what was
\* sent.
ExactInv ==
  clean /\ cuts = 0 =>
    /\ tail = <<>> /\ data = Flat(expect)
    /\ sent = got \o FramesOf(expect) \o FramesOf(rest)
    /\ live = LastKey(got) /\ ~panic

FramingInv == TypeOK /\ WireInv /\ TurnInv /\ ExactInv
=============================================================================
