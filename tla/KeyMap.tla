------------------------------- MODULE KeyMap -------------------------------
(***************************************************************************)
(* The key schedule of protocol/raw.go.  Update turns the security key, a  *)
(* byte, into a key map by a shuffle of all byte values; SKey(true) then   *)
(* draws one entry after the other, with an index that wraps around like   *)
(* the byte it is.  (That Update and SKey run on different goroutines is   *)
(* the subject of KeySync.)                                                *)
(***************************************************************************)
EXTENDS Naturals

CONSTANT N      \* number of byte values, 256

ASSUME NAssumption == N \in Nat \ {0}

Byte == 0..(N - 1)

VARIABLES
  securityKey,  \* s.securityKey
  keyMap,       \* s.keyMap
  at, index,    \* loop counter and running index of Update
  sNum,         \* s.sNum
  used          \* history: keys drawn since sNum was last zero

mapVars == <<securityKey, keyMap, at, index, sNum, used>>

MapTypeOK ==
  /\ securityKey \in Byte
  /\ keyMap \in [Byte -> Byte]
  /\ at \in 0..N /\ index \in Byte /\ sNum \in Byte
  /\ used \subseteq Byte

\* Update, up to its second loop: any key, the identity map.
MapInit ==
  /\ securityKey \in Byte
  /\ keyMap = [b \in Byte |-> b]
  /\ at = 0 /\ index = 0 /\ sNum = 0 /\ used = {}

\* Mutation: the swap without its temporary variable.
SwapInPlace(f, a, b) == [f EXCEPT ![a] = f[b]]

\* Exchange the entries at a and b.
Swap(f, a, b) == [f EXCEPT ![a] = f[b], ![b] = f[a]]

NextIndex(x) == (x + keyMap[at] + securityKey) % N

Shuffle ==
  /\ at < N
  /\ index' = NextIndex(index)
  /\ keyMap' = Swap(keyMap, at, index')
  /\ at' = at + 1
  /\ UNCHANGED <<securityKey, sNum, used>>

\* Mutation: the index stops at its last value.
SuccSaturating(n) == IF n < N - 1 THEN n + 1 ELSE n

SuccByte(n) == (n + 1) % N

\* SKey(true), once the map is complete.
SKey ==
  /\ at = N
  /\ used' = IF sNum = 0 THEN {keyMap[0]} ELSE used \cup {keyMap[sNum]}
  /\ sNum' = SuccByte(sNum)
  /\ UNCHANGED <<securityKey, keyMap, at, index>>

MapNext == Shuffle \/ SKey

MapSpec == MapInit /\ [][MapNext]_mapVars

-----------------------------------------------------------------------------

\* The shuffle loses no key: at every point all entries of the map differ.
Injective == \A a, b \in Byte : keyMap[a] = keyMap[b] => a = b

\* A key is not used again before the index comes round: the key that is drawn
\* next was not drawn since the index was zero.
NoReuse == at = N /\ sNum # 0 => keyMap[sNum] \notin used

\* The keys drawn so far are the entries below the index (all, at a wrap).
Drawn ==
  /\ at < N => sNum = 0 /\ used = {}
  /\ sNum # 0 => used = {keyMap[a] : a \in 0..(sNum - 1)}

\* The inductive invariant.
KeyInv == MapTypeOK /\ Injective /\ Drawn
=============================================================================
