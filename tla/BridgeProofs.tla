---------------------------- MODULE BridgeProofs ----------------------------
(***************************************************************************)
(* Proofs about the MQTT bridge, for any modes, states and readings the    *)
(* car may report, any discovery topics and any bound on the outages: what *)
(* the broker shows is what the car reported last, unless it was lost, and *)
(* discovery counts as published only if it is.                            *)
(***************************************************************************)
EXTENDS Bridge, TLAPS

-----------------------------------------------------------------------------
(* The climate states and their publication.                               *)

\* mqttStates has a payload for each topic of the climate.
LEMMA MqttStatesType ==
  ASSUME NEW m \in AllModes \cup {"none"}, NEW s \in AllStates \cup {"none"}
  PROVE  /\ DOMAIN MqttStates(m, s) = ClimateTopics
         /\ \A t \in ClimateTopics : MqttStates(m, s)[t] \in Payloads
<1>1. DOMAIN MqttStates(m, s) = ClimateTopics
  BY DEF MqttStates
<1>2. ASSUME NEW t \in ClimateTopics PROVE MqttStates(m, s)[t] \in Payloads
  BY <1>2 DEF MqttStates, Payloads, AllModes, AllStates
<1> QED BY <1>1, <1>2

\* The topics and payloads of f are those of the bridge.
Reports(f) == DOMAIN f \subseteq Topics /\ \A t \in DOMAIN f : f[t] \in Payloads

\* publish takes f over into the cache; whatever the broker does not miss it
\* then shows as it is in the cache.
LEMMA PublishTakes ==
  ASSUME ShownType, NEW f, Reports(f), Publish(f),
         \A t \in Topics \ lost : retained[t] = cache[t]
  PROVE  /\ cache' \in [Topics -> Payloads] /\ retained' \in [Topics -> Payloads]
         /\ lost' \subseteq Topics
         /\ \A t \in Topics : cache'[t] = IF t \in DOMAIN f THEN f[t] ELSE cache[t]
         /\ \A t \in Topics \ lost' : retained'[t] = cache'[t]
<1> DEFINE P == {t \in DOMAIN f : cache[t] # f[t]}
<1>1. /\ Tell(P, f)
      /\ cache' = [t \in Topics |-> IF t \in P THEN f[t] ELSE cache[t]]
  BY DEF Publish
<1>2. P \subseteq DOMAIN f /\ \A t \in DOMAIN f : t \in P <=> cache[t] # f[t]
  OBVIOUS
<1>3. "" \in Payloads /\ lost \subseteq Topics
      /\ cache \in [Topics -> Payloads] /\ retained \in [Topics -> Payloads]
  BY DEF ShownType, Payloads
<1> HIDE DEF P
<1>4. \A t \in Topics : cache'[t] = IF t \in DOMAIN f THEN f[t] ELSE cache[t]
  BY <1>1, <1>2
<1>5. cache' \in [Topics -> Payloads] /\ retained' \in [Topics -> Payloads]
      /\ lost' \subseteq Topics
  BY <1>1, <1>2, <1>3 DEF Reports, Tell
<1>6. \A t \in Topics \ lost' : retained'[t] = cache'[t]
  BY <1>1, <1>2, <1>3 DEF Reports, Tell
<1> QED BY <1>4, <1>5, <1>6

-----------------------------------------------------------------------------
(* What the broker shows: the step of each part of the invariant.          *)

\* A step that publishes no register keeps what cache and broker show, unless
\* the broker forgets.
LEMMA QuietShown ==
  ASSUME CacheInv, UNCHANGED <<climate, cache, shown, good>>
  PROVE  CacheInv'
BY DEF CacheInv, Expected, climate, shown

\* The climate registers.
LEMMA ClimateStep ==
  ASSUME ShownType, CacheInv, ClimateRegister
  PROVE  ShownType' /\ CacheInv'
<1> DEFINE f == MqttStates(mode', state')
<1>1. Publish(f) /\ UNCHANGED <<configs, available, good>>
  BY DEF ClimateRegister
<1>2. /\ mode' \in AllModes \cup {"none"} /\ state' \in AllStates \cup {"none"}
      /\ ~(mode' = "none" /\ state' = "none")
  BY ReportAssumption DEF ClimateRegister, ShownType, AllModes, AllStates
<1>3. DOMAIN f = ClimateTopics /\ \A t \in ClimateTopics : f[t] \in Payloads
  BY <1>2, MqttStatesType
<1>4. ASSUME NEW t \in Topics, t # Remaining
      PROVE  Expected(t)' = f[t] /\ t \in ClimateTopics
  BY <1>2, <1>4 DEF Expected, Topics
<1> HIDE DEF f
<1>5. Reports(f)
  BY <1>3 DEF Reports, Topics
<1>6. /\ cache' \in [Topics -> Payloads] /\ retained' \in [Topics -> Payloads]
      /\ lost' \subseteq Topics
      /\ \A t \in Topics : cache'[t] = IF t \in DOMAIN f THEN f[t] ELSE cache[t]
      /\ \A t \in Topics \ lost' : retained'[t] = cache'[t]
  BY <1>1, <1>5, PublishTakes DEF CacheInv
<1>7. ShownType'
  BY <1>1, <1>2, <1>6 DEF ShownType
<1>8. ASSUME NEW t \in Topics PROVE cache'[t] = Expected(t)'
  <2>1. CASE t = Remaining
    BY <1>1, <1>3, <1>6, <2>1
       DEF CacheInv, Expected, ClimateTopics, Remaining
  <2>2. CASE t # Remaining
    BY <1>3, <1>4, <1>6, <2>2
  <2> QED BY <2>1, <2>2
<1> QED BY <1>6, <1>7, <1>8 DEF CacheInv

\* A reading of the charge time, or none yet, that is published.
LEMMA ReadingStep ==
  ASSUME ShownType, CacheInv, NEW r \in Remainings \cup {""},
         Publish([t \in {Remaining} |-> r]), good' = r,
         UNCHANGED <<climate, configs, available>>
  PROVE  ShownType' /\ CacheInv'
<1> DEFINE f == [t \in {Remaining} |-> r]
<1>1. DOMAIN f = {Remaining} /\ f[Remaining] = r /\ Publish(f)
  OBVIOUS
<1> HIDE DEF f
<1>2. Remaining \in Topics /\ r \in Payloads
  BY DEF Topics, Payloads
<1>3. /\ cache' \in [Topics -> Payloads] /\ retained' \in [Topics -> Payloads]
      /\ lost' \subseteq Topics
      /\ \A t \in Topics : cache'[t] = IF t \in DOMAIN f THEN f[t] ELSE cache[t]
      /\ \A t \in Topics \ lost' : retained'[t] = cache'[t]
  BY <1>1, <1>2, PublishTakes DEF CacheInv, Reports
<1>4. ShownType'
  BY <1>3 DEF ShownType, climate
<1>5. ASSUME NEW t \in Topics PROVE cache'[t] = Expected(t)'
  BY <1>1, <1>3 DEF CacheInv, Expected, climate
<1> QED BY <1>3, <1>4, <1>5 DEF CacheInv

\* The charge status: a plausible reading is published, a sentinel changes nothing.
LEMMA ChargeStep ==
  ASSUME ShownType, CacheInv, ChargeRegister
  PROVE  ShownType' /\ CacheInv'
<1>1. UNCHANGED <<climate, configs, available>>
  BY DEF ChargeRegister
<1>2. CASE \E r \in Remainings : Publish([t \in {Remaining} |-> r]) /\ good' = r
  BY <1>1, <1>2, ReadingStep
<1>3. CASE UNCHANGED <<cache, shown, good>>
  BY <1>1, <1>3, QuietShown DEF ShownType, climate, shown
<1>4. CASE Publish([t \in {Remaining} |-> cache[Remaining]]) /\ UNCHANGED good
  <2>1. cache[Remaining] = good /\ good \in Remainings \cup {""}
    BY DEF CacheInv, Expected, Topics, ShownType
  <2> QED BY <1>1, <1>4, <2>1, ReadingStep
<1> QED BY <1>2, <1>3, <1>4 DEF ChargeRegister

\* An outage: the broker may forget what it retained.
LEMMA DropStep ==
  ASSUME ShownType, CacheInv, BrokerDrop
  PROVE  ShownType' /\ CacheInv'
<1>1. UNCHANGED <<climate, cache, good>>
  BY DEF BrokerDrop
<1>2. CASE UNCHANGED shown
  BY <1>1, <1>2, QuietShown DEF BrokerDrop, ShownType, climate, shown
<1>3. CASE /\ available' = "" /\ configs' = {}
           /\ retained' = [t \in Topics |-> ""]
           /\ lost' = {t \in Topics : cache[t] # ""}
  BY <1>1, <1>3 DEF CacheInv, Expected, climate, ShownType, Payloads
<1> QED BY <1>2, <1>3 DEF BrokerDrop

\* The steps that publish no register.
LEMMA QuietStep ==
  ASSUME ShownType, CacheInv,
         \/ Top \/ Dial \/ Start \/ Online \/ VinRegister \/ Discover \/ Ack
         \/ Disconnect \/ Ended \/ Drop \/ Tick \/ Incoming \/ Handler
         \/ BrokerReconnect \/ OnConnect
  PROVE  ShownType' /\ CacheInv'
<1>1. UNCHANGED <<climate, cache, shown, good>>
  BY DEF Top, Dial, Start, Online, VinRegister, Discover, Ack, Disconnect, Ended,
     Drop, Tick, Incoming, Handler, Panic, HandlerClose, HandlerTell,
     BrokerReconnect, OnConnect
<1>2. configs' \in {configs, Configs} /\ available' \in {available, "online", "offline"}
  BY DEF Top, Dial, Start, Online, VinRegister, Discover, Ack, Disconnect, Ended,
     Drop, Tick, Incoming, Handler, Panic, HandlerClose, HandlerTell,
     BrokerReconnect, OnConnect, TellAvailable
<1> QED BY <1>1, <1>2, QuietShown DEF ShownType, climate, shown

LEMMA ShownStep ==
  ASSUME ShownType, CacheInv, [Next]_vars
  PROVE  ShownType' /\ CacheInv'
<1>1. CASE UNCHANGED vars
  BY <1>1, QuietShown DEF vars, ShownType, climate, shown
<1> QED BY <1>1, ClimateStep, ChargeStep, DropStep, QuietStep DEF Next, Main

-----------------------------------------------------------------------------
(* The connections, to the car and to the broker.                          *)

LEMMA ControlStep == ControlType /\ [Next]_vars => ControlType'
<1> SUFFICES ASSUME ControlType, [Next]_vars PROVE ControlType'
  OBVIOUS
<1> USE DEF ControlType, Session
<1>1. CASE UNCHANGED vars
  BY <1>1 DEF vars
<1>2. CASE Main
  BY <1>2 DEF Main, Top, Dial, Start, Online, ClimateRegister, ChargeRegister,
     VinRegister, Discover, Ack, Disconnect, Ended
<1>3. CASE Drop \/ Tick \/ Incoming
  BY <1>3 DEF Drop, Tick, Incoming
<1>4. CASE Handler
  BY <1>4 DEF Handler, Panic, HandlerClose, HandlerTell, Close
<1>5. CASE BrokerDrop \/ BrokerReconnect \/ OnConnect
  BY <1>5 DEF BrokerDrop, BrokerReconnect, OnConnect
<1> QED BY <1>1, <1>2, <1>3, <1>4, <1>5 DEF Next

LEMMA NilStep == NilInv /\ [Next]_vars => NilInv'
<1> SUFFICES ASSUME NilInv, [Next]_vars PROVE NilInv'
  OBVIOUS
<1> USE DEF NilInv, Session
<1>1. CASE UNCHANGED vars
  BY <1>1 DEF vars
<1>2. CASE Main
  BY <1>2 DEF Main, Top, Dial, Start, Online, ClimateRegister, ChargeRegister,
     VinRegister, Discover, Ack, Disconnect, Ended
<1>3. CASE Drop \/ Tick \/ Incoming
  BY <1>3 DEF Drop, Tick, Incoming
<1>4. CASE Handler
  BY <1>4 DEF Handler, Panic, HandlerClose, HandlerTell, Close
<1>5. CASE BrokerDrop \/ BrokerReconnect \/ OnConnect
  BY <1>5 DEF BrokerDrop, BrokerReconnect, OnConnect
<1> QED BY <1>1, <1>2, <1>3, <1>4, <1>5 DEF Next

LEMMA Bounded == MaxOutages \in Nat
BY ReportAssumption

\* Only the library moves the connection to the broker.
LEMMA BrokerStep ==
  ASSUME BrokerType, OutageInv, [Next]_vars
  PROVE  BrokerType' /\ OutageInv'
<1> USE DEF BrokerType, OutageInv
<1>1. CASE UNCHANGED broker
  BY <1>1 DEF broker
<1>2. CASE BrokerDrop 
  <2>1. outages < MaxOutages /\ outages' = outages + 1 /\ hooks' = hooks /\ hooks <= outages + 1
        /\ outages \in 0..MaxOutages /\ hooks \in 0..(MaxOutages + 1)
    BY <1>2 DEF BrokerDrop
  <2>2. outages' \in 0..MaxOutages /\ hooks' \in 0..(MaxOutages + 1) /\ hooks' <= outages'
    BY ONLY <2>1, Bounded
  <2>4. hooks' <= outages' + 1
    BY ONLY <2>1, <2>2, Bounded
  <2>3. up' \in BOOLEAN 
    BY <1>2 DEF BrokerDrop
  <2> QED BY <2>2, <2>3, <2>4
<1>3. CASE BrokerReconnect
  <2>1. hooks <= outages /\ outages' = outages /\ hooks' = hooks + 1
        /\ outages \in 0..MaxOutages /\ hooks \in 0..(MaxOutages + 1)
    BY <1>3 DEF BrokerReconnect
  <2>2. outages' \in 0..MaxOutages /\ hooks' \in 0..(MaxOutages + 1) /\ hooks' <= outages' + 1
    BY ONLY <2>1, Bounded
  <2>3. up' \in BOOLEAN /\ up'
    BY <1>3 DEF BrokerReconnect
  <2> QED BY <2>2, <2>3
<1>4. CASE OnConnect
  <2>1. hooks <= outages +1 /\ outages' = outages /\ hooks' = hooks - 1 /\ hooks > 0
        /\ outages \in 0..MaxOutages /\ hooks \in 0..(MaxOutages + 1)
    BY <1>4 DEF OnConnect
  <2>2. hooks' \in 0..(MaxOutages + 1) /\ hooks' <= outages
    BY ONLY <2>1, Bounded
  <2>4. hooks' <= outages + 1
    BY ONLY <2>1, <2>2, Bounded
  <2>3. outages' = outages /\ up' = up
    BY <1>4 DEF OnConnect
  <2> QED BY <2>2, <2>3, <2>4
<1>5. CASE Main \/ Drop \/ Tick \/ Incoming \/ Handler \/ UNCHANGED vars
  BY <1>1, <1>5
     DEF Main, Top, Dial, Start, Online, ClimateRegister, ChargeRegister,
         VinRegister, Discover, Ack, Disconnect, Ended, Handler, Panic,
         HandlerClose, HandlerTell, Drop, Tick, Incoming, vars
<1> QED BY <1>2, <1>3, <1>4, <1>5 DEF Next

\* The mark is set where discovery is due, and reset before it is due again.
LEMMA DiscoveryStep ==
  ASSUME BrokerType, NilInv, DiscoveryComplete, [Next]_vars
  PROVE  DiscoveryComplete'
<1> USE DEF DiscoveryComplete
<1>1. CASE UNCHANGED vars
  BY <1>1 DEF vars, broker
<1>2. CASE Top \/ Dial \/ Start \/ Online \/ Disconnect \/ Ended \/ Ack
  BY <1>2 DEF Top, Dial, Start, Online, Ack, Disconnect, Ended, broker
<1>3. CASE ClimateRegister \/ ChargeRegister
  BY <1>3 DEF ClimateRegister, ChargeRegister, broker
<1>4. CASE VinRegister \/ Discover
  BY <1>4 DEF VinRegister, Discover, broker
<1>5. CASE Drop \/ Tick \/ Incoming
  BY <1>5 DEF Drop, Tick, Incoming, broker
<1>6. CASE Panic \/ HandlerClose \/ HandlerTell
  BY <1>6 DEF Panic, HandlerClose, HandlerTell, NilInv, broker
<1>7. CASE BrokerDrop
  BY <1>7 DEF BrokerDrop
<1>8. CASE BrokerReconnect
  <2>1. hooks \in Nat /\ hooks' = hooks + 1
    BY <1>8, Bounded DEF BrokerType, BrokerReconnect
  <2>2. hooks' # 0
    BY <2>1
  <2> QED BY <2>2
<1>9. CASE OnConnect
  BY <1>9 DEF OnConnect
<1> QED BY <1>1, <1>2, <1>3, <1>4, <1>5, <1>6, <1>7, <1>8, <1>9 DEF Next, Main, Handler

-----------------------------------------------------------------------------
(* The invariant.                                                          *)

LEMMA InitInv == Init => BridgeInv
<1> SUFFICES ASSUME Init PROVE BridgeInv
  OBVIOUS
<1>1. ControlType /\ NilInv
  BY DEF Init, ControlType, NilInv
<1>2. ShownType
  BY DEF Init, ShownType, Payloads
<1>3. CacheInv
  BY DEF Init, CacheInv, Expected
<1>4. BrokerType /\ OutageInv
  <2>1. up /\ up \in BOOLEAN /\ hooks = 1 /\ outages = 0
    BY DEF Init
  <2>2. hooks = 1 /\ outages = 0 =>
          /\ outages \in 0..MaxOutages /\ hooks \in 0..(MaxOutages + 1)
          /\ hooks <= outages + 1
    BY Bounded
  <2> QED BY <2>1, <2>2 DEF BrokerType, OutageInv
<1>5. DiscoveryComplete
  BY DEF Init, DiscoveryComplete
<1> QED BY <1>1, <1>2, <1>3, <1>4, <1>5 DEF BridgeInv, TypeOK

LEMMA StepInv == BridgeInv /\ [Next]_vars => BridgeInv'
BY ControlStep, NilStep, ShownStep, BrokerStep, DiscoveryStep DEF BridgeInv, TypeOK

LEMMA Invariant == Spec => []BridgeInv
BY InitInv, StepInv, PTL DEF Spec

-----------------------------------------------------------------------------
(* The theorems.                                                           *)

\* The bridge's state stays of its type: no more OnConnect calls are due than
\* the broker has been reached, and the broker is given known payloads only.
THEOREM TypeCorrect == Spec => []TypeOK
<1>1. BridgeInv => TypeOK
  BY DEF BridgeInv
<1> QED BY <1>1, Invariant, PTL

\* publish and publishRegister: each topic of the broker shows what the car last
\* reported of it, unless the last publication was lost.
THEOREM ShowsCar == Spec => []BrokerShowsCar
<1>1. BridgeInv => BrokerShowsCar
  BY DEF BridgeInv, CacheInv, BrokerShowsCar
<1> QED BY <1>1, Invariant, PTL

\* mqttStates and publish: the topic of a mode is on exactly when the combined
\* climate state names that mode, though the cache decides topic by topic.
THEOREM TopicsAgree == Spec => []ClimateAgrees
<1>1. ASSUME BridgeInv, NEW t \in ClimateTopics \ {"climate/state"},
             {"climate/state", t} \cap lost = {}
      PROVE  retained[t] = "on" <=> retained["climate/state"] = ModeOf(t)
  <2>1. retained[t] = Expected(t)
        /\ retained["climate/state"] = Expected("climate/state")
    BY <1>1 DEF BridgeInv, CacheInv, Topics, ClimateTopics
  <2>2. Expected(t) = "on" <=> Expected("climate/state") = ModeOf(t)
    BY <1>1 DEF Expected, MqttStates, ModeOf, ClimateTopics, Remaining, BridgeInv,
       TypeOK, ShownType, AllModes, AllStates
  <2> QED BY <2>1, <2>2
<1>2. BridgeInv => ClimateAgrees
  BY <1>1 DEF ClimateAgrees
<1> QED BY <1>2, Invariant, PTL

\* The mark publishedDiscovery and its reset by OnConnect: discovery counts as
\* published, with no reset due, only if the broker has all of it.
THEOREM Discovered == Spec => []DiscoveryComplete
<1>1. BridgeInv => DiscoveryComplete
  BY DEF BridgeInv
<1> QED BY <1>1, Invariant, PTL
=============================================================================
