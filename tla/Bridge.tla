------------------------------- MODULE Bridge -------------------------------
(***************************************************************************)
(* The MQTT bridge of phev2mqtt: mqttClient of cmd/mqtt.go.                *)
(*                                                                         *)
(* Run, on the main goroutine, connects to the car again and again and     *)
(* turns the car's registers into retained topics of the broker.  The      *)
(* handler of incoming messages runs on the MQTT library's goroutine, one  *)
(* message at a time, and shares enabled and phev with it.  The broker may *)
(* go away and come back, with its retained messages or without them.      *)
(*                                                                         *)
(* The session with the car is the module Client seen from here: a         *)
(* connection that is opened, closed by either side, and yields registers  *)
(* while it is open (frames left in Recv when it closes are taken to have  *)
(* come before).  Of the registers, those are kept whose topics depend on  *)
(* more than the register itself: the two of the climate state, the charge *)
(* status and the VIN; the others are copied to their topics in the way    *)
(* charge/remaining is.  The topics of one register are published in one   *)
(* step; an outage may lose what was under way.  A topic of which the      *)
(* broker misses the last publication is shown as empty.  Time is kept as  *)
(* one bit: whether the last session ended within 30 s.  What a call of    *)
(* SetRegister does is in Client.                                          *)
(***************************************************************************)
EXTENDS Naturals, Sequences, FiniteSets

CONSTANTS
  Modes,       \* AC modes the car reports, out of AllModes
  States,      \* pre-AC states the car reports, out of AllStates
  Remainings,  \* plausible readings of the remaining charge time
  Configs,     \* topics of the Home Assistant discovery
  MaxOutages   \* bound on the outages of the broker

AllModes  == {"off", "cool", "heat", "windscreen", "unknown"}
AllStates == {"off", "on", "terminated", "other"}

ASSUME ReportAssumption ==
  /\ Modes \subseteq AllModes /\ States \subseteq AllStates
  /\ "" \notin Remainings /\ MaxOutages \in Nat

ClimateTopics == {"climate/state", "climate/cool", "climate/heat",
                  "climate/windscreen"}

\* The mode that a climate topic is the switch of, "none" for climate/state.
ModeOf(t) == CASE t = "climate/cool"       -> "cool"
               [] t = "climate/heat"       -> "heat"
               [] t = "climate/windscreen" -> "windscreen"
               [] OTHER                    -> "none"

Remaining == "charge/remaining"
Topics    == ClimateTopics \cup {Remaining}
Payloads  == {"", "on", "terminated"} \cup AllModes \cup Remainings

VARIABLES
  pc,           \* Run and handlePhev: next step
  conn,         \* m.phev: "nil", "new", "open" or "closed"
  enabled,      \* m.enabled
  recent,       \* lastConnect is less than 30 s ago
  mode, state,  \* m.climate, "none" for nil
  cache,        \* m.mqttData, "" for an absent topic
  announced,    \* m.publishedDiscovery
  hpc,          \* handleIncomingMqtt: next step
  up,           \* the broker is reachable
  hooks,        \* calls of the OnConnect handler that are due
  outages,      \* outages so far
  retained,     \* broker: retained payload of each topic, "" for none
  configs,      \* broker: retained discovery topics
  available     \* broker: retained payload of /available

\* History variables, read by the properties only.
VARIABLES
  good,         \* last plausible reading of the remaining time, "" for none
  lost          \* topics whose last publication the broker does not have

climate   == <<mode, state>>
broker    == <<up, hooks, outages>>
shown     == <<retained, lost>>
vars == <<pc, conn, enabled, recent, climate, cache, announced, hpc, broker,
          shown, configs, available, good>>

Session == {"discover", "ack", "loop"}

\* Run and handlePhev, the handler of messages.
ControlType ==
  /\ pc \in {"top", "dial", "start", "online", "ended", "stuck", "dead"} \cup Session
  /\ conn \in {"nil", "new", "open", "closed"}
  /\ hpc \in {"idle", "offClose", "offTell", "restartTell", "restartClose", "dead"}
  /\ {enabled, recent, announced} \subseteq BOOLEAN

\* The car as it was last seen, and the topics.
ShownType ==
  /\ mode \in AllModes \cup {"none"} /\ state \in AllStates \cup {"none"}
  /\ good \in Remainings \cup {""}
  /\ cache \in [Topics -> Payloads] /\ retained \in [Topics -> Payloads]
  /\ lost \subseteq Topics /\ configs \subseteq Configs
  /\ available \in {"", "online", "offline"}

\* The connection to the broker.
BrokerType ==
  up \in BOOLEAN /\ outages \in 0..MaxOutages /\ hooks \in 0..(MaxOutages + 1)

\* Every variable keeps its type, and no more OnConnect calls are due than the
\* broker has been reached.
TypeOK == ControlType /\ ShownType /\ BrokerType

Init ==
  /\ pc = "top" /\ conn = "nil" /\ enabled = TRUE /\ recent = FALSE
  /\ mode = "none" /\ state = "none"
  /\ cache = [t \in Topics |-> ""] /\ announced = FALSE
  /\ hpc = "idle"
  /\ up = TRUE /\ hooks = 1 /\ outages = 0
  /\ retained = [t \in Topics |-> ""] /\ configs = {} /\ available = ""
  /\ good = "" /\ lost = {}

-----------------------------------------------------------------------------
(* Climate and publication.                                                *)

\* Mutation: the mode is shown whatever the state is.
MqttStatesOfMode(m, s) ==
  [t \in ClimateTopics |->
     IF t = "climate/state"
     THEN IF s = "on" THEN m ELSE IF s \in {"off", "none"} THEN "off" ELSE "terminated"
     ELSE IF m = ModeOf(t) THEN "on" ELSE "off"]

\* climate.mqttStates for mode m and state s.
MqttStates(m, s) ==
  LET ready == m # "none" /\ s # "none" IN
    [t \in ClimateTopics |->
       IF t = "climate/state"
       THEN CASE ~ready \/ s = "off"       -> "off"
              [] ready /\ s = "on"         -> m
              [] ready /\ s = "terminated" -> "terminated"
              [] ready /\ s = "other"      -> "unknown"
       ELSE IF ready /\ s = "on" /\ m = ModeOf(t) THEN "on" ELSE "off"]

\* client.Publish of each topic of P, with payload f[t]: retained by the broker,
\* or lost without an error.
Tell(P, f) ==
  /\ retained' = [t \in Topics |-> IF t \notin P THEN retained[t]
                                  ELSE IF up THEN f[t] ELSE ""]
  /\ lost' = IF up THEN lost \ P ELSE lost \cup P

\* Mutation: the cache remembers that a topic was published, not what.
PublishOnce(f) ==
  LET P == {t \in DOMAIN f : cache[t] = ""} IN
    /\ Tell(P, f)
    /\ cache' = [t \in Topics |-> IF t \in P THEN f[t] ELSE cache[t]]

\* publish, for each topic of f: only what differs from the last payload.
Publish(f) ==
  LET P == {t \in DOMAIN f : cache[t] # f[t]} IN
    /\ Tell(P, f)
    /\ cache' = [t \in Topics |-> IF t \in P THEN f[t] ELSE cache[t]]

\* Publish on /available, past the cache.
TellAvailable(v) == available' = IF up THEN v ELSE available

\* m.phev.Close(), on a client that is there.
Close == conn' = IF conn = "open" THEN "closed" ELSE conn

-----------------------------------------------------------------------------
(* Run and handlePhev.                                                     *)

\* The loop of Run: a new Client if the connection is enabled.
Top ==
  /\ pc = "top" /\ enabled
  /\ conn' = "new"
  /\ pc' = "dial"
  /\ UNCHANGED <<enabled, recent, climate, cache, announced, hpc, broker,
                 shown, configs, available, good>>

\* Connect: whatever Close did to the new Client before is undone.
Dial ==
  /\ pc = "dial"
  /\ \/ conn' = "open" /\ pc' = "start"
     \/ conn' = conn /\ pc' = "ended"
  /\ UNCHANGED <<enabled, recent, climate, cache, announced, hpc, broker,
                 shown, configs, available, good>>

\* Mutation: lastConnect is set when Start fails, too.
StartDeferred ==
  /\ pc = "start"
  /\ \/ pc' = "online" /\ UNCHANGED recent
     \/ pc' = "ended" /\ recent' = TRUE
  /\ UNCHANGED <<conn, enabled, climate, cache, announced, hpc,
                 broker, shown, configs, available, good>>

\* Start: the handshake is done, or the car is gone, or 45 s are over.
Start ==
  /\ pc = "start"
  /\ pc' \in {"online", "ended"}
  /\ UNCHANGED <<conn, enabled, recent, climate, cache, announced, hpc,
                 broker, shown, configs, available, good>>

Online ==
  /\ pc = "online"
  /\ TellAvailable("online")
  /\ pc' = "loop"
  /\ UNCHANGED <<conn, enabled, recent, climate, cache, announced, hpc,
                 broker, shown, configs, good>>

\* A climate register: m.climate takes it, all four topics are published.
ClimateRegister ==
  /\ pc = "loop" /\ conn = "open"
  /\ \/ mode' \in Modes /\ UNCHANGED state
     \/ state' \in States /\ UNCHANGED mode
  /\ Publish(MqttStates(mode', state'))
  /\ pc' = "ack"
  /\ UNCHANGED <<conn, enabled, recent, announced, hpc, broker, configs, available,
                 good>>

\* The charge status: a reading of 1000 minutes or more is a sentinel, and the
\* last reading is published again, if there is one.
ChargeRegister ==
  /\ pc = "loop" /\ conn = "open"
  /\ \/ \E r \in Remainings : Publish([t \in {Remaining} |-> r]) /\ good' = r
     \/ /\ IF cache[Remaining] = "" THEN UNCHANGED <<cache, shown>>
           ELSE Publish([t \in {Remaining} |-> cache[Remaining]])
        /\ UNCHANGED good
  /\ pc' = "ack"
  /\ UNCHANGED <<conn, enabled, recent, climate, announced, hpc, broker, configs,
                 available>>

\* The VIN: discovery is due once for each connection to the broker.
VinRegister ==
  /\ pc = "loop" /\ conn = "open"
  /\ announced' = TRUE
  /\ pc' = IF announced THEN "ack" ELSE "discover"
  /\ UNCHANGED <<conn, enabled, recent, climate, cache, hpc, broker, shown,
                 configs, available, good>>

Discover ==
  /\ pc = "discover"
  /\ configs' = IF up THEN Configs ELSE configs
  /\ pc' = "ack"
  /\ UNCHANGED <<conn, enabled, recent, climate, cache, announced, hpc, broker,
                 shown, available, good>>

\* The acknowledgement goes to Send, which nobody drains once the writer has
\* ended: then handlePhev may stay here for ever.
Ack ==
  /\ pc = "ack"
  /\ \/ pc' = "loop"
     \/ conn = "closed" /\ pc' = "stuck"
  /\ UNCHANGED <<conn, enabled, recent, climate, cache, announced, hpc,
                 broker, shown, configs, available, good>>

\* Recv is closed, or too many BadEncoding frames have come.
Disconnect ==
  /\ pc = "loop"
  /\ conn' = "closed"
  /\ recent' = TRUE
  /\ pc' = "ended"
  /\ UNCHANGED <<enabled, climate, cache, announced, hpc, broker, shown,
                 configs, available, good>>

\* Back in Run.
Ended ==
  /\ pc = "ended"
  /\ IF recent THEN UNCHANGED available ELSE TellAvailable("offline")
  /\ pc' = "top"
  /\ UNCHANGED <<conn, enabled, recent, climate, cache, announced, hpc,
                 broker, shown, configs, good>>

Main == \/ Top \/ Dial \/ Start \/ Online \/ ClimateRegister \/ ChargeRegister
        \/ VinRegister \/ Discover \/ Ack \/ Disconnect \/ Ended

\* The car or the network ends the connection.
Drop ==
  /\ conn = "open"
  /\ conn' = "closed"
  /\ UNCHANGED <<pc, enabled, recent, climate, cache, announced, hpc,
                 broker, shown, configs, available, good>>

\* 30 s pass after the end of a session.
Tick ==
  /\ recent /\ pc # "dead"
  /\ recent' = FALSE
  /\ UNCHANGED <<pc, conn, enabled, climate, cache, announced, hpc, broker,
                 shown, configs, available, good>>

-----------------------------------------------------------------------------
(* handleIncomingMqtt.                                                     *)

\* A command, while there is a broker to bring it.
Incoming ==
  /\ hpc = "idle" /\ up /\ pc # "dead"
  /\ \/ enabled' = FALSE /\ hpc' = "offClose"
     \/ enabled' = TRUE /\ hpc' = "idle"
     \/ enabled' = TRUE /\ hpc' = "restartTell"
  /\ UNCHANGED <<pc, conn, recent, climate, cache, announced, broker, shown,
                 configs, available, good>>

\* Before the first Client is there, Close and SetRegister find a nil pointer:
\* the program ends, and the broker publishes its will.
Panic ==
  /\ conn = "nil" /\ pc # "dead"
  /\ \/ hpc \in {"offClose", "restartClose"}
     \/ hpc = "idle" /\ up
  /\ pc' = "dead" /\ hpc' = "dead"
  /\ TellAvailable("offline")
  /\ UNCHANGED <<conn, enabled, recent, climate, cache, announced, broker,
                 shown, configs, good>>

HandlerClose ==
  /\ hpc \in {"offClose", "restartClose"} /\ conn # "nil"
  /\ Close
  /\ hpc' = IF hpc = "offClose" THEN "offTell" ELSE "idle"
  /\ UNCHANGED <<pc, enabled, recent, climate, cache, announced, broker,
                 shown, configs, available, good>>

HandlerTell ==
  /\ hpc \in {"offTell", "restartTell"}
  /\ TellAvailable("offline")
  /\ hpc' = IF hpc = "restartTell" THEN "restartClose" ELSE "idle"
  /\ UNCHANGED <<pc, conn, enabled, recent, climate, cache, announced,
                 broker, shown, configs, good>>

Handler == Panic \/ HandlerClose \/ HandlerTell

-----------------------------------------------------------------------------
(* The broker and the library's connection to it.                          *)

\* The connection breaks: the will is published, and discovery messages that
\* were under way are lost.  A restarted broker may have lost all it retained.
BrokerDrop ==
  /\ up /\ outages < MaxOutages /\ pc # "dead"
  /\ up' = FALSE /\ outages' = outages + 1
  /\ \/ available' = "offline" /\ configs' \in SUBSET configs /\ UNCHANGED shown
     \/ /\ available' = "" /\ configs' = {}
        /\ retained' = [t \in Topics |-> ""]
        /\ lost' = {t \in Topics : cache[t] # ""}
  /\ UNCHANGED <<pc, conn, enabled, recent, climate, cache, announced, hpc, hooks,
                 good>>

\* Automatic reconnection; the OnConnect handler gets a goroutine.
BrokerReconnect ==
  /\ ~up /\ pc # "dead"
  /\ up' = TRUE /\ hooks' = hooks + 1
  /\ UNCHANGED <<pc, conn, enabled, recent, climate, cache, announced, hpc,
                 outages, shown, configs, available, good>>

\* Mutation: the mark stays.
OnConnectKeepsMark ==
  /\ hooks > 0 /\ pc # "dead"
  /\ hooks' = hooks - 1
  /\ UNCHANGED <<pc, conn, enabled, recent, climate, cache, announced, hpc, up,
                 outages, shown, configs, available, good>>

OnConnect ==
  /\ hooks > 0 /\ pc # "dead"
  /\ hooks' = hooks - 1
  /\ announced' = FALSE
  /\ UNCHANGED <<pc, conn, enabled, recent, climate, cache, hpc, up, outages,
                 shown, configs, available, good>>

-----------------------------------------------------------------------------

Next == \/ Main \/ Drop \/ Tick
        \/ Incoming \/ Handler
        \/ BrokerDrop \/ BrokerReconnect \/ OnConnect

Spec == Init /\ [][Next]_vars

(***************************************************************************)
(* Fairness: both goroutines go on when they can, a Dial and a Start end,  *)
(* time passes, the library reconnects and calls its handler.  A register  *)
(* need never come.                                                        *)
(***************************************************************************)
Fairness ==
  /\ WF_vars(Top) /\ WF_vars(Dial) /\ WF_vars(Start) /\ WF_vars(Online)
  /\ WF_vars(Discover) /\ WF_vars(Ack)
  /\ WF_vars(Disconnect /\ conn = "closed") /\ WF_vars(Ended)
  /\ WF_vars(Tick) /\ WF_vars(Handler)
  /\ WF_vars(BrokerReconnect) /\ WF_vars(OnConnect)

FairSpec == Spec /\ Fairness

-----------------------------------------------------------------------------
(* Properties.                                                             *)

\* What the broker should show of what the car last reported.
Expected(t) ==
  IF t = Remaining THEN good
  ELSE IF mode = "none" /\ state = "none" THEN "" ELSE MqttStates(mode, state)[t]

\* Each topic of the broker shows what the car last reported of it, whatever the
\* cache has suppressed, unless the last publication was lost: the climate topics
\* agree with each other, the charge time is never a sentinel.
BrokerShowsCar ==
  \A t \in Topics \ lost : retained[t] = Expected(t)

\* The topic of a single mode is on exactly when the combined climate state names
\* that mode: the two never contradict each other, though mode and state come
\* in separate registers and the cache decides topic by topic what is published.
ClimateAgrees ==
  \A t \in ClimateTopics \ {"climate/state"} :
    {"climate/state", t} \cap lost = {} =>
      (retained[t] = "on" <=> retained["climate/state"] = ModeOf(t))

\* When discovery counts as published and no reset of that mark is due, the
\* broker has every discovery message: an outage in the middle of the
\* publication, or a broker that has forgotten them, never goes unnoticed.
DiscoveryComplete ==
  up /\ hooks = 0 /\ announced /\ pc # "discover" => configs = Configs

-----------------------------------------------------------------------------
(* The inductive strengthening of the safety properties.                   *)

\* The cache has the last payload of each topic, and the broker has it too
\* unless the last publication was lost.
CacheInv ==
  /\ \A t \in Topics : cache[t] = Expected(t)
  /\ \A t \in Topics \ lost : retained[t] = cache[t]

\* Before the first Client is there Run has not left the top of its loop.
NilInv == conn = "nil" => pc \in {"top", "dead"}

\* Each reconnection is due to an outage.
OutageInv == hooks <= outages + 1 /\ (~up => hooks <= outages)

BridgeInv == TypeOK /\ CacheInv /\ NilInv /\ OutageInv /\ DiscoveryComplete

-----------------------------------------------------------------------------
(* Progress.                                                               *)

InSession == pc \in {"online", "stuck"} \cup Session

\* If from some time on every attempt to start a session fails, the broker ends
\* up showing the car as offline.
UnreachableMeansOffline ==
  <>[](~InSession /\ enabled /\ up /\ pc # "dead") => <>[](available = "offline")

-----------------------------------------------------------------------------
(* What the documentation says and the code does not do.                   *)

\* README.md: phev/connection changes the connection state (off), and
\* phev/available is the connection status to the car: after "off" has been
\* handled, the broker comes to show "offline", until "on" or "restart".
OffMeansOffline ==
  (~enabled /\ up)
    ~> (enabled \/ ~up \/ (available = "offline" /\ conn # "open"))

=============================================================================
