---------------------------- MODULE RestApi_proofs ----------------------------
(* The REST API, for any callers, servers and ports and any limits; and    *)
(* the voice-activity pass, for any jobs and any number of model files.    *)
EXTENDS RestApi, VoiceActivity, FiniteSetTheorems, TLAPS

(***************************************************************************)
(* The settings' side: starts, renewals and the server that runs.          *)
(***************************************************************************)
Starts == [generation : Nat, port : Port, token : Token, at : {"load", "store", "here"}]
Servers ==
  [at : {"unused", "open", "closing", "closed"}, port : Port \cup {0}, token : Token,
   adopted : BOOLEAN, aborted : BOOLEAN]

SettingsTyped ==
  /\ config \in [enabled : BOOLEAN, port : Port, auth : BOOLEAN]
  /\ keyring \in Token /\ minted \in Token /\ generation \in Nat /\ acts \in 0 .. MaxActs
  /\ starts \subseteq Starts
  /\ usurped \in BOOLEAN
  /\ renewals \subseteq [token : Token, stored : BOOLEAN]
  /\ handle \in Server \cup {NoServer}
  /\ server \in [Server -> Servers]

(* No start is ahead of the count, and the newest one is of the settings   *)
(* as they are; one that has its token has a real one.                     *)
StartsInOrder ==
  \A x \in starts :
    /\ x.generation <= generation
    /\ x.generation = generation => config.enabled /\ config.auth /\ x.port = config.port
    /\ x.at # "load" => x.token # 0

RenewalsReal == \A r \in renewals : r.token # 0

SettingsInv == SettingsTyped /\ ServerMatchesConfig /\ StartsInOrder /\ RenewalsReal

(***************************************************************************)
(* The callers' side.                                                      *)
(***************************************************************************)
Requests ==
  [at : {"away", "headers", "upload", "waiting", "translating"}, server : Server \cup {NoServer}]
Jobs ==
  [at : {"none", "queued", "running", "replied"}, server : Server \cup {NoServer}, aborted : BOOLEAN]

TrafficTyped ==
  /\ queue \in [Server -> Seq(Client)] /\ \A s \in Server : Len(queue[s]) <= QueueDepth
  /\ worker \in [Server -> {"none", "free"} \cup Client]
  /\ request \in [Client -> Requests]
  /\ job \in [Client -> Jobs]
  /\ \A c \in Client :
       job[c].at = "queued" <=> \E s \in Server : \E i \in DOMAIN queue[s] : queue[s][i] = c

(* A server's queue holds each of its jobs once.                           *)
QueueOwns ==
  \A s \in Server :
    /\ \A i \in DOMAIN queue[s] : job[queue[s][i]].server = s
    /\ \A i, k \in DOMAIN queue[s] : queue[s][i] = queue[s][k] => i = k

(* A worker's job is one of its server's, and no other worker has it.      *)
WorkerRuns ==
  \A s \in Server : worker[s] \in Client => job[worker[s]].at = "running" /\ job[worker[s]].server = s

(* A connection has a server, and no job before it enqueues one.           *)
NoJobBefore ==
  \A c \in Client :
    /\ request[c].at \in {"headers", "upload"} => job[c].at = "none"
    /\ request[c].at # "away" => request[c].server # NoServer

UploadsBounded ==
  \A s \in Server : IsFiniteSet(On(s)) /\ Cardinality(Uploading(s)) <= MaxUploads

TrafficInv ==
  TrafficTyped /\ OrphansAreAborted /\ QueueOwns /\ WorkerRuns /\ NoJobBefore /\ UploadsBounded

(***************************************************************************)
(* The token's side: while no stored renewal waits to be reported and no   *)
(* overtaken start has stored its own, what serves and what the current    *)
(* start is about to serve is the token in the keyring.                    *)
(***************************************************************************)
Reported == \A r \in renewals : ~r.stored

Serves == handle # NoServer /\ server[handle].adopted /\ config.auth

(* The current start is alone, and nothing serves while it is on its way.  *)
OneCurrent ==
  \A x \in starts : Current(x) => handle = NoServer /\ \A y \in starts : Current(y) => y = x

TokenHeld ==
  Reported /\ ~usurped =>
    /\ Serves => server[handle].token = keyring
    /\ \A x \in starts : x.at = "here" /\ Current(x) => x.token = keyring

TokenInv == OneCurrent /\ TokenHeld

LEMMA TypesAgree == TypeOK <=> SettingsTyped /\ TrafficTyped
  BY DEF TypeOK, SettingsTyped, TrafficTyped, Starts, Servers, Requests, Jobs

(***************************************************************************)
(* The settings' side.                                                     *)
(***************************************************************************)
WorkerMay == worker' = worker \/ \E s \in Server, w \in {"none", "free"} : worker' = [worker EXCEPT ![s] = w]

(* A server that is bound, and that its runtime adopts, runs at that port  *)
(* and with that token.                                                    *)
BoundTo(p, t) ==
  handle' # NoServer /\ server'[handle'].adopted =>
    /\ server'[handle'].at = "open" /\ ~server'[handle'].aborted
    /\ server'[handle'].port = p /\ server'[handle'].token = t

LEMMA Binds ==
  ASSUME NEW base \in [Server -> Servers], NEW p \in Port, NEW t \in Token, Bind(base, p, t)
  PROVE  /\ handle' \in Server \cup {NoServer} /\ server' \in [Server -> Servers] /\ WorkerMay
         /\ BoundTo(p, t)
<1>1. CASE handle' = NoServer /\ server' = base /\ UNCHANGED worker
  BY <1>1 DEF WorkerMay, BoundTo
<1>2. ASSUME NEW s \in Server, NEW v \in Served(p, t), handle' = s,
             worker' = [worker EXCEPT ![s] = "free"], server' = [base EXCEPT ![s] = v]
      PROVE  /\ handle' \in Server \cup {NoServer} /\ server' \in [Server -> Servers] /\ WorkerMay
             /\ BoundTo(p, t)
  <2>1. /\ v \in Servers
        /\ v.adopted => v.at = "open" /\ ~v.aborted /\ v.port = p /\ v.token = t
    <3>1. CASE v = [at |-> "open", port |-> p, token |-> t, adopted |-> TRUE, aborted |-> FALSE]
      BY <3>1, Zenon DEF Servers
    <3>2. CASE v = [at |-> "closing", port |-> p, token |-> t, adopted |-> FALSE, aborted |-> TRUE]
      <4>1. ~v.adopted
        BY <3>2
      <4> QED BY <3>2, <4>1 DEF Servers
    <3> QED BY <3>1, <3>2 DEF Served
  <2>2. server' \in [Server -> Servers] /\ server'[s] = v
    BY <1>2, <2>1
  <2> QED BY <1>2, <2>1, <2>2 DEF WorkerMay, BoundTo
<1> QED BY <1>1, <1>2 DEF Bind

LEMMA StoppedTyped == SettingsInv => Stopped \in [Server -> Servers]
  BY DEF SettingsInv, SettingsTyped, Stopped, Servers

(* A start that follows a change of the settings is of those settings.     *)
LEMMA StartRestores ==
  ASSUME SettingsInv, NEW base \in [Server -> Servers], NEW g \in Nat, g > generation,
         NEW c \in [enabled : BOOLEAN, port : Port, auth : BOOLEAN],
         Start(base, c, g), generation' = g,
         config' \in [enabled : BOOLEAN, port : Port, auth : BOOLEAN],
         config'.enabled, config'.port = c.port, config'.auth = c.auth
  PROVE  /\ starts' \subseteq Starts /\ handle' \in Server \cup {NoServer}
         /\ server' \in [Server -> Servers] /\ WorkerMay
         /\ ServerMatchesConfig' /\ StartsInOrder'
<1>1. starts \subseteq Starts /\ generation \in Nat /\ c.port \in Port /\ c.auth \in BOOLEAN
  BY DEF SettingsInv, SettingsTyped
<1>2. \A x \in starts : x.generation \in Nat /\ x.generation < g /\ (x.at # "load" => x.token # 0)
  BY <1>1 DEF SettingsInv, StartsInOrder, Starts
<1>3. CASE c.auth
  <2> DEFINE x == [generation |-> g, port |-> c.port, token |-> 0, at |-> "load"]
  <2>1. starts' = starts \cup {x} /\ handle' = NoServer /\ server' = base /\ UNCHANGED worker
    BY <1>3 DEF Start
  <2>2. x \in Starts
    BY <1>1 DEF Starts, Token
  <2>3. x.generation = g /\ x.port = c.port /\ x.at = "load"
    OBVIOUS
  <2> HIDE DEF x
  <2>4. StartsInOrder'
    <3>1. ASSUME NEW y \in starts'
          PROVE  /\ y.generation <= generation'
                 /\ y.generation = generation' => config'.enabled /\ config'.auth /\ y.port = config'.port
                 /\ y.at # "load" => y.token # 0
      <4>1. y \in starts \/ y = x
        BY <2>1
      <4> QED BY <1>2, <1>3, <2>3, <4>1
    <3> QED BY <3>1 DEF StartsInOrder
  <2>5. ServerMatchesConfig'
    BY <2>1 DEF ServerMatchesConfig
  <2> QED BY <1>1, <2>1, <2>2, <2>4, <2>5 DEF WorkerMay
<1>4. CASE ~c.auth
  <2>1. Bind(base, c.port, 0) /\ UNCHANGED starts /\ 0 \in Token
    BY <1>4 DEF Start, Token
  <2>2. /\ handle' \in Server \cup {NoServer} /\ server' \in [Server -> Servers] /\ WorkerMay
        /\ BoundTo(c.port, 0)
    BY <1>1, <2>1, Binds
  <2>3. ServerMatchesConfig'
    BY <1>4, <2>2 DEF ServerMatchesConfig, BoundTo
  <2>4. StartsInOrder'
    BY <1>2, <2>1 DEF StartsInOrder
  <2> QED BY <1>1, <2>1, <2>2, <2>3, <2>4
<1> QED BY <1>3, <1>4

(* The settings' side looks at nothing of the callers'.                    *)
LEMMA SettingsRest == SettingsInv /\ UNCHANGED <<settings, server>> => SettingsInv'
  BY DEF settings, SettingsInv, SettingsTyped, ServerMatchesConfig, StartsInOrder, RenewalsReal

LEMMA ActCounts == SettingsTyped /\ Act => acts' \in 0 .. MaxActs
  BY ApiAssumption DEF SettingsTyped, Act

LEMMA EnablePreserves == SettingsInv /\ Enable => SettingsInv' /\ WorkerMay
<1> SUFFICES ASSUME SettingsInv, Enable PROVE SettingsInv' /\ WorkerMay
  OBVIOUS
<1> DEFINE Settings == [enabled : BOOLEAN, port : Port, auth : BOOLEAN]
           g == generation + 1
<1>1. SettingsTyped /\ RenewalsReal /\ acts' \in 0 .. MaxActs
  BY ActCounts DEF SettingsInv, Enable
<1>2. g \in Nat /\ g > generation /\ generation' = g
  BY <1>1 DEF SettingsTyped, Enable
<1>3. /\ config \in Settings /\ config' \in Settings
      /\ config'.enabled /\ config'.port = config.port /\ config'.auth = config.auth
  BY <1>1 DEF SettingsTyped, Enable
<1>4. Start(server, config, g) /\ server \in [Server -> Servers]
  BY <1>1 DEF Enable, SettingsTyped
<1> HIDE DEF g
<1>5. /\ starts' \subseteq Starts /\ handle' \in Server \cup {NoServer}
      /\ server' \in [Server -> Servers] /\ WorkerMay
      /\ ServerMatchesConfig' /\ StartsInOrder'
  BY <1>2, <1>3, <1>4, StartRestores
<1>6. SettingsTyped' /\ RenewalsReal'
  BY <1>1, <1>2, <1>3, <1>5 DEF SettingsTyped, Enable, RenewalsReal
<1> QED BY <1>5, <1>6 DEF SettingsInv

LEMMA RestartPreserves ==
  ASSUME SettingsInv, NEW c \in [enabled : BOOLEAN, port : Port, auth : BOOLEAN],
         c.enabled, Restart(c), config' = c
  PROVE  /\ starts' \subseteq Starts /\ handle' \in Server \cup {NoServer} /\ generation' \in Nat
         /\ server' \in [Server -> Servers] /\ WorkerMay
         /\ ServerMatchesConfig' /\ StartsInOrder'
<1> DEFINE g == generation + 2
<1>1. g \in Nat /\ g > generation /\ generation' = g /\ Start(Stopped, c, g)
  BY DEF SettingsInv, SettingsTyped, Restart
<1> HIDE DEF g
<1> QED BY <1>1, StoppedTyped, StartRestores

LEMMA DisablePreserves == SettingsInv /\ Disable => SettingsInv' /\ WorkerMay
<1> SUFFICES ASSUME SettingsInv, Disable PROVE SettingsInv' /\ WorkerMay
  OBVIOUS
<1>1. SettingsTyped /\ StartsInOrder /\ RenewalsReal /\ acts' \in 0 .. MaxActs
  BY ActCounts DEF SettingsInv, Disable
<1>2. SettingsTyped'
  <2>1. config' \in [enabled : BOOLEAN, port : Port, auth : BOOLEAN]
    BY <1>1 DEF SettingsTyped, Disable
  <2>2. server' \in [Server -> Servers]
    BY StoppedTyped DEF Disable
  <2>3. generation' \in Nat /\ handle' \in Server \cup {NoServer}
    BY <1>1 DEF SettingsTyped, Disable
  <2> QED BY <1>1, <2>1, <2>2, <2>3 DEF SettingsTyped, Disable
<1>3. ServerMatchesConfig' /\ RenewalsReal'
  BY <1>1 DEF ServerMatchesConfig, RenewalsReal, Disable
<1>4. StartsInOrder'
  BY <1>1 DEF StartsInOrder, SettingsTyped, Starts, Disable
<1> QED BY <1>2, <1>3, <1>4 DEF SettingsInv, WorkerMay, Disable, traffic

LEMMA ReconfigurePreserves == SettingsInv /\ Reconfigure => SettingsInv' /\ WorkerMay
<1> SUFFICES ASSUME SettingsInv, Reconfigure PROVE SettingsInv' /\ WorkerMay
  OBVIOUS
<1>1. SettingsTyped /\ RenewalsReal /\ acts' \in 0 .. MaxActs
  BY ActCounts DEF SettingsInv, Reconfigure
<1>2. PICK c \in [enabled : {config.enabled}, port : Port, auth : BOOLEAN] :
        /\ config' = c
        /\ IF c.enabled THEN Restart(c) ELSE UNCHANGED <<generation, starts, handle, server, worker>>
  BY DEF Reconfigure
<1>3. c \in [enabled : BOOLEAN, port : Port, auth : BOOLEAN] /\ c.enabled = config.enabled
  BY <1>1 DEF SettingsTyped
<1>4. CASE c.enabled
  <2>1. /\ starts' \subseteq Starts /\ handle' \in Server \cup {NoServer} /\ generation' \in Nat
        /\ server' \in [Server -> Servers] /\ WorkerMay
        /\ ServerMatchesConfig' /\ StartsInOrder'
    BY <1>2, <1>3, <1>4, RestartPreserves
  <2>2. SettingsTyped' /\ RenewalsReal'
    BY <1>1, <1>2, <1>3, <2>1 DEF SettingsTyped, Reconfigure, RenewalsReal
  <2> QED BY <2>1, <2>2 DEF SettingsInv
<1>5. CASE ~c.enabled
  <2>1. UNCHANGED <<generation, starts, handle, server, worker>>
    BY <1>2, <1>5
  <2>2. SettingsTyped' /\ RenewalsReal'
    BY <1>1, <1>2, <1>3, <2>1 DEF SettingsTyped, Reconfigure, RenewalsReal
  <2>3. ServerMatchesConfig' /\ StartsInOrder'
    BY <1>3, <1>5, <2>1 DEF SettingsInv, ServerMatchesConfig, StartsInOrder
  <2> QED BY <2>1, <2>2, <2>3 DEF SettingsInv, WorkerMay
<1> QED BY <1>4, <1>5

LEMMA RenewPreserves == SettingsInv /\ Renew => SettingsInv' /\ WorkerMay
<1> SUFFICES ASSUME SettingsInv, Renew PROVE SettingsInv' /\ WorkerMay
  OBVIOUS
<1>1. SettingsTyped /\ acts' \in 0 .. MaxActs
  BY ActCounts DEF SettingsInv, Renew
<1>2. SettingsTyped'
  <2>1. minted + 1 \in Token /\ [token |-> minted + 1, stored |-> FALSE] \in [token : Token, stored : BOOLEAN]
    BY <1>1 DEF SettingsTyped, Token
  <2>2. minted' \in Token /\ renewals' \subseteq [token : Token, stored : BOOLEAN]
    BY <1>1, <2>1 DEF SettingsTyped, Renew
  <2> QED BY <1>1, <2>2 DEF SettingsTyped, Renew
<1>3. ServerMatchesConfig' /\ StartsInOrder'
  BY DEF SettingsInv, ServerMatchesConfig, StartsInOrder, Renew
<1>4. RenewalsReal'
  BY <1>1 DEF SettingsInv, SettingsTyped, RenewalsReal, Renew, Token
<1> QED BY <1>2, <1>3, <1>4 DEF SettingsInv, WorkerMay, Renew, traffic

LEMMA RenewStorePreserves == SettingsInv /\ RenewStore => SettingsInv' /\ WorkerMay
<1> SUFFICES ASSUME SettingsInv, RenewStore PROVE SettingsInv' /\ WorkerMay
  OBVIOUS
<1>1. SettingsTyped /\ RenewalsReal
  BY DEF SettingsInv
<1>2. PICK r \in renewals :
        \/ /\ keyring' = r.token
           /\ renewals' = (renewals \ {r}) \cup {[r EXCEPT !.stored = TRUE]}
        \/ UNCHANGED keyring /\ renewals' = renewals \ {r}
  BY DEF RenewStore
<1>3. /\ r.token \in Token /\ r.token # 0
      /\ [r EXCEPT !.stored = TRUE] \in [token : Token, stored : BOOLEAN]
      /\ [r EXCEPT !.stored = TRUE].token = r.token
  BY <1>1 DEF SettingsTyped, RenewalsReal
<1>4. SettingsTyped' /\ RenewalsReal'
  BY <1>1, <1>2, <1>3 DEF SettingsTyped, RenewalsReal, RenewStore
<1>5. ServerMatchesConfig' /\ StartsInOrder'
  BY DEF SettingsInv, ServerMatchesConfig, StartsInOrder, RenewStore
<1> QED BY <1>4, <1>5 DEF SettingsInv, WorkerMay, RenewStore, traffic

LEMMA RenewDonePreserves == SettingsInv /\ RenewDone => SettingsInv' /\ WorkerMay
<1> SUFFICES ASSUME SettingsInv, RenewDone PROVE SettingsInv' /\ WorkerMay
  OBVIOUS
<1>1. SettingsTyped /\ RenewalsReal /\ renewals' \subseteq renewals
  BY DEF SettingsInv, RenewDone
<1>2. CASE config.enabled
  <2>1. Restart(config) /\ config' = config /\ config \in [enabled : BOOLEAN, port : Port, auth : BOOLEAN]
    BY <1>1, <1>2 DEF RenewDone, SettingsTyped
  <2>2. /\ starts' \subseteq Starts /\ handle' \in Server \cup {NoServer} /\ generation' \in Nat
        /\ server' \in [Server -> Servers] /\ WorkerMay
        /\ ServerMatchesConfig' /\ StartsInOrder'
    BY <1>2, <2>1, RestartPreserves
  <2>3. SettingsTyped' /\ RenewalsReal'
    BY <1>1, <2>2 DEF SettingsTyped, RenewDone, RenewalsReal
  <2> QED BY <2>2, <2>3 DEF SettingsInv
<1>3. CASE ~config.enabled
  <2>1. UNCHANGED <<config, keyring, minted, acts, generation, starts, usurped, handle, server, worker>>
    BY <1>3 DEF RenewDone
  <2> QED BY <1>1, <2>1 DEF SettingsInv, SettingsTyped, ServerMatchesConfig, StartsInOrder,
             RenewalsReal, WorkerMay
<1> QED BY <1>2, <1>3

LEMMA FetchTokenPreserves == SettingsInv /\ FetchToken => SettingsInv' /\ WorkerMay
<1> SUFFICES ASSUME SettingsInv, FetchToken PROVE SettingsInv' /\ WorkerMay
  OBVIOUS
<1>1. SettingsTyped /\ StartsInOrder
  BY DEF SettingsInv
<1>2. PICK x \in starts :
        \/ \E t \in Loaded \ {0} :
             /\ starts' = (starts \ {x}) \cup {[x EXCEPT !.at = "here", !.token = t]}
             /\ UNCHANGED <<keyring, minted>>
        \/ /\ minted' = minted + 1
           /\ starts' = (starts \ {x}) \cup {[x EXCEPT !.at = "store", !.token = minted + 1]}
           /\ UNCHANGED keyring
        \/ /\ x.at = "store" /\ keyring' = x.token
           /\ starts' = (starts \ {x}) \cup {[x EXCEPT !.at = "here"]}
           /\ UNCHANGED minted
        \/ x.at = "store" /\ starts' = starts \ {x} /\ UNCHANGED <<keyring, minted>>
  BY DEF FetchToken
<1>3. keyring' \in Token /\ minted' \in Token
  <2>1. keyring \in Nat /\ minted \in Nat /\ x.token \in Nat
    BY <1>1 DEF SettingsTyped, Starts, Token
  <2>2. keyring' = keyring \/ keyring' = x.token
    BY <1>2
  <2>3. minted' = minted \/ minted' = minted + 1
    BY <1>2
  <2> QED BY <2>1, <2>2, <2>3 DEF Token
<1>4. PICK y \in Starts : /\ starts' \subseteq starts \cup {y}
                          /\ y.generation = x.generation /\ y.port = x.port /\ y.token # 0
  <2>1. x \in Starts /\ minted + 1 \in Token /\ minted + 1 # 0 /\ Loaded \subseteq Token
    BY <1>1 DEF SettingsTyped, Token, Loaded
  <2> DEFINE Y(y) == /\ y \in Starts /\ starts' \subseteq starts \cup {y}
                     /\ y.generation = x.generation /\ y.port = x.port /\ y.token # 0
  <2>2. ASSUME NEW t \in Loaded \ {0},
               starts' = (starts \ {x}) \cup {[x EXCEPT !.at = "here", !.token = t]}
        PROVE  \E y \in Starts : Y(y)
    <3>1. Y([x EXCEPT !.at = "here", !.token = t])
      BY <2>1, <2>2 DEF Starts
    <3> QED BY <3>1
  <2>3. CASE starts' = (starts \ {x}) \cup {[x EXCEPT !.at = "store", !.token = minted + 1]}
    <3>1. Y([x EXCEPT !.at = "store", !.token = minted + 1])
      BY <2>1, <2>3 DEF Starts
    <3> QED BY <3>1
  <2>4. CASE x.at = "store" /\ starts' = (starts \ {x}) \cup {[x EXCEPT !.at = "here"]}
    <3>1. Y([x EXCEPT !.at = "here"])
      BY <1>1, <2>1, <2>4 DEF Starts, StartsInOrder
    <3> QED BY <3>1
  <2>5. CASE x.at = "store" /\ starts' = starts \ {x}
    <3>1. Y(x)
      BY <1>1, <2>1, <2>5 DEF Starts, StartsInOrder
    <3> QED BY <3>1
  <2> QED BY <1>2, <2>2, <2>3, <2>4, <2>5
<1>5. SettingsTyped'
  <2>1. usurped' \in BOOLEAN
    BY <1>1 DEF FetchToken, SettingsTyped
  <2> QED BY <1>1, <1>3, <1>4, <2>1 DEF SettingsTyped, FetchToken
<1>6. StartsInOrder'
  BY <1>1, <1>4 DEF StartsInOrder, FetchToken
<1>7. ServerMatchesConfig' /\ RenewalsReal'
  BY DEF SettingsInv, ServerMatchesConfig, RenewalsReal, FetchToken
<1> QED BY <1>5, <1>6, <1>7 DEF SettingsInv, WorkerMay, FetchToken, traffic

LEMMA FinishStartPreserves == SettingsInv /\ FinishStart => SettingsInv' /\ WorkerMay
<1> SUFFICES ASSUME SettingsInv, FinishStart PROVE SettingsInv' /\ WorkerMay
  OBVIOUS
<1>1. SettingsTyped /\ StartsInOrder
  BY DEF SettingsInv
<1>2. PICK x \in starts :
        /\ x.at = "here" /\ starts' = starts \ {x}
        /\ IF StillWanted(x) THEN Bind(server, x.port, x.token)
           ELSE UNCHANGED <<handle, server, worker>>
  BY DEF FinishStart
<1>3. StartsInOrder' /\ RenewalsReal' /\ starts' \subseteq Starts
  BY <1>1, <1>2 DEF SettingsInv, SettingsTyped, StartsInOrder, RenewalsReal, FinishStart
<1>4. CASE StillWanted(x)
  <2>1. Bind(server, x.port, x.token) /\ x.port \in Port /\ x.token \in Token /\ server \in [Server -> Servers]
    BY <1>1, <1>2, <1>4 DEF SettingsTyped, Starts
  <2>2. /\ handle' \in Server \cup {NoServer} /\ server' \in [Server -> Servers] /\ WorkerMay
        /\ BoundTo(x.port, x.token)
    BY <2>1, Binds
  <2>3. config.enabled /\ config.auth /\ config.port = x.port /\ x.token # 0
    BY <1>1, <1>2, <1>4 DEF StillWanted, Current, StartsInOrder
  <2>4. ServerMatchesConfig'
    BY <2>2, <2>3 DEF ServerMatchesConfig, BoundTo, FinishStart
  <2>5. SettingsTyped'
    BY <1>1, <1>3, <2>2 DEF SettingsTyped, FinishStart
  <2> QED BY <1>3, <2>2, <2>4, <2>5 DEF SettingsInv
<1>5. CASE ~StillWanted(x)
  <2>1. UNCHANGED <<handle, server, worker>>
    BY <1>2, <1>5
  <2>2. SettingsTyped' /\ ServerMatchesConfig'
    BY <1>1, <1>3, <2>1 DEF SettingsInv, SettingsTyped, ServerMatchesConfig, FinishStart
  <2> QED BY <1>3, <2>1, <2>2 DEF SettingsInv, WorkerMay
<1> QED BY <1>4, <1>5

(* Only a server that was told to stop goes on to its end.                 *)
LEMMA ServerEndsPreserve ==
  ASSUME SettingsInv, NEW s \in Server, ShutDown(s) \/ Close(s) \/ Join(s)
  PROVE  SettingsInv' /\ WorkerMay
<1>1. SettingsTyped /\ server[s].at \in {"open", "closing", "closed"} /\ UNCHANGED settings
  BY DEF SettingsInv, ShutDown, Close, Join
<1>2. PICK r \in Servers : server' = [server EXCEPT ![s] = r]
  <2>1. \A p \in {"closing", "closed"} : [server[s] EXCEPT !.at = p] \in Servers
    BY <1>1 DEF SettingsTyped, Servers
  <2>2. Unused \in Servers
    BY DEF Unused, Servers, Token
  <2> QED BY <2>1, <2>2 DEF ShutDown, Close, Join
<1>3. handle = s => ~server[s].adopted /\ ~server'[s].adopted
  <2>1. handle = s => ~server[s].adopted
    BY ApiAssumption DEF SettingsInv, ServerMatchesConfig, ShutDown, Close, Join
  <2>2. server'[s].adopted => server[s].adopted
    BY <1>1 DEF SettingsTyped, Servers, Unused, ShutDown, Close, Join
  <2> QED BY <2>1, <2>2
<1>4. server' \in [Server -> Servers] /\ \A k \in Server : k # s => server'[k] = server[k]
  BY <1>1, <1>2 DEF SettingsTyped
<1>5. SettingsTyped' /\ ServerMatchesConfig'
  BY <1>1, <1>3, <1>4 DEF SettingsTyped, ServerMatchesConfig, SettingsInv, settings
<1>6. StartsInOrder' /\ RenewalsReal'
  BY <1>1 DEF StartsInOrder, RenewalsReal, SettingsInv, settings
<1>7. WorkerMay
  BY DEF ShutDown, Close, Join, traffic, WorkerMay
<1> QED BY <1>5, <1>6, <1>7 DEF SettingsInv

LEMMA SettingsNext == SettingsInv /\ [Next]_vars => SettingsInv'
<1> SUFFICES ASSUME SettingsInv, [Next]_vars PROVE SettingsInv'
  OBVIOUS
<1>1. CASE User \/ Secrets \/ Arrivals
  BY <1>1, EnablePreserves, DisablePreserves, ReconfigurePreserves, RenewPreserves,
     RenewStorePreserves, FetchTokenPreserves, RenewDonePreserves, FinishStartPreserves
     DEF User, Secrets, Arrivals
<1>2. ASSUME NEW c \in Client,
             Connect(c) \/ Admit(c) \/ Enqueue(c) \/ Progress(c) \/ Disconnect(c)
      PROVE  SettingsInv'
  BY <1>2, SettingsRest DEF Connect, Admit, Enqueue, Progress, Disconnect, Answer, Refuse, Reply,
     Translated, TimeOut, DropConnection
<1>3. ASSUME NEW s \in Server, Accept(s) \/ Work(s) PROVE SettingsInv'
  BY <1>3, SettingsRest, ServerEndsPreserve DEF Accept, Work, Receive, Finish
<1>4. CASE UNCHANGED vars
  BY <1>4, SettingsRest DEF vars
<1> QED BY <1>1, <1>2, <1>3, <1>4 DEF Next

(***************************************************************************)
(* The callers' side.                                                      *)
(***************************************************************************)

(* The settings' side touches no job; a worker that is not on one may come *)
(* and go.                                                                 *)
LEMMA TrafficRests ==
  ASSUME TrafficInv, UNCHANGED <<queue, request, job>>, WorkerMay
  PROVE  TrafficInv'
<1>1. /\ worker' \in [Server -> {"none", "free"} \cup Client]
      /\ \A s \in Server : worker'[s] \in Client => worker'[s] = worker[s]
  BY ApiAssumption DEF WorkerMay, TrafficInv, TrafficTyped
<1>2. TrafficTyped' /\ WorkerRuns'
  BY <1>1 DEF TrafficInv, TrafficTyped, WorkerRuns
<1>3. OrphansAreAborted' /\ QueueOwns' /\ NoJobBefore'
  BY DEF TrafficInv, OrphansAreAborted, QueueOwns, NoJobBefore
<1>4. UploadsBounded'
  BY DEF TrafficInv, UploadsBounded, Uploading, On
<1> QED BY <1>2, <1>3, <1>4 DEF TrafficInv

(* Fewer connections need fewer permits.                                   *)
LEMMA FewerUploads ==
  ASSUME UploadsBounded, \A s \in Server : On(s)' \subseteq On(s) /\ Uploading(s)' \subseteq Uploading(s)
  PROVE  UploadsBounded'
<1> SUFFICES ASSUME NEW s \in Server
             PROVE  IsFiniteSet(On(s)') /\ Cardinality(Uploading(s)') <= MaxUploads
  BY DEF UploadsBounded
<1>1. IsFiniteSet(On(s)) /\ Uploading(s) \subseteq On(s) /\ Cardinality(Uploading(s)) <= MaxUploads
  BY DEF UploadsBounded, Uploading
<1>2. IsFiniteSet(Uploading(s)) /\ IsFiniteSet(On(s)')
  BY <1>1, FS_Subset
<1>3. Cardinality(Uploading(s)') <= Cardinality(Uploading(s)) /\ IsFiniteSet(Uploading(s)')
  BY <1>2, FS_Subset
<1>4. Cardinality(Uploading(s)) \in Nat /\ Cardinality(Uploading(s)') \in Nat
  BY <1>2, <1>3, FS_CardinalityType
<1> QED BY <1>1, <1>2, <1>3, <1>4, ApiAssumption

(* A caller that leaves gives its permits back and marks its job.          *)
LEMMA LeavePreserves ==
  ASSUME TrafficInv, NEW c \in Client, Leave(c), UNCHANGED <<queue, worker>>
  PROVE  TrafficInv'
<1> DEFINE j == IF job[c].at = "replied" THEN NoJob ELSE [job[c] EXCEPT !.aborted = job[c].at # "none"]
<1>1. TrafficTyped
  BY DEF TrafficInv
<1>2. /\ j \in Jobs
      /\ \/ j.at = job[c].at /\ j.server = job[c].server
         \/ job[c].at = "replied" /\ j.at = "none"
      /\ j.at \in {"queued", "running"} => j.aborted
  <2>1. job[c] \in Jobs
    BY <1>1 DEF TrafficTyped
  <2>2. CASE job[c].at = "replied"
    BY <2>2 DEF Jobs, NoJob
  <2>3. CASE job[c].at # "replied"
    <3>1. PICK b \in BOOLEAN : b = (job[c].at # "none")
      OBVIOUS
    <3>2. j = [job[c] EXCEPT !.aborted = b]
      BY <2>3, <3>1
    <3>3. j \in Jobs /\ j.at = job[c].at /\ j.server = job[c].server /\ j.aborted = b
      BY <2>1, <3>2 DEF Jobs
    <3>4. j.at \in {"queued", "running"} => j.aborted
      <4>1. job[c].at \in {"queued", "running"} => b
        BY <3>1
      <4> HIDE DEF j
      <4> QED BY <3>3, <4>1
    <3> HIDE DEF j
    <3> QED BY <3>3, <3>4
  <2> HIDE DEF j
  <2> QED BY <2>2, <2>3
<1>3. job' = [job EXCEPT ![c] = j]
  BY DEF Leave
<1> HIDE DEF j
<1>4. /\ job' \in [Client -> Jobs] /\ job'[c] = j
      /\ \A k \in Client : k # c => job'[k] = job[k]
  BY <1>1, <1>2, <1>3 DEF TrafficTyped
<1>5. /\ request' \in [Client -> Requests] /\ request'[c] = Away
      /\ \A k \in Client : k # c => request'[k] = request[k]
  BY <1>1 DEF TrafficTyped, Leave, Away, Requests
<1>6. \A k \in Client : /\ job'[k].at = job[k].at \/ (job[k].at = "replied" /\ job'[k].at = "none")
                        /\ job[k].at # "replied" => job'[k].server = job[k].server
  BY <1>2, <1>4
<1>7. TrafficTyped'
  BY <1>1, <1>4, <1>5, <1>6 DEF TrafficTyped
<1>8. OrphansAreAborted'
  BY <1>2, <1>4, <1>5 DEF OrphansAreAborted, TrafficInv
<1>9. QueueOwns'
  <2>1. \A s \in Server : \A i \in DOMAIN queue[s] : queue[s][i] \in Client /\ job[queue[s][i]].at = "queued"
    BY <1>1 DEF TrafficTyped
  <2> QED BY <1>6, <2>1 DEF QueueOwns, TrafficInv
<1>10. WorkerRuns'
  BY <1>6 DEF WorkerRuns, TrafficInv
<1>11. NoJobBefore'
  BY <1>4, <1>5 DEF NoJobBefore, TrafficInv, Away
<1>12. \A s \in Server : On(s)' \subseteq On(s) /\ Uploading(s)' \subseteq Uploading(s)
  BY <1>5, ApiAssumption DEF On, Uploading, Away
<1>13. UploadsBounded'
  BY <1>12, FewerUploads DEF TrafficInv
<1> QED BY <1>7, <1>8, <1>9, <1>10, <1>11, <1>13 DEF TrafficInv

(* Nothing changes but the place of one connection, within its server.     *)
LEMMA ConnectPreserves ==
  ASSUME TrafficInv, NEW c \in Client, Connect(c)
  PROVE  TrafficInv'
<1>1. TrafficTyped /\ UNCHANGED <<queue, worker, job>>
  BY DEF TrafficInv, Connect
<1>2. PICK s \in Server : request' = [request EXCEPT ![c] = [at |-> "headers", server |-> s]]
  BY DEF Connect
<1>3. /\ request' \in [Client -> Requests]
      /\ request'[c] = [at |-> "headers", server |-> s]
      /\ \A k \in Client : k # c => request'[k] = request[k]
  BY <1>1, <1>2 DEF TrafficTyped, Requests
<1>4. TrafficTyped'
  BY <1>1, <1>3 DEF TrafficTyped
<1>5. OrphansAreAborted' /\ NoJobBefore'
  <2>1. job[c].at = "none" /\ s # NoServer
    BY ApiAssumption DEF Connect, NoJob
  <2>2. request'[c].at = "headers" /\ request'[c].server = s
    BY <1>3
  <2> QED BY <1>1, <1>3, <2>1, <2>2 DEF OrphansAreAborted, NoJobBefore, TrafficInv
<1>6. QueueOwns' /\ WorkerRuns'
  BY <1>1 DEF QueueOwns, WorkerRuns, TrafficInv
<1>7. UploadsBounded'
  <2> SUFFICES ASSUME NEW t \in Server
               PROVE  IsFiniteSet(On(t)') /\ Cardinality(Uploading(t)') <= MaxUploads
    BY DEF UploadsBounded
  <2>1. IsFiniteSet(On(t)) /\ Cardinality(Uploading(t)) <= MaxUploads
    BY DEF TrafficInv, UploadsBounded
  <2>2. On(t)' \subseteq On(t) \cup {c}
    BY <1>3 DEF On
  <2>3. Uploading(t)' = Uploading(t)
    <3>1. request[c].at = "away" /\ request'[c].at = "headers"
      BY <1>3 DEF Connect
    <3> QED BY <1>3, <3>1 DEF Uploading, On
  <2>4. IsFiniteSet(On(t) \cup {c})
    BY <2>1, FS_AddElement
  <2> QED BY <2>1, <2>2, <2>3, <2>4, FS_Subset
<1> QED BY <1>4, <1>5, <1>6, <1>7 DEF TrafficInv

LEMMA AdmitPreserves ==
  ASSUME TrafficInv, NEW c \in Client, Admit(c)
  PROVE  TrafficInv'
<1> DEFINE s == request[c].server
<1>1. TrafficTyped /\ UNCHANGED <<queue, worker>> /\ request[c].at = "headers"
  BY DEF TrafficInv, Admit
<1>2. CASE Leave(c)
  BY <1>1, <1>2, LeavePreserves
<1>3. CASE Cardinality(Uploading(s)) < MaxUploads /\ Goto(c, "upload") /\ UNCHANGED job
  <2>1. /\ request' \in [Client -> Requests]
        /\ request'[c].at = "upload" /\ request'[c].server = s
        /\ \A k \in Client : k # c => request'[k] = request[k]
    BY <1>1, <1>3 DEF TrafficTyped, Requests, Goto
  <2>2. TrafficTyped'
    BY <1>1, <1>3, <2>1 DEF TrafficTyped
  <2>3. OrphansAreAborted' /\ NoJobBefore'
    BY <1>1, <1>3, <2>1 DEF OrphansAreAborted, NoJobBefore, TrafficInv
  <2>4. QueueOwns' /\ WorkerRuns'
    BY <1>1, <1>3 DEF QueueOwns, WorkerRuns, TrafficInv
  <2>5. UploadsBounded'
    <3> SUFFICES ASSUME NEW t \in Server
                 PROVE  IsFiniteSet(On(t)') /\ Cardinality(Uploading(t)') <= MaxUploads
      BY DEF UploadsBounded
    <3>1. IsFiniteSet(On(t)) /\ Cardinality(Uploading(t)) <= MaxUploads /\ IsFiniteSet(Uploading(t))
      <4>1. IsFiniteSet(On(t)) /\ Cardinality(Uploading(t)) <= MaxUploads
        BY DEF TrafficInv, UploadsBounded
      <4> QED BY <4>1, FS_Subset DEF Uploading
    <3>2. On(t)' = On(t)
      BY <2>1 DEF On
    <3>3. CASE t = s
      <4>1. Uploading(t)' \subseteq Uploading(t) \cup {c}
        BY <2>1 DEF Uploading, On
      <4>2. IsFiniteSet(Uploading(t) \cup {c}) /\ Cardinality(Uploading(t) \cup {c}) <= Cardinality(Uploading(t)) + 1
        <5>1. /\ IsFiniteSet(Uploading(t) \cup {c})
              /\ Cardinality(Uploading(t) \cup {c}) =
                   IF c \in Uploading(t) THEN Cardinality(Uploading(t)) ELSE Cardinality(Uploading(t)) + 1
          BY <3>1, FS_AddElement
        <5>2. Cardinality(Uploading(t)) \in Nat
          BY <3>1, FS_CardinalityType
        <5> QED BY <5>1, <5>2
      <4>3. Cardinality(Uploading(t)') <= Cardinality(Uploading(t) \cup {c}) /\ IsFiniteSet(Uploading(t)')
        BY <4>1, <4>2, FS_Subset
      <4>4. /\ Cardinality(Uploading(t)) \in Nat /\ Cardinality(Uploading(t)') \in Nat
            /\ Cardinality(Uploading(t) \cup {c}) \in Nat
        BY <3>1, <4>2, <4>3, FS_CardinalityType
      <4> QED BY <1>3, <3>1, <3>2, <3>3, <4>2, <4>3, <4>4, ApiAssumption
    <3>4. CASE t # s
      <4>1. Uploading(t)' = Uploading(t)
        BY <2>1, <3>4 DEF Uploading, On
      <4> QED BY <3>1, <3>2, <4>1
    <3> QED BY <3>3, <3>4
  <2> QED BY <2>2, <2>3, <2>4, <2>5 DEF TrafficInv
<1> QED BY <1>2, <1>3 DEF Admit

LEMMA EnqueuePreserves ==
  ASSUME TrafficInv, NEW c \in Client, Enqueue(c)
  PROVE  TrafficInv'
<1> DEFINE s == request[c].server
<1>1. TrafficTyped /\ UNCHANGED worker /\ request[c].at = "upload" /\ job[c].at = "none"
  BY DEF TrafficInv, Enqueue, NoJobBefore
<1>2. CASE Leave(c) /\ UNCHANGED queue
  BY <1>1, <1>2, LeavePreserves
<1>3. CASE ~Full(s) /\ queue' = [queue EXCEPT ![s] = Append(@, c)]
           /\ job' = [job EXCEPT ![c] = [at |-> "queued", server |-> s, aborted |-> FALSE]]
           /\ Goto(c, "waiting")
  <2>1. /\ request' \in [Client -> Requests]
        /\ request'[c].at = "waiting" /\ request'[c].server = s
        /\ \A k \in Client : k # c => request'[k] = request[k]
    BY <1>1, <1>3 DEF TrafficTyped, Requests, Goto
  <2>2. s \in Server
    <3>1. s \in Server \cup {NoServer}
      BY <1>1 DEF TrafficTyped, Requests
    <3>2. s # NoServer
      BY <1>1 DEF TrafficInv, NoJobBefore
    <3> QED BY <3>1, <3>2
  <2>3. /\ job' \in [Client -> Jobs] /\ job'[c] = [at |-> "queued", server |-> s, aborted |-> FALSE]
        /\ \A k \in Client : k # c => job'[k] = job[k]
    BY <1>1, <1>3, <2>2 DEF TrafficTyped, Jobs
  <2> HIDE DEF s
  <2>4. /\ queue' \in [Server -> Seq(Client)] /\ queue'[s] = Append(queue[s], c)
        /\ \A t \in Server : t # s => queue'[t] = queue[t]
    BY <1>1, <1>3, <2>2 DEF TrafficTyped
  <2>5. /\ Len(queue'[s]) = Len(queue[s]) + 1 /\ DOMAIN queue'[s] = DOMAIN queue[s] \cup {Len(queue[s]) + 1}
        /\ queue'[s][Len(queue[s]) + 1] = c
        /\ \A i \in DOMAIN queue[s] : queue'[s][i] = queue[s][i]
    BY <1>1, <2>2, <2>4 DEF TrafficTyped
  <2>6. \A t \in Server : Len(queue'[t]) <= QueueDepth
    BY <1>1, <1>3, <2>2, <2>4, <2>5, ApiAssumption DEF TrafficTyped, Full
  <2>7. \A t \in Server : \A i \in DOMAIN queue[t] : queue[t][i] \in Client /\ queue[t][i] # c
    BY <1>1 DEF TrafficTyped
  <2>8. \A k \in Client : job'[k].at = "queued" <=> \E t \in Server : \E i \in DOMAIN queue'[t] : queue'[t][i] = k
    <3>1. \A t \in Server : \A i \in DOMAIN queue[t] : i \in DOMAIN queue'[t] /\ queue'[t][i] = queue[t][i]
      BY <2>4, <2>5
    <3>2. \A t \in Server : \A i \in DOMAIN queue'[t] :
            (i \in DOMAIN queue[t] /\ queue'[t][i] = queue[t][i]) \/ queue'[t][i] = c
      BY <2>4, <2>5
    <3>3. \E t \in Server : \E i \in DOMAIN queue'[t] : queue'[t][i] = c
      BY <2>2, <2>5
    <3> SUFFICES ASSUME NEW k \in Client
                 PROVE  job'[k].at = "queued" <=> \E t \in Server : \E i \in DOMAIN queue'[t] : queue'[t][i] = k
      OBVIOUS
    <3>4. CASE k = c
      BY <2>3, <3>3, <3>4
    <3>5. CASE k # c
      <4>1. job[k].at = "queued" <=> \E t \in Server : \E i \in DOMAIN queue[t] : queue[t][i] = k
        BY <1>1 DEF TrafficTyped
      <4> QED BY <2>3, <3>1, <3>2, <3>5, <4>1
    <3> QED BY <3>4, <3>5
  <2>9. TrafficTyped'
    BY <1>1, <2>1, <2>3, <2>4, <2>6, <2>8 DEF TrafficTyped
  <2>10. OrphansAreAborted' /\ NoJobBefore'
    <3>1. job'[c].at = "queued" /\ job'[c].server = s /\ s # NoServer
      BY <2>2, <2>3, ApiAssumption
    <3> QED BY <1>1, <2>1, <2>3, <3>1 DEF OrphansAreAborted, NoJobBefore, TrafficInv
  <2>11. QueueOwns'
    <3> SUFFICES ASSUME NEW t \in Server
                 PROVE  /\ \A i \in DOMAIN queue'[t] : job'[queue'[t][i]].server = t
                        /\ \A i, k \in DOMAIN queue'[t] : queue'[t][i] = queue'[t][k] => i = k
      BY DEF QueueOwns
    <3>1. /\ \A i \in DOMAIN queue[t] : job[queue[t][i]].server = t
          /\ \A i, k \in DOMAIN queue[t] : queue[t][i] = queue[t][k] => i = k
      BY DEF TrafficInv, QueueOwns
    <3>2. CASE t = s
      BY <2>3, <2>5, <2>7, <3>1, <3>2
    <3>3. CASE t # s
      <4>1. queue'[t] = queue[t]
        BY <2>4, <3>3
      <4>2. \A i \in DOMAIN queue[t] : job'[queue[t][i]] = job[queue[t][i]]
        BY <2>3, <2>7
      <4> QED BY <3>1, <4>1, <4>2
    <3> QED BY <3>2, <3>3
  <2>12. WorkerRuns'
    BY <1>1, <2>3 DEF WorkerRuns, TrafficInv
  <2>13. UploadsBounded'
    <3>1. \A t \in Server : On(t)' \subseteq On(t) /\ Uploading(t)' \subseteq Uploading(t)
      BY <1>1, <2>1 DEF On, Uploading, s
    <3> QED BY <3>1, FewerUploads DEF TrafficInv
  <2> QED BY <2>9, <2>10, <2>11, <2>12, <2>13 DEF TrafficInv
<1> QED BY <1>2, <1>3 DEF Enqueue

LEMMA ReplyPreserves ==
  ASSUME TrafficInv, NEW c \in Client, Reply(c)
  PROVE  TrafficInv'
<1>1. TrafficTyped /\ UNCHANGED <<queue, worker>>
  BY DEF TrafficInv, Reply
<1>2. CASE Leave(c)
  BY <1>1, <1>2, LeavePreserves
<1>3. CASE job[c].at = "replied" /\ Goto(c, "translating") /\ UNCHANGED job
  <2>1. /\ request' \in [Client -> Requests]
        /\ request'[c].at = "translating" /\ request'[c].server = request[c].server
        /\ \A k \in Client : k # c => request'[k] = request[k]
    BY <1>1, <1>3 DEF TrafficTyped, Requests, Goto
  <2>2. TrafficTyped'
    BY <1>1, <1>3, <2>1 DEF TrafficTyped
  <2>3. OrphansAreAborted' /\ NoJobBefore'
    BY <1>3, <2>1 DEF OrphansAreAborted, NoJobBefore, TrafficInv, Reply
  <2>4. QueueOwns' /\ WorkerRuns'
    BY <1>1, <1>3 DEF QueueOwns, WorkerRuns, TrafficInv
  <2>5. \A t \in Server : On(t)' \subseteq On(t) /\ Uploading(t)' \subseteq Uploading(t)
    BY <2>1 DEF On, Uploading, Reply
  <2>6. UploadsBounded'
    BY <2>5, FewerUploads DEF TrafficInv
  <2> QED BY <2>2, <2>3, <2>4, <2>6 DEF TrafficInv
<1> QED BY <1>2, <1>3 DEF Reply

(* The head of the queue is run, or dropped where it was aborted.          *)
LEMMA ReceivePreserves ==
  ASSUME TrafficInv, NEW s \in Server, Receive(s)
  PROVE  TrafficInv'
<1> DEFINE c == Head(queue[s])
           r == IF Aborted(c) THEN NoJob ELSE [job[c] EXCEPT !.at = "running"]
<1>1. TrafficTyped /\ UNCHANGED request /\ queue[s] \in Seq(Client) /\ queue[s] # <<>>
  BY DEF TrafficInv, TrafficTyped, Receive
<1>2. c \in Client /\ c = queue[s][1] /\ 1 \in DOMAIN queue[s]
  BY <1>1
<1>3. job[c].at = "queued" /\ job[c] \in Jobs
  BY <1>1, <1>2 DEF TrafficTyped
<1>4. /\ r \in Jobs /\ r.at \in {"none", "running"}
      /\ r.at = "running" => r.server = job[c].server /\ r.aborted = job[c].aborted
  BY <1>3 DEF Jobs, NoJob
<1>5. job' = [job EXCEPT ![c] = r] /\ queue' = [queue EXCEPT ![s] = Tail(@)]
      /\ worker' \in {worker, [worker EXCEPT ![s] = c]}
      /\ (r.at = "none" => UNCHANGED worker)
  BY DEF Receive, NoJob
<1> HIDE DEF r, c
<1>6. /\ job' \in [Client -> Jobs] /\ job'[c] = r
      /\ \A k \in Client : k # c => job'[k] = job[k]
  BY <1>1, <1>2, <1>4, <1>5 DEF TrafficTyped
<1>7. /\ queue' \in [Server -> Seq(Client)] /\ queue'[s] = Tail(queue[s])
      /\ \A t \in Server : t # s => queue'[t] = queue[t]
  BY <1>1, <1>5 DEF TrafficTyped
<1>8. /\ Len(queue'[s]) = Len(queue[s]) - 1
      /\ \A i \in DOMAIN queue'[s] : i + 1 \in DOMAIN queue[s] /\ i + 1 # 1 /\ queue'[s][i] = queue[s][i + 1]
      /\ \A i \in DOMAIN queue[s] : i # 1 => i - 1 \in DOMAIN queue'[s] /\ queue'[s][i - 1] = queue[s][i]
      /\ \A i \in DOMAIN queue'[s] : i \in Int
  BY <1>1, <1>7
<1>9. \A t \in Server : Len(queue'[t]) <= QueueDepth
  <2>1. \A t \in Server : Len(queue[t]) <= QueueDepth /\ Len(queue[t]) \in Nat
    BY <1>1 DEF TrafficTyped
  <2>2. Len(queue'[s]) <= QueueDepth
    BY <1>8, <2>1, ApiAssumption
  <2> QED BY <1>7, <2>1, <2>2
<1>10. /\ \A t \in Server : \A i \in DOMAIN queue[t] : queue[t][i] \in Client /\ job[queue[t][i]].server = t
       /\ \A i \in DOMAIN queue[s] : queue[s][i] = c => i = 1
       /\ \A t \in Server : \A i \in DOMAIN queue[t] : t # s => queue[t][i] # c
  <2>1. \A t \in Server : \A i \in DOMAIN queue[t] : queue[t][i] \in Client /\ job[queue[t][i]].server = t
    BY <1>1 DEF TrafficInv, QueueOwns, TrafficTyped
  <2>2. \A i, k \in DOMAIN queue[s] : queue[s][i] = queue[s][k] => i = k
    BY DEF TrafficInv, QueueOwns
  <2> QED BY <1>2, <2>1, <2>2
<1>11. /\ \A t \in Server : \A i \in DOMAIN queue'[t] :
             /\ queue'[t][i] \in Client /\ queue'[t][i] # c
             /\ \E k \in DOMAIN queue[t] : queue[t][k] = queue'[t][i]
       /\ \A t \in Server : \A i \in DOMAIN queue[t] :
             queue[t][i] = c \/ \E k \in DOMAIN queue'[t] : queue'[t][k] = queue[t][i]
  <2>1. ASSUME NEW t \in Server
        PROVE  /\ \A i \in DOMAIN queue'[t] :
                     /\ queue'[t][i] \in Client /\ queue'[t][i] # c
                     /\ \E k \in DOMAIN queue[t] : queue[t][k] = queue'[t][i]
               /\ \A i \in DOMAIN queue[t] :
                     queue[t][i] = c \/ \E k \in DOMAIN queue'[t] : queue'[t][k] = queue[t][i]
    <3>1. CASE t = s
      BY <1>2, <1>8, <1>10, <3>1
    <3>2. CASE t # s
      BY <1>7, <1>10, <3>2
    <3> QED BY <3>1, <3>2
  <2> QED BY <2>1
<1>12. \A k \in Client : job'[k].at = "queued" <=> \E t \in Server : \E i \in DOMAIN queue'[t] : queue'[t][i] = k
  <2> SUFFICES ASSUME NEW k \in Client
               PROVE  job'[k].at = "queued" <=> \E t \in Server : \E i \in DOMAIN queue'[t] : queue'[t][i] = k
    OBVIOUS
  <2>1. CASE k = c
    BY <1>4, <1>6, <1>11, <2>1
  <2>2. CASE k # c
    <3>1. job[k].at = "queued" <=> \E t \in Server : \E i \in DOMAIN queue[t] : queue[t][i] = k
      BY <1>1 DEF TrafficTyped
    <3> QED BY <1>6, <1>11, <2>2, <3>1
  <2> QED BY <2>1, <2>2
<1>13. TrafficTyped'
  <2>1. worker' \in [Server -> {"none", "free"} \cup Client]
    BY <1>1, <1>2, <1>5 DEF TrafficTyped
  <2> QED BY <1>1, <1>6, <1>7, <1>9, <1>12, <2>1 DEF TrafficTyped
<1>14. OrphansAreAborted' /\ NoJobBefore'
  BY <1>1, <1>2, <1>3, <1>4, <1>6 DEF OrphansAreAborted, NoJobBefore, TrafficInv
<1>15. QueueOwns'
  <2> SUFFICES ASSUME NEW t \in Server
               PROVE  /\ \A i \in DOMAIN queue'[t] : job'[queue'[t][i]].server = t
                      /\ \A i, k \in DOMAIN queue'[t] : queue'[t][i] = queue'[t][k] => i = k
    BY DEF QueueOwns
  <2>1. \A i \in DOMAIN queue'[t] : job'[queue'[t][i]].server = t
    BY <1>6, <1>10, <1>11
  <2>2. \A i, k \in DOMAIN queue[t] : queue[t][i] = queue[t][k] => i = k
    BY DEF TrafficInv, QueueOwns
  <2>3. CASE t = s
    BY <1>8, <2>1, <2>2, <2>3
  <2>4. CASE t # s
    BY <1>7, <2>1, <2>2, <2>4
  <2> QED BY <2>3, <2>4
<1>16. WorkerRuns'
  <2>1. \A t \in Server : worker[t] \in Client =>
          worker[t] # c /\ job[worker[t]].at = "running" /\ job[worker[t]].server = t
    BY <1>3 DEF TrafficInv, WorkerRuns
  <2>2. worker \in [Server -> {"none", "free"} \cup Client]
    BY <1>1 DEF TrafficTyped
  <2>3. CASE worker' = worker
    BY <1>6, <2>1, <2>3 DEF WorkerRuns
  <2>4. CASE worker' # worker
    <3>1. worker' = [worker EXCEPT ![s] = c] /\ r.at = "running"
      BY <1>4, <1>5, <2>4
    <3>2. r.server = s
      BY <1>2, <1>4, <1>10, <3>1
    <3> QED BY <1>6, <2>1, <2>2, <3>1, <3>2 DEF WorkerRuns
  <2> QED BY <2>3, <2>4
<1>17. UploadsBounded'
  BY <1>1 DEF TrafficInv, UploadsBounded, Uploading, On
<1> QED BY <1>13, <1>14, <1>15, <1>16, <1>17 DEF TrafficInv

LEMMA FinishPreserves ==
  ASSUME TrafficInv, NEW s \in Server, Finish(s)
  PROVE  TrafficInv'
<1> DEFINE c == worker[s]
           r == IF request[c].at = "waiting" /\ ~job[c].aborted THEN [job[c] EXCEPT !.at = "replied"] ELSE NoJob
<1>1. TrafficTyped /\ UNCHANGED <<queue, request>> /\ c \in Client
  BY DEF TrafficInv, Finish
<1>2. job[c].at = "running" /\ job[c] \in Jobs
  BY <1>1 DEF TrafficInv, WorkerRuns, TrafficTyped
<1>3. r \in Jobs /\ r.at \in {"none", "replied"}
  BY <1>2 DEF Jobs, NoJob
<1>4. r.at = "replied" => request[c].at = "waiting"
  BY DEF NoJob
<1>5. job' = [job EXCEPT ![c] = r] /\ worker' = [worker EXCEPT ![s] = "free"]
  BY DEF Finish
<1> HIDE DEF r
<1>6. /\ job' \in [Client -> Jobs] /\ job'[c] = r
      /\ \A k \in Client : k # c => job'[k] = job[k]
  BY <1>1, <1>3, <1>5 DEF TrafficTyped
<1>7. TrafficTyped'
  BY <1>1, <1>2, <1>3, <1>5, <1>6 DEF TrafficTyped
<1>8. OrphansAreAborted' /\ NoJobBefore'
  BY <1>1, <1>3, <1>4, <1>6 DEF OrphansAreAborted, NoJobBefore, TrafficInv
<1>9. QueueOwns'
  <2>1. \A t \in Server : \A i \in DOMAIN queue[t] : queue[t][i] \in Client /\ queue[t][i] # c
    BY <1>1, <1>2 DEF TrafficTyped
  <2> QED BY <1>1, <1>6, <2>1 DEF QueueOwns, TrafficInv
<1>10. WorkerRuns'
  <2>1. \A t \in Server : t # s /\ worker[t] \in Client => worker[t] # c
    BY <1>1 DEF WorkerRuns, TrafficInv
  <2>2. /\ \A t \in Server : t # s => worker'[t] = worker[t]
        /\ worker'[s] = "free"
    BY <1>1, <1>5 DEF TrafficTyped
  <2> QED BY <1>6, <2>1, <2>2, ApiAssumption DEF WorkerRuns, TrafficInv
<1>11. UploadsBounded'
  BY <1>1 DEF TrafficInv, UploadsBounded, Uploading, On
<1> QED BY <1>7, <1>8, <1>9, <1>10, <1>11 DEF TrafficInv

LEMMA TrafficNext == SettingsInv /\ TrafficInv /\ [Next]_vars => TrafficInv'
<1> SUFFICES ASSUME SettingsInv, TrafficInv, [Next]_vars PROVE TrafficInv'
  OBVIOUS
<1>1. CASE User \/ Secrets \/ Arrivals
  <2>1. WorkerMay
    BY <1>1, EnablePreserves, DisablePreserves, ReconfigurePreserves, RenewPreserves,
       RenewStorePreserves, FetchTokenPreserves, RenewDonePreserves, FinishStartPreserves
       DEF User, Secrets, Arrivals
  <2>2. UNCHANGED <<queue, request, job>>
    BY <1>1 DEF User, Secrets, Arrivals, Enable, Disable, Reconfigure, Renew, RenewStore, FetchToken,
       RenewDone, FinishStart, traffic
  <2> QED BY <2>1, <2>2, TrafficRests
<1>2. ASSUME NEW c \in Client,
             Connect(c) \/ Admit(c) \/ Enqueue(c) \/ Progress(c) \/ Disconnect(c)
      PROVE  TrafficInv'
  <2>1. CASE Answer(c) \/ Refuse(c) \/ Translated(c) \/ TimeOut(c) \/ DropConnection(c) \/ Disconnect(c)
    BY <2>1, LeavePreserves DEF Answer, Refuse, Translated, TimeOut, DropConnection, Disconnect
  <2>2. CASE Connect(c) \/ Admit(c) \/ Enqueue(c) \/ Reply(c)
    BY <2>2, ConnectPreserves, AdmitPreserves, EnqueuePreserves, ReplyPreserves
  <2> QED BY <1>2, <2>1, <2>2 DEF Progress
<1>3. ASSUME NEW s \in Server, Accept(s) \/ Work(s) PROVE TrafficInv'
  <2>1. CASE Receive(s) \/ Finish(s)
    BY <2>1, ReceivePreserves, FinishPreserves
  <2>2. CASE ShutDown(s) \/ Close(s) \/ Join(s)
    <3>1. WorkerMay
      BY <2>2, ServerEndsPreserve
    <3>2. UNCHANGED <<queue, request, job>>
      BY <2>2 DEF ShutDown, Close, Join, traffic
    <3> QED BY <3>1, <3>2, TrafficRests
  <2> QED BY <1>3, <2>1, <2>2 DEF Accept, Work
<1>4. CASE UNCHANGED vars
  BY <1>4, TrafficRests DEF vars, traffic, WorkerMay
<1> QED BY <1>1, <1>2, <1>3, <1>4 DEF Next

(* If nobody had left, the queue's callers and the one that uploads would  *)
(* hold more permits than there are.                                       *)
LEMMA FullQueueHasOrphans == TrafficInv => FullOnlyOfAbandoned
<1> SUFFICES ASSUME TrafficInv, NEW c \in Client,
                    request[c].at = "upload", Len(queue[request[c].server]) = QueueDepth,
                    \A i \in DOMAIN queue[request[c].server] : ~Aborted(queue[request[c].server][i])
             PROVE  FALSE
  BY DEF FullOnlyOfAbandoned
<1> DEFINE s == request[c].server
           q == queue[s]
           U == Uploading(s)
<1>1. TrafficTyped
  BY DEF TrafficInv
<1>2. s \in Server
  BY <1>1 DEF TrafficInv, NoJobBefore, TrafficTyped, Requests
<1>3. IsFiniteSet(U) /\ Cardinality(U) <= MaxUploads /\ Cardinality(U) \in Nat
  <2>1. IsFiniteSet(On(s)) /\ Cardinality(U) <= MaxUploads
    BY <1>2 DEF TrafficInv, UploadsBounded
  <2>2. IsFiniteSet(U)
    BY <2>1, FS_Subset DEF Uploading
  <2> QED BY <2>1, <2>2, FS_CardinalityType
<1>4. c \in U
  BY DEF Uploading, On
<1>5. q \in Seq(Client) /\ DOMAIN q = 1 .. QueueDepth
  BY <1>1, <1>2 DEF TrafficTyped
<1>6. \A i \in 1 .. QueueDepth : q[i] \in U \ {c}
  <2> SUFFICES ASSUME NEW i \in 1 .. QueueDepth PROVE q[i] \in U \ {c}
    OBVIOUS
  <2>1. q[i] \in Client /\ job[q[i]].at = "queued" /\ job[q[i]].server = s
    BY <1>1, <1>2, <1>5 DEF TrafficTyped, TrafficInv, QueueOwns
  <2>2. ~job[q[i]].aborted
    BY <1>5 DEF Aborted
  <2>3. request[q[i]].at = "waiting" /\ request[q[i]].server = s
    BY <2>1, <2>2 DEF TrafficInv, OrphansAreAborted
  <2> QED BY <2>1, <2>3 DEF Uploading, On
<1>7. [i \in 1 .. QueueDepth |-> q[i]] \in Injection(1 .. QueueDepth, U \ {c})
  <2>1. \A i, k \in 1 .. QueueDepth : q[i] = q[k] => i = k
    BY <1>2, <1>5 DEF TrafficInv, QueueOwns
  <2> HIDE DEF q, U
  <2> QED BY <1>6, <2>1 DEF Injection, IsInjective
<1> HIDE DEF q, U
<1>8. IsFiniteSet(U \ {c}) /\ Cardinality(U \ {c}) = Cardinality(U) - 1
  BY <1>3, <1>4, FS_RemoveElement
<1>9. Cardinality(1 .. QueueDepth) <= Cardinality(U \ {c})
  BY <1>7, <1>8, FS_Injection
<1>10. Cardinality(1 .. QueueDepth) = QueueDepth
  <2>1. QueueDepth \in Nat /\ 1 \in Int /\ QueueDepth \in Int
    BY ApiAssumption
  <2>2. Cardinality(1 .. QueueDepth) = IF 1 > QueueDepth THEN 0 ELSE QueueDepth - 1 + 1
    BY <2>1, FS_Interval
  <2> QED BY <2>1, <2>2
<1> QED BY <1>3, <1>8, <1>9, <1>10, ApiAssumption

(***************************************************************************)
(* The theorems.                                                           *)
(***************************************************************************)
LEMMA InitEstablishes == Init => SettingsInv /\ TrafficInv
<1> SUFFICES ASSUME Init PROVE SettingsInv /\ TrafficInv
  OBVIOUS
<1> USE ApiAssumption
<1>1. Unused \in Servers /\ Away \in Requests /\ NoJob \in Jobs
  BY DEF Unused, Servers, Away, Requests, NoJob, Jobs, Token
<1>2. SettingsTyped
  <2>1. config \in [enabled : BOOLEAN, port : Port, auth : BOOLEAN]
    BY DEF Init
  <2>2. keyring \in Token /\ minted \in Token /\ generation \in Nat /\ acts \in 0 .. MaxActs
    BY DEF Init, Token
  <2> QED BY <1>1, <2>1, <2>2 DEF Init, SettingsTyped
<1>3. ServerMatchesConfig /\ StartsInOrder /\ RenewalsReal
  BY DEF Init, ServerMatchesConfig, StartsInOrder, RenewalsReal
<1>4. TrafficTyped
  <2>1. \A c \in Client : job[c].at # "queued"
    BY DEF Init, NoJob
  <2>2. \A s \in Server : queue[s] = <<>> /\ DOMAIN queue[s] = {} /\ Len(queue[s]) = 0
    BY DEF Init
  <2> QED BY <1>1, <2>1, <2>2 DEF Init, TrafficTyped
<1>5. OrphansAreAborted /\ NoJobBefore /\ WorkerRuns
  BY DEF Init, OrphansAreAborted, NoJobBefore, WorkerRuns, NoJob, Away
<1>6. QueueOwns
  BY DEF Init, QueueOwns
<1>7. UploadsBounded
  <2>1. \A s \in Server : On(s) = {} /\ Uploading(s) = {}
    BY DEF Init, On, Uploading, Away
  <2> QED BY <2>1, FS_EmptySet DEF UploadsBounded
<1> QED BY <1>2, <1>3, <1>4, <1>5, <1>6, <1>7 DEF SettingsInv, TrafficInv

LEMMA ApiInvAlways == Spec => [](SettingsInv /\ TrafficInv)
  BY InitEstablishes, SettingsNext, TrafficNext, PTL DEF Spec

(* For any callers, servers and limits: the server that runs is the one    *)
(* the settings show, no abandoned job is decoded to the end unseen, and   *)
(* live callers alone never fill the queue.                                *)
THEOREM ApiSafetyAlways == Spec => []ApiSafety
<1>1. SettingsInv /\ TrafficInv => ApiSafety
  BY TypesAgree, FullQueueHasOrphans DEF ApiSafety, SettingsInv, TrafficInv
<1> QED BY <1>1, ApiInvAlways, PTL

(* A restart leaves no current start but its own, which has yet to read    *)
(* the keyring, and no server that asks for a token.                       *)
LEMMA RestartReads ==
  ASSUME SettingsInv, NEW base, NEW c, NEW g \in Nat, g > generation,
         Start(base, c, g), generation' = g, config' = c \/ config'.auth = c.auth
  PROVE  TokenInv'
<1>1. \A x \in starts : x.generation # g
  <2>1. \A x \in starts : x.generation \in Nat /\ x.generation <= generation /\ generation \in Nat
    BY DEF SettingsInv, SettingsTyped, StartsInOrder, Starts
  <2> QED BY <2>1
<1>2. CASE c.auth
  <2> DEFINE n == [generation |-> g, port |-> c.port, token |-> 0, at |-> "load"]
  <2>1. starts' = starts \cup {n} /\ handle' = NoServer /\ n.at = "load"
    BY <1>2 DEF Start
  <2> HIDE DEF n
  <2>2. \A x \in starts' : Current(x)' => x = n
    BY <1>1, <2>1 DEF Current
  <2>3. \A x \in starts' : x.at = "here" => ~Current(x)'
    BY <2>1, <2>2
  <2> QED BY <2>1, <2>2, <2>3 DEF TokenInv, OneCurrent, TokenHeld, Serves
<1>3. CASE ~c.auth
  <2>1. \A x \in starts' : ~Current(x)'
    BY <1>1, <1>3 DEF Start, Current
  <2>2. ~config'.auth
    BY <1>3
  <2> QED BY <2>1, <2>2 DEF TokenInv, OneCurrent, TokenHeld, Serves
<1> QED BY <1>2, <1>3

(* A start that leaves, and one that goes on where it was, disturb nobody. *)
LEMMA FetchKeepsToken == SettingsInv /\ TokenInv /\ FetchToken => TokenInv'
<1> SUFFICES ASSUME SettingsInv, TokenInv, FetchToken PROVE TokenInv'
  OBVIOUS
<1>1. /\ starts \subseteq Starts /\ usurped \in BOOLEAN
      /\ UNCHANGED <<renewals, handle, config, server, generation>>
  BY DEF SettingsInv, SettingsTyped, FetchToken
<1>2. (Reported' <=> Reported) /\ (Serves' <=> Serves) /\ \A x : Current(x)' <=> Current(x)
  BY <1>1 DEF Reported, Serves, Current
<1>3. OneCurrent
  BY DEF TokenInv
(* The start x becomes y, of the same generation.                          *)
<1>4. ASSUME NEW x \in starts, NEW y, y.generation = x.generation,
             starts' = (starts \ {x}) \cup {y}
      PROVE  /\ OneCurrent' /\ (Current(y) <=> Current(x))
             /\ \A z \in starts' : z = y \/ (z \in starts /\ z # x)
             /\ Current(x) => handle = NoServer /\ \A z \in starts' : Current(z) => z = y
  <2>1. Current(y) <=> Current(x)
    BY <1>4 DEF Current
  <2>2. \A z \in starts' : z = y \/ (z \in starts /\ z # x)
    BY <1>4
  <2>3. Current(x) => handle = NoServer /\ \A z \in starts' : Current(z) => z = y
    BY <1>3, <2>2 DEF OneCurrent
  <2>4. OneCurrent'
    <3> SUFFICES ASSUME NEW z \in starts', Current(z)
                 PROVE  handle = NoServer /\ \A w \in starts' : Current(w) => w = z
      BY <1>1, <1>2 DEF OneCurrent
    <3>1. CASE z = y
      BY <2>1, <2>3, <3>1
    <3>2. CASE z \in starts /\ z # x
      <4>1. handle = NoServer /\ \A w \in starts : Current(w) => w = z
        BY <1>3, <3>2 DEF OneCurrent
      <4>2. ~Current(x) /\ ~Current(y)
        BY <2>1, <3>2, <4>1
      <4> QED BY <2>2, <4>1, <4>2
    <3> QED BY <2>2, <3>1, <3>2
  <2> QED BY <2>1, <2>2, <2>3, <2>4
<1>5. ASSUME NEW x \in starts, NEW t \in Loaded \ {0}, UNCHANGED keyring,
             starts' = (starts \ {x}) \cup {[x EXCEPT !.at = "here", !.token = t]},
             usurped' = (usurped /\ ~Current(x))
      PROVE  TokenInv'
  <2> DEFINE y == [x EXCEPT !.at = "here", !.token = t]
  <2>1. y.generation = x.generation /\ y.token = keyring
    BY <1>1, <1>5 DEF Loaded, Starts
  <2>2. starts' = (starts \ {x}) \cup {y}
    BY <1>5
  <2> HIDE DEF y
  <2>3. /\ OneCurrent' /\ (Current(y) <=> Current(x))
        /\ \A z \in starts' : z = y \/ (z \in starts /\ z # x)
        /\ Current(x) => handle = NoServer /\ \A z \in starts' : Current(z) => z = y
    BY <1>4, <2>1, <2>2
  <2>4. TokenHeld'
    <3>1. CASE Current(x)
      BY <1>1, <1>2, <1>5, <2>1, <2>3, <3>1 DEF TokenHeld, Serves
    <3>2. CASE ~Current(x)
      BY <1>1, <1>2, <1>5, <2>3, <3>2 DEF TokenHeld, TokenInv
    <3> QED BY <3>1, <3>2
  <2> QED BY <2>3, <2>4 DEF TokenInv
<1>6. ASSUME NEW x \in starts, UNCHANGED <<keyring, usurped>>,
             starts' = (starts \ {x}) \cup {[x EXCEPT !.at = "store", !.token = minted + 1]}
      PROVE  TokenInv'
  <2> DEFINE y == [x EXCEPT !.at = "store", !.token = minted + 1]
  <2>1. y.generation = x.generation /\ y.at = "store"
    BY <1>1, <1>6 DEF Starts
  <2>2. starts' = (starts \ {x}) \cup {y}
    BY <1>6
  <2> HIDE DEF y
  <2>3. OneCurrent' /\ \A z \in starts' : z = y \/ (z \in starts /\ z # x)
    BY <1>4, <2>1, <2>2
  <2>4. TokenHeld'
    BY <1>1, <1>2, <1>6, <2>1, <2>3 DEF TokenHeld, TokenInv
  <2> QED BY <2>3, <2>4 DEF TokenInv
<1>7. ASSUME NEW x \in starts, keyring' = x.token, usurped' = ~Current(x),
             starts' = (starts \ {x}) \cup {[x EXCEPT !.at = "here"]}
      PROVE  TokenInv'
  <2> DEFINE y == [x EXCEPT !.at = "here"]
  <2>1. y.generation = x.generation /\ y.token = keyring'
    BY <1>1, <1>7 DEF Starts
  <2>2. starts' = (starts \ {x}) \cup {y}
    BY <1>7
  <2> HIDE DEF y
  <2>3. /\ OneCurrent'
        /\ Current(x) => handle = NoServer /\ \A z \in starts' : Current(z) => z = y
    BY <1>4, <2>1, <2>2
  <2>4. TokenHeld'
    BY <1>1, <1>2, <1>7, <2>1, <2>3 DEF TokenHeld, Serves
  <2> QED BY <2>3, <2>4 DEF TokenInv
<1>8. ASSUME NEW x \in starts, UNCHANGED <<keyring, usurped>>, starts' = starts \ {x}
      PROVE  TokenInv'
  BY <1>1, <1>2, <1>8 DEF TokenInv, TokenHeld, OneCurrent
<1> QED BY <1>5, <1>6, <1>7, <1>8 DEF FetchToken

LEMMA TokenNext == SettingsInv /\ TokenInv /\ [Next]_vars => TokenInv'
<1> SUFFICES ASSUME SettingsInv, TokenInv, [Next]_vars PROVE TokenInv'
  OBVIOUS
<1>1. SettingsTyped /\ StartsInOrder /\ generation \in Nat
  BY DEF SettingsInv, SettingsTyped
<1>2. ASSUME NEW c, NEW g \in Nat, g > generation, NEW base, Start(base, c, g), generation' = g,
             config' = c \/ config'.auth = c.auth
      PROVE  TokenInv'
  BY <1>2, RestartReads
<1>3. CASE Enable
  BY <1>1, <1>2, <1>3 DEF Enable
<1>4. CASE Disable
  <2>1. \A x \in starts : x.generation # generation'
    BY <1>1, <1>4 DEF StartsInOrder, SettingsTyped, Starts, Disable
  <2> QED BY <1>4, <2>1 DEF TokenInv, OneCurrent, TokenHeld, Serves, Current, Disable
<1>5. CASE Reconfigure
  <2>1. PICK c \in [enabled : {config.enabled}, port : Port, auth : BOOLEAN] :
          /\ config' = c
          /\ IF c.enabled THEN Restart(c) ELSE UNCHANGED <<generation, starts, handle, server, worker>>
    BY <1>5 DEF Reconfigure
  <2>2. UNCHANGED <<keyring, usurped, renewals>>
    BY <1>5 DEF Reconfigure
  <2>3. CASE c.enabled
    BY <1>1, <1>2, <2>1, <2>3 DEF Restart
  <2>4. CASE ~c.enabled
    <3>1. handle = NoServer
      BY <2>1, <2>4 DEF SettingsInv, ServerMatchesConfig
    <3> QED BY <2>1, <2>2, <2>4, <3>1 DEF TokenInv, OneCurrent, TokenHeld, Serves, Current, Reported
  <2> QED BY <2>3, <2>4
<1>6. CASE Renew
  BY <1>6 DEF TokenInv, OneCurrent, TokenHeld, Serves, Current, Reported, Renew
<1>7. CASE RenewStore
  <2>1. PICK r \in renewals :
          /\ ~r.stored
          /\ \/ /\ keyring' = r.token
                /\ renewals' = (renewals \ {r}) \cup {[r EXCEPT !.stored = TRUE]}
             \/ UNCHANGED keyring /\ renewals' = renewals \ {r}
    BY <1>7 DEF RenewStore
  <2>2. OneCurrent'
    BY <1>7 DEF TokenInv, OneCurrent, Current, RenewStore
  <2>3. CASE keyring' = r.token /\ renewals' = (renewals \ {r}) \cup {[r EXCEPT !.stored = TRUE]}
    <3>1. [r EXCEPT !.stored = TRUE].stored
      BY <1>1 DEF SettingsInv, SettingsTyped
    <3> QED BY <2>2, <2>3, <3>1 DEF TokenInv, TokenHeld, Reported
  <2>4. CASE UNCHANGED keyring /\ renewals' = renewals \ {r}
    BY <1>7, <2>1, <2>2, <2>4 DEF TokenInv, TokenHeld, Serves, Current, Reported, RenewStore
  <2> QED BY <2>1, <2>3, <2>4
<1>8. CASE RenewDone
  <2>1. CASE config.enabled
    BY <1>1, <1>2, <1>8, <2>1 DEF RenewDone, Restart
  <2>2. CASE ~config.enabled
    <3>1. handle = NoServer /\ \A x \in starts : ~Current(x)
      BY <1>1, <2>2 DEF SettingsInv, ServerMatchesConfig, StartsInOrder, Current
    <3> QED BY <1>8, <2>2, <3>1 DEF TokenInv, OneCurrent, TokenHeld, Serves, Current, RenewDone
  <2> QED BY <2>1, <2>2
<1>9. CASE FetchToken
  BY <1>9, FetchKeepsToken
<1>10. CASE FinishStart
  <2>1. PICK x \in starts :
          /\ x.at = "here" /\ starts' = starts \ {x}
          /\ IF StillWanted(x) THEN Bind(server, x.port, x.token)
             ELSE UNCHANGED <<handle, server, worker>>
    BY <1>10 DEF FinishStart
  <2>2. UNCHANGED <<config, keyring, usurped, renewals, generation>>
    BY <1>10 DEF FinishStart
  <2>3. CASE StillWanted(x)
    <3>1. x.port \in Port /\ x.token \in Token /\ server \in [Server -> Servers]
      BY <1>1, <2>1 DEF SettingsTyped, Starts
    <3>2. BoundTo(x.port, x.token)
      BY <2>1, <2>3, <3>1, Binds
    <3>3. Current(x)
      BY <2>3 DEF StillWanted, Current
    <3>4. \A y \in starts' : ~Current(y)'
      BY <2>1, <2>2, <3>3 DEF TokenInv, OneCurrent, Current
    <3>5. Reported /\ ~usurped => x.token = keyring
      BY <2>1, <3>3 DEF TokenInv, TokenHeld
    <3>6. Serves' => server'[handle'].token = x.token
      BY <3>2 DEF BoundTo, Serves
    <3> QED BY <2>2, <3>4, <3>5, <3>6 DEF TokenInv, OneCurrent, TokenHeld, Reported
  <2>4. CASE ~StillWanted(x)
    BY <2>1, <2>2, <2>4 DEF TokenInv, OneCurrent, TokenHeld, Serves, Current, Reported
  <2> QED BY <2>3, <2>4
<1>11. ASSUME UNCHANGED <<keyring, starts, usurped, renewals, handle, config, generation>>,
              handle # NoServer /\ server'[handle].adopted => server'[handle] = server[handle]
       PROVE  TokenInv'
  BY <1>11 DEF TokenInv, OneCurrent, TokenHeld, Serves, Current, Reported
<1>12. ASSUME NEW c \in Client, Connect(c) \/ Admit(c) \/ Enqueue(c) \/ Progress(c) \/ Disconnect(c)
       PROVE  TokenInv'
  BY <1>11, <1>12 DEF Connect, Admit, Enqueue, Progress, Disconnect, Answer, Refuse, Reply,
     Translated, TimeOut, DropConnection, settings
<1>13. ASSUME NEW s \in Server, Accept(s) \/ Work(s)
       PROVE  TokenInv'
  <2>1. CASE Receive(s) \/ Finish(s)
    BY <1>11, <2>1 DEF Receive, Finish, settings
  <2>2. CASE ShutDown(s) \/ Close(s) \/ Join(s)
    <3>1. UNCHANGED settings
      BY <2>2 DEF ShutDown, Close, Join
    <3>2. handle = s => ~server[s].adopted
      BY <2>2, ApiAssumption DEF SettingsInv, ServerMatchesConfig, ShutDown, Close, Join
    <3>3. server'[s].adopted => server[s].adopted
      BY <1>1, <2>2 DEF SettingsTyped, Servers, Unused, ShutDown, Close, Join
    <3>4. handle # s /\ handle # NoServer => server'[handle] = server[handle]
      <4>1. PICK v : server' = [server EXCEPT ![s] = v]
        BY <2>2 DEF ShutDown, Close, Join
      <4>2. server \in [Server -> Servers] /\ handle \in Server \cup {NoServer}
        BY <1>1 DEF SettingsTyped
      <4> QED BY <4>1, <4>2
    <3> QED BY <1>11, <3>1, <3>2, <3>3, <3>4 DEF settings
  <2> QED BY <1>13, <2>1, <2>2 DEF Accept, Work
<1>14. CASE UNCHANGED vars
  BY <1>11, <1>14 DEF vars, settings
<1> QED BY <1>3, <1>4, <1>5, <1>6, <1>7, <1>8, <1>9, <1>10, <1>12, <1>13, <1>14
        DEF Next, User, Secrets, Arrivals

(* For any callers and any changes of the settings, and however often the  *)
(* keyring cannot be read: once no regenerated token is on its way, the    *)
(* server asks for the token in the keyring, unless an overtaken start has *)
(* stored its own after the current one had read it.                       *)
THEOREM ServesStoredTokenAlways == Spec => []ServesStoredToken
<1>1. Init => TokenInv
  BY DEF Init, TokenInv, OneCurrent, TokenHeld, Serves
<1>2. TokenInv => ServesStoredToken
  BY DEF TokenInv, TokenHeld, Serves, Reported, ServesStoredToken
<1>3. Spec => [](SettingsInv /\ TrafficInv)
  BY ApiInvAlways
<1> QED BY <1>1, <1>2, <1>3, TokenNext, PTL DEF Spec

------------------------------------------------------------------------------
(* The voice-activity pass.                                                *)

(* What the span of a clip is of.                                          *)
Verdicts == [by : {"none", "all", "context"}, of : Nat, hurt : BOOLEAN]

(* There is no file, or it is the latest; a context is of a file no older  *)
(* than the identity it is kept under.                                     *)
FilesGrow == file \in {0, latest} /\ cache.as <= cache.of

(* A job reads the identity of a file after it gets the lock, and loads    *)
(* the context under it.                                                   *)
IdentityFirst ==
  \A j \in Job :
    /\ at[j] \in {"identified", "loaded"} => since[j] <= seen[j]
    /\ at[j] = "loaded" => cache.as = seen[j]

(* A context that a job died in is in a poisoned lock, which nobody holds. *)
HurtIsPoisoned ==
  /\ cache.hurt => poisoned
  /\ poisoned => holder = Free

(* The invariant behind VoiceSafety.                                       *)
VoiceInv ==
  /\ VoiceTypeOK /\ verdict \in [Job -> Verdicts]
  /\ FilesGrow /\ IdentityFirst /\ HurtIsPoisoned /\ ContextUnhurt






(* The numbers of the files.                                               *)
LEMMA VoiceFacts ==
  ASSUME VoiceInv
  PROVE  /\ latest \in Nat /\ latest <= MaxFiles /\ file \in Nat /\ file <= latest
         /\ cache.as \in Nat /\ cache.of \in Nat /\ cache.as <= latest /\ cache.of <= latest
         /\ cache.hurt \in BOOLEAN
         /\ cache = [as |-> cache.as, of |-> cache.of, hurt |-> cache.hurt]
         /\ \A j \in Job : seen[j] \in Nat /\ seen[j] <= latest /\ since[j] \in Nat /\ since[j] <= latest
<1>1. /\ latest \in 0..MaxFiles /\ file \in 0..latest
      /\ cache \in [as : 0..latest, of : 0..latest, hurt : BOOLEAN]
      /\ \A j \in Job : seen[j] \in 0..latest /\ since[j] \in 0..latest
  BY DEF VoiceInv, VoiceTypeOK
<1> QED BY <1>1, VoiceAssumption

(* The context, when it is dropped, and as it is kept.                     *)
CacheTyped(c) == c \in [as : 0..latest, of : 0..latest, hurt : BOOLEAN]

LEMMA ContextFacts ==
  ASSUME VoiceInv
  PROVE  /\ CacheTyped(cache) /\ CacheTyped(NoContext)
         /\ NoContext.as = 0 /\ NoContext.of = 0 /\ NoContext.hurt = FALSE
         /\ NoContext.as <= NoContext.of
         /\ NoVerdict \in Verdicts /\ NoVerdict.by = "none" /\ All \in Verdicts /\ All.by = "all"
         /\ Holding = {"locked", "identified", "loaded"}
         /\ \A j \in Job : j # Free
<1>1. 0 \in 0..latest
  BY VoiceFacts
<1> QED BY <1>1, VoiceFacts, VoiceAssumption
        DEF VoiceInv, VoiceTypeOK, CacheTyped, NoContext, NoVerdict, All, Verdicts, Holding, Free

LEMMA VoiceInitHolds == VoiceInit => VoiceInv
<1> SUFFICES ASSUME VoiceInit PROVE VoiceInv
  OBVIOUS
<1>1. latest = 1 /\ 1 \in 0..MaxFiles /\ file \in 0..latest /\ 0 \in 0..latest
  BY VoiceAssumption DEF VoiceInit
<1>2. VoiceTypeOK
  BY <1>1, VoiceAssumption DEF VoiceInit, VoiceTypeOK, NoContext, Free, Holding
<1>3. verdict \in [Job -> Verdicts] /\ ContextUnhurt
  BY DEF VoiceInit, NoVerdict, Verdicts, ContextUnhurt
<1>4. FilesGrow /\ IdentityFirst /\ HurtIsPoisoned
  BY DEF VoiceInit, NoContext, FilesGrow, IdentityFirst, HurtIsPoisoned
<1> QED BY <1>2, <1>3, <1>4 DEF VoiceInv

LEMMA UpdatePreserves == VoiceInv /\ Update => VoiceInv'
<1> SUFFICES ASSUME VoiceInv, Update PROVE VoiceInv'
  OBVIOUS
<1>1. UNCHANGED <<cache, holder, at, seen, since, verdict>> /\ UNCHANGED <<poisoned, aborted>>
  BY DEF Update
<1>2. /\ latest' \in 0..MaxFiles /\ file' \in 0..latest' /\ file' \in {0, latest'}
      /\ \A n \in 0..latest : n \in 0..latest'
  BY VoiceFacts, VoiceAssumption DEF Update
<1>3. VoiceTypeOK'
  <2>1. poisoned' \in BOOLEAN /\ aborted' \in [Job -> BOOLEAN]
    BY <1>1 DEF VoiceInv, VoiceTypeOK
  <2>2. cache' \in [as : 0..latest', of : 0..latest', hurt : BOOLEAN]
    BY <1>1, <1>2 DEF VoiceInv, VoiceTypeOK
  <2>3. seen' \in [Job -> 0..latest'] /\ since' \in [Job -> 0..latest']
    BY <1>1, <1>2 DEF VoiceInv, VoiceTypeOK
  <2>4. /\ holder' \in Job \cup {Free}
        /\ at' \in [Job -> {"idle", "waiting", "decoding"} \cup Holding]
        /\ \A j \in Job : at'[j] \in Holding <=> holder' = j
    BY <1>1 DEF VoiceInv, VoiceTypeOK
  <2> QED BY <1>2, <2>1, <2>2, <2>3, <2>4 DEF VoiceTypeOK
<1>4. /\ verdict' \in [Job -> Verdicts] /\ FilesGrow' /\ IdentityFirst' /\ HurtIsPoisoned'
      /\ ContextUnhurt'
  BY <1>1, <1>2 DEF VoiceInv, FilesGrow, IdentityFirst, HurtIsPoisoned, ContextUnhurt
<1> QED BY <1>3, <1>4 DEF VoiceInv

(* Job j moves.                                                            *)
Moves(j, w, n, m, v) ==
  /\ at' = [at EXCEPT ![j] = w] /\ seen' = [seen EXCEPT ![j] = n]
  /\ since' = [since EXCEPT ![j] = m] /\ verdict' = [verdict EXCEPT ![j] = v]

(* What a step of one job, which keeps the files, has to show.             *)
LEMMA JobMoves ==
  ASSUME VoiceInv, NEW j \in Job, NEW w, NEW n, NEW m, NEW v, Moves(j, w, n, m, v),
         UNCHANGED <<file, latest>>,
         CacheTyped(cache'), cache'.as <= cache'.of,
         holder' \in Job \cup {Free}, poisoned' \in BOOLEAN, aborted' \in [Job -> BOOLEAN],
         w \in {"idle", "waiting", "decoding"} \cup Holding,
         \A k \in Job : at'[k] \in Holding <=> holder' = k,
         n \in 0..latest, m \in 0..latest, v \in Verdicts,
         v.by = "context" => ~v.hurt,
         w \in {"identified", "loaded"} => m <= n,
         w = "loaded" => cache'.as = n,
         cache' # cache => \A k \in Job \ {j} : at[k] \notin Holding,
         HurtIsPoisoned'
  PROVE  VoiceInv'
<1>1. VoiceTypeOK'
  BY DEF VoiceInv, VoiceTypeOK, CacheTyped, Moves
<1>2. verdict' \in [Job -> Verdicts] /\ ContextUnhurt'
  BY DEF VoiceInv, ContextUnhurt, Moves
<1>3. FilesGrow'
  BY DEF VoiceInv, FilesGrow
<1>4. IdentityFirst'
  <2> SUFFICES ASSUME NEW k \in Job
               PROVE  /\ at'[k] \in {"identified", "loaded"} => since'[k] <= seen'[k]
                      /\ at'[k] = "loaded" => cache'.as = seen'[k]
    BY DEF IdentityFirst
  <2>1. at'[j] = w /\ seen'[j] = n /\ since'[j] = m
    BY DEF VoiceInv, VoiceTypeOK, Moves
  <2>2. CASE k = j
    BY <2>1, <2>2
  <2>3. CASE k # j
    <3>1. at'[k] = at[k] /\ seen'[k] = seen[k] /\ since'[k] = since[k]
      BY <2>3 DEF VoiceInv, VoiceTypeOK, Moves
    <3>2. at[k] = "loaded" => cache' = cache
      BY <2>3 DEF Holding
    <3> QED BY <3>1, <3>2 DEF VoiceInv, IdentityFirst
  <2> QED BY <2>2, <2>3
<1> QED BY <1>1, <1>2, <1>3, <1>4 DEF VoiceInv

(* Functions that stay as they are, as updates of one job.                 *)
LEMMA Same ==
  ASSUME VoiceInv, NEW j \in Job
  PROVE  /\ seen = [seen EXCEPT ![j] = seen[j]] /\ seen[j] \in 0..latest
         /\ since = [since EXCEPT ![j] = since[j]] /\ since[j] \in 0..latest
         /\ verdict = [verdict EXCEPT ![j] = verdict[j]] /\ verdict[j] \in Verdicts
         /\ verdict[j].by = "context" => ~verdict[j].hurt
         /\ 0 \in 0..latest /\ file \in 0..latest
         /\ holder \in Job \cup {Free}
         /\ at \in [Job -> {"idle", "waiting", "decoding"} \cup Holding]
         /\ \A k \in Job : at[k] \in Holding <=> holder = k
<1>1. 0 \in 0..latest
  BY VoiceFacts
<1> QED BY <1>1 DEF VoiceInv, VoiceTypeOK, ContextUnhurt

(* The types that the solvers need by themselves.                          *)
LEMMA Switches == VoiceInv => poisoned \in BOOLEAN /\ aborted \in [Job -> BOOLEAN]
BY DEF VoiceInv, VoiceTypeOK

(* A job that waits, begins, gives up or decodes holds nothing before or   *)
(* after.                                                                  *)
LEMMA OutsidePreserves ==
  ASSUME VoiceInv, NEW j \in Job, Begin(j) \/ GiveUp(j) \/ Decode(j) \/ Abort(j)
  PROVE  VoiceInv'
<1>1. UNCHANGED <<file, latest, cache, holder, seen, since>> /\ UNCHANGED poisoned
  BY DEF Begin, GiveUp, Decode, Abort
<1>2. poisoned' \in BOOLEAN
  BY <1>1, Switches
<1>3. aborted' \in [Job -> BOOLEAN]
  BY Switches DEF Begin, GiveUp, Decode, Abort
<1>4. HurtIsPoisoned'
  BY <1>1 DEF VoiceInv, HurtIsPoisoned
<1>5. CacheTyped(cache') /\ cache'.as <= cache'.of
  BY <1>1, ContextFacts DEF VoiceInv, FilesGrow
<1>6. ASSUME NEW w \in {"idle", "waiting", "decoding"} \cup Holding, at' = [at EXCEPT ![j] = w],
             w \in Holding <=> at[j] \in Holding, w \in Holding => w = at[j],
             NEW v \in Verdicts, verdict' = [verdict EXCEPT ![j] = v], v.by = "context" => ~v.hurt
      PROVE  VoiceInv'
  <2>1. \A k \in Job : at'[k] \in Holding <=> holder' = k
    BY <1>1, <1>6, Same
  <2>2. /\ w \in {"identified", "loaded"} => since[j] <= seen[j]
        /\ w = "loaded" => cache'.as = seen[j]
    BY <1>1, <1>6, ContextFacts DEF VoiceInv, IdentityFirst
  <2>3. /\ seen' = [seen EXCEPT ![j] = seen[j]] /\ seen[j] \in 0..latest
        /\ since' = [since EXCEPT ![j] = since[j]] /\ since[j] \in 0..latest
        /\ holder' \in Job \cup {Free}
    BY <1>1, Same
  <2>4. Moves(j, w, seen[j], since[j], v)
    BY <1>6, <2>3 DEF Moves
  <2> QED BY <1>1, <1>2, <1>3, <1>4, <1>5, <1>6, <2>1, <2>2, <2>3, <2>4, JobMoves
<1>7. "idle" \notin Holding /\ "waiting" \notin Holding /\ "decoding" \notin Holding
  BY DEF Holding
<1>8. CASE Begin(j)
  <2>1. /\ at' = [at EXCEPT ![j] = "waiting"] /\ at[j] = "idle"
        /\ verdict' = [verdict EXCEPT ![j] = NoVerdict]
    BY <1>8 DEF Begin
  <2> QED BY <1>6, <1>7, <2>1, ContextFacts
<1>9. CASE GiveUp(j) \/ Decode(j)
  <2>1. /\ at' = [at EXCEPT ![j] = "idle"] /\ at[j] \in {"waiting", "decoding"} /\ verdict' = verdict
    BY <1>9 DEF GiveUp, Decode
  <2>2. verdict' = [verdict EXCEPT ![j] = verdict[j]]
    BY <2>1, Same
  <2> QED BY <1>6, <1>7, <2>1, <2>2, Same
<1>10. CASE Abort(j)
  <2>1. at' = at /\ verdict' = verdict
    BY <1>10 DEF Abort
  <2>2. at' = [at EXCEPT ![j] = at[j]] /\ verdict' = [verdict EXCEPT ![j] = verdict[j]]
        /\ at[j] \in {"idle", "waiting", "decoding"} \cup Holding
    BY <2>1, Same
  <2> QED BY <1>6, <2>2, Same
<1> QED BY <1>8, <1>9, <1>10

(* The lock is taken, with nothing of a job that died with it.             *)
LEMMA TryLockPreserves ==
  ASSUME VoiceInv, NEW j \in Job, TryLock(j)
  PROVE  VoiceInv'
<1>1. /\ at[j] = "waiting" /\ holder = Free /\ at' = [at EXCEPT ![j] = "locked"] /\ holder' = j
      /\ since' = [since EXCEPT ![j] = file] /\ poisoned' = FALSE
      /\ cache' = IF poisoned THEN NoContext ELSE cache
      /\ UNCHANGED <<file, latest, seen, verdict>>
  BY DEF TryLock
<1>2. aborted' \in [Job -> BOOLEAN]
  BY Switches DEF TryLock
<1>3. CacheTyped(cache') /\ cache'.as <= cache'.of
  BY <1>1, ContextFacts DEF VoiceInv, FilesGrow
<1>4. HurtIsPoisoned'
  BY <1>1, ContextFacts DEF VoiceInv, HurtIsPoisoned
<1>5. "locked" \in Holding /\ \A k \in Job : at[k] \notin Holding
  BY <1>1, Same, ContextFacts
<1>6. \A k \in Job : at'[k] \in Holding <=> holder' = k
  BY <1>1, <1>5, Same
<1>7. /\ seen' = [seen EXCEPT ![j] = seen[j]] /\ seen[j] \in 0..latest
      /\ verdict' = [verdict EXCEPT ![j] = verdict[j]] /\ verdict[j] \in Verdicts
      /\ verdict[j].by = "context" => ~verdict[j].hurt
      /\ file \in 0..latest
  BY <1>1, Same
<1>8. /\ "locked" \in {"idle", "waiting", "decoding"} \cup Holding
      /\ "locked" \notin {"identified", "loaded"}
      /\ holder' \in Job \cup {Free} /\ poisoned' \in BOOLEAN
      /\ cache' # cache => \A k \in Job \ {j} : at[k] \notin Holding
  BY <1>1, <1>5
<1>9. Moves(j, "locked", seen[j], file, verdict[j])
  BY <1>1, <1>7 DEF Moves
<1> QED BY ONLY VoiceInv, j \in Job, <1>1, <1>2, <1>3, <1>4, <1>6, <1>7, <1>8, <1>9, JobMoves

(* A job that holds the lock is the only one, and no job has died with it. *)
LEMMA HolderFacts ==
  ASSUME VoiceInv, NEW j \in Job, at[j] \in Holding
  PROVE  /\ holder = j /\ poisoned = FALSE /\ cache.hurt = FALSE
         /\ \A k \in Job \ {j} : at[k] \notin Holding
<1>1. holder = j /\ \A k \in Job \ {j} : at[k] \notin Holding
  BY Same
<1>2. holder # Free
  BY <1>1, ContextFacts
<1>3. poisoned = FALSE
  BY <1>2, Switches DEF VoiceInv, HurtIsPoisoned
<1>4. cache.hurt = FALSE
  BY <1>3, VoiceFacts DEF VoiceInv, HurtIsPoisoned
<1> QED BY <1>1, <1>3, <1>4

(* The end of a pass.                                                      *)
LEMMA PassPreserves ==
  ASSUME VoiceInv, NEW j \in Job, at[j] \in Holding, cache' \in {cache, NoContext},
         NEW v \in Verdicts, v.by = "context" => ~v.hurt, Passes(j, v)
  PROVE  VoiceInv'
<1> DEFINE w == IF aborted[j] THEN "idle" ELSE "decoding"
           u == IF aborted[j] THEN NoVerdict ELSE v
<1>1. /\ holder' = Free /\ at' = [at EXCEPT ![j] = w] /\ verdict' = [verdict EXCEPT ![j] = u]
      /\ seen' = [seen EXCEPT ![j] = 0] /\ since' = [since EXCEPT ![j] = 0]
      /\ UNCHANGED <<file, latest>>
  BY DEF Passes, Leaves, Forgotten
<1>2. poisoned' = poisoned /\ aborted' = aborted
  BY DEF Passes
<1>3. poisoned' \in BOOLEAN /\ aborted' \in [Job -> BOOLEAN]
  BY <1>2, Switches
<1>4. /\ w \in {"idle", "waiting", "decoding"} \cup Holding /\ w \notin Holding
      /\ u \in Verdicts
      /\ u.by = "context" => ~u.hurt
  BY ContextFacts
<1> HIDE DEF w, u
<1>5. CacheTyped(cache') /\ cache'.as <= cache'.of
  BY ContextFacts DEF VoiceInv, FilesGrow
<1>6. HurtIsPoisoned'
  BY <1>1, HolderFacts, ContextFacts DEF HurtIsPoisoned
<1>7. \A k \in Job : at'[k] \in Holding <=> holder' = k
  BY <1>1, <1>4, HolderFacts, Same, ContextFacts
<1>8. /\ ~(w \in {"identified", "loaded"}) /\ w # "loaded" /\ 0 \in 0..latest /\ holder' \in Job \cup {Free}
      /\ \A k \in Job \ {j} : at[k] \notin Holding
  BY <1>1, <1>4, Same, HolderFacts, ContextFacts
<1>9. Moves(j, w, 0, 0, u)
  BY <1>1 DEF Moves
<1> QED BY ONLY VoiceInv, j \in Job, <1>1, <1>3, <1>4, <1>5, <1>6, <1>7, <1>8, <1>9, JobMoves

(* The ways a pass ends.                                                   *)
LEMMA EndsPreserve ==
  ASSUME VoiceInv, NEW j \in Job,
         Missing(j) \/ NotLookedAt(j) \/ LoadFails(j) \/ Infer(j) \/ InferFails(j)
  PROVE  VoiceInv'
<1>1. at[j] \in Holding /\ cache' \in {cache, NoContext}
  BY ContextFacts DEF Missing, NotLookedAt, LoadFails, Infer, InferFails
<1>2. CASE Passes(j, All)
  BY <1>1, <1>2, PassPreserves, ContextFacts
<1>3. CASE Infer(j)
  <2> DEFINE v == [by |-> "context", of |-> cache.of, hurt |-> cache.hurt]
  <2>1. v \in Verdicts /\ ~v.hurt
    BY <1>1, HolderFacts, VoiceFacts DEF Verdicts
  <2>2. Passes(j, v)
    BY <1>3 DEF Infer
  <2> HIDE DEF v
  <2> QED BY <1>1, <2>1, <2>2, PassPreserves
<1> QED BY <1>2, <1>3 DEF Missing, NotLookedAt, LoadFails, InferFails

LEMMA IdentifyPreserves ==
  ASSUME VoiceInv, NEW j \in Job, Identify(j)
  PROVE  VoiceInv'
<1>1. /\ at[j] \in Holding /\ file # 0 /\ at' = [at EXCEPT ![j] = "identified"]
      /\ seen' = [seen EXCEPT ![j] = file]
      /\ UNCHANGED <<file, latest, cache, holder, since, verdict>>
  BY ContextFacts DEF Identify
<1>2. poisoned' = poisoned /\ aborted' = aborted
  BY DEF Identify
<1>3. poisoned' \in BOOLEAN /\ aborted' \in [Job -> BOOLEAN]
  BY <1>2, Switches
<1>4. CacheTyped(cache') /\ cache'.as <= cache'.of
  BY <1>1, ContextFacts DEF VoiceInv, FilesGrow
<1>5. HurtIsPoisoned'
  BY <1>1, <1>2 DEF VoiceInv, HurtIsPoisoned
<1>6. "identified" \in Holding /\ \A k \in Job : at'[k] \in Holding <=> holder' = k
  BY <1>1, HolderFacts, Same, ContextFacts
<1>7. since[j] <= file
  BY <1>1, VoiceFacts DEF VoiceInv, FilesGrow
<1>8. /\ since' = [since EXCEPT ![j] = since[j]] /\ since[j] \in 0..latest
      /\ verdict' = [verdict EXCEPT ![j] = verdict[j]] /\ verdict[j] \in Verdicts
      /\ verdict[j].by = "context" => ~verdict[j].hurt
      /\ file \in 0..latest /\ holder' \in Job \cup {Free}
  BY <1>1, Same
<1>10. Moves(j, "identified", file, since[j], verdict[j])
  BY <1>1, <1>8 DEF Moves
<1>9. /\ "identified" \in {"idle", "waiting", "decoding"} \cup Holding
      /\ "identified" # "loaded" /\ cache' = cache
  BY <1>1, <1>6
<1> QED BY ONLY VoiceInv, j \in Job, <1>1, <1>3, <1>4, <1>5, <1>6, <1>7, <1>8, <1>9, <1>10, JobMoves

LEMMA LoadPreserves ==
  ASSUME VoiceInv, NEW j \in Job, Load(j)
  PROVE  VoiceInv'
<1>1. /\ at[j] = "identified" /\ at[j] \in Holding /\ at' = [at EXCEPT ![j] = "loaded"]
      /\ UNCHANGED <<file, latest, holder, seen, since, verdict>>
  BY ContextFacts DEF Load
<1>2. poisoned' = poisoned /\ aborted' = aborted
  BY DEF Load
<1>3. poisoned' \in BOOLEAN /\ aborted' \in [Job -> BOOLEAN]
  BY <1>2, Switches
<1>4. CacheTyped(cache') /\ cache'.as <= cache'.of /\ cache'.as = seen[j] /\ cache'.hurt = FALSE
  <2>1. CASE cache.as = seen[j] /\ cache' = cache
    BY <1>1, <2>1, ContextFacts, HolderFacts DEF VoiceInv, FilesGrow
  <2>2. CASE file # 0 /\ cache' = [as |-> seen[j], of |-> file, hurt |-> FALSE]
    <3>1. file = latest /\ seen[j] <= file /\ seen[j] \in 0..latest /\ file \in 0..latest
      BY <2>2, VoiceFacts, Same DEF VoiceInv, FilesGrow
    <3> QED BY <2>2, <3>1 DEF CacheTyped
  <2> QED BY <2>1, <2>2 DEF Load
<1>5. HurtIsPoisoned'
  BY <1>1, <1>2, <1>4, HolderFacts DEF HurtIsPoisoned
<1>6. "loaded" \in Holding /\ \A k \in Job : at'[k] \in Holding <=> holder' = k
  BY <1>1, HolderFacts, Same, ContextFacts
<1>7. since[j] <= seen[j]
  BY <1>1 DEF VoiceInv, IdentityFirst
<1>8. /\ since' = [since EXCEPT ![j] = since[j]] /\ since[j] \in 0..latest
      /\ seen' = [seen EXCEPT ![j] = seen[j]] /\ seen[j] \in 0..latest
      /\ verdict' = [verdict EXCEPT ![j] = verdict[j]] /\ verdict[j] \in Verdicts
      /\ verdict[j].by = "context" => ~verdict[j].hurt
      /\ holder' \in Job \cup {Free}
  BY <1>1, Same
<1>9. Moves(j, "loaded", seen[j], since[j], verdict[j])
  BY <1>1, <1>8 DEF Moves
<1> QED BY <1>1, <1>3, <1>4, <1>5, <1>6, <1>7, <1>8, <1>9, HolderFacts, JobMoves

LEMMA DiesPreserves ==
  ASSUME VoiceInv, NEW j \in Job, Dies(j)
  PROVE  VoiceInv'
<1>1. /\ at[j] \in Holding /\ at' = [at EXCEPT ![j] = "idle"] /\ holder' = Free /\ poisoned' = TRUE
      /\ cache' = IF cache = NoContext THEN cache ELSE [cache EXCEPT !.hurt = TRUE]
      /\ seen' = [seen EXCEPT ![j] = 0] /\ since' = [since EXCEPT ![j] = 0]
      /\ UNCHANGED <<file, latest, verdict>>
  BY DEF Dies, Forgotten
<1>2. aborted' \in [Job -> BOOLEAN]
  BY Switches DEF Dies
<1>3. CacheTyped(cache') /\ cache'.as <= cache'.of
  BY <1>1, ContextFacts DEF VoiceInv, FilesGrow, CacheTyped
<1>4. HurtIsPoisoned'
  BY <1>1 DEF HurtIsPoisoned
<1>5. "idle" \notin Holding /\ \A k \in Job : at'[k] \in Holding <=> holder' = k
  BY <1>1, HolderFacts, Same, ContextFacts
<1>6. /\ verdict' = [verdict EXCEPT ![j] = verdict[j]] /\ verdict[j] \in Verdicts
      /\ verdict[j].by = "context" => ~verdict[j].hurt
      /\ 0 \in 0..latest /\ holder' \in Job \cup {Free}
  BY <1>1, Same
<1>7. /\ "idle" \in {"idle", "waiting", "decoding"} \cup Holding
      /\ "idle" \notin {"identified", "loaded"} /\ poisoned' \in BOOLEAN
      /\ \A k \in Job \ {j} : at[k] \notin Holding
  BY <1>1, HolderFacts
<1>8. Moves(j, "idle", 0, 0, verdict[j])
  BY <1>1, <1>6 DEF Moves
<1> QED BY ONLY VoiceInv, j \in Job, <1>1, <1>2, <1>3, <1>4, <1>5, <1>6, <1>7, <1>8, JobMoves

(* Every step.                                                             *)
LEMMA VoiceStutters == VoiceInv /\ UNCHANGED voiceVars => VoiceInv'
BY DEF VoiceInv, VoiceTypeOK, FilesGrow, IdentityFirst, HurtIsPoisoned, ContextUnhurt, voiceVars

LEMMA VoiceStepHolds == VoiceInv /\ [VoiceNext]_voiceVars => VoiceInv'
BY UpdatePreserves, OutsidePreserves, TryLockPreserves, EndsPreserve, IdentifyPreserves, LoadPreserves,
   DiesPreserves, VoiceStutters DEF VoiceNext

(* However often the model's file is replaced or removed, and whichever    *)
(* jobs are cancelled or die, a clip is judged by a model no older than    *)
(* its job's lock, and never in a context that a job died in.              *)
THEOREM VoiceSafetyAlways == VoiceInit /\ [][VoiceNext]_voiceVars => []VoiceSafety
<1>1. VoiceInv => VoiceSafety
  <2> SUFFICES ASSUME VoiceInv PROVE VoiceSafety
    OBVIOUS
  <2>1. ASSUME NEW j \in Job, at[j] = "loaded" PROVE cache.of >= since[j]
    <3>1. since[j] <= seen[j] /\ cache.as = seen[j] /\ cache.as <= cache.of
      BY <2>1 DEF VoiceInv, IdentityFirst, FilesGrow
    <3> QED BY <3>1, VoiceFacts
  <2> QED BY <2>1 DEF VoiceInv, VoiceSafety, ModelIsCurrent
<1> QED BY <1>1, VoiceInitHolds, VoiceStepHolds, PTL
=============================================================================
