------------------------------- MODULE RestApi -------------------------------
(***************************************************************************)
(* The local REST API: the settings page that starts, stops and restarts   *)
(* the server, and the server itself with its connections, its admission   *)
(* limits, its bounded job queue and its worker thread.                    *)
(*                                                                         *)
(* The GTK thread's handlers are one step each; fetching the token from    *)
(* the keyring is not theirs.  A server that was told to stop goes on for  *)
(* some steps: its listener closes only when the accept loop has seen the  *)
(* signal and every connection has ended, its worker when the queue is     *)
(* drained.  A client may disconnect at any time, which drops the future   *)
(* of its request wherever that waits, and aborts its token.               *)
(***************************************************************************)
EXTENDS Integers, Sequences, FiniteSets

CONSTANTS
  Client,          (* Callers; each has one connection at a time.          *)
  Port,            (* Ports the user may choose.                           *)
  Server,          (* Servers that run or are still stopping.              *)
  MaxConnections,  (* MAX_API_CONNECTIONS.                                 *)
  MaxUploads,      (* MAX_CONCURRENT_UPLOADS.                              *)
  QueueDepth,      (* JOB_QUEUE_DEPTH.                                     *)
  NoServer,
  MaxActs          (* Changes of the settings.  Bounds the model.          *)

ASSUME ApiAssumption ==
  /\ NoServer \notin Server /\ Client \cap {"none", "free"} = {}
  /\ MaxConnections \in Nat \ {0} /\ MaxActs \in Nat
  /\ MaxUploads \in Nat \ {0} /\ QueueDepth \in Nat /\ MaxUploads <= QueueDepth

VARIABLES
  config,      (* api_server_enabled, api_server_port, api_token_enabled.  *)
  keyring,     (* The stored token, 0 if there is none.                    *)
  minted,      (* Tokens generated so far.                                 *)
  generation,  (* api_start_generation.                                    *)
  starts,      (* Starts that wait for the token.                          *)
  usurped,     (* An overtaken start has stored its token over the one that*)
               (* the current start had.  Only the properties look at it.  *)
  renewals,    (* Tokens that Regenerate has made and not yet reported.    *)
  handle,      (* api_server: the running server, or NoServer.             *)
  server,      (* Per server, its listener, token and cancel flag.         *)
  queue,       (* Per server, the jobs its worker has not received.        *)
  worker,      (* Per server, its worker: none, free, or a client's job.   *)
  request,     (* Where each client's connection is, and on which server.  *)
  job,         (* Each client's job, with its token.                       *)
  acts

settings == <<config, keyring, minted, generation, starts, usurped, renewals, handle, acts>>
traffic == <<queue, worker, request, job>>
vars == <<settings, server, traffic>>

Token == Nat

Unused == [at |-> "unused", port |-> 0, token |-> 0, adopted |-> FALSE, aborted |-> FALSE]
Away == [at |-> "away", server |-> NoServer]
NoJob == [at |-> "none", server |-> NoServer, aborted |-> FALSE]

(* The types of the settings, the servers and the requests on their way.   *)
TypeOK ==
  /\ config \in [enabled : BOOLEAN, port : Port, auth : BOOLEAN]
  /\ keyring \in Token /\ minted \in Token /\ generation \in Nat /\ acts \in 0 .. MaxActs
  /\ starts \subseteq [generation : Nat, port : Port, token : Token, at : {"load", "store", "here"}]
  /\ usurped \in BOOLEAN
  /\ renewals \subseteq [token : Token, stored : BOOLEAN]
  /\ handle \in Server \cup {NoServer}
  /\ server \in [Server -> [at : {"unused", "open", "closing", "closed"}, port : Port \cup {0},
                            token : Token, adopted : BOOLEAN, aborted : BOOLEAN]]
  /\ queue \in [Server -> Seq(Client)] /\ \A s \in Server : Len(queue[s]) <= QueueDepth
  /\ worker \in [Server -> {"none", "free"} \cup Client]
  /\ request \in [Client -> [at : {"away", "headers", "upload", "waiting", "translating"},
                             server : Server \cup {NoServer}]]
  /\ job \in [Client -> [at : {"none", "queued", "running", "replied"},
                         server : Server \cup {NoServer}, aborted : BOOLEAN]]
  /\ \A c \in Client :
       job[c].at = "queued" <=> \E s \in Server : \E i \in DOMAIN queue[s] : queue[s][i] = c

Init ==
  /\ config \in [enabled : {FALSE}, port : Port, auth : BOOLEAN]
  /\ keyring \in {0, 1} /\ minted = keyring /\ generation = 0 /\ starts = {} /\ renewals = {}
  /\ usurped = FALSE
  /\ handle = NoServer /\ acts = 0
  /\ server = [s \in Server |-> Unused]
  /\ queue = [s \in Server |-> <<>>] /\ worker = [s \in Server |-> "none"]
  /\ request = [c \in Client |-> Away] /\ job = [c \in Client |-> NoJob]

(***************************************************************************)
(* Starting and stopping.                                                  *)
(***************************************************************************)
Taken(p) == \E s \in Server : server[s].at \in {"open", "closing"} /\ server[s].port = p

(* signal_stop, of the server that runs, if one does.                      *)
Stopped ==
  [s \in Server |-> IF s = handle /\ server[s].at # "unused"
                    THEN [server[s] EXCEPT !.aborted = TRUE] ELSE server[s]]

(* A server that serve runs, and one whose listener the runtime did not    *)
(* adopt: serve returns at once, and nobody tells the handle's owner.      *)
Served(p, token) ==
  {[at |-> "open", port |-> p, token |-> token, adopted |-> TRUE, aborted |-> FALSE],
   [at |-> "closing", port |-> p, token |-> token, adopted |-> FALSE, aborted |-> TRUE]}

(* api::start binds at once; it fails while the port is still taken.       *)
Bind(base, p, token) ==
  IF Taken(p) THEN handle' = NoServer /\ server' = base /\ UNCHANGED worker
  ELSE \E s \in Server, v \in Served(p, token) :
         /\ server[s].at = "unused" /\ handle' = s
         /\ server' = [base EXCEPT ![s] = v]
         /\ worker' = [worker EXCEPT ![s] = "free"]

(* start_api_server: the g-th start, of a configuration that is enabled.   *)
Start(base, c, g) ==
  IF c.auth
  THEN /\ starts' = starts \cup {[generation |-> g, port |-> c.port, token |-> 0, at |-> "load"]}
       /\ handle' = NoServer /\ server' = base /\ UNCHANGED worker
  ELSE Bind(base, c.port, 0) /\ UNCHANGED starts

Restart(c) == generation' = generation + 2 /\ Start(Stopped, c, generation + 2)

Act == acts < MaxActs /\ acts' = acts + 1

Enable ==
  /\ Act /\ ~config.enabled
  /\ config' = [config EXCEPT !.enabled = TRUE]
  /\ generation' = generation + 1 /\ Start(server, config, generation + 1)
  /\ UNCHANGED <<keyring, minted, usurped, renewals, queue, request, job>>

Disable ==
  /\ Act /\ config.enabled
  /\ config' = [config EXCEPT !.enabled = FALSE]
  /\ generation' = generation + 1 /\ handle' = NoServer /\ server' = Stopped
  /\ UNCHANGED <<keyring, minted, starts, usurped, renewals, traffic>>

(* The port and the token switch restart a server that is enabled.         *)
Reconfigure ==
  /\ Act
  /\ \E c \in [enabled : {config.enabled}, port : Port, auth : BOOLEAN] :
       /\ (c.port = config.port) # (c.auth = config.auth)
       /\ config' = c
       /\ IF c.enabled THEN Restart(c)
          ELSE UNCHANGED <<generation, starts, handle, server, worker>>
  /\ UNCHANGED <<keyring, minted, usurped, renewals, queue, request, job>>

Renew ==
  /\ Act /\ minted' = minted + 1
  /\ renewals' = renewals \cup {[token |-> minted + 1, stored |-> FALSE]}
  /\ UNCHANGED <<config, keyring, generation, starts, usurped, handle, server, traffic>>

(* The keyring may refuse; then the old token stays and nothing restarts.  *)
RenewStore ==
  /\ \E r \in renewals :
       /\ ~r.stored
       /\ \/ /\ keyring' = r.token
             /\ renewals' = (renewals \ {r}) \cup {[r EXCEPT !.stored = TRUE]}
          \/ UNCHANGED keyring /\ renewals' = renewals \ {r}
  /\ UNCHANGED <<config, minted, generation, starts, usurped, handle, acts, server, traffic>>

RenewDone ==
  /\ \E r \in renewals : r.stored /\ renewals' = renewals \ {r}
  /\ IF config.enabled THEN Restart(config)
     ELSE UNCHANGED <<generation, starts, handle, server, worker>>
  /\ UNCHANGED <<config, keyring, minted, usurped, acts, queue, request, job>>

(* load_secret: a keyring that cannot be read looks like one without it.   *)
Loaded == {0, keyring}

Current(x) == x.generation = generation

(* The token is loaded, or made and stored, on a runtime thread; a start   *)
(* that was overtaken meanwhile goes on all the same.                      *)
FetchToken ==
  /\ \E x \in starts :
       \/ \E t \in Loaded \ {0} :
            /\ x.at = "load"
            /\ starts' = (starts \ {x}) \cup {[x EXCEPT !.at = "here", !.token = t]}
            /\ usurped' = (usurped /\ ~Current(x))
            /\ UNCHANGED <<keyring, minted>>
       \/ /\ x.at = "load" /\ 0 \in Loaded
          /\ minted' = minted + 1
          /\ starts' = (starts \ {x}) \cup {[x EXCEPT !.at = "store", !.token = minted + 1]}
          /\ UNCHANGED <<keyring, usurped>>
       \/ /\ x.at = "store" /\ keyring' = x.token
          /\ starts' = (starts \ {x}) \cup {[x EXCEPT !.at = "here"]}
          /\ usurped' = ~Current(x)
          /\ UNCHANGED minted
       \/ /\ x.at = "store" /\ starts' = starts \ {x}
          /\ UNCHANGED <<keyring, minted, usurped>>
  /\ UNCHANGED <<config, generation, renewals, handle, acts, server, traffic>>

(* Mutant: the settings are not read again.                                *)
StillWantedAnyTime(x) == handle = NoServer

(* Mutant: a start that was overtaken is not recognised.                   *)
StillWantedOvertaken(x) ==
  handle = NoServer /\ config.enabled /\ config.port = x.port

StillWanted(x) ==
  /\ handle = NoServer /\ Current(x)
  /\ config.enabled /\ config.port = x.port

(* finish_start_api_server.                                                *)
FinishStart ==
  /\ \E x \in starts :
       /\ x.at = "here" /\ starts' = starts \ {x}
       /\ IF StillWanted(x) THEN Bind(server, x.port, x.token)
          ELSE UNCHANGED <<handle, server, worker>>
  /\ UNCHANGED <<config, keyring, minted, generation, usurped, renewals, acts, queue, request, job>>

(***************************************************************************)
(* A connection.                                                           *)
(***************************************************************************)
On(s) == {c \in Client : request[c].server = s}
(* Mutant: the permit for an upload is given back when the job is queued.  *)
UploadingOnly(s) == {c \in On(s) : request[c].at = "upload"}

Uploading(s) == {c \in On(s) : request[c].at \in {"upload", "waiting", "translating"}}

Goto(c, at) == request' = [request EXCEPT ![c].at = at]

(* Mutant: a request that times out leaves its job as it is.               *)
LeaveJob(c) ==
  /\ request' = [request EXCEPT ![c] = Away]
  /\ job' = IF job[c].at = "replied" THEN [job EXCEPT ![c] = NoJob] ELSE job

(* The future ends or is dropped: its permits are free, its job aborted.   *)
Leave(c) ==
  /\ request' = [request EXCEPT ![c] = Away]
  /\ job' = IF job[c].at = "replied" THEN [job EXCEPT ![c] = NoJob]
            ELSE [job EXCEPT ![c].aborted = job[c].at # "none"]

(* Over the limit the stream is dropped.                                   *)
Connect(c) ==
  /\ request[c].at = "away" /\ job[c] = NoJob
  /\ \E s \in Server :
       /\ server[s].at = "open" /\ Cardinality(On(s)) < MaxConnections
       /\ request' = [request EXCEPT ![c] = [at |-> "headers", server |-> s]]
  /\ UNCHANGED <<settings, server, queue, worker, job>>

(* What handle answers at once, a header that does not come included:      *)
(* health, models, preflight, a bad host, path or token; and /v1/translate,*)
(* which takes no permit.                                                  *)
Answer(c) ==
  /\ request[c].at = "headers" /\ Leave(c)
  /\ UNCHANGED <<settings, server, queue, worker>>

Admit(c) ==
  /\ request[c].at = "headers"
  /\ IF Cardinality(Uploading(request[c].server)) < MaxUploads
     THEN Goto(c, "upload") /\ UNCHANGED job ELSE Leave(c)
  /\ UNCHANGED <<settings, server, queue, worker>>

(* A body or a parameter that is refused, or does not come in time.        *)
Refuse(c) ==
  /\ request[c].at = "upload" /\ Leave(c)
  /\ UNCHANGED <<settings, server, queue, worker>>

(* Mutant: the queue has no bound.                                         *)
ClosedOnly(s) == server[s].at # "open"

Full(s) == Len(queue[s]) = QueueDepth \/ server[s].at # "open"

(* The audio is in its temporary file.                                     *)
Enqueue(c) ==
  LET s == request[c].server
  IN  /\ request[c].at = "upload"
      /\ IF Full(s) THEN Leave(c) /\ UNCHANGED queue
         ELSE /\ queue' = [queue EXCEPT ![s] = Append(@, c)]
              /\ job' = [job EXCEPT ![c] = [at |-> "queued", server |-> s, aborted |-> FALSE]]
              /\ Goto(c, "waiting")
      /\ UNCHANGED <<settings, server, worker>>

(* The worker's reply, or a job that was dropped with its reply's sender.  *)
Reply(c) ==
  /\ request[c].at = "waiting" /\ job[c].at \in {"replied", "none"}
  /\ \/ Leave(c)
     \/ job[c].at = "replied" /\ Goto(c, "translating") /\ UNCHANGED job
  /\ UNCHANGED <<settings, server, queue, worker>>

Translated(c) ==
  /\ request[c].at = "translating" /\ Leave(c)
  /\ UNCHANGED <<settings, server, queue, worker>>

(* The deadline of the inference: 504.                                     *)
TimeOut(c) ==
  /\ request[c].at = "waiting" /\ Leave(c)
  /\ UNCHANGED <<settings, server, queue, worker>>

(* The client goes, or the stopping server drops its connections.          *)
Disconnect(c) ==
  /\ request[c].at # "away" /\ Leave(c)
  /\ UNCHANGED <<settings, server, queue, worker>>

(***************************************************************************)
(* The worker thread and the accept loop's end.                            *)
(***************************************************************************)
Aborted(c) == job[c].aborted \/ server[job[c].server].aborted

(* An aborted job is dropped, and its temporary file with it.              *)
Receive(s) ==
  /\ worker[s] = "free" /\ queue[s] # <<>>
  /\ LET c == Head(queue[s])
     IN  IF Aborted(c) THEN job' = [job EXCEPT ![c] = NoJob] /\ UNCHANGED worker
         ELSE /\ job' = [job EXCEPT ![c].at = "running"]
              /\ worker' = [worker EXCEPT ![s] = c]
  /\ queue' = [queue EXCEPT ![s] = Tail(@)]
  /\ UNCHANGED <<settings, server, request>>

(* Mutant: a panic ends the worker's thread.                               *)
FinishUncaught(s) ==
  /\ worker[s] \in Client
  /\ worker' = [worker EXCEPT ![s] = "none"]
  /\ UNCHANGED <<settings, server, queue, request, job>>

(* run_job: a result, an error, a panic that was caught, or the abort seen *)
(* at a checkpoint.  Nobody receives the reply of an abandoned job.        *)
Finish(s) ==
  /\ worker[s] \in Client
  /\ LET c == worker[s]
     IN  job' = IF request[c].at = "waiting" /\ ~job[c].aborted
                THEN [job EXCEPT ![c].at = "replied"] ELSE [job EXCEPT ![c] = NoJob]
  /\ worker' = [worker EXCEPT ![s] = "free"]
  /\ UNCHANGED <<settings, server, queue, request>>

(* Mutant: the accept loop goes on until its last connection is served.    *)
ShutDownGently(s) ==
  /\ server[s].at = "open" /\ server[s].aborted /\ On(s) = {}
  /\ server' = [server EXCEPT ![s].at = "closing"]
  /\ UNCHANGED <<settings, traffic>>

(* The signal: every connection's task is aborted and the queue closes.    *)
ShutDown(s) ==
  /\ server[s].at = "open" /\ server[s].aborted
  /\ server' = [server EXCEPT ![s].at = "closing"]
  /\ UNCHANGED <<settings, traffic>>

DropConnection(c) ==
  /\ request[c].at # "away" /\ server[request[c].server].at = "closing" /\ Leave(c)
  /\ UNCHANGED <<settings, server, queue, worker>>

(* serve returns, and with it the listener closes.                         *)
Close(s) ==
  /\ server[s].at = "closing" /\ On(s) = {}
  /\ server' = [server EXCEPT ![s].at = "closed"]
  /\ UNCHANGED <<settings, traffic>>

(* The worker finds its queue closed and empty, and is joined.             *)
Join(s) ==
  /\ server[s].at = "closed" /\ worker[s] = "free" /\ queue[s] = <<>>
  /\ worker' = [worker EXCEPT ![s] = "none"]
  /\ server' = [server EXCEPT ![s] = Unused]
  /\ UNCHANGED <<settings, queue, request, job>>

User == Enable \/ Disable \/ Reconfigure \/ Renew
Secrets == RenewStore \/ FetchToken
Arrivals == RenewDone \/ FinishStart
Progress(c) == Answer(c) \/ Refuse(c) \/ Reply(c) \/ Translated(c) \/ TimeOut(c) \/ DropConnection(c)
Accept(s) == ShutDown(s) \/ Close(s)
Work(s) == Receive(s) \/ Finish(s) \/ Join(s)

Next ==
  \/ User \/ Secrets \/ Arrivals
  \/ \E c \in Client : Connect(c) \/ Admit(c) \/ Enqueue(c) \/ Progress(c) \/ Disconnect(c)
  \/ \E s \in Server : Accept(s) \/ Work(s)

(* Headers, bodies, decodes and the translation's request have deadlines,  *)
(* and a decode returns; the accept loop and the worker run on.            *)
Fairness ==
  /\ \A c \in Client : WF_vars(Progress(c))
  /\ \A s \in Server : WF_vars(Accept(s)) /\ WF_vars(Work(s))

Spec == Init /\ [][Next]_vars /\ Fairness

------------------------------------------------------------------------------
(* The server that runs is the one the settings describe: its port is the  *)
(* one shown and it asks for a token exactly if the switch says so,        *)
(* whatever was changed while a start waited for the keyring.  (Of a       *)
(* server whose listener the runtime did not adopt only the handle is left.)*)
ServerMatchesConfig ==
  handle # NoServer =>
    /\ config.enabled
    /\ server[handle].adopted =>
         /\ server[handle].at = "open" /\ ~server[handle].aborted
         /\ server[handle].port = config.port
         /\ server[handle].token # 0 <=> config.auth

(* Once no regenerated token is on its way, the server asks for the token  *)
(* in the keyring, whichever start found it, made it or lost it: a start   *)
(* that read an older one never serves.  The one exception is an overtaken *)
(* start that found no token, or could not read it, and stores its own     *)
(* after the current start had read the keyring's.                         *)
ServesStoredToken ==
  handle # NoServer /\ server[handle].adopted /\ config.auth /\ renewals = {} /\ ~usurped
    => server[handle].token = keyring

(* A job's file and reply channel are the live request's or marked for     *)
(* dropping: nothing a caller left behind is decoded to the end unseen.    *)
OrphansAreAborted ==
  \A c \in Client : job[c].at \in {"queued", "running"} =>
    job[c].aborted \/ (request[c].at = "waiting" /\ request[c].server = job[c].server)

(* While an admitted caller's audio arrives, the queue can be full only    *)
(* because of jobs that callers abandoned: the upload permit is held until *)
(* the answer, so 429 after an upload is never the fault of live requests. *)
FullOnlyOfAbandoned ==
  \A c \in Client : LET s == request[c].server IN
    request[c].at = "upload" /\ server[s].at = "open" /\ Len(queue[s]) = QueueDepth =>
      \E i \in DOMAIN queue[s] : Aborted(queue[s][i])

(* A server that was told to stop frees its port, its worker thread and    *)
(* its jobs' files.                                                        *)
StoppedServerEnds ==
  \A s \in Server : server[s].aborted ~> server[s].at = "unused"

(* Every connection ends, and every job is run, answered or dropped.       *)
RequestsEnd ==
  \A c \in Client : (request[c].at # "away" \/ job[c].at # "none") ~>
                    (request[c].at = "away" /\ job[c].at = "none")

(* The server that runs is the one the settings show, no abandoned job is  *)
(* decoded to the end unseen, and live callers do not fill the queue.      *)
ApiSafety ==
  /\ TypeOK
  /\ ServerMatchesConfig
  /\ OrphansAreAborted
  /\ FullOnlyOfAbandoned

(* Whoever leaves and whatever is stopped, connections, jobs and servers   *)
(* end.                                                                    *)
ApiComesToRest ==
  StoppedServerEnds /\ RequestsEnd
=============================================================================
