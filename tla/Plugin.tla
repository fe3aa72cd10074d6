------------------------------- MODULE Plugin -------------------------------
(***************************************************************************)
(* The Massa Station plugin: the goroutines that share the ServerManager.  *)
(*   main     API.Start: syncs the configuration, starts the others,       *)
(*            serves requests and shuts everything down (api/api.go)       *)
(*   starter  the goroutine of API.Start that launches the server and then *)
(*            the poller                                                   *)
(*   poller   the NetworkManager: every three seconds it asks Station for  *)
(*            its network and, when that is not the configured one, stops  *)
(*            the server, saves the configuration and starts the server    *)
(*            again (station/networkManager.go)                            *)
(*   handlers of PUT /api/settings, each followed by a goroutine that      *)
(*            starts the server (api/server/handlers.go)                   *)
(* The ServerConfigManager hands out pointers to its cached configuration, *)
(* which the handlers write to and the poller reads without a lock; a save *)
(* replaces the cached one by a new one.  So configurations are objects of *)
(* a heap here.                                                            *)
(*                                                                         *)
(* The name of the network, which is only displayed, is left out.          *)
(***************************************************************************)
EXTENDS ServerManager, Integers, FiniteSets

CONSTANTS
  Handlers,
  Urls,          \* node URLs
  Ports,         \* stands for everything else the configuration holds
  Settings,      \* what the requests ask for: a URL, and perhaps the rest
  FirstConfigs,  \* what the configuration file may hold at the start
  FirstStations, \* what Station may answer at the start
  Objects,       \* addresses of the heap, more than there can be pointers
  AllowOffline,  \* allow_offline of the configuration
  MaxChanges,    \* bound: changes of Station's network
  MaxUpdates,    \* bound: requests that change the settings
  MaxFaults      \* bound: crashes, failing launches, saves and fetches

Goroutines == {"main", "starter", "poller"} \cup Handlers

ASSUME PluginAssumption ==
  /\ Callers = Goroutines /\ Handlers \cap {"main", "starter", "poller"} = {}
  /\ None \notin Urls \cup Ports \cup Objects
  /\ Configs = [url : Urls \cup {None}, port : Ports]
  /\ Settings \subseteq [url : Urls, port : Ports \cup {None}]
  /\ FirstConfigs \subseteq [url : Urls, port : Ports]
  /\ FirstStations \subseteq Urls \cup {None}
  /\ AllowOffline \in BOOLEAN
  /\ MaxChanges \in Nat /\ MaxUpdates \in Nat /\ MaxFaults \in Nat
  /\ IsFiniteSet(Handlers)
  /\ \A S \in SUBSET Objects :
       IsFiniteSet(S) /\ Cardinality(S) <= Cardinality(Handlers) + 2 => S # Objects

VARIABLES
  heap,       \* the configuration objects
  cached,     \* serverConfig of the ServerConfigManager
  file,       \* the configuration file
  unsaved,    \* history: a request changed the cached configuration and failed
  station,    \* the URL of Station's network; None: the network is down
  changes,
  pc,         \* where each goroutine is
  conf,       \* its pointer to a configuration
  net,        \* the URL it fetched from Station
  starters,   \* the goroutines of handlers that have yet to call Start
  polling,    \* isRunning of the NetworkManager
  stopChan,   \* TRUE: closed
  updates, faults

configVars  == <<heap, cached, file, unsaved>>
stationVars == <<station, changes>>
localVars   == <<pc, conf, net>>
counters    == <<updates, faults>>
vars == <<managerVars, configVars, stationVars, localVars, starters, polling, stopChan, counters>>

TypeOK ==
  /\ ManagerTypeOK
  /\ heap \in UNION {[S -> Configs] : S \in SUBSET Objects}
  /\ cached \in DOMAIN heap \cup {None}
  /\ file \in Configs /\ unsaved \in BOOLEAN
  /\ station \in Urls \cup {None} /\ changes \in 0 .. MaxChanges
  /\ pc \in [Goroutines ->
       {"off", "boot", "idle", "config", "compare", "mutate", "stop", "stopping", "save",
        "start", "down", "reset", "launch", "poll", "serving", "shutdown", "exited"}]
  /\ conf \in [Goroutines -> DOMAIN heap \cup {None}]
  /\ net \in [Goroutines -> Urls \cup {None}]
  /\ starters \in 0 .. MaxUpdates
  /\ polling \in BOOLEAN /\ stopChan \in BOOLEAN
  /\ updates \in 0 .. MaxUpdates /\ faults \in 0 .. MaxFaults

Init ==
  /\ ManagerInit
  /\ file \in FirstConfigs
  /\ heap = <<>>
  /\ cached = None /\ unsaved = FALSE
  /\ station \in FirstStations /\ changes = 0
  /\ pc = [g \in Goroutines |-> IF g = "main" THEN "boot"
                                ELSE IF g \in Handlers THEN "idle" ELSE "off"]
  /\ conf = [g \in Goroutines |-> None]
  /\ net = [g \in Goroutines |-> None]
  /\ starters = 0
  /\ polling = FALSE /\ stopChan = FALSE
  /\ updates = 0 /\ faults = 0

-----------------------------------------------------------------------------
\* The plugin's process is there.
Alive == pc["main"] # "exited"

Goto(g, label) == pc' = [pc EXCEPT ![g] = label]

\* The end of a function of g: its local variables go.
Forget(g) == conf' = [conf EXCEPT ![g] = None] /\ net' = [net EXCEPT ![g] = None]

\* What is left of the heap h in the next state: the objects with a pointer.
Collected(h) == [o \in DOMAIN h \cap ({cached'} \cup {conf'[g] : g \in Goroutines}) |-> h[o]]

\* g returns and has not saved any configuration: what a handler wrote to the
\* cached one stays there.
Return(g, label) ==
  /\ Goto(g, label) /\ Forget(g)
  /\ unsaved' = (unsaved \/ (g \in Handlers /\ conf[g] = cached))
  /\ UNCHANGED <<cached, file>>
  /\ heap' = Collected(heap)

Fault == faults < MaxFaults /\ faults' = faults + 1 /\ UNCHANGED updates

-----------------------------------------------------------------------------
(* ServerConfigManager.                                                    *)

\* An object nobody points to.
Fresh == CHOOSE o \in Objects : o # cached /\ \A g \in Goroutines : o # conf[g]

\* refreshServerConfig, of a file that can be read: loading also asks the node for
\* its status; when it does not answer, an offline configuration loses the URL.
Refresh(f) ==
  \E c \in {f} \cup (IF AllowOffline THEN {[f EXCEPT !.url = None]} ELSE {}) :
    heap' = Collected([o \in DOMAIN heap \cup {Fresh} |-> IF o = Fresh THEN c ELSE heap[o]])

\* g gets the pointer to the cached configuration.
GetServerConfig(g) ==
  /\ cached' = IF cached = None THEN Fresh ELSE cached
  /\ conf' = [conf EXCEPT ![g] = cached']
  /\ IF cached = None THEN Refresh(file) ELSE UNCHANGED heap
  /\ UNCHANGED <<file, unsaved>>

\* g saves c, its last use of its pointer.
SaveServerConfig(g, c) ==
  file' = c /\ unsaved' = FALSE /\ Forget(g) /\ cached' = Fresh /\ Refresh(c)

-----------------------------------------------------------------------------
(* SyncServerConfNetworkWithStation, by main at start and by the poller.   *)

\* Mutant: the error of the network that is down is only reset after a restart.
SyncedQuietly(g) == IF g = "main" THEN "launch" ELSE "idle"

Synced(g) == IF g = "main" THEN "launch" ELSE "reset"
NotSynced(g) == IF g = "main" THEN "launch" ELSE "idle"

SyncFetches(g) ==
  /\ Alive /\ pc[g] = IF g = "main" THEN "boot" ELSE "idle"
  /\ \/ /\ station # None
        /\ net' = [net EXCEPT ![g] = station]
        /\ Goto(g, "config")
        /\ UNCHANGED counters
     \/ /\ station = None
        /\ Goto(g, IF g = "main" THEN "launch" ELSE "down")
        /\ UNCHANGED <<net, counters>>
     \/ Fault /\ Goto(g, NotSynced(g)) /\ UNCHANGED net
  /\ UNCHANGED <<managerVars, configVars, stationVars, conf, starters, polling, stopChan>>

SyncGetsConfig(g) ==
  /\ Alive /\ pc[g] = "config"
  /\ GetServerConfig(g)
  /\ Goto(g, "compare")
  /\ UNCHANGED <<managerVars, stationVars, net, starters, polling, stopChan, counters>>

SyncCompares(g) ==
  /\ Alive /\ g \in {"main", "poller"} /\ pc[g] = "compare"
  /\ IF heap[conf[g]].url = net[g]
     THEN Return(g, Synced(g))
     ELSE /\ Goto(g, IF g = "main" THEN "save" ELSE "stop")
          /\ UNCHANGED <<conf, net, configVars>>
  /\ UNCHANGED <<managerVars, stationVars, starters, polling, stopChan, counters>>

SyncSaves(g) ==
  /\ Alive /\ g \in {"main", "poller"} /\ pc[g] = "save"
  /\ \/ /\ SaveServerConfig(g, [heap[conf[g]] EXCEPT !.url = net[g]])
        /\ Goto(g, IF g = "main" THEN "launch" ELSE "start")
        /\ UNCHANGED counters
     \/ Fault /\ Return(g, NotSynced(g))
  /\ UNCHANGED <<managerVars, stationVars, starters, polling, stopChan>>

-----------------------------------------------------------------------------
(* Stop, by the poller and the handlers.                                   *)

\* Mutant: ErrServerNotRunning ends the synchronization like any other error.
CallsStopStrictly(g) ==
  /\ Alive /\ pc[g] = "stop"
  /\ \/ StopSignals(g) /\ Goto(g, "stopping") /\ UNCHANGED <<conf, net, configVars>>
     \/ (StopRefused \/ StopFails) /\ Return(g, "idle")
  /\ UNCHANGED <<stationVars, starters, polling, stopChan, counters>>

CallsStop(g) ==
  /\ Alive /\ pc[g] = "stop"
  /\ \/ StopSignals(g) /\ Goto(g, "stopping") /\ UNCHANGED <<conf, net, configVars>>
     \/ StopRefused /\ Goto(g, "save") /\ UNCHANGED <<conf, net, configVars>>
     \/ StopFails /\ Return(g, "idle")
  /\ UNCHANGED <<stationVars, starters, polling, stopChan, counters>>

\* Mutant: the wait has no timeout.
StopReturnsWhenStopped(g) ==
  /\ Alive /\ pc[g] = "stopping"
  /\ IF isRunning THEN UNCHANGED vars
     ELSE /\ StopEnds(g)
          /\ Goto(g, IF g = "main" THEN "exited" ELSE "save")
          /\ UNCHANGED <<configVars, stationVars, conf, net, starters, polling, stopChan, counters>>

StopReturns(g) ==
  /\ Alive /\ pc[g] = "stopping" /\ StopEnds(g)
  /\ Goto(g, IF g = "main" THEN "exited" ELSE "save")
  /\ UNCHANGED <<configVars, stationVars, conf, net, starters, polling, stopChan, counters>>

-----------------------------------------------------------------------------
(* The poller.                                                             *)

PollStarts ==
  /\ Alive /\ pc["poller"] = "start"
  /\ \/ Starts /\ Goto("poller", "reset") /\ UNCHANGED counters
     \/ StartRefused /\ Goto("poller", "idle") /\ UNCHANGED counters
     \/ Fault /\ StartFails /\ Goto("poller", "idle")
  /\ UNCHANGED <<configVars, stationVars, conf, net, starters, polling, stopChan>>

PollEnds ==
  /\ Alive
  /\ \/ pc["poller"] = "reset" /\ SetLastErrorIfEqual("down", "none")
     \/ pc["poller"] = "down" /\ SetLastError("down")
  /\ Goto("poller", "idle")
  /\ UNCHANGED <<configVars, stationVars, conf, net, starters, polling, stopChan, counters>>

\* The tick and the closed channel may be there at the same time: the poller
\* takes either.
PollerLeaves ==
  /\ Alive /\ pc["poller"] = "idle" /\ stopChan
  /\ Goto("poller", "off")
  /\ UNCHANGED <<managerVars, configVars, stationVars, conf, net, starters, polling, stopChan,
                 counters>>

Poll ==
  \/ SyncFetches("poller") \/ SyncGetsConfig("poller") \/ SyncCompares("poller")
  \/ CallsStop("poller") \/ StopReturns("poller") \/ SyncSaves("poller")
  \/ PollStarts \/ PollEnds

-----------------------------------------------------------------------------
(* The handlers of settings, and their goroutines.                         *)

Receives(h) ==
  /\ pc["main"] = "serving" /\ pc[h] = "idle" /\ updates < MaxUpdates
  /\ updates' = updates + 1 /\ UNCHANGED faults
  /\ GetServerConfig(h)
  /\ Goto(h, "mutate")
  /\ UNCHANGED <<managerVars, stationVars, net, starters, polling, stopChan>>

\* A body without a URL is refused before the handler is called.
Mutates(h) ==
  /\ Alive /\ pc[h] = "mutate"
  /\ \E s \in Settings :
       heap' = [heap EXCEPT ![conf[h]] =
                  [url |-> s.url, port |-> IF s.port = None THEN @.port ELSE s.port]]
  /\ Goto(h, "stop")
  /\ UNCHANGED <<managerVars, cached, file, unsaved, stationVars, conf, net, starters, polling,
                 stopChan, counters>>

Saves(h) ==
  /\ Alive /\ pc[h] = "save"
  /\ \/ /\ SaveServerConfig(h, heap[conf[h]]) /\ Goto(h, "idle")
        /\ starters' = starters + 1
        /\ UNCHANGED counters
     \/ Fault /\ Return(h, "idle") /\ UNCHANGED starters
  /\ UNCHANGED <<managerVars, stationVars, polling, stopChan>>

Handle(h) == Mutates(h) \/ CallsStop(h) \/ StopReturns(h) \/ Saves(h)

\* Mutant: a goroutine is started that no request asked for.
HandlerStartsAgain ==
  /\ Alive /\ Starts
  /\ starters' = starters - 1
  /\ UNCHANGED <<configVars, stationVars, localVars, polling, stopChan, counters>>

HandlerStarts ==
  /\ Alive /\ starters > 0
  /\ starters' = starters - 1
  /\ \/ (Starts \/ StartRefused) /\ UNCHANGED counters
     \/ Fault /\ StartFails
  /\ UNCHANGED <<configVars, stationVars, localVars, polling, stopChan>>

\* A request for the settings or the status, when nothing is cached yet.
Reads ==
  /\ pc["main"] = "serving" /\ cached = None
  /\ cached' = Fresh /\ UNCHANGED <<file, unsaved, localVars>> /\ Refresh(file)
  /\ UNCHANGED <<managerVars, stationVars, starters, polling, stopChan, counters>>

-----------------------------------------------------------------------------
(* API.Start.                                                              *)

Launches ==
  /\ pc["main"] = "launch"
  /\ pc' = [pc EXCEPT !["main"] = "serving", !["starter"] = "start"]
  /\ UNCHANGED <<managerVars, configVars, stationVars, conf, net, starters, polling, stopChan,
                 counters>>

FirstStart ==
  /\ Alive /\ pc["starter"] = "start"
  /\ \/ (Starts \/ StartRefused) /\ Goto("starter", "poll") /\ UNCHANGED counters
     \/ Fault /\ StartFails /\ Goto("starter", "off")
  /\ UNCHANGED <<configVars, stationVars, conf, net, starters, polling, stopChan>>

\* NetworkManager.Start.
StartsPolling ==
  /\ Alive /\ pc["starter"] = "poll"
  /\ polling' = TRUE
  /\ pc' = [pc EXCEPT !["starter"] = "off", !["poller"] = "idle"]
  /\ UNCHANGED <<managerVars, configVars, stationVars, conf, net, starters, stopChan, counters>>

\* Serve returns when the requests are answered; then NetworkManager.Stop.
ShutsDown ==
  /\ pc["main"] = "serving" /\ \A h \in Handlers : pc[h] = "idle"
  /\ polling' = FALSE
  /\ stopChan' = (stopChan \/ polling)
  /\ Goto("main", "shutdown")
  /\ UNCHANGED <<managerVars, configVars, stationVars, conf, net, starters, counters>>

Exits ==
  /\ pc["main"] = "shutdown"
  /\ \/ StopSignals("main") /\ Goto("main", "stopping")
     \/ (StopRefused \/ StopFails) /\ Goto("main", "exited")
  /\ UNCHANGED <<configVars, stationVars, conf, net, starters, polling, stopChan, counters>>

Main ==
  \/ SyncFetches("main") \/ SyncGetsConfig("main") \/ SyncCompares("main") \/ SyncSaves("main")
  \/ Launches \/ Exits \/ StopReturns("main")

Starter == FirstStart \/ StartsPolling

-----------------------------------------------------------------------------
(* The child process, its monitor, and Station.                            *)

Monitor ==
  /\ Alive
  /\ MonitorWakes \/ MonitorReports \/ MonitorClears
  /\ UNCHANGED <<configVars, stationVars, localVars, starters, polling, stopChan, counters>>

Loads ==
  /\ ServerLoads(file)
  /\ UNCHANGED <<configVars, stationVars, localVars, starters, polling, stopChan, counters>>

Obeys ==
  /\ signal # "none" /\ ServerExits
  /\ UNCHANGED <<configVars, stationVars, localVars, starters, polling, stopChan, counters>>

Dies == signal = "kill" /\ Obeys

Crashes ==
  /\ signal = "none" /\ ServerExits /\ Fault
  /\ UNCHANGED <<configVars, stationVars, localVars, starters, polling, stopChan>>

StationChanges ==
  /\ changes < MaxChanges /\ changes' = changes + 1
  /\ station' \in (Urls \cup {None}) \ {station}
  /\ UNCHANGED <<managerVars, configVars, localVars, starters, polling, stopChan, counters>>

\* Nothing is left to do.
Over == ~Alive /\ server \in {"none", "exited", "up"} /\ UNCHANGED vars

Next ==
  \/ Main \/ ShutsDown \/ Starter
  \/ Poll \/ PollerLeaves
  \/ \E h \in Handlers : Receives(h) \/ Handle(h)
  \/ HandlerStarts \/ Reads
  \/ Monitor \/ Loads \/ Obeys \/ Crashes
  \/ StationChanges
  \/ Over

\* The goroutines go on, and each gets a mutex it waits for (Go's mutex hands
\* itself over to a goroutine that waits too long).  A process that was killed
\* exits.  Nothing is assumed of requests, of Station, of the shutdown, and of a
\* server that was only asked to terminate.
Fairness ==
  /\ SF_vars(Main) /\ SF_vars(Starter) /\ SF_vars(Poll) /\ WF_vars(PollerLeaves)
  /\ \A h \in Handlers : SF_vars(Handle(h))
  /\ SF_vars(HandlerStarts) /\ SF_vars(Monitor)
  /\ WF_vars(Loads) /\ WF_vars(Dies)

Spec == Init /\ [][Next]_vars
FairSpec == Spec /\ Fairness

-----------------------------------------------------------------------------
(* Properties.                                                             *)

\* A child that has not been waited for is known to the manager, and a goroutine
\* is about to notice its exit: no child is ever forgotten, and isRunning does
\* not stay TRUE without one.
ServerTracked ==
  /\ server # "none" <=> monitor = "waiting"
  /\ Alive => (isRunning <=> monitor # "none")

\* A server is launched only when the one before has gone: two of them would
\* fight for the port and for the disk cache.
OneServer ==
  [][ server' = "loading" /\ server # "loading" => server = "none" /\ monitor = "none" ]_vars

\* Every request for new settings is answered, though Stop waits with the mutex
\* held that the monitor, the poller and the other requests need.
RequestsAnswered == \A h \in Handlers : pc[h] # "idle" ~> pc[h] = "idle"

\* Wherever Stop was called from, the server that was asked to terminate ends,
\* though it may ignore the signal, and Stop may be called while it starts.
StopObeyed == signal # "none" ~> signal = "none"

Settled == Alive /\ station # None /\ pc["poller"] # "off"

\* Once Station keeps its network and the poller runs, the cached configuration
\* comes to hold that network for good, whatever the requests write to it and
\* whatever fails, and so does the file.  The file may keep another one only when a
\* request wrote to the cached configuration and failed: the poller, which compares
\* the cached one, then has nothing to save.
ConfigFollowsStation ==
  <>[]Settled => <>[](/\ cached # None /\ heap[cached].url = station
                      /\ file.url = station \/ unsaved)

\* Once Station's network is up, the error that says it is down goes away.
DownErrorGoes == <>[]Settled => <>[](lastError # "down")

\* Station's network ends up being the one the server uses.
ServerFollowsStation ==
  <>[]Settled => <>[](server = "up" /\ used.url = station)
=============================================================================
