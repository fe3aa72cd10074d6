---------------------------- MODULE PluginProofs ----------------------------
(***************************************************************************)
(* Theorems about the server process of the plugin and about the pointers  *)
(* to its configuration, for any number of handlers, requests, failures    *)
(* and changes of Station's network; and about the settings that the       *)
(* configuration consists of.                                              *)
(***************************************************************************)
EXTENDS Plugin, Settings, FiniteSetTheorems, TLAPS

-----------------------------------------------------------------------------
(* The steps of the ServerManager.  Start and the monitor run only while   *)
(* the plugin is alive; when it is not, nothing is promised of isRunning.  *)

\* A launch finds no server and no monitor.
LaunchOK == server' = "loading" /\ server # "loading" => server = "none" /\ monitor = "none"

\* What each step of the plugin keeps.
Keeps == ServerTracked' /\ LaunchOK

LEMMA StartsOK ==
  ASSUME ServerTracked, Alive, Starts
  PROVE  Keeps
BY DEF Starts, ServerTracked, Keeps, LaunchOK

LEMMA MonitorOK ==
  ASSUME ServerTracked, Alive, Alive', MonitorWakes \/ MonitorReports \/ MonitorClears
  PROVE  Keeps
BY DEF MonitorWakes, MonitorReports, MonitorClears, ServerTracked, Keeps, LaunchOK

LEMMA ServerOK ==
  ASSUME ServerTracked, Alive' <=> Alive, NEW f, ServerLoads(f) \/ ServerExits
  PROVE  Keeps
BY DEF ServerLoads, ServerExits, ServerTracked, Keeps, LaunchOK

LEMMA QuietOK ==
  ASSUME ServerTracked, Alive' => Alive, UNCHANGED <<isRunning, server, monitor>>
  PROVE  Keeps
BY DEF ServerTracked, Keeps, LaunchOK

\* The methods that leave the process alone.
LEMMA MethodsOK ==
  ASSUME ServerTracked, Alive' => Alive,
         NEW c, NEW e, NEW f,
         \/ StartRefused \/ StartFails
         \/ StopRefused \/ StopFails \/ StopSignals(c) \/ StopEnds(c)
         \/ SetLastError(e) \/ SetLastErrorIfEqual(f, e)
         \/ UNCHANGED managerVars
  PROVE  Keeps
<1>1. UNCHANGED <<isRunning, server, monitor>>
  BY DEF StartRefused, StartFails, StopRefused, StopFails, StopSignals, StopEnds,
         SetLastError, SetLastErrorIfEqual, managerVars
<1>. QED BY <1>1, QuietOK

-----------------------------------------------------------------------------
(* The steps of the plugin.                                                *)

LEMMA SyncKeeps ==
  ASSUME ServerTracked, NEW g,
         SyncFetches(g) \/ SyncGetsConfig(g) \/ SyncCompares(g) \/ SyncSaves(g)
  PROVE  Keeps
BY MethodsOK DEF SyncFetches, SyncGetsConfig, SyncCompares, SyncSaves, Alive

LEMMA StopKeeps ==
  ASSUME ServerTracked, NEW g, CallsStop(g) \/ StopReturns(g)
  PROVE  Keeps
BY MethodsOK DEF CallsStop, StopReturns, Alive

LEMMA StartKeeps ==
  ASSUME ServerTracked, PollStarts \/ HandlerStarts \/ FirstStart
  PROVE  Keeps
<1>1. Alive /\ (Starts \/ StartRefused \/ StartFails)
  BY DEF PollStarts, HandlerStarts, FirstStart
<1>. QED BY <1>1, StartsOK, MethodsOK

LEMMA MainKeeps ==
  ASSUME ServerTracked, Main \/ ShutsDown \/ Starter \/ HandlerStarts \/ Reads
  PROVE  Keeps
<1>1. CASE Launches \/ StartsPolling \/ ShutsDown \/ Reads
  BY <1>1, MethodsOK DEF Launches, StartsPolling, ShutsDown, Reads, Alive
<1>2. CASE Exits
  BY <1>2, MethodsOK DEF Exits, Alive
<1>. QED BY <1>1, <1>2, SyncKeeps, StopKeeps, StartKeeps DEF Main, Starter

LEMMA PollKeeps ==
  ASSUME ServerTracked, Poll \/ PollerLeaves
  PROVE  Keeps
<1>1. CASE PollEnds \/ PollerLeaves
  BY <1>1, MethodsOK DEF PollEnds, PollerLeaves, Alive
<1>. QED BY <1>1, SyncKeeps, StopKeeps, StartKeeps DEF Poll

LEMMA HandlerKeeps ==
  ASSUME ServerTracked, NEW h, Receives(h) \/ Handle(h)
  PROVE  Keeps
<1>1. CASE Receives(h) \/ Mutates(h) \/ Saves(h)
  BY <1>1, MethodsOK DEF Receives, Mutates, Saves, Alive
<1>. QED BY <1>1, StopKeeps DEF Handle

LEMMA ProcessKeeps ==
  ASSUME ServerTracked, Monitor \/ Loads \/ Obeys \/ Crashes \/ StationChanges \/ Over
  PROVE  Keeps
<1>1. CASE Monitor
  BY <1>1, MonitorOK DEF Monitor, localVars, Alive
<1>2. CASE Loads \/ Obeys \/ Crashes
  BY <1>2, ServerOK DEF Loads, Obeys, Crashes, localVars, Alive
<1>3. CASE StationChanges \/ Over
  BY <1>3, MethodsOK DEF StationChanges, Over, vars, localVars, Alive
<1>. QED BY <1>1, <1>2, <1>3

LEMMA StepKeeps ==
  ASSUME ServerTracked, [Next]_vars
  PROVE  Keeps
<1>1. CASE UNCHANGED vars
  BY <1>1, MethodsOK DEF vars, localVars, Alive
<1>. QED BY <1>1, MainKeeps, PollKeeps, HandlerKeeps, ProcessKeeps DEF Next

-----------------------------------------------------------------------------
(* The theorems.                                                           *)

\* As long as the plugin lives, isRunning is TRUE exactly while a goroutine waits
\* for a child or is about to record its exit, and no child is forgotten,
\* whichever of the callers starts and stops it and whatever fails.
THEOREM ServerAlwaysTracked == Spec => []ServerTracked
<1>1. Init => ServerTracked
  BY DEF Init, ManagerInit, ServerTracked
<1>2. ServerTracked /\ [Next]_vars => ServerTracked'
  BY StepKeeps DEF Keeps
<1>. QED BY <1>1, <1>2, PTL DEF Spec

\* Start never launches a server next to another one, nor before the exit of the
\* one before has been recorded.
THEOREM NeverTwoServers == Spec => OneServer
<1>1. ServerTracked /\ [Next]_vars
        => [server' = "loading" /\ server # "loading"
              => server = "none" /\ monitor = "none"]_vars
  BY StepKeeps DEF Keeps, LaunchOK
<1>. QED BY <1>1, ServerAlwaysTracked, PTL DEF Spec, OneServer

-----------------------------------------------------------------------------
(* The ServerManager's state has its type.                                 *)

LEMMA ManagerMethodsType ==
  ASSUME ManagerTypeOK, NEW c \in Callers, NEW f \in Configs,
         NEW old, NEW new \in {"none", "down", "exited", "not_started"},
         \/ Starts \/ StartRefused \/ StartFails
         \/ StopRefused \/ StopFails \/ StopSignals(c) \/ StopEnds(c)
         \/ SetLastError(new) \/ SetLastErrorIfEqual(old, new)
         \/ ServerLoads(f) \/ ServerExits
         \/ MonitorWakes \/ MonitorReports \/ MonitorClears
         \/ UNCHANGED managerVars
  PROVE  ManagerTypeOK'
<1>1. CASE Starts \/ StartRefused \/ StartFails
  BY <1>1 DEF ManagerTypeOK, Starts, StartRefused, StartFails, managerVars
<1>2. CASE StopRefused \/ StopFails \/ StopSignals(c) \/ StopEnds(c)
  BY <1>2 DEF ManagerTypeOK, StopRefused, StopFails, StopSignals, StopEnds, managerVars
<1>3. CASE SetLastError(new) \/ SetLastErrorIfEqual(old, new)
  BY <1>3 DEF ManagerTypeOK, SetLastError, SetLastErrorIfEqual
<1>4. CASE ServerLoads(f) \/ ServerExits \/ MonitorWakes \/ MonitorReports \/ MonitorClears
  BY <1>4 DEF ManagerTypeOK, ServerLoads, ServerExits, MonitorWakes, MonitorReports, MonitorClears
<1>5. CASE UNCHANGED managerVars
  BY <1>5 DEF ManagerTypeOK, managerVars
<1>. QED BY <1>1, <1>2, <1>3, <1>4, <1>5

LEMMA ManagerStep ==
  ASSUME ManagerTypeOK, file \in Configs, [Next]_vars
  PROVE  ManagerTypeOK'
<1>1. Goroutines = Callers /\ "main" \in Callers /\ "poller" \in Callers
  BY PluginAssumption DEF Goroutines
<1>2. CASE Main \/ ShutsDown \/ Starter
  BY <1>1, <1>2, ManagerMethodsType
     DEF Main, Starter, SyncFetches, SyncGetsConfig, SyncCompares, SyncSaves, Launches, Exits,
         StopReturns, ShutsDown, FirstStart, StartsPolling
<1>3. CASE Poll \/ PollerLeaves
  BY <1>1, <1>3, ManagerMethodsType
     DEF Poll, SyncFetches, SyncGetsConfig, SyncCompares, SyncSaves, CallsStop, StopReturns,
         PollStarts, PollEnds, PollerLeaves
<1>4. ASSUME NEW h \in Handlers, Receives(h) \/ Handle(h) PROVE ManagerTypeOK'
  <2>1. h \in Callers
    BY <1>1 DEF Goroutines
  <2>. QED BY <1>1, <1>4, <2>1, ManagerMethodsType
           DEF Receives, Handle, Mutates, CallsStop, StopReturns, Saves
<1>5. CASE HandlerStarts \/ Reads
  BY <1>1, <1>5, ManagerMethodsType DEF HandlerStarts, Reads
<1>6. CASE Monitor \/ Loads \/ Obeys \/ Crashes
  BY <1>1, <1>6, ManagerMethodsType DEF Monitor, Loads, Obeys, Crashes
<1>7. CASE StationChanges \/ Over \/ UNCHANGED vars
  BY <1>1, <1>7, ManagerMethodsType DEF StationChanges, Over, vars
<1>. QED BY <1>2, <1>3, <1>4, <1>5, <1>6, <1>7 DEF Next

-----------------------------------------------------------------------------
(* The configurations and the pointers to them.                            *)

HeapOK(h) ==
  /\ h = [o \in DOMAIN h |-> h[o]]
  /\ DOMAIN h \subseteq Objects
  /\ \A o \in DOMAIN h : h[o] \in Configs

PointersOK ==
  /\ HeapOK(heap)
  /\ cached \in DOMAIN heap \cup {None}
  /\ file \in Configs
  /\ conf \in [Goroutines -> DOMAIN heap \cup {None}]
  /\ net \in [Goroutines -> Urls \cup {None}]

Labels ==
  {"off", "boot", "idle", "config", "compare", "mutate", "stop", "stopping", "save",
   "start", "down", "reset", "launch", "poll", "serving", "shutdown", "exited"}

\* Where g works with a configuration.
Holding(g) ==
  {"compare", "mutate", "stop", "save"} \cup (IF g = "main" THEN {} ELSE {"stopping"})

\* A goroutine has a pointer exactly where it works with a configuration.
HeldWhereUsed == \A g \in Goroutines : conf[g] # None <=> pc[g] \in Holding(g)

\* While main synchronizes the configuration, it is the only goroutine; neither
\* main nor the starter does what the poller and the handlers do.
MainAlone ==
  /\ pc["main"] \in {"boot", "config", "compare", "save", "launch"}
       => /\ pc["poller"] = "off" /\ pc["starter"] = "off"
          /\ \A h \in Handlers : pc[h] = "idle"
  /\ pc["main"] \in {"boot", "config", "compare", "save", "launch", "serving", "shutdown",
                     "stopping", "exited"}
  /\ pc["starter"] \in {"off", "start", "poll"}
  /\ pc["starter"] # "off" => pc["poller"] = "off"

\* Every goroutine that calls Start for a handler belongs to a request.
Busy == {h \in Handlers : pc[h] # "idle"}
StartersOK == starters \in Nat /\ starters + Cardinality(Busy) <= updates

RestOK ==
  /\ pc \in [Goroutines -> Labels]
  /\ station \in Urls \cup {None} /\ changes \in 0 .. MaxChanges
  /\ polling \in BOOLEAN /\ stopChan \in BOOLEAN
  /\ updates \in 0 .. MaxUpdates /\ faults \in 0 .. MaxFaults

PInv ==
  ManagerTypeOK /\ PointersOK /\ RestOK /\ HeldWhereUsed /\ MainAlone /\ StartersOK

LEMMA BusyFinite ==
  /\ IsFiniteSet(Busy) /\ Cardinality(Busy) \in Nat
  /\ IsFiniteSet(Busy') /\ Cardinality(Busy') \in Nat
<1>1. Busy \subseteq Handlers /\ Busy' \subseteq Handlers /\ IsFiniteSet(Handlers)
  BY PluginAssumption DEF Busy
<1>. QED BY <1>1, FS_Subset, FS_CardinalityType

LEMMA HeapType ==
  ASSUME NEW h
  PROVE  HeapOK(h) <=> h \in UNION {[S -> Configs] : S \in SUBSET Objects}
<1>1. ASSUME HeapOK(h) PROVE h \in [DOMAIN h -> Configs] /\ DOMAIN h \in SUBSET Objects
  BY <1>1 DEF HeapOK
<1>2. ASSUME NEW S \in SUBSET Objects, h \in [S -> Configs] PROVE HeapOK(h)
  BY <1>2 DEF HeapOK
<1>. QED BY <1>1, <1>2

LEMMA PInvType == PInv /\ unsaved \in BOOLEAN => TypeOK
<1>. SUFFICES ASSUME PInv, unsaved \in BOOLEAN PROVE TypeOK
  OBVIOUS
<1>1. starters \in 0 .. MaxUpdates
  BY BusyFinite, PluginAssumption DEF PInv, StartersOK, RestOK
<1>. QED BY <1>1, HeapType DEF PInv, PointersOK, RestOK, TypeOK, Labels

\* There is room for a new object: the pointers are the cached one, one per handler,
\* and that of main or the poller, which never have one at the same time.
LEMMA FreshExists ==
  ASSUME PInv
  PROVE  /\ Fresh \in Objects
         /\ Fresh # cached /\ \A g \in Goroutines : Fresh # conf[g]
<1> DEFINE H == {conf[h] : h \in Handlers}
           p == IF conf["main"] # None THEN conf["main"] ELSE conf["poller"]
           S == ((H \cup {cached}) \cup {p}) \cap Objects
<1>1. IsFiniteSet(H) /\ Cardinality(H) <= Cardinality(Handlers)
  <2> DEFINE f == [h \in Handlers |-> conf[h]]
  <2>1. f \in Surjection(Handlers, H) /\ IsFiniteSet(Handlers)
    BY PluginAssumption DEF Surjection
  <2> HIDE DEF f, H
  <2>. QED BY <2>1, FS_Surjection
<1>2. Cardinality(H) \in Nat /\ Cardinality(Handlers) \in Nat
  BY <1>1, PluginAssumption, FS_CardinalityType
<1> HIDE DEF H, p
<1>3. /\ IsFiniteSet((H \cup {cached}) \cup {p})
      /\ Cardinality((H \cup {cached}) \cup {p}) <= Cardinality(Handlers) + 2
  <2>1. /\ IsFiniteSet(H \cup {cached})
        /\ Cardinality(H \cup {cached}) \in Nat
        /\ Cardinality(H \cup {cached}) <= Cardinality(H) + 1
    <3>1. /\ IsFiniteSet(H \cup {cached})
          /\ Cardinality(H \cup {cached}) = IF cached \in H THEN Cardinality(H)
                                            ELSE Cardinality(H) + 1
      BY <1>1, FS_AddElement
    <3>. QED BY <1>2, <3>1
  <2>2. /\ IsFiniteSet((H \cup {cached}) \cup {p})
        /\ Cardinality((H \cup {cached}) \cup {p}) \in Nat
        /\ Cardinality((H \cup {cached}) \cup {p}) <= Cardinality(H \cup {cached}) + 1
    <3>1. /\ IsFiniteSet((H \cup {cached}) \cup {p})
          /\ Cardinality((H \cup {cached}) \cup {p})
               = IF p \in H \cup {cached} THEN Cardinality(H \cup {cached})
                 ELSE Cardinality(H \cup {cached}) + 1
      BY <2>1, FS_AddElement
    <3>. QED BY <2>1, <3>1
  <2>. QED BY <1>1, <1>2, <2>1, <2>2
<1>4. IsFiniteSet(S) /\ Cardinality(S) <= Cardinality(Handlers) + 2
  <2>1. /\ IsFiniteSet(S) /\ Cardinality(S) \in Nat
        /\ Cardinality(S) <= Cardinality((H \cup {cached}) \cup {p})
        /\ Cardinality((H \cup {cached}) \cup {p}) \in Nat
    BY <1>3, FS_Subset, FS_CardinalityType
  <2> HIDE DEF S
  <2>. QED BY <1>2, <1>3, <2>1
<1>5. S # Objects
  BY <1>4, PluginAssumption
<1>6. PICK o \in Objects : o \notin S
  BY <1>5
<1>7. \A g \in Goroutines : conf[g] \in H \cup {None, p}
  <2>1. conf["starter"] = None
    BY DEF PInv, MainAlone, HeldWhereUsed, Goroutines, Holding
  <2>2. conf["main"] = None \/ conf["poller"] = None
    <3>1. /\ "main" \in Goroutines /\ "poller" \in Goroutines /\ pc["main"] \in Labels
          /\ conf["main"] # None => pc["main"] \in {"compare", "mutate", "stop", "save"}
          /\ conf["poller"] # None => pc["poller"] # "off"
      BY DEF PInv, HeldWhereUsed, Goroutines, Holding, RestOK
    <3>. QED BY <3>1 DEF PInv, MainAlone
  <2>. QED BY <2>1, <2>2 DEF Goroutines, H, p
<1>8. o # None
  BY PluginAssumption
<1>9. o # cached /\ \A g \in Goroutines : o # conf[g]
  BY <1>6, <1>7, <1>8
<1>. QED BY <1>9 DEF Fresh

LEMMA CollectedOK ==
  ASSUME NEW h, HeapOK(h), heap' = Collected(h), cached' \in DOMAIN h \cup {None},
         conf' \in [Goroutines -> DOMAIN h \cup {None}],
         file' \in Configs, net' \in [Goroutines -> Urls \cup {None}]
  PROVE  PointersOK'
<1> DEFINE D == DOMAIN h \cap ({cached'} \cup {conf'[g] : g \in Goroutines})
<1>1. heap' = [o \in D |-> h[o]]
  BY DEF Collected
<1>2. HeapOK(heap') /\ DOMAIN heap' = D
  BY <1>1 DEF HeapOK
<1>3. cached' \in D \cup {None} /\ \A g \in Goroutines : conf'[g] \in D \cup {None}
  OBVIOUS
<1> HIDE DEF D
<1>. QED BY <1>2, <1>3 DEF PointersOK

LEMMA RefreshOK ==
  ASSUME PInv, NEW f \in Configs, Refresh(f),
         cached' \in DOMAIN heap \cup {None, Fresh},
         conf' \in [Goroutines -> DOMAIN heap \cup {None, Fresh}],
         file' \in Configs, net' \in [Goroutines -> Urls \cup {None}]
  PROVE  PointersOK'
<1>1. PICK c : c \in {f, [f EXCEPT !.url = None]} /\ heap' = Collected([o \in DOMAIN heap \cup {Fresh} |->
                                                  IF o = Fresh THEN c ELSE heap[o]])
  BY DEF Refresh
<1>2. c \in Configs
  BY <1>1, PluginAssumption
<1> DEFINE h == [o \in DOMAIN heap \cup {Fresh} |-> IF o = Fresh THEN c ELSE heap[o]]
<1>3. HeapOK(heap) /\ Fresh \in Objects
  BY FreshExists DEF PInv, PointersOK
<1>4. HeapOK(h) /\ DOMAIN h = DOMAIN heap \cup {Fresh}
  BY <1>2, <1>3 DEF HeapOK
<1> HIDE DEF h
<1>. QED BY <1>1, <1>4, CollectedOK DEF h

\* GetServerConfig gives g a pointer.
LEMMA GetOK ==
  ASSUME PInv, NEW g \in Goroutines, GetServerConfig(g), net' = net
  PROVE  /\ PointersOK' /\ cached' # None
         /\ conf' = [conf EXCEPT ![g] = cached']
<1>1. PointersOK /\ Fresh \in Objects
  BY FreshExists DEF PInv
<1>2. /\ cached' = IF cached = None THEN Fresh ELSE cached
      /\ conf' = [conf EXCEPT ![g] = cached'] /\ file' = file
  BY DEF GetServerConfig
<1>3. cached' # None
  BY <1>1, <1>2, PluginAssumption
<1>4. CASE cached = None
  <2>1. Refresh(file) /\ cached' = Fresh
    BY <1>2, <1>4 DEF GetServerConfig
  <2>2. conf' \in [Goroutines -> DOMAIN heap \cup {None, Fresh}]
    BY <1>1, <1>2, <2>1 DEF PointersOK
  <2>. QED BY <1>1, <1>2, <1>3, <2>1, <2>2, RefreshOK DEF PointersOK
<1>5. CASE cached # None
  <2>1. heap' = heap /\ cached' = cached
    BY <1>2, <1>5 DEF GetServerConfig
  <2>. QED BY <1>1, <1>2, <1>3, <1>5, <2>1 DEF PointersOK
<1>. QED BY <1>4, <1>5

\* A pointer of g is followed only where there is one.
LEMMA NoNil ==
  ASSUME PInv, NEW g \in Goroutines, pc[g] \in Holding(g)
  PROVE  conf[g] \in DOMAIN heap /\ heap[conf[g]] \in Configs
BY DEF PInv, HeldWhereUsed, PointersOK, HeapOK

LEMMA ForgetOK ==
  ASSUME PointersOK, NEW g \in Goroutines, Forget(g)
  PROVE  /\ conf' = [conf EXCEPT ![g] = None]
         /\ conf' \in [Goroutines -> DOMAIN heap \cup {None}]
         /\ net' \in [Goroutines -> Urls \cup {None}]
BY DEF Forget, PointersOK

LEMMA SaveOK ==
  ASSUME PInv, NEW g \in Goroutines, NEW c \in Configs, SaveServerConfig(g, c)
  PROVE  PointersOK' /\ conf' = [conf EXCEPT ![g] = None]
<1>1. PointersOK
  BY DEF PInv
<1>2. Forget(g) /\ file' = c /\ cached' = Fresh /\ Refresh(c)
  BY DEF SaveServerConfig
<1>3. /\ conf' = [conf EXCEPT ![g] = None]
      /\ conf' \in [Goroutines -> DOMAIN heap \cup {None, Fresh}]
      /\ net' \in [Goroutines -> Urls \cup {None}]
  BY <1>1, <1>2, ForgetOK
<1>. QED BY <1>2, <1>3, RefreshOK

LEMMA ReturnOK ==
  ASSUME PInv, NEW g \in Goroutines, NEW label, Return(g, label)
  PROVE  PointersOK' /\ conf' = [conf EXCEPT ![g] = None]
<1>1. PointersOK
  BY DEF PInv
<1>2. Forget(g) /\ UNCHANGED <<cached, file>> /\ heap' = Collected(heap)
  BY DEF Return
<1>3. /\ conf' = [conf EXCEPT ![g] = None]
      /\ conf' \in [Goroutines -> DOMAIN heap \cup {None}]
      /\ net' \in [Goroutines -> Urls \cup {None}]
  BY <1>1, <1>2, ForgetOK
<1>. QED BY <1>1, <1>2, <1>3, CollectedOK DEF PointersOK

-----------------------------------------------------------------------------
(* The steps.                                                              *)

\* g moves to label and has a pointer there if it works with it.
LEMMA MoveOK ==
  ASSUME PInv, PointersOK', NEW g \in Goroutines, NEW label \in Labels, Goto(g, label),
         \A i \in Goroutines \ {g} : conf'[i] = conf[i],
         conf'[g] # None <=> label \in Holding(g)
  PROVE  /\ pc' \in [Goroutines -> Labels]
         /\ HeldWhereUsed'
         /\ pc'[g] = label /\ \A i \in Goroutines \ {g} : pc'[i] = pc[i]
<1>1. pc \in [Goroutines -> Labels] /\ pc' = [pc EXCEPT ![g] = label]
  BY DEF PInv, RestOK, Goto
<1>2. pc'[g] = label /\ \A i \in Goroutines \ {g} : pc'[i] = pc[i]
  BY <1>1
<1>. QED BY <1>1, <1>2 DEF PInv, HeldWhereUsed, Holding

\* The counters of a step that is not a request's.
CountersKept ==
  /\ station' \in Urls \cup {None} /\ changes' \in 0 .. MaxChanges
  /\ polling' \in BOOLEAN /\ stopChan' \in BOOLEAN
  /\ faults' \in 0 .. MaxFaults

LEMMA FaultOK == PInv /\ (Fault \/ UNCHANGED counters) => faults' \in 0 .. MaxFaults /\ updates' = updates
BY PluginAssumption DEF PInv, RestOK, Fault, counters

\* A step of main, the starter or the poller.
LEMMA OwnStep ==
  ASSUME PInv, ManagerTypeOK', PointersOK', CountersKept, UNCHANGED <<starters, updates>>,
         NEW g \in {"main", "starter", "poller"}, NEW label \in Labels, Goto(g, label),
         \A i \in Goroutines \ {g} : conf'[i] = conf[i],
         conf'[g] # None <=> label \in Holding(g),
         g = "main" =>
           \/ /\ pc["main"] \in {"boot", "config", "compare", "save"}
              /\ label \in {"config", "compare", "save", "launch"}
           \/ label \in {"shutdown", "stopping", "exited"},
         g # "main" => pc[g] # "off",
         g = "starter" => label \in {"off", "poll"}
  PROVE  PInv'
<1>1. /\ g \in Goroutines /\ "main" \in Goroutines /\ "starter" \in Goroutines
      /\ "poller" \in Goroutines /\ Handlers \subseteq Goroutines /\ g \notin Handlers
  BY PluginAssumption DEF Goroutines
<1>2. /\ pc' \in [Goroutines -> Labels] /\ HeldWhereUsed'
      /\ pc'[g] = label /\ \A i \in Goroutines \ {g} : pc'[i] = pc[i]
  BY <1>1, MoveOK
<1>3. \A h \in Handlers : pc'[h] = pc[h]
  BY <1>1, <1>2
<1>4. MainAlone'
  BY <1>1, <1>2, <1>3 DEF PInv, MainAlone
<1>5. StartersOK'
  <2>1. Busy' = Busy
    BY <1>3 DEF Busy
  <2>. QED BY <2>1 DEF PInv, StartersOK
<1>6. RestOK'
  BY <1>2 DEF PInv, RestOK, CountersKept
<1>. QED BY <1>2, <1>4, <1>5, <1>6 DEF PInv

\* A step of a handler, which may end its request and ask for a start.
LEMMA HandlerStep ==
  ASSUME PInv, ManagerTypeOK', PointersOK', CountersKept,
         NEW h \in Handlers, NEW label \in Labels, Goto(h, label),
         \A i \in Goroutines \ {h} : conf'[i] = conf[i],
         conf'[h] # None <=> label \in Holding(h),
         pc["main"] = "serving" \/ pc[h] # "idle",
         updates' \in 0 .. MaxUpdates,
         \/ pc[h] = "idle" /\ updates' = updates + 1 /\ starters' = starters
         \/ pc[h] # "idle" /\ label # "idle" /\ updates' = updates /\ starters' = starters
         \/ pc[h] # "idle" /\ label = "idle" /\ updates' = updates
            /\ starters' \in {starters, starters + 1}
  PROVE  PInv'
<1>1. /\ "main" \in Goroutines /\ "starter" \in Goroutines /\ "poller" \in Goroutines
      /\ Handlers \subseteq Goroutines /\ h \notin {"main", "starter", "poller"}
  BY PluginAssumption DEF Goroutines
<1>2. /\ pc' \in [Goroutines -> Labels] /\ HeldWhereUsed'
      /\ pc'[h] = label /\ \A i \in Goroutines \ {h} : pc'[i] = pc[i]
  BY <1>1, MoveOK
<1>3. MainAlone'
  BY <1>1, <1>2 DEF PInv, MainAlone
<1>4. StartersOK'
  <2>1. /\ IsFiniteSet(Busy) /\ Cardinality(Busy) \in Nat /\ updates \in Nat
        /\ starters \in Nat /\ starters + Cardinality(Busy) <= updates
    BY BusyFinite DEF PInv, StartersOK, RestOK
  <2>2. CASE pc[h] = "idle"
    <3>1. Busy' \in {Busy, Busy \cup {h}} /\ h \notin Busy
      BY <1>1, <1>2, <2>2 DEF Busy
    <3>2. Cardinality(Busy \cup {h}) = Cardinality(Busy) + 1
      BY <2>1, <3>1, FS_AddElement
    <3>3. Cardinality(Busy') <= Cardinality(Busy) + 1
      BY <2>1, <3>1, <3>2
    <3>. QED BY <2>1, <2>2, <3>3, BusyFinite DEF StartersOK
  <2>3. CASE pc[h] # "idle" /\ label # "idle"
    <3>1. Busy' = Busy
      BY <1>1, <1>2, <2>3 DEF Busy
    <3>. QED BY <2>1, <2>3, <3>1 DEF StartersOK
  <2>4. CASE pc[h] # "idle" /\ label = "idle"
    <3>1. Busy' = Busy \ {h} /\ h \in Busy
      BY <1>1, <1>2, <2>4 DEF Busy
    <3>2. Cardinality(Busy \ {h}) = Cardinality(Busy) - 1
      BY <2>1, <3>1, FS_RemoveElement
    <3>. QED BY <2>1, <2>4, <3>1, <3>2, BusyFinite DEF StartersOK
  <2>. QED BY <2>2, <2>3, <2>4
<1>5. RestOK'
  BY <1>2 DEF PInv, RestOK, CountersKept
<1>. QED BY <1>2, <1>3, <1>4, <1>5 DEF PInv

\* A step that moves no goroutine and no pointer.
LEMMA StillStep ==
  ASSUME PInv, ManagerTypeOK', CountersKept, UNCHANGED <<pc, conf, updates>>, PointersOK',
         starters' \in Nat, starters' <= starters
  PROVE  PInv'
<1>1. Busy' = Busy
  BY DEF Busy
<1>2. StartersOK'
  BY <1>1, BusyFinite DEF PInv, StartersOK, RestOK
<1>. QED BY <1>2 DEF PInv, RestOK, CountersKept, HeldWhereUsed, MainAlone

LEMMA NamesDistinct ==
  /\ {"main", "starter", "poller"} \subseteq Goroutines /\ Handlers \subseteq Goroutines
  /\ Handlers \cap {"main", "starter", "poller"} = {}
BY PluginAssumption DEF Goroutines

LEMMA SyncStep ==
  ASSUME PInv, ManagerTypeOK', NEW g \in {"main", "poller"},
         SyncFetches(g) \/ SyncGetsConfig(g) \/ SyncCompares(g) \/ SyncSaves(g)
  PROVE  PInv'
<1>1. g \in Goroutines /\ PointersOK /\ (conf[g] # None <=> pc[g] \in Holding(g)) /\ RestOK
  BY NamesDistinct DEF PInv, HeldWhereUsed
<1>2. CASE SyncFetches(g)
  <2>1. PICK label \in {"config", "launch", "down", "idle"} :
          /\ Goto(g, label) /\ net' \in {net, [net EXCEPT ![g] = station]}
          /\ Fault \/ UNCHANGED counters
          /\ g = "main" => label \in {"config", "launch"}
    BY <1>2 DEF SyncFetches, NotSynced
  <2>2. /\ pc[g] = IF g = "main" THEN "boot" ELSE "idle"
        /\ UNCHANGED <<heap, cached, file, conf, station, changes, starters, polling, stopChan>>
    BY <1>2 DEF SyncFetches, configVars, stationVars
  <2>3. conf[g] = None
    BY <1>1, <2>2 DEF Holding
  <2>4. PointersOK' /\ CountersKept /\ updates' = updates
    BY <1>1, <2>1, <2>2, FaultOK DEF PointersOK, CountersKept, RestOK
  <2>. QED BY <2>1, <2>2, <2>3, <2>4, OwnStep DEF Labels, Holding
<1>3. CASE SyncGetsConfig(g)
  <2>1. /\ GetServerConfig(g) /\ net' = net /\ Goto(g, "compare") /\ pc[g] = "config"
        /\ UNCHANGED <<station, changes, starters, polling, stopChan, updates, faults>>
    BY <1>3 DEF SyncGetsConfig, stationVars, counters
  <2>2. PointersOK' /\ conf' = [conf EXCEPT ![g] = cached'] /\ cached' # None
    BY <1>1, <2>1, GetOK
  <2>3. conf'[g] # None /\ \A i \in Goroutines \ {g} : conf'[i] = conf[i]
    BY <1>1, <2>2 DEF PointersOK
  <2>4. CountersKept
    BY <1>1, <2>1 DEF CountersKept, RestOK
  <2>. QED BY <2>1, <2>2, <2>3, <2>4, OwnStep DEF Labels, Holding
<1>4. CASE SyncCompares(g)
  <2>1. /\ UNCHANGED <<station, changes, starters, polling, stopChan, updates, faults>>
        /\ pc[g] = "compare"
    BY <1>4 DEF SyncCompares, stationVars, counters
  <2>2. CountersKept
    BY <1>1, <2>1 DEF CountersKept, RestOK
  <2>3. CASE Return(g, Synced(g))
    <3>1. PointersOK' /\ conf' = [conf EXCEPT ![g] = None] /\ Goto(g, Synced(g))
      BY <1>1, <2>3, ReturnOK DEF Return
    <3>2. conf'[g] = None /\ \A i \in Goroutines \ {g} : conf'[i] = conf[i]
      BY <1>1, <3>1 DEF PointersOK
    <3>3. Synced(g) = IF g = "main" THEN "launch" ELSE "reset"
      BY DEF Synced
    <3>. QED BY <2>1, <2>2, <3>1, <3>2, <3>3, OwnStep DEF Labels, Holding
  <2>4. CASE /\ Goto(g, IF g = "main" THEN "save" ELSE "stop")
             /\ UNCHANGED <<conf, net, configVars>>
    <3>1. PointersOK' /\ conf' = conf
      BY <1>1, <2>4 DEF PointersOK, configVars
    <3>2. conf'[g] # None
      BY <1>1, <2>1, <3>1 DEF Holding
    <3>. QED BY <2>1, <2>2, <2>4, <3>1, <3>2, OwnStep DEF Labels, Holding
  <2>. QED BY <1>4, <2>3, <2>4 DEF SyncCompares
<1>5. CASE SyncSaves(g)
  <2>1. /\ UNCHANGED <<station, changes, starters, polling, stopChan>>
        /\ pc[g] = "save" /\ (Fault \/ UNCHANGED counters)
    BY <1>5 DEF SyncSaves, stationVars
  <2>2. CountersKept /\ updates' = updates
    BY <1>1, <2>1, FaultOK DEF CountersKept, RestOK
  <2>3. PICK label \in {"launch", "start", "idle"} :
          /\ Goto(g, label) /\ (g = "main" => label = "launch")
          /\ \/ SaveServerConfig(g, [heap[conf[g]] EXCEPT !.url = net[g]])
             \/ Return(g, label)
    BY <1>5 DEF SyncSaves, NotSynced, Return
  <2>4. [heap[conf[g]] EXCEPT !.url = net[g]] \in Configs
    <3>1. heap[conf[g]] \in Configs
      BY <1>1, <2>1, NoNil DEF Holding
    <3>2. net[g] \in Urls \cup {None}
      BY <1>1 DEF PointersOK
    <3>. QED BY <3>1, <3>2, PluginAssumption
  <2>5. PointersOK' /\ conf' = [conf EXCEPT ![g] = None]
    BY <1>1, <2>3, <2>4, SaveOK, ReturnOK
  <2>6. conf'[g] = None /\ \A i \in Goroutines \ {g} : conf'[i] = conf[i]
    BY <1>1, <2>5 DEF PointersOK
  <2>. QED BY <2>1, <2>2, <2>3, <2>5, <2>6, OwnStep DEF Labels, Holding
<1>. QED BY <1>2, <1>3, <1>4, <1>5

\* Stop, called by the poller or a handler.
LEMMA CallsStopPointers ==
  ASSUME PInv, NEW g \in Goroutines, g # "main", CallsStop(g)
  PROVE  /\ PointersOK' /\ CountersKept /\ UNCHANGED <<starters, updates>> /\ pc[g] = "stop"
         /\ \E label \in {"stopping", "save", "idle"} :
              /\ Goto(g, label) /\ (conf'[g] # None <=> label \in Holding(g))
         /\ \A i \in Goroutines \ {g} : conf'[i] = conf[i]
<1>1. PointersOK /\ (conf[g] # None <=> pc[g] \in Holding(g)) /\ RestOK
  BY DEF PInv, HeldWhereUsed
<1>2. /\ UNCHANGED <<station, changes, starters, polling, stopChan, updates, faults>>
      /\ pc[g] = "stop"
  BY DEF CallsStop, stationVars, counters
<1>3. CountersKept
  BY <1>1, <1>2 DEF CountersKept, RestOK
<1>4. ASSUME NEW label \in {"stopping", "save"}, Goto(g, label),
             UNCHANGED <<conf, net, configVars>>
      PROVE  /\ PointersOK' /\ conf'[g] # None /\ label \in Holding(g)
             /\ \A i \in Goroutines \ {g} : conf'[i] = conf[i]
  BY <1>1, <1>2, <1>4 DEF PointersOK, configVars, Holding
<1>5. ASSUME Return(g, "idle")
      PROVE  /\ PointersOK' /\ Goto(g, "idle") /\ conf'[g] = None /\ "idle" \notin Holding(g)
             /\ \A i \in Goroutines \ {g} : conf'[i] = conf[i]
  <2>1. PointersOK' /\ conf' = [conf EXCEPT ![g] = None]
    BY <1>5, ReturnOK
  <2>2. conf'[g] = None /\ \A i \in Goroutines \ {g} : conf'[i] = conf[i]
    BY <1>1, <2>1 DEF PointersOK
  <2>. QED BY <1>5, <2>1, <2>2 DEF Return, Holding
<1>6. \/ \E label \in {"stopping", "save"} : Goto(g, label) /\ UNCHANGED <<conf, net, configVars>>
      \/ Return(g, "idle")
  BY DEF CallsStop
<1>. QED BY <1>2, <1>3, <1>4, <1>5, <1>6

LEMMA StopReturnsPointers ==
  ASSUME PInv, NEW g \in Goroutines, StopReturns(g)
  PROVE  /\ PointersOK' /\ CountersKept /\ UNCHANGED <<starters, updates, conf>>
         /\ pc[g] = "stopping" /\ Goto(g, IF g = "main" THEN "exited" ELSE "save")
         /\ conf[g] # None <=> g # "main"
<1>1. PointersOK /\ (conf[g] # None <=> pc[g] \in Holding(g)) /\ RestOK
  BY DEF PInv, HeldWhereUsed
<1>2. /\ UNCHANGED <<heap, cached, file, conf, net, station, changes, starters, polling, stopChan,
                      updates, faults>>
      /\ pc[g] = "stopping" /\ Goto(g, IF g = "main" THEN "exited" ELSE "save")
  BY DEF StopReturns, configVars, stationVars, counters
<1>3. PointersOK' /\ CountersKept
  BY <1>1, <1>2 DEF PointersOK, CountersKept, RestOK
<1>. QED BY <1>1, <1>2, <1>3 DEF Holding

\* What the steps that touch no configuration leave alone.
LEMMA QuietPointers ==
  ASSUME PInv, UNCHANGED <<heap, cached, file, conf, net>>
  PROVE  PointersOK'
BY DEF PInv, PointersOK

LEMMA PollerStep ==
  ASSUME PInv, ManagerTypeOK', Poll \/ PollerLeaves
  PROVE  PInv'
<1>1. /\ "poller" \in Goroutines /\ RestOK /\ (conf["poller"] # None <=> pc["poller"] \in Holding("poller"))
  BY NamesDistinct DEF PInv, HeldWhereUsed
<1>2. CASE SyncFetches("poller") \/ SyncGetsConfig("poller") \/ SyncCompares("poller") \/ SyncSaves("poller")
  BY <1>2, SyncStep
<1>3. CASE CallsStop("poller")
  <2>1. /\ PointersOK' /\ CountersKept /\ UNCHANGED <<starters, updates>> /\ pc["poller"] = "stop"
        /\ \A i \in Goroutines \ {"poller"} : conf'[i] = conf[i]
    BY <1>1, <1>3, CallsStopPointers
  <2>2. PICK label \in {"stopping", "save", "idle"} :
          Goto("poller", label) /\ (conf'["poller"] # None <=> label \in Holding("poller"))
    BY <1>1, <1>3, CallsStopPointers
  <2>. QED BY <2>1, <2>2, OwnStep DEF Labels
<1>4. CASE StopReturns("poller")
  <2>1. /\ PointersOK' /\ CountersKept /\ UNCHANGED <<starters, updates, conf>>
        /\ pc["poller"] = "stopping" /\ Goto("poller", "save") /\ conf["poller"] # None
    BY <1>1, <1>4, StopReturnsPointers
  <2>. QED BY <2>1, OwnStep DEF Labels, Holding
<1>5. CASE PollStarts \/ PollEnds \/ PollerLeaves
  <2>1. PICK label \in {"reset", "idle", "off"} : Goto("poller", label)
    BY <1>5 DEF PollStarts, PollEnds, PollerLeaves
  <2>2. /\ pc["poller"] \in {"start", "reset", "down", "idle"}
        /\ UNCHANGED <<heap, cached, file, conf, net, station, changes, starters, polling, stopChan>>
        /\ Fault \/ UNCHANGED counters
    BY <1>5 DEF PollStarts, PollEnds, PollerLeaves, configVars, stationVars
  <2>3. PointersOK' /\ CountersKept /\ updates' = updates
    BY <1>1, <2>2, QuietPointers, FaultOK DEF CountersKept, RestOK
  <2>. QED BY <1>1, <2>1, <2>2, <2>3, OwnStep DEF Labels, Holding
<1>. QED BY <1>2, <1>3, <1>4, <1>5 DEF Poll

LEMMA RequestStep ==
  ASSUME PInv, ManagerTypeOK', NEW h \in Handlers, Receives(h) \/ Handle(h)
  PROVE  PInv'
<1>1. /\ h \in Goroutines /\ h # "main" /\ RestOK /\ PointersOK
      /\ conf[h] # None <=> pc[h] \in Holding(h)
  BY NamesDistinct DEF PInv, HeldWhereUsed
<1>2. CASE Receives(h)
  <2>1. /\ pc["main"] = "serving" /\ pc[h] = "idle" /\ updates < MaxUpdates
        /\ updates' = updates + 1 /\ faults' = faults
        /\ GetServerConfig(h) /\ Goto(h, "mutate")
        /\ UNCHANGED <<station, changes, net, starters, polling, stopChan>>
    BY <1>2 DEF Receives, stationVars
  <2>2. PointersOK' /\ conf' = [conf EXCEPT ![h] = cached'] /\ cached' # None
    BY <1>1, <2>1, GetOK
  <2>3. conf'[h] # None /\ \A i \in Goroutines \ {h} : conf'[i] = conf[i]
    BY <1>1, <2>2 DEF PointersOK
  <2>4. CountersKept /\ updates' \in 0 .. MaxUpdates
    BY <1>1, <2>1, PluginAssumption DEF CountersKept, RestOK
  <2>. QED BY <2>1, <2>2, <2>3, <2>4, HandlerStep DEF Labels, Holding
<1>3. CASE Mutates(h)
  <2>1. /\ pc[h] = "mutate" /\ Goto(h, "stop")
        /\ UNCHANGED <<cached, file, conf, net, station, changes, starters, polling, stopChan,
                        updates, faults>>
    BY <1>3 DEF Mutates, stationVars, counters
  <2>2. PICK s \in Settings :
          heap' = [heap EXCEPT ![conf[h]] =
                     [url |-> s.url,
                      port |-> IF s.port = None THEN heap[conf[h]].port ELSE s.port]]
    BY <1>3 DEF Mutates
  <2>3. conf[h] \in DOMAIN heap /\ heap[conf[h]] \in Configs
    BY <1>1, <2>1, NoNil DEF Holding
  <2>4. [url |-> s.url,
         port |-> IF s.port = None THEN heap[conf[h]].port ELSE s.port] \in Configs
    BY <2>3, PluginAssumption
  <2>5. HeapOK(heap') /\ DOMAIN heap' = DOMAIN heap
    BY <1>1, <2>2, <2>3, <2>4 DEF PointersOK, HeapOK
  <2>6. PointersOK'
    BY <1>1, <2>1, <2>5 DEF PointersOK
  <2>7. CountersKept /\ updates' \in 0 .. MaxUpdates
    BY <1>1, <2>1 DEF CountersKept, RestOK
  <2>. QED BY <1>1, <2>1, <2>6, <2>7, HandlerStep DEF Labels, Holding
<1>4. CASE CallsStop(h)
  <2>1. /\ PointersOK' /\ CountersKept /\ UNCHANGED <<starters, updates>> /\ pc[h] = "stop"
        /\ \A i \in Goroutines \ {h} : conf'[i] = conf[i]
    BY <1>1, <1>4, CallsStopPointers
  <2>2. PICK label \in {"stopping", "save", "idle"} :
          Goto(h, label) /\ (conf'[h] # None <=> label \in Holding(h))
    BY <1>1, <1>4, CallsStopPointers
  <2>3. updates' \in 0 .. MaxUpdates
    BY <1>1, <2>1 DEF RestOK
  <2>. QED BY <2>1, <2>2, <2>3, HandlerStep DEF Labels
<1>5. CASE StopReturns(h)
  <2>1. /\ PointersOK' /\ CountersKept /\ UNCHANGED <<starters, updates, conf>>
        /\ pc[h] = "stopping" /\ Goto(h, "save") /\ conf[h] # None
    BY <1>1, <1>5, StopReturnsPointers
  <2>2. updates' \in 0 .. MaxUpdates
    BY <1>1, <2>1 DEF RestOK
  <2>. QED BY <2>1, <2>2, HandlerStep DEF Labels, Holding
<1>6. CASE Saves(h)
  <2>1. /\ pc[h] = "save" /\ UNCHANGED <<station, changes, polling, stopChan>>
        /\ \/ /\ SaveServerConfig(h, heap[conf[h]]) /\ Goto(h, "idle")
              /\ starters' = starters + 1 /\ UNCHANGED counters
           \/ Fault /\ Return(h, "idle") /\ starters' = starters
    BY <1>6 DEF Saves, stationVars
  <2>2. heap[conf[h]] \in Configs
    BY <1>1, <2>1, NoNil DEF Holding
  <2>3. PointersOK' /\ conf' = [conf EXCEPT ![h] = None] /\ Goto(h, "idle")
    BY <1>1, <2>1, <2>2, SaveOK, ReturnOK DEF Return
  <2>4. conf'[h] = None /\ \A i \in Goroutines \ {h} : conf'[i] = conf[i]
    BY <1>1, <2>3 DEF PointersOK
  <2>5. CountersKept /\ updates' = updates /\ updates' \in 0 .. MaxUpdates
    BY <1>1, <2>1, FaultOK DEF CountersKept, RestOK
  <2>. QED BY <2>1, <2>3, <2>4, <2>5, HandlerStep DEF Labels, Holding
<1>. QED BY <1>2, <1>3, <1>4, <1>5, <1>6 DEF Handle

LEMMA MainStep ==
  ASSUME PInv, ManagerTypeOK', Main \/ ShutsDown \/ Starter
  PROVE  PInv'
<1>1. /\ {"main", "starter", "poller"} \subseteq Goroutines /\ RestOK
      /\ conf["main"] # None <=> pc["main"] \in Holding("main")
      /\ conf["starter"] # None <=> pc["starter"] \in Holding("starter")
      /\ conf["poller"] # None <=> pc["poller"] \in Holding("poller")
  BY NamesDistinct DEF PInv, HeldWhereUsed
<1>2. CASE SyncFetches("main") \/ SyncGetsConfig("main") \/ SyncCompares("main") \/ SyncSaves("main")
  BY <1>2, SyncStep
<1>3. CASE Launches
  <2>1. /\ pc["main"] = "launch"
        /\ pc' = [pc EXCEPT !["main"] = "serving", !["starter"] = "start"]
        /\ UNCHANGED <<heap, cached, file, conf, net, station, changes, starters, polling, stopChan,
                        updates, faults>>
    BY <1>3 DEF Launches, configVars, stationVars, counters
  <2>2. /\ pc'["main"] = "serving" /\ pc'["starter"] = "start" /\ pc' \in [Goroutines -> Labels]
        /\ \A i \in Goroutines \ {"main", "starter"} : pc'[i] = pc[i]
    BY <1>1, <2>1 DEF RestOK, Labels
  <2>3. Busy' = Busy
    BY <2>2, NamesDistinct DEF Busy
  <2>4. PointersOK' /\ RestOK'
    BY <1>1, <2>1, <2>2, QuietPointers DEF RestOK
  <2>5. pc["starter"] = "off"
    BY <2>1 DEF PInv, MainAlone
  <2>6. HeldWhereUsed'
    <3>1. conf["main"] = None /\ conf["starter"] = None
      BY <1>1, <2>1, <2>5 DEF Holding
    <3>. QED BY <2>1, <2>2, <3>1 DEF PInv, HeldWhereUsed, Holding
  <2>7. pc'["poller"] = "off"
    <3>1. pc["poller"] = "off" /\ "poller" \in Goroutines \ {"main", "starter"}
      BY <1>1, <2>1 DEF PInv, MainAlone
    <3>. QED BY <2>2, <3>1
  <2>8. MainAlone'
    BY <2>2, <2>7 DEF MainAlone
  <2>. QED BY <2>1, <2>3, <2>4, <2>6, <2>8 DEF PInv, StartersOK
<1>4. CASE StartsPolling
  <2>1. /\ pc["starter"] = "poll" /\ polling' = TRUE
        /\ pc' = [pc EXCEPT !["starter"] = "off", !["poller"] = "idle"]
        /\ UNCHANGED <<heap, cached, file, conf, net, station, changes, starters, stopChan,
                        updates, faults>>
    BY <1>4 DEF StartsPolling, configVars, stationVars, counters
  <2>2. /\ pc'["starter"] = "off" /\ pc'["poller"] = "idle" /\ pc' \in [Goroutines -> Labels]
        /\ \A i \in Goroutines \ {"poller", "starter"} : pc'[i] = pc[i]
    BY <1>1, <2>1 DEF RestOK, Labels
  <2>3. Busy' = Busy
    BY <2>2, NamesDistinct DEF Busy
  <2>4. PointersOK' /\ RestOK'
    BY <1>1, <2>1, <2>2, QuietPointers DEF RestOK
  <2>5. pc'["main"] = pc["main"] /\ MainAlone'
    BY <1>1, <2>1, <2>2 DEF PInv, MainAlone
  <2>6. HeldWhereUsed'
    <3>1. conf["poller"] = None /\ conf["starter"] = None
      BY <1>1, <2>1 DEF Holding, PInv, MainAlone
    <3>. QED BY <2>1, <2>2, <3>1 DEF PInv, HeldWhereUsed, Holding
  <2>. QED BY <2>1, <2>2, <2>3, <2>4, <2>5, <2>6 DEF PInv, StartersOK
<1>5. CASE Exits \/ ShutsDown
  <2>1. PICK label \in {"stopping", "exited", "shutdown"} : Goto("main", label)
    BY <1>5 DEF Exits, ShutsDown
  <2>2. /\ pc["main"] \in {"serving", "shutdown"}
        /\ UNCHANGED <<heap, cached, file, conf, net, station, changes, starters, updates, faults>>
        /\ polling' \in BOOLEAN /\ stopChan' \in BOOLEAN
    BY <1>1, <1>5 DEF Exits, ShutsDown, configVars, stationVars, counters, RestOK
  <2>3. PointersOK' /\ CountersKept
    BY <1>1, <2>2, QuietPointers DEF CountersKept, RestOK
  <2>. QED BY <1>1, <2>1, <2>2, <2>3, OwnStep DEF Labels, Holding
<1>6. CASE StopReturns("main")
  <2>1. /\ PointersOK' /\ CountersKept /\ UNCHANGED <<starters, updates, conf>>
        /\ pc["main"] = "stopping" /\ Goto("main", "exited") /\ conf["main"] = None
    BY <1>1, <1>6, StopReturnsPointers
  <2>. QED BY <2>1, OwnStep DEF Labels, Holding
<1>7. CASE FirstStart
  <2>1. PICK label \in {"poll", "off"} : Goto("starter", label)
    BY <1>7 DEF FirstStart
  <2>2. /\ pc["starter"] = "start" /\ (Fault \/ UNCHANGED counters)
        /\ UNCHANGED <<heap, cached, file, conf, net, station, changes, starters, polling, stopChan>>
    BY <1>7 DEF FirstStart, configVars, stationVars
  <2>3. PointersOK' /\ CountersKept /\ updates' = updates
    BY <1>1, <2>2, QuietPointers, FaultOK DEF CountersKept, RestOK
  <2>. QED BY <1>1, <2>1, <2>2, <2>3, OwnStep DEF Labels, Holding
<1>. QED BY <1>2, <1>3, <1>4, <1>5, <1>6, <1>7 DEF Main, Starter

LEMMA StillSteps ==
  ASSUME PInv, ManagerTypeOK',
         \/ HandlerStarts \/ Reads \/ Monitor \/ Loads \/ Obeys \/ Crashes \/ StationChanges
         \/ Over \/ UNCHANGED vars
  PROVE  PInv'
<1>1. RestOK /\ starters \in Nat /\ PointersOK
  BY DEF PInv, StartersOK
<1>2. CASE HandlerStarts
  <2>1. /\ starters > 0 /\ starters' = starters - 1 /\ (Fault \/ UNCHANGED counters)
        /\ UNCHANGED <<heap, cached, file, pc, conf, net, station, changes, polling, stopChan>>
    BY <1>2 DEF HandlerStarts, configVars, stationVars, localVars
  <2>2. PointersOK' /\ CountersKept /\ updates' = updates
    BY <1>1, <2>1, QuietPointers, FaultOK DEF CountersKept, RestOK
  <2>. QED BY <1>1, <2>1, <2>2, StillStep
<1>3. CASE Reads
  <2>1. /\ cached' = Fresh /\ Refresh(file)
        /\ UNCHANGED <<file, pc, conf, net, station, changes, starters, polling, stopChan,
                        updates, faults>>
    BY <1>3 DEF Reads, stationVars, localVars, counters
  <2>2. conf' \in [Goroutines -> DOMAIN heap \cup {None, Fresh}]
    BY <1>1, <2>1 DEF PointersOK
  <2>3. PointersOK'
    BY <1>1, <2>1, <2>2, RefreshOK DEF PointersOK
  <2>4. CountersKept
    BY <1>1, <2>1 DEF CountersKept, RestOK
  <2>. QED BY <1>1, <2>1, <2>3, <2>4, StillStep
<1>4. CASE Monitor \/ Loads \/ Obeys \/ Crashes \/ Over \/ UNCHANGED vars
  <2>1. /\ Fault \/ UNCHANGED counters
        /\ UNCHANGED <<heap, cached, file, pc, conf, net, station, changes, starters, polling, stopChan>>
    BY <1>4 DEF Monitor, Loads, Obeys, Crashes, Over, vars, configVars, stationVars, localVars
  <2>2. PointersOK' /\ CountersKept /\ updates' = updates
    BY <1>1, <2>1, QuietPointers, FaultOK DEF CountersKept, RestOK
  <2>. QED BY <1>1, <2>1, <2>2, StillStep
<1>5. CASE StationChanges
  <2>1. /\ changes < MaxChanges /\ changes' = changes + 1 /\ station' \in Urls \cup {None}
        /\ UNCHANGED <<heap, cached, file, pc, conf, net, starters, polling, stopChan, updates, faults>>
    BY <1>5 DEF StationChanges, configVars, localVars, counters
  <2>2. PointersOK' /\ CountersKept
    BY <1>1, <2>1, QuietPointers, PluginAssumption DEF CountersKept, RestOK
  <2>. QED BY <1>1, <2>1, <2>2, StillStep
<1>. QED BY <1>2, <1>3, <1>4, <1>5

LEMMA PluginInvariant == Spec => []PInv
<1>1. Init => PInv
  <2>. SUFFICES ASSUME Init PROVE PInv
    OBVIOUS
  <2>1. ManagerTypeOK
    BY DEF Init, ManagerInit, ManagerTypeOK
  <2>2. PointersOK
    BY PluginAssumption DEF Init, PointersOK, HeapOK
  <2>3. RestOK
    <3>1. pc \in [Goroutines -> Labels]
      BY DEF Init, Labels
    <3>2. MaxChanges \in Nat /\ MaxUpdates \in Nat /\ MaxFaults \in Nat
          /\ FirstStations \subseteq Urls \cup {None}
      BY PluginAssumption
    <3>3. /\ station \in FirstStations /\ changes = 0 /\ updates = 0 /\ faults = 0
          /\ polling = FALSE /\ stopChan = FALSE
      BY DEF Init
    <3>4. station \in Urls \cup {None}
      BY <3>2, <3>3
    <3>5. changes \in 0 .. MaxChanges /\ updates \in 0 .. MaxUpdates /\ faults \in 0 .. MaxFaults
      BY <3>2, <3>3
    <3>6. polling \in BOOLEAN /\ stopChan \in BOOLEAN
      BY <3>3, Zenon
    <3>. QED BY <3>1, <3>4, <3>5, <3>6, Zenon DEF RestOK
  <2>3a. HeldWhereUsed
    BY NamesDistinct DEF Init, HeldWhereUsed, Holding
  <2>3b. MainAlone
    BY NamesDistinct DEF Init, MainAlone
  <2>4. Busy = {} /\ starters = 0 /\ updates = 0
    BY NamesDistinct DEF Init, Busy
  <2>. QED BY <2>1, <2>2, <2>3, <2>3a, <2>3b, <2>4, FS_EmptySet DEF PInv, StartersOK
<1>2. PInv /\ [Next]_vars => PInv'
  <2>. SUFFICES ASSUME PInv, [Next]_vars PROVE PInv'
    OBVIOUS
  <2>1. ManagerTypeOK'
    BY ManagerStep DEF PInv, PointersOK
  <2>. QED BY <2>1, MainStep, PollerStep, RequestStep, StillSteps DEF Next
<1>. QED BY <1>1, <1>2, PTL DEF Spec

\* The history variable: a step leaves it, sets it to FALSE, or adds to it.
LEMMA UnsavedKept ==
  ASSUME Next
  PROVE  \/ UNCHANGED unsaved \/ unsaved' = FALSE
         \/ \E g \in Goroutines : unsaved' = (unsaved \/ (g \in Handlers /\ conf[g] = cached))
<1>1. ASSUME NEW g \in Goroutines,
             \/ SyncFetches(g) \/ SyncGetsConfig(g) \/ SyncCompares(g) \/ SyncSaves(g)
             \/ CallsStop(g) \/ StopReturns(g)
      PROVE  \/ UNCHANGED unsaved \/ unsaved' = FALSE
             \/ unsaved' = (unsaved \/ (g \in Handlers /\ conf[g] = cached))
  BY <1>1, Zenon DEF SyncFetches, SyncGetsConfig, SyncCompares, SyncSaves, CallsStop, StopReturns,
    configVars, GetServerConfig, SaveServerConfig, Return
<1>2. ASSUME NEW h \in Handlers, Receives(h) \/ Mutates(h) \/ Saves(h)
      PROVE  \/ UNCHANGED unsaved \/ unsaved' = FALSE
             \/ unsaved' = (unsaved \/ (h \in Handlers /\ conf[h] = cached))
  BY <1>2, Zenon DEF Receives, Mutates, Saves, GetServerConfig, SaveServerConfig, Return
<1>3. CASE \/ PollStarts \/ PollEnds \/ PollerLeaves \/ HandlerStarts \/ Reads
           \/ Launches \/ FirstStart \/ StartsPolling \/ ShutsDown \/ Exits
           \/ Monitor \/ Loads \/ Obeys \/ Crashes \/ StationChanges \/ Over
  BY <1>3, Zenon DEF PollStarts, PollEnds, PollerLeaves, HandlerStarts, Reads, Launches, FirstStart,
    StartsPolling, ShutsDown, Exits, Monitor, Loads, Obeys, Crashes, StationChanges, Over, vars,
    configVars
<1>4. {"main", "poller"} \cup Handlers \subseteq Goroutines
  BY DEF Goroutines
<1>5. CASE Main \/ Poll
  BY <1>1, <1>3, <1>4, <1>5, Zenon DEF Main, Poll
<1>6. CASE \E h \in Handlers : Receives(h) \/ Handle(h)
  <2>1. PICK h \in Handlers : Receives(h) \/ Handle(h)
    BY <1>6
  <2>2. h \in Goroutines
    BY <1>4
  <2>3. CASE CallsStop(h) \/ StopReturns(h)
    BY <1>1, <2>2, <2>3, Zenon
  <2>4. CASE Receives(h) \/ Mutates(h) \/ Saves(h)
    BY <1>2, <2>2, <2>4, Zenon
  <2>. QED BY <2>1, <2>3, <2>4 DEF Handle
<1>. QED BY <1>3, <1>5, <1>6, Zenon DEF Next, Starter

LEMMA UnsavedType == Spec => [](unsaved \in BOOLEAN)
<1>1. Init => unsaved \in BOOLEAN
  BY DEF Init
<1>2. unsaved \in BOOLEAN /\ [Next]_vars => (unsaved \in BOOLEAN)'
  <2>1. ASSUME unsaved \in BOOLEAN, Next PROVE unsaved' \in BOOLEAN
    BY <2>1, UnsavedKept, Zenon
  <2>2. UNCHANGED vars => UNCHANGED unsaved
    BY DEF vars, configVars
  <2>. QED BY <2>1, <2>2
<1>. QED BY <1>1, <1>2, PTL DEF Spec

\* The state of the plugin has its type: every pointer to a configuration points
\* to an object, though saves replace the cached one while others work with it.
THEOREM PluginTypeCorrect == Spec => []TypeOK
BY PluginInvariant, UnsavedType, PInvType, PTL

\* No goroutine follows a nil pointer: where it reads or writes a configuration, it
\* has one.
THEOREM NoNilConfiguration ==
  Spec => [](\A g \in Goroutines : pc[g] \in Holding(g) => conf[g] \in DOMAIN heap)
<1>1. PInv => \A g \in Goroutines : pc[g] \in Holding(g) => conf[g] \in DOMAIN heap
  BY NoNil
<1>. QED BY <1>1, PluginInvariant, PTL

-----------------------------------------------------------------------------
(* The settings, field by field: theorems of the module Settings, for any  *)
(* nodes, paths, widths of the integers, requests and edits of the file.   *)

\* The remainder of a division is unique.
LEMMA Division ==
  ASSUME NEW m \in Nat \ {0}, NEW n \in Int
  PROVE  n % m \in 0 .. m - 1 /\ n \div m \in Int /\ n = (n \div m) * m + (n % m)
OBVIOUS

LEMMA Multiple ==
  ASSUME NEW m \in Nat \ {0}, NEW d \in Int, d > 0
  PROVE  d * m >= m
OBVIOUS

LEMMA Remainder ==
  ASSUME NEW m \in Nat \ {0}, NEW k \in Int, NEW a \in 0 .. m - 1, NEW b \in Int,
         b = a + k * m
  PROVE  b % m = a
<1> DEFINE q == b \div m
           r == b % m
<1>1. q \in Int /\ r \in 0 .. m - 1 /\ a + k * m = q * m + r
  BY Division
<1> HIDE DEF q, r
<1>2. (k - q) * m = r - a /\ (q - k) * m = a - r
  BY <1>1
<1>3. ~(k - q > 0) /\ ~(q - k > 0)
  BY <1>1, <1>2, Multiple
<1>4. q = k
  BY <1>1, <1>3
<1>5. r = a
  BY <1>1, <1>4
<1>. QED BY <1>5 DEF r

LEMMA Widths ==
  /\ Int32Half \in Nat \ {0} /\ Int64Half \in Nat \ {0} /\ Int32Half <= Int64Half
  /\ \E k \in Int : 2 * Int64Half = k * (2 * Int32Half)
<1>1. Int32Half \in Nat \ {0} /\ Int64Half \in Nat \ {0} /\ Int64Half % Int32Half = 0
  BY SettingsAssumption
<1> DEFINE k == Int64Half \div Int32Half
<1>2. k \in Int /\ Int64Half = k * Int32Half
  BY <1>1
<1> HIDE DEF k
<1>3. k > 0
  BY <1>1, <1>2
<1>4. Int32Half <= Int64Half
  BY <1>1, <1>2, <1>3
<1>5. 2 * Int64Half = k * (2 * Int32Half)
  BY <1>1, <1>2
<1>. QED BY <1>1, <1>2, <1>4, <1>5

\* An int32 survives the way to an uint64 and back.
LEMMA RoundTrip ==
  ASSUME NEW i \in Int32s
  PROVE  /\ Int32(i) = i /\ Int32(Uint64(i)) = i
         /\ Uint64(i) \in Uint64s /\ i \in Int64s
         /\ i = 0 <=> Uint64(i) = 0
<1> DEFINE m == 2 * Int32Half
           n == 2 * Int64Half
<1>1. /\ m \in Nat \ {0} /\ n \in Nat \ {0} /\ m <= n
      /\ i \in Int /\ i + Int32Half \in 0 .. m - 1 /\ i \in Int64s
  BY Widths DEF Int32s, Int64s
<1>2. PICK k \in Int : n = k * m
  BY Widths
<1>2a. Int32Half \in Int /\ Uint64(i) = i % n
       /\ \A j : Int32(j) = ((j + Int32Half) % m) - Int32Half
  BY Widths DEF Uint64, Int32
<1>2b. /\ i >= 0 => i \in 0 .. n - 1 /\ i = i + 0 * n
       /\ i < 0 => i + n \in 0 .. n - 1 /\ i = (i + n) + (-1) * n
  BY <1>1, Widths DEF Int32s
<1> HIDE DEF m, n
<1>3. Int32(i) = i
  <2>1. i + Int32Half = (i + Int32Half) + 0 * m
    BY <1>1, <1>2a
  <2>2. (i + Int32Half) % m = i + Int32Half
    BY <1>1, <1>2a, <2>1, Remainder
  <2>. QED BY <1>1, <1>2a, <2>2
<1>4. Uint64(i) = IF i >= 0 THEN i ELSE i + n
  <2>1. ASSUME i >= 0 PROVE i % n = i
    BY <1>1, <1>2b, <2>1, Remainder
  <2>2. ASSUME i < 0 PROVE i % n = i + n
    BY <1>1, <1>2b, <2>2, Remainder
  <2>. QED BY <1>1, <1>2a, <2>1, <2>2
<1>5. Int32(Uint64(i)) = i
  <2>1. CASE i >= 0
    BY <1>1, <1>3, <1>4, <2>1
  <2>2. CASE i < 0
    <3> DEFINE a == i + Int32Half
               b == (i + n) + Int32Half
    <3>1. a \in 0 .. m - 1 /\ b \in Int /\ b = a + k * m
      BY <1>1, <1>2, <1>2a
    <3> HIDE DEF a, b
    <3>2. b % m = a
      BY <1>1, <3>1, Remainder
    <3>3. Uint64(i) = i + n
      BY <1>4, <1>1, <2>2, SMT
    <3>4. Int32(Uint64(i)) = (b % m) - Int32Half
      BY <1>2a, <3>3 DEF b
    <3>5. a - Int32Half = i
      BY <1>1, <1>2a DEF a
    <3>. QED BY <3>2, <3>4, <3>5
  <2>. QED BY <1>1, <2>1, <2>2
<1>6. Uint64(i) \in Uint64s /\ (i = 0 <=> Uint64(i) = 0)
  BY <1>1, <1>4, Widths DEF Uint64s, Int32s, n
<1>. QED BY <1>1, <1>3, <1>5, <1>6

-----------------------------------------------------------------------------
(* The fields of what is reported, loaded, merged and saved.               *)

\* Numbers that are 0 are left out.
Shown(n) == IF n = 0 THEN Absent ELSE n

LEMMA Distinct ==
  /\ NoUrl \notin NodeUrls /\ Absent \notin NodeUrls \cup {NoUrl} /\ MainnetUrl \in NodeUrls
  /\ Absent \notin Int64s /\ Absent \notin Uint64s /\ Absent \notin BOOLEAN
  /\ Absent \notin Paths /\ Absent \notin ServerConfigs
  /\ 0 \in Int64s /\ 0 \in Uint64s
  /\ DefaultPort \in Int64s /\ DefaultLimit \in Uint64s
<1>1. DefaultPort \in Int32s /\ DefaultLimit \in 1 .. Int32Half - 1
  BY SettingsAssumption
<1>2. DefaultPort \in Int64s
  BY <1>1, RoundTrip
<1>3. DefaultLimit \in Uint64s
  BY <1>1, Widths DEF Uint64s
<1>4. 0 \in Int64s /\ 0 \in Uint64s
  BY Widths DEF Uint64s, Int64s
<1>. QED BY <1>2, <1>3, <1>4, SettingsAssumption

LEMMA ReportFields ==
  ASSUME NEW c \in ServerConfigs
  PROVE  /\ Report(c).url = c.url
         /\ Report(c).port = Shown(Int32(c.port))
         /\ Report(c).enabled = c.enabled
         /\ Report(c).ram = Shown(Int32(c.ram))
         /\ Report(c).disk = Shown(Int32(c.disk))
         /\ Report(c).dir = c.dir
<1>1. Absent # c.url /\ Absent # c.enabled /\ Absent # c.dir
  BY Distinct DEF ServerConfigs
<1>. QED BY <1>1 DEF Report, Omitted, BodyFields, CacheFields, Limits, Shown

LEMMA ResolvedPath ==
  ASSUME NEW p \in Paths
  PROVE  /\ Resolved(p) \in AbsolutePaths
         /\ p \in AbsolutePaths => Resolved(p) = p
BY SettingsAssumption DEF Resolved, Paths

LEMMA FilledFields ==
  ASSUME NEW f \in FileRecords
  PROVE  /\ Filled(f) \in ServerConfigs
         /\ Filled(f).url = IF f.url = Absent THEN MainnetUrl ELSE f.url
         /\ Filled(f).port = IF f.port = Absent THEN DefaultPort ELSE f.port
         /\ Filled(f).enabled = IF f.enabled = Absent THEN TRUE ELSE f.enabled
         /\ Filled(f).ram = IF f.ram = Absent THEN DefaultLimit ELSE f.ram
         /\ Filled(f).disk = IF f.disk = Absent THEN DefaultLimit ELSE f.disk
         /\ Filled(f).dir = Resolved(IF f.dir = Absent THEN DefaultDir ELSE f.dir)
         /\ Filled(f).offline = f.offline
         /\ Filled(f).network = Absent
<1> DEFINE g == Given(f)
           d == Filled(f)
<1>1. DOMAIN DefaultConfig =
        {"url", "port", "enabled", "ram", "disk", "dir", "offline", "network"}
  BY DEF DefaultConfig
<1>2. f.offline # Absent /\ f.offline \in BOOLEAN
  BY Distinct DEF FileRecords
<1>3. /\ g.url = IF f.url = Absent THEN MainnetUrl ELSE f.url
      /\ g.port = IF f.port = Absent THEN DefaultPort ELSE f.port
      /\ g.enabled = IF f.enabled = Absent THEN TRUE ELSE f.enabled
      /\ g.ram = IF f.ram = Absent THEN DefaultLimit ELSE f.ram
      /\ g.disk = IF f.disk = Absent THEN DefaultLimit ELSE f.disk
      /\ g.dir = IF f.dir = Absent THEN DefaultDir ELSE f.dir
      /\ g.offline = f.offline
      /\ g.network = Absent
  BY <1>1, <1>2 DEF Given, DefaultConfig
<1>4. g = [x \in {"url", "port", "enabled", "ram", "disk", "dir", "offline", "network"} |-> g[x]]
  BY <1>1 DEF Given
<1>5. d = [g EXCEPT !.dir = Resolved(g.dir)]
  BY DEF Filled
<1> HIDE DEF g, d
<1>6. /\ d = [x \in {"url", "port", "enabled", "ram", "disk", "dir", "offline", "network"} |-> d[x]]
      /\ d.url = g.url /\ d.port = g.port /\ d.enabled = g.enabled /\ d.ram = g.ram
      /\ d.disk = g.disk /\ d.dir = Resolved(g.dir) /\ d.offline = g.offline
      /\ d.network = g.network
  BY <1>4, <1>5
<1>7. g.url \in NodeUrls \cup {NoUrl} /\ g.port \in Int64s /\ g.enabled \in BOOLEAN
      /\ g.ram \in Uint64s /\ g.disk \in Uint64s /\ g.dir \in Paths
  <2>1. DefaultDir \in Paths
    BY SettingsAssumption DEF Paths
  <2>. QED BY <1>3, <2>1, Distinct DEF FileRecords
<1>8. d.dir \in Paths
  BY <1>6, <1>7, ResolvedPath DEF Paths
<1>9. d \in ServerConfigs
  BY <1>2, <1>3, <1>6, <1>7, <1>8 DEF ServerConfigs
<1>. QED BY <1>3, <1>6, <1>9 DEF d

\* A number that a body leaves out.
Left(n) == n = Absent \/ n = 0

LEMMA MergedFields ==
  ASSUME NEW c \in ServerConfigs, NEW b \in BodyRecords
  PROVE  /\ Merged(c, b) \in ServerConfigs
         /\ Merged(c, b).url = IF b.url = Absent THEN c.url ELSE b.url
         /\ Merged(c, b).port = IF Left(b.port) THEN c.port ELSE b.port
         /\ Merged(c, b).enabled = IF b.enabled = Absent THEN c.enabled ELSE b.enabled
         /\ Merged(c, b).ram = IF Left(b.ram) THEN c.ram ELSE Uint64(b.ram)
         /\ Merged(c, b).disk = IF Left(b.disk) THEN c.disk ELSE Uint64(b.disk)
         /\ Merged(c, b).dir = IF b.dir = Absent THEN c.dir ELSE b.dir
         /\ Merged(c, b).offline = c.offline
         /\ Merged(c, b).network = c.network
<1> DEFINE m == Merged(c, b)
<1>1. DOMAIN c = {"url", "port", "enabled", "ram", "disk", "dir", "offline", "network"}
  BY DEF ServerConfigs
<1>2. /\ m.url = IF b.url = Absent THEN c.url ELSE b.url
      /\ m.port = IF Left(b.port) THEN c.port ELSE b.port
      /\ m.enabled = IF b.enabled = Absent THEN c.enabled ELSE b.enabled
      /\ m.ram = IF Left(b.ram) THEN c.ram ELSE Uint64(b.ram)
      /\ m.disk = IF Left(b.disk) THEN c.disk ELSE Uint64(b.disk)
      /\ m.dir = IF b.dir = Absent THEN c.dir ELSE b.dir
      /\ m.offline = c.offline
      /\ m.network = c.network
  BY <1>1 DEF Merged, Omitted, BodyFields, CacheFields, Limits, Left
<1>3. m = [x \in {"url", "port", "enabled", "ram", "disk", "dir", "offline", "network"} |-> m[x]]
  BY <1>1 DEF Merged
<1> HIDE DEF m
<1>4. /\ b.url \in NodeUrls \cup {Absent} /\ b.port \in Int32s \cup {Absent}
      /\ b.enabled \in BOOLEAN \cup {Absent} /\ b.ram \in Int32s \cup {Absent}
      /\ b.disk \in Int32s \cup {Absent} /\ b.dir \in Paths \cup {Absent}
  BY DEF BodyRecords
<1>5. m.port \in Int64s /\ m.ram \in Uint64s /\ m.disk \in Uint64s
  <2>1. c.port \in Int64s /\ c.ram \in Uint64s /\ c.disk \in Uint64s
    BY DEF ServerConfigs
  <2>. QED BY <1>2, <1>4, <2>1, RoundTrip DEF Left
<1>6. m.url \in NodeUrls \cup {NoUrl} /\ m.enabled \in BOOLEAN /\ m.dir \in Paths
      /\ m.offline \in BOOLEAN /\ m.network \in {NetworkOf[u] : u \in NodeUrls} \cup {Absent}
  <2>1. /\ c.url \in NodeUrls \cup {NoUrl} /\ c.enabled \in BOOLEAN /\ c.dir \in Paths
        /\ c.offline \in BOOLEAN /\ c.network \in {NetworkOf[u] : u \in NodeUrls} \cup {Absent}
    BY DEF ServerConfigs
  <2>. QED BY <1>2, <1>4, <2>1
<1>7. m \in ServerConfigs
  BY <1>3, <1>5, <1>6 DEF ServerConfigs
<1>. QED BY <1>2, <1>7 DEF m

LEMMA OverriddenFields ==
  ASSUME NEW r, NEW b
  PROVE  LET e == Overridden(r, b) IN
         /\ e = [x \in BodyFields |-> e[x]]
         /\ e.url = IF b.url = Absent THEN r.url ELSE b.url
         /\ e.port = IF Left(b.port) THEN r.port ELSE b.port
         /\ e.enabled = IF b.enabled = Absent THEN r.enabled ELSE b.enabled
         /\ e.ram = IF Left(b.ram) THEN r.ram ELSE b.ram
         /\ e.disk = IF Left(b.disk) THEN r.disk ELSE b.disk
         /\ e.dir = Resolved(IF b.dir = Absent THEN r.dir ELSE b.dir)
<1> DEFINE g == [x \in BodyFields |-> IF Omitted(b, x) THEN r[x] ELSE b[x]]
<1>1. /\ g.url = IF b.url = Absent THEN r.url ELSE b.url
      /\ g.port = IF Left(b.port) THEN r.port ELSE b.port
      /\ g.enabled = IF b.enabled = Absent THEN r.enabled ELSE b.enabled
      /\ g.ram = IF Left(b.ram) THEN r.ram ELSE b.ram
      /\ g.disk = IF Left(b.disk) THEN r.disk ELSE b.disk
      /\ g.dir = IF b.dir = Absent THEN r.dir ELSE b.dir
  BY DEF Omitted, BodyFields, CacheFields, Limits, Left
<1>2. g = [x \in BodyFields |-> g[x]]
  OBVIOUS
<1>3. Overridden(r, b) = [g EXCEPT !.dir = Resolved(g.dir)]
  BY DEF Overridden
<1> HIDE DEF g
<1>. QED BY <1>1, <1>2, <1>3 DEF BodyFields, CacheFields, Limits

\* What is loaded when c was saved, before a node is asked.
LEMMA SavedFields ==
  ASSUME NEW c \in ServerConfigs
  PROVE  /\ ToYaml(c) \in FileRecords
         /\ Filled(ToYaml(c)) \in ServerConfigs
         /\ Filled(ToYaml(c)).url = c.url
         /\ Filled(ToYaml(c)).port = c.port
         /\ Filled(ToYaml(c)).enabled = c.enabled
         /\ Filled(ToYaml(c)).ram = c.ram
         /\ Filled(ToYaml(c)).disk = c.disk
         /\ Filled(ToYaml(c)).dir = Resolved(c.dir)
<1> DEFINE f == ToYaml(c)
<1>1. /\ c.url \in NodeUrls \cup {NoUrl} /\ c.port \in Int64s /\ c.enabled \in BOOLEAN
      /\ c.ram \in Uint64s /\ c.disk \in Uint64s /\ c.dir \in Paths
      /\ c.offline \in BOOLEAN
  BY DEF ServerConfigs
<1>2. /\ f = [x \in {"url", "port", "enabled", "ram", "disk", "dir", "offline"} |-> f[x]]
      /\ f.url = c.url /\ f.port = c.port /\ f.enabled = c.enabled /\ f.ram = c.ram
      /\ f.disk = c.disk /\ f.dir = c.dir /\ f.offline = c.offline
  BY DEF ToYaml, Fields, BodyFields, CacheFields, Limits
<1> HIDE DEF f
<1>3. f \in FileRecords
  BY <1>1, <1>2 DEF FileRecords
<1>4. /\ f.url # Absent /\ f.port # Absent /\ f.enabled # Absent /\ f.ram # Absent /\ f.disk # Absent
      /\ f.dir # Absent
  BY <1>1, <1>2, Distinct
<1>5. /\ Filled(f) \in ServerConfigs
      /\ Filled(f).url = f.url /\ Filled(f).port = f.port /\ Filled(f).enabled = f.enabled
      /\ Filled(f).ram = f.ram /\ Filled(f).disk = f.disk
      /\ Filled(f).dir = Resolved(f.dir)
  BY <1>3, <1>4, FilledFields
<1>. QED BY <1>2, <1>3, <1>5 DEF f

-----------------------------------------------------------------------------
(* Configurations that agree with what was promised.                       *)

Reports(c, e) == \A x \in BodyFields : Report(c)[x] = e[x]

NetworkOK(c) == c.network # Absent => c.url \in NodeUrls /\ c.network = NetworkOf[c.url]

Agrees(c, e) ==
  /\ \A x \in BodyFields :
       Report(c)[x] = e[x] \/ (x = "url" /\ c.offline /\ c.url = NoUrl)
  /\ NetworkOK(c)

LEMMA ReportsFields ==
  ASSUME NEW c, NEW e
  PROVE  Reports(c, e) <=>
           /\ Report(c).url = e.url /\ Report(c).port = e.port
           /\ Report(c).enabled = e.enabled /\ Report(c).ram = e.ram
           /\ Report(c).disk = e.disk /\ Report(c).dir = e.dir
BY DEF Reports, BodyFields, CacheFields, Limits

\* A request: what is saved reports what was asked for.
LEMMA SavedReports ==
  ASSUME NEW c \in ServerConfigs, NEW b \in BodyRecords,
         b.url # Absent
  PROVE  Reports(Filled(ToYaml(Merged(c, b))), Overridden(Report(c), b))
<1> DEFINE m == Merged(c, b)
           d == Filled(ToYaml(m))
           r == Report(c)
           e == Overridden(r, b)
<1>1. /\ m \in ServerConfigs
      /\ m.url = b.url
      /\ m.port = IF Left(b.port) THEN c.port ELSE b.port
      /\ m.enabled = IF b.enabled = Absent THEN c.enabled ELSE b.enabled
      /\ m.ram = IF Left(b.ram) THEN c.ram ELSE Uint64(b.ram)
      /\ m.disk = IF Left(b.disk) THEN c.disk ELSE Uint64(b.disk)
      /\ m.dir = IF b.dir = Absent THEN c.dir ELSE b.dir
  BY MergedFields
<1>2. /\ e.url = b.url
      /\ e.port = IF Left(b.port) THEN r.port ELSE b.port
      /\ e.enabled = IF b.enabled = Absent THEN r.enabled ELSE b.enabled
      /\ e.ram = IF Left(b.ram) THEN r.ram ELSE b.ram
      /\ e.disk = IF Left(b.disk) THEN r.disk ELSE b.disk
      /\ e.dir = Resolved(IF b.dir = Absent THEN r.dir ELSE b.dir)
  BY OverriddenFields
<1>3. /\ r.port = Shown(Int32(c.port)) /\ r.enabled = c.enabled
      /\ r.ram = Shown(Int32(c.ram)) /\ r.disk = Shown(Int32(c.disk)) /\ r.dir = c.dir
  BY ReportFields
<1> HIDE DEF m, r, e
<1>4. /\ d \in ServerConfigs /\ d.url = m.url /\ d.port = m.port /\ d.enabled = m.enabled
      /\ d.ram = m.ram /\ d.disk = m.disk /\ d.dir = Resolved(m.dir)
  BY <1>1, SavedFields
<1> HIDE DEF d
<1>5. /\ Report(d).url = d.url
      /\ Report(d).port = Shown(Int32(d.port))
      /\ Report(d).enabled = d.enabled
      /\ Report(d).ram = Shown(Int32(d.ram))
      /\ Report(d).disk = Shown(Int32(d.disk))
      /\ Report(d).dir = d.dir
  BY <1>4, ReportFields
<1>6. \A n \in Int32s \cup {Absent} :
        ~Left(n) => Shown(Int32(n)) = n /\ Shown(Int32(Uint64(n))) = n
  BY RoundTrip DEF Left, Shown
<1>7. b.port \in Int32s \cup {Absent} /\ b.ram \in Int32s \cup {Absent}
      /\ b.disk \in Int32s \cup {Absent}
  BY DEF BodyRecords
<1>8. Report(d).port = e.port
  BY <1>1, <1>2, <1>3, <1>4, <1>5, <1>6, <1>7
<1>9. Report(d).ram = e.ram
  BY <1>1, <1>2, <1>3, <1>4, <1>5, <1>6, <1>7
<1>10. Report(d).disk = e.disk
  BY <1>1, <1>2, <1>3, <1>4, <1>5, <1>6, <1>7
<1>11. Report(d).url = e.url /\ Report(d).enabled = e.enabled /\ Report(d).dir = e.dir
  BY <1>1, <1>2, <1>3, <1>4, <1>5
<1>. QED BY <1>8, <1>9, <1>10, <1>11, ReportsFields DEF d, e, m, r

\* A poll: what is saved reports the same but for the URL.
LEMMA SyncedReports ==
  ASSUME NEW c \in ServerConfigs, NEW url \in NodeUrls, NEW e,
         e = [x \in BodyFields |-> e[x]], e.dir \in AbsolutePaths, Agrees(c, e)
  PROVE  Reports(Filled(ToYaml([c EXCEPT !.url = url, !.network = NetworkOf[url]])),
                 [e EXCEPT !.url = url])
<1> DEFINE m == [c EXCEPT !.url = url, !.network = NetworkOf[url]]
           d == Filled(ToYaml(m))
           g == [e EXCEPT !.url = url]
<1>1. /\ m \in ServerConfigs /\ m.url = url /\ m.port = c.port /\ m.enabled = c.enabled
      /\ m.ram = c.ram /\ m.disk = c.disk /\ m.dir = c.dir
  BY DEF ServerConfigs
<1>2. /\ g.url = url /\ g.port = e.port /\ g.enabled = e.enabled /\ g.ram = e.ram
      /\ g.disk = e.disk /\ g.dir = e.dir
  BY DEF BodyFields, CacheFields, Limits
<1> HIDE DEF m, g
<1>3. /\ d \in ServerConfigs /\ d.url = m.url /\ d.port = m.port /\ d.enabled = m.enabled
      /\ d.ram = m.ram /\ d.disk = m.disk /\ d.dir = Resolved(m.dir)
  BY <1>1, SavedFields
<1> HIDE DEF d
<1>4. /\ Report(d).url = d.url
      /\ Report(d).port = Shown(Int32(d.port))
      /\ Report(d).enabled = d.enabled
      /\ Report(d).ram = Shown(Int32(d.ram))
      /\ Report(d).disk = Shown(Int32(d.disk))
      /\ Report(d).dir = d.dir
  BY <1>3, ReportFields
<1>5. /\ Report(c).port = Shown(Int32(c.port))
      /\ Report(c).enabled = c.enabled
      /\ Report(c).ram = Shown(Int32(c.ram))
      /\ Report(c).disk = Shown(Int32(c.disk))
      /\ Report(c).dir = c.dir
  BY ReportFields
<1>6. /\ Report(c).port = e.port /\ Report(c).enabled = e.enabled
      /\ Report(c).ram = e.ram /\ Report(c).disk = e.disk /\ Report(c).dir = e.dir
  BY DEF Agrees, BodyFields, CacheFields, Limits
<1>7. Resolved(m.dir) = m.dir
  <2>1. m.dir \in Paths /\ m.dir \in AbsolutePaths
    BY <1>1, <1>5, <1>6 DEF Paths
  <2>. QED BY <2>1, ResolvedPath
<1>8. Reports(d, g)
  BY <1>1, <1>2, <1>3, <1>4, <1>5, <1>6, <1>7, ReportsFields
<1>. QED BY <1>8, Zenon DEF d, m, g

LEMMA OnlyUrlLost ==
  ASSUME NEW c \in ServerConfigs, NEW d \in ServerConfigs,
         c.port = d.port, c.enabled = d.enabled, c.ram = d.ram, c.disk = d.disk, c.dir = d.dir,
         c.url = d.url \/ (c.offline /\ c.url = NoUrl), NetworkOK(c)
  PROVE  \A e : Reports(d, e) => Agrees(c, e)
<1>. SUFFICES ASSUME NEW e, Reports(d, e) PROVE Agrees(c, e)
  OBVIOUS
<1>1. /\ Report(c).url = c.url
      /\ Report(c).port = e.port
      /\ Report(c).enabled = e.enabled
      /\ Report(c).ram = e.ram
      /\ Report(c).disk = e.disk
      /\ Report(c).dir = e.dir
      /\ e.url = d.url
  <2>1. /\ Report(c).url = c.url
        /\ Report(c).port = Shown(Int32(c.port))
        /\ Report(c).enabled = c.enabled
        /\ Report(c).ram = Shown(Int32(c.ram))
        /\ Report(c).disk = Shown(Int32(c.disk))
        /\ Report(c).dir = c.dir
    BY ReportFields
  <2>2. /\ Report(d).url = d.url
        /\ Report(d).port = Shown(Int32(d.port))
        /\ Report(d).enabled = d.enabled
        /\ Report(d).ram = Shown(Int32(d.ram))
        /\ Report(d).disk = Shown(Int32(d.disk))
        /\ Report(d).dir = d.dir
    BY ReportFields
  <2>. QED BY <2>1, <2>2, ReportsFields
<1>. QED BY <1>1 DEF Agrees, BodyFields, CacheFields, Limits

\* Of a file that can be read a load makes what it says; only the URL may be lost.
LEMMA LoadedAgrees ==
  ASSUME NEW f \in FileRecords,
         NEW c \in Loaded(f) \cup Refreshed(f), c # Down
  PROVE  /\ c \in ServerConfigs
         /\ \A e : Reports(Filled(f), e) => Agrees(c, e)
<1> DEFINE d == Filled(f)
<1>1. d \in ServerConfigs /\ d.network = Absent
  BY FilledFields
<1> HIDE DEF d
<1>2. f # Missing /\ f # Garbled /\ Down \notin ServerConfigs /\ Error \notin ServerConfigs
      /\ Down # Error
  BY SettingsAssumption
<1>3. WithoutNodeData(f) = {d}
  BY <1>2 DEF WithoutNodeData, d
<1>4. Loaded(f) = WithNodeData(d)
  BY <1>1, <1>2, <1>3 DEF Loaded
<1> DEFINE asked == [d EXCEPT !.network = NetworkOf[d.url]]
           lost == [d EXCEPT !.url = NoUrl, !.network = Absent]
<1>5. \/ c = d
      \/ c = asked /\ d.url # NoUrl
      \/ c = lost /\ d.offline
  <2>1. \A l \in WithNodeData(d) : \/ l = Down
                                   \/ l = asked /\ d.url # NoUrl
                                   \/ l = lost /\ d.offline
    BY DEF WithNodeData, AskedNode
  <2>2. asked \in ServerConfigs \/ d.url = NoUrl
    BY <1>1 DEF ServerConfigs
  <2>3. lost \in ServerConfigs
    BY <1>1 DEF ServerConfigs
  <2>4. \A l \in Loaded(f) : l # Error
    BY <1>2, <1>4, <2>1, <2>2, <2>3
  <2> HIDE DEF asked, lost
  <2>5. c \in Loaded(f) \/ c = d
    BY <1>2, <1>3, <1>1, <2>4 DEF Refreshed
  <2>. QED BY <1>4, <2>1, <2>5
<1>6. CASE c = d
  <2>1. c \in ServerConfigs /\ NetworkOK(c)
    BY <1>1, <1>6 DEF NetworkOK
  <2>2. \A e : Reports(d, e) => Agrees(c, e)
    BY <1>6, <2>1 DEF Reports, Agrees
  <2>. QED BY <2>1, <2>2 DEF d
<1>7. CASE c = asked /\ d.url # NoUrl
  <2>1. /\ c \in ServerConfigs /\ c.url = d.url /\ c.url \in NodeUrls /\ c.network = NetworkOf[c.url]
        /\ c.port = d.port /\ c.enabled = d.enabled /\ c.ram = d.ram /\ c.disk = d.disk
        /\ c.dir = d.dir
    BY <1>1, <1>7 DEF ServerConfigs
  <2>. QED BY <1>1, <2>1, OnlyUrlLost DEF NetworkOK, d
<1>8. CASE c = lost /\ d.offline
  <2>1. /\ c \in ServerConfigs /\ c.url = NoUrl /\ c.network = Absent /\ c.offline
        /\ c.port = d.port /\ c.enabled = d.enabled /\ c.ram = d.ram /\ c.disk = d.disk
        /\ c.dir = d.dir
    BY <1>1, <1>8 DEF ServerConfigs
  <2>. QED BY <1>1, <2>1, OnlyUrlLost DEF NetworkOK, d
<1>. QED BY <1>5, <1>6, <1>7, <1>8

LEMMA LoadedType ==
  ASSUME NEW f \in FileRecords \cup {Missing, Garbled}
  PROVE  /\ Loaded(f) \subseteq ServerConfigs \cup {Down, Error}
         /\ Refreshed(f) \subseteq ServerConfigs \cup {Error, Panic}
<1>1. /\ {Missing, Garbled} \cap FileRecords = {} /\ Missing # Garbled
      /\ {Down, Error, Panic} \cap ServerConfigs = {}
      /\ Down # Error /\ Down # Panic /\ Error # Panic
  BY SettingsAssumption
<1>2. \A l \in WithoutNodeData(f) : l \in ServerConfigs \cup {Down, Error}
  <2>1. CASE f \in FileRecords
    <3>1. WithoutNodeData(f) = {Filled(f)}
      BY <1>1, <2>1 DEF WithoutNodeData
    <3>. QED BY <2>1, <3>1, FilledFields
  <2>2. CASE f = Missing
    <3> DEFINE d == [DefaultConfig EXCEPT !.network = NetworkOf[DefaultConfig.url]]
    <3>1. WithoutNodeData(f) \subseteq {Down, d}
      <4>1. WithoutNodeData(f) = AskedNode(DefaultConfig)
        BY <1>1, <2>2 DEF WithoutNodeData
      <4>2. AskedNode(DefaultConfig) \subseteq {Down, d}
        BY DEF AskedNode
      <4>. QED BY <4>1, <4>2
    <3>2. d \in ServerConfigs
      <4>1. DefaultDir \in Paths
        BY SettingsAssumption DEF Paths
      <4>. QED BY <4>1, Distinct DEF ServerConfigs, DefaultConfig
    <3>. QED BY <3>1, <3>2
  <2>3. CASE f = Garbled
    BY <1>1, <2>3 DEF WithoutNodeData
  <2>. QED BY <2>1, <2>2, <2>3
<1>3. ASSUME NEW d \in ServerConfigs, NEW l \in WithNodeData(d)
      PROVE  l \in ServerConfigs \cup {Down}
  <2> DEFINE asked == [d EXCEPT !.network = NetworkOf[d.url]]
             lost == [d EXCEPT !.url = NoUrl, !.network = Absent]
  <2>1. l = Down \/ (l = asked /\ d.url # NoUrl) \/ l = lost
    BY <1>3 DEF WithNodeData, AskedNode
  <2>2. d.url # NoUrl => asked \in ServerConfigs
    BY DEF ServerConfigs
  <2>3. lost \in ServerConfigs
    BY DEF ServerConfigs
  <2>. QED BY <2>1, <2>2, <2>3
<1>4. ASSUME NEW l \in Loaded(f) PROVE l \in ServerConfigs \cup {Down, Error}
  <2>1. PICK d \in WithoutNodeData(f) :
          l \in (IF d \in {Down, Error} THEN {d} ELSE WithNodeData(d))
    BY <1>4 DEF Loaded
  <2>. QED BY <1>1, <1>2, <1>3, <2>1
<1>5. ASSUME NEW r \in Refreshed(f) PROVE r \in ServerConfigs \cup {Error, Panic}
  <2>1. PICK l \in Loaded(f) :
          \/ l = Down /\ r \in {IF d = Down THEN Error ELSE d : d \in WithoutNodeData(f)}
          \/ l = Error /\ r = Panic
          \/ l \notin {Down, Error} /\ r = l
    BY <1>1 DEF Refreshed
  <2>. QED BY <1>1, <1>2, <1>4, <2>1
<1>. QED BY <1>4, <1>5

-----------------------------------------------------------------------------
(* The invariant: the file says what was promised, too.                    *)

Typed ==
  /\ yaml \in FileRecords \cup {Missing, Garbled}
  /\ config \in ServerConfigs \cup {Absent} /\ deweb \in ServerConfigs \cup {Absent}
  /\ plugin \in {"running", "down"}
  /\ starting \in BOOLEAN
  /\ reply \in {"ok", "invalid", "failed", "closed"}
  /\ edits \in 0 .. MaxEdits

Promised ==
  expected # Absent =>
    /\ yaml \in FileRecords /\ Reports(Filled(yaml), expected)
    /\ expected = [x \in BodyFields |-> expected[x]] /\ expected.dir \in AbsolutePaths
    /\ config # Absent => Agrees(config, expected)
    /\ deweb # Absent => Agrees(deweb, expected)

SInv == Typed /\ Promised

\* What a handler or a poll works with.
LEMMA GotConfig ==
  ASSUME SInv,
         NEW c \in GotServerConfig, c # Error, c # Panic
  PROVE  c \in ServerConfigs /\ (expected # Absent => Agrees(c, expected))
<1>1. Down \notin ServerConfigs /\ Down # Error /\ Down # Panic
  BY SettingsAssumption
<1>2. CASE config # Absent
  BY <1>2 DEF GotServerConfig, SInv, Typed, Promised
<1>3. CASE config = Absent
  <2>1. c \in Refreshed(yaml)
    BY <1>3 DEF GotServerConfig
  <2>2. c \in ServerConfigs
    BY <2>1, LoadedType DEF SInv, Typed
  <2>3. c # Down
    BY <1>1, <2>2
  <2>. QED BY <2>1, <2>2, <2>3, LoadedAgrees DEF SInv, Promised
<1>. QED BY <1>2, <1>3

LEMMA SavedConfig ==
  ASSUME NEW c \in ServerConfigs, SavesConfig(c)
  PROVE  /\ yaml' \in FileRecords /\ config' \in ServerConfigs
         /\ \A e : Reports(Filled(ToYaml(c)), e) =>
              Reports(Filled(yaml'), e) /\ Agrees(config', e)
<1>1. yaml' = ToYaml(c) /\ config' \in Refreshed(yaml')
  BY DEF SavesConfig
<1>2. yaml' \in FileRecords
  BY <1>1, SavedFields
<1>3. config' # Down
  <2>1. config' \in ServerConfigs \cup {Error, Panic}
    BY <1>1, <1>2, LoadedType
  <2>. QED BY <2>1, SettingsAssumption
<1>. QED BY <1>1, <1>2, <1>3, LoadedAgrees

LEMMA BlankFiles ==
  Blank \in FileRecords /\ CreatedFile \in FileRecords
<1>1. Blank \in FileRecords
  BY DEF Blank, FileRecords, Fields, BodyFields, CacheFields, Limits
<1>2. PluginCacheDir \in Paths
  BY SettingsAssumption DEF Paths
<1>3. CreatedFile \in FileRecords
  <2> DEFINE b == Blank
  <2>1. CreatedFile = [b EXCEPT !.url = MainnetUrl, !.port = 0, !.enabled = TRUE,
                !.ram = DefaultLimit, !.disk = DefaultLimit, !.dir = PluginCacheDir]
    BY DEF CreatedFile
  <2> HIDE DEF b
  <2>2. b \in FileRecords
    BY <1>1 DEF b
  <2>. QED BY <1>2, <2>1, <2>2, Distinct DEF FileRecords
<1>. QED BY <1>1, <1>3

LEMMA SInvInit == SettingsInit => SInv
<1>. SUFFICES ASSUME SettingsInit PROVE SInv
  OBVIOUS
<1>1. Edits \subseteq FileRecords \cup {Missing, Garbled} /\ MaxEdits \in Nat
  BY SettingsAssumption
<1>2. Typed
  <2>1. starting \in BOOLEAN
    BY Zenon DEF SettingsInit
  <2>2. edits \in 0 .. MaxEdits
    BY <1>1 DEF SettingsInit
  <2>3. /\ yaml \in FileRecords \cup {Missing, Garbled}
        /\ config = Absent /\ deweb = Absent /\ plugin = "down" /\ reply = "ok"
    BY <1>1 DEF SettingsInit
  <2>. QED BY <2>1, <2>2, <2>3 DEF Typed
<1>3. Promised
  BY DEF SettingsInit, Promised
<1>. QED BY <1>2, <1>3 DEF SInv

\* The configuration of a new process is not known, and its file is what it was
\* when there was one.
LEMMA BootsOK ==
  ASSUME SInv, Boots
  PROVE  SInv'
<1>1. /\ yaml' = yaml \/ (yaml' \in FileRecords /\ yaml = Missing)
      /\ plugin' = "running" /\ config' = Absent /\ deweb' = Absent /\ starting' = TRUE
      /\ reply' = reply /\ edits' = edits /\ expected' = expected
  BY BlankFiles DEF Boots, EnsuresFile
<1>2. Typed'
  BY <1>1 DEF SInv, Typed
<1>3. yaml \in FileRecords => yaml' = yaml
  BY <1>1, SettingsAssumption
<1>4. Promised'
  BY <1>1, <1>3 DEF SInv, Promised
<1>. QED BY <1>2, <1>4 DEF SInv

\* A step that gets the configuration, keeps it, and answers.
LEMMA ReadOK ==
  ASSUME SInv,
         config' = config \/ config' \in GotServerConfig \ {Error, Panic},
         UNCHANGED <<yaml, deweb, starting, edits, expected>>,
         plugin' \in {"running", "down"},
         reply' \in {"ok", "invalid", "failed", "closed"}
  PROVE  SInv'
<1>1. /\ config' = config \/ config' \in ServerConfigs
      /\ expected # Absent => config' = config \/ Agrees(config', expected)
  BY GotConfig
<1>2. Typed'
  BY <1>1 DEF SInv, Typed
<1>3. Promised'
  BY <1>1 DEF SInv, Promised
<1>. QED BY <1>2, <1>3 DEF SInv

\* A step that loses track of the settings.
LEMMA LostOK ==
  ASSUME SInv, expected' = Absent,
         yaml' \in FileRecords \cup {Missing, Garbled},
         config' \in ServerConfigs \cup {Absent}, deweb' \in ServerConfigs \cup {Absent},
         plugin' = plugin, starting' \in BOOLEAN,
         reply' \in {"ok", "invalid", "failed", "closed"}, edits' \in 0 .. MaxEdits
  PROVE  SInv'
<1>1. Typed'
  BY DEF SInv, Typed
<1>2. Promised'
  BY DEF Promised
<1>. QED BY <1>1, <1>2 DEF SInv

LEMMA GetsOK ==
  ASSUME SInv, GetsSettings \/ GetsStatus
  PROVE  SInv'
<1>1. /\ config' = config \/ config' \in GotServerConfig \ {Error, Panic}
      /\ UNCHANGED <<yaml, deweb, starting, edits, expected, plugin>>
      /\ reply' \in {"ok", "failed", "closed"}
  BY DEF GetsSettings, GetsStatus, NotLoaded, GetsPort
<1>2. plugin' \in {"running", "down"}
  BY <1>1 DEF SInv, Typed
<1>. QED BY <1>1, <1>2, ReadOK

LEMMA UpdatesOK ==
  ASSUME SInv, NEW b \in Bodies, UpdatesSettings(b)
  PROVE  SInv'
<1>1. Valid(b) => b \in BodyRecords /\ b.url # Absent
  BY SettingsAssumption DEF Valid, ValidSettings
<1>2. plugin' = plugin /\ edits' = edits
  BY DEF UpdatesSettings
<1>3. /\ yaml \in FileRecords \cup {Missing, Garbled}
      /\ config \in ServerConfigs \cup {Absent} /\ deweb \in ServerConfigs \cup {Absent}
      /\ plugin \in {"running", "down"} /\ starting \in BOOLEAN
      /\ edits \in 0 .. MaxEdits
  BY DEF SInv, Typed
<1>4. \/ /\ reply' \in {"invalid", "failed", "closed"}
         /\ UNCHANGED <<yaml, config, deweb, starting, expected>>
      \/ \E c \in GotServerConfig \ {Error, Panic} :
           /\ Valid(b)
           /\ config' = Merged(c, b) /\ reply' = "failed" /\ expected' = Absent
           /\ (yaml' = yaml /\ deweb' = deweb) \/ (yaml' \in {yaml, Blank} /\ deweb' = Absent)
           /\ starting' = starting
      \/ \E c \in GotServerConfig \ {Error, Panic} :
           /\ Valid(b)
           /\ SavesConfig(Merged(c, b))
           /\ reply' = "ok" /\ expected' = Overridden(Report(c), b)
           /\ deweb' = Absent /\ starting' = TRUE
  BY DEF UpdatesSettings, NotLoaded, SaveFails
<1>5. CASE /\ reply' \in {"invalid", "failed", "closed"}
           /\ UNCHANGED <<yaml, config, deweb, starting, expected>>
  BY <1>2, <1>3, <1>5, ReadOK
<1>6. ASSUME NEW c \in GotServerConfig \ {Error, Panic}, Valid(b),
             config' = Merged(c, b), reply' = "failed", expected' = Absent,
             (yaml' = yaml /\ deweb' = deweb) \/ (yaml' \in {yaml, Blank} /\ deweb' = Absent),
             starting' = starting
      PROVE  SInv'
  <2>1. config' \in ServerConfigs
    BY <1>1, <1>6, GotConfig, MergedFields
  <2>. QED BY <1>2, <1>3, <1>6, <2>1, BlankFiles, LostOK
<1>7. ASSUME NEW c \in GotServerConfig \ {Error, Panic}, Valid(b),
             SavesConfig(Merged(c, b)), reply' = "ok",
             expected' = Overridden(Report(c), b), deweb' = Absent, starting' = TRUE
      PROVE  SInv'
  <2> DEFINE m == Merged(c, b)
             e == Overridden(Report(c), b)
  <2>1. c \in ServerConfigs
    BY GotConfig
  <2>2. m \in ServerConfigs /\ m.dir \in Paths
    BY <1>1, <1>7, <2>1, MergedFields DEF ServerConfigs
  <2>3. Reports(Filled(ToYaml(m)), e)
    BY <1>1, <1>7, <2>1, SavedReports
  <2>4. e = [x \in BodyFields |-> e[x]] /\ e.dir \in AbsolutePaths
    <3>1. /\ e = [x \in BodyFields |-> e[x]]
          /\ e.dir = Resolved(IF b.dir = Absent THEN Report(c).dir ELSE b.dir)
      BY OverriddenFields
    <3>2. Report(c).dir \in Paths
      BY <2>1, ReportFields DEF ServerConfigs
    <3>3. b.dir \in Paths \cup {Absent}
      BY <1>1, <1>7 DEF BodyRecords
    <3>. QED BY <3>1, <3>2, <3>3, ResolvedPath
  <2> HIDE DEF m, e
  <2>5. SavesConfig(m) /\ expected' = e
    BY <1>7 DEF m, e
  <2>6. /\ yaml' \in FileRecords /\ config' \in ServerConfigs
        /\ Reports(Filled(yaml'), e) /\ Agrees(config', e)
    BY <2>2, <2>3, <2>5, SavedConfig
  <2>7. Typed'
    BY <1>2, <1>3, <1>7, <2>6 DEF Typed
  <2>8. Promised'
    BY <1>7, <2>4, <2>5, <2>6 DEF Promised
  <2>. QED BY <2>7, <2>8 DEF SInv
<1>. QED BY <1>4, <1>5, <1>6, <1>7

LEMMA SyncsOK ==
  ASSUME SInv, NEW url \in NodeUrls, Syncs(url)
  PROVE  SInv'
<1> DEFINE Sent(c) == [c EXCEPT !.url = url, !.network = NetworkOf[url]]
           New(e) == [e EXCEPT !.url = url]
<1>1. reply' = reply /\ edits' = edits
  BY DEF Syncs
<1>2. /\ yaml \in FileRecords \cup {Missing, Garbled}
      /\ config \in ServerConfigs \cup {Absent} /\ deweb \in ServerConfigs \cup {Absent}
      /\ plugin \in {"running", "down"} /\ starting \in BOOLEAN
      /\ reply \in {"ok", "invalid", "failed", "closed"} /\ edits \in 0 .. MaxEdits
  BY DEF SInv, Typed
<1>3. \/ plugin' = "down" /\ UNCHANGED <<yaml, config, deweb, starting, expected>>
      \/ \E c \in GotServerConfig \ {Error, Panic} :
           config' = c /\ UNCHANGED <<plugin, yaml, deweb, starting, expected>>
      \/ \E c \in GotServerConfig \ {Error, Panic} :
           /\ yaml' \in {yaml, Blank} /\ config' = c /\ expected' = Absent
           /\ deweb' = Absent /\ starting' = starting /\ plugin' = plugin
      \/ \E c \in GotServerConfig \ {Error, Panic} :
           /\ SavesConfig(Sent(c))
           /\ expected' = IF expected = Absent THEN Absent ELSE New(expected)
           /\ deweb' = Absent /\ starting' = TRUE /\ plugin' = plugin
  BY DEF Syncs, SaveFails
<1>4. CASE plugin' = "down" /\ UNCHANGED <<yaml, config, deweb, starting, expected>>
  BY <1>1, <1>2, <1>4, ReadOK
<1>5. CASE \E c \in GotServerConfig \ {Error, Panic} :
             config' = c /\ UNCHANGED <<plugin, yaml, deweb, starting, expected>>
  BY <1>1, <1>2, <1>5, ReadOK
<1>6. ASSUME NEW c \in GotServerConfig \ {Error, Panic},
             yaml' \in {yaml, Blank}, config' = c, expected' = Absent,
             deweb' = Absent, starting' = starting, plugin' = plugin
      PROVE  SInv'
  <2>1. c \in ServerConfigs
    BY GotConfig
  <2>. QED BY <1>1, <1>2, <1>6, <2>1, BlankFiles, LostOK
<1>7. ASSUME NEW c \in GotServerConfig \ {Error, Panic}, SavesConfig(Sent(c)),
             expected' = IF expected = Absent THEN Absent ELSE New(expected),
             deweb' = Absent, starting' = TRUE, plugin' = plugin
      PROVE  SInv'
  <2>1. c \in ServerConfigs /\ (expected # Absent => Agrees(c, expected))
    BY GotConfig
  <2>2. Sent(c) \in ServerConfigs
    BY <2>1 DEF ServerConfigs
  <2>3. expected # Absent =>
          /\ Reports(Filled(ToYaml(Sent(c))), New(expected))
          /\ New(expected) = [x \in BodyFields |-> New(expected)[x]]
          /\ New(expected).dir \in AbsolutePaths
    <3>. SUFFICES ASSUME expected # Absent
                  PROVE  /\ Reports(Filled(ToYaml(Sent(c))), New(expected))
                         /\ New(expected) = [x \in BodyFields |-> New(expected)[x]]
                         /\ New(expected).dir \in AbsolutePaths
      OBVIOUS
    <3>1. expected = [x \in BodyFields |-> expected[x]] /\ expected.dir \in AbsolutePaths
      BY DEF SInv, Promised
    <3>2. Reports(Filled(ToYaml(Sent(c))), New(expected))
      BY <2>1, <3>1, SyncedReports
    <3>3. New(expected) = [x \in BodyFields |-> New(expected)[x]]
      BY <3>1
    <3>4. New(expected).dir \in AbsolutePaths
      BY <3>1 DEF BodyFields, CacheFields, Limits
    <3>. QED BY <3>2, <3>3, <3>4
  <2> DEFINE m == Sent(c)
             e == New(expected)
  <2>4. SavesConfig(m) /\ m \in ServerConfigs
    BY <1>7, <2>2
  <2>5. expected # Absent =>
          /\ Reports(Filled(ToYaml(m)), e)
          /\ e = [x \in BodyFields |-> e[x]] /\ e.dir \in AbsolutePaths
    BY <2>3
  <2>6. expected' = IF expected = Absent THEN Absent ELSE e
    BY <1>7
  <2> HIDE DEF m, e
  <2>7. yaml' \in FileRecords /\ config' \in ServerConfigs
    BY <2>4, SavedConfig
  <2>8. expected # Absent => Reports(Filled(yaml'), e) /\ Agrees(config', e)
    BY <2>4, <2>5, SavedConfig
  <2>9. Typed'
    BY <1>1, <1>2, <1>7, <2>7 DEF Typed
  <2>10. Promised'
    BY <1>7, <2>5, <2>6, <2>7, <2>8 DEF Promised
  <2>. QED BY <2>9, <2>10 DEF SInv
<1> HIDE DEF Sent, New
<1>. QED BY <1>3, <1>4, <1>5, <1>6, <1>7

LEMMA StartsServerOK ==
  ASSUME SInv, ServerStarts
  PROVE  SInv'
<1>1. /\ UNCHANGED <<yaml, config, plugin, reply, edits, expected>> /\ starting' = FALSE
      /\ \/ deweb' = deweb \/ deweb' = Absent
         \/ deweb' \in Loaded(yaml) /\ deweb' # Down /\ deweb' # Error
  BY DEF ServerStarts
<1>2. Typed'
  <2>1. deweb' \in ServerConfigs \cup {Absent}
    BY <1>1, LoadedType DEF SInv, Typed
  <2>. QED BY <1>1, <2>1 DEF SInv, Typed
<1>3. Promised'
  <2>1. expected # Absent => \/ deweb' = deweb \/ deweb' = Absent
                             \/ Agrees(deweb', expected)
    BY <1>1, LoadedAgrees DEF SInv, Promised
  <2>. QED BY <1>1, <2>1 DEF SInv, Promised
<1>. QED BY <1>2, <1>3 DEF SInv

LEMMA EditsOK ==
  ASSUME SInv, EditsFile
  PROVE  SInv'
<1>1. /\ yaml' \in Edits /\ expected' = Absent /\ edits' = edits + 1 /\ edits < MaxEdits
      /\ UNCHANGED <<config, plugin, deweb, starting, reply>>
  BY DEF EditsFile
<1>2. Edits \subseteq FileRecords \cup {Missing, Garbled} /\ MaxEdits \in Nat
  BY SettingsAssumption
<1>3. /\ config \in ServerConfigs \cup {Absent} /\ deweb \in ServerConfigs \cup {Absent}
      /\ starting \in BOOLEAN /\ reply \in {"ok", "invalid", "failed", "closed"}
      /\ edits \in 0 .. MaxEdits
  BY DEF SInv, Typed
<1>. QED BY <1>1, <1>2, <1>3, LostOK

LEMMA SInvNext == SInv /\ [SettingsNext]_settingsVars => SInv'
<1>. SUFFICES ASSUME SInv, [SettingsNext]_settingsVars PROVE SInv'
  OBVIOUS
<1>1. CASE UNCHANGED settingsVars
  BY <1>1 DEF settingsVars, SInv, Typed, Promised
<1>. QED BY <1>1, BootsOK, GetsOK, UpdatesOK, SyncsOK, StartsServerOK, EditsOK DEF SettingsNext

LEMMA SettingsInvariant == SettingsSpec => []SInv
BY SInvInit, SInvNext, PTL DEF SettingsSpec

\* Every field has its type, in the plugin and in the server, though it goes through
\* a body, two conversions of integers and a file; the path in a file is made absolute.
THEOREM SettingsTypeCorrect == SettingsSpec => []SettingsTypeOK
<1>1. SInv => SettingsTypeOK
  <2>1. \A f \in FileRecords : Filled(f) \in ServerConfigs /\ Filled(f).dir \in AbsolutePaths
    <3>1. \A f \in FileRecords : f.dir \in Paths \cup {Absent} /\ DefaultDir \in Paths
      BY SettingsAssumption DEF FileRecords, Paths
    <3>. QED BY <3>1, FilledFields, ResolvedPath
  <2>. QED BY <2>1 DEF SInv, Typed, SettingsTypeOK, Readable
<1>. QED BY <1>1, SettingsInvariant, PTL

\* Settings that a request was told are updated are what the plugin reports and what
\* the server runs with, through the file and back, across restarts, polls and nodes
\* that are down, until the next update.
THEOREM AcceptedSettingsLast == SettingsSpec => []UpdatesLast
<1>1. SInv => UpdatesLast
  BY DEF SInv, Promised, Agrees, NetworkOK, UpdatesLast
<1>. QED BY <1>1, SettingsInvariant, PTL

\* Numbers that fit an answer come back from a body that sends them.
LEMMA ResentNumber ==
  ASSUME NEW i \in Int32s
  PROVE  /\ ~Left(Shown(Int32(i))) => Shown(Int32(i)) = i
         /\ ~Left(Shown(Int32(Uint64(i)))) =>
              Uint64(Shown(Int32(Uint64(i)))) = Uint64(i)
BY RoundTrip DEF Left, Shown

\* A request that sends back the settings as they were reported changes nothing, for
\* integers of any width: no limit is lost between int32 and uint64.
THEOREM ResentReportIsNeutral == SettingsSpec => []ReportIsNeutral
<1>1. ASSUME NEW c \in ServerConfigs, Representable(c)
      PROVE  Merged(c, Report(c)) = c
  <2> DEFINE r == Report(c)
             m == Merged(c, r)
  <2>1. DOMAIN c = {"url", "port", "enabled", "ram", "disk", "dir", "offline", "network"}
        /\ c = [x \in DOMAIN c |-> c[x]]
    BY DEF ServerConfigs
  <2>2. /\ m = [x \in DOMAIN c |-> m[x]]
        /\ m.url = IF r.url = Absent THEN c.url ELSE r.url
        /\ m.port = IF Left(r.port) THEN c.port ELSE r.port
        /\ m.enabled = IF r.enabled = Absent THEN c.enabled ELSE r.enabled
        /\ m.ram = IF Left(r.ram) THEN c.ram ELSE Uint64(r.ram)
        /\ m.disk = IF Left(r.disk) THEN c.disk ELSE Uint64(r.disk)
        /\ m.dir = IF r.dir = Absent THEN c.dir ELSE r.dir
        /\ m.offline = c.offline
        /\ m.network = c.network
    <3> HIDE DEF r
    <3>. QED BY <2>1 DEF Merged, Omitted, BodyFields, CacheFields, Limits, Left
  <2>3. /\ r.url = c.url /\ r.port = Shown(Int32(c.port)) /\ r.enabled = c.enabled
        /\ r.ram = Shown(Int32(c.ram)) /\ r.disk = Shown(Int32(c.disk)) /\ r.dir = c.dir
    BY ReportFields
  <2> HIDE DEF m, r
  <2>4. c.port \in Int32s
    BY <1>1 DEF Representable
  <2>5. PICK i \in Int32s : c.ram = Uint64(i)
    BY <1>1 DEF Representable, Limits
  <2>6. PICK j \in Int32s : c.disk = Uint64(j)
    BY <1>1 DEF Representable, Limits
  <2>7. m.port = c.port
    BY <2>2, <2>3, <2>4, ResentNumber
  <2>8. m.ram = c.ram
    BY <2>2, <2>3, <2>5, ResentNumber
  <2>9. m.disk = c.disk
    BY <2>2, <2>3, <2>6, ResentNumber
  <2>10. \A x \in DOMAIN c : m[x] = c[x]
    BY <2>1, <2>2, <2>3, <2>7, <2>8, <2>9
  <2>11. m = c
    BY <2>1, <2>2, <2>10
  <2>. QED BY <2>11 DEF m, r
<1>2. SInv => ReportIsNeutral
  BY <1>1 DEF SInv, Typed, ReportIsNeutral
<1>. QED BY <1>2, SettingsInvariant, PTL
=============================================================================
