--------------------------- MODULE ServerManager ---------------------------
(***************************************************************************)
(* The plugin's ServerManager (src/plugin/int/server/manager.go): it       *)
(* launches the DeWeb server as a child process, stops it, and has a       *)
(* goroutine per child that waits for its exit.  Every method holds the    *)
(* mutex mu from beginning to end, so all of them but Stop are one step:   *)
(* Stop sleeps for up to five seconds with the mutex held.                 *)
(*                                                                         *)
(* isRunning and serverProcess are always set together, hence one          *)
(* variable.  A method that fails is an operator of its own, and so is one *)
(* that refuses; their callers are in Plugin.                              *)
(***************************************************************************)
CONSTANTS
  Callers,    \* the goroutines that call Stop
  Configs,    \* what the configuration file may hold
  None

ASSUME ManagerAssumption == None \notin Callers \cup Configs

VARIABLES
  holder,        \* the caller of Stop that holds mu
  isRunning,
  lastError,     \* the kind of the message
  binaryExists,
  server,        \* the child: none (or reaped), loading, up, or exited
  used,          \* the configuration the child runs with
  signal,        \* what the child was sent, while it lives
  monitor        \* the goroutine that waits for the child

managerVars == <<holder, isRunning, lastError, binaryExists, server, used, signal, monitor>>

ManagerTypeOK ==
  /\ holder \in Callers \cup {None}
  /\ isRunning \in BOOLEAN
  /\ lastError \in {"none", "down", "exited", "not_started"}
  /\ binaryExists \in BOOLEAN
  /\ server \in {"none", "loading", "up", "exited"}
  /\ used \in Configs \cup {None}
  /\ signal \in {"none", "terminate", "kill"}
  /\ monitor \in {"none", "waiting", "reporting", "clearing"}

ManagerInit ==
  /\ holder = None
  /\ isRunning = FALSE
  /\ lastError = "none"
  /\ binaryExists = TRUE
  /\ server = "none"
  /\ used = None
  /\ signal = "none"
  /\ monitor = "none"

-----------------------------------------------------------------------------
(* Start.                                                                  *)

\* Mutant: a server that is running is no reason not to launch another one.
StartsAnyway ==
  /\ holder = None
  /\ isRunning' = TRUE
  /\ lastError' = "none"
  /\ server' = "loading" /\ used' = None /\ signal' = "none"
  /\ monitor' = "waiting"
  /\ UNCHANGED <<holder, binaryExists>>

Starts ==
  /\ holder = None /\ ~isRunning
  /\ isRunning' = TRUE
  /\ lastError' = "none"
  /\ server' = "loading" /\ used' = None /\ signal' = "none"
  /\ monitor' = "waiting"
  /\ UNCHANGED <<holder, binaryExists>>

\* ErrServerAlreadyRunning.
StartRefused == holder = None /\ isRunning /\ UNCHANGED managerVars

\* The binary is missing, or cannot be looked at, or cannot be executed.
StartFails ==
  /\ holder = None
  /\ \/ binaryExists' = FALSE /\ lastError' = "not_started"
     \/ UNCHANGED <<binaryExists, lastError>>
     \/ ~isRunning /\ lastError' = "not_started" /\ UNCHANGED binaryExists
  /\ UNCHANGED <<holder, isRunning, server, used, signal, monitor>>

-----------------------------------------------------------------------------
(* Stop.                                                                   *)

\* ErrServerNotRunning.
StopRefused == holder = None /\ ~isRunning /\ UNCHANGED managerVars

\* The child has been waited for already: it cannot be signalled or killed.
StopFails ==
  /\ holder = None /\ isRunning /\ server = "none"
  /\ UNCHANGED managerVars

\* On Windows signalTermination kills at once.
StopSignals(c) ==
  /\ holder = None /\ isRunning /\ server # "none"
  /\ holder' = c
  /\ signal' \in IF server = "exited" THEN {"none"} ELSE {"terminate", "kill"}
  /\ UNCHANGED <<isRunning, lastError, binaryExists, server, used, monitor>>

\* Mutant: the server is not killed when it did not obey.
StopGivesUp(c) ==
  /\ holder = c
  /\ holder' = None
  /\ UNCHANGED <<isRunning, lastError, binaryExists, server, used, signal, monitor>>

\* The timeout is over, or isRunning is false.
StopEnds(c) ==
  /\ holder = c
  /\ holder' = None
  /\ signal' = IF isRunning /\ server \in {"loading", "up"} THEN "kill" ELSE signal
  /\ UNCHANGED <<isRunning, lastError, binaryExists, server, used, monitor>>

-----------------------------------------------------------------------------
(* The last error.                                                         *)

SetLastError(e) ==
  /\ holder = None
  /\ lastError' = e
  /\ UNCHANGED <<holder, isRunning, binaryExists, server, used, signal, monitor>>

SetLastErrorIfEqual(old, new) ==
  SetLastError(IF lastError = old THEN new ELSE lastError)

-----------------------------------------------------------------------------
(* The child process and its monitor.                                      *)

ServerLoads(file) ==
  /\ server = "loading"
  /\ server' = "up" /\ used' = file
  /\ UNCHANGED <<holder, isRunning, lastError, binaryExists, signal, monitor>>

ServerExits ==
  /\ server \in {"loading", "up"}
  /\ server' = "exited" /\ used' = None /\ signal' = "none"
  /\ UNCHANGED <<holder, isRunning, lastError, binaryExists, monitor>>

\* cmd.Wait returns an error, or none.
MonitorWakes ==
  /\ monitor = "waiting" /\ server = "exited"
  /\ server' = "none"
  /\ monitor' \in {"reporting", "clearing"}
  /\ UNCHANGED <<holder, isRunning, lastError, binaryExists, used, signal>>

\* Mutant: the flag is reset at once, with the error.
MonitorReportsAndClears ==
  /\ monitor = "reporting" /\ holder = None
  /\ lastError' = "exited"
  /\ isRunning' = FALSE
  /\ monitor' = "clearing"
  /\ UNCHANGED <<holder, binaryExists, server, used, signal>>

MonitorReports ==
  /\ monitor = "reporting" /\ holder = None
  /\ lastError' = "exited"
  /\ monitor' = "clearing"
  /\ UNCHANGED <<holder, isRunning, binaryExists, server, used, signal>>

MonitorClears ==
  /\ monitor = "clearing" /\ holder = None
  /\ isRunning' = FALSE
  /\ monitor' = "none"
  /\ UNCHANGED <<holder, lastError, binaryExists, server, used, signal>>
=============================================================================
