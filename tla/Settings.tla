------------------------------ MODULE Settings ------------------------------
(***************************************************************************)
(* The settings of the DeWeb server on their way through the plugin:       *)
(* between the bodies of requests (src/plugin/api), the configuration that *)
(* the plugin caches (src/plugin/int/server/config.go), the YAML file, and *)
(* the configuration that the server loads (src/server/int/api/config).    *)
(*                                                                         *)
(* A request, a poll, and a start of the server are one step each: Plugin  *)
(* has their interleavings, Settings what they do to each field.  A field  *)
(* that is left out of a body or of the file is Absent.                    *)
(*                                                                         *)
(* The network stands for all that a node says of itself, and the limits   *)
(* of the caches for the third number of the cache, a duration.  What no   *)
(* request changes is represented by allow_offline.                        *)
(***************************************************************************)
EXTENDS Integers

CONSTANTS
  NodeUrls,      \* of the nodes
  NoUrl,         \* the empty string
  NetworkOf,     \* the network of each node
  AbsolutePaths, RelativePaths,
  InConfigDir,   \* a relative path, resolved in the directory of the file
  MainnetUrl, DefaultPort, DefaultLimit, DefaultDir, PluginCacheDir,
  Int32Half,     \* half of the numbers of an int32, 2^31
  Int64Half,     \* and of an uint64 or an int, 2^63
  Bodies,        \* the bodies of the requests for other settings
  Edits,         \* what a user may write into the file, or make of it
  MaxEdits,      \* bound: how often
  Missing, Garbled,  \* a file that is not there, or cannot be read or parsed
  Down,          \* the ServerError with the code ErrNetworkConfigCode
  Error,         \* any other error
  Panic,
  Absent

Limits == {"ram", "disk"}
CacheFields == Limits \cup {"enabled", "dir"}
BodyFields == CacheFields \cup {"url", "port"}
Fields == BodyFields \cup {"offline"}

Int32s == -Int32Half .. Int32Half - 1
Int64s == -Int64Half .. Int64Half - 1
Uint64s == 0 .. 2 * Int64Half - 1

Paths == AbsolutePaths \cup RelativePaths

\* What the settings may be, in the program, in a body, and in the file.
ServerConfigs ==
  [ url : NodeUrls \cup {NoUrl}, port : Int64s, enabled : BOOLEAN, ram : Uint64s, disk : Uint64s,
    dir : Paths, offline : BOOLEAN, network : {NetworkOf[u] : u \in NodeUrls} \cup {Absent} ]
BodyRecords ==
  [ url : NodeUrls \cup {Absent}, port : Int32s \cup {Absent}, enabled : BOOLEAN \cup {Absent},
    ram : Int32s \cup {Absent}, disk : Int32s \cup {Absent}, dir : Paths \cup {Absent} ]
FileRecords ==
  [ url : NodeUrls \cup {NoUrl, Absent}, port : Int64s \cup {Absent},
    enabled : BOOLEAN \cup {Absent}, ram : Uint64s \cup {Absent}, disk : Uint64s \cup {Absent},
    dir : Paths \cup {Absent}, offline : BOOLEAN ]

ASSUME SettingsAssumption ==
  /\ NoUrl \notin NodeUrls /\ Absent \notin NodeUrls \cup {NoUrl}
  /\ MainnetUrl \in NodeUrls
  /\ DOMAIN NetworkOf = NodeUrls /\ \A u \in NodeUrls : NetworkOf[u] # Absent
  /\ RelativePaths \cap AbsolutePaths = {} /\ InConfigDir \in [RelativePaths -> AbsolutePaths]
  /\ DefaultDir \in RelativePaths /\ PluginCacheDir \in AbsolutePaths /\ Absent \notin Paths
  /\ Int32Half \in Nat \ {0} /\ Int64Half \in Nat \ {0} /\ Int64Half % Int32Half = 0
  /\ DefaultPort \in Int32s \ {0} /\ DefaultLimit \in 1 .. Int32Half - 1
  /\ Absent \notin Int64s \cup Uint64s /\ Absent \notin BOOLEAN
  /\ Bodies \subseteq BodyRecords \cup {Absent} /\ Absent \notin BodyRecords
  /\ Edits \subseteq FileRecords \cup {Missing, Garbled}
  /\ {Missing, Garbled} \cap FileRecords = {} /\ Missing # Garbled
  /\ {Down, Error, Panic, Absent} \cap ServerConfigs = {}
  /\ Down # Error /\ Down # Panic /\ Error # Panic
  /\ MaxEdits \in Nat

VARIABLES
  yaml,      \* the YAML file: its fields, Missing or Garbled
  config,    \* serverConfig of the ServerConfigManager
  plugin,    \* "running" or "down"
  deweb,     \* the configuration the server runs with
  starting,  \* is the server about to be started?
  reply,     \* the last answer: "ok", "invalid", "failed", or "closed" for none
  edits,
  expected   \* history: the settings, as the requests that were answered with
             \* "ok" should have left them; Absent when that is not known

settingsVars == <<yaml, config, plugin, deweb, starting, reply, edits, expected>>

-----------------------------------------------------------------------------
(* The conversions of Go's integers.                                       *)

Int32(n) == ((n + Int32Half) % (2 * Int32Half)) - Int32Half
Int64(n) == ((n + Int64Half) % (2 * Int64Half)) - Int64Half
Uint64(n) == n % (2 * Int64Half)

-----------------------------------------------------------------------------
(* Loading, in the server and in the plugin.  What may come of it is a set *)
(* of configurations and errors.                                           *)

DefaultConfig ==
  [ url |-> MainnetUrl, port |-> DefaultPort, enabled |-> TRUE, ram |-> DefaultLimit,
    disk |-> DefaultLimit, dir |-> DefaultDir, offline |-> FALSE, network |-> Absent ]

\* A file in which each field is left out, and the one that the plugin creates.
Blank == [x \in Fields |-> IF x = "offline" THEN FALSE ELSE Absent]
CreatedFile ==
  [Blank EXCEPT !.url = MainnetUrl, !.port = 0, !.enabled = TRUE,
                !.ram = DefaultLimit, !.disk = DefaultLimit, !.dir = PluginCacheDir]

\* A relative path is one in the directory of the file.
Resolved(path) == IF path \in RelativePaths THEN InConfigDir[path] ELSE path

\* Defaults for the fields that are left out.
Given(f) ==
  [x \in DOMAIN DefaultConfig |-> IF x = "network" THEN Absent
                                  ELSE IF f[x] = Absent THEN DefaultConfig[x] ELSE f[x]]

\* Mutant: a relative path is used as it is.
FilledUnresolved(f) == Given(f)

Filled(f) == [Given(f) EXCEPT !.dir = Resolved(@)]

\* The node c.url is asked for its status.
AskedNode(c) ==
  {Down} \cup (IF c.url = NoUrl THEN {} ELSE {[c EXCEPT !.network = NetworkOf[c.url]]})

\* Without a file, the defaults are not to be had without the node.
WithoutNodeData(f) ==
  CASE f = Missing -> AskedNode(DefaultConfig)
    [] f = Garbled -> {Error}
    [] OTHER       -> {Filled(f)}

\* When a node does not answer an offline configuration loses its URL, too.
WithNodeData(c) ==
  IF c.offline THEN (AskedNode(c) \ {Down}) \cup {[c EXCEPT !.url = NoUrl, !.network = Absent]}
               ELSE AskedNode(c)

Loaded(f) ==
  UNION {IF c \in {Down, Error} THEN {c} ELSE WithNodeData(c) : c \in WithoutNodeData(f)}

\* The plugin does without a node that is down.  The message that it logs for any
\* other error dereferences a nil pointer.
Refreshed(f) ==
  UNION { CASE c = Down  -> {IF d = Down THEN Error ELSE d : d \in WithoutNodeData(f)}
            [] c = Error -> {Panic}
            [] OTHER     -> {c} : c \in Loaded(f) }

GotServerConfig == IF config = Absent THEN Refreshed(yaml) ELSE {config}

-----------------------------------------------------------------------------
(* The bodies of requests and of answers.                                  *)

\* Of the settings the URL is required; of those of the cache, if there are any,
\* whether it is enabled.
ValidCache(body) == (\E x \in CacheFields : body[x] # Absent) => body.enabled # Absent
ValidSettings(body) == body.url # Absent /\ ValidCache(body)

\* Absent is no body, or one that is not JSON.
Valid(body) == body # Absent /\ ValidSettings(body)

\* The zero of a Go type stands for a field that is left out, and is left out.
Omitted(value, x) == value[x] = Absent \/ (x \in Limits \cup {"port"} /\ value[x] = 0)

\* The settings that are answered.
Report(c) ==
  LET value == [url |-> c.url, port |-> Int32(c.port), enabled |-> c.enabled, dir |-> c.dir,
                ram |-> Int32(c.ram), disk |-> Int32(c.disk)]
  IN  [x \in BodyFields |-> IF Omitted(value, x) THEN Absent ELSE value[x]]

\* Mutants: a limit is not converted, or converted to the wrong width.
MergedSigned(c, body) ==
  [x \in DOMAIN c |-> IF x \notin BodyFields \/ Omitted(body, x) THEN c[x] ELSE body[x]]
MergedNarrow(c, body) ==
  [x \in DOMAIN c |-> IF x \notin BodyFields \/ Omitted(body, x) THEN c[x]
                      ELSE IF x \in Limits THEN body[x] % (2 * Int32Half) ELSE body[x]]

\* What a request makes of the cached configuration.
Merged(c, body) ==
  [x \in DOMAIN c |-> IF x \notin BodyFields \/ Omitted(body, x) THEN c[x]
                      ELSE IF x \in Limits THEN Uint64(body[x]) ELSE body[x]]

\* What it should make of the settings: the fields that it has are replaced, and
\* the path is one in the directory of the file.
Overridden(report, body) ==
  [ [x \in BodyFields |-> IF Omitted(body, x) THEN report[x] ELSE body[x]]
      EXCEPT !.dir = Resolved(@) ]

-----------------------------------------------------------------------------
(* Saving.                                                                 *)

ToYaml(c) == [x \in Fields |-> c[x]]

SavesConfig(c) == yaml' = ToYaml(c) /\ config' \in Refreshed(yaml')

\* The write fails, perhaps when the file is already truncated.
SaveFails == yaml' \in {yaml, Blank}

-----------------------------------------------------------------------------
(* The plugin and the server.                                              *)

SettingsInit ==
  /\ yaml \in {Missing} \cup Edits
  /\ plugin = "down" /\ config = Absent
  /\ deweb = Absent /\ starting = FALSE
  /\ reply = "ok"
  /\ edits = 0
  /\ expected = Absent

\* A new process: the manager creates a file when there is none, or goes on
\* without.  The server of an older process no longer matters.
EnsuresFile ==
  yaml' \in IF yaml = Missing THEN {Missing, Blank, CreatedFile} ELSE {yaml}

Boots ==
  /\ EnsuresFile
  /\ plugin' = "running" /\ config' = Absent
  /\ deweb' = Absent /\ starting' = TRUE
  /\ UNCHANGED <<reply, edits, expected>>

\* A handler gets no configuration: it answers so, or its connection is closed.
NotLoaded ==
  /\ \/ Error \in GotServerConfig /\ reply' = "failed"
     \/ Panic \in GotServerConfig /\ reply' = "closed"
  /\ UNCHANGED <<yaml, config, deweb, starting, expected>>

GetsSettings ==
  /\ plugin = "running"
  /\ \/ NotLoaded
     \/ /\ config' \in GotServerConfig \ {Error, Panic}
        /\ reply' = "ok"
        /\ UNCHANGED <<yaml, deweb, starting, expected>>
  /\ UNCHANGED <<plugin, edits>>

\* The port is looked for among the connections of the server, and may not be there.
GetsPort == reply' \in {"ok", "failed"}

\* The status has the network and the port of a server that runs.
GetsStatus ==
  /\ plugin = "running"
  /\ \/ deweb = Absent /\ reply' = "ok" /\ UNCHANGED <<yaml, config, deweb, starting, expected>>
     \/ deweb # Absent /\ NotLoaded
     \/ /\ deweb # Absent
        /\ config' \in GotServerConfig \ {Error, Panic}
        /\ GetsPort
        /\ UNCHANGED <<yaml, deweb, starting, expected>>
  /\ UNCHANGED <<plugin, edits>>

\* The cached configuration is changed, the server stopped, and the configuration
\* saved.  Either may fail: the cached configuration stays changed.
UpdatesSettings(body) ==
  /\ plugin = "running"
  /\ \/ ~Valid(body) /\ reply' = "invalid"
        /\ UNCHANGED <<yaml, config, deweb, starting, expected>>
     \/ Valid(body) /\ NotLoaded
     \/ \E c \in GotServerConfig \ {Error, Panic} :
          /\ Valid(body)
          /\ \/ /\ config' = Merged(c, body)
                /\ reply' = "failed" /\ expected' = Absent
                /\ \/ UNCHANGED <<yaml, deweb>>
                   \/ SaveFails /\ deweb' = Absent
                /\ UNCHANGED starting
             \/ /\ SavesConfig(Merged(c, body))
                /\ reply' = "ok" /\ expected' = Overridden(Report(c), body)
                /\ deweb' = Absent /\ starting' = TRUE
  /\ UNCHANGED <<plugin, edits>>

\* A poll: when Station uses another node a copy of the configuration is changed.
\* Stopping and saving may fail, and a panic ends the plugin here.
Syncs(url) ==
  /\ plugin = "running"
  /\ \/ Panic \in GotServerConfig /\ plugin' = "down"
        /\ UNCHANGED <<yaml, config, deweb, starting, expected>>
     \/ \E c \in GotServerConfig \ {Error, Panic} :
          /\ \/ config' = c /\ UNCHANGED <<yaml, deweb, starting, expected>>
             \/ /\ c.url # url
                /\ SaveFails /\ config' = c /\ expected' = Absent
                /\ deweb' = Absent /\ UNCHANGED starting
             \/ /\ c.url # url
                /\ SavesConfig([c EXCEPT !.url = url, !.network = NetworkOf[url]])
                /\ expected' = IF expected = Absent THEN Absent ELSE [expected EXCEPT !.url = url]
                /\ deweb' = Absent /\ starting' = TRUE
          /\ UNCHANGED plugin
  /\ UNCHANGED <<reply, edits>>

\* The size of the cache in RAM is an int and must be positive, and the server
\* must be able to listen.
Usable(c) == c.port >= 0 /\ (c.enabled => Int64(c.ram) > 0)

ServerStarts ==
  /\ starting /\ starting' = FALSE
  /\ \E c \in Loaded(yaml) :
       deweb' = IF c \in {Down, Error} THEN deweb ELSE IF Usable(c) THEN c ELSE Absent
  /\ UNCHANGED <<yaml, config, plugin, reply, edits, expected>>

EditsFile ==
  /\ edits < MaxEdits /\ edits' = edits + 1
  /\ yaml' \in Edits
  /\ expected' = Absent
  /\ UNCHANGED <<config, plugin, deweb, starting, reply>>

SettingsNext ==
  \/ Boots
  \/ GetsSettings \/ GetsStatus
  \/ \E body \in Bodies : UpdatesSettings(body)
  \/ \E url \in NodeUrls : Syncs(url)
  \/ ServerStarts
  \/ EditsFile

SettingsSpec == SettingsInit /\ [][SettingsNext]_settingsVars

-----------------------------------------------------------------------------
(* Properties.                                                             *)

Readable == yaml \notin {Missing, Garbled}

\* The types; whenever there is a file that can be read, the path of the cache that is
\* loaded from it is absolute.
SettingsTypeOK ==
  /\ config \in ServerConfigs \cup {Absent} /\ deweb \in ServerConfigs \cup {Absent}
  /\ Readable => Filled(yaml) \in ServerConfigs /\ Filled(yaml).dir \in AbsolutePaths
  /\ plugin \in {"running", "down"}
  /\ starting \in BOOLEAN
  /\ reply \in {"ok", "invalid", "failed", "closed"}
  /\ edits \in 0 .. MaxEdits

\* The settings that a request was told are updated are the ones that the plugin
\* reports and that the server runs with, through the file and back, across
\* restarts of both, polls, and nodes that are down, until the next update; the
\* network that is reported with them is the one of that node.
UpdatesLast ==
  \A c \in {config, deweb} \ {Absent} : expected # Absent =>
    /\ \A x \in BodyFields :
         Report(c)[x] = expected[x] \/ (x = "url" /\ c.offline /\ c.url = NoUrl)
    /\ c.network # Absent => c.url \in NodeUrls /\ c.network = NetworkOf[c.url]

Representable(c) ==
  c.port \in Int32s /\ \A x \in Limits : c[x] \in {Uint64(i) : i \in Int32s}

\* Sending back the settings as they were reported changes nothing, when the
\* numbers of the file fit an answer.
ReportIsNeutral ==
  \A c \in {config} \ {Absent} : Representable(c) => Merged(c, Report(c)) = c
=============================================================================
