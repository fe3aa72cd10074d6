------------------------------ MODULE PluginMC ------------------------------
(* Small instances of Plugin for TLC.                                      *)
EXTENDS Plugin

CONSTANTS h1, u1, u2, p1, a1, a2, a3, a4

MCHandlers == {h1}
MCUrls == {u1, u2}
MCPorts == {p1}
MCObjects == {a1, a2, a3, a4}
MCCallers == {"main", "starter", "poller", h1}
MCConfigs == [url : MCUrls \cup {None}, port : MCPorts]
\* A request sets the network, to Station's or to another one.
MCSettings == [url : MCUrls, port : {None}]
\* Station's network is down at first, then on the configured network or on another one.
MCFirstStations == {None}
MCFirstConfigs == {[url |-> u1, port |-> p1]}
=============================================================================
