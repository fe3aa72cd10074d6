----------------------------- MODULE SettingsMC -----------------------------
(* Small instances of Settings for TLC.                                    *)
EXTENDS Settings

CONSTANTS u1, u2, mainnet, buildnet, there, here, cacheDir, absolute

MCUrls == {u1, u2}
MCNetworkOf == [u \in MCUrls |-> IF u = u1 THEN mainnet ELSE buildnet]
MCAbsolutePaths == {there, cacheDir, absolute}
MCRelativePaths == {here}
MCInConfigDir == [p \in MCRelativePaths |-> there]

Body(url, port, enabled, ram, disk, dir) ==
  [url |-> url, port |-> port, enabled |-> enabled, ram |-> ram, disk |-> disk, dir |-> dir]

\* Nothing but the URL; a negative port; small, negative and zero limits; paths of
\* both kinds; and two that are not valid.
MCBodies ==
  { Body(u2, Absent, Absent, Absent, Absent, Absent),
    Body(u1, 1, TRUE, 1, 0, here),
    Body(u1, Absent, FALSE, -1, -2, absolute),
    Body(u1, -1, TRUE, Absent, 1, Absent),
    Body(Absent, 1, TRUE, 1, 1, Absent),
    Body(u1, 1, Absent, 1, Absent, Absent), Absent }

Yaml(url, port, limit, dir, offline) ==
  [ url |-> url, port |-> port, enabled |-> TRUE, ram |-> limit, disk |-> limit, dir |-> dir,
    offline |-> offline ]

\* An int32 has three bits: a limit of 5 and a port of 9 are more than it holds; 63 is
\* what becomes of the limit -1; 0 is possible by hand.
MCEdits ==
  { Missing, Garbled, Yaml(u1, 1, 5, here, FALSE), Yaml(u2, Absent, 0, Absent, FALSE),
    Yaml(u1, 9, 63, absolute, TRUE) }
=============================================================================
