----------------------------- MODULE GatewayMC -----------------------------
(* A small instance of Gateway for TLC.                                    *)
EXTENDS Gateway, TLC

CONSTANTS r1, r2, index, aboutHtml, about, a, b, c, h1, h2, site, notAddress, domain, other

MCRequests == {r1, r2}
MCSymmetry == Permutations(MCRequests)
MCFiles == {index, aboutHtml}
MCNames == {about}
MCWithHtml == [n \in {about} |-> aboutHtml]
MCIndexOnly == {index}
MCNoHtml == << >>
MCData == {a, b}
MCHeaders == {h1, h2}
MCNotAnAddress == {notAddress}
MCOthers == {other}

\* The index has two chunks and then one, and the second version adds a file.
MCVersions ==
  << [content |-> [f \in MCFiles |-> IF f = index THEN <<a, a>> ELSE << >>],
      header |-> [f \in MCFiles |-> None], globalHeader |-> h1],
     [content |-> [f \in MCFiles |-> IF f = index THEN <<b>> ELSE <<b>>],
      header |-> [f \in MCFiles |-> IF f = aboutHtml THEN h2 ELSE None], globalHeader |-> h1] >>
MCIndexFirst == <<index, aboutHtml>>
MCIndexLast == <<aboutHtml, index>>

\* One that names the website, one that is read without the node and blocks the
\* domain, and one that allows others only.
MCConfigFiles ==
  { [cache |-> None,  allowOffline |-> None, allow |-> {site},  block |-> {other}],
    [cache |-> FALSE, allowOffline |-> TRUE, allow |-> None,    block |-> {domain}],
    [cache |-> None,  allowOffline |-> None, allow |-> {other}, block |-> None] }
=============================================================================
