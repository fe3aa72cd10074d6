------------------------------- MODULE CliMC -------------------------------
(* Small instances of Cli for TLC.                                         *)
EXTENDS Cli

CONSTANTS html, css, a, b, user, title, lastUpdate

MCFiles == {html, css}
MCData == {a, b}
MCMetaKeys == {title, lastUpdate}
MCMetaValues == 1 .. MaxRuns
MCCallers == {user}
MCConfig == [m \in {title} |-> 1]

\* b is half as large as a, and two of them make a batch.
MCSize(d) == IF d = b THEN 1 ELSE 2

\* A file changes, shrinks, disappears, or becomes empty; there may be nothing in it.
MCDirectories ==
  { [f \in {html, css} |-> IF f = html THEN <<a, b>> ELSE <<b>>],
    [f \in {html}      |-> <<b, b>>],
    [f \in {html, css} |-> IF f = html THEN <<b>> ELSE << >>],
    [f \in {html}      |-> << >>] }

MCOneDirectory == { [f \in {html, css} |-> IF f = html THEN <<a, b>> ELSE <<b>>] }

MCCommands == {"upload", "edit", "delete", "purge", "immutable", "metadata"}
=============================================================================
