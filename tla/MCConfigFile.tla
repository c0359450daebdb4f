----------------------------- MODULE MCConfigFile -----------------------------
(* Small instances of the configuration file for TLC.                      *)
EXTENDS ConfigFile, TLC

CONSTANTS h1, h2, menu, root, channel, autoshare, x, y

\* Two threads of the helper, a console menu and the updater's channel menu.
All == {h1, h2, menu, root}
AllStyle == [w \in All |->
    CASE w = menu -> "tool" [] w = root -> "shell" [] OTHER -> "helper"]

MCKeys == {channel, autoshare}
TwoValues == {x, y}
Symmetry == Permutations({h1, h2}) \cup Permutations(TwoValues) \cup Permutations(MCKeys)
===============================================================================
