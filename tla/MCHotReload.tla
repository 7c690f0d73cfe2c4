---- MODULE MCHotReload ----
(* Small instances of HotReload for TLC. *)
EXTENDS HotReload

CONSTANTS r1, r2, r3, script

OneFile == <<script>>

\* The file gets the marker of static files with its second version.
SecondMarked == [x \in Files |-> {2}]
NoneMarked == [x \in Files |-> {}]

\* Every version but the first may fail in a runtime.
LaterBroken == [x \in Files |-> Versions \ {1}]
NoneBroken == [x \in Files |-> {}]
=============================================================================
