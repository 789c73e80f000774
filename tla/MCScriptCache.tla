--------------------------- MODULE MCScriptCache ---------------------------
(* Instances of ScriptCache: two builds of one release, one of the next.   *)
EXTENDS ScriptCache

CONSTANTS b1, b2, b3

Releases(b) == IF b = b3 THEN 2 ELSE 1
=============================================================================
