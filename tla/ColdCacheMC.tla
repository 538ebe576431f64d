----------------------------- MODULE ColdCacheMC -----------------------------
(***************************************************************************)
(* Two overlapping patterns and a key none of them matches.                *)
(***************************************************************************)
EXTENDS ColdCache

CONSTANTS k1, k2, other

MCKey == {k1, k2, other}
MCPatterns == <<{k1, k2}, {k2}>>
=============================================================================
