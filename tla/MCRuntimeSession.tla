-------------------------- MODULE MCRuntimeSession --------------------------
(* A graph with a menu that repeats on a timeout, a switch, an announcement, *)
(* a transfer, a hangup, an edge to nowhere and a cycle of silent nodes.     *)
EXTENDS RuntimeSession, TLC

CONSTANTS menu, note, desk, bye, hours, switch, spin

MCOnDone    == (menu :> switch) @@ (note :> bye)
MCOnTimeout == (menu :> menu)
MCBranches  == (hours :> {menu, note, NoNode}) @@ (switch :> {desk, note, spin, Missing})
                   @@ (spin :> {spin})
=============================================================================
