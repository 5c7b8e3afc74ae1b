----------------------------- MODULE MCFlowGraph -----------------------------
(* Every graph of a menu, a switch or a prompt, opening hours and an end    *)
(* whose edges are among the ones below: cycles with and without the menu,  *)
(* dead ends, edges to nowhere, chains at and past the depth limit, a menu  *)
(* without a prompt, an end that is inactive or unsupported.                *)
EXTENDS FlowGraph

CONSTANTS menu, switch, hours, end, d1

MCKeys == <<d1>>

Plain(type, ref) ==
    [type |-> type, ref |-> ref, next |-> NoNode, timeout |-> NoNode, invalid |-> NoNode,
     default |-> NoNode, fallback |-> NoNode, cases |-> [d \in Digits |-> NoNode],
     yes |-> NoNode, no |-> NoNode]

Menus    == {[Plain("play_collect", "active") EXCEPT
                !.next = switch, !.timeout = timeout, !.invalid = invalid, !.default = default] :
             timeout \in {NoNode, menu}, invalid \in {NoNode, switch},
             default \in {NoNode, end, Missing}}
            \cup {[Plain("play_collect", "none") EXCEPT !.next = switch, !.timeout = menu]}
Switches == {[Plain("switch", "none") EXCEPT !.cases = [d \in Digits |-> target], !.default = default] :
             target \in {hours, end, Missing}, default \in {NoNode, menu}}
            \cup {[Plain("play_prompt", "active") EXCEPT !.next = next] : next \in {hours, end}}
Hours    == {[Plain("business_hours", "active") EXCEPT !.yes = yes, !.no = no] :
             yes \in {switch, end}, no \in {NoNode, end, Missing}}
TheEnds  == {Plain("hangup", "none"), Plain("queue", "inactive"), Plain("webhook", "none")}

MCGraphs ==
    {[entry |-> entry,
      node  |-> [n \in Nodes |-> CASE n = menu -> m [] n = switch -> s [] n = hours -> h
                                   [] n = end -> e]] :
     entry \in {menu, switch}, m \in Menus, s \in Switches, h \in Hours, e \in TheEnds}
=============================================================================
