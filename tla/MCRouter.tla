------------------------------ MODULE MCRouter ------------------------------
(* An instance of Router for TLC: packets that are local, unicast or global,    *)
(* from network 1 or without a source, with no, one or two hops left.          *)
EXTENDS Router

MCPackets ==
    [dnet : {Global, 2}, hop : {1, 2}, snet : {1}, nlm : {FALSE}]
      \cup [dnet : {2}, hop : {0}, snet : {Local}, nlm : {FALSE}]
      \cup [dnet : {1}, hop : {2}, snet : {Local}, nlm : {FALSE}]
      \cup [dnet : {Local, 2}, hop : {2}, snet : {Local}, nlm : {TRUE}]
=============================================================================
