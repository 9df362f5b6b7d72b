-------------------------- MODULE MCHighLevelClient ---------------------------
EXTENDS HighLevelClient

(***************************************************************************)
(* Discovery.                                                              *)
(***************************************************************************)
Net(a, b) == [ip |-> <<10, 0, a, b>>, mask |-> <<255, 255, 255, 0>>]
Iface(up, loopback, nets) ==
    [up |-> up, broadcast |-> ~loopback, loopback |-> loopback, nets |-> nets]
Loopback == Iface(TRUE, TRUE, {[ip |-> <<127, 0, 0, 1>>, mask |-> <<255, 0, 0, 0>>]})
SixNet == [ip |-> [i \in 1 .. 16 |-> 1], mask |-> [i \in 1 .. 16 |-> 255]]

\* Two subnets, one of them reached by two addresses; a client bound to one of
\* them; a configured broadcast address, and one that is not IPv4; no network.
TwoSubnets == {Iface(TRUE, FALSE, {Net(1, 5), Net(1, 6), SixNet}), Iface(TRUE, FALSE, {Net(2, 5)}),
               Iface(FALSE, FALSE, {Net(3, 5)}), Loopback}
Config(b, f, fs) == [broadcast |-> b, interface |-> f, interfaces |-> fs]
Two == Config({}, {}, TwoSubnets)
One == Config({}, {<<10, 0, 2, 5>>}, TwoSubnets)

IAm(id, src) == [id |-> id, src |-> src]
Scenario(op, low, high, cfg, iams) ==
    [op |-> op, low |-> low, high |-> high, cfg |-> cfg, iams |-> iams]
All == {IAm(1, "a"), IAm(1, "b"), IAm(2, "a")}
Same == {IAm(1, "a"), IAm(1, "b")}

MCScenarios ==
    {Scenario("resolve", {1}, {1}, Two, {IAm(1, "a")}),
     Scenario("discover", {}, {}, One, All), Scenario("resolve", {1}, {1}, One, All),
     Scenario("discover", {1}, {2}, Config({<<10, 0, 1, 255>>}, {}, TwoSubnets), Same),
     Scenario("discover", {}, {}, Config({SixNet.ip}, {}, TwoSubnets), Same),
     Scenario("resolve", {7}, {7}, Config({}, {}, {Loopback}), {IAm(7, "a")})}
    \cup {Scenario("discover", l, h, One, Same) :
            l \in {{2}, {MaxInstanceNumber + 1}}, h \in {{}, {1}, {MaxInstanceNumber + 1}}}

ClosedScenarios == {Scenario("discover", {}, {}, Two, Same)}

(***************************************************************************)
(* Access: device 7 has two objects; one has an array and lacks a name.    *)
(***************************************************************************)
o1 == <<"analog-value", 1>>
o2 == <<"analog-value", 2>>
o3 == <<"analog-value", 3>>
Whole(o, p) == Reference(o, p, {})
MCStore ==
    Whole(o1, "value") :> {"u"} @@ Whole(o1, "name") :> {"n"} @@ Whole(o2, "value") :> {"v"} @@
    Whole(o2, "name") :> {} @@ Reference(o1, "priorities", {8}) :> {"u"}
MCLists == {<<o1, o2, o3>>, <<o1, o3>>}

Ask(op, specs, writes, limit, dev, onError, instance) ==
    [op |-> op, specs |-> specs, writes |-> writes, limit |-> limit, device |-> dev,
     onError |-> onError, instance |-> instance]
Read(op, specs) == Ask(op, specs, <<>>, 0, 0, "none", {})
Spec1(o, ps) == [object |-> o, properties |-> ps, index |-> {}]
AskList(limit, dev, onError, instance) ==
    Ask("ReadObjectList", <<>>, <<>>, limit, dev, onError, instance)
AskWrite(op, writes) == Ask(op, <<>>, writes, 0, 0, "none", {})
W(x, v, p) == [ref |-> x, value |-> v, priority |-> p]

MCRequests ==
    {Read("ReadMultiple", <<Spec1(o2, <<"value", "name">>), Spec1(o1, <<"value">>)>>),
     Read("ReadMultiple", <<>>), Read("ReadMultiple", <<Spec1(o1, <<>>)>>),
     Read("ReadPropertiesMultiple", <<Spec1(o2, <<"name", "value">>)>>),
     Read("ReadPropertiesMultiple", <<Spec1(o2, <<>>)>>),
     Read("ReadProperties", <<Spec1(o1, <<"name", "value">>)>>),
     Read("ReadObjectNames", <<Spec1(o1, <<"name">>), Spec1(o2, <<"name">>)>>),
     Ask("ReadProperty", <<[Spec1(o1, <<"priorities">>) EXCEPT !.index = {8}]>>,
         <<>>, 0, 0, "none", {7}),
     AskList(0, Instance, "none", {}), AskList(2, 0 - 1, "continue", {}),
     AskList(0, 0 - 1, "stop", {}),
     AskList(0, 0, "none", {}), AskList(0, ThisDevice + 1, "none", {}),
     AskWrite("WriteProperty", <<W(Whole(o1, "value"), "v", {17})>>),
     AskWrite("WritePropertiesMultiple", <<>>),
     AskWrite("WritePropertiesMultiple",
         <<W(Whole(o1, "value"), "v", {}), W(Whole(o2, "value"), "u", {})>>),
     AskWrite("WriteAndReadBack", <<W(Reference(o1, "priorities", {8}), "v", {8})>>)}

NoRequests == {}
===============================================================================
