--------------------------- MODULE MCForeignDevice ---------------------------
EXTENDS ForeignDevice, TLC

CONSTANTS d1, d2

MCBbmd == [ip |-> <<10, 0, 0, 1>>, port |-> 47808]
Stranger == [ip |-> <<10, 0, 0, 9>>, port |-> 47808]
MCAddr == (d1 :> [ip |-> <<10, 1, 0, 1>>, port |-> 47808])
          @@ (d2 :> [ip |-> <<10, 1, 0, 2>>, port |-> 47809])
Mapped(a) == [ip |-> <<0, 0, 0, 0, 0, 0, 0, 0, 0, 0, 255, 255>> \o a.ip, port |-> a.port]
MCSeen == (d1 :> {MCAddr[d1]}) @@ (d2 :> {MCAddr[d2], Mapped(MCAddr[d2])})

\* The shortest time to live, and one whose grace period saturates.
MCTtl == (d1 :> 1) @@ (d2 :> 65520)

MCMaxCalls == (d1 :> 2) @@ (d2 :> 1)

BdtEntry(i, m) == [address |-> [ip |-> <<10, 0, i, 1>>, port |-> 47808], mask |-> m]
Valid1 == <<BdtEntry(0, <<255, 255, 255, 0>>)>>
Valid2 == <<BdtEntry(1, <<255, 255, 255, 255>>), BdtEntry(2, <<255, 255, 0, 0>>)>>
MCTables == {Valid1}
Write(entries) ==
    [header |-> NewHeader(BACnetIP, FnWriteBDT, HeaderLen + EntryLen * Len(entries)),
     entries |-> entries]
MCWriteRequests == {Write(Valid2), Write(<<BdtEntry(1, <<255, 0, 255, 0>>)>>)}

\* A result of a stranger, and a broadcast the BBMD forwards.
MCNoise ==
    {[to |-> d1, from |-> Stranger, data |-> The(BVLCResultEncode(The(NewBVLCResult(CodeSuccess))))],
     [to |-> d2, from |-> MCBbmd, data |-> The(ForwardedNpduEncode(The(NewForwardedNpdu(Stranger, <<1, 0>>))))]}
===============================================================================
