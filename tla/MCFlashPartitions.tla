--------------------------- MODULE MCFlashPartitions ----------------------------
EXTENDS FlashPartitions

MCLength == [a |-> 2, b |-> 1, c |-> 3]
(* Two partitions of the primary device and, behind them here, a longer    *)
(* one of the secondary device.                                            *)
MCPart == {"p0", "p1", "q0"}
MCDeviceOf == [p0 |-> 0, p1 |-> 0, q0 |-> 1]
MCIndexOf  == [p0 |-> 0, p1 |-> 1, q0 |-> 0]
MCBase     == [p0 |-> 0, p1 |-> 2, q0 |-> 4]
MCSize     == [p0 |-> 2, p1 |-> 2, q0 |-> 3]
MCHeld     == [p0 |-> "b", p1 |-> "a", q0 |-> "none"]

(* A table of both partitions of a device, and one that has only the first.*)
Plain(n)   == [good |-> TRUE, entries |-> n,
               entry |-> [j \in 0 .. n - 1 |-> [md5 |-> IF j = 0 THEN "b" ELSE "a", flags |-> 0]]]
MCNewTable == {Plain(1)}
MCTableHeld == [d \in {0, 1} |-> Plain(2 - d)]

(* The image "c" is too long for a partition of the primary device.        *)
Downloads == {[op |-> "download", part |-> x[1], image |-> x[2]] :
                x \in {<<"p1", "b">>, <<"p0", "c">>, <<"q0", "c">>}}
Copies    == {[op |-> "copy", src |-> x[1], part |-> x[2]] :
                x \in {<<"p0", "p1">>, <<"p1", "q0">>, <<"p1", "p1">>}}
Programs  == {[op |-> "program", part |-> "p0", image |-> "a"]}
Selects   == {[op |-> "select", part |-> "p1"]}
Sets      == {[op |-> "set", part |-> p, image |-> "b", flags |-> 1] : p \in {"p1", "q0"}}
Updates   == {[op |-> "update_fpt", dev |-> 0, table |-> t] : t \in MCNewTable}
MCRequest == Downloads \cup Copies \cup Programs \cup Selects \cup Sets \cup Updates
=============================================================================
