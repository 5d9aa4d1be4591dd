------------------------------ MODULE MCDhtLookup ------------------------------
(* Instances of DhtLookup for TLC. *)
EXTENDS DhtLookup

Entry(id, addr) == [id |-> id, addr |-> addr]

(* a host, two nodes, and the nearer one again under a false id *)
HostEntries == {Entry(0, "host")}
SomeEntries ==
    HostEntries \cup {Entry(1, "near"), Entry(2, "near"), Entry(3, "mid")}
SomeNodes == {"host", "near", "mid"}
OddAndEven(id) == id % 2
=============================================================================
