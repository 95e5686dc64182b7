------------------------------ MODULE Topology ------------------------------
(***************************************************************************)
(* The integrated PCIe + NVMe tree (backend/topology.py, services/topology)*)
(* and the disk lookups it starts from (services/queues/service.py).       *)
(* A machine is a record                                                   *)
(*   last     the largest number of a controller                           *)
(*   disks    the gendisks, <<controller, nsid, hidden path?>>             *)
(*   gone     the disks that vanish between listing and lookup             *)
(*   busOf    the bus of each controller's PCI function                    *)
(*   up       the bus above a bus's bridge (the bus itself: a root bus)    *)
(*   spaces   the namespaces on each controller's own list, as numbers in  *)
(*            their names (nvme0n1)                                        *)
(*   subsys   the NVMe subsystem of each controller (0: none)              *)
(*   queues   online queues per controller                                 *)
(*   lost     the controllers whose lookup raises something else           *)
(*   blind    <<controller, bus>> where, in the turn of the controller,    *)
(*            what is above the bus cannot be read                         *)
(*   broken   the nodes whose bridge, PCI address or struct nvme_ctrl      *)
(*            cannot be read (a function whose bus cannot be read has no   *)
(*            address either)                                              *)
(* A node is <<kind, what>>; a tree is the set of its edges <<parent,      *)
(* child, controller in whose turn it was appended>>: a node that is       *)
(* appended for two controllers is there twice.                            *)
(***************************************************************************)
EXTENDS Integers, Sequences, FiniteSets

System == <<"system", 0>>

\* _DISK_RE: hidden multipath nodes (nvme0c1n1) do not match.
Visible(disks) == {d \in disks : ~d[3]}

\* list_devices: one name per controller.
ListDevices(m) == {d[1] : d \in Visible(m.disks)}

\* What the program can meet: disks of controllers that have a function on a bus.
IsMachine(m) ==
    /\ m.last \in Nat /\ m.disks \subseteq ((0 .. m.last) \X Nat \X BOOLEAN)
    /\ IsFiniteSet(DOMAIN m.up) /\ m.up \in [DOMAIN m.up -> DOMAIN m.up]
    /\ m.busOf \in [0 .. m.last -> DOMAIN m.up]

\* _find_any_namespace_disk: the disk with the smallest nsid, {} if there is none.
FindDisk(m, c) ==
    LET own == {d \in Visible(m.disks \ m.gone) : d[1] = c}
    IN {d \in own : \A e \in own : d[2] <= e[2]}

\* lookup_device raises DeviceNotFoundError when no disk is left.
LookupDevice(m, c) == FindDisk(m, c) # {}

\* One turn of the loop of _bus_chain: it stops at a bus it has seen, so that a
\* damaged chain ends, and below a bus that it cannot read.
Climb(m, c, s) ==
    LET bus == s[Len(s)]
        above == m.up[bus]
    IN IF <<c, bus>> \in m.blind \/ \E k \in DOMAIN s : s[k] = above THEN s ELSE Append(s, above)

\* _bus_chain: from the root bus down to the controller's own.
BusChain(m, c) ==
    LET climb[n \in 0 .. Cardinality(DOMAIN m.up)] ==
            IF n = 0 THEN <<m.busOf[c]>> ELSE Climb(m, c, climb[n - 1])
        found == climb[Cardinality(DOMAIN m.up)]
    IN [k \in 1 .. Len(found) |-> found[Len(found) + 1 - k]]

\* The node of a bus: the host bridge of a root bus, else the bridge above it.
BusNode(m, b) == IF m.up[b] = b THEN <<"host", b>> ELSE <<"pci", b>>

\* The nodes above a controller's own, from the host bridge to its PCI function.
Path(m, c) ==
    LET chain == BusChain(m, c)
    IN [k \in 1 .. Len(chain) + 1 |->
          IF k = Len(chain) + 1 THEN <<"pci_function", c>> ELSE BusNode(m, chain[k])]

Nodes(edges) == {System} \cup {e[2] : e \in edges}
Above(path, k) == IF k = 1 THEN System ELSE path[k - 1]
PathEdges(path, c) == {<<Above(path, k), path[k], c>> : k \in DOMAIN path}

\* Mutant: an ancestor is appended for every controller.
MutMerge(edges, path, c) == edges \cup PathEdges(path, c)

\* index.get(id): what is in the tree already is not appended again.  (The ids of a
\* path are distinct, since a chain has no bus twice.)
Merge(edges, path, c) ==
    edges \cup {e \in PathEdges(path, c) : e[2] \notin Nodes(edges)}

SubsystemNode(m, c) == {<<"subsys", s>> : s \in {m.subsys[c]} \ {0}}

NamespaceNodes(m, c) == {<<"ns", <<c, n>>>> : n \in m.spaces[c]}

QueueGroupNode(m, c) == {<<"queues", c>> : q \in {m.queues[c]} \ {0}}
QueueEdges(m, c) == {<<<<"queues", c>>, <<"queue", <<c, q>>>>, c>> : q \in 0 .. m.queues[c] - 1}

\* _ctrl_node, appended to its endpoint: the same for the mock, but for the namespaces.
CtrlEdges(m, c, namespaces) ==
    LET ctrl == <<"ctrl", c>>
    IN {<<<<"pci_function", c>>, ctrl, c>>}
       \cup {<<ctrl, node, c>> : node \in SubsystemNode(m, c) \cup namespaces \cup QueueGroupNode(m, c)}
       \cup QueueEdges(m, c)

Touched(m, c) == {Path(m, c)[k] : k \in DOMAIN Path(m, c)} \cup {<<"ctrl", c>>}

\* The loop body for one controller.  What its lookup raises is an error of this
\* controller; the addresses are read outside that try, so a fault there ends the
\* whole call.
AddDevice(t, m, c) ==
    IF c \notin ListDevices(m) \/ t.raised THEN t
    ELSE IF ~LookupDevice(m, c) \/ c \in m.lost THEN [t EXCEPT !.errors = @ \cup {c}]
    ELSE IF Touched(m, c) \cap m.broken # {} THEN [t EXCEPT !.raised = TRUE]
    ELSE [t EXCEPT !.edges = Merge(@, Path(m, c), c) \cup CtrlEdges(m, c, NamespaceNodes(m, c))]

\* build_topology: the controllers that are listed, one after the other.
BuildTopology(m) ==
    LET built[k \in 0 .. m.last + 1] ==
            IF k = 0 THEN [edges |-> {}, errors |-> {}, raised |-> FALSE]
            ELSE AddDevice(built[k - 1], m, k - 1)
    IN built[m.last + 1]

\* MockTopologyService.get_topology: one host bridge, nothing ever fails, the
\* inventory names the bridges of a device, the endpoint is appended without asking
\* the index, and the one namespace is called {device}n1.
AddMock(edges, m, host, c) ==
    LET chain == BusChain(m, c)
        path == [k \in 1 .. Len(chain) |-> IF k = 1 THEN <<"host", host>> ELSE <<"pci", chain[k]>>]
    IN IF c \notin ListDevices(m) THEN edges
       ELSE Merge(edges, path, c) \cup {<<path[Len(chain)], <<"pci_function", c>>, c>>}
            \cup CtrlEdges(m, c, {<<"ns", <<c, 1>>>>})

Roots(m) == {b \in DOMAIN m.up : m.up[b] = b}

MockTopology(m) ==
    LET host == CHOOSE b \in Roots(m) : TRUE
        built[k \in 0 .. m.last + 1] ==
            IF k = 0 THEN {<<System, <<"host", host>>, 0>>} ELSE AddMock(built[k - 1], m, host, k - 1)
    IN built[m.last + 1]

Links(edges) == {<<e[1], e[2]>> : e \in edges}
Acyclic(m) == \A c \in 0 .. m.last : BusChain(m, c)[1] \in Roots(m)

\* What the mock's table of devices can describe: one host bridge, nothing that is
\* gone or cannot be read, and for each controller a namespace, a subsystem and queues.
IsInventory(m) ==
    /\ m.gone = {} /\ m.lost = {} /\ m.broken = {} /\ ListDevices(m) # {}
    /\ Acyclic(m) /\ Cardinality(Roots(m)) = 1
    /\ \A c \in ListDevices(m) : m.subsys[c] # 0 /\ m.queues[c] # 0 /\ m.spaces[c] = {1}

\* Of a tree that is returned: a controller that is listed is in it exactly once, or in
\* the errors if its lookup failed, and then leaves the others alone; ancestors that
\* controllers share appear once, also where one of them could not climb to the root;
\* if all could, each is under its own chain of buses; and the mock shows the same tree
\* of an inventory (build_topology, MockTopologyService.get_topology).
TreeSound(m) ==
    LET t == BuildTopology(m)
        listed == ListDevices(m)
        Times(node) == Cardinality({e \in t.edges : e[2] = node})
        Parents(node) == {e[1] : e \in {f \in t.edges : f[2] = node}}
    IN /\ ~t.raised =>
             /\ \A c \in listed : Times(<<"ctrl", c>>) = IF c \in t.errors THEN 0 ELSE 1
             /\ t.errors = {c \in listed : c \in m.lost \/ \A d \in m.disks \ m.gone : d[1] = c => d[3]}
             /\ \A n \in Nodes(t.edges) : n[1] \in {"host", "pci", "pci_function"} => Times(n) = 1
             /\ Acyclic(m) => \A c \in listed \ t.errors :
                   /\ Parents(<<"ctrl", c>>) = {<<"pci_function", c>>}
                   /\ \A k \in DOMAIN Path(m, c) : Parents(Path(m, c)[k]) = {Above(Path(m, c), k)}
       /\ IsInventory(m) => Links(MockTopology(m)) = Links(t.edges)

\* What the builder says of itself (backend/topology.py:31-33): that something cannot be
\* read does not keep it from showing the rest.
TreeReturned(m) == ~BuildTopology(m).raised
=============================================================================
