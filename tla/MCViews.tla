------------------------------ MODULE MCViews ------------------------------
(***************************************************************************)
(* Views, with a small set of inputs for each of them.                     *)
(***************************************************************************)
EXTENDS Views, TLC

CONSTANTS MaxTokens    \* bound: tokens of a fio definition

\* A struct with an anonymous member, a pointer back to it, a long array, a null
\* pointer, a string, pointers to a number, a function, an incomplete struct and void,
\* and one that cannot be read.
Object(kind, bytes, fault, parts) ==
    [kind |-> kind, bytes |-> bytes, fault |-> fault, parts |-> parts]
Heap(faulty) ==
    1 :> Object("struct", FALSE, FALSE,
                <<<<"dev", 2>>, <<NoName, 3>>, <<"queues", 4>>, <<"name", 5>>, <<"lock", 6>>,
                  <<"parent", 7>>, <<"release", 9>>, <<"private", 10>>, <<"data", 11>>>>)
    @@ 2 :> Object("pointer", FALSE, faulty = 2, <<<<"to", 1>>>>)
    @@ 3 :> Object("struct", FALSE, FALSE, <<<<"hidden", 8>>>>)
    @@ 4 :> Object("array", FALSE, FALSE, <<<<"[0]", 2>>, <<"[1]", 8>>, <<"[2]", 1>>>>)
    @@ 5 :> Object("pointer", TRUE, faulty = 5, <<<<"to", 8>>>>)
    @@ 6 :> Object("pointer", FALSE, faulty = 6, <<<<"to", 8>>>>)
    @@ 7 :> Object("pointer", FALSE, FALSE, <<>>)
    @@ 8 :> Object("scalar", FALSE, faulty = 8, <<>>)
    @@ 9 :> Object("pointer", FALSE, FALSE, <<<<"to", 12>>>>)
    @@ 10 :> Object("pointer", FALSE, faulty = 10, <<<<"to", 13>>>>)
    @@ 11 :> Object("pointer", FALSE, FALSE, <<<<"to", 14>>>>)
    @@ 12 :> Object("function", FALSE, FALSE, <<>>)
    @@ 13 :> Object("incomplete", FALSE, FALSE, <<>>)
    @@ 14 :> Object("void", FALSE, FALSE, <<>>)

MCHeaps == {Heap(f) : f \in {0, 2, 5, 6, 8, 10}}
MCNames == {"dev", "queues", "name", "lock", "parent", "release", "private", "data", "to", "hidden", "[0]", "[1]", "[2]"}

\* The second pair of controllers is no inventory: one has no subsystem, one no queues.
\* Reads fail on three of the arrangements of buses, which have a bridge, two and a loop.
MCFaults ==
    {[lost |-> l, blind |-> b, broken |-> x] :
       <<l, b, x>> \in {<<{}, {}, {}>>, <<{1}, {}, {}>>, <<{}, {<<0, 1>>}, {}>>, <<{}, {<<1, 1>>, <<1, 0>>}, {}>>,
                       <<{}, {}, {<<"pci_function", 1>>}>>, <<{}, {}, {<<"pci", 1>>, <<"ctrl", 0>>}>>}}
MCBuses ==
    {<<up, f>> \in [{0, 1, 2} -> {0, 1, 2}] \X MCFaults :
       f.lost \cup f.blind \cup f.broken = {} \/ <<up[0], up[1], up[2]>> \in {<<0, 0, 0>>, <<0, 0, 1>>, <<1, 0, 1>>}}
MCMachines ==
    {[last |-> 1, disks |-> d, gone |-> g, busOf |-> b, up |-> u[1],
      spaces |-> IF usual THEN (0 :> {1} @@ 1 :> {1}) ELSE (0 :> {} @@ 1 :> {1, 3}),
      subsys |-> IF usual THEN (0 :> 1 @@ 1 :> 1) ELSE (0 :> 0 @@ 1 :> 2),
      queues |-> IF usual THEN (0 :> 2 @@ 1 :> 1) ELSE (0 :> 2 @@ 1 :> 0),
      lost |-> u[2].lost, blind |-> u[2].blind, broken |-> u[2].broken] :
        d \in {{}, {<<0, 1, FALSE>>, <<0, 2, FALSE>>, <<1, 1, FALSE>>},
               {<<0, 1, TRUE>>, <<1, 3, FALSE>>},
               {<<0, 1, FALSE>>, <<1, 1, FALSE>>, <<1, 1, TRUE>>}},
        g \in {{}, {<<0, 1, FALSE>>}, {<<1, 1, FALSE>>}},
        b \in {(0 :> 0 @@ 1 :> 1), (0 :> 1 @@ 1 :> 1), (0 :> 1 @@ 1 :> 2)},
        u \in MCBuses, usual \in BOOLEAN}

\* Command lines and job files.
MCOptions == {<<"bs", 4>>, <<"bs", 8>>, <<"rw", "read">>, <<"readwrite", "write">>}
MCTokenLists ==
    UNION {[1 .. n -> MCOptions \cup {<<"name", "j1">>, <<"name", "global">>}]
           \cup [1 .. n -> MCOptions \cup {<<"name", "j1">>, <<"global", 0>>}] : n \in 0 .. MaxTokens}

\* Thread 4 has exited: it is in the statistics and not in the process list.
MCMeasured == {<<0, 0, 0, 0, Absent>>, <<28, 0, 0, 4, Absent>>, <<28, 0, 10, 4, 90>>, <<40, 30, 10, 8, 10>>, <<40, 30, 0, 4, 50>>}
MCProcesses ==
    {p \in {[threads |-> t, iops |-> i, fits |-> f, stem |-> (1 :> 1 @@ 2 :> 1 @@ 3 :> 2), total |-> m[1],
             reads |-> m[2], writes |-> m[3], depth |-> IF m[1] = 0 THEN 0 ELSE 8, size |-> m[4], seq |-> m[5],
             isFio |-> fio, explicit |-> e] :
               t \in {{}, {1}, {1, 2, 3}},
               i \in {(1 :> 10 @@ 2 :> 20 @@ 3 :> 0 @@ 4 :> 10), [n \in 1 .. 4 |-> 0]},
               f \in [{"j1", "j2"} -> {{}, {1}, {1, 2}, {3}}], m \in MCMeasured,
               fio \in BOOLEAN, e \in {Absent, "other"}} :
       \A j \in {"j1", "j2"} : p.fits[j] \subseteq p.threads}
MCDefinitions ==
    [cmdline : {<<>>, <<<<"name", "j1">>, <<"bs", 4>>>>,
                <<<<"rw", "read">>, <<"name", "j1">>, <<"name", "j2">>, <<"iodepth", 8>>>>,
                <<<<"bs", Unparsed>>, <<"name", "j1">>, <<"readwrite", "write">>, <<"name", "j2">>>>},
     jobfile : {<<>>, <<<<"name", "j2">>, <<"rw", "write">>>>}]

MCAddresses == {0, EXACT, EXACT + 1, EXACT + 2}
MCInstants == {-1, 0, EXACT + 1, EXACT + 2}
MCSessionGroups == {g \in LogicalGroup : g.expected_workload = None /\ ~g.inferred
                                          /\ g.measured_workload = None}
=============================================================================
