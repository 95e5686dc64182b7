------------------------------ MODULE TreeWalk ------------------------------
(***************************************************************************)
(* treewalk.py: the lazy pointer tree.  A heap maps an object to           *)
(*   kind   "scalar" | "struct" | "array" | "pointer", and, for what only  *)
(*          a pointer can lead to, "void" | "function" | "incomplete" (a   *)
(*          struct whose members are not known)                            *)
(*   bytes  whether it points to, or is an array of, one-byte integers     *)
(*   parts  the members (name, object) of a struct, the elements of an     *)
(*          array, the target of a pointer (none: NULL)                    *)
(*   fault  whether reading its value faults                               *)
(* A member without a name has name NoName.  The heap is that of one       *)
(* moment: a client that opens rows meets the same one again.              *)
(***************************************************************************)
EXTENDS Integers, Sequences, FiniteSetsExt

CONSTANTS MAX_DEPTH, MAX_ARRAY_CHILDREN, NoName, Star,
          Names            \* of members and elements

ASSUME DepthAssumption == MAX_DEPTH \in Nat /\ MAX_ARRAY_CHILDREN \in Nat
ASSUME StarAssumption == Star \notin Names

Bodiless == {"void", "function", "incomplete"}

\* What C guarantees: no two members of a struct and no two elements of an array
\* have the same name, only members may have none, and each has a body.
HeapOK(heap) ==
    /\ 1 \in DOMAIN heap /\ heap[1].kind \notin Bodiless
    /\ \A o \in DOMAIN heap :
         LET parts == heap[o].parts IN
         /\ heap[o].kind \in {"scalar", "struct", "array", "pointer"} \cup Bodiless
         /\ parts \in Seq((Names \cup {NoName}) \X DOMAIN heap)
         /\ \A i, j \in DOMAIN parts :
              parts[i][1] = parts[j][1] /\ parts[i][1] # NoName => i = j
         /\ heap[o].kind # "struct" => \A i \in DOMAIN parts : parts[i][1] # NoName
         /\ heap[o].kind # "pointer" => \A i \in DOMAIN parts : heap[parts[i][2]].kind \notin Bodiless

IsNull(heap, o) == heap[o].parts = <<>>
Target(heap, o) == heap[o].parts[1][2]

\* describe: what a row of the tree shows of an object.
Describe(heap, o) ==
    LET x == heap[o]
        shown == CASE x.kind = "scalar" -> IF x.fault THEN "unreadable" ELSE "scalar"
                   [] x.kind = "struct" -> "struct"
                   [] x.kind = "array" -> IF x.bytes /\ ~x.fault THEN "string" ELSE "array"
                   [] x.kind = "pointer" ->
                        IF x.fault THEN "unreadable"
                        ELSE IF x.bytes /\ ~IsNull(heap, o) /\ ~heap[Target(heap, o)].fault
                        THEN "string" ELSE "pointer"
    IN [object |-> o, kind |-> shown,
        expandable |-> \/ x.kind = "struct"
                       \/ x.kind = "array" /\ ~x.bytes
                       \/ x.kind = "pointer" /\ ~x.fault /\ ~x.bytes /\ ~IsNull(heap, o)]

\* Mutant: an anonymous member is listed too.
MutNamed(members) == {members[i] : i \in DOMAIN members}

Named(members) == {members[i] : i \in {j \in DOMAIN members : members[j][1] # NoName}}

\* _child_objects: one level, as (name, object), in no order.  A pointer shows the
\* members of the struct it points to, nothing of void, or its target as "*".
ChildObjects(heap, o) ==
    LET x == heap[o] IN
    CASE x.kind = "pointer" ->
           IF IsNull(heap, o) THEN {}
           ELSE IF heap[Target(heap, o)].kind = "struct" THEN Named(heap[Target(heap, o)].parts)
           ELSE IF heap[Target(heap, o)].kind \in Bodiless THEN {}
           ELSE {<<Star, Target(heap, o)>>}
      [] x.kind = "struct" -> Named(x.parts)
      [] x.kind = "array" -> {x.parts[i] : i \in 1 .. Min({Len(x.parts), MAX_ARRAY_CHILDREN})}
      [] x.kind = "scalar" -> {}

\* The TypeError of _child_objects, which nothing catches: a function cannot be
\* indexed, and an incomplete struct has None for its members.
ListingRaises(heap, o) ==
    /\ heap[o].kind = "pointer" /\ ~IsNull(heap, o)
    /\ heap[Target(heap, o)].kind \in {"function", "incomplete"}

\* One step of resolve_path: an index, or member_(name), which goes through a
\* pointer to a struct; {} stands for the error that is raised.
Base(heap, o) == IF heap[o].kind = "pointer" /\ ~IsNull(heap, o) THEN Target(heap, o) ELSE o

Step(heap, o, name) ==
    LET x == heap[o]
        base == Base(heap, o)
        pool == IF x.kind = "array" THEN x.parts
                ELSE IF heap[base].kind # "struct" \/ (x.kind = "pointer" /\ x.fault) THEN <<>>
                ELSE heap[base].parts
    IN {pool[i][2] : i \in {j \in DOMAIN pool : pool[j][1] = name /\ name # NoName}}

\* resolve_path: the objects the path leads to (none: an error).
ResolvePath(heap, root, path) ==
    LET reached[k \in 0 .. Len(path)] ==
            IF k = 0 THEN {root} ELSE UNION {Step(heap, o, path[k]) : o \in reached[k - 1]}
    IN reached[Len(path)]

\* member_() of what is neither a struct nor a pointer to one is a TypeError, unlike
\* the fault or the unknown name that end resolve_path otherwise.  (No row is under a
\* null pointer, so no path of rows goes through one.)
ResolveRaises(heap, root, path) ==
    \E k \in DOMAIN path : \E o \in ResolvePath(heap, root, SubSeq(path, 1, k - 1)) :
        heap[o].kind # "array" /\ heap[Base(heap, o)].kind # "struct"

NoNode == [object |-> 0, kind |-> "unreadable", expandable |-> FALSE]

\* expand: a TypeError ends the call, a fault or an unknown name is told in its answer.
Expand(heap, root, path) ==
    LET found == ResolvePath(heap, root, path)
        o == CHOOSE f \in found : TRUE
        node == Describe(heap, o)
        listed == node.expandable /\ Len(path) < MAX_DEPTH
        Ends(outcome) == [outcome |-> outcome, node |-> NoNode, children |-> {}]
    IN IF Len(path) > MAX_DEPTH THEN Ends("error")
       ELSE IF found = {} THEN Ends(IF ResolveRaises(heap, root, path) THEN "raises" ELSE "error")
       ELSE IF listed /\ ListingRaises(heap, o) THEN Ends("raises")
       ELSE [outcome |-> "ok", node |-> node,
             children |-> IF listed
                          THEN {[name |-> kid[1], node |-> Describe(heap, kid[2])] : kid \in ChildObjects(heap, o)}
                          ELSE {}]

\* Every row leads to what it showed, on cyclic heaps too: the expansion of the path
\* of a listed child finds the same object in the same guise.  The rows of which this
\* is not so raise instead, and are known: "*", which resolve_path takes for a member,
\* and a pointer whose target cannot be listed (expand, resolve_path, _child_objects).
RowsOpen(heap, root, path) ==
    \A row \in Expand(heap, root, path).children :
        LET there == Expand(heap, root, Append(path, row.name))
            shut == \/ row.name = Star
                    \/ /\ row.node.expandable /\ Len(path) + 1 < MAX_DEPTH
                       /\ ListingRaises(heap, row.node.object)
        IN IF shut THEN there.outcome = "raises"
           ELSE there.outcome = "ok" /\ there.node = row.node

\* What the protocol says of a row (proto/telemetryd.proto:200): an expandable one can
\* be entered.
ExpandableOpens(heap, root, path) ==
    \A row \in Expand(heap, root, path).children :
        row.node.expandable => Expand(heap, root, Append(path, row.name)).outcome = "ok"
=============================================================================
