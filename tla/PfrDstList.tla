---------------------------- MODULE PfrDstList -----------------------------
(***************************************************************************)
(* The two constructors of pfr_dst_list that read the flows of the ipfix   *)
(* collector from shared memory (pfr_dst_list.cpp).                        *)
(*                                                                         *)
(* The memory holds a sequence of flows "source,destination".              *)
(***************************************************************************)
EXTENDS Sequences, FiniteSets, SequencesExt, PfrPrefix

CONSTANTS
    Customer,   \* the prefixes of the customer
    Localnets,  \* the entries of localnets
    Db          \* the destinations of the table pfr_dst

ASSUME DstListAssumption ==
    /\ Customer \subseteq Prefix /\ Localnets \subseteq Prefix
    /\ \A p \in Customer \cup Localnets : p.len \in 1..Width
    /\ Db \subseteq Address

Flow == [src : Address, dst : Address]

\* The addresses for which is_host_in_network is true.
LocalHosts ==
    {a \in Address : \E p \in Localnets : \E mask \in Masks(p.len) :
                        InNetwork(a, [net |-> p.addr, mask |-> mask])}

\* The addresses for which ispfxhit of the customer is true.
CustomerHosts ==
    {a \in Address : \E p \in Customer : \E range \in Ranges(p) : IsPfxHit(a, range)}

\* is_host_in_network, pfr_dst_getmap and ispfxhit let the flow through.
Wanted(flow) ==
    flow.dst \notin LocalHosts /\ flow.dst \notin Db /\ flow.src \in CustomerHosts

\* The positions of the flows that are let through.
Hits(shm) == {i \in DOMAIN shm : Wanted(shm[i])}

\* The destinations taken over from the memory.
Accepted(shm) ==
    LET wanted == SelectSeq(shm, Wanted)
    IN  [i \in DOMAIN wanted |-> wanted[i].dst]

WithDb(dsts) == dsts \o SetToSortSeq(Db, <)

\* pfr_dst_list(int, int, cust): the list the daemon starts with.
FirstList(shm) == WithDb(Accepted(shm))

\* Mutant: any flow at all replaces the list.
NextListEager(prev, shm) ==
    IF Hits(shm) = {} THEN prev ELSE WithDb(Accepted(shm))

\* pfr_dst_list(int, int, prevdstList, cust): with fewer than 3 destinations the
\* previous list is kept.
NextList(prev, shm) ==
    IF Cardinality(Hits(shm)) < 3 THEN prev ELSE WithDb(Accepted(shm))

\* strtok has put a NUL behind the first flow: that is all the next reader sees.
AfterStrtok(shm) == IF shm = <<>> THEN <<>> ELSE <<Head(shm)>>
=============================================================================
