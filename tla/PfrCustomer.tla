---------------------------- MODULE PfrCustomer ----------------------------
(***************************************************************************)
(* The prefixes of the customer and the local networks of a daemon, loaded *)
(* one after the other: pfr_customer(int) pushes one range per row of the  *)
(* table pfr_prefix4, pfr_localnets(string) one network per entry of the   *)
(* key localnets.  Together they decide which flows the list of            *)
(* destinations is made of (PfrDstList).                                   *)
(***************************************************************************)
EXTENDS PfrPrefix, FiniteSets

CONSTANTS
    Rows,      \* what the column prefix of pfr_prefix4 may hold
    Entries,   \* what an entry of localnets may be
    MaxLoad    \* bound: rows and entries loaded

ASSUME CustomerAssumption ==
    /\ Rows \subseteq Prefix
    /\ Entries \subseteq Prefix /\ \A e \in Entries : e.len \in 0..Width
    /\ MaxLoad \in Nat

VARIABLES
    prefix4,   \* the ranges, each with the row it was built from
    nets       \* the networks, each with its entry

vars == <<prefix4, nets>>

Loaded == Cardinality(prefix4) + Cardinality(nets)

Init == prefix4 = {} /\ nets = {}

\* One turn of the loop over the rows: push_back(pfr_prefix4(pfx)).
LoadRow(p) ==
    /\ Loaded < MaxLoad
    /\ \E range \in Ranges(p) : prefix4' = prefix4 \cup {[row |-> p, range |-> range]}
    /\ UNCHANGED nets

\* One turn of the loop over the entries of localnets.
LoadNet(e) ==
    /\ Loaded < MaxLoad
    /\ \E mask \in Masks(e.len) :
          nets' = nets \cup {[row |-> e, net |-> e.addr, mask |-> mask]}
    /\ UNCHANGED prefix4

Done == Loaded = MaxLoad /\ UNCHANGED vars

Next ==
    \/ \E p \in Rows : LoadRow(p)
    \/ \E e \in Entries : LoadNet(e)
    \/ Done

Spec == Init /\ [][Next]_vars

\* pfr_customer::ispfxhit for an IPv4 address.
Ispfxhit(a) == \E x \in prefix4 : IsPfxHit(a, x.range)

\* pfr_localnets::is_host_in_network
IsHostInNetwork(a) == \E n \in nets : InNetwork(a, n)
----------------------------------------------------------------------------
\* Properties

WellFormed(p) == p.len \in 0..Width

\* The customer is never given a foreign address: unless a row has no length, or
\* an impossible one, what ispfxhit accepts lies in one of the rows, whatever
\* the sign of the integers.
HitOnlyInside ==
    (\A x \in prefix4 : WellFormed(x.row)) =>
        \A a \in Address : Ispfxhit(a) => \E x \in prefix4 : Inside(a, x.row)

\* An address of the customer is missed only through a row of length 0, whose
\* range ends below its start, or one with host bits set, which begins at the
\* address as written.
MissNeedsCause ==
    \A x \in prefix4 : WellFormed(x.row) =>
        \A a \in Address :
            Inside(a, x.row) /\ ~Ispfxhit(a) => x.row.len = 0 \/ a < x.row.addr

\* The masks of pfr_localnets have neither fault: with lengths from 1 on an
\* address is local exactly when it lies in one of the entries.
LocalnetsExact ==
    (\A n \in nets : n.row.len # 0) =>
        \A a \in Address : IsHostInNetwork(a) <=> \E n \in nets : Inside(a, n.row)
=============================================================================
