-------------------------- MODULE MCPfrLifecycle ---------------------------
(***************************************************************************)
(* A small instance of PfrLifecycle: two processes, a file with two        *)
(* possible pid files, flows below and at the minimum of three.            *)
(***************************************************************************)
EXTENDS PfrLifecycle

MCLines == [pid_path |-> {"/run/a", "/run/b"}, enable_advertise |-> {"on", "off", Absent},
            path_metric |-> {"metric1", "best"}, deep_delete |-> {"three"}]
MCStartFile == [pid_path |-> "/run/a", enable_advertise |-> "on", path_metric |-> "metric1",
                deep_delete |-> "three"]

\* The customer has 64..127, the local network 8..11 is written with host bits set.
MCCustomer == {[addr |-> 64, len |-> 2]}
MCLocalnets == {[addr |-> 9, len |-> 6]}

Own(d) == [src |-> 100, dst |-> d]
Other(d) == [src |-> 200, dst |-> d]

MCFlows == {<<Own(1), Own(2), Own(3)>>, <<Own(1), Own(2), Other(3), Own(8), Own(20)>>}
=============================================================================
