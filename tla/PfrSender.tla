----------------------------- MODULE PfrSender -----------------------------
(***************************************************************************)
(* The sender threads of one round (send_v4, ping_send_v4.cpp).  Main      *)
(* starts one thread per peer and joins them all.  Every thread builds its *)
(* echo requests in the one global sendbuf and hands sendto the address in *)
(* the one global pr->sasend; the mutex of the thread guards nothing.      *)
(*                                                                         *)
(* The content of a request is the peer of its payload and its seq; the    *)
(* checksum is the content it was computed over.  An address is named by   *)
(* the thread that allocated it and the place of its destination in the    *)
(* list (place 0 is the host0 with which every thread begins).             *)
(***************************************************************************)
EXTENDS Naturals, FiniteSets

CONSTANTS
    Peer,     \* the peers, one sender thread each
    NDst,     \* the length of dst_list
    PingReq   \* pfr_ping_req

ASSUME SenderAssumption ==
    /\ Peer \subseteq Nat \ {0} /\ IsFiniteSet(Peer)
    /\ NDst \in Nat
    /\ PingReq \in Nat \ {0}

VARIABLES
    at,      \* at[n]: where thread n is
    dst,     \* dst[n]: the place in the list of the iterator of thread n
    seq,     \* seq[n]
    sasend,  \* pr->sasend: [by, dst], the address last stored
    buf,     \* sendbuf: [peer, seq, sum]
    wire,    \* requests sent with a correct checksum: [dst, peer, seq]
    hit      \* history: the probes another thread has disturbed

vars == <<at, dst, seq, sasend, buf, wire, hit>>

Seqs == 0 .. PingReq - 1
Probe == [dst : 1 .. NDst, peer : Peer, seq : Seqs]
NoPeer == 0
NoSum == <<NoPeer, 0>>

Using == {"payload", "cksum", "send"}

\* The address is allocated between getaddrinfo and freeaddrinfo of its thread.
Alive(a) == /\ a.by \in Peer
            /\ dst[a.by] = a.dst
            /\ at[a.by] \in Using \cup {"seq"}

\* The probe thread n is working on.
Current(n) == [dst |-> dst[n], peer |-> n, seq |-> seq[n]]

\* Thread n writes to sendbuf, which the threads between SetSeq and sendto use.
Disturb(n) == hit' = hit \cup {Current(k) : k \in {j \in Peer \ {n} : at[j] \in Using}}

----------------------------------------------------------------------------
Init ==
    /\ at = [n \in Peer |-> "start"]
    /\ dst = [n \in Peer |-> 0]
    /\ seq = [n \in Peer |-> 0]
    /\ sasend = [by |-> NoPeer, dst |-> 0]
    /\ buf = [peer |-> NoPeer, seq |-> 0, sum |-> NoSum]
    /\ wire = {}
    /\ hit = {}

\* The loop head: the next destination, or close(sockwr).
Head(n, d) ==
    /\ dst' = [dst EXCEPT ![n] = d]
    /\ at' = [at EXCEPT ![n] = IF d > NDst THEN "done" ELSE "resolve"]

\* The socket is opened with the address of host0, which is freed before the loop.
OpenSocket(n) ==
    /\ at[n] = "start"
    /\ sasend' = [by |-> n, dst |-> 0]
    /\ Head(n, 1)
    /\ UNCHANGED <<seq, buf, wire, hit>>

\* getaddrinfo of the destination; the header fields are the same for all threads.
Resolve(n) ==
    /\ at[n] = "resolve"
    /\ sasend' = [by |-> n, dst |-> dst[n]]
    /\ seq' = [seq EXCEPT ![n] = 0]
    /\ at' = [at EXCEPT ![n] = "seq"]
    /\ UNCHANGED <<dst, buf, wire, hit>>

SetSeq(n) ==
    /\ at[n] = "seq"
    /\ buf' = [buf EXCEPT !.seq = seq[n]]
    /\ Disturb(n)
    /\ at' = [at EXCEPT ![n] = "payload"]
    /\ UNCHANGED <<dst, seq, sasend, wire>>

\* memcpy of the icmp_payload, icmp_cksum = 0.
Fill(n) ==
    /\ at[n] = "payload"
    /\ buf' = [buf EXCEPT !.peer = n, !.sum = NoSum]
    /\ Disturb(n)
    /\ at' = [at EXCEPT ![n] = "cksum"]
    /\ UNCHANGED <<dst, seq, sasend, wire>>

\* Mutant: the checksum is left out.
ChecksumStale(n) ==
    /\ at[n] = "cksum"
    /\ buf' = [buf EXCEPT !.sum = NoSum]
    /\ Disturb(n)
    /\ at' = [at EXCEPT ![n] = "send"]
    /\ UNCHANGED <<dst, seq, sasend, wire>>

Checksum(n) ==
    /\ at[n] = "cksum"
    /\ buf' = [buf EXCEPT !.sum = <<buf.peer, buf.seq>>]
    /\ Disturb(n)
    /\ at' = [at EXCEPT ![n] = "send"]
    /\ UNCHANGED <<dst, seq, sasend, wire>>

\* The places a sendto through sasend may reach: freed memory may still hold the
\* old address, or anything else (0: an error or a host outside the list).
Reached == IF Alive(sasend) THEN {sasend.dst} ELSE {sasend.dst, 0}

\* A request with a wrong checksum is dropped by its receiver.
Sent(d) ==
    IF d # 0 /\ buf.sum = <<buf.peer, buf.seq>>
    THEN {[dst |-> d, peer |-> buf.peer, seq |-> buf.seq]} ELSE {}

\* Mutant: the address is resolved once, for the first destination.
SendToSameAddress(n) ==
    /\ at[n] = "send"
    /\ \E d \in Reached : wire' = wire \cup Sent(d)
    /\ hit' = IF sasend.by = n THEN hit ELSE hit \cup {Current(n)}
    /\ \/ /\ seq[n] + 1 < PingReq
          /\ seq' = [seq EXCEPT ![n] = seq[n] + 1]
          /\ at' = [at EXCEPT ![n] = "seq"]
          /\ UNCHANGED dst
       \/ /\ seq[n] + 1 = PingReq
          /\ seq' = [seq EXCEPT ![n] = 0]
          /\ dst' = [dst EXCEPT ![n] = dst[n] + 1]
          /\ at' = [at EXCEPT ![n] = IF dst[n] = NDst THEN "done" ELSE "seq"]
    /\ UNCHANGED <<sasend, buf>>

\* sendto, whose errors are ignored, and the loop over seq.  Behind the last seq the
\* address is freed and the iterator advanced.
SendTo(n) ==
    /\ at[n] = "send"
    /\ \E d \in Reached : wire' = wire \cup Sent(d)
    /\ hit' = IF sasend.by = n THEN hit ELSE hit \cup {Current(n)}
    /\ \/ /\ seq[n] + 1 < PingReq
          /\ seq' = [seq EXCEPT ![n] = seq[n] + 1]
          /\ at' = [at EXCEPT ![n] = "seq"]
          /\ UNCHANGED dst
       \/ /\ seq[n] + 1 = PingReq
          /\ Head(n, dst[n] + 1)
          /\ UNCHANGED seq
    /\ UNCHANGED <<sasend, buf>>

\* Main has joined all threads.
Joined ==
    /\ \A n \in Peer : at[n] = "done"
    /\ UNCHANGED vars

Step(n) == OpenSocket(n) \/ Resolve(n) \/ SetSeq(n) \/ Fill(n) \/ Checksum(n) \/ SendTo(n)

Next == (\E n \in Peer : Step(n)) \/ Joined

Spec == Init /\ [][Next]_vars

----------------------------------------------------------------------------
\* Properties

\* The probes thread n has finished.
Over(n) == {p \in Probe : /\ p.peer = n
                          /\ \/ p.dst < dst[n]
                             \/ p.dst = dst[n] /\ at[n] # "resolve" /\ p.seq < seq[n]}

\* A probe that did not reach its destination intact, and thus counts as a lost
\* packet of its path, was disturbed by another sender thread of send_v4: in
\* sendbuf between the write of icmp_seq and sendto, or in pr->sasend.
LostNeedsOtherThread ==
    \A n \in Peer : Over(n) \subseteq wire \cup hit

\* A thread that finds its own address in pr->sasend finds the one of its present
\* destination, not yet freed: sendto reads freed memory only through the address
\* of another thread.
OwnAddressAlive ==
    \A n \in Peer : at[n] \in Using \cup {"seq"} /\ sasend.by = n => Alive(sasend)
=============================================================================
