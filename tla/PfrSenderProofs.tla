-------------------------- MODULE PfrSenderProofs --------------------------
(***************************************************************************)
(* Proofs about PfrSender, for any number of peers, destinations and       *)
(* requests: a probe is lost only to another sender thread, and freed      *)
(* memory is read only through the address of another thread.              *)
(***************************************************************************)
EXTENDS PfrSender, TLAPS

(***************************************************************************)
(* The inductive invariant.  A thread inside the list that finds its own   *)
(* address in pr->sasend finds the present one.  As long as nobody has     *)
(* disturbed the present probe of a thread, sendbuf holds what the thread  *)
(* has written so far.                                                     *)
(***************************************************************************)
InList == Using \cup {"seq"}

SenderType ==
    /\ at \in [Peer -> Using \cup {"start", "resolve", "seq", "done"}]
    /\ dst \in [Peer -> Nat]
    /\ seq \in [Peer -> Seqs]
    /\ buf \in [peer : Peer \cup {NoPeer}, seq : Seqs, sum : (Peer \cup {NoPeer}) \X Seqs]
    /\ \A n \in Peer : at[n] \in InList \cup {"resolve"} => dst[n] \in 1 .. NDst

AddressInv ==
    \A n \in Peer : at[n] \in InList /\ sasend.by = n => sasend.dst = dst[n]

BufferInv ==
    \A n \in Peer : Current(n) \notin hit =>
        /\ at[n] \in Using => buf.seq = seq[n]
        /\ at[n] \in {"cksum", "send"} => buf.peer = n
        /\ at[n] = "send" => buf.sum = <<n, seq[n]>>

SInv == SenderType /\ AddressInv /\ BufferInv /\ LostNeedsOtherThread
----------------------------------------------------------------------------
\* No thread has finished a probe when the round begins.
LEMMA InitSInv == Init => SInv
<1> SUFFICES ASSUME Init PROVE SInv
  OBVIOUS
<1>1. 0 \in Seqs /\ NoSum \in (Peer \cup {NoPeer}) \X Seqs
  BY SenderAssumption DEF Seqs, NoSum, NoPeer
<1>2. SenderType
  BY <1>1, SenderAssumption DEF Init, SenderType, InList, Using
<1>3. AddressInv /\ BufferInv
  BY DEF Init, AddressInv, BufferInv, InList, Using
<1>4. LostNeedsOtherThread
  <2>1. \A n \in Peer : Over(n) = {}
    BY SenderAssumption DEF Init, Over, Probe, Seqs
  <2> QED
    BY <2>1 DEF LostNeedsOtherThread
<1> QED
  BY <1>2, <1>3, <1>4 DEF SInv

\* A step of thread n moves no other thread.
LEMMA OthersStay ==
    ASSUME SInv, NEW n \in Peer, Step(n), NEW k \in Peer \ {n}
    PROVE  /\ at'[k] = at[k] /\ dst'[k] = dst[k] /\ seq'[k] = seq[k]
           /\ Over(k)' = Over(k) /\ Current(k)' = Current(k)
<1>1. at'[k] = at[k] /\ dst'[k] = dst[k] /\ seq'[k] = seq[k]
  BY DEF Step, OpenSocket, Resolve, SetSeq, Fill, Checksum, SendTo, Head, SInv, SenderType
<1> QED
  BY <1>1 DEF Over, Current

\* The types.
LEMMA StepType ==
    ASSUME SInv, NEW n \in Peer, Step(n)
    PROVE  SenderType'
<1> USE SenderAssumption DEF SInv, SenderType, InList, Using, Seqs, NoPeer
<1>1. CASE OpenSocket(n)
  BY <1>1 DEF OpenSocket, Head
<1>2. CASE Resolve(n)
  BY <1>2 DEF Resolve
<1>3. CASE SetSeq(n)
  BY <1>3 DEF SetSeq
<1>4. CASE Fill(n)
  <2>1. NoSum \in (Peer \cup {0}) \X (0 .. PingReq - 1)
    BY DEF NoSum
  <2> QED
    BY <1>4, <2>1 DEF Fill
<1>5. CASE Checksum(n)
  <2>1. <<buf.peer, buf.seq>> \in (Peer \cup {0}) \X (0 .. PingReq - 1)
    OBVIOUS
  <2> QED
    BY <1>5, <2>1 DEF Checksum
<1>6. CASE SendTo(n)
  BY <1>6 DEF SendTo, Head
<1> QED
  BY <1>1, <1>2, <1>3, <1>4, <1>5, <1>6 DEF Step

\* The address.
LEMMA StepAddress ==
    ASSUME SInv, NEW n \in Peer, Step(n)
    PROVE  AddressInv'
<1> USE SenderAssumption DEF SInv, SenderType, AddressInv, InList, Using
<1>1. CASE OpenSocket(n)
  BY <1>1 DEF OpenSocket, Head
<1>2. CASE Resolve(n)
  BY <1>2 DEF Resolve
<1>3. CASE SetSeq(n) \/ Fill(n) \/ Checksum(n)
  BY <1>3 DEF SetSeq, Fill, Checksum
<1>4. CASE SendTo(n)
  BY <1>4 DEF SendTo, Head
<1> QED
  BY <1>1, <1>2, <1>3, <1>4 DEF Step

\* Nobody takes a probe out of hit.
LEMMA HitGrows ==
    ASSUME NEW n \in Peer, Step(n)
    PROVE  hit \subseteq hit'
  BY DEF Step, OpenSocket, Resolve, SetSeq, Fill, Checksum, SendTo, Disturb

\* The buffer: a thread that writes to it marks the probes of all others that use it.
LEMMA StepBuffer ==
    ASSUME SInv, NEW n \in Peer, Step(n)
    PROVE  BufferInv'
<1> SUFFICES ASSUME NEW k \in Peer, Current(k)' \notin hit'
             PROVE  /\ at'[k] \in Using => buf'.seq = seq'[k]
                    /\ at'[k] \in {"cksum", "send"} => buf'.peer = k
                    /\ at'[k] = "send" => buf'.sum = <<k, seq'[k]>>
  BY DEF BufferInv
<1>1. CASE k = n
  <2>1. CASE OpenSocket(n) \/ Resolve(n) \/ SendTo(n)
    BY <1>1, <2>1 DEF OpenSocket, Resolve, SendTo, Head, SInv, SenderType, Using
  <2>2. CASE SetSeq(n)
    BY <1>1, <2>2 DEF SetSeq, SInv, SenderType
  <2>3. CASE Fill(n) \/ Checksum(n)
    <3>1. Current(n) = Current(n)' /\ at[n] \in Using /\ hit \subseteq hit'
      BY <2>3, HitGrows DEF Fill, Checksum, Current, Using
    <3>2. buf.seq = seq[n] /\ (at[n] = "cksum" => buf.peer = n)
      BY <1>1, <3>1 DEF SInv, BufferInv
    <3>3. CASE Fill(n)
      BY <1>1, <3>2, <3>3 DEF Fill, SInv, SenderType
    <3>4. CASE Checksum(n)
      <4>1. buf.peer = n /\ buf.seq = seq[n]
        BY <3>2, <3>4 DEF Checksum
      <4>2. buf'.peer = n /\ buf'.seq = seq[n] /\ buf'.sum = <<n, seq[n]>> /\ seq' = seq
        BY <3>4, <4>1 DEF Checksum, SInv, SenderType
      <4> QED
        BY <1>1, <4>2
    <3> QED
      BY <2>3, <3>3, <3>4
  <2> QED
    BY <2>1, <2>2, <2>3 DEF Step
<1>2. CASE k # n
  <2>1. /\ at'[k] = at[k] /\ seq'[k] = seq[k] /\ Current(k) \notin hit
        /\ Current(k)' = Current(k)
    BY <1>2, OthersStay, HitGrows
  <2>2. /\ at[k] \in Using => buf.seq = seq[k]
        /\ at[k] \in {"cksum", "send"} => buf.peer = k
        /\ at[k] = "send" => buf.sum = <<k, seq[k]>>
    BY <2>1 DEF SInv, BufferInv
  <2>3. CASE OpenSocket(n) \/ Resolve(n) \/ SendTo(n)
    BY <2>1, <2>2, <2>3 DEF OpenSocket, Resolve, SendTo
  <2>4. CASE SetSeq(n) \/ Fill(n) \/ Checksum(n)
    <3>1. at[k] \in Using => Current(k) \in hit'
      BY <1>2, <2>4 DEF SetSeq, Fill, Checksum, Disturb
    <3> QED
      BY <2>1, <3>1 DEF Using
  <2> QED
    BY <2>3, <2>4 DEF Step
<1> QED
  BY <1>1, <1>2

\* sendto: the probe arrives, unless another thread has had a hand in it.
LEMMA SendArrives ==
    ASSUME SInv, NEW n \in Peer, SendTo(n)
    PROVE  Current(n) \in wire' \cup hit'
<1> SUFFICES ASSUME Current(n) \notin hit' PROVE Current(n) \in wire'
  OBVIOUS
<1>1. sasend.by = n /\ Current(n) \notin hit
  BY DEF SendTo
<1>2. Alive(sasend) /\ sasend.dst = dst[n] /\ dst[n] # 0
  BY <1>1, SenderAssumption DEF SendTo, SInv, AddressInv, SenderType, Alive, InList, Using
<1>3. buf.peer = n /\ buf.seq = seq[n] /\ buf.sum = <<n, seq[n]>>
  BY <1>1 DEF SendTo, SInv, BufferInv, Using
<1>4. Sent(dst[n]) = {Current(n)}
  BY <1>2, <1>3 DEF Sent, Current
<1>5. wire' = wire \cup Sent(dst[n])
  BY <1>2 DEF SendTo, Reached
<1> QED
  BY <1>4, <1>5

\* What thread n has finished grows by the probe it sends.
LEMMA OverGrows ==
    ASSUME SInv, SenderType', NEW n \in Peer, Step(n), NEW p \in Over(n)', p \notin Over(n)
    PROVE  SendTo(n) /\ p = Current(n)
<1>1. p \in Probe /\ p.peer = n /\ p.dst \in 1 .. NDst /\ p.seq \in Seqs
  BY DEF Over, Probe
<1> USE SenderAssumption DEF SInv, SenderType, Seqs, InList, Using
<1>2. CASE OpenSocket(n)
  <2>1. dst'[n] = 1 /\ at'[n] = IF 1 > NDst THEN "done" ELSE "resolve"
    BY <1>2 DEF OpenSocket, Head
  <2> QED
    BY <1>1, <2>1 DEF Over
<1>3. CASE Resolve(n)
  <2>1. dst'[n] = dst[n] /\ seq'[n] = 0
    BY <1>3 DEF Resolve
  <2> QED
    BY <1>1, <2>1 DEF Over
<1>4. CASE SetSeq(n) \/ Fill(n) \/ Checksum(n)
  <2>1. dst'[n] = dst[n] /\ seq'[n] = seq[n] /\ at[n] # "resolve"
    BY <1>4 DEF SetSeq, Fill, Checksum
  <2> QED
    BY <1>1, <2>1 DEF Over
<1>5. CASE SendTo(n)
  <2>1. at[n] = "send" /\ ~(p.dst < dst[n]) /\ ~(p.dst = dst[n] /\ p.seq < seq[n])
    BY <1>1, <1>5 DEF SendTo, Over
  <2>2. CASE seq[n] + 1 < PingReq /\ seq'[n] = seq[n] + 1 /\ dst'[n] = dst[n]
    <3>1. p.dst = dst[n] /\ p.seq = seq[n]
      BY <1>1, <2>1, <2>2 DEF Over
    <3> QED
      BY <1>1, <1>5, <3>1 DEF Current, Probe
  <2>3. CASE /\ seq[n] + 1 = PingReq /\ dst'[n] = dst[n] + 1
             /\ at'[n] = IF dst[n] + 1 > NDst THEN "done" ELSE "resolve"
    <3>1. p.dst = dst[n]
      BY <1>1, <2>1, <2>3 DEF Over
    <3>2. p.seq = seq[n]
      BY <1>1, <2>1, <2>3, <3>1
    <3> QED
      BY <1>1, <1>5, <3>1, <3>2 DEF Current, Probe
  <2> QED
    BY <1>5, <2>2, <2>3 DEF SendTo, Head
<1> QED
  BY <1>2, <1>3, <1>4, <1>5 DEF Step

\* A step of a thread keeps the finished probes on the wire or in hit.
LEMMA StepLost ==
    ASSUME SInv, SenderType', NEW n \in Peer, Step(n)
    PROVE  LostNeedsOtherThread'
<1>1. wire \subseteq wire' /\ hit \subseteq hit'
  BY HitGrows DEF Step, OpenSocket, Resolve, SetSeq, Fill, Checksum, SendTo
<1>2. ASSUME NEW k \in Peer, NEW p \in Over(k)' PROVE p \in wire' \cup hit'
  <2>1. CASE p \in Over(k)
    BY <1>1, <2>1 DEF SInv, LostNeedsOtherThread
  <2>2. CASE p \notin Over(k)
    <3>1. k = n
      BY <1>2, <2>2, OthersStay
    <3>2. SendTo(n) /\ p = Current(n)
      BY <1>2, <2>2, <3>1, OverGrows
    <3> QED
      BY <3>2, SendArrives
  <2> QED
    BY <2>1, <2>2
<1> QED
  BY <1>2 DEF LostNeedsOtherThread

\* The invariant is inductive.
LEMMA NextSInv == SInv /\ [Next]_vars => SInv'
<1> SUFFICES ASSUME SInv, [Next]_vars PROVE SInv'
  OBVIOUS
<1>1. ASSUME NEW n \in Peer, Step(n) PROVE SInv'
  <2>1. SenderType'
    BY <1>1, StepType
  <2> QED
    BY <1>1, <2>1, StepAddress, StepBuffer, StepLost DEF SInv
<1>2. CASE UNCHANGED vars
  BY <1>2 DEF vars, SInv, SenderType, AddressInv, BufferInv, LostNeedsOtherThread, Over,
     Current
<1> QED
  BY <1>1, <1>2 DEF Next, Joined

\* The invariant holds in every reachable state.
LEMMA SenderInv == Spec => []SInv
  BY InitSInv, NextSInv, PTL DEF Spec

\* A probe of send_v4 that does not reach its destination intact was disturbed by
\* another sender thread, in sendbuf or in pr->sasend.
THEOREM LostCorrect == Spec => []LostNeedsOtherThread
<1>1. SInv => LostNeedsOtherThread
  BY DEF SInv
<1> QED
  BY <1>1, SenderInv, PTL

\* A thread of send_v4 never reads its own address after freeaddrinfo.
THEOREM AddressCorrect == Spec => []OwnAddressAlive
<1>1. SInv => OwnAddressAlive
  BY DEF SInv, AddressInv, OwnAddressAlive, Alive, InList, Using
<1> QED
  BY <1>1, SenderInv, PTL
=============================================================================
