------------------------ MODULE SessionReceiveProofs ------------------------
(***************************************************************************)
(* Proofs about SessionReceive for every value of the constants.           *)
(***************************************************************************)
EXTENDS SessionReceive, SequenceTheorems, TLAPS

(* Every fetch of the current call before its last one consumed a record   *)
(* the peer sent: the records fetched and the records waiting are at most  *)
(* the records sent.                                                      *)
FetchCountInv ==
  /\ Len(wire) <= sent
  /\ rpc # "idle" => fetches + Len(wire) <= sent

(* What the ghost counters are at each point of the call. *)
PhaseInv ==
  /\ rpc = "fetch1" => fetches = 0 /\ ~renegotiated
  /\ rpc = "handshake" => fetches = 1 /\ ~renegotiated
  /\ rpc = "fetch2" =>
       fetches = 1 /\ renegotiated /\ ~local_initiated_renegotiation
  /\ rpc = "loop" => ~renegotiated

(* The inductive strengthening of the three invariants of receive_main. *)
IInv ==
  /\ TypeOK
  /\ FetchCountInv
  /\ PhaseInv
  /\ RenegotiationFetchPolicy
  /\ PostHandshakeConsumed

-----------------------------------------------------------------------------
(* The record layer's contract *)

(* What a fetch reports: a status of the call, a flag, a packet id; it     *)
(* reports success or a post-handshake message only for a record sent.    *)
LEMMA FetchFacts ==
  ASSUME TypeOK
  PROVE  /\ FetchResult.st \in Statuses
         /\ FetchResult.flag \in BOOLEAN
         /\ FetchResult.packet \in 0..MaxRecords
         /\ FetchResult.st \in {"SUCCESS", "POST_HANDSHAKE_RECEIVED"}
              => wire # << >>
<1>1. CASE wire = << >>
  BY <1>1 DEF FetchResult, TypeOK, Statuses
<1>2. CASE wire # << >>
  <2> DEFINE r == Head(wire)
  <2>1. r.kind \in RecordKinds /\ r.id \in 1..MaxRecords
    <3>1. r \in Records
      BY <1>2, HeadTailProperties DEF TypeOK
    <3> QED BY <3>1 DEF Records
  <2>2. FetchResult =
          [st |-> CASE r.kind \in {"data", "hello"} -> "SUCCESS"
                    [] r.kind = "post" -> "POST_HANDSHAKE_RECEIVED"
                    [] r.kind = "alert" -> "ERROR",
           flag |-> renegotiation_handshake \/ r.kind = "hello",
           packet |-> IF r.kind = "data" THEN r.id ELSE packet]
    BY <1>2 DEF FetchResult
  <2>3. FetchResult.st \in {"SUCCESS", "POST_HANDSHAKE_RECEIVED", "ERROR"}
    BY <2>1, <2>2, Zenon DEF RecordKinds
  <2>4. FetchResult.flag \in BOOLEAN
    BY <2>2, Zenon
  <2>5. FetchResult.packet \in 0..MaxRecords
    BY <2>1, <2>2 DEF TypeOK
  <2> QED BY <1>2, <2>3, <2>4, <2>5 DEF Statuses
<1> QED BY <1>1, <1>2

(* A fetch takes the first record waiting, if any, counts itself, and     *)
(* leaves a packet id in *packet_ptr_ptr.                                 *)
LEMMA FetchStep ==
  ASSUME TypeOK, ReceiveRecords
  PROVE  /\ wire' \in Seq(Records)
         /\ wire = << >> => wire' = wire
         /\ wire # << >> => Len(wire') = Len(wire) - 1
         /\ fetches < MaxRecords + 2 => fetches' = fetches + 1
         /\ fetches' \in Nat
         /\ packet' \in 0..MaxRecords
<1>1. wire # << >> => Tail(wire) \in Seq(Records) /\ Len(Tail(wire)) = Len(wire) - 1
  BY HeadTailProperties DEF TypeOK
<1>2. FetchResult.packet \in 0..MaxRecords
  BY FetchFacts
<1> QED BY <1>1, <1>2, ReceiveAssumption DEF ReceiveRecords, TypeOK

-----------------------------------------------------------------------------
(* The inductive invariant *)

(* The initial state satisfies the inductive invariant. *)
LEMMA IInvInit == Init => IInv
<1> SUFFICES ASSUME Init PROVE IInv
  OBVIOUS
<1>1. TypeOK
  <2>1. wire \in Seq(Records)
    BY DEF Init
  <2>2. /\ sent \in 0..MaxRecords /\ packet \in 0..MaxRecords
        /\ fetches \in 0..MaxRecords + 1 /\ local_reneg \in 0..MaxLocalReneg
    BY ReceiveAssumption DEF Init, NoPacket
  <2>3. status \in Statuses
    BY DEF Init, Statuses
  <2> QED BY <2>1, <2>2, <2>3, Zenon DEF Init, TypeOK
<1>2. FetchCountInv /\ PhaseInv
  BY DEF Init, FetchCountInv, PhaseInv
<1>3. RenegotiationFetchPolicy /\ PostHandshakeConsumed
  BY DEF Init, RenegotiationFetchPolicy, PostHandshakeConsumed
<1> QED BY <1>1, <1>2, <1>3 DEF IInv

(* The peer's send and a renegotiation this side asks for between calls. *)
LEMMA EnvironmentStep ==
  ASSUME IInv, PeerSend \/ LocalRenegotiate
  PROVE  IInv'
<1>1. CASE PeerSend
  <2>1. PICK k \in RecordKinds : wire' = Append(wire, [kind |-> k, id |-> sent + 1])
    BY <1>1 DEF PeerSend
  <2>2. [kind |-> k, id |-> sent + 1] \in Records
    BY <1>1, ReceiveAssumption DEF PeerSend, Records, IInv, TypeOK
  <2>3. wire' \in Seq(Records) /\ Len(wire') = Len(wire) + 1
    BY <2>1, <2>2, AppendProperties DEF IInv, TypeOK
  <2>4. TypeOK'
    BY <1>1, <2>3, ReceiveAssumption DEF PeerSend, IInv, TypeOK
  <2>5. FetchCountInv'
    BY <1>1, <2>3, ReceiveAssumption DEF PeerSend, IInv, TypeOK, FetchCountInv
  <2>6. PhaseInv' /\ RenegotiationFetchPolicy' /\ PostHandshakeConsumed'
    BY <1>1 DEF PeerSend, IInv, PhaseInv, RenegotiationFetchPolicy,
       PostHandshakeConsumed
  <2> QED BY <2>4, <2>5, <2>6 DEF IInv
<1>2. CASE LocalRenegotiate
  <2>1. TypeOK'
    BY <1>2, ReceiveAssumption DEF LocalRenegotiate, IInv, TypeOK
  <2>2. FetchCountInv' /\ PhaseInv'
    BY <1>2 DEF LocalRenegotiate, IInv, FetchCountInv, PhaseInv
  <2>3. RenegotiationFetchPolicy' /\ PostHandshakeConsumed'
    BY <1>2 DEF LocalRenegotiate, IInv, RenegotiationFetchPolicy,
       PostHandshakeConsumed
  <2> QED BY <2>1, <2>2, <2>3 DEF IInv
<1> QED BY <1>1, <1>2

(* The entry of lines 256-290 starts a call with no fetch and no handshake. *)
LEMMA EntryStep ==
  ASSUME IInv, SessionReceive
  PROVE  IInv'
<1>1. TypeOK'
  <2>1. packet' \in 0..MaxRecords /\ fetches' \in 0..MaxRecords + 1
    BY ReceiveAssumption DEF SessionReceive, NoPacket
  <2> QED BY <2>1, Zenon DEF SessionReceive, IInv, TypeOK
<1>2. FetchCountInv' /\ PhaseInv'
  BY DEF SessionReceive, IInv, FetchCountInv, PhaseInv
<1>3. RenegotiationFetchPolicy' /\ PostHandshakeConsumed'
  BY DEF SessionReceive, RenegotiationFetchPolicy, PostHandshakeConsumed
<1> QED BY <1>1, <1>2, <1>3 DEF IInv

(* A fetch step that ends in step x with status st and flag fl: what it    *)
(* leaves of the invariant's state, whatever the step.                    *)
FetchEnds(x, st, fl) ==
  /\ rpc' = x /\ status' = st /\ renegotiation_handshake' = fl
  /\ UNCHANGED <<sent, tls_state, local_reneg, local_initiated_renegotiation,
                 renegotiated>>

(* The type of the state after a fetch step that counted one more fetch. *)
LEMMA FetchTyped ==
  ASSUME TypeOK, NEW x \in {"idle", "fetch1", "handshake", "fetch2", "loop"},
         NEW st \in Statuses, NEW fl \in BOOLEAN, FetchEnds(x, st, fl),
         wire' \in Seq(Records), packet' \in 0..MaxRecords,
         fetches' \in 0..MaxRecords + 1
  PROVE  TypeOK'
BY DEF FetchEnds, TypeOK

(* The first fetch: the handshake and the loop are entered only after a   *)
(* record was consumed, and what it returns is never a post-handshake     *)
(* message.                                                              *)
LEMMA FirstFetchStep ==
  ASSUME IInv, FirstFetch
  PROVE  IInv'
<1> DEFINE f == FetchResult
<1>1. rpc = "fetch1" /\ fetches = 0 /\ ~renegotiated
  BY DEF FirstFetch, IInv, PhaseInv
<1>2. /\ wire' \in Seq(Records)
      /\ wire = << >> => wire' = wire
      /\ wire # << >> => Len(wire') = Len(wire) - 1
      /\ fetches' = 1
      /\ packet' \in 0..MaxRecords
  BY <1>1, FetchStep, ReceiveAssumption DEF FirstFetch, IInv
<1>3. /\ f.st \in Statuses /\ f.flag \in BOOLEAN
      /\ f.st \in {"SUCCESS", "POST_HANDSHAKE_RECEIVED"} => wire # << >>
  BY FetchFacts DEF IInv
<1>4. /\ Len(wire) <= sent /\ sent \in 0..MaxRecords /\ Len(wire) \in Nat
      /\ MaxRecords \in Nat
  BY ReceiveAssumption DEF IInv, FetchCountInv, TypeOK
<1>5. CASE f.st = "SUCCESS" /\ f.flag
  <2>1. FetchEnds("handshake", "SUCCESS", FALSE)
    BY <1>5 DEF FirstFetch, FetchEnds
  <2>2. TypeOK'
    <3>1. "SUCCESS" \in Statuses /\ 1 \in 0..MaxRecords + 1
      BY <1>4 DEF Statuses
    <3> QED BY <1>2, <2>1, <3>1, FetchTyped DEF IInv
  <2>3. FetchCountInv'
    BY <1>2, <1>3, <1>4, <1>5, <2>1 DEF FetchEnds, FetchCountInv
  <2>4. PhaseInv' /\ RenegotiationFetchPolicy' /\ PostHandshakeConsumed'
    BY <1>1, <1>2, <2>1 DEF FetchEnds, PhaseInv, RenegotiationFetchPolicy,
       PostHandshakeConsumed
  <2> QED BY <2>2, <2>3, <2>4 DEF IInv
<1>6. CASE ~(f.st = "SUCCESS" /\ f.flag) /\ f.st = "POST_HANDSHAKE_RECEIVED"
  <2>1. FetchEnds("loop", f.st, f.flag)
    BY <1>6 DEF FirstFetch, FetchEnds
  <2>2. TypeOK'
    BY <1>2, <1>3, <1>4, <2>1, FetchTyped DEF IInv
  <2>3. FetchCountInv'
    BY <1>2, <1>3, <1>4, <1>6, <2>1 DEF FetchEnds, FetchCountInv
  <2>4. PhaseInv' /\ RenegotiationFetchPolicy' /\ PostHandshakeConsumed'
    BY <1>1, <1>2, <2>1 DEF FetchEnds, PhaseInv, RenegotiationFetchPolicy,
       PostHandshakeConsumed
  <2> QED BY <2>2, <2>3, <2>4 DEF IInv
<1>7. CASE ~(f.st = "SUCCESS" /\ f.flag) /\ f.st # "POST_HANDSHAKE_RECEIVED"
  <2>1. FetchEnds("idle", f.st, f.flag)
    BY <1>7 DEF FirstFetch, FetchEnds, Return
  <2>2. TypeOK'
    BY <1>2, <1>3, <1>4, <2>1, FetchTyped DEF IInv
  <2>3. FetchCountInv'
    BY <1>2, <1>4, <2>1 DEF FetchEnds, FetchCountInv
  <2>4. PhaseInv' /\ RenegotiationFetchPolicy' /\ PostHandshakeConsumed'
    BY <1>1, <1>7, <2>1 DEF FetchEnds, PhaseInv, RenegotiationFetchPolicy,
       PostHandshakeConsumed
  <2> QED BY <2>2, <2>3, <2>4 DEF IInv
<1> QED BY <1>5, <1>6, <1>7

(* The handshake returns at once after a renegotiation this side asked    *)
(* for, and otherwise goes on to exactly one more fetch.                 *)
LEMMA HandshakeStep ==
  ASSUME IInv, Handshake
  PROVE  IInv'
<1>1. /\ rpc = "handshake" /\ fetches = 1 /\ ~renegotiated
      /\ UNCHANGED <<wire, sent, renegotiation_handshake, local_reneg,
                     local_initiated_renegotiation, packet, fetches>>
  BY DEF Handshake, IInv, PhaseInv
<1>2. /\ rpc' \in {"idle", "fetch2"} /\ status' \in {"SUCCESS", "ERROR"}
      /\ tls_state' \in {"ESTABLISHED", "RENEGOTIATING"}
      /\ renegotiated' \in BOOLEAN
  BY Zenon DEF Handshake, Return, IInv, TypeOK
<1>3. TypeOK'
  BY <1>1, <1>2 DEF IInv, TypeOK, Statuses
<1>4. FetchCountInv'
  BY <1>1, <1>2 DEF IInv, FetchCountInv
<1>5. CASE tls_state' = "ESTABLISHED" /\ renegotiated' = TRUE
  <2>1. rpc' = IF local_initiated_renegotiation THEN "idle" ELSE "fetch2"
    BY <1>1, <1>5, Zenon DEF Handshake, Return
  <2> QED BY <1>1, <1>3, <1>4, <1>5, <2>1
          DEF IInv, PhaseInv, RenegotiationFetchPolicy, PostHandshakeConsumed
<1>6. CASE rpc' = "idle" /\ status' = "ERROR" /\ UNCHANGED renegotiated
  BY <1>1, <1>3, <1>4, <1>6
     DEF IInv, PhaseInv, RenegotiationFetchPolicy, PostHandshakeConsumed
<1> QED BY <1>5, <1>6, Zenon DEF Handshake, Return

(* The fetch after a peer-initiated renegotiation is the call's second. *)
LEMMA SecondFetchStep ==
  ASSUME IInv, SecondFetch
  PROVE  IInv'
<1>1. /\ rpc = "fetch2" /\ fetches = 1 /\ renegotiated
      /\ ~local_initiated_renegotiation
  BY DEF SecondFetch, IInv, PhaseInv
<1>2. /\ wire' \in Seq(Records)
      /\ wire = << >> => wire' = wire
      /\ wire # << >> => Len(wire') = Len(wire) - 1
      /\ fetches' = 2
      /\ packet' \in 0..MaxRecords
  BY <1>1, FetchStep, ReceiveAssumption DEF SecondFetch, IInv
<1>3. FetchResult.st \in Statuses /\ FetchResult.flag \in BOOLEAN
  BY FetchFacts DEF IInv
<1>4. FetchEnds("idle", FetchResult.st, FetchResult.flag)
  BY DEF SecondFetch, Return, FetchEnds
<1>5. 2 \in 0..MaxRecords + 1
  BY <1>1, ReceiveAssumption DEF IInv, FetchCountInv, TypeOK
<1>6. TypeOK'
  BY <1>2, <1>3, <1>4, <1>5, FetchTyped DEF IInv
<1>7. FetchCountInv'
  BY <1>2, <1>4 DEF IInv, TypeOK, FetchCountInv, FetchEnds
<1>8. PhaseInv' /\ RenegotiationFetchPolicy' /\ PostHandshakeConsumed'
  BY <1>1, <1>2, <1>4 DEF FetchEnds, PhaseInv, RenegotiationFetchPolicy,
     PostHandshakeConsumed
<1> QED BY <1>6, <1>7, <1>8 DEF IInv

(* Lines 326-329: the loop stays only on a consumed post-handshake       *)
(* message and returns anything else.                                    *)
LEMMA LoopStep ==
  ASSUME IInv, PostHandshakeLoop
  PROVE  IInv'
<1> DEFINE f == FetchResult
<1>1. /\ rpc = "loop" /\ ~renegotiated /\ fetches + Len(wire) <= sent
      /\ sent \in 0..MaxRecords /\ fetches \in Nat /\ Len(wire) \in Nat
      /\ MaxRecords \in Nat
  BY ReceiveAssumption DEF PostHandshakeLoop, IInv, PhaseInv, FetchCountInv,
     TypeOK
<1>2. /\ wire' \in Seq(Records)
      /\ wire = << >> => wire' = wire
      /\ wire # << >> => Len(wire') = Len(wire) - 1
      /\ fetches' = fetches + 1
      /\ packet' \in 0..MaxRecords
  BY <1>1, FetchStep DEF PostHandshakeLoop, IInv
<1>3. /\ f.st \in Statuses /\ f.flag \in BOOLEAN
      /\ f.st \in {"SUCCESS", "POST_HANDSHAKE_RECEIVED"} => wire # << >>
  BY FetchFacts DEF IInv
<1>4. fetches' \in 0..MaxRecords + 1
  BY <1>1, <1>2
<1>5. CASE f.st = "POST_HANDSHAKE_RECEIVED"
  <2>1. FetchEnds("loop", status, f.flag)
    BY <1>1, <1>5 DEF PostHandshakeLoop, FetchEnds
  <2>2. TypeOK'
    BY <1>2, <1>3, <1>4, <2>1, FetchTyped DEF IInv, TypeOK
  <2>3. FetchCountInv'
    BY <1>1, <1>2, <1>3, <1>5, <2>1 DEF FetchEnds, FetchCountInv
  <2>4. PhaseInv' /\ RenegotiationFetchPolicy' /\ PostHandshakeConsumed'
    BY <1>1, <2>1 DEF FetchEnds, PhaseInv, RenegotiationFetchPolicy,
       PostHandshakeConsumed
  <2> QED BY <2>2, <2>3, <2>4 DEF IInv
<1>6. CASE f.st # "POST_HANDSHAKE_RECEIVED"
  <2>1. FetchEnds("idle", f.st, f.flag)
    BY <1>6 DEF PostHandshakeLoop, Return, FetchEnds
  <2>2. TypeOK'
    BY <1>2, <1>3, <1>4, <2>1, FetchTyped DEF IInv
  <2>3. FetchCountInv'
    BY <1>1, <1>2, <2>1 DEF FetchEnds, FetchCountInv
  <2>4. PhaseInv' /\ RenegotiationFetchPolicy' /\ PostHandshakeConsumed'
    BY <1>1, <1>6, <2>1 DEF FetchEnds, PhaseInv, RenegotiationFetchPolicy,
       PostHandshakeConsumed
  <2> QED BY <2>2, <2>3, <2>4 DEF IInv
<1> QED BY <1>5, <1>6

(* Every step keeps the inductive invariant. *)
LEMMA IInvStep ==
  ASSUME IInv, [Next]_vars
  PROVE  IInv'
<1>1. CASE UNCHANGED vars
  BY <1>1 DEF vars, IInv, TypeOK, FetchCountInv, PhaseInv,
     RenegotiationFetchPolicy, PostHandshakeConsumed
<1> QED BY <1>1, EnvironmentStep, EntryStep, FirstFetchStep, HandshakeStep,
           SecondFetchStep, LoopStep DEF Next, ReceiveStep

(* The inductive invariant holds in every reachable state. *)
LEMMA IInvHolds == Spec => []IInv
BY IInvInit, IInvStep, PTL DEF Spec

(* The state of the receive call and of the record layer stays within its *)
(* types, in particular a call fetches at most one record more than the   *)
(* peer sent, whatever the number of records and renegotiations.          *)
THEOREM ReceiveTypeCorrect == Spec => []TypeOK
BY IInvHolds, PTL DEF IInv

(* Spec 8, for every bound: a call that completed a renegotiation fetched *)
(* once more after it when the peer asked for it, and never when this    *)
(* side did (the snapshot of lines 274-290 precedes the handshake).      *)
THEOREM FetchPolicyHolds == Spec => []RenegotiationFetchPolicy
BY IInvHolds, PTL DEF IInv

(* Lines 323-330, for every bound: a call that ran no renegotiation never *)
(* returns POST_HANDSHAKE_RECEIVED.                                      *)
THEOREM PostHandshakeConsumedHolds == Spec => []PostHandshakeConsumed
BY IInvHolds, PTL DEF IInv

=============================================================================
