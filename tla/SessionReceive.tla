--------------------------- MODULE SessionReceive ---------------------------
(***************************************************************************)
(* _nx_secure_tls_session_receive: one TLS session's receive entry point,  *)
(* with the renegotiation and post-handshake handling around the record    *)
(* layer.  The record layer (_nx_secure_tls_session_receive_records) and   *)
(* the handshake state machine (_nx_secure_tls_handshake_process) are not  *)
(* in this repository's sources; they are modelled from their contract in  *)
(* the spec: a fetch consumes one record the peer sent, or times out; a    *)
(* hello from the peer raises nx_secure_tls_renegotiation_handshake; the   *)
(* handshake ends with the session established again, or fails.           *)
(*                                                                         *)
(* Both roles behave alike here: "RENEGOTIATING" stands for the client's   *)
(* NX_SECURE_TLS_CLIENT_STATE_RENEGOTIATING and the server's               *)
(* NX_SECURE_TLS_SERVER_STATE_HELLO_REQUEST, the two states in which this  *)
(* side has asked for the renegotiation.                                  *)
(***************************************************************************)
EXTENDS Naturals, Sequences

CONSTANTS
  MaxRecords,     \* records the peer sends in a behaviour
  MaxLocalReneg,  \* renegotiations this side initiates in a behaviour
  WaitForever     \* wait_option is NX_WAIT_FOREVER: a fetch never times out

ASSUME ReceiveAssumption ==
  /\ MaxRecords \in Nat
  /\ MaxLocalReneg \in Nat
  /\ WaitForever \in BOOLEAN

(* What the peer sends: application data, a hello that starts (or answers) *)
(* a renegotiation, a post-handshake message, or a fatal alert.           *)
RecordKinds == {"data", "hello", "post", "alert"}
Records == [kind : RecordKinds, id : 1..MaxRecords]

Statuses == {"NONE", "SUCCESS", "NO_PACKET", "POST_HANDSHAKE_RECEIVED",
             "ERROR"}

NoPacket == 0

VARIABLES
  wire,                     \* records sent by the peer, not yet fetched
  sent,                     \* records the peer has sent so far
  tls_state,                \* "ESTABLISHED" or "RENEGOTIATING"
  renegotiation_handshake,  \* nx_secure_tls_renegotiation_handshake
  local_reneg,              \* renegotiations this side has started
  rpc,                      \* where the application thread is
  local_initiated_renegotiation, \* the local variable of lines 261-290
  status,                   \* the local status / the value returned
  packet,                   \* *packet_ptr_ptr: a data record id or NoPacket
  fetches,                  \* ghost: record fetches in the current call
  renegotiated              \* ghost: the current call ran a handshake

vars == <<wire, sent, tls_state, renegotiation_handshake, local_reneg, rpc,
          local_initiated_renegotiation, status, packet, fetches,
          renegotiated>>

TypeOK ==
  /\ wire \in Seq(Records)
  /\ sent \in 0..MaxRecords
  /\ tls_state \in {"ESTABLISHED", "RENEGOTIATING"}
  /\ renegotiation_handshake \in BOOLEAN
  /\ local_reneg \in 0..MaxLocalReneg
  /\ rpc \in {"idle", "fetch1", "handshake", "fetch2", "loop"}
  /\ local_initiated_renegotiation \in BOOLEAN
  /\ status \in Statuses
  /\ packet \in 0..MaxRecords
  /\ fetches \in 0..MaxRecords + 1
  /\ renegotiated \in BOOLEAN

Init ==
  /\ wire = << >>
  /\ sent = 0
  /\ tls_state = "ESTABLISHED"
  /\ renegotiation_handshake = FALSE
  /\ local_reneg = 0
  /\ rpc = "idle"
  /\ local_initiated_renegotiation = FALSE
  /\ status = "NONE"
  /\ packet = NoPacket
  /\ fetches = 0
  /\ renegotiated = FALSE

-----------------------------------------------------------------------------
(* The environment: the peer and the application's other calls *)

(* The peer sends one record (spec_modelled: the remote host). *)
PeerSend ==
  /\ sent < MaxRecords
  /\ \E k \in RecordKinds :
       wire' = Append(wire, [kind |-> k, id |-> sent + 1])
  /\ sent' = sent + 1
  /\ UNCHANGED <<tls_state, renegotiation_handshake, local_reneg, rpc,
                 local_initiated_renegotiation, status, packet, fetches,
                 renegotiated>>

(* The application asks for a renegotiation between two receive calls:    *)
(* the client sends a ClientHello, the server a HelloRequest               *)
(* (spec_modelled: nx_secure_tls_session_renegotiate).                     *)
LocalRenegotiate ==
  /\ rpc = "idle"
  /\ tls_state = "ESTABLISHED"
  /\ local_reneg < MaxLocalReneg
  /\ tls_state' = "RENEGOTIATING"
  /\ local_reneg' = local_reneg + 1
  /\ UNCHANGED <<wire, sent, renegotiation_handshake, rpc,
                 local_initiated_renegotiation, status, packet, fetches,
                 renegotiated>>

-----------------------------------------------------------------------------
(* _nx_secure_tls_session_receive_records (spec_modelled): take the next   *)
(* record the peer sent, or time out when nothing arrived within the wait  *)
(* budget; with NX_WAIT_FOREVER it waits until the peer sends.             *)

CanFetch == wire # << >> \/ ~WaitForever

(* The record layer's result: status, renegotiation indicator, packet. *)
FetchResult ==
  IF wire = << >>
    THEN [st |-> "NO_PACKET", flag |-> renegotiation_handshake,
          packet |-> packet]
    ELSE LET r == Head(wire) IN
         [st |-> CASE r.kind \in {"data", "hello"} -> "SUCCESS"
                   [] r.kind = "post" -> "POST_HANDSHAKE_RECEIVED"
                   [] r.kind = "alert" -> "ERROR",
          flag |-> renegotiation_handshake \/ r.kind = "hello",
          packet |-> IF r.kind = "data" THEN r.id ELSE packet]

(* The record consumed by a fetch, and the ghost bookkeeping of a fetch;  *)
(* the per-call fetch count saturates one above its bound.                *)
ReceiveRecords ==
  /\ CanFetch
  /\ wire' = IF wire = << >> THEN wire ELSE Tail(wire)
  /\ fetches' = IF fetches < MaxRecords + 2 THEN fetches + 1 ELSE fetches
  /\ packet' = FetchResult.packet

(* Leave _nx_secure_tls_session_receive with status st. *)
Return(st) ==
  /\ rpc' = "idle"
  /\ status' = st

-----------------------------------------------------------------------------
(* _nx_secure_tls_session_receive *)

(* Lines 256-290: entry; note whether this side started a renegotiation. *)
SessionReceive ==
  /\ rpc = "idle"
  /\ rpc' = "fetch1"
  /\ local_initiated_renegotiation' = (tls_state = "RENEGOTIATING")
  /\ packet' = NoPacket
  /\ fetches' = 0
  /\ renegotiated' = FALSE
  /\ UNCHANGED <<wire, sent, tls_state, renegotiation_handshake, local_reneg,
                 status>>

(* Lines 292-302: the first fetch.  A renegotiation indicator with success *)
(* is cleared and the handshake runs; otherwise a post-handshake message   *)
(* enters the loop (line 323) and anything else is returned.              *)
FirstFetch ==
  /\ rpc = "fetch1"
  /\ ReceiveRecords
  /\ LET f == FetchResult IN
     IF f.st = "SUCCESS" /\ f.flag
       THEN /\ renegotiation_handshake' = FALSE
            /\ rpc' = "handshake"
            /\ status' = f.st
       ELSE /\ renegotiation_handshake' = f.flag
            /\ IF f.st = "POST_HANDSHAKE_RECEIVED"
                 THEN /\ rpc' = "loop"
                      /\ status' = f.st
                 ELSE Return(f.st)
  /\ UNCHANGED <<sent, tls_state, local_reneg, local_initiated_renegotiation,
                 renegotiated>>

(* Mutant: whether this side asked for the renegotiation is read after   *)
(* the handshake has reset the state.                                     *)
HandshakeReadsStateAfter ==
  /\ rpc = "handshake"
  /\ UNCHANGED <<wire, sent, renegotiation_handshake, local_reneg,
                 local_initiated_renegotiation, packet, fetches>>
  /\ \/ /\ tls_state' = "ESTABLISHED"
        /\ renegotiated' = TRUE
        /\ IF tls_state' = "RENEGOTIATING"
             THEN Return("SUCCESS")
             ELSE /\ rpc' = "fetch2"
                  /\ status' = "SUCCESS"
     \/ /\ Return("ERROR")
        /\ UNCHANGED <<tls_state, renegotiated>>

(* Lines 304-315: _nx_secure_tls_handshake_process (spec_modelled) either  *)
(* completes, leaving the session established, or fails and its status is *)
(* returned.  After a renegotiation this side asked for, return at once;  *)
(* otherwise fetch once more.                                             *)
Handshake ==
  /\ rpc = "handshake"
  /\ UNCHANGED <<wire, sent, renegotiation_handshake, local_reneg,
                 local_initiated_renegotiation, packet, fetches>>
  /\ \/ /\ tls_state' = "ESTABLISHED"
        /\ renegotiated' = TRUE
        /\ IF local_initiated_renegotiation
             THEN Return("SUCCESS")
             ELSE /\ rpc' = "fetch2"
                  /\ status' = "SUCCESS"
     \/ /\ Return("ERROR")
        /\ UNCHANGED <<tls_state, renegotiated>>

(* Line 317: the fetch after a peer-initiated renegotiation; its status   *)
(* is returned whatever it is.                                            *)
SecondFetch ==
  /\ rpc = "fetch2"
  /\ ReceiveRecords
  /\ renegotiation_handshake' = FetchResult.flag
  /\ Return(FetchResult.st)
  /\ UNCHANGED <<sent, tls_state, local_reneg, local_initiated_renegotiation,
                 renegotiated>>

(* Mutant: "if" for "while": one more fetch, then return. *)
PostHandshakeOnce ==
  /\ rpc = "loop"
  /\ ReceiveRecords
  /\ renegotiation_handshake' = FetchResult.flag
  /\ Return(FetchResult.st)
  /\ UNCHANGED <<sent, tls_state, local_reneg, local_initiated_renegotiation,
                 renegotiated>>

(* Mutant: the loop runs until a fetch succeeds, timeouts included. *)
PostHandshakeUntilSuccess ==
  /\ rpc = "loop"
  /\ ReceiveRecords
  /\ renegotiation_handshake' = FetchResult.flag
  /\ IF FetchResult.st # "SUCCESS"
       THEN UNCHANGED <<rpc, status>>
       ELSE Return(FetchResult.st)
  /\ UNCHANGED <<sent, tls_state, local_reneg, local_initiated_renegotiation,
                 renegotiated>>

(* Lines 326-329: fetch again while post-handshake messages arrive. *)
PostHandshakeLoop ==
  /\ rpc = "loop"
  /\ ReceiveRecords
  /\ renegotiation_handshake' = FetchResult.flag
  /\ IF FetchResult.st = "POST_HANDSHAKE_RECEIVED"
       THEN UNCHANGED <<rpc, status>>
       ELSE Return(FetchResult.st)
  /\ UNCHANGED <<sent, tls_state, local_reneg, local_initiated_renegotiation,
                 renegotiated>>

(* The steps of the application thread inside the receive call. *)
ReceiveStep == FirstFetch \/ Handshake \/ SecondFetch \/ PostHandshakeLoop

Next ==
  \/ PeerSend
  \/ LocalRenegotiate
  \/ SessionReceive
  \/ ReceiveStep

Spec == Init /\ [][Next]_vars

(* The thread inside the call is scheduled, and a fetch with a finite     *)
(* wait budget returns.                                                   *)
FairSpec == Spec /\ WF_vars(ReceiveStep)

(* The application thread calls receive again and again, as the MQTT     *)
(* client's receive thread does.                                          *)
ClientLoopSpec == FairSpec /\ WF_vars(SessionReceive)

-----------------------------------------------------------------------------
(* Properties *)

(* Spec 8: a renegotiation completed inside a receive call is followed by *)
(* exactly one more record fetch when the peer asked for it, and by none  *)
(* when this side asked for it (the snapshot of lines 274-290 is taken    *)
(* before the handshake resets the state it reads).                       *)
RenegotiationFetchPolicy ==
  rpc = "idle" /\ renegotiated =>
    fetches = IF local_initiated_renegotiation THEN 1 ELSE 2

(* Lines 323-330: a call that ran no renegotiation never returns          *)
(* POST_HANDSHAKE_RECEIVED: the loop consumes every post-handshake message *)
(* up to the first other outcome.                                         *)
PostHandshakeConsumed ==
  rpc = "idle" /\ status = "POST_HANDSHAKE_RECEIVED" => renegotiated

(* Once a fetch of the current call has handed over an application-data  *)
(* packet in *packet_ptr_ptr, no later fetch of the same call replaces it *)
(* (the packet would be lost to the application and never released).      *)
DataNotOverwritten ==
  [][rpc # "idle" /\ packet # NoPacket => packet' = packet]_packet

(* With a finite wait budget every receive call returns. *)
ReceiveReturns ==
  rpc # "idle" ~> rpc = "idle"

(* Spec 4.1: a renegotiation indicator raised by the record layer is      *)
(* eventually acted upon by a handshake, as long as the application keeps *)
(* calling receive.                                                       *)
RenegotiationAnswered ==
  renegotiation_handshake ~> ~renegotiation_handshake

=============================================================================
