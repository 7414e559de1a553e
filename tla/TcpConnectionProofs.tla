------------------------- MODULE TcpConnectionProofs -------------------------
(***************************************************************************)
(* The properties of TcpConnection for any number of addresses.            *)
(***************************************************************************)
EXTENDS TcpConnection, TLAPS

(* The object tcp_new makes satisfies the invariant. *)
LEMMA TcpInvInit == Init => TcpInv
  <1> SUFFICES ASSUME Init PROVE TcpInv
      OBVIOUS
  <1>1. i \in 1..count
    <2>1. N \in Nat /\ count \in 1..N /\ i = 1
        BY TcpConstants DEF Init
    <2> QED
        BY <2>1
  <1>2. TypeOK
    <2>1. answer \in [1..count -> Answers] /\ count \in 1..N /\ secure \in BOOLEAN
        BY DEF Init
    <2>2. /\ pc \in PCs /\ sockfd = 0 /\ sock = 0 /\ open = {} /\ linked = {}
          /\ ctx \in BOOLEAN /\ ssl \in BOOLEAN
        BY DEF Init, PCs, None
    <2>3. 0 \in 0..count
        BY <2>1, TcpConstants
    <2> QED
        BY <1>1, <2>1, <2>2, <2>3 DEF TypeOK
  <1> QED
      BY <1>2 DEF Init, TcpInv, OneSocket, PlainFailureIsClean, Walking, Settled

(* A step keeps the types. *)
LEMMA TypeNext == TypeOK /\ [Next]_vars => TypeOK'
  <1> SUFFICES ASSUME TypeOK, [Next]_vars PROVE TypeOK'
      OBVIOUS
  <1> USE DEF TypeOK, PCs, None
  <1>0. N \in Nat \ {0}
      BY TcpConstants
  <1>1. CASE Resolve
      BY <1>1 DEF Resolve
  <1>2. CASE ClosePrevious
      BY <1>2 DEF ClosePrevious
  <1>3. CASE Socket
    <2>1. count \in Nat /\ i \in 1..count
        BY <1>0
    <2>2. sockfd' \in 0..count
      <3>1. sockfd' = 0 \/ sockfd' = i
          BY <1>3 DEF Socket
      <3> QED
          BY <2>1, <3>1
    <2>3. open' \subseteq 1..count /\ linked' \subseteq 1..count
      <3>1. (open' = open \/ open' = open \cup {i}) /\ (linked' = linked \/ linked' = linked \cup {i})
          BY <1>3 DEF Socket
      <3> QED
          BY <2>1, <3>1
    <2>4. pc' \in PCs
        BY <1>3 DEF Socket
    <2> QED
        BY <1>3, <2>2, <2>3, <2>4 DEF Socket
  <1>4. CASE NextAddress
    <2>1. i' \in 1..count
        BY <1>0, <1>4 DEF NextAddress
    <2> QED
        BY <1>4, <2>1 DEF NextAddress
  <1>5. CASE PrepareTLS
      BY <1>5 DEF PrepareTLS
  <1>6. CASE Handshake
      BY <1>6 DEF Handshake
  <1>7. CASE Keep
      BY <1>7 DEF Keep
  <1>8. CASE Destroy
    <2>1. sock' \in 0..count /\ open' \subseteq 1..count
        BY <1>0, <1>8 DEF Destroy
    <2> QED
        BY <1>8, <2>1 DEF Destroy
  <1>9. CASE UNCHANGED vars
      BY <1>9 DEF vars
  <1> QED
      BY <1>1, <1>2, <1>3, <1>4, <1>5, <1>6, <1>7, <1>8, <1>9 DEF Next

(* Every step of tcp_connect and tcp_close preserves the invariant.        *)
LEMMA TcpInvNext == TcpInv /\ [Next]_vars => TcpInv'
  <1> SUFFICES ASSUME TcpInv, [Next]_vars PROVE TcpInv'
      OBVIOUS
  <1>0. TypeOK /\ TypeOK'
      BY TypeNext DEF TcpInv
  <1>n. count \in Nat /\ i \in 1..count /\ sockfd \in 0..count /\ 0 \notin open
      BY <1>0, TcpConstants DEF TypeOK
  <1>i. i # 0
      BY <1>n
  <1> USE DEF TcpInv, OneSocket, PlainFailureIsClean, Walking, Settled, None
  <1>1. CASE Resolve
      BY <1>0, <1>1, <1>n DEF Resolve
  <1>2. CASE ClosePrevious
      BY <1>0, <1>2, <1>n DEF ClosePrevious
  <1>3. CASE Socket
    <2>1. CASE answer[i] = "no socket"
        BY <1>0, <1>3, <1>n, <2>1 DEF Socket
    <2>2. CASE answer[i] = "refused"
        BY <1>0, <1>3, <1>n, <2>2 DEF Socket
    <2>3. CASE answer[i] = "accepted"
      <3>1. /\ sockfd' = i /\ linked' = {i} /\ open' = {i} /\ pc' = "tls"
            /\ UNCHANGED <<secure, count, answer, i, sock>>
          BY <1>3, <2>3 DEF Socket
      <3>2. i # 0 /\ sock = None
          BY <1>3, <1>i DEF Socket
      <3>3. \A k \in 1..count : k < i => answer[k] # "accepted"
          BY <1>3 DEF Socket
      <3>4. Settled'
          BY <3>1, <3>2, <3>3, <2>3
      <3>5. PlainFailureIsClean' /\ OneSocket'
          BY <3>1
      <3>6. sock' = None
          BY <3>1, <3>2
      <3> QED
          BY <1>0, <1>n, <2>3, <3>1, <3>2, <3>3, <3>4, <3>5, <3>6
    <2> QED
        BY <1>0, <2>1, <2>2, <2>3 DEF TypeOK, Answers
  <1>4. CASE NextAddress
    <2>1. CASE i < count
        BY <1>0, <1>4, <1>n, <2>1 DEF NextAddress
    <2>2. CASE ~(i < count) /\ sockfd = None
        BY <1>0, <1>4, <1>n, <2>2 DEF NextAddress
    <2>3. CASE ~(i < count) /\ sockfd # None
        BY <1>0, <1>4, <1>n, <2>3 DEF NextAddress
    <2> QED
        BY <2>1, <2>2, <2>3
  <1>5. CASE PrepareTLS
      BY <1>0, <1>5, <1>n DEF PrepareTLS
  <1>6. CASE Handshake
      BY <1>0, <1>6, <1>n DEF Handshake
  <1>7. CASE Keep
      BY <1>0, <1>7, <1>n DEF Keep
  <1>8. CASE Destroy
      BY <1>0, <1>8, <1>n DEF Destroy
  <1>9. CASE UNCHANGED vars
      BY <1>0, <1>9 DEF vars
  <1> QED
      BY <1>1, <1>2, <1>3, <1>4, <1>5, <1>6, <1>7, <1>8, <1>9 DEF Next

(* The invariant holds in every reachable state. *)
THEOREM TcpInvariant == Spec => []TcpInv
  BY TcpInvInit, TcpInvNext, PTL DEF Spec

(* Every variable of a connection keeps its type, for any number of        *)
(* addresses.                                                              *)
THEOREM TypeCorrect == Spec => []TypeOK
  <1>1. TcpInv => TypeOK
      BY DEF TcpInv
  <1> QED
      BY <1>1, TcpInvariant, PTL

(* However many addresses tcp_connect tries, one descriptor is open at     *)
(* most.                                                                   *)
THEOREM NeverTwoSockets == Spec => []OneSocket
  <1>1. TcpInv => OneSocket
      BY DEF TcpInv
  <1> QED
      BY <1>1, TcpInvariant, PTL

(* tcp_connect ends with the first address that accepts, if one does.      *)
THEOREM FirstWins == Spec => []FirstAccepting
  <1>1. TcpInv => FirstAccepting
      BY DEF TcpInv, FirstAccepting, Settled
  <1> QED
      BY <1>1, TcpInvariant, PTL

(* Without TLS a failed tcp_connect, and tcp_destroy, leave nothing open.  *)
THEOREM PlainNeverLeaks == Spec => []PlainFailureIsClean
  <1>1. TcpInv => PlainFailureIsClean
      BY DEF TcpInv
  <1> QED
      BY <1>1, TcpInvariant, PTL
=============================================================================
