---------------------------- MODULE TcpConnection ----------------------------
(***************************************************************************)
(* core/tcp.c: one Tcp object from tcp_new to tcp_destroy, driven by one   *)
(* thread against whatever the network answers.  tcp_connect walks over    *)
(* the addresses getaddrinfo returned, with one socket per address, and    *)
(* ends with the TLS handshake; tcp_close takes everything back.           *)
(*                                                                         *)
(* A socket is known by the address it was made for; 0 stands for the -1   *)
(* of the code.  TCP_FASTOPEN_CONNECT is a non-zero macro, so the socket   *)
(* is never made non-blocking, and its setsockopt is passed no option      *)
(* value and fails: connect therefore blocks and answers yes or no, and    *)
(* the code for EINPROGRESS (tcp.c:181-196) is out of reach.               *)
(***************************************************************************)
EXTENDS Integers, FiniteSets

CONSTANTS
  N  (* bound on the addresses of a host *)

ASSUME TcpConstants == N \in Nat \ {0}

VARIABLES
  pc,       (* where the thread is *)
  secure,   (* the argument of tcp_connect: https *)
  count,    (* addresses of the host *)
  answer,   (* what socket and connect do for each address *)
  i,        (* the address tcp_connect is at *)
  sockfd,   (* the local variable of tcp_connect *)
  sock,     (* tcp->sock *)
  open,     (* descriptors that are open *)
  linked,   (* sockets whose connect succeeded *)
  ctx, ssl  (* tcp->sslCtx and tcp->ssl are not NULL *)

vars == <<pc, secure, count, answer, i, sockfd, sock, open, linked, ctx, ssl>>

PCs     == {"new", "close", "socket", "next", "tls", "handshake", "keep",
            "true", "false", "dead", "destroyed"}
Answers == {"no socket", "refused", "accepted"}
None    == 0

Init ==
  /\ pc = "new"
  /\ secure \in BOOLEAN
  /\ count \in 1..N
  /\ answer \in [1..count -> Answers]
  /\ i = 1
  /\ sockfd = None
  /\ sock = None
  /\ open = {}
  /\ linked = {}
  /\ ctx = FALSE
  /\ ssl = FALSE
-----------------------------------------------------------------------------
(* getaddrinfo fails, or starts the walk at its first address. *)
Resolve ==
  /\ pc = "new"
  /\ pc' \in {"false", "close"}
  /\ UNCHANGED <<secure, count, answer, i, sockfd, sock, open, linked, ctx, ssl>>

(* Mutant: the socket of the address before is forgotten, not closed. *)
CloseForgotten ==
  /\ pc = "close"
  /\ pc' = "socket"
  /\ UNCHANGED <<secure, count, answer, i, sockfd, sock, open, linked, ctx, ssl>>

(* close of the socket that was refused, if there is one. *)
ClosePrevious ==
  /\ pc = "close"
  /\ open' = open \ {sockfd}
  /\ pc' = "socket"
  /\ UNCHANGED <<secure, count, answer, i, sockfd, sock, linked, ctx, ssl>>

(* socket and connect for the address at hand. *)
Socket ==
  /\ pc = "socket"
  /\ IF answer[i] = "no socket"
     THEN sockfd' = None /\ pc' = "next" /\ UNCHANGED <<open, linked>>
     ELSE /\ sockfd' = i
          /\ open' = open \cup {i}
          /\ linked' = IF answer[i] = "accepted" THEN linked \cup {i} ELSE linked
          /\ pc' = IF answer[i] = "accepted" THEN "tls" ELSE "next"
  /\ UNCHANGED <<secure, count, answer, i, sock, ctx, ssl>>

(* Mutant: the walk ends with the first socket that could be made. *)
NextStopsEarly ==
  /\ pc = "next"
  /\ IF sockfd = None /\ i < count
     THEN i' = i + 1 /\ pc' = "close"
     ELSE i' = i /\ pc' = IF sockfd = None THEN "false" ELSE "tls"
  /\ UNCHANGED <<secure, count, answer, sockfd, sock, open, linked, ctx, ssl>>

(* The condition of the do-while, to which continue jumps, and the test    *)
(* behind the loop: a last socket that was refused passes it.              *)
NextAddress ==
  /\ pc = "next"
  /\ IF i < count
     THEN i' = i + 1 /\ pc' = "close"
     ELSE i' = i /\ pc' = IF sockfd = None THEN "false" ELSE "tls"
  /\ UNCHANGED <<secure, count, answer, sockfd, sock, open, linked, ctx, ssl>>

(* The TLS objects, when the connection is to be secure: the context may   *)
(* not be made, the certificates may not be loaded.  That SSL_new may fail *)
(* too is not looked at.                                                   *)
PrepareTLS ==
  /\ pc = "tls"
  /\ IF ~secure
     THEN pc' = "keep" /\ UNCHANGED <<ctx, ssl>>
     ELSE \/ pc' = "false" /\ ctx' \in BOOLEAN /\ UNCHANGED ssl
          \/ pc' = "handshake" /\ ctx' = TRUE /\ ssl' \in BOOLEAN
  /\ UNCHANGED <<secure, count, answer, i, sockfd, sock, open, linked>>

(* SSL_connect is called on whatever socket is left.  1 is success and 0 a *)
(* handshake the other side ended, which passes: both take another side,   *)
(* so the library returns them on a connected socket only.  -1 is an error *)
(* on any socket.  The process ends by SIGPIPE if a socket is written to   *)
(* that is not connected, or not any more, and by a NULL ssl.              *)
Handshake ==
  /\ pc = "handshake"
  /\ \/ ssl /\ sockfd \in linked /\ pc' = "keep"
     \/ ssl /\ pc' = "false"
     \/ pc' = "dead"
  /\ UNCHANGED <<secure, count, answer, i, sockfd, sock, open, linked, ctx, ssl>>

(* tcp->sock gets the socket and tcp_connect returns true. *)
Keep ==
  /\ pc = "keep"
  /\ sock' = sockfd
  /\ pc' = "true"
  /\ UNCHANGED <<secure, count, answer, i, sockfd, open, linked, ctx, ssl>>

(* Mutant: tcp_close closes the socket in its TLS branch only. *)
DestroyTLSOnly ==
  /\ pc \in {"new", "true", "false"}
  /\ open' = IF ssl THEN open \ {sock} ELSE open
  /\ sock' = IF ssl THEN None ELSE sock
  /\ ctx' = FALSE
  /\ ssl' = FALSE
  /\ pc' = "destroyed"
  /\ UNCHANGED <<secure, count, answer, i, sockfd, linked>>

(* tcp_destroy: tcp_close, then the object is freed. *)
Destroy ==
  /\ pc \in {"new", "true", "false"}
  /\ open' = open \ {sock}
  /\ sock' = None
  /\ ctx' = FALSE
  /\ ssl' = FALSE
  /\ pc' = "destroyed"
  /\ UNCHANGED <<secure, count, answer, i, sockfd, linked>>

Next ==
  \/ Resolve \/ ClosePrevious \/ Socket \/ NextAddress
  \/ PrepareTLS \/ Handshake \/ Keep
  \/ Destroy

Spec == Init /\ [][Next]_vars
-----------------------------------------------------------------------------
(* Every variable has a value of its kind. *)
TypeOK ==
  /\ pc \in PCs
  /\ secure \in BOOLEAN
  /\ count \in 1..N
  /\ answer \in [1..count -> Answers]
  /\ i \in 1..count
  /\ sockfd \in 0..count
  /\ sock \in 0..count
  /\ open \subseteq 1..count
  /\ linked \subseteq 1..count
  /\ ctx \in BOOLEAN
  /\ ssl \in BOOLEAN

(* At any moment at most one descriptor is open, and it is the one the     *)
(* variable holds: however many addresses were tried, none of their        *)
(* sockets is left behind.                                                 *)
OneSocket == open \subseteq {sockfd}

(* A connection that fails without TLS leaves nothing open.  One that      *)
(* fails in TLS does: its socket is in no field, and tcp_destroy misses it. *)
PlainFailureIsClean == (pc \in {"false", "destroyed"} /\ ~secure) => open = {}

(* What the walk is for: the socket of the first address that accepts,     *)
(* whatever came before it.                                                *)
FirstAccepting ==
  pc = "true" /\ (\E k \in 1..count : answer[k] = "accepted") =>
    /\ answer[sock] = "accepted"
    /\ \A k \in 1..count : k < sock => answer[k] # "accepted"

(* What the three follow from, as an invariant that every step preserves:   *)
(* while the walk goes on nothing accepted and the socket at hand is the   *)
(* only one; behind it the socket is the first that accepted, or the last. *)
Walking == pc \in {"close", "socket", "next"}
Settled == pc \in {"tls", "handshake", "keep", "true"}
TcpInv ==
  /\ TypeOK
  /\ OneSocket
  /\ pc \in {"new", "socket"} => open = {}
  /\ pc = "new" => i = 1 /\ linked = {}
  /\ pc # "true" => sock = None
  /\ pc = "true" => sock = sockfd
  /\ Walking => linked = {} /\ \A k \in 1..count : k < i => answer[k] # "accepted"
  /\ pc = "next" => answer[i] # "accepted"
  /\ Settled =>
       /\ sockfd # None
       /\ answer[sockfd] = "accepted" => sockfd \in linked
       /\ \A k \in 1..count : k < sockfd => answer[k] # "accepted"
       /\ (\E k \in 1..count : answer[k] = "accepted") => answer[sockfd] = "accepted"
  /\ pc = "handshake" => secure
  /\ PlainFailureIsClean
=============================================================================
