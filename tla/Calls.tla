-------------------------------- MODULE Calls --------------------------------
(***************************************************************************)
(* What a user of graceful-downloader may rely on, with no process,        *)
(* buffer or semaphore in sight: calls are made one at a time; a call for  *)
(* downloads hands them over once, and to the directory it names, before   *)
(* it is answered; the answer is the reply to that call, or its beginning  *)
(* if it is longer than an answer may be; and a call that is given up has  *)
(* handed over nothing.  All this as long as nobody disturbs the service,  *)
(* after which there is no promise.                                        *)
(* CommandService implements this specification.                           *)
(***************************************************************************)
EXTENDS Integers, Sequences

CONSTANTS
  Clients,   (* whoever calls, once each *)
  Requests,  (* what may be asked for: a kind, a directory, lengths of texts *)
  Dirs,      (* the directories downloads may go to *)
  NoDir,     (* the user's download directory; a request that names none *)
  HelpSize,  (* the length of the help text *)
  Room       (* the length of the longest answer *)

VARIABLES
  call,      (* how far the call of each client is *)
  want,      (* what it asks for *)
  reply,     (* what it was answered *)
  queued,    (* the downloads handed over, oldest first *)
  disturbed  (* somebody interfered *)

callVars == <<call, want, reply, queued, disturbed>>

(* A call for downloads, and whether they are on their way. *)
ForDownloads(c) == want[c].kind \in {"good", "mixed"}
HandedOver(c) == \E i \in 1..Len(queued) : queued[i].for = c

(* The texts of its whole reply, each with the place where it ends; what is *)
(* said of the queue starts a new line.                                     *)
WholeReply(c) ==
  LET text(part, upto) == [for |-> c, part |-> part, upto |-> upto]
      size == want[c].size
      rest == size["unsupported"] + 1 + size["queued"]
  IN  CASE want[c].kind = "info"  -> <<text("info", size["info"])>>
        [] want[c].kind = "bad"   -> <<text("unsupported", size["unsupported"])>>
        [] want[c].kind = "good"  -> <<text("queued", 1 + size["queued"])>>
        [] want[c].kind = "mixed" -> <<text("unsupported", size["unsupported"]),
                                       text("queued", rest)>>

(* Its beginning: the texts that start within the room, cut at its end. *)
Beginning(whole) ==
  LET cut(text) == [text EXCEPT !.upto = IF @ < Room THEN @ ELSE Room]
  IN  IF Len(whole) = 2 /\ whole[1].upto < Room
      THEN <<cut(whole[1]), cut(whole[2])>>
      ELSE <<cut(whole[1])>>

Init ==
  /\ call = [c \in Clients |-> "none"]
  /\ want = [c \in Clients |-> [kind |-> "info", dir |-> NoDir,
                              size |-> [p \in {"info", "unsupported", "queued"} |-> HelpSize]]]
  /\ reply = [c \in Clients |-> <<>>]
  /\ queued = <<>>
  /\ disturbed = FALSE

(* Nobody else's call is open. *)
Make(c, request) ==
  /\ call[c] = "none"
  /\ \A d \in Clients : call[d] # "made"
  /\ call' = [call EXCEPT ![c] = "made"]
  /\ want' = [want EXCEPT ![c] = request]
  /\ UNCHANGED <<reply, queued, disturbed>>

(* Without a directory in the request it may be any (see DirOnlyThisTime). *)
HandOver(c, dir) ==
  /\ call[c] = "made"
  /\ ForDownloads(c) /\ ~HandedOver(c)
  /\ want[c].dir # NoDir => dir = want[c].dir
  /\ queued' = Append(queued, [for |-> c, dir |-> dir])
  /\ UNCHANGED <<call, want, reply, disturbed>>

Answer(c) ==
  /\ call[c] = "made"
  /\ ForDownloads(c) => HandedOver(c)
  /\ call' = [call EXCEPT ![c] = "over"]
  /\ reply' = [reply EXCEPT ![c] = Beginning(WholeReply(c))]
  /\ UNCHANGED <<want, queued, disturbed>>

(* Refused, or killed before it could ask. *)
GiveUp(c) ==
  /\ call[c] \in {"none", "made"}
  /\ ~HandedOver(c)
  /\ call' = [call EXCEPT ![c] = "over"]
  /\ UNCHANGED <<want, reply, queued, disturbed>>

(* From here on anything may happen. *)
Disturb == disturbed' = TRUE

Next ==
  \/ \E c \in Clients :
       \/ \E request \in Requests : Make(c, request)
       \/ \E dir \in Dirs \cup {NoDir} : HandOver(c, dir)
       \/ Answer(c)
       \/ GiveUp(c)
  \/ Disturb

Spec == Init /\ [][Next]_callVars
=============================================================================
