------------------------- MODULE CommandServiceProofs -------------------------
(***************************************************************************)
(* Proofs about CommandService for any number of clients, requests,        *)
(* signals and kills.  ServiceInv is the inductive invariant: TurnInv says *)
(* where the one token of the request in flight is, OneAdmitted that there *)
(* is only one such request.                                               *)
(***************************************************************************)
EXTENDS CommandService, FiniteSetTheorems, SequenceTheorems, TLAPS

(* A service that was just started is in the invariant. *)
LEMMA ServiceInit == Init => ServiceInv
<1> SUFFICES ASSUME Init PROVE ServiceInv
  OBVIOUS
<1> USE ServiceConstants DEF Init
<1>1. TypeOK
  <2>1. queued \in Seq(Downloads) /\ serverBuf \in Seq(Messages) /\ got \in [Clients -> Seq(Messages)]
    OBVIOUS
  <2>2. running \in BOOLEAN /\ shutdown \in BOOLEAN /\ poolUp \in BOOLEAN /\ names \in BOOLEAN
    OBVIOUS
  <2>3. mpc \in MainPCs /\ tpc \in ThreadPCs /\ cpc \in [Clients -> ClientPCs]
    BY DEF MainPCs, ThreadPCs, ClientPCs
  <2>4. /\ job \in Clients \cup {Nobody} /\ clientBuf \in Clients \cup {Nobody}
        /\ taskDir \in AnyDir
        /\ want \in [Clients -> Requests \cup {Nothing}]
        /\ serviceSem \in Nat /\ clientSem \in Nat
        /\ signals \in 0..MaxSignals /\ kills \in 0..MaxKills
    BY DEF AnyDir
  <2>. QED
    BY <2>1, <2>2, <2>3, <2>4 DEF TypeOK
<1>2. MainInv /\ OneAdmitted
  BY DEF MainInv, OneAdmitted, Admitted
<1>3. NobodysTurn /\ \A c \in Clients : Turn(c)
  BY DEF NobodysTurn, Turn, Quiet, Resting, Unmade, Handed
<1>. QED
  BY <1>1, <1>2, <1>3 DEF ServiceInv, TurnInv

-----------------------------------------------------------------------------
(* The lengths that the replies are made of are numbers. *)
LEMMA SmallerType ==
  ASSUME NEW a \in Nat, NEW b \in Nat
  PROVE  Smaller(a, b) \in Nat
BY DEF Smaller

LEMMA RequestType ==
  ASSUME TypeOK
  PROVE  /\ Request.dir \in Dirs \cup {NoDir}
         /\ \A part \in Parts : Request.size[part] \in Nat
<1>1. \A q \in Requests : q.dir \in Dirs \cup {NoDir} /\ \A part \in Parts : q.size[part] \in Nat
  BY ServiceConstants DEF Parts
<1>2. Nothing.dir \in Dirs \cup {NoDir} /\ \A part \in Parts : Nothing.size[part] \in Nat
  BY ServiceConstants DEF Nothing
<1>3. Request \in Requests \cup {Nothing}
  BY DEF Request, TypeOK
<1>. QED
  BY <1>1, <1>2, <1>3

LEMMA UsedType ==
  ASSUME TypeOK
  PROVE  Used \in Nat
<1>1. CASE serverBuf = <<>>
  BY <1>1 DEF Used
<1>2. CASE serverBuf # <<>>
  <2>1. Len(serverBuf) \in 1..Len(serverBuf)
    BY <1>2, EmptySeq, LenProperties DEF TypeOK
  <2>2. serverBuf[Len(serverBuf)] \in Messages
    BY <2>1, ElementOfSeq DEF TypeOK
  <2>. QED
    BY <1>2, <2>2 DEF Used, Messages
<1>. QED
  BY <1>1, <1>2

LEMMA MessageType ==
  ASSUME TypeOK, NEW part \in Parts
  PROVE  Message(part, Smaller(Request.size[part], Room)) \in Messages
<1>1. Room \in Nat /\ Request.size[part] \in Nat
  BY ServiceConstants, RequestType DEF Room
<1>. QED
  BY <1>1, SmallerType DEF Message, Messages, TypeOK

-----------------------------------------------------------------------------
(* Every step keeps the types. *)
LEMMA TypeStep == ServiceInv /\ [Next]_vars => TypeOK'
<1> SUFFICES ASSUME ServiceInv, [Next]_vars PROVE TypeOK'
  OBVIOUS
<1> USE ServiceConstants DEF ServiceInv, TypeOK, main, thread, client, sems, bufs, world, MainPCs, ThreadPCs, ClientPCs
<1>1. CASE StartThread
  BY <1>1 DEF StartThread
<1>2. CASE StartPool
  BY <1>2 DEF StartPool
<1>3. CASE RunLoop
  BY <1>3 DEF RunLoop
<1>4. CASE LeaveLoop
  BY <1>4 DEF LeaveLoop
<1>5. CASE SetShutdown
  BY <1>5 DEF SetShutdown
<1>6. CASE JoinThread
  BY <1>6 DEF JoinThread
<1>7. CASE Unlink
  BY <1>7 DEF Unlink
<1>8. CASE Stop
  BY <1>8 DEF Stop
<1>9. CASE StartFails
  BY <1>9 DEF StartFails
<1>10. CASE StartPoolFails
  BY <1>10 DEF StartPoolFails
<1>11. CASE Signal
  <2>1. signals' \in 0..MaxSignals
    BY <1>11 DEF Signal
  <2>2. serviceSem' \in Nat
    BY <1>11 DEF Signal
  <2>3. running' \in BOOLEAN
    BY <1>11 DEF Signal
  <2>4. UNCHANGED <<mpc, shutdown, poolUp, names, thread, client, clientSem, bufs, kills>>
    BY <1>11 DEF Signal
  <2>. QED
    BY <2>1, <2>2, <2>3, <2>4
<1>12. CASE Test
  BY <1>12 DEF Test
<1>13. CASE Take
  BY <1>13 DEF Take
<1>14. CASE Parse
  BY <1>14 DEF Parse
<1>15. CASE Answer
  <2>2. ASSUME NEW part \in Parts PROVE Message(part, Smaller(Request.size[part], Room)) \in Messages
    BY <2>2, MessageType DEF Room
  <2>3. serverBuf' = serverBuf \/ \E m \in Messages : serverBuf' = <<m>>
    BY <1>15, <2>2 DEF Answer, Parts
  <2>4. ASSUME NEW m \in Messages PROVE <<m>> \in Seq(Messages)
    OBVIOUS
  <2>5. serverBuf' \in Seq(Messages)
    BY <2>3, <2>4
  <2>. QED
    BY <1>15, <2>5 DEF Answer
<1>16. CASE Download
  <2>1. Request.dir \in AnyDir
    BY RequestType DEF AnyDir
  <2>2. PICK d \in AnyDir :
          taskDir' = d /\ queued' = Append(queued, [for |-> job, dir |-> d])
    BY <1>16, <2>1 DEF Download, AnyDir
  <2>3. [for |-> job, dir |-> d] \in Downloads
    BY DEF Downloads
  <2>. QED
    BY <1>16, <2>2, <2>3, AppendProperties DEF Download
<1>17. CASE DownloadCrashes
  BY <1>17 DEF DownloadCrashes
<1>18. CASE AppendReply
  <2>1. Message("queued", Smaller(Used + 1 + Request.size["queued"], Room)) \in Messages
    <3>1. Used \in Nat /\ Request.size["queued"] \in Nat /\ Room \in Nat
      BY UsedType, RequestType DEF Parts, Room
    <3>2. Smaller(Used + 1 + Request.size["queued"], Room) \in Nat
      BY <3>1 DEF Smaller
    <3>. QED
      BY <3>2 DEF Message, Messages, Parts
  <2>2. \/ serverBuf' = serverBuf
        \/ serverBuf' = Append(serverBuf, Message("queued", Smaller(Used + 1 + Request.size["queued"], Room)))
    BY <1>18 DEF AppendReply
  <2>3. serverBuf \in Seq(Messages)
    OBVIOUS
  <2> DEFINE msg == Message("queued", Smaller(Used + 1 + Request.size["queued"], Room))
  <2>5. Append(serverBuf, msg) \in Seq(Messages)
    <3> HIDE DEF msg
    <3>. QED
      BY <2>1, <2>3, AppendProperties DEF msg
  <2>4. serverBuf' \in Seq(Messages)
    <3> HIDE DEF msg
    <3>. QED
      BY <2>2, <2>3, <2>5 DEF msg
  <2>. QED
    BY <1>18, <2>4 DEF AppendReply
<1>19. CASE Reply
  BY <1>19 DEF Reply
<1>20. ASSUME NEW c \in Clients, Start(c) PROVE TypeOK'
  BY <1>20 DEF Start
<1>21. ASSUME NEW c \in Clients, Open(c) PROVE TypeOK'
  BY <1>21 DEF Open
<1>22. ASSUME NEW c \in Clients, Check(c) PROVE TypeOK'
  BY <1>22 DEF Check
<1>23. ASSUME NEW c \in Clients, Write(c) PROVE TypeOK'
  BY <1>23 DEF Write
<1>24. ASSUME NEW c \in Clients, Post(c) PROVE TypeOK'
  BY <1>24 DEF Post
<1>25. ASSUME NEW c \in Clients, Wait(c) PROVE TypeOK'
  BY <1>25 DEF Wait
<1>26. ASSUME NEW c \in Clients, Show(c) PROVE TypeOK'
  BY <1>26 DEF Show
<1>27. ASSUME NEW c \in Clients, WipeRequest(c) PROVE TypeOK'
  BY <1>27 DEF WipeRequest
<1>28. ASSUME NEW c \in Clients, WipeReply(c) PROVE TypeOK'
  BY <1>28 DEF WipeReply
<1>29. ASSUME NEW c \in Clients, Kill(c) PROVE TypeOK'
  BY <1>29 DEF Kill
<1>30. CASE WorkerDies
  BY <1>30 DEF WorkerDies
<1>31. CASE UNCHANGED vars
  BY <1>31 DEF vars
<1>. QED
  BY <1>1, <1>2, <1>3, <1>4, <1>5, <1>6, <1>7, <1>8, <1>9, <1>10, <1>11, <1>12, <1>13, <1>14, <1>15, <1>16, <1>17, <1>18, <1>19, <1>20, <1>21, <1>22, <1>23, <1>24, <1>25, <1>26, <1>27, <1>28, <1>29, <1>30, <1>31
  DEF Next, MainCode, MainFails, ThreadCode, ClientCode

-----------------------------------------------------------------------------
(* The thread is there from the start of main to the end of the join. *)
LEMMA MainStep == ServiceInv /\ [Next]_vars => MainInv'
<1> SUFFICES ASSUME ServiceInv, [Next]_vars PROVE MainInv'
  OBVIOUS
<1> USE ServiceConstants DEF ServiceInv, TypeOK, MainInv, main, thread, client, sems, bufs, world
<1>1. CASE StartThread
  BY <1>1 DEF StartThread
<1>2. CASE StartPool
  BY <1>2 DEF StartPool
<1>3. CASE RunLoop
  BY <1>3 DEF RunLoop
<1>4. CASE LeaveLoop
  BY <1>4 DEF LeaveLoop
<1>5. CASE SetShutdown
  BY <1>5 DEF SetShutdown
<1>6. CASE JoinThread
  BY <1>6 DEF JoinThread
<1>7. CASE Unlink
  BY <1>7 DEF Unlink
<1>8. CASE Stop
  BY <1>8 DEF Stop
<1>9. CASE StartFails
  BY <1>9 DEF StartFails
<1>10. CASE StartPoolFails
  BY <1>10 DEF StartPoolFails
<1>11. CASE Signal
  BY <1>11 DEF Signal
<1>12. CASE Test
  BY <1>12 DEF Test
<1>13. CASE Take
  BY <1>13 DEF Take
<1>14. CASE Parse
  BY <1>14 DEF Parse
<1>15. CASE Answer
  BY <1>15 DEF Answer
<1>16. CASE Download
  BY <1>16 DEF Download
<1>17. CASE DownloadCrashes
  BY <1>17 DEF DownloadCrashes
<1>18. CASE AppendReply
  BY <1>18 DEF AppendReply
<1>19. CASE Reply
  BY <1>19 DEF Reply
<1>20. ASSUME NEW c \in Clients, Start(c) PROVE MainInv'
  BY <1>20 DEF Start
<1>21. ASSUME NEW c \in Clients, Open(c) PROVE MainInv'
  BY <1>21 DEF Open
<1>22. ASSUME NEW c \in Clients, Check(c) PROVE MainInv'
  BY <1>22 DEF Check
<1>23. ASSUME NEW c \in Clients, Write(c) PROVE MainInv'
  BY <1>23 DEF Write
<1>24. ASSUME NEW c \in Clients, Post(c) PROVE MainInv'
  BY <1>24 DEF Post
<1>25. ASSUME NEW c \in Clients, Wait(c) PROVE MainInv'
  BY <1>25 DEF Wait
<1>26. ASSUME NEW c \in Clients, Show(c) PROVE MainInv'
  BY <1>26 DEF Show
<1>27. ASSUME NEW c \in Clients, WipeRequest(c) PROVE MainInv'
  BY <1>27 DEF WipeRequest
<1>28. ASSUME NEW c \in Clients, WipeReply(c) PROVE MainInv'
  BY <1>28 DEF WipeReply
<1>29. ASSUME NEW c \in Clients, Kill(c) PROVE MainInv'
  BY <1>29 DEF Kill
<1>30. CASE WorkerDies
  BY <1>30 DEF WorkerDies
<1>31. CASE UNCHANGED vars
  BY <1>31 DEF vars
<1>. QED
  BY <1>1, <1>2, <1>3, <1>4, <1>5, <1>6, <1>7, <1>8, <1>9, <1>10, <1>11, <1>12, <1>13, <1>14, <1>15, <1>16, <1>17, <1>18, <1>19, <1>20, <1>21, <1>22, <1>23, <1>24, <1>25, <1>26, <1>27, <1>28, <1>29, <1>30, <1>31
  DEF Next, MainCode, MainFails, ThreadCode, ClientCode

-----------------------------------------------------------------------------
(* A client is admitted only if it and the service are all that runs. *)
LEMMA AdmitStep == ServiceInv /\ [Next]_vars => OneAdmitted'
<1> SUFFICES ASSUME ServiceInv, [Next]_vars PROVE OneAdmitted'
  OBVIOUS
<1> USE ServiceConstants DEF ServiceInv, TypeOK, OneAdmitted, Admitted, ServiceAlive, main, thread, client, sems, bufs, world
<1>1. CASE StartThread
  BY <1>1 DEF StartThread
<1>2. CASE StartPool
  BY <1>2 DEF StartPool
<1>3. CASE RunLoop
  BY <1>3 DEF RunLoop
<1>4. CASE LeaveLoop
  BY <1>4 DEF LeaveLoop
<1>5. CASE SetShutdown
  BY <1>5 DEF SetShutdown
<1>6. CASE JoinThread
  BY <1>6 DEF JoinThread
<1>7. CASE Unlink
  BY <1>7 DEF Unlink
<1>8. CASE Stop
  BY <1>8 DEF Stop
<1>9. CASE StartFails
  BY <1>9 DEF StartFails
<1>10. CASE StartPoolFails
  BY <1>10 DEF StartPoolFails
<1>11. CASE Signal
  BY <1>11 DEF Signal
<1>12. CASE Test
  BY <1>12 DEF Test
<1>13. CASE Take
  BY <1>13 DEF Take
<1>14. CASE Parse
  BY <1>14 DEF Parse
<1>15. CASE Answer
  BY <1>15 DEF Answer
<1>16. CASE Download
  BY <1>16 DEF Download
<1>17. CASE DownloadCrashes
  BY <1>17 DEF DownloadCrashes
<1>18. CASE AppendReply
  BY <1>18 DEF AppendReply
<1>19. CASE Reply
  BY <1>19 DEF Reply
<1>20. ASSUME NEW c \in Clients, Start(c) PROVE OneAdmitted'
  BY <1>20 DEF Start
<1>21. ASSUME NEW c \in Clients, Open(c) PROVE OneAdmitted'
  BY <1>21 DEF Open
<1>22. ASSUME NEW c \in Clients, Check(c) PROVE OneAdmitted'
  <2>1. ASSUME ServiceAlive, cpc'[c] = "write" PROVE Admitted = {}
    <3>1. Live \subseteq Clients /\ IsFiniteSet(Live)
      BY FS_Subset DEF Live, Admitted
    <3>2. Cardinality(Live) \in Nat /\ Cardinality(Live) <= 1
      BY <1>22, <2>1, <3>1, FS_CardinalityType DEF Check, ProcessCount
    <3>3. c \in Live
      BY <1>22 DEF Check, Live
    <3>4. {c} \subseteq Live /\ IsFiniteSet({c}) /\ Cardinality({c}) = 1
      BY <3>3, FS_Singleton
    <3>5. Cardinality({c}) <= Cardinality(Live) /\ (Cardinality(Live) = Cardinality({c}) => Live = {c})
      BY <3>1, <3>4, FS_Subset
    <3>6. Live = {c}
      BY <3>2, <3>4, <3>5
    <3>. QED
      BY <1>22, <3>6 DEF Check, Live, Admitted
  <2>2. CASE cpc'[c] = "write"
    BY <1>22, <2>1, <2>2 DEF Check
  <2>3. CASE cpc'[c] # "write"
    BY <1>22, <2>3 DEF Check
  <2>. QED
    BY <2>2, <2>3
<1>23. ASSUME NEW c \in Clients, Write(c) PROVE OneAdmitted'
  BY <1>23 DEF Write
<1>24. ASSUME NEW c \in Clients, Post(c) PROVE OneAdmitted'
  BY <1>24 DEF Post
<1>25. ASSUME NEW c \in Clients, Wait(c) PROVE OneAdmitted'
  BY <1>25 DEF Wait
<1>26. ASSUME NEW c \in Clients, Show(c) PROVE OneAdmitted'
  BY <1>26 DEF Show
<1>27. ASSUME NEW c \in Clients, WipeRequest(c) PROVE OneAdmitted'
  BY <1>27 DEF WipeRequest
<1>28. ASSUME NEW c \in Clients, WipeReply(c) PROVE OneAdmitted'
  BY <1>28 DEF WipeReply
<1>29. ASSUME NEW c \in Clients, Kill(c) PROVE OneAdmitted'
  BY <1>29 DEF Kill
<1>30. CASE WorkerDies
  BY <1>30 DEF WorkerDies
<1>31. CASE UNCHANGED vars
  BY <1>31 DEF vars
<1>. QED
  BY <1>1, <1>2, <1>3, <1>4, <1>5, <1>6, <1>7, <1>8, <1>9, <1>10, <1>11, <1>12, <1>13, <1>14, <1>15, <1>16, <1>17, <1>18, <1>19, <1>20, <1>21, <1>22, <1>23, <1>24, <1>25, <1>26, <1>27, <1>28, <1>29, <1>30, <1>31
  DEF Next, MainCode, MainFails, ThreadCode, ClientCode

-----------------------------------------------------------------------------
(* A disturbance is never undone: a dead service, a signal, a killed client. *)
LEMMA StillUndisturbed ==
  ASSUME ServiceInv, [Next]_vars, Undisturbed'
  PROVE  Undisturbed
<1> USE DEF ServiceInv, TypeOK, Undisturbed, ServiceAlive, main, thread, client, sems, bufs, world
<1>1. ASSUME NEW c \in Clients, cpc[c] = "killed" PROVE cpc'[c] = "killed"
  BY <1>1 DEF Next, vars, MainCode, MainFails, ThreadCode, ClientCode, StartThread, StartPool,
     RunLoop, LeaveLoop, SetShutdown, JoinThread, Unlink, Stop, StartFails, StartPoolFails,
     Signal, Test, Take, Parse, Answer, Download, DownloadCrashes, WorkerDies, AppendReply, Reply,
     Start, Open, Check, Write, Post, Wait, Show, WipeRequest, WipeReply, Kill, Live, Admitted
<1>2. signals' >= signals
  BY DEF Next, vars, MainCode, MainFails, ThreadCode, ClientCode, StartThread, StartPool,
     RunLoop, LeaveLoop, SetShutdown, JoinThread, Unlink, Stop, StartFails, StartPoolFails,
     Signal, Test, Take, Parse, Answer, Download, DownloadCrashes, WorkerDies, AppendReply, Reply,
     Start, Open, Check, Write, Post, Wait, Show, WipeRequest, WipeReply, Kill
<1>3. ServiceAlive' => ServiceAlive
  BY DEF ServiceAlive, Next, vars, MainCode, MainFails, ThreadCode, ClientCode, StartThread, StartPool,
     RunLoop, LeaveLoop, SetShutdown, JoinThread, Unlink, Stop, StartFails, StartPoolFails,
     Signal, Test, Take, Parse, Answer, Download, DownloadCrashes, WorkerDies, AppendReply, Reply,
     Start, Open, Check, Write, Post, Wait, Show, WipeRequest, WipeReply, Kill
<1>4. signals \in Nat
  BY ServiceConstants
<1>5. signals = 0
  BY <1>2, <1>4
<1>. QED
  BY <1>1, <1>3, <1>5

(* With one client admitted every other is before the count or gone. *)
LEMMA Alone ==
  ASSUME ServiceInv, Undisturbed, NEW c \in Admitted
  PROVE  \A d \in Clients : d # c => cpc[d] \in {"absent", "open", "check", "done", "refused", "dropped"}
BY DEF ServiceInv, TypeOK, ClientPCs, OneAdmitted, Undisturbed, Admitted

(* What a request deserves and what was made of it depend on two variables. *)
LEMMA SameRequest ==
  ASSUME UNCHANGED <<queued, want>>, NEW c
  PROVE  /\ Made(c)' <=> Made(c)
         /\ Unmade(c)' <=> Unmade(c)
         /\ Expected(c)' = Expected(c)
         /\ Begun(c)' = Begun(c)
BY DEF Made, Unmade, Expected, Begun, Handed

(* A thread with a request in hand serves the one client that waits. *)
LEMMA BusyServes ==
  ASSUME ServiceInv, Undisturbed, ~Resting, tpc # "crashed"
  PROVE  \E c \in Admitted : /\ cpc[c] = "wait"
                            /\ serviceSem = 0 /\ clientSem = 0 /\ Serving(c)
<1>1. PICK c \in Clients : cpc[c] \in {"wait", "print", "wipe1", "wipe2"}
  BY DEF ServiceInv, TurnInv, NobodysTurn, Quiet
<1>2. cpc[c] = "wait" /\ Flying(c)
  BY <1>1 DEF ServiceInv, TurnInv, Turn, Quiet
<1>. QED
  BY <1>2 DEF Flying, Admitted

(* What one more entry of the queue means for each client. *)
LEMMA HandedAppend ==
  ASSUME ServiceInv, NEW j, NEW d, queued' = Append(queued, [for |-> j, dir |-> d])
  PROVE  /\ Len(queued') = Len(queued) + 1
         /\ \A c : Handed(c)' = IF c = j THEN Handed(c) \cup {Len(queued')} ELSE Handed(c)
<1>1. /\ Len(queued) \in Nat /\ Len(queued') = Len(queued) + 1
      /\ queued'[Len(queued) + 1] = [for |-> j, dir |-> d]
      /\ \A i \in 1..Len(queued) : queued'[i] = queued[i]
  BY AppendProperties, LenProperties DEF ServiceInv, TypeOK
<1>. QED
  BY <1>1 DEF Handed
(* Two messages, one appended to the other. *)
LEMMA AppendPair ==
  ASSUME NEW a, NEW b
  PROVE  Append(<<a>>, b) = <<a, b>>
<1>1. <<a>> \in Seq({a, b}) /\ <<a, b>> \in Seq({a, b}) /\ Len(<<a>>) = 1 /\ Len(<<a, b>>) = 2
  OBVIOUS
<1>2. /\ Append(<<a>>, b) \in Seq({a, b}) /\ Len(Append(<<a>>, b)) = 2
      /\ Append(<<a>>, b)[1] = a /\ Append(<<a>>, b)[2] = b
  BY <1>1, AppendProperties
<1>3. \A i \in 1..2 : Append(<<a>>, b)[i] = <<a, b>>[i]
  <2>1. 1..2 = {1, 2} /\ <<a, b>>[1] = a /\ <<a, b>>[2] = b
    OBVIOUS
  <2>. QED
    BY <1>2, <2>1
<1>. QED
  <2>1. Len(Append(<<a>>, b)) = Len(<<a, b>>)
    BY <1>1, <1>2
  <2>2. \A i \in 1..Len(Append(<<a>>, b)) : Append(<<a>>, b)[i] = <<a, b>>[i]
    BY <1>2, <1>3
  <2>. QED
    BY <1>1, <1>2, <2>1, <2>2, SeqEqual

(* A request is of one of the four kinds. *)
LEMMA KindKnown ==
  ASSUME TypeOK, NEW c \in Clients
  PROVE  want[c].kind \in {"info", "bad", "good", "mixed"}
<1>1. want[c] \in Requests \cup {Nothing}
  BY DEF TypeOK
<1>2. CASE want[c] \in Requests
  BY <1>2, ServiceConstants
<1>3. CASE want[c] = Nothing
  BY <1>3 DEF Nothing
<1>. QED
  BY <1>1, <1>2, <1>3

-----------------------------------------------------------------------------
(* Undisturbed, each step hands the one token on: from the client to
   serviceSem, to the thread, to clientSem, and back to the client. *)
LEMMA TurnStep == ServiceInv /\ [Next]_vars => TurnInv'
<1> SUFFICES ASSUME ServiceInv, [Next]_vars, Undisturbed'
             PROVE  NobodysTurn' /\ \A c \in Clients : Turn(c)'
  BY DEF TurnInv
<1>0. Undisturbed /\ NobodysTurn /\ (\A c \in Clients : Turn(c)) /\ TypeOK /\ MainInv
  BY StillUndisturbed DEF ServiceInv, TurnInv
<1> USE ServiceConstants, <1>0 DEF TypeOK, main, thread, client, sems, bufs, world
<1>1. CASE StartPool \/ RunLoop \/ LeaveLoop \/ SetShutdown \/ JoinThread \/ Unlink \/ Stop \/ StartFails \/ StartPoolFails
  <2>1. UNCHANGED <<thread, client, sems, bufs>>
    BY <1>1 DEF StartPool, RunLoop, LeaveLoop, SetShutdown, JoinThread, Unlink, Stop, StartFails, StartPoolFails
  <2>. QED
    BY <2>1, SameRequest DEF NobodysTurn, Turn, Quiet, Resting, Flying, Serving
<1>2. CASE StartThread \/ Test
  <2>1. Resting /\ Resting' /\ UNCHANGED <<queued, client, sems, bufs>>
    BY <1>2 DEF StartThread, Test, MainInv, Resting
  <2>2. \A c \in Clients : Flying(c) <=> Flying(c)'
    BY <2>1, SameRequest DEF Flying, Serving, Resting
  <2>. QED
    BY <2>1, <2>2, SameRequest DEF NobodysTurn, Turn, Quiet
<1>3. ASSUME NEW c \in Clients, Start(c) \/ Open(c) \/ Check(c) PROVE NobodysTurn' /\ \A e \in Clients : Turn(e)'
  <2>1. UNCHANGED <<tpc, job, queued, want, got, sems, bufs>>
    BY <1>3 DEF Start, Open, Check
  <2>2. \A d \in Clients : cpc'[d] = cpc[d] \/ (d = c /\ cpc[c] \in {"absent", "open", "check"}
                              /\ cpc'[c] \in {"open", "check", "write", "refused"})
    BY <1>3 DEF Start, Open, Check
  <2>3. \A d : Flying(d)' <=> Flying(d)
    BY <2>1, SameRequest DEF Flying, Serving, Resting
  <2>. QED
    BY <2>1, <2>2, <2>3, SameRequest DEF NobodysTurn, Turn, Quiet, Resting
<1>4. CASE Signal
  <2>1. signals' # 0
    BY <1>4 DEF Signal, TypeOK
  <2>. QED
    BY <2>1 DEF Undisturbed
<1>5. CASE Take
  <2>1. PICK c \in Clients : cpc[c] = "wait"
    BY <1>5 DEF Take, NobodysTurn, Turn, Quiet
  <2>2. c \in Admitted /\ \A d \in Clients : d # c => cpc[d] \in {"absent", "open", "check", "done", "refused", "dropped"}
    BY <2>1, Alone DEF Admitted
  <2>3. serviceSem = 1 /\ clientSem = 0 /\ clientBuf = c /\ serverBuf = <<>> /\ Unmade(c)
    BY <1>5, <2>1 DEF Take, Turn, Flying
  <2>4. Flying(c)'
    BY <1>5, <2>3, SameRequest DEF Take, Flying, Serving
  <2>5. Turn(c)'
    BY <1>5, <2>1, <2>4 DEF Take, Turn
  <2>6. \A d \in Clients : d # c => Turn(d)'
    BY <1>5, <2>2, SameRequest DEF Turn, Take
  <2>. QED
    BY <1>5, <2>1, <2>5, <2>6 DEF NobodysTurn, Take
<1>6. CASE Parse
  <2>1. PICK c \in Admitted : /\ cpc[c] = "wait"
                              /\ serviceSem = 0 /\ clientSem = 0 /\ Serving(c)
    BY <1>6, BusyServes DEF Resting, Parse
  <2>2. \A d \in Clients : d # c => cpc[d] \in {"absent", "open", "check", "done", "refused", "dropped"}
    BY <2>1, Alone
  <2>3. UNCHANGED cpc /\ c \in Clients
    BY <1>6, <2>1 DEF Parse, Admitted
  <2>4. Flying(c)'
    BY <1>6, <2>1, SameRequest DEF Parse, Serving, Flying, Resting
  <2>5. Turn(c)'
    BY <2>1, <2>3, <2>4 DEF Turn
  <2>6. \A d \in Clients : d # c => Turn(d)'
    BY <1>6, <2>2, <2>3, SameRequest DEF Turn, Parse
  <2>. QED
    BY <2>1, <2>3, <2>5, <2>6 DEF NobodysTurn
<1>7. CASE Answer
  <2>1. PICK c \in Admitted : /\ cpc[c] = "wait"
                              /\ serviceSem = 0 /\ clientSem = 0 /\ Serving(c)
    BY <1>7, BusyServes DEF Resting, Answer
  <2>2. \A d \in Clients : d # c => cpc[d] \in {"absent", "open", "check", "done", "refused", "dropped"}
    BY <2>1, Alone
  <2>3. UNCHANGED cpc /\ c \in Clients
    BY <1>7, <2>1 DEF Answer, Admitted
  <2>4. tpc = "answer" /\ job = c /\ serverBuf = <<>> /\ Unmade(c)
    BY <1>7, <2>1 DEF Answer, Serving
  <2>5. Request = want[c] /\ want[c].kind \in {"info", "bad", "good", "mixed"}
    <3>2. want[c].kind \in {"info", "bad", "good", "mixed"}
      BY <2>3, KindKnown
    <3>. QED
      BY <2>3, <2>4, <3>2 DEF Request
  <2>6. Serving(c)'
    <3> DEFINE m(part, upto) == [for |-> c, part |-> part, upto |-> upto]
    <3>1. CASE want[c].kind = "info"
      <4>1. tpc' = "post" /\ job' = c /\ serverBuf' = <<m("info", Smaller(want[c].size["info"], Room))>>
        BY <1>7, <2>4, <2>5, <3>1 DEF Answer, Message
      <4>2. Expected(c) = <<m("info", Smaller(want[c].size["info"], Room))>> /\ Made(c)
        BY <2>4, <3>1 DEF Expected, Made, Unmade
      <4>. QED
        BY <1>7, <4>1, <4>2, SameRequest DEF Answer, Serving
    <3>2. CASE want[c].kind = "bad"
      <4>1. tpc' = "post" /\ job' = c /\ serverBuf' = <<m("unsupported", Smaller(want[c].size["unsupported"], Room))>>
        BY <1>7, <2>4, <2>5, <3>2 DEF Answer, Message
      <4>2. Expected(c) = <<m("unsupported", Smaller(want[c].size["unsupported"], Room))>> /\ Made(c)
        BY <2>4, <3>2 DEF Expected, Made, Unmade
      <4>. QED
        BY <1>7, <4>1, <4>2, SameRequest DEF Answer, Serving
    <3>3. CASE want[c].kind = "good"
      <4>1. tpc' = "download" /\ job' = c /\ serverBuf' = Begun(c) /\ want'[c].kind = "good"
        BY <1>7, <2>4, <2>5, <3>3 DEF Answer, Begun
      <4>. QED
        BY <1>7, <2>4, <4>1, SameRequest DEF Answer, Serving
    <3>4. CASE want[c].kind = "mixed"
      <4>1. tpc' = "download" /\ job' = c /\ serverBuf' = Begun(c) /\ want'[c].kind = "mixed"
        BY <1>7, <2>4, <2>5, <3>4 DEF Answer, Begun, Message
      <4>. QED
        BY <1>7, <2>4, <4>1, SameRequest DEF Answer, Serving
    <3>. QED
      BY <2>5, <3>1, <3>2, <3>3, <3>4
  <2>7. Turn(c)'
    BY <1>7, <2>1, <2>3, <2>6 DEF Turn, Flying, Answer
  <2>8. \A d \in Clients : d # c => Turn(d)'
    BY <1>7, <2>2, <2>3, SameRequest DEF Turn, Answer
  <2>. QED
    BY <2>1, <2>3, <2>7, <2>8 DEF NobodysTurn
<1>8. CASE Download
  <2>1. PICK c \in Admitted : /\ cpc[c] = "wait"
                              /\ serviceSem = 0 /\ clientSem = 0 /\ Serving(c)
    BY <1>8, BusyServes DEF Resting, Download
  <2>2. \A d \in Clients : d # c => cpc[d] \in {"absent", "open", "check", "done", "refused", "dropped"}
    BY <2>1, Alone
  <2>3. UNCHANGED cpc /\ c \in Clients
    BY <1>8, <2>1 DEF Download, Admitted
  <2>4. tpc = "download" /\ job = c /\ serverBuf = Begun(c) /\ Unmade(c) /\ want[c].kind \in {"good", "mixed"}
    BY <1>8, <2>1 DEF Download, Serving
  <2>5. PICK d : queued' = Append(queued, [for |-> c, dir |-> d])
    BY <1>8, <2>4 DEF Download
  <2>6. /\ Len(queued') = Len(queued) + 1 /\ Len(queued) \in Nat
        /\ \A e : Handed(e)' = IF e = c THEN Handed(e) \cup {Len(queued')} ELSE Handed(e)
    BY <2>5, HandedAppend, LenProperties
  <2>7. /\ UNCHANGED <<client, sems, bufs, job>> /\ tpc' = "append"
    BY <1>8 DEF Download
  <2>8. Made(c)'
    <3>1. Handed(c)' = {Len(queued')} /\ Len(queued') \in 1..Len(queued')
      BY <2>4, <2>6 DEF Unmade
    <3>. QED
      BY <2>4, <2>7, <3>1 DEF Made
  <2>9. Flying(c)'
    BY <2>1, <2>4, <2>7, <2>8 DEF Serving, Flying, Begun
  <2>10. ASSUME NEW e \in Clients, e # c
         PROVE  /\ Unmade(e)' <=> Unmade(e)
                /\ Made(e) => Made(e)'
                /\ Expected(e)' = Expected(e)
    <3>1. Handed(e)' = Handed(e) /\ want'[e] = want[e] /\ \A i \in 1..Len(queued) : i \in 1..Len(queued')
      BY <2>6, <2>7, <2>10
    <3>. QED
      BY <3>1, <2>7 DEF Unmade, Made, Expected
  <2>11. \A e \in Clients : e # c => Turn(e)'
    BY <2>2, <2>7, <2>10 DEF Turn
  <2>12. Turn(c)'
    BY <2>1, <2>3, <2>9 DEF Turn
  <2>. QED
    BY <2>1, <2>3, <2>11, <2>12 DEF NobodysTurn
<1>9. CASE DownloadCrashes \/ WorkerDies
  BY <1>9 DEF DownloadCrashes, WorkerDies, Undisturbed, ServiceAlive
<1>10. CASE AppendReply
  <2>1. PICK c \in Admitted : /\ cpc[c] = "wait"
                              /\ serviceSem = 0 /\ clientSem = 0 /\ Serving(c)
    BY <1>10, BusyServes DEF Resting, AppendReply
  <2>2. \A d \in Clients : d # c => cpc[d] \in {"absent", "open", "check", "done", "refused", "dropped"}
    BY <2>1, Alone
  <2>3. UNCHANGED cpc /\ c \in Clients
    BY <1>10, <2>1 DEF AppendReply, Admitted
  <2>4. tpc = "append" /\ job = c /\ serverBuf = Begun(c) /\ Made(c) /\ want[c].kind \in {"good", "mixed"}
    BY <1>10, <2>1 DEF AppendReply, Serving
  <2>5. Request = want[c] /\ want[c].size["unsupported"] \in Nat /\ want[c].size["queued"] \in Nat
    <3>1. Request = want[c]
      BY <2>3, <2>4 DEF Request
    <3>. QED
      BY <3>1, RequestType DEF Parts
  <2> DEFINE m(part, upto) == [for |-> c, part |-> part, upto |-> upto]
             upto == Smaller(Used + 1 + want[c].size["queued"], Room)
             first == Smaller(want[c].size["unsupported"], Room)
             second == Smaller(first + 1 + want[c].size["queued"], Room)
  <2>11. serverBuf' = IF upto > Used THEN Append(serverBuf, m("queued", upto)) ELSE serverBuf
    BY <1>10, <2>4, <2>5 DEF AppendReply, Message
  <2>6. serverBuf' = Expected(c)
    <3>1. CASE want[c].kind = "good"
      <4>1. serverBuf = <<>> /\ Used = 0
        BY <2>4, <3>1 DEF Begun, Used
      <4>2. upto = Smaller(1 + want[c].size["queued"], Room) /\ upto > 0
        BY <2>5, <4>1 DEF Smaller, Room
      <4>3. Expected(c) = <<m("queued", Smaller(1 + want[c].size["queued"], Room))>>
        BY <3>1 DEF Expected
      <4>. QED
        BY <2>11, <4>1, <4>2, <4>3
    <3>2. CASE want[c].kind = "mixed"
      <4>1. serverBuf = <<m("unsupported", first)>>
        BY <2>4, <3>2 DEF Begun
      <4>2. Used = first /\ first \in Nat
        BY <2>5, <4>1 DEF Used, Smaller, Room
      <4>3. upto = second
        BY <4>2
      <4>4. CASE first < Room
        <5>0. Room \in Nat
          BY DEF Room
        <5>1. upto > Used
          <6> HIDE DEF first, upto
          <6>1. Used < Room /\ Used < Used + 1 + want[c].size["queued"]
            BY <2>5, <4>2, <4>4, <5>0
          <6>2. upto = Used + 1 + want[c].size["queued"] \/ upto = Room
            BY DEF upto, Smaller
          <6>. QED
            BY <2>5, <4>2, <5>0, <6>1, <6>2
        <5>2. Expected(c) = <<m("unsupported", first), m("queued", second)>>
          BY <3>2, <4>4 DEF Expected
        <5>. QED
          BY <2>11, <4>1, <4>3, <5>1, <5>2, AppendPair
      <4>5. CASE ~(first < Room)
        <5>1. ~(upto > Used)
          BY <2>5, <4>2, <4>5 DEF Smaller, Room
        <5>2. Expected(c) = <<m("unsupported", first)>>
          BY <3>2, <4>5 DEF Expected
        <5>. QED
          BY <2>11, <4>1, <5>1, <5>2
      <4>. QED
        BY <4>4, <4>5
    <3>. QED
      BY <2>4, <3>1, <3>2
  <2>7. Flying(c)'
    BY <1>10, <2>1, <2>4, <2>6, SameRequest DEF AppendReply, Flying, Serving
  <2>8. Turn(c)'
    BY <2>1, <2>3, <2>7 DEF Turn
  <2>9. \A d \in Clients : d # c => Turn(d)'
    BY <1>10, <2>2, <2>3, SameRequest DEF Turn, AppendReply
  <2>. QED
    BY <2>1, <2>3, <2>8, <2>9 DEF NobodysTurn
<1>11. CASE Reply
  <2>1. PICK c \in Admitted : /\ cpc[c] = "wait"
                              /\ serviceSem = 0 /\ clientSem = 0 /\ Serving(c)
    BY <1>11, BusyServes DEF Resting, Reply
  <2>2. \A d \in Clients : d # c => cpc[d] \in {"absent", "open", "check", "done", "refused", "dropped"}
    BY <2>1, Alone
  <2>3. UNCHANGED cpc /\ c \in Clients
    BY <1>11, <2>1 DEF Reply, Admitted
  <2>4. Flying(c)'
    BY <1>11, <2>1, SameRequest DEF Reply, Serving, Flying, Resting
  <2>5. Turn(c)'
    BY <2>1, <2>3, <2>4 DEF Turn
  <2>6. \A d \in Clients : d # c => Turn(d)'
    BY <1>11, <2>2, <2>3, SameRequest DEF Turn, Reply
  <2>. QED
    BY <2>1, <2>3, <2>5, <2>6 DEF NobodysTurn
<1>12. ASSUME NEW c \in Clients, Write(c) PROVE NobodysTurn' /\ \A e \in Clients : Turn(e)'
  <2>1. c \in Admitted /\ \A d \in Clients : d # c => cpc[d] \in {"absent", "open", "check", "done", "refused", "dropped"}
    BY <1>12, Alone DEF Write, Admitted
  <2>2. Quiet /\ serverBuf = <<>>
    BY <1>12, <2>1 DEF NobodysTurn, Write
  <2>3. \A d \in Clients : Unmade(d)' <=> Unmade(d)
    BY <1>12 DEF Write, Unmade, Handed
  <2>4. \A d \in Clients : d # c => (Made(d)' <=> Made(d)) /\ Expected(d)' = Expected(d)
    BY <1>12 DEF Write, Made, Handed, Expected
  <2>5. \A d \in Clients : d # c => Turn(d)'
    BY <1>12, <2>1, <2>3, <2>4 DEF Write, Turn
  <2>6. Turn(c)'
    BY <1>12, <2>3 DEF Write, Turn
  <2>7. Quiet' /\ (serverBuf = <<>>)'
    BY <1>12, <2>2 DEF Write, Quiet, Resting
  <2>. QED
    BY <2>5, <2>6, <2>7 DEF NobodysTurn
<1>13. ASSUME NEW c \in Clients, Post(c) PROVE NobodysTurn' /\ \A e \in Clients : Turn(e)'
  <2>1. c \in Admitted /\ \A d \in Clients : d # c => cpc[d] \in {"absent", "open", "check", "done", "refused", "dropped"}
    BY <1>13, Alone DEF Post, Admitted
  <2>2. Quiet /\ serverBuf = <<>> /\ clientBuf = c /\ Unmade(c)
    BY <1>13, <2>1 DEF NobodysTurn, Post, Turn
  <2>3. Flying(c)'
    BY <1>13, <2>2, SameRequest DEF Post, Quiet, Flying, Resting
  <2>8. \A d \in Clients : d # c => Turn(d)'
    BY <1>13, <2>1, SameRequest DEF Turn, Post
  <2>9. Turn(c)'
    BY <1>13, <2>3 DEF Post, Turn
  <2>. QED
    BY <1>13, <2>1, <2>8, <2>9 DEF NobodysTurn, Post, Quiet
<1>14. ASSUME NEW c \in Clients, Wait(c) PROVE NobodysTurn' /\ \A e \in Clients : Turn(e)'
  <2>1. c \in Admitted /\ \A d \in Clients : d # c => cpc[d] \in {"absent", "open", "check", "done", "refused", "dropped"}
    BY <1>14, Alone DEF Wait, Admitted
  <2>2. serviceSem = 0 /\ clientSem = 1 /\ Resting /\ serverBuf = Expected(c) /\ Made(c)
    BY <1>14 DEF Wait, Turn, Flying
  <2>3. Quiet' /\ (serverBuf = Expected(c))' /\ Made(c)'
    BY <1>14, <2>2, SameRequest DEF Wait, Quiet, Resting
  <2>8. \A d \in Clients : d # c => Turn(d)'
    BY <1>14, <2>1, SameRequest DEF Turn, Wait
  <2>9. Turn(c)'
    BY <1>14, <2>3 DEF Wait, Turn
  <2>. QED
    BY <1>14, <2>1, <2>8, <2>9 DEF NobodysTurn, Wait, Quiet
<1>15. ASSUME NEW c \in Clients, Show(c) PROVE NobodysTurn' /\ \A e \in Clients : Turn(e)'
  <2>1. c \in Admitted /\ \A d \in Clients : d # c => cpc[d] \in {"absent", "open", "check", "done", "refused", "dropped"}
    BY <1>15, Alone DEF Show, Admitted
  <2>2. Quiet /\ serverBuf = Expected(c) /\ Made(c)
    BY <1>15 DEF Show, Turn
  <2>3. Quiet' /\ Expected(c)' = serverBuf /\ Made(c)'
    BY <1>15, <2>2, SameRequest DEF Show, Quiet, Resting
  <2>8. \A d \in Clients : d # c => Turn(d)'
    BY <1>15, <2>1, SameRequest DEF Turn, Show
  <2>9. Turn(c)'
    BY <1>15, <2>3 DEF Show, Turn
  <2>. QED
    BY <1>15, <2>1, <2>8, <2>9 DEF NobodysTurn, Show, Quiet
<1>16. ASSUME NEW c \in Clients, WipeRequest(c) PROVE NobodysTurn' /\ \A e \in Clients : Turn(e)'
  <2>1. c \in Admitted /\ \A d \in Clients : d # c => cpc[d] \in {"absent", "open", "check", "done", "refused", "dropped"}
    BY <1>16, Alone DEF WipeRequest, Admitted
  <2>2. Quiet /\ got[c] = Expected(c) /\ Made(c)
    BY <1>16 DEF WipeRequest, Turn
  <2>3. Quiet' /\ Expected(c)' = got[c] /\ Made(c)'
    BY <1>16, <2>2, SameRequest DEF WipeRequest, Quiet, Resting
  <2>8. \A d \in Clients : d # c => Turn(d)'
    BY <1>16, <2>1, SameRequest DEF Turn, WipeRequest
  <2>9. Turn(c)'
    BY <1>16, <2>3 DEF WipeRequest, Turn
  <2>. QED
    BY <1>16, <2>1, <2>8, <2>9 DEF NobodysTurn, WipeRequest, Quiet
<1>17. ASSUME NEW c \in Clients, WipeReply(c) PROVE NobodysTurn' /\ \A e \in Clients : Turn(e)'
  <2>1. c \in Admitted /\ \A d \in Clients : d # c => cpc[d] \in {"absent", "open", "check", "done", "refused", "dropped"}
    BY <1>17, Alone DEF WipeReply, Admitted
  <2>2. Quiet /\ got[c] = Expected(c) /\ Made(c)
    BY <1>17 DEF WipeReply, Turn
  <2>3. Quiet' /\ Expected(c)' = got[c] /\ Made(c)' /\ serverBuf' = <<>>
    BY <1>17, <2>2, SameRequest DEF WipeReply, Quiet, Resting
  <2>4. NobodysTurn'
    BY <2>3 DEF NobodysTurn
  <2>5. \A d \in Clients : d # c => Turn(d)'
    BY <1>17, <2>1, SameRequest DEF Turn, WipeReply
  <2>6. Turn(c)'
    BY <1>17, <2>3 DEF WipeReply, Turn
  <2>. QED
    BY <2>4, <2>5, <2>6
<1>18. ASSUME NEW c \in Clients, Kill(c) PROVE NobodysTurn' /\ \A e \in Clients : Turn(e)'
  <2>1. cpc[c] \in {"open", "check", "write", "post"} /\ cpc'[c] = "dropped"
    BY <1>18 DEF Kill, Undisturbed, Live, Admitted
  <2>2. UNCHANGED <<tpc, job, queued, want, got, sems, bufs>> /\ \A d \in Clients : d # c => cpc'[d] = cpc[d]
    BY <1>18 DEF Kill
  <2>3. \A d : Flying(d)' <=> Flying(d)
    BY <2>2, SameRequest DEF Flying, Serving, Resting
  <2>. QED
    BY <2>1, <2>2, <2>3, SameRequest DEF NobodysTurn, Turn, Quiet, Resting
<1>19. CASE UNCHANGED vars
  <2>1. UNCHANGED <<thread, client, sems, bufs>>
    BY <1>19 DEF vars
  <2>. QED
    BY <2>1, SameRequest DEF NobodysTurn, Turn, Quiet, Resting, Flying, Serving
<1>. QED
  BY <1>1, <1>2, <1>3, <1>4, <1>5, <1>6, <1>7, <1>8, <1>9, <1>10, <1>11, <1>12, <1>13, <1>14, <1>15, <1>16, <1>17, <1>18, <1>19
  DEF Next, MainCode, MainFails, ThreadCode, ClientCode

-----------------------------------------------------------------------------
(* The invariant holds in every reachable state. *)
THEOREM ServiceInvariant == Spec => []ServiceInv
<1>1. Init => ServiceInv
  BY ServiceInit
<1>2. ServiceInv /\ [Next]_vars => ServiceInv'
  BY TypeStep, MainStep, AdmitStep, TurnStep DEF ServiceInv
<1>. QED
  BY <1>1, <1>2, PTL DEF Spec

(* Every variable keeps its type. *)
THEOREM TypeCorrect == Spec => []TypeOK
<1>1. ServiceInv => TypeOK
  BY DEF ServiceInv
<1>. QED
  BY <1>1, ServiceInvariant, PTL

(* However many clients start, are signalled or are killed, the count of
   processes in main lets only one of them near the buffers while the service
   lives. *)
THEOREM OnlyOneAdmitted == Spec => []OneAdmitted
<1>1. ServiceInv => OneAdmitted
  BY DEF ServiceInv
<1>. QED
  BY <1>1, ServiceInvariant, PTL

(* Undisturbed, the two semaphores keep the service and the clients out of
   each other's way in the buffers. *)
THEOREM TurnsAreTaken == Spec => []TurnTaking
<1>1. ServiceInv => TurnTaking
  <2> SUFFICES ASSUME ServiceInv, Undisturbed,
                      tpc \in {"parse", "answer", "download", "append"},
                      NEW d \in Clients, cpc[d] \in {"write", "print", "wipe1", "wipe2"}
               PROVE  FALSE
    BY DEF TurnTaking
  <2>1. PICK c \in Admitted : cpc[c] = "wait"
    BY BusyServes DEF Resting
  <2>. QED
    BY <2>1, Alone
<1>. QED
  BY <1>1, ServiceInvariant, PTL

(* Undisturbed, every client prints the reply to its own request, as much of
   it as the buffer has room for. *)
THEOREM RepliesAreOwn == Spec => []OwnReply
<1>1. ServiceInv => OwnReply
  BY DEF ServiceInv, TurnInv, Turn, OwnReply
<1>. QED
  BY <1>1, ServiceInvariant, PTL

(* Undisturbed, a request for downloads reaches the pool exactly once, and
   any other request never. *)
THEOREM HandedOnce == Spec => []QueuedOnce
<1>1. ServiceInv => QueuedOnce
  <2> SUFFICES ASSUME ServiceInv, Undisturbed, NEW c \in Clients,
                      cpc[c] \in {"print", "wipe1", "wipe2", "done"}
               PROVE  Cardinality(Handed(c)) = IF want[c].kind \in {"good", "mixed"} THEN 1 ELSE 0
    BY DEF QueuedOnce
  <2>1. Made(c)
    BY DEF ServiceInv, TurnInv, Turn
  <2>. QED
    BY <2>1, FS_Singleton, FS_EmptySet DEF Made
<1>. QED
  BY <1>1, ServiceInvariant, PTL

(* The pool and the names of the semaphores and segments go only when the
   command line thread, which uses them, is gone. *)
THEOREM ThreadLeavesFirst == Spec => ThreadGoneFirst
<1>1. ServiceInv /\ [Next]_vars =>
        [(poolUp /\ ~poolUp') \/ (names /\ ~names') => tpc \in {"absent", "done"}]_vars
  <2> SUFFICES ASSUME ServiceInv, [Next]_vars,
                      (poolUp /\ ~poolUp') \/ (names /\ ~names')
               PROVE  tpc \in {"absent", "done"}
    OBVIOUS
  <2>1. Unlink \/ Stop
    BY DEF Next, vars, MainCode, MainFails, ThreadCode, ClientCode, StartThread, StartPool,
       RunLoop, LeaveLoop, SetShutdown, JoinThread, StartFails, StartPoolFails,
       Signal, Test, Take, Parse, Answer, Download, DownloadCrashes, WorkerDies, AppendReply, Reply,
       Start, Open, Check, Write, Post, Wait, Show, WipeRequest, WipeReply, Kill, main
  <2>. QED
    BY <2>1 DEF Unlink, Stop, ServiceInv, MainInv
<1>. QED
  BY <1>1, ServiceInvariant, PTL DEF Spec, ThreadGoneFirst
-----------------------------------------------------------------------------
(* Only a client's own steps change its place, and main's and the thread's  *)
(* steps and signals move at most one token.                                *)
LEMMA DriftStep == ServiceInv /\ BoundedDrift /\ [Next]_vars => BoundedDrift'
<1> DEFINE Busy  == IF tpc \in {"parse", "answer", "download", "append", "post"} THEN 1 ELSE 0
           Owing == {c \in Clients : cpc[c] \in {"wait", "killed"}}
           Sum   == serviceSem + clientSem + Busy
           Debt  == signals + Cardinality(Owing)
<1> SUFFICES ASSUME ServiceInv, BoundedDrift, [Next]_vars, ServiceAlive'
             PROVE  Sum' <= Debt'
  BY DEF BoundedDrift
<1>1. serviceSem \in Nat /\ clientSem \in Nat /\ signals \in Nat /\ cpc \in [Clients -> ClientPCs]
  BY ServiceConstants DEF ServiceInv, TypeOK
<1>2. IsFiniteSet(Owing) /\ Cardinality(Owing) \in Nat
  BY ServiceConstants, FS_Subset, FS_CardinalityType
<1>3. ServiceAlive
  BY DEF ServiceAlive, Next, vars, MainCode, MainFails, ThreadCode, ClientCode, StartThread, StartPool,
     RunLoop, LeaveLoop, SetShutdown, JoinThread, Unlink, Stop, StartFails, StartPoolFails,
     Signal, Test, Take, Parse, Answer, Download, DownloadCrashes, WorkerDies, AppendReply, Reply,
     Start, Open, Check, Write, Post, Wait, Show, WipeRequest, WipeReply, Kill, main
<1>4. Sum \in Nat /\ Debt \in Nat /\ Sum <= Debt
  BY <1>1, <1>2, <1>3 DEF BoundedDrift
(* What a step adds to the tokens, it adds to the debt. *)
<1>5. ASSUME NEW k \in Nat, Sum' \in Int, Debt' \in Int, Sum' <= Sum + k, Debt' >= Debt + k
      PROVE  Sum' <= Debt'
  <2> HIDE DEF Sum, Debt
  <2>. QED
    BY <1>4, <1>5
<1>6. CASE MainCode \/ MainFails \/ Stop \/ Signal
  <2>1. cpc' = cpc /\ clientSem' = clientSem /\ Busy' = Busy
    BY <1>6 DEF MainCode, MainFails, StartThread, StartPool, RunLoop, LeaveLoop, SetShutdown, JoinThread,
       Unlink, Stop, StartFails, StartPoolFails, Signal, thread, client, sems, ServiceInv, MainInv
  <2>2. \E k \in {0, 1} : serviceSem' = serviceSem + k /\ signals' = signals + k
    BY <1>1, <1>6 DEF MainCode, MainFails, StartThread, StartPool, RunLoop, LeaveLoop, SetShutdown, JoinThread,
       Unlink, Stop, StartFails, StartPoolFails, Signal, sems, world
  <2>3. Cardinality(Owing)' = Cardinality(Owing)
    BY <2>1
  <2>4. Busy \in {0, 1}
    OBVIOUS
  <2> HIDE DEF Busy, Owing
  <2>5. PICK k \in {0, 1} : serviceSem' = serviceSem + k /\ signals' = signals + k
    BY <2>2
  <2>6. Sum' = Sum + k /\ Debt' = Debt + k
    BY <1>1, <1>2, <2>1, <2>3, <2>4, <2>5
  <2> HIDE DEF Sum, Debt
  <2>. QED
    BY <1>4, <1>5, <2>6
<1>7. CASE ThreadCode \/ WorkerDies
  <2>1. cpc' = cpc /\ signals' = signals
    BY <1>7 DEF ThreadCode, Test, Take, Parse, Answer, Download, DownloadCrashes, WorkerDies, AppendReply, Reply, client, world
  <2>2. Sum' \in Int /\ Sum' <= Sum + 0
    BY <1>1, <1>7 DEF ThreadCode, Test, Take, Parse, Answer, Download, DownloadCrashes, WorkerDies, AppendReply, Reply, sems
  <2>3. Cardinality(Owing)' = Cardinality(Owing)
    BY <2>1
  <2> HIDE DEF Sum, Owing
  <2>4. Debt' = Debt + 0
    BY <1>1, <1>2, <2>1, <2>3
  <2> HIDE DEF Debt
  <2>. QED
    BY <1>4, <1>5, <2>2, <2>4
<1>8. ASSUME NEW c \in Clients, Start(c) \/ ClientCode(c) \/ Kill(c)
      PROVE  Sum' <= Debt'
  <2>1. /\ tpc' = tpc /\ signals' = signals /\ cpc' \in [Clients -> ClientPCs]
        /\ \A d \in Clients : d # c => cpc'[d] = cpc[d]
    BY <1>1, <1>8 DEF ClientCode, Start, Open, Check, Write, Post, Wait, Show, WipeRequest, WipeReply, Kill,
       thread, world, ClientPCs
  <2>2. Busy' = Busy /\ Busy \in {0, 1}
    BY <2>1
  <2>3. CASE c \notin Owing /\ c \in Owing'
    <3>1. Owing' = Owing \cup {c}
      BY <2>1, <2>3
    <3>2. Cardinality(Owing') = Cardinality(Owing) + 1
      BY <1>2, <2>3, <3>1, FS_AddElement
    <3>3. \/ serviceSem' = serviceSem + 1 /\ clientSem' = clientSem
          \/ serviceSem' = serviceSem /\ (clientSem' = clientSem \/ clientSem' = clientSem - 1)
      BY <1>8 DEF ClientCode, Start, Open, Check, Write, Post, Wait, Show, WipeRequest, WipeReply, Kill, sems
    <3> HIDE DEF Owing, Busy
    <3>4. Sum' \in Int /\ Sum' <= Sum + 1
      BY <1>1, <2>2, <3>3
    <3>5. Debt' = Debt + 1
      BY <1>1, <1>2, <2>1, <3>2
    <3> HIDE DEF Sum, Debt
    <3>. QED
      BY <1>4, <1>5, <3>4, <3>5
  <2>4. CASE c \in Owing /\ c \notin Owing'
    <3>1. Owing' = Owing \ {c}
      BY <2>1, <2>4
    <3>2. Cardinality(Owing') = Cardinality(Owing) - 1
      BY <1>2, <2>4, <3>1, FS_RemoveElement
    <3>3. serviceSem' = serviceSem /\ clientSem' = clientSem - 1
      BY <1>1, <1>8, <2>4 DEF ClientCode, Start, Open, Check, Write, Post, Wait, Show, WipeRequest, WipeReply, Kill,
         Live, Admitted
    <3> HIDE DEF Owing, Busy
    <3>4. Sum' = Sum - 1 /\ Debt' = Debt - 1
      BY <1>1, <1>2, <2>1, <2>2, <3>2, <3>3
    <3> HIDE DEF Sum, Debt
    <3>. QED
      BY <1>4, <3>4
  <2>5. CASE c \in Owing <=> c \in Owing'
    <3>1. Cardinality(Owing)' = Cardinality(Owing)
      BY <2>1, <2>5
    <3>2. serviceSem' = serviceSem /\ clientSem' = clientSem
      BY <1>1, <1>8, <2>5 DEF ClientCode, Start, Open, Check, Write, Post, Wait, Show, WipeRequest, WipeReply, Kill, sems
    <3> HIDE DEF Owing, Busy
    <3>3. Sum' = Sum /\ Debt' = Debt
      BY <2>1, <2>2, <3>1, <3>2
    <3> HIDE DEF Sum, Debt
    <3>. QED
      BY <1>4, <3>3
  <2>. QED
    BY <2>3, <2>4, <2>5
<1>9. CASE UNCHANGED vars
  BY <1>4, <1>9 DEF vars, thread, client, sems, world
<1>. QED
  BY <1>6, <1>7, <1>8, <1>9 DEF Next

(* Each disturbance of the service puts the semaphores one token at most
   ahead of the requests that wait. *)
THEOREM DriftIsBounded == Spec => []BoundedDrift
<1>1. Init => BoundedDrift
  <2> SUFFICES ASSUME Init PROVE BoundedDrift
    OBVIOUS
  <2>1. serviceSem = 0 /\ clientSem = 0 /\ tpc = "absent" /\ signals = 0
    BY DEF Init
  <2>2. Cardinality({c \in Clients : cpc[c] \in {"wait", "killed"}}) \in Nat
    BY ServiceConstants, FS_Subset, FS_CardinalityType
  <2>. QED
    BY <2>1, <2>2 DEF BoundedDrift
<1>. QED
  BY <1>1, DriftStep, ServiceInvariant, PTL DEF Spec

(* Once in its loop the service keeps the pool until the thread that uses it
   is gone, so every request that is handed over finds it. *)
THEOREM PoolIsFound == Spec => LoopFindsPool
<1> DEFINE Sound == \/ mpc \in {"loop", "looping", "destory", "join"} /\ poolUp
                    \/ /\ mpc \in {"unlink", "stop", "stopped", "crashed"}
                       /\ tpc \in {"absent", "done", "crashed"}
<1>1. ServiceInv /\ mpc = "looping" => Sound
  BY DEF ServiceInv, MainInv
<1>2. ServiceInv /\ Sound /\ [Next]_vars => Sound'
  <2> SUFFICES ASSUME ServiceInv, Sound, [Next]_vars PROVE Sound'
    OBVIOUS
  <2>1. CASE MainCode \/ MainFails \/ Stop \/ Signal
    BY <2>1 DEF MainCode, MainFails, StartThread, StartPool, RunLoop, LeaveLoop, SetShutdown, JoinThread,
       Unlink, Stop, StartFails, StartPoolFails, Signal, thread
  <2>2. CASE ThreadCode \/ WorkerDies
    BY <2>2 DEF ThreadCode, Test, Take, Parse, Answer, Download, DownloadCrashes, WorkerDies, AppendReply, Reply, main
  <2>3. ASSUME NEW c \in Clients, Start(c) \/ ClientCode(c) \/ Kill(c) PROVE Sound'
    BY <2>3 DEF ClientCode, Start, Open, Check, Write, Post, Wait, Show, WipeRequest, WipeReply, Kill, main, thread
  <2>4. CASE UNCHANGED vars
    BY <2>4 DEF vars, main, thread
  <2>. QED
    BY <2>1, <2>2, <2>3, <2>4 DEF Next
<1>3. Sound => (tpc = "download" => poolUp)
  OBVIOUS
<1> HIDE DEF Sound
<1>. QED
  BY <1>1, <1>2, <1>3, ServiceInvariant, PTL DEF Spec, LoopFindsPool

-----------------------------------------------------------------------------
(* The refinement of Calls.  What it calls handed over is what Handed counts, *)
(* and the beginning of the whole reply is the expected one.                  *)
LEMMA SameTerms ==
  ASSUME TypeOK, NEW c \in Clients
  PROVE  /\ Call!HandedOver(c) <=> ~Unmade(c)
         /\ Call!Beginning(Call!WholeReply(c)) = Expected(c)
<1>1. Call!HandedOver(c) <=> ~Unmade(c)
  BY DEF Call!HandedOver, Unmade, Handed
<1> DEFINE m(part, upto) == [for |-> c, part |-> part, upto |-> upto]
           u == want[c].size["unsupported"]
           q == want[c].size["queued"]
           i == want[c].size["info"]
<1>2. u \in Nat /\ q \in Nat /\ i \in Nat /\ Room \in Nat
  <2>1. \A r \in Requests \cup {Nothing} : \A part \in Parts : r.size[part] \in Nat
    BY ServiceConstants DEF Nothing, Parts
  <2>2. want[c] \in Requests \cup {Nothing}
    BY DEF TypeOK
  <2>. QED
    BY <2>1, <2>2, ServiceConstants DEF Parts, Room
<1>10. \A part, upto : [m(part, upto) EXCEPT !.upto = IF @ < Room THEN @ ELSE Room] = m(part, Smaller(upto, Room))
  BY DEF Smaller
<1>3. ASSUME NEW part, NEW upto
      PROVE  Call!Beginning(<<m(part, upto)>>) = <<m(part, Smaller(upto, Room))>>
  <2>1. Len(<<m(part, upto)>>) = 1 /\ <<m(part, upto)>>[1] = m(part, upto)
    OBVIOUS
  <2> HIDE DEF m
  <2>. QED
    BY <1>10, <2>1 DEF Call!Beginning
<1>4. Call!Beginning(Call!WholeReply(c)) = Expected(c)
  <2>1. CASE want[c].kind = "info"
    <3>1. Call!WholeReply(c) = <<m("info", i)>> /\ Expected(c) = <<m("info", Smaller(i, Room))>>
      BY <2>1 DEF Call!WholeReply, Expected
    <3>. QED
      BY <1>3, <3>1
  <2>2. CASE want[c].kind = "bad"
    <3>1. Call!WholeReply(c) = <<m("unsupported", u)>> /\ Expected(c) = <<m("unsupported", Smaller(u, Room))>>
      BY <2>2 DEF Call!WholeReply, Expected
    <3>. QED
      BY <1>3, <3>1
  <2>3. CASE want[c].kind = "good"
    <3>1. Call!WholeReply(c) = <<m("queued", 1 + q)>> /\ Expected(c) = <<m("queued", Smaller(1 + q, Room))>>
      BY <2>3 DEF Call!WholeReply, Expected
    <3>. QED
      BY <1>3, <3>1
  <2>4. CASE want[c].kind = "mixed"
    <3> DEFINE whole == <<m("unsupported", u), m("queued", u + 1 + q)>>
               cut(upto) == Smaller(upto, Room)
    <3>1. Call!WholeReply(c) = whole
      BY <2>4 DEF Call!WholeReply
    <3>2. Call!Beginning(whole) =
            IF u < Room THEN <<m("unsupported", cut(u)), m("queued", cut(u + 1 + q))>>
                        ELSE <<m("unsupported", cut(u))>>
      <4>1. Len(whole) = 2 /\ whole[1] = m("unsupported", u) /\ whole[2] = m("queued", u + 1 + q)
        OBVIOUS
      <4>2. m("unsupported", u).upto = u
        OBVIOUS
      <4> HIDE DEF m, whole, u, q
      <4>. QED
        BY <1>10, <4>1, <4>2 DEF Call!Beginning
    <3>3. (u < Room <=> cut(u) < Room) /\ (u < Room => cut(u) = u)
      BY <1>2 DEF Smaller
    <3>4. Expected(c) =
            IF cut(u) < Room THEN <<m("unsupported", cut(u)), m("queued", cut(cut(u) + 1 + q))>>
                             ELSE <<m("unsupported", cut(u))>>
      BY <2>4 DEF Expected
    <3> HIDE DEF m, cut, u, q
    <3>. QED
      BY <3>1, <3>2, <3>3, <3>4
  <2>. QED
    BY <2>1, <2>2, <2>3, <2>4, KindKnown
<1>. QED
  BY <1>1, <1>4

(* Undisturbed before and after a step, the history variable is the same. *)
LEMMA SameQuiet ==
  ASSUME Undisturbed, Undisturbed'
  PROVE  (~Undisturbed)' = (~Undisturbed)
<1>. HIDE DEF Undisturbed
<1>. QED
  OBVIOUS

(* No call moves if no client changes its place. *)
LEMMA NoCallMoves ==
  ASSUME Undisturbed, Undisturbed', UNCHANGED <<want, got, queued>>,
         \A c \in Clients : Place(c)' = Place(c)
  PROVE  UNCHANGED Call!callVars
<1>1. [c \in Clients |-> Place(c)]' = [c \in Clients |-> Place(c)]
  OBVIOUS
<1>. QED
  BY <1>1, SameQuiet DEF Call!callVars

(* One call moves if one client changes its place. *)
LEMMA OneCallMoves ==
  ASSUME NEW c \in Clients, NEW p, Place(c)' = p,
         \A d \in Clients : d # c => Place(d)' = Place(d)
  PROVE  [d \in Clients |-> Place(d)]' = [[d \in Clients |-> Place(d)] EXCEPT ![c] = p]
OBVIOUS

(* A service that was just started has had no call. *)
LEMMA CallsInit == Init => Call!Init
<1> SUFFICES ASSUME Init PROVE Call!Init
  OBVIOUS
<1>1. Undisturbed /\ \A c \in Clients : Place(c) = "none"
  BY DEF Init, Undisturbed, ServiceAlive, Place
<1>2. (~Undisturbed) = FALSE
  BY <1>1
<1>3. want = [c \in Clients |-> [kind |-> "info", dir |-> NoDir,
                                 size |-> [p \in {"info", "unsupported", "queued"} |-> HelpSize]]]
  BY DEF Init, Nothing, Parts
<1>4. got = [c \in Clients |-> <<>>] /\ queued = <<>>
  BY DEF Init
<1>. QED
  BY <1>1, <1>2, <1>3, <1>4 DEF Call!Init

(* Every step of the service is a step of one call, or of none: writing the
   request makes it, download hands it over, printing answers it, and a client
   that is refused or dropped gives it up. *)
LEMMA CallsStep == ServiceInv /\ [Next]_vars => [Call!Next]_(Call!callVars)
<1> SUFFICES ASSUME ServiceInv, [Next]_vars PROVE Call!Next \/ UNCHANGED Call!callVars
  OBVIOUS
<1>1. CASE ~Undisturbed'
  <2>1. (~Undisturbed)' = TRUE
    BY <1>1
  <2>. QED
    BY <2>1 DEF Call!Next, Call!Disturb
<1>2. CASE Undisturbed'
  <2>0. /\ Undisturbed /\ NobodysTurn /\ (\A c \in Clients : Turn(c)) /\ TypeOK
        /\ (~Undisturbed)' = (~Undisturbed)
    BY <1>2, StillUndisturbed, SameQuiet DEF ServiceInv, TurnInv
  <2>1. CASE MainCode \/ MainFails \/ Stop \/ Test \/ Take \/ Parse \/ Answer \/ AppendReply \/ Reply \/ UNCHANGED vars
    <3>1. UNCHANGED <<cpc, want, got, queued>>
      BY <2>1 DEF MainCode, MainFails, StartThread, StartPool, RunLoop, LeaveLoop, SetShutdown, JoinThread, Unlink,
         Stop, StartFails, StartPoolFails, Test, Take, Parse, Answer, AppendReply, Reply, vars, client, thread
    <3>. QED
      BY <1>2, <2>0, <3>1, NoCallMoves DEF Place
  <2>2. CASE Signal \/ DownloadCrashes \/ WorkerDies
    <3>1. ~Undisturbed'
      BY <2>0, <2>2 DEF Signal, DownloadCrashes, WorkerDies, Undisturbed, ServiceAlive
    <3>. QED
      BY <1>2, <3>1
  <2>3. CASE Download
    <3>1. PICK c \in Admitted : cpc[c] = "wait" /\ Serving(c)
      BY <2>0, <2>3, BusyServes DEF Resting, Download
    <3>2. c \in Clients /\ job = c /\ Unmade(c) /\ want[c].kind \in {"good", "mixed"}
      BY <2>3, <3>1 DEF Download, Serving, Admitted
    <3>3. Request = want[c] /\ want[c].dir \in Dirs \cup {NoDir} /\ taskDir \in AnyDir
      <4>1. Request = want[c]
        BY <3>2, ServiceConstants DEF Request
      <4>. QED
        BY <2>0, <4>1, RequestType DEF TypeOK
    <3>4. PICK d \in (Dirs \cup {Stray}) \cup {NoDir} :
                 /\ want[c].dir # NoDir => d = want[c].dir
                 /\ queued' = Append(queued, [for |-> c, dir |-> d])
      BY <2>3, <3>2, <3>3 DEF Download, AnyDir
    <3>5. UNCHANGED <<cpc, want, got>>
      BY <2>3 DEF Download, client
    <3>6. [e \in Clients |-> Place(e)]' = [e \in Clients |-> Place(e)]
      BY <3>5 DEF Place
    <3>7. Place(c) = "made"
      BY <3>1 DEF Place
    <3>8. Call!HandOver(c, d)
      BY <2>0, <3>2, <3>4, <3>5, <3>6, <3>7, SameTerms DEF Call!HandOver, Call!ForDownloads
    <3>. QED
      BY <3>2, <3>8 DEF Call!Next
  <2>4. ASSUME NEW c \in Clients, Start(c) \/ Post(c) \/ Wait(c) \/ WipeRequest(c) \/ WipeReply(c)
        PROVE  UNCHANGED Call!callVars
    <3>1. /\ UNCHANGED <<want, got, queued>>
          /\ \A d \in Clients : d # c => cpc'[d] = cpc[d]
          /\ \/ cpc[c] = "absent" /\ cpc'[c] = "open"
             \/ cpc[c] = "post" /\ cpc'[c] = "wait"
             \/ cpc[c] = "wait" /\ cpc'[c] = "print"
             \/ cpc[c] = "wipe1" /\ cpc'[c] = "wipe2"
             \/ cpc[c] = "wipe2" /\ cpc'[c] = "done"
      BY <2>0, <2>4 DEF Start, Post, Wait, WipeRequest, WipeReply, thread, TypeOK
    <3>2. \A d \in Clients : Place(d)' = Place(d)
      BY <3>1 DEF Place
    <3>. QED
      BY <1>2, <2>0, <3>1, <3>2, NoCallMoves
  <2>5. ASSUME NEW c \in Clients, Open(c) \/ Check(c) \/ Kill(c)
        PROVE  Call!Next \/ UNCHANGED Call!callVars
    <3>1. /\ UNCHANGED <<want, got, queued>>
          /\ \A d \in Clients : d # c => cpc'[d] = cpc[d]
          /\ \/ cpc[c] \in {"open", "check"} /\ cpc'[c] \in {"check", "write"}
             \/ /\ cpc[c] \in {"open", "check", "write", "post"}
                /\ cpc'[c] \in {"refused", "dropped"}
      BY <1>2, <2>0, <2>5 DEF Open, Check, Kill, thread, TypeOK, Undisturbed, Live, Admitted
    <3>2. \A d \in Clients : d # c => Place(d)' = Place(d)
      BY <3>1 DEF Place
    <3>3. CASE cpc[c] \in {"open", "check"} /\ cpc'[c] \in {"check", "write"}
      <4>1. Place(c)' = Place(c)
        BY <3>3 DEF Place
      <4>. QED
        BY <1>2, <2>0, <3>1, <3>2, <4>1, NoCallMoves
    <3>4. CASE cpc[c] \in {"open", "check", "write", "post"} /\ cpc'[c] \in {"refused", "dropped"}
      <4>1. Place(c) \in {"none", "made"} /\ Place(c)' = "over"
        BY <3>4 DEF Place
      <4>2. Unmade(c)
        BY <2>0, <3>4 DEF Turn
      <4>3. Call!GiveUp(c)
        BY <2>0, <3>1, <3>2, <4>1, <4>2, OneCallMoves, SameTerms DEF Call!GiveUp
      <4>. QED
        BY <4>3 DEF Call!Next
    <3>. QED
      BY <3>1, <3>3, <3>4
  <2>6. ASSUME NEW c \in Clients, Write(c) PROVE Call!Next
    <3>1. PICK r \in Requests : want' = [want EXCEPT ![c] = r]
      BY <2>6 DEF Write
    <3>2. /\ UNCHANGED <<got, queued>>
          /\ cpc[c] = "write" /\ cpc'[c] = "post" /\ \A d \in Clients : d # c => cpc'[d] = cpc[d]
      BY <2>0, <2>6 DEF Write, thread, TypeOK
    <3>3. Place(c) = "none" /\ Place(c)' = "made" /\ \A d \in Clients : d # c => Place(d)' = Place(d)
      BY <3>2 DEF Place
    <3>4. \A d \in Clients : Place(d) # "made"
      <4>1. \A d \in Clients : d # c => cpc[d] \in {"absent", "open", "check", "done", "refused", "dropped"}
        BY <2>0, <3>2, Alone DEF Admitted
      <4>. QED
        BY <3>3, <4>1 DEF Place
    <3>5. Call!Make(c, r)
      BY <2>0, <3>1, <3>2, <3>3, <3>4, OneCallMoves DEF Call!Make
    <3>. QED
      BY <3>5 DEF Call!Next
  <2>7. ASSUME NEW c \in Clients, Show(c) PROVE Call!Next
    <3>1. /\ UNCHANGED <<want, queued>>
          /\ cpc[c] = "print" /\ cpc'[c] = "wipe1" /\ \A d \in Clients : d # c => cpc'[d] = cpc[d]
      BY <2>0, <2>7 DEF Show, thread, TypeOK
    <3>2. Place(c) = "made" /\ Place(c)' = "over" /\ \A d \in Clients : d # c => Place(d)' = Place(d)
      BY <3>1 DEF Place
    <3>3. serverBuf = Expected(c) /\ Made(c)
      BY <2>0, <3>1 DEF Turn
    <3>4. got' = [got EXCEPT ![c] = Call!Beginning(Call!WholeReply(c))]
      BY <2>0, <2>7, <3>3, SameTerms DEF Show
    <3>5. Call!ForDownloads(c) => Call!HandedOver(c)
      BY <2>0, <3>3, SameTerms DEF Made, Unmade, Call!ForDownloads
    <3>6. Call!Answer(c)
      BY <2>0, <3>1, <3>2, <3>4, <3>5, OneCallMoves DEF Call!Answer
    <3>. QED
      BY <3>6 DEF Call!Next
  <2>. QED
    BY <2>1, <2>2, <2>3, <2>4, <2>5, <2>6, <2>7 DEF Next, ThreadCode, ClientCode
<1>. QED
  BY <1>1, <1>2

(* To its users the service is what Calls promises: the two unlocked buffers,
   the semaphores and the count of processes serve one call after the other,
   each handed over once before it is answered, all of it or as much as the buffer
   has room for, until somebody disturbs it. *)
THEOREM ServiceImplementsCalls == Spec => ImplementsCalls
<1>1. Init => Call!Init
  BY CallsInit
<1>2. ServiceInv /\ [Next]_vars => [Call!Next]_(Call!callVars)
  BY CallsStep
<1>. QED
  BY <1>1, <1>2, ServiceInvariant, PTL DEF Spec, ImplementsCalls, Call!Spec
-----------------------------------------------------------------------------
(* The safety half of Answered and of JoinsWithToken. *)
(* A client that waits in a service that nobody disturbed or ends never waits
   for a step that nobody can take. *)
THEOREM AnswerIsNotBlocked == Spec => []AnswerNotBlocked
<1>1. ServiceInv => AnswerNotBlocked
  <2> SUFFICES ASSUME ServiceInv, Calm, NEW c \in Clients, cpc[c] = "wait"
               PROVE  clientSem > 0 \/ ThreadCanGo \/ mpc = "thread"
    BY DEF AnswerNotBlocked
  <2>1. Flying(c)
    BY DEF Calm, ServiceInv, TurnInv, Turn
  <2>2. tpc \in {"absent", "done"} => mpc = "thread"
    BY DEF Calm, ServiceInv, MainInv
  <2>. QED
    BY <2>1, <2>2 DEF Flying, Serving, Resting, ThreadCanGo
<1>. QED
  BY <1>1, ServiceInvariant, PTL

(* Every step of the command line thread brings its answer nearer, and no step
   of main, of the environment or of another client takes it away. *)
THEOREM AnswerComesNearer == Spec => AnswerNearer
<1>1. ServiceInv /\ ServiceInv' /\ [Next]_vars =>
        [Calm /\ Calm' =>
           \A c \in Clients : cpc[c] = "wait" /\ cpc'[c] = "wait" =>
             /\ StepsToAnswer' <= StepsToAnswer
             /\ tpc' # tpc /\ clientSem = 0 => StepsToAnswer' < StepsToAnswer]_vars
  <2> SUFFICES ASSUME ServiceInv, ServiceInv', Next, Calm, Calm',
                      NEW c \in Clients, cpc[c] = "wait", cpc'[c] = "wait"
               PROVE  /\ StepsToAnswer' <= StepsToAnswer
                      /\ tpc' # tpc /\ clientSem = 0 => StepsToAnswer' < StepsToAnswer
    OBVIOUS
  <2>1. /\ TypeOK /\ TypeOK' /\ MainInv /\ MainInv' /\ Undisturbed /\ Undisturbed'
        /\ Flying(c) /\ Flying(c)'
    BY DEF Calm, ServiceInv, TurnInv, Turn
  <2>2. c \in Admitted /\ \A d \in Clients : d # c => cpc[d] \in {"absent", "open", "check", "done", "refused", "dropped"}
    BY <2>1, Alone DEF Admitted
  <2>3. serviceSem \in Nat /\ clientSem \in Nat /\ clientSem' \in Nat
    BY <2>1 DEF TypeOK
  <2>4. StepsToAnswer \in Nat /\ (tpc' = tpc /\ clientSem' = clientSem => StepsToAnswer' = StepsToAnswer)
    <3>1. StepsToAnswer \in Nat
      <4>1. tpc \in ThreadPCs
        BY <2>1 DEF TypeOK
      <4>. QED
        BY <4>1 DEF ThreadPCs, StepsToAnswer
    <3>2. tpc' = tpc /\ clientSem' = clientSem => StepsToAnswer' = StepsToAnswer
      BY DEF StepsToAnswer
    <3>. QED
      BY <3>1, <3>2
  <2>5. CASE MainCode \/ MainFails \/ Stop \/ Signal
    <3>1. CASE StartThread
      <4>1. tpc = "absent" /\ tpc' = "test" /\ clientSem' = clientSem
        BY <2>1, <3>1 DEF StartThread, MainInv, sems
      <4>. QED
        BY <2>3, <4>1 DEF StepsToAnswer
    <3>2. CASE ~StartThread
      <4>1. tpc' = tpc /\ clientSem' = clientSem
        BY <2>5, <3>2 DEF MainCode, MainFails, StartPool, RunLoop, LeaveLoop, SetShutdown, JoinThread,
           Unlink, Stop, StartFails, StartPoolFails, Signal, thread, sems
      <4>. QED
        BY <2>4, <4>1
    <3>. QED
      BY <3>1, <3>2
  <2>6. CASE Test \/ Take \/ Parse \/ Answer \/ Download \/ DownloadCrashes \/ WorkerDies \/ AppendReply
    <3>1. clientSem' = clientSem
      BY <2>6 DEF Test, Take, Parse, Answer, Download, DownloadCrashes, WorkerDies, AppendReply, sems
    <3>2. ~shutdown /\ mpc' # "crashed"
      BY <2>1 DEF Calm, MainInv
    <3>3. <<tpc, tpc'>> \in {<<"test", "wait">>, <<"wait", "parse">>, <<"parse", "answer">>,
                            <<"answer", "download">>, <<"answer", "post">>,
                            <<"download", "append">>, <<"append", "post">>}
      BY <2>6, <3>2 DEF Test, Take, Parse, Answer, Download, DownloadCrashes, WorkerDies, AppendReply
    <3>. QED
      BY <2>3, <3>1, <3>3 DEF StepsToAnswer
  <2>7. CASE Reply
    <3>1. clientSem = 0 /\ clientSem' = 1 /\ tpc = "post"
      BY <2>1, <2>7 DEF Reply, Flying, Resting, Serving
    <3>. QED
      BY <3>1 DEF StepsToAnswer
  <2>8. ASSUME NEW d \in Clients, Start(d) \/ ClientCode(d) \/ Kill(d)
        PROVE  tpc' = tpc /\ clientSem' = clientSem
    <3>1. ~Wait(d)
      BY <2>1, <2>2, <2>8 DEF Wait, TypeOK
    <3>. QED
      BY <2>8, <3>1 DEF ClientCode, Start, Open, Check, Write, Post, Show, WipeRequest, WipeReply, Kill,
         thread, sems
  <2>. QED
    BY <2>3, <2>4, <2>5, <2>6, <2>7, <2>8 DEF Next, ThreadCode
<1>. QED
  BY <1>1, ServiceInvariant, PTL DEF Spec, AnswerNearer

(* While main waits for the command line thread, each of its steps brings its
   end nearer, and nobody takes away the token or the request it needs. *)
THEOREM EndComesNearer == Spec => EndNearer
<1>1. ServiceInv /\ [Next]_vars =>
        [Ending /\ mpc' = "join" =>
           /\ Ending'
           /\ StepsToEnd' <= StepsToEnd
           /\ tpc' # tpc => StepsToEnd' < StepsToEnd]_vars
  <2> SUFFICES ASSUME ServiceInv, Next, Ending, mpc' = "join"
               PROVE  /\ Ending'
                      /\ StepsToEnd' <= StepsToEnd
                      /\ tpc' # tpc => StepsToEnd' < StepsToEnd
    OBVIOUS
  <2>1. shutdown /\ mpc = "join" /\ serviceSem \in Nat /\ tpc \in ThreadPCs
    BY DEF ServiceInv, MainInv, Ending, TypeOK
  <2>2. CASE MainCode \/ MainFails \/ Stop \/ Signal \/ \E c \in Clients : Start(c) \/ ClientCode(c) \/ Kill(c)
    <3>1. tpc' = tpc /\ (serviceSem' = serviceSem \/ serviceSem' = serviceSem + 1)
      BY <2>1, <2>2 DEF MainCode, MainFails, StartThread, StartPool, RunLoop, LeaveLoop, SetShutdown, JoinThread,
         Unlink, Stop, StartFails, StartPoolFails, Signal, thread, sems,
         ClientCode, Start, Open, Check, Write, Post, Wait, Show, WipeRequest, WipeReply, Kill
    <3>. QED
      BY <2>1, <3>1 DEF Ending, StepsToEnd, ThreadPCs
  <2>3. CASE ThreadCode \/ WorkerDies
    <3>1. <<tpc, tpc'>> \in {<<"test", "done">>, <<"wait", "parse">>, <<"parse", "answer">>,
                            <<"answer", "download">>, <<"answer", "post">>,
                            <<"download", "append">>, <<"append", "post">>, <<"post", "test">>}
      BY <2>1, <2>3 DEF ThreadCode, Test, Take, Parse, Answer, Download, DownloadCrashes, WorkerDies, AppendReply, Reply
    <3>. QED
      BY <3>1 DEF Ending, StepsToEnd
  <2>. QED
    BY <2>2, <2>3 DEF Next
<1>. QED
  BY <1>1, ServiceInvariant, PTL DEF Spec, EndNearer
==============================================================================
