--------------------------- MODULE DownloadsProofs ---------------------------
(***************************************************************************)
(* The properties of Downloads for any number of jobs, workers and files.  *)
(***************************************************************************)
EXTENDS Downloads, FiniteSetTheorems, TLAPS

(* A buffer written at most one position behind the end of a file leaves a *)
(* file, which is as long as before or ends with that buffer.              *)
LEMMA PutType ==
  ASSUME NEW s \in Seq(Buffers), NEW k \in Nat, k >= 1, k <= Len(s) + 1, NEW b \in Buffers
  PROVE  /\ Put(s, k, b) \in Seq(Buffers)
         /\ Len(Put(s, k, b)) >= Len(s)
         /\ Len(Put(s, k, b)) >= k
  <1> DEFINE n == IF k > Len(s) THEN k ELSE Len(s)
  <1>1. n \in Nat /\ n >= Len(s) /\ n >= k
      OBVIOUS
  <1>2. \A m \in 1..n : (IF m = k THEN b ELSE s[m]) \in Buffers
    <2> TAKE m \in 1..n
    <2>1. CASE m = k
        BY <2>1
    <2>2. CASE m # k
      <3>1. m \in 1..Len(s)
          BY <2>2
      <3> QED
          BY <2>2, <3>1
    <2> QED
        BY <2>1, <2>2
  <1>3. Put(s, k, b) = [m \in 1..n |-> IF m = k THEN b ELSE s[m]]
      BY DEF Put
  <1> HIDE DEF n
  <1>4. Put(s, k, b) \in Seq(Buffers) /\ Len(Put(s, k, b)) = n
      BY <1>1, <1>2, <1>3
  <1> QED
      BY <1>1, <1>4

(* The pool's part of a step that ends a job. *)
LEMMA FinishType ==
  ASSUME TypeOK, NEW w \in Workers, running[w] # NoJob, Pool!Finish(w)
  PROVE  /\ queue' \in Seq(Jobs)
         /\ running' \in [Workers -> Jobs \cup {NoJob}]
         /\ finished' \subseteq Jobs
         /\ closed' \in BOOLEAN
         /\ running'[w] = NoJob
         /\ \A v \in Workers : v # w => running'[v] = running[v]
  BY DEF TypeOK, Pool!Finish

(* What is around the workers. *)
AroundOK == up \in BOOLEAN /\ stopping \in BOOLEAN /\ silent \subseteq Jobs

(* The parts of DownloadsInv that a step of the control changes.           *)
ControlOK ==
  /\ queue \in Seq(Jobs)
  /\ running \in [Workers -> Jobs \cup {NoJob}]
  /\ finished \subseteq Jobs
  /\ closed \in BOOLEAN
  /\ pc \in [Workers -> PCs]
  /\ held \in [Jobs -> SUBSET Objects]
  /\ result \in [Jobs -> {"none", "ok", "failed"}]
  /\ AroundOK
  /\ \A w \in Workers : (pc[w] = "idle") <=> (running[w] = NoJob)

(* The parts that a step of the output changes. *)
OutputOK ==
  /\ written \in [Workers -> Nat]
  /\ DOMAIN content = Files
  /\ \A f \in Files : content[f] \in Seq(Buffers)
  /\ present \subseteq Files
  /\ opened \subseteq Jobs

Behind ==
  \A w \in Workers : pc[w] \in {"read", "write"} => written[w] <= Len(content[File(w)])

(* The three parts make the invariant. *)
LEMMA Parts == DownloadsInv <=> ControlOK /\ OutputOK /\ sockets \subseteq Jobs /\ Behind
  BY DEF DownloadsInv, TypeOK, ControlOK, AroundOK, OutputOK, Behind

(* And so after a step. *)
LEMMA PartsNext == DownloadsInv' <=> ControlOK' /\ OutputOK' /\ sockets' \subseteq Jobs /\ Behind'
  BY DEF DownloadsInv, TypeOK, ControlOK, AroundOK, OutputOK, Behind

(* A worker that is in download_worker has a job, and its file is known.   *)
LEMMA Busy ==
  ASSUME ControlOK, NEW w \in Workers, pc[w] # "idle"
  PROVE  running[w] \in Jobs /\ File(w) \in Files
  <1>1. running[w] \in Jobs
      BY DEF ControlOK
  <1> QED
      BY <1>1, DownloadsConstants DEF File

(* An early return keeps the control as it should be, and no other worker  *)
(* moves.                                                                  *)
LEMMA FailStep ==
  ASSUME ControlOK, NEW w \in Workers, pc[w] # "idle", Fail(w)
  PROVE  /\ ControlOK'
         /\ pc'[w] = "idle"
         /\ \A v \in Workers : v # w => pc'[v] = pc[v] /\ running'[v] = running[v]
  <1>1. running[w] \in Jobs
      BY Busy
  <1>2. /\ queue' \in Seq(Jobs) /\ running' \in [Workers -> Jobs \cup {NoJob}]
        /\ finished' \subseteq Jobs /\ closed' \in BOOLEAN
        /\ running'[w] = NoJob
        /\ \A v \in Workers : v # w => running'[v] = running[v]
      BY <1>1 DEF Fail, Pool!Finish, ControlOK
  <1>3. /\ pc' \in [Workers -> PCs] /\ pc'[w] = "idle"
        /\ \A v \in Workers : v # w => pc'[v] = pc[v]
      BY DEF Fail, ControlOK, PCs
  <1>4. /\ result' \in [Jobs -> {"none", "ok", "failed"}]
        /\ held' \in [Jobs -> SUBSET Objects] /\ AroundOK'
      BY <1>1 DEF Fail, ControlOK, AroundOK, around
  <1> QED
      BY <1>2, <1>3, <1>4 DEF ControlOK

(* So does a move to a next step of download_worker. *)
LEMMA GoToStep ==
  ASSUME ControlOK, NEW w \in Workers, pc[w] # "idle",
         NEW where \in PCs \ {"idle"}, GoTo(w, where)
  PROVE  /\ ControlOK'
         /\ pc'[w] = where
         /\ running' = running
         /\ \A v \in Workers : v # w => pc'[v] = pc[v]
  <1>1. /\ pc' \in [Workers -> PCs] /\ pc'[w] = where
        /\ \A v \in Workers : v # w => pc'[v] = pc[v]
      BY DEF GoTo, ControlOK
  <1>2. UNCHANGED <<queue, running, finished, closed, held, result, up, stopping, silent>>
      BY DEF GoTo, pool, around
  <1> QED
      BY <1>1, <1>2 DEF ControlOK, AroundOK

(* Behind stays true when the output does and no worker gets to the read.  *)
LEMMA BehindStays ==
  ASSUME Behind, ControlOK, NEW w \in Workers, UNCHANGED output,
         pc'[w] \in {"read", "write"} => pc[w] \in {"read", "write"} /\ running'[w] = running[w],
         \A v \in Workers : v # w => pc'[v] = pc[v] /\ running'[v] = running[v]
  PROVE  Behind'
  BY DEF Behind, output, File

(* The state in which the service starts. *)
LEMMA InvInit == Init => DownloadsInv
  <1> SUFFICES ASSUME Init PROVE DownloadsInv
      OBVIOUS
  <1>1. ControlOK
    <2>1. /\ queue = <<>> /\ running = [w \in Workers |-> NoJob]
          /\ finished = {} /\ closed = FALSE
        BY DEF Init, Pool!Init
    <2>2. queue \in Seq(Jobs) /\ running \in [Workers -> Jobs \cup {NoJob}]
        BY <2>1
    <2>3. pc \in [Workers -> PCs]
        BY DEF Init, PCs
    <2>4. result \in [Jobs -> {"none", "ok", "failed"}]
        BY DEF Init
    <2>5. /\ held \in [Jobs -> SUBSET Objects] /\ up = TRUE /\ stopping = FALSE /\ silent = {}
          /\ pc = [w \in Workers |-> "idle"]
        BY DEF Init
    <2> QED
        BY <2>1, <2>2, <2>3, <2>4, <2>5 DEF ControlOK, AroundOK
  <1>2. OutputOK
    <2>1. OldBuffer \in Buffers
        BY DEF OldBuffer, Buffers
    <2>2. <<OldBuffer>> \in Seq(Buffers) /\ <<>> \in Seq(Buffers)
        BY <2>1
    <2> QED
        BY <2>2, DownloadsConstants DEF Init, OutputOK
  <1>3. sockets \subseteq Jobs /\ Behind
      BY DEF Init, Behind
  <1> QED
      BY <1>1, <1>2, <1>3, Parts

(* Every step of the pool and of download_worker preserves the invariant.  *)
LEMMA InvNext == DownloadsInv /\ [Next]_vars => DownloadsInv'
  <1> SUFFICES ASSUME DownloadsInv, [Next]_vars PROVE DownloadsInv'
      OBVIOUS
  <1>0. ControlOK /\ OutputOK /\ sockets \subseteq Jobs /\ Behind
      BY Parts
  <1>s. ASSUME UNCHANGED output, ControlOK', sockets' \subseteq Jobs, Behind'
        PROVE  DownloadsInv'
    <2>1. OutputOK'
        BY <1>0, <1>s DEF OutputOK, output
    <2> QED
        BY <1>s, <2>1, PartsNext
  <1>1. ASSUME NEW j \in Jobs, Submit(j) PROVE DownloadsInv'
    <2>1. /\ queue' \in Seq(Jobs)
          /\ UNCHANGED <<running, finished, closed, pc, result, up, stopping, silent>>
        BY <1>0, <1>1 DEF Submit, Pool!Submit, ControlOK, around
    <2>2. held' \in [Jobs -> SUBSET Objects] /\ UNCHANGED output /\ UNCHANGED sockets
        BY <1>0, <1>1 DEF Submit, ControlOK, Objects
    <2>3. ControlOK'
        BY <1>0, <2>1, <2>2 DEF ControlOK, AroundOK
    <2>4. Behind'
        BY <1>0, <2>1, <2>2 DEF Behind, output, File
    <2> QED
        BY <1>0, <1>s, <2>2, <2>3, <2>4
  <1>2. ASSUME \/ Close \/ SetShutdown \/ \E w \in Workers : Stall(w)
        PROVE  DownloadsInv'
    <2>1. /\ UNCHANGED <<queue, running, finished, pc, held, result, up>>
          /\ UNCHANGED output /\ UNCHANGED sockets
        BY <1>2 DEF Close, Pool!Close, SetShutdown, Stall, pool
    <2>4. closed' \in BOOLEAN
        BY <1>0, <1>2 DEF Close, Pool!Close, SetShutdown, Stall, pool, ControlOK
    <2>5. AroundOK'
      <3>1. CASE Close
          BY <1>0, <3>1 DEF Close, ControlOK, AroundOK, around
      <3>2. CASE SetShutdown
          BY <1>0, <3>2 DEF SetShutdown, ControlOK, AroundOK
      <3>3. ASSUME NEW w \in Workers, Stall(w) PROVE AroundOK'
        <4>1. running[w] \in Jobs
            BY <1>0, <3>3, Busy DEF Stall, NetworkWaits
        <4> QED
            BY <1>0, <3>3, <4>1 DEF Stall, ControlOK, AroundOK
      <3> QED
          BY <1>2, <3>1, <3>2, <3>3
    <2>2. ControlOK'
        BY <1>0, <2>1, <2>4, <2>5 DEF ControlOK
    <2>3. Behind'
        BY <1>0, <2>1 DEF Behind, output, File
    <2> QED
        BY <1>0, <1>s, <2>1, <2>2, <2>3
  <1>3. ASSUME NEW w \in Workers, Work(w) PROVE DownloadsInv'
    <2>f. ASSUME pc[w] # "idle", Fail(w), UNCHANGED output PROVE ControlOK' /\ Behind'
      <3>1. /\ ControlOK' /\ pc'[w] = "idle"
            /\ \A v \in Workers : v # w => pc'[v] = pc[v] /\ running'[v] = running[v]
          BY <1>0, <2>f, FailStep
      <3> QED
          BY <1>0, <2>f, <3>1, BehindStays
    <2>g. ASSUME pc[w] # "idle", NEW where \in PCs \ {"idle"}, GoTo(w, where), UNCHANGED output,
                 where \in {"read", "write"} => pc[w] \in {"read", "write"}
          PROVE  ControlOK' /\ Behind'
      <3>1. /\ ControlOK' /\ pc'[w] = where /\ running' = running
            /\ \A v \in Workers : v # w => pc'[v] = pc[v]
          BY <1>0, <2>g, GoToStep
      <3> QED
          BY <1>0, <2>g, <3>1, BehindStays
    <2>p. /\ "connect" \in PCs \ {"idle"} /\ "send" \in PCs \ {"idle"}
          /\ "send unconnected" \in PCs \ {"idle"} /\ "header" \in PCs \ {"idle"}
          /\ "exists" \in PCs \ {"idle"} /\ "open" \in PCs \ {"idle"}
          /\ "read" \in PCs \ {"idle"} /\ "write" \in PCs \ {"idle"}
          /\ "free" \in PCs \ {"idle"} /\ "init" \in PCs \ {"idle"}
        BY DEF PCs
    <2>b. pc[w] # "idle" => running[w] \in Jobs /\ File(w) \in Files
        BY <1>0, Busy
    <2>1. CASE Start(w)
      <3>1. /\ queue # <<>> /\ running[w] = NoJob
            /\ running' = [running EXCEPT ![w] = Head(queue)] /\ queue' = Tail(queue)
            /\ UNCHANGED <<finished, closed, held, result, up, stopping, silent>>
            /\ pc' = [pc EXCEPT ![w] = "init"] /\ UNCHANGED output /\ UNCHANGED sockets
          BY <2>1 DEF Start, Pool!Start, around
      <3>2. Head(queue) \in Jobs /\ queue' \in Seq(Jobs)
          BY <1>0, <3>1 DEF ControlOK
      <3>3. /\ running' \in [Workers -> Jobs \cup {NoJob}] /\ running'[w] # NoJob
            /\ \A v \in Workers : v # w => running'[v] = running[v]
          BY <1>0, <3>1, <3>2, DownloadsConstants DEF ControlOK
      <3>4. /\ pc' \in [Workers -> PCs] /\ pc'[w] = "init"
            /\ \A v \in Workers : v # w => pc'[v] = pc[v]
          BY <1>0, <2>p, <3>1 DEF ControlOK
      <3>5. ControlOK'
          BY <1>0, <3>1, <3>2, <3>3, <3>4 DEF ControlOK, AroundOK
      <3>6. Behind'
          BY <1>0, <3>1, <3>3, <3>4, BehindStays
      <3> QED
          BY <1>0, <1>s, <3>1, <3>5, <3>6
    <2>2. CASE Prepare(w)
      <3>0. pc[w] = "init" /\ UNCHANGED output /\ UNCHANGED sockets
          BY <2>2 DEF Prepare, At
      <3>1. CASE Fail(w)
          BY <1>0, <1>s, <2>f, <3>0, <3>1
      <3>2. CASE /\ pc' = [pc EXCEPT ![w] = "connect"]
                 /\ held' = [held EXCEPT ![running[w]] = held[running[w]] \cup {"Http"}]
                 /\ UNCHANGED <<pool, result, up, around>>
        <4>1. held' \in [Jobs -> SUBSET Objects]
          <5>1. "Http" \in Objects /\ running[w] \in Jobs
              BY <2>b, <3>0 DEF Objects, Freed
          <5>2. held \in [Jobs -> SUBSET Objects]
              BY <1>0 DEF ControlOK
          <5>3. held[running[w]] \cup {"Http"} \in SUBSET Objects
              BY <5>1, <5>2
          <5> QED
              BY <3>2, <5>2, <5>3
        <4>2. /\ pc' \in [Workers -> PCs] /\ pc'[w] = "connect"
              /\ \A v \in Workers : v # w => pc'[v] = pc[v]
            BY <1>0, <2>p, <3>2 DEF ControlOK
        <4>3. UNCHANGED <<queue, running, finished, closed, result, up, stopping, silent>>
            BY <3>2 DEF pool, around
        <4>4. ControlOK'
            BY <1>0, <3>0, <4>1, <4>2, <4>3 DEF ControlOK, AroundOK
        <4>5. Behind'
            BY <1>0, <3>0, <4>2, <4>3, BehindStays
        <4> QED
            BY <1>0, <1>s, <3>0, <4>4, <4>5
      <3> QED
          BY <2>2, <3>1, <3>2 DEF Prepare
    <2>3. CASE Connect(w)
      <3>1. /\ pc[w] = "connect" /\ UNCHANGED output
            /\ sockets' = sockets \/ sockets' = sockets \cup {running[w]}
            /\ Fail(w) \/ GoTo(w, "send") \/ GoTo(w, "send unconnected")
          BY <2>3 DEF Connect, At
      <3>2. sockets' \subseteq Jobs
          BY <1>0, <2>b, <3>1
      <3>3. ControlOK' /\ Behind'
          BY <2>f, <2>g, <2>p, <3>1
      <3> QED
          BY <1>s, <3>1, <3>2, <3>3
    <2>4. CASE Send(w)
      <3>1. pc[w] = "send" /\ UNCHANGED output /\ UNCHANGED sockets /\ (Fail(w) \/ GoTo(w, "header"))
          BY <2>4 DEF Send, At
      <3> QED
          BY <1>0, <1>s, <2>f, <2>g, <2>p, <3>1
    <2>5. CASE ServiceDies(w)
      <3>1. /\ UNCHANGED <<queue, running, finished, closed, pc, held, result, stopping, silent>>
            /\ up' = FALSE /\ UNCHANGED output /\ UNCHANGED sockets
          BY <2>5 DEF ServiceDies, pool, around
      <3>2. ControlOK'
          BY <1>0, <3>1 DEF ControlOK, AroundOK
      <3>3. Behind'
          BY <1>0, <3>1 DEF Behind, output, File
      <3> QED
          BY <1>0, <1>s, <3>1, <3>2, <3>3
    <2>6. CASE ReadHeader(w)
      <3>1. pc[w] = "header" /\ UNCHANGED output /\ UNCHANGED sockets /\ (Fail(w) \/ GoTo(w, "exists"))
          BY <2>6 DEF ReadHeader, At
      <3> QED
          BY <1>0, <1>s, <2>f, <2>g, <2>p, <3>1
    <2>7. CASE CheckExists(w)
      <3>1. pc[w] = "exists" /\ UNCHANGED output /\ UNCHANGED sockets /\ (Fail(w) \/ GoTo(w, "open"))
          BY <2>7 DEF CheckExists, At
      <3> QED
          BY <1>0, <1>s, <2>f, <2>g, <2>p, <3>1
    <2>8. CASE OpenFile(w)
      <3>0. pc[w] = "open" /\ UNCHANGED sockets
          BY <2>8 DEF OpenFile, At
      <3>1. CASE Fail(w) /\ UNCHANGED output
          BY <1>0, <1>s, <2>f, <3>0, <3>1
      <3>2. CASE /\ present' = present \cup {File(w)} /\ opened' = opened \cup {running[w]}
                 /\ written' = [written EXCEPT ![w] = 0] /\ GoTo(w, "read") /\ UNCHANGED content
        <4>1. /\ ControlOK' /\ pc'[w] = "read" /\ running' = running
              /\ \A v \in Workers : v # w => pc'[v] = pc[v]
            BY <1>0, <2>p, <3>0, <3>2, GoToStep
        <4>2. OutputOK'
            BY <1>0, <2>b, <3>0, <3>2 DEF OutputOK
        <4>3. Behind'
          <5> SUFFICES ASSUME NEW v \in Workers, pc'[v] \in {"read", "write"}
                       PROVE  written'[v] <= Len(content[FileOf[running[v]]])
              BY <3>2, <4>1 DEF Behind, File
          <5>1. CASE v = w
            <6>1. written'[v] = 0 /\ content[FileOf[running[v]]] \in Seq(Buffers)
                BY <1>0, <2>b, <3>0, <3>2, <5>1 DEF OutputOK, File
            <6> QED
                BY <6>1
          <5>2. CASE v # w
              BY <1>0, <3>2, <4>1, <5>2 DEF Behind, File, OutputOK
          <5> QED
              BY <5>1, <5>2
        <4> QED
            BY <1>0, <3>0, <4>1, <4>2, <4>3, PartsNext
      <3> QED
          BY <2>8, <3>1, <3>2 DEF OpenFile
    <2>9. CASE Read(w)
      <3>0. pc[w] = "read" /\ UNCHANGED output /\ UNCHANGED sockets
          BY <2>9 DEF Read, At
      <3>1. CASE GoTo(w, "write")
          BY <1>0, <1>s, <2>g, <2>p, <3>0, <3>1
      <3>2. CASE /\ result' = [result EXCEPT ![running[w]] = "ok"]
                 /\ pc' = [pc EXCEPT ![w] = "free"] /\ UNCHANGED <<pool, held, up, around>>
        <4>1. result' \in [Jobs -> {"none", "ok", "failed"}]
            BY <1>0, <2>b, <3>0, <3>2 DEF ControlOK
        <4>2. /\ pc' \in [Workers -> PCs] /\ pc'[w] = "free"
              /\ \A v \in Workers : v # w => pc'[v] = pc[v]
            BY <1>0, <2>p, <3>2 DEF ControlOK
        <4>3. UNCHANGED <<queue, running, finished, closed, held, up, stopping, silent>>
            BY <3>2 DEF pool, around
        <4>4. ControlOK'
            BY <1>0, <3>0, <4>1, <4>2, <4>3 DEF ControlOK, AroundOK
        <4>5. Behind'
            BY <1>0, <3>0, <4>2, <4>3, BehindStays
        <4> QED
            BY <1>0, <1>s, <3>0, <4>4, <4>5
      <3> QED
          BY <2>9, <3>1, <3>2 DEF Read
    <2>10. CASE Write(w)
      <3>0. pc[w] = "write" /\ UNCHANGED sockets
          BY <2>10 DEF Write, At
      <3>1. CASE Fail(w) /\ UNCHANGED output
          BY <1>0, <1>s, <2>f, <3>0, <3>1
      <3>2. ASSUME NEW whole \in BOOLEAN,
                   content' = [content EXCEPT ![File(w)] = Put(content[File(w)], written[w] + 1,
                     [job |-> running[w], number |-> written[w] + 1, whole |-> whole])],
                   written' = [written EXCEPT ![w] = written[w] + 1],
                   GoTo(w, "read"), UNCHANGED <<present, opened>>
            PROVE  DownloadsInv'
        <4> DEFINE b == [job |-> running[w], number |-> written[w] + 1, whole |-> whole]
        <4>1. /\ ControlOK' /\ pc'[w] = "read" /\ running' = running
              /\ \A v \in Workers : v # w => pc'[v] = pc[v]
            BY <1>0, <2>p, <3>0, <3>2, GoToStep
        <4>2. /\ running[w] \in Jobs /\ File(w) \in Files /\ written[w] \in Nat
              /\ content[File(w)] \in Seq(Buffers) /\ written[w] <= Len(content[File(w)])
            BY <1>0, <2>b, <3>0 DEF OutputOK, Behind
        <4>3. b \in Buffers
            BY <4>2 DEF Buffers
        <4>4. /\ Put(content[File(w)], written[w] + 1, b) \in Seq(Buffers)
              /\ Len(Put(content[File(w)], written[w] + 1, b)) >= Len(content[File(w)])
              /\ Len(Put(content[File(w)], written[w] + 1, b)) >= written[w] + 1
          <5> HIDE DEF b
          <5>1. written[w] + 1 \in Nat /\ written[w] + 1 >= 1
                /\ written[w] + 1 <= Len(content[File(w)]) + 1
              BY <4>2
          <5> QED
              BY <4>2, <4>3, <5>1, PutType
        <4>5. /\ DOMAIN content' = Files
              /\ content'[File(w)] = Put(content[File(w)], written[w] + 1, b)
              /\ \A f \in Files : f # File(w) => content'[f] = content[f]
            BY <1>0, <3>2, <4>2 DEF OutputOK
        <4> HIDE DEF b
        <4>6. \A f \in Files : content'[f] \in Seq(Buffers) /\ Len(content'[f]) >= Len(content[f])
          <5> TAKE f \in Files
          <5>1. CASE f = File(w)
              BY <4>4, <4>5, <5>1
          <5>2. CASE f # File(w)
            <6>1. content[f] \in Seq(Buffers) /\ content'[f] = content[f]
                BY <1>0, <4>5, <5>2 DEF OutputOK
            <6>2. Len(content[f]) \in Nat
                BY <6>1
            <6> QED
                BY <6>1, <6>2
          <5> QED
              BY <5>1, <5>2
        <4>7. OutputOK'
            BY <1>0, <3>2, <4>5, <4>6 DEF OutputOK
        <4>8. Behind'
          <5> SUFFICES ASSUME NEW v \in Workers, pc'[v] \in {"read", "write"}
                       PROVE  written'[v] <= Len(content'[FileOf[running[v]]])
              BY <4>1 DEF Behind, File
          <5>1. CASE v = w
              BY <1>0, <3>2, <4>4, <4>5, <5>1 DEF File, OutputOK
          <5>2. CASE v # w
            <6>1. /\ written'[v] = written[v] /\ pc[v] = pc'[v]
                  /\ written[v] <= Len(content[FileOf[running[v]]])
                BY <1>0, <3>2, <4>1, <5>2 DEF OutputOK, Behind, File
            <6>2. FileOf[running[v]] \in Files
              <7>1. pc[v] # "idle"
                  BY <6>1
              <7> QED
                  BY <1>0, <7>1, Busy DEF File
            <6>3. /\ Len(content[FileOf[running[v]]]) \in Nat
                  /\ Len(content'[FileOf[running[v]]]) \in Nat
                  /\ Len(content'[FileOf[running[v]]]) >= Len(content[FileOf[running[v]]])
                BY <1>0, <4>6, <6>2 DEF OutputOK
            <6>4. written[v] \in Nat
                BY <1>0 DEF OutputOK
            <6> QED
                BY <6>1, <6>3, <6>4
          <5> QED
              BY <5>1, <5>2
        <4> QED
            BY <1>0, <3>0, <4>1, <4>7, <4>8, PartsNext
      <3> QED
          BY <2>10, <3>1, <3>2 DEF Write
    <2>11. CASE Free(w)
      <3>0. /\ pc[w] = "free" /\ sockets' = sockets \ {running[w]}
            /\ held' = [held EXCEPT ![running[w]] = held[running[w]] \ Freed]
            /\ pc' = [pc EXCEPT ![w] = "idle"] /\ Pool!Finish(w)
            /\ UNCHANGED output /\ UNCHANGED <<result, up, stopping, silent>>
          BY <2>11 DEF Free, At, around
      <3>1. /\ queue' \in Seq(Jobs) /\ running' \in [Workers -> Jobs \cup {NoJob}]
            /\ finished' \subseteq Jobs /\ closed' \in BOOLEAN /\ running'[w] = NoJob
            /\ \A v \in Workers : v # w => running'[v] = running[v]
          BY <1>0, <2>b, <3>0 DEF Pool!Finish, ControlOK
      <3>2. /\ pc' \in [Workers -> PCs] /\ pc'[w] = "idle"
            /\ \A v \in Workers : v # w => pc'[v] = pc[v]
          BY <1>0, <3>0 DEF ControlOK, PCs
      <3>5. held' \in [Jobs -> SUBSET Objects]
        <4>1. held \in [Jobs -> SUBSET Objects] /\ running[w] \in Jobs
            BY <1>0, <2>b, <3>0 DEF ControlOK
        <4>2. held[running[w]] \ Freed \in SUBSET Objects
            BY <4>1
        <4> QED
            BY <3>0, <4>1, <4>2
      <3>3. ControlOK'
          BY <1>0, <3>0, <3>1, <3>2, <3>5 DEF ControlOK, AroundOK
      <3>4. Behind'
          BY <1>0, <3>0, <3>1, <3>2, BehindStays
      <3> QED
          BY <1>0, <1>s, <3>0, <3>3, <3>4
    <2> QED
        BY <1>3, <2>1, <2>2, <2>3, <2>4, <2>5, <2>6, <2>7, <2>8, <2>9, <2>10, <2>11 DEF Work, Run
  <1>4. CASE UNCHANGED vars
    <2>1. /\ UNCHANGED <<queue, running, finished, closed, pc, held, result, up, stopping, silent>>
          /\ UNCHANGED output /\ UNCHANGED sockets
        BY <1>4 DEF vars, pool, around
    <2>2. ControlOK'
        BY <1>0, <2>1 DEF ControlOK, AroundOK
    <2>3. Behind'
        BY <1>0, <2>1 DEF Behind, output, File
    <2> QED
        BY <1>0, <1>s, <2>1, <2>2, <2>3
  <1> QED
      BY <1>1, <1>2, <1>3, <1>4 DEF Next

(* The invariant holds in every reachable state. *)
THEOREM DownloadsInvariant == Spec => []DownloadsInv
  BY InvInit, InvNext, PTL DEF Spec

(* Every variable keeps its type, for any number of jobs, workers, files.  *)
THEOREM TypeCorrect == Spec => []TypeOK
  <1>1. DownloadsInv => TypeOK
      BY DEF DownloadsInv
  <1> QED
      BY <1>1, DownloadsInvariant, PTL

(* What a step of one worker can do to the places of all.                  *)
LEMMA WorkerMoves ==
  ASSUME DownloadsInv, NEW w \in Workers, Work(w)
  PROVE  \A v \in Workers : v # w => pc'[v] = pc[v] /\ running'[v] = running[v]
  <1>0. /\ pc \in [Workers -> PCs] /\ running \in [Workers -> Jobs \cup {NoJob}]
      BY DEF DownloadsInv, TypeOK
  <1>1. ASSUME Fail(w) PROVE \A v \in Workers : v # w => pc'[v] = pc[v] /\ running'[v] = running[v]
      BY <1>0, <1>1 DEF Fail, Pool!Finish
  <1>2. ASSUME NEW where, GoTo(w, where)
        PROVE \A v \in Workers : v # w => pc'[v] = pc[v] /\ running'[v] = running[v]
      BY <1>0, <1>2 DEF GoTo, pool
  <1>3. CASE Start(w)
      BY <1>0, <1>3 DEF Start, Pool!Start
  <1>4. CASE Prepare(w) \/ Connect(w) \/ Send(w) \/ ReadHeader(w)
    <2>1. CASE pc' = [pc EXCEPT ![w] = "connect"] /\ UNCHANGED pool
        BY <1>0, <2>1 DEF pool
    <2> QED
        BY <1>1, <1>2, <1>4, <2>1 DEF Prepare, Connect, Send, ReadHeader
  <1>5. CASE CheckExists(w) \/ OpenFile(w)
      BY <1>1, <1>2, <1>5 DEF CheckExists, OpenFile
  <1>6. CASE ServiceDies(w)
      BY <1>6 DEF ServiceDies, pool
  <1>7. CASE Read(w)
    <2>1. CASE GoTo(w, "write")
        BY <1>2, <2>1
    <2>2. CASE pc' = [pc EXCEPT ![w] = "free"] /\ UNCHANGED pool
        BY <1>0, <2>2 DEF pool
    <2> QED
        BY <1>7, <2>1, <2>2 DEF Read
  <1>8. CASE Write(w)
      BY <1>1, <1>2, <1>8 DEF Write
  <1>9. CASE Free(w)
      BY <1>0, <1>9 DEF Free, Pool!Finish
  <1> QED
      BY <1>3, <1>4, <1>5, <1>6, <1>7, <1>8, <1>9 DEF Work, Run

(* A worker gets behind its test for the file only with a file that is not *)
(* there, and then goes on with the same job; what it finds there stays.   *)
LEMMA WorkerEnters ==
  ASSUME DownloadsInv, NEW w \in Workers, Work(w)
  PROVE  /\ pc'[w] \in {"open", "read", "write"} =>
              /\ running'[w] = running[w]
              /\ \/ pc[w] = "exists" /\ File(w) \notin present /\ pc'[w] = "open"
                 \/ pc[w] = "open" /\ pc'[w] = "read"
                 \/ pc[w] \in {"read", "write"} /\ pc'[w] \in {"read", "write"}
         /\ present \subseteq present'
         /\ \A f \in Files : content'[f] # content[f] => pc[w] = "write" /\ File(w) = f
  <1>0. /\ pc \in [Workers -> PCs] /\ running \in [Workers -> Jobs \cup {NoJob}]
        /\ DOMAIN content = Files
      BY DEF DownloadsInv, TypeOK
  <1>1. ASSUME Fail(w) PROVE pc'[w] = "idle"
      BY <1>0, <1>1 DEF Fail
  <1>2. ASSUME NEW where, GoTo(w, where) PROVE pc'[w] = where /\ running' = running
      BY <1>0, <1>2 DEF GoTo, pool
  <1>3. ASSUME UNCHANGED output PROVE UNCHANGED content /\ UNCHANGED present
      BY <1>3 DEF output
  <1>4. CASE Start(w)
      BY <1>0, <1>3, <1>4 DEF Start
  <1>5. CASE Prepare(w) \/ Connect(w) \/ Send(w) \/ ReadHeader(w)
    <2>1. /\ UNCHANGED output
          /\ \/ Fail(w) \/ pc' = [pc EXCEPT ![w] = "connect"]
             \/ \E where \in {"send", "send unconnected", "header", "exists"} : GoTo(w, where)
        BY <1>5 DEF Prepare, Connect, Send, ReadHeader
    <2>2. pc'[w] \notin {"open", "read", "write"}
        BY <1>0, <1>1, <1>2, <2>1
    <2> QED
        BY <1>3, <2>1, <2>2
  <1>6. CASE ServiceDies(w)
      BY <1>3, <1>6 DEF ServiceDies, At
  <1>7. CASE CheckExists(w)
      BY <1>1, <1>2, <1>3, <1>7 DEF CheckExists, At
  <1>8. CASE OpenFile(w)
    <2>1. CASE Fail(w) /\ UNCHANGED output
        BY <1>1, <1>3, <2>1
    <2>2. CASE GoTo(w, "read") /\ UNCHANGED content /\ present' = present \cup {File(w)}
        BY <1>2, <1>8, <2>2 DEF OpenFile, At
    <2> QED
        BY <1>8, <2>1, <2>2 DEF OpenFile
  <1>9. CASE Read(w)
    <2>1. CASE GoTo(w, "write")
        BY <1>2, <1>3, <1>9, <2>1 DEF Read, At
    <2>2. CASE pc' = [pc EXCEPT ![w] = "free"]
        BY <1>0, <1>3, <1>9, <2>2 DEF Read
    <2> QED
        BY <1>9, <2>1, <2>2 DEF Read
  <1>10. CASE Write(w)
    <2>1. CASE Fail(w) /\ UNCHANGED output
        BY <1>1, <1>3, <2>1
    <2>2. CASE GoTo(w, "read") /\ UNCHANGED present /\ \A f \in Files : f # File(w) => content'[f] = content[f]
        BY <1>2, <1>10, <2>2 DEF Write, At
    <2> QED
        BY <1>0, <1>10, <2>1, <2>2 DEF Write
  <1>11. CASE Free(w)
      BY <1>0, <1>3, <1>11 DEF Free
  <1> QED
      BY <1>4, <1>5, <1>6, <1>7, <1>8, <1>9, <1>10, <1>11 DEF Work, Run

(* A file that is there while nobody is about to write it is never touched *)
(* again, for any number of workers and of jobs that ask for it.           *)
THEOREM SettledFilesStay == Spec => SettledStays
  <1>1. ASSUME DownloadsInv, [Next]_vars
        PROVE  [\A f \in Files : Settled(f) => Settled(f)' /\ content'[f] = content[f]]_vars
    <2> SUFFICES ASSUME NEW f \in Files, Settled(f)
                 PROVE  Settled(f)' /\ content'[f] = content[f]
        OBVIOUS
    <2>1. ASSUME NEW w \in Workers, Work(w) PROVE Settled(f)' /\ content'[f] = content[f]
      <3>1. content'[f] = content[f] /\ f \in present'
          BY <1>1, <2>1, WorkerEnters DEF Settled
      <3>2. ASSUME NEW v \in Workers, pc'[v] \in {"open", "read", "write"}
            PROVE  FileOf[running'[v]] # f
          BY <1>1, <2>1, <3>2, WorkerMoves, WorkerEnters DEF Settled, File
      <3> QED
          BY <3>1, <3>2 DEF Settled, File
    <2>2. ASSUME UNCHANGED <<pc, running, present, content>>
          PROVE  Settled(f)' /\ content'[f] = content[f]
        BY <2>2 DEF Settled, File
    <2>3. ASSUME NEW j \in Jobs, Submit(j) PROVE UNCHANGED <<pc, running, present, content>>
        BY <2>3 DEF Submit, Pool!Submit, output
    <2>4. ASSUME \/ Close \/ SetShutdown \/ \E w \in Workers : Stall(w)
          PROVE  UNCHANGED <<pc, running, present, content>>
        BY <2>4 DEF Close, Pool!Close, SetShutdown, Stall, pool, output
    <2>5. ASSUME UNCHANGED vars PROVE UNCHANGED <<pc, running, present, content>>
        BY <2>5 DEF vars, pool, output
    <2> QED
        BY <1>1, <2>1, <2>2, <2>3, <2>4, <2>5 DEF Next
  <1> QED
      BY <1>1, DownloadsInvariant, PTL DEF Spec, SettledStays

(* A job opens its file when its worker leaves the place before the open.  *)
LEMMA WorkerOpens ==
  ASSUME DownloadsInv, NEW w \in Workers, Work(w)
  PROVE  \/ opened' = opened
         \/ /\ pc[w] = "open" /\ pc'[w] = "read"
            /\ opened' = opened \cup {running[w]}
            /\ File(w) \in present'
  <1>0. pc \in [Workers -> PCs]
      BY DEF DownloadsInv, TypeOK
  <1>1. ASSUME UNCHANGED output PROVE opened' = opened
      BY <1>1 DEF output
  <1>2. CASE Start(w) \/ Prepare(w) \/ Connect(w) \/ Send(w) \/ ServiceDies(w)
      BY <1>1, <1>2 DEF Start, Prepare, Connect, Send, ServiceDies
  <1>3. CASE ReadHeader(w) \/ CheckExists(w) \/ Read(w) \/ Free(w)
      BY <1>1, <1>3 DEF ReadHeader, CheckExists, Read, Free
  <1>4. CASE Write(w)
      BY <1>1, <1>4 DEF Write
  <1>5. CASE OpenFile(w)
    <2>1. CASE UNCHANGED output
        BY <1>1, <2>1
    <2>2. CASE /\ present' = present \cup {File(w)}
               /\ opened' = opened \cup {running[w]}
               /\ GoTo(w, "read")
      <3>1. pc[w] = "open" /\ pc'[w] = "read"
          BY <1>0, <1>5, <2>2 DEF OpenFile, At, GoTo
      <3> QED
          BY <2>2, <3>1
    <2> QED
        BY <1>5, <2>1, <2>2 DEF OpenFile
  <1> QED
      BY <1>2, <1>3, <1>4, <1>5 DEF Work, Run

(* At the start nobody has opened a file. *)
LEMMA WritersInit == Init => WritersInv
  <1> SUFFICES ASSUME Init, NEW f \in Files
               PROVE  /\ IsFiniteSet(Writers(f))
                      /\ f \notin present => Writers(f) = {}
                      /\ Cardinality(Writers(f)) + Cardinality(AtOpen(f)) <= Cardinality(Workers)
      BY DEF WritersInv
  <1>1. Writers(f) = {} /\ AtOpen(f) = {}
      BY DEF Init, Writers, AtOpen
  <1>2. Cardinality(Workers) \in Nat
      BY DownloadsConstants, FS_CardinalityType
  <1> QED
      BY <1>1, <1>2, FS_EmptySet

(* A worker that opens a file is one less before the open; one that gets   *)
(* there does so only while no job has opened the file.                    *)
LEMMA WritersWork ==
  ASSUME DownloadsInv, WritersInv, NEW w \in Workers, Work(w)
  PROVE  WritersInv'
  <1> SUFFICES ASSUME NEW f \in Files
               PROVE  /\ IsFiniteSet(Writers(f)')
                      /\ f \notin present' => Writers(f)' = {}
                      /\ Cardinality(Writers(f)') + Cardinality(AtOpen(f)') <= Cardinality(Workers)
      BY DEF WritersInv
  <1>0. /\ IsFiniteSet(Writers(f)) /\ (f \notin present => Writers(f) = {})
        /\ Cardinality(Writers(f)) + Cardinality(AtOpen(f)) <= Cardinality(Workers)
        /\ present \subseteq present'
      BY WorkerEnters DEF WritersInv
  <1>1. /\ IsFiniteSet(AtOpen(f)) /\ IsFiniteSet(AtOpen(f)') /\ IsFiniteSet(Workers)
        /\ Cardinality(AtOpen(f)') <= Cardinality(Workers)
    <2>1. AtOpen(f) \subseteq Workers /\ AtOpen(f)' \subseteq Workers
        BY DEF AtOpen
    <2> QED
        BY <2>1, DownloadsConstants, FS_Subset
  <1>2. /\ Cardinality(AtOpen(f)) \in Nat /\ Cardinality(AtOpen(f)') \in Nat
        /\ Cardinality(Workers) \in Nat /\ Cardinality(Writers(f)) \in Nat
      BY <1>0, <1>1, FS_CardinalityType
  <1>3. ASSUME NEW v \in AtOpen(f)', v \notin AtOpen(f)
        PROVE  v = w /\ f \notin present
      BY <1>3, WorkerMoves, WorkerEnters DEF AtOpen, File
  <1>4. CASE opened' = opened
    <2>1. Writers(f)' = Writers(f)
        BY <1>4 DEF Writers
    <2>2. CASE AtOpen(f)' \subseteq AtOpen(f)
      <3>1. Cardinality(AtOpen(f)') <= Cardinality(AtOpen(f))
          BY <1>1, <2>2, FS_Subset
      <3> QED
          BY <1>0, <1>2, <2>1, <3>1
    <2>3. CASE ~(AtOpen(f)' \subseteq AtOpen(f))
      <3>1. Writers(f) = {}
          BY <1>0, <1>3, <2>3
      <3>2. Cardinality(Writers(f)') = 0
          BY <2>1, <3>1, FS_EmptySet
      <3> QED
          BY <1>0, <1>1, <1>2, <2>1, <3>1, <3>2
    <2> QED
        BY <2>2, <2>3
  <1>5. CASE /\ pc[w] = "open" /\ pc'[w] = "read"
             /\ opened' = opened \cup {running[w]}
             /\ File(w) \in present'
    <2>1. AtOpen(f)' \subseteq AtOpen(f) \ {w}
      <3>1. w \notin AtOpen(f)'
          BY <1>5 DEF AtOpen
      <3> QED
          BY <1>3, <3>1
    <2>2. CASE File(w) # f
      <3>1. Writers(f)' = Writers(f)
          BY <1>5, <2>2 DEF Writers, File
      <3>2. Cardinality(AtOpen(f)') <= Cardinality(AtOpen(f))
          BY <1>1, <2>1, FS_Subset
      <3> QED
          BY <1>0, <1>2, <3>1, <3>2
    <2>3. CASE File(w) = f
      <3>1. Writers(f)' = Writers(f) \cup {running[w]}
          BY <1>5, <2>3 DEF Writers, File
      <3>2. /\ IsFiniteSet(Writers(f)')
            /\ Cardinality(Writers(f)') \in Nat
            /\ Cardinality(Writers(f)') <= Cardinality(Writers(f)) + 1
        <4> DEFINE S == Writers(f)
        <4>1. IsFiniteSet(S) /\ Cardinality(S) \in Nat
            BY <1>0, <1>2
        <4> HIDE DEF S
        <4>2. /\ IsFiniteSet(S \cup {running[w]})
              /\ Cardinality(S \cup {running[w]}) \in {Cardinality(S), Cardinality(S) + 1}
            BY <4>1, FS_AddElement
        <4>3. /\ Cardinality(S \cup {running[w]}) \in Nat
              /\ Cardinality(S \cup {running[w]}) <= Cardinality(S) + 1
            BY <4>1, <4>2
        <4> QED
            BY <3>1, <4>2, <4>3 DEF S
      <3>3. w \in AtOpen(f)
          BY <1>5, <2>3 DEF AtOpen
      <3>4. Cardinality(AtOpen(f) \ {w}) = Cardinality(AtOpen(f)) - 1
          BY <1>1, <3>3, FS_RemoveElement
      <3>5. Cardinality(AtOpen(f)') <= Cardinality(AtOpen(f) \ {w})
        <4>1. IsFiniteSet(AtOpen(f) \ {w})
            BY <1>1, FS_RemoveElement
        <4> QED
            BY <2>1, <4>1, FS_Subset
      <3> QED
          BY <1>0, <1>2, <1>5, <2>3, <3>2, <3>4, <3>5
    <2> QED
        BY <2>2, <2>3
  <1> QED
      BY <1>4, <1>5, WorkerOpens

(* Never do more jobs write one file than there are workers.               *)
THEOREM WritersAreBounded == Spec => []WritersBounded
  <1>1. DownloadsInv /\ WritersInv /\ [Next]_vars => WritersInv'
    <2> SUFFICES ASSUME DownloadsInv, WritersInv, [Next]_vars PROVE WritersInv'
        OBVIOUS
    <2>1. ASSUME UNCHANGED <<pc, running, present, opened>> PROVE WritersInv'
        BY <2>1 DEF WritersInv, Writers, AtOpen, File
    <2>2. ASSUME NEW j \in Jobs, Submit(j) PROVE UNCHANGED <<pc, running, present, opened>>
        BY <2>2 DEF Submit, Pool!Submit, output
    <2>3. ASSUME \/ Close \/ SetShutdown \/ \E w \in Workers : Stall(w)
          PROVE  UNCHANGED <<pc, running, present, opened>>
        BY <2>3 DEF Close, Pool!Close, SetShutdown, Stall, pool, output
    <2>4. ASSUME UNCHANGED vars PROVE UNCHANGED <<pc, running, present, opened>>
        BY <2>4 DEF vars, pool, output
    <2> QED
        BY <2>1, <2>2, <2>3, <2>4, WritersWork DEF Next
  <1>2. WritersInv => WritersBounded
    <2> SUFFICES ASSUME WritersInv, NEW f \in Files
                 PROVE  Cardinality(Writers(f)) <= Cardinality(Workers)
        BY DEF WritersBounded
    <2>1. AtOpen(f) \subseteq Workers /\ IsFiniteSet(Workers)
        BY DownloadsConstants DEF AtOpen
    <2>2. IsFiniteSet(AtOpen(f)) /\ IsFiniteSet(Writers(f))
        BY <2>1, FS_Subset DEF WritersInv
    <2>3. /\ Cardinality(AtOpen(f)) \in Nat /\ Cardinality(Writers(f)) \in Nat
          /\ Cardinality(Workers) \in Nat
        BY <2>1, <2>2, FS_CardinalityType
    <2> QED
        BY <2>3 DEF WritersInv
  <1> QED
      BY <1>1, <1>2, WritersInit, DownloadsInvariant, PTL DEF Spec

(* The kinds of steps of download_worker: it returns early, ...            *)
Returns(w) ==
  /\ pc[w] \notin {"idle", "free"} /\ Fail(w) /\ UNCHANGED output
  /\ sockets' \subseteq sockets \cup {running[w]}

(* ... makes its Http, ...                                                 *)
Prepares(w) ==
  /\ pc[w] = "init" /\ pc' = [pc EXCEPT ![w] = "connect"]
  /\ held' = [held EXCEPT ![running[w]] = held[running[w]] \cup {"Http"}]
  /\ UNCHANGED <<pool, result, up, around>> /\ UNCHANGED <<output, sockets>>

(* ... goes on without the file, or towards it, ...                        *)
GoesOn(w) ==
  /\ pc[w] \in {"connect", "send", "header"}
  /\ \E where \in {"send", "send unconnected", "header", "exists"} : GoTo(w, where)
  /\ UNCHANGED output
  /\ sockets' \subseteq sockets \cup {running[w]}

(* ... finds no file of the name, opens it, ...                            *)
FindsNone(w) ==
  pc[w] = "exists" /\ File(w) \notin present /\ GoTo(w, "open") /\ UNCHANGED <<output, sockets>>

Opens(w) ==
  /\ pc[w] = "open" /\ GoTo(w, "read")
  /\ present' = present \cup {File(w)} /\ opened' = opened \cup {running[w]}
  /\ written' = [written EXCEPT ![w] = 0] /\ UNCHANGED <<content, sockets>>

(* ... reads a buffer or the last one, ...                                 *)
ReadsMore(w) ==
  /\ pc[w] = "read" /\ written[w] < BodyLen[running[w]]
  /\ GoTo(w, "write") /\ UNCHANGED <<output, sockets>>

ReadsEnd(w) ==
  /\ pc[w] = "read" /\ pc' = [pc EXCEPT ![w] = "free"]
  /\ result' = [result EXCEPT ![running[w]] = "ok"]
  /\ UNCHANGED <<pool, held, up, around>> /\ UNCHANGED <<output, sockets>>

(* ... or writes it.                                                       *)
Writes(w) ==
  /\ pc[w] = "write" /\ GoTo(w, "read")
  /\ \E whole \in BOOLEAN :
       content' = [content EXCEPT ![File(w)] =
         Put(content[File(w)], written[w] + 1,
             [job |-> running[w], number |-> written[w] + 1, whole |-> whole])]
  /\ written' = [written EXCEPT ![w] = written[w] + 1]
  /\ UNCHANGED <<present, opened, sockets>>

(* There are no other kinds.                                               *)
LEMMA Kinds ==
  ASSUME NEW w \in Workers, Work(w)
  PROVE  \/ Start(w) \/ Returns(w) \/ Prepares(w) \/ GoesOn(w) \/ FindsNone(w) \/ Opens(w)
         \/ ReadsMore(w) \/ ReadsEnd(w) \/ Writes(w) \/ Free(w) \/ ServiceDies(w)
  <1>1. CASE Prepare(w)
      BY <1>1 DEF Prepare, At, Returns, Prepares
  <1>2. CASE Connect(w)
    <2>1. pc[w] = "connect" /\ UNCHANGED output /\ sockets' \subseteq sockets \cup {running[w]}
        BY <1>2 DEF Connect, At
    <2>2. Fail(w) \/ GoTo(w, "send") \/ GoTo(w, "send unconnected")
        BY <1>2 DEF Connect
    <2> QED
        BY <2>1, <2>2 DEF Returns, GoesOn
  <1>3. CASE Send(w)
      BY <1>3 DEF Send, At, Returns, GoesOn
  <1>4. CASE ReadHeader(w)
      BY <1>4 DEF ReadHeader, At, Returns, GoesOn
  <1>5. CASE CheckExists(w)
      BY <1>5 DEF CheckExists, At, Returns, FindsNone
  <1>6. CASE OpenFile(w)
      BY <1>6 DEF OpenFile, At, Returns, Opens
  <1>7. CASE Read(w)
      BY <1>7 DEF Read, At, ReadsMore, ReadsEnd
  <1>8. CASE Write(w)
      BY <1>8 DEF Write, At, Returns, Writes
  <1> QED
      BY <1>1, <1>2, <1>3, <1>4, <1>5, <1>6, <1>7, <1>8 DEF Work, Run

-----------------------------------------------------------------------------
(* No job is anywhere twice, before and after each step.                   *)
LEMMA OnceInit == Init => OnceInv
  BY DEF Init, Pool!Init, OnceInv, SuccessReleases

LEMMA OnceNext == DownloadsInv /\ OnceInv /\ HeldInv /\ [Next]_vars => OnceInv'
  <1> SUFFICES ASSUME DownloadsInv, OnceInv, HeldInv, [Next]_vars PROVE OnceInv'
      OBVIOUS
  <1>0. /\ queue \in Seq(Jobs) /\ running \in [Workers -> Jobs \cup {NoJob}]
        /\ finished \subseteq Jobs /\ NoJob \notin Jobs
        /\ result \in [Jobs -> {"none", "ok", "failed"}]
        /\ sockets \subseteq Jobs /\ held \in [Jobs -> SUBSET Objects]
        /\ \A w \in Workers : pc[w] # "idle" => running[w] \in Jobs
      BY DownloadsConstants DEF DownloadsInv, TypeOK
  <1>1. ASSUME UNCHANGED queue, UNCHANGED running, UNCHANGED finished, NEW w \in Workers,
               running[w] \in Jobs,
               \A j \in Jobs : j # running[w] => held'[j] = held[j],
               sockets' \subseteq sockets \cup {running[w]},
               \A j \in Jobs : j # running[w] => result'[j] = result[j]
        PROVE  OnceInv'
      BY <1>0, <1>1 DEF OnceInv, SuccessReleases
  <1>2. ASSUME NEW w \in Workers, running[w] \in Jobs, Pool!Finish(w),
               sockets' \subseteq sockets \cup {running[w]},
               \A j \in Jobs : j # running[w] => held'[j] = held[j],
               \A j \in Jobs : j # running[w] => result'[j] = result[j],
               result'[running[w]] = "ok" =>
                 running[w] \notin sockets' /\ held'[running[w]] = Unfreed
        PROVE  OnceInv'
    <2>1. /\ finished' = finished \cup {running[w]} /\ queue' = queue
          /\ running'[w] = NoJob
          /\ \A v \in Workers : v # w => running'[v] = running[v]
        BY <1>0, <1>2 DEF Pool!Finish
    <2>2. SuccessReleases'
        BY <1>0, <1>2, <2>1 DEF OnceInv, SuccessReleases
    <2>3. \A i \in 1..Len(queue) : queue[i] \in Jobs
        BY <1>0
    <2> QED
        BY <1>0, <1>2, <2>1, <2>2, <2>3 DEF OnceInv
  <1>3. ASSUME NEW j \in Jobs, Submit(j) PROVE OnceInv'
    <2>1. /\ queue' = Append(queue, j) /\ running' = running /\ finished' = finished
          /\ sockets' = sockets /\ result' = result
          /\ \A k \in Jobs : k # j => held'[k] = held[k]
        BY <1>0, <1>3 DEF Submit, Pool!Submit
    <2>2. /\ j \notin finished
          /\ \A i \in 1..Len(queue) : queue[i] # j
          /\ \A w \in Workers : running[w] # j
        BY <1>0, <1>3, DownloadsConstants DEF Submit, Pool!Submit, Pool!Queued, Pool!Running
    <2>3. /\ Len(queue') = Len(queue) + 1
          /\ \A i \in 1..Len(queue') : queue'[i] = IF i <= Len(queue) THEN queue[i] ELSE j
        BY <1>0, <2>1
    <2>4. Len(queue) \in Nat
        BY <1>0
    <2>5. \A i, k \in 1..Len(queue') : queue'[i] = queue'[k] => i = k
        BY <2>2, <2>3, <2>4 DEF OnceInv
    <2>6. \A i \in 1..Len(queue') : queue'[i] \notin finished /\ \A w \in Workers : running[w] # queue'[i]
        BY <2>2, <2>3, <2>4 DEF OnceInv
    <2>7. SuccessReleases'
        BY <1>0, <2>1, <2>2 DEF OnceInv, SuccessReleases
    <2> QED
        BY <2>1, <2>5, <2>6, <2>7 DEF OnceInv
  <1>4. ASSUME NEW w \in Workers, Start(w) PROVE OnceInv'
    <2>1. /\ queue # <<>> /\ running[w] = NoJob
          /\ running' = [running EXCEPT ![w] = Head(queue)] /\ queue' = Tail(queue)
          /\ finished' = finished /\ sockets' = sockets /\ held' = held /\ result' = result
        BY <1>4 DEF Start, Pool!Start
    <2>2. /\ Len(queue) \in Nat /\ Len(queue) >= 1 /\ Head(queue) = queue[1]
          /\ Len(queue') = Len(queue) - 1
          /\ \A i \in 1..Len(queue') : queue'[i] = queue[i + 1]
        BY <1>0, <2>1
    <2>3. /\ running'[w] = queue[1] /\ queue[1] \in Jobs
          /\ \A v \in Workers : v # w => running'[v] = running[v]
        BY <1>0, <2>1, <2>2
    <2>4. \A i, k \in 1..Len(queue') : queue'[i] = queue'[k] => i = k
      <3> SUFFICES ASSUME NEW i \in 1..Len(queue'), NEW k \in 1..Len(queue'),
                          queue[i + 1] = queue[k + 1]
                   PROVE  i = k
          BY <2>2
      <3>1. i + 1 \in 1..Len(queue) /\ k + 1 \in 1..Len(queue) /\ i \in Nat /\ k \in Nat
          BY <2>2
      <3>2. i + 1 = k + 1
          BY <3>1 DEF OnceInv
      <3> QED
          BY <3>1, <3>2
    <2>5. \A i \in 1..Len(queue') : /\ queue'[i] \notin finished /\ queue'[i] # queue[1]
                                    /\ \A v \in Workers : running[v] # queue'[i]
      <3> SUFFICES ASSUME NEW i \in 1..Len(queue')
                   PROVE  /\ queue[i + 1] \notin finished /\ queue[i + 1] # queue[1]
                          /\ \A v \in Workers : running[v] # queue[i + 1]
          BY <2>2
      <3>1. i + 1 \in 1..Len(queue) /\ 1 \in 1..Len(queue) /\ i + 1 # 1
          BY <2>2
      <3> QED
          BY <3>1 DEF OnceInv
    <2>6. queue[1] \notin finished /\ \A v \in Workers : running[v] # queue[1]
        BY <2>2 DEF OnceInv
    <2>7. SuccessReleases'
        BY <2>1 DEF OnceInv, SuccessReleases
    <2> QED
        BY <2>1, <2>3, <2>4, <2>5, <2>6, <2>7 DEF OnceInv
  <1>5. ASSUME NEW w \in Workers, Work(w) PROVE OnceInv'
    <2>1. CASE Returns(w)
        BY <1>0, <1>2, <2>1 DEF Returns, Fail
    <2>2. CASE GoesOn(w) \/ FindsNone(w) \/ Opens(w) \/ ReadsMore(w) \/ Writes(w)
        BY <1>0, <1>1, <2>2 DEF GoesOn, FindsNone, Opens, ReadsMore, Writes, GoTo, pool
    <2>6. CASE Prepares(w)
        BY <1>0, <1>1, <2>6 DEF Prepares, pool
    <2>3. CASE ReadsEnd(w)
        BY <1>0, <1>1, <2>3 DEF ReadsEnd, pool
    <2>4. CASE Free(w)
      <3>1. /\ pc[w] = "free" /\ running[w] \in Jobs /\ Pool!Finish(w)
            /\ sockets' = sockets \ {running[w]} /\ result' = result
            /\ held' = [held EXCEPT ![running[w]] = held[running[w]] \ Freed]
          BY <1>0, <2>4 DEF Free, At
      <3>2. held[running[w]] = Objects
          BY <3>1 DEF HeldInv
      <3>3. held'[running[w]] = Unfreed
          BY <1>0, <3>1, <3>2 DEF Objects, FromDownload, Freed, Unfreed
      <3>4. \A j \in Jobs : j # running[w] => held'[j] = held[j]
          BY <1>0, <3>1
      <3> QED
          BY <1>2, <3>1, <3>3, <3>4
    <2>5. CASE ServiceDies(w)
        BY <2>5 DEF ServiceDies, pool, OnceInv, SuccessReleases
    <2> QED
        BY <1>4, <1>5, <2>1, <2>2, <2>3, <2>4, <2>5, <2>6, Kinds
  <1>6. CASE Close \/ SetShutdown \/ \E w \in Workers : Stall(w)
      BY <1>6 DEF Close, Pool!Close, SetShutdown, Stall, pool, OnceInv, SuccessReleases
  <1>7. CASE UNCHANGED vars
      BY <1>7 DEF vars, pool, OnceInv, SuccessReleases
  <1> QED
      BY <1>3, <1>5, <1>6, <1>7 DEF Next

(* What is allocated for a job, before and after each step.                *)
LEMMA HeldInit == Init => HeldInv
  BY DEF Init, Pool!Init, HeldInv

LEMMA HeldNext == DownloadsInv /\ OnceInv /\ HeldInv /\ [Next]_vars => HeldInv'
  <1> SUFFICES ASSUME DownloadsInv, OnceInv, HeldInv, [Next]_vars PROVE HeldInv'
      OBVIOUS
  <1>0. /\ queue \in Seq(Jobs) /\ running \in [Workers -> Jobs \cup {NoJob}]
        /\ pc \in [Workers -> PCs] /\ NoJob \notin Jobs
        /\ held \in [Jobs -> SUBSET Objects]
        /\ \A w \in Workers : pc[w] # "idle" => running[w] \in Jobs
        /\ \A i \in 1..Len(queue) : queue[i] \in Jobs
      BY DownloadsConstants DEF DownloadsInv, TypeOK
  <1>1. ASSUME NEW w \in Workers, running[w] \in Jobs, UNCHANGED queue,
               \A v \in Workers : v # w => pc'[v] = pc[v] /\ running'[v] = running[v],
               \A j \in Jobs : j # running[w] => held'[j] = held[j],
               \/ pc'[w] = "idle"
               \/ pc'[w] # "init" /\ running'[w] = running[w] /\ held'[running[w]] = Objects
        PROVE  HeldInv'
    <2>1. \A i \in 1..Len(queue) : held'[queue[i]] = held[queue[i]]
        BY <1>0, <1>1 DEF OnceInv
    <2>2. \A v \in Workers : v # w /\ pc[v] # "idle" => held'[running[v]] = held[running[v]]
        BY <1>0, <1>1 DEF OnceInv
    <2> QED
        BY <1>1, <2>1, <2>2 DEF HeldInv
  <1>2. ASSUME NEW j \in Jobs, Submit(j) PROVE HeldInv'
    <2>1. /\ queue' = Append(queue, j) /\ running' = running /\ pc' = pc
          /\ held'[j] = FromDownload /\ \A k \in Jobs : k # j => held'[k] = held[k]
        BY <1>0, <1>2 DEF Submit, Pool!Submit
    <2>2. \A w \in Workers : running[w] # j
        BY <1>0, <1>2, DownloadsConstants DEF Submit, Pool!Submit, Pool!Queued, Pool!Running
    <2>3. /\ Len(queue) \in Nat /\ Len(queue') = Len(queue) + 1
          /\ \A i \in 1..Len(queue') : queue'[i] = IF i <= Len(queue) THEN queue[i] ELSE j
        BY <1>0, <2>1
    <2>4. \A i \in 1..Len(queue') : held'[queue'[i]] = FromDownload
        BY <1>0, <2>1, <2>3 DEF HeldInv
    <2>5. \A w \in Workers : pc[w] # "idle" => held'[running[w]] = held[running[w]]
        BY <1>0, <2>1, <2>2
    <2> QED
        BY <2>1, <2>4, <2>5 DEF HeldInv
  <1>3. ASSUME NEW w \in Workers, Start(w) PROVE HeldInv'
    <2>1. /\ queue # <<>> /\ held' = held
          /\ running' = [running EXCEPT ![w] = Head(queue)] /\ queue' = Tail(queue)
          /\ pc' = [pc EXCEPT ![w] = "init"]
        BY <1>3 DEF Start, Pool!Start
    <2>2. /\ Len(queue) \in Nat /\ Len(queue) >= 1 /\ Head(queue) = queue[1]
          /\ Len(queue') = Len(queue) - 1
          /\ \A i \in 1..Len(queue') : queue'[i] = queue[i + 1]
        BY <1>0, <2>1
    <2>3. \A i \in 1..Len(queue') : held[queue'[i]] = FromDownload
        BY <2>2 DEF HeldInv
    <2>4. running'[w] = queue[1] /\ pc'[w] = "init" /\ held[queue[1]] = FromDownload
        BY <1>0, <2>1, <2>2 DEF HeldInv
    <2>5. \A v \in Workers : v # w => running'[v] = running[v] /\ pc'[v] = pc[v]
        BY <1>0, <2>1
    <2> QED
        BY <2>1, <2>3, <2>4, <2>5 DEF HeldInv
  <1>4. ASSUME NEW w \in Workers, Work(w) PROVE HeldInv'
    <2>0. \A v \in Workers : v # w => pc'[v] = pc[v] /\ running'[v] = running[v]
        BY <1>4, WorkerMoves
    <2>1. CASE Returns(w) \/ Free(w)
      <3>1. /\ running[w] \in Jobs /\ queue' = queue /\ pc'[w] = "idle"
            /\ \A j \in Jobs : j # running[w] => held'[j] = held[j]
          BY <1>0, <2>1 DEF Returns, Fail, Free, At, Pool!Finish
      <3> QED
          BY <1>1, <2>0, <3>1
    <2>2. CASE GoesOn(w) \/ FindsNone(w) \/ Opens(w) \/ ReadsMore(w) \/ Writes(w) \/ ReadsEnd(w)
      <3>1. /\ pc[w] \notin {"idle", "init"} /\ pc'[w] # "init"
            /\ queue' = queue /\ running' = running /\ held' = held
          BY <1>0, <2>2 DEF GoesOn, FindsNone, Opens, ReadsMore, Writes, ReadsEnd, GoTo, pool
      <3>2. held[running[w]] = Objects
          BY <3>1 DEF HeldInv
      <3> QED
          BY <1>0, <1>1, <2>0, <3>1, <3>2
    <2>3. CASE Prepares(w)
      <3>1. /\ pc[w] = "init" /\ pc'[w] = "connect" /\ queue' = queue /\ running' = running
            /\ held' = [held EXCEPT ![running[w]] = held[running[w]] \cup {"Http"}]
          BY <1>0, <2>3 DEF Prepares, pool
      <3>2. /\ held[running[w]] = FromDownload
            /\ held'[running[w]] = held[running[w]] \cup {"Http"}
          BY <1>0, <3>1 DEF HeldInv
      <3>3. held'[running[w]] = Objects
          BY <3>2 DEF Objects, FromDownload, Freed
      <3>4. \A j \in Jobs : j # running[w] => held'[j] = held[j]
          BY <1>0, <3>1
      <3> QED
          BY <1>0, <1>1, <2>0, <3>1, <3>3, <3>4
    <2>4. CASE ServiceDies(w)
        BY <2>4 DEF ServiceDies, pool, HeldInv
    <2> QED
        BY <1>3, <1>4, <2>1, <2>2, <2>3, <2>4, Kinds
  <1>5. CASE Close \/ SetShutdown \/ \E w \in Workers : Stall(w)
      BY <1>5 DEF Close, Pool!Close, SetShutdown, Stall, pool, HeldInv
  <1>6. CASE UNCHANGED vars
      BY <1>6 DEF vars, pool, HeldInv
  <1> QED
      BY <1>2, <1>4, <1>5, <1>6 DEF Next

(* Both hold in every reachable state. *)
LEMMA OnceHolds == Spec => [](OnceInv /\ HeldInv)
  BY OnceInit, OnceNext, HeldInit, HeldNext, DownloadsInvariant, PTL DEF Spec

(* A successful download has released its socket and all that was          *)
(* allocated for it but the Downloader and the DownloadData, for any       *)
(* number of jobs and workers.                                             *)
THEOREM SuccessIsReleased == Spec => []SuccessReleases
  <1>1. OnceInv => SuccessReleases
      BY DEF OnceInv
  <1> QED
      BY <1>1, OnceHolds, PTL

-----------------------------------------------------------------------------
(* Who has opened its file, before and after each step.                    *)
LEMMA OpenInit == Init => OpenInv
  BY DEF Init, OpenInv

(* A step that opens nothing keeps this if its worker's new place fits.    *)
LEMMA OpenKeeps ==
  ASSUME OpenInv, NEW w \in Workers, UNCHANGED <<opened, present>>,
         \A v \in Workers : v # w => pc'[v] = pc[v] /\ running'[v] = running[v],
         finished \subseteq finished',
         \/ running[w] \in finished' \/ running'[w] = running[w] \/ running[w] \notin opened,
         pc'[w] \in {"read", "write"} => running'[w] \in opened,
         pc'[w] \notin {"idle", "read", "write", "free"} => running'[w] \notin opened,
         pc'[w] = "open" => FileOf[running'[w]] \notin present
  PROVE  OpenInv'
  <1>1. ASSUME NEW j \in opened
        PROVE  /\ j \in finished' \/ \E v \in Workers : running'[v] = j
               /\ FileOf[j] \in present
    <2>1. CASE j \in finished
        BY <2>1, <1>1 DEF OpenInv
    <2>2. ASSUME NEW v \in Workers, running[v] = j
          PROVE  j \in finished' \/ \E u \in Workers : running'[u] = j
        BY <2>2
    <2> QED
        BY <2>1, <2>2 DEF OpenInv
  <1>2. \A v \in Workers : pc'[v] \in {"read", "write"} => running'[v] \in opened
      BY DEF OpenInv
  <1>3. \A v \in Workers : pc'[v] \notin {"idle", "read", "write", "free"} => running'[v] \notin opened
      BY DEF OpenInv
  <1>4. ASSUME NEW v \in Workers, pc'[v] = "open", FileOf[running'[v]] \in present
        PROVE  \E j \in opened : FileOf[j] = FileOf[running'[v]]
      BY <1>4 DEF OpenInv, File
  <1> QED
      BY <1>1, <1>2, <1>3, <1>4 DEF OpenInv, File

LEMMA OpenWork ==
  ASSUME DownloadsInv, OnceInv, OpenInv, NEW w \in Workers, Work(w)
  PROVE  OpenInv'
  <1>0. /\ pc \in [Workers -> PCs] /\ running \in [Workers -> Jobs \cup {NoJob}]
        /\ queue \in Seq(Jobs) /\ opened \subseteq Jobs /\ NoJob \notin Jobs
        /\ \A v \in Workers : v # w => pc'[v] = pc[v] /\ running'[v] = running[v]
      BY WorkerMoves, DownloadsConstants DEF DownloadsInv, TypeOK
  <1>1. CASE Start(w)
    <2>1. /\ UNCHANGED <<opened, present, finished>> /\ running[w] = NoJob
          /\ pc'[w] = "init" /\ queue # <<>> /\ running'[w] = Head(queue)
        BY <1>0, <1>1 DEF Start, Pool!Start, output
    <2>2. 1 \in 1..Len(queue) /\ Head(queue) = queue[1]
        BY <1>0, <2>1
    <2>3. queue[1] \notin opened
        BY <2>2 DEF OnceInv, OpenInv
    <2> QED
        BY <1>0, <2>1, <2>2, <2>3, OpenKeeps
  <1>10. CASE Prepares(w)
    <2>1. /\ UNCHANGED <<opened, present, finished, running>>
          /\ pc'[w] = "connect" /\ pc[w] = "init"
        BY <1>0, <1>10 DEF Prepares, pool, output
    <2>2. running[w] \notin opened
        BY <2>1 DEF OpenInv
    <2> QED
        BY <1>0, <2>1, <2>2, OpenKeeps
  <1>2. CASE Returns(w)
    <2>1. /\ UNCHANGED <<opened, present>> /\ finished' = finished \cup {running[w]}
          /\ pc'[w] = "idle"
        BY <1>0, <1>2 DEF Returns, Fail, Pool!Finish, output
    <2> QED
        BY <1>0, <2>1, OpenKeeps
  <1>3. CASE GoesOn(w)
    <2>1. /\ UNCHANGED <<opened, present, finished, running>>
          /\ pc'[w] \in {"send", "send unconnected", "header", "exists"}
          /\ pc[w] \in {"connect", "send", "header"}
        BY <1>0, <1>3 DEF GoesOn, GoTo, pool, output
    <2>2. running[w] \notin opened
        BY <2>1 DEF OpenInv
    <2> QED
        BY <1>0, <2>1, <2>2, OpenKeeps
  <1>4. CASE FindsNone(w)
    <2>1. /\ UNCHANGED <<opened, present, finished, running>>
          /\ pc'[w] = "open" /\ pc[w] = "exists" /\ FileOf[running[w]] \notin present
        BY <1>0, <1>4 DEF FindsNone, GoTo, pool, output, File
    <2>2. running[w] \notin opened
        BY <2>1 DEF OpenInv
    <2> QED
        BY <1>0, <2>1, <2>2, OpenKeeps
  <1>5. CASE Opens(w)
    <2>1. /\ UNCHANGED <<finished, running>> /\ pc'[w] = "read" /\ pc[w] = "open"
          /\ present' = present \cup {FileOf[running[w]]} /\ opened' = opened \cup {running[w]}
        BY <1>0, <1>5 DEF Opens, GoTo, pool, File
    <2>2. ASSUME NEW j \in opened'
          PROVE  /\ j \in finished' \/ \E v \in Workers : running'[v] = j
                 /\ FileOf[j] \in present'
        BY <2>1, <2>2 DEF OpenInv
    <2>3. \A v \in Workers : pc'[v] \in {"read", "write"} => running'[v] \in opened'
        BY <1>0, <2>1 DEF OpenInv
    <2>4. ASSUME NEW v \in Workers, pc'[v] \notin {"idle", "read", "write", "free"}
          PROVE  running'[v] \notin opened'
      <3>1. v # w /\ running[v] \notin opened /\ pc[v] = pc'[v]
          BY <1>0, <2>1, <2>4 DEF OpenInv
      <3>2. running[w] # NoJob
          BY <2>1 DEF DownloadsInv
      <3>3. running[v] # running[w]
          BY <3>1, <3>2 DEF OnceInv
      <3> QED
          BY <2>1, <3>1, <3>3
    <2>5. ASSUME NEW v \in Workers, pc'[v] = "open", FileOf[running'[v]] \in present'
          PROVE  \E j \in opened' : FileOf[j] = FileOf[running'[v]]
        BY <1>0, <2>1, <2>5 DEF OpenInv, File
    <2> QED
        BY <2>2, <2>3, <2>4, <2>5 DEF OpenInv, File
  <1>6. CASE ReadsMore(w) \/ Writes(w)
    <2>1. /\ UNCHANGED <<opened, present, finished, running>>
          /\ pc'[w] \in {"read", "write"} /\ pc[w] \in {"read", "write"}
        BY <1>0, <1>6 DEF ReadsMore, Writes, GoTo, pool, output
    <2>2. running[w] \in opened
        BY <2>1 DEF OpenInv
    <2> QED
        BY <1>0, <2>1, <2>2, OpenKeeps
  <1>7. CASE ReadsEnd(w)
    <2>1. UNCHANGED <<opened, present, finished, running>> /\ pc'[w] = "free"
        BY <1>0, <1>7 DEF ReadsEnd, pool, output
    <2> QED
        BY <1>0, <2>1, OpenKeeps
  <1>8. CASE Free(w)
    <2>1. /\ UNCHANGED <<opened, present>> /\ finished' = finished \cup {running[w]}
          /\ pc'[w] = "idle"
        BY <1>0, <1>8 DEF Free, Pool!Finish, output
    <2> QED
        BY <1>0, <2>1, OpenKeeps
  <1>9. CASE ServiceDies(w)
    <2>1. UNCHANGED <<opened, present, finished, running, pc>>
        BY <1>9 DEF ServiceDies, pool, output
    <2> QED
        BY <2>1 DEF OpenInv, File
  <1> QED
      BY <1>1, <1>2, <1>3, <1>4, <1>5, <1>6, <1>7, <1>8, <1>9, <1>10, Kinds

LEMMA OpenNext == DownloadsInv /\ OnceInv /\ OpenInv /\ [Next]_vars => OpenInv'
  <1> SUFFICES ASSUME DownloadsInv, OnceInv, OpenInv, [Next]_vars PROVE OpenInv'
      OBVIOUS
  <1>1. ASSUME UNCHANGED <<opened, present, finished, running, pc>> PROVE OpenInv'
      BY <1>1 DEF OpenInv, File
  <1>2. ASSUME NEW j \in Jobs, Submit(j) PROVE OpenInv'
      BY <1>1, <1>2 DEF Submit, Pool!Submit, output
  <1>3. CASE Close \/ SetShutdown \/ \E w \in Workers : Stall(w)
      BY <1>1, <1>3 DEF Close, Pool!Close, SetShutdown, Stall, pool, output
  <1>4. CASE UNCHANGED vars
      BY <1>1, <1>4 DEF vars, pool, output
  <1> QED
      BY <1>2, <1>3, <1>4, OpenWork DEF Next

-----------------------------------------------------------------------------
(* What is in the files, before and after each step.                       *)
LEMMA BodyInit == Init => BodyInv
  BY DEF Init, BodyInv, InOrder

(* A step that leaves the files alone keeps this if its worker's new place *)
(* fits.                                                                   *)
LEMMA BodyKeeps ==
  ASSUME BodyInv, NEW w \in Workers, UNCHANGED <<written, content, present, opened>>,
         \A v \in Workers : v # w => pc'[v] = pc[v] /\ running'[v] = running[v],
         pc'[w] \in {"read", "write"} => pc[w] \in {"read", "write"} /\ running'[w] = running[w],
         pc'[w] = "read" => pc[w] = "read",
         pc'[w] = "write" => written[w] < BodyLen[running[w]]
  PROVE  BodyInv'
  <1>1. \A v \in Workers : pc'[v] = "read" => written[v] <= BodyLen[running'[v]]
      BY DEF BodyInv
  <1>2. \A v \in Workers : pc'[v] = "write" => written[v] < BodyLen[running'[v]]
      BY DEF BodyInv
  <1>3. \A v \in Workers : pc'[v] \in {"read", "write"} /\ Sole(running'[v]) =>
                             written[v] = Len(content[FileOf[running'[v]]])
      BY DEF BodyInv, File
  <1> QED
      BY <1>1, <1>2, <1>3 DEF BodyInv, InOrder, Sole, File

(* The first to open a file finds it empty.                                *)
LEMMA BodyOpens ==
  ASSUME DownloadsInv, OnceInv, OpenInv, BodyInv, NEW w \in Workers, Opens(w)
  PROVE  BodyInv'
  <1>0. /\ pc \in [Workers -> PCs] /\ written \in [Workers -> Nat]
        /\ BodyLen \in [Jobs -> Nat] /\ FileOf \in [Jobs -> Files] /\ opened \subseteq Jobs
      BY DownloadsConstants DEF DownloadsInv, TypeOK
  <1>1. /\ pc' = [pc EXCEPT ![w] = "read"] /\ running' = running /\ content' = content
        /\ present' = present \cup {FileOf[running[w]]} /\ opened' = opened \cup {running[w]}
        /\ written' = [written EXCEPT ![w] = 0] /\ pc[w] = "open"
      BY DEF Opens, GoTo, pool, File
  <1>2. running[w] \in Jobs /\ running[w] \notin opened
      BY <1>1 DEF OpenInv, DownloadsInv, TypeOK
  <1>3. ASSUME NEW j \in opened', Sole(j)'
        PROVE  \/ j # running[w] /\ Sole(j) /\ FileOf[j] # FileOf[running[w]]
               \/ j = running[w] /\ FileOf[j] \notin present
    <2>1. \A k \in opened : FileOf[k] = FileOf[j] => k = j
        BY <1>1, <1>3 DEF Sole
    <2>2. CASE j = running[w]
      <3>1. \A k \in opened : FileOf[k] # FileOf[running[w]]
          BY <1>2, <2>1, <2>2
      <3> QED
          BY <1>1, <2>2, <3>1 DEF OpenInv, File
    <2>3. CASE j # running[w]
        BY <1>1, <1>3, <2>1, <2>3 DEF Sole
    <2> QED
        BY <2>2, <2>3
  <1>4. \A f \in Files : f \notin present' => content'[f] = <<>>
      BY <1>1 DEF BodyInv
  <1>5. \A v \in Workers : pc'[v] = "read" => written'[v] <= BodyLen[running'[v]]
      BY <1>0, <1>1, <1>2 DEF BodyInv
  <1>6. \A v \in Workers : pc'[v] = "write" => written'[v] < BodyLen[running'[v]]
      BY <1>0, <1>1 DEF BodyInv
  <1>7. ASSUME NEW v \in Workers, pc'[v] \in {"read", "write"}, Sole(running[v])'
        PROVE  written'[v] = Len(content'[FileOf[running'[v]]])
    <2>1. CASE v = w
      <3>1. FileOf[running[w]] \in Files /\ FileOf[running[w]] \notin present
          BY <1>0, <1>1, <1>2, <1>3, <1>7, <2>1
      <3>2. content[FileOf[running[w]]] = <<>> /\ written'[v] = 0
          BY <1>0, <1>1, <2>1, <3>1 DEF BodyInv
      <3> QED
          BY <1>1, <2>1, <3>2
    <2>2. CASE v # w
      <3>1. pc[v] \in {"read", "write"} /\ written'[v] = written[v]
          BY <1>0, <1>1, <1>7, <2>2
      <3>2. running[v] \in opened
          BY <3>1 DEF OpenInv
      <3>3. Sole(running[v])
          BY <1>1, <1>2, <1>3, <1>7, <3>2
      <3> QED
          BY <1>1, <3>1, <3>3 DEF BodyInv, File
    <2> QED
        BY <2>1, <2>2
  <1>8. ASSUME NEW j \in opened', Sole(j)' PROVE InOrder(j)'
    <2> SUFFICES ASSUME NEW n \in 1..Len(content'[FileOf[j]])
                 PROVE  /\ n <= BodyLen[j]
                        /\ content'[FileOf[j]][n].job = j
                        /\ content'[FileOf[j]][n].number = n
        BY DEF InOrder
    <2>1. CASE j = running[w]
      <3>1. FileOf[j] \notin present /\ FileOf[j] \in Files
          BY <1>0, <1>2, <1>3, <1>8, <2>1
      <3>2. content'[FileOf[j]] = <<>>
          BY <1>1, <3>1 DEF BodyInv
      <3> QED
          BY <3>2
    <2>2. CASE j # running[w]
      <3>1. j \in opened /\ Sole(j)
          BY <1>1, <1>3, <1>8, <2>2
      <3> QED
          BY <1>1, <3>1 DEF BodyInv, InOrder
    <2> QED
        BY <2>1, <2>2
  <1> QED
      BY <1>4, <1>5, <1>6, <1>7, <1>8 DEF BodyInv, File

(* What a buffer written behind the end of a file makes of it.             *)
LEMMA PutBehind ==
  ASSUME NEW s \in Seq(Buffers), NEW b
  PROVE  /\ Len(Put(s, Len(s) + 1, b)) = Len(s) + 1
         /\ \A n \in 1..(Len(s) + 1) :
              Put(s, Len(s) + 1, b)[n] = IF n = Len(s) + 1 THEN b ELSE s[n]
  <1>1. Len(s) \in Nat
      OBVIOUS
  <1>2. Put(s, Len(s) + 1, b) = [n \in 1..(Len(s) + 1) |-> IF n = Len(s) + 1 THEN b ELSE s[n]]
      BY <1>1 DEF Put
  <1> QED
      BY <1>1, <1>2

(* A job that alone opened its file writes behind what it wrote before.    *)
LEMMA BodyWrites ==
  ASSUME DownloadsInv, OnceInv, OpenInv, BodyInv, NEW w \in Workers, Writes(w)
  PROVE  BodyInv'
  <1>0. /\ pc \in [Workers -> PCs] /\ written \in [Workers -> Nat]
        /\ BodyLen \in [Jobs -> Nat] /\ FileOf \in [Jobs -> Files] /\ opened \subseteq Jobs
        /\ DOMAIN content = Files /\ \A f \in Files : content[f] \in Seq(Buffers)
      BY DownloadsConstants DEF DownloadsInv, TypeOK
  <1>1. /\ pc' = [pc EXCEPT ![w] = "read"] /\ running' = running /\ pc[w] = "write"
        /\ present' = present /\ opened' = opened
        /\ written' = [written EXCEPT ![w] = written[w] + 1]
      BY DEF Writes, GoTo, pool
  <1>2. PICK whole \in BOOLEAN :
          content' = [content EXCEPT ![File(w)] =
            Put(content[File(w)], written[w] + 1,
                [job |-> running[w], number |-> written[w] + 1, whole |-> whole])]
      BY DEF Writes
  <1> DEFINE r == running[w]
             F == FileOf[r]
             k == written[w] + 1
             b == [job |-> r, number |-> k, whole |-> whole]
  <1>3. /\ r \in opened /\ r \in Jobs /\ F \in Files /\ F \in present
        /\ k \in Nat /\ k <= BodyLen[r]
      BY <1>0, <1>1 DEF OpenInv, BodyInv
  <1>4. /\ content'[F] = Put(content[F], k, b)
        /\ \A f \in Files : f # F => content'[f] = content[f]
      BY <1>0, <1>2, <1>3 DEF File
  <1>5. b.job = r /\ b.number = k
      OBVIOUS
  <1>6. ASSUME Sole(r)
        PROVE  /\ k = Len(content[F]) + 1 /\ Len(content'[F]) = k
               /\ \A n \in 1..k : content'[F][n] = IF n = k THEN b ELSE content[F][n]
    <2>1. k = Len(content[F]) + 1
        BY <1>1, <1>6 DEF BodyInv, File
    <2> DEFINE t == content[F]
    <2>2. t \in Seq(Buffers) /\ k = Len(t) + 1 /\ content'[F] = Put(t, Len(t) + 1, b)
        BY <1>0, <1>3, <1>4, <2>1
    <2> HIDE DEF b, k, t
    <2>3. /\ Len(Put(t, Len(t) + 1, b)) = Len(t) + 1
          /\ \A n \in 1..(Len(t) + 1) :
               Put(t, Len(t) + 1, b)[n] = IF n = Len(t) + 1 THEN b ELSE t[n]
        BY <2>2, PutBehind
    <2>4. /\ Len(content'[F]) = k
          /\ \A n \in 1..k : content'[F][n] = IF n = k THEN b ELSE t[n]
        BY <2>2, <2>3
    <2> QED
        BY <2>1, <2>4 DEF t
  <1> HIDE DEF b
  <1>7. \A j \in opened : Sole(j) /\ FileOf[j] = F => j = r
      BY <1>3 DEF Sole
  <1>8. \A f \in Files : f \notin present' => content'[f] = <<>>
      BY <1>1, <1>3, <1>4 DEF BodyInv
  <1>9. \A v \in Workers : pc'[v] = "read" => written'[v] <= BodyLen[running'[v]]
      BY <1>0, <1>1, <1>3 DEF BodyInv
  <1>10. \A v \in Workers : pc'[v] = "write" => written'[v] < BodyLen[running'[v]]
      BY <1>0, <1>1 DEF BodyInv
  <1>11. ASSUME NEW v \in Workers, pc'[v] \in {"read", "write"}, Sole(running[v])
         PROVE  written'[v] = Len(content'[FileOf[running[v]]])
    <2>1. CASE v = w
        BY <1>0, <1>1, <1>6, <1>11, <2>1
    <2>2. CASE v # w
      <3>1. pc[v] \in {"read", "write"} /\ written'[v] = written[v]
          BY <1>0, <1>1, <1>11, <2>2
      <3>2. running[v] \in opened /\ running[v] # r
        <4>1. running[v] \in opened /\ running[v] # NoJob
            BY <3>1 DEF OpenInv, DownloadsInv
        <4> QED
            BY <2>2, <4>1 DEF OnceInv
      <3>3. FileOf[running[v]] # F /\ FileOf[running[v]] \in Files
          BY <1>0, <1>7, <1>11, <3>2
      <3> QED
          BY <1>4, <1>11, <3>1, <3>3 DEF BodyInv, File
    <2> QED
        BY <2>1, <2>2
  <1>12. ASSUME NEW j \in opened, Sole(j) PROVE InOrder(j)'
    <2> SUFFICES ASSUME NEW n \in 1..Len(content'[FileOf[j]])
                 PROVE  /\ n <= BodyLen[j]
                        /\ content'[FileOf[j]][n].job = j
                        /\ content'[FileOf[j]][n].number = n
        BY DEF InOrder
    <2>0. FileOf[j] \in Files
        BY <1>0
    <2>1. CASE j = r
      <3>1. /\ Len(content'[F]) = k /\ k = Len(content[F]) + 1
            /\ content'[F][n] = IF n = k THEN b ELSE content[F][n]
          BY <1>6, <1>12, <2>1
      <3>2. CASE n = k
          BY <1>3, <1>5, <2>1, <3>1, <3>2
      <3>3. CASE n # k
        <4>1. n \in 1..Len(content[F])
            BY <1>3, <2>1, <3>1, <3>3
        <4>2. /\ n <= BodyLen[j] /\ content[F][n].job = j /\ content[F][n].number = n
            BY <1>3, <1>12, <2>1, <4>1 DEF BodyInv, InOrder
        <4> QED
            BY <2>1, <3>1, <3>3, <4>2
      <3> QED
          BY <3>2, <3>3
    <2>2. CASE j # r
      <3>1. content'[FileOf[j]] = content[FileOf[j]]
          BY <1>4, <1>7, <1>12, <2>0, <2>2
      <3> QED
          BY <1>12, <3>1 DEF BodyInv, InOrder
    <2> QED
        BY <2>1, <2>2
  <1> QED
      BY <1>1, <1>8, <1>9, <1>10, <1>11, <1>12 DEF BodyInv, File, Sole

LEMMA BodyWork ==
  ASSUME DownloadsInv, OnceInv, OpenInv, BodyInv, NEW w \in Workers, Work(w)
  PROVE  BodyInv'
  <1>0. /\ pc \in [Workers -> PCs] /\ running \in [Workers -> Jobs \cup {NoJob}]
        /\ \A v \in Workers : v # w => pc'[v] = pc[v] /\ running'[v] = running[v]
      BY WorkerMoves DEF DownloadsInv, TypeOK
  <1>1. CASE Start(w)
    <2>1. UNCHANGED <<written, content, present, opened>> /\ pc'[w] = "init"
        BY <1>0, <1>1 DEF Start, output
    <2> QED
        BY <1>0, <2>1, BodyKeeps
  <1>6. CASE Prepares(w)
    <2>1. UNCHANGED <<written, content, present, opened>> /\ pc'[w] = "connect"
        BY <1>0, <1>6 DEF Prepares, output
    <2> QED
        BY <1>0, <2>1, BodyKeeps
  <1>2. CASE Returns(w) \/ Free(w)
    <2>1. UNCHANGED <<written, content, present, opened>> /\ pc'[w] = "idle"
        BY <1>0, <1>2 DEF Returns, Fail, Free, output
    <2> QED
        BY <1>0, <2>1, BodyKeeps
  <1>3. CASE GoesOn(w) \/ FindsNone(w) \/ ReadsEnd(w)
    <2>1. /\ UNCHANGED <<written, content, present, opened>>
          /\ pc'[w] \notin {"read", "write"}
        BY <1>0, <1>3 DEF GoesOn, FindsNone, ReadsEnd, GoTo, output
    <2> QED
        BY <1>0, <2>1, BodyKeeps
  <1>4. CASE ReadsMore(w)
    <2>1. /\ UNCHANGED <<written, content, present, opened>> /\ running' = running
          /\ pc'[w] = "write" /\ pc[w] = "read" /\ written[w] < BodyLen[running[w]]
        BY <1>0, <1>4 DEF ReadsMore, GoTo, pool, output
    <2> QED
        BY <1>0, <2>1, BodyKeeps
  <1>5. CASE ServiceDies(w)
    <2>1. UNCHANGED <<written, content, present, opened, pc, running>>
        BY <1>5 DEF ServiceDies, pool, output
    <2> QED
        BY <2>1 DEF BodyInv, InOrder, Sole, File
  <1> QED
      BY <1>1, <1>2, <1>3, <1>4, <1>5, <1>6, BodyOpens, BodyWrites, Kinds

LEMMA BodyNext == DownloadsInv /\ OnceInv /\ OpenInv /\ BodyInv /\ [Next]_vars => BodyInv'
  <1> SUFFICES ASSUME DownloadsInv, OnceInv, OpenInv, BodyInv, [Next]_vars PROVE BodyInv'
      OBVIOUS
  <1>1. ASSUME UNCHANGED <<written, content, present, opened, pc, running>> PROVE BodyInv'
      BY <1>1 DEF BodyInv, InOrder, Sole, File
  <1>2. ASSUME NEW j \in Jobs, Submit(j) PROVE BodyInv'
      BY <1>1, <1>2 DEF Submit, Pool!Submit, output
  <1>3. CASE Close \/ SetShutdown \/ \E w \in Workers : Stall(w)
      BY <1>1, <1>3 DEF Close, Pool!Close, SetShutdown, Stall, pool, output
  <1>4. CASE UNCHANGED vars
      BY <1>1, <1>4 DEF vars, pool, output
  <1> QED
      BY <1>2, <1>3, <1>4, BodyWork DEF Next

(* A file that one job alone opened is the beginning of its body up to the *)
(* first short write, for any number of jobs, workers, files and buffers.  *)
THEOREM BodyIsOwn == Spec => []OwnBody
  <1>1. BodyInv => OwnBody
      BY DEF BodyInv, InOrder, OwnBody, Intact
  <1> QED
      BY <1>1, OnceHolds, OpenInit, OpenNext, BodyInit, BodyNext, DownloadsInvariant,
         PTL DEF Spec
-----------------------------------------------------------------------------
(* A step that is about one job, which is not finished, leaves finished jobs
   alone. *)
LEMMA OthersStay ==
  ASSUME NEW k \in Jobs \cup {NoJob}, k \notin finished,
         finished \subseteq finished', finished \subseteq Jobs,
         \A j \in Jobs : j # k => LeftAsIs(j)
  PROVE  \A j \in finished : j \in finished' /\ LeftAsIs(j)
  OBVIOUS

(* No job is run twice, so that the outcome of a finished one is final:
   download_worker neither repeats it nor releases later what it left. *)
THEOREM OutcomeIsFinal == Spec => FinishedForGood
  <1>1. DownloadsInv /\ OnceInv /\ [Next]_vars =>
          [\A j \in finished : j \in finished' /\ LeftAsIs(j)]_vars
    <2> SUFFICES ASSUME DownloadsInv, OnceInv, Next
                 PROVE  \A j \in finished : j \in finished' /\ LeftAsIs(j)
        OBVIOUS
    <2>0. /\ finished \subseteq Jobs /\ sockets \subseteq Jobs /\ result \in [Jobs -> {"none", "ok", "failed"}]
          /\ held \in [Jobs -> SUBSET Objects]
          /\ \A w \in Workers : running[w] \in Jobs \cup {NoJob} /\ running[w] \notin finished
        BY DEF DownloadsInv, TypeOK, OnceInv
    <2>1. ASSUME NEW j \in Jobs, Submit(j)
          PROVE  /\ j \notin finished /\ UNCHANGED <<finished, result, sockets>>
                 /\ \A k \in Jobs : k # j => held'[k] = held[k]
        BY <2>0, <2>1 DEF Submit, Pool!Submit
    <2>2. CASE \E j \in Jobs : Submit(j)
        BY <2>0, <2>1, <2>2, OthersStay DEF LeftAsIs
    <2>3. CASE Close \/ SetShutdown \/ \E w \in Workers : Stall(w)
        BY <2>3 DEF Close, Pool!Close, SetShutdown, Stall, pool, output, LeftAsIs
    <2>4. ASSUME NEW w \in Workers, Work(w)
          PROVE  /\ finished \subseteq finished'
                 /\ \A j \in Jobs : j # running[w] => LeftAsIs(j)
      <3>1. CASE Fail(w) \/ \E where \in PCs : GoTo(w, where)
        <4>1. /\ finished \subseteq finished' /\ held' = held
              /\ \A j \in Jobs : j # running[w] => result'[j] = result[j]
            BY <2>0, <3>1 DEF Fail, GoTo, Pool!Finish, pool
        <4>2. \A j \in Jobs : j # running[w] => ((j \in sockets') <=> (j \in sockets))
            BY <2>0, <2>4, <3>1 DEF Work, Run, Start, Prepare, Connect, Send, ServiceDies, ReadHeader, CheckExists,
               OpenFile, Read, Write, Free
        <4> QED
            BY <4>1, <4>2 DEF LeftAsIs
      <3>2. CASE ReadsEnd(w)
          BY <2>0, <3>2 DEF ReadsEnd, pool, output, LeftAsIs
      <3>3. CASE Free(w)
          BY <2>0, <3>3 DEF Free, Pool!Finish, LeftAsIs
      <3>5. CASE Prepares(w)
          BY <2>0, <3>5 DEF Prepares, pool, LeftAsIs
      <3>4. CASE Start(w) \/ ServiceDies(w)
          BY <3>4 DEF Start, Pool!Start, ServiceDies, pool, output, LeftAsIs
      <3> QED
          BY <2>4, <3>1, <3>2, <3>3, <3>4, <3>5, Kinds DEF Returns, GoesOn, FindsNone, Opens, ReadsMore, Writes, PCs
    <2>5. CASE \E w \in Workers : Work(w)
        BY <2>0, <2>4, <2>5, OthersStay
    <2> QED
        BY <2>2, <2>3, <2>5 DEF Next
  <1> QED
      BY <1>1, DownloadsInvariant, OnceHolds, PTL DEF Spec, FinishedForGood

(* download and download_worker use the pool as WorkQueue allows: a job is
   submitted once, a worker that returns has one, and every other step leaves
   the pool alone.  So what is proved of Downloads over WorkQueue holds over
   the pool of ThreadPool. *)
THEOREM PoolIsUsedRight == Spec => UsesPool
  <1>1. Init => Pool!Init
      BY DEF Init
  <1>2. DownloadsInv /\ [Next]_vars => [Pool!Next]_(Pool!wqVars)
    <2> SUFFICES ASSUME DownloadsInv, [Next]_vars PROVE Pool!Next \/ UNCHANGED Pool!wqVars
        OBVIOUS
    <2>1. CASE \E j \in Jobs : Submit(j)
        BY <2>1 DEF Submit, Pool!Next
    <2>2. CASE Close
        BY <2>2 DEF Close, Pool!Next
    <2>6. CASE SetShutdown \/ \E w \in Workers : Stall(w)
        BY <2>6 DEF SetShutdown, Stall, pool, Pool!wqVars
    <2>3. ASSUME NEW w \in Workers, Work(w)
          PROVE  Pool!Start(w) \/ Pool!Finish(w) \/ UNCHANGED pool
      <3>1. CASE Fail(w) \/ \E where \in PCs : GoTo(w, where)
          BY <3>1 DEF Fail, GoTo
      <3>2. CASE Prepares(w) \/ ReadsEnd(w) \/ Free(w) \/ Start(w) \/ ServiceDies(w)
          BY <3>2 DEF Prepares, ReadsEnd, Free, Start, ServiceDies
      <3> QED
          BY <2>3, <3>1, <3>2, Kinds DEF Returns, GoesOn, FindsNone, Opens, ReadsMore, Writes, PCs
    <2>4. CASE \E w \in Workers : Work(w)
        BY <2>3, <2>4 DEF Pool!Next, Pool!wqVars, pool
    <2>5. CASE UNCHANGED vars
        BY <2>5 DEF vars, pool, Pool!wqVars
    <2> QED
        BY <2>1, <2>2, <2>4, <2>5, <2>6 DEF Next
  <1> QED
      BY <1>1, <1>2, DownloadsInvariant, PTL DEF Spec, UsesPool, Pool!Spec
=============================================================================
