------------------------------ MODULE Downloads ------------------------------
(***************************************************************************)
(* What happens to a URI once the command service has it: download hands   *)
(* it to the pool (core/download-manager.c), a worker of the pool runs     *)
(* download_worker on it (core/dm-http.c, http_request of core/http.c),    *)
(* several workers at a time.  The pool is the abstract WorkQueue, which   *)
(* ThreadPool implements; a connection is what TcpConnection leaves at its *)
(* end: none, one that works, or one that only seems to.                   *)
(*                                                                         *)
(* The body a server sends is a sequence of buffers of http_request, each  *)
(* known by its job and its number; a file is a sequence of such buffers.  *)
(***************************************************************************)
EXTENDS Integers, Sequences, FiniteSets

CONSTANTS
  Jobs, Workers, NoJob,  (* as in WorkQueue: a job is one URI handed over *)
  Files,                 (* paths below the download directory *)
  FileOf,                (* outputName: the last part of the URI's path *)
  BodyLen,               (* buffers in the body of each job's answer *)
  OldFiles,              (* files that may be there before *)
  Directories            (* paths that are directories *)

ASSUME DownloadsConstants ==
  /\ IsFiniteSet(Workers)
  /\ NoJob \notin Jobs
  /\ FileOf \in [Jobs -> Files]
  /\ BodyLen \in [Jobs -> Nat]
  /\ OldFiles \subseteq Files
  /\ Directories \subseteq Files
  /\ OldFiles \cap Directories = {}

VARIABLES
  queue, running, finished, closed,  (* the pool, as in WorkQueue *)
  stopping, (* threadpool->shutdown: thread_pool_destory was called *)
  pc,       (* where each worker is in download_worker *)
  written,  (* buffers each worker has written: the position of its fd *)
  content,  (* what is in each file *)
  present,  (* the files that exist *)
  opened,   (* jobs that opened their file *)
  sockets,  (* jobs whose socket is open *)
  held,     (* what is allocated for each job *)
  silent,   (* jobs whose server has stopped sending, for good *)
  result,   (* what http_request returned for each job *)
  up        (* the process lives *)

pool   == <<queue, running, finished, closed>>
output == <<written, content, present, opened>>
around == <<stopping, silent>>
vars   == <<pool, pc, output, sockets, held, result, up, around>>

Pool == INSTANCE WorkQueue

PCs == {"idle", "init", "connect", "send", "send unconnected", "header", "exists",
        "open", "read", "write", "free"}

(* Where a worker waits for a server: in SSL_connect, and for the next     *)
(* bytes of the header or of the body.                                     *)
NetworkWaits == {"connect", "header", "read"}

(* What download allocates for a job, what dm_http_init adds, and what     *)
(* dm_http_free gives back.  Nobody frees the Downloader and DownloadData. *)
FromDownload == {"Downloader", "DownloadData", "outputName", "uri"}
Freed        == {"Http", "outputName", "uri"}
Objects      == FromDownload \cup Freed

(* A buffer of a file: whose it is, which one, and whether it is whole. *)
Buffers == [job : Jobs \cup {NoJob}, number : Nat, whole : BOOLEAN]
OldBuffer == [job |-> NoJob, number |-> 1, whole |-> TRUE]

File(w) == FileOf[running[w]]

Init ==
  /\ Pool!Init
  /\ pc = [w \in Workers |-> "idle"]
  /\ written = [w \in Workers |-> 0]
  /\ present \in SUBSET OldFiles
  /\ content = [f \in Files |-> IF f \in present THEN <<OldBuffer>> ELSE <<>>]
  /\ opened = {}
  /\ sockets = {}
  /\ held = [j \in Jobs |-> {}]
  /\ stopping = FALSE
  /\ silent = {}
  /\ result = [j \in Jobs |-> "none"]
  /\ up = TRUE
-----------------------------------------------------------------------------
(* download: one work for the pool for each URI of a request.  The thread  *)
(* that calls it is joined before the pool is destroyed.                   *)
Submit(j) ==
  /\ up
  /\ ~stopping
  /\ Pool!Submit(j)
  /\ held' = [held EXCEPT ![j] = FromDownload]
  /\ UNCHANGED <<pc, output, sockets, result, up, around>>

(* thread_pool_destory sets the flag ...                                   *)
SetShutdown ==
  /\ up
  /\ ~stopping
  /\ stopping' = TRUE
  /\ UNCHANGED <<pool, pc, output, sockets, held, result, up, silent>>

(* ... and has joined every worker.                                        *)
Close ==
  /\ up
  /\ stopping
  /\ Pool!Close
  /\ UNCHANGED <<pc, output, sockets, held, result, up, around>>

(* A worker enters download_worker; also behind the flag, which it may     *)
(* have looked at before it was set.                                       *)
Start(w) ==
  /\ up
  /\ Pool!Start(w)
  /\ pc' = [pc EXCEPT ![w] = "init"]
  /\ UNCHANGED <<output, sockets, held, result, up, around>>

(* A server stops sending in the middle of what the worker waits for.  The *)
(* timeout of the sockets is 136 years, and the handshake has none.        *)
Stall(w) ==
  /\ up
  /\ pc[w] \in NetworkWaits
  /\ silent' = silent \cup {running[w]}
  /\ UNCHANGED <<pool, pc, output, sockets, held, result, up, stopping>>

At(w, where) ==
  /\ up
  /\ pc[w] = where
  /\ where \in NetworkWaits => running[w] \notin silent

(* Mutant: a download that failed is tried again. *)
FailRetries(w) ==
  /\ result' = [result EXCEPT ![running[w]] = "failed"]
  /\ pc' = [pc EXCEPT ![w] = "init"]
  /\ UNCHANGED <<pool, held, up, around>>

(* download_worker returns early: nothing that was acquired is released. *)
Fail(w) ==
  /\ result' = [result EXCEPT ![running[w]] = "failed"]
  /\ pc' = [pc EXCEPT ![w] = "idle"]
  /\ Pool!Finish(w)
  /\ UNCHANGED <<held, up, around>>

GoTo(w, where) ==
  /\ pc' = [pc EXCEPT ![w] = where]
  /\ UNCHANGED <<pool, held, result, up, around>>

(* dm_http_init: http_new finds no host in the URI and frees what it made, *)
(* or makes the Http.                                                      *)
Prepare(w) ==
  /\ At(w, "init")
  /\ \/ Fail(w)
     \/ /\ pc' = [pc EXCEPT ![w] = "connect"]
        /\ held' = [held EXCEPT ![running[w]] = @ \cup {"Http"}]
        /\ UNCHANGED <<pool, result, up, around>>
  /\ UNCHANGED <<output, sockets>>

(* tcp_connect.  False with no socket, or with one lost in TLS; true with  *)
(* a connection, or with a socket that every address refused.              *)
Connect(w) ==
  /\ At(w, "connect")
  /\ \/ Fail(w) /\ UNCHANGED sockets
     \/ /\ Fail(w) \/ GoTo(w, "send") \/ GoTo(w, "send unconnected")
        /\ sockets' = sockets \cup {running[w]}
  /\ UNCHANGED output

(* tcp_write of the request. *)
Send(w) ==
  /\ At(w, "send")
  /\ Fail(w) \/ GoTo(w, "header")
  /\ UNCHANGED <<output, sockets>>

(* A write to a socket that is not connected, or that the server has       *)
(* closed, raises SIGPIPE, which nobody handles: SSL_connect writes, too,  *)
(* also to a socket that every address refused.  And g_realloc aborts when *)
(* a long header asks for more memory than there is (module Http).  The    *)
(* whole service ends.                                                     *)
ServiceDies(w) ==
  /\ \E where \in {"connect", "send", "send unconnected", "header"} : At(w, where)
  /\ up' = FALSE
  /\ UNCHANGED <<pool, pc, output, sockets, held, result, around>>

(* The header is read up to an empty line or to the end of what comes; it  *)
(* is not looked at.  No directory for downloads is an error.              *)
ReadHeader(w) ==
  /\ At(w, "header")
  /\ Fail(w) \/ GoTo(w, "exists")
  /\ UNCHANGED <<output, sockets>>

(* Mutant: nobody asks whether the file exists. *)
NotAsked(w) ==
  /\ At(w, "exists")
  /\ GoTo(w, "open")
  /\ UNCHANGED <<output, sockets>>

(* g_file_query_exists: a file that is there, and no directory, is an error. *)
CheckExists(w) ==
  /\ At(w, "exists")
  /\ IF File(w) \in present THEN Fail(w) ELSE GoTo(w, "open")
  /\ UNCHANGED <<output, sockets>>

(* open with O_CREAT and neither O_EXCL nor O_TRUNC, which a directory or  *)
(* missing permissions make fail.                                          *)
OpenFile(w) ==
  /\ At(w, "open")
  /\ \/ Fail(w) /\ UNCHANGED output
     \/ /\ File(w) \notin Directories
        /\ present' = present \cup {File(w)}
        /\ opened' = opened \cup {running[w]}
        /\ written' = [written EXCEPT ![w] = 0]
        /\ GoTo(w, "read")
        /\ UNCHANGED content
  /\ UNCHANGED sockets

(* tcp_read: the next buffer, or no more, for whatever reason; then the    *)
(* file is closed and http_request returns true.                           *)
Read(w) ==
  /\ At(w, "read")
  /\ \/ written[w] < BodyLen[running[w]] /\ GoTo(w, "write")
     \/ /\ result' = [result EXCEPT ![running[w]] = "ok"]
        /\ pc' = [pc EXCEPT ![w] = "free"]
        /\ UNCHANGED <<pool, held, up, around>>
  /\ UNCHANGED <<output, sockets>>

(* What the file is after buffer b was written to it at position k. *)
Put(s, k, b) == [n \in 1..(IF k > Len(s) THEN k ELSE Len(s)) |-> IF n = k THEN b ELSE s[n]]

(* Mutant: a write that fails is passed over. *)
WriteErrorIgnored(w) ==
  /\ At(w, "write")
  /\ \/ UNCHANGED content
     \/ content' = [content EXCEPT ![File(w)] =
          Append(@, [job |-> running[w], number |-> written[w] + 1, whole |-> TRUE])]
  /\ written' = [written EXCEPT ![w] = @ + 1]
  /\ GoTo(w, "read")
  /\ UNCHANGED <<present, opened, sockets>>

(* write of the buffer at the position of the worker's own descriptor.  It *)
(* may fail, and it may write a part of the buffer, which goes unnoticed.  *)
Write(w) ==
  /\ At(w, "write")
  /\ \/ Fail(w) /\ UNCHANGED output
     \/ /\ \E whole \in BOOLEAN :
             content' = [content EXCEPT ![File(w)] =
               Put(@, written[w] + 1,
                   [job |-> running[w], number |-> written[w] + 1, whole |-> whole])]
        /\ written' = [written EXCEPT ![w] = @ + 1]
        /\ GoTo(w, "read")
        /\ UNCHANGED <<present, opened>>
  /\ UNCHANGED sockets

(* Mutant: http_destroy leaves the connection to itself. *)
FreeKeepsSocket(w) ==
  /\ At(w, "free")
  /\ held' = [held EXCEPT ![running[w]] = @ \ Freed]
  /\ pc' = [pc EXCEPT ![w] = "idle"]
  /\ Pool!Finish(w)
  /\ UNCHANGED <<output, sockets, result, up, around>>

(* dm_http_free: the Http goes, and its connection with it, the name and   *)
(* the URI.                                                                *)
Free(w) ==
  /\ At(w, "free")
  /\ sockets' = sockets \ {running[w]}
  /\ held' = [held EXCEPT ![running[w]] = @ \ Freed]
  /\ pc' = [pc EXCEPT ![w] = "idle"]
  /\ Pool!Finish(w)
  /\ UNCHANGED <<output, result, up, around>>

(* A step of download_worker. *)
Run(w) ==
  \/ Prepare(w) \/ Connect(w) \/ Send(w) \/ ServiceDies(w)
  \/ ReadHeader(w) \/ CheckExists(w) \/ OpenFile(w) \/ Read(w) \/ Write(w) \/ Free(w)

Work(w) == Start(w) \/ Run(w)

Next ==
  \/ \E j \in Jobs : Submit(j)
  \/ SetShutdown
  \/ Close
  \/ \E w \in Workers : Work(w) \/ Stall(w)

Spec == Init /\ [][Next]_vars

(* The pool's threads run, and take no new work once the flag is set.  No  *)
(* server owes an answer: Stall may happen at every wait, and from then on *)
(* its worker has no step to take.                                         *)
LiveSpec == Spec /\ \A w \in Workers : WF_vars((Start(w) /\ ~stopping) \/ Run(w))
-----------------------------------------------------------------------------
(* Every variable has a value of its kind. *)
TypeOK ==
  /\ queue \in Seq(Jobs)
  /\ running \in [Workers -> Jobs \cup {NoJob}]
  /\ finished \subseteq Jobs
  /\ closed \in BOOLEAN
  /\ pc \in [Workers -> PCs]
  /\ written \in [Workers -> Nat]
  /\ DOMAIN content = Files
  /\ \A f \in Files : content[f] \in Seq(Buffers)
  /\ present \subseteq Files
  /\ opened \subseteq Jobs
  /\ sockets \subseteq Jobs
  /\ held \in [Jobs -> SUBSET Objects]
  /\ stopping \in BOOLEAN
  /\ silent \subseteq Jobs
  /\ result \in [Jobs -> {"none", "ok", "failed"}]
  /\ up \in BOOLEAN

(* No worker is between its test for the file and its close of it. *)
Settled(f) ==
  /\ f \in present
  /\ \A w \in Workers : pc[w] \in {"open", "read", "write"} => File(w) # f

(* A file that is there while nobody is about to write it stays as it is,  *)
(* however often a URI of its name is asked for: old files, and downloads  *)
(* that are over, are never overwritten.                                   *)
SettledStays ==
  [][\A f \in Files : Settled(f) => Settled(f)' /\ content'[f] = content[f]]_vars

(* The test and the open of a file are two steps, so that several jobs may *)
(* write one file; but never more jobs than there are workers, since a     *)
(* worker that comes back later finds the file.                            *)
Writers(f) == {j \in opened : FileOf[j] = f}
WritersBounded == \A f \in Files : Cardinality(Writers(f)) <= Cardinality(Workers)

(* What it follows from: whoever opens a file uses up a worker that stands *)
(* before the open, and once the file is there no worker gets there again. *)
AtOpen(f) == {w \in Workers : pc[w] = "open" /\ File(w) = f}
WritersInv ==
  \A f \in Files :
    /\ IsFiniteSet(Writers(f))
    /\ f \notin present => Writers(f) = {}
    /\ Cardinality(Writers(f)) + Cardinality(AtOpen(f)) <= Cardinality(Workers)

(* The buffers of a file up to the first that a short write cut: what is   *)
(* behind that one lies nearer to the start than in the body.              *)
Intact(file) == {n \in 1..Len(file) : \A m \in 1..(n - 1) : file[m].whole}

(* A file that one job alone opened is the beginning of that job's body,   *)
(* up to and including the first buffer that a short write cut: none of    *)
(* these is missing, doubled, of another job or out of order.  What a      *)
(* short write loses is lost: the code goes on with the next buffer.       *)
Sole(j) == \A k \in opened : FileOf[k] = FileOf[j] => k = j
OwnBody ==
  \A j \in opened : Sole(j) =>
    \A n \in Intact(content[FileOf[j]]) :
      /\ n <= BodyLen[j]
      /\ content[FileOf[j]][n].job = j
      /\ content[FileOf[j]][n].number = n

(* A successful download has closed its connection and given back its      *)
(* Http, its name and its URI.  What it leaves is its Downloader and its   *)
(* DownloadData, which nobody frees: the service loses them for every job. *)
Unfreed == {"Downloader", "DownloadData"}
SuccessReleases ==
  \A j \in finished : result[j] = "ok" => j \notin sockets /\ held[j] = Unfreed

(* A job that is finished is never run again: its result stays, and what a *)
(* failed one did not release nobody releases later.                       *)
LeftAsIs(j) ==
  /\ result'[j] = result[j]
  /\ (j \in sockets') <=> (j \in sockets)
  /\ held'[j] = held[j]
FinishedForGood == [][\A j \in finished : j \in finished' /\ LeftAsIs(j)]_vars

(* Downloads uses its pool as WorkQueue, and so ThreadPool, allows.        *)
UsesPool == Pool!Spec

(* Work that waits is started, unless every worker is held by a server     *)
(* that stalls, the pool is told to stop, or the service ends: one worker  *)
(* that nobody holds is enough.                                            *)
AllStuck == \A w \in Workers : running[w] \in silent
StartsUnlessStuck ==
  \A j \in Jobs :
    (j \in Pool!Queued) ~> (j \notin Pool!Queued \/ AllStuck \/ stopping \/ ~up)

(* What the proofs need of a state: a worker has a job exactly when it is  *)
(* in download_worker, and the file it writes has at least what it wrote.  *)
DownloadsInv ==
  /\ TypeOK
  /\ \A w \in Workers : (pc[w] = "idle") <=> (running[w] = NoJob)
  /\ \A w \in Workers : pc[w] \in {"read", "write"} => written[w] <= Len(content[File(w)])

(* A job is in the queue, with one worker or finished, and never twice.    *)
OnceInv ==
  /\ \A i, k \in 1..Len(queue) : queue[i] = queue[k] => i = k
  /\ \A i \in 1..Len(queue) : queue[i] \notin finished /\ \A w \in Workers : running[w] # queue[i]
  /\ \A v, w \in Workers : running[v] = running[w] /\ running[v] # NoJob => v = w
  /\ \A w \in Workers : running[w] \notin finished
  /\ SuccessReleases

(* What is allocated for a job, by where it is.                            *)
HeldInv ==
  /\ \A i \in 1..Len(queue) : held[queue[i]] = FromDownload
  /\ \A w \in Workers :
       /\ pc[w] = "init" => held[running[w]] = FromDownload
       /\ pc[w] \notin {"idle", "init"} => held[running[w]] = Objects

(* Who has opened its file, ...                                            *)
OpenInv ==
  /\ \A j \in opened : /\ j \in finished \/ \E w \in Workers : running[w] = j
                       /\ FileOf[j] \in present
  /\ \A w \in Workers : pc[w] \in {"read", "write"} => running[w] \in opened
  /\ \A w \in Workers : pc[w] \notin {"idle", "read", "write", "free"} => running[w] \notin opened
  /\ \A w \in Workers : pc[w] = "open" /\ File(w) \in present =>
                          \E j \in opened : FileOf[j] = File(w)

(* ... and what is in the file then: the job's buffers in order, short or  *)
(* not.                                                                    *)
InOrder(j) ==
  \A n \in 1..Len(content[FileOf[j]]) :
    /\ n <= BodyLen[j]
    /\ content[FileOf[j]][n].job = j
    /\ content[FileOf[j]][n].number = n
BodyInv ==
  /\ \A f \in Files : f \notin present => content[f] = <<>>
  /\ \A w \in Workers : pc[w] = "read" => written[w] <= BodyLen[running[w]]
  /\ \A w \in Workers : pc[w] = "write" => written[w] < BodyLen[running[w]]
  /\ \A w \in Workers : pc[w] \in {"read", "write"} /\ Sole(running[w]) =>
                          written[w] = Len(content[File(w)])
  /\ \A j \in opened : Sole(j) => InOrder(j)

(* A file that exists is refused (http.c:181 "file '%s' already exists!"), *)
(* so of two jobs of one name one succeeds at most.  It does not hold: the *)
(* test and the open are two steps.                                        *)
OneSuccessPerFile ==
  \A j, k \in Jobs :
    j # k /\ FileOf[j] = FileOf[k] => ~(result[j] = "ok" /\ result[k] = "ok")
=============================================================================
