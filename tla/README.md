# A TLA+ model of graceful-downloader

graceful-downloader is one program that plays two parts. The first process
started is the *service*: it owns a main loop, a command line thread, and a
pool of ten threads that download. Every later process is a *client*: it passes
its arguments to the service through shared memory, prints the reply and exits.

The modules here model the parts of that program where steps of several threads
or processes, the network, the file system or a kill can meet, and the
arithmetic of its buffers. TLC checks them on small instances; TLAPS proves
what matters most for instances of any size. Paths below are relative to the
repository (`src/main.c`, `core/...`).

## 1. Inventory

| component | source | state | operations |
|---|---|---|---|
| process instances | `src/main.c` init, destory; `core/utils.c` `gf_get_process_num_by_name`; `kill-gd.sh` | the names of two semaphores and two shared memory segments; `gMain->isPrimary` in each process | count the processes, create or open the names, size and map the segments, unlink |
| command service | `src/main.c` main, `start_routine`, `stop`, `message_to_client*` | two semaphores, two buffers, `shutdown`, the main loop, `DownloadTask` | a client's write, post, wait, print, wipe; the thread's wait, parse, answer, download, append, post; signal, quit, join, unlink |
| thread pool | `core/thread-pool.c` | list of work, its counter, a mutex, a condition, a flag | init, add_work, routine, destory |
| download manager | `core/download-manager.c`, `core/dm-http.c`, `core/protocol-interface.h` | a `Downloader` per URI | download, download_worker, the three functions of a protocol |
| http | `core/http.c` | `Http`: connection, request, header buffer; the output file | new, request (send, read the header, test for the file, write the body), destroy |
| http request | `core/http-request.c` | host, resource, header list | new, get_string, destroy |
| http header list | `core/http-header.c` | 256 slots of name and value | set, get, clear, get_headers |
| tcp | `core/tcp.c` | socket, TLS context and object | new, connect, close, read, write, destroy |
| log | `core/log.c` | level, one file and its size limit, a mutex | init, print, destroy |
| http response | `core/http-respose.c` | nothing that is used | new, destroy |
| options | `src/main.c:317-413` | none | splitting the request into options and URIs |
| helpers | `core/utils.c` | none | string copies, `.st` files, time |

How they meet:

- A *client* and the *command line thread* share two buffers and no lock; two
  semaphores, and the rule that a client gives up when it counts more than two
  processes, are all that keeps them apart.
- The *command line thread* is the only caller of `download`, which is the only
  caller of `thread_pool_add_work`.
- A *worker* runs `download_worker`, which calls init, download and free of a
  protocol; http is the only one. Workers meet again in the file system: the
  output name is the last part of the URI.
- The *main thread* starts everything and takes it down: it joins the command
  line thread, unlinks the names, then joins the workers. It starts the command
  line thread before it calls `log_init` and `thread_pool_init`.
- *Every thread* logs, under one mutex.

What is hard in it, and what correct means, component by component:

- *thread pool*: a signal sent after the mutex is released, a broadcast without
  the mutex, a counter kept beside the list it counts, creation failing half
  way, and a caller that may come before the pool is set up. Correct, for work
  added afterwards: every piece is run once, in order, none is left behind by a
  lost wakeup, and no thread touches the pool after it is freed.
- *command service*: unlocked buffers, semaphores that a signal or a killed
  client puts out of step, three threads that start and stop in some order.
  Correct: each client prints the reply to its own request, as much of it as the
  buffer has room for; a request for downloads is queued once; the service comes
  to its end when told to.
- *process instances*: counting processes and acting on the number are two
  steps, the count itself may be wrong, names outlive a kill, a segment has a
  name before it has a length. Correct: one service at most, whose names are
  its own; a client's four objects belong together and can be written to; a
  clean end leaves nothing.
- *tcp*: the walk over the addresses leaves and closes sockets, and one
  variable says both "there is a socket" and "it is connected". Correct: true
  means connected (and secure), no descriptor is lost.
- *downloads*: test and open of a file are two steps, end and error of the body
  look alike, a short write passes for a whole one, only success is followed by
  free, any server may stall at any time. Correct: finished files are never
  touched again, a file is the beginning of one body up to its first short write,
  success closes its connection, work waits only while all workers are held.
- *http, request, header list*: two tests before a `g_realloc` are turned round.
  Correct all the same: no byte is written behind a buffer, a short request is
  sent, the body begins behind the first empty line; the slots are a map.
- *log*: the flag that says "initialised" is set before there is a mutex or a
  file, and the length of the file is looked at before it is written. Correct:
  no line before the file is there, the file is bounded, log_print returns.

`PROJECT.json` lists every hazard at its line with the property about it.

## 2. Modules

| module | models | composed of |
|---|---|---|
| `WorkQueue` | what `core/thread-pool.h` promises: an abstract queue | |
| `ThreadPool` | `core/thread-pool.c`, one step per access to shared memory or pthread call | implements `WorkQueue` (`ImplementsWorkQueue`) |
| `Calls` | what a user of the program may rely on: one call after the other, no process or buffer in sight | |
| `CommandService` | the service and its clients once the service exists | implements `Calls` (`ImplementsCalls`) |
| `Instances` | the start and end of processes, the names, kills | |
| `TcpConnection` | `core/tcp.c`, one object and one thread against any network | |
| `Downloads` | `download`, `download_worker`, `dm-http.c`, `http.c` and the files | instantiates `WorkQueue` as the pool (`UsesPool`), takes the outcomes of `TcpConnection` and `Http` |
| `HeaderMap` | what a list of headers is: a bounded map | |
| `HttpHeaders` | `core/http-header.c`, the slots | |
| `Http` | `core/http-request.c` and the header loop of `core/http.c` | extends `HttpHeaders`, implements `HeaderMap` (`ImplementsHeaderMap`) |
| `Log` | `core/log.c` with its callers | |
| `ThreadPoolProofs`, `CommandServiceProofs`, `InstancesProofs`, `TcpConnectionProofs`, `DownloadsProofs`, `HttpProofs`, `LogProofs` | the theorems | each extends its module |
| `MC...` | symmetry sets and small functions for TLC | each extends its module |

The operators named `Mutant: ...` in a comment are not part of the system. Each
is a definition of the model changed as a plausible bug would change it;
`PROJECT.json` says which property finds it.

### ThreadPool

`workerlist` is the linked list as a sequence, `workernum` the counter,
`lock` the holder of the mutex, `wpc[w] = "waiting"` a thread inside
`pthread_cond_wait`. The steps of a worker are the lines of
`thread_pool_routine` (`Lock`, `Check`, `Wait`, `Exit`, `Decide`, `Pop`, `Run`),
those of a caller the lines of `thread_pool_add_work` (`AddWork`, `CallerLock`,
`Insert`, `Count`, `Signal`), those of the owner `thread_pool_init` and
`thread_pool_destory`. `threadpool` can be used from `AllocatePool` on, before
`ResetCount`, `ResetList` and `InitLock`: a caller that comes in between may lose
its work, be in the critical section with another thread (`CounterRace`,
`ListRace`, `PopBoth`) or leave a counter without a list behind, through which a
thread dereferences NULL (`WalkNull`, `PopNull`: the process is `"crashed"`). The
history variable `early` becomes 1 when a caller takes the mutex that early. Work is added once each, which is true of the caller in
this program: every call comes with a `Downloader` of its own. `SpuriousWakeup` is
POSIX's licence. The refinement reads `queue` as the list (with work that is
counted but not yet popped at its head), `running` as what workers hold, and
`closed` as the pool being freed; it promises nothing once `early` is 1.

### CommandService

Clients write `clientBuf`, the thread writes both buffers; a buffer's content is
known by the client it is about, a reply by its texts: `"info"` (help, version,
list of protocols), `"unsupported"` and `"queued"` URIs, each with the byte of
`serverBuf` at which it ends. A text is cut where the buffer ends (`Room`), and one
for which there is no room at all is dropped, as `message_to_client` and
`message_to_client_append` do. A request comes with the lengths of its texts and
is of a kind the parser tells apart: only options, only unsupported URIs, only
supported ones, both. `mpc` follows main and destory, `tpc` follows
`start_routine`, `cpc` a client from its start to its exit. `Signal` is the
handler `stop`: it posts `serviceSem` and asks the main loop to quit. `Kill`
tells a client killed before its post (`"dropped"`) from one killed after it
(`"killed"`), whose request is under way.
`taskDir` is the stack slot of `task.dir`, which no request without `-d` sets:
reading it gives what an earlier request left there, nothing, or a pointer to
anything, which is a directory nobody named (`Stray`) or ends the service
(`DownloadCrashes`, which is also what a NULL pool does). `WorkerDies` is the end
of the service in a worker, by SIGPIPE or in `g_realloc`. `Stop` is
`thread_pool_destory` returning, which it may never do.

`Calls` has no buffers, semaphores or threads. There a call is `"made"` when a
client has written its request (no other call is open then), it hands its
downloads over once, and it is `"over"` with its reply, all of it or as much as an
answer may be long, or with nothing done: `Place` reads this off `cpc`. Whatever disturbs the service (a signal, its
end, a client killed after its post: `~Undisturbed`) sets `disturbed`, after
which `Calls` promises nothing. A request that names a directory is handed over
to that directory; for one that names none `Calls` leaves it open, since the
code does (`stale_dir`).

### Instances

`name` maps each of the four names to the process that created the object;
`has` is what each process has opened, `at` how far it is in the order of init
or destory, `sized` the segments that have their length: between `Open` and
`Truncate` a client may already map the segment of length 0. `Counted` is what
`gf_get_process_num_by_name` may return: the number of live processes; one more
when the output of pidof fills all of `str`, which is then read on without a
terminator; 0 when pidof cannot be run. `blind` remembers that a process in
init counted 0 and so took itself for the service whoever else is there.
`InitFails` is any other failing call of init, an open that fails for another
reason than a name included. `torn` remembers that a process
was killed while it unlinked.

### TcpConnection

One descriptor per address; `answer` fixes what `socket` and `connect` do for
each. `sockfd` is the local variable whose value the code tests after the loop,
`sock` the field. `SSL_connect` is called on whatever socket is left: on one that
every address refused the handshake fails, or writes and so raises SIGPIPE, which
ends the process (`"dead"`). What `SSL_new` returns is not looked at; NULL is a
handshake that fails or one that ends the process. The code for `EINPROGRESS` is out of reach as the
sockets are never made non-blocking (the module says why).

### Downloads

`pc[w]` follows a worker through `download_worker`; a job is one URI. A body is a
sequence of buffers, a file a sequence of buffers at positions; `written` is
the position of a worker's own descriptor. Every early return of
`download_worker` is `Fail`, which releases nothing; success goes through
`Free`, which releases what `dm_http_free` does: `held` names each object
allocated for a job, and the `Downloader` and `DownloadData` are in nobody's
`Freed`. `Stall` is a server that stops sending where a worker waits for it
(`NetworkWaits`: the handshake, the header, the body): its worker takes no
further step. `SetShutdown` and `Close` are the two ends of
`thread_pool_destory`; a worker that looked at the flag before it was set still
starts a job. `ServiceDies` is SIGPIPE at a write, that of the handshake
included, or `g_realloc` aborting in a long header (`Http`); the files stay as
they are. A buffer in a file says whether it was written whole. `Connect` has the four ends
`TcpConnection` shows `tcp_connect` to have: false with or without a socket,
true with a connection or with a socket every address refused. A path that is a
directory is one whose open fails, which every open may.

### HttpHeaders and Http

A list is two arrays of slots; a name stands for all its spellings. `SetValue`,
`GetValue`, `GetHeaders`, `ClearValue` and `ListDestroy` are the functions of
`core/http-header.c`, with the holes that clear leaves; the program calls
set_value only, the model lets a caller use the list for anything (`UseList`).
`HeaderMap` gets the map by reading the slots (`Stored`).

In `Http` a text is its length. `StartRequest`, `AddLine`, `RefuseLine` and
`EndRequest` are `http_request_get_string` with its two limits: the string has
1024 characters, or 1056 more than the path when that is longer than 992, and a
line for which it is too short makes the function give up, since the test after
`g_realloc` is turned round. With the headers the program sends, that refuses
paths just below 992 characters while longer ones succeed. `KeepByte` is the
loop that reads the header: it grows the buffer when there *is* room, by
`step * 512`, with every byte, until the length is beyond an int, which
`g_realloc` takes for more memory than there is. Memory up to the largest int is
assumed to be had. `CutHeader`: an answer that ends in its header counts as one
whose header ended.

### Log

`opens` is what the descriptors of the process are, `fd` the one the log has,
`size` the length of the file of its name. `InitFlag`, `InitMutex`, `InitLock`,
`Settings`, `InitOpen` and `InitUnlock` are the steps of `log_init` in main, which a
thread that logs may see one by one; `Call`, `TestFlag`, `Lock`, `Check`,
`Reopen` and `Write` those of `log_print`. A directory that cannot be made leaves the
old descriptor (0 at the start), a file that cannot be opened gives way to stderr,
which a later `Reopen` closes like any other. Levels of messages are above
`LOG_EMERG`, which no call uses. The unlocked reads of level and flag are read
as memory in the order of the program, which is what x86 gives to aligned words.

## 3. Runs

Runs that pass:

| run | instance | what it shows |
|---|---|---|
| `pool` | 2 workers, 2 callers, 3 jobs (2 when a call comes early), creation may fail, fairness | with no early call: `CountMatchesList`, `NoLostWakeup`, `EveryJobTaken`, and the pool implements the queue (`ImplementsWorkQueue`); always: `QuietWhenFreed`, and `CleanDestroy`: destory returns if callbacks do and no worker missed its broadcast, unless the process ends in an early call's aftermath |
| `calls` | 3 clients, 2 requests (`good` whose reply fits, `mixed` whose second text is cut), 1 signal, 1 kill | undisturbed: the service is what `Calls` says (`ImplementsCalls`), `TurnTaking`, `OwnReply`, `QueuedOnce`; always: `OneAdmitted`, `BoundedDrift`, `ThreadGoneFirst` |
| `calls_live` | 2 clients, 2 requests without a directory (`bad` that fits, `mixed` full with its first text), 2 signals, fairness | `OwnReply`, `Answered`, `JoinsWithToken`, `LoopFindsPool` |
| `instance_names` | 3 processes, 3 kills, counts that fail or read too far, failing calls | `OnePrimary`, `NamesKept`, `Coherent`, `RoomToWrite`, `CleanStart` |
| `tcp_walk` | up to 3 addresses, every mixture of answers | `OneSocket`, `PlainFailureIsClean`, `FirstAccepting` |
| `downloads_shared` | 3 jobs of one name whose file may be there before, 2 workers, any server may stall, shutdown at any time, fairness | `SettledStays`, `OwnBody`, `SuccessReleases`, `WritersBounded`, `StartsUnlessStuck` |
| `http_exchange` | 3 slots, 4 names, paths and hosts on both sides of each test of a length, answers of up to 7 bytes of 3 sorts, a buffer that reaches the largest int | `NamesFit`, `ImplementsHeaderMap`; `RequestFits`, `ShortIsSent`; `HeaderFits`, `LateAbort`, `HeaderEndsRight` |
| `log_file` | main and 2 more threads, 2 calls each, a file and lines of up to 2, rotation or none, every directory and open may fail, fairness | `LinesToFile`, `FileBounded`, `PrintReturns` |

Runs that end in a counterexample, each against a line of the repository:

| run | violated | what happens |
|---|---|---|
| `pool_destroy_hangs` | `DestroyReturns` | a worker between its test and its wait misses flag and broadcast; the join never returns |
| `stop_hangs` | `ServiceStops` | the signal's token is used up before `shutdown` is set; the command line thread waits for ever |
| `stale_dir` | `DirOnlyThisTime` | a request without `-d` uses the directory of an earlier one |
| `downloads_same_file` | `OneSuccessPerFile` | two jobs pass the test for one file, overwrite each other and succeed |

Other things the code does that a reader may not expect are steps of the models,
and the properties are stated so as to say how far they reach:

- `thread_pool_init` frees the pool under running workers when a later
  `pthread_create` fails (`ThreadPool!CreateFails`; `QuietWhenFreed` is about
  `thread_pool_destory`).
- A request that arrives while `thread_pool_init` runs finds a pool that is still
  being set up: its work may be lost, and a worker or caller may then dereference
  NULL (the premise `early = 0` of the properties of `ThreadPool`; the early calls
  are explored).
- A request before `thread_pool_init` goes through a NULL pool
  (`CommandService!DownloadCrashes`; `LoopFindsPool` says that it does not happen
  once the main loop runs).
- A request for downloads without `-d` uses a pointer that was never set, which
  can end the service as a NULL pool does; so can a worker (SIGPIPE, `g_realloc`).
  A crash is an end of the service in every property of `CommandService`.
- A reply of more than 10239 bytes is cut, or loses its second text (`OwnReply` and
  `Calls` say where).
- `thread_pool_destory` may never return: a worker can miss its broadcast
  (`DestroyReturns`) or be held by a server. `JoinsWithToken` and `ServiceStops`
  end where it is called.
- A process that cannot run pidof while a service runs takes itself for the
  service, fails, and unlinks the names of the other (`blind`, in the premises
  of the properties of `Instances`).
- The names a killed service leaves make the next start fail, and that failure
  removes them (`CleanStart` needs that nobody was killed). A service
  killed while it unlinks can leave a client with the objects of two services
  (`torn`, and the premise of `Coherent`).
- `tcp_connect` is true for a plain socket that every address refused
  (`FirstAccepting` leaves exactly this case), begins TLS on such a socket, and
  accepts the result 0 of `SSL_connect`. A failed handshake loses its socket
  (`PlainFailureIsClean` is about plain connections).
- A body that breaks off is a successful download (`OwnBody` speaks of a
  beginning of the body). So is one with a short write in the middle, whose file
  lacks bytes there: `OwnBody` goes as far as the first short write.
- A failed download keeps its socket and memory, and a successful one its
  `Downloader` and `DownloadData`, for every URI (`SuccessReleases` says that these
  two are all).
- A server that stalls keeps its worker, in the middle of a body too, and when
  all are kept nothing starts; once the flag of `thread_pool_destory` is set,
  waiting work is not started at all (`StartsUnlessStuck`).
- A request of more than 1014 characters may be refused (`ShortIsSent`), and a
  header of 2896 kept bytes aborts the service: 1024 + 256 k (k + 1) is beyond
  an int then (`LateAbort`).
- `get_headers` writes behind its array once a name was cleared (`NamesFit`).
- A log that rotates opens the same file again on the same day and so has no
  bound (`FileBounded` is about the other kind, which main asks for); and with
  main's limit, `2 << 30` in an int, no file is ever full.

Why the bounds are enough. Two workers with three jobs and two callers allow one
worker to run, one to sleep or wake, and work to wait; two callers contend for
the mutex, although the program has one; two early jobs are one that is lost and
one that meets what it left behind (the third would multiply the states of a
pool that is broken already). Three clients are the smallest number
where one is refused while another is served and a third comes later. `calls`
takes the kinds `good` (one reply, appended) and `mixed` (a reply of two parts,
one in the middle of the parse); `bad` is answered the way `"info"` is, which is
what an empty request counts as and so comes up when a signal's token is served,
and `calls_live` takes `bad` and `mixed`. Buffers of 6 bytes, texts of 1 to 5: of the
replies that occur some fit, some are cut in their second text and some leave no
room for it. The requests of `calls` name a directory, which the downloads must
reach; those of `calls_live` name none, so that the stack slot, `Stray` and the
crash come up, and in `stale_dir` some do and some do not. The proofs are for
every set of requests and every size of buffer.
Three processes, any of which may be killed, allow a service to be killed, its
successor to fail on its names, and a third to start on a clean table, or a
client to meet objects of two; `Digits` and `Chunk` make the output of pidof fill
the string with two processes and not with one. Three addresses give one
before, at and behind the one that accepts. Two buffers of body, either of which
may be short, make order visible; three jobs of one name are one more than there are workers. Three slots for four
names fill the list; the lengths of the header texts are those of the program,
and the paths stand on both sides of both tests; seven bytes contain every
order of line ends around an empty line. Two threads beside main race for the
last line that fits a file. The bounds in the guards are `MaxSignals`,
`MaxKills`, `MaxBytes`, `MaxCalls`, `EarlyJobs` and the sets of clients, processes and jobs,
each of which acts once; `N` bounds the addresses.
Symmetry is used in runs without fairness only; the properties of steps checked
there (`ThreadGoneFirst`, `ImplementsCalls`) treat the permuted values alike.

`CHECK_DEADLOCK FALSE` stands in every configuration because every system here
may really stop: the service ends, the process dies of a signal, all jobs are
done, or it hangs, which is what the liveness properties are about.

## 4. Fairness

- `ThreadPool!FairSpec`: each thread that can go on does (`WF` on the code
  between two blocking calls); a thread that keeps finding the mutex free gets
  it in the end (`SF`: with `WF` a thread could be passed over for ever, which
  pthread mutexes on a fair scheduler do not do). Callbacks are *not* assumed to
  return: they wait for remote servers that may be silent. `CleanDestroy` has it
  as a premise, and `FairSpecJobsReturn` adds it for `pool_destroy_hangs`, so
  that the hang it finds is none of theirs. Spurious wakeups, calls of add_work and of destory are never forced.
- `CommandService!FairSpec`: `WF` for the main thread, the command line thread
  and each client that was started. No signal, start or kill is forced, and not
  `Stop` either: that `thread_pool_destory` returns is not assumed.
  A semaphore with a token stays enabled for its only taker, so `WF` is enough.
- `Downloads!LiveSpec`: `WF` for each worker that runs, or that is free to take work
  while the pool's flag is not set. No server owes an answer: the timeout of the
  sockets is 136 years (`core/tcp.c:238` gives milliseconds as seconds) and the
  handshake has none, so `Stall` may happen at every wait, is never forced, and
  disables the steps of its worker for good.
- `Log!FairSpec`: as in the pool, `WF` for main and each thread, `SF` for the
  mutex. No call of log_print is forced.
- `Instances`, `TcpConnection` and `Http` have no liveness property.

## 5. Proofs

All theorems hold for every value of the constants that satisfies the named
assumptions, `PoolConstants`, `PoolJobs` and `PoolNames`, `ServiceConstants`,
`InstancesConstants`, `TcpConstants`, `DownloadsConstants`, `HeaderConstants` and
`HttpConstants`, `LogConstants`: sets of processes, clients and workers are
finite, the values for "nobody" are nobody, and numbers are numbers.
Each proof has one step per action.

- `ThreadPoolProofs`. `PoolInv` adds to `CountMatchesList` and `NoLostWakeup`
  who holds the mutex: a thread is inside the critical section exactly if it is
  the holder. Without that, two threads could be between the two accesses
  that move counter and list, as they are after an early call; so this part has
  the premise `early = 0`, and what is left without it (`HolderInv`, `PhaseInv` and
  who carries which work) holds always. From it follow `TypeCorrect`, `CounterCorrect`,
  `WakeupNotLost`, `NothingRunsWhenFreed` and `PoolImplementsQueue`, in which every step maps to one step of `WorkQueue`, a stutter or an early call.
  The same invariant gives the safety half of `CleanDestroy`: `ExitIsNotBlocked`
  (who waits for the mutex waits for one that can go on) and `ExitComesNearer`
  (a worker that finds the flag goes outward only, by the pairs in `Outward`).
- `CommandServiceProofs`. `ServiceInv` follows the one token of a request in
  flight: it is in `serviceSem`, in the hands of the thread, or in `clientSem`
  (`Flying`), and who has it determines what the buffers hold. `OneAdmitted`
  is needed for there to be one token, and rests on an argument about
  cardinality: a client that counts two processes is alone with the service.
  Theorems: `OnlyOneAdmitted`, `TurnsAreTaken`, `RepliesAreOwn`, `HandedOnce`,
  `ThreadLeavesFirst`, `PoolIsFound`, and `DriftIsBounded`, which counts
  tokens against signals and killed clients. `ServiceImplementsCalls` shows that
  each step is one of `Calls` or a stutter: most steps move no call
  (`NoCallMoves`), those of a client move one (`OneCallMoves`), and that it is
  the only open one, unanswered and handed over at most once, is what
  `ServiceInv` says of the token. That a reply cut in two steps is the beginning of
  the whole one is arithmetic on `upto`, for every length. `AnswerIsNotBlocked`
  and `AnswerComesNearer` are the safety half of `Answered`, `EndComesNearer` that
  of `JoinsWithToken`.
- `InstancesProofs`. `InstancesInv` says of the service that the names behind it
  in init are its own. `OneService` again counts: who sees one process is alone.
  `NamesInv` is about the others: names always belong to one process and are
  created and removed from one end, a client that has one of a service's
  objects keeps every other process from becoming the service, and what it has
  opened is what is there. It gives `ObjectsOfOne`, `SegmentHasLength` and
  `NothingInTheWay`.
- `TcpConnectionProofs`. `TcpInv` ties `sockfd` to the set of open descriptors
  at each place of the walk. Theorems: `NeverTwoSockets`, `FirstWins`,
  `PlainNeverLeaks`.
- `DownloadsProofs`. `DownloadsInv` (a worker has a job exactly when it is in
  `download_worker`) gives `SettledFilesStay`. `WritersInv` counts the jobs that
  opened a file and the workers that stand before the open together, which
  no step increases beyond the number of workers; it gives `WritersAreBounded`.
  `OnceInv` says that a job is in one place at a time, `HeldInv` what is allocated for
  it there, and together they give `SuccessIsReleased`. `OpenInv` says who has opened a file, and that a worker
  that still means to open one that is there was preceded by another; with it
  `BodyInv` keeps the position of a sole writer at the end of its file and the
  buffers there in order, short or not, and `BodyIsOwn` follows. `OutcomeIsFinal` is an action property from `OnceInv`: no
  job is run twice. `PoolIsUsedRight` says that a behaviour of `Downloads`, seen
  through the variables of its pool, is one of `WorkQueue`, which
  `PoolImplementsQueue` shows `ThreadPool` to implement.
- `HttpProofs`. `HttpInv` has four parts. The list: names are in one slot each,
  and slots are used from the first on unless one was cleared; so `ListIsMap` and
  `NamesStayInside`. The request: twelve characters are left after each line, which
  the test of the line asks for and the path leaves; so `RequestStaysInside`. How much of
  the string is used is the length of the lines printed so far, stated as the
  cardinality of the set of their characters (`Text`): a sum over the slots
  would need induction, while adding a line adds a disjoint finite set. What is
  used never exceeds the whole, so a refusal means a long request:
  `ShortRequestIsSent`. What was read (`SeenInv`): the last
  byte kept is the last one read that is no return (`LastKept`), so the loop's
  look at two kept bytes is a look at the lines of the answer;
  so `BodyBeginsRight`. The header: with every byte the length
  grows by more than the byte needs, and after k bytes it is
  `BufInit + BufStep * k (k + 1) / 2`; so `HeaderStaysInside` and `AbortIsLate`.
- `LogProofs`. `LogInv`: whoever is between lock and unlock holds the mutex,
  the level is 0 until main holds it, and one descriptor at most is the file,
  the one the log has. Theorems: `LinesReachFile`, `FileStaysBounded`, and the
  safety half of `PrintReturns`: `MutexIsReleased` and `PrintComesNearer`.

The inductive invariants that the modules of the model define can be added to
the configurations, and TLC finds them true; the runs name the properties that
follow from them.

What is left of liveness. A property under fairness is out of reach of TLAPS, for
it needs `ENABLED`, but most of the argument for one is about states and steps:
nobody waits for a step that nobody can take, and each step that must happen
brings the end nearer and is taken back by nobody else. Both are proved where a
property of the code rests on them:

| under fairness | nobody is blocked | each step counts |
|---|---|---|
| `Answered` | `AnswerIsNotBlocked` | `AnswerComesNearer` |
| `JoinsWithToken` | (`Ending` is the condition itself) | `EndComesNearer` |
| `CleanDestroy` | `ExitIsNotBlocked` | `ExitComesNearer` |
| `PrintReturns` | `MutexIsReleased` | `PrintComesNearer` |

"Can go on" is written there as the condition of the code on which a step
waits (a token, a free mutex), not as `ENABLED`; that an action is enabled exactly
then, and the rule that fairness turns the two theorems into the property, is
what remains to TLC. These theorems, `OutcomeIsFinal` and `PoolIsUsedRight` are
about properties no run names, because the ones they support are checked
already; they can be added to the configurations of their modules.

Only model-checked: everything temporal under fairness (`EveryJobTaken`, which
rests on `WakeupNotLost`, `StartsUnlessStuck` and the four above); and the
counterexamples.

## 6. Not modelled

- *http response, string copies, `.st` files, time functions, log_destroy*:
  called by nothing that runs. The string copies are loops over one string
  without state that lives longer than a call.
- *options, registration of protocols, choice of an output name*: parsing and
  formatting; the models keep the decision that comes out.
- *what thread_pool_destory leaks of leftover work*: nothing reads it.
- *demos and build files*.

## 7. Plan

Written, in this order: the pool and the exchange with clients, the heart of
the program; instances, connections and downloads; then what a download rests
on, header list, request and header; the log; and the proofs beside each.

What could follow:

1. An abstract connection with nothing but its outcomes, which `TcpConnection`
   implements and `Downloads` uses, as `WorkQueue` does for the pool; today
   `Downloads!Connect` lists the outcomes that the theorems about
   `TcpConnection` allow.
2. An abstract log (lines in, a bounded file out) and an abstract service (one
   at most, created and gone) for `Log` and `Instances` to implement.
3. `Downloads` over `ThreadPool` in place of `WorkQueue`, so that the shutdown
   of the pool meets downloads that run. For safety the two refinements make it
   unnecessary; liveness of the two together is open.
