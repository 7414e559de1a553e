--------------------------------- MODULE Log ---------------------------------
(***************************************************************************)
(* src/core/log.c: log_init opens a file under a mutex, log_print writes   *)
(* lines to it and opens it anew when it is full.  The thread of the       *)
(* command line runs before main calls log_init (src/main.c:114 and 130),  *)
(* and log_print looks at level and flag without the mutex.  A file is its *)
(* length; lines, times and colours are left out.  log_destroy is called   *)
(* by nobody and not modelled.                                             *)
(***************************************************************************)
EXTENDS Integers

CONSTANTS
  Threads,   (* those that log *)
  Main,      (* the one that calls log_init *)
  Nobody,    (* holds a mutex that is free *)
  Types,     (* LOG_TYPE_FILE, LOG_TYPE_CONSOLE *)
  Levels,    (* levels of messages; LOG_EMERG, 0, is used by none *)
  Level,     (* the level log_init is given *)
  Rotates,   (* whether log_init is given LOG_ROTATE_TRUE *)
  Limit,     (* _log_size *)
  MaxLine,   (* the longest line *)
  MaxCalls   (* bound: calls of log_print by each thread *)

ASSUME LogConstants ==
  /\ Main \in Threads /\ Nobody \notin Threads
  /\ Levels \subseteq Nat \ {0}
  /\ Level \in Nat
  /\ Rotates \subseteq BOOLEAN
  /\ Limit \in Nat /\ MaxLine \in Nat

VARIABLES
  inited,    (* _is_log_init *)
  level,     (* _log_level *)
  rotate,    (* _log_rotate *)
  mutex,     (* who holds _log_mutex *)
  fd,        (* _log_fd *)
  opens,     (* what each descriptor of the process is *)
  named,     (* _path_name is set *)
  size,      (* the length of the file of that name *)
  failed,    (* history: a directory or a file could not be had *)
  ipc,       (* where main is in log_init *)
  ppc,       (* where each thread is in log_print *)
  calls      (* calls of log_print so far *)

config == <<inited, level, rotate>>
output == <<fd, opens, named, size, failed>>
vars   == <<config, mutex, output, ipc, ppc, calls>>

Descriptors == 0..3
Closed(o) == {n \in Descriptors : o[n] = "closed"}

(* The statics as they are compiled, and a file an earlier service left.   *)
Init ==
  /\ inited = FALSE
  /\ level = 0
  /\ rotate = FALSE
  /\ mutex = Nobody
  /\ fd = 0
  /\ opens = [n \in Descriptors |-> IF n = 3 THEN "closed" ELSE "terminal"]
  /\ named = FALSE
  /\ size \in 0..(Limit + MaxLine)
  /\ failed = FALSE
  /\ ipc = "start"
  /\ ppc = [t \in Threads |-> "idle"]
  /\ calls = [t \in Threads |-> 0]
-----------------------------------------------------------------------------
(* open takes the lowest number that is free, or fails: then stderr it is. *)
OpenWorks(o) ==
  \E n \in Closed(o) :
    /\ \A k \in Closed(o) : n <= k
    /\ fd' = n
    /\ opens' = [o EXCEPT ![n] = "file"]
    /\ UNCHANGED failed

OpenFails(o) ==
  /\ fd' = 2
  /\ opens' = o
  /\ failed' = TRUE

(* check_dir fails: _log_fd stays what it was. *)
NoDirectory(o) ==
  /\ opens' = o
  /\ failed' = TRUE
  /\ UNCHANGED <<fd, named>>

(* Mutant: the level is set before the mutex is taken. *)
InitFlagWithLevel ==
  /\ ipc = "start"
  /\ inited' = TRUE
  /\ level' = Level
  /\ ipc' = "once"
  /\ UNCHANGED <<rotate, mutex, output, ppc, calls>>

(* log_init: pthread_once sets the flag of log_print, ...                  *)
InitFlag ==
  /\ ipc = "start"
  /\ inited' = TRUE
  /\ ipc' = "once"
  /\ UNCHANGED <<level, rotate, mutex, output, ppc, calls>>

(* ... and then makes the mutex, whoever may have taken it as it was; ...  *)
InitMutex ==
  /\ ipc = "once"
  /\ mutex' = Nobody
  /\ ipc' = "lock"
  /\ UNCHANGED <<config, output, ppc, calls>>

InitLock ==
  /\ ipc = "lock"
  /\ mutex = Nobody
  /\ mutex' = Main
  /\ ipc' = "settings"
  /\ UNCHANGED <<config, output, ppc, calls>>

(* ... the statics are assigned, of which log_print reads the level ...    *)
Settings ==
  /\ ipc = "settings"
  /\ level' = Level
  /\ rotate' \in Rotates
  /\ ipc' = "open"
  /\ UNCHANGED <<inited, mutex, output, ppc, calls>>

(* ... and the file of today is opened. *)
InitOpen ==
  /\ ipc = "open"
  /\ \/ "console" \in Types /\ fd' = 1 /\ UNCHANGED <<opens, named, failed>>
     \/ "file" \in Types /\ NoDirectory(opens)
     \/ "file" \in Types /\ named' = TRUE /\ (OpenWorks(opens) \/ OpenFails(opens))
  /\ ipc' = "unlock"
  /\ UNCHANGED <<config, mutex, size, ppc, calls>>

(* Mutant: the way out after an error forgets the mutex. *)
InitUnlockForgotten ==
  /\ ipc = "unlock"
  /\ mutex' = IF failed THEN mutex ELSE Nobody
  /\ ipc' = "done"
  /\ UNCHANGED <<config, output, ppc, calls>>

InitUnlock ==
  /\ ipc = "unlock"
  /\ mutex' = Nobody
  /\ ipc' = "done"
  /\ UNCHANGED <<config, output, ppc, calls>>
-----------------------------------------------------------------------------
GoTo(t, where) == ppc' = [ppc EXCEPT ![t] = where]

(* log_print: too low a level is dropped, which is all that keeps threads  *)
(* that log before log_init away from the mutex.                           *)
Call(t, l) ==
  /\ ppc[t] = "idle"
  /\ t = Main => ipc = "done"
  /\ calls[t] < MaxCalls
  /\ calls' = [calls EXCEPT ![t] = @ + 1]
  /\ GoTo(t, IF l > level THEN "idle" ELSE "flag")
  /\ UNCHANGED <<config, mutex, output, ipc>>

TestFlag(t) ==
  /\ ppc[t] = "flag"
  /\ GoTo(t, IF inited THEN "lock" ELSE "idle")
  /\ UNCHANGED <<config, mutex, output, ipc, calls>>

(* Mutant: the mutex is not waited for. *)
LockIgnored(t) ==
  /\ ppc[t] = "lock"
  /\ mutex' = t
  /\ GoTo(t, "check")
  /\ UNCHANGED <<config, output, ipc, calls>>

Lock(t) ==
  /\ ppc[t] = "lock"
  /\ mutex = Nobody
  /\ mutex' = t
  /\ GoTo(t, "check")
  /\ UNCHANGED <<config, output, ipc, calls>>

(* _log_write asks for the length of the file of the name it has. *)
Check(t) ==
  /\ ppc[t] = "check"
  /\ GoTo(t, IF named /\ size > Limit THEN "reopen" ELSE "write")
  /\ UNCHANGED <<config, mutex, output, ipc, calls>>

(* It is closed and opened anew: emptied, or, to rotate, by the name of    *)
(* the day, which may be the same.                                         *)
Reopen(t) ==
  /\ ppc[t] = "reopen"
  /\ LET o == [opens EXCEPT ![fd] = "closed"] IN
       \/ ~rotate /\ OpenWorks(o) /\ size' = 0 /\ UNCHANGED named
       \/ rotate /\ OpenWorks(o) /\ size' \in {0, size} /\ UNCHANGED named
       \/ rotate /\ NoDirectory(o) /\ UNCHANGED size
       \/ OpenFails(o) /\ size' \in (IF rotate THEN {0, size} ELSE {size}) /\ UNCHANGED named
  /\ GoTo(t, "write")
  /\ UNCHANGED <<config, mutex, ipc, calls>>

(* writev writes all of the line, a part of it, or nothing. *)
Write(t) ==
  /\ ppc[t] = "write"
  /\ \E n \in 0..MaxLine :
       size' = IF opens[fd] = "file" THEN size + n ELSE size
  /\ mutex' = Nobody
  /\ GoTo(t, "idle")
  /\ UNCHANGED <<config, fd, opens, named, failed, ipc, calls>>
-----------------------------------------------------------------------------
InitSteps   == InitFlag \/ InitMutex \/ InitLock \/ Settings \/ InitOpen \/ InitUnlock
Printing(t) == TestFlag(t) \/ Check(t) \/ Reopen(t) \/ Write(t)

Next ==
  \/ InitSteps
  \/ \E t \in Threads :
       \/ \E l \in Levels : Call(t, l)
       \/ Lock(t) \/ Printing(t)

Spec == Init /\ [][Next]_vars

(* Threads that can go on do, and one that keeps finding the mutex free    *)
(* gets it in the end.                                                     *)
FairSpec ==
  /\ Spec
  /\ WF_vars(InitFlag \/ InitMutex \/ Settings \/ InitOpen \/ InitUnlock) /\ SF_vars(InitLock)
  /\ \A t \in Threads : WF_vars(Printing(t)) /\ SF_vars(Lock(t))
-----------------------------------------------------------------------------
Inside == {t \in Threads : ppc[t] \in {"check", "reopen", "write"}}

(* A line is written when log_init is through, although the flag is set    *)
(* before the file is open and threads log all the time: and to the file,  *)
(* unless the log is a console or something could not be opened.           *)
LinesToFile ==
  \A t \in Inside :
    /\ ipc = "done"
    /\ ppc[t] = "write" /\ named /\ ~failed => opens[fd] = "file"

(* A log that is not rotated never grows by more than one line beyond its  *)
(* limit, however many threads write and whatever fails.                   *)
FileBounded == ~rotate => size <= Limit + MaxLine

(* log_print returns, whatever log_init could not open. *)
PrintReturns == \A t \in Threads : ppc[t] # "idle" ~> ppc[t] = "idle"

(* What it rests on beside fairness: each step of a thread in log_print    *)
(* brings it nearer to its return, whatever others do meanwhile, ...       *)
StepsToReturn(t) ==
  LET left == [idle |-> 0, write |-> 1, reopen |-> 2, check |-> 3, lock |-> 4, flag |-> 5]
  IN  left[ppc[t]]
ReturnNearer ==
  [][\A t \in Threads : ppc[t] # "idle" /\ ppc'[t] # ppc[t] =>
       StepsToReturn(t)' < StepsToReturn(t)]_vars

(* ... and the mutex it waits for is free, or its holder is at a step that *)
(* waits for nothing.                                                      *)
HolderCanGo ==
  mutex = Nobody \/ mutex \in Inside \/ (mutex = Main /\ ipc \in {"settings", "open", "unlock"})

(* What the safety properties follow from: types, ...                      *)
TypeOK ==
  /\ inited \in BOOLEAN /\ rotate \in BOOLEAN /\ named \in BOOLEAN /\ failed \in BOOLEAN
  /\ level \in Nat /\ size \in Nat
  /\ mutex \in Threads \cup {Nobody}
  /\ fd \in Descriptors
  /\ opens \in [Descriptors -> {"terminal", "closed", "file"}]
  /\ ipc \in {"start", "once", "lock", "settings", "open", "unlock", "done"}
  /\ ppc \in [Threads -> {"idle", "flag", "lock", "check", "reopen", "write"}]
  /\ calls \in [Threads -> Nat]

(* ... who is in whose way, ...                                            *)
Turns ==
  /\ \A t \in Inside : mutex = t
  /\ ipc \in {"settings", "open", "unlock"} => mutex = Main
  /\ ipc # "done" => ppc[Main] = "idle"
  /\ ipc \in {"start", "once", "lock"} => level = 0 /\ \A t \in Threads : ppc[t] = "idle"

(* ... and what the descriptors are.                                       *)
Files ==
  /\ \A n \in Descriptors : opens[n] = "file" => named /\ n = fd
  /\ \A t \in Threads : ppc[t] = "reopen" => named
  /\ named /\ ~failed => opens[fd] = "file"
  /\ named => ipc \in {"unlock", "done"}
  /\ ipc \in {"start", "once", "lock", "settings"} => ~rotate
  /\ FileBounded
  /\ ~rotate => \A t \in Threads : ppc[t] = "write" /\ opens[fd] = "file" => size <= Limit

LogInv == TypeOK /\ Turns /\ Files
=============================================================================
