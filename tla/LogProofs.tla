------------------------------ MODULE LogProofs ------------------------------
(***************************************************************************)
(* The safety properties of Log for any number of threads and calls, any   *)
(* limit and any length of lines.                                          *)
(***************************************************************************)
EXTENDS Log, TLAPS

USE DEF Descriptors

LEMMA InvInit == Init => LogInv
  <1> SUFFICES ASSUME Init PROVE LogInv
      OBVIOUS
  <1>1. size \in Nat /\ size <= Limit + MaxLine
      BY LogConstants DEF Init
  <1>2. TypeOK
    <2>1. /\ opens \in [Descriptors -> {"terminal", "closed", "file"}]
          /\ ppc \in [Threads -> {"idle", "flag", "lock", "check", "reopen", "write"}]
          /\ calls \in [Threads -> Nat]
        BY DEF Init
    <2>2. inited \in BOOLEAN /\ rotate \in BOOLEAN /\ named \in BOOLEAN /\ failed \in BOOLEAN
        BY DEF Init
    <2> QED
        BY <1>1, <2>1, <2>2, LogConstants DEF Init, TypeOK
  <1>3. Turns
      BY LogConstants DEF Init, Turns, Inside
  <1>4. Files
      BY <1>1 DEF Init, Files, FileBounded
  <1> QED
      BY <1>2, <1>3, <1>4 DEF LogInv

(* Nobody but the holder of the mutex is inside.                           *)
LEMMA OneInside ==
  ASSUME LogInv, NEW t \in Threads, t \in Inside
  PROVE  /\ mutex = t /\ Inside = {t}
         /\ ipc = "done"
         /\ \A u \in Threads : ppc[u] \in {"check", "reopen", "write"} => u = t
  <1>1. mutex = t /\ \A u \in Inside : u = t
      BY DEF LogInv, Turns
  <1>2. ppc[t] # "idle"
      BY DEF Inside
  <1>3. ipc = "done"
      BY <1>1, <1>2 DEF LogInv, Turns, TypeOK
  <1> QED
      BY <1>1, <1>3 DEF Inside

LEMMA InitFlagStep == ASSUME LogInv, InitFlag PROVE LogInv'
  <1>1. TypeOK'
      BY DEF LogInv, TypeOK, InitFlag, output
  <1>2. Turns'
      BY DEF LogInv, Turns, Inside, InitFlag, output
  <1>3. Files'
      BY DEF LogInv, Files, FileBounded, InitFlag, output
  <1> QED
      BY <1>1, <1>2, <1>3 DEF LogInv

(* The mutex is made while nobody is inside: the level is still 0.         *)
LEMMA InitMutexStep == ASSUME LogInv, InitMutex PROVE LogInv'
  <1>1. TypeOK'
      BY DEF LogInv, TypeOK, InitMutex, config, output
  <1>2. Turns'
      BY DEF LogInv, Turns, Inside, InitMutex, config, output
  <1>3. Files'
      BY DEF LogInv, Files, FileBounded, InitMutex, config, output
  <1> QED
      BY <1>1, <1>2, <1>3 DEF LogInv

LEMMA InitLockStep == ASSUME LogInv, InitLock PROVE LogInv'
  <1>1. TypeOK'
      BY LogConstants DEF LogInv, TypeOK, InitLock, config, output
  <1>2. Turns'
      BY LogConstants DEF LogInv, Turns, Inside, InitLock, config, output
  <1>3. Files'
      BY DEF LogInv, Files, FileBounded, InitLock, config, output
  <1> QED
      BY <1>1, <1>2, <1>3 DEF LogInv

LEMMA SettingsStep == ASSUME LogInv, Settings PROVE LogInv'
  <1>1. TypeOK'
      BY LogConstants DEF LogInv, TypeOK, Settings, output
  <1>2. Turns'
      BY DEF LogInv, Turns, Inside, Settings, output
  <1>3. \A t \in Threads : t \notin Inside
      BY DEF LogInv, Turns, Inside, Settings
  <1>4. Files'
      BY <1>3 DEF LogInv, Files, FileBounded, Settings, output, Inside
  <1> QED
      BY <1>1, <1>2, <1>4 DEF LogInv

(* What opening leaves, when nothing is open as the file.                  *)
LEMMA Opening ==
  ASSUME NEW o \in [Descriptors -> {"terminal", "closed", "file"}],
         \A n \in Descriptors : o[n] # "file",
         failed \in BOOLEAN,
         OpenWorks(o) \/ OpenFails(o)
  PROVE  /\ fd' \in Descriptors /\ failed' \in BOOLEAN
         /\ opens' \in [Descriptors -> {"terminal", "closed", "file"}]
         /\ \A n \in Descriptors : opens'[n] = "file" => n = fd'
         /\ ~failed' => opens'[fd'] = "file"
         /\ OpenFails(o) => opens'[fd'] # "file"
  <1>1. CASE OpenWorks(o)
    <2>1. PICK n \in Closed(o) : fd' = n /\ opens' = [o EXCEPT ![n] = "file"] /\ failed' = failed
        BY <1>1 DEF OpenWorks
    <2>2. n \in Descriptors
        BY DEF Closed
    <2>3. opens'[fd'] = "file"
        BY <2>1, <2>2
    <2>4. ~OpenFails(o)
        BY <2>2, <2>3 DEF OpenFails
    <2> QED
        BY <2>1, <2>2, <2>3, <2>4
  <1>2. CASE OpenFails(o)
      BY <1>2 DEF OpenFails
  <1> QED
      BY <1>1, <1>2

LEMMA InitOpenStep == ASSUME LogInv, InitOpen PROVE LogInv'
  <1> USE DEF LogInv, InitOpen
  <1>1. /\ UNCHANGED <<inited, level, rotate, mutex, size, ppc, calls>>
        /\ ipc = "open" /\ ipc' = "unlock" /\ ~named
      BY DEF config, Files, TypeOK
  <1>2. \A n \in Descriptors : opens[n] # "file"
      BY <1>1 DEF Files
  <1>3. /\ fd' \in Descriptors /\ failed' \in BOOLEAN /\ named' \in BOOLEAN
        /\ opens' \in [Descriptors -> {"terminal", "closed", "file"}]
        /\ \A n \in Descriptors : opens'[n] = "file" => named' /\ n = fd'
        /\ named' /\ ~failed' => opens'[fd'] = "file"
    <2>1. CASE "console" \in Types /\ fd' = 1 /\ UNCHANGED <<opens, named, failed>>
        BY <2>1, <1>1, <1>2 DEF TypeOK
    <2>2. CASE NoDirectory(opens)
        BY <2>2, <1>1, <1>2 DEF TypeOK, NoDirectory
    <2>3. CASE named' = TRUE /\ (OpenWorks(opens) \/ OpenFails(opens))
        BY <2>3, <1>2, Opening DEF TypeOK
    <2> QED
        BY <2>1, <2>2, <2>3
  <1>4. TypeOK'
      BY <1>1, <1>3 DEF TypeOK
  <1>5. Turns'
      BY <1>1 DEF Turns, Inside
  <1>6. \A t \in Threads : ppc[t] \notin {"check", "reopen", "write"}
      BY <1>1 DEF Turns, Inside
  <1>7. Files'
      BY <1>1, <1>3, <1>6 DEF Files, FileBounded
  <1> QED
      BY <1>4, <1>5, <1>7

LEMMA InitUnlockStep == ASSUME LogInv, InitUnlock PROVE LogInv'
  <1>1. TypeOK'
      BY DEF LogInv, TypeOK, InitUnlock, config, output
  <1>2. \A t \in Threads : t \notin Inside
      BY DEF LogInv, Turns, Inside, InitUnlock
  <1>3. Turns'
      BY <1>2 DEF LogInv, Turns, Inside, InitUnlock, config, output
  <1>4. Files'
      BY DEF LogInv, Files, FileBounded, InitUnlock, config, output
  <1> QED
      BY <1>1, <1>3, <1>4 DEF LogInv

(* A call that is not dropped needs a level log_init has set.              *)
LEMMA CallStep ==
  ASSUME LogInv, NEW t \in Threads, NEW l \in Levels, Call(t, l)
  PROVE  LogInv'
  <1> USE DEF LogInv, Call, GoTo
  <1>1. TypeOK'
      BY DEF TypeOK, config, output
  <1>2. l \in Nat /\ l > 0
      BY LogConstants
  <1>3. ipc \in {"start", "once", "lock"} => ppc'[t] = "idle"
      BY <1>2 DEF Turns, TypeOK
  <1>4. Turns'
      BY <1>3 DEF Turns, TypeOK, Inside, config, output
  <1>5. Files'
      BY DEF Files, FileBounded, TypeOK, config, output
  <1> QED
      BY <1>1, <1>4, <1>5

LEMMA TestFlagStep ==
  ASSUME LogInv, NEW t \in Threads, TestFlag(t)
  PROVE  LogInv'
  <1> USE DEF LogInv, TestFlag, GoTo
  <1>1. TypeOK'
      BY DEF TypeOK, config, output
  <1>2. Turns'
      BY DEF Turns, TypeOK, Inside, config, output
  <1>3. Files'
      BY DEF Files, FileBounded, TypeOK, config, output
  <1> QED
      BY <1>1, <1>2, <1>3

LEMMA LockStep ==
  ASSUME LogInv, NEW t \in Threads, Lock(t)
  PROVE  LogInv'
  <1> USE DEF LogInv, Lock, GoTo
  <1>1. TypeOK'
      BY DEF TypeOK, config, output
  <1>2. \A u \in Threads : ppc[u] \notin {"check", "reopen", "write"}
      BY LogConstants DEF Turns, Inside
  <1>3. ipc = "done"
      BY LogConstants DEF Turns, TypeOK
  <1>4. Turns'
      BY <1>2, <1>3 DEF Turns, TypeOK, Inside, config, output
  <1>5. Files'
      BY <1>2 DEF Files, FileBounded, TypeOK, config, output
  <1> QED
      BY <1>1, <1>4, <1>5

LEMMA CheckStep ==
  ASSUME LogInv, NEW t \in Threads, Check(t)
  PROVE  LogInv'
  <1> USE DEF LogInv, Check, GoTo
  <1>1. /\ UNCHANGED <<inited, level, rotate, mutex, fd, opens, named, size, failed, ipc, calls>>
        /\ ppc' = [ppc EXCEPT ![t] = IF named /\ size > Limit THEN "reopen" ELSE "write"]
        /\ t \in Inside
      BY DEF config, output, Inside
  <1>2. TypeOK'
      BY <1>1 DEF TypeOK
  <1>3. Turns'
      BY <1>1, OneInside DEF Turns, TypeOK, Inside
  <1>4. ASSUME NEW u \in Threads, ppc'[u] = "reopen"
        PROVE  named
      BY <1>1, <1>4 DEF Files, TypeOK
  <1>5. ASSUME ~rotate, NEW u \in Threads, ppc'[u] = "write", opens[fd] = "file"
        PROVE  size <= Limit
    <2>1. named
        BY <1>5 DEF Files, TypeOK
    <2>2. u = t /\ ~(size > Limit)
        BY <1>1, <1>5, <2>1, OneInside DEF TypeOK
    <2> QED
        BY <2>2, LogConstants DEF TypeOK
  <1>6. Files'
      BY <1>1, <1>4, <1>5 DEF Files, FileBounded
  <1> QED
      BY <1>2, <1>3, <1>6

LEMMA ReopenStep ==
  ASSUME LogInv, NEW t \in Threads, Reopen(t)
  PROVE  LogInv'
  <1> USE DEF LogInv
  <1> DEFINE o == [opens EXCEPT ![fd] = "closed"]
  <1>1. /\ UNCHANGED <<inited, level, rotate, mutex, ipc, calls>>
        /\ ppc[t] = "reopen" /\ ppc' = [ppc EXCEPT ![t] = "write"]
        /\ t \in Inside /\ named
      BY DEF Reopen, GoTo, config, Inside, Files
  <1>2. /\ o \in [Descriptors -> {"terminal", "closed", "file"}]
        /\ \A n \in Descriptors : o[n] # "file"
      BY DEF Files, TypeOK
  <1>3. /\ named' = named
        /\ \/ OpenWorks(o) /\ (rotate \/ size' = 0)
           \/ NoDirectory(o)
           \/ OpenFails(o)
        /\ size' \in {0, size}
      BY DEF Reopen, NoDirectory
  <1>4. /\ fd' \in Descriptors /\ failed' \in BOOLEAN
        /\ opens' \in [Descriptors -> {"terminal", "closed", "file"}]
        /\ \A n \in Descriptors : opens'[n] = "file" => n = fd'
        /\ ~failed' => opens'[fd'] = "file"
    <2>1. CASE OpenWorks(o) \/ OpenFails(o)
      <3>1. failed \in BOOLEAN
          BY DEF TypeOK
      <3> QED
          BY <2>1, <3>1, <1>2, Opening
    <2>2. CASE NoDirectory(o)
        BY <2>2, <1>2 DEF NoDirectory, TypeOK
    <2> QED
        BY <2>1, <2>2, <1>3
  <1>5. ~rotate /\ opens'[fd'] = "file" => size' = 0
    <2>1. CASE OpenFails(o)
      <3>1. failed \in BOOLEAN
          BY DEF TypeOK
      <3> QED
          BY <2>1, <3>1, <1>2, Opening
    <2>2. CASE NoDirectory(o)
        BY <2>2, <1>2 DEF NoDirectory, TypeOK
    <2> QED
        BY <2>1, <2>2, <1>3
  <1> HIDE DEF o
  <1>6. TypeOK'
      BY <1>1, <1>3, <1>4 DEF TypeOK
  <1>7. Turns'
      BY <1>1, OneInside DEF Turns, TypeOK, Inside
  <1>8. \A u \in Threads : ppc'[u] # "reopen"
      BY <1>1, OneInside DEF TypeOK
  <1>9. FileBounded'
      BY <1>1, <1>3, LogConstants DEF Files, FileBounded, TypeOK
  <1>10. Files'
      BY <1>1, <1>3, <1>4, <1>5, <1>8, <1>9, LogConstants DEF Files, TypeOK
  <1> QED
      BY <1>6, <1>7, <1>10

LEMMA WriteStep ==
  ASSUME LogInv, NEW t \in Threads, Write(t)
  PROVE  LogInv'
  <1> USE DEF LogInv
  <1>1. /\ UNCHANGED <<inited, level, rotate, fd, opens, named, failed, ipc, calls>>
        /\ ppc[t] = "write" /\ ppc' = [ppc EXCEPT ![t] = "idle"]
        /\ mutex' = Nobody /\ t \in Inside
      BY DEF Write, GoTo, config, Inside
  <1>2. PICK n \in 0..MaxLine : size' = IF opens[fd] = "file" THEN size + n ELSE size
      BY DEF Write
  <1>3. size' \in Nat
      BY <1>2, LogConstants DEF TypeOK
  <1>4. TypeOK'
      BY <1>1, <1>3 DEF TypeOK
  <1>5. ipc = "done" /\ \A u \in Threads : ppc'[u] \notin {"check", "reopen", "write"}
      BY <1>1, OneInside DEF TypeOK
  <1>6. Turns'
      BY <1>1, <1>5, LogConstants DEF Turns, Inside, TypeOK
  <1>7. ~rotate => size' <= Limit + MaxLine
    <2>1. CASE opens[fd] = "file"
        BY <2>1, <1>1, <1>2, LogConstants DEF Files, TypeOK
    <2>2. CASE opens[fd] # "file"
        BY <2>2, <1>2 DEF Files, FileBounded
    <2> QED
        BY <2>1, <2>2
  <1>8. Files'
      BY <1>1, <1>5, <1>7 DEF Files, FileBounded
  <1> QED
      BY <1>4, <1>6, <1>8

LEMMA InvStutter == LogInv /\ UNCHANGED vars => LogInv'
  BY DEF LogInv, TypeOK, Turns, Files, FileBounded, Inside, vars, config, output

LEMMA InvStep == LogInv /\ [Next]_vars => LogInv'
  <1> SUFFICES ASSUME LogInv, Next PROVE LogInv'
      BY InvStutter
  <1>1. CASE InitSteps
      BY <1>1, InitFlagStep, InitMutexStep, InitLockStep, SettingsStep, InitOpenStep, InitUnlockStep DEF InitSteps
  <1>2. ASSUME NEW t \in Threads, NEW l \in Levels, Call(t, l)
        PROVE  LogInv'
      BY <1>2, CallStep
  <1>3. ASSUME NEW t \in Threads, Lock(t) \/ Printing(t)
        PROVE  LogInv'
      BY <1>3, LockStep, TestFlagStep, CheckStep, ReopenStep, WriteStep DEF Printing
  <1> QED
      BY <1>1, <1>2, <1>3 DEF Next

(* Types, turns and files hold in every reachable state.                   *)
THEOREM LogInvariant == Spec => []LogInv
  <1> QED
      BY InvInit, InvStep, PTL DEF Spec

(* Every line comes after log_init and, if nothing failed, goes to the     *)
(* file, although threads log before main opens it.                        *)
THEOREM LinesReachFile == Spec => []LinesToFile
  <1>1. LogInv => LinesToFile
      BY OneInside DEF LinesToFile, LogInv, Files, Inside
  <1> QED
      BY <1>1, LogInvariant, PTL

(* For any number of threads the file stays within one line of the limit.  *)
THEOREM FileStaysBounded == Spec => []FileBounded
  <1>1. LogInv => FileBounded
      BY DEF LogInv, Files
  <1> QED
      BY <1>1, LogInvariant, PTL

(* The safety half of PrintReturns: whoever holds the mutex waits for      *)
(* nothing, ...                                                            *)
THEOREM MutexIsReleased == Spec => []HolderCanGo
  <1> DEFINE Held == mutex # Nobody =>
                       mutex \in Inside \/ (mutex = Main /\ ipc \in {"settings", "open", "unlock"})
  <1>1. Init => Held
      BY DEF Init
  <1>2. LogInv /\ Held /\ [Next]_vars => Held'
    <2> SUFFICES ASSUME LogInv, Held, [Next]_vars PROVE Held'
        OBVIOUS
    <2> USE LogConstants DEF LogInv, TypeOK, Turns, Inside
    <2>1. CASE InitSteps
        BY <2>1 DEF InitSteps, InitFlag, InitMutex, InitLock, Settings, InitOpen, InitUnlock
    <2>2. ASSUME NEW t \in Threads, NEW l \in Levels, Call(t, l) PROVE Held'
        BY <2>2 DEF Call, GoTo
    <2>3. ASSUME NEW t \in Threads, Lock(t) \/ Printing(t) PROVE Held'
        BY <2>3 DEF Lock, Printing, TestFlag, Check, Reopen, Write, GoTo
    <2>4. CASE UNCHANGED vars
        BY <2>4 DEF vars
    <2> QED
        BY <2>1, <2>2, <2>3, <2>4 DEF Next
  <1>3. Held => HolderCanGo
      BY DEF HolderCanGo
  <1> HIDE DEF Held
  <1> QED
      BY <1>1, <1>2, <1>3, LogInvariant, PTL DEF Spec

(* ... and each step of log_print is one step nearer to its return.        *)
THEOREM PrintComesNearer == Spec => ReturnNearer
  <1>1. LogInv /\ [Next]_vars =>
          [\A t \in Threads : ppc[t] # "idle" /\ ppc'[t] # ppc[t] =>
             StepsToReturn(t)' < StepsToReturn(t)]_vars
    <2> SUFFICES ASSUME LogInv, Next, NEW t \in Threads, ppc[t] # "idle", ppc'[t] # ppc[t]
                 PROVE  StepsToReturn(t)' < StepsToReturn(t)
        OBVIOUS
    <2>1. ppc \in [Threads -> {"idle", "flag", "lock", "check", "reopen", "write"}]
        BY DEF LogInv, TypeOK
    <2>2. PICK u \in Threads : Lock(u) \/ Printing(u) \/ \E l \in Levels : Call(u, l)
        BY DEF Next, InitSteps, InitFlag, InitMutex, InitLock, Settings, InitOpen, InitUnlock
    <2>3. u = t
        BY <2>1, <2>2 DEF Lock, Printing, TestFlag, Check, Reopen, Write, Call, GoTo
    <2>4. <<ppc[t], ppc'[t]>> \in {<<"flag", "lock">>, <<"flag", "idle">>, <<"lock", "check">>,
                                  <<"check", "reopen">>, <<"check", "write">>,
                                  <<"reopen", "write">>, <<"write", "idle">>}
        BY <2>1, <2>2, <2>3 DEF Lock, Printing, TestFlag, Check, Reopen, Write, Call, GoTo
    <2> QED
        BY <2>4 DEF StepsToReturn
  <1> QED
      BY <1>1, LogInvariant, PTL DEF Spec, ReturnNearer
==============================================================================
