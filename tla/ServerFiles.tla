---------------------------- MODULE ServerFiles ----------------------------
(***************************************************************************)
(* The files a server process leaves behind, from util.cpp: WritePidFile,  *)
(* whose lock on the pid file keeps a second server from starting, and     *)
(* ShmKeyDump, which logs the keys of the shared memory a server creates   *)
(* and moves the log of the server before it to a backup.  Processes       *)
(* start, run these calls one system call at a time, and may die anywhere; *)
(* the files stay, and the lock goes.  Nothing in the repository calls the *)
(* two: of a caller the module assumes that it stops if WritePidFile does  *)
(* not return 0, and it may call Init once and push keys at any time.      *)
(***************************************************************************)
EXTENDS Integers, Sequences

CONSTANTS Proc,       (* the processes, over time                            *)
          Pid,        (* [Proc -> Seq(0 .. 9)], getpid() in decimal          *)
          NoProc,
          MaxPushes,  (* bound: keys a process pushes                        *)
          MaxClock    (* bound: the seconds that pass                        *)

ASSUME FilesAssumption ==
  /\ NoProc \notin Proc
  /\ Pid \in [Proc -> Seq(0 .. 9)] /\ \A p \in Proc : Len(Pid[p]) > 0
  /\ MaxPushes \in Nat /\ MaxClock \in Nat

VARIABLES
  alive,     (* [Proc -> BOOLEAN]                                            *)
  pc,        (* [Proc -> Labels], the system call that comes next            *)
  pidRet,    (* [Proc -> {1, 0, -1}], of WritePidFile; 1: has not returned   *)
  pidFile,   (* Seq(0 .. 10), the pid file's bytes                           *)
  lock,      (* the process that has the write lock on it, or NoProc         *)
  clock,     (* time(NULL)                                                   *)
  when,      (* [Proc -> -1 .. MaxClock], the second ShmKeyDump::Init read   *)
  init_,     (* [Proc -> BOOLEAN]                                            *)
  dump,      (* the file that bears the dump's name, called after the        *)
             (* process that created it, or NoProc                           *)
  backup,    (* [0 .. MaxClock -> Proc or NoProc], the same for its backups  *)
  content,   (* [Proc -> Seq(key)], of the file the process created          *)
  fd,        (* [Proc -> Proc or NoProc], the file PushKey has open          *)
  log,       (* [Proc -> Seq(key)], history: keys whose PushKey succeeded    *)
  pushes     (* [Proc -> Nat], calls of PushKey                              *)

pidVars == <<pidRet, pidFile, lock>>
dumpVars == <<when, init_, dump, backup, content, fd, log, pushes>>
vars == <<alive, pc, clock, pidVars, dumpVars>>

Labels == {"idle", "lock", "write", "access", "rename", "create", "append"}
NL == 10

-----------------------------------------------------------------------------
(* Broken variants, each standing for a plausible change of the code. *)
WriteAtStart_Appends(file, text) == file \o text
LockAfterWrite_Closed(p) == NoProc
BackupName_Plain(p) == 0
Appended_AtStart(file, key) == IF file = <<>> THEN <<key>> ELSE [file EXCEPT ![1] = key]
GoesOn_Anyway(p) == TRUE
LockAfterDeath_Stays(p) == lock

-----------------------------------------------------------------------------
At(p, label) == alive[p] /\ pc[p] = label
Goto(p, label) == pc' = [pc EXCEPT ![p] = label]

(* open without O_TRUNC, and write at the start of the file: what an       *)
(* earlier, longer pid left behind the new one stays.                      *)
WriteAtStart(file, text) ==
  [i \in 1 .. (IF Len(text) > Len(file) THEN Len(text) ELSE Len(file)) |->
     IF i <= Len(text) THEN text[i] ELSE file[i]]

(* F_SETLK, which does not wait. *)
LockFree(p) == lock \in {NoProc, p}

(* The descriptor is kept open on purpose: closing it gives up the lock. *)
LockAfterWrite(p) == p

PidOpen(p) ==
  /\ At(p, "idle") /\ pidRet[p] = 1
  /\ \/ Goto(p, "lock") /\ UNCHANGED pidRet
     \/ pidRet' = [pidRet EXCEPT ![p] = -1] /\ UNCHANGED pc
  /\ UNCHANGED <<alive, clock, pidFile, lock, dumpVars>>

PidLock(p) ==
  /\ At(p, "lock")
  /\ IF LockFree(p)
       THEN lock' = p /\ Goto(p, "write") /\ UNCHANGED pidRet
       ELSE pidRet' = [pidRet EXCEPT ![p] = -1] /\ Goto(p, "idle") /\ UNCHANGED lock
  /\ UNCHANGED <<alive, clock, pidFile, dumpVars>>

PidWrite(p) ==
  /\ At(p, "write")
  /\ pidFile' = WriteAtStart(pidFile, Append(Pid[p], NL))
  /\ lock' = LockAfterWrite(p)
  /\ pidRet' = [pidRet EXCEPT ![p] = 0]
  /\ Goto(p, "idle")
  /\ UNCHANGED <<alive, clock, dumpVars>>

-----------------------------------------------------------------------------
(* What main would do with the result of WritePidFile. *)
GoesOn(p) == pidRet[p] = 0

(* ShmKeyDump::Init.  The backup is named for the second at the start of   *)
(* the call; a backup of that name is replaced.                            *)
BackupName(p) == when[p]

InitBegin(p) ==
  /\ At(p, "idle") /\ GoesOn(p) /\ when[p] = -1
  /\ when' = [when EXCEPT ![p] = clock]
  /\ Goto(p, "access")
  /\ UNCHANGED <<alive, clock, pidVars, init_, dump, backup, content, fd, log, pushes>>

InitAccess(p) ==
  /\ At(p, "access")
  /\ Goto(p, IF dump # NoProc THEN "rename" ELSE "create")
  /\ UNCHANGED <<alive, clock, pidVars, dumpVars>>

(* rename fails if the file has been moved in the meantime. *)
InitRename(p) ==
  /\ At(p, "rename")
  /\ IF dump # NoProc
       THEN /\ backup' = [backup EXCEPT ![BackupName(p)] = dump]
            /\ dump' = NoProc
            /\ Goto(p, "create")
       ELSE Goto(p, "idle") /\ UNCHANGED <<backup, dump>>
  /\ UNCHANGED <<alive, clock, pidVars, when, init_, content, fd, log, pushes>>

(* open with O_CREAT and O_TRUNC. *)
InitCreate(p) ==
  /\ At(p, "create")
  /\ LET file == IF dump = NoProc THEN p ELSE dump IN
       dump' = file /\ content' = [content EXCEPT ![file] = <<>>]
  /\ init_' = [init_ EXCEPT ![p] = TRUE]
  /\ Goto(p, "idle")
  /\ UNCHANGED <<alive, clock, pidVars, when, backup, fd, log, pushes>>

(* ShmKeyDump::PushKey: returns -1001 before Init, and -2 when the file is *)
(* not there; the append reaches the file that was opened.                 *)
PushOpen(p) ==
  /\ At(p, "idle") /\ GoesOn(p) /\ pushes[p] < MaxPushes
  /\ pushes' = [pushes EXCEPT ![p] = @ + 1]
  /\ IF init_[p] /\ dump # NoProc
       THEN fd' = [fd EXCEPT ![p] = dump] /\ Goto(p, "append")
       ELSE UNCHANGED <<fd, pc>>
  /\ UNCHANGED <<alive, clock, pidVars, when, init_, dump, backup, content, log>>

Appended(file, key) == Append(file, key)

PushWrite(p) ==
  LET key == <<p, pushes[p]>> IN
    /\ At(p, "append")
    /\ content' = [content EXCEPT ![fd[p]] = Appended(@, key)]
    /\ log' = [log EXCEPT ![p] = Append(@, key)]
    /\ fd' = [fd EXCEPT ![p] = NoProc]
    /\ Goto(p, "idle")
    /\ UNCHANGED <<alive, clock, pidVars, when, init_, dump, backup, pushes>>

-----------------------------------------------------------------------------
(* A process ends, in the middle of a call or not: its lock goes with it. *)
LockAfterDeath(p) == IF lock = p THEN NoProc ELSE lock

Die(p) ==
  /\ alive[p]
  /\ alive' = [alive EXCEPT ![p] = FALSE]
  /\ lock' = LockAfterDeath(p)
  /\ Goto(p, "idle") /\ fd' = [fd EXCEPT ![p] = NoProc]
  /\ UNCHANGED <<clock, pidRet, pidFile, when, init_, dump, backup, content, log, pushes>>

Tick ==
  /\ clock < MaxClock
  /\ clock' = clock + 1
  /\ UNCHANGED <<alive, pc, pidVars, dumpVars>>

Init ==
  /\ alive = [p \in Proc |-> TRUE] /\ pc = [p \in Proc |-> "idle"]
  /\ pidRet = [p \in Proc |-> 1] /\ pidFile = <<>> /\ lock = NoProc
  /\ clock = 0 /\ when = [p \in Proc |-> -1] /\ init_ = [p \in Proc |-> FALSE]
  /\ dump = NoProc /\ backup = [t \in 0 .. MaxClock |-> NoProc]
  /\ content = [p \in Proc |-> <<>>] /\ fd = [p \in Proc |-> NoProc]
  /\ log = [p \in Proc |-> <<>>] /\ pushes = [p \in Proc |-> 0]

Next ==
  \/ \E p \in Proc :
       \/ PidOpen(p) \/ PidLock(p) \/ PidWrite(p)
       \/ InitBegin(p) \/ InitAccess(p) \/ InitRename(p) \/ InitCreate(p)
       \/ PushOpen(p) \/ PushWrite(p) \/ Die(p)
  \/ Tick

Spec == Init /\ [][Next]_vars

-----------------------------------------------------------------------------
Keys == Proc \X (1 .. MaxPushes)

(* The lock belongs to a living process that is writing or has written. *)
FilesTypeOK ==
  /\ alive \in [Proc -> BOOLEAN] /\ pc \in [Proc -> Labels]
  /\ pidRet \in [Proc -> {1, 0, -1}] /\ pidFile \in Seq(0 .. NL)
  /\ lock \in Proc \union {NoProc} /\ (lock # NoProc => alive[lock])
  /\ clock \in 0 .. MaxClock /\ when \in [Proc -> -1 .. MaxClock]
  /\ init_ \in [Proc -> BOOLEAN] /\ dump \in Proc \union {NoProc}
  /\ backup \in [0 .. MaxClock -> Proc \union {NoProc}]
  /\ content \in [Proc -> Seq(Keys)] /\ fd \in [Proc -> Proc \union {NoProc}]
  /\ log \in [Proc -> Seq(Keys)] /\ pushes \in [Proc -> 0 .. MaxPushes]

Server(p) == alive[p] /\ pidRet[p] = 0

(* WritePidFile lets one process at a time through, for as long as that    *)
(* process lives, and the next one when it has died.                       *)
OneServer == \A p, q \in Proc : Server(p) /\ Server(q) => p = q

(* The pid file's first line is the pid of the server that runs, also      *)
(* after a crash of one with a longer pid, whose digits still follow it.   *)
FirstLine(file, pid) ==
  /\ Len(file) > Len(pid) /\ file[Len(pid) + 1] = NL
  /\ \A i \in DOMAIN pid : file[i] = pid[i]

PidNamesServer == \A p \in Proc : Server(p) => FirstLine(pidFile, Pid[p])

(* The dump of a running server holds the keys it has pushed, in order,    *)
(* and no other process's: the lock of the pid file keeps a second process *)
(* from moving or truncating the dump, or pushing into it.                 *)
DumpIsOwn ==
  \A p \in Proc : Server(p) /\ init_[p] => dump = p /\ content[p] = log[p]

(* Every key ever pushed is still in the dump or in a backup, unless two   *)
(* servers called Init within one second: the second backup then replaces  *)
(* the first.                                                              *)
Files == {dump} \union {backup[t] : t \in 0 .. MaxClock}
InitsApart == \A p, q \in Proc : when[p] = when[q] /\ when[p] # -1 => p = q

KeysKept ==
  InitsApart =>
    \A p \in Proc : \A i \in DOMAIN log[p] :
      \E f \in Files \ {NoProc} : \E j \in DOMAIN content[f] : content[f][j] = log[p][i]
=============================================================================
