------------------------- MODULE ServerFilesProofs -------------------------
(***************************************************************************)
(* One server at a time, however many processes start and die, and what    *)
(* follows for the files: the pid file names it, and the dump is its own.  *)
(***************************************************************************)
EXTENDS ServerFiles, TLAPS

(* Who writes, or has been let through and lives, holds the lock; who uses *)
(* the dump has been let through.                                          *)
LockInv(p) ==
  /\ pc[p] # "idle" => alive[p]
  /\ Server(p) \/ pc[p] = "write" => lock = p
  /\ pc[p] \in {"lock", "write"} => pidRet[p] = 1
  /\ pc[p] \in {"access", "rename", "create", "append"} => pidRet[p] = 0

(* A server's dump from its Init on; before, it has pushed nothing. *)
DumpInv(p) ==
  /\ init_[p] => pidRet[p] = 0 /\ when[p] # -1
  /\ pc[p] \in {"access", "rename", "create"} => ~init_[p] /\ when[p] # -1
  /\ ~init_[p] => log[p] = <<>>
  /\ pc[p] = "create" => dump = NoProc
  /\ pc[p] = "append" => init_[p] /\ fd[p] = p /\ pushes[p] > 0
  /\ Server(p) /\ init_[p] => dump = p /\ content[p] = log[p]

Inv ==
  /\ FilesTypeOK
  /\ \A p \in Proc : LockInv(p)
  /\ \A p \in Proc : DumpInv(p)
  /\ PidNamesServer

-----------------------------------------------------------------------------
(* Types *)
LEMMA WrittenType ==
  ASSUME NEW S, NEW file \in Seq(S), NEW text \in Seq(S)
  PROVE  WriteAtStart(file, text) \in Seq(S)
<1> DEFINE n == IF Len(text) > Len(file) THEN Len(text) ELSE Len(file)
<1>1. n \in Nat /\ (n = Len(text) \/ n = Len(file))
  OBVIOUS
<1>2. WriteAtStart(file, text) = [i \in 1 .. n |-> IF i <= Len(text) THEN text[i] ELSE file[i]]
  BY DEF WriteAtStart
<1> HIDE DEF n
<1>3. ASSUME NEW i \in 1 .. n
      PROVE  (IF i <= Len(text) THEN text[i] ELSE file[i]) \in S
  <2>1. CASE i <= Len(text)
    <3>1. i \in 1 .. Len(text)
      BY <1>1, <2>1
    <3> QED BY <2>1, <3>1
  <2>2. CASE ~(i <= Len(text))
    <3>1. i \in 1 .. Len(file)
      BY <1>1, <2>2
    <3> QED BY <2>2, <3>1
  <2> QED BY <2>1, <2>2
<1>4. WriteAtStart(file, text) \in [1 .. n -> S]
  BY <1>2, <1>3
<1> QED BY <1>1, <1>4

LEMMA PidLine ==
  ASSUME NEW p \in Proc
  PROVE  /\ Pid[p] \in Seq(0 .. NL) /\ Append(Pid[p], NL) \in Seq(0 .. NL)
         /\ Len(Append(Pid[p], NL)) = Len(Pid[p]) + 1
         /\ Append(Pid[p], NL)[Len(Pid[p]) + 1] = NL
         /\ \A i \in DOMAIN Pid[p] : i \in 1 .. Len(Pid[p]) /\ Append(Pid[p], NL)[i] = Pid[p][i]
<1>1. Pid[p] \in Seq(0 .. 9)
  BY FilesAssumption
<1>2. Pid[p] \in Seq(0 .. NL)
  BY <1>1 DEF NL
<1> QED BY <1>1, <1>2 DEF NL

LEMMA TypeStep ==
  ASSUME Inv, [Next]_vars
  PROVE  FilesTypeOK'
<1> USE DEF pidVars, dumpVars, At, Goto, Labels
<1>1. ASSUME NEW p \in Proc, PidOpen(p) PROVE FilesTypeOK'
  BY <1>1 DEF Inv, FilesTypeOK, PidOpen
<1>2. ASSUME NEW p \in Proc, PidLock(p) PROVE FilesTypeOK'
  BY <1>2, FilesAssumption DEF Inv, FilesTypeOK, PidLock
<1>3. ASSUME NEW p \in Proc, PidWrite(p) PROVE FilesTypeOK'
  <2>1. pidFile' \in Seq(0 .. NL)
    BY <1>3, PidLine, WrittenType DEF Inv, FilesTypeOK, PidWrite
  <2> QED BY <1>3, <2>1, FilesAssumption DEF Inv, FilesTypeOK, PidWrite, LockAfterWrite
<1>4. ASSUME NEW p \in Proc, InitBegin(p) PROVE FilesTypeOK'
  BY <1>4 DEF Inv, FilesTypeOK, InitBegin
<1>5. ASSUME NEW p \in Proc, InitAccess(p) PROVE FilesTypeOK'
  BY <1>5 DEF Inv, FilesTypeOK, InitAccess
<1>6. ASSUME NEW p \in Proc, InitRename(p) PROVE FilesTypeOK'
  BY <1>6 DEF Inv, FilesTypeOK, InitRename
<1>7. ASSUME NEW p \in Proc, InitCreate(p) PROVE FilesTypeOK'
  BY <1>7 DEF Inv, FilesTypeOK, InitCreate
<1>8. ASSUME NEW p \in Proc, PushOpen(p) PROVE FilesTypeOK'
  <2>0. pushes[p] \in 0 .. MaxPushes /\ pushes[p] < MaxPushes
    BY <1>8 DEF Inv, FilesTypeOK, PushOpen
  <2>1. pushes[p] + 1 \in 0 .. MaxPushes
    BY <2>0, FilesAssumption
  <2>2. pushes' \in [Proc -> 0 .. MaxPushes]
    BY <1>8, <2>1 DEF Inv, FilesTypeOK, PushOpen
  <2> QED BY <1>8, <2>2 DEF Inv, FilesTypeOK, PushOpen
<1>9. ASSUME NEW p \in Proc, PushWrite(p) PROVE FilesTypeOK'
  <2> DEFINE key == <<p, pushes[p]>>
  <2>1. pushes[p] > 0 /\ fd[p] = p
    BY <1>9 DEF Inv, DumpInv, PushWrite
  <2>2. key \in Keys
    BY <2>1, FilesAssumption DEF Inv, FilesTypeOK, Keys
  <2>3. /\ content' = [content EXCEPT ![p] = Append(content[p], key)]
        /\ log' = [log EXCEPT ![p] = Append(log[p], key)]
    BY <1>9, <2>1 DEF PushWrite, Appended
  <2> HIDE DEF key
  <2>4. content' \in [Proc -> Seq(Keys)] /\ log' \in [Proc -> Seq(Keys)]
    BY <2>2, <2>3 DEF Inv, FilesTypeOK
  <2> QED BY <1>9, <2>4 DEF Inv, FilesTypeOK, PushWrite
<1>10. ASSUME NEW p \in Proc, Die(p) PROVE FilesTypeOK'
  BY <1>10 DEF Inv, FilesTypeOK, Die, LockAfterDeath
<1>11. CASE Tick
  BY <1>11, FilesAssumption DEF Inv, FilesTypeOK, Tick
<1>12. CASE UNCHANGED vars
  BY <1>12 DEF Inv, FilesTypeOK, vars
<1> QED
  BY <1>1, <1>2, <1>3, <1>4, <1>5, <1>6, <1>7, <1>8, <1>9, <1>10, <1>11, <1>12 DEF Next

-----------------------------------------------------------------------------
(* The lock.  Another process that holds it stands in the way of PidLock,  *)
(* and what anybody else does leaves p's conjuncts alone.                  *)
LEMMA LockStep ==
  ASSUME Inv, [Next]_vars
  PROVE  \A q \in Proc : LockInv(q)'
<1> TAKE q \in Proc
<1> USE DEF pidVars, dumpVars, At, Goto, Inv, FilesTypeOK, LockInv, Server
<1>1. ASSUME NEW p \in Proc, PidOpen(p) PROVE LockInv(q)'
  <2>1. alive' = alive /\ lock' = lock
    BY <1>1 DEF PidOpen
  <2>2. \/ pc'[q] = pc[q] /\ pidRet'[q] = pidRet[q]
        \/ pc'[q] = "lock" /\ pidRet'[q] = 1 /\ alive[q]
        \/ pc'[q] = "idle" /\ pidRet'[q] = -1
    BY <1>1 DEF PidOpen
  <2>3. LockInv(q)
    OBVIOUS
  <2>4. CASE pc'[q] = pc[q] /\ pidRet'[q] = pidRet[q]
    BY <2>1, <2>3, <2>4 DEF LockInv, Server
  <2>5. CASE pc'[q] = "lock" /\ pidRet'[q] = 1 /\ alive[q]
    BY <2>1, <2>5 DEF LockInv, Server
  <2>6. CASE pc'[q] = "idle" /\ pidRet'[q] = -1
    BY <2>6 DEF LockInv, Server
  <2> QED BY <2>2, <2>4, <2>5, <2>6
<1>2. ASSUME NEW p \in Proc, PidLock(p) PROVE LockInv(q)'
  <2>1. alive' = alive /\ alive[p] /\ pc[p] = "lock"
    BY <1>2 DEF PidLock
  <2>2. CASE LockFree(p)
    <3>1. lock' = p /\ pidRet' = pidRet /\ pc' = [pc EXCEPT ![p] = "write"] /\ lock \in {NoProc, p}
      BY <1>2, <2>2 DEF PidLock, LockFree
    <3> QED BY <2>1, <3>1, FilesAssumption
  <2>3. CASE ~LockFree(p)
    <3>1. lock' = lock /\ pidRet' = [pidRet EXCEPT ![p] = -1] /\ pc' = [pc EXCEPT ![p] = "idle"]
      BY <1>2, <2>3 DEF PidLock
    <3> QED BY <2>1, <3>1
  <2> QED BY <2>2, <2>3
<1>3. ASSUME NEW p \in Proc, PidWrite(p) PROVE LockInv(q)'
  BY <1>3, FilesAssumption DEF PidWrite, LockAfterWrite
<1>4. ASSUME NEW p \in Proc, InitBegin(p) PROVE LockInv(q)'
  BY <1>4, FilesAssumption DEF InitBegin, GoesOn
<1>5. ASSUME NEW p \in Proc, InitAccess(p) PROVE LockInv(q)'
  BY <1>5, FilesAssumption DEF InitAccess
<1>6. ASSUME NEW p \in Proc, InitRename(p) PROVE LockInv(q)'
  BY <1>6, FilesAssumption DEF InitRename
<1>7. ASSUME NEW p \in Proc, InitCreate(p) PROVE LockInv(q)'
  BY <1>7, FilesAssumption DEF InitCreate
<1>8. ASSUME NEW p \in Proc, PushOpen(p) PROVE LockInv(q)'
  BY <1>8, FilesAssumption DEF PushOpen, GoesOn
<1>9. ASSUME NEW p \in Proc, PushWrite(p) PROVE LockInv(q)'
  BY <1>9, FilesAssumption DEF PushWrite
<1>10. ASSUME NEW p \in Proc, Die(p) PROVE LockInv(q)'
  BY <1>10, FilesAssumption DEF Die, LockAfterDeath
<1>11. CASE Tick
  BY <1>11 DEF Tick
<1>12. CASE UNCHANGED vars
  BY <1>12 DEF vars
<1> QED
  BY <1>1, <1>2, <1>3, <1>4, <1>5, <1>6, <1>7, <1>8, <1>9, <1>10, <1>11, <1>12 DEF Next

(* Two processes that are past the lock are the same. *)
LEMMA Alone ==
  ASSUME Inv, NEW p \in Proc, NEW q \in Proc, alive[p], alive[q],
         pidRet[p] = 0 \/ pc[p] = "write", pidRet[q] = 0 \/ pc[q] = "write"
  PROVE  p = q
BY DEF Inv, LockInv, Server

-----------------------------------------------------------------------------
(* The dump.  A step that leaves it alone, and of q's own state changes at *)
(* most how far q is in a WritePidFile that has not returned.              *)
LEMMA DumpLeft ==
  ASSUME Inv, NEW q \in Proc, UNCHANGED <<alive, dumpVars>>,
         \/ pc'[q] = pc[q] /\ pidRet'[q] = pidRet[q]
         \/ pidRet[q] = 1 /\ pc'[q] \in {"lock", "write", "idle"}
  PROVE  DumpInv(q)'
<1>1. DumpInv(q)
  BY DEF Inv
<1>2. CASE pc'[q] = pc[q] /\ pidRet'[q] = pidRet[q]
  BY <1>1, <1>2 DEF DumpInv, Server, dumpVars
<1>3. CASE pidRet[q] = 1 /\ pc'[q] \in {"lock", "write", "idle"}
  <2>1. ~init_[q] /\ ~init_'[q] /\ log'[q] = <<>>
    BY <1>1, <1>3 DEF DumpInv, dumpVars
  <2>2. pc'[q] \notin {"access", "rename", "create", "append"}
    BY <1>3
  <2> QED BY <2>1, <2>2 DEF DumpInv
<1> QED BY <1>2, <1>3

(* A step of a server leaves what is another's alone: the other is dead or *)
(* has not been let through, so it is not using the dump.                  *)
LEMMA DumpOfOthers ==
  ASSUME Inv, NEW p \in Proc, NEW q \in Proc, q # p, Server(p),
         UNCHANGED <<alive, pidRet>>, pc'[q] = pc[q], when'[q] = when[q],
         init_'[q] = init_[q], log'[q] = log[q]
  PROVE  DumpInv(q)'
<1>1. DumpInv(q) /\ LockInv(q)
  BY DEF Inv
<1>2. ~Server(q)
  BY Alone DEF Server
<1>3. pc[q] \notin {"access", "rename", "create", "append"}
  BY <1>1, <1>2 DEF LockInv, Server
<1>4. ~Server(q)'
  BY <1>2 DEF Server
<1> QED BY <1>1, <1>3, <1>4 DEF DumpInv

(* Only a server touches the dump, and there is one at a time. *)
LEMMA DumpStep ==
  ASSUME Inv, [Next]_vars
  PROVE  \A q \in Proc : DumpInv(q)'
<1> TAKE q \in Proc
<1> USE DEF pidVars, dumpVars, At, Goto
<1>1. ASSUME NEW p \in Proc, PidOpen(p) PROVE DumpInv(q)'
  <2>1. UNCHANGED <<alive, dumpVars>>
    BY <1>1 DEF PidOpen
  <2>2. \/ pc'[q] = pc[q] /\ pidRet'[q] = pidRet[q]
        \/ pidRet[q] = 1 /\ pc'[q] \in {"lock", "idle"}
    BY <1>1 DEF PidOpen, Inv, FilesTypeOK
  <2> QED BY <2>1, <2>2, DumpLeft
<1>2. ASSUME NEW p \in Proc, PidLock(p) PROVE DumpInv(q)'
  <2>1. UNCHANGED <<alive, dumpVars>>
    BY <1>2 DEF PidLock
  <2>2. pidRet[p] = 1
    BY <1>2 DEF PidLock, Inv, LockInv
  <2>3. \/ pc'[q] = pc[q] /\ pidRet'[q] = pidRet[q]
        \/ pidRet[q] = 1 /\ pc'[q] \in {"write", "idle"}
    BY <1>2, <2>2 DEF PidLock, Inv, FilesTypeOK
  <2> QED BY <2>1, <2>3, DumpLeft
<1>3. ASSUME NEW p \in Proc, PidWrite(p) PROVE DumpInv(q)'
  <2>1. UNCHANGED <<alive, dumpVars>>
    BY <1>3 DEF PidWrite
  <2>2. pidRet[p] = 1
    BY <1>3 DEF PidWrite, Inv, LockInv
  <2>3. \/ pc'[q] = pc[q] /\ pidRet'[q] = pidRet[q]
        \/ pidRet[q] = 1 /\ pc'[q] = "idle"
    BY <1>3, <2>2 DEF PidWrite, Inv, FilesTypeOK
  <2> QED BY <2>1, <2>3, DumpLeft
<1>4. ASSUME NEW p \in Proc, InitBegin(p) PROVE DumpInv(q)'
  <2>1. Server(p)
    BY <1>4 DEF InitBegin, GoesOn, Server
  <2>2. CASE q = p
    <3>1. DumpInv(p) /\ when[p] = -1 /\ clock # -1
      BY <1>4 DEF Inv, InitBegin, FilesTypeOK
    <3>2. ~init_[p] /\ log[p] = <<>>
      BY <3>1 DEF DumpInv
    <3>3. pc'[p] = "access" /\ when'[p] = clock /\ UNCHANGED <<init_, log>>
      BY <1>4 DEF InitBegin, Inv, FilesTypeOK
    <3> QED BY <2>2, <3>1, <3>2, <3>3 DEF DumpInv
  <2>3. CASE q # p
    <3>1. UNCHANGED <<alive, pidRet, init_, log>> /\ pc'[q] = pc[q] /\ when'[q] = when[q]
      BY <1>4, <2>3 DEF InitBegin, Inv, FilesTypeOK
    <3> QED BY <2>1, <2>3, <3>1, DumpOfOthers
  <2> QED BY <2>2, <2>3
<1>5. ASSUME NEW p \in Proc, InitAccess(p) PROVE DumpInv(q)'
  <2>1. Server(p)
    BY <1>5 DEF InitAccess, Inv, LockInv, Server
  <2>2. CASE q = p
    <3>1. DumpInv(p) /\ ~init_[p] /\ when[p] # -1 /\ log[p] = <<>>
      BY <1>5 DEF Inv, InitAccess, DumpInv
    <3>2. pc'[p] = "rename" \/ (pc'[p] = "create" /\ dump = NoProc)
      BY <1>5 DEF InitAccess, Inv, FilesTypeOK
    <3>3. UNCHANGED <<init_, when, log, dump>>
      BY <1>5 DEF InitAccess
    <3> QED BY <2>2, <3>1, <3>2, <3>3 DEF DumpInv
  <2>3. CASE q # p
    <3>1. UNCHANGED <<alive, pidRet, when, init_, log>> /\ pc'[q] = pc[q]
      BY <1>5, <2>3 DEF InitAccess, Inv, FilesTypeOK
    <3> QED BY <2>1, <2>3, <3>1, DumpOfOthers
  <2> QED BY <2>2, <2>3
<1>6. ASSUME NEW p \in Proc, InitRename(p) PROVE DumpInv(q)'
  <2>1. Server(p)
    BY <1>6 DEF InitRename, Inv, LockInv, Server
  <2>2. CASE q = p
    <3>1. DumpInv(p) /\ ~init_[p] /\ when[p] # -1 /\ log[p] = <<>>
      BY <1>6 DEF Inv, InitRename, DumpInv
    <3>2. pc'[p] = "idle" \/ (pc'[p] = "create" /\ dump' = NoProc)
      BY <1>6 DEF InitRename, Inv, FilesTypeOK
    <3>3. UNCHANGED <<init_, when, log>>
      BY <1>6 DEF InitRename
    <3> QED BY <2>2, <3>1, <3>2, <3>3 DEF DumpInv
  <2>3. CASE q # p
    <3>1. UNCHANGED <<alive, pidRet, when, init_, log>> /\ pc'[q] = pc[q]
      BY <1>6, <2>3 DEF InitRename, Inv, FilesTypeOK
    <3> QED BY <2>1, <2>3, <3>1, DumpOfOthers
  <2> QED BY <2>2, <2>3
<1>7. ASSUME NEW p \in Proc, InitCreate(p) PROVE DumpInv(q)'
  <2>1. Server(p)
    BY <1>7 DEF InitCreate, Inv, LockInv, Server
  <2>2. CASE q = p
    <3>1. pidRet[p] = 0 /\ when[p] # -1 /\ log[p] = <<>> /\ dump = NoProc
      BY <1>7, <2>1 DEF Inv, InitCreate, DumpInv, Server
    <3>2. /\ dump' = p /\ content'[p] = <<>> /\ pc'[p] = "idle" /\ init_'[p]
          /\ UNCHANGED <<alive, pidRet, when, log>>
      BY <1>7, <3>1 DEF InitCreate, Inv, FilesTypeOK
    <3> QED BY <2>2, <3>1, <3>2 DEF DumpInv
  <2>3. CASE q # p
    <3>1. UNCHANGED <<alive, pidRet, when, log>> /\ pc'[q] = pc[q] /\ init_'[q] = init_[q]
      BY <1>7, <2>3 DEF InitCreate, Inv, FilesTypeOK
    <3> QED BY <2>1, <2>3, <3>1, DumpOfOthers
  <2> QED BY <2>2, <2>3
<1>8. ASSUME NEW p \in Proc, PushOpen(p) PROVE DumpInv(q)'
  <2>1. Server(p)
    BY <1>8 DEF PushOpen, GoesOn, Server
  <2>2. UNCHANGED <<alive, pidRet, when, init_, dump, content, log>>
    BY <1>8 DEF PushOpen
  <2>3. CASE q = p
    <3>1. DumpInv(p) /\ pidRet[p] = 0
      BY <2>1 DEF Inv, Server
    <3>2. pushes'[p] > 0
      BY <1>8 DEF PushOpen, Inv, FilesTypeOK
    <3>4. pc'[p] = "idle" \/ (pc'[p] = "append" /\ init_[p] /\ fd'[p] = dump)
      BY <1>8 DEF PushOpen, Inv, FilesTypeOK
    <3>3. init_[p] => dump = p
      BY <2>1, <3>1 DEF DumpInv
    <3> QED BY <2>2, <2>3, <3>1, <3>2, <3>3, <3>4 DEF DumpInv, Server
  <2>4. CASE q # p
    <3>1. pc'[q] = pc[q]
      BY <1>8, <2>4 DEF PushOpen, Inv, FilesTypeOK
    <3> QED BY <2>1, <2>2, <2>4, <3>1, DumpOfOthers
  <2> QED BY <2>3, <2>4
<1>9. ASSUME NEW p \in Proc, PushWrite(p) PROVE DumpInv(q)'
  <2> DEFINE key == <<p, pushes[p]>>
  <2>1. Server(p) /\ DumpInv(p) /\ init_[p] /\ fd[p] = p
    BY <1>9 DEF PushWrite, Inv, LockInv, DumpInv, Server
  <2>2. dump = p /\ content[p] = log[p]
    BY <2>1 DEF DumpInv
  <2>3. /\ content' = [content EXCEPT ![p] = Append(content[p], key)]
        /\ log' = [log EXCEPT ![p] = Append(log[p], key)]
        /\ pc' = [pc EXCEPT ![p] = "idle"]
        /\ UNCHANGED <<alive, pidRet, when, init_, dump>>
    BY <1>9, <2>1 DEF PushWrite, Appended
  <2> HIDE DEF key
  <2>4. CASE q = p
    <3>1. content'[p] = log'[p] /\ pc'[p] = "idle"
      BY <2>2, <2>3 DEF Inv, FilesTypeOK
    <3> QED BY <2>1, <2>2, <2>3, <2>4, <3>1 DEF DumpInv, Server
  <2>5. CASE q # p
    <3>1. pc'[q] = pc[q] /\ log'[q] = log[q]
      BY <2>3, <2>5 DEF Inv, FilesTypeOK
    <3> QED BY <2>1, <2>3, <2>5, <3>1, DumpOfOthers
  <2> QED BY <2>4, <2>5
<1>10. ASSUME NEW p \in Proc, Die(p) PROVE DumpInv(q)'
  <2>1. DumpInv(q)
    BY DEF Inv
  <2>2. UNCHANGED <<pidRet, when, init_, dump, content, log, pushes>>
    BY <1>10 DEF Die
  <2>3. CASE q = p
    <3>1. pc'[q] = "idle" /\ ~Server(q)'
      BY <1>10, <2>3 DEF Die, Server, Inv, FilesTypeOK
    <3> QED BY <2>1, <2>2, <3>1 DEF DumpInv
  <2>4. CASE q # p
    <3>1. pc'[q] = pc[q] /\ alive'[q] = alive[q] /\ fd'[q] = fd[q]
      BY <1>10, <2>4 DEF Die, Inv, FilesTypeOK
    <3> QED BY <2>1, <2>2, <3>1 DEF DumpInv, Server
  <2> QED BY <2>3, <2>4
<1>11. CASE Tick
  BY <1>11, DumpLeft DEF Tick
<1>12. CASE UNCHANGED vars
  BY <1>12, DumpLeft DEF vars
<1> QED
  BY <1>1, <1>2, <1>3, <1>4, <1>5, <1>6, <1>7, <1>8, <1>9, <1>10, <1>11, <1>12 DEF Next

-----------------------------------------------------------------------------
(* The pid file.  What is left of a longer pid comes after the new line.   *)
LEMMA WrittenFirstLine ==
  ASSUME NEW file \in Seq(0 .. NL), NEW p \in Proc
  PROVE  FirstLine(WriteAtStart(file, Append(Pid[p], NL)), Pid[p])
<1> DEFINE text == Append(Pid[p], NL)
           k == Len(Pid[p])
           n == IF Len(text) > Len(file) THEN Len(text) ELSE Len(file)
           w == WriteAtStart(file, text)
<1>1. k \in Nat /\ text \in Seq(0 .. NL) /\ Len(text) = k + 1 /\ text[k + 1] = NL
  BY PidLine
<1>2. n \in Nat /\ n >= k + 1
  BY <1>1
<1>3. w = [i \in 1 .. n |-> IF i <= Len(text) THEN text[i] ELSE file[i]]
  BY DEF WriteAtStart
<1>4. w \in Seq(0 .. NL)
  BY <1>1, WrittenType
<1>5. Len(w) = n
  BY <1>2, <1>3, <1>4
<1>6. \A i \in DOMAIN Pid[p] : i \in 1 .. k /\ text[i] = Pid[p][i]
  BY PidLine
<1> HIDE DEF text, k, n, w
<1>7. \A i \in 1 .. k + 1 : w[i] = text[i]
  BY <1>1, <1>2, <1>3
<1>8. Len(w) > k /\ w[k + 1] = NL
  BY <1>1, <1>2, <1>5, <1>7
<1>9. \A i \in DOMAIN Pid[p] : w[i] = Pid[p][i]
  BY <1>1, <1>6, <1>7
<1> QED BY <1>8, <1>9 DEF FirstLine, w, k, text

LEMMA PidStep ==
  ASSUME Inv, [Next]_vars
  PROVE  PidNamesServer'
<1> SUFFICES ASSUME NEW q \in Proc, Server(q)' PROVE FirstLine(pidFile', Pid[q])
  BY DEF PidNamesServer
<1>1. CASE \E p \in Proc : PidWrite(p)
  <2> PICK p \in Proc : PidWrite(p)
    BY <1>1
  <2>1. p = q
    <3>1. alive[p] /\ pc[p] = "write" /\ alive[q] /\ (pidRet[q] = 0 \/ p = q)
      BY DEF PidWrite, At, Server, Inv, FilesTypeOK
    <3> QED BY <3>1, Alone
  <2> QED BY <2>1, WrittenFirstLine DEF PidWrite, Inv, FilesTypeOK
<1>2. CASE ~\E p \in Proc : PidWrite(p)
  <2> USE DEF pidVars, dumpVars, Server, Inv, FilesTypeOK
  <2>1. ASSUME NEW p \in Proc, PidOpen(p) \/ PidLock(p)
        PROVE  pidFile' = pidFile /\ alive[q] /\ pidRet[q] = 0
    BY <2>1 DEF PidOpen, PidLock
  <2>2. ASSUME NEW p \in Proc, \/ InitBegin(p) \/ InitAccess(p) \/ InitRename(p)
                               \/ InitCreate(p) \/ PushOpen(p) \/ PushWrite(p)
        PROVE  UNCHANGED <<pidFile, alive, pidRet>>
    BY <2>2 DEF InitBegin, InitAccess, InitRename, InitCreate, PushOpen, PushWrite
  <2>3. ASSUME NEW p \in Proc, Die(p)
        PROVE  pidFile' = pidFile /\ alive[q] /\ pidRet[q] = 0
    BY <2>3 DEF Die
  <2>4. ASSUME Tick \/ UNCHANGED vars
        PROVE  UNCHANGED <<pidFile, alive, pidRet>>
    BY <2>4 DEF Tick, vars
  <2>5. pidFile' = pidFile /\ alive[q] /\ pidRet[q] = 0
    BY <1>2, <2>1, <2>2, <2>3, <2>4 DEF Next
  <2> QED BY <2>5 DEF PidNamesServer
<1> QED BY <1>1, <1>2

-----------------------------------------------------------------------------
(* The keys.  What a file holds is what its creator pushed.  A backup's    *)
(* name is the second in which a server began its Init, one that is past   *)
(* the rename or dead; so, with the Inits apart, a rename replaces no      *)
(* backup, and no file that a server created is ever without a name.       *)
BackupInv ==
  \A t \in 0 .. MaxClock : backup[t] # NoProc =>
    \E r \in Proc : when[r] = t /\ pc[r] \notin {"access", "rename"}

NamedInv == InitsApart => \A p \in Proc : init_[p] => p \in Files

KeysInv ==
  /\ \A p \in Proc : content[p] = log[p]
  /\ BackupInv
  /\ NamedInv

(* Seconds are read once: Inits apart in a state were apart before it. *)
LEMMA ApartBefore ==
  ASSUME Inv, [Next]_vars, InitsApart'
  PROVE  InitsApart
<1>1. \A p \in Proc : when[p] # -1 => when'[p] = when[p]
  <2> USE DEF dumpVars, Inv, FilesTypeOK
  <2>1. ASSUME NEW r \in Proc, InitBegin(r) PROVE \A p \in Proc : when[p] # -1 => when'[p] = when[p]
    BY <2>1 DEF InitBegin
  <2>2. ASSUME NEW r \in Proc, \/ PidOpen(r) \/ PidLock(r) \/ PidWrite(r) \/ InitAccess(r) \/ InitRename(r)
                               \/ InitCreate(r) \/ PushOpen(r) \/ PushWrite(r) \/ Die(r)
        PROVE  when' = when
    BY <2>2 DEF PidOpen, PidLock, PidWrite, InitAccess, InitRename, InitCreate, PushOpen, PushWrite, Die
  <2>3. ASSUME Tick \/ UNCHANGED vars PROVE when' = when
    BY <2>3 DEF Tick, vars
  <2> QED BY <2>1, <2>2, <2>3 DEF Next
<1> QED BY <1>1 DEF InitsApart

LEMMA ContentStep ==
  ASSUME Inv, KeysInv, [Next]_vars
  PROVE  \A p \in Proc : content'[p] = log'[p]
<1> TAKE q \in Proc
<1> USE DEF dumpVars
<1>0. content[q] = log[q]
  BY DEF KeysInv
<1>1. ASSUME NEW p \in Proc, InitCreate(p) PROVE content'[q] = log'[q]
  <2>1. dump = NoProc /\ log[p] = <<>> /\ log' = log
    BY <1>1 DEF InitCreate, At, Inv, DumpInv
  <2>2. content' = [content EXCEPT ![p] = <<>>]
    BY <1>1, <2>1 DEF InitCreate
  <2> QED BY <1>0, <2>1, <2>2 DEF Inv, FilesTypeOK
<1>2. ASSUME NEW p \in Proc, PushWrite(p) PROVE content'[q] = log'[q]
  <2> DEFINE key == <<p, pushes[p]>>
  <2>1. fd[p] = p
    BY <1>2 DEF PushWrite, At, Inv, DumpInv
  <2>2. /\ content' = [content EXCEPT ![p] = Append(content[p], key)]
        /\ log' = [log EXCEPT ![p] = Append(log[p], key)]
    BY <1>2, <2>1 DEF PushWrite, Appended
  <2> HIDE DEF key
  <2>3. content[p] = log[p]
    BY DEF KeysInv
  <2> QED BY <1>0, <2>2, <2>3 DEF Inv, FilesTypeOK
<1>3. ASSUME NEW p \in Proc, \/ PidOpen(p) \/ PidLock(p) \/ PidWrite(p) \/ InitBegin(p)
                             \/ InitAccess(p) \/ InitRename(p) \/ PushOpen(p) \/ Die(p)
      PROVE  UNCHANGED <<content, log>>
  BY <1>3 DEF PidOpen, PidLock, PidWrite, InitBegin, InitAccess, InitRename, PushOpen, Die
<1>4. ASSUME Tick \/ UNCHANGED vars PROVE UNCHANGED <<content, log>>
  BY <1>4 DEF Tick, vars
<1> QED BY <1>0, <1>1, <1>2, <1>3, <1>4 DEF Next

(* Nobody enters the calls before the rename with a second that is read:   *)
(* InitBegin, which enters them, reads one.                                *)
LEMMA BackupStep ==
  ASSUME Inv, KeysInv, [Next]_vars
  PROVE  BackupInv'
<1> SUFFICES ASSUME NEW t \in 0 .. MaxClock, backup'[t] # NoProc
             PROVE  \E r \in Proc : when'[r] = t /\ pc'[r] \notin {"access", "rename"}
  BY DEF BackupInv
<1> USE DEF dumpVars, Goto, At
<1>t. t # -1
  OBVIOUS
<1>1. ASSUME NEW w \in Proc, when[w] = t, pc[w] \notin {"access", "rename"}
      PROVE  when'[w] = t /\ pc'[w] \notin {"access", "rename"}
  <2> USE DEF Inv, FilesTypeOK
  <2>1. ASSUME NEW p \in Proc, InitBegin(p) PROVE when'[w] = t /\ pc'[w] \notin {"access", "rename"}
    <3>1. p # w
      BY <1>1, <1>t, <2>1 DEF InitBegin
    <3> QED BY <1>1, <2>1, <3>1 DEF InitBegin
  <2>2. ASSUME NEW p \in Proc, InitAccess(p) PROVE when'[w] = t /\ pc'[w] \notin {"access", "rename"}
    <3>1. p # w
      BY <1>1, <2>2 DEF InitAccess
    <3> QED BY <1>1, <2>2, <3>1 DEF InitAccess
  <2>3. ASSUME NEW p \in Proc, PidOpen(p) \/ PidLock(p) \/ PidWrite(p)
        PROVE when'[w] = t /\ pc'[w] \notin {"access", "rename"}
    BY <1>1, <2>3 DEF PidOpen, PidLock, PidWrite
  <2>4. ASSUME NEW p \in Proc, InitRename(p) \/ InitCreate(p) \/ Die(p)
        PROVE when'[w] = t /\ pc'[w] \notin {"access", "rename"}
    BY <1>1, <2>4 DEF InitRename, InitCreate, Die
  <2>5. ASSUME NEW p \in Proc, PushOpen(p) \/ PushWrite(p)
        PROVE when'[w] = t /\ pc'[w] \notin {"access", "rename"}
    BY <1>1, <2>5 DEF PushOpen, PushWrite
  <2>6. ASSUME Tick \/ UNCHANGED vars PROVE when'[w] = t /\ pc'[w] \notin {"access", "rename"}
    BY <1>1, <2>6 DEF Tick, vars
  <2> QED BY <2>1, <2>2, <2>3, <2>4, <2>5, <2>6 DEF Next
<1>2. CASE backup[t] # NoProc
  <2>1. PICK w \in Proc : when[w] = t /\ pc[w] \notin {"access", "rename"}
    BY <1>2 DEF KeysInv, BackupInv
  <2> QED BY <1>1, <2>1
<1>3. CASE backup[t] = NoProc
  <2>1. PICK p \in Proc : InitRename(p) /\ dump # NoProc
    <3>1. ASSUME NEW p \in Proc, \/ PidOpen(p) \/ PidLock(p) \/ PidWrite(p) \/ InitBegin(p) \/ InitAccess(p)
                                 \/ InitCreate(p) \/ PushOpen(p) \/ PushWrite(p) \/ Die(p)
          PROVE  backup' = backup
      BY <3>1 DEF PidOpen, PidLock, PidWrite, InitBegin, InitAccess, InitCreate, PushOpen, PushWrite, Die
    <3>2. ASSUME Tick \/ UNCHANGED vars PROVE backup' = backup
      BY <3>2 DEF Tick, vars
    <3>3. ASSUME NEW p \in Proc, InitRename(p), dump = NoProc PROVE backup' = backup
      BY <3>3 DEF InitRename
    <3> QED BY <1>3, <3>1, <3>2, <3>3 DEF Next
  <2>2. /\ backup' = [backup EXCEPT ![when[p]] = dump] /\ when' = when
        /\ pc' = [pc EXCEPT ![p] = "create"]
    BY <2>1 DEF InitRename, BackupName
  <2>3. when'[p] = t /\ pc'[p] \notin {"access", "rename"}
    BY <1>3, <2>2 DEF Inv, FilesTypeOK
  <2> QED BY <2>3
<1> QED BY <1>2, <1>3

LEMMA NamedStep ==
  ASSUME Inv, KeysInv, [Next]_vars
  PROVE  NamedInv'
<1> SUFFICES ASSUME InitsApart', NEW q \in Proc, init_'[q] PROVE q \in Files'
  BY DEF NamedInv
<1> USE DEF dumpVars, At, Goto
<1>1. InitsApart
  BY ApartBefore
<1>2. init_[q] => q = dump \/ \E t \in 0 .. MaxClock : backup[t] = q
  BY <1>1 DEF KeysInv, NamedInv, Files
<1>3. q # NoProc
  BY FilesAssumption
<1>4. ASSUME NEW p \in Proc, InitRename(p) PROVE q \in Files'
  <2>1. init_[q]
    BY <1>4 DEF InitRename
  <2>2. CASE dump = NoProc
    BY <1>2, <1>4, <2>1, <2>2 DEF InitRename, Files
  <2>3. CASE dump # NoProc
    <3>1. backup' = [backup EXCEPT ![when[p]] = dump] /\ pc[p] = "rename"
      BY <1>4, <2>3 DEF InitRename, BackupName
    <3>2. when[p] \in 0 .. MaxClock
      BY <3>1 DEF Inv, FilesTypeOK, DumpInv
    <3>3. backup[when[p]] = NoProc
      <4> SUFFICES ASSUME backup[when[p]] # NoProc PROVE FALSE
        OBVIOUS
      <4>1. PICK w \in Proc : when[w] = when[p] /\ pc[w] \notin {"access", "rename"}
        BY <3>2 DEF KeysInv, BackupInv
      <4>2. when[p] # -1
        BY <3>2
      <4> QED BY <1>1, <3>1, <4>1, <4>2 DEF InitsApart
    <3>4. backup'[when[p]] = dump
      BY <3>1, <3>2 DEF Inv, FilesTypeOK
    <3>5. CASE q = dump
      BY <3>2, <3>4, <3>5 DEF Files
    <3>6. ASSUME NEW t \in 0 .. MaxClock, backup[t] = q PROVE q \in Files'
      <4>1. t # when[p]
        BY <1>3, <3>3, <3>6
      <4>2. backup'[t] = q
        BY <3>1, <3>6, <4>1 DEF Inv, FilesTypeOK
      <4> QED BY <4>2 DEF Files
    <3> QED BY <1>2, <2>1, <3>5, <3>6
  <2> QED BY <2>2, <2>3
<1>5. ASSUME NEW p \in Proc, InitCreate(p) PROVE q \in Files'
  <2>1. dump = NoProc
    BY <1>5 DEF InitCreate, Inv, DumpInv
  <2>2. dump' = p /\ backup' = backup /\ init_' = [init_ EXCEPT ![p] = TRUE]
    BY <1>5, <2>1 DEF InitCreate
  <2>3. CASE q = p
    BY <2>2, <2>3 DEF Files
  <2>4. CASE q # p
    <3>1. init_[q]
      BY <2>2, <2>4 DEF Inv, FilesTypeOK
    <3> QED BY <1>2, <1>3, <2>1, <2>2, <3>1 DEF Files
  <2> QED BY <2>3, <2>4
<1>6. ASSUME NEW p \in Proc, \/ PidOpen(p) \/ PidLock(p) \/ PidWrite(p) \/ InitBegin(p)
                             \/ InitAccess(p) \/ PushOpen(p) \/ PushWrite(p) \/ Die(p)
      PROVE  UNCHANGED <<dump, backup, init_>>
  BY <1>6 DEF PidOpen, PidLock, PidWrite, InitBegin, InitAccess, PushOpen, PushWrite, Die
<1>7. ASSUME Tick \/ UNCHANGED vars PROVE UNCHANGED <<dump, backup, init_>>
  BY <1>7 DEF Tick, vars
<1>8. ASSUME UNCHANGED <<dump, backup, init_>> PROVE q \in Files'
  BY <1>2, <1>8 DEF Files
<1> QED BY <1>4, <1>5, <1>6, <1>7, <1>8 DEF Next

-----------------------------------------------------------------------------
LEMMA InitInv == Init => Inv
<1> SUFFICES ASSUME Init PROVE Inv
  OBVIOUS
<1>1. FilesTypeOK
  BY FilesAssumption DEF Init, FilesTypeOK, Labels
<1>2. \A p \in Proc : pc[p] = "idle" /\ pidRet[p] = 1 /\ ~init_[p] /\ log[p] = <<>>
  BY DEF Init
<1>3. ASSUME NEW p \in Proc
      PROVE  ~Server(p) /\ LockInv(p) /\ DumpInv(p)
  <2>1. pc[p] = "idle" /\ pidRet[p] = 1 /\ pidRet[p] # 0 /\ ~init_[p] /\ log[p] = <<>>
    BY <1>2
  <2>2. ~Server(p)
    BY <2>1 DEF Server
  <2>3. LockInv(p)
    BY <2>1, <2>2 DEF LockInv
  <2>4. DumpInv(p)
    BY <2>1, <2>2 DEF DumpInv
  <2> QED BY <2>2, <2>3, <2>4
<1> QED BY <1>1, <1>3 DEF Inv, PidNamesServer

LEMMA InvStep == Inv /\ [Next]_vars => Inv'
<1> SUFFICES ASSUME Inv, [Next]_vars PROVE Inv'
  OBVIOUS
<1>1. FilesTypeOK' /\ (\A p \in Proc : LockInv(p)') /\ (\A p \in Proc : DumpInv(p)') /\ PidNamesServer'
  BY TypeStep, LockStep, DumpStep, PidStep
<1> QED BY <1>1 DEF Inv

LEMMA Invariant == Spec => []Inv
BY InitInv, InvStep, PTL DEF Spec

LEMMA KeysInvariant == Spec => []KeysInv
<1>1. Init => KeysInv
  <2> SUFFICES ASSUME Init PROVE KeysInv
    OBVIOUS
  <2>1. \A p \in Proc : content[p] = log[p] /\ ~init_[p]
    BY DEF Init
  <2>2. \A t \in 0 .. MaxClock : backup[t] = NoProc
    BY DEF Init
  <2> QED BY <2>1, <2>2 DEF KeysInv, BackupInv, NamedInv
<1>2. Inv /\ KeysInv /\ [Next]_vars => KeysInv'
  <2> SUFFICES ASSUME Inv, KeysInv, [Next]_vars PROVE KeysInv'
    OBVIOUS
  <2>1. (\A p \in Proc : content'[p] = log'[p]) /\ BackupInv' /\ NamedInv'
    BY ContentStep, BackupStep, NamedStep
  <2> QED BY <2>1 DEF KeysInv
<1> QED BY <1>1, <1>2, Invariant, PTL DEF Spec

(* The lock, the dump and the backups belong to processes, and a lock to a *)
(* living one. *)
THEOREM FilesTypeInvariant == Spec => []FilesTypeOK
<1>1. Inv => FilesTypeOK
  BY DEF Inv
<1> QED BY <1>1, Invariant, PTL

(* However many processes are started and die, in the middle of any call,  *)
(* WritePidFile returns 0 to at most one that lives. *)
THEOREM OneServerAtATime == Spec => []OneServer
<1>1. Inv => OneServer
  BY Alone DEF OneServer, Server
<1> QED BY <1>1, Invariant, PTL

(* The first line of the pid file is the running server's pid. *)
THEOREM PidFileNamesServer == Spec => []PidNamesServer
<1>1. Inv => PidNamesServer
  BY DEF Inv
<1> QED BY <1>1, Invariant, PTL

(* A server's dump has the keys it pushed, and nobody else's. *)
THEOREM DumpBelongsToServer == Spec => []DumpIsOwn
<1>1. Inv => DumpIsOwn
  BY DEF Inv, DumpInv, DumpIsOwn
<1> QED BY <1>1, Invariant, PTL

(* Every key that was ever pushed is in the dump or in a backup, unless    *)
(* two servers began their Init in the same second. *)
THEOREM NoKeyLost == Spec => []KeysKept
<1>1. Inv /\ KeysInv => KeysKept
  <2> SUFFICES ASSUME Inv, KeysInv, InitsApart, NEW p \in Proc, NEW i \in DOMAIN log[p]
               PROVE  \E f \in Files \ {NoProc} : \E j \in DOMAIN content[f] : content[f][j] = log[p][i]
    BY DEF KeysKept
  <2>1. init_[p]
    <3> SUFFICES ASSUME ~init_[p] PROVE FALSE
      OBVIOUS
    <3>1. log[p] = <<>>
      BY DEF Inv, DumpInv
    <3>2. DOMAIN log[p] = {}
      BY <3>1
    <3> QED BY <3>2
  <2>2. p \in Files \ {NoProc} /\ content[p] = log[p]
    BY <2>1, FilesAssumption DEF KeysInv, NamedInv
  <2> QED BY <2>2
<1> QED BY <1>1, Invariant, KeysInvariant, PTL
=============================================================================
