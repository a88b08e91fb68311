--------------------------- MODULE ProcessProofs ---------------------------
(***************************************************************************)
(* The safety properties of the process table, for any number of           *)
(* processes.  IInv is inductive; the properties are its conjuncts.        *)
(***************************************************************************)
EXTENDS Process, TLAPS

(* Pid 1, where reparenting sends orphans, is in the range of pids. *)
LEMMA InitPidIsAPid == InitPid \in Pids
  BY MaxPidAssumption DEF Pids, InitPid

(* process_init establishes the invariant. *)
LEMMA InitEstablishes == process_init => IInv
<1> SUFFICES ASSUME process_init PROVE IInv
  OBVIOUS
<1>1. /\ Kernel \in Pids /\ Kernel = 0 /\ InitPid = 1
      /\ 2 \in 2 .. MaxPid + 1 /\ 0 \in Codes
  BY MaxPidAssumption, CodesAssumption DEF Kernel, InitPid, Pids
<1>2. TypeOK
  BY <1>1 DEF process_init, TypeOK, States
<1>3. RunningIsCurrent /\ CurrentIsAlive /\ NoZombieParent
  BY <1>1 DEF process_init, RunningIsCurrent, CurrentIsAlive, NoZombieParent
<1>4. BlockedHasLivingChild /\ InitPid \notin process_list
  BY <1>1 DEF process_init, BlockedHasLivingChild
<1> QED BY <1>2, <1>3, <1>4 DEF IInv

(* process_exit, whoever calls it, preserves the invariant. *)
LEMMA ExitPreserves ==
  ASSUME IInv, NEW p \in process_list, NEW code \in Codes, process_exit(p, code)
  PROVE  IInv'
<1>1. /\ process_list \subseteq Pids /\ state \in [Pids -> States]
      /\ parent_pid \in [Pids -> Pids] /\ p \in Pids
  BY DEF IInv, TypeOK
<1>2. /\ state' \in [Pids -> States]
      /\ state'[p] = "ZOMBIE"
      /\ \A q \in Pids \ {p} :
           \/ state'[q] = state[q]
           \/ state[q] = "BLOCKED" /\ state'[q] = "READY"
      /\ WakesParent(process_list, state, parent_pid, p) /\ parent_pid[p] # p
           => state'[parent_pid[p]] = "READY"
  BY <1>1 DEF process_exit, StatesAfterExit, WakesParent, States
<1>3. /\ parent_pid' \in [Pids -> Pids]
      /\ \A q \in process_list : parent_pid[q] = p => parent_pid'[q] = InitPid
      /\ \A q \in Pids : parent_pid[q] # p => parent_pid'[q] = parent_pid[q]
  BY <1>1, InitPidIsAPid DEF process_exit, ParentsAfterExit
<1>4. TypeOK'
  BY <1>2, <1>3 DEF process_exit, IInv, TypeOK
<1>5. RunningIsCurrent'
  BY <1>1, <1>2 DEF process_exit, IInv, RunningIsCurrent
<1>6. CurrentIsAlive'
  BY <1>1, <1>2, NoProcessAssumption
  DEF process_exit, IInv, TypeOK, CurrentIsAlive
<1>7. BlockedHasLivingChild'
  <2> SUFFICES ASSUME NEW b \in process_list \ {Kernel}, state'[b] = "BLOCKED"
               PROVE  \E q \in Children(b)' : state'[q] # "ZOMBIE"
    BY DEF BlockedHasLivingChild, process_exit
  <2>1. b \in Pids /\ b # p /\ state[b] = "BLOCKED" /\ b > 0
    BY <1>1, <1>2 DEF Pids, Kernel
  <2>2. PICK q \in Children(b) : state[q] # "ZOMBIE"
    BY <2>1 DEF IInv, BlockedHasLivingChild
  <2>3. q \in process_list /\ q \in Pids /\ parent_pid[q] = b
    BY <1>1, <2>2 DEF Children
  <2>4. q # p
    BY <1>2, <2>1, <2>3 DEF WakesParent
  <2>5. q \in Children(b)' /\ state'[q] # "ZOMBIE"
    BY <1>2, <1>3, <2>1, <2>2, <2>3, <2>4 DEF Children, process_exit
  <2> QED BY <2>5
<1>8. NoZombieParent'
  <2> SUFFICES ASSUME NEW r \in process_list,
                      parent_pid'[r] \in process_list \ {Kernel}
               PROVE  state'[parent_pid'[r]] # "ZOMBIE"
    BY DEF NoZombieParent, process_exit
  <2>1. parent_pid[r] # p
    BY <1>3 DEF IInv
  <2>2. parent_pid'[r] = parent_pid[r]
    BY <1>1, <1>3, <2>1
  <2>3. state[parent_pid[r]] # "ZOMBIE"
    BY <2>2 DEF IInv, NoZombieParent
  <2> QED BY <1>1, <1>2, <2>1, <2>2, <2>3
<1> QED BY <1>4, <1>5, <1>6, <1>7, <1>8 DEF IInv, process_exit

(* The pid given to a new process is not in use, and the list that has it   *)
(* still lies below next_pid.                                               *)
LEMMA FreshPid ==
  ASSUME IInv, next_pid <= MaxPid
  PROVE  /\ next_pid \in Pids /\ next_pid \notin process_list
         /\ next_pid # InitPid /\ next_pid # Kernel /\ current_process # next_pid
         /\ next_pid + 1 \in 2 .. MaxPid + 1
         /\ \A p \in process_list \cup {next_pid} : p < next_pid + 1
<1>1. next_pid \in 2 .. MaxPid + 1 /\ process_list \subseteq Pids
  BY DEF IInv, TypeOK
<1>2. \A p \in process_list : p \in Int /\ p < next_pid
  BY <1>1, MaxPidAssumption DEF IInv, TypeOK, Pids
<1>3. next_pid \in Int /\ next_pid >= 2 /\ MaxPid \in Int
  BY <1>1, MaxPidAssumption
<1>4. next_pid \in Pids /\ next_pid # InitPid /\ next_pid # Kernel
  BY <1>3 DEF Pids, InitPid, Kernel
<1>5. next_pid \notin process_list
  BY <1>2, <1>3
<1>6. current_process # next_pid
  BY <1>4, <1>5, NoProcessAssumption DEF IInv, TypeOK, Pids
<1>7. next_pid + 1 \in 2 .. MaxPid + 1
  BY <1>3
<1>8. \A p \in process_list \cup {next_pid} : p < next_pid + 1
  BY <1>2, <1>3
<1> QED BY <1>4, <1>5, <1>6, <1>7, <1>8

(* The parent of a new process is the current process or the kernel.        *)
LEMMA CreatorIsAPid ==
  ASSUME IInv
  PROVE  /\ CreatorPid \in Pids
         /\ CreatorPid # Kernel => CreatorPid = current_process
         /\ current_process # NoProcess => CreatorPid = current_process
<1>1. Kernel \in Pids
  BY MaxPidAssumption DEF Kernel, Pids
<1> QED BY <1>1 DEF CreatorPid, IInv, TypeOK

(* A new READY process (sys_fork, or the shell's exec) preserves it: its    *)
(* pid is fresh and its parent is the current process or the kernel.        *)
LEMMA CreatePreserves ==
  ASSUME IInv, sys_fork \/ cmd_exec
  PROVE  IInv'
<1> DEFINE par == CreatorPid
<1>1. /\ process_list' = process_list \cup {next_pid}
      /\ next_pid <= MaxPid
      /\ state' = [state EXCEPT ![next_pid] = "READY"]
      /\ parent_pid' = [parent_pid EXCEPT ![next_pid] = par]
      /\ exit_code' = [exit_code EXCEPT ![next_pid] = 0]
      /\ next_pid' = next_pid + 1
      /\ current_process' = current_process
  BY DEF sys_fork, cmd_exec, CreatorPid
<1>2. /\ next_pid \in Pids /\ next_pid \notin process_list
      /\ next_pid # InitPid /\ current_process # next_pid
      /\ process_list \subseteq Pids
      /\ par \in Pids /\ (par # Kernel => current_process = par)
  BY <1>1, FreshPid, CreatorIsAPid DEF IInv, TypeOK
<1> HIDE DEF par
<1>3. TypeOK'
  <2>1. next_pid' \in 2 .. MaxPid + 1 /\ \A p \in process_list' : p < next_pid'
    BY <1>1, FreshPid
  <2>2. current_process' \in process_list' \cup {NoProcess}
    BY <1>1 DEF IInv, TypeOK
  <2> QED BY <1>1, <1>2, <2>1, <2>2, CodesAssumption DEF IInv, TypeOK, States
<1>4. RunningIsCurrent' /\ CurrentIsAlive'
  BY <1>1, <1>2, NoProcessAssumption
  DEF IInv, TypeOK, RunningIsCurrent, CurrentIsAlive, States
<1>5. BlockedHasLivingChild'
  <2> SUFFICES ASSUME NEW b \in process_list' \ {Kernel}, state'[b] = "BLOCKED"
               PROVE  \E q \in Children(b)' : state'[q] # "ZOMBIE"
    BY DEF BlockedHasLivingChild
  <2>1. b \in process_list /\ state[b] = "BLOCKED"
    BY <1>1, <1>2 DEF IInv, TypeOK
  <2>2. PICK q \in Children(b) : state[q] # "ZOMBIE"
    BY <2>1 DEF IInv, BlockedHasLivingChild
  <2>3. q \in Children(b)' /\ state'[q] # "ZOMBIE"
    BY <1>1, <1>2, <2>2 DEF Children, IInv, TypeOK
  <2> QED BY <2>3
<1>6. NoZombieParent'
  <2> SUFFICES ASSUME NEW r \in process_list',
                      parent_pid'[r] \in process_list' \ {Kernel}
               PROVE  state'[parent_pid'[r]] # "ZOMBIE"
    BY DEF NoZombieParent
  <2>1. CASE r = next_pid
    BY <1>1, <1>2, <2>1, NoProcessAssumption DEF IInv, TypeOK, CurrentIsAlive, Pids
  <2>2. CASE r # next_pid
    BY <1>1, <1>2, <2>2 DEF IInv, TypeOK, NoZombieParent
  <2> QED BY <2>1, <2>2
<1> QED BY <1>1, <1>2, <1>3, <1>4, <1>5, <1>6 DEF IInv

(* A program that cannot be loaded leaves a zombie under a fresh pid.       *)
LEMMA FailedExecPreserves ==
  ASSUME IInv, cmd_exec_fails
  PROVE  IInv'
<1> DEFINE n == next_pid
           par == [parent_pid EXCEPT ![n] = CreatorPid]
<1>1. /\ n \in Pids /\ n \notin process_list /\ n # InitPid /\ n # Kernel
      /\ current_process # n /\ process_list \subseteq Pids
      /\ state \in [Pids -> States] /\ CreatorPid \in Pids /\ CreatorPid # n
      /\ par \in [Pids -> Pids] /\ par[n] = CreatorPid
      /\ \A q \in Pids \ {n} : par[q] = parent_pid[q]
  <2>1. n <= MaxPid
    BY DEF cmd_exec_fails
  <2>2. CreatorPid # n
    BY <2>1, FreshPid, CreatorIsAPid
  <2> QED BY <2>1, <2>2, FreshPid, CreatorIsAPid DEF IInv, TypeOK
<1>2. /\ process_list' = process_list \cup {n} /\ n <= MaxPid
      /\ next_pid' = n + 1 /\ current_process' = current_process
      /\ exit_code' = [exit_code EXCEPT ![n] = 9]
  BY DEF cmd_exec_fails
<1>3. /\ state' \in [Pids -> States]
      /\ state'[n] = "ZOMBIE"
      /\ \A q \in Pids \ {n} :
           \/ state'[q] = state[q]
           \/ state[q] = "BLOCKED" /\ state'[q] = "READY"
  BY <1>1 DEF cmd_exec_fails, StatesAfterExit, WakesParent, States
<1>4. /\ parent_pid' \in [Pids -> Pids]
      /\ \A q \in process_list \cup {n} : par[q] = n => parent_pid'[q] = InitPid
      /\ \A q \in Pids : par[q] # n => parent_pid'[q] = par[q]
  BY <1>1, InitPidIsAPid DEF cmd_exec_fails, ParentsAfterExit
<1> HIDE DEF par
<1>5. TypeOK'
  <2>1. next_pid' \in 2 .. MaxPid + 1 /\ \A p \in process_list' : p < next_pid'
    BY <1>2, FreshPid
  <2> QED BY <1>1, <1>2, <1>3, <1>4, <2>1, CodesAssumption DEF IInv, TypeOK
<1>6. RunningIsCurrent'
  BY <1>1, <1>2, <1>3 DEF IInv, RunningIsCurrent
<1>7. CurrentIsAlive'
  BY <1>1, <1>2, <1>3 DEF IInv, TypeOK, CurrentIsAlive
<1>8. BlockedHasLivingChild'
  <2> SUFFICES ASSUME NEW b \in process_list' \ {Kernel}, state'[b] = "BLOCKED"
               PROVE  \E q \in Children(b)' : state'[q] # "ZOMBIE"
    BY DEF BlockedHasLivingChild
  <2>1. b \in process_list /\ state[b] = "BLOCKED"
    BY <1>1, <1>2, <1>3
  <2>2. PICK q \in Children(b) : state[q] # "ZOMBIE"
    BY <2>1 DEF IInv, BlockedHasLivingChild
  <2>3. q \in Children(b)' /\ state'[q] # "ZOMBIE"
    BY <1>1, <1>2, <1>3, <1>4, <2>1, <2>2 DEF Children
  <2> QED BY <2>3
<1>9. NoZombieParent'
  <2> SUFFICES ASSUME NEW r \in process_list',
                      parent_pid'[r] \in process_list' \ {Kernel}
               PROVE  state'[parent_pid'[r]] # "ZOMBIE"
    BY DEF NoZombieParent
  <2>1. /\ par[r] # n /\ parent_pid'[r] = par[r] /\ par[r] \in process_list
        /\ par[r] # Kernel /\ par[r] \in Pids
    BY <1>1, <1>2, <1>4 DEF IInv
  <2>2. state[par[r]] # "ZOMBIE"
    <3>1. CASE r = n
      BY <1>1, <2>1, <3>1 DEF CreatorPid, IInv, CurrentIsAlive
    <3>2. CASE r # n
      BY <1>1, <1>2, <2>1, <3>2 DEF IInv, NoZombieParent
    <3> QED BY <3>1, <3>2
  <2> QED BY <1>3, <2>1, <2>2
<1> QED BY <1>1, <1>2, <1>5, <1>6, <1>7, <1>8, <1>9 DEF IInv
(* A fork that fails after taking its pid only wastes the pid.              *)
LEMMA FailedForkPreserves ==
  ASSUME IInv, sys_fork_fails
  PROVE  IInv'
<1>1. next_pid' \in 2 .. MaxPid + 1 /\ \A p \in process_list : p < next_pid'
  BY FreshPid DEF sys_fork_fails
<1> QED BY <1>1
        DEF sys_fork_fails, IInv, TypeOK, RunningIsCurrent, CurrentIsAlive,
            BlockedHasLivingChild, Children, NoZombieParent

(* exec and wait by the current process change only its own state, to READY *)
(* or, when it has children and none of them is a zombie, to BLOCKED.       *)
LEMMA OwnStatePreserves ==
  ASSUME IInv, sys_exec \/ sys_wait_blocks
  PROVE  IInv'
<1>1. /\ current_process \in process_list /\ process_list \subseteq Pids
      /\ UNCHANGED <<process_list, parent_pid, exit_code, current_process, next_pid>>
  BY DEF sys_exec, sys_wait_blocks, IInv, TypeOK
<1>2. PICK s \in {"READY", "BLOCKED"} :
        /\ state' = [state EXCEPT ![current_process] = s]
        /\ s = "BLOCKED" => Zombies(current_process) = {} /\ Children(current_process) # {}
  BY DEF sys_exec, sys_wait_blocks
<1>3. TypeOK' /\ RunningIsCurrent' /\ CurrentIsAlive' /\ NoZombieParent'
  BY <1>1, <1>2
  DEF IInv, TypeOK, RunningIsCurrent, CurrentIsAlive, NoZombieParent, States
<1>4. BlockedHasLivingChild'
  <2> SUFFICES ASSUME NEW b \in process_list \ {Kernel}, state'[b] = "BLOCKED"
               PROVE  \E q \in Children(b)' : state'[q] # "ZOMBIE"
    BY <1>1 DEF BlockedHasLivingChild
  <2>1. PICK q \in Children(b) : state[q] # "ZOMBIE"
    <3>1. CASE b = current_process
      BY <1>1, <1>2, <3>1 DEF Zombies, IInv, TypeOK
    <3>2. CASE b # current_process
      BY <1>1, <1>2, <3>2 DEF IInv, TypeOK, BlockedHasLivingChild
    <3> QED BY <3>1, <3>2
  <2>2. q \in Children(b)' /\ state'[q] # "ZOMBIE"
    BY <1>1, <1>2, <2>1 DEF Children, IInv, TypeOK
  <2> QED BY <2>2
<1> QED BY <1>1, <1>3, <1>4 DEF IInv

(* Reaping a zombie takes away nobody's living child and not the caller.    *)
LEMMA ReapPreserves ==
  ASSUME IInv, NEW child \in Pids, sys_wait_reaps(child)
  PROVE  IInv'
<1>1. /\ state[child] = "ZOMBIE" /\ current_process # child
      /\ process_list' = process_list \ {child}
      /\ UNCHANGED <<state, parent_pid, exit_code, current_process, next_pid>>
  BY DEF sys_wait_reaps, Zombies, IInv, CurrentIsAlive
<1>2. TypeOK' /\ RunningIsCurrent' /\ CurrentIsAlive' /\ NoZombieParent'
  BY <1>1 DEF IInv, TypeOK, RunningIsCurrent, CurrentIsAlive, NoZombieParent
<1>3. BlockedHasLivingChild'
  BY <1>1 DEF IInv, BlockedHasLivingChild, Children
<1> QED BY <1>1, <1>2, <1>3 DEF IInv

(* A switch makes a READY process RUNNING and the one it replaces READY.    *)
LEMMA SwitchPreserves ==
  ASSUME IInv, NEW next \in Pids, process_switch(next)
  PROVE  IInv'
<1>1. /\ process_list \subseteq Pids /\ next \in process_list
      /\ current_process' = next
      /\ UNCHANGED <<process_list, parent_pid, exit_code, next_pid>>
  BY DEF process_switch, IInv, TypeOK
<1>2. /\ state' \in [Pids -> States] /\ state'[next] = "RUNNING"
      /\ \A p \in Pids \ {next} :
           \/ state'[p] = state[p] /\ (state[p] = "RUNNING" => p # current_process)
           \/ state'[p] = "READY" /\ state[p] = "RUNNING"
  BY <1>1 DEF process_switch, IInv, TypeOK, States
<1>3. TypeOK' /\ RunningIsCurrent' /\ CurrentIsAlive'
  BY <1>1, <1>2 DEF IInv, TypeOK, RunningIsCurrent, CurrentIsAlive
<1>4. \A p \in Pids : state[p] # "ZOMBIE" => state'[p] # "ZOMBIE"
  BY <1>2
<1>5. NoZombieParent'
  BY <1>1, <1>4 DEF IInv, NoZombieParent
<1>6. BlockedHasLivingChild'
  BY <1>1, <1>2, <1>4 DEF IInv, BlockedHasLivingChild, Children
<1> QED BY <1>1, <1>3, <1>5, <1>6 DEF IInv

(* Every step of the process table preserves the invariant.                 *)
LEMMA NextPreserves == IInv /\ [Next]_vars => IInv'
<1> SUFFICES ASSUME IInv, [Next]_vars PROVE IInv'
  OBVIOUS
<1>1. CASE sys_fork \/ cmd_exec
  BY <1>1, CreatePreserves
<1>2. CASE sys_fork_fails
  BY <1>2, FailedForkPreserves
<1>3. CASE sys_exec \/ sys_wait_blocks
  BY <1>3, OwnStatePreserves
<1>4. ASSUME NEW code \in Codes, sys_exit(code) PROVE IInv'
  BY <1>4, ExitPreserves DEF sys_exit, IInv, TypeOK
<1>5. ASSUME NEW child \in Pids, sys_wait_reaps(child) PROVE IInv'
  BY <1>5, ReapPreserves
<1>6. ASSUME NEW pid \in Pids, NEW signal \in Codes, sys_kill(pid, signal) PROVE IInv'
  BY <1>6, ExitPreserves DEF sys_kill
<1>7. CASE cmd_exec_fails
  BY <1>7, FailedExecPreserves
<1>8. ASSUME NEW next \in Pids, process_switch(next) PROVE IInv'
  BY <1>8, SwitchPreserves
<1>9. CASE UNCHANGED vars
  BY <1>9 DEF vars, IInv, TypeOK, RunningIsCurrent, CurrentIsAlive,
              BlockedHasLivingChild, Children, NoZombieParent
<1> QED BY <1>1, <1>2, <1>3, <1>4, <1>5, <1>6, <1>7, <1>8, <1>9 DEF Next

(* The invariant holds in every reachable state of the process table.       *)
THEOREM Invariance == Spec => []IInv
  BY InitEstablishes, NextPreserves, PTL DEF Spec

(* The variables of the process table keep their types; pids stay below     *)
(* next_pid and the current process stays in the list.                      *)
THEOREM TypeCorrect == Spec => []TypeOK
<1>1. IInv => TypeOK
  BY DEF IInv
<1> QED BY <1>1, Invariance, PTL

(* At most one process is RUNNING and it is the current one, which has not  *)
(* exited.                                                                  *)
THEOREM RunningSafe == Spec => [](RunningIsCurrent /\ CurrentIsAlive)
<1>1. IInv => RunningIsCurrent /\ CurrentIsAlive
  BY DEF IInv
<1> QED BY <1>1, Invariance, PTL

(* No wake-up is lost: whoever is blocked in sys_wait still has a living    *)
(* child (the kernel process excepted).                                     *)
THEOREM NoLostWakeup == Spec => []BlockedHasLivingChild
<1>1. IInv => BlockedHasLivingChild
  BY DEF IInv
<1> QED BY <1>1, Invariance, PTL

(* No process is left with an exited process as its parent.                 *)
THEOREM ChildrenAreReparented == Spec => []NoZombieParent
<1>1. IInv => NoZombieParent
  BY DEF IInv
<1> QED BY <1>1, Invariance, PTL
(* A zombie in the list stays a zombie: exec and switch never apply to one, *)
(* and only a BLOCKED process is woken.                                     *)
THEOREM ZombiesStay == Spec => ZombieIsFinal
<1> DEFINE Final == \A p \in process_list :
             state[p] = "ZOMBIE" /\ p \in process_list' => state'[p] = "ZOMBIE"
<1>1. IInv /\ [Next]_vars => [Final]_vars
  <2> SUFFICES ASSUME IInv, Next, NEW p \in process_list,
                      state[p] = "ZOMBIE", p \in process_list'
               PROVE  state'[p] = "ZOMBIE"
    OBVIOUS
  <2>0. p \in Pids /\ state \in [Pids -> States]
    BY DEF IInv, TypeOK
  <2>1. CASE sys_fork \/ cmd_exec
    <3>1. next_pid <= MaxPid /\ state' = [state EXCEPT ![next_pid] = "READY"]
      BY <2>1 DEF sys_fork, cmd_exec
    <3> QED BY <2>0, <3>1, FreshPid
  <2>2. CASE sys_fork_fails
    BY <2>2 DEF sys_fork_fails
  <2>3. CASE sys_exec \/ sys_wait_blocks
    BY <2>0, <2>3 DEF sys_exec, sys_wait_blocks, IInv, TypeOK, CurrentIsAlive
  <2>4. ASSUME NEW e \in process_list, NEW code \in Codes, process_exit(e, code)
        PROVE  state'[p] = "ZOMBIE"
    BY <2>0, <2>4 DEF process_exit, StatesAfterExit, WakesParent
  <2>5. ASSUME NEW child \in Pids, sys_wait_reaps(child)
        PROVE  state'[p] = "ZOMBIE"
    BY <2>5 DEF sys_wait_reaps
  <2>6. CASE cmd_exec_fails
    <3> DEFINE par == [parent_pid EXCEPT ![next_pid] = CreatorPid]
    <3>1. state' = StatesAfterExit(process_list \cup {next_pid}, state, par, next_pid)
      BY <2>6 DEF cmd_exec_fails
    <3> HIDE DEF par
    <3> QED BY <2>0, <3>1 DEF StatesAfterExit, WakesParent
  <2>7. ASSUME NEW next \in Pids, process_switch(next)
        PROVE  state'[p] = "ZOMBIE"
    BY <2>0, <2>7 DEF process_switch
  <2>8. ASSUME NEW code \in Codes, sys_exit(code)
        PROVE  state'[p] = "ZOMBIE"
    BY <2>4, <2>8 DEF sys_exit, IInv, TypeOK
  <2>9. ASSUME NEW pid \in Pids, NEW signal \in Codes, sys_kill(pid, signal)
        PROVE  state'[p] = "ZOMBIE"
    BY <2>4, <2>9 DEF sys_kill
  <2> QED BY <2>1, <2>2, <2>3, <2>5, <2>6, <2>7, <2>8, <2>9 DEF Next
<1>2. [][Final]_vars <=> ZombieIsFinal
  BY DEF ZombieIsFinal
<1> HIDE DEF Final
<1> QED BY <1>1, <1>2, Invariance, PTL DEF Spec
=============================================================================
