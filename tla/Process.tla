------------------------------ MODULE Process ------------------------------
(***************************************************************************)
(* The process table of ramOS: src/kernel/proc/process.c and the system    *)
(* calls and shell commands that operate on it.                            *)
(*                                                                         *)
(* A process_t is identified by its pid.  process_list is a linked list    *)
(* whose head is the newest process, and pids are handed out in increasing *)
(* order, so the list is the set of its pids read from the largest down;   *)
(* "the first match in the list" is "the match with the largest pid".      *)
(*                                                                         *)
(* Every operation runs to completion: the code never switches context     *)
(* inside one, and no interrupt handler touches the table.  A call that    *)
(* fails without changing anything (no such pid, heap exhausted before a   *)
(* pid is taken) is a stuttering step and is not written as an action.     *)
(***************************************************************************)
EXTENDS Integers

CONSTANTS MaxPid,      \* bound of the model: next_pid stops there
          Codes,       \* exit codes and signals
          NoProcess    \* the NULL of current_process

ASSUME MaxPidAssumption == MaxPid \in Nat /\ MaxPid >= 2
ASSUME CodesAssumption == 0 \in Codes /\ 9 \in Codes
ASSUME NoProcessAssumption == NoProcess \notin 0 .. MaxPid

Pids == 0 .. MaxPid
Kernel == 0
InitPid == 1

States == {"READY", "RUNNING", "BLOCKED", "ZOMBIE"}

VARIABLES
  process_list,     \* the pids in the list
  state,            \* proc->state, by pid
  parent_pid,       \* proc->parent_pid
  exit_code,        \* proc->exit_code
  current_process,  \* a pid or NoProcess
  next_pid

vars == <<process_list, state, parent_pid, exit_code, current_process, next_pid>>

TypeOK ==
  /\ process_list \subseteq Pids
  /\ state \in [Pids -> States]
  /\ parent_pid \in [Pids -> Pids]
  /\ exit_code \in [Pids -> Codes]
  /\ current_process \in process_list \cup {NoProcess}
  /\ next_pid \in 2 .. MaxPid + 1
  /\ \A p \in process_list : p < next_pid

-----------------------------------------------------------------------------
(* process_init: process_create gives the kernel pid 1 and parent 0, then  *)
(* the pid is overwritten with 0.  The next process gets pid 2.            *)
process_init ==
  /\ process_list = {Kernel}
  /\ state = [p \in Pids |-> IF p = Kernel THEN "RUNNING" ELSE "READY"]
  /\ parent_pid = [p \in Pids |-> Kernel]
  /\ exit_code = [p \in Pids |-> 0]
  /\ current_process = Kernel
  /\ next_pid = 2

(* The parent recorded by process_create. *)
CreatorPid == IF current_process = NoProcess THEN Kernel ELSE current_process

(* The process wakes its parent when that is not the kernel, is still in    *)
(* the list and is BLOCKED.                                                 *)
WakesParent(list, st, par, p) ==
  /\ par[p] > 0
  /\ par[p] \in list
  /\ st[par[p]] = "BLOCKED"

(* process_exit on the list, states and parents it finds: the process       *)
(* becomes a zombie and wakes its parent, its children go to pid 1.         *)
StatesAfterExit(list, st, par, p) ==
  [q \in Pids |->
     IF q = p THEN "ZOMBIE"
     ELSE IF q = par[p] /\ WakesParent(list, st, par, p) THEN "READY"
     ELSE st[q]]

ParentsAfterExit(list, par, p) ==
  [q \in Pids |-> IF q \in list /\ par[q] = p THEN InitPid ELSE par[q]]

(* Altered forms, named for the mistake they make. *)
process_exit_without_wakeup(p, code) ==
  /\ exit_code' = [exit_code EXCEPT ![p] = code]
  /\ state' = [state EXCEPT ![p] = "ZOMBIE"]
  /\ parent_pid' = ParentsAfterExit(process_list, parent_pid, p)
  /\ current_process' = IF current_process = p THEN NoProcess ELSE current_process
  /\ UNCHANGED <<process_list, next_pid>>

process_exit_without_reparenting(p, code) ==
  /\ exit_code' = [exit_code EXCEPT ![p] = code]
  /\ state' = StatesAfterExit(process_list, state, parent_pid, p)
  /\ current_process' = IF current_process = p THEN NoProcess ELSE current_process
  /\ UNCHANGED <<process_list, parent_pid, next_pid>>

process_exit(p, code) ==
  /\ exit_code' = [exit_code EXCEPT ![p] = code]
  /\ state' = StatesAfterExit(process_list, state, parent_pid, p)
  /\ parent_pid' = ParentsAfterExit(process_list, parent_pid, p)
  /\ current_process' = IF current_process = p THEN NoProcess ELSE current_process
  /\ UNCHANGED <<process_list, next_pid>>

-----------------------------------------------------------------------------
(* sys_fork: the current process gets a READY child; a child whose page     *)
(* directory cannot be cloned is freed, but its pid has been used up.       *)
sys_fork ==
  /\ current_process # NoProcess
  /\ next_pid <= MaxPid
  /\ process_list' = process_list \cup {next_pid}
  /\ state' = [state EXCEPT ![next_pid] = "READY"]
  /\ parent_pid' = [parent_pid EXCEPT ![next_pid] = current_process]
  /\ exit_code' = [exit_code EXCEPT ![next_pid] = 0]
  /\ next_pid' = next_pid + 1
  /\ UNCHANGED current_process

sys_fork_fails ==
  /\ current_process # NoProcess
  /\ next_pid <= MaxPid
  /\ next_pid' = next_pid + 1
  /\ UNCHANGED <<process_list, state, parent_pid, exit_code, current_process>>

(* sys_exec: a successful process_exec leaves the caller READY, not         *)
(* RUNNING; a failed one changes nothing.                                   *)
sys_exec ==
  /\ current_process # NoProcess
  /\ state' = [state EXCEPT ![current_process] = "READY"]
  /\ UNCHANGED <<process_list, parent_pid, exit_code, current_process, next_pid>>

sys_exit(code) ==
  /\ current_process # NoProcess
  /\ process_exit(current_process, code)

(* sys_wait: reap the first zombie child in the list, or block when there   *)
(* are only living children.  Without children the call returns -1.         *)
Children(p) == {q \in process_list : parent_pid[q] = p}
Zombies(p) == {q \in Children(p) : state[q] = "ZOMBIE"}

sys_wait_reaps(child) ==
  /\ current_process # NoProcess
  /\ child \in Zombies(current_process)
  /\ \A q \in Zombies(current_process) : q <= child
  /\ process_list' = process_list \ {child}
  /\ UNCHANGED <<state, parent_pid, exit_code, current_process, next_pid>>

sys_wait_blocks ==
  /\ current_process # NoProcess
  /\ Zombies(current_process) = {}
  /\ Children(current_process) # {}
  /\ state' = [state EXCEPT ![current_process] = "BLOCKED"]
  /\ UNCHANGED <<process_list, parent_pid, exit_code, current_process, next_pid>>

(* sys_kill by a process, and the shell's kill command (signal 9): pid 0    *)
(* is refused, everything else in the list is made to exit, a zombie too.   *)
sys_kill(pid, signal) ==
  /\ pid \in process_list \ {Kernel}
  /\ process_exit(pid, signal)

(* The shell's exec command: create a process and load the program into it; *)
(* when loading fails the new process is killed with signal 9.              *)
cmd_exec ==
  /\ next_pid <= MaxPid
  /\ process_list' = process_list \cup {next_pid}
  /\ state' = [state EXCEPT ![next_pid] = "READY"]
  /\ parent_pid' = [parent_pid EXCEPT ![next_pid] = CreatorPid]
  /\ exit_code' = [exit_code EXCEPT ![next_pid] = 0]
  /\ next_pid' = next_pid + 1
  /\ UNCHANGED current_process

cmd_exec_fails ==
  LET list == process_list \cup {next_pid}
      par == [parent_pid EXCEPT ![next_pid] = CreatorPid]
  IN /\ next_pid <= MaxPid
     /\ process_list' = list
     /\ state' = StatesAfterExit(list, state, par, next_pid)
     /\ parent_pid' = ParentsAfterExit(list, par, next_pid)
     /\ exit_code' = [exit_code EXCEPT ![next_pid] = 9]
     /\ next_pid' = next_pid + 1
     /\ UNCHANGED current_process

(* process_switch, which scheduler_schedule calls on a READY process only.  *)
process_switch_keeping_previous(next) ==
  /\ next \in process_list
  /\ state[next] = "READY"
  /\ state' = [state EXCEPT ![next] = "RUNNING"]
  /\ current_process' = next
  /\ UNCHANGED <<process_list, parent_pid, exit_code, next_pid>>

process_switch_to_any(next) ==
  /\ next \in process_list
  /\ state' = [p \in Pids |->
                 IF p = next THEN "RUNNING"
                 ELSE IF p = current_process /\ state[p] = "RUNNING" THEN "READY"
                 ELSE state[p]]
  /\ current_process' = next
  /\ UNCHANGED <<process_list, parent_pid, exit_code, next_pid>>

process_switch(next) ==
  /\ next \in process_list
  /\ state[next] = "READY"
  /\ state' = [p \in Pids |->
                 IF p = next THEN "RUNNING"
                 ELSE IF p = current_process /\ state[p] = "RUNNING" THEN "READY"
                 ELSE state[p]]
  /\ current_process' = next
  /\ UNCHANGED <<process_list, parent_pid, exit_code, next_pid>>

-----------------------------------------------------------------------------
Next ==
  \/ sys_fork
  \/ sys_fork_fails
  \/ sys_exec
  \/ \E code \in Codes : sys_exit(code)
  \/ \E child \in Pids : sys_wait_reaps(child)
  \/ sys_wait_blocks
  \/ \E pid \in Pids, signal \in Codes : sys_kill(pid, signal)
  \/ cmd_exec
  \/ cmd_exec_fails
  \/ \E next \in Pids : process_switch(next)

Spec == process_init /\ [][Next]_vars

-----------------------------------------------------------------------------
(* Only the current process is ever RUNNING, whatever forks, execs, kills   *)
(* and switches came before: the table never shows two running processes.   *)
RunningIsCurrent ==
  \A p \in process_list : state[p] = "RUNNING" => current_process = p

(* The current process is never one that has exited, so no system call is   *)
(* served on behalf of a zombie and sys_wait never frees the caller.        *)
CurrentIsAlive ==
  current_process # NoProcess => state[current_process] # "ZOMBIE"

(* No lost wake-up: a process blocked in sys_wait (other than the kernel)   *)
(* still has a living child, so the exit that will wake it is still to      *)
(* come.                                                                    *)
BlockedHasLivingChild ==
  \A p \in process_list \ {Kernel} :
    state[p] = "BLOCKED" => \E q \in Children(p) : state[q] # "ZOMBIE"

(* process_exit leaves no child behind: no process has an exited process    *)
(* as its parent (the kernel, which process_create names as the parent when *)
(* there is no current process, excepted).                                  *)
NoZombieParent ==
  \A p \in process_list :
    LET q == parent_pid[p]
    IN q \in process_list \ {Kernel} => state[q] # "ZOMBIE"

(* A zombie stays one until sys_wait takes it off the list: no wake-up,     *)
(* exec or switch brings it back.                                           *)
ZombieIsFinal ==
  [][\A p \in process_list :
       state[p] = "ZOMBIE" /\ p \in process_list' => state'[p] = "ZOMBIE"]_vars

(* The inductive invariant: the safety properties together, and the fact    *)
(* that pid 1, which reparenting hands orphans to, belongs to nobody.       *)
IInv ==
  /\ TypeOK
  /\ RunningIsCurrent
  /\ CurrentIsAlive
  /\ BlockedHasLivingChild
  /\ NoZombieParent
  /\ InitPid \notin process_list
=============================================================================
