-------------------------------- MODULE Pid --------------------------------
(***************************************************************************)
(* get_pid of kern/process/proc.c under the creation and the end of        *)
(* processes.  get_pid keeps the pid it returned last and the next pid     *)
(* above it that is in use; as long as it stays below that one it does not *)
(* look at the process list.  A process is represented by its pid.         *)
(*                                                                         *)
(* One step of the model is one turn of the loop behind the label repeat.  *)
(* do_fork calls get_pid with interrupts disabled: nothing else happens    *)
(* between its steps.                                                      *)
(***************************************************************************)
EXTENDS Integers, SequencesExt

CONSTANTS MAX_PID, MAX_PROCESS      \* 8192 and 4096 in the code

ASSUME PidAssumption == MAX_PROCESS \in Nat /\ MAX_PID \in Nat /\ MAX_PID > MAX_PROCESS

VARIABLES proc_list,            \* the pids of the processes, newest first
          last_pid, next_safe,  \* the static variables of get_pid
          le                    \* the place of the loop in proc_list; 0 outside of get_pid

pidvars == <<proc_list, last_pid, next_safe, le>>

PidInit == proc_list = << >> /\ last_pid = MAX_PID /\ next_safe = MAX_PID /\ le = 0

(* Mutants: a pid above last_pid that is in use does not bound the range; the
   loop goes on with the next process though last_pid has reached the bound. *)
Bound_not(pid, last, safe) == safe
Restart_never(last, safe) == FALSE

(* The pid of a process that is still above last_pid bounds the range. *)
Bound(pid, last, safe) == IF pid > last /\ safe > pid THEN pid ELSE safe

(* last_pid has been incremented to last: is the range used up? *)
Restart(last, safe) == last >= safe

WrapPid(last) == IF last >= MAX_PID THEN 1 ELSE last

(* set_links puts the new process at the head of the list. *)
set_links(pid) == proc_list' = <<pid>> \o proc_list

(* do_fork calls get_pid, which returns the next pid of the range at once ...
   nr_process counts idleproc, which is not in the list. *)
get_pid_next ==
    /\ le = 0 /\ Len(proc_list) + 1 < MAX_PROCESS
    /\ last_pid + 1 < MAX_PID /\ last_pid + 1 < next_safe
    /\ last_pid' = last_pid + 1
    /\ set_links(last_pid + 1)
    /\ UNCHANGED <<next_safe, le>>

(* ... or begins to look for a new range. *)
get_pid_inside ==
    /\ le = 0 /\ Len(proc_list) + 1 < MAX_PROCESS
    /\ last_pid + 1 >= MAX_PID \/ last_pid + 1 >= next_safe
    /\ last_pid' = WrapPid(last_pid + 1)
    /\ next_safe' = MAX_PID
    /\ le' = 1
    /\ UNCHANGED proc_list

(* A turn of the loop: last_pid is in use ... *)
get_pid_taken ==
    /\ le \in 1 .. Len(proc_list) /\ proc_list[le] = last_pid
    /\ IF Restart(last_pid + 1, next_safe)
       THEN last_pid' = WrapPid(last_pid + 1) /\ next_safe' = MAX_PID /\ le' = 1
       ELSE last_pid' = last_pid + 1 /\ le' = le + 1 /\ UNCHANGED next_safe
    /\ UNCHANGED proc_list

(* ... or is not the pid of this process. *)
get_pid_other ==
    /\ le \in 1 .. Len(proc_list) /\ proc_list[le] # last_pid
    /\ next_safe' = Bound(proc_list[le], last_pid, next_safe)
    /\ le' = le + 1
    /\ UNCHANGED <<proc_list, last_pid>>

(* The loop has seen all processes. *)
get_pid_return ==
    /\ le = Len(proc_list) + 1
    /\ set_links(last_pid)
    /\ le' = 0
    /\ UNCHANGED <<last_pid, next_safe>>

(* remove_links, for any process but the first, which is init. *)
do_wait(i) ==
    /\ le = 0 /\ i < Len(proc_list)
    /\ proc_list' = RemoveAt(proc_list, i)
    /\ UNCHANGED <<last_pid, next_safe, le>>

Loop == get_pid_taken \/ get_pid_other \/ get_pid_return

PidNext == get_pid_next \/ get_pid_inside \/ Loop \/ \E i \in 1 .. MAX_PROCESS : do_wait(i)

PidSpec == PidInit /\ [][PidNext]_pidvars

---------------------------------------------------------------------------
(* No two processes have the same pid, and every pid is one that find_proc
   accepts, however often the pids have wrapped around; and no pid of the
   range that get_pid will hand out without looking is in use. *)
PidsUnique ==
    /\ IsInjective(proc_list)
    /\ \A i \in 1 .. Len(proc_list) :
          /\ proc_list[i] \in 1 .. MAX_PID - 1
          /\ le = 0 => ~(last_pid < proc_list[i] /\ proc_list[i] < next_safe)

============================================================================
