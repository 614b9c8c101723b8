------------------------------ MODULE Shutdown ------------------------------
(***************************************************************************)
(* terminate_processes and terminate_multiprocessing of _processes.py.     *)
(* All processes of a list are asked to end; then each is waited for, all  *)
(* until one common deadline; one that still runs when its wait is over    *)
(* gets SIGKILL and five seconds more.  The two functions differ in what   *)
(* follows when it outlives those: the wait of a subprocess raises, and    *)
(* the rest of the list is neither waited for nor killed; the join of a    *)
(* multiprocessing process returns, and the rest has its turn.             *)
(*                                                                         *)
(* The order of a list is not fixed: any process still to be waited for    *)
(* may be the next.  The deadline may pass at any moment.                  *)
(***************************************************************************)
VARIABLES
  lives,     \* the processes that run
  waiting,   \* of the list: those the call has not finished with
  killing,   \* the one that got SIGKILL and is waited for again, as a set
  outlived   \* those that ran for five seconds after SIGKILL

(* SIGTERM to all of the list that run.  It has no effect of its own here: *)
(* a process may exit at any time, asked or not, and may refuse to.        *)
Ask(procs) == /\ waiting' = procs
              /\ UNCHANGED <<killing, outlived>>

Exits(p) == /\ p \in lives
            /\ lives' = lives \ {p}
            /\ UNCHANGED <<waiting, killing, outlived>>

(* The first wait of a process, or the one after its SIGKILL, is over.     *)
WaitReturns(p) == /\ p \in waiting \ lives /\ killing \subseteq {p}
                  /\ waiting' = waiting \ {p} /\ killing' = {}
                  /\ UNCHANGED <<lives, outlived>>

Kill(p) == /\ p \in waiting \cap lives /\ killing = {}
           /\ killing' = {p}
           /\ UNCHANGED <<lives, waiting, outlived>>

(* The five seconds are over: of a multiprocessing process, then of a      *)
(* subprocess.                                                             *)
JoinGivesUp(p) == /\ p \in killing \cap lives
                  /\ waiting' = waiting \ {p} /\ killing' = {}
                  /\ outlived' = outlived \cup {p}
                  /\ UNCHANGED lives

WaitRaises(p) == /\ p \in killing \cap lives
                 /\ waiting' = {} /\ killing' = {}
                 /\ outlived' = outlived \cup {p}
                 /\ UNCHANGED lives
=============================================================================
