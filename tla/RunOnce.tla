------------------------------ MODULE RunOnce -------------------------------
(***************************************************************************)
(* run_once of run_all.py and run() of the runner that it starts, seen     *)
(* from outside: the process, its time limit, and everything a run makes   *)
(* that must be gone afterwards.  A mode is here its starts, its report,   *)
(* its end and the stop of its processes.  The workers of some frameworks  *)
(* are subprocesses that lead a session of their own, those of others are  *)
(* multiprocessing processes in the group of the runner.                   *)
(***************************************************************************)
EXTENDS FiniteSets

CONSTANTS
  TempFiles,   \* the temporary files of the runner: counter, latency
  Statuses,    \* what a runner reports of a run: "ok", "timeout", "exhausted"
  Workers,     \* the worker processes
  Publishers   \* the publisher processes, always sessions of their own

ASSUME RunOnceAssumption ==
  /\ "ok" \in Statuses /\ "error" \notin Statuses
  /\ Workers \cap Publishers = {}

VARIABLES
  mode,        \* "steady", "latency" or "counted" (drain and burst)
  home,        \* where workers live: "session" or "group"
  keepQueue,   \* --keep-queues: the queue is emptied, not deleted
  suite,       \* run_once: "call", "wait", "kill", "join", "returned"
  outcome,     \* what it returns
  config,      \* the configuration file exists
  runner,      \* "none", "prepare", "mode", "stopPublishers", "stopWorkers",
               \* "report", "finally" or "exited"
  raising,     \* the runner is leaving with an exception
  exitCode,    \* "zero", "nonzero" or "killed" when it has exited
  told,        \* the STATUS line in the pipe, or "nothing"
  files,       \* temporary files that exist
  queue,       \* the queue exists
  deleteFailed,\* the management API refused to delete it
  held,        \* the processes the runner has in a list of its own
  lives, waiting, killing, outlived   \* the processes: see Shutdown

Stop == INSTANCE Shutdown

kind == <<mode, home, keepQueue>>
process == <<runner, raising, exitCode, told>>
stopping == <<waiting, killing, outlived>>
procs == <<held, lives, stopping>>
traces == <<files, queue, deleteFailed, procs>>
vars == <<kind, suite, outcome, config, process, traces>>

Init == /\ mode \in {"steady", "latency", "counted"} /\ home \in {"session", "group"}
        /\ keepQueue \in BOOLEAN
        /\ suite = "call" /\ outcome = "none" /\ config = FALSE
        /\ runner = "none" /\ raising = FALSE /\ exitCode = "zero" /\ told = "nothing"
        /\ files = {} /\ queue = FALSE /\ deleteFailed = FALSE
        /\ held = {} /\ lives = {} /\ waiting = {} /\ killing = {} /\ outlived = {}

(* What an action of the runner that only moves its processes leaves.      *)
Elsewhere == UNCHANGED <<kind, suite, outcome, config, exitCode, told, files, deleteFailed>>
-----------------------------------------------------------------------------
(***************************************************************************)
(* Slips: each stands for one bug somebody could write into the operation  *)
(* it is named after.  No action uses them; they are put in the place of   *)
(* that operation to see that a property notices.                          *)
(***************************************************************************)
ReturnByStatus == /\ suite = "join"
                  /\ suite' = "returned" /\ config' = FALSE
                  /\ outcome' = IF told = "nothing" THEN "error" ELSE told
                  /\ UNCHANGED <<kind, process, traces>>

TimeoutKeepsWaiting == /\ suite = "wait" /\ runner \in {"none", "exited"}
                       /\ suite' = "kill"
                       /\ UNCHANGED <<kind, outcome, config, process, traces>>

TimeoutAbandons == /\ suite = "wait"
                   /\ suite' = "join"
                   /\ UNCHANGED <<kind, outcome, config, process, traces>>

StartFailureCaught == /\ runner = "mode" /\ told = "nothing" /\ held \cap Workers = {}
                      /\ held \cap lives = {}
                      /\ \E started \in SUBSET Workers \ {Workers} : lives' = lives \cup started
                      /\ queue' = TRUE
                      /\ runner' = "report"
                      /\ UNCHANGED <<raising, held, stopping>> /\ Elsewhere

WaitRaisesCaught(p) == /\ runner \in {"stopPublishers", "stopWorkers"}
                       /\ p \in Publishers \/ home = "session"
                       /\ Stop!JoinGivesUp(p)
                       /\ UNCHANGED <<runner, raising, queue, held>> /\ Elsewhere

ReturnFromMode == /\ runner = "mode"
                  /\ told # "nothing"
                  /\ runner' = "stopWorkers"
                  /\ Stop!Ask(held \cap Workers)
                  /\ UNCHANGED <<raising, queue, held, lives>> /\ Elsewhere
-----------------------------------------------------------------------------
(* run_once: a start that fails returns before the file is removed.        *)
StartRunner == /\ suite = "call"
               /\ suite' = "wait" /\ config' = TRUE
               /\ runner' = "prepare"
               /\ UNCHANGED <<kind, outcome, raising, exitCode, told, traces>>

StartRunnerFails == /\ suite = "call"
                    /\ suite' = "returned" /\ config' = TRUE
                    /\ outcome' = "error"
                    /\ UNCHANGED <<kind, process, traces>>

RunnerReturns == /\ suite = "wait" /\ runner = "exited"
                 /\ suite' = "join"
                 /\ UNCHANGED <<kind, outcome, config, process, traces>>

Timeout == /\ suite = "wait"
           /\ suite' = "kill"
           /\ UNCHANGED <<kind, outcome, config, process, traces>>

(* killpg reaches the runner and what is in its group.  A process that has *)
(* exited by itself in the meantime keeps its exit code.                   *)
KillGroup == /\ suite = "kill"
             /\ suite' = "join"
             /\ outcome' = "timeout"
             /\ runner' = "exited"
             /\ exitCode' = IF runner = "exited" THEN exitCode ELSE "killed"
             /\ lives' = IF home = "group" THEN lives \ Workers ELSE lives
             /\ UNCHANGED <<kind, config, raising, told, files, queue, deleteFailed, held, stopping>>

Return == /\ suite = "join"
          /\ suite' = "returned" /\ config' = FALSE
          /\ outcome' = IF outcome = "timeout" THEN "timeout"
                        ELSE IF exitCode # "zero" \/ told = "nothing" THEN "error"
                        ELSE told
          /\ UNCHANGED <<kind, process, traces>>

(***************************************************************************)
(* The runner before its try: reset the queue (repid declares it), make    *)
(* the files one by one, rewrite the configuration, import the adapter.    *)
(***************************************************************************)
DeclareQueue == /\ runner = "prepare" /\ files = {} /\ ~queue
                /\ queue' = TRUE
                /\ UNCHANGED <<kind, suite, outcome, config, process, files, deleteFailed, procs>>

CreateFile(f) == /\ runner = "prepare" /\ f \notin files
                 /\ files' = files \cup {f}
                 /\ UNCHANGED <<kind, suite, outcome, config, process, queue, deleteFailed, procs>>

PrepareFails == /\ runner = "prepare"
                /\ runner' = "exited" /\ raising' = TRUE /\ exitCode' = "nonzero"
                /\ UNCHANGED <<kind, suite, outcome, config, told, traces>>

EnterMode == /\ runner = "prepare" /\ files = TempFiles
             /\ runner' = "mode"
             /\ UNCHANGED <<kind, suite, outcome, config, raising, exitCode, told, traces>>

(***************************************************************************)
(* A mode starts workers and publishers, the queue is there once one of    *)
(* them has connected.  A steady run starts its publishers after its       *)
(* workers; the others have none (latency) or wait for them to exit before *)
(* they go on, and drain may do so first.                                  *)
(*                                                                         *)
(* The runner holds processes in lists.  It gets that of the workers, and  *)
(* that of the publishers of a steady run, when all have been started; if  *)
(* a start fails, those that already run are in no list.  _publish puts    *)
(* each publisher into its list as soon as it runs.                        *)
(***************************************************************************)
PublishersMayStart == /\ runner = "mode" /\ told = "nothing"
                      /\ held \cap Publishers = {}
                      /\ \/ mode = "steady" /\ Workers \subseteq held
                         \/ mode = "counted"

WorkersMayStart == /\ runner = "mode" /\ told = "nothing" /\ held \cap Workers = {}
                   /\ held \cap lives = {}

StartWorkers == /\ WorkersMayStart
                /\ lives' = lives \cup Workers /\ held' = held \cup Workers
                /\ queue' = TRUE
                /\ UNCHANGED <<runner, raising, stopping>> /\ Elsewhere

StartPublishers == /\ PublishersMayStart
                   /\ lives' = lives \cup Publishers /\ held' = held \cup Publishers
                   /\ queue' = TRUE
                   /\ UNCHANGED <<runner, raising, stopping>> /\ Elsewhere

StartWorkersFails == /\ WorkersMayStart
                     /\ \E started \in SUBSET Workers \ {Workers} : lives' = lives \cup started
                     /\ queue' = TRUE
                     /\ raising' = TRUE /\ runner' = "finally"
                     /\ UNCHANGED <<held, stopping>> /\ Elsewhere

StartPublishersFails ==
  /\ PublishersMayStart
  /\ \E started \in SUBSET Publishers \ {Publishers} :
       /\ lives' = lives \cup started
       /\ held' = IF mode = "steady" THEN held ELSE held \cup started
       /\ Stop!Ask(held' \cap started)
  /\ queue' = TRUE
  /\ raising' = TRUE /\ runner' = "stopPublishers"
  /\ Elsewhere

(* Workers and publishers: by themselves, when asked to, or killed.        *)
ProcessExits(p) == /\ Stop!Exits(p)
                   /\ UNCHANGED <<runner, raising, queue, held>> /\ Elsewhere

(* The mode has come to its end; steady and latency report before they     *)
(* stop their processes, the others after it.                              *)
ReachesEnd == /\ runner = "mode" /\ Workers \subseteq held
              /\ mode = "steady" => Publishers \subseteq held
              /\ mode = "counted" => held \cap Publishers \cap lives = {}

(* A steady run one of whose publishers failed reports "error", and exits  *)
(* with zero.                                                              *)
Report(s) == /\ told = "nothing"
             /\ s = "error" => mode = "steady"
             /\ \/ ReachesEnd /\ mode # "counted" /\ UNCHANGED runner
                \/ runner = "report" /\ runner' = "finally"
             /\ told' = s
             /\ UNCHANGED <<kind, suite, outcome, config, raising, exitCode, traces>>

EndMode == /\ ReachesEnd
           /\ told = "nothing" <=> mode = "counted"
           /\ runner' = "stopPublishers"
           /\ Stop!Ask(held \cap lives \cap Publishers)
           /\ UNCHANGED <<raising, queue, held, lives>> /\ Elsewhere

ModeFails == /\ runner = "mode"
             /\ raising' = TRUE
             /\ runner' = "stopPublishers"
             /\ Stop!Ask(held \cap lives \cap Publishers)
             /\ UNCHANGED <<queue, held, lives>> /\ Elsewhere

ReportFails == /\ runner = "report"
               /\ raising' = TRUE /\ runner' = "finally"
               /\ UNCHANGED <<queue, procs>> /\ Elsewhere

(***************************************************************************)
(* The stops of the publishers and then of the workers.                    *)
(***************************************************************************)
Stopping == runner \in {"stopPublishers", "stopWorkers"}

WaitReturns(p) == /\ Stopping
                  /\ Stop!WaitReturns(p)
                  /\ UNCHANGED <<runner, raising, queue, held>> /\ Elsewhere

Kill(p) == /\ Stopping
           /\ Stop!Kill(p)
           /\ UNCHANGED <<runner, raising, queue, held>> /\ Elsewhere

JoinGivesUp(p) == /\ Stopping /\ p \in Workers /\ home = "group"
                  /\ Stop!JoinGivesUp(p)
                  /\ UNCHANGED <<runner, raising, queue, held>> /\ Elsewhere

PublishersStopped == /\ runner = "stopPublishers" /\ waiting = {}
                     /\ runner' = "stopWorkers"
                     /\ Stop!Ask(held \cap Workers)
                     /\ UNCHANGED <<raising, queue, held, lives>> /\ Elsewhere

WorkersStopped == /\ runner = "stopWorkers" /\ waiting = {}
                  /\ runner' = IF raising \/ told # "nothing" THEN "finally" ELSE "report"
                  /\ UNCHANGED <<raising, queue, procs>> /\ Elsewhere

(* A subprocess outlives its SIGKILL: in a steady run the finally that     *)
(* stops the publishers stops the workers after them, and is left here; a  *)
(* _publish that raises is inside the try of its mode, which stops them.   *)
WaitRaises(p) == /\ Stopping
                 /\ p \in Publishers \/ home = "session"
                 /\ Stop!WaitRaises(p)
                 /\ raising' = TRUE
                 /\ IF runner = "stopPublishers" /\ mode = "counted"
                    THEN UNCHANGED runner ELSE runner' = "finally"
                 /\ UNCHANGED <<queue, held>> /\ Elsewhere

(***************************************************************************)
(* The finally of run(): a best-effort delete, or a purge, which leaves    *)
(* the queue, of a queue to be kept; then the files.  At its exit Python   *)
(* waits for the multiprocessing children, which are no daemons: with such *)
(* workers left the runner does not exit.                                  *)
(***************************************************************************)
DeleteQueue == /\ runner = "finally" /\ queue /\ ~deleteFailed /\ ~keepQueue
               /\ queue' = FALSE
               /\ UNCHANGED <<kind, suite, outcome, config, process, files, deleteFailed, procs>>

DeleteQueueFails == /\ runner = "finally" /\ queue /\ ~deleteFailed /\ ~keepQueue
                    /\ deleteFailed' = TRUE
                    /\ UNCHANGED <<kind, suite, outcome, config, process, files, queue, procs>>

Exit == /\ runner = "finally" /\ (queue => deleteFailed \/ keepQueue)
        /\ home = "group" => lives \cap Workers = {}
        /\ files' = {}
        /\ runner' = "exited"
        /\ exitCode' = IF raising THEN "nonzero" ELSE "zero"
        /\ UNCHANGED <<kind, suite, outcome, config, raising, told, queue, deleteFailed, procs>>

StopStep(p) == WaitReturns(p) \/ Kill(p) \/ JoinGivesUp(p) \/ WaitRaises(p)

Runner == \/ DeclareQueue \/ (\E f \in TempFiles : CreateFile(f)) \/ PrepareFails \/ EnterMode
          \/ StartWorkers \/ StartPublishers \/ StartWorkersFails \/ StartPublishersFails
          \/ (\E s \in Statuses \cup {"error"} : Report(s)) \/ EndMode \/ ModeFails \/ ReportFails
          \/ (\E p \in Workers \cup Publishers : ProcessExits(p) \/ StopStep(p))
          \/ PublishersStopped \/ WorkersStopped
          \/ DeleteQueue \/ DeleteQueueFails \/ Exit

Caller == \/ StartRunner \/ StartRunnerFails \/ RunnerReturns \/ Timeout \/ KillGroup \/ Return

Next == Runner \/ Caller

Spec == Init /\ [][Next]_vars

(* Only the caller and its clock: the runner may hang anywhere.            *)
FairSpec == Spec /\ WF_vars(Caller)
-----------------------------------------------------------------------------
TypeOK ==
  /\ mode \in {"steady", "latency", "counted"} /\ home \in {"session", "group"}
  /\ keepQueue \in BOOLEAN
  /\ suite \in {"call", "wait", "kill", "join", "returned"}
  /\ outcome \in {"none", "error"} \cup Statuses \cup {"timeout"}
  /\ runner \in {"none", "prepare", "mode", "stopPublishers", "stopWorkers", "report",
                 "finally", "exited"}
  /\ exitCode \in {"zero", "nonzero", "killed"}
  /\ told \in Statuses \cup {"error", "nothing"}
  /\ files \subseteq TempFiles
  /\ held \cup lives \cup waiting \cup outlived \subseteq Workers \cup Publishers
  /\ killing \subseteq waiting
  /\ {config, raising, queue, deleteFailed} \subseteq BOOLEAN

Returned == suite = "returned"

(* A result that enters the averages comes from a runner that reported it, *)
(* ended well and left nothing, except a queue that could not be deleted   *)
(* or was to be kept: neither a start that failed half-way nor a process   *)
(* that outlived its SIGKILL is hidden by it.                              *)
OkRunIsClean ==
  Returned /\ outcome \in Statuses \ {"timeout"} =>
    /\ told = outcome /\ exitCode = "zero"
    /\ files = {} /\ lives = {}
    /\ queue => deleteFailed \/ keepQueue

(* Whatever happened, the runner itself is gone and nothing that was in    *)
(* its group is left.                                                      *)
GroupIsGone ==
  Returned => /\ runner \in {"none", "exited"}
              /\ home = "group" => lives \cap Workers = {}

(* A runner that ends by itself with one of its processes running has      *)
(* failed, after a subprocess that outlived its SIGKILL.                   *)
StopsWhatItHolds ==
  runner = "exited" /\ exitCode # "killed" /\ held \cap lives # {} =>
    exitCode = "nonzero" /\ outlived # {}

(* The state invariant: the types, that the group is gone, and that what   *)
(* the runner holds is stopped.                                            *)
Inv == TypeOK /\ GroupIsGone /\ StopsWhatItHolds

(* run_once returns although the runner may hang anywhere.                 *)
RunOnceReturns == <>Returned
=============================================================================
