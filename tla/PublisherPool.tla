--------------------------- MODULE PublisherPool ----------------------------
(***************************************************************************)
(* _publish with more than one publisher process, in mode burst: the       *)
(* processes, the lines they write into their pipes, a reader thread for   *)
(* each pipe that turns two kinds of lines into one progress number, and   *)
(* the parent, which starts them, waits for all and stops what is left.    *)
(* In the other modes a publisher's chunk is one burst and has no Burst    *)
(* line.                                                                   *)
(***************************************************************************)
EXTENDS Naturals, Sequences, FiniteSets

CONSTANTS
  Messages,    \* cfg.messages
  BurstSize,   \* burst_size of one publisher
  Publishers,  \* the processes
  PipeSize     \* bound: lines that fit into a pipe; its writer waits

VARIABLES
  pc,         \* the parent: "launch", "wait", "join", "cleanup" or "end"
  failing,    \* the parent is raising
  chunk,      \* the messages of each publisher
  proc,       \* "none", "running", "done" or "failed"
  over,       \* what it has sent in the bursts that are over
  inBurst,    \* what it has sent in its present burst
  printed,    \* what of that it has printed
  pipe,       \* the lines its reader has not read
  completed,  \* completed_bursts[index]
  current,    \* current_burst_counts[index]
  progress,   \* progress[index]
  shown,      \* the sum the parent printed last
  result      \* "none", "ok" or "raised"

parent == <<pc, failing, shown, result>>
publisher == <<proc, over, inBurst, printed>>
reader == <<completed, current, progress>>
vars == <<parent, chunk, publisher, pipe, reader>>

Smaller(a, b) == IF a <= b THEN a ELSE b

(* The sum of numbers of messages: how many pairs of a publisher and one   *)
(* of its f[p] messages there are.                                         *)
Sum(f) == Cardinality({unit \in Publishers \X (1..Messages) : unit[2] <= f[unit[1]]})

(* _split_messages: remainder processes get one more than the others.      *)
Splits ==
  LET count == Cardinality(Publishers)
      each == Messages \div count
  IN  {f \in [Publishers -> {each, each + 1}] :
         Cardinality({p \in Publishers : f[p] = each + 1}) = Messages % count}

Zero == [p \in Publishers |-> 0]

Init == /\ pc = "launch" /\ failing = FALSE
        /\ chunk \in Splits
        /\ proc = [p \in Publishers |-> "none"]
        /\ over = Zero /\ inBurst = Zero /\ printed = Zero
        /\ pipe = [p \in Publishers |-> <<>>]
        /\ completed = Zero /\ current = Zero /\ progress = Zero
        /\ shown = 0
        /\ result = "none"

Burst(p) == Smaller(BurstSize, chunk[p] - over[p])
Running == {p \in Publishers : proc[p] = "running"}
Exited == {p \in Publishers : proc[p] \in {"done", "failed"}}
-----------------------------------------------------------------------------
(***************************************************************************)
(* Slips: each stands for one bug somebody could write into the operation  *)
(* it is named after.  No action uses them; they are put in the place of   *)
(* that operation to see that a property notices.                          *)
(***************************************************************************)
LaunchFailsRaising == /\ pc = "launch"
                      /\ pc' = "end" /\ failing' = TRUE
                      /\ result' = "raised"
                      /\ UNCHANGED <<chunk, publisher, pipe, reader, shown>>
-----------------------------------------------------------------------------
(* A publisher process.                                                    *)
SendOne(p) == /\ proc[p] = "running" /\ inBurst[p] < Burst(p)
              /\ inBurst' = [inBurst EXCEPT ![p] = @ + 1]
              /\ UNCHANGED <<parent, chunk, proc, over, printed, pipe, reader>>

PrintEnqueued(p) == /\ proc[p] = "running" /\ printed[p] < inBurst[p]
                    /\ Len(pipe[p]) < PipeSize
                    /\ printed' = [printed EXCEPT ![p] = inBurst[p]]
                    /\ pipe' = [pipe EXCEPT ![p] =
                                  Append(@, [kind |-> "enqueued", count |-> inBurst[p]])]
                    /\ UNCHANGED <<parent, chunk, proc, over, inBurst, reader>>

PrintBurst(p) == /\ proc[p] = "running" /\ over[p] < chunk[p]
                 /\ printed[p] = Burst(p)
                 /\ Len(pipe[p]) < PipeSize
                 /\ pipe' = [pipe EXCEPT ![p] =
                               Append(@, [kind |-> "burst", count |-> Burst(p)])]
                 /\ over' = [over EXCEPT ![p] = @ + Burst(p)]
                 /\ inBurst' = [inBurst EXCEPT ![p] = 0]
                 /\ printed' = [printed EXCEPT ![p] = 0]
                 /\ UNCHANGED <<parent, chunk, proc, reader>>

Exit(p) == /\ proc[p] = "running" /\ over[p] = chunk[p]
           /\ proc' = [proc EXCEPT ![p] = "done"]
           /\ UNCHANGED <<parent, chunk, over, inBurst, printed, pipe, reader>>

(* A send raises, having reached the broker or not, or the process dies.   *)
Fail(p) == /\ proc[p] = "running"
           /\ proc' = [proc EXCEPT ![p] = "failed"]
           /\ UNCHANGED <<parent, chunk, over, inBurst, printed, pipe, reader>>

(* Its reader thread, for each line under progress_lock.                   *)
ReadEnqueued(p) ==
  /\ pipe[p] # <<>> /\ Head(pipe[p]).kind = "enqueued"
  /\ current' = [current EXCEPT ![p] = Head(pipe[p]).count]
  /\ progress' = [progress EXCEPT ![p] = Smaller(completed[p] + current'[p], chunk[p])]
  /\ pipe' = [pipe EXCEPT ![p] = Tail(@)]
  /\ UNCHANGED <<parent, chunk, publisher, completed>>

ReadBurst(p) ==
  /\ pipe[p] # <<>> /\ Head(pipe[p]).kind = "burst"
  /\ completed' = [completed EXCEPT ![p] = @ + Head(pipe[p]).count]
  /\ current' = [current EXCEPT ![p] = 0]
  /\ progress' = [progress EXCEPT ![p] = Smaller(completed'[p] + current'[p], chunk[p])]
  /\ pipe' = [pipe EXCEPT ![p] = Tail(@)]
  /\ UNCHANGED <<parent, chunk, publisher>>

(* The parent.  A start that fails goes straight to the finally.           *)
Launch(p) == /\ pc = "launch" /\ proc[p] = "none"
             /\ proc' = [proc EXCEPT ![p] = "running"]
             /\ pc' = IF \A q \in Publishers : proc'[q] # "none" THEN "wait" ELSE "launch"
             /\ UNCHANGED <<failing, shown, result, chunk, over, inBurst, printed, pipe, reader>>

LaunchFails == /\ pc = "launch"
               /\ pc' = "cleanup" /\ failing' = TRUE
               /\ UNCHANGED <<shown, result, chunk, publisher, pipe, reader>>

PrintTotal == /\ pc = "wait"
              /\ shown' = Sum(progress)
              /\ UNCHANGED <<pc, failing, result, chunk, publisher, pipe, reader>>

AllExited == /\ pc = "wait" /\ Exited = Publishers
             /\ pc' = "join"
             /\ UNCHANGED <<failing, shown, result, chunk, publisher, pipe, reader>>

(* thread.join(timeout=5) returns whether or not the reader has finished.  *)
Joined == /\ pc = "join"
          /\ pc' = "cleanup"
          /\ failing' = (\E p \in Publishers : proc[p] # "done")
          /\ UNCHANGED <<shown, result, chunk, publisher, pipe, reader>>

Terminate(p) == /\ pc = "cleanup" /\ proc[p] = "running"
                /\ proc' = [proc EXCEPT ![p] = "failed"]
                /\ UNCHANGED <<parent, chunk, over, inBurst, printed, pipe, reader>>

CleanedUp == /\ pc = "cleanup" /\ Running = {}
             /\ pc' = "end"
             /\ result' = IF failing THEN "raised" ELSE "ok"
             /\ UNCHANGED <<failing, shown, chunk, publisher, pipe, reader>>

Next == \/ \E p \in Publishers : \/ SendOne(p) \/ PrintEnqueued(p) \/ PrintBurst(p)
                                 \/ Exit(p) \/ Fail(p)
                                 \/ ReadEnqueued(p) \/ ReadBurst(p)
                                 \/ Launch(p) \/ Terminate(p)
        \/ LaunchFails \/ PrintTotal \/ AllExited \/ Joined \/ CleanedUp

Spec == Init /\ [][Next]_vars
-----------------------------------------------------------------------------
SentBy(p) == over[p] + inBurst[p]
Counts == [Publishers -> 0..Messages]

TypeOK ==
  /\ pc \in {"launch", "wait", "join", "cleanup", "end"} /\ failing \in BOOLEAN
  /\ chunk \in Splits
  /\ proc \in [Publishers -> {"none", "running", "done", "failed"}]
  /\ {inBurst, printed, completed, current, progress} \subseteq Counts
  /\ \A p \in Publishers : over[p] \in 0..chunk[p]
  /\ \A p \in Publishers : Len(pipe[p]) \in 0..PipeSize
  /\ shown \in 0..Messages
  /\ result \in {"none", "ok", "raised"}

SentTotal == Sum([p \in Publishers |-> SentBy(p)])

(* The chunks are all messages, and no process is started for none.        *)
ChunksAddUp == Sum(chunk) = Messages /\ \A p \in Publishers : chunk[p] > 0

(* When all lines of a publisher that ended well are read it is complete.  *)
ProgressComplete ==
  \A p \in Publishers : proc[p] = "done" /\ pipe[p] = <<>> => progress[p] = chunk[p]

(* However _publish ends, no process that it started is running.           *)
NoPublisherLeft == pc = "end" => Running = {}

(* The state invariant: the types, the split, complete progress, nobody    *)
(* left.                                                                   *)
Inv == TypeOK /\ ChunksAddUp /\ ProgressComplete /\ NoPublisherLeft
=============================================================================
