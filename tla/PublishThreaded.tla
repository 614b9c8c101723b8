-------------------------- MODULE PublishThreaded ---------------------------
(***************************************************************************)
(* publish_threaded, publish_threaded_chunks and publish_threaded_bursts:  *)
(* threads that each send a share of a burst and add what they have sent   *)
(* to a common count, under a lock, one batch at a time.  The thread that  *)
(* started them prints the count until all are over, then looks at their   *)
(* errors.  Without bursts all messages are one burst.                     *)
(***************************************************************************)
EXTENDS Naturals, FiniteSets

CONSTANTS
  Messages,    \* how many messages are to be published
  BurstSize,   \* cfg.burst_size
  BatchSize,   \* cfg.enqueue_batch_size
  Threads,     \* the threads: publish_workers of them
  NoThread     \* the lock when it is free

VARIABLES
  remaining,   \* messages of the bursts that are not over
  thread,      \* where each thread is
  left,        \* what it has still to send in this burst
  batch,       \* what it has sent and not yet added to the count
  lock,        \* who holds the lock
  loaded,      \* what the holder has read of the count
  done,        \* done[0]: the count of this burst
  errors,      \* how many errors are in the list
  printed,     \* the count the main thread printed last
  sent,        \* messages the broker has been given
  result       \* "none", "ok" or "raised"

local == <<left, batch>>
count == <<lock, loaded, done>>
vars == <<remaining, thread, local, count, errors, printed, sent, result>>

Burst == IF remaining < BurstSize THEN remaining ELSE BurstSize
SentBefore == Messages - remaining

(* counts: the first n % workers threads have one more than the others.    *)
Shares(n) ==
  LET each == n \div Cardinality(Threads)
  IN  {f \in [Threads -> {each, each + 1}] :
         Cardinality({t \in Threads : f[t] = each + 1}) = n % Cardinality(Threads)}

StartThreads(n) == /\ thread' = [t \in Threads |-> "sending"]
                   /\ left' \in Shares(n)
                   /\ batch' = [t \in Threads |-> 0]
                   /\ done' = 0
                   /\ printed' = 0

Init == /\ remaining = Messages
        /\ thread = [t \in Threads |-> "sending"]
        /\ left \in Shares(Burst)
        /\ batch = [t \in Threads |-> 0]
        /\ lock = NoThread /\ loaded = 0 /\ done = 0
        /\ errors = 0 /\ printed = 0 /\ sent = 0
        /\ result = "none"

Over == {t \in Threads : thread[t] \in {"ended", "failed"}}
AllOver == result = "none" /\ Over = Threads
-----------------------------------------------------------------------------
(***************************************************************************)
(* Slips: each stands for one bug somebody could write into the operation  *)
(* it is named after.  No action uses them; they are put in the place of   *)
(* that operation to see that a property notices.                          *)
(***************************************************************************)
LockSharedly(t) == /\ thread[t] = "full"
                   /\ thread' = [thread EXCEPT ![t] = "adding"]
                   /\ lock' = t
                   /\ loaded' = done
                   /\ UNCHANGED <<remaining, local, done, errors, printed, sent, result>>

NoteErrorHoldingLock(t) == /\ thread[t] = "raising" /\ lock = NoThread
                           /\ errors' = errors + 1
                           /\ lock' = t
                           /\ thread' = [thread EXCEPT ![t] = "failed"]
                           /\ UNCHANGED <<remaining, local, loaded, done, printed, sent, result>>
-----------------------------------------------------------------------------
(* One round of a thread's loop: send, and see whether the batch is full.  *)
SendOne(t) ==
  /\ thread[t] = "sending" /\ left[t] > 0
  /\ sent' = sent + 1
  /\ left' = [left EXCEPT ![t] = @ - 1]
  /\ batch' = [batch EXCEPT ![t] = @ + 1]
  /\ thread' = [thread EXCEPT ![t] =
       IF batch'[t] = BatchSize \/ left'[t] = 0 THEN "full" ELSE "sending"]
  /\ UNCHANGED <<remaining, count, errors, printed, result>>

(* A send that raises may have reached the broker.                         *)
SendFails(t) == /\ thread[t] = "sending" /\ left[t] > 0
                /\ sent' \in {sent, sent + 1}
                /\ thread' = [thread EXCEPT ![t] = "raising"]
                /\ UNCHANGED <<remaining, local, count, errors, printed, result>>

NoteError(t) == /\ thread[t] = "raising" /\ lock = NoThread
                /\ errors' = errors + 1
                /\ thread' = [thread EXCEPT ![t] = "failed"]
                /\ UNCHANGED <<remaining, local, count, printed, sent, result>>

(* with lock: done[0] += ..., which reads and writes.                      *)
Lock(t) == /\ thread[t] = "full" /\ lock = NoThread
           /\ thread' = [thread EXCEPT ![t] = "adding"]
           /\ lock' = t
           /\ loaded' = done
           /\ UNCHANGED <<remaining, local, done, errors, printed, sent, result>>

Add(t) == /\ thread[t] = "adding"
          /\ done' = loaded + batch[t]
          /\ lock' = NoThread
          /\ thread' = [thread EXCEPT ![t] = "sending"]
          /\ batch' = [batch EXCEPT ![t] = 0]
          /\ UNCHANGED <<remaining, left, loaded, errors, printed, sent, result>>

End(t) == /\ thread[t] = "sending" /\ left[t] = 0
          /\ thread' = [thread EXCEPT ![t] = "ended"]
          /\ UNCHANGED <<remaining, local, count, errors, printed, sent, result>>

(* The main thread, while it has seen a thread alive.                      *)
PrintProgress == /\ result = "none" /\ lock = NoThread
                 /\ printed' = done
                 /\ UNCHANGED <<remaining, thread, local, count, errors, sent, result>>

NextBurst == /\ AllOver /\ errors = 0
             /\ remaining > Burst
             /\ remaining' = remaining - Burst
             /\ StartThreads(Burst')
             /\ UNCHANGED <<lock, loaded, errors, sent, result>>

Succeed == /\ AllOver /\ errors = 0
           /\ remaining = Burst
           /\ result' = "ok"
           /\ UNCHANGED <<remaining, thread, local, count, errors, printed, sent>>

Raise == /\ AllOver /\ errors > 0
         /\ result' = "raised"
         /\ UNCHANGED <<remaining, thread, local, count, errors, printed, sent>>

Next == \/ \E t \in Threads : \/ SendOne(t) \/ SendFails(t) \/ NoteError(t)
                              \/ Lock(t) \/ Add(t) \/ End(t)
        \/ PrintProgress \/ NextBurst \/ Succeed \/ Raise

Spec == Init /\ [][Next]_vars
-----------------------------------------------------------------------------
TypeOK ==
  /\ remaining \in 1..Messages
  /\ thread \in [Threads -> {"sending", "full", "adding", "raising", "failed", "ended"}]
  /\ left \in [Threads -> 0..Burst] /\ batch \in [Threads -> 0..BatchSize]
  /\ lock \in Threads \cup {NoThread}
  /\ {loaded, done, printed} \subseteq 0..BurstSize
  /\ errors \in 0..Cardinality(Threads)
  /\ sent \in 0..Messages
  /\ result \in {"none", "ok", "raised"}

(* No batch is lost or added twice: the count and the batches not yet      *)
(* added make up what has been sent, up to the sends that raised.          *)
Uncounted ==
  Cardinality({unit \in Threads \X (1..BatchSize) : unit[2] <= batch[unit[1]]})
ProgressAddsUp ==
  LET known == SentBefore + done + Uncounted
      raised == {t \in Threads : thread[t] \in {"raising", "failed"}}
  IN  known <= sent /\ sent <= known + Cardinality(raised)

(* The state invariant: the types, and that the progress adds up.          *)
Inv == TypeOK /\ ProgressAddsUp
=============================================================================
