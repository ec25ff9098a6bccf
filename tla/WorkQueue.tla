------------------------------ MODULE WorkQueue ------------------------------
(***************************************************************************)
(* The work queue (threads/workqueue.cpp) and the thread that uses it: the *)
(* main thread in TraceAnalyzer::doScale(), doStats(), doLimitedStats().   *)
(* The queue has NrThreads threads; start() starts at most as many as      *)
(* there are items, each takes items until it finds the queue empty, and   *)
(* wait() joins the started ones.  The user allocates an item for every    *)
(* object to work on, and deletes the items after wait().                  *)
(*                                                                         *)
(* A section under a mutex is a step; the work of an item is not, so that  *)
(* items overlap.  The threads of a batch are started and joined one by    *)
(* one.  Whether an item fails is free: all items of today return false.   *)
(***************************************************************************)
EXTENDS Integers, Sequences

CONSTANTS
  Jobs,        \* the objects and functions that items are made of
  NrThreads,   \* QThread::idealThreadCount(), or a default
  NoJob        \* a thread that holds no item

ASSUME NrThreadsAssumption == NrThreads \in Nat \ {0}
ASSUME NoJobAssumption == NoJob \notin Jobs

Threads == 1 .. NrThreads

VARIABLES
  user,        \* where the main thread is: "adds", "starts", "waits", "deletes"
  items,       \* the work items that are allocated
  queue,       \* the items that no thread has taken
  error,       \* an item failed
  nrStarted,   \* the threads that start() starts
  index,       \* the threads started, or joined, so far (i of the loops)
  thread,      \* per thread: "idle", "takes", "runs", "reports", "finished"
  current,     \* per thread: the item it holds
  returned     \* what the last wait() returned

owned == <<user, items, nrStarted, index, returned>>
vars == <<user, items, queue, error, nrStarted, index, thread, current, returned>>

Init ==
  /\ user = "adds"
  /\ items = {}
  /\ queue = << >>
  /\ error = FALSE
  /\ nrStarted = 0
  /\ index = 0
  /\ thread = [t \in Threads |-> "idle"]
  /\ current = [t \in Threads |-> NoJob]
  /\ returned = FALSE

-----------------------------------------------------------------------------
(* The user                                                                *)

(* A new item is allocated and appended.                                   *)
AddWorkItem(j) ==
  /\ user = "adds"
  /\ j \notin items
  /\ items' = items \union {j}
  /\ queue' = Append(queue, j)
  /\ UNCHANGED <<user, error, nrStarted, index, thread, current, returned>>

(* Mutant of Start: the error of an earlier batch stays.                   *)
StartKeepsError ==
  /\ user = "adds"
  /\ user' = "starts"
  /\ nrStarted' = IF Len(queue) < NrThreads THEN Len(queue) ELSE NrThreads
  /\ index' = 0
  /\ UNCHANGED <<items, queue, error, thread, current, returned>>

(* start(): the first two statements, before the loop.                     *)
Start ==
  /\ user = "adds"
  /\ user' = "starts"
  /\ error' = FALSE
  /\ nrStarted' = IF Len(queue) < NrThreads THEN Len(queue) ELSE NrThreads
  /\ index' = 0
  /\ UNCHANGED <<items, queue, thread, current, returned>>

(* One round of the loop of start().                                       *)
StartThread ==
  /\ user = "starts"
  /\ index < nrStarted
  /\ index' = index + 1
  /\ thread' = [thread EXCEPT ![index + 1] = "takes"]
  /\ UNCHANGED <<user, items, queue, error, nrStarted, current, returned>>

(* The work the main thread does itself, then the call of wait().          *)
OwnWork ==
  /\ user = "starts"
  /\ index = nrStarted
  /\ user' = "waits"
  /\ index' = 0
  /\ UNCHANGED <<items, queue, error, nrStarted, thread, current, returned>>

(* One round of the loop of wait(): the thread has returned from run().    *)
Join ==
  /\ user = "waits"
  /\ index < nrStarted
  /\ thread[index + 1] = "finished"
  /\ index' = index + 1
  /\ thread' = [thread EXCEPT ![index + 1] = "idle"]
  /\ UNCHANGED <<user, items, queue, error, nrStarted, current, returned>>

WaitReturns ==
  /\ user = "waits"
  /\ index = nrStarted
  /\ returned' = error
  /\ user' = "deletes"
  /\ UNCHANGED <<items, queue, error, nrStarted, index, thread, current>>

(* Mutant of DeleteItem: the items are deleted without waiting.            *)
DeleteWithoutWait(j) ==
  /\ user \in {"waits", "deletes"}
  /\ j \in items
  /\ items' = items \ {j}
  /\ UNCHANGED <<user, queue, error, nrStarted, index, thread, current, returned>>

(* One round of the loop that deletes the items.                           *)
DeleteItem(j) ==
  /\ user = "deletes"
  /\ j \in items
  /\ items' = items \ {j}
  /\ UNCHANGED <<user, queue, error, nrStarted, index, thread, current, returned>>

Done ==
  /\ user = "deletes"
  /\ items = {}
  /\ user' = "adds"
  /\ UNCHANGED <<items, queue, error, nrStarted, index, thread, current, returned>>

-----------------------------------------------------------------------------
(* ThreadRun()                                                             *)

(* Under queueMutex: the first item, or the end of the loop.               *)
TakeFirst(t) ==
  /\ thread[t] = "takes"
  /\ queue # << >>
  /\ queue' = Tail(queue)
  /\ current' = [current EXCEPT ![t] = Head(queue)]
  /\ thread' = [thread EXCEPT ![t] = "runs"]
  /\ UNCHANGED <<owned, error>>

FindEmpty(t) ==
  /\ thread[t] = "takes"
  /\ queue = << >>
  /\ thread' = [thread EXCEPT ![t] = "finished"]
  /\ UNCHANGED <<owned, queue, error, current>>

(* The item is done, with or without an error.                             *)
RunWork(t) ==
  /\ thread[t] = "runs"
  /\ current' = [current EXCEPT ![t] = NoJob]
  /\ \E rval \in BOOLEAN :
       thread' = [thread EXCEPT ![t] = IF rval THEN "reports" ELSE "takes"]
  /\ UNCHANGED <<owned, queue, error>>

(* Under errorMutex.                                                       *)
Report(t) ==
  /\ thread[t] = "reports"
  /\ error' = TRUE
  /\ thread' = [thread EXCEPT ![t] = "takes"]
  /\ UNCHANGED <<owned, queue, current>>

ThreadRun(t) == TakeFirst(t) \/ FindEmpty(t) \/ RunWork(t) \/ Report(t)

(* A batch that was started is carried through by the main thread.         *)
Proceed ==
  \/ StartThread
  \/ OwnWork
  \/ Join
  \/ WaitReturns
  \/ \E j \in Jobs : DeleteItem(j)
  \/ Done

Next ==
  \/ \E j \in Jobs : AddWorkItem(j)
  \/ Start
  \/ Proceed
  \/ \E t \in Threads : ThreadRun(t)

Safety == Init /\ [][Next]_vars

(* The main thread does not stop inside a batch, every item comes to an    *)
(* end, and the operating system runs every thread.                        *)
Fairness == WF_vars(Proceed) /\ \A t \in Threads : WF_vars(ThreadRun(t))

Spec == Safety /\ Fairness

-----------------------------------------------------------------------------
(* Properties                                                              *)

Held == {current[t] : t \in Threads} \ {NoJob}

Queued == {queue[i] : i \in 1 .. Len(queue)}

(* An item in the queue or in the hands of a thread is allocated, no two   *)
(* threads hold the same one, and none holds one that is still queued: no  *)
(* item is used after the user deleted it, and while the user prepares a   *)
(* batch (and writes the scales the items read) no thread works.           *)
ItemsOutliveTheirUse ==
  /\ Held \union Queued \subseteq items
  /\ Held \intersect Queued = {}
  /\ \A s, t \in Threads : current[s] = current[t] => s = t \/ current[s] = NoJob
  /\ user = "adds" => Held = {} /\ \A t \in Threads : thread[t] = "idle"

(* The queue does what TraceAnalyzer expects of it: every item is          *)
(* performed once, wait() returns after the last one, with the error of    *)
(* this batch and of no other, and it does return.                         *)
Batch == INSTANCE WorkBatch WITH
  working <- user \in {"starts", "waits"},
  pending <- Held \union Queued,
  failed  <- error \/ \E t \in Threads : thread[t] = "reports",
  outcome <- returned

ImplementsBatch == Batch!Spec
=============================================================================
