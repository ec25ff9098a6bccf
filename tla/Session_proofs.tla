--------------------------- MODULE Session_proofs ---------------------------
(***************************************************************************)
(* Proofs about what outlives what: WorkQueue and TraceSession, in which    *)
(* threads use what another thread allocates and deletes, for any items,    *)
(* threads and number of traces, and StateFile, for any traces, tasks,      *)
(* colors and state files.                                                  *)
(***************************************************************************)
EXTENDS WorkQueue, TraceSession, StateFile, TLAPS

TypeOK ==
  /\ user \in {"adds", "starts", "waits", "deletes"}
  /\ items \subseteq Jobs
  /\ queue \in Seq(Jobs)
  /\ error \in BOOLEAN
  /\ nrStarted \in 0 .. NrThreads
  /\ index \in 0 .. nrStarted
  /\ thread \in [Threads -> {"idle", "takes", "runs", "reports", "finished"}]
  /\ current \in [Threads -> Jobs \union {NoJob}]
  /\ returned \in BOOLEAN

(* A thread holds an item while it runs it.                                *)
HoldsWhileRunning == \A t \in Threads : current[t] # NoJob <=> thread[t] = "runs"

(* Every item is in one place, and allocated.                              *)
Located ==
  /\ \A i \in 1 .. Len(queue) : queue[i] \in items
  /\ \A t \in Threads : thread[t] = "runs" => current[t] \in items
  /\ \A i, j \in 1 .. Len(queue) : queue[i] = queue[j] => i = j
  /\ \A t \in Threads, i \in 1 .. Len(queue) : current[t] # queue[i]
  /\ \A s, t \in Threads : thread[s] = "runs" /\ current[s] = current[t] => s = t

(* The threads that were started and not joined are those that are not idle. *)
Active ==
  CASE user = "starts" -> 1 .. index
    [] user = "waits"  -> (index + 1) .. nrStarted
    [] OTHER           -> {}

IdleUnlessActive == \A t \in Threads : thread[t] # "idle" <=> t \in Active

(* The queue is empty once a thread is through, and when none was started. *)
EmptyOnceFinished ==
  /\ \A t \in Threads : thread[t] = "finished" => queue = << >>
  /\ user \in {"starts", "waits"} /\ nrStarted = 0 => queue = << >>
  /\ user = "waits" /\ index > 0 => queue = << >>
  /\ user = "deletes" => queue = << >>

Inv ==
  /\ TypeOK
  /\ HoldsWhileRunning
  /\ Located
  /\ IdleUnlessActive
  /\ EmptyOnceFinished

-----------------------------------------------------------------------------

LEMMA TailFacts ==
  ASSUME NEW S, NEW s \in Seq(S), s # << >>
  PROVE  /\ Head(s) \in S
         /\ Head(s) = s[1]
         /\ Tail(s) \in Seq(S)
         /\ Len(s) \in Nat
         /\ Len(Tail(s)) = Len(s) - 1
         /\ Len(s) >= 1
         /\ \A i \in 1 .. Len(Tail(s)) : Tail(s)[i] = s[i + 1]
OBVIOUS

LEMMA AppendFacts ==
  ASSUME NEW S, NEW s \in Seq(S), NEW e \in S
  PROVE  /\ Append(s, e) \in Seq(S)
         /\ Append(s, e) # << >>
         /\ Len(s) \in Nat
         /\ Len(Append(s, e)) = Len(s) + 1
         /\ \A i \in 1 .. Len(s) : Append(s, e)[i] = s[i]
         /\ Append(s, e)[Len(s) + 1] = e
OBVIOUS

THEOREM InvInit == Init => Inv
<1> SUFFICES ASSUME Init PROVE Inv
  OBVIOUS
<1>1. TypeOK
  <2>1. nrStarted \in 0 .. NrThreads /\ index \in 0 .. nrStarted
    BY NrThreadsAssumption DEF Init
  <2>2. thread \in [Threads -> {"idle", "takes", "runs", "reports", "finished"}]
    BY DEF Init
  <2>3. current \in [Threads -> Jobs \union {NoJob}]
    BY DEF Init
  <2>4. user = "adds" /\ items = {} /\ queue \in Seq(Jobs)
    BY DEF Init
  <2>5. error \in BOOLEAN /\ returned \in BOOLEAN
    BY DEF Init
  <2> QED BY <2>1, <2>2, <2>3, <2>4, <2>5 DEF TypeOK
<1>2. HoldsWhileRunning /\ Located /\ IdleUnlessActive /\ EmptyOnceFinished
  BY DEF Init, HoldsWhileRunning, Located, IdleUnlessActive, Active, EmptyOnceFinished
<1> QED BY <1>1, <1>2 DEF Inv

(* The steps of the main thread that leave queue and threads alone.        *)
LEMMA AddWorkItemKeeps ==
  ASSUME Inv, NEW j \in Jobs, AddWorkItem(j)
  PROVE  Inv'
<1> USE DEF Inv
<1>1. /\ queue \in Seq(Jobs) /\ queue' = Append(queue, j)
      /\ items' = items \union {j} /\ j \notin items
      /\ user = "adds" /\ user' = "adds"
      /\ UNCHANGED <<error, nrStarted, index, thread, current, returned>>
  BY DEF AddWorkItem, TypeOK
<1>2. /\ queue' \in Seq(Jobs) /\ Len(queue) \in Nat /\ Len(queue') = Len(queue) + 1
      /\ \A i \in 1 .. Len(queue) : queue'[i] = queue[i]
      /\ queue'[Len(queue) + 1] = j
  BY <1>1, AppendFacts
<1>3. TypeOK'
  BY <1>1, <1>2 DEF TypeOK
<1>4. \A t \in Threads : thread[t] = "idle"
  BY <1>1 DEF IdleUnlessActive, Active, TypeOK
<1>5. \A t \in Threads : current[t] = NoJob
  BY <1>4 DEF HoldsWhileRunning
<1>6. HoldsWhileRunning' /\ IdleUnlessActive' /\ EmptyOnceFinished'
  BY <1>1, <1>4 DEF HoldsWhileRunning, IdleUnlessActive, Active, EmptyOnceFinished
<1>7. \A i \in 1 .. Len(queue') : i = Len(queue) + 1 \/ i \in 1 .. Len(queue)
  BY <1>2
<1>8. Located'
  <2>1. \A i \in 1 .. Len(queue') : queue'[i] \in items' /\ queue'[i] \in Jobs
    BY <1>1, <1>2, <1>7 DEF Located
  <2>2. \A i, k \in 1 .. Len(queue') : queue'[i] = queue'[k] => i = k
    BY <1>1, <1>2, <1>7 DEF Located
  <2>3. \A t \in Threads, i \in 1 .. Len(queue') : current'[t] # queue'[i]
    BY <1>1, <1>5, <2>1, NoJobAssumption
  <2>4. \A t \in Threads : thread'[t] # "runs"
    BY <1>1, <1>4
  <2> QED BY <2>1, <2>2, <2>3, <2>4 DEF Located
<1> QED BY <1>3, <1>6, <1>8

LEMMA StartKeeps ==
  ASSUME Inv, Start
  PROVE  Inv'
<1> USE DEF Inv
<1>1. /\ queue \in Seq(Jobs) /\ Len(queue) \in Nat
      /\ user = "adds" /\ user' = "starts" /\ index' = 0 /\ error' = FALSE
      /\ nrStarted' = (IF Len(queue) < NrThreads THEN Len(queue) ELSE NrThreads)
      /\ UNCHANGED <<items, queue, thread, current, returned>>
  BY DEF Start, TypeOK
<1>2. TypeOK'
  <2>1. nrStarted' \in 0 .. NrThreads /\ index' \in 0 .. nrStarted'
    BY <1>1, NrThreadsAssumption
  <2> QED BY <1>1, <2>1 DEF TypeOK
<1>3. \A t \in Threads : thread[t] = "idle"
  BY <1>1 DEF IdleUnlessActive, Active
<1>4. nrStarted' = 0 => queue = << >>
  BY <1>1, NrThreadsAssumption
<1>5. HoldsWhileRunning' /\ Located'
  BY <1>1 DEF HoldsWhileRunning, Located
<1>6. IdleUnlessActive'
  BY <1>1, <1>3 DEF IdleUnlessActive, Active
<1>7. EmptyOnceFinished'
  BY <1>1, <1>3, <1>4 DEF EmptyOnceFinished
<1> QED BY <1>2, <1>5, <1>6, <1>7

LEMMA StartThreadKeeps ==
  ASSUME Inv, StartThread
  PROVE  Inv'
<1> USE DEF Inv
<1>1. /\ user = "starts" /\ user' = "starts" /\ index < nrStarted /\ index' = index + 1
      /\ index \in Nat /\ nrStarted \in 0 .. NrThreads /\ NrThreads \in Nat
      /\ thread' = [thread EXCEPT ![index + 1] = "takes"]
      /\ UNCHANGED <<items, queue, error, nrStarted, current, returned>>
  BY NrThreadsAssumption DEF StartThread, TypeOK
<1>2. index + 1 \in Threads
  BY <1>1 DEF Threads
<1>3. thread[index + 1] = "idle"
  BY <1>1, <1>2 DEF IdleUnlessActive, Active
<1>4. \A t \in Threads : thread'[t] = IF t = index + 1 THEN "takes" ELSE thread[t]
  BY <1>1 DEF TypeOK
<1>5. TypeOK'
  <2>1. index' \in 0 .. nrStarted'
    BY <1>1
  <2>2. thread' \in [Threads -> {"idle", "takes", "runs", "reports", "finished"}]
    BY <1>1 DEF TypeOK
  <2> QED BY <1>1, <2>1, <2>2 DEF TypeOK
<1>6. HoldsWhileRunning' /\ Located'
  BY <1>1, <1>3, <1>4 DEF HoldsWhileRunning, Located
<1>7. IdleUnlessActive'
  BY <1>1, <1>4 DEF IdleUnlessActive, Active, Threads
<1>8. EmptyOnceFinished'
  BY <1>1, <1>4 DEF EmptyOnceFinished
<1> QED BY <1>5, <1>6, <1>7, <1>8

LEMMA OwnWorkKeeps ==
  ASSUME Inv, OwnWork
  PROVE  Inv'
<1> USE DEF Inv
<1>1. /\ user = "starts" /\ user' = "waits" /\ index = nrStarted /\ index' = 0
      /\ nrStarted \in 0 .. NrThreads /\ NrThreads \in Nat
      /\ UNCHANGED <<items, queue, error, nrStarted, thread, current, returned>>
  BY NrThreadsAssumption DEF OwnWork, TypeOK
<1>2. TypeOK'
  BY <1>1 DEF TypeOK
<1>3. HoldsWhileRunning' /\ Located'
  BY <1>1 DEF HoldsWhileRunning, Located
<1>4. IdleUnlessActive'
  BY <1>1 DEF IdleUnlessActive, Active, Threads
<1>5. EmptyOnceFinished'
  BY <1>1 DEF EmptyOnceFinished
<1> QED BY <1>2, <1>3, <1>4, <1>5

LEMMA JoinKeeps ==
  ASSUME Inv, Join
  PROVE  Inv'
<1> USE DEF Inv
<1>1. /\ user = "waits" /\ user' = "waits" /\ index < nrStarted /\ index' = index + 1
      /\ index \in Nat /\ nrStarted \in 0 .. NrThreads /\ NrThreads \in Nat
      /\ thread[index + 1] = "finished"
      /\ thread' = [thread EXCEPT ![index + 1] = "idle"]
      /\ UNCHANGED <<items, queue, error, nrStarted, current, returned>>
  BY NrThreadsAssumption DEF Join, TypeOK
<1>2. index + 1 \in Threads
  BY <1>1 DEF Threads
<1>3. queue = << >>
  BY <1>1, <1>2 DEF EmptyOnceFinished
<1>4. \A t \in Threads : thread'[t] = IF t = index + 1 THEN "idle" ELSE thread[t]
  BY <1>1 DEF TypeOK
<1>5. TypeOK'
  <2>1. index' \in 0 .. nrStarted'
    BY <1>1
  <2>2. thread' \in [Threads -> {"idle", "takes", "runs", "reports", "finished"}]
    BY <1>1 DEF TypeOK
  <2> QED BY <1>1, <2>1, <2>2 DEF TypeOK
<1>6. HoldsWhileRunning' /\ Located'
  BY <1>1, <1>4 DEF HoldsWhileRunning, Located
<1>7. IdleUnlessActive'
  BY <1>1, <1>4 DEF IdleUnlessActive, Active, Threads
<1>8. EmptyOnceFinished'
  BY <1>1, <1>3 DEF EmptyOnceFinished
<1> QED BY <1>5, <1>6, <1>7, <1>8

(* When wait() comes back, all is done.                                    *)
LEMMA WaitIsOver ==
  ASSUME Inv, user = "waits", index = nrStarted
  PROVE  /\ queue = << >>
         /\ \A t \in Threads : thread[t] = "idle"
<1>1. index \in Nat
  BY DEF Inv, TypeOK
<1>2. queue = << >>
  BY <1>1 DEF Inv, EmptyOnceFinished
<1>3. \A t \in Threads : thread[t] = "idle"
  BY <1>1 DEF Inv, IdleUnlessActive, Active, Threads
<1> QED BY <1>2, <1>3

LEMMA WaitReturnsKeeps ==
  ASSUME Inv, WaitReturns
  PROVE  Inv'
<1>1. /\ user = "waits" /\ user' = "deletes" /\ index = nrStarted /\ returned' = error
      /\ UNCHANGED <<items, queue, error, nrStarted, index, thread, current>>
  BY DEF WaitReturns
<1>2. queue = << >> /\ \A t \in Threads : thread[t] = "idle"
  BY <1>1, WaitIsOver
<1>3. TypeOK'
  BY <1>1 DEF Inv, TypeOK
<1>4. HoldsWhileRunning' /\ Located'
  BY <1>1 DEF Inv, HoldsWhileRunning, Located
<1>5. IdleUnlessActive' /\ EmptyOnceFinished'
  BY <1>1, <1>2 DEF IdleUnlessActive, Active, EmptyOnceFinished
<1> QED BY <1>3, <1>4, <1>5 DEF Inv

LEMMA DeleteItemKeeps ==
  ASSUME Inv, NEW j \in Jobs, DeleteItem(j)
  PROVE  Inv'
<1>1. /\ user = "deletes" /\ items' = items \ {j}
      /\ UNCHANGED <<user, queue, error, nrStarted, index, thread, current, returned>>
  BY DEF DeleteItem
<1>2. queue = << >> /\ \A t \in Threads : thread[t] = "idle"
  BY <1>1 DEF Inv, EmptyOnceFinished, IdleUnlessActive, Active
<1>3. TypeOK' /\ HoldsWhileRunning' /\ IdleUnlessActive' /\ EmptyOnceFinished'
  BY <1>1 DEF Inv, TypeOK, HoldsWhileRunning, IdleUnlessActive, Active, EmptyOnceFinished
<1>4. Located'
  BY <1>1, <1>2 DEF Located
<1> QED BY <1>3, <1>4 DEF Inv

LEMMA DoneKeeps ==
  ASSUME Inv, Done
  PROVE  Inv'
<1>1. /\ user = "deletes" /\ user' = "adds"
      /\ UNCHANGED <<items, queue, error, nrStarted, index, thread, current, returned>>
  BY DEF Done
<1>2. TypeOK' /\ HoldsWhileRunning' /\ Located'
  BY <1>1 DEF Inv, TypeOK, HoldsWhileRunning, Located
<1>3. IdleUnlessActive' /\ EmptyOnceFinished'
  BY <1>1 DEF Inv, IdleUnlessActive, Active, EmptyOnceFinished
<1> QED BY <1>2, <1>3 DEF Inv

LEMMA TakeFirstKeeps ==
  ASSUME Inv, NEW t \in Threads, TakeFirst(t)
  PROVE  Inv'
<1>1. /\ thread[t] = "takes" /\ queue # << >> /\ queue \in Seq(Jobs)
      /\ queue' = Tail(queue)
      /\ current' = [current EXCEPT ![t] = Head(queue)]
      /\ thread' = [thread EXCEPT ![t] = "runs"]
      /\ UNCHANGED <<user, items, nrStarted, index, returned, error>>
  BY DEF TakeFirst, owned, Inv, TypeOK
<1>2. /\ Head(queue) \in Jobs /\ Head(queue) = queue[1]
      /\ queue' \in Seq(Jobs)
      /\ Len(queue) \in Nat /\ Len(queue') = Len(queue) - 1 /\ Len(queue) >= 1
      /\ \A i \in 1 .. Len(queue') : queue'[i] = queue[i + 1]
  BY <1>1, TailFacts
<1>3. /\ \A s \in Threads : thread'[s] = IF s = t THEN "runs" ELSE thread[s]
      /\ \A s \in Threads : current'[s] = IF s = t THEN queue[1] ELSE current[s]
  BY <1>1, <1>2 DEF Inv, TypeOK
<1>4. TypeOK'
  BY <1>1, <1>2 DEF Inv, TypeOK
<1>5. HoldsWhileRunning'
  BY <1>1, <1>2, <1>3, NoJobAssumption DEF Inv, HoldsWhileRunning
<1>6. \A i \in 1 .. Len(queue') : i + 1 \in 1 .. Len(queue) /\ i + 1 # 1
  BY <1>2
<1>7. 1 \in 1 .. Len(queue)
  BY <1>2
<1>8. Located'
  <2> USE DEF Inv, Located
  <2>1. \A i \in 1 .. Len(queue') : queue'[i] \in items'
    BY <1>1, <1>2, <1>6
  <2>2. \A s \in Threads : thread'[s] = "runs" => current'[s] \in items'
    BY <1>1, <1>3, <1>7
  <2>3. \A i, k \in 1 .. Len(queue') : queue'[i] = queue'[k] => i = k
    <3>1. SUFFICES ASSUME NEW i \in 1 .. Len(queue'), NEW k \in 1 .. Len(queue'),
                          queue'[i] = queue'[k]
                   PROVE  i = k
      OBVIOUS
    <3>2. i + 1 = k + 1
      BY <1>2, <1>6, <3>1
    <3> QED BY <3>2, <1>2
  <2>4. \A s \in Threads, i \in 1 .. Len(queue') : current'[s] # queue'[i]
    BY <1>2, <1>3, <1>6, <1>7
  <2>5. \A r, s \in Threads : thread'[r] = "runs" /\ current'[r] = current'[s] => r = s
    BY <1>3, <1>7
  <2> QED BY <2>1, <2>2, <2>3, <2>4, <2>5
<1>9. IdleUnlessActive'
  BY <1>1, <1>3 DEF Inv, IdleUnlessActive, Active
<1>10. EmptyOnceFinished'
  <2>1. \A s \in Threads : thread[s] # "finished"
    BY <1>1 DEF Inv, EmptyOnceFinished
  <2> QED BY <1>1, <1>3, <2>1 DEF Inv, EmptyOnceFinished
<1> QED BY <1>4, <1>5, <1>8, <1>9, <1>10 DEF Inv

LEMMA FindEmptyKeeps ==
  ASSUME Inv, NEW t \in Threads, FindEmpty(t)
  PROVE  Inv'
<1>1. /\ thread[t] = "takes" /\ queue = << >>
      /\ thread' = [thread EXCEPT ![t] = "finished"]
      /\ UNCHANGED <<user, items, nrStarted, index, returned, error, queue, current>>
  BY DEF FindEmpty, owned
<1>2. \A s \in Threads : thread'[s] = IF s = t THEN "finished" ELSE thread[s]
  BY <1>1 DEF Inv, TypeOK
<1>3. TypeOK'
  BY <1>1 DEF Inv, TypeOK
<1>4. HoldsWhileRunning' /\ Located'
  BY <1>1, <1>2 DEF Inv, HoldsWhileRunning, Located
<1>5. IdleUnlessActive' /\ EmptyOnceFinished'
  BY <1>1, <1>2 DEF Inv, IdleUnlessActive, Active, EmptyOnceFinished
<1> QED BY <1>3, <1>4, <1>5 DEF Inv

LEMMA RunWorkKeeps ==
  ASSUME Inv, NEW t \in Threads, RunWork(t)
  PROVE  Inv'
<1>1. /\ thread[t] = "runs"
      /\ current' = [current EXCEPT ![t] = NoJob]
      /\ UNCHANGED <<user, items, nrStarted, index, returned, error, queue>>
  BY DEF RunWork, owned
<1>2. PICK pc \in {"takes", "reports"} : thread' = [thread EXCEPT ![t] = pc]
  BY DEF RunWork
<1>3. /\ \A s \in Threads : thread'[s] = IF s = t THEN pc ELSE thread[s]
      /\ \A s \in Threads : current'[s] = IF s = t THEN NoJob ELSE current[s]
  BY <1>1, <1>2 DEF Inv, TypeOK
<1>4. TypeOK'
  BY <1>1, <1>2 DEF Inv, TypeOK
<1>5. HoldsWhileRunning'
  BY <1>1, <1>2, <1>3 DEF Inv, HoldsWhileRunning
<1>6. Located'
  <2>1. \A i \in 1 .. Len(queue) : queue[i] \in Jobs
    BY DEF Inv, TypeOK
  <2> QED BY <1>1, <1>2, <1>3, <2>1, NoJobAssumption DEF Inv, Located, HoldsWhileRunning
<1>7. IdleUnlessActive' /\ EmptyOnceFinished'
  BY <1>1, <1>2, <1>3 DEF Inv, IdleUnlessActive, Active, EmptyOnceFinished
<1> QED BY <1>4, <1>5, <1>6, <1>7 DEF Inv

LEMMA ReportKeeps ==
  ASSUME Inv, NEW t \in Threads, Report(t)
  PROVE  Inv'
<1>1. /\ thread[t] = "reports" /\ error' = TRUE
      /\ thread' = [thread EXCEPT ![t] = "takes"]
      /\ UNCHANGED <<user, items, nrStarted, index, returned, queue, current>>
  BY DEF Report, owned
<1>2. \A s \in Threads : thread'[s] = IF s = t THEN "takes" ELSE thread[s]
  BY <1>1 DEF Inv, TypeOK
<1>3. TypeOK'
  BY <1>1 DEF Inv, TypeOK
<1>4. HoldsWhileRunning' /\ Located'
  BY <1>1, <1>2 DEF Inv, HoldsWhileRunning, Located
<1>5. IdleUnlessActive' /\ EmptyOnceFinished'
  BY <1>1, <1>2 DEF Inv, IdleUnlessActive, Active, EmptyOnceFinished
<1> QED BY <1>3, <1>4, <1>5 DEF Inv

THEOREM InvNext == Inv /\ [Next]_vars => Inv'
<1> SUFFICES ASSUME Inv, [Next]_vars PROVE Inv'
  OBVIOUS
<1>1. CASE UNCHANGED vars
  BY <1>1 DEF vars, Inv, TypeOK, HoldsWhileRunning, Located, IdleUnlessActive, Active,
              EmptyOnceFinished
<1>2. CASE \E j \in Jobs : AddWorkItem(j) \/ DeleteItem(j)
  BY <1>2, AddWorkItemKeeps, DeleteItemKeeps
<1>3. CASE Start \/ StartThread \/ OwnWork \/ Join \/ WaitReturns \/ Done
  BY <1>3, StartKeeps, StartThreadKeeps, OwnWorkKeeps, JoinKeeps, WaitReturnsKeeps, DoneKeeps
<1>4. CASE \E t \in Threads : ThreadRun(t)
  BY <1>4, TakeFirstKeeps, FindEmptyKeeps, RunWorkKeeps, ReportKeeps DEF ThreadRun
<1> QED BY <1>1, <1>2, <1>3, <1>4 DEF Next, Proceed

(* The invariant holds in every state of the queue.                        *)
THEOREM Invariance == Spec => []Inv
<1> QED BY InvInit, InvNext, PTL DEF Spec, Safety

(* No thread uses an item that was deleted, no item is in two hands, and   *)
(* none is worked on while the main thread prepares a batch: the items     *)
(* that doScale(), doStats() and doLimitedStats() allocate and delete.     *)
THEOREM ItemsOutliveTheirUseCorrect == Spec => []ItemsOutliveTheirUse
<1>1. Inv => ItemsOutliveTheirUse
  <2> SUFFICES ASSUME Inv PROVE ItemsOutliveTheirUse
    OBVIOUS
  <2>1. Held \union Queued \subseteq items
    BY DEF Held, Queued, Inv, Located, HoldsWhileRunning
  <2>2. Held \intersect Queued = {}
    BY DEF Held, Queued, Inv, Located
  <2>3. \A s, t \in Threads : current[s] = current[t] => s = t \/ current[s] = NoJob
    BY DEF Inv, Located, HoldsWhileRunning
  <2>4. user = "adds" => Held = {} /\ \A t \in Threads : thread[t] = "idle"
    BY DEF Held, Inv, IdleUnlessActive, Active, HoldsWhileRunning
  <2> QED BY <2>1, <2>2, <2>3, <2>4 DEF ItemsOutliveTheirUse
<1> QED BY <1>1, Invariance, PTL

(***************************************************************************)
(* The refinement: every step is a step of WorkBatch or leaves what it     *)
(* sees unchanged.                                                         *)
(***************************************************************************)
Working == user \in {"starts", "waits"}
Pending == Held \union Queued
Failed == error \/ \E t \in Threads : thread[t] = "reports"

LEMMA SameItems ==
  ASSUME UNCHANGED <<queue, current>>
  PROVE  Pending' = Pending
BY DEF Pending, Held, Queued

LEMMA BatchInit == Init => Batch!Init
<1> SUFFICES ASSUME Init PROVE Batch!Init
  OBVIOUS
<1>1. Held = {} /\ Queued = {}
  BY DEF Init, Held, Queued
<1>2. ~Working /\ ~Failed /\ returned = FALSE
  BY DEF Init, Working, Failed
<1> QED BY <1>1, <1>2 DEF Batch!Init, Working, Failed

LEMMA BatchSubmit ==
  ASSUME Inv, NEW j \in Jobs, AddWorkItem(j)
  PROVE  Batch!Submit(j)
<1>1. /\ user = "adds" /\ j \notin items /\ queue \in Seq(Jobs)
      /\ queue' = Append(queue, j)
      /\ UNCHANGED <<user, error, thread, current, returned>>
  BY DEF AddWorkItem, Inv, TypeOK
<1>2. /\ Len(queue) \in Nat /\ Len(queue') = Len(queue) + 1
      /\ \A i \in 1 .. Len(queue) : queue'[i] = queue[i]
      /\ queue'[Len(queue) + 1] = j
  BY <1>1, AppendFacts
<1>3. \A i \in 1 .. Len(queue) : i \in 1 .. Len(queue')
  BY <1>2
<1>4. Len(queue) + 1 \in 1 .. Len(queue')
  BY <1>2
<1>5. \A i \in 1 .. Len(queue') : i = Len(queue) + 1 \/ i \in 1 .. Len(queue)
  BY <1>2
<1>6. Queued' = Queued \union {j}
  BY <1>2, <1>3, <1>4, <1>5 DEF Queued
<1>7. Held' = Held
  BY <1>1 DEF Held
<1>8. j \notin Held \union Queued
  BY <1>1 DEF Held, Queued, Inv, Located, HoldsWhileRunning
<1>9. Pending' = Pending \union {j} /\ j \notin Pending
  BY <1>6, <1>7, <1>8 DEF Pending
<1>10. ~Working /\ UNCHANGED <<Working, Failed, returned>>
  BY <1>1 DEF Working, Failed
<1> QED BY <1>9, <1>10 DEF Batch!Submit, Working, Failed, Pending

LEMMA BatchBegin ==
  ASSUME Inv, Start
  PROVE  Batch!Begin
<1>1. /\ user = "adds" /\ user' = "starts" /\ error' = FALSE
      /\ UNCHANGED <<queue, thread, current, returned>>
  BY DEF Start
<1>2. \A t \in Threads : thread[t] = "idle"
  BY <1>1 DEF Inv, IdleUnlessActive, Active
<1>3. Failed' = FALSE
  BY <1>1, <1>2 DEF Failed
<1>4. Pending' = Pending
  BY <1>1, SameItems
<1>5. ~Working /\ Working'
  BY <1>1 DEF Working
<1> QED BY <1>1, <1>3, <1>4, <1>5 DEF Batch!Begin, Working, Failed, Pending

LEMMA BatchPerform ==
  ASSUME Inv, NEW t \in Threads, RunWork(t)
  PROVE  \E j \in Jobs : Batch!Perform(j)
<1>1. /\ thread[t] = "runs"
      /\ current' = [current EXCEPT ![t] = NoJob]
      /\ UNCHANGED <<user, returned, error, queue>>
  BY DEF RunWork, owned
<1>2. PICK pc \in {"takes", "reports"} : thread' = [thread EXCEPT ![t] = pc]
  BY DEF RunWork
<1>3. /\ \A s \in Threads : thread'[s] = IF s = t THEN pc ELSE thread[s]
      /\ \A s \in Threads : current'[s] = IF s = t THEN NoJob ELSE current[s]
  BY <1>1, <1>2 DEF Inv, TypeOK
<1>4. current[t] \in Jobs /\ current[t] # NoJob
  BY <1>1 DEF Inv, TypeOK, HoldsWhileRunning
<1>5. Held' = Held \ {current[t]}
  BY <1>1, <1>3, <1>4 DEF Held, Inv, Located
<1>6. Queued' = Queued /\ current[t] \notin Queued
  BY <1>1 DEF Queued, Inv, Located
<1>7. current[t] \in Held
  BY <1>4 DEF Held
<1>8. Pending' = Pending \ {current[t]} /\ current[t] \in Pending
  BY <1>5, <1>6, <1>7 DEF Pending
<1>9. Working
  <2>1. t \in Active
    BY <1>1 DEF Inv, IdleUnlessActive
  <2>2. Active # {} => user \in {"starts", "waits"}
    BY DEF Active
  <2> QED BY <2>1, <2>2 DEF Working
<1>10. Working' = Working
  BY <1>1 DEF Working
<1>11. Failed => Failed'
  BY <1>1, <1>3 DEF Failed
<1>12. Failed' \in {Failed, TRUE}
  BY <1>11 DEF Failed, Inv, TypeOK
<1>13. Batch!Perform(current[t])
  BY <1>1, <1>8, <1>9, <1>10, <1>12 DEF Batch!Perform, Working, Failed, Pending
<1> QED BY <1>4, <1>13 DEF Batch!Perform

LEMMA BatchReturn ==
  ASSUME Inv, WaitReturns
  PROVE  Batch!Return
<1>1. /\ user = "waits" /\ user' = "deletes" /\ index = nrStarted /\ returned' = error
      /\ UNCHANGED <<queue, error, thread, current>>
  BY DEF WaitReturns
<1>2. queue = << >> /\ \A t \in Threads : thread[t] = "idle"
  BY <1>1, WaitIsOver
<1>3. Pending = {}
  BY <1>2 DEF Pending, Held, Queued, Inv, HoldsWhileRunning
<1>4. Pending' = Pending
  BY <1>1, SameItems
<1>5. Failed = error /\ Failed' = Failed
  BY <1>1, <1>2 DEF Failed, Inv, TypeOK
<1>6. Working /\ ~Working'
  BY <1>1 DEF Working
<1> QED BY <1>1, <1>3, <1>4, <1>5, <1>6 DEF Batch!Return, Working, Failed, Pending

(* An item that is taken stays pending until it is done.                   *)
LEMMA BatchTake ==
  ASSUME Inv, NEW t \in Threads, TakeFirst(t)
  PROVE  Pending' = Pending /\ Failed' = Failed
<1>1. /\ thread[t] = "takes" /\ queue # << >> /\ queue \in Seq(Jobs)
      /\ queue' = Tail(queue)
      /\ current' = [current EXCEPT ![t] = Head(queue)]
      /\ thread' = [thread EXCEPT ![t] = "runs"]
      /\ error' = error
  BY DEF TakeFirst, Inv, TypeOK
<1>2. /\ Head(queue) \in Jobs /\ Head(queue) = queue[1]
      /\ Len(queue) \in Nat /\ Len(queue') = Len(queue) - 1 /\ Len(queue) >= 1
      /\ \A i \in 1 .. Len(queue') : queue'[i] = queue[i + 1]
  BY <1>1, TailFacts
<1>3. /\ \A s \in Threads : thread'[s] = IF s = t THEN "runs" ELSE thread[s]
      /\ \A s \in Threads : current'[s] = IF s = t THEN queue[1] ELSE current[s]
  BY <1>1, <1>2 DEF Inv, TypeOK
<1>4. current[t] = NoJob
  BY <1>1 DEF Inv, HoldsWhileRunning
<1>5. Held' = Held \union {queue[1]}
  BY <1>2, <1>3, <1>4, NoJobAssumption DEF Held
<1>6. Queued = Queued' \union {queue[1]}
  <2>1. \A i \in 1 .. Len(queue) : i = 1 \/ i - 1 \in 1 .. Len(queue')
    BY <1>2
  <2>2. \A i \in 1 .. Len(queue') : i + 1 \in 1 .. Len(queue)
    BY <1>2
  <2>3. 1 \in 1 .. Len(queue)
    BY <1>2
  <2>4. \A i \in 1 .. Len(queue) : i = 1 \/ queue[i] = queue'[i - 1]
    BY <1>2, <2>1
  <2>5. Queued \subseteq Queued' \union {queue[1]}
    BY <2>1, <2>4 DEF Queued
  <2>6. Queued' \union {queue[1]} \subseteq Queued
    BY <1>2, <2>2, <2>3 DEF Queued
  <2> QED BY <2>5, <2>6
<1>7. Failed' = Failed
  BY <1>1, <1>3 DEF Failed, Inv, TypeOK
<1> QED BY <1>5, <1>6, <1>7 DEF Pending

LEMMA BatchReport ==
  ASSUME Inv, NEW t \in Threads, Report(t)
  PROVE  Failed' = Failed
<1>1. thread[t] = "reports" /\ error' = TRUE
  BY DEF Report
<1> QED BY <1>1 DEF Failed

LEMMA BatchFindEmpty ==
  ASSUME Inv, NEW t \in Threads, FindEmpty(t)
  PROVE  Failed' = Failed
<1>1. /\ thread[t] = "takes" /\ error' = error
      /\ thread' = [thread EXCEPT ![t] = "finished"]
  BY DEF FindEmpty
<1>2. \A s \in Threads : thread'[s] = IF s = t THEN "finished" ELSE thread[s]
  BY <1>1 DEF Inv, TypeOK
<1> QED BY <1>1, <1>2 DEF Failed, Inv, TypeOK

LEMMA BatchLoops ==
  ASSUME Inv, StartThread \/ Join
  PROVE  Failed' = Failed
<1>1. /\ index + 1 \in Threads => thread[index + 1] # "reports"
      /\ error' = error
  <2>1. ASSUME StartThread PROVE index + 1 \in Threads => thread[index + 1] = "idle"
    <3>1. user = "starts" /\ index \in Nat
      BY <2>1 DEF StartThread, Inv, TypeOK
    <3>2. index + 1 \notin Active
      BY <3>1 DEF Active
    <3> QED BY <3>2 DEF Inv, IdleUnlessActive
  <2> QED BY <2>1 DEF StartThread, Join
<1>2. PICK pc \in {"takes", "idle"} : thread' = [thread EXCEPT ![index + 1] = pc]
  BY DEF StartThread, Join
<1>3. \A s \in Threads : thread'[s] = IF s = index + 1 THEN pc ELSE thread[s]
  BY <1>2 DEF Inv, TypeOK
<1>4. (\E s \in Threads : thread'[s] = "reports") <=> (\E s \in Threads : thread[s] = "reports")
  BY <1>1, <1>3
<1> QED BY <1>1, <1>4 DEF Failed, Inv, TypeOK

(* The work queue does what TraceAnalyzer expects of it, for any items and *)
(* any number of threads: the part of ImplementsBatch without liveness.    *)
THEOREM ImplementsBatchSafety == Spec => Batch!Safety
<1>1. Inv /\ [Next]_vars => [Batch!Next]_Batch!vars
  <2> SUFFICES ASSUME Inv, [Next]_vars PROVE [Batch!Next]_Batch!vars
    OBVIOUS
  <2> DEFINE Stutter == UNCHANGED <<Working, Pending, Failed, returned>>
  <2>1. Stutter => UNCHANGED Batch!vars
    BY DEF Batch!vars, Working, Pending, Failed
  <2>2. CASE UNCHANGED vars
    <3>1. Stutter
      BY <2>2, SameItems DEF vars, Working, Failed
    <3> QED BY <2>1, <3>1
  <2>3. CASE \E j \in Jobs : AddWorkItem(j)
    BY <2>3, BatchSubmit DEF Batch!Next
  <2>4. CASE Start
    BY <2>4, BatchBegin DEF Batch!Next
  <2>5. CASE StartThread \/ Join
    <3>1. UNCHANGED <<user, queue, current, returned>>
      BY <2>5 DEF StartThread, Join
    <3>2. Stutter
      BY <2>5, <3>1, SameItems, BatchLoops DEF Working
    <3> QED BY <2>1, <3>2
  <2>6. CASE OwnWork \/ Done \/ \E j \in Jobs : DeleteItem(j)
    <3>1. UNCHANGED <<queue, error, thread, current, returned>> /\ Working' = Working
      BY <2>6 DEF OwnWork, Done, DeleteItem, Working
    <3>2. Stutter
      BY <3>1, SameItems DEF Failed
    <3> QED BY <2>1, <3>2
  <2>7. CASE WaitReturns
    BY <2>7, BatchReturn DEF Batch!Next
  <2>8. ASSUME NEW t \in Threads, ThreadRun(t) PROVE [Batch!Next]_Batch!vars
    <3>1. CASE RunWork(t)
      BY <3>1, BatchPerform DEF Batch!Next
    <3>2. CASE TakeFirst(t)
      <4>1. Stutter
        BY <3>2, BatchTake DEF TakeFirst, owned, Working
      <4> QED BY <2>1, <4>1
    <3>3. CASE FindEmpty(t) \/ Report(t)
      <4>1. UNCHANGED <<user, queue, current, returned>>
        BY <3>3 DEF FindEmpty, Report, owned
      <4>2. Stutter
        BY <3>3, <4>1, SameItems, BatchFindEmpty, BatchReport DEF Working
      <4> QED BY <2>1, <4>2
    <3> QED BY <2>8, <3>1, <3>2, <3>3 DEF ThreadRun
  <2> QED BY <2>2, <2>3, <2>4, <2>5, <2>6, <2>7, <2>8 DEF Next, Proceed
<1> QED BY <1>1, BatchInit, Invariance, PTL DEF Batch!Safety, Spec, Safety

(***************************************************************************)
(* The threads of TraceSession, over any number of traces, for a user who  *)
(* is patient or not.                                                      *)
(***************************************************************************)
Reading == reader = "read" \/ parser = "parse"

(* Reader and parser work for the trace that is open, and not once main    *)
(* has been told of the end.                                               *)
WorkersInv ==
  /\ opened \in Nat /\ (traceFile = 0 \/ (traceFile = opened /\ opened # 0))
  /\ main # "idle" => traceFile # 0
  /\ loader # "finished" => loaderOf = traceFile
  /\ reader = "read" => readerOf = traceFile /\ traceFile # 0
  /\ parser = "parse" => parserOf = traceFile /\ traceFile # 0
  /\ main = "idle" /\ traceFile # 0 => ~Reading

(* Main is told of the end when both have done their last work: with the   *)
(* type, if that is unknown, else with the last index.  The parser may     *)
(* send the index for a trace that has been closed; that does no harm,     *)
(* since then it has not been started for the one that is open.            *)
ToldInv ==
  /\ main = "waitEvents" => typeEOF
  /\ traceFile # 0 /\ typeEOF /\ parser # "parse" => reader # "read"
  /\ traceFile # 0 /\ typeEOF /\ traceType = "UNKNOWN" => ~Reading
  /\ traceFile # 0 /\ typeEOF /\ eventsEOF => ~Reading
  /\ parser = "parse" => ~eventsEOF

(* A patient user closes a trace when both have returned.                  *)
PatientInv ==
  patient => /\ traceFile = 0 => reader = "finished" /\ parser = "finished"
             /\ tbuffers # 0 => parser \in {"parse", "post", "delete"}

SessionInv == WorkersInv /\ ToldInv /\ PatientInv

LEMMA InitSession == SessionInit => SessionInv
<1> SUFFICES ASSUME SessionInit PROVE SessionInv
  OBVIOUS
<1>1. WorkersInv
  BY DEF SessionInit, Nobody, WorkersInv, Reading
<1>2. ToldInv
  BY DEF SessionInit, Nobody, ToldInv, Reading
<1>3. PatientInv
  BY DEF SessionInit, Nobody, PatientInv
<1> QED BY <1>1, <1>2, <1>3 DEF SessionInv

LEMMA OpenKeeps == ASSUME SessionInv, Open, UNCHANGED patient PROVE SessionInv'
<1> USE DEF SessionInv, Open, Nobody
<1>1. WorkersInv'
  BY DEF WorkersInv, Reading
<1>2. ToldInv'
  BY DEF WorkersInv, ToldInv, Reading
<1>3. PatientInv'
  BY DEF WorkersInv, PatientInv
<1> QED BY <1>1, <1>2, <1>3

LEMMA CloseKeeps == ASSUME SessionInv, Close, UNCHANGED patient PROVE SessionInv'
<1> USE DEF SessionInv, Close, Nobody
<1>1. WorkersInv'
  BY DEF WorkersInv, Reading
<1>2. ToldInv'
  BY DEF WorkersInv, ToldInv, Reading
<1>3. PatientInv'
  BY DEF PatientInv
<1> QED BY <1>1, <1>2, <1>3

(* Main goes on when it has been told.                                     *)
LEMMA ProcessKeeps == ASSUME SessionInv, Process, UNCHANGED patient PROVE SessionInv'
<1> USE DEF SessionInv, Process, WaitForTraceType, WaitForEvents
<1>1. WorkersInv'
  BY DEF WorkersInv, ToldInv, Reading
<1>2. ToldInv'
  BY DEF ToldInv, Reading
<1>3. PatientInv'
  BY DEF PatientInv
<1> QED BY <1>1, <1>2, <1>3

LEMMA LoaderKeeps == ASSUME SessionInv, Loader, UNCHANGED patient PROVE SessionInv'
<1> USE DEF SessionInv, Loader, LoaderReachesEOF, LoaderReturns
<1>1. WorkersInv'
  BY DEF WorkersInv, Reading
<1>2. ToldInv'
  BY DEF ToldInv, Reading
<1>3. PatientInv'
  BY DEF PatientInv
<1> QED BY <1>1, <1>2, <1>3

LEMMA ReaderKeeps == ASSUME SessionInv, Reader, UNCHANGED patient PROVE SessionInv'
<1> USE DEF SessionInv, Reader, ReaderReachesEOF, ReaderReturns
<1>1. WorkersInv'
  BY DEF WorkersInv, Reading
<1>2. ToldInv'
  BY DEF ToldInv, Reading
<1>3. PatientInv'
  BY DEF PatientInv
<1> QED BY <1>1, <1>2, <1>3

LEMMA ParserKeeps == ASSUME SessionInv, Parser, UNCHANGED patient PROVE SessionInv'
<1> USE DEF SessionInv
<1>1. CASE DetermineTraceType
  <2> USE <1>1 DEF DetermineTraceType
  <2>1. WorkersInv'
    BY DEF WorkersInv, Reading
  <2>2. ToldInv'
    BY DEF ToldInv, Reading
  <2>3. PatientInv'
    BY DEF PatientInv
  <2> QED BY <2>1, <2>2, <2>3
<1>2. CASE ParserReachesEOF
  <2> USE <1>2 DEF ParserReachesEOF
  <2>1. WorkersInv'
    BY DEF WorkersInv, Reading
  <2>2. ToldInv'
    BY DEF ToldInv, Reading
  <2>3. PatientInv'
    BY DEF PatientInv
  <2> QED BY <2>1, <2>2, <2>3
<1>3. CASE ParserSendsEOF
  <2> USE <1>3 DEF ParserSendsEOF
  <2>1. WorkersInv'
    BY DEF WorkersInv, Reading
  <2>2. ToldInv'
    BY DEF ToldInv, Reading
  <2>3. PatientInv'
    BY DEF PatientInv
  <2> QED BY <2>1, <2>2, <2>3
<1>4. CASE ParserDeletes \/ ParserReturns
  <2> USE <1>4 DEF ParserDeletes, ParserReturns, Nobody
  <2>1. WorkersInv'
    BY DEF WorkersInv, Reading
  <2>2. ToldInv'
    BY DEF ToldInv, Reading
  <2>3. PatientInv'
    BY DEF PatientInv
  <2> QED BY <2>1, <2>2, <2>3
<1> QED BY <1>1, <1>2, <1>3, <1>4 DEF Parser

LEMMA SessionStep == SessionInv /\ [SessionNext]_sessionVars => SessionInv'
<1> SUFFICES ASSUME SessionInv, [SessionNext]_sessionVars PROVE SessionInv'
  OBVIOUS
<1>1. CASE UNCHANGED sessionVars
  BY <1>1 DEF sessionVars, SessionInv, WorkersInv, ToldInv, PatientInv, Reading
<1>2. CASE SessionNext
  BY <1>2, OpenKeeps, CloseKeeps, ProcessKeeps, LoaderKeeps, ReaderKeeps, ParserKeeps
  DEF SessionNext
<1> QED BY <1>1, <1>2

(* However soon a trace is closed and the next one opened, the TraceFile   *)
(* outlives the threads that read from it, which ~TraceFile() does not     *)
(* wait for, and a patient user finds the ThreadBuffers of every closed    *)
(* trace deleted (TraceParser::open(), close(), threadParser()).           *)
THEOREM ResourcesFollowTraceCorrect == SessionSpec => []ResourcesFollowTrace
<1>1. SessionInv => ResourcesFollowTrace
  BY DEF SessionInv, WorkersInv, PatientInv, ResourcesFollowTrace,
         FileOutlivesUsers, NoBuffersLeft, Nobody
<1> QED BY <1>1, InitSession, SessionStep, PTL DEF SessionSpec

-----------------------------------------------------------------------------
(* StateFile.                                                                *)

DiskType == [Files -> [kind : {"absent", "invalid", "good"}, colors : Maps]]
StateType == [traceFile : Traces \cup {NoTrace}, stateFile : Files \cup {NoFile}, colorMap : Maps]
ColorType == [Pids -> Colors \cup {Random, NoColor}]
PromisedType == [Files -> [known : BOOLEAN, colors : Maps]]

StateTypeOK ==
  /\ disk \in DiskType /\ state \in StateType
  /\ openTrace \in Traces \cup {NoTrace}
  /\ taskColor \in ColorType /\ origColor \in ColorType
  /\ promised \in PromisedType

(* The state file is that of the trace that was set; without an open trace it  *)
(* was read and not changed.                                                  *)
FileInv ==
  /\ state.traceFile = NoTrace => state = Cleared
  /\ state.traceFile # NoTrace => state.stateFile = FileOf[state.traceFile]
  /\ IsOpen => state.traceFile # NoTrace
  /\ ~IsOpen /\ state.traceFile # NoTrace => state.colorMap = disk[state.stateFile].colors

(* A task that ran has an original color exactly if it has one from the user.  *)
ColorInv ==
  IsOpen => \A p \in Ran[openTrace] :
    IF state.colorMap[p] = NoColor THEN origColor[p] = NoColor /\ taskColor[p] = Random
    ELSE origColor[p] = Random /\ taskColor[p] = state.colorMap[p]

(* A promise about the open trace is in memory, and in the file if there is    *)
(* nothing to save; every other is in its file.                               *)
PromiseInv ==
  \A f \in Files : promised[f].known =>
    IF IsOpen /\ Own /\ f = FileOf[openTrace]
    THEN state.colorMap = promised[f].colors /\ (NothingToSave(state) => disk[f].colors = NoColors)
    ELSE disk[f].colors = promised[f].colors /\ (IsOpen => f # FileOf[openTrace] /\ f # state.stateFile)

IInv == StateTypeOK /\ FileInv /\ ColorInv /\ ResetIsOffered /\ PromiseInv

-----------------------------------------------------------------------------
(* Types of what the steps assign.                                            *)

LEMMA MapTypes ==
  /\ NoColors \in Maps
  /\ \A map \in Maps : Good(map) \in [kind : {"absent", "invalid", "good"}, colors : Maps]
                       /\ Good(map).colors = map
  /\ Absent \in [kind : {"absent", "invalid", "good"}, colors : Maps] /\ Absent.colors = NoColors
  /\ Invalid \in [kind : {"absent", "invalid", "good"}, colors : Maps]
  /\ \A map \in Maps : Promise(map) \in [known : BOOLEAN, colors : Maps] /\ Promise(map).colors = map
  /\ Unknown \in [known : BOOLEAN, colors : Maps] /\ ~Unknown.known
  /\ Cleared \in StateType /\ Cleared.colorMap = NoColors
<1>1. NoColors \in Maps
  BY DEF NoColors, Maps
<1> QED BY <1>1 DEF Good, Absent, Invalid, Promise, Unknown, Cleared, StateType

LEMMA TornType ==
  ASSUME NEW map \in Maps, NEW c \in Torn(map)
  PROVE  c \in [kind : {"absent", "invalid", "good"}, colors : Maps]
<1>1. CASE c = Invalid
  BY <1>1, MapTypes
<1>2. CASE c # Invalid
  <2>1. PICK last \in Pids : c = Good([p \in Pids |-> IF p <= last THEN map[p] ELSE NoColor])
    BY <1>2 DEF Torn
  <2>2. [p \in Pids |-> IF p <= last THEN map[p] ELSE NoColor] \in Maps
    BY DEF Maps
  <2> QED BY <2>1, <2>2, MapTypes
<1> QED BY <1>1, <1>2

(* What can be in the files after closing, or when the program dies in it.     *)
LEMMA SaveFailsFact ==
  ASSUME disk \in DiskType, state \in StateType, state.stateFile \in Files, NEW d \in SaveFails(state, disk)
  PROVE  d \in DiskType /\ \A f \in Files \ {state.stateFile} : d[f] = disk[f]
<1>1. CASE d = disk
  BY <1>1
<1>2. CASE d # disk
  <2>1. PICK c \in Torn(state.colorMap) : d = [disk EXCEPT ![state.stateFile] = c]
    BY <1>2 DEF SaveFails
  <2>2. state.colorMap \in Maps
    BY DEF StateType
  <2>3. c \in [kind : {"absent", "invalid", "good"}, colors : Maps]
    BY <2>2, TornType
  <2> QED BY <2>1, <2>3 DEF DiskType
<1> QED BY <1>1, <1>2

LEMMA SaveOutcomesFact ==
  ASSUME ConstantsAssumption, StateTypeOK, FileInv, PromiseInv, NEW r \in SaveOutcomes
  PROVE  /\ r.disk \in DiskType /\ r.promised \in PromisedType
         /\ \A f \in Files : r.promised[f].known => r.disk[f].colors = r.promised[f].colors
         /\ ~IsOpen => r.disk = disk
<1>1. CASE ~IsOpen
  <2>1. r.disk = disk /\ r.promised = promised
    BY <1>1 DEF SaveOutcomes
  <2>2. \A f \in Files : promised[f].known => disk[f].colors = promised[f].colors
    BY <1>1 DEF PromiseInv
  <2> QED BY <2>1, <2>2 DEF StateTypeOK
<1>2. CASE IsOpen
  <2>1. /\ openTrace \in Traces /\ state.traceFile \in Traces
        /\ state.stateFile = FileOf[state.traceFile] /\ state.stateFile \in Files /\ FileOf[openTrace] \in Files
        /\ state.colorMap \in Maps
    BY <1>2 DEF StateTypeOK, FileInv, IsOpen, StateType, ConstantsAssumption
  <2>2. Promise(state.colorMap) \in [known : BOOLEAN, colors : Maps] /\ Promise(state.colorMap).colors = state.colorMap
    BY <2>1, MapTypes
  <2>3. Unknown \in [known : BOOLEAN, colors : Maps] /\ ~Unknown.known
    BY MapTypes
  <2>4. \A b \in BOOLEAN : PromisedAfter(b) \in PromisedType
    BY <2>1, <2>2, <2>3 DEF PromisedAfter, StateTypeOK, PromisedType
  <2>5. Save(state, disk) \in DiskType
    <3>1. Good(state.colorMap) \in [kind : {"absent", "invalid", "good"}, colors : Maps]
      BY <2>1, MapTypes
    <3> QED BY <2>1, <3>1 DEF Save, StateTypeOK, DiskType
  <2>6. CASE r.disk = Save(state, disk) /\ r.promised = PromisedAfter(TRUE)
    <3>1. ASSUME NEW f \in Files, r.promised[f].known
          PROVE  r.disk[f].colors = r.promised[f].colors
      <4>1. CASE NothingToSave(state) /\ Own
        <5>1. r.disk = disk /\ r.promised = promised
          BY <2>6, <4>1 DEF Save, PromisedAfter
        <5>2. CASE f = FileOf[openTrace]
          <6>1. promised[f].colors = state.colorMap /\ disk[f].colors = NoColors
            BY <1>2, <3>1, <4>1, <5>1, <5>2 DEF PromiseInv
          <6> QED BY <4>1, <5>1, <6>1 DEF NothingToSave
        <5>3. CASE f # FileOf[openTrace]
          BY <3>1, <5>1, <5>3 DEF PromiseInv
        <5> QED BY <5>2, <5>3
      <4>2. CASE ~NothingToSave(state) /\ Own
        <5>1. FileOf[openTrace] = state.stateFile
          BY <2>1, <4>2 DEF Own
        <5>2. r.disk = [disk EXCEPT ![state.stateFile] = Good(state.colorMap)]
          BY <2>6, <4>2 DEF Save
        <5>3. r.promised = [promised EXCEPT ![state.stateFile] = Promise(state.colorMap), ![state.stateFile] = Promise(state.colorMap)]
          BY <2>6, <4>2, <5>1 DEF PromisedAfter
        <5>4. CASE f = state.stateFile
          <6>1. r.disk[f] = Good(state.colorMap)
            BY <2>1, <5>2, <5>4 DEF StateTypeOK, DiskType
          <6>2. r.promised[f] = Promise(state.colorMap)
            BY <2>1, <5>3, <5>4 DEF StateTypeOK, PromisedType
          <6> QED BY <2>1, <6>1, <6>2, MapTypes
        <5>5. CASE f # state.stateFile
          <6>1. r.disk[f] = disk[f] /\ r.promised[f] = promised[f]
            BY <5>2, <5>3, <5>5 DEF StateTypeOK, DiskType, PromisedType
          <6> QED BY <3>1, <5>1, <5>5, <6>1 DEF PromiseInv
        <5> QED BY <5>4, <5>5
      <4>3. CASE ~Own
        <5>1. r.promised = [promised EXCEPT ![state.stateFile] = Unknown, ![FileOf[openTrace]] = Unknown]
          BY <2>6, <4>3 DEF PromisedAfter
        <5>2. f # state.stateFile /\ f # FileOf[openTrace]
          BY <2>1, <2>3, <3>1, <5>1 DEF StateTypeOK, PromisedType
        <5>3. r.promised[f] = promised[f]
          BY <5>1, <5>2 DEF StateTypeOK, PromisedType
        <5>4. r.disk[f] = disk[f]
          BY <2>1, <2>6, <5>2 DEF Save, StateTypeOK, DiskType
        <5> QED BY <3>1, <5>2, <5>3, <5>4 DEF PromiseInv
      <4> QED BY <4>1, <4>2, <4>3
    <3> QED BY <1>2, <2>4, <2>5, <2>6, <3>1
  <2>7. CASE r.disk \in SaveFails(state, disk) /\ r.promised = PromisedAfter(FALSE)
    <3>1. r.disk \in DiskType /\ \A f \in Files \ {state.stateFile} : r.disk[f] = disk[f]
      BY <2>1, <2>7, SaveFailsFact DEF StateTypeOK
    <3>2. ~NothingToSave(state)
      BY <2>7 DEF SaveFails
    <3>3. r.promised = [promised EXCEPT ![state.stateFile] = Unknown, ![FileOf[openTrace]] = Unknown]
      BY <2>7, <3>2 DEF PromisedAfter
    <3>4. ASSUME NEW f \in Files, r.promised[f].known
          PROVE  r.disk[f].colors = r.promised[f].colors
      <4>1. f # state.stateFile /\ f # FileOf[openTrace]
        BY <2>1, <2>3, <3>3, <3>4 DEF StateTypeOK, PromisedType
      <4>2. r.promised[f] = promised[f] /\ r.disk[f] = disk[f]
        BY <3>1, <3>3, <4>1 DEF StateTypeOK, PromisedType
      <4> QED BY <3>4, <4>1, <4>2 DEF PromiseInv
    <3> QED BY <1>2, <2>4, <2>7, <3>1, <3>4
  <2>8. r = [disk |-> Save(state, disk), promised |-> PromisedAfter(TRUE)]
          \/ \E d \in SaveFails(state, disk) : r = [disk |-> d, promised |-> PromisedAfter(FALSE)]
    BY <1>2 DEF SaveOutcomes
  <2>9. \/ r.disk = Save(state, disk) /\ r.promised = PromisedAfter(TRUE)
        \/ r.disk \in SaveFails(state, disk) /\ r.promised = PromisedAfter(FALSE)
    <3>1. CASE r = [disk |-> Save(state, disk), promised |-> PromisedAfter(TRUE)]
      BY <3>1
    <3>2. ASSUME NEW d \in SaveFails(state, disk), r = [disk |-> d, promised |-> PromisedAfter(FALSE)]
          PROVE  r.disk \in SaveFails(state, disk) /\ r.promised = PromisedAfter(FALSE)
      BY <3>2
    <3> QED BY <2>8, <3>1, <3>2
  <2> QED BY <2>6, <2>7, <2>9
<1> QED BY <1>1, <1>2

(* What loadState() leaves in memory.                                         *)
LEMMA LoadFact ==
  ASSUME ConstantsAssumption, NEW s \in StateType, NEW d \in DiskType, NEW t \in Traces,
         s.traceFile = NoTrace => s = Cleared,
         s.traceFile # NoTrace => s.stateFile = FileOf[s.traceFile] /\ s.colorMap = d[s.stateFile].colors
  PROVE  LET l == LoadState(SetTraceFile(s, t), d)
         IN  /\ l \in StateType /\ l.traceFile \in Traces
             /\ l.stateFile = FileOf[l.traceFile] /\ l.colorMap = d[l.stateFile].colors
             /\ s = Cleared => l.traceFile = t
<1> DEFINE m == SetTraceFile(s, t)
           c == CheckStateFile(m)
<1>1. NoTrace \notin Traces /\ NoFile \notin Files /\ FileOf \in [Traces -> Files]
  BY DEF ConstantsAssumption
<1>2. \A f \in Files : d[f].colors \in Maps
  BY DEF DiskType
<1>3. CASE s.traceFile = NoTrace
  <2>1. s = Cleared
    BY <1>3
  <2>2. m = [traceFile |-> t, stateFile |-> NoFile, colorMap |-> NoColors]
    BY <2>1 DEF SetTraceFile, Cleared
  <2>3. c = [traceFile |-> t, stateFile |-> FileOf[t], colorMap |-> NoColors]
    BY <1>1, <2>2 DEF CheckStateFile
  <2>4. LoadState(m, d) = [traceFile |-> t, stateFile |-> FileOf[t], colorMap |-> d[FileOf[t]].colors]
    BY <1>1, <2>3 DEF LoadState
  <2>5. FileOf[t] \in Files
    BY <1>1
  <2> QED BY <1>2, <2>4, <2>5 DEF StateType
<1>4. CASE s.traceFile # NoTrace
  <2>1. m = s
    BY <1>4 DEF SetTraceFile
  <2>2. s.traceFile \in Traces /\ s.stateFile \in Files /\ s.stateFile # NoFile
    BY <1>1, <1>4 DEF StateType
  <2>3. c = s
    BY <2>1, <2>2 DEF CheckStateFile
  <2>4. LoadState(m, d) = s
    <3>1. CASE s.colorMap = NoColors
      <4>1. [s EXCEPT !.colorMap = d[s.stateFile].colors] = s
        BY <1>4 DEF StateType
      <4> QED BY <2>2, <2>3, <3>1, <4>1 DEF LoadState
    <3>2. CASE s.colorMap # NoColors
      BY <2>3, <3>2 DEF LoadState
    <3> QED BY <3>1, <3>2
  <2>5. s # Cleared
    BY <1>4 DEF Cleared
  <2> QED BY <1>4, <2>2, <2>4, <2>5
<1> QED BY <1>3, <1>4

-----------------------------------------------------------------------------
(* The steps.                                                                *)

(* A step after which no trace is open and nothing is in memory.               *)
LEMMA EndStep ==
  ASSUME ConstantsAssumption, NEW d \in DiskType, NEW promises \in PromisedType,
         \A f \in Files : promises[f].known => d[f].colors = promises[f].colors,
         disk' = d, promised' = promises,
         state' = Cleared, openTrace' = NoTrace, NoTaskColors
  PROVE  IInv'
<1>1. NoColors \in ColorType
  BY DEF NoColors, ColorType
<1>2. StateTypeOK'
  BY <1>1, MapTypes DEF StateTypeOK, NoTaskColors
<1>3. ~IsOpen'
  BY DEF IsOpen
<1>4. FileInv'
  BY <1>3 DEF FileInv, Cleared
<1>5. ColorInv' /\ ResetIsOffered' /\ PromiseInv'
  BY <1>3 DEF ColorInv, ResetIsOffered, PromiseInv
<1> QED BY <1>2, <1>4, <1>5 DEF IInv

LEMMA CloseOrQuit ==
  ASSUME ConstantsAssumption, IInv, CloseTrace \/ Quit
  PROVE  IInv'
<1>1. PICK r \in SaveOutcomes : disk' = r.disk /\ promised' = r.promised
  BY DEF CloseTrace, Quit
<1>2. state' = Cleared /\ openTrace' = NoTrace /\ NoTaskColors
  BY DEF CloseTrace, Quit
<1>3. /\ r.disk \in DiskType /\ r.promised \in PromisedType
      /\ \A f \in Files : r.promised[f].known => r.disk[f].colors = r.promised[f].colors
  BY SaveOutcomesFact DEF IInv
<1> QED BY <1>1, <1>2, <1>3, EndStep

LEMMA CrashStep ==
  ASSUME ConstantsAssumption, IInv, Crash
  PROVE  IInv'
<1>1. state' = Cleared /\ openTrace' = NoTrace /\ NoTaskColors
  BY DEF Crash
<1>2. CASE ~IsOpen
  <2>1. disk' = disk /\ promised' = promised
    BY <1>2 DEF Crash
  <2>2. \A f \in Files : promised[f].known => disk[f].colors = promised[f].colors
    BY <1>2 DEF IInv, PromiseInv
  <2> QED BY <1>1, <2>1, <2>2, EndStep DEF IInv, StateTypeOK
<1>3. CASE IsOpen
  <2>1. /\ openTrace \in Traces /\ state.traceFile \in Traces
        /\ state.stateFile \in Files /\ FileOf[openTrace] \in Files
    BY <1>3 DEF IInv, StateTypeOK, FileInv, IsOpen, StateType, ConstantsAssumption
  <2>2. disk' \in DiskType /\ \A f \in Files \ {state.stateFile} : disk'[f] = disk[f]
    <3>1. CASE disk' = disk
      BY <3>1 DEF IInv, StateTypeOK
    <3>2. CASE disk' \in SaveFails(state, disk)
      BY <2>1, <3>2, SaveFailsFact DEF IInv, StateTypeOK
    <3> QED BY <1>3, <3>1, <3>2 DEF Crash
  <2>3. promised' = [promised EXCEPT ![state.stateFile] = Unknown, ![FileOf[openTrace]] = Unknown]
    BY <1>3 DEF Crash
  <2>4. promised' \in PromisedType
    BY <2>1, <2>3, MapTypes DEF IInv, StateTypeOK, PromisedType
  <2>5. ASSUME NEW f \in Files, promised'[f].known
        PROVE  disk'[f].colors = promised'[f].colors
    <3>1. f # state.stateFile /\ f # FileOf[openTrace]
      BY <2>1, <2>3, <2>5, MapTypes DEF IInv, StateTypeOK, PromisedType
    <3>2. promised'[f] = promised[f] /\ disk'[f] = disk[f]
      BY <2>2, <2>3, <3>1 DEF IInv, StateTypeOK, PromisedType
    <3> QED BY <2>5, <3>1, <3>2 DEF IInv, PromiseInv
  <2> QED BY <1>1, <2>2, <2>4, <2>5, EndStep
<1> QED BY <1>2, <1>3

LEMMA OpenStep ==
  ASSUME ConstantsAssumption, IInv, NEW t \in Traces, NEW ok \in BOOLEAN, OpenFile(t, ok)
  PROVE  IInv'
<1> DEFINE s == IF IsOpen THEN Cleared ELSE state
           l == LoadState(SetTraceFile(s, t), disk')
<1>1. PICK r \in SaveOutcomes : disk' = r.disk /\ LoadTraceFile(t, s, ok) /\ promised' = Promises(t, ok, r.promised)
  BY DEF OpenFile
<1>2. /\ r.disk \in DiskType /\ r.promised \in PromisedType
      /\ \A f \in Files : r.promised[f].known => r.disk[f].colors = r.promised[f].colors
      /\ ~IsOpen => r.disk = disk
  BY SaveOutcomesFact DEF IInv
<1>3. /\ s \in StateType
      /\ s.traceFile = NoTrace => s = Cleared
      /\ s.traceFile # NoTrace => s.stateFile = FileOf[s.traceFile] /\ s.colorMap = disk'[s.stateFile].colors
  <2>1. CASE IsOpen
    BY <2>1, MapTypes DEF Cleared
  <2>2. CASE ~IsOpen
    BY <1>1, <1>2, <2>2 DEF IInv, StateTypeOK, FileInv
  <2> QED BY <2>1, <2>2
<1>4. /\ l \in StateType /\ l.traceFile \in Traces
      /\ l.stateFile = FileOf[l.traceFile] /\ l.colorMap = disk'[l.stateFile].colors
  <2> HIDE DEF s
  <2> QED BY <1>1, <1>2, <1>3, LoadFact
<1>5. state' = l
  BY <1>1 DEF LoadTraceFile
<1> HIDE DEF l, s
<1>6. l.traceFile # NoTrace /\ l.stateFile \in Files /\ FileOf[t] \in Files /\ l.colorMap \in Maps
  BY <1>4 DEF ConstantsAssumption, StateType
<1>7. CASE ~ok
  <2>1. openTrace' = NoTrace /\ NoTaskColors /\ promised' = r.promised
    BY <1>1, <1>7 DEF LoadTraceFile, Promises
  <2>2. ~IsOpen'
    BY <2>1 DEF IsOpen
  <2>3. NoColors \in ColorType
    BY DEF NoColors, ColorType
  <2>4. StateTypeOK'
    BY <1>1, <1>2, <1>4, <1>5, <2>1, <2>3 DEF StateTypeOK, NoTaskColors
  <2>5. FileInv'
    BY <1>4, <1>5, <1>6, <2>2 DEF FileInv
  <2>6. ColorInv' /\ ResetIsOffered' /\ PromiseInv'
    BY <1>1, <1>2, <2>1, <2>2 DEF ColorInv, ResetIsOffered, PromiseInv
  <2> QED BY <2>4, <2>5, <2>6 DEF IInv
<1>8. CASE ok
  <2>1. /\ openTrace' = t /\ ColorizeTasks(t, l.colorMap)
        /\ resetEnabled' = \E p \in Pids : HasUserColor(t, l.colorMap, p)
    BY <1>1, <1>8 DEF LoadTraceFile, l
  <2>2. IsOpen' /\ Ran[t] \subseteq Pids
    BY <2>1 DEF IsOpen, ConstantsAssumption
  <2>3. taskColor' \in ColorType /\ origColor' \in ColorType
    BY <1>6, <2>1 DEF ColorizeTasks, ColorType, Maps
  <2>4. promised' \in PromisedType
    <3>1. Promise(l.colorMap) \in [known : BOOLEAN, colors : Maps] /\ Unknown \in [known : BOOLEAN, colors : Maps]
      BY <1>6, MapTypes
    <3> QED BY <1>1, <1>2, <1>5, <1>6, <1>8, <3>1 DEF Promises, PromisedType
  <2>5. StateTypeOK'
    BY <1>1, <1>2, <1>4, <1>5, <2>1, <2>3, <2>4 DEF StateTypeOK
  <2>6. FileInv'
    BY <1>4, <1>5, <1>6, <2>2 DEF FileInv
  <2>7. ColorInv'
    <3>1. ASSUME NEW p \in Ran[t]
          PROVE  IF l.colorMap[p] = NoColor THEN origColor'[p] = NoColor /\ taskColor'[p] = Random
                 ELSE origColor'[p] = Random /\ taskColor'[p] = l.colorMap[p]
      <4>1. p \in Pids
        BY <2>2
      <4> QED BY <2>1, <3>1, <4>1 DEF ColorizeTasks, HasUserColor
    <3> QED BY <1>5, <2>1, <3>1 DEF ColorInv
  <2>8. ResetIsOffered'
    BY <1>5, <2>1, <2>2 DEF ResetIsOffered, HasUserColor
  <2>9. PromiseInv'
    <3>1. ASSUME NEW f \in Files, promised'[f].known
          PROVE  IF l.traceFile = t /\ f = FileOf[t]
                 THEN l.colorMap = promised'[f].colors /\ (l.colorMap = NoColors => disk'[f].colors = NoColors)
                 ELSE disk'[f].colors = promised'[f].colors /\ f # FileOf[t] /\ f # l.stateFile
      <4>1. CASE l.traceFile # t
        <5>1. promised' = [r.promised EXCEPT ![FileOf[t]] = Unknown, ![l.stateFile] = Unknown]
          BY <1>1, <1>5, <1>8, <4>1 DEF Promises
        <5>2. f # FileOf[t] /\ f # l.stateFile
          BY <1>2, <1>6, <3>1, <5>1, MapTypes DEF PromisedType
        <5>3. promised'[f] = r.promised[f]
          BY <1>2, <5>1, <5>2 DEF PromisedType
        <5> QED BY <1>1, <1>2, <3>1, <4>1, <5>2, <5>3
      <4>2. CASE l.traceFile = t /\ r.promised[FileOf[t]].known
        <5>1. promised' = r.promised
          BY <1>1, <1>5, <1>8, <4>2 DEF Promises
        <5> QED BY <1>1, <1>2, <1>4, <3>1, <4>2, <5>1
      <4>3. CASE l.traceFile = t /\ ~r.promised[FileOf[t]].known
        <5>1. promised' = [r.promised EXCEPT ![FileOf[t]] = Promise(l.colorMap)]
          BY <1>1, <1>5, <1>8, <4>3 DEF Promises
        <5>2. CASE f = FileOf[t]
          <6>1. promised'[f] = Promise(l.colorMap)
            BY <1>2, <5>1, <5>2 DEF PromisedType
          <6> QED BY <1>4, <1>6, <4>3, <5>2, <6>1, MapTypes
        <5>3. CASE f # FileOf[t]
          <6>1. promised'[f] = r.promised[f]
            BY <1>2, <5>1, <5>3 DEF PromisedType
          <6> QED BY <1>1, <1>2, <1>4, <3>1, <4>3, <5>3, <6>1
        <5> QED BY <5>2, <5>3
      <4> QED BY <4>1, <4>2, <4>3
    <3> QED BY <1>5, <2>1, <2>2, <3>1 DEF PromiseInv, Own, NothingToSave
  <2> QED BY <2>5, <2>6, <2>7, <2>8, <2>9 DEF IInv
<1> QED BY <1>7, <1>8
LEMMA ColorTaskStep ==
  ASSUME ConstantsAssumption, IInv, NEW p \in Pids, NEW c \in Colors, ColorTask(p, c)
  PROVE  IInv'
<1> DEFINE map == [state.colorMap EXCEPT ![p] = c]
<1>1. /\ IsOpen /\ openTrace \in Traces /\ state.traceFile \in Traces
      /\ state.stateFile = FileOf[state.traceFile] /\ state.colorMap \in Maps
      /\ Ran[openTrace] \subseteq Pids /\ FileOf[openTrace] \in Files
  BY DEF ColorTask, IInv, StateTypeOK, FileInv, IsOpen, StateType, ConstantsAssumption
<1>2. c # NoColor /\ Random # NoColor
  BY DEF ConstantsAssumption
<1>3. map \in Maps /\ map # NoColors
  <2>1. map[p] = c /\ NoColors[p] = NoColor
    BY <1>1 DEF Maps, NoColors
  <2>2. map \in Maps
    BY <1>1 DEF Maps
  <2> QED BY <1>2, <2>1, <2>2
<1>4. state' = [state EXCEPT !.colorMap = map]
  BY DEF ColorTask
<1> HIDE DEF map
<1>5. /\ state' \in StateType /\ state'.colorMap = map
      /\ state'.traceFile = state.traceFile /\ state'.stateFile = state.stateFile
  BY <1>3, <1>4 DEF IInv, StateTypeOK, StateType
<1>6. disk' = disk /\ openTrace' = openTrace /\ resetEnabled' = TRUE
  BY DEF ColorTask
<1>7. taskColor' = [taskColor EXCEPT ![p] = c] /\ taskColor' \in ColorType
  BY DEF ColorTask, IInv, StateTypeOK, ColorType
<1>8. origColor' \in ColorType
  BY DEF ColorTask, SetOrigColor, IInv, StateTypeOK, ColorType
<1>9. promised' = IF promised[FileOf[openTrace]].known
                  THEN [promised EXCEPT ![FileOf[openTrace]].colors[p] = c] ELSE promised
  BY DEF ColorTask
<1>10. ASSUME NEW f \in Files
       PROVE  /\ promised'[f].known = promised[f].known
              /\ promised'[f] \in [known : BOOLEAN, colors : Maps]
              /\ f = FileOf[openTrace] /\ promised[f].known => promised'[f].colors = [promised[f].colors EXCEPT ![p] = c]
              /\ f # FileOf[openTrace] \/ ~promised[f].known => promised'[f] = promised[f]
  <2>1. promised[f] \in [known : BOOLEAN, colors : Maps] /\ DOMAIN promised = Files
    BY DEF IInv, StateTypeOK, PromisedType
  <2>2. CASE f = FileOf[openTrace] /\ promised[f].known
    <3>1. promised'[f] = [promised[f] EXCEPT !.colors[p] = c]
      BY <1>9, <2>1, <2>2
    <3>2. [promised[f].colors EXCEPT ![p] = c] \in Maps
      BY <2>1 DEF Maps
    <3> QED BY <2>1, <2>2, <3>1, <3>2
  <2>3. CASE ~(f = FileOf[openTrace] /\ promised[f].known)
    <3>1. promised'[f] = promised[f]
      BY <1>9, <2>1, <2>3
    <3> QED BY <2>1, <2>3, <3>1
  <2> QED BY <2>2, <2>3
<1>11. promised' \in PromisedType
  <2>1. DOMAIN promised' = Files /\ promised' = [f \in Files |-> promised'[f]]
    BY <1>9 DEF IInv, StateTypeOK, PromisedType
  <2> QED BY <1>10, <2>1 DEF PromisedType
<1>12. StateTypeOK'
  BY <1>5, <1>6, <1>7, <1>8, <1>11 DEF IInv, StateTypeOK
<1>13. IsOpen' /\ FileInv'
  BY <1>1, <1>5, <1>6 DEF IInv, FileInv, IsOpen, ConstantsAssumption
<1>14. ColorInv'
  <2>1. ASSUME NEW q \in Ran[openTrace]
        PROVE  IF map[q] = NoColor THEN origColor'[q] = NoColor /\ taskColor'[q] = Random
               ELSE origColor'[q] = Random /\ taskColor'[q] = map[q]
    <3>1. q \in Pids /\ map[q] = IF q = p THEN c ELSE state.colorMap[q]
      BY <1>1 DEF Maps, map
    <3>2. taskColor'[q] = IF q = p THEN c ELSE taskColor[q]
      BY <1>7, <3>1 DEF IInv, StateTypeOK, ColorType
    <3>3. IF state.colorMap[q] = NoColor THEN origColor[q] = NoColor /\ taskColor[q] = Random
          ELSE origColor[q] = Random /\ taskColor[q] = state.colorMap[q]
      BY <1>1 DEF IInv, ColorInv
    <3>4. CASE q # p
      <4>1. origColor'[q] = origColor[q]
        BY <3>1, <3>4 DEF ColorTask, SetOrigColor, IInv, StateTypeOK, ColorType
      <4> QED BY <3>1, <3>2, <3>3, <3>4, <4>1
    <3>5. CASE q = p
      <4>1. CASE state.colorMap[q] = NoColor
        <5>1. origColor[p] = NoColor /\ taskColor[p] = Random
          BY <3>3, <3>5, <4>1
        <5>2. origColor' = [origColor EXCEPT ![p] = Random]
          BY <1>2, <5>1 DEF ColorTask, SetOrigColor
        <5> QED BY <1>2, <3>1, <3>2, <3>5, <5>2 DEF IInv, StateTypeOK, ColorType
      <4>2. CASE state.colorMap[q] # NoColor
        <5>1. origColor[p] = Random
          BY <3>3, <3>5, <4>2
        <5>2. origColor' = origColor
          BY <1>2, <5>1 DEF ColorTask, SetOrigColor
        <5> QED BY <1>2, <3>1, <3>2, <3>5, <5>1, <5>2
      <4> QED BY <4>1, <4>2
    <3> QED BY <3>4, <3>5
  <2> QED BY <1>5, <1>6, <2>1 DEF ColorInv
<1>15. ResetIsOffered'
  BY <1>6 DEF ResetIsOffered
<1>16. PromiseInv'
  <2>1. ASSUME NEW f \in Files, promised'[f].known
        PROVE  IF Own /\ f = FileOf[openTrace]
               THEN map = promised'[f].colors
               ELSE disk[f].colors = promised'[f].colors /\ f # FileOf[openTrace] /\ f # state.stateFile
    <3>1. promised[f].known
      BY <1>10, <2>1
    <3>2. CASE Own /\ f = FileOf[openTrace]
      BY <1>1, <1>10, <3>1, <3>2 DEF IInv, PromiseInv, map
    <3>3. CASE ~(Own /\ f = FileOf[openTrace])
      <4>1. disk[f].colors = promised[f].colors /\ f # FileOf[openTrace] /\ f # state.stateFile
        BY <1>1, <3>1, <3>3 DEF IInv, PromiseInv
      <4> QED BY <1>10, <3>3, <4>1
    <3> QED BY <3>2, <3>3
  <2> QED BY <1>1, <1>3, <1>5, <1>6, <2>1 DEF PromiseInv, Own, NothingToSave, IsOpen
<1> QED BY <1>12, <1>13, <1>14, <1>15, <1>16 DEF IInv

LEMMA ResetStep ==
  ASSUME ConstantsAssumption, IInv, ResetTaskColors
  PROVE  IInv'
<1>1. /\ IsOpen /\ openTrace \in Traces /\ state.traceFile \in Traces
      /\ state.stateFile = FileOf[state.traceFile] /\ state.stateFile \in Files
      /\ Ran[openTrace] \subseteq Pids /\ FileOf[openTrace] \in Files
  BY DEF ResetTaskColors, IInv, StateTypeOK, FileInv, IsOpen, StateType, ConstantsAssumption
<1>2. Random # NoColor
  BY DEF ConstantsAssumption
<1>3. state' = [state EXCEPT !.colorMap = NoColors] /\ openTrace' = openTrace /\ resetEnabled' = FALSE
  BY DEF ResetTaskColors
<1>4. /\ state' \in StateType /\ state'.colorMap = NoColors
      /\ state'.traceFile = state.traceFile /\ state'.stateFile = state.stateFile
  BY <1>3, MapTypes DEF IInv, StateTypeOK, StateType
<1>5. /\ taskColor' = [p \in Pids |-> IF origColor[p] # NoColor THEN origColor[p] ELSE taskColor[p]]
      /\ origColor' = NoColors
  BY DEF ResetTaskColors
<1>6. taskColor' \in ColorType /\ origColor' \in ColorType
  <2>1. NoColors \in ColorType
    BY DEF NoColors, ColorType
  <2> QED BY <1>5, <2>1 DEF IInv, StateTypeOK, ColorType
<1>7. ASSUME disk' = [disk EXCEPT ![state.stateFile] = Absent],
             promised' = IF Own THEN [promised EXCEPT ![state.stateFile] = Promise(NoColors)] ELSE promised
      PROVE  disk' \in DiskType /\ promised' \in PromisedType /\ PromiseInv'
  <2>1. disk' \in DiskType /\ promised' \in PromisedType
    BY <1>1, <1>7, MapTypes DEF IInv, StateTypeOK, DiskType, PromisedType
  <2>2. ASSUME NEW f \in Files, promised'[f].known
        PROVE  IF Own /\ f = FileOf[openTrace]
               THEN NoColors = promised'[f].colors /\ disk'[f].colors = NoColors
               ELSE disk'[f].colors = promised'[f].colors /\ f # FileOf[openTrace] /\ f # state.stateFile
    <3>1. CASE Own /\ f = FileOf[openTrace]
      <4>1. f = state.stateFile
        BY <1>1, <3>1 DEF Own
      <4>2. promised'[f] = Promise(NoColors) /\ disk'[f] = Absent
        BY <1>7, <3>1, <4>1 DEF IInv, StateTypeOK, DiskType, PromisedType
      <4> QED BY <3>1, <4>2, MapTypes
    <3>2. CASE Own /\ f # FileOf[openTrace]
      <4>1. f # state.stateFile
        BY <1>1, <3>2 DEF Own
      <4>2. promised'[f] = promised[f] /\ disk'[f] = disk[f]
        BY <1>7, <3>2, <4>1 DEF IInv, StateTypeOK, DiskType, PromisedType
      <4> QED BY <2>2, <3>2, <4>1, <4>2 DEF IInv, PromiseInv
    <3>3. CASE ~Own
      <4>1. promised' = promised
        BY <1>7, <3>3
      <4>2. disk[f].colors = promised[f].colors /\ f # FileOf[openTrace] /\ f # state.stateFile
        BY <1>1, <2>2, <3>3, <4>1 DEF IInv, PromiseInv
      <4>3. disk'[f] = disk[f]
        BY <1>7, <4>2 DEF IInv, StateTypeOK, DiskType
      <4> QED BY <3>3, <4>1, <4>2, <4>3
    <3> QED BY <3>1, <3>2, <3>3
  <2>3. PromiseInv'
    BY <1>1, <1>3, <1>4, <2>2 DEF PromiseInv, Own, NothingToSave, IsOpen
  <2> QED BY <2>1, <2>3
<1>8. ASSUME disk' = disk, promised' = [promised EXCEPT ![state.stateFile] = Unknown]
      PROVE  disk' \in DiskType /\ promised' \in PromisedType /\ PromiseInv'
  <2>1. disk' \in DiskType /\ promised' \in PromisedType
    BY <1>1, <1>8, MapTypes DEF IInv, StateTypeOK, DiskType, PromisedType
  <2>2. ASSUME NEW f \in Files, promised'[f].known
        PROVE  ~(Own /\ f = FileOf[openTrace])
               /\ disk'[f].colors = promised'[f].colors /\ f # FileOf[openTrace] /\ f # state.stateFile
    <3>1. f # state.stateFile
      BY <1>1, <1>8, <2>2, MapTypes DEF IInv, StateTypeOK, PromisedType
    <3>2. promised'[f] = promised[f]
      BY <1>8, <3>1 DEF IInv, StateTypeOK, PromisedType
    <3>3. ~(Own /\ f = FileOf[openTrace])
      BY <1>1, <3>1 DEF Own
    <3> QED BY <1>1, <1>8, <2>2, <3>2, <3>3 DEF IInv, PromiseInv
  <2>3. PromiseInv'
    BY <1>1, <1>3, <1>4, <2>2 DEF PromiseInv, Own, NothingToSave, IsOpen
  <2> QED BY <2>1, <2>3
<1>9. disk' \in DiskType /\ promised' \in PromisedType /\ PromiseInv'
  BY <1>7, <1>8 DEF ResetTaskColors
<1>10. StateTypeOK'
  BY <1>3, <1>4, <1>6, <1>9 DEF IInv, StateTypeOK
<1>11. IsOpen' /\ FileInv'
  BY <1>1, <1>3, <1>4 DEF IInv, FileInv, IsOpen, ConstantsAssumption
<1>12. ColorInv'
  <2>1. ASSUME NEW q \in Ran[openTrace]
        PROVE  NoColors[q] = NoColor /\ origColor'[q] = NoColor /\ taskColor'[q] = Random
    <3>1. q \in Pids
      BY <1>1
    <3>2. (origColor[q] = NoColor /\ taskColor[q] = Random) \/ origColor[q] = Random
      BY <1>1 DEF IInv, ColorInv
    <3> QED BY <1>2, <1>5, <3>1, <3>2 DEF NoColors
  <2> QED BY <1>3, <1>4, <2>1 DEF ColorInv
<1>13. ResetIsOffered'
  <2>1. \A q \in Ran[openTrace] : NoColors[q] = NoColor
    BY <1>1 DEF NoColors
  <2> QED BY <1>3, <1>4, <2>1 DEF ResetIsOffered
<1> QED BY <1>9, <1>10, <1>11, <1>12, <1>13 DEF IInv

-----------------------------------------------------------------------------
(* The theorems.                                                             *)

LEMMA InitIInv == ConstantsAssumption /\ StateInit => IInv
<1> SUFFICES ASSUME ConstantsAssumption, StateInit PROVE IInv
  OBVIOUS
<1>1. ~IsOpen /\ state = Cleared /\ openTrace = NoTrace
  BY DEF StateInit, IsOpen
<1>2. disk \in DiskType
  <2>1. \A c \in Colors : [p \in Pids |-> c] \in Maps
    BY DEF Maps
  <2> QED BY <2>1, MapTypes DEF StateInit, DiskType
<1>3. taskColor \in ColorType /\ origColor \in ColorType
  BY DEF StateInit, NoColors, ColorType
<1>4. promised \in PromisedType /\ \A f \in Files : ~promised[f].known
  BY MapTypes DEF StateInit, PromisedType
<1>5. StateTypeOK
  BY <1>1, <1>2, <1>3, <1>4, MapTypes DEF StateTypeOK
<1>6. FileInv
  BY <1>1 DEF FileInv, Cleared
<1>7. ColorInv /\ ResetIsOffered /\ PromiseInv
  BY <1>1, <1>4 DEF ColorInv, ResetIsOffered, PromiseInv
<1> QED BY <1>5, <1>6, <1>7 DEF IInv

LEMMA StutterIInv == IInv /\ UNCHANGED stateVars => IInv'
BY DEF IInv, stateVars, StateTypeOK, FileInv, ColorInv, ResetIsOffered, PromiseInv, IsOpen, Own

(* IInv is an invariant: together its parts are kept by every step.           *)
THEOREM Inductive == StateSpec => []IInv
<1>1. StateInit => IInv
  BY InitIInv, ConstantsAssumption
<1>2. IInv /\ [StateNext]_stateVars => IInv'
  <2> SUFFICES ASSUME IInv, [StateNext]_stateVars PROVE IInv'
    OBVIOUS
  <2>1. ASSUME NEW t \in Traces, NEW ok \in BOOLEAN, OpenFile(t, ok) PROVE IInv'
    BY <2>1, OpenStep, ConstantsAssumption
  <2>2. CASE CloseTrace \/ Quit
    BY <2>2, CloseOrQuit, ConstantsAssumption
  <2>3. ASSUME NEW p \in Pids, NEW c \in Colors, ColorTask(p, c) PROVE IInv'
    BY <2>3, ColorTaskStep, ConstantsAssumption
  <2>4. CASE ResetTaskColors
    BY <2>4, ResetStep, ConstantsAssumption
  <2>5. CASE Crash
    BY <2>5, CrashStep, ConstantsAssumption
  <2>6. CASE UNCHANGED stateVars
    BY <2>6, StutterIInv
  <2> QED BY <2>1, <2>2, <2>3, <2>4, <2>5, <2>6 DEF StateNext
<1> QED BY <1>1, <1>2, PTL DEF StateSpec

(* A task that ran is drawn in the color the user gave to it, else in its      *)
(* original one (setTaskColor(), resetTaskColors(), colorizeTasks()).         *)
THEOREM DrawnInUserColorCorrect == StateSpec => []DrawnInUserColor
<1>1. IInv => DrawnInUserColor
  BY DEF IInv, ColorInv, DrawnInUserColor
<1> QED BY <1>1, Inductive, PTL

(* What the user saw when a trace was closed is there when it is opened again  *)
(* (saveState(), loadState(), clear()).                                       *)
THEOREM ColorsComeBackCorrect == StateSpec => []ColorsComeBack
<1>1. IInv => ColorsComeBack
  <2> SUFFICES ASSUME IInv, IsOpen, Own, promised[FileOf[openTrace]].known
               PROVE  state.colorMap = promised[FileOf[openTrace]].colors
    BY DEF ColorsComeBack
  <2>1. FileOf[openTrace] \in Files
    BY ConstantsAssumption DEF IInv, StateTypeOK, IsOpen, ConstantsAssumption
  <2> QED BY <2>1 DEF IInv, PromiseInv
<1> QED BY <1>1, Inductive, PTL

(* Colors of the user can be reset (setResetTaskColorEnabled()).              *)
THEOREM ResetIsOfferedCorrect == StateSpec => []ResetIsOffered
<1>1. IInv => ResetIsOffered
  BY DEF IInv
<1> QED BY <1>1, Inductive, PTL
=============================================================================
