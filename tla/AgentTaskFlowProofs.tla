------------------------ MODULE AgentTaskFlowProofs ------------------------
(***************************************************************************)
(* Proofs about AgentTaskFlow: types, what a pull request stands for, and  *)
(* that claims exclude each other in one process, for any number of        *)
(* workers, files and retries.                                             *)
(***************************************************************************)
EXTENDS AgentTaskFlow, TLAPS

Busy(r) == r.pc \in {"claimed", "applied"}

(* What has reached the repository when a worker in the whole flow is at   *)
(* r: the steps before its position, the current one once its effect is    *)
(* there, and the files it has counted.                                    *)
Covered(r, gh, passed) ==
    /\ r.pos > 1 \/ (r.pos = 1 /\ r.pc \in {"applied", "returned"}) =>
          gh.branch
    /\ r.pos > 2 \/ (r.pos = 2 /\ r.pc \in {"applied", "returned"}) =>
          gh.files = 1 .. FileCount
    /\ r.pos = 2 /\ r.pc = "claimed" => 1 .. r.done \subseteq gh.files
    /\ r.pos > 4 \/ (r.pos = 4 /\ r.pc = "returned") => Place(r.mode) \in passed
(* A worker outside the flow does one step and promises nothing.           *)
Reached(r, gh, passed) ==
    /\ r.mode \in FlowModes => Covered(r, gh, passed)
    /\ r.mode \notin FlowModes => r.pos = 1 /\ r.pc # "returned"
    /\ r.pc = "idle" => r = IdleWorker

FlowInv ==
    /\ TypeOK
    /\ PullRequestComplete
    /\ \A w \in Workers : Reached(worker[w], github, validated)
    /\ \A w \in Supervised : worker[w].mode \in {"flow", "none"}

(* Of the workers of one process only the latest that claimed the task     *)
(* holds the object in the store, and no other worker's lease is on it.    *)
ShareInv ==
    /\ \A w \in Workers : worker[w].shared =>
          /\ Busy(worker[w])
          /\ mem[Home[w]].lease \in {w, NoLease}
    /\ \A v, w \in Workers :
          worker[v].shared /\ worker[w].shared /\ Home[v] = Home[w] => v = w

(* The lease of a worker inside a step stands in memory and on disk until  *)
(* it expires or an operator clears it.                                    *)
ClaimInv ==
    \A w \in Workers : Busy(worker[w]) /\ w \notin lapsed =>
        /\ w \in fresh /\ worker[w].shared
        /\ mem[Home[w]].lease = w /\ disk.lease = w

----------------------------------------------------------------------------
(* Types.                                                                  *)

\* Changing a field of a task.
LEMMA TaskType ==
  ASSUME NEW task \in AgentTask
  PROVE  /\ \A s \in AgentTaskStatus \cup {"ABSENT"} : [task EXCEPT !.status = s] \in AgentTask
         /\ \A l \in Workers \cup {NoLease} : [task EXCEPT !.lease = l] \in AgentTask
         /\ AbsentTask \in AgentTask
  <1>1. 0 \in 0 .. MaxRetries
    BY InputAssumption
  <1> QED
    BY <1>1 DEF AgentTask, AbsentTask

\* A worker that does nothing, and the two ways in which a step ends.
LEMMA WorkerType ==
  ASSUME worker \in [Workers -> WorkerRecord], NEW w \in Workers
  PROVE  /\ IdleWorker \in WorkerRecord /\ Failed(w) \in WorkerRecord
         /\ Returned(w) \in WorkerRecord
         /\ ~Busy(IdleWorker) /\ ~Busy(Failed(w)) /\ ~Busy(Returned(w))
         /\ IdleWorker.shared = FALSE /\ Failed(w).shared = FALSE /\ Returned(w).shared = FALSE
  <1>1. worker[w] \in WorkerRecord
    OBVIOUS
  <1>2. 0 \in 0 .. FileCount /\ 0 \in 0 .. MaxRetries
    BY InputAssumption
  <1>3. AbsentTask \in AgentTask
    BY <1>2 DEF AbsentTask, AgentTask, AgentTaskStatus
  <1>4. 1 \in 1 .. 5
    OBVIOUS
  <1>5. /\ IdleWorker \in WorkerRecord /\ ~Busy(IdleWorker) /\ IdleWorker.shared = FALSE
    BY <1>2, <1>3, <1>4 DEF IdleWorker, WorkerRecord, Busy
  <1>6. /\ Failed(w) \in WorkerRecord /\ ~Busy(Failed(w)) /\ Failed(w).shared = FALSE
    <2>1. CASE w \in Supervised
      <3>1. worker[w].pos \in 1 .. 5
        BY <1>1 DEF WorkerRecord
      <3> QED
        BY <2>1, <3>1, <1>2, <1>3 DEF Failed, IdleWorker, WorkerRecord, Modes, FlowModes, Busy
    <2>2. CASE w \notin Supervised
      BY <1>5, <2>2 DEF Failed
    <2> QED
      BY <2>1, <2>2
  <1>7. /\ Returned(w) \in WorkerRecord /\ ~Busy(Returned(w)) /\ Returned(w).shared = FALSE
    <2>1. CASE worker[w].mode \in FlowModes
      BY <1>1, <1>2, <1>3, <2>1 DEF Returned, WorkerRecord, Busy
    <2>2. CASE worker[w].mode \notin FlowModes
      BY <1>5, <2>2 DEF Returned
    <2> QED
      BY <2>1, <2>2
  <1> QED
    BY <1>5, <1>6, <1>7

\* The object of a worker.
LEMMA HeldType ==
  ASSUME TypeOK, NEW w \in Workers
  PROVE  /\ Home[w] \in Procs /\ mem[Home[w]] \in AgentTask
         /\ worker[w] \in WorkerRecord /\ Held(w) \in AgentTask
  <1>1. Home[w] \in Procs
    BY HomeAssumption
  <1>2. mem[Home[w]] \in AgentTask /\ worker[w] \in WorkerRecord
    BY <1>1 DEF TypeOK
  <1>3. worker[w].own \in AgentTask
    BY <1>2 DEF WorkerRecord
  <1> QED
    BY <1>1, <1>2, <1>3 DEF Held

\* The end of a step: what is stored is what was stored before, or the
\* worker's own object without its lease.
LEMMA FinishStep ==
  ASSUME TypeOK, NEW w \in Workers, NEW status \in AgentTaskStatus \cup {"ABSENT"},
         NEW r \in WorkerRecord, Finish(w, status, r)
  PROVE  /\ disk' \in AgentTask /\ mem' \in [Procs -> AgentTask]
         /\ worker' \in [Workers -> WorkerRecord] /\ worker'[w] = r
         /\ \A v \in Workers : v # w => worker'[v] = worker[v]
         /\ disk' = mem'[Home[w]]
         /\ \A p \in Procs : p # Home[w] => mem'[p] = mem[p]
         /\ ~worker[w].shared => mem'[Home[w]] = mem[Home[w]]
         /\ worker[w].shared =>
              mem'[Home[w]].lease = IF mem[Home[w]].lease = w THEN NoLease ELSE mem[Home[w]].lease
         /\ UNCHANGED <<fresh, lapsed>>
  <1> DEFINE changed == [Held(w) EXCEPT !.status = status]
             task == release_task(w, changed)
             stored == IF worker[w].shared THEN task ELSE mem[Home[w]]
  <1>1. /\ mem' = [mem EXCEPT ![Home[w]] = stored] /\ disk' = stored
        /\ worker' = [worker EXCEPT ![w] = r] /\ UNCHANGED <<fresh, lapsed>>
    BY DEF Finish
  <1>2. /\ Home[w] \in Procs /\ mem[Home[w]] \in AgentTask /\ Held(w) \in AgentTask
    BY HeldType
  <1>3. changed \in AgentTask /\ changed.lease = Held(w).lease
    BY <1>2, TaskType DEF AgentTask
  <1>4. /\ task \in AgentTask
        /\ task.lease = IF changed.lease = w THEN NoLease ELSE changed.lease
    <2> HIDE DEF changed
    <2> QED
      BY <1>3, TaskType DEF release_task, AgentTask
  <1>5. worker[w].shared => Held(w) = mem[Home[w]]
    BY DEF Held
  <1> HIDE DEF task, changed
  <1>6. stored \in AgentTask
    BY <1>2, <1>4
  <1>7. /\ ~worker[w].shared => stored = mem[Home[w]]
        /\ worker[w].shared =>
              stored.lease = IF mem[Home[w]].lease = w THEN NoLease ELSE mem[Home[w]].lease
    BY <1>3, <1>4, <1>5
  <1> HIDE DEF stored
  <1> QED
    BY <1>1, <1>2, <1>6, <1>7 DEF TypeOK

\* The workers after a claim of w.
LEMMA ReplacedType ==
  ASSUME TypeOK, NEW w \in Workers, NEW r \in WorkerRecord
  PROVE  /\ Replaced(w, r) \in [Workers -> WorkerRecord] /\ Replaced(w, r)[w] = r
         /\ \A v \in Workers : v # w =>
              /\ Replaced(w, r)[v].pc = worker[v].pc /\ Replaced(w, r)[v].mode = worker[v].mode
              /\ Replaced(w, r)[v].pos = worker[v].pos /\ Replaced(w, r)[v].done = worker[v].done
              /\ Replaced(w, r)[v].shared => worker[v].shared /\ Home[v] # Home[w]
              /\ ~worker[v].shared => Replaced(w, r)[v] = worker[v]
              /\ Home[v] # Home[w] => Replaced(w, r)[v] = worker[v]
  <1>1. mem[Home[w]] \in AgentTask
    BY HeldType
  <1>2. ASSUME NEW v \in Workers, v # w
        PROVE  /\ Replaced(w, r)[v] \in WorkerRecord
               /\ Replaced(w, r)[v].pc = worker[v].pc /\ Replaced(w, r)[v].mode = worker[v].mode
               /\ Replaced(w, r)[v].pos = worker[v].pos /\ Replaced(w, r)[v].done = worker[v].done
               /\ Replaced(w, r)[v].shared => worker[v].shared /\ Home[v] # Home[w]
               /\ ~worker[v].shared => Replaced(w, r)[v] = worker[v]
               /\ Home[v] # Home[w] => Replaced(w, r)[v] = worker[v]
    <2>1. worker[v] \in WorkerRecord
      BY DEF TypeOK
    <2>2. CASE Home[v] = Home[w] /\ worker[v].shared
      <3> DEFINE x == [worker[v] EXCEPT !.shared = FALSE, !.own = mem[Home[w]]]
      <3>1. Replaced(w, r)[v] = x
        BY <1>2, <2>2 DEF Replaced
      <3>2. /\ x \in WorkerRecord /\ x.shared = FALSE /\ x.pc = worker[v].pc
            /\ x.mode = worker[v].mode /\ x.pos = worker[v].pos /\ x.done = worker[v].done
        BY <1>1, <2>1 DEF WorkerRecord
      <3> HIDE DEF x
      <3> QED
        BY <2>2, <3>1, <3>2
    <2>3. CASE ~(Home[v] = Home[w] /\ worker[v].shared)
      <3>1. Replaced(w, r)[v] = worker[v]
        BY <1>2, <2>3 DEF Replaced
      <3> QED
        BY <2>1, <2>3, <3>1
    <2> QED
      BY <2>2, <2>3
  <1>3. Replaced(w, r)[w] = r
    BY DEF Replaced
  <1>4. Replaced(w, r) = [v \in Workers |-> Replaced(w, r)[v]]
    BY DEF Replaced
  <1>5. \A v \in Workers : Replaced(w, r)[v] \in WorkerRecord
    BY <1>2, <1>3
  <1> QED
    BY <1>2, <1>3, <1>4, <1>5

\* Where in the flow a step is, or the script it is run by.
LEMMA StepPlace ==
  ASSUME NEW w \in Workers, worker[w] \in WorkerRecord, worker[w].mode \in FlowModes
  PROVE  /\ Step(w) = "branch" => worker[w].pos = 1
         /\ Step(w) = "files" => worker[w].pos = 2
         /\ Step(w) = "workspace" => worker[w].pos = 3
         /\ Step(w) = "validate" => worker[w].pos = 4
         /\ Step(w) = "pr" => worker[w].pos = 5
  <1>1. worker[w].pos \in {1, 2, 3, 4, 5}
    BY DEF WorkerRecord
  <1>2. /\ FlowSteps[1] = "branch" /\ FlowSteps[2] = "files" /\ FlowSteps[3] = "workspace"
        /\ FlowSteps[4] = "validate" /\ FlowSteps[5] = "pr"
    BY DEF FlowSteps
  <1> QED
    BY <1>1, <1>2 DEF Step

----------------------------------------------------------------------------
(* The flow.                                                               *)

(* The repository keeps what it has.                                       *)
Grows(gh, new, passed, passedNow) ==
    /\ new \in [branch : BOOLEAN, files : SUBSET (1 .. FileCount), pr : Modes \cup {"none"}]
    /\ gh.branch => new.branch
    /\ gh.files \subseteq new.files
    /\ passed \subseteq passedNow

\* What was reached stays so.
LEMMA ReachedGrows ==
  ASSUME NEW r, NEW gh, NEW new, NEW passed, NEW now,
         Reached(r, gh, passed), Grows(gh, new, passed, now)
  PROVE  Reached(r, new, now)
  BY DEF Reached, Covered, Grows

\* A worker that has given up or has done nothing.
LEMMA ReachedFailed ==
  ASSUME FlowInv, NEW w \in Workers
  PROVE  /\ Reached(IdleWorker, github, validated)
         /\ Reached(Failed(w), github, validated)
  <1>1. Reached(IdleWorker, github, validated)
    BY DEF Reached, IdleWorker, FlowModes
  <1>2. CASE w \in Supervised
    <2>1. /\ Failed(w).mode = "flow" /\ Failed(w).pos = worker[w].pos /\ Failed(w).pc = "ready"
      BY <1>2 DEF Failed, IdleWorker
    <2>2. /\ Reached(worker[w], github, validated) /\ worker[w].pos \in 1 .. 5
          /\ worker[w].mode \in {"flow", "none"}
      <3>1. worker[w] \in WorkerRecord /\ Reached(worker[w], github, validated)
        BY DEF FlowInv, TypeOK
      <3>2. worker[w].mode \in {"flow", "none"}
        BY <1>2 DEF FlowInv
      <3> QED
        BY <3>1, <3>2 DEF WorkerRecord
    <2>3. CASE worker[w].mode = "flow"
      <3>1. Covered(worker[w], github, validated)
        BY <2>2, <2>3 DEF Reached, FlowModes
      <3>2. Covered(Failed(w), github, validated)
        BY <2>1, <2>2, <2>3, <3>1 DEF Covered
      <3> QED
        BY <1>1, <2>1, <3>2 DEF Reached, FlowModes
    <2>4. CASE worker[w].mode = "none"
      BY <1>1, <2>1, <2>2, <2>4 DEF Reached, Covered, FlowModes
    <2> QED
      BY <2>2, <2>3, <2>4
  <1>3. CASE w \notin Supervised
    BY <1>1, <1>3 DEF Failed
  <1> QED
    BY <1>2, <1>3

\* A step of worker w, which puts it at r.
LEMMA OwnFlow ==
  ASSUME FlowInv, disk' \in AgentTask, mem' \in [Procs -> AgentTask], NEW w \in Workers,
         worker' \in [Workers -> WorkerRecord],
         \A v \in Workers : v # w => worker'[v] = worker[v],
         fresh' \subseteq Workers, lapsed' \subseteq Workers, validated' \subseteq Places,
         Grows(github, github', validated, validated'),
         Reached(worker'[w], github', validated'),
         w \in Supervised => worker'[w].mode \in {"flow", "none"},
         \/ github'.pr = github.pr
         \/ /\ github'.branch
            /\ github'.pr \in FlowModes =>
                  github'.files = 1 .. FileCount /\ Place(github'.pr) \in validated'
  PROVE  FlowInv'
  <1>1. TypeOK'
    BY DEF TypeOK, Grows
  <1>2. PullRequestComplete'
    BY DEF FlowInv, PullRequestComplete, Grows
  <1>3. \A v \in Workers : Reached(worker'[v], github', validated')
    BY ReachedGrows DEF FlowInv
  <1>4. \A v \in Supervised : worker'[v].mode \in {"flow", "none"}
    BY HomeAssumption DEF FlowInv
  <1> QED
    BY <1>1, <1>2, <1>3, <1>4 DEF FlowInv

\* Nothing changes in the repository.
LEMMA SameRepository ==
  ASSUME FlowInv, UNCHANGED <<github, validated>>
  PROVE  /\ Grows(github, github', validated, validated') /\ validated' \subseteq Places
         /\ github'.pr = github.pr
  <1>1. /\ github \in [branch : BOOLEAN, files : SUBSET (1 .. FileCount), pr : Modes \cup {"none"}]
        /\ validated \subseteq Places
    BY DEF FlowInv, TypeOK
  <1> QED
    BY <1>1 DEF Grows

\* The operators, the database and the clock.
LEMMA OperatorFlow ==
  ASSUME FlowInv, UNCHANGED <<worker, github, validated>>, disk' \in AgentTask,
         mem' \in [Procs -> AgentTask], fresh' \subseteq Workers, lapsed' \subseteq Workers
  PROVE  FlowInv'
  <1>1. TypeOK'
    BY DEF FlowInv, TypeOK
  <1>2. PullRequestComplete'
    BY DEF FlowInv, PullRequestComplete
  <1>3. \A v \in Workers : Reached(worker'[v], github', validated')
    BY DEF FlowInv
  <1> QED
    BY <1>1, <1>2, <1>3 DEF FlowInv

\* What an operator's request makes of the task: the lease stays or is cleared.
LEMMA OperatorStep ==
  ASSUME TypeOK, Operator
  PROVE  /\ UNCHANGED <<worker, fresh, github, validated>>
         /\ disk' \in AgentTask /\ mem' \in [Procs -> AgentTask] /\ lapsed' \subseteq Workers
         /\ \/ UNCHANGED <<mem, lapsed>> /\ disk' = mem[Api]
            \/ /\ UNCHANGED disk /\ \A p \in Procs : p # Api => mem'[p] = mem[p]
               /\ \/ mem'[Api].lease = mem[Api].lease /\ lapsed' = lapsed
                  \/ /\ mem'[Api].lease = NoLease
                     /\ lapsed' = IF mem[Api].lease \in Workers
                                  THEN lapsed \cup {mem[Api].lease} ELSE lapsed
  <1>1. /\ disk \in AgentTask /\ mem \in [Procs -> AgentTask] /\ lapsed \subseteq Workers
        /\ Api \in Procs /\ mem[Api] \in AgentTask /\ NoLease \notin Workers
    BY HomeAssumption DEF TypeOK
  <1>2. ASSUME NEW task \in AgentTask, task.lease \in {mem[Api].lease, NoLease}, Change(task)
        PROVE  /\ UNCHANGED <<worker, fresh, github, validated, disk>>
               /\ mem' \in [Procs -> AgentTask] /\ lapsed' \subseteq Workers
               /\ \A p \in Procs : p # Api => mem'[p] = mem[p]
               /\ \/ mem'[Api].lease = mem[Api].lease /\ lapsed' = lapsed
                  \/ /\ mem'[Api].lease = NoLease
                     /\ lapsed' = IF mem[Api].lease \in Workers
                                  THEN lapsed \cup {mem[Api].lease} ELSE lapsed
    <2>1. /\ mem' = [mem EXCEPT ![Api] = task] /\ UNCHANGED <<worker, fresh, github, validated, disk>>
          /\ lapsed' = IF mem[Api].lease \in Workers /\ task.lease = NoLease
                       THEN lapsed \cup {mem[Api].lease} ELSE lapsed
      BY <1>2 DEF Change
    <2>2. mem'[Api] = task
      BY <1>1, <2>1
    <2> QED
      BY <1>1, <1>2, <2>1, <2>2
  <1>3. CASE create_agent_task \/ create_external_agent_task
    <2> DEFINE task == [AbsentTask EXCEPT !.status = "RECEIVED"]
    <2>1. Change(task)
      BY <1>3 DEF create_agent_task, create_external_agent_task
    <2>2. AbsentTask \in AgentTask /\ AbsentTask.lease = NoLease
      BY <1>1, TaskType DEF AbsentTask
    <2>3. task \in AgentTask /\ task.lease = NoLease
      BY <2>2 DEF AgentTask, AgentTaskStatus
    <2> HIDE DEF task
    <2> QED
      BY <1>1, <1>2, <2>1, <2>3
  <1>4. CASE create_agent_task_approval
    <2>1. PICK link \in {"open", "blocked"} :
            Change([mem[Api] EXCEPT !.link = link, !.status = "WAITING_FOR_APPROVAL"])
      BY <1>4 DEF create_agent_task_approval
    <2> DEFINE task == [mem[Api] EXCEPT !.link = link, !.status = "WAITING_FOR_APPROVAL"]
    <2>2. task \in AgentTask /\ task.lease = mem[Api].lease
      BY <1>1 DEF AgentTask, AgentTaskStatus
    <2> HIDE DEF task
    <2> QED
      BY <1>1, <1>2, <2>1, <2>2 DEF task
  <1>5. CASE \/ propagate_approval_decision \/ append_agent_task_event
             \/ append_agent_owned_task_event
    <2>1. PICK s \in AgentTaskStatus : Change([mem[Api] EXCEPT !.status = s])
      BY <1>5, EventAssumption
      DEF propagate_approval_decision, append_agent_task_event, append_agent_owned_task_event,
          AgentTaskStatus
    <2> DEFINE task == [mem[Api] EXCEPT !.status = s]
    <2>2. task \in AgentTask /\ task.lease = mem[Api].lease
      BY <1>1 DEF AgentTask
    <2> HIDE DEF task
    <2> QED
      BY <1>1, <1>2, <2>1, <2>2 DEF task
  <1>6. CASE cancel_agent_task
    <2> DEFINE task == [mem[Api] EXCEPT !.status = "CANCELLED", !.lease = NoLease]
    <2>1. Change(task)
      BY <1>6 DEF cancel_agent_task
    <2>2. task \in AgentTask /\ task.lease = NoLease
      BY <1>1 DEF AgentTask, AgentTaskStatus
    <2> HIDE DEF task
    <2> QED
      BY <1>1, <1>2, <2>1, <2>2
  <1>7. CASE retry_agent_task
    <2> DEFINE task == [mem[Api] EXCEPT !.status = "APPROVED", !.lease = NoLease, !.retries = @ + 1]
    <2>1. Change(task) /\ mem[Api].retries < MaxRetries
      BY <1>7 DEF retry_agent_task
    <2>2. mem[Api].retries \in 0 .. MaxRetries /\ MaxRetries \in Nat
      BY <1>1, InputAssumption DEF AgentTask
    <2>3. mem[Api].retries + 1 \in 0 .. MaxRetries
      BY <2>1, <2>2
    <2>4. task \in AgentTask /\ task.lease = NoLease
      BY <1>1, <2>3 DEF AgentTask, AgentTaskStatus
    <2> HIDE DEF task
    <2> QED
      BY <1>1, <1>2, <2>1, <2>4
  <1>8. CASE persist
    BY <1>1, <1>8 DEF persist
  <1> QED
    BY <1>3, <1>4, <1>5, <1>6, <1>7, <1>8 DEF Operator

(* What a step of worker w other than a claim does to the stores and to    *)
(* the object it shares with the one of its process.                       *)
StepEffect(w) ==
    /\ disk' \in AgentTask /\ mem' \in [Procs -> AgentTask]
    /\ worker' \in [Workers -> WorkerRecord]
    /\ \A v \in Workers : v # w => worker'[v] = worker[v]
    /\ UNCHANGED <<fresh, lapsed>>
    /\ worker'[w].shared => worker[w].shared /\ (Busy(worker[w]) => Busy(worker'[w]))
    /\ Busy(worker'[w]) => Busy(worker[w]) /\ worker'[w].shared = worker[w].shared
    /\ \A p \in Procs : p # Home[w] => mem'[p] = mem[p]
    /\ ~worker[w].shared => mem'[Home[w]] = mem[Home[w]]
    /\ \/ mem'[Home[w]].lease = mem[Home[w]].lease
       \/ mem[Home[w]].lease = w /\ mem'[Home[w]].lease = NoLease /\ ~Busy(worker'[w])
    /\ disk' = disk \/ disk' = mem'[Home[w]]

\* A step that changes only the worker.
LEMMA OwnEffect ==
  ASSUME TypeOK, NEW w \in Workers, NEW r \in WorkerRecord, worker' = [worker EXCEPT ![w] = r],
         UNCHANGED <<mem, fresh, lapsed>>, disk' = disk \/ disk' = mem[Home[w]],
         r.shared => worker[w].shared /\ (Busy(worker[w]) => Busy(r)),
         Busy(r) => Busy(worker[w]) /\ r.shared = worker[w].shared
  PROVE  StepEffect(w) /\ worker'[w] = r
  <1>1. mem[Home[w]] \in AgentTask /\ disk \in AgentTask /\ mem \in [Procs -> AgentTask]
        /\ worker \in [Workers -> WorkerRecord]
    BY HeldType DEF TypeOK
  <1>2. /\ worker' \in [Workers -> WorkerRecord] /\ worker'[w] = r
        /\ \A v \in Workers : v # w => worker'[v] = worker[v]
    BY <1>1
  <1> QED
    BY <1>1, <1>2 DEF StepEffect

\* The end of a step that had a claim.
LEMMA FinishEffect ==
  ASSUME TypeOK, NEW w \in Workers, NEW status \in AgentTaskStatus \cup {"ABSENT"},
         NEW r \in {IdleWorker, Failed(w), Returned(w)}, Finish(w, status, r)
  PROVE  StepEffect(w) /\ worker'[w] = r
  <1>1. r \in WorkerRecord /\ ~Busy(r) /\ r.shared = FALSE
    BY WorkerType DEF TypeOK
  <1>2. /\ disk' \in AgentTask /\ mem' \in [Procs -> AgentTask]
        /\ worker' \in [Workers -> WorkerRecord] /\ worker'[w] = r
        /\ \A v \in Workers : v # w => worker'[v] = worker[v]
        /\ disk' = mem'[Home[w]]
        /\ \A p \in Procs : p # Home[w] => mem'[p] = mem[p]
        /\ ~worker[w].shared => mem'[Home[w]] = mem[Home[w]]
        /\ worker[w].shared =>
              mem'[Home[w]].lease = IF mem[Home[w]].lease = w THEN NoLease ELSE mem[Home[w]].lease
        /\ UNCHANGED <<fresh, lapsed>>
    BY <1>1, FinishStep
  <1> QED
    BY <1>1, <1>2 DEF StepEffect

\* Every step of a worker but the claim keeps the flow.
LEMMA WorkerFlow ==
  ASSUME FlowInv, NEW w \in Workers, WorkerStep(w), ~claim_agent_task_for_worker(w)
  PROVE  StepEffect(w) /\ FlowInv'
  <1> DEFINE q == worker[w]
             Tame(r) == w \in Supervised => r.mode \in {"flow", "none"}
  <1>1. /\ TypeOK /\ q \in WorkerRecord /\ Reached(q, github, validated) /\ Held(w) \in AgentTask
        /\ mem[Home[w]] \in AgentTask /\ Home[w] \in Procs
        /\ worker \in [Workers -> WorkerRecord] /\ disk \in AgentTask
        /\ mem \in [Procs -> AgentTask]
        /\ fresh \subseteq Workers /\ lapsed \subseteq Workers /\ validated \subseteq Places
        /\ github \in [branch : BOOLEAN, files : SUBSET (1 .. FileCount), pr : Modes \cup {"none"}]
    BY HeldType DEF FlowInv, TypeOK
  <1>2. /\ IdleWorker \in WorkerRecord /\ Failed(w) \in WorkerRecord /\ Returned(w) \in WorkerRecord
        /\ ~Busy(IdleWorker) /\ ~Busy(Failed(w)) /\ ~Busy(Returned(w))
        /\ IdleWorker.shared = FALSE /\ Failed(w).shared = FALSE /\ Returned(w).shared = FALSE
    BY <1>1, WorkerType
  <1>3. Reached(IdleWorker, github, validated) /\ Reached(Failed(w), github, validated)
    BY ReachedFailed
  <1>4. q.mode \in FlowModes =>
          /\ Step(w) = "branch" => q.pos = 1
          /\ Step(w) = "files" => q.pos = 2
          /\ Step(w) = "workspace" => q.pos = 3
          /\ Step(w) = "validate" => q.pos = 4
          /\ Step(w) = "pr" => q.pos = 5
    BY <1>1, StepPlace
  <1>5. Held(w).status \in AgentTaskStatus \cup {"ABSENT"}
    BY <1>1 DEF AgentTask
  <1>6. /\ q.mode \in FlowModes =>
             Returned(w).pc = "returned" /\ Returned(w).pos = q.pos /\ Returned(w).mode = q.mode
        /\ q.mode \notin FlowModes => Returned(w) = IdleWorker
    BY <1>1 DEF Returned, WorkerRecord
  <1>t. Tame(q) /\ Tame(IdleWorker) /\ Tame(Failed(w)) /\ Tame(Returned(w))
    <2>1. Tame(q) /\ Tame(IdleWorker)
      BY DEF FlowInv, IdleWorker
    <2>2. Tame(Failed(w))
      BY <2>1 DEF Failed, IdleWorker
    <2> QED
      BY <1>6, <2>1, <2>2
  <1> HIDE DEF Tame
  <1>7. ASSUME StepEffect(w), UNCHANGED <<github, validated>>, Tame(worker'[w]),
               Reached(worker'[w], github, validated)
        PROVE  FlowInv'
    <2>1. fresh' \subseteq Workers /\ lapsed' \subseteq Workers
      BY <1>1, <1>7 DEF StepEffect
    <2>2. Reached(worker'[w], github', validated')
      BY <1>7
    <2> QED
      BY <1>7, <2>1, <2>2, SameRepository, OwnFlow DEF StepEffect, Tame
  <1>8. CASE start(w)
    <2>1. PICK m \in Started[w] : worker' = [worker EXCEPT ![w].mode = m, ![w].pc = "ready"]
      BY <1>8 DEF start
    <2>0. m \in Modes /\ (w \in Supervised => m = "flow")
      BY <2>1, ModeAssumption
    <2> DEFINE r == [q EXCEPT !.mode = m, !.pc = "ready"]
    <2>2. /\ r \in WorkerRecord /\ r.mode = m /\ r.pc = "ready" /\ r.pos = q.pos
          /\ r.shared = q.shared /\ q.pc = "idle"
      BY <1>1, <1>8, <2>0 DEF WorkerRecord, start
    <2>3. worker' = [worker EXCEPT ![w] = r]
      BY <2>1
    <2> HIDE DEF r
    <2>4. q.pos = 1 /\ ~Busy(q) /\ ~Busy(r)
      BY <1>1, <2>2 DEF Reached, IdleWorker, Busy
    <2>5. Reached(r, github, validated) /\ Tame(r)
      BY <2>0, <2>2, <2>4 DEF Reached, Covered, Tame
    <2>6. UNCHANGED <<disk, mem, fresh, lapsed, github, validated>>
      BY <1>8 DEF start
    <2> QED
      BY <1>1, <1>7, <2>2, <2>3, <2>4, <2>5, <2>6, OwnEffect
  <1>9. CASE claim_refused(w) \/ step_raised(w)
    <2>1. /\ worker' = [worker EXCEPT ![w] = Failed(w)]
          /\ UNCHANGED <<mem, fresh, lapsed, github, validated>>
          /\ disk' = disk \/ disk' = mem[Home[w]]
      BY <1>9 DEF claim_refused, step_raised
    <2> QED
      BY <1>1, <1>2, <1>3, <1>7, <1>t, <2>1, OwnEffect
  <1>10. CASE prepare_workspace(w)
    <2>1. /\ \/ worker' = [worker EXCEPT ![w] = Failed(w)]
             \/ worker' = [worker EXCEPT ![w] = Returned(w)]
          /\ UNCHANGED <<mem, fresh, lapsed, github, validated>>
          /\ disk' = disk \/ disk' = mem[Home[w]]
          /\ q.pc = "ready" /\ Step(w) = "workspace"
      BY <1>10 DEF prepare_workspace
    <2>2. Reached(Returned(w), github, validated)
      BY <1>1, <1>3, <1>4, <1>6, <2>1 DEF Reached, Covered
    <2> QED
      BY <1>1, <1>2, <1>3, <1>7, <1>t, <2>1, <2>2, OwnEffect
  <1>11. CASE next_step(w)
    <2> DEFINE r == [q EXCEPT !.pos = @ + 1, !.pc = "ready"]
    <2>1. /\ \/ q.pos = 5 /\ worker' = [worker EXCEPT ![w] = IdleWorker]
             \/ q.pos # 5 /\ worker' = [worker EXCEPT ![w] = r]
          /\ UNCHANGED <<mem, fresh, lapsed, github, validated>>
          /\ disk' = disk \/ disk' = mem[Home[w]]
          /\ q.pc = "returned"
      BY <1>1, <1>11 DEF next_step
    <2>2. q.pos \in 1 .. 5
      BY <1>1 DEF WorkerRecord
    <2>3. q.pos # 5 => q.pos + 1 \in 1 .. 5
      BY <2>2
    <2>4. q.pos # 5 => /\ r \in WorkerRecord /\ r.pos = q.pos + 1 /\ r.pc = "ready"
                       /\ r.mode = q.mode /\ r.shared = q.shared
      BY <1>1, <2>3 DEF WorkerRecord
    <2> HIDE DEF r
    <2>5. q.pos # 5 => Reached(r, github, validated) /\ Tame(r)
      BY <1>1, <1>t, <2>1, <2>2, <2>4 DEF Reached, Covered, Tame
    <2>6. ~Busy(q) /\ (q.pos # 5 => ~Busy(r))
      BY <2>1, <2>4 DEF Busy
    <2> QED
      BY <1>1, <1>2, <1>3, <1>7, <1>t, <2>1, <2>4, <2>5, <2>6, OwnEffect
  <1>12. CASE create_branch(w) \/ create_pull_request(w)
    <2> DEFINE r == [q EXCEPT !.pc = "applied"]
    <2>1. /\ worker' = [worker EXCEPT ![w] = r] /\ q.pc = "claimed"
          /\ UNCHANGED <<disk, mem, fresh, lapsed, validated>>
          /\ \/ Step(w) = "branch" /\ github' = [github EXCEPT !.branch = TRUE]
             \/ /\ Step(w) = "pr" /\ github' = [github EXCEPT !.pr = q.mode]
                /\ github.branch
      BY <1>12 DEF create_branch, create_pull_request
    <2>2. /\ r \in WorkerRecord /\ r.pc = "applied" /\ r.pos = q.pos /\ r.mode = q.mode
          /\ r.shared = q.shared /\ q.mode \in Modes \cup {"none"}
      BY <1>1 DEF WorkerRecord
    <2> HIDE DEF r
    <2>3. /\ github' \in [branch : BOOLEAN, files : SUBSET (1 .. FileCount), pr : Modes \cup {"none"}]
          /\ github'.files = github.files /\ github'.branch
          /\ github'.pr = github.pr \/ (Step(w) = "pr" /\ github'.pr = q.mode)
      BY <1>1, <2>1, <2>2
    <2>4. StepEffect(w) /\ worker'[w] = r /\ Tame(r)
      BY <1>1, <1>t, <2>1, <2>2, OwnEffect DEF Busy, Tame
    <2>5. Grows(github, github', validated, validated')
      BY <2>1, <2>3 DEF Grows
    <2>6. q.mode \in FlowModes => Covered(q, github, validated)
      BY <1>1 DEF Reached
    <2>7. q.mode \in FlowModes /\ Step(w) = "pr" =>
             github.files = 1 .. FileCount /\ Place(q.mode) \in validated
      BY <1>4, <2>6 DEF Covered
    <2>8. Reached(r, github', validated')
      <3>1. CASE q.mode \in FlowModes
        <4>1. q.pos \in {1, 5}
          BY <1>4, <2>1, <3>1
        <4>2. q.pos = 5 => github.files = 1 .. FileCount /\ Place(q.mode) \in validated
          BY <2>6, <3>1 DEF Covered
        <4>3. Covered(r, github', validated')
          BY <2>1, <2>2, <2>3, <4>1, <4>2 DEF Covered
        <4> QED
          BY <2>2, <3>1, <4>3 DEF Reached
      <3>2. CASE q.mode \notin FlowModes
        BY <1>1, <2>2, <3>2 DEF Reached
      <3> QED
        BY <3>1, <3>2
    <2>9. \/ github'.pr = github.pr
          \/ /\ github'.branch
             /\ github'.pr \in FlowModes =>
                   github'.files = 1 .. FileCount /\ Place(github'.pr) \in validated'
      BY <2>1, <2>3, <2>7
    <2> QED
      BY <1>1, <2>1, <2>4, <2>5, <2>8, <2>9, OwnFlow DEF StepEffect, Tame
  <1>13. CASE apply_file_change(w)
    <2> DEFINE i == q.done + 1
               r == [q EXCEPT !.done = i, !.pc = IF i = FileCount THEN "applied" ELSE "claimed"]
    <2>1. /\ worker' = [worker EXCEPT ![w] = r] /\ q.pc = "claimed" /\ Step(w) = "files"
          /\ UNCHANGED <<disk, mem, fresh, lapsed, validated>> /\ i <= FileCount
          /\ github' = [github EXCEPT !.files = @ \cup {i}]
      BY <1>13 DEF apply_file_change
    <2>2. q.done \in 0 .. FileCount /\ FileCount \in Nat
      BY <1>1, InputAssumption DEF WorkerRecord
    <2>3. i \in 1 .. FileCount /\ i \in 0 .. FileCount
      BY <2>1, <2>2
    <2>4. /\ r \in WorkerRecord /\ r.pc = IF i = FileCount THEN "applied" ELSE "claimed"
          /\ r.done = i /\ r.pos = q.pos /\ r.mode = q.mode /\ r.shared = q.shared
      <3> HIDE DEF i
      <3> QED
        BY <1>1, <2>3 DEF WorkerRecord
    <2> HIDE DEF r
    <2>5. StepEffect(w) /\ worker'[w] = r /\ Tame(r)
      BY <1>1, <1>t, <2>1, <2>4, OwnEffect DEF Busy, Tame
    <2>6. /\ github'.files = github.files \cup {i} /\ github'.branch = github.branch
          /\ github'.pr = github.pr
          /\ github' \in [branch : BOOLEAN, files : SUBSET (1 .. FileCount), pr : Modes \cup {"none"}]
      BY <1>1, <2>1, <2>3
    <2>7. ASSUME q.mode \in FlowModes
          PROVE  1 .. i \subseteq github'.files /\ github'.files \subseteq 1 .. FileCount
      <3>1. 1 .. q.done \subseteq github.files
        BY <1>1, <1>4, <2>1, <2>7 DEF Reached, Covered
      <3>2. \A j \in 1 .. i : j \in 1 .. q.done \/ j = i
        BY <2>2
      <3> QED
        BY <2>6, <3>1, <3>2
    <2> HIDE DEF i
    <2>8. Grows(github, github', validated, validated')
      BY <2>1, <2>6 DEF Grows
    <2>9. CASE q.mode \in FlowModes
      <3>1. r.pos = 2 /\ r.mode \in FlowModes /\ github'.branch
        BY <1>1, <1>4, <2>1, <2>4, <2>6, <2>9 DEF Reached, Covered
      <3>2. r.pc = "applied" => github'.files = 1 .. FileCount
        BY <2>4, <2>7, <2>9
      <3>3. Reached(r, github', validated')
        BY <2>4, <2>7, <2>9, <3>1, <3>2 DEF Reached, Covered
      <3> QED
        BY <1>1, <2>1, <2>5, <2>6, <2>8, <3>3, OwnFlow DEF StepEffect, Tame
    <2>10. CASE q.mode \notin FlowModes
      <3>1. Reached(r, github', validated')
        BY <1>1, <2>4, <2>10 DEF Reached
      <3> QED
        BY <1>1, <2>1, <2>5, <2>6, <2>8, <3>1, OwnFlow DEF StepEffect, Tame
    <2> QED
      BY <2>9, <2>10
  <1>14. CASE start_validation(w)
    <2>1. /\ q.pc = "claimed" /\ Step(w) = "validate"
          /\ UNCHANGED <<disk, fresh, lapsed, github, validated>>
      BY <1>14 DEF start_validation
    <2>2. "TESTING" \in AgentTaskStatus
      BY DEF AgentTaskStatus
    <2>3. CASE q.shared
      <3> DEFINE r == [q EXCEPT !.pc = "applied"]
                 task == [mem[Home[w]] EXCEPT !.status = "TESTING"]
      <3>1. worker' = [worker EXCEPT ![w] = r] /\ mem' = [mem EXCEPT ![Home[w]] = task]
        BY <1>14, <2>3 DEF start_validation
      <3>2. /\ r \in WorkerRecord /\ r.pc = "applied" /\ r.pos = q.pos /\ r.mode = q.mode
            /\ r.shared = q.shared
        BY <1>1 DEF WorkerRecord
      <3>3. task \in AgentTask /\ task.lease = mem[Home[w]].lease
        BY <1>1, <2>2 DEF AgentTask
      <3> HIDE DEF r, task
      <3>4. /\ mem' \in [Procs -> AgentTask] /\ mem'[Home[w]] = task
            /\ \A p \in Procs : p # Home[w] => mem'[p] = mem[p]
            /\ worker' \in [Workers -> WorkerRecord] /\ worker'[w] = r
            /\ \A v \in Workers : v # w => worker'[v] = worker[v]
        BY <1>1, <3>1, <3>2, <3>3
      <3>5. StepEffect(w)
        BY <1>1, <2>1, <2>3, <3>2, <3>3, <3>4 DEF StepEffect, Busy
      <3>6. Reached(r, github, validated) /\ Tame(r)
        BY <1>1, <1>4, <1>t, <2>1, <3>2 DEF Reached, Covered, Tame
      <3> QED
        BY <1>7, <2>1, <3>4, <3>5, <3>6
    <2>4. CASE ~q.shared
      <3> DEFINE r == [q EXCEPT !.pc = "applied", !.own.status = "TESTING"]
      <3>1. worker' = [worker EXCEPT ![w] = r] /\ UNCHANGED mem
        BY <1>14, <2>4 DEF start_validation
      <3>2. q.own \in AgentTask
        BY <1>1 DEF WorkerRecord
      <3>3. [q.own EXCEPT !.status = "TESTING"] \in AgentTask
        BY <2>2, <3>2 DEF AgentTask
      <3>4. /\ r \in WorkerRecord /\ r.pc = "applied" /\ r.pos = q.pos /\ r.mode = q.mode
            /\ r.shared = q.shared
        BY <1>1, <3>3 DEF WorkerRecord
      <3> HIDE DEF r
      <3>5. StepEffect(w) /\ worker'[w] = r
        BY <1>1, <2>1, <3>1, <3>4, OwnEffect DEF Busy
      <3>6. Reached(r, github, validated) /\ Tame(r)
        BY <1>1, <1>4, <1>t, <2>1, <3>4 DEF Reached, Covered, Tame
      <3> QED
        BY <1>7, <2>1, <3>5, <3>6
    <2> QED
      BY <2>3, <2>4
  <1>15. CASE finish_branch(w) \/ finish_files(w) \/ finish_pull_request(w)
    <2>1. PICK s \in AgentTaskStatus \cup {"ABSENT"} : Finish(w, s, Returned(w))
      BY <1>5, <1>15 DEF finish_branch, finish_files, finish_pull_request, AgentTaskStatus
    <2>2. /\ q.pc = "applied" /\ Step(w) \in {"branch", "files", "pr"}
          /\ UNCHANGED <<github, validated>>
      BY <1>15 DEF finish_branch, finish_files, finish_pull_request
    <2>3. Reached(Returned(w), github, validated)
      BY <1>1, <1>3, <1>4, <1>6, <2>2 DEF Reached, Covered
    <2> QED
      BY <1>1, <1>7, <1>t, <2>1, <2>2, <2>3, FinishEffect
  <1>16. CASE finish_validation(w)
    <2>1. PICK passed \in BOOLEAN :
            /\ Finish(w, IF passed THEN "APPROVED" ELSE "FAILED",
                      IF passed THEN Returned(w) ELSE Failed(w))
            /\ validated' = IF passed THEN ValidatedBy(w) ELSE validated
      BY <1>16 DEF finish_validation, execute_validation_command
    <2>2. q.pc = "applied" /\ Step(w) = "validate" /\ UNCHANGED github
      BY <1>16 DEF finish_validation
    <2>3. {"APPROVED", "FAILED"} \subseteq AgentTaskStatus
      BY DEF AgentTaskStatus
    <2>4. CASE passed
      <3>1. Finish(w, "APPROVED", Returned(w)) /\ validated' = ValidatedBy(w)
        BY <2>1, <2>4
      <3>2. StepEffect(w) /\ worker'[w] = Returned(w)
        BY <1>1, <2>3, <3>1, FinishEffect
      <3>3. validated \subseteq validated' /\ validated' \subseteq Places
        BY <1>1, <3>1 DEF ValidatedBy, Place, Places
      <3>4. Reached(Returned(w), github', validated')
        <4>1. CASE q.mode \in FlowModes
          <5>1. q.pos = 4 /\ github.branch /\ github.files = 1 .. FileCount
            BY <1>1, <1>4, <2>2, <4>1 DEF Reached, Covered
          <5>2. Place(q.mode) \in validated'
            BY <3>1, <5>1 DEF ValidatedBy
          <5> QED
            BY <1>6, <2>2, <4>1, <5>1, <5>2 DEF Reached, Covered
        <4>2. CASE q.mode \notin FlowModes
          BY <1>6, <4>2 DEF Reached, IdleWorker, FlowModes
        <4> QED
          BY <4>1, <4>2
      <3>5. Grows(github, github', validated, validated')
        BY <1>1, <2>2, <3>3 DEF Grows
      <3> QED
        BY <1>1, <1>t, <2>2, <3>2, <3>3, <3>4, <3>5, OwnFlow DEF StepEffect, Tame
    <2>5. CASE ~passed
      <3>1. Finish(w, "FAILED", Failed(w)) /\ validated' = validated
        BY <1>1, <2>1, <2>5
      <3>2. StepEffect(w) /\ worker'[w] = Failed(w)
        BY <1>1, <2>3, <3>1, FinishEffect
      <3> QED
        BY <1>3, <1>7, <1>t, <2>2, <3>1, <3>2
    <2> QED
      BY <2>4, <2>5
  <1>17. CASE fail_step(w)
    <2>1. Finish(w, Held(w).status, Failed(w)) /\ UNCHANGED <<github, validated>>
      BY <1>17 DEF fail_step
    <2> QED
      BY <1>1, <1>3, <1>5, <1>7, <1>t, <2>1, FinishEffect
  <1>18. CASE \/ run_branch_plan(w) \/ run_file_plan(w) \/ run_validation_plan(w)
              \/ run_container_plan(w) \/ run_agent_worker_dry_run(w)
    <2>1. PICK s \in AgentTaskStatus \cup {"ABSENT"} : Finish(w, s, IdleWorker)
      BY <1>5, <1>18
      DEF run_branch_plan, run_file_plan, run_validation_plan, run_container_plan, record_plan,
          run_agent_worker_dry_run, AgentTaskStatus
    <2>2. UNCHANGED <<github, validated>>
      BY <1>18
      DEF run_branch_plan, run_file_plan, run_validation_plan, run_container_plan, record_plan,
          run_agent_worker_dry_run
    <2> QED
      BY <1>1, <1>3, <1>7, <1>t, <2>1, <2>2, FinishEffect
  <1> QED
    BY <1>8, <1>9, <1>10, <1>11, <1>12, <1>13, <1>14, <1>15, <1>16, <1>17, <1>18 DEF WorkerStep

\* A claim changes who holds the object in the store, and no place in the flow.
LEMMA ClaimEffect ==
  ASSUME FlowInv, NEW w \in Workers, claim_agent_task_for_worker(w)
  PROVE  /\ FlowInv'
         /\ worker[w].pc = "ready" /\ Eligible(disk) /\ disk'.lease = w /\ mem'[Home[w]].lease = w
         /\ \A p \in Procs : p # Home[w] => mem'[p] = mem[p]
         /\ fresh' = fresh \cup {w} /\ lapsed' = lapsed \ {w}
         /\ Busy(worker'[w]) /\ worker'[w].shared
         /\ \A v \in Workers : v # w =>
              /\ worker'[v].pc = worker[v].pc
              /\ worker'[v].shared => worker[v].shared /\ Home[v] # Home[w]
              /\ Home[v] # Home[w] => worker'[v] = worker[v]
  <1> DEFINE q == worker[w]
             r == [q EXCEPT !.pc = "claimed", !.shared = TRUE, !.done = 0]
             task == [disk EXCEPT !.lease = w, !.retries = mem[Home[w]].retries]
             saved == [disk EXCEPT !.lease = w]
  <1>1. /\ q.pc = "ready" /\ Eligible(disk) /\ disk' = saved
        /\ mem' = [mem EXCEPT ![Home[w]] = task]
        /\ fresh' = fresh \cup {w} /\ lapsed' = lapsed \ {w}
        /\ worker' = Replaced(w, r) /\ UNCHANGED <<github, validated>>
    BY DEF claim_agent_task_for_worker
  <1>2. /\ TypeOK /\ q \in WorkerRecord /\ Reached(q, github, validated)
        /\ mem[Home[w]] \in AgentTask /\ Home[w] \in Procs /\ disk \in AgentTask
        /\ mem \in [Procs -> AgentTask] /\ fresh \subseteq Workers /\ lapsed \subseteq Workers
        /\ worker \in [Workers -> WorkerRecord]
    BY HeldType DEF FlowInv, TypeOK
  <1>3. 0 \in 0 .. FileCount
    BY InputAssumption
  <1>4. /\ r \in WorkerRecord /\ r.pc = "claimed" /\ r.shared = TRUE /\ r.done = 0
        /\ r.pos = q.pos /\ r.mode = q.mode
    BY <1>2, <1>3 DEF WorkerRecord
  <1>5. task \in AgentTask /\ task.lease = w /\ saved \in AgentTask /\ saved.lease = w
    BY <1>2 DEF AgentTask
  <1> HIDE DEF r, task, saved
  <1>6. /\ worker' \in [Workers -> WorkerRecord] /\ worker'[w] = r
        /\ \A v \in Workers : v # w =>
              /\ worker'[v].pc = worker[v].pc /\ worker'[v].mode = worker[v].mode
              /\ worker'[v].pos = worker[v].pos /\ worker'[v].done = worker[v].done
              /\ worker'[v].shared => worker[v].shared /\ Home[v] # Home[w]
              /\ ~worker[v].shared => worker'[v] = worker[v]
              /\ Home[v] # Home[w] => worker'[v] = worker[v]
    BY <1>1, <1>2, <1>4, ReplacedType
  <1>7. /\ mem' \in [Procs -> AgentTask] /\ mem'[Home[w]] = task
        /\ \A p \in Procs : p # Home[w] => mem'[p] = mem[p]
    BY <1>1, <1>2, <1>5
  <1>8. TypeOK'
    BY <1>1, <1>2, <1>5, <1>6, <1>7 DEF TypeOK
  <1>9. PullRequestComplete'
    BY <1>1 DEF FlowInv, PullRequestComplete
  <1>10. Reached(r, github, validated)
    <2>1. 1 .. r.done = {}
      BY <1>4
    <2> QED
      BY <1>1, <1>2, <1>4, <2>1 DEF Reached, Covered
  <1>11. ASSUME NEW v \in Workers, v # w
         PROVE  Reached(worker'[v], github, validated)
    <2>1. Reached(worker[v], github, validated)
      BY DEF FlowInv
    <2>2. CASE worker[v].pc = "idle"
      <3>1. worker[v].shared = FALSE
        BY <2>1, <2>2 DEF Reached, IdleWorker
      <3> QED
        BY <1>6, <1>11, <2>1, <3>1
    <2>3. CASE worker[v].pc # "idle"
      BY <1>6, <1>11, <2>1, <2>3 DEF Reached, Covered
    <2> QED
      BY <2>2, <2>3
  <1>12. \A v \in Workers : Reached(worker'[v], github', validated')
    BY <1>1, <1>6, <1>10, <1>11
  <1>13. FlowInv'
    <2>1. \A v \in Supervised : worker'[v].mode = worker[v].mode
      BY <1>4, <1>6, HomeAssumption
    <2> QED
      BY <1>8, <1>9, <1>12, <2>1 DEF FlowInv
  <1> QED
    BY <1>1, <1>4, <1>5, <1>6, <1>7, <1>13 DEF Busy

\* A process that dies takes the steps of its workers with it.
LEMMA CrashEffect ==
  ASSUME FlowInv, NEW p \in Procs, crash(p)
  PROVE  /\ FlowInv'
         /\ \A o \in Procs : o # p => mem'[o] = mem[o]
         /\ \A w \in Workers :
              \/ worker'[w] = worker[w] /\ (Home[w] # p \/ (~worker[w].shared /\ ~Busy(worker[w])))
              \/ worker'[w].shared = FALSE /\ ~Busy(worker'[w])
         /\ UNCHANGED <<disk, fresh, lapsed>>
  <1>1. /\ mem' = [mem EXCEPT ![p] = disk] /\ UNCHANGED <<disk, fresh, github, validated, lapsed>>
        /\ worker' = [w \in Workers |->
                        IF Home[w] # p \/ worker[w].pc = "idle" THEN worker[w] ELSE Failed(w)]
    BY DEF crash
  <1>2. /\ disk \in AgentTask /\ mem \in [Procs -> AgentTask] /\ fresh \subseteq Workers
        /\ worker \in [Workers -> WorkerRecord] /\ lapsed \subseteq Workers /\ TypeOK
    BY DEF FlowInv, TypeOK
  <1>3. mem' \in [Procs -> AgentTask] /\ \A o \in Procs : o # p => mem'[o] = mem[o]
    BY <1>1, <1>2
  <1>4. ASSUME NEW w \in Workers
        PROVE  /\ worker'[w] \in WorkerRecord /\ Reached(worker'[w], github, validated)
               /\ \/ worker'[w] = worker[w] /\ (Home[w] # p \/ (~worker[w].shared /\ ~Busy(worker[w])))
                  \/ worker'[w].shared = FALSE /\ ~Busy(worker'[w])
    <2>1. /\ Failed(w) \in WorkerRecord /\ Failed(w).shared = FALSE /\ ~Busy(Failed(w))
      BY <1>2, WorkerType
    <2>2. Reached(Failed(w), github, validated) /\ Reached(worker[w], github, validated)
      BY ReachedFailed DEF FlowInv
    <2>3. worker[w].pc = "idle" => ~worker[w].shared /\ ~Busy(worker[w])
      BY <2>2 DEF Reached, IdleWorker, Busy
    <2>4. \/ worker'[w] = worker[w] /\ (Home[w] # p \/ worker[w].pc = "idle")
          \/ worker'[w] = Failed(w)
      BY <1>1
    <2> QED
      BY <1>2, <2>1, <2>2, <2>3, <2>4
  <1>5. worker' \in [Workers -> WorkerRecord]
    <2>1. worker' = [w \in Workers |-> worker'[w]]
      BY <1>1
    <2> QED
      BY <1>4, <2>1
  <1>6. TypeOK'
    BY <1>1, <1>2, <1>3, <1>5 DEF TypeOK
  <1>7. PullRequestComplete'
    BY <1>1 DEF FlowInv, PullRequestComplete
  <1>8. \A w \in Workers : Reached(worker'[w], github', validated')
    BY <1>1, <1>4
  <1>9. \A w \in Supervised : worker'[w].mode \in {"flow", "none"}
    BY <1>1, HomeAssumption DEF FlowInv, Failed, IdleWorker
  <1> QED
    BY <1>1, <1>3, <1>4, <1>6, <1>7, <1>8, <1>9 DEF FlowInv

\* The invariant of the flow holds at first.
LEMMA FlowStart ==
  ASSUME Init
  PROVE  FlowInv
  <1>1. AbsentTask \in AgentTask
    <2>1. 0 \in 0 .. MaxRetries
      BY InputAssumption
    <2> QED
      BY <2>1 DEF AgentTask, AbsentTask
  <1>2. IdleWorker \in WorkerRecord
    <2>1. 0 \in 0 .. FileCount /\ 1 \in 1 .. 5
      BY InputAssumption
    <2> QED
      BY <1>1, <2>1 DEF IdleWorker, WorkerRecord
  <1>3. TypeOK
    BY <1>1, <1>2 DEF Init, TypeOK, Places
  <1>4. PullRequestComplete
    BY DEF Init, PullRequestComplete, FlowModes
  <1>5. \A w \in Workers : Reached(worker[w], github, validated)
    BY DEF Init, Reached, IdleWorker, FlowModes
  <1>6. \A w \in Supervised : worker[w].mode = "none"
    BY HomeAssumption DEF Init, IdleWorker
  <1> QED
    BY <1>3, <1>4, <1>5, <1>6 DEF FlowInv

\* Every step keeps it.
LEMMA FlowStep ==
  ASSUME FlowInv, [Next]_vars
  PROVE  FlowInv'
  <1>1. CASE Operator
    <2>1. TypeOK /\ fresh \subseteq Workers
      BY DEF FlowInv, TypeOK
    <2> QED
      BY <1>1, <2>1, OperatorStep, OperatorFlow
  <1>2. CASE \E w \in Workers : WorkerStep(w)
    BY <1>2, WorkerFlow, ClaimEffect
  <1>3. CASE \E w \in Workers : Expire(w)
    <2>1. /\ UNCHANGED <<disk, mem, worker, github, validated>>
          /\ fresh' \subseteq Workers /\ lapsed' \subseteq Workers
          /\ disk \in AgentTask /\ mem \in [Procs -> AgentTask]
      BY <1>3 DEF Expire, FlowInv, TypeOK
    <2> QED
      BY <2>1, OperatorFlow
  <1>4. CASE \E p \in Procs : crash(p)
    BY <1>4, CrashEffect
  <1>5. CASE UNCHANGED vars
    <2>1. /\ UNCHANGED <<disk, mem, worker, fresh, github, validated, lapsed>>
          /\ disk \in AgentTask /\ mem \in [Procs -> AgentTask]
          /\ fresh \subseteq Workers /\ lapsed \subseteq Workers
      BY <1>5 DEF vars, FlowInv, TypeOK
    <2> QED
      BY <2>1, OperatorFlow
  <1> QED
    BY <1>1, <1>2, <1>3, <1>4, <1>5 DEF Next

\* In every reachable state each worker's position is covered by what is in
\* the repository.
THEOREM FlowInvariance == Spec => []FlowInv
  <1>1. Init => FlowInv
    BY FlowStart
  <1>2. FlowInv /\ [Next]_vars => FlowInv'
    BY FlowStep
  <1> QED
    BY <1>1, <1>2, PTL DEF Spec

\* Every variable keeps its type, whatever the numbers of workers, processes,
\* files and retries.
THEOREM TaskTypeCorrect == Spec => []TypeOK
  <1>1. FlowInv => TypeOK
    BY DEF FlowInv
  <1> QED
    BY <1>1, FlowInvariance, PTL

\* A pull request of the whole flow is opened only when every approved file
\* change is on the branch and the validation commands passed with them,
\* whatever steps failed, raced, were repeated, were run by single-step
\* scripts or died with their process.
THEOREM PullRequestsComplete == Spec => []PullRequestComplete
  <1>1. FlowInv => PullRequestComplete
    BY DEF FlowInv
  <1> QED
    BY <1>1, FlowInvariance, PTL

----------------------------------------------------------------------------
(* Who holds the object in the store.                                      *)

\* Every step keeps ShareInv: of the steps only a claim makes an object
\* shared, and it takes it from the others of its process.
LEMMA ShareStep ==
  ASSUME FlowInv, ShareInv, [Next]_vars
  PROVE  ShareInv'
  <1>1. TypeOK
    BY DEF FlowInv
  <1>2. ASSUME \A w \in Workers : worker'[w].shared =>
                  /\ worker[w].shared /\ Busy(worker'[w])
                  /\ \/ mem'[Home[w]].lease = mem[Home[w]].lease
                     \/ mem'[Home[w]].lease = NoLease
        PROVE  ShareInv'
    BY <1>2 DEF ShareInv
  <1>3. CASE Operator
    <2>1. UNCHANGED worker
      BY <1>1, <1>3, OperatorStep
    <2>2. \A p \in Procs : mem'[p].lease = mem[p].lease \/ mem'[p].lease = NoLease
      BY <1>1, <1>3, OperatorStep
    <2>3. \A w \in Workers : Home[w] \in Procs
      BY HomeAssumption
    <2> QED
      BY <1>2, <2>1, <2>2, <2>3 DEF ShareInv
  <1>4. ASSUME NEW w \in Workers, WorkerStep(w), ~claim_agent_task_for_worker(w)
        PROVE  ShareInv'
    <2>1. StepEffect(w)
      BY <1>4, WorkerFlow
    <2>2. ASSUME NEW v \in Workers, worker'[v].shared
          PROVE  /\ worker[v].shared /\ Busy(worker'[v])
                 /\ \/ mem'[Home[v]].lease = mem[Home[v]].lease
                    \/ mem'[Home[v]].lease = NoLease
      <3>1. worker[v].shared
        BY <2>1, <2>2 DEF StepEffect
      <3>2. Busy(worker[v])
        BY <3>1 DEF ShareInv
      <3>3. Busy(worker'[v])
        BY <2>1, <2>2, <3>2 DEF StepEffect
      <3>4. Home[v] \in Procs
        BY HomeAssumption
      <3>5. mem'[Home[v]].lease = mem[Home[v]].lease \/ mem'[Home[v]].lease = NoLease
        BY <2>1, <3>4 DEF StepEffect
      <3> QED
        BY <3>1, <3>3, <3>5
    <2> QED
      BY <1>2, <2>2
  <1>5. ASSUME NEW w \in Workers, claim_agent_task_for_worker(w)
        PROVE  ShareInv'
    <2>1. /\ mem'[Home[w]].lease = w
          /\ \A p \in Procs : p # Home[w] => mem'[p] = mem[p]
          /\ Busy(worker'[w])
          /\ \A v \in Workers : v # w =>
               /\ worker'[v].shared => worker[v].shared /\ Home[v] # Home[w]
               /\ Home[v] # Home[w] => worker'[v] = worker[v]
      BY <1>5, ClaimEffect
    <2>2. ASSUME NEW v \in Workers, worker'[v].shared
          PROVE  Busy(worker'[v]) /\ mem'[Home[v]].lease \in {v, NoLease}
      <3>1. CASE v = w
        BY <2>1, <3>1
      <3>2. CASE v # w
        <4>1. worker'[v] = worker[v] /\ worker[v].shared /\ Home[v] # Home[w]
          BY <2>1, <2>2, <3>2
        <4>2. Home[v] \in Procs
          BY HomeAssumption
        <4>3. mem'[Home[v]] = mem[Home[v]]
          BY <2>1, <4>1, <4>2
        <4> QED
          BY <4>1, <4>3 DEF ShareInv
      <3> QED
        BY <3>1, <3>2
    <2>3. ASSUME NEW u \in Workers, NEW v \in Workers,
                 worker'[u].shared, worker'[v].shared, Home[u] = Home[v]
          PROVE  u = v
      <3>1. CASE u # w /\ v # w
        BY <2>1, <2>3, <3>1 DEF ShareInv
      <3>2. CASE u = w \/ v = w
        BY <2>1, <2>3, <3>2
      <3> QED
        BY <3>1, <3>2
    <2> QED
      BY <2>2, <2>3 DEF ShareInv
  <1>6. CASE \E w \in Workers : Expire(w)
    BY <1>6 DEF Expire, ShareInv
  <1>7. ASSUME NEW p \in Procs, crash(p)
        PROVE  ShareInv'
    <2>1. /\ \A o \in Procs : o # p => mem'[o] = mem[o]
          /\ \A w \in Workers :
               \/ /\ worker'[w] = worker[w]
                  /\ Home[w] # p \/ (~worker[w].shared /\ ~Busy(worker[w]))
               \/ worker'[w].shared = FALSE /\ ~Busy(worker'[w])
      BY <1>7, CrashEffect
    <2>2. \A w \in Workers : Home[w] \in Procs
      BY HomeAssumption
    <2>3. ASSUME NEW w \in Workers, worker'[w].shared
          PROVE  /\ worker[w].shared /\ Busy(worker'[w])
                 /\ mem'[Home[w]].lease = mem[Home[w]].lease
      BY <2>1, <2>2, <2>3 DEF ShareInv
    <2> QED
      BY <1>2, <2>3
  <1>8. CASE UNCHANGED vars
    BY <1>8 DEF vars, ShareInv
  <1> QED
    BY <1>3, <1>4, <1>5, <1>6, <1>7, <1>8 DEF Next

\* Of the workers of one process at most one holds the object in the store,
\* and no other worker's lease is on it.
THEOREM ShareInvariance == Spec => []ShareInv
  <1>1. Init => ShareInv
    BY DEF Init, ShareInv, IdleWorker
  <1>2. FlowInv /\ ShareInv /\ [Next]_vars => ShareInv'
    BY ShareStep
  <1> QED
    BY <1>1, <1>2, FlowInvariance, PTL DEF Spec

\* A worker whose lease another one of its process has taken over leaves the
\* task in the store alone, whatever it still finishes.
THEOREM SupersededLeavesTask == Spec => SupersededIsHarmless
  <1>1. FlowInv /\ ShareInv =>
          \A w \in Workers :
             (/\ worker[w].pc \in {"claimed", "applied"}
              /\ mem[Home[w]].lease \in Workers \ {w}
              /\ WorkerStep(w))
             => mem'[Home[w]] = mem[Home[w]]
    <2> SUFFICES ASSUME FlowInv, ShareInv, NEW w \in Workers,
                        worker[w].pc \in {"claimed", "applied"},
                        mem[Home[w]].lease \in Workers \ {w}, WorkerStep(w)
                 PROVE  mem'[Home[w]] = mem[Home[w]]
      OBVIOUS
    <2>1. ~claim_agent_task_for_worker(w)
      BY DEF claim_agent_task_for_worker
    <2>2. StepEffect(w)
      BY <2>1, WorkerFlow
    <2>3. ~worker[w].shared
      BY HomeAssumption DEF ShareInv
    <2> QED
      BY <2>2, <2>3 DEF StepEffect
  <1> QED
    BY <1>1, FlowInvariance, ShareInvariance, PTL DEF SupersededIsHarmless

----------------------------------------------------------------------------
(* Claims of one process.                                                  *)

\* Every step keeps ClaimInv when all workers are threads of the API process:
\* a claim finds no lease of a worker that is inside its step.
LEMMA ClaimStep ==
  ASSUME \A w \in Workers : Home[w] = Api, FlowInv, ClaimInv, [Next]_vars
  PROVE  ClaimInv'
  <1>1. TypeOK /\ Api \in Procs /\ NoLease \notin Workers
    BY HomeAssumption DEF FlowInv
  <1>2. CASE Operator
    <2>1. /\ UNCHANGED <<worker, fresh>>
          /\ \/ UNCHANGED <<mem, lapsed>> /\ disk' = mem[Api]
             \/ /\ UNCHANGED disk
                /\ \/ mem'[Api].lease = mem[Api].lease /\ lapsed' = lapsed
                   \/ /\ mem'[Api].lease = NoLease
                      /\ lapsed' = IF mem[Api].lease \in Workers
                                   THEN lapsed \cup {mem[Api].lease} ELSE lapsed
      BY <1>1, <1>2, OperatorStep
    <2>2. ASSUME NEW v \in Workers, Busy(worker'[v]), v \notin lapsed'
          PROVE  /\ v \in fresh' /\ worker'[v].shared
                 /\ mem'[Home[v]].lease = v /\ disk'.lease = v
      <3>1. worker'[v] = worker[v] /\ v \notin lapsed
        BY <2>1, <2>2
      <3>2. v \in fresh /\ worker[v].shared /\ mem[Api].lease = v /\ disk.lease = v
        BY <2>2, <3>1 DEF ClaimInv
      <3> QED
        BY <2>1, <2>2, <3>1, <3>2
    <2> QED
      BY <2>2 DEF ClaimInv
  <1>3. ASSUME NEW w \in Workers, WorkerStep(w), ~claim_agent_task_for_worker(w)
        PROVE  ClaimInv'
    <2>1. StepEffect(w)
      BY <1>3, WorkerFlow
    <2>2. ASSUME NEW v \in Workers, Busy(worker'[v]), v \notin lapsed'
          PROVE  /\ v \in fresh' /\ worker'[v].shared
                 /\ mem'[Home[v]].lease = v /\ disk'.lease = v
      <3>1. Busy(worker[v]) /\ worker'[v].shared = worker[v].shared /\ v \notin lapsed
        BY <2>1, <2>2 DEF StepEffect
      <3>2. v \in fresh /\ worker[v].shared /\ mem[Api].lease = v /\ disk.lease = v
        BY <3>1 DEF ClaimInv
      <3>3. mem'[Api].lease = v
        BY <2>1, <2>2, <3>2 DEF StepEffect
      <3> QED
        BY <2>1, <3>1, <3>2, <3>3 DEF StepEffect
    <2> QED
      BY <2>2 DEF ClaimInv
  <1>4. ASSUME NEW w \in Workers, claim_agent_task_for_worker(w)
        PROVE  ClaimInv'
    <2>1. /\ Eligible(disk) /\ disk'.lease = w /\ mem'[Home[w]].lease = w
          /\ fresh' = fresh \cup {w} /\ lapsed' = lapsed \ {w} /\ worker'[w].shared
          /\ \A v \in Workers : v # w => worker'[v].pc = worker[v].pc
      BY <1>4, ClaimEffect
    <2>2. ASSUME NEW v \in Workers, Busy(worker'[v]), v \notin lapsed'
          PROVE  v = w
      <3>1. SUFFICES ASSUME v # w PROVE FALSE
        OBVIOUS
      <3>2. Busy(worker[v]) /\ v \notin lapsed
        BY <2>1, <2>2, <3>1 DEF Busy
      <3>3. v \in fresh /\ disk.lease = v
        BY <3>2 DEF ClaimInv
      <3> QED
        BY <1>1, <2>1, <3>3 DEF Eligible, is_lease_available
    <2> QED
      BY <2>1, <2>2 DEF ClaimInv
  <1>5. ASSUME NEW w \in Workers, Expire(w)
        PROVE  ClaimInv'
    BY <1>5 DEF Expire, ClaimInv
  <1>6. ASSUME NEW p \in Procs, crash(p)
        PROVE  ClaimInv'
    <2>1. /\ \A o \in Procs : o # p => mem'[o] = mem[o]
          /\ \A w \in Workers :
               \/ /\ worker'[w] = worker[w]
                  /\ Home[w] # p \/ (~worker[w].shared /\ ~Busy(worker[w]))
               \/ worker'[w].shared = FALSE /\ ~Busy(worker'[w])
          /\ UNCHANGED <<disk, fresh, lapsed>>
      BY <1>6, CrashEffect
    <2>2. ASSUME NEW v \in Workers, Busy(worker'[v])
          PROVE  worker'[v] = worker[v] /\ mem'[Home[v]] = mem[Home[v]]
      BY <1>1, <2>1, <2>2
    <2> QED
      BY <2>1, <2>2 DEF ClaimInv
  <1>7. CASE UNCHANGED vars
    BY <1>7 DEF vars, ClaimInv
  <1> QED
    BY <1>2, <1>3, <1>4, <1>5, <1>6, <1>7 DEF Next

\* When all workers are threads of the API process, two of them are inside a
\* step at once only if one of the leases expired or was cleared.
THEOREM OneClaim ==
  ASSUME \A w \in Workers : Home[w] = Api
  PROVE  Spec => []OneLiveClaim
  <1>1. Init => ClaimInv
    BY DEF Init, ClaimInv, IdleWorker, Busy
  <1>2. FlowInv /\ ClaimInv /\ [Next]_vars => ClaimInv'
    BY ClaimStep
  <1>3. ClaimInv => OneLiveClaim
    BY DEF ClaimInv, OneLiveClaim, Busy
  <1> QED
    BY <1>1, <1>2, <1>3, FlowInvariance, PTL DEF Spec
=============================================================================
