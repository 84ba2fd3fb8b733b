------------------------- MODULE IndexPipeline_proofs -------------------------
(***************************************************************************)
(* Proofs about IndexPipeline. What holds of any instance comes first:     *)
(* any number of processes, command lines, crashes and outages. What the   *)
(* job gate guarantees a single process without a command line is proved   *)
(* after it, up to the implementation of ServedIndex.                      *)
(*                                                                         *)
(* Most steps change the row, the run and the worker of one index; they    *)
(* are proved through RowKeeps and LawfulRow, which say what such a step   *)
(* must establish for its own row.                                         *)
(***************************************************************************)
EXTENDS IndexPipeline, DataLemmas

-----------------------------------------------------------------------------
(* The inductive invariant of any instance *)

Building == {"ACCEPTED", "LOADED", "CALLING", "EMBEDDED", "FAILING"}

\* What the row of an index says where its worker stands: another process may
\* have failed it or retired it meanwhile. A number comes with READY.
RowFits(i) ==
    /\ worker[i].pc \in Building => index[i].status \in {"BUILDING", "FAILED"} /\ index[i].no = 0
    /\ worker[i].pc = "VALIDATING" => index[i].status \in {"VALIDATING", "FAILED"} /\ index[i].no = 0
    /\ worker[i].pc = "READY" => index[i].status \in {"READY", "INACTIVE"}
    /\ worker[i].pc = "APPLIED" => index[i].status \in {"ACTIVE", "INACTIVE"}
    /\ index[i].status = "ACTIVE" => worker[i].pc \in {"NONE", "APPLIED"}
    /\ index[i].status \in {"READY", "ACTIVE", "INACTIVE"} => index[i].no > 0
    /\ index[i].status \in {"NONE", "BUILDING", "VALIDATING"} => index[i].no = 0

\* Nothing will change the row again but an index that takes its place.
Applied(i) == index[i].status \in {"ACTIVE", "INACTIVE"} /\ worker[i].pc \in {"NONE", "APPLIED"}

ActiveIsUnique ==
    \A i, j \in Index : (index[i].status = "ACTIVE" /\ index[j].status = "ACTIVE") => i = j

Bounded == \E b \in Nat : \A i \in Index : index[i].no <= b

\* What a process searches, or is about to, was applied.
MemoryApplied ==
    \A p \in Proc : /\ registry[p] # None => Applied(registry[p])
                    /\ reload[p] # None => Applied(reload[p])

\* INDEX_VERSION_NO_CONSTRAINT: the numbers of a group's versions differ.
VersionNumbersDiffer ==
    \A i, j \in Index : (i # j /\ index[i].no > 0) => index[i].no # index[j].no

IInv ==
    /\ TypeOK
    /\ \A i \in Index : RowFits(i)
    /\ ActiveIsUnique
    /\ Bounded
    /\ VersionNumbersDiffer
    /\ MemoryApplied

-----------------------------------------------------------------------------
(* The inductive invariant of one process without a command line *)

Alone == Shell = {} /\ \E p : Proc = {p}

\* Nobody but its worker has touched the run, and the documents are those it read.
AloneFits(i) ==
    /\ index[i].status = "NONE" <=> run[i] = "NONE"
    /\ worker[i].pc = "NONE" <=> worker[i].proc = None
    /\ worker[i].pc \notin {"NONE", "APPLIED"} => run[i] = "PROCESSING"
    /\ worker[i].pc = "READY" => index[i].status = "READY"
    /\ index[i].no > 0 => index[i].status \in {"READY", "ACTIVE", "INACTIVE"}
    /\ worker[i].pc \in {"LOADED", "CALLING", "EMBEDDED", "VALIDATING", "READY"} =>
          worker[i].read = Latest
    /\ worker[i].pc \in {"VALIDATING", "READY"} => index[i].docs = Latest

OneOpenRun ==
    \A i, j \in Index : (run[i] = "PROCESSING" /\ run[j] = "PROCESSING") => i = j

\* A process that is not up carries no worker, and what it has scanned is open
\* until it closes it.
StartsClean ==
    \A p \in Proc :
        /\ proc[p] # "UP" => \A i \in Index : worker[i].proc # p
        /\ stale[p] # {} => proc[p] = "CLOSING"
        /\ \A i \in stale[p] : run[i] = "PROCESSING"

\* While a run is open there is something to switch to.
OpenRunHasWork ==
    \A i \in Index : run[i] = "PROCESSING" => Latest # Served /\ Latest # Nothing

AInv ==
    /\ IInv
    /\ \A i \in Index : AloneFits(i)
    /\ OneOpenRun
    /\ StartsClean
    /\ OpenRunHasWork
    /\ taken = Nothing

-----------------------------------------------------------------------------
(* Rows and workers with some fields changed *)

RowAs(row, s) == [row EXCEPT !.status = s]
RowStored(row, c) == [row EXCEPT !.status = "VALIDATING", !.docs = c]
RowNumbered(row, n) == [row EXCEPT !.status = "READY", !.no = n]
RowBegun(n) == [NoIndex EXCEPT !.status = "BUILDING", !.expected = n]
TaskAt(task, pc) == [task EXCEPT !.pc = pc]
TaskLoaded(task, c) == [task EXCEPT !.pc = "LOADED", !.read = c]
TaskOf(p) == [NoWorker EXCEPT !.proc = p, !.pc = "ACCEPTED"]

\* The empty collection is a collection.
LEMMA Collections == Nothing \in Collection
BY IndexAssumption DEF Nothing, Collection

\* A collection counts no more documents than there are.
LEMMA SizeBound ==
    ASSUME NEW c \in Collection
    PROVE  Size(c) \in 0..Cardinality(Source)
<1>1. IsFiniteSet(Source)
  BY IndexAssumption
<1>2. IsFiniteSet({s \in Source : c[s] > 0}) /\ Cardinality({s \in Source : c[s] > 0}) <= Cardinality(Source)
  BY <1>1, FS_Subset
<1> QED BY <1>1, <1>2, FS_CardinalityType DEF Size

\* What is left of the row of an index when it changes its status, has stored its
\* collection, or gets its number.
LEMMA RowFields ==
    ASSUME NEW row \in IndexRow
    PROVE  /\ \A s \in IndexStatus :
                 /\ RowAs(row, s) \in IndexRow
                 /\ RowAs(row, s).status = s
                 /\ RowAs(row, s).no = row.no
                 /\ RowAs(row, s).docs = row.docs
           /\ \A c \in Collection :
                 /\ RowStored(row, c) \in IndexRow
                 /\ RowStored(row, c).status = "VALIDATING"
                 /\ RowStored(row, c).no = row.no
                 /\ RowStored(row, c).docs = c
           /\ \A n \in Nat :
                 /\ RowNumbered(row, n) \in IndexRow
                 /\ RowNumbered(row, n).status = "READY"
                 /\ RowNumbered(row, n).no = n
                 /\ RowNumbered(row, n).docs = row.docs
BY DEF IndexRow, IndexStatus, RowAs, RowStored, RowNumbered

\* The row of an index that is begun.
LEMMA BegunFields ==
    ASSUME NEW n \in 0..Cardinality(Source)
    PROVE  /\ RowBegun(n) \in IndexRow
           /\ RowBegun(n).status = "BUILDING"
           /\ RowBegun(n).no = 0
BY Collections DEF RowBegun, NoIndex, IndexRow, IndexStatus

\* What is left of a worker when it goes on or has loaded its collection.
LEMMA TaskFields ==
    ASSUME NEW task \in Worker
    PROVE  /\ \A pc \in Pc :
                 /\ TaskAt(task, pc) \in Worker
                 /\ TaskAt(task, pc).pc = pc
                 /\ TaskAt(task, pc).read = task.read
                 /\ TaskAt(task, pc).proc = task.proc
           /\ \A c \in Collection :
                 /\ TaskLoaded(task, c) \in Worker
                 /\ TaskLoaded(task, c).pc = "LOADED"
                 /\ TaskLoaded(task, c).read = c
                 /\ TaskLoaded(task, c).proc = task.proc
BY DEF Worker, Pc, TaskAt, TaskLoaded

\* The worker that is not there, and the one an accepted run begins with.
LEMMA NewTasks ==
    /\ NoWorker \in Worker /\ NoWorker.pc = "NONE" /\ NoWorker.proc = None
    /\ \A p \in Proc : /\ TaskOf(p) \in Worker
                       /\ TaskOf(p).pc = "ACCEPTED"
                       /\ TaskOf(p).proc = p
BY Collections DEF NoWorker, Worker, Pc, TaskOf

\* One entry of a function is replaced.
LEMMA SetIndex ==
    ASSUME TypeOK, NEW i \in Index, NEW row \in IndexRow, index' = [index EXCEPT ![i] = row]
    PROVE  /\ index' \in [Index -> IndexRow]
           /\ index'[i] = row
           /\ \A j \in Index \ {i} : index'[j] = index[j]
BY DEF TypeOK

\* One worker is replaced.
LEMMA SetWorker ==
    ASSUME TypeOK, NEW i \in Index, NEW task \in Worker, worker' = [worker EXCEPT ![i] = task]
    PROVE  /\ worker' \in [Index -> Worker]
           /\ worker'[i] = task
           /\ \A j \in Index \ {i} : worker'[j] = worker[j]
BY DEF TypeOK

\* The status of one run is replaced.
LEMMA SetRun ==
    ASSUME TypeOK, NEW i \in Index, NEW s \in RunStatus, run' = [run EXCEPT ![i] = s]
    PROVE  /\ run' \in [Index -> RunStatus]
           /\ run'[i] = s
           /\ \A j \in Index \ {i} : run'[j] = run[j]
BY DEF TypeOK

\* A worker goes to another place.
LEMMA GotoEffect ==
    ASSUME TypeOK, NEW i \in Index, NEW pc \in Pc, Goto(i, pc)
    PROVE  /\ worker' \in [Index -> Worker]
           /\ worker'[i].pc = pc /\ worker'[i].read = worker[i].read /\ worker'[i].proc = worker[i].proc
           /\ \A j \in Index \ {i} : worker'[j] = worker[j]
<1>1. worker' = [worker EXCEPT ![i] = TaskAt(worker[i], pc)]
  BY DEF Goto, TaskAt
<1>2. /\ TaskAt(worker[i], pc) \in Worker
      /\ TaskAt(worker[i], pc).pc = pc
      /\ TaskAt(worker[i], pc).read = worker[i].read
      /\ TaskAt(worker[i], pc).proc = worker[i].proc
  BY TaskFields DEF TypeOK
<1> QED BY <1>1, <1>2, SetWorker

\* A worker ends.
LEMMA EndEffect ==
    ASSUME TypeOK, NEW i \in Index, EndWorker(i)
    PROVE  /\ worker' \in [Index -> Worker]
           /\ worker'[i].pc = "NONE" /\ worker'[i].proc = None
           /\ \A j \in Index \ {i} : worker'[j] = worker[j]
BY NewTasks, SetWorker DEF EndWorker

\* The documents an open run would index
LEMMA LatestType == TypeOK => Latest \in Collection
BY IndexAssumption DEF TypeOK, Latest, Collection

-----------------------------------------------------------------------------
(* A step on one index *)

OnlyAt(i) ==
    \A j \in Index \ {i} : index'[j] = index[j] /\ worker'[j] = worker[j] /\ run'[j] = run[j]

\* What a step on one index must establish of its row
LEMMA RowKeeps ==
    ASSUME IInv, NEW i \in Index, TypeOK', OnlyAt(i), UNCHANGED memory, RowFits(i)',
           index'[i].status = "ACTIVE" => index[i].status = "ACTIVE",
           Applied(i) => Applied(i)',
           \/ index'[i].no \in {0, index[i].no}
           \/ \A j \in Index : index[j].no < index'[i].no
    PROVE  IInv'
<1>1. \A j \in Index : index[j].no \in Nat /\ index'[j].no \in Nat
  BY DEF IInv, TypeOK, IndexRow
<1>2. \A j \in Index : RowFits(j)'
  BY DEF IInv, RowFits, OnlyAt
<1>3. ActiveIsUnique'
  BY DEF IInv, ActiveIsUnique, OnlyAt
<1>4. Bounded'
  <2>1. PICK b \in Nat : \A j \in Index : index[j].no <= b
    BY DEF IInv, Bounded
  <2>2. b + index'[i].no \in Nat /\ \A j \in Index : index'[j].no <= b + index'[i].no
    BY <1>1, <2>1 DEF OnlyAt
  <2> QED BY <2>2 DEF Bounded
<1>5. VersionNumbersDiffer'
  BY <1>1 DEF IInv, VersionNumbersDiffer, OnlyAt
<1>6. \A j \in Index : Applied(j) => Applied(j)'
  BY DEF Applied, OnlyAt
<1>7. MemoryApplied'
  BY <1>6 DEF IInv, TypeOK, MemoryApplied, memory
<1> QED BY <1>2, <1>3, <1>4, <1>5, <1>7 DEF IInv

\* What a step that leaves the indexes alone must establish: workers only end,
\* and what enters the memory is the ACTIVE index or one that was just applied.
LEMMA QuietKeeps ==
    ASSUME IInv, TypeOK', UNCHANGED index,
           \A j \in Index : worker'[j] = worker[j] \/ worker'[j].pc = "NONE",
           \A p \in Proc :
              /\ registry'[p] \in {None, registry[p], reload[p]} \cup Having("ACTIVE")
                                     \cup {j \in Index : worker[j].pc = "APPLIED"}
              /\ reload'[p] \in {None, reload[p]} \cup Having("ACTIVE")
    PROVE  IInv'
<1>1. \A j \in Index : RowFits(j)'
  BY DEF IInv, RowFits, Building
<1>2. (ActiveIsUnique /\ Bounded /\ VersionNumbersDiffer)'
  BY DEF IInv, ActiveIsUnique, Bounded, VersionNumbersDiffer
<1>3. \A j \in Index : Applied(j) => Applied(j)'
  BY DEF Applied
<1>4. \A j \in Index : index[j].status = "ACTIVE" \/ worker[j].pc = "APPLIED" => Applied(j)
  BY DEF IInv, RowFits, Applied
<1>5. \A p \in Proc : /\ registry[p] \in Index \cup {None} /\ reload[p] \in Index \cup {None}
                      /\ registry[p] # None => Applied(registry[p])
                      /\ reload[p] # None => Applied(reload[p])
  BY DEF IInv, TypeOK, MemoryApplied
<1>6. \A p \in Proc : /\ registry'[p] # None => registry'[p] \in Index /\ Applied(registry'[p])
                      /\ reload'[p] # None => reload'[p] \in Index /\ Applied(reload'[p])
  BY <1>4, <1>5 DEF Having
<1>7. MemoryApplied'
  BY <1>3, <1>6 DEF MemoryApplied
<1> QED BY <1>1, <1>2, <1>7 DEF IInv

-----------------------------------------------------------------------------
(* What each operation does to the row, the run and the worker of its index *)

Frame(i) == TypeOK' /\ OnlyAt(i) /\ UNCHANGED <<memory, documents, taken, processes>>

\* start_reindex
LEMMA AcceptEffect ==
    ASSUME TypeOK, NEW p \in Proc, NEW i \in Index, Accept(p, i)
    PROVE  /\ Frame(i)
           /\ index[i].status = "NONE" /\ index'[i].status = "BUILDING" /\ index'[i].no = 0
           /\ run'[i] = "PROCESSING"
           /\ worker'[i].pc = "ACCEPTED" /\ worker'[i].proc = p
<1> DEFINE row == RowBegun(Size(Latest))
<1>1. /\ index' = [index EXCEPT ![i] = row]
      /\ run' = [run EXCEPT ![i] = "PROCESSING"]
      /\ worker' = [worker EXCEPT ![i] = TaskOf(p)]
      /\ UNCHANGED <<taken, documents, call, memory, processes>>
      /\ index[i].status = "NONE"
  BY DEF Accept, RowBegun, TaskOf
<1>2. row \in IndexRow /\ row.status = "BUILDING" /\ row.no = 0
  BY LatestType, SizeBound, BegunFields
<1> HIDE DEF row
<1>3. /\ index' \in [Index -> IndexRow] /\ index'[i] = row
      /\ \A j \in Index \ {i} : index'[j] = index[j]
  BY <1>1, <1>2, SetIndex
<1>4. /\ worker' \in [Index -> Worker] /\ worker'[i] = TaskOf(p)
      /\ \A j \in Index \ {i} : worker'[j] = worker[j]
  BY <1>1, NewTasks, SetWorker
<1>5. /\ run' \in [Index -> RunStatus] /\ run'[i] = "PROCESSING"
      /\ \A j \in Index \ {i} : run'[j] = run[j]
  BY <1>1, SetRun DEF RunStatus
<1>6. Frame(i)
  BY <1>1, <1>3, <1>4, <1>5 DEF Frame, OnlyAt, TypeOK, documents, memory, processes
<1> QED BY <1>1, <1>2, <1>3, <1>4, <1>5, <1>6, NewTasks

\* Run.begin of the command line, which may find other runs open.
LEMMA ShellStartsEffect ==
    ASSUME TypeOK, NEW o \in Shell, NEW i \in Index, ShellStarts(o, i)
    PROVE  /\ TypeOK' /\ OnlyAt(i) /\ UNCHANGED memory
           /\ index[i].status = "NONE" /\ index'[i].status = "BUILDING" /\ index'[i].no = 0
           /\ worker'[i].pc = "LOADED"
<1> DEFINE row == RowBegun(Size(taken))
           task == [proc |-> o, pc |-> "LOADED", read |-> taken]
<1>1. /\ index' = [index EXCEPT ![i] = row]
      /\ run' = [run EXCEPT ![i] = "PROCESSING"]
      /\ worker' = [worker EXCEPT ![i] = task]
      /\ taken' = Nothing
      /\ UNCHANGED <<documents, call, memory, processes>>
      /\ index[i].status = "NONE"
  BY DEF ShellStarts, RowBegun
<1>2. row \in IndexRow /\ row.status = "BUILDING" /\ row.no = 0
  BY SizeBound, BegunFields DEF TypeOK
<1>3. task \in Worker /\ task.pc = "LOADED"
  BY DEF Worker, Pc, TypeOK
<1> HIDE DEF row, task
<1>4. /\ index' \in [Index -> IndexRow] /\ index'[i] = row
      /\ \A j \in Index \ {i} : index'[j] = index[j]
  BY <1>1, <1>2, SetIndex
<1>5. /\ worker' \in [Index -> Worker] /\ worker'[i] = task
      /\ \A j \in Index \ {i} : worker'[j] = worker[j]
  BY <1>1, <1>3, SetWorker
<1>6. /\ run' \in [Index -> RunStatus]
      /\ \A j \in Index \ {i} : run'[j] = run[j]
  BY <1>1, SetRun DEF RunStatus
<1>7. TypeOK' /\ OnlyAt(i)
  BY <1>1, <1>4, <1>5, <1>6, Collections DEF OnlyAt, TypeOK, documents, memory, processes
<1> QED BY <1>1, <1>2, <1>3, <1>4, <1>5, <1>7

\* run_index_job loads the documents, or finds the run closed.
LEMMA LoadEffect ==
    ASSUME TypeOK, NEW i \in Index, Load(i)
    PROVE  /\ Frame(i) /\ UNCHANGED <<index, run>> /\ worker[i].pc = "ACCEPTED"
           /\ \/ /\ run[i] = "PROCESSING" /\ worker'[i].pc = "LOADED"
                 /\ worker'[i].read = Latest /\ worker'[i].proc = worker[i].proc
              \/ worker'[i].pc = "NONE" /\ worker'[i].proc = None
<1>1. worker[i].pc = "ACCEPTED" /\ UNCHANGED <<taken, documents, rows, memory, processes>>
  BY DEF Load, At
<1>2. CASE EndWorker(i)
  BY <1>1, <1>2, EndEffect DEF Frame, OnlyAt, TypeOK, documents, rows, memory, processes
<1>3. CASE run[i] = "PROCESSING" /\ worker' = [worker EXCEPT ![i].pc = "LOADED", ![i].read = Latest]
  <2> DEFINE task == TaskLoaded(worker[i], Latest)
  <2>1. worker' = [worker EXCEPT ![i] = task]
    BY <1>3 DEF TaskLoaded
  <2>2. task \in Worker /\ task.pc = "LOADED" /\ task.read = Latest /\ task.proc = worker[i].proc
    <3>1. worker[i] \in Worker /\ Latest \in Collection
      BY LatestType DEF TypeOK
    <3> QED BY <3>1, TaskFields
  <2> HIDE DEF task
  <2>3. /\ worker' \in [Index -> Worker] /\ worker'[i] = task
        /\ \A j \in Index \ {i} : worker'[j] = worker[j]
    BY <2>1, <2>2, SetWorker
  <2> QED BY <1>1, <1>3, <2>2, <2>3 DEF Frame, OnlyAt, TypeOK, documents, rows, memory, processes
<1> QED BY <1>2, <1>3 DEF Load

\* The steps around the embedding request
LEMMA CallEffect ==
    ASSUME TypeOK, NEW i \in Index, StartCall(i) \/ CallFails(i) \/ CallAnswers(i)
    PROVE  /\ Frame(i) /\ UNCHANGED <<index, run>>
           /\ worker[i].pc \in {"LOADED", "CALLING"}
           /\ worker'[i].pc \in {"CALLING", "EMBEDDED", "FAILING"}
           /\ worker'[i].read = worker[i].read /\ worker'[i].proc = worker[i].proc
<1>1. PICK pc \in {"CALLING", "EMBEDDED", "FAILING"} : Goto(i, pc)
  BY DEF StartCall, CallFails, CallAnswers
<1>2. /\ worker[i].pc \in {"LOADED", "CALLING"}
      /\ UNCHANGED <<taken, documents, index, run, memory, processes>>
      /\ call' \in [Index -> CallState]
  BY DEF StartCall, CallFails, CallAnswers, At, rows, TypeOK, CallState
<1>3. pc \in Pc
  BY DEF Pc
<1>4. /\ worker' \in [Index -> Worker]
      /\ worker'[i].pc = pc /\ worker'[i].read = worker[i].read /\ worker'[i].proc = worker[i].proc
      /\ \A j \in Index \ {i} : worker'[j] = worker[j]
  BY <1>1, <1>3, GotoEffect
<1> QED BY <1>2, <1>4 DEF Frame, OnlyAt, TypeOK, documents, memory, processes

\* store_index_items
LEMMA StoreEffect ==
    ASSUME TypeOK, NEW i \in Index, Store(i)
    PROVE  /\ Frame(i) /\ UNCHANGED run
           /\ worker[i].pc \in {"LOADED", "EMBEDDED"}
           /\ index'[i].status = "VALIDATING" /\ index'[i].no = index[i].no
           /\ index'[i].docs = worker[i].read
           /\ worker'[i].pc = "VALIDATING"
           /\ worker'[i].read = worker[i].read /\ worker'[i].proc = worker[i].proc
<1> DEFINE row == RowStored(index[i], worker[i].read)
<1>1. index' = [index EXCEPT ![i] = row]
  BY DEF Store, RowStored
<1>2. row \in IndexRow /\ row.status = "VALIDATING" /\ row.no = index[i].no /\ row.docs = worker[i].read
  <2>1. index[i] \in IndexRow /\ worker[i].read \in Collection
    BY DEF TypeOK, Worker
  <2> QED BY <2>1, RowFields
<1> HIDE DEF row
<1>3. /\ index' \in [Index -> IndexRow] /\ index'[i] = row
      /\ \A j \in Index \ {i} : index'[j] = index[j]
  BY <1>1, <1>2, SetIndex
<1>4. /\ worker' \in [Index -> Worker]
      /\ worker'[i].pc = "VALIDATING"
      /\ worker'[i].read = worker[i].read /\ worker'[i].proc = worker[i].proc
      /\ \A j \in Index \ {i} : worker'[j] = worker[j]
  BY GotoEffect DEF Store, Pc
<1>5. /\ worker[i].pc \in {"LOADED", "EMBEDDED"} /\ call' \in [Index -> CallState]
      /\ UNCHANGED <<taken, documents, run, memory, processes>>
  BY DEF Store, TypeOK, FinishedCall, CallState
<1> QED BY <1>2, <1>3, <1>4, <1>5 DEF Frame, OnlyAt, TypeOK, documents, memory, processes

\* mark_index_ready gives the candidate the next number.
LEMMA MarkReadyEffect ==
    ASSUME TypeOK, Bounded, NEW i \in Index, MarkReady(i)
    PROVE  /\ Frame(i) /\ UNCHANGED run
           /\ worker[i].pc = "VALIDATING"
           /\ index'[i].status = "READY" /\ index'[i].docs = index[i].docs
           /\ index'[i].no > 0 /\ \A j \in Index : index[j].no < index'[i].no
           /\ worker'[i].pc = "READY"
           /\ worker'[i].read = worker[i].read /\ worker'[i].proc = worker[i].proc
<1> DEFINE S == {index[j].no : j \in Index} \cup {0}
           row == RowNumbered(index[i], NextNo)
<1>1. PICK b \in Nat : \A j \in Index : index[j].no <= b
  BY DEF Bounded
<1>2. /\ S \in SUBSET Nat /\ S # {}
      /\ \A x \in S : x <= b
  BY <1>1 DEF TypeOK, IndexRow
<1>3. Max(S) \in S /\ \A x \in S : x <= Max(S)
  BY <1>2, Maximum
<1>4. NextNo \in Nat /\ NextNo > 0 /\ \A j \in Index : index[j].no < NextNo
  <2>1. \A j \in Index : index[j].no \in S /\ index[j].no \in Nat
    BY DEF TypeOK, IndexRow
  <2>2. Max(S) \in Nat /\ NextNo = Max(S) + 1
    BY <1>2, <1>3 DEF NextNo
  <2> HIDE DEF S
  <2> QED BY <1>3, <2>1, <2>2
<1>5. index' = [index EXCEPT ![i] = row]
  BY DEF MarkReady, RowNumbered
<1>6. row \in IndexRow /\ row.status = "READY" /\ row.no = NextNo /\ row.docs = index[i].docs
  <2>1. index[i] \in IndexRow
    BY DEF TypeOK
  <2> QED BY <1>4, <2>1, RowFields
<1> HIDE DEF row
<1>7. /\ index' \in [Index -> IndexRow] /\ index'[i] = row
      /\ \A j \in Index \ {i} : index'[j] = index[j]
  BY <1>5, <1>6, SetIndex
<1>8. /\ worker' \in [Index -> Worker]
      /\ worker'[i].pc = "READY"
      /\ worker'[i].read = worker[i].read /\ worker'[i].proc = worker[i].proc
      /\ \A j \in Index \ {i} : worker'[j] = worker[j]
  BY GotoEffect DEF MarkReady, Pc
<1>9. worker[i].pc = "VALIDATING" /\ UNCHANGED <<taken, documents, run, call, memory, processes>>
  BY DEF MarkReady, At
<1> QED BY <1>4, <1>6, <1>7, <1>8, <1>9 DEF Frame, OnlyAt, TypeOK, documents, memory, processes

\* fail_index keeps a READY candidate.
LEMMA FailEffect ==
    ASSUME TypeOK, NEW i \in Index, Fail(i)
    PROVE  /\ Frame(i)
           /\ worker[i].pc \notin {"NONE", "ACCEPTED", "CALLING", "APPLIED"}
           /\ run[i] = "PROCESSING" /\ run'[i] = "FAILED"
           /\ index[i].status # "ACTIVE"
           /\ IF index[i].status = "READY" THEN index'[i].status = "READY"
                                           ELSE index'[i].status = "FAILED"
           /\ index'[i].no = index[i].no /\ index'[i].docs = index[i].docs
           /\ worker'[i].pc = "NONE" /\ worker'[i].proc = None
<1> DEFINE s == IF index[i].status = "READY" THEN "READY" ELSE "FAILED"
           row == RowAs(index[i], s)
<1>1. index' = [index EXCEPT ![i] = row]
  BY DEF Fail, RowAs
<1>2. row \in IndexRow /\ row.status = s /\ row.no = index[i].no /\ row.docs = index[i].docs
  <2>1. index[i] \in IndexRow /\ s \in IndexStatus
    BY DEF TypeOK, IndexStatus
  <2> QED BY <2>1, RowFields
<1> HIDE DEF row
<1>3. /\ index' \in [Index -> IndexRow] /\ index'[i] = row
      /\ \A j \in Index \ {i} : index'[j] = index[j]
  BY <1>1, <1>2, SetIndex
<1>4. /\ worker' \in [Index -> Worker]
      /\ worker'[i].pc = "NONE" /\ worker'[i].proc = None
      /\ \A j \in Index \ {i} : worker'[j] = worker[j]
  BY EndEffect DEF Fail
<1>5. /\ run' \in [Index -> RunStatus] /\ run'[i] = "FAILED"
      /\ \A j \in Index \ {i} : run'[j] = run[j]
  BY SetRun DEF Fail, RunStatus
<1>6. /\ worker[i].pc \notin {"NONE", "ACCEPTED", "CALLING", "APPLIED"}
      /\ run[i] = "PROCESSING" /\ index[i].status # "ACTIVE"
      /\ UNCHANGED <<taken, documents, call, memory, processes>>
  BY DEF Fail, Working
<1>7. Frame(i)
  BY <1>3, <1>4, <1>5, <1>6 DEF Frame, OnlyAt, TypeOK, documents, memory, processes
<1> QED BY <1>2, <1>3, <1>4, <1>5, <1>6, <1>7

\* A worker that ends without a trace
LEMMA StopEffect ==
    ASSUME TypeOK, NEW i \in Index, FailRefused(i) \/ FailureUnrecorded(i) \/ PublishFails(i)
    PROVE  /\ Frame(i) /\ UNCHANGED <<index, run>>
           /\ worker[i].pc # "NONE" /\ worker'[i].pc = "NONE" /\ worker'[i].proc = None
<1>1. /\ EndWorker(i) /\ worker[i].pc # "NONE"
      /\ UNCHANGED <<taken, documents, rows, memory, processes>>
  BY DEF FailRefused, FailureUnrecorded, PublishFails, Working, At
<1> QED BY <1>1, EndEffect DEF Frame, OnlyAt, TypeOK, documents, rows, memory, processes

\* _publish_corpus
LEMMA PublishEffect ==
    ASSUME TypeOK, NEW i \in Index, Publish(i)
    PROVE  /\ TypeOK' /\ OnlyAt(i) /\ UNCHANGED <<index, run, reload, documents, taken, processes>>
           /\ worker[i].pc = "APPLIED" /\ worker'[i].pc = "NONE" /\ worker'[i].proc = None
           /\ \A p \in Proc : registry'[p] \in {registry[p], i}
<1>1. /\ EndWorker(i) /\ worker[i].pc = "APPLIED"
      /\ UNCHANGED <<taken, documents, rows, reload, processes>>
      /\ registry' \in [Proc -> Index \cup {None}]
      /\ \A p \in Proc : registry'[p] \in {registry[p], i}
  BY DEF Publish, At, TypeOK
<1> QED BY <1>1, EndEffect DEF OnlyAt, TypeOK, documents, rows, processes

\* apply_index: the other ACTIVE and READY versions step down.
LEMMA ApplyEffect ==
    ASSUME TypeOK, NEW i \in Index, Apply(i)
    PROVE  /\ TypeOK' /\ UNCHANGED <<memory, documents, taken, processes>>
           /\ worker[i].pc = "READY" /\ worker'[i].pc = "APPLIED"
           /\ worker'[i].read = worker[i].read /\ worker'[i].proc = worker[i].proc
           /\ run'[i] = "SUCCESS"
           /\ index'[i].status = "ACTIVE"
           /\ \A j \in Index : index'[j].no = index[j].no /\ index'[j].docs = index[j].docs
           /\ \A j \in Index \ {i} :
                 /\ worker'[j] = worker[j] /\ run'[j] = run[j]
                 /\ IF index[j].status \in {"ACTIVE", "READY"}
                      THEN index'[j].status = "INACTIVE"
                      ELSE index'[j].status = index[j].status
<1>1. index' = [j \in Index |->
         IF j = i THEN RowAs(index[j], "ACTIVE")
         ELSE IF j \in Retired(i) THEN RowAs(index[j], "INACTIVE")
         ELSE index[j]]
  BY DEF Apply, RowAs
<1>2. \A j \in Index : \A s \in {"ACTIVE", "INACTIVE"} :
         /\ RowAs(index[j], s) \in IndexRow
         /\ RowAs(index[j], s).status = s
         /\ RowAs(index[j], s).no = index[j].no
         /\ RowAs(index[j], s).docs = index[j].docs
  BY RowFields DEF TypeOK, IndexStatus
<1>3. \A j \in Index : j \in Retired(i) <=> j # i /\ index[j].status \in {"ACTIVE", "READY"}
  BY DEF Retired, Having
<1>4. index' \in [Index -> IndexRow]
  BY <1>1, <1>2 DEF TypeOK
<1>5. /\ index'[i].status = "ACTIVE"
      /\ \A j \in Index : index'[j].no = index[j].no /\ index'[j].docs = index[j].docs
      /\ \A j \in Index \ {i} :
            IF index[j].status \in {"ACTIVE", "READY"}
              THEN index'[j].status = "INACTIVE"
              ELSE index'[j].status = index[j].status
  BY <1>1, <1>2, <1>3
<1>6. /\ worker' \in [Index -> Worker]
      /\ worker'[i].pc = "APPLIED"
      /\ worker'[i].read = worker[i].read /\ worker'[i].proc = worker[i].proc
      /\ \A j \in Index \ {i} : worker'[j] = worker[j]
  BY GotoEffect DEF Apply, Pc
<1>7. /\ run' \in [Index -> RunStatus] /\ run'[i] = "SUCCESS"
      /\ \A j \in Index \ {i} : run'[j] = run[j]
  BY SetRun DEF Apply, RunStatus
<1>8. worker[i].pc = "READY" /\ UNCHANGED <<taken, documents, call, memory, processes>>
  BY DEF Apply, At
<1>9. TypeOK'
  BY <1>4, <1>6, <1>7, <1>8 DEF TypeOK, documents, memory, processes
<1> QED BY <1>5, <1>6, <1>7, <1>8, <1>9


\* close_interrupted_runs: candidates that are not READY have failed.
LEMMA StartupCloseEffect ==
    ASSUME TypeOK, NEW p \in Proc, StartupClose(p)
    PROVE  /\ TypeOK' /\ UNCHANGED <<memory, documents, taken, worker>>
           /\ proc[p] = "CLOSING" /\ proc' = [proc EXCEPT ![p] = "LOADING"]
           /\ stale' = [stale EXCEPT ![p] = {}]
           /\ \A j \in Index :
                 /\ index'[j].no = index[j].no /\ index'[j].docs = index[j].docs
                 /\ IF j \in stale[p] /\ index[j].status \in {"BUILDING", "VALIDATING"}
                      THEN index'[j].status = "FAILED"
                      ELSE index'[j].status = index[j].status
                 /\ IF j \in stale[p] THEN run'[j] = "FAILED" ELSE run'[j] = run[j]
<1>1. /\ index' = [j \in Index |->
             IF j \in stale[p] /\ index[j].status \in {"BUILDING", "VALIDATING"}
               THEN RowAs(index[j], "FAILED") ELSE index[j]]
      /\ run' = [j \in Index |-> IF j \in stale[p] THEN "FAILED" ELSE run[j]]
      /\ proc[p] = "CLOSING" /\ proc' = [proc EXCEPT ![p] = "LOADING"]
      /\ stale' = [stale EXCEPT ![p] = {}]
      /\ UNCHANGED <<taken, documents, call, worker, memory, crashes>>
  BY DEF StartupClose, RowAs
<1>2. \A j \in Index : /\ RowAs(index[j], "FAILED") \in IndexRow
                       /\ RowAs(index[j], "FAILED").status = "FAILED"
                       /\ RowAs(index[j], "FAILED").no = index[j].no
                       /\ RowAs(index[j], "FAILED").docs = index[j].docs
  BY RowFields DEF TypeOK, IndexStatus
<1>3. index' \in [Index -> IndexRow]
  BY <1>1, <1>2 DEF TypeOK
<1>4. run' \in [Index -> RunStatus]
  BY <1>1 DEF TypeOK, RunStatus
<1>5. TypeOK'
  BY <1>1, <1>3, <1>4 DEF TypeOK, ProcState, documents, memory
<1> QED BY <1>1, <1>2, <1>5

-----------------------------------------------------------------------------
(* Every step keeps the invariant of any instance *)

\* Every step of a worker keeps the invariant.
LEMMA WorkerKeeps ==
    ASSUME IInv, NEW i \in Index, WorkerStep(i) \/ PublishFails(i) \/ FailureUnrecorded(i)
    PROVE  IInv'
<1> USE DEF Frame
<1>0. TypeOK /\ Bounded /\ RowFits(i)
  BY DEF IInv
<1>1. CASE Load(i)
  <2>1. TypeOK' /\ OnlyAt(i) /\ UNCHANGED <<index, memory>> /\ worker[i].pc = "ACCEPTED"
        /\ worker'[i].pc \in {"LOADED", "NONE"}
    BY <1>0, <1>1, LoadEffect
  <2>2. RowFits(i)' /\ ~Applied(i)
    BY <1>0, <2>1 DEF RowFits, Building, Applied
  <2> QED BY <2>1, <2>2, RowKeeps
<1>2. CASE StartCall(i) \/ CallFails(i) \/ CallAnswers(i)
  <2>1. /\ TypeOK' /\ OnlyAt(i) /\ UNCHANGED <<index, memory>>
        /\ worker[i].pc \in {"LOADED", "CALLING"}
        /\ worker'[i].pc \in {"CALLING", "EMBEDDED", "FAILING"}
    BY <1>0, <1>2, CallEffect
  <2>2. RowFits(i)' /\ ~Applied(i)
    BY <1>0, <2>1 DEF RowFits, Building, Applied
  <2> QED BY <2>1, <2>2, RowKeeps
<1>3. CASE Store(i)
  <2>1. /\ TypeOK' /\ OnlyAt(i) /\ UNCHANGED memory
        /\ worker[i].pc \in {"LOADED", "EMBEDDED"} /\ worker'[i].pc = "VALIDATING"
        /\ index'[i].status = "VALIDATING" /\ index'[i].no = index[i].no
    BY <1>0, <1>3, StoreEffect
  <2>2. RowFits(i)' /\ ~Applied(i)
    BY <1>0, <2>1 DEF RowFits, Building, Applied
  <2> QED BY <2>1, <2>2, RowKeeps
<1>4. CASE MarkReady(i)
  <2>1. /\ TypeOK' /\ OnlyAt(i) /\ UNCHANGED memory
        /\ worker[i].pc = "VALIDATING" /\ worker'[i].pc = "READY"
        /\ index'[i].status = "READY" /\ index'[i].no > 0
        /\ \A j \in Index : index[j].no < index'[i].no
    BY <1>0, <1>4, MarkReadyEffect
  <2>2. RowFits(i)' /\ ~Applied(i)
    BY <2>1 DEF RowFits, Building, Applied
  <2> QED BY <2>1, <2>2, RowKeeps
<1>5. CASE Apply(i)
  <2>1. /\ TypeOK' /\ UNCHANGED memory
        /\ worker[i].pc = "READY" /\ worker'[i].pc = "APPLIED" /\ index'[i].status = "ACTIVE"
        /\ \A j \in Index : index'[j].no = index[j].no
        /\ \A j \in Index \ {i} :
              /\ worker'[j] = worker[j]
              /\ IF index[j].status \in {"ACTIVE", "READY"}
                   THEN index'[j].status = "INACTIVE"
                   ELSE index'[j].status = index[j].status
    BY <1>0, <1>5, ApplyEffect
  <2>2. \A j \in Index \ {i} : RowFits(j)' /\ (Applied(j) => Applied(j)')
    <3> SUFFICES ASSUME NEW j \in Index \ {i}
                 PROVE  RowFits(j)' /\ (Applied(j) => Applied(j)')
      OBVIOUS
    <3>1. RowFits(j)
      BY DEF IInv
    <3> QED BY <2>1, <3>1 DEF RowFits, Building, Applied
  <2>3. RowFits(i)' /\ ~Applied(i)
    BY <1>0, <2>1 DEF RowFits, Building, Applied
  <2>4. (ActiveIsUnique /\ Bounded /\ VersionNumbersDiffer)'
    BY <2>1 DEF IInv, ActiveIsUnique, Bounded, VersionNumbersDiffer
  <2>5. MemoryApplied'
    BY <2>1, <2>2, <2>3 DEF IInv, TypeOK, MemoryApplied, memory
  <2> QED BY <2>1, <2>2, <2>3, <2>4, <2>5 DEF IInv
<1>6. CASE Fail(i)
  <2>1. /\ TypeOK' /\ OnlyAt(i) /\ UNCHANGED memory
        /\ worker[i].pc \notin {"NONE", "ACCEPTED", "CALLING", "APPLIED"} /\ worker'[i].pc = "NONE"
        /\ index[i].status # "ACTIVE"
        /\ IF index[i].status = "READY" THEN index'[i].status = "READY"
                                        ELSE index'[i].status = "FAILED"
        /\ index'[i].no = index[i].no
    BY <1>0, <1>6, FailEffect
  <2>2. RowFits(i)' /\ ~Applied(i)
    BY <1>0, <2>1 DEF RowFits, Building, Applied
  <2> QED BY <2>1, <2>2, RowKeeps
<1>7. CASE FailRefused(i) \/ FailureUnrecorded(i) \/ PublishFails(i)
  <2>1. /\ TypeOK' /\ OnlyAt(i) /\ UNCHANGED <<index, memory>> /\ worker'[i].pc = "NONE"
    BY <1>0, <1>7, StopEffect
  <2> QED BY <2>1, QuietKeeps DEF OnlyAt, memory
<1>8. CASE Publish(i)
  <2>1. /\ TypeOK' /\ OnlyAt(i) /\ UNCHANGED <<index, reload>>
        /\ worker[i].pc = "APPLIED" /\ worker'[i].pc = "NONE"
        /\ \A p \in Proc : registry'[p] \in {registry[p], i}
    BY <1>0, <1>8, PublishEffect
  <2> QED BY <2>1, QuietKeeps DEF OnlyAt
<1> QED BY <1>1, <1>2, <1>3, <1>4, <1>5, <1>6, <1>7, <1>8 DEF WorkerStep

\* Every step of a process, its end included, keeps the invariant.
LEMMA ProcessKeeps ==
    ASSUME IInv, NEW p \in Proc, ReloadRead(p) \/ ReloadReplace(p) \/ ProcessStep(p) \/ Crash(p)
    PROVE  IInv'
<1>0. TypeOK
  BY DEF IInv
<1>1. CASE ReloadRead(p)
  <2>1. PICK i \in Having("ACTIVE") : reload' = [reload EXCEPT ![p] = i]
    BY <1>1 DEF ReloadRead
  <2>2. i \in Index /\ UNCHANGED <<taken, documents, rows, worker, registry, processes>>
    BY <1>1 DEF ReloadRead, Having
  <2>3. TypeOK'
    BY <1>0, <2>1, <2>2 DEF TypeOK, documents, rows, processes
  <2> QED BY <1>0, <2>1, <2>2, <2>3, QuietKeeps DEF rows, TypeOK
<1>2. CASE ReloadReplace(p)
  <2>1. /\ registry' = [registry EXCEPT ![p] = reload[p]]
        /\ reload' = [reload EXCEPT ![p] = None]
        /\ UNCHANGED <<taken, documents, rows, worker, processes>>
    BY <1>2 DEF ReloadReplace
  <2>2. TypeOK'
    BY <1>0, <2>1 DEF TypeOK, documents, rows, processes
  <2> QED BY <1>0, <2>1, <2>2, QuietKeeps DEF rows, TypeOK
<1>3. CASE StartupScan(p) \/ StartupCloseFails(p)
  <2>1. UNCHANGED <<taken, documents, rows, worker, memory>> /\ TypeOK'
    BY <1>0, <1>3 DEF StartupScan, StartupCloseFails, TypeOK, ProcState, documents, rows, memory
  <2> QED BY <2>1, QuietKeeps DEF rows, memory
<1>4. CASE StartupLoad(p)
  <2>1. \/ UNCHANGED registry
        \/ \E i \in Having("ACTIVE") : registry' = [registry EXCEPT ![p] = i]
    BY <1>4 DEF StartupLoad
  <2>2. /\ registry' \in [Proc -> Index \cup {None}]
        /\ \A q \in Proc : registry'[q] \in {registry[q]} \cup Having("ACTIVE")
    BY <1>0, <2>1 DEF TypeOK, Having
  <2>3. UNCHANGED <<taken, documents, rows, worker, reload>> /\ TypeOK'
    BY <1>0, <1>4, <2>2 DEF StartupLoad, TypeOK, ProcState, documents, rows
  <2> QED BY <2>2, <2>3, QuietKeeps DEF rows
<1>5. CASE Crash(p)
  <2>1. /\ UNCHANGED <<taken, documents, rows>>
        /\ registry' = [registry EXCEPT ![p] = None]
        /\ reload' = [reload EXCEPT ![p] = None]
        /\ worker' = [i \in Index |-> IF worker[i].proc = p THEN NoWorker ELSE worker[i]]
    BY <1>5 DEF Crash
  <2>2. /\ worker' \in [Index -> Worker]
        /\ \A j \in Index : worker'[j] = worker[j] \/ worker'[j].pc = "NONE"
    BY <1>0, <2>1, NewTasks DEF TypeOK
  <2>3. TypeOK'
    <3>1. crashes' \in 0..MaxCrash
      BY <1>0, <1>5, IndexAssumption DEF Crash, TypeOK
    <3> QED BY <1>0, <1>5, <2>2, <3>1 DEF Crash, TypeOK, ProcState, documents, rows
  <2> QED BY <1>0, <2>1, <2>2, <2>3, QuietKeeps DEF rows, TypeOK
<1>6. CASE StartupClose(p)
  <2>1. /\ TypeOK' /\ UNCHANGED <<memory, worker>>
        /\ \A j \in Index :
              /\ index'[j].no = index[j].no
              /\ \/ index'[j].status = index[j].status
                 \/ index[j].status \in {"BUILDING", "VALIDATING"} /\ index'[j].status = "FAILED"
    BY <1>0, <1>6, StartupCloseEffect
  <2>2. \A j \in Index : RowFits(j)'
    <3> SUFFICES ASSUME NEW j \in Index PROVE RowFits(j)'
      OBVIOUS
    <3>1. RowFits(j)
      BY DEF IInv
    <3> QED BY <2>1, <3>1 DEF RowFits, Building
  <2>3. (ActiveIsUnique /\ Bounded /\ VersionNumbersDiffer)'
    BY <2>1 DEF IInv, ActiveIsUnique, Bounded, VersionNumbersDiffer
  <2>4. MemoryApplied'
    <3>1. \A j \in Index : Applied(j) => Applied(j)'
      BY <2>1 DEF Applied
    <3> QED BY <2>1, <3>1 DEF IInv, TypeOK, MemoryApplied, memory
  <2> QED BY <2>1, <2>2, <2>3, <2>4 DEF IInv
<1> QED BY <1>1, <1>2, <1>3, <1>4, <1>5, <1>6 DEF ProcessStep

\* Every step keeps the invariant.
LEMMA NextIInv == IInv /\ [Next]_vars => IInv'
<1> SUFFICES ASSUME IInv, [Next]_vars PROVE IInv'
  OBVIOUS
<1>0. TypeOK
  BY DEF IInv
<1>1. ASSUME NEW p \in Proc, NEW i \in Index, Accept(p, i)
      PROVE  IInv'
  <2>1. /\ TypeOK' /\ OnlyAt(i) /\ UNCHANGED memory
        /\ index[i].status = "NONE" /\ index'[i].status = "BUILDING" /\ index'[i].no = 0
        /\ worker'[i].pc = "ACCEPTED"
    BY <1>0, <1>1, AcceptEffect DEF Frame
  <2>2. RowFits(i)' /\ ~Applied(i)
    BY <2>1 DEF RowFits, Building, Applied
  <2> QED BY <2>1, <2>2, RowKeeps
<1>2. ASSUME NEW o \in Shell, NEW i \in Index, ShellStarts(o, i)
      PROVE  IInv'
  <2>1. /\ TypeOK' /\ OnlyAt(i) /\ UNCHANGED memory
        /\ index[i].status = "NONE" /\ index'[i].status = "BUILDING" /\ index'[i].no = 0
        /\ worker'[i].pc = "LOADED"
    BY <1>0, <1>2, ShellStartsEffect
  <2>2. RowFits(i)' /\ ~Applied(i)
    BY <2>1 DEF RowFits, Building, Applied
  <2> QED BY <2>1, <2>2, RowKeeps
<1>3. CASE DocumentChanges \/ ShellGivesUp \/ \E s \in Source : ShellTakes(s)
  <2>1. UNCHANGED <<rows, worker, memory, processes>>
    BY <1>3 DEF DocumentChanges, ShellGivesUp, ShellTakes
  <2>2. newest' \in Collection /\ enabled' \subseteq Source /\ taken' \in Collection
    <3>1. MaxVersion \in Nat
      BY IndexAssumption
    <3> QED BY <1>0, <1>3, <3>1, Collections
            DEF DocumentChanges, ShellGivesUp, ShellTakes, TypeOK, Collection, documents
  <2> QED BY <1>0, <2>1, <2>2, QuietKeeps DEF TypeOK, rows, memory, processes
<1>4. CASE UNCHANGED vars
  <2>1. TypeOK' /\ UNCHANGED <<index, worker, registry, reload>>
    BY <1>0, <1>4 DEF TypeOK, vars, documents, rows, memory, processes
  <2> QED BY <2>1, QuietKeeps
<1> QED BY <1>1, <1>2, <1>3, <1>4, WorkerKeeps, ProcessKeeps DEF Next

\* The invariant holds before the first run.
LEMMA InitIInv == Init => IInv
<1> SUFFICES ASSUME Init PROVE IInv
  OBVIOUS
<1>1. NoIndex \in IndexRow /\ NoIndex.status = "NONE" /\ NoIndex.no = 0
  <2>1. Cardinality(Source) \in Nat
    BY IndexAssumption, FS_CardinalityType
  <2> QED BY <2>1, Collections DEF NoIndex, IndexRow, IndexStatus
<1>2. TypeOK
  BY <1>1, Collections, NewTasks, IndexAssumption
     DEF Init, TypeOK, RunStatus, CallState, ProcState
<1>3. \A i \in Index : index[i].status = "NONE" /\ index[i].no = 0 /\ worker[i].pc = "NONE"
  BY <1>1, NewTasks DEF Init
<1>4. \A i \in Index : RowFits(i)
  BY <1>3 DEF RowFits, Building
<1>5. ActiveIsUnique /\ VersionNumbersDiffer
  BY <1>3 DEF ActiveIsUnique, VersionNumbersDiffer
<1>6. Bounded
  <2>1. \A i \in Index : index[i].no <= 0
    BY <1>3
  <2> QED BY <2>1 DEF Bounded
<1>7. MemoryApplied
  BY DEF Init, MemoryApplied
<1> QED BY <1>2, <1>4, <1>5, <1>6, <1>7 DEF IInv


\* The inductive invariant of any instance holds at first and is kept.
THEOREM Invariance == Spec => []IInv
BY InitIInv, NextIInv, PTL DEF Spec

\* The variables of the model keep their types.
THEOREM TypeCorrect == Spec => []TypeOK
<1>1. IInv => TypeOK
  BY DEF IInv
<1> QED BY <1>1, Invariance, PTL

\* apply_index never runs into the unique index of models.py, with any number
\* of processes and a command line beside them.
THEOREM OneIsActive == Spec => []OneActive
<1>1. IInv => OneActive
  <2> SUFFICES ASSUME IInv PROVE OneActive
    OBVIOUS
  <2>1. CASE Having("ACTIVE") = {}
    BY <2>1, FS_EmptySet DEF OneActive
  <2>2. CASE Having("ACTIVE") # {}
    <3>1. PICK i \in Having("ACTIVE") : TRUE
      BY <2>2
    <3>2. Having("ACTIVE") = {i}
      BY <3>1 DEF IInv, ActiveIsUnique, Having
    <3> QED BY <3>2, FS_Singleton DEF OneActive
  <2> QED BY <2>1, <2>2
<1> QED BY <1>1, Invariance, PTL

\* No process ever searches a candidate that a rollback could take back.
THEOREM ServesApplied == Spec => []RegistryServesApplied
<1>1. IInv => RegistryServesApplied
  BY DEF IInv, MemoryApplied, Applied, RegistryServesApplied
<1> QED BY <1>1, Invariance, PTL

\* mark_index_ready numbers the versions of a group apart.
THEOREM NumbersDiffer == Spec => []VersionNumbersDiffer
<1>1. IInv => VersionNumbersDiffer
  BY DEF IInv
<1> QED BY <1>1, Invariance, PTL


-----------------------------------------------------------------------------
(* One process without a command line: what the job gate guarantees *)

\* What is served is what the only ACTIVE index holds.
ServedBy(ix) ==
    [s \in Source |->
        IF \E i \in {j \in Index : ix[j].status = "ACTIVE"} : ix[i].docs[s] > 0
          THEN ix[CHOOSE i \in {j \in Index : ix[j].status = "ACTIVE"} : ix[i].docs[s] > 0].docs[s]
          ELSE 0]

\* What is served is read off the index rows alone.
LEMMA ServedIs == Served = ServedBy(index) /\ Served' = ServedBy(index')
BY DEF Served, ServedBy, Having

\* One ACTIVE index is what is served.
LEMMA ServedByOne ==
    ASSUME NEW ix \in [Index -> IndexRow], NEW i \in Index, ix[i].status = "ACTIVE",
           \A j \in Index : ix[j].status = "ACTIVE" => j = i
    PROVE  ServedBy(ix) = ix[i].docs
<1> DEFINE A == {j \in Index : ix[j].status = "ACTIVE"}
<1>1. A = {i}
  OBVIOUS
<1>2. ix[i].docs \in Collection
  BY DEF IndexRow
<1>3. ASSUME NEW s \in Source
      PROVE  ServedBy(ix)[s] = ix[i].docs[s]
  <2>1. ix[i].docs[s] \in Nat
    BY <1>2, IndexAssumption DEF Collection
  <2>2. ServedBy(ix)[s] = IF \E j \in A : ix[j].docs[s] > 0
                            THEN ix[CHOOSE j \in A : ix[j].docs[s] > 0].docs[s]
                            ELSE 0
    BY DEF ServedBy
  <2>3. CASE ix[i].docs[s] > 0
    <3>1. (CHOOSE j \in A : ix[j].docs[s] > 0) = i
      BY <1>1, <2>3
    <3> QED BY <1>1, <2>2, <2>3, <3>1
  <2>4. CASE ix[i].docs[s] = 0
    BY <1>1, <2>2, <2>4
  <2> QED BY <2>1, <2>3, <2>4
<1>4. ServedBy(ix) = [s \in Source |-> ServedBy(ix)[s]]
  BY DEF ServedBy
<1>5. ix[i].docs = [s \in Source |-> ix[i].docs[s]]
  BY <1>2 DEF Collection
<1> QED BY <1>3, <1>4, <1>5

\* Without an ACTIVE index nothing is served.
LEMMA ServedByNone ==
    ASSUME NEW ix \in [Index -> IndexRow], \A j \in Index : ix[j].status # "ACTIVE"
    PROVE  ServedBy(ix) = Nothing
BY DEF ServedBy, Nothing

\* A step that keeps the ACTIVE index and its documents keeps what is served.
LEMMA ServedKeeps ==
    ASSUME IInv, IInv',
           \A j \in Index : /\ index'[j].status = "ACTIVE" <=> index[j].status = "ACTIVE"
                            /\ index[j].status = "ACTIVE" => index'[j].docs = index[j].docs
    PROVE  Served' = Served
<1>1. index \in [Index -> IndexRow] /\ index' \in [Index -> IndexRow]
  BY DEF IInv, TypeOK
<1>2. CASE \A j \in Index : index[j].status # "ACTIVE"
  BY <1>1, <1>2, ServedIs, ServedByNone
<1>3. ASSUME NEW i \in Index, index[i].status = "ACTIVE"
      PROVE  Served' = Served
  <2>1. /\ \A j \in Index : index[j].status = "ACTIVE" => j = i
        /\ \A j \in Index : index'[j].status = "ACTIVE" => j = i
    BY <1>3 DEF IInv, ActiveIsUnique
  <2>2. Served = index[i].docs
    BY <1>1, <1>3, <2>1, ServedIs, ServedByOne
  <2>3. Served' = index'[i].docs
    BY <1>1, <1>3, <2>1, ServedIs, ServedByOne
  <2> QED BY <1>3, <2>2, <2>3
<1> QED BY <1>2, <1>3

\* What no step does to a numbered index, and to a closed run
KeepsNumbered ==
    \A j \in Index : index[j].no > 0 =>
        /\ index'[j].docs = index[j].docs
        /\ index'[j].no = index[j].no
        /\ index'[j].status \notin {"BUILDING", "VALIDATING", "FAILED"}
KeepsClosed == \A j \in Index : run'[j] # run[j] /\ run[j] # "NONE" => run[j] = "PROCESSING"

Lawful ==
    /\ AInv'
    /\ KeepsNumbered
    /\ KeepsClosed
    /\ [Promise!Next]_<<newest, enabled, Served>>

\* The process that carries a worker is up and has scanned nothing.
LEMMA WorkerIsUp ==
    ASSUME AInv, Alone, NEW i \in Index, worker[i].pc # "NONE"
    PROVE  /\ worker[i].proc \in Proc /\ proc[worker[i].proc] = "UP"
           /\ \A p \in Proc : stale[p] = {}
<1>1. worker[i].proc \in Proc
  BY DEF AInv, IInv, TypeOK, Worker, AloneFits, Alone
<1>2. proc[worker[i].proc] = "UP"
  BY <1>1 DEF AInv, StartsClean
<1> QED BY <1>1, <1>2 DEF AInv, StartsClean, Alone

\* A step on one index that keeps the ACTIVE one and what is numbered is lawful.
LEMMA LawfulRow ==
    ASSUME AInv, IInv', Alone, NEW i \in Index, Frame(i), AloneFits(i)',
           index[i].status = "ACTIVE" => index'[i] = index[i],
           index'[i].status = "ACTIVE" => index[i].status = "ACTIVE",
           index[i].no > 0 => index'[i].docs = index[i].docs /\ index'[i].no = index[i].no,
           index[i].no = 0 \/ index'[i].no > 0,
           \/ run'[i] = run[i]
           \/ run[i] = "PROCESSING" /\ run'[i] # "NONE"
           \/ run[i] = "NONE" /\ GateOpen /\ Latest # Served /\ Latest # Nothing,
           worker[i].pc # "NONE" \/ run[i] = "NONE",
           worker'[i].proc \in {None, worker[i].proc} \/ proc[worker'[i].proc] = "UP"
    PROVE  Lawful
<1>1. Latest' = Latest /\ UNCHANGED <<newest, enabled, taken, proc, stale>>
  BY DEF Frame, Latest, documents, processes
<1>2. Served' = Served
  <2>1. \A j \in Index : /\ index'[j].status = "ACTIVE" <=> index[j].status = "ACTIVE"
                         /\ index[j].status = "ACTIVE" => index'[j].docs = index[j].docs
    BY DEF Frame, OnlyAt
  <2> QED BY <2>1, ServedKeeps DEF AInv
<1>3. \A j \in Index : AloneFits(j)'
  <2> SUFFICES ASSUME NEW j \in Index \ {i} PROVE AloneFits(j)'
    OBVIOUS
  <2>1. AloneFits(j)
    BY DEF AInv
  <2>2. index'[j] = index[j] /\ worker'[j] = worker[j] /\ run'[j] = run[j]
    BY DEF Frame, OnlyAt
  <2> QED BY <1>1, <2>1, <2>2 DEF AloneFits
<1>4. OneOpenRun'
  BY DEF AInv, OneOpenRun, Frame, OnlyAt, GateOpen
<1>5. StartsClean'
  <2> SUFFICES ASSUME NEW p \in Proc
               PROVE  /\ proc[p] # "UP" => \A j \in Index : worker'[j].proc # p
                      /\ stale[p] # {} => proc[p] = "CLOSING"
                      /\ \A j \in stale[p] : run'[j] = "PROCESSING"
    BY <1>1 DEF StartsClean
  <2>1. p # None
    BY IndexAssumption
  <2>2. i \notin stale[p]
    BY WorkerIsUp DEF AInv, StartsClean
  <2>3. stale[p] \subseteq Index
    BY DEF AInv, IInv, TypeOK
  <2>4. \A j \in Index \ {i} : worker'[j] = worker[j] /\ run'[j] = run[j]
    BY DEF Frame, OnlyAt
  <2>5. /\ proc[p] # "UP" => \A j \in Index : worker[j].proc # p
        /\ stale[p] # {} => proc[p] = "CLOSING"
        /\ \A j \in stale[p] : run[j] = "PROCESSING"
    BY DEF AInv, StartsClean
  <2> QED BY <2>1, <2>2, <2>3, <2>4, <2>5
<1>6. OpenRunHasWork'
  BY <1>1, <1>2 DEF AInv, OpenRunHasWork, Frame, OnlyAt
<1>7. AInv'
  BY <1>1, <1>3, <1>4, <1>5, <1>6 DEF AInv
<1>8. KeepsNumbered
  <2>1. \A j \in Index : /\ index[j].no \in Nat /\ index'[j].no \in Nat
                         /\ index[j].no > 0 => index[j].status \in {"READY", "ACTIVE", "INACTIVE"}
                         /\ index'[j].no > 0 => index'[j].status \in {"READY", "ACTIVE", "INACTIVE"}
    BY <1>7 DEF AInv, AloneFits, IInv, TypeOK, IndexRow
  <2> QED BY <2>1 DEF KeepsNumbered, Frame, OnlyAt
<1>9. KeepsClosed
  BY DEF KeepsClosed, Frame, OnlyAt
<1> QED BY <1>1, <1>2, <1>7, <1>8, <1>9 DEF Lawful

\* A step that touches neither indexes nor runs is lawful.
LEMMA LawfulQuiet ==
    ASSUME AInv, IInv', Alone, UNCHANGED <<index, run, taken, documents>>, StartsClean',
           \A j \in Index : \/ worker'[j] = worker[j]
                            \/ worker'[j].pc = "NONE" /\ worker'[j].proc = None
    PROVE  Lawful
<1>1. Latest' = Latest /\ Served' = Served /\ UNCHANGED <<newest, enabled>>
  BY DEF Latest, Served, Having, documents
<1>2. \A j \in Index : AloneFits(j)'
  <2> SUFFICES ASSUME NEW j \in Index PROVE AloneFits(j)'
    OBVIOUS
  <2>1. AloneFits(j)
    BY DEF AInv
  <2> QED BY <1>1, <2>1 DEF AloneFits
<1>3. AInv'
  BY <1>1, <1>2 DEF AInv, OneOpenRun, OpenRunHasWork
<1>4. KeepsNumbered
  BY DEF KeepsNumbered, AInv, AloneFits
<1>5. KeepsClosed
  BY DEF KeepsClosed
<1> QED BY <1>1, <1>3, <1>4, <1>5 DEF Lawful


\* Every step of a worker is lawful.
LEMMA WorkerIsLawful ==
    ASSUME AInv, IInv', Alone, NEW i \in Index,
           WorkerStep(i) \/ PublishFails(i) \/ FailureUnrecorded(i)
    PROVE  Lawful
<1>0. IInv /\ TypeOK /\ Bounded /\ RowFits(i) /\ AloneFits(i)
  BY DEF AInv, IInv
<1>a. ASSUME Frame(i) PROVE Latest' = Latest
  BY <1>a DEF Frame, Latest, documents
<1>1. CASE Load(i)
  <2>1. /\ Frame(i) /\ UNCHANGED <<index, run>> /\ worker[i].pc = "ACCEPTED"
        /\ \/ /\ run[i] = "PROCESSING" /\ worker'[i].pc = "LOADED"
              /\ worker'[i].read = Latest /\ worker'[i].proc = worker[i].proc
           \/ worker'[i].pc = "NONE" /\ worker'[i].proc = None
    BY <1>0, <1>1, LoadEffect
  <2>2. AloneFits(i)'
    BY <1>0, <1>a, <2>1 DEF AloneFits
  <2>3. /\ worker[i].pc # "NONE" /\ index[i].no = 0
        /\ worker'[i].proc \in {None, worker[i].proc}
    BY <1>0, <2>1 DEF RowFits, Building
  <2> QED BY <2>1, <2>2, <2>3, LawfulRow
<1>2. CASE StartCall(i) \/ CallFails(i) \/ CallAnswers(i)
  <2>1. /\ Frame(i) /\ UNCHANGED <<index, run>>
        /\ worker[i].pc \in {"LOADED", "CALLING"}
        /\ worker'[i].pc \in {"CALLING", "EMBEDDED", "FAILING"}
        /\ worker'[i].read = worker[i].read /\ worker'[i].proc = worker[i].proc
    BY <1>0, <1>2, CallEffect
  <2>2. AloneFits(i)'
    BY <1>0, <1>a, <2>1 DEF AloneFits
  <2> QED BY <1>0, <2>1, <2>2, LawfulRow DEF IInv, TypeOK, IndexRow
<1>3. CASE Store(i)
  <2>1. /\ Frame(i) /\ UNCHANGED run
        /\ worker[i].pc \in {"LOADED", "EMBEDDED"}
        /\ index'[i].status = "VALIDATING" /\ index'[i].no = index[i].no
        /\ index'[i].docs = worker[i].read
        /\ worker'[i].pc = "VALIDATING"
        /\ worker'[i].read = worker[i].read /\ worker'[i].proc = worker[i].proc
    BY <1>0, <1>3, StoreEffect
  <2>2. index[i].no = 0 /\ index[i].status # "ACTIVE" /\ index[i].status # "NONE"
    BY <1>0, <2>1 DEF RowFits, Building
  <2>3. AloneFits(i)'
    BY <1>0, <1>a, <2>1, <2>2 DEF AloneFits
  <2> QED BY <2>1, <2>2, <2>3, LawfulRow
<1>4. CASE MarkReady(i)
  <2>1. /\ Frame(i) /\ UNCHANGED run
        /\ worker[i].pc = "VALIDATING"
        /\ index'[i].status = "READY" /\ index'[i].docs = index[i].docs
        /\ index'[i].no > 0
        /\ worker'[i].pc = "READY"
        /\ worker'[i].read = worker[i].read /\ worker'[i].proc = worker[i].proc
    BY <1>0, <1>4, MarkReadyEffect
  <2>2. index[i].no = 0 /\ index[i].status # "ACTIVE" /\ index[i].status # "NONE"
    BY <1>0, <2>1 DEF RowFits
  <2>3. AloneFits(i)'
    BY <1>0, <1>a, <2>1, <2>2 DEF AloneFits
  <2> QED BY <2>1, <2>2, <2>3, LawfulRow
<1>6. CASE Fail(i)
  <2>1. /\ Frame(i)
        /\ worker[i].pc \notin {"NONE", "ACCEPTED", "CALLING", "APPLIED"}
        /\ run[i] = "PROCESSING" /\ run'[i] = "FAILED"
        /\ index[i].status # "ACTIVE"
        /\ IF index[i].status = "READY" THEN index'[i].status = "READY"
                                        ELSE index'[i].status = "FAILED"
        /\ index'[i].no = index[i].no /\ index'[i].docs = index[i].docs
        /\ worker'[i].pc = "NONE" /\ worker'[i].proc = None
    BY <1>0, <1>6, FailEffect
  <2>2. index[i].no \in Nat /\ (index[i].no > 0 => index[i].status = "READY")
    BY <1>0, <2>1 DEF RowFits, AloneFits, Building, TypeOK, IndexRow, Worker, Pc
  <2>3. AloneFits(i)'
    BY <1>0, <2>1, <2>2 DEF AloneFits
  <2>4. index[i].no = 0 \/ index'[i].no > 0
    BY <2>1, <2>2
  <2> QED BY <2>1, <2>3, <2>4, LawfulRow
<1>7. CASE FailRefused(i) \/ FailureUnrecorded(i) \/ PublishFails(i)
  <2>1. /\ Frame(i) /\ UNCHANGED <<index, run>>
        /\ worker[i].pc # "NONE" /\ worker'[i].pc = "NONE" /\ worker'[i].proc = None
    BY <1>0, <1>7, StopEffect
  <2>2. AloneFits(i)'
    BY <1>0, <2>1 DEF AloneFits
  <2> QED BY <1>0, <2>1, <2>2, LawfulRow DEF IInv, TypeOK, IndexRow
<1>8. CASE Publish(i)
  <2>1. /\ OnlyAt(i) /\ UNCHANGED <<index, run, documents, taken, processes>>
        /\ worker'[i].pc = "NONE" /\ worker'[i].proc = None
    BY <1>0, <1>8, PublishEffect
  <2>2. StartsClean'
    <3>1. \A p \in Proc : p # None
      BY IndexAssumption
    <3> QED BY <2>1, <3>1 DEF AInv, StartsClean, OnlyAt, processes
  <2> QED BY <2>1, <2>2, LawfulQuiet DEF OnlyAt
<1>5. CASE Apply(i)
  <2>1. /\ TypeOK' /\ UNCHANGED <<memory, documents, taken, processes>>
        /\ worker[i].pc = "READY" /\ worker'[i].pc = "APPLIED"
        /\ worker'[i].proc = worker[i].proc
        /\ run'[i] = "SUCCESS" /\ index'[i].status = "ACTIVE"
        /\ \A j \in Index : index'[j].no = index[j].no /\ index'[j].docs = index[j].docs
        /\ \A j \in Index \ {i} :
              /\ worker'[j] = worker[j] /\ run'[j] = run[j]
              /\ IF index[j].status \in {"ACTIVE", "READY"}
                   THEN index'[j].status = "INACTIVE"
                   ELSE index'[j].status = index[j].status
    BY <1>0, <1>5, ApplyEffect
  <2>2. /\ run[i] = "PROCESSING" /\ index[i].docs = Latest /\ index[i].status = "READY"
        /\ Latest # Served /\ Latest # Nothing
    BY <1>0, <2>1 DEF AloneFits, AInv, OpenRunHasWork
  <2>3. \A j \in Index \ {i} : run[j] # "PROCESSING"
    BY <2>2 DEF AInv, OneOpenRun
  <2>4. Latest' = Latest /\ UNCHANGED <<newest, enabled, proc, stale>>
    BY <2>1 DEF Latest, documents, processes
  <2>5. Served' = Latest
    <3>1. index' \in [Index -> IndexRow] /\ \A j \in Index : index'[j].status = "ACTIVE" => j = i
      BY <2>1 DEF TypeOK
    <3>2. ServedBy(index') = index'[i].docs
      BY <2>1, <3>1, ServedByOne
    <3> QED BY <2>1, <2>2, <3>2, ServedIs
  <2>6. AloneFits(i)'
    BY <1>0, <2>1 DEF AloneFits
  <2>7. \A j \in Index \ {i} : AloneFits(j)'
    <3> SUFFICES ASSUME NEW j \in Index \ {i} PROVE AloneFits(j)'
      OBVIOUS
    <3>1. AloneFits(j) /\ RowFits(j)
      BY DEF AInv, IInv
    <3>2. worker[j].pc \in {"NONE", "APPLIED"}
      BY <2>3, <3>1 DEF AloneFits
    <3> QED BY <2>1, <3>1, <3>2 DEF AloneFits
  <2>8. \A j \in Index : run'[j] # "PROCESSING"
    BY <2>1, <2>3
  <2>9. StartsClean'
    <3>1. \A p \in Proc : stale[p] = {}
      BY <2>1, WorkerIsUp
    <3> QED BY <2>1, <2>4, <3>1 DEF AInv, StartsClean
  <2>10. AInv'
    BY <2>1, <2>6, <2>7, <2>8, <2>9 DEF AInv, OneOpenRun, OpenRunHasWork
  <2>11. KeepsNumbered
    BY <2>1 DEF KeepsNumbered, AInv, AloneFits
  <2>12. KeepsClosed
    BY <2>1, <2>2 DEF KeepsClosed
  <2>13. Promise!Next
    BY <2>2, <2>4, <2>5 DEF Promise!Next, Promise!Switch, Promise!Latest, Promise!Nothing, Latest, Nothing
  <2> QED BY <2>10, <2>11, <2>12, <2>13 DEF Lawful
<1> QED BY <1>1, <1>2, <1>3, <1>4, <1>5, <1>6, <1>7, <1>8 DEF WorkerStep

\* Every step of the process is lawful: only its startup closes runs.
LEMMA ProcessIsLawful ==
    ASSUME AInv, IInv', Alone, NEW p \in Proc,
           ReloadRead(p) \/ ReloadReplace(p) \/ ProcessStep(p) \/ Crash(p)
    PROVE  Lawful
<1>0. TypeOK /\ Proc = {p} /\ StartsClean
  BY DEF AInv, IInv, Alone
<1>1. CASE ReloadRead(p) \/ ReloadReplace(p)
  <2>1. UNCHANGED <<taken, documents, rows, worker, processes>>
    BY <1>1 DEF ReloadRead, ReloadReplace
  <2>2. StartsClean'
    BY <1>0, <2>1 DEF StartsClean, rows, processes
  <2> QED BY <2>1, <2>2, LawfulQuiet DEF rows
<1>2. CASE StartupScan(p) \/ StartupCloseFails(p) \/ StartupLoad(p)
  <2>1. UNCHANGED <<taken, documents, rows, worker>>
    BY <1>2 DEF StartupScan, StartupCloseFails, StartupLoad
  <2>2. StartsClean'
    BY <1>0, <1>2, <2>1 DEF StartupScan, StartupCloseFails, StartupLoad, StartsClean, TypeOK, rows
  <2> QED BY <2>1, <2>2, LawfulQuiet DEF rows
<1>3. CASE Crash(p)
  <2>1. /\ UNCHANGED <<taken, documents, rows>>
        /\ proc' = [proc EXCEPT ![p] = "DOWN"]
        /\ stale' = [stale EXCEPT ![p] = {}]
        /\ worker' = [i \in Index |-> IF worker[i].proc = p THEN NoWorker ELSE worker[i]]
    BY <1>3 DEF Crash
  <2>2. \A j \in Index : \/ worker'[j] = worker[j] /\ worker[j].proc # p
                         \/ worker'[j].pc = "NONE" /\ worker'[j].proc = None
    BY <2>1, NewTasks
  <2>3. StartsClean'
    <3>1. p # None
      BY IndexAssumption
    <3>2. \A j \in Index : worker'[j].proc # p
      BY <2>2, <3>1
    <3> QED BY <1>0, <2>1, <3>2 DEF StartsClean, TypeOK
  <2> QED BY <2>1, <2>2, <2>3, LawfulQuiet DEF rows
<1>4. CASE StartupClose(p)
  <2>1. /\ TypeOK' /\ UNCHANGED <<memory, documents, taken, worker>>
        /\ proc[p] = "CLOSING" /\ proc' = [proc EXCEPT ![p] = "LOADING"]
        /\ stale' = [stale EXCEPT ![p] = {}]
        /\ \A j \in Index :
              /\ index'[j].no = index[j].no /\ index'[j].docs = index[j].docs
              /\ IF j \in stale[p] /\ index[j].status \in {"BUILDING", "VALIDATING"}
                   THEN index'[j].status = "FAILED"
                   ELSE index'[j].status = index[j].status
              /\ IF j \in stale[p] THEN run'[j] = "FAILED" ELSE run'[j] = run[j]
    BY <1>0, <1>4, StartupCloseEffect
  <2>2. \A j \in Index : worker[j].pc = "NONE"
    BY <1>0, <2>1, WorkerIsUp
  <2>3. \A j \in stale[p] : run[j] = "PROCESSING"
    BY <1>0 DEF StartsClean
  <2>4. Latest' = Latest /\ UNCHANGED <<newest, enabled>>
    BY <2>1 DEF Latest, documents
  <2>5. Served' = Served
    <3>1. \A j \in Index : /\ index'[j].status = "ACTIVE" <=> index[j].status = "ACTIVE"
                           /\ index'[j].docs = index[j].docs
      BY <2>1
    <3> QED BY <3>1, ServedKeeps DEF AInv
  <2>6. \A j \in Index : AloneFits(j)'
    <3> SUFFICES ASSUME NEW j \in Index PROVE AloneFits(j)'
      OBVIOUS
    <3>1. AloneFits(j) /\ RowFits(j) /\ worker'[j] = worker[j] /\ worker[j].pc = "NONE"
      BY <2>1, <2>2 DEF AInv, IInv
    <3>2. index'[j].status = "NONE" <=> run'[j] = "NONE"
      BY <2>1, <2>3, <3>1 DEF AloneFits
    <3>3. index'[j].no > 0 => index'[j].status \in {"READY", "ACTIVE", "INACTIVE"}
      BY <2>1, <3>1 DEF AloneFits
    <3> QED BY <3>1, <3>2, <3>3 DEF AloneFits
  <2>7. OneOpenRun' /\ OpenRunHasWork'
    BY <2>1, <2>4, <2>5 DEF AInv, OneOpenRun, OpenRunHasWork
  <2>8. StartsClean'
    <3>1. p # None
      BY IndexAssumption
    <3>2. \A j \in Index : worker[j].proc = None
      BY <2>2 DEF AInv, AloneFits
    <3> QED BY <1>0, <2>1, <3>1, <3>2 DEF StartsClean, TypeOK
  <2>9. AInv'
    BY <2>1, <2>6, <2>7, <2>8 DEF AInv
  <2>10. KeepsNumbered
    BY <2>1 DEF KeepsNumbered, AInv, AloneFits
  <2>11. KeepsClosed
    BY <2>1, <2>3 DEF KeepsClosed
  <2> QED BY <2>4, <2>5, <2>9, <2>10, <2>11 DEF Lawful
<1> QED BY <1>1, <1>2, <1>3, <1>4 DEF ProcessStep


\* Every step of a single process is lawful.
LEMMA NextIsLawful == Alone /\ AInv /\ [Next]_vars => Lawful
<1> SUFFICES ASSUME Alone, AInv, [Next]_vars PROVE Lawful
  OBVIOUS
<1>0. TypeOK /\ IInv /\ IInv'
  BY NextIInv DEF AInv, IInv
<1>1. ASSUME NEW p \in Proc, NEW i \in Index, Accept(p, i)
      PROVE  Lawful
  <2>1. /\ Frame(i)
        /\ index[i].status = "NONE" /\ index'[i].status = "BUILDING" /\ index'[i].no = 0
        /\ run'[i] = "PROCESSING"
        /\ worker'[i].pc = "ACCEPTED" /\ worker'[i].proc = p
    BY <1>0, <1>1, AcceptEffect
  <2>2. /\ proc[p] = "UP" /\ GateOpen
        /\ Latest # Served /\ Latest # Nothing
    BY <1>1 DEF Accept, Pending
  <2>3. run[i] = "NONE" /\ index[i].no = 0
    BY <1>0, <2>1 DEF AInv, AloneFits, IInv, RowFits
  <2>4. AloneFits(i)'
    <3>1. p # None
      BY IndexAssumption
    <3> QED BY <2>1, <3>1 DEF AloneFits
  <2> QED BY <1>0, <2>1, <2>2, <2>3, <2>4, LawfulRow
<1>2. Shell = {}
  BY DEF Alone
<1>3. CASE DocumentChanges
  <2>1. /\ GateOpen /\ UNCHANGED <<taken, rows, worker, memory, processes>>
    BY <1>3 DEF DocumentChanges
  <2>2. UNCHANGED <<index, run, worker, proc, stale>> /\ Served' = Served
    BY <2>1 DEF rows, processes, Served, Having
  <2>3. \A j \in Index : AloneFits(j)'
    <3> SUFFICES ASSUME NEW j \in Index PROVE AloneFits(j)'
      OBVIOUS
    <3>1. AloneFits(j) /\ run[j] # "PROCESSING"
      BY <2>1 DEF AInv, GateOpen
    <3> QED BY <2>2, <3>1 DEF AloneFits
  <2>4. AInv'
    BY <1>0, <2>1, <2>2, <2>3 DEF AInv, GateOpen, OneOpenRun, OpenRunHasWork, StartsClean
  <2>5. KeepsNumbered /\ KeepsClosed
    BY <2>2 DEF KeepsNumbered, KeepsClosed, AInv, AloneFits
  <2>6. Promise!Next
    BY <1>3, <2>2 DEF DocumentChanges, Promise!Next, Promise!DocumentChanges,
                      Promise!NewVersion, Promise!Removed, Promise!Returns
  <2> QED BY <2>4, <2>5, <2>6 DEF Lawful
<1>4. ~ShellGivesUp /\ \A s \in Source : ~ShellTakes(s)
  BY <1>2 DEF ShellGivesUp, ShellTakes, AInv
<1>5. CASE UNCHANGED vars
  <2>1. UNCHANGED <<index, run, taken, documents, worker>> /\ StartsClean'
    BY <1>5 DEF vars, rows, processes, AInv, StartsClean
  <2> QED BY <1>0, <2>1, LawfulQuiet
<1> QED BY <1>0, <1>1, <1>2, <1>3, <1>4, <1>5, WorkerIsLawful, ProcessIsLawful DEF Next

\* The invariant of a single process holds before the first run, when nothing is
\* served.
LEMMA InitAInv == Init => AInv /\ Promise!Init
<1> SUFFICES ASSUME Init PROVE AInv /\ Promise!Init
  OBVIOUS
<1>1. IInv
  BY InitIInv
<1>2. \A i \in Index : index[i].status = "NONE" /\ index[i].no = 0 /\ run[i] = "NONE"
                       /\ worker[i].pc = "NONE" /\ worker[i].proc = None
  BY NewTasks DEF Init, NoIndex
<1>3. \A i \in Index : AloneFits(i)
  BY <1>2 DEF AloneFits
<1>4. OneOpenRun /\ StartsClean /\ OpenRunHasWork /\ taken = Nothing
  BY <1>2 DEF Init, OneOpenRun, StartsClean, OpenRunHasWork
<1>5. Served = Nothing
  BY <1>1, <1>2, ServedIs, ServedByNone DEF IInv, TypeOK
<1> QED BY <1>1, <1>3, <1>4, <1>5 DEF AInv, Init, Promise!Init, Promise!Nothing, Nothing

\* With one process and no command line the job gate keeps whatever the worker
\* has read true until it is applied.
THEOREM AloneInvariance == Alone => (Spec => []AInv)
<1> SUFFICES ASSUME Alone PROVE Spec => []AInv
  OBVIOUS
<1>1. AInv /\ [Next]_vars => AInv'
  BY NextIsLawful DEF Lawful
<1> QED BY <1>1, InitAInv, PTL DEF Spec

\* Alone, an index version never changes once it has a number: what a running
\* request has pinned stays one generation.
THEOREM NumberedIsFixed == Alone => (Spec => NumberedIndexIsFixed)
<1> SUFFICES ASSUME Alone PROVE Spec => NumberedIndexIsFixed
  OBVIOUS
<1>0. Spec => []AInv
  BY AloneInvariance
<1>1. AInv /\ [Next]_vars =>
         [\A i \in Index : index[i].no > 0 =>
             /\ index'[i].docs = index[i].docs
             /\ index'[i].no = index[i].no
             /\ index'[i].status \notin {"BUILDING", "VALIDATING", "FAILED"}]_vars
  BY NextIsLawful DEF Lawful, KeepsNumbered
<1> QED BY <1>1, <1>0, PTL DEF Spec, NumberedIndexIsFixed

\* Alone, a run leaves PROCESSING once: worker, failure handler and startup
\* never close it after each other.
THEOREM ClosedRunsStay == Alone => (Spec => OnlyOpenRunsFinish)
<1> SUFFICES ASSUME Alone PROVE Spec => OnlyOpenRunsFinish
  OBVIOUS
<1>0. Spec => []AInv
  BY AloneInvariance
<1>1. AInv /\ [Next]_vars =>
         [\A i \in Index : run'[i] # run[i] /\ run[i] # "NONE" => run[i] = "PROCESSING"]_vars
  BY NextIsLawful DEF Lawful, KeepsClosed
<1> QED BY <1>1, <1>0, PTL DEF Spec, OnlyOpenRunsFinish

\* Alone, the pipeline implements ServedIndex: the served collection switches as
\* a whole, each time to what the documents of the group are at that moment.
THEOREM Implements == Alone => (Spec => ImplementsServedIndex)
<1> SUFFICES ASSUME Alone PROVE Spec => ImplementsServedIndex
  OBVIOUS
<1>0. Spec => []AInv
  BY AloneInvariance
<1>1. AInv /\ [Next]_vars => [Promise!Next]_<<newest, enabled, Served>>
  BY NextIsLawful DEF Lawful
<1>2. Promise!Spec <=> Promise!Init /\ [][Promise!Next]_<<newest, enabled, Served>>
  BY DEF Promise!Spec, Promise!vars
<1> QED BY <1>1, <1>2, InitAInv, <1>0, PTL DEF Spec, ImplementsServedIndex


=============================================================================
