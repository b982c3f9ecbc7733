---------------------- MODULE CondorClientRefinement ----------------------
(***************************************************************************)
(* Proofs that every create_compute request names a fresh node and that    *)
(* the create path implements the abstract workflow of WorkflowAbstract,  *)
(* for every value of the constants.                                       *)
(***************************************************************************)
EXTENDS CondorClientProofs, SequenceTheorems

\* The pcs at which main is inside one of its four provisioning phases.
Busy == {"storage", "cluster", "master", "submit", "worker"}

(***************************************************************************)
(* The node counter is threaded through every call: each accepted request  *)
(* was numbered below the current count, and the numbers of the requests  *)
(* increase along the log.  A new request is numbered count, so its name  *)
(* differs from every earlier one.                                          *)
(***************************************************************************)
Counted == \A i \in 1..Len(calls) : calls[i].ok => calls[i].name.n < count

Increasing ==
    \A i, j \in 1..Len(calls) : i < j => calls[i].name.n < calls[j].name.n

(***************************************************************************)
(* Where main is fixes the workflow: nothing is requested before the       *)
(* workflow exists, it is live during the phases, and a phase pc is the    *)
(* operation of its phase (so a storage step never ends the phases).       *)
(***************************************************************************)
Stage ==
    /\ pc \in {"validate", "createWf"} => wf = "none" /\ calls = <<>>
    /\ pc \in Busy => wf = "live"
    /\ pc \in {"storage", "cluster"} => pc = Phases[ph].op

RInv == AbortInv /\ Counted /\ Increasing /\ Stage

\* The names of a log of requests form a sequence of the same length.
LEMMA RequestNamesType ==
    ASSUME calls \in Seq(Calls)
    PROVE  /\ RequestNames \in Seq(Names)
           /\ Len(RequestNames) = Len(calls)
           /\ \A i \in 1..Len(calls) : RequestNames[i] = calls[i].name
<1>1. \A i \in 1..Len(calls) : calls[i].name \in Names
  <2>1. \A i \in 1..Len(calls) : calls[i] \in Calls
    OBVIOUS
  <2>2. QED
    BY <2>1 DEF Calls
<1>2. QED
  BY <1>1 DEF RequestNames

\* Appending a request numbered count, in a state where every request was
\* accepted, keeps the numbering below the counter and increasing.
LEMMA AppendFresh ==
    ASSUME calls \in Seq(Calls), count \in Nat, Counted, Increasing,
           \A i \in 1..Len(calls) : calls[i].ok,
           NEW c, c.name.n = count, c.ok \in BOOLEAN,
           calls' = Append(calls, c),
           count' = IF c.ok THEN count + 1 ELSE count
    PROVE  Counted' /\ Increasing'
<1>1. /\ Len(calls') = Len(calls) + 1
      /\ calls'[Len(calls) + 1] = c
      /\ \A i \in 1..Len(calls) : calls'[i] = calls[i]
  OBVIOUS
<1>2. \A i \in 1..Len(calls) : calls[i].name.n \in Nat /\ calls[i].name.n < count
  <2>1. \A i \in 1..Len(calls) : calls[i] \in Calls
    OBVIOUS
  <2>2. \A i \in 1..Len(calls) : calls[i].name.n \in Nat
    BY <2>1 DEF Calls, Names
  <2>3. QED
    BY <2>2 DEF Counted
<1>3. Counted'
  BY <1>1, <1>2 DEF Counted
<1>4. Increasing'
  BY <1>1, <1>2 DEF Increasing
<1>5. QED
  BY <1>3, <1>4

\* A step that leaves the log and the counter alone keeps both facts.
LEMMA KeepLog ==
    ASSUME Counted, Increasing, calls' = calls, count' = count
    PROVE  Counted' /\ Increasing'
BY DEF Counted, Increasing

\* A create_compute step inside a phase: the request is numbered count,
\* and the counter moves on exactly when the request is accepted.
LEMMA CreateFresh ==
    ASSUME RInv, pc \in Busy,
           NEW s, NEW k, NEW ip, NEW sc, NEW fwd, NEW ok \in BOOLEAN,
           CreateCompute(s, k, ip, sc, fwd, ok),
           count' = IF ok THEN count + 1 ELSE count
    PROVE  Counted' /\ Increasing'
<1> DEFINE c == [site |-> s, kind |-> k, name |-> NodeName(s, k), ip |-> ip,
                 script |-> sc, fwd |-> fwd, ok |-> ok]
<1>1. calls \in Seq(Calls) /\ count \in Nat /\ Counted /\ Increasing
  BY DEF RInv, AbortInv, TypeOK
<1>2. \A i \in 1..Len(calls) : calls[i].ok
  BY DEF RInv, AbortInv, RefusalStops, Busy
<1>3. calls' = Append(calls, c)
  BY DEF CreateCompute
<1>4. c.name.n = count /\ c.ok \in BOOLEAN /\ count' = IF c.ok THEN count + 1 ELSE count
  BY DEF NodeName
<1>5. QED
  BY <1>1, <1>2, <1>3, <1>4, AppendFresh

LEMMA LogStep == RInv /\ [Next]_vars => Counted' /\ Increasing'
<1> SUFFICES ASSUME RInv, [Next]_vars PROVE Counted' /\ Increasing'
  OBVIOUS
<1>0. Counted /\ Increasing
  BY DEF RInv
<1>1. CASE Validate
  BY <1>0, <1>1, KeepLog DEF Validate
<1>2. CASE CreateWorkflow
  BY <1>0, <1>2, KeepLog DEF CreateWorkflow
<1>3. CASE SkipPhase
  BY <1>0, <1>3, KeepLog DEF SkipPhase
<1>4. CASE ProvisionStorage
  BY <1>0, <1>4, KeepLog, CreateFresh DEF ProvisionStorage, CountAfter, Abort, Busy
<1>5. CASE BeginCluster
  BY <1>0, <1>5, KeepLog DEF BeginCluster
<1>6. CASE ProvisionMaster
  BY <1>0, <1>6, KeepLog, CreateFresh DEF ProvisionMaster, CountAfter, Abort, Busy
<1>7. CASE ProvisionSubmit
  BY <1>0, <1>7, KeepLog, CreateFresh DEF ProvisionSubmit, CountAfter, Abort, Busy
<1>8. CASE ProvisionWorker
  BY <1>0, <1>8, KeepLog, CreateFresh DEF ProvisionWorker, CountAfter, Abort, Busy
<1>9. CASE UNCHANGED vars
  BY <1>0, <1>9, KeepLog DEF vars
<1>10. QED
  BY <1>1, <1>2, <1>3, <1>4, <1>5, <1>6, <1>7, <1>8, <1>9 DEF Next

\* Where main goes next keeps the workflow in step with it.
LEMMA StageStep == RInv /\ [Next]_vars => Stage'
<1> SUFFICES ASSUME RInv, [Next]_vars PROVE Stage'
  OBVIOUS
<1>0. /\ Stage
      /\ pc \in {"storage", "cluster", "master", "submit", "worker"} => ph \in 1..4
  BY DEF RInv, AbortInv, TypeOK
<1>1. CASE Validate
  BY <1>0, <1>1 DEF Validate, Stage, Busy
<1>2. CASE CreateWorkflow
  BY <1>0, <1>2 DEF CreateWorkflow, Goto, Phases, Stage, Busy
<1>3. CASE SkipPhase
  BY <1>0, <1>3 DEF SkipPhase, Goto, Phases, Stage, Busy
<1>4. CASE ProvisionStorage
  BY <1>0, <1>4 DEF ProvisionStorage, Goto, Abort, Phases, Stage, Busy
<1>5. CASE BeginCluster
  BY <1>0, <1>5 DEF BeginCluster, Stage, Busy
<1>6. CASE ProvisionMaster
  BY <1>0, <1>6 DEF ProvisionMaster, Abort, Stage, Busy
<1>7. CASE ProvisionSubmit
  BY <1>0, <1>7 DEF ProvisionSubmit, Abort, Stage, Busy
<1>8. CASE ProvisionWorker
  BY <1>0, <1>8 DEF ProvisionWorker, Goto, Abort, Phases, Stage, Busy
<1>9. CASE UNCHANGED vars
  BY <1>0, <1>9 DEF vars, Stage, Busy
<1>10. QED
  BY <1>1, <1>2, <1>3, <1>4, <1>5, <1>6, <1>7, <1>8, <1>9 DEF Next

LEMMA RInvInit == Init => RInv
BY TypeInit DEF Init, RInv, AbortInv, RefusalStops, Counted, Increasing, Stage, Busy

LEMMA RInvStep == RInv /\ [Next]_vars => RInv'
BY TypeStep, AbortStep, LogStep, StageStep DEF RInv, AbortInv

-----------------------------------------------------------------------------
(***************************************************************************)
(* Refinement.  Under the mapping of CondorClient (reqs is the names of    *)
(* the logged requests, done is pc \in Terminal), a step that sends no     *)
(* request is a stutter or Stop, create_workflow's 200 is Open, an         *)
(* accepted create_compute is Add and a refused one, with its Abort, is    *)
(* Refuse.  Add and Refuse need a name not used before: that is Counted    *)
(* and RefusalStops (every earlier request was accepted and numbered       *)
(* below count).                                                           *)
(***************************************************************************)

\* A step that sends no request and leaves the workflow alone.
LEMMA StutterOrStop ==
    ASSUME pc \notin Terminal, calls' = calls, wf' = wf
    PROVE  [Abs!ANext]_Abs!avars
<1>1. RequestNames' = RequestNames
  BY DEF RequestNames
<1>2. CASE pc' \in Terminal
  BY <1>1, <1>2 DEF Abs!ANext, Abs!Stop
<1>3. CASE pc' \notin Terminal
  BY <1>1, <1>3 DEF Abs!avars
<1>4. QED
  BY <1>2, <1>3

\* A create_compute step inside a phase, with the answer's branch.
LEMMA CreateRefines ==
    ASSUME RInv, pc \in Busy,
           NEW s \in Sites, NEW k \in Kinds, NEW ip, NEW sc, NEW fwd,
           NEW ok \in BOOLEAN,
           CreateCompute(s, k, ip, sc, fwd, ok),
           ok => wf' = wf /\ pc' \notin Terminal,
           ~ok => Abort
    PROVE  Abs!ANext
<1> DEFINE n == NodeName(s, k)
           c == [site |-> s, kind |-> k, name |-> n, ip |-> ip, script |-> sc,
                 fwd |-> fwd, ok |-> ok]
           N == Len(calls)
<1>1. /\ calls \in Seq(Calls) /\ count \in Nat /\ opts \in Opts
      /\ Counted
      /\ \A i \in 1..N : calls[i].ok
      /\ wf = "live" /\ pc \notin Terminal
  BY DEF RInv, AbortInv, TypeOK, RefusalStops, Stage, Busy, Terminal
<1>2. n \in Names /\ n.n = count
  BY <1>1, NodeNameType DEF NodeName
<1>3. /\ Len(RequestNames) = N
      /\ \A i \in 1..N : RequestNames[i] = calls[i].name
  BY <1>1, RequestNamesType
<1>4. n \notin Abs!Used
  <2>1. \A i \in 1..N : calls[i].name.n < count
    BY <1>1 DEF Counted
  <2>2. \A i \in 1..N : calls[i].name.n \in Nat
    <3>1. \A i \in 1..N : calls[i] \in Calls
      BY <1>1
    <3>2. QED
      BY <3>1 DEF Calls, Names
  <2>3. \A i \in 1..N : RequestNames[i] # n
    BY <1>1, <1>2, <1>3, <2>1, <2>2
  <2>4. QED
    BY <1>3, <2>3 DEF Abs!Used
<1>5. calls' = Append(calls, c)
  BY DEF CreateCompute
<1>6. /\ RequestNames' = Append(RequestNames, n)
      /\ Len(RequestNames') = N + 1
      /\ RequestNames'[N + 1] = n
  <2>1. Len(calls') = N + 1 /\ calls'[N + 1] = c
        /\ \A i \in 1..N : calls'[i] = calls[i]
    BY <1>1, <1>5
  <2>2. RequestNames' = [i \in 1..N + 1 |-> calls'[i].name]
    BY <2>1 DEF RequestNames
  <2>3. RequestNames \in Seq(Names)
    BY <1>1, RequestNamesType
  <2>4. N \in Nat /\ \A i \in 1..N : calls[i].name \in Names
    <3>1. \A i \in 1..N : calls[i] \in Calls
      BY <1>1
    <3>2. QED
      BY <1>1, <3>1 DEF Calls
  <2>5. \A i \in 1..N + 1 : calls'[i].name \in Names
    BY <1>2, <2>1, <2>4
  <2>6. RequestNames' \in Seq(Names) /\ Len(RequestNames') = N + 1
    BY <2>2, <2>4, <2>5
  <2>7. /\ Append(RequestNames, n) \in Seq(Names)
        /\ Len(Append(RequestNames, n)) = N + 1
        /\ \A i \in 1..N : Append(RequestNames, n)[i] = RequestNames[i]
        /\ Append(RequestNames, n)[N + 1] = n
    BY <1>2, <1>3, <2>3, AppendProperties
  <2>8. \A i \in 1..N + 1 : RequestNames'[i] = Append(RequestNames, n)[i]
    BY <1>3, <2>1, <2>2, <2>4, <2>7
  <2>9. QED
    BY <2>1, <2>2, <2>6, <2>7, <2>8, SeqEqual
<1>7. N + 1 \in 1..Len(RequestNames')
  BY <1>1, <1>6
<1>8. CASE ok
  <2>1. Abs!Add(n)
    BY <1>1, <1>2, <1>4, <1>6, <1>8 DEF Abs!Add
  <2>2. QED
    BY <1>6, <1>7, <2>1 DEF Abs!ANext
<1>9. CASE ~ok
  <2>1. wf' = "deleted" /\ pc' = "exited"
    BY <1>9 DEF Abort
  <2>2. Abs!Refuse(n)
    BY <1>1, <1>2, <1>4, <1>6, <2>1 DEF Abs!Refuse, Terminal
  <2>3. QED
    BY <1>6, <1>7, <2>2 DEF Abs!ANext
<1>10. QED
  BY <1>8, <1>9

LEMMA RefineStep == RInv /\ [Next]_vars => [Abs!ANext]_Abs!avars
<1> SUFFICES ASSUME RInv, [Next]_vars PROVE [Abs!ANext]_Abs!avars
  OBVIOUS
<1>0. /\ TypeOK /\ Stage
      /\ pc \in Busy => Site \in Sites
  BY SiteType DEF RInv, AbortInv, Busy
<1>1. CASE Validate
  BY <1>1, StutterOrStop DEF Validate, Terminal
<1>2. CASE CreateWorkflow
  <2>1. CASE wf' = "live" /\ Goto(1)
    <3>2. wf = "none" /\ calls = <<>> /\ pc \notin Terminal
      BY <1>0, <1>2 DEF CreateWorkflow, Stage, Terminal
    <3>3. pc' \notin Terminal /\ calls' = calls
      BY <1>2, <2>1 DEF CreateWorkflow, Goto, Phases, Terminal
    <3>4. RequestNames' = RequestNames
      BY <3>3 DEF RequestNames
    <3>5. Abs!Open
      BY <2>1, <3>2, <3>3, <3>4 DEF Abs!Open
    <3>6. QED
      BY <3>5 DEF Abs!ANext
  <2>7. CASE ~(wf' = "live" /\ Goto(1))
    BY <1>2, <2>7, StutterOrStop DEF CreateWorkflow, Terminal
  <2>8. QED
    BY <2>1, <2>7
<1>3. CASE SkipPhase
  BY <1>3, StutterOrStop DEF SkipPhase, Terminal
<1>4. CASE ProvisionStorage
  <2>1. ph \in {1, 2}
    BY <1>0, <1>4 DEF ProvisionStorage, Stage, TypeOK, Phases
  <2>2. Phases[ph + 1].op \in {"storage", "cluster"}
    BY <2>1 DEF Phases
  <2>3. QED
    BY <1>0, <1>4, <2>1, <2>2, StutterOrStop, CreateRefines
    DEF ProvisionStorage, Goto, Terminal, Busy, Kinds
<1>5. CASE BeginCluster
  BY <1>5, StutterOrStop DEF BeginCluster, Terminal
<1>6. CASE ProvisionMaster
  BY <1>0, <1>6, StutterOrStop, CreateRefines DEF ProvisionMaster, Terminal, Busy, Kinds
<1>7. CASE ProvisionSubmit
  BY <1>0, <1>7, StutterOrStop, CreateRefines DEF ProvisionSubmit, Terminal, Busy, Kinds
<1>8. CASE ProvisionWorker
  BY <1>0, <1>8, StutterOrStop, CreateRefines DEF ProvisionWorker, Terminal, Busy, Kinds
<1>9. CASE UNCHANGED vars
  BY <1>9 DEF vars, Abs!avars, RequestNames
<1>10. QED
  BY <1>1, <1>2, <1>3, <1>4, <1>5, <1>6, <1>7, <1>8, <1>9 DEF Next

(***************************************************************************)
(* The create path implements the abstract workflow, for every value of   *)
(* the constants: the workflow is opened before any node is requested,     *)
(* every create_compute names a node no earlier request named, a refusal  *)
(* deletes the workflow and ends the run, and nothing follows the end.     *)
(***************************************************************************)
THEOREM Refinement == Spec => WorkflowRefined
<1>1. Init => Abs!AInit
  BY DEF Init, Abs!AInit, RequestNames, Terminal
<1>2. QED
  BY <1>1, RInvInit, RInvStep, RefineStep, PTL DEF Spec, WorkflowRefined, Abs!ASpec
=============================================================================
