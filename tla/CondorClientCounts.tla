------------------------- MODULE CondorClientCounts -------------------------
(***************************************************************************)
(* Proof that a run that ends normally has either created every node the  *)
(* arguments and data files ask for, under a live workflow, or left no    *)
(* live workflow (AllOrNothing), for every value of the constants.        *)
(***************************************************************************)
EXTENDS CondorClientAddresses, FiniteSetTheorems

B(b) == IF b THEN 1 ELSE 0

\* The requests for site s that main has had accepted by the point it has
\* reached: the storage node once its phase is over, and in its cluster
\* the master, the submit node and wdone workers, in that order.
Expected(s) ==
    IF ~opts[s].on THEN 0
    ELSE LET f == opts[s].files IN
         (IF ph > StoragePh(s) THEN B("storage" \in f) ELSE 0)
         + (IF ph > ClusterPh(s)
            THEN B("master" \in f) + B("submit" \in f)
                 + (IF "worker" \in f THEN opts[s].workers ELSE 0)
            ELSE IF ph = ClusterPh(s) /\ pc = "submit" THEN B("master" \in f)
            ELSE IF ph = ClusterPh(s) /\ pc = "worker"
                 THEN B("master" \in f) + B("submit" \in f) + wdone
            ELSE 0)

(***************************************************************************)
(* The strengthening: while main provisions, and once it is done, each    *)
(* site has exactly the accepted requests its progress accounts for; the  *)
(* worker loop counts its accepted workers in wdone; a normal exit comes  *)
(* only after a failure that left no live workflow.                        *)
(***************************************************************************)
CountInv ==
    /\ pc \in Busy \cup {"provisioned"} => \A s \in Sites : Created(s) = Expected(s)
    /\ pc \in {"master", "submit", "worker"} => opts[Site].on
    /\ pc \in {"master", "submit"} => wdone = 0
    /\ pc = "worker" =>
          /\ wdone <= opts[Site].workers
          /\ "worker" \notin opts[Site].files => wdone = 0
    /\ pc = "provisioned" => ph = 5 /\ wf = "live"
    /\ pc = "exited" => wf # "live"

CInv == AInv /\ CountInv

\* The accepted requests of site s form a finite set of log positions.
LEMMA CreatedFinite ==
    ASSUME calls \in Seq(Calls), NEW s
    PROVE  /\ IsFiniteSet({i \in 1..Len(calls) : calls[i].site = s /\ calls[i].ok})
           /\ Created(s) \in Nat
<1>1. IsFiniteSet(1..Len(calls))
  BY FS_Interval
<1>2. IsFiniteSet({i \in 1..Len(calls) : calls[i].site = s /\ calls[i].ok})
  BY <1>1, FS_Subset
<1>3. QED
  BY <1>2, FS_CardinalityType DEF Created

\* An empty log holds no accepted request.
LEMMA CreatedEmpty ==
    ASSUME calls = <<>>, NEW s
    PROVE  Created(s) = 0
<1>1. {i \in 1..Len(calls) : calls[i].site = s /\ calls[i].ok} = {}
  OBVIOUS
<1>2. QED
  BY <1>1, FS_EmptySet DEF Created

\* Appending request c adds one to the count of its site when accepted.
LEMMA CreatedAppend ==
    ASSUME calls \in Seq(Calls), NEW c, calls' = Append(calls, c), NEW s
    PROVE  Created(s)' = Created(s) + B(c.site = s /\ c.ok)
<1> DEFINE S == {i \in 1..Len(calls) : calls[i].site = s /\ calls[i].ok}
           T == {i \in 1..Len(calls') : calls'[i].site = s /\ calls'[i].ok}
<1>1. IsFiniteSet(S)
  BY CreatedFinite
<1>2. Len(calls') = Len(calls) + 1 /\ calls'[Len(calls) + 1] = c
      /\ \A i \in 1..Len(calls) : calls'[i] = calls[i]
  OBVIOUS
<1>3. Len(calls) + 1 \notin S
  OBVIOUS
<1>4. CASE c.site = s /\ c.ok
  <2>1. T = S \cup {Len(calls) + 1}
    BY <1>2, <1>4
  <2>2. Cardinality(T) = Cardinality(S) + 1
    BY <1>1, <1>3, <2>1, FS_AddElement
  <2>3. QED
    BY <1>4, <2>2 DEF Created, B
<1>5. CASE ~(c.site = s /\ c.ok)
  <2>1. T = S
    BY <1>2, <1>5
  <2>2. Created(s)' = Cardinality(S) /\ Created(s) = Cardinality(S)
    BY <2>1 DEF Created
  <2>3. Cardinality(S) \in Nat
    BY <1>1, FS_CardinalityType
  <2>4. QED
    BY <1>5, <2>2, <2>3 DEF B
<1>6. QED
  BY <1>4, <1>5

\* The requested storage, master and submit nodes, counted one by one.
LEMMA CardThree ==
    ASSUME NEW F
    PROVE  Cardinality(F \cap {"storage", "master", "submit"})
           = B("storage" \in F) + B("master" \in F) + B("submit" \in F)
<1> DEFINE S1 == IF "storage" \in F THEN {"storage"} ELSE {}
           S2 == S1 \cup (IF "master" \in F THEN {"master"} ELSE {})
           S3 == S2 \cup (IF "submit" \in F THEN {"submit"} ELSE {})
<1>1. IsFiniteSet(S1) /\ Cardinality(S1) = B("storage" \in F)
  BY FS_EmptySet, FS_Singleton DEF B
<1>2. IsFiniteSet(S2) /\ Cardinality(S2) = B("storage" \in F) + B("master" \in F)
  BY <1>1, FS_AddElement DEF B
<1>3. IsFiniteSet(S3)
      /\ Cardinality(S3) = B("storage" \in F) + B("master" \in F) + B("submit" \in F)
  BY <1>2, FS_AddElement DEF B
<1>4. F \cap {"storage", "master", "submit"} = S3
  OBVIOUS
<1>5. QED
  BY <1>3, <1>4

\* The four phases belong to one site each.
LEMMA PhasesApart ==
    ASSUME NEW s \in Sites, NEW o \in Sites, o # s
    PROVE  /\ StoragePh(s) # StoragePh(o) /\ StoragePh(s) # ClusterPh(o)
           /\ ClusterPh(s) # StoragePh(o) /\ ClusterPh(s) # ClusterPh(o)
BY DEF Sites, StoragePh, ClusterPh

\* A step inside a phase of another site, or out of it into the next
\* phase, leaves what site o is expected to have created alone.
LEMMA OtherKept ==
    ASSUME opts' = opts, ph \in 1..4, ph' \in {ph, ph + 1},
           NEW o \in Sites, ph # StoragePh(o), ph # ClusterPh(o),
           ph' = ClusterPh(o) => pc' \notin {"submit", "worker"}
    PROVE  Expected(o)' = Expected(o)
BY DEF Expected, StoragePh, ClusterPh, Sites

\* A step that leaves the request log alone keeps every site's count.
LEMMA CreatedKept ==
    ASSUME calls' = calls
    PROVE  \A t \in Sites : Created(t)' = Created(t)
BY DEF Created

\* An accepted create_compute for site s counts for s and for s only.
LEMMA CreatedNew ==
    ASSUME TypeOK, NEW s \in Sites, NEW o \in Sites, o # s,
           NEW k, NEW ip, NEW sc, NEW fwd, CreateCompute(s, k, ip, sc, fwd, TRUE)
    PROVE  Created(s)' = Created(s) + 1 /\ Created(o)' = Created(o)
<1>1. calls \in Seq(Calls)
  BY DEF TypeOK
<1> DEFINE c == [site |-> s, kind |-> k, name |-> NodeName(s, k), ip |-> ip,
                 script |-> sc, fwd |-> fwd, ok |-> TRUE]
<1>2. calls' = Append(calls, c)
  BY DEF CreateCompute
<1>3. Created(s)' = Created(s) + B(c.site = s /\ c.ok)
  BY <1>1, <1>2, CreatedAppend
<1>4. Created(o)' = Created(o) + B(c.site = o /\ c.ok)
  BY <1>1, <1>2, CreatedAppend
<1>5. Created(o) \in Nat
  BY <1>1, CreatedFinite
<1>6. QED
  BY <1>3, <1>4, <1>5 DEF B

\* Steps that end main elsewhere than at a normal return, or at its
\* return after a failure that deleted the workflow.
LEMMA CountLeave ==
    ASSUME pc' \notin Busy \cup {"provisioned", "exited"} \/ (pc' = "exited" /\ wf' # "live")
    PROVE  CountInv'
BY DEF CountInv, Busy

LEMMA CountInit == Init => CountInv
BY DEF Init, CountInv, Busy

\* A step that keeps the arguments, the phase and main away from the
\* submit and worker nodes keeps every site's expectation.
LEMMA ExpectedSame ==
    ASSUME opts' = opts, ph' = ph,
           pc \notin {"submit", "worker"}, pc' \notin {"submit", "worker"}
    PROVE  \A t \in Sites : Expected(t)' = Expected(t)
BY DEF Expected

\* Leaving site s's storage phase adds its storage node, if requested.
LEMMA StorageDone ==
    ASSUME NEW s \in Sites, opts' = opts, opts[s].on, ph = StoragePh(s),
           ph' = ph + 1
    PROVE  Expected(s) = 0 /\ Expected(s)' = B("storage" \in opts[s].files)
BY DEF Expected, StoragePh, ClusterPh, Sites, B

LEMMA CountValidate ==
    ASSUME Validate
    PROVE  CountInv'
BY CountLeave DEF Validate, Busy

LEMMA CountCreateWf ==
    ASSUME CInv, CreateWorkflow
    PROVE  CountInv'
<1>1. calls = <<>> /\ wf = "none"
  BY DEF CreateWorkflow, CInv, AInv, RInv, Stage
<1>2. CASE wf' = "live" /\ Goto(1)
  <2>1. pc' = "storage" /\ ph' = 1 /\ calls' = calls /\ opts' = opts
    BY <1>2 DEF CreateWorkflow, Goto, Phases
  <2>2. \A t \in Sites : Created(t)' = 0
    BY <1>1, <2>1, CreatedKept, CreatedEmpty
  <2>3. \A t \in Sites : Expected(t)' = 0
    BY <2>1 DEF Expected, StoragePh, ClusterPh
  <2>4. QED
    BY <2>1, <2>2, <2>3 DEF CountInv, Busy
<1>3. CASE pc' = "exited" /\ wf' = wf
  BY <1>1, <1>3, CountLeave
<1>4. QED
  BY <1>2, <1>3 DEF CreateWorkflow

\* Facts about main's current phase of site s, o being the other site.
LEMMA Here ==
    ASSUME CInv, pc \in Busy, NEW s \in Sites, s = Site, NEW o \in Sites, o # s
    PROVE  /\ ph \in 1..4 /\ Sites = {s, o} /\ wf = "live"
           /\ pc = "storage" => ph = StoragePh(s)
           /\ pc \in {"cluster", "master", "submit", "worker"} => ph = ClusterPh(s)
           /\ ph # StoragePh(o) /\ ph # ClusterPh(o)
           /\ \A t \in Sites : Created(t) = Expected(t)
           /\ opts[s].on \in BOOLEAN /\ opts[s].workers \in Nat
<1>1. TypeOK /\ Stage /\ AddrInv /\ CountInv
  BY DEF CInv, AInv, RInv, AbortInv
<1>2. /\ pc = "storage" => ph \in {1, 2} /\ StoragePh(s) = ph
      /\ pc = "cluster" => ph \in {3, 4} /\ ClusterPh(s) = ph
      /\ pc \in {"master", "submit", "worker"} => ph \in {3, 4} /\ ClusterPh(s) = ph
  BY <1>1, PhaseFacts
<1>3. opts[s].on \in BOOLEAN /\ opts[s].workers \in 0..MaxWorkers
  BY <1>1, OptsType DEF TypeOK
<1>4. QED
  BY <1>1, <1>2, <1>3, PhasesApart, ConstantsAssumption DEF Busy, Sites, Stage, CountInv

LEMMA CountSkip ==
    ASSUME CInv, SkipPhase, NEW s \in Sites, s = Site, NEW o \in Sites, o # s
    PROVE  CountInv'
<1>1. /\ ph \in 1..4 /\ Sites = {s, o} /\ wf = "live"
      /\ ph # StoragePh(o) /\ ph # ClusterPh(o)
      /\ \A t \in Sites : Created(t) = Expected(t)
      /\ ~opts[s].on /\ opts' = opts /\ calls' = calls /\ wf' = wf
  BY Here DEF SkipPhase, Busy
<1>2. /\ ph' = ph + 1
      /\ pc' \in {"storage", "cluster", "provisioned"}
      /\ pc' = "provisioned" => ph' = 5
      /\ ph' = ClusterPh(o) => pc' = "cluster"
  BY <1>1 DEF SkipPhase, Goto, Phases, ClusterPh, Sites
<1>3. Expected(s)' = Expected(s)
  BY <1>1 DEF Expected
<1>4. Expected(o)' = Expected(o)
  BY <1>1, <1>2, OtherKept
<1>5. \A t \in Sites : Created(t)' = Created(t)
  BY <1>1, CreatedKept
<1>6. QED
  BY <1>1, <1>2, <1>3, <1>4, <1>5 DEF CountInv, Busy

LEMMA CountStorage ==
    ASSUME CInv, ProvisionStorage, NEW s \in Sites, s = Site, NEW o \in Sites, o # s
    PROVE  CountInv'
<1>1. /\ ph \in 1..4 /\ Sites = {s, o} /\ wf = "live"
      /\ ph = StoragePh(s) /\ ph # StoragePh(o) /\ ph # ClusterPh(o)
      /\ \A t \in Sites : Created(t) = Expected(t)
      /\ opts[s].on /\ opts' = opts /\ TypeOK
  BY Here DEF ProvisionStorage, Busy, CInv, AInv, RInv, AbortInv
<1>2. Goto(ph + 1) => /\ ph' = ph + 1 /\ pc' \in {"storage", "cluster"}
                     /\ (ph' = ClusterPh(o) => pc' = "cluster")
  BY <1>1 DEF Goto, Phases, StoragePh, ClusterPh, Sites
<1>3. Goto(ph + 1) => Expected(o)' = Expected(o)
  BY <1>1, <1>2, OtherKept
<1>4. CASE pc' = "crashed" \/ (pc' = "exited" /\ wf' = "deleted")
  BY <1>4, CountLeave DEF Busy
<1>5. CASE Goto(ph + 1) /\ calls' = calls /\ "storage" \notin opts[s].files
  <2>1. Expected(s)' = Expected(s)
    BY <1>1, <1>2, <1>5, StorageDone DEF B
  <2>2. \A t \in Sites : Created(t)' = Created(t)
    BY <1>5, CreatedKept
  <2>3. QED
    BY <1>1, <1>2, <1>3, <1>5, <2>1, <2>2 DEF CountInv, Busy
<1>6. CASE /\ \E ip, sc : CreateCompute(s, "storage", ip, sc, None, TRUE)
           /\ Goto(ph + 1) /\ wf' = wf /\ "storage" \in opts[s].files
  <2>1. Created(s)' = Created(s) + 1 /\ Created(o)' = Created(o)
    BY <1>1, <1>6, CreatedNew
  <2>2. Expected(s) = 0 /\ Expected(s)' = 1
    BY <1>1, <1>2, <1>6, StorageDone DEF B
  <2>3. QED
    BY <1>1, <1>2, <1>3, <1>6, <2>1, <2>2 DEF CountInv, Busy
<1>7. QED
  BY <1>4, <1>5, <1>6 DEF ProvisionStorage, Abort

LEMMA CountBegin ==
    ASSUME CInv, BeginCluster
    PROVE  CountInv'
<1>1. pc = "cluster" /\ pc' \in {"crashed", "master"} /\ ph' = ph /\ opts' = opts
      /\ calls' = calls /\ (pc' = "master" => wdone' = 0) /\ wf' = wf /\ CountInv /\ Stage
      /\ Site' = Site /\ opts[Site].on
  BY DEF BeginCluster, CInv, AInv, RInv, Stage, Site
<1>2. \A t \in Sites : Expected(t)' = Expected(t)
  BY <1>1, ExpectedSame
<1>3. \A t \in Sites : Created(t)' = Created(t)
  BY <1>1, CreatedKept
<1>4. QED
  BY <1>1, <1>2, <1>3 DEF CountInv, Busy, Stage

\* Inside site s's cluster: what the master, the submit node, a worker
\* and the end of the worker loop add to what s is expected to have.
LEMMA ClusterSteps ==
    ASSUME NEW s \in Sites, opts' = opts, opts[s].on, ph = ClusterPh(s)
    PROVE  /\ pc = "master" /\ pc' = "submit" /\ ph' = ph =>
                 Expected(s)' = Expected(s) + B("master" \in opts[s].files)
           /\ pc = "submit" /\ pc' = "worker" /\ ph' = ph /\ wdone' = 0 =>
                 Expected(s)' = Expected(s) + B("submit" \in opts[s].files)
           /\ pc = "worker" /\ pc' = "worker" /\ ph' = ph /\ wdone \in Nat
              /\ wdone' = wdone + 1 =>
                 Expected(s)' = Expected(s) + 1
           /\ pc = "worker" /\ ph' = ph + 1
              /\ wdone = (IF "worker" \in opts[s].files THEN opts[s].workers ELSE 0) =>
                 Expected(s)' = Expected(s)
<1> DEFINE f == opts[s].files
           sp == B("storage" \in f)
           ms == B("master" \in f) + B("submit" \in f)
<1>1. ph > StoragePh(s) /\ ~(ph > ClusterPh(s)) /\ ph = ClusterPh(s)
  BY DEF StoragePh, ClusterPh, Sites
<1>2. /\ pc = "master" => Expected(s) = sp + 0
      /\ pc = "submit" => Expected(s) = sp + B("master" \in f)
      /\ pc = "worker" => Expected(s) = sp + (ms + wdone)
  BY <1>1 DEF Expected
<1>3. ph' = ph =>
        /\ pc' = "submit" => Expected(s)' = sp + B("master" \in f)
        /\ pc' = "worker" => Expected(s)' = sp + (ms + wdone')
  BY <1>1 DEF Expected
<1>4. ph' = ph + 1 =>
        Expected(s)' = sp + (ms + (IF "worker" \in f THEN opts[s].workers ELSE 0))
  BY <1>1 DEF Expected, StoragePh, ClusterPh
<1>5. sp \in Nat /\ B("master" \in f) \in Nat /\ B("submit" \in f) \in Nat
  BY DEF B
<1>6. QED
  BY <1>2, <1>3, <1>4, <1>5

LEMMA CountMaster ==
    ASSUME CInv, ProvisionMaster, NEW s \in Sites, s = Site, NEW o \in Sites, o # s
    PROVE  CountInv'
<1>1. /\ ph \in 1..4 /\ Sites = {s, o} /\ wf = "live"
      /\ ph = ClusterPh(s) /\ ph # StoragePh(o) /\ ph # ClusterPh(o)
      /\ \A t \in Sites : Created(t) = Expected(t)
      /\ opts[s].on /\ wdone = 0 /\ opts' = opts /\ wdone' = wdone /\ TypeOK
  BY Here DEF ProvisionMaster, Busy, CountInv, CInv, AInv, RInv, AbortInv
<1>0. pc = "master" /\ Expected(s) \in Nat
  BY <1>1, CreatedFinite DEF ProvisionMaster, TypeOK
<1>2. ph' = ph => Expected(o)' = Expected(o) /\ Site' = Site
  BY <1>1, OtherKept DEF Site
<1>3. CASE pc' = "exited" /\ wf' = "deleted"
  BY <1>3, CountLeave
<1>4. CASE "master" \notin opts[s].files /\ pc' = "submit" /\ calls' = calls
           /\ ph' = ph /\ wf' = wf
  <2>1. Expected(s)' = Expected(s)
    BY <1>0, <1>1, <1>4, ClusterSteps DEF B
  <2>2. \A t \in Sites : Created(t)' = Created(t)
    BY <1>4, CreatedKept
  <2>3. QED
    BY <1>1, <1>2, <1>4, <2>1, <2>2 DEF CountInv, Busy
<1>5. CASE /\ \E ip, sc, fwd : CreateCompute(s, "master", ip, sc, fwd, TRUE)
           /\ "master" \in opts[s].files /\ pc' = "submit" /\ ph' = ph /\ wf' = wf
  <2>1. Created(s)' = Created(s) + 1 /\ Created(o)' = Created(o)
    BY <1>1, <1>5, CreatedNew
  <2>2. Expected(s)' = Expected(s) + 1
    BY <1>0, <1>1, <1>5, ClusterSteps DEF B
  <2>3. QED
    BY <1>1, <1>2, <1>5, <2>1, <2>2 DEF CountInv, Busy
<1>6. QED
  BY <1>3, <1>4, <1>5 DEF ProvisionMaster, Abort

LEMMA CountSubmit ==
    ASSUME CInv, ProvisionSubmit, NEW s \in Sites, s = Site, NEW o \in Sites, o # s
    PROVE  CountInv'
<1>1. /\ ph \in 1..4 /\ Sites = {s, o} /\ wf = "live"
      /\ ph = ClusterPh(s) /\ ph # StoragePh(o) /\ ph # ClusterPh(o)
      /\ \A t \in Sites : Created(t) = Expected(t)
      /\ opts[s].on /\ opts[s].workers \in Nat /\ wdone = 0 /\ opts' = opts
      /\ wdone' = wdone /\ TypeOK
  BY Here DEF ProvisionSubmit, Busy, CountInv, CInv, AInv, RInv, AbortInv
<1>0. pc = "submit" /\ Expected(s) \in Nat
  BY <1>1, CreatedFinite DEF ProvisionSubmit, TypeOK
<1>2. ph' = ph => Expected(o)' = Expected(o) /\ Site' = Site
  BY <1>1, OtherKept DEF Site
<1>3. CASE pc' = "exited" /\ wf' = "deleted"
  BY <1>3, CountLeave
<1>4. CASE "submit" \notin opts[s].files /\ pc' = "worker" /\ calls' = calls
           /\ ph' = ph /\ wf' = wf
  <2>1. Expected(s)' = Expected(s)
    BY <1>0, <1>1, <1>4, ClusterSteps DEF B
  <2>2. \A t \in Sites : Created(t)' = Created(t)
    BY <1>4, CreatedKept
  <2>3. QED
    BY <1>1, <1>2, <1>4, <2>1, <2>2 DEF CountInv, Busy
<1>5. CASE /\ \E ip, sc, fwd : CreateCompute(s, "submit", ip, sc, fwd, TRUE)
           /\ "submit" \in opts[s].files /\ pc' = "worker" /\ ph' = ph /\ wf' = wf
  <2>1. Created(s)' = Created(s) + 1 /\ Created(o)' = Created(o)
    BY <1>1, <1>5, CreatedNew
  <2>2. Expected(s)' = Expected(s) + 1
    BY <1>0, <1>1, <1>5, ClusterSteps DEF B
  <2>3. QED
    BY <1>1, <1>2, <1>5, <2>1, <2>2 DEF CountInv, Busy
<1>6. QED
  BY <1>3, <1>4, <1>5 DEF ProvisionSubmit, Abort

LEMMA CountWorker ==
    ASSUME CInv, ProvisionWorker, NEW s \in Sites, s = Site, NEW o \in Sites, o # s
    PROVE  CountInv'
<1>1. /\ ph \in 1..4 /\ Sites = {s, o} /\ wf = "live"
      /\ ph = ClusterPh(s) /\ ph # StoragePh(o) /\ ph # ClusterPh(o)
      /\ \A t \in Sites : Created(t) = Expected(t)
      /\ opts[s].on /\ opts[s].workers \in Nat /\ opts' = opts /\ TypeOK
      /\ wdone \in Nat /\ wdone <= opts[s].workers
      /\ "worker" \notin opts[s].files => wdone = 0
  BY Here DEF ProvisionWorker, Busy, CountInv, CInv, AInv, RInv, AbortInv, TypeOK
<1>0. pc = "worker" /\ Expected(s) \in Nat
  BY <1>1, CreatedFinite DEF ProvisionWorker, TypeOK
<1>2. CASE pc' = "exited" /\ wf' = "deleted"
  BY <1>2, CountLeave
<1>3. CASE ~MoreWorkers(s) /\ Goto(ph + 1) /\ calls' = calls /\ wf' = wf
  <2>1. /\ ph' = ph + 1 /\ pc' \in {"cluster", "provisioned"}
        /\ pc' = "provisioned" => ph' = 5
        /\ ph' = ClusterPh(o) => pc' = "cluster"
    BY <1>1, <1>3 DEF Goto, Phases, ClusterPh, Sites
  <2>2. wdone = (IF "worker" \in opts[s].files THEN opts[s].workers ELSE 0)
    BY <1>1, <1>3 DEF MoreWorkers
  <2>3. Expected(s)' = Expected(s)
    BY <1>0, <1>1, <2>1, <2>2, ClusterSteps
  <2>4. Expected(o)' = Expected(o)
    BY <1>1, <2>1, OtherKept
  <2>5. \A t \in Sites : Created(t)' = Created(t)
    BY <1>3, CreatedKept
  <2>6. QED
    BY <1>1, <1>3, <2>1, <2>3, <2>4, <2>5 DEF CountInv, Busy
<1>4. CASE /\ \E ip, sc, fwd : CreateCompute(s, "worker", ip, sc, fwd, TRUE)
           /\ MoreWorkers(s) /\ wdone' = wdone + 1 /\ pc' = "worker"
           /\ ph' = ph /\ wf' = wf
  <2>1. Created(s)' = Created(s) + 1 /\ Created(o)' = Created(o)
    BY <1>1, <1>4, CreatedNew
  <2>2. Expected(s)' = Expected(s) + 1
    BY <1>0, <1>1, <1>4, ClusterSteps
  <2>3. Expected(o)' = Expected(o) /\ Site' = Site
    BY <1>1, <1>4, OtherKept DEF Site
  <2>4. wdone' <= opts[s].workers /\ "worker" \in opts[s].files
    BY <1>1, <1>4 DEF MoreWorkers
  <2>5. QED
    BY <1>1, <1>4, <2>1, <2>2, <2>3, <2>4 DEF CountInv, Busy
<1>5. QED
  BY <1>2, <1>3, <1>4 DEF ProvisionWorker, Abort

LEMMA CountStep == CInv /\ [Next]_vars => CountInv'
<1> SUFFICES ASSUME CInv, [Next]_vars PROVE CountInv'
  OBVIOUS
<1>0. pc \in Busy => Site \in Sites /\ Other(Site) \in Sites /\ Other(Site) # Site
  BY PhaseFacts DEF CInv, AInv, RInv, AbortInv
<1>1. CASE Validate
  BY <1>1, CountValidate
<1>2. CASE CreateWorkflow
  BY <1>2, CountCreateWf
<1>3. CASE SkipPhase
  BY <1>0, <1>3, CountSkip DEF SkipPhase, Busy
<1>4. CASE ProvisionStorage
  BY <1>0, <1>4, CountStorage DEF ProvisionStorage, Busy
<1>5. CASE BeginCluster
  BY <1>5, CountBegin
<1>6. CASE ProvisionMaster
  BY <1>0, <1>6, CountMaster DEF ProvisionMaster, Busy
<1>7. CASE ProvisionSubmit
  BY <1>0, <1>7, CountSubmit DEF ProvisionSubmit, Busy
<1>8. CASE ProvisionWorker
  BY <1>0, <1>8, CountWorker DEF ProvisionWorker, Busy
<1>9. CASE UNCHANGED vars
  BY <1>9 DEF vars, CInv, CountInv, Created, Expected, Site
<1>10. QED
  BY <1>1, <1>2, <1>3, <1>4, <1>5, <1>6, <1>7, <1>8, <1>9 DEF Next

\* Once every phase is over, what a site is expected to have created is
\* what its arguments and data files request.
LEMMA ExpectedAll ==
    ASSUME opts \in Opts, ph = 5, NEW s \in Sites
    PROVE  Expected(s) = Requested(s)
<1> DEFINE f == opts[s].files
<1>1. opts[s].workers \in Nat
  BY OptsType
<1>2. Cardinality(f \cap {"storage", "master", "submit"})
      = B("storage" \in f) + B("master" \in f) + B("submit" \in f)
  BY CardThree
<1>3. QED
  BY <1>1, <1>2 DEF Expected, Requested, StoragePh, ClusterPh, B

(***************************************************************************)
(* A run of main that ends normally either has no live workflow left (a   *)
(* create_workflow that was refused, or a failed create_compute whose     *)
(* handler deleted the workflow) or reaches get_workflow with every node  *)
(* the arguments and data files ask for created on both sites            *)
(* (AllOrNothing, checked by the create_safety run), for every value of   *)
(* the constants.  CountInv strengthens it: at every point of the         *)
(* provisioning phases each site has exactly the accepted requests that   *)
(* main's progress accounts for.                                          *)
(***************************************************************************)
THEOREM AllOrNothingHolds == Spec => []AllOrNothing
<1>1. Init => CInv
  BY RInvInit, AddrInit, CountInit DEF CInv, AInv
<1>2. CInv /\ [Next]_vars => CInv'
  BY RInvStep, AddrStep, CountStep DEF CInv, AInv, RInv, AbortInv
<1>3. CInv => AllOrNothing
  <2> SUFFICES ASSUME CInv, pc \in {"exited", "provisioned"} PROVE AllOrNothing
    BY DEF AllOrNothing
  <2>1. CASE pc = "exited"
    BY <2>1 DEF CInv, CountInv, AllOrNothing
  <2>2. CASE pc = "provisioned"
    <3>1. ph = 5 /\ wf = "live" /\ \A s \in Sites : Created(s) = Expected(s)
      BY <2>2 DEF CInv, CountInv
    <3>2. opts \in Opts
      BY DEF CInv, AInv, RInv, AbortInv, TypeOK
    <3>3. QED
      BY <2>2, <3>1, <3>2, ExpectedAll DEF AllOrNothing
  <2>3. QED
    BY <2>1, <2>2
<1>4. QED
  BY <1>1, <1>2, <1>3, PTL DEF Spec
=============================================================================
