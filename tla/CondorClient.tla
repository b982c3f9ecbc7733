---------------------------- MODULE CondorClient ----------------------------
(***************************************************************************)
(* The 'create' operation of condor_client.py: main() validating its       *)
(* arguments, creating the workflow, provisioning the Chameleon and the    *)
(* Exogeni storage nodes (provision_storage), then each site's cluster     *)
(* (provision_condor_cluster: master, submit, workers), each node through  *)
(* create_compute, which names it, records its address in ipMap, renders  *)
(* its boot script and calls the Mobius workflow service.  The service's   *)
(* answer (status 200 or not) is a nondeterministic choice.                *)
(*                                                                         *)
(* The script is sequential: one step of the model is one create_compute   *)
(* call together with the local computation around it.  An uncaught       *)
(* Python exception ends the process: pc = "crashed".                      *)
(*                                                                         *)
(* What happens after the last cluster (get_workflow, COMET publishing,    *)
(* stitching) starts at pc = "provisioned" and is modelled elsewhere.      *)
(***************************************************************************)
EXTENDS Naturals, Sequences, FiniteSets, IpAddr, BootScript

CONSTANTS
    MaxWorkers,  \* largest --exoworkers / --chworkers value considered
    StartHosts,  \* last octets considered for --exoipStart / --chipStart
    FileSets,    \* sets of shape files a data directory may hold
    ScriptSets   \* sets of shapes whose postBootScript may be non-null

Sites == {"ch", "exo"}           \* the Chameleon and the Exogeni site
Kinds == {"storage", "master", "submit", "worker"}

ASSUME ConstantsAssumption ==
    /\ MaxWorkers \in Nat
    /\ StartHosts \subseteq 0..255
    /\ FileSets \subseteq SUBSET Kinds
    /\ ScriptSets \subseteq SUBSET Kinds
    /\ None \notin Sites

(***************************************************************************)
(* The command line and the data directories of one site: the site is     *)
(* given with its data directory (on), its worker count, its start IP (a   *)
(* last octet or None), the shape files present, the shapes whose          *)
(* postBootScript is not null, and whether the shapes carry a              *)
(* hostNamePrefix.                                                         *)
(***************************************************************************)
OffSite == [on |-> FALSE, workers |-> 0, start |-> None, files |-> {},
            scripted |-> {}, prefixed |-> FALSE]

SiteOpts ==
    {OffSite} \cup
    {c \in [on: {TRUE}, workers: 0..MaxWorkers, start: StartHosts \cup {None},
            files: FileSets, scripted: ScriptSets, prefixed: BOOLEAN] :
        c.scripted \subseteq c.files}

\* Both sites, and whether the Exogeni data directory holds stitch.json.
Opts == {o \in [ch: SiteOpts, exo: SiteOpts, stitch: BOOLEAN] :
            o.stitch => o.exo.on}

\* stitchIP of stitch.json and of the Exogeni storage.json.
StitchIp == Addr("stitch", 1)
StorageStitchIp == Addr("stitch", 2)

Nets == Sites \cup {"stitch"}

VARIABLES
    opts,    \* the arguments and data files (fixed for the run)
    pc,      \* where main() is
    ph,      \* which of main's four provisioning phases is next
    count,   \* the node counter threaded through every call
    cur,     \* provision_condor_cluster's local ipStart
    oldname, \* the worker loop's oldnodename
    wdone,   \* workers created by the current cluster call
    wscript, \* wdata["postBootScript"], rewritten in place per worker
    stor,    \* chstoragename / exostoragename
    cl,      \* the storagename, subnet and forwardIP of the current cluster
    ipMap,   \* node name -> assigned address
    calls,   \* the create_compute requests sent to Mobius, with their answer
    wf       \* the remote workflow: "none", "live" or "deleted"

vars == <<opts, pc, ph, count, cur, oldname, wdone, wscript, stor, cl,
          ipMap, calls, wf>>

\* main's provisioning phases, in program order (lines 279-326).
Phases == <<[op |-> "storage", s |-> "ch"], [op |-> "storage", s |-> "exo"],
            [op |-> "cluster", s |-> "ch"], [op |-> "cluster", s |-> "exo"]>>

Site == Phases[ph].s

Terminal == {"rejected", "exited", "crashed", "provisioned"}

StartOf(s) == IF opts[s].start = None THEN None ELSE Addr(s, opts[s].start)

\* submitSubnet: from stitchIP of the Exogeni storage.json (lines 271-278).
SubmitSubnet ==
    IF opts.exo.on /\ "storage" \in opts.exo.files
    THEN GetCidr(StorageStitchIp) ELSE None

\* sip: stitchIP of the Exogeni stitch.json (lines 265-270).
Sip == IF opts.stitch THEN StitchIp ELSE None

\* exogeniSubnet and chSubnet (lines 280-282, 292-294, 317-320).
SubnetOf(s) == IF opts[s].start = None THEN None ELSE GetCidr(Addr(s, opts[s].start))
Other(s) == IF s = "ch" THEN "exo" ELSE "ch"

\* create_compute's node name (lines 531-535); the fallback is Node<count>.
NodeName(s, k) ==
    IF opts[s].prefixed
    THEN [pre |-> k, wfp |-> s = "ch", n |-> count]
    ELSE [pre |-> "Node", wfp |-> FALSE, n |-> count]

\* chstoragename + ".novalocal" (line 286)
NovaLocal(name) == [pre |-> name.pre, wfp |-> name.wfp, n |-> name.n, dom |-> "novalocal"]

\* main moves on to its phase i; after the last one, to get_workflow.
Goto(i) == /\ ph' = i
           /\ pc' = IF i = 5 THEN "provisioned" ELSE Phases[i].op

\* Mutants: the failure leaves the workflow in place; main ignores the
\* returned False and goes on with its next phase.
AbortKeepWorkflow == /\ wf' = wf
                     /\ pc' = "exited"
                     /\ UNCHANGED <<ph, count>>
AbortNoReturn == /\ wf' = "deleted"
                 /\ Goto(ph + 1)
                 /\ UNCHANGED count

\* A node creation answered with a status other than 200: delete the
\* workflow and return False; main returns.
Abort == /\ wf' = "deleted"
         /\ pc' = "exited"
         /\ UNCHANGED <<ph, count>>

\* Mutant: count = count + 1 missing after the submit node.
CountAfterNoSubmit(k) == IF k = "submit" THEN count ELSE count + 1

\* count = count + 1 after an accepted node of kind k.
CountAfter(k) == count + 1

\* Mutant: the master takes the range's first address even after a
\* storage node.
MasterIpNoAdvance == cur

\* The master's address (lines 491-492).
MasterIp == IF cur # None /\ cl.storagename # None THEN GetNextIp(cur) ELSE cur

\* Mutant: for x in range(workers + 1).
MoreWorkersInclusive(s) == "worker" \in opts[s].files /\ wdone <= opts[s].workers

\* Another iteration of for x in range(workers) (lines 513-515).
MoreWorkers(s) == "worker" \in opts[s].files /\ wdone < opts[s].workers

\* Mutant: oldnodename = nodename missing.
WorkerOldNameKept(s) == oldname

\* oldnodename = nodename (line 522).
WorkerOldName(s) == NodeName(s, "worker")

(***************************************************************************)
(* create_compute (lines 530-568) for a node of kind k on site s at        *)
(* address ip: ipMap[nodename] = ipStart, the rendered script, and the     *)
(* request sent; ok is the service's answer.                               *)
(***************************************************************************)
RecordIp(name, ip) ==
    IF ip = None THEN ipMap
    ELSE [x \in DOMAIN ipMap \cup {name} |-> IF x = name THEN ip ELSE ipMap[x]]

DefIp(ip) == IF ip = None THEN None ELSE GetDefaultIpForCondor(ip)

RenderFor(s, k, ip, old, script, storagename, subnet, fwd) ==
    IF script = None THEN None
    ELSE Render(script, old, NodeName(s, k), SubmitSubnet, fwd, ip, subnet,
                DefIp(ip), storagename)

CreateCompute(s, k, ip, script, fwd, ok) ==
    /\ ipMap' = RecordIp(NodeName(s, k), ip)
    /\ calls' = Append(calls, [site |-> s, kind |-> k, name |-> NodeName(s, k),
                               ip |-> ip, script |-> script, fwd |-> fwd,
                               ok |-> ok])

-----------------------------------------------------------------------------
Init ==
    /\ opts \in Opts
    /\ pc = "validate"
    /\ ph = 1
    /\ count = 0
    /\ cur = None
    /\ oldname = Tok("NODENAME")
    /\ wdone = 0
    /\ wscript = None
    /\ stor = [s \in Sites |-> None]
    /\ cl = [storagename |-> None, subnet |-> None, fwd |-> None]
    /\ ipMap = [n \in {} |-> None]
    /\ calls = <<>>
    /\ wf = "none"

(***************************************************************************)
(* Argument validation (lines 216-253): no site, or a start IP whose range *)
(* cannot hold workers + 1 further addresses, ends with usage and exit 1.  *)
(***************************************************************************)
Validate ==
    /\ pc = "validate"
    /\ pc' = IF /\ opts.ch.on \/ opts.exo.on
                /\ \A s \in Sites : StartOf(s) # None =>
                        CanIpSatisfyRange(StartOf(s), opts[s].workers + 1)
             THEN "createWf" ELSE "rejected"
    /\ UNCHANGED <<opts, ph, count, cur, oldname, wdone, wscript, stor, cl,
                   ipMap, calls, wf>>

(***************************************************************************)
(* create_workflow (lines 254-278): on status 200 read the stitch data and *)
(* go on; otherwise main falls through to sys.exit(0).                     *)
(***************************************************************************)
CreateWorkflow ==
    /\ pc = "createWf"
    /\ \/ /\ wf' = "live"
          /\ Goto(1)
       \/ /\ pc' = "exited"
          /\ UNCHANGED <<wf, ph>>
    /\ UNCHANGED <<opts, count, cur, oldname, wdone, wscript, stor, cl,
                   ipMap, calls>>

(***************************************************************************)
(* main's guards 'if args.<site> is not None and args.<datadir> is not     *)
(* None' (lines 264, 279, 287, 291, 302): a phase of a site that is not    *)
(* configured is skipped.                                                  *)
(***************************************************************************)
SkipPhase ==
    /\ pc \in {"storage", "cluster"}
    /\ ~opts[Site].on
    /\ Goto(ph + 1)
    /\ UNCHANGED <<opts, count, cur, oldname, wdone, wscript, stor, cl,
                   ipMap, calls, wf>>

(***************************************************************************)
(* provision_storage (lines 425-458) for site s, and main's handling of    *)
(* its result (lines 283-290).                                             *)
(***************************************************************************)
ProvisionStorage ==
    /\ pc = "storage"
    /\ opts[Site].on
    /\ LET s     == Site
           start == StartOf(s)
           name  == NodeName(s, "storage")
           sip   == IF s = "exo" THEN Sip ELSE None
           subnet == IF s = "ch" THEN SubnetOf("exo") ELSE None
           script == IF "storage" \in opts[s].scripted
                     THEN RenderFor(s, "storage", start, Tok("NODENAME"),
                                    PrepStorage(FreshScript, GetCidrEscape(start), sip),
                                    None, subnet, None)
                     ELSE None
       IN
       \/ \* no storage.json: (True, count, None); chstoragename + ".novalocal"
          \* then raises TypeError for the Chameleon site
          /\ "storage" \notin opts[s].files
          /\ IF s = "ch"
             THEN pc' = "crashed" /\ UNCHANGED <<ph, stor>>
             ELSE stor' = [stor EXCEPT ![s] = None] /\ Goto(ph + 1)
          /\ UNCHANGED <<count, ipMap, calls, wf>>
       \/ \* get_cidr_escape(None) raises AttributeError
          /\ "storage" \in opts[s].scripted
          /\ start = None
          /\ pc' = "crashed"
          /\ UNCHANGED <<ph, count, stor, ipMap, calls, wf>>
       \/ /\ "storage" \in opts[s].files
          /\ "storage" \in opts[s].scripted => start # None
          /\ \E ok \in BOOLEAN :
                /\ CreateCompute(s, "storage", start, script, None, ok)
                /\ IF ok
                   THEN /\ count' = CountAfter("storage")
                        /\ stor' = [stor EXCEPT ![s] = IF s = "ch" THEN NovaLocal(name)
                                                                   ELSE name]
                        /\ Goto(ph + 1)
                        /\ UNCHANGED wf
                   ELSE Abort /\ UNCHANGED stor
    /\ UNCHANGED <<opts, cur, oldname, wdone, wscript, cl>>

(***************************************************************************)
(* main's arguments for provision_condor_cluster (lines 291-298 and        *)
(* 302-323) and the start of the call (lines 460-486): the shapes are read *)
(* afresh.  ipMap[exostoragename] raises KeyError when the Exogeni storage *)
(* node was created without an address.                                    *)
(***************************************************************************)
BeginCluster ==
    /\ pc = "cluster"
    /\ opts[Site].on
    /\ LET s == Site IN
       \/ /\ s = "exo"
          /\ stor.exo # None
          /\ stor.exo \notin DOMAIN ipMap
          /\ pc' = "crashed"
          /\ UNCHANGED <<cur, oldname, wdone, wscript, cl>>
       \/ /\ s = "exo" => (stor.exo = None \/ stor.exo \in DOMAIN ipMap)
          /\ cl' = [storagename |-> stor[s],
                    subnet |-> SubnetOf(Other(s)),
                    fwd |-> IF s = "ch"
                            THEN Sip
                            ELSE IF stor.exo = None THEN None ELSE ipMap[stor.exo]]
          /\ cur' = StartOf(s)
          /\ oldname' = Tok("NODENAME")
          /\ wdone' = 0
          /\ wscript' = IF "worker" \in opts[s].scripted THEN FreshScript ELSE None
          /\ pc' = "master"
    /\ UNCHANGED <<opts, ph, count, stor, ipMap, calls, wf>>

(***************************************************************************)
(* The master node (lines 487-499): the address advances past the storage *)
(* node's when there is one.                                               *)
(***************************************************************************)
ProvisionMaster ==
    /\ pc = "master"
    /\ LET s  == Site
           ip == MasterIp
           script == IF "master" \in opts[s].scripted
                     THEN RenderFor(s, "master", ip, Tok("NODENAME"), FreshScript,
                                    cl.storagename, cl.subnet, cl.fwd)
                     ELSE None
       IN
       \/ /\ "master" \notin opts[s].files
          /\ pc' = "submit"
          /\ UNCHANGED <<cur, count, ipMap, calls, wf, ph>>
       \/ /\ "master" \in opts[s].files
          /\ cur' = ip
          /\ \E ok \in BOOLEAN :
                /\ CreateCompute(s, "master", ip, script, cl.fwd, ok)
                /\ IF ok THEN count' = CountAfter("master") /\ pc' = "submit"
                              /\ UNCHANGED <<wf, ph>>
                         ELSE Abort
    /\ UNCHANGED <<opts, oldname, wdone, wscript, stor, cl>>

\* The submit node (lines 500-512): the address always advances.
ProvisionSubmit ==
    /\ pc = "submit"
    /\ LET s  == Site
           ip == IF cur # None THEN GetNextIp(cur) ELSE cur
           script == IF "submit" \in opts[s].scripted
                     THEN RenderFor(s, "submit", ip, Tok("NODENAME"), FreshScript,
                                    cl.storagename, cl.subnet, cl.fwd)
                     ELSE None
       IN
       \/ /\ "submit" \notin opts[s].files
          /\ pc' = "worker"
          /\ UNCHANGED <<cur, count, ipMap, calls, wf, ph>>
       \/ /\ "submit" \in opts[s].files
          /\ cur' = ip
          /\ \E ok \in BOOLEAN :
                /\ CreateCompute(s, "submit", ip, script, cl.fwd, ok)
                /\ IF ok THEN count' = CountAfter("submit") /\ pc' = "worker"
                              /\ UNCHANGED <<wf, ph>>
                         ELSE Abort
    /\ UNCHANGED <<opts, oldname, wdone, wscript, stor, cl>>

(***************************************************************************)
(* One iteration of the worker loop (lines 513-528): the script rendered   *)
(* is wdata's, already rendered for the previous worker, with oldnodename  *)
(* the previous worker's name; when the loop is done the cluster call     *)
(* returns True and main moves to its next phase.                          *)
(***************************************************************************)
ProvisionWorker ==
    /\ pc = "worker"
    /\ LET s  == Site
           ip == IF cur # None THEN GetNextIp(cur) ELSE cur
           script == RenderFor(s, "worker", ip, oldname, wscript,
                               cl.storagename, cl.subnet, cl.fwd)
       IN
       \/ /\ ~MoreWorkers(s)
          /\ Goto(ph + 1)
          /\ UNCHANGED <<cur, oldname, wdone, wscript, count, ipMap, calls, wf>>
       \/ /\ MoreWorkers(s)
          /\ cur' = ip
          /\ oldname' = WorkerOldName(s)
          /\ wscript' = script
          /\ \E ok \in BOOLEAN :
                /\ CreateCompute(s, "worker", ip, script, cl.fwd, ok)
                /\ IF ok THEN /\ count' = CountAfter("worker")
                              /\ wdone' = wdone + 1
                              /\ pc' = "worker"
                              /\ UNCHANGED <<wf, ph>>
                         ELSE Abort /\ UNCHANGED wdone
    /\ UNCHANGED <<opts, stor, cl>>

Next ==
    \/ Validate
    \/ CreateWorkflow
    \/ SkipPhase
    \/ ProvisionStorage
    \/ BeginCluster
    \/ ProvisionMaster
    \/ ProvisionSubmit
    \/ ProvisionWorker

Spec == Init /\ [][Next]_vars
-----------------------------------------------------------------------------
(***************************************************************************)
(* Types.                                                                  *)
(***************************************************************************)
Names == [pre: Kinds \cup {"Node"}, wfp: BOOLEAN, n: Nat]
NovaNames == [pre: Kinds \cup {"Node"}, wfp: BOOLEAN, n: Nat, dom: {"novalocal"}]
Addrs == [net: Nets, last: Nat]
Cidrs == [cidr: Nets, escaped: BOOLEAN]
Values == {Tok(t) : t \in Tokens} \cup Names \cup NovaNames \cup Addrs \cup Cidrs
          \cup [anyhost: Nets] \cup {WorkflowId, NoneText}
Scripts == [Template -> Values]

\* Python's None (the model value None) is neither a node name nor an address.
ASSUME NoneAssumption == None \notin Names \cup NovaNames \cup Addrs

Calls == [site: Sites, kind: Kinds, name: Names, ip: Addrs \cup {None},
          script: Scripts \cup {None}, fwd: Addrs \cup {None}, ok: BOOLEAN]
\* with the publishing and polling steps that follow main's phases (Stitch)
PCs == {"validate", "createWf", "storage", "cluster", "master", "submit",
        "worker", "publish", "poll", "finished"} \cup Terminal

\* Every variable holds a value of the kind the code gives it.
TypeOK ==
    /\ opts \in Opts
    /\ pc \in PCs
    /\ ph \in 1..5
    /\ pc \in {"storage", "cluster", "master", "submit", "worker"} => ph \in 1..4
    /\ count \in Nat
    /\ cur \in Addrs \cup {None}
    /\ oldname \in Names \cup {Tok("NODENAME")}
    /\ wdone \in 0..MaxWorkers
    /\ wscript \in Scripts \cup {None}
    /\ stor \in [Sites -> Names \cup NovaNames \cup {None}]
    /\ cl \in [storagename: Names \cup NovaNames \cup {None},
               subnet: Cidrs \cup {None}, fwd: Addrs \cup {None}]
    /\ DOMAIN ipMap \subseteq Names
    /\ \A x \in DOMAIN ipMap : ipMap[x] \in Addrs
    /\ calls \in Seq(Calls)
    /\ wf \in {"none", "live", "deleted"}

-----------------------------------------------------------------------------
(***************************************************************************)
(* Properties.                                                             *)
(***************************************************************************)
\* The nodes the arguments and data files ask for on site s, and the nodes
\* the service accepted.
Requested(s) ==
    IF opts[s].on
    THEN Cardinality(opts[s].files \cap {"storage", "master", "submit"})
         + (IF "worker" \in opts[s].files THEN opts[s].workers ELSE 0)
    ELSE 0
Created(s) == Cardinality({i \in 1..Len(calls) : calls[i].site = s /\ calls[i].ok})

\* No two nodes of ipMap, on either site, are given the same address: the
\* storage, master, submit and worker steps advance the address in step
\* with each other.
AddressesDistinct ==
    \A x, y \in DOMAIN ipMap : x # y => ipMap[x] # ipMap[y]

\* A run that ends normally either leaves no live workflow or has created
\* every node the arguments ask for: any failed create_compute deletes
\* the workflow (spec: no partial success).
AllOrNothing ==
    pc \in {"exited", "provisioned"} =>
        \/ wf # "live" /\ pc = "exited"
        \/ wf = "live" /\ \A s \in Sites : Created(s) = Requested(s)

\* A refused create_compute is the last request of the run and the workflow
\* has been deleted: main returns as soon as a provisioning call fails.
AbortIsFinal ==
    \A i \in 1..Len(calls) : ~calls[i].ok => i = Len(calls) /\ wf = "deleted"

\* The NODENAME placeholder of every rendered script holds the node's own
\* name, also for the workers whose script is wdata's, rewritten in place
\* for the previous worker.
ScriptNamesSelf ==
    \A i \in 1..Len(calls) :
        calls[i].script # None /\ "NODENAME" \in Template =>
            calls[i].script["NODENAME"] = calls[i].name

\* The names of the create_compute requests sent, in order.
RequestNames == [i \in 1..Len(calls) |-> calls[i].name]

Abs == INSTANCE WorkflowAbstract
           WITH Node <- Names, reqs <- RequestNames, done <- pc \in Terminal

\* The create path implements the abstract workflow: the workflow is opened
\* before any node is requested, every create_compute names a node no
\* earlier request named, a refusal deletes the workflow and ends the run
\* in the same step, and no request follows the end (exit, return,
\* exception, or the end of the four phases).
WorkflowRefined == Abs!ASpec

(***************************************************************************)
(* Claims of the spec that the code does not keep (violation runs).        *)
(***************************************************************************)
\* Spec 3 and 4.1: a site is provisioned only if its range holds all of its
\* nodes, and next() never goes past the last octet: every address given to
\* a node is a valid IPv4 address.
AddressesValid == \A x \in DOMAIN ipMap : IsValidIpv4(ipMap[x])

\* Spec 4.2 steps 4-5: the IPADDR placeholder of a node's script is the
\* forward IP when there is one, else the node's own address.
PeerAddressRendered ==
    \A i \in 1..Len(calls) :
        calls[i].script # None /\ "IPADDR" \in Template =>
            calls[i].script["IPADDR"] =
                IF calls[i].fwd # None THEN calls[i].fwd
                ELSE IF calls[i].ip # None THEN calls[i].ip ELSE Tok("IPADDR")

\* Spec 4.2 step 2 and 4.4: a worker's boot script references the worker
\* created immediately before it.
WorkerChainsPrevious ==
    \A i, j \in 1..Len(calls) :
        /\ i < j
        /\ calls[i].kind = "worker" /\ calls[j].kind = "worker"
        /\ calls[i].site = calls[j].site
        /\ \A k \in (i + 1)..(j - 1) : calls[k].kind # "worker"
        /\ calls[j].script # None /\ "NODENAME" \in Template
        => calls[j].script["NODENAME"] = calls[i].name

\* Spec 7: a create either creates every requested node or leaves no live
\* workflow, whatever way the process ends.
NoPartialWorkflow ==
    pc \in Terminal =>
        \/ wf # "live"
        \/ \A s \in Sites : Created(s) = Requested(s)
=============================================================================
