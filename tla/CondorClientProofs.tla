------------------------- MODULE CondorClientProofs -------------------------
(***************************************************************************)
(* Proofs about CondorClient for every value of the constants.             *)
(***************************************************************************)
EXTENDS CondorClient, TLAPS

(***************************************************************************)
(* str.replace keeps a script a map from the template's tokens to values   *)
(* when the substituted value is one.                                      *)
(***************************************************************************)
LEMMA ReplaceType ==
    ASSUME NEW sc \in Scripts, NEW old, NEW new \in Values
    PROVE  Replace(sc, old, new) \in Scripts
BY DEF Replace, Scripts

LEMMA ReplaceSubnetType ==
    ASSUME NEW sc \in Scripts, NEW subnet \in Cidrs \cup {None}
    PROVE  ReplaceSubnet(sc, subnet) \in Scripts
BY ReplaceType DEF ReplaceSubnet, Values

LEMMA RenderType ==
    ASSUME NEW sc \in Scripts, NEW old, NEW new \in Names,
           NEW submit \in Cidrs \cup {None}, NEW fwd \in Addrs \cup {None},
           NEW ip \in Addrs \cup {None}, NEW subnet \in Cidrs \cup {None},
           NEW defIP \in [anyhost: Nets] \cup {None},
           NEW sn \in Names \cup NovaNames \cup {None}
    PROVE  Render(sc, old, new, submit, fwd, ip, subnet, defIP, sn) \in Scripts
<1> DEFINE s1 == Replace(Replace(Replace(sc, Tok("WORKFLOW"), WorkflowId),
                                 old, new),
                         Tok("SUBMIT"), Str(submit))
           s2 == IF fwd # None
                 THEN ReplaceSubnet(Replace(s1, Tok("IPADDR"), fwd), subnet)
                 ELSE s1
           s3 == IF ip # None
                 THEN ReplaceSubnet(Replace(s2, Tok("IPADDR"), ip), subnet)
                 ELSE s2
           s4 == IF defIP # None THEN Replace(s3, Tok("REPLACEIP"), defIP) ELSE s3
<1>1. s1 \in Scripts
  BY ReplaceType DEF Values, Str
<1>2. s2 \in Scripts
  BY <1>1, ReplaceType, ReplaceSubnetType DEF Values
<1>3. s3 \in Scripts
  BY <1>2, ReplaceType, ReplaceSubnetType DEF Values
<1>4. s4 \in Scripts
  BY <1>3, ReplaceType DEF Values
<1>5. QED
  BY <1>4, ReplaceType DEF Render, Values

(***************************************************************************)
(* The values main and create_compute compute have their types.            *)
(***************************************************************************)
LEMMA OptsType ==
    ASSUME opts \in Opts, NEW s \in Sites
    PROVE  /\ opts[s].on \in BOOLEAN
           /\ opts[s].workers \in 0..MaxWorkers
           /\ opts[s].start \in StartHosts \cup {None}
           /\ opts[s].files \subseteq Kinds
           /\ opts[s].scripted \subseteq Kinds
           /\ opts[s].prefixed \in BOOLEAN
<1>1. opts[s] \in SiteOpts
  BY DEF Opts, Sites
<1>2. CASE opts[s] = OffSite
  BY <1>2, ConstantsAssumption DEF OffSite
<1>3. CASE opts[s] # OffSite
  <2>1. opts[s] \in [on: {TRUE}, workers: 0..MaxWorkers, start: StartHosts \cup {None},
                     files: FileSets, scripted: ScriptSets, prefixed: BOOLEAN]
    BY <1>1, <1>3 DEF SiteOpts
  <2>2. QED
    BY <2>1, ConstantsAssumption
<1>4. QED
  BY <1>2, <1>3

LEMMA AddrValues ==
    /\ \A s \in Sites : opts \in Opts => StartOf(s) \in Addrs \cup {None}
    /\ \A s \in Sites : opts \in Opts => SubnetOf(s) \in Cidrs \cup {None}
    /\ SubmitSubnet \in Cidrs \cup {None}
    /\ Sip \in Addrs \cup {None}
    /\ \A a \in Addrs : GetNextIp(a) \in Addrs
    /\ \A a \in Addrs : GetCidrEscape(a) \in Cidrs
    /\ \A a \in Addrs \cup {None} : DefIp(a) \in [anyhost: Nets] \cup {None}
<1>1. ASSUME NEW s \in Sites, opts \in Opts
      PROVE  StartOf(s) \in Addrs \cup {None} /\ SubnetOf(s) \in Cidrs \cup {None}
  <2>1. opts[s].start \in StartHosts \cup {None}
    BY <1>1, OptsType
  <2>2. opts[s].start # None => opts[s].start \in Nat
    <3>1. StartHosts \subseteq Nat
      BY ConstantsAssumption
    <3>2. QED
      BY <2>1, <3>1
  <2>3. s \in Nets
    BY DEF Nets
  <2>4. QED
    BY <2>2, <2>3 DEF StartOf, SubnetOf, Addr, GetCidr, Addrs, Cidrs
<1>2. QED
  BY <1>1 DEF SubmitSubnet, GetCidr, StorageStitchIp, Sip, StitchIp, Addr,
              GetNextIp, GetCidrEscape, DefIp, GetDefaultIpForCondor,
              Addrs, Cidrs, Nets

LEMMA NodeNameType ==
    ASSUME opts \in Opts, count \in Nat, NEW s \in Sites, NEW k \in Kinds
    PROVE  /\ NodeName(s, k) \in Names
           /\ NovaLocal(NodeName(s, k)) \in NovaNames
BY OptsType DEF NodeName, Names, NovaLocal, NovaNames

LEMMA ScriptValues ==
    /\ FreshScript \in Scripts
    /\ \A c \in Cidrs, sip \in Addrs \cup {None} :
          PrepStorage(FreshScript, c, sip) \in Scripts
<1>1. FreshScript \in Scripts
  <2>1. \A t \in Template : Tok(t) \in {Tok(u) : u \in Tokens}
    BY TemplateAssumption
  <2>2. QED
    BY <2>1 DEF FreshScript, Scripts, Values
<1>2. QED
  BY <1>1, ReplaceType DEF PrepStorage, Values

LEMMA SiteType ==
    ASSUME TypeOK, pc \in {"storage", "cluster", "master", "submit", "worker"}
    PROVE  Site \in Sites /\ Other(Site) \in Sites
BY DEF TypeOK, Site, Phases, Sites, Other

LEMMA RenderForType ==
    ASSUME TypeOK, NEW s \in Sites, NEW k \in Kinds, NEW ip \in Addrs \cup {None},
           NEW old, NEW sc \in Scripts \cup {None},
           NEW sn \in Names \cup NovaNames \cup {None},
           NEW subnet \in Cidrs \cup {None}, NEW fwd \in Addrs \cup {None}
    PROVE  RenderFor(s, k, ip, old, sc, sn, subnet, fwd) \in Scripts \cup {None}
<1>1. NodeName(s, k) \in Names
  BY NodeNameType DEF TypeOK
<1>2. DefIp(ip) \in [anyhost: Nets] \cup {None}
  BY AddrValues
<1>3. SubmitSubnet \in Cidrs \cup {None}
  BY AddrValues
<1>4. QED
  BY <1>1, <1>2, <1>3, RenderType DEF RenderFor

LEMMA CreateComputeType ==
    ASSUME TypeOK, NEW s \in Sites, NEW k \in Kinds, NEW ip \in Addrs \cup {None},
           NEW sc \in Scripts \cup {None}, NEW fwd \in Addrs \cup {None},
           NEW ok \in BOOLEAN,
           CreateCompute(s, k, ip, sc, fwd, ok)
    PROVE  /\ DOMAIN ipMap' \subseteq Names
           /\ \A x \in DOMAIN ipMap' : ipMap'[x] \in Addrs
           /\ calls' \in Seq(Calls)
<1>1. NodeName(s, k) \in Names
  BY NodeNameType DEF TypeOK
<1>2. DOMAIN ipMap' \subseteq Names /\ \A x \in DOMAIN ipMap' : ipMap'[x] \in Addrs
  BY <1>1 DEF TypeOK, CreateCompute, RecordIp
<1>3. calls' \in Seq(Calls)
  BY <1>1 DEF TypeOK, CreateCompute, Calls
<1>4. QED
  BY <1>2, <1>3

(***************************************************************************)
(* The initial state and every step of main's create path are well typed. *)
(***************************************************************************)
LEMMA TypeInit == Init => TypeOK
BY ConstantsAssumption DEF Init, TypeOK, PCs, Terminal, Tok, Names

LEMMA TypeStep == TypeOK /\ [Next]_vars => TypeOK'
<1> SUFFICES ASSUME TypeOK, [Next]_vars PROVE TypeOK'
  OBVIOUS
<1>0. /\ opts \in Opts
      /\ wdone \in 0..MaxWorkers
      /\ cl.storagename \in Names \cup NovaNames \cup {None}
      /\ cl.subnet \in Cidrs \cup {None}
      /\ cl.fwd \in Addrs \cup {None}
      /\ cur \in Addrs \cup {None}
  BY DEF TypeOK
<1>1. CASE Validate
  BY <1>1 DEF Validate, TypeOK, PCs, Terminal
<1>2. CASE CreateWorkflow
  BY <1>2 DEF CreateWorkflow, Goto, TypeOK, PCs, Terminal, Phases
<1>3. CASE SkipPhase
  BY <1>3 DEF SkipPhase, Goto, TypeOK, PCs, Terminal, Phases
<1>4. CASE ProvisionStorage
  <2> DEFINE s == Site
  <2>1. s \in Sites /\ Other(s) \in Sites
    BY <1>4, SiteType DEF ProvisionStorage
  <2>2. StartOf(s) \in Addrs \cup {None} /\ SubnetOf("exo") \in Cidrs \cup {None}
        /\ Sip \in Addrs \cup {None}
    BY <2>1, AddrValues DEF TypeOK, Sites
  <2>3. NodeName(s, "storage") \in Names /\ NovaLocal(NodeName(s, "storage")) \in NovaNames
    BY <2>1, NodeNameType DEF TypeOK, Kinds
  <2>4. StartOf(s) # None =>
          PrepStorage(FreshScript, GetCidrEscape(StartOf(s)), IF s = "exo" THEN Sip ELSE None)
            \in Scripts
    BY <2>2, ScriptValues, AddrValues
  <2>5. ("storage" \in opts[s].scripted => StartOf(s) # None) =>
        (IF "storage" \in opts[s].scripted
         THEN RenderFor(s, "storage", StartOf(s), Tok("NODENAME"),
                        PrepStorage(FreshScript, GetCidrEscape(StartOf(s)),
                                    IF s = "exo" THEN Sip ELSE None),
                        None, IF s = "ch" THEN SubnetOf("exo") ELSE None, None)
         ELSE None) \in Scripts \cup {None}
    BY <2>1, <2>2, <2>4, RenderForType DEF Kinds
  <2>6. ASSUME NEW ok \in BOOLEAN,
               NEW sc \in Scripts \cup {None},
               CreateCompute(s, "storage", StartOf(s), sc, None, ok)
        PROVE  /\ DOMAIN ipMap' \subseteq Names
               /\ \A x \in DOMAIN ipMap' : ipMap'[x] \in Addrs
               /\ calls' \in Seq(Calls)
    BY <2>1, <2>2, <2>6, CreateComputeType, ZenonT(60) DEF Kinds
  <2>7. QED
    BY <1>4, <2>1, <2>2, <2>3, <2>5, <2>6, SMTT(90)
    DEF ProvisionStorage, Goto, Abort, CountAfter, TypeOK, PCs, Terminal, Phases
<1>5. CASE BeginCluster
  <2> DEFINE s == Site
  <2>1. s \in Sites /\ Other(s) \in Sites
    BY <1>5, SiteType DEF BeginCluster
  <2>2. StartOf(s) \in Addrs \cup {None} /\ SubnetOf(Other(s)) \in Cidrs \cup {None}
        /\ Sip \in Addrs \cup {None}
    BY <2>1, AddrValues DEF TypeOK
  <2>3. stor.exo # None /\ stor.exo \in DOMAIN ipMap => ipMap[stor.exo] \in Addrs
    BY DEF TypeOK
  <2>4. FreshScript \in Scripts
    BY ScriptValues
  <2>5. stor[s] \in Names \cup NovaNames \cup {None}
    BY <2>1 DEF TypeOK
  <2>6. CASE s = "exo" /\ stor.exo # None /\ stor.exo \notin DOMAIN ipMap
              /\ pc' = "crashed" /\ UNCHANGED <<cur, oldname, wdone, wscript, cl>>
    BY <2>6, <1>5 DEF BeginCluster, TypeOK, PCs, Terminal
  <2>7. CASE /\ s = "exo" => (stor.exo = None \/ stor.exo \in DOMAIN ipMap)
             /\ cl' = [storagename |-> stor[s],
                       subnet |-> SubnetOf(Other(s)),
                       fwd |-> IF s = "ch"
                               THEN Sip
                               ELSE IF stor.exo = None THEN None ELSE ipMap[stor.exo]]
             /\ cur' = StartOf(s)
             /\ oldname' = Tok("NODENAME")
             /\ wdone' = 0
             /\ wscript' = IF "worker" \in opts[s].scripted THEN FreshScript ELSE None
             /\ pc' = "master"
    <3>1. cl' \in [storagename: Names \cup NovaNames \cup {None},
                   subnet: Cidrs \cup {None}, fwd: Addrs \cup {None}]
      BY <2>1, <2>2, <2>3, <2>5, <2>7 DEF Sites
    <3>2. QED
      BY <1>5, <2>2, <2>4, <2>7, <3>1, ConstantsAssumption
      DEF BeginCluster, TypeOK, PCs, Terminal, Tok, Names
  <2>8. QED
    BY <1>5, <2>6, <2>7 DEF BeginCluster
<1>6. CASE ProvisionMaster
  <2> DEFINE s == Site
  <2>1. s \in Sites
    BY <1>6, SiteType DEF ProvisionMaster
  <2>2. MasterIp \in Addrs \cup {None}
    BY AddrValues DEF MasterIp, TypeOK
  <2>3. "master" \in opts[s].scripted =>
          RenderFor(s, "master", MasterIp, Tok("NODENAME"), FreshScript,
                    cl.storagename, cl.subnet, cl.fwd) \in Scripts \cup {None}
    BY <2>1, <2>2, ScriptValues, RenderForType DEF TypeOK, Kinds
  <2>4. ASSUME NEW ok \in BOOLEAN,
               NEW sc \in Scripts \cup {None},
               CreateCompute(s, "master", MasterIp, sc, cl.fwd, ok)
        PROVE  /\ DOMAIN ipMap' \subseteq Names
               /\ \A x \in DOMAIN ipMap' : ipMap'[x] \in Addrs
               /\ calls' \in Seq(Calls)
    BY <2>1, <2>2, <2>4, <1>0, CreateComputeType, ZenonT(60) DEF Kinds
  <2>5. QED
    BY <1>6, <2>2, <2>3, <2>4
    DEF ProvisionMaster, Abort, CountAfter, TypeOK, PCs, Terminal
<1>7. CASE ProvisionSubmit
  <2> DEFINE s == Site
             ip == IF cur # None THEN GetNextIp(cur) ELSE cur
  <2>1. s \in Sites
    BY <1>7, SiteType DEF ProvisionSubmit
  <2>2. ip \in Addrs \cup {None}
    BY AddrValues DEF TypeOK
  <2>3. "submit" \in opts[s].scripted =>
          RenderFor(s, "submit", ip, Tok("NODENAME"), FreshScript,
                    cl.storagename, cl.subnet, cl.fwd) \in Scripts \cup {None}
    BY <2>1, <2>2, ScriptValues, RenderForType DEF TypeOK, Kinds
  <2>4. ASSUME NEW ok \in BOOLEAN,
               NEW sc \in Scripts \cup {None},
               CreateCompute(s, "submit", ip, sc, cl.fwd, ok)
        PROVE  /\ DOMAIN ipMap' \subseteq Names
               /\ \A x \in DOMAIN ipMap' : ipMap'[x] \in Addrs
               /\ calls' \in Seq(Calls)
    BY <2>1, <2>2, <2>4, <1>0, CreateComputeType, ZenonT(60) DEF Kinds
  <2>5. QED
    BY <1>7, <2>2, <2>3, <2>4
    DEF ProvisionSubmit, Abort, CountAfter, TypeOK, PCs, Terminal
<1>8. CASE ProvisionWorker
  <2> DEFINE s == Site
             ip == IF cur # None THEN GetNextIp(cur) ELSE cur
             sc == RenderFor(s, "worker", ip, oldname, wscript,
                             cl.storagename, cl.subnet, cl.fwd)
  <2>1. s \in Sites
    BY <1>8, SiteType DEF ProvisionWorker
  <2>2. ip \in Addrs \cup {None}
    BY AddrValues DEF TypeOK
  <2>3. sc \in Scripts \cup {None}
    BY <2>1, <2>2, RenderForType DEF TypeOK, Kinds
  <2>4. NodeName(s, "worker") \in Names
    BY <2>1, NodeNameType DEF TypeOK, Kinds
  <2>5. MoreWorkers(s) => wdone + 1 \in 0..MaxWorkers
    <3>1. opts[s].workers \in 0..MaxWorkers
      BY <1>0, <2>1, OptsType
    <3>2. QED
      BY <3>1, <1>0, ConstantsAssumption DEF MoreWorkers
  <2>6. ASSUME NEW ok \in BOOLEAN,
               CreateCompute(s, "worker", ip, sc, cl.fwd, ok)
        PROVE  /\ DOMAIN ipMap' \subseteq Names
               /\ \A x \in DOMAIN ipMap' : ipMap'[x] \in Addrs
               /\ calls' \in Seq(Calls)
    BY <2>1, <2>2, <2>3, <2>6, <1>0, CreateComputeType, ZenonT(60) DEF Kinds
  <2>7. QED
    BY <1>8, <1>0, <2>2, <2>3, <2>4, <2>5, <2>6
    DEF ProvisionWorker, Goto, Abort, CountAfter, WorkerOldName, TypeOK, PCs,
        Terminal, Phases
<1>9. CASE UNCHANGED vars
  BY <1>9 DEF vars, TypeOK
<1>10. QED
  BY <1>1, <1>2, <1>3, <1>4, <1>5, <1>6, <1>7, <1>8, <1>9 DEF Next

(***************************************************************************)
(* Every reachable state of the create path is well typed: addresses,     *)
(* names, rendered scripts and the request log keep their shapes.         *)
(***************************************************************************)
THEOREM TypeCorrect == Spec => []TypeOK
BY TypeInit, TypeStep, PTL DEF Spec

-----------------------------------------------------------------------------
(***************************************************************************)
(* A refused create_compute ends the run.  AbortIsFinal alone is not      *)
(* inductive: a step after a refusal could append a request behind it.     *)
(* The strengthening adds that main is then at its return (pc = "exited"), *)
(* where no action is enabled.                                             *)
(***************************************************************************)
RefusalStops ==
    \A i \in 1..Len(calls) :
        ~calls[i].ok => i = Len(calls) /\ wf = "deleted" /\ pc = "exited"

AbortInv == TypeOK /\ RefusalStops

\* A step that leaves the request log alone keeps RefusalStops while main
\* is not at its return.
LEMMA KeepCalls ==
    ASSUME TypeOK, RefusalStops, pc # "exited", calls' = calls
    PROVE  RefusalStops'
BY DEF RefusalStops

\* A step that appends an accepted request, or a refused one and then
\* deletes the workflow and returns, keeps RefusalStops.
LEMMA AppendCall ==
    ASSUME TypeOK, RefusalStops, pc # "exited",
           NEW c, calls' = Append(calls, c),
           c.ok \/ (wf' = "deleted" /\ pc' = "exited")
    PROVE  RefusalStops'
<1>1. calls \in Seq(Calls)
  BY DEF TypeOK
<1>2. \A i \in 1..Len(calls) : calls[i].ok
  BY DEF RefusalStops
<1>3. Len(calls') = Len(calls) + 1 /\ calls'[Len(calls) + 1] = c
      /\ \A i \in 1..Len(calls) : calls'[i] = calls[i]
  BY <1>1
<1>4. QED
  BY <1>2, <1>3 DEF RefusalStops

\* One step of a create_compute action: the request log grows by the
\* request sent, whose answer decides between going on and Abort.
LEMMA CreateStep ==
    ASSUME TypeOK, RefusalStops, pc # "exited",
           NEW s, NEW k, NEW ip, NEW sc, NEW fwd, NEW ok \in BOOLEAN,
           CreateCompute(s, k, ip, sc, fwd, ok),
           ok \/ Abort
    PROVE  RefusalStops'
BY AppendCall DEF CreateCompute, Abort

LEMMA AbortStep == AbortInv /\ [Next]_vars => RefusalStops'
<1> SUFFICES ASSUME TypeOK, RefusalStops, [Next]_vars PROVE RefusalStops'
  BY DEF AbortInv
<1>1. CASE Validate
  BY <1>1, KeepCalls DEF Validate
<1>2. CASE CreateWorkflow
  BY <1>2, KeepCalls DEF CreateWorkflow
<1>3. CASE SkipPhase
  BY <1>3, KeepCalls DEF SkipPhase
<1>4. CASE ProvisionStorage
  BY <1>4, KeepCalls, CreateStep DEF ProvisionStorage
<1>5. CASE BeginCluster
  BY <1>5, KeepCalls DEF BeginCluster
<1>6. CASE ProvisionMaster
  BY <1>6, KeepCalls, CreateStep DEF ProvisionMaster
<1>7. CASE ProvisionSubmit
  BY <1>7, KeepCalls, CreateStep DEF ProvisionSubmit
<1>8. CASE ProvisionWorker
  BY <1>8, KeepCalls, CreateStep DEF ProvisionWorker
<1>9. CASE UNCHANGED vars
  BY <1>9 DEF vars, RefusalStops
<1>10. QED
  BY <1>1, <1>2, <1>3, <1>4, <1>5, <1>6, <1>7, <1>8, <1>9 DEF Next

(***************************************************************************)
(* A refused create_compute is the last request of the run and the         *)
(* workflow has been deleted (main returns as soon as provision_storage or *)
(* provision_condor_cluster reports failure), for every value of the       *)
(* constants.                                                              *)
(***************************************************************************)
THEOREM AbortFinal == Spec => []AbortIsFinal
<1>1. Init => AbortInv
  BY TypeInit DEF Init, AbortInv, RefusalStops
<1>2. AbortInv /\ [Next]_vars => AbortInv'
  BY TypeStep, AbortStep DEF AbortInv
<1>3. AbortInv => AbortIsFinal
  BY DEF AbortInv, RefusalStops, AbortIsFinal
<1>4. QED
  BY <1>1, <1>2, <1>3, PTL DEF Spec
=============================================================================
