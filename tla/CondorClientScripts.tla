------------------------ MODULE CondorClientScripts ------------------------
(***************************************************************************)
(* Proof that every rendered boot script names its own node (the NODENAME *)
(* placeholder), for every value of the constants.  The storage, master   *)
(* and submit scripts are rendered from the shape's fresh script; a       *)
(* worker's is wdata's, already rendered for the previous worker, whose   *)
(* name create_compute replaces as oldnodename (lines 513-528).           *)
(***************************************************************************)
EXTENDS CondorClientProofs

\* The slot of NODENAME in a script, if the template has one.
N == "NODENAME"

\* Script sc, when there is one, holds nm in its NODENAME slot.
SelfNamed(sc, nm) == sc # None /\ N \in Template => sc[N] = nm

(***************************************************************************)
(* The strengthening: wdata's script, carried from one worker to the next,*)
(* holds oldnodename where the next name goes.                            *)
(***************************************************************************)
WScriptNamed == SelfNamed(wscript, oldname)

SInv == TypeOK /\ ScriptNamesSelf /\ WScriptNamed

\* s.replace(old, new) on one slot.
LEMMA ReplaceSlot ==
    ASSUME NEW sc, NEW t \in DOMAIN sc, NEW old, NEW new
    PROVE  /\ DOMAIN Replace(sc, old, new) = DOMAIN sc
           /\ Replace(sc, old, new)[t] = IF sc[t] = old THEN new ELSE sc[t]
BY DEF Replace

\* A node name in the NODENAME slot survives the replacement of any
\* placeholder.
LEMMA KeepName ==
    ASSUME NEW u, N \in DOMAIN u, NEW nm \in Names, u[N] = nm,
           NEW x \in Tokens, NEW v
    PROVE  /\ N \in DOMAIN Replace(u, Tok(x), v)
           /\ Replace(u, Tok(x), v)[N] = nm
<1>1. nm # Tok(x)
  BY DEF Names, Tok
<1>2. QED
  BY <1>1, ReplaceSlot

LEMMA KeepNameSubnet ==
    ASSUME NEW u, N \in DOMAIN u, NEW nm \in Names, u[N] = nm, NEW subnet
    PROVE  /\ N \in DOMAIN ReplaceSubnet(u, subnet)
           /\ ReplaceSubnet(u, subnet)[N] = nm
BY KeepName DEF ReplaceSubnet, Tokens

(***************************************************************************)
(* create_compute's chain of replacements puts the new name where the old *)
(* one was: the WORKFLOW replacement leaves the old name alone, and every *)
(* later replacement rewrites placeholders, which a name is not.          *)
(***************************************************************************)
LEMMA RenderSelf ==
    ASSUME NEW sc, N \in DOMAIN sc, NEW old \in Names \cup {Tok(N)}, sc[N] = old,
           NEW new \in Names,
           NEW submit, NEW fwd, NEW ip, NEW subnet, NEW defIP, NEW sn
    PROVE  Render(sc, old, new, submit, fwd, ip, subnet, defIP, sn)[N] = new
<1> DEFINE a  == Replace(sc, Tok("WORKFLOW"), WorkflowId)
           b  == Replace(a, old, new)
           s1 == Replace(b, Tok("SUBMIT"), Str(submit))
           s2 == IF fwd # None
                 THEN ReplaceSubnet(Replace(s1, Tok("IPADDR"), fwd), subnet)
                 ELSE s1
           s3 == IF ip # None
                 THEN ReplaceSubnet(Replace(s2, Tok("IPADDR"), ip), subnet)
                 ELSE s2
           s4 == IF defIP # None THEN Replace(s3, Tok("REPLACEIP"), defIP) ELSE s3
<1>1. N \in DOMAIN a /\ a[N] = old
  <2>1. old # Tok("WORKFLOW")
    BY DEF Names, Tok, N
  <2>2. QED
    BY <2>1, ReplaceSlot
<1>2. N \in DOMAIN b /\ b[N] = new
  BY <1>1, ReplaceSlot
<1>3. N \in DOMAIN s1 /\ s1[N] = new
  BY <1>2, KeepName DEF Tokens
<1>4. N \in DOMAIN s2 /\ s2[N] = new
  <2>1. N \in DOMAIN Replace(s1, Tok("IPADDR"), fwd)
        /\ Replace(s1, Tok("IPADDR"), fwd)[N] = new
    BY <1>3, KeepName DEF Tokens
  <2>2. QED
    BY <1>3, <2>1, KeepNameSubnet
<1>5. N \in DOMAIN s3 /\ s3[N] = new
  <2>1. N \in DOMAIN Replace(s2, Tok("IPADDR"), ip)
        /\ Replace(s2, Tok("IPADDR"), ip)[N] = new
    BY <1>4, KeepName DEF Tokens
  <2>2. QED
    BY <1>4, <2>1, KeepNameSubnet
<1>6. N \in DOMAIN s4 /\ s4[N] = new
  BY <1>5, KeepName DEF Tokens
<1>7. QED
  <2>1. N \in DOMAIN Replace(s4, Tok("STORAGENODE"), sn)
        /\ Replace(s4, Tok("STORAGENODE"), sn)[N] = new
    BY <1>6, KeepName DEF Tokens
  <2>2. QED
    BY <1>6, <2>1 DEF Render

\* The script create_compute renders for node k of site s names the node,
\* when the script it starts from holds old where the name goes.
LEMMA RenderForSelf ==
    ASSUME TypeOK, NEW s \in Sites, NEW k \in Kinds, NEW ip, NEW old \in Names \cup {Tok(N)},
           NEW sc \in Scripts \cup {None}, SelfNamed(sc, old),
           NEW sn, NEW subnet, NEW fwd
    PROVE  SelfNamed(RenderFor(s, k, ip, old, sc, sn, subnet, fwd), NodeName(s, k))
<1>1. NodeName(s, k) \in Names
  BY NodeNameType DEF TypeOK
<1>2. CASE sc # None /\ N \in Template
  <2>1. N \in DOMAIN sc /\ sc[N] = old
    BY <1>2 DEF SelfNamed, Scripts
  <2>2. QED
    BY <1>1, <2>1, RenderSelf DEF RenderFor, SelfNamed
<1>3. QED
  BY <1>2 DEF RenderFor, SelfNamed

\* The shape's script as read, and after provision_storage's CIDR and SIP
\* replacements, still holds the NODENAME placeholder.
LEMMA FreshSelf ==
    /\ SelfNamed(FreshScript, Tok(N))
    /\ \A cidr, sip : SelfNamed(PrepStorage(FreshScript, cidr, sip), Tok(N))
<1>1. SelfNamed(FreshScript, Tok(N))
  BY DEF SelfNamed, FreshScript, N
<1>2. ASSUME NEW cidr, NEW sip, N \in Template
      PROVE  PrepStorage(FreshScript, cidr, sip)[N] = Tok(N)
  <2>1. N \in DOMAIN FreshScript /\ FreshScript[N] = Tok(N)
    BY <1>2 DEF FreshScript
  <2>2. Tok(N) # Tok("CIDR") /\ Tok(N) # Tok("SIP")
    BY DEF Tok, N
  <2> DEFINE s1 == Replace(FreshScript, Tok("CIDR"), cidr)
  <2>3. N \in DOMAIN s1 /\ s1[N] = Tok(N)
    BY <2>1, <2>2, ReplaceSlot
  <2>4. Replace(s1, Tok("SIP"), sip)[N] = Tok(N)
    BY <2>2, <2>3, ReplaceSlot
  <2>5. QED
    BY <2>3, <2>4 DEF PrepStorage
<1>3. QED
  BY <1>1, <1>2 DEF SelfNamed, PrepStorage

\* A create_compute request whose script names its node keeps
\* ScriptNamesSelf.
LEMMA CreateSelf ==
    ASSUME TypeOK, ScriptNamesSelf,
           NEW s, NEW k, NEW ip, NEW sc, NEW fwd, NEW ok,
           SelfNamed(sc, NodeName(s, k)),
           CreateCompute(s, k, ip, sc, fwd, ok)
    PROVE  ScriptNamesSelf'
<1> DEFINE c == [site |-> s, kind |-> k, name |-> NodeName(s, k),
                 ip |-> ip, script |-> sc, fwd |-> fwd, ok |-> ok]
<1>1. calls' = Append(calls, c) /\ calls \in Seq(Calls)
  BY DEF CreateCompute, TypeOK
<1>2. \A i \in 1..Len(calls') :
         calls'[i] = IF i <= Len(calls) THEN calls[i] ELSE c
  BY <1>1
<1>3. QED
  BY <1>1, <1>2 DEF ScriptNamesSelf, SelfNamed, N

\* A step that sends no request and leaves wdata alone.
LEMMA KeepScripts ==
    ASSUME ScriptNamesSelf, WScriptNamed,
           calls' = calls, wscript' = wscript, oldname' = oldname
    PROVE  ScriptNamesSelf' /\ WScriptNamed'
BY DEF ScriptNamesSelf, WScriptNamed, SelfNamed

\* Every step of main keeps both.
LEMMA ScriptStep ==
    ASSUME TypeOK, ScriptNamesSelf, WScriptNamed, [Next]_vars
    PROVE  ScriptNamesSelf' /\ WScriptNamed'
<1>0. /\ oldname \in Names \cup {Tok(N)} /\ wscript \in Scripts \cup {None}
      /\ FreshScript \in Scripts
  BY ScriptValues DEF TypeOK, N
<1>1. CASE Validate \/ CreateWorkflow \/ SkipPhase \/ UNCHANGED vars
  BY <1>1, KeepScripts DEF Validate, CreateWorkflow, SkipPhase, vars
<1>2. CASE ProvisionStorage
  <2> DEFINE s == Site
             start == StartOf(s)
             sc == IF "storage" \in opts[s].scripted
                   THEN RenderFor(s, "storage", start, Tok("NODENAME"),
                                  PrepStorage(FreshScript, GetCidrEscape(start),
                                              IF s = "exo" THEN Sip ELSE None),
                                  None, IF s = "ch" THEN SubnetOf("exo") ELSE None, None)
                   ELSE None
  <2>1. s \in Sites
    BY <1>2, SiteType DEF ProvisionStorage
  <2>2. ("storage" \in opts[s].scripted => start # None) =>
           SelfNamed(sc, NodeName(s, "storage"))
    <3>1. CASE "storage" \in opts[s].scripted /\ start # None
      <4>1. start \in Addrs /\ (IF s = "exo" THEN Sip ELSE None) \in Addrs \cup {None}
        BY <2>1, <3>1, AddrValues DEF TypeOK
      <4>2. PrepStorage(FreshScript, GetCidrEscape(start),
                        IF s = "exo" THEN Sip ELSE None) \in Scripts
        BY <4>1, ScriptValues, AddrValues
      <4>3. QED
        BY <2>1, <3>1, <4>2, FreshSelf, RenderForSelf DEF Kinds, N
    <3>2. QED
      BY <3>1 DEF SelfNamed
  <2>3. ASSUME NEW ok, SelfNamed(sc, NodeName(s, "storage")),
               CreateCompute(s, "storage", start, sc, None, ok)
        PROVE  ScriptNamesSelf'
    BY <2>3, CreateSelf
  <2>4. QED
    <3>1. WScriptNamed'
      BY <1>2 DEF ProvisionStorage, WScriptNamed, SelfNamed
    <3>2. ScriptNamesSelf'
      BY <1>2, <2>2, <2>3 DEF ProvisionStorage, ScriptNamesSelf
    <3>3. QED
      BY <3>1, <3>2
<1>3. CASE BeginCluster
  <2>1. SelfNamed(FreshScript, Tok(N)) /\ SelfNamed(None, Tok(N))
    BY FreshSelf DEF SelfNamed
  <2>2. QED
    BY <1>3, <2>1 DEF BeginCluster, ScriptNamesSelf, WScriptNamed, N
<1>4. CASE ProvisionMaster
  <2> DEFINE s == Site
             sc == IF "master" \in opts[s].scripted
                   THEN RenderFor(s, "master", MasterIp, Tok("NODENAME"), FreshScript,
                                  cl.storagename, cl.subnet, cl.fwd)
                   ELSE None
  <2>1. s \in Sites
    BY <1>4, SiteType DEF ProvisionMaster
  <2>2. SelfNamed(sc, NodeName(s, "master"))
    BY <1>0, <2>1, FreshSelf, RenderForSelf DEF Kinds, N, SelfNamed
  <2>3. ASSUME NEW ok, CreateCompute(s, "master", MasterIp, sc, cl.fwd, ok)
        PROVE  ScriptNamesSelf'
    BY <2>2, <2>3, CreateSelf
  <2>4. QED
    <3>1. WScriptNamed'
      BY <1>4 DEF ProvisionMaster, WScriptNamed, SelfNamed
    <3>2. ScriptNamesSelf'
      BY <1>4, <2>3 DEF ProvisionMaster, ScriptNamesSelf
    <3>3. QED
      BY <3>1, <3>2
<1>5. CASE ProvisionSubmit
  <2> DEFINE s == Site
             ip == IF cur # None THEN GetNextIp(cur) ELSE cur
             sc == IF "submit" \in opts[s].scripted
                   THEN RenderFor(s, "submit", ip, Tok("NODENAME"), FreshScript,
                                  cl.storagename, cl.subnet, cl.fwd)
                   ELSE None
  <2>1. s \in Sites
    BY <1>5, SiteType DEF ProvisionSubmit
  <2>2. SelfNamed(sc, NodeName(s, "submit"))
    BY <1>0, <2>1, FreshSelf, RenderForSelf DEF Kinds, N, SelfNamed
  <2>3. ASSUME NEW ok, CreateCompute(s, "submit", ip, sc, cl.fwd, ok)
        PROVE  ScriptNamesSelf'
    BY <2>2, <2>3, CreateSelf
  <2>4. QED
    <3>1. WScriptNamed'
      BY <1>5 DEF ProvisionSubmit, WScriptNamed, SelfNamed
    <3>2. ScriptNamesSelf'
      BY <1>5, <2>3 DEF ProvisionSubmit, ScriptNamesSelf
    <3>3. QED
      BY <3>1, <3>2
<1>6. CASE ProvisionWorker
  <2> DEFINE s == Site
             ip == IF cur # None THEN GetNextIp(cur) ELSE cur
             sc == RenderFor(s, "worker", ip, oldname, wscript,
                             cl.storagename, cl.subnet, cl.fwd)
  <2>1. s \in Sites
    BY <1>6, SiteType DEF ProvisionWorker
  <2>2. SelfNamed(sc, NodeName(s, "worker"))
    BY <1>0, <2>1, RenderForSelf DEF Kinds, WScriptNamed
  <2>3. ASSUME NEW ok, CreateCompute(s, "worker", ip, sc, cl.fwd, ok)
        PROVE  ScriptNamesSelf'
    BY <2>2, <2>3, CreateSelf
  <2>4. CASE ~MoreWorkers(s)
    BY <1>6, <2>4, KeepScripts DEF ProvisionWorker
  <2>5. CASE MoreWorkers(s)
    <3>1. wscript' = sc /\ oldname' = NodeName(s, "worker")
      BY <1>6, <2>5 DEF ProvisionWorker, WorkerOldName
    <3>2. WScriptNamed'
      BY <2>2, <3>1 DEF WScriptNamed, SelfNamed
    <3>3. QED
      BY <1>6, <2>3, <2>5, <3>2 DEF ProvisionWorker
  <2>6. QED
    BY <2>4, <2>5
<1>7. QED
  BY <1>1, <1>2, <1>3, <1>4, <1>5, <1>6 DEF Next

(***************************************************************************)
(* The NODENAME placeholder of every rendered script holds the node's own *)
(* name (ScriptNamesSelf, checked by the create_safety run), also for the *)
(* workers, whose script is wdata's re-rendered with oldnodename replaced  *)
(* (lines 513-528), for every value of the constants.                     *)
(***************************************************************************)
THEOREM ScriptsSelfNamed == Spec => []ScriptNamesSelf
<1>1. Init => SInv
  BY TypeInit DEF Init, SInv, ScriptNamesSelf, WScriptNamed, SelfNamed
<1>2. SInv /\ [Next]_vars => SInv'
  BY TypeStep, ScriptStep DEF SInv
<1>3. QED
  BY <1>1, <1>2, PTL DEF Spec, SInv
=============================================================================
