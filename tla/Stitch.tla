------------------------------- MODULE Stitch -------------------------------
(***************************************************************************)
(* The Context Publisher and the Stitching Coordinator of condor_client.py *)
(* (lines 327-423), run after main's four provisioning phases: the         *)
(* workflow status is fetched again, every listed node is published to     *)
(* COMET, the stitch target of stitch.json is rebound to the Exogeni node  *)
(* whose name contains it, and when Mobius reports a VLAN on the Chameleon *)
(* request the client polls until that node is Active, then requests the   *)
(* stitch port.                                                            *)
(*                                                                         *)
(* The remote service is the environment: it lists the nodes created, in  *)
(* one request per site, and activates them in its own time.               *)
(***************************************************************************)
EXTENDS CondorClient, TLC

CONSTANT Targets    \* the "target" strings stitch.json may hold

\* A target string: an alphabetic part followed by an optional number.
ASSUME TargetsAssumption ==
    Targets \subseteq [pre: Kinds \cup {"Node"}, num: Nat \cup {None}]

\* Python's None is not one of the status strings stitchNodeStatus holds.
ASSUME StatusAssumption == None \notin {"Active", "Pending"}

VARIABLES
    sopts,     \* --comethost given, stitch.json's target, a vlan on the Chameleon request
    listing,   \* the nodes of the status fetched at line 327, with their state
    li,        \* the publishing loop's position in listing
    target,    \* stitchdata["target"]
    tstatus,   \* stitchNodeStatus
    vlan,      \* stitcVlanToChameleon # None
    hosts,     \* the hostsall records sent to COMET, per node
    active,    \* the nodes the service reports Active
    stitchReq  \* the create_stitchport payload, once sent

svars == <<sopts, listing, li, target, tstatus, vlan, hosts, active, stitchReq>>
allvars == <<vars, svars>>

SOpts == [comet: BOOLEAN, target: Targets, vlan: BOOLEAN]

\* stitch.json's target as read at line 268, if the file exists.
Declared == IF opts.stitch THEN sopts.target ELSE None

\* The decimal digits of a are a prefix of those of b.
Digits(x) == IF x < 10 THEN 1 ELSE IF x < 100 THEN 2 ELSE 3
DigitPrefix(a, b) ==
    Digits(a) <= Digits(b) /\ b \div 10^(Digits(b) - Digits(a)) = a

\* stitchdata["target"] in n["name"] (line 360) for an Exogeni node name.
Contains(name, t) ==
    /\ t.pre = name.pre
    /\ IF t.num = None THEN TRUE ELSE DigitPrefix(t.num, name.n)

\* The target string a rebinding to n["name"] leaves (line 362).
AsTarget(name) == [pre |-> name.pre, num |-> name.n]

\* The node a target string names exactly.
NameOf(t) == [pre |-> t.pre, wfp |-> FALSE, n |-> t.num]

\* The log positions of the requests Mobius accepted for site s, and the
\* place of position i among them.
Listed(s) == {i \in 1..Len(calls) : calls[i].ok /\ calls[i].site = s}
Rank(s, i) == Cardinality({j \in Listed(s) : j <= i})

\* The nodes Mobius lists for site s: the accepted requests, in order.
SiteNodes(s) ==
    [k \in 1..Cardinality(Listed(s)) |->
        [site |-> s, name |-> calls[CHOOSE i \in Listed(s) : Rank(s, i) = k].name]]

Accepted == {calls[i].name : i \in {j \in 1..Len(calls) : calls[j].ok}}
ExoCreated == {calls[i].name : i \in {j \in 1..Len(calls) : calls[j].ok /\ calls[j].site = "exo"}}

\* A node's state in a status fetched now.
StateOf(name) == IF name \in active THEN "Active" ELSE "Pending"

\* One request per site, in either order, each node with its state.
Listings ==
    {[i \in 1..Len(l) |-> [site |-> l[i].site, name |-> l[i].name,
                          state |-> StateOf(l[i].name)]] :
        l \in {SiteNodes("ch") \o SiteNodes("exo"), SiteNodes("exo") \o SiteNodes("ch")}}

Empty == [lit |-> ""]

\* Mutant: the address looked up under the published hostname.
HostRecordByHostname(e) ==
    LET host == IF e.site = "ch" THEN NovaLocal(e.name) ELSE e.name
    IN  [host |-> host, ip |-> IF host \in DOMAIN ipMap THEN ipMap[host] ELSE Empty]

\* hostname and ip of the hostsall record (lines 354-373).
HostRecord(e) ==
    [host |-> IF e.site = "ch" THEN NovaLocal(e.name) ELSE e.name,
     ip   |-> IF e.name \in DOMAIN ipMap THEN ipMap[e.name] ELSE Empty]

SInit ==
    /\ Init
    /\ sopts \in SOpts
    /\ listing = <<>>
    /\ li = 1
    /\ target = None
    /\ tstatus = None
    /\ vlan = FALSE
    /\ hosts = [n \in {} |-> Empty]
    /\ active = {}
    /\ stitchReq = None

\* main's provisioning, with the stitch state left alone; stitchdata is
\* loaded by create_workflow's 200 branch (lines 264-270).
Provision ==
    /\ Next
    /\ target' = IF pc = "createWf" THEN Declared ELSE target
    /\ UNCHANGED <<sopts, listing, li, tstatus, vlan, hosts, active, stitchReq>>

(***************************************************************************)
(* get_workflow (lines 327-336): with a 200 answer and --comethost the    *)
(* publishing loop starts; otherwise no VLAN is seen and main exits.       *)
(***************************************************************************)
Refetch ==
    /\ pc = "provisioned"
    /\ \/ /\ sopts.comet
          /\ \E l \in Listings :
                /\ listing' = l
                /\ vlan' = (sopts.vlan /\ \E i \in 1..Len(l) : l[i].site = "ch")
          /\ pc' = "publish"
       \/ pc' = "finished" /\ UNCHANGED <<listing, vlan>>
    /\ UNCHANGED <<opts, ph, count, cur, oldname, wdone, wscript, stor, cl,
                   ipMap, calls, wf, sopts, li, target, tstatus, hosts, active,
                   stitchReq>>

\* Mutant: stitchNodeStatus read for every Exogeni node.
RebindStatusAny(e) == IF e.site = "exo" THEN e.state ELSE tstatus

\* The status a listed node leaves in stitchNodeStatus (lines 359-363).
RebindStatus(e) ==
    IF e.site = "exo" /\ target # None /\ Contains(e.name, target)
    THEN e.state ELSE tstatus

(***************************************************************************)
(* One node of the publishing loop (lines 344-381): pubkeysall and         *)
(* hostsall are sent and their answers only printed; an Exogeni node whose *)
(* name contains the target becomes the target.                            *)
(***************************************************************************)
PublishNode ==
    /\ pc = "publish"
    /\ li <= Len(listing)
    /\ LET e == listing[li] IN
       /\ tstatus' = RebindStatus(e)
       /\ target' = IF e.site = "exo" /\ target # None /\ Contains(e.name, target)
                    THEN AsTarget(e.name) ELSE target
       /\ hosts' = [n \in DOMAIN hosts \cup {e.name} |->
                       IF n = e.name THEN HostRecord(e) ELSE hosts[n]]
    /\ li' = li + 1
    /\ UNCHANGED <<vars, sopts, listing, vlan, active, stitchReq>>

\* After the loop (line 382): stitching only with a VLAN and an Exogeni site.
EndPublish ==
    /\ pc = "publish"
    /\ li > Len(listing)
    /\ pc' = IF vlan /\ opts.exo.on THEN "poll" ELSE "finished"
    /\ UNCHANGED <<opts, ph, count, cur, oldname, wdone, wscript, stor, cl,
                   ipMap, calls, wf, svars>>

\* Mutant: stitchNodeStatus not updated from the fresh status.
PolledStatusStale == tstatus

\* stitchNodeStatus after a 200 answer (lines 386-397): the Exogeni node
\* whose name equals the target.
PolledStatus ==
    IF target.num # None /\ NameOf(target) \in ExoCreated
    THEN StateOf(NameOf(target)) ELSE tstatus

(***************************************************************************)
(* One iteration of the poll loop (lines 383-399).  print(... +            *)
(* stitchdata["target"]) raises TypeError when there is no stitch.json.    *)
(* A non-200 answer changes nothing (a stuttering step).                    *)
(***************************************************************************)
Poll ==
    /\ pc = "poll"
    /\ tstatus # "Active"
    /\ IF target = None
       THEN pc' = "crashed" /\ UNCHANGED tstatus
       ELSE tstatus' = PolledStatus /\ UNCHANGED pc
    /\ UNCHANGED <<opts, ph, count, cur, oldname, wdone, wscript, stor, cl,
                   ipMap, calls, wf, sopts, listing, li, target, vlan, hosts,
                   active, stitchReq>>

\* time.sleep(60) and perform_stitch (lines 400-404, 411-423): the tag is
\* set and the request sent; its answer is ignored and main exits 0.
StitchPort ==
    /\ pc = "poll"
    /\ tstatus = "Active"
    /\ stitchReq' = [target |-> target, tag |-> "vlan"]
    /\ pc' = "finished"
    /\ UNCHANGED <<opts, ph, count, cur, oldname, wdone, wscript, stor, cl,
                   ipMap, calls, wf, sopts, listing, li, target, tstatus,
                   vlan, hosts, active>>

(***************************************************************************)
(* The service activates a created Exogeni node.  Only nodes whose name   *)
(* contains the declared target are ever read by the client (every later  *)
(* target contains it too), so only their activation is modelled.         *)
(***************************************************************************)
Activate(n) ==
    /\ pc \in {"provisioned", "publish", "poll"}
    /\ n \in ExoCreated \ active
    /\ Declared # None /\ Contains(n, Declared)
    /\ active' = active \cup {n}
    /\ UNCHANGED <<vars, sopts, listing, li, target, tstatus, vlan, hosts, stitchReq>>

ScriptNext == Provision \/ Refetch \/ PublishNode \/ EndPublish \/ Poll \/ StitchPort

SNext == ScriptNext \/ \E n \in Accepted : Activate(n)

(***************************************************************************)
(* The script runs to its end (it never waits but in the remote calls);   *)
(* the service eventually answers a status request with 200 and           *)
(* eventually activates every node it created.                             *)
(***************************************************************************)
Fairness ==
    /\ WF_allvars(ScriptNext)
    /\ WF_allvars(\E n \in Accepted : Activate(n))

SSpec == SInit /\ [][SNext]_allvars /\ Fairness
-----------------------------------------------------------------------------
\* Every variable of the stitching phase holds a value of its kind.
STypeOK ==
    /\ TypeOK
    /\ sopts \in SOpts
    /\ li \in 1..(Len(listing) + 1)
    /\ target \in Targets \cup [pre: Kinds \cup {"Node"}, num: Nat] \cup {None}
    /\ tstatus \in {None, "Active", "Pending"}
    /\ vlan \in BOOLEAN
    /\ DOMAIN hosts \subseteq Names
    /\ active \subseteq ExoCreated
    /\ stitchReq \in [target: [pre: Kinds \cup {"Node"}, num: Nat], tag: {"vlan"}] \cup {None}

\* The stitch port is requested only for a node the service has reported
\* Active: the publishing loop rebinds the target and stitchNodeStatus
\* from the same node, and the poll loop reads the state of that node.
StitchedNodeActive ==
    stitchReq # None => NameOf(stitchReq.target) \in active

\* Once the publishing loop is done, every node created with an address is
\* published to COMET with the address its create_compute request gave it
\* (ipMap links the Node Provisioner to the Context Publisher).
PublishedAsProvisioned ==
    listing # <<>> /\ li > Len(listing) =>
        \A i \in 1..Len(calls) :
            calls[i].ok /\ calls[i].ip # None =>
                /\ calls[i].name \in DOMAIN hosts
                /\ hosts[calls[i].name].ip = calls[i].ip

\* Once the poll loop has a target that names a created Exogeni node, the
\* stitch port is eventually requested: the service activates the node and
\* the loop reads its state.
PollEnds ==
    (pc = "poll" /\ target # None /\ target.num # None /\ NameOf(target) \in ExoCreated)
        ~> stitchReq # None

(***************************************************************************)
(* Claims of the spec that the code does not keep (violation runs).        *)
(***************************************************************************)
\* Spec 4.6 and 4.7: the stitch port is attached to the node stitch.json
\* names, when that node exists.
StitchTargetDeclared ==
    stitchReq # None /\ Declared.num # None /\ NameOf(Declared) \in ExoCreated
        => stitchReq.target = Declared
=============================================================================
