---------------------- MODULE CondorClientAddresses ----------------------
(***************************************************************************)
(* Proof that no two nodes are given the same address, for every value of *)
(* the constants.                                                          *)
(***************************************************************************)
EXTENDS CondorClientRefinement

\* The phases in which main provisions site s's storage and its cluster.
StoragePh(s) == IF s = "ch" THEN 1 ELSE 2
ClusterPh(s) == IF s = "ch" THEN 3 ELSE 4

\* The nodes of ipMap whose address lies in site s's range.
Mine(s) == {x \in DOMAIN ipMap : ipMap[x].net = s}

\* Site s's cluster has not yet created a node.
Pristine(s) == ph < ClusterPh(s) \/ (ph = ClusterPh(s) /\ pc \in {"cluster", "master"})

(***************************************************************************)
(* Where the addresses of a site are.  Before its storage phase a site has *)
(* none; until its master is created it has at most the storage node's,   *)
(* the start of its range; inside its cluster every address of the site   *)
(* is at or below the cursor cur, from which the next node's address is   *)
(* taken.  Addresses of different sites differ by their network.          *)
(***************************************************************************)
AddrInv ==
    /\ AddressesDistinct
    /\ \A x \in DOMAIN ipMap : ipMap[x].net \in Sites
    /\ pc \in {"validate", "createWf"} => DOMAIN ipMap = {}
    /\ pc \in {"master", "submit", "worker"} => ph \in {3, 4}
    /\ pc \in Busy => \A s \in Sites :
          /\ ph <= StoragePh(s) => Mine(s) = {}
          /\ Pristine(s) => \A x \in Mine(s) :
                StartOf(s) # None /\ ipMap[x] = StartOf(s) /\ stor[s] # None
    /\ pc = "master" => cur = StartOf(Site) /\ cl.storagename = stor[Site]
    /\ pc \in {"submit", "worker"} =>
          /\ cur = None => Mine(Site) = {}
          /\ cur # None =>
                /\ cur \in Addrs /\ cur.net = Site
                /\ \A x \in Mine(Site) : ipMap[x].last <= cur.last

AInv == RInv /\ AddrInv

\* What ipMap[nodename] = ipStart leaves in the map.
LEMMA RecordCases ==
    ASSUME NEW name, NEW ip, ipMap' = RecordIp(name, ip)
    PROVE  \A x \in DOMAIN ipMap' :
              \/ ip # None /\ x = name /\ ipMap'[x] = ip
              \/ x \in DOMAIN ipMap /\ x # name /\ ipMap'[x] = ipMap[x]
              \/ ip = None /\ x \in DOMAIN ipMap /\ ipMap'[x] = ipMap[x]
BY DEF RecordIp

\* Recording an address no node has keeps the addresses distinct.
LEMMA RecordDistinct ==
    ASSUME AddressesDistinct, NEW name, NEW ip, ipMap' = RecordIp(name, ip),
           ip # None => \A x \in DOMAIN ipMap : ipMap[x] # ip
    PROVE  AddressesDistinct'
<1>1. \A x \in DOMAIN ipMap' :
         \/ ip # None /\ x = name /\ ipMap'[x] = ip
         \/ x \in DOMAIN ipMap /\ x # name /\ ipMap'[x] = ipMap[x]
         \/ ip = None /\ x \in DOMAIN ipMap /\ ipMap'[x] = ipMap[x]
  BY RecordCases
<1>2. QED
  BY <1>1 DEF AddressesDistinct

LEMMA AddrInit == Init => AddrInv
BY DEF Init, AddrInv, AddressesDistinct, Busy

\* The start of a site's range lies in the site's network.
LEMMA StartNet ==
    ASSUME opts \in Opts, NEW s \in Sites, StartOf(s) # None
    PROVE  StartOf(s) \in Addrs /\ StartOf(s).net = s
BY AddrValues DEF StartOf, Addr

\* The phase facts every step needs.
LEMMA PhaseFacts ==
    ASSUME TypeOK, Stage, AddrInv
    PROVE  /\ pc = "storage" => ph \in {1, 2} /\ StoragePh(Site) = ph
           /\ pc = "cluster" => ph \in {3, 4} /\ ClusterPh(Site) = ph
           /\ pc \in {"master", "submit", "worker"} =>
                 ph \in {3, 4} /\ ClusterPh(Site) = ph
           /\ pc \in Busy => Site \in Sites /\ Other(Site) \in Sites
                              /\ Other(Site) # Site
BY DEF TypeOK, Stage, AddrInv, Phases, Site, StoragePh, ClusterPh, Busy,
       Sites, Other

\* A step that leaves ipMap alone and moves main out of every phase.
LEMMA LeavePhases ==
    ASSUME AddrInv, ipMap' = ipMap,
           pc' \notin Busy \cup {"validate", "createWf"}
    PROVE  AddrInv'
BY DEF AddrInv, AddressesDistinct, Busy

\* Main's storage phase for site s, o being the other site.
LEMMA StorageAddr ==
    ASSUME TypeOK, Stage, AddrInv, ProvisionStorage,
           NEW s \in Sites, s = Site, NEW o \in Sites, o # s
    PROVE  AddrInv'
<1> DEFINE start == StartOf(s)
           name == NodeName(s, "storage")
           Leave == pc' \notin Busy \cup {"validate", "createWf"}
<1>0. /\ opts \in Opts /\ opts' = opts /\ pc = "storage"
      /\ ph \in {1, 2} /\ StoragePh(s) = ph /\ Sites = {s, o}
      /\ stor \in [Sites -> Names \cup NovaNames \cup {None}]
  BY PhaseFacts DEF ProvisionStorage, TypeOK, Sites
<1>1. Mine(s) = {}
  BY <1>0 DEF AddrInv, Busy
<1>2. start # None => start \in Addrs /\ start.net = s
  BY <1>0, StartNet
<1>3. start # None => \A x \in DOMAIN ipMap : ipMap[x] # start
  BY <1>1, <1>2 DEF Mine
<1>4. \A t \in Sites : StartOf(t)' = StartOf(t)
  BY <1>0 DEF StartOf
<1>5. Pristine(o) => \A x \in Mine(o) :
         StartOf(o) # None /\ ipMap[x] = StartOf(o) /\ stor[o] # None
  BY <1>0 DEF AddrInv, Busy
<1>6. CASE ipMap' = ipMap /\ Leave
  BY <1>6, LeavePhases
<1>7. CASE /\ ipMap' = ipMap /\ s = "exo"
           /\ stor' = [stor EXCEPT ![s] = None] /\ Goto(ph + 1)
  <2>1. ph = 2 /\ ph' = 3 /\ pc' = "cluster" /\ o = "ch"
    BY <1>0, <1>7 DEF Goto, Phases, StoragePh, Sites
  <2>2. Mine(s)' = {} /\ Mine(o)' = Mine(o) /\ stor'[o] = stor[o]
    BY <1>0, <1>1, <1>7 DEF Mine
  <2>3. Pristine(o)
    BY <2>1 DEF Pristine, ClusterPh
  <2>4. \A t \in Sites : Pristine(t)' => \A x \in Mine(t)' :
           StartOf(t)' # None /\ ipMap'[x] = StartOf(t)' /\ stor'[t] # None
    BY <1>0, <1>4, <1>5, <1>7, <2>2, <2>3
  <2>5. \A t \in Sites : ~(ph' <= StoragePh(t))
    BY <2>1 DEF StoragePh
  <2>6. QED
    BY <1>7, <2>1, <2>4, <2>5 DEF AddrInv, AddressesDistinct, Busy, Mine
<1>8. CASE /\ ipMap' = RecordIp(name, start)
           /\ \/ Leave
              \/ stor'[s] # None /\ stor'[o] = stor[o] /\ Goto(ph + 1)
  <2>1. AddressesDistinct'
    BY <1>3, <1>8, RecordDistinct DEF AddrInv
  <2>2. \A x \in DOMAIN ipMap' :
           \/ start # None /\ x = name /\ ipMap'[x] = start
           \/ x \in DOMAIN ipMap /\ ipMap'[x] = ipMap[x]
    BY <1>8, RecordCases
  <2>3. \A x \in DOMAIN ipMap' : ipMap'[x].net \in Sites
    BY <1>2, <2>2 DEF AddrInv
  <2>4. Mine(o)' \subseteq Mine(o) /\ \A x \in Mine(o)' : ipMap'[x] = ipMap[x]
    BY <1>2, <2>2 DEF Mine
  <2>5. \A x \in Mine(s)' : start # None /\ ipMap'[x] = start
    BY <1>1, <2>2 DEF Mine
  <2>6. CASE Leave
    BY <2>1, <2>3, <2>6 DEF AddrInv, Busy
  <2>7. CASE stor'[s] # None /\ stor'[o] = stor[o] /\ Goto(ph + 1)
    <3>1. ph' = ph + 1 /\ pc' \in {"storage", "cluster"}
      BY <1>0, <2>7 DEF Goto, Phases
    <3>2. ph' <= StoragePh(o) => Mine(o)' = {}
      <4>1. ph <= StoragePh(o) => Mine(o) = {}
        BY <1>0 DEF AddrInv, Busy
      <4>2. QED
        BY <1>0, <2>4, <3>1, <4>1 DEF StoragePh
    <3>3. ~(ph' <= StoragePh(s))
      BY <1>0, <3>1
    <3>4. Pristine(o)' => Pristine(o)
      BY <1>0, <3>1 DEF Pristine, ClusterPh, StoragePh
    <3>5. \A t \in Sites : Pristine(t)' => \A x \in Mine(t)' :
             StartOf(t)' # None /\ ipMap'[x] = StartOf(t)' /\ stor'[t] # None
      BY <1>0, <1>4, <1>5, <2>4, <2>5, <2>7, <3>4
    <3>6. \A t \in Sites : ph' <= StoragePh(t) => Mine(t)' = {}
      BY <1>0, <3>2, <3>3
    <3>7. QED
      BY <2>1, <2>3, <3>1, <3>5, <3>6 DEF AddrInv, Busy
  <2>8. QED
    BY <1>8, <2>6, <2>7
<1>9. QED
  <2>1. name \in Names /\ NovaLocal(name) \in NovaNames
    BY <1>0 DEF NodeName, NovaLocal, Names, NovaNames, TypeOK, Kinds
  <2>2. name # None /\ NovaLocal(name) # None
    BY <2>1, NoneAssumption
  <2>3. \A v : [stor EXCEPT ![s] = v][o] = stor[o]
    BY <1>0
  <2>4. \/ ipMap' = ipMap /\ Leave
        \/ /\ ipMap' = ipMap /\ s = "exo"
           /\ stor' = [stor EXCEPT ![s] = None] /\ Goto(ph + 1)
        \/ /\ ipMap' = RecordIp(name, start)
           /\ \/ Leave
              \/ stor'[s] # None /\ stor'[o] = stor[o] /\ Goto(ph + 1)
    <3> DEFINE Goal ==
          \/ ipMap' = ipMap /\ Leave
          \/ /\ ipMap' = ipMap /\ s = "exo"
             /\ stor' = [stor EXCEPT ![s] = None] /\ Goto(ph + 1)
          \/ /\ ipMap' = RecordIp(name, start)
             /\ \/ Leave
                \/ stor'[s] # None /\ stor'[o] = stor[o] /\ Goto(ph + 1)
    <3>1. ASSUME IF s = "ch" THEN pc' = "crashed"
                 ELSE stor' = [stor EXCEPT ![s] = None] /\ Goto(ph + 1),
                 ipMap' = ipMap
          PROVE  Goal
      BY <3>1 DEF Goal, Leave, Busy, Sites
    <3>2. ASSUME pc' = "crashed", ipMap' = ipMap
          PROVE  Goal
      BY <3>2 DEF Goal, Leave, Busy
    <3>3. ASSUME NEW ok \in BOOLEAN, ipMap' = RecordIp(name, start),
                 IF ok THEN /\ stor' = [stor EXCEPT ![s] = IF s = "ch" THEN NovaLocal(name)
                                                                   ELSE name]
                            /\ Goto(ph + 1)
                       ELSE Abort
          PROVE  Goal
      <4>1. CASE ok
        <5>1. stor'[s] # None /\ stor'[o] = stor[o]
          BY <1>0, <2>2, <3>3, <4>1
        <5>2. QED
          BY <3>3, <4>1, <5>1 DEF Goal
      <4>2. CASE ~ok
        BY <3>3, <4>2 DEF Goal, Leave, Abort, Busy
      <4>3. QED
        BY <4>1, <4>2
    <3>4. QED
      BY <3>1, <3>2, <3>3 DEF Goal, ProvisionStorage, CreateCompute
  <2>5. QED
    BY <1>6, <1>7, <1>8, <2>4

\* Main moves on to its next phase without creating a node.
LEMMA PhaseDone ==
    ASSUME AddrInv, pc \in Busy, ph \in 1..4, Goto(ph + 1),
           ipMap' = ipMap, stor' = stor, opts' = opts
    PROVE  AddrInv'
<1>1. pc' \in {"storage", "cluster", "provisioned"}
  BY DEF Goto, Phases
<1>2. \A t \in Sites : Pristine(t)' => Pristine(t)
  BY DEF Pristine, ClusterPh, Goto
<1>3. \A t \in Sites : ph' <= StoragePh(t) => ph <= StoragePh(t)
  BY DEF StoragePh, Goto
<1>4. \A t \in Sites : Mine(t)' = Mine(t) /\ StartOf(t)' = StartOf(t)
  BY DEF Mine, StartOf
<1>5. QED
  BY <1>1, <1>2, <1>3, <1>4 DEF AddrInv, AddressesDistinct, Busy

\* Where the cluster of site s stands while its nodes are created.
LEMMA ClusterFacts ==
    ASSUME TypeOK, Stage, AddrInv, pc \in {"cluster", "master", "submit", "worker"},
           NEW s \in Sites, s = Site, NEW o \in Sites, o # s
    PROVE  /\ ph \in {3, 4} /\ ClusterPh(s) = ph /\ ClusterPh(o) # ph
           /\ \A t \in Sites : ~(ph <= StoragePh(t))
           /\ Sites = {s, o}
BY PhaseFacts DEF ClusterPh, StoragePh, Sites, Site, Phases

\* Inside a cluster, a step that keeps ipMap and moves main on to its
\* submit or worker node, with a cursor above every address of the site.
LEMMA CursorKept ==
    ASSUME TypeOK, Stage, AddrInv, pc \in {"master", "submit", "worker"},
           NEW s \in Sites, s = Site, NEW o \in Sites, o # s,
           ipMap' = ipMap, ph' = ph, opts' = opts, stor' = stor,
           pc' \in {"submit", "worker"},
           cur' = None => Mine(s) = {},
           cur' # None => /\ cur' \in Addrs /\ cur'.net = s
                          /\ \A x \in Mine(s) : ipMap[x].last <= cur'.last
    PROVE  AddrInv'
<1>1. /\ ph \in {3, 4} /\ ClusterPh(s) = ph /\ ClusterPh(o) # ph
      /\ Sites = {s, o}
  BY ClusterFacts
<1>2. Site' = s
  BY DEF Site
<1>3. \A t \in Sites : Pristine(t)' => t = o /\ Pristine(t)
  BY <1>1 DEF Pristine
<1>4. \A t \in Sites : Mine(t)' = Mine(t) /\ StartOf(t)' = StartOf(t)
  BY DEF Mine, StartOf
<1>5. QED
  BY <1>1, <1>2, <1>3, <1>4 DEF AddrInv, AddressesDistinct, Busy

\* Inside a cluster, a node of site s is created at address ip, which lies
\* above every address the site has, and becomes the cursor.
LEMMA NewNode ==
    ASSUME TypeOK, Stage, AddrInv, pc \in {"master", "submit", "worker"},
           NEW s \in Sites, s = Site, NEW o \in Sites, o # s,
           NEW nm, NEW ip,
           ip = None => Mine(s) = {},
           ip # None => /\ ip \in Addrs /\ ip.net = s
                        /\ \A x \in Mine(s) : ipMap[x].last < ip.last,
           ipMap' = RecordIp(nm, ip), cur' = ip,
           ph' = ph, opts' = opts, stor' = stor,
           pc' \in {"submit", "worker"} \/ pc' \notin Busy \cup {"validate", "createWf"}
    PROVE  AddrInv'
<1>1. /\ ph \in {3, 4} /\ ClusterPh(s) = ph /\ ClusterPh(o) # ph
      /\ \A t \in Sites : ~(ph <= StoragePh(t))
      /\ Sites = {s, o}
  BY ClusterFacts
<1>2. \A x \in DOMAIN ipMap' :
         \/ ip # None /\ x = nm /\ ipMap'[x] = ip
         \/ x \in DOMAIN ipMap /\ ipMap'[x] = ipMap[x]
  BY RecordCases
<1>3. ip # None => \A x \in DOMAIN ipMap : ipMap[x] # ip
  <2> SUFFICES ASSUME ip # None, NEW x \in DOMAIN ipMap, ipMap[x] = ip
               PROVE  FALSE
    OBVIOUS
  <2>1. x \in Mine(s)
    BY DEF Mine
  <2>2. QED
    BY <2>1 DEF Addrs
<1>4. AddressesDistinct'
  BY <1>3, RecordDistinct DEF AddrInv
<1>5. \A x \in DOMAIN ipMap' : ipMap'[x].net \in Sites
  BY <1>2 DEF AddrInv
<1>6. Mine(o)' \subseteq Mine(o) /\ \A x \in Mine(o)' : ipMap'[x] = ipMap[x]
  BY <1>1, <1>2 DEF Mine
<1>7. ip = None => Mine(s)' = {}
  BY DEF Mine, RecordIp
<1>8. ip # None => \A x \in Mine(s)' : ipMap'[x].last <= ip.last
  BY <1>2 DEF Mine, Addrs, TypeOK
<1>9. pc' \in Busy => \A t \in Sites : Pristine(t)' => t = o /\ Pristine(t)
  BY <1>1 DEF Pristine, Busy
<1>10. \A t \in Sites : StartOf(t)' = StartOf(t)
  BY DEF StartOf
<1>11. Site' = s
  BY DEF Site
<1>12. QED
  BY <1>1, <1>4, <1>5, <1>6, <1>7, <1>8, <1>9, <1>10, <1>11 DEF AddrInv, Busy

\* The start of a cluster: the cursor is set to the start of the range.
LEMMA ClusterAddr ==
    ASSUME TypeOK, Stage, AddrInv, BeginCluster,
           NEW s \in Sites, s = Site, NEW o \in Sites, o # s
    PROVE  AddrInv'
<1>1. ph \in {3, 4} /\ ClusterPh(s) = ph /\ ClusterPh(o) # ph
  BY ClusterFacts DEF BeginCluster
<1>2. CASE pc' = "crashed" /\ ipMap' = ipMap
  BY <1>2, LeavePhases DEF Busy
<1>3. CASE /\ pc' = "master" /\ cur' = StartOf(s) /\ cl'.storagename = stor[s]
           /\ ph' = ph /\ ipMap' = ipMap /\ stor' = stor /\ opts' = opts
  <2>1. Site' = s
    BY <1>3 DEF Site
  <2>2. \A t \in Sites : /\ Pristine(t)' = Pristine(t)
                         /\ Mine(t)' = Mine(t) /\ StartOf(t)' = StartOf(t)
    BY <1>3 DEF Pristine, Mine, StartOf, BeginCluster
  <2>3. (cur = StartOf(Site) /\ cl.storagename = stor[Site])'
    BY <1>3, <2>1, <2>2
  <2>4. (pc \in Busy => \A t \in Sites :
          /\ ph <= StoragePh(t) => Mine(t) = {}
          /\ Pristine(t) => \A x \in Mine(t) :
                StartOf(t) # None /\ ipMap[x] = StartOf(t) /\ stor[t] # None)'
    BY <1>3, <2>2 DEF AddrInv, Busy, BeginCluster
  <2>5. QED
    BY <1>1, <1>3, <2>3, <2>4 DEF AddrInv, AddressesDistinct
<1>4. QED
  BY <1>2, <1>3 DEF BeginCluster

\* The cursor of a cluster that has created no node yet: the master's
\* address lies above every address of the site.
LEMMA MasterIpAbove ==
    ASSUME TypeOK, Stage, AddrInv, pc = "master",
           NEW s \in Sites, s = Site, NEW o \in Sites, o # s
    PROVE  /\ cur = None => Mine(s) = {}
           /\ cur # None => /\ cur \in Addrs /\ cur.net = s
                            /\ \A x \in Mine(s) : ipMap[x].last <= cur.last
           /\ MasterIp = None => Mine(s) = {}
           /\ MasterIp # None =>
                 /\ MasterIp \in Addrs /\ MasterIp.net = s
                 /\ \A x \in Mine(s) : ipMap[x].last < MasterIp.last
<1>1. ph = ClusterPh(s) /\ Pristine(s)
  BY ClusterFacts DEF Pristine
<1>2. /\ cur = StartOf(s) /\ cl.storagename = stor[s]
      /\ \A x \in Mine(s) : StartOf(s) # None /\ ipMap[x] = StartOf(s) /\ stor[s] # None
  BY <1>1 DEF AddrInv, Busy
<1>3. cur # None => cur \in Addrs /\ cur.net = s
  BY <1>2, StartNet DEF TypeOK
<1>4. CASE cur # None /\ stor[s] # None
  <2>1. MasterIp = GetNextIp(cur)
    BY <1>2, <1>4 DEF MasterIp
  <2>2. MasterIp \in Addrs /\ MasterIp.net = s /\ MasterIp.last = cur.last + 1
    BY <1>3, <1>4, <2>1 DEF GetNextIp, Addr, Addrs
  <2>3. MasterIp # None
    BY <2>2, NoneAssumption
  <2>4. QED
    BY <1>2, <1>3, <1>4, <2>2, <2>3 DEF Addrs
<1>5. CASE cur = None \/ stor[s] = None
  <2>1. MasterIp = cur
    BY <1>2, <1>5 DEF MasterIp
  <2>2. Mine(s) = {}
    BY <1>2, <1>5
  <2>3. QED
    BY <1>3, <2>1, <2>2
<1>6. QED
  BY <1>4, <1>5

\* The cursor of a cluster after its master: the next address lies above
\* every address of the site.
LEMMA NextIpAbove ==
    ASSUME TypeOK, AddrInv, pc \in {"submit", "worker"}
    PROVE  LET ip == IF cur # None THEN GetNextIp(cur) ELSE cur IN
           /\ ip = None => Mine(Site) = {}
           /\ ip # None => /\ ip \in Addrs /\ ip.net = Site
                           /\ \A x \in Mine(Site) : ipMap[x].last < ip.last
<1>1. CASE cur = None
  BY <1>1 DEF AddrInv
<1>2. CASE cur # None
  <2>1. cur \in Addrs /\ cur.net = Site
        /\ \A x \in Mine(Site) : ipMap[x].last <= cur.last
    BY <1>2 DEF AddrInv
  <2>2. GetNextIp(cur) \in Addrs /\ GetNextIp(cur).net = Site
        /\ GetNextIp(cur).last = cur.last + 1
    BY <2>1 DEF GetNextIp, Addr, Addrs
  <2>3. GetNextIp(cur) # None
    BY <2>2, NoneAssumption
  <2>4. \A x \in Mine(Site) : ipMap[x].last < GetNextIp(cur).last
    BY <2>1, <2>2 DEF Mine, TypeOK, Addrs
  <2>5. QED
    BY <1>2, <2>2, <2>3, <2>4
<1>3. QED
  BY <1>1, <1>2

\* The master node of site s's cluster.
LEMMA MasterAddr ==
    ASSUME TypeOK, Stage, AddrInv, ProvisionMaster,
           NEW s \in Sites, s = Site, NEW o \in Sites, o # s
    PROVE  AddrInv'
<1>0. pc = "master" /\ opts' = opts /\ stor' = stor
  BY DEF ProvisionMaster
<1>1. CASE pc' = "submit" /\ cur' = cur /\ ipMap' = ipMap /\ ph' = ph
  BY <1>0, <1>1, MasterIpAbove, CursorKept
<1>2. CASE /\ cur' = MasterIp /\ ph' = ph
           /\ ipMap' = RecordIp(NodeName(s, "master"), MasterIp)
           /\ pc' \in {"submit", "exited"}
  BY <1>0, <1>2, MasterIpAbove, NewNode DEF Busy
<1>3. QED
  BY <1>1, <1>2 DEF ProvisionMaster, CreateCompute, Abort

\* The submit node of site s's cluster.
LEMMA SubmitAddr ==
    ASSUME TypeOK, Stage, AddrInv, ProvisionSubmit,
           NEW s \in Sites, s = Site, NEW o \in Sites, o # s
    PROVE  AddrInv'
<1> DEFINE ip == IF cur # None THEN GetNextIp(cur) ELSE cur
<1>0. pc = "submit" /\ opts' = opts /\ stor' = stor
  BY DEF ProvisionSubmit
<1>1. CASE pc' = "worker" /\ cur' = cur /\ ipMap' = ipMap /\ ph' = ph
  <2>1. /\ cur = None => Mine(s) = {}
        /\ cur # None => /\ cur \in Addrs /\ cur.net = s
                         /\ \A x \in Mine(s) : ipMap[x].last <= cur.last
    BY <1>0 DEF AddrInv
  <2>2. QED
    BY <1>0, <1>1, <2>1, CursorKept
<1>2. CASE /\ cur' = ip /\ ph' = ph
           /\ ipMap' = RecordIp(NodeName(s, "submit"), ip)
           /\ pc' \in {"worker", "exited"}
  BY <1>0, <1>2, NextIpAbove, NewNode DEF Busy
<1>3. QED
  BY <1>1, <1>2 DEF ProvisionSubmit, CreateCompute, Abort

\* One iteration of site s's worker loop, or its end.
LEMMA WorkerAddr ==
    ASSUME TypeOK, Stage, AddrInv, ProvisionWorker,
           NEW s \in Sites, s = Site, NEW o \in Sites, o # s
    PROVE  AddrInv'
<1> DEFINE ip == IF cur # None THEN GetNextIp(cur) ELSE cur
<1>0. pc = "worker" /\ opts' = opts /\ stor' = stor /\ ph \in 1..4
  BY DEF ProvisionWorker, TypeOK
<1>1. CASE Goto(ph + 1) /\ ipMap' = ipMap
  BY <1>0, <1>1, PhaseDone DEF Busy
<1>2. CASE /\ cur' = ip /\ ph' = ph
           /\ ipMap' = RecordIp(NodeName(s, "worker"), ip)
           /\ pc' \in {"worker", "exited"}
  BY <1>0, <1>2, NextIpAbove, NewNode DEF Busy
<1>3. QED
  BY <1>1, <1>2 DEF ProvisionWorker, CreateCompute, Abort

\* Every step of main keeps AddrInv.
LEMMA AddrStep ==
    ASSUME TypeOK, Stage, AddrInv, [Next]_vars
    PROVE  AddrInv'
<1>0. pc \in Busy => Site \in Sites /\ Other(Site) \in Sites /\ Other(Site) # Site
  BY PhaseFacts
<1>1. CASE Validate
  <2>1. DOMAIN ipMap' = {} /\ pc' \in {"createWf", "rejected"}
    BY <1>1 DEF Validate, AddrInv
  <2>2. QED
    BY <2>1 DEF AddrInv, AddressesDistinct, Mine, Busy
<1>2. CASE CreateWorkflow
  <2>1. DOMAIN ipMap' = {} /\ pc' \in {"storage", "exited"}
    BY <1>2 DEF CreateWorkflow, AddrInv, Goto, Phases
  <2>2. QED
    BY <2>1 DEF AddrInv, AddressesDistinct, Mine, Busy
<1>3. CASE SkipPhase
  BY <1>3, PhaseDone DEF SkipPhase, TypeOK, Busy
<1>4. CASE ProvisionStorage
  BY <1>0, <1>4, StorageAddr DEF ProvisionStorage, Busy
<1>5. CASE BeginCluster
  BY <1>0, <1>5, ClusterAddr DEF BeginCluster, Busy
<1>6. CASE ProvisionMaster
  BY <1>0, <1>6, MasterAddr DEF ProvisionMaster, Busy
<1>7. CASE ProvisionSubmit
  BY <1>0, <1>7, SubmitAddr DEF ProvisionSubmit, Busy
<1>8. CASE ProvisionWorker
  BY <1>0, <1>8, WorkerAddr DEF ProvisionWorker, Busy
<1>9. CASE UNCHANGED vars
  BY <1>9 DEF vars, AddrInv, AddressesDistinct, Mine, Pristine, StartOf, Site
<1>10. QED
  BY <1>1, <1>2, <1>3, <1>4, <1>5, <1>6, <1>7, <1>8, <1>9 DEF Next

(***************************************************************************)
(* ipMap never maps two nodes to one address (AddressesDistinct, checked  *)
(* by the create_safety run): the storage node takes the start of its      *)
(* site's range, the master the next address after it, and every later   *)
(* node of the cluster the address after the previous one (lines 425-528), *)
(* for every value of the constants.                                       *)
(***************************************************************************)
THEOREM AddressesUnique == Spec => []AddressesDistinct
<1>1. Init => AInv
  BY RInvInit, AddrInit DEF AInv
<1>2. AInv /\ [Next]_vars => AInv'
  BY RInvStep, AddrStep DEF AInv, RInv, AbortInv
<1>3. AInv => AddressesDistinct
  BY DEF AInv, AddrInv
<1>4. QED
  BY <1>1, <1>2, <1>3, PTL DEF Spec

=============================================================================
