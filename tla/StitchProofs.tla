---------------------------- MODULE StitchProofs ----------------------------
(***************************************************************************)
(* Proofs about the publishing and stitching part of the create path:     *)
(* the stitch port is requested only for an Active node, and every node   *)
(* created with an address is published with it, for every value of the  *)
(* constants.                                                             *)
(***************************************************************************)
EXTENDS Stitch, CondorClientRefinement, FiniteSetTheorems, SequenceTheorems

-----------------------------------------------------------------------------
(***************************************************************************)
(* The list Mobius returns for a site.  Rank numbers the accepted          *)
(* requests of site s from 1 in log order; it is a bijection onto          *)
(* 1..Cardinality(Listed(s)), so SiteNodes(s) lists each of them once.     *)
(***************************************************************************)
LEMMA ListedFinite ==
    ASSUME calls \in Seq(Calls), NEW s
    PROVE  /\ IsFiniteSet(Listed(s))
           /\ Cardinality(Listed(s)) \in Nat
           /\ Listed(s) \subseteq 1..Len(calls)
<1>1. IsFiniteSet(1..Len(calls))
  BY FS_Interval
<1>2. IsFiniteSet(Listed(s))
  BY <1>1, FS_Subset DEF Listed
<1>3. QED
  BY <1>2, FS_CardinalityType DEF Listed

\* The rank of an accepted request lies in 1..n.
LEMMA RankRange ==
    ASSUME calls \in Seq(Calls), NEW s, NEW i \in Listed(s)
    PROVE  Rank(s, i) \in 1..Cardinality(Listed(s))
<1> DEFINE A == {j \in Listed(s) : j <= i}
<1>1. IsFiniteSet(Listed(s)) /\ Cardinality(Listed(s)) \in Nat
  BY ListedFinite
<1>2. IsFiniteSet(A) /\ Cardinality(A) <= Cardinality(Listed(s))
  BY <1>1, FS_Subset
<1>3. Cardinality(A) \in Nat /\ Cardinality(A) # 0
  <2>1. i \in A
    BY ListedFinite
  <2>2. QED
    BY <1>2, <2>1, FS_EmptySet, FS_CardinalityType
<1>4. QED
  BY <1>1, <1>2, <1>3 DEF Rank

\* Later requests of the site have larger ranks.
LEMMA RankIncreasing ==
    ASSUME calls \in Seq(Calls), NEW s, NEW i \in Listed(s), NEW i2 \in Listed(s),
           i < i2
    PROVE  Rank(s, i) < Rank(s, i2)
<1> DEFINE A == {j \in Listed(s) : j <= i}
           A2 == {j \in Listed(s) : j <= i2}
<1>1. IsFiniteSet(Listed(s)) /\ Listed(s) \subseteq 1..Len(calls)
  BY ListedFinite
<1>2. A \subseteq A2 /\ i2 \in A2 /\ i2 \notin A
  BY <1>1
<1>3. IsFiniteSet(A2)
  BY <1>1, FS_Subset
<1>4. Cardinality(A) <= Cardinality(A2) /\ (Cardinality(A2) = Cardinality(A) => A2 = A)
  BY <1>2, <1>3, FS_Subset
<1>5. Cardinality(A) \in Nat /\ Cardinality(A2) \in Nat
  BY <1>2, <1>3, FS_Subset, FS_CardinalityType
<1>6. QED
  BY <1>2, <1>4, <1>5 DEF Rank

\* Every place 1..n is the rank of exactly one accepted request.
LEMMA RankBijection ==
    ASSUME calls \in Seq(Calls), NEW s
    PROVE  /\ \A k \in 1..Cardinality(Listed(s)) : \E i \in Listed(s) : Rank(s, i) = k
           /\ \A i, i2 \in Listed(s) : Rank(s, i) = Rank(s, i2) => i = i2
<1> DEFINE n == Cardinality(Listed(s))
           r == [i \in Listed(s) |-> Rank(s, i)]
<1>1. IsFiniteSet(Listed(s)) /\ n \in Nat /\ Listed(s) \subseteq Nat
  BY ListedFinite
<1>2. \A i, i2 \in Listed(s) : Rank(s, i) = Rank(s, i2) => i = i2
  <2> SUFFICES ASSUME NEW i \in Listed(s), NEW i2 \in Listed(s), i # i2
               PROVE  Rank(s, i) # Rank(s, i2)
    OBVIOUS
  <2>1. i < i2 \/ i2 < i
    BY <1>1
  <2>2. Rank(s, i) \in Nat /\ Rank(s, i2) \in Nat
    BY RankRange
  <2>3. CASE i < i2
    <3>1. Rank(s, i) < Rank(s, i2)
      BY <2>3, RankIncreasing
    <3>2. QED
      BY <2>2, <3>1
  <2>4. CASE i2 < i
    <3>1. Rank(s, i2) < Rank(s, i)
      BY <2>4, RankIncreasing
    <3>2. QED
      BY <2>2, <3>1
  <2>5. QED
    BY <2>1, <2>3, <2>4
<1>3. r \in Injection(Listed(s), 1..n)
  BY <1>2, RankRange DEF Injection, IsInjective
<1>4. IsFiniteSet(1..n) /\ Cardinality(1..n) = n
  BY <1>1, FS_Interval
<1>5. r \in Surjection(Listed(s), 1..n)
  BY <1>3, <1>4, FS_Injection
<1>6. QED
  BY <1>2, <1>5 DEF Surjection

\* An entry of the list Mobius returns for a site.
Entry(s) == [site: {s}, name: Names]

\* SiteNodes(s) lists the accepted requests of site s, each of them.
LEMMA SiteNodesFacts ==
    ASSUME calls \in Seq(Calls), NEW s
    PROVE  /\ SiteNodes(s) \in Seq(Entry(s))
           /\ \A k \in 1..Len(SiteNodes(s)) :
                 \E i \in Listed(s) : SiteNodes(s)[k].name = calls[i].name
           /\ \A i \in Listed(s) :
                 \E k \in 1..Len(SiteNodes(s)) : SiteNodes(s)[k].name = calls[i].name
<1> DEFINE n == Cardinality(Listed(s))
           At(k) == CHOOSE i \in Listed(s) : Rank(s, i) = k
<1>1. n \in Nat /\ Listed(s) \subseteq 1..Len(calls)
  BY ListedFinite
<1>2. \A k \in 1..n : At(k) \in Listed(s) /\ Rank(s, At(k)) = k
  BY RankBijection
<1>3. SiteNodes(s) = [k \in 1..n |-> [site |-> s, name |-> calls[At(k)].name]]
  BY DEF SiteNodes
<1>4. \A i \in Listed(s) : calls[i].name \in Names
  <2> SUFFICES ASSUME NEW i \in Listed(s) PROVE calls[i].name \in Names
    OBVIOUS
  <2>1. calls[i] \in Calls
    BY <1>1, ElementOfSeq
  <2>2. QED
    BY <2>1 DEF Calls
<1>5. SiteNodes(s) \in Seq(Entry(s)) /\ Len(SiteNodes(s)) = n
  <2>1. \A k \in 1..n : [site |-> s, name |-> calls[At(k)].name] \in Entry(s)
    BY <1>2, <1>4 DEF Entry
  <2>2. QED
    BY <1>1, <1>3, <2>1
<1>6. \A i \in Listed(s) : \E k \in 1..n : At(k) = i
  <2> SUFFICES ASSUME NEW i \in Listed(s) PROVE \E k \in 1..n : At(k) = i
    OBVIOUS
  <2>1. Rank(s, i) \in 1..n
    BY RankRange
  <2>2. At(Rank(s, i)) \in Listed(s) /\ Rank(s, At(Rank(s, i))) = Rank(s, i)
    BY <1>2, <2>1
  <2>3. At(Rank(s, i)) = i
    BY <2>2, RankBijection
  <2>4. QED
    BY <2>1, <2>3
<1>7. \A k \in 1..Len(SiteNodes(s)) : \E i \in Listed(s) : SiteNodes(s)[k].name = calls[i].name
  <2> SUFFICES ASSUME NEW k \in 1..Len(SiteNodes(s))
               PROVE  \E i \in Listed(s) : SiteNodes(s)[k].name = calls[i].name
    OBVIOUS
  <2>1. k \in 1..n
    BY <1>5
  <2>2. SiteNodes(s)[k].name = calls[At(k)].name
    BY <1>3, <2>1
  <2>3. QED
    BY <1>2, <2>1, <2>2
<1>8. \A i \in Listed(s) : \E k \in 1..Len(SiteNodes(s)) : SiteNodes(s)[k].name = calls[i].name
  <2> SUFFICES ASSUME NEW i \in Listed(s)
               PROVE  \E k \in 1..Len(SiteNodes(s)) : SiteNodes(s)[k].name = calls[i].name
    OBVIOUS
  <2>1. PICK k \in 1..n : At(k) = i
    BY <1>6
  <2>2. SiteNodes(s)[k].name = calls[i].name
    BY <1>3, <2>1
  <2>3. QED
    BY <1>5, <2>2
<1>9. QED
  BY <1>5, <1>7, <1>8

\* An accepted request of a site appears in that site's list.
LEMMA AcceptedListed ==
    ASSUME calls \in Seq(Calls), NEW i \in 1..Len(calls), calls[i].ok
    PROVE  i \in Listed(calls[i].site) /\ calls[i].site \in Sites
<1>1. calls[i] \in Calls
  BY ElementOfSeq
<1>2. QED
  BY <1>1 DEF Listed, Calls

\* The two sites' lists, in either order, hold the accepted requests, each
\* of them, and nothing else.
LEMMA BothSites ==
    ASSUME calls \in Seq(Calls), NEW a \in Sites, NEW b \in Sites, a # b
    PROVE  LET u == SiteNodes(a) \o SiteNodes(b) IN
           /\ u \in Seq([site: Sites, name: Names])
           /\ \A k \in 1..Len(u) : \E i \in 1..Len(calls) :
                 calls[i].ok /\ u[k].site = calls[i].site /\ u[k].name = calls[i].name
           /\ \A i \in 1..Len(calls) : calls[i].ok =>
                 \E k \in 1..Len(u) : u[k].name = calls[i].name
<1> DEFINE A == SiteNodes(a)
           B2 == SiteNodes(b)
           u == A \o B2
           E == [site: Sites, name: Names]
<1>1. A \in Seq(E) /\ B2 \in Seq(E)
  <2>1. A \in Seq(Entry(a)) /\ B2 \in Seq(Entry(b))
    BY SiteNodesFacts
  <2>2. Entry(a) \subseteq E /\ Entry(b) \subseteq E
    BY DEF Entry
  <2>3. QED
    BY <2>1, <2>2, SeqMonotonic
<1>2. /\ u \in Seq(E) /\ Len(u) = Len(A) + Len(B2)
      /\ \A k \in 1..Len(A) + Len(B2) :
            u[k] = IF k <= Len(A) THEN A[k] ELSE B2[k - Len(A)]
  BY <1>1, ConcatProperties
<1>3. /\ Len(A) \in Nat /\ Len(B2) \in Nat
      /\ \A k \in 1..Len(A) : A[k].site = a
      /\ \A k \in 1..Len(B2) : B2[k].site = b
  <2>1. A \in Seq(Entry(a)) /\ B2 \in Seq(Entry(b))
    BY SiteNodesFacts
  <2>2. Len(A) \in Nat /\ Len(B2) \in Nat
    BY <2>1, LenProperties
  <2>3. \A k \in 1..Len(A) : A[k] \in Entry(a)
    BY <2>1, ElementOfSeq
  <2>4. \A k \in 1..Len(B2) : B2[k] \in Entry(b)
    BY <2>1, ElementOfSeq
  <2>5. QED
    BY <2>2, <2>3, <2>4 DEF Entry
<1>4. \A k \in 1..Len(u) : \E i \in 1..Len(calls) :
         calls[i].ok /\ u[k].site = calls[i].site /\ u[k].name = calls[i].name
  <2> SUFFICES ASSUME NEW k \in 1..Len(u)
               PROVE  \E i \in 1..Len(calls) :
                        calls[i].ok /\ u[k].site = calls[i].site /\ u[k].name = calls[i].name
    OBVIOUS
  <2>1. CASE k <= Len(A)
    <3>1. u[k] = A[k] /\ k \in 1..Len(A)
      BY <1>2, <1>3, <2>1
    <3>2. PICK i \in Listed(a) : A[k].name = calls[i].name
      BY <3>1, SiteNodesFacts
    <3>3. i \in 1..Len(calls) /\ calls[i].ok /\ calls[i].site = a
      BY DEF Listed
    <3>4. QED
      BY <1>3, <3>1, <3>2, <3>3
  <2>2. CASE ~(k <= Len(A))
    <3>1. u[k] = B2[k - Len(A)] /\ k - Len(A) \in 1..Len(B2)
      BY <1>2, <1>3, <2>2
    <3>2. PICK i \in Listed(b) : B2[k - Len(A)].name = calls[i].name
      BY <3>1, SiteNodesFacts
    <3>3. i \in 1..Len(calls) /\ calls[i].ok /\ calls[i].site = b
      BY DEF Listed
    <3>4. QED
      BY <1>3, <3>1, <3>2, <3>3
  <2>3. QED
    BY <2>1, <2>2
<1>5. \A i \in 1..Len(calls) : calls[i].ok => \E k \in 1..Len(u) : u[k].name = calls[i].name
  <2> SUFFICES ASSUME NEW i \in 1..Len(calls), calls[i].ok
               PROVE  \E k \in 1..Len(u) : u[k].name = calls[i].name
    OBVIOUS
  <2>1. i \in Listed(calls[i].site) /\ calls[i].site \in {a, b}
    BY AcceptedListed DEF Sites
  <2>2. CASE calls[i].site = a
    <3>1. PICK k \in 1..Len(A) : A[k].name = calls[i].name
      BY <2>1, <2>2, SiteNodesFacts
    <3>2. k \in 1..Len(u) /\ u[k] = A[k]
      BY <1>2, <1>3
    <3>3. QED
      BY <3>1, <3>2
  <2>3. CASE calls[i].site = b
    <3>1. PICK k \in 1..Len(B2) : B2[k].name = calls[i].name
      BY <2>1, <2>3, SiteNodesFacts
    <3>2. Len(A) + k \in 1..Len(u) /\ u[Len(A) + k] = B2[k]
      BY <1>2, <1>3
    <3>3. QED
      BY <3>1, <3>2
  <2>4. QED
    BY <2>1, <2>2, <2>3
<1>6. QED
  BY <1>2, <1>4, <1>5

\* An entry of the status get_workflow returns (line 327).
Shown == [site: Sites, name: Names, state: {"Active", "Pending"}]

\* A status fetched at line 327 lists every accepted request, only those,
\* each with its state at the time of the fetch.
LEMMA ListingFacts ==
    ASSUME calls \in Seq(Calls), NEW l \in Listings
    PROVE  /\ l \in Seq(Shown)
           /\ \A k \in 1..Len(l) :
                 /\ \E i \in 1..Len(calls) :
                       calls[i].ok /\ l[k].site = calls[i].site /\ l[k].name = calls[i].name
                 /\ l[k].state = "Active" => l[k].name \in active
           /\ \A i \in 1..Len(calls) : calls[i].ok =>
                 \E k \in 1..Len(l) : l[k].name = calls[i].name
<1>1. PICK u \in {SiteNodes("ch") \o SiteNodes("exo"), SiteNodes("exo") \o SiteNodes("ch")} :
         l = [k \in 1..Len(u) |-> [site |-> u[k].site, name |-> u[k].name,
                                   state |-> StateOf(u[k].name)]]
  BY DEF Listings
<1>2. /\ u \in Seq([site: Sites, name: Names])
      /\ \A k \in 1..Len(u) : \E i \in 1..Len(calls) :
            calls[i].ok /\ u[k].site = calls[i].site /\ u[k].name = calls[i].name
      /\ \A i \in 1..Len(calls) : calls[i].ok =>
            \E k \in 1..Len(u) : u[k].name = calls[i].name
  <2>1. CASE u = SiteNodes("ch") \o SiteNodes("exo")
    BY <2>1, BothSites DEF Sites
  <2>2. CASE u = SiteNodes("exo") \o SiteNodes("ch")
    BY <2>2, BothSites DEF Sites
  <2>3. QED
    BY <1>1, <2>1, <2>2
<1>3. Len(u) \in Nat /\ \A k \in 1..Len(u) : u[k] \in [site: Sites, name: Names]
  BY <1>2, LenProperties, ElementOfSeq
<1>4. l \in Seq(Shown) /\ Len(l) = Len(u)
  <2>1. \A k \in 1..Len(u) : [site |-> u[k].site, name |-> u[k].name,
                               state |-> StateOf(u[k].name)] \in Shown
    BY <1>3 DEF Shown, StateOf
  <2>2. QED
    BY <1>1, <1>3, <2>1
<1>5. \A k \in 1..Len(l) : l[k].site = u[k].site /\ l[k].name = u[k].name
                           /\ l[k].state = StateOf(u[k].name)
  BY <1>1, <1>4
<1>6. \A k \in 1..Len(l) :
         /\ \E i \in 1..Len(calls) :
               calls[i].ok /\ l[k].site = calls[i].site /\ l[k].name = calls[i].name
         /\ l[k].state = "Active" => l[k].name \in active
  <2> SUFFICES ASSUME NEW k \in 1..Len(l)
               PROVE  /\ \E i \in 1..Len(calls) :
                           calls[i].ok /\ l[k].site = calls[i].site /\ l[k].name = calls[i].name
                      /\ l[k].state = "Active" => l[k].name \in active
    OBVIOUS
  <2>1. k \in 1..Len(u)
    BY <1>4
  <2>2. PICK i \in 1..Len(calls) :
           calls[i].ok /\ u[k].site = calls[i].site /\ u[k].name = calls[i].name
    BY <1>2, <2>1
  <2>3. QED
    BY <1>5, <2>2 DEF StateOf
<1>7. \A i \in 1..Len(calls) : calls[i].ok => \E k \in 1..Len(l) : l[k].name = calls[i].name
  BY <1>2, <1>4, <1>5
<1>8. QED
  BY <1>4, <1>6, <1>7

-----------------------------------------------------------------------------
(***************************************************************************)
(* The invariants.  Two facts of the create path: an Exogeni node's name  *)
(* carries no workflow prefix (NodeName), and every request sent with an  *)
(* address has it recorded in ipMap under the node's name                 *)
(* (create_compute, lines 536-537).                                       *)
(***************************************************************************)
ExoPlain ==
    \A i \in 1..Len(calls) : calls[i].site = "exo" => calls[i].name.wfp = FALSE

IpRecorded ==
    \A i \in 1..Len(calls) : calls[i].ip # None =>
        calls[i].name \in DOMAIN ipMap /\ ipMap[calls[i].name] = calls[i].ip

\* main before the status is fetched again (line 327).
Early == {"validate", "createWf", "storage", "cluster", "master", "submit",
          "worker", "provisioned"}

(***************************************************************************)
(* The strengthening of StitchedNodeActive and PublishedAsProvisioned.    *)
(* Before line 327 nothing of the stitching state has been touched.  The  *)
(* status fetched lists each accepted request and only those, and a node  *)
(* it shows Active stays Active.  The loop has published every node       *)
(* before li, each with ipMap's address for its name.  stitchNodeStatus   *)
(* is "Active" only when the target names an Active node, and so is the   *)
(* stitch port's target.                                                  *)
(***************************************************************************)
StInv ==
    /\ pc \in Early => /\ listing = <<>> /\ li = 1 /\ DOMAIN hosts = {}
                      /\ tstatus = None /\ stitchReq = None
    /\ listing \in Seq(Shown)
    /\ li \in 1..(Len(listing) + 1)
    /\ \A k \in 1..Len(listing) :
          /\ \E i \in 1..Len(calls) :
                calls[i].ok /\ listing[k].site = calls[i].site
                /\ listing[k].name = calls[i].name
          /\ listing[k].state = "Active" => listing[k].name \in active
    /\ listing # <<>> =>
          \A i \in 1..Len(calls) : calls[i].ok =>
              \E k \in 1..Len(listing) : listing[k].name = calls[i].name
    /\ \A k \in 1..(li - 1) : listing[k].name \in DOMAIN hosts
    /\ \A n \in DOMAIN hosts : hosts[n].ip = IF n \in DOMAIN ipMap THEN ipMap[n] ELSE Empty
    /\ tstatus = "Active" => NameOf(target) \in active
    /\ stitchReq # None => NameOf(stitchReq.target) \in active

\* A step that leaves the log and ipMap alone keeps both create-path facts.
LEMMA KeepPlain ==
    ASSUME ExoPlain, IpRecorded, calls' = calls, ipMap' = ipMap
    PROVE  ExoPlain' /\ IpRecorded'
BY DEF ExoPlain, IpRecorded

\* A create_compute call names a node no earlier request named, records
\* its address under that name, and names an Exogeni node without prefix.
LEMMA CreateKeeps ==
    ASSUME RInv, pc \in Busy, ExoPlain, IpRecorded,
           NEW s \in Sites, NEW k, NEW ip, NEW sc, NEW fwd, NEW ok,
           CreateCompute(s, k, ip, sc, fwd, ok)
    PROVE  ExoPlain' /\ IpRecorded'
<1> DEFINE nm == NodeName(s, k)
           c == [site |-> s, kind |-> k, name |-> nm, ip |-> ip,
                 script |-> sc, fwd |-> fwd, ok |-> ok]
<1>1. calls \in Seq(Calls) /\ count \in Nat /\ Counted
      /\ \A i \in 1..Len(calls) : calls[i].ok
  BY DEF RInv, AbortInv, TypeOK, RefusalStops, Busy
<1>2. \A i \in 1..Len(calls) : calls[i].name # nm
  BY <1>1 DEF Counted, NodeName
<1>3. /\ calls' = Append(calls, c) /\ ipMap' = RecordIp(nm, ip)
      /\ Len(calls') = Len(calls) + 1 /\ calls'[Len(calls) + 1] = c
      /\ \A i \in 1..Len(calls) : calls'[i] = calls[i]
  BY <1>1 DEF CreateCompute
<1>4. s = "exo" => nm.wfp = FALSE
  BY DEF NodeName
<1>5. ExoPlain'
  BY <1>1, <1>3, <1>4 DEF ExoPlain
<1>6. /\ \A x \in DOMAIN ipMap : x \in DOMAIN ipMap' /\ (x # nm => ipMap'[x] = ipMap[x])
      /\ ip # None => nm \in DOMAIN ipMap' /\ ipMap'[nm] = ip
  BY <1>3 DEF RecordIp
<1>7. IpRecorded'
  BY <1>1, <1>2, <1>3, <1>6 DEF IpRecorded
<1>8. QED
  BY <1>5, <1>7

LEMMA PlainStep ==
    ASSUME RInv, ExoPlain, IpRecorded, [Next]_vars
    PROVE  ExoPlain' /\ IpRecorded'
<1>0. pc \in Busy => Site \in Sites
  BY SiteType DEF RInv, AbortInv, Busy
<1>1. CASE Validate
  BY <1>1, KeepPlain DEF Validate
<1>2. CASE CreateWorkflow
  BY <1>2, KeepPlain DEF CreateWorkflow
<1>3. CASE SkipPhase
  BY <1>3, KeepPlain DEF SkipPhase
<1>4. CASE ProvisionStorage
  BY <1>0, <1>4, KeepPlain, CreateKeeps DEF ProvisionStorage, Busy
<1>5. CASE BeginCluster
  BY <1>5, KeepPlain DEF BeginCluster
<1>6. CASE ProvisionMaster
  BY <1>0, <1>6, KeepPlain, CreateKeeps DEF ProvisionMaster, Busy
<1>7. CASE ProvisionSubmit
  BY <1>0, <1>7, KeepPlain, CreateKeeps DEF ProvisionSubmit, Busy
<1>8. CASE ProvisionWorker
  BY <1>0, <1>8, KeepPlain, CreateKeeps DEF ProvisionWorker, Busy
<1>9. CASE UNCHANGED vars
  BY <1>9, KeepPlain DEF vars
<1>10. QED
  BY <1>1, <1>2, <1>3, <1>4, <1>5, <1>6, <1>7, <1>8, <1>9 DEF Next

-----------------------------------------------------------------------------
(***************************************************************************)
(* The steps after main's phases leave the create path's state alone but  *)
(* pc, which moves on past "provisioned".                                 *)
(***************************************************************************)
LEMMA PastPhases ==
    ASSUME RInv, pc \in {"provisioned", "publish", "poll"},
           pc' \in {"publish", "poll", "finished", "crashed"},
           UNCHANGED <<opts, ph, count, cur, oldname, wdone, wscript, stor, cl,
                       ipMap, calls, wf>>
    PROVE  RInv'
<1>1. TypeOK'
  BY DEF RInv, AbortInv, TypeOK, PCs, Terminal
<1>2. RefusalStops'
  BY DEF RInv, AbortInv, RefusalStops
<1>3. Counted' /\ Increasing' /\ Stage'
  BY DEF RInv, Counted, Increasing, Stage, Busy
<1>4. QED
  BY <1>1, <1>2, <1>3 DEF RInv, AbortInv

\* Every step of main's provisioning starts before line 327.
LEMMA NextEarly ==
    ASSUME Next
    PROVE  pc \in Early \ {"provisioned"}
BY DEF Next, Validate, CreateWorkflow, SkipPhase, ProvisionStorage, BeginCluster,
       ProvisionMaster, ProvisionSubmit, ProvisionWorker, Early

\* The whole inductive invariant of the stitching run.
AllInv == RInv /\ ExoPlain /\ IpRecorded /\ StInv

LEMMA AllInit == SInit => AllInv
<1> SUFFICES ASSUME SInit PROVE AllInv
  OBVIOUS
<1>1. RInv
  BY RInvInit DEF SInit
<1>2. calls = <<>>
  BY DEF SInit, Init
<1>3. ExoPlain /\ IpRecorded
  BY <1>2 DEF ExoPlain, IpRecorded
<1>4. StInv
  BY StatusAssumption, EmptySeq DEF SInit, Init, StInv, Early
<1>5. QED
  BY <1>1, <1>3, <1>4 DEF AllInv

\* main's provisioning: the stitching state is still untouched.
LEMMA StProvision ==
    ASSUME StInv, Provision
    PROVE  StInv'
<1>1. pc \in Early /\ listing = <<>> /\ li = 1 /\ DOMAIN hosts = {}
      /\ tstatus = None /\ stitchReq = None
  BY NextEarly DEF Provision, StInv
<1>2. UNCHANGED <<listing, li, hosts, tstatus, stitchReq, active>>
  BY DEF Provision
<1>3. QED
  BY <1>1, <1>2, StatusAssumption, EmptySeq DEF StInv

\* get_workflow (line 327): the status lists every accepted request.
LEMMA StRefetch ==
    ASSUME RInv, StInv, Refetch
    PROVE  StInv'
<1>1. pc = "provisioned" /\ listing = <<>> /\ li = 1 /\ DOMAIN hosts = {}
      /\ tstatus = None /\ stitchReq = None /\ calls \in Seq(Calls)
  BY DEF Refetch, StInv, Early, RInv, AbortInv, TypeOK
<1>2. UNCHANGED <<calls, ipMap, li, hosts, tstatus, stitchReq, active, target>>
  BY DEF Refetch
<1>3. CASE pc' = "publish" /\ listing' \in Listings
  <2>1. /\ listing' \in Seq(Shown)
        /\ \A k \in 1..Len(listing') :
              /\ \E i \in 1..Len(calls) :
                    calls[i].ok /\ listing'[k].site = calls[i].site
                    /\ listing'[k].name = calls[i].name
              /\ listing'[k].state = "Active" => listing'[k].name \in active
        /\ \A i \in 1..Len(calls) : calls[i].ok =>
              \E k \in 1..Len(listing') : listing'[k].name = calls[i].name
    BY <1>1, <1>3, ListingFacts
  <2>2. Len(listing') \in Nat
    BY <2>1, LenProperties
  <2>3. QED
    BY <1>1, <1>2, <1>3, <2>1, <2>2, StatusAssumption DEF StInv, Early
<1>4. CASE pc' = "finished" /\ listing' = listing
  BY <1>1, <1>2, <1>4, StatusAssumption, EmptySeq DEF StInv, Early
<1>5. QED
  BY <1>3, <1>4 DEF Refetch

\* A node Mobius lists at Exogeni carries a plain name, which rebinding the
\* target to (line 362) names exactly again.
LEMMA RebindExact ==
    ASSUME ExoPlain, NEW e, NEW i \in 1..Len(calls), calls \in Seq(Calls),
           e.site = "exo", e.site = calls[i].site, e.name = calls[i].name
    PROVE  NameOf(AsTarget(e.name)) = e.name
<1>1. calls[i] \in Calls
  BY ElementOfSeq
<1>2. e.name \in Names
  BY <1>1 DEF Calls
<1>3. e.name.wfp = FALSE
  BY DEF ExoPlain
<1>4. QED
  BY <1>2, <1>3 DEF NameOf, AsTarget, Names

\* One node of the publishing loop (lines 344-381).
LEMMA StPublishNode ==
    ASSUME RInv, ExoPlain, StInv, PublishNode
    PROVE  StInv'
<1> DEFINE e == listing[li]
<1>1. /\ pc = "publish" /\ li \in 1..Len(listing) /\ listing \in Seq(Shown)
      /\ calls \in Seq(Calls)
  BY DEF PublishNode, StInv, RInv, AbortInv, TypeOK
<1>2. e \in Shown
  BY <1>1, ElementOfSeq
<1>3. PICK i \in 1..Len(calls) :
          calls[i].ok /\ e.site = calls[i].site /\ e.name = calls[i].name
  BY <1>1 DEF StInv
<1>4. e.state = "Active" => e.name \in active
  BY <1>1 DEF StInv
<1>5. UNCHANGED <<pc, calls, ipMap, listing, active, stitchReq>>
  BY DEF PublishNode, vars
<1>6. hosts' = [n \in DOMAIN hosts \cup {e.name} |->
                  IF n = e.name THEN HostRecord(e) ELSE hosts[n]]
      /\ li' = li + 1
  BY DEF PublishNode
<1>7. tstatus' = "Active" => NameOf(target') \in active'
  <2>1. CASE e.site = "exo" /\ target # None /\ Contains(e.name, target)
    <3>1. tstatus' = e.state /\ target' = AsTarget(e.name)
      BY <2>1 DEF PublishNode, RebindStatus
    <3>2. NameOf(AsTarget(e.name)) = e.name
      BY <1>1, <1>3, <2>1, RebindExact
    <3>3. QED
      BY <1>4, <1>5, <3>1, <3>2
  <2>2. CASE ~(e.site = "exo" /\ target # None /\ Contains(e.name, target))
    <3>1. tstatus' = tstatus /\ target' = target
      BY <2>2 DEF PublishNode, RebindStatus
    <3>2. QED
      BY <1>5, <3>1 DEF StInv
  <2>3. QED
    BY <2>1, <2>2
<1>8. \A k \in 1..(li' - 1) : listing'[k].name \in DOMAIN hosts'
  BY <1>1, <1>5, <1>6 DEF StInv
<1>9. \A n \in DOMAIN hosts' :
          hosts'[n].ip = IF n \in DOMAIN ipMap' THEN ipMap'[n] ELSE Empty
  BY <1>5, <1>6 DEF StInv, HostRecord
<1>10. li' \in 1..(Len(listing') + 1)
  BY <1>1, <1>5, <1>6
<1>11. QED
  BY <1>1, <1>5, <1>7, <1>8, <1>9, <1>10 DEF StInv, Early

\* The end of the publishing loop (line 382).
LEMMA StEndPublish ==
    ASSUME StInv, EndPublish
    PROVE  StInv'
BY DEF EndPublish, StInv, Early, svars

\* One round of the poll loop (lines 383-399): Active only for the target.
LEMMA StPoll ==
    ASSUME StInv, Poll
    PROVE  StInv'
<1>1. tstatus' = "Active" => NameOf(target) \in active
  <2>1. CASE target = None
    BY <2>1 DEF Poll
  <2>2. CASE target # None
    <3>1. tstatus' = PolledStatus /\ tstatus # "Active"
      BY <2>2 DEF Poll
    <3>2. QED
      BY <3>1 DEF PolledStatus, StateOf
  <2>3. QED
    BY <2>1, <2>2
<1>2. QED
  BY <1>1 DEF Poll, StInv, Early

\* perform_stitch (lines 400-404): sent only once the target is Active.
LEMMA StStitchPort ==
    ASSUME StInv, StitchPort
    PROVE  StInv'
BY DEF StitchPort, StInv, Early

\* The service activating a node only adds to what is Active.
LEMMA StActivate ==
    ASSUME StInv, NEW n, Activate(n)
    PROVE  StInv'
BY DEF Activate, StInv, Early, vars

LEMMA AllStep == AllInv /\ [SNext]_allvars => AllInv'
<1> SUFFICES ASSUME AllInv, [SNext]_allvars PROVE AllInv'
  OBVIOUS
<1>0. RInv /\ ExoPlain /\ IpRecorded /\ StInv
  BY DEF AllInv
<1>1. CASE Provision
  BY <1>0, <1>1, RInvStep, PlainStep, StProvision DEF Provision, AllInv
<1>2. CASE Refetch
  <2>1. RInv'
    BY <1>0, <1>2, PastPhases DEF Refetch
  <2>2. ExoPlain' /\ IpRecorded'
    BY <1>0, <1>2, KeepPlain DEF Refetch
  <2>3. QED
    BY <1>0, <1>2, <2>1, <2>2, StRefetch DEF AllInv
<1>3. CASE PublishNode
  <2>1. UNCHANGED vars
    BY <1>3 DEF PublishNode
  <2>2. QED
    BY <1>0, <1>3, <2>1, RInvStep, PlainStep, StPublishNode DEF AllInv
<1>4. CASE EndPublish
  <2>1. RInv'
    BY <1>0, <1>4, PastPhases DEF EndPublish
  <2>2. ExoPlain' /\ IpRecorded'
    BY <1>0, <1>4, KeepPlain DEF EndPublish
  <2>3. QED
    BY <1>0, <1>4, <2>1, <2>2, StEndPublish DEF AllInv
<1>5. CASE Poll
  <2>1. RInv'
    BY <1>0, <1>5, PastPhases DEF Poll
  <2>2. ExoPlain' /\ IpRecorded'
    BY <1>0, <1>5, KeepPlain DEF Poll
  <2>3. QED
    BY <1>0, <1>5, <2>1, <2>2, StPoll DEF AllInv
<1>6. CASE StitchPort
  <2>1. RInv'
    BY <1>0, <1>6, PastPhases DEF StitchPort
  <2>2. ExoPlain' /\ IpRecorded'
    BY <1>0, <1>6, KeepPlain DEF StitchPort
  <2>3. QED
    BY <1>0, <1>6, <2>1, <2>2, StStitchPort DEF AllInv
<1>7. ASSUME NEW n \in Accepted, Activate(n) PROVE AllInv'
  <2>1. UNCHANGED vars
    BY <1>7 DEF Activate
  <2>2. QED
    BY <1>0, <1>7, <2>1, RInvStep, PlainStep, StActivate DEF AllInv
<1>8. CASE UNCHANGED allvars
  <2>1. UNCHANGED vars
    BY <1>8 DEF allvars
  <2>2. StInv'
    BY <1>0, <1>8 DEF allvars, vars, svars, StInv, Early
  <2>3. QED
    BY <1>0, <2>1, <2>2, RInvStep, PlainStep DEF AllInv
<1>9. QED
  BY <1>1, <1>2, <1>3, <1>4, <1>5, <1>6, <1>7, <1>8 DEF SNext, ScriptNext

-----------------------------------------------------------------------------
(***************************************************************************)
(* The stitch port is requested (perform_stitch, line 411) only for a node *)
(* the service has reported Active, in every run and for every instance:  *)
(* the publishing loop rebinds target and stitchNodeStatus from the same  *)
(* node, an Exogeni node's listed name is plain, so the rebound target    *)
(* names it exactly, and the poll loop reads the state of that node.       *)
(***************************************************************************)
THEOREM StitchedActive == SSpec => []StitchedNodeActive
<1>1. AllInv => StitchedNodeActive
  BY DEF AllInv, StInv, StitchedNodeActive
<1>2. QED
  BY <1>1, AllInit, AllStep, PTL DEF SSpec

(***************************************************************************)
(* Once the publishing loop (lines 344-381) has run over a non-empty       *)
(* status, every node created with an address is published in hostsall    *)
(* with the address its create_compute request gave it, in every run:      *)
(* the status lists every accepted request, the loop has recorded each     *)
(* listed name, and ipMap still holds the address the request was sent     *)
(* with.                                                                   *)
(***************************************************************************)
THEOREM PublishedAddresses == SSpec => []PublishedAsProvisioned
<1>1. AllInv => PublishedAsProvisioned
  <2> SUFFICES ASSUME AllInv, listing # <<>>, li > Len(listing),
                      NEW i \in 1..Len(calls), calls[i].ok, calls[i].ip # None
               PROVE  /\ calls[i].name \in DOMAIN hosts
                      /\ hosts[calls[i].name].ip = calls[i].ip
    BY DEF PublishedAsProvisioned
  <2>1. listing \in Seq(Shown) /\ li \in 1..(Len(listing) + 1)
    BY DEF AllInv, StInv
  <2>2. PICK k \in 1..Len(listing) : listing[k].name = calls[i].name
    BY DEF AllInv, StInv
  <2>3. k \in 1..(li - 1)
    BY <2>1, <2>2, LenProperties
  <2>4. calls[i].name \in DOMAIN hosts
    BY <2>2, <2>3 DEF AllInv, StInv
  <2>5. calls[i].name \in DOMAIN ipMap /\ ipMap[calls[i].name] = calls[i].ip
    BY DEF AllInv, IpRecorded
  <2>6. QED
    BY <2>4, <2>5 DEF AllInv, StInv
<1>2. QED
  BY <1>1, AllInit, AllStep, PTL DEF SSpec
=============================================================================
