# TLA+ models of `src/python/condor_client.py`

`condor_client.py` is the command-line client that builds an HTCondor cluster
spanning two clouds (Chameleon and ExoGENI) through the Mobius workflow
service. The `create` operation does the following, in order:

1. It validates the arguments.
2. It creates a remote workflow.
3. It provisions, per site, an optional storage node and then a cluster (a
   master, a submit node and `workers` workers). Every node gets:
   - a name built from a shared counter;
   - optionally, an address taken from a per-site range;
   - a boot script rendered from a template.
4. It publishes keys and host names to COMET, waits for the stitch node, and
   requests the stitch.

The script is single-threaded and synchronous. Its hard parts are these:
- the order of many dependent steps;
- state threaded through calls (the counter, the address cursor, `ipMap`, a
  boot script rewritten in place);
- remote answers that can be refused at any call;
- exceptions that stop the process midway.

## Inventory (components of the program)

| Component | Code | State | Operations | Module |
|---|---|---|---|---|
| Address Allocator | lines 32-74 | none (pure) | validate, fit range, cidr, wildcard, next | `IpAddr` |
| Template Renderer | 438-444, 545-563 | the script text | ordered `str.replace` chain | `BootScript` |
| Node Provisioner | `create_compute` 530-568 | `ipMap`, the shape's script | name, record IP, render, request | `CondorClient` (`CreateCompute`) |
| Site Cluster Provisioner | `provision_storage` 425-458, `provision_condor_cluster` 460-528 | count, `ipStart` cursor, `oldnodename`, `wdata` | storage, master, submit, worker loop; delete on refusal | `CondorClient` |
| Cross-Site Orchestrator | `main` 214-326 | storage names, subnets, forward IP, workflow | validate, create workflow, four phases | `CondorClient` |
| Context Publisher | 327-381 | COMET families, stitch target | per-node `update_family` | `Stitch` |
| Stitching Coordinator | 382-423 | `stitchNodeStatus` | poll until Active, sleep, `perform_stitch` | `Stitch` |
| get / delete | 204-213 | none | one remote call each | not modelled (no local state) |

How the components interact:
- `main` passes `ipMap` and `count` by reference or by value into every
  provisioning call and threads the returned count into the next one.
- Storage names and the storage node's address become the forward IP and
  `STORAGENODE` of the cluster on the same site.
- The address range of one site gives the `SUBNET` of the other.
- After the four phases, `main` fetches the workflow status again. It
  publishes every listed node to COMET with the address `ipMap` gave it,
  and rebinds the stitch target of `stitch.json` to a node whose name
  contains it. If a Chameleon request carries a VLAN, `main` polls that
  node until it is Active and then requests the stitch port.

## Modules

- **`IpAddr`** models the address helpers.
  - An address is `[net, last]`. The first three octets are never changed by
    the code, so they are a network identifier.
  - `last` is an unbounded integer, because `str(int(octets[3]) + 1)` never
    wraps.
  - `IsValidIpv4` is `last <= 255`.
  - CIDR and wildcard strings are records that keep the network and whether
    the slash is escaped.
- **`BootScript`** models the renderer.
  - A script is a function from the template's placeholder tokens to their
    current content: the token itself, or the value replaced into it.
  - `Replace(s, old, new)` rewrites every slot that equals `old`. This is
    `str.replace` on atomic values.
  - `Render` is the replacement chain of lines 545-563, in the code's order,
    with the code's conditions.
  - `PrepStorage` is lines 438-444.
- **`CondorClient`** models the create path.
  - `opts` is the command line plus the data directories. For each site it
    holds: whether the site is configured, the worker count, the start octet
    (or None), the shape files present, the shapes whose `postBootScript` is
    not null, and whether the shapes have a `hostNamePrefix`. It also holds
    whether `stitch.json` exists.
  - `pc` and `ph` are where `main` is; `ph` indexes the four phases of lines
    279-326.
  - `count`, `cur` (the local `ipStart`), `oldname`, `wdone` and `wscript`
    (`wdata["postBootScript"]`) are the locals of `provision_condor_cluster`.
  - `stor` holds `chstoragename` and `exostoragename`.
  - `cl` holds the storage name, subnet and forward IP passed to the current
    cluster call.
  - `ipMap` is `ipMap`.
  - `calls` logs every `create_compute` request with its answer.
  - `wf` is the remote workflow (`none`, `live` or `deleted`).

  The actions of `CondorClient`:

  | Action | What it models |
  |---|---|
  | `Validate` | 216-253 |
  | `CreateWorkflow` | 254-262; a non-200 answer falls through to `sys.exit(0)` |
  | `SkipPhase` | main's `if args.site is not None and args.datadir is not None` guards |
  | `ProvisionStorage` | `provision_storage` and main's handling of its result, including the `TypeError` of line 286 and the `AttributeError` of `get_cidr_escape(None)` |
  | `BeginCluster` | main's argument set-up for `provision_condor_cluster` and the shape reads, including the `KeyError` of line 322 |
  | `ProvisionMaster`, `ProvisionSubmit`, `ProvisionWorker` | the three blocks of `provision_condor_cluster`, each with a `create_compute` whose answer `ok` is chosen freely; a refusal deletes the workflow and `main` returns |

  An exception is `pc = "crashed"`. The end of the four phases is
  `pc = "provisioned"`: the point where `Stitch` takes over.
- **`Stitch`** composes the create path with the Context Publisher and the
  Stitching Coordinator. It EXTENDS `CondorClient`; every step of `Next`
  is a step of `Stitch` (`Provision`), and `create_workflow`'s 200 branch
  also loads `target` from `stitch.json`. Its extra state:
  - `sopts`: whether `--comethost` is given, the target string, and
    whether Mobius puts a VLAN on the Chameleon request;
  - `listing`: the status fetched at line 327, with each node's state;
  - `li`: the publishing loop's position;
  - `target`: `stitchdata["target"]`;
  - `tstatus`: `stitchNodeStatus`;
  - `vlan`: whether `stitcVlanToChameleon` is set;
  - `hosts`: the `hostsall` record sent for each node;
  - `active`: the nodes the service reports Active;
  - `stitchReq`: the `create_stitchport` payload, once sent.

  A target string is a prefix (a kind or `Node`) and an optional number.
  `Contains` is the substring test of line 360 on such names. It holds
  when the prefixes agree and the target's digits are a prefix of the
  name's digits, so `Node1` is in `Node10`.

  `SiteNodes(s)` is the part of the status that lists site `s`'s nodes:
  the accepted requests of `s`, in log order. `Listed(s)` holds their log
  positions, and `Rank(s, i)` is the place of position `i` among them. The
  k-th node is the request whose rank is k. This is the ordered filter
  `SelectSeq` would give. It is written with a set and a cardinality so
  that the prover can unfold it. TLC gave both forms the same state counts
  on `MC_Stitch`.

  | Action | What it models |
  |---|---|
  | `Refetch` | 327-341: a 200 answer with `--comethost` starts publishing (the listing comes in either site order); otherwise `main` ends |
  | `PublishNode` | 344-381 for one listed node: the `hostsall` record, and for an Exogeni node containing the target the rebinding of `target` and `stitchNodeStatus` |
  | `EndPublish` | 382: stitching only with a VLAN and an Exogeni site |
  | `Poll` | 383-399: one iteration; the exact-name update of `stitchNodeStatus`; `TypeError` at 384 without `stitch.json`; a non-200 answer is a stutter |
  | `StitchPort` | 400-404 and `perform_stitch` 411-423 |
  | `Activate(n)` | the service (environment): a created Exogeni node becomes Active |

  `Activate` only activates nodes whose names contain the declared
  target. The client reads the state of no other node: every later target
  contains the declared one. The COMET answers are only printed by the
  code, so they are not modelled. The sleeps only delay, so they are not
  modelled either.
- **`MC_Stitch`** instantiates `Stitch`:
  - one shape-file set with all four kinds;
  - three workers, so the counter reaches `Node10` on the Exogeni site;
  - start octet 10;
  - no boot scripts;
  - targets `Node1` and `storage`.
- **`WorkflowAbstract`** is what a create promises of the remote
  workflow, without sites, addresses or scripts:
  - `Open`: the workflow is opened once;
  - `Add(n)` and `Refuse(n)`: a request under a name never used before,
    accepted or refused; a refusal deletes the workflow and ends the run;
  - `Stop`: the run ends otherwise.

  `CondorClient` defines `Abs`, an INSTANCE of it with these mappings:
  - `reqs` is the names of the logged requests;
  - `done` is `pc \in Terminal`;
  - `wf` is `wf`.

  `WorkflowRefined == Abs!ASpec` is checked by TLC and proved by TLAPS.
- **`MC_CondorClient`** is the model-checking instance:
  - all nine placeholder tokens;
  - at most two workers per site;
  - start octets 10 and 252;
  - three shape-file sets, including one without `storage.json` and one
    without the master;
  - four scripted-shape sets.
- **`CondorClientProofs`**, **`CondorClientRefinement`**,
  **`CondorClientAddresses`**, **`CondorClientScripts`** and
  **`CondorClientCounts`** hold the TLAPS proofs of the create path, and
  **`StitchProofs`** holds those of `Stitch` (see Proofs).

## Runs

| Run | cfg | Expect | What it shows |
|---|---|---|---|
| `create_safety` | `CondorClient.cfg` | pass | `TypeOK`; `AddressesDistinct` (no two nodes share an address); `AllOrNothing` (a normal exit has either no live workflow or every requested node); `AbortIsFinal` (a refused request is the last and the workflow is deleted); `ScriptNamesSelf` (every rendered script's NODENAME is the node's own name, also for workers whose script is re-rendered) |
| `addresses_valid` | `CondorClient_AddressesValid.cfg` | violation | with storage, start .252 and 2 workers, the last worker gets .256: the range check at 225/234 is one address short |
| `peer_address_rendered` | `CondorClient_PeerAddressRendered.cfg` | violation | the second worker's IPADDR is the first worker's address, because of the in-place rewrite at 563 |
| `worker_chains_previous` | `CondorClient_WorkerChainsPrevious.cfg` | violation | no worker's script names its predecessor, contrary to spec 4.2/4.4 |
| `no_partial_workflow` | `CondorClient_NoPartialWorkflow.cfg` | violation | a Chameleon site without `storage.json` crashes at 286 with the workflow live |
| `stitch_liveness` | `Stitch.cfg` | pass | `StitchedNodeActive`: the stitch port is requested only for a node the service reports Active; `PublishedAsProvisioned`: every node created with an address is published with that address; `PollEnds`: a poll loop whose target names a created Exogeni node ends in a stitch request. About 144,000 states. |
| `stitch_target_declared` | `Stitch_StitchTargetDeclared.cfg` | violation | with `stitch.json` naming `Node1` (the Exogeni storage node) and an Exogeni worker `Node10`, the substring test at 360 rebinds the target, and the stitch port goes to `Node10` |

`create_safety` also checks `WorkflowRefined`.

`CHECK_DEADLOCK FALSE` is set because the script terminates: by
`sys.exit`, by a return from `main`, or by an exception.

Each property of the passing run has a mutant in `CondorClient`, listed in
PROJECT.json, that TLC must catch:
- `for x in range(workers + 1)`;
- the master not advancing past the storage address;
- a failure that keeps the workflow;
- a failure that `main` ignores;
- a missing `oldnodename = nodename` (it breaks `ScriptNamesSelf`);
- a missing `count + 1` after the submit node (it breaks `WorkflowRefined`,
  because a request reuses a name).

The mutants of `stitch_liveness` are:
- `stitchNodeStatus` read from every Exogeni node, without the target
  test (it breaks `StitchedNodeActive`);
- the address looked up under the published hostname, with `.novalocal`
  (it breaks `PublishedAsProvisioned`);
- the poll loop not updating `stitchNodeStatus` (it breaks `PollEnds`).

**Bounds.**
- Two workers make a worker re-render a script already rendered for a
  previous worker.
- Octet 252 with a storage node and two workers reaches 256.
- Both sites with and without storage, master and script shapes cover every
  branch of `main` and the two provisioning functions.
- The state space is about 500,000 states.

**Fairness.** `CondorClient` assumes none: all its properties are safety
properties. `Stitch` assumes two weak-fairness conditions:
- `WF(ScriptNext)`: the script never blocks except in a remote call, and
  each remote call returns.
- `WF(\E n : Activate(n))`: the service eventually activates the nodes it
  created.

A non-200 poll answer changes nothing, so it is a stutter. `WF(ScriptNext)`
therefore also assumes that the service eventually answers a status
request with 200. The code has no timeout, so neither assumption can be
weakened: without them, the loop at 383 may wait forever. `PollEnds` is stated only
for a target that names a created Exogeni node. A target that matches no
node never becomes Active, and the loop then polls forever. The code and
spec 4.6 and 9 both describe the loop that way, so no property claims it
ends.

`MC_Stitch` reaches two-digit node numbers on the Exogeni site, which is
what the substring test needs. Both listing orders are enumerated.

## Proofs

`CondorClientProofs` proves `TypeCorrect == Spec => []TypeOK` for every value
of the constants, under these assumptions:
- `TemplateAssumption`: the template's tokens are placeholders;
- `ConstantsAssumption`: `MaxWorkers \in Nat`, start octets in `0..255`,
  shape sets within the four kinds, and `None` not a site;
- `NoneAssumption` (used by `CondorClientAddresses`): `None` is neither a
  node name nor an address, as Python's `None` is neither.

`TypeOK` is inductive as it stands, with one strengthening conjunct: a phase
`pc` implies `ph \in 1..4`, so `Site` is defined. The proof has one step per
action. It rests on lemmas about the helpers:
- `Replace`, `ReplaceSubnet` and `Render` preserve the script type;
- `OptsType`;
- address and subnet typing;
- node names;
- `RenderFor` and `CreateCompute`.

`CondorClientProofs` also proves `AbortFinal == Spec => []AbortIsFinal`.
`AbortIsFinal` alone is not inductive: from a state with a refused request,
nothing in the invariant forbids another append. The strengthening
`RefusalStops` adds `pc = "exited"` to every refusal. Every action is guarded
by a `pc` other than `"exited"`, so no action is enabled there. Three lemmas
carry the argument:
- `KeepCalls`: steps that leave the log alone;
- `AppendCall`: appending an accepted request, or a refused one followed by
  `Abort`;
- `CreateStep`: `CreateCompute` together with the answer's branch.

`CondorClientRefinement` proves `Refinement == Spec => WorkflowRefined`.
`WorkflowAbstract`'s `Add` and `Refuse` only take a name no earlier request
used, so the refinement also says that request names are unique. The proof
rests on the inductive invariant `RInv`, which is `AbortInv` and three
more conjuncts:
- `Counted`: every accepted request was numbered below `count`.
- `Increasing`: request numbers increase along the log.
- `Stage`: there are no requests and no workflow before `create_workflow`;
  the workflow is live during the phases; and a phase `pc` is its phase's
  operation, so a storage step never ends the phases.

Name freshness alone is not inductive. A new request is numbered `count`,
and only `Counted`, together with `RefusalStops` (every earlier request
was accepted), shows that the number is fresh. The lemmas are:
- `AppendFresh`, about appending to the log;
- `CreateFresh` and `LogStep`;
- `StageStep`;
- for the refinement, `StutterOrStop` (a step that sends no request is a
  stutter or `Stop`), `CreateRefines` (an accepted request is `Add`, a
  refused one with its `Abort` is `Refuse`) and `RefineStep`.

`CondorClientAddresses` proves `AddressesUnique == Spec => []AddressesDistinct`.
`AddressesDistinct` alone is not inductive: nothing in it says that the next
address handed out is new. The strengthening `AddrInv`, conjoined with `RInv`,
records where each site's addresses are (`Mine(s)` is the set of nodes whose
address lies in site `s`'s network):
- every address lies in one of the two sites' networks, so the sites' ranges
  cannot collide;
- before a site's storage phase the site has no address;
- until the site's master is created (`Pristine(s)`), its only address is
  the start of its range, held by the storage node, and then
  `stor[s] # None`. So the master advances past the start exactly when a
  storage node holds it, and otherwise takes the start itself;
- at the master, `cur` is the start of the range and `cl.storagename` is
  `stor[s]`;
- at the submit node and in the worker loop, every address of the site is
  at or below `cur`, so `GetNextIp(cur)` is above all of them.

The proof has one lemma per action (`StorageAddr`, `ClusterAddr`,
`MasterAddr`, `SubmitAddr`, `WorkerAddr`) and three shared steps:
- `PhaseDone`: main moves on to its next phase;
- `CursorKept`: a step inside a cluster that creates no node;
- `NewNode`: a node is created at an address above all of its site's
  addresses.
`MasterIpAbove` and `NextIpAbove` supply that last premise.

`CondorClientScripts` proves `ScriptsSelfNamed == Spec => []ScriptNamesSelf`.
`ScriptNamesSelf` alone is not inductive: a worker's script is `wscript`,
the previous worker's script rewritten in place with `oldname` as the old
name, and nothing in the property says what `wscript` holds. The
strengthening `WScriptNamed` states that the `NODENAME` slot of `wscript`
holds `oldname` (the placeholder token before the first worker). The
lemmas:
- `RenderSelf`: `Render` with old name `old` turns a script whose slot
  holds `old` into one whose slot holds the new node's name, following
  `Render`'s four rewrites one at a time;
- `FreshSelf` and `CreateSelf`: a fresh template holds the placeholder, and
  a logged request's script names its node;
- `ScriptStep`: one case per action.

`CondorClientCounts` proves `AllOrNothingHolds == Spec => []AllOrNothing`.
`AllOrNothing` speaks only of the end of the run, so it says nothing about
the states before it. The strengthening `CountInv`, conjoined with `RInv` and
`AddrInv`, counts as it goes. `Expected(s)` is what site `s` should have
created at main's current point:
- its storage node once its storage phase is over;
- in its cluster, the master at the submit node;
- the master and the submit node, plus `wdone` workers, in the worker loop;
- everything requested once its cluster is over.

`CountInv` states five things:
- in the phases and at `"provisioned"`, `Created(s) = Expected(s)` for each
  site;
- the cluster steps run only for a configured site;
- `wdone` is 0 before the worker loop and at most the worker count inside
  it;
- `"provisioned"` means phase 5 and a live workflow;
- `"exited"` means no live workflow.

The lemmas:
- `CreatedAppend` (after `FS_AddElement` and `FS_Subset` of
  `FiniteSetTheorems`): appending a request adds one to its site's count
  exactly when it is accepted;
- `CardThree`: the requested storage, master and submit nodes, counted one by
  one;
- `OtherKept`: a step in one site's phase keeps the other site's
  expectation;
- `StorageDone` and `ClusterSteps`: what each step adds to the current
  site's expectation;
- one lemma per action.

At the end of the worker loop, `~MoreWorkers` and the bound on `wdone`
show that `wdone` is the number of workers requested.

The four applications of `CreateComputeType` in `CondorClientProofs` are
sent to Zenon with a 60 s limit: SMT does not instantiate that lemma
reliably.

`StitchProofs` proves both safety invariants of the `stitch_liveness` run:
- `StitchedActive == SSpec => []StitchedNodeActive`;
- `PublishedAddresses == SSpec => []PublishedAsProvisioned`.

They add one assumption, `StatusAssumption`: `None` is not one of the status
strings `"Active"` and `"Pending"`, just as Python's `None` is not a string.

Neither invariant is inductive. Each depends on what the listing fetched at
line 327 holds, and on facts about the request log. The inductive invariant
is `AllInv == RInv /\ ExoPlain /\ IpRecorded /\ StInv`. TLC checked it as an
invariant of `MC_Stitch` before the proof, and its create-path conjuncts on
`MC_CondorClient`.
- `RInv` is the create path's invariant from `CondorClientRefinement`.
- `ExoPlain`: every Exogeni request names a node without the workflow prefix.
- `IpRecorded`: `ipMap` holds each request's address under its name.
  `CreateKeeps` and `PlainStep` show that the create path keeps both facts.
  Freshness of names comes from `Counted`.
- `StInv` covers the stitching state:
  - before `"provisioned"`, the stitching state is still initial;
  - every listed entry matches an accepted request in site and name;
  - an entry listed Active is in `active`;
  - a non-empty listing names every accepted request;
  - the published prefix `1..li-1` is in `hosts`;
  - each host record carries the `ipMap` address;
  - `tstatus = "Active"` implies the target names an active node;
  - a sent stitch request names an active node.

The argument runs through these steps:
- Lemmas on `Listed` and `Rank` (finiteness, range, monotonicity, and a
  bijection onto `1..Cardinality(Listed(s))`, via `FiniteSetTheorems`)
  give `SiteNodesFacts`: each site's listing is sound and complete for the
  accepted requests.
- `BothSites` and `ListingFacts` extend this to the concatenated listing of
  `Listings`.
- `RebindExact`: an Exogeni entry's name is plain (`ExoPlain`), so the
  target it is rebound to at line 362 names exactly that node. This is why
  the poll loop's exact-name lookup reads the state of the node whose Active
  state `PublishNode` recorded.
- There is one step lemma per action (`StProvision`, `StRefetch`,
  `StPublishNode`, `StEndPublish`, `StPoll`, `StStitchPort`, `StActivate`).
  `PastPhases` shows that the steps after `"provisioned"` keep `RInv`.
  `AllStep` combines them.

Every safety invariant of the passing runs now has a theorem. The rest is
TLC's alone:
- the counterexamples of the violation runs;
- the liveness property `PollEnds`;
- the agreement of `SiteNodes` with its `SelectSeq` form.

Liveness (fairness, ENABLED) is beyond the prover here. The `SelectSeq`
form is recursive, and the provers cannot unfold that recursion or do
induction over it: the induction theorems take an operator parameter.

## Not modelled

- `get` and `delete` are not modelled: they are single calls with no local
  state.
- Of the argparse declarations (79-199), only the per-site options (site,
  worker count, start IP, datadir) are modelled, as the value space
  `SiteOpts`: each option is absent (None) or a value of its type. The
  operation, hosts, credentials and lease end are not. Invalid IP syntax, the site-name markers
  and the COMET credential check are usage errors before any remote call and
  are abstracted into `Validate` rejecting or not.
- Lease end and the `site` field of the shapes are not modelled: they are
  copied into the request and no property depends on them.
- The COMET answers and the `pubkeysall` family are not modelled: the code
  only prints the answers, and the family carries a constant.
- The 5 s and 60 s sleeps are not modelled: they only delay.

## Plan

1. Run a larger `Stitch` instance with prefixed and unprefixed shapes on
   both sites.
2. Prove the action properties of the create path (a refusal is never
   followed by a request) as `[][A]_vars` theorems from `RInv`.
