-------------------------- MODULE WorkflowAbstract --------------------------
(***************************************************************************)
(* What a create operation promises of the remote workflow (spec 3 and 7), *)
(* without sites, addresses or scripts: a workflow is opened once, node    *)
(* requests are sent to it while it is live, each under a name never       *)
(* requested before, and the run ends either with the workflow deleted     *)
(* right after a refused request or with the workflow as it is.  Nothing   *)
(* happens after the end.                                                  *)
(***************************************************************************)
EXTENDS Naturals, Sequences

CONSTANT Node    \* the names a node may be given

VARIABLES
    wf,      \* "none", "live" or "deleted"
    reqs,    \* the names of the node requests sent, in order
    done     \* the run has ended

avars == <<wf, reqs, done>>

\* The names used so far.
Used == {reqs[i] : i \in 1..Len(reqs)}

AInit == wf = "none" /\ reqs = <<>> /\ done = FALSE

\* The workflow is created.
Open ==
    /\ ~done /\ wf = "none"
    /\ wf' = "live"
    /\ UNCHANGED <<reqs, done>>

\* A request under a fresh name is accepted into the live workflow.
Add(n) ==
    /\ ~done /\ wf = "live"
    /\ n \in Node \ Used
    /\ reqs' = Append(reqs, n)
    /\ UNCHANGED <<wf, done>>

\* A request under a fresh name is refused: the whole workflow is deleted
\* and the run ends.
Refuse(n) ==
    /\ ~done /\ wf = "live"
    /\ n \in Node \ Used
    /\ reqs' = Append(reqs, n)
    /\ wf' = "deleted" /\ done' = TRUE

\* The run ends without touching the workflow (exit, return, exception).
Stop ==
    /\ ~done
    /\ done' = TRUE
    /\ UNCHANGED <<wf, reqs>>

\* (a request's name is the last element of reqs')
ANext ==
    \/ Open
    \/ \E i \in 1..Len(reqs') : Add(reqs'[i]) \/ Refuse(reqs'[i])
    \/ Stop

ASpec == AInit /\ [][ANext]_avars
=============================================================================
