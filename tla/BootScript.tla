----------------------------- MODULE BootScript -----------------------------
(***************************************************************************)
(* The Template Renderer of condor_client.py: the chain of str.replace     *)
(* calls that create_compute and provision_storage apply to a shape's      *)
(* postBootScript.  A script is abstracted to the tokens its template      *)
(* holds: each token of the template is a slot whose content is either    *)
(* the token itself (not yet replaced) or the value substituted for it.    *)
(* str.replace(old, new) rewrites every slot whose content equals old,     *)
(* which is exact as long as names and values are atoms (no value is a    *)
(* substring of another).                                                  *)
(***************************************************************************)
CONSTANTS
    None,       \* Python's None
    Template    \* the placeholder tokens the shapes' postBootScript holds

Tokens == {"WORKFLOW", "NODENAME", "SUBMIT", "IPADDR", "SUBNET",
           "REPLACEIP", "STORAGENODE", "CIDR", "SIP"}

ASSUME TemplateAssumption == Template \subseteq Tokens

\* A placeholder still present in the script text.
Tok(t) == [tok |-> t]

\* The workflow id substituted for WORKFLOW.
WorkflowId == [wf |-> "id"]

\* str(None), which create_compute substitutes for SUBMIT when there is no
\* submit subnet.
NoneText == [lit |-> "None"]

Str(v) == IF v = None THEN NoneText ELSE v

\* The postBootScript as read from the shape file.
FreshScript == [t \in Template |-> Tok(t)]

\* s.replace(old, new)
Replace(s, old, new) == [t \in DOMAIN s |-> IF s[t] = old THEN new ELSE s[t]]

\* if subnet != None: s = s.replace("SUBNET", subnet)
ReplaceSubnet(s, subnet) ==
    IF subnet # None THEN Replace(s, Tok("SUBNET"), subnet) ELSE s

\* provision_storage: the CIDR and SIP replacements done before
\* create_compute renders the storage node's script.
PrepStorage(s, cidr, sip) ==
    LET s1 == Replace(s, Tok("CIDR"), cidr)
    IN  IF sip # None THEN Replace(s1, Tok("SIP"), sip) ELSE s1

\* create_compute: the ordered replacements applied to mdata["postBootScript"].
Render(s, old, new, submitSubnet, forwardIP, ipStart, subnet, defIP, storagename) ==
    LET s1 == Replace(Replace(Replace(s, Tok("WORKFLOW"), WorkflowId),
                              old, new),
                      Tok("SUBMIT"), Str(submitSubnet))
        s2 == IF forwardIP # None
              THEN ReplaceSubnet(Replace(s1, Tok("IPADDR"), forwardIP), subnet)
              ELSE s1
        s3 == IF ipStart # None
              THEN ReplaceSubnet(Replace(s2, Tok("IPADDR"), ipStart), subnet)
              ELSE s2
        s4 == IF defIP # None THEN Replace(s3, Tok("REPLACEIP"), defIP) ELSE s3
    IN  IF storagename # None THEN Replace(s4, Tok("STORAGENODE"), storagename)
                              ELSE s4
=============================================================================
