------------------------------- MODULE IpAddr -------------------------------
(***************************************************************************)
(* The Address Allocator of condor_client.py: the helpers that split a     *)
(* dotted quad at its dots and rewrite its last octet.  The first three    *)
(* octets are abstracted to a network identifier (they are never touched   *)
(* by the code); the last octet is the integer the code computes with,     *)
(* unbounded, because str(int(octets[3]) + 1) never wraps or fails.         *)
(***************************************************************************)
EXTENDS Naturals

\* A dotted quad: network part and last octet.
Addr(net, h) == [net |-> net, last |-> h]

\* is_valid_ipv4_address: inet_pton accepts four decimal octets <= 255.
\* The network part comes from a validated address, so only the last octet
\* can be out of range.
IsValidIpv4(a) == a.last <= 255

\* can_ip_satisfy_range: the address n past ip is still a valid address.
CanIpSatisfyRange(a, n) == IsValidIpv4(Addr(a.net, a.last + n))

\* get_cidr / get_cidr_escape: last octet replaced by '0/24' or '0\/24'.
GetCidr(a) == [cidr |-> a.net, escaped |-> FALSE]
GetCidrEscape(a) == [cidr |-> a.net, escaped |-> TRUE]

\* get_default_ip_for_condor: last octet replaced by '*'.
GetDefaultIpForCondor(a) == [anyhost |-> a.net]

\* get_next_ip: last octet plus one, with no upper limit.
GetNextIp(a) == Addr(a.net, a.last + 1)
=============================================================================
