------------------------------ MODULE MCHosts ------------------------------
EXTENDS Hosts

CONSTANTS m1, m2, b1

\* Two machines compete for one host row.
Race == {"fresh", "drop"}
\* Both clients refresh while JWTs expire.
Rotate == {"expire", "callback"}
RotateCrash == {"expire", "callback", "crash"}
RotateLost == {"expire", "drop", "monitor"}
\* The control plane cannot be reached for a while.
Outage == {"fail", "place", "monitor"}
\* The host is deleted while a capsule is placed on it.
Remove == {"delete", "place", "monitor"}
RemoveForced == {"delete", "force", "place", "drop", "expire"}

\* The row is deleted while a machine registers for it.
RemovePending == {"fresh", "delete"}

AllMixes == {Race, RemovePending, Rotate, RotateCrash, RotateLost, Outage, Remove, RemoveForced}
RotateOnly == {Rotate}
DeleteOnly == {{"delete", "force", "drop"}}
=============================================================================
