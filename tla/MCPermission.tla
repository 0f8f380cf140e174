---------------------------- MODULE MCPermission ----------------------------
(* Instances of Permission for TLC: shell commands, which are asked for by    *)
(* default.                                                                   *)
EXTENDS Permission, TLC

CONSTANTS u1, u2, s1

MCCalls2 == {u1, u2}
MCSessions1 == {s1}
MCShell == {"bash"}
MCShellDefault == [t \in {"bash"} |-> "ask"]

\* Every tier is reached, and hides or is hidden by another one.
MCHits == {{}, {"allow_pattern"}, {"deny_pattern", "allow_pattern"},
           {"outside_cwd", "allow_pattern"}}
=============================================================================
