------------------------------ MODULE MCSystemDns ------------------------------
(***************************************************************************)
(* Instances of SystemDns for TLC: two services, and the sets of faults     *)
(* under which its properties are checked.                                  *)
(***************************************************************************)
EXTENDS SystemDns

MCNone == {{}}
MCFailures == {{"networksetup"}}
MCToggles == {{"toggle"}}

\* The largest sets of faults that OwnershipIsRecorded, ResolverIsKept and
\* AbandonedIsRestored allow, and two that ManualIsKept allows.
MCEnvironments ==
  { {"edit", "race", "config", "crash", "kill"},
    {"edit", "race", "crash", "kill"},
    {"edit", "race", "config", "kill"},
    Faults \ {"edit", "race", "overlap"},
    {"edit", "kill", "orphan", "overlap", "crash"} }
=============================================================================
