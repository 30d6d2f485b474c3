---------------------------- MODULE RepairPlanner ----------------------------
(***************************************************************************)
(* taintforge_env/repair_planner.py as operators: which requirement        *)
(* becomes which decision.  Reasons, risks and parameters are left out,    *)
(* and so is the order of the plan, which the applier's result does not    *)
(* depend on.                                                              *)
(***************************************************************************)
EXTENDS RequirementExtractor

PseudoNames == {"proc", "sys", "dev"}

\* _validate_guest_path returns None.
ValidGuestPath(p) ==
  /\ p.root # ""
  /\ \A n \in 1 .. Len(p.parts) : p.parts[n] # ".."
  /\ p.tidy
  /\ p = RootPath \/ p.parts # <<>>

\* _is_pseudo_filesystem_path compares strings: a path with two leading
\* slashes has none of the prefixes.
IsPseudoPath(p) == p.root = "/" /\ p.parts # <<>> /\ p.parts[1] \in PseudoNames

\* _priority_from_blocking
PriorityFromBlocking ==
  [likely |-> "critical", possible |-> "high", unknown |-> "normal", unlikely |-> "low"]

\* _plan_filesystem behind the check of the path: action and disposition.
FilesystemRule(k, r) ==
  IF k.operation = "directory_exists" THEN
    IF k.resource = RootPath \/ IsPseudoPath(k.resource) THEN <<"create_directory", "manual_analysis">>
    ELSE IF r.status = "unmet" THEN <<"create_directory", "auto_candidate">>
    ELSE <<"create_directory", "review_required">>
  ELSE CASE k.operation = "path_exists" -> <<"provide_file", "review_required">>
         [] k.operation = "path_access" -> <<"adjust_path_access", "review_required">>
         [] k.operation = "path_writable" -> <<"make_path_writable", "review_required">>
         [] k.operation = "valid_path_layout" -> <<"repair_path_layout", "manual_analysis">>
         [] OTHER -> <<"none", "manual_analysis">>

\* _plan_network: reaching a service is not being served by it.
NetworkRule(k) ==
  IF k.operation = "connect" THEN <<"configure_tcp_service", "review_required">>
  ELSE <<"configure_udp_service", "review_required">>

\* _plan_library
LibraryRule(k) ==
  IF k.operation = "interpreter_available" THEN <<"provide_interpreter", "review_required">>
  ELSE <<"resolve_library", "review_required">>

\* _plan_execution
ExecutionRule(k) ==
  IF k.operation = "executable_available" THEN <<"provide_executable", "review_required">>
  ELSE <<"none", "manual_analysis">>

\* _plan_requirement: action and disposition.  A network requirement is never
\* settled by a connection alone (_needs_semantic_network_review).
Rule(k, r) ==
  IF r.status = "provided" /\ k.kind # "network" THEN <<"none", "not_required">>
  ELSE IF ~r.repairable \/ (k.kind = "filesystem" /\ ~ValidGuestPath(k.resource))
    THEN <<"none", "manual_analysis">>
  ELSE CASE k.kind = "filesystem" -> FilesystemRule(k, r)
         [] k.kind = "device" -> <<"provide_device_backend", "manual_analysis">>
         [] k.kind = "network" -> NetworkRule(k)
         [] k.kind = "library" -> LibraryRule(k)
         [] k.kind = "execution" -> ExecutionRule(k)
         [] OTHER -> <<"none", "manual_analysis">>

PlanRequirement(k, r) ==
  [key |-> k, action |-> Rule(k, r)[1], disposition |-> Rule(k, r)[2],
   priority |-> IF Rule(k, r)[2] = "not_required" THEN "low" ELSE PriorityFromBlocking[r.blocking],
   automatic |-> Rule(k, r)[2] = "auto_candidate"]

\* plan
Plan(reqs) == {PlanRequirement(k, reqs[k]) : k \in DOMAIN reqs}
=============================================================================
