------------------------ MODULE RequirementExtractor ------------------------
(***************************************************************************)
(* taintforge_env/requirement_extractor.py as operators: what the          *)
(* artifacts of one run say about the environment the guest needs.  A path *)
(* is what the guest wrote: its leading slashes, its components and        *)
(* whether it is tidy (no repeated slash and no `.' inside).  Every other  *)
(* resource is a name.  Confidences are left out: the extractor always     *)
(* passes 1.0.                                                             *)
(***************************************************************************)
EXTENDS Naturals, SequencesExt

AbsPath(parts) == [root |-> "/", tidy |-> TRUE, parts |-> parts]
Name(n) == [root |-> "", tidy |-> TRUE, parts |-> <<n>>]
RootPath == AbsPath(<<>>)

DirectoryCreateSyscalls == {"mkdir"}
ExecSyscalls == {"execve"}
PathExistsSyscalls == {"open", "creat", "stat", "unlink", "rmdir"}
NetworkSyscalls == {"connect", "sendto"}  \* their events have no path
NetworkFailureErrnos == {"ECONNREFUSED", "ETIMEDOUT"}
\* The calls that carry O_CREAT or another write flag; the flags are not part of a
\* call's name.
Creating(event) == event.syscall = "creat"
SyscallName(call) == IF call = "creat" THEN "open" ELSE call

\* The length of the window behind an event that _blocking_after looks at.
TerminalFailureWindow == 6

\* _parent_directory: PurePosixPath tidies the rest of the path, and the
\* parent of a relative name becomes the root.
ParentDirectory(p) ==
  IF Len(p.parts) <= 1
    THEN IF p.root = "" THEN RootPath ELSE [p EXCEPT !.parts = <<>>, !.tidy = TRUE]
    ELSE [p EXCEPT !.parts = Front(p.parts), !.tidy = TRUE]

IsDevice(p) == p.root = "/" /\ p.parts # <<>> /\ p.parts[1] = "dev"

-----------------------------------------------------------------------------
(* Blocking                                                                *)

EndsIn(events, first, last) ==
  SelectSeq(SubSeq(events, first, IF last < Len(events) THEN last ELSE Len(events)),
            LAMBDA e : e.event \in {"signal", "process_exit"})

Assessment(ends) ==
  IF ends = <<>> THEN "unknown"
  ELSE IF Head(ends).event = "process_exit" /\ Head(ends).code = 0 THEN "possible"
  ELSE "likely"

\* _blocking_after: how the guest ended soon after the event, if it did.
BlockingAfter(events, i) == Assessment(EndsIn(events, i + 1, i + TerminalFailureWindow))

-----------------------------------------------------------------------------
(* One claim per call of _add                                              *)

Claim(kind, operation, resource, status, blocking, repairable, errno) ==
  [key |-> [kind |-> kind, operation |-> operation, resource |-> resource],
   status |-> status, blocking |-> blocking, repairable |-> repairable, errno |-> errno]

\* The branch ENOENT of _extract_path_event.
MissingPath(event, blocking) ==
  IF event.syscall \in DirectoryCreateSyscalls \/ Creating(event)
    THEN Claim("filesystem", "directory_exists", ParentDirectory(event.path),
               "unmet", blocking, TRUE, event.errno)
  ELSE IF event.syscall \in ExecSyscalls
    THEN Claim("execution", "executable_available", event.path, "unmet", "likely", TRUE, event.errno)
  ELSE Claim(IF IsDevice(event.path) THEN "device" ELSE "filesystem", "path_exists", event.path,
             "unmet", blocking, TRUE, event.errno)

HandlesMissing(event) ==
  \/ event.syscall \in DirectoryCreateSyscalls \cup ExecSyscalls \cup PathExistsSyscalls
  \/ Creating(event)

\* _extract_path_event: at most one claim per event.
PathClaims(event, blocking) ==
  LET unmet(kind, operation, repairable) ==
        <<Claim(kind, operation, event.path, "unmet", blocking, repairable, event.errno)>>
      place == IF IsDevice(event.path) THEN "device" ELSE "filesystem"
  IN  CASE event.errno = "ENOENT" /\ HandlesMissing(event) -> <<MissingPath(event, blocking)>>
        [] event.errno \in {"EACCES", "EPERM"} -> unmet("filesystem", "path_access", TRUE)
        [] event.errno = "EROFS" -> unmet("filesystem", "path_writable", TRUE)
        [] event.errno = "ENOTDIR" -> unmet("filesystem", "valid_path_layout", TRUE)
        [] event.errno \in {"ENODEV", "ENXIO"} ->
             unmet(place, "device_or_backend_available", place = "device")
        [] event.errno = "" /\ Creating(event) ->
             <<Claim("filesystem", "path_writable", event.path, "provided", "unknown", TRUE, "")>>
        [] OTHER -> <<>>

\* _extract_syscall_requirements for the event at i.
EventClaims(events, i) ==
  LET event == events[i]
      blocking == BlockingAfter(events, i)
  IN  CASE event.event = "signal" ->
             <<Claim("execution", "avoid_fatal_signal", Name("signal"), "unmet", "likely", FALSE, "")>>
        [] event.event = "syscall" ->
             (IF event.errno = "ENOSYS"
                THEN <<Claim("syscall", "kernel_or_qemu_support", Name(SyscallName(event.syscall)),
                             "unmet", blocking, FALSE, event.errno)>>
                ELSE <<>>)
             \o (IF event.syscall \in NetworkSyscalls THEN <<>> ELSE PathClaims(event, blocking))
             \o (IF event.syscall = "connect" /\ event.errno \in NetworkFailureErrnos
                   THEN <<Claim("network", "connect", event.path, "unmet", blocking, TRUE, event.errno)>>
                   ELSE <<>>)
        [] OTHER -> <<>>

\* _extract_network_requirements: a connection or a datagram is provided when
\* it was answered.
NetworkClaims(net) ==
  LET claim(n) == Claim("network", net[n].operation, net[n].endpoint,
                        IF net[n].answered THEN "provided" ELSE "unknown", "unknown", TRUE, "")
  IN  [n \in 1 .. Len(net) |-> claim(n)]

\* _extract_loader_requirements
LoaderClaims(stderr) ==
  [n \in 1 .. Len(stderr) |->
     Claim("library", IF stderr[n] = "ld.so" THEN "interpreter_available" ELSE "library_available",
           Name(stderr[n]), "unmet", "likely", TRUE, "ENOENT")]

\* _extract_rootfs_requirements: what was created or modified, directories
\* with a new time stamp only left out.
DiffClaims(diff) ==
  LET paths == SetToSeq(diff)
  IN  [n \in 1 .. Len(paths) |->
         Claim("filesystem", "path_writable", AbsPath(paths[n]), "provided", "unknown", TRUE, "")]

-----------------------------------------------------------------------------
(* _add                                                                    *)

StatusRank == [unknown |-> 0, provided |-> 1, unmet |-> 2]
BlockingRank == [unlikely |-> 0, unknown |-> 1, possible |-> 2, likely |-> 3]

\* _merge_status
MergeStatus(current, incoming) ==
  IF StatusRank[current] >= StatusRank[incoming] THEN current ELSE incoming

\* _merge_blocking
MergeBlocking(current, incoming) ==
  IF BlockingRank[current] >= BlockingRank[incoming] THEN current ELSE incoming

Requirement(claim) ==
  [status |-> claim.status, blocking |-> claim.blocking,
   repairable |-> claim.repairable, errno |-> claim.errno]

Merged(r, claim) ==
  [status |-> MergeStatus(r.status, claim.status),
   blocking |-> MergeBlocking(r.blocking, claim.blocking),
   repairable |-> r.repairable \/ claim.repairable,
   errno |-> IF r.errno = "" THEN claim.errno ELSE r.errno]

Add(reqs, claim) ==
  [k \in DOMAIN reqs \cup {claim.key} |->
     IF k # claim.key THEN reqs[k]
     ELSE IF k \in DOMAIN reqs THEN Merged(reqs[k], claim)
     ELSE Requirement(claim)]

-----------------------------------------------------------------------------
\* Mutant: the events of the emulator are taken for the guest's.
SelectAllEvents(events) == events

\* _select_syscall_events
SelectSyscallEvents(events) ==
  FoldLeft(LAMBDA kept, e : IF e.context = "guest" THEN Append(kept, e) ELSE kept, <<>>, events)

\* The calls of _add of one extraction, in order.
Claims(bundle) ==
  LET events == SelectSyscallEvents(bundle.events)
  IN  FlattenSeq([i \in 1 .. Len(events) |-> EventClaims(events, i)])
      \o NetworkClaims(bundle.net) \o LoaderClaims(bundle.stderr) \o DiffClaims(bundle.diff)

\* extract: the requirements of the report, by key.
Extract(bundle) == FoldLeft(Add, [k \in {} |-> {}], Claims(bundle))
=============================================================================
