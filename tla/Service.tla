-------------------------------- MODULE Service --------------------------------
(***************************************************************************)
(* How the process comes to count anything: main loads the configuration,  *)
(* bootstrap.Validator looks at the configured interfaces, runtime.Service *)
(* loads the eBPF objects and has ebpf.AttachmentManager attach two        *)
(* programs to every interface, main then overwrites the service's status  *)
(* with the validator's result, and Stop detaches everything.  Interfaces  *)
(* may come and go between any two steps: every check and every attachment *)
(* may turn out either way, and an interface that is deleted takes its     *)
(* attachments with it, which nothing in the code notices.                 *)
(***************************************************************************)
EXTENDS Config, FiniteSets

CONSTANTS
  Files,      \* the configuration files main may be started with
  Loads       \* how LoadTrafficObjects may end, see below

(***************************************************************************)
(* "real": both programs are loaded; "mock": the object file is missing or *)
(* is a stub, and both programs are nil; "error": it returns an error.     *)
(***************************************************************************)
ASSUME LoadsAssumption ==
  /\ IsFiniteSet(Ifaces) /\ Ifaces # {}
  /\ \A f \in Files : f.values \in ConfigType
  /\ Loads \subseteq {"real", "mock", "error"}

VARIABLES
  file,          \* the configuration file
  cfg,           \* the Config that was parsed from it
  at,            \* where main is
  result,        \* bootstrap.StartupResult: mode and the interfaces that passed
  programs,      \* what was loaded, "none" before
  todo,          \* interfaces whose attachment Start or Stop has yet to do
  state,         \* ifaceStates: interface and direction -> AttachState
  hasLink,       \* ifaceStates: the directions whose Link is not nil
  live,          \* the attachments the kernel really has
  gone,          \* history: interfaces that were deleted with attachments
  failed,        \* the failed interfaces of Start
  status         \* Service.status

confVars == <<file, cfg>>

vars == <<confVars, at, result, programs, todo, state, hasLink, live, gone, failed,
          status>>

Directions == {"ingress", "egress"}

Attachments == Ifaces \X Directions

Modes == {"healthy", "degraded", "failed"}

Places == {"config", "validate", "load", "attach", "update", "running", "detach",
           "stopped", "exited"}

TypeOK ==
  /\ file \in Files
  /\ cfg \in ConfigType
  /\ at \in Places
  /\ result \in [mode : Modes, attached : SUBSET Ifaces]
  /\ programs \in {"none", "real", "mock"}
  /\ todo \subseteq Ifaces
  /\ state \in [Attachments -> {"", "attached", "failed", "detached"}]
  /\ hasLink \subseteq Attachments
  /\ live \subseteq Attachments
  /\ gone \subseteq Ifaces
  /\ failed \subseteq Ifaces
  /\ status \in [mode : Modes, attached : SUBSET Ifaces, failed : SUBSET Ifaces]

(* NewValidator, NewService and NewAttachmentManager *)
Init ==
  /\ file \in Files
  /\ cfg = New
  /\ at = "config"
  /\ result = [mode |-> "failed", attached |-> {}]
  /\ programs = "none"
  /\ todo = {}
  /\ state = [a \in Attachments |-> ""]
  /\ hasLink = {}
  /\ live = {}
  /\ gone = {}
  /\ failed = {}
  /\ status = [mode |-> "healthy", attached |-> {}, failed |-> {}]

(* The mode is not assigned where a partial failure is allowed. *)
MutModeFor(good, bad) ==
  IF good = {} /\ bad # {} THEN "failed"
  ELSE IF bad = {} THEN "healthy"
  ELSE IF cfg.allowPartial THEN "" ELSE "failed"

(* The mode for a run in which the interfaces in bad failed, as both the   *)
(* validator and Start decide it.                                          *)
ModeFor(good, bad) ==
  IF good = {} /\ bad # {} THEN "failed"
  ELSE IF bad = {} THEN "healthy"
  ELSE IF cfg.allowPartial THEN "degraded" ELSE "failed"

(* os.Exit(1), or the end of main: the kernel closes every link. *)
Exit ==
  /\ at' = "exited"
  /\ live' = {}

(* main loads and validates the configuration. *)
LoadConfig ==
  /\ at = "config"
  /\ cfg' = IF file.readable THEN Parse(file) ELSE New
  /\ at' = IF file.readable /\ ConfigValid(cfg') THEN "validate" ELSE "exited"
  /\ UNCHANGED <<file, result, programs, todo, state, hasLink, live, gone, failed, status>>

(* Validate: the capabilities, then existence and qdisc of every interface. *)
Validate(passed) ==
  /\ at = "validate"
  /\ result' = [mode |-> ModeFor(passed, Ifaces \ passed), attached |-> passed]
  /\ at' = IF result'.mode = "failed" THEN "exited" ELSE "load"
  /\ UNCHANGED <<confVars, programs, todo, state, hasLink, live, gone, failed, status>>

(* Start: memlock, the eBPF objects, SetCollection. *)
Load(how) ==
  /\ at = "load"
  /\ IF how = "error"
       THEN at' = "exited" /\ UNCHANGED <<programs, todo>>
       ELSE at' = "attach" /\ programs' = how /\ todo' = Ifaces
  /\ UNCHANGED <<confVars, result, state, hasLink, live, gone, failed, status>>

(* Start, mock mode: the interface is skipped, neither attached nor failed. *)
SkipIface(i) ==
  /\ at = "attach" /\ i \in todo
  /\ programs = "mock"
  /\ todo' = todo \ {i}
  /\ UNCHANGED <<confVars, at, result, programs, state, hasLink, live, gone, failed,
                 status>>

(* AttachIface: the interface no longer resolves to an index. *)
ResolveFails(i) ==
  /\ at = "attach" /\ i \in todo
  /\ programs = "real"
  /\ todo' = todo \ {i}
  /\ state' = [a \in Attachments |-> IF a[1] = i THEN "failed" ELSE state[a]]
  /\ failed' = failed \union {i}
  /\ UNCHANGED <<confVars, at, result, programs, hasLink, live, gone, status>>

(* An interface of which only one direction failed is not counted as failed. *)
MutAttachIface(i, ok) ==
  /\ at = "attach" /\ i \in todo
  /\ programs = "real"
  /\ todo' = todo \ {i}
  /\ state' = [a \in Attachments |->
       IF a[1] # i THEN state[a] ELSE IF a[2] \in ok THEN "attached" ELSE "failed"]
  /\ hasLink' = hasLink \union ({i} \X ok)
  /\ live' = live \union ({i} \X ok)
  /\ failed' = IF ok # {} THEN failed ELSE failed \union {i}
  /\ UNCHANGED <<confVars, at, result, programs, gone, status>>

(* AttachIface: the directions in ok are attached, the others fail.  One   *)
(* failed direction makes the interface failed, one attached direction     *)
(* makes it attached, and it may be both.                                  *)
AttachIface(i, ok) ==
  /\ at = "attach" /\ i \in todo
  /\ programs = "real"
  /\ todo' = todo \ {i}
  /\ state' = [a \in Attachments |->
       IF a[1] # i THEN state[a] ELSE IF a[2] \in ok THEN "attached" ELSE "failed"]
  /\ hasLink' = hasLink \union ({i} \X ok)
  /\ live' = live \union ({i} \X ok)
  /\ failed' = IF ok = Directions THEN failed ELSE failed \union {i}
  /\ UNCHANGED <<confVars, at, result, programs, gone, status>>

(* Start's list of attached interfaces, from the manager's states. *)
AttachedIfaces == {i \in Ifaces : \E d \in Directions : state[<<i, d>>] = "attached"}

(* Without the check for zero attachments. *)
MutStartEnd ==
  /\ at = "attach" /\ todo = {}
  /\ status' = [mode |-> IF failed = {} THEN "healthy"
                         ELSE IF cfg.allowPartial THEN "degraded" ELSE "failed",
                attached |-> AttachedIfaces, failed |-> failed]
  /\ IF status'.mode = "failed" THEN Exit ELSE at' = "update" /\ UNCHANGED live
  /\ UNCHANGED <<confVars, result, programs, todo, state, hasLink, gone, failed>>

(* The end of Start.  On an error main exits at once. *)
StartEnd ==
  /\ at = "attach" /\ todo = {}
  /\ status' = [mode |-> ModeFor(AttachedIfaces, failed),
                attached |-> AttachedIfaces, failed |-> failed]
  /\ IF status'.mode = "failed" THEN Exit ELSE at' = "update" /\ UNCHANGED live
  /\ UNCHANGED <<confVars, result, programs, todo, state, hasLink, gone, failed>>

(* main: svc.UpdateFromResult(result); the mode is the validator's, which  *)
(* is not failed here, so the check after it passes.                       *)
UpdateFromResult ==
  /\ at = "update"
  /\ status' = [mode |-> result.mode, attached |-> result.attached,
                failed |-> Ifaces \ result.attached]
  /\ at' = "running"
  /\ UNCHANGED <<confVars, result, programs, todo, state, hasLink, live, gone, failed>>

(* main calls svc.Stop(), which calls DetachAll. *)
Stop ==
  /\ at = "running"
  /\ at' = "detach"
  /\ todo' = {i \in Ifaces : \E d \in Directions : state[<<i, d>>] # ""}
  /\ UNCHANGED <<confVars, result, programs, state, hasLink, live, gone, failed, status>>

(* Only the first direction of an interface is closed. *)
MutDetachIface(i, errs) ==
  LET open == {a \in hasLink : a[1] = i /\ a[2] = "ingress" /\ state[a] = "attached"}
  IN  /\ at = "detach" /\ i \in todo
      /\ todo' = todo \ {i}
      /\ state' = [a \in Attachments |->
           IF a \notin open THEN state[a]
           ELSE IF a[2] \in errs THEN "failed" ELSE "detached"]
      /\ hasLink' = hasLink \ open
      /\ live' = live \ {a \in open : a[2] \notin errs}
      /\ UNCHANGED <<confVars, at, result, programs, gone, failed, status>>

(* DetachIface: both directions' links are closed and forgotten; closing   *)
(* those in errs fails, and the kernel still has them.                     *)
DetachIface(i, errs) ==
  LET open == {a \in hasLink : a[1] = i /\ state[a] = "attached"}
  IN  /\ at = "detach" /\ i \in todo
      /\ todo' = todo \ {i}
      /\ state' = [a \in Attachments |->
           IF a \notin open THEN state[a]
           ELSE IF a[2] \in errs THEN "failed" ELSE "detached"]
      /\ hasLink' = hasLink \ open
      /\ live' = live \ {a \in open : a[2] \notin errs}
      /\ UNCHANGED <<confVars, at, result, programs, gone, failed, status>>

(* The rest of svc.Stop(). *)
StopEnd ==
  /\ at = "detach" /\ todo = {}
  /\ state' = [a \in Attachments |-> IF state[a] = "" THEN "" ELSE "detached"]
  /\ hasLink' = {}
  /\ status' = [status EXCEPT !.mode = "failed", !.attached = {}]
  /\ at' = "stopped"
  /\ UNCHANGED <<confVars, result, programs, todo, live, gone, failed>>

MainReturns ==
  /\ at = "stopped"
  /\ Exit
  /\ UNCHANGED <<confVars, result, programs, todo, state, hasLink, gone, failed, status>>

(* An interface is deleted: the kernel detaches its programs.  The links   *)
(* and the states of the manager, and the status, stay as they are.        *)
IfaceGone(i) ==
  /\ \E a \in live : a[1] = i
  /\ live' = {a \in live : a[1] # i}
  /\ gone' = gone \union {i}
  /\ UNCHANGED <<confVars, at, result, programs, todo, state, hasLink, failed, status>>

(* Everything up to the running service. *)
Boot ==
  \/ LoadConfig
  \/ \E passed \in SUBSET Ifaces : Validate(passed)
  \/ \E how \in Loads : Load(how)
  \/ \E i \in Ifaces : SkipIface(i) \/ ResolveFails(i)
  \/ \E i \in Ifaces, ok \in SUBSET Directions : AttachIface(i, ok)
  \/ StartEnd
  \/ UpdateFromResult

(* svc.Stop() after it was called. *)
Detach ==
  \/ \E i \in Ifaces, errs \in SUBSET Directions : DetachIface(i, errs)
  \/ StopEnd

(* main ends while the service runs: the database, one of the loops, or a  *)
(* panic, see Health.                                                      *)
MainFails ==
  /\ at = "running"
  /\ Exit
  /\ UNCHANGED <<confVars, result, programs, todo, state, hasLink, gone, failed, status>>

Next ==
  \/ Boot
  \/ Stop
  \/ Detach
  \/ MainReturns
  \/ MainFails
  \/ \E i \in Ifaces : IfaceGone(i)

Spec == Init /\ [][Next]_vars

-------------------------------------------------------------------------------
(***************************************************************************)
(* With allow_partial=false a daemon that runs on real programs counts     *)
(* both directions of every configured interface, but for those that were  *)
(* deleted after their attachment: what changes between the validator's    *)
(* checks and the attachments cannot slip through.                         *)
(***************************************************************************)
StrictMeansComplete ==
  at = "running" /\ ~cfg.allowPartial /\ programs = "real" =>
    \A a \in Attachments : a \in live \/ a[1] \in gone

(***************************************************************************)
(* The daemon never gets to run on real programs with nothing attached,    *)
(* even when every interface vanishes after the validator has passed it.   *)
(* Later it may, when what was attached is deleted.                        *)
(***************************************************************************)
RunningCountsSomething ==
  at = "running" /\ programs = "real" => live # {} \/ gone # {}

(***************************************************************************)
(* No attachment is out of the manager's reach before Stop has tried to    *)
(* close it: it is a link in the manager's books.  A Stop whose closes     *)
(* succeed leaves no program on any interface; a link that fails to close  *)
(* is dropped from the books and lasts until the process ends.             *)
(***************************************************************************)
NoLinkLeaks ==
  /\ at \in {"attach", "update", "running"} =>
       \A a \in live : a \in hasLink /\ state[a] = "attached"
  /\ at = "detach" => \A a \in live : a \in hasLink \/ state[a] = "failed"
  /\ at = "detach" /\ todo = {} => hasLink = {}

(***************************************************************************)
(* README.md: healthy means that all configured interfaces are attached,   *)
(* leaving aside the ones that were deleted since.                         *)
(***************************************************************************)
HealthyMeansAllAttached ==
  at = "running" /\ status.mode = "healthy" =>
    \A i \in Ifaces \ gone : \E d \in Directions : <<i, d>> \in live

(***************************************************************************)
(* README.md: allow_partial true allows degraded mode when some interfaces *)
(* fail to attach.  A file that asks for it never makes a start fail when  *)
(* some interface passed the checks.                                       *)
(***************************************************************************)
AllowPartialHonoured ==
  file.values.allowPartial /\ result.attached # {} => result.mode # "failed"

-------------------------------------------------------------------------------
(* The inductive invariant behind the properties above. *)

(* Before Start attaches anything. *)
NothingYet ==
  at \in {"config", "validate", "load"} =>
    /\ live = {} /\ hasLink = {} /\ failed = {} /\ gone = {}
    /\ \A a \in Attachments : state[a] = ""

(* Until Stop the links and the states agree, and the kernel has what they *)
(* say but for the interfaces that were deleted.                           *)
BooksMatch ==
  at \in {"attach", "update", "running"} =>
    \A a \in Attachments :
      /\ a \in hasLink <=> state[a] = "attached"
      /\ a \in live <=> a \in hasLink /\ a[1] \notin gone

(* Start goes through the interfaces: one it has yet to come to has        *)
(* nothing attached, one that is done has both directions or is failed.    *)
AttachProgress ==
  at = "attach" =>
    /\ todo \intersect gone = {}
    /\ \A i \in Ifaces, d \in Directions :
         IF i \in todo THEN <<i, d>> \notin hasLink
         ELSE programs = "real" /\ i \notin failed => <<i, d>> \in hasLink

(* What Start lets pass. *)
StartedWell ==
  at \in {"update", "running"} /\ programs = "real" =>
    /\ hasLink # {}
    /\ ~cfg.allowPartial => hasLink = Attachments

(* Stop goes through the interfaces: every link that is left belongs to    *)
(* one it has yet to come to.                                              *)
DetachProgress ==
  at = "detach" =>
    /\ \A a \in hasLink : a[1] \in todo /\ state[a] = "attached"
    /\ \A a \in live : a \in hasLink \/ state[a] = "failed"

ServiceInv ==
  /\ TypeOK
  /\ NothingYet
  /\ BooksMatch
  /\ AttachProgress
  /\ StartedWell
  /\ DetachProgress

==============================================================================
