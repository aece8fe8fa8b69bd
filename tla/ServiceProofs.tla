----------------------------- MODULE ServiceProofs -----------------------------
(***************************************************************************)
(* Proofs about Service, for every set of interfaces and every set of      *)
(* configuration files.                                                    *)
(***************************************************************************)
EXTENDS Service, TLAPS

LEMMA NewType == New \in ConfigType
  BY DefaultsAssumption DEF New, ConfigType

(* What a file makes of the defaults has the type of a configuration. *)
LEMMA ParseType ==
  ASSUME NEW f \in Files
  PROVE  Parse(f) \in ConfigType
<1>1. f.values \in ConfigType
  BY LoadsAssumption
<1>2. New \in ConfigType
  BY NewType
<1>3. /\ Field(f, "interfaces") \in {{}, Ifaces}
      /\ Field(f, "flushInterval") \in Int
      /\ Field(f, "housekeepingInterval") \in Int
      /\ Field(f, "allowPartial") \in BOOLEAN
      /\ Field(f, "others") \in {"ok", "bad"}
  BY <1>1, <1>2 DEF Field, ConfigType
<1> QED BY <1>3 DEF Parse, ConfigType

LEMMA ModeForType ==
  ASSUME NEW good, NEW bad
  PROVE  ModeFor(good, bad) \in Modes
  BY DEF ModeFor, Modes

LEMMA ServiceTypeStep ==
  ASSUME TypeOK, [Next]_vars
  PROVE  TypeOK'
<1> USE DEF TypeOK, Places, confVars
<1>1. CASE LoadConfig
  <2>1. cfg' \in ConfigType
    BY <1>1, ParseType, NewType DEF LoadConfig
  <2> QED BY <1>1, <2>1 DEF LoadConfig
<1>2. ASSUME NEW passed \in SUBSET Ifaces, Validate(passed) PROVE TypeOK'
  BY <1>2, ModeForType DEF Validate
<1>3. ASSUME NEW how \in Loads, Load(how) PROVE TypeOK'
  BY <1>3, LoadsAssumption DEF Load
<1>4. ASSUME NEW i \in Ifaces, SkipIface(i) \/ ResolveFails(i) PROVE TypeOK'
  BY <1>4 DEF SkipIface, ResolveFails
<1>5. ASSUME NEW i \in Ifaces, NEW ok \in SUBSET Directions, AttachIface(i, ok)
      PROVE  TypeOK'
  BY <1>5 DEF AttachIface, Attachments
<1>6. CASE StartEnd
  BY <1>6, ModeForType DEF StartEnd, AttachedIfaces, Exit
<1>7. CASE UpdateFromResult
  BY <1>7 DEF UpdateFromResult
<1>8. CASE Stop
  BY <1>8 DEF Stop
<1>9. ASSUME NEW i \in Ifaces, NEW errs \in SUBSET Directions, DetachIface(i, errs)
      PROVE  TypeOK'
  BY <1>9 DEF DetachIface
<1>10. CASE StopEnd
  BY <1>10 DEF StopEnd, Modes
<1>11. CASE MainReturns \/ MainFails
  BY <1>11 DEF MainReturns, MainFails, Exit
<1>12. ASSUME NEW i \in Ifaces, IfaceGone(i) PROVE TypeOK'
  BY <1>12 DEF IfaceGone
<1>13. CASE UNCHANGED vars
  BY <1>13 DEF vars
<1> HIDE DEF TypeOK
<1> QED
  BY <1>1, <1>2, <1>3, <1>4, <1>5, <1>6, <1>7, <1>8, <1>9, <1>10, <1>11, <1>12, <1>13
     DEF Next, Boot, Detach

(* No interface is reached twice by Start, and what it reaches is attached *)
(* or failed.                                                              *)
LEMMA AttachStep ==
  ASSUME ServiceInv, NEW i \in Ifaces, NEW ok \in SUBSET Directions, AttachIface(i, ok)
  PROVE  BooksMatch' /\ AttachProgress'
<1>1. /\ at = "attach" /\ at' = at /\ i \in todo /\ todo' = todo \ {i}
      /\ live' = live \union ({i} \X ok) /\ hasLink' = hasLink \union ({i} \X ok)
      /\ failed' = IF ok = Directions THEN failed ELSE failed \union {i}
      /\ programs' = programs /\ gone' = gone
      /\ state' = [a \in Attachments |->
           IF a[1] # i THEN state[a] ELSE IF a[2] \in ok THEN "attached" ELSE "failed"]
  BY DEF AttachIface
<1>2. /\ \A a \in Attachments : /\ a \in hasLink <=> state[a] = "attached"
                                /\ a \in live <=> a \in hasLink /\ a[1] \notin gone
      /\ i \notin gone /\ todo \intersect gone = {}
      /\ \A j \in Ifaces, d \in Directions :
           IF j \in todo THEN <<j, d>> \notin hasLink
           ELSE programs = "real" /\ j \notin failed => <<j, d>> \in hasLink
  BY <1>1 DEF ServiceInv, BooksMatch, AttachProgress
<1>3. \A j \in Ifaces, d \in Directions :
        /\ <<j, d>> \in live' <=> <<j, d>> \in live \/ (j = i /\ d \in ok)
        /\ <<j, d>> \in hasLink' <=> <<j, d>> \in hasLink \/ (j = i /\ d \in ok)
  BY <1>1
<1>4. AttachProgress'
  <2>1. todo' \intersect gone' = {}
    BY <1>1, <1>2
  <2> SUFFICES ASSUME NEW j \in Ifaces, NEW d \in Directions
               PROVE  IF j \in todo' THEN <<j, d>> \notin hasLink'
                      ELSE programs' = "real" /\ j \notin failed' => <<j, d>> \in hasLink'
    BY <2>1 DEF AttachProgress
  <2>2. CASE j = i
    <3>1. j \notin todo'
      BY <1>1, <2>2
    <3>2. j \notin failed' => d \in ok
      BY <1>1, <2>2
    <3> QED BY <1>3, <2>2, <3>1, <3>2
  <2>3. CASE j # i
    <3>1. (j \in todo' <=> j \in todo) /\ (j \in failed' <=> j \in failed)
      BY <1>1, <2>3
    <3>2. <<j, d>> \in hasLink' <=> <<j, d>> \in hasLink
      BY <1>3, <2>3
    <3> QED BY <1>1, <1>2, <3>1, <3>2
  <2> QED BY <2>2, <2>3
<1>5. ASSUME NEW a \in Attachments
      PROVE  /\ a \in hasLink' <=> state'[a] = "attached"
             /\ a \in live' <=> a \in hasLink' /\ a[1] \notin gone'
  <2>1. PICK j \in Ifaces, d \in Directions : a = <<j, d>>
    BY DEF Attachments
  <2>2. state'[a] = IF j # i THEN state[a] ELSE IF d \in ok THEN "attached" ELSE "failed"
    BY <1>1, <2>1
  <2>3. /\ a \in hasLink <=> state[a] = "attached"
        /\ a \in live <=> a \in hasLink /\ j \notin gone
    BY <1>2, <2>1
  <2>4. CASE j = i
    BY <1>1, <1>2, <1>3, <2>1, <2>2, <2>3, <2>4
  <2>5. CASE j # i
    BY <1>1, <1>3, <2>1, <2>2, <2>3, <2>5
  <2> QED BY <2>4, <2>5
<1>6. BooksMatch'
  BY <1>5 DEF BooksMatch
<1> QED BY <1>4, <1>6

(* What Start does not refuse has a link, and all of them where nothing    *)
(* may be missing.                                                         *)
LEMMA StartEndStep ==
  ASSUME ServiceInv, StartEnd, at' = "update", programs = "real"
  PROVE  hasLink # {} /\ (~cfg.allowPartial => hasLink = Attachments)
<1>1. /\ at = "attach" /\ todo = {}
      /\ ModeFor(AttachedIfaces, failed) # "failed"
  BY DEF StartEnd, Exit
<1>2. \A a \in Attachments : a \in hasLink <=> state[a] = "attached"
  BY <1>1 DEF ServiceInv, BooksMatch
<1>3. \A i \in Ifaces, d \in Directions : i \notin failed => <<i, d>> \in hasLink
  BY <1>1 DEF ServiceInv, AttachProgress
<1>4. CASE failed = {}
  <2>1. Attachments \subseteq hasLink
    BY <1>3, <1>4 DEF Attachments
  <2>2. PICK i \in Ifaces : TRUE
    BY LoadsAssumption
  <2>3. <<i, "ingress">> \in Attachments
    BY <2>2 DEF Attachments, Directions
  <2> QED BY <2>1, <2>3 DEF ServiceInv, TypeOK
<1>5. CASE failed # {}
  <2>1. AttachedIfaces # {} /\ cfg.allowPartial
    BY <1>1, <1>5 DEF ModeFor
  <2>2. hasLink # {}
    BY <1>2, <2>1 DEF AttachedIfaces, Attachments
  <2> QED BY <2>1, <2>2
<1> QED BY <1>4, <1>5

(* Every link is in the states that Stop goes through. *)
LEMMA StopStep ==
  ASSUME ServiceInv, Stop
  PROVE  DetachProgress'
<1>1. /\ at = "running"
      /\ todo' = {i \in Ifaces : \E d \in Directions : state[<<i, d>>] # ""}
      /\ UNCHANGED <<state, hasLink, live>>
  BY DEF Stop
<1>2. /\ live \subseteq Attachments /\ hasLink \subseteq Attachments
      /\ \A a \in Attachments : /\ a \in hasLink <=> state[a] = "attached"
                                /\ a \in live => a \in hasLink
  BY <1>1 DEF ServiceInv, BooksMatch, TypeOK
<1>3. ASSUME NEW a \in hasLink PROVE a[1] \in todo' /\ state[a] = "attached"
  <2>1. PICK i \in Ifaces, d \in Directions : a = <<i, d>>
    BY <1>2 DEF Attachments
  <2>2. state[<<i, d>>] = "attached"
    BY <1>2, <2>1
  <2> QED BY <1>1, <2>1, <2>2
<1> QED BY <1>1, <1>2, <1>3 DEF DetachProgress

(* An interface that is deleted takes its attachments from the kernel and  *)
(* none from the books.                                                    *)
LEMMA IfaceGoneKeeps ==
  ASSUME ServiceInv, NEW i \in Ifaces, IfaceGone(i)
  PROVE  /\ NothingYet' /\ BooksMatch' /\ AttachProgress'
         /\ StartedWell' /\ DetachProgress'
<1>1. /\ live' = {a \in live : a[1] # i} /\ gone' = gone \union {i}
      /\ UNCHANGED <<cfg, at, programs, todo, state, hasLink, failed>>
      /\ live # {} /\ live \subseteq Attachments
  BY DEF IfaceGone, confVars, ServiceInv, TypeOK
<1>2. PICK a \in live : a[1] = i
  BY DEF IfaceGone
<1>3. PICK d \in Directions : a = <<i, d>>
  BY <1>1, <1>2 DEF Attachments
<1>4. NothingYet'
  BY <1>1 DEF ServiceInv, NothingYet
<1>5. BooksMatch'
  BY <1>1 DEF ServiceInv, BooksMatch
<1>6. ASSUME at = "attach" PROVE i \notin todo
  BY <1>2, <1>3, <1>6 DEF ServiceInv, BooksMatch, AttachProgress, Attachments
<1>7. AttachProgress'
  BY <1>1, <1>6 DEF ServiceInv, AttachProgress
<1>8. StartedWell' /\ DetachProgress'
  BY <1>1 DEF ServiceInv, StartedWell, DetachProgress
<1> QED BY <1>4, <1>5, <1>7, <1>8

LEMMA DetachIfaceStep ==
  ASSUME ServiceInv, NEW i \in Ifaces, NEW errs \in SUBSET Directions,
         DetachIface(i, errs)
  PROVE  DetachProgress'
<1> DEFINE open == {a \in hasLink : a[1] = i /\ state[a] = "attached"}
<1>1. /\ at = "detach" /\ todo' = todo \ {i}
      /\ state' = [a \in Attachments |->
           IF a \notin open THEN state[a]
           ELSE IF a[2] \in errs THEN "failed" ELSE "detached"]
      /\ hasLink' = hasLink \ open
      /\ live' = live \ {a \in open : a[2] \notin errs}
  BY DEF DetachIface
<1>2. /\ hasLink \subseteq Attachments /\ live \subseteq Attachments
      /\ \A a \in hasLink : a[1] \in todo /\ state[a] = "attached"
      /\ \A a \in live : a \in hasLink \/ state[a] = "failed"
  BY <1>1 DEF ServiceInv, TypeOK, DetachProgress
<1> HIDE DEF open
<1>3. \A a \in hasLink : a \notin open => a[1] # i
  BY <1>2 DEF open
<1>4. \A a \in hasLink' : a[1] \in todo' /\ state'[a] = "attached"
  BY <1>1, <1>2, <1>3
<1>5. \A a \in live' : a \in hasLink' \/ state'[a] = "failed"
  BY <1>1, <1>2
<1> QED BY <1>4, <1>5 DEF DetachProgress

LEMMA ServiceStep ==
  ASSUME ServiceInv, [Next]_vars
  PROVE  ServiceInv'
<1> DEFINE Inv == NothingYet /\ BooksMatch /\ AttachProgress /\ StartedWell /\ DetachProgress
<1>0. TypeOK'
  BY ServiceTypeStep DEF ServiceInv
<1> SUFFICES Inv'
  BY <1>0 DEF ServiceInv
<1> USE DEF NothingYet, BooksMatch, AttachProgress, StartedWell, DetachProgress, confVars
<1>1. CASE LoadConfig
  BY <1>1 DEF ServiceInv, LoadConfig
<1>2. ASSUME NEW passed \in SUBSET Ifaces, Validate(passed) PROVE Inv'
  BY <1>2 DEF ServiceInv, Validate
<1>3. ASSUME NEW how \in Loads, Load(how) PROVE Inv'
  BY <1>3 DEF ServiceInv, Load
<1>4. ASSUME NEW i \in Ifaces, SkipIface(i) PROVE Inv'
  BY <1>4 DEF ServiceInv, SkipIface
<1>5. ASSUME NEW i \in Ifaces, ResolveFails(i) PROVE Inv'
  <2>1. /\ at = "attach" /\ at' = at /\ i \in todo /\ todo' = todo \ {i}
        /\ live' = live /\ hasLink' = hasLink /\ failed' = failed \union {i}
        /\ programs' = programs /\ gone' = gone
        /\ state' = [a \in Attachments |-> IF a[1] = i THEN "failed" ELSE state[a]]
    BY <1>5 DEF ResolveFails
  <2>2. \A d \in Directions : <<i, d>> \notin hasLink
    BY <2>1 DEF ServiceInv
  <2>3. \A a \in Attachments : a[1] = i => a \notin hasLink
    BY <2>2 DEF Attachments
  <2>4. BooksMatch'
    BY <2>1, <2>3 DEF ServiceInv
  <2>5. AttachProgress'
    BY <2>1, <2>2 DEF ServiceInv
  <2> QED BY <2>1, <2>4, <2>5
<1>6. ASSUME NEW i \in Ifaces, NEW ok \in SUBSET Directions, AttachIface(i, ok)
      PROVE  Inv'
  <2>1. BooksMatch' /\ AttachProgress'
    BY <1>6, AttachStep
  <2>2. at' = "attach"
    BY <1>6 DEF AttachIface
  <2> QED BY <2>1, <2>2
<1>7. CASE StartEnd
  <2>1. at' \in {"update", "exited"} /\ at = "attach"
        /\ UNCHANGED <<cfg, state, hasLink, gone, programs>>
        /\ (at' = "update" => live' = live)
    BY <1>7 DEF StartEnd, Exit
  <2>2. StartedWell'
    BY <1>7, <2>1, StartEndStep
  <2>3. BooksMatch'
    BY <2>1 DEF ServiceInv
  <2> QED BY <2>1, <2>2, <2>3
<1>8. CASE UpdateFromResult
  BY <1>8 DEF ServiceInv, UpdateFromResult
<1>9. CASE Stop
  <2>1. at' = "detach" /\ DetachProgress'
    BY <1>9, StopStep DEF Stop
  <2> QED BY <2>1
<1>10. ASSUME NEW i \in Ifaces, NEW errs \in SUBSET Directions, DetachIface(i, errs)
       PROVE  Inv'
  <2>1. at' = "detach" /\ DetachProgress'
    BY <1>10, DetachIfaceStep DEF DetachIface
  <2> QED BY <2>1
<1>11. CASE StopEnd
  BY <1>11 DEF StopEnd
<1>12. CASE MainReturns \/ MainFails
  BY <1>12 DEF MainReturns, MainFails, Exit
<1>13. ASSUME NEW i \in Ifaces, IfaceGone(i) PROVE Inv'
  BY <1>13, IfaceGoneKeeps
<1>14. CASE UNCHANGED vars
  BY <1>14 DEF ServiceInv, vars
<1> HIDE DEF Inv
<1> QED
  BY <1>1, <1>2, <1>3, <1>4, <1>5, <1>6, <1>7, <1>8, <1>9, <1>10, <1>11, <1>12, <1>13, <1>14
     DEF Next, Boot, Detach

(***************************************************************************)
(* The inductive invariant of the start and the stop of the service.       *)
(***************************************************************************)
THEOREM ServiceInvariant == Spec => []ServiceInv
<1>1. Init => ServiceInv
  <2> SUFFICES ASSUME Init PROVE ServiceInv
    OBVIOUS
  <2>1. TypeOK
    BY NewType DEF Init, TypeOK, Places, Modes
  <2> QED
    BY <2>1 DEF Init, ServiceInv, NothingYet, BooksMatch, AttachProgress, StartedWell,
                DetachProgress
<1>2. ServiceInv /\ [Next]_vars => ServiceInv'
  BY ServiceStep
<1> QED BY <1>1, <1>2, PTL DEF Spec

(***************************************************************************)
(* Without allow_partial a daemon on real programs counts both directions  *)
(* of every interface that was not deleted later, whatever comes and goes  *)
(* between the validator's checks and the attachments.                     *)
(***************************************************************************)
THEOREM StrictServiceIsComplete == Spec => []StrictMeansComplete
<1>1. ServiceInv => StrictMeansComplete
  BY DEF ServiceInv, StartedWell, BooksMatch, StrictMeansComplete
<1> QED BY <1>1, ServiceInvariant, PTL

(***************************************************************************)
(* A daemon on real programs has something attached, or what it had was    *)
(* deleted since.                                                          *)
(***************************************************************************)
THEOREM ServiceCounts == Spec => []RunningCountsSomething
<1>1. ServiceInv => RunningCountsSomething
  BY DEF ServiceInv, TypeOK, StartedWell, BooksMatch, RunningCountsSomething
<1> QED BY <1>1, ServiceInvariant, PTL

(***************************************************************************)
(* No attachment is out of the manager's reach before Stop has tried to    *)
(* close it, whichever directions attach and whichever closes fail.        *)
(***************************************************************************)
THEOREM LinksAccountedFor == Spec => []NoLinkLeaks
<1>1. ServiceInv => NoLinkLeaks
  BY DEF ServiceInv, TypeOK, BooksMatch, DetachProgress, NoLinkLeaks
<1> QED BY <1>1, ServiceInvariant, PTL

==============================================================================
