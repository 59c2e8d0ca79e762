--------------------------- MODULE HelperSystem_proofs ---------------------------
(***************************************************************************)
(* Safety of the helper system for every set of processes, requests and    *)
(* pairings, every limit of failures, and every bound of the model.        *)
(*                                                                         *)
(* Module Supervisor_proofs says what a step of the supervisor does.  Here *)
(* the inductive invariant IInv says what holds of the supervisor between  *)
(* two events, and ties it to the processes, to the sends of the shell,    *)
(* and to the ghost that counts failed runs.                               *)
(***************************************************************************)
EXTENDS HelperSystem, Supervisor_proofs

-----------------------------------------------------------------------------
(* The system: the supervisor, the processes and the shell.                 *)

(* The supervisor knows every process that runs, and there is one at most.  *)
ProcessInv ==
    /\ up \subseteq sup.alive
    /\ \A r1, r2 \in sup.alive : r1 = r2

(* Every send of the shell is served.                                       *)
SendsInv == asked \subseteq Requests /\ \A q \in asked : Served(sup, q)

(* The streak of failed runs is bounded by the supervisor's own count.      *)
StreakInv ==
    /\ streak \in Nat
    /\ streak <= MaxFailures
    /\ Live(sup) => streak <= sup.failures

(* The inductive invariant.                                                 *)
IInv == SupervisorInv(sup) /\ ProcessInv /\ SendsInv /\ StreakInv

(* No helper runs when the adapter starts, so the invariant holds.          *)
LEMMA InitIInv == Init => IInv
<1> SUFFICES ASSUME Init PROVE IInv
  OBVIOUS
<1>1. PICK installed \in BOOLEAN : sup = InitialSupervisor(installed) BY DEF Init
<1>2. /\ sup.link = NoRun /\ sup.alive = {} /\ ~sup.startWaits /\ ~sup.restartArmed
      /\ ~sup.stopArmed /\ ~sup.stopping /\ sup.reported \in {"None", "Missing"}
      /\ sup.failures = 0 /\ sup.account = "Unlinked" /\ ~sup.loading /\ sup.stops = 0
      /\ IsSupervisor(sup)
  BY <1>1 DEF InitialSupervisor, IsSupervisor, Fields
<1>3. SupervisorInv(sup) /\ ~Live(sup)
  BY <1>2 DEF SupervisorInv, LinkInv, RestartingInv, AccountInv, LoadInv, FailuresInv,
     StopInv, Live, HasLink
<1> QED BY <1>2, <1>3, MaxFailuresAssumption DEF Init, IInv, ProcessInv, SendsInv, StreakInv

(* The supervisor acts or reads: what the next supervisor state has to keep. *)
LEMMA BecomesKeeps ==
  ASSUME IInv, NEW s, Becomes(s), SupervisorInv(s), ServedKept(sup, s),
         \/ /\ up \subseteq s.alive /\ s.alive \subseteq sup.alive
            /\ s.link \in {sup.link, NoRun}
         \/ up = {} /\ s.alive = {s.link} /\ s.link \in Runs,
         asked' \subseteq Requests, \A q \in asked' : q \in asked \/ Served(s, q),
         streak' \in Nat, streak' <= MaxFailures, Live(s) => streak' <= s.failures
  PROVE  IInv'
<1>1. sup' = [s EXCEPT !.written = <<>>] BY DEF Becomes
<1>2. Frame(s, sup', {"written"}) BY <1>1 DEF Frame, IsSupervisor, SupervisorInv
<1>3. /\ sup'.alive = s.alive /\ sup'.link = s.link /\ sup'.startWaits = s.startWaits
      /\ sup'.restartArmed = s.restartArmed /\ sup'.failures = s.failures
      /\ sup'.answers = s.answers /\ sup'.sends = s.sends /\ sup'.stopping = s.stopping
  BY <1>2 DEF Frame, Fields
<1>4. SupervisorInv(sup')
  BY <1>2, CoreKept DEF Frame, Core, Fields, SendsKept, IsSupervisor, Quiet
<1>5. ProcessInv'
  <2>1. up' = up \cup (IF HasLink(s) /\ ~HasLink(sup) THEN {s.link} ELSE {})
    BY DEF Becomes
  <2> QED BY <1>3, <2>1 DEF IInv, ProcessInv, HasLink
<1>6. SendsInv' BY <1>3 DEF IInv, SendsInv, ServedKept, Served, HasLink
<1>7. StreakInv' BY <1>3 DEF StreakInv, Live, HasLink
<1> QED BY <1>4, <1>5, <1>6, <1>7 DEF IInv

(* What the operating system answers names a process if it started one.     *)
LEMMA StartsOutcome ==
  ASSUME NEW alive, NEW unused, unused \subseteq Runs, NEW start \in Starts(alive, unused)
  PROVE  start[1] \in Outcomes /\ (start[1] = "started" => start[2] \in Runs)
<1>1. CASE start = <<"failed", NoRun>> BY <1>1 DEF Outcomes
<1>2. CASE start \in Outcomes \X unused BY <1>2
<1> QED BY <1>1, <1>2 DEF Starts

(* A command of the shell.                                                  *)
LEMMA CommandsKeep ==
  ASSUME IInv, NEW c \in Command, Commands(c),
         asked' \subseteq Requests,
         \A q \in asked' : q \in asked \/ (c.type = "send" /\ q = c.req),
         IF c.type \in {"gate", "begin"} THEN streak' = 0 ELSE streak' \in {0, streak}
  PROVE  IInv'
<1>1. PICK start \in Starts(sup.alive, Unused) :
        Becomes(OnCommand(sup, c, start[1], start[2]))
  BY DEF Commands, Acts
<1> DEFINE s == OnCommand(sup, c, start[1], start[2])
<1>2. start[1] \in Outcomes /\ (start[1] = "started" => start[2] \in Runs)
  BY StartsOutcome DEF Unused
<1>3. /\ SupervisorInv(s) /\ ServedKept(sup, s)
      /\ NoStart(sup, s) \/ Starting(sup, s)
      /\ c.type = "send" => Served(s, c.req)
      /\ \/ Live(s) => Live(sup) /\ s.failures = sup.failures
         \/ c.type \in {"gate", "begin"}
  BY <1>2, OnCommandKeeps DEF IInv, SupervisorInv
<1>4. Becomes(s) BY <1>1
<1> HIDE DEF s
<1>5. s.failures \in Nat BY <1>3 DEF SupervisorInv, IsSupervisor
<1>6. /\ streak' \in Nat /\ streak' <= MaxFailures
      /\ Live(s) => streak' <= s.failures
  BY <1>3, <1>5, MaxFailuresAssumption DEF IInv, StreakInv
<1> QED BY <1>3, <1>4, <1>6, BecomesKeeps DEF NoStart, Starting, IInv, ProcessInv

(* The helper of the link ended.                                            *)
LEMMA EndKeeps ==
  ASSUME IInv, HasLink(sup), NEW stable \in BOOLEAN, Ends(stable), asked' = asked,
         \/ Becomes(HelperEnded(sup, stable))
         \/ Becomes(OnHelperGone(sup, stable))
  PROVE  IInv'
<1>1. PICK s : /\ Becomes(s)
               /\ SupervisorInv(s) /\ ServedKept(sup, s) /\ NoStart(sup, s)
               /\ Live(s) => s.failures = IF stable THEN 1 ELSE sup.failures + 1
  BY HelperEndedKeeps, OnHelperGoneKeeps DEF IInv
<1>2. streak <= sup.failures /\ sup.failures < MaxFailures /\ sup.failures \in Nat
  BY DEF IInv, StreakInv, SupervisorInv, FailuresInv, IsSupervisor, Live
<1>3. /\ streak' \in Nat /\ streak' <= MaxFailures
      /\ Live(s) => streak' <= s.failures
  BY <1>1, <1>2, MaxFailuresAssumption DEF Ends, IInv, StreakInv
<1> QED BY <1>1, <1>3, BecomesKeeps DEF NoStart, IInv, ProcessInv, SendsInv

(* A step that starts no helper and ends none in failure.                   *)
LEMMA QuietKeeps ==
  ASSUME IInv, NEW s, Becomes(s), SupervisorInv(s), ServedKept(sup, s), NoStart(sup, s),
         Live(s) => Live(sup) /\ s.failures = sup.failures,
         asked' = asked, streak' = streak
  PROVE  IInv'
BY BecomesKeeps DEF NoStart, IInv, ProcessInv, SendsInv, StreakInv

(* Every step of the shell keeps the invariant.                             *)
LEMMA ShellKeeps == IInv /\ ShellStep => IInv'
<1> SUFFICES ASSUME IInv, ShellStep PROVE IInv'
  OBVIOUS
<1> USE DEF IInv
<1>1. CASE AcceptGate
  BY <1>1, CommandsKeep DEF AcceptGate, Command, SendsInv
<1>2. ASSUME NEW phone \in {FALSE, HasPairCode}, StartPairing(phone)
      PROVE  IInv'
  <2>1. BeginLink(nextGen, phone) \in Command
    <3>1. phone \in BOOLEAN /\ nextGen \in Generations
      BY <1>2, HasPairCodeAssumption DEF StartPairing
    <3>2. BeginLink(nextGen, phone) \in {BeginLink(g, p) : g \in Generations, p \in BOOLEAN}
      BY <3>1
    <3> QED BY <3>2 DEF Command, Pairings
  <2> QED BY <1>2, <2>1, CommandsKeep DEF StartPairing, SendsInv
<1>3. CASE Cancel BY <1>3, CommandsKeep DEF Cancel, Command, SendsInv
<1>4. CASE LinkWithPhone
  BY <1>4, CommandsKeep DEF LinkWithPhone, Command, SendsInv
<1>5. ASSUME NEW q \in Requests, Send(q)
      PROVE  IInv'
  BY <1>5, CommandsKeep DEF Send, Command, SendText, SendsInv
<1>6. CASE LoadChats
  <2> DEFINE loading == [sup EXCEPT !.loading = TRUE]
             s == OnCommand(loading, Load, "failed", NoRun)
  <2>1. Becomes(s) /\ asked' = asked /\ streak' = streak
    BY <1>6 DEF LoadChats, Acts, shell
  <2>2. Frame(sup, loading, {"loading"})
    BY DEF Frame, IsSupervisor, SupervisorInv
  <2> HIDE DEF loading
  <2>3. /\ loading.link = sup.link /\ loading.alive = sup.alive
        /\ loading.startWaits = sup.startWaits /\ loading.restartArmed = sup.restartArmed
        /\ loading.stopArmed = sup.stopArmed /\ loading.stopping = sup.stopping
        /\ loading.reported = sup.reported /\ loading.stops = sup.stops
        /\ loading.sends = sup.sends /\ loading.answers = sup.answers
        /\ loading.failures = sup.failures /\ loading.account = sup.account
        /\ IsSupervisor(loading)
    BY <2>2 DEF Frame, Fields
  <2>4. /\ LinkInv(loading) /\ RestartingInv(loading) /\ AccountInv(loading)
        /\ FailuresInv(loading) /\ StopInv(loading)
    BY <2>3 DEF SupervisorInv, LinkInv, RestartingInv, AccountInv, FailuresInv, StopInv,
       Live, HasLink
  <2>5. Load \in Command /\ Load.type \notin {"send", "gate", "begin"}
    BY DEF Command, Load
  <2>6. /\ SupervisorInv(s) /\ ServedKept(loading, s)
        /\ NoStart(loading, s) \/ Starting(loading, s)
        /\ Live(s) => Live(loading) /\ s.failures = loading.failures
    BY <2>3, <2>4, <2>5, OnCommandKeeps DEF Outcomes
  <2> HIDE DEF s
  <2>7. ServedKept(sup, s) /\ (Live(s) => Live(sup) /\ s.failures = sup.failures)
    BY <2>3, <2>6 DEF ServedKept, Served, Live, HasLink
  <2> QED BY <2>1, <2>3, <2>6, <2>7, BecomesKeeps
          DEF NoStart, Starting, ProcessInv, SendsInv, StreakInv
<1>7. CASE RestartHelper
  <2>1. PICK start \in Starts(sup.alive, Unused) : Becomes(OnRestart(sup, start[1], start[2]))
    BY <1>7 DEF RestartHelper, Acts
  <2> DEFINE s == OnRestart(sup, start[1], start[2])
  <2>2. start[1] \in Outcomes /\ (start[1] = "started" => start[2] \in Runs)
    BY StartsOutcome DEF Unused
  <2>3. /\ SupervisorInv(s) /\ ServedKept(sup, s)
        /\ NoStart(sup, s) \/ Starting(sup, s)
    BY <2>2, OnRestartKeeps
  <2>4. Becomes(s) BY <2>1
  <2> HIDE DEF s
  <2>5. streak' = 0 /\ asked' = asked /\ s.failures \in Nat
    BY <1>7, <2>3 DEF RestartHelper, shell, SupervisorInv, IsSupervisor
  <2> QED BY <2>3, <2>4, <2>5, BecomesKeeps, MaxFailuresAssumption
          DEF NoStart, Starting, ProcessInv, SendsInv
<1>8. CASE Close
  <2>1. Becomes(OnShutdown(sup)) /\ asked' = asked /\ streak' = streak
    BY <1>8 DEF Close, Acts, shell
  <2> QED BY <2>1, OnShutdownKeeps, QuietKeeps
<1> QED BY <1>1, <1>2, <1>3, <1>4, <1>5, <1>6, <1>7, <1>8 DEF ShellStep

(* Every deadline of the supervisor keeps the invariant.                    *)
LEMMA TimerKeeps == IInv /\ TimerStep => IInv'
<1> SUFFICES ASSUME IInv, TimerStep PROVE IInv'
  OBVIOUS
<1> USE DEF IInv
<1>1. CASE RestartTimer
  <2> DEFINE base == [sup EXCEPT !.restartArmed = FALSE]
  <2>1. PICK start \in Starts(sup.alive, Unused) : Becomes(Launch(base, start[1], start[2]))
    BY <1>1 DEF RestartTimer, Acts
  <2> DEFINE s == Launch(base, start[1], start[2])
  <2>2. start[1] \in Outcomes /\ (start[1] = "started" => start[2] \in Runs)
    BY StartsOutcome DEF Unused
  <2>3. Frame(sup, base, {"restartArmed"}) /\ ~base.restartArmed
    BY DEF Frame, IsSupervisor, SupervisorInv
  <2>4. sup.restartArmed /\ streak' = streak /\ asked' = asked
    BY <1>1 DEF RestartTimer, shell
  <2>5. Becomes(s) BY <2>1
  <2> HIDE DEF base
  <2>6. /\ base.link = sup.link /\ base.alive = sup.alive
        /\ base.startWaits = sup.startWaits
        /\ base.stopArmed = sup.stopArmed /\ base.stopping = sup.stopping
        /\ base.reported = sup.reported /\ base.stops = sup.stops
        /\ base.sends = sup.sends /\ base.answers = sup.answers
        /\ base.failures = sup.failures /\ base.loading = sup.loading
        /\ IsSupervisor(base)
    BY <2>3 DEF Frame, Fields
  <2>7. LaunchReady(base)
    BY <2>4, <2>6 DEF LaunchReady, SupervisorInv, LinkInv, LoadInv, StopInv, FailuresInv,
       Live, HasLink
  <2>8. /\ SupervisorInv(s) /\ ServedKept(base, s)
        /\ NoStart(base, s) \/ Starting(base, s)
        /\ s.failures = base.failures
    BY <2>2, <2>7, LaunchKeeps
  <2> HIDE DEF s
  <2>9. ServedKept(sup, s) /\ streak <= sup.failures
    BY <2>4, <2>6, <2>8 DEF ServedKept, Served, HasLink, StreakInv, Live
  <2> QED BY <2>4, <2>5, <2>6, <2>8, <2>9, BecomesKeeps
          DEF NoStart, Starting, ProcessInv, SendsInv, StreakInv
<1>2. CASE StopTimer
  <2>1. Becomes(FinishStop(sup)) /\ asked' = asked /\ streak' = streak /\ sup.stopArmed
    BY <1>2 DEF StopTimer, Acts, shell
  <2>2. sup.stopping /\ sup.stops = 0 BY <2>1 DEF SupervisorInv, StopInv, IsSupervisor
  <2> QED BY <2>1, <2>2, FinishStopKeeps, QuietKeeps
<1>3. CASE OldExitTimer
  <2> DEFINE base == [sup EXCEPT !.startWaits = FALSE]
             s == StopFor(base)
  <2>1. Becomes(s) /\ asked' = asked /\ streak' = streak /\ sup.startWaits
    BY <1>3 DEF OldExitTimer, Acts, shell
  <2>2. Frame(sup, base, {"startWaits"}) /\ ~base.startWaits
    BY DEF Frame, IsSupervisor, SupervisorInv
  <2> HIDE DEF base
  <2>3. /\ base.link = sup.link /\ base.alive = sup.alive
        /\ base.stopArmed = sup.stopArmed /\ base.stopping = sup.stopping
        /\ base.reported = sup.reported /\ base.stops = sup.stops
        /\ base.sends = sup.sends /\ base.answers = sup.answers
        /\ base.failures = sup.failures /\ base.loading = sup.loading
        /\ IsSupervisor(base)
    BY <2>2 DEF Frame, Fields
  <2>4. /\ SupervisorInv(s) /\ ServedKept(base, s) /\ NoStart(base, s) /\ ~Live(s)
    BY <2>1, <2>2, <2>3, StopForKeeps DEF SupervisorInv, StopInv, LoadInv, LinkInv, HasLink
  <2> HIDE DEF s
  <2> QED BY <2>1, <2>3, <2>4, QuietKeeps DEF ServedKept, Served, NoStart, HasLink
<1>4. CASE DrainTimer
  <2>1. PICK stable \in Stable : Becomes(OnHelperGone(sup, stable)) /\ Ends(stable)
    BY <1>4 DEF DrainTimer, Acts
  <2> QED BY <1>4, <2>1, EndKeeps DEF DrainTimer, Stable, shell
<1>5. CASE HelloTimer BY <1>5, EndKeeps DEF HelloTimer, Acts, shell
<1>6. CASE BusyTimer BY <1>6, ReportLinked, QuietKeeps DEF BusyTimer, Acts, shell, Quiet
<1> QED BY <1>1, <1>2, <1>3, <1>4, <1>5, <1>6 DEF TimerStep

(* Every exit and every line of a process, stale ones included, keeps the   *)
(* invariant.                                                               *)
LEMMA LineKeeps == ASSUME IInv, NEW r \in Runs, LineStep(r) PROVE IInv'
<1> USE DEF IInv
<1>0. r # NoRun BY RunsAssumption
<1>1. CASE Exited(r)
  <2>1. PICK start \in Starts(sup.alive \ {r}, (Unused \cup {r}) \ reading) :
          Becomes(OnExited(sup, r, start[1], start[2]))
    BY <1>1 DEF Exited, Acts
  <2> DEFINE s == OnExited(sup, r, start[1], start[2])
  <2>2. start[1] \in Outcomes /\ (start[1] = "started" => start[2] \in Runs)
    BY StartsOutcome DEF Unused
  <2>3. /\ SupervisorInv(s) /\ ServedKept(sup, s)
        /\ AfterExit(sup, s, r) /\ FailuresKept(sup, s)
    BY <2>2, OnExitedKeeps
  <2>4. Becomes(s) BY <2>1
  <2> HIDE DEF s
  <2>5. r \notin up /\ asked' = asked /\ streak' = streak BY <1>1 DEF Exited, shell
  <2> QED BY <2>3, <2>4, <2>5, BecomesKeeps
          DEF ProcessInv, SendsInv, StreakInv, AfterExit, FailuresKept
<1>2. CASE Hello(r)
  BY <1>0, <1>2, OnHelloKeeps, QuietKeeps DEF Hello, Reads, Takes, HasLink, shell, Quiet
<1>3. CASE Refused(r)
  <2>1. Becomes(StopFor(sup)) /\ asked' = asked /\ streak' = streak /\ HasLink(sup)
    BY <1>0, <1>3 DEF Refused, Reads, Takes, shell, HasLink
  <2>2. ~sup.startWaits /\ sup.reported # "Stopped" BY <2>1 DEF SupervisorInv, LinkInv
  <2> QED BY <2>1, <2>2, StopForKeeps, QuietKeeps DEF SupervisorInv
<1>4. CASE Ack(r)
  BY <1>0, <1>4, OnAckKeeps, QuietKeeps DEF Ack, Reads, Takes, HasLink, shell, Quiet
<1>5. CASE AccountEvent(r)
  BY <1>0, <1>5, OnAccountKeeps, QuietKeeps
     DEF AccountEvent, Reads, Next1, Takes, HasLink, shell, Quiet
<1>6. CASE AccountEnded(r)
  <2>1. "Linked" \in AccountState BY DEF AccountState
  <2> QED BY <1>0, <1>6, <2>1, OnAccountKeeps, QuietKeeps
      DEF AccountEnded, Reads, Takes, HasLink, shell, Quiet
<1>7. CASE SendAnswer(r)
  BY <1>0, <1>7, OnSendAnswerKeeps, QuietKeeps DEF SendAnswer, Reads, Takes, HasLink, shell, Quiet
<1>8. CASE Loaded(r)
  <2> DEFINE s == [sup EXCEPT !.loading = FALSE]
  <2>1. Frame(sup, s, {"loading"}) /\ ~s.loading
    BY DEF Frame, IsSupervisor, SupervisorInv
  <2>2. Becomes(s) /\ asked' = asked /\ streak' = streak
    BY <1>8 DEF Loaded, Takes, shell
  <2> HIDE DEF s
  <2>3. Quiet(sup, s)
    BY <2>1, CoreKept DEF Frame, Core, Fields, SendsKept, IsSupervisor
  <2> QED BY <2>2, <2>3, QuietKeeps DEF Quiet
<1>9. CASE HelperStopped(r)
  <2>1. /\ Becomes(IF sup.stopping THEN FinishStop(sup) ELSE sup)
        /\ asked' = asked /\ streak' = streak /\ HasLink(sup)
    BY <1>0, <1>9 DEF HelperStopped, Reads, Takes, shell, HasLink
  <2>2. sup.stops = 0 BY <2>1 DEF SupervisorInv, StopInv, IsSupervisor
  <2>3. ServedKept(sup, sup) /\ NoStart(sup, sup) BY DEF ServedKept, NoStart
  <2> QED BY <2>1, <2>2, <2>3, FinishStopKeeps, QuietKeeps
<1>10. CASE OutOfPlace(r)
  <2>1. PICK stable \in Stable : Becomes(HelperEnded(sup, stable)) /\ Ends(stable)
    BY <1>10 DEF OutOfPlace, Takes
  <2>2. stable \in BOOLEAN /\ HasLink(sup) /\ asked' = asked
    BY <1>0, <1>10 DEF Stable, OutOfPlace, Reads, Takes, HasLink, shell
  <2> QED BY <2>1, <2>2, EndKeeps
<1>11. CASE OutputEnded(r)
  <2>1. asked' = asked BY <1>11 DEF OutputEnded, shell
  <2>2. CASE sup.link = r
    <3>1. PICK stable \in Stable : Becomes(OnHelperGone(sup, stable)) /\ Ends(stable)
      BY <1>11, <2>2 DEF OutputEnded
    <3>2. stable \in BOOLEAN /\ HasLink(sup) BY <1>0, <2>2 DEF Stable, HasLink
    <3> QED BY <2>1, <3>1, <3>2, EndKeeps
  <2>3. CASE sup.link # r
    <3>1. Becomes(sup) /\ streak' = streak BY <1>11, <2>3 DEF OutputEnded
    <3> QED BY <2>1, <3>1, QuietKeeps DEF ServedKept, NoStart
  <2> QED BY <2>2, <2>3
<1>12. CASE StaleLine(r)
  <2>1. Becomes(sup) /\ asked' = asked /\ streak' = streak
    BY <1>12 DEF StaleLine, Takes, shell
  <2> QED BY <2>1, QuietKeeps DEF ServedKept, NoStart
<1> QED BY <1>1, <1>2, <1>3, <1>4, <1>5, <1>6, <1>7, <1>8, <1>9, <1>10, <1>11, <1>12 DEF LineStep

(* A helper process changes no state of the supervisor.                     *)
LEMMA HelperKeeps == ASSUME IInv, NEW r \in Runs, HelperStep(r) PROVE IInv'
<1>1. sup' = sup /\ up' \subseteq up /\ asked' = asked /\ streak' = streak
  <2>1. CASE Dies(r) BY <2>1 DEF Dies, shell, ghost
  <2>2. CASE Speaks(r) \/ Resumes(r) \/ Answers(r) \/ Breaks(r)
    BY <2>2 DEF Speaks, Resumes, Answers, Breaks, Says, Writes, shell, ghost
  <2>3. CASE \/ TakesGate(r) \/ TakesBegin(r) \/ TakesCancel(r)
             \/ TakesSend(r) \/ TakesLoad(r) \/ TakesShutdown(r)
    BY <2>3 DEF TakesGate, TakesBegin, TakesCancel, TakesSend, TakesLoad, TakesShutdown,
                Serves, Writes, shell, ghost
  <2>4. CASE Links(r) \/ Unlinks(r) BY <2>4 DEF Links, Unlinks, Writes, shell, ghost
  <2> QED BY <2>1, <2>2, <2>3, <2>4 DEF HelperStep
<1> QED BY <1>1 DEF IInv, ProcessInv, SendsInv, StreakInv

(* The invariant is inductive.                                              *)
LEMMA NextKeeps == IInv /\ [Next]_vars => IInv'
<1>1. ASSUME IInv, UNCHANGED vars PROVE IInv'
  BY <1>1 DEF vars, IInv, ProcessInv, SendsInv, StreakInv
<1> QED BY <1>1, ShellKeeps, TimerKeeps, LineKeeps, HelperKeeps DEF Next

(* The inductive invariant holds in every state the helper system reaches.  *)
THEOREM Invariance == Spec => []IInv
BY InitIInv, NextKeeps, PTL DEF Spec

-----------------------------------------------------------------------------
(* What the invariant says of the properties that the runs check.           *)
LEMMA Consequences ==
  IInv => /\ OneProcess /\ NoSendIsLost /\ StoppedOnce /\ RestartingHasStart
          /\ LinkedRowHasHelper /\ SpinnerHasHelper /\ CrashLoopBounded
<1> SUFFICES ASSUME IInv
             PROVE  /\ OneProcess /\ NoSendIsLost /\ StoppedOnce /\ RestartingHasStart
                    /\ LinkedRowHasHelper /\ SpinnerHasHelper /\ CrashLoopBounded
  OBVIOUS
<1>1. OneProcess BY DEF IInv, ProcessInv, OneProcess
<1>2. NoSendIsLost BY DEF IInv, SendsInv, Served, NoSendIsLost
<1>3. StoppedOnce BY DEF IInv, SupervisorInv, StopInv, StoppedOnce
<1>4. RestartingHasStart /\ LinkedRowHasHelper /\ SpinnerHasHelper
  BY DEF IInv, SupervisorInv, RestartingInv, AccountInv, LoadInv,
         RestartingHasStart, LinkedRowHasHelper, SpinnerHasHelper
<1>5. CrashLoopBounded BY DEF IInv, StreakInv, CrashLoopBounded
<1> QED BY <1>1, <1>2, <1>3, <1>4, <1>5

(* The operating system never runs two helper processes of one protocol:    *)
(* launch waits for the exit of the process that was killed, and the exit   *)
(* that it waits for cannot be missed.                                      *)
THEOREM OneHelperProcess == Spec => []OneProcess
<1>1. IInv => OneProcess BY Consequences
<1> QED BY Invariance, <1>1, PTL

(* No send of the shell is lost: on every path that ends a helper (crash,   *)
(* hang, refusal, bad line, kill, close) it is answered, or it is open at a *)
(* helper that runs.                                                        *)
THEOREM SendsAreNotLost == Spec => []NoSendIsLost
<1>1. IInv => NoSendIsLost BY Consequences
<1> QED BY Invariance, <1>1, PTL

(* The three paths of the close (the helper's Stopped, its end, the stop    *)
(* deadline) send Stopped once together, and no helper is linked after it.  *)
THEOREM StoppedIsSentOnce == Spec => []StoppedOnce
<1>1. IInv => StoppedOnce BY Consequences
<1> QED BY Invariance, <1>1, PTL

(* A row that says Restarting has a start on the way, through every cancel, *)
(* crash and failed launch.                                                 *)
THEOREM RestartingIsTrue == Spec => []RestartingHasStart
<1>1. IInv => RestartingHasStart BY Consequences
<1> QED BY Invariance, <1>1, PTL

(* A row that says Linking or Linked has a helper behind it, or one that    *)
(* starts; a program that is missing is the exception.                      *)
THEOREM LinkedIsTrue == Spec => []LinkedRowHasHelper
<1>1. IInv => LinkedRowHasHelper BY Consequences
<1> QED BY Invariance, <1>1, PTL

(* A spinner of the shell has a helper that can end it: no report of a gone *)
(* helper that is left out leaves a spinner behind.                         *)
THEOREM SpinnersEnd == Spec => []SpinnerHasHelper
<1>1. IInv => SpinnerHasHelper BY Consequences
<1> QED BY Invariance, <1>1, PTL

(* At most max_failures helpers fail in a row without a word of the user or *)
(* a stable run.                                                            *)
THEOREM CrashLoopsEnd == Spec => []CrashLoopBounded
<1>1. IInv => CrashLoopBounded BY Consequences
<1> QED BY Invariance, <1>1, PTL

-----------------------------------------------------------------------------
(* Types: each variable keeps its type.                                     *)

(* A queue has finitely many places.                                        *)
LEMMA CountTyped ==
  ASSUME NEW S, NEW queue \in Seq(S), NEW c
  PROVE  Cardinality({i \in DOMAIN queue : queue[i] = c}) \in Nat
<1> DEFINE P == {i \in DOMAIN queue : queue[i] = c}
<1>1. IsFiniteSet(1 .. Len(queue)) /\ P \subseteq 1 .. Len(queue) BY FS_Interval
<1> HIDE DEF P
<1>2. IsFiniteSet(P) BY <1>1, FS_Subset
<1> QED BY <1>2, FS_CardinalityType DEF P

(* A step of the supervisor keeps the types of what it touches.             *)
LEMMA BecomesTyped ==
  ASSUME TypeOK, NEW s \in SupervisorState, Becomes(s)
  PROVE  /\ sup' \in SupervisorState
         /\ up' \subseteq Runs
         /\ input' \in [Runs -> Seq(Command \cup {Shutdown})]
         /\ helper' \in [Runs -> HelperProcess]
         /\ phones' \in [Generations -> Nat]
         /\ Started \subseteq Runs
<1> DEFINE started == IF HasLink(s) /\ ~HasLink(sup) THEN {s.link} ELSE {}
<1>1. sup' = [s EXCEPT !.written = <<>>] BY DEF Becomes
<1>2. sup' \in SupervisorState /\ sup'.link = s.link
  <2>1. <<>> \in Seq(Command \cup {Shutdown}) OBVIOUS
  <2> QED BY <1>1, <2>1 DEF SupervisorState
<1>3. started \subseteq Runs /\ Started \subseteq Runs
  BY <1>2 DEF Started, HasLink, SupervisorState
<1>4. up' \subseteq Runs BY <1>3 DEF Becomes, TypeOK
<1>5. input' \in [Runs -> Seq(Command \cup {Shutdown})]
  <2> DEFINE wire == Command \cup {Shutdown}
  <2>1. s.written \in Seq(wire) /\ \A r \in Runs : input[r] \in Seq(wire)
    BY DEF SupervisorState, TypeOK
  <2>2. input' = [r \in Runs |->
                       IF r \in started THEN <<>>
                       ELSE IF r = s.link /\ r \in up THEN input[r] \o s.written
                       ELSE input[r]]
    BY DEF Becomes
  <2> HIDE DEF wire, started
  <2>3. \A r \in Runs : input[r] \o s.written \in Seq(wire) /\ <<>> \in Seq(wire)
    BY <2>1
  <2>4. input' \in [Runs -> Seq(wire)] BY <2>1, <2>2, <2>3
  <2> QED BY <2>4 DEF wire
<1>6. helper' \in [Runs -> HelperProcess]
  <2>1. NewProcess \in HelperProcess BY DEF NewProcess, HelperProcess, AccountState
  <2> QED BY <2>1 DEF Becomes, TypeOK
<1>7. phones' \in [Generations -> Nat]
  <2> DEFINE count(g) == Cardinality({i \in DOMAIN s.written : s.written[i] = BeginLink(g, TRUE)})
  <2>1. phones' = [g \in Generations |-> phones[g] + count(g)] BY DEF Becomes
  <2>2. \A g \in Generations : count(g) \in Nat
    <3>1. s.written \in Seq(Command \cup {Shutdown}) BY DEF SupervisorState
    <3> QED BY <3>1, CountTyped
  <2> HIDE DEF count
  <2> QED BY <2>1, <2>2 DEF TypeOK
<1> QED BY <1>2, <1>3, <1>4, <1>5, <1>6, <1>7

(* The same for a step that reads no line.                                  *)
LEMMA ActsTyped ==
  ASSUME TypeOK, NEW s \in SupervisorState, Acts(s),
         gate' \in BOOLEAN, cancelled' \in Nat, nextGen' \in Nat, asked' \subseteq Requests,
         use' = use, streak' \in Nat
  PROVE  TypeOK'
BY BecomesTyped DEF Acts, TypeOK

(* The initial states have their types.                                     *)
LEMMA InitTyped == Init => TypeOK
<1> SUFFICES ASSUME Init PROVE TypeOK
  OBVIOUS
<1>1. sup \in SupervisorState
  <2>1. PICK installed \in BOOLEAN : sup = InitialSupervisor(installed) BY DEF Init
  <2> DEFINE reported == IF installed THEN "None" ELSE "Missing"
  <2>2. reported \in HelperState /\ "Unlinked" \in AccountState /\ <<>> \in WakeLinks
    BY DEF HelperState, AccountState, WakeLinks
  <2>4. /\ <<>> \in Seq(Command) /\ <<>> \in Seq(Command \cup {Shutdown})
        /\ [q \in Requests |-> 0] \in [Requests -> Nat]
    OBVIOUS
  <2>5. InitialSupervisor(installed).reported = reported BY DEF InitialSupervisor
  <2> HIDE DEF reported
  <2> QED BY <2>1, <2>2, <2>4, <2>5 DEF InitialSupervisor, SupervisorState
<1>2. NewProcess \in HelperProcess BY DEF NewProcess, HelperProcess, AccountState
<1>3. device \in BOOLEAN BY DEF Init
<1>4. /\ input \in [Runs -> Seq(Command \cup {Shutdown})]
      /\ output \in [Runs -> Seq(Lines)]
  BY DEF Init
<1>5. helper \in [Runs -> HelperProcess] /\ phones \in [Generations -> Nat]
  BY <1>2 DEF Init
<1>6. use \in Uses /\ up \subseteq Runs /\ reading \subseteq Runs BY DEF Init
<1>7. gate \in BOOLEAN /\ cancelled \in Nat /\ nextGen \in Nat /\ asked \subseteq Requests
      /\ streak \in Nat
  BY DEF Init
<1> QED BY <1>1, <1>3, <1>4, <1>5, <1>6, <1>7 DEF TypeOK

(* A command of the shell.                                                  *)
LEMMA CommandsTyped ==
  ASSUME TypeOK, NEW c \in Command, Commands(c),
         gate' \in BOOLEAN, cancelled' \in Nat, nextGen' \in Nat, asked' \subseteq Requests,
         use' = use, streak' \in Nat
  PROVE  TypeOK'
<1>1. PICK start \in Starts(sup.alive, Unused) : Acts(OnCommand(sup, c, start[1], start[2]))
  BY DEF Commands
<1>2. start[1] \in Outcomes /\ (start[1] = "started" => start[2] \in Runs)
  BY StartsOutcome DEF Unused
<1>3. OnCommand(sup, c, start[1], start[2]) \in SupervisorState
  BY <1>2, OnCommandTyped DEF TypeOK
<1> QED BY <1>1, <1>3, ActsTyped

(* Every step of the shell keeps the types.                                 *)
LEMMA ShellTyped == TypeOK /\ ShellStep => TypeOK'
<1> SUFFICES ASSUME TypeOK, ShellStep PROVE TypeOK'
  OBVIOUS
<1>0. /\ gate \in BOOLEAN /\ cancelled \in Nat /\ nextGen \in Nat /\ asked \subseteq Requests
      /\ streak \in Nat /\ sup \in SupervisorState
  BY DEF TypeOK
<1>1. CASE AcceptGate BY <1>0, <1>1, CommandsTyped, PairingFacts DEF AcceptGate
<1>2. ASSUME NEW phone \in {FALSE, HasPairCode}, StartPairing(phone) PROVE TypeOK'
  <2>1. phone \in BOOLEAN /\ nextGen \in Generations
    BY <1>2, HasPairCodeAssumption DEF StartPairing
  <2>2. BeginLink(nextGen, phone) \in Command BY <2>1, PairingFacts
  <2> QED BY <1>0, <1>2, <2>2, CommandsTyped DEF StartPairing
<1>3. CASE Cancel BY <1>0, <1>3, CommandsTyped, PairingFacts DEF Cancel
<1>4. CASE LinkWithPhone BY <1>0, <1>4, CommandsTyped, PairingFacts DEF LinkWithPhone
<1>5. ASSUME NEW q \in Requests, Send(q) PROVE TypeOK'
  <2>1. SendText(q) \in Command BY PairingFacts
  <2> QED BY <1>0, <1>5, <2>1, CommandsTyped DEF Send
<1>6. CASE LoadChats
  <2> DEFINE loading == [sup EXCEPT !.loading = TRUE]
  <2>1. loading \in SupervisorState BY <1>0 DEF SupervisorState
  <2> HIDE DEF loading
  <2>2. OnCommand(loading, Load, "failed", NoRun) \in SupervisorState
    BY <2>1, OnCommandTyped, PairingFacts DEF Outcomes
  <2>3. Acts(OnCommand(loading, Load, "failed", NoRun)) BY <1>6 DEF LoadChats, loading
  <2> QED BY <1>0, <1>6, <2>2, <2>3, ActsTyped DEF LoadChats, shell
<1>7. CASE RestartHelper
  <2>1. PICK start \in Starts(sup.alive, Unused) : Acts(OnRestart(sup, start[1], start[2]))
    BY <1>7 DEF RestartHelper
  <2>2. start[1] \in Outcomes /\ (start[1] = "started" => start[2] \in Runs)
    BY StartsOutcome DEF Unused
  <2>3. OnRestart(sup, start[1], start[2]) \in SupervisorState
    BY <1>0, <2>2, OnRestartTyped
  <2> QED BY <1>0, <1>7, <2>1, <2>3, ActsTyped DEF RestartHelper, shell
<1>8. CASE Close BY <1>0, <1>8, OnShutdownTyped, ActsTyped DEF Close, shell
<1> QED BY <1>1, <1>2, <1>3, <1>4, <1>5, <1>6, <1>7, <1>8 DEF ShellStep

(* Every deadline keeps the types.                                          *)
LEMMA TimerTyped == TypeOK /\ TimerStep => TypeOK'
<1> SUFFICES ASSUME TypeOK, TimerStep PROVE TypeOK'
  OBVIOUS
<1>0. /\ gate \in BOOLEAN /\ cancelled \in Nat /\ nextGen \in Nat /\ asked \subseteq Requests
      /\ streak \in Nat /\ sup \in SupervisorState
  BY DEF TypeOK
<1>1. CASE RestartTimer
  <2> DEFINE base == [sup EXCEPT !.restartArmed = FALSE]
  <2>1. PICK start \in Starts(sup.alive, Unused) : Acts(Launch(base, start[1], start[2]))
    BY <1>1 DEF RestartTimer
  <2>2. start[1] \in Outcomes /\ (start[1] = "started" => start[2] \in Runs)
    BY StartsOutcome DEF Unused
  <2>3. base \in SupervisorState BY <1>0 DEF SupervisorState
  <2> HIDE DEF base
  <2>4. Launch(base, start[1], start[2]) \in SupervisorState BY <2>2, <2>3, LaunchTyped
  <2> QED BY <1>0, <1>1, <2>1, <2>4, ActsTyped DEF RestartTimer, shell
<1>2. CASE StopTimer BY <1>0, <1>2, FinishStopTyped, ActsTyped DEF StopTimer, shell
<1>3. CASE OldExitTimer
  <2> DEFINE base == [sup EXCEPT !.startWaits = FALSE]
  <2>1. base \in SupervisorState BY <1>0 DEF SupervisorState
  <2>2. Acts(StopFor(base)) BY <1>3 DEF OldExitTimer
  <2> HIDE DEF base
  <2> QED BY <1>0, <1>3, <2>1, <2>2, StopForTyped, ActsTyped DEF OldExitTimer, shell
<1>4. CASE DrainTimer
  <2>1. PICK stable \in Stable : Acts(OnHelperGone(sup, stable)) /\ Ends(stable)
    BY <1>4 DEF DrainTimer
  <2>2. stable \in BOOLEAN BY DEF Stable
  <2>3. streak' \in Nat BY <1>0, <2>1 DEF Ends
  <2> QED BY <1>0, <1>4, <2>1, <2>2, <2>3, OnHelperGoneTyped, ActsTyped DEF DrainTimer, shell
<1>5. CASE HelloTimer
  <2>1. streak' \in Nat BY <1>0, <1>5 DEF HelloTimer, Ends
  <2> QED BY <1>0, <1>5, <2>1, HelperEndedTyped, ActsTyped DEF HelloTimer, shell
<1>6. CASE BusyTimer
  <2>1. Report(sup, "Busy") \in SupervisorState BY <1>0, ReportTyped DEF HelperState
  <2> QED BY <1>0, <1>6, <2>1, ActsTyped DEF BusyTimer, shell
<1> QED BY <1>1, <1>2, <1>3, <1>4, <1>5, <1>6 DEF TimerStep

(* A line that the supervisor took.                                         *)
LEMMA TakesTyped ==
  ASSUME TypeOK, NEW r \in Runs, NEW s \in SupervisorState, Takes(r, s),
         output[r] # <<>>, streak' \in Nat
  PROVE  TypeOK'
<1>1. Tail(output[r]) \in Seq(Lines)
  <2>1. output[r] \in Seq(Lines) BY DEF TypeOK
  <2> QED BY <2>1
<1>2. output' \in [Runs -> Seq(Lines)] BY <1>1 DEF Takes, TypeOK
<1> QED BY <1>2, BecomesTyped DEF Takes, TypeOK, shell

(* Every exit and every line keeps the types.                               *)
LEMMA LineTyped == ASSUME TypeOK, NEW r \in Runs, LineStep(r) PROVE TypeOK'
<1>0. /\ gate \in BOOLEAN /\ cancelled \in Nat /\ nextGen \in Nat /\ asked \subseteq Requests
      /\ streak \in Nat /\ sup \in SupervisorState /\ output[r] \in Seq(Lines)
  BY DEF TypeOK
<1>1. CASE Exited(r)
  <2>1. PICK start \in Starts(sup.alive \ {r}, (Unused \cup {r}) \ reading) :
          Acts(OnExited(sup, r, start[1], start[2]))
    BY <1>1 DEF Exited
  <2>2. start[1] \in Outcomes /\ (start[1] = "started" => start[2] \in Runs)
    BY StartsOutcome DEF Unused
  <2>3. OnExited(sup, r, start[1], start[2]) \in SupervisorState
    BY <1>0, <2>2, OnExitedTyped
  <2> QED BY <1>0, <1>1, <2>1, <2>3, ActsTyped DEF Exited, shell
<1>2. CASE Hello(r) BY <1>0, <1>2, OnHelloTyped, TakesTyped DEF Hello, Reads, Next1
<1>3. CASE Refused(r) BY <1>0, <1>3, StopForTyped, TakesTyped DEF Refused, Reads, Next1
<1>4. CASE Ack(r)
  <2>1. \A slow \in BOOLEAN : OnAck(sup, slow) \in SupervisorState BY <1>0, LinesTyped
  <2> QED BY <1>0, <1>4, <2>1, TakesTyped DEF Ack, Reads, Next1
<1>5. CASE AccountEvent(r)
  <2>1. \A state \in AccountState : OnAccount(sup, state) \in SupervisorState
    BY <1>0, LinesTyped
  <2> QED BY <1>0, <1>5, <2>1, TakesTyped DEF AccountEvent, Reads, Next1
<1>6. CASE AccountEnded(r)
  BY <1>0, <1>6, LinesTyped, TakesTyped DEF AccountEnded, Reads, Next1
<1>7. CASE SendAnswer(r)
  <2>1. Head(output[r]) \in Lines /\ Head(output[r]).type = "answer"
    BY <1>0, <1>7 DEF SendAnswer, Reads, Next1
  <2>2. Head(output[r]).req \in Requests BY <2>1 DEF Lines, Line, Answer
  <2>3. OnSendAnswer(sup, Head(output[r]).req) \in SupervisorState
    BY <1>0, <2>2, LinesTyped
  <2> QED BY <1>0, <1>7, <2>3, TakesTyped DEF SendAnswer, Reads, Next1
<1>8. CASE Loaded(r)
  <2>1. [sup EXCEPT !.loading = FALSE] \in SupervisorState BY <1>0, LinesTyped
  <2> QED BY <1>0, <1>8, <2>1, TakesTyped DEF Loaded, Reads, Next1
<1>9. CASE HelperStopped(r)
  BY <1>0, <1>9, FinishStopTyped, TakesTyped DEF HelperStopped, Reads, Next1
<1>10. CASE OutOfPlace(r)
  <2>1. PICK stable \in Stable : Takes(r, HelperEnded(sup, stable)) /\ Ends(stable)
    BY <1>10 DEF OutOfPlace
  <2>2. stable \in BOOLEAN BY DEF Stable
  <2>4. streak' \in Nat BY <1>0, <2>1 DEF Ends
  <2>5. output[r] # <<>> BY <1>10 DEF OutOfPlace, Reads, Next1
  <2>3. HelperEnded(sup, stable) \in SupervisorState BY <1>0, <2>2, HelperEndedTyped
  <2> QED BY <2>1, <2>3, <2>4, <2>5, TakesTyped
<1>11. CASE OutputEnded(r)
  <2>1. output' \in [Runs -> Seq(Lines)] /\ reading' \subseteq Runs
    BY <1>11 DEF OutputEnded, TypeOK
  <2>2. \E s \in SupervisorState : Becomes(s) /\ streak' \in Nat
    <3>1. CASE sup.link = r
      <4>1. PICK stable \in Stable : Becomes(OnHelperGone(sup, stable)) /\ Ends(stable)
        BY <1>11, <3>1 DEF OutputEnded
      <4>2. stable \in BOOLEAN BY DEF Stable
      <4>3. streak' \in Nat BY <1>0, <4>1 DEF Ends
      <4> QED BY <1>0, <4>1, <4>2, <4>3, OnHelperGoneTyped
    <3>2. CASE sup.link # r BY <1>0, <1>11, <3>2 DEF OutputEnded
    <3> QED BY <3>1, <3>2
  <2> QED BY <1>11, <2>1, <2>2, BecomesTyped DEF OutputEnded, shell, TypeOK
<1>12. CASE StaleLine(r) BY <1>0, <1>12, TakesTyped DEF StaleLine, Next1
<1> QED BY <1>1, <1>2, <1>3, <1>4, <1>5, <1>6, <1>7, <1>8, <1>9, <1>10, <1>11, <1>12 DEF LineStep

(* A helper process writes lines.                                           *)
LEMMA WritesTyped ==
  ASSUME TypeOK, NEW r \in Runs, NEW h \in HelperProcess, NEW lines \in Seq(Lines),
         Writes(r, h, lines), device' \in BOOLEAN,
         input' \in [Runs -> Seq(Command \cup {Shutdown})]
  PROVE  TypeOK'
<1>1. output[r] \in Seq(Lines) /\ output[r] \o lines \in Seq(Lines) BY DEF TypeOK
<1>2. output' \in [Runs -> Seq(Lines)] BY <1>1 DEF Writes, TypeOK
<1>3. helper' \in [Runs -> HelperProcess] BY DEF Writes, TypeOK
<1> QED BY <1>2, <1>3 DEF Writes, TypeOK, shell, ghost

(* A helper process takes a command.                                        *)
LEMMA ServesTyped ==
  ASSUME TypeOK, NEW r \in Runs, NEW type, NEW h \in HelperProcess, NEW lines \in Seq(Lines),
         Serves(r, type, h, lines), device' \in BOOLEAN
  PROVE  TypeOK'
<1>1. input[r] \in Seq(Command \cup {Shutdown}) /\ input[r] # <<>> BY DEF TypeOK, Serves
<1>2. Tail(input[r]) \in Seq(Command \cup {Shutdown}) BY <1>1
<1>3. input' \in [Runs -> Seq(Command \cup {Shutdown})] BY <1>2 DEF Serves, TypeOK
<1> QED BY <1>3, WritesTyped DEF Serves

(* What a helper writes are lines.                                          *)
LEMMA LineFacts ==
  /\ \A type \in {"hello", "badHello", "refused", "ack", "loaded", "Unlinked", "Linking",
                    "Linked", "ended", "stopped", "garbage", "closed"} : Line(type) \in Lines
  /\ \A q \in Requests : Answer(q) \in Lines
  /\ \A l \in Lines : <<l>> \in Seq(Lines)
  /\ \A l1, l2 \in Lines : <<l1, l2>> \in Seq(Lines)
<1>1. \A type \in {"hello", "badHello", "refused", "ack", "loaded", "Unlinked", "Linking",
                    "Linked", "ended", "stopped", "garbage", "closed"} : Line(type) \in Lines
  BY Zenon DEF Lines
<1>2. \A q \in Requests : Answer(q) \in Lines BY DEF Lines
<1> QED BY <1>1, <1>2

(* A helper process keeps the types.                                        *)
LEMMA HelperTyped == ASSUME TypeOK, NEW r \in Runs, HelperStep(r) PROVE TypeOK'
<1>0. /\ helper[r] \in HelperProcess /\ device \in BOOLEAN
      /\ input[r] \in Seq(Command \cup {Shutdown})
      /\ input \in [Runs -> Seq(Command \cup {Shutdown})]
  BY DEF TypeOK
<1> DEFINE says(type) == <<Line(type)>>
<1>l. \A type \in {"hello", "badHello", "refused", "ack", "loaded", "Unlinked", "Linking",
                    "Linked", "ended", "stopped", "garbage", "closed"} :
        says(type) \in Seq(Lines)
  BY LineFacts
<1>1. CASE Speaks(r)
  <2>1. PICK first \in {"hello", "badHello", "refused"} :
          Says(r, [helper[r] EXCEPT !.spoke = TRUE], says(first))
    BY <1>1 DEF Speaks
  <2>2. [helper[r] EXCEPT !.spoke = TRUE] \in HelperProcess BY <1>0 DEF HelperProcess
  <2> HIDE DEF says
  <2>3. says(first) \in Seq(Lines) BY <1>l
  <2> QED BY <1>0, <2>1, <2>2, <2>3, WritesTyped DEF Says
<1>2. CASE TakesGate(r)
  <2>1. Serves(r, "gate", [helper[r] EXCEPT !.gate = TRUE], says("ack")) /\ device' = device
    BY <1>2 DEF TakesGate
  <2>2. [helper[r] EXCEPT !.gate = TRUE] \in HelperProcess BY <1>0 DEF HelperProcess
  <2> HIDE DEF says
  <2> QED BY <1>0, <1>l, <2>1, <2>2, ServesTyped
<1>3. CASE TakesBegin(r)
  <2>0. device' = device BY <1>3 DEF TakesBegin
  <2>1. CASE helper[r].gate
    <3>1. Serves(r, "begin", [helper[r] EXCEPT !.link = "Linking"],
                     <<Line("ack"), Line("Linking")>>)
      BY <1>3, <2>1 DEF TakesBegin
    <3>2. [helper[r] EXCEPT !.link = "Linking"] \in HelperProcess
      BY <1>0 DEF HelperProcess, AccountState
    <3>3. <<Line("ack"), Line("Linking")>> \in Seq(Lines) BY LineFacts
    <3> QED BY <1>0, <2>0, <3>1, <3>2, <3>3, ServesTyped
  <2>2. CASE ~helper[r].gate
    <3>1. Serves(r, "begin", helper[r], says("ack")) BY <1>3, <2>2 DEF TakesBegin
    <3> HIDE DEF says
    <3> QED BY <1>0, <1>l, <2>0, <3>1, ServesTyped
  <2> QED BY <2>1, <2>2
<1>4. CASE TakesCancel(r)
  <2>1. /\ Serves(r, "cancel", [helper[r] EXCEPT !.gate = FALSE, !.link = "Unlinked"],
                  <<Line("ack"), Line("Unlinked")>>)
        /\ device' \in {device, FALSE}
    BY <1>4 DEF TakesCancel
  <2>2. [helper[r] EXCEPT !.gate = FALSE, !.link = "Unlinked"] \in HelperProcess
    BY <1>0 DEF HelperProcess, AccountState
  <2>3. <<Line("ack"), Line("Unlinked")>> \in Seq(Lines) BY LineFacts
  <2>4. device' \in BOOLEAN BY <1>0, <2>1
  <2> QED BY <2>1, <2>2, <2>3, <2>4, ServesTyped
<1>5. CASE TakesSend(r)
  <2> DEFINE q == Head(input[r]).req
             todo == helper[r].todo \cup {q}
  <2>1. Serves(r, "send", [helper[r] EXCEPT !.todo = todo], says("ack")) /\ device' = device
    BY <1>5 DEF TakesSend
  <2>2. q \in Requests
    <3>1. Head(input[r]) \in Command \cup {Shutdown} /\ Head(input[r]).type = "send"
      BY <1>0, <1>5 DEF TakesSend, Serves
    <3> QED BY <3>1 DEF Command, Pairings, Shutdown, AcknowledgeGate, CancelLink, Load,
                        SendText, BeginLink
  <2>3. todo \in SUBSET Requests
    <3> HIDE DEF q
    <3> QED BY <1>0, <2>2 DEF HelperProcess
  <2> HIDE DEF todo, says
  <2>4. [helper[r] EXCEPT !.todo = todo] \in HelperProcess
    BY <1>0, <2>3 DEF HelperProcess
  <2> QED BY <1>0, <1>l, <2>1, <2>4, ServesTyped
<1>6. CASE TakesLoad(r)
  <2>1. Serves(r, "load", helper[r], <<Line("ack"), Line("loaded")>>) /\ device' = device
    BY <1>6 DEF TakesLoad
  <2>2. <<Line("ack"), Line("loaded")>> \in Seq(Lines) BY LineFacts
  <2> QED BY <1>0, <2>1, <2>2, ServesTyped
<1>7. CASE TakesShutdown(r)
  <2> DEFINE lines(confirmed) == IF confirmed THEN says("stopped") ELSE <<>>
  <2>1. PICK confirmed \in BOOLEAN :
          Serves(r, "shutdown", [helper[r] EXCEPT !.stopping = TRUE], lines(confirmed))
    BY <1>7 DEF TakesShutdown
  <2>2. device' = device BY <1>7 DEF TakesShutdown
  <2>3. [helper[r] EXCEPT !.stopping = TRUE] \in HelperProcess BY <1>0 DEF HelperProcess
  <2>4. lines(confirmed) \in Seq(Lines)
    <3>1. says("stopped") \in Seq(Lines) BY <1>l
    <3> HIDE DEF says
    <3> QED BY <3>1
  <2> HIDE DEF lines
  <2> QED BY <1>0, <2>1, <2>2, <2>3, <2>4, ServesTyped
<1>8. CASE Resumes(r)
  <2>1. Says(r, [helper[r] EXCEPT !.link = "Linking"], says("Linking"))
    BY <1>8 DEF Resumes
  <2>2. [helper[r] EXCEPT !.link = "Linking"] \in HelperProcess
    BY <1>0 DEF HelperProcess, AccountState
  <2> HIDE DEF says
  <2> QED BY <1>0, <1>l, <2>1, <2>2, WritesTyped DEF Says
<1>9. CASE Links(r)
  <2>1. /\ Writes(r, [helper[r] EXCEPT !.link = "Linked"], says("Linked"))
        /\ device' = TRUE /\ input' = input
    BY <1>9 DEF Links
  <2>2. [helper[r] EXCEPT !.link = "Linked"] \in HelperProcess
    BY <1>0 DEF HelperProcess, AccountState
  <2> HIDE DEF says
  <2> QED BY <1>0, <1>l, <2>1, <2>2, WritesTyped
<1>10. CASE Unlinks(r)
  <2>1. PICK event \in {"Unlinked", "ended"} :
          Writes(r, [helper[r] EXCEPT !.link = "Unlinked"], says(event))
    BY <1>10 DEF Unlinks
  <2>2. device' = FALSE /\ input' = input BY <1>10 DEF Unlinks
  <2>3. [helper[r] EXCEPT !.link = "Unlinked"] \in HelperProcess
    BY <1>0 DEF HelperProcess, AccountState
  <2> HIDE DEF says
  <2>4. says(event) \in Seq(Lines) BY <1>l
  <2> QED BY <1>0, <2>1, <2>2, <2>3, <2>4, WritesTyped
<1>11. CASE Answers(r)
  <2>1. PICK q \in helper[r].todo :
          Says(r, [helper[r] EXCEPT !.todo = @ \ {q}], <<Answer(q)>>)
    BY <1>11 DEF Answers
  <2>2. q \in Requests /\ helper[r].todo \ {q} \in SUBSET Requests
    BY <1>0 DEF HelperProcess
  <2>3. [helper[r] EXCEPT !.todo = @ \ {q}] \in HelperProcess
    BY <1>0, <2>2 DEF HelperProcess
  <2>4. <<Answer(q)>> \in Seq(Lines) BY <2>2, LineFacts
  <2> QED BY <1>0, <2>1, <2>3, <2>4, WritesTyped DEF Says
<1>12. CASE Breaks(r)
  <2>1. PICK line \in {"garbage", "closed"} : Says(r, helper[r], says(line))
    BY <1>12 DEF Breaks
  <2> HIDE DEF says
  <2>2. says(line) \in Seq(Lines) BY <1>l
  <2> QED BY <1>0, <2>1, <2>2, WritesTyped DEF Says
<1>13. CASE Dies(r)
  <2>1. NewProcess \in HelperProcess BY DEF NewProcess, HelperProcess, AccountState
  <2>2. Append(output[r], Line("closed")) \in Seq(Lines) /\ output[r] \in Seq(Lines)
    <3>1. Line("closed") \in Lines /\ output[r] \in Seq(Lines) BY LineFacts DEF TypeOK
    <3> QED BY <3>1
  <2>3. output' \in [Runs -> Seq(Lines)] BY <1>13, <2>2 DEF Dies, TypeOK
  <2>4. input' \in [Runs -> Seq(Command \cup {Shutdown})] BY <1>13 DEF Dies, TypeOK
  <2>5. helper' \in [Runs -> HelperProcess] BY <1>13, <2>1 DEF Dies, TypeOK
  <2> QED BY <1>13, <2>3, <2>4, <2>5 DEF Dies, TypeOK, shell, ghost
<1> QED BY <1>1, <1>2, <1>3, <1>4, <1>5, <1>6, <1>7, <1>8, <1>9, <1>10, <1>11, <1>12, <1>13
        DEF HelperStep

(* The types are inductive on their own.                                    *)
LEMMA NextTyped == TypeOK /\ [Next]_vars => TypeOK'
<1>1. ASSUME TypeOK, UNCHANGED vars PROVE TypeOK' BY <1>1 DEF vars, TypeOK
<1> QED BY <1>1, ShellTyped, TimerTyped, LineTyped, HelperTyped DEF Next

(* Every variable keeps its type: the queues of the supervisor hold only    *)
(* commands, and the pipes only commands and lines, through every filter.   *)
THEOREM TypesAreKept == Spec => []TypeOK
BY InitTyped, NextTyped, PTL DEF Spec

-----------------------------------------------------------------------------
(* Pairings: what the shell said of them, what waits in the supervisor, and *)
(* what crossed the pipes.                                                  *)

(* What holds of the pairing starts between two events: a number that a     *)
(* helper may still be told of is one that the shell gave out and did not   *)
(* take back; a phone that crossed a pipe waits nowhere; the newest pairing *)
(* start with a phone is the last word in its queue.                        *)
PairingInv ==
    /\ TypeOK /\ QueueInv(sup) /\ sup.written = <<>>
    /\ cancelled <= nextGen
    /\ \A g \in Told(sup) : g < nextGen /\ (g >= cancelled \/ sup.stopping)
    /\ \A g \in Generations :
         /\ phones[g] \in 0 .. 1
         /\ phones[g] = 1 => g < nextGen /\ BeginLink(g, TRUE) \notin Queue(sup)
    /\ \A c \in Queue(sup) : c.phone /\ c.gen + 1 = nextGen => IsLastWord(c, sup.held)

(* How often a pairing start with a phone is in a queue.                    *)
LEMMA PhoneCount ==
  ASSUME NEW S, NEW queue \in Seq(S), Once(queue), NEW c \in Pairings, c.phone
  PROVE  Cardinality({i \in DOMAIN queue : queue[i] = c}) =
           IF c \in Range(queue) THEN 1 ELSE 0
<1> DEFINE P == {i \in DOMAIN queue : queue[i] = c}
<1>1. CASE c \in Range(queue)
  <2>1. PICK i \in DOMAIN queue : queue[i] = c BY <1>1 DEF Range
  <2>2. P = {i} BY <2>1 DEF Once
  <2> HIDE DEF P
  <2>3. Cardinality(P) = 1 BY <2>2, FS_Singleton
  <2> QED BY <1>1, <2>3 DEF P
<1>2. CASE c \notin Range(queue)
  <2>1. P = {} BY <1>2 DEF Range
  <2> HIDE DEF P
  <2>2. Cardinality(P) = 0 BY <2>1, FS_EmptySet
  <2> QED BY <1>2, <2>2 DEF P
<1> QED BY <1>1, <1>2

(* What is in a queue that grew was in it or came to it.                    *)
LEMMA ConcatRange ==
  ASSUME NEW S, NEW a \in Seq(S), NEW b \in Seq(S)
  PROVE  Range(a \o b) \subseteq Range(a) \cup Range(b)
<1> SUFFICES ASSUME NEW i \in 1 .. Len(a) + Len(b)
             PROVE  (a \o b)[i] \in Range(a) \cup Range(b)
  <2>1. DOMAIN (a \o b) = 1 .. Len(a) + Len(b) OBVIOUS
  <2> QED BY <2>1 DEF Range
<1>1. CASE i <= Len(a)
  <2>1. (a \o b)[i] = a[i] /\ i \in DOMAIN a BY <1>1
  <2> QED BY <2>1 DEF Range
<1>2. CASE i > Len(a)
  <2>1. (a \o b)[i] = b[i - Len(a)] /\ i - Len(a) \in DOMAIN b BY <1>2
  <2> QED BY <2>1 DEF Range
<1> QED BY <1>1, <1>2

(* What the shell does in the step in which the supervisor goes to s.       *)
OtherWord(s) ==
    nextGen' = nextGen /\ cancelled' = cancelled /\ Moves(sup, s, {}) /\ Keeps(sup, s)
GivesUp(s) ==
    /\ nextGen' = nextGen /\ cancelled' = nextGen /\ Moves(sup, s, {})
    /\ Told(s) = {} \/ (sup.stopping /\ Keeps(sup, s))
Begins(s) ==
    /\ nextGen \in Generations /\ nextGen' = nextGen + 1 /\ cancelled' = cancelled
    /\ \E p \in BOOLEAN :
         LET c == BeginLink(nextGen, p) IN
         /\ Moves(sup, s, {c})
         /\ p /\ c \in Queue(s) => IsLastWord(c, s.held)

(* The supervisor goes to s: if the pairing starts of s are the old ones or *)
(* the one that the shell begins, and the shell's word is taken in the same *)
(* step, the invariant and the two action properties hold.                  *)
LEMMA BecomesMoves ==
  ASSUME PairingInv, TypeOK', NEW s, Becomes(s), QueueInv(s),
         OtherWord(s) \/ GivesUp(s) \/ Begins(s)
  PROVE  PairingInv' /\ WritesNoGivenUp /\ DropsNoPairing
<1>0. /\ nextGen \in Nat /\ cancelled \in Nat /\ sup \in SupervisorState
      /\ s \in SupervisorState /\ Generations \subseteq Nat
      /\ s.written \in Seq(Command \cup {Shutdown})
      /\ \A c \in Pairings : c.gen \in Generations
      /\ \A g \in Generations : BeginLink(g, TRUE) \in Pairings
  <2>1. nextGen \in Nat /\ cancelled \in Nat /\ sup \in SupervisorState
    BY DEF PairingInv, TypeOK
  <2>2. s \in SupervisorState BY DEF QueueInv
  <2>3. s.written \in Seq(Command \cup {Shutdown}) BY <2>2 DEF SupervisorState
  <2>4. \A c \in Pairings : c.gen \in Generations BY DEF Pairings, BeginLink
  <2> QED BY <2>1, <2>2, <2>3, <2>4, GenerationsAssumption, PairingFacts
<1>p. \A g \in Generations : phones[g] \in 0 .. 1 BY DEF PairingInv
<1>1. /\ sup' = [s EXCEPT !.written = <<>>]
      /\ sup'.link = s.link /\ sup'.greeted = s.greeted /\ sup'.held = s.held
      /\ sup'.wakeLink = s.wakeLink /\ sup'.replayLink = s.replayLink
      /\ sup'.written = <<>> /\ sup'.stopping = s.stopping
      /\ sup'.reported = s.reported
  BY <1>0 DEF Becomes
<1>2. /\ Queue(sup') = Queue(s) /\ Out(sup') = {} /\ Told(sup') \subseteq Told(s)
      /\ Once(sup'.written)
  BY <1>1 DEF Queue, Out, Told, GensOf, Range, Once
<1>3. QueueInv(sup') BY <1>1, <1>2 DEF QueueInv, TypeOK, HasLink
<1>4. PICK N : /\ Moves(sup, s, N)
               /\ N = {} \/ \E p \in BOOLEAN : N = {BeginLink(nextGen, p)} /\ Begins(s)
               /\ N = {} => OtherWord(s) \/ GivesUp(s)
               /\ \A c \in N : c.phone /\ c \in Queue(s) => IsLastWord(c, s.held)
  <2>1. CASE Begins(s)
    <3>1. PICK p \in BOOLEAN : /\ Moves(sup, s, {BeginLink(nextGen, p)})
                               /\ p /\ BeginLink(nextGen, p) \in Queue(s) =>
                                    IsLastWord(BeginLink(nextGen, p), s.held)
      BY <2>1 DEF Begins
    <3>2. BeginLink(nextGen, p).phone = p BY DEF BeginLink
    <3> QED BY <2>1, <3>1, <3>2
  <2>2. CASE OtherWord(s) \/ GivesUp(s) BY <2>2 DEF OtherWord, GivesUp
  <2> QED BY <2>1, <2>2
<1>5. /\ nextGen' \in Nat /\ nextGen <= nextGen' /\ cancelled' <= nextGen'
      /\ cancelled' \in Nat
  BY <1>0 DEF OtherWord, GivesUp, Begins, PairingInv
<1>6. \A c \in N : /\ c.gen = nextGen /\ nextGen' = nextGen + 1 /\ cancelled' = cancelled
  BY <1>4 DEF Begins, BeginLink
<1>7. \A g \in Told(s) : g < nextGen' /\ (g >= cancelled' \/ sup.stopping)
  <2> SUFFICES ASSUME NEW g \in Told(s)
               PROVE  g < nextGen' /\ (g >= cancelled' \/ sup.stopping)
    OBVIOUS
  <2>1. g \in Told(sup) \/ g \in GensOf(N) BY <1>4 DEF Moves
  <2>0. g \in Nat BY <1>0 DEF Told, GensOf, Queue, Out, SupervisorState, NoGen
  <2>2. CASE g \in GensOf(N) BY <1>0, <1>5, <1>6, <2>2 DEF GensOf, PairingInv
  <2>3. CASE g \in Told(sup)
    <3>1. g < nextGen /\ (g >= cancelled \/ sup.stopping) BY <2>3 DEF PairingInv
    <3>2. cancelled' = cancelled \/ sup.stopping BY DEF OtherWord, GivesUp, Begins
    <3> QED BY <1>0, <1>5, <2>0, <3>1, <3>2
  <2> QED BY <2>1, <2>2, <2>3
<1>8. sup.stopping => s.stopping BY <1>4 DEF Moves
<1>9. \A g \in Told(sup') : g < nextGen' /\ (g >= cancelled' \/ sup'.stopping)
  BY <1>1, <1>2, <1>7, <1>8
<1>10. ASSUME NEW g \in Generations
       PROVE  LET c == BeginLink(g, TRUE) IN
              /\ phones'[g] = IF c \in Out(s) THEN phones[g] + 1 ELSE phones[g]
              /\ c.phone /\ c.gen = g /\ c \in Pairings
  <2> DEFINE c == BeginLink(g, TRUE)
             n == Cardinality({i \in DOMAIN s.written : s.written[i] = c})
  <2>1. c \in Pairings /\ c.phone /\ c.gen = g BY <1>0 DEF BeginLink
  <2>2. n = IF c \in Range(s.written) THEN 1 ELSE 0
    <3>1. Once(s.written) BY DEF QueueInv
    <3> HIDE DEF c
    <3> QED BY <1>0, <2>1, <3>1, PhoneCount
  <2>3. phones'[g] = phones[g] + n BY DEF Becomes
  <2>4. phones[g] \in Nat BY <1>p
  <2> HIDE DEF n, c
  <2>5. phones'[g] = IF c \in Out(s) THEN phones[g] + 1 ELSE phones[g]
    BY <2>1, <2>2, <2>3, <2>4 DEF Out
  <2> QED BY <2>1, <2>5 DEF c
<1>11. ASSUME NEW g \in Generations
       PROVE  /\ phones'[g] \in 0 .. 1
              /\ phones'[g] = 1 => g < nextGen' /\ BeginLink(g, TRUE) \notin Queue(sup')
  <2> DEFINE c == BeginLink(g, TRUE)
  <2>1. /\ phones'[g] = IF c \in Out(s) THEN phones[g] + 1 ELSE phones[g]
        /\ c.phone /\ c.gen = g /\ c \in Pairings
    BY <1>10
  <2>2. /\ phones[g] \in 0 .. 1
        /\ phones[g] = 1 => g < nextGen /\ c \notin Queue(sup)
    BY DEF PairingInv
  <2>3. c \in Queue(s) \cup Out(s) => c \in Queue(sup) \cup N BY <1>4, <2>1 DEF Moves
  <2> HIDE DEF c
  <2>4. c \in N => g = nextGen BY <1>6, <2>1
  <2>5. g \in Nat BY <1>0
  <2>6. CASE c \in Out(s)
    <3>1. phones[g] = 0 /\ phones'[g] = 1 BY <1>0, <2>1, <2>2, <2>3, <2>4, <2>5, <2>6
    <3>2. g \in Told(s) BY <2>1, <2>6 DEF Told, GensOf
    <3>3. Queue(s) = {}
      <4>1. s.greeted /\ s.held = <<>> /\ s.wakeLink = <<>> BY <2>6 DEF QueueInv
      <4> QED BY <4>1 DEF Queue, Range
    <3> QED BY <1>2, <1>7, <3>1, <3>2, <3>3 DEF c
  <2>7. CASE c \notin Out(s)
    <3>1. phones'[g] = phones[g] BY <2>1, <2>7
    <3>2. phones[g] = 1 => g < nextGen' /\ c \notin Queue(s)
      BY <1>0, <1>5, <2>2, <2>3, <2>4, <2>5
    <3> QED BY <1>2, <2>2, <3>1, <3>2 DEF c
  <2> QED BY <2>6, <2>7
<1>12. ASSUME NEW c \in Queue(s), c.phone, c.gen + 1 = nextGen'
       PROVE  IsLastWord(c, s.held)
  <2>1. c \in Queue(sup) \/ c \in N BY <1>4, <1>12 DEF Moves
  <2>2. c \in N => IsLastWord(c, s.held) BY <1>4, <1>12
  <2>3. c.gen \in Nat BY <1>0 DEF Queue
  <2>4. CASE c \in Queue(sup) /\ c \notin N
    <3>1. c.gen < nextGen BY <2>4 DEF Told, GensOf, PairingInv
    <3>2. nextGen' = nextGen
      BY <1>0, <1>4, <1>6, <1>12, <2>3, <3>1 DEF OtherWord, GivesUp
    <3>3. IsLastWord(c, sup.held) BY <1>12, <2>4, <3>2 DEF PairingInv
    <3>4. Told(s) # {} BY DEF Told, GensOf
    <3>5. OtherWord(s) \/ GivesUp(s) BY <1>0, <3>2 DEF Begins
    <3>6. Keeps(sup, s) BY <3>4, <3>5 DEF OtherWord, GivesUp
    <3> QED BY <1>12, <2>4, <3>3, <3>6 DEF Keeps
  <2> QED BY <2>1, <2>2, <2>4
<1>13. \A c \in Queue(sup') : c.phone /\ c.gen + 1 = nextGen' => IsLastWord(c, sup'.held)
  BY <1>1, <1>2, <1>12
<1>14. PairingInv' BY <1>1, <1>3, <1>5, <1>9, <1>11, <1>13 DEF PairingInv
<1>15. WritesNoGivenUp
  <2> SUFFICES ASSUME NEW r \in Runs, NEW c \in Range(input'[r]) \ Range(input[r]), IsBegin(c)
               PROVE  c.gen >= cancelled' \/ sup.stopping
    BY DEF WritesNoGivenUp
  <2>1. input[r] \in Seq(Command \cup {Shutdown}) BY DEF PairingInv, TypeOK
  <2>2. /\ input'[r] = input[r] \o s.written
    <3>1. input'[r] = <<>> \/ input'[r] = input[r] \o s.written \/ input'[r] = input[r]
      BY DEF Becomes
    <3>2. Range(<<>>) = {} BY DEF Range
    <3> QED BY <3>1, <3>2
  <2>3. c \in Range(s.written)
    <3>1. Range(input'[r]) \subseteq Range(input[r]) \cup Range(s.written)
      BY <1>0, <2>1, <2>2, ConcatRange
    <3> QED BY <3>1
  <2>4. c \in Command \cup {Shutdown} /\ c.type = "begin"
    BY <1>0, <2>3 DEF Range, IsBegin
  <2>5. c \in Pairings BY <2>4, PairingFacts DEF Shutdown
  <2>6. c.gen \in Told(s) BY <2>3, <2>5 DEF Told, GensOf, Out
  <2> QED BY <1>7, <2>6
<1>16. DropsNoPairing
  <2> SUFFICES ASSUME NEW g \in Generations \ TooLong, PhoneWaits(g)
               PROVE  \/ PhoneWaits(g)'
                      \/ phones'[g] > phones[g]
                      \/ g < cancelled'
                      \/ g + 1 < nextGen'
                      \/ sup'.reported \in {"Stopped", "Missing"}
                      \/ sup'.stopping
    BY DEF DropsNoPairing
  <2> DEFINE c == BeginLink(g, TRUE)
  <2>1. /\ phones'[g] = IF c \in Out(s) THEN phones[g] + 1 ELSE phones[g]
        /\ c.phone /\ c.gen = g /\ c \in Pairings
    BY <1>10
  <2>2. c \in Queue(sup) BY <2>1 DEF PhoneWaits, Queue
  <2>3. Fits(c) BY DEF Fits, BeginLink
  <2> HIDE DEF c
  <2>4. g \in Nat /\ g < nextGen BY <1>0, <2>1, <2>2 DEF PairingInv, Told, GensOf
  <2>5. CASE Begins(s) \/ (GivesUp(s) /\ ~sup.stopping)
    BY <1>0, <2>4, <2>5 DEF Begins, GivesUp
  <2>6. CASE GivesUp(s) /\ sup.stopping BY <1>1, <1>8, <2>6
  <2>7. CASE OtherWord(s)
    <3>1. CASE g + 1 # nextGen BY <1>0, <2>4, <2>7, <3>1 DEF OtherWord
    <3>2. CASE g + 1 = nextGen
      <4>1. IsLastWord(c, sup.held) BY <2>1, <2>2, <3>2 DEF PairingInv
      <4>2. \/ c \in Queue(s) \cup Out(s)
            \/ s.reported \in {"Stopped", "Missing"} \/ s.stopping
        BY <2>1, <2>2, <2>3, <2>7, <4>1 DEF OtherWord, Keeps
      <4>3. c \in Queue(s) => PhoneWaits(g)' BY <1>1 DEF Queue, PhoneWaits, c
      <4>4. c \in Out(s) => phones'[g] > phones[g] BY <1>p, <2>1
      <4> QED BY <1>1, <4>2, <4>3, <4>4
    <3> QED BY <3>1, <3>2
  <2> QED BY <2>5, <2>6, <2>7
<1> QED BY <1>14, <1>15, <1>16

(* A step keeps the invariant, writes no pairing start that was given up,   *)
(* and drops none that waits with its phone.                                *)
PairingStep == PairingInv' /\ WritesNoGivenUp /\ DropsNoPairing

(* A step of the supervisor that no word of the shell about a pairing       *)
(* causes.                                                                  *)
LEMMA OtherStep ==
  ASSUME PairingInv, TypeOK', NEW s, Becomes(s), QueueInv(s), Moves(sup, s, {}), Keeps(sup, s),
         nextGen' = nextGen, cancelled' = cancelled
  PROVE  PairingStep
BY BecomesMoves DEF OtherWord, PairingStep

(* A step that the supervisor takes no part in.                             *)
LEMMA StillStep ==
  ASSUME PairingInv, TypeOK', sup' = sup, phones' = phones, nextGen' = nextGen,
         cancelled' = cancelled,
         \A r \in Runs : Range(input'[r]) \subseteq Range(input[r])
  PROVE  PairingStep
<1>1. PairingInv' BY DEF PairingInv
<1>2. WritesNoGivenUp BY DEF WritesNoGivenUp
<1>3. DropsNoPairing BY DEF DropsNoPairing, PhoneWaits
<1> QED BY <1>1, <1>2, <1>3 DEF PairingStep

(* The supervisor stays as it is, and writes nothing.                       *)
LEMMA SameStep ==
  ASSUME PairingInv, TypeOK', Becomes(sup), nextGen' = nextGen, cancelled' = cancelled
  PROVE  PairingStep
<1>1. QueueInv(sup) /\ sup.written = <<>> /\ sup \in SupervisorState /\ SameQueue(sup, sup)
  BY DEF PairingInv, QueueInv, SameQueue
<1>2. Moves(sup, sup, {}) /\ Keeps(sup, sup) BY <1>1, SameQueueFacts
<1> QED BY <1>1, <1>2, OtherStep

(* A command of the shell: a word about a pairing, or another one.          *)
LEMMA CommandsStep ==
  ASSUME PairingInv, TypeOK', NEW c \in Command, Commands(c),
         \/ c \notin Words /\ nextGen' = nextGen /\ cancelled' = cancelled
         \/ c = CancelLink /\ nextGen' = nextGen /\ cancelled' = nextGen
         \/ /\ nextGen \in Generations /\ nextGen' = nextGen + 1 /\ cancelled' = cancelled
            /\ \E p \in BOOLEAN : c = BeginLink(nextGen, p)
  PROVE  PairingStep
<1>1. PICK start \in Starts(sup.alive, Unused) :
        Becomes(OnCommand(sup, c, start[1], start[2]))
  BY DEF Commands, Acts
<1> DEFINE s == OnCommand(sup, c, start[1], start[2])
<1>2. start[1] \in Outcomes /\ (start[1] = "started" => start[2] \in Runs)
  BY StartsOutcome DEF Unused
<1>3. /\ IsBegin(c) <=> c \in Pairings
      /\ c \in Words <=> c \in Pairings \/ c = CancelLink
      /\ c = CancelLink => ~IsBegin(c)
      /\ QueueInv(sup) /\ sup.written = <<>> /\ nextGen \in Nat
  BY PairingFacts DEF Words, PairingInv, TypeOK, IsBegin
<1>4. IsBegin(c) => c \notin Queue(sup)
  <2> SUFFICES ASSUME IsBegin(c), c \in Queue(sup) PROVE FALSE
    OBVIOUS
  <2>1. c.gen < nextGen BY DEF PairingInv, Told, GensOf
  <2>2. c.gen = nextGen BY <1>3 DEF BeginLink
  <2> QED BY <1>3, <2>1, <2>2
<1>5. CommandMoves(sup, s, c) BY <1>2, <1>3, <1>4, OnCommandMoves
<1>6. Becomes(s) BY <1>1
<1> HIDE DEF s
<1>7. OtherWord(s) \/ GivesUp(s) \/ Begins(s)
  <2>1. CASE c \notin Words /\ nextGen' = nextGen /\ cancelled' = cancelled
    BY <1>3, <1>5, <2>1 DEF CommandMoves, Added, OtherWord
  <2>2. CASE c = CancelLink /\ nextGen' = nextGen /\ cancelled' = nextGen
    BY <1>3, <1>5, <2>2 DEF CommandMoves, Added, GivesUp
  <2>3. CASE /\ nextGen \in Generations /\ nextGen' = nextGen + 1 /\ cancelled' = cancelled
             /\ \E p \in BOOLEAN : c = BeginLink(nextGen, p)
    <3>1. PICK p \in BOOLEAN : c = BeginLink(nextGen, p) BY <2>3
    <3>2. IsBegin(c) /\ c.phone = p BY <3>1 DEF IsBegin, BeginLink
    <3>3. Moves(sup, s, {c}) /\ (p /\ c \in Queue(s) => IsLastWord(c, s.held))
      BY <1>5, <3>2 DEF CommandMoves, Added
    <3> QED BY <2>3, <3>1, <3>3 DEF Begins
  <2> QED BY <2>1, <2>2, <2>3
<1>8. QueueInv(s) BY <1>5 DEF CommandMoves
<1> QED BY <1>6, <1>7, <1>8, BecomesMoves DEF PairingStep

(* Every step of the shell is such a step.                                  *)
LEMMA ShellPairs == ASSUME PairingInv, TypeOK', ShellStep PROVE PairingStep
<1>0. /\ QueueInv(sup) /\ sup.written = <<>> /\ sup \in SupervisorState
      /\ {AcknowledgeGate, CancelLink, Load} \subseteq Command
      /\ {AcknowledgeGate, Load} \cap Words = {}
  <2>1. ~IsBegin(AcknowledgeGate) /\ ~IsBegin(Load)
    BY DEF IsBegin, AcknowledgeGate, Load
  <2>2. AcknowledgeGate # CancelLink /\ Load # CancelLink
    BY DEF AcknowledgeGate, Load, CancelLink
  <2> QED BY <2>1, <2>2, PairingFacts DEF PairingInv, QueueInv, Words
<1>1. CASE AcceptGate BY <1>0, <1>1, CommandsStep DEF AcceptGate
<1>2. ASSUME NEW phone \in {FALSE, HasPairCode}, StartPairing(phone) PROVE PairingStep
  <2>1. phone \in BOOLEAN /\ nextGen \in Generations
    BY <1>2, HasPairCodeAssumption DEF StartPairing
  <2>2. BeginLink(nextGen, phone) \in Command BY <2>1, PairingFacts
  <2> QED BY <1>2, <2>1, <2>2, CommandsStep DEF StartPairing
<1>3. CASE Cancel BY <1>0, <1>3, CommandsStep DEF Cancel
<1>4. CASE LinkWithPhone BY <1>0, <1>4, CommandsStep DEF LinkWithPhone
<1>5. ASSUME NEW q \in Requests, Send(q) PROVE PairingStep
  <2>1. SendText(q) \in Command /\ SendText(q).type = "send"
    BY PairingFacts DEF SendText
  <2>2. ~IsBegin(SendText(q)) /\ SendText(q) # CancelLink
    BY <2>1 DEF IsBegin, CancelLink
  <2>3. SendText(q) \notin Words BY <2>1, <2>2, PairingFacts DEF Words
  <2> QED BY <1>5, <2>1, <2>3, CommandsStep DEF Send
<1>6. CASE LoadChats
  <2> DEFINE loading == [sup EXCEPT !.loading = TRUE]
             s == OnCommand(loading, Load, "failed", NoRun)
  <2>1. loading \in SupervisorState /\ SameQueue(sup, loading)
    BY <1>0 DEF SupervisorState, SameQueue
  <2>2. Becomes(s) /\ nextGen' = nextGen /\ cancelled' = cancelled
    BY <1>6 DEF LoadChats, Acts, shell
  <2> HIDE DEF loading
  <2>3. QueueInv(loading) /\ loading.written = <<>>
    BY <1>0, <2>1, SameQueueFacts DEF SameQueue
  <2>4. ~IsBegin(Load) BY DEF IsBegin, Load
  <2>5. CommandMoves(loading, s, Load) BY <1>0, <2>3, <2>4, OnCommandMoves DEF Outcomes
  <2> HIDE DEF s
  <2>6. QueueInv(s) /\ Moves(loading, s, {}) /\ Keeps(loading, s)
    BY <1>0, <2>4, <2>5 DEF CommandMoves, Added
  <2>7. Moves(sup, s, {}) /\ Keeps(sup, s) BY <2>1, <2>6, SameQueueThen
  <2> QED BY <2>2, <2>6, <2>7, OtherStep
<1>7. CASE RestartHelper
  <2>1. PICK start \in Starts(sup.alive, Unused) : Becomes(OnRestart(sup, start[1], start[2]))
    BY <1>7 DEF RestartHelper, Acts
  <2>2. start[1] \in Outcomes /\ (start[1] = "started" => start[2] \in Runs)
    BY StartsOutcome DEF Unused
  <2> DEFINE s == OnRestart(sup, start[1], start[2])
  <2>3. QueueInv(s) /\ Moves(sup, s, {}) /\ Keeps(sup, s) BY <1>0, <2>2, OnRestartMoves
  <2> QED BY <1>7, <2>1, <2>3, OtherStep DEF RestartHelper, shell
<1>8. CASE Close
  <2>1. QueueInv(OnShutdown(sup)) /\ Moves(sup, OnShutdown(sup), {}) /\ Keeps(sup, OnShutdown(sup))
    BY <1>0, OnShutdownMoves
  <2> QED BY <1>8, <2>1, OtherStep DEF Close, Acts, shell
<1> QED BY <1>1, <1>2, <1>3, <1>4, <1>5, <1>6, <1>7, <1>8 DEF ShellStep

(* The helper of the link ended, one way or another.                        *)
LEMMA EndStep ==
  ASSUME PairingInv, TypeOK', HasLink(sup), NEW stable \in BOOLEAN,
         Becomes(HelperEnded(sup, stable)) \/ Becomes(OnHelperGone(sup, stable)),
         nextGen' = nextGen, cancelled' = cancelled
  PROVE  PairingStep
<1>1. PICK s : Becomes(s) /\ QueueInv(s) /\ Moves(sup, s, {}) /\ Keeps(sup, s)
  BY HelperEndedMoves, OnHelperGoneMoves DEF PairingInv
<1> QED BY <1>1, OtherStep

(* Every deadline of the supervisor is such a step.                         *)
LEMMA TimerPairs == ASSUME IInv, PairingInv, TypeOK', TimerStep PROVE PairingStep
<1>0. QueueInv(sup) /\ sup.written = <<>> /\ sup \in SupervisorState
  BY DEF PairingInv, QueueInv
<1>1. CASE RestartTimer
  <2> DEFINE base == [sup EXCEPT !.restartArmed = FALSE]
  <2>1. PICK start \in Starts(sup.alive, Unused) : Becomes(Launch(base, start[1], start[2]))
    BY <1>1 DEF RestartTimer, Acts
  <2>2. start[1] \in Outcomes /\ (start[1] = "started" => start[2] \in Runs)
    BY StartsOutcome DEF Unused
  <2>3. base \in SupervisorState /\ SameQueue(sup, base)
    BY <1>0 DEF SupervisorState, SameQueue
  <2> HIDE DEF base
  <2>4. QueueInv(base) /\ base.written = <<>>
    BY <1>0, <2>3, SameQueueFacts DEF SameQueue
  <2> DEFINE s == Launch(base, start[1], start[2])
  <2>5. QueueInv(s) /\ Moves(base, s, {}) /\ Keeps(base, s) BY <2>2, <2>4, LaunchMoves
  <2>6. Becomes(s) /\ nextGen' = nextGen /\ cancelled' = cancelled
    BY <1>1, <2>1 DEF RestartTimer, shell
  <2> HIDE DEF s
  <2>7. Moves(sup, s, {}) /\ Keeps(sup, s) BY <2>3, <2>5, SameQueueThen
  <2> QED BY <2>5, <2>6, <2>7, OtherStep
<1>2. CASE StopTimer
  <2>1. sup.stopping BY <1>2 DEF StopTimer, IInv, SupervisorInv, StopInv
  <2> DEFINE s == FinishStop(sup)
  <2>2. QueueInv(s) /\ Moves(sup, s, {}) /\ Keeps(sup, s) BY <1>0, <2>1, FinishStopMoves
  <2> QED BY <1>2, <2>2, OtherStep DEF StopTimer, Acts, shell
<1>3. CASE OldExitTimer
  <2> DEFINE base == [sup EXCEPT !.startWaits = FALSE]
             s == StopFor(base)
  <2>1. base \in SupervisorState /\ SameQueue(sup, base)
    BY <1>0 DEF SupervisorState, SameQueue
  <2>2. Becomes(s) /\ nextGen' = nextGen /\ cancelled' = cancelled
    BY <1>3 DEF OldExitTimer, Acts, shell
  <2> HIDE DEF base
  <2>3. QueueInv(base) /\ base.written = <<>>
    BY <1>0, <2>1, SameQueueFacts DEF SameQueue
  <2>4. QueueInv(s) /\ Moves(base, s, {}) /\ Keeps(base, s) BY <2>3, StopForMoves
  <2> HIDE DEF s
  <2>5. Moves(sup, s, {}) /\ Keeps(sup, s) BY <2>1, <2>4, SameQueueThen
  <2> QED BY <2>2, <2>4, <2>5, OtherStep
<1>4. CASE DrainTimer
  <2>1. PICK stable \in Stable : Becomes(OnHelperGone(sup, stable))
    BY <1>4 DEF DrainTimer, Acts
  <2> QED BY <1>4, <2>1, EndStep DEF DrainTimer, Stable, shell
<1>5. CASE HelloTimer BY <1>5, EndStep DEF HelloTimer, Acts, shell
<1>6. CASE BusyTimer
  <2> DEFINE s == Report(sup, "Busy")
  <2>1. QueueInv(s) /\ Moves(sup, s, {}) /\ Keeps(sup, s) BY <1>0, EventsMove
  <2> QED BY <1>6, <2>1, OtherStep DEF BusyTimer, Acts, shell
<1> QED BY <1>1, <1>2, <1>3, <1>4, <1>5, <1>6 DEF TimerStep

(* Every exit and every line is such a step.                                *)
LEMMA LinePairs == ASSUME IInv, PairingInv, TypeOK', NEW r \in Runs, LineStep(r) PROVE PairingStep
<1>0. /\ QueueInv(sup) /\ sup.written = <<>> /\ sup \in SupervisorState /\ r # NoRun
      /\ output[r] \in Seq(Lines)
  BY RunsAssumption DEF PairingInv, TypeOK
<1>1. CASE Exited(r)
  <2>1. PICK start \in Starts(sup.alive \ {r}, (Unused \cup {r}) \ reading) :
          Becomes(OnExited(sup, r, start[1], start[2]))
    BY <1>1 DEF Exited, Acts
  <2>2. start[1] \in Outcomes /\ (start[1] = "started" => start[2] \in Runs)
    BY StartsOutcome DEF Unused
  <2> DEFINE s == OnExited(sup, r, start[1], start[2])
  <2>3. QueueInv(s) /\ Moves(sup, s, {}) /\ Keeps(sup, s) BY <1>0, <2>2, OnExitedMoves
  <2> QED BY <1>1, <2>1, <2>3, OtherStep DEF Exited, shell
<1>2. CASE Hello(r)
  <2> DEFINE s == OnHello(sup)
  <2>1. HasLink(sup) BY <1>0, <1>2 DEF Hello, Reads, HasLink
  <2>2. QueueInv(s) /\ Moves(sup, s, {}) /\ Keeps(sup, s) BY <1>0, <2>1, OnHelloMoves
  <2> QED BY <1>2, <2>2, OtherStep DEF Hello, Takes, shell
<1>3. CASE Refused(r)
  <2> DEFINE s == StopFor(sup)
  <2>1. QueueInv(s) /\ Moves(sup, s, {}) /\ Keeps(sup, s) BY <1>0, StopForMoves
  <2> QED BY <1>3, <2>1, OtherStep DEF Refused, Takes, shell
<1>4. CASE Ack(r)
  <2>1. PICK slow \in BOOLEAN : Takes(r, OnAck(sup, slow)) BY <1>4 DEF Ack
  <2> DEFINE s == OnAck(sup, slow)
  <2>2. QueueInv(s) /\ Moves(sup, s, {}) /\ Keeps(sup, s) BY <1>0, EventsMove
  <2> QED BY <2>1, <2>2, OtherStep DEF Takes, shell
<1>5. CASE AccountEvent(r)
  <2> DEFINE s == OnAccount(sup, Head(output[r]).type)
  <2>1. Takes(r, s) /\ Head(output[r]).type \in AccountState
    BY <1>5 DEF AccountEvent, Reads, Next1
  <2>2. QueueInv(s) /\ Moves(sup, s, {}) /\ Keeps(sup, s) BY <1>0, <2>1, EventsMove
  <2> QED BY <2>1, <2>2, OtherStep DEF Takes, shell
<1>6. CASE AccountEnded(r)
  <2> DEFINE s == EndPairing(sup)
  <2>1. QueueInv(s) /\ Moves(sup, s, {}) /\ Keeps(sup, s) BY <1>0, EventsMove
  <2> QED BY <1>6, <2>1, OtherStep DEF AccountEnded, Takes, shell
<1>7. CASE SendAnswer(r)
  <2> DEFINE q == Head(output[r]).req
             s == OnSendAnswer(sup, q)
  <2>1. Takes(r, s) BY <1>7 DEF SendAnswer
  <2>2. Head(output[r]) \in Lines /\ Head(output[r]).type = "answer"
    BY <1>0, <1>7 DEF SendAnswer, Reads, Next1
  <2>3. q \in Requests BY <2>2 DEF Lines, Line, Answer
  <2> HIDE DEF q
  <2>4. QueueInv(s) /\ Moves(sup, s, {}) /\ Keeps(sup, s) BY <1>0, <2>3, EventsMove
  <2> QED BY <2>1, <2>4, OtherStep DEF Takes, shell
<1>8. CASE Loaded(r)
  <2> DEFINE s == [sup EXCEPT !.loading = FALSE]
  <2>1. QueueInv(s) /\ Moves(sup, s, {}) /\ Keeps(sup, s) BY <1>0, EventsMove
  <2>2. Takes(r, s) BY <1>8 DEF Loaded
  <2> HIDE DEF s
  <2> QED BY <2>1, <2>2, OtherStep DEF Takes, shell
<1>9. CASE HelperStopped(r)
  <2>1. CASE sup.stopping
    <3> DEFINE s == FinishStop(sup)
    <3>1. QueueInv(s) /\ Moves(sup, s, {}) /\ Keeps(sup, s)
      BY <1>0, <2>1, FinishStopMoves
    <3> QED BY <1>9, <2>1, <3>1, OtherStep DEF HelperStopped, Takes, shell
  <2>2. CASE ~sup.stopping BY <1>9, <2>2, SameStep DEF HelperStopped, Takes, shell
  <2> QED BY <2>1, <2>2
<1>10. CASE OutOfPlace(r)
  <2>1. PICK stable \in Stable : Takes(r, HelperEnded(sup, stable))
    BY <1>10 DEF OutOfPlace
  <2>2. stable \in BOOLEAN /\ HasLink(sup)
    BY <1>0, <1>10 DEF Stable, OutOfPlace, Reads, HasLink
  <2> QED BY <2>1, <2>2, EndStep DEF Takes, shell
<1>11. CASE OutputEnded(r)
  <2>1. nextGen' = nextGen /\ cancelled' = cancelled BY <1>11 DEF OutputEnded, shell
  <2>2. CASE sup.link = r
    <3>1. PICK stable \in Stable : Becomes(OnHelperGone(sup, stable))
      BY <1>11, <2>2 DEF OutputEnded
    <3>2. stable \in BOOLEAN /\ HasLink(sup) BY <1>0, <2>2 DEF Stable, HasLink
    <3> QED BY <2>1, <3>1, <3>2, EndStep
  <2>3. CASE sup.link # r BY <1>11, <2>1, <2>3, SameStep DEF OutputEnded
  <2> QED BY <2>2, <2>3
<1>12. CASE StaleLine(r) BY <1>12, SameStep DEF StaleLine, Takes, shell
<1> QED BY <1>1, <1>2, <1>3, <1>4, <1>5, <1>6, <1>7, <1>8, <1>9, <1>10, <1>11, <1>12 DEF LineStep

(* A helper process takes commands out of its pipe and puts none in.        *)
LEMMA HelperPairs == ASSUME PairingInv, TypeOK', NEW r \in Runs, HelperStep(r) PROVE PairingStep
<1>1. sup' = sup /\ phones' = phones /\ nextGen' = nextGen /\ cancelled' = cancelled
  <2>1. CASE Dies(r) BY <2>1 DEF Dies, shell, ghost
  <2>2. CASE Speaks(r) \/ Resumes(r) \/ Answers(r) \/ Breaks(r)
    BY <2>2 DEF Speaks, Resumes, Answers, Breaks, Says, Writes, shell, ghost
  <2>3. CASE \/ TakesGate(r) \/ TakesBegin(r) \/ TakesCancel(r)
             \/ TakesSend(r) \/ TakesLoad(r) \/ TakesShutdown(r)
    BY <2>3 DEF TakesGate, TakesBegin, TakesCancel, TakesSend, TakesLoad, TakesShutdown,
                Serves, Writes, shell, ghost
  <2>4. CASE Links(r) \/ Unlinks(r) BY <2>4 DEF Links, Unlinks, Writes, shell, ghost
  <2> QED BY <2>1, <2>2, <2>3, <2>4 DEF HelperStep
<1>2. \/ input' = input
      \/ input' = [input EXCEPT ![r] = <<>>]
      \/ input[r] # <<>> /\ input' = [input EXCEPT ![r] = Tail(@)]
  <2>1. CASE Dies(r) BY <2>1 DEF Dies
  <2>2. CASE Speaks(r) \/ Resumes(r) \/ Answers(r) \/ Breaks(r)
    BY <2>2 DEF Speaks, Resumes, Answers, Breaks, Says
  <2>3. CASE \/ TakesGate(r) \/ TakesBegin(r) \/ TakesCancel(r)
             \/ TakesSend(r) \/ TakesLoad(r) \/ TakesShutdown(r)
    BY <2>3 DEF TakesGate, TakesBegin, TakesCancel, TakesSend, TakesLoad, TakesShutdown, Serves
  <2>4. CASE Links(r) \/ Unlinks(r) BY <2>4 DEF Links, Unlinks
  <2> QED BY <2>1, <2>2, <2>3, <2>4 DEF HelperStep
<1>3. input \in [Runs -> Seq(Command \cup {Shutdown})] BY DEF PairingInv, TypeOK
<1>4. /\ Range(<<>>) = {}
      /\ input[r] # <<>> => Range(Tail(input[r])) \subseteq Range(input[r])
  <2>1. input[r] \in Seq(Command \cup {Shutdown}) BY <1>3
  <2> DEFINE queue == input[r]
  <2>2. queue # <<>> => \A i \in DOMAIN Tail(queue) :
                          i + 1 \in DOMAIN queue /\ Tail(queue)[i] = queue[i + 1]
    <3> HIDE DEF queue
    <3> QED BY <2>1 DEF queue
  <2> QED BY <2>2 DEF Range
<1>5. \A p \in Runs : Range(input'[p]) \subseteq Range(input[p]) BY <1>2, <1>3, <1>4
<1> QED BY <1>1, <1>5, StillStep

(* No pairing was started when the adapter starts.                          *)
LEMMA InitPairs == Init => PairingInv
<1> SUFFICES ASSUME Init PROVE PairingInv
  OBVIOUS
<1>1. TypeOK BY InitTyped
<1>2. /\ sup.link = NoRun /\ sup.held = <<>> /\ ~sup.greeted /\ sup.wakeLink = <<>>
      /\ sup.written = <<>> /\ sup.replayLink = NoGen
  BY DEF Init, InitialSupervisor
<1>3. Queue(sup) = {} /\ Out(sup) = {} /\ Once(sup.held) /\ Once(sup.written)
  BY <1>2 DEF Queue, Out, Range, Once
<1>4. Told(sup) = {} BY <1>2, <1>3 DEF Told, GensOf
<1>5. QueueInv(sup) BY <1>1, <1>2, <1>3 DEF QueueInv, TypeOK
<1>6. cancelled <= nextGen /\ \A g \in Generations : phones[g] = 0 BY DEF Init
<1> QED BY <1>1, <1>2, <1>3, <1>4, <1>5, <1>6 DEF PairingInv

(* Every step keeps the invariant and is allowed by the two properties.     *)
LEMMA NextPairs == IInv /\ PairingInv /\ Next => PairingStep
<1> SUFFICES ASSUME IInv, PairingInv, Next PROVE PairingStep
  OBVIOUS
<1>1. TypeOK' BY NextTyped DEF PairingInv
<1> QED BY <1>1, ShellPairs, TimerPairs, LinePairs, HelperPairs DEF Next

(* So does a step that changes nothing.                                     *)
LEMMA StutterPairs == PairingInv /\ UNCHANGED vars => PairingStep
<1> SUFFICES ASSUME PairingInv, UNCHANGED vars PROVE PairingStep
  OBVIOUS
<1>1. TypeOK' BY NextTyped DEF PairingInv
<1> QED BY <1>1, StillStep DEF vars

(* The invariant about pairings holds in every state that is reached.       *)
THEOREM PairingInvariance == Spec => []PairingInv
<1>1. Init => PairingInv BY InitPairs
<1>2. IInv /\ PairingInv /\ [Next]_vars => PairingInv'
  BY NextPairs, StutterPairs DEF PairingStep
<1> QED BY <1>1, <1>2, Invariance, PTL DEF Spec

(* The phone number of a pairing crosses a pipe at most once, whatever      *)
(* helpers crash, hang and restart: the start that a helper got is replayed *)
(* without its phone (launch, Replay, end_unsent; ADR 0012).                *)
THEOREM PhonesCrossOnce == Spec => []PhoneCrossesOnce
<1>1. PairingInv => PhoneCrossesOnce
  <2> SUFFICES ASSUME PairingInv, NEW g \in Generations PROVE phones[g] <= 1
    BY DEF PhoneCrossesOnce
  <2>1. phones[g] \in 0 .. 1 BY DEF PairingInv
  <2> QED BY <2>1
<1> QED BY PairingInvariance, <1>1, PTL

(* After a cancel no pairing that the user gave up is written to a helper:  *)
(* the cancel takes it out of the queue of a helper that starts, out of     *)
(* wake_link and out of the replay (send, give_up_link, Replay::note).      *)
THEOREM CancelsWin == Spec => CancelWins
<1>1. IInv /\ PairingInv /\ [Next]_vars => [WritesNoGivenUp]_vars
  BY NextPairs DEF PairingStep
<1> QED BY <1>1, Invariance, PairingInvariance, PTL DEF Spec, CancelWins

(* A pairing start with a phone that no helper got is not lost: through every*)
(* crash, hang and launch it waits with its phone, until it goes out, the   *)
(* user has a newer word, or the row says Stopped or Missing (end_unsent).  *)
THEOREM PairingsAreKept == Spec => PairingKept
<1>1. IInv /\ PairingInv /\ [Next]_vars => [DropsNoPairing]_vars
  BY NextPairs DEF PairingStep
<1> QED BY <1>1, Invariance, PairingInvariance, PTL DEF Spec, PairingKept

-----------------------------------------------------------------------------
(* The send contract: where the sends of the shell are between two events.  *)

(* The requests that a queue names, where m says how it names a request.    *)
Named(m, queue) == {q \in Requests : m[q] \in Range(queue)}

NamedOnce(m, queue) ==
    \A q \in Requests : \A i, j \in DOMAIN queue :
      queue[i] = m[q] /\ queue[j] = m[q] => i = j

SendNames == [q \in Requests |-> SendText(q)]
AnswerNames == [q \in Requests |-> Answer(q)]

(* The sends that the lines of a helper answer.                             *)
Replied(lines) == Named(AnswerNames, lines)
RepliedOnce(lines) == NamedOnce(AnswerNames, lines)

(* A helper with the commands `pipe` in its stdin, the sends `todo` in work *)
(* and the lines `lines` in its stdout has each send in one place, once,    *)
(* and every one is open at the supervisor s.                               *)
Carries(s, pipe, todo, lines) ==
    /\ SentOnce(pipe) /\ RepliedOnce(lines)
    /\ Sent(pipe) \cap todo = {}
    /\ Sent(pipe) \cap Replied(lines) = {}
    /\ todo \cap Replied(lines) = {}
    /\ Sent(pipe) \cup todo \cup Replied(lines) \subseteq s.sends
    /\ ~s.greeted => Sent(pipe) \cup todo \cup Replied(lines) = {}

(* No send has two answers, one that is open has none, and the helper of    *)
(* the link holds each open send in one place at most.                      *)
ContractInv ==
    /\ SendInv(sup)
    /\ \A q \in Requests : sup.answers[q] \in 0 .. 1 /\ (q \notin asked => sup.answers[q] = 0)
    /\ \A q \in sup.sends : q \in asked /\ sup.answers[q] = 0
    /\ \A r \in Runs \ reading : output[r] = <<>>
    /\ HasLink(sup) => Carries(sup, input[sup.link], helper[sup.link].todo, output[sup.link])

(* Sends are the requests that the commands name.                           *)
LEMMA SentNamed ==
  ASSUME NEW queue
  PROVE  Sent(queue) = Named(SendNames, queue) /\ (SentOnce(queue) <=> NamedOnce(SendNames, queue))
BY DEF Sent, SentOnce, Named, NamedOnce, SendNames

(* The rest of a queue names no request twice, and the first no more.       *)
LEMMA TailNamed ==
  ASSUME NEW S, NEW queue \in Seq(S), queue # <<>>, NEW m
  PROVE  /\ Named(m, Tail(queue)) \subseteq Named(m, queue)
         /\ NamedOnce(m, queue) =>
              /\ NamedOnce(m, Tail(queue))
              /\ \A q \in Requests : m[q] = Head(queue) =>
                   q \in Named(m, queue) /\ q \notin Named(m, Tail(queue))
<1> DEFINE rest == Tail(queue)
           L == Len(queue)
<1>1. /\ L \in Nat \ {0} /\ DOMAIN queue = 1 .. L /\ DOMAIN rest = 1 .. L - 1
      /\ Head(queue) = queue[1] /\ \A i \in 1 .. L - 1 : rest[i] = queue[i + 1]
  OBVIOUS
<1> HIDE DEF rest, L
<1>2. \A i \in DOMAIN rest : i + 1 \in DOMAIN queue /\ rest[i] = queue[i + 1] BY <1>1
<1>3. ASSUME NamedOnce(m, queue) PROVE NamedOnce(m, rest)
  <2> SUFFICES ASSUME NEW q \in Requests, NEW i \in DOMAIN rest, NEW j \in DOMAIN rest,
                      rest[i] = m[q], rest[j] = m[q]
               PROVE  i = j
    BY DEF NamedOnce
  <2>1. i + 1 = j + 1 BY <1>2, <1>3 DEF NamedOnce
  <2> QED BY <1>1, <2>1
<1>4. Named(m, rest) \subseteq Named(m, queue) BY <1>2 DEF Named, Range
<1>5. ASSUME NamedOnce(m, queue), NEW q \in Requests, m[q] = Head(queue)
      PROVE  q \in Named(m, queue) /\ q \notin Named(m, rest)
  <2>1. 1 \in DOMAIN queue /\ queue[1] = m[q] BY <1>1, <1>5
  <2>2. ASSUME NEW i \in DOMAIN rest, rest[i] = m[q] PROVE FALSE
    <3>1. i + 1 = 1 BY <1>2, <1>5, <2>1, <2>2 DEF NamedOnce
    <3> QED BY <1>1, <3>1
  <2> QED BY <2>1, <2>2 DEF Named, Range
<1> QED BY <1>3, <1>4, <1>5 DEF rest

(* Two queues that name no request in common, one after the other.          *)
LEMMA ConcatNamed ==
  ASSUME NEW S, NEW a \in Seq(S), NEW b \in Seq(S), NEW m, NamedOnce(m, a), NamedOnce(m, b),
         Named(m, a) \cap Named(m, b) = {}
  PROVE  NamedOnce(m, a \o b) /\ Named(m, a \o b) = Named(m, a) \cup Named(m, b)
<1> DEFINE c == a \o b
<1>1. /\ Len(a) \in Nat /\ Len(b) \in Nat /\ DOMAIN c = 1 .. Len(a) + Len(b)
      /\ DOMAIN a = 1 .. Len(a) /\ DOMAIN b = 1 .. Len(b)
      /\ \A i \in DOMAIN c : c[i] = IF i <= Len(a) THEN a[i] ELSE b[i - Len(a)]
  OBVIOUS
<1> HIDE DEF c
<1>2. Range(c) = Range(a) \cup Range(b)
  <2>1. \A i \in DOMAIN a : i \in DOMAIN c /\ c[i] = a[i] BY <1>1
  <2>2. \A i \in DOMAIN b : i + Len(a) \in DOMAIN c /\ c[i + Len(a)] = b[i]
    <3> TAKE i \in DOMAIN b
    <3>1. i \in 1 .. Len(b) /\ i + Len(a) \in DOMAIN c /\ ~(i + Len(a) <= Len(a))
      BY <1>1
    <3>2. c[i + Len(a)] = b[(i + Len(a)) - Len(a)] /\ (i + Len(a)) - Len(a) = i
      BY <1>1, <3>1
    <3> QED BY <3>1, <3>2
  <2>3. \A i \in DOMAIN c : \/ i \in DOMAIN a /\ c[i] = a[i]
                            \/ i - Len(a) \in DOMAIN b /\ c[i] = b[i - Len(a)]
    BY <1>1
  <2> QED BY <2>1, <2>2, <2>3 DEF Range
<1>3. Named(m, c) = Named(m, a) \cup Named(m, b) BY <1>2 DEF Named
<1>4. NamedOnce(m, c)
  <2> SUFFICES ASSUME NEW q \in Requests, NEW i \in DOMAIN c, NEW j \in DOMAIN c,
                      c[i] = m[q], c[j] = m[q]
               PROVE  i = j
    BY DEF NamedOnce
  <2>1. ASSUME NEW k \in DOMAIN c, c[k] = m[q]
        PROVE  \/ k <= Len(a) /\ k \in DOMAIN a /\ a[k] = m[q] /\ q \in Named(m, a)
               \/ /\ k > Len(a) /\ k - Len(a) \in DOMAIN b /\ b[k - Len(a)] = m[q]
                  /\ q \in Named(m, b)
    <3>1. CASE k <= Len(a)
      <4>1. k \in DOMAIN a /\ a[k] = m[q] BY <1>1, <2>1, <3>1
      <4> QED BY <3>1, <4>1 DEF Named, Range
    <3>2. CASE k > Len(a)
      <4>1. k - Len(a) \in DOMAIN b /\ b[k - Len(a)] = m[q] BY <1>1, <2>1, <3>2
      <4> QED BY <3>2, <4>1 DEF Named, Range
    <3> QED BY <1>1, <3>1, <3>2
  <2>2. CASE i <= Len(a) /\ j <= Len(a) BY <1>1, <2>1, <2>2 DEF NamedOnce
  <2>3. CASE i > Len(a) /\ j > Len(a)
    <3>1. i - Len(a) = j - Len(a) BY <1>1, <2>1, <2>3 DEF NamedOnce
    <3> QED BY <1>1, <3>1
  <2>4. ~(i <= Len(a) /\ j > Len(a)) /\ ~(j <= Len(a) /\ i > Len(a)) BY <1>1, <2>1
  <2> QED BY <1>1, <2>2, <2>3, <2>4
<1> QED BY <1>3, <1>4 DEF c

(* Lines after others, with no answer in common.                            *)
LEMMA ConcatReplied ==
  ASSUME NEW lines \in Seq(Lines), RepliedOnce(lines), NEW more \in Seq(Lines),
         RepliedOnce(more), Replied(lines) \cap Replied(more) = {}
  PROVE  RepliedOnce(lines \o more) /\ Replied(lines \o more) = Replied(lines) \cup Replied(more)
BY ConcatNamed DEF Replied, RepliedOnce

(* New lines that are no answers.                                           *)
LEMMA OtherLines ==
  ASSUME NEW lines \in Seq(Lines), RepliedOnce(lines), NEW more \in Seq(Lines),
         Replied(more) = {}
  PROVE  RepliedOnce(lines \o more) /\ Replied(lines \o more) = Replied(lines)
<1>1. RepliedOnce(more) BY DEF Replied, RepliedOnce, Named, NamedOnce, Range
<1> DEFINE old == Replied(lines)
           new == Replied(more)
<1>2. old \cap new = {} /\ old \cup new = old OBVIOUS
<1>3. RepliedOnce(lines \o more) /\ Replied(lines \o more) = old \cup new
  <2> HIDE DEF old, new
  <2> QED BY <1>1, <1>2, ConcatReplied DEF old, new
<1> QED BY <1>2, <1>3

(* A new answer.                                                            *)
LEMMA NewAnswer ==
  ASSUME NEW lines \in Seq(Lines), RepliedOnce(lines), NEW q \in Requests, q \notin Replied(lines)
  PROVE  LET more == lines \o <<Answer(q)>> IN
         RepliedOnce(more) /\ Replied(more) = Replied(lines) \cup {q}
<1> DEFINE a == <<Answer(q)>>
<1>1. a \in Seq(Lines) /\ DOMAIN a = {1} /\ Range(a) = {Answer(q)} BY DEF Lines, Range
<1>2. Replied(a) = {q} /\ RepliedOnce(a)
  BY <1>1 DEF Replied, RepliedOnce, Named, NamedOnce, AnswerNames, Answer
<1> HIDE DEF a
<1>3. RepliedOnce(lines \o a) /\ Replied(lines \o a) = Replied(lines) \cup Replied(a)
  BY <1>1, <1>2, ConcatReplied
<1> QED BY <1>2, <1>3 DEF a

(* What holds between two events, all that the proofs of this part need.    *)
SendsReady == ContractInv /\ TypeOK /\ Ready(sup)

(* No process answers a send in this step, and none that is not read writes *)
(* a line.                                                                  *)
NoNewAnswers ==
    \A r \in Runs :
      /\ Replied(output'[r]) \subseteq Replied(output[r])
      /\ RepliedOnce(output[r]) => RepliedOnce(output'[r])
      /\ r \notin reading' => output'[r] = <<>>

(* The supervisor goes to s.                                                *)
LEMMA BecomesFields ==
  ASSUME NEW s \in SupervisorState, Becomes(s)
  PROVE  /\ sup'.link = s.link /\ sup'.greeted = s.greeted /\ sup'.held = s.held
         /\ sup'.sends = s.sends /\ sup'.answers = s.answers /\ sup'.stopping = s.stopping
<1>1. sup' = [s EXCEPT !.written = <<>>] BY DEF Becomes
<1> QED BY <1>1

(* The link stays: what the step writes goes to the stdin of its process.   *)
LEMMA BecomesCarries ==
  ASSUME SendsReady, NEW s \in SupervisorState, Becomes(s), HasLink(sup), s.link = sup.link,
         NoNewAnswers, SentOnce(s.written), NEW qs,
         Sent(s.written) \subseteq s.sends,
         s.sends \subseteq Requests,
         LET l == sup.link
             before == Sent(input[l]) \cup helper[l].todo \cup Replied(output[l])
         IN  /\ before \cap Sent(s.written) = {}
             /\ before \cap qs \subseteq Replied(output[l]) \ Replied(output'[l])
             /\ before \ qs \subseteq s.sends
             /\ ~s.greeted => before \cup Sent(s.written) = {}
  PROVE  Carries(s, input'[sup.link], helper'[sup.link].todo, output'[sup.link])
<1> DEFINE l == sup.link
           pipe == input[l]
           todo == helper[l].todo
           lines == output[l]
           lines1 == output'[l]
           started == IF HasLink(s) /\ ~HasLink(sup) THEN {s.link} ELSE {}
<1>1. l \in Runs /\ pipe \in Seq(Command \cup {Shutdown}) /\ s.written \in Seq(Command \cup {Shutdown})
  BY DEF SendsReady, TypeOK, SupervisorState, HasLink
<1>2. started = {} OBVIOUS
<1>3. /\ input'[l] = pipe \o s.written \/ input'[l] = pipe
      /\ helper'[l].todo = todo
  BY <1>1, <1>2 DEF Becomes
<1>4. Carries(sup, pipe, todo, lines) BY DEF SendsReady, ContractInv
<1>5. /\ Replied(lines1) \subseteq Replied(lines) /\ RepliedOnce(lines1)
  BY <1>1, <1>4 DEF NoNewAnswers, Carries
<1> DEFINE old == Sent(pipe)
           new == Sent(s.written)
<1>6. SentOnce(pipe \o s.written) /\ Sent(pipe \o s.written) = old \cup new
  <2>1. SentOnce(pipe) /\ old \cap new = {} BY <1>4 DEF Carries
  <2>2. NamedOnce(SendNames, pipe) /\ NamedOnce(SendNames, s.written)
        /\ Named(SendNames, pipe) = old /\ Named(SendNames, s.written) = new
    BY <2>1, SentNamed
  <2> HIDE DEF pipe, old, new
  <2>3. NamedOnce(SendNames, pipe \o s.written)
        /\ Named(SendNames, pipe \o s.written) = Named(SendNames, pipe) \cup Named(SendNames, s.written)
    BY <1>1, <2>1, <2>2, ConcatNamed
  <2> QED BY <2>2, <2>3, SentNamed
<1> HIDE DEF pipe, todo, lines, lines1, started, l
<1>7. CASE input'[l] = pipe \o s.written
  <2>1. SentOnce(input'[l]) /\ Sent(input'[l]) = old \cup new BY <1>6, <1>7
  <2> QED BY <1>3, <1>4, <1>5, <2>1 DEF Carries, l, pipe, todo, lines, lines1
<1>8. CASE input'[l] = pipe
  <2>1. SentOnce(input'[l]) /\ Sent(input'[l]) = old BY <1>4, <1>8 DEF Carries
  <2> QED BY <1>3, <1>4, <1>5, <2>1 DEF Carries, l, pipe, todo, lines, lines1
<1> QED BY <1>3, <1>7, <1>8

(* The invariant after a step of the supervisor, from what the step says of *)
(* the answers and of the process of the link.                              *)
LEMMA BecomesContract ==
  ASSUME SendsReady, NEW s \in SupervisorState, Becomes(s), SendInv(s), NoNewAnswers,
         \A q \in Requests : s.answers[q] \in 0 .. 1 /\ (q \notin asked' => s.answers[q] = 0),
         \A q \in s.sends : q \in asked' /\ s.answers[q] = 0,
         HasLink(s) => Carries(s, input'[s.link], helper'[s.link].todo, output'[s.link])
  PROVE  ContractInv'
<1>1. /\ sup'.link = s.link /\ sup'.greeted = s.greeted /\ sup'.held = s.held
      /\ sup'.sends = s.sends /\ sup'.answers = s.answers
  BY BecomesFields
<1>2. SendInv(sup') BY <1>1 DEF SendInv, HasLink
<1>3. HasLink(sup') => Carries(sup', input'[sup'.link], helper'[sup'.link].todo, output'[sup'.link])
  BY <1>1 DEF Carries, HasLink
<1>4. \A r \in Runs \ reading' : output'[r] = <<>> BY DEF NoNewAnswers
<1> QED BY <1>1, <1>2, <1>3, <1>4 DEF ContractInv

(* A step in which the link stays.                                          *)
LEMMA StaysInv ==
  ASSUME SendsReady, NEW s \in SupervisorState, Becomes(s), SendInv(s), NoNewAnswers,
         NEW N \in SUBSET Requests, N \cap asked = {}, Stays(sup, s, N), asked \cup N \subseteq asked'
  PROVE  ContractInv'
<1>1. PICK qs \in SUBSET (Sent(sup.held) \cup N) :
         /\ Counted(sup, s, qs) /\ s.sends = (sup.sends \cup N) \ qs
         /\ Sent(s.written) \subseteq (Sent(sup.held) \cup N) \ qs
  BY DEF Stays
<1>2. /\ Sent(sup.held) \subseteq sup.sends /\ sup.sends \subseteq asked
      /\ \A q \in Requests : sup.answers[q] \in 0 .. 1 /\ (q \notin asked => sup.answers[q] = 0)
      /\ \A q \in sup.sends : sup.answers[q] = 0
      /\ sup.sends \subseteq Requests
  BY DEF SendsReady, ContractInv, SendInv, TypeOK
<1>3. \A q \in Requests : s.answers[q] = IF q \in qs THEN sup.answers[q] + 1 ELSE sup.answers[q]
  BY <1>1 DEF Counted
<1>4. \A q \in Requests : s.answers[q] \in 0 .. 1 /\ (q \notin asked' => s.answers[q] = 0)
  <2> SUFFICES ASSUME NEW q \in Requests
               PROVE  s.answers[q] \in 0 .. 1 /\ (q \notin asked' => s.answers[q] = 0)
    OBVIOUS
  <2>1. CASE q \in qs
    <3>1. sup.answers[q] = 0 /\ q \in asked' BY <1>2, <2>1
    <3> QED BY <1>3, <2>1, <3>1
  <2>2. CASE q \notin qs BY <1>2, <1>3, <2>2
  <2> QED BY <2>1, <2>2
<1>5. \A q \in s.sends : q \in asked' /\ s.answers[q] = 0 BY <1>1, <1>2, <1>3
<1>6. ASSUME HasLink(s)
      PROVE  Carries(s, input'[s.link], helper'[s.link].todo, output'[s.link])
  <2>1. s.link = sup.link /\ HasLink(sup) /\ SentOnce(s.written)
        /\ (~s.greeted => Sent(s.written) = {}) /\ (sup.greeted => s.greeted)
    BY <1>6 DEF Stays, HasLink
  <2> DEFINE l == sup.link
             before == Sent(input[l]) \cup helper[l].todo \cup Replied(output[l])
  <2>2. before \subseteq sup.sends /\ (~sup.greeted => before = {})
    BY <2>1 DEF SendsReady, ContractInv, Carries
  <2> HIDE DEF before
  <2>3. before \cap (Sent(sup.held) \cup N) = {}
    <3>1. CASE sup.greeted
      <4>1. Sent(sup.held) = {} BY <3>1, NoSends DEF SendsReady, Ready, QueueInv
      <4> QED BY <1>2, <2>2, <4>1
    <3>2. CASE ~sup.greeted BY <2>2, <3>2
    <3> QED BY <3>1, <3>2
  <2>4. /\ before \cap Sent(s.written) = {} /\ before \cap qs = {}
        /\ before \ qs \subseteq s.sends /\ Sent(s.written) \subseteq s.sends
        /\ s.sends \subseteq Requests
        /\ ~s.greeted => before \cup Sent(s.written) = {}
    BY <1>1, <1>2, <2>1, <2>2, <2>3
  <2> QED BY <2>1, <2>4, BecomesCarries DEF before
<1> QED BY <1>4, <1>5, <1>6, BecomesContract

(* A step in which a helper starts.                                         *)
LEMMA LaunchesInv ==
  ASSUME SendsReady, NEW s \in SupervisorState, Becomes(s), SendInv(s), NoNewAnswers,
         NEW r \in Runs \ reading, Launches(sup, s, r), output' = output, asked \subseteq asked'
  PROVE  ContractInv'
<1>1. /\ \A q \in Requests : s.answers[q] = sup.answers[q]
      /\ s.sends = {} /\ HasLink(s) /\ ~HasLink(sup) /\ s.link = r
  BY DEF Launches, Counted
<1>2. \A q \in Requests : s.answers[q] \in 0 .. 1 /\ (q \notin asked' => s.answers[q] = 0)
  BY <1>1 DEF SendsReady, ContractInv
<1>3. input'[r] = <<>> /\ helper'[r].todo = {} /\ output'[r] = <<>>
  BY <1>1 DEF Becomes, NewProcess, SendsReady, ContractInv
<1>4. Replied(<<>>) = {} /\ RepliedOnce(<<>>)
  <2>1. DOMAIN <<>> = {} /\ Range(<<>>) = {} BY DEF Range
  <2> QED BY <2>1 DEF Replied, RepliedOnce, Named, NamedOnce
<1>5. Carries(s, input'[s.link], helper'[s.link].todo, output'[s.link])
  BY <1>1, <1>3, <1>4, NoSends DEF Carries
<1> QED BY <1>1, <1>2, <1>5, BecomesContract

(* A step in which the link goes.                                           *)
LEMMA LeavesInv ==
  ASSUME SendsReady, NEW s \in SupervisorState, Becomes(s), SendInv(s), NoNewAnswers,
         Leaves(sup, s), asked' = asked
  PROVE  ContractInv'
<1>1. PICK qs \in SUBSET sup.sends : Counted(sup, s, qs) BY DEF Leaves
<1>2. ~HasLink(s) /\ s.sends = {} BY DEF Leaves
<1>3. \A q \in Requests : s.answers[q] = IF q \in qs THEN sup.answers[q] + 1 ELSE sup.answers[q]
  BY <1>1 DEF Counted
<1>4. /\ \A q \in Requests : sup.answers[q] \in 0 .. 1 /\ (q \notin asked => sup.answers[q] = 0)
      /\ \A q \in qs : q \in asked /\ sup.answers[q] = 0
  BY DEF SendsReady, ContractInv
<1>5. \A q \in Requests : s.answers[q] \in 0 .. 1 /\ (q \notin asked' => s.answers[q] = 0)
  <2> SUFFICES ASSUME NEW q \in Requests
               PROVE  s.answers[q] \in 0 .. 1 /\ (q \notin asked' => s.answers[q] = 0)
    OBVIOUS
  <2>1. CASE q \in qs
    <3>1. sup.answers[q] = 0 /\ q \in asked' BY <1>4, <2>1
    <3> QED BY <1>3, <2>1, <3>1
  <2>2. CASE q \notin qs BY <1>3, <1>4, <2>2
  <2> QED BY <2>1, <2>2
<1> QED BY <1>2, <1>5, BecomesContract

(* A step in which the link stays and the sends qs, which their helper      *)
(* answered, are closed.                                                    *)
LEMMA SettledInv ==
  ASSUME SendsReady, NEW s \in SupervisorState, Becomes(s), SendInv(s), NoNewAnswers,
         NEW qs, Settled(sup, s, qs), asked' = asked,
         s.link = sup.link, s.greeted = sup.greeted, Sent(s.written) = {},
         \A q \in qs : /\ HasLink(sup) /\ q \in Replied(output[sup.link])
                       /\ q \notin Replied(output'[sup.link])
  PROVE  ContractInv'
<1>1. /\ \A q \in Requests : s.answers[q] = IF q \in qs THEN sup.answers[q] + 1 ELSE sup.answers[q]
      /\ s.sends = sup.sends \ qs
  BY DEF Settled, Counted
<1>2. qs \subseteq sup.sends BY DEF SendsReady, ContractInv, Carries
<1>3. /\ \A q \in Requests : sup.answers[q] \in 0 .. 1 /\ (q \notin asked => sup.answers[q] = 0)
      /\ \A q \in sup.sends : q \in asked /\ sup.answers[q] = 0
      /\ sup.sends \subseteq Requests
  BY DEF SendsReady, ContractInv, TypeOK
<1>4. \A q \in Requests : s.answers[q] \in 0 .. 1 /\ (q \notin asked' => s.answers[q] = 0)
  <2> SUFFICES ASSUME NEW q \in Requests
               PROVE  s.answers[q] \in 0 .. 1 /\ (q \notin asked' => s.answers[q] = 0)
    OBVIOUS
  <2>1. CASE q \in qs
    <3>1. sup.answers[q] = 0 /\ q \in asked' BY <1>2, <1>3, <2>1
    <3> QED BY <1>1, <2>1, <3>1
  <2>2. CASE q \notin qs BY <1>1, <1>3, <2>2
  <2> QED BY <2>1, <2>2
<1>5. \A q \in s.sends : q \in asked' /\ s.answers[q] = 0 BY <1>1, <1>3
<1>6. ASSUME HasLink(s)
      PROVE  Carries(s, input'[s.link], helper'[s.link].todo, output'[s.link])
  <2>1. HasLink(sup) BY <1>6 DEF HasLink
  <2> DEFINE l == sup.link
             before == Sent(input[l]) \cup helper[l].todo \cup Replied(output[l])
  <2>2. /\ before \subseteq sup.sends /\ (~sup.greeted => before = {})
        /\ qs \subseteq Replied(output[l]) \ Replied(output'[l])
    BY <2>1 DEF SendsReady, ContractInv, Carries
  <2> HIDE DEF before
  <2>3. /\ before \cap Sent(s.written) = {}
        /\ before \cap qs \subseteq Replied(output[l]) \ Replied(output'[l])
        /\ before \ qs \subseteq s.sends /\ Sent(s.written) \subseteq s.sends
        /\ s.sends \subseteq Requests
        /\ ~s.greeted => before \cup Sent(s.written) = {}
    BY <1>1, <1>3, <2>2
  <2>4. SentOnce(s.written) BY DEF Sent, SentOnce, Range
  <2> QED BY <2>1, <2>3, <2>4, BecomesCarries DEF before
<1> QED BY <1>4, <1>5, <1>6, BecomesContract

(* A step keeps the invariant and is one of the contract, or none for it.   *)
ContractStep == ContractInv' /\ [Contract!ContractNext]_(Contract!contractVars)

(* What the contract says of each send.                                     *)
RowsAre(q) == SendState(q) = IF q \notin asked THEN "new"
                             ELSE IF sup.answers[q] = 0 THEN "open" ELSE "answered"

(* The invariant leaves three states of a send, before a step and after it. *)
LEMMA ContractRows ==
  ASSUME ContractInv, NEW q \in Requests
  PROVE  RowsAre(q)
<1>1. CASE sup.answers[q] = 0 BY <1>1 DEF RowsAre, SendState
<1>2. CASE sup.answers[q] = 1
  <2>1. ~(sup.answers[q] > 1) /\ sup.answers[q] # 0 BY <1>2
  <2> QED BY <1>2, <2>1 DEF RowsAre, SendState
<1> QED BY <1>1, <1>2 DEF ContractInv

(* The same after a step.                                                   *)
LEMMA ContractRowsNext ==
  ASSUME ContractInv', NEW q \in Requests
  PROVE  RowsAre(q)'
<1>1. CASE sup'.answers[q] = 0 BY <1>1 DEF RowsAre, SendState
<1>2. CASE sup'.answers[q] = 1
  <2>1. ~(sup'.answers[q] > 1) /\ sup'.answers[q] # 0 BY <1>2
  <2> QED BY <1>2, <2>1 DEF RowsAre, SendState
<1> QED BY <1>1, <1>2 DEF ContractInv

(* The supervisor answers the sends qs: they were open.                     *)
LEMMA AnswersMap ==
  ASSUME ContractInv, ContractInv', asked' = asked, NEW qs \in SUBSET Requests,
         \A q \in Requests : sup'.answers[q] = IF q \in qs THEN sup.answers[q] + 1 ELSE sup.answers[q]
  PROVE  /\ qs \subseteq Contract!Open /\ Contract!AnswerAll(qs)
         /\ \A q \in Contract!Open : q \in asked /\ sup.answers[q] = 0
<1>1. \A q \in Requests : RowsAre(q) /\ RowsAre(q)' BY ContractRows, ContractRowsNext
<1>2. \A q \in Requests : sup.answers[q] \in 0 .. 1 /\ sup'.answers[q] \in 0 .. 1
                          /\ (q \notin asked' => sup'.answers[q] = 0)
  BY DEF ContractInv
<1>3. \A q \in qs : sup.answers[q] = 0 /\ sup'.answers[q] = 1 /\ q \in asked BY <1>2
<1>4. Contract!Open = {q \in Requests : SendState(q) = "open"} BY DEF Contract!Open
<1>5. qs \subseteq Contract!Open BY <1>1, <1>3, <1>4 DEF RowsAre
<1>6. \A q \in Requests : SendState(q)' = IF q \in qs THEN "answered" ELSE SendState(q)
  BY <1>1, <1>3 DEF RowsAre
<1>7. Contract!AnswerAll(qs) BY <1>6 DEF Contract!AnswerAll
<1>8. \A q \in Contract!Open : q \in asked /\ sup.answers[q] = 0
  BY <1>1, <1>4 DEF RowsAre
<1> QED BY <1>5, <1>7, <1>8

(* A step that answers nothing, with no new send, leaves the rows.          *)
LEMMA SameRows ==
  ASSUME asked' = asked, \A q \in Requests : sup'.answers[q] = sup.answers[q]
  PROVE  [q \in Requests |-> SendState(q)]' = [q \in Requests |-> SendState(q)]
BY DEF SendState

(* The helper of the link answers, or nothing is said of a send.            *)
LEMMA AnswerMap ==
  ASSUME ContractInv, ContractInv', asked' = asked, NEW qs \in SUBSET Requests,
         \A q \in Requests : sup'.answers[q] = IF q \in qs THEN sup.answers[q] + 1 ELSE sup.answers[q],
         qs # {} => HasLink(sup),
         sup'.link = sup.link, sup'.stopping = sup.stopping
  PROVE  ContractStep
<1>1. HasLink(sup') = HasLink(sup) BY DEF HasLink
<1>2. CASE qs = {}
  <2>1. [q \in Requests |-> SendState(q)]' = [q \in Requests |-> SendState(q)]
    BY <1>2, SameRows
  <2> QED BY <1>1, <2>1 DEF ContractStep, Contract!contractVars
<1>3. CASE qs # {}
  <2>1. qs \in SUBSET Contract!Open /\ Contract!AnswerAll(qs) BY AnswersMap
  <2>2. Contract!Answer(qs) BY <1>1, <1>3, <2>1 DEF Contract!Answer
  <2> QED BY <2>1, <2>2 DEF ContractStep, Contract!ContractNext
<1> QED BY <1>2, <1>3

(* The shell issues the send q.                                             *)
LEMMA SubmitMap ==
  ASSUME ContractInv, ContractInv', NEW q \in Requests \ asked, asked' = asked \cup {q},
         \A p \in Requests \ {q} : sup'.answers[p] = sup.answers[p],
         \/ sup'.answers[q] = 0 /\ (HasLink(sup) \/ sup.stopping)
         \/ sup'.answers[q] = 1 /\ ~sup.stopping,
         sup'.link = sup.link, sup'.stopping = sup.stopping
  PROVE  ContractStep
<1>1. HasLink(sup') = HasLink(sup) BY DEF HasLink
<1>2. \A p \in Requests : RowsAre(p) /\ RowsAre(p)' BY ContractRows, ContractRowsNext
<1> DEFINE state == [p \in Requests |-> SendState(p)]
<1>3. state[q] = "new" /\ \A p \in Requests \ {q} : state'[p] = state[p]
  BY <1>2 DEF RowsAre
<1>4. CASE sup'.answers[q] = 0 /\ (HasLink(sup) \/ sup.stopping)
  <2>1. state'[q] = "open" BY <1>2, <1>4 DEF RowsAre
  <2>2. state' = [state EXCEPT ![q] = "open"] BY <1>3, <2>1
  <2>3. Contract!Submit(q) BY <1>1, <1>3, <1>4, <2>2 DEF Contract!Submit
  <2> QED BY <2>3 DEF ContractStep, Contract!ContractNext
<1>5. CASE sup'.answers[q] = 1 /\ ~sup.stopping
  <2>1. state'[q] = "answered" BY <1>2, <1>5 DEF RowsAre
  <2>2. state' = [state EXCEPT ![q] = "answered"] BY <1>3, <2>1
  <2>3. Contract!Submit(q) BY <1>1, <1>3, <1>5, <2>2 DEF Contract!Submit
  <2> QED BY <2>3 DEF ContractStep, Contract!ContractNext
<1> QED BY <1>4, <1>5

(* A helper starts.                                                         *)
LEMMA StartMap ==
  ASSUME ContractInv', asked' = asked, ~HasLink(sup), HasLink(sup'),
         ~sup.stopping, sup'.stopping = sup.stopping,
         \A q \in Requests : sup'.answers[q] = sup.answers[q]
  PROVE  ContractStep
<1>1. [q \in Requests |-> SendState(q)]' = [q \in Requests |-> SendState(q)] BY SameRows
<1>2. Contract!Start
  <2>1. HasLink(sup') = TRUE OBVIOUS
  <2> QED BY <1>1, <2>1 DEF Contract!Start
<1> QED BY <1>2 DEF ContractStep, Contract!ContractNext

(* The helper of the link is gone.                                          *)
LEMMA GoneMap ==
  ASSUME ContractInv, ContractInv', SendsInv, asked' = asked, HasLink(sup), ~HasLink(sup'),
         sup'.stopping = sup.stopping, NEW qs \in SUBSET sup.sends,
         sup.sends \subseteq Requests,
         \A q \in Requests : sup'.answers[q] = IF q \in qs THEN sup.answers[q] + 1 ELSE sup.answers[q],
         qs = sup.sends \/ sup.stopping
  PROVE  ContractStep
<1>1. /\ qs \subseteq Contract!Open /\ Contract!AnswerAll(qs)
      /\ \A q \in Contract!Open : q \in asked /\ sup.answers[q] = 0
  BY AnswersMap
<1>2. qs = Contract!Open \/ sup.stopping BY <1>1 DEF SendsInv, Served
<1>3. Contract!Gone BY <1>1, <1>2 DEF Contract!Gone
<1> QED BY <1>3 DEF ContractStep, Contract!ContractNext

(* The app closes.                                                          *)
LEMMA CloseMap ==
  ASSUME ContractInv', asked' = asked, sup'.link = sup.link, sup'.stopping, sup.stopping \in BOOLEAN,
         sup'.stopping \in BOOLEAN,
         \A q \in Requests : sup'.answers[q] = sup.answers[q]
  PROVE  ContractStep
<1>1. HasLink(sup') = HasLink(sup) BY DEF HasLink
<1>2. [q \in Requests |-> SendState(q)]' = [q \in Requests |-> SendState(q)] BY SameRows
<1>3. CASE ~sup.stopping
  <2>1. Contract!Close BY <1>1, <1>2, <1>3 DEF Contract!Close
  <2> QED BY <2>1 DEF ContractStep, Contract!ContractNext
<1>4. CASE sup.stopping
  <2>1. sup'.stopping = sup.stopping BY <1>4
  <2> QED BY <1>1, <1>2, <2>1 DEF ContractStep, Contract!contractVars
<1> QED BY <1>3, <1>4

(* A step of the supervisor that reads no line brings no answer.            *)
LEMMA ActsBringNone ==
  ASSUME SendsReady, output' = output, reading' = reading \cup Started
  PROVE  NoNewAnswers
BY DEF NoNewAnswers, SendsReady, ContractInv

(* A line that is read leaves fewer answers, and none twice.                *)
LEMMA TailBringsNone ==
  ASSUME SendsReady, NEW r \in reading, output[r] # <<>>, reading' = reading,
         output' = [output EXCEPT ![r] = Tail(@)]
  PROVE  /\ NoNewAnswers
         /\ RepliedOnce(output[r]) =>
              \A q \in Requests : Head(output[r]) = Answer(q) =>
                q \in Replied(output[r]) /\ q \notin Replied(output'[r])
<1>1. output \in [Runs -> Seq(Lines)] /\ reading \subseteq Runs
  BY DEF SendsReady, TypeOK
<1>2. output[r] \in Seq(Lines) /\ output'[r] = Tail(output[r]) /\ \A p \in Runs \ {r} : output'[p] = output[p]
  BY <1>1
<1>3. /\ Named(AnswerNames, Tail(output[r])) \subseteq Named(AnswerNames, output[r])
      /\ NamedOnce(AnswerNames, output[r]) =>
           /\ NamedOnce(AnswerNames, Tail(output[r]))
           /\ \A q \in Requests : AnswerNames[q] = Head(output[r]) =>
                q \in Named(AnswerNames, output[r]) /\ q \notin Named(AnswerNames, Tail(output[r]))
  BY <1>2, TailNamed
<1>4. /\ Replied(output'[r]) \subseteq Replied(output[r])
      /\ RepliedOnce(output[r]) =>
           /\ RepliedOnce(output'[r])
           /\ \A q \in Requests : Head(output[r]) = Answer(q) =>
                q \in Replied(output[r]) /\ q \notin Replied(output'[r])
  BY <1>2, <1>3 DEF Replied, RepliedOnce, AnswerNames
<1>5. NoNewAnswers
  <2> SUFFICES ASSUME NEW p \in Runs
               PROVE  /\ Replied(output'[p]) \subseteq Replied(output[p])
                      /\ RepliedOnce(output[p]) => RepliedOnce(output'[p])
                      /\ p \notin reading' => output'[p] = <<>>
    BY DEF NoNewAnswers
  <2>1. CASE p = r BY <1>4, <2>1
  <2>2. CASE p # r
    <3>1. output'[p] = output[p] BY <1>2, <2>2
    <3> QED BY <3>1 DEF SendsReady, ContractInv
  <2> QED BY <2>1, <2>2
<1> QED BY <1>4, <1>5

(* The link stays, and no send comes in.                                    *)
LEMMA StaysStep ==
  ASSUME SendsReady, NEW s \in SupervisorState, Becomes(s), SendInv(s), NoNewAnswers,
         Stays(sup, s, {}), asked' = asked
  PROVE  ContractStep
<1>1. ContractInv' BY StaysInv
<1>2. PICK qs \in SUBSET Sent(sup.held) : Counted(sup, s, qs) BY DEF Stays
<1>3. /\ sup'.link = s.link /\ sup'.answers = s.answers /\ sup'.stopping = s.stopping
  BY BecomesFields
<1>4. s.link = sup.link /\ s.stopping = sup.stopping BY DEF Stays
<1>5. qs # {} => HasLink(sup) BY <1>2 DEF SendsReady, Ready, SendInv
<1>6. qs \in SUBSET Requests BY <1>2 DEF Sent
<1>7. \A q \in Requests : sup'.answers[q] = IF q \in qs THEN sup.answers[q] + 1 ELSE sup.answers[q]
  BY <1>2, <1>3 DEF Counted
<1>8. ContractInv BY DEF SendsReady
<1> QED BY <1>1, <1>3, <1>4, <1>5, <1>6, <1>7, <1>8, AnswerMap

(* A helper starts.                                                         *)
LEMMA LaunchesStep ==
  ASSUME SendsReady, NEW s \in SupervisorState, Becomes(s), SendInv(s), NoNewAnswers,
         NEW r \in Runs \ reading, Launches(sup, s, r), output' = output, asked' = asked
  PROVE  ContractStep
<1>1. ContractInv' BY LaunchesInv
<1>2. /\ sup'.link = s.link /\ sup'.answers = s.answers /\ sup'.stopping = s.stopping
  BY BecomesFields
<1>3. sup.stopping = FALSE /\ s.stopping = FALSE
  <2>1. sup.stopping \in BOOLEAN /\ s.stopping \in BOOLEAN
    BY DEF SendsReady, TypeOK, SupervisorState
  <2> QED BY <2>1 DEF Launches
<1>4. ~HasLink(sup) /\ HasLink(sup') /\ \A q \in Requests : sup'.answers[q] = sup.answers[q]
  BY <1>2 DEF Launches, Counted, HasLink
<1> QED BY <1>1, <1>2, <1>3, <1>4, StartMap

(* The helper of the link is gone.                                          *)
LEMMA LeavesStep ==
  ASSUME SendsReady, SendsInv, NEW s \in SupervisorState, Becomes(s), SendInv(s), NoNewAnswers,
         Leaves(sup, s), asked' = asked
  PROVE  ContractStep
<1>1. ContractInv' BY LeavesInv
<1>2. /\ sup'.link = s.link /\ sup'.answers = s.answers /\ sup'.stopping = s.stopping
  BY BecomesFields
<1>3. PICK qs \in SUBSET sup.sends : Counted(sup, s, qs) /\ (qs = sup.sends \/ sup.stopping)
  BY DEF Leaves
<1>4. HasLink(sup) /\ ~HasLink(sup') /\ sup'.stopping = sup.stopping
  BY <1>2 DEF Leaves, HasLink
<1>5. \A q \in Requests : sup'.answers[q] = IF q \in qs THEN sup.answers[q] + 1 ELSE sup.answers[q]
  BY <1>2, <1>3 DEF Counted
<1>6. ContractInv /\ sup.sends \subseteq Requests
  BY DEF SendsReady, TypeOK, SupervisorState
<1> QED BY <1>1, <1>3, <1>4, <1>5, <1>6, GoneMap

(* A helper starts, or the link stays: what a command of the shell or the   *)
(* exit of a process can do.                                                *)
LEMMA StaysOrLaunches ==
  ASSUME SendsReady, NEW s \in SupervisorState, Becomes(s), SendInv(s),
         output' = output, reading' = reading \cup Started,
         NEW alive, NEW unused, unused \subseteq Runs \ reading, NEW start \in Starts(alive, unused),
         Stays(sup, s, {}) \/ Launches(sup, s, start[2]), asked' = asked
  PROVE  ContractStep
<1>1. NoNewAnswers BY ActsBringNone
<1>2. CASE Stays(sup, s, {}) BY <1>1, <1>2, StaysStep
<1>3. CASE Launches(sup, s, start[2])
  <2>1. start[2] # NoRun BY <1>3 DEF Launches, HasLink
  <2>2. start[2] \in Runs \ reading BY <2>1 DEF Starts
  <2> QED BY <1>1, <1>3, <2>2, LaunchesStep
<1> QED BY <1>2, <1>3

(* A command of the shell that is no send.                                  *)
LEMMA OtherCommandStep ==
  ASSUME SendsReady, NEW c \in Command, c.type # "send", Commands(c), asked' = asked
  PROVE  ContractStep
<1>1. PICK start \in Starts(sup.alive, Unused) :
        Becomes(OnCommand(sup, c, start[1], start[2])) /\ reading' = reading \cup Started
        /\ output' = output
  BY DEF Commands, Acts
<1> DEFINE s == OnCommand(sup, c, start[1], start[2])
<1>2. start[1] \in Outcomes /\ (start[1] = "started" => start[2] \in Runs)
  BY StartsOutcome DEF Unused
<1>3. NewSends(c) = {} BY DEF NewSends, SendText
<1>4. SendInv(s) /\ (Stays(sup, s, {}) \/ Launches(sup, s, start[2]))
  BY <1>2, <1>3, OnCommandStays DEF SendsReady
<1>5. s \in SupervisorState BY <1>2, OnCommandTyped DEF SendsReady, TypeOK
<1>6. Becomes(s) BY <1>1
<1> HIDE DEF s
<1>7. Unused \subseteq Runs \ reading BY DEF Unused
<1> QED BY <1>1, <1>4, <1>5, <1>6, <1>7, StaysOrLaunches

(* A send of the shell.                                                     *)
LEMMA SendStep ==
  ASSUME SendsReady, NEW q \in Requests, Send(q)
  PROVE  ContractStep
<1> DEFINE c == SendText(q)
<1>1. /\ c \in Command /\ c.type = "send" /\ NewSends(c) = {q}
      /\ q \notin asked /\ asked' = asked \cup {q}
  BY PairingFacts DEF SendText, NewSends, Send
<1>2. PICK start \in Starts(sup.alive, Unused) :
        Becomes(OnCommand(sup, c, start[1], start[2])) /\ reading' = reading \cup Started
        /\ output' = output
  BY DEF Send, Commands, Acts
<1> DEFINE s == OnCommand(sup, c, start[1], start[2])
           N == IF sup.stopping THEN {} ELSE {q}
<1>3. start[1] \in Outcomes /\ (start[1] = "started" => start[2] \in Runs)
  BY StartsOutcome DEF Unused
<1>4. {q} \cap sup.sends = {} BY <1>1 DEF SendsReady, ContractInv
<1>5. SendInv(s) /\ (Stays(sup, s, N) \/ (Launches(sup, s, start[2]) /\ N = {}))
  <2> HIDE DEF c
  <2> QED BY <1>1, <1>3, <1>4, OnCommandStays DEF SendsReady
<1>6. s \in SupervisorState
  <2> HIDE DEF c
  <2> QED BY <1>1, <1>3, OnCommandTyped DEF SendsReady, TypeOK
<1>7. Becomes(s) /\ (sup.stopping => s = sup) BY <1>2 DEF OnCommand
<1> HIDE DEF s, c
<1>8. NoNewAnswers BY <1>2, ActsBringNone
<1>9. Stays(sup, s, N) BY <1>5 DEF Launches
<1>10. ContractInv' BY <1>1, <1>6, <1>5, <1>7, <1>8, <1>9, StaysInv
<1>11. ContractInv BY DEF SendsReady
<1>12. /\ sup'.link = s.link /\ sup'.answers = s.answers /\ sup'.stopping = s.stopping
       /\ sup'.sends = s.sends
  BY <1>6, <1>7, BecomesFields
<1>13. s.link = sup.link /\ s.stopping = sup.stopping BY <1>9 DEF Stays
<1>14. sup.answers[q] = 0 BY <1>1, <1>11 DEF ContractInv
<1>15. CASE sup.stopping BY <1>1, <1>7, <1>10, <1>11, <1>12, <1>14, <1>15, SubmitMap
<1>16. CASE ~sup.stopping
  <2>1. PICK qs \in SUBSET (Sent(sup.held) \cup {q}) :
          qs \subseteq {q} /\ Counted(sup, s, qs) /\ s.sends = (sup.sends \cup {q}) \ qs
    BY <1>9, <1>16 DEF Stays
  <2>2. \A p \in Requests \ {q} : sup'.answers[p] = sup.answers[p]
    BY <1>12, <2>1 DEF Counted
  <2>3. CASE q \in qs
    <3>1. sup'.answers[q] = 1 BY <1>12, <1>14, <2>1, <2>3 DEF Counted
    <3> QED BY <1>1, <1>10, <1>11, <1>12, <1>13, <1>16, <2>2, <3>1, SubmitMap
  <2>4. CASE q \notin qs
    <3>1. sup'.answers[q] = 0 /\ q \in s.sends BY <1>12, <1>14, <2>1, <2>4 DEF Counted
    <3>2. HasLink(sup) BY <1>5, <1>13, <3>1 DEF SendInv, HasLink
    <3> QED BY <1>1, <1>10, <1>11, <1>12, <1>13, <2>2, <3>1, <3>2, SubmitMap
  <2> QED BY <2>3, <2>4
<1> QED BY <1>15, <1>16

(* Every step of the shell is one of the contract.                          *)
LEMMA ShellContract == ASSUME SendsReady, ShellStep PROVE ContractStep
<1>0. /\ {AcknowledgeGate, CancelLink, Load} \subseteq Command /\ Ready(sup)
      /\ sup \in SupervisorState
  BY PairingFacts DEF SendsReady, TypeOK
<1>1. CASE AcceptGate BY <1>0, <1>1, OtherCommandStep DEF AcceptGate, AcknowledgeGate
<1>2. ASSUME NEW phone \in {FALSE, HasPairCode}, StartPairing(phone) PROVE ContractStep
  <2>1. phone \in BOOLEAN /\ nextGen \in Generations
    BY <1>2, HasPairCodeAssumption DEF StartPairing
  <2>2. BeginLink(nextGen, phone) \in Command BY <2>1, PairingFacts
  <2> QED BY <1>2, <2>2, OtherCommandStep DEF StartPairing, BeginLink
<1>3. CASE Cancel BY <1>0, <1>3, OtherCommandStep DEF Cancel, CancelLink
<1>4. CASE LinkWithPhone BY <1>0, <1>4, OtherCommandStep DEF LinkWithPhone, CancelLink
<1>5. ASSUME NEW q \in Requests, Send(q) PROVE ContractStep BY <1>5, SendStep
<1>6. CASE LoadChats
  <2> DEFINE loading == [sup EXCEPT !.loading = TRUE]
             s == OnCommand(loading, Load, "failed", NoRun)
  <2>1. loading \in SupervisorState /\ SameQueue(sup, loading) /\ SameSends(sup, loading)
    BY <1>0 DEF SupervisorState, SameQueue, SameSends
  <2>2. Becomes(s) /\ asked' = asked /\ NoNewAnswers
    BY <1>6, ActsBringNone DEF LoadChats, Acts, shell
  <2> HIDE DEF loading
  <2>3. Ready(loading)
    BY <1>0, <2>1, SameQueueFacts, SameSendsFacts DEF SameQueue, Ready
  <2>4. NewSends(Load) = {} /\ "failed" \in Outcomes
    BY DEF NewSends, Load, SendText, Outcomes
  <2>5. SendInv(s) /\ (Stays(loading, s, {}) \/ Launches(loading, s, NoRun))
    BY <1>0, <2>3, <2>4, OnCommandStays
  <2>6. s \in SupervisorState BY <1>0, <2>1, <2>4, OnCommandTyped
  <2> HIDE DEF s
  <2>7. ~Launches(loading, s, NoRun) BY DEF Launches, HasLink
  <2>8. Stays(sup, s, {}) BY <2>1, <2>5, <2>7, SameSendsFacts
  <2> QED BY <2>2, <2>5, <2>6, <2>8, StaysStep
<1>7. CASE RestartHelper
  <2>1. PICK start \in Starts(sup.alive, Unused) : Becomes(OnRestart(sup, start[1], start[2]))
    BY <1>7 DEF RestartHelper, Acts
  <2>2. start[1] \in Outcomes /\ (start[1] = "started" => start[2] \in Runs)
    BY StartsOutcome DEF Unused
  <2> DEFINE s == OnRestart(sup, start[1], start[2])
  <2>3. s \in SupervisorState /\ SendInv(s) /\ (Stays(sup, s, {}) \/ Launches(sup, s, start[2]))
    BY <1>0, <2>2, OnRestartTyped, OnRestartStays
  <2>4. Becomes(s) /\ output' = output /\ reading' = reading \cup Started /\ asked' = asked
    BY <1>7, <2>1 DEF RestartHelper, Acts, shell
  <2> HIDE DEF s
  <2>5. Unused \subseteq Runs \ reading BY DEF Unused
  <2> QED BY <2>3, <2>4, <2>5, StaysOrLaunches
<1>8. CASE Close
  <2> DEFINE s == OnShutdown(sup)
  <2>1. Becomes(s) /\ asked' = asked /\ NoNewAnswers
    BY <1>8, ActsBringNone DEF Close, Acts, shell
  <2>2. /\ s \in SupervisorState /\ SendInv(s) /\ Settled(sup, s, {}) /\ s.link = sup.link
        /\ s.stopping /\ s.greeted = sup.greeted /\ Sent(s.written) = {}
    BY <1>0, OnShutdownTyped, OnShutdownSends
  <2> HIDE DEF s
  <2>3. ContractInv' BY <2>1, <2>2, SettledInv
  <2>4. /\ sup'.link = sup.link /\ sup'.stopping /\ sup'.stopping \in BOOLEAN
        /\ sup.stopping \in BOOLEAN
        /\ \A q \in Requests : sup'.answers[q] = sup.answers[q]
    <3>1. s.stopping \in BOOLEAN /\ sup.stopping \in BOOLEAN
      BY <1>0, <2>2 DEF SupervisorState
    <3>2. \A q \in Requests : s.answers[q] = sup.answers[q] BY <2>2 DEF Settled, Counted
    <3> QED BY <2>1, <2>2, <3>1, <3>2, BecomesFields
  <2> QED BY <2>1, <2>3, <2>4, CloseMap
<1> QED BY <1>1, <1>2, <1>3, <1>4, <1>5, <1>6, <1>7, <1>8 DEF ShellStep

(* The helper of the link ended, one way or another.                        *)
LEMMA EndContract ==
  ASSUME SendsReady, SendsInv, HasLink(sup), NEW stable \in BOOLEAN, NoNewAnswers,
         Becomes(HelperEnded(sup, stable)) \/ Becomes(OnHelperGone(sup, stable)),
         asked' = asked
  PROVE  ContractStep
<1>1. /\ HelperEnded(sup, stable) \in SupervisorState
      /\ OnHelperGone(sup, stable) \in SupervisorState
  BY HelperEndedTyped, OnHelperGoneTyped DEF SendsReady, TypeOK
<1>2. PICK s \in SupervisorState : Becomes(s) /\ SendInv(s) /\ Leaves(sup, s)
  BY <1>1, HelperEndedLeaves DEF SendsReady
<1> QED BY <1>2, LeavesStep

(* Every deadline of the supervisor is a step of the contract.              *)
LEMMA TimerContract == ASSUME IInv, SendsReady, TimerStep PROVE ContractStep
<1>0. sup \in SupervisorState /\ Ready(sup) /\ SendsInv BY DEF SendsReady, TypeOK, IInv
<1>1. CASE RestartTimer
  <2> DEFINE base == [sup EXCEPT !.restartArmed = FALSE]
  <2>1. PICK start \in Starts(sup.alive, Unused) : Becomes(Launch(base, start[1], start[2]))
    BY <1>1 DEF RestartTimer, Acts
  <2>2. start[1] \in Outcomes /\ (start[1] = "started" => start[2] \in Runs)
    BY StartsOutcome DEF Unused
  <2>3. base \in SupervisorState /\ SameQueue(sup, base) /\ SameSends(sup, base)
    BY <1>0 DEF SupervisorState, SameQueue, SameSends
  <2> HIDE DEF base
  <2>4. Ready(base) BY <1>0, <2>3, SameQueueFacts, SameSendsFacts DEF SameQueue, Ready
  <2> DEFINE s == Launch(base, start[1], start[2])
  <2>5. /\ s \in SupervisorState /\ SendInv(s)
        /\ Stays(base, s, {}) \/ Launches(base, s, start[2])
    BY <2>2, <2>3, <2>4, LaunchTyped, LaunchStays
  <2>6. Becomes(s) /\ output' = output /\ reading' = reading \cup Started /\ asked' = asked
    BY <1>1, <2>1 DEF RestartTimer, Acts, shell
  <2> HIDE DEF s
  <2>7. Stays(sup, s, {}) \/ Launches(sup, s, start[2]) BY <2>3, <2>5, SameSendsFacts
  <2>8. Unused \subseteq Runs \ reading BY DEF Unused
  <2> QED BY <2>5, <2>6, <2>7, <2>8, StaysOrLaunches
<1>2. CASE StopTimer
  <2>1. sup.stopping BY <1>2 DEF StopTimer, IInv, SupervisorInv, StopInv
  <2> DEFINE s == FinishStop(sup)
  <2>2. s \in SupervisorState /\ SendInv(s) /\ (Leaves(sup, s) \/ Stays(sup, s, {}))
    BY <1>0, <2>1, FinishStopTyped, FinishStopLeaves
  <2>3. Becomes(s) /\ NoNewAnswers /\ asked' = asked
    BY <1>2, ActsBringNone DEF StopTimer, Acts, shell
  <2> HIDE DEF s
  <2> QED BY <1>0, <2>2, <2>3, LeavesStep, StaysStep
<1>3. CASE OldExitTimer
  <2> DEFINE base == [sup EXCEPT !.startWaits = FALSE]
             s == StopFor(base)
  <2>1. base \in SupervisorState /\ SameQueue(sup, base) /\ SameSends(sup, base)
    BY <1>0 DEF SupervisorState, SameQueue, SameSends
  <2>2. Becomes(s) /\ NoNewAnswers /\ asked' = asked
    BY <1>3, ActsBringNone DEF OldExitTimer, Acts, shell
  <2> HIDE DEF base
  <2>3. Ready(base) BY <1>0, <2>1, SameQueueFacts, SameSendsFacts DEF SameQueue, Ready
  <2>4. s \in SupervisorState /\ SendInv(s) /\ (Leaves(base, s) \/ Stays(base, s, {}))
    BY <2>1, <2>3, StopForTyped, StopForLeaves
  <2> HIDE DEF s
  <2>5. Leaves(sup, s) \/ Stays(sup, s, {}) BY <2>1, <2>4, SameSendsFacts
  <2> QED BY <1>0, <2>2, <2>4, <2>5, LeavesStep, StaysStep
<1>4. CASE DrainTimer
  <2>1. PICK stable \in Stable : Becomes(OnHelperGone(sup, stable))
    BY <1>4 DEF DrainTimer, Acts
  <2>2. stable \in BOOLEAN /\ HasLink(sup) /\ asked' = asked /\ NoNewAnswers
    BY <1>4, ActsBringNone DEF DrainTimer, Stable, shell, Acts
  <2> QED BY <1>0, <2>1, <2>2, EndContract
<1>5. CASE HelloTimer
  <2>1. Becomes(HelperEnded(sup, FALSE)) /\ HasLink(sup) /\ asked' = asked /\ NoNewAnswers
    BY <1>5, ActsBringNone DEF HelloTimer, shell, Acts
  <2> QED BY <1>0, <2>1, EndContract
<1>6. CASE BusyTimer
  <2> DEFINE s == Report(sup, "Busy")
  <2>1. s \in SupervisorState /\ SendInv(s) /\ Stays(sup, s, {})
    BY <1>0, ReportTyped, EventsStay DEF HelperState
  <2>2. Becomes(s) /\ NoNewAnswers /\ asked' = asked
    BY <1>6, ActsBringNone DEF BusyTimer, Acts, shell
  <2> HIDE DEF s
  <2> QED BY <2>1, <2>2, StaysStep
<1> QED BY <1>1, <1>2, <1>3, <1>4, <1>5, <1>6 DEF TimerStep

(* A line that is no answer to a send.                                      *)
LEMMA LineStays ==
  ASSUME SendsReady, SendsInv, NEW r \in Runs, r \in reading, output[r] # <<>>,
         NEW s \in SupervisorState, Takes(r, s), SendInv(s), Stays(sup, s, {}) \/ Leaves(sup, s)
  PROVE  ContractStep
<1>1. NoNewAnswers BY TailBringsNone DEF Takes
<1>2. Becomes(s) /\ asked' = asked BY DEF Takes, shell
<1> QED BY <1>1, <1>2, StaysStep, LeavesStep

(* Every exit and every line is a step of the contract.                     *)
LEMMA LineContract == ASSUME IInv, SendsReady, NEW r \in Runs, LineStep(r) PROVE ContractStep
<1>0. /\ sup \in SupervisorState /\ Ready(sup) /\ SendsInv /\ r # NoRun
      /\ output[r] \in Seq(Lines)
  BY RunsAssumption DEF SendsReady, TypeOK, IInv
<1>1. CASE Exited(r)
  <2> DEFINE free == (Unused \cup {r}) \ reading
  <2>1. PICK start \in Starts(sup.alive \ {r}, free) :
          Becomes(OnExited(sup, r, start[1], start[2]))
    BY <1>1 DEF Exited, Acts
  <2>2. free \subseteq Runs \ reading BY DEF Unused
  <2> HIDE DEF free
  <2>3. start[1] \in Outcomes /\ (start[1] = "started" => start[2] \in Runs)
    BY <2>2, StartsOutcome
  <2> DEFINE s == OnExited(sup, r, start[1], start[2])
  <2>4. s \in SupervisorState /\ SendInv(s) /\ (Stays(sup, s, {}) \/ Launches(sup, s, start[2]))
    BY <1>0, <2>3, OnExitedTyped, OnExitedStays
  <2>5. Becomes(s) /\ output' = output /\ reading' = reading \cup Started /\ asked' = asked
    BY <1>1, <2>1 DEF Exited, Acts, shell
  <2> HIDE DEF s
  <2> QED BY <2>2, <2>4, <2>5, StaysOrLaunches
<1>2. CASE Hello(r)
  <2> DEFINE s == OnHello(sup)
  <2>1. HasLink(sup) /\ ~sup.greeted /\ r \in reading /\ output[r] # <<>> /\ Takes(r, s)
    BY <1>0, <1>2 DEF Hello, Reads, Next1, HasLink
  <2>2. s \in SupervisorState /\ SendInv(s) /\ Stays(sup, s, {})
    BY <1>0, <2>1, OnHelloTyped, OnHelloStays
  <2> HIDE DEF s
  <2> QED BY <1>0, <2>1, <2>2, LineStays
<1>3. CASE Refused(r)
  <2> DEFINE s == StopFor(sup)
  <2>1. r \in reading /\ output[r] # <<>> /\ Takes(r, s)
    BY <1>3 DEF Refused, Reads, Next1
  <2>2. s \in SupervisorState /\ SendInv(s) /\ (Leaves(sup, s) \/ Stays(sup, s, {}))
    BY <1>0, StopForTyped, StopForLeaves
  <2> HIDE DEF s
  <2> QED BY <1>0, <2>1, <2>2, LineStays
<1>4. CASE Ack(r)
  <2>1. PICK slow \in BOOLEAN : Takes(r, OnAck(sup, slow)) BY <1>4 DEF Ack
  <2> DEFINE s == OnAck(sup, slow)
  <2>2. r \in reading /\ output[r] # <<>> BY <1>4 DEF Ack, Reads, Next1
  <2>3. s \in SupervisorState /\ SendInv(s) /\ Stays(sup, s, {})
    BY <1>0, LinesTyped, EventsStay
  <2>4. Takes(r, s) BY <2>1
  <2> HIDE DEF s
  <2> QED BY <1>0, <2>2, <2>3, <2>4, LineStays
<1>5. CASE AccountEvent(r)
  <2> DEFINE s == OnAccount(sup, Head(output[r]).type)
  <2>1. /\ Takes(r, s) /\ Head(output[r]).type \in AccountState
        /\ r \in reading /\ output[r] # <<>>
    BY <1>5 DEF AccountEvent, Reads, Next1
  <2>2. s \in SupervisorState /\ SendInv(s) /\ Stays(sup, s, {})
    BY <1>0, <2>1, LinesTyped, EventsStay
  <2> HIDE DEF s
  <2> QED BY <1>0, <2>1, <2>2, LineStays
<1>6. CASE AccountEnded(r)
  <2> DEFINE s == EndPairing(sup)
  <2>1. Takes(r, s) /\ r \in reading /\ output[r] # <<>>
    BY <1>6 DEF AccountEnded, Reads, Next1
  <2>2. s \in SupervisorState /\ SendInv(s) /\ Stays(sup, s, {})
    BY <1>0, LinesTyped, EventsStay
  <2> HIDE DEF s
  <2> QED BY <1>0, <2>1, <2>2, LineStays
<1>7. CASE SendAnswer(r)
  <2> DEFINE q == Head(output[r]).req
             s == OnSendAnswer(sup, q)
  <2>1. Takes(r, s) /\ r \in reading /\ output[r] # <<>> /\ sup.link = r /\ sup.greeted = TRUE
    BY <1>7 DEF SendAnswer, Reads, Next1
  <2>2. Head(output[r]) \in Lines /\ Head(output[r]).type = "answer"
    BY <1>0, <1>7 DEF SendAnswer, Reads, Next1
  <2>3. q \in Requests /\ Head(output[r]) = Answer(q) BY <2>2 DEF Lines, Line, Answer
  <2> HIDE DEF q
  <2>4. /\ s \in SupervisorState /\ SendInv(s) /\ Settled(sup, s, {q}) /\ s.link = sup.link
        /\ s.stopping = sup.stopping /\ s.greeted /\ s.written = <<>>
    BY <1>0, <2>1, <2>3, LinesTyped, OnSendAnswerStays
  <2>5. s.greeted = sup.greeted /\ Sent(s.written) = {}
    <3>1. s.greeted \in BOOLEAN BY <2>4
    <3> QED BY <2>1, <2>4, <3>1, NoSends
  <2> HIDE DEF s
  <2>6. Becomes(s) /\ asked' = asked BY <2>1 DEF Takes, shell
  <2>7. HasLink(sup) /\ RepliedOnce(output[r])
    <3>1. HasLink(sup) BY <1>0, <2>1 DEF HasLink
    <3> QED BY <2>1, <3>1 DEF SendsReady, ContractInv, Carries
  <2>8. /\ NoNewAnswers /\ q \in Replied(output[r]) /\ q \notin Replied(output'[r])
    <3>1. reading' = reading /\ output' = [output EXCEPT ![r] = Tail(@)]
      BY <2>1 DEF Takes
    <3> QED BY <2>1, <2>3, <2>7, <3>1, TailBringsNone
  <2>9. ContractInv' BY <2>1, <2>4, <2>5, <2>6, <2>7, <2>8, SettledInv
  <2>10. /\ sup'.link = sup.link /\ sup'.stopping = sup.stopping /\ sup'.answers = s.answers
    BY <2>4, <2>6, BecomesFields
  <2>11. \A p \in Requests : sup'.answers[p] = IF p \in {q} THEN sup.answers[p] + 1 ELSE sup.answers[p]
    BY <2>4, <2>10 DEF Settled, Counted
  <2>12. ContractInv /\ {q} \in SUBSET Requests BY <2>3 DEF SendsReady
  <2> QED BY <2>6, <2>7, <2>9, <2>10, <2>11, <2>12, AnswerMap
<1>8. CASE Loaded(r)
  <2> DEFINE s == [sup EXCEPT !.loading = FALSE]
  <2>1. Takes(r, s) /\ r \in reading /\ output[r] # <<>>
    BY <1>8 DEF Loaded, Reads, Next1
  <2>2. s \in SupervisorState /\ SendInv(s) /\ Stays(sup, s, {})
    BY <1>0, LinesTyped, EventsStay
  <2> HIDE DEF s
  <2> QED BY <1>0, <2>1, <2>2, LineStays
<1>9. CASE HelperStopped(r)
  <2>1. r \in reading /\ output[r] # <<>> BY <1>9 DEF HelperStopped, Reads, Next1
  <2>2. CASE sup.stopping
    <3> DEFINE s == FinishStop(sup)
    <3>1. s \in SupervisorState /\ SendInv(s) /\ (Leaves(sup, s) \/ Stays(sup, s, {}))
      BY <1>0, <2>2, FinishStopTyped, FinishStopLeaves
    <3>2. Takes(r, s) BY <1>9, <2>2 DEF HelperStopped
    <3> HIDE DEF s
    <3> QED BY <1>0, <2>1, <3>1, <3>2, LineStays
  <2>3. CASE ~sup.stopping
    <3>1. Takes(r, sup) BY <1>9, <2>3 DEF HelperStopped
    <3>2. SendInv(sup) /\ Stays(sup, sup, {}) BY <1>0, EventsStay
    <3> QED BY <1>0, <2>1, <3>1, <3>2, LineStays
  <2> QED BY <2>2, <2>3
<1>10. CASE OutOfPlace(r)
  <2>1. PICK stable \in Stable : Takes(r, HelperEnded(sup, stable))
    BY <1>10 DEF OutOfPlace
  <2>2. stable \in BOOLEAN /\ HasLink(sup) /\ r \in reading /\ output[r] # <<>>
    BY <1>0, <1>10 DEF Stable, OutOfPlace, Reads, Next1, HasLink
  <2> DEFINE s == HelperEnded(sup, stable)
  <2>3. s \in SupervisorState /\ SendInv(s) /\ Leaves(sup, s)
    BY <1>0, <2>2, HelperEndedTyped, HelperEndedLeaves
  <2>4. Takes(r, s) BY <2>1
  <2> HIDE DEF s
  <2> QED BY <1>0, <2>2, <2>3, <2>4, LineStays
<1>11. CASE OutputEnded(r)
  <2>1. asked' = asked /\ NoNewAnswers
    <3>1. /\ output \in [Runs -> Seq(Lines)] /\ reading' = reading \ {r}
          /\ output' = [output EXCEPT ![r] = <<>>] /\ asked' = asked
      BY <1>11 DEF OutputEnded, shell, SendsReady, TypeOK
    <3>2. Replied(<<>>) = {} /\ RepliedOnce(<<>>)
      <4>1. DOMAIN <<>> = {} /\ Range(<<>>) = {} BY DEF Range
      <4> QED BY <4>1 DEF Replied, RepliedOnce, Named, NamedOnce
    <3>3. output'[r] = <<>> /\ \A p \in Runs \ {r} : output'[p] = output[p] BY <3>1
    <3>4. \A p \in Runs \ reading : output[p] = <<>> BY DEF SendsReady, ContractInv
    <3> SUFFICES ASSUME NEW p \in Runs
                 PROVE  /\ Replied(output'[p]) \subseteq Replied(output[p])
                        /\ RepliedOnce(output[p]) => RepliedOnce(output'[p])
                        /\ p \notin reading' => output'[p] = <<>>
      BY <3>1 DEF NoNewAnswers
    <3>5. CASE p = r BY <3>2, <3>3, <3>5
    <3>6. CASE p # r BY <3>1, <3>3, <3>4, <3>6
    <3> QED BY <3>5, <3>6
  <2>2. CASE sup.link = r
    <3>1. PICK stable \in Stable : Becomes(OnHelperGone(sup, stable))
      BY <1>11, <2>2 DEF OutputEnded
    <3>2. stable \in BOOLEAN /\ HasLink(sup) BY <1>0, <2>2 DEF Stable, HasLink
    <3> QED BY <1>0, <2>1, <3>1, <3>2, EndContract
  <2>3. CASE sup.link # r
    <3>1. Becomes(sup) BY <1>11, <2>3 DEF OutputEnded
    <3>2. SendInv(sup) /\ Stays(sup, sup, {}) BY <1>0, EventsStay
    <3> QED BY <1>0, <2>1, <3>1, <3>2, StaysStep
  <2> QED BY <2>2, <2>3
<1>12. CASE StaleLine(r)
  <2>1. r \in reading /\ output[r] # <<>> /\ Takes(r, sup) BY <1>12 DEF StaleLine, Next1
  <2>2. SendInv(sup) /\ Stays(sup, sup, {}) BY <1>0, EventsStay
  <2> QED BY <1>0, <2>1, <2>2, LineStays
<1> QED BY <1>1, <1>2, <1>3, <1>4, <1>5, <1>6, <1>7, <1>8, <1>9, <1>10, <1>11, <1>12 DEF LineStep

(* What the helper of process r does leaves the supervisor and the other    *)
(* processes alone: the step is none of the contract.                       *)
LEMMA HelperMoves ==
  ASSUME SendsReady, NEW r \in Runs, sup' = sup, asked' = asked, reading' = reading,
         \A p \in Runs \ {r} : /\ input'[p] = input[p] /\ output'[p] = output[p]
                               /\ helper'[p] = helper[p],
         r \notin reading => output'[r] = output[r],
         Carries(sup, input[r], helper[r].todo, output[r]) =>
           Carries(sup, input'[r], helper'[r].todo, output'[r])
  PROVE  ContractStep
<1>1. HasLink(sup) => Carries(sup, input'[sup.link], helper'[sup.link].todo, output'[sup.link])
  <2>1. HasLink(sup) => sup.link \in Runs
    BY DEF SendsReady, TypeOK, SupervisorState, HasLink
  <2>2. CASE sup.link = r BY <2>2 DEF SendsReady, ContractInv
  <2>3. CASE sup.link # r BY <2>1, <2>3 DEF SendsReady, ContractInv
  <2> QED BY <2>2, <2>3
<1>2. \A p \in Runs \ reading' : output'[p] = <<>> BY DEF SendsReady, ContractInv
<1>3. HasLink(sup') => Carries(sup', input'[sup'.link], helper'[sup'.link].todo, output'[sup'.link])
  BY <1>1
<1>4. ContractInv' BY <1>2, <1>3 DEF SendsReady, ContractInv
<1>5. [q \in Requests |-> SendState(q)]' = [q \in Requests |-> SendState(q)] BY SameRows
<1>6. HasLink(sup') = HasLink(sup) /\ sup'.stopping = sup.stopping OBVIOUS
<1> QED BY <1>4, <1>5, <1>6 DEF ContractStep, Contract!contractVars

(* Lines that are no answers answer nothing.                                *)
LEMMA NoReplies ==
  /\ Replied(<<>>) = {} /\ RepliedOnce(<<>>)
  /\ \A type : type # "answer" => Replied(<<Line(type)>>) = {}
  /\ \A t1, t2 : t1 # "answer" /\ t2 # "answer" =>
       Replied(<<Line(t1), Line(t2)>>) = {}
<1>1. Replied(<<>>) = {} /\ RepliedOnce(<<>>)
  <2>1. DOMAIN <<>> = {} /\ Range(<<>>) = {} BY DEF Range
  <2> QED BY <2>1 DEF Replied, RepliedOnce, Named, NamedOnce
<1>2. \A type : \A q \in Requests : type # "answer" => Line(type) # Answer(q)
  <2> TAKE type
  <2> TAKE q \in Requests
  <2>1. Line(type).type = type /\ Answer(q).type = "answer" BY DEF Line, Answer
  <2> QED BY <2>1
<1>3. ASSUME NEW type, type # "answer" PROVE Replied(<<Line(type)>>) = {}
  <2> DEFINE l == Line(type)
  <2>1. Range(<<l>>) = {l}
    <3> HIDE DEF l
    <3> QED BY DEF Range
  <2>2. \A q \in Requests : l # Answer(q) BY <1>2, <1>3
  <2> HIDE DEF l
  <2>3. Replied(<<l>>) = {} BY <2>1, <2>2 DEF Replied, Named, AnswerNames
  <2> QED BY <2>3 DEF l
<1>4. ASSUME NEW t1, NEW t2, t1 # "answer", t2 # "answer"
      PROVE  Replied(<<Line(t1), Line(t2)>>) = {}
  <2> DEFINE l1 == Line(t1)
             l2 == Line(t2)
  <2>1. Range(<<l1, l2>>) = {l1, l2}
    <3> HIDE DEF l1, l2
    <3> QED BY DEF Range
  <2>2. \A q \in Requests : l1 # Answer(q) /\ l2 # Answer(q) BY <1>2, <1>4
  <2> HIDE DEF l1, l2
  <2>3. Replied(<<l1, l2>>) = {} BY <2>1, <2>2 DEF Replied, Named, AnswerNames
  <2> QED BY <2>3 DEF l1, l2
<1> QED BY <1>1, <1>3, <1>4

(* The lines of a helper that are no answers.                               *)
LEMMA OtherTypes ==
  \A type \in {"hello", "badHello", "refused", "ack", "loaded", "Unlinked", "Linking",
               "Linked", "ended", "stopped", "garbage", "closed"} :
    /\ <<Line(type)>> \in Seq(Lines) /\ Replied(<<Line(type)>>) = {}
    /\ <<Line("ack"), Line(type)>> \in Seq(Lines)
    /\ Replied(<<Line("ack"), Line(type)>>) = {}
<1> DEFINE Types == {"hello", "badHello", "refused", "ack", "loaded", "Unlinked", "Linking",
                    "Linked", "ended", "stopped", "garbage", "closed"}
<1>1. \A type \in Types : type # "answer" OBVIOUS
<1>2. \A type \in Types : Line(type) \in Lines BY LineFacts
<1>3. "ack" \in Types OBVIOUS
<1> HIDE DEF Types
<1>4. \A type \in Types : <<Line(type)>> \in Seq(Lines) /\ <<Line("ack"), Line(type)>> \in Seq(Lines)
  BY <1>2, <1>3
<1>5. \A type \in Types : Replied(<<Line(type)>>) = {} /\ Replied(<<Line("ack"), Line(type)>>) = {}
  BY <1>1, <1>3, NoReplies
<1> QED BY <1>4, <1>5 DEF Types

(* A helper writes lines that are no answers.                               *)
LEMMA WritesMap ==
  ASSUME SendsReady, NEW r \in Runs, NEW h, NEW lines \in Seq(Lines),
         Writes(r, h, lines), Replied(lines) = {}, h.todo = helper[r].todo, input' = input
  PROVE  ContractStep
<1>1. /\ output \in [Runs -> Seq(Lines)] /\ helper \in [Runs -> HelperProcess]
      /\ output[r] \in Seq(Lines)
  BY DEF SendsReady, TypeOK
<1>2. /\ sup' = sup /\ asked' = asked /\ reading' = reading
      /\ \A p \in Runs \ {r} : output'[p] = output[p] /\ helper'[p] = helper[p]
      /\ helper'[r] = h
      /\ output'[r] = IF r \in reading THEN output[r] \o lines ELSE output[r]
  BY <1>1 DEF Writes, shell
<1>3. RepliedOnce(output[r]) => RepliedOnce(output'[r]) /\ Replied(output'[r]) = Replied(output[r])
  <2>1. CASE r \in reading BY <1>1, <1>2, <2>1, OtherLines
  <2>2. CASE r \notin reading BY <1>2, <2>2
  <2> QED BY <2>1, <2>2
<1>4. Carries(sup, input[r], helper[r].todo, output[r]) =>
        Carries(sup, input'[r], helper'[r].todo, output'[r])
  BY <1>2, <1>3 DEF Carries
<1> QED BY <1>2, <1>4, HelperMoves

(* A helper takes a command that is no send from its stdin.                 *)
LEMMA ServesMap ==
  ASSUME SendsReady, NEW r \in Runs, NEW type, NEW h, NEW lines \in Seq(Lines),
         Serves(r, type, h, lines), Replied(lines) = {}, h.todo = helper[r].todo
  PROVE  ContractStep
<1>1. /\ output \in [Runs -> Seq(Lines)] /\ helper \in [Runs -> HelperProcess]
      /\ input \in [Runs -> Seq(Command \cup {Shutdown})]
      /\ output[r] \in Seq(Lines) /\ input[r] \in Seq(Command \cup {Shutdown})
  BY DEF SendsReady, TypeOK
<1>2. /\ sup' = sup /\ asked' = asked /\ reading' = reading
      /\ \A p \in Runs \ {r} : /\ output'[p] = output[p] /\ helper'[p] = helper[p]
                               /\ input'[p] = input[p]
      /\ helper'[r] = h /\ input[r] # <<>> /\ input'[r] = Tail(input[r])
      /\ output'[r] = IF r \in reading THEN output[r] \o lines ELSE output[r]
  BY <1>1 DEF Serves, Writes, shell
<1>3. RepliedOnce(output[r]) => RepliedOnce(output'[r]) /\ Replied(output'[r]) = Replied(output[r])
  <2>1. CASE r \in reading BY <1>1, <1>2, <2>1, OtherLines
  <2>2. CASE r \notin reading BY <1>2, <2>2
  <2> QED BY <2>1, <2>2
<1>4. Sent(input'[r]) \subseteq Sent(input[r]) /\ (SentOnce(input[r]) => SentOnce(input'[r]))
  BY <1>1, <1>2, TailNamed, SentNamed
<1>5. Carries(sup, input[r], helper[r].todo, output[r]) =>
        Carries(sup, input'[r], helper'[r].todo, output'[r])
  BY <1>2, <1>3, <1>4 DEF Carries
<1> QED BY <1>2, <1>5, HelperMoves

(* A helper takes a send: it waits in the adapter now.                      *)
LEMMA TakesSendMap ==
  ASSUME SendsReady, NEW r \in Runs, TakesSend(r)
  PROVE  ContractStep
<1> DEFINE c == Head(input[r])
           q == c.req
           lines == <<Line("ack")>>
<1>1. /\ output \in [Runs -> Seq(Lines)] /\ helper \in [Runs -> HelperProcess]
      /\ input \in [Runs -> Seq(Command \cup {Shutdown})]
      /\ output[r] \in Seq(Lines) /\ input[r] \in Seq(Command \cup {Shutdown})
      /\ helper[r] \in HelperProcess
  BY DEF SendsReady, TypeOK
<1>2. /\ sup' = sup /\ asked' = asked /\ reading' = reading
      /\ \A p \in Runs \ {r} : /\ output'[p] = output[p] /\ helper'[p] = helper[p]
                               /\ input'[p] = input[p]
      /\ helper'[r] = [helper[r] EXCEPT !.todo = @ \cup {q}]
      /\ input[r] # <<>> /\ c.type = "send" /\ input'[r] = Tail(input[r])
      /\ output'[r] = IF r \in reading THEN output[r] \o lines ELSE output[r]
  <2> HIDE DEF lines
  <2> QED BY <1>1 DEF TakesSend, Serves, Writes, shell, lines
<1>3. helper'[r].todo = helper[r].todo \cup {q} BY <1>1, <1>2
<1>4. q \in Requests /\ c = SendText(q)
  <2>1. c \in Command \cup {Shutdown} BY <1>1, <1>2
  <2> HIDE DEF c
  <2> QED BY <1>2, <2>1 DEF Command, Pairings, Shutdown, AcknowledgeGate, CancelLink, Load,
                        SendText, BeginLink, c
<1>5. lines \in Seq(Lines) /\ Replied(lines) = {} BY OtherTypes
<1>6. RepliedOnce(output[r]) => RepliedOnce(output'[r]) /\ Replied(output'[r]) = Replied(output[r])
  <2> HIDE DEF lines
  <2>1. CASE r \in reading BY <1>1, <1>2, <1>5, <2>1, OtherLines
  <2>2. CASE r \notin reading BY <1>2, <2>2
  <2> QED BY <2>1, <2>2
<1>7. /\ Sent(input'[r]) \subseteq Sent(input[r])
      /\ SentOnce(input[r]) => /\ SentOnce(input'[r])
                               /\ q \in Sent(input[r]) /\ q \notin Sent(input'[r])
  <2>1. SendNames[q] = c BY <1>4 DEF SendNames
  <2> HIDE DEF c, q
  <2>2. /\ Named(SendNames, Tail(input[r])) \subseteq Named(SendNames, input[r])
        /\ NamedOnce(SendNames, input[r]) =>
             /\ NamedOnce(SendNames, Tail(input[r]))
             /\ \A p \in Requests : SendNames[p] = Head(input[r]) =>
                  p \in Named(SendNames, input[r]) /\ p \notin Named(SendNames, Tail(input[r]))
    BY <1>1, <1>2, TailNamed
  <2> QED BY <1>2, <1>4, <2>1, <2>2, SentNamed DEF c
<1> HIDE DEF c, q, lines
<1>8. Carries(sup, input[r], helper[r].todo, output[r]) =>
        Carries(sup, input'[r], helper'[r].todo, output'[r])
  BY <1>3, <1>6, <1>7 DEF Carries
<1> QED BY <1>2, <1>8, HelperMoves

(* A helper answers a send: the answer waits in its stdout now.             *)
LEMMA AnswersMove ==
  ASSUME SendsReady, NEW r \in Runs, Answers(r)
  PROVE  ContractStep
<1>1. /\ output \in [Runs -> Seq(Lines)] /\ helper \in [Runs -> HelperProcess]
      /\ output[r] \in Seq(Lines) /\ helper[r] \in HelperProcess
  BY DEF SendsReady, TypeOK
<1>2. PICK q \in helper[r].todo : Says(r, [helper[r] EXCEPT !.todo = @ \ {q}], <<Answer(q)>>)
  BY DEF Answers
<1> DEFINE lines == <<Answer(q)>>
<1>3. /\ sup' = sup /\ asked' = asked /\ reading' = reading /\ input' = input
      /\ \A p \in Runs \ {r} : output'[p] = output[p] /\ helper'[p] = helper[p]
      /\ helper'[r] = [helper[r] EXCEPT !.todo = @ \ {q}]
      /\ output'[r] = IF r \in reading THEN output[r] \o lines ELSE output[r]
  <2> HIDE DEF lines
  <2> QED BY <1>1, <1>2 DEF Says, Writes, shell, lines
<1>4. helper'[r].todo = helper[r].todo \ {q} /\ q \in Requests
  BY <1>1, <1>3 DEF HelperProcess
<1>5. ASSUME Carries(sup, input[r], helper[r].todo, output[r])
      PROVE  Carries(sup, input'[r], helper'[r].todo, output'[r])
  <2>1. q \notin Replied(output[r]) /\ q \notin Sent(input[r]) /\ RepliedOnce(output[r])
    BY <1>2, <1>5 DEF Carries
  <2>2. CASE r \in reading
    <3>1. RepliedOnce(output[r] \o lines) /\ Replied(output[r] \o lines) = Replied(output[r]) \cup {q}
      BY <1>1, <1>4, <2>1, NewAnswer
    <3> HIDE DEF lines
    <3>2. RepliedOnce(output'[r]) /\ Replied(output'[r]) = Replied(output[r]) \cup {q}
      BY <1>3, <2>2, <3>1
    <3> QED BY <1>2, <1>3, <1>4, <1>5, <2>1, <3>2 DEF Carries
  <2>3. CASE r \notin reading
    <3>1. output'[r] = output[r] BY <1>3, <2>3
    <3> QED BY <1>3, <1>4, <1>5, <3>1 DEF Carries
  <2> QED BY <2>2, <2>3
<1> QED BY <1>3, <1>5, HelperMoves

(* A helper ends: the sends in its pipe and its adapter are nowhere now.    *)
LEMMA DiesMap ==
  ASSUME SendsReady, NEW r \in Runs, Dies(r)
  PROVE  ContractStep
<1> DEFINE end == <<Line("closed")>>
<1>1. /\ output \in [Runs -> Seq(Lines)] /\ helper \in [Runs -> HelperProcess]
      /\ input \in [Runs -> Seq(Command \cup {Shutdown})]
      /\ output[r] \in Seq(Lines)
  BY DEF SendsReady, TypeOK
<1>2. end \in Seq(Lines) /\ Replied(end) = {} /\ Line("closed") \in Lines
  BY OtherTypes
<1>3. Append(output[r], Line("closed")) = output[r] \o end
  <2> DEFINE l == Line("closed")
  <2> HIDE DEF l
  <2>1. Append(output[r], l) = output[r] \o <<l>> BY <1>1, <1>2 DEF l
  <2> QED BY <2>1 DEF l
<1> HIDE DEF end
<1>4. /\ sup' = sup /\ asked' = asked /\ reading' = reading
      /\ \A p \in Runs \ {r} : /\ output'[p] = output[p] /\ helper'[p] = helper[p]
                               /\ input'[p] = input[p]
      /\ helper'[r] = NewProcess /\ input'[r] = <<>>
      /\ output'[r] = IF r \in reading THEN output[r] \o end ELSE output[r]
  BY <1>1, <1>3 DEF Dies, shell
<1>5. RepliedOnce(output[r]) => RepliedOnce(output'[r]) /\ Replied(output'[r]) = Replied(output[r])
  <2>1. CASE r \in reading BY <1>1, <1>2, <1>4, <2>1, OtherLines
  <2>2. CASE r \notin reading BY <1>4, <2>2
  <2> QED BY <2>1, <2>2
<1>6. Sent(input'[r]) = {} /\ SentOnce(input'[r]) /\ helper'[r].todo = {}
  BY <1>4, NoSends DEF NewProcess
<1>7. Carries(sup, input[r], helper[r].todo, output[r]) =>
        Carries(sup, input'[r], helper'[r].todo, output'[r])
  BY <1>5, <1>6 DEF Carries
<1> QED BY <1>4, <1>7, HelperMoves

(* What a helper process does is no step of the contract: an answer counts  *)
(* when the supervisor reads it.                                            *)
LEMMA HelperContract == ASSUME SendsReady, NEW r \in Runs, HelperStep(r) PROVE ContractStep
<1>0. helper[r] \in HelperProcess BY DEF SendsReady, TypeOK
<1> DEFINE Types == {"hello", "badHello", "refused", "ack", "loaded", "Unlinked", "Linking",
                    "Linked", "ended", "stopped", "garbage", "closed"}
           says(type) == <<Line(type)>>
           saysTwo(type) == <<Line("ack"), Line(type)>>
<1>l. /\ \A type \in Types : says(type) \in Seq(Lines) /\ Replied(says(type)) = {}
      /\ \A type \in Types : saysTwo(type) \in Seq(Lines) /\ Replied(saysTwo(type)) = {}
      /\ <<>> \in Seq(Lines) /\ Replied(<<>>) = {}
  <2>1. \A type \in Types :
          /\ <<Line(type)>> \in Seq(Lines) /\ Replied(<<Line(type)>>) = {}
          /\ <<Line("ack"), Line(type)>> \in Seq(Lines)
          /\ Replied(<<Line("ack"), Line(type)>>) = {}
    BY OtherTypes
  <2>2. <<>> \in Seq(Lines) /\ Replied(<<>>) = {} BY NoReplies
  <2> HIDE DEF Types
  <2> QED BY <2>1, <2>2 DEF says
<1> HIDE DEF says, saysTwo
<1>1. CASE Speaks(r)
  <2>1. PICK first \in {"hello", "badHello", "refused"} :
          Says(r, [helper[r] EXCEPT !.spoke = TRUE], says(first))
    BY <1>1 DEF Speaks, says
  <2>2. [helper[r] EXCEPT !.spoke = TRUE].todo = helper[r].todo
    BY <1>0
  <2> QED BY <1>l, <2>1, <2>2, WritesMap DEF Says
<1>2. CASE TakesGate(r)
  <2>1. Serves(r, "gate", [helper[r] EXCEPT !.gate = TRUE], says("ack"))
    BY <1>2 DEF TakesGate, says
  <2>2. [helper[r] EXCEPT !.gate = TRUE].todo = helper[r].todo BY <1>0
  <2> QED BY <1>l, <2>1, <2>2, ServesMap
<1>3. CASE TakesBegin(r)
  <2>1. CASE helper[r].gate
    <3>1. Serves(r, "begin", [helper[r] EXCEPT !.link = "Linking"], saysTwo("Linking"))
      BY <1>3, <2>1 DEF TakesBegin, saysTwo
    <3>2. [helper[r] EXCEPT !.link = "Linking"].todo = helper[r].todo
      BY <1>0
    <3> QED BY <1>l, <3>1, <3>2, ServesMap
  <2>2. CASE ~helper[r].gate
    <3>1. Serves(r, "begin", helper[r], says("ack")) BY <1>3, <2>2 DEF TakesBegin, says
    <3> QED BY <1>l, <3>1, ServesMap
  <2> QED BY <2>1, <2>2
<1>4. CASE TakesCancel(r)
  <2>1. Serves(r, "cancel", [helper[r] EXCEPT !.gate = FALSE, !.link = "Unlinked"],
               saysTwo("Unlinked"))
    BY <1>4 DEF TakesCancel, saysTwo
  <2>2. [helper[r] EXCEPT !.gate = FALSE, !.link = "Unlinked"].todo = helper[r].todo
    BY <1>0
  <2> QED BY <1>l, <2>1, <2>2, ServesMap
<1>5. CASE TakesLoad(r)
  <2>1. Serves(r, "load", helper[r], saysTwo("loaded")) BY <1>5 DEF TakesLoad, saysTwo
  <2> QED BY <1>l, <2>1, ServesMap
<1>6. CASE TakesShutdown(r)
  <2>1. PICK confirmed \in BOOLEAN :
          Serves(r, "shutdown", [helper[r] EXCEPT !.stopping = TRUE],
                 IF confirmed THEN says("stopped") ELSE <<>>)
    BY <1>6 DEF TakesShutdown, says
  <2> DEFINE lines == IF confirmed THEN says("stopped") ELSE <<>>
  <2>2. [helper[r] EXCEPT !.stopping = TRUE].todo = helper[r].todo
    BY <1>0
  <2>3. lines \in Seq(Lines) /\ Replied(lines) = {} BY <1>l
  <2> HIDE DEF lines
  <2>4. Serves(r, "shutdown", [helper[r] EXCEPT !.stopping = TRUE], lines)
    BY <2>1 DEF lines
  <2> QED BY <2>2, <2>3, <2>4, ServesMap
<1>7. CASE Resumes(r)
  <2>1. Says(r, [helper[r] EXCEPT !.link = "Linking"], says("Linking"))
    BY <1>7 DEF Resumes, says
  <2>2. [helper[r] EXCEPT !.link = "Linking"].todo = helper[r].todo
    BY <1>0
  <2> QED BY <1>l, <2>1, <2>2, WritesMap DEF Says
<1>8. CASE Links(r)
  <2>1. Writes(r, [helper[r] EXCEPT !.link = "Linked"], says("Linked")) /\ input' = input
    BY <1>8 DEF Links, says
  <2>2. [helper[r] EXCEPT !.link = "Linked"].todo = helper[r].todo
    BY <1>0
  <2> QED BY <1>l, <2>1, <2>2, WritesMap
<1>9. CASE Unlinks(r)
  <2>1. PICK event \in {"Unlinked", "ended"} :
          Writes(r, [helper[r] EXCEPT !.link = "Unlinked"], says(event))
    BY <1>9 DEF Unlinks, says
  <2>2. input' = input BY <1>9 DEF Unlinks
  <2>3. [helper[r] EXCEPT !.link = "Unlinked"].todo = helper[r].todo
    BY <1>0
  <2> QED BY <1>l, <2>1, <2>2, <2>3, WritesMap
<1>10. CASE Breaks(r)
  <2>1. PICK line \in {"garbage", "closed"} : Says(r, helper[r], says(line))
    BY <1>10 DEF Breaks, says
  <2> QED BY <1>l, <2>1, WritesMap DEF Says
<1> QED BY <1>1, <1>2, <1>3, <1>4, <1>5, <1>6, <1>7, <1>8, <1>9, <1>10,
           TakesSendMap, AnswersMove, DiesMap DEF HelperStep

(* Nothing is sent when the adapter starts.                                 *)
LEMMA InitContract == Init => ContractInv /\ Contract!ContractInit
<1> SUFFICES ASSUME Init PROVE ContractInv /\ Contract!ContractInit
  OBVIOUS
<1>1. /\ sup.link = NoRun /\ sup.held = <<>> /\ sup.sends = {} /\ sup.stopping = FALSE
      /\ sup.answers = [q \in Requests |-> 0] /\ asked = {}
  BY DEF Init, InitialSupervisor
<1>2. \A r \in Runs : output[r] = <<>> BY DEF Init
<1>3. HasLink(sup) = FALSE BY <1>1 DEF HasLink
<1>4. SendInv(sup) BY <1>1, <1>3, NoSends DEF SendInv
<1>5. ContractInv BY <1>1, <1>2, <1>3, <1>4 DEF ContractInv
<1>6. [q \in Requests |-> SendState(q)] = [q \in Requests |-> "new"]
  BY <1>1 DEF SendState
<1> QED BY <1>1, <1>3, <1>5, <1>6 DEF Contract!ContractInit

(* Every step keeps the invariant and is one of the contract, or none.      *)
LEMMA NextContract == IInv /\ PairingInv /\ ContractInv /\ [Next]_vars => ContractStep
<1> SUFFICES ASSUME IInv, PairingInv, ContractInv, [Next]_vars PROVE ContractStep
  OBVIOUS
<1>1. SendsReady BY DEF SendsReady, PairingInv, ContractInv, Ready
<1>2. CASE Next
  BY <1>1, <1>2, ShellContract, TimerContract, LineContract, HelperContract DEF Next
<1>3. CASE UNCHANGED vars
  <2>1. ContractInv' BY <1>3 DEF ContractInv, vars
  <2>2. [q \in Requests |-> SendState(q)]' = [q \in Requests |-> SendState(q)]
    BY <1>3 DEF vars, SendState
  <2>3. HasLink(sup') = HasLink(sup) /\ sup'.stopping = sup.stopping BY <1>3 DEF vars
  <2> QED BY <2>1, <2>2, <2>3 DEF ContractStep, Contract!contractVars
<1> QED BY <1>2, <1>3

(* Each open send is in one place: the queue for Hello, the stdin of the    *)
(* helper, its adapter or its stdout.  No send has a second answer.         *)
THEOREM ContractInvariance == Spec => []ContractInv
<1>1. IInv /\ PairingInv /\ ContractInv /\ [Next]_vars => ContractInv'
  BY NextContract DEF ContractStep
<1> QED BY <1>1, InitContract, Invariance, PairingInvariance, PTL DEF Spec

(* The helper protocol implements the send contract (ADR 0010 rule 4): every*)
(* send is answered once, only while a helper serves it or in the step that *)
(* drops its helper, whatever lines are late and whatever processes crash.  *)
THEOREM SendContractIsKept == Spec => KeepsSendContract
<1>1. IInv /\ PairingInv /\ ContractInv /\ [Next]_vars =>
        [Contract!ContractNext]_(Contract!contractVars)
  BY NextContract DEF ContractStep
<1> QED BY <1>1, InitContract, Invariance, PairingInvariance, ContractInvariance, PTL
        DEF Spec, KeepsSendContract, Contract!ContractSpec

-----------------------------------------------------------------------------
(* The risk gate of a pairing: the system.                                  *)

(* What holds of the acceptance between two events: the supervisor has it   *)
(* when the shell has it, and every queue brings it before the pairing      *)
(* starts that are in it, or its helper has it already.                     *)
GateInv ==
    /\ gate /\ ~sup.stopping => sup.acknowledged
    /\ Consented(sup) /\ GateQueue(sup)
    /\ \A r \in Runs : Gated(input[r], helper[r].gate)
    /\ HasLink(sup) /\ sup.greeted /\ sup.acknowledged /\ sup.link \in up =>
         EndsGated(input[sup.link], helper[sup.link].gate)

(* The supervisor goes to s: what it writes goes behind what the helper got *)
(* before.                                                                  *)
LEMMA BecomesGates ==
  ASSUME PairingInv, GateInv, NEW s, Becomes(s), QueueInv(s), GateMoves(sup, s),
         gate' /\ ~s.stopping => s.acknowledged
  PROVE  GateInv'
<1>1. /\ sup \in SupervisorState /\ QueueInv(sup) /\ sup.written = <<>>
      /\ s \in SupervisorState /\ s.written \in Seq(Command \cup {Shutdown})
      /\ input \in [Runs -> Seq(Command \cup {Shutdown})]
      /\ s.link \in Runs \cup {NoRun} /\ NoRun \notin Runs
      /\ up \subseteq Runs
  BY RunsAssumption DEF PairingInv, TypeOK, QueueInv, SupervisorState
<1>2. /\ sup'.link = s.link /\ sup'.greeted = s.greeted /\ sup'.held = s.held
      /\ sup'.wakeLink = s.wakeLink /\ sup'.replayLink = s.replayLink
      /\ sup'.written = <<>> /\ sup'.stopping = s.stopping
      /\ sup'.acknowledged = s.acknowledged
  BY <1>1 DEF Becomes
<1> DEFINE started == IF HasLink(s) /\ ~HasLink(sup) THEN {s.link} ELSE {}
           h == sup.greeted /\ sup.acknowledged
<1>3. /\ up' = up \cup started
      /\ \A r \in Runs : input'[r] = IF r \in started THEN <<>>
                                     ELSE IF r = s.link /\ r \in up
                                       THEN input[r] \o s.written ELSE input[r]
      /\ \A r \in Runs : r \notin started => helper'[r] = helper[r]
  BY DEF Becomes
<1>4. /\ Gated(s.written, h)
      /\ s.greeted /\ s.acknowledged => EndsGated(s.written, h)
      /\ s.greeted => s.link = sup.link
      /\ HasLink(sup) => s.link \in {sup.link, NoRun}
  BY DEF GateMoves
<1>5. h => HasLink(sup) /\ sup.greeted /\ sup.acknowledged BY <1>1 DEF QueueInv
<1>6. ASSUME NEW r \in Runs, r \notin started, r = s.link, r \in up
      PROVE  /\ Gated(input'[r], helper'[r].gate)
             /\ s.greeted /\ s.acknowledged => EndsGated(input'[r], helper'[r].gate)
  <2>1. HasLink(s) /\ HasLink(sup) /\ r = sup.link BY <1>1, <1>4, <1>6 DEF HasLink
  <2> DEFINE g == helper[r].gate
  <2>2. Gated(input[r], g) /\ (h => EndsGated(input[r], g))
    BY <1>5, <1>6, <2>1 DEF GateInv
  <2>3. input'[r] = input[r] \o s.written /\ helper'[r].gate = g BY <1>3, <1>6
  <2>4. input[r] \in Seq(Command \cup {Shutdown}) BY <1>1
  <2> DEFINE front == input[r]
  <2> HIDE DEF g, h, front
  <2>5. /\ Gated(front \o s.written, g)
        /\ s.greeted /\ s.acknowledged => EndsGated(front \o s.written, g)
    <3>1. Gated(front, g) /\ (h => EndsGated(front, g)) /\ front \in Seq(Command \cup {Shutdown})
      BY <2>2, <2>4 DEF front
    <3>2. Gated(front, g) /\ Gated(s.written, h) => Gated(front \o s.written, g)
      BY <1>1, <3>1, GateConcat
    <3>3. EndsGated(s.written, h) => EndsGated(front \o s.written, g)
      BY <1>1, <3>1, GateConcat
    <3> QED BY <1>4, <3>1, <3>2, <3>3
  <2> QED BY <2>3, <2>5 DEF front
<1>7. ASSUME NEW r \in Runs PROVE Gated(input'[r], helper'[r].gate)
  <2>1. CASE r \in started BY <1>3, <2>1, GateEmpty
  <2>2. CASE r \notin started /\ r = s.link /\ r \in up BY <1>6, <2>2
  <2>3. CASE r \notin started /\ ~(r = s.link /\ r \in up)
    <3>1. input'[r] = input[r] /\ helper'[r] = helper[r] BY <1>3, <2>3
    <3> QED BY <3>1 DEF GateInv
  <2> QED BY <2>1, <2>2, <2>3
<1>8. ASSUME HasLink(s), s.greeted, s.acknowledged, s.link \in up'
      PROVE  EndsGated(input'[s.link], helper'[s.link].gate)
  <2>1. s.link \notin started BY <1>4, <1>8 DEF HasLink
  <2>2. s.link \in up /\ s.link \in Runs BY <1>1, <1>3, <1>8, <2>1
  <2> QED BY <1>6, <1>8, <2>1, <2>2
<1>9. Consented(sup')
  <2>1. Told(sup') \subseteq Told(s) BY <1>2 DEF Queue, Out, Told, GensOf, Range
  <2> QED BY <1>2, <2>1 DEF GateMoves, Consented
<1>10. GateQueue(sup') BY <1>2 DEF GateMoves, GateQueue, HasLink
<1>11. GateInv'
  <2>1. (\A r \in Runs : Gated(input[r], helper[r].gate))' BY <1>7
  <2>2. (HasLink(sup) /\ sup.greeted /\ sup.acknowledged /\ sup.link \in up =>
         EndsGated(input[sup.link], helper[sup.link].gate))'
    BY <1>2, <1>8 DEF HasLink
  <2> QED BY <1>2, <1>9, <1>10, <2>1, <2>2 DEF GateInv
<1> QED BY <1>11

(* A step of the supervisor that brings no word of the shell.               *)
LEMMA OtherGates ==
  ASSUME PairingInv, GateInv, NEW s, Becomes(s), QueueInv(s), Moves(sup, s, {}),
         GateMoves(sup, s), s.acknowledged = sup.acknowledged, gate' = gate
  PROVE  GateInv'
<1>1. gate' /\ ~s.stopping => s.acknowledged BY DEF GateInv, Moves
<1> QED BY <1>1, BecomesGates

(* The gate of the pairings is ready for a step.                            *)
LEMMA GateIsReady ==
  ASSUME PairingInv, GateInv
  PROVE  /\ GateReady(sup) /\ QueueInv(sup) /\ sup.written = <<>>
         /\ sup \in SupervisorState /\ SameQueue(sup, sup)
BY DEF PairingInv, GateInv, GateReady, QueueInv, SameQueue

(* A step that the supervisor takes no part in.                             *)
LEMMA StillGates ==
  ASSUME GateInv, sup' = sup, gate' = gate, up' \subseteq up,
         \A r \in Runs : Gated(input'[r], helper'[r].gate),
         \A r \in up' \cap Runs : EndsGated(input[r], helper[r].gate) =>
                                    EndsGated(input'[r], helper'[r].gate),
         up \subseteq Runs
  PROVE  GateInv'
<1>1. (\A r \in Runs : Gated(input[r], helper[r].gate))' OBVIOUS
<1>2. (HasLink(sup) /\ sup.greeted /\ sup.acknowledged /\ sup.link \in up =>
       EndsGated(input[sup.link], helper[sup.link].gate))'
  <2> SUFFICES ASSUME HasLink(sup), sup.greeted, sup.acknowledged, sup.link \in up'
               PROVE  EndsGated(input'[sup.link], helper'[sup.link].gate)
    OBVIOUS
  <2>1. sup.link \in up' \cap Runs /\ sup.link \in up OBVIOUS
  <2>2. EndsGated(input[sup.link], helper[sup.link].gate) BY <2>1 DEF GateInv
  <2> QED BY <2>1, <2>2
<1>3. (gate /\ ~sup.stopping => sup.acknowledged)' /\ Consented(sup)' /\ GateQueue(sup)'
  BY DEF GateInv
<1> QED BY <1>1, <1>2, <1>3 DEF GateInv

(* The supervisor stays as it is, and writes nothing.                       *)
LEMMA SameGates ==
  ASSUME PairingInv, GateInv, Becomes(sup), gate' = gate
  PROVE  GateInv'
<1>1. /\ GateReady(sup) /\ QueueInv(sup) /\ sup.written = <<>>
      /\ sup \in SupervisorState /\ SameQueue(sup, sup)
  BY GateIsReady
<1>2. Moves(sup, sup, {}) BY <1>1, SameQueueFacts
<1>3. GateMoves(sup, sup) BY <1>1, GateAlike DEF GateReady
<1> QED BY <1>1, <1>2, <1>3, OtherGates

(* A command of the shell, with what the shell makes of its own acceptance. *)
LEMMA CommandsGates ==
  ASSUME PairingInv, GateInv, NEW c \in Command, Commands(c),
         IsBegin(c) => gate /\ nextGen \in Generations /\ \E p \in BOOLEAN : c = BeginLink(nextGen, p),
         gate' => c.type = "gate" \/ (gate /\ c.type # "cancel")
  PROVE  GateInv'
<1>0. /\ GateReady(sup) /\ QueueInv(sup) /\ sup.written = <<>>
      /\ sup \in SupervisorState /\ nextGen \in Nat
  BY GateIsReady DEF PairingInv, TypeOK
<1>1. PICK start \in Starts(sup.alive, Unused) :
        Becomes(OnCommand(sup, c, start[1], start[2]))
  BY DEF Commands, Acts
<1> DEFINE s == OnCommand(sup, c, start[1], start[2])
<1>2. start[1] \in Outcomes /\ (start[1] = "started" => start[2] \in Runs)
  BY StartsOutcome DEF Unused
<1>3. IsBegin(c) => c \notin Queue(sup)
  <2> SUFFICES ASSUME IsBegin(c), c \in Queue(sup) PROVE FALSE
    OBVIOUS
  <2>1. c.gen < nextGen BY DEF PairingInv, Told, GensOf
  <2>2. c.gen = nextGen BY DEF BeginLink
  <2> QED BY <1>0, <2>1, <2>2
<1>4. IsBegin(c) => sup.acknowledged \/ sup.stopping BY DEF GateInv
<1>5. CommandMoves(sup, s, c) BY <1>0, <1>2, <1>3, OnCommandMoves
<1>6. GateMoves(sup, s) /\ Accepts(sup, s, c) BY <1>0, <1>2, <1>3, <1>4, CommandGates
<1>7. Becomes(s) BY <1>1
<1> HIDE DEF s
<1>8. QueueInv(s) /\ (sup.stopping => s.stopping) BY <1>5 DEF CommandMoves, Moves
<1>9. gate' /\ ~s.stopping => s.acknowledged
  <2> SUFFICES ASSUME gate', ~s.stopping PROVE s.acknowledged
    OBVIOUS
  <2>1. ~sup.stopping BY <1>8
  <2>2. CASE c.type = "gate" BY <1>6, <2>1, <2>2 DEF Accepts
  <2>3. CASE gate /\ c.type # "cancel" BY <1>6, <2>1, <2>3 DEF Accepts, GateInv
  <2> QED BY <2>2, <2>3
<1> QED BY <1>6, <1>7, <1>8, <1>9, BecomesGates

(* Every step of the shell but the link with a phone number: that one takes *)
(* the acceptance from the supervisor and leaves it to the shell.           *)
LEMMA ShellGates == ASSUME PairingInv, GateInv, ShellStep, ~LinkWithPhone PROVE GateInv'
<1>0. /\ GateReady(sup) /\ QueueInv(sup) /\ sup.written = <<>>
      /\ sup \in SupervisorState
      /\ {AcknowledgeGate, CancelLink, Load} \subseteq Command
      /\ ~IsBegin(AcknowledgeGate) /\ ~IsBegin(CancelLink) /\ ~IsBegin(Load)
      /\ AcknowledgeGate.type = "gate" /\ Load.type = "load"
  BY GateIsReady, PairingFacts DEF IsBegin, AcknowledgeGate, Load
<1>1. CASE AcceptGate BY <1>0, <1>1, CommandsGates DEF AcceptGate
<1>2. ASSUME NEW phone \in {FALSE, HasPairCode}, StartPairing(phone) PROVE GateInv'
  <2>1. phone \in BOOLEAN /\ nextGen \in Generations /\ gate /\ gate' = gate
    BY <1>2, HasPairCodeAssumption DEF StartPairing
  <2>2. BeginLink(nextGen, phone) \in Command /\ BeginLink(nextGen, phone).type = "begin"
    BY <2>1, PairingFacts DEF BeginLink
  <2>3. Commands(BeginLink(nextGen, phone)) BY <1>2 DEF StartPairing
  <2> QED BY <2>1, <2>2, <2>3, CommandsGates
<1>3. CASE Cancel BY <1>0, <1>3, CommandsGates DEF Cancel
<1>5. ASSUME NEW q \in Requests, Send(q) PROVE GateInv'
  <2>1. SendText(q) \in Command /\ SendText(q).type = "send"
    BY PairingFacts DEF SendText
  <2>2. ~IsBegin(SendText(q)) BY <2>1 DEF IsBegin
  <2>3. Commands(SendText(q)) /\ gate' = gate BY <1>5 DEF Send
  <2> QED BY <2>1, <2>2, <2>3, CommandsGates
<1>6. CASE LoadChats
  <2> DEFINE loading == [sup EXCEPT !.loading = TRUE]
             s == OnCommand(loading, Load, "failed", NoRun)
  <2>1. loading \in SupervisorState /\ SameQueue(sup, loading)
        /\ loading.acknowledged = sup.acknowledged
    BY <1>0 DEF SupervisorState, SameQueue
  <2>2. Becomes(s) /\ gate' = gate BY <1>6 DEF LoadChats, Acts, shell
  <2> HIDE DEF loading
  <2>3. QueueInv(loading) /\ loading.written = <<>>
    BY <1>0, <2>1, SameQueueFacts DEF SameQueue
  <2>4. CommandMoves(loading, s, Load) BY <1>0, <2>3, OnCommandMoves DEF Outcomes
  <2>5. GateReady(loading) /\ \A t : GateMoves(loading, t) <=> GateMoves(sup, t)
    BY <1>0, <2>1, GateSame
  <2>6. GateMoves(loading, s) /\ Accepts(loading, s, Load)
    BY <1>0, <2>5, CommandGates DEF Outcomes
  <2> HIDE DEF s
  <2>7. QueueInv(s) /\ Moves(loading, s, {}) /\ Keeps(loading, s)
    BY <1>0, <2>4, PairingFacts DEF CommandMoves, Added, Words
  <2>8. Moves(sup, s, {}) BY <2>1, <2>7, SameQueueThen
  <2>9. s.acknowledged = sup.acknowledged BY <1>0, <2>1, <2>6 DEF Accepts
  <2>10. GateMoves(sup, s) BY <2>5, <2>6
  <2> QED BY <2>2, <2>7, <2>8, <2>9, <2>10, OtherGates
<1>7. CASE RestartHelper
  <2>1. PICK start \in Starts(sup.alive, Unused) : Becomes(OnRestart(sup, start[1], start[2]))
    BY <1>7 DEF RestartHelper, Acts
  <2>2. start[1] \in Outcomes /\ (start[1] = "started" => start[2] \in Runs)
    BY StartsOutcome DEF Unused
  <2> DEFINE s == OnRestart(sup, start[1], start[2])
  <2>3. QueueInv(s) /\ Moves(sup, s, {}) /\ Keeps(sup, s) BY <1>0, <2>2, OnRestartMoves
  <2>4. GateMoves(sup, s) /\ s.acknowledged = sup.acknowledged
    BY <1>0, <2>2, RestartGates
  <2>5. Becomes(s) /\ gate' = gate BY <1>7, <2>1 DEF RestartHelper, shell
  <2> HIDE DEF s
  <2> QED BY <2>3, <2>4, <2>5, OtherGates
<1>8. CASE Close
  <2> DEFINE s == OnShutdown(sup)
  <2>1. QueueInv(s) /\ Moves(sup, s, {}) /\ Keeps(sup, s) BY <1>0, OnShutdownMoves
  <2>2. GateMoves(sup, s) /\ s.acknowledged = sup.acknowledged BY <1>0, ShutdownGates
  <2>3. Becomes(s) /\ gate' = gate BY <1>8 DEF Close, Acts, shell
  <2> HIDE DEF s
  <2> QED BY <2>1, <2>2, <2>3, OtherGates
<1> QED BY <1>1, <1>2, <1>3, <1>5, <1>6, <1>7, <1>8 DEF ShellStep

(* The helper of the link ended, one way or another.                        *)
LEMMA EndOfGates ==
  ASSUME PairingInv, GateInv, SendInv(sup), HasLink(sup), NEW stable \in BOOLEAN,
         Becomes(HelperEnded(sup, stable)) \/ Becomes(OnHelperGone(sup, stable)),
         gate' = gate
  PROVE  GateInv'
<1>0. GateReady(sup) /\ QueueInv(sup) /\ sup.written = <<>> BY GateIsReady
<1>1. PICK s : Becomes(s) /\ (s = HelperEnded(sup, stable) \/ s = OnHelperGone(sup, stable))
  OBVIOUS
<1>2. QueueInv(s) /\ Moves(sup, s, {})
  BY <1>0, <1>1, HelperEndedMoves, OnHelperGoneMoves
<1>3. GateMoves(sup, s) /\ s.acknowledged = sup.acknowledged BY <1>0, <1>1, EndGates
<1> QED BY <1>1, <1>2, <1>3, OtherGates

(* Every deadline of the supervisor.                                        *)
LEMMA TimerGates ==
  ASSUME IInv, PairingInv, GateInv, SendInv(sup), TimerStep PROVE GateInv'
<1>0. /\ GateReady(sup) /\ QueueInv(sup) /\ sup.written = <<>> /\ sup \in SupervisorState
  BY GateIsReady
<1>1. CASE RestartTimer
  <2> DEFINE base == [sup EXCEPT !.restartArmed = FALSE]
  <2>1. PICK start \in Starts(sup.alive, Unused) : Becomes(Launch(base, start[1], start[2]))
    BY <1>1 DEF RestartTimer, Acts
  <2>2. start[1] \in Outcomes /\ (start[1] = "started" => start[2] \in Runs)
    BY StartsOutcome DEF Unused
  <2>3. base \in SupervisorState /\ SameQueue(sup, base) /\ base.acknowledged = sup.acknowledged
    BY <1>0 DEF SupervisorState, SameQueue
  <2> HIDE DEF base
  <2>4. QueueInv(base) /\ base.written = <<>>
    BY <1>0, <2>3, SameQueueFacts DEF SameQueue
  <2>5. GateReady(base) /\ \A t : GateMoves(base, t) <=> GateMoves(sup, t)
    BY <1>0, <2>3, GateSame
  <2> DEFINE s == Launch(base, start[1], start[2])
  <2>6. QueueInv(s) /\ Moves(base, s, {}) /\ Keeps(base, s) BY <2>2, <2>4, LaunchMoves
  <2>7. GateMoves(base, s) /\ s.acknowledged = base.acknowledged
    BY <2>2, <2>5, LaunchGates
  <2>8. Becomes(s) /\ gate' = gate BY <1>1, <2>1 DEF RestartTimer, shell
  <2> HIDE DEF s
  <2>9. Moves(sup, s, {}) BY <2>3, <2>6, SameQueueThen
  <2> QED BY <2>3, <2>5, <2>6, <2>7, <2>8, <2>9, OtherGates
<1>2. CASE StopTimer
  <2>1. sup.stopping BY <1>2 DEF StopTimer, IInv, SupervisorInv, StopInv
  <2> DEFINE s == FinishStop(sup)
  <2>2. QueueInv(s) /\ Moves(sup, s, {}) /\ Keeps(sup, s) BY <1>0, <2>1, FinishStopMoves
  <2>3. GateMoves(sup, s) /\ s.acknowledged = sup.acknowledged
    BY <1>0, <2>1, FinishStopGates
  <2>4. Becomes(s) /\ gate' = gate BY <1>2 DEF StopTimer, Acts, shell
  <2> HIDE DEF s
  <2> QED BY <2>2, <2>3, <2>4, OtherGates
<1>3. CASE OldExitTimer
  <2> DEFINE base == [sup EXCEPT !.startWaits = FALSE]
             s == StopFor(base)
  <2>1. base \in SupervisorState /\ SameQueue(sup, base) /\ base.acknowledged = sup.acknowledged
    BY <1>0 DEF SupervisorState, SameQueue
  <2>2. Becomes(s) /\ gate' = gate BY <1>3 DEF OldExitTimer, Acts, shell
  <2> HIDE DEF base
  <2>3. QueueInv(base) /\ base.written = <<>>
    BY <1>0, <2>1, SameQueueFacts DEF SameQueue
  <2>4. QueueInv(s) /\ Moves(base, s, {}) /\ Keeps(base, s) BY <2>3, StopForMoves
  <2>5. GateReady(base) /\ \A t : GateMoves(base, t) <=> GateMoves(sup, t)
    BY <1>0, <2>1, GateSame
  <2>6. GateMoves(base, s) /\ s.acknowledged = base.acknowledged BY <2>5, StopForGates
  <2> HIDE DEF s
  <2>7. Moves(sup, s, {}) BY <2>1, <2>4, SameQueueThen
  <2> QED BY <2>1, <2>2, <2>4, <2>5, <2>6, <2>7, OtherGates
<1>4. CASE DrainTimer
  <2>1. PICK stable \in Stable : Becomes(OnHelperGone(sup, stable))
    BY <1>4 DEF DrainTimer, Acts
  <2> QED BY <1>4, <2>1, EndOfGates DEF DrainTimer, Stable, shell
<1>5. CASE HelloTimer BY <1>5, EndOfGates DEF HelloTimer, Acts, shell
<1>6. CASE BusyTimer
  <2> DEFINE s == Report(sup, "Busy")
  <2>1. QueueInv(s) /\ Moves(sup, s, {}) /\ Keeps(sup, s) BY <1>0, EventsMove
  <2>2. GateMoves(sup, s) /\ s.acknowledged = sup.acknowledged BY <1>0, EventGates
  <2> QED BY <1>6, <2>1, <2>2, OtherGates DEF BusyTimer, Acts, shell
<1> QED BY <1>1, <1>2, <1>3, <1>4, <1>5, <1>6 DEF TimerStep

(* A line of the helper that brings no word about the gate.                 *)
LEMMA LineOfGates ==
  ASSUME PairingInv, GateInv, NEW r, NEW s, Takes(r, s),
         \/ \E slow \in BOOLEAN : s = OnAck(sup, slow)
         \/ \E state \in AccountState : s = OnAccount(sup, state)
         \/ \E q \in Requests : s = OnSendAnswer(sup, q)
         \/ s = EndPairing(sup)
         \/ s = [sup EXCEPT !.loading = FALSE]
         \/ s = Report(sup, "Busy")
  PROVE  GateInv'
<1>0. /\ GateReady(sup) /\ QueueInv(sup) /\ sup.written = <<>> BY GateIsReady
<1>1. QueueInv(s) /\ Moves(sup, s, {}) /\ Keeps(sup, s) BY <1>0, EventsMove
<1>2. GateMoves(sup, s) /\ s.acknowledged = sup.acknowledged BY <1>0, EventGates
<1>3. Becomes(s) /\ gate' = gate BY DEF Takes, shell
<1> QED BY <1>1, <1>2, <1>3, OtherGates

(* Every exit and every line.                                               *)
LEMMA LineGates ==
  ASSUME PairingInv, GateInv, SendInv(sup), NEW r \in Runs, LineStep(r) PROVE GateInv'
<1>0. /\ GateReady(sup) /\ QueueInv(sup) /\ sup.written = <<>> /\ sup \in SupervisorState
      /\ r # NoRun /\ output[r] \in Seq(Lines)
  BY GateIsReady, RunsAssumption DEF PairingInv, TypeOK
<1>1. CASE Exited(r)
  <2>1. PICK start \in Starts(sup.alive \ {r}, (Unused \cup {r}) \ reading) :
          Becomes(OnExited(sup, r, start[1], start[2]))
    BY <1>1 DEF Exited, Acts
  <2>2. start[1] \in Outcomes /\ (start[1] = "started" => start[2] \in Runs)
    BY StartsOutcome DEF Unused
  <2> DEFINE s == OnExited(sup, r, start[1], start[2])
  <2>3. QueueInv(s) /\ Moves(sup, s, {}) /\ Keeps(sup, s) BY <1>0, <2>2, OnExitedMoves
  <2>4. GateMoves(sup, s) /\ s.acknowledged = sup.acknowledged
    BY <1>0, <2>2, ExitedGates
  <2>5. Becomes(s) /\ gate' = gate BY <1>1, <2>1 DEF Exited, shell
  <2> HIDE DEF s
  <2> QED BY <2>3, <2>4, <2>5, OtherGates
<1>2. CASE Hello(r)
  <2> DEFINE s == OnHello(sup)
  <2>1. HasLink(sup) /\ ~sup.greeted BY <1>0, <1>2 DEF Hello, Reads, HasLink
  <2>2. QueueInv(s) /\ Moves(sup, s, {}) /\ Keeps(sup, s) BY <1>0, <2>1, OnHelloMoves
  <2>3. GateMoves(sup, s) /\ s.acknowledged = sup.acknowledged BY <1>0, <2>1, HelloGates
  <2>4. Becomes(s) /\ gate' = gate BY <1>2 DEF Hello, Takes, shell
  <2> HIDE DEF s
  <2> QED BY <2>2, <2>3, <2>4, OtherGates
<1>3. CASE Refused(r)
  <2> DEFINE s == StopFor(sup)
  <2>1. QueueInv(s) /\ Moves(sup, s, {}) /\ Keeps(sup, s) BY <1>0, StopForMoves
  <2>2. GateMoves(sup, s) /\ s.acknowledged = sup.acknowledged BY <1>0, StopForGates
  <2>3. Becomes(s) /\ gate' = gate BY <1>3 DEF Refused, Takes, shell
  <2> HIDE DEF s
  <2> QED BY <2>1, <2>2, <2>3, OtherGates
<1>4. CASE Ack(r)
  <2>1. PICK slow \in BOOLEAN : Takes(r, OnAck(sup, slow)) BY <1>4 DEF Ack
  <2> QED BY <2>1, LineOfGates
<1>5. CASE AccountEvent(r)
  <2>1. Takes(r, OnAccount(sup, Head(output[r]).type)) /\ Head(output[r]).type \in AccountState
    BY <1>5 DEF AccountEvent, Reads, Next1
  <2> QED BY <2>1, LineOfGates
<1>6. CASE AccountEnded(r) BY <1>6, LineOfGates DEF AccountEnded
<1>7. CASE SendAnswer(r)
  <2> DEFINE q == Head(output[r]).req
  <2>1. Takes(r, OnSendAnswer(sup, q)) BY <1>7 DEF SendAnswer
  <2>2. Head(output[r]) \in Lines /\ Head(output[r]).type = "answer"
    BY <1>0, <1>7 DEF SendAnswer, Reads, Next1
  <2>3. q \in Requests BY <2>2 DEF Lines, Line, Answer
  <2> HIDE DEF q
  <2> QED BY <2>1, <2>3, LineOfGates
<1>8. CASE Loaded(r)
  <2> DEFINE s == [sup EXCEPT !.loading = FALSE]
  <2>1. Takes(r, s) BY <1>8 DEF Loaded
  <2> QED BY <2>1, LineOfGates
<1>9. CASE HelperStopped(r)
  <2>1. CASE sup.stopping
    <3> DEFINE s == FinishStop(sup)
    <3>1. QueueInv(s) /\ Moves(sup, s, {}) /\ Keeps(sup, s)
      BY <1>0, <2>1, FinishStopMoves
    <3>2. GateMoves(sup, s) /\ s.acknowledged = sup.acknowledged
      BY <1>0, <2>1, FinishStopGates
    <3>3. Becomes(s) /\ gate' = gate BY <1>9, <2>1 DEF HelperStopped, Takes, shell
    <3> HIDE DEF s
    <3> QED BY <3>1, <3>2, <3>3, OtherGates
  <2>2. CASE ~sup.stopping BY <1>9, <2>2, SameGates DEF HelperStopped, Takes, shell
  <2> QED BY <2>1, <2>2
<1>10. CASE OutOfPlace(r)
  <2>1. PICK stable \in Stable : Takes(r, HelperEnded(sup, stable))
    BY <1>10 DEF OutOfPlace
  <2>2. stable \in BOOLEAN /\ HasLink(sup)
    BY <1>0, <1>10 DEF Stable, OutOfPlace, Reads, HasLink
  <2> QED BY <2>1, <2>2, EndOfGates DEF Takes, shell
<1>11. CASE OutputEnded(r)
  <2>1. gate' = gate BY <1>11 DEF OutputEnded, shell
  <2>2. CASE sup.link = r
    <3>1. PICK stable \in Stable : Becomes(OnHelperGone(sup, stable))
      BY <1>11, <2>2 DEF OutputEnded
    <3>2. stable \in BOOLEAN /\ HasLink(sup) BY <1>0, <2>2 DEF Stable, HasLink
    <3> QED BY <2>1, <3>1, <3>2, EndOfGates
  <2>3. CASE sup.link # r BY <1>11, <2>1, <2>3, SameGates DEF OutputEnded
  <2> QED BY <2>2, <2>3
<1>12. CASE StaleLine(r) BY <1>12, SameGates DEF StaleLine, Takes, shell
<1> QED BY <1>1, <1>2, <1>3, <1>4, <1>5, <1>6, <1>7, <1>8, <1>9, <1>10, <1>11, <1>12 DEF LineStep

(* A helper that takes a command knows of the gate what the command says.   *)
LEMMA ServesGates ==
  ASSUME TypeOK, NEW r \in Runs, NEW type, NEW h, NEW lines, Serves(r, type, h, lines),
         GateAfter(helper[r].gate, Head(input[r])) => h.gate
  PROVE  /\ input[r] # <<>> /\ input' = [input EXCEPT ![r] = Tail(input[r])]
         /\ helper' = [helper EXCEPT ![r] = h] /\ sup' = sup /\ up' = up /\ gate' = gate
         /\ GateAfter(helper[r].gate, Head(input[r])) => helper'[r].gate
BY DEF Serves, Writes, shell, TypeOK

(* A helper that writes a line keeps its gate and its commands.             *)
LEMMA WritesGates ==
  ASSUME TypeOK, NEW r \in Runs, NEW h, NEW lines, Writes(r, h, lines), input' = input,
         h.gate = helper[r].gate
  PROVE  /\ input' = input /\ helper' = [helper EXCEPT ![r] = h] /\ sup' = sup /\ up' = up
         /\ gate' = gate /\ helper'[r].gate = helper[r].gate
BY DEF Writes, shell

(* Every step of a helper: it takes the gate, and gives it back at a        *)
(* cancel, in the order of the commands.                                    *)
LEMMA HelperGates ==
  ASSUME PairingInv, GateInv, NEW r \in Runs, HelperStep(r) PROVE GateInv'
<1> DEFINE taken == /\ input[r] # <<>> /\ input' = [input EXCEPT ![r] = Tail(input[r])]
                    /\ \E h : helper' = [helper EXCEPT ![r] = h]
                    /\ sup' = sup /\ up' = up /\ gate' = gate
                    /\ GateAfter(helper[r].gate, Head(input[r])) => helper'[r].gate
           wrote == /\ input' = input /\ \E h : helper' = [helper EXCEPT ![r] = h]
                    /\ sup' = sup /\ up' = up
                    /\ gate' = gate /\ helper'[r].gate = helper[r].gate
           p == helper[r]
<1>0. /\ TypeOK /\ up \subseteq Runs /\ p \in HelperProcess
      /\ input \in [Runs -> Seq(Command \cup {Shutdown})]
      /\ helper \in [Runs -> HelperProcess]
  BY DEF PairingInv, TypeOK
<1>1. CASE Dies(r)
  <2>1. /\ sup' = sup /\ gate' = gate /\ up' = up \ {r}
        /\ \A x \in Runs : input'[x] = IF x = r THEN <<>> ELSE input[x]
        /\ \A x \in Runs \ {r} : helper'[x] = helper[x]
    BY <1>0, <1>1 DEF Dies, shell
  <2>2. \A x \in Runs : Gated(input'[x], helper'[x].gate) BY <2>1, GateEmpty DEF GateInv
  <2>3. \A x \in up' \cap Runs : EndsGated(input[x], helper[x].gate) =>
                                   EndsGated(input'[x], helper'[x].gate)
    BY <2>1
  <2> QED BY <1>0, <2>1, <2>2, <2>3, StillGates
<1>2. ASSUME taken PROVE GateInv'
  <2>1. /\ input'[r] = Tail(input[r])
        /\ \A x \in Runs \ {r} : input'[x] = input[x] /\ helper'[x] = helper[x]
    BY <1>0, <1>2
  <2>2. /\ Gated(input[r], helper[r].gate) => Gated(Tail(input[r]), helper'[r].gate)
        /\ EndsGated(input[r], helper[r].gate) => EndsGated(Tail(input[r]), helper'[r].gate)
    <3>1. input[r] \in Seq(Command \cup {Shutdown}) /\ input[r] # <<>> BY <1>0, <1>2
    <3> QED BY <1>2, <3>1, GateTail
  <2>3. \A x \in Runs : Gated(input[x], helper[x].gate) BY DEF GateInv
  <2>4. \A x \in Runs : Gated(input'[x], helper'[x].gate) BY <2>1, <2>2, <2>3
  <2>5. \A x \in up' \cap Runs : EndsGated(input[x], helper[x].gate) =>
                                   EndsGated(input'[x], helper'[x].gate)
    BY <2>1, <2>2
  <2> QED BY <1>0, <1>2, <2>4, <2>5, StillGates
<1>3. ASSUME wrote PROVE GateInv'
  <2>1. \A x \in Runs : helper'[x].gate = helper[x].gate BY <1>0, <1>3
  <2>2. \A x \in Runs : Gated(input[x], helper[x].gate) BY DEF GateInv
  <2> QED BY <1>0, <1>3, <2>1, <2>2, StillGates
<1>4. CASE TakesGate(r)
  <2> DEFINE h == [p EXCEPT !.gate = TRUE]
  <2>1. Serves(r, "gate", h, <<Line("ack")>>) /\ h.gate
    BY <1>0, <1>4 DEF TakesGate
  <2> HIDE DEF h
  <2>2. taken BY <1>0, <2>1, ServesGates
  <2> QED BY <1>2, <2>2
<1>5. CASE TakesBegin(r)
  <2> DEFINE h == [p EXCEPT !.link = "Linking"]
  <2>1. h.gate = p.gate BY <1>0
  <2>2. \/ Serves(r, "begin", h, <<Line("ack"), Line("Linking")>>)
        \/ Serves(r, "begin", p, <<Line("ack")>>)
    BY <1>5 DEF TakesBegin
  <2>3. GateAfter(p.gate, Head(input[r])) => p.gate BY <2>2 DEF Serves, GateAfter
  <2> HIDE DEF h
  <2>4. taken BY <1>0, <2>1, <2>2, <2>3, ServesGates
  <2> QED BY <1>2, <2>4
<1>6. CASE TakesCancel(r)
  <2> DEFINE h == [p EXCEPT !.gate = FALSE, !.link = "Unlinked"]
  <2>1. Serves(r, "cancel", h, <<Line("ack"), Line("Unlinked")>>)
    BY <1>6 DEF TakesCancel
  <2>2. ~GateAfter(p.gate, Head(input[r])) BY <2>1 DEF Serves, GateAfter
  <2> HIDE DEF h
  <2>3. taken BY <1>0, <2>1, <2>2, ServesGates
  <2> QED BY <1>2, <2>3
<1>7. CASE TakesSend(r)
  <2> DEFINE todo == p.todo \cup {Head(input[r]).req}
             h == [p EXCEPT !.todo = todo]
  <2>1. Serves(r, "send", h, <<Line("ack")>>) BY <1>7 DEF TakesSend
  <2> HIDE DEF todo
  <2>2. h.gate = p.gate BY <1>0
  <2>3. GateAfter(p.gate, Head(input[r])) => p.gate BY <2>1 DEF Serves, GateAfter
  <2> HIDE DEF h
  <2>4. taken BY <1>0, <2>1, <2>2, <2>3, ServesGates
  <2> QED BY <1>2, <2>4
<1>8. CASE TakesLoad(r)
  <2>1. Serves(r, "load", p, <<Line("ack"), Line("loaded")>>) BY <1>8 DEF TakesLoad
  <2>2. GateAfter(p.gate, Head(input[r])) => p.gate BY <2>1 DEF Serves, GateAfter
  <2>3. taken BY <1>0, <2>1, <2>2, ServesGates
  <2> QED BY <1>2, <2>3
<1>9. CASE TakesShutdown(r)
  <2> DEFINE h == [p EXCEPT !.stopping = TRUE]
  <2>1. PICK lines : Serves(r, "shutdown", h, lines) BY <1>9 DEF TakesShutdown
  <2>2. h.gate = p.gate BY <1>0
  <2>3. GateAfter(p.gate, Head(input[r])) => p.gate BY <2>1 DEF Serves, GateAfter
  <2> HIDE DEF h
  <2>4. taken BY <1>0, <2>1, <2>2, <2>3, ServesGates
  <2> QED BY <1>2, <2>4
<1>10. CASE Speaks(r) \/ Resumes(r) \/ Links(r) \/ Unlinks(r) \/ Answers(r) \/ Breaks(r)
  <2>1. PICK h, lines : Writes(r, h, lines) /\ input' = input /\ h.gate = p.gate
    <3>1. CASE Speaks(r) BY <1>0, <3>1 DEF Speaks, Says, HelperProcess
    <3>2. CASE Resumes(r)
      <4> DEFINE h == [p EXCEPT !.link = "Linking"]
      <4>1. Says(r, h, <<Line("Linking")>>) BY <3>2 DEF Resumes
      <4>2. h.gate = p.gate BY <1>0
      <4>3. Writes(r, h, <<Line("Linking")>>) /\ input' = input BY <4>1 DEF Says
      <4> HIDE DEF h
      <4> QED BY <4>2, <4>3
    <3>3. CASE Links(r) BY <1>0, <3>3 DEF Links, HelperProcess
    <3>4. CASE Unlinks(r) BY <1>0, <3>4 DEF Unlinks, HelperProcess
    <3>5. CASE Answers(r)
      <4>1. PICK q \in p.todo : Says(r, [p EXCEPT !.todo = @ \ {q}], <<Answer(q)>>)
        BY <3>5 DEF Answers
      <4> DEFINE h == [p EXCEPT !.todo = @ \ {q}]
      <4>2. h.gate = p.gate BY <1>0
      <4>3. Writes(r, h, <<Answer(q)>>) /\ input' = input BY <4>1 DEF Says
      <4> HIDE DEF h
      <4> QED BY <4>2, <4>3
    <3>6. CASE Breaks(r) BY <1>0, <3>6 DEF Breaks, Says
    <3> QED BY <1>10, <3>1, <3>2, <3>3, <3>4, <3>5, <3>6
  <2>2. wrote BY <1>0, <2>1, WritesGates
  <2> QED BY <1>3, <2>2
<1> HIDE DEF taken, wrote, p
<1> QED BY <1>1, <1>4, <1>5, <1>6, <1>7, <1>8, <1>9, <1>10 DEF HelperStep

(* No acceptance and no pairing start is there when the adapter starts.     *)
LEMMA InitGates == Init => GateInv
<1> SUFFICES ASSUME Init PROVE GateInv
  OBVIOUS
<1>1. /\ sup.link = NoRun /\ sup.held = <<>> /\ ~sup.greeted /\ sup.wakeLink = <<>>
      /\ sup.written = <<>> /\ sup.replayLink = NoGen /\ ~gate
      /\ \A r \in Runs : input[r] = <<>>
  BY DEF Init, InitialSupervisor
<1>2. Told(sup) = {} BY <1>1 DEF Queue, Out, Range, Told, GensOf
<1> QED BY <1>1, <1>2, GateEmpty DEF GateInv, GateQueue, Consented, HasLink

(* Every step but the link with a phone number keeps the acceptance in its  *)
(* place.                                                                   *)
LEMMA NextGates ==
  IInv /\ PairingInv /\ ContractInv /\ GateInv /\ [Next]_vars /\ [~LinkWithPhone]_vars => GateInv'
<1> SUFFICES ASSUME IInv, PairingInv, ContractInv, GateInv, [Next]_vars, [~LinkWithPhone]_vars
             PROVE  GateInv'
  OBVIOUS
<1>1. SendInv(sup) BY DEF ContractInv
<1>2. CASE UNCHANGED vars
  BY <1>2 DEF vars, GateInv, Told, Queue, Out
<1>3. CASE Next /\ ~LinkWithPhone
  BY <1>1, <1>3, ShellGates, TimerGates, LineGates, HelperGates DEF Next
<1> QED BY <1>2, <1>3

(* The invariant about the gate holds while the user does not turn to the   *)
(* link with a phone number.                                                *)
THEOREM GateInvariance == Spec /\ [][~LinkWithPhone]_vars => []GateInv
<1>1. Init => GateInv BY InitGates
<1> QED BY <1>1, NextGates, Invariance, PairingInvariance, ContractInvariance, PTL DEF Spec

(* A pairing start that is the next command of a helper finds the acceptance*)
(* of the risk gate there: through every crash, restart and replay the      *)
(* acceptance goes before the pairing (Replay::commands, send), as long as  *)
(* the user does not turn to the link with a phone number, whose cancel     *)
(* takes the acceptance from the supervisor and leaves it to the shell.     *)
THEOREM PairingsHaveGate == Spec /\ [][~LinkWithPhone]_vars => []PairingHasGate
<1>1. PairingInv /\ GateInv => PairingHasGate
  <2> SUFFICES ASSUME PairingInv, GateInv, NEW r \in Runs, input[r] # <<>>,
                      IsBegin(Head(input[r]))
               PROVE  helper[r].gate
    BY DEF PairingHasGate
  <2> DEFINE queue == input[r]
  <2>1. queue \in Seq(Command \cup {Shutdown}) /\ queue # <<>> BY DEF PairingInv, TypeOK
  <2>2. Gated(queue, helper[r].gate) BY DEF GateInv
  <2> HIDE DEF queue
  <2>3. 1 \in DOMAIN queue /\ Head(queue) = queue[1] /\ 1 .. 1 - 1 = {} BY <2>1
  <2> QED BY <2>2, <2>3 DEF Gated, GateBefore, queue
<1> QED BY <1>1, GateInvariance, PairingInvariance, PTL

(* A helper whose messenger has no link with a phone number (Signal) always *)
(* finds the acceptance before a pairing.                                   *)
COROLLARY PairingsHaveGateWithoutCode ==
  ASSUME ~HasPairCode
  PROVE  Spec => []PairingHasGate
<1>1. ~LinkWithPhone BY DEF LinkWithPhone
<1> QED BY <1>1, PairingsHaveGate, PTL
===============================================================================
