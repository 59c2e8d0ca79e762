---------------------------- MODULE Supervisor_proofs ----------------------------
(***************************************************************************)
(* Lemmas about the operators of module Supervisor, one per function of    *)
(* helper/supervisor.rs, for every set of processes, requests and          *)
(* pairings: what each one leaves alone (a frame: the fields that it may   *)
(* change), what it does to the queues, to the sends and to the pairings   *)
(* that it holds, and that it keeps the invariants of the supervisor       *)
(* between two events.  Module HelperSystem_proofs proves the system with  *)
(* them.                                                                   *)
(***************************************************************************)
EXTENDS Supervisor, Filters_proofs, FiniteSetTheorems

(* The fields of the supervisor's record.                                   *)
Fields ==
    {"link", "greeted", "held", "unacked", "draining", "alive", "startWaits",
     "restartArmed", "stopArmed", "stopping", "reported", "failures",
     "acknowledged", "replayLink", "wakeLink", "sends", "account", "linkedOnce",
     "written", "answers", "loading", "stops"}

(* The type facts that the proofs need of the record.                       *)
IsSupervisor(s) ==
    /\ DOMAIN s = Fields
    /\ s.answers \in [Requests -> Nat]
    /\ s.stops \in Nat
    /\ s.failures \in Nat

(* t differs from s in the fields `changed` at most.                        *)
Frame(s, t, changed) ==
    /\ IsSupervisor(t)
    /\ \A f \in Fields \ changed : t[f] = s[f]

(* No answer is taken back, and an open send stays open or gets an answer.  *)
SendsKept(s, t) ==
    \A q \in Requests :
      /\ t.answers[q] >= s.answers[q]
      /\ q \in s.sends => q \in t.sends \/ t.answers[q] > 0

(* report changes only what the row says, and the end of a helper ends a    *)
(* load.                                                                    *)
LEMMA ReportFrame ==
  ASSUME NEW s, IsSupervisor(s), NEW state
  PROVE  LET t == Report(s, state) IN
         /\ Frame(s, t, {"reported", "loading"})
         /\ t.reported = state
         /\ t.loading => s.loading /\ (state = s.reported \/ state \notin HelperGone)
BY DEF Report, IsSupervisor, Fields, Frame

(* Rejecting sends closes them; a send that was open has an answer then.    *)
LEMMA RejectFrame ==
  ASSUME NEW s, IsSupervisor(s), NEW qs
  PROVE  LET t == RejectSends(s, qs) IN
         /\ Frame(s, t, {"sends", "answers"})
         /\ SendsKept(s, t)
         /\ t.sends = s.sends \ qs
<1> DEFINE t == RejectSends(s, qs)
           answers == [q \in Requests |-> IF q \in qs THEN s.answers[q] + 1 ELSE s.answers[q]]
<1>1. answers \in [Requests -> Nat] BY DEF IsSupervisor
<1>2. t = [s EXCEPT !.sends = s.sends \ qs, !.answers = answers] BY DEF RejectSends
<1>3. /\ DOMAIN t = Fields /\ t.answers = answers /\ t.sends = s.sends \ qs
      /\ \A f \in Fields \ {"sends", "answers"} : t[f] = s[f]
  <2> HIDE DEF t, answers
  <2> QED BY <1>2 DEF IsSupervisor, Fields
<1>4. Frame(s, t, {"sends", "answers"})
  <2> HIDE DEF t, answers
  <2> QED BY <1>1, <1>3 DEF IsSupervisor, Fields, Frame
<1>5. SendsKept(s, t)
  <2>1. \A q \in Requests : s.answers[q] \in Nat BY DEF IsSupervisor
  <2>2. \A q \in Requests : t.answers[q] = IF q \in qs THEN s.answers[q] + 1 ELSE s.answers[q]
    BY <1>3
  <2> HIDE DEF t, answers
  <2> QED BY <2>1, <2>2, <1>3 DEF SendsKept
<1> QED BY <1>3, <1>4, <1>5

(* Dropping the link changes the fields of the link and no other.           *)
LEMMA DropLinkFrame ==
  ASSUME NEW s, IsSupervisor(s)
  PROVE  LET t == DropLink(s) IN
         /\ Frame(s, t, {"link", "greeted", "held", "unacked", "draining"})
         /\ t.link = NoRun
BY DEF DropLink, IsSupervisor, Fields, Frame

(* What GiveUpLink changes.                                                 *)
GaveUp == {"restartArmed", "startWaits", "wakeLink", "linkedOnce", "account",
           "reported", "loading"}

(* A link that is given up leaves no start on the way, and no row that says *)
(* so.                                                                      *)
LEMMA GiveUpLinkFrame ==
  ASSUME NEW s, IsSupervisor(s)
  PROVE  LET t == GiveUpLink(s) IN
         /\ Frame(s, t, GaveUp)
         /\ t.account = "Unlinked" /\ ~t.restartArmed /\ ~t.startWaits
         /\ t.reported = IF s.reported = "Restarting" THEN "Idle" ELSE s.reported
         /\ t.loading => s.loading
<1> DEFINE off == [s EXCEPT !.restartArmed = FALSE, !.startWaits = FALSE,
                         !.wakeLink = <<>>, !.linkedOnce = FALSE,
                         !.account = "Unlinked"]
<1>1. /\ Frame(s, off, {"restartArmed", "startWaits", "wakeLink", "linkedOnce", "account"})
      /\ off.account = "Unlinked" /\ ~off.restartArmed /\ ~off.startWaits
  BY DEF IsSupervisor, Fields, Frame
<1>2. GiveUpLink(s) = IF s.reported = "Restarting" THEN Report(off, "Idle") ELSE off
  BY <1>1 DEF GiveUpLink, Frame
<1> HIDE DEF off
<1>3. IsSupervisor(off) BY <1>1 DEF Frame
<1> QED BY <1>1, <1>2, <1>3, ReportFrame DEF Frame, GaveUp, Fields

AnsweredFields == GaveUp \cup {"sends", "answers"}

(* answer_without_helper: what it changes, with a cancel and without one.   *)
LEMMA AnswerFrame ==
  ASSUME NEW s, IsSupervisor(s), NEW cs
  PROVE  LET t == AnswerWithoutHelper(s, cs) IN
         /\ Frame(s, t, AnsweredFields)
         /\ SendsKept(s, t)
         /\ t.sends = s.sends \ {q \in Requests : SendText(q) \in cs}
         /\ t.reported = s.reported \/ (t.reported = "Idle" /\ s.reported = "Restarting")
         /\ t.loading => s.loading /\ Load \notin cs
         /\ \/ /\ t.account = "Unlinked" /\ ~t.restartArmed /\ ~t.startWaits
               /\ t.reported # "Restarting"
            \/ CancelLink \notin cs /\ Frame(s, t, {"loading", "sends", "answers"})
<1> DEFINE qs == {q \in Requests : SendText(q) \in cs}
           rejected == RejectSends(s, qs)
           told == [rejected EXCEPT !.loading = @ /\ Load \notin cs]
           t == AnswerWithoutHelper(s, cs)
<1>1. /\ Frame(s, told, {"loading", "sends", "answers"})
      /\ told.sends = s.sends \ qs
      /\ told.loading => s.loading /\ Load \notin cs
      /\ SendsKept(s, told)
  <2>1. /\ Frame(s, rejected, {"sends", "answers"})
        /\ SendsKept(s, rejected)
        /\ rejected.sends = s.sends \ qs
    BY RejectFrame
  <2> HIDE DEF rejected
  <2> QED BY <2>1 DEF Frame, IsSupervisor, Fields, SendsKept
<1>2. t = IF CancelLink \in cs THEN GiveUpLink(told) ELSE told
  BY DEF AnswerWithoutHelper
<1> HIDE DEF t, told
<1>3. CASE CancelLink \notin cs
  <2>1. t = told BY <1>2, <1>3
  <2>2. Frame(s, t, AnsweredFields)
    BY <1>1, <2>1 DEF Frame, AnsweredFields, GaveUp
  <2>3. t.reported = s.reported BY <1>1, <2>1 DEF Frame, Fields
  <2> QED BY <1>1, <1>3, <2>1, <2>2, <2>3 DEF t
<1>4. CASE CancelLink \in cs
  <2>1. t = GiveUpLink(told) BY <1>2, <1>4
  <2>2. /\ Frame(told, t, GaveUp)
        /\ t.account = "Unlinked" /\ ~t.restartArmed /\ ~t.startWaits
        /\ t.reported = IF told.reported = "Restarting" THEN "Idle" ELSE told.reported
        /\ t.loading => told.loading
    BY <1>1, <2>1, GiveUpLinkFrame DEF Frame
  <2>3. Frame(s, t, AnsweredFields)
    BY <1>1, <2>2 DEF Frame, AnsweredFields, GaveUp
  <2>4. t.sends = told.sends /\ t.answers = told.answers
    BY <2>2 DEF Frame, GaveUp, Fields
  <2>5. SendsKept(s, t) BY <1>1, <2>4 DEF SendsKept
  <2>6. told.reported = s.reported BY <1>1 DEF Frame, Fields
  <2> QED BY <1>1, <2>2, <2>3, <2>4, <2>5, <2>6 DEF t
<1> QED BY <1>3, <1>4

(* A send that is answered without a helper has an answer.                  *)
LEMMA AnsweredSend ==
  ASSUME NEW s, IsSupervisor(s), NEW cs, NEW q \in Requests, SendText(q) \in cs
  PROVE  AnswerWithoutHelper(s, cs).answers[q] > 0
<1> DEFINE qs == {p \in Requests : SendText(p) \in cs}
           rejected == RejectSends(s, qs)
           told == [rejected EXCEPT !.loading = @ /\ Load \notin cs]
<1>1. rejected.answers[q] > 0 /\ IsSupervisor(rejected)
  <2>1. rejected.answers[q] = s.answers[q] + 1 BY DEF RejectSends
  <2>2. s.answers[q] \in Nat BY DEF IsSupervisor
  <2>3. IsSupervisor(rejected)
    <3> HIDE DEF qs
    <3> QED BY RejectFrame DEF Frame
  <2> QED BY <2>1, <2>2, <2>3
<1> HIDE DEF rejected
<1>2. told.answers = rejected.answers /\ IsSupervisor(told)
  BY <1>1 DEF IsSupervisor
<1> HIDE DEF told
<1>3. GiveUpLink(told).answers = told.answers
  BY <1>2, GiveUpLinkFrame DEF Frame, GaveUp, Fields
<1>4. AnswerWithoutHelper(s, cs) = IF CancelLink \in cs THEN GiveUpLink(told) ELSE told
  BY DEF AnswerWithoutHelper, told, rejected
<1> QED BY <1>1, <1>2, <1>3, <1>4

(* stop_for leaves no link, no restart timer, no open send and no linked    *)
(* row.                                                                     *)
LEMMA StopForFrame ==
  ASSUME NEW s, IsSupervisor(s)
  PROVE  LET t == StopFor(s) IN
         /\ IsSupervisor(t)
         /\ \A f \in {"alive", "startWaits", "stopArmed", "stopping", "failures", "stops"} : t[f] = s[f]
         /\ SendsKept(s, t) /\ t.sends = {}
         /\ t.link = NoRun /\ ~t.restartArmed
         /\ t.account = "Unlinked" /\ t.reported = "Stopped"
         /\ t.loading => s.loading /\ s.reported = "Stopped"
<1> DEFINE off == [DropLink(s) EXCEPT
                  !.restartArmed = FALSE, !.wakeLink = <<>>,
                  !.replayLink = IF s.linkedOnce THEN @ ELSE NoGen,
                  !.account = "Unlinked"]
<1>1. /\ Frame(s, off, {"link", "greeted", "held", "unacked", "draining", "restartArmed",
                        "wakeLink", "replayLink", "account"})
      /\ off.link = NoRun /\ ~off.restartArmed /\ off.account = "Unlinked"
  BY DropLinkFrame DEF Frame, IsSupervisor, Fields
<1>2. StopFor(s) = Report(RejectOpenSends(off), "Stopped") BY DEF StopFor
<1> HIDE DEF off
<1> DEFINE r == RejectSends(off, off.sends)
<1>3. /\ Frame(off, r, {"sends", "answers"}) /\ SendsKept(off, r)
      /\ r.sends = {}
  BY <1>1, RejectFrame DEF Frame
<1> HIDE DEF r
<1>4. StopFor(s) = Report(r, "Stopped") BY <1>2 DEF RejectOpenSends, r
<1> QED BY <1>1, <1>3, <1>4, ReportFrame DEF Frame, Fields, SendsKept, HelperGone

(* end_unsent arms no timer and keeps every open send open or answered.     *)
LEMMA EndUnsentFrame ==
  ASSUME NEW s, IsSupervisor(s), NEW unsent
  PROVE  LET t == EndUnsent(s, unsent) IN
         /\ Frame(s, t, AnsweredFields \cup {"replayLink"})
         /\ SendsKept(s, t)
         /\ t.reported = s.reported \/ (t.reported = "Idle" /\ s.reported = "Restarting")
         /\ t.loading => s.loading
         /\ t.startWaits => s.startWaits
         /\ t.restartArmed => s.restartArmed
<1> DEFINE told == AnswerWithoutHelper(s, Range(unsent))
           words == Those(Pairings \cup {CancelLink}, unsent)
<1>1. /\ Frame(s, told, AnsweredFields) /\ SendsKept(s, told)
      /\ told.reported = s.reported \/ (told.reported = "Idle" /\ s.reported = "Restarting")
      /\ told.loading => s.loading
      /\ told.startWaits => s.startWaits
      /\ told.restartArmed => s.restartArmed
  <2>1. ASSUME Frame(s, told, {"loading", "sends", "answers"})
        PROVE  told.startWaits = s.startWaits /\ told.restartArmed = s.restartArmed
    <3> HIDE DEF told
    <3> QED BY <2>1 DEF Frame, Fields
  <2> QED BY AnswerFrame, <2>1
<1>2. \/ EndUnsent(s, unsent) = told
      \/ EndUnsent(s, unsent) = [told EXCEPT !.replayLink = NoGen,
                                             !.wakeLink = <<words[Len(words)]>>]
  BY DEF EndUnsent
<1> HIDE DEF told, words
<1> QED BY <1>1, <1>2 DEF Frame, IsSupervisor, AnsweredFields, GaveUp, Fields, SendsKept

-----------------------------------------------------------------------------
(* A helper runs, or a start is on its way.                                 *)
Live(s) == HasLink(s) \/ s.restartArmed \/ s.startWaits

(* A link excludes every pending start, and its row says so.                *)
LinkInv(s) ==
    HasLink(s) => s.reported \in {"Busy", "Running"} /\ ~s.restartArmed /\ ~s.startWaits

RestartingInv(s) ==
    s.reported = "Restarting" => s.restartArmed \/ s.startWaits \/ s.stopping

AccountInv(s) ==
    s.account # "Unlinked" =>
      HasLink(s) \/ s.restartArmed \/ s.startWaits \/ s.reported = "Missing" \/ s.stopping

LoadInv(s) == s.loading => HasLink(s) \/ s.stopping

(* While a helper runs or starts, the count of failures is below the limit. *)
FailuresInv(s) == Live(s) => s.failures < MaxFailures

(* Stopped is sent once, and only when the app closes.                      *)
StopInv(s) ==
    /\ ~s.stopping => s.stops = 0 /\ ~s.stopArmed
    /\ s.stops <= 1
    /\ s.stops = 1 => ~HasLink(s) /\ ~s.stopArmed

(* What holds of the supervisor between two events, whatever it is          *)
(* connected to.                                                            *)
SupervisorInv(s) ==
    /\ IsSupervisor(s) /\ LinkInv(s) /\ RestartingInv(s) /\ AccountInv(s)
    /\ LoadInv(s) /\ FailuresInv(s) /\ StopInv(s)

(* A request that the shell is not left waiting for.                        *)
Served(s, q) == s.answers[q] > 0 \/ (q \in s.sends /\ HasLink(s)) \/ s.stopping

ServedKept(s, t) == \A q \in Requests : Served(s, q) => Served(t, q)

(* The step starts no helper.                                               *)
NoStart(s, t) == t.alive = s.alive /\ t.link \in {s.link, NoRun}

(* The step starts a helper, and no other process is alive.                 *)
Starting(s, t) ==
    /\ s.alive = {} /\ ~HasLink(s) /\ ~s.stopping
    /\ t.link \in Runs /\ t.alive = {t.link}

(* The invariant as it holds when launch is called: the timer of the start  *)
(* is taken already.                                                        *)
LaunchReady(s) ==
    /\ IsSupervisor(s) /\ LinkInv(s) /\ LoadInv(s) /\ StopInv(s)
    /\ s.failures < MaxFailures

(* A step that keeps the sends keeps every send served, if it drops no link *)
(* or leaves no send open.                                                  *)
LEMMA ServedIfKept ==
  ASSUME NEW s, NEW t, IsSupervisor(s), IsSupervisor(t), SendsKept(s, t),
         t.sends = {} \/ t.link = s.link,
         t.stopping = s.stopping
  PROVE  ServedKept(s, t)
<1>1. \A q \in Requests : s.answers[q] \in Nat /\ t.answers[q] \in Nat
  BY DEF IsSupervisor
<1> QED BY <1>1 DEF SendsKept, ServedKept, Served, HasLink

(* stop_for keeps the invariant, whether the app closes or not.             *)
LEMMA StopForKeeps ==
  ASSUME NEW s, IsSupervisor(s), StopInv(s), ~s.startWaits,
         s.loading /\ s.reported = "Stopped" => s.stopping
  PROVE  LET t == StopFor(s) IN
         /\ SupervisorInv(t) /\ ServedKept(s, t) /\ NoStart(s, t)
         /\ t.link = NoRun /\ ~Live(t) /\ t.failures = s.failures
<1> DEFINE t == StopFor(s)
<1>1. /\ IsSupervisor(t)
      /\ \A f \in {"alive", "startWaits", "stopArmed", "stopping", "failures", "stops"} : t[f] = s[f]
      /\ SendsKept(s, t) /\ t.sends = {}
      /\ t.link = NoRun /\ ~t.restartArmed
      /\ t.account = "Unlinked" /\ t.reported = "Stopped"
      /\ t.loading => s.loading /\ s.reported = "Stopped"
  BY StopForFrame
<1> HIDE DEF t
<1>2. /\ t.alive = s.alive /\ t.startWaits = s.startWaits /\ t.stopArmed = s.stopArmed
      /\ t.stopping = s.stopping /\ t.failures = s.failures /\ t.stops = s.stops
  BY <1>1
<1>3. ServedKept(s, t) BY <1>1, <1>2, ServedIfKept
<1>4. SupervisorInv(t)
  BY <1>1, <1>2 DEF SupervisorInv, LinkInv, RestartingInv, AccountInv, LoadInv, FailuresInv,
                    StopInv, Live, HasLink
<1> QED BY <1>1, <1>2, <1>3, <1>4 DEF NoStart, Live, HasLink, t

(* launch keeps the invariant for each answer of the operating system: it   *)
(* starts a helper only when no process is alive, or it starts none.        *)
LEMMA LaunchKeeps ==
  ASSUME NEW s, LaunchReady(s), NEW outcome \in Outcomes, NEW r,
         outcome = "started" => r \in Runs
  PROVE  LET t == Launch(s, outcome, r) IN
         /\ SupervisorInv(t) /\ ServedKept(s, t)
         /\ NoStart(s, t) \/ Starting(s, t)
         /\ t.failures = s.failures /\ t.stopping = s.stopping
<1> DEFINE t == Launch(s, outcome, r)
           off == [s EXCEPT !.restartArmed = FALSE]
           ready == [off EXCEPT !.startWaits = FALSE]
<1> USE DEF LaunchReady
<1>1. Frame(s, off, {"restartArmed"}) /\ ~off.restartArmed
  BY DEF Frame, IsSupervisor
<1>2. Frame(s, ready, {"restartArmed", "startWaits"}) /\ ~ready.restartArmed /\ ~ready.startWaits
  BY DEF Frame, IsSupervisor, Fields
<1> HIDE DEF off
<1>3. CASE HasLink(s) \/ s.stopping
  <2>1. t = off BY <1>3 DEF Launch, off
  <2> HIDE DEF t
  <2>2. /\ t.alive = s.alive /\ t.link = s.link /\ t.startWaits = s.startWaits
        /\ t.stopArmed = s.stopArmed /\ t.stopping = s.stopping /\ t.reported = s.reported
        /\ t.failures = s.failures /\ t.stops = s.stops /\ t.loading = s.loading
        /\ t.sends = s.sends /\ t.answers = s.answers /\ t.account = s.account
        /\ IsSupervisor(t) /\ ~t.restartArmed
    BY <1>1, <2>1 DEF Frame, Fields
  <2> QED BY <1>3, <2>2 DEF SupervisorInv, LinkInv, RestartingInv, AccountInv, LoadInv,
             FailuresInv, StopInv, Live, HasLink, NoStart, ServedKept, Served, t
<1>4. CASE ~HasLink(s) /\ ~s.stopping /\ s.alive # {}
  <2>1. t = [off EXCEPT !.startWaits = TRUE] BY <1>4 DEF Launch, off
  <2>2. Frame(s, t, {"restartArmed", "startWaits"}) /\ t.startWaits
    BY <1>1, <2>1 DEF Frame, IsSupervisor
  <2> HIDE DEF t
  <2>3. /\ t.alive = s.alive /\ t.link = s.link /\ t.stopArmed = s.stopArmed
        /\ t.stopping = s.stopping /\ t.failures = s.failures /\ t.stops = s.stops
        /\ t.loading = s.loading /\ t.sends = s.sends /\ t.answers = s.answers
        /\ IsSupervisor(t)
    BY <2>2 DEF Frame, Fields
  <2> QED BY <1>4, <2>2, <2>3 DEF SupervisorInv, LinkInv, RestartingInv, AccountInv, LoadInv,
             FailuresInv, StopInv, Live, HasLink, NoStart, ServedKept, Served, t
<1>5. CASE ~HasLink(s) /\ ~s.stopping /\ s.alive = {} /\ outcome = "missing"
  <2> DEFINE base == [ready EXCEPT !.wakeLink = <<>>]
  <2>1. t = Report(base, "Missing") BY <1>5 DEF Launch, ready, off
  <2>2. Frame(s, base, {"restartArmed", "startWaits", "wakeLink"}) /\ ~base.startWaits
    BY <1>2 DEF Frame, IsSupervisor, Fields
  <2> HIDE DEF t, base
  <2>3. /\ Frame(base, t, {"reported", "loading"}) /\ t.reported = "Missing"
        /\ t.loading => base.loading
    BY <2>1, <2>2, ReportFrame DEF Frame
  <2>4. /\ t.alive = s.alive /\ t.link = s.link /\ t.stopArmed = s.stopArmed
        /\ t.stopping = s.stopping /\ t.failures = s.failures /\ t.stops = s.stops
        /\ t.sends = s.sends /\ t.answers = s.answers
        /\ t.loading => s.loading
        /\ IsSupervisor(t)
    BY <2>2, <2>3 DEF Frame, Fields
  <2> QED BY <1>5, <2>3, <2>4 DEF SupervisorInv, LinkInv, RestartingInv, AccountInv, LoadInv,
             FailuresInv, StopInv, Live, HasLink, NoStart, ServedKept, Served, t
<1>6. CASE ~HasLink(s) /\ ~s.stopping /\ s.alive = {} /\ outcome = "failed"
  <2>1. t = StopFor(ready) BY <1>6 DEF Launch, ready, off
  <2> HIDE DEF t, ready
  <2>2. /\ ready.alive = s.alive /\ ready.link = s.link /\ ready.stopArmed = s.stopArmed
        /\ ready.stopping = s.stopping /\ ready.failures = s.failures /\ ready.stops = s.stops
        /\ ready.sends = s.sends /\ ready.answers = s.answers /\ ready.loading = s.loading
        /\ IsSupervisor(ready) /\ ~ready.startWaits
    BY <1>2 DEF Frame, Fields
  <2>3. /\ SupervisorInv(t) /\ ServedKept(ready, t) /\ NoStart(ready, t)
        /\ t.failures = ready.failures
    BY <1>6, <2>1, <2>2, StopForKeeps DEF StopInv, LoadInv
  <2>4. t.stopping = s.stopping BY <2>1, <2>2, StopForFrame
  <2> QED BY <2>2, <2>3, <2>4 DEF NoStart, ServedKept, Served, HasLink, t
<1>7. CASE ~HasLink(s) /\ ~s.stopping /\ s.alive = {} /\ outcome = "started"
  <2> DEFINE base == [ready EXCEPT
                         !.alive = @ \cup {r}, !.link = r,
                         !.held = StartCommands(s),
                         !.replayLink = IF s.wakeLink # <<>>
                                          THEN s.wakeLink[1].gen ELSE @,
                         !.wakeLink = <<>>]
  <2>1. t = Report(base, "Busy") BY <1>7 DEF Launch, ready, off
  <2>2. /\ Frame(s, base, {"restartArmed", "startWaits", "alive", "link", "held",
                           "replayLink", "wakeLink"})
        /\ base.link = r /\ base.alive = {r} /\ ~base.startWaits /\ ~base.restartArmed
    <3> DEFINE held == StartCommands(s)
    <3> HIDE DEF held
    <3> QED BY <1>2, <1>7 DEF Frame, IsSupervisor, Fields, held
  <2> HIDE DEF t, base
  <2>3. /\ Frame(base, t, {"reported", "loading"}) /\ t.reported = "Busy"
    BY <2>1, <2>2, ReportFrame DEF Frame
  <2>4. /\ t.alive = {r} /\ t.link = r /\ t.stopArmed = s.stopArmed
        /\ t.stopping = s.stopping /\ t.failures = s.failures /\ t.stops = s.stops
        /\ t.sends = s.sends /\ t.answers = s.answers
        /\ ~t.startWaits /\ ~t.restartArmed
        /\ IsSupervisor(t)
    BY <2>2, <2>3 DEF Frame, Fields
  <2>5. r \in Runs /\ r # NoRun BY <1>7, RunsAssumption
  <2> QED BY <1>7, <2>3, <2>4, <2>5 DEF SupervisorInv, LinkInv, RestartingInv, AccountInv,
             LoadInv, FailuresInv, StopInv, Live, HasLink, Starting, ServedKept, Served, t
<1> QED BY <1>3, <1>4, <1>5, <1>6, <1>7 DEF Outcomes

-----------------------------------------------------------------------------
(* A step that starts no helper.                                            *)
Quiet(s, t) ==
    /\ SupervisorInv(t) /\ ServedKept(s, t) /\ NoStart(s, t)
    /\ t.stopping = s.stopping
    /\ Live(t) => Live(s) /\ t.failures = s.failures

(* The fields that the invariant reads, without sends and loads.            *)
Core == {"link", "alive", "startWaits", "restartArmed", "stopArmed", "stopping",
         "reported", "failures", "stops"}

(* A step that changes no field of the invariant, other than sends and      *)
(* loads that end, keeps it.                                                *)
LEMMA CoreKept ==
  ASSUME NEW s, NEW t, SupervisorInv(s), IsSupervisor(t),
         \A f \in Core : t[f] = s[f],
         t.loading => s.loading \/ HasLink(s),
         t.account \in {s.account, "Unlinked"} \/ HasLink(s),
         SendsKept(s, t)
  PROVE  Quiet(s, t)
<1>1. /\ t.alive = s.alive /\ t.link = s.link /\ t.startWaits = s.startWaits
      /\ t.restartArmed = s.restartArmed /\ t.stopArmed = s.stopArmed
      /\ t.stopping = s.stopping /\ t.reported = s.reported
      /\ t.failures = s.failures /\ t.stops = s.stops
  BY DEF Core
<1>2. ServedKept(s, t) BY <1>1, ServedIfKept DEF SupervisorInv
<1> QED BY <1>1, <1>2 DEF SupervisorInv, LinkInv, RestartingInv, AccountInv, LoadInv,
           FailuresInv, StopInv, Live, HasLink, NoStart, Quiet

(* answer_without_helper keeps the invariant.                               *)
LEMMA AnswerKeeps ==
  ASSUME NEW s, NEW cs, IsSupervisor(s), LinkInv(s), RestartingInv(s), AccountInv(s),
         FailuresInv(s), StopInv(s), LoadInv(s) \/ Load \in cs
  PROVE  Quiet(s, AnswerWithoutHelper(s, cs))
<1> DEFINE t == AnswerWithoutHelper(s, cs)
<1>1. /\ Frame(s, t, AnsweredFields) /\ SendsKept(s, t)
      /\ t.reported = s.reported \/ (t.reported = "Idle" /\ s.reported = "Restarting")
      /\ t.loading => s.loading /\ Load \notin cs
      /\ \/ /\ t.account = "Unlinked" /\ ~t.restartArmed /\ ~t.startWaits
            /\ t.reported # "Restarting"
         \/ CancelLink \notin cs /\ Frame(s, t, {"loading", "sends", "answers"})
  BY AnswerFrame
<1> HIDE DEF t
<1>2. /\ t.alive = s.alive /\ t.link = s.link /\ t.stopArmed = s.stopArmed
      /\ t.stopping = s.stopping /\ t.failures = s.failures /\ t.stops = s.stops
      /\ IsSupervisor(t)
  BY <1>1 DEF Frame, AnsweredFields, GaveUp, Fields
<1>3. ServedKept(s, t) BY <1>1, <1>2, ServedIfKept
<1>4. CASE t.account = "Unlinked" /\ ~t.restartArmed /\ ~t.startWaits /\ t.reported # "Restarting"
  BY <1>1, <1>2, <1>3, <1>4 DEF SupervisorInv, LinkInv, RestartingInv, AccountInv, LoadInv,
     FailuresInv, StopInv, Live, HasLink, NoStart, Quiet, t
<1>5. CASE Frame(s, t, {"loading", "sends", "answers"})
  <2>1. /\ t.startWaits = s.startWaits /\ t.restartArmed = s.restartArmed
        /\ t.reported = s.reported /\ t.account = s.account
    BY <1>5 DEF Frame, Fields
  <2> QED BY <1>1, <1>2, <1>3, <2>1 DEF SupervisorInv, LinkInv, RestartingInv, AccountInv,
             LoadInv, FailuresInv, StopInv, Live, HasLink, NoStart, Quiet, t
<1> QED BY <1>1, <1>4, <1>5

(* Two quiet steps make one quiet step.                                     *)
LEMMA QuietTransitive ==
  ASSUME NEW s, NEW t, NEW u, Quiet(s, t), Quiet(t, u)
  PROVE  Quiet(s, u)
BY DEF Quiet, ServedKept, NoStart

(* helper_ended keeps the invariant: no send is left open, and a row that   *)
(* says Restarting has its timer.                                           *)
LEMMA HelperEndedKeeps ==
  ASSUME NEW s, SupervisorInv(s), HasLink(s), NEW stable \in BOOLEAN
  PROVE  LET t == HelperEnded(s, stable) IN
         /\ SupervisorInv(t) /\ ServedKept(s, t) /\ NoStart(s, t)
         /\ t.stopping = s.stopping /\ t.link = NoRun
         /\ Live(t) => t.failures = IF stable THEN 1 ELSE s.failures + 1
<1> DEFINE u == HelperEnded(s, stable)
           dropped == DropLink(s)
           unsent == IF s.greeted THEN <<>> ELSE s.held
           ended == EndUnsent(dropped, unsent)
           t == RejectOpenSends(ended)
           failures == IF stable THEN 1 ELSE t.failures + 1
           relinks == \/ t.replayLink # NoGen
                      \/ t.wakeLink # <<>>
                      \/ t.linkedOnce /\ t.acknowledged
           account == IF t.account = "Unlinked" \/ ~relinks
                        THEN "Unlinked" ELSE "Linking"
           idle == [t EXCEPT !.failures = 0, !.account = "Unlinked",
                             !.linkedOnce = @ /\ t.account = "Unlinked"]
           failed == [t EXCEPT !.failures = failures]
           waits == [t EXCEPT !.failures = failures, !.account = account,
                                !.restartArmed = TRUE]
<1>1. u = IF ReplayIsEmpty(t) /\ t.wakeLink = <<>> THEN Report(idle, "Idle")
          ELSE IF failures >= MaxFailures THEN StopFor(failed) ELSE Report(waits, "Restarting")
  BY DEF HelperEnded
<1>2. Frame(s, dropped, {"link", "greeted", "held", "unacked", "draining"}) /\ dropped.link = NoRun
  BY DropLinkFrame DEF SupervisorInv
<1>3. /\ Frame(dropped, ended, AnsweredFields \cup {"replayLink"}) /\ SendsKept(dropped, ended)
      /\ ended.reported = dropped.reported \/ (ended.reported = "Idle" /\ dropped.reported = "Restarting")
      /\ ended.loading => dropped.loading
      /\ ended.startWaits => dropped.startWaits
      /\ ended.restartArmed => dropped.restartArmed
  <2> HIDE DEF dropped, unsent
  <2> QED BY <1>2, EndUnsentFrame DEF Frame
<1>4. /\ Frame(ended, t, {"sends", "answers"}) /\ SendsKept(ended, t) /\ t.sends = {}
  <2> HIDE DEF ended
  <2>1. IsSupervisor(ended) BY <1>3 DEF Frame
  <2> QED BY <2>1, RejectFrame DEF RejectOpenSends
<1> HIDE DEF u, dropped, unsent, ended, t
<1>5. /\ t.alive = s.alive /\ t.link = NoRun /\ t.stopArmed = s.stopArmed
      /\ t.stopping = s.stopping /\ t.failures = s.failures /\ t.stops = s.stops
      /\ t.reported \in {"Busy", "Running"} /\ t.sends = {} /\ SendsKept(s, t)
      /\ IsSupervisor(t) /\ IsSupervisor(s) /\ ~s.startWaits
  <2>1. /\ dropped.alive = s.alive /\ dropped.stopArmed = s.stopArmed
        /\ dropped.stopping = s.stopping /\ dropped.failures = s.failures
        /\ dropped.stops = s.stops /\ dropped.reported = s.reported
        /\ dropped.sends = s.sends /\ dropped.answers = s.answers
    BY <1>2 DEF Frame, Fields
  <2>2. /\ ended.alive = s.alive /\ ended.stopArmed = s.stopArmed
        /\ ended.stopping = s.stopping /\ ended.failures = s.failures
        /\ ended.stops = s.stops /\ ended.link = NoRun
    BY <1>2, <1>3, <2>1 DEF Frame, Fields, AnsweredFields, GaveUp
  <2>3. /\ t.alive = ended.alive /\ t.stopArmed = ended.stopArmed
        /\ t.stopping = ended.stopping /\ t.failures = ended.failures
        /\ t.stops = ended.stops /\ t.link = ended.link /\ t.reported = ended.reported
        /\ IsSupervisor(t)
    BY <1>4 DEF Frame, Fields
  <2>4. SendsKept(s, t)
    <3>1. SendsKept(s, ended) BY <1>3, <2>1 DEF SendsKept
    <3>2. \A q \in Requests : s.answers[q] \in Nat /\ ended.answers[q] \in Nat /\ t.answers[q] \in Nat
      BY <1>3, <2>3 DEF Frame, IsSupervisor, SupervisorInv
    <3> QED BY <1>4, <3>1, <3>2 DEF SendsKept
  <2> QED BY <1>3, <1>4, <2>1, <2>2, <2>3, <2>4 DEF SupervisorInv, LinkInv
<1>6. ~t.startWaits /\ ~t.restartArmed
  <2>1. dropped.startWaits = s.startWaits /\ dropped.restartArmed = s.restartArmed
    BY <1>2 DEF Frame, Fields
  <2>2. ~ended.startWaits /\ ~ended.restartArmed
    BY <1>3, <2>1 DEF SupervisorInv, LinkInv
  <2> QED BY <1>4, <2>2 DEF Frame, Fields
<1>7. failures \in Nat BY <1>5 DEF IsSupervisor
<1>8. ASSUME NEW v, v.alive = t.alive, v.link = t.link, v.stopping = t.stopping,
             v.sends = t.sends, v.answers = t.answers, IsSupervisor(v)
      PROVE  ServedKept(s, v) /\ NoStart(s, v) /\ v.stopping = s.stopping /\ v.link = NoRun
  <2>1. SendsKept(s, v) BY <1>5, <1>8 DEF SendsKept
  <2> QED BY <1>5, <1>8, <2>1, ServedIfKept DEF NoStart
<1> HIDE DEF failures, relinks, account
<1>9. CASE u = Report(idle, "Idle")
  <2>1. Frame(t, idle, {"failures", "account", "linkedOnce"}) /\ idle.failures = 0 /\ idle.account = "Unlinked"
    BY <1>5 DEF Frame, IsSupervisor, Fields
  <2> HIDE DEF idle
  <2>2. /\ Frame(idle, u, {"reported", "loading"}) /\ u.reported = "Idle"
        /\ u.loading => idle.reported = "Idle"
    BY <1>9, <2>1, ReportFrame DEF Frame, HelperGone
  <2>3. /\ u.alive = t.alive /\ u.link = t.link /\ u.stopping = t.stopping
        /\ u.sends = t.sends /\ u.answers = t.answers /\ u.stopArmed = t.stopArmed
        /\ u.stops = t.stops /\ ~u.startWaits /\ ~u.restartArmed /\ u.failures = 0
        /\ u.account = "Unlinked" /\ idle.reported = t.reported /\ IsSupervisor(u)
    BY <1>6, <2>1, <2>2 DEF Frame, Fields
  <2>4. SupervisorInv(u) /\ ~Live(u)
    BY <1>5, <2>2, <2>3 DEF SupervisorInv, LinkInv, RestartingInv, AccountInv, LoadInv,
       FailuresInv, StopInv, Live, HasLink
  <2> QED BY <1>8, <2>3, <2>4 DEF u
<1>10. CASE failures >= MaxFailures /\ u = StopFor(failed)
  <2>1. Frame(t, failed, {"failures"}) BY <1>5, <1>7 DEF Frame, IsSupervisor
  <2> HIDE DEF failed
  <2>2. /\ failed.alive = t.alive /\ failed.link = t.link /\ failed.stopping = t.stopping
        /\ failed.sends = t.sends /\ failed.answers = t.answers /\ failed.stopArmed = t.stopArmed
        /\ failed.stops = t.stops /\ ~failed.startWaits
        /\ failed.reported = t.reported /\ IsSupervisor(failed)
    BY <1>6, <2>1 DEF Frame, Fields
  <2>3. StopInv(failed) BY <1>5, <2>2 DEF SupervisorInv, StopInv
  <2>4. /\ SupervisorInv(u) /\ ServedKept(failed, u) /\ NoStart(failed, u)
        /\ u.link = NoRun /\ ~Live(u)
    BY <1>5, <1>10, <2>2, <2>3, StopForKeeps
  <2>5. u.stopping = failed.stopping BY <1>10, <2>2, StopForFrame
  <2>6. ServedKept(s, failed) BY <1>8, <2>2
  <2> QED BY <1>5, <2>2, <2>4, <2>5, <2>6 DEF ServedKept, NoStart, u
<1>11. CASE ~(failures >= MaxFailures) /\ u = Report(waits, "Restarting")
  <2>1. Frame(t, waits, {"failures", "account", "restartArmed"}) /\ waits.failures = failures /\ waits.restartArmed
    BY <1>5, <1>7 DEF Frame, IsSupervisor, Fields
  <2> HIDE DEF waits
  <2>2. /\ Frame(waits, u, {"reported", "loading"}) /\ u.reported = "Restarting"
        /\ u.loading => waits.reported = "Restarting"
    BY <1>11, <2>1, ReportFrame DEF Frame, HelperGone
  <2>3. /\ u.alive = t.alive /\ u.link = t.link /\ u.stopping = t.stopping
        /\ u.sends = t.sends /\ u.answers = t.answers /\ u.stopArmed = t.stopArmed
        /\ u.stops = t.stops /\ u.restartArmed /\ u.failures = failures
        /\ waits.reported = t.reported /\ IsSupervisor(u)
    BY <2>1, <2>2 DEF Frame, Fields
  <2>4. SupervisorInv(u)
    BY <1>5, <1>7, <1>11, <2>2, <2>3, MaxFailuresAssumption DEF SupervisorInv, LinkInv,
       RestartingInv, AccountInv, LoadInv, FailuresInv, StopInv, Live, HasLink
  <2> QED BY <1>5, <1>8, <2>3, <2>4 DEF u, failures
<1> QED BY <1>1, <1>9, <1>10, <1>11

(* finish_stop keeps the invariant if Stopped was not sent yet.             *)
LEMMA FinishStopKeeps ==
  ASSUME NEW s, SupervisorInv(s), s.stopping, s.stops = 0
  PROVE  LET t == FinishStop(s) IN
         /\ SupervisorInv(t) /\ ServedKept(s, t) /\ NoStart(s, t)
         /\ t.stopping /\ t.link = NoRun
         /\ Live(t) => Live(s) /\ t.failures = s.failures
         /\ t.restartArmed = s.restartArmed /\ t.startWaits = s.startWaits
<1> DEFINE dropped == DropLink(s)
           t == FinishStop(s)
<1>1. Frame(s, dropped, {"link", "greeted", "held", "unacked", "draining"}) /\ dropped.link = NoRun
  BY DropLinkFrame DEF SupervisorInv
<1>2. t = [dropped EXCEPT !.stopArmed = FALSE, !.sends = {}, !.stops = @ + 1]
  BY DEF FinishStop
<1> HIDE DEF dropped, t
<1>3. /\ t.link = NoRun /\ t.alive = s.alive /\ t.startWaits = s.startWaits
      /\ t.restartArmed = s.restartArmed /\ ~t.stopArmed /\ t.stopping
      /\ t.stops = 1 /\ t.failures = s.failures /\ IsSupervisor(t)
  BY <1>1, <1>2 DEF Frame, IsSupervisor, Fields
<1> QED BY <1>3 DEF SupervisorInv, LinkInv, RestartingInv, AccountInv, LoadInv,
           FailuresInv, StopInv, Live, HasLink, NoStart, ServedKept, Served, t

(* The end of the linked helper keeps the invariant, whether the app closes *)
(* or not.                                                                  *)
LEMMA OnHelperGoneKeeps ==
  ASSUME NEW s, SupervisorInv(s), HasLink(s), NEW stable \in BOOLEAN
  PROVE  LET t == OnHelperGone(s, stable) IN
         /\ SupervisorInv(t) /\ ServedKept(s, t) /\ NoStart(s, t)
         /\ t.stopping = s.stopping /\ t.link = NoRun
         /\ Live(t) => t.failures = IF stable THEN 1 ELSE s.failures + 1
<1>1. CASE s.stopping
  <2>1. s.stops = 0 BY <1>1 DEF SupervisorInv, StopInv, IsSupervisor
  <2>2. ~s.restartArmed /\ ~s.startWaits BY DEF SupervisorInv, LinkInv
  <2> QED BY <1>1, <2>1, <2>2, FinishStopKeeps DEF OnHelperGone, Live, HasLink
<1>2. CASE ~s.stopping BY <1>2, HelperEndedKeeps DEF OnHelperGone
<1> QED BY <1>1, <1>2

(* Writing commands is quiet, also when one of them is too long for a line. *)
LEMMA WriteRequestsKeeps ==
  ASSUME NEW s, SupervisorInv(s), HasLink(s), NEW cs
  PROVE  Quiet(s, WriteRequests(s, cs))
<1> DEFINE fit == Those(Fitting, cs)
           unfit == Those(Command \ Fitting, cs)
           t == [s EXCEPT !.written = fit, !.unacked = @ + Len(fit)]
           u == AnswerWithoutHelper(t, Range(unfit))
           v == WriteRequests(s, cs)
           failed == [u EXCEPT !.replayLink = NoGen, !.wakeLink = <<>>, !.account = "Unlinked"]
<1>1. v = u \/ v = failed BY DEF WriteRequests, FailUnsentPairing
<1>2. Quiet(s, t)
  <2>1. Frame(s, t, {"written", "unacked"})
    <3> HIDE DEF fit
    <3> QED BY DEF Frame, IsSupervisor, SupervisorInv, Fields
  <2> HIDE DEF t
  <2> QED BY <2>1, CoreKept DEF Frame, Core, Fields, SendsKept, IsSupervisor
<1>3. Quiet(t, u)
  <2> HIDE DEF t, unfit
  <2> QED BY <1>2, AnswerKeeps DEF Quiet, SupervisorInv
<1> HIDE DEF t, u, v
<1>4. Quiet(u, failed)
  <2>1. Frame(u, failed, {"replayLink", "wakeLink", "account"}) /\ failed.account = "Unlinked"
    BY <1>3 DEF Frame, IsSupervisor, Quiet, SupervisorInv, Fields
  <2> HIDE DEF failed
  <2> QED BY <1>3, <2>1, CoreKept DEF Frame, Core, Fields, SendsKept, IsSupervisor, Quiet
<1> QED BY <1>1, <1>2, <1>3, <1>4, QuietTransitive DEF v

(* A request to the linked helper is quiet, and a send becomes open.        *)
LEMMA RequestKeeps ==
  ASSUME NEW s, SupervisorInv(s), HasLink(s), NEW c
  PROVE  Quiet(s, Request(s, c)) /\ (c.type = "send" => Served(Request(s, c), c.req) \/ c.req \notin Requests)
<1> DEFINE t == OpenSend(s, c)
           held == Append(IF c.type = "cancel" THEN Those(Command \ Pairings, t.held) ELSE t.held, c)
           waits == [t EXCEPT !.held = held]
<1>1. /\ Frame(s, t, {"sends"}) /\ SendsKept(s, t)
      /\ c.type = "send" => c.req \in t.sends
  BY DEF OpenSend, Frame, IsSupervisor, SupervisorInv, SendsKept
<1>2. Request(s, c) = IF s.greeted THEN WriteRequests(t, <<c>>) ELSE waits
  BY DEF Request
<1> HIDE DEF t, held
<1>3. Quiet(s, t) BY <1>1, CoreKept DEF Frame, Core, Fields
<1>4. HasLink(t) BY <1>1 DEF Frame, Fields, HasLink
<1>5. Quiet(t, WriteRequests(t, <<c>>)) BY <1>3, <1>4, WriteRequestsKeeps DEF Quiet
<1>6. Frame(t, waits, {"held"}) BY <1>1 DEF Frame, IsSupervisor
<1> HIDE DEF waits
<1>7. Quiet(t, waits)
  BY <1>3, <1>6, CoreKept DEF Frame, Core, Fields, SendsKept, IsSupervisor, Quiet
<1>8. c.type = "send" => Served(t, c.req) BY <1>1, <1>4 DEF Served
<1> QED BY <1>2, <1>3, <1>5, <1>7, <1>8, QuietTransitive DEF Quiet, ServedKept

(* The replay notes a command in its own fields only.                       *)
LEMMA NoteKeeps ==
  ASSUME NEW s, IsSupervisor(s), NEW c
  PROVE  Frame(s, Note(s, c), {"acknowledged", "replayLink"})
BY DEF Note, Frame, IsSupervisor, Fields

(* on_command keeps the invariant, and a send that reaches the supervisor   *)
(* is served.                                                               *)
LEMMA OnCommandKeeps ==
  ASSUME NEW s, IsSupervisor(s), LinkInv(s), RestartingInv(s), AccountInv(s),
         FailuresInv(s), StopInv(s),
         NEW c \in Command, LoadInv(s) \/ c = Load,
         NEW outcome \in Outcomes, NEW r, outcome = "started" => r \in Runs
  PROVE  LET t == OnCommand(s, c, outcome, r) IN
         /\ SupervisorInv(t) /\ ServedKept(s, t)
         /\ NoStart(s, t) \/ Starting(s, t)
         /\ c.type = "send" => Served(t, c.req)
         /\ t.stopping = s.stopping
         /\ \/ Live(t) => Live(s) /\ t.failures = s.failures
            \/ c.type \in {"gate", "begin"}
<1> DEFINE t == OnCommand(s, c, outcome, r)
           noted == Note(s, c)
<1>1. Frame(s, noted, {"acknowledged", "replayLink"}) BY NoteKeeps
<1>2. c.type = "send" => c.req \in Requests
  BY DEF Command, Pairings, AcknowledgeGate, CancelLink, Load, BeginLink, SendText
<1>3. CASE s.stopping
  <2>1. t = s /\ LoadInv(s) BY <1>3 DEF OnCommand, LoadInv
  <2> HIDE DEF t
  <2> QED BY <1>3, <2>1 DEF SupervisorInv, ServedKept, Served, NoStart, t
<1>4. CASE ~s.stopping /\ HasLink(s)
  <2>1. t = Request(noted, c) BY <1>4 DEF OnCommand
  <2> HIDE DEF t, noted
  <2>2. SupervisorInv(s) BY <1>4 DEF SupervisorInv, LoadInv
  <2>3. Quiet(s, noted) /\ HasLink(noted)
    BY <1>1, <1>4, <2>2, CoreKept DEF Frame, Core, Fields, SendsKept, IsSupervisor, HasLink
  <2>4. Quiet(noted, t) /\ (c.type = "send" => Served(t, c.req) \/ c.req \notin Requests)
    BY <2>1, <2>3, RequestKeeps DEF Quiet
  <2> QED BY <1>2, <2>3, <2>4, QuietTransitive DEF Quiet, t
<1>5. CASE ~s.stopping /\ ~HasLink(s) /\ c.type = "gate"
  <2> DEFINE base == [noted EXCEPT !.failures = 0]
  <2>1. t = Launch(base, outcome, r) BY <1>5 DEF OnCommand
  <2>2. Frame(s, base, {"acknowledged", "replayLink", "failures"}) /\ base.failures = 0
    <3> HIDE DEF noted
    <3> QED BY <1>1 DEF Frame, IsSupervisor
  <2> HIDE DEF t, base
  <2>3. /\ base.link = s.link /\ base.alive = s.alive /\ base.startWaits = s.startWaits
        /\ base.restartArmed = s.restartArmed /\ base.stopArmed = s.stopArmed
        /\ base.stopping = s.stopping /\ base.reported = s.reported /\ base.stops = s.stops
        /\ base.loading = s.loading /\ base.sends = s.sends /\ base.answers = s.answers
        /\ IsSupervisor(base)
    BY <2>2 DEF Frame, Fields
  <2>4. LoadInv(s) BY <1>5 DEF Load
  <2>5. LaunchReady(base)
    BY <2>2, <2>3, <2>4, MaxFailuresAssumption DEF LaunchReady, LinkInv, LoadInv, StopInv, HasLink
  <2>6. /\ SupervisorInv(t) /\ ServedKept(base, t)
        /\ NoStart(base, t) \/ Starting(base, t)
        /\ t.stopping = base.stopping
    BY <2>1, <2>5, LaunchKeeps
  <2> QED BY <1>5, <2>3, <2>6 DEF ServedKept, Served, NoStart, Starting, t
<1>6. CASE ~s.stopping /\ ~HasLink(s) /\ c.type = "begin"
  <2> DEFINE base == [s EXCEPT !.replayLink = NoGen, !.wakeLink = <<c>>, !.failures = 0]
  <2>1. t = Launch(base, outcome, r) BY <1>6 DEF OnCommand
  <2>2. Frame(s, base, {"replayLink", "wakeLink", "failures"}) /\ base.failures = 0
    BY DEF Frame, IsSupervisor, Fields
  <2> HIDE DEF t, base
  <2>3. /\ base.link = s.link /\ base.alive = s.alive /\ base.startWaits = s.startWaits
        /\ base.restartArmed = s.restartArmed /\ base.stopArmed = s.stopArmed
        /\ base.stopping = s.stopping /\ base.reported = s.reported /\ base.stops = s.stops
        /\ base.loading = s.loading /\ base.sends = s.sends /\ base.answers = s.answers
        /\ IsSupervisor(base)
    BY <2>2 DEF Frame, Fields
  <2>4. LoadInv(s) BY <1>6 DEF Load
  <2>5. LaunchReady(base)
    BY <2>2, <2>3, <2>4, MaxFailuresAssumption DEF LaunchReady, LinkInv, LoadInv, StopInv, HasLink
  <2>6. /\ SupervisorInv(t) /\ ServedKept(base, t)
        /\ NoStart(base, t) \/ Starting(base, t)
        /\ t.stopping = base.stopping
    BY <2>1, <2>5, LaunchKeeps
  <2> QED BY <1>6, <2>3, <2>6 DEF ServedKept, Served, NoStart, Starting, t
<1>7. CASE ~s.stopping /\ ~HasLink(s) /\ c.type \notin {"gate", "begin"}
  <2>1. t = AnswerWithoutHelper(noted, {c}) BY <1>7 DEF OnCommand
  <2> HIDE DEF t, noted
  <2>2. /\ noted.link = s.link /\ noted.alive = s.alive /\ noted.startWaits = s.startWaits
        /\ noted.restartArmed = s.restartArmed /\ noted.stopArmed = s.stopArmed
        /\ noted.stopping = s.stopping /\ noted.reported = s.reported /\ noted.stops = s.stops
        /\ noted.loading = s.loading /\ noted.sends = s.sends /\ noted.answers = s.answers
        /\ noted.failures = s.failures /\ noted.account = s.account
        /\ IsSupervisor(noted)
    BY <1>1 DEF Frame, Fields
  <2>3. Quiet(noted, t)
    BY <2>1, <2>2, AnswerKeeps DEF LinkInv, RestartingInv, AccountInv, FailuresInv, StopInv,
       LoadInv, Live, HasLink
  <2>4. c.type = "send" => Served(t, c.req)
    <3>1. ASSUME c.type = "send" PROVE c = SendText(c.req)
      BY <3>1 DEF Command, Pairings, AcknowledgeGate, CancelLink, Load, BeginLink, SendText
    <3> QED BY <1>2, <2>1, <2>2, <3>1, AnsweredSend DEF Served
  <2> QED BY <1>7, <2>2, <2>3, <2>4 DEF Quiet, ServedKept, Served, NoStart, Live, HasLink, t
<1> QED BY <1>3, <1>4, <1>5, <1>6, <1>7

(* on_restart keeps the invariant.                                          *)
LEMMA OnRestartKeeps ==
  ASSUME NEW s, SupervisorInv(s),
         NEW outcome \in Outcomes, NEW r, outcome = "started" => r \in Runs
  PROVE  LET t == OnRestart(s, outcome, r) IN
         /\ SupervisorInv(t) /\ ServedKept(s, t)
         /\ NoStart(s, t) \/ Starting(s, t)
         /\ t.stopping = s.stopping
<1> DEFINE base == [s EXCEPT !.failures = 0]
           t == OnRestart(s, outcome, r)
<1>1. t = IF s.stopping \/ HasLink(s) THEN s ELSE Launch(base, outcome, r)
  BY DEF OnRestart
<1>2. Frame(s, base, {"failures"}) /\ base.failures = 0
  BY DEF Frame, IsSupervisor, SupervisorInv
<1> HIDE DEF t, base
<1>3. /\ base.link = s.link /\ base.alive = s.alive /\ base.startWaits = s.startWaits
      /\ base.restartArmed = s.restartArmed /\ base.stopArmed = s.stopArmed
      /\ base.stopping = s.stopping /\ base.reported = s.reported /\ base.stops = s.stops
      /\ base.loading = s.loading /\ base.sends = s.sends /\ base.answers = s.answers
      /\ IsSupervisor(base)
  BY <1>2 DEF Frame, Fields
<1>4. LaunchReady(base)
  BY <1>2, <1>3, MaxFailuresAssumption DEF LaunchReady, LinkInv, LoadInv, StopInv, HasLink, SupervisorInv
<1>5. LET u == Launch(base, outcome, r) IN
        /\ SupervisorInv(u) /\ ServedKept(base, u)
        /\ NoStart(base, u) \/ Starting(base, u)
        /\ u.stopping = base.stopping
  BY <1>4, LaunchKeeps
<1> QED BY <1>1, <1>3, <1>5 DEF ServedKept, Served, NoStart, Starting, t

(* on_shutdown keeps the invariant: after it the supervisor stops.          *)
LEMMA OnShutdownKeeps ==
  ASSUME NEW s, SupervisorInv(s)
  PROVE  LET t == OnShutdown(s) IN
         /\ SupervisorInv(t) /\ ServedKept(s, t) /\ NoStart(s, t)
         /\ t.stopping
         /\ Live(t) => Live(s) /\ t.failures = s.failures
<1> DEFINE off == [s EXCEPT !.stopping = TRUE, !.restartArmed = FALSE,
                         !.wakeLink = <<>>, !.startWaits = FALSE]
           told == [off EXCEPT !.written = <<Shutdown>>, !.stopArmed = TRUE]
           t == OnShutdown(s)
<1>1. /\ s.stopping => t = s
      /\ ~s.stopping /\ ~HasLink(s) => t = FinishStop(off)
      /\ ~s.stopping /\ HasLink(s) => t = told
  BY DEF OnShutdown
<1>2. /\ off.link = s.link /\ off.alive = s.alive /\ ~off.startWaits /\ ~off.restartArmed
      /\ off.stopArmed = s.stopArmed /\ off.stopping /\ off.reported = s.reported
      /\ off.stops = s.stops /\ off.failures = s.failures /\ IsSupervisor(off)
  BY DEF IsSupervisor, SupervisorInv
<1>3. /\ told.link = s.link /\ told.alive = s.alive /\ ~told.startWaits /\ ~told.restartArmed
      /\ told.stopping /\ told.reported = s.reported
      /\ told.stops = s.stops /\ told.failures = s.failures /\ IsSupervisor(told)
  BY DEF IsSupervisor, SupervisorInv
<1> HIDE DEF off, told, t
<1>4. CASE s.stopping BY <1>1, <1>4 DEF ServedKept, NoStart, t
<1>5. CASE ~s.stopping /\ ~HasLink(s)
  <2>1. SupervisorInv(off) /\ off.stops = 0
    BY <1>2, <1>5 DEF SupervisorInv, LinkInv, RestartingInv, AccountInv, LoadInv,
       FailuresInv, StopInv, Live, HasLink
  <2>2. /\ SupervisorInv(t) /\ ServedKept(off, t) /\ NoStart(off, t)
        /\ t.stopping /\ t.link = NoRun
        /\ Live(t) => Live(off) /\ t.failures = off.failures
    BY <1>1, <1>2, <1>5, <2>1, FinishStopKeeps
  <2> QED BY <1>2, <2>2 DEF ServedKept, Served, NoStart, Live, HasLink, t
<1>6. CASE ~s.stopping /\ HasLink(s)
  BY <1>1, <1>3, <1>6 DEF SupervisorInv, LinkInv, RestartingInv, AccountInv, LoadInv,
    FailuresInv, StopInv, Live, ServedKept, Served, NoStart, t
<1> QED BY <1>4, <1>5, <1>6

(* Telling the row that a linked helper is busy or runs is quiet.           *)
LEMMA ReportLinked ==
  ASSUME NEW s, SupervisorInv(s), HasLink(s), NEW state \in {"Busy", "Running"}
  PROVE  Quiet(s, Report(s, state))
<1> DEFINE t == Report(s, state)
<1>1. Frame(s, t, {"reported", "loading"}) /\ t.reported = state /\ (t.loading => s.loading)
  BY ReportFrame DEF SupervisorInv
<1> HIDE DEF t
<1>2. /\ t.link = s.link /\ t.alive = s.alive /\ t.startWaits = s.startWaits
      /\ t.restartArmed = s.restartArmed /\ t.stopArmed = s.stopArmed
      /\ t.stopping = s.stopping /\ t.stops = s.stops /\ t.failures = s.failures
      /\ t.sends = s.sends /\ t.answers = s.answers /\ IsSupervisor(t)
  BY <1>1 DEF Frame, Fields
<1> QED BY <1>1, <1>2 DEF SupervisorInv, LinkInv, RestartingInv, AccountInv, LoadInv,
           FailuresInv, StopInv, Live, HasLink, ServedKept, Served, NoStart, Quiet, t

(* Hello, with the commands that waited for it, is quiet.                   *)
LEMMA OnHelloKeeps ==
  ASSUME NEW s, SupervisorInv(s), HasLink(s)
  PROVE  Quiet(s, OnHello(s))
<1> DEFINE greeted == [s EXCEPT !.greeted = TRUE, !.held = <<>>]
           told == Report(greeted, "Running")
<1>1. Frame(s, greeted, {"greeted", "held"})
  BY DEF Frame, IsSupervisor, SupervisorInv, Fields
<1> HIDE DEF greeted
<1>2. Quiet(s, greeted) /\ HasLink(greeted)
  BY <1>1, CoreKept DEF Frame, Core, Fields, SendsKept, IsSupervisor, HasLink
<1>3. Quiet(greeted, told) /\ HasLink(told)
  <2>1. Frame(greeted, told, {"reported", "loading"}) BY <1>1, ReportFrame DEF Frame
  <2>2. told.link = greeted.link BY <2>1 DEF Frame, Fields
  <2> QED BY <1>2, <2>2, ReportLinked DEF Quiet, HasLink
<1> HIDE DEF told
<1>4. Quiet(told, WriteRequests(told, s.held)) BY <1>3, WriteRequestsKeeps DEF Quiet
<1>5. OnHello(s) = WriteRequests(told, s.held) BY DEF OnHello, told, greeted
<1> QED BY <1>2, <1>3, <1>4, <1>5, QuietTransitive

(* An Ack is quiet.                                                         *)
LEMMA OnAckKeeps ==
  ASSUME NEW s, SupervisorInv(s), HasLink(s), NEW slow
  PROVE  Quiet(s, OnAck(s, slow))
<1> DEFINE left == IF s.unacked = 0 THEN 0 ELSE s.unacked - 1
           t == [s EXCEPT !.unacked = left]
<1>1. Frame(s, t, {"unacked"})
  <2> HIDE DEF left
  <2> QED BY DEF Frame, IsSupervisor, SupervisorInv
<1>2. OnAck(s, slow) = t \/ OnAck(s, slow) = Report(t, "Running") BY DEF OnAck
<1> HIDE DEF t
<1>3. Quiet(s, t) /\ HasLink(t)
  BY <1>1, CoreKept DEF Frame, Core, Fields, SendsKept, IsSupervisor, HasLink
<1>4. Quiet(t, Report(t, "Running")) BY <1>3, ReportLinked DEF Quiet
<1> QED BY <1>2, <1>3, <1>4, QuietTransitive

(* An account event of the linked helper is quiet, and so is the end of its *)
(* pairing.                                                                 *)
LEMMA OnAccountKeeps ==
  ASSUME NEW s, SupervisorInv(s), HasLink(s), NEW state \in AccountState
  PROVE  Quiet(s, OnAccount(s, state)) /\ Quiet(s, EndPairing(s))
<1>1. ASSUME NEW t, Frame(s, t, {"account", "linkedOnce", "replayLink"})
      PROVE  Quiet(s, t)
  BY <1>1, CoreKept DEF Frame, Core, Fields, SendsKept, IsSupervisor
<1>2. Frame(s, EndPairing(s), {"account", "linkedOnce", "replayLink"})
  BY DEF EndPairing, Frame, IsSupervisor, SupervisorInv, Fields
<1>3. Frame(s, OnAccount(s, state), {"account", "linkedOnce", "replayLink"})
  BY DEF OnAccount, EndPairing, AccountState, Frame, IsSupervisor, SupervisorInv, Fields
<1> QED BY <1>1, <1>2, <1>3

(* The answer to a send is quiet.                                           *)
LEMMA OnSendAnswerKeeps ==
  ASSUME NEW s, SupervisorInv(s), HasLink(s), NEW q
  PROVE  Quiet(s, OnSendAnswer(s, q))
<1> DEFINE t == OnSendAnswer(s, q)
<1>1. /\ DOMAIN t = Fields /\ t.sends = s.sends \ {q}
      /\ t.answers = [s.answers EXCEPT ![q] = @ + 1]
      /\ \A f \in Fields \ {"sends", "answers"} : t[f] = s[f]
  BY DEF OnSendAnswer, IsSupervisor, SupervisorInv, Fields
<1> HIDE DEF t
<1>2. s.answers \in [Requests -> Nat] BY DEF IsSupervisor, SupervisorInv
<1>3. t.answers \in [Requests -> Nat]
  <2>1. t.answers = [p \in Requests |-> IF p = q THEN s.answers[p] + 1 ELSE s.answers[p]]
    BY <1>1, <1>2
  <2>2. \A p \in Requests : s.answers[p] \in Nat BY <1>2
  <2> QED BY <2>1, <2>2
<1>4. IsSupervisor(t) BY <1>1, <1>3 DEF IsSupervisor, SupervisorInv, Fields
<1>5. SendsKept(s, t)
  <2>1. \A p \in Requests : t.answers[p] = IF p = q THEN s.answers[p] + 1 ELSE s.answers[p]
    BY <1>1, <1>2
  <2>2. \A p \in Requests : s.answers[p] \in Nat BY <1>2
  <2> QED BY <1>1, <2>1, <2>2 DEF SendsKept
<1>6. Quiet(s, t) BY <1>1, <1>4, <1>5, CoreKept DEF Core, Fields
<1> QED BY <1>6 DEF t

(* Process r is gone; a start that waited for it can happen.                *)
AfterExit(s, t, r) ==
    \/ t.alive = s.alive \ {r} /\ t.link \in {s.link, NoRun}
    \/ s.alive \ {r} = {} /\ t.link \in Runs /\ t.alive = {t.link}

(* The step leaves the count of failures to a helper that stays live.       *)
FailuresKept(s, t) == Live(t) => Live(s) /\ t.failures = s.failures

(* The exit of a process keeps the invariant, also when a start waited for  *)
(* it.                                                                      *)
LEMMA OnExitedKeeps ==
  ASSUME NEW s, SupervisorInv(s), NEW r,
         NEW outcome \in Outcomes, NEW new, outcome = "started" => new \in Runs
  PROVE  LET t == OnExited(s, r, outcome, new) IN
         /\ SupervisorInv(t) /\ ServedKept(s, t)
         /\ AfterExit(s, t, r)
         /\ FailuresKept(s, t)
<1> USE DEF AfterExit, FailuresKept
<1> DEFINE gone == [s EXCEPT !.alive = @ \ {r}, !.draining = @ \/ s.link = r]
           t == OnExited(s, r, outcome, new)
<1>1. t = IF gone.startWaits /\ gone.alive = {} THEN Launch(gone, outcome, new) ELSE gone
  BY DEF OnExited
<1>2. Frame(s, gone, {"alive", "draining"}) /\ gone.alive = s.alive \ {r}
  BY DEF Frame, IsSupervisor, SupervisorInv, Fields
<1> HIDE DEF t, gone
<1>3. /\ gone.link = s.link /\ gone.startWaits = s.startWaits
      /\ gone.restartArmed = s.restartArmed /\ gone.stopArmed = s.stopArmed
      /\ gone.stopping = s.stopping /\ gone.reported = s.reported /\ gone.stops = s.stops
      /\ gone.loading = s.loading /\ gone.sends = s.sends /\ gone.answers = s.answers
      /\ gone.failures = s.failures /\ gone.account = s.account
      /\ IsSupervisor(gone)
  BY <1>2 DEF Frame, Fields
<1>4. SupervisorInv(gone) /\ ServedKept(s, gone)
  BY <1>3 DEF SupervisorInv, LinkInv, RestartingInv, AccountInv, LoadInv, FailuresInv,
     StopInv, Live, HasLink, ServedKept, Served
<1>5. CASE gone.startWaits /\ gone.alive = {}
  <2>1. LaunchReady(gone)
    BY <1>4, <1>5 DEF LaunchReady, SupervisorInv, FailuresInv, Live
  <2>2. /\ SupervisorInv(t) /\ ServedKept(gone, t)
        /\ NoStart(gone, t) \/ Starting(gone, t)
        /\ t.failures = gone.failures /\ t.stopping = gone.stopping
    BY <1>1, <1>5, <2>1, LaunchKeeps
  <2> QED BY <1>2, <1>3, <1>4, <1>5, <2>2 DEF NoStart, Starting, ServedKept, Live, t
<1>6. CASE ~(gone.startWaits /\ gone.alive = {})
  <2>1. t = gone BY <1>1, <1>6
  <2> QED BY <1>2, <1>3, <1>4, <2>1 DEF Live, HasLink, t
<1> QED BY <1>5, <1>6

-----------------------------------------------------------------------------
(* Types: each operator takes a state of the supervisor to one.  These      *)
(* lemmas also say what the filtered queues can hold.                       *)

(* report keeps the type of the supervisor.                                 *)
LEMMA ReportTyped ==
  ASSUME NEW s \in SupervisorState, NEW state \in HelperState
  PROVE  Report(s, state) \in SupervisorState
<1> DEFINE loading == s.loading /\ (state = s.reported \/ state \notin HelperGone)
<1>1. Report(s, state) = [s EXCEPT !.reported = state, !.loading = loading]
  BY DEF Report
<1>2. loading \in BOOLEAN OBVIOUS
<1> HIDE DEF loading
<1> QED BY ZenonT(60), <1>1, <1>2 DEF SupervisorState

(* The link goes with all that belongs to it.                               *)
LEMMA DropLinkTyped ==
  ASSUME NEW s \in SupervisorState
  PROVE  DropLink(s) \in SupervisorState
<1>1. <<>> \in Seq(Command) /\ NoRun \in Runs \cup {NoRun} /\ 0 \in Nat OBVIOUS
<1> QED BY <1>1 DEF DropLink, SupervisorState

(* A rejection counts one more answer.                                      *)
LEMMA RejectTyped ==
  ASSUME NEW s \in SupervisorState, NEW qs
  PROVE  RejectSends(s, qs) \in SupervisorState
<1>1. s.sends \ qs \in SUBSET Requests BY DEF SupervisorState
<1>2. [q \in Requests |-> IF q \in qs THEN s.answers[q] + 1 ELSE s.answers[q]]
        \in [Requests -> Nat]
  BY DEF SupervisorState
<1> QED BY <1>1, <1>2 DEF RejectSends, SupervisorState

(* give_up_link keeps the type of the supervisor.                           *)
LEMMA GiveUpLinkTyped ==
  ASSUME NEW s \in SupervisorState
  PROVE  GiveUpLink(s) \in SupervisorState
<1> DEFINE off == [s EXCEPT !.restartArmed = FALSE, !.startWaits = FALSE,
                         !.wakeLink = <<>>, !.linkedOnce = FALSE,
                         !.account = "Unlinked"]
<1>1. off \in SupervisorState BY DEF SupervisorState, WakeLinks, AccountState
<1> HIDE DEF off
<1>2. Report(off, "Idle") \in SupervisorState BY <1>1, ReportTyped DEF HelperState
<1> QED BY <1>1, <1>2 DEF GiveUpLink, off

(* answer_without_helper keeps the type of the supervisor.                  *)
LEMMA AnswerTyped ==
  ASSUME NEW s \in SupervisorState, NEW cs
  PROVE  AnswerWithoutHelper(s, cs) \in SupervisorState
<1> DEFINE rejected == RejectSends(s, {q \in Requests : SendText(q) \in cs})
           loading == rejected.loading /\ Load \notin cs
           told == [rejected EXCEPT !.loading = loading]
<1>1. rejected \in SupervisorState BY RejectTyped
<1> HIDE DEF rejected
<1>2. told \in SupervisorState
  <2>1. loading \in BOOLEAN OBVIOUS
  <2> HIDE DEF loading
  <2> QED BY <1>1, <2>1 DEF SupervisorState
<1> HIDE DEF told
<1>3. GiveUpLink(told) \in SupervisorState BY <1>2, GiveUpLinkTyped
<1>4. AnswerWithoutHelper(s, cs) = IF CancelLink \in cs THEN GiveUpLink(told) ELSE told
  BY DEF AnswerWithoutHelper, told, rejected
<1> QED BY <1>2, <1>3, <1>4

(* stop_for keeps the type of the supervisor.                               *)
LEMMA StopForTyped ==
  ASSUME NEW s \in SupervisorState
  PROVE  StopFor(s) \in SupervisorState
<1> DEFINE dropped == DropLink(s)
           replay == IF s.linkedOnce THEN dropped.replayLink ELSE NoGen
           off == [dropped EXCEPT
                     !.restartArmed = FALSE, !.wakeLink = <<>>,
                     !.replayLink = replay, !.account = "Unlinked"]
<1>1. dropped \in SupervisorState BY DropLinkTyped
<1> HIDE DEF dropped
<1>2. replay \in Generations \cup {NoGen} BY <1>1 DEF SupervisorState
<1> HIDE DEF replay
<1>3. off \in SupervisorState BY <1>1, <1>2 DEF SupervisorState, WakeLinks, AccountState
<1> HIDE DEF off
<1>4. RejectOpenSends(off) \in SupervisorState BY <1>3, RejectTyped DEF RejectOpenSends
<1>5. StopFor(s) = Report(RejectOpenSends(off), "Stopped")
  BY DEF StopFor, off, dropped, replay
<1> QED BY <1>4, <1>5, ReportTyped DEF HelperState

(* The words of the user about a pairing that wait in a queue.              *)
LEMMA WordsOf ==
  ASSUME NEW unsent \in Seq(Command)
  PROVE  LET words == Those(Pairings \cup {CancelLink}, unsent) IN
         /\ words \in Seq(Pairings \cup {CancelLink})
         /\ words # <<>> => words[Len(words)] \in Pairings \cup {CancelLink}
         /\ words # <<>> /\ IsBegin(words[Len(words)]) => words[Len(words)] \in Pairings
<1> DEFINE words == Those(Pairings \cup {CancelLink}, unsent)
<1>1. words \in Seq(Command \cap (Pairings \cup {CancelLink})) BY ThoseFacts
<1> HIDE DEF words
<1>2. words \in Seq(Pairings \cup {CancelLink}) BY <1>1
<1>3. ~IsBegin(CancelLink) BY DEF IsBegin, CancelLink
<1>4. words # <<>> => words[Len(words)] \in Pairings \cup {CancelLink} BY <1>2
<1> QED BY <1>2, <1>3, <1>4 DEF words

(* A word that stays is a pairing start: WakeLinks holds no cancel.         *)
LEMMA EndUnsentTyped ==
  ASSUME NEW s \in SupervisorState, NEW unsent \in Seq(Command)
  PROVE  EndUnsent(s, unsent) \in SupervisorState
<1> DEFINE told == AnswerWithoutHelper(s, Range(unsent))
           words == Those(Pairings \cup {CancelLink}, unsent)
           word == words[Len(words)]
<1>1. told \in SupervisorState BY AnswerTyped
<1>2. words # <<>> /\ IsBegin(word) => word \in Pairings BY WordsOf
<1>3. EndUnsent(s, unsent) = IF words # <<>> /\ IsBegin(word)
          THEN [told EXCEPT !.replayLink = NoGen, !.wakeLink = <<word>>]
          ELSE told
  BY DEF EndUnsent
<1> HIDE DEF told, word
<1>4. word \in Pairings => <<word>> \in WakeLinks BY DEF WakeLinks
<1>5. NoGen \in Generations \cup {NoGen} OBVIOUS
<1> QED BY ZenonT(60), <1>1, <1>2, <1>3, <1>4, <1>5 DEF SupervisorState

(* helper_ended keeps the type of the supervisor.                           *)
LEMMA HelperEndedTyped ==
  ASSUME NEW s \in SupervisorState, NEW stable \in BOOLEAN
  PROVE  HelperEnded(s, stable) \in SupervisorState
<1> DEFINE unsent == IF s.greeted THEN <<>> ELSE s.held
           ended == EndUnsent(DropLink(s), unsent)
           t == RejectOpenSends(ended)
           failures == IF stable THEN 1 ELSE t.failures + 1
           relinks == \/ t.replayLink # NoGen
                      \/ t.wakeLink # <<>>
                      \/ t.linkedOnce /\ t.acknowledged
           account == IF t.account = "Unlinked" \/ ~relinks
                        THEN "Unlinked" ELSE "Linking"
           once == t.linkedOnce /\ t.account = "Unlinked"
           idle == [t EXCEPT !.failures = 0, !.account = "Unlinked",
                             !.linkedOnce = once]
           last == [t EXCEPT !.failures = failures]
           again == [t EXCEPT !.failures = failures, !.account = account,
                              !.restartArmed = TRUE]
<1>1. unsent \in Seq(Command) BY DEF SupervisorState
<1>2. ended \in SupervisorState
  <2> HIDE DEF unsent
  <2> QED BY <1>1, DropLinkTyped, EndUnsentTyped
<1>3. t \in SupervisorState
  <2> HIDE DEF ended
  <2> QED BY <1>2, RejectTyped DEF RejectOpenSends
<1>4. HelperEnded(s, stable) =
        IF ReplayIsEmpty(t) /\ t.wakeLink = <<>> THEN Report(idle, "Idle")
        ELSE IF failures >= MaxFailures THEN StopFor(last)
        ELSE Report(again, "Restarting")
  BY DEF HelperEnded
<1> HIDE DEF t
<1>5. failures \in Nat /\ account \in AccountState
  BY <1>3 DEF SupervisorState, AccountState
<1> HIDE DEF failures, account
<1>6. idle \in SupervisorState
  <2>1. once \in BOOLEAN OBVIOUS
  <2> HIDE DEF once
  <2> QED BY <1>3, <2>1 DEF SupervisorState, AccountState
<1>7. last \in SupervisorState BY <1>3, <1>5 DEF SupervisorState
<1>8. again \in SupervisorState BY <1>3, <1>5 DEF SupervisorState
<1> HIDE DEF idle, last, again
<1>9. /\ Report(idle, "Idle") \in SupervisorState
      /\ StopFor(last) \in SupervisorState
      /\ Report(again, "Restarting") \in SupervisorState
  BY <1>6, <1>7, <1>8, ReportTyped, StopForTyped DEF HelperState
<1> QED BY <1>4, <1>9

(* finish_stop keeps the type of the supervisor.                            *)
LEMMA FinishStopTyped ==
  ASSUME NEW s \in SupervisorState
  PROVE  FinishStop(s) \in SupervisorState
<1> DEFINE dropped == DropLink(s)
<1>1. dropped \in SupervisorState BY DropLinkTyped
<1>2. FinishStop(s) = [dropped EXCEPT !.stopArmed = FALSE, !.sends = {}, !.stops = @ + 1]
  BY DEF FinishStop
<1> HIDE DEF dropped
<1>3. dropped.stops + 1 \in Nat BY <1>1 DEF SupervisorState
<1> QED BY ZenonT(60), <1>1, <1>2, <1>3 DEF SupervisorState

(* The pairings are commands; no other command is a begin.                  *)
LEMMA PairingFacts ==
  /\ \A g \in Generations, p \in BOOLEAN : BeginLink(g, p) \in Pairings
  /\ Pairings \subseteq Command
  /\ \A c \in Command : IsBegin(c) <=> c \in Pairings
  /\ \A c \in Command : c.type = "cancel" <=> c = CancelLink
  /\ {AcknowledgeGate, CancelLink, Load} \subseteq Command
  /\ \A q \in Requests : SendText(q) \in Command
<1>1. \A g \in Generations, p \in BOOLEAN : BeginLink(g, p) \in Pairings BY DEF Pairings
<1>2. /\ Pairings \subseteq Command /\ {AcknowledgeGate, CancelLink, Load} \subseteq Command
      /\ \A q \in Requests : SendText(q) \in Command
  BY DEF Command
<1>3. ASSUME NEW c \in Command
      PROVE  /\ IsBegin(c) <=> c \in Pairings
             /\ c.type = "cancel" <=> c = CancelLink
  <2>1. CASE c \in Pairings
    <3>1. c.type = "begin" BY <2>1 DEF Pairings, BeginLink
    <3> QED BY <2>1, <3>1 DEF IsBegin, CancelLink
  <2>2. CASE c \notin Pairings
    <3>1. \/ c = AcknowledgeGate \/ c = CancelLink \/ c = Load
          \/ \E q \in Requests : c = SendText(q)
      BY <2>2 DEF Command
    <3> QED BY <2>2, <3>1 DEF IsBegin, AcknowledgeGate, CancelLink, Load, SendText
  <2> QED BY <2>1, <2>2
<1> QED BY <1>1, <1>2, <1>3

(* The commands of a start are commands.                                    *)
LEMMA StartCommandsTyped ==
  ASSUME NEW s \in SupervisorState
  PROVE  StartCommands(s) \in Seq(Command)
<1> DEFINE consent == IF s.acknowledged THEN <<AcknowledgeGate>> ELSE <<>>
           replay == IF s.replayLink # NoGen THEN <<BeginLink(s.replayLink, FALSE)>> ELSE <<>>
<1>1. consent \in Seq(Command)
  <2>1. AcknowledgeGate \in Command BY DEF Command
  <2> QED BY <2>1
<1>2. replay \in Seq(Command)
  <2>1. s.replayLink # NoGen => BeginLink(s.replayLink, FALSE) \in Command
    <3>1. s.replayLink # NoGen => s.replayLink \in Generations BY DEF SupervisorState
    <3> QED BY <3>1, PairingFacts
  <2>2. CASE s.replayLink = NoGen BY <2>2
  <2>3. CASE s.replayLink # NoGen
    <3> DEFINE c == BeginLink(s.replayLink, FALSE)
    <3>1. c \in Command /\ replay = <<c>> BY <2>1, <2>3
    <3> HIDE DEF c, replay
    <3> QED BY <3>1
  <2> QED BY <2>2, <2>3
<1>3. s.wakeLink \in Seq(Command)
  <2>1. s.wakeLink \in WakeLinks BY DEF SupervisorState
  <2>2. CASE s.wakeLink = <<>> BY <2>2
  <2>3. CASE s.wakeLink # <<>>
    <3>1. PICK c \in Pairings : s.wakeLink = <<c>> BY <2>1, <2>3 DEF WakeLinks
    <3>2. c \in Command BY PairingFacts
    <3> QED BY <3>1, <3>2
  <2> QED BY <2>2, <2>3
<1>4. StartCommands(s) = (consent \o replay) \o s.wakeLink BY DEF StartCommands
<1> HIDE DEF consent, replay
<1> QED BY <1>1, <1>2, <1>3, <1>4

(* launch keeps the type: the number that it replays is a number of the     *)
(* shell.                                                                   *)
LEMMA LaunchTyped ==
  ASSUME NEW s \in SupervisorState, NEW outcome \in Outcomes, NEW r,
         outcome = "started" => r \in Runs
  PROVE  Launch(s, outcome, r) \in SupervisorState
<1> DEFINE off == [s EXCEPT !.restartArmed = FALSE]
           ready == [off EXCEPT !.startWaits = FALSE]
           waits == [off EXCEPT !.startWaits = TRUE]
           missing == [ready EXCEPT !.wakeLink = <<>>]
           gen == IF s.wakeLink # <<>> THEN s.wakeLink[1].gen ELSE ready.replayLink
           held == StartCommands(s)
           runs == [ready EXCEPT !.alive = @ \cup {r}, !.link = r, !.held = held,
                                 !.replayLink = gen, !.wakeLink = <<>>]
<1>1. off \in SupervisorState BY DEF SupervisorState
<1> HIDE DEF off
<1>2. ready \in SupervisorState /\ waits \in SupervisorState
  BY ZenonT(60), <1>1 DEF SupervisorState
<1>3. held \in Seq(Command) BY StartCommandsTyped
<1>4. Launch(s, outcome, r) =
        CASE HasLink(s) \/ s.stopping -> off
          [] ~HasLink(s) /\ ~s.stopping /\ s.alive # {} -> waits
          [] ~HasLink(s) /\ ~s.stopping /\ s.alive = {} /\ outcome = "missing" ->
               Report(missing, "Missing")
          [] ~HasLink(s) /\ ~s.stopping /\ s.alive = {} /\ outcome = "failed" ->
               StopFor(ready)
          [] ~HasLink(s) /\ ~s.stopping /\ s.alive = {} /\ outcome = "started" ->
               Report(runs, "Busy")
  BY DEF Launch, off
<1> HIDE DEF ready, held
<1>5. gen \in Generations \cup {NoGen}
  BY <1>2 DEF SupervisorState, WakeLinks, Pairings, BeginLink
<1>6. missing \in SupervisorState BY <1>2 DEF SupervisorState, WakeLinks
<1> HIDE DEF gen
<1>7. outcome = "started" => runs \in SupervisorState
  <2>1. outcome = "started" =>
          ready.alive \cup {r} \in SUBSET Runs /\ r \in Runs \cup {NoRun}
    BY <1>2 DEF SupervisorState
  <2> QED BY ZenonT(60), <1>2, <1>3, <1>5, <2>1 DEF SupervisorState, WakeLinks
<1> HIDE DEF waits, missing, runs
<1>8. /\ Report(missing, "Missing") \in SupervisorState
      /\ StopFor(ready) \in SupervisorState
      /\ outcome = "started" => Report(runs, "Busy") \in SupervisorState
  BY <1>2, <1>6, <1>7, ReportTyped, StopForTyped DEF HelperState
<1> QED BY <1>1, <1>2, <1>4, <1>8 DEF Outcomes

(* Replay::note keeps the type of the supervisor.                           *)
LEMMA NoteTyped ==
  ASSUME NEW s \in SupervisorState, NEW c \in Command
  PROVE  Note(s, c) \in SupervisorState
<1>1. c.type = "begin" => c.gen \in Generations
  BY PairingFacts DEF IsBegin, Pairings, BeginLink
<1>2. CASE c.type = "gate" BY <1>2 DEF Note, SupervisorState
<1>3. CASE c.type = "begin" BY <1>1, <1>3 DEF Note, SupervisorState
<1>4. CASE c.type = "cancel" BY <1>4 DEF Note, SupervisorState
<1>5. CASE c.type \notin {"gate", "begin", "cancel"} BY <1>5 DEF Note
<1> QED BY <1>2, <1>3, <1>4, <1>5

(* What goes out and what does not are the commands of the queue.           *)
LEMMA WriteRequestsTyped ==
  ASSUME NEW s \in SupervisorState, NEW cs \in Seq(Command)
  PROVE  WriteRequests(s, cs) \in SupervisorState
<1> DEFINE fit == Those(Fitting, cs)
           unfit == Those(Command \ Fitting, cs)
           t == [s EXCEPT !.written = fit, !.unacked = @ + Len(fit)]
           u == AnswerWithoutHelper(t, Range(unfit))
           failed == [u EXCEPT !.replayLink = NoGen, !.wakeLink = <<>>, !.account = "Unlinked"]
<1>1. fit \in Seq(Command)
  <2>1. fit \in Seq(Command \cap Fitting) BY ThoseFacts
  <2> HIDE DEF fit
  <2> QED BY <2>1
<1>2. fit \in Seq(Command \cup {Shutdown}) /\ s.unacked + Len(fit) \in Nat
  <2> HIDE DEF fit
  <2> QED BY <1>1 DEF SupervisorState
<1>3. t \in SupervisorState
  <2> HIDE DEF fit
  <2> QED BY <1>2 DEF SupervisorState
<1>4. u \in SupervisorState
  <2> HIDE DEF t
  <2> QED BY <1>3, AnswerTyped
<1>5. WriteRequests(s, cs) =
        IF \E c \in Range(unfit) : IsBegin(c) THEN failed ELSE u
  BY DEF WriteRequests, FailUnsentPairing
<1>6. failed \in SupervisorState
  <2> HIDE DEF u
  <2> QED BY <1>4 DEF SupervisorState, WakeLinks, AccountState
<1> HIDE DEF u, failed
<1> QED BY <1>4, <1>5, <1>6

(* A request, and the filter of a cancel, leave commands in the queue.      *)
LEMMA RequestTyped ==
  ASSUME NEW s \in SupervisorState, NEW c \in Command
  PROVE  Request(s, c) \in SupervisorState
<1> DEFINE t == OpenSend(s, c)
           kept == IF c.type = "cancel" THEN Those(Command \ Pairings, t.held) ELSE t.held
           held == Append(kept, c)
<1>1. t \in SupervisorState
  <2>1. c.type = "send" => c.req \in Requests
    BY DEF Command, Pairings, AcknowledgeGate, CancelLink, Load, SendText, BeginLink
  <2>2. c.type = "send" => s.sends \cup {c.req} \in SUBSET Requests
    BY <2>1 DEF SupervisorState
  <2>3. CASE c.type = "send"
    <3> DEFINE sends == s.sends \cup {c.req}
    <3>1. t = [s EXCEPT !.sends = sends] BY <2>3 DEF OpenSend
    <3> HIDE DEF sends, t
    <3>2. sends \in SUBSET Requests BY <2>2, <2>3 DEF sends
    <3> QED BY <3>1, <3>2 DEF SupervisorState
  <2> QED BY <2>3 DEF OpenSend
<1> HIDE DEF t
<1>2. kept \in Seq(Command)
  <2>1. t.held \in Seq(Command) BY <1>1 DEF SupervisorState
  <2>2. Those(Command \ Pairings, t.held) \in Seq(Command \cap (Command \ Pairings))
    BY <2>1, ThoseFacts
  <2> DEFINE those == Those(Command \ Pairings, t.held)
  <2>3. those \in Seq(Command)
    <3> HIDE DEF those
    <3> QED BY <2>2 DEF those
  <2> QED BY <2>1, <2>3
<1>3. held \in Seq(Command)
  <2> HIDE DEF kept
  <2> QED BY <1>2
<1>4. [t EXCEPT !.held = held] \in SupervisorState
  <2> HIDE DEF held
  <2> QED BY <1>1, <1>3 DEF SupervisorState
<1>5. WriteRequests(t, <<c>>) \in SupervisorState
  <2>1. <<c>> \in Seq(Command) OBVIOUS
  <2> QED BY <1>1, <2>1, WriteRequestsTyped
<1>6. Request(s, c) = IF s.greeted THEN WriteRequests(t, <<c>>) ELSE [t EXCEPT !.held = held]
  BY DEF Request, t
<1> QED BY <1>4, <1>5, <1>6

(* A command of the shell keeps the type of the supervisor.                 *)
LEMMA OnCommandTyped ==
  ASSUME NEW s \in SupervisorState, NEW c \in Command, NEW outcome \in Outcomes, NEW r,
         outcome = "started" => r \in Runs
  PROVE  OnCommand(s, c, outcome, r) \in SupervisorState
<1>1. CASE s.stopping BY <1>1 DEF OnCommand
<1>2. CASE ~s.stopping /\ HasLink(s)
  <2>1. OnCommand(s, c, outcome, r) = Request(Note(s, c), c) BY <1>2 DEF OnCommand
  <2> QED BY <2>1, NoteTyped, RequestTyped
<1>3. CASE ~s.stopping /\ ~HasLink(s) /\ c.type = "gate"
  <2> DEFINE n == Note(s, c)
             t == [n EXCEPT !.failures = 0]
  <2>1. n \in SupervisorState BY NoteTyped
  <2> HIDE DEF n
  <2>2. t \in SupervisorState BY <2>1 DEF SupervisorState
  <2>3. OnCommand(s, c, outcome, r) = Launch(t, outcome, r) BY <1>3 DEF OnCommand, n
  <2> HIDE DEF t
  <2> QED BY <2>2, <2>3, LaunchTyped
<1>4. CASE ~s.stopping /\ ~HasLink(s) /\ c.type = "begin"
  <2> DEFINE t == [s EXCEPT !.replayLink = NoGen, !.wakeLink = <<c>>, !.failures = 0]
  <2>1. <<c>> \in WakeLinks BY <1>4, PairingFacts DEF IsBegin, WakeLinks
  <2>2. t \in SupervisorState BY <2>1 DEF SupervisorState
  <2>3. OnCommand(s, c, outcome, r) = Launch(t, outcome, r) BY <1>4 DEF OnCommand
  <2> HIDE DEF t
  <2> QED BY <2>2, <2>3, LaunchTyped
<1>5. CASE ~s.stopping /\ ~HasLink(s) /\ c.type \notin {"gate", "begin"}
  <2>1. OnCommand(s, c, outcome, r) = AnswerWithoutHelper(Note(s, c), {c})
    BY <1>5 DEF OnCommand
  <2> QED BY <2>1, NoteTyped, AnswerTyped
<1> QED BY <1>1, <1>2, <1>3, <1>4, <1>5

(* The click on Restart keeps the type of the supervisor.                   *)
LEMMA OnRestartTyped ==
  ASSUME NEW s \in SupervisorState, NEW outcome \in Outcomes, NEW r,
         outcome = "started" => r \in Runs
  PROVE  OnRestart(s, outcome, r) \in SupervisorState
<1> DEFINE t == [s EXCEPT !.failures = 0]
<1>1. t \in SupervisorState BY DEF SupervisorState
<1>2. OnRestart(s, outcome, r) = IF s.stopping \/ HasLink(s) THEN s ELSE Launch(t, outcome, r)
  BY DEF OnRestart
<1> HIDE DEF t
<1> QED BY <1>1, <1>2, LaunchTyped

(* The close writes Shutdown, which is no command of the shell.             *)
LEMMA OnShutdownTyped ==
  ASSUME NEW s \in SupervisorState
  PROVE  OnShutdown(s) \in SupervisorState
<1> DEFINE off == [s EXCEPT !.stopping = TRUE, !.restartArmed = FALSE,
                            !.wakeLink = <<>>, !.startWaits = FALSE]
           asks == [off EXCEPT !.written = <<Shutdown>>, !.stopArmed = TRUE]
<1>1. off \in SupervisorState BY DEF SupervisorState, WakeLinks
<1> HIDE DEF off
<1>2. asks \in SupervisorState
  <2>1. <<Shutdown>> \in Seq(Command \cup {Shutdown}) OBVIOUS
  <2> QED BY <1>1, <2>1 DEF SupervisorState
<1>3. FinishStop(off) \in SupervisorState BY <1>1, FinishStopTyped
<1>4. OnShutdown(s) = CASE s.stopping -> s
                        [] ~s.stopping /\ ~HasLink(s) -> FinishStop(off)
                        [] ~s.stopping /\ HasLink(s) -> asks
  BY DEF OnShutdown, off
<1> HIDE DEF asks
<1> QED BY <1>2, <1>3, <1>4

(* Hello keeps the type of the supervisor.                                  *)
LEMMA OnHelloTyped ==
  ASSUME NEW s \in SupervisorState
  PROVE  OnHello(s) \in SupervisorState
<1> DEFINE t == [s EXCEPT !.greeted = TRUE, !.held = <<>>]
<1>1. t \in SupervisorState
  <2>1. <<>> \in Seq(Command) OBVIOUS
  <2> QED BY <2>1 DEF SupervisorState
<1>2. OnHello(s) = WriteRequests(Report(t, "Running"), s.held) BY DEF OnHello
<1> HIDE DEF t
<1>3. Report(t, "Running") \in SupervisorState BY <1>1, ReportTyped DEF HelperState
<1>4. s.held \in Seq(Command) BY DEF SupervisorState
<1> QED BY <1>2, <1>3, <1>4, WriteRequestsTyped

(* The other lines of the helper keep the type of the supervisor.           *)
LEMMA LinesTyped ==
  ASSUME NEW s \in SupervisorState
  PROVE  /\ \A slow \in BOOLEAN : OnAck(s, slow) \in SupervisorState
         /\ \A state \in AccountState : OnAccount(s, state) \in SupervisorState
         /\ \A q \in Requests : OnSendAnswer(s, q) \in SupervisorState
         /\ EndPairing(s) \in SupervisorState
         /\ [s EXCEPT !.loading = FALSE] \in SupervisorState
<1>1. ASSUME NEW slow \in BOOLEAN PROVE OnAck(s, slow) \in SupervisorState
  <2> DEFINE left == IF s.unacked = 0 THEN 0 ELSE s.unacked - 1
             t == [s EXCEPT !.unacked = left]
  <2>1. left \in Nat BY DEF SupervisorState
  <2>2. t \in SupervisorState
    <3> HIDE DEF left
    <3> QED BY <2>1 DEF SupervisorState
  <2>3. OnAck(s, slow) = t \/ OnAck(s, slow) = Report(t, "Running") BY DEF OnAck
  <2> HIDE DEF t
  <2> QED BY <2>2, <2>3, ReportTyped DEF HelperState
<1>2. EndPairing(s) \in SupervisorState BY DEF EndPairing, SupervisorState
<1>3. ASSUME NEW state \in AccountState PROVE OnAccount(s, state) \in SupervisorState
  <2> DEFINE t == [s EXCEPT !.account = state]
  <2>1. t \in SupervisorState BY DEF SupervisorState
  <2>2. /\ OnAccount(s, "Linked") = [[s EXCEPT !.account = "Linked"] EXCEPT !.linkedOnce = TRUE]
        /\ OnAccount(s, "Unlinked") = EndPairing([s EXCEPT !.account = "Unlinked"])
        /\ OnAccount(s, "Linking") = [s EXCEPT !.account = "Linking"]
    BY DEF OnAccount
  <2>3. EndPairing(t) \in SupervisorState /\ [t EXCEPT !.linkedOnce = TRUE] \in SupervisorState
    <3> HIDE DEF t
    <3> QED BY ZenonT(60), <2>1 DEF EndPairing, SupervisorState
  <2> QED BY <2>1, <2>2, <2>3 DEF AccountState
<1>4. ASSUME NEW q \in Requests PROVE OnSendAnswer(s, q) \in SupervisorState
  <2> DEFINE sends == s.sends \ {q}
             answers == [s.answers EXCEPT ![q] = @ + 1]
  <2>1. sends \in SUBSET Requests /\ answers \in [Requests -> Nat]
    BY DEF SupervisorState
  <2>2. OnSendAnswer(s, q) = [s EXCEPT !.sends = sends, !.answers = answers]
    BY DEF OnSendAnswer
  <2> HIDE DEF sends, answers
  <2> QED BY ZenonT(60), <2>1, <2>2 DEF SupervisorState
<1>5. [s EXCEPT !.loading = FALSE] \in SupervisorState BY DEF SupervisorState
<1> QED BY <1>1, <1>2, <1>3, <1>4, <1>5

(* The exit of a process keeps the type of the supervisor.                  *)
LEMMA OnExitedTyped ==
  ASSUME NEW s \in SupervisorState, NEW r \in Runs, NEW outcome \in Outcomes, NEW new,
         outcome = "started" => new \in Runs
  PROVE  OnExited(s, r, outcome, new) \in SupervisorState
<1> DEFINE draining == s.draining \/ s.link = r
           alive == s.alive \ {r}
           t == [s EXCEPT !.alive = alive, !.draining = draining]
<1>1. draining \in BOOLEAN /\ alive \in SUBSET Runs BY DEF SupervisorState
<1>2. OnExited(s, r, outcome, new) =
        IF t.startWaits /\ t.alive = {} THEN Launch(t, outcome, new) ELSE t
  BY DEF OnExited
<1> HIDE DEF draining, alive
<1>3. t \in SupervisorState BY <1>1 DEF SupervisorState
<1> HIDE DEF t
<1> QED BY <1>2, <1>3, LaunchTyped

(* The end of the helper, in a close or not.                                *)
LEMMA OnHelperGoneTyped ==
  ASSUME NEW s \in SupervisorState, NEW stable \in BOOLEAN
  PROVE  OnHelperGone(s, stable) \in SupervisorState
BY FinishStopTyped, HelperEndedTyped DEF OnHelperGone

-----------------------------------------------------------------------------
(* The pairing starts of the user in the supervisor: in the queue of a      *)
(* helper that did not say Hello (held), in the pipe (written), as the      *)
(* start that waits for a helper (wakeLink), and in the replay, whose       *)
(* pairing start has no phone.                                              *)

(* The pairing starts that wait in the supervisor, those that this step     *)
(* wrote to a helper, and the numbers that a helper may still be told of.   *)
Queue(s) == Pairings \cap (Range(s.held) \cup Range(s.wakeLink))
Out(s) == Pairings \cap Range(s.written)
GensOf(cs) == {c.gen : c \in cs}
Told(s) == GensOf(Queue(s) \cup Out(s)) \cup ({s.replayLink} \ {NoGen})

Words == Pairings \cup {CancelLink}

(* A pairing start with a phone is in a queue once.                         *)
Once(queue) ==
    \A i, j \in DOMAIN queue :
      queue[i] = queue[j] /\ queue[i] \in Pairings /\ queue[i].phone => i = j

(* Nothing that the user said of a pairing comes after c.                   *)
IsLastWord(c, queue) ==
    \A i, j \in DOMAIN queue : queue[i] = c /\ i < j => queue[j] \notin Words

(* Only one of the three places holds pairing starts: the queue of a helper *)
(* that did not say Hello, the pipe, or the start that waits for a helper.  *)
QueueInv(s) ==
    /\ s \in SupervisorState
    /\ ~HasLink(s) => s.held = <<>> /\ ~s.greeted
    /\ HasLink(s) => s.wakeLink = <<>>
    /\ s.greeted => s.held = <<>>
    /\ Out(s) # {} => s.greeted
    /\ Once(s.held) /\ Once(s.written)

(* From s to t no pairing start appears but those of N, and no phone in it. *)
Moves(s, t, N) ==
    /\ \A c \in Queue(t) \cup Out(t) : c.phone => c \in Queue(s) \cup N
    /\ Told(t) \subseteq Told(s) \cup GensOf(N)
    /\ s.stopping => t.stopping

(* From s to t a pairing start that is the last word of the user and fits   *)
(* in a line stays or goes out, unless the helpers are stopped.             *)
Keeps(s, t) ==
    \A c \in Queue(s) :
      c.phone /\ IsLastWord(c, s.held) =>
        /\ c \in Queue(t) => IsLastWord(c, t.held)
        /\ \/ c \in Queue(t) \cup Out(t) \/ ~Fits(c)
           \/ t.reported \in {"Stopped", "Missing"} \/ t.stopping

SameQueue(s, t) ==
    /\ t.link = s.link /\ t.greeted = s.greeted /\ t.held = s.held
    /\ t.wakeLink = s.wakeLink /\ t.replayLink = s.replayLink
    /\ t.written = s.written /\ t.stopping = s.stopping

(* A step that leaves the pairing starts alone.                             *)
LEMMA SameQueueFacts ==
  ASSUME NEW s, NEW t, QueueInv(s), s.written = <<>>, t \in SupervisorState,
         SameQueue(s, t)
  PROVE  QueueInv(t) /\ Moves(s, t, {}) /\ Keeps(s, t)
<1>1. Queue(t) = Queue(s) /\ Out(t) = Out(s) /\ Told(t) = Told(s)
  BY DEF SameQueue, Queue, Out, Told
<1>2. QueueInv(t) BY <1>1 DEF QueueInv, SameQueue, HasLink
<1>3. Out(t) = {} BY <1>1 DEF Out, Range
<1>4. Moves(s, t, {}) BY <1>1, <1>3 DEF Moves, SameQueue
<1>5. Keeps(s, t) BY <1>1 DEF Keeps, SameQueue
<1> QED BY <1>2, <1>4, <1>5

(* report leaves the pairing starts alone.                                  *)
LEMMA ReportQueue ==
  ASSUME NEW s \in SupervisorState, NEW state
  PROVE  LET t == Report(s, state) IN SameQueue(s, t) /\ t.reported = state
BY DEF Report, SameQueue

(* A rejection of sends leaves the pairing starts alone.                    *)
LEMMA RejectQueue ==
  ASSUME NEW s \in SupervisorState, NEW qs
  PROVE  LET t == RejectSends(s, qs) IN SameQueue(s, t) /\ t.reported = s.reported
BY DEF RejectSends, SameQueue

(* An answer without a helper touches the start that waits only for a       *)
(* cancel.                                                                  *)
LEMMA AnswerQueue ==
  ASSUME NEW s \in SupervisorState, NEW cs
  PROVE  LET t == AnswerWithoutHelper(s, cs) IN
         /\ t.link = s.link /\ t.greeted = s.greeted /\ t.held = s.held
         /\ t.replayLink = s.replayLink /\ t.written = s.written
         /\ t.stopping = s.stopping
         /\ t.wakeLink = IF CancelLink \in cs THEN <<>> ELSE s.wakeLink
<1> DEFINE rejected == RejectSends(s, {q \in Requests : SendText(q) \in cs})
           loading == rejected.loading /\ Load \notin cs
           told == [rejected EXCEPT !.loading = loading]
           off == [told EXCEPT !.restartArmed = FALSE, !.startWaits = FALSE,
                               !.wakeLink = <<>>, !.linkedOnce = FALSE,
                               !.account = "Unlinked"]
<1>1. rejected \in SupervisorState /\ SameQueue(s, rejected) BY RejectTyped, RejectQueue
<1> HIDE DEF rejected
<1>2. told \in SupervisorState /\ SameQueue(s, told)
  <2>1. loading \in BOOLEAN OBVIOUS
  <2> HIDE DEF loading
  <2> QED BY <1>1, <2>1 DEF SupervisorState, SameQueue
<1>3. AnswerWithoutHelper(s, cs) = IF CancelLink \in cs THEN GiveUpLink(told) ELSE told
  BY DEF AnswerWithoutHelper, rejected
<1> HIDE DEF told
<1>4. /\ off \in SupervisorState
      /\ off.link = s.link /\ off.greeted = s.greeted /\ off.held = s.held
      /\ off.replayLink = s.replayLink /\ off.written = s.written
      /\ off.stopping = s.stopping /\ off.wakeLink = <<>>
  BY ZenonT(60), <1>2 DEF SupervisorState, SameQueue, WakeLinks, AccountState
<1> HIDE DEF off
<1>5. SameQueue(off, Report(off, "Idle")) BY <1>4, ReportQueue
<1>6. GiveUpLink(told) = off \/ GiveUpLink(told) = Report(off, "Idle")
  BY DEF GiveUpLink, off
<1> QED BY <1>2, <1>3, <1>4, <1>5, <1>6 DEF SameQueue

(* The queue of the link goes with the link; what waits for a helper stays. *)
LEMMA DropLinkQueue ==
  ASSUME NEW s \in SupervisorState
  PROVE  LET t == DropLink(s) IN
         /\ t.link = NoRun /\ ~t.greeted /\ t.held = <<>>
         /\ t.wakeLink = s.wakeLink /\ t.replayLink = s.replayLink
         /\ t.written = s.written /\ t.stopping = s.stopping
BY DEF DropLink

(* A stop for good drops every pairing start but the replay.                *)
LEMMA StopForQueue ==
  ASSUME NEW s \in SupervisorState
  PROVE  LET t == StopFor(s) IN
         /\ t.link = NoRun /\ ~t.greeted /\ t.held = <<>> /\ t.wakeLink = <<>>
         /\ t.replayLink \in {s.replayLink, NoGen}
         /\ t.written = s.written /\ t.stopping = s.stopping
         /\ t.reported = "Stopped"
<1> DEFINE dropped == DropLink(s)
           replay == IF s.linkedOnce THEN dropped.replayLink ELSE NoGen
           off == [dropped EXCEPT
                     !.restartArmed = FALSE, !.wakeLink = <<>>,
                     !.replayLink = replay, !.account = "Unlinked"]
<1>1. /\ dropped \in SupervisorState
      /\ dropped.link = NoRun /\ ~dropped.greeted /\ dropped.held = <<>>
      /\ dropped.replayLink = s.replayLink
      /\ dropped.written = s.written /\ dropped.stopping = s.stopping
  BY DropLinkTyped, DropLinkQueue
<1>2. replay \in Generations \cup {NoGen} /\ replay \in {s.replayLink, NoGen}
  BY <1>1 DEF SupervisorState
<1>3. StopFor(s) = Report(RejectSends(off, off.sends), "Stopped")
  BY DEF StopFor, RejectOpenSends
<1> HIDE DEF dropped, replay
<1>4. /\ off \in SupervisorState
      /\ off.link = NoRun /\ ~off.greeted /\ off.held = <<>> /\ off.wakeLink = <<>>
      /\ off.replayLink = replay
      /\ off.written = s.written /\ off.stopping = s.stopping
  BY ZenonT(60), <1>1, <1>2 DEF SupervisorState, WakeLinks, AccountState
<1> HIDE DEF off
<1> DEFINE r == RejectSends(off, off.sends)
<1>5. r \in SupervisorState /\ SameQueue(off, r) BY <1>4, RejectTyped, RejectQueue
<1> HIDE DEF r
<1>6. SameQueue(r, Report(r, "Stopped")) /\ Report(r, "Stopped").reported = "Stopped"
  BY <1>5, ReportQueue
<1> QED BY <1>2, <1>3, <1>4, <1>5, <1>6 DEF SameQueue, r

(* A link that is dropped, and nothing that waits: the helpers are stopped. *)
LEMMA EmptyQueueFacts ==
  ASSUME NEW s, NEW t, QueueInv(s), t \in SupervisorState,
         t.link = NoRun, ~t.greeted, t.held = <<>>, t.wakeLink = <<>>,
         t.replayLink \in {s.replayLink, NoGen}, t.written = <<>>,
         t.stopping = s.stopping,
         t.reported \in {"Stopped", "Missing"} \/ t.stopping \/ Queue(s) = {}
  PROVE  QueueInv(t) /\ Moves(s, t, {}) /\ Keeps(s, t)
<1>1. Queue(t) = {} /\ Out(t) = {} BY DEF Queue, Out, Range
<1>2. Told(t) \subseteq Told(s) BY <1>1 DEF Told, GensOf
<1>3. Once(t.held) /\ Once(t.written) BY DEF Once
<1> QED BY <1>1, <1>2, <1>3 DEF QueueInv, Moves, Keeps

(* stop_for adds no pairing start, and says Stopped.                        *)
LEMMA StopForMoves ==
  ASSUME NEW s, QueueInv(s), s.written = <<>>
  PROVE  LET t == StopFor(s) IN QueueInv(t) /\ Moves(s, t, {}) /\ Keeps(s, t)
BY StopForQueue, StopForTyped, EmptyQueueFacts DEF QueueInv

(* finish_stop adds no pairing start, and the app closes.                   *)
LEMMA FinishStopMoves ==
  ASSUME NEW s, QueueInv(s), s.written = <<>>, s.stopping
  PROVE  LET t == FinishStop(s) IN QueueInv(t) /\ Moves(s, t, {}) /\ Keeps(s, t)
<1> DEFINE dropped == DropLink(s)
           stops == dropped.stops + 1
           t == [dropped EXCEPT !.stopArmed = FALSE, !.sends = {}, !.stops = stops]
<1>1. /\ dropped \in SupervisorState
      /\ dropped.link = NoRun /\ ~dropped.greeted /\ dropped.held = <<>>
      /\ dropped.wakeLink = s.wakeLink /\ dropped.replayLink = s.replayLink
      /\ dropped.written = s.written /\ dropped.stopping = s.stopping
  BY DropLinkTyped, DropLinkQueue DEF QueueInv
<1>2. FinishStop(s) = t BY DEF FinishStop
<1> HIDE DEF dropped, stops
<1>3. /\ t.link = NoRun /\ ~t.greeted /\ t.held = <<>>
      /\ t.wakeLink = s.wakeLink /\ t.replayLink = s.replayLink
      /\ t.written = <<>> /\ t.stopping
  BY <1>1 DEF SupervisorState
<1>4. t \in SupervisorState BY <1>2, FinishStopTyped DEF QueueInv
<1> HIDE DEF t
<1>5. /\ Out(t) = {} /\ Once(t.held) /\ Once(t.written)
      /\ Queue(t) \subseteq Queue(s)
  BY <1>3 DEF Queue, Out, Range, Once
<1>6. Told(t) \subseteq Told(s) BY <1>3, <1>5 DEF Told, GensOf
<1>7. \A c : IsLastWord(c, t.held) BY <1>3 DEF IsLastWord
<1> QED BY <1>2, <1>3, <1>4, <1>5, <1>6, <1>7 DEF QueueInv, Moves, Keeps, HasLink

(* The last word in a queue is the last of its words.                       *)
LEMMA LastOfWords ==
  ASSUME NEW queue \in Seq(Command), NEW c \in Pairings \cap Range(queue),
         IsLastWord(c, queue)
  PROVE  LET words == Those(Words, queue) IN
         words # <<>> /\ words[Len(words)] = c
<1> DEFINE words == Those(Words, queue)
           L == Len(words)
<1>1. PICK f : /\ Picks(f, words, queue)
               /\ \A j \in 1 .. Len(queue) : queue[j] \in Words =>
                     \E i \in 1 .. L : f[i] = j
  BY ThoseFacts
<1>2. words \in Seq(Command \cap Words) BY ThoseFacts
<1> HIDE DEF words
<1>3. PICK j \in 1 .. Len(queue) : queue[j] = c BY DEF Range
<1>4. c \in Words BY DEF Words
<1>5. PICK i \in 1 .. L : f[i] = j BY <1>1, <1>3, <1>4
<1>6. L \in Nat /\ L \in 1 .. L BY <1>2, <1>5
<1>7. f[L] \in 1 .. Len(queue) /\ words[L] = queue[f[L]] /\ words[L] \in Words
  BY <1>1, <1>2, <1>6 DEF Picks
<1>8. i = L
  <2>1. SUFFICES ASSUME i < L PROVE FALSE BY <1>5, <1>6
  <2>2. j < f[L] BY <1>1, <1>5, <1>6, <2>1 DEF Picks
  <2> QED BY <1>3, <1>7, <2>2 DEF IsLastWord
<1> QED BY <1>3, <1>5, <1>6, <1>7, <1>8 DEF words

(* The end of a helper: the last pairing start that it did not take waits   *)
(* for the next helper, with its phone.                                     *)
LEMMA HelperEndedMoves ==
  ASSUME NEW s, QueueInv(s), s.written = <<>>, HasLink(s), NEW stable \in BOOLEAN
  PROVE  LET t == HelperEnded(s, stable) IN QueueInv(t) /\ Moves(s, t, {}) /\ Keeps(s, t)
<1> DEFINE unsent == IF s.greeted THEN <<>> ELSE s.held
           words == Those(Words, unsent)
           word == words[Len(words)]
           dropped == DropLink(s)
           told == AnswerWithoutHelper(dropped, Range(unsent))
           kept == [told EXCEPT !.replayLink = NoGen, !.wakeLink = <<word>>]
           ended == EndUnsent(dropped, unsent)
           u == RejectSends(ended, ended.sends)
<1>1. /\ s \in SupervisorState /\ s.wakeLink = <<>> /\ unsent = s.held
      /\ s.held \in Seq(Command)
  BY DEF QueueInv, SupervisorState
<1>2. /\ dropped \in SupervisorState
      /\ dropped.link = NoRun /\ ~dropped.greeted /\ dropped.held = <<>>
      /\ dropped.wakeLink = <<>> /\ dropped.replayLink = s.replayLink
      /\ dropped.written = <<>> /\ dropped.stopping = s.stopping
  BY <1>1, DropLinkTyped, DropLinkQueue
<1> HIDE DEF dropped
<1>3. /\ told \in SupervisorState
      /\ told.link = NoRun /\ ~told.greeted /\ told.held = <<>>
      /\ told.wakeLink = <<>> /\ told.replayLink = s.replayLink
      /\ told.written = <<>> /\ told.stopping = s.stopping
  BY <1>2, AnswerTyped, AnswerQueue
<1>4. /\ words \in Seq(Words)
      /\ words # <<>> /\ IsBegin(word) => word \in Pairings
  BY <1>1, WordsOf DEF Words
<1>5. words # <<>> /\ IsBegin(word) => word \in Range(s.held)
  <2>1. \E f : Picks(f, words, unsent)
    <3>1. unsent \in Seq(Command) BY <1>1
    <3> HIDE DEF unsent
    <3>2. \E f : Picks(f, Those(Words, unsent), unsent) BY <3>1, ThoseFacts, Zenon
    <3> QED BY <3>2 DEF words
  <2>3. PICK f : Picks(f, words, unsent) BY <2>1
  <2> HIDE DEF words, unsent
  <2>2. words # <<>> => Len(words) \in 1 .. Len(words) BY <1>4
  <2> QED BY <1>1, <2>3, <2>2 DEF Picks, Range
<1>6. ended = IF words # <<>> /\ IsBegin(word) THEN kept ELSE told
  BY DEF EndUnsent, Words
<1> HIDE DEF unsent, words, word, told
<1>7. ended \in SupervisorState BY <1>1, <1>2, EndUnsentTyped
<1>8. /\ ended.link = NoRun /\ ~ended.greeted /\ ended.held = <<>>
      /\ ended.written = <<>> /\ ended.stopping = s.stopping
      /\ \/ /\ words # <<>> /\ IsBegin(word)
            /\ ended.wakeLink = <<word>> /\ ended.replayLink = NoGen
         \/ /\ ~(words # <<>> /\ IsBegin(word))
            /\ ended.wakeLink = <<>> /\ ended.replayLink = s.replayLink
  BY <1>3, <1>6
<1> HIDE DEF ended
<1>9. u \in SupervisorState /\ SameQueue(ended, u) BY <1>7, RejectTyped, RejectQueue
<1> HIDE DEF u
<1>10. QueueInv(u) /\ Out(u) = {} /\ u.written = <<>>
  <2>1. Out(u) = {} /\ Once(u.held) /\ Once(u.written)
    BY <1>8, <1>9 DEF Out, Range, Once, SameQueue
  <2> QED BY <1>8, <1>9, <2>1 DEF QueueInv, SameQueue, HasLink
<1>11. Queue(u) \subseteq Queue(s)
  <2>1. Queue(u) \subseteq {word} /\ (Queue(u) # {} => words # <<>> /\ IsBegin(word))
    BY <1>8, <1>9 DEF Queue, Range, SameQueue
  <2> QED BY <1>4, <1>5, <2>1 DEF Queue
<1>12. Moves(s, u, {})
  <2>1. Told(u) \subseteq Told(s)
    BY <1>8, <1>9, <1>10, <1>11 DEF Told, GensOf, SameQueue
  <2> QED BY <1>8, <1>9, <1>10, <1>11, <2>1 DEF Moves, SameQueue
<1>13. ASSUME NEW c \in Queue(s), IsLastWord(c, s.held)
       PROVE  u.wakeLink = <<c>>
  <2>1. c \in Pairings \cap Range(s.held) BY <1>1, <1>13 DEF Queue, Range
  <2>2. words # <<>> /\ word = c
    BY <1>1, <1>13, <2>1, LastOfWords DEF words, word
  <2>3. IsBegin(c) BY <2>1, PairingFacts
  <2> QED BY <1>8, <1>9, <2>2, <2>3 DEF SameQueue
<1> DEFINE failures == IF stable THEN 1 ELSE u.failures + 1
           relinks == \/ u.replayLink # NoGen
                      \/ u.wakeLink # <<>>
                      \/ u.linkedOnce /\ u.acknowledged
           account == IF u.account = "Unlinked" \/ ~relinks
                        THEN "Unlinked" ELSE "Linking"
           once == u.linkedOnce /\ u.account = "Unlinked"
           idle == [u EXCEPT !.failures = 0, !.account = "Unlinked", !.linkedOnce = once]
           last == [u EXCEPT !.failures = failures]
           again == [u EXCEPT !.failures = failures, !.account = account,
                              !.restartArmed = TRUE]
           t == HelperEnded(s, stable)
<1>14. \/ t = Report(idle, "Idle") /\ u.wakeLink = <<>>
       \/ t = StopFor(last)
       \/ t = Report(again, "Restarting")
  BY DEF HelperEnded, RejectOpenSends, u, ended, dropped, unsent
<1>15. t \in SupervisorState BY <1>1, HelperEndedTyped
<1>16. failures \in Nat /\ account \in AccountState /\ once \in BOOLEAN
  BY <1>9 DEF SupervisorState, AccountState
<1> HIDE DEF failures, account, once, t, relinks
<1>17. /\ idle \in SupervisorState /\ SameQueue(u, idle)
       /\ last \in SupervisorState /\ SameQueue(u, last)
       /\ again \in SupervisorState /\ SameQueue(u, again)
  <2>1. idle \in SupervisorState /\ SameQueue(u, idle)
    BY <1>9, <1>16 DEF SupervisorState, AccountState, SameQueue
  <2>2. last \in SupervisorState /\ SameQueue(u, last)
    BY <1>9, <1>16 DEF SupervisorState, SameQueue
  <2>3. again \in SupervisorState /\ SameQueue(u, again)
    BY <1>9, <1>16 DEF SupervisorState, SameQueue
  <2> QED BY <2>1, <2>2, <2>3
<1> HIDE DEF idle, last, again
<1>18. CASE t = StopFor(last)
  <2>1. /\ t.link = NoRun /\ ~t.greeted /\ t.held = <<>> /\ t.wakeLink = <<>>
        /\ t.replayLink \in {u.replayLink, NoGen}
        /\ t.written = u.written /\ t.stopping = u.stopping
        /\ t.reported = "Stopped"
    BY <1>17, <1>18, StopForQueue DEF SameQueue
  <2>2. t.replayLink \in {s.replayLink, NoGen} /\ t.written = <<>> /\ t.stopping = s.stopping
    BY <1>8, <1>9, <2>1 DEF SameQueue
  <2> QED BY <1>15, <2>1, <2>2, EmptyQueueFacts DEF t
<1>19. CASE SameQueue(u, t)
  <2>1. QueueInv(t) /\ Moves(u, t, {}) BY <1>10, <1>15, <1>19, SameQueueFacts
  <2>2. Moves(s, t, {}) BY <1>12, <2>1 DEF Moves
  <2>3. Keeps(s, t)
    <3> SUFFICES ASSUME NEW c \in Queue(s), IsLastWord(c, s.held)
                 PROVE  c \in Queue(t) /\ IsLastWord(c, t.held)
      BY DEF Keeps
    <3>1. t.wakeLink = <<c>> /\ t.held = <<>> BY <1>8, <1>9, <1>13, <1>19 DEF SameQueue
    <3>2. c \in Pairings /\ c \in Range(t.wakeLink) BY <3>1 DEF Queue, Range
    <3> QED BY <3>1, <3>2 DEF Queue, IsLastWord
  <2> QED BY <2>1, <2>2, <2>3 DEF t
<1>20. t = Report(idle, "Idle") \/ t = Report(again, "Restarting") => SameQueue(u, t)
  BY <1>17, ReportQueue DEF SameQueue
<1> QED BY <1>14, <1>18, <1>19, <1>20

(* The end of the helper, in a close or not, keeps the last pairing start.  *)
LEMMA OnHelperGoneMoves ==
  ASSUME NEW s, QueueInv(s), s.written = <<>>, HasLink(s), NEW stable \in BOOLEAN
  PROVE  LET t == OnHelperGone(s, stable) IN QueueInv(t) /\ Moves(s, t, {}) /\ Keeps(s, t)
BY HelperEndedMoves, FinishStopMoves DEF OnHelperGone

(* The commands of a start: a pairing start of the replay has no phone, the *)
(* one that woke the helper is the last.                                    *)
LEMMA StartCommandsQueue ==
  ASSUME NEW s \in SupervisorState
  PROVE  LET queue == StartCommands(s) IN
         /\ \A c \in Pairings \cap Range(queue) :
              \/ c \in Range(s.wakeLink)
              \/ ~c.phone /\ c.gen = s.replayLink /\ s.replayLink # NoGen
         /\ \A i, j \in DOMAIN queue : i < j => ~(queue[i] \in Pairings /\ queue[i].phone)
         /\ Range(s.wakeLink) \subseteq Range(queue)
<1> DEFINE consent == IF s.acknowledged THEN <<AcknowledgeGate>> ELSE <<>>
           c0 == BeginLink(s.replayLink, FALSE)
           replay == IF s.replayLink # NoGen THEN <<c0>> ELSE <<>>
           wake == s.wakeLink
           front == consent \o replay
           queue == StartCommands(s)
           Ahead == {AcknowledgeGate} \cup {c \in {c0} : s.replayLink # NoGen}
<1>1. queue = front \o wake BY DEF StartCommands
<1>2. ASSUME NEW c \in Ahead
      PROVE  /\ c \in Pairings => ~c.phone /\ c.gen = s.replayLink /\ s.replayLink # NoGen
  <2>1. CASE c = AcknowledgeGate
    <3>1. ~IsBegin(c) BY <2>1 DEF IsBegin, AcknowledgeGate
    <3> QED BY <3>1, PairingFacts
  <2>2. CASE c = c0 /\ s.replayLink # NoGen BY <2>2 DEF BeginLink
  <2> QED BY <2>1, <2>2
<1>3. front \in Seq(Ahead)
  <2>1. consent \in Seq(Ahead)
    <3> HIDE DEF c0
    <3>1. AcknowledgeGate \in Ahead OBVIOUS
    <3> HIDE DEF Ahead
    <3>2. CASE s.acknowledged BY <3>1, <3>2
    <3>3. CASE ~s.acknowledged BY <3>3
    <3> QED BY <3>2, <3>3
  <2>2. replay \in Seq(Ahead)
    <3> HIDE DEF c0
    <3>1. s.replayLink # NoGen => c0 \in Ahead OBVIOUS
    <3> HIDE DEF Ahead
    <3>2. CASE s.replayLink # NoGen BY <3>1, <3>2
    <3>3. CASE s.replayLink = NoGen BY <3>3
    <3> QED BY <3>2, <3>3
  <2> HIDE DEF Ahead, consent, replay
  <2> QED BY <2>1, <2>2
<1>4. wake = <<>> \/ \E c \in Pairings : wake = <<c>>
  <2>1. wake \in WakeLinks BY DEF SupervisorState
  <2> QED BY <2>1 DEF WakeLinks
<1> HIDE DEF front, wake, Ahead, queue
<1>5. Len(front) \in Nat /\ wake \in Seq(Pairings) /\ Len(wake) \in 0 .. 1
  <2>1. CASE wake = <<>> BY <1>3, <2>1
  <2>2. ASSUME NEW c \in Pairings, wake = <<c>> PROVE wake \in Seq(Pairings) /\ Len(wake) \in 0 .. 1
    BY <2>2
  <2> QED BY <1>3, <1>4, <2>1, <2>2
<1>6. front \in Seq(Ahead \cup Pairings) /\ wake \in Seq(Ahead \cup Pairings)
  BY <1>3, <1>5
<1>7. /\ DOMAIN queue = 1 .. Len(front) + Len(wake)
      /\ \A i \in DOMAIN queue :
           \/ i <= Len(front) /\ queue[i] = front[i] /\ queue[i] \in Ahead
           \/ i = Len(front) + 1 /\ queue[i] = wake[1] /\ Len(wake) = 1
      /\ Len(wake) = 1 => queue[Len(front) + 1] = wake[1]
  BY <1>1, <1>3, <1>5, <1>6
<1>8. Range(wake) \subseteq Range(queue) BY <1>5, <1>7 DEF Range
<1>9. ASSUME NEW c \in Pairings \cap Range(queue)
      PROVE  c \in Range(wake) \/ (~c.phone /\ c.gen = s.replayLink /\ s.replayLink # NoGen)
  <2>1. PICK i \in DOMAIN queue : queue[i] = c BY DEF Range
  <2>2. c \in Ahead \/ (c = wake[1] /\ Len(wake) = 1) BY <1>7, <2>1
  <2>3. Len(wake) = 1 => wake[1] \in Range(wake) BY <1>5 DEF Range
  <2> QED BY <1>2, <2>2, <2>3
<1>10. ASSUME NEW i \in DOMAIN queue, NEW j \in DOMAIN queue, i < j
       PROVE  ~(queue[i] \in Pairings /\ queue[i].phone)
  <2>1. i <= Len(front) BY <1>5, <1>7, <1>10
  <2>2. queue[i] \in Ahead BY <1>5, <1>7, <2>1
  <2> QED BY <1>2, <2>2
<1> QED BY <1>8, <1>9, <1>10 DEF wake, queue

(* Two steps, the first of which writes nothing.                            *)
LEMMA MovesThen ==
  ASSUME NEW s, NEW u, NEW t, NEW N, Moves(s, u, N), Out(u) = {}, Moves(u, t, {})
  PROVE  Moves(s, t, N)
BY DEF Moves, GensOf

(* A step after one that leaves the pairing starts alone.                   *)
LEMMA SameQueueThen ==
  ASSUME NEW s, NEW u, NEW t, NEW N, SameQueue(s, u), Moves(u, t, N), Keeps(u, t)
  PROVE  Moves(s, t, N) /\ Keeps(s, t)
<1>1. Queue(u) = Queue(s) /\ Out(u) = Out(s) /\ Told(u) = Told(s)
  BY DEF SameQueue, Queue, Out, Told
<1> QED BY <1>1 DEF Moves, Keeps, SameQueue

(* A launch: the start that waited goes into the queue of the new helper.   *)
LEMMA LaunchMoves ==
  ASSUME NEW s, QueueInv(s), s.written = <<>>, NEW outcome \in Outcomes, NEW r,
         outcome = "started" => r \in Runs
  PROVE  LET t == Launch(s, outcome, r) IN QueueInv(t) /\ Moves(s, t, {}) /\ Keeps(s, t)
<1> DEFINE off == [s EXCEPT !.restartArmed = FALSE]
           ready == [off EXCEPT !.startWaits = FALSE]
           waits == [off EXCEPT !.startWaits = TRUE]
           missing == [ready EXCEPT !.wakeLink = <<>>]
           gen == IF s.wakeLink # <<>> THEN s.wakeLink[1].gen ELSE ready.replayLink
           held == StartCommands(s)
           runs == [ready EXCEPT !.alive = @ \cup {r}, !.link = r, !.held = held,
                                 !.replayLink = gen, !.wakeLink = <<>>]
           t == Launch(s, outcome, r)
<1>1. s \in SupervisorState BY DEF QueueInv
<1>2. t \in SupervisorState BY <1>1, LaunchTyped
<1>3. /\ off \in SupervisorState /\ SameQueue(s, off)
      /\ ready \in SupervisorState /\ SameQueue(s, ready)
      /\ waits \in SupervisorState /\ SameQueue(s, waits)
      /\ ready.stopping = s.stopping /\ ready.written = <<>>
  BY <1>1 DEF SupervisorState, SameQueue
<1>4. \/ t = off
      \/ t = waits
      \/ ~HasLink(s) /\ t = Report(missing, "Missing")
      \/ t = StopFor(ready)
      \/ /\ ~HasLink(s) /\ outcome = "started" /\ ~s.stopping
         /\ t = Report(runs, "Busy")
  BY DEF Launch, Outcomes
<1>5. CASE t = off \/ t = waits BY <1>3, <1>5, SameQueueFacts DEF t
<1>6. CASE t = StopFor(ready)
  <2>1. QueueInv(ready) BY <1>3, SameQueueFacts
  <2> HIDE DEF ready, t
  <2>2. QueueInv(t) /\ Moves(ready, t, {}) /\ Keeps(ready, t)
    BY <1>3, <1>6, <2>1, StopForMoves
  <2> QED BY <1>3, <2>2, SameQueueThen DEF t
<1>7. CASE ~HasLink(s) /\ t = Report(missing, "Missing")
  <2>1. /\ missing \in SupervisorState
        /\ missing.link = s.link /\ missing.greeted = s.greeted
        /\ missing.held = s.held /\ missing.wakeLink = <<>>
        /\ missing.replayLink = s.replayLink /\ missing.written = <<>>
        /\ missing.stopping = s.stopping
    <3> HIDE DEF ready
    <3> QED BY <1>3 DEF SupervisorState, WakeLinks, SameQueue
  <2> HIDE DEF missing, t
  <2>2. SameQueue(missing, t) /\ t.reported = "Missing" BY <1>7, <2>1, ReportQueue
  <2>3. /\ t.link = NoRun /\ ~t.greeted /\ t.held = <<>> /\ t.wakeLink = <<>>
        /\ t.replayLink = s.replayLink /\ t.written = <<>> /\ t.stopping = s.stopping
    BY <1>7, <2>1, <2>2 DEF SameQueue, QueueInv, HasLink
  <2> QED BY <1>2, <2>2, <2>3, EmptyQueueFacts DEF t
<1>8. CASE /\ ~HasLink(s) /\ outcome = "started" /\ ~s.stopping
           /\ t = Report(runs, "Busy")
  <2> HIDE DEF ready, t
  <2>1. /\ held \in Seq(Command)
        /\ \A c \in Pairings \cap Range(held) :
             \/ c \in Range(s.wakeLink)
             \/ ~c.phone /\ c.gen = s.replayLink /\ s.replayLink # NoGen
        /\ \A i, j \in DOMAIN held : i < j => ~(held[i] \in Pairings /\ held[i].phone)
        /\ Range(s.wakeLink) \subseteq Range(held)
    BY <1>1, StartCommandsTyped, StartCommandsQueue
  <2>2. /\ s.wakeLink \in {<<>>} \cup {<<c>> : c \in Pairings}
        /\ s.wakeLink # <<>> => s.wakeLink[1] \in Pairings \cap Range(s.wakeLink)
    <3>1. s.wakeLink \in WakeLinks BY <1>1 DEF SupervisorState
    <3>2. ASSUME NEW c \in Pairings, s.wakeLink = <<c>>
          PROVE  s.wakeLink[1] \in Pairings \cap Range(s.wakeLink)
      BY <3>2 DEF Range
    <3> QED BY <3>1, <3>2 DEF WakeLinks
  <2>3. /\ gen \in {s.replayLink} \cup {c.gen : c \in Pairings \cap Range(s.wakeLink)}
        /\ gen \in Generations \cup {NoGen}
    <3>1. ready.replayLink = s.replayLink /\ s.replayLink \in Generations \cup {NoGen}
      BY <1>1, <1>3 DEF SameQueue, SupervisorState
    <3>2. \A c \in Pairings : c.gen \in Generations BY DEF Pairings, BeginLink
    <3> QED BY <2>2, <3>1, <3>2
  <2> HIDE DEF held, gen
  <2>4. /\ runs \in SupervisorState
        /\ runs.link = r /\ runs.greeted = s.greeted /\ runs.held = held
        /\ runs.wakeLink = <<>> /\ runs.replayLink = gen
        /\ runs.written = <<>> /\ runs.stopping = s.stopping
    <3>1. ready.alive \cup {r} \in SUBSET Runs /\ r \in Runs \cup {NoRun}
      BY <1>3, <1>8 DEF SupervisorState
    <3> DEFINE alive == ready.alive \cup {r}
    <3>3. runs = [ready EXCEPT !.alive = alive, !.link = r, !.held = held,
                                 !.replayLink = gen, !.wakeLink = <<>>]
      BY <1>3
    <3> HIDE DEF runs, alive
    <3>4. alive \in SUBSET Runs BY <3>1 DEF alive
    <3> QED BY ZenonT(60), <1>3, <2>1, <2>3, <3>1, <3>3, <3>4 DEF SupervisorState, WakeLinks, SameQueue
  <2> HIDE DEF runs
  <2>5. SameQueue(runs, t) BY <1>8, <2>4, ReportQueue
  <2>6. /\ t.link = r /\ r # NoRun /\ ~t.greeted /\ t.held = held /\ t.wakeLink = <<>>
        /\ t.replayLink = gen /\ t.written = <<>> /\ t.stopping = s.stopping
        /\ s.held = <<>>
    BY <1>8, <2>4, <2>5, RunsAssumption DEF SameQueue, QueueInv
  <2>7. /\ Queue(t) = Pairings \cap Range(held) /\ Out(t) = {}
        /\ Queue(s) = Pairings \cap Range(s.wakeLink)
    BY <2>6 DEF Queue, Out, Range
  <2>8. Once(t.held) /\ Once(t.written)
    <3>1. Once(held)
      <4> SUFFICES ASSUME NEW i \in DOMAIN held, NEW j \in DOMAIN held,
                          held[i] = held[j], held[i] \in Pairings, held[i].phone
                   PROVE  i = j
        BY DEF Once
      <4>1. ~(i < j) /\ ~(j < i) BY <2>1
      <4>2. i \in Nat /\ j \in Nat BY <2>1
      <4> QED BY <4>1, <4>2
    <3> QED BY <2>6, <3>1 DEF Once
  <2>9. QueueInv(t) BY <1>2, <2>6, <2>7, <2>8 DEF QueueInv, HasLink
  <2>10. Told(t) \subseteq Told(s) BY <2>1, <2>3, <2>6, <2>7 DEF Told, GensOf
  <2>11. Moves(s, t, {}) BY <2>1, <2>6, <2>7, <2>10 DEF Moves
  <2>12. ASSUME NEW c \in Queue(t), c.phone PROVE IsLastWord(c, t.held)
    BY <2>1, <2>6, <2>7, <2>12 DEF IsLastWord
  <2>13. Queue(s) \subseteq Queue(t) BY <2>1, <2>7
  <2> QED BY <2>9, <2>11, <2>12, <2>13 DEF Keeps, t
<1> QED BY <1>4, <1>5, <1>6, <1>7, <1>8

(* A filter keeps exactly the elements that pass, and adds no second copy.  *)
LEMMA ThoseRange ==
  ASSUME NEW T, NEW queue \in Seq(T), NEW S
  PROVE  LET those == Those(S, queue) IN
         /\ Range(those) = S \cap Range(queue)
         /\ Once(queue) => Once(those)
<1> DEFINE those == Those(S, queue)
           L == Len(those)
<1>1. those \in Seq(T \cap S) BY ThoseFacts
<1>2. PICK f : /\ Picks(f, those, queue)
               /\ \A j \in 1 .. Len(queue) : queue[j] \in S =>
                     \E i \in 1 .. L : f[i] = j
  BY ThoseFacts
<1> HIDE DEF those
<1>3. L \in Nat /\ DOMAIN those = 1 .. L /\ DOMAIN queue = 1 .. Len(queue) BY <1>1
<1>4. \A i \in 1 .. L : those[i] \in S /\ f[i] \in 1 .. Len(queue) /\ those[i] = queue[f[i]]
  BY <1>1, <1>2, <1>3 DEF Picks
<1>5. Range(those) \subseteq S \cap Range(queue) BY <1>3, <1>4 DEF Range
<1>6. ASSUME NEW j \in 1 .. Len(queue), queue[j] \in S PROVE queue[j] \in Range(those)
  <2>1. PICK i \in 1 .. L : f[i] = j BY <1>2, <1>6
  <2> QED BY <1>3, <1>4, <2>1 DEF Range
<1>7. S \cap Range(queue) \subseteq Range(those) BY <1>3, <1>6 DEF Range
<1>8. ASSUME Once(queue) PROVE Once(those)
  <2> SUFFICES ASSUME NEW i \in 1 .. L, NEW j \in 1 .. L,
                      those[i] = those[j], those[i] \in Pairings, those[i].phone
               PROVE  i = j
    BY <1>3 DEF Once
  <2>1. f[i] = f[j] BY <1>3, <1>4, <1>8 DEF Once
  <2>2. ~(i < j) /\ ~(j < i) BY <1>2, <1>4, <2>1 DEF Picks
  <2> QED BY <2>2, <1>3
<1> QED BY <1>5, <1>7, <1>8 DEF those

(* What fits in a line goes out, in its order; a pairing start that does not*)
(* fit ends here.                                                           *)
LEMMA WriteRequestsQueue ==
  ASSUME NEW s \in SupervisorState, NEW cs \in Seq(Command)
  PROVE  LET t == WriteRequests(s, cs) IN
         /\ t.link = s.link /\ t.greeted = s.greeted /\ t.held = s.held
         /\ t.wakeLink \in {s.wakeLink, <<>>} /\ t.replayLink \in {s.replayLink, NoGen}
         /\ t.written = Those(Fitting, cs) /\ t.stopping = s.stopping
<1> DEFINE fit == Those(Fitting, cs)
           unfit == Those(Command \ Fitting, cs)
           t == [s EXCEPT !.written = fit, !.unacked = @ + Len(fit)]
           u == AnswerWithoutHelper(t, Range(unfit))
           failed == [u EXCEPT !.replayLink = NoGen, !.wakeLink = <<>>, !.account = "Unlinked"]
<1>1. fit \in Seq(Command)
  <2>1. fit \in Seq(Command \cap Fitting) BY ThoseFacts
  <2> HIDE DEF fit
  <2> QED BY <2>1
<1>2. fit \in Seq(Command \cup {Shutdown}) /\ s.unacked + Len(fit) \in Nat
  <2> HIDE DEF fit
  <2> QED BY <1>1 DEF SupervisorState
<1> HIDE DEF fit
<1>3. /\ t \in SupervisorState
      /\ t.link = s.link /\ t.greeted = s.greeted /\ t.held = s.held
      /\ t.wakeLink = s.wakeLink /\ t.replayLink = s.replayLink
      /\ t.written = fit /\ t.stopping = s.stopping
  BY <1>2 DEF SupervisorState
<1> HIDE DEF t
<1>4. /\ u \in SupervisorState
      /\ u.link = s.link /\ u.greeted = s.greeted /\ u.held = s.held
      /\ u.wakeLink \in {s.wakeLink, <<>>} /\ u.replayLink = s.replayLink
      /\ u.written = fit /\ u.stopping = s.stopping
  BY <1>3, AnswerTyped, AnswerQueue
<1>5. WriteRequests(s, cs) =
        IF \E c \in Range(unfit) : IsBegin(c) THEN failed ELSE u
  BY DEF WriteRequests, FailUnsentPairing, u, t, fit
<1> HIDE DEF u, unfit
<1>6. /\ failed.link = s.link /\ failed.greeted = s.greeted /\ failed.held = s.held
      /\ failed.wakeLink = <<>> /\ failed.replayLink = NoGen
      /\ failed.written = fit /\ failed.stopping = s.stopping
  BY <1>4
<1> HIDE DEF failed
<1> QED BY <1>4, <1>5, <1>6 DEF fit

(* Replay::note changes only the number of the replay.                      *)
LEMMA NoteQueue ==
  ASSUME NEW s \in SupervisorState, NEW c \in Command
  PROVE  LET t == Note(s, c) IN
         /\ t.link = s.link /\ t.greeted = s.greeted /\ t.held = s.held
         /\ t.wakeLink = s.wakeLink /\ t.written = s.written /\ t.stopping = s.stopping
         /\ t.replayLink = IF IsBegin(c) THEN c.gen
                           ELSE IF c = CancelLink THEN NoGen ELSE s.replayLink
<1>0. c.type = "cancel" <=> c = CancelLink BY PairingFacts
<1>1. CASE c.type = "gate" BY <1>0, <1>1 DEF Note, SupervisorState, IsBegin
<1>2. CASE c.type = "begin" BY <1>0, <1>2 DEF Note, SupervisorState, IsBegin
<1>3. CASE c.type = "cancel" BY <1>0, <1>3 DEF Note, SupervisorState, IsBegin
<1>4. CASE c.type \notin {"gate", "begin", "cancel"} BY <1>0, <1>4 DEF Note, IsBegin
<1> QED BY <1>1, <1>2, <1>3, <1>4

(* A request to the helper of the link.                                     *)
LEMMA RequestQueue ==
  ASSUME NEW s \in SupervisorState, NEW c \in Command
  PROVE  LET t == Request(s, c) IN
         /\ t.link = s.link /\ t.greeted = s.greeted /\ t.stopping = s.stopping
         /\ t.wakeLink \in {s.wakeLink, <<>>} /\ t.replayLink \in {s.replayLink, NoGen}
         /\ IF s.greeted
              THEN t.written = Those(Fitting, <<c>>) /\ t.held = s.held
              ELSE /\ t.written = s.written /\ t.replayLink = s.replayLink
                   /\ t.wakeLink = s.wakeLink
                   /\ t.held = IF c = CancelLink
                                 THEN Append(Those(Command \ Pairings, s.held), c)
                                 ELSE Append(s.held, c)
<1> DEFINE t == OpenSend(s, c)
           kept == IF c.type = "cancel" THEN Those(Command \ Pairings, t.held) ELSE t.held
           held == Append(kept, c)
<1>1. t \in SupervisorState /\ SameQueue(s, t)
  <2>1. c.type = "send" => c.req \in Requests
    BY DEF Command, Pairings, AcknowledgeGate, CancelLink, Load, SendText, BeginLink
  <2>2. CASE c.type = "send"
    <3> DEFINE sends == s.sends \cup {c.req}
    <3>1. t = [s EXCEPT !.sends = sends] BY <2>2 DEF OpenSend
    <3>2. sends \in SUBSET Requests BY <2>1, <2>2 DEF SupervisorState
    <3> HIDE DEF sends, t
    <3> QED BY <3>1, <3>2 DEF SupervisorState, SameQueue
  <2>3. CASE c.type # "send" BY <2>3 DEF OpenSend, SameQueue
  <2> QED BY <2>2, <2>3
<1> HIDE DEF t
<1>2. [t EXCEPT !.held = held].held = held
  <2> HIDE DEF held
  <2> QED BY <1>1
<1>3. <<c>> \in Seq(Command) OBVIOUS
<1>4. Request(s, c) = IF s.greeted THEN WriteRequests(t, <<c>>) ELSE [t EXCEPT !.held = held]
  BY DEF Request, t
<1>5. kept = IF c = CancelLink THEN Those(Command \ Pairings, s.held) ELSE s.held
  BY <1>1, PairingFacts DEF SameQueue
<1> HIDE DEF kept
<1>6. CASE s.greeted
  <2> DEFINE w == WriteRequests(t, <<c>>)
  <2>1. /\ w.link = t.link /\ w.greeted = t.greeted /\ w.held = t.held
        /\ w.wakeLink \in {t.wakeLink, <<>>} /\ w.replayLink \in {t.replayLink, NoGen}
        /\ w.written = Those(Fitting, <<c>>) /\ w.stopping = t.stopping
    BY <1>1, <1>3, WriteRequestsQueue
  <2> HIDE DEF w
  <2>2. Request(s, c) = w BY <1>4, <1>6 DEF w
  <2> QED BY <1>1, <1>6, <2>1, <2>2 DEF SameQueue
<1>7. CASE ~s.greeted
  <2> DEFINE w == [t EXCEPT !.held = held]
  <2>1. /\ w.link = t.link /\ w.greeted = t.greeted /\ w.held = held
        /\ w.wakeLink = t.wakeLink /\ w.replayLink = t.replayLink
        /\ w.written = t.written /\ w.stopping = t.stopping
    <3> HIDE DEF held
    <3> QED BY <1>1
  <2> HIDE DEF w
  <2>2. Request(s, c) = w BY <1>4, <1>7 DEF w
  <2>3. held = IF c = CancelLink
                                 THEN Append(Those(Command \ Pairings, s.held), c)
                                 ELSE Append(s.held, c)
    BY <1>5
  <2> HIDE DEF held
  <2> QED BY <1>1, <1>7, <2>1, <2>2, <2>3 DEF SameQueue
<1> QED BY <1>6, <1>7

(* One more command in the queue of a helper that did not say Hello.        *)
LEMMA AppendQueue ==
  ASSUME NEW queue \in Seq(Command), NEW c \in Command,
         c.type = "begin" /\ c.phone => c \notin Range(queue)
  PROVE  LET longer == Append(queue, c) IN
         /\ Range(longer) = Range(queue) \cup {c}
         /\ Once(queue) => Once(longer)
         /\ c \notin Words =>
              \A d \in Pairings : IsLastWord(d, queue) => IsLastWord(d, longer)
         /\ c.type = "begin" /\ c.phone => IsLastWord(c, longer)
<1> DEFINE longer == Append(queue, c)
           L == Len(queue)
<1>1. /\ L \in Nat /\ DOMAIN queue = 1 .. L /\ DOMAIN longer = 1 .. L + 1
      /\ longer[L + 1] = c /\ \A i \in 1 .. L : longer[i] = queue[i]
  OBVIOUS
<1> HIDE DEF longer
<1>2. Range(longer) = Range(queue) \cup {c}
  <2>1. Range(longer) \subseteq Range(queue) \cup {c} BY <1>1 DEF Range
  <2>2. Range(queue) \cup {c} \subseteq Range(longer) BY <1>1 DEF Range
  <2> QED BY <2>1, <2>2
<1>3. ASSUME Once(queue) PROVE Once(longer)
  <2> SUFFICES ASSUME NEW i \in 1 .. L + 1, NEW j \in 1 .. L + 1,
                      longer[i] = longer[j], longer[i] \in Pairings, longer[i].phone
               PROVE  i = j
    BY <1>1 DEF Once
  <2>1. CASE i # L + 1 /\ j # L + 1 BY <1>1, <1>3, <2>1 DEF Once
  <2>2. CASE (i = L + 1 \/ j = L + 1) /\ i # j
    <3>1. IsBegin(c) /\ c.phone BY <1>1, <2>2, PairingFacts
    <3>2. PICK k \in 1 .. L : queue[k] = c BY <1>1, <2>2
    <3> QED BY <1>1, <3>1, <3>2 DEF Range, IsBegin
  <2> QED BY <2>1, <2>2
<1>4. ASSUME c \notin Words, NEW d \in Pairings, IsLastWord(d, queue)
      PROVE  IsLastWord(d, longer)
  BY <1>1, <1>4 DEF IsLastWord, Words
<1>5. ASSUME c.type = "begin", c.phone PROVE IsLastWord(c, longer)
  BY <1>1, <1>5 DEF IsLastWord, Range
<1> QED BY <1>2, <1>3, <1>4, <1>5 DEF longer

(* The pairing starts that a command of the shell adds.                     *)
Added(c) == IF IsBegin(c) THEN {c} ELSE {}

(* What a command does to the pairing starts.                               *)
CommandMoves(s, t, c) ==
    /\ QueueInv(t)
    /\ Moves(s, t, Added(c))
    /\ c \notin Words => Keeps(s, t)
    /\ c = CancelLink => Told(t) = {} \/ (s.stopping /\ Keeps(s, t))
    /\ IsBegin(c) /\ c.phone /\ c \in Queue(t) => IsLastWord(c, t.held)

(* A command to the helper of the link: it goes out or into the queue, a    *)
(* pairing start becomes the last word, and a cancel leaves none.           *)
LEMMA RequestMoves ==
  ASSUME NEW s, QueueInv(s), s.written = <<>>, HasLink(s), NEW c \in Command,
         IsBegin(c) /\ c.phone => c \notin Queue(s)
  PROVE  CommandMoves(s, Request(Note(s, c), c), c)
<1> DEFINE n == Note(s, c)
           t == Request(n, c)
<1> SUFFICES CommandMoves(s, t, c)
  OBVIOUS
<1>1. /\ s \in SupervisorState /\ s.wakeLink = <<>> /\ s.held \in Seq(Command)
      /\ s.link # NoRun
  BY DEF QueueInv, SupervisorState, HasLink
<1>2. /\ n \in SupervisorState
      /\ n.link = s.link /\ n.greeted = s.greeted /\ n.held = s.held
      /\ n.wakeLink = <<>> /\ n.written = <<>> /\ n.stopping = s.stopping
      /\ n.replayLink = IF IsBegin(c) THEN c.gen
                           ELSE IF c = CancelLink THEN NoGen ELSE s.replayLink
  BY <1>1, NoteTyped, NoteQueue
<1> HIDE DEF n
<1>3. /\ t \in SupervisorState
      /\ t.link = s.link /\ t.greeted = s.greeted /\ t.stopping = s.stopping
      /\ t.wakeLink = <<>> /\ t.replayLink \in {n.replayLink, NoGen}
      /\ IF s.greeted
           THEN t.written = Those(Fitting, <<c>>) /\ t.held = s.held
           ELSE /\ t.written = <<>>
                /\ t.held = IF c = CancelLink
                              THEN Append(Those(Command \ Pairings, s.held), c)
                              ELSE Append(s.held, c)
  <2>1. /\ t \in SupervisorState
        /\ t.link = n.link /\ t.greeted = n.greeted /\ t.stopping = n.stopping
        /\ t.wakeLink \in {n.wakeLink, <<>>} /\ t.replayLink \in {n.replayLink, NoGen}
        /\ IF n.greeted
             THEN t.written = Those(Fitting, <<c>>) /\ t.held = n.held
             ELSE /\ t.written = n.written
                  /\ t.held = IF c = CancelLink
                                THEN Append(Those(Command \ Pairings, n.held), c)
                                ELSE Append(n.held, c)
    BY <1>2, RequestTyped, RequestQueue
  <2> HIDE DEF t
  <2> QED BY <1>2, <2>1
<1> HIDE DEF t
<1>4. /\ IsBegin(c) <=> c \in Pairings
      /\ c = CancelLink => ~IsBegin(c)
      /\ c \in Words <=> IsBegin(c) \/ c = CancelLink
  BY PairingFacts DEF Words, IsBegin
<1>5. Range(<<>>) = {} /\ Once(<<>>) /\ \A d : IsLastWord(d, <<>>)
  BY DEF Range, Once, IsLastWord
<1>6. Queue(s) = Pairings \cap Range(s.held) BY <1>1, <1>5 DEF Queue
<1>7. {t.replayLink} \ {NoGen} \subseteq
        IF IsBegin(c) THEN {c.gen} ELSE IF c = CancelLink THEN {} ELSE {s.replayLink} \ {NoGen}
  BY <1>2, <1>3
<1>8. CASE s.greeted
  <2>1. t.held = <<>> /\ Queue(s) = {} BY <1>3, <1>5, <1>6, <1>8 DEF QueueInv
  <2>2. <<c>> \in Seq(Command) /\ Range(<<c>>) = {c} /\ Once(<<c>>) BY DEF Range, Once
  <2>3. Range(t.written) \subseteq {c} /\ Once(t.written)
    <3>1. Range(Those(Fitting, <<c>>)) = Fitting \cap {c} /\ Once(Those(Fitting, <<c>>))
      BY <2>2, ThoseRange
    <3> QED BY <1>3, <1>8, <3>1
  <2>4. Queue(t) = {} /\ Out(t) \subseteq Added(c)
    BY <1>3, <1>4, <1>5, <2>1, <2>3 DEF Queue, Out, Added
  <2>5. QueueInv(t) BY <1>1, <1>3, <1>5, <1>8, <2>1, <2>3 DEF QueueInv, HasLink
  <2>6. Told(t) \subseteq Told(s) \cup GensOf(Added(c))
    BY <1>7, <2>4 DEF Told, GensOf, Added
  <2>7. c = CancelLink => Told(t) = {} BY <1>4, <1>7, <2>4 DEF Told, GensOf, Added
  <2>8. Moves(s, t, Added(c)) BY <1>3, <2>4, <2>6 DEF Moves
  <2> QED BY <2>1, <2>4, <2>5, <2>7, <2>8 DEF CommandMoves, Keeps
<1>9. CASE ~s.greeted /\ c = CancelLink
  <2> DEFINE those == Those(Command \ Pairings, s.held)
  <2>1. /\ those \in Seq(Command \cap (Command \ Pairings))
        /\ Range(those) \cap Pairings = {}
        /\ Once(those)
    <3>1. Once(s.held) BY DEF QueueInv
    <3>2. Range(those) = (Command \ Pairings) \cap Range(s.held) /\ Once(those)
      BY <1>1, <3>1, ThoseRange
    <3>3. those \in Seq(Command \cap (Command \ Pairings)) BY <1>1, ThoseFacts
    <3> QED BY <3>2, <3>3
  <2> HIDE DEF those
  <2>2. those \in Seq(Command) BY <2>1
  <2>3. c.type # "begin" BY <1>9 DEF CancelLink
  <2>4. /\ t.held = Append(those, c)
        /\ Range(t.held) \cap Pairings = {} /\ Once(t.held)
    <3>1. t.held = Append(those, c) BY <1>3, <1>9 DEF those
    <3>2. c \notin Pairings BY <1>4, <2>3 DEF IsBegin
    <3> QED BY <2>1, <2>2, <2>3, <3>1, <3>2, AppendQueue
  <2>5. Queue(t) = {} /\ Out(t) = {} /\ Once(t.written)
    BY <1>3, <1>5, <1>9, <2>4 DEF Queue, Out
  <2>6. QueueInv(t) BY <1>1, <1>3, <1>9, <2>4, <2>5 DEF QueueInv, HasLink
  <2>7. Told(t) = {} BY <1>4, <1>7, <1>9, <2>5 DEF Told, GensOf
  <2> QED BY <1>3, <1>4, <1>9, <2>5, <2>6, <2>7 DEF CommandMoves, Moves
<1>10. CASE ~s.greeted /\ c # CancelLink
  <2>1. c.type = "begin" /\ c.phone => c \notin Range(s.held) BY <1>4, <1>6 DEF IsBegin
  <2>2. /\ Range(t.held) = Range(s.held) \cup {c} /\ Once(t.held)
        /\ c \notin Words =>
             \A d \in Pairings : IsLastWord(d, s.held) => IsLastWord(d, t.held)
        /\ c.type = "begin" /\ c.phone => IsLastWord(c, t.held)
    BY <1>1, <1>3, <1>10, <2>1, AppendQueue DEF QueueInv
  <2>3. /\ Queue(t) = Queue(s) \cup Added(c) /\ Out(t) = {} /\ Once(t.written)
    BY <1>3, <1>4, <1>5, <1>6, <1>10, <2>2 DEF Queue, Out, Added
  <2>4. QueueInv(t) BY <1>1, <1>3, <1>10, <2>2, <2>3 DEF QueueInv, HasLink
  <2>5. Told(t) \subseteq Told(s) \cup GensOf(Added(c))
    BY <1>7, <1>10, <2>3 DEF Told, GensOf, Added
  <2>6. Moves(s, t, Added(c)) BY <1>3, <2>3, <2>5 DEF Moves
  <2>7. c \notin Words => Keeps(s, t) BY <2>2, <2>3 DEF Keeps, Queue
  <2> QED BY <1>10, <2>2, <2>4, <2>6, <2>7 DEF CommandMoves, IsBegin
<1> QED BY <1>8, <1>9, <1>10

(* A command of the shell, with a helper or without one.                    *)
LEMMA OnCommandMoves ==
  ASSUME NEW s, QueueInv(s), s.written = <<>>, NEW c \in Command,
         IsBegin(c) /\ c.phone => c \notin Queue(s),
         NEW outcome \in Outcomes, NEW r, outcome = "started" => r \in Runs
  PROVE  CommandMoves(s, OnCommand(s, c, outcome, r), c)
<1> DEFINE t == OnCommand(s, c, outcome, r)
<1>0. /\ s \in SupervisorState
      /\ IsBegin(c) <=> c \in Pairings
      /\ c.type = "begin" <=> IsBegin(c)
      /\ c.type = "cancel" <=> c = CancelLink
      /\ c \in Words <=> IsBegin(c) \/ c = CancelLink
  BY PairingFacts DEF QueueInv, Words, IsBegin
<1>1. CASE s.stopping
  <2>1. t = s BY <1>1 DEF OnCommand
  <2>2. SameQueue(s, s) BY DEF SameQueue
  <2>3. Moves(s, s, {}) /\ Keeps(s, s) BY <1>0, <2>2, SameQueueFacts
  <2> QED BY <1>0, <1>1, <2>1, <2>3 DEF CommandMoves, Moves
<1>2. CASE ~s.stopping /\ HasLink(s)
  <2>1. t = Request(Note(s, c), c) BY <1>2 DEF OnCommand
  <2> QED BY <1>2, <2>1, RequestMoves
<1>3. CASE ~s.stopping /\ ~HasLink(s) /\ c.type = "gate"
  <2> DEFINE n == Note(s, c)
             u == [n EXCEPT !.failures = 0]
  <2>0. ~IsBegin(c) /\ c # CancelLink BY <1>0, <1>3
  <2>1. n \in SupervisorState /\ SameQueue(s, n)
    BY <1>0, <2>0, NoteTyped, NoteQueue DEF SameQueue
  <2> HIDE DEF n
  <2>2. u \in SupervisorState /\ SameQueue(s, u) BY <2>1 DEF SupervisorState, SameQueue
  <2>3. t = Launch(u, outcome, r) BY <1>3 DEF OnCommand, n
  <2> HIDE DEF u, t
  <2>4. QueueInv(u) /\ u.written = <<>> BY <2>2, SameQueueFacts DEF SameQueue
  <2>5. QueueInv(t) /\ Moves(u, t, {}) /\ Keeps(u, t) BY <2>3, <2>4, LaunchMoves
  <2>6. Moves(s, t, {}) /\ Keeps(s, t) BY <2>2, <2>5, SameQueueThen
  <2> QED BY <2>0, <2>5, <2>6 DEF CommandMoves, Added, t
<1>4. CASE ~s.stopping /\ ~HasLink(s) /\ c.type = "begin"
  <2> DEFINE u == [s EXCEPT !.replayLink = NoGen, !.wakeLink = <<c>>, !.failures = 0]
  <2>1. <<c>> \in WakeLinks BY <1>0, <1>4 DEF WakeLinks
  <2>2. /\ u \in SupervisorState
        /\ u.link = s.link /\ u.greeted = s.greeted /\ u.held = s.held
        /\ u.written = <<>> /\ u.stopping = s.stopping
        /\ u.replayLink = NoGen /\ u.wakeLink = <<c>>
    BY <1>0, <2>1 DEF SupervisorState
  <2>3. t = Launch(u, outcome, r) BY <1>4 DEF OnCommand
  <2> HIDE DEF u, t
  <2>4. u.held = <<>> /\ u.link = NoRun /\ ~u.greeted
    BY <1>4, <2>2 DEF QueueInv, HasLink
  <2>5. Queue(u) = {c} /\ Out(u) = {} /\ Once(u.held) /\ Once(u.written)
    BY <1>0, <1>4, <2>2, <2>4 DEF Queue, Out, Range, Once
  <2>6. QueueInv(u) BY <2>2, <2>4, <2>5 DEF QueueInv, HasLink
  <2>7. Moves(s, u, {c}) BY <2>2, <2>5 DEF Moves, Told
  <2>8. QueueInv(t) /\ Moves(u, t, {}) /\ Keeps(u, t) BY <2>2, <2>3, <2>6, LaunchMoves
  <2>9. Moves(s, t, {c}) BY <2>5, <2>7, <2>8, MovesThen
  <2>10. IsLastWord(c, u.held) BY <2>4 DEF IsLastWord
  <2> QED BY <1>0, <1>4, <2>5, <2>8, <2>9, <2>10 DEF CommandMoves, Added, Keeps, t
<1>5. CASE ~s.stopping /\ ~HasLink(s) /\ c.type \notin {"gate", "begin"}
  <2> DEFINE n == Note(s, c)
  <2>1. /\ n \in SupervisorState
        /\ n.link = s.link /\ n.greeted = s.greeted /\ n.held = s.held
        /\ n.wakeLink = s.wakeLink /\ n.written = <<>> /\ n.stopping = s.stopping
        /\ n.replayLink = IF c = CancelLink THEN NoGen ELSE s.replayLink
    BY <1>0, <1>5, NoteTyped, NoteQueue
  <2>2. t = AnswerWithoutHelper(n, {c}) BY <1>5 DEF OnCommand
  <2> HIDE DEF n, t
  <2>3. /\ t \in SupervisorState
        /\ t.link = s.link /\ t.greeted = s.greeted /\ t.held = s.held
        /\ t.replayLink = n.replayLink /\ t.written = <<>> /\ t.stopping = s.stopping
        /\ t.wakeLink = IF c = CancelLink THEN <<>> ELSE s.wakeLink
    BY <2>1, <2>2, AnswerTyped, AnswerQueue
  <2>4. CASE c # CancelLink
    <3>1. SameQueue(s, t) BY <2>1, <2>3, <2>4 DEF SameQueue
    <3>2. QueueInv(t) /\ Moves(s, t, {}) /\ Keeps(s, t) BY <2>3, <3>1, SameQueueFacts
    <3> QED BY <1>0, <1>5, <2>4, <3>2 DEF CommandMoves, Added, t
  <2>5. CASE c = CancelLink
    <3>1. t.held = <<>> /\ t.link = NoRun /\ ~t.greeted
      BY <1>5, <2>3 DEF QueueInv, HasLink
    <3>2. Queue(t) = {} /\ Out(t) = {} /\ Once(t.held) /\ Once(t.written)
      BY <2>3, <2>5, <3>1 DEF Queue, Out, Range, Once
    <3>3. Told(t) = {} BY <2>1, <2>3, <2>5, <3>2 DEF Told, GensOf
    <3>4. QueueInv(t) /\ Moves(s, t, {})
      BY <2>3, <2>5, <3>1, <3>2, <3>3 DEF QueueInv, Moves
    <3> QED BY <1>0, <1>5, <2>5, <3>2, <3>3, <3>4 DEF CommandMoves, Added, t
  <2> QED BY <2>4, <2>5
<1> QED BY <1>1, <1>2, <1>3, <1>4, <1>5

(* The click on Restart adds no pairing start and drops none.               *)
LEMMA OnRestartMoves ==
  ASSUME NEW s, QueueInv(s), s.written = <<>>, NEW outcome \in Outcomes, NEW r,
         outcome = "started" => r \in Runs
  PROVE  LET t == OnRestart(s, outcome, r) IN QueueInv(t) /\ Moves(s, t, {}) /\ Keeps(s, t)
<1> DEFINE u == [s EXCEPT !.failures = 0]
           t == OnRestart(s, outcome, r)
<1>1. u \in SupervisorState /\ SameQueue(s, u) /\ s \in SupervisorState /\ SameQueue(s, s)
  BY DEF QueueInv, SupervisorState, SameQueue
<1>2. t = s \/ t = Launch(u, outcome, r) BY DEF OnRestart
<1> HIDE DEF u, t
<1>3. QueueInv(u) /\ u.written = <<>> BY <1>1, SameQueueFacts DEF SameQueue
<1>4. CASE t = s BY <1>1, <1>4, SameQueueFacts DEF t
<1>5. CASE t = Launch(u, outcome, r)
  <2>1. QueueInv(t) /\ Moves(u, t, {}) /\ Keeps(u, t) BY <1>3, <1>5, LaunchMoves
  <2> QED BY <1>1, <2>1, SameQueueThen DEF t
<1> QED BY <1>2, <1>4, <1>5

(* The close drops what waits, and writes no pairing start.                 *)
LEMMA OnShutdownMoves ==
  ASSUME NEW s, QueueInv(s), s.written = <<>>
  PROVE  LET t == OnShutdown(s) IN QueueInv(t) /\ Moves(s, t, {}) /\ Keeps(s, t)
<1> DEFINE off == [s EXCEPT !.stopping = TRUE, !.restartArmed = FALSE,
                            !.wakeLink = <<>>, !.startWaits = FALSE]
           asks == [off EXCEPT !.written = <<Shutdown>>, !.stopArmed = TRUE]
           t == OnShutdown(s)
<1>1. s \in SupervisorState /\ SameQueue(s, s) BY DEF QueueInv, SameQueue
<1>2. /\ off \in SupervisorState
      /\ off.link = s.link /\ off.greeted = s.greeted /\ off.held = s.held
      /\ off.wakeLink = <<>> /\ off.replayLink = s.replayLink
      /\ off.written = <<>> /\ off.stopping
  BY <1>1 DEF SupervisorState, WakeLinks
<1>3. \/ t = s
      \/ ~HasLink(s) /\ t = FinishStop(off)
      \/ HasLink(s) /\ t = asks
  BY DEF OnShutdown
<1>4. Queue(off) \subseteq Queue(s) /\ Out(off) = {} /\ Once(off.written)
  BY <1>2 DEF Queue, Out, Once, Range
<1>5. Told(off) \subseteq Told(s) BY <1>2, <1>4 DEF Told, GensOf
<1>6. CASE t = s BY <1>1, <1>6, SameQueueFacts DEF t
<1> HIDE DEF off, t
<1>7. CASE ~HasLink(s) /\ t = FinishStop(off)
  <2>1. QueueInv(off) BY <1>2, <1>4, <1>7 DEF QueueInv
  <2>2. QueueInv(t) /\ Moves(off, t, {}) /\ Keeps(off, t)
    BY <1>2, <1>7, <2>1, FinishStopMoves
  <2>3. Moves(s, off, {}) BY <1>2, <1>4, <1>5 DEF Moves
  <2>4. Moves(s, t, {}) BY <1>4, <2>2, <2>3, MovesThen
  <2>5. t.stopping /\ t.held = <<>>
    <3>1. t.stopping BY <1>2, <2>2 DEF Moves
    <3>2. DropLink(off).held = <<>> /\ DropLink(off) \in SupervisorState
      BY <1>2, DropLinkQueue, DropLinkTyped
    <3>3. t.held = <<>>
      <4> DEFINE d == DropLink(off)
                 stops == d.stops + 1
      <4>1. t = [d EXCEPT !.stopArmed = FALSE, !.sends = {}, !.stops = stops]
        BY <1>7 DEF FinishStop
      <4> HIDE DEF d, stops
      <4>2. d \in SupervisorState /\ d.held = <<>> BY <3>2 DEF d
      <4> QED BY <4>1, <4>2
    <3> QED BY <3>1, <3>3
  <2> QED BY <2>2, <2>4, <2>5 DEF Keeps, IsLastWord, t
<1>8. CASE HasLink(s) /\ t = asks
  <2>1. /\ t.link = s.link /\ t.greeted = s.greeted /\ t.held = s.held
        /\ t.wakeLink = <<>> /\ t.replayLink = s.replayLink
        /\ t.written = <<Shutdown>> /\ t.stopping
    BY <1>2, <1>8
  <2>2. t \in SupervisorState BY <1>1, OnShutdownTyped DEF t
  <2>3. Shutdown \notin Pairings
    <3>1. Shutdown.type # "begin" /\ \A c \in Pairings : c.type = "begin"
      BY PairingFacts DEF Shutdown, IsBegin
    <3> QED BY <3>1
  <2>4. Queue(t) \subseteq Queue(s) /\ Out(t) = {} /\ Once(t.written)
    BY <2>1, <2>3 DEF Queue, Out, Once, Range
  <2>5. Told(t) \subseteq Told(s) BY <2>1, <2>4 DEF Told, GensOf
  <2>6. QueueInv(t) /\ Moves(s, t, {})
    BY <2>1, <2>2, <2>4, <2>5 DEF QueueInv, Moves, HasLink
  <2> QED BY <2>1, <2>6 DEF Keeps, t
<1> QED BY <1>3, <1>6, <1>7, <1>8

(* Hello: what waited goes out.                                             *)
LEMMA OnHelloMoves ==
  ASSUME NEW s, QueueInv(s), s.written = <<>>, HasLink(s)
  PROVE  LET t == OnHello(s) IN QueueInv(t) /\ Moves(s, t, {}) /\ Keeps(s, t)
<1> DEFINE u == [s EXCEPT !.greeted = TRUE, !.held = <<>>]
           v == Report(u, "Running")
           t == OnHello(s)
<1>1. s \in SupervisorState /\ s.held \in Seq(Command) /\ s.wakeLink = <<>>
  BY DEF QueueInv, SupervisorState
<1>2. /\ u \in SupervisorState
      /\ u.link = s.link /\ u.greeted /\ u.held = <<>> /\ u.wakeLink = <<>>
      /\ u.replayLink = s.replayLink /\ u.written = <<>> /\ u.stopping = s.stopping
  <2>1. <<>> \in Seq(Command) OBVIOUS
  <2> QED BY <1>1, <2>1 DEF SupervisorState
<1>3. t = WriteRequests(v, s.held) BY DEF OnHello
<1> HIDE DEF u
<1>4. v \in SupervisorState /\ SameQueue(u, v)
  BY <1>2, ReportTyped, ReportQueue DEF HelperState
<1> HIDE DEF v, t
<1>5. /\ t.link = v.link /\ t.greeted = v.greeted /\ t.held = v.held
      /\ t.wakeLink \in {v.wakeLink, <<>>} /\ t.replayLink \in {v.replayLink, NoGen}
      /\ t.written = Those(Fitting, s.held) /\ t.stopping = v.stopping
  BY <1>1, <1>3, <1>4, WriteRequestsQueue
<1>6. /\ t.link = s.link /\ t.greeted /\ t.held = <<>> /\ t.wakeLink = <<>>
      /\ t.replayLink \in {s.replayLink, NoGen}
      /\ t.written = Those(Fitting, s.held) /\ t.stopping = s.stopping
  BY <1>2, <1>4, <1>5 DEF SameQueue
<1>7. t \in SupervisorState BY <1>1, OnHelloTyped DEF t
<1>8. Range(t.written) = Fitting \cap Range(s.held) /\ Once(t.written)
  <2>1. Once(s.held) BY DEF QueueInv
  <2> QED BY <1>1, <1>6, <2>1, ThoseRange
<1>9. /\ Queue(t) = {} /\ Once(t.held)
      /\ Out(t) = Queue(s) \cap Fitting
  BY <1>1, <1>6, <1>8 DEF Queue, Out, Range, Once
<1>10. Told(t) \subseteq Told(s) BY <1>6, <1>9 DEF Told, GensOf
<1>11. QueueInv(t) /\ Moves(s, t, {})
  BY <1>6, <1>7, <1>8, <1>9, <1>10 DEF QueueInv, Moves, HasLink
<1>12. Keeps(s, t)
  <2>1. \A c \in Queue(s) : c \in Fitting \/ ~Fits(c) BY PairingFacts DEF Queue, Fitting
  <2> QED BY <1>9, <2>1 DEF Keeps
<1> QED BY <1>11, <1>12 DEF t

(* Lines of a helper that tell of no command: the replay may end.           *)
LEMMA LinesMoves ==
  ASSUME NEW s, QueueInv(s), s.written = <<>>, NEW t \in SupervisorState,
         t.link = s.link, t.greeted = s.greeted, t.held = s.held,
         t.wakeLink = s.wakeLink, t.replayLink \in {s.replayLink, NoGen},
         t.written = s.written, t.stopping = s.stopping
  PROVE  QueueInv(t) /\ Moves(s, t, {}) /\ Keeps(s, t)
<1>1. Queue(t) = Queue(s) /\ Out(t) = Out(s) BY DEF Queue, Out
<1>2. Told(t) \subseteq Told(s) BY <1>1 DEF Told
<1>3. Out(t) = {} BY <1>1 DEF Out, Range
<1> QED BY <1>1, <1>2, <1>3 DEF QueueInv, Moves, Keeps, HasLink

(* Acks, answers and account events leave the queues alone.                 *)
LEMMA EventsMove ==
  ASSUME NEW s, QueueInv(s), s.written = <<>>, NEW t,
         \/ \E slow \in BOOLEAN : t = OnAck(s, slow)
         \/ \E state \in AccountState : t = OnAccount(s, state)
         \/ \E q \in Requests : t = OnSendAnswer(s, q)
         \/ t = EndPairing(s)
         \/ t = [s EXCEPT !.loading = FALSE]
         \/ t = Report(s, "Busy")
  PROVE  QueueInv(t) /\ Moves(s, t, {}) /\ Keeps(s, t)
<1>0. s \in SupervisorState BY DEF QueueInv
<1>1. t \in SupervisorState BY <1>0, LinesTyped, ReportTyped DEF HelperState
<1> SUFFICES /\ t.link = s.link /\ t.greeted = s.greeted /\ t.held = s.held
             /\ t.wakeLink = s.wakeLink /\ t.replayLink \in {s.replayLink, NoGen}
             /\ t.written = s.written /\ t.stopping = s.stopping
  BY <1>1, LinesMoves
<1>2. ASSUME NEW slow \in BOOLEAN, t = OnAck(s, slow) PROVE SameQueue(s, t)
  <2> DEFINE left == IF s.unacked = 0 THEN 0 ELSE s.unacked - 1
             u == [s EXCEPT !.unacked = left]
  <2>1. left \in Nat BY <1>0 DEF SupervisorState
  <2>2. u \in SupervisorState /\ SameQueue(s, u)
    <3> HIDE DEF left
    <3> QED BY <1>0, <2>1 DEF SupervisorState, SameQueue
  <2>3. t = u \/ t = Report(u, "Running") BY <1>2 DEF OnAck
  <2> HIDE DEF u
  <2> QED BY <2>2, <2>3, ReportQueue DEF SameQueue
<1>3. ASSUME NEW state \in AccountState, t = OnAccount(s, state)
      PROVE  /\ t.link = s.link /\ t.greeted = s.greeted /\ t.held = s.held
             /\ t.wakeLink = s.wakeLink /\ t.replayLink \in {s.replayLink, NoGen}
             /\ t.written = s.written /\ t.stopping = s.stopping
  <2> DEFINE u == [s EXCEPT !.account = state]
  <2>1. u \in SupervisorState /\ SameQueue(s, u) BY <1>0 DEF SupervisorState, SameQueue
  <2>2. t = u \/ t = EndPairing(u) \/ t = [u EXCEPT !.linkedOnce = TRUE]
    BY <1>3 DEF OnAccount, AccountState
  <2> HIDE DEF u
  <2> QED BY <2>1, <2>2 DEF EndPairing, SupervisorState, SameQueue
<1>4. ASSUME NEW q \in Requests, t = OnSendAnswer(s, q) PROVE SameQueue(s, t)
  <2> DEFINE sends == s.sends \ {q}
             answers == [s.answers EXCEPT ![q] = @ + 1]
  <2>1. t = [s EXCEPT !.sends = sends, !.answers = answers] BY <1>4 DEF OnSendAnswer
  <2> HIDE DEF sends, answers
  <2> QED BY <1>0, <2>1 DEF SameQueue
<1>5. CASE t = EndPairing(s) BY <1>0, <1>5 DEF EndPairing
<1>6. CASE t = [s EXCEPT !.loading = FALSE] BY <1>0, <1>6
<1>7. CASE t = Report(s, "Busy") BY <1>0, <1>7, ReportQueue DEF SameQueue
<1> QED BY <1>2, <1>3, <1>4, <1>5, <1>6, <1>7 DEF SameQueue

(* The exit of a process, and the start that waits for it.                  *)
LEMMA OnExitedMoves ==
  ASSUME NEW s, QueueInv(s), s.written = <<>>, NEW r \in Runs, NEW outcome \in Outcomes,
         NEW new, outcome = "started" => new \in Runs
  PROVE  LET t == OnExited(s, r, outcome, new) IN
         QueueInv(t) /\ Moves(s, t, {}) /\ Keeps(s, t)
<1> DEFINE draining == s.draining \/ s.link = r
           alive == s.alive \ {r}
           u == [s EXCEPT !.alive = alive, !.draining = draining]
           t == OnExited(s, r, outcome, new)
<1>1. s \in SupervisorState BY DEF QueueInv
<1>2. draining \in BOOLEAN /\ alive \in SUBSET Runs BY <1>1 DEF SupervisorState
<1>3. t = u \/ t = Launch(u, outcome, new) BY DEF OnExited
<1> HIDE DEF draining, alive
<1>4. u \in SupervisorState /\ SameQueue(s, u)
  BY <1>1, <1>2 DEF SupervisorState, SameQueue
<1> HIDE DEF u, t
<1>5. QueueInv(u) /\ Moves(s, u, {}) /\ Keeps(s, u) /\ u.written = <<>>
  BY <1>4, SameQueueFacts DEF SameQueue
<1>6. CASE t = Launch(u, outcome, new)
  <2>1. QueueInv(t) /\ Moves(u, t, {}) /\ Keeps(u, t) BY <1>5, <1>6, LaunchMoves
  <2> QED BY <1>4, <2>1, SameQueueThen DEF t
<1> QED BY <1>3, <1>5, <1>6 DEF t

-----------------------------------------------------------------------------
(* Sends: each is answered once, and one that is open waits in the queue of *)
(* the linked helper or went to it.                                         *)

(* The sends among the commands of a queue, and that none is in it twice.   *)
Sent(queue) == {q \in Requests : SendText(q) \in Range(queue)}

SentOnce(queue) ==
    \A q \in Requests : \A i, j \in DOMAIN queue :
      queue[i] = SendText(q) /\ queue[j] = SendText(q) => i = j

(* What waits for Hello is open, and without a link nothing is.             *)
SendInv(s) ==
    /\ Sent(s.held) \subseteq s.sends /\ SentOnce(s.held)
    /\ ~HasLink(s) => s.sends = {}

(* From s to t each send of qs gets one answer, and no other send does.     *)
Counted(s, t, qs) ==
    \A q \in Requests : t.answers[q] = IF q \in qs THEN s.answers[q] + 1 ELSE s.answers[q]

(* From s to t the sends of qs are answered and closed.                     *)
Settled(s, t, qs) == t.sends = s.sends \ qs /\ Counted(s, t, qs)

(* Two answers after another are two answers.                               *)
LEMMA SettledTwice ==
  ASSUME NEW s, NEW t, NEW u, NEW P, NEW Q, Settled(s, t, P), Settled(t, u, Q),
         \A q \in Requests : ~(q \in P /\ q \in Q)
  PROVE  Settled(s, u, P \cup Q)
<1>1. u.sends = s.sends \ (P \cup Q) BY DEF Settled
<1>2. Counted(s, u, P \cup Q) BY DEF Settled, Counted
<1> QED BY <1>1, <1>2 DEF Settled

(* A step that touches neither sends nor answers settles nothing.           *)
LEMMA SettlesNone ==
  ASSUME NEW s, NEW t, t.sends = s.sends, t.answers = s.answers
  PROVE  Settled(s, t, {})
BY DEF Settled, Counted

(* report settles no send.                                                  *)
LEMMA ReportSettles ==
  ASSUME NEW s \in SupervisorState, NEW state
  PROVE  Settled(s, Report(s, state), {})
<1>1. Report(s, state).sends = s.sends /\ Report(s, state).answers = s.answers
  BY DEF Report
<1> QED BY <1>1, SettlesNone

(* A rejection settles the sends it names.                                  *)
LEMMA RejectSettles ==
  ASSUME NEW s \in SupervisorState, NEW qs
  PROVE  Settled(s, RejectSends(s, qs), qs)
<1> DEFINE t == RejectSends(s, qs)
<1>1. /\ t.sends = s.sends \ qs
      /\ t.answers = [q \in Requests |-> IF q \in qs THEN s.answers[q] + 1 ELSE s.answers[q]]
  BY DEF RejectSends
<1> QED BY <1>1 DEF Settled, Counted

(* answer_without_helper settles the sends among its commands.              *)
LEMMA AnswerSettles ==
  ASSUME NEW s \in SupervisorState, NEW cs
  PROVE  Settled(s, AnswerWithoutHelper(s, cs), {q \in Requests : SendText(q) \in cs})
<1> DEFINE qs == {q \in Requests : SendText(q) \in cs}
           rejected == RejectSends(s, qs)
           loading == rejected.loading /\ Load \notin cs
           told == [rejected EXCEPT !.loading = loading]
           off == [told EXCEPT !.restartArmed = FALSE, !.startWaits = FALSE,
                         !.wakeLink = <<>>, !.linkedOnce = FALSE,
                         !.account = "Unlinked"]
           t == AnswerWithoutHelper(s, cs)
<1>1. rejected \in SupervisorState /\ Settled(s, rejected, qs)
  BY RejectTyped, RejectSettles
<1> HIDE DEF rejected
<1>2. told \in SupervisorState /\ told.sends = rejected.sends /\ told.answers = rejected.answers
  <2>1. loading \in BOOLEAN OBVIOUS
  <2> HIDE DEF loading
  <2> QED BY <1>1, <2>1 DEF SupervisorState
<1>3. t = IF CancelLink \in cs THEN GiveUpLink(told) ELSE told
  BY DEF AnswerWithoutHelper, rejected
<1> HIDE DEF told, qs
<1>4. off \in SupervisorState /\ off.sends = told.sends /\ off.answers = told.answers
  BY ZenonT(60), <1>2 DEF SupervisorState, WakeLinks, AccountState
<1>5. GiveUpLink(told) = off \/ GiveUpLink(told) = Report(off, "Idle") BY DEF GiveUpLink
<1> HIDE DEF off
<1>6. LET u == Report(off, "Idle") IN u.sends = off.sends /\ u.answers = off.answers
  BY <1>4 DEF Report
<1>7. t.sends = rejected.sends /\ t.answers = rejected.answers
  BY <1>2, <1>3, <1>4, <1>5, <1>6
<1>8. Settled(s, t, qs) BY <1>1, <1>7 DEF Settled, Counted
<1> QED BY <1>8 DEF qs

(* stop_for settles every open send.                                        *)
LEMMA StopForSettles ==
  ASSUME NEW s \in SupervisorState
  PROVE  LET t == StopFor(s) IN
         /\ Settled(s, t, s.sends) /\ t.sends = {}
         /\ t.link = NoRun /\ t.held = <<>> /\ t.written = s.written /\ t.stopping = s.stopping
<1> DEFINE dropped == DropLink(s)
           replay == IF s.linkedOnce THEN dropped.replayLink ELSE NoGen
           off == [dropped EXCEPT
                     !.restartArmed = FALSE, !.wakeLink = <<>>,
                     !.replayLink = replay, !.account = "Unlinked"]
           told == RejectSends(off, off.sends)
           t == StopFor(s)
<1>1. dropped \in SupervisorState BY DropLinkTyped
<1>2. /\ dropped.link = NoRun /\ dropped.held = <<>> /\ dropped.sends = s.sends
      /\ dropped.answers = s.answers /\ dropped.written = s.written
      /\ dropped.stopping = s.stopping
  BY DEF DropLink
<1>3. t = Report(told, "Stopped") BY DEF StopFor, RejectOpenSends
<1> HIDE DEF dropped
<1>4. replay \in Generations \cup {NoGen} BY <1>1 DEF SupervisorState
<1> HIDE DEF replay
<1>5. off \in SupervisorState BY <1>1, <1>4 DEF SupervisorState, WakeLinks, AccountState
<1>6. /\ off.link = NoRun /\ off.held = <<>> /\ off.sends = s.sends
      /\ off.answers = s.answers /\ off.written = s.written
      /\ off.stopping = s.stopping
  BY <1>1, <1>2
<1> HIDE DEF off
<1>7. told \in SupervisorState /\ Settled(off, told, s.sends) /\ SameQueue(off, told)
  BY <1>5, <1>6, RejectTyped, RejectSettles, RejectQueue
<1> HIDE DEF told
<1>8. Settled(told, t, {}) /\ SameQueue(told, t)
  BY <1>3, <1>7, ReportSettles, ReportQueue
<1> HIDE DEF t
<1>9. Settled(s, t, s.sends) BY <1>6, <1>7, <1>8 DEF Settled, Counted
<1> QED BY <1>6, <1>7, <1>8, <1>9 DEF SameQueue, Settled, t

(* The commands that never crossed the pipe: their sends are settled.       *)
LEMMA EndUnsentSettles ==
  ASSUME NEW s \in SupervisorState, NEW unsent \in Seq(Command)
  PROVE  LET t == EndUnsent(s, unsent) IN
         /\ Settled(s, t, Sent(unsent))
         /\ t.link = s.link /\ t.held = s.held /\ t.written = s.written
         /\ t.stopping = s.stopping
<1> DEFINE told == AnswerWithoutHelper(s, Range(unsent))
           words == Those(Pairings \cup {CancelLink}, unsent)
           word == words[Len(words)]
           kept == [told EXCEPT !.replayLink = NoGen, !.wakeLink = <<word>>]
           t == EndUnsent(s, unsent)
<1>1. /\ told \in SupervisorState /\ Settled(s, told, Sent(unsent))
      /\ told.link = s.link /\ told.held = s.held /\ told.written = s.written
      /\ told.stopping = s.stopping
  BY AnswerTyped, AnswerSettles, AnswerQueue DEF Sent
<1>2. t = told \/ t = kept BY DEF EndUnsent
<1> HIDE DEF told, word
<1>3. /\ kept.sends = told.sends /\ kept.answers = told.answers /\ kept.link = told.link
      /\ kept.held = told.held /\ kept.written = told.written /\ kept.stopping = told.stopping
  BY <1>1
<1> QED BY <1>1, <1>2, <1>3 DEF Settled, Counted

(* The end of a helper settles every open send, those that waited for Hello *)
(* once.                                                                    *)
LEMMA HelperEndedSettles ==
  ASSUME NEW s \in SupervisorState, NEW stable \in BOOLEAN, Sent(s.held) \subseteq s.sends
  PROVE  LET t == HelperEnded(s, stable) IN
         /\ Settled(s, t, s.sends) /\ t.sends = {}
         /\ t.link = NoRun /\ t.held = <<>> /\ t.written = s.written /\ t.stopping = s.stopping
<1> DEFINE unsent == IF s.greeted THEN <<>> ELSE s.held
           dropped == DropLink(s)
           ended == EndUnsent(dropped, unsent)
           t == RejectSends(ended, ended.sends)
           failures == IF stable THEN 1 ELSE t.failures + 1
           relinks == \/ t.replayLink # NoGen
                      \/ t.wakeLink # <<>>
                      \/ t.linkedOnce /\ t.acknowledged
           account == IF t.account = "Unlinked" \/ ~relinks
                        THEN "Unlinked" ELSE "Linking"
           once == t.linkedOnce /\ t.account = "Unlinked"
           idle == [t EXCEPT !.failures = 0, !.account = "Unlinked",
                             !.linkedOnce = once]
           last == [t EXCEPT !.failures = failures]
           again == [t EXCEPT !.failures = failures, !.account = account,
                              !.restartArmed = TRUE]
           u == HelperEnded(s, stable)
<1>1. unsent \in Seq(Command) /\ Sent(unsent) \subseteq s.sends
  <2>1. Sent(<<>>) = {} BY DEF Sent, Range
  <2> QED BY <2>1 DEF SupervisorState
<1>2. /\ dropped \in SupervisorState /\ dropped.link = NoRun /\ dropped.held = <<>>
      /\ dropped.sends = s.sends /\ dropped.answers = s.answers
      /\ dropped.written = s.written /\ dropped.stopping = s.stopping
  <2>1. dropped \in SupervisorState BY DropLinkTyped
  <2>2. /\ dropped.link = NoRun /\ dropped.held = <<>>
        /\ dropped.sends = s.sends /\ dropped.answers = s.answers
        /\ dropped.written = s.written /\ dropped.stopping = s.stopping
    BY DEF DropLink
  <2> QED BY <2>1, <2>2
<1>3. u = IF ReplayIsEmpty(t) /\ t.wakeLink = <<>> THEN Report(idle, "Idle")
          ELSE IF failures >= MaxFailures THEN StopFor(last)
          ELSE Report(again, "Restarting")
  BY DEF HelperEnded, RejectOpenSends
<1> HIDE DEF dropped, unsent
<1>4. /\ ended \in SupervisorState /\ Settled(dropped, ended, Sent(unsent))
      /\ ended.link = NoRun /\ ended.held = <<>> /\ ended.written = s.written
      /\ ended.stopping = s.stopping
  BY <1>1, <1>2, EndUnsentTyped, EndUnsentSettles
<1> HIDE DEF ended
<1>5. /\ t \in SupervisorState /\ Settled(ended, t, ended.sends) /\ SameQueue(ended, t)
  BY <1>4, RejectTyped, RejectSettles, RejectQueue
<1> HIDE DEF t
<1>6. /\ Settled(s, t, s.sends) /\ t.sends = {}
      /\ t.link = NoRun /\ t.held = <<>> /\ t.written = s.written /\ t.stopping = s.stopping
  <2>1. ended.sends = s.sends \ Sent(unsent) BY <1>2, <1>4 DEF Settled
  <2>2. Settled(dropped, t, Sent(unsent) \cup ended.sends)
    BY <1>4, <1>5, <2>1, SettledTwice
  <2>3. Sent(unsent) \cup ended.sends = s.sends BY <1>1, <2>1
  <2>4. Settled(s, t, s.sends) BY <1>2, <2>2, <2>3 DEF Settled, Counted
  <2> QED BY <1>4, <1>5, <2>4 DEF SameQueue, Settled
<1>7. failures \in Nat /\ account \in AccountState /\ once \in BOOLEAN
  BY <1>5 DEF SupervisorState, AccountState
<1> HIDE DEF failures, account, once
<1> DEFINE Like(v) == /\ v \in SupervisorState /\ v.sends = {} /\ v.answers = t.answers
                      /\ v.link = NoRun /\ v.held = <<>> /\ v.written = s.written
                      /\ v.stopping = s.stopping
<1>8. Like(idle) /\ Like(last) /\ Like(again)
  <2>1. Like(idle) BY ZenonT(60), <1>5, <1>6, <1>7 DEF SupervisorState, AccountState
  <2>2. Like(last) BY <1>5, <1>6, <1>7 DEF SupervisorState
  <2>3. Like(again) BY <1>5, <1>6, <1>7 DEF SupervisorState
  <2> QED BY <2>1, <2>2, <2>3
<1> HIDE DEF idle, last, again
<1>9. ASSUME NEW v, Like(v), NEW w, \/ \E state : w = Report(v, state)
                                  \/ w = StopFor(v)
      PROVE  /\ w.sends = {} /\ Counted(v, w, {}) /\ w.link = NoRun /\ w.held = <<>>
             /\ w.written = s.written /\ w.stopping = s.stopping
  <2>1. ASSUME NEW state, w = Report(v, state)
        PROVE  Settled(v, w, {}) /\ SameQueue(v, w)
    BY <1>9, <2>1, ReportSettles, ReportQueue
  <2>2. CASE w = StopFor(v)
    <3>1. /\ Settled(v, w, v.sends) /\ w.link = NoRun /\ w.held = <<>>
          /\ w.written = v.written /\ w.stopping = v.stopping
      BY <1>9, <2>2, StopForSettles
    <3> QED BY <1>9, <3>1 DEF Settled
  <2> QED BY <1>9, <2>1, <2>2 DEF Settled, SameQueue
<1>10. /\ u.sends = {} /\ u.link = NoRun /\ u.held = <<>>
       /\ u.written = s.written /\ u.stopping = s.stopping
       /\ \A q \in Requests : u.answers[q] = t.answers[q]
  <2>1. \/ \E state : u = Report(idle, state) \/ u = Report(again, state)
        \/ u = StopFor(last)
    BY <1>3
  <2>2. \E v : Like(v) /\ ((\E state : u = Report(v, state)) \/ u = StopFor(v))
    BY <1>8, <2>1
  <2> HIDE DEF Like, u
  <2>3. PICK v : Like(v) /\ ((\E state : u = Report(v, state)) \/ u = StopFor(v))
    BY <2>2
  <2>4. /\ u.sends = {} /\ Counted(v, u, {}) /\ u.link = NoRun /\ u.held = <<>>
        /\ u.written = s.written /\ u.stopping = s.stopping
    BY <1>9, <2>3
  <2> QED BY <2>3, <2>4 DEF Like, Counted
<1> HIDE DEF u
<1>11. Settled(s, u, s.sends) BY <1>6, <1>10 DEF Settled, Counted
<1> QED BY <1>10, <1>11 DEF u

(* finish_stop answers nothing: the app closes.                             *)
LEMMA FinishStopSettles ==
  ASSUME NEW s \in SupervisorState
  PROVE  LET t == FinishStop(s) IN
         /\ t.sends = {} /\ t.answers = s.answers
         /\ t.link = NoRun /\ t.held = <<>> /\ t.written = s.written /\ t.stopping = s.stopping
BY DEF FinishStop, DropLink

(* The commands of a start are no sends.                                    *)
LEMMA StartCommandsSend ==
  ASSUME NEW s \in SupervisorState
  PROVE  Sent(StartCommands(s)) = {}
<1> DEFINE queue == StartCommands(s)
           consent == IF s.acknowledged THEN <<AcknowledgeGate>> ELSE <<>>
           replay == IF s.replayLink # NoGen THEN <<BeginLink(s.replayLink, FALSE)>> ELSE <<>>
           Starting0 == {AcknowledgeGate} \cup Pairings
<1>1. consent \in Seq(Starting0) /\ s.wakeLink \in Seq(Starting0)
  <2>1. s.wakeLink \in WakeLinks BY DEF SupervisorState
  <2>2. <<>> \in Seq(Starting0) /\ \A c \in Pairings : <<c>> \in Seq(Starting0)
    <3>1. Pairings \subseteq Starting0 OBVIOUS
    <3> HIDE DEF Starting0
    <3> QED BY <3>1
  <2>3. \A c \in Pairings : s.wakeLink = <<c>> => s.wakeLink \in Seq(Starting0) BY <2>2
  <2>4. consent \in Seq(Starting0)
    <3>1. AcknowledgeGate \in Starting0 OBVIOUS
    <3> HIDE DEF Starting0
    <3>2. <<AcknowledgeGate>> \in Seq(Starting0) /\ <<>> \in Seq(Starting0) BY <3>1
    <3> QED BY <3>2
  <2> QED BY <2>1, <2>2, <2>3, <2>4 DEF WakeLinks
<1>2. replay \in Seq(Starting0)
  <2> DEFINE c == BeginLink(s.replayLink, FALSE)
  <2>1. CASE s.replayLink = NoGen BY <2>1
  <2>2. CASE s.replayLink # NoGen
    <3>1. s.replayLink \in Generations BY <2>2 DEF SupervisorState
    <3>2. c \in Starting0 /\ replay = <<c>> BY <2>2, <3>1, PairingFacts
    <3> HIDE DEF c, replay, Starting0
    <3> QED BY <3>2
  <2> QED BY <2>1, <2>2
<1>3. queue = consent \o replay \o s.wakeLink BY DEF StartCommands
<1> HIDE DEF consent, replay, queue, Starting0
<1>4. queue \in Seq(Starting0) BY <1>1, <1>2, <1>3
<1>5. Range(queue) \subseteq Starting0 BY <1>4 DEF Range
<1>6. ASSUME NEW q \in Requests PROVE SendText(q) \notin Starting0
  <2>1. SendText(q).type = "send" /\ SendText(q) \in Command
    BY PairingFacts DEF SendText
  <2>2. AcknowledgeGate.type = "gate" BY DEF AcknowledgeGate
  <2>3. SendText(q) \notin Pairings BY <2>1, PairingFacts DEF IsBegin
  <2> QED BY <2>1, <2>2, <2>3 DEF Starting0
<1> QED BY <1>5, <1>6 DEF Sent, queue

(* A helper starts as the process r.  Nothing is answered.                  *)
Launches(s, t, r) ==
    /\ ~HasLink(s) /\ HasLink(t) /\ t.link = r /\ ~s.stopping /\ ~t.greeted
    /\ Counted(s, t, {}) /\ t.sends = {} /\ Sent(t.held) = {} /\ t.written = <<>>
    /\ ~t.stopping

(* The link stays, or none is there.  The sends of N come in; those that no *)
(* helper gets, or that are too long for a line, are answered, and the      *)
(* others wait for Hello or are written to the helper.                      *)
Stays(s, t, N) ==
    /\ t.link = s.link /\ t.stopping = s.stopping
    /\ s.greeted => t.greeted
    /\ \E qs \in SUBSET (Sent(s.held) \cup N) :
         /\ N # {} => qs \subseteq N
         /\ Counted(s, t, qs) /\ t.sends = (s.sends \cup N) \ qs
         /\ Sent(t.written) \subseteq (Sent(s.held) \cup N) \ qs
    /\ SentOnce(t.written)
    /\ ~t.greeted => Sent(t.written) = {}

(* The link goes, and every open send is answered, but not in a close.      *)
Leaves(s, t) ==
    /\ HasLink(s) /\ ~HasLink(t) /\ t.stopping = s.stopping
    /\ t.sends = {} /\ t.written = <<>>
    /\ \E qs \in SUBSET s.sends : Counted(s, t, qs) /\ (qs = s.sends \/ s.stopping)

(* What holds between two events of the supervisor.                         *)
Ready(s) == QueueInv(s) /\ SendInv(s) /\ s.written = <<>>

(* An empty queue holds no send.                                            *)
LEMMA NoSends == Sent(<<>>) = {} /\ SentOnce(<<>>)
<1>1. DOMAIN <<>> = {} /\ Range(<<>>) = {} BY DEF Range
<1> QED BY <1>1 DEF Sent, SentOnce

(* A step that leaves link, queue and sends alone.                          *)
LEMMA QuietStays ==
  ASSUME NEW s, NEW t, Ready(s), Settled(s, t, {}),
         t.link = s.link, t.held = s.held, t.stopping = s.stopping, t.greeted = s.greeted,
         t.written = <<>>
  PROVE  SendInv(t) /\ Stays(s, t, {})
<1>1. t.sends = s.sends /\ Counted(s, t, {}) BY DEF Settled
<1>2. SendInv(t) BY <1>1 DEF Ready, SendInv, HasLink
<1>3. Sent(t.written) = {} /\ SentOnce(t.written) BY NoSends
<1>4. t.sends = (s.sends \cup {}) \ {} BY <1>1
<1>5. Stays(s, t, {}) BY <1>1, <1>3, <1>4 DEF Stays
<1> QED BY <1>2, <1>5

(* launch starts a helper, whose queue has no send, or it changes no send.  *)
LEMMA LaunchStays ==
  ASSUME NEW s, Ready(s), NEW outcome \in Outcomes, NEW r,
         outcome = "started" => r \in Runs
  PROVE  LET t == Launch(s, outcome, r) IN
         SendInv(t) /\ (Stays(s, t, {}) \/ Launches(s, t, r))
<1> DEFINE off == [s EXCEPT !.restartArmed = FALSE]
           ready == [off EXCEPT !.startWaits = FALSE]
           waits == [off EXCEPT !.startWaits = TRUE]
           gone == [ready EXCEPT !.wakeLink = <<>>]
           alive == s.alive \cup {r}
           held == StartCommands(s)
           replay == IF s.wakeLink # <<>> THEN s.wakeLink[1].gen ELSE s.replayLink
           new == [ready EXCEPT !.alive = alive, !.link = r, !.held = held,
                                !.replayLink = replay, !.wakeLink = <<>>]
           t == Launch(s, outcome, r)
           Alike(u) == /\ u \in SupervisorState
                       /\ u.link = s.link /\ u.held = s.held /\ u.stopping = s.stopping
                       /\ u.greeted = s.greeted /\ u.written = s.written
                       /\ u.sends = s.sends /\ u.answers = s.answers
<1>0. s \in SupervisorState /\ s.written = <<>> BY DEF Ready, QueueInv
<1>1. Alike(off) /\ Alike(ready) /\ Alike(waits) /\ Alike(gone)
  <2>1. Alike(off) BY <1>0 DEF SupervisorState
  <2>2. Alike(ready) BY <1>0 DEF SupervisorState
  <2>3. Alike(waits) BY <1>0 DEF SupervisorState
  <2>4. Alike(gone) BY <1>0 DEF SupervisorState, WakeLinks
  <2> QED BY <2>1, <2>2, <2>3, <2>4
<1>2. \/ t = off
      \/ t = waits
      \/ ~HasLink(s) /\ ~s.stopping /\ t = Report(gone, "Missing")
      \/ ~HasLink(s) /\ ~s.stopping /\ t = StopFor(ready)
      \/ ~HasLink(s) /\ ~s.stopping /\ outcome = "started" /\ t = Report(new, "Busy")
  <2>1. ready.alive = s.alive /\ ready.replayLink = s.replayLink
    BY <1>0
  <2> QED BY <2>1 DEF Launch, Outcomes
<1>3. ASSUME outcome = "started"
      PROVE  /\ DOMAIN new = Fields /\ new.link = r /\ new.held = held /\ new.stopping = s.stopping
             /\ new.greeted = s.greeted /\ new.written = s.written
             /\ new.sends = s.sends /\ new.answers = s.answers
  <2> HIDE DEF alive, held, replay
  <2> QED BY <1>0, <1>1 DEF SupervisorState, Fields
<1>4. ASSUME NEW u, Alike(u), t = u PROVE SendInv(t) /\ Stays(s, t, {})
  <2>1. Settled(s, t, {}) BY <1>4, SettlesNone
  <2> QED BY <1>0, <1>4, <2>1, QuietStays
<1>5. ASSUME t = Report(gone, "Missing") PROVE SendInv(t) /\ Stays(s, t, {})
  <2>1. Settled(gone, t, {}) /\ SameQueue(gone, t)
    BY <1>1, <1>5, ReportSettles, ReportQueue
  <2> HIDE DEF t, gone
  <2>2. Settled(s, t, {}) BY <1>1, <2>1 DEF Settled, Counted
  <2> QED BY <1>0, <1>1, <2>1, <2>2, QuietStays DEF SameQueue
<1>6. ASSUME ~HasLink(s), t = StopFor(ready) PROVE SendInv(t) /\ Stays(s, t, {})
  <2>1. /\ Settled(ready, t, ready.sends)
        /\ t.link = NoRun /\ t.held = <<>> /\ t.written = ready.written
        /\ t.stopping = ready.stopping
    BY <1>1, <1>6, StopForSettles
  <2>2. ~t.greeted BY <1>1, <1>6, StopForQueue
  <2> HIDE DEF t, ready
  <2>3. s.sends = {} /\ s.held = <<>> /\ ~s.greeted /\ s.link = NoRun
    BY <1>6 DEF Ready, SendInv, QueueInv, HasLink
  <2>4. Settled(s, t, {}) BY <1>1, <2>1, <2>3 DEF Settled, Counted
  <2>5. t.greeted = s.greeted
    <3>1. t \in SupervisorState BY <1>1, <1>6, StopForTyped DEF ready
    <3> QED BY <1>0, <2>2, <2>3, <3>1 DEF SupervisorState
  <2> QED BY <1>0, <1>1, <2>1, <2>3, <2>4, <2>5, QuietStays
<1>7. ASSUME ~HasLink(s), ~s.stopping, outcome = "started", t = Report(new, "Busy")
      PROVE  SendInv(t) /\ Launches(s, t, r)
  <2>1. /\ t.link = new.link /\ t.held = new.held /\ t.stopping = new.stopping
        /\ t.greeted = new.greeted /\ t.written = new.written
        /\ t.sends = new.sends /\ t.answers = new.answers
    <3> HIDE DEF new
    <3> QED BY <1>3, <1>7 DEF Report, Fields
  <2> HIDE DEF t, new, held
  <2>2. Sent(t.held) = {} BY <1>0, <1>3, <1>7, <2>1, StartCommandsSend DEF held
  <2>3. s.sends = {} /\ ~s.greeted BY <1>7 DEF Ready, SendInv, QueueInv
  <2>4. SentOnce(t.held) BY <2>2 DEF Sent, SentOnce, Range
  <2>5. HasLink(t) BY <1>3, <1>7, <2>1, RunsAssumption DEF HasLink
  <2>6. SendInv(t) BY <2>2, <2>4, <2>5 DEF SendInv
  <2> QED BY <1>0, <1>3, <1>7, <2>1, <2>2, <2>3, <2>5, <2>6 DEF Launches, Counted
<1> QED BY <1>1, <1>2, <1>4, <1>5, <1>6, <1>7

(* A filter keeps the sends of its set, each one once.                      *)
LEMMA ThoseSent ==
  ASSUME NEW queue \in Seq(Command), NEW S, SentOnce(queue)
  PROVE  /\ Sent(Those(S, queue)) = {q \in Sent(queue) : SendText(q) \in S}
         /\ SentOnce(Those(S, queue))
<1> DEFINE those == Those(S, queue)
           L == Len(those)
<1>1. those \in Seq(Command \cap S) /\ Range(those) = S \cap Range(queue)
  BY ThoseFacts, ThoseRange
<1>2. PICK f : Picks(f, those, queue) BY ThoseFacts
<1> HIDE DEF those
<1>3. L \in Nat /\ DOMAIN those = 1 .. L /\ DOMAIN queue = 1 .. Len(queue) BY <1>1
<1>4. \A i \in 1 .. L : f[i] \in 1 .. Len(queue) /\ those[i] = queue[f[i]]
  BY <1>2, <1>3 DEF Picks
<1>5. SentOnce(those)
  <2> SUFFICES ASSUME NEW q \in Requests, NEW i \in 1 .. L, NEW j \in 1 .. L,
                      those[i] = SendText(q), those[j] = SendText(q)
               PROVE  i = j
    BY <1>3 DEF SentOnce
  <2>1. f[i] = f[j] BY <1>3, <1>4 DEF SentOnce
  <2>2. ~(i < j) /\ ~(j < i) BY <1>2, <1>4, <2>1 DEF Picks
  <2> QED BY <2>2, <1>3
<1> QED BY <1>1, <1>5 DEF Sent, those

(* The commands that fit are written, the sends among the others answered.  *)
LEMMA WriteRequestsSends ==
  ASSUME NEW s \in SupervisorState, NEW cs \in Seq(Command), SentOnce(cs)
  PROVE  LET t == WriteRequests(s, cs) IN
         \E qs \in SUBSET Sent(cs) :
           /\ Settled(s, t, qs) /\ Sent(t.written) = Sent(cs) \ qs /\ SentOnce(t.written)
<1> DEFINE fit == Those(Fitting, cs)
           unfit == Those(Command \ Fitting, cs)
           t == [s EXCEPT !.written = fit, !.unacked = @ + Len(fit)]
           u == AnswerWithoutHelper(t, Range(unfit))
           failed == [u EXCEPT !.replayLink = NoGen, !.wakeLink = <<>>, !.account = "Unlinked"]
           w == WriteRequests(s, cs)
           qs == Sent(unfit)
<1>1. w = IF \E c \in Range(unfit) : IsBegin(c) THEN failed ELSE u
  BY DEF WriteRequests, FailUnsentPairing
<1>2. w.written = fit BY WriteRequestsQueue
<1>3. /\ Sent(fit) = {q \in Sent(cs) : SendText(q) \in Fitting} /\ SentOnce(fit)
      /\ qs = {q \in Sent(cs) : SendText(q) \in Command \ Fitting}
  BY ThoseSent
<1>4. Sent(fit) = Sent(cs) \ qs /\ qs \subseteq Sent(cs) BY <1>3, PairingFacts DEF Sent
<1>5. t \in SupervisorState /\ t.sends = s.sends /\ t.answers = s.answers
  <2>1. fit \in Seq(Command \cup {Shutdown}) /\ s.unacked + Len(fit) \in Nat
    <3>1. fit \in Seq(Command \cap Fitting) BY ThoseFacts
    <3> HIDE DEF fit
    <3> QED BY <3>1 DEF SupervisorState
  <2> HIDE DEF fit
  <2> QED BY <2>1 DEF SupervisorState
<1> HIDE DEF t
<1>6. u \in SupervisorState /\ Settled(t, u, qs)
  BY <1>5, AnswerTyped, AnswerSettles DEF Sent
<1> HIDE DEF u, unfit, qs
<1>7. failed.sends = u.sends /\ failed.answers = u.answers BY <1>6
<1> HIDE DEF failed, w, fit
<1>8. Settled(s, w, qs) BY <1>1, <1>5, <1>6, <1>7 DEF Settled, Counted
<1>9. Sent(w.written) = Sent(cs) \ qs /\ SentOnce(w.written) /\ qs \in SUBSET Sent(cs)
  BY <1>2, <1>3, <1>4
<1> QED BY <1>8, <1>9 DEF w

(* The sends that the command c brings in.                                  *)
NewSends(c) == {q \in Requests : c = SendText(q)}

(* One command is a queue of its own.                                       *)
LEMMA OneCommand ==
  ASSUME NEW c
  PROVE  Sent(<<c>>) = NewSends(c) /\ SentOnce(<<c>>)
<1>1. DOMAIN <<c>> = {1} /\ Range(<<c>>) = {c} BY DEF Range
<1> QED BY <1>1 DEF Sent, SentOnce, NewSends

(* A command more at the end of a queue.                                    *)
LEMMA AppendSent ==
  ASSUME NEW queue \in Seq(Command), NEW c \in Command, SentOnce(queue),
         NewSends(c) \cap Sent(queue) = {}
  PROVE  LET longer == Append(queue, c) IN
         Sent(longer) = Sent(queue) \cup NewSends(c) /\ SentOnce(longer)
<1> DEFINE longer == Append(queue, c)
           L == Len(queue)
<1>1. /\ L \in Nat /\ DOMAIN queue = 1 .. L /\ DOMAIN longer = 1 .. L + 1
      /\ longer[L + 1] = c /\ \A i \in 1 .. L : longer[i] = queue[i]
  OBVIOUS
<1> HIDE DEF longer, L
<1>2. Range(longer) = Range(queue) \cup {c}
  <2>1. Range(longer) \subseteq Range(queue) \cup {c} BY <1>1 DEF Range
  <2>2. Range(queue) \cup {c} \subseteq Range(longer) BY <1>1 DEF Range
  <2> QED BY <2>1, <2>2
<1>3. SentOnce(longer)
  <2> SUFFICES ASSUME NEW q \in Requests, NEW i \in 1 .. L + 1, NEW j \in 1 .. L + 1,
                      longer[i] = SendText(q), longer[j] = SendText(q)
               PROVE  i = j
    BY <1>1 DEF SentOnce
  <2>1. CASE i = L + 1 /\ j # L + 1
    <3>1. q \in NewSends(c) /\ j \in DOMAIN queue /\ queue[j] = SendText(q)
      BY <1>1, <2>1 DEF NewSends
    <3>2. q \in Sent(queue) BY <3>1 DEF Sent, Range
    <3> QED BY <3>1, <3>2
  <2>2. CASE j = L + 1 /\ i # L + 1
    <3>1. q \in NewSends(c) /\ i \in DOMAIN queue /\ queue[i] = SendText(q)
      BY <1>1, <2>2 DEF NewSends
    <3>2. q \in Sent(queue) BY <3>1 DEF Sent, Range
    <3> QED BY <3>1, <3>2
  <2>3. CASE i # L + 1 /\ j # L + 1 BY <1>1, <2>3 DEF SentOnce
  <2> QED BY <2>1, <2>2, <2>3
<1>4. Sent(longer) = Sent(queue) \cup NewSends(c) BY <1>2 DEF Sent, NewSends
<1> QED BY <1>3, <1>4 DEF longer

(* Replay::note changes no send.                                            *)
LEMMA NoteSends ==
  ASSUME NEW s \in SupervisorState, NEW c
  PROVE  Note(s, c).sends = s.sends /\ Note(s, c).answers = s.answers
BY DEF Note

(* A request of the linked helper: its send waits, goes out, or is answered *)
(* because its line is too long.                                            *)
LEMMA RequestStays ==
  ASSUME NEW s \in SupervisorState, HasLink(s), SendInv(s), s.written = <<>>,
         s.greeted => s.held = <<>>,
         NEW c \in Command, NewSends(c) \cap s.sends = {}
  PROVE  LET t == Request(s, c) IN SendInv(t) /\ Stays(s, t, NewSends(c))
<1> DEFINE o == OpenSend(s, c)
           kept == IF c.type = "cancel" THEN Those(Command \ Pairings, o.held) ELSE o.held
           held == Append(kept, c)
           waits == [o EXCEPT !.held = held]
           N == NewSends(c)
           t == Request(s, c)
<1>1. o \in SupervisorState /\ SameQueue(s, o) /\ o.sends = s.sends \cup N /\ o.answers = s.answers
  <2>1. c.type = "send" => c.req \in Requests /\ N = {c.req}
    <3>1. CASE c.type = "send"
      <4>1. PICK q \in Requests : c = SendText(q)
        BY <3>1 DEF Command, Pairings, AcknowledgeGate, CancelLink, Load, BeginLink
      <4>2. \A p \in Requests : SendText(p) = SendText(q) => p = q BY DEF SendText
      <4>3. c.req = q BY <4>1 DEF SendText
      <4> QED BY <4>1, <4>2, <4>3 DEF NewSends
    <3> QED BY <3>1
  <2>2. CASE c.type = "send"
    <3> DEFINE sends == s.sends \cup {c.req}
    <3>1. o = [s EXCEPT !.sends = sends] BY <2>2 DEF OpenSend
    <3>2. sends \in SUBSET Requests BY <2>1, <2>2 DEF SupervisorState
    <3>3. sends = s.sends \cup N BY <2>1, <2>2
    <3> HIDE DEF sends, o, N
    <3> QED BY <3>1, <3>2, <3>3 DEF SupervisorState, SameQueue
  <2>3. CASE c.type # "send"
    <3>1. N = {} BY <2>3 DEF NewSends, SendText
    <3> HIDE DEF N
    <3> QED BY <2>3, <3>1 DEF OpenSend, SameQueue
  <2> QED BY <2>2, <2>3
<1>2. t = IF s.greeted THEN WriteRequests(o, <<c>>) ELSE waits BY DEF Request
<1> HIDE DEF o
<1>4. CASE s.greeted
  <2> DEFINE w == WriteRequests(o, <<c>>)
  <2>1. <<c>> \in Seq(Command) /\ Sent(<<c>>) = N /\ SentOnce(<<c>>) BY OneCommand
  <2>2. PICK qs \in SUBSET N :
          Settled(o, w, qs) /\ Sent(w.written) = N \ qs /\ SentOnce(w.written)
    BY <1>1, <2>1, WriteRequestsSends
  <2>3. w.link = s.link /\ w.held = s.held /\ w.stopping = s.stopping /\ w.greeted = s.greeted
    BY <1>1, <2>1, WriteRequestsQueue DEF SameQueue
  <2>4. t = w BY <1>2, <1>4
  <2> HIDE DEF t, w, N
  <2>5. Sent(s.held) = {} BY <1>4, NoSends
  <2>6. Counted(s, t, qs) /\ t.sends = (s.sends \cup N) \ qs
    BY <1>1, <2>2, <2>4 DEF Settled, Counted
  <2>7. SendInv(t) BY <1>4, <2>3, <2>4, <2>5 DEF SendInv, HasLink
  <2>8. qs \in SUBSET (Sent(s.held) \cup N) /\ qs \subseteq N /\ Sent(t.written) \subseteq (Sent(s.held) \cup N) \ qs
    BY <2>2, <2>4
  <2>9. Stays(s, t, N) BY <1>4, <2>2, <2>3, <2>4, <2>6, <2>8 DEF Stays
  <2> QED BY <2>7, <2>9 DEF t, N
<1>5. CASE ~s.greeted
  <2>1. kept \in Seq(Command) /\ Sent(kept) \subseteq Sent(s.held) /\ SentOnce(kept)
    <3>1. o.held = s.held /\ s.held \in Seq(Command) /\ SentOnce(s.held)
      BY <1>1 DEF SameQueue, SupervisorState, SendInv
    <3>2. Those(Command \ Pairings, s.held) \in Seq(Command)
      <4>1. Those(Command \ Pairings, s.held) \in Seq(Command \cap (Command \ Pairings))
        BY <3>1, ThoseFacts
      <4> QED BY <4>1
    <3>3. /\ Sent(Those(Command \ Pairings, s.held)) \subseteq Sent(s.held)
          /\ SentOnce(Those(Command \ Pairings, s.held))
      BY <3>1, ThoseSent
    <3> QED BY <3>1, <3>2, <3>3
  <2> HIDE DEF kept
  <2>2. Sent(held) = Sent(kept) \cup N /\ SentOnce(held)
    <3>1. N \cap Sent(kept) = {} BY <2>1 DEF SendInv
    <3> QED BY <2>1, <3>1, AppendSent
  <2> HIDE DEF held, N
  <2>3. /\ waits.link = s.link /\ waits.stopping = s.stopping /\ waits.greeted = s.greeted
        /\ waits.held = held /\ waits.written = <<>>
        /\ waits.sends = s.sends \cup N /\ waits.answers = s.answers
    BY <1>1 DEF SameQueue
  <2>4. t = waits BY <1>2, <1>5
  <2> HIDE DEF t, waits
  <2>5. SendInv(t) BY <2>1, <2>2, <2>3, <2>4 DEF SendInv, HasLink
  <2>6. Counted(s, t, {}) /\ t.sends = (s.sends \cup N) \ {} BY <2>3, <2>4 DEF Counted
  <2>7. Sent(t.written) = {} /\ SentOnce(t.written) BY <2>3, <2>4, NoSends
  <2>8. Stays(s, t, N) BY <2>3, <2>4, <2>6, <2>7 DEF Stays
  <2> QED BY <2>5, <2>8 DEF t, N
<1> QED BY <1>4, <1>5

(* What the sends depend on is the same in s and u.                         *)
SameSends(s, u) ==
    /\ u.link = s.link /\ u.greeted = s.greeted /\ u.held = s.held
    /\ u.stopping = s.stopping /\ u.sends = s.sends /\ u.answers = s.answers

(* A step from u is one from s then.                                        *)
LEMMA SameSendsFacts ==
  ASSUME NEW s, NEW u, SameSends(s, u)
  PROVE  /\ SendInv(u) <=> SendInv(s)
         /\ \A t, N : Stays(u, t, N) <=> Stays(s, t, N)
         /\ \A t, r : Launches(u, t, r) <=> Launches(s, t, r)
         /\ \A t : Leaves(u, t) <=> Leaves(s, t)
<1>1. SendInv(u) <=> SendInv(s) BY DEF SameSends, SendInv, HasLink
<1>2. \A t, qs : Counted(u, t, qs) <=> Counted(s, t, qs) BY DEF SameSends, Counted
<1>3. \A t, N : Stays(u, t, N) <=> Stays(s, t, N) BY <1>2 DEF SameSends, Stays
<1>4. \A t, r : Launches(u, t, r) <=> Launches(s, t, r)
  BY <1>2 DEF SameSends, Launches, HasLink
<1>5. \A t : Leaves(u, t) <=> Leaves(s, t) BY <1>2 DEF SameSends, Leaves, HasLink
<1> QED BY <1>1, <1>3, <1>4, <1>5

(* on_command: a send waits, goes out or is answered; a helper starts with  *)
(* no send; a close ignores the command.                                    *)
LEMMA OnCommandStays ==
  ASSUME NEW s, Ready(s), NEW c \in Command, NewSends(c) \cap s.sends = {},
         NEW outcome \in Outcomes, NEW r, outcome = "started" => r \in Runs
  PROVE  LET t == OnCommand(s, c, outcome, r)
             N == IF s.stopping THEN {} ELSE NewSends(c)
         IN  SendInv(t) /\ (Stays(s, t, N) \/ (Launches(s, t, r) /\ N = {}))
<1> DEFINE t == OnCommand(s, c, outcome, r)
           n == Note(s, c)
<1>0. /\ s \in SupervisorState /\ QueueInv(s) /\ s.written = <<>> /\ SendInv(s)
      /\ s.greeted => s.held = <<>>
  BY DEF Ready, QueueInv
<1>1. n \in SupervisorState /\ SameSends(s, n) /\ n.wakeLink = s.wakeLink /\ n.written = <<>>
  BY <1>0, NoteTyped, NoteSends, NoteQueue DEF SameSends
<1>2. CASE s.stopping
  <2>1. t = s BY <1>2 DEF OnCommand
  <2>2. Settled(s, t, {}) BY <2>1, SettlesNone
  <2> QED BY <1>0, <1>2, <2>1, <2>2, QuietStays
<1>3. CASE ~s.stopping /\ HasLink(s)
  <2>1. t = Request(n, c) BY <1>3 DEF OnCommand
  <2> HIDE DEF n, t
  <2>2. HasLink(n) /\ SendInv(n) /\ n.written = <<>> /\ (n.greeted => n.held = <<>>)
        /\ NewSends(c) \cap n.sends = {}
    BY <1>0, <1>1, <1>3, SameSendsFacts DEF SameSends, HasLink
  <2>3. SendInv(t) /\ Stays(n, t, NewSends(c)) BY <1>1, <2>1, <2>2, RequestStays
  <2> QED BY <1>1, <1>3, <2>3, SameSendsFacts DEF t
<1>4. CASE ~s.stopping /\ ~HasLink(s) /\ c.type = "gate"
  <2> DEFINE u == [n EXCEPT !.failures = 0]
  <2>1. t = Launch(u, outcome, r) BY <1>4 DEF OnCommand
  <2> HIDE DEF n
  <2>2. u \in SupervisorState /\ SameSends(s, u) /\ u.wakeLink = s.wakeLink /\ u.written = <<>>
    BY <1>1 DEF SupervisorState, SameSends
  <2> HIDE DEF u, t
  <2>3. Ready(u)
    <3>1. QueueInv(u) BY <1>0, <2>2 DEF QueueInv, SameSends, HasLink, Out
    <3> QED BY <1>0, <2>2, <3>1, SameSendsFacts DEF Ready
  <2>4. SendInv(t) /\ (Stays(u, t, {}) \/ Launches(u, t, r)) BY <2>1, <2>3, LaunchStays
  <2>5. NewSends(c) = {} BY <1>4 DEF NewSends, SendText
  <2> QED BY <2>2, <2>4, <2>5, SameSendsFacts DEF t
<1>5. CASE ~s.stopping /\ ~HasLink(s) /\ c.type = "begin"
  <2> DEFINE u == [s EXCEPT !.replayLink = NoGen, !.wakeLink = <<c>>, !.failures = 0]
  <2>1. t = Launch(u, outcome, r) BY <1>5 DEF OnCommand
  <2>2. <<c>> \in WakeLinks BY <1>5, PairingFacts DEF WakeLinks, IsBegin
  <2>3. u \in SupervisorState /\ SameSends(s, u) /\ u.written = <<>>
    <3> DEFINE wake == <<c>>
    <3>1. wake \in WakeLinks BY <2>2
    <3> HIDE DEF wake
    <3>2. NoGen \in Generations \cup {NoGen} OBVIOUS
    <3>3. LET v == [s EXCEPT !.replayLink = NoGen, !.wakeLink = wake, !.failures = 0] IN
          v \in SupervisorState /\ SameSends(s, v) /\ v.written = <<>>
      BY <1>0, <3>1, <3>2 DEF SupervisorState, SameSends
    <3> QED BY <3>3 DEF wake
  <2> HIDE DEF u, t
  <2>4. Ready(u)
    <3>1. QueueInv(u) BY <1>0, <1>5, <2>3 DEF QueueInv, SameSends, HasLink, Out
    <3> QED BY <1>0, <2>3, <3>1, SameSendsFacts DEF Ready
  <2>5. SendInv(t) /\ (Stays(u, t, {}) \/ Launches(u, t, r)) BY <2>1, <2>4, LaunchStays
  <2>6. NewSends(c) = {} BY <1>5 DEF NewSends, SendText
  <2> QED BY <2>3, <2>5, <2>6, SameSendsFacts DEF t
<1>6. CASE ~s.stopping /\ ~HasLink(s) /\ c.type \notin {"gate", "begin"}
  <2> DEFINE N == NewSends(c)
  <2>1. t = AnswerWithoutHelper(n, {c}) BY <1>6 DEF OnCommand
  <2> HIDE DEF n, t
  <2>2. Settled(n, t, N)
    <3>1. N = {q \in Requests : SendText(q) \in {c}} BY DEF NewSends
    <3> HIDE DEF N
    <3> QED BY <1>1, <2>1, <3>1, AnswerSettles
  <2>3. /\ t.link = s.link /\ t.greeted = s.greeted /\ t.held = s.held
        /\ t.written = <<>> /\ t.stopping = s.stopping
    BY <1>1, <2>1, AnswerQueue DEF SameSends
  <2>4. s.sends = {} BY <1>0, <1>6 DEF SendInv
  <2> HIDE DEF N
  <2>5. Counted(s, t, N) /\ t.sends = {}
    BY <1>1, <2>2, <2>4 DEF Settled, Counted, SameSends
  <2>6. SendInv(t) BY <1>0, <2>3, <2>4, <2>5 DEF SendInv
  <2>7. Sent(t.written) = {} /\ SentOnce(t.written) BY <2>3, NoSends
  <2>8. t.sends = (s.sends \cup N) \ N BY <2>4, <2>5
  <2>9. Stays(s, t, N) BY <2>3, <2>5, <2>7, <2>8 DEF Stays
  <2> QED BY <1>6, <2>6, <2>9 DEF t, N
<1> QED BY <1>2, <1>3, <1>4, <1>5, <1>6

(* on_restart changes no send.                                              *)
LEMMA OnRestartStays ==
  ASSUME NEW s, Ready(s), NEW outcome \in Outcomes, NEW r,
         outcome = "started" => r \in Runs
  PROVE  LET t == OnRestart(s, outcome, r) IN
         SendInv(t) /\ (Stays(s, t, {}) \/ Launches(s, t, r))
<1> DEFINE t == OnRestart(s, outcome, r)
           u == [s EXCEPT !.failures = 0]
<1>0. s \in SupervisorState /\ QueueInv(s) /\ s.written = <<>> /\ SendInv(s)
  BY DEF Ready, QueueInv
<1>1. t = s \/ t = Launch(u, outcome, r) BY DEF OnRestart
<1>2. u \in SupervisorState /\ SameSends(s, u) /\ u.wakeLink = s.wakeLink /\ u.written = <<>>
  BY <1>0 DEF SupervisorState, SameSends
<1> HIDE DEF u, t
<1>3. Ready(u)
  <2>1. QueueInv(u) BY <1>0, <1>2 DEF QueueInv, SameSends, HasLink, Out
  <2> QED BY <1>0, <1>2, <2>1, SameSendsFacts DEF Ready
<1>4. CASE t = s
  <2>1. Settled(s, t, {}) BY <1>4, SettlesNone
  <2> QED BY <1>0, <1>4, <2>1, QuietStays DEF t
<1>5. CASE t = Launch(u, outcome, r)
  <2>1. SendInv(t) /\ (Stays(u, t, {}) \/ Launches(u, t, r)) BY <1>3, <1>5, LaunchStays
  <2> QED BY <1>2, <2>1, SameSendsFacts DEF t
<1> QED BY <1>1, <1>4, <1>5

(* stop_for: with a link, it leaves and every open send is answered.        *)
LEMMA StopForLeaves ==
  ASSUME NEW s, Ready(s)
  PROVE  LET t == StopFor(s) IN SendInv(t) /\ (Leaves(s, t) \/ Stays(s, t, {}))
<1> DEFINE t == StopFor(s)
<1>0. /\ s \in SupervisorState /\ QueueInv(s) /\ s.written = <<>> /\ SendInv(s)
      /\ ~HasLink(s) => s.held = <<>> /\ ~s.greeted /\ s.sends = {}
  BY DEF Ready, QueueInv, SendInv
<1>1. /\ Settled(s, t, s.sends) /\ t.sends = {}
      /\ t.link = NoRun /\ t.held = <<>> /\ t.written = <<>> /\ t.stopping = s.stopping
      /\ ~t.greeted /\ t \in SupervisorState
  BY <1>0, StopForSettles, StopForQueue, StopForTyped
<1> HIDE DEF t
<1>2. SendInv(t) BY <1>1, NoSends DEF SendInv
<1>3. CASE HasLink(s) BY <1>1, <1>2, <1>3 DEF Leaves, Settled, HasLink, t
<1>4. CASE ~HasLink(s)
  <2>1. t.greeted = s.greeted /\ s.link = NoRun
    BY <1>0, <1>1, <1>4 DEF SupervisorState, HasLink
  <2>2. Settled(s, t, {}) BY <1>0, <1>1, <1>4
  <2> QED BY <1>0, <1>1, <1>4, <2>1, <2>2, QuietStays DEF t
<1> QED BY <1>3, <1>4

(* finish_stop: the link leaves, and the close answers nothing more.        *)
LEMMA FinishStopLeaves ==
  ASSUME NEW s, Ready(s), s.stopping
  PROVE  LET t == FinishStop(s) IN SendInv(t) /\ (Leaves(s, t) \/ Stays(s, t, {}))
<1> DEFINE t == FinishStop(s)
<1>0. /\ s \in SupervisorState /\ s.written = <<>>
      /\ ~HasLink(s) => s.held = <<>> /\ ~s.greeted /\ s.sends = {}
  BY DEF Ready, QueueInv, SendInv
<1>1. /\ t.sends = {} /\ t.answers = s.answers
      /\ t.link = NoRun /\ t.held = <<>> /\ t.written = <<>> /\ t.stopping = s.stopping
      /\ t.greeted = FALSE
  BY <1>0 DEF FinishStop, DropLink, SupervisorState
<1> HIDE DEF t
<1>2. SendInv(t) /\ Counted(s, t, {}) BY <1>1, NoSends DEF SendInv, Counted
<1>3. CASE HasLink(s) BY <1>1, <1>2, <1>3 DEF Leaves, HasLink, t
<1>4. CASE ~HasLink(s)
  <2>1. s.greeted = FALSE /\ s.link = NoRun BY <1>0, <1>4 DEF HasLink
  <2>2. Settled(s, t, {}) BY <1>0, <1>1, <1>2, <1>4 DEF Settled
  <2> QED BY <1>0, <1>1, <1>4, <2>1, <2>2, QuietStays DEF t
<1> QED BY <1>3, <1>4

(* The helper of the link ends.                                             *)
LEMMA HelperEndedLeaves ==
  ASSUME NEW s, Ready(s), HasLink(s), NEW stable \in BOOLEAN
  PROVE  /\ SendInv(HelperEnded(s, stable)) /\ Leaves(s, HelperEnded(s, stable))
         /\ SendInv(OnHelperGone(s, stable)) /\ Leaves(s, OnHelperGone(s, stable))
<1>0. s \in SupervisorState /\ s.written = <<>> /\ Sent(s.held) \subseteq s.sends
  BY DEF Ready, QueueInv, SendInv
<1> DEFINE t == HelperEnded(s, stable)
           u == FinishStop(s)
<1>1. /\ Settled(s, t, s.sends) /\ t.sends = {}
      /\ t.link = NoRun /\ t.held = <<>> /\ t.written = <<>> /\ t.stopping = s.stopping
  BY <1>0, HelperEndedSettles
<1> HIDE DEF t
<1>2. SendInv(t) /\ Leaves(s, t) BY <1>1, NoSends DEF SendInv, Leaves, Settled, HasLink
<1>3. ASSUME s.stopping PROVE SendInv(u) /\ Leaves(s, u)
  <2>1. /\ u.sends = {} /\ u.answers = s.answers
        /\ u.link = NoRun /\ u.held = <<>> /\ u.written = <<>> /\ u.stopping = s.stopping
    BY <1>0, FinishStopSettles
  <2> HIDE DEF u
  <2>2. Counted(s, u, {}) BY <2>1 DEF Counted
  <2> QED BY <1>3, <2>1, <2>2, NoSends DEF SendInv, Leaves, HasLink
<1>4. OnHelperGone(s, stable) = IF s.stopping THEN u ELSE t BY DEF OnHelperGone, t
<1> HIDE DEF u
<1> QED BY <1>2, <1>3, <1>4 DEF t

(* Hello: each send that waited goes out, or is answered because its line   *)
(* is too long.                                                             *)
LEMMA OnHelloStays ==
  ASSUME NEW s, Ready(s), HasLink(s), ~s.greeted
  PROVE  LET t == OnHello(s) IN SendInv(t) /\ Stays(s, t, {})
<1> DEFINE u == [s EXCEPT !.greeted = TRUE, !.held = <<>>]
           v == Report(u, "Running")
           t == OnHello(s)
<1>0. /\ s \in SupervisorState /\ s.held \in Seq(Command) /\ SentOnce(s.held)
      /\ Sent(s.held) \subseteq s.sends
  BY DEF Ready, QueueInv, SendInv, SupervisorState
<1>1. /\ u \in SupervisorState
      /\ u.link = s.link /\ u.greeted /\ u.held = <<>> /\ u.stopping = s.stopping
      /\ u.sends = s.sends /\ u.answers = s.answers
  <2>1. <<>> \in Seq(Command) OBVIOUS
  <2> QED BY <1>0, <2>1 DEF SupervisorState
<1>2. t = WriteRequests(v, s.held) BY DEF OnHello
<1> HIDE DEF u
<1>3. v \in SupervisorState /\ SameQueue(u, v) /\ Settled(u, v, {})
  BY <1>1, ReportTyped, ReportQueue, ReportSettles DEF HelperState
<1> HIDE DEF v, t
<1>4. PICK qs \in SUBSET Sent(s.held) :
        Settled(v, t, qs) /\ Sent(t.written) = Sent(s.held) \ qs /\ SentOnce(t.written)
  BY <1>0, <1>2, <1>3, WriteRequestsSends
<1>5. t.link = v.link /\ t.greeted = v.greeted /\ t.held = v.held /\ t.stopping = v.stopping
  BY <1>0, <1>2, <1>3, WriteRequestsQueue
<1>6. t.link = s.link /\ t.greeted /\ t.held = <<>> /\ t.stopping = s.stopping
  BY <1>1, <1>3, <1>5 DEF SameQueue
<1>7. Counted(s, t, qs) /\ t.sends = (s.sends \cup {}) \ qs
  BY <1>1, <1>3, <1>4 DEF Settled, Counted
<1>8. SendInv(t) BY <1>6, NoSends DEF SendInv, HasLink
<1>9. Stays(s, t, {}) BY <1>4, <1>6, <1>7 DEF Stays
<1> QED BY <1>8, <1>9 DEF t

(* The lines and the timer that tell of no send.                            *)
LEMMA EventsStay ==
  ASSUME NEW s, Ready(s), NEW t,
         \/ \E slow \in BOOLEAN : t = OnAck(s, slow)
         \/ \E state \in AccountState : t = OnAccount(s, state)
         \/ t = EndPairing(s)
         \/ t = [s EXCEPT !.loading = FALSE]
         \/ t = Report(s, "Busy")
         \/ t = s
  PROVE  SendInv(t) /\ Stays(s, t, {})
<1>0. s \in SupervisorState /\ s.written = <<>> BY DEF Ready, QueueInv
<1> DEFINE Alike(a, b) == SameQueue(a, b) /\ b.sends = a.sends /\ b.answers = a.answers
<1>r. ASSUME NEW a \in SupervisorState, NEW state PROVE Alike(a, Report(a, state))
  <2>1. Report(a, state).sends = a.sends /\ Report(a, state).answers = a.answers
    BY DEF Report
  <2> QED BY <2>1, ReportQueue
<1>1. ASSUME NEW slow \in BOOLEAN, t = OnAck(s, slow) PROVE Alike(s, t)
  <2> DEFINE left == IF s.unacked = 0 THEN 0 ELSE s.unacked - 1
             u == [s EXCEPT !.unacked = left]
  <2>1. left \in Nat BY <1>0 DEF SupervisorState
  <2>2. u \in SupervisorState /\ Alike(s, u)
    <3> HIDE DEF left
    <3> QED BY <1>0, <2>1 DEF SupervisorState, SameQueue
  <2>3. t = u \/ t = Report(u, "Running") BY <1>1 DEF OnAck
  <2> HIDE DEF u
  <2>4. Alike(u, Report(u, "Running")) BY <1>r, <2>2
  <2> QED BY <2>2, <2>3, <2>4 DEF SameQueue
<1> DEFINE Like(b) == /\ b.link = s.link /\ b.greeted = s.greeted /\ b.held = s.held
                      /\ b.written = s.written /\ b.stopping = s.stopping
                      /\ b.sends = s.sends /\ b.answers = s.answers
<1>2. ASSUME NEW state \in AccountState, t = OnAccount(s, state) PROVE Like(t)
  <2> DEFINE u == [s EXCEPT !.account = state]
  <2>1. u \in SupervisorState /\ Like(u) BY <1>0, <1>2 DEF SupervisorState
  <2>2. t = u \/ t = EndPairing(u) \/ t = [u EXCEPT !.linkedOnce = TRUE]
    BY <1>2 DEF OnAccount, AccountState
  <2> HIDE DEF u
  <2> QED BY <2>1, <2>2 DEF EndPairing, SupervisorState
<1>3. ASSUME t = EndPairing(s) PROVE Like(t)
  BY <1>0, <1>3 DEF EndPairing
<1>4. ASSUME t = [s EXCEPT !.loading = FALSE] PROVE Like(t)
  BY <1>0, <1>4
<1>5. Like(t)
  <2>1. ASSUME NEW b, Alike(s, b) PROVE Like(b) BY <2>1 DEF SameQueue
  <2>2. Alike(s, Report(s, "Busy")) BY <1>0, <1>r
  <2>3. Like(Report(s, "Busy")) BY <2>1, <2>2
  <2>4. ASSUME NEW slow \in BOOLEAN, t = OnAck(s, slow) PROVE Like(t)
    BY <1>1, <2>1, <2>4
  <2>5. Like(s) OBVIOUS
  <2> HIDE DEF Like, Alike
  <2> QED BY <1>2, <1>3, <1>4, <2>3, <2>4, <2>5
<1>6. Settled(s, t, {}) BY <1>5, SettlesNone
<1> QED BY <1>0, <1>5, <1>6, QuietStays

(* The answer of a helper to a send closes it.                              *)
LEMMA OnSendAnswerStays ==
  ASSUME NEW s, Ready(s), s.greeted, NEW q \in Requests
  PROVE  LET t == OnSendAnswer(s, q) IN
         /\ SendInv(t) /\ Settled(s, t, {q})
         /\ t.link = s.link /\ t.stopping = s.stopping /\ t.greeted /\ t.written = <<>>
<1> DEFINE sends == s.sends \ {q}
           answers == [s.answers EXCEPT ![q] = @ + 1]
           t == OnSendAnswer(s, q)
<1>0. /\ s \in SupervisorState /\ s.written = <<>> /\ s.held = <<>> /\ SendInv(s)
      /\ s.answers \in [Requests -> Nat]
  BY DEF Ready, QueueInv, SupervisorState
<1>1. t = [s EXCEPT !.sends = sends, !.answers = answers] BY DEF OnSendAnswer
<1> HIDE DEF t
<1>2. /\ t.sends = sends /\ t.answers = answers /\ t.link = s.link /\ t.held = <<>>
      /\ t.stopping = s.stopping /\ t.greeted /\ t.written = <<>>
  <2> HIDE DEF sends, answers
  <2> QED BY <1>0, <1>1
<1>3. Settled(s, t, {q}) BY <1>0, <1>2 DEF Settled, Counted
<1>4. SendInv(t) BY <1>0, <1>2, NoSends DEF SendInv, HasLink
<1> QED BY <1>2, <1>3, <1>4 DEF t

(* The app closes: no send is answered, none is lost to the helper.         *)
LEMMA OnShutdownSends ==
  ASSUME NEW s, Ready(s)
  PROVE  LET t == OnShutdown(s) IN
         /\ SendInv(t) /\ Settled(s, t, {}) /\ t.link = s.link /\ t.stopping
         /\ t.greeted = s.greeted /\ t.held = s.held /\ Sent(t.written) = {}
<1> DEFINE off == [s EXCEPT !.stopping = TRUE, !.restartArmed = FALSE,
                            !.wakeLink = <<>>, !.startWaits = FALSE]
           asks == [off EXCEPT !.written = <<Shutdown>>, !.stopArmed = TRUE]
           t == OnShutdown(s)
<1>0. s \in SupervisorState /\ s.written = <<>> /\ SendInv(s) /\ QueueInv(s)
  BY DEF Ready, QueueInv
<1>1. off \in SupervisorState BY <1>0 DEF SupervisorState, WakeLinks
<1>2. /\ off.link = s.link /\ off.greeted = s.greeted /\ off.held = s.held
      /\ off.written = <<>> /\ off.stopping /\ off.sends = s.sends /\ off.answers = s.answers
  BY <1>0
<1>3. \/ t = s /\ s.stopping
      \/ ~HasLink(s) /\ t = FinishStop(off)
      \/ HasLink(s) /\ t = asks
  BY DEF OnShutdown
<1>4. CASE t = s /\ s.stopping BY <1>0, <1>4, SettlesNone, NoSends
<1> HIDE DEF off, t
<1>5. CASE ~HasLink(s) /\ t = FinishStop(off)
  <2>1. s.sends = {} /\ s.held = <<>> /\ ~s.greeted /\ s.link = NoRun
    BY <1>0, <1>5 DEF SendInv, QueueInv, HasLink
  <2>2. /\ t.sends = {} /\ t.answers = off.answers
        /\ t.link = NoRun /\ t.held = <<>> /\ t.written = off.written /\ t.stopping
        /\ t.greeted = FALSE
    BY <1>1, <1>2, <1>5 DEF FinishStop, DropLink
  <2>3. Settled(s, t, {}) BY <1>2, <2>1, <2>2, SettlesNone
  <2>4. SendInv(t) BY <2>2, NoSends DEF SendInv
  <2>5. s.greeted = FALSE BY <1>0, <2>1
  <2> QED BY <1>2, <2>1, <2>2, <2>3, <2>4, <2>5, NoSends DEF t
<1>6. CASE HasLink(s) /\ t = asks
  <2>1. /\ t.link = s.link /\ t.greeted = s.greeted /\ t.held = s.held
        /\ t.written = <<Shutdown>> /\ t.stopping /\ t.sends = s.sends /\ t.answers = s.answers
    BY <1>1, <1>2, <1>6
  <2>2. Sent(<<Shutdown>>) = {}
    <3>1. Sent(<<Shutdown>>) = NewSends(Shutdown) BY OneCommand
    <3>2. \A q : Shutdown # SendText(q) BY DEF Shutdown, SendText
    <3> QED BY <3>1, <3>2 DEF NewSends
  <2>3. SendInv(t) BY <1>0, <1>6, <2>1 DEF SendInv, HasLink
  <2> QED BY <2>1, <2>2, <2>3, SettlesNone DEF t
<1> QED BY <1>3, <1>4, <1>5, <1>6 DEF t

(* The exit of a process, and the start that waits for it.                  *)
LEMMA OnExitedStays ==
  ASSUME NEW s, Ready(s), NEW r \in Runs, NEW outcome \in Outcomes,
         NEW new, outcome = "started" => new \in Runs
  PROVE  LET t == OnExited(s, r, outcome, new) IN
         SendInv(t) /\ (Stays(s, t, {}) \/ Launches(s, t, new))
<1> DEFINE draining == s.draining \/ s.link = r
           alive == s.alive \ {r}
           u == [s EXCEPT !.alive = alive, !.draining = draining]
           t == OnExited(s, r, outcome, new)
<1>1. s \in SupervisorState /\ QueueInv(s) /\ s.written = <<>> /\ SendInv(s)
  BY DEF Ready, QueueInv
<1>2. draining \in BOOLEAN /\ alive \in SUBSET Runs BY <1>1 DEF SupervisorState
<1>3. t = u \/ t = Launch(u, outcome, new) BY DEF OnExited
<1> HIDE DEF draining, alive
<1>4. u \in SupervisorState /\ SameQueue(s, u) /\ SameSends(s, u)
  BY <1>1, <1>2 DEF SupervisorState, SameQueue, SameSends
<1> HIDE DEF u, t
<1>5. Ready(u) /\ u.written = <<>>
  BY <1>1, <1>4, SameQueueFacts, SameSendsFacts DEF SameQueue, Ready
<1>6. CASE t = u
  <2>1. Settled(s, t, {}) BY <1>4, <1>6, SettlesNone DEF SameSends
  <2>2. /\ t.link = s.link /\ t.held = s.held /\ t.stopping = s.stopping
        /\ t.greeted = s.greeted /\ t.written = <<>>
    BY <1>4, <1>5, <1>6 DEF SameSends
  <2>3. SendInv(t) /\ Stays(s, t, {}) BY <2>1, <2>2, QuietStays
  <2> QED BY <2>3 DEF t
<1>7. CASE t = Launch(u, outcome, new)
  <2>1. SendInv(t) /\ (Stays(u, t, {}) \/ Launches(u, t, new))
    BY <1>5, <1>7, LaunchStays
  <2> QED BY <1>4, <2>1, SameSendsFacts DEF t
<1> QED BY <1>3, <1>6, <1>7

-----------------------------------------------------------------------------
(* The risk gate of a pairing: the acceptance travels in the same queues as *)
(* the pairing starts, and a cancel takes it back.                          *)

(* A helper that took the first n commands of a queue holds the acceptance, *)
(* if it held it before them where g says so.                               *)
GateBefore(queue, g, n) ==
    \/ g /\ \A i \in 1 .. n : queue[i].type # "cancel"
    \/ \E i \in 1 .. n :
         queue[i].type = "gate" /\ \A j \in (i + 1) .. n : queue[j].type # "cancel"

(* Every pairing start of the queue finds the acceptance at the helper, and *)
(* so will the next one.                                                    *)
Gated(queue, g) == \A i \in DOMAIN queue : IsBegin(queue[i]) => GateBefore(queue, g, i - 1)
EndsGated(queue, g) == GateBefore(queue, g, Len(queue))

GateAfter(g, c) == c.type = "gate" \/ (g /\ c.type # "cancel")

(* An acceptance that the helper holds before the queue does no harm.       *)
LEMMA GateMore ==
  ASSUME NEW queue, NEW g, NEW h, g => h
  PROVE  /\ Gated(queue, g) => Gated(queue, h)
         /\ EndsGated(queue, g) => EndsGated(queue, h)
BY DEF Gated, EndsGated, GateBefore

(* The helper takes the head of its queue.                                  *)
LEMMA GateTail ==
  ASSUME NEW S, NEW queue \in Seq(S), queue # <<>>, NEW g, NEW h,
         GateAfter(g, Head(queue)) => h
  PROVE  /\ Gated(queue, g) => Gated(Tail(queue), h)
         /\ EndsGated(queue, g) => EndsGated(Tail(queue), h)
<1> DEFINE rest == Tail(queue)
           L == Len(queue)
<1>1. /\ L \in Nat \ {0} /\ Len(rest) = L - 1 /\ DOMAIN rest = 1 .. L - 1
      /\ DOMAIN queue = 1 .. L /\ Head(queue) = queue[1]
      /\ \A i \in 1 .. L - 1 : rest[i] = queue[i + 1]
  OBVIOUS
<1> HIDE DEF rest, L
<1>2. ASSUME NEW n \in 1 .. L, GateBefore(queue, g, n)
      PROVE  GateBefore(rest, h, n - 1)
  <2>1. CASE g /\ \A i \in 1 .. n : queue[i].type # "cancel"
    <3>1. h BY <1>1, <2>1 DEF GateAfter
    <3>2. ASSUME NEW i \in 1 .. n - 1 PROVE rest[i].type # "cancel"
      <4>1. i + 1 \in 1 .. n /\ i \in 1 .. L - 1 BY <1>1
      <4> QED BY <1>1, <2>1, <4>1
    <3> QED BY <3>1, <3>2 DEF GateBefore
  <2>2. CASE \E i \in 1 .. n : /\ queue[i].type = "gate"
                               /\ \A j \in (i + 1) .. n : queue[j].type # "cancel"
    <3>1. PICK i \in 1 .. n : /\ queue[i].type = "gate"
                              /\ \A j \in (i + 1) .. n : queue[j].type # "cancel"
      BY <2>2
    <3>2. ASSUME NEW j \in i .. n - 1, j # 0 PROVE rest[j].type # "cancel"
      <4>1. j + 1 \in (i + 1) .. n /\ j \in 1 .. L - 1 BY <1>1, <3>2
      <4> QED BY <1>1, <3>1, <4>1
    <3>3. CASE i = 1
      <4>1. h BY <1>1, <3>1, <3>3 DEF GateAfter
      <4>2. \A j \in 1 .. n - 1 : rest[j].type # "cancel" BY <3>2, <3>3
      <4> QED BY <4>1, <4>2 DEF GateBefore
    <3>4. CASE i # 1
      <4>1. i - 1 \in 1 .. n - 1 /\ i - 1 \in 1 .. L - 1 /\ rest[i - 1] = queue[i]
        <5>1. i - 1 \in 1 .. n - 1 /\ i - 1 \in 1 .. L - 1 /\ (i - 1) + 1 = i
          BY <1>1, <3>4
        <5> QED BY <1>1, <5>1
      <4>2. \A j \in ((i - 1) + 1) .. n - 1 : rest[j].type # "cancel" BY <3>2
      <4> QED BY <3>1, <4>1, <4>2 DEF GateBefore
    <3> QED BY <3>3, <3>4
  <2> QED BY <1>2, <2>1, <2>2 DEF GateBefore
<1>3. ASSUME Gated(queue, g), NEW i \in DOMAIN rest, IsBegin(rest[i])
      PROVE  GateBefore(rest, h, i - 1)
  <2>1. i + 1 \in DOMAIN queue /\ rest[i] = queue[i + 1] /\ (i + 1) - 1 = i /\ i \in 1 .. L
    BY <1>1
  <2>2. GateBefore(queue, g, i) BY <1>3, <2>1 DEF Gated
  <2> QED BY <1>2, <2>1, <2>2
<1>4. EndsGated(queue, g) => EndsGated(rest, h) BY <1>1, <1>2 DEF EndsGated, L
<1> QED BY <1>3, <1>4 DEF Gated, rest

(* Commands go into the pipe behind those that are in it.                   *)
LEMMA GateConcat ==
  ASSUME NEW S, NEW front \in Seq(S), NEW back \in Seq(S), NEW g, NEW h,
         h => EndsGated(front, g)
  PROVE  /\ Gated(front, g) /\ Gated(back, h) => Gated(front \o back, g)
         /\ EndsGated(back, h) => EndsGated(front \o back, g)
<1> DEFINE queue == front \o back
           F == Len(front)
           B == Len(back)
<1>1. /\ F \in Nat /\ B \in Nat /\ DOMAIN queue = 1 .. F + B /\ Len(queue) = F + B
      /\ DOMAIN front = 1 .. F /\ DOMAIN back = 1 .. B
      /\ \A i \in 1 .. F : queue[i] = front[i]
      /\ \A i \in 1 .. B : queue[F + i] = back[i]
  OBVIOUS
<1>2. EndsGated(front, g) <=> GateBefore(front, g, F) BY DEF EndsGated
<1>3. EndsGated(back, h) <=> GateBefore(back, h, B) BY DEF EndsGated
<1> HIDE DEF queue, F, B
<1>4. ASSUME NEW n \in 0 .. F, GateBefore(front, g, n) PROVE GateBefore(queue, g, n)
  <2>1. \A i \in 1 .. n : queue[i] = front[i] BY <1>1
  <2>2. \A i \in 1 .. n : \A j \in (i + 1) .. n : queue[j] = front[j] BY <1>1
  <2> QED BY <1>4, <2>1, <2>2 DEF GateBefore
<1>5. ASSUME NEW n \in 0 .. B, GateBefore(back, h, n) PROVE GateBefore(queue, g, F + n)
  <2>0. \A k \in (F + 1) .. F + n : k - F \in 1 .. n /\ queue[k] = back[k - F]
    <3> SUFFICES ASSUME NEW k \in (F + 1) .. F + n
                 PROVE  k - F \in 1 .. n /\ queue[k] = back[k - F]
      OBVIOUS
    <3>1. k - F \in 1 .. n /\ k - F \in 1 .. B /\ F + (k - F) = k BY <1>1
    <3> QED BY <1>1, <3>1
  <2>1. CASE h /\ \A i \in 1 .. n : back[i].type # "cancel"
    <3>1. GateBefore(queue, g, F) BY <1>1, <1>2, <1>4, <2>1
    <3>2. \A k \in (F + 1) .. F + n : queue[k].type # "cancel" BY <2>0, <2>1
    <3>3. CASE g /\ \A i \in 1 .. F : queue[i].type # "cancel"
      <4>1. ASSUME NEW k \in 1 .. F + n PROVE queue[k].type # "cancel"
        <5>1. k \in 1 .. F \/ k \in (F + 1) .. F + n BY <1>1
        <5> QED BY <3>2, <3>3, <5>1
      <4> QED BY <3>3, <4>1 DEF GateBefore
    <3>4. CASE \E i \in 1 .. F : /\ queue[i].type = "gate"
                                 /\ \A j \in (i + 1) .. F : queue[j].type # "cancel"
      <4>1. PICK i \in 1 .. F : /\ queue[i].type = "gate"
                                /\ \A j \in (i + 1) .. F : queue[j].type # "cancel"
        BY <3>4
      <4>2. ASSUME NEW k \in (i + 1) .. F + n PROVE queue[k].type # "cancel"
        <5>1. k \in (i + 1) .. F \/ k \in (F + 1) .. F + n BY <1>1
        <5> QED BY <3>2, <4>1, <5>1
      <4>3. i \in 1 .. F + n BY <1>1
      <4> QED BY <4>1, <4>2, <4>3 DEF GateBefore
    <3> QED BY <3>1, <3>3, <3>4 DEF GateBefore
  <2>2. CASE \E i \in 1 .. n : /\ back[i].type = "gate"
                               /\ \A j \in (i + 1) .. n : back[j].type # "cancel"
    <3>1. PICK i \in 1 .. n : /\ back[i].type = "gate"
                              /\ \A j \in (i + 1) .. n : back[j].type # "cancel"
      BY <2>2
    <3>2. F + i \in 1 .. F + n /\ queue[F + i] = back[i] BY <1>1
    <3>3. ASSUME NEW k \in (F + i + 1) .. F + n PROVE queue[k].type # "cancel"
      <4>1. k \in (F + 1) .. F + n /\ k - F \in (i + 1) .. n BY <1>1
      <4> QED BY <2>0, <3>1, <4>1
    <3> QED BY <3>1, <3>2, <3>3 DEF GateBefore
  <2> QED BY <1>5, <2>1, <2>2 DEF GateBefore
<1>6. ASSUME Gated(front, g), Gated(back, h), NEW i \in DOMAIN queue, IsBegin(queue[i])
      PROVE  GateBefore(queue, g, i - 1)
  <2>1. CASE i <= F
    <3>1. i \in DOMAIN front /\ queue[i] = front[i] /\ i - 1 \in 0 .. F BY <1>1, <2>1
    <3> QED BY <1>4, <1>6, <3>1 DEF Gated
  <2>2. CASE i > F
    <3>1. /\ i - F \in DOMAIN back /\ (i - F) - 1 \in 0 .. B
          /\ F + (i - F) = i /\ F + ((i - F) - 1) = i - 1
      BY <1>1, <2>2
    <3>2. queue[i] = back[i - F] BY <1>1, <3>1
    <3>3. GateBefore(back, h, (i - F) - 1) BY <1>6, <3>1, <3>2 DEF Gated
    <3> QED BY <1>5, <3>1, <3>3
  <2> QED BY <1>1, <2>1, <2>2
<1>7. EndsGated(back, h) => EndsGated(queue, g)
  <2>1. GateBefore(back, h, B) => GateBefore(queue, g, F + B) BY <1>1, <1>5
  <2> QED BY <1>1, <1>3, <2>1 DEF EndsGated
<1> QED BY <1>6, <1>7 DEF Gated, queue

(* One command more.                                                        *)
LEMMA GateAppend ==
  ASSUME NEW S, NEW front \in Seq(S), NEW c \in S, NEW g
  PROVE  /\ Gated(front, g) /\ (IsBegin(c) => EndsGated(front, g)) => Gated(Append(front, c), g)
         /\ GateAfter(EndsGated(front, g), c) => EndsGated(Append(front, c), g)
<1> DEFINE h == EndsGated(front, g)
           back == <<c>>
<1>1. back \in Seq(S) /\ Append(front, c) = front \o back OBVIOUS
<1>2. DOMAIN back = {1} /\ back[1] = c /\ Len(back) = 1 OBVIOUS
<1> HIDE DEF h, back
<1>3. (IsBegin(c) => h) => Gated(back, h)
  <2>1. 1 .. 1 - 1 = {} OBVIOUS
  <2> QED BY <1>2, <2>1 DEF Gated, GateBefore
<1>4. GateAfter(h, c) => EndsGated(back, h)
  <2>1. 1 .. 1 = {1} /\ (1 + 1) .. 1 = {} OBVIOUS
  <2> QED BY <1>2, <2>1 DEF EndsGated, GateBefore, GateAfter
<1>5. h => EndsGated(front, g) BY DEF h
<1> QED BY <1>1, <1>3, <1>4, <1>5, GateConcat DEF h

(* A filter that lets every acceptance and every cancel pass.               *)
LEMMA GateThose ==
  ASSUME NEW T, NEW queue \in Seq(T), NEW S, NEW g,
         \A i \in DOMAIN queue : queue[i].type \in {"gate", "cancel"} => queue[i] \in S
  PROVE  /\ Gated(queue, g) => Gated(Those(S, queue), g)
         /\ EndsGated(queue, g) => EndsGated(Those(S, queue), g)
<1> DEFINE those == Those(S, queue)
           L == Len(those)
           N == Len(queue)
<1>1. PICK f : /\ Picks(f, those, queue)
               /\ \A j \in 1 .. N : queue[j] \in S => \E i \in 1 .. L : f[i] = j
  BY ThoseFacts
<1>2. /\ L \in Nat /\ N \in Nat /\ DOMAIN those = 1 .. L /\ DOMAIN queue = 1 .. N
      /\ f \in [1 .. L -> 1 .. N]
      /\ \A i \in 1 .. L : those[i] = queue[f[i]]
      /\ \A i, j \in 1 .. L : i < j => f[i] < f[j]
  <2>1. those \in Seq(T \cap S) BY ThoseFacts
  <2> HIDE DEF those
  <2> QED BY <1>1, <2>1 DEF Picks
<1> HIDE DEF those, L, N
<1>3. ASSUME NEW n \in 0 .. N, NEW m \in 0 .. L, GateBefore(queue, g, n),
             \A k \in 1 .. L : k <= m <=> f[k] <= n
      PROVE  GateBefore(those, g, m)
  <2>1. CASE g /\ \A i \in 1 .. n : queue[i].type # "cancel"
    <3>1. ASSUME NEW k \in 1 .. m PROVE those[k].type # "cancel"
      <4>1. k \in 1 .. L /\ k <= m BY <1>2
      <4>2. f[k] \in 1 .. N /\ f[k] <= n BY <1>2, <1>3, <4>1
      <4>3. f[k] \in 1 .. n BY <1>2, <4>2
      <4> QED BY <1>2, <2>1, <4>1, <4>3
    <3> QED BY <2>1, <3>1 DEF GateBefore
  <2>2. CASE \E i \in 1 .. n : /\ queue[i].type = "gate"
                               /\ \A j \in (i + 1) .. n : queue[j].type # "cancel"
    <3>1. PICK i \in 1 .. n : /\ queue[i].type = "gate"
                              /\ \A j \in (i + 1) .. n : queue[j].type # "cancel"
      BY <2>2
    <3>2. i \in 1 .. N BY <1>2
    <3>3. PICK k \in 1 .. L : f[k] = i BY <1>1, <1>2, <3>1, <3>2
    <3>4. k \in 1 .. m /\ those[k] = queue[i] BY <1>2, <1>3, <3>3
    <3>5. ASSUME NEW j \in (k + 1) .. m PROVE those[j].type # "cancel"
      <4>1. j \in 1 .. L /\ k < j /\ j <= m BY <1>2
      <4>2. f[j] \in (i + 1) .. n BY <1>2, <1>3, <3>3, <4>1
      <4> QED BY <1>2, <3>1, <4>1, <4>2
    <3> QED BY <3>1, <3>4, <3>5 DEF GateBefore
  <2> QED BY <1>3, <2>1, <2>2 DEF GateBefore
<1>4. ASSUME Gated(queue, g), NEW i \in DOMAIN those, IsBegin(those[i])
      PROVE  GateBefore(those, g, i - 1)
  <2>1. i \in 1 .. L /\ f[i] \in 1 .. N /\ those[i] = queue[f[i]] BY <1>2
  <2>2. GateBefore(queue, g, f[i] - 1) BY <1>2, <1>4, <2>1 DEF Gated
  <2>3. ASSUME NEW k \in 1 .. L PROVE k <= i - 1 <=> f[k] <= f[i] - 1
    <3>1. f[k] \in 1 .. N BY <1>2
    <3>2. k < i \/ k = i \/ i < k BY <2>1
    <3> QED BY <1>2, <2>1, <3>1, <3>2
  <2>4. f[i] - 1 \in 0 .. N /\ i - 1 \in 0 .. L BY <1>2, <2>1
  <2> QED BY <1>3, <2>2, <2>3, <2>4
<1>5. EndsGated(queue, g) => EndsGated(those, g)
  <2>1. N \in 0 .. N /\ L \in 0 .. L /\ \A k \in 1 .. L : k <= L <=> f[k] <= N BY <1>2
  <2>2. GateBefore(queue, g, N) => GateBefore(those, g, L) BY <1>3, <2>1
  <2> QED BY <2>2 DEF EndsGated, L, N
<1> QED BY <1>4, <1>5 DEF Gated, those

(* A queue without a pairing start needs no acceptance.                     *)
LEMMA GateNotNeeded ==
  ASSUME NEW S, NEW queue \in Seq(S), \A c \in Range(queue) : ~IsBegin(c), NEW g
  PROVE  Gated(queue, g)
BY DEF Gated, Range

(* An empty queue changes nothing.                                          *)
LEMMA GateEmpty == \A g : Gated(<<>>, g) /\ (EndsGated(<<>>, g) <=> g)
<1>1. DOMAIN <<>> = {} /\ Len(<<>>) = 0 /\ 1 .. 0 = {} OBVIOUS
<1> QED BY <1>1 DEF Gated, EndsGated, GateBefore

(* Pairing starts need the acceptance before them and keep it.              *)
LEMMA GatePairings ==
  ASSUME NEW queue \in Seq(Pairings), NEW g, g
  PROVE  Gated(queue, g) /\ EndsGated(queue, g)
<1> DEFINE L == Len(queue)
<1>1. L \in Nat /\ DOMAIN queue = 1 .. L /\ \A i \in 1 .. L : queue[i] \in Pairings
  OBVIOUS
<1>2. \A c \in Pairings : c.type = "begin" BY DEF Pairings, BeginLink
<1> HIDE DEF L
<1>3. ASSUME NEW n \in 0 .. L PROVE GateBefore(queue, g, n)
  <2>1. \A i \in 1 .. n : queue[i].type # "cancel" BY <1>1, <1>2
  <2> QED BY <2>1 DEF GateBefore
<1>4. L \in 0 .. L /\ \A i \in DOMAIN queue : i - 1 \in 0 .. L BY <1>1
<1> QED BY <1>3, <1>4 DEF Gated, EndsGated, L

(* What a new helper gets begins with the acceptance.                       *)
LEMMA GateStart ==
  ASSUME NEW s \in SupervisorState, NEW g, ~g,
         s.replayLink # NoGen \/ s.wakeLink # <<>> => s.acknowledged
  PROVE  /\ Gated(StartCommands(s), g)
         /\ s.acknowledged => EndsGated(StartCommands(s), g)
<1> DEFINE consent == IF s.acknowledged THEN <<AcknowledgeGate>> ELSE <<>>
           replay == IF s.replayLink # NoGen THEN <<BeginLink(s.replayLink, FALSE)>> ELSE <<>>
           front == consent \o replay
           queue == StartCommands(s)
           S == {AcknowledgeGate} \cup Pairings
<1>1. replay \in Seq(Pairings)
  <2>1. CASE s.replayLink = NoGen BY <2>1
  <2>2. CASE s.replayLink # NoGen
    <3> DEFINE c == BeginLink(s.replayLink, FALSE)
    <3>1. s.replayLink \in Generations BY <2>2 DEF SupervisorState
    <3>2. c \in Pairings /\ replay = <<c>> BY <2>2, <3>1, PairingFacts
    <3> HIDE DEF c, replay
    <3> QED BY <3>2
  <2> QED BY <2>1, <2>2
<1>2. s.wakeLink \in Seq(Pairings)
  <2>1. s.wakeLink = <<>> \/ \E c \in Pairings : s.wakeLink = <<c>>
    BY DEF SupervisorState, WakeLinks
  <2>2. CASE s.wakeLink = <<>> BY <2>2
  <2>3. ASSUME NEW c \in Pairings, s.wakeLink = <<c>> PROVE s.wakeLink \in Seq(Pairings)
    BY <2>3
  <2> QED BY <2>1, <2>2, <2>3
<1>3. queue = front \o s.wakeLink BY DEF StartCommands
<1> HIDE DEF queue
<1>4. CASE ~s.acknowledged
  <2>1. replay = <<>> /\ s.wakeLink = <<>> /\ consent = <<>> BY <1>4
  <2>2. queue = <<>> BY <1>3, <2>1
  <2> QED BY <1>4, <2>2, GateEmpty DEF queue
<1>5. CASE s.acknowledged
  <2>1. consent = <<AcknowledgeGate>> /\ AcknowledgeGate.type = "gate" /\ AcknowledgeGate \in S
    BY <1>5 DEF AcknowledgeGate
  <2> HIDE DEF replay, consent, S
  <2>2. consent \in Seq(S) /\ Gated(consent, g) /\ EndsGated(consent, g)
    <3>1. Append(<<>>, AcknowledgeGate) = consent /\ <<>> \in Seq(S) /\ consent \in Seq(S)
      BY <2>1
    <3>2. ~IsBegin(AcknowledgeGate) BY <2>1 DEF IsBegin
    <3>3. Gated(<<>>, g) BY GateEmpty
    <3>4. GateAfter(EndsGated(<<>>, g), AcknowledgeGate) BY <2>1 DEF GateAfter
    <3>5. /\ Gated(Append(<<>>, AcknowledgeGate), g)
          /\ EndsGated(Append(<<>>, AcknowledgeGate), g)
      BY <2>1, <3>1, <3>2, <3>3, <3>4, GateAppend
    <3> QED BY <3>1, <3>5
  <2> DEFINE h == EndsGated(consent, g)
  <2>3. front \in Seq(S) /\ Gated(front, g) /\ EndsGated(front, g)
    <3>1. replay \in Seq(S) BY <1>1 DEF S
    <3>2. h /\ (h => EndsGated(consent, g)) BY <2>2
    <3> HIDE DEF h
    <3>3. Gated(replay, h) /\ EndsGated(replay, h) BY <1>1, <3>2, GatePairings
    <3>4. front \in Seq(S) BY <2>2, <3>1
    <3>5. Gated(front, g) BY <2>2, <3>1, <3>2, <3>3, GateConcat
    <3>6. EndsGated(front, g) BY <2>2, <3>1, <3>2, <3>3, GateConcat
    <3> QED BY <3>4, <3>5, <3>6
  <2> HIDE DEF front, h
  <2> DEFINE k == EndsGated(front, g)
  <2>4. Gated(queue, g) /\ EndsGated(queue, g)
    <3>1. s.wakeLink \in Seq(S) BY <1>2 DEF S
    <3>2. k /\ (k => EndsGated(front, g)) BY <2>3
    <3> HIDE DEF k
    <3>3. Gated(s.wakeLink, k) /\ EndsGated(s.wakeLink, k) BY <1>2, <3>2, GatePairings
    <3> QED BY <1>3, <2>3, <3>1, <3>2, <3>3, GateConcat
  <2> QED BY <2>4 DEF queue
<1> QED BY <1>4, <1>5

(* The queue of a helper that did not say Hello brings the acceptance with  *)
(* it, as long as the supervisor holds it.                                  *)
GateQueue(s) ==
    /\ Gated(s.held, FALSE)
    /\ HasLink(s) /\ ~s.greeted /\ s.acknowledged => EndsGated(s.held, FALSE)

(* Without the acceptance the supervisor can tell a helper of no pairing.   *)
Consented(s) == Told(s) # {} => s.acknowledged

GateReady(s) == QueueInv(s) /\ s.written = <<>> /\ GateQueue(s) /\ Consented(s)

(* What a step writes to the helper of the link is gated, if the helper     *)
(* holds the acceptance after the commands that it got before.              *)
GateMoves(s, t) ==
    /\ GateQueue(t) /\ Consented(t)
    /\ HasLink(s) => t.link \in {s.link, NoRun}
    /\ t.greeted => t.link = s.link
    /\ Gated(t.written, s.greeted /\ s.acknowledged)
    /\ t.greeted /\ t.acknowledged => EndsGated(t.written, s.greeted /\ s.acknowledged)

(* Steps without a word of the user about the gate or a pairing.            *)
LEMMA ConsentedKept ==
  ASSUME NEW s, NEW t, Consented(s), Moves(s, t, {}), t.acknowledged = s.acknowledged
  PROVE  Consented(t)
BY DEF Consented, Moves, GensOf

(* A step that leaves the link and its queue alone.                         *)
LEMMA GateAlike ==
  ASSUME NEW s, GateReady(s), NEW t, t.link = s.link, t.greeted = s.greeted, t.held = s.held,
         t.acknowledged = s.acknowledged, t.written = <<>>, Consented(t)
  PROVE  GateMoves(s, t)
<1>1. GateQueue(t) BY DEF GateReady, GateQueue, HasLink
<1> QED BY <1>1, GateEmpty DEF GateMoves

(* A step that leaves no link.                                              *)
LEMMA GateGone ==
  ASSUME NEW s, GateReady(s), NEW t, QueueInv(t), ~HasLink(t), t.written = <<>>, Consented(t)
  PROVE  GateMoves(s, t)
<1>1. t.held = <<>> /\ ~t.greeted BY DEF QueueInv
<1>2. GateQueue(t) BY <1>1, GateEmpty DEF GateQueue
<1> QED BY <1>1, <1>2, GateEmpty DEF GateMoves, HasLink

(* The record is one.                                                       *)
LEMMA StateFields == \A s \in SupervisorState : IsSupervisor(s)
BY DEF SupervisorState, IsSupervisor, Fields

(* The end of a helper leaves the acceptance in the replay.                 *)
LEMMA StopForConsent ==
  ASSUME NEW s, IsSupervisor(s)
  PROVE  StopFor(s).acknowledged = s.acknowledged
<1> DEFINE off == [DropLink(s) EXCEPT
                  !.restartArmed = FALSE, !.wakeLink = <<>>,
                  !.replayLink = IF s.linkedOnce THEN @ ELSE NoGen,
                  !.account = "Unlinked"]
           r == RejectSends(off, off.sends)
<1>1. IsSupervisor(off) /\ off.acknowledged = s.acknowledged
  BY DropLinkFrame DEF Frame, IsSupervisor, Fields
<1>2. StopFor(s) = Report(r, "Stopped") BY DEF StopFor, RejectOpenSends
<1> HIDE DEF off
<1>3. IsSupervisor(r) /\ r.acknowledged = off.acknowledged
  BY <1>1, RejectFrame DEF Frame, Fields
<1> HIDE DEF r
<1>4. Report(r, "Stopped").acknowledged = r.acknowledged
  BY <1>3, ReportFrame DEF Frame, Fields
<1> QED BY <1>1, <1>2, <1>3, <1>4

(* So does the end of a helper by itself, and a stop.                       *)
LEMMA HelperEndedConsent ==
  ASSUME NEW s, IsSupervisor(s), NEW stable \in BOOLEAN
  PROVE  /\ HelperEnded(s, stable).acknowledged = s.acknowledged
         /\ OnHelperGone(s, stable).acknowledged = s.acknowledged
<1> DEFINE u == HelperEnded(s, stable)
           dropped == DropLink(s)
           unsent == IF s.greeted THEN <<>> ELSE s.held
           ended == EndUnsent(dropped, unsent)
           t == RejectOpenSends(ended)
           failures == IF stable THEN 1 ELSE t.failures + 1
           relinks == \/ t.replayLink # NoGen
                      \/ t.wakeLink # <<>>
                      \/ t.linkedOnce /\ t.acknowledged
           account == IF t.account = "Unlinked" \/ ~relinks
                        THEN "Unlinked" ELSE "Linking"
           linked == t.linkedOnce /\ t.account = "Unlinked"
           idle == [t EXCEPT !.failures = 0, !.account = "Unlinked",
                             !.linkedOnce = linked]
           failed == [t EXCEPT !.failures = failures]
           waits == [t EXCEPT !.failures = failures, !.account = account,
                                !.restartArmed = TRUE]
<1>1. u \in {Report(idle, "Idle"), StopFor(failed), Report(waits, "Restarting")}
  BY DEF HelperEnded
<1>2. IsSupervisor(dropped) /\ dropped.acknowledged = s.acknowledged
  BY DropLinkFrame DEF Frame, Fields
<1> HIDE DEF dropped, unsent
<1>3. IsSupervisor(ended) /\ ended.acknowledged = dropped.acknowledged
  BY <1>2, EndUnsentFrame DEF Frame, Fields, AnsweredFields, GaveUp
<1> HIDE DEF ended
<1>4. IsSupervisor(t) /\ t.acknowledged = ended.acknowledged
  BY <1>3, RejectFrame DEF RejectOpenSends, Frame, Fields
<1> HIDE DEF u, t
<1>5. failures \in Nat BY <1>4 DEF IsSupervisor
<1> HIDE DEF failures, account, linked
<1>6. /\ IsSupervisor(idle) /\ idle.acknowledged = t.acknowledged
      /\ IsSupervisor(failed) /\ failed.acknowledged = t.acknowledged
      /\ IsSupervisor(waits) /\ waits.acknowledged = t.acknowledged
  BY <1>4, <1>5 DEF IsSupervisor
<1> HIDE DEF idle, failed, waits
<1>7. u.acknowledged = s.acknowledged
  <2>1. /\ Report(idle, "Idle").acknowledged = idle.acknowledged
        /\ Report(waits, "Restarting").acknowledged = waits.acknowledged
    BY <1>6, ReportFrame DEF Frame, Fields
  <2> QED BY <1>1, <1>2, <1>3, <1>4, <1>6, <2>1, StopForConsent
<1>8. FinishStop(s).acknowledged = s.acknowledged
  <2> DEFINE d == DropLink(s)
             stops == d.stops + 1
  <2>1. FinishStop(s) = [d EXCEPT !.stopArmed = FALSE, !.sends = {}, !.stops = stops]
    BY DEF FinishStop
  <2> HIDE DEF d, stops
  <2>2. IsSupervisor(d) /\ d.acknowledged = s.acknowledged BY <1>2 DEF d, dropped
  <2> QED BY <2>1, <2>2
<1> QED BY <1>7, <1>8 DEF OnHelperGone, u

(* A start: the new queue begins with the acceptance.                       *)
LEMMA LaunchGates ==
  ASSUME NEW s, GateReady(s), NEW outcome \in Outcomes, NEW r,
         outcome = "started" => r \in Runs
  PROVE  LET t == Launch(s, outcome, r) IN
         GateMoves(s, t) /\ t.acknowledged = s.acknowledged
<1> DEFINE off == [s EXCEPT !.restartArmed = FALSE]
           ready == [off EXCEPT !.startWaits = FALSE]
           waits == [off EXCEPT !.startWaits = TRUE]
           missing == [ready EXCEPT !.wakeLink = <<>>]
           alive == ready.alive \cup {r}
           held == StartCommands(s)
           gen == IF s.wakeLink # <<>> THEN s.wakeLink[1].gen ELSE ready.replayLink
           runs == [ready EXCEPT !.alive = alive, !.link = r, !.held = held,
                                 !.replayLink = gen, !.wakeLink = <<>>]
           t == Launch(s, outcome, r)
           Alike(u) == /\ IsSupervisor(u) /\ u.acknowledged = s.acknowledged
                       /\ u.link = s.link /\ u.greeted = s.greeted
                       /\ u.held = s.held /\ u.written = <<>>
<1>1. s \in SupervisorState /\ IsSupervisor(s) /\ s.written = <<>> /\ QueueInv(s)
  BY StateFields DEF GateReady, QueueInv
<1>2. Alike(off) /\ Alike(ready) /\ Alike(waits) /\ Alike(missing)
  BY <1>1 DEF IsSupervisor
<1>3. \/ t \in {off, waits}
      \/ ~HasLink(s) /\ t = Report(missing, "Missing")
      \/ t = StopFor(ready)
      \/ ~HasLink(s) /\ outcome = "started" /\ t = Report(runs, "Busy")
  BY DEF Launch, Outcomes
<1>4. QueueInv(t) /\ Moves(s, t, {}) BY <1>1, LaunchMoves
<1>5. ASSUME t.acknowledged = s.acknowledged PROVE Consented(t)
  <2> HIDE DEF t
  <2> QED BY <1>4, <1>5, ConsentedKept DEF GateReady
<1>6. CASE t \in {off, waits}
  <2> HIDE DEF off, waits, t
  <2> QED BY <1>2, <1>5, <1>6, GateAlike DEF t
<1>7. CASE ~HasLink(s) /\ t = Report(missing, "Missing")
  <2> HIDE DEF missing, t
  <2>1. Frame(missing, t, {"reported", "loading"}) BY <1>2, <1>7, ReportFrame
  <2>2. Alike(t) BY <1>2, <2>1 DEF Frame, Fields
  <2> QED BY <1>5, <2>2, GateAlike DEF t
<1>8. CASE t = StopFor(ready)
  <2>1. ready \in SupervisorState BY <1>1 DEF SupervisorState
  <2> HIDE DEF ready, t
  <2>2. t.acknowledged = s.acknowledged /\ t.link = NoRun /\ t.written = <<>>
    BY <1>2, <1>8, <2>1, StopForConsent, StopForQueue
  <2> QED BY <1>4, <1>5, <2>2, GateGone DEF HasLink, t
<1>9. CASE ~HasLink(s) /\ outcome = "started" /\ t = Report(runs, "Busy")
  <2> HIDE DEF alive, held, gen, ready
  <2>1. /\ IsSupervisor(runs) /\ runs.acknowledged = s.acknowledged
        /\ runs.held = held /\ runs.written = <<>> /\ runs.greeted = s.greeted
    BY <1>2 DEF IsSupervisor
  <2> HIDE DEF runs, t
  <2>2. Frame(runs, t, {"reported", "loading"}) BY <1>9, <2>1, ReportFrame
  <2>3. /\ t.acknowledged = s.acknowledged /\ t.held = held /\ t.written = <<>>
        /\ ~t.greeted
    BY <1>1, <1>9, <2>1, <2>2 DEF Frame, Fields, QueueInv
  <2>4. s.replayLink # NoGen \/ s.wakeLink # <<>> => s.acknowledged
    <3>1. s.wakeLink # <<>> => Pairings \cap Range(s.wakeLink) # {}
      <4>1. ASSUME NEW c \in Pairings, s.wakeLink = <<c>> PROVE c \in Range(s.wakeLink)
        BY <4>1 DEF Range
      <4>2. s.wakeLink = <<>> \/ \E c \in Pairings : s.wakeLink = <<c>>
        BY <1>1 DEF SupervisorState, WakeLinks
      <4> QED BY <4>1, <4>2
    <3>2. s.replayLink # NoGen \/ s.wakeLink # <<>> => Told(s) # {}
      BY <3>1 DEF Told, GensOf, Queue
    <3> QED BY <3>2 DEF GateReady, Consented
  <2> DEFINE g == FALSE
  <2>5. ~g OBVIOUS
  <2>6. g <=> FALSE OBVIOUS
  <2> HIDE DEF g
  <2>7. Gated(held, g) /\ (s.acknowledged => EndsGated(held, g))
    BY <1>1, <2>4, <2>5, GateStart DEF held
  <2>8. GateQueue(t) BY <2>3, <2>6, <2>7 DEF GateQueue
  <2> QED BY <1>5, <1>9, <2>3, <2>8, GateEmpty DEF GateMoves, t
<1> QED BY <1>3, <1>6, <1>7, <1>8, <1>9

(* The end of a helper, and the stops.                                      *)
LEMMA EndGates ==
  ASSUME NEW s, GateReady(s), SendInv(s), HasLink(s), NEW stable \in BOOLEAN, NEW t,
         t = HelperEnded(s, stable) \/ t = OnHelperGone(s, stable)
  PROVE  GateMoves(s, t) /\ t.acknowledged = s.acknowledged
<1>1. Ready(s) /\ IsSupervisor(s) BY StateFields DEF GateReady, Ready, QueueInv
<1>2. Leaves(s, t) BY <1>1, HelperEndedLeaves
<1>3. QueueInv(t) /\ Moves(s, t, {})
  BY HelperEndedMoves, OnHelperGoneMoves DEF GateReady
<1>4. t.acknowledged = s.acknowledged BY <1>1, HelperEndedConsent
<1>5. Consented(t) BY <1>3, <1>4, ConsentedKept DEF GateReady
<1> QED BY <1>2, <1>3, <1>4, <1>5, GateGone DEF Leaves

(* A stop for good leaves no link.                                          *)
LEMMA StopForGates ==
  ASSUME NEW s, GateReady(s)
  PROVE  LET t == StopFor(s) IN GateMoves(s, t) /\ t.acknowledged = s.acknowledged
<1> DEFINE t == StopFor(s)
<1>1. QueueInv(s) /\ s \in SupervisorState /\ IsSupervisor(s) /\ s.written = <<>>
  BY StateFields DEF GateReady, QueueInv
<1>2. QueueInv(t) /\ Moves(s, t, {}) BY <1>1, StopForMoves
<1>3. t.acknowledged = s.acknowledged /\ t.link = NoRun /\ t.written = <<>>
  BY <1>1, StopForConsent, StopForQueue
<1> HIDE DEF t
<1>4. Consented(t) BY <1>2, <1>3, ConsentedKept DEF GateReady
<1> QED BY <1>2, <1>3, <1>4, GateGone DEF HasLink, t

(* Nor does the end of the close.                                           *)
LEMMA FinishStopGates ==
  ASSUME NEW s, GateReady(s), s.stopping
  PROVE  LET t == FinishStop(s) IN GateMoves(s, t) /\ t.acknowledged = s.acknowledged
<1> DEFINE d == DropLink(s)
           stops == d.stops + 1
           t == FinishStop(s)
<1>1. QueueInv(s) /\ s \in SupervisorState /\ IsSupervisor(s) /\ s.written = <<>>
  BY StateFields DEF GateReady, QueueInv
<1>2. t = [d EXCEPT !.stopArmed = FALSE, !.sends = {}, !.stops = stops]
  BY DEF FinishStop
<1>3. /\ IsSupervisor(d) /\ d.acknowledged = s.acknowledged /\ d.link = NoRun
      /\ d.written = <<>>
  BY <1>1, DropLinkFrame DEF Frame, Fields
<1> HIDE DEF d, stops
<1>4. t.acknowledged = s.acknowledged /\ t.link = NoRun /\ t.written = <<>>
  BY <1>2, <1>3
<1>5. QueueInv(t) /\ Moves(s, t, {}) BY <1>1, FinishStopMoves
<1> HIDE DEF t
<1>6. Consented(t) BY <1>4, <1>5, ConsentedKept DEF GateReady
<1> QED BY <1>4, <1>5, <1>6, GateGone DEF HasLink, t

(* Acks, answers, account events and a row that says Busy.                  *)
LEMMA EventGates ==
  ASSUME NEW s, GateReady(s), NEW t,
         \/ \E slow \in BOOLEAN : t = OnAck(s, slow)
         \/ \E state \in AccountState : t = OnAccount(s, state)
         \/ \E q \in Requests : t = OnSendAnswer(s, q)
         \/ t = EndPairing(s)
         \/ t = [s EXCEPT !.loading = FALSE]
         \/ t = Report(s, "Busy")
  PROVE  GateMoves(s, t) /\ t.acknowledged = s.acknowledged
<1> DEFINE Alike(u) == /\ u.acknowledged = s.acknowledged /\ u.link = s.link
                       /\ u.greeted = s.greeted /\ u.held = s.held /\ u.written = <<>>
<1>0. QueueInv(s) /\ s \in SupervisorState /\ s.written = <<>> /\ Alike(s)
  BY DEF GateReady, QueueInv
<1>r. ASSUME NEW u \in SupervisorState, Alike(u), NEW state PROVE Alike(Report(u, state))
  <2> DEFINE v == Report(u, state)
  <2>1. Frame(u, v, {"reported", "loading"}) BY StateFields, ReportFrame
  <2> HIDE DEF v
  <2> QED BY <1>r, <2>1 DEF Frame, Fields, v
<1>1. ASSUME NEW slow \in BOOLEAN, t = OnAck(s, slow) PROVE Alike(t)
  <2> DEFINE left == IF s.unacked = 0 THEN 0 ELSE s.unacked - 1
             u == [s EXCEPT !.unacked = left]
  <2>1. t = u \/ t = Report(u, "Running") BY <1>1 DEF OnAck
  <2>2. left \in Nat BY <1>0 DEF SupervisorState
  <2> HIDE DEF left
  <2>3. u \in SupervisorState /\ Alike(u) BY <1>0, <2>2 DEF SupervisorState
  <2> HIDE DEF u, Alike
  <2> QED BY <1>r, <2>1, <2>3
<1>2. ASSUME NEW state \in AccountState, t = OnAccount(s, state) PROVE Alike(t)
  <2> DEFINE u == [s EXCEPT !.account = state]
  <2>1. t = u \/ t = EndPairing(u) \/ t = [u EXCEPT !.linkedOnce = TRUE]
    BY <1>2 DEF OnAccount, AccountState
  <2>2. u \in SupervisorState /\ Alike(u) BY <1>0 DEF SupervisorState
  <2> HIDE DEF u
  <2> QED BY <2>1, <2>2 DEF EndPairing, SupervisorState
<1>3. ASSUME NEW q \in Requests, t = OnSendAnswer(s, q) PROVE Alike(t)
  <2> DEFINE sends == s.sends \ {q}
             answers == [s.answers EXCEPT ![q] = @ + 1]
  <2>1. OnSendAnswer(s, q) = [s EXCEPT !.sends = sends, !.answers = answers]
    BY ZenonT(60) DEF OnSendAnswer
  <2> HIDE DEF sends, answers
  <2> QED BY <1>0, <1>3, <2>1
<1>4. ASSUME t = EndPairing(s) PROVE Alike(t)
  BY <1>0, <1>4 DEF EndPairing
<1>5. ASSUME t = [s EXCEPT !.loading = FALSE] PROVE Alike(t)
  BY <1>0, <1>5
<1>6. ASSUME t = Report(s, "Busy") PROVE Alike(t)
  <2> HIDE DEF Alike
  <2> QED BY <1>0, <1>r, <1>6
<1>7. Alike(t)
  <2> HIDE DEF Alike
  <2> QED BY <1>1, <1>2, <1>3, <1>4, <1>5, <1>6
<1>8. Moves(s, t, {}) BY <1>0, EventsMove
<1>9. Consented(t) BY <1>7, <1>8, ConsentedKept DEF GateReady
<1> QED BY <1>7, <1>9, GateAlike

(* A line that is too long ends, and takes no acceptance with it.           *)
LEMMA WriteRequestsConsent ==
  ASSUME NEW s \in SupervisorState, NEW cs \in Seq(Command)
  PROVE  WriteRequests(s, cs).acknowledged = s.acknowledged
<1> DEFINE fit == Those(Fitting, cs)
           unfit == Those(Command \ Fitting, cs)
           unacked == s.unacked + Len(fit)
           t == [s EXCEPT !.written = fit, !.unacked = unacked]
           u == AnswerWithoutHelper(t, Range(unfit))
           failed == [u EXCEPT !.replayLink = NoGen, !.wakeLink = <<>>, !.account = "Unlinked"]
           w == WriteRequests(s, cs)
<1>1. w \in {failed, u} BY DEF WriteRequests, FailUnsentPairing
<1> HIDE DEF fit, unfit, unacked, w
<1>2. IsSupervisor(t) /\ t.acknowledged = s.acknowledged
  BY StateFields DEF IsSupervisor
<1> HIDE DEF t
<1>3. IsSupervisor(u) /\ u.acknowledged = t.acknowledged
  BY <1>2, AnswerFrame DEF Frame, Fields, AnsweredFields, GaveUp
<1> HIDE DEF u
<1>4. failed.acknowledged = u.acknowledged BY <1>3
<1> QED BY <1>1, <1>2, <1>3, <1>4 DEF w

(* An acceptance and a cancel fit in a line.                                *)
LEMMA GateFits ==
  ASSUME NEW queue \in Seq(Command), NEW g
  PROVE  /\ Gated(queue, g) => Gated(Those(Fitting, queue), g)
         /\ EndsGated(queue, g) => EndsGated(Those(Fitting, queue), g)
<1>1. \A c \in Command : c.type \in {"gate", "cancel"} => c \in Fitting
  BY DEF Fitting, Fits, IsBegin
<1>2. \A i \in DOMAIN queue : queue[i].type \in {"gate", "cancel"} => queue[i] \in Fitting
  BY <1>1
<1> QED BY <1>2, GateThose

(* Hello: what waited goes out, in its order.                               *)
LEMMA HelloGates ==
  ASSUME NEW s, GateReady(s), HasLink(s), ~s.greeted
  PROVE  LET t == OnHello(s) IN GateMoves(s, t) /\ t.acknowledged = s.acknowledged
<1> DEFINE u == [s EXCEPT !.greeted = TRUE, !.held = <<>>]
           v == Report(u, "Running")
           t == OnHello(s)
<1>1. /\ QueueInv(s) /\ s \in SupervisorState /\ IsSupervisor(s)
      /\ s.held \in Seq(Command) /\ s.written = <<>>
  BY StateFields DEF GateReady, QueueInv, SupervisorState
<1>2. /\ u \in SupervisorState
      /\ u.link = s.link /\ u.greeted /\ u.held = <<>> /\ u.acknowledged = s.acknowledged
  <2>1. <<>> \in Seq(Command) OBVIOUS
  <2> QED BY <1>1, <2>1 DEF SupervisorState
<1>3. t = WriteRequests(v, s.held) BY DEF OnHello
<1> HIDE DEF u
<1>4. v \in SupervisorState /\ SameQueue(u, v) /\ v.acknowledged = u.acknowledged
  <2>1. Frame(u, v, {"reported", "loading"}) BY <1>2, StateFields, ReportFrame
  <2> QED BY <1>2, <2>1, ReportTyped, ReportQueue DEF HelperState, Frame, Fields
<1> HIDE DEF v
<1> HIDE DEF t
<1>w. /\ t.link = v.link /\ t.greeted = v.greeted /\ t.held = v.held
      /\ t.wakeLink \in {v.wakeLink, <<>>} /\ t.replayLink \in {v.replayLink, NoGen}
      /\ t.written = Those(Fitting, s.held) /\ t.stopping = v.stopping
  BY <1>1, <1>3, <1>4, WriteRequestsQueue
<1>a. t.acknowledged = v.acknowledged BY <1>1, <1>3, <1>4, WriteRequestsConsent
<1>5. /\ t.link = s.link /\ t.greeted /\ t.held = <<>>
      /\ t.written = Those(Fitting, s.held) /\ t.acknowledged = s.acknowledged
  BY <1>2, <1>4, <1>w, <1>a DEF SameQueue
<1>6. Moves(s, t, {}) BY <1>1, OnHelloMoves DEF t
<1>7. Consented(t) BY <1>5, <1>6, ConsentedKept DEF GateReady
<1>8. GateQueue(t) BY <1>5, GateEmpty DEF GateQueue
<1> DEFINE g == s.greeted /\ s.acknowledged
<1>9. ~g /\ (FALSE => g) OBVIOUS
<1> HIDE DEF g
<1>10. Gated(s.held, g) /\ (s.acknowledged => EndsGated(s.held, g))
  BY <1>9, GateMore DEF GateReady, GateQueue
<1>11. Gated(t.written, g) /\ (t.acknowledged => EndsGated(t.written, g))
  BY <1>1, <1>5, <1>10, GateFits
<1> QED BY <1>5, <1>7, <1>8, <1>11 DEF GateMoves, g, t

(* What Replay::note makes of the acceptance.                               *)
LEMMA NoteConsent ==
  ASSUME NEW s \in SupervisorState, NEW c \in Command
  PROVE  Note(s, c).acknowledged = IF c.type = "gate" THEN TRUE
                                   ELSE IF c.type = "cancel" THEN FALSE ELSE s.acknowledged
<1>1. CASE c.type = "gate" BY <1>1 DEF Note, SupervisorState
<1>2. CASE c.type = "begin" BY <1>2 DEF Note, SupervisorState
<1>3. CASE c.type = "cancel" BY <1>3 DEF Note, SupervisorState
<1>4. CASE c.type \notin {"gate", "begin", "cancel"} BY <1>4 DEF Note
<1> QED BY <1>1, <1>2, <1>3, <1>4

(* A request to the helper changes nothing of it.                           *)
LEMMA RequestConsent ==
  ASSUME NEW s \in SupervisorState, NEW c \in Command
  PROVE  Request(s, c).acknowledged = s.acknowledged
<1> DEFINE o == OpenSend(s, c)
           kept == IF c.type = "cancel" THEN Those(Command \ Pairings, o.held) ELSE o.held
           held == Append(kept, c)
           waits == [o EXCEPT !.held = held]
<1>1. o \in SupervisorState /\ o.acknowledged = s.acknowledged
  <2>1. c.type = "send" => c.req \in Requests
    BY DEF Command, Pairings, AcknowledgeGate, CancelLink, Load, SendText, BeginLink
  <2>2. CASE c.type = "send"
    <3> DEFINE sends == s.sends \cup {c.req}
    <3>1. o = [s EXCEPT !.sends = sends] BY <2>2 DEF OpenSend
    <3>2. sends \in SUBSET Requests BY <2>1, <2>2 DEF SupervisorState
    <3> HIDE DEF sends, o
    <3> QED BY <3>1, <3>2 DEF SupervisorState
  <2>3. CASE c.type # "send" BY <2>3 DEF OpenSend
  <2> QED BY <2>2, <2>3
<1>2. Request(s, c) \in {WriteRequests(o, <<c>>), waits} BY DEF Request
<1> HIDE DEF o, held
<1>3. waits.acknowledged = o.acknowledged BY <1>1
<1>4. WriteRequests(o, <<c>>).acknowledged = o.acknowledged
  <2>1. <<c>> \in Seq(Command) OBVIOUS
  <2> QED BY <1>1, <2>1, WriteRequestsConsent
<1> QED BY <1>1, <1>2, <1>3, <1>4

(* What a command makes of the acceptance.                                  *)
Accepts(s, t, c) ==
    t.acknowledged = IF s.stopping THEN s.acknowledged
                     ELSE IF c.type = "gate" THEN TRUE
                     ELSE IF c.type = "cancel" THEN FALSE ELSE s.acknowledged

(* A command to the helper of the link, which goes out or waits for Hello.  *)
LEMMA RequestGates ==
  ASSUME NEW s, GateReady(s), HasLink(s), ~s.stopping, NEW c \in Command,
         IsBegin(c) => s.acknowledged,
         Consented(Request(Note(s, c), c))
  PROVE  LET t == Request(Note(s, c), c) IN GateMoves(s, t) /\ Accepts(s, t, c)
<1> DEFINE n == Note(s, c)
           t == Request(n, c)
<1>1. /\ QueueInv(s) /\ s \in SupervisorState /\ s.held \in Seq(Command) /\ s.written = <<>>
      /\ s.greeted => s.held = <<>>
  BY DEF GateReady, QueueInv, SupervisorState
<1>2. /\ n \in SupervisorState /\ n.link = s.link /\ n.greeted = s.greeted
      /\ n.held = s.held /\ n.written = <<>>
      /\ n.acknowledged = IF c.type = "gate" THEN TRUE
                          ELSE IF c.type = "cancel" THEN FALSE ELSE s.acknowledged
  BY <1>1, NoteTyped, NoteQueue, NoteConsent
<1> HIDE DEF n
<1>3. /\ t.link = n.link /\ t.greeted = n.greeted
      /\ IF n.greeted
           THEN t.written = Those(Fitting, <<c>>) /\ t.held = n.held
           ELSE /\ t.written = n.written
                /\ t.held = IF c = CancelLink
                              THEN Append(Those(Command \ Pairings, n.held), c)
                              ELSE Append(n.held, c)
  <2>1. /\ t.link = n.link /\ t.greeted = n.greeted /\ t.stopping = n.stopping
        /\ t.wakeLink \in {n.wakeLink, <<>>} /\ t.replayLink \in {n.replayLink, NoGen}
        /\ IF n.greeted
             THEN t.written = Those(Fitting, <<c>>) /\ t.held = n.held
             ELSE /\ t.written = n.written /\ t.replayLink = n.replayLink
                  /\ t.wakeLink = n.wakeLink
                  /\ t.held = IF c = CancelLink
                                THEN Append(Those(Command \ Pairings, n.held), c)
                                ELSE Append(n.held, c)
    BY <1>2, RequestQueue
  <2> HIDE DEF t
  <2> QED BY <2>1
<1>4. t.acknowledged = n.acknowledged BY <1>2, RequestConsent
<1> SUFFICES GateMoves(s, t)
  BY <1>2, <1>4 DEF Accepts, n
<1>5. Consented(t) BY DEF n
<1> HIDE DEF t
<1> DEFINE g == s.greeted /\ s.acknowledged
<1>6. CASE s.greeted
  <2>1. t.greeted /\ t.link = s.link /\ t.held = <<>> /\ t.written = Those(Fitting, <<c>>)
    BY <1>1, <1>2, <1>3, <1>6
  <2>2. g <=> s.acknowledged BY <1>6
  <2>3. GateQueue(t) BY <2>1, GateEmpty DEF GateQueue
  <2> HIDE DEF g
  <2>4. <<>> \in Seq(Command) /\ Append(<<>>, c) = <<c>> /\ <<c>> \in Seq(Command)
    OBVIOUS
  <2>5. Gated(<<>>, g) /\ (EndsGated(<<>>, g) <=> g) BY GateEmpty
  <2>6. Gated(<<c>>, g) BY <2>2, <2>4, <2>5, GateAppend
  <2>7. t.acknowledged => EndsGated(<<c>>, g)
    <3>1. t.acknowledged => GateAfter(EndsGated(<<>>, g), c)
      BY <1>2, <1>4, <2>2, <2>5 DEF GateAfter
    <3> QED BY <2>4, <3>1, GateAppend
  <2>8. Gated(t.written, g) /\ (t.acknowledged => EndsGated(t.written, g))
    BY <2>1, <2>4, <2>6, <2>7, GateFits
  <2> QED BY <1>5, <2>1, <2>3, <2>8 DEF GateMoves, g
<1>7. CASE ~s.greeted
  <2>1. /\ ~t.greeted /\ t.link = s.link /\ t.written = <<>>
        /\ t.held = IF c = CancelLink THEN Append(Those(Command \ Pairings, s.held), c)
                                      ELSE Append(s.held, c)
    BY <1>2, <1>3, <1>7
  <2> DEFINE none == FALSE
  <2>2. Gated(t.held, none) /\ (t.acknowledged => EndsGated(t.held, none))
    <3>0. Gated(s.held, none) /\ (s.acknowledged => EndsGated(s.held, none))
      BY <1>7 DEF GateReady, GateQueue
    <3> HIDE DEF none
    <3>1. CASE c = CancelLink
      <4> DEFINE kept == Those(Command \ Pairings, s.held)
      <4>1. kept \in Seq(Command \cap (Command \ Pairings)) BY <1>1, ThoseFacts
      <4>2. t.held = Append(kept, c) BY <2>1, <3>1
      <4>3. c.type = "cancel" BY <3>1 DEF CancelLink
      <4> HIDE DEF kept
      <4>4. kept \in Seq(Command) /\ \A d \in Range(kept) : ~IsBegin(d)
        BY <4>1, PairingFacts DEF Range
      <4>5. Gated(kept, none) BY <4>4, GateNotNeeded
      <4>6. Gated(t.held, none) BY <4>2, <4>3, <4>4, <4>5, GateAppend DEF IsBegin
      <4>7. ~t.acknowledged BY <1>2, <1>4, <4>3
      <4> QED BY <4>6, <4>7
    <3>2. CASE c # CancelLink
      <4>1. t.held = Append(s.held, c) BY <2>1, <3>2
      <4>2. c.type # "cancel" BY <3>2, PairingFacts
      <4>3. Gated(t.held, none) BY <1>1, <3>0, <4>1, GateAppend
      <4>4. t.acknowledged => GateAfter(EndsGated(s.held, none), c)
        BY <1>2, <1>4, <3>0, <4>2 DEF GateAfter
      <4>5. t.acknowledged => EndsGated(t.held, none) BY <1>1, <4>1, <4>4, GateAppend
      <4> QED BY <4>3, <4>5
    <3> QED BY <3>1, <3>2
  <2>3. GateQueue(t) BY <2>2 DEF GateQueue
  <2> QED BY <1>5, <2>1, <2>3, GateEmpty DEF GateMoves
<1> QED BY <1>6, <1>7

(* A command of the shell leaves the consent in order: the start of a       *)
(* pairing comes with the acceptance, and a cancel takes every start along. *)
LEMMA CommandConsent ==
  ASSUME NEW s, GateReady(s), ~s.stopping, NEW c \in Command,
         IsBegin(c) => s.acknowledged,
         NEW t, CommandMoves(s, t, c), Accepts(s, t, c)
  PROVE  Consented(t)
<1>1. Told(t) \subseteq Told(s) \cup GensOf(Added(c)) BY DEF CommandMoves, Moves
<1>2. c.type = "cancel" <=> c = CancelLink BY PairingFacts
<1>3. Told(s) # {} => s.acknowledged BY DEF GateReady, Consented
<1>4. CASE c.type = "gate" BY <1>4 DEF Accepts, Consented
<1>5. CASE c.type = "cancel" BY <1>2, <1>5 DEF CommandMoves, Consented
<1>6. CASE c.type = "begin" BY <1>6 DEF Accepts, Consented, IsBegin
<1>7. CASE c.type \notin {"gate", "cancel", "begin"}
  <2>1. GensOf(Added(c)) = {} BY <1>7 DEF GensOf, Added, IsBegin
  <2> QED BY <1>1, <1>3, <1>7, <2>1 DEF Accepts, Consented
<1> QED BY <1>4, <1>5, <1>6, <1>7

(* A step from a state without a link whose queue is the same.              *)
LEMMA GateBase ==
  ASSUME NEW s, NEW u, NEW t, GateMoves(u, t), ~HasLink(s), GateReady(s),
         u.link = s.link, ~u.greeted
  PROVE  GateMoves(s, t)
<1> DEFINE g == u.greeted /\ u.acknowledged
           h == s.greeted /\ s.acknowledged
<1>2. g => h OBVIOUS
<1>3. Gated(t.written, g) /\ (t.greeted /\ t.acknowledged => EndsGated(t.written, g))
  BY DEF GateMoves
<1> HIDE DEF g, h
<1>4. Gated(t.written, h) /\ (t.greeted /\ t.acknowledged => EndsGated(t.written, h))
  BY <1>2, <1>3, GateMore
<1> QED BY <1>4 DEF GateMoves, h

(* A command of the shell, with a helper or without one.                    *)
LEMMA CommandGates ==
  ASSUME NEW s, GateReady(s), NEW c \in Command, IsBegin(c) => s.acknowledged \/ s.stopping,
         IsBegin(c) /\ c.phone => c \notin Queue(s),
         NEW outcome \in Outcomes, NEW r, outcome = "started" => r \in Runs
  PROVE  LET t == OnCommand(s, c, outcome, r) IN GateMoves(s, t) /\ Accepts(s, t, c)
<1> DEFINE t == OnCommand(s, c, outcome, r)
<1> SUFFICES GateMoves(s, t) /\ Accepts(s, t, c)
  OBVIOUS
<1>0. QueueInv(s) /\ s \in SupervisorState /\ s.written = <<>>
  BY DEF GateReady, QueueInv
<1>m. CommandMoves(s, t, c) BY <1>0, OnCommandMoves
<1>f. /\ IsBegin(c) <=> c \in Pairings
      /\ c.type = "begin" <=> IsBegin(c)
      /\ c.type = "cancel" <=> c = CancelLink
  BY PairingFacts DEF IsBegin
<1>e. ~HasLink(s) => s.held = <<>> /\ ~s.greeted BY <1>0 DEF QueueInv
<1>1. CASE s.stopping
  <2>1. t = s BY <1>1 DEF OnCommand
  <2> HIDE DEF t
  <2>2. GateMoves(s, t) BY <1>0, <2>1, GateAlike DEF GateReady
  <2> QED BY <1>1, <2>1, <2>2 DEF Accepts
<1>2. CASE ~s.stopping /\ HasLink(s)
  <2> DEFINE n == Note(s, c)
             u == Request(n, c)
  <2>1. t = u BY <1>2 DEF OnCommand
  <2>2. n \in SupervisorState BY <1>0, NoteTyped
  <2>3. n.acknowledged = IF c.type = "gate" THEN TRUE
                         ELSE IF c.type = "cancel" THEN FALSE ELSE s.acknowledged
    BY <1>0, NoteConsent
  <2> HIDE DEF n
  <2>4. u.acknowledged = n.acknowledged BY <2>2, RequestConsent
  <2> HIDE DEF t, u
  <2>5. Accepts(s, u, c) BY <1>2, <2>3, <2>4 DEF Accepts
  <2>6. CommandMoves(s, u, c) BY <1>m, <2>1 DEF t
  <2>7. Consented(u) BY <1>2, <2>5, <2>6, CommandConsent
  <2>8. GateMoves(s, u) /\ Accepts(s, u, c) BY <1>2, <2>7, RequestGates DEF u, n
  <2> QED BY <2>1, <2>8 DEF t
<1>3. CASE ~s.stopping /\ ~HasLink(s) /\ c.type = "gate"
  <2> DEFINE n == Note(s, c)
             u == [n EXCEPT !.failures = 0]
  <2>1. n \in SupervisorState /\ SameQueue(s, n) /\ n.acknowledged
    <3>1. ~IsBegin(c) /\ c # CancelLink BY <1>f, <1>3
    <3>2. n.acknowledged = IF c.type = "gate" THEN TRUE
                           ELSE IF c.type = "cancel" THEN FALSE ELSE s.acknowledged
      BY <1>0, NoteConsent
    <3> QED BY <1>0, <1>3, <3>1, <3>2, NoteTyped, NoteQueue DEF SameQueue
  <2>2. t = Launch(u, outcome, r) BY <1>3 DEF OnCommand
  <2> HIDE DEF n
  <2>3. u \in SupervisorState /\ SameQueue(s, u) /\ u.acknowledged
    BY <2>1 DEF SupervisorState, SameQueue
  <2> HIDE DEF u, t
  <2>4. /\ QueueInv(u) /\ u.written = <<>> /\ u.held = <<>> /\ ~u.greeted
        /\ u.link = s.link /\ ~HasLink(u)
    BY <1>0, <1>3, <1>e, <2>3, SameQueueFacts DEF SameQueue, HasLink
  <2>5. GateReady(u) BY <2>3, <2>4, GateEmpty DEF GateReady, GateQueue, Consented
  <2>6. GateMoves(u, t) /\ t.acknowledged = u.acknowledged BY <2>2, <2>5, LaunchGates
  <2>7. GateMoves(s, t) BY <1>3, <2>4, <2>6, GateBase
  <2> QED BY <1>3, <2>3, <2>6, <2>7 DEF Accepts
<1>4. CASE ~s.stopping /\ ~HasLink(s) /\ c.type = "begin"
  <2> DEFINE u == [s EXCEPT !.replayLink = NoGen, !.wakeLink = <<c>>, !.failures = 0]
  <2>1. <<c>> \in WakeLinks BY <1>f, <1>4 DEF WakeLinks
  <2>2. /\ u \in SupervisorState
        /\ u.link = s.link /\ u.greeted = s.greeted /\ u.held = s.held
        /\ u.written = <<>> /\ u.acknowledged = s.acknowledged /\ s.acknowledged
    BY <1>0, <1>f, <1>4, <2>1 DEF SupervisorState
  <2>3. t = Launch(u, outcome, r) BY <1>4 DEF OnCommand
  <2> HIDE DEF u, t
  <2>4. u.held = <<>> /\ u.link = NoRun /\ ~u.greeted /\ ~HasLink(u)
    BY <1>4, <1>e, <2>2 DEF HasLink
  <2>5. Out(u) = {} /\ Once(u.held) /\ Once(u.written)
    BY <2>2, <2>4 DEF Out, Range, Once
  <2>6. QueueInv(u) BY <2>2, <2>4, <2>5 DEF QueueInv
  <2>7. GateReady(u) BY <2>2, <2>4, <2>6 DEF GateReady, GateQueue, Consented
  <2>8. GateMoves(u, t) /\ t.acknowledged = u.acknowledged BY <2>3, <2>7, LaunchGates
  <2>9. GateMoves(s, t) BY <1>4, <2>2, <2>4, <2>8, GateBase
  <2> QED BY <1>4, <2>2, <2>8, <2>9 DEF Accepts
<1>5. CASE ~s.stopping /\ ~HasLink(s) /\ c.type \notin {"gate", "begin"}
  <2> DEFINE n == Note(s, c)
  <2>1. n \in SupervisorState /\ n.link = s.link /\ n.written = <<>>
    BY <1>0, NoteTyped, NoteQueue
  <2>2. n.acknowledged = IF c.type = "gate" THEN TRUE
                         ELSE IF c.type = "cancel" THEN FALSE ELSE s.acknowledged
    BY <1>0, NoteConsent
  <2>3. t = AnswerWithoutHelper(n, {c}) BY <1>5 DEF OnCommand
  <2> HIDE DEF n, t
  <2>4. t.link = n.link /\ t.written = <<>>
    <3>1. /\ t.link = n.link /\ t.greeted = n.greeted /\ t.held = n.held
          /\ t.replayLink = n.replayLink /\ t.written = n.written
          /\ t.stopping = n.stopping
          /\ t.wakeLink = IF CancelLink \in {c} THEN <<>> ELSE n.wakeLink
      BY <2>1, <2>3, AnswerQueue
    <3> QED BY <2>1, <3>1
  <2>5. t.acknowledged = n.acknowledged
    <3>1. IsSupervisor(n) BY <2>1, StateFields
    <3> QED BY <2>3, <3>1, AnswerFrame DEF Frame, Fields, AnsweredFields, GaveUp
  <2>6. Accepts(s, t, c) BY <1>5, <2>2, <2>5 DEF Accepts
  <2>7. CommandMoves(s, t, c) BY <1>m DEF t
  <2>8. IsBegin(c) => s.acknowledged BY <1>f, <1>5
  <2>9. Consented(t) BY <1>5, <2>6, <2>7, <2>8, CommandConsent
  <2>10. QueueInv(t) /\ ~HasLink(t) BY <1>5, <2>1, <2>4, <2>7 DEF CommandMoves, HasLink
  <2>11. GateMoves(s, t) BY <2>4, <2>9, <2>10, GateGone
  <2> QED BY <2>6, <2>11
<1> QED BY <1>1, <1>2, <1>3, <1>4, <1>5

(* The click on Restart keeps the acceptance.                               *)
LEMMA RestartGates ==
  ASSUME NEW s, GateReady(s), NEW outcome \in Outcomes, NEW r,
         outcome = "started" => r \in Runs
  PROVE  LET t == OnRestart(s, outcome, r) IN
         GateMoves(s, t) /\ t.acknowledged = s.acknowledged
<1> DEFINE u == [s EXCEPT !.failures = 0]
           t == OnRestart(s, outcome, r)
<1>1. QueueInv(s) /\ s \in SupervisorState /\ s.written = <<>>
  BY DEF GateReady, QueueInv
<1>2. t = s \/ (~HasLink(s) /\ t = Launch(u, outcome, r)) BY DEF OnRestart
<1>3. u \in SupervisorState /\ SameQueue(s, u) /\ u.acknowledged = s.acknowledged
  BY <1>1 DEF SupervisorState, SameQueue
<1> HIDE DEF u, t
<1>4. CASE t = s BY <1>1, <1>4, GateAlike DEF t, GateReady
<1>5. CASE ~HasLink(s) /\ t = Launch(u, outcome, r)
  <2>1. QueueInv(u) /\ u.written = <<>> BY <1>1, <1>3, SameQueueFacts DEF SameQueue
  <2>2. GateReady(u)
    <3>1. Told(u) = Told(s) BY <1>3 DEF SameQueue, Told, Queue, Out
    <3> QED BY <1>3, <2>1, <3>1 DEF GateReady, GateQueue, Consented, SameQueue, HasLink
  <2>3. GateMoves(u, t) /\ t.acknowledged = u.acknowledged BY <1>5, <2>2, LaunchGates
  <2>4. u.link = s.link /\ ~u.greeted BY <1>1, <1>3, <1>5 DEF SameQueue, QueueInv
  <2>5. GateMoves(s, t) BY <1>5, <2>3, <2>4, GateBase
  <2> QED BY <1>3, <2>3, <2>5 DEF t
<1> QED BY <1>2, <1>4, <1>5 DEF t

(* A state that differs in what the gate does not see.                      *)
LEMMA GateSame ==
  ASSUME NEW s, GateReady(s), NEW u, SameQueue(s, u), u.acknowledged = s.acknowledged,
         u \in SupervisorState
  PROVE  GateReady(u) /\ \A t : GateMoves(u, t) <=> GateMoves(s, t)
<1>1. QueueInv(s) /\ s \in SupervisorState /\ s.written = <<>>
  BY DEF GateReady, QueueInv
<1>2. QueueInv(u) /\ u.written = <<>> BY <1>1, SameQueueFacts DEF SameQueue
<1>3. Told(u) = Told(s) BY DEF SameQueue, Told, Queue, Out
<1>4. GateReady(u) BY <1>2, <1>3 DEF GateReady, GateQueue, Consented, SameQueue, HasLink
<1>5. (u.greeted /\ u.acknowledged) = (s.greeted /\ s.acknowledged) BY DEF SameQueue
<1>6. ASSUME NEW t PROVE GateMoves(u, t) <=> GateMoves(s, t)
  BY <1>5 DEF GateMoves, SameQueue, HasLink
<1> QED BY <1>4, <1>6

(* The close of the app.                                                    *)
LEMMA ShutdownGates ==
  ASSUME NEW s, GateReady(s)
  PROVE  LET t == OnShutdown(s) IN GateMoves(s, t) /\ t.acknowledged = s.acknowledged
<1> DEFINE off == [s EXCEPT !.stopping = TRUE, !.restartArmed = FALSE,
                            !.wakeLink = <<>>, !.startWaits = FALSE]
           asks == [off EXCEPT !.written = <<Shutdown>>, !.stopArmed = TRUE]
           t == OnShutdown(s)
<1>1. QueueInv(s) /\ s \in SupervisorState /\ IsSupervisor(s) /\ s.written = <<>>
  BY StateFields DEF GateReady, QueueInv
<1>2. /\ IsSupervisor(off) /\ off.link = s.link /\ off.greeted = s.greeted
      /\ off.held = s.held /\ off.written = <<>> /\ off.acknowledged = s.acknowledged
  BY <1>1 DEF IsSupervisor
<1>3. \/ t = s
      \/ ~HasLink(s) /\ t = FinishStop(off)
      \/ HasLink(s) /\ t = asks
  BY DEF OnShutdown
<1>4. QueueInv(t) /\ Moves(s, t, {}) BY <1>1, OnShutdownMoves
<1> HIDE DEF off, t
<1>5. ASSUME t.acknowledged = s.acknowledged PROVE Consented(t)
  BY <1>4, <1>5, ConsentedKept DEF GateReady
<1>6. CASE t = s BY <1>1, <1>6, GateAlike DEF t, GateReady
<1>7. CASE ~HasLink(s) /\ t = FinishStop(off)
  <2> DEFINE d == DropLink(off)
             stops == d.stops + 1
  <2>1. t = [d EXCEPT !.stopArmed = FALSE, !.sends = {}, !.stops = stops]
    BY <1>7 DEF FinishStop
  <2>2. IsSupervisor(d) /\ d.acknowledged = s.acknowledged /\ d.written = <<>>
    BY <1>2, DropLinkFrame DEF Frame, Fields
  <2>3. d.link = NoRun BY <1>2 DEF DropLink
  <2> HIDE DEF d, stops
  <2>4. t.acknowledged = s.acknowledged /\ t.link = NoRun /\ t.written = <<>>
    BY <2>1, <2>2, <2>3
  <2> QED BY <1>4, <1>5, <2>4, GateGone DEF HasLink, t
<1>8. CASE HasLink(s) /\ t = asks
  <2>1. /\ t.link = s.link /\ t.greeted = s.greeted /\ t.held = s.held
        /\ t.acknowledged = s.acknowledged /\ t.written = <<Shutdown>>
    BY <1>2, <1>8
  <2>2. GateQueue(t) BY <2>1 DEF GateReady, GateQueue, HasLink
  <2> DEFINE g == s.greeted /\ s.acknowledged
  <2>3. t.greeted /\ t.acknowledged => g BY <2>1
  <2> HIDE DEF g
  <2>4. Shutdown \in {Shutdown} /\ <<>> \in Seq({Shutdown}) /\ Append(<<>>, Shutdown) = <<Shutdown>>
    OBVIOUS
  <2>5. Shutdown.type = "shutdown" BY DEF Shutdown
  <2>6. Gated(<<>>, g) /\ (EndsGated(<<>>, g) <=> g) BY GateEmpty
  <2>7. ~IsBegin(Shutdown) /\ (g => GateAfter(EndsGated(<<>>, g), Shutdown))
    BY <2>5, <2>6 DEF IsBegin, GateAfter
  <2>8. Gated(<<Shutdown>>, g) /\ (g => EndsGated(<<Shutdown>>, g))
    <3>1. Gated(Append(<<>>, Shutdown), g) BY <2>4, <2>6, <2>7, GateAppend
    <3>2. g => EndsGated(Append(<<>>, Shutdown), g) BY <2>4, <2>7, GateAppend
    <3> QED BY <2>4, <3>1, <3>2
  <2> QED BY <1>5, <2>1, <2>2, <2>3, <2>8 DEF GateMoves, g, t
<1> QED BY <1>3, <1>6, <1>7, <1>8

(* The exit of a process, and the start that waits for it.                  *)
LEMMA ExitedGates ==
  ASSUME NEW s, GateReady(s), NEW r \in Runs, NEW outcome \in Outcomes,
         NEW new, outcome = "started" => new \in Runs
  PROVE  LET t == OnExited(s, r, outcome, new) IN
         GateMoves(s, t) /\ t.acknowledged = s.acknowledged
<1> DEFINE draining == s.draining \/ s.link = r
           alive == s.alive \ {r}
           u == [s EXCEPT !.alive = alive, !.draining = draining]
           t == OnExited(s, r, outcome, new)
<1>1. QueueInv(s) /\ s \in SupervisorState /\ s.written = <<>>
  BY DEF GateReady, QueueInv
<1>2. draining \in BOOLEAN /\ alive \in SUBSET Runs BY <1>1 DEF SupervisorState
<1>3. t = u \/ t = Launch(u, outcome, new) BY DEF OnExited
<1> HIDE DEF draining, alive
<1>4. u \in SupervisorState /\ SameQueue(s, u) /\ u.acknowledged = s.acknowledged
  BY <1>1, <1>2 DEF SupervisorState, SameQueue
<1> HIDE DEF u, t
<1>5. GateReady(u) /\ \A v : GateMoves(u, v) <=> GateMoves(s, v) BY <1>4, GateSame
<1>6. CASE t = u BY <1>4, <1>5, <1>6, GateAlike DEF GateReady, t
<1>7. CASE t = Launch(u, outcome, new)
  <2>1. GateMoves(u, t) /\ t.acknowledged = u.acknowledged BY <1>5, <1>7, LaunchGates
  <2> QED BY <1>4, <1>5, <2>1 DEF t
<1> QED BY <1>3, <1>6, <1>7
===============================================================================
