------------------------------- MODULE Supervisor -------------------------------
(***************************************************************************)
(* The functions of helper/supervisor.rs, each as an operator from the     *)
(* supervisor's state (a record) to its next state.  The module has no     *)
(* variables: HelperSystem runs these operators against a shell and        *)
(* against helper processes.                                               *)
(*                                                                         *)
(* What the record leaves out: texts, chat ids, the fault inside           *)
(* Stopped(fault), and times.  An armed deadline is a boolean, and an      *)
(* armed deadline may fire at any moment.  The deadline of a start that    *)
(* waits (old_exit_deadline) is set and cleared together with start_waits, *)
(* so startWaits stands for both.                                          *)
(***************************************************************************)
EXTENDS Naturals, FiniteSets, SequencesExt, Filters

CONSTANTS
    Runs,         \* names of helper processes (the counter `runs` names them)
    NoRun,        \* the supervisor has no link to a helper
    Generations,  \* numbers the shell gives to the pairings the user starts
    Requests,     \* request ids of sends and retries
    TooLong,      \* requests and generations whose line is over the size limit
    MaxFailures   \* HelperTiming::max_failures

ASSUME RunsAssumption == NoRun \notin Runs
ASSUME GenerationsAssumption == Generations \subseteq Nat \ {0}
ASSUME MaxFailuresAssumption == MaxFailures \in Nat \ {0}

-----------------------------------------------------------------------------
(* Requests on the wire.  Load stands for every command whose only answer  *)
(* without a helper is its own end event: loads, deletes, reactions, voice *)
(* files.                                                                   *)

NoGen == 0

AcknowledgeGate == [type |-> "gate"]
BeginLink(g, phone) == [type |-> "begin", gen |-> g, phone |-> phone]
CancelLink == [type |-> "cancel"]
SendText(q) == [type |-> "send", req |-> q]
Load == [type |-> "load"]
Shutdown == [type |-> "shutdown"]

Pairings == {BeginLink(g, p) : g \in Generations, p \in BOOLEAN}

Command ==
    {AcknowledgeGate, CancelLink, Load}
      \cup Pairings \cup {SendText(q) : q \in Requests}

IsBegin(c) == c.type = "begin"

Fits(c) ==
    /\ c.type = "send" => c.req \notin TooLong
    /\ IsBegin(c) => c.gen \notin TooLong

Fitting == {c \in Command : Fits(c)}

(* "None" is a row that was told nothing yet.                               *)
HelperState == {"None", "Idle", "Busy", "Running", "Restarting", "Stopped", "Missing"}
HelperGone == {"Idle", "Restarting", "Stopped", "Missing"}
AccountState == {"Unlinked", "Linking", "Linked"}

(* A pairing start of the user that no helper got yet, or none.             *)
WakeLinks == {<<>>} \cup {<<c>> : c \in Pairings}

SupervisorState ==
    [ \* Link: the connection to the helper that runs
      link : Runs \cup {NoRun}, greeted : BOOLEAN, held : Seq(Command),
      unacked : Nat, draining : BOOLEAN,
      \* the supervisor's own fields
      alive : SUBSET Runs, startWaits : BOOLEAN, restartArmed : BOOLEAN,
      stopArmed : BOOLEAN, stopping : BOOLEAN, reported : HelperState,
      failures : Nat, acknowledged : BOOLEAN,
      replayLink : Generations \cup {NoGen}, wakeLink : WakeLinks,
      sends : SUBSET Requests, account : AccountState, linkedOnce : BOOLEAN,
      \* lines for the helper's stdin that this step wrote
      written : Seq(Command \cup {Shutdown}),
      \* what the shell was told: answers per request, an open load, Stopped
      answers : [Requests -> Nat], loading : BOOLEAN, stops : Nat ]

(* HelperAdapter::start.  No helper starts here.                            *)
InitialSupervisor(installed) ==
    [ link |-> NoRun, greeted |-> FALSE, held |-> <<>>, unacked |-> 0,
      draining |-> FALSE, alive |-> {}, startWaits |-> FALSE,
      restartArmed |-> FALSE, stopArmed |-> FALSE, stopping |-> FALSE,
      reported |-> IF installed THEN "None" ELSE "Missing", failures |-> 0,
      acknowledged |-> FALSE, replayLink |-> NoGen, wakeLink |-> <<>>,
      sends |-> {}, account |-> "Unlinked", linkedOnce |-> FALSE,
      written |-> <<>>, answers |-> [q \in Requests |-> 0], loading |-> FALSE,
      stops |-> 0 ]

HasLink(s) == s.link # NoRun

ReplayIsEmpty(s) == ~s.acknowledged /\ s.replayLink = NoGen

-----------------------------------------------------------------------------
(* Answers to the shell.                                                    *)

(* A helper that is gone answers no load: the shell stops its spinners when *)
(* it hears so.  An unchanged state is not sent again.                      *)
Report(s, state) ==
    [s EXCEPT !.reported = state,
              !.loading = @ /\ (state = s.reported \/ state \notin HelperGone)]

RejectSends(s, qs) ==
    [s EXCEPT !.sends = @ \ qs,
              !.answers = [q \in Requests |-> IF q \in qs THEN @[q] + 1 ELSE @[q]]]

RejectOpenSends(s) == RejectSends(s, s.sends)

(* Variant: the row is not told that the restart is off.                    *)
GiveUpLinkSilently(s) ==
    [s EXCEPT !.restartArmed = FALSE, !.startWaits = FALSE, !.wakeLink = <<>>,
              !.linkedOnce = FALSE, !.account = "Unlinked"]

(* The user gave up the link and no helper runs.                            *)
GiveUpLink(s) ==
    LET off == [s EXCEPT !.restartArmed = FALSE, !.startWaits = FALSE,
                         !.wakeLink = <<>>, !.linkedOnce = FALSE,
                         !.account = "Unlinked"]
    IN  IF s.reported = "Restarting" THEN Report(off, "Idle") ELSE off

(* Variant: a load gets no end event.                                       *)
AnswerWithoutLoads(s, cs) ==
    LET told == RejectSends(s, {q \in Requests : SendText(q) \in cs})
    IN  IF CancelLink \in cs THEN GiveUpLink(told) ELSE told

(* answer_without_helper for each command of the set cs.                    *)
AnswerWithoutHelper(s, cs) ==
    LET sent == {q \in Requests : SendText(q) \in cs}
        told == [RejectSends(s, sent) EXCEPT !.loading = @ /\ Load \notin cs]
    IN  IF CancelLink \in cs THEN GiveUpLink(told) ELSE told

FailUnsentPairing(s) ==
    [s EXCEPT !.replayLink = NoGen, !.wakeLink = <<>>, !.account = "Unlinked"]

-----------------------------------------------------------------------------
(* The end of a helper.                                                     *)

DropLink(s) ==
    [s EXCEPT !.link = NoRun, !.greeted = FALSE, !.held = <<>>,
              !.unacked = 0, !.draining = FALSE]

EndPairing(s) == [s EXCEPT !.linkedOnce = FALSE, !.replayLink = NoGen]

(* Variant: the open sends stay open.                                       *)
StopForWithOpenSends(s) ==
    Report([DropLink(s) EXCEPT !.restartArmed = FALSE, !.wakeLink = <<>>,
                               !.replayLink = IF s.linkedOnce THEN @ ELSE NoGen,
                               !.account = "Unlinked"],
           "Stopped")

(* Stop for good, until the user clicks Restart or passes the gate again.   *)
StopFor(s) ==
    LET off == [DropLink(s) EXCEPT
                  !.restartArmed = FALSE, !.wakeLink = <<>>,
                  !.replayLink = IF s.linkedOnce THEN @ ELSE NoGen,
                  !.account = "Unlinked"]
    IN  Report(RejectOpenSends(off), "Stopped")

(* Variant: the pairing start of the user is left to the replay.            *)
EndUnsentWithoutPairing(s, unsent) == AnswerWithoutHelper(s, Range(unsent))

(* Variant: the last word is kept even if it is a cancel.                   *)
EndUnsentAnyWord(s, unsent) ==
    LET told == AnswerWithoutHelper(s, Range(unsent))
        words == Those(Pairings \cup {CancelLink}, unsent)
    IN  IF words # <<>>
          THEN [told EXCEPT !.replayLink = NoGen,
                            !.wakeLink = <<words[Len(words)]>>]
          ELSE told

(* End the commands that waited for Hello: they never crossed the pipe.  A  *)
(* pairing start stays for the next helper, if no cancel came after it.     *)
EndUnsent(s, unsent) ==
    LET told == AnswerWithoutHelper(s, Range(unsent))
        words == Those(Pairings \cup {CancelLink}, unsent)
    IN  IF words # <<>> /\ IsBegin(words[Len(words)])
          THEN [told EXCEPT !.replayLink = NoGen,
                            !.wakeLink = <<words[Len(words)]>>]
          ELSE told

(* Variant: the row of a user who gave the link up is not unlinked.         *)
HelperEndedLeavesRow(s, stable) ==
    LET t == RejectOpenSends(EndUnsent(DropLink(s), IF s.greeted THEN <<>> ELSE s.held))
    IN  IF ReplayIsEmpty(t) /\ t.wakeLink = <<>>
          THEN Report([t EXCEPT !.failures = 0], "Idle")
        ELSE IF stable \/ t.failures + 1 < MaxFailures
          THEN Report([t EXCEPT !.failures = IF stable THEN 1 ELSE @ + 1,
                                !.restartArmed = TRUE], "Restarting")
          ELSE StopFor(t)

(* Variant: the restart timer is not armed.                                 *)
HelperEndedWithoutTimer(s, stable) ==
    LET t == RejectOpenSends(EndUnsent(DropLink(s), IF s.greeted THEN <<>> ELSE s.held))
    IN  IF ReplayIsEmpty(t) /\ t.wakeLink = <<>>
          THEN Report([t EXCEPT !.failures = 0, !.account = "Unlinked"], "Idle")
          ELSE Report([t EXCEPT !.failures = 1], "Restarting")

(* The helper ended by itself, or it broke the protocol.  `stable` says     *)
(* that it ran at least HelperTiming::stable_run.                           *)
HelperEnded(s, stable) ==
    LET unsent == IF s.greeted THEN <<>> ELSE s.held
        t == RejectOpenSends(EndUnsent(DropLink(s), unsent))
        failures == IF stable THEN 1 ELSE t.failures + 1
        relinks == \/ t.replayLink # NoGen
                   \/ t.wakeLink # <<>>
                   \/ t.linkedOnce /\ t.acknowledged
        account == IF t.account = "Unlinked" \/ ~relinks
                     THEN "Unlinked" ELSE "Linking"
    IN  IF ReplayIsEmpty(t) /\ t.wakeLink = <<>>
          THEN Report([t EXCEPT !.failures = 0, !.account = "Unlinked",
                                !.linkedOnce = @ /\ t.account = "Unlinked"],
                      "Idle")
        ELSE IF failures >= MaxFailures
          THEN StopFor([t EXCEPT !.failures = failures])
          ELSE Report([t EXCEPT !.failures = failures, !.account = account,
                                !.restartArmed = TRUE],
                      "Restarting")

(* Variant: the stop deadline stays armed.                                  *)
FinishStopKeepsDeadline(s) ==
    [DropLink(s) EXCEPT !.sends = {}, !.stops = @ + 1]

(* The helper process is gone, or it goes now.                              *)
FinishStop(s) ==
    [DropLink(s) EXCEPT !.stopArmed = FALSE, !.sends = {}, !.stops = @ + 1]

OnHelperGone(s, stable) ==
    IF s.stopping THEN FinishStop(s) ELSE HelperEnded(s, stable)

-----------------------------------------------------------------------------
(* The start of a helper.                                                   *)

(* Variant: the pairing goes out before the gate.                           *)
StartCommandsGateLast(s) ==
    (IF s.replayLink # NoGen THEN <<BeginLink(s.replayLink, FALSE)>> ELSE <<>>)
      \o s.wakeLink
      \o (IF s.acknowledged THEN <<AcknowledgeGate>> ELSE <<>>)

(* The replay, then the pairing start of the user that woke the helper.  A  *)
(* pairing of the replay has no phone.                                      *)
StartCommands(s) ==
    (IF s.acknowledged THEN <<AcknowledgeGate>> ELSE <<>>)
      \o (IF s.replayLink # NoGen THEN <<BeginLink(s.replayLink, FALSE)>> ELSE <<>>)
      \o s.wakeLink

Outcomes == {"started", "missing", "failed"}

(* Variant: the old process is not waited for.                              *)
LaunchAtOnce(s, outcome, r) ==
    IF HasLink(s) \/ s.stopping \/ outcome # "started"
      THEN [s EXCEPT !.restartArmed = FALSE]
      ELSE Report([s EXCEPT !.restartArmed = FALSE, !.alive = @ \cup {r},
                            !.link = r, !.held = StartCommands(s), !.wakeLink = <<>>],
                  "Busy")

(* Variant: the pairing start that woke the helper is not taken out.        *)
LaunchKeepsWakeLink(s, outcome, r) ==
    IF HasLink(s) \/ s.stopping \/ s.alive # {} \/ outcome # "started"
      THEN [s EXCEPT !.restartArmed = FALSE, !.startWaits = s.alive # {} /\ ~s.stopping]
      ELSE Report([s EXCEPT !.restartArmed = FALSE, !.startWaits = FALSE,
                            !.alive = @ \cup {r}, !.link = r,
                            !.held = StartCommands(s)],
                  "Busy")

(* Start the helper and queue the replay.  `r` names the new process and    *)
(* `outcome` says what the operating system answered.                       *)
Launch(s, outcome, r) ==
    LET off == [s EXCEPT !.restartArmed = FALSE]
        ready == [off EXCEPT !.startWaits = FALSE]
    IN  CASE HasLink(s) \/ s.stopping -> off
          [] ~HasLink(s) /\ ~s.stopping /\ s.alive # {} ->
               [off EXCEPT !.startWaits = TRUE]
          [] ~HasLink(s) /\ ~s.stopping /\ s.alive = {} /\ outcome = "missing" ->
               Report([ready EXCEPT !.wakeLink = <<>>], "Missing")
          [] ~HasLink(s) /\ ~s.stopping /\ s.alive = {} /\ outcome = "failed" ->
               StopFor(ready)
          [] ~HasLink(s) /\ ~s.stopping /\ s.alive = {} /\ outcome = "started" ->
               Report([ready EXCEPT
                         !.alive = @ \cup {r}, !.link = r,
                         !.held = StartCommands(s),
                         !.replayLink = IF s.wakeLink # <<>>
                                          THEN s.wakeLink[1].gen ELSE @,
                         !.wakeLink = <<>>],
                      "Busy")

-----------------------------------------------------------------------------
(* Commands of the shell.                                                   *)

(* Replay::note.                                                            *)
Note(s, c) ==
    CASE c.type = "gate" -> [s EXCEPT !.acknowledged = TRUE]
      [] c.type = "begin" -> [s EXCEPT !.replayLink = c.gen]
      [] c.type = "cancel" -> [s EXCEPT !.acknowledged = FALSE,
                                        !.replayLink = NoGen]
      [] OTHER -> s

OpenSend(s, c) == IF c.type = "send" THEN [s EXCEPT !.sends = @ \cup {c.req}] ELSE s

(* Write the commands of the sequence cs to a helper that said Hello.  A    *)
(* command whose line is too long ends here.                                *)
WriteRequests(s, cs) ==
    LET fit == Those(Fitting, cs)
        unfit == Those(Command \ Fitting, cs)
        t == [s EXCEPT !.written = fit, !.unacked = @ + Len(fit)]
        u == AnswerWithoutHelper(t, Range(unfit))
    IN  IF \E c \in Range(unfit) : IsBegin(c) THEN FailUnsentPairing(u) ELSE u

(* Variant: a cancel leaves the pairing start in the queue.                 *)
RequestInOrder(s, c) ==
    LET t == OpenSend(s, c)
    IN  IF s.greeted THEN WriteRequests(t, <<c>>)
                     ELSE [t EXCEPT !.held = Append(@, c)]

(* Send one request to the helper, or keep it until Hello.  A cancel takes  *)
(* a pairing start that still waits out of the queue.                       *)
Request(s, c) ==
    LET t == OpenSend(s, c)
        kept == IF c.type = "cancel" THEN Those(Command \ Pairings, t.held) ELSE t.held
    IN  IF s.greeted THEN WriteRequests(t, <<c>>)
                     ELSE [t EXCEPT !.held = Append(kept, c)]

OnCommand(s, c, outcome, r) ==
    CASE s.stopping -> s
      [] ~s.stopping /\ HasLink(s) -> Request(Note(s, c), c)
      [] ~s.stopping /\ ~HasLink(s) /\ c.type = "gate" ->
           Launch([Note(s, c) EXCEPT !.failures = 0], outcome, r)
      [] ~s.stopping /\ ~HasLink(s) /\ c.type = "begin" ->
           Launch([s EXCEPT !.replayLink = NoGen, !.wakeLink = <<c>>,
                            !.failures = 0], outcome, r)
      [] ~s.stopping /\ ~HasLink(s) /\ c.type \notin {"gate", "begin"} ->
           AnswerWithoutHelper(Note(s, c), {c})

OnRestart(s, outcome, r) ==
    IF s.stopping \/ HasLink(s) THEN s
    ELSE Launch([s EXCEPT !.failures = 0], outcome, r)

(* Variant: no deadline for the helper's Stopped.                           *)
OnShutdownPatiently(s) ==
    LET off == [s EXCEPT !.stopping = TRUE, !.restartArmed = FALSE,
                         !.wakeLink = <<>>, !.startWaits = FALSE]
    IN  IF s.stopping THEN s
        ELSE IF HasLink(s) THEN [off EXCEPT !.written = <<Shutdown>>]
        ELSE FinishStop(off)

OnShutdown(s) ==
    LET off == [s EXCEPT !.stopping = TRUE, !.restartArmed = FALSE,
                         !.wakeLink = <<>>, !.startWaits = FALSE]
    IN  CASE s.stopping -> s
          [] ~s.stopping /\ ~HasLink(s) -> FinishStop(off)
          [] ~s.stopping /\ HasLink(s) ->
               [off EXCEPT !.written = <<Shutdown>>, !.stopArmed = TRUE]

-----------------------------------------------------------------------------
(* Lines of the current helper.                                             *)

(* Variant: a helper that says Hello clears the count of failures.          *)
OnHelloForgives(s) ==
    WriteRequests(Report([s EXCEPT !.greeted = TRUE, !.held = <<>>, !.failures = 0],
                         "Running"),
                  s.held)

(* Hello with the right version: write what waited for it.                  *)
OnHello(s) ==
    WriteRequests(Report([s EXCEPT !.greeted = TRUE, !.held = <<>>], "Running"),
                  s.held)

(* The helper acknowledges its requests in order.  `slow` says that the     *)
(* oldest request without an Ack waits longer than HelperTiming::busy_after.*)
OnAck(s, slow) ==
    LET left == IF s.unacked = 0 THEN 0 ELSE s.unacked - 1
        t == [s EXCEPT !.unacked = left]
    IN  IF s.reported = "Busy" /\ ~(slow /\ left > 0) THEN Report(t, "Running") ELSE t

(* An Account event: the new link state.                                    *)
OnAccount(s, state) ==
    LET t == [s EXCEPT !.account = state]
    IN  CASE state = "Linked" -> [t EXCEPT !.linkedOnce = TRUE]
          [] state = "Unlinked" -> EndPairing(t)
          [] state = "Linking" -> t

(* Variant: the send stays open after its answer.                           *)
OnSendAnswerStaysOpen(s, q) == [s EXCEPT !.answers[q] = @ + 1]

(* SendAccepted or SendRejected.  The event always goes to the shell.       *)
OnSendAnswer(s, q) ==
    [s EXCEPT !.sends = @ \ {q}, !.answers[q] = @ + 1]

(* The exit of process r.  Its last lines can still be on the way, so its   *)
(* output ends the link, or the drain deadline does.                        *)
OnExited(s, r, outcome, new) ==
    LET t == [s EXCEPT !.alive = @ \ {r},
                       !.draining = @ \/ s.link = r]
    IN  IF t.startWaits /\ t.alive = {} THEN Launch(t, outcome, new) ELSE t
=============================================================================
