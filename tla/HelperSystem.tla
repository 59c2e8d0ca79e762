------------------------------ MODULE HelperSystem ------------------------------
(***************************************************************************)
(* One helper protocol of the app: the shell, the supervisor of its helper *)
(* (helper/supervisor.rs, the operators of module Supervisor), and the     *)
(* helper processes with their pipes (helper/launch.rs, helper/serve.rs).  *)
(*                                                                         *)
(* A process name is used again when nothing of the old process is left:   *)
(* it ended, the supervisor handled its exit, and its output was read to   *)
(* the end.  The code numbers processes with a counter; only the fact that *)
(* a new number is unlike every number still in use matters.               *)
(***************************************************************************)
EXTENDS Supervisor

CONSTANTS
    HasPairCode,  \* WhatsApp pairs by phone number too, Signal does not
    Uses,         \* bound: what a behaviour asks of a helper, sends or chats
    StoredDevice, \* the uses that start with a linked device in the store
    MaxQueue,     \* bound: commands that wait for Hello, or for their Ack
    MaxLines      \* bound: a helper writes when fewer of its lines wait

ASSUME HasPairCodeAssumption == HasPairCode \in BOOLEAN
ASSUME UsesAssumption == Uses \subseteq {"send", "load"} /\ StoredDevice \subseteq Uses
ASSUME BoundsAssumption == MaxQueue \in Nat /\ MaxLines \in Nat

VARIABLES
    sup,       \* the supervisor
    up,        \* processes that the operating system runs
    reading,   \* processes whose output the supervisor still reads
    input,     \* per process: commands in its stdin
    output,    \* per process: lines in its stdout
    helper,    \* per process: the state of the serve loop and its adapter
    device,    \* the session store holds a linked device
    gate,      \* the shell holds the acceptance of the risk gate
    cancelled, \* the user gave up every pairing with a smaller number
    nextGen,   \* next pairing number of the shell
    asked,     \* sends that the shell issued
    use,       \* what this behaviour asks of a helper; it stays
    phones,    \* per pairing: how often its phone number crossed a pipe
    streak     \* failed runs since the last word of the user or stable run

shell == <<gate, cancelled, nextGen, asked, use>>
ghost == <<phones, streak>>
process == <<up, reading, input, output, helper>>
vars == <<sup, up, reading, input, output, helper, device, gate,
          cancelled, nextGen, asked, use, phones, streak>>

-----------------------------------------------------------------------------
Line(type) == [type |-> type]
Answer(q) == [type |-> "answer", req |-> q]

Lines ==
    {Line(t) : t \in {"hello", "badHello", "refused", "ack", "loaded", "Unlinked",
                      "Linking", "Linked", "ended", "stopped", "garbage", "closed"}}
      \cup {Answer(q) : q \in Requests}

HelperProcess ==
    [spoke : BOOLEAN, gate : BOOLEAN, link : AccountState,
     todo : SUBSET Requests, stopping : BOOLEAN]

NewProcess ==
    [spoke |-> FALSE, gate |-> FALSE, link |-> "Unlinked", todo |-> {},
     stopping |-> FALSE]

TypeOK ==
    /\ sup \in SupervisorState
    /\ up \subseteq Runs
    /\ reading \subseteq Runs
    /\ input \in [Runs -> Seq(Command \cup {Shutdown})]
    /\ output \in [Runs -> Seq(Lines)]
    /\ helper \in [Runs -> HelperProcess]
    /\ device \in BOOLEAN
    /\ gate \in BOOLEAN
    /\ cancelled \in Nat
    /\ nextGen \in Nat
    /\ asked \subseteq Requests
    /\ use \in Uses
    /\ phones \in [Generations -> Nat]
    /\ streak \in Nat

(* A device of an earlier session can be in the store.                      *)
Init ==
    /\ \E installed \in BOOLEAN : sup = InitialSupervisor(installed)
    /\ up = {} /\ reading = {}
    /\ input = [r \in Runs |-> <<>>]
    /\ output = [r \in Runs |-> <<>>]
    /\ helper = [r \in Runs |-> NewProcess]
    /\ use \in Uses /\ device = (use \in StoredDevice)
    /\ gate = FALSE /\ cancelled = 1 /\ nextGen = 1 /\ asked = {}
    /\ phones = [g \in Generations |-> 0]
    /\ streak = 0

-----------------------------------------------------------------------------
(* Steps of the supervisor.                                                 *)

Unused == Runs \ (up \cup sup.alive \cup reading)

(* What the operating system can answer if this step asks it for a process, *)
(* with the name of the process; `alive` is what the supervisor knows.  It  *)
(* would start a second process too: only Launch stands against that.       *)
Starts(alive, unused) ==
    IF HasLink(sup) \/ sup.stopping \/ (alive # {} /\ unused = {})
      THEN {<<"failed", NoRun>>}
      ELSE Outcomes \X unused

(* The supervisor goes to the state s.  A new link starts a process, with   *)
(* tasks for its pipes and its exit.  The lines that the step wrote go to   *)
(* the stdin of the linked process, if it did not end yet.                  *)
Becomes(s) ==
    LET started == IF HasLink(s) /\ ~HasLink(sup) THEN {s.link} ELSE {}
        phoned(g) == {i \in DOMAIN s.written : s.written[i] = BeginLink(g, TRUE)}
    IN  /\ sup' = [s EXCEPT !.written = <<>>]
        /\ up' = up \cup started
        /\ input' = [r \in Runs |->
                       IF r \in started THEN <<>>
                       ELSE IF r = s.link /\ r \in up THEN input[r] \o s.written
                       ELSE input[r]]
        /\ helper' = [r \in Runs |-> IF r \in started THEN NewProcess ELSE helper[r]]
        /\ phones' = [g \in Generations |-> phones[g] + Cardinality(phoned(g))]

Started == IF HasLink(sup') /\ ~HasLink(sup) THEN {sup'.link} ELSE {}

(* A step of the supervisor that reads no output of a helper.               *)
Acts(s) ==
    /\ Becomes(s)
    /\ reading' = reading \cup Started
    /\ UNCHANGED <<output, device>>

(* The helper ends in this step.  hello_wait is far below stable_run, so a  *)
(* stable run said Hello.                                                   *)
Stable == IF sup.greeted THEN BOOLEAN ELSE {FALSE}
Ends(stable) == streak' = IF stable THEN 1 ELSE streak + 1

-----------------------------------------------------------------------------
(* The shell.  Its commands wait in an unbounded queue, so a command can    *)
(* meet the supervisor in any state.  Only the shell's own guards hold: a   *)
(* pairing starts after the gate was accepted (begin_whatsapp_link,         *)
(* begin_signal_link).                                                      *)

(* A pairing or a second send finds room after another command, and a       *)
(* cancel after everything else; a behaviour about loads has no more room.  *)
Room(c) ==
    LET more == IF use = "load" THEN 0
                ELSE IF c = CancelLink THEN 2
                ELSE IF IsBegin(c) \/ c.type = "send" THEN 1 ELSE 0
    IN  Len(sup.held) + sup.unacked < MaxQueue + more

(* A command reaches the supervisor.  It can start a helper.                *)
Commands(c) ==
    /\ Room(c)
    /\ \E start \in Starts(sup.alive, Unused) :
         Acts(OnCommand(sup, c, start[1], start[2]))

(* The gate is accepted, or a saved acceptance is restored at start.        *)
AcceptGate ==
    /\ Commands(AcknowledgeGate)
    /\ gate' = TRUE
    /\ streak' = 0
    /\ UNCHANGED <<cancelled, nextGen, asked, use>>

StartPairing(phone) ==
    /\ gate
    /\ nextGen \in Generations
    /\ Commands(BeginLink(nextGen, phone))
    /\ nextGen' = nextGen + 1
    /\ streak' = 0
    /\ UNCHANGED <<gate, cancelled, asked, use>>

(* Cancel, log out, or the gate opened again.                               *)
Cancel ==
    /\ Commands(CancelLink)
    /\ gate' = FALSE
    /\ cancelled' = nextGen
    /\ streak' = 0
    /\ UNCHANGED <<nextGen, asked, use>>

(* "Link with phone number instead": the pairing stops, and the shell keeps *)
(* the gate.                                                                *)
LinkWithPhone ==
    /\ HasPairCode /\ gate /\ cancelled < nextGen
    /\ Commands(CancelLink)
    /\ cancelled' = nextGen
    /\ streak' = 0
    /\ UNCHANGED <<gate, nextGen, asked, use>>

Send(q) ==
    /\ use = "send" /\ q \notin asked
    /\ Commands(SendText(q))
    /\ asked' = asked \cup {q}
    /\ UNCHANGED <<gate, cancelled, nextGen, use, streak>>

(* A load with a helper shows a spinner until its end event.                *)
LoadChats ==
    /\ use = "load" /\ Room(Load)
    /\ Acts(OnCommand([sup EXCEPT !.loading = TRUE], Load, "failed", NoRun))
    /\ UNCHANGED <<shell, streak>>

(* The user clicks Restart.                                                 *)
RestartHelper ==
    /\ \E start \in Starts(sup.alive, Unused) :
         Acts(OnRestart(sup, start[1], start[2]))
    /\ streak' = 0
    /\ UNCHANGED shell

(* The app closes.                                                          *)
Close ==
    /\ Acts(OnShutdown(sup))
    /\ UNCHANGED <<shell, streak>>

ShellStep ==
    \/ AcceptGate
    \/ \E phone \in {FALSE, HasPairCode} : StartPairing(phone)
    \/ Cancel
    \/ LinkWithPhone
    \/ \E q \in Requests : Send(q)
    \/ LoadChats
    \/ RestartHelper
    \/ Close

-----------------------------------------------------------------------------
(* The timers of the supervisor: on_timer, one action per deadline.         *)

RestartTimer ==
    /\ sup.restartArmed
    /\ \E start \in Starts(sup.alive, Unused) :
         Acts(Launch([sup EXCEPT !.restartArmed = FALSE], start[1], start[2]))
    /\ UNCHANGED <<shell, streak>>

StopTimer ==
    /\ sup.stopArmed
    /\ Acts(FinishStop(sup))
    /\ UNCHANGED <<shell, streak>>

(* The old process got its kill and still runs.                             *)
OldExitTimer ==
    /\ sup.startWaits
    /\ Acts(StopFor([sup EXCEPT !.startWaits = FALSE]))
    /\ UNCHANGED <<shell, streak>>

DrainTimer ==
    /\ HasLink(sup) /\ sup.draining
    /\ \E stable \in Stable : Acts(OnHelperGone(sup, stable)) /\ Ends(stable)
    /\ UNCHANGED shell

HelloTimer ==
    /\ HasLink(sup) /\ ~sup.greeted
    /\ Acts(HelperEnded(sup, FALSE))
    /\ Ends(FALSE)
    /\ UNCHANGED shell

(* The oldest request has no Ack after busy_after.                          *)
BusyTimer ==
    /\ HasLink(sup) /\ sup.greeted /\ sup.unacked > 0 /\ sup.reported = "Running"
    /\ Acts(Report(sup, "Busy"))
    /\ UNCHANGED <<shell, streak>>

TimerStep ==
    \/ RestartTimer \/ StopTimer \/ OldExitTimer
    \/ DrainTimer \/ HelloTimer \/ BusyTimer

-----------------------------------------------------------------------------
(* The exit of a process and the lines of its output, in the supervisor's   *)
(* queue.  An exit and the lines before it come from two tasks, so the exit *)
(* can overtake the lines.                                                  *)

Exited(r) ==
    /\ r \in sup.alive \ up
    /\ \E start \in Starts(sup.alive \ {r}, (Unused \cup {r}) \ reading) :
         Acts(OnExited(sup, r, start[1], start[2]))
    /\ UNCHANGED <<shell, streak>>

(* The supervisor takes the next line of process r and goes to state s.     *)
Takes(r, s) ==
    /\ Becomes(s)
    /\ reading' = reading
    /\ output' = [output EXCEPT ![r] = Tail(@)]
    /\ UNCHANGED <<device, shell>>

Next1(r, types) == r \in reading /\ output[r] # <<>> /\ Head(output[r]).type \in types

(* A line of the current helper, at a time when it is in place.             *)
Reads(r, types, greeted) ==
    /\ sup.link = r /\ sup.greeted = greeted /\ Next1(r, types)

Hello(r) ==
    /\ Reads(r, {"hello"}, FALSE)
    /\ Takes(r, OnHello(sup))
    /\ UNCHANGED streak

(* Another wire protocol, or the helper refuses to run.                     *)
Refused(r) ==
    /\ Reads(r, {"badHello", "refused"}, FALSE)
    /\ Takes(r, StopFor(sup))
    /\ UNCHANGED streak

Ack(r) ==
    /\ Reads(r, {"ack"}, TRUE)
    /\ \E slow \in BOOLEAN : Takes(r, OnAck(sup, slow))
    /\ UNCHANGED streak

AccountEvent(r) ==
    /\ Reads(r, AccountState, TRUE)
    /\ Takes(r, OnAccount(sup, Head(output[r]).type))
    /\ UNCHANGED streak

AccountEnded(r) ==
    /\ Reads(r, {"ended"}, TRUE)
    /\ Takes(r, EndPairing(sup))
    /\ UNCHANGED streak

SendAnswer(r) ==
    /\ Reads(r, {"answer"}, TRUE)
    /\ Takes(r, OnSendAnswer(sup, Head(output[r]).req))
    /\ UNCHANGED streak

Loaded(r) ==
    /\ Reads(r, {"loaded"}, TRUE)
    /\ Takes(r, [sup EXCEPT !.loading = FALSE])
    /\ UNCHANGED streak

HelperStopped(r) ==
    /\ Reads(r, {"stopped"}, TRUE)
    /\ Takes(r, IF sup.stopping THEN FinishStop(sup) ELSE sup)
    /\ UNCHANGED streak

(* A line at the wrong time: the helper is broken.                          *)
OutOfPlace(r) ==
    /\ \/ Reads(r, {"hello", "badHello", "refused", "garbage"}, TRUE)
       \/ Reads(r, {l.type : l \in Lines} \ {"hello", "badHello", "refused", "closed"}, FALSE)
    /\ \E stable \in Stable : Takes(r, HelperEnded(sup, stable)) /\ Ends(stable)

(* The output of process r ended or broke: its reader ends too.             *)
OutputEnded(r) ==
    /\ Next1(r, {"closed"})
    /\ reading' = reading \ {r}
    /\ output' = [output EXCEPT ![r] = <<>>]
    /\ IF sup.link = r
         THEN \E stable \in Stable : Becomes(OnHelperGone(sup, stable)) /\ Ends(stable)
         ELSE Becomes(sup) /\ UNCHANGED streak
    /\ UNCHANGED <<device, shell>>

(* A line of a process that the supervisor already dropped.                 *)
StaleLine(r) ==
    /\ sup.link # r
    /\ Next1(r, {l.type : l \in Lines} \ {"closed"})
    /\ Takes(r, sup)
    /\ UNCHANGED streak

LineStep(r) ==
    \/ Exited(r) \/ Hello(r) \/ Refused(r) \/ Ack(r) \/ AccountEvent(r)
    \/ AccountEnded(r) \/ SendAnswer(r) \/ Loaded(r) \/ HelperStopped(r)
    \/ OutOfPlace(r) \/ OutputEnded(r) \/ StaleLine(r)

-----------------------------------------------------------------------------
(* The helper process: serve.rs and the adapter behind it.  The adapter is  *)
(* modelled as far as the supervisor and the shell can tell: the gate comes *)
(* before a pairing, and every send is answered at most once.  A process    *)
(* whose link was dropped got its kill: all it does in this model is end.   *)
(* What it does between the two is what it can do before its link is        *)
(* dropped, with lines that are then stale.                                 *)

Linked(r) == r \in up /\ sup.link = r

(* Process r changes its state to h and writes lines.                       *)
Writes(r, h, lines) ==
    /\ Len(output[r]) < MaxLines
    /\ helper' = [helper EXCEPT ![r] = h]
    /\ output' = [output EXCEPT ![r] = IF r \in reading THEN @ \o lines ELSE @]
    /\ UNCHANGED <<sup, up, reading, shell, ghost>>

Says(r, h, lines) == Writes(r, h, lines) /\ UNCHANGED <<input, device>>

(* The first line: Hello, a Hello of another version, or a refusal.         *)
Speaks(r) ==
    /\ Linked(r) /\ ~helper[r].spoke
    /\ \E first \in {"hello", "badHello", "refused"} :
         Says(r, [helper[r] EXCEPT !.spoke = TRUE], <<Line(first)>>)

Serving(r) == Linked(r) /\ helper[r].spoke /\ ~helper[r].stopping

(* Take request c: h is the next state, `lines` are its Ack and events.     *)
Serves(r, type, h, lines) ==
    /\ Serving(r) /\ input[r] # <<>> /\ Head(input[r]).type = type
    /\ input' = [input EXCEPT ![r] = Tail(@)]
    /\ Writes(r, h, lines)

TakesGate(r) ==
    /\ Serves(r, "gate", [helper[r] EXCEPT !.gate = TRUE], <<Line("ack")>>)
    /\ UNCHANGED device

(* Without the gate the adapter refuses the pairing.  With it a new client  *)
(* starts, also in the place of one that runs.                              *)
TakesBegin(r) ==
    /\ IF helper[r].gate
         THEN Serves(r, "begin", [helper[r] EXCEPT !.link = "Linking"],
                     <<Line("ack"), Line("Linking")>>)
         ELSE Serves(r, "begin", helper[r], <<Line("ack")>>)
    /\ UNCHANGED device

(* A log out deletes the session store, the cancel of a pairing keeps it.   *)
TakesCancel(r) ==
    /\ Serves(r, "cancel", [helper[r] EXCEPT !.gate = FALSE, !.link = "Unlinked"],
              <<Line("ack"), Line("Unlinked")>>)
    /\ device' \in {device, FALSE}

TakesSend(r) ==
    /\ Serves(r, "send", [helper[r] EXCEPT !.todo = @ \cup {Head(input[r]).req}],
              <<Line("ack")>>)
    /\ UNCHANGED device

TakesLoad(r) ==
    /\ Serves(r, "load", helper[r], <<Line("ack"), Line("loaded")>>)
    /\ UNCHANGED device

(* Close every session; Stopped goes out when the adapter confirms in time. *)
TakesShutdown(r) ==
    /\ \E confirmed \in BOOLEAN :
         Serves(r, "shutdown", [helper[r] EXCEPT !.stopping = TRUE],
                IF confirmed THEN <<Line("stopped")>> ELSE <<>>)
    /\ UNCHANGED device

(* The accepted gate opens a saved session, and a reconnect is Linking too. *)
Resumes(r) ==
    /\ Serving(r) /\ helper[r].gate /\ device
    /\ helper[r].link \in {"Unlinked", "Linked"}
    /\ Says(r, [helper[r] EXCEPT !.link = "Linking"], <<Line("Linking")>>)

Links(r) ==
    /\ Serving(r) /\ helper[r].link = "Linking"
    /\ Writes(r, [helper[r] EXCEPT !.link = "Linked"], <<Line("Linked")>>)
    /\ device' = TRUE
    /\ UNCHANGED input

(* A failed pairing, or the user removed this device on the phone.          *)
Unlinks(r) ==
    /\ Serving(r) /\ helper[r].link # "Unlinked"
    /\ \E event \in {"Unlinked", "ended"} :
         Writes(r, [helper[r] EXCEPT !.link = "Unlinked"], <<Line(event)>>)
    /\ device' = FALSE
    /\ UNCHANGED input

Answers(r) ==
    /\ Serving(r)
    /\ \E q \in helper[r].todo :
         Says(r, [helper[r] EXCEPT !.todo = @ \ {q}], <<Answer(q)>>)

(* A line that is not in its place, or an output that ends or breaks while  *)
(* the process still runs.                                                  *)
Breaks(r) ==
    /\ Linked(r)
    /\ \E line \in {"garbage", "closed"} : Says(r, helper[r], <<Line(line)>>)

(* The process ends: by itself, by a crash, or by the kill of its link.     *)
Dies(r) ==
    /\ r \in up
    /\ up' = up \ {r}
    /\ output' = [output EXCEPT ![r] = IF r \in reading THEN Append(@, Line("closed"))
                                                         ELSE @]
    /\ input' = [input EXCEPT ![r] = <<>>]
    /\ helper' = [helper EXCEPT ![r] = NewProcess]
    /\ UNCHANGED <<sup, reading, device, shell, ghost>>

HelperStep(r) ==
    \/ Speaks(r) \/ TakesGate(r) \/ TakesBegin(r) \/ TakesCancel(r)
    \/ TakesSend(r) \/ TakesLoad(r) \/ TakesShutdown(r) \/ Resumes(r)
    \/ Links(r) \/ Unlinks(r) \/ Answers(r) \/ Breaks(r) \/ Dies(r)

-----------------------------------------------------------------------------
Next == ShellStep \/ TimerStep \/ \E r \in Runs : LineStep(r) \/ HelperStep(r)

Spec == Init /\ [][Next]_vars

(* The runtime fires due timers and hands over messages; the operating      *)
(* system ends a process that got its kill.  Nothing is assumed of a helper *)
(* that runs, nor of the user.                                              *)
Fairness ==
    /\ WF_vars(RestartTimer) /\ WF_vars(StopTimer) /\ WF_vars(OldExitTimer)
    /\ WF_vars(DrainTimer) /\ WF_vars(HelloTimer)
    /\ \A r \in Runs : /\ WF_vars(LineStep(r))
                       /\ WF_vars(r # sup.link /\ Dies(r))

FairSpec == Spec /\ Fairness

-----------------------------------------------------------------------------
(* At most one helper process of the protocol exists, so no two processes   *)
(* use the session store (Supervisor.alive, launch).                        *)
OneProcess == \A r1, r2 \in up : r1 = r2

(* Every send of the shell is answered, or it is open at a helper that      *)
(* runs: the end of a helper leaves no send pending (ADR 0010 rule 4).      *)
NoSendIsLost ==
    \A q \in asked :
      \/ sup.answers[q] > 0
      \/ q \in sup.sends /\ HasLink(sup)
      \/ sup.stopping

(* The supervisor keeps the send contract of the adapters, whatever happens *)
(* to its helpers (ADR 0010 rule 4): a send gets one answer, not even two   *)
(* when the answer of a helper meets the rejection that its end causes.     *)
SendState(q) ==
    CASE q \notin asked -> "new"
      [] q \in asked /\ sup.answers[q] = 0 -> "open"
      [] q \in asked /\ sup.answers[q] = 1 -> "answered"
      [] q \in asked /\ sup.answers[q] > 1 -> "answered twice"

Contract == INSTANCE SendContract WITH
    state <- [q \in Requests |-> SendState(q)],
    serving <- HasLink(sup),
    closed <- sup.stopping

KeepsSendContract == Contract!ContractSpec

(* A pairing start reaches a helper that accepted the gate: no helper       *)
(* process gets BeginLink without the AcknowledgeGate of the user.          *)
PairingHasGate ==
    \A r \in Runs :
      input[r] # <<>> /\ IsBegin(Head(input[r])) => helper[r].gate

(* The phone number of a pairing crosses a pipe at most once, whatever      *)
(* helpers end and start (ADR 0012 "Secrets on the wire").                  *)
PhoneCrossesOnce == \A g \in Generations : phones[g] <= 1

(* A pairing that the user gave up crosses no pipe after that: not from the *)
(* queue of a helper that starts, and not from the replay of a later one.   *)
(* (A command that comes after the close of the app is ignored.)            *)
WritesNoGivenUp ==
    \A r \in Runs : \A c \in Range(input'[r]) \ Range(input[r]) :
      IsBegin(c) => c.gen >= cancelled' \/ sup.stopping

CancelWins == [][WritesNoGivenUp]_vars

(* A pairing start with a phone that no helper got yet stays for the next   *)
(* helper with its phone, until the user cancels it or starts another one,  *)
(* the helper is stopped for good, or the app closes (end_unsent).          *)
PhoneWaits(g) == BeginLink(g, TRUE) \in Range(sup.held) \cup Range(sup.wakeLink)

DropsNoPairing ==
    \A g \in Generations \ TooLong :
      PhoneWaits(g) => \/ PhoneWaits(g)'
                       \/ phones'[g] > phones[g]
                       \/ g < cancelled'
                       \/ g + 1 < nextGen'
                       \/ sup'.reported \in {"Stopped", "Missing"}
                       \/ sup'.stopping

PairingKept == [][DropsNoPairing]_vars

(* A row that says Restarting has a start on the way: a restart timer, or   *)
(* the exit of the old process that a start waits for.                      *)
RestartingHasStart ==
    sup.reported = "Restarting" => sup.restartArmed \/ sup.startWaits \/ sup.stopping

(* A row that says Linked or Linking has a helper behind it, or one that    *)
(* starts (helper_ended).  A program that is gone (Missing) is the          *)
(* exception that the code makes.                                           *)
LinkedRowHasHelper ==
    sup.account # "Unlinked" =>
      \/ HasLink(sup) \/ sup.restartArmed \/ sup.startWaits
      \/ sup.reported = "Missing" \/ sup.stopping

(* A spinner of the shell has a helper that can end it (ADR 0010 rules 5    *)
(* and 9).                                                                  *)
SpinnerHasHelper == sup.loading => HasLink(sup) \/ sup.stopping

(* A crash loop ends: with no word of the user and no stable run, the       *)
(* supervisor lets at most max_failures helpers fail in a row.              *)
CrashLoopBounded == streak <= MaxFailures

(* Stopped goes to the shell at most once, and after it no helper is linked *)
(* any more: no late timer and no late exit starts one.                     *)
StoppedOnce == sup.stops <= 1 /\ (sup.stops = 1 => ~HasLink(sup))

(* An app that closes gets Stopped, whatever the helper does.               *)
CloseEnds == sup.stopping ~> sup.stops = 1

(* A row does not stay Restarting: the helper starts, or the row says why   *)
(* it does not.                                                             *)
RestartingEnds ==
    sup.reported = "Restarting" ~> sup.reported # "Restarting" \/ sup.stopping
=============================================================================
