------------------------------ MODULE InstanceLock ------------------------------
(***************************************************************************)
(* Copies of the app that the user starts: the lock that one of them holds *)
(* (instance.rs), the endpoint beside it where a second copy asks for the  *)
(* window of the first (show.rs), the wait for a copy that closes          *)
(* (app/startup.rs), and the close of the window (app/mod.rs).             *)
(*                                                                         *)
(* The listener of a copy is a thread of its own: it reads the flag        *)
(* `closing`, replies and then wakes the window, each in a step.  A frame  *)
(* of the window is three steps: the close request, the flag, the show.    *)
(* A process may end at any time: by the close, by its watchdog, by a      *)
(* signal or by a crash.  Then its lock goes before its endpoint, in the   *)
(* order in which it opened them.  A deadline may come at any time.        *)
(***************************************************************************)
EXTENDS Naturals, FiniteSets

CONSTANTS
    Copy,      \* processes of the app
    NoCopy,
    LockFails  \* whether the lock file may be of no use

ASSUME CopyNames == NoCopy \notin Copy /\ LockFails \in BOOLEAN

VARIABLES
    lock,     \* the copy that holds the lock
    endpoint, \* the copy whose socket is at the path
    copy

instanceVars == <<lock, endpoint, copy>>

-----------------------------------------------------------------------------
Process ==
    [stage : {"none", "asking", "asked", "trying", "waiting", "won", "late", "ready",
              "running", "shown", "failed", "ended"},
     window : BOOLEAN,            \* the small window is open
     unlocked : BOOLEAN,          \* it started without the lock
     server : Copy \cup {NoCopy}, \* the copy that it asks,
     told : {"none", "shown", "closing"}, \* and what that one is about to reply
     listens : BOOLEAN,
     signals : BOOLEAN,           \* its listener replied, and has not woken it
     pending : BOOLEAN, wake : BOOLEAN, closing : BOOLEAN, \* show.rs State
     frame : BOOLEAN,             \* a repaint is requested
     ui : {"idle", "marking", "raising"},
     open : BOOLEAN,              \* the close gate
     watchdog : BOOLEAN, hidden : BOOLEAN,
     owed : SUBSET Copy]          \* ghost: copies that ended for its window

NewCopy ==
    [stage |-> "none", window |-> FALSE, unlocked |-> FALSE, server |-> NoCopy,
     told |-> "none", listens |-> FALSE, signals |-> FALSE, pending |-> FALSE,
     wake |-> FALSE, closing |-> FALSE, frame |-> FALSE, ui |-> "idle", open |-> TRUE,
     watchdog |-> FALSE, hidden |-> FALSE, owed |-> {}]

InstanceTypeOK ==
    /\ lock \in Copy \cup {NoCopy} /\ endpoint \in Copy \cup {NoCopy}
    /\ copy \in [Copy -> Process]

InstanceInit == lock = NoCopy /\ endpoint = NoCopy /\ copy = [p \in Copy |-> NewCopy]

Ended(p) == copy[p].stage \in {"ended", "shown"}
Keeps == UNCHANGED <<lock, endpoint>>
Goes(p, stage) == copy' = [copy EXCEPT ![p].stage = stage]

-----------------------------------------------------------------------------
(* A launch, until it has the lock or ends.                                 *)

(* try_acquire: the lock, or an error that lets the copy start without it.  *)
Acquires(p) ==
    \/ lock = NoCopy /\ lock' = p /\ Goes(p, "won") /\ UNCHANGED endpoint
    \/ LockFails /\ copy' = [copy EXCEPT ![p].stage = "ready", ![p].unlocked = TRUE] /\ Keeps

(* first_try.                                                               *)
Launches(p) ==
    /\ copy[p].stage = "none"
    /\ Acquires(p) \/ (lock # NoCopy /\ Goes(p, "asking") /\ Keeps)

(* ask: connects, or finds nobody at the endpoint.                          *)
Ask(p) ==
    /\ copy[p].stage = "asking"
    /\ IF endpoint # NoCopy /\ copy[endpoint].listens
         THEN copy' = [copy EXCEPT ![p].stage = "asked", ![p].server = endpoint]
         ELSE Goes(p, "trying")
    /\ Keeps

(* The exchange ends without an answer: its limit, or the end of the other  *)
(* copy.  No reply is written to a copy that left.                          *)
AskEnds(p) ==
    /\ copy[p].stage = "asked"
    /\ copy' = [copy EXCEPT ![p].stage = "trying", ![p].server = NoCopy, ![p].told = "none"]
    /\ Keeps

(* No answer: the lock is tried once more before the next ask.              *)
TryLock(p) ==
    /\ copy[p].stage = "trying"
    /\ \/ Acquires(p)
       \/ lock # NoCopy /\ Keeps /\ (Goes(p, "asking") \/ Goes(p, "late"))

(* acquire_until: a copy that closes is waited for, and not asked again.    *)
AwaitLock(p) ==
    /\ copy[p].stage = "waiting"
    /\ Acquires(p) \/ (lock # NoCopy /\ Goes(p, "late") /\ Keeps)

(* Variant: a launch that waited long enough starts.                        *)
GiveUpStarts(p) ==
    /\ copy[p].stage = "late"
    /\ IF copy[p].window THEN Goes(p, "ready")
       ELSE \E next \in {"asking", "failed"} :
              copy' = [copy EXCEPT ![p].stage = next, ![p].window = TRUE]
    /\ Keeps

(* StillHeld: the silent wait opens the small window, whose thread may not  *)
(* start, and the wait of that window ends the launch.                      *)
GiveUp(p) ==
    /\ copy[p].stage = "late"
    /\ \E next \in {"asking", "failed"} :
         /\ copy[p].window => next = "failed"
         /\ copy' = [copy EXCEPT ![p].stage = next, ![p].window = TRUE]
    /\ Keeps

TryAgain(p) == copy[p].stage = "failed" /\ Goes(p, "asking") /\ Keeps

-----------------------------------------------------------------------------
(* The holder of the lock.                                                  *)

PathIsFree == endpoint = NoCopy \/ ~copy[endpoint].listens

(* hold: the socket of a copy that ended is replaced, one that still takes  *)
(* connections is not, and the bind or its thread may fail.                 *)
HoldLock(p) ==
    /\ copy[p].stage = "won"
    /\ \E bound \in {FALSE, PathIsFree} :
         /\ copy' = [copy EXCEPT ![p].stage = "ready", ![p].listens = bound]
         /\ endpoint' = IF bound THEN p ELSE endpoint
    /\ UNCHANGED lock

(* Variant: a show that came before the window is not delivered.            *)
OpenAppDeaf(p) ==
    /\ copy[p].stage = "ready"
    /\ copy' = [copy EXCEPT ![p].stage = "running", ![p].window = TRUE,
                  ![p].wake = copy[p].listens]
    /\ Keeps

(* ThinwireApp::new: set_wake delivers a show that came before.             *)
OpenApp(p) ==
    /\ copy[p].stage = "ready"
    /\ copy' = [copy EXCEPT ![p].stage = "running", ![p].window = TRUE,
                  ![p].wake = copy[p].listens, ![p].frame = copy[p].pending]
    /\ Keeps

Serves(q) == copy[q].listens /\ copy[q].stage \in {"ready", "running"}

(* The copies that ask q, which serves one after the other.                 *)
Asks(q, told) == {p \in Copy : copy[p].stage = "asked" /\ copy[p].server = q /\ copy[p].told \in told}

(* server_exchange: the flag is read,                                       *)
ReadClosing(q) ==
    /\ Serves(q) /\ ~copy[q].signals /\ Asks(q, {"shown", "closing"}) = {}
    /\ \E p \in Asks(q, {"none"}) :
         copy' = [copy EXCEPT ![p].told = IF copy[q].closing THEN "closing" ELSE "shown"]
    /\ Keeps

(* the reply is written, which the copy that asked may find too late,       *)
Reply(q) ==
    /\ Serves(q)
    /\ \E p \in Asks(q, {"shown", "closing"}) :
         LET shows == copy[p].told = "shown"
             heard == IF shows THEN "shown" ELSE "waiting"
         IN  \E next \in {heard, "trying"} :
               copy' = [copy EXCEPT ![p].stage = next, ![p].server = NoCopy, ![p].told = "none",
                          ![q].signals = shows,
                          ![q].owed = IF next = "shown" THEN @ \cup {p} ELSE @]
    /\ Keeps

(* Variant: nothing is kept for a window that is not there yet.             *)
SignalAwake(q) ==
    /\ Serves(q) /\ copy[q].signals
    /\ copy' = [copy EXCEPT ![q].signals = FALSE, ![q].pending = @ \/ copy[q].wake,
                  ![q].frame = @ \/ copy[q].wake]
    /\ Keeps

(* and a show wakes the window.                                             *)
Signal(q) ==
    /\ Serves(q) /\ copy[q].signals
    /\ copy' = [copy EXCEPT ![q].signals = FALSE, ![q].pending = TRUE,
                  ![q].frame = @ \/ copy[q].wake]
    /\ Keeps

-----------------------------------------------------------------------------
(* A frame of the window, which may also come without a request.            *)
BeginFrame(p) ==
    /\ copy[p].stage = "running" /\ copy[p].ui = "idle"
    /\ \E close \in BOOLEAN :
         copy' = [copy EXCEPT ![p].frame = FALSE, ![p].open = @ /\ ~close,
                    ![p].ui = IF close /\ copy[p].open THEN "marking" ELSE "raising"]
    /\ Keeps

(* Variant: the window hides also without a watchdog.                       *)
MarkClosingBlindly(p) ==
    /\ copy[p].ui = "marking"
    /\ \E started \in BOOLEAN :
         copy' = [copy EXCEPT ![p].closing = TRUE, ![p].watchdog = started,
                    ![p].hidden = TRUE, ![p].ui = "raising"]
    /\ Keeps

(* The first close: the listener says closing from now on, and the window   *)
(* hides if a watchdog runs.                                                *)
MarkClosing(p) ==
    /\ copy[p].ui = "marking"
    /\ \E started \in BOOLEAN :
         copy' = [copy EXCEPT ![p].closing = TRUE, ![p].watchdog = started,
                    ![p].hidden = started, ![p].ui = "raising"]
    /\ Keeps

(* Variant: a show brings a hidden window back.                             *)
RaiseAnyhow(p) ==
    /\ copy[p].ui = "raising"
    /\ LET shows == copy[p].pending
       IN  copy' = [copy EXCEPT ![p].ui = "idle", ![p].pending = FALSE,
                      ![p].hidden = @ /\ ~shows, ![p].owed = IF shows THEN {} ELSE @]
    /\ Keeps

(* raise_for_show: a close that began drops the show.                       *)
RaiseForShow(p) ==
    /\ copy[p].ui = "raising"
    /\ LET shows == copy[p].open /\ copy[p].pending
       IN  copy' = [copy EXCEPT ![p].ui = "idle", ![p].pending = FALSE,
                      ![p].hidden = @ /\ ~shows, ![p].owed = IF shows THEN {} ELSE @]
    /\ Keeps

(* The process ends.  The operating system drops its lock.                  *)
Ends(p) ==
    /\ copy[p].stage # "none" /\ ~Ended(p)
    /\ copy' = [copy EXCEPT
                  ![p] = [NewCopy EXCEPT !.stage = "ended", !.listens = copy[p].listens]]
    /\ lock' = IF lock = p THEN NoCopy ELSE lock
    /\ UNCHANGED endpoint

(* The socket goes with it, and its file stays.                             *)
EndpointEnds(p) ==
    /\ copy[p].stage = "ended" /\ copy[p].listens
    /\ copy' = [copy EXCEPT ![p].listens = FALSE]
    /\ Keeps

InstanceNext ==
    \E p \in Copy :
      \/ Launches(p) \/ Ask(p) \/ AskEnds(p) \/ TryLock(p) \/ AwaitLock(p) \/ GiveUp(p)
      \/ TryAgain(p) \/ HoldLock(p) \/ OpenApp(p) \/ ReadClosing(p) \/ Reply(p) \/ Signal(p)
      \/ BeginFrame(p) \/ MarkClosing(p) \/ RaiseForShow(p) \/ Ends(p) \/ EndpointEnds(p)

InstanceSpec == InstanceInit /\ [][InstanceNext]_instanceVars

-----------------------------------------------------------------------------
(* One copy runs, but for those that start because the lock is of no use:   *)
(* however the launches, the waits, the closes and the ends of the          *)
(* processes meet, the copy that runs holds the lock, and the path leads to *)
(* its listener as long as it has one.                                      *)
OneCopy ==
    \A p \in Copy : copy[p].stage \in {"won", "ready", "running"} /\ ~copy[p].unlocked =>
        /\ lock = p
        /\ copy[p].listens => endpoint = p

(* A copy that heard "shown" has ended and nobody else opens a window for   *)
(* it: until its show is done, or the user closed the window since, the     *)
(* copy that said so still has it and a frame to come, also when the show   *)
(* came before the window.                                                  *)
ShowIsOwed ==
    \A q \in Copy : copy[q].owed # {} /\ copy[q].open /\ ~copy[q].signals =>
        /\ copy[q].pending
        /\ copy[q].wake => copy[q].frame \/ copy[q].ui = "raising"

(* A window that is hidden stays hidden until its process ends, which its   *)
(* watchdog sees to: no show, whenever it was asked for, brings back a      *)
(* window whose clients stop.                                               *)
HiddenEnds ==
    \A p \in Copy :
        /\ copy[p].hidden = copy[p].watchdog
        /\ copy[p].hidden => copy[p].closing /\ ~copy[p].open

(* A second copy is never sent away by a promise that is not kept, nor by   *)
(* a window that comes back while it closes.                                *)
ShowIsServed == ShowIsOwed /\ HiddenEnds
=============================================================================
