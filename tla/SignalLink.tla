------------------------------- MODULE SignalLink -------------------------------
(***************************************************************************)
(* The Signal link (mod.rs, owner.rs and live.rs of the Signal helper).    *)
(* One owner task takes the commands of the adapter one at a time.  It     *)
(* starts a worker thread for each attempt and, before the next one,       *)
(* cancels the generation of the old one and waits for its thread: for     *)
(* three seconds, and for one more after it aborted the task.  Meanwhile   *)
(* the worker goes on; both share the session.                             *)
(*                                                                         *)
(* A step of a worker ends where it waits, except that a check of the      *)
(* generation and the event that follows it are two steps: the owner can   *)
(* cancel between them.  An aborted task ends where it waits; only work    *)
(* that it gave to a blocking thread goes on.  What happens to the store   *)
(* files is in SignalRelink: here the store is missing, without a          *)
(* registration, or linked.  Jobs and chats are left out, and the status   *)
(* line but for one flag.                                                  *)
(***************************************************************************)
EXTENDS Naturals, Sequences

CONSTANTS
    MaxOrder, \* bound: commands of the user
    MaxMail   \* bound: commands that wait for the owner

ASSUME SignalBounds == MaxOrder \in Nat /\ MaxMail \in Nat \ {0}

VARIABLES
    notice,  \* the notice is accepted, until a cancel or the close
    closing, \* the app closes: no command comes after this
    mail,    \* commands to the owner
    joiner,  \* the owner: what it does, and the worker that it started
    attempt, \* the session that the owner and the workers share
    workers, \* worker threads
    stored,  \* the session store
    account, \* what the events of the adapter left on the account row
    quiet,   \* ghost: a cancel or the close is over, and nothing started since
    orders   \* commands so far

signalVars == <<notice, closing, mail, joiner, attempt, workers, stored, account,
                quiet, orders>>

-----------------------------------------------------------------------------
Token == 0 .. 2 * MaxOrder
Pairing == 0 .. MaxOrder
Mail == [type : {"begin", "resume", "retryKey", "cancel", "shutdown"}, pairing : Pairing]

(* Where the worker waits, and where it is about to send an event.         *)
Waits == {"guard", "protect", "open", "link", "scan", "load", "publish",
          "receive", "stream", "confirm", "backoff", "wipe"}
Sends == {"showCode", "sayLinked", "end", "sayEnd"}
(* "blocked": the task is gone, its blocking thread is not.                *)
Worker == [token : Token \ {0}, at : Waits \cup Sends \cup {"blocked"},
           resume : BOOLEAN, pairing : Pairing, shown : BOOLEAN,
           seen : BOOLEAN,   \* removal_seen
           relink : BOOLEAN, \* Relink::pending
           refused : 0 .. 2, \* ghost: refused opens since another outcome
           why : {"none", "absent", "stopped", "denied", "wrongKey", "notMoved", "removed"}]

NoCode == [pairing |-> 0, of |-> 0]
Alive(w) == w.at # "blocked"
LiveWorkers == {w \in workers : Alive(w)}

(* Every variable has its type; the jobs have a reader, except while the   *)
(* owner waits for the worker that it aborted.                             *)
SignalTypeOK ==
    /\ notice \in BOOLEAN /\ closing \in BOOLEAN
    /\ mail \in Seq(Mail)
    /\ joiner \in [at : {"idle", "join", "aborted"}, worker : Token,
                   msg : {"begin", "retryKey", "cancel", "shutdown"}, pairing : Pairing]
    /\ attempt \in [generation : Token, active : BOOLEAN, resumeOnly : BOOLEAN,
                    pairing : Pairing, outbound : Token]
    /\ workers \subseteq Worker
    /\ attempt.outbound # 0 /\ joiner.at # "aborted" =>
           \E w \in LiveWorkers : w.token = attempt.outbound
    /\ stored \in {"none", "scratch", "linked"}
    /\ account \in [row : {"unlinked", "linking", "linked"},
                    line : {"fine", "retry", "error"},
                    code : [pairing : Pairing, of : Pairing]]
    /\ quiet \in BOOLEAN /\ orders \in 0 .. MaxOrder

SignalInit ==
    /\ notice = FALSE /\ closing = FALSE /\ mail = <<>>
    /\ joiner = [at |-> "idle", worker |-> 0, msg |-> "begin", pairing |-> 0]
    /\ attempt = [generation |-> 0, active |-> FALSE, resumeOnly |-> FALSE,
                  pairing |-> 0, outbound |-> 0]
    /\ workers = {} /\ stored \in {"none", "scratch", "linked"}
    /\ account = [row |-> "unlinked", line |-> "fine", code |-> NoCode]
    /\ quiet = FALSE /\ orders = 0

-----------------------------------------------------------------------------
(* The adapter: every command is a message to the owner.                   *)
Order(type, pairing) ==
    /\ ~closing
    /\ orders < MaxOrder /\ orders' = orders + 1
    /\ Len(mail) < MaxMail
    /\ mail' = Append(mail, [type |-> type, pairing |-> pairing])
    /\ UNCHANGED <<joiner, attempt, workers, stored, quiet>>

AcceptNotice ==
    /\ Order("resume", 0)
    /\ notice' = TRUE
    /\ UNCHANGED <<closing, account>>

BeginDevice ==
    /\ notice
    /\ Order("begin", orders + 1)
    /\ UNCHANGED <<notice, closing, account>>

(* The shell takes one Retry for a key that was denied or a store that was *)
(* not moved.                                                              *)
RetryDevice ==
    /\ account.line = "retry"
    /\ Order("retryKey", 0)
    /\ account' = [account EXCEPT !.line = "fine"]
    /\ UNCHANGED <<notice, closing>>

CancelDevice ==
    /\ Order("cancel", 0)
    /\ notice' = FALSE
    /\ UNCHANGED <<closing, account>>

CloseDevice ==
    /\ Order("shutdown", 0)
    /\ notice' = FALSE /\ closing' = TRUE
    /\ UNCHANGED account

-----------------------------------------------------------------------------
(* The owner.                                                              *)
OwnerKeeps == UNCHANGED <<notice, closing, stored, orders>>

Attempt(resumeOnly, pairing) ==
    [attempt EXCEPT !.generation = @ + 1, !.active = TRUE, !.outbound = 0,
                    !.resumeOnly = resumeOnly, !.pairing = pairing]

NewWorker(s) ==
    [token |-> s.generation, at |-> "guard", resume |-> s.resumeOnly,
     pairing |-> s.pairing, shown |-> FALSE, seen |-> FALSE, relink |-> FALSE,
     refused |-> 0, why |-> "none"]

(* Session::shutdown                                                       *)
Closed(s) == [s EXCEPT !.active = FALSE, !.outbound = 0]

(* launch, and the start of resume, which shows nothing.  The thread may   *)
(* fail to start; only of a Begin this ends the account.                   *)
Launch(s, shows, others, row) ==
    /\ workers' = others \cup {NewWorker(s)}
    /\ attempt' = s
    /\ joiner' = [joiner EXCEPT !.at = "idle", !.worker = s.generation]
    /\ account' = IF shows THEN [account EXCEPT !.line = "fine", !.code = NoCode]
                  ELSE account
    /\ quiet' = FALSE

LaunchFails(s, shows, others, row) ==
    /\ workers' = others
    /\ attempt' = Closed(s)
    /\ joiner' = [joiner EXCEPT !.at = "idle", !.worker = 0]
    /\ account' = IF shows THEN [row |-> row, line |-> "error", code |-> NoCode]
                  ELSE account
    /\ quiet' = FALSE

Launches(s, shows, others, row) ==
    Launch(s, shows, others, row) \/ LaunchFails(s, shows, others, row)

(* Variant: a cancel leaves the row as it is.                              *)
LinkIsOverSilent == account' = [account EXCEPT !.code = NoCode]
LinkIsOver == account' = [row |-> "unlinked", line |-> "fine", code |-> NoCode]

OpensFor(type) == IF type = "begin" THEN FALSE ELSE attempt.resumeOnly

(* What follows the cleanup of each command.                               *)
Proceed(type, pairing, others) ==
    CASE type = "begin" ->
            Launches(Attempt(OpensFor(type), pairing), TRUE, others, "unlinked")
      [] type = "retryKey" ->
            Launches(Attempt(OpensFor(type), attempt.pairing), TRUE, others, account.row)
      [] OTHER -> \* cancel, shutdown
            /\ workers' = others
            /\ attempt' = Closed(attempt)
            /\ joiner' = [joiner EXCEPT !.at = "idle", !.worker = 0]
            /\ LinkIsOver
            /\ quiet' = TRUE

Takes(type) ==
    /\ joiner.at = "idle" /\ mail # <<>> /\ Head(mail).type = type
    /\ mail' = Tail(mail)
    /\ OwnerKeeps

(* A worker that ended by itself still counts: nothing opens.              *)
TakeResumeMail ==
    /\ Takes("resume")
    /\ IF joiner.worker # 0
       THEN UNCHANGED <<joiner, attempt, workers, account, quiet>>
       ELSE Launches(Attempt(TRUE, attempt.pairing), FALSE, workers, account.row)

(* cleanup: the generation ends first.                                     *)
TakeMail(type) ==
    /\ Takes(type)
    /\ IF joiner.worker = 0 /\ type \in {"begin", "retryKey"}
       THEN Proceed(type, Head(mail).pairing, workers)
       ELSE /\ attempt' = [attempt EXCEPT !.generation = @ + 1, !.active = FALSE]
            /\ joiner' = [joiner EXCEPT !.at = "join", !.msg = type,
                                        !.pairing = Head(mail).pairing]
            /\ UNCHANGED <<workers, account, quiet>>

Joined == {w \in workers : w.token = joiner.worker}

(* Variant: the owner does not wait for the worker.                        *)
JoinEndsAtOnce ==
    /\ joiner.at = "join"
    /\ Proceed(joiner.msg, joiner.pairing, workers)
    /\ OwnerKeeps /\ UNCHANGED mail

JoinEnds ==
    /\ joiner.at # "idle"
    /\ Joined = {}
    /\ Proceed(joiner.msg, joiner.pairing, workers)
    /\ OwnerKeeps /\ UNCHANGED mail

(* The three seconds are over.                                             *)
JoinAborts(w) ==
    /\ joiner.at = "join" /\ w \in Joined
    /\ w.at \in Waits
    /\ workers' = (workers \ {w}) \cup
                  (IF w.at = "protect" THEN {[w EXCEPT !.at = "blocked"]} ELSE {})
    /\ joiner' = [joiner EXCEPT !.at = "aborted"]
    /\ OwnerKeeps /\ UNCHANGED <<mail, attempt, account, quiet>>

(* The last second is over, and the thread still runs.                     *)
JoinGivesUp ==
    /\ joiner.at = "aborted"
    /\ \E w \in Joined : w.at = "blocked"
    /\ Proceed(joiner.msg, joiner.pairing, workers)
    /\ OwnerKeeps /\ UNCHANGED mail

-----------------------------------------------------------------------------
(* A worker.                                                               *)
WorkerKeeps == UNCHANGED <<notice, closing, mail, joiner, quiet, orders>>
IsCurrent(w) == attempt.generation = w.token
Becomes(w, next) == workers' = (workers \ {w}) \cup {next}
Goes(w, at) == Becomes(w, [w EXCEPT !.at = at])

(* The worker is over: it has no account word of its own if `why` is       *)
(* "absent".  Its session is not active.                                   *)
Ends(w, why) ==
    /\ Becomes(w, [w EXCEPT !.at = "end", !.why = why])
    /\ attempt' = [attempt EXCEPT !.active = FALSE]

(* Variant: the jobs go on to a worker that left its loop.                 *)
LeavesLoopKeeps(w, why) == Ends(w, why)

(* The same after the receive loop: it also closes the session.            *)
LeavesLoop(w, why) ==
    /\ Becomes(w, [w EXCEPT !.at = "end", !.why = why])
    /\ attempt' = Closed(attempt)

(* run and run_linked up to the keys: a resume needs a store file.         *)
Guard(w) ==
    /\ w.at = "guard"
    /\ IF w.resume /\ stored = "none" THEN Ends(w, "absent")
       ELSE \/ ~IsCurrent(w) /\ Ends(w, "stopped")
            \/ IsCurrent(w) /\ Goes(w, "protect") /\ UNCHANGED attempt
            \/ Ends(w, "stopped") \* no data folder
    /\ UNCHANGED <<stored, account>>

(* protect_session, on a blocking thread.                                  *)
Protected(w) ==
    /\ w.at = "protect"
    /\ \/ Goes(w, "open") /\ UNCHANGED <<attempt, stored>>
       \/ \E why \in {"denied", "stopped"} : Ends(w, why) /\ UNCHANGED stored
       \/ stored # "none" /\ Ends(w, "wrongKey") /\ stored' = "none"
       \/ stored # "none" /\ Ends(w, "notMoved") /\ UNCHANGED stored
    /\ UNCHANGED account

(* open_linked_store after the keys; a Begin makes the store.              *)
Open(w) ==
    /\ w.at = "open"
    /\ \/ ~IsCurrent(w) /\ Ends(w, "stopped") /\ UNCHANGED stored
       \/ Ends(w, "stopped") /\ UNCHANGED stored \* the store does not open
       \/ /\ IsCurrent(w)
          /\ CASE stored = "linked" ->
                    Goes(w, "load") /\ UNCHANGED <<attempt, stored>>
               [] stored # "linked" /\ w.resume ->
                    Ends(w, "absent") /\ UNCHANGED stored
               [] OTHER ->
                    Goes(w, "link") /\ stored' = "scratch" /\ UNCHANGED attempt
    /\ UNCHANGED account

(* link_new: the code is shown to the generation that asked for it.        *)
CodeComes(w) ==
    /\ w.at = "link"
    /\ Goes(w, IF IsCurrent(w) THEN "showCode" ELSE "scan")
    /\ UNCHANGED <<attempt, stored, account>>

ShowCode(w) ==
    /\ w.at = "showCode"
    /\ Becomes(w, [w EXCEPT !.at = "scan", !.shown = TRUE])
    /\ account' = [account EXCEPT !.code = [pairing |-> attempt.pairing, of |-> w.pairing]]
    /\ UNCHANGED <<attempt, stored>>

Scanned(w) ==
    /\ w.at = "scan" /\ w.shown
    /\ Goes(w, "load")
    /\ stored' = "linked"
    /\ UNCHANGED <<attempt, account>>

LinkFails(w) ==
    /\ w.at \in {"link", "scan", "load", "publish"}
    /\ Ends(w, "stopped")
    /\ UNCHANGED <<stored, account>>

Loaded(w) ==
    /\ w.at = "load"
    /\ IF IsCurrent(w) THEN Goes(w, "sayLinked") /\ UNCHANGED attempt
       ELSE Ends(w, "stopped")
    /\ UNCHANGED <<stored, account>>

SayLinked(w) ==
    /\ w.at = "sayLinked"
    /\ Goes(w, "publish")
    /\ account' = [account EXCEPT !.row = "linked"]
    /\ UNCHANGED <<attempt, stored>>

(* The chats are out: jobs are welcome.                                    *)
Published(w) ==
    /\ w.at = "publish"
    /\ Goes(w, "receive")
    /\ attempt' = [attempt EXCEPT !.outbound = w.token]
    /\ UNCHANGED <<stored, account>>

-----------------------------------------------------------------------------
(* The receive loop.                                                       *)
LoopEnds(w) ==
    /\ w.at = "receive" /\ ~IsCurrent(w)
    /\ LeavesLoop(w, "stopped")
    /\ UNCHANGED <<stored, account>>

(* Variant: an open that works leaves the mark of the refused one.         *)
StreamOpensMarked(w) ==
    /\ w.at = "receive"
    /\ Becomes(w, [w EXCEPT !.at = "stream", !.relink = FALSE, !.refused = 0])
    /\ account' = IF w.seen \/ w.relink THEN [account EXCEPT !.row = "linked"]
                  ELSE account
    /\ UNCHANGED <<attempt, stored>>

StreamOpens(w) ==
    /\ w.at = "receive"
    /\ Becomes(w, [w EXCEPT !.at = "stream", !.seen = FALSE, !.relink = FALSE,
                            !.refused = 0])
    /\ account' = IF w.seen \/ w.relink THEN [account EXCEPT !.row = "linked"]
                  ELSE account
    /\ UNCHANGED <<attempt, stored>>

(* classify_open: one refused open waits for a second one.                 *)
StreamRefused(w) ==
    /\ w.at = "receive"
    /\ IF IsCurrent(w)
       THEN /\ Becomes(w, [w EXCEPT !.at = IF w.seen THEN "wipe" ELSE "confirm",
                                    !.seen = TRUE,
                                    !.refused = IF @ = 2 THEN 2 ELSE @ + 1])
            /\ UNCHANGED attempt
       ELSE LeavesLoop(w, "stopped")
    /\ UNCHANGED <<stored, account>>

StreamFails(w) ==
    /\ w.at = "receive" /\ IsCurrent(w)
    /\ Becomes(w, [w EXCEPT !.at = "backoff", !.seen = FALSE, !.refused = 0])
    /\ account' = [account EXCEPT !.row = "linking"]
    /\ UNCHANGED <<attempt, stored>>

(* A job, the cancel, or the end of the stream.                            *)
LeaveStream(w) ==
    /\ w.at = "stream"
    /\ attempt.outbound = w.token \/ ~IsCurrent(w)
    /\ Goes(w, "receive")
    /\ UNCHANGED <<attempt, stored, account>>

StreamEnds(w) ==
    /\ w.at = "stream" /\ IsCurrent(w)
    /\ Goes(w, "backoff")
    /\ account' = [account EXCEPT !.row = "linking"]
    /\ UNCHANGED <<attempt, stored>>

WaitEnds(w) ==
    /\ w.at \in {"confirm", "backoff"}
    /\ IF IsCurrent(w)
       THEN /\ Becomes(w, [w EXCEPT !.at = "receive",
                                    !.relink = @ \/ w.at = "backoff"])
            /\ UNCHANGED attempt
       ELSE LeavesLoop(w, "stopped")
    /\ UNCHANGED <<stored, account>>

(* forget_rejected_registration, which can fail.                           *)
WipeKeysOfDevice(w) ==
    /\ w.at = "wipe"
    /\ stored' \in {"scratch", stored}
    /\ LeavesLoop(w, "removed")
    /\ UNCHANGED account

-----------------------------------------------------------------------------
(* The end of run: a cancelled worker says nothing.                        *)
CheckEnd(w) ==
    /\ w.at = "end"
    /\ IF IsCurrent(w) THEN Goes(w, "sayEnd") ELSE workers' = workers \ {w}
    /\ UNCHANGED <<attempt, stored, account>>

(* publish_link_end: a store file is a linked account.  The shell keeps a  *)
(* row linked whose account it saved.                                      *)
Saved(why) ==
    {TRUE} \cup (IF account.row = "linked" \/ (why = "denied" /\ stored # "none")
                 THEN {} ELSE {FALSE})

SayEnd(w) ==
    /\ w.at = "sayEnd"
    /\ workers' = workers \ {w}
    /\ \/ /\ w.why \in {"removed", "stopped", "wrongKey"}
          /\ account' = [account EXCEPT !.row = "unlinked", !.line = "error"]
       \/ /\ w.why \in {"denied", "notMoved"}
          /\ \E saved \in Saved(w.why) :
                account' = [account EXCEPT
                    !.row = IF saved THEN "linked"
                            ELSE IF w.why = "denied" THEN "unlinked" ELSE @,
                    !.line = IF saved \/ w.why = "denied" THEN "retry" ELSE "error"]
       \/ w.why = "absent" /\ UNCHANGED account
    /\ UNCHANGED <<attempt, stored>>

(* The blocking thread of an aborted worker comes to its end.              *)
Unblocked(w) ==
    /\ w.at = "blocked"
    /\ workers' = workers \ {w}
    /\ stored' \in {stored, "none"}
    /\ UNCHANGED <<attempt, account>>

WorkerStep(w) ==
    /\ WorkerKeeps
    /\ \/ Guard(w) \/ Protected(w) \/ Open(w)
       \/ CodeComes(w) \/ ShowCode(w) \/ Scanned(w) \/ LinkFails(w)
       \/ Loaded(w) \/ SayLinked(w) \/ Published(w)
       \/ LoopEnds(w) \/ StreamOpens(w) \/ StreamRefused(w) \/ StreamFails(w)
       \/ LeaveStream(w) \/ StreamEnds(w) \/ WaitEnds(w) \/ WipeKeysOfDevice(w)
       \/ CheckEnd(w) \/ SayEnd(w) \/ Unblocked(w)

SignalNext ==
    \/ AcceptNotice \/ BeginDevice \/ RetryDevice \/ CancelDevice \/ CloseDevice
    \/ TakeResumeMail
    \/ \E type \in {"begin", "retryKey", "cancel", "shutdown"} : TakeMail(type)
    \/ JoinEnds \/ JoinGivesUp
    \/ \E w \in workers : JoinAborts(w) \/ WorkerStep(w)

SignalSpec == SignalInit /\ [][SignalNext]_signalVars

-----------------------------------------------------------------------------
(* After the Unlinked of a cancel or of the close nothing changes the row, *)
(* however far the worker was when the command came.                       *)
CancelledStaysUnlinked ==
    quiet => account = [row |-> "unlinked", line |-> "fine", code |-> NoCode]

(* "Only a second consecutive unauthorized open is removal": the keys of a *)
(* linked device go only then.  (A lost key moves the store aside.)        *)
KeysGoAfterTwoRefusals ==
    [][stored = "linked" /\ stored' = "scratch" =>
          \E w \in workers : w.at = "wipe" /\ w.refused = 2]_signalVars

(* A code carries the number of the Begin that started its worker: the     *)
(* shell shows a code only to the pairing of that number.                  *)
CodeOfItsBegin == account.code.pairing = account.code.of

(* "A late shutdown cannot clear the next attempt": a worker that receives *)
(* and is current has the jobs, and its session is active.                 *)
AttemptKeepsSession ==
    \A w \in LiveWorkers :
        IsCurrent(w) /\ w.at \in {"receive", "stream", "confirm", "backoff", "wipe"} =>
            attempt.outbound = w.token /\ attempt.active

(* A row that says linked, over a store that is, has a worker, or says why *)
(* it has none.                                                            *)
LinkedRowServed ==
    (joiner.at = "idle" /\ mail = <<>> /\ account.row = "linked" /\ stored = "linked") =>
        account.line # "fine" \/ \E w \in LiveWorkers : IsCurrent(w)

(* An event of a worker reaches the link that it is of.                    *)
EventsKeepTheirLink == CancelledStaysUnlinked /\ CodeOfItsBegin

(* A link that the row shows has a worker, and the worker has its session. *)
LinkIsServed == AttemptKeepsSession /\ LinkedRowServed

(* What the row says of a link is of that link, and somebody serves it.    *)
LinkedRowIsTrue == EventsKeepTheirLink /\ LinkIsServed
=============================================================================
