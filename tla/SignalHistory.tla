----------------------------- MODULE SignalHistory -----------------------------
(***************************************************************************)
(* The history of one chat of a Signal account, some rows of which the     *)
(* store can no longer read: the page read of the worker (live.rs,         *)
(* fetch_history_page), which skips those rows and stops at a scan cap,    *)
(* and the thread of the core (state.rs, note_unreadable and the older     *)
(* pages), which counts them in lines and reads on.                        *)
(*                                                                         *)
(* Rows are times, a larger one is newer.  The worker publishes the first  *)
(* page row by row after it said Linked, while the adapter answers an      *)
(* OpenChat beside it; it answers older pages one after the other, fails   *)
(* some of them and reconnects.  The core applies a batch of events, sends *)
(* the commands of the batch, and only then takes an intent of the user.   *)
(***************************************************************************)
EXTENDS Integers, FiniteSets, Sequences, SequencesExt, FiniteSetsExt

CONSTANTS
    LastTime, \* times are 1 to LastTime
    PageSize, \* HISTORY_PAGE
    ScanCap,  \* HISTORY_SCAN_CAP
    Window,   \* HISTORY_WINDOW_MS
    MaxOpen,  \* bound: how often the user opens the chat or leaves it
    MaxDrop   \* bound: reconnects

ASSUME HistoryBounds ==
    /\ LastTime \in Nat \ {0} /\ PageSize \in Nat \ {0} /\ Window \in Nat \ {0}
    /\ ScanCap \in Nat /\ ScanCap > PageSize + 2 /\ MaxOpen \in Nat /\ MaxDrop \in Nat

VARIABLES
    store,   \* the stored rows: readable or not
    worker,
    commands, \* on their way to the adapter
    events,  \* events on their way to the core
    thread   \* the chat in the core

historyVars == <<store, worker, commands, events, thread>>

Time == 1..LastTime
None == 0 \* no message, no cursor
ReadLimit == PageSize + 2
Good == {t \in DOMAIN store : store[t]}

-----------------------------------------------------------------------------
(* A page.                                                                 *)

Newest(S, k) == {t \in S : Cardinality({u \in S : u > t}) < k}
OldestOf(S) == IF S = {} THEN None ELSE Min(S)

(* The loop of fetch_history_page: scanned rows are the newest ones older  *)
(* than the request.  A batch is the newest rows of a window before the    *)
(* cursor; a short batch widens the window, a full one moves the cursor.   *)
Scan[cursor \in Nat, span \in Nat, seen \in SUBSET Time] ==
    LET start == IF span >= cursor THEN 0 ELSE cursor - span
        ask == Min({ScanCap - Cardinality(seen), ReadLimit})
        batch == Newest({t \in DOMAIN store : start <= t /\ t < cursor}, ask)
        now == seen \cup batch
        full == Cardinality(now) >= ScanCap
        filled == Cardinality(now \cap Good) >= ReadLimit
    IN  IF full \/ filled \/ (start = 0 /\ Cardinality(batch) < ReadLimit)
        THEN [seen |-> now, hitCap |-> full /\ ~filled,
              exhausted |-> ~(full /\ ~filled) /\ Cardinality(batch) < ask]
        ELSE IF Cardinality(batch) >= ReadLimit
        THEN Scan[Min(batch), span, now]
        ELSE Scan[cursor, 2 * span, now]

(* Where the unreadable rows of a page sit: below which shown message, or  *)
(* above all of them.  Those below the last shown one are told only when   *)
(* the next read does not scan them again.                                 *)
SkipsOf(seen, shown, trailing) ==
    LET bad == seen \ Good
        Above(t) == OldestOf({g \in seen \cap Good : g > t})
        Place(t) == IF Above(t) \in shown \cup {None} THEN Above(t) ELSE OldestOf(shown)
        told == {t \in bad : Place(t) = None \/ Place(t) # OldestOf(shown) \/ trailing}
    IN  [p \in {Place(t) : t \in told} |-> Cardinality({t \in told : Place(t) = p})]

CountOf(runs) == SumFunction(runs)
NoCursor == [at |-> None, resume |-> FALSE, runs |-> <<>>]

(* Variant: a page that shows nothing has no more.                           *)
PageEndsEmpty(before) ==
    LET scan == Scan[before, Window, {}]
        shown == Newest(scan.seen \cap Good, PageSize)
    IN  [rows |-> shown, more |-> shown # {} /\ (scan.hitCap \/ ~scan.exhausted),
         cursor |-> NoCursor]

PageBefore(before) ==
    LET scan == Scan[before, Window, {}]
        good == scan.seen \cap Good
        shown == Newest(good, PageSize)
        resume == scan.hitCap /\ Cardinality(good) <= PageSize
        more == IF shown = {} THEN resume
                ELSE scan.hitCap \/ ~scan.exhausted \/ good # shown
        runs == SkipsOf(scan.seen, shown, resume \/ ~more)
    IN  [rows |-> shown, more |-> more,
         cursor |-> IF CountOf(runs) > 0 \/ resume
                    THEN [at |-> OldestOf(scan.seen), resume |-> resume, runs |-> runs]
                    ELSE NoCursor]

-----------------------------------------------------------------------------
(* The worker.                                                             *)

OpenChat == [kind |-> "open"]
Older(before, cursor) == [kind |-> "older", before |-> before, cursor |-> cursor]
OlderLoaded(before, more, cursor, failed) ==
    [kind |-> "olderLoaded", before |-> before, more |-> more, cursor |-> cursor,
     failed |-> failed]
Event(kind) == [kind |-> kind]

(* It published the row of the chat, then it reads the first page and       *)
(* keeps its cursor for OpenChat; a failed read is left out.                *)
EmitRow ==
    /\ worker.stage = "linked"
    /\ worker' = [worker EXCEPT !.stage = "listed"]
    /\ events' = Append(events, Event("row"))
    /\ UNCHANGED <<store, commands, thread>>

ReadFirst ==
    /\ worker.stage = "listed"
    /\ \E page \in {PageBefore(LastTime + 1), [rows |-> {}, cursor |-> NoCursor]} :
         worker' = [worker EXCEPT !.stage = "emits", !.rows = page.rows, !.first = page.cursor]
    /\ UNCHANGED <<store, commands, events, thread>>

(* The rows of a page go out oldest first, then the answer of a request.    *)
EmitMessage ==
    /\ worker.stage = "emits" /\ worker.rows # {}
    /\ events' = Append(events, [kind |-> "message", at |-> OldestOf(worker.rows)])
    /\ worker' = [worker EXCEPT !.rows = @ \ {OldestOf(worker.rows)}]
    /\ UNCHANGED <<store, commands, thread>>

EmitAnswer ==
    /\ worker.stage = "emits" /\ worker.rows = {}
    /\ events' = events \o worker.answer
    /\ worker' = [worker EXCEPT !.stage = "serves", !.answer = <<>>, !.takesJobs = TRUE]
    /\ UNCHANGED <<store, commands, thread>>

Millis(id) == IF id < 0 THEN 0 - id ELSE id

ServeOlder ==
    /\ worker.stage = "serves" /\ worker.jobs # <<>>
    /\ LET job == Head(worker.jobs)
           page == PageBefore(IF job.cursor # None THEN job.cursor ELSE Millis(job.before))
           Answers(rows, answer) ==
               worker' = [worker EXCEPT !.stage = "emits", !.rows = rows, !.answer = <<answer>>,
                                        !.jobs = Tail(@)]
       IN  \/ Answers(page.rows, OlderLoaded(job.before, page.more, page.cursor, FALSE))
           \/ Answers({}, OlderLoaded(job.before, TRUE, NoCursor, TRUE))
    /\ UNCHANGED <<store, commands, events, thread>>

(* The receive stream ends, and opens again.  Requests wait meanwhile.      *)
Drop ==
    /\ worker.stage = "serves" /\ worker.drops < MaxDrop
    /\ worker' = [worker EXCEPT !.stage = "backoff", !.drops = @ + 1]
    /\ events' = Append(events, Event("linking"))
    /\ UNCHANGED <<store, commands, thread>>

Reopen ==
    /\ worker.stage = "backoff"
    /\ worker' = [worker EXCEPT !.stage = "serves"]
    /\ events' = Append(events, Event("linked"))
    /\ UNCHANGED <<store, commands, thread>>

(* The adapter takes a command: an OpenChat is answered at once, beside the *)
(* worker, with the cursor of the first page as it is now; an older page    *)
(* goes to the worker, or fails while that publishes its first chats.       *)
HandleOpen ==
    /\ commands # <<>> /\ Head(commands).kind = "open"
    /\ events' = Append(events, [kind |-> "loaded", cursor |-> worker.first])
    /\ commands' = Tail(commands)
    /\ UNCHANGED <<store, worker, thread>>

HandleOlder ==
    /\ commands # <<>> /\ Head(commands).kind = "older"
    /\ IF worker.takesJobs
       THEN /\ worker' = [worker EXCEPT !.jobs = Append(@, Head(commands))]
            /\ UNCHANGED events
       ELSE /\ events' = Append(events, OlderLoaded(Head(commands).before, TRUE, NoCursor, TRUE))
            /\ UNCHANGED worker
    /\ commands' = Tail(commands)
    /\ UNCHANGED <<store, thread>>

-----------------------------------------------------------------------------
(* The thread of the core.                                                 *)

NoRun == [at |-> None, skipped |-> 0, open |-> FALSE]
OldestShown(th) == OldestOf(th.rows)

(* What the lines at a place tell, together.  No count exceeds the rows     *)
(* that there are: more of it makes no difference.                          *)
Sum(a, b) == Min({a + b, LastTime})
AddLines(th, placed) ==
    [th EXCEPT !.lines = [p \in DOMAIN @ |->
        IF p \in DOMAIN placed THEN Sum(@[p], placed[p]) ELSE @[p]]]

CloseRun(th) == [AddLines(th, [p \in {th.run.at} |-> th.run.skipped]) EXCEPT !.run = NoRun]

(* Variant: only a run below a message of the page is told.                 *)
PlaceRunsInside(th, anchor, runs) ==
    [AddLines(th, [p \in DOMAIN runs \cap th.rows |-> runs[p]]) EXCEPT !.run = NoRun]

(* The runs of a page, and the run that empty pages left open, become       *)
(* lines.  A run below a message that is not there yet joins the oldest     *)
(* line.                                                                    *)
PlaceRuns(th, anchor, runs) ==
    LET oldest == OldestShown(th)
        known == DOMAIN runs \cap th.rows
        edge == SumFunctionOnSet(runs, DOMAIN runs \ (known \cup {None}))
        leading == th.run.skipped + SumFunctionOnSet(runs, DOMAIN runs \cap {None})
        leadAt == IF th.run.open THEN th.run.at ELSE anchor
        Count(p) == (IF p \in known THEN runs[p] ELSE 0) + (IF p = oldest THEN edge ELSE 0)
                    + (IF p = leadAt THEN leading ELSE 0)
    IN  [AddLines(th, [p \in known \cup {oldest, leadAt} |-> Count(p)]) EXCEPT !.run = NoRun]

(* A page that added no row reads on at once; its count stays open.         *)
QueueStorePage(th, before, cursor) ==
    [th EXCEPT
        !.run = [at |-> IF @.open THEN @.at ELSE before, open |-> TRUE,
                 skipped |-> Sum(@.skipped, CountOf(cursor.runs))],
        !.resume = cursor.at, !.asked = cursor.at, !.older = TRUE, !.atStart = FALSE,
        !.pending = Append(@, Older(IF before = None THEN 0 - cursor.at ELSE before, cursor.at))]

GoesOn(th, cursor, more) == cursor.resume /\ more /\ (th.asked = None \/ cursor.at < th.asked)

(* note_unreadable of a first page (before = None) and of an older one.     *)
NoteUnreadable(th, before, cursor, more) ==
    LET added == th.rows # {} /\ OldestShown(th) # before
    IN  IF GoesOn(th, cursor, more) /\ ~added
        THEN QueueStorePage(th, before, cursor)
        ELSE [PlaceRuns(th, IF before = None THEN OldestShown(th) ELSE before, cursor.runs) EXCEPT
                !.resume = IF GoesOn(th, cursor, more) THEN cursor.at ELSE None]

QueueOpenChat(th) ==
    IF ~th.linked THEN [th EXCEPT !.onLink = TRUE]
    ELSE IF OpenChat \in Range(th.pending) THEN [th EXCEPT !.onLink = FALSE]
    ELSE [th EXCEPT !.onLink = FALSE, !.loading = TRUE, !.pending = Append(@, OpenChat)]

Takes(kind) == events # <<>> /\ Head(events).kind = kind
Becomes(th) == /\ thread' = th /\ events' = Tail(events)
               /\ UNCHANGED <<store, worker, commands>>

(* The first chat of the list is selected when no other one is.             *)
ApplyRow ==
    /\ Takes("row")
    /\ LET th == [thread EXCEPT !.listed = TRUE]
       IN  Becomes(IF th.other THEN th ELSE QueueOpenChat([th EXCEPT !.selected = TRUE]))

ApplyMessage ==
    /\ Takes("message")
    /\ Becomes([thread EXCEPT !.rows = @ \cup {Head(events).at}])

HistoryLoaded ==
    /\ Takes("loaded")
    /\ LET cursor == Head(events).cursor
           first == PageBefore(LastTime + 1)
           th == [thread EXCEPT !.onLink = FALSE, !.loading = FALSE,
                    !.torn = @ \/ ~(first.cursor = cursor /\ first.rows \subseteq thread.rows)]
       IN  Becomes(IF cursor = NoCursor THEN th
                   ELSE NoteUnreadable(th, None, cursor, cursor.resume \/ th.rows # {}))

(* An older page: a failed one keeps the open run and its cursor for the    *)
(* next try, and one without a cursor closes the run.                       *)
OlderHistoryLoaded ==
    /\ Takes("olderLoaded")
    /\ LET answer == Head(events)
           ended == [thread EXCEPT !.older = FALSE]
           th == IF answer.failed THEN [ended EXCEPT !.asked = None]
                 ELSE IF answer.cursor # NoCursor
                 THEN NoteUnreadable(ended, answer.before, answer.cursor, answer.more)
                 ELSE [CloseRun(ended) EXCEPT !.resume = None]
       IN  Becomes(IF ~th.older /\ ~answer.more THEN [th EXCEPT !.atStart = TRUE] ELSE th)

(* Variant: the spinner of an older page outlives its dropped command.      *)
ApplyLinkingSpins ==
    /\ Takes("linking")
    /\ LET marked == thread.selected /\ (thread.loading \/ OpenChat \in Range(thread.pending))
       IN  Becomes([thread EXCEPT !.linked = FALSE, !.onLink = marked, !.pending = <<>>,
                                  !.loading = @ /\ marked])

(* hold_opens_for_reconnect: queued commands go and spinners end, but for a *)
(* selected chat that still loads: it loads again when the account is back. *)
ApplyLinking ==
    /\ Takes("linking")
    /\ LET marked == \/ thread.onLink
                     \/ thread.selected /\ (thread.loading \/ OpenChat \in Range(thread.pending))
       IN  Becomes([thread EXCEPT !.linked = FALSE, !.onLink = marked, !.pending = <<>>,
                                  !.loading = @ /\ marked, !.older = FALSE])

ApplyLinked ==
    /\ Takes("linked")
    /\ LET th == [thread EXCEPT !.linked = TRUE]
       IN  Becomes(IF th.onLink /\ th.selected THEN QueueOpenChat(th) ELSE th)

(* The end of a pump sends the commands of its events.                      *)
Flush ==
    /\ thread.pending # <<>>
    /\ commands' = commands \o thread.pending
    /\ thread' = [thread EXCEPT !.pending = <<>>]
    /\ UNCHANGED <<store, worker, events>>

(* An intent of the user comes between pumps and sends its own commands.    *)
Intends(th) ==
    /\ thread.pending = <<>>
    /\ thread' = [th EXCEPT !.pending = <<>>] /\ commands' = commands \o th.pending
    /\ UNCHANGED <<store, worker, events>>

SelectConversation ==
    /\ thread.listed /\ thread.opens < MaxOpen
    /\ Intends(QueueOpenChat([thread EXCEPT !.selected = TRUE, !.other = FALSE, !.opens = @ + 1]))

SelectOther ==
    /\ thread.selected /\ thread.opens < MaxOpen
    /\ Intends([thread EXCEPT !.selected = FALSE, !.other = TRUE, !.onLink = FALSE,
                              !.opens = @ + 1])

(* The user scrolls up.  A cursor that was asked before is dropped; the     *)
(* wait after a page that brought nothing may be over at any time.          *)
LoadOlder ==
    /\ thread.selected /\ thread.linked /\ thread.rows # {}
    /\ ~thread.loading /\ ~thread.older /\ ~thread.atStart
    /\ LET moves == thread.asked = None \/ thread.resume < thread.asked
           cursor == IF moves THEN thread.resume ELSE None
       IN  Intends([thread EXCEPT
             !.older = TRUE, !.resume = cursor,
             !.asked = IF cursor # None THEN cursor ELSE @,
             !.pending = Append(@, Older(OldestShown(thread), cursor))])

-----------------------------------------------------------------------------
HistoryInit ==
    /\ store \in UNION {[S -> BOOLEAN] : S \in SUBSET Time}
    /\ worker = [stage |-> "linked", rows |-> {}, answer |-> <<>>, first |-> NoCursor,
                 takesJobs |-> FALSE, jobs |-> <<>>, drops |-> 0]
    /\ commands = <<>> /\ events = <<>>
    /\ \E other \in BOOLEAN :
         thread = [listed |-> FALSE, selected |-> FALSE, other |-> other, linked |-> TRUE,
                   rows |-> {}, loading |-> FALSE, older |-> FALSE, atStart |-> FALSE,
                   onLink |-> FALSE, lines |-> [p \in Time \cup {None} |-> 0], run |-> NoRun, resume |-> None,
                   asked |-> None, pending |-> <<>>, opens |-> 0, torn |-> FALSE]

HistoryNext ==
    \/ EmitRow \/ ReadFirst \/ EmitMessage \/ EmitAnswer \/ ServeOlder \/ Drop \/ Reopen
    \/ HandleOpen \/ HandleOlder
    \/ ApplyRow \/ ApplyMessage \/ HistoryLoaded \/ OlderHistoryLoaded \/ ApplyLinking
    \/ ApplyLinked \/ Flush \/ SelectConversation \/ SelectOther \/ LoadOlder

HistorySpec == HistoryInit /\ [][HistoryNext]_historyVars

-----------------------------------------------------------------------------
(* Properties.                                                             *)

IsCursor(c) ==
    /\ c.at \in Time \cup {None} /\ c.resume \in BOOLEAN
    /\ DOMAIN c.runs \subseteq Time \cup {None} /\ Range(c.runs) \subseteq 0..LastTime
IsCommand(c) ==
    c = OpenChat \/ (c.kind = "older" /\ c.before \in -LastTime..LastTime /\ c.cursor \in 0..LastTime)

HistoryTypeOK ==
    /\ DOMAIN store \subseteq Time /\ Range(store) \subseteq BOOLEAN
    /\ worker.stage \in {"linked", "listed", "emits", "serves", "backoff"}
    /\ worker.rows \subseteq Good /\ IsCursor(worker.first)
    /\ worker.takesJobs \in BOOLEAN /\ worker.drops \in 0..MaxDrop
    /\ \A i \in DOMAIN worker.jobs : IsCommand(worker.jobs[i])
    /\ \A i \in DOMAIN commands : IsCommand(commands[i])
    /\ \A i \in DOMAIN thread.pending : IsCommand(thread.pending[i])
    /\ \A i \in DOMAIN events :
         /\ events[i].kind \in {"row", "message", "loaded", "olderLoaded", "linking", "linked"}
         /\ events[i].kind \in {"loaded", "olderLoaded"} => IsCursor(events[i].cursor)
    /\ thread.rows \subseteq Good
    /\ thread.lines \in [Time \cup {None} -> 0..LastTime]
    /\ thread.run.at \in -LastTime..LastTime /\ thread.run.skipped \in 0..LastTime
    /\ {thread.resume, thread.asked} \subseteq 0..LastTime

(* A thread that says "Start of chat" shows every stored message that can   *)
(* be read (`more` is false only at the start, adapter.rs).  It fails where *)
(* a stretch of unreadable rows lies in a sparse part of the store: a       *)
(* widened window reads rows again that count towards the cap, so the scan  *)
(* ends short of the cap with a full batch, and its empty page has no more. *)
(* NoStall says that no read of this store ends so.                         *)
StartIsStart == thread.atStart => Good \subseteq thread.rows
Stalls(before) ==
    LET scan == Scan[before, Window, {}]
    IN  ~scan.hitCap /\ ~scan.exhausted /\ scan.seen \cap Good = {}
NoStall == \A before \in 1..LastTime + 1 : ~Stalls(before)

(* There, the lines above a message count each unreadable row between it    *)
(* and the message before it.  They may count one twice.  `torn` excepts a  *)
(* chat whose first answer came before the rows of its page, or before the  *)
(* page was read: its counts sit at the oldest row of that moment.          *)
Gap(p) == {t \in DOMAIN store \ Good : t < p /\ ~\E g \in thread.rows : t < g /\ g < p}
LossIsTold ==
    thread.atStart /\ ~thread.torn =>
        \A p \in thread.rows : thread.lines[p] >= Cardinality(Gap(p))

(* A spinner of the open thread has a command, a job or an answer on its    *)
(* way, or the chat loads again when the account is back, whatever was      *)
(* dropped by a reconnect.                                                  *)
Requested(kind) ==
    \/ \E i \in DOMAIN thread.pending : thread.pending[i].kind = kind
    \/ \E i \in DOMAIN commands : commands[i].kind = kind
Answered(kind) == \E i \in DOMAIN events : events[i].kind = kind
LoadsAreServed ==
    /\ thread.loading /\ thread.selected =>
         Requested("open") \/ Answered("loaded") \/ (thread.onLink /\ ~thread.linked)
    /\ thread.older =>
         \/ Requested("older") \/ Answered("olderLoaded")
         \/ worker.jobs # <<>> \/ worker.answer # <<>>

(* What the thread says of its history.                                     *)
HistoryIsTrue ==
    LoadsAreServed /\ (thread.atStart /\ NoStall => StartIsStart /\ LossIsTold)

=============================================================================
