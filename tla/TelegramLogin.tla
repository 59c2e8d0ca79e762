----------------------------- MODULE TelegramLogin -----------------------------
(***************************************************************************)
(* The logins of the Telegram accounts: the shell's rows, the host with    *)
(* its login epoch (host.rs), one adapter per account with its worker      *)
(* slots (telegram/lifecycle.rs, telegram/tdlib.rs), the workers, and the  *)
(* TDLib clients behind them.                                              *)
(*                                                                         *)
(* The password step is a second "code".  A command of the inbox ("use")   *)
(* matters only because it can start a client.  An error status clears only  *)
(* `busy`; these have no epoch and are left out.  TDLib and its database are *)
(* modelled from the calls and the updates of the worker.                  *)
(***************************************************************************)
EXTENDS Naturals, FiniteSets, Sequences

CONSTANTS
    Account,
    Main,      \* account 0
    Worker,    \* bound: the workers that can start
    None,
    Saved,     \* accounts that may have a saved session when the app starts
    Inbox,     \* whether linked accounts use their inbox
    Removals,  \* whether accounts after account 0 are removed and added again
    MaxEpoch,  \* bound: logins that the user or the app ends
    MaxQueue   \* bound: commands of the shell that wait for the host

ASSUME AccountAssumption == IsFiniteSet(Account)
ASSUME MainAssumption == Main \in Account
ASSUME NoneAssumption == None \notin Worker
ASSUME SavedAssumption == Saved \subseteq Account
ASSUME SwitchesAssumption == Inbox \in BOOLEAN /\ Removals \in BOOLEAN
ASSUME LoginBounds == MaxEpoch \in Nat /\ MaxQueue \in Nat

VARIABLES
    row,      \* per account: what the account list shows of it
    screen,   \* the login screen: `auth` and `auth_busy` of the shell
    login,    \* the account that the login screen belongs to
    pending,  \* commands of the shell that wait for the end of its pump
    epoch,    \* the login epoch of the host
    commands, \* commands of the shell that the host did not take yet
    checked,  \* the login step that passed the epoch check of its adapter
    adapter,  \* per account: the worker slots and the shutdown task
    worker,   \* per worker; `loggedOut` and `late` are ghosts: it asked for a log
              \* out, and its login was ended before it started
    client,   \* per worker: its TDLib client
    session,  \* per account: the database holds a signed-in session
    marker,   \* per account: the vault holds the session marker
    events,   \* per account: events that the shell did not apply yet
    closing   \* the app closes

shell == <<row, screen, login, pending>>
vars == <<shell, epoch, commands, checked, adapter, worker, client, session,
          marker, events, closing>>

-----------------------------------------------------------------------------
(* "saved": a session that did not resume yet.                             *)
Row == {"saved", "unlinked", "linked", "removed"}
Form == {"phone", "code"}
OnScreen == {"connecting"} \cup Form
Screen == [auth : {"idle", "resuming"} \cup OnScreen, busy : BOOLEAN]
Steps == {"start"} \cup Form
Closes == {"cancel", "close"}
CommandOf(a, type, e) == [account |-> a, type |-> type, epoch |-> e]

NewAdapter ==
    [runs |-> TRUE, current |-> None, retiring |-> {}, shut |-> FALSE,
     awaited |-> {}, stop |-> "no"]

FreeWorker ==
    [account |-> Main, stage |-> "free", waitFor |-> {}, marked |-> FALSE,
     epoch |-> 0, queue |-> <<>>, newLogin |-> FALSE, authorized |-> FALSE,
     lateReady |-> FALSE, close |-> "no", ended |-> FALSE, loggedOut |-> FALSE,
     late |-> FALSE]

NoClient == [auth |-> "none", updates |-> <<>>]

LoginStage == {"free", "waiting", "open", "exiting", "announcing", "done"}
EventType == Form \cup {"ready", "failed", "setup", "ended"}
LoginEvent == [epoch : Nat \cup {None}, type : EventType]

TypeOK ==
    /\ row \in [Account -> Row] /\ screen \in Screen /\ login \in Account
    /\ epoch \in 0 .. MaxEpoch
    /\ \A i \in DOMAIN commands : commands[i].account \in Account
    /\ Cardinality(checked) <= 1
    /\ \A a \in Account :
         /\ adapter[a].current \in Worker \cup {None}
         /\ adapter[a].retiring \cup adapter[a].awaited \subseteq Worker
         /\ adapter[a].stop \in {"no", "waiting", "clean", "late"}
         /\ \A i \in DOMAIN events[a] : events[a][i] \in LoginEvent
    /\ \A w \in Worker :
         /\ worker[w].stage \in LoginStage
         /\ worker[w].account \in Account
         /\ client[w].auth \in {"none", "params", "phone", "code", "ready", "closing",
                             "closed"}
    /\ session \in [Account -> BOOLEAN] /\ marker \in [Account -> BOOLEAN]
    /\ closing \in BOOLEAN

(* An account starts signed in, signed out, or with a session that was      *)
(* revoked while the app was closed.                                        *)
IdleScreen == [auth |-> "idle", busy |-> FALSE]

Init ==
    /\ \E kept \in SUBSET Saved : marker = [a \in Account |-> a \in kept]
    /\ session \in [Account -> BOOLEAN]
    /\ \A a \in Account : session[a] => marker[a]
    /\ row = [a \in Account |-> IF marker[a] THEN "saved" ELSE "unlinked"]
    /\ screen = IdleScreen /\ login = Main
    /\ pending = <<>> /\ epoch = 0 /\ commands = <<>> /\ checked = {}
    /\ adapter = [a \in Account |-> NewAdapter]
    /\ worker = [w \in Worker |-> FreeWorker]
    /\ client = [w \in Worker |-> NoClient]
    /\ events = [a \in Account |-> <<>>]
    /\ closing = FALSE

-----------------------------------------------------------------------------
(* The shell.                                                               *)

(* Variants: a new login moves the epoch too, and a cancel does not.        *)
EndsLoginAtStart(type) == type \in {"disconnect", "shutdown", "start"}
EndsLoginAtShutdown(type) == type = "shutdown"

(* ends_telegram_login.                                                     *)
EndsLogin(type) == type \in {"disconnect", "shutdown"}

(* send_stamped, for a sequence of commands: each one gets the epoch of its *)
(* time, and one that ends a login moves the epoch of every account.        *)
Sends(list) ==
    LET ended(i) == Cardinality({j \in 1 .. i : EndsLogin(list[j].type)})
    IN  /\ commands' = commands \o
             [i \in DOMAIN list |-> [list[i] EXCEPT !.epoch = epoch + ended(i - 1)]]
        /\ epoch' = epoch + ended(Len(list))

Room(n) == Len(commands) < MaxQueue /\ epoch + n <= MaxEpoch

Command(a, type) == CommandOf(a, type, 0)

(* telegram_authorized: the screens are for account 0, and it is linked.    *)
Authorized == login = Main /\ row[Main] = "linked"

Shows(auth, busy, account) ==
    screen' = [auth |-> auth, busy |-> busy] /\ login' = account
ShowRow(a, r) == row' = [row EXCEPT ![a] = r]

(* dispatch: an intent of the user comes between two pumps, and its         *)
(* commands go out at once.                                                 *)
Acts ==
    /\ ~closing /\ pending = <<>>
    /\ UNCHANGED <<pending, checked, adapter, worker, client, session, marker, events,
                   closing>>

(* open_login: Add account, or Link on a row.  The screens of account 0 do  *)
(* not open while they belong to another account, and another account stops *)
(* the resume of account 0.                                                 *)
OpenLogin(a) ==
    /\ Acts /\ screen.auth \notin OnScreen /\ row[a] = "unlinked" /\ Room(0)
    /\ a = Main => login = Main
    /\ Sends(<<Command(a, "start")>>)
    /\ Shows("connecting", TRUE, a)
    /\ IF a # Main /\ row[Main] = "saved" THEN ShowRow(Main, "unlinked")
                                        ELSE UNCHANGED row

(* try_resume and resume_account: a saved session resumes with no screen.   *)
Resume(a) ==
    /\ Acts /\ row[a] = "saved" /\ Room(0)
    /\ a = Main => screen.auth = "idle"
    /\ Sends(<<Command(a, "start")>>)
    /\ ShowRow(a, "unlinked")
    /\ IF a = Main THEN Shows("resuming", FALSE, Main) ELSE UNCHANGED <<screen, login>>

(* The user enters the phone number, the code or the password, and waits.   *)
Answer ==
    /\ Acts /\ screen.auth \in Form /\ ~screen.busy /\ Room(0)
    /\ Sends(<<Command(login, screen.auth)>>)
    /\ Shows(screen.auth, TRUE, login) /\ UNCHANGED row

(* Cancel closes a form over a linked row, and the session stays.           *)
CancelLogin ==
    /\ Acts /\ screen.auth \in OnScreen /\ Room(1)
    /\ Sends(IF Authorized THEN <<>> ELSE <<Command(login, "disconnect")>>)
    /\ Shows("idle", FALSE, Main) /\ UNCHANGED row

TryAgain ==
    /\ Acts /\ screen = [auth |-> "connecting", busy |-> FALSE] /\ Room(1)
    /\ Sends(<<Command(login, "disconnect"), Command(login, "start")>>)
    /\ Shows("connecting", TRUE, login) /\ UNCHANGED row

(* Commands of the inbox, bounded by the queue of the worker too.           *)
Use(a) ==
    /\ Acts /\ Inbox /\ row[a] = "linked" /\ Room(0)
    /\ \A w \in Worker : Len(worker[w].queue) < MaxQueue
    /\ Sends(<<Command(a, "use")>>)
    /\ UNCHANGED <<row, screen, login>>

(* Bounded by the events of the account that still wait.                    *)
Remove(a) ==
    /\ Acts /\ Removals /\ a # Main /\ row[a] \notin {"linked", "removed"} /\ Room(0)
    /\ Len(events[a]) < MaxQueue
    /\ Sends(<<Command(a, "remove")>>)
    /\ ShowRow(a, "removed")
    /\ IF login = a THEN Shows("idle", FALSE, Main) ELSE UNCHANGED <<screen, login>>

(* Add account when account 0 is linked: the lowest free number, which may  *)
(* be the one of a removed account.                                         *)
AddAgain(a) ==
    /\ Acts /\ row[a] = "removed" /\ screen.auth \notin OnScreen /\ Room(0)
    /\ row[Main] = "linked" /\ \A b \in Account \ {Main} : row[b] # "unlinked"
    /\ Sends(<<Command(a, "add")>>)
    /\ ShowRow(a, IF marker[a] THEN "saved" ELSE "unlinked")
    /\ UNCHANGED <<screen, login>>

CloseApp ==
    LET rows == {a \in Account : row[a] # "removed"}
    IN
    /\ ~closing /\ pending = <<>> /\ Room(Cardinality(rows))
    /\ \E order \in [1 .. Cardinality(rows) -> rows] :
         /\ \A a \in rows : \E i \in DOMAIN order : order[i] = a
         /\ Sends([i \in DOMAIN order |-> Command(order[i], "shutdown")])
    /\ closing' = TRUE
    /\ UNCHANGED <<shell, checked, adapter, worker, client, session, marker,
                   events>>

-----------------------------------------------------------------------------
(* Events at the shell: deliver drops a login event of another epoch, and a *)
(* removed account has no row.                                              *)

(* Variant: events of another epoch go to the shell.                        *)
StaleNever(event) == FALSE

Stale(event) == event.epoch # None /\ event.epoch # epoch

Takes(a, types) ==
    /\ events[a] # <<>>
    /\ Head(events[a]).type \in types
    /\ events' = [events EXCEPT ![a] = Tail(@)]
    /\ UNCHANGED <<checked, adapter, worker, client, session, marker, closing>>

(* The commands for an event wait until every event of the pump is applied. *)
Replies(list) ==
    /\ LET all == pending \o list
       IN  epoch + Cardinality({i \in DOMAIN all : EndsLogin(all[i].type)}) <= MaxEpoch
    /\ pending' = pending \o list
    /\ UNCHANGED <<epoch, commands>>

(* While the app closes they are dropped.                                   *)
Flush ==
    /\ pending # <<>>
    /\ pending' = <<>>
    /\ Sends(IF closing THEN <<>> ELSE pending)
    /\ UNCHANGED <<row, screen, login, checked, adapter, worker, client, session, marker,
                   events, closing>>

DropEvent(a) ==
    /\ Takes(a, EventType)
    /\ \/ Stale(Head(events[a]))
       \/ row[a] = "removed"
       \/ Head(events[a]).type = "ended" /\ login = a /\ ~Authorized
    /\ UNCHANGED <<shell, epoch, commands>>

Fresh(a) == events[a] # <<>> /\ ~Stale(Head(events[a])) /\ row[a] # "removed"

(* TDLib asks for a phone number, a code or a password.  With no screen the *)
(* row unlinks, and the client must not wait.                               *)
ShowForm(a) ==
    /\ Fresh(a) /\ Takes(a, Form)
    /\ IF login = a
         THEN Replies(<<>>) /\ Shows(Head(events[a]).type, FALSE, login) /\ UNCHANGED row
         ELSE /\ Replies(<<Command(a, "disconnect")>>)
              /\ ShowRow(a, "unlinked") /\ UNCHANGED <<screen, login>>

Link(a) ==
    /\ Fresh(a) /\ Takes(a, {"ready"})
    /\ Replies(<<>>) /\ ShowRow(a, "linked")
    /\ IF login = a THEN Shows("idle", FALSE, Main) ELSE UNCHANGED <<screen, login>>

(* A step failed, or the client of an account with no screen.               *)
ShowFailure(a) ==
    /\ Fresh(a) /\ Takes(a, {"failed", "setup"})
    /\ login = a => Head(events[a]).type = "failed"
    /\ Replies(<<>>) /\ UNCHANGED row
    /\ IF login # a THEN UNCHANGED <<screen, login>>
       ELSE Shows(IF screen.auth = "resuming" THEN "idle" ELSE screen.auth, FALSE, a)

(* The client itself cannot start (ClientSetup): the screen closes, but it  *)
(* stays the screen of that account.                                        *)
CloseFailedClient(a) ==
    /\ Fresh(a) /\ Takes(a, {"setup"}) /\ login = a
    /\ Replies(<<Command(a, "disconnect")>>)
    /\ Shows("idle", FALSE, login) /\ UNCHANGED row

(* The session ended on another device.  The screens of account 0 start     *)
(* again, any other account shows Link.                                     *)
EndSession(a) ==
    /\ Fresh(a) /\ Takes(a, {"ended"})
    /\ ShowRow(a, "unlinked")
    /\ \/ login = a /\ Authorized /\ Replies(<<Command(a, "start")>>)
          /\ Shows("resuming", FALSE, login)
       \/ login # a /\ Replies(<<>>) /\ UNCHANGED <<screen, login>>

ShellStep(a) ==
    \/ OpenLogin(a) \/ Resume(a) \/ Use(a) \/ Remove(a) \/ AddAgain(a) \/ DropEvent(a)
    \/ ShowForm(a) \/ Link(a) \/ ShowFailure(a)
    \/ CloseFailedClient(a) \/ EndSession(a)

-----------------------------------------------------------------------------
(* The adapter side: WorkerSlots and TdlibRuntime.                          *)

(* A step of another thread.  None comes between the events of one pump:    *)
(* these steps only add events, so each one can move to before the pump.    *)
Elsewhere == pending = <<>> /\ UNCHANGED shell

Exited(w) == worker[w].stage \in {"announcing", "done"}
Accepts(w) == w # None /\ worker[w].stage \in {"waiting", "open"}

(* Variant: a new worker waits for the current one only.                    *)
EnqueueAfterCurrent(a, c) ==
    LET d == adapter[a]
        old == {w \in {d.current} \ {None} : ~Exited(w)}
    IN  IF d.shut THEN UNCHANGED <<adapter, worker>>
        ELSE IF Accepts(d.current)
          THEN /\ worker' = [worker EXCEPT ![d.current].queue = Append(@, c.type)]
               /\ UNCHANGED adapter
          ELSE \E w \in Worker :
               /\ worker[w].stage = "free"
               /\ adapter' = [adapter EXCEPT ![a].current = w]
               /\ worker' = [worker EXCEPT ![w] =
                    [FreeWorker EXCEPT !.account = a, !.stage = "waiting",
                       !.waitFor = old, !.epoch = epoch, !.queue = <<c.type>>,
                       !.late = c.epoch # epoch]]

(* enqueue of the adapter of account a: the command goes to the current       *)
(* worker, or to a new one that waits for the workers that still close.     *)
Enqueue(a, c) ==
    LET d == adapter[a]
        old == {w \in d.retiring \cup ({d.current} \ {None}) : ~Exited(w)}
    IN  IF d.shut THEN UNCHANGED <<adapter, worker>>
        ELSE IF Accepts(d.current)
          THEN /\ worker' = [worker EXCEPT ![d.current].queue = Append(@, c.type)]
               /\ UNCHANGED adapter
          ELSE \E w \in Worker :
               /\ worker[w].stage = "free"
               /\ adapter' = [adapter EXCEPT ![a].current = w, ![a].retiring = old]
               /\ worker' = [worker EXCEPT ![w] =
                    [FreeWorker EXCEPT !.account = a, !.stage = "waiting",
                       !.waitFor = old, !.epoch = epoch, !.queue = <<c.type>>,
                       !.late = c.epoch # epoch]]

(* stop_client: mark first, then send Close.                                *)
Stopped(w, type) ==
    [worker[w] EXCEPT !.marked = TRUE,
                      !.queue = IF Accepts(w) THEN Append(@, type) ELSE @]

StopClient(a, type) ==
    LET w == adapter[a].current
    IN  worker' = IF w = None THEN worker ELSE [worker EXCEPT ![w] = Stopped(w, type)]

Retired(a) == adapter[a].retiring \cup ({adapter[a].current} \ {None})

TakesCommand(a, type) ==
    /\ checked = {}
    /\ commands # <<>>
    /\ Head(commands).account = a /\ Head(commands).type = type
    /\ commands' = Tail(commands)
    /\ Elsewhere /\ UNCHANGED <<epoch, client, session, marker, closing>>

(* handle_auth checks the epoch first ...                                   *)
CheckStep(a) ==
    /\ \E type \in Steps : TakesCommand(a, type)
    /\ checked' = IF adapter[a].runs /\ Head(commands).epoch = epoch
                    THEN {Head(commands)} ELSE {}
    /\ UNCHANGED <<adapter, worker, events>>

(* ... and starts the step after that.  A cancel can come in between.       *)
StartStep(a) ==
    /\ \E c \in checked : c.account = a /\ Enqueue(a, c)
    /\ checked' = {}
    /\ Elsewhere /\ UNCHANGED <<epoch, commands, client, session, marker, events, closing>>

(* The secrets of the step are gone: the failure carries the epoch.         *)
FailStep(a) ==
    /\ \E c \in checked :
         /\ c.account = a
         /\ events' = [events EXCEPT ![a] = Append(@, [epoch |-> c.epoch, type |-> "failed"])]
    /\ checked' = {}
    /\ Elsewhere /\ UNCHANGED <<epoch, commands, adapter, worker, client, session, marker,
                   closing>>

UseInbox(a) ==
    /\ TakesCommand(a, "use")
    /\ IF adapter[a].runs THEN Enqueue(a, Head(commands)) ELSE UNCHANGED <<adapter, worker>>
    /\ UNCHANGED <<checked, events>>

Disconnect(a) ==
    /\ TakesCommand(a, "disconnect")
    /\ StopClient(a, "cancel")
    /\ adapter' = [adapter EXCEPT ![a].current = None, ![a].retiring = Retired(a)]
    /\ UNCHANGED <<checked, events>>

(* Variant: the workers that were retired before are not awaited.           *)
ShutDownCurrent(a) ==
    /\ TakesCommand(a, "shutdown")
    /\ StopClient(a, "close")
    /\ adapter' = [adapter EXCEPT ![a].current = None, ![a].shut = TRUE,
                     ![a].awaited = {adapter[a].current} \ {None}, ![a].stop = "waiting"]
    /\ UNCHANGED <<checked, events>>

(* shutdown: every worker that is not done is awaited.                      *)
ShutDown(a) ==
    /\ TakesCommand(a, "shutdown")
    /\ StopClient(a, "close")
    /\ adapter' = [adapter EXCEPT ![a] =
                     IF @.runs
                       THEN [@ EXCEPT !.current = None, !.retiring = Retired(a),
                               !.shut = TRUE, !.awaited = Retired(a), !.stop = "waiting"]
                       ELSE [@ EXCEPT !.stop = "clean"]]
    /\ UNCHANGED <<checked, events>>

(* Variant: the adapter is dropped without its shutdown.                    *)
RemoveAccountAtOnce(a) ==
    /\ TakesCommand(a, "remove")
    /\ adapter' = [adapter EXCEPT ![a] = [NewAdapter EXCEPT !.runs = FALSE]]
    /\ UNCHANGED <<checked, worker, events>>

(* The adapter of the account closes its clients, and the host drops it.    *)
RemoveAccount(a) ==
    /\ TakesCommand(a, "remove")
    /\ StopClient(a, "close")
    /\ adapter' = [adapter EXCEPT ![a] = [NewAdapter EXCEPT !.runs = FALSE]]
    /\ UNCHANGED <<checked, events>>

AddAccount(a) ==
    /\ TakesCommand(a, "add")
    /\ adapter' = [adapter EXCEPT ![a] = NewAdapter]
    /\ UNCHANGED <<checked, worker, events>>

(* The task of shutdown: no worker left and nobody inside TDLib, or the     *)
(* limit passed.  Stopped goes out in both cases.                           *)
Registered(w) == worker[w].stage \in {"open", "exiting"}

StopEnds(a) ==
    /\ adapter[a].stop = "waiting"
    /\ \/ /\ \A w \in adapter[a].awaited : Exited(w)
          /\ \A w \in Worker : ~Registered(w)
          /\ adapter' = [adapter EXCEPT ![a].stop = "clean"]
       \/ adapter' = [adapter EXCEPT ![a].stop = "late"]
    /\ Elsewhere /\ UNCHANGED <<epoch, commands, checked, worker, client, session, marker,
                   events, closing>>

HostStep(a) ==
    \/ CheckStep(a) \/ StartStep(a) \/ FailStep(a) \/ UseInbox(a) \/ Disconnect(a)
    \/ ShutDown(a) \/ RemoveAccount(a) \/ AddAccount(a) \/ StopEnds(a)

-----------------------------------------------------------------------------
(* TDLib, from the calls and the updates that the worker sees.  A client    *)
(* holds the database until it reports that it closed.                      *)

Holds(w) == client[w].auth \in {"params", "ready", "closing"} \cup Form

Updated(c, auth) == [auth |-> auth, updates |-> Append(c.updates, auth)]

(* close and logOut.  logOut can fail, and the worker closes then.          *)
ClosedClient(c) == IF c.auth \in {"closing", "closed"} THEN c ELSE Updated(c, "closing")

LogOut(w, c) ==
    /\ client' = [client EXCEPT ![w] = ClosedClient(c)]
    /\ \/ /\ c.auth \in Form \cup {"ready", "closing"}
          /\ session' = [session EXCEPT ![worker[w].account] = FALSE]
       \/ UNCHANGED session

(* The user ends the session on another device.                             *)
EndedElsewhere(w) ==
    /\ client[w].auth = "ready"
    /\ client' = [client EXCEPT ![w] = Updated(@, "closing")]
    /\ session' = [session EXCEPT ![worker[w].account] = FALSE]
    /\ Elsewhere /\ UNCHANGED <<epoch, commands, checked, adapter, worker, marker, events,
                   closing>>

Released(w) ==
    /\ client[w].auth = "closing"
    /\ client' = [client EXCEPT ![w] = Updated(@, "closed")]
    /\ Elsewhere /\ UNCHANGED <<epoch, commands, checked, adapter, worker, session, marker,
                   events, closing>>

-----------------------------------------------------------------------------
(* The worker: one command or one update at a time.                         *)

(* ClosingFlag::current, the gate of every login event.                     *)
Current(w) == ~worker[w].marked /\ worker[w].epoch = epoch

EmitsIf(w, emits, type) ==
    events' = IF emits
                THEN [events EXCEPT ![worker[w].account] =
                        Append(@, [epoch |-> worker[w].epoch, type |-> type])]
                ELSE events

Keeps == Elsewhere /\ UNCHANGED <<epoch, commands, checked, adapter, closing>>

CloseKind(signedIn, newLogin, close) ==
    IF signedIn /\ newLogin /\ close = "cancel" THEN "logOut" ELSE "close"

(* Variant: a Ready before Close is forgotten.                              *)
LateReadyForgotten(newLogin, close) ==
    IF close = "cancel" /\ newLogin THEN "logOut" ELSE "keep"

LateReady(newLogin, close) ==
    IF close = "no" THEN "wait"
    ELSE IF close = "cancel" /\ newLogin THEN "logOut"
    ELSE "keep"

(* Every worker it waits for is done: it creates its client.                *)
OpenClient(w) ==
    /\ worker[w].stage = "waiting"
    /\ \A v \in worker[w].waitFor : Exited(v)
    /\ worker' = [worker EXCEPT ![w].stage = "open"]
    /\ client' = [client EXCEPT ![w] = Updated(@, "params")]
    /\ Keeps /\ UNCHANGED <<session, marker, events>>

GiveUpWaiting(w) ==
    /\ worker[w].stage = "waiting"
    /\ \E v \in worker[w].waitFor : ~Exited(v)
    /\ worker' = [worker EXCEPT ![w].stage = "done", ![w].queue = <<>>]
    /\ Keeps /\ UNCHANGED <<client, session, marker, events>>

TakesNext(w, types) ==
    /\ worker[w].stage = "open"
    /\ worker[w].queue # <<>> /\ Head(worker[w].queue) \in types
    /\ Keeps

Taken(w) == [worker[w] EXCEPT !.queue = Tail(@)]

(* A command that changes no login state, or that meets a closing client.   *)
SkipCommand(w) ==
    /\ TakesNext(w, Steps \cup Closes \cup {"use"})
    /\ \/ Head(worker[w].queue) \in {"start", "use"}
       \/ Head(worker[w].queue) \in Closes /\ worker[w].close # "no"
       \/ Head(worker[w].queue) \in Form /\ worker[w].marked
    /\ worker' = [worker EXCEPT ![w] = Taken(w)]
    /\ UNCHANGED <<client, session, marker, events>>

(* TDLib takes the answer and asks for the next one or is signed in, or it   *)
(* refuses the answer.                                                      *)
TakeAnswer(w) ==
    LET answer == Head(worker[w].queue)
    IN  /\ TakesNext(w, Form) /\ ~worker[w].marked
        /\ worker' = [worker EXCEPT ![w] = Taken(w)]
        /\ \/ /\ client[w].auth \in Form
              /\ client[w].auth = "phone" => answer = "phone"
              /\ client' = [client EXCEPT ![w] = Updated(@, "code")]
              /\ UNCHANGED <<session, events>>
           \/ /\ client[w].auth = "code" /\ answer = "code"
              /\ client' = [client EXCEPT ![w] = Updated(@, "ready")]
              /\ session' = [session EXCEPT ![worker[w].account] = TRUE]
              /\ UNCHANGED events
           \/ /\ EmitsIf(w, Current(w), "failed")
              /\ UNCHANGED <<client, session>>
        /\ UNCHANGED marker

TakeClose(w) ==
    LET close == Head(worker[w].queue)
        signedIn == worker[w].authorized \/ worker[w].lateReady
        logOut == CloseKind(signedIn, worker[w].newLogin, close) = "logOut"
    IN  /\ TakesNext(w, Closes) /\ worker[w].close = "no"
        /\ worker' = [worker EXCEPT ![w] =
             [Taken(w) EXCEPT !.marked = TRUE, !.close = close, !.loggedOut = logOut]]
        /\ marker' = [marker EXCEPT ![worker[w].account] = @ /\ ~logOut]
        /\ IF logOut THEN LogOut(w, client[w])
           ELSE /\ client' = [client EXCEPT ![w] = ClosedClient(@)]
                /\ UNCHANGED session
        /\ UNCHANGED events

(* apply_authorization, one action per state.                               *)
Update(w, auth) ==
    /\ worker[w].stage = "open"
    /\ client[w].updates # <<>> /\ Head(client[w].updates) = auth
    /\ Keeps

Drained(w) == [client[w] EXCEPT !.updates = Tail(@)]

(* set_parameters.  It can fail: the vault, the folder or TDLib.            *)
SetParameters(w) ==
    /\ Update(w, "params")
    /\ \/ /\ client[w].auth = "params"
          /\ client' = [client EXCEPT ![w] =
               Updated(Drained(w), IF session[worker[w].account] THEN "ready" ELSE "phone")]
          /\ UNCHANGED events
       \/ /\ \E type \in {"failed", "setup"} : EmitsIf(w, Current(w), type)
          /\ client' = [client EXCEPT ![w] = Drained(w)]
    /\ UNCHANGED <<worker, session, marker>>

WaitForLogin(w) ==
    \E form \in Form :
      /\ Update(w, form)
      /\ client' = [client EXCEPT ![w] = Drained(w)]
      /\ worker' = [worker EXCEPT ![w].newLogin = TRUE]
      /\ marker' = [marker EXCEPT ![worker[w].account] = @ /\ form # "phone"]
      /\ EmitsIf(w, Current(w), form)
      /\ UNCHANGED session

Ready(w) ==
    /\ Update(w, "ready") /\ Current(w)
    /\ client' = [client EXCEPT ![w] = Drained(w)]
    /\ worker' = [worker EXCEPT ![w].authorized = TRUE]
    /\ marker' = [marker EXCEPT ![worker[w].account] = TRUE]
    /\ EmitsIf(w, TRUE, "ready")
    /\ UNCHANGED session

(* TDLib is signed in, but the shell does not link it any more.             *)
SkipReady(w) ==
    LET kind == LateReady(worker[w].newLogin, worker[w].close)
    IN  /\ Update(w, "ready") /\ ~Current(w)
        /\ worker' = [worker EXCEPT ![w].lateReady = @ \/ kind = "wait",
                                    ![w].loggedOut = @ \/ kind = "logOut"]
        /\ IF kind = "logOut" THEN LogOut(w, Drained(w))
           ELSE /\ client' = [client EXCEPT ![w] = Drained(w)]
                /\ UNCHANGED session
        /\ UNCHANGED <<marker, events>>

(* LoggingOut, Closing and Closed.  After Closed the worker drops its       *)
(* commands first, then releases the database, then tells the shell.        *)
Closing(w) ==
    \E auth \in {"closing", "closed"} :
      /\ Update(w, auth)
      /\ client' = [client EXCEPT ![w] = Drained(w)]
      /\ worker' = [worker EXCEPT
           ![w].authorized = FALSE,
           ![w].ended = @ \/ (worker[w].authorized /\ ~worker[w].marked),
           ![w].stage = IF auth = "closed" THEN "exiting" ELSE @,
           ![w].queue = IF auth = "closed" THEN <<>> ELSE @]
      /\ UNCHANGED <<session, marker, events>>

Exit(w) ==
    /\ worker[w].stage = "exiting"
    /\ worker' = [worker EXCEPT ![w].stage = IF worker[w].ended THEN "announcing" ELSE "done"]
    /\ Keeps /\ UNCHANGED <<client, session, marker, events>>

Announce(w) ==
    /\ worker[w].stage = "announcing"
    /\ worker' = [worker EXCEPT ![w].stage = "done"]
    /\ events' = [events EXCEPT ![worker[w].account] =
                     Append(@, [epoch |-> None, type |-> "ended"])]
    /\ Keeps /\ UNCHANGED <<client, session, marker>>

WorkerStep(w) ==
    \/ OpenClient(w) \/ GiveUpWaiting(w) \/ SkipCommand(w) \/ TakeAnswer(w)
    \/ TakeClose(w) \/ SetParameters(w) \/ WaitForLogin(w) \/ Ready(w)
    \/ SkipReady(w) \/ Closing(w) \/ Exit(w) \/ Announce(w)
    \/ EndedElsewhere(w) \/ Released(w)

-----------------------------------------------------------------------------
Next ==
    \/ Answer \/ CancelLogin \/ TryAgain \/ Flush \/ CloseApp
    \/ \E a \in Account : ShellStep(a) \/ HostStep(a)
    \/ \E w \in Worker : WorkerStep(w)

Spec == Init /\ [][Next]_vars

-----------------------------------------------------------------------------
(* A client of the account started after the cancel of its own login: the   *)
(* exception of two properties below.                                       *)
LateStart(a) == \E w \in Worker : worker[w].account = a /\ worker[w].late

(* One client of an account holds its database: a new client opens it only  *)
(* after every old one let go of its lock (WorkerSlots), also when a new    *)
(* one gave up waiting and a third one starts.                              *)
OneClient ==
    \A v, w \in Worker :
      Holds(v) /\ Holds(w) /\ worker[v].account = worker[w].account => v = w

(* A client that runs can still be closed: its worker is the current one of *)
(* its adapter, or it was told to close - also after a cancel, a respawn or *)
(* the removal of its account (stop_client, remove_account).                *)
NoOrphan ==
    \A w \in Worker :
      Accepts(w) => w = adapter[worker[w].account].current \/ worker[w].marked

(* When every account stopped cleanly no client holds a database, and none  *)
(* can open one any more: the app may exit (shutdown).                      *)
CleanStopHasNoClient ==
    (\A a \in Account : adapter[a].stop = "clean") =>
      \A w \in Worker : ~Holds(w) /\ worker[w].stage # "waiting"

(* A linked row has a client that may send its chats and take its messages, *)
(* unless that client was told to close: a cancel of another login does not *)
(* silence it (LiveInbox::linked).                                          *)
LinkedClientServes ==
    \A w \in Worker :
      worker[w].authorized /\ ~worker[w].marked /\ row[worker[w].account] = "linked"
        => Current(w) \/ closing \/ LateStart(worker[w].account)

(* A cancelled new login does not stay signed in: its worker asked for a    *)
(* log out and the session marker is gone, whenever Ready came - before the *)
(* cancel, before Close was read, or after it (close_kind, late_ready).     *)
CancelledLoginEnds ==
    [][\A w \in Worker :
         LET ends == worker[w].stage = "open" /\ worker'[w].stage = "exiting"
             cancelled == worker[w].newLogin /\ worker[w].close = "cancel"
         IN  ends /\ cancelled /\ session'[worker[w].account]
               => worker[w].loggedOut /\ ~marker'[worker[w].account]]_vars

(* The app never logs out an account that the shell shows as linked: only   *)
(* the user can end its session, on another device (ux F8).  A Ready that   *)
(* meets a cancel is therefore not shown (the login epoch).  The exception  *)
(* is a client that started after the cancel of its own login (LateStart).  *)
LinkedSessionKept ==
    [][\A a \in Account :
         session[a] /\ ~session'[a] /\ row[a] = "linked"
           => \/ worker' = worker
              \/ LateStart(a)]_vars

=============================================================================
