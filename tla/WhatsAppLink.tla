------------------------------ MODULE WhatsAppLink ------------------------------
(***************************************************************************)
(* The WhatsApp link (link.rs, session.rs, mod.rs and live.rs of the       *)
(* WhatsApp helper).  One owner task takes the messages of the adapter, of *)
(* the clients and of the stop tasks one at a time; but it waits inside a  *)
(* message (for the stop of a client, for a start), and the adapter, the   *)
(* sends and the stop tasks go on meanwhile and share the session.         *)
(*                                                                         *)
(* A link is the generation that made it, 0 is NO_LINK.  A bot is the      *)
(* client of a generation; it holds the device store until its stop ends.  *)
(* QR codes, chats, the chat cache and the text of a status are left out.  *)
(***************************************************************************)
EXTENDS Naturals, FiniteSets, Sequences

CONSTANTS
    MaxCommand, \* bound: commands of the user and restarts
    MaxQueue    \* bound: messages that wait for the owner

ASSUME LinkBounds == MaxCommand \in Nat /\ MaxQueue \in Nat \ {0}

VARIABLES
    adapter, \* its phase, the ban gate, whether it has the owner
    inbox,   \* messages to the owner
    link,    \* the owner
    stops,   \* stop tasks that run: the number and the client
    clients, \* clients that hold the device store
    session, \* the state that the adapter, the owner and the sends share
    sends,   \* links with a send in flight
    disk,    \* the device store and its revoked mark
    shown,   \* what the events of the adapter left on the account row
    word,    \* ghost: the last command about the link
    done     \* commands so far

linkVars ==
    <<adapter, inbox, link, stops, clients, session, sends, disk, shown, word, done>>

-----------------------------------------------------------------------------
Generation == 0 .. 3 * MaxCommand + 1
StopNumber == 0 .. 2 * MaxCommand + 1
ClientEvent == {"paired", "connected", "disconnected", "loggedOut", "pairFailed"}

LinkMsg ==
    [type : {"begin", "retry", "resume", "cancel", "shutdown"}]
    \cup [type : {"client"}, link : Generation, event : ClientEvent]
    \cup [type : {"stopEnded"}, stop : StopNumber]

Msg(type) == [type |-> type]
ClientMsg(generation, event) == [type |-> "client", link |-> generation, event |-> event]
StopEndedMsg(stop) == [type |-> "stopEnded", stop |-> stop]

NewOwner ==
    [at |-> "idle", generation |-> 0, bot |-> 0, stale |-> FALSE, stop |-> 0,
     wait |-> 0, stopping |-> 0, pairing |-> FALSE, resume |-> FALSE, allowDelete |-> FALSE,
     marked |-> TRUE, ended |-> FALSE]
NewSession ==
    [generation |-> 0, connected |-> FALSE, stopped |-> FALSE, closed |-> FALSE]
NewAdapter == [phase |-> "open", acknowledged |-> FALSE, owned |-> FALSE]
NewRow == [account |-> "unlinked", line |-> "other", stopped |-> FALSE, late |-> FALSE]

(* Every variable has its type; the bot of the owner is a client, and so   *)
(* is the client of a running stop, which the owner no longer holds.       *)
LinkTypeOK ==
    /\ adapter \in [phase : {"open", "draining", "stopping", "answered", "closed"},
                    acknowledged : BOOLEAN, owned : BOOLEAN]
    /\ inbox \in Seq(LinkMsg)
    /\ link \in [at : {"idle", "stopOld", "open", "start", "stopNew", "mark",
                       "stopEvent", "stopCancel", "stopShutdown"},
                 generation : Generation, bot : Generation, stale : BOOLEAN,
                 stop : StopNumber, wait : StopNumber, stopping : StopNumber,
                 pairing : BOOLEAN,
                 resume : BOOLEAN, allowDelete : BOOLEAN, marked : BOOLEAN,
                 ended : BOOLEAN]
    /\ link.bot # 0 => link.bot \in clients
    /\ stops \subseteq [stop : StopNumber, client : clients \ {link.bot}]
    /\ clients \subseteq Generation \ {0}
    /\ session \in [generation : Generation, connected : BOOLEAN,
                    stopped : BOOLEAN, closed : BOOLEAN]
    /\ sends \subseteq Generation \ {0}
    /\ disk \in [store : {"none", "fresh", "paired"}, revoked : BOOLEAN, marker : BOOLEAN]
    /\ shown \in [account : {"unlinked", "linking", "linked"},
                  line : {"other", "pending", "retry"},
                  stopped : BOOLEAN, late : BOOLEAN]
    /\ word \in {"none", "begin", "cancel"} /\ done \in 0 .. MaxCommand

-----------------------------------------------------------------------------
(* Messages, events of the adapter and the session.                        *)

Running(stop) == \E s \in stops : s.stop = stop

(* An event of the adapter sets the account or the status line.  One that  *)
(* comes after `Stopped` is late.                                          *)
Show(account, line) ==
    shown' = [shown EXCEPT !.account = account, !.line = line,
                           !.late = @ \/ shown.stopped]
ShowLine(line) == Show(shown.account, line)

(* reset_state: the session belongs to no link.                            *)
Reset ==
    session' = [session EXCEPT !.generation = 0, !.connected = FALSE, !.stopped = FALSE]

IsLink(generation) == session.generation # 0 /\ session.generation = generation

(* Callbacks and stop tasks have a weak sender: with the handle of the     *)
(* adapter gone, nothing reaches the owner.                                *)
Tell(msg) ==
    inbox' = IF adapter.phase = "closed" THEN inbox ELSE Append(inbox, msg)
Room == Len(inbox) < MaxQueue

DeletedStore == [store |-> "none", revoked |-> FALSE, marker |-> FALSE]

(* delete_store: a delete that fails can have removed the store, but never *)
(* its mark, which goes last.                                              *)
AfterFailedDelete == {disk, [disk EXCEPT !.store = "none", !.revoked = FALSE]}

-----------------------------------------------------------------------------
(* The adapter: each command does all of this at once, the owner's part    *)
(* waits in the queue.                                                     *)

Command ==
    /\ adapter.phase = "open"
    /\ done < MaxCommand /\ done' = done + 1
    /\ UNCHANGED <<link, stops, clients, sends, disk>>

(* The ban gate is accepted; a saved session opens.                        *)
Acknowledge ==
    /\ Command /\ Room
    /\ adapter' = [adapter EXCEPT !.acknowledged = TRUE, !.owned = TRUE]
    /\ Tell(Msg("resume"))
    /\ ShowLine("other")
    /\ word' = "begin"
    /\ UNCHANGED session

BeginLink ==
    /\ Command /\ Room
    /\ adapter.acknowledged
    /\ Tell(Msg("begin"))
    /\ ShowLine("other")
    /\ word' = "begin"
    /\ UNCHANGED <<adapter, session>>

(* The shell offers Retry only while the row shows the refused key.        *)
RetryStoreKey ==
    /\ Command /\ Room
    /\ shown.line = "retry" /\ adapter.owned
    /\ Tell(Msg("retry"))
    /\ ShowLine("other")
    /\ word' = "begin"
    /\ UNCHANGED <<adapter, session>>

CancelLink ==
    /\ Command /\ Room
    /\ adapter' = [adapter EXCEPT !.acknowledged = FALSE]
    /\ IF adapter.owned THEN Tell(Msg("cancel")) ELSE UNCHANGED inbox
    /\ Reset
    /\ Show("unlinked", "other")
    /\ word' = "cancel"

SendText ==
    /\ adapter.phase = "open"
    /\ session.connected
    /\ sends' = sends \cup {session.generation}
    /\ UNCHANGED <<adapter, inbox, link, stops, clients, session, disk, shown, word, done>>

(* Variant: the close does not seal the sends                              *)
FinishSendUnsealed(generation, result) ==
    /\ generation \in sends
    /\ sends' = sends \ {generation}
    /\ IF session.generation # generation \/ result # "rejected"
       THEN UNCHANGED shown ELSE ShowLine("other")
    /\ UNCHANGED <<adapter, inbox, link, stops, clients, session, disk, word, done>>
(* finish_send: a send whose device the phone removed resets the session,  *)
(* and then tells the owner.                                               *)
FinishSend(generation, result) ==
    /\ generation \in sends
    /\ result = "unlinked" => disk.revoked
    /\ sends' = sends \ {generation}
    /\ IF session.closed \/ session.generation # generation \/ result = "accepted"
       THEN UNCHANGED <<session, shown, inbox>>
       ELSE IF result = "rejected"
       THEN ShowLine("other") /\ UNCHANGED <<session, inbox>>
       ELSE /\ Room
            /\ Reset
            /\ Show("unlinked", "other")
            /\ Tell(ClientMsg(generation, "loggedOut"))
    /\ UNCHANGED <<adapter, link, stops, clients, disk, word, done>>

-----------------------------------------------------------------------------
(* Shutdown: the sends drain, the owner stops the client, the adapter      *)
(* waits for both with a limit.                                            *)

Shutdown ==
    /\ Command
    /\ IF ~adapter.owned /\ sends = {}
       THEN /\ adapter' = [adapter EXCEPT !.phase = "closed", !.acknowledged = FALSE]
            /\ session' = [session EXCEPT !.closed = TRUE]
            /\ shown' = [shown EXCEPT !.stopped = TRUE]
       ELSE /\ adapter' = [adapter EXCEPT !.phase = "draining", !.acknowledged = FALSE]
            /\ UNCHANGED <<session, shown>>
    /\ UNCHANGED <<inbox, word>>

(* The sends ended, or the limit of the drain ran out.                     *)
Drained ==
    /\ adapter.phase = "draining"
    /\ inbox' = Append(inbox, Msg("shutdown"))
    /\ adapter' = [adapter EXCEPT !.phase = "stopping"]
    /\ UNCHANGED <<link, stops, clients, session, sends, disk, shown, word, done>>

(* The owner never answered: no `Stopped`.                                 *)
ShutdownTimesOut ==
    /\ adapter.phase = "stopping"
    /\ adapter' = [adapter EXCEPT !.phase = "closed", !.owned = FALSE]
    /\ session' = [session EXCEPT !.closed = TRUE]
    /\ ShowLine("other")
    /\ UNCHANGED <<inbox, link, stops, clients, sends, disk, word, done>>

(* The owner confirmed that no client runs.                                *)
ShutdownDone ==
    /\ adapter.phase = "answered"
    /\ adapter' = [adapter EXCEPT !.phase = "closed", !.owned = FALSE]
    /\ session' = [session EXCEPT !.closed = TRUE]
    /\ shown' = [shown EXCEPT !.stopped = TRUE]
    /\ UNCHANGED <<inbox, link, stops, clients, sends, disk, word, done>>

-----------------------------------------------------------------------------
(* The owner.                                                              *)

OwnerTakes(type) ==
    /\ link.at = "idle" /\ ~link.ended
    /\ inbox # <<>> /\ Head(inbox).type = type
    /\ inbox' = Tail(inbox)
    /\ UNCHANGED <<adapter, sends, word, done>>

OwnerAt(at) == link.at = at /\ UNCHANGED <<adapter, inbox, sends, word, done>>

(* Variant: a slow stop is forgotten                                       *)
StillStoppingForgets == FALSE
StillStopping == link.stopping # 0 /\ Running(link.stopping)
Stopping == IF StillStopping THEN link.stopping ELSE 0

(* Variant: the owner keeps the bot                                        *)
StopBotKeepsBot(owner, at) ==
    LET stop == owner.stop + 1
    IN  /\ link' = [owner EXCEPT !.at = at, !.stop = stop, !.wait = stop]
        /\ stops' = stops \cup {[stop |-> stop, client |-> owner.bot]}
(* stop_bot: the stop runs on a task of its own, the owner waits at `at`.  *)
StopBot(owner, at) ==
    LET stop == owner.stop + 1
    IN  /\ link' = [owner EXCEPT !.at = at, !.stop = stop, !.wait = stop, !.bot = 0]
        /\ stops' = stops \cup {[stop |-> stop, client |-> owner.bot]}

(* stop: with no client, the wait is over at once.                         *)
StopClient(owner, at) ==
    IF owner.bot # 0 THEN StopBot(owner, at)
    ELSE link' = [owner EXCEPT !.at = at, !.wait = 0] /\ UNCHANGED stops

(* The wait for the stop ends; a stop that is too slow goes on.            *)
InTime == ~Running(link.wait)
TooSlow == Running(link.wait)
Waited(owner) == IF InTime THEN owner ELSE [owner EXCEPT !.stopping = link.wait]

-----------------------------------------------------------------------------
(* begin                                                                   *)

StartLink(allowDelete, resume) ==
    LET owner == [link EXCEPT !.generation = @ + 1, !.pairing = TRUE, !.resume = resume,
                              !.allowDelete = allowDelete, !.stopping = Stopping]
    IN  IF StillStopping
        THEN link' = owner /\ Show("unlinked", "other") /\ UNCHANGED stops
        ELSE IF link.bot # 0
        THEN StopBot(owner, "stopOld") /\ UNCHANGED shown
        ELSE link' = [owner EXCEPT !.at = "open"] /\ UNCHANGED <<stops, shown>>

TakeBegin ==
    /\ OwnerTakes("begin")
    /\ StartLink(TRUE, FALSE)
    /\ UNCHANGED <<clients, session, disk>>

TakeRetry ==
    /\ OwnerTakes("retry")
    /\ IF link.pairing THEN StartLink(FALSE, link.resume)
       ELSE /\ Show(IF disk.store # "none" THEN "linked" ELSE shown.account, "retry")
            /\ UNCHANGED <<link, stops>>
    /\ UNCHANGED <<clients, session, disk>>

(* Variant: the mark on the disk does not count                            *)
TakeResumeUnmarked ==
    /\ OwnerTakes("resume")
    /\ IF link.bot # 0 \/ link.pairing \/ StillStopping \/ link.stale \/ disk.store = "none"
       THEN UNCHANGED <<link, stops, shown>>
       ELSE StartLink(FALSE, TRUE)
    /\ UNCHANGED <<clients, session, disk>>
(* A running or asked link stays; a revoked store and no store open        *)
(* nothing.                                                                *)
TakeResume ==
    /\ OwnerTakes("resume")
    /\ IF link.bot # 0 \/ link.pairing THEN UNCHANGED <<link, stops, shown>>
       ELSE IF StillStopping \/ link.stale \/ disk.marker \/ disk.store = "none"
       THEN link' = [link EXCEPT !.stopping = Stopping] /\ UNCHANGED <<stops, shown>>
       ELSE StartLink(FALSE, TRUE)
    /\ UNCHANGED <<clients, session, disk>>

OldStopped ==
    /\ OwnerAt("stopOld")
    /\ \/ InTime /\ link' = [link EXCEPT !.at = "open"] /\ UNCHANGED shown
       \/ TooSlow /\ link' = [Waited(link) EXCEPT !.at = "idle"] /\ Show("unlinked", "other")
    /\ UNCHANGED <<stops, clients, session, disk>>

(* The session belongs to the new link; a revoked store goes first.        *)
OpenLink ==
    /\ OwnerAt("open")
    /\ session' = [session EXCEPT !.generation = link.generation, !.stopped = FALSE]
    /\ UNCHANGED <<stops, clients>>
    /\ IF link.allowDelete /\ (link.stale \/ disk.marker)
       THEN \/ /\ disk' = DeletedStore
               /\ link' = [link EXCEPT !.at = "start", !.stale = FALSE]
               /\ Show("linking", shown.line)
            \/ /\ disk' \in AfterFailedDelete
               /\ link' = [link EXCEPT !.at = "idle"]
               /\ Show("unlinked", "other")
       ELSE /\ link' = [link EXCEPT !.at = "start"]
            /\ Show("linking", shown.line)
            /\ UNCHANGED disk

(* A start after a cancel that reset the session is over.                  *)
ClientStarts ==
    /\ OwnerAt("start")
    /\ disk.store = "paired" \/ ~link.resume
    /\ clients' = clients \cup {link.generation}
    /\ disk' = IF disk.store = "none" THEN [disk EXCEPT !.store = "fresh"] ELSE disk
    /\ LET owner == [link EXCEPT !.bot = link.generation]
       IN  IF IsLink(link.generation)
           THEN link' = [owner EXCEPT !.at = "idle"] /\ ShowLine("other") /\ UNCHANGED stops
           ELSE StopBot(owner, "stopNew") /\ UNCHANGED shown
    /\ UNCHANGED session

NewStopped ==
    /\ OwnerAt("stopNew")
    /\ link' = [Waited(link) EXCEPT !.at = "idle"]
    /\ \/ InTime /\ UNCHANGED shown
       \/ TooSlow /\ ShowLine("pending")
    /\ UNCHANGED <<stops, clients, session, disk>>

(* Why a start fails: the key was refused, another key wrote the store     *)
(* (which moves aside with its mark) or the move failed, no paired store   *)
(* to resume, the client could not be built.                               *)
StartFails(why) ==
    /\ OwnerAt("start")
    /\ why = "notPaired" => link.resume /\ disk.store # "paired"
    /\ link.resume /\ disk.store = "none" => why = "notPaired"
    /\ why \in {"wrongKey", "notMoved"} => disk.store # "none"
    /\ disk' = CASE why = "wrongKey" -> DeletedStore
                 [] why = "build" /\ disk.store = "none" -> [disk EXCEPT !.store = "fresh"]
                 [] OTHER -> disk
    /\ IF IsLink(link.generation)
       THEN /\ link' = [link EXCEPT !.at = "idle",
                                    !.pairing = why # "notPaired",
                                    !.resume = @ /\ why # "notPaired"]
            /\ CASE why = "denied" ->
                      Show(IF disk.store # "none" THEN "linked" ELSE shown.account, "retry")
                 [] why = "notMoved" -> ShowLine("retry")
                 [] OTHER -> Show("unlinked", "other")
       ELSE link' = [link EXCEPT !.at = "idle"] /\ UNCHANGED shown
    /\ UNCHANGED <<stops, clients, session>>

-----------------------------------------------------------------------------
(* Client events.                                                          *)

Current(msg) == msg.link = link.generation /\ link.bot # 0

StopsLink(event) == event \in {"loggedOut", "pairFailed"}

(* Session.apply, under its lock: a session that another link owns, or     *)
(* none, takes no event.                                                   *)
ApplyMsg(msg) ==
    IF ~IsLink(msg.link) THEN UNCHANGED <<session, shown>>
    ELSE CASE msg.event = "connected" ->
                /\ session' = [session EXCEPT !.connected = TRUE]
                /\ Show("linked", "other")
           [] msg.event = "disconnected" ->
                /\ session' = [session EXCEPT !.connected = FALSE]
                /\ Show("linking", "other")
           [] msg.event = "loggedOut" ->
                /\ session' = [session EXCEPT !.generation = 0, !.connected = FALSE,
                                              !.stopped = TRUE]
                /\ Show("unlinked", "other")
           [] msg.event = "pairFailed" ->
                /\ session' = [session EXCEPT !.connected = FALSE, !.stopped = TRUE]
                /\ Show("unlinked", "other")
           [] msg.event = "paired" ->
                /\ ShowLine("other")
                /\ UNCHANGED session

TakeClient ==
    /\ OwnerTakes("client")
    /\ LET msg == Head(inbox)
       IN  IF ~Current(msg) THEN UNCHANGED <<link, session, shown>>
           ELSE /\ ApplyMsg(msg)
                /\ link' =
                     IF ~StopsLink(msg.event) THEN link
                     ELSE [link EXCEPT !.generation = @ + 1, !.at = "mark",
                                       !.marked = msg.event # "loggedOut",
                                       !.stale = @ \/ msg.event = "loggedOut"]
    /\ UNCHANGED <<stops, clients, disk>>

(* mark_revoked, which can fail, and the stop of the client.               *)
MarkRevoked ==
    /\ OwnerAt("mark")
    /\ \E saved \in BOOLEAN :
         /\ disk' = [disk EXCEPT !.marker = @ \/ (~link.marked /\ saved)]
         /\ StopBot([link EXCEPT !.marked = @ \/ saved], "stopEvent")
    /\ UNCHANGED <<clients, session, shown>>

(* Variant: the store goes without a wait for the client                   *)
EventStoppedAnyhow ==
    /\ OwnerAt("stopEvent")
    /\ link' = [Waited(link) EXCEPT !.at = "idle", !.stale = FALSE]
    /\ disk' = IF link.stale THEN DeletedStore ELSE disk
    /\ UNCHANGED <<stops, clients, session, shown>>
(* A revoked store goes as soon as its client let go of it.                *)
EventStopped ==
    /\ OwnerAt("stopEvent")
    /\ LET owner == [Waited(link) EXCEPT !.at = "idle"]
           warn(stale) == stale /\ ~link.marked
       IN  \/ /\ InTime /\ link.stale
              /\ disk' = DeletedStore
              /\ link' = [owner EXCEPT !.stale = FALSE]
              /\ UNCHANGED shown
           \/ /\ InTime
              /\ disk' \in IF link.stale THEN AfterFailedDelete ELSE {disk}
              /\ link' = owner
              /\ IF warn(link.stale) THEN ShowLine("other") ELSE UNCHANGED shown
           \/ /\ TooSlow
              /\ link' = owner
              /\ ShowLine(IF warn(link.stale) THEN "other" ELSE "pending")
              /\ UNCHANGED disk
    /\ UNCHANGED <<stops, clients, session>>

TakeStopEnded ==
    /\ OwnerTakes("stopEnded")
    /\ IF Head(inbox).stop # link.stopping THEN UNCHANGED <<link, disk, shown>>
       ELSE /\ ShowLine("other")
            /\ \/ /\ link.stale
                  /\ disk' = DeletedStore
                  /\ link' = [link EXCEPT !.stopping = 0, !.stale = FALSE]
               \/ /\ disk' \in IF link.stale THEN AfterFailedDelete ELSE {disk}
                  /\ link' = [link EXCEPT !.stopping = 0]
    /\ UNCHANGED <<stops, clients, session>>

-----------------------------------------------------------------------------
(* Cancel, shutdown and the end of the owner.                              *)

Quit == [link EXCEPT !.generation = @ + 1]

(* Variant: a cancel only drops the later callbacks                        *)
TakeCancelKeepsBot ==
    /\ OwnerTakes("cancel")
    /\ link' = [Quit EXCEPT !.pairing = FALSE]
    /\ UNCHANGED <<stops, clients, session, disk, shown>>
TakeCancel ==
    /\ OwnerTakes("cancel")
    /\ StopClient(Quit, "stopCancel")
    /\ UNCHANGED <<clients, session, disk, shown>>

Cancelled ==
    /\ OwnerAt("stopCancel")
    /\ LET owner == [link EXCEPT !.at = "idle", !.pairing = FALSE, !.resume = FALSE]
       IN  \/ InTime /\ link' = owner /\ UNCHANGED shown
           \/ TooSlow /\ link' = [owner EXCEPT !.stopping = link.wait] /\ ShowLine("pending")
    /\ UNCHANGED <<stops, clients, session, disk>>

TakeShutdown ==
    /\ OwnerTakes("shutdown")
    /\ StopClient(Quit, "stopShutdown")
    /\ UNCHANGED <<clients, session, disk, shown>>

(* Variant: a slow stop counts as a stop                                   *)
OwnerShutDownAnyhow ==
    /\ link.at = "stopShutdown"
    /\ link' = [Waited(link) EXCEPT !.at = "idle"]
    /\ adapter' = IF adapter.phase = "stopping"
                  THEN [adapter EXCEPT !.phase = "answered"] ELSE adapter
    /\ UNCHANGED <<inbox, stops, clients, session, sends, disk, shown, word, done>>
(* Only a client that really stopped is confirmed.                         *)
OwnerShutDown ==
    /\ link.at = "stopShutdown"
    /\ \/ /\ InTime /\ ~StillStopping
          /\ link' = [link EXCEPT !.at = "idle", !.stopping = 0]
          /\ adapter' = IF adapter.phase = "stopping"
                        THEN [adapter EXCEPT !.phase = "answered"] ELSE adapter
          /\ UNCHANGED shown
       \/ /\ InTime /\ StillStopping
          /\ link' = [link EXCEPT !.at = "idle"]
          /\ UNCHANGED <<adapter, shown>>
       \/ /\ TooSlow
          /\ link' = [link EXCEPT !.at = "idle", !.stopping = link.wait]
          /\ ShowLine("pending")
          /\ UNCHANGED adapter
    /\ UNCHANGED <<inbox, stops, clients, session, sends, disk, word, done>>

(* Every handle is gone and the queue is empty.                            *)
OwnerEnds ==
    /\ OwnerAt("idle") /\ ~link.ended
    /\ adapter.phase = "closed" /\ inbox = <<>>
    /\ StopClient([Quit EXCEPT !.ended = TRUE], "idle")
    /\ UNCHANGED <<clients, session, disk, shown>>

-----------------------------------------------------------------------------
(* The stop tasks, the clients (the WhatsApp library), the phone and the   *)
(* process.                                                                *)

StopTaskEnds(s) ==
    /\ Room
    /\ stops' = stops \ {s}
    /\ clients' = clients \ {s.client}
    /\ Tell(StopEndedMsg(s.stop))
    /\ UNCHANGED <<adapter, link, session, sends, disk, shown, word, done>>

ClientEvents(client, event) ==
    /\ Room
    /\ event = "paired" => disk.store = "fresh"
    /\ event \in {"connected", "disconnected"} => disk.store = "paired" /\ ~disk.revoked
    /\ event = "loggedOut" => disk.revoked
    /\ event = "pairFailed" => disk.store = "fresh"
    /\ disk' = IF event = "paired" THEN [disk EXCEPT !.store = "paired"] ELSE disk
    /\ Tell(ClientMsg(client, event))
    /\ UNCHANGED <<adapter, link, stops, clients, session, sends, shown, word, done>>

RevokeDevice ==
    /\ disk.store = "paired" /\ ~disk.revoked
    /\ disk' = [disk EXCEPT !.revoked = TRUE]
    /\ UNCHANGED <<adapter, inbox, link, stops, clients, session, sends, shown, word, done>>

(* Connect, which Refresh sends: it answers from the session.              *)
Connect ==
    /\ adapter.phase = "open" /\ session.connected
    /\ Show("linked", "other")
    /\ UNCHANGED <<adapter, inbox, link, stops, clients, session, sends, disk, word, done>>

(* The helper ends, at any moment, and starts again: the disk stays.       *)
Restart ==
    /\ done < MaxCommand /\ done' = done + 1
    /\ adapter' = NewAdapter /\ inbox' = <<>> /\ link' = NewOwner
    /\ stops' = {} /\ clients' = {} /\ session' = NewSession /\ sends' = {}
    /\ shown' = NewRow /\ word' = "none"
    /\ UNCHANGED disk

-----------------------------------------------------------------------------
LinkInit ==
    /\ adapter = NewAdapter /\ inbox = <<>> /\ link = NewOwner
    /\ stops = {} /\ clients = {} /\ session = NewSession /\ sends = {}
    /\ disk \in {DeletedStore, [DeletedStore EXCEPT !.store = "paired"]}
    /\ shown = NewRow /\ word = "none" /\ done = 0

OwnerStep ==
    \/ TakeBegin \/ TakeRetry \/ TakeResume \/ OldStopped \/ OpenLink
    \/ ClientStarts \/ NewStopped
    \/ \E why \in {"denied", "wrongKey", "notMoved", "build", "notPaired"} : StartFails(why)
    \/ TakeClient \/ MarkRevoked \/ EventStopped \/ TakeStopEnded
    \/ TakeCancel \/ Cancelled \/ TakeShutdown \/ OwnerShutDown \/ OwnerEnds

LinkNext ==
    \/ OwnerStep
    \/ Acknowledge \/ BeginLink \/ RetryStoreKey \/ CancelLink \/ SendText
    \/ \E generation \in sends, result \in {"accepted", "rejected", "unlinked"} :
         FinishSend(generation, result)
    \/ Shutdown \/ Drained \/ ShutdownTimesOut \/ ShutdownDone
    \/ \E s \in stops : StopTaskEnds(s)
    \/ \E client \in clients, event \in ClientEvent : ClientEvents(client, event)
    \/ RevokeDevice \/ Connect \/ Restart

LinkSpec == LinkInit /\ [][LinkNext]_linkVars

-----------------------------------------------------------------------------
(* Properties.                                                             *)

(* At most one client has the device store, however slowly the old ones    *)
(* stop ("Two clients on one store break it", link.rs StillRunning).       *)
OneClient == Cardinality(clients) <= 1

(* The store goes, by a delete or with its folder, only while no client    *)
(* holds it; and one that the phone revoked, and that the owner or the     *)
(* disk knows to be revoked, never gets a client again, also not after a   *)
(* restart.                                                                *)
DeviceStoreSafe ==
    [][/\ disk.store # "none" /\ disk'.store = "none" => clients = {}
       /\ \/ clients' \subseteq clients
          \/ ~disk.revoked \/ ~(link.stale \/ disk.marker)]_linkVars

(* `Stopped` means that no WhatsApp client runs.                           *)
StoppedMeansNoClient == shown.stopped => clients = {}

(* Nothing of the account comes after `Stopped`.                           *)
NothingAfterStopped == ~shown.late

Quiet == link.at = "idle" /\ inbox = <<>> /\ stops = {} /\ adapter.phase = "open"

(* When everything that a Cancel started is over, no client runs, whatever *)
(* was under way when it came.                                             *)
CancelLeavesNoClient == Quiet /\ word = "cancel" => clients = {}

(* A cancel and a close are the end of what ran before them.               *)
ClientsEnd == StoppedMeansNoClient /\ NothingAfterStopped /\ CancelLeavesNoClient
=============================================================================
