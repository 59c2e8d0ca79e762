----------------------------- MODULE DiscordSession -----------------------------
(***************************************************************************)
(* The bot session of Discord (discord/session.rs) and the commands of its *)
(* adapter that start, use and end one (discord/mod.rs).                   *)
(*                                                                         *)
(* A session has an owner task that handles one message at a time.  Its    *)
(* HTTP calls and its timers are tasks that end with a message.  The       *)
(* owners of the account share a gate: whether the account is open, and    *)
(* the sends in flight.  Owner k opened it with epoch k.  The adapter runs *)
(* on another thread, so a step of it may come between a check and the act *)
(* of an owner, and one of an owner between two of the adapter.            *)
(*                                                                         *)
(* Left out: rows, texts and statuses, previews, older pages, audio,       *)
(* photos, deletes and reactions.  A timer may end at any moment, but      *)
(* Closing waits long enough for its owner.                                *)
(***************************************************************************)
EXTENDS Naturals, FiniteSets, Sequences

CONSTANTS
    MaxCall, \* bound: commands of a run, without the close
    MaxLoad  \* bound: those of them that ask for chats or a history

ASSUME DiscordBounds == MaxCall \in Nat /\ MaxLoad \in Nat

VARIABLE discord

-----------------------------------------------------------------------------
NoSession == 0

(* A message of an owner, or the task that will send it.  `arg` is a        *)
(* ticket, a request, an attempt or a successor.                            *)
Message(type, arg) == [type |-> type, arg |-> arg, result |-> "none"]
NoMessage == Message("none", 0)

(* What a call or a timer may end with.  Only a refused token changes what  *)
(* follows; every other result of a send answers it.                        *)
ResultsOf(type) ==
    CASE type = "list" -> {"ok", "failed", "unauthorized"}
      [] type \in {"history", "post"} -> {"ok", "unauthorized"}
      [] OTHER -> {"none"}

StartedOwner(predecessor) ==
    [waits |-> predecessor, queue |-> <<Message("reload", 0)>>, tasks |-> {},
     at |-> NoMessage, hold |-> TRUE, sends |-> {}, ticket |-> 0, ready |-> FALSE,
     retired |-> FALSE, unlink |-> "none", revoked |-> FALSE, leaving |-> 0,
     end |-> "none", settleArmed |-> FALSE, shutdown |-> FALSE, closed |-> FALSE,
     stopped |-> FALSE, done |-> FALSE]

DiscordInit ==
    discord =
      [gate |-> [open |-> TRUE, epoch |-> 0, inflight |-> {}],
       active |-> 0, owner |-> <<>>,
       \* the handles of the adapter, and the rest of a command
       session |-> NoSession, retiring |-> NoSession, handle |-> NoSession,
       doing |-> "none", closing |-> NoSession, closed |-> FALSE,
       \* what the shell hears
       account |-> "unlinked", stops |-> 0, answers |-> <<>>, loads |-> 0,
       \* ghosts: unlink_if_idle left the end of the account to an owner,
       \* and a session that was retired said Linked
       leftBusy |-> FALSE, lateLinked |-> FALSE]

Owners == DOMAIN discord.owner
Requests == DOMAIN discord.answers

DiscordTypeOK ==
    /\ discord.gate.epoch \in 0 .. MaxCall + 1
    /\ discord.gate.inflight \subseteq Requests
    /\ Owners \subseteq 1 .. MaxCall /\ Requests \subseteq 1 .. MaxCall
    /\ {discord.session, discord.retiring, discord.handle, discord.closing}
         \subseteq Owners \cup {NoSession}
    /\ discord.doing \in {"none", "unlink"}
    /\ discord.account \in {"unlinked", "linking", "linked"}
    /\ \A k \in Owners :
         /\ discord.owner[k].sends \subseteq Requests
         /\ discord.owner[k].unlink \in {"none", "wait", "seal"}
         /\ discord.owner[k].end \in {"none", "unlinked", "stopped"}
         /\ discord.owner[k].leaving \in 0 .. MaxCall

-----------------------------------------------------------------------------
(* Parts of the owner and of the gate, from state to state.                 *)

(* The owner itself keeps a weak sender and `hold`.                         *)
HasSender(s, k) ==
    \/ k \in {s.session, s.retiring, s.handle}
    \/ s.owner[k].tasks # {} \/ s.owner[k].hold

Post(s, k, msg) == [s EXCEPT !.owner[k].queue = Append(@, msg)]

Spawn(s, k, task) ==
    IF HasSender(s, k) THEN [s EXCEPT !.owner[k].tasks = @ \cup {task}] ELSE s

Queued(s, k) == {s.owner[k].queue[i] : i \in DOMAIN s.owner[k].queue}

(* Sends of owner k with no result that it handled (send_tasks).            *)
Unfinished(s, k) == {m.arg : m \in {n \in s.owner[k].tasks \cup Queued(s, k) : n.type = "post"}}

Pending(s) == s.gate.inflight # {}

(* The account is open, and no later session opened it.                     *)
HasGate(s, k) == s.gate.open /\ s.gate.epoch = k

Publishes(o) == ~o.retired /\ o.unlink = "none" /\ ~o.revoked

Answer(s, rs) ==
    [s EXCEPT !.answers = [r \in DOMAIN @ |-> IF r \in rs THEN @[r] + 1 ELSE @[r]]]

RejectOpen(s, k) ==
    [Answer(s, s.gate.inflight) EXCEPT
       !.owner[k].sends = @ \ s.gate.inflight, !.gate.inflight = {}]

(* The rejects, the end of the account and the closed gate are one step.    *)
CloseGate(s, k) == [RejectOpen(s, k) EXCEPT !.gate.open = FALSE]

Unlink(s, k) == [CloseGate(s, k) EXCEPT !.account = "unlinked"]

EmitStoppedOnce(s, k) ==
    IF s.owner[k].stopped THEN s
    ELSE [s EXCEPT !.owner[k].stopped = TRUE, !.stops = @ + 1]

RetireOwner(s, k) == [s EXCEPT !.owner[k].retired = TRUE, !.owner[k].unlink = "none"]

MarkClosed(s, k) == [s EXCEPT !.owner[k].closed = TRUE, !.owner[k].hold = FALSE]

ArmSettle(s, k, end) ==
    IF s.owner[k].settleArmed THEN s
    ELSE Spawn([s EXCEPT !.owner[k].settleArmed = TRUE, !.owner[k].end = end],
               k, Message("settle", 0))

(* Owner::close: the end of a shutdown.                                     *)
Close(s, k) ==
    LET retired == RetireOwner([s EXCEPT !.owner[k].shutdown = FALSE], k)
        sealed == IF HasGate(s, k) THEN CloseGate(retired, k) ELSE retired
    IN  IF ~s.owner[k].shutdown THEN s
        ELSE [MarkClosed(EmitStoppedOnce(sealed, k), k) EXCEPT !.owner[k].done = TRUE]

FinishShutdown(s, k) ==
    IF ~s.owner[k].shutdown \/ Unfinished(s, k) # {} THEN s
    ELSE IF s.gate.inflight \ s.owner[k].sends # {} THEN ArmSettle(s, k, "stopped")
    ELSE Close(s, k)

EndAccount(s, k) == IF HasGate(s, k) THEN MarkClosed(Unlink(s, k), k) ELSE s

BeginEnd(s, k) == IF Pending(s) THEN ArmSettle(s, k, "unlinked") ELSE EndAccount(s, k)

(* finish_disconnect and seal_disconnect: a later attempt wins.             *)
FinishDisconnect(s, k) ==
    LET left == [s EXCEPT !.owner[k].leaving = 0]
    IN  IF s.owner[k].leaving = 0 THEN s
        ELSE IF HasGate(s, k) /\ s.active = s.owner[k].leaving
          THEN MarkClosed(Unlink(left, k), k)
        ELSE [left EXCEPT !.owner[k].hold = FALSE]

StartSeal(s, k) == Spawn([s EXCEPT !.owner[k].unlink = "seal"], k, Message("seal", 0))

(* settle_unauthorized, the 401 step.                                       *)
SettleUnauthorized(s, k) ==
    IF ~Publishes(s.owner[k]) THEN s
    ELSE IF Pending(s)
      THEN Spawn([s EXCEPT !.owner[k].unlink = "wait"], k, Message("sendWait", 0))
    ELSE StartSeal(s, k)

(* Variant: the gate is not asked.                                          *)
AnswerAgain(s, k, r, result) ==
    LET gone == [s EXCEPT !.owner[k].sends = @ \ {r}]
        answered == [Answer(gone, {r}) EXCEPT !.gate.inflight = @ \ {r}]
    IN  IF r \notin s.owner[k].sends THEN gone
        ELSE IF result = "unauthorized" THEN SettleUnauthorized(answered, k)
        ELSE answered

(* answer_send: an earlier end may have answered this request.              *)
AnswerSend(s, k, r, result) ==
    LET gone == [s EXCEPT !.owner[k].sends = @ \ {r}]
        answered == [Answer(gone, {r}) EXCEPT !.gate.inflight = @ \ {r}]
    IN  IF r \notin s.owner[k].sends \/ ~s.gate.open \/ r \notin s.gate.inflight THEN gone
        ELSE IF result = "unauthorized" THEN SettleUnauthorized(answered, k)
        ELSE answered

-----------------------------------------------------------------------------
(* The owner: one message at a time.                                        *)
Listens(k) ==
    /\ discord.owner[k].waits = NoSession /\ discord.owner[k].at = NoMessage
    /\ discord.owner[k].queue # <<>>

Handles(k, type) ==
    Listens(k) /\ ~discord.owner[k].closed /\ Head(discord.owner[k].queue).type = type

First(k) == Head(discord.owner[k].queue)
Taken(k) == [discord EXCEPT !.owner[k].queue = Tail(@)]

(* The successor gets the channels, or learns that there are none.          *)
HandOff(s, successor) ==
    IF successor = NoSession THEN s ELSE [s EXCEPT !.owner[successor].waits = NoSession]

(* A closed owner answers only Shutdown.                                    *)
SkipMessage(k) ==
    /\ Listens(k) /\ discord.owner[k].closed
    /\ discord' =
         CASE First(k).type = "shutdown" -> [Taken(k) EXCEPT !.owner[k].done = TRUE]
           [] First(k).type = "retire" -> HandOff(Taken(k), First(k).arg)
           [] OTHER -> Taken(k)

LoadList(k) ==
    /\ Handles(k, "reload")
    /\ discord' =
         IF ~Publishes(discord.owner[k]) THEN Taken(k)
         ELSE LET next == [Taken(k) EXCEPT !.owner[k].ticket = @ + 1]
              IN  Spawn(next, k, Message("list", next.owner[k].ticket))

LoadHistory(k) ==
    /\ Handles(k, "open")
    /\ discord' =
         IF Publishes(discord.owner[k]) /\ discord.owner[k].ready
           THEN Spawn(Taken(k), k, Message("history", First(k).arg))
           ELSE Taken(k)

(* Also an empty text, a channel that is not listed or is read-only.        *)
RefuseSend(k) ==
    /\ Handles(k, "send")
    /\ discord' = Answer(Taken(k), {First(k).arg})

CheckSend(k) ==
    /\ Handles(k, "send")
    /\ Publishes(discord.owner[k]) /\ discord.owner[k].ready /\ HasSender(discord, k)
    /\ discord' = [Taken(k) EXCEPT !.owner[k].at = First(k)]

(* Variant: the gate is not checked again.                                  *)
RegisterUnchecked(k) ==
    LET r == discord.owner[k].at.arg
    IN  /\ discord.owner[k].at.type = "send"
        /\ discord' = [discord EXCEPT
               !.owner[k].at = NoMessage, !.owner[k].sends = @ \cup {r},
               !.owner[k].tasks = @ \cup {Message("post", r)},
               !.gate.inflight = @ \cup {r}]

(* register_send, and the call.  The adapter may have ended the account     *)
(* after the check.                                                         *)
Register(k) ==
    LET r == discord.owner[k].at.arg
        free == [discord EXCEPT !.owner[k].at = NoMessage]
    IN  /\ discord.owner[k].at.type = "send"
        /\ discord' =
             IF ~HasGate(discord, k) THEN Answer(free, {r})
             ELSE [free EXCEPT !.owner[k].sends = @ \cup {r},
                               !.owner[k].tasks = @ \cup {Message("post", r)},
                               !.gate.inflight = @ \cup {r}]

(* reload_done.  The list of the newest reload, while the session lives.    *)
ListDone(k) ==
    /\ Handles(k, "list")
    /\ discord' =
         IF First(k).arg # discord.owner[k].ticket \/ ~Publishes(discord.owner[k]) THEN Taken(k)
         ELSE CASE First(k).result = "ok" -> [Taken(k) EXCEPT !.owner[k].at = First(k)]
                [] First(k).result = "unauthorized" -> SettleUnauthorized(Taken(k), k)
                [] OTHER -> Taken(k)

(* publish_channels: no lock is held since the check.                       *)
PublishChannels(k) ==
    /\ discord.owner[k].at.type = "list"
    /\ discord' = [discord EXCEPT
           !.owner[k].at = NoMessage, !.owner[k].ready = TRUE, !.account = "linked",
           !.lateLinked = @ \/ discord.owner[k].retired]

(* history_done: a 401 drains the loads, the other results only show rows.  *)
HistoryDone(k) ==
    /\ Handles(k, "history")
    /\ discord' = IF First(k).result = "unauthorized"
                    THEN SettleUnauthorized(Taken(k), k) ELSE Taken(k)

(* send_done: the last send starts the seal, the end of a disconnect or of  *)
(* a shutdown.                                                              *)
SendDone(k) ==
    LET answered == AnswerSend(Taken(k), k, First(k).arg, First(k).result)
        sealed == IF ~Pending(answered) /\ answered.owner[k].unlink = "wait"
                    THEN StartSeal(answered, k) ELSE answered
        left == IF Pending(sealed) THEN sealed ELSE FinishDisconnect(sealed, k)
    IN  Handles(k, "post") /\ discord' = FinishShutdown(left, k)

SendWaitOver(k) ==
    /\ Handles(k, "sendWait")
    /\ discord' =
         IF discord.owner[k].unlink # "wait" THEN Taken(k)
         ELSE StartSeal(IF HasGate(discord, k) THEN RejectOpen(Taken(k), k) ELSE Taken(k), k)

(* Variant: a session that was replaced unlinks the one after it.           *)
SealAny(k) ==
    /\ Handles(k, "seal")
    /\ discord' = Unlink([Taken(k) EXCEPT !.owner[k].unlink = "none",
                                          !.owner[k].revoked = TRUE], k)

SealDone(k) ==
    LET revoked == [Taken(k) EXCEPT !.owner[k].unlink = "none", !.owner[k].revoked = TRUE]
    IN  /\ Handles(k, "seal")
        /\ discord' =
             IF discord.owner[k].retired \/ discord.owner[k].unlink # "seal" THEN Taken(k)
             ELSE IF HasGate(discord, k) THEN Unlink(revoked, k) ELSE revoked

Retire(k) ==
    LET successor == First(k).arg
        handed == HandOff(RetireOwner(Taken(k), k), successor)
        ended == IF successor = NoSession THEN BeginEnd(handed, k) ELSE handed
    IN  Handles(k, "retire") /\ discord' = [ended EXCEPT !.owner[k].hold = FALSE]

AccountSettle(k) ==
    LET end == discord.owner[k].end
        left == [Taken(k) EXCEPT !.owner[k].end = "none"]
    IN  /\ Handles(k, "settle")
        /\ discord' =
             CASE end = "none" -> left
               [] end = "stopped" -> Close(left, k)
               [] OTHER -> IF left.owner[k].shutdown THEN FinishShutdown(left, k)
                                                     ELSE EndAccount(left, k)

LeaveAccount(k) ==
    LET retired == RetireOwner(Taken(k), k)
        leaving == [retired EXCEPT !.owner[k].leaving = First(k).arg]
    IN  /\ Handles(k, "disconnect")
        /\ discord' =
             IF discord.active # First(k).arg THEN [retired EXCEPT !.owner[k].hold = FALSE]
             ELSE IF Pending(discord) THEN Spawn(leaving, k, Message("disconnectWait", 0))
             ELSE FinishDisconnect(leaving, k)

DisconnectWaitOver(k) ==
    Handles(k, "disconnectWait") /\ discord' = FinishDisconnect(Taken(k), k)

BeginShutdown(k) ==
    /\ Handles(k, "shutdown")
    /\ discord' = FinishShutdown(
                    Spawn([Taken(k) EXCEPT !.owner[k].shutdown = TRUE], k, Message("limit", 0)), k)

ShutdownLimit(k) == Handles(k, "limit") /\ discord' = Close(Taken(k), k)

(* A call answers, or a timer ends.                                         *)
TaskEnds(k) ==
    \E task \in discord.owner[k].tasks : \E result \in ResultsOf(task.type) :
      discord' = [Post(discord, k, [task EXCEPT !.result = result]) EXCEPT
                    !.owner[k].tasks = @ \ {task}]

SessionStep(k) ==
    \/ SkipMessage(k) \/ LoadList(k) \/ LoadHistory(k) \/ RefuseSend(k) \/ CheckSend(k)
    \/ Register(k) \/ ListDone(k) \/ PublishChannels(k) \/ HistoryDone(k) \/ SendDone(k)
    \/ SendWaitOver(k) \/ SealDone(k) \/ Retire(k) \/ AccountSettle(k)
    \/ LeaveAccount(k) \/ DisconnectWaitOver(k) \/ BeginShutdown(k)
    \/ ShutdownLimit(k) \/ TaskEnds(k)

-----------------------------------------------------------------------------
(* The adapter.                                                             *)
CallsLeft == discord.active + discord.loads + Len(discord.answers) < MaxCall

Free == discord.doing = "none" /\ ~discord.closed

(* Variant: the flag waits for the message.                                 *)
RetireLater(s, successor) ==
    IF s.session = NoSession THEN s
    ELSE [Post(s, s.session, Message("retire", successor)) EXCEPT !.session = NoSession]

(* Session::retire: the flag is set before it returns.                      *)
RetireSession(s, successor) ==
    IF s.session = NoSession THEN s
    ELSE [Post(s, s.session, Message("retire", successor)) EXCEPT
            !.owner[s.session].retired = TRUE, !.session = NoSession]

(* drop_if_revoked, before every command but a send.                        *)
Dropped ==
    LET k == discord.session
    IN  IF k = NoSession \/ ~discord.owner[k].revoked THEN discord
        ELSE [RetireSession(discord, NoSession) EXCEPT
                !.retiring = IF Pending(discord) THEN k ELSE @]

AdvanceActive(s) == [s EXCEPT !.active = @ + 1, !.leftBusy = FALSE]

(* A bot token is stored: Session::start.                                   *)
ConnectBot ==
    LET n == Len(discord.owner) + 1
        s == AdvanceActive(Dropped)
    IN  /\ Free /\ CallsLeft
        /\ discord' = [RetireSession([s EXCEPT !.owner = Append(@, StartedOwner(s.session))], n)
               EXCEPT !.session = n, !.retiring = NoSession,
                      !.gate.epoch = @ + 1, !.gate.open = TRUE,
                      !.account = "linking"]

(* The token is missing, is refused, or a user account was asked for.  The  *)
(* handle of the first one goes at once.                                    *)
ConnectNothing ==
    LET s == AdvanceActive(Dropped)
    IN  /\ Free /\ CallsLeft
        /\ \E kept \in {NoSession, s.session} :
             discord' = [RetireSession(s, NoSession) EXCEPT
                           !.handle = kept, !.doing = "unlink"]

Disconnect ==
    LET s == AdvanceActive(Dropped)
        k == s.session
    IN  /\ Free /\ CallsLeft
        /\ discord' =
             IF k = NoSession THEN [s EXCEPT !.doing = "unlink"]
             ELSE [Post(s, k, Message("disconnect", s.active)) EXCEPT
                     !.owner[k].retired = TRUE, !.session = NoSession]

(* Variant: the end does not wait for the sends.                            *)
UnlinkBusy ==
    /\ discord.doing = "unlink"
    /\ discord' = [discord EXCEPT !.doing = "none", !.handle = NoSession,
                     !.gate.open = FALSE, !.account = "unlinked"]

(* retire_without_successor keeps the handle of a busy owner, and           *)
(* unlink_if_idle ends an account that is idle.                             *)
UnlinkIfIdle ==
    /\ discord.doing = "unlink"
    /\ discord' =
         LET free == [discord EXCEPT !.doing = "none", !.handle = NoSession]
         IN  IF Pending(discord)
               THEN [free EXCEPT !.leftBusy = TRUE,
                       !.retiring = IF discord.handle = NoSession THEN @ ELSE discord.handle]
             ELSE IF discord.gate.open
               THEN [free EXCEPT !.gate.open = FALSE, !.account = "unlinked"]
             ELSE free

LoadChats ==
    /\ Free /\ CallsLeft /\ discord.loads < MaxLoad
    /\ discord' = LET s == [Dropped EXCEPT !.loads = @ + 1]
                  IN  IF s.session = NoSession THEN s ELSE Post(s, s.session, Message("reload", 0))

OpenChat ==
    /\ Free /\ CallsLeft /\ discord.loads < MaxLoad
    /\ discord' =
         LET s == [Dropped EXCEPT !.loads = @ + 1]
         IN  IF s.session = NoSession \/ (s.owner[s.session].unlink = "none"
                                           /\ ~s.owner[s.session].ready)
               THEN s ELSE Post(s, s.session, Message("open", s.loads))

(* An error of the adapter is the answer: the host rejects the send.        *)
Send ==
    LET r == Len(discord.answers) + 1
        k == discord.session
    IN  /\ Free /\ CallsLeft
        /\ discord' =
             IF k = NoSession \/ (Publishes(discord.owner[k]) /\ ~discord.owner[k].ready)
               THEN [discord EXCEPT !.answers = Append(@, 1)]
               ELSE Post([discord EXCEPT !.answers = Append(@, 0)], k, Message("send", r))

(* shutdown: the owner of the session or of `retiring` ends it; with none   *)
(* of them the gate answers every send (AccountSends::stop).                *)
ShutdownAdapter ==
    LET k == IF discord.session # NoSession THEN discord.session ELSE discord.retiring
    IN  /\ Free
        /\ discord' =
             IF k = NoSession
               THEN [Answer(discord, discord.gate.inflight) EXCEPT
                       !.gate.inflight = {}, !.gate.open = FALSE, !.gate.epoch = @ + 1,
                       !.stops = @ + 1, !.closed = TRUE]
               ELSE [Post(discord, k, Message("shutdown", 0)) EXCEPT
                       !.session = NoSession, !.retiring = NoSession,
                       !.closing = k, !.closed = TRUE]

(* The task of the owner ended: nothing can send to it.                     *)
Gone(k) ==
    /\ ~HasSender(discord, k) /\ discord.owner[k].queue = <<>>
    /\ discord.owner[k].at = NoMessage

(* Closing::wait: the owner is done, or it is gone.                         *)
ClosingEnds ==
    LET k == discord.closing
    IN  /\ k # NoSession /\ (discord.owner[k].done \/ Gone(k))
        /\ discord' = [EmitStoppedOnce(discord, k) EXCEPT !.closing = NoSession]

DiscordNext ==
    \/ ConnectBot \/ ConnectNothing \/ Disconnect \/ UnlinkIfIdle
    \/ LoadChats \/ OpenChat \/ Send \/ ShutdownAdapter \/ ClosingEnds
    \/ \E k \in Owners : SessionStep(k)

DiscordSpec == DiscordInit /\ [][DiscordNext]_discord

-----------------------------------------------------------------------------
(* Somebody will still answer the request: it waits at an owner, or it is   *)
(* in flight in an open account and its owner waits for the call.           *)
WillBeAnswered(r) ==
    \E k \in Owners :
      LET o == discord.owner[k]
      IN  \/ Message("send", r) \in Queued(discord, k) \cup {o.at} /\ ~o.closed
          \/ /\ discord.gate.open /\ r \in discord.gate.inflight /\ r \in o.sends
             /\ ~o.closed /\ r \in Unfinished(discord, k)

(* The owner that closes the app ended before its limit: it kept no sender  *)
(* for the timer, and a send of the session before is in flight: that one   *)
(* gets its result after Stopped.                                           *)
CloseLost == \E k \in Owners : discord.owner[k].shutdown /\ Gone(k)

(* Each send is answered exactly once: by its result, by the 401 step, by   *)
(* the end of the account or by the close, also when sessions replace each  *)
(* other while it is in flight.                                             *)
SendsAreAnswered ==
    \A r \in Requests :
      discord.answers[r] = 1 \/ (discord.answers[r] = 0 /\ WillBeAnswered(r))

(* An account that ended has no send in flight: they are answered before    *)
(* Unlinked and before Stopped (AccountSends).                              *)
EndIsAfterSends ==
    discord.account = "unlinked" \/ discord.stops > 0 => ~Pending(discord) \/ CloseLost

(* Nothing unlinks the account under a live session: an end that was armed  *)
(* by an older session, disconnect or 401 does not reach it (the epoch).    *)
LiveRowIsNotUnlinked ==
    LET k == discord.session
    IN  k # NoSession /\ ~discord.owner[k].revoked => discord.account # "unlinked"

(* Nobody will say anything any more.                                       *)
AtRest ==
    /\ discord.doing = "none" /\ discord.closing = NoSession
    /\ \A k \in Owners :
         discord.owner[k].queue = <<>> /\ discord.owner[k].tasks = {}
           /\ discord.owner[k].at = NoMessage

(* An account without a session ends as unlinked, and a live session says   *)
(* Linked only for its own list: the flags of an old session are set before *)
(* the adapter goes on.  The exceptions are an owner that was between the    *)
(* check and Linked, and an end that unlink_if_idle leaves to an owner      *)
(* (BusyOwnerUnlinks).                                                      *)
RowIsOfSession ==
    LET k == discord.session
    IN  \/ discord.lateLinked
        \/ IF k = NoSession
             THEN AtRest /\ ~discord.closed /\ ~discord.leftBusy
                    => discord.account = "unlinked"
             ELSE discord.account = "linked" => discord.owner[k].ready

(* The app hears Stopped once, and after every answer.                      *)
StoppedComes ==
    discord.stops <= 1 /\ (discord.closed /\ AtRest => discord.stops = 1)

(* The sends and the end of the account.                                    *)
DiscordSendsEnd == SendsAreAnswered /\ EndIsAfterSends /\ StoppedComes

(* The account row of Discord.                                              *)
DiscordRowTrue == LiveRowIsNotUnlinked /\ RowIsOfSession

(* What the app is told of its sends and of its account.                    *)
DiscordIsTold == DiscordSendsEnd /\ DiscordRowTrue

(* "Busy: a send is still in flight.  The owner answers it, then emits      *)
(* Unlinked" (IdleEnd).                                                     *)
BusyOwnerUnlinks ==
    discord.leftBusy /\ AtRest /\ ~discord.closed => discord.account = "unlinked"
=============================================================================
