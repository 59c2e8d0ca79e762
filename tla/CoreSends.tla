------------------------------ MODULE CoreSends ------------------------------
(***************************************************************************)
(* The texts that the user sends: the compose field and the drafts, the    *)
(* tracker of sends and retries (sends.rs), the rows of the open account,  *)
(* and the lines "Sending..." of Telegram (state.rs), against an adapter   *)
(* that answers late, in any order with the updates of its server, or      *)
(* never (telegram/tdlib.rs, discord/session.rs).                          *)
(*                                                                         *)
(* One account of one protocol; `Elsewhere` is a chat of another one.  A   *)
(* message is named by the request that made it and by its stage, since    *)
(* TDLib gives it a new id when it is sent or fails.  Texts have no blanks *)
(* around them.  Topics, files and replies are left out.                   *)
(*                                                                         *)
(* A pump expires, applies what arrived and forgets old answers.  An       *)
(* answer may arrive between any two pumps, so that each of the three is a *)
(* step; how old an entry is when it expires is left open.                 *)
(***************************************************************************)
EXTENDS Naturals, FiniteSets, Sequences, Filters

CONSTANTS
    Chat,
    Text,
    Protocol,   \* a subset of {"telegram", "discord"}
    Elsewhere,
    Blank,      \* no text
    NoRow,
    MaxRequest  \* bound: sends and retries of a run

ASSUME SendNames == Elsewhere \notin Chat /\ Blank \notin Text /\ Text # {}
ASSUME SendProtocols == Protocol \subseteq {"telegram", "discord"}
ASSUME SendBound == MaxRequest \in Nat

VARIABLES
    protocol, \* of the account
    core,     \* the shell
    calls,    \* commands that the adapter did not take yet
    flight,   \* messages that the server has: sent, but not confirmed
    answers   \* events that the shell did not apply yet

sendVars == <<protocol, core, calls, flight, answers>>

-----------------------------------------------------------------------------
(* Sends, rows and the state of the shell.                                 *)
Request == 1 .. MaxRequest
(* Message 0 failed before the run.                                        *)
Id == (0 .. MaxRequest) \X {"pending", "sent", "failed"}
ASSUME SendRows == NoRow \notin Id

(* A retry has a row and no text, a send a text and no row.                *)
Pending == [request : Request, chat : Chat, text : Text, row : {NoRow}]
           \cup [request : Request, chat : Chat, text : {Blank}, row : Id]
Row == [chat : Chat, id : Id, text : Text,
        delivery : {"pending", "sent", "failed"}]
Hold == [request : Request, chat : Chat, id : Id \cup {NoRow}]
Box == Text \cup {Blank}

Snapshot == [linked : BOOLEAN,
             selected : Chat \cup {Elsewhere},
             compose : Box,
             drafts : [Chat -> Box],
             next : 1 .. MaxRequest + 1,
             open : SUBSET Pending,       \* SendTracker::open
             expired : SUBSET Pending,    \* SendTracker::expired
             timedOut : SUBSET [request : Request, chat : Chat, retry : BOOLEAN],
             error : {"none", "timeouts", "failed"},
             rejected : [Chat -> [text : Box, row : Box]],
             rows : SUBSET Row,
             holds : Seq(Hold),           \* telegram_send_unconfirmed
             unbound : SUBSET [request : Request, chat : Chat, id : Id],
             late : SUBSET Request,       \* ghost: requests that expired
             forgotten : SUBSET Request]  \* ghost: of these, those pruned

NoReject == [text |-> Blank, row |-> Blank]

InChat(set, c) == {x \in set : x.chat = c}
RowOf(s, c, id) == {m \in s.rows : m.chat = c /\ m.id = id}
DeliveryOf(s, c, id) == {m.delivery : m \in RowOf(s, c, id)}
(* The unsent text of a chat: the compose field, or its draft.             *)
CurrentText(s, c) == IF s.selected = c THEN s.compose ELSE s.drafts[c]
Unanswered(s) == s.open \cup s.expired
Tracks(s, r) == \E p \in Unanswered(s) : p.request = r

-----------------------------------------------------------------------------
(* Texts.                                                                  *)
WithText(s, c, text) ==
    IF s.selected = c THEN [s EXCEPT !.compose = text]
    ELSE [s EXCEPT !.drafts[c] = text]

ClearSentText(s, c, text) ==
    [s EXCEPT !.compose = IF s.selected = c /\ @ = text THEN Blank ELSE @,
              !.drafts[c] = IF @ = text THEN Blank ELSE @]

DropRejectedBody(s, c) == [s EXCEPT !.rejected[c] = NoReject]

(* The list of the timed-out sends is the error, or there is none.         *)
ShowTimeouts(s) ==
    [s EXCEPT !.error = IF s.timedOut = {} THEN "none" ELSE "timeouts"]

-----------------------------------------------------------------------------
(* The lines "Sending..." of Telegram.                                     *)
EndHold(s, r) == [s EXCEPT !.holds = Those({h \in Hold : h.request # r}, @)]

BoundTo(s, id) == {i \in 1 .. Len(s.holds) : s.holds[i].id = id}
First(set) == CHOOSE i \in set : \A j \in set : i <= j

ReleaseForMessage(s, id) ==
    IF BoundTo(s, id) = {} THEN s
    ELSE EndHold(s, s.holds[First(BoundTo(s, id))].request)

PruneUnbound(s) == [s EXCEPT !.unbound = {u \in @ : Tracks(s, u.request)}]

HoldLine(s, c, r) ==
    LET mine == {u \in s.unbound : u.request = r /\ u.chat = c}
        id == IF mine = {} THEN NoRow ELSE (CHOOSE u \in mine : TRUE).id
    IN  IF protocol = "discord" THEN s
        ELSE [s EXCEPT !.unbound = @ \ mine,
                       !.holds = Append(@, [request |-> r, chat |-> c, id |-> id])]

(* Variant: the first row of a chat stays the row of its open send.        *)
NotePendingFirst(s, c, id) ==
    LET r == (CHOOSE p \in InChat(s.open, c) : TRUE).request
    IN  IF InChat(s.open, c) # {} /\ ~\E u \in s.unbound : u.request = r
        THEN [s EXCEPT !.unbound = @ \cup {[request |-> r, chat |-> c, id |-> id]}]
        ELSE s

(* A new pending row belongs to the open send of its chat, or to the only  *)
(* accepted one that has no row.                                           *)
NotePending(s, c, id) ==
    LET free == {i \in 1 .. Len(s.holds) :
                     s.holds[i].chat = c /\ s.holds[i].id = NoRow}
    IN  IF InChat(s.open, c) # {}
        THEN LET r == (CHOOSE p \in InChat(s.open, c) : TRUE).request
             IN  [s EXCEPT !.unbound = {u \in @ : u.request # r}
                                \cup {[request |-> r, chat |-> c, id |-> id]}]
        ELSE IF Cardinality(free) = 1
             THEN [s EXCEPT !.holds[First(free)].id = id]
             ELSE s

Names(s, id) == BoundTo(s, id) # {} \/ \E u \in s.unbound : u.id = id

Rebind(s, old, id) ==
    IF BoundTo(s, old) # {}
    THEN [s EXCEPT !.holds[First(BoundTo(s, old))].id = id]
    ELSE LET u == CHOOSE v \in s.unbound : v.id = old
         IN  [s EXCEPT !.unbound = (@ \ {u}) \cup {[u EXCEPT !.id = id]}]

Observe(s, m, old) ==
    IF protocol = "discord" THEN s
    ELSE IF m.delivery # "pending"
    THEN ReleaseForMessage(ReleaseForMessage(s, old), m.id)
    ELSE IF old # NoRow /\ Names(s, old) THEN Rebind(s, old, m.id)
    ELSE NotePending(s, m.chat, m.id)

-----------------------------------------------------------------------------
(* Rows.                                                                   *)

(* Variant: the failed text replaces what the user wrote.                  *)
NoteDeliveryOverwrites(s, before, m) ==
    IF m.delivery # "failed" \/ before # {"pending"} THEN s
    ELSE [WithText(ReleaseForMessage(s, m.id), m.chat, m.text)
             EXCEPT !.error = "failed"]

(* A row that was pending and failed gives its text back.                  *)
NoteDelivery(s, before, m) ==
    IF m.delivery # "failed" \/ before # {"pending"} THEN s
    ELSE LET released == ReleaseForMessage(s, m.id)
             filled == IF CurrentText(s, m.chat) = Blank
                       THEN WithText(released, m.chat, m.text)
                       ELSE released
         IN  [filled EXCEPT !.error = "failed"]

SetDelivery(s, c, id, delivery) ==
    IF RowOf(s, c, id) = {} THEN s
    ELSE LET m == CHOOSE x \in RowOf(s, c, id) : TRUE
             moved == [m EXCEPT !.delivery = delivery]
         IN  NoteDelivery([s EXCEPT !.rows = (@ \ {m}) \cup {moved}],
                          {m.delivery}, moved)

Upsert(s, m) == [s EXCEPT !.rows = (@ \ RowOf(s, m.chat, m.id)) \cup {m}]

Received(s, m) ==
    Upsert(Observe(NoteDelivery(s, DeliveryOf(s, m.chat, m.id), m), m, NoRow), m)

Replaced(s, old, m) ==
    LET noted == Observe(NoteDelivery(s, DeliveryOf(s, m.chat, old), m), m, old)
    IN  Upsert([noted EXCEPT !.rows = @ \ RowOf(s, m.chat, old)], m)

-----------------------------------------------------------------------------
(* Variant: an answer settles whatever is open in its chat.                *)
AskedOfChat(set, c, r) == InChat(set, c)

(* Answers of the adapter.                                                 *)
Asked(set, c, r) == {p \in set : p.chat = c /\ p.request = r}

(* Variant: a late accept leaves the retries of its row and the timeout    *)
(* error alone.                                                            *)
LateAcceptMarksOnly(s, c, r) ==
    LET late == Asked(s.expired, c, r)
        p == CHOOSE x \in late : TRUE
        settled == DropRejectedBody([s EXCEPT !.expired = @ \ late], c)
    IN  IF late = {} THEN s
        ELSE HoldLine(IF p.row = NoRow THEN ClearSentText(settled, c, p.text)
                      ELSE SetDelivery(settled, c, p.row, "sent"), c, r)

LateAccept(s, c, r) ==
    LET late == Asked(s.expired, c, r)
        p == CHOOSE x \in late : TRUE
        settled == DropRejectedBody([s EXCEPT !.expired = @ \ late], c)
        marked == SetDelivery(settled, c, p.row, "sent")
        taken == IF p.row = NoRow THEN ClearSentText(settled, c, p.text)
                 ELSE [marked EXCEPT !.open =
                          {q \in @ : ~(q.chat = c /\ q.row = p.row)}]
        listed == [taken EXCEPT !.timedOut =
                      {e \in @ : ~(e.chat = c /\ e.request = r)}]
        shown == IF taken.error = "timeouts" THEN ShowTimeouts(listed) ELSE listed
    IN  IF late = {} THEN s ELSE HoldLine(shown, c, r)

Accepted(s, c, r) ==
    LET mine == Asked(s.open, c, r)
        p == CHOOSE x \in mine : TRUE
        settled == DropRejectedBody([s EXCEPT !.open = @ \ mine], c)
        cleared == IF p.row = NoRow THEN ClearSentText(settled, c, p.text)
                   ELSE settled
    IN  IF mine = {} THEN LateAccept(s, c, r) ELSE HoldLine(cleared, c, r)

(* A rejected retry also keeps the text of its row for a session end.      *)
Rejected(s, c, r) ==
    LET mine == Asked(s.open, c, r)
        p == CHOOSE x \in mine : TRUE
        ended == EndHold(s, r)
        settled == [ended EXCEPT !.open = @ \ mine]
        failed == SetDelivery(settled, c, p.row, "failed")
        noted == IF p.row = NoRow
                 THEN [settled EXCEPT !.rejected[c].text = p.text]
                 ELSE [failed EXCEPT !.rejected[c].row =
                          IF RowOf(s, c, p.row) = {} THEN @
                          ELSE (CHOOSE m \in RowOf(s, c, p.row) : TRUE).text]
    IN  PruneUnbound(
            IF mine = {} THEN [ended EXCEPT !.expired = @ \ Asked(@, c, r)]
            ELSE [noted EXCEPT !.error = "failed"])

(* Variant: a retry that expires leaves its row alone.                     *)
ExpireKeepsRow(s, p) ==
    PruneUnbound(ShowTimeouts(
        [s EXCEPT !.open = @ \ {p}, !.expired = @ \cup {p},
                  !.late = @ \cup {p.request},
                  !.timedOut = (IF s.error = "timeouts" THEN @ ELSE {}) \cup
                     {[request |-> p.request, chat |-> p.chat,
                       retry |-> p.row # NoRow]}]))

(* Expired entries wait for a late answer.  A retry fails its row.         *)
Expire(s, p) ==
    LET moved == [s EXCEPT !.open = @ \ {p}, !.expired = @ \cup {p},
                           !.late = @ \cup {p.request},
                           !.timedOut = IF s.error = "timeouts" THEN @ ELSE {}]
        failed == SetDelivery(moved, p.chat, p.row, "failed")
    IN  PruneUnbound(ShowTimeouts(
            [failed EXCEPT !.timedOut = @ \cup
                {[request |-> p.request, chat |-> p.chat, retry |-> p.row # NoRow]}]))

-----------------------------------------------------------------------------
(* The end of a session drops its sends and its rows.  Telegram drops the  *)
(* texts as well; of another account each chat keeps, as its draft, the    *)
(* text of its newest unanswered send, else of its rejected one, unless    *)
(* the user wrote something else.                                          *)
TextOf(s, p) ==
    IF p.row = NoRow THEN p.text
    ELSE IF RowOf(s, p.chat, p.row) = {} THEN Blank
    ELSE (CHOOSE m \in RowOf(s, p.chat, p.row) : TRUE).text

RejectedToKeep(s, c) ==
    LET current == CurrentText(s, c)
        lost == s.rejected[c]
    IN  IF lost.text # Blank /\ current = lost.text THEN lost.text
        ELSE IF current = Blank \/ (lost.text = Blank /\ current = lost.row)
        THEN lost.row
        ELSE Blank

TextToKeep(s, c) ==
    LET waiting == {p \in InChat(Unanswered(s), c) :
                        /\ TextOf(s, p) # Blank
                        /\ CurrentText(s, c) \in {Blank, TextOf(s, p)}}
    IN  IF protocol = "telegram" THEN Blank
        ELSE IF waiting = {} THEN RejectedToKeep(s, c)
        ELSE TextOf(s, CHOOSE p \in waiting :
                           \A q \in waiting : q.request <= p.request)

EndSession(s) ==
    LET dropped == [s EXCEPT !.timedOut = {}]
        shown == IF s.error = "timeouts" THEN ShowTimeouts(dropped) ELSE dropped
    IN  [shown EXCEPT !.linked = FALSE,
                      !.drafts = [c \in Chat |-> TextToKeep(s, c)],
                      !.rejected = [c \in Chat |-> NoReject],
                      !.rows = {}, !.open = {}, !.expired = {},
                      !.holds = <<>>, !.unbound = {},
                      !.compose = Blank, !.selected = Elsewhere]

-----------------------------------------------------------------------------
(* Events.                                                                 *)
Message(m, stage) ==
    [chat |-> m.chat, id |-> <<m.request, stage>>, text |-> m.text,
     delivery |-> stage]

ReceivedEvent(m) == [type |-> "received", message |-> m]
ReplacedEvent(old, m) == [type |-> "replaced", old |-> old, message |-> m]
FailedEvent(c, id) == [type |-> "failed", chat |-> c, id |-> id]
AnswerEvent(type, p) == [type |-> type, chat |-> p.chat, request |-> p.request]
EndedEvent == [type |-> "ended"]

Apply(s, e) ==
    CASE e.type = "received" -> Received(s, e.message)
      [] e.type = "replaced" -> Replaced(s, e.old, e.message)
      [] e.type = "failed" -> LET set == SetDelivery(s, e.chat, e.id, "failed")
                              IN  IF protocol = "discord" THEN set
                                  ELSE ReleaseForMessage(set, e.id)
      [] e.type = "accepted" -> Accepted(s, e.chat, e.request)
      [] e.type = "rejected" -> Rejected(s, e.chat, e.request)
      [] e.type = "ended" -> EndSession(s)

-----------------------------------------------------------------------------
(* The user.                                                               *)
NewCall(p, text) == [request |-> p.request, chat |-> p.chat, text |-> text,
                     row |-> p.row]

Type(text) ==
    /\ core.selected # Elsewhere
    /\ core.compose # text
    /\ core' = [core EXCEPT !.compose = text]
    /\ UNCHANGED <<protocol, calls, flight, answers>>

Select(c) ==
    /\ core.linked
    /\ c # core.selected
    /\ core' = [core EXCEPT
                   !.selected = c,
                   !.compose = IF c = Elsewhere THEN Blank ELSE core.drafts[c],
                   !.drafts = [d \in Chat |->
                       IF d = core.selected /\ core.compose # Blank
                       THEN core.compose
                       ELSE IF d = c THEN Blank ELSE core.drafts[d]]]
    /\ UNCHANGED <<protocol, calls, flight, answers>>

(* Variant: a chat may have two sends.                                     *)
CanBeginTwice(c) == core.linked /\ core.next <= MaxRequest

CanBegin(c) == core.linked /\ InChat(core.open, c) = {} /\ core.next <= MaxRequest

SendCompose ==
    LET c == core.selected
        p == [request |-> core.next, chat |-> c, text |-> core.compose,
              row |-> NoRow]
    IN  /\ c # Elsewhere
        /\ core.compose # Blank
        /\ CanBegin(c)
        /\ core' = [core EXCEPT !.open = @ \cup {p}, !.next = @ + 1,
                                !.error = "none"]
        /\ calls' = Append(calls, NewCall(p, core.compose))
        /\ UNCHANGED <<protocol, flight, answers>>

RetrySend(m) ==
    LET p == [request |-> core.next, chat |-> m.chat, text |-> Blank,
              row |-> m.id]
    IN  /\ m.chat = core.selected
        /\ m.delivery = "failed"
        /\ CanBegin(m.chat)
        /\ core' = [core EXCEPT !.open = @ \cup {p}, !.next = @ + 1,
                                !.error = "none",
                                !.rows = (@ \ {m}) \cup
                                         {[m EXCEPT !.delivery = "pending"]},
                                !.compose = IF @ = m.text THEN Blank ELSE @]
        /\ calls' = Append(calls, NewCall(p, m.text))
        /\ UNCHANGED <<protocol, flight, answers>>

-----------------------------------------------------------------------------
(* The pump.                                                               *)
ApplyEvent ==
    /\ answers # <<>>
    /\ core' = Apply(core, Head(answers))
    /\ answers' = Tail(answers)
    /\ UNCHANGED <<protocol, calls, flight>>

ExpireSend(p) ==
    /\ core' = Expire(core, p)
    /\ UNCHANGED <<protocol, calls, flight, answers>>

ExpireHold(h) ==
    /\ core' = PruneUnbound([core EXCEPT !.holds = Those(Hold \ {h}, @)])
    /\ UNCHANGED <<protocol, calls, flight, answers>>

PruneExpired(p) ==
    /\ core' = PruneUnbound([core EXCEPT !.expired = @ \ {p},
                                          !.forgotten = @ \cup {p.request}])
    /\ UNCHANGED <<protocol, calls, flight, answers>>

-----------------------------------------------------------------------------
(* The adapter.  `flight.sent` are messages without a result, which        *)
(* Telegram announces with its own updates; `flight.resend` those that can *)
(* be sent again, with the text that the adapter keeps of them.            *)
Emit(events) == answers' = answers \o events
Take == calls # <<>> /\ calls' = Tail(calls) /\ UNCHANGED <<protocol, core>>

CanResend(p) == p.row = NoRow \/ \E m \in flight.resend : m.id = p.row

Sent(p, id) == [request |-> p.request, chat |-> p.chat, text |-> p.text,
                id |-> id, announced |-> FALSE]
Kept(m, id) == [chat |-> m.chat, id |-> id, text |-> m.text]

TelegramTakes ==
    LET p == Head(calls)
        row == Message(p, "pending")
    IN  /\ protocol = "telegram"
        /\ Take
        /\ flight.up
        /\ CanResend(p)
        /\ Emit(<<IF p.row = NoRow THEN ReceivedEvent(row)
                  ELSE ReplacedEvent(p.row, row),
                  AnswerEvent("accepted", p)>>)
        /\ flight' = [flight EXCEPT !.sent = @ \cup {Sent(p, row.id)},
                                    !.resend = {m \in @ : m.id # p.row}]

DiscordTakes ==
    LET p == Head(calls)
        row == Message(p, "pending")
    IN  /\ protocol = "discord"
        /\ Take
        /\ flight.up
        /\ CanResend(p)
        /\ IF p.row = NoRow
           THEN /\ Emit(<<ReceivedEvent(row)>>)
                /\ flight' = [flight EXCEPT
                                 !.sent = @ \cup {Sent(p, row.id)},
                                 !.resend = @ \cup {Kept(p, row.id)}]
           ELSE /\ flight' = [flight EXCEPT !.sent = @ \cup {Sent(p, p.row)}]
                /\ UNCHANGED answers

Refuse ==
    LET p == Head(calls)
    IN  /\ Take
        /\ Emit((IF p.row # NoRow /\ protocol = "telegram"
                 THEN <<FailedEvent(p.chat, p.row)>> ELSE <<>>)
                \o <<AnswerEvent("rejected", p)>>)
        /\ UNCHANGED flight

(* The update of a new message, or of the last message of its chat.        *)
Announce(m) ==
    /\ protocol = "telegram"
    /\ ~m.announced
    /\ Emit(<<ReceivedEvent(Message(m, "pending"))>>)
    /\ flight' = [flight EXCEPT !.sent =
                     (@ \ {m}) \cup {[m EXCEPT !.announced = TRUE]}]
    /\ UNCHANGED <<protocol, core, calls>>

Confirm(m) ==
    /\ Emit((IF protocol = "discord" THEN <<AnswerEvent("accepted", m)>> ELSE <<>>)
            \o <<ReplacedEvent(m.id, Message(m, "sent"))>>)
    /\ flight' = [flight EXCEPT !.sent = @ \ {m},
                                !.resend = {k \in @ : k.id # m.id}]
    /\ UNCHANGED <<protocol, core, calls>>

FailMessage(m) ==
    /\ IF protocol = "discord"
       THEN /\ Emit(<<FailedEvent(m.chat, m.id), AnswerEvent("rejected", m)>>)
            /\ flight' = [flight EXCEPT !.sent = @ \ {m}]
       ELSE /\ Emit(<<ReplacedEvent(m.id, Message(m, "failed"))>>)
            /\ flight' = [flight EXCEPT
                             !.sent = @ \ {m},
                             !.resend = @ \cup {Kept(m, <<m.request, "failed">>)}]
    /\ UNCHANGED <<protocol, core, calls>>

(* The worker of Telegram ends without an answer to what it did not take;  *)
(* the owner of Discord answers first what it sent.                        *)
End ==
    /\ flight.up
    /\ protocol = "discord" => flight.sent = {}
    /\ flight' = [up |-> FALSE, sent |-> {}, resend |-> {}]
    /\ calls' = IF protocol = "telegram" THEN <<>> ELSE calls
    /\ Emit(<<EndedEvent>>)
    /\ UNCHANGED <<protocol, core>>

-----------------------------------------------------------------------------
(* Texts differ in nothing but their name.                                 *)
Old(c) ==
    [chat |-> c, text |-> CHOOSE text \in Text : TRUE, delivery |-> "failed",
     id |-> <<0, IF protocol = "telegram" THEN "failed" ELSE "pending">>]

SendsInit ==
    /\ protocol \in Protocol
    /\ \E old \in {{}} \cup {{Old(c)} : c \in Chat} :
          /\ core = [linked |-> TRUE, selected |-> Elsewhere, compose |-> Blank,
                     drafts |-> [c \in Chat |-> Blank], next |-> 1,
                     open |-> {}, expired |-> {}, timedOut |-> {},
                     error |-> "none",
                     rejected |-> [c \in Chat |-> NoReject],
                     rows |-> old, holds |-> <<>>, unbound |-> {}, late |-> {},
                     forgotten |-> {}]
          /\ flight = [up |-> TRUE, sent |-> {},
                       resend |-> {Kept(m, m.id) : m \in old}]
    /\ calls = <<>>
    /\ answers = <<>>

UserStep ==
    \/ \E text \in Box : Type(text)
    \/ \E c \in Chat \cup {Elsewhere} : Select(c)
    \/ SendCompose
    \/ \E m \in core.rows : RetrySend(m)

PumpStep ==
    \/ ApplyEvent
    \/ \E p \in core.open : ExpireSend(p)
    \/ \E i \in 1 .. Len(core.holds) : ExpireHold(core.holds[i])
    \/ \E p \in core.expired : PruneExpired(p)

AdapterStep ==
    \/ TelegramTakes \/ DiscordTakes \/ Refuse \/ End
    \/ \E m \in flight.sent : Announce(m) \/ Confirm(m) \/ FailMessage(m)

SendsNext == UserStep \/ PumpStep \/ AdapterStep
SendsSpec == SendsInit /\ [][SendsNext]_sendVars

-----------------------------------------------------------------------------
SendsTypeOK ==
    /\ protocol \in {"telegram", "discord"}
    /\ core \in Snapshot
    /\ \A p, q \in Unanswered(core) :
          \/ p = q
          \/ p.request # q.request /\ (p.chat = q.chat => ~({p, q} \subseteq core.open))
    /\ \A i \in 1 .. Len(calls) : calls[i].request \in Request
    /\ \A m \in flight.sent : m.id \in Id /\ m.request < core.next
    /\ \A m \in flight.resend : m.id \in Id /\ m.text \in Text

-----------------------------------------------------------------------------
(* Properties of the texts.                                                *)

(* A text that the user left in a chat is taken from it only by an accept  *)
(* of a send of that text, or by the end of a session that keeps no text   *)
(* of this chat: of Telegram, or a text that the user did not send.        *)
Owed(s, c) ==
    \/ \E p \in InChat(Unanswered(s), c) : TextOf(s, p) = CurrentText(s, c)
    \/ CurrentText(s, c) = s.rejected[c].text
    \/ s.rejected[c].text = Blank /\ CurrentText(s, c) = s.rejected[c].row

AnswersText(c, text) ==
    /\ Head(answers).type = "accepted"
    /\ \E p \in InChat(Unanswered(core), c) :
          p.request = Head(answers).request /\ p.text = text

TextKept ==
    [][PumpStep => \A c \in Chat :
          \/ CurrentText(core, c) \in {Blank, CurrentText(core', c)}
          \/ answers' # answers /\ AnswersText(c, CurrentText(core, c))
          \/ ~core'.linked /\ (protocol = "telegram" \/ ~Owed(core, c))]_sendVars

(* A send or retry is open until its own answer, its timeout, a late       *)
(* accept that sent its row, or the end of the session; and a row that was *)
(* sent does not fail.                                                     *)
OwnAnswerEnds(p) ==
    \/ p \in core'.expired
    \/ ~core'.linked
    \/ /\ answers' # answers
       /\ Head(answers).type \in {"accepted", "rejected"}
       /\ \/ Head(answers).request = p.request
          \/ \E q \in core.expired :
                q.request = Head(answers).request /\ q.row = p.row /\ p.row # NoRow

SentStays ==
    \A m \in core.rows : m.delivery = "sent" =>
        \A n \in core'.rows : n.id = m.id => n.delivery = "sent"

SendsEndTrue ==
    [][SentStays /\ \A p \in core.open \ core'.open : OwnAnswerEnds(p)]_sendVars

(* A row is "Sending..." only while something will still move it.          *)
WillMove(id) ==
    \/ \E p \in core.open : p.row = id
    \/ \E m \in flight.sent : m.id = id
    \/ \E i \in 1 .. Len(answers) :
          \/ answers[i].type = "ended"
          \/ answers[i].type = "failed" /\ answers[i].id = id
          \/ answers[i].type = "replaced" /\ answers[i].old = id

SpinnerEnds == \A m \in core.rows : m.delivery = "pending" => WillMove(m.id)

(* The error says "not sent" of no message whose row is sent, unless its   *)
(* answer came when the send was forgotten.                                *)
NoFalseTimeout ==
    core.error = "timeouts" =>
        \A e \in core.timedOut : \A m \in core.rows :
            m.id # <<e.request, "sent">> \/ e.request \in core.forgotten

(* A line of Telegram waits for the message of its own send, and has it    *)
(* only while something will still end it; except beside a send that       *)
(* expired, whose message may come when another one is open.               *)
LineIsOwn ==
    \A i \in 1 .. Len(core.holds) :
        LET h == core.holds[i]
        IN  \/ h.id = NoRow
            \/ core.late # {}
            \/ h.id[1] = h.request /\ WillMove(h.id)

(* What the rows and the error say of a send, and what the shell still     *)
(* waits for, agree with what can still happen.                            *)
RowsAreTrue == SpinnerEnds /\ NoFalseTimeout /\ LineIsOwn
=============================================================================
