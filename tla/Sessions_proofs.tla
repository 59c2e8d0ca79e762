--------------------------- MODULE Sessions_proofs ---------------------------
(***************************************************************************)
(* Proofs about the WhatsApp link, for any number of commands and any      *)
(* length of the queue: two clients never hold the device store, however   *)
(* slowly the old ones stop, a close or a cancel ends them, and the store  *)
(* goes only without a client and never stays in use once it is revoked.   *)
(***************************************************************************)
EXTENDS WhatsAppLink, SessionCipher, FiniteSetTheorems, TLAPS

(* The messages, with numbers that no bound of a run limits.               *)
Message ==
    [type : {"begin", "retry", "resume", "cancel", "shutdown"}]
    \cup [type : {"client"}, link : Nat, event : ClientEvent]
    \cup [type : {"stopEnded"}, stop : Nat]

StartType == {"begin", "retry", "resume"}
AnswerType == {"client", "stopEnded"}
Waiting == {"stopOld", "stopNew", "stopEvent", "stopCancel", "stopShutdown"}
Starting == {"stopOld", "open", "start"}
Index(queue) == 1 .. Len(queue)

OwnerState ==
    [at : {"idle", "open", "start", "mark"} \cup Waiting,
     generation : Nat, bot : Nat, stale : BOOLEAN,
     stop : Nat, wait : Nat, stopping : Nat, pairing : BOOLEAN,
     resume : BOOLEAN, allowDelete : BOOLEAN, marked : BOOLEAN, ended : BOOLEAN]
RowState ==
    [account : {"unlinked", "linking", "linked"}, line : {"other", "pending", "retry"},
     stopped : BOOLEAN, late : BOOLEAN]
SessionState ==
    [generation : Nat, connected : BOOLEAN, stopped : BOOLEAN, closed : BOOLEAN]

Shapes ==
    /\ adapter \in [phase : {"open", "draining", "stopping", "answered", "closed"},
                    acknowledged : BOOLEAN, owned : BOOLEAN]
    /\ inbox \in Seq(Message)
    /\ link \in OwnerState
    /\ stops \subseteq [stop : Nat, client : Nat]
    /\ clients \subseteq Nat \ {0} /\ sends \subseteq Nat
    /\ session \in SessionState
    /\ shown \in RowState

(* A client is the bot of the owner or that of the one stop that runs.     *)
Held ==
    /\ \A c \in clients : c = link.bot \/ \E s \in stops : s.client = c
    /\ \A s, t \in stops : s = t
    /\ link.bot # 0 => stops = {}

(* The owner knows the stop that runs: it waits for it, or gave up waiting *)
(* and took its number down.                                               *)
Known ==
    \A s \in stops :
        /\ 0 < s.stop /\ s.stop <= link.stop
        /\ \/ link.ended
           \/ s.stop = link.stopping
           \/ s.stop = link.wait /\ link.at \in Waiting

(* What each wait of the owner knows.  A client starts only when no stop   *)
(* runs.                                                                   *)
AtWait ==
    /\ link.at \in Starting => link.generation # 0
    /\ link.at \in {"open", "start"} => stops = {}
    /\ link.at = "stopOld" => \A s \in stops : s.stop = link.wait
    /\ link.at \in Waiting \cup Starting => link.bot = 0
    /\ link.at = "mark" => link.bot # 0
    /\ link.ended => link.at = "idle" /\ link.bot = 0

(* A stop that says it ended does not run any more.                        *)
EndsAreTrue ==
    \A i \in Index(inbox) : inbox[i].type = "stopEnded" =>
        /\ 0 < inbox[i].stop /\ inbox[i].stop <= link.stop
        /\ \A s \in stops : s.stop # inbox[i].stop

ClientInv == Held /\ Known /\ AtWait /\ EndsAreTrue

(* Before the gate is accepted there is no owner.                          *)
NoOwner ==
    adapter.phase = "open" /\ ~adapter.owned =>
        /\ link = NewOwner /\ inbox = <<>> /\ stops = {} /\ clients = {}
        /\ ~session.connected /\ sends = {} /\ ~adapter.acknowledged

(* No command follows the shutdown in the queue of the owner.              *)
OnlyAnswers == \A i \in Index(inbox) : inbox[i].type \in AnswerType
ShutdownIsLast ==
    /\ adapter.phase \in {"open", "draining"} =>
         /\ link.at # "stopShutdown"
         /\ \A i \in Index(inbox) : inbox[i].type # "shutdown"
    /\ \A i, j \in Index(inbox) : i < j /\ inbox[i].type = "shutdown" =>
         inbox[j].type \in AnswerType
    /\ link.at = "stopShutdown" => OnlyAnswers

(* After its answer the owner is at rest, and stays there.                 *)
AtEnd ==
    /\ link.at = "idle" /\ link.bot = 0 /\ link.stopping = 0
    /\ stops = {} /\ clients = {} /\ OnlyAnswers
EndIsEnd ==
    /\ adapter.phase = "answered" \/ shown.stopped => AtEnd
    /\ shown.stopped => adapter.phase = "closed"
    /\ adapter.phase = "closed" => session.closed
    /\ ~shown.late

(* A cancel is on its way with no start behind it, or it came.             *)
CancelIsLast ==
    \E i \in Index(inbox) :
        /\ inbox[i].type = "cancel"
        /\ \A j \in Index(inbox) : i < j => inbox[j].type \notin StartType
Cancelling ==
    /\ \A i \in Index(inbox) : inbox[i].type \notin StartType
    /\ link.bot = 0 /\ link.at \notin Starting
CancelInv == adapter.phase = "open" /\ word = "cancel" => CancelIsLast \/ Cancelling

EndInv == NoOwner /\ ShutdownIsLast /\ EndIsEnd /\ CancelInv

LInv == Shapes /\ ClientInv /\ EndInv

-----------------------------------------------------------------------------
(* The queue.                                                              *)
Posts(m) == inbox' = Append(inbox, m)

Longer(m) ==
    /\ inbox' \in Seq(Message)
    /\ Index(inbox') = Index(inbox) \cup {Len(inbox) + 1}
    /\ Len(inbox) + 1 \notin Index(inbox) /\ Len(inbox) + 1 \in Nat
    /\ \A i \in Index(inbox) : i \in Nat /\ i < Len(inbox) + 1 /\ inbox'[i] = inbox[i]
    /\ inbox'[Len(inbox) + 1] = m

LEMMA Appended ==
  ASSUME inbox \in Seq(Message), NEW m \in Message, Posts(m)
  PROVE  Longer(m)
BY DEF Index, Posts, Longer

(* The first message was taken.                                            *)
Shorter ==
    /\ inbox' \in Seq(Message)
    /\ 1 \in Index(inbox) /\ Head(inbox) = inbox[1] /\ Head(inbox) \in Message
    /\ \A i \in Index(inbox') :
          i \in Nat /\ i + 1 \in Index(inbox) /\ 1 < i + 1 /\ inbox'[i] = inbox[i + 1]
    /\ \A i \in Index(inbox) :
          i \in Nat /\ (i = 1 \/ (i - 1 \in Index(inbox') /\ inbox'[i - 1] = inbox[i]))

LEMMA Taken ==
  ASSUME inbox \in Seq(Message), inbox # <<>>, inbox' = Tail(inbox)
  PROVE  Shorter
BY DEF Index, Shorter

LEMMA EmptyQueue ==
  /\ <<>> \in Seq(Message)
  /\ Index(<<>>) = {}
BY DEF Index

-----------------------------------------------------------------------------
(* Every step starts from no owner, or from the end of the process.        *)
LEMMA InitHolds == LinkInit => LInv
<1>. SUFFICES ASSUME LinkInit PROVE LInv
  OBVIOUS
<1>1. Shapes
  BY EmptyQueue DEF LinkInit, Shapes, OwnerState, RowState, SessionState, NewAdapter, NewOwner, NewSession, NewRow, Waiting
<1>2. ClientInv
  BY EmptyQueue DEF LinkInit, ClientInv, Held, Known, AtWait, EndsAreTrue, NewOwner, Waiting,
     Starting
<1>3. EndInv
  BY EmptyQueue DEF LinkInit, EndInv, NoOwner, ShutdownIsLast, EndIsEnd, CancelInv, NewOwner,
     NewAdapter, NewSession, NewRow, Waiting
<1>. QED BY <1>1, <1>2, <1>3 DEF LInv

LEMMA RestartHolds == Restart => LInv'
<1>. SUFFICES ASSUME Restart PROVE LInv'
  OBVIOUS
<1>1. Shapes'
  BY EmptyQueue DEF Restart, Shapes, OwnerState, RowState, SessionState, NewAdapter, NewOwner, NewSession, NewRow, Waiting
<1>2. ClientInv'
  BY EmptyQueue DEF Restart, ClientInv, Held, Known, AtWait, EndsAreTrue, NewOwner, Waiting,
     Starting
<1>3. EndInv'
  BY EmptyQueue DEF Restart, EndInv, NoOwner, ShutdownIsLast, EndIsEnd, CancelInv, NewOwner,
     NewAdapter, NewSession, NewRow, Waiting
<1>. QED BY <1>1, <1>2, <1>3 DEF LInv

-----------------------------------------------------------------------------
(* Steps that do not touch the owner, its clients or its stops.            *)
LEMMA OthersKeep ==
  ASSUME Shapes, ClientInv, UNCHANGED <<link, stops, clients>>,
         NEW m \in Message, m.type # "stopEnded", UNCHANGED inbox \/ Posts(m)
  PROVE  ClientInv'
<1>1. Held' /\ Known' /\ AtWait' BY DEF ClientInv, Held, Known, AtWait
<1>2. EndsAreTrue'
  <2>1. CASE UNCHANGED inbox BY <2>1 DEF ClientInv, EndsAreTrue, Index
  <2>2. CASE Posts(m)
    <3>1. Longer(m) BY <2>2, Appended DEF Shapes
    <3>. QED BY <3>1 DEF ClientInv, EndsAreTrue, Longer
  <2>. QED BY <2>1, <2>2
<1>. QED BY <1>1, <1>2 DEF ClientInv

-----------------------------------------------------------------------------
(* Steps of the owner.  What they share: the queue stays or loses its      *)
(* first message, and the adapter does nothing.                            *)
Queue == UNCHANGED inbox \/ Shorter

LEMMA EndsStay ==
  ASSUME Shapes, EndsAreTrue, Queue, link'.stop \in Nat, link'.stop >= link.stop,
         \A s \in stops' : s \in stops \/ s.stop = link.stop + 1
  PROVE  EndsAreTrue'
<1>. SUFFICES ASSUME NEW i \in Index(inbox'), inbox'[i].type = "stopEnded"
              PROVE  /\ 0 < inbox'[i].stop /\ inbox'[i].stop <= link'.stop
                     /\ \A s \in stops' : s.stop # inbox'[i].stop
  BY DEF EndsAreTrue
<1>1. PICK j \in Index(inbox) : inbox'[i] = inbox[j] /\ inbox[j] \in Message
  <2>1. \A j \in Index(inbox) : inbox[j] \in Message BY DEF Shapes, Index
  <2>. QED BY <2>1 DEF Queue, Shorter, Index
<1>2. inbox[j].stop \in Nat BY <1>1 DEF Message
<1>3. 0 < inbox[j].stop /\ inbox[j].stop <= link.stop /\ \A s \in stops : s.stop # inbox[j].stop
  BY <1>1 DEF EndsAreTrue
<1>4. link.stop \in Nat BY DEF Shapes, OwnerState
<1>. QED BY <1>1, <1>2, <1>3, <1>4

Active ==
    /\ ~(adapter.phase = "open" /\ ~adapter.owned)
    /\ ~(adapter.phase = "answered" \/ shown.stopped)

(* A cancel that is not the message taken stays the last command.          *)
LEMMA CancelStaysLast ==
  ASSUME Shorter, NEW i \in Index(inbox), i # 1, inbox[i].type = "cancel",
         \A j \in Index(inbox) : i < j => inbox[j].type \notin StartType
  PROVE  CancelIsLast'
<1>1. i - 1 \in Index(inbox') /\ inbox'[i - 1].type = "cancel" BY DEF Shorter
<1>2. ASSUME NEW j \in Index(inbox'), i - 1 < j
      PROVE  inbox'[j].type \notin StartType
  <2>1. j + 1 \in Index(inbox) /\ inbox'[j] = inbox[j + 1] /\ j \in Nat /\ i \in Nat
    BY DEF Shorter
  <2>2. i < j + 1 BY <1>2, <2>1
  <2>. QED BY <2>1, <2>2
<1>. QED BY <1>1, <1>2 DEF CancelIsLast

LEMMA ShutdownStaysLast ==
  ASSUME EndInv, Queue, UNCHANGED adapter, link'.at # "stopShutdown"
  PROVE  ShutdownIsLast'
<1>1. CASE UNCHANGED inbox BY <1>1 DEF EndInv, ShutdownIsLast, Index
<1>2. CASE Shorter
  <2>1. \A i \in Index(inbox') : i + 1 \in Index(inbox) /\ inbox'[i] = inbox[i + 1]
    BY <1>2 DEF Shorter
  <2>2. ASSUME NEW i \in Index(inbox'), NEW j \in Index(inbox'), i < j,
               inbox'[i].type = "shutdown"
        PROVE  inbox'[j].type \in AnswerType
    <3>1. i + 1 < j + 1 BY <1>2, <2>2 DEF Shorter
    <3>. QED BY <2>1, <2>2, <3>1 DEF EndInv, ShutdownIsLast
  <2>. QED BY <2>1, <2>2 DEF EndInv, ShutdownIsLast
<1>. QED BY <1>1, <1>2 DEF Queue

LEMMA OwnerKeepsEnd ==
  ASSUME Shapes, EndInv, Active, UNCHANGED <<adapter, word>>,
         UNCHANGED inbox \/ (Shorter /\ inbox[1].type # "cancel"),
         link'.at # "stopShutdown", session'.closed = session.closed,
         ~shown'.stopped, ~shown'.late,
         Cancelling => link'.bot = 0 /\ link'.at \notin Starting
  PROVE  EndInv'
<1>1. NoOwner' BY DEF Active, NoOwner
<1>2. ShutdownIsLast' BY ShutdownStaysLast DEF Queue
<1>3. EndIsEnd' BY DEF Active, EndInv, EndIsEnd
<1>4. CancelInv'
  <2>1. CASE UNCHANGED inbox
    BY <2>1 DEF EndInv, CancelInv, CancelIsLast, Cancelling, Index
  <2>2. CASE Shorter /\ inbox[1].type # "cancel"
    <3>1. Cancelling => Cancelling' BY <2>2 DEF Cancelling, Shorter
    <3>2. ASSUME CancelIsLast PROVE CancelIsLast'
      <4>1. PICK i \in Index(inbox) :
               /\ inbox[i].type = "cancel"
               /\ \A j \in Index(inbox) : i < j => inbox[j].type \notin StartType
        BY <3>2 DEF CancelIsLast
      <4>. QED BY <2>2, <4>1, CancelStaysLast DEF Shorter
    <3>. QED BY <3>1, <3>2 DEF EndInv, CancelInv
  <2>. QED BY <2>1, <2>2
<1>. QED BY <1>1, <1>2, <1>3, <1>4 DEF EndInv

(* A message of the user or of the adapter is taken by an active owner.    *)
LEMMA TakesActive ==
  ASSUME LInv, NEW type, OwnerTakes(type)
  PROVE  /\ Shorter /\ Queue /\ inbox[1].type = type /\ Head(inbox) = inbox[1]
         /\ UNCHANGED <<adapter, word, sends>>
         /\ link.at = "idle" /\ ~link.ended
         /\ type \notin AnswerType => Active
         /\ adapter.phase = "open" => adapter.owned
         /\ type \in StartType => ~Cancelling
<1>1. Shorter BY Taken DEF LInv, Shapes, OwnerTakes
<1>2. inbox[1].type = type /\ Head(inbox) = inbox[1] /\ 1 \in Index(inbox)
  BY <1>1 DEF Shorter, OwnerTakes
<1>3. adapter.phase = "open" => adapter.owned
  BY DEF LInv, EndInv, NoOwner, OwnerTakes, Shapes
<1>4. type \notin AnswerType => Active
  BY <1>2, <1>3 DEF LInv, EndInv, EndIsEnd, AtEnd, OnlyAnswers, Active
<1>5. type \in StartType => ~Cancelling BY <1>2 DEF Cancelling
<1>. QED BY <1>1, <1>2, <1>3, <1>4, <1>5 DEF OwnerTakes, Queue

(* The client of the owner stops on a task of its own: it is the only one, *)
(* and it has a number of its own.                                         *)
LEMMA StopBotSets ==
  ASSUME NEW holder \in OwnerState, NEW at \in {"idle"} \cup Waiting, StopBot(holder, at)
  PROVE  /\ link' \in OwnerState /\ link'.at = at /\ link'.stop = holder.stop + 1
         /\ link'.wait = holder.stop + 1 /\ link'.bot = 0 /\ link'.ended = holder.ended
         /\ link'.generation = holder.generation
<1> DEFINE stopping == [holder EXCEPT !.at = at, !.stop = holder.stop + 1]
<1>1. link' = [stopping EXCEPT !.wait = holder.stop + 1, !.bot = 0] BY DEF StopBot
<1>5. at \in {"idle", "open", "start", "mark"} \cup Waiting /\ holder.stop + 1 \in Nat
  BY DEF OwnerState
<1>2. stopping \in OwnerState BY <1>5 DEF OwnerState
<1>3. /\ stopping.at = at /\ stopping.stop = holder.stop + 1
      /\ stopping.ended = holder.ended /\ stopping.generation = holder.generation
      /\ holder.stop + 1 \in Nat
  BY DEF OwnerState
<1> HIDE DEF stopping
<1>4. link' \in OwnerState BY <1>1, <1>2, <1>3 DEF OwnerState
<1>. QED BY <1>1, <1>2, <1>3, <1>4 DEF OwnerState

LEMMA StopBotKeeps ==
  ASSUME LInv, Queue, UNCHANGED clients, NEW holder \in OwnerState,
         NEW at \in {"idle"} \cup Waiting, StopBot(holder, at),
         holder.bot = link.bot, holder.stop = link.stop, link.bot # 0,
         at = "idle" <=> holder.ended, at = "stopOld" => holder.generation # 0
  PROVE  ClientInv' /\ stops' \subseteq [stop : Nat, client : Nat] /\ link' \in OwnerState
<1>0. link.stop \in Nat /\ link.bot \in Nat BY DEF LInv, Shapes, OwnerState
<1>1. stops = {} /\ stops' = {[stop |-> link.stop + 1, client |-> link.bot]}
  BY DEF LInv, ClientInv, Held, StopBot
<1>2. /\ link' \in OwnerState /\ link'.at = at /\ link'.stop = link.stop + 1
      /\ link'.wait = link.stop + 1 /\ link'.bot = 0 /\ link'.ended = holder.ended
      /\ link'.generation = holder.generation
  BY StopBotSets
<1>3. Held' BY <1>1, <1>2 DEF LInv, ClientInv, Held
<1>4. Known' BY <1>0, <1>1, <1>2 DEF Known, Waiting
<1>5. AtWait' BY <1>1, <1>2 DEF AtWait, Waiting, Starting
<1>6. EndsAreTrue' BY <1>0, <1>1, <1>2, EndsStay DEF LInv, ClientInv
<1>. QED BY <1>0, <1>1, <1>2, <1>3, <1>4, <1>5, <1>6 DEF ClientInv

LEMMA ShowKeeps ==
  ASSUME shown \in RowState, NEW account \in {"unlinked", "linking", "linked"},
         NEW line \in {"other", "pending", "retry"}, Show(account, line)
  PROVE  /\ shown' \in RowState /\ shown'.stopped = shown.stopped
         /\ shown'.late = (shown.late \/ shown.stopped)
BY DEF Show, RowState

LEMMA NothingRuns ==
  ASSUME LInv, link.at = "idle" \/ (link.at \in Waiting /\ InTime), ~link.ended, ~StillStopping
  PROVE  stops = {} /\ (link.bot = 0 => clients = {})
<1>1. ASSUME NEW s \in stops PROVE FALSE
  <2>1. s.stop # 0 /\ Running(s.stop) BY DEF LInv, Shapes, ClientInv, Known, Running
  <2>2. s.stop = link.stopping \/ (s.stop = link.wait /\ link.at \in Waiting)
    BY DEF LInv, ClientInv, Known
  <2>. QED BY <2>1, <2>2 DEF Waiting, StillStopping, InTime
<1>2. stops = {} BY <1>1
<1>. QED BY <1>2 DEF LInv, Shapes, ClientInv, Held

(* The start of a link.                                                    *)
LEMMA StartKeeps ==
  ASSUME LInv, NEW type \in StartType, OwnerTakes(type), NEW allowDelete \in BOOLEAN,
         NEW resume \in BOOLEAN, StartLink(allowDelete, resume),
         UNCHANGED <<clients, session>>
  PROVE  LInv'
<1> DEFINE holder == [link EXCEPT !.generation = @ + 1, !.pairing = TRUE, !.resume = resume,
                                 !.allowDelete = allowDelete, !.stopping = Stopping]
<1>1. /\ Shorter /\ Queue /\ inbox[1].type = type /\ UNCHANGED <<adapter, word, sends>>
      /\ link.at = "idle" /\ ~link.ended /\ Active /\ ~Cancelling
  BY TakesActive DEF StartType, AnswerType
<1>0. link \in OwnerState /\ Stopping \in Nat BY DEF LInv, Shapes, OwnerState, Stopping
<1>2. /\ link \in OwnerState /\ holder \in OwnerState /\ holder.stop = link.stop
      /\ holder.bot = link.bot /\ holder.at = link.at /\ holder.ended = link.ended
      /\ holder.generation # 0 /\ holder.wait = link.wait /\ holder.stopping = Stopping
  <2> DEFINE asked == [link EXCEPT !.generation = @ + 1, !.pairing = TRUE, !.resume = resume]
  <2>1. /\ asked \in OwnerState /\ asked.stop = link.stop /\ asked.bot = link.bot
        /\ asked.at = link.at /\ asked.ended = link.ended /\ asked.wait = link.wait
        /\ asked.generation # 0
    <3> DEFINE next == [link EXCEPT !.generation = @ + 1]
    <3>1. /\ next \in OwnerState /\ next.stop = link.stop /\ next.bot = link.bot
          /\ next.at = link.at /\ next.ended = link.ended /\ next.wait = link.wait
          /\ next.generation # 0
      BY <1>0 DEF OwnerState
    <3>2. asked = [next EXCEPT !.pairing = TRUE, !.resume = resume] OBVIOUS
    <3> HIDE DEF next, asked
    <3>3. asked \in OwnerState BY <3>1, <3>2 DEF OwnerState
    <3>. QED BY <3>1, <3>2, <3>3 DEF OwnerState
  <2>2. holder = [asked EXCEPT !.allowDelete = allowDelete, !.stopping = Stopping]
    OBVIOUS
  <2> HIDE DEF asked, holder
  <2>3. holder \in OwnerState BY <1>0, <2>1, <2>2 DEF OwnerState
  <2>. QED BY <1>0, <2>1, <2>2, <2>3 DEF OwnerState
<1>3. /\ UNCHANGED shown \/ Show("unlinked", "other")
      /\ StillStopping => link' = holder /\ UNCHANGED stops
      /\ ~StillStopping /\ link.bot # 0 => StopBot(holder, "stopOld")
      /\ ~StillStopping /\ link.bot = 0 =>
           link' = [holder EXCEPT !.at = "open"] /\ UNCHANGED stops
  BY DEF StartLink
<1> HIDE DEF holder
<1>4. shown' \in RowState /\ ~shown'.stopped /\ ~shown'.late
  BY <1>1, <1>3, ShowKeeps DEF LInv, Shapes, EndInv, EndIsEnd, Active
<1>5. ClientInv' /\ link' \in OwnerState /\ stops' \subseteq [stop : Nat, client : Nat]
        /\ link'.at # "stopShutdown"
  <2>1. CASE StillStopping
    <3>1. link' = holder /\ UNCHANGED stops /\ holder.stopping = link.stopping
      BY <1>2, <1>3, <2>1 DEF Stopping
    <3>2. Held' /\ Known' /\ AtWait'
      BY <1>1, <1>2, <3>1 DEF LInv, ClientInv, Held, Known, AtWait, Waiting, Starting
    <3>3. EndsAreTrue' BY <1>1, <1>2, <3>1, EndsStay DEF LInv, ClientInv, OwnerState
    <3>. QED BY <1>1, <1>2, <3>1, <3>2, <3>3 DEF ClientInv, LInv, Shapes
  <2>2. CASE ~StillStopping /\ link.bot # 0
    <3>1. StopBot(holder, "stopOld") BY <1>3, <2>2
    <3>2. link'.at # "stopShutdown" BY <1>2, <3>1, StopBotSets DEF Waiting
    <3>. QED BY <1>1, <1>2, <2>2, <3>1, <3>2, StopBotKeeps DEF Waiting
  <2>3. CASE ~StillStopping /\ link.bot = 0
    <3>1. link' = [holder EXCEPT !.at = "open"] /\ UNCHANGED stops BY <1>3, <2>3
    <3>2. stops = {} /\ clients = {} BY <1>1, <2>3, NothingRuns
    <3>3. /\ link' \in OwnerState /\ link'.at = "open" /\ link'.stop = link.stop
          /\ link'.bot = 0 /\ link'.ended = link.ended /\ link'.generation # 0
      BY <1>2, <2>3, <3>1 DEF OwnerState, Waiting
    <3>4. Held' /\ Known' /\ AtWait'
      BY <1>1, <3>1, <3>2, <3>3 DEF Held, Known, AtWait, Waiting, Starting
    <3>5. EndsAreTrue'
      BY <1>1, <1>2, <3>1, <3>3, EndsStay DEF LInv, ClientInv, OwnerState
    <3>. QED BY <3>1, <3>2, <3>3, <3>4, <3>5 DEF ClientInv
  <2>. QED BY <2>1, <2>2, <2>3
<1>6. EndInv' BY <1>1, <1>4, <1>5, OwnerKeepsEnd DEF LInv, StartType
<1>7. Shapes' BY <1>1, <1>4, <1>5 DEF LInv, Shapes, Shorter
<1>. QED BY <1>5, <1>6, <1>7 DEF LInv

-----------------------------------------------------------------------------
(* Steps that leave the client and the stop as they are.                   *)
LEMMA ActsActive ==
  ASSUME LInv, NEW at, at # "idle", OwnerAt(at)
  PROVE  /\ UNCHANGED <<adapter, inbox, sends, word>> /\ Queue
         /\ link.at = at /\ ~link.ended /\ Active
BY DEF LInv, EndInv, NoOwner, NewOwner, EndIsEnd, AtEnd, ClientInv, AtWait, OwnerAt, Active, Queue

Row ==
    \/ UNCHANGED shown
    \/ \E account \in {"unlinked", "linking", "linked"}, line \in {"other", "pending", "retry"} :
          Show(account, line)

LEMMA RowKeeps ==
  ASSUME LInv, Active, Row
  PROVE  shown' \in RowState /\ ~shown'.stopped /\ ~shown'.late
BY ShowKeeps DEF LInv, Shapes, EndInv, EndIsEnd, Active, Row

LEMMA LineInRow ==
  ASSUME LInv, NEW line \in {"other", "pending", "retry"}, ShowLine(line)
  PROVE  Row
BY DEF LInv, Shapes, RowState, ShowLine, Row

LEMMA MoveKeeps ==
  ASSUME LInv, Active, Row, ~link.ended, UNCHANGED <<adapter, word, sends, stops, clients>>,
         UNCHANGED inbox \/ (Shorter /\ inbox[1].type # "cancel"),
         link' \in OwnerState, link'.stop = link.stop, link'.bot = link.bot,
         link'.ended = link.ended, link.at # "stopShutdown", link'.at # "stopShutdown",
         session' \in SessionState, session'.closed = session.closed,
         \A s \in stops : s.stop = link'.stopping \/ (s.stop = link'.wait /\ link'.at \in Waiting),
         AtWait', link'.at \in Starting => link.at \in Starting
  PROVE  LInv'
<1>1. shown' \in RowState /\ ~shown'.stopped /\ ~shown'.late BY RowKeeps
<1>2. Held' /\ Known' BY DEF LInv, ClientInv, Held, Known
<1>3. EndsAreTrue'
  <2>1. Queue /\ link'.stop \in Nat /\ link'.stop >= link.stop
    BY DEF LInv, Shapes, OwnerState, Queue
  <2>. QED BY <2>1, EndsStay DEF LInv, ClientInv
<1>4. EndInv' BY <1>1, OwnerKeepsEnd DEF LInv, Cancelling
<1>5. Shapes' BY <1>1 DEF LInv, Shapes, Shorter
<1>. QED BY <1>2, <1>3, <1>4, <1>5 DEF LInv, ClientInv

(* A wait of the owner ends: in time, or the stop goes on under its number. *)
LEMMA WaitEnds ==
  ASSUME LInv, Row, NEW at \in Waiting, at # "stopShutdown", OwnerAt(at),
         UNCHANGED <<stops, clients, session>>,
         link' \in OwnerState, link'.at = "idle", link'.stop = link.stop,
         link'.bot = link.bot, link'.ended = link.ended,
         link'.stopping = IF InTime THEN link.stopping ELSE link.wait
  PROVE  LInv'
<1>1. /\ UNCHANGED <<adapter, inbox, sends, word>> /\ link.at = at /\ ~link.ended /\ Active
      /\ link.bot = 0 /\ session \in SessionState
  BY ActsActive DEF LInv, Shapes, ClientInv, AtWait, Waiting
<1>2. ASSUME NEW s \in stops PROVE s.stop = link'.stopping
  <2>1. s.stop = link.stopping \/ s.stop = link.wait BY <1>1 DEF LInv, ClientInv, Known
  <2>2. CASE InTime BY <2>1, <2>2 DEF InTime, Running
  <2>3. CASE ~InTime BY <2>3 DEF InTime, Running, LInv, ClientInv, Held
  <2>. QED BY <2>2, <2>3
<1>3. AtWait' BY <1>1 DEF AtWait, Waiting, Starting
<1>. QED BY <1>1, <1>2, <1>3, MoveKeeps DEF Starting

LEMMA OldStoppedKeeps == LInv /\ OldStopped => LInv'
<1>. SUFFICES ASSUME LInv, OldStopped PROVE LInv'
  OBVIOUS
<1>1. /\ UNCHANGED <<adapter, inbox, sends, word, stops, clients, session>>
      /\ link.at = "stopOld" /\ ~link.ended /\ Active /\ link \in OwnerState
      /\ session \in SessionState /\ link.bot = 0 /\ link.generation # 0
      /\ \A s \in stops : s.stop = link.wait
  BY ActsActive DEF OldStopped, LInv, Shapes, ClientInv, AtWait, Waiting, Starting
<1>2. Row BY DEF OldStopped, Row
<1>3. CASE InTime /\ link' = [link EXCEPT !.at = "open"]
  <2>1. /\ link' \in OwnerState /\ link'.at = "open" /\ link'.stop = link.stop
        /\ link'.bot = link.bot /\ link'.ended = link.ended
        /\ link'.generation = link.generation
    BY <1>1, <1>3 DEF OwnerState, Waiting
  <2>2. stops = {} BY <1>1, <1>3 DEF InTime, Running
  <2>3. AtWait' BY <1>1, <2>1, <2>2 DEF AtWait, Waiting, Starting
  <2>. QED BY <1>1, <1>2, <2>1, <2>2, <2>3, MoveKeeps DEF Starting
<1>4. CASE TooSlow /\ link' = [Waited(link) EXCEPT !.at = "idle"]
  <2>1. link' = [link EXCEPT !.stopping = link.wait, !.at = "idle"]
    BY <1>4 DEF Waited, InTime, TooSlow
  <2>2. /\ link' \in OwnerState /\ link'.at = "idle" /\ link'.stop = link.stop
        /\ link'.bot = link.bot /\ link'.ended = link.ended /\ link'.stopping = link.wait
    BY <1>1, <2>1 DEF OwnerState
  <2>3. ~InTime BY <1>4 DEF InTime, TooSlow
  <2>. QED BY <1>1, <1>2, <2>2, <2>3, WaitEnds DEF Waiting, OldStopped
<1>. QED BY <1>3, <1>4 DEF OldStopped

LEMMA OpenLinkKeeps == LInv /\ OpenLink => LInv'
<1>. SUFFICES ASSUME LInv, OpenLink PROVE LInv'
  OBVIOUS
<1>1. /\ UNCHANGED <<adapter, inbox, sends, word, stops, clients>>
      /\ link.at = "open" /\ ~link.ended /\ Active /\ link \in OwnerState
      /\ session \in SessionState /\ link.bot = 0 /\ link.generation # 0 /\ stops = {}
      /\ link.generation \in Nat
  BY ActsActive DEF OpenLink, LInv, Shapes, ClientInv, AtWait, Waiting, Starting, OwnerState
<1>2. Row BY DEF OpenLink, Row, LInv, Shapes, RowState
<1>3. session' \in SessionState /\ session'.closed = session.closed
  BY <1>1 DEF OpenLink, SessionState
<1>4. \/ link' = [link EXCEPT !.at = "start", !.stale = FALSE]
      \/ link' = [link EXCEPT !.at = "start"]
      \/ link' = [link EXCEPT !.at = "idle"]
  BY DEF OpenLink
<1>5. /\ link' \in OwnerState /\ link'.at \in {"start", "idle"} /\ link'.stop = link.stop
      /\ link'.bot = link.bot /\ link'.ended = link.ended
      /\ link'.generation = link.generation
  BY <1>1, <1>4 DEF OwnerState
<1>6. AtWait' BY <1>1, <1>5 DEF AtWait, Waiting, Starting
<1>. QED BY <1>1, <1>2, <1>3, <1>5, <1>6, MoveKeeps DEF Starting

LEMMA WaitedSets ==
  ASSUME LInv
  PROVE  /\ Waited(link) \in OwnerState
         /\ Waited(link).stop = link.stop /\ Waited(link).bot = link.bot
         /\ Waited(link).ended = link.ended
         /\ Waited(link).stopping = IF InTime THEN link.stopping ELSE link.wait
BY DEF LInv, Shapes, OwnerState, Waited

LEMMA NewStoppedKeeps == LInv /\ NewStopped => LInv'
<1>. SUFFICES ASSUME LInv, NewStopped PROVE LInv'
  OBVIOUS
<1>1. Row BY LineInRow DEF NewStopped, Row
<1>2. /\ link' \in OwnerState /\ link'.at = "idle" /\ link'.stop = link.stop
      /\ link'.bot = link.bot /\ link'.ended = link.ended
      /\ link'.stopping = IF InTime THEN link.stopping ELSE link.wait
  BY WaitedSets DEF NewStopped, OwnerState
<1>. QED BY <1>1, <1>2, WaitEnds DEF NewStopped, Waiting

LEMMA EventStoppedKeeps == LInv /\ EventStopped => LInv'
<1>. SUFFICES ASSUME LInv, EventStopped PROVE LInv'
  OBVIOUS
<1>1. Row BY LineInRow DEF EventStopped, Row
<1>2. \/ link' = [Waited(link) EXCEPT !.at = "idle"]
      \/ link' = [Waited(link) EXCEPT !.at = "idle", !.stale = FALSE]
  BY DEF EventStopped
<1>3. /\ link' \in OwnerState /\ link'.at = "idle" /\ link'.stop = link.stop
      /\ link'.bot = link.bot /\ link'.ended = link.ended
      /\ link'.stopping = IF InTime THEN link.stopping ELSE link.wait
  BY <1>2, WaitedSets DEF OwnerState
<1>. QED BY <1>1, <1>3, WaitEnds DEF EventStopped, Waiting

LEMMA CancelledKeeps == LInv /\ Cancelled => LInv'
<1>. SUFFICES ASSUME LInv, Cancelled PROVE LInv'
  OBVIOUS
<1>1. Row BY LineInRow DEF Cancelled, Row
<1> DEFINE holder == [link EXCEPT !.at = "idle", !.pairing = FALSE, !.resume = FALSE]
<1>2. /\ holder \in OwnerState /\ holder.at = "idle" /\ holder.stop = link.stop
      /\ holder.bot = link.bot /\ holder.ended = link.ended
      /\ holder.stopping = link.stopping /\ link.wait \in Nat
  BY DEF LInv, Shapes, OwnerState
<1>3. \/ InTime /\ link' = holder
      \/ ~InTime /\ link' = [holder EXCEPT !.stopping = link.wait]
  BY DEF Cancelled, InTime, TooSlow
<1> HIDE DEF holder
<1>4. /\ link' \in OwnerState /\ link'.at = "idle" /\ link'.stop = link.stop
      /\ link'.bot = link.bot /\ link'.ended = link.ended
      /\ link'.stopping = IF InTime THEN link.stopping ELSE link.wait
  BY <1>2, <1>3 DEF OwnerState
<1>. QED BY <1>1, <1>4, WaitEnds DEF Cancelled, Waiting

LEMMA StartFailsKeeps ==
  ASSUME LInv, NEW why \in {"denied", "wrongKey", "notMoved", "build", "notPaired"},
         StartFails(why)
  PROVE  LInv'
<1>1. /\ UNCHANGED <<adapter, inbox, sends, word, stops, clients, session>>
      /\ link.at = "start" /\ ~link.ended /\ Active /\ link \in OwnerState
      /\ session \in SessionState /\ link.bot = 0 /\ stops = {}
  BY ActsActive DEF StartFails, LInv, Shapes, ClientInv, AtWait, Waiting, Starting
<1>2. Row BY LineInRow DEF StartFails, Row, LInv, Shapes, RowState
<1>3. \/ link' = [link EXCEPT !.at = "idle", !.pairing = why # "notPaired",
                              !.resume = @ /\ why # "notPaired"]
      \/ link' = [link EXCEPT !.at = "idle"]
  BY DEF StartFails
<1>4. /\ link' \in OwnerState /\ link'.at = "idle" /\ link'.stop = link.stop
      /\ link'.bot = link.bot /\ link'.ended = link.ended
  BY <1>1, <1>3 DEF OwnerState
<1>5. AtWait' BY <1>1, <1>4 DEF AtWait, Waiting, Starting
<1>. QED BY <1>1, <1>2, <1>4, <1>5, MoveKeeps DEF Starting

-----------------------------------------------------------------------------
(* The messages of the owner that start no link and stop no client.        *)
LEMMA TakenAtRest ==
  ASSUME LInv, NEW type, type # "cancel", OwnerTakes(type), Active, Row,
         UNCHANGED <<stops, clients>>,
         link' \in OwnerState, link'.at \in {"idle", "mark"}, link'.stop = link.stop,
         link'.bot = link.bot, link'.ended = link.ended,
         link'.at = "mark" => link.bot # 0,
         session' \in SessionState, session'.closed = session.closed,
         \A s \in stops : s.stop = link'.stopping
  PROVE  LInv'
<1>1. /\ Shorter /\ inbox[1].type # "cancel" /\ UNCHANGED <<adapter, word, sends>>
      /\ link.at = "idle" /\ ~link.ended
  BY TakesActive
<1>2. AtWait' BY <1>1 DEF AtWait, Waiting, Starting
<1>. QED BY <1>1, <1>2, MoveKeeps DEF Starting

(* The number of the stop that runs, while the owner is at rest.           *)
LEMMA RunsAtRest ==
  ASSUME LInv, link.at = "idle", ~link.ended
  PROVE  \A s \in stops : s.stop = link.stopping /\ s.stop # 0
BY DEF LInv, Shapes, ClientInv, Known, Waiting

LEMMA TakeBeginKeeps == LInv /\ TakeBegin => LInv'
BY StartKeeps DEF TakeBegin, StartType

LEMMA TakeRetryKeeps == LInv /\ TakeRetry => LInv'
<1>. SUFFICES ASSUME LInv, TakeRetry PROVE LInv'
  OBVIOUS
<1>0. link \in OwnerState /\ session \in SessionState /\ shown.account \in {"unlinked", "linking", "linked"}
  BY DEF LInv, Shapes, RowState
<1>1. CASE link.pairing
  <2>1. link.resume \in BOOLEAN BY <1>0 DEF OwnerState
  <2>. QED BY <1>1, <2>1, StartKeeps DEF TakeRetry, StartType
<1>2. CASE ~link.pairing
  <2>1. link.at = "idle" /\ ~link.ended /\ Active
    BY TakesActive DEF TakeRetry, AnswerType
  <2>2. Row BY <1>0, <1>2 DEF TakeRetry, Row
  <2>3. \A s \in stops : s.stop = link'.stopping BY <1>2, <2>1, RunsAtRest DEF TakeRetry
  <2>. QED BY <1>0, <1>2, <2>1, <2>2, <2>3, TakenAtRest DEF TakeRetry
<1>. QED BY <1>1, <1>2

LEMMA TakeResumeKeeps == LInv /\ TakeResume => LInv'
<1>. SUFFICES ASSUME LInv, TakeResume PROVE LInv'
  OBVIOUS
<1>0. link \in OwnerState /\ session \in SessionState /\ Stopping \in Nat
  BY DEF LInv, Shapes, OwnerState, Stopping
<1>1. link.at = "idle" /\ ~link.ended /\ Active
  BY TakesActive DEF TakeResume, AnswerType
<1>2. CASE StartLink(FALSE, TRUE) BY <1>2, StartKeeps DEF TakeResume, StartType
<1>3. CASE UNCHANGED <<link, stops, shown>>
  <2>1. \A s \in stops : s.stop = link'.stopping BY <1>1, <1>3, RunsAtRest
  <2>. QED BY <1>0, <1>1, <1>3, <2>1, TakenAtRest DEF TakeResume, Row
<1>4. CASE link' = [link EXCEPT !.stopping = Stopping] /\ UNCHANGED <<stops, shown>>
  <2>1. /\ link' \in OwnerState /\ link'.at = link.at /\ link'.stop = link.stop
        /\ link'.bot = link.bot /\ link'.ended = link.ended /\ link'.stopping = Stopping
    BY <1>0, <1>4 DEF OwnerState
  <2>2. \A s \in stops : s.stop = link'.stopping
    BY <1>1, <2>1, RunsAtRest, NothingRuns DEF Stopping
  <2>. QED BY <1>0, <1>1, <1>4, <2>1, <2>2, TakenAtRest DEF TakeResume, Row
<1>. QED BY <1>2, <1>3, <1>4 DEF TakeResume

(* A message that changes nothing only leaves the queue.                   *)
LEMMA Passed ==
  ASSUME LInv, NEW type \in AnswerType, OwnerTakes(type),
         UNCHANGED <<link, stops, clients, session, shown>>
  PROVE  LInv'
<1>1. /\ Shorter /\ Queue /\ inbox[1].type = type /\ UNCHANGED <<adapter, word, sends>>
      /\ link.at = "idle" /\ adapter.phase = "open" => adapter.owned
  BY TakesActive
<1>2. ~(adapter.phase = "open" /\ ~adapter.owned) BY TakesActive
<1>3. ClientInv'
  <2>1. Held' /\ Known' /\ AtWait' BY DEF LInv, ClientInv, Held, Known, AtWait
  <2>2. EndsAreTrue' BY <1>1, EndsStay DEF LInv, Shapes, OwnerState, ClientInv
  <2>. QED BY <2>1, <2>2 DEF ClientInv
<1>4. CASE Active
  <2>1. Row BY DEF Row
  <2>2. \A s \in stops : s.stop = link'.stopping BY RunsAtRest, TakesActive
  <2>. QED BY <1>4, <2>1, <2>2, TakenAtRest, TakesActive DEF AnswerType, LInv, Shapes
<1>5. CASE ~Active
  <2>1. AtEnd /\ adapter.phase # "open" BY <1>2, <1>5 DEF LInv, EndInv, EndIsEnd, Active
  <2>2. OnlyAnswers' BY <1>1, <2>1, TakesActive DEF AtEnd, OnlyAnswers, Shorter
  <2>3. NoOwner' /\ CancelInv' BY <2>1, TakesActive DEF NoOwner, CancelInv
  <2>4. EndIsEnd' BY <2>1, <2>2, TakesActive DEF LInv, EndInv, EndIsEnd, AtEnd
  <2>5. ShutdownIsLast'
    BY <2>1, <2>2, TakesActive DEF ShutdownIsLast, AtEnd, OnlyAnswers, AnswerType
  <2>6. Shapes' BY TakesActive DEF LInv, Shapes, Shorter
  <2>. QED BY <1>3, <2>3, <2>4, <2>5, <2>6 DEF LInv, EndInv
<1>. QED BY <1>4, <1>5

LEMMA OwnedActive ==
  ASSUME LInv, link.bot # 0 \/ link.stopping # 0
  PROVE  Active
BY DEF LInv, EndInv, NoOwner, NewOwner, EndIsEnd, AtEnd, Active

LEMMA TakeClientKeeps == LInv /\ TakeClient => LInv'
<1>. SUFFICES ASSUME LInv, TakeClient PROVE LInv'
  OBVIOUS
<1> DEFINE msg == Head(inbox)
<1>1. OwnerTakes("client") /\ UNCHANGED <<stops, clients>> BY DEF TakeClient
<1>2. CASE ~Current(msg) BY <1>1, <1>2, Passed DEF TakeClient, AnswerType
<1>3. CASE Current(msg)
  <2>1. Active /\ link.bot # 0 /\ link.at = "idle" /\ ~link.ended
    BY <1>1, <1>3, OwnedActive, TakesActive DEF Current
  <2>2. /\ ApplyMsg(msg)
        /\ \/ link' = link
           \/ link' = [link EXCEPT !.generation = @ + 1, !.at = "mark",
                                   !.marked = msg.event # "loggedOut",
                                   !.stale = @ \/ msg.event = "loggedOut"]
    BY <1>3 DEF TakeClient
  <2>7. msg.event \in ClientEvent BY <1>1, TakesActive DEF Shorter, Message
  <2> HIDE DEF msg
  <2>3. Row BY <2>2, <2>7, LineInRow DEF ApplyMsg, Row, ClientEvent
  <2>4. session' \in SessionState /\ session'.closed = session.closed
    <3>1. session \in SessionState BY DEF LInv, Shapes
    <3>2. \/ UNCHANGED session
          \/ session' = [session EXCEPT !.connected = TRUE]
          \/ session' = [session EXCEPT !.connected = FALSE]
          \/ session' = [session EXCEPT !.generation = 0, !.connected = FALSE, !.stopped = TRUE]
          \/ session' = [session EXCEPT !.connected = FALSE, !.stopped = TRUE]
      BY <2>2, <2>7 DEF ApplyMsg, ClientEvent
    <3>3. CASE session' = [session EXCEPT !.generation = 0, !.connected = FALSE, !.stopped = TRUE]
      <4> DEFINE reset == [session EXCEPT !.generation = 0, !.connected = FALSE]
      <4>1. reset \in SessionState /\ reset.closed = session.closed
        BY <3>1 DEF SessionState
      <4>2. session' = [reset EXCEPT !.stopped = TRUE] BY <3>3
      <4> HIDE DEF reset
      <4>. QED BY <4>1, <4>2 DEF SessionState
    <3>4. CASE session' = [session EXCEPT !.connected = FALSE, !.stopped = TRUE]
      BY <3>1, <3>4 DEF SessionState
    <3>. QED BY <3>1, <3>2, <3>3, <3>4 DEF SessionState
  <2>5. /\ link' \in OwnerState /\ link'.at \in {"idle", "mark"} /\ link'.stop = link.stop
        /\ link'.bot = link.bot /\ link'.ended = link.ended
        /\ link'.stopping = link.stopping
    <3>1. CASE link' = link BY <2>1, <3>1 DEF LInv, Shapes
    <3>2. CASE link' # link
      <4> DEFINE holder == [link EXCEPT !.generation = @ + 1, !.at = "mark"]
      <4>1. /\ holder \in OwnerState /\ holder.at = "mark" /\ holder.stop = link.stop
            /\ holder.bot = link.bot /\ holder.ended = link.ended
            /\ holder.stopping = link.stopping
        <5>1. link \in OwnerState /\ link.generation + 1 \in Nat
          BY DEF LInv, Shapes, OwnerState
        <5>. QED BY <5>1 DEF OwnerState
      <4>2. link' = [holder EXCEPT !.marked = msg.event # "loggedOut",
                                  !.stale = @ \/ msg.event = "loggedOut"]
        BY <2>2, <3>2
      <4> HIDE DEF holder, msg
      <4>. QED BY <4>1, <4>2 DEF OwnerState
    <3>. QED BY <3>1, <3>2
  <2>6. \A s \in stops : s.stop = link'.stopping BY <2>1, <2>5, RunsAtRest
  <2>. QED BY <1>1, <2>1, <2>3, <2>4, <2>5, <2>6, TakenAtRest
<1>. QED BY <1>2, <1>3

LEMMA TakeStopEndedKeeps == LInv /\ TakeStopEnded => LInv'
<1>. SUFFICES ASSUME LInv, TakeStopEnded PROVE LInv'
  OBVIOUS
<1>1. /\ OwnerTakes("stopEnded") /\ UNCHANGED <<stops, clients, session>>
      /\ session \in SessionState
  BY DEF TakeStopEnded, LInv, Shapes
<1>2. CASE Head(inbox).stop # link.stopping
  BY <1>1, <1>2, Passed DEF TakeStopEnded, AnswerType
<1>3. CASE Head(inbox).stop = link.stopping
  <2>1. /\ link.at = "idle" /\ ~link.ended /\ inbox[1].type = "stopEnded"
        /\ 1 \in Index(inbox) /\ Head(inbox) = inbox[1]
    BY <1>1, TakesActive DEF Shorter
  <2>2. 0 < link.stopping /\ \A s \in stops : s.stop # link.stopping
    BY <1>3, <2>1 DEF LInv, ClientInv, EndsAreTrue
  <2>3. stops = {} BY <2>1, <2>2, RunsAtRest
  <2>4. Active BY <2>2, OwnedActive
  <2>5. Row BY <1>3, LineInRow DEF TakeStopEnded
  <2>6. \/ link' = [link EXCEPT !.stopping = 0, !.stale = FALSE]
        \/ link' = [link EXCEPT !.stopping = 0]
    BY <1>3 DEF TakeStopEnded
  <2>7. /\ link' \in OwnerState /\ link'.at = "idle" /\ link'.stop = link.stop
        /\ link'.bot = link.bot /\ link'.ended = link.ended
    <3>1. link \in OwnerState BY DEF LInv, Shapes
    <3> DEFINE holder == [link EXCEPT !.stopping = 0]
    <3>2. /\ holder \in OwnerState /\ holder.at = "idle" /\ holder.stop = link.stop
          /\ holder.bot = link.bot /\ holder.ended = link.ended
      BY <2>1, <3>1 DEF OwnerState
    <3>3. link' = holder \/ link' = [holder EXCEPT !.stale = FALSE] BY <2>6
    <3> HIDE DEF holder
    <3>. QED BY <3>2, <3>3 DEF OwnerState
  <2>. QED BY <1>1, <2>3, <2>4, <2>5, <2>7, TakenAtRest
<1>. QED BY <1>2, <1>3

-----------------------------------------------------------------------------
(* The steps that start or stop a client.                                  *)

(* The new client is the only one, and it stays with the owner or stops.   *)
LEMMA ClientStartsKeeps == LInv /\ ClientStarts => LInv'
<1>. SUFFICES ASSUME LInv, ClientStarts PROVE LInv'
  OBVIOUS
<1>1. /\ UNCHANGED <<adapter, inbox, sends, word, session>> /\ Queue /\ link.at = "start"
      /\ ~link.ended /\ Active /\ stops = {} /\ link.bot = 0 /\ link.generation # 0
  BY ActsActive DEF ClientStarts, LInv, ClientInv, AtWait, Starting
<1>2. /\ link \in OwnerState /\ link.generation \in Nat /\ link.stop \in Nat
      /\ session \in SessionState
  BY DEF LInv, Shapes, OwnerState
<1>3. clients' = {link.generation}
  BY <1>1 DEF ClientStarts, LInv, Shapes, ClientInv, Held
<1> DEFINE holder == [link EXCEPT !.bot = link.generation]
<1>4. /\ holder \in OwnerState /\ holder.stop = link.stop /\ holder.ended = link.ended
      /\ holder.bot = link.generation /\ holder.generation = link.generation
  BY <1>2 DEF OwnerState
<1>5. \/ link' = [holder EXCEPT !.at = "idle"] /\ ShowLine("other") /\ UNCHANGED stops
      \/ StopBot(holder, "stopNew") /\ UNCHANGED shown
  BY DEF ClientStarts
<1>6. shown' \in RowState /\ ~shown'.stopped /\ ~shown'.late
  BY <1>1, <1>5, RowKeeps, LineInRow DEF Row
<1> HIDE DEF holder
<1>7. /\ ClientInv' /\ link' \in OwnerState /\ stops' \subseteq [stop : Nat, client : Nat]
      /\ link'.at \in {"idle", "stopNew"}
  <2>1. CASE link' = [holder EXCEPT !.at = "idle"] /\ UNCHANGED stops
    <3>1. /\ link' \in OwnerState /\ link'.at = "idle" /\ link'.stop = link.stop
          /\ link'.bot = link.generation /\ link'.ended = link.ended
      BY <1>4, <2>1 DEF OwnerState
    <3>2. Held' /\ Known' /\ AtWait'
      BY <1>1, <1>3, <2>1, <3>1 DEF Held, Known, AtWait, Waiting, Starting
    <3>3. EndsAreTrue' BY <1>1, <1>2, <2>1, <3>1, EndsStay DEF LInv, ClientInv
    <3>. QED BY <1>1, <2>1, <3>1, <3>2, <3>3 DEF ClientInv
  <2>2. CASE StopBot(holder, "stopNew")
    <3>1. /\ link' \in OwnerState /\ link'.at = "stopNew" /\ link'.stop = link.stop + 1
          /\ link'.wait = link.stop + 1 /\ link'.bot = 0 /\ link'.ended = link.ended
          /\ link'.generation = link.generation
      BY <1>4, <2>2, StopBotSets DEF Waiting
    <3>2. stops' = {[stop |-> link.stop + 1, client |-> link.generation]}
      BY <1>1, <1>4, <2>2 DEF StopBot
    <3>3. Held' BY <1>3, <3>1, <3>2 DEF Held
    <3>4. Known' BY <1>2, <3>1, <3>2 DEF Known, Waiting
    <3>5. AtWait' BY <1>1, <3>1, <3>2 DEF AtWait, Waiting, Starting
    <3>6. EndsAreTrue' BY <1>1, <1>2, <3>1, <3>2, EndsStay DEF LInv, ClientInv
    <3>. QED BY <1>2, <3>1, <3>2, <3>3, <3>4, <3>5, <3>6 DEF ClientInv
  <2>. QED BY <1>5, <2>1, <2>2
<1>8. EndInv' BY <1>1, <1>6, <1>7, OwnerKeepsEnd DEF LInv, Cancelling, Starting
<1>9. Shapes' BY <1>1, <1>2, <1>3, <1>6, <1>7 DEF LInv, Shapes
<1>. QED BY <1>7, <1>8, <1>9 DEF LInv

LEMMA MarkRevokedKeeps == LInv /\ MarkRevoked => LInv'
<1>. SUFFICES ASSUME LInv, MarkRevoked PROVE LInv'
  OBVIOUS
<1>1. /\ UNCHANGED <<adapter, inbox, sends, word, session, clients, shown>> /\ Queue
      /\ link.at = "mark" /\ ~link.ended /\ Active /\ link.bot # 0
  BY ActsActive DEF MarkRevoked, LInv, ClientInv, AtWait
<1>2. PICK saved \in BOOLEAN : StopBot([link EXCEPT !.marked = @ \/ saved], "stopEvent")
  BY DEF MarkRevoked
<1> DEFINE holder == [link EXCEPT !.marked = @ \/ saved]
<1>3. /\ holder \in OwnerState /\ holder.stop = link.stop /\ holder.ended = link.ended
      /\ holder.bot = link.bot
  BY DEF LInv, Shapes, OwnerState
<1> HIDE DEF holder
<1>4. StopBot(holder, "stopEvent") BY <1>2 DEF holder
<1>5. ClientInv' /\ link' \in OwnerState /\ stops' \subseteq [stop : Nat, client : Nat]
  BY <1>1, <1>3, <1>4, StopBotKeeps DEF Waiting
<1>6. link'.at = "stopEvent" /\ link'.bot = 0 BY <1>3, <1>4, StopBotSets DEF Waiting
<1>7. shown' \in RowState /\ ~shown'.stopped /\ ~shown'.late BY <1>1, RowKeeps DEF Row
<1>8. EndInv' BY <1>1, <1>6, <1>7, OwnerKeepsEnd DEF LInv, Starting
<1>9. Shapes' BY <1>1, <1>5, <1>7 DEF LInv, Shapes
<1>. QED BY <1>5, <1>8, <1>9 DEF LInv

(* A cancel, a shutdown and the end of the owner stop the client, if any.  *)
LEMMA StopClientKeeps ==
  ASSUME LInv, Queue, UNCHANGED clients, link.at = "idle", ~link.ended,
         NEW holder \in OwnerState, NEW at \in {"idle", "stopCancel", "stopShutdown"},
         StopClient(holder, at), holder.bot = link.bot, holder.stop = link.stop,
         holder.stopping = link.stopping, at = "idle" <=> holder.ended
  PROVE  /\ ClientInv' /\ link' \in OwnerState /\ stops' \subseteq [stop : Nat, client : Nat]
         /\ link'.at = at /\ link'.bot = 0 /\ (link.bot = 0 => UNCHANGED stops /\ link'.stopping = link.stopping)
<1>1. CASE holder.bot # 0
  <2>1. StopBot(holder, at) BY <1>1 DEF StopClient
  <2>2. link'.at = at /\ link'.bot = 0 BY <2>1, StopBotSets DEF Waiting
  <2>3. ClientInv' /\ stops' \subseteq [stop : Nat, client : Nat] /\ link' \in OwnerState
    BY <1>1, <2>1, StopBotKeeps DEF Waiting
  <2>. QED BY <1>1, <2>2, <2>3
<1>2. CASE holder.bot = 0
  <2>1. link' = [holder EXCEPT !.at = at, !.wait = 0] /\ UNCHANGED stops
    BY <1>2 DEF StopClient
  <2>2. at \in {"idle", "open", "start", "mark"} \cup Waiting BY DEF Waiting
  <2>3. /\ link' \in OwnerState /\ link'.at = at /\ link'.bot = 0 /\ link'.stop = link.stop
        /\ link'.stopping = link.stopping /\ link'.ended = holder.ended
    BY <1>2, <2>1, <2>2 DEF OwnerState
  <2>4. Held' /\ Known' BY <1>2, <2>1, <2>3 DEF LInv, ClientInv, Held, Known, Waiting
  <2>5. AtWait' BY <2>3 DEF AtWait, Waiting, Starting
  <2>6. EndsAreTrue' BY <2>1, <2>3, EndsStay DEF LInv, Shapes, OwnerState, ClientInv
  <2>. QED BY <1>2, <2>1, <2>3, <2>4, <2>5, <2>6 DEF LInv, Shapes, ClientInv
<1>. QED BY <1>1, <1>2

LEMMA QuitSets ==
  ASSUME LInv
  PROVE  /\ Quit \in OwnerState /\ Quit.bot = link.bot /\ Quit.stop = link.stop
         /\ Quit.stopping = link.stopping /\ Quit.ended = link.ended
<1>1. link \in OwnerState /\ link.generation + 1 \in Nat BY DEF LInv, Shapes, OwnerState
<1>. QED BY <1>1 DEF Quit, OwnerState

LEMMA TakeCancelKeeps == LInv /\ TakeCancel => LInv'
<1>. SUFFICES ASSUME LInv, TakeCancel PROVE LInv'
  OBVIOUS
<1>1. /\ Shorter /\ Queue /\ inbox[1].type = "cancel" /\ UNCHANGED <<adapter, word, sends>>
      /\ UNCHANGED <<clients, session, shown>> /\ link.at = "idle" /\ ~link.ended /\ Active
  BY TakesActive DEF TakeCancel, AnswerType
<1>2. /\ ClientInv' /\ link' \in OwnerState /\ stops' \subseteq [stop : Nat, client : Nat]
      /\ link'.at = "stopCancel" /\ link'.bot = 0
  BY <1>1, QuitSets, StopClientKeeps DEF TakeCancel
<1>3. CancelInv'
  <2>1. CASE CancelIsLast
    <3>1. PICK i \in Index(inbox) :
             /\ inbox[i].type = "cancel"
             /\ \A j \in Index(inbox) : i < j => inbox[j].type \notin StartType
      BY <2>1 DEF CancelIsLast
    <3>2. CASE i = 1
      BY <1>1, <1>2, <3>1, <3>2 DEF CancelInv, Cancelling, Starting, Shorter
    <3>3. CASE i # 1 BY <1>1, <3>1, <3>3, CancelStaysLast DEF CancelInv
    <3>. QED BY <3>2, <3>3
  <2>2. CASE Cancelling BY <1>1, <1>2, <2>2 DEF CancelInv, Cancelling, Starting, Shorter
  <2>. QED BY <1>1, <2>1, <2>2 DEF LInv, EndInv, CancelInv
<1>4. ShutdownIsLast' BY <1>1, <1>2, ShutdownStaysLast DEF LInv
<1>5. NoOwner' /\ EndIsEnd' BY <1>1 DEF Active, NoOwner, LInv, EndInv, EndIsEnd
<1>6. Shapes' BY <1>1, <1>2 DEF LInv, Shapes, Shorter
<1>. QED BY <1>2, <1>3, <1>4, <1>5, <1>6 DEF LInv, EndInv

LEMMA TakeShutdownKeeps == LInv /\ TakeShutdown => LInv'
<1>. SUFFICES ASSUME LInv, TakeShutdown PROVE LInv'
  OBVIOUS
<1>1. /\ Shorter /\ Queue /\ inbox[1].type = "shutdown" /\ UNCHANGED <<adapter, word, sends>>
      /\ UNCHANGED <<clients, session, shown>> /\ link.at = "idle" /\ ~link.ended /\ Active
  BY TakesActive DEF TakeShutdown, AnswerType
<1>2. /\ ClientInv' /\ link' \in OwnerState /\ stops' \subseteq [stop : Nat, client : Nat]
      /\ link'.at = "stopShutdown" /\ link'.bot = 0
  BY <1>1, QuitSets, StopClientKeeps DEF TakeShutdown
<1>3. adapter.phase \notin {"open", "draining"}
  BY <1>1 DEF Shorter, LInv, EndInv, ShutdownIsLast
<1>4. OnlyAnswers' BY <1>1 DEF OnlyAnswers, Shorter, LInv, EndInv, ShutdownIsLast
<1>5. ShutdownIsLast' BY <1>1, <1>3, <1>4 DEF ShutdownIsLast, OnlyAnswers
<1>6. NoOwner' /\ EndIsEnd' /\ CancelInv'
  BY <1>1, <1>3 DEF Active, NoOwner, CancelInv, LInv, EndInv, EndIsEnd
<1>7. Shapes' BY <1>1, <1>2 DEF LInv, Shapes, Shorter
<1>. QED BY <1>2, <1>5, <1>6, <1>7 DEF LInv, EndInv

LEMMA OwnerEndsKeeps == LInv /\ OwnerEnds => LInv'
<1>. SUFFICES ASSUME LInv, OwnerEnds PROVE LInv'
  OBVIOUS
<1>1. /\ UNCHANGED <<adapter, inbox, sends, word, clients, session, shown>> /\ Queue
      /\ link.at = "idle" /\ ~link.ended /\ adapter.phase = "closed" /\ inbox = <<>>
  BY DEF OwnerEnds, OwnerAt, Queue
<1> DEFINE holder == [Quit EXCEPT !.ended = TRUE]
<1>2. /\ holder \in OwnerState /\ holder.bot = link.bot /\ holder.stop = link.stop
      /\ holder.stopping = link.stopping /\ holder.ended
  BY QuitSets DEF OwnerState
<1>3. StopClient(holder, "idle") BY DEF OwnerEnds
<1> HIDE DEF holder
<1>4. /\ ClientInv' /\ link' \in OwnerState /\ stops' \subseteq [stop : Nat, client : Nat]
      /\ link'.at = "idle" /\ link'.bot = 0
      /\ link.bot = 0 => UNCHANGED stops /\ link'.stopping = link.stopping
  BY <1>1, <1>2, <1>3, StopClientKeeps
<1>5. NoOwner' /\ CancelInv' /\ ShutdownIsLast'
  BY <1>1, <1>4, EmptyQueue DEF NoOwner, CancelInv, ShutdownIsLast
<1>6. EndIsEnd' BY <1>1, <1>4 DEF LInv, EndInv, EndIsEnd, AtEnd, OnlyAnswers
<1>7. Shapes' BY <1>1, <1>4 DEF LInv, Shapes
<1>. QED BY <1>4, <1>5, <1>6, <1>7 DEF LInv, EndInv

(* The answer of the owner: only when nothing runs.                        *)
LEMMA OwnerShutDownKeeps == LInv /\ OwnerShutDown => LInv'
<1>. SUFFICES ASSUME LInv, OwnerShutDown PROVE LInv'
  OBVIOUS
<1>1. /\ UNCHANGED <<inbox, stops, clients, session, sends, word>> /\ Queue
      /\ link.at = "stopShutdown" /\ ~link.ended /\ link.bot = 0 /\ link \in OwnerState
      /\ OnlyAnswers /\ adapter.phase \notin {"open", "draining", "answered"}
      /\ ~shown.stopped /\ link.wait \in Nat
  BY DEF OwnerShutDown, Queue, LInv, Shapes, OwnerState, ClientInv, AtWait, Waiting, EndInv,
     ShutdownIsLast, EndIsEnd, AtEnd
<1>2. /\ adapter'.phase \notin {"open", "draining"}
      /\ adapter'.phase = "closed" => adapter.phase = "closed"
      /\ adapter' \in [phase : {"open", "draining", "stopping", "answered", "closed"},
                       acknowledged : BOOLEAN, owned : BOOLEAN]
  BY <1>1 DEF OwnerShutDown, LInv, Shapes
<1>3. Row /\ Active BY <1>1, LineInRow DEF OwnerShutDown, Row, Active
<1>4. shown' \in RowState /\ ~shown'.stopped /\ ~shown'.late BY <1>3, RowKeeps
<1>5. \/ link' = [link EXCEPT !.at = "idle", !.stopping = 0]
      \/ link' = [link EXCEPT !.at = "idle"]
      \/ link' = [link EXCEPT !.at = "idle", !.stopping = link.wait]
  BY DEF OwnerShutDown
<1>6. /\ link' \in OwnerState /\ link'.at = "idle" /\ link'.bot = 0
      /\ link'.stop = link.stop /\ link'.ended = link.ended
  BY <1>1, <1>5 DEF OwnerState
<1>7. Known' /\ (adapter'.phase = "answered" => AtEnd')
  <2>1. CASE InTime /\ ~StillStopping /\ link' = [link EXCEPT !.at = "idle", !.stopping = 0]
    <3>1. stops = {} /\ clients = {} BY <1>1, <2>1, NothingRuns DEF Waiting
    <3>2. link'.stopping = 0 BY <1>1, <2>1 DEF OwnerState
    <3>. QED BY <1>1, <1>6, <3>1, <3>2 DEF Known, AtEnd, OnlyAnswers
  <2>2. CASE InTime /\ UNCHANGED adapter /\ link' = [link EXCEPT !.at = "idle"]
    <3>1. link'.stopping = link.stopping BY <1>1, <2>2 DEF OwnerState
    <3>. QED BY <1>1, <1>6, <2>2, <3>1 DEF LInv, ClientInv, Known, InTime, Running
  <2>3. CASE TooSlow /\ UNCHANGED adapter /\ link' = [link EXCEPT !.at = "idle", !.stopping = link.wait]
    <3>1. link'.stopping = link.wait BY <1>1, <2>3 DEF OwnerState
    <3>2. \A s \in stops : s.stop = link.wait
      BY <2>3 DEF TooSlow, Running, LInv, ClientInv, Held
    <3>. QED BY <1>1, <1>6, <2>3, <3>1, <3>2 DEF LInv, ClientInv, Known
  <2>. QED BY <2>1, <2>2, <2>3 DEF OwnerShutDown
<1>8. ClientInv'
  <2>1. Held' /\ AtWait'
    BY <1>1, <1>6 DEF LInv, ClientInv, Held, AtWait, Waiting, Starting
  <2>2. EndsAreTrue' BY <1>1, <1>6, EndsStay DEF LInv, Shapes, OwnerState, ClientInv
  <2>. QED BY <1>7, <2>1, <2>2 DEF ClientInv
<1>9. NoOwner' /\ CancelInv' BY <1>2 DEF NoOwner, CancelInv
<1>10. ShutdownIsLast' /\ EndIsEnd'
  BY <1>1, <1>2, <1>4, <1>6, <1>7 DEF LInv, EndInv, ShutdownIsLast, EndIsEnd, OnlyAnswers
<1>11. Shapes' BY <1>1, <1>2, <1>4, <1>6 DEF LInv, Shapes
<1>. QED BY <1>8, <1>9, <1>10, <1>11 DEF LInv, EndInv

-----------------------------------------------------------------------------
(* The adapter, the clients and the stop tasks.                            *)

LEMMA Told ==
  ASSUME NEW m, Tell(m)
  PROVE  UNCHANGED inbox \/ Posts(m)
BY DEF Tell, Posts

LEMMA RowShown ==
  ASSUME LInv, ~shown.stopped, Row
  PROVE  shown' \in RowState /\ ~shown'.stopped /\ ~shown'.late
BY ShowKeeps DEF LInv, Shapes, EndInv, EndIsEnd, Row

LEMMA InboxTyped ==
  ASSUME LInv, NEW m \in Message, UNCHANGED inbox \/ Posts(m)
  PROVE  inbox' \in Seq(Message)
BY Appended DEF LInv, Shapes, Longer

(* A message that is no command disturbs no end.                           *)
LEMMA AnswersKeep ==
  ASSUME LInv, NEW m \in Message, m.type \in AnswerType, UNCHANGED inbox \/ Posts(m),
         UNCHANGED <<adapter, link, word>>
  PROVE  ShutdownIsLast' /\ CancelInv' /\ (OnlyAnswers => OnlyAnswers')
<1>1. CASE UNCHANGED inbox
  BY <1>1 DEF LInv, EndInv, ShutdownIsLast, CancelInv, CancelIsLast, Cancelling, OnlyAnswers, Index
<1>2. CASE Posts(m)
  <2>1. Longer(m) BY <1>2, Appended DEF LInv, Shapes
  <2>2. OnlyAnswers => OnlyAnswers' BY <2>1 DEF OnlyAnswers, Longer
  <2>3. ASSUME NEW i \in Index(inbox'), NEW j \in Index(inbox'), i < j,
               inbox'[i].type = "shutdown"
        PROVE  inbox'[j].type \in AnswerType
    BY <2>1, <2>3 DEF Longer, LInv, EndInv, ShutdownIsLast
  <2>4. ShutdownIsLast'
    BY <2>1, <2>2, <2>3 DEF Longer, LInv, EndInv, ShutdownIsLast, AnswerType
  <2>5. CancelInv'
    <3>1. CancelIsLast => CancelIsLast'
      BY <2>1 DEF Longer, CancelIsLast, AnswerType, StartType
    <3>2. Cancelling => Cancelling'
      BY <2>1 DEF Longer, Cancelling, AnswerType, StartType
    <3>. QED BY <3>1, <3>2 DEF LInv, EndInv, CancelInv
  <2>. QED BY <2>2, <2>4, <2>5
<1>. QED BY <1>1, <1>2

(* A command of the user, while the adapter is open.                       *)
LEMMA CommandKeeps ==
  ASSUME LInv, adapter.phase = "open", adapter'.phase = "open",
         adapter' \in [phase : {"open", "draining", "stopping", "answered", "closed"},
                       acknowledged : BOOLEAN, owned : BOOLEAN],
         NEW m \in Message, m.type \notin {"shutdown", "stopEnded"},
         UNCHANGED inbox \/ Posts(m), UNCHANGED <<link, stops, clients>>, Row,
         session' \in SessionState, sends' \subseteq Nat, NoOwner', CancelInv'
  PROVE  LInv'
<1>1. shown' \in RowState /\ ~shown'.stopped /\ ~shown'.late
  BY RowShown DEF LInv, EndInv, EndIsEnd
<1>2. ClientInv' BY OthersKeep DEF LInv
<1>3. Shapes' BY <1>1, InboxTyped DEF LInv, Shapes
<1>4. \A i \in Index(inbox') : inbox'[i].type # "shutdown"
  <2>1. CASE UNCHANGED inbox BY <2>1 DEF LInv, EndInv, ShutdownIsLast, Index
  <2>2. CASE Posts(m)
    <3>1. Longer(m) BY <2>2, Appended DEF LInv, Shapes
    <3>. QED BY <3>1 DEF Longer, LInv, EndInv, ShutdownIsLast
  <2>. QED BY <2>1, <2>2
<1>5. ShutdownIsLast' /\ EndIsEnd'
  BY <1>1, <1>4 DEF LInv, EndInv, ShutdownIsLast, EndIsEnd
<1>. QED BY <1>2, <1>3, <1>5 DEF LInv, EndInv

LEMMA Typed ==
  ASSUME LInv
  PROVE  /\ adapter \in [phase : {"open", "draining", "stopping", "answered", "closed"},
                         acknowledged : BOOLEAN, owned : BOOLEAN]
         /\ session \in SessionState /\ shown \in RowState /\ sends \subseteq Nat
         /\ \A type \in {"begin", "retry", "resume", "cancel", "shutdown"} :
               Msg(type) \in Message /\ Msg(type).type = type
BY DEF LInv, Shapes, Msg, Message

LEMMA AcknowledgeKeeps == LInv /\ Acknowledge => LInv'
<1>. SUFFICES ASSUME LInv, Acknowledge PROVE LInv'
  OBVIOUS
<1>1. /\ adapter.phase = "open" /\ adapter'.phase = "open" /\ adapter'.owned
      /\ adapter' \in [phase : {"open", "draining", "stopping", "answered", "closed"},
                       acknowledged : BOOLEAN, owned : BOOLEAN]
      /\ word' = "begin" /\ UNCHANGED <<link, stops, clients, session, sends>>
  BY Typed DEF Acknowledge, Command
<1>2. (UNCHANGED inbox \/ Posts(Msg("resume"))) /\ Row
  BY Told, LineInRow DEF Acknowledge
<1>3. NoOwner' /\ CancelInv' BY <1>1 DEF NoOwner, CancelInv
<1>. QED BY <1>1, <1>2, <1>3, Typed, CommandKeeps

LEMMA BeginLinkKeeps == LInv /\ (BeginLink \/ RetryStoreKey) => LInv'
<1>. SUFFICES ASSUME LInv, BeginLink \/ RetryStoreKey PROVE LInv'
  OBVIOUS
<1>1. /\ adapter.phase = "open" /\ adapter.owned /\ word' = "begin"
      /\ UNCHANGED <<adapter, link, stops, clients, session, sends>>
  BY DEF BeginLink, RetryStoreKey, Command, LInv, EndInv, NoOwner
<1>2. PICK type \in {"begin", "retry"} : UNCHANGED inbox \/ Posts(Msg(type))
  BY Told DEF BeginLink, RetryStoreKey
<1>3. Row BY LineInRow DEF BeginLink, RetryStoreKey
<1>4. NoOwner' /\ CancelInv' BY <1>1 DEF NoOwner, CancelInv
<1>. QED BY <1>1, <1>2, <1>3, <1>4, Typed, CommandKeeps

LEMMA ResetSets ==
  ASSUME LInv, Reset
  PROVE  session' \in SessionState /\ ~session'.connected /\ session'.closed = session.closed
<1> DEFINE none == [session EXCEPT !.generation = 0, !.connected = FALSE]
<1>1. none \in SessionState /\ ~none.connected /\ none.closed = session.closed
  BY Typed DEF SessionState
<1>2. session' = [none EXCEPT !.stopped = FALSE] BY DEF Reset
<1> HIDE DEF none
<1>. QED BY <1>1, <1>2 DEF SessionState

LEMMA CancelLinkKeeps == LInv /\ CancelLink => LInv'
<1>. SUFFICES ASSUME LInv, CancelLink PROVE LInv'
  OBVIOUS
<1>1. /\ adapter.phase = "open" /\ adapter'.phase = "open" /\ adapter'.owned = adapter.owned
      /\ ~adapter'.acknowledged
      /\ adapter' \in [phase : {"open", "draining", "stopping", "answered", "closed"},
                       acknowledged : BOOLEAN, owned : BOOLEAN]
      /\ word' = "cancel" /\ UNCHANGED <<link, stops, clients, sends>>
  BY Typed DEF CancelLink, Command
<1>2. session' \in SessionState /\ ~session'.connected BY ResetSets DEF CancelLink
<1>3. Row BY DEF CancelLink, Row
<1>4. CASE adapter.owned
  <2>1. Posts(Msg("cancel")) BY <1>1, <1>4 DEF CancelLink, Tell, Posts
  <2>2. Longer(Msg("cancel")) BY <2>1, Appended, Typed DEF LInv, Shapes
  <2>3. CancelIsLast' BY <2>2, Typed DEF CancelIsLast, Longer
  <2>4. NoOwner' /\ CancelInv' BY <1>1, <1>4, <2>3 DEF NoOwner, CancelInv
  <2>. QED BY <1>1, <1>2, <1>3, <2>1, <2>4, Typed, CommandKeeps
<1>5. CASE ~adapter.owned
  <2>1. UNCHANGED inbox BY <1>5 DEF CancelLink
  <2>2. link = NewOwner /\ inbox = <<>> /\ stops = {} /\ clients = {} /\ sends = {}
    BY <1>1, <1>5 DEF LInv, EndInv, NoOwner
  <2>3. Cancelling' BY <1>1, <2>1, <2>2, EmptyQueue DEF Cancelling, NewOwner, Starting
  <2>4. NoOwner' /\ CancelInv'
    BY <1>1, <1>2, <2>1, <2>2, <2>3 DEF NoOwner, CancelInv, NewOwner
  <2>. QED BY <1>1, <1>2, <1>3, <2>1, <2>4, Typed, CommandKeeps
<1>. QED BY <1>4, <1>5

LEMMA SendTextKeeps == LInv /\ (SendText \/ Connect) => LInv'
<1>. SUFFICES ASSUME LInv, SendText \/ Connect PROVE LInv'
  OBVIOUS
<1>1. /\ adapter.phase = "open" /\ session.connected
      /\ UNCHANGED <<adapter, inbox, link, stops, clients, session, word>>
  BY DEF SendText, Connect
<1>2. Row BY DEF SendText, Connect, Row
<1>3. sends' \subseteq Nat BY Typed DEF SendText, Connect, SessionState
<1>4. NoOwner' /\ CancelInv'
  BY <1>1 DEF LInv, EndInv, NoOwner, CancelInv, CancelIsLast, Cancelling, Index
<1>. QED BY <1>1, <1>2, <1>3, <1>4, Typed, CommandKeeps

LEMMA FinishSendKeeps ==
  ASSUME LInv, NEW generation \in sends, NEW result \in {"accepted", "rejected", "unlinked"},
         FinishSend(generation, result)
  PROVE  LInv'
<1> DEFINE m == ClientMsg(generation, "loggedOut")
<1>1. /\ UNCHANGED <<adapter, link, stops, clients, word>> /\ sends' = sends \ {generation}
      /\ ~(adapter.phase = "open" /\ ~adapter.owned)
  BY DEF FinishSend, LInv, EndInv, NoOwner
<1>2. m \in Message /\ m.type = "client" BY Typed DEF ClientMsg, Message, ClientEvent
<1>3. \/ UNCHANGED <<session, shown, inbox>>
      \/ /\ ~session.closed /\ Row /\ (UNCHANGED inbox \/ Posts(m))
         /\ session' \in SessionState /\ session'.closed = session.closed
  BY Typed, ResetSets, Told, LineInRow DEF FinishSend, Row
<1> HIDE DEF m
<1>4. ClientInv' BY <1>1, <1>2, <1>3, OthersKeep DEF LInv
<1>5. ShutdownIsLast' /\ CancelInv' /\ (OnlyAnswers => OnlyAnswers')
  BY <1>1, <1>2, <1>3, AnswersKeep DEF AnswerType
<1>6. \/ UNCHANGED <<session, shown>>
      \/ /\ adapter.phase # "closed" /\ ~shown.stopped
         /\ shown' \in RowState /\ ~shown'.stopped /\ ~shown'.late
         /\ session' \in SessionState /\ session'.closed = session.closed
  BY <1>3, RowShown DEF LInv, EndInv, EndIsEnd
<1>7. NoOwner' /\ EndIsEnd'
  BY <1>1, <1>5, <1>6 DEF LInv, EndInv, NoOwner, EndIsEnd, AtEnd
<1>8. Shapes' BY <1>1, <1>2, <1>3, <1>6, InboxTyped DEF LInv, Shapes
<1>. QED BY <1>4, <1>5, <1>7, <1>8 DEF LInv, EndInv

LEMMA ShutdownKeeps == LInv /\ Shutdown => LInv'
<1>. SUFFICES ASSUME LInv, Shutdown PROVE LInv'
  OBVIOUS
<1>1. /\ adapter.phase = "open" /\ UNCHANGED <<inbox, link, stops, clients, sends, word>>
      /\ ~shown.stopped /\ ~shown.late
  BY DEF Shutdown, Command, LInv, EndInv, EndIsEnd
<1>2. ClientInv' BY <1>1, Typed, OthersKeep DEF LInv
<1>3. ShutdownIsLast' /\ NoOwner' /\ CancelInv'
  BY <1>1, Typed DEF Shutdown, LInv, EndInv, ShutdownIsLast, OnlyAnswers, Index, NoOwner, CancelInv
<1>4. CASE ~adapter.owned /\ sends = {}
  <2>1. /\ adapter' = [adapter EXCEPT !.phase = "closed", !.acknowledged = FALSE]
        /\ session' = [session EXCEPT !.closed = TRUE] /\ shown' = [shown EXCEPT !.stopped = TRUE]
    BY <1>4 DEF Shutdown
  <2>2. /\ shown' \in RowState /\ ~shown'.late /\ session' \in SessionState /\ session'.closed
        /\ adapter'.phase = "closed"
        /\ adapter' \in [phase : {"open", "draining", "stopping", "answered", "closed"},
                         acknowledged : BOOLEAN, owned : BOOLEAN]
    BY <1>1, <2>1, Typed DEF RowState, SessionState
  <2>3. AtEnd'
    BY <1>1, <1>4, EmptyQueue DEF LInv, EndInv, NoOwner, NewOwner, AtEnd, OnlyAnswers
  <2>. QED BY <1>1, <1>2, <1>3, <2>2, <2>3 DEF LInv, EndInv, EndIsEnd, Shapes
<1>5. CASE adapter.owned \/ sends # {}
  <2>1. /\ adapter'.phase = "draining" /\ UNCHANGED <<session, shown>>
        /\ adapter' \in [phase : {"open", "draining", "stopping", "answered", "closed"},
                         acknowledged : BOOLEAN, owned : BOOLEAN]
    BY <1>5, Typed DEF Shutdown
  <2>. QED BY <1>1, <1>2, <1>3, <2>1 DEF LInv, EndInv, EndIsEnd, Shapes
<1>. QED BY <1>4, <1>5

LEMMA DrainedKeeps == LInv /\ Drained => LInv'
<1>. SUFFICES ASSUME LInv, Drained PROVE LInv'
  OBVIOUS
<1> DEFINE m == Msg("shutdown")
<1>1. /\ adapter.phase = "draining" /\ adapter'.phase = "stopping" /\ Posts(m)
      /\ adapter' \in [phase : {"open", "draining", "stopping", "answered", "closed"},
                       acknowledged : BOOLEAN, owned : BOOLEAN]
      /\ UNCHANGED <<link, stops, clients, session, sends, shown, word>>
  BY Typed DEF Drained, Posts
<1>2. m \in Message /\ m.type = "shutdown" BY Typed
<1> HIDE DEF m
<1>3. ClientInv' BY <1>1, <1>2, OthersKeep DEF LInv
<1>4. Longer(m) BY <1>1, <1>2, Appended DEF LInv, Shapes
<1>5. ShutdownIsLast' BY <1>1, <1>4 DEF Longer, LInv, EndInv, ShutdownIsLast
<1>6. NoOwner' /\ CancelInv' /\ EndIsEnd'
  BY <1>1 DEF NoOwner, CancelInv, LInv, EndInv, EndIsEnd
<1>7. Shapes' BY <1>1, <1>4 DEF LInv, Shapes, Longer
<1>. QED BY <1>3, <1>5, <1>6, <1>7 DEF LInv, EndInv

LEMMA ClosesKeep == LInv /\ (ShutdownTimesOut \/ ShutdownDone) => LInv'
<1>. SUFFICES ASSUME LInv, ShutdownTimesOut \/ ShutdownDone PROVE LInv'
  OBVIOUS
<1>1. /\ adapter.phase \in {"stopping", "answered"} /\ adapter'.phase = "closed"
      /\ adapter' \in [phase : {"open", "draining", "stopping", "answered", "closed"},
                       acknowledged : BOOLEAN, owned : BOOLEAN]
      /\ session' \in SessionState /\ session'.closed
      /\ UNCHANGED <<inbox, link, stops, clients, sends, word>>
      /\ ~shown.stopped /\ ~shown.late
  BY Typed DEF ShutdownTimesOut, ShutdownDone, SessionState, LInv, EndInv, EndIsEnd
<1>2. ClientInv' BY <1>1, Typed, OthersKeep DEF LInv
<1>3. ShutdownIsLast' /\ NoOwner' /\ CancelInv'
  BY <1>1 DEF LInv, EndInv, ShutdownIsLast, OnlyAnswers, Index, NoOwner, CancelInv
<1>4. shown' \in RowState /\ ~shown'.late /\ (shown'.stopped => AtEnd)
  <2>1. CASE ShutdownTimesOut BY <1>1, <2>1, RowShown, LineInRow DEF ShutdownTimesOut
  <2>2. CASE ShutdownDone
    BY <1>1, <2>2, Typed DEF ShutdownDone, RowState, LInv, EndInv, EndIsEnd
  <2>. QED BY <2>1, <2>2
<1>5. EndIsEnd' BY <1>1, <1>4 DEF EndIsEnd, AtEnd, OnlyAnswers, Index
<1>6. Shapes' BY <1>1, <1>4 DEF LInv, Shapes
<1>. QED BY <1>2, <1>3, <1>5, <1>6 DEF LInv, EndInv

(* The stop that ends is the only one; its message says so.                *)
LEMMA StopTaskEndsKeeps ==
  ASSUME LInv, NEW s \in stops, StopTaskEnds(s)
  PROVE  LInv'
<1> DEFINE m == StopEndedMsg(s.stop)
<1>1. /\ stops' = {} /\ clients' = clients \ {s.client} /\ link.bot = 0
      /\ UNCHANGED <<adapter, link, session, sends, shown, word>>
      /\ ~(adapter.phase = "open" /\ ~adapter.owned)
      /\ ~(adapter.phase = "answered" \/ shown.stopped)
  BY DEF StopTaskEnds, LInv, ClientInv, Held, EndInv, NoOwner, EndIsEnd, AtEnd
<1>2. s.stop \in Nat /\ 0 < s.stop /\ s.stop <= link.stop
  BY DEF LInv, Shapes, ClientInv, Known
<1>3. m \in Message /\ m.type = "stopEnded" /\ m.stop = s.stop
  BY <1>2 DEF StopEndedMsg, Message
<1>4. UNCHANGED inbox \/ Posts(m) BY Told DEF StopTaskEnds
<1> HIDE DEF m
<1>5. Held' /\ Known' /\ AtWait'
  BY <1>1 DEF LInv, ClientInv, Held, Known, AtWait, Waiting, Starting
<1>6. EndsAreTrue'
  <2>1. CASE UNCHANGED inbox BY <1>1, <2>1 DEF LInv, ClientInv, EndsAreTrue, Index
  <2>2. CASE Posts(m)
    <3>1. Longer(m) BY <1>3, <2>2, Appended DEF LInv, Shapes
    <3>. QED BY <1>1, <1>2, <1>3, <3>1 DEF LInv, ClientInv, EndsAreTrue, Longer
  <2>. QED BY <1>4, <2>1, <2>2
<1>7. ShutdownIsLast' /\ CancelInv' BY <1>1, <1>3, <1>4, AnswersKeep DEF AnswerType
<1>8. NoOwner' /\ EndIsEnd' BY <1>1 DEF LInv, EndInv, NoOwner, EndIsEnd
<1>9. Shapes' BY <1>1, <1>3, <1>4, InboxTyped DEF LInv, Shapes
<1>. QED BY <1>5, <1>6, <1>7, <1>8, <1>9 DEF LInv, ClientInv, EndInv

LEMMA ClientEventsKeep ==
  ASSUME LInv, NEW client \in clients, NEW event \in ClientEvent, ClientEvents(client, event)
  PROVE  LInv'
<1> DEFINE m == ClientMsg(client, event)
<1>1. /\ UNCHANGED <<adapter, link, stops, clients, session, sends, shown, word>>
      /\ ~(adapter.phase = "open" /\ ~adapter.owned)
      /\ ~(adapter.phase = "answered" \/ shown.stopped)
  BY DEF ClientEvents, LInv, EndInv, NoOwner, EndIsEnd, AtEnd
<1>2. m \in Message /\ m.type = "client" BY DEF LInv, Shapes, ClientMsg, Message
<1>3. UNCHANGED inbox \/ Posts(m) BY Told DEF ClientEvents
<1> HIDE DEF m
<1>4. ClientInv' BY <1>1, <1>2, <1>3, OthersKeep DEF LInv
<1>5. ShutdownIsLast' /\ CancelInv' BY <1>1, <1>2, <1>3, AnswersKeep DEF AnswerType
<1>6. NoOwner' /\ EndIsEnd' BY <1>1 DEF LInv, EndInv, NoOwner, EndIsEnd
<1>7. Shapes' BY <1>1, <1>2, <1>3, InboxTyped DEF LInv, Shapes
<1>. QED BY <1>4, <1>5, <1>6, <1>7 DEF LInv, EndInv

LEMMA StutterKeeps ==
  ASSUME LInv, UNCHANGED <<adapter, inbox, link, stops, clients, session, sends, shown, word>>
  PROVE  LInv'
BY DEF LInv, Shapes, ClientInv, Held, Known, AtWait, EndsAreTrue, EndInv, NoOwner, ShutdownIsLast,
   OnlyAnswers, EndIsEnd, AtEnd, CancelInv, CancelIsLast, Cancelling, Index

-----------------------------------------------------------------------------
LEMMA OwnerStepKeeps == LInv /\ OwnerStep => LInv'
BY TakeBeginKeeps, TakeRetryKeeps, TakeResumeKeeps, OldStoppedKeeps, OpenLinkKeeps,
   ClientStartsKeeps, NewStoppedKeeps, StartFailsKeeps, TakeClientKeeps, MarkRevokedKeeps,
   EventStoppedKeeps, TakeStopEndedKeeps, TakeCancelKeeps, CancelledKeeps, TakeShutdownKeeps,
   OwnerShutDownKeeps, OwnerEndsKeeps
   DEF OwnerStep

LEMMA NextKeeps == LInv /\ [LinkNext]_linkVars => LInv'
<1>. SUFFICES ASSUME LInv, [LinkNext]_linkVars PROVE LInv'
  OBVIOUS
<1>1. CASE RevokeDevice \/ UNCHANGED linkVars
  BY <1>1, StutterKeeps DEF RevokeDevice, linkVars
<1>2. CASE LinkNext /\ ~RevokeDevice
  BY <1>2, OwnerStepKeeps, AcknowledgeKeeps, BeginLinkKeeps, CancelLinkKeeps, SendTextKeeps,
     FinishSendKeeps, ShutdownKeeps, DrainedKeeps, ClosesKeep, StopTaskEndsKeeps,
     ClientEventsKeep, RestartHolds
     DEF LinkNext
<1>. QED BY <1>1, <1>2

(* The inductive invariant of the link: who holds the device store, what   *)
(* the owner knows about the stop that runs, and what is left in its queue *)
(* after a cancel or a shutdown.                                           *)
THEOREM LinkInvariance == LinkSpec => []LInv
BY InitHolds, NextKeeps, PTL DEF LinkSpec

(* At most one client has the device store of the account, however slowly  *)
(* the stops end, over restarts, cancels and lost devices: the owner never *)
(* starts a client while the stop of another one runs (`StillRunning` of   *)
(* link.rs).                                                               *)
THEOREM OneClientHolds == LinkSpec => []OneClient
<1>1. LInv => OneClient
  <2>. SUFFICES ASSUME LInv PROVE OneClient
    OBVIOUS
  <2>1. \A c, d \in clients : c = d BY DEF LInv, Shapes, ClientInv, Held
  <2>2. CASE clients = {} BY <2>2, FS_EmptySet DEF OneClient
  <2>3. CASE clients # {}
    <3>1. PICK c \in clients : clients = {c} BY <2>1, <2>3
    <3>2. Cardinality({c}) = 1 BY FS_Singleton
    <3>. QED BY <3>1, <3>2 DEF OneClient
  <2>. QED BY <2>2, <2>3
<1>. QED BY <1>1, LinkInvariance, PTL

(* A close of the adapter says `Stopped` only when no client runs, nothing *)
(* of the account comes after it, and a cancel leaves no client, whatever  *)
(* the owner was doing when it came.                                       *)
THEOREM ClientsEndWell == LinkSpec => []ClientsEnd
<1>1. LInv => ClientsEnd
  <2>. SUFFICES ASSUME LInv PROVE ClientsEnd
    OBVIOUS
  <2>1. StoppedMeansNoClient /\ NothingAfterStopped
    BY DEF LInv, EndInv, EndIsEnd, AtEnd, StoppedMeansNoClient, NothingAfterStopped
  <2>2. ASSUME Quiet, word = "cancel" PROVE clients = {}
    <3>1. Cancelling
      BY <2>2, EmptyQueue DEF Quiet, LInv, EndInv, CancelInv, CancelIsLast
    <3>. QED BY <2>2, <3>1 DEF Quiet, Cancelling, LInv, Shapes, ClientInv, Held
  <2>. QED BY <2>1, <2>2 DEF ClientsEnd, CancelLeavesNoClient
<1>. QED BY <1>1, LinkInvariance, PTL

-----------------------------------------------------------------------------
(* The device store.  What the owner knows about the numbers of links, the *)
(* offers to retry, a revoked store and the stop it waits for.             *)
DiskState == [store : {"none", "fresh", "paired"}, revoked : BOOLEAN, marker : BOOLEAN]

(* No message, client, send or session is of a link that comes later; a    *)
(* link that did not start yet has none.                                   *)
Before(generation) ==
    /\ \A i \in Index(inbox) : inbox[i].type = "client" => inbox[i].link < generation
    /\ \A c \in clients \cup sends \cup {session.generation} : c < generation
Unheard(generation) ==
    \A i \in Index(inbox) : inbox[i].type = "client" => inbox[i].link # generation
Numbers ==
    /\ Before(link.generation + 1)
    /\ link.at \in {"stopOld", "open"} => Before(link.generation)
    /\ link.at = "start" /\ IsLink(link.generation) => Unheard(link.generation)

(* A retry was asked before the client of the link started.                *)
NoRetry == \A i \in Index(inbox) : inbox[i].type # "retry"
RetryIsOld ==
    link.bot # 0 =>
        /\ shown.line # "retry"
        /\ \A i, j \in Index(inbox) :
              i < j /\ inbox[i].type = "client" /\ inbox[i].link = link.generation =>
                inbox[j].type # "retry"

(* A store that is known to be revoked has no retry, and a link on it only *)
(* starts after its delete.                                                *)
RevokedIsKnown ==
    /\ link.at = "mark" /\ ~link.marked => link.stale
    /\ link.at \in Starting \/ link.bot # 0 => link.pairing
    /\ link.stale \/ disk.marker =>
        /\ shown.line # "retry" /\ NoRetry
        /\ link.at # "start"
        /\ link.at \in {"stopOld", "open"} => link.allowDelete

(* The stop that deletes the store is the one that runs; a link starts     *)
(* with no stop left.                                                      *)
StopIsKnown ==
    /\ link.at = "stopEvent" => \A s \in stops : s.stop = link.wait
    /\ link.at \in Starting \/ link.bot # 0 => link.stopping = 0

StoreInv == disk \in DiskState /\ Numbers /\ RetryIsOld /\ RevokedIsKnown /\ StopIsKnown

LEMMA StoreInit == LinkInit => StoreInv
<1>. SUFFICES ASSUME LinkInit PROVE StoreInv
  OBVIOUS
<1>1. disk \in DiskState /\ ~disk.marker
  <2> DEFINE no == FALSE
             none == "none"
  <2>1. no \in BOOLEAN /\ none \in {"none", "fresh", "paired"} OBVIOUS
  <2>2. DeletedStore = [store |-> none, revoked |-> no, marker |-> no]
    BY DEF DeletedStore
  <2> HIDE DEF no, none
  <2>3. DeletedStore \in DiskState /\ DeletedStore.marker = no
    BY <2>1, <2>2 DEF DiskState
  <2>4. DeletedStore \in DiskState /\ ~DeletedStore.marker BY <2>3 DEF no
  <2>. QED BY <2>4 DEF LinkInit, DiskState
<1>2. inbox = <<>> /\ Index(inbox) = {} BY EmptyQueue DEF LinkInit
<1>3. /\ link.at = "idle" /\ link.generation = 0 /\ link.bot = 0 /\ ~link.stale
      /\ session.generation = 0 /\ clients = {} /\ sends = {}
  BY DEF LinkInit, NewOwner, NewSession
<1>. QED BY <1>1, <1>2, <1>3 DEF StoreInv, Numbers, Before, RetryIsOld, RevokedIsKnown, StopIsKnown,
       Starting

LEMMA RestartStore == StoreInv /\ Restart => StoreInv'
<1>. SUFFICES ASSUME StoreInv, Restart PROVE StoreInv'
  OBVIOUS
<1>1. disk' = disk BY DEF Restart
<1>2. inbox' = <<>> /\ Index(inbox') = {} BY EmptyQueue DEF Restart
<1>3. /\ link'.at = "idle" /\ link'.generation = 0 /\ link'.bot = 0 /\ ~link'.stale
      /\ session'.generation = 0 /\ clients' = {} /\ sends' = {} /\ shown'.line = "other"
  BY DEF Restart, NewOwner, NewSession, NewRow
<1>. QED BY <1>1, <1>2, <1>3 DEF StoreInv, Numbers, Before, RetryIsOld, RevokedIsKnown, StopIsKnown,
       Starting, NoRetry

-----------------------------------------------------------------------------
(* What the owner takes from its queue leaves these facts as they are.     *)
LEMMA QueueKeeps ==
  ASSUME LInv, Queue
  PROVE  \A i \in Index(inbox') : \E j \in Index(inbox) :
            inbox'[i] = inbox[j] /\ (Shorter => j = i + 1) /\ (~Shorter => j = i)
BY DEF Queue, Shorter, Index

LEMMA RetryStaysAway ==
  ASSUME LInv, Queue, NoRetry
  PROVE  NoRetry'
BY QueueKeeps DEF NoRetry

LEMMA OwnerNumbers ==
  ASSUME LInv, Numbers, Queue, UNCHANGED sends, clients' \subseteq clients,
         session'.generation \in {session.generation, 0},
         link'.generation \in {link.generation, link.generation + 1}, link'.at # "start",
         link'.at \in {"stopOld", "open"} =>
           link'.generation = link.generation + 1 \/ link.at \in {"stopOld", "open"}
  PROVE  Numbers'
<1>1. link.generation \in Nat /\ session.generation \in Nat /\ clients \subseteq Nat /\ sends \subseteq Nat
  BY DEF LInv, Shapes, OwnerState, SessionState
<1>2. \A i \in Index(inbox) : inbox[i].type = "client" => inbox[i].link \in Nat
  BY DEF LInv, Shapes, Message, Index
<1>3. ASSUME NEW g \in Nat, Before(g), NEW h \in Nat, g <= h, 0 < h PROVE Before(h)'
  <2>1. ASSUME NEW i \in Index(inbox'), inbox'[i].type = "client" PROVE inbox'[i].link < h
    BY <1>2, <1>3, <2>1, QueueKeeps DEF Before
  <2>2. ASSUME NEW c \in clients' \cup sends' \cup {session'.generation} PROVE c < h
    <3>1. c = 0 \/ c \in clients \cup sends \cup {session.generation} BY <2>2
    <3>2. ASSUME c # 0 PROVE c \in Nat /\ c < g BY <1>1, <1>3, <3>1, <3>2 DEF Before
    <3>. QED BY <1>3, <3>2
  <2>. QED BY <2>1, <2>2 DEF Before
<1>4. Before(link.generation + 1) BY DEF Numbers
<1>5. ASSUME NEW h \in Nat, h = link'.generation + 1 PROVE Before(h)'
  <2>1. PICK g \in Nat : g = link.generation + 1 BY <1>1
  <2>2. Before(g) /\ g <= h /\ 0 < h BY <1>1, <1>4, <1>5, <2>1
  <2>. QED BY <1>3, <2>1, <2>2
<1>6. ASSUME link'.at \in {"stopOld", "open"}, NEW h \in Nat, h = link'.generation PROVE Before(h)'
  <2>1. CASE h = link.generation + 1 BY <1>1, <1>3, <1>4, <2>1
  <2>2. CASE h = link.generation /\ link.at \in {"stopOld", "open"}
    <3>1. Before(h) /\ h # 0 BY <2>2 DEF Numbers, LInv, ClientInv, AtWait, Starting
    <3>. QED BY <1>3, <3>1
  <2>. QED BY <1>6, <2>1, <2>2
<1>7. link'.generation \in Nat /\ link'.generation + 1 \in Nat BY <1>1
<1>. QED BY <1>5, <1>6, <1>7 DEF Numbers, Before

LEMMA OwnerRetry ==
  ASSUME LInv, Numbers, RetryIsOld, Queue,
         link'.generation \in {link.generation, link.generation + 1},
         link'.bot # 0 => link.bot # 0 /\ shown'.line # "retry"
  PROVE  RetryIsOld'
<1>. SUFFICES ASSUME link'.bot # 0, NEW i \in Index(inbox'), NEW j \in Index(inbox'), i < j,
                     inbox'[i].type = "client", inbox'[i].link = link'.generation
              PROVE  inbox'[j].type # "retry"
  BY DEF RetryIsOld
<1>1. PICK k \in Index(inbox) : inbox'[i] = inbox[k] /\ (Shorter => k = i + 1) /\ (~Shorter => k = i)
  BY QueueKeeps
<1>2. PICK l \in Index(inbox) : inbox'[j] = inbox[l] /\ (Shorter => l = j + 1) /\ (~Shorter => l = j)
  BY QueueKeeps
<1>3. i \in Nat /\ j \in Nat /\ k < l BY <1>1, <1>2 DEF Index
<1>4. link.generation \in Nat /\ inbox[k].link < link.generation + 1
  BY <1>1 DEF Numbers, Before, LInv, Shapes, OwnerState
<1>5. inbox[k].link = link.generation BY <1>1, <1>4
<1>. QED BY <1>1, <1>2, <1>3, <1>5 DEF RetryIsOld

(* A step of the owner that starts nothing: it takes at most one message,  *)
(* it marks nothing, and a link that is being opened comes from a new      *)
(* command.                                                                *)
LEMMA OwnerStore ==
  ASSUME LInv, StoreInv, disk' \in DiskState, Queue, UNCHANGED sends, clients' \subseteq clients,
         session'.generation \in {session.generation, 0},
         link'.generation \in {link.generation, link.generation + 1}, link'.at # "start",
         link'.at \in {"stopOld", "open"} =>
           link'.generation = link.generation + 1 \/ link.at \in {"stopOld", "open"},
         link'.bot # 0 => link.bot # 0 /\ shown'.line # "retry",
         link'.at = "mark" /\ ~link'.marked => link'.stale,
         link'.at \in Starting \/ link'.bot # 0 => link'.pairing /\ link'.stopping = 0,
         link'.stale \/ disk'.marker =>
           /\ shown'.line # "retry" /\ (NoRetry \/ NoRetry')
           /\ link'.at \in {"stopOld", "open"} => link'.allowDelete,
         link'.at = "stopEvent" => \A s \in stops' : s.stop = link'.wait
  PROVE  StoreInv'
<1>1. Numbers' BY OwnerNumbers DEF StoreInv
<1>2. RetryIsOld' BY OwnerRetry DEF StoreInv
<1>3. RevokedIsKnown' BY RetryStaysAway DEF RevokedIsKnown
<1>4. StopIsKnown' BY DEF StopIsKnown
<1>. QED BY <1>1, <1>2, <1>3, <1>4 DEF StoreInv

-----------------------------------------------------------------------------
(* What the owner keeps when it stops a client.                            *)
LEMMA StopBotFields ==
  ASSUME NEW holder \in OwnerState, NEW at \in {"idle"} \cup Waiting, StopBot(holder, at)
  PROVE  /\ link'.stale = holder.stale /\ link'.pairing = holder.pairing
         /\ link'.allowDelete = holder.allowDelete /\ link'.marked = holder.marked
         /\ link'.stopping = holder.stopping
<1> DEFINE next == holder.stop + 1
           none == 0
<1>1. link' = [holder EXCEPT !.at = at, !.stop = next, !.wait = next, !.bot = none]
  BY DEF StopBot
<1> HIDE DEF next, none
<1>. QED BY <1>1 DEF OwnerState

LEMMA StopClientFields ==
  ASSUME NEW holder \in OwnerState, NEW at \in {"idle"} \cup Waiting, StopClient(holder, at)
  PROVE  /\ link'.at = at /\ link'.generation = holder.generation /\ link'.bot = 0
         /\ link'.stale = holder.stale
<1>1. CASE holder.bot # 0 BY <1>1, StopBotSets, StopBotFields DEF StopClient
<1>2. CASE holder.bot = 0
  <2> DEFINE none == 0
  <2>1. link' = [holder EXCEPT !.at = at, !.wait = none] BY <1>2 DEF StopClient
  <2> HIDE DEF none
  <2>. QED BY <1>2, <2>1 DEF OwnerState
<1>. QED BY <1>1, <1>2

(* A start asks for a link with a new number, and stops the client that    *)
(* runs; with a stop that goes on it only leaves the number of that stop.  *)
LEMMA StartSets ==
  ASSUME LInv, StopIsKnown, link.at = "idle", NEW allowDelete \in BOOLEAN,
         NEW resume \in BOOLEAN, StartLink(allowDelete, resume)
  PROVE  /\ link'.generation = link.generation + 1 /\ link'.pairing
         /\ link'.allowDelete = allowDelete /\ link'.stale = link.stale
         /\ link'.at \in {"idle", "stopOld", "open"} /\ link'.bot = 0
         /\ link'.at # "idle" => link'.stopping = 0
         /\ shown'.line \in {shown.line, "other"}
<1> DEFINE holder == [link EXCEPT !.generation = @ + 1, !.pairing = TRUE, !.resume = resume,
                                 !.allowDelete = allowDelete, !.stopping = Stopping]
<1>1. link \in OwnerState /\ Stopping \in Nat /\ (~StillStopping => Stopping = 0)
  BY DEF LInv, Shapes, OwnerState, Stopping
<1>2. /\ holder \in OwnerState /\ holder.at = "idle" /\ holder.bot = link.bot
      /\ holder.generation = link.generation + 1 /\ holder.pairing = TRUE
      /\ holder.allowDelete = allowDelete /\ holder.stale = link.stale /\ holder.stopping = Stopping
  <2> DEFINE next == link.generation + 1
             yes == TRUE
             left == Stopping
  <2>1. next \in Nat /\ yes \in BOOLEAN /\ left \in Nat BY <1>1 DEF OwnerState
  <2> DEFINE asked == [link EXCEPT !.generation = next, !.pairing = yes, !.resume = resume]
  <2>2. holder = [asked EXCEPT !.allowDelete = allowDelete, !.stopping = left] OBVIOUS
  <2>5. /\ asked \in OwnerState /\ asked.at = link.at /\ asked.bot = link.bot
        /\ asked.generation = next /\ asked.pairing = yes /\ asked.stale = link.stale
    <3> HIDE DEF next, yes
    <3>. QED BY <1>1, <2>1 DEF OwnerState
  <2> HIDE DEF next, yes, left, asked, holder
  <2>3. holder \in OwnerState BY <2>1, <2>2, <2>5 DEF OwnerState
  <2>4. /\ holder.at = link.at /\ holder.bot = link.bot /\ holder.generation = next
        /\ holder.pairing = yes /\ holder.allowDelete = allowDelete /\ holder.stale = link.stale
        /\ holder.stopping = left
    BY <2>1, <2>2, <2>5 DEF OwnerState
  <2>. QED BY <2>3, <2>4 DEF next, yes, left
<1>3. /\ StillStopping => link' = holder /\ Show("unlinked", "other")
      /\ ~StillStopping /\ link.bot # 0 => StopBot(holder, "stopOld") /\ UNCHANGED shown
      /\ ~StillStopping /\ link.bot = 0 => link' = [holder EXCEPT !.at = "open"] /\ UNCHANGED shown
  BY DEF StartLink
<1> HIDE DEF holder
<1>4. shown'.line \in {shown.line, "other"} BY <1>3 DEF Show, LInv, Shapes, RowState
<1>5. CASE StillStopping
  <2>1. link.bot = 0 BY <1>5 DEF StopIsKnown, StillStopping
  <2>. QED BY <1>2, <1>3, <1>4, <1>5, <2>1
<1>6. CASE ~StillStopping /\ link.bot # 0
  <2>1. "stopOld" \in {"idle"} \cup Waiting BY DEF Waiting
  <2>2. /\ link'.at = "stopOld" /\ link'.bot = 0 /\ link'.generation = holder.generation
        /\ link'.stale = holder.stale /\ link'.pairing = holder.pairing
        /\ link'.allowDelete = holder.allowDelete /\ link'.stopping = holder.stopping
    BY <1>2, <1>3, <1>6, <2>1, StopBotSets, StopBotFields
  <2>. QED BY <1>1, <1>2, <1>4, <1>6, <2>2
<1>7. CASE ~StillStopping /\ link.bot = 0
  <2>1. /\ link'.at = "open" /\ link'.bot = holder.bot /\ link'.generation = holder.generation
        /\ link'.stale = holder.stale /\ link'.pairing = holder.pairing
        /\ link'.allowDelete = holder.allowDelete /\ link'.stopping = holder.stopping
    BY <1>2, <1>3, <1>7 DEF OwnerState
  <2>. QED BY <1>1, <1>2, <1>4, <1>7, <2>1
<1>. QED BY <1>5, <1>6, <1>7

LEMMA WaitedFields ==
  ASSUME LInv
  PROVE  /\ Waited(link).at = link.at /\ Waited(link).generation = link.generation
         /\ Waited(link).stale = link.stale /\ Waited(link).pairing = link.pairing
BY DEF LInv, Shapes, OwnerState, Waited

LEMMA WaitedAt ==
  ASSUME LInv, NEW at \in {"idle", "open"}, link' = [Waited(link) EXCEPT !.at = at]
  PROVE  /\ link'.at = at /\ link'.generation = link.generation /\ link'.bot = link.bot
         /\ link'.stale = link.stale /\ link'.pairing = link.pairing
<1>1. Waited(link) \in OwnerState BY WaitedSets
<1>2. /\ link'.at = at /\ link'.generation = Waited(link).generation
      /\ link'.bot = Waited(link).bot /\ link'.stale = Waited(link).stale
      /\ link'.pairing = Waited(link).pairing
  BY <1>1 DEF OwnerState
<1>. QED BY <1>2, WaitedSets, WaitedFields

-----------------------------------------------------------------------------
(* The owner asks for a link.                                              *)
LEMMA StartStore ==
  ASSUME LInv, StoreInv, NEW type \in StartType, OwnerTakes(type), NEW allowDelete \in BOOLEAN,
         NEW resume \in BOOLEAN, StartLink(allowDelete, resume),
         UNCHANGED <<clients, session, disk>>, allowDelete \/ ~(link.stale \/ disk.marker)
  PROVE  StoreInv'
<1>1. Queue /\ link.at = "idle" /\ UNCHANGED sends BY TakesActive
<1>2. /\ link'.generation = link.generation + 1 /\ link'.pairing
      /\ link'.allowDelete = allowDelete /\ link'.stale = link.stale
      /\ link'.at \in {"idle", "stopOld", "open"} /\ link'.bot = 0
      /\ link'.at # "idle" => link'.stopping = 0
      /\ shown'.line \in {shown.line, "other"}
  BY <1>1, StartSets DEF StoreInv
<1>3. link'.stale \/ disk'.marker => shown'.line # "retry" /\ NoRetry /\ allowDelete
  BY <1>2 DEF StoreInv, RevokedIsKnown
<1>. QED BY <1>1, <1>2, <1>3, OwnerStore DEF StoreInv, Starting

LEMMA TakeBeginStore == LInv /\ StoreInv /\ TakeBegin => StoreInv'
BY StartStore DEF TakeBegin, StartType

LEMMA TakeRetryStore == LInv /\ StoreInv /\ TakeRetry => StoreInv'
<1>. SUFFICES ASSUME LInv, StoreInv, TakeRetry PROVE StoreInv'
  OBVIOUS
<1>1. OwnerTakes("retry") /\ UNCHANGED <<clients, session, disk>> /\ link.resume \in BOOLEAN
  BY DEF TakeRetry, LInv, Shapes, OwnerState
<1>2. Queue /\ link.at = "idle" /\ UNCHANGED sends /\ 1 \in Index(inbox) /\ inbox[1].type = "retry"
  BY <1>1, TakesActive DEF Shorter
<1>3. ~(link.stale \/ disk.marker) BY <1>2 DEF StoreInv, RevokedIsKnown, NoRetry
<1>4. CASE link.pairing BY <1>1, <1>3, <1>4, StartStore DEF TakeRetry, StartType
<1>5. CASE ~link.pairing
  <2>1. UNCHANGED <<link, stops>> /\ link.bot = 0
    BY <1>5 DEF TakeRetry, StoreInv, RevokedIsKnown
  <2>. QED BY <1>1, <1>2, <1>3, <2>1, OwnerStore DEF StoreInv, Starting
<1>. QED BY <1>4, <1>5

LEMMA TakeResumeStore == LInv /\ StoreInv /\ TakeResume => StoreInv'
<1>. SUFFICES ASSUME LInv, StoreInv, TakeResume PROVE StoreInv'
  OBVIOUS
<1>1. OwnerTakes("resume") /\ UNCHANGED <<clients, session, disk>> BY DEF TakeResume
<1>2. Queue /\ link.at = "idle" /\ UNCHANGED sends BY <1>1, TakesActive
<1>3. CASE link.bot # 0 \/ link.pairing
  <2>1. UNCHANGED <<link, stops, shown>> BY <1>3 DEF TakeResume
  <2>2. /\ link.bot # 0 => link.pairing /\ link.stopping = 0 /\ shown.line # "retry"
        /\ link.stale \/ disk.marker => shown.line # "retry" /\ NoRetry
    BY DEF StoreInv, RevokedIsKnown, StopIsKnown, RetryIsOld
  <2>. QED BY <1>1, <1>2, <2>1, <2>2, OwnerStore DEF StoreInv, Starting
<1>4. CASE /\ ~(link.bot # 0 \/ link.pairing)
           /\ StillStopping \/ link.stale \/ disk.marker \/ disk.store = "none"
  <2>1. link' = [link EXCEPT !.stopping = Stopping] /\ UNCHANGED <<stops, shown>>
    BY <1>4 DEF TakeResume
  <2>2. /\ link'.at = link.at /\ link'.bot = link.bot /\ link'.stale = link.stale
        /\ link'.generation = link.generation
    BY <2>1 DEF LInv, Shapes, OwnerState
  <2>3. link.stale \/ disk.marker => shown.line # "retry" /\ NoRetry
    BY DEF StoreInv, RevokedIsKnown
  <2>. QED BY <1>1, <1>2, <1>4, <2>1, <2>2, <2>3, OwnerStore DEF StoreInv, Starting
<1>5. CASE /\ ~(link.bot # 0 \/ link.pairing)
           /\ ~(StillStopping \/ link.stale \/ disk.marker \/ disk.store = "none")
  <2>1. StartLink(FALSE, TRUE) BY <1>5 DEF TakeResume
  <2>. QED BY <1>1, <1>5, <2>1, StartStore DEF StartType
<1>. QED BY <1>3, <1>4, <1>5

LEMMA OldStoppedStore == LInv /\ StoreInv /\ OldStopped => StoreInv'
<1>. SUFFICES ASSUME LInv, StoreInv, OldStopped PROVE StoreInv'
  OBVIOUS
<1>1. Queue /\ UNCHANGED sends /\ link.at = "stopOld" /\ link.bot = 0
  BY ActsActive DEF OldStopped, OwnerAt, LInv, ClientInv, AtWait, Starting
<1>2. /\ link.pairing /\ link.stopping = 0
      /\ link.stale \/ disk.marker => shown.line # "retry" /\ NoRetry /\ link.allowDelete
  BY <1>1 DEF StoreInv, RevokedIsKnown, StopIsKnown, Starting
<1>3. CASE InTime /\ link' = [link EXCEPT !.at = "open"] /\ UNCHANGED shown
  <2>1. /\ link'.at = "open" /\ link'.generation = link.generation /\ link'.bot = link.bot
        /\ link'.stale = link.stale /\ link'.pairing = link.pairing
        /\ link'.stopping = link.stopping /\ link'.allowDelete = link.allowDelete
    BY <1>3 DEF LInv, Shapes, OwnerState
  <2>. QED BY <1>1, <1>2, <1>3, <2>1, OwnerStore DEF StoreInv, OldStopped, Starting
<1>4. CASE link' = [Waited(link) EXCEPT !.at = "idle"] /\ Show("unlinked", "other")
  <2>1. link'.at = "idle" /\ link'.generation = link.generation /\ link'.bot = 0
        /\ link'.stale = link.stale
    BY <1>1, <1>4, WaitedAt
  <2>2. shown'.line = "other" BY <1>4 DEF Show, LInv, Shapes, RowState
  <2>. QED BY <1>1, <1>2, <2>1, <2>2, OwnerStore DEF StoreInv, OldStopped, Starting
<1>. QED BY <1>3, <1>4 DEF OldStopped

(* A wait that is over with no link to start.                              *)
LEMMA RestStore ==
  ASSUME LInv, StoreInv, disk' \in DiskState, Queue, UNCHANGED <<sends, clients, session>>,
         link'.at = "idle", link'.generation = link.generation, link'.bot = 0,
         link'.stale => link.stale, disk'.marker => disk.marker,
         shown'.line = "retry" => shown.line = "retry" \/ ~(link.stale \/ disk.marker)
  PROVE  StoreInv'
<1>1. link'.stale \/ disk'.marker => shown'.line # "retry" /\ NoRetry
  BY DEF StoreInv, RevokedIsKnown
<1>. QED BY <1>1, OwnerStore DEF Starting

(* What a delete leaves.                                                   *)
LEMMA Deleted ==
  /\ DeletedStore \in DiskState /\ ~DeletedStore.marker
  /\ disk \in DiskState => \A d \in AfterFailedDelete : d \in DiskState /\ d.marker = disk.marker
<1> DEFINE no == FALSE
           none == "none"
<1>1. no \in BOOLEAN /\ none \in {"none", "fresh", "paired"} OBVIOUS
<1>2. /\ DeletedStore = [store |-> none, revoked |-> no, marker |-> no]
      /\ AfterFailedDelete = {disk, [disk EXCEPT !.store = none, !.revoked = no]}
  BY DEF DeletedStore, AfterFailedDelete
<1> HIDE DEF no, none
<1>3. DeletedStore \in DiskState /\ DeletedStore.marker = no BY <1>1, <1>2 DEF DiskState
<1>4. ASSUME disk \in DiskState, NEW d \in AfterFailedDelete
      PROVE  d \in DiskState /\ d.marker = disk.marker
  <2>1. d = disk \/ d = [disk EXCEPT !.store = none, !.revoked = no] BY <1>2
  <2>. QED BY <1>1, <1>4, <2>1 DEF DiskState
<1>5. ~no BY DEF no
<1>. QED BY <1>3, <1>4, <1>5

LEMMA OpenLinkStore == LInv /\ StoreInv /\ OpenLink => StoreInv'
<1>. SUFFICES ASSUME LInv, StoreInv, OpenLink PROVE StoreInv'
  OBVIOUS
<1>0. OwnerAt("open") BY DEF OpenLink
<1>1. /\ UNCHANGED <<inbox, sends, stops, clients>> /\ link.at = "open" /\ link.bot = 0 /\ Queue
      /\ link.generation # 0 /\ link.generation \in Nat
  BY <1>0, ActsActive DEF OpenLink, OwnerAt, LInv, ClientInv, AtWait, Starting, Shapes, OwnerState
<1>2. /\ Before(link.generation) /\ link.pairing /\ link.stopping = 0
      /\ link.stale \/ disk.marker => shown.line # "retry" /\ NoRetry /\ link.allowDelete
  BY <1>1 DEF StoreInv, Numbers, RevokedIsKnown, StopIsKnown, Starting
<1>3. session'.generation = link.generation BY DEF OpenLink, LInv, Shapes, SessionState
<1>4. ASSUME link'.generation = link.generation, link'.at \in {"idle", "start"} PROVE Numbers'
  <2>1. ASSUME NEW g \in Nat, g = link.generation PROVE Before(g + 1)' /\ Unheard(g)'
    <3>1. \A i \in Index(inbox) : inbox[i].type = "client" => inbox[i].link \in Nat
      BY DEF LInv, Shapes, Message, Index
    <3>2. clients \subseteq Nat /\ sends \subseteq Nat BY DEF LInv, Shapes
    <3>. QED BY <1>1, <1>2, <1>3, <2>1, <3>1, <3>2 DEF Before, Unheard, Index
  <2>. QED BY <1>1, <1>4, <2>1 DEF Numbers, Before, Unheard
<1>5. ASSUME /\ link'.generation = link.generation /\ link'.at = "start" /\ link'.bot = 0
             /\ link'.pairing /\ link'.stopping = 0,
             disk' \in DiskState, ~(link'.stale \/ disk'.marker)
      PROVE  StoreInv'
  BY <1>4, <1>5 DEF StoreInv, RetryIsOld, RevokedIsKnown, StopIsKnown
<1>6. CASE ~(link.allowDelete /\ (link.stale \/ disk.marker))
  <2>1. link' = [link EXCEPT !.at = "start"] /\ disk' = disk BY <1>6 DEF OpenLink
  <2>2. /\ link'.generation = link.generation /\ link'.at = "start" /\ link'.bot = link.bot
        /\ link'.pairing = link.pairing /\ link'.stopping = link.stopping
        /\ link'.stale = link.stale
    BY <2>1 DEF LInv, Shapes, OwnerState
  <2>. QED BY <1>1, <1>2, <1>5, <1>6, <2>1, <2>2 DEF StoreInv
<1>7. CASE disk' = DeletedStore /\ link' = [link EXCEPT !.at = "start", !.stale = FALSE]
  <2>1. /\ link'.generation = link.generation /\ link'.at = "start" /\ link'.bot = link.bot
        /\ link'.pairing = link.pairing /\ link'.stopping = link.stopping
        /\ link'.stale = FALSE
    BY <1>7 DEF LInv, Shapes, OwnerState
  <2>. QED BY <1>1, <1>2, <1>5, <1>7, <2>1, Deleted
<1>8. CASE /\ disk' \in AfterFailedDelete /\ link' = [link EXCEPT !.at = "idle"]
           /\ Show("unlinked", "other")
  <2>1. /\ link'.generation = link.generation /\ link'.at = "idle" /\ link'.bot = link.bot
        /\ link'.stale = link.stale
    BY <1>8 DEF LInv, Shapes, OwnerState
  <2>2. disk' \in DiskState /\ disk'.marker = disk.marker BY <1>8, Deleted DEF StoreInv
  <2>3. shown'.line = "other" BY <1>8 DEF Show, LInv, Shapes, RowState
  <2>4. Numbers' BY <1>4, <2>1
  <2>5. link.stale \/ disk.marker => NoRetry' BY <1>2, RetryStaysAway, <1>1
  <2>. QED BY <1>1, <2>1, <2>2, <2>3, <2>4, <2>5 DEF StoreInv, RetryIsOld, RevokedIsKnown, StopIsKnown, Starting
<1>. QED BY <1>6, <1>7, <1>8 DEF OpenLink

(* A client starts on a store that nobody knows to be revoked.             *)
LEMMA ClientStartsStore == LInv /\ StoreInv /\ ClientStarts => StoreInv'
<1>. SUFFICES ASSUME LInv, StoreInv, ClientStarts PROVE StoreInv'
  OBVIOUS
<1>0. OwnerAt("start") BY DEF ClientStarts
<1>1. /\ UNCHANGED <<inbox, sends, session>> /\ link.at = "start" /\ link.bot = 0 /\ Queue
      /\ link.generation # 0 /\ link.generation \in Nat
      /\ clients' = clients \cup {link.generation}
  BY <1>0, ActsActive DEF ClientStarts, OwnerAt, LInv, ClientInv, AtWait, Starting, Shapes, OwnerState
<1>2. /\ ~link.stale /\ ~disk.marker /\ link.pairing /\ link.stopping = 0
      /\ IsLink(link.generation) => Unheard(link.generation)
      /\ Before(link.generation + 1)
  BY <1>1 DEF StoreInv, Numbers, RevokedIsKnown, StopIsKnown, Starting
<1>3. disk' \in DiskState /\ ~disk'.marker BY <1>2 DEF ClientStarts, StoreInv, DiskState
<1>4. ASSUME link'.generation = link.generation, link'.at \in {"idle", "stopNew"} PROVE Numbers'
  <2>1. ASSUME NEW g \in Nat, g = link.generation PROVE Before(g + 1)'
    BY <1>1, <1>2, <2>1 DEF Before, Index
  <2>. QED BY <1>1, <1>4, <2>1 DEF Numbers, Before
<1> DEFINE holder == [link EXCEPT !.bot = link.generation]
<1>5. /\ holder \in OwnerState /\ holder.generation = link.generation
      /\ holder.stale = link.stale /\ holder.pairing = link.pairing /\ holder.stopping = link.stopping
  BY DEF LInv, Shapes, OwnerState
<1>6. /\ IsLink(link.generation) => link' = [holder EXCEPT !.at = "idle"] /\ ShowLine("other")
      /\ ~IsLink(link.generation) => StopBot(holder, "stopNew")
  BY DEF ClientStarts
<1> HIDE DEF holder
<1>7. CASE IsLink(link.generation)
  <2>1. /\ link'.at = "idle" /\ link'.generation = holder.generation /\ link'.stale = holder.stale
        /\ link'.pairing = holder.pairing /\ link'.stopping = holder.stopping
    BY <1>5, <1>6, <1>7 DEF OwnerState
  <2>2. shown'.line = "other" BY <1>6, <1>7 DEF ShowLine, Show, LInv, Shapes, RowState
  <2>3. Numbers' BY <1>4, <1>5, <2>1
  <2>4. RetryIsOld' BY <1>1, <1>2, <1>5, <1>7, <2>1, <2>2 DEF RetryIsOld, Unheard, Index
  <2>. QED BY <1>2, <1>3, <1>5, <2>1, <2>3, <2>4 DEF StoreInv, RevokedIsKnown, StopIsKnown
<1>8. CASE ~IsLink(link.generation)
  <2>1. "stopNew" \in {"idle"} \cup Waiting BY DEF Waiting
  <2>2. /\ link'.at = "stopNew" /\ link'.bot = 0 /\ link'.generation = holder.generation
        /\ link'.stale = holder.stale
    BY <1>5, <1>6, <1>8, <2>1, StopBotSets, StopBotFields
  <2>3. Numbers' BY <1>4, <1>5, <2>2
  <2>. QED BY <1>2, <1>3, <1>5, <2>2, <2>3 DEF StoreInv, RetryIsOld, RevokedIsKnown, StopIsKnown, Starting
<1>. QED BY <1>7, <1>8

LEMMA NewStoppedStore == LInv /\ StoreInv /\ NewStopped => StoreInv'
<1>. SUFFICES ASSUME LInv, StoreInv, NewStopped PROVE StoreInv'
  OBVIOUS
<1>1. Queue /\ UNCHANGED <<sends, clients, session, disk>> /\ link.bot = 0
  BY ActsActive DEF NewStopped, OwnerAt, LInv, ClientInv, AtWait, Waiting
<1>2. /\ link'.at = "idle" /\ link'.generation = link.generation /\ link'.bot = 0
      /\ link'.stale = link.stale
  BY <1>1, WaitedAt DEF NewStopped
<1>3. shown' = shown \/ shown'.line = "pending"
  BY DEF NewStopped, ShowLine, Show, LInv, Shapes, RowState
<1>. QED BY <1>1, <1>2, <1>3, RestStore DEF StoreInv

LEMMA StartFailsStore ==
  ASSUME LInv, StoreInv, NEW why \in {"denied", "wrongKey", "notMoved", "build", "notPaired"},
         StartFails(why)
  PROVE  StoreInv'
<1>0. OwnerAt("start") BY DEF StartFails
<1>1. /\ Queue /\ UNCHANGED <<sends, clients, session>> /\ link.at = "start" /\ link.bot = 0
  BY <1>0, ActsActive DEF StartFails, OwnerAt, LInv, ClientInv, AtWait, Starting
<1>2. ~link.stale /\ ~disk.marker BY <1>1 DEF StoreInv, RevokedIsKnown
<1>3. disk' \in DiskState /\ ~disk'.marker
  <2>1. \/ disk' = DeletedStore \/ disk' = disk \/ disk' = [disk EXCEPT !.store = "fresh"]
    BY DEF StartFails
  <2>. QED BY <1>2, <2>1, Deleted DEF StoreInv, DiskState
<1>4. /\ link'.at = "idle" /\ link'.generation = link.generation /\ link'.bot = link.bot
      /\ link'.stale = link.stale
  <2> DEFINE asked == (why # "notPaired")
             again == (link.resume /\ why # "notPaired")
  <2>1. \/ link' = [link EXCEPT !.at = "idle", !.pairing = asked, !.resume = again]
        \/ link' = [link EXCEPT !.at = "idle"]
    BY DEF StartFails
  <2> HIDE DEF asked, again
  <2>. QED BY <2>1 DEF LInv, Shapes, OwnerState
<1>. QED BY <1>1, <1>2, <1>3, <1>4, RestStore

-----------------------------------------------------------------------------
(* The owner hears of a client, and stops it.                              *)
LEMMA SameStore ==
  ASSUME LInv, StoreInv, Queue, link.at = "idle", UNCHANGED <<link, sends, disk>>,
         clients' \subseteq clients, session'.generation \in {session.generation, 0},
         shown'.line \in {shown.line, "other"}
  PROVE  StoreInv'
<1>1. /\ link.bot # 0 => link.pairing /\ link.stopping = 0 /\ shown.line # "retry"
      /\ link.stale \/ disk.marker => shown.line # "retry" /\ NoRetry
  BY DEF StoreInv, RevokedIsKnown, StopIsKnown, RetryIsOld
<1>. QED BY <1>1, OwnerStore DEF StoreInv, Starting

LEMMA TakeClientStore == LInv /\ StoreInv /\ TakeClient => StoreInv'
<1>. SUFFICES ASSUME LInv, StoreInv, TakeClient PROVE StoreInv'
  OBVIOUS
<1>1. OwnerTakes("client") /\ UNCHANGED <<stops, clients, disk>> BY DEF TakeClient
<1>2. /\ Shorter /\ Queue /\ inbox[1].type = "client" /\ Head(inbox) = inbox[1]
      /\ UNCHANGED sends /\ link.at = "idle"
  BY <1>1, TakesActive
<1> DEFINE msg == Head(inbox)
<1>3. CASE ~Current(msg) BY <1>1, <1>2, <1>3, SameStore DEF TakeClient
<1>4. CASE Current(msg)
  <2>1. ApplyMsg(msg) BY <1>4 DEF TakeClient
  <2>2. session'.generation \in {session.generation, 0} /\ shown'.line \in {shown.line, "other"}
    <3>1. msg.event \in ClientEvent BY <1>2 DEF Shorter, Message
    <3>2. /\ shown' = shown \/ \E account : Show(account, "other")
          /\ \/ session' = session
             \/ session' = [session EXCEPT !.connected = TRUE]
             \/ session' = [session EXCEPT !.connected = FALSE]
             \/ session' = [session EXCEPT !.generation = 0, !.connected = FALSE,
                                            !.stopped = TRUE]
             \/ session' = [session EXCEPT !.connected = FALSE, !.stopped = TRUE]
      <4> HIDE DEF msg
      <4>. QED BY <2>1, <3>1 DEF ApplyMsg, ShowLine, ClientEvent
    <3>3. shown'.line \in {shown.line, "other"} BY <3>2 DEF Show, LInv, Shapes, RowState
    <3>4. session'.generation \in {session.generation, 0}
      <4> DEFINE none == 0
                 no == FALSE
                 yes == TRUE
      <4>1. \/ session' = session
            \/ session' = [session EXCEPT !.connected = yes]
            \/ session' = [session EXCEPT !.connected = no]
            \/ session' = [session EXCEPT !.generation = none, !.connected = no, !.stopped = yes]
            \/ session' = [session EXCEPT !.connected = no, !.stopped = yes]
        BY <3>2
      <4> HIDE DEF none, no, yes
      <4>2. session'.generation \in {session.generation, none}
        BY <4>1 DEF LInv, Shapes, SessionState
      <4>. QED BY <4>2 DEF none
    <3>. QED BY <3>3, <3>4
  <2>3. CASE ~StopsLink(msg.event)
    <3>1. link' = link BY <1>4, <2>3 DEF TakeClient
    <3>. QED BY <1>1, <1>2, <2>2, <3>1, SameStore
  <2>4. CASE StopsLink(msg.event)
    <3> DEFINE next == link.generation + 1
               kept == (msg.event # "loggedOut")
               lost == (link.stale \/ msg.event = "loggedOut")
    <3>1. link' = [link EXCEPT !.generation = next, !.at = "mark", !.marked = kept, !.stale = lost]
      BY <1>4, <2>4 DEF TakeClient
    <3> HIDE DEF next, kept, lost
    <3>2. /\ link'.generation = next /\ link'.at = "mark" /\ link'.marked = kept
          /\ link'.stale = lost /\ link'.bot = link.bot /\ link'.pairing = link.pairing
          /\ link'.stopping = link.stopping
      BY <3>1 DEF LInv, Shapes, OwnerState
    <3>3. /\ link.bot # 0 /\ link.pairing /\ link.stopping = 0 /\ shown.line # "retry"
          /\ inbox[1].link = link.generation
      BY <1>2, <1>4 DEF Current, StoreInv, RevokedIsKnown, StopIsKnown, RetryIsOld
    <3>4. /\ link'.generation = link.generation + 1
          /\ ~link'.marked => link'.stale
          /\ link'.stale => link.stale \/ msg.event = "loggedOut"
      BY <3>2 DEF next, kept, lost
    <3>5. NoRetry'
      <4>1. ASSUME NEW i \in Index(inbox') PROVE inbox'[i].type # "retry"
        <5>1. i + 1 \in Index(inbox) /\ 1 < i + 1 /\ inbox'[i] = inbox[i + 1] /\ 1 \in Index(inbox)
          BY <1>2 DEF Shorter
        <5>. QED BY <1>2, <3>3, <5>1 DEF StoreInv, RetryIsOld
      <4>. QED BY <4>1 DEF NoRetry
    <3>6. shown'.line # "retry" BY <2>2, <3>3
    <3>. QED BY <1>1, <1>2, <2>2, <3>2, <3>3, <3>4, <3>5, <3>6, OwnerStore DEF StoreInv, Starting
  <2>. QED BY <2>3, <2>4
<1>. QED BY <1>3, <1>4

LEMMA MarkRevokedStore == LInv /\ StoreInv /\ MarkRevoked => StoreInv'
<1>. SUFFICES ASSUME LInv, StoreInv, MarkRevoked PROVE StoreInv'
  OBVIOUS
<1>0. OwnerAt("mark") BY DEF MarkRevoked
<1>1. /\ Queue /\ UNCHANGED <<sends, clients, session, shown>> /\ link.at = "mark" /\ link.bot # 0
      /\ stops = {} /\ link \in OwnerState
  BY <1>0, ActsActive DEF MarkRevoked, OwnerAt, LInv, Shapes, ClientInv, AtWait, Held
<1>2. /\ ~link.marked => link.stale
      /\ link.stale \/ disk.marker => shown.line # "retry" /\ NoRetry
  BY <1>1 DEF StoreInv, RevokedIsKnown
<1>3. PICK saved \in BOOLEAN :
         /\ disk' = [disk EXCEPT !.marker = @ \/ (~link.marked /\ saved)]
         /\ StopBot([link EXCEPT !.marked = @ \/ saved], "stopEvent")
  BY DEF MarkRevoked
<1> DEFINE known == link.marked \/ saved
           holder == [link EXCEPT !.marked = known]
           mark == disk.marker \/ (~link.marked /\ saved)
<1>4. known \in BOOLEAN /\ mark \in BOOLEAN /\ (mark => disk.marker \/ ~link.marked)
  BY DEF StoreInv, DiskState
<1>5. disk' = [disk EXCEPT !.marker = mark] /\ StopBot(holder, "stopEvent") BY <1>3
<1> HIDE DEF known, mark
<1>6. disk' \in DiskState /\ disk'.marker = mark BY <1>4, <1>5 DEF StoreInv, DiskState
<1>7. /\ holder \in OwnerState /\ holder.stop = link.stop /\ holder.generation = link.generation
      /\ holder.stale = link.stale
  BY <1>1, <1>4 DEF OwnerState
<1> HIDE DEF holder
<1>8. "stopEvent" \in {"idle"} \cup Waiting BY DEF Waiting
<1>9. /\ link'.at = "stopEvent" /\ link'.bot = 0 /\ link'.generation = link.generation
      /\ link'.stale = link.stale /\ link'.wait = link.stop + 1
  BY <1>5, <1>7, <1>8, StopBotSets, StopBotFields
<1>10. \A s \in stops' : s.stop = link'.wait BY <1>1, <1>5, <1>7, <1>9 DEF StopBot
<1>11. link'.stale \/ disk'.marker => shown'.line # "retry" /\ NoRetry
  BY <1>1, <1>2, <1>4, <1>6, <1>9
<1>. QED BY <1>1, <1>6, <1>9, <1>10, <1>11, OwnerStore DEF Starting

LEMMA EventStoppedStore == LInv /\ StoreInv /\ EventStopped => StoreInv'
<1>. SUFFICES ASSUME LInv, StoreInv, EventStopped PROVE StoreInv'
  OBVIOUS
<1>1. Queue /\ UNCHANGED <<sends, clients, session>> /\ link.bot = 0
  BY ActsActive DEF EventStopped, OwnerAt, LInv, ClientInv, AtWait, Waiting
<1> DEFINE holder == [Waited(link) EXCEPT !.at = "idle"]
<1>2. /\ holder \in OwnerState /\ holder.at = "idle" /\ holder.generation = link.generation
      /\ holder.bot = 0 /\ holder.stale = link.stale
  <2>1. Waited(link) \in OwnerState BY WaitedSets
  <2>2. /\ holder \in OwnerState /\ holder.at = "idle" /\ holder.generation = Waited(link).generation
        /\ holder.bot = Waited(link).bot /\ holder.stale = Waited(link).stale
    BY <2>1 DEF OwnerState
  <2> HIDE DEF holder
  <2>. QED BY <1>1, <2>2, WaitedSets, WaitedFields
<1>3. \/ /\ disk' = DeletedStore /\ link' = [holder EXCEPT !.stale = FALSE] /\ shown' = shown
      \/ /\ disk' \in AfterFailedDelete \cup {disk} /\ link' = holder
         /\ shown' = shown \/ ShowLine("other") \/ ShowLine("pending")
  BY DEF EventStopped
<1> HIDE DEF holder
<1>4. disk' \in DiskState /\ (disk'.marker => disk.marker) BY <1>3, Deleted DEF StoreInv
<1>5. /\ link'.at = "idle" /\ link'.generation = link.generation /\ link'.bot = 0
      /\ link'.stale => link.stale
  BY <1>2, <1>3 DEF OwnerState
<1>6. shown'.line \in {shown.line, "other", "pending"}
  BY <1>3 DEF ShowLine, Show, LInv, Shapes, RowState
<1>. QED BY <1>1, <1>4, <1>5, <1>6, RestStore

LEMMA TakeStopEndedStore == LInv /\ StoreInv /\ TakeStopEnded => StoreInv'
<1>. SUFFICES ASSUME LInv, StoreInv, TakeStopEnded PROVE StoreInv'
  OBVIOUS
<1>1. OwnerTakes("stopEnded") /\ UNCHANGED <<stops, clients, session>>
  BY DEF TakeStopEnded
<1>2. /\ Shorter /\ Queue /\ UNCHANGED sends /\ link.at = "idle" /\ Head(inbox) = inbox[1]
      /\ inbox[1].type = "stopEnded"
  BY <1>1, TakesActive
<1>3. CASE Head(inbox).stop # link.stopping
  BY <1>1, <1>2, <1>3, SameStore DEF TakeStopEnded
<1>4. CASE Head(inbox).stop = link.stopping
  <2>1. link.stopping # 0 BY <1>2, <1>4 DEF Shorter, LInv, ClientInv, EndsAreTrue
  <2>2. link.bot = 0 BY <2>1 DEF StoreInv, StopIsKnown
  <2>3. \/ /\ disk' = DeletedStore /\ link' = [link EXCEPT !.stopping = 0, !.stale = FALSE]
        \/ /\ disk' \in AfterFailedDelete \cup {disk} /\ link' = [link EXCEPT !.stopping = 0]
    BY <1>4 DEF TakeStopEnded
  <2>4. disk' \in DiskState /\ (disk'.marker => disk.marker)
    BY <2>3, Deleted DEF StoreInv
  <2>5. /\ link'.at = "idle" /\ link'.generation = link.generation /\ link'.bot = 0
        /\ link'.stale => link.stale
    <3> DEFINE none == 0
               no == FALSE
    <3>1. \/ link' = [link EXCEPT !.stopping = none, !.stale = no]
          \/ link' = [link EXCEPT !.stopping = none]
      BY <2>3
    <3>2. ~no OBVIOUS
    <3> HIDE DEF none, no
    <3>. QED BY <1>2, <2>2, <3>1, <3>2 DEF LInv, Shapes, OwnerState
  <2>6. shown'.line = "other"
    BY <1>4 DEF TakeStopEnded, ShowLine, Show, LInv, Shapes, RowState
  <2>. QED BY <1>1, <1>2, <2>4, <2>5, <2>6, RestStore
<1>. QED BY <1>3, <1>4

LEMMA QuitFields ==
  ASSUME LInv
  PROVE  Quit.generation = link.generation + 1 /\ Quit.stale = link.stale
BY DEF LInv, Shapes, OwnerState, Quit

LEMMA QuitStore ==
  ASSUME LInv, StoreInv, Queue, UNCHANGED <<sends, clients, session, disk, shown>>,
         NEW holder \in OwnerState, holder.generation = link.generation + 1,
         holder.stale = link.stale,
         NEW at \in {"idle", "stopCancel", "stopShutdown"}, StopClient(holder, at)
  PROVE  StoreInv'
<1>1. at \in {"idle"} \cup Waiting BY DEF Waiting
<1>2. /\ link'.at = at /\ link'.generation = holder.generation /\ link'.bot = 0
      /\ link'.stale = holder.stale
  BY <1>1, StopClientFields
<1>3. link'.stale \/ disk'.marker => shown'.line # "retry" /\ NoRetry
  BY <1>2 DEF StoreInv, RevokedIsKnown
<1>. QED BY <1>2, <1>3, OwnerStore DEF StoreInv, Starting

LEMMA TakeQuitStore == LInv /\ StoreInv /\ (TakeCancel \/ TakeShutdown) => StoreInv'
<1>. SUFFICES ASSUME LInv, StoreInv, TakeCancel \/ TakeShutdown PROVE StoreInv'
  OBVIOUS
<1>1. Queue /\ UNCHANGED <<sends, clients, session, disk, shown>>
  BY TakesActive DEF TakeCancel, TakeShutdown
<1>2. StopClient(Quit, "stopCancel") \/ StopClient(Quit, "stopShutdown")
  BY DEF TakeCancel, TakeShutdown
<1>. QED BY <1>1, <1>2, QuitSets, QuitFields, QuitStore

LEMMA OwnerEndsStore == LInv /\ StoreInv /\ OwnerEnds => StoreInv'
<1>. SUFFICES ASSUME LInv, StoreInv, OwnerEnds PROVE StoreInv'
  OBVIOUS
<1>1. Queue /\ UNCHANGED <<sends, clients, session, disk, shown>>
  BY DEF OwnerEnds, OwnerAt, Queue
<1> DEFINE yes == TRUE
           holder == [Quit EXCEPT !.ended = yes]
<1>2. StopClient(holder, "idle") /\ yes \in BOOLEAN BY DEF OwnerEnds
<1> HIDE DEF yes
<1>3. holder \in OwnerState /\ holder.generation = Quit.generation /\ holder.stale = Quit.stale
  BY <1>2, QuitSets DEF OwnerState
<1> HIDE DEF holder
<1>. QED BY <1>1, <1>2, <1>3, QuitFields, QuitStore

LEMMA CancelledStore == LInv /\ StoreInv /\ Cancelled => StoreInv'
<1>. SUFFICES ASSUME LInv, StoreInv, Cancelled PROVE StoreInv'
  OBVIOUS
<1>1. Queue /\ UNCHANGED <<sends, clients, session, disk>> /\ link.bot = 0
  BY ActsActive DEF Cancelled, OwnerAt, LInv, ClientInv, AtWait, Waiting
<1> DEFINE no == FALSE
           holder == [link EXCEPT !.at = "idle", !.pairing = no, !.resume = no]
           left == link.wait
<1>2. \/ link' = holder /\ shown' = shown
      \/ link' = [holder EXCEPT !.stopping = left] /\ ShowLine("pending")
  BY DEF Cancelled
<1>3. /\ holder.at = "idle" /\ holder.generation = link.generation /\ holder.bot = link.bot
      /\ holder.stale = link.stale
  <2> HIDE DEF no
  <2>. QED BY DEF LInv, Shapes, OwnerState
<1>4. holder \in OwnerState
  <2>1. no \in BOOLEAN OBVIOUS
  <2> HIDE DEF no
  <2>. QED BY <2>1 DEF LInv, Shapes, OwnerState
<1> HIDE DEF holder, left
<1>5. link'.at = "idle" /\ link'.generation = link.generation /\ link'.bot = 0
      /\ link'.stale = link.stale
  BY <1>1, <1>2, <1>3, <1>4 DEF OwnerState
<1>6. shown'.line \in {shown.line, "pending"}
  BY <1>2 DEF ShowLine, Show, LInv, Shapes, RowState
<1>. QED BY <1>1, <1>5, <1>6, RestStore DEF StoreInv

LEMMA OwnerShutDownStore == LInv /\ StoreInv /\ OwnerShutDown => StoreInv'
<1>. SUFFICES ASSUME LInv, StoreInv, OwnerShutDown PROVE StoreInv'
  OBVIOUS
<1>1. Queue /\ UNCHANGED <<sends, clients, session, disk>> /\ link.bot = 0
  BY DEF OwnerShutDown, LInv, ClientInv, AtWait, Waiting, Queue
<1> DEFINE none == 0
           left == link.wait
<1>2. \/ link' = [link EXCEPT !.at = "idle", !.stopping = none] /\ shown' = shown
      \/ link' = [link EXCEPT !.at = "idle"] /\ shown' = shown
      \/ link' = [link EXCEPT !.at = "idle", !.stopping = left] /\ ShowLine("pending")
  BY DEF OwnerShutDown
<1> HIDE DEF none, left
<1>3. link'.at = "idle" /\ link'.generation = link.generation /\ link'.bot = link.bot
      /\ link'.stale = link.stale
  BY <1>2 DEF LInv, Shapes, OwnerState
<1>4. shown'.line \in {shown.line, "pending"}
  BY <1>2 DEF ShowLine, Show, LInv, Shapes, RowState
<1>. QED BY <1>1, <1>3, <1>4, RestStore DEF StoreInv

LEMMA OwnerStepStore == LInv /\ StoreInv /\ OwnerStep => StoreInv'
BY TakeBeginStore, TakeRetryStore, TakeResumeStore, OldStoppedStore, OpenLinkStore,
   ClientStartsStore, NewStoppedStore, StartFailsStore, TakeClientStore, MarkRevokedStore,
   EventStoppedStore, TakeStopEndedStore, TakeQuitStore, CancelledStore, OwnerShutDownStore,
   OwnerEndsStore
   DEF OwnerStep

-----------------------------------------------------------------------------
(* The adapter, the sends, the stop tasks and the clients.                 *)
LEMMA OthersStore ==
  ASSUME LInv, StoreInv, UNCHANGED link, disk' \in DiskState, disk'.marker = disk.marker,
         stops' \subseteq stops, clients' \subseteq clients,
         sends' \subseteq sends \cup {session.generation},
         session'.generation \in {session.generation, 0},
         shown'.line = "retry" => shown.line = "retry",
         NEW m \in Message, UNCHANGED inbox \/ Posts(m),
         m.type = "retry" => shown.line = "retry",
         m.type = "client" =>
           /\ m.link \in clients \cup sends
           /\ link.at = "start" /\ IsLink(link.generation)' => m.link # link.generation
  PROVE  StoreInv'
<1>1. /\ link.generation \in Nat /\ session.generation \in Nat /\ clients \subseteq Nat
      /\ sends \subseteq Nat
  BY DEF LInv, Shapes, OwnerState, SessionState
<1>2. \A i \in Index(inbox') :
         \/ i \in Index(inbox) /\ inbox'[i] = inbox[i]
         \/ inbox'[i] = m /\ (\A j \in Index(inbox') : ~(i < j))
  <2>1. CASE UNCHANGED inbox BY <2>1 DEF Index
  <2>2. CASE Posts(m)
    <3>1. Longer(m) BY <2>2, Appended DEF LInv, Shapes
    <3>. QED BY <3>1 DEF Longer
  <2>. QED BY <2>1, <2>2
<1>3. ASSUME NEW g \in Nat, Before(g), 0 < g PROVE Before(g)'
  <2>1. \A c \in clients \cup sends \cup {session.generation} : c < g BY <1>3 DEF Before
  <2>2. \A c \in clients' \cup sends' \cup {session'.generation} : c < g BY <1>3, <2>1
  <2>3. \A i \in Index(inbox') : inbox'[i].type = "client" => inbox'[i].link < g
    BY <1>2, <1>3, <2>1 DEF Before
  <2>. QED BY <2>2, <2>3 DEF Before
<1>4. Numbers'
  <2>1. ASSUME NEW g \in Nat, g = link.generation + 1 PROVE Before(g)'
    BY <1>1, <1>3, <2>1 DEF StoreInv, Numbers
  <2>2. ASSUME link.at \in {"stopOld", "open"}, NEW g \in Nat, g = link.generation
        PROVE  Before(g)'
    BY <1>1, <1>3, <2>2 DEF StoreInv, Numbers, LInv, ClientInv, AtWait, Starting
  <2>3. ASSUME link.at = "start", IsLink(link.generation)', NEW g \in Nat, g = link.generation
        PROVE  Unheard(g)'
    <3>1. IsLink(g) BY <2>3 DEF IsLink
    <3>2. Unheard(g) BY <2>3, <3>1 DEF StoreInv, Numbers
    <3>. QED BY <1>2, <2>3, <3>2 DEF Unheard
  <2>4. link' = link /\ link.generation + 1 \in Nat BY <1>1
  <2>. QED BY <1>1, <2>1, <2>2, <2>3, <2>4 DEF Numbers, Before, Unheard
<1>5. RetryIsOld' BY <1>2 DEF StoreInv, RetryIsOld
<1>6. RevokedIsKnown'
  <2>1. NoRetry /\ shown.line # "retry" => NoRetry' BY <1>2 DEF NoRetry
  <2>. QED BY <2>1 DEF StoreInv, RevokedIsKnown
<1>7. StopIsKnown' BY DEF StoreInv, StopIsKnown
<1>. QED BY <1>4, <1>5, <1>6, <1>7 DEF StoreInv

LEMMA PlainMessage ==
  LET types == {"begin", "retry", "resume", "cancel", "shutdown"}
  IN  \A type \in types : Msg(type) \in Message /\ Msg(type).type = type
BY DEF Msg, Message

LEMMA CommandStore ==
  ASSUME LInv, StoreInv,
         Acknowledge \/ BeginLink \/ RetryStoreKey \/ CancelLink \/ SendText \/ Connect
  PROVE  StoreInv'
<1>1. PICK type \in {"begin", "retry", "resume", "cancel"} :
         /\ UNCHANGED inbox \/ Posts(Msg(type))
         /\ type = "retry" => shown.line = "retry"
  BY Told DEF Acknowledge, BeginLink, RetryStoreKey, CancelLink, SendText, Connect
<1>2. /\ UNCHANGED <<link, disk, stops, clients>>
      /\ sends' \subseteq sends \cup {session.generation}
  BY DEF Acknowledge, BeginLink, RetryStoreKey, CancelLink, SendText, Connect, Command
<1>3. session'.generation \in {session.generation, 0}
  <2>1. session' = session \/ Reset
    BY DEF Acknowledge, BeginLink, RetryStoreKey, CancelLink, SendText, Connect
  <2> DEFINE none == 0
             no == FALSE
  <2>2. session' = session
        \/ session' = [session EXCEPT !.generation = none, !.connected = no, !.stopped = no]
    BY <2>1 DEF Reset
  <2> HIDE DEF none, no
  <2>3. session'.generation \in {session.generation, none}
    BY <2>2 DEF LInv, Shapes, SessionState
  <2>. QED BY <2>3 DEF none
<1>4. shown'.line \in {shown.line, "other"}
  BY DEF Acknowledge, BeginLink, RetryStoreKey, CancelLink, SendText, Connect, ShowLine, Show,
     LInv, Shapes, RowState
<1>5. Msg(type) \in Message /\ Msg(type).type = type BY PlainMessage
<1>. QED BY <1>1, <1>2, <1>3, <1>4, <1>5, OthersStore DEF StoreInv

LEMMA FinishSendStore ==
  ASSUME LInv, StoreInv, NEW generation \in sends, NEW result \in {"accepted", "rejected", "unlinked"},
         FinishSend(generation, result)
  PROVE  StoreInv'
<1>1. UNCHANGED <<link, disk, stops, clients>> /\ sends' \subseteq sends
  BY DEF FinishSend
<1>2. /\ shown'.line \in {shown.line, "other"}
  BY DEF FinishSend, ShowLine, Show, LInv, Shapes, RowState
<1>3. CASE UNCHANGED <<session, inbox>>
  <2>1. Msg("cancel") \in Message /\ Msg("cancel").type = "cancel" BY PlainMessage
  <2>. QED BY <1>1, <1>2, <1>3, <2>1, OthersStore DEF StoreInv
<1>4. CASE Reset /\ Tell(ClientMsg(generation, "loggedOut"))
  <2> DEFINE m == ClientMsg(generation, "loggedOut")
  <2>1. m \in Message /\ m.type = "client" /\ m.link = generation
    BY DEF ClientMsg, Message, ClientEvent, LInv, Shapes
  <2>2. UNCHANGED inbox \/ Posts(m) BY <1>4, Told
  <2> HIDE DEF m
  <2>3. session'.generation = 0
    <3> DEFINE none == 0
               no == FALSE
    <3>1. session' = [session EXCEPT !.generation = none, !.connected = no, !.stopped = no]
      BY <1>4 DEF Reset
    <3> HIDE DEF none, no
    <3>2. session'.generation = none BY <3>1 DEF LInv, Shapes, SessionState
    <3>. QED BY <3>2 DEF none
  <2>4. ~IsLink(link.generation)' BY <2>3 DEF IsLink
  <2>. QED BY <1>1, <1>2, <2>1, <2>2, <2>3, <2>4, OthersStore DEF StoreInv
<1>. QED BY <1>3, <1>4 DEF FinishSend

LEMMA CloseStore ==
  ASSUME LInv, StoreInv, Shutdown \/ Drained \/ ShutdownTimesOut \/ ShutdownDone
  PROVE  StoreInv'
<1>1. UNCHANGED <<link, disk, stops, clients, sends>> /\ (UNCHANGED inbox \/ Posts(Msg("shutdown")))
  BY DEF Shutdown, Drained, ShutdownTimesOut, ShutdownDone, Command, Posts
<1>2. session'.generation = session.generation
  BY DEF Shutdown, Drained, ShutdownTimesOut, ShutdownDone, LInv, Shapes, SessionState
<1>3. shown'.line \in {shown.line, "other"}
  BY DEF Shutdown, Drained, ShutdownTimesOut, ShutdownDone, ShowLine, Show, LInv, Shapes, RowState
<1>4. Msg("shutdown") \in Message /\ Msg("shutdown").type = "shutdown" BY PlainMessage
<1>. QED BY <1>1, <1>2, <1>3, <1>4, OthersStore DEF StoreInv

LEMMA StopTaskStore ==
  ASSUME LInv, StoreInv, NEW s \in stops, StopTaskEnds(s)
  PROVE  StoreInv'
<1> DEFINE m == StopEndedMsg(s.stop)
<1>1. m \in Message /\ m.type = "stopEnded" BY DEF StopEndedMsg, Message, LInv, Shapes
<1>2. UNCHANGED inbox \/ Posts(m) BY Told DEF StopTaskEnds
<1> HIDE DEF m
<1>. QED BY <1>1, <1>2, OthersStore DEF StopTaskEnds, StoreInv

LEMMA ClientEventsStore ==
  ASSUME LInv, StoreInv, NEW client \in clients, NEW event \in ClientEvent,
         ClientEvents(client, event)
  PROVE  StoreInv'
<1> DEFINE m == ClientMsg(client, event)
<1>1. m \in Message /\ m.type = "client" /\ m.link = client
  BY DEF ClientMsg, Message, LInv, Shapes
<1>2. UNCHANGED inbox \/ Posts(m) BY Told DEF ClientEvents
<1> HIDE DEF m
<1>3. disk' \in DiskState /\ disk'.marker = disk.marker
  BY DEF ClientEvents, StoreInv, DiskState
<1>4. link.at # "start" BY DEF LInv, ClientInv, AtWait, Held, Starting, Shapes
<1>. QED BY <1>1, <1>2, <1>3, <1>4, OthersStore DEF ClientEvents

LEMMA RevokeStore == LInv /\ StoreInv /\ RevokeDevice => StoreInv'
<1>. SUFFICES ASSUME LInv, StoreInv, RevokeDevice PROVE StoreInv'
  OBVIOUS
<1> DEFINE yes == TRUE
<1>1. disk' = [disk EXCEPT !.revoked = yes] /\ yes \in BOOLEAN BY DEF RevokeDevice
<1> HIDE DEF yes
<1>2. disk' \in DiskState /\ disk'.marker = disk.marker BY <1>1 DEF StoreInv, DiskState
<1>3. Msg("cancel") \in Message /\ Msg("cancel").type = "cancel" BY PlainMessage
<1>. QED BY <1>2, <1>3, OthersStore DEF RevokeDevice

LEMMA StoreKeeps == LInv /\ StoreInv /\ [LinkNext]_linkVars => StoreInv'
<1>. SUFFICES ASSUME LInv, StoreInv, [LinkNext]_linkVars PROVE StoreInv'
  OBVIOUS
<1>1. CASE UNCHANGED linkVars
  BY <1>1 DEF linkVars, StoreInv, Numbers, Before, Unheard, IsLink, RetryIsOld, RevokedIsKnown,
     NoRetry, StopIsKnown, Index
<1>2. CASE LinkNext
  BY <1>2, OwnerStepStore, CommandStore, FinishSendStore, CloseStore, StopTaskStore,
     ClientEventsStore, RevokeStore, RestartStore
     DEF LinkNext
<1>. QED BY <1>1, <1>2

(* What the owner has to know so that it deletes, and starts a client on,  *)
(* no store that it must not: no link starts on a store that is known to   *)
(* be revoked, no late message has the number of a link that is starting,  *)
(* and the stop it waits for is the one that runs.                         *)
THEOREM StoreInvariance == LinkSpec => []StoreInv
<1>1. LinkInit => LInv /\ StoreInv BY InitHolds, StoreInit
<1>2. LInv /\ StoreInv /\ [LinkNext]_linkVars => (LInv /\ StoreInv)'
  BY NextKeeps, StoreKeeps
<1>. QED BY <1>1, <1>2, PTL DEF LinkSpec

-----------------------------------------------------------------------------
(* One step and the device store.                                          *)
StoreStep ==
    /\ disk.store # "none" /\ disk'.store = "none" => clients = {}
    /\ \/ clients' \subseteq clients
       \/ ~disk.revoked \/ ~(link.stale \/ disk.marker)

LEMMA NoClientAt ==
  ASSUME LInv, stops = {}, link.bot = 0
  PROVE  clients = {}
BY DEF LInv, ClientInv, Held, Shapes

LEMMA OwnerStoreStep ==
  ASSUME LInv, StoreInv, OwnerStep
  PROVE  StoreStep
<1>1. CASE OpenLink \/ \E why \in {"denied", "wrongKey", "notMoved", "build", "notPaired"} : StartFails(why)
  <2>1. link.at \in {"open", "start"} /\ UNCHANGED clients
    BY <1>1 DEF OpenLink, StartFails, OwnerAt
  <2>2. stops = {} /\ link.bot = 0 BY <2>1 DEF LInv, ClientInv, AtWait, Starting
  <2>. QED BY <2>1, <2>2, NoClientAt DEF StoreStep
<1>2. CASE ClientStarts
  <2>1. link.at = "start" /\ (disk.store # "none" => disk' = disk)
    BY <1>2 DEF ClientStarts, OwnerAt
  <2>2. ~link.stale /\ ~disk.marker BY <2>1 DEF StoreInv, RevokedIsKnown
  <2>. QED BY <2>1, <2>2 DEF StoreStep
<1>3. CASE MarkRevoked
  <2>1. disk'.store = disk.store /\ UNCHANGED clients
    BY <1>3 DEF MarkRevoked, StoreInv, DiskState
  <2>. QED BY <2>1 DEF StoreStep
<1>4. CASE EventStopped
  <2>1. /\ link.at = "stopEvent" /\ UNCHANGED clients
        /\ InTime \/ UNCHANGED disk
    BY <1>4 DEF EventStopped, OwnerAt
  <2>2. CASE InTime
    <3>1. stops = {} BY <2>1, <2>2 DEF InTime, Running, StoreInv, StopIsKnown
    <3>2. link.bot = 0 BY <2>1 DEF LInv, ClientInv, AtWait, Waiting
    <3>. QED BY <2>1, <3>1, <3>2, NoClientAt DEF StoreStep
  <2>. QED BY <2>1, <2>2 DEF StoreStep
<1>5. CASE TakeStopEnded
  <2>1. OwnerTakes("stopEnded") /\ UNCHANGED clients BY <1>5 DEF TakeStopEnded
  <2>2. /\ Shorter /\ Head(inbox) = inbox[1] /\ inbox[1].type = "stopEnded"
        /\ link.at = "idle" /\ ~link.ended
    BY <2>1, TakesActive
  <2>3. CASE Head(inbox).stop = link.stopping
    <3>1. link.stopping # 0 /\ \A s \in stops : s.stop # link.stopping
      BY <2>2, <2>3 DEF Shorter, LInv, ClientInv, EndsAreTrue
    <3>2. link.bot = 0 BY <3>1 DEF StoreInv, StopIsKnown
    <3>3. ~StillStopping BY <3>1 DEF StillStopping, Running
    <3>4. clients = {} BY <2>2, <3>2, <3>3, NothingRuns
    <3>. QED BY <2>1, <3>4 DEF StoreStep
  <2>4. CASE Head(inbox).stop # link.stopping
    <3>1. UNCHANGED disk BY <1>5, <2>4 DEF TakeStopEnded
    <3>. QED BY <2>1, <3>1 DEF StoreStep
  <2>. QED BY <2>3, <2>4
<1>6. CASE \/ TakeBegin \/ TakeRetry \/ TakeResume \/ OldStopped \/ NewStopped \/ TakeClient
           \/ TakeCancel \/ Cancelled \/ TakeShutdown \/ OwnerShutDown \/ OwnerEnds
  <2>1. UNCHANGED <<clients, disk>>
    BY <1>6 DEF TakeBegin, TakeRetry, TakeResume, OldStopped, NewStopped, TakeClient,
       TakeCancel, Cancelled, TakeShutdown, OwnerShutDown, OwnerEnds
  <2>. QED BY <2>1 DEF StoreStep
<1>. QED BY <1>1, <1>2, <1>3, <1>4, <1>5, <1>6 DEF OwnerStep

LEMMA NextStoreStep ==
  ASSUME LInv, StoreInv, [LinkNext]_linkVars
  PROVE  StoreStep
<1>1. CASE OwnerStep BY <1>1, OwnerStoreStep
<1>2. CASE Acknowledge \/ BeginLink \/ RetryStoreKey \/ CancelLink \/ SendText \/ Connect
  BY <1>2 DEF Acknowledge, BeginLink, RetryStoreKey, CancelLink, SendText, Connect, Command,
     StoreStep
<1>3. CASE Shutdown \/ Drained \/ ShutdownTimesOut \/ ShutdownDone \/ Restart \/ UNCHANGED linkVars
  BY <1>3 DEF Shutdown, Drained, ShutdownTimesOut, ShutdownDone, Command, Restart, linkVars, StoreStep
<1>4. CASE \E generation \in sends, result \in {"accepted", "rejected", "unlinked"} :
              FinishSend(generation, result)
  BY <1>4 DEF FinishSend, StoreStep
<1>5. CASE \E s \in stops : StopTaskEnds(s) BY <1>5 DEF StopTaskEnds, StoreStep
<1>6. CASE \E client \in clients, event \in ClientEvent : ClientEvents(client, event)
  <2>1. disk' \in {disk, [disk EXCEPT !.store = "paired"]} /\ UNCHANGED clients
    BY <1>6 DEF ClientEvents
  <2>2. disk'.store = "none" => disk.store = "none" BY <2>1 DEF StoreInv, DiskState
  <2>. QED BY <2>1, <2>2 DEF StoreStep
<1>7. CASE RevokeDevice
  <2>1. UNCHANGED clients /\ disk'.store = disk.store
    BY <1>7 DEF RevokeDevice, StoreInv, DiskState
  <2>. QED BY <2>1 DEF StoreStep
<1>. QED BY <1>1, <1>2, <1>3, <1>4, <1>5, <1>6, <1>7 DEF LinkNext

(* The device store is deleted, or moved with its folder, only while no    *)
(* client holds it, and a store that the phone revoked, once the owner or  *)
(* its mark on the disk says so, never gets a client again, whatever       *)
(* restarts, failed deletes, slow stops and late callbacks come between    *)
(* (`delete_store` and `mark_revoked` of link.rs).                         *)
THEOREM DeviceStoresAreSafe == LinkSpec => DeviceStoreSafe
<1>1. LInv /\ StoreInv /\ [LinkNext]_linkVars => [StoreStep]_linkVars BY NextStoreStep
<1>2. LinkSpec => [][StoreStep]_linkVars
  BY <1>1, LinkInvariance, StoreInvariance, PTL DEF LinkSpec
<1>3. LinkSpec => DeviceStoreSafe BY <1>2 DEF DeviceStoreSafe, StoreStep
<1>. QED BY <1>3

-----------------------------------------------------------------------------
(* The invariant, over the files where they are or where they were moved.  *)

Kind(name) == Located(name).kind

(* A file that is not there is NoFile; a file was moved aside or it stays. *)
FileShapes ==
    /\ \A name \in FileName : files[name].kind = "none" => files[name] = NoFile
    /\ \A name \in FileName : aside[name].kind # "none" => ~Exists(name)
    /\ start # "moveAside" => aside = Unmoved

(* The plain file has one name, before the swap or after it; the encrypted *)
(* one that took its place is a copy of it, and has no copy of its own.    *)
OneFileCopy ==
    /\ Kind("plainOld") \in {"none", "plain"}
    /\ Kind("encNew") \in {"none", "partial", "cipher"}
    /\ Kind("path") \in {"none", "empty", "plain", "cipher"}
    /\ Kind("path") = "plain" => Kind("plainOld") = "none"
    /\ Kind("path") = "empty" =>
         Kind("plainOld") = "none" /\ Kind("encNew") = "none"
    /\ Kind("path") = "cipher" =>
         /\ Kind("encNew") = "none"
         /\ Kind("plainOld") = "plain" =>
              Located("plainOld").content = Located("path").content

(* A new file without the store is the copy of the old one, unless a key   *)
(* was lost; alone it is left by a WhatsApp that gave its store up, which  *)
(* has no key since.                                                       *)
NewIsCopy ==
    /\ ~Exists("path") /\ Exists("plainOld") /\ Exists("encNew") /\ ~keyLost
         => CountsMatch("plainOld")
    /\ ~Exists("path") /\ ~Exists("plainOld") /\ Exists("encNew")
         => owner = "whatsapp" /\ keychain = 0

(* Without a loss there is one key, and it is the key of every file.       *)
OneKey ==
    /\ start \notin {"off", "failed", "ioFailed", "moveAside"} => keychain # 0
    /\ ~keyLost =>
         \A name \in FileName :
           /\ files[name].kind \in {"partial", "cipher"} =>
                files[name].key = keychain
           /\ name # "path" /\ Exists(name) => keychain # 0
           /\ files[name].kind = "cipher" => keychain # 0

(* What each step of a start knows of the files.                           *)
AtStep ==
    /\ start \in {"migrate", "export", "check", "clearOld", "moveOld"} =>
         files["path"].kind = "plain"
    /\ start \in {"check", "clearOld", "moveOld"} => CountsMatch("path")
    /\ start \in {"swap", "checkSwap", "restore", "restoreOld", "clearEmpty"} =>
         ~Exists("path")
    /\ start \in {"swap", "checkSwap", "restore", "restoreOld"} =>
         Exists("plainOld")
    /\ start = "swap" => CountsMatch("plainOld")
    /\ start = "checkSwap" => Exists("encNew")
    /\ start \in {"restoreOld", "clearEmpty"} => ~Exists("encNew")
    /\ start = "clearEmpty" => ~Exists("plainOld")
    /\ start \in {"dropNew", "dropOld"} => OpensWithKey("path")
    /\ start \in {"moveAside", "restore", "failed"} => keyLost
    /\ start = "moveAside" =>
         (owner = "whatsapp" /\ keychain = 0) \/ Kind("encNew") = "none"

CInv ==
    /\ CipherTypeOK /\ FileShapes /\ OneFileCopy /\ NewIsCopy /\ OneKey /\ AtStep
    /\ StartEndsWell

-----------------------------------------------------------------------------
(* A start from no store, a plain one or one that the key opens.           *)
LEMMA CipherInitHolds == CipherInit => CInv
<1>. SUFFICES ASSUME CipherInit PROVE CInv
  OBVIOUS
<1>1. PICK first \in {NoFile} \cup {Plain(c) : c \in Contents \ {0}}
                    \cup (IF keychain = 0 THEN {}
                          ELSE {Cipher(c) : c \in Contents}) :
        files = [Unmoved EXCEPT !["path"] = first]
  BY DEF CipherInit
<1>2. /\ first \in File
      /\ \/ first = NoFile
         \/ first.kind = "plain"
         \/ first.kind = "cipher" /\ first.key = keychain /\ keychain # 0
  <2>1. 0 \in Contents /\ 0 \in Key /\ keychain \in Key
    BY CipherBounds DEF CipherInit, Key, Contents
  <2>2. CASE first = NoFile BY <2>1, <2>2 DEF NoFile, File
  <2>3. CASE \E c \in Contents : first = Plain(c) BY <2>1, <2>3 DEF Plain, File
  <2>4. CASE keychain # 0 /\ \E c \in Contents : first = Cipher(c)
    BY <2>1, <2>4 DEF Cipher, File
  <2>. QED BY <1>1, <2>2, <2>3, <2>4
<1>3. CipherTypeOK
  <2>1. 0 \in Contents /\ keychain \in Key /\ keys \in Key /\ 0 \in Key
    BY CipherBounds DEF CipherInit, Key, Contents
  <2>. QED
    BY <1>1, <1>2, <2>1
    DEF CipherInit, CipherTypeOK, Unmoved, NoFile, FileName, File
<1>4. FileShapes /\ OneFileCopy /\ NewIsCopy /\ OneKey /\ AtStep /\ StartEndsWell
  BY <1>1, <1>2
  DEF CipherInit, FileShapes, OneFileCopy, NewIsCopy, OneKey, AtStep, StartEndsWell,
      NoPlainCopy, CrashIsResumed, Kind, Located, Exists, OpensWithKey,
      CountsMatch, NoFile, Unmoved, FileName, File
<1>. QED BY <1>3, <1>4 DEF CInv

(* Each file operation, with the failures between them.                    *)
LEMMA CipherStepKeeps == ASSUME CInv, CipherNext PROVE CInv'
<1>. USE CipherBounds
     DEF CInv, CipherTypeOK, FileShapes, OneFileCopy, NewIsCopy, OneKey, AtStep,
         StartEndsWell, NoPlainCopy, CrashIsResumed, Kind, Located, Exists,
         OpensWithKey, CountsMatch, NoFile, Unmoved, File, FileName, Key,
         Contents
<1>1. CASE FindKey BY <1>1 DEF FindKey, Continue
<1>2. CASE CreateKey BY <1>2 DEF CreateKey, EncryptedPresent, Contents
<1>3. CASE GiveUpKey BY <1>3 DEF GiveUpKey, Continue, EncryptedPresent
<1>4. CASE Resume BY <1>4 DEF Resume, Continue
<1>5. CASE PreparePlain BY <1>5 DEF PreparePlain, Continue
<1>6. CASE PrepareEmpty BY <1>6 DEF PrepareEmpty, Continue, RemoveFile
<1>7. CASE ClearEmpty BY <1>7 DEF ClearEmpty, Continue
<1>8. CASE PrepareCipher BY <1>8 DEF PrepareCipher, Continue
<1>9. CASE DropNew BY <1>9 DEF DropNew, Continue, RemoveFile
<1>10. CASE Migrate BY <1>10 DEF Migrate, Continue, RemoveFile
<1>11. CASE BeginExport BY <1>11 DEF BeginExport, Continue, Partial
<1>12. CASE EndExport BY <1>12 DEF EndExport, Continue, Cipher
<1>13. CASE FailExport BY <1>13 DEF FailExport, Continue, RemoveFile
<1>14. CASE Check BY <1>14 DEF Check, Continue, RemoveFile
<1>15. CASE ClearOld BY <1>15 DEF ClearOld, Continue, RemoveFile
<1>16. CASE MoveOld BY <1>16 DEF MoveOld, Continue, Rename
<1>17. CASE Swap BY <1>17 DEF Swap, Continue, Rename
<1>18. CASE DropOld BY <1>18 DEF DropOld, Continue, RemoveFile
<1>19. CASE CheckSwap BY <1>19 DEF CheckSwap, Continue
<1>20. CASE RestoreFile
  <2>1. CASE Exists("encNew") BY <1>20, <2>1 DEF RestoreFile, Continue, RemoveFile
  <2>2. CASE ~Exists("encNew") BY <1>20, <2>2 DEF RestoreFile, Continue, Rename
  <2>. QED BY <2>1, <2>2
<1>21. CASE RestoreOld BY <1>21 DEF RestoreOld, Continue, Rename
<1>22. ASSUME NEW name \in FileName, MoveFileAside(name)
     PROVE  CInv'
  BY <1>22 DEF MoveFileAside, RemoveFile
<1>23. CASE AllAside BY <1>23 DEF AllAside
<1>24. CASE PutBack BY <1>24 DEF PutBack
<1>25. CASE FailStart BY <1>25 DEF FailStart, Continue
<1>26. CASE EndHelper BY <1>26 DEF EndHelper
<1>27. CASE LoseKey BY <1>27 DEF LoseKey
<1>28. CASE CreateStore BY <1>28 DEF CreateStore, Continue, EmptyFile
<1>29. ASSUME NEW content \in Contents, Write(content)
     PROVE  CInv'
  BY <1>29 DEF Write, Continue, Cipher
<1>. QED
  BY <1>1, <1>2, <1>3, <1>4, <1>5, <1>6, <1>7, <1>8, <1>9, <1>10, <1>11,
     <1>12, <1>13, <1>14, <1>15, <1>16, <1>17, <1>18, <1>19, <1>20, <1>21,
     <1>22, <1>23, <1>24, <1>25, <1>26, <1>27, <1>28, <1>29
  DEF CipherNext, PrepareStep

(* The invariant is about the variables only.                              *)
LEMMA CipherStutterKeeps == ASSUME CInv, UNCHANGED cipherVars PROVE CInv'
BY DEF CInv, CipherTypeOK, FileShapes, OneFileCopy, NewIsCopy, OneKey, AtStep,
       StartEndsWell, NoPlainCopy, CrashIsResumed, Kind, Located, Exists,
       OpensWithKey, CountsMatch, cipherVars

(* The invariant that the theorems rest on, for every number of starts,    *)
(* crashes, writes and keys.                                               *)
THEOREM CipherInvariance == CipherSpec => []CInv
BY CipherInitHolds, CipherStepKeeps, CipherStutterKeeps, PTL DEF CipherSpec

(* A helper works on one file that its key opens, and only a lost key ends *)
(* a start for good (prepare_file, prepare_store_key).                     *)
THEOREM StartsEndWell == CipherSpec => []StartEndsWell
<1>1. CInv => StartEndsWell BY DEF CInv
<1>. QED BY <1>1, CipherInvariance, PTL

-----------------------------------------------------------------------------
(* The store starts closed.                                                *)
LEMMA InitImplements == CipherInit => Store!StoreInit
BY CipherBounds
   DEF CipherInit, Store!StoreInit, Stored, Located, Plain, Cipher, Unmoved,
       NoFile, FileName, File, Key, Contents

(* Every file operation leaves the content alone, and a store is given up  *)
(* only after its key was lost.                                            *)
LEMMA StepImplements ==
  ASSUME CInv, CipherNext 
  PROVE  Store!StoreNext \/ UNCHANGED Store!storeVars
<1>. USE DEF CInv, CipherTypeOK, FileShapes, OneFileCopy, OneKey, AtStep, StartEndsWell,
             NoPlainCopy, Stored, Kind, Located, Exists, OpensWithKey,
             CountsMatch, NoFile, Unmoved, FileName, File, Contents,
             Store!StoreNext, Store!storeVars, Store!OpenStore,
             Store!CloseStore, Store!WriteStore, Store!LoseStoreKey,
             Store!GiveUpStore
<1>1. CASE FindKey BY <1>1 DEF FindKey, Continue
<1>2. CASE CreateKey BY <1>2 DEF CreateKey, EncryptedPresent, Contents
<1>3. CASE GiveUpKey BY <1>3 DEF GiveUpKey, Continue, EncryptedPresent
<1>4. CASE Resume BY <1>4 DEF Resume, Continue
<1>5. CASE PreparePlain BY <1>5 DEF PreparePlain, Continue
<1>6. CASE PrepareEmpty BY <1>6 DEF PrepareEmpty, Continue, RemoveFile
<1>7. CASE ClearEmpty BY <1>7 DEF ClearEmpty, Continue
<1>8. CASE PrepareCipher BY <1>8 DEF PrepareCipher, Continue
<1>9. CASE DropNew BY <1>9 DEF DropNew, Continue, RemoveFile
<1>10. CASE Migrate BY <1>10 DEF Migrate, Continue, RemoveFile
<1>11. CASE BeginExport BY <1>11 DEF BeginExport, Continue, Partial
<1>12. CASE EndExport BY <1>12 DEF EndExport, Continue, Cipher
<1>13. CASE FailExport BY <1>13 DEF FailExport, Continue, RemoveFile
<1>14. CASE Check BY <1>14 DEF Check, Continue, RemoveFile
<1>15. CASE ClearOld BY <1>15 DEF ClearOld, Continue, RemoveFile
<1>16. CASE MoveOld BY <1>16 DEF MoveOld, Continue, Rename
<1>17. CASE Swap BY <1>17 DEF Swap, Continue, Rename
<1>18. CASE DropOld BY <1>18 DEF DropOld, Continue, RemoveFile
<1>19. CASE CheckSwap BY <1>19 DEF CheckSwap, Continue
<1>20. CASE RestoreFile BY <1>20 DEF RestoreFile, Continue, RemoveFile, Rename
<1>21. CASE RestoreOld BY <1>21 DEF RestoreOld, Continue, Rename
<1>22. ASSUME NEW name \in FileName, MoveFileAside(name)
     PROVE  Store!StoreNext \/ UNCHANGED Store!storeVars
  BY <1>22 DEF MoveFileAside, RemoveFile
<1>23. CASE AllAside BY <1>23 DEF AllAside
<1>24. CASE PutBack BY <1>24 DEF PutBack
<1>25. CASE FailStart BY <1>25 DEF FailStart, Continue
<1>26. CASE EndHelper BY <1>26 DEF EndHelper
<1>27. CASE LoseKey BY <1>27 DEF LoseKey
<1>28. CASE CreateStore BY <1>28 DEF CreateStore, Continue, EmptyFile
<1>29. ASSUME NEW content \in Contents, Write(content)
     PROVE  Store!StoreNext \/ UNCHANGED Store!storeVars
  BY <1>29 DEF Write, Continue, Cipher
<1>. QED
  BY <1>1, <1>2, <1>3, <1>4, <1>5, <1>6, <1>7, <1>8, <1>9, <1>10, <1>11,
     <1>12, <1>13, <1>14, <1>15, <1>16, <1>17, <1>18, <1>19, <1>20, <1>21,
     <1>22, <1>23, <1>24, <1>25, <1>26, <1>27, <1>28, <1>29
  DEF CipherNext, PrepareStep

(* The migration implements the store: what a helper opens is what was     *)
(* last written, wherever its starts were interrupted.                     *)
THEOREM StoreIsKept == CipherSpec => KeepsStoreContract
<1>1. CInv /\ [CipherNext]_cipherVars => [Store!StoreNext]_(Store!storeVars)
  BY StepImplements DEF cipherVars, Store!storeVars, Stored, Located
<1>. QED
  BY <1>1, CipherInvariance, InitImplements, PTL
  DEF CipherSpec, KeepsStoreContract, Store!StoreSpec
=============================================================================
