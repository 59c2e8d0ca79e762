-------------------------- MODULE TelegramLogin_proofs --------------------------
(***************************************************************************)
(* Proofs about TelegramLogin, for every set of accounts and workers.  An  *)
(* account may be removed, but its number is not used again: the run readd *)
(* shows that OneClient needs this.                                        *)
(***************************************************************************)
EXTENDS TelegramLogin, FiniteSetTheorems, TLAPS

NoReuse == \A a \in Account : ~AddAccount(a)
NoRemoval == \A a \in Account : ~RemoveAccount(a)

-----------------------------------------------------------------------------
(* The invariant.                                                           *)

Slots(a) == adapter[a].retiring \cup ({adapter[a].current} \ {None})

(* A worker that did not let go of the database of its account.             *)
Busy(w) == worker[w].stage \in {"waiting", "open", "exiting"}

WorkerFields ==
    {"account", "stage", "waitFor", "marked", "epoch", "queue", "newLogin",
     "authorized", "lateReady", "close", "ended", "loggedOut", "late"}
AdapterFields == {"runs", "current", "retiring", "shut", "awaited", "stop"}
Auth == {"none", "params", "phone", "code", "ready", "closing", "closed"}
Client == [auth : Auth, updates : Seq(Auth)]

Shapes ==
    /\ DOMAIN worker = Worker /\ \A w \in Worker : DOMAIN worker[w] = WorkerFields
    /\ DOMAIN adapter = Account /\ \A a \in Account : DOMAIN adapter[a] = AdapterFields
    /\ \A w \in Worker : worker[w].account \in Account
    /\ \A w \in Worker : worker[w].waitFor \subseteq Worker
    /\ \A a \in Account : adapter[a].current \in Worker \cup {None}
    /\ \A a \in Account : adapter[a].retiring \subseteq Worker
    /\ client \in [Worker -> Client]

(* The adapter of an account that runs knows each of its busy workers ...   *)
SlotInv ==
    /\ \A w \in Worker :
         Busy(w) => \/ w \in Slots(worker[w].account)
                    \/ ~adapter[worker[w].account].runs
    /\ \A c \in checked : c.account \in Account /\ adapter[c.account].runs

(* ... so of two busy workers of an account the later one waits for the     *)
(* other ...                                                                *)
WaitInv ==
    \A v, w \in Worker :
      Busy(v) /\ Busy(w) /\ worker[v].account = worker[w].account /\ v # w
        => v \in worker[w].waitFor \/ w \in worker[v].waitFor

(* ... and one that has a client waited for the end of all of them.         *)
OpenInv ==
    \A w \in Worker :
      worker[w].stage \in {"open", "exiting"} =>
        \A v \in worker[w].waitFor : v \in Worker /\ Exited(v)

(* A client lives between the start of its worker and the update "closed".  *)
ClientInv ==
    \A w \in Worker :
      /\ Holds(w) => worker[w].stage = "open"
      /\ worker[w].stage \in {"free", "waiting"} => client[w] = NoClient
      /\ \A i \in DOMAIN client[w].updates :
           client[w].updates[i] = "closed" => client[w].auth = "closed"

IInv == Shapes /\ SlotInv /\ WaitInv /\ OpenInv /\ ClientInv /\ NoOrphan

(* While every account stays: a shutdown awaits all that its adapter knows. *)
StopOf(a) ==
    /\ adapter[a].runs
    /\ adapter[a].awaited \subseteq Worker
    /\ adapter[a].stop \in {"waiting", "clean"} => adapter[a].shut
    /\ adapter[a].shut => Slots(a) \subseteq adapter[a].awaited
    /\ adapter[a].stop = "clean" => \A w \in adapter[a].awaited : Exited(w)

StopInv == \A a \in Account : StopOf(a)

-----------------------------------------------------------------------------
(* The client of one worker.                                                *)

Good(c) ==
    /\ c \in Client
    /\ \A i \in DOMAIN c.updates : c.updates[i] = "closed" => c.auth = "closed"

Held(c) == c.auth \in {"params", "ready", "closing"} \cup Form

(* An update that TDLib adds: it adds none after "closed".                  *)
LEMMA UpdatedGood ==
  ASSUME NEW c, Good(c), c.auth # "closed", NEW auth \in Auth
  PROVE  Good(Updated(c, auth)) /\ Updated(c, auth).auth = auth
<1> DEFINE u == Append(c.updates, auth)
<1>1. c.updates \in Seq(Auth) /\ c.auth \in Auth BY DEF Good, Client
<1>2. u \in Seq(Auth) /\ Len(u) = Len(c.updates) + 1 BY <1>1
<1>3. \A i \in DOMAIN u : u[i] = "closed" => auth = "closed" BY <1>1, <1>2 DEF Good
<1> HIDE DEF u
<1> QED BY <1>1, <1>2, <1>3 DEF Updated, Good, Client, u

(* An update that the worker reads.                                         *)
LEMMA DrainedGood ==
  ASSUME NEW c, Good(c), c.updates # <<>>
  PROVE  /\ Good([c EXCEPT !.updates = Tail(@)])
         /\ [c EXCEPT !.updates = Tail(@)].auth = c.auth
         /\ Head(c.updates) \in Auth
         /\ Head(c.updates) = "closed" => c.auth = "closed"
<1>1. c.updates \in Seq(Auth) /\ c.auth \in Auth /\ Len(c.updates) > 0
  BY DEF Good, Client
<1>2. Head(c.updates) = c.updates[1] /\ 1 \in DOMAIN c.updates BY <1>1
<1> DEFINE t == Tail(c.updates)
<1>3. t \in Seq(Auth) /\ \A i \in DOMAIN t : t[i] = c.updates[i + 1] /\ i + 1 \in DOMAIN c.updates
  BY <1>1
<1> HIDE DEF t
<1>4. [c EXCEPT !.updates = Tail(@)] = [auth |-> c.auth, updates |-> t]
  BY DEF t, Good, Client
<1> QED BY <1>1, <1>2, <1>3, <1>4 DEF Good, Client

(* close and logOut leave a client that closes or is closed.                *)
LEMMA ClosedClientGood ==
  ASSUME NEW c, Good(c)
  PROVE  Good(ClosedClient(c))
BY UpdatedGood DEF ClosedClient, Auth

-----------------------------------------------------------------------------
(* The steps of one worker.                                                 *)

Moves(old, new, ready) ==
    \/ new = old
    \/ old = "waiting" /\ new = "open" /\ ready
    \/ old = "waiting" /\ new = "done"
    \/ old = "open" /\ new = "exiting"
    \/ old = "exiting" /\ new \in {"announcing", "done"}
    \/ old = "announcing" /\ new = "done"

(* Worker w moves on and its client changes; all others stay.               *)
Advances(w, c) ==
    /\ DOMAIN worker' = Worker /\ DOMAIN worker'[w] = WorkerFields
    /\ \A v \in Worker \ {w} : worker'[v] = worker[v]
    /\ worker'[w].account = worker[w].account /\ worker'[w].waitFor = worker[w].waitFor
    /\ worker'[w].marked \in {worker[w].marked, TRUE}
    /\ Moves(worker[w].stage, worker'[w].stage, \A v \in worker[w].waitFor : Exited(v))
    /\ client' = [client EXCEPT ![w] = c]
    /\ Good(c)
    /\ Held(c) => worker'[w].stage = "open"
    /\ worker'[w].stage \in {"free", "waiting"} => c = NoClient
    /\ adapter' = adapter /\ checked' = checked

LEMMA AdvancesKeeps ==
  ASSUME IInv, NEW w \in Worker, NEW c, Advances(w, c)
  PROVE  IInv'
<1>1. /\ DOMAIN worker' = Worker /\ DOMAIN worker'[w] = WorkerFields
      /\ \A v \in Worker \ {w} : worker'[v] = worker[v]
  BY DEF Advances
<1>2. \A v \in Worker : /\ worker'[v].account = worker[v].account
                        /\ worker'[v].waitFor = worker[v].waitFor
                        /\ Busy(v)' => Busy(v)
                        /\ Exited(v) => Exited(v)'
  BY <1>1 DEF Advances, Moves, Busy, Exited
<1>3. Shapes' BY <1>1 DEF IInv, Shapes, Advances, Good
<1>4. SlotInv' BY <1>2 DEF IInv, SlotInv, Slots, Advances
<1>5. WaitInv' BY <1>2 DEF IInv, WaitInv
<1>6. OpenInv' BY <1>1, <1>2 DEF IInv, Shapes, OpenInv, Advances, Moves, Exited
<1>7. ClientInv'
  <2>1. client'[w] = c /\ \A v \in Worker \ {w} : client'[v] = client[v]
    BY DEF IInv, Shapes, Advances
  <2> QED BY <1>1, <2>1 DEF IInv, ClientInv, Advances, Good, Held, Holds
<1>8. NoOrphan'
  <2>1. \A v \in Worker : /\ Accepts(v)' => Accepts(v)
                          /\ worker[v].marked => worker'[v].marked
    BY <1>1 DEF Advances, Moves, Accepts
  <2> QED BY <1>2, <2>1 DEF IInv, NoOrphan, Advances
<1> QED BY <1>3, <1>4, <1>5, <1>6, <1>7, <1>8 DEF IInv

(* A step that changes only the worker, or only the client.                 *)
LEMMA SameClient ==
  ASSUME IInv, NEW w \in Worker, UNCHANGED client
  PROVE  /\ client' = [client EXCEPT ![w] = client[w]]
         /\ Good(client[w])
         /\ Held(client[w]) => worker[w].stage = "open"
         /\ worker[w].stage \in {"free", "waiting"} => client[w] = NoClient
BY DEF IInv, Shapes, ClientInv, Good, Held, Holds

LEMMA ClientFacts ==
  ASSUME IInv, NEW w \in Worker
  PROVE  /\ Good(client[w]) /\ DOMAIN worker[w] = WorkerFields
         /\ Held(client[w]) => worker[w].stage = "open"
         /\ worker[w].stage \in {"free", "waiting"} => client[w] = NoClient
BY DEF IInv, Shapes, ClientInv, Good, Held, Holds

(* What a step of worker w that only reads and answers leaves of it.        *)
Works(w, stage) ==
    /\ DOMAIN worker' = Worker /\ DOMAIN worker'[w] = WorkerFields
    /\ \A v \in Worker \ {w} : worker'[v] = worker[v]
    /\ worker'[w].account = worker[w].account /\ worker'[w].waitFor = worker[w].waitFor
    /\ worker'[w].marked \in {worker[w].marked, TRUE}
    /\ worker'[w].stage = stage

LEMMA WorkerAdvances ==
  ASSUME IInv, NEW w \in Worker, WorkerStep(w)
  PROVE  \E c : Advances(w, c)
<1>0. DOMAIN worker = Worker /\ DOMAIN worker[w] = WorkerFields BY DEF IInv, Shapes
<1> USE ClientFacts DEF Works, Keeps
<1>1. CASE OpenClient(w)
  <2>1. Good(Updated(client[w], "params"))
    BY <1>1, UpdatedGood DEF OpenClient, NoClient, Auth
  <2>2. Works(w, "open") BY <1>0, <1>1 DEF OpenClient, WorkerFields
  <2>3. Advances(w, Updated(client[w], "params"))
    BY <1>1, <2>1, <2>2 DEF OpenClient, Advances, Moves
  <2> QED BY <2>3
<1>2. CASE GiveUpWaiting(w)
  <2>1. Works(w, "done") BY <1>0, <1>2 DEF GiveUpWaiting, WorkerFields
  <2>2. Advances(w, client[w])
    BY <1>2, <2>1, SameClient DEF GiveUpWaiting, Advances, Moves
  <2> QED BY <2>2
<1>3. CASE SkipCommand(w)
  <2>1. Works(w, worker[w].stage) BY <1>0, <1>3 DEF SkipCommand, Taken, WorkerFields
  <2>2. Advances(w, client[w])
    BY <1>3, <2>1, SameClient DEF SkipCommand, TakesNext, Advances, Moves
  <2> QED BY <2>2
<1>4. CASE TakeAnswer(w)
  <2>1. PICK c : Good(c) /\ client' = [client EXCEPT ![w] = c]
    <3>1. CASE UNCHANGED client BY <3>1, SameClient
    <3>2. CASE client' = [client EXCEPT ![w] = Updated(client[w], "code")] /\ client[w].auth \in Form
      BY ZenonT(60), <3>2, UpdatedGood DEF Form, Auth
    <3>3. CASE client' = [client EXCEPT ![w] = Updated(client[w], "ready")] /\ client[w].auth = "code"
      BY ZenonT(60), <3>3, UpdatedGood DEF Auth
    <3> QED BY <1>4, <3>1, <3>2, <3>3 DEF TakeAnswer
  <2>2. Works(w, "open") BY <1>0, <1>4 DEF TakeAnswer, TakesNext, Taken, WorkerFields
  <2>3. Advances(w, c) BY <1>4, <2>1, <2>2 DEF TakeAnswer, TakesNext, Advances, Moves
  <2> QED BY <2>3
<1>5. CASE TakeClose(w)
  <2>1. Works(w, "open") BY <1>0, <1>5 DEF TakeClose, TakesNext, Taken, WorkerFields
  <2>2. client' = [client EXCEPT ![w] = ClosedClient(client[w])]
    BY <1>5 DEF TakeClose, LogOut
  <2>3. Advances(w, ClosedClient(client[w]))
    BY <1>5, <2>1, <2>2, ClosedClientGood DEF TakeClose, TakesNext, Advances, Moves
  <2> QED BY <2>3
<1>6. CASE SetParameters(w)
  <2>1. PICK c : Good(c) /\ client' = [client EXCEPT ![w] = c]
    <3>1. Good(Drained(w)) /\ Drained(w).auth = client[w].auth
      BY <1>6, DrainedGood DEF SetParameters, Update, Drained
    <3>2. CASE client' = [client EXCEPT ![w] = Drained(w)] BY <3>1, <3>2
    <3>3. CASE /\ client[w].auth = "params"
               /\ client' = [client EXCEPT ![w] = Updated(Drained(w),
                     IF session[worker[w].account] THEN "ready" ELSE "phone")]
      BY <3>1, <3>3, UpdatedGood DEF Auth
    <3> QED BY <1>6, <3>2, <3>3 DEF SetParameters
  <2>2. Advances(w, c) BY <1>0, <1>6, <2>1 DEF SetParameters, Update, Advances, Moves
  <2> QED BY <2>2
<1>7. CASE WaitForLogin(w) \/ Ready(w)
  <2>1. /\ Good(Drained(w)) /\ client' = [client EXCEPT ![w] = Drained(w)]
        /\ worker[w].stage = "open"
    BY <1>7, DrainedGood DEF WaitForLogin, Ready, Update, Drained
  <2>2. Works(w, "open")
    BY ZenonT(60), <1>0, <1>7, <2>1 DEF WaitForLogin, Ready, WorkerFields
  <2>3. Advances(w, Drained(w))
    BY <1>7, <2>1, <2>2 DEF WaitForLogin, Ready, Update, Advances, Moves
  <2> QED BY <2>3
<1>8. CASE SkipReady(w)
  <2>1. Good(Drained(w)) /\ worker[w].stage = "open"
    BY <1>8, DrainedGood DEF SkipReady, Update, Drained
  <2>2. PICK c : Good(c) /\ client' = [client EXCEPT ![w] = c]
    BY <1>8, <2>1, ClosedClientGood DEF SkipReady, LogOut
  <2>3. Works(w, "open") BY <1>0, <1>8, <2>1 DEF SkipReady, WorkerFields
  <2>4. Advances(w, c) BY <1>8, <2>1, <2>2, <2>3 DEF SkipReady, Update, Advances, Moves
  <2> QED BY <2>4
<1>9. CASE Closing(w)
  <2>1. PICK auth \in {"closing", "closed"} :
          /\ Update(w, auth) /\ client' = [client EXCEPT ![w] = Drained(w)]
          /\ Works(w, IF auth = "closed" THEN "exiting" ELSE worker[w].stage)
    BY <1>0, <1>9 DEF Closing, WorkerFields
  <2>2. /\ Good(Drained(w)) /\ Drained(w).auth = client[w].auth /\ worker[w].stage = "open"
        /\ auth = "closed" => client[w].auth = "closed"
    BY <2>1, DrainedGood DEF Update, Drained
  <2>3. Held(Drained(w)) => worker'[w].stage = "open" BY <2>1, <2>2 DEF Held, Form
  <2>4. Advances(w, Drained(w)) BY <2>1, <2>2, <2>3 DEF Update, Advances, Moves
  <2> QED BY <2>4
<1>10. CASE Exit(w) \/ Announce(w)
  <2>1. PICK stage \in {"announcing", "done"} :
          Works(w, stage) /\ Moves(worker[w].stage, stage, FALSE)
    BY ZenonT(60), <1>0, <1>10 DEF Exit, Announce, WorkerFields, Moves
  <2>2. worker[w].stage # "open" /\ UNCHANGED client BY <1>10 DEF Exit, Announce
  <2>3. Advances(w, client[w])
    BY <1>10, <2>1, <2>2, SameClient DEF Exit, Announce, Advances, Moves
  <2> QED BY <2>3
<1>11. CASE EndedElsewhere(w)
  <2>1. Good(Updated(client[w], "closing")) /\ worker[w].stage = "open"
    BY <1>11, UpdatedGood DEF EndedElsewhere, Auth, Held
  <2>2. Advances(w, Updated(client[w], "closing"))
    BY <1>0, <1>11, <2>1 DEF EndedElsewhere, Advances, Moves
  <2> QED BY <2>2
<1>12. CASE Released(w)
  <2>1. Good(Updated(client[w], "closed")) /\ worker[w].stage = "open"
    BY <1>12, UpdatedGood DEF Released, Auth, Held
  <2>2. Advances(w, Updated(client[w], "closed"))
    BY <1>0, <1>12, <2>1 DEF Released, Advances, Moves
  <2> QED BY <2>2
<1> QED BY <1>1, <1>2, <1>3, <1>4, <1>5, <1>6, <1>7, <1>8, <1>9, <1>10, <1>11, <1>12
        DEF WorkerStep

-----------------------------------------------------------------------------
(* The steps of the adapters.                                               *)

(* No worker moves: one gets a command, or is marked.                       *)
SameWork ==
    /\ DOMAIN worker' = Worker
    /\ \A w \in Worker :
         /\ DOMAIN worker'[w] = WorkerFields
         /\ worker'[w].account = worker[w].account /\ worker'[w].stage = worker[w].stage
         /\ worker'[w].waitFor = worker[w].waitFor
         /\ worker'[w].marked \in {worker[w].marked, TRUE}

AdapterShapes ==
    /\ DOMAIN adapter = Account
    /\ \A a \in Account : /\ DOMAIN adapter[a] = AdapterFields
                          /\ adapter[a].current \in Worker \cup {None}
                          /\ adapter[a].retiring \subseteq Worker

LEMMA SameWorkKeeps ==
  ASSUME IInv, SameWork, AdapterShapes', UNCHANGED client,
         \A a \in Account : /\ Slots(a) \subseteq Slots(a)' \/ ~adapter'[a].runs
                            /\ ~adapter[a].runs => ~adapter'[a].runs,
         \A c \in checked' : c.account \in Account /\ adapter'[c.account].runs,
         \A w \in Worker : Accepts(w) => \/ w = adapter'[worker[w].account].current
                                         \/ worker'[w].marked
  PROVE  IInv'
<1>1. Shapes' BY DEF IInv, Shapes, AdapterShapes, SameWork
<1>2. SlotInv'
  <2>1. ASSUME NEW w \in Worker, Busy(w)', NEW b \in Account, worker'[w].account = b
        PROVE  w \in Slots(b)' \/ ~adapter'[b].runs
    <3>1. Busy(w) /\ worker[w].account = b BY <2>1 DEF SameWork, Busy
    <3>2. w \in Slots(b) \/ ~adapter[b].runs BY <3>1 DEF IInv, SlotInv
    <3> QED BY <3>2
  <2>2. \A w \in Worker : worker'[w].account \in Account BY DEF IInv, Shapes, SameWork
  <2> QED BY <2>1, <2>2 DEF SlotInv
<1>3. \A w \in Worker : /\ Busy(w)' <=> Busy(w)
                        /\ Exited(w)' <=> Exited(w)
                        /\ worker'[w].account = worker[w].account
                        /\ worker'[w].waitFor = worker[w].waitFor
                        /\ worker'[w].stage = worker[w].stage
  BY DEF SameWork, Busy, Exited
<1>4. WaitInv' BY <1>3 DEF IInv, WaitInv
<1>5. OpenInv' BY <1>3 DEF IInv, OpenInv
<1>6. ClientInv' BY DEF IInv, ClientInv, SameWork, Holds
<1>7. NoOrphan' BY DEF NoOrphan, SameWork, Accepts
<1> QED BY <1>1, <1>2, <1>4, <1>5, <1>6, <1>7 DEF IInv

LEMMA QuietKeeps ==
  ASSUME IInv, UNCHANGED <<worker, client>>, AdapterShapes',
         \A a \in Account : /\ Slots(a)' = Slots(a) /\ adapter'[a].runs = adapter[a].runs
                            /\ adapter'[a].current = adapter[a].current,
         \A c \in checked' : c.account \in Account /\ adapter'[c.account].runs
  PROVE  IInv'
<1>1. SameWork BY DEF IInv, Shapes, SameWork
<1>2. \A w \in Worker : Accepts(w) => \/ w = adapter'[worker[w].account].current
                                      \/ worker'[w].marked
  BY DEF IInv, Shapes, NoOrphan
<1> QED BY <1>1, <1>2, SameWorkKeeps

(* stop_client marks the current worker.                                    *)
LEMMA StopClientMarks ==
  ASSUME IInv, NEW a \in Account, NEW type, StopClient(a, type)
  PROVE  /\ SameWork
         /\ adapter[a].current # None => worker'[adapter[a].current].marked
BY DEF IInv, Shapes, StopClient, Stopped, SameWork, WorkerFields

(* Disconnect, Shutdown and the removal: the adapter stops its client.      *)
LEMMA StopClientKeeps ==
  ASSUME IInv, NEW a \in Account, NEW type, StopClient(a, type),
         UNCHANGED client, checked' = {}, AdapterShapes',
         \A b \in Account \ {a} : adapter'[b] = adapter[b],
         Slots(a) \subseteq Slots(a)' \/ ~adapter'[a].runs,
         ~adapter[a].runs => ~adapter'[a].runs
  PROVE  IInv'
<1>1. /\ SameWork
      /\ adapter[a].current # None => worker'[adapter[a].current].marked
  BY StopClientMarks
<1>2. ASSUME NEW w \in Worker, Accepts(w)
      PROVE  w = adapter'[worker[w].account].current \/ worker'[w].marked
  <2>1. w # None /\ worker[w].account \in Account BY NoneAssumption DEF IInv, Shapes
  <2>2. w = adapter[worker[w].account].current \/ worker[w].marked
    BY <1>2 DEF IInv, NoOrphan
  <2>3. CASE worker[w].marked BY <1>1, <2>3 DEF SameWork
  <2>4. CASE w = adapter[worker[w].account].current /\ worker[w].account = a
    BY <1>1, <2>1, <2>4
  <2>5. CASE w = adapter[worker[w].account].current /\ worker[w].account # a
    BY <2>1, <2>5
  <2> QED BY <2>2, <2>3, <2>4, <2>5
<1>3. \A b \in Account : /\ Slots(b) \subseteq Slots(b)' \/ ~adapter'[b].runs
                         /\ ~adapter[b].runs => ~adapter'[b].runs
  BY DEF Slots
<1> QED BY <1>1, <1>2, <1>3, SameWorkKeeps

(* A command goes to the current worker or to a new one.                    *)
LEMMA EnqueueKeeps ==
  ASSUME IInv, NEW a \in Account, adapter[a].runs, NEW c, Enqueue(a, c),
         UNCHANGED client, checked' \subseteq checked
  PROVE  IInv'
<1> DEFINE d == adapter[a]
           old == {v \in d.retiring \cup ({d.current} \ {None}) : ~Exited(v)}
<1>0. AdapterShapes BY DEF IInv, Shapes, AdapterShapes
<1>1. CASE d.shut
  BY <1>0, <1>1, QuietKeeps DEF Enqueue, IInv, SlotInv, AdapterShapes, Slots
<1>2. CASE ~d.shut /\ Accepts(d.current)
  <2>1. PICK queue : /\ worker' = [worker EXCEPT ![d.current].queue = queue]
                     /\ adapter' = adapter
    BY <1>2 DEF Enqueue
  <2>2. SameWork BY <2>1 DEF SameWork, IInv, Shapes, WorkerFields
  <2> QED BY SMTT(60), <1>0, <2>1, <2>2, SameWorkKeeps DEF IInv, SlotInv, AdapterShapes, Slots, NoOrphan
<1>3. CASE ~d.shut /\ ~Accepts(d.current)
  <2>1. PICK w \in Worker :
          /\ worker[w].stage = "free"
          /\ adapter' = [adapter EXCEPT ![a].current = w, ![a].retiring = old]
          /\ worker' = [worker EXCEPT ![w] =
               [FreeWorker EXCEPT !.account = a, !.stage = "waiting",
                  !.waitFor = old, !.epoch = epoch, !.queue = <<c.type>>,
                  !.late = c.epoch # epoch]]
    BY <1>3 DEF Enqueue
  <2>2. /\ DOMAIN worker' = Worker /\ DOMAIN worker'[w] = WorkerFields
        /\ worker'[w].account = a /\ worker'[w].stage = "waiting" /\ worker'[w].waitFor = old
        /\ \A v \in Worker \ {w} : worker'[v] = worker[v]
    BY <2>1 DEF IInv, Shapes, FreeWorker, WorkerFields
  <2>3. /\ old \subseteq Worker
        /\ \A v \in old : ~Exited(v)
        /\ \A v \in Worker : Busy(v) /\ worker[v].account = a => v \in old
    <3>1. d.retiring \cup ({d.current} \ {None}) = Slots(a) /\ Slots(a) \subseteq Worker
      BY <1>0 DEF AdapterShapes, Slots
    <3>2. old \subseteq Worker /\ \A v \in old : ~Exited(v) BY <3>1
    <3>3. \A v \in Worker : Busy(v) /\ worker[v].account = a => v \in old
      BY <3>1 DEF IInv, SlotInv, Busy, Exited
    <3> QED BY <3>2, <3>3
  <2> HIDE DEF old
  <2>4. /\ AdapterShapes' /\ adapter'[a].current = w /\ adapter'[a].retiring = old
        /\ \A b \in Account : adapter'[b].runs = adapter[b].runs
        /\ \A b \in Account \ {a} : adapter'[b] = adapter[b]
    BY <1>0, <2>1, <2>3 DEF AdapterShapes, AdapterFields
  <2>5. Shapes' BY <2>2, <2>3, <2>4 DEF IInv, Shapes, AdapterShapes
  <2>6. SlotInv'
    <3>1. ASSUME NEW v \in Worker, Busy(v)', NEW b \in Account, worker'[v].account = b
          PROVE  v \in Slots(b)' \/ ~adapter'[b].runs
      <4>1. CASE b = a
        <5>1. v \in old \cup {w} BY <2>2, <2>3, <3>1, <4>1 DEF Busy
        <5> QED BY <2>4, <4>1, <5>1, NoneAssumption DEF Slots
      <4>2. CASE b # a
        <5>1. Busy(v) /\ worker[v].account = b BY <2>2, <3>1, <4>2 DEF Busy
        <5>2. v \in Slots(b) \/ ~adapter[b].runs BY <5>1 DEF IInv, SlotInv
        <5> QED BY <2>4, <4>2, <5>2 DEF Slots
      <4> QED BY <4>1, <4>2
    <3>2. \A c1 \in checked' : c1.account \in Account /\ adapter'[c1.account].runs
      BY <1>0, <2>4 DEF IInv, SlotInv, AdapterShapes
    <3> QED BY <2>5, <3>1, <3>2 DEF SlotInv, Shapes
  <2>7. WaitInv' BY <2>2, <2>3 DEF IInv, WaitInv, Busy
  <2>8. OpenInv' BY <2>1, <2>2 DEF IInv, OpenInv, Exited
  <2>9. ClientInv' BY <2>1, <2>2 DEF IInv, ClientInv, Holds
  <2>10. NoOrphan' BY <1>3, <2>2, <2>4 DEF IInv, Shapes, NoOrphan, Accepts
  <2> QED BY <2>5, <2>6, <2>7, <2>8, <2>9, <2>10 DEF IInv
<1> QED BY <1>1, <1>2, <1>3

LEMMA HostKeeps ==
  ASSUME IInv, NEW a \in Account, HostStep(a), ~AddAccount(a)
  PROVE  IInv'
<1>0. /\ AdapterShapes
      /\ \A c \in checked : c.account \in Account /\ adapter[c.account].runs
  BY DEF IInv, Shapes, AdapterShapes, SlotInv
<1>1. CASE CheckStep(a)
  <2>1. UNCHANGED <<worker, client, adapter>> BY <1>1 DEF CheckStep, TakesCommand
  <2>2. \A c \in checked' : c.account \in Account /\ adapter'[c.account].runs
    BY <1>1, <2>1 DEF CheckStep, TakesCommand
  <2> QED BY <1>0, <2>1, <2>2, QuietKeeps DEF AdapterShapes, Slots
<1>2. CASE StartStep(a)
  <2>1. PICK c \in checked : c.account = a /\ Enqueue(a, c) BY <1>2 DEF StartStep
  <2>2. adapter[a].runs /\ UNCHANGED client /\ checked' \subseteq checked
    BY <1>0, <1>2, <2>1 DEF StartStep
  <2> QED BY <2>1, <2>2, EnqueueKeeps
<1>3. CASE FailStep(a) BY <1>0, <1>3, QuietKeeps DEF FailStep, AdapterShapes, Slots
<1>4. CASE UseInbox(a)
  <2>1. UNCHANGED <<client, checked>> BY <1>4 DEF UseInbox, TakesCommand
  <2>2. CASE adapter[a].runs BY <1>4, <2>1, <2>2, EnqueueKeeps DEF UseInbox
  <2>3. CASE ~adapter[a].runs
    BY <1>0, <1>4, <2>1, <2>3, QuietKeeps DEF UseInbox, AdapterShapes, Slots
  <2> QED BY <2>2, <2>3
<1>5. CASE Disconnect(a)
  <2>1. /\ AdapterShapes' /\ Slots(a)' = Slots(a)
        /\ adapter'[a].runs = adapter[a].runs
        /\ \A b \in Account \ {a} : adapter'[b] = adapter[b]
    BY <1>0, <1>5 DEF Disconnect, Retired, AdapterShapes, AdapterFields, Slots
  <2>2. StopClient(a, "cancel") /\ UNCHANGED client /\ checked' = {}
    BY <1>5 DEF Disconnect, TakesCommand
  <2> QED BY <2>1, <2>2, StopClientKeeps
<1>6. CASE ShutDown(a)
  <2>1. /\ AdapterShapes' /\ Slots(a)' = Slots(a)
        /\ adapter'[a].runs = adapter[a].runs
        /\ \A b \in Account \ {a} : adapter'[b] = adapter[b]
    BY <1>0, <1>6 DEF ShutDown, Retired, AdapterShapes, AdapterFields, Slots
  <2>2. StopClient(a, "close") /\ UNCHANGED client /\ checked' = {}
    BY <1>6 DEF ShutDown, TakesCommand
  <2> QED BY <2>1, <2>2, StopClientKeeps
<1>7. CASE RemoveAccount(a)
  <2>1. /\ AdapterShapes' /\ ~adapter'[a].runs
        /\ \A b \in Account \ {a} : adapter'[b] = adapter[b]
    BY <1>0, <1>7 DEF RemoveAccount, NewAdapter, AdapterShapes, AdapterFields
  <2>2. StopClient(a, "close") /\ UNCHANGED client /\ checked' = {}
    BY <1>7 DEF RemoveAccount, TakesCommand
  <2> QED BY <2>1, <2>2, StopClientKeeps
<1>8. CASE StopEnds(a)
  <2>1. PICK stop : adapter' = [adapter EXCEPT ![a].stop = stop] BY <1>8 DEF StopEnds
  <2>2. UNCHANGED <<worker, client, checked>> BY <1>8 DEF StopEnds
  <2> QED BY <1>0, <2>1, <2>2, QuietKeeps DEF AdapterShapes, Slots, AdapterFields
<1> QED BY <1>1, <1>2, <1>3, <1>4, <1>5, <1>6, <1>7, <1>8 DEF HostStep

LEMMA ShellKeeps ==
  ASSUME IInv, UNCHANGED <<checked, adapter, worker, client>>
  PROVE  IInv'
BY QuietKeeps DEF IInv, Shapes, AdapterShapes, SlotInv, Slots

LEMMA NextKeeps ==
  ASSUME IInv, [Next]_vars, [NoReuse]_vars
  PROVE  IInv'
<1>1. ASSUME UNCHANGED <<checked, adapter, worker, client>> PROVE IInv'
  BY <1>1, ShellKeeps
<1>2. CASE UNCHANGED vars BY <1>1, <1>2 DEF vars
<1>3. CASE Next /\ NoReuse
  <2>1. CASE Answer \/ CancelLogin \/ TryAgain
    BY <1>1, <2>1 DEF Answer, CancelLogin, TryAgain, Acts
  <2>2. CASE Flush \/ CloseApp BY <1>1, <2>2 DEF Flush, CloseApp
  <2>3. ASSUME NEW a \in Account, ShellStep(a) PROVE IInv'
    <3>1. CASE OpenLogin(a) \/ Resume(a) \/ Use(a) \/ Remove(a) \/ AddAgain(a)
      BY <1>1, <3>1 DEF OpenLogin, Resume, Use, Remove, AddAgain, Acts
    <3>2. CASE DropEvent(a) \/ ShowForm(a) \/ Link(a) \/ ShowFailure(a)
      BY <1>1, <3>2 DEF DropEvent, ShowForm, Link, ShowFailure, Takes
    <3>3. CASE CloseFailedClient(a) \/ EndSession(a)
      BY <1>1, <3>3 DEF CloseFailedClient, EndSession, Takes
    <3> QED BY <2>3, <3>1, <3>2, <3>3 DEF ShellStep
  <2>4. ASSUME NEW a \in Account, HostStep(a) PROVE IInv'
    BY <1>3, <2>4, HostKeeps DEF NoReuse
  <2>5. ASSUME NEW w \in Worker, WorkerStep(w) PROVE IInv'
    BY <2>5, WorkerAdvances, AdvancesKeeps
  <2> QED BY <1>3, <2>1, <2>2, <2>3, <2>4, <2>5 DEF Next
<1> QED BY <1>2, <1>3

LEMMA InitIInv == Init => IInv
<1> SUFFICES ASSUME Init PROVE IInv
  OBVIOUS
<1>1. Shapes
  BY MainAssumption DEF Init, Shapes, FreeWorker, NewAdapter, NoClient, WorkerFields,
     AdapterFields, Client, Auth
<1>2. \A w \in Worker : /\ worker[w].stage = "free" /\ client[w] = NoClient
                        /\ worker[w].waitFor = {}
  BY DEF Init, FreeWorker
<1>3. SlotInv /\ WaitInv /\ OpenInv /\ NoOrphan
  BY <1>2 DEF SlotInv, WaitInv, OpenInv, NoOrphan, Busy, Accepts, Init
<1>4. ClientInv BY <1>2 DEF ClientInv, NoClient, Holds, Form
<1> QED BY <1>1, <1>3, <1>4 DEF IInv

-----------------------------------------------------------------------------
(* The shutdown.                                                            *)

LEMMA StopKeeps ==
  ASSUME StopInv, NEW a \in Account,
         \A v \in Worker : Exited(v) => Exited(v)',
         \A b \in Account \ {a} : adapter'[b] = adapter[b],
         \/ adapter'[a] = adapter[a]
         \/ StopOf(a)'
  PROVE  StopInv'
<1> SUFFICES ASSUME NEW b \in Account PROVE StopOf(b)'
  BY DEF StopInv
<1>1. CASE adapter'[b] = adapter[b] BY <1>1 DEF StopInv, StopOf, Slots
<1>2. CASE b = a /\ StopOf(a)' BY <1>2
<1> QED BY <1>1, <1>2

LEMMA HostKeepsStop ==
  ASSUME IInv, StopInv, NEW a \in Account, HostStep(a), ~AddAccount(a), ~RemoveAccount(a)
  PROVE  StopInv'
<1>0. /\ DOMAIN worker = Worker /\ DOMAIN adapter = Account
      /\ DOMAIN adapter[a] = AdapterFields /\ adapter[a].runs
      /\ Slots(a) \subseteq Worker /\ StopOf(a)
  BY DEF IInv, Shapes, StopInv, StopOf, Slots
<1>1. ASSUME NEW c, Enqueue(a, c)
      PROVE  StopInv'
  <2>1. \A v \in Worker : Exited(v) => Exited(v)'
    <3>1. \/ worker' = worker
          \/ \E v, queue : worker' = [worker EXCEPT ![v].queue = queue]
          \/ \E v \in Worker : /\ worker[v].stage = "free"
                             /\ \E next : worker' = [worker EXCEPT ![v] = next]
      BY <1>1 DEF Enqueue
    <3>2. \A v \in Worker : Exited(v) => worker'[v].stage = worker[v].stage
      BY <3>1 DEF Exited, IInv, Shapes, WorkerFields
    <3> QED BY <3>2 DEF Exited
  <2>2. \A b \in Account \ {a} : adapter'[b] = adapter[b] BY <1>0, <1>1 DEF Enqueue
  <2>3. CASE adapter' = adapter BY <2>1, <2>3, StopKeeps
  <2>4. CASE /\ ~adapter[a].shut
             /\ \E w, old : adapter' = [adapter EXCEPT ![a].current = w, ![a].retiring = old]
    <3>1. /\ adapter'[a].runs /\ adapter'[a].awaited = adapter[a].awaited
          /\ adapter'[a].stop = adapter[a].stop /\ ~adapter'[a].shut
      BY <1>0, <2>4 DEF AdapterFields
    <3>2. StopOf(a)' BY <1>0, <2>4, <3>1 DEF StopOf
    <3> QED BY <2>1, <2>2, <3>2, StopKeeps
  <2> QED BY <1>1, <2>3, <2>4 DEF Enqueue
<1>2. CASE CheckStep(a) \/ FailStep(a)
  <2>1. UNCHANGED <<worker, adapter>> BY <1>2 DEF CheckStep, FailStep, TakesCommand
  <2> QED BY <2>1, StopKeeps DEF Exited
<1>3. CASE StartStep(a) BY <1>1, <1>3 DEF StartStep
<1>4. CASE UseInbox(a) BY <1>0, <1>1, <1>4 DEF UseInbox
<1>5. CASE Disconnect(a)
  <2>1. SameWork BY <1>5, StopClientMarks DEF Disconnect
  <2>2. /\ \A b \in Account \ {a} : adapter'[b] = adapter[b]
        /\ Slots(a)' = Slots(a) /\ adapter'[a].runs
        /\ adapter'[a].awaited = adapter[a].awaited /\ adapter'[a].stop = adapter[a].stop
        /\ adapter'[a].shut = adapter[a].shut
    BY <1>0, <1>5 DEF Disconnect, Retired, AdapterFields, Slots
  <2>3. \A v \in Worker : Exited(v) => Exited(v)' BY <2>1 DEF SameWork, Exited
  <2>4. StopOf(a)' BY <1>0, <2>2, <2>3 DEF StopOf
  <2> QED BY <2>2, <2>3, <2>4, StopKeeps
<1>6. CASE ShutDown(a)
  <2>1. SameWork BY <1>6, StopClientMarks DEF ShutDown
  <2>2. /\ \A b \in Account \ {a} : adapter'[b] = adapter[b]
        /\ Slots(a)' = Slots(a) /\ adapter'[a].runs
        /\ adapter'[a].awaited = Slots(a) /\ adapter'[a].stop = "waiting"
        /\ adapter'[a].shut
    BY <1>0, <1>6 DEF ShutDown, Retired, AdapterFields, Slots
  <2>3. \A v \in Worker : Exited(v) => Exited(v)' BY <2>1 DEF SameWork, Exited
  <2>4. StopOf(a)' BY <1>0, <2>2 DEF StopOf
  <2> QED BY <2>2, <2>3, <2>4, StopKeeps
<1>7. CASE StopEnds(a)
  <2>1. PICK stop \in {"clean", "late"} :
          /\ adapter' = [adapter EXCEPT ![a].stop = stop]
          /\ stop = "clean" => \A w \in adapter[a].awaited : Exited(w)
          /\ adapter[a].stop = "waiting" /\ worker' = worker
    BY <1>7 DEF StopEnds
  <2>2. /\ \A b \in Account \ {a} : adapter'[b] = adapter[b]
        /\ Slots(a)' = Slots(a) /\ adapter'[a].runs
        /\ adapter'[a].awaited = adapter[a].awaited /\ adapter'[a].stop = stop
        /\ adapter'[a].shut = adapter[a].shut
    BY <1>0, <2>1 DEF AdapterFields, Slots
  <2>3. \A v : Exited(v) <=> Exited(v)' BY <2>1 DEF Exited
  <2>4. StopOf(a)' BY <1>0, <2>1, <2>2, <2>3 DEF StopOf
  <2> QED BY <2>2, <2>3, <2>4, StopKeeps
<1> QED BY <1>2, <1>3, <1>4, <1>5, <1>6, <1>7 DEF HostStep

LEMMA NextKeepsStop ==
  ASSUME IInv, StopInv, [Next]_vars, [NoReuse /\ NoRemoval]_vars
  PROVE  StopInv'
<1>1. ASSUME UNCHANGED <<adapter, worker>> PROVE StopInv'
  BY <1>1 DEF StopInv, StopOf, Slots, Exited
<1>2. CASE UNCHANGED vars BY <1>1, <1>2 DEF vars
<1>3. CASE Next /\ NoReuse /\ NoRemoval
  <2>1. CASE Answer \/ CancelLogin \/ TryAgain
    BY <1>1, <2>1 DEF Answer, CancelLogin, TryAgain, Acts
  <2>2. CASE Flush \/ CloseApp BY <1>1, <2>2 DEF Flush, CloseApp
  <2>3. ASSUME NEW a \in Account, ShellStep(a) PROVE StopInv'
    <3>1. CASE OpenLogin(a) \/ Resume(a) \/ Use(a) \/ Remove(a) \/ AddAgain(a)
      BY <1>1, <3>1 DEF OpenLogin, Resume, Use, Remove, AddAgain, Acts
    <3>2. CASE DropEvent(a) \/ ShowForm(a) \/ Link(a) \/ ShowFailure(a)
      BY <1>1, <3>2 DEF DropEvent, ShowForm, Link, ShowFailure, Takes
    <3>3. CASE CloseFailedClient(a) \/ EndSession(a)
      BY <1>1, <3>3 DEF CloseFailedClient, EndSession, Takes
    <3> QED BY <2>3, <3>1, <3>2, <3>3 DEF ShellStep
  <2>4. ASSUME NEW a \in Account, HostStep(a) PROVE StopInv'
    BY <1>3, <2>4, HostKeepsStop DEF NoReuse, NoRemoval
  <2>5. ASSUME NEW w \in Worker, WorkerStep(w) PROVE StopInv'
    <3>1. PICK c : Advances(w, c) BY <2>5, WorkerAdvances
    <3>2. \A v \in Worker : Exited(v) => Exited(v)' BY <3>1 DEF Advances, Moves, Exited
    <3>3. adapter' = adapter BY <3>1 DEF Advances
    <3> QED BY <3>2, <3>3, MainAssumption, StopKeeps
  <2> QED BY <1>3, <2>1, <2>2, <2>3, <2>4, <2>5 DEF Next
<1> QED BY <1>2, <1>3

LEMMA InitStop == Init => StopInv
BY NoneAssumption DEF Init, StopInv, StopOf, NewAdapter, Slots

-----------------------------------------------------------------------------
(* The invariant holds as long as no account number is used again.          *)
THEOREM LoginInvariance == Spec /\ [][NoReuse]_vars => []IInv
<1>1. IInv /\ [Next]_vars /\ [NoReuse]_vars => IInv' BY NextKeeps
<1> QED BY InitIInv, <1>1, PTL DEF Spec

(* No two TDLib clients hold the database of one account, however many      *)
(* workers closed, wait, or gave up waiting before: a new one waits for all *)
(* of them (WorkerSlots, enqueue).                                          *)
THEOREM OneClientPerAccount == Spec /\ [][NoReuse]_vars => []OneClient
<1>1. IInv => OneClient
  <2> SUFFICES ASSUME IInv, NEW v \in Worker, NEW w \in Worker, Holds(v), Holds(w),
                      worker[v].account = worker[w].account, v # w
               PROVE  FALSE
    BY DEF OneClient
  <2>1. worker[v].stage = "open" /\ worker[w].stage = "open" BY DEF IInv, ClientInv
  <2>2. v \in worker[w].waitFor \/ w \in worker[v].waitFor
    BY <2>1 DEF IInv, WaitInv, Busy
  <2> QED BY <2>1, <2>2 DEF IInv, OpenInv, Exited
<1> QED BY LoginInvariance, <1>1, PTL

(* A client that runs can still be told to close: its adapter knows it as   *)
(* the current one, or it was told (stop_client, remove_account).           *)
THEOREM NoOrphanRuns == Spec /\ [][NoReuse]_vars => []NoOrphan
<1>1. IInv => NoOrphan BY DEF IInv
<1> QED BY LoginInvariance, <1>1, PTL

(* When every account stopped cleanly nobody holds a database or waits to   *)
(* open one: a shutdown awaits every worker of its account, the retired     *)
(* ones too (WorkerSlots::all).  A removed account has no shutdown, so      *)
(* every account must stay.                                                 *)
THEOREM CleanStops == Spec /\ [][NoReuse /\ NoRemoval]_vars => []CleanStopHasNoClient
<1>1. IInv /\ [Next]_vars /\ [NoReuse /\ NoRemoval]_vars => IInv' BY NextKeeps
<1>2. IInv /\ StopInv /\ [Next]_vars /\ [NoReuse /\ NoRemoval]_vars => StopInv'
  BY NextKeepsStop
<1>3. IInv /\ StopInv => CleanStopHasNoClient
  <2> SUFFICES ASSUME IInv, StopInv, \A a \in Account : adapter[a].stop = "clean",
                      NEW w \in Worker, Busy(w)
               PROVE  FALSE
    BY DEF CleanStopHasNoClient, IInv, ClientInv, Busy
  <2>1. worker[w].account \in Account BY DEF IInv, Shapes
  <2>2. w \in Slots(worker[w].account) BY <2>1 DEF IInv, SlotInv, StopInv, StopOf
  <2>3. Exited(w) BY <2>1, <2>2 DEF StopInv, StopOf
  <2> QED BY <2>3 DEF Exited, Busy
<1> QED BY InitIInv, InitStop, <1>1, <1>2, <1>3, PTL DEF Spec

-----------------------------------------------------------------------------
(* The sign-in of a worker: what its client reported, what it read of that, *)
(* and the session of its account.                                          *)

(* The order in which TDLib reports the states of a client.                 *)
Rank == [auth \in Auth |->
    IF auth = "none" THEN 0 ELSE IF auth = "params" THEN 1
    ELSE IF auth = "phone" THEN 2 ELSE IF auth = "code" THEN 3
    ELSE IF auth = "ready" THEN 4 ELSE IF auth = "closing" THEN 5 ELSE 6]

(* Only a code is asked for twice (the code, then the password).            *)
Ordered(c) ==
    \A i, j \in DOMAIN c.updates :
      /\ Rank[c.updates[i]] <= Rank[c.auth]
      /\ i < j => \/ Rank[c.updates[i]] < Rank[c.updates[j]]
                  \/ c.updates[i] = "code" /\ c.updates[j] = "code"

(* An update that the worker did not read yet.                              *)
Waits(c, auth) == \E i \in DOMAIN c.updates : c.updates[i] = auth
WaitsForm(c) == \E i \in DOMAIN c.updates : c.updates[i] \in Form

ReadReady(k) == k.authorized \/ k.lateReady \/ k.loggedOut

WorkerTypes(k) ==
    /\ k.newLogin \in BOOLEAN /\ k.authorized \in BOOLEAN /\ k.lateReady \in BOOLEAN
    /\ k.loggedOut \in BOOLEAN /\ k.marked \in BOOLEAN /\ k.close \in {"no", "cancel", "close"}

NothingRead(k) == ~k.newLogin /\ ~ReadReady(k) /\ k.close = "no"

(* Worker k with client c, when the database of its account holds a session *)
(* (s) and the vault its marker (m).                                        *)
SignIn(k, c, s, m) ==
    /\ k.close # "no" => k.marked /\ c.auth \in {"closing", "closed"}
    /\ c.auth \in {"closing", "closed"} /\ k.close = "no" => ~s
    /\ c.auth \in Form => ~s
    /\ k.newLogin => Rank[c.auth] > 1
    /\ ReadReady(k) => Rank[c.auth] >= 4 /\ ~WaitsForm(c) /\ ~Waits(c, "ready")
    /\ s /\ (k.newLogin \/ WaitsForm(c)) => Waits(c, "ready") \/ ReadReady(k) \/ k.close = "close"
    /\ k.close = "cancel" /\ k.newLogin /\ (k.authorized \/ k.lateReady) => k.loggedOut
    /\ k.loggedOut => ~m /\ k.close = "cancel"
    /\ k.newLogin /\ (Waits(c, "ready") \/ c.auth \in Form) => ~m
    /\ ~k.newLogin /\ (Waits(c, "code") \/ c.auth \in Form) => Waits(c, "phone")

SignInInv ==
    /\ session \in [Account -> BOOLEAN] /\ marker \in [Account -> BOOLEAN]
    /\ \A w \in Worker :
         LET a == worker[w].account
         IN  /\ WorkerTypes(worker[w]) /\ Ordered(client[w])
             /\ worker[w].stage = "waiting" => NothingRead(worker[w])
             /\ worker[w].stage = "open" => SignIn(worker[w], client[w], session[a], marker[a])

LEMMA RankFacts ==
  /\ Rank["none"] = 0 /\ Rank["params"] = 1 /\ Rank["phone"] = 2 /\ Rank["code"] = 3
  /\ Rank["ready"] = 4 /\ Rank["closing"] = 5 /\ Rank["closed"] = 6
  /\ \A auth \in Auth : Rank[auth] \in 0 .. 6
BY DEF Rank, Auth

(* TDLib reports one state more.                                            *)
LEMMA AddUpdate ==
  ASSUME NEW c, Good(c), Ordered(c), NEW auth \in Auth,
         Rank[c.auth] < Rank[auth] \/ (c.auth = "code" /\ auth = "code")
  PROVE  LET d == Updated(c, auth) IN
         /\ d.auth = auth /\ Ordered(d)
         /\ \A x : Waits(d, x) <=> Waits(c, x) \/ x = auth
         /\ WaitsForm(d) <=> WaitsForm(c) \/ auth \in Form
<1> DEFINE u == c.updates
           v == Append(u, auth)
           d == Updated(c, auth)
<1>1. u \in Seq(Auth) /\ c.auth \in Auth BY DEF Good, Client
<1>2. /\ Len(u) \in Nat /\ DOMAIN u = 1 .. Len(u) /\ DOMAIN v = 1 .. Len(u) + 1
      /\ v[Len(u) + 1] = auth /\ \A i \in DOMAIN u : v[i] = u[i] /\ u[i] \in Auth
  BY <1>1
<1>3. d.auth = auth /\ d.updates = v BY DEF Updated
<1> HIDE DEF v, d
<1>4. \A i \in DOMAIN v : \/ i \in DOMAIN u /\ v[i] = u[i] /\ i <= Len(u)
                          \/ i = Len(u) + 1 /\ v[i] = auth
  BY <1>2
<1>5. (\A i \in DOMAIN u : i \in DOMAIN v /\ v[i] = u[i]) /\ Len(u) + 1 \in DOMAIN v
  BY <1>2
<1>6. \A x : Waits(d, x) <=> Waits(c, x) \/ x = auth BY <1>2, <1>3, <1>4, <1>5 DEF Waits
<1>7. WaitsForm(d) <=> WaitsForm(c) \/ auth \in Form
  BY <1>2, <1>3, <1>4, <1>5 DEF WaitsForm
<1>8. \A i \in DOMAIN u : /\ Rank[u[i]] \in Nat /\ Rank[u[i]] <= Rank[c.auth]
  BY <1>2, RankFacts DEF Ordered
<1>9. Rank[auth] \in Nat /\ Rank[c.auth] \in Nat BY <1>1, RankFacts
<1>10. \A i \in DOMAIN u : \/ Rank[u[i]] < Rank[auth]
                           \/ u[i] = "code" /\ auth = "code"
  <2> TAKE i \in DOMAIN u
  <2>1. CASE Rank[c.auth] < Rank[auth] BY <1>8, <1>9, <2>1
  <2>2. CASE c.auth = "code" /\ auth = "code"
    <3>1. u[i] \in Auth /\ Rank[u[i]] <= 3 BY <1>2, <1>8, <2>2, RankFacts
    <3>2. u[i] = "code" \/ Rank[u[i]] < 3 BY <3>1, RankFacts DEF Auth
    <3> QED BY <2>2, <3>2, RankFacts
  <2> QED BY <2>1, <2>2
<1>11. Ordered(d)
  <2> SUFFICES ASSUME NEW i \in DOMAIN v, NEW j \in DOMAIN v
               PROVE  /\ Rank[v[i]] <= Rank[auth]
                      /\ i < j => \/ Rank[v[i]] < Rank[v[j]]
                                  \/ v[i] = "code" /\ v[j] = "code"
    BY <1>3 DEF Ordered
  <2>1. Rank[v[i]] <= Rank[auth]
    <3>1. CASE i \in DOMAIN u /\ v[i] = u[i]
      <4>1. Rank[u[i]] < Rank[auth] \/ Rank[u[i]] = Rank[auth] BY <1>10, <3>1
      <4> QED BY <1>8, <1>9, <3>1, <4>1
    <3>2. CASE v[i] = auth BY <1>9, <3>2
    <3> QED BY <1>4, <3>1, <3>2
  <2>2. ASSUME i < j
        PROVE  Rank[v[i]] < Rank[v[j]] \/ (v[i] = "code" /\ v[j] = "code")
    <3>1. i \in DOMAIN u /\ v[i] = u[i] BY <1>2, <1>4, <2>2
    <3>2. CASE j \in DOMAIN u /\ v[j] = u[j] BY <2>2, <3>1, <3>2 DEF Ordered
    <3>3. CASE v[j] = auth BY <1>10, <3>1, <3>3
    <3> QED BY <1>4, <3>2, <3>3
  <2> QED BY <2>1, <2>2
<1> QED BY <1>3, <1>6, <1>7, <1>11 DEF d

(* The worker reads the first update: the later ones come after it.         *)
LEMMA ReadUpdate ==
  ASSUME NEW c, Good(c), Ordered(c), c.updates # <<>>
  PROVE  LET d == [c EXCEPT !.updates = Tail(@)]
             h == Head(c.updates)
         IN  /\ d.auth = c.auth /\ Ordered(d) /\ h \in Auth
             /\ Waits(c, h) /\ Rank[h] <= Rank[c.auth]
             /\ \A x : Waits(d, x) => /\ Waits(c, x) /\ x \in Auth
                                      /\ Rank[h] < Rank[x] \/ (h = "code" /\ x = "code")
             /\ \A x : Waits(c, x) => x = h \/ Waits(d, x)
<1> DEFINE u == c.updates
           v == Tail(u)
           d == [c EXCEPT !.updates = Tail(@)]
           h == Head(u)
<1>1. u \in Seq(Auth) /\ c.auth \in Auth /\ u # <<>> BY DEF Good, Client
<1>2. /\ Len(u) \in Nat \ {0} /\ DOMAIN u = 1 .. Len(u) /\ DOMAIN v = 1 .. Len(u) - 1
      /\ h = u[1] /\ \A i \in DOMAIN u : u[i] \in Auth
      /\ \A i \in 1 .. Len(u) - 1 : v[i] = u[i + 1]
  BY <1>1
<1>3. d.auth = c.auth /\ d.updates = v BY DEF Good, Client
<1> HIDE DEF v, h, d
<1>4. 1 \in DOMAIN u /\ \A i \in DOMAIN v : i + 1 \in DOMAIN u /\ v[i] = u[i + 1] /\ 1 < i + 1
  BY <1>2
<1>5. \A i \in DOMAIN u : i = 1 \/ (i - 1 \in DOMAIN v /\ v[i - 1] = u[i])
  <2> TAKE i \in DOMAIN u
  <2>1. i # 1 => i - 1 \in 1 .. Len(u) - 1 /\ (i - 1) + 1 = i BY <1>2
  <2> QED BY <1>2, <2>1
<1>6. Ordered(d)
  <2> SUFFICES ASSUME NEW i \in DOMAIN v, NEW j \in DOMAIN v
               PROVE  /\ Rank[v[i]] <= Rank[c.auth]
                      /\ i < j => \/ Rank[v[i]] < Rank[v[j]]
                                  \/ v[i] = "code" /\ v[j] = "code"
    BY <1>3 DEF Ordered
  <2>1. i < j => i + 1 < j + 1 BY <1>2
  <2> QED BY <1>4, <2>1 DEF Ordered
<1>7. \A x : Waits(d, x) => /\ Waits(c, x) /\ x \in Auth
                            /\ Rank[h] < Rank[x] \/ (h = "code" /\ x = "code")
  <2> SUFFICES ASSUME NEW i \in DOMAIN v
               PROVE  /\ Waits(c, v[i]) /\ v[i] \in Auth
                      /\ Rank[h] < Rank[v[i]] \/ (h = "code" /\ v[i] = "code")
    BY <1>3 DEF Waits
  <2>1. Rank[u[1]] < Rank[u[i + 1]] \/ (u[1] = "code" /\ u[i + 1] = "code")
    BY <1>4 DEF Ordered
  <2> QED BY <1>2, <1>4, <2>1 DEF Waits
<1>8. \A x : Waits(c, x) => x = h \/ Waits(d, x) BY <1>2, <1>3, <1>5 DEF Waits
<1>9. Waits(c, h) /\ Rank[h] <= Rank[c.auth] /\ h \in Auth
  BY <1>2, <1>4 DEF Waits, Ordered
<1> QED BY <1>3, <1>6, <1>7, <1>8, <1>9 DEF d, h

(* A form that waits is a phone or a code.                                  *)
LEMMA FormWaits == ASSUME NEW c PROVE WaitsForm(c) <=> Waits(c, "phone") \/ Waits(c, "code")
BY DEF WaitsForm, Waits, Form

(* Two workers of an account are not open at once.                          *)
LEMMA OneOpen ==
  ASSUME IInv, NEW v \in Worker, NEW w \in Worker, worker[v].stage = "open",
         worker[w].stage = "open", worker[v].account = worker[w].account
  PROVE  v = w
<1> SUFFICES ASSUME v # w PROVE FALSE
  OBVIOUS
<1>1. v \in worker[w].waitFor \/ w \in worker[v].waitFor BY DEF IInv, WaitInv, Busy
<1> QED BY <1>1 DEF IInv, OpenInv, Exited

(* A step of worker w touches the session of its account only.              *)
LEMMA SignInKeeps ==
  ASSUME IInv, SignInInv, NEW w \in Worker,
         \A v \in Worker \ {w} : worker'[v] = worker[v] /\ client'[v] = client[v],
         worker'[w].account = worker[w].account,
         worker[w].stage = "open" \/ (session' = session /\ marker' = marker),
         NEW s \in BOOLEAN, NEW m \in BOOLEAN,
         session' = [session EXCEPT ![worker[w].account] = s],
         marker' = [marker EXCEPT ![worker[w].account] = m],
         WorkerTypes(worker'[w]), Ordered(client'[w]),
         worker'[w].stage = "waiting" => NothingRead(worker'[w]),
         worker'[w].stage = "open" => SignIn(worker'[w], client'[w], s, m)
  PROVE  SignInInv'
<1> DEFINE a == worker[w].account
<1>1. a \in Account /\ \A v \in Worker : worker[v].account \in Account
  BY DEF IInv, Shapes
<1>2. /\ session \in [Account -> BOOLEAN] /\ marker \in [Account -> BOOLEAN]
      /\ session' \in [Account -> BOOLEAN] /\ marker' \in [Account -> BOOLEAN]
      /\ session'[a] = s /\ marker'[a] = m
      /\ \A b \in Account \ {a} : session'[b] = session[b] /\ marker'[b] = marker[b]
  BY <1>1 DEF SignInInv
<1> SUFFICES ASSUME NEW v \in Worker
             PROVE  /\ WorkerTypes(worker'[v]) /\ Ordered(client'[v])
                    /\ worker'[v].stage = "waiting" => NothingRead(worker'[v])
                    /\ worker'[v].stage = "open" =>
                         SignIn(worker'[v], client'[v], session'[worker'[v].account],
                                marker'[worker'[v].account])
  BY <1>2 DEF SignInInv
<1>3. CASE v = w BY <1>2, <1>3
<1>4. CASE v # w
  <2>1. worker'[v] = worker[v] /\ client'[v] = client[v] BY <1>4
  <2>2. /\ WorkerTypes(worker[v]) /\ Ordered(client[v])
        /\ worker[v].stage = "waiting" => NothingRead(worker[v])
        /\ worker[v].stage = "open" =>
             SignIn(worker[v], client[v], session[worker[v].account], marker[worker[v].account])
    BY DEF SignInInv
  <2>3. ASSUME worker[v].stage = "open"
        PROVE  /\ session'[worker[v].account] = session[worker[v].account]
               /\ marker'[worker[v].account] = marker[worker[v].account]
    <3>1. CASE worker[v].account = a BY <1>4, <2>3, <3>1, OneOpen
    <3>2. CASE worker[v].account # a BY <1>1, <1>2, <3>2
    <3> QED BY <3>1, <3>2
  <2> QED BY <2>1, <2>2, <2>3
<1> QED BY <1>3, <1>4

(* A step that at most marks workers, or gives them commands.               *)
LEMMA MarksKeep ==
  ASSUME SignInInv, UNCHANGED <<client, session, marker>>,
         \A v \in Worker :
           \/ /\ worker'[v].account = worker[v].account /\ worker'[v].stage = worker[v].stage
              /\ worker'[v].newLogin = worker[v].newLogin
              /\ worker'[v].authorized = worker[v].authorized
              /\ worker'[v].lateReady = worker[v].lateReady
              /\ worker'[v].loggedOut = worker[v].loggedOut
              /\ worker'[v].close = worker[v].close
              /\ worker'[v].marked \in {worker[v].marked, TRUE}
           \/ /\ worker'[v].stage = "waiting" /\ WorkerTypes(worker'[v])
              /\ NothingRead(worker'[v])
  PROVE  SignInInv'
<1> SUFFICES ASSUME NEW v \in Worker
             PROVE  /\ WorkerTypes(worker'[v]) /\ Ordered(client'[v])
                    /\ worker'[v].stage = "waiting" => NothingRead(worker'[v])
                    /\ worker'[v].stage = "open" =>
                         SignIn(worker'[v], client'[v], session'[worker'[v].account],
                                marker'[worker'[v].account])
  BY DEF SignInInv
<1>1. /\ WorkerTypes(worker[v]) /\ Ordered(client[v])
      /\ worker[v].stage = "waiting" => NothingRead(worker[v])
      /\ worker[v].stage = "open" =>
           SignIn(worker[v], client[v], session[worker[v].account], marker[worker[v].account])
  BY DEF SignInInv
<1>2. CASE worker'[v].stage = "waiting" /\ WorkerTypes(worker'[v]) /\ NothingRead(worker'[v])
  BY <1>1, <1>2
<1>3. CASE /\ worker'[v].account = worker[v].account /\ worker'[v].stage = worker[v].stage
           /\ worker'[v].newLogin = worker[v].newLogin
           /\ worker'[v].authorized = worker[v].authorized
           /\ worker'[v].lateReady = worker[v].lateReady
           /\ worker'[v].loggedOut = worker[v].loggedOut
           /\ worker'[v].close = worker[v].close
           /\ worker'[v].marked \in {worker[v].marked, TRUE}
  <2>1. WorkerTypes(worker'[v]) BY <1>1, <1>3 DEF WorkerTypes
  <2>2. worker'[v].stage = "waiting" => NothingRead(worker'[v])
    BY <1>1, <1>3 DEF NothingRead, ReadReady
  <2>3. ASSUME worker'[v].stage = "open"
        PROVE  SignIn(worker'[v], client'[v], session'[worker'[v].account], marker'[worker'[v].account])
    <3>1. SignIn(worker[v], client[v], session[worker[v].account], marker[worker[v].account])
      BY <1>1, <1>3, <2>3
    <3> QED BY <1>3, <3>1 DEF SignIn, ReadReady
  <2> QED BY <1>1, <2>1, <2>2, <2>3
<1> QED BY <1>2, <1>3

(* The steps of the host only queue, mark and create workers.               *)
LEMMA HostSignIn ==
  ASSUME IInv, SignInInv, NEW a \in Account, HostStep(a)
  PROVE  SignInInv'
<1>0. /\ DOMAIN worker = Worker /\ \A w \in Worker : DOMAIN worker[w] = WorkerFields
      /\ \A w \in Worker : WorkerTypes(worker[w])
  BY DEF IInv, Shapes, SignInInv
<1>1. ASSUME worker' = worker, UNCHANGED <<client, session, marker>> PROVE SignInInv'
  BY <1>0, <1>1, MarksKeep
<1>2. ASSUME NEW c, Enqueue(a, c), UNCHANGED <<client, session, marker>> PROVE SignInInv'
  <2>1. CASE worker' = worker BY <1>1, <1>2, <2>1
  <2>2. ASSUME NEW w, NEW queue, worker' = [worker EXCEPT ![w].queue = queue] PROVE SignInInv'
    <3>1. \A v \in Worker :
            /\ worker'[v].account = worker[v].account /\ worker'[v].stage = worker[v].stage
            /\ worker'[v].newLogin = worker[v].newLogin
            /\ worker'[v].authorized = worker[v].authorized
            /\ worker'[v].lateReady = worker[v].lateReady
            /\ worker'[v].loggedOut = worker[v].loggedOut
            /\ worker'[v].close = worker[v].close
            /\ worker'[v].marked = worker[v].marked
      BY <1>0, <2>2 DEF WorkerFields
    <3> QED BY <1>2, <3>1, MarksKeep
  <2>3. ASSUME NEW w \in Worker, NEW old, NEW queue, NEW late,
               worker' = [worker EXCEPT ![w] =
                    [FreeWorker EXCEPT !.account = a, !.stage = "waiting",
                       !.waitFor = old, !.epoch = epoch, !.queue = queue, !.late = late]]
        PROVE  SignInInv'
    <3>1. worker'[w].stage = "waiting" /\ WorkerTypes(worker'[w]) /\ NothingRead(worker'[w])
      BY <1>0, <2>3 DEF FreeWorker, WorkerTypes, NothingRead, ReadReady
    <3>2. \A v \in Worker \ {w} : worker'[v] = worker[v] BY <1>0, <2>3
    <3> QED BY <1>2, <3>1, <3>2, MarksKeep
  <2>4. CASE worker' = [worker EXCEPT ![adapter[a].current].queue = Append(@, c.type)]
    <3> DEFINE queue == Append(worker[adapter[a].current].queue, c.type)
    <3>1. worker' = [worker EXCEPT ![adapter[a].current].queue = queue] BY <2>4
    <3> HIDE DEF queue
    <3> QED BY <2>2, <3>1
  <2>5. CASE \E w \in Worker : \E old :
               worker' = [worker EXCEPT ![w] =
                    [FreeWorker EXCEPT !.account = a, !.stage = "waiting",
                       !.waitFor = old, !.epoch = epoch, !.queue = <<c.type>>,
                       !.late = c.epoch # epoch]]
    <3> DEFINE queue == <<c.type>>
               late == c.epoch # epoch
    <3>1. PICK w \in Worker : \E old :
             worker' = [worker EXCEPT ![w] =
                    [FreeWorker EXCEPT !.account = a, !.stage = "waiting",
                       !.waitFor = old, !.epoch = epoch, !.queue = queue, !.late = late]]
      BY <2>5
    <3> HIDE DEF queue, late
    <3> QED BY <2>3, <3>1
  <2>6. \/ worker' = worker
        \/ worker' = [worker EXCEPT ![adapter[a].current].queue = Append(@, c.type)]
        \/ \E w \in Worker : \E old :
             worker' = [worker EXCEPT ![w] =
                    [FreeWorker EXCEPT !.account = a, !.stage = "waiting",
                       !.waitFor = old, !.epoch = epoch, !.queue = <<c.type>>,
                       !.late = c.epoch # epoch]]
    BY ZenonT(60), <1>2 DEF Enqueue
  <2> QED BY <2>1, <2>4, <2>5, <2>6
<1>3. ASSUME NEW type, StopClient(a, type), UNCHANGED <<client, session, marker>>
      PROVE  SignInInv'
  <2>1. \A v \in Worker :
          /\ worker'[v].account = worker[v].account /\ worker'[v].stage = worker[v].stage
          /\ worker'[v].newLogin = worker[v].newLogin
          /\ worker'[v].authorized = worker[v].authorized
          /\ worker'[v].lateReady = worker[v].lateReady
          /\ worker'[v].loggedOut = worker[v].loggedOut
          /\ worker'[v].close = worker[v].close
          /\ worker'[v].marked \in {worker[v].marked, TRUE}
    BY <1>0, <1>3 DEF StopClient, Stopped, WorkerFields
  <2> QED BY <1>3, <2>1, MarksKeep
<1>4. CASE CheckStep(a) \/ FailStep(a) \/ AddAccount(a) \/ StopEnds(a)
  BY <1>1, <1>4 DEF CheckStep, FailStep, AddAccount, StopEnds, TakesCommand
<1>5. CASE StartStep(a) BY <1>2, <1>5 DEF StartStep
<1>6. CASE UseInbox(a) BY <1>1, <1>2, <1>6 DEF UseInbox, TakesCommand
<1>7. CASE Disconnect(a) \/ ShutDown(a) \/ RemoveAccount(a)
  BY <1>3, <1>7 DEF Disconnect, ShutDown, RemoveAccount, TakesCommand
<1> QED BY <1>4, <1>5, <1>6, <1>7 DEF HostStep

(* The fields that the sign-in of a worker is about, in its next state.     *)
Signs(w, newLogin, authorized, lateReady, loggedOut, close, marked, stage) ==
    /\ \A v \in Worker \ {w} : worker'[v] = worker[v]
    /\ worker'[w].account = worker[w].account /\ worker'[w].stage = stage
    /\ worker'[w].newLogin = newLogin /\ worker'[w].authorized = authorized
    /\ worker'[w].lateReady = lateReady /\ worker'[w].loggedOut = loggedOut
    /\ worker'[w].close = close /\ worker'[w].marked = marked

(* What a step of an open worker starts from.                               *)
LEMMA SignInFacts ==
  ASSUME IInv, SignInInv, NEW w \in Worker
  PROVE  LET a == worker[w].account
         IN  /\ DOMAIN worker = Worker /\ DOMAIN worker[w] = WorkerFields
             /\ a \in Account /\ client \in [Worker -> Client] /\ Good(client[w])
             /\ Ordered(client[w]) /\ WorkerTypes(worker[w])
             /\ session \in [Account -> BOOLEAN] /\ marker \in [Account -> BOOLEAN]
             /\ session[a] \in BOOLEAN /\ marker[a] \in BOOLEAN
             /\ session = [session EXCEPT ![a] = session[a]]
             /\ marker = [marker EXCEPT ![a] = marker[a]]
             /\ client[w].auth \in Auth
             /\ worker[w].stage = "waiting" => NothingRead(worker[w]) /\ client[w] = NoClient
             /\ worker[w].stage = "open" => SignIn(worker[w], client[w], session[a], marker[a])
BY ClientFacts DEF SignInInv, IInv, Shapes, Good, Client

(* A worker opens its client.                                               *)
LEMMA OpenSignIn ==
  ASSUME IInv, SignInInv, NEW w \in Worker, OpenClient(w)
  PROVE  SignInInv'
<1> DEFINE k == worker[w]
           c == client[w]
           d == Updated(c, "params")
           a == k.account
<1>0. /\ DOMAIN worker = Worker /\ DOMAIN k = WorkerFields /\ client \in [Worker -> Client]
      /\ Good(c) /\ Ordered(c) /\ WorkerTypes(k) /\ NothingRead(k) /\ c = NoClient
      /\ session[a] \in BOOLEAN /\ marker[a] \in BOOLEAN
      /\ session = [session EXCEPT ![a] = session[a]]
      /\ marker = [marker EXCEPT ![a] = marker[a]]
  BY SignInFacts DEF OpenClient
<1>1. /\ Signs(w, k.newLogin, k.authorized, k.lateReady, k.loggedOut, k.close, k.marked, "open")
      /\ client' = [client EXCEPT ![w] = d] /\ session' = session /\ marker' = marker
  BY <1>0 DEF OpenClient, Signs, WorkerFields
<1>2. /\ d.auth = "params" /\ Ordered(d) /\ ~WaitsForm(d)
      /\ ~Waits(d, "ready") /\ ~Waits(d, "code")
  <2>1. c.auth = "none" /\ c.updates = <<>> BY <1>0 DEF NoClient
  <2>2. \A x : ~Waits(c, x) BY <2>1 DEF Waits
  <2>3. Rank[c.auth] < Rank["params"] /\ "params" \in Auth BY <2>1, RankFacts DEF Auth
  <2> HIDE DEF c
  <2>4. /\ d.auth = "params" /\ Ordered(d)
        /\ \A x : Waits(d, x) <=> Waits(c, x) \/ x = "params"
    BY <1>0, <2>3, AddUpdate
  <2> QED BY <2>2, <2>4, FormWaits
<1>3. /\ client'[w] = d /\ \A v \in Worker \ {w} : client'[v] = client[v] BY <1>0, <1>1
<1> HIDE DEF d
<1>4. SignIn(worker'[w], d, session[a], marker[a]) /\ WorkerTypes(worker'[w])
  BY <1>0, <1>1, <1>2 DEF SignIn, Signs, NothingRead, ReadReady, WorkerTypes, Form
<1> QED BY <1>0, <1>1, <1>2, <1>3, <1>4, SignInKeeps DEF Signs

(* Steps that read and report nothing of the sign-in.                       *)
LEMMA SameSignIn ==
  ASSUME IInv, SignInInv, NEW w \in Worker, NEW stage,
         Signs(w, worker[w].newLogin, worker[w].authorized, worker[w].lateReady,
               worker[w].loggedOut, worker[w].close, worker[w].marked, stage),
         stage \in {"exiting", "announcing", "done"} \/ stage = worker[w].stage,
         UNCHANGED <<client, session, marker>>
  PROVE  SignInInv'
<1> DEFINE k == worker[w]
           c == client[w]
           a == k.account
<1>0. /\ Ordered(c) /\ WorkerTypes(k)
      /\ session[a] \in BOOLEAN /\ marker[a] \in BOOLEAN
      /\ session = [session EXCEPT ![a] = session[a]]
      /\ marker = [marker EXCEPT ![a] = marker[a]]
      /\ k.stage = "waiting" => NothingRead(k)
      /\ k.stage = "open" => SignIn(k, c, session[a], marker[a])
  BY SignInFacts
<1>1. /\ WorkerTypes(worker'[w])
      /\ worker'[w].stage = "waiting" => NothingRead(worker'[w])
      /\ worker'[w].stage = "open" => SignIn(worker'[w], c, session[a], marker[a])
  BY <1>0 DEF Signs, SignIn, WorkerTypes, NothingRead, ReadReady
<1> QED BY <1>0, <1>1, SignInKeeps DEF Signs

(* TDLib answers the worker: one more update, and perhaps the session.      *)
LEMMA ReportSignIn ==
  ASSUME IInv, SignInInv, NEW w \in Worker, worker[w].stage = "open",
         NEW auth \in Auth, NEW s \in BOOLEAN,
         Signs(w, worker[w].newLogin, worker[w].authorized, worker[w].lateReady,
               worker[w].loggedOut, worker[w].close, worker[w].marked, "open"),
         client' = [client EXCEPT ![w] = Updated(client[w], auth)],
         session' = [session EXCEPT ![worker[w].account] = s], UNCHANGED marker,
         LET old == client[w].auth
             before == session[worker[w].account]
         IN  \/ auth = "code" /\ old \in Form /\ s = before
             \/ auth = "ready" /\ old = "code" /\ s
             \/ auth = "closing" /\ old = "ready" /\ ~s
             \/ auth = "closed" /\ old = "closing" /\ s = before
  PROVE  SignInInv'
<1> DEFINE k == worker[w]
           c == client[w]
           d == Updated(c, auth)
           a == k.account
<1>0. /\ Good(c) /\ Ordered(c) /\ WorkerTypes(k) /\ client \in [Worker -> Client]
      /\ marker[a] \in BOOLEAN /\ session[a] \in BOOLEAN
      /\ marker = [marker EXCEPT ![a] = marker[a]]
      /\ SignIn(k, c, session[a], marker[a])
  BY SignInFacts
<1>1. Rank[c.auth] < Rank[auth] \/ (c.auth = "code" /\ auth = "code")
  BY RankFacts DEF Form
<1>2. /\ d.auth = auth /\ Ordered(d) /\ \A x : Waits(d, x) <=> Waits(c, x) \/ x = auth
  BY <1>0, <1>1, AddUpdate
<1>3. client'[w] = d /\ \A v \in Worker \ {w} : client'[v] = client[v] BY <1>0
<1> HIDE DEF d
<1>4. /\ WorkerTypes(worker'[w])
      /\ SignIn(worker'[w], d, s, marker[a]) <=> SignIn(k, d, s, marker[a])
  BY <1>0 DEF Signs, SignIn, WorkerTypes, ReadReady
<1> HIDE DEF k, c, a
<1>5. WaitsForm(d) <=> WaitsForm(c) \/ auth = "code"
  <2>1. WaitsForm(d) <=> Waits(d, "phone") \/ Waits(d, "code") BY FormWaits
  <2>2. WaitsForm(c) <=> Waits(c, "phone") \/ Waits(c, "code") BY FormWaits
  <2> QED BY <1>2, <2>1, <2>2 DEF k, c, a
<1>6. SignIn(k, d, s, marker[a])
  <2>1. CASE auth = "code" /\ c.auth \in Form /\ s = session[a]
    BY <1>0, <1>2, <1>5, <2>1, RankFacts DEF SignIn, Form
  <2>2. CASE auth = "ready" /\ c.auth = "code" /\ s
    BY <1>0, <1>2, <1>5, <2>2, RankFacts DEF SignIn, Form
  <2>3. CASE auth = "closing" /\ c.auth = "ready" /\ ~s
    BY <1>0, <1>2, <1>5, <2>3, RankFacts DEF SignIn, Form
  <2>4. CASE auth = "closed" /\ c.auth = "closing" /\ s = session[a]
    BY <1>0, <1>2, <1>5, <2>4, RankFacts DEF SignIn, Form
  <2> QED BY <2>1, <2>2, <2>3, <2>4 DEF c, a, k
<1> QED BY <1>0, <1>2, <1>3, <1>4, <1>6, SignInKeeps DEF Signs, k, c, a

(* An answer of the user.                                                   *)
LEMMA AnswerSignIn ==
  ASSUME IInv, SignInInv, NEW w \in Worker, TakeAnswer(w)
  PROVE  SignInInv'
<1> DEFINE k == worker[w]
           c == client[w]
           a == k.account
<1>0. /\ DOMAIN worker = Worker /\ DOMAIN k = WorkerFields
      /\ session[a] \in BOOLEAN /\ session = [session EXCEPT ![a] = session[a]]
      /\ k.stage = "open" /\ marker' = marker
  BY SignInFacts DEF TakeAnswer, TakesNext
<1>1. Signs(w, k.newLogin, k.authorized, k.lateReady, k.loggedOut, k.close, k.marked, "open")
  BY <1>0 DEF TakeAnswer, Taken, Signs, WorkerFields
<1>2. CASE /\ c.auth \in Form /\ client' = [client EXCEPT ![w] = Updated(c, "code")]
           /\ session' = session
  <2>1. "code" \in Auth /\ session' = [session EXCEPT ![a] = session[a]]
    BY <1>0, <1>2 DEF Auth
  <2> QED BY <1>0, <1>1, <1>2, <2>1, ReportSignIn
<1>3. CASE /\ c.auth = "code" /\ client' = [client EXCEPT ![w] = Updated(c, "ready")]
           /\ session' = [session EXCEPT ![a] = TRUE]
  <2>1. "ready" \in Auth BY DEF Auth
  <2> QED BY <1>0, <1>1, <1>3, <2>1, ReportSignIn
<1>4. CASE UNCHANGED <<client, session>> BY <1>0, <1>1, <1>4, SameSignIn
<1> QED BY <1>2, <1>3, <1>4 DEF TakeAnswer

(* TDLib takes the parameters: the saved session resumes, or it asks for a  *)
(* phone number.                                                            *)
LEMMA ParametersSignIn ==
  ASSUME IInv, SignInInv, NEW w \in Worker, SetParameters(w)
  PROVE  SignInInv'
<1> DEFINE k == worker[w]
           c == client[w]
           a == k.account
           e == Drained(w)
           auth == IF session[a] THEN "ready" ELSE "phone"
           d == Updated(e, auth)
<1>0. /\ Good(c) /\ Ordered(c) /\ WorkerTypes(k) /\ client \in [Worker -> Client]
      /\ marker[a] \in BOOLEAN /\ session[a] \in BOOLEAN
      /\ marker = [marker EXCEPT ![a] = marker[a]] /\ session = [session EXCEPT ![a] = session[a]]
      /\ k.stage = "open" /\ c.updates # <<>> /\ Head(c.updates) = "params"
      /\ SignIn(k, c, session[a], marker[a]) /\ c.auth \in Auth
      /\ worker' = worker /\ session' = session /\ marker' = marker
  BY SignInFacts DEF SetParameters, Update
<1>1. /\ Good(e) /\ e.auth = c.auth /\ Ordered(e)
      /\ \A x : Waits(e, x) => Waits(c, x) /\ x \in Auth /\ Rank["params"] < Rank[x]
      /\ \A x : Waits(c, x) => x = "params" \/ Waits(e, x)
      /\ Rank["params"] <= Rank[c.auth]
  <2> HIDE DEF c
  <2>1. /\ Good(e) /\ e.auth = c.auth BY <1>0, DrainedGood DEF Drained, c
  <2>2. /\ Ordered(e)
        /\ \A x : Waits(e, x) => /\ Waits(c, x) /\ x \in Auth
                                 /\ Rank[Head(c.updates)] < Rank[x] \/ (Head(c.updates) = "code" /\ x = "code")
        /\ \A x : Waits(c, x) => x = Head(c.updates) \/ Waits(e, x)
        /\ Rank[Head(c.updates)] <= Rank[c.auth]
    BY <1>0, ReadUpdate DEF Drained, c
  <2> QED BY <1>0, <2>1, <2>2
<1>2. WaitsForm(e) <=> WaitsForm(c) BY <1>1, FormWaits
<1> HIDE DEF e
<1>3. CASE client' = [client EXCEPT ![w] = e]
  <2>1. client'[w] = e /\ \A v \in Worker \ {w} : client'[v] = client[v] BY <1>0, <1>3
  <2>2. SignIn(k, e, session[a], marker[a])
    <3> HIDE DEF k, c, a
    <3> QED BY <1>0, <1>1, <1>2 DEF SignIn
  <2> QED BY <1>0, <1>1, <2>1, <2>2, SignInKeeps
<1>4. CASE c.auth = "params" /\ client' = [client EXCEPT ![w] = d]
  <2>1. auth \in Auth /\ Rank[e.auth] < Rank[auth] /\ (auth = "ready") = session[a]
        /\ auth \in {"ready", "phone"}
    BY <1>0, <1>1, <1>4, RankFacts DEF Auth
  <2> HIDE DEF auth
  <2>2. /\ d.auth = auth /\ Ordered(d) /\ \A x : Waits(d, x) <=> Waits(e, x) \/ x = auth
    BY <1>1, <2>1, AddUpdate
  <2>3. client'[w] = d /\ \A v \in Worker \ {w} : client'[v] = client[v] BY <1>0, <1>4
  <2> HIDE DEF d
  <2>4. \A x : ~Waits(e, x)
    <3> SUFFICES ASSUME NEW x, Waits(e, x) PROVE FALSE
      OBVIOUS
    <3>1. Waits(c, x) /\ x \in Auth /\ Rank["params"] < Rank[x] BY <1>1
    <3>2. Rank[x] <= Rank[c.auth] BY <1>0, <3>1 DEF Waits, Ordered
    <3> QED BY <1>4, <3>1, <3>2, RankFacts
  <2>5. WaitsForm(d) <=> auth = "phone" BY <2>1, <2>2, <2>4, FormWaits
  <2>6. SignIn(k, d, session[a], marker[a])
    <3> HIDE DEF k, c, a
    <3>1. ~k.newLogin /\ ~ReadReady(k) /\ k.close = "no"
      BY <1>0, <1>4, RankFacts DEF SignIn
    <3> QED BY <1>0, <2>1, <2>2, <2>4, <2>5, <3>1, RankFacts DEF SignIn, Form, ReadReady
  <2> QED BY <1>0, <2>2, <2>3, <2>6, SignInKeeps
<1> QED BY <1>3, <1>4 DEF SetParameters, e

(* The worker is told to close: a cancel logs a signed-in new login out.    *)
LEMMA CloseSignIn ==
  ASSUME IInv, SignInInv, NEW w \in Worker, TakeClose(w)
  PROVE  SignInInv'
<1> DEFINE k == worker[w]
           c == client[w]
           a == k.account
           close == Head(k.queue)
           logOut == CloseKind(k.authorized \/ k.lateReady, k.newLogin, close) = "logOut"
           d == ClosedClient(c)
           m == marker[a] /\ ~logOut
           s == session'[a]
<1>0. /\ Good(c) /\ Ordered(c) /\ WorkerTypes(k) /\ client \in [Worker -> Client]
      /\ DOMAIN worker = Worker /\ DOMAIN k = WorkerFields /\ a \in Account
      /\ session \in [Account -> BOOLEAN] /\ marker \in [Account -> BOOLEAN]
      /\ session[a] \in BOOLEAN /\ marker[a] \in BOOLEAN
      /\ session = [session EXCEPT ![a] = session[a]]
      /\ k.stage = "open" /\ k.close = "no" /\ close \in Closes
      /\ SignIn(k, c, session[a], marker[a]) /\ c.auth \in Auth
  BY SignInFacts DEF TakeClose, TakesNext
<1>1. /\ \A v \in Worker \ {w} : worker'[v] = worker[v]
      /\ worker'[w].account = a /\ worker'[w].stage = "open"
      /\ worker'[w].newLogin = k.newLogin /\ worker'[w].authorized = k.authorized
      /\ worker'[w].lateReady = k.lateReady /\ worker'[w].loggedOut = logOut
      /\ worker'[w].close = close /\ worker'[w].marked = TRUE
  BY <1>0 DEF TakeClose, Taken, WorkerFields
<1>2. /\ client'[w] = d /\ \A v \in Worker \ {w} : client'[v] = client[v]
      /\ marker' = [marker EXCEPT ![a] = m]
      /\ \/ session' = session
         \/ session' = [session EXCEPT ![a] = FALSE]
  BY <1>0 DEF TakeClose, LogOut
<1>3. s \in BOOLEAN /\ session' = [session EXCEPT ![a] = s] /\ (s => session[a])
  BY <1>0, <1>2
<1>4. /\ logOut \in BOOLEAN
      /\ logOut <=> (k.authorized \/ k.lateReady) /\ k.newLogin /\ close = "cancel"
  BY DEF CloseKind
<1>5. m \in BOOLEAN /\ (m <=> marker[a] /\ ~logOut) BY <1>0, <1>4
<1>6. /\ d.auth \in {"closing", "closed"} /\ Ordered(d)
      /\ \A x : x # "closing" => (Waits(d, x) <=> Waits(c, x))
  <2>1. CASE c.auth \in {"closing", "closed"} BY <1>0, <2>1 DEF ClosedClient
  <2>2. CASE c.auth \notin {"closing", "closed"}
    <3>1. Rank[c.auth] < Rank["closing"] /\ "closing" \in Auth
      BY <1>0, <2>2, RankFacts DEF Auth
    <3>2. d = Updated(c, "closing") BY <2>2 DEF ClosedClient
    <3> HIDE DEF d, c
    <3> QED BY <1>0, <3>1, <3>2, AddUpdate
  <2> QED BY <2>1, <2>2
<1> HIDE DEF d, m, s, logOut, close
<1>7. WaitsForm(d) <=> WaitsForm(c) BY <1>6, FormWaits
<1>8. WorkerTypes(worker'[w]) BY <1>0, <1>1, <1>4 DEF WorkerTypes, Closes
<1>9. SignIn(worker'[w], d, s, m)
  <2> DEFINE n == worker'[w]
  <2> HIDE DEF k, c, a, n
  <2>1. /\ n.close # "no" => n.marked /\ d.auth \in {"closing", "closed"}
        /\ n.close # "no" /\ d.auth \notin Form /\ Rank[d.auth] >= 5
    BY <1>0, <1>1, <1>6, RankFacts DEF n, Form, Closes
  <2>2. ReadReady(n) <=> ReadReady(k) BY <1>0, <1>1, <1>4 DEF n, ReadReady, SignIn
  <2>3. ReadReady(n) => ~WaitsForm(d) /\ ~Waits(d, "ready")
    BY <1>0, <1>6, <1>7, <2>2 DEF SignIn
  <2>4. s /\ (n.newLogin \/ WaitsForm(d)) => Waits(d, "ready") \/ ReadReady(n)
    BY <1>0, <1>1, <1>3, <1>6, <1>7, <2>2 DEF n, SignIn
  <2>5. /\ n.close = "cancel" /\ n.newLogin /\ (n.authorized \/ n.lateReady) => n.loggedOut
        /\ n.loggedOut => ~m /\ n.close = "cancel"
    BY <1>1, <1>4, <1>5 DEF n
  <2>6. n.newLogin /\ (Waits(d, "ready") \/ d.auth \in Form) => ~m
    BY <1>0, <1>1, <1>5, <1>6, <2>1 DEF n, SignIn
  <2>7. ~n.newLogin /\ (Waits(d, "code") \/ d.auth \in Form) => Waits(d, "phone")
    BY <1>0, <1>1, <1>6, <2>1 DEF n, SignIn
  <2>8. Rank[d.auth] > 1 /\ Rank[d.auth] >= 4 BY <1>6, RankFacts
  <2> QED BY <2>1, <2>3, <2>4, <2>5, <2>6, <2>7, <2>8 DEF SignIn, n
<1> QED BY ZenonT(60), <1>0, <1>1, <1>2, <1>3, <1>5, <1>6, <1>8, <1>9, SignInKeeps

(* What the worker has before it after it read an update.                   *)
LEMMA DrainedFacts ==
  ASSUME IInv, SignInInv, NEW w \in Worker, NEW auth, Update(w, auth)
  PROVE  LET c == client[w]
             d == Drained(w)
         IN  /\ Good(d) /\ d.auth = c.auth /\ Ordered(d) /\ auth \in Auth
             /\ Waits(c, auth) /\ Rank[auth] <= Rank[c.auth]
             /\ \A x : Waits(d, x) => /\ Waits(c, x) /\ x \in Auth
                                      /\ Rank[auth] < Rank[x] \/ (auth = "code" /\ x = "code")
             /\ \A x : Waits(c, x) => x = auth \/ Waits(d, x)
             /\ worker[w].stage = "open"
<1> DEFINE c == client[w]
<1>1. Good(c) /\ Ordered(c) /\ c.updates # <<>> /\ Head(c.updates) = auth
  BY SignInFacts DEF Update
<1> HIDE DEF c
<1>2. /\ Good([c EXCEPT !.updates = Tail(@)])
      /\ [c EXCEPT !.updates = Tail(@)].auth = c.auth
  BY <1>1, DrainedGood
<1>3. LET d == [c EXCEPT !.updates = Tail(@)]
          h == Head(c.updates)
      IN  /\ Ordered(d) /\ h \in Auth
          /\ Waits(c, h) /\ Rank[h] <= Rank[c.auth]
          /\ \A x : Waits(d, x) => /\ Waits(c, x) /\ x \in Auth
                                   /\ Rank[h] < Rank[x] \/ (h = "code" /\ x = "code")
          /\ \A x : Waits(c, x) => x = h \/ Waits(d, x)
  BY <1>1, ReadUpdate
<1> QED BY <1>1, <1>2, <1>3 DEF Drained, Update, c

(* TDLib asks for a phone number or a code: the login of this worker is new *)
LEMMA FormSignIn ==
  ASSUME IInv, SignInInv, NEW w \in Worker, WaitForLogin(w)
  PROVE  SignInInv'
<1> DEFINE k == worker[w]
           c == client[w]
           a == k.account
           d == Drained(w)
<1>1. PICK form \in Form :
        /\ Update(w, form) /\ client' = [client EXCEPT ![w] = d]
        /\ worker' = [worker EXCEPT ![w].newLogin = TRUE]
        /\ marker' = [marker EXCEPT ![a] = @ /\ form # "phone"]
        /\ session' = session
  BY DEF WaitForLogin
<1> DEFINE m == marker[a] /\ form # "phone"
<1>0. /\ Good(c) /\ Ordered(c) /\ WorkerTypes(k) /\ client \in [Worker -> Client]
      /\ DOMAIN worker = Worker /\ DOMAIN k = WorkerFields /\ a \in Account
      /\ marker \in [Account -> BOOLEAN]
      /\ session[a] \in BOOLEAN /\ marker[a] \in BOOLEAN
      /\ session = [session EXCEPT ![a] = session[a]]
      /\ k.stage = "open" /\ c.auth \in Auth
      /\ SignIn(k, c, session[a], marker[a])
  BY <1>1, SignInFacts DEF Update
<1>2. /\ Good(d) /\ d.auth = c.auth /\ Ordered(d) /\ form \in Auth
      /\ Waits(c, form) /\ Rank[form] <= Rank[c.auth]
      /\ \A x : Waits(d, x) => /\ Waits(c, x) /\ x \in Auth
                               /\ Rank[form] < Rank[x] \/ (form = "code" /\ x = "code")
      /\ \A x : Waits(c, x) => x = form \/ Waits(d, x)
  BY <1>1, DrainedFacts
<1>3. /\ Signs(w, TRUE, k.authorized, k.lateReady, k.loggedOut, k.close, k.marked, "open")
      /\ client'[w] = d /\ \A v \in Worker \ {w} : client'[v] = client[v]
      /\ session' = session /\ marker' = [marker EXCEPT ![a] = m]
      /\ m \in BOOLEAN
  BY <1>0, <1>1 DEF Signs, WorkerFields
<1>4. (m => marker[a]) /\ (form = "phone" => ~m) OBVIOUS
<1> HIDE DEF d, m
<1>5. WorkerTypes(worker'[w]) BY <1>0, <1>3 DEF WorkerTypes, Signs
<1>6. SignIn(worker'[w], d, session[a], m)
  <2> DEFINE n == worker'[w]
             s == session[a]
  <2>0. /\ n.newLogin = TRUE /\ n.authorized = k.authorized
        /\ n.lateReady = k.lateReady /\ n.loggedOut = k.loggedOut
        /\ n.close = k.close /\ n.marked = k.marked
    BY <1>3 DEF Signs
  <2> HIDE DEF k, c, a, n, s
  <2>1. WaitsForm(c) /\ ~ReadReady(k) /\ ~ReadReady(n) /\ ~n.authorized /\ ~n.lateReady
        /\ ~n.loggedOut
    <3>1. WaitsForm(c) BY <1>2, FormWaits DEF Form
    <3> QED BY <1>0, <2>0, <3>1 DEF SignIn, ReadReady
  <2>2. /\ n.close # "no" => n.marked /\ d.auth \in {"closing", "closed"}
        /\ d.auth \in {"closing", "closed"} /\ n.close = "no" => ~s
        /\ d.auth \in Form => ~s
    BY <1>0, <1>2, <2>0 DEF SignIn, s
  <2>3. Rank[d.auth] > 1
    <3>1. form \in {"phone", "code"} BY DEF Form
    <3> QED BY <1>0, <1>2, <3>1, RankFacts
  <2>4. s => Waits(d, "ready") \/ n.close = "close"
    <3>1. s => Waits(c, "ready") \/ k.close = "close" BY <1>0, <2>1 DEF SignIn, s
    <3> QED BY <1>2, <2>0, <3>1 DEF Form
  <2>5. ASSUME Waits(d, "ready") \/ d.auth \in Form PROVE ~m
    <3>1. CASE form = "phone" BY <1>4, <3>1
    <3>2. CASE form = "code"
      <4>1. Waits(c, "ready") \/ c.auth \in Form BY <1>2, <2>5
      <4>2. CASE k.newLogin BY <1>0, <1>4, <4>1, <4>2 DEF SignIn
      <4>3. CASE ~k.newLogin
        <5>1. Waits(c, "phone") BY <1>0, <1>2, <3>2, <4>3 DEF SignIn
        <5>2. Waits(d, "phone") BY <1>2, <3>2, <5>1
        <5>3. Rank["code"] < Rank["phone"] BY <1>2, <3>2, <5>2
        <5> QED BY <5>3, RankFacts
      <4> QED BY <4>2, <4>3
    <3> QED BY <3>1, <3>2 DEF Form
  <2> QED BY <2>0, <2>1, <2>2, <2>3, <2>4, <2>5 DEF SignIn, n, s
<1> QED BY ZenonT(60), <1>0, <1>2, <1>3, <1>5, <1>6, SignInKeeps DEF Signs

(* The client is signed in, and the worker links it.                        *)
LEMMA ReadySignIn ==
  ASSUME IInv, SignInInv, NEW w \in Worker, Ready(w)
  PROVE  SignInInv'
<1> DEFINE k == worker[w]
           c == client[w]
           a == k.account
           d == Drained(w)
<1>0. /\ Good(c) /\ Ordered(c) /\ WorkerTypes(k) /\ client \in [Worker -> Client]
      /\ DOMAIN worker = Worker /\ DOMAIN k = WorkerFields /\ a \in Account
      /\ session[a] \in BOOLEAN /\ marker[a] \in BOOLEAN
      /\ session = [session EXCEPT ![a] = session[a]]
      /\ k.stage = "open" /\ c.auth \in Auth /\ ~k.marked
      /\ SignIn(k, c, session[a], marker[a])
  BY SignInFacts DEF Ready, Update, Current
<1>2. /\ Good(d) /\ d.auth = c.auth /\ Ordered(d)
      /\ Waits(c, "ready") /\ Rank["ready"] <= Rank[c.auth]
      /\ \A x : Waits(d, x) => /\ Waits(c, x) /\ x \in Auth /\ Rank["ready"] < Rank[x]
  BY DrainedFacts DEF Ready
<1>3. /\ Signs(w, k.newLogin, TRUE, k.lateReady, k.loggedOut, k.close, k.marked, "open")
      /\ client'[w] = d /\ \A v \in Worker \ {w} : client'[v] = client[v]
      /\ session' = session /\ marker' = [marker EXCEPT ![a] = TRUE]
  BY <1>0 DEF Ready, Signs, WorkerFields
<1> HIDE DEF d
<1>4. ~WaitsForm(d) /\ ~Waits(d, "ready") /\ ~Waits(d, "code")
  BY <1>2, FormWaits, RankFacts
<1>5. WorkerTypes(worker'[w]) BY <1>0, <1>3 DEF WorkerTypes, Signs
<1>6. SignIn(worker'[w], d, session[a], TRUE)
  <2> DEFINE n == worker'[w]
             s == session[a]
  <2>0. /\ n.newLogin = k.newLogin /\ n.authorized = TRUE
        /\ n.lateReady = k.lateReady /\ n.loggedOut = k.loggedOut
        /\ n.close = k.close /\ n.marked = k.marked
    BY <1>3 DEF Signs
  <2> HIDE DEF k, c, a, n, s
  <2>1. ~ReadReady(k) /\ ~n.loggedOut /\ n.close = "no" /\ ReadReady(n)
    BY <1>0, <1>2, <2>0 DEF SignIn, ReadReady
  <2>2. Rank[d.auth] >= 4 /\ Rank[d.auth] > 1 /\ d.auth \notin Form
    BY <1>0, <1>2, RankFacts DEF Form
  <2>3. d.auth \in {"closing", "closed"} => ~s BY <1>0, <1>2, <2>0, <2>1 DEF SignIn, s
  <2> QED BY <1>4, <2>1, <2>2, <2>3 DEF SignIn, n, s
<1> QED BY <1>0, <1>2, <1>3, <1>5, <1>6, SignInKeeps DEF Signs

(* The client is signed in, but its login was ended: after a cancel of a    *)
(* new login the worker logs out.                                           *)
LEMMA SkipReadySignIn ==
  ASSUME IInv, SignInInv, NEW w \in Worker, SkipReady(w)
  PROVE  SignInInv'
<1> DEFINE k == worker[w]
           c == client[w]
           a == k.account
           d == Drained(w)
           kind == LateReady(k.newLogin, k.close)
           waits == k.lateReady \/ kind = "wait"
           logOut == k.loggedOut \/ kind = "logOut"
           s == session'[a]
<1>0. /\ Good(c) /\ Ordered(c) /\ WorkerTypes(k) /\ client \in [Worker -> Client]
      /\ DOMAIN worker = Worker /\ DOMAIN k = WorkerFields /\ a \in Account
      /\ session \in [Account -> BOOLEAN]
      /\ session[a] \in BOOLEAN /\ marker[a] \in BOOLEAN
      /\ session = [session EXCEPT ![a] = session[a]]
      /\ marker = [marker EXCEPT ![a] = marker[a]]
      /\ k.stage = "open" /\ c.auth \in Auth
      /\ SignIn(k, c, session[a], marker[a])
  BY SignInFacts DEF SkipReady, Update
<1>2. /\ Good(d) /\ d.auth = c.auth /\ Ordered(d)
      /\ Waits(c, "ready") /\ Rank["ready"] <= Rank[c.auth]
      /\ \A x : Waits(d, x) => /\ Waits(c, x) /\ x \in Auth /\ Rank["ready"] < Rank[x]
  BY DrainedFacts DEF SkipReady
<1>1. /\ kind = "wait" <=> k.close = "no"
      /\ kind = "logOut" <=> k.close = "cancel" /\ k.newLogin
      /\ kind = "logOut" => ClosedClient(d) = d
  <2>1. k.close \in {"no", "cancel", "close"} /\ k.newLogin \in BOOLEAN
    BY <1>0 DEF WorkerTypes
  <2>2. k.close = "cancel" => d.auth \in {"closing", "closed"} BY <1>0, <1>2 DEF SignIn
  <2>3. k.close = "cancel" => ClosedClient(d) = d BY <2>2 DEF ClosedClient
  <2> QED BY <2>1, <2>3 DEF LateReady
<1>3. /\ Signs(w, k.newLogin, k.authorized, waits, logOut, k.close, k.marked, "open")
      /\ client'[w] = d /\ \A v \in Worker \ {w} : client'[v] = client[v]
      /\ marker' = marker
      /\ \/ session' = session
         \/ session' = [session EXCEPT ![a] = FALSE]
  <2>1. Signs(w, k.newLogin, k.authorized, waits, logOut, k.close, k.marked, "open")
    BY <1>0 DEF SkipReady, Signs, WorkerFields
  <2>2. client' = [client EXCEPT ![w] = d] BY <1>1 DEF SkipReady, LogOut
  <2> QED BY <1>0, <2>1, <2>2 DEF SkipReady, LogOut
<1>4. s \in BOOLEAN /\ session' = [session EXCEPT ![a] = s] /\ (s => session[a])
  BY <1>0, <1>3
<1>5. waits \in BOOLEAN /\ logOut \in BOOLEAN
      /\ (waits <=> k.lateReady \/ k.close = "no")
      /\ (logOut <=> k.loggedOut \/ (k.close = "cancel" /\ k.newLogin))
  BY <1>0, <1>1 DEF WorkerTypes
<1> HIDE DEF d, s, waits, logOut, kind
<1>6. ~WaitsForm(d) /\ ~Waits(d, "ready") /\ ~Waits(d, "code")
  BY <1>2, FormWaits, RankFacts
<1>7. WorkerTypes(worker'[w]) BY <1>0, <1>3, <1>5 DEF WorkerTypes, Signs
<1>8. SignIn(worker'[w], d, s, marker[a])
  <2> DEFINE n == worker'[w]
             m == marker[a]
  <2>0. /\ n.newLogin = k.newLogin /\ n.authorized = k.authorized
        /\ n.lateReady = waits /\ n.loggedOut = logOut
        /\ n.close = k.close /\ n.marked = k.marked
    BY <1>3 DEF Signs
  <2>9. k.close \in {"no", "cancel", "close"} BY <1>0 DEF WorkerTypes
  <2> HIDE DEF k, c, a, n, m
  <2>1. ~ReadReady(k) /\ ~k.authorized /\ ~k.lateReady /\ ~k.loggedOut
    BY <1>0, <1>2 DEF SignIn, ReadReady
  <2>2. Rank[d.auth] >= 4 /\ Rank[d.auth] > 1 /\ d.auth \notin Form
    BY <1>0, <1>2, RankFacts DEF Form
  <2>3. /\ n.close # "no" => n.marked /\ d.auth \in {"closing", "closed"}
        /\ d.auth \in {"closing", "closed"} /\ n.close = "no" => ~s
    BY <1>0, <1>2, <1>4, <2>0 DEF SignIn
  <2>4. n.newLogin => ReadReady(n) \/ n.close = "close"
    BY <1>5, <2>0, <2>9 DEF ReadReady
  <2>5. n.loggedOut => ~m /\ n.close = "cancel"
    BY <1>0, <1>2, <1>5, <2>0, <2>1 DEF SignIn, m
  <2>6. n.close = "cancel" /\ n.newLogin => n.loggedOut BY <1>5, <2>0
  <2> QED BY <1>6, <2>2, <2>3, <2>4, <2>5, <2>6 DEF SignIn, n, m
<1> QED BY ZenonT(60), <1>0, <1>2, <1>3, <1>4, <1>7, <1>8, SignInKeeps DEF Signs

(* The client closes.                                                       *)
LEMMA ClosingSignIn ==
  ASSUME IInv, SignInInv, NEW w \in Worker, Closing(w)
  PROVE  SignInInv'
<1> DEFINE k == worker[w]
           c == client[w]
           a == k.account
           d == Drained(w)
<1>1. PICK auth \in {"closing", "closed"} :
        /\ Update(w, auth) /\ client' = [client EXCEPT ![w] = d]
        /\ worker' = [worker EXCEPT
             ![w].authorized = FALSE,
             ![w].ended = @ \/ (worker[w].authorized /\ ~worker[w].marked),
             ![w].stage = IF auth = "closed" THEN "exiting" ELSE @,
             ![w].queue = IF auth = "closed" THEN <<>> ELSE @]
        /\ session' = session /\ marker' = marker
  BY DEF Closing
<1> DEFINE stage == IF auth = "closed" THEN "exiting" ELSE "open"
<1>0. /\ Good(c) /\ Ordered(c) /\ WorkerTypes(k) /\ client \in [Worker -> Client]
      /\ DOMAIN worker = Worker /\ DOMAIN k = WorkerFields /\ a \in Account
      /\ session[a] \in BOOLEAN /\ marker[a] \in BOOLEAN
      /\ session = [session EXCEPT ![a] = session[a]]
      /\ marker = [marker EXCEPT ![a] = marker[a]]
      /\ k.stage = "open" /\ c.auth \in Auth
      /\ SignIn(k, c, session[a], marker[a])
  BY <1>1, SignInFacts DEF Update
<1>2. /\ Good(d) /\ d.auth = c.auth /\ Ordered(d)
      /\ Rank[auth] <= Rank[c.auth]
      /\ \A x : Waits(d, x) => /\ Waits(c, x) /\ x \in Auth
                               /\ Rank[auth] < Rank[x] \/ (auth = "code" /\ x = "code")
      /\ \A x : Waits(c, x) => x = auth \/ Waits(d, x)
  BY <1>1, DrainedFacts
<1>3. /\ Signs(w, k.newLogin, FALSE, k.lateReady, k.loggedOut, k.close, k.marked, stage)
      /\ client'[w] = d /\ \A v \in Worker \ {w} : client'[v] = client[v]
  BY <1>0, <1>1 DEF Signs, WorkerFields
<1> HIDE DEF d
<1>4. ~WaitsForm(d) /\ ~Waits(d, "code") /\ ~Waits(d, "ready") /\ ~Waits(c, "ready")
  <2>1. Rank[auth] >= 5 /\ auth # "code" /\ auth # "ready" BY RankFacts
  <2> QED BY <1>2, <2>1, FormWaits, RankFacts
<1>5. WorkerTypes(worker'[w]) BY <1>0, <1>3 DEF WorkerTypes, Signs
<1>6. SignIn(worker'[w], d, session[a], marker[a])
  <2> DEFINE n == worker'[w]
             s == session[a]
             m == marker[a]
  <2>0. /\ n.newLogin = k.newLogin /\ n.authorized = FALSE
        /\ n.lateReady = k.lateReady /\ n.loggedOut = k.loggedOut
        /\ n.close = k.close /\ n.marked = k.marked
    BY <1>3 DEF Signs
  <2>9. k.close \in {"no", "cancel", "close"} BY <1>0 DEF WorkerTypes
  <2> HIDE DEF k, c, a, n, s, m
  <2>2. Rank[d.auth] >= 4 /\ Rank[d.auth] > 1 /\ d.auth \notin Form
        /\ d.auth \in {"closing", "closed"}
    BY <1>0, <1>2, RankFacts DEF Form, Auth
  <2>3. /\ n.close # "no" => n.marked
        /\ n.close = "no" => ~s
    BY <1>0, <1>2, <2>0, <2>2 DEF SignIn, s
  <2>4. s /\ n.newLogin => ReadReady(n) \/ n.close = "close"
    <3>1. s /\ k.newLogin => k.authorized \/ k.lateReady \/ k.loggedOut \/ k.close = "close"
      BY <1>0, <1>4 DEF SignIn, s, ReadReady
    <3>2. k.authorized /\ k.newLogin /\ k.close = "cancel" => k.loggedOut
      BY <1>0 DEF SignIn
    <3>3. k.close = "no" => ~s BY <2>0, <2>3
    <3> QED BY <2>0, <2>9, <3>1, <3>2, <3>3 DEF ReadReady
  <2>5. /\ n.loggedOut => ~m /\ n.close = "cancel"
        /\ n.close = "cancel" /\ n.newLogin /\ n.lateReady => n.loggedOut
    BY <1>0, <2>0 DEF SignIn, m
  <2> QED BY <1>4, <2>0, <2>2, <2>3, <2>4, <2>5 DEF SignIn, n, s, m
<1>7. /\ worker'[w].stage # "waiting" /\ worker'[w].account = a
      /\ \A v \in Worker \ {w} : worker'[v] = worker[v]
  BY <1>3 DEF Signs
<1>8. /\ session' = [session EXCEPT ![a] = session[a]]
      /\ marker' = [marker EXCEPT ![a] = marker[a]]
  BY <1>0, <1>1
<1> HIDE DEF stage
<1> QED BY <1>0, <1>2, <1>3, <1>5, <1>6, <1>7, <1>8, SignInKeeps

(* The other steps of a worker.                                             *)
LEMMA WorkerSignIn ==
  ASSUME IInv, SignInInv, NEW w \in Worker, WorkerStep(w)
  PROVE  SignInInv'
<1> DEFINE k == worker[w]
           c == client[w]
           a == k.account
<1>0. /\ DOMAIN worker = Worker /\ DOMAIN k = WorkerFields /\ a \in Account
      /\ session[a] \in BOOLEAN /\ session = [session EXCEPT ![a] = session[a]]
      /\ Held(c) => k.stage = "open"
  BY SignInFacts, ClientFacts
<1>1. CASE OpenClient(w) BY <1>1, OpenSignIn
<1>2. CASE TakeAnswer(w) BY <1>2, AnswerSignIn
<1>3. CASE TakeClose(w) BY <1>3, CloseSignIn
<1>4. CASE SetParameters(w) BY <1>4, ParametersSignIn
<1>5. CASE WaitForLogin(w) BY <1>5, FormSignIn
<1>6. CASE Ready(w) BY <1>6, ReadySignIn
<1>7. CASE SkipReady(w) BY <1>7, SkipReadySignIn
<1>8. CASE Closing(w) BY <1>8, ClosingSignIn
<1>9. CASE GiveUpWaiting(w) \/ SkipCommand(w) \/ Exit(w) \/ Announce(w)
  <2>1. PICK stage :
          /\ Signs(w, k.newLogin, k.authorized, k.lateReady, k.loggedOut, k.close, k.marked,
                   stage)
          /\ stage \in {"announcing", "done"} \/ stage = k.stage
    <3>1. CASE GiveUpWaiting(w)
      <4>1. Signs(w, k.newLogin, k.authorized, k.lateReady, k.loggedOut, k.close, k.marked, "done")
        BY <1>0, <3>1 DEF GiveUpWaiting, Signs, WorkerFields
      <4> QED BY <4>1
    <3>2. CASE SkipCommand(w)
      <4>1. Signs(w, k.newLogin, k.authorized, k.lateReady, k.loggedOut, k.close, k.marked, k.stage)
        BY <1>0, <3>2 DEF SkipCommand, Taken, Signs, WorkerFields
      <4> QED BY <4>1
    <3>3. CASE Exit(w) \/ Announce(w)
      <4>1. PICK stage \in {"announcing", "done"} : worker' = [worker EXCEPT ![w].stage = stage]
        BY <3>3 DEF Exit, Announce
      <4>2. Signs(w, k.newLogin, k.authorized, k.lateReady, k.loggedOut, k.close, k.marked, stage)
        BY <1>0, <4>1 DEF Signs, WorkerFields
      <4> QED BY <4>1, <4>2
    <3> QED BY <1>9, <3>1, <3>2, <3>3
  <2>2. UNCHANGED <<client, session, marker>>
    BY <1>9 DEF GiveUpWaiting, SkipCommand, Exit, Announce
  <2> QED BY <2>1, <2>2, SameSignIn
<1>10. CASE EndedElsewhere(w) \/ Released(w)
  <2>1. k.stage = "open" /\ worker' = worker /\ marker' = marker
    BY <1>0, <1>10 DEF EndedElsewhere, Released, Held
  <2>2. Signs(w, k.newLogin, k.authorized, k.lateReady, k.loggedOut, k.close, k.marked, "open")
    BY <2>1 DEF Signs
  <2>3. CASE EndedElsewhere(w)
    <3>1. /\ c.auth = "ready" /\ client' = [client EXCEPT ![w] = Updated(client[w], "closing")]
          /\ session' = [session EXCEPT ![a] = FALSE] /\ "closing" \in Auth
      BY <2>3 DEF EndedElsewhere, Auth
    <3> QED BY <2>1, <2>2, <3>1, ReportSignIn
  <2>4. CASE Released(w)
    <3>1. /\ c.auth = "closing" /\ client' = [client EXCEPT ![w] = Updated(client[w], "closed")]
          /\ session' = [session EXCEPT ![a] = session[a]] /\ "closed" \in Auth
      BY <1>0, <2>4 DEF Released, Auth
    <3> QED BY <1>0, <2>1, <2>2, <3>1, ReportSignIn
  <2> QED BY <1>10, <2>3, <2>4
<1> QED BY <1>1, <1>2, <1>3, <1>4, <1>5, <1>6, <1>7, <1>8, <1>9, <1>10 DEF WorkerStep

LEMMA NextSignIn ==
  ASSUME IInv, SignInInv, [Next]_vars
  PROVE  SignInInv'
<1>1. ASSUME UNCHANGED <<worker, client, session, marker>> PROVE SignInInv'
  BY <1>1 DEF SignInInv
<1>2. CASE UNCHANGED vars BY <1>1, <1>2 DEF vars
<1>3. CASE Next
  <2>1. CASE Answer \/ CancelLogin \/ TryAgain
    BY <1>1, <2>1 DEF Answer, CancelLogin, TryAgain, Acts
  <2>2. CASE Flush \/ CloseApp BY <1>1, <2>2 DEF Flush, CloseApp
  <2>3. ASSUME NEW a \in Account, ShellStep(a) PROVE SignInInv'
    <3>1. CASE OpenLogin(a) \/ Resume(a) \/ Use(a) \/ Remove(a) \/ AddAgain(a)
      BY <1>1, <3>1 DEF OpenLogin, Resume, Use, Remove, AddAgain, Acts
    <3>2. CASE DropEvent(a) \/ ShowForm(a) \/ Link(a) \/ ShowFailure(a)
      BY <1>1, <3>2 DEF DropEvent, ShowForm, Link, ShowFailure, Takes
    <3>3. CASE CloseFailedClient(a) \/ EndSession(a)
      BY <1>1, <3>3 DEF CloseFailedClient, EndSession, Takes
    <3> QED BY <2>3, <3>1, <3>2, <3>3 DEF ShellStep
  <2> QED BY <1>3, <2>1, <2>2, <2>3, HostSignIn, WorkerSignIn DEF Next
<1> QED BY <1>2, <1>3

LEMMA InitSignIn == Init => SignInInv
<1> SUFFICES ASSUME Init PROVE SignInInv
  OBVIOUS
<1>1. marker \in [Account -> BOOLEAN] /\ session \in [Account -> BOOLEAN]
  <2>1. PICK kept \in SUBSET Saved : marker = [b \in Account |-> b \in kept] BY DEF Init
  <2>2. \A b \in Account : (b \in kept) \in BOOLEAN OBVIOUS
  <2> QED BY <2>1, <2>2 DEF Init
<1>2. \A w \in Worker : worker[w] = FreeWorker /\ client[w] = NoClient BY DEF Init
<1>3. WorkerTypes(FreeWorker) /\ FreeWorker.stage = "free"
  BY DEF WorkerTypes, FreeWorker
<1>4. Ordered(NoClient) BY DEF Ordered, NoClient
<1> QED BY <1>1, <1>2, <1>3, <1>4 DEF SignInInv

(* Only the end of its client lets a worker exit.                           *)
LEMMA ExitsByClosing ==
  ASSUME IInv, Next, NEW w \in Worker, worker[w].stage = "open", worker'[w].stage = "exiting"
  PROVE  Closing(w)
<1>0. /\ DOMAIN worker = Worker /\ \A v \in Worker : DOMAIN worker[v] = WorkerFields
  BY DEF IInv, Shapes
<1>1. worker' # worker OBVIOUS
<1>2. ~(Answer \/ CancelLogin \/ TryAgain \/ Flush \/ CloseApp)
  BY <1>1 DEF Answer, CancelLogin, TryAgain, Acts, Flush, CloseApp
<1>3. ASSUME NEW a \in Account, ShellStep(a) PROVE FALSE
  <2>1. CASE OpenLogin(a) \/ Resume(a) \/ Use(a) \/ Remove(a) \/ AddAgain(a)
    BY <1>1, <2>1 DEF OpenLogin, Resume, Use, Remove, AddAgain, Acts
  <2>2. CASE DropEvent(a) \/ ShowForm(a) \/ Link(a) \/ ShowFailure(a)
    BY <1>1, <2>2 DEF DropEvent, ShowForm, Link, ShowFailure, Takes
  <2>3. CASE CloseFailedClient(a) \/ EndSession(a)
    BY <1>1, <2>3 DEF CloseFailedClient, EndSession, Takes
  <2> QED BY <1>3, <2>1, <2>2, <2>3 DEF ShellStep
<1>4. ASSUME NEW a \in Account, HostStep(a) PROVE FALSE
  <2>1. ASSUME NEW c, Enqueue(a, c) PROVE FALSE
    <3>1. \/ worker' = worker
          \/ \E v, queue : worker' = [worker EXCEPT ![v].queue = queue]
          \/ \E v \in Worker : /\ worker[v].stage = "free"
                               /\ \E next : worker' = [worker EXCEPT ![v] = next]
      BY ZenonT(60), <2>1 DEF Enqueue
    <3>2. worker'[w].stage = worker[w].stage BY <1>0, <3>1 DEF WorkerFields
    <3> QED BY <3>2
  <2>2. ASSUME NEW type, StopClient(a, type) PROVE FALSE
    BY <2>2, StopClientMarks DEF SameWork
  <2>3. CASE CheckStep(a) \/ FailStep(a) \/ AddAccount(a) \/ StopEnds(a)
    BY <1>1, <2>3 DEF CheckStep, FailStep, AddAccount, StopEnds, TakesCommand
  <2>4. CASE StartStep(a) BY <2>1, <2>4 DEF StartStep
  <2>5. CASE UseInbox(a) BY <1>1, <2>1, <2>5 DEF UseInbox
  <2>6. CASE Disconnect(a) \/ ShutDown(a) \/ RemoveAccount(a)
    BY <2>2, <2>6 DEF Disconnect, ShutDown, RemoveAccount
  <2> QED BY <1>4, <2>3, <2>4, <2>5, <2>6 DEF HostStep
<1>5. PICK v \in Worker : WorkerStep(v) BY <1>2, <1>3, <1>4 DEF Next
<1>6. v = w
  <2>1. PICK c : Advances(v, c) BY <1>5, WorkerAdvances
  <2> QED BY <1>1, <2>1 DEF Advances
<1>7. CASE OpenClient(w) \/ GiveUpWaiting(w) \/ Exit(w) \/ Announce(w)
  BY <1>7 DEF OpenClient, GiveUpWaiting, Exit, Announce
<1>8. CASE SetParameters(w) \/ EndedElsewhere(w) \/ Released(w)
  BY <1>1, <1>8 DEF SetParameters, EndedElsewhere, Released, Keeps
<1>9. CASE SkipCommand(w) \/ TakeAnswer(w)
  BY <1>0, <1>9 DEF SkipCommand, TakeAnswer, Taken, WorkerFields
<1>10. CASE TakeClose(w) BY <1>0, <1>10 DEF TakeClose, Taken, WorkerFields
<1>11. CASE WaitForLogin(w) \/ Ready(w)
  BY <1>0, <1>11 DEF WaitForLogin, Ready, WorkerFields
<1>12. CASE SkipReady(w) BY <1>0, <1>12 DEF SkipReady, WorkerFields
<1> QED BY <1>5, <1>6, <1>7, <1>8, <1>9, <1>10, <1>11, <1>12 DEF WorkerStep

-----------------------------------------------------------------------------
(* What a worker read is behind what its client reported, and it knows that *)
(* a new login is signed in until it asked for the log out.                 *)
THEOREM SignInInvariance == Spec /\ [][NoReuse]_vars => []SignInInv
<1>1. IInv /\ SignInInv /\ [Next]_vars => SignInInv' BY NextSignIn
<1> QED BY InitSignIn, <1>1, LoginInvariance, PTL DEF Spec

(* A cancelled new login does not stay signed in: when its worker ends and  *)
(* the database still holds a session, the worker asked TDLib for the log   *)
(* out, and the marker of the vault is gone (close_kind, late_ready).       *)
THEOREM CancelledLogins == Spec /\ [][NoReuse]_vars => CancelledLoginEnds
<1>1. ASSUME IInv, SignInInv, [Next]_vars
      PROVE  [\A w \in Worker :
                LET ends == worker[w].stage = "open" /\ worker'[w].stage = "exiting"
                    cancelled == worker[w].newLogin /\ worker[w].close = "cancel"
                IN  ends /\ cancelled /\ session'[worker[w].account]
                      => worker[w].loggedOut /\ ~marker'[worker[w].account]]_vars
  <2> SUFFICES ASSUME Next, NEW w \in Worker,
                      worker[w].stage = "open", worker'[w].stage = "exiting",
                      worker[w].newLogin, worker[w].close = "cancel",
                      session'[worker[w].account]
               PROVE  worker[w].loggedOut /\ ~marker'[worker[w].account]
    BY <1>1
  <2> DEFINE k == worker[w]
             c == client[w]
             a == k.account
  <2>1. Closing(w) BY <1>1, ExitsByClosing
  <2>2. PICK auth \in {"closing", "closed"} :
          /\ Update(w, auth) /\ session' = session /\ marker' = marker
    BY <2>1 DEF Closing
  <2>3. SignIn(k, c, session[a], marker[a]) BY <1>1, SignInFacts
  <2>4. ~Waits(c, "ready")
    <3>1. /\ Waits(c, "ready") => "ready" = auth \/ Waits(Drained(w), "ready")
          /\ Waits(Drained(w), "ready") => Rank[auth] < Rank["ready"] \/ auth = "code"
      BY <1>1, <2>2, DrainedFacts
    <3> QED BY <3>1, RankFacts
  <2>5. k.newLogin /\ k.close = "cancel" /\ session[a] BY <2>2
  <2> HIDE DEF k, c, a
  <2>6. k.loggedOut /\ ~marker[a] BY <2>3, <2>4, <2>5 DEF SignIn, ReadReady
  <2> QED BY <2>2, <2>6 DEF k, a
<1> QED BY <1>1, LoginInvariance, SignInInvariance, PTL DEF Spec, CancelledLoginEnds

-----------------------------------------------------------------------------
(* The types.  They hold whatever is removed and added again.               *)

CommandTypes == Steps \cup {"use", "disconnect", "shutdown", "remove", "add"}
StampedCommand == [account : Account, type : CommandTypes, epoch : Nat]

(* The commands of a list that end a login, up to command n.                *)
Ends(list, n) == {j \in 1 .. n : EndsLogin(list[j].type)}

(* The commands that wait for the end of the pump may move the epoch: there *)
(* is room for all of them.                                                 *)
ShellTypes ==
    /\ row \in [Account -> Row] /\ screen \in Screen /\ login \in Account
    /\ pending \in Seq(StampedCommand)
    /\ epoch \in 0 .. MaxEpoch
    /\ epoch + Cardinality(Ends(pending, Len(pending))) <= MaxEpoch
    /\ commands \in Seq(StampedCommand)
    /\ closing \in BOOLEAN

CheckTypes ==
    /\ checked \subseteq StampedCommand
    /\ checked = {} \/ \E c : checked = {c}

EventTypes == events \in [Account -> Seq(LoginEvent)]

Stops == {"no", "waiting", "clean", "late"}
AdapterTypes ==
    /\ DOMAIN adapter = Account
    /\ \A a \in Account :
         /\ DOMAIN adapter[a] = AdapterFields
         /\ adapter[a].current \in Worker \cup {None}
         /\ adapter[a].retiring \subseteq Worker /\ adapter[a].awaited \subseteq Worker
         /\ adapter[a].stop \in Stops

WorkTypes ==
    /\ DOMAIN worker = Worker
    /\ \A w \in Worker :
         /\ DOMAIN worker[w] = WorkerFields
         /\ worker[w].account \in Account /\ worker[w].stage \in LoginStage
         /\ worker[w].epoch \in Nat

ClientTypes ==
    /\ DOMAIN client = Worker
    /\ \A w \in Worker : DOMAIN client[w] = {"auth", "updates"} /\ client[w].auth \in Auth

StoreTypes == session \in [Account -> BOOLEAN] /\ marker \in [Account -> BOOLEAN]

TInv ==
    /\ ShellTypes /\ CheckTypes /\ EventTypes /\ AdapterTypes /\ WorkTypes
    /\ ClientTypes /\ StoreTypes

LEMMA EndsFacts ==
  ASSUME NEW list, NEW n \in Nat
  PROVE  /\ Cardinality(Ends(list, n)) \in Nat
         /\ Cardinality(Ends(list, n)) <= n
         /\ (\A j \in 1 .. n : ~EndsLogin(list[j].type)) => Cardinality(Ends(list, n)) = 0
         /\ (\A j \in 2 .. n : ~EndsLogin(list[j].type)) => Cardinality(Ends(list, n)) <= 1
<1> DEFINE S == Ends(list, n)
<1>1. IsFiniteSet(1 .. n) /\ Cardinality(1 .. n) = n BY FS_Interval
<1>2. S \in SUBSET (1 .. n) BY DEF Ends
<1>3. IsFiniteSet(S) /\ Cardinality(S) <= n /\ Cardinality(S) \in Nat
  <2> HIDE DEF S
  <2> QED BY <1>1, <1>2, FS_Subset, FS_CardinalityType
<1>4. ASSUME \A j \in 1 .. n : ~EndsLogin(list[j].type)
      PROVE  Cardinality(S) = 0
  <2>1. S = {} BY <1>4 DEF Ends
  <2> QED BY <2>1, FS_EmptySet
<1>5. ASSUME \A j \in 2 .. n : ~EndsLogin(list[j].type)
      PROVE  Cardinality(S) <= 1
  <2>1. S \in SUBSET {1} BY <1>5 DEF Ends
  <2>2. IsFiniteSet({1}) /\ Cardinality({1}) = 1 BY FS_Singleton
  <2> HIDE DEF S
  <2> QED BY <2>1, <2>2, FS_Subset
<1> QED BY <1>3, <1>4, <1>5

(* send_stamped: the commands go out with their epochs.                     *)
LEMMA SendsTypes ==
  ASSUME NEW list \in Seq(StampedCommand), Sends(list),
         commands \in Seq(StampedCommand), epoch \in 0 .. MaxEpoch,
         epoch + Cardinality(Ends(list, Len(list))) <= MaxEpoch
  PROVE  commands' \in Seq(StampedCommand) /\ epoch' \in 0 .. MaxEpoch
<1> DEFINE e(i) == epoch + Cardinality(Ends(list, i - 1))
           stamped == [i \in DOMAIN list |-> [list[i] EXCEPT !.epoch = e(i)]]
<1>1. Len(list) \in Nat /\ DOMAIN list = 1 .. Len(list) OBVIOUS
<1>2. ASSUME NEW i \in DOMAIN list PROVE [list[i] EXCEPT !.epoch = e(i)] \in StampedCommand
  <2>1. i - 1 \in Nat BY <1>1
  <2>2. e(i) \in Nat BY <2>1, EndsFacts
  <2>3. list[i] \in StampedCommand OBVIOUS
  <2> HIDE DEF e
  <2> QED BY <2>2, <2>3 DEF StampedCommand
<1>3. stamped \in Seq(StampedCommand)
  <2> HIDE DEF e
  <2>1. stamped \in [1 .. Len(list) -> StampedCommand] BY <1>1, <1>2
  <2> HIDE DEF stamped
  <2> QED BY <1>1, <2>1
<1>4. commands' = commands \o stamped /\ epoch' = epoch + Cardinality(Ends(list, Len(list)))
  BY DEF Sends, Ends
<1>5. commands' \in Seq(StampedCommand)
  <2> HIDE DEF stamped
  <2> QED BY <1>3, <1>4
<1>6. epoch' \in 0 .. MaxEpoch BY <1>1, <1>4, EndsFacts, LoginBounds
<1> QED BY <1>5, <1>6

(* What the shell sends while nothing waits for the end of a pump.          *)
LEMMA CommandTyped ==
  ASSUME NEW a \in Account, NEW type \in CommandTypes
  PROVE  Command(a, type) \in StampedCommand /\ Command(a, type).type = type
BY DEF Command, CommandOf, StampedCommand

LEMMA NothingSent ==
  ASSUME ShellTypes, Sends(<<>>)
  PROVE  commands' \in Seq(StampedCommand) /\ epoch' \in 0 .. MaxEpoch
<1>1. <<>> \in Seq(StampedCommand) /\ Len(<<>>) = 0 OBVIOUS
<1>2. Cardinality(Ends(<<>>, 0)) = 0 BY EndsFacts
<1>3. epoch + Cardinality(Ends(<<>>, Len(<<>>))) <= MaxEpoch
  BY <1>1, <1>2, LoginBounds DEF ShellTypes
<1> QED BY ZenonT(60), <1>1, <1>3, SendsTypes DEF ShellTypes

LEMMA OneSent ==
  ASSUME ShellTypes, NEW a \in Account, NEW type \in CommandTypes,
         Sends(<<Command(a, type)>>), (Room(0) /\ ~EndsLogin(type)) \/ Room(1)
  PROVE  commands' \in Seq(StampedCommand) /\ epoch' \in 0 .. MaxEpoch
<1> DEFINE list == <<Command(a, type)>>
<1>1. list \in Seq(StampedCommand) /\ Len(list) = 1 /\ list[1].type = type
  BY CommandTyped
<1>2. epoch + Cardinality(Ends(list, 1)) <= MaxEpoch
  BY <1>1, EndsFacts, LoginBounds DEF Room, ShellTypes
<1> HIDE DEF list
<1>3. epoch + Cardinality(Ends(list, Len(list))) <= MaxEpoch BY <1>1, <1>2
<1> QED BY <1>1, <1>3, SendsTypes DEF ShellTypes, list

(* The commands of a pump wait.                                             *)
LEMMA RepliesTypes ==
  ASSUME ShellTypes, NEW list \in Seq(StampedCommand), Replies(list)
  PROVE  /\ pending' \in Seq(StampedCommand) /\ epoch' = epoch /\ commands' = commands
         /\ epoch' + Cardinality(Ends(pending', Len(pending'))) <= MaxEpoch
<1> DEFINE all == pending \o list
<1>1. all \in Seq(StampedCommand) /\ DOMAIN all = 1 .. Len(all) BY DEF ShellTypes
<1>2. /\ epoch + Cardinality({i \in DOMAIN all : EndsLogin(all[i].type)}) <= MaxEpoch
      /\ pending' = all /\ epoch' = epoch /\ commands' = commands
  BY DEF Replies
<1> HIDE DEF all
<1>3. {i \in DOMAIN all : EndsLogin(all[i].type)} = Ends(all, Len(all)) BY <1>1 DEF Ends
<1> QED BY <1>1, <1>2, <1>3

(* Nothing waits: there is room.                                            *)
LEMMA NothingWaits ==
  ASSUME NEW e \in 0 .. MaxEpoch
  PROVE  <<>> \in Seq(StampedCommand) /\ e + Cardinality(Ends(<<>>, Len(<<>>))) <= MaxEpoch
<1>1. Cardinality(Ends(<<>>, 0)) = 0 BY EndsFacts
<1> QED BY <1>1, LoginBounds

-----------------------------------------------------------------------------
(* The steps of the shell.                                                  *)

LEMMA ShowsTypes ==
  ASSUME NEW auth \in {"idle", "resuming"} \cup OnScreen, NEW busy \in BOOLEAN,
         NEW a \in Account, Shows(auth, busy, a)
  PROVE  screen' \in Screen /\ login' \in Account
BY DEF Shows, Screen

LEMMA ShowRowTypes ==
  ASSUME row \in [Account -> Row], NEW a \in Account, NEW r \in Row, ShowRow(a, r)
  PROVE  row' \in [Account -> Row]
BY DEF ShowRow

(* An intent of the user.                                                   *)
LEMMA ActsTypes ==
  ASSUME TInv, Acts, row' \in [Account -> Row], screen' \in Screen, login' \in Account,
         commands' \in Seq(StampedCommand), epoch' \in 0 .. MaxEpoch
  PROVE  TInv'
<1>1. pending' = <<>> /\ closing' = closing BY DEF Acts
<1>2. pending' \in Seq(StampedCommand)
      /\ epoch' + Cardinality(Ends(pending', Len(pending'))) <= MaxEpoch
  BY <1>1, NothingWaits
<1>3. ShellTypes' BY <1>1, <1>2 DEF TInv, ShellTypes
<1> QED BY <1>3 DEF TInv, Acts, CheckTypes, EventTypes, AdapterTypes, WorkTypes, ClientTypes,
           StoreTypes

LEMMA UserTypes ==
  ASSUME TInv,
         \/ Answer \/ CancelLogin \/ TryAgain
         \/ \E a \in Account : OpenLogin(a) \/ Resume(a) \/ Use(a) \/ Remove(a) \/ AddAgain(a)
  PROVE  TInv'
<1>0. ShellTypes /\ row \in [Account -> Row] /\ screen \in Screen /\ login \in Account
      /\ marker \in [Account -> BOOLEAN] /\ Main \in Account
  BY MainAssumption DEF TInv, ShellTypes, StoreTypes
<1>1. CASE Answer
  <2>1. screen.auth \in Form /\ screen.auth \in CommandTypes /\ ~EndsLogin(screen.auth)
    BY <1>1 DEF Answer, Form, CommandTypes, Steps, EndsLogin
  <2>2. commands' \in Seq(StampedCommand) /\ epoch' \in 0 .. MaxEpoch
    BY <1>0, <1>1, <2>1, OneSent DEF Answer
  <2>3. screen' \in Screen /\ login' \in Account
    BY <1>0, <1>1, <2>1, ShowsTypes DEF Answer, OnScreen
  <2> QED BY <1>0, <1>1, <2>2, <2>3, ActsTypes DEF Answer
<1>2. CASE CancelLogin
  <2>1. "disconnect" \in CommandTypes BY DEF CommandTypes
  <2>2. commands' \in Seq(StampedCommand) /\ epoch' \in 0 .. MaxEpoch
    <3>1. CASE Authorized BY <1>0, <1>2, <3>1, NothingSent DEF CancelLogin
    <3>2. CASE ~Authorized BY <1>0, <1>2, <2>1, <3>2, OneSent DEF CancelLogin
    <3> QED BY <3>1, <3>2
  <2>3. screen' \in Screen /\ login' \in Account
    BY <1>0, <1>2, ShowsTypes DEF CancelLogin
  <2> QED BY <1>0, <1>2, <2>2, <2>3, ActsTypes DEF CancelLogin
<1>3. CASE TryAgain
  <2> DEFINE list == <<Command(login, "disconnect"), Command(login, "start")>>
  <2>1. /\ Command(login, "disconnect") \in StampedCommand
        /\ Command(login, "start") \in StampedCommand /\ Command(login, "start").type = "start"
    BY <1>0, CommandTyped DEF CommandTypes, Steps
  <2>2. list \in Seq(StampedCommand) /\ Len(list) = 2 /\ list[2].type = "start" BY <2>1
  <2>3. Sends(list) /\ Room(1) BY <1>3 DEF TryAgain
  <2> HIDE DEF list
  <2>4. \A j \in 2 .. 2 : ~EndsLogin(list[j].type) BY <2>2 DEF EndsLogin
  <2>5. Cardinality(Ends(list, 2)) \in Nat /\ Cardinality(Ends(list, 2)) <= 1
    BY <2>4, EndsFacts
  <2>6. epoch + Cardinality(Ends(list, Len(list))) <= MaxEpoch
    BY <1>0, <2>2, <2>3, <2>5, LoginBounds DEF Room, ShellTypes
  <2>7. commands' \in Seq(StampedCommand) /\ epoch' \in 0 .. MaxEpoch
    BY <1>0, <2>2, <2>3, <2>6, SendsTypes DEF ShellTypes
  <2>8. screen' \in Screen /\ login' \in Account
    BY <1>0, <1>3, ShowsTypes DEF TryAgain, OnScreen
  <2> QED BY <1>0, <1>3, <2>7, <2>8, ActsTypes DEF TryAgain
<1>4. ASSUME NEW a \in Account, OpenLogin(a) PROVE TInv'
  <2>1. commands' \in Seq(StampedCommand) /\ epoch' \in 0 .. MaxEpoch
    BY <1>0, <1>4, OneSent DEF OpenLogin, CommandTypes, Steps, EndsLogin
  <2>2. screen' \in Screen /\ login' \in Account
    BY <1>0, <1>4, ShowsTypes DEF OpenLogin, OnScreen
  <2>3. row' \in [Account -> Row] BY <1>0, <1>4, ShowRowTypes DEF OpenLogin, Row
  <2> QED BY <1>4, <2>1, <2>2, <2>3, ActsTypes DEF OpenLogin
<1>5. ASSUME NEW a \in Account, Resume(a) PROVE TInv'
  <2>1. commands' \in Seq(StampedCommand) /\ epoch' \in 0 .. MaxEpoch
    BY <1>0, <1>5, OneSent DEF Resume, CommandTypes, Steps, EndsLogin
  <2>2. screen' \in Screen /\ login' \in Account BY <1>0, <1>5, ShowsTypes DEF Resume
  <2>3. row' \in [Account -> Row] BY <1>0, <1>5, ShowRowTypes DEF Resume, Row
  <2> QED BY <1>5, <2>1, <2>2, <2>3, ActsTypes DEF Resume
<1>6. ASSUME NEW a \in Account, Use(a) PROVE TInv'
  <2>1. commands' \in Seq(StampedCommand) /\ epoch' \in 0 .. MaxEpoch
    BY <1>0, <1>6, OneSent DEF Use, CommandTypes, EndsLogin
  <2> QED BY <1>0, <1>6, <2>1, ActsTypes DEF Use
<1>7. ASSUME NEW a \in Account, Remove(a) PROVE TInv'
  <2>1. commands' \in Seq(StampedCommand) /\ epoch' \in 0 .. MaxEpoch
    BY <1>0, <1>7, OneSent DEF Remove, CommandTypes, EndsLogin
  <2>2. screen' \in Screen /\ login' \in Account BY <1>0, <1>7, ShowsTypes DEF Remove
  <2>3. row' \in [Account -> Row] BY <1>0, <1>7, ShowRowTypes DEF Remove, Row
  <2> QED BY <1>7, <2>1, <2>2, <2>3, ActsTypes DEF Remove
<1>8. ASSUME NEW a \in Account, AddAgain(a) PROVE TInv'
  <2>1. commands' \in Seq(StampedCommand) /\ epoch' \in 0 .. MaxEpoch
    BY <1>0, <1>8, OneSent DEF AddAgain, CommandTypes, EndsLogin
  <2>2. row' \in [Account -> Row] BY <1>0, <1>8, ShowRowTypes DEF AddAgain, Row
  <2> QED BY <1>0, <1>8, <2>1, <2>2, ActsTypes DEF AddAgain
<1> QED BY <1>1, <1>2, <1>3, <1>4, <1>5, <1>6, <1>7, <1>8

(* The pump: its commands go out, or the app closes.                        *)
LEMMA PumpTypes ==
  ASSUME TInv, Flush \/ CloseApp
  PROVE  TInv'
<1>0. ShellTypes BY DEF TInv
<1>1. CASE Flush
  <2> DEFINE list == IF closing THEN <<>> ELSE pending
  <2>1. list \in Seq(StampedCommand) /\ Sends(list) BY <1>0, <1>1 DEF Flush, ShellTypes
  <2>2. epoch + Cardinality(Ends(list, Len(list))) <= MaxEpoch
    BY <1>0, NothingWaits DEF ShellTypes
  <2> HIDE DEF list
  <2>3. commands' \in Seq(StampedCommand) /\ epoch' \in 0 .. MaxEpoch
    BY <1>0, <2>1, <2>2, SendsTypes DEF ShellTypes
  <2>4. pending' = <<>> /\ UNCHANGED <<row, screen, login, closing>> BY <1>1 DEF Flush
  <2>5. pending' \in Seq(StampedCommand)
        /\ epoch' + Cardinality(Ends(pending', Len(pending'))) <= MaxEpoch
    BY <2>3, <2>4, NothingWaits
  <2>6. ShellTypes' BY <1>0, <2>3, <2>4, <2>5 DEF ShellTypes
  <2> QED BY <1>1, <2>6 DEF TInv, Flush, CheckTypes, EventTypes, AdapterTypes, WorkTypes,
             ClientTypes, StoreTypes
<1>2. CASE CloseApp
  <2> DEFINE rows == {a \in Account : row[a] # "removed"}
             n == Cardinality(rows)
  <2>1. n \in Nat BY AccountAssumption, FS_Subset, FS_CardinalityType
  <2>2. PICK order \in [1 .. n -> rows] :
          Sends([i \in DOMAIN order |-> Command(order[i], "shutdown")])
    BY <1>2 DEF CloseApp
  <2>3. Room(n) /\ pending' = <<>> /\ closing' = TRUE /\ UNCHANGED <<row, screen, login>>
    BY <1>2 DEF CloseApp, shell
  <2>4. rows \subseteq Account OBVIOUS
  <2> HIDE DEF n, rows
  <2> DEFINE list == [i \in 1 .. n |-> Command(order[i], "shutdown")]
  <2>5. list \in [1 .. n -> StampedCommand]
    <3>1. ASSUME NEW i \in 1 .. n PROVE Command(order[i], "shutdown") \in StampedCommand
      BY <2>4, CommandTyped DEF CommandTypes
    <3> QED BY <3>1
  <2>6. Sends(list) BY <2>2
  <2> HIDE DEF list
  <2>7. list \in Seq(StampedCommand) /\ Len(list) = n BY <2>1, <2>5
  <2>8. epoch + Cardinality(Ends(list, Len(list))) <= MaxEpoch
    BY <1>0, <2>1, <2>3, <2>7, EndsFacts, LoginBounds DEF Room, ShellTypes
  <2>9. commands' \in Seq(StampedCommand) /\ epoch' \in 0 .. MaxEpoch
    BY <1>0, <2>6, <2>7, <2>8, SendsTypes DEF ShellTypes
  <2>10. pending' \in Seq(StampedCommand)
        /\ epoch' + Cardinality(Ends(pending', Len(pending'))) <= MaxEpoch
    BY <2>3, <2>9, NothingWaits
  <2>11. ShellTypes' BY <1>0, <2>3, <2>9, <2>10 DEF ShellTypes
  <2> QED BY <1>2, <2>11 DEF TInv, CloseApp, CheckTypes, EventTypes, AdapterTypes, WorkTypes,
             ClientTypes, StoreTypes
<1> QED BY <1>1, <1>2

(* An event that the shell takes.                                           *)
LEMMA TakesTypes ==
  ASSUME TInv, NEW a \in Account, NEW types, Takes(a, types), ShellTypes'
  PROVE  TInv'
<1>1. events[a] \in Seq(LoginEvent) /\ events[a] # <<>> BY DEF TInv, EventTypes, Takes
<1>2. Tail(events[a]) \in Seq(LoginEvent) BY <1>1
<1>3. EventTypes' BY <1>2 DEF TInv, EventTypes, Takes
<1> QED BY <1>3 DEF TInv, Takes, CheckTypes, AdapterTypes, WorkTypes, ClientTypes, StoreTypes

LEMMA RepliedTypes ==
  ASSUME TInv, NEW list \in Seq(StampedCommand), Replies(list),
         row' \in [Account -> Row], screen' \in Screen, login' \in Account, closing' = closing
  PROVE  ShellTypes'
BY RepliesTypes DEF TInv, ShellTypes

LEMMA EventStepTypes ==
  ASSUME TInv, NEW a \in Account,
         \/ DropEvent(a) \/ ShowForm(a) \/ Link(a) \/ ShowFailure(a)
         \/ CloseFailedClient(a) \/ EndSession(a)
  PROVE  TInv'
<1>0. /\ row \in [Account -> Row] /\ screen \in Screen /\ login \in Account
      /\ Main \in Account /\ <<>> \in Seq(StampedCommand)
  BY MainAssumption DEF TInv, ShellTypes
<1>1. CASE DropEvent(a)
  <2>1. ShellTypes' BY <1>1 DEF TInv, ShellTypes, DropEvent, Takes, shell
  <2> QED BY <1>1, <2>1, TakesTypes DEF DropEvent
<1>2. CASE ShowForm(a)
  <2>1. Takes(a, Form) /\ closing' = closing /\ Head(events[a]).type \in Form
    BY <1>2 DEF ShowForm, Takes
  <2>2. CASE login = a
    <3>1. screen' \in Screen /\ login' \in Account /\ row' = row /\ Replies(<<>>)
      BY <1>0, <1>2, <2>1, <2>2, ShowsTypes DEF ShowForm, OnScreen
    <3> QED BY <1>0, <2>1, <3>1, RepliedTypes, TakesTypes
  <2>3. CASE login # a
    <3>1. Command(a, "disconnect") \in StampedCommand BY CommandTyped DEF CommandTypes
    <3>2. <<Command(a, "disconnect")>> \in Seq(StampedCommand) BY <3>1
    <3>3. /\ Replies(<<Command(a, "disconnect")>>) /\ ShowRow(a, "unlinked")
          /\ screen' = screen /\ login' = login
      BY <1>2, <2>3 DEF ShowForm
    <3>4. row' \in [Account -> Row] BY <1>0, <3>3, ShowRowTypes DEF Row
    <3> QED BY <1>0, <2>1, <3>2, <3>3, <3>4, RepliedTypes, TakesTypes
  <2> QED BY <2>2, <2>3
<1>3. CASE Link(a)
  <2>1. Takes(a, {"ready"}) /\ closing' = closing /\ Replies(<<>>) /\ ShowRow(a, "linked")
    BY <1>3 DEF Link, Takes
  <2>2. row' \in [Account -> Row] BY <1>0, <2>1, ShowRowTypes DEF Row
  <2>3. screen' \in Screen /\ login' \in Account BY <1>0, <1>3, ShowsTypes DEF Link
  <2> QED BY <1>0, <2>1, <2>2, <2>3, RepliedTypes, TakesTypes
<1>4. CASE ShowFailure(a)
  <2>1. Takes(a, {"failed", "setup"}) /\ closing' = closing /\ Replies(<<>>) /\ row' = row
    BY <1>4 DEF ShowFailure, Takes
  <2>2. screen' \in Screen /\ login' \in Account
    BY <1>0, <1>4, ShowsTypes DEF ShowFailure, Screen
  <2> QED BY <1>0, <2>1, <2>2, RepliedTypes, TakesTypes
<1>5. CASE CloseFailedClient(a)
  <2>1. /\ Takes(a, {"setup"}) /\ closing' = closing /\ row' = row
        /\ Replies(<<Command(a, "disconnect")>>)
    BY <1>5 DEF CloseFailedClient, Takes
  <2>2. Command(a, "disconnect") \in StampedCommand BY CommandTyped DEF CommandTypes
  <2>3. <<Command(a, "disconnect")>> \in Seq(StampedCommand) BY <2>2
  <2>4. screen' \in Screen /\ login' \in Account
    BY <1>0, <1>5, ShowsTypes DEF CloseFailedClient
  <2> QED BY <1>0, <2>1, <2>3, <2>4, RepliedTypes, TakesTypes
<1>6. CASE EndSession(a)
  <2>1. Takes(a, {"ended"}) /\ closing' = closing /\ ShowRow(a, "unlinked")
    BY <1>6 DEF EndSession, Takes
  <2>2. row' \in [Account -> Row] BY <1>0, <2>1, ShowRowTypes DEF Row
  <2>3. Command(a, "start") \in StampedCommand BY CommandTyped DEF CommandTypes, Steps
  <2>4. <<Command(a, "start")>> \in Seq(StampedCommand) BY <2>3
  <2>5. CASE Replies(<<Command(a, "start")>>) /\ Shows("resuming", FALSE, login)
    <3>1. screen' \in Screen /\ login' \in Account BY <1>0, <2>5, ShowsTypes
    <3> QED BY <2>1, <2>2, <2>4, <2>5, <3>1, RepliedTypes, TakesTypes
  <2>6. CASE Replies(<<>>) /\ UNCHANGED <<screen, login>>
    BY <1>0, <2>1, <2>2, <2>6, RepliedTypes, TakesTypes
  <2> QED BY <1>6, <2>5, <2>6 DEF EndSession
<1> QED BY <1>1, <1>2, <1>3, <1>4, <1>5, <1>6

-----------------------------------------------------------------------------
(* The steps of the host and of the adapters.                               *)

(* Nothing that the shell holds changes; the host may have taken a command. *)
LEMMA ElsewhereTypes ==
  ASSUME TInv, Elsewhere, UNCHANGED <<epoch, closing>>,
         commands' \in Seq(StampedCommand)
  PROVE  ShellTypes'
BY DEF TInv, ShellTypes, Elsewhere, shell

LEMMA TakenCommand ==
  ASSUME TInv, NEW a \in Account, NEW type, TakesCommand(a, type)
  PROVE  /\ ShellTypes' /\ ClientTypes' /\ StoreTypes' /\ Head(commands) \in StampedCommand
<1>1. commands \in Seq(StampedCommand) /\ commands # <<>>
  BY DEF TInv, ShellTypes, TakesCommand
<1>2. Head(commands) \in StampedCommand /\ Tail(commands) \in Seq(StampedCommand)
  BY <1>1
<1> QED BY <1>2, ElsewhereTypes DEF TInv, TakesCommand, ClientTypes, StoreTypes

LEMMA EnqueueTypes ==
  ASSUME TInv, NEW a \in Account, NEW c, Enqueue(a, c)
  PROVE  AdapterTypes' /\ WorkTypes'
<1> DEFINE d == adapter[a]
           old == {v \in d.retiring \cup ({d.current} \ {None}) : ~Exited(v)}
<1>0. AdapterTypes /\ WorkTypes /\ epoch \in Nat BY DEF TInv, ShellTypes
<1>1. CASE d.shut
  <2>1. UNCHANGED <<adapter, worker>> BY <1>1 DEF Enqueue
  <2> QED BY <1>0, <2>1 DEF AdapterTypes, WorkTypes
<1>2. CASE ~d.shut /\ Accepts(d.current)
  <2>1. PICK queue : worker' = [worker EXCEPT ![d.current].queue = queue] /\ adapter' = adapter
    BY <1>2 DEF Enqueue
  <2> QED BY <1>0, <2>1 DEF AdapterTypes, WorkTypes, WorkerFields
<1>3. CASE ~d.shut /\ ~Accepts(d.current)
  <2>1. PICK w \in Worker :
          /\ worker[w].stage = "free"
          /\ adapter' = [adapter EXCEPT ![a].current = w, ![a].retiring = old]
          /\ worker' = [worker EXCEPT ![w] =
               [FreeWorker EXCEPT !.account = a, !.stage = "waiting",
                  !.waitFor = old, !.epoch = epoch, !.queue = <<c.type>>,
                  !.late = c.epoch # epoch]]
    BY ZenonT(60), <1>3 DEF Enqueue
  <2>2. old \subseteq Worker BY <1>0 DEF AdapterTypes
  <2> HIDE DEF old
  <2>3. AdapterTypes' BY <1>0, <2>1, <2>2 DEF AdapterTypes, AdapterFields
  <2>4. /\ DOMAIN worker'[w] = WorkerFields /\ worker'[w].account = a
        /\ worker'[w].stage = "waiting" /\ worker'[w].epoch = epoch
        /\ DOMAIN worker' = Worker /\ \A v \in Worker \ {w} : worker'[v] = worker[v]
    BY <1>0, <2>1 DEF WorkTypes, FreeWorker, WorkerFields
  <2>5. WorkTypes' BY <1>0, <2>4 DEF WorkTypes, LoginStage
  <2> QED BY <2>3, <2>5
<1> QED BY <1>1, <1>2, <1>3

LEMMA StopClientTypes ==
  ASSUME TInv, NEW a \in Account, NEW type, StopClient(a, type)
  PROVE  WorkTypes'
BY DEF TInv, StopClient, Stopped, AdapterTypes, WorkTypes, WorkerFields

(* An event for the shell.                                                  *)
LEMMA AppendTypes ==
  ASSUME TInv, NEW a \in Account, NEW e \in LoginEvent,
         events' = [events EXCEPT ![a] = Append(@, e)]
  PROVE  EventTypes'
<1>1. events[a] \in Seq(LoginEvent) BY DEF TInv, EventTypes
<1>2. Append(events[a], e) \in Seq(LoginEvent) BY <1>1
<1> QED BY <1>2 DEF TInv, EventTypes

LEMMA HostTypes ==
  ASSUME TInv, NEW a \in Account, HostStep(a)
  PROVE  TInv'
<1>0. /\ ShellTypes /\ CheckTypes /\ EventTypes /\ AdapterTypes /\ WorkTypes
      /\ ClientTypes /\ StoreTypes
  BY DEF TInv
<1>1. CASE CheckStep(a)
  <2>1. PICK type \in Steps : TakesCommand(a, type) BY <1>1 DEF CheckStep
  <2>2. /\ ShellTypes' /\ ClientTypes' /\ StoreTypes' /\ Head(commands) \in StampedCommand
    BY <2>1, TakenCommand
  <2>3. CheckTypes' BY <1>1, <2>2 DEF CheckStep, CheckTypes
  <2>4. EventTypes' /\ AdapterTypes' /\ WorkTypes'
    BY <1>0, <1>1 DEF CheckStep, EventTypes, AdapterTypes, WorkTypes
  <2> QED BY <2>2, <2>3, <2>4 DEF TInv
<1>2. CASE StartStep(a)
  <2>1. AdapterTypes' /\ WorkTypes' BY <1>2, EnqueueTypes DEF StartStep
  <2>2. ShellTypes' BY <1>0, <1>2, ElsewhereTypes DEF StartStep, ShellTypes
  <2> QED BY <1>0, <1>2, <2>1, <2>2 DEF TInv, StartStep, CheckTypes, EventTypes, ClientTypes,
             StoreTypes
<1>3. CASE FailStep(a)
  <2>1. PICK c \in checked :
          events' = [events EXCEPT ![a] = Append(@, [epoch |-> c.epoch, type |-> "failed"])]
    BY <1>3 DEF FailStep
  <2>2. [epoch |-> c.epoch, type |-> "failed"] \in LoginEvent
    BY <1>0, <2>1 DEF CheckTypes, StampedCommand, LoginEvent, EventType
  <2>3. EventTypes' BY <2>1, <2>2, AppendTypes
  <2>4. ShellTypes' BY <1>0, <1>3, ElsewhereTypes DEF FailStep, ShellTypes
  <2> QED BY <1>0, <1>3, <2>3, <2>4 DEF TInv, FailStep, CheckTypes, AdapterTypes, WorkTypes,
             ClientTypes, StoreTypes
<1>4. CASE UseInbox(a)
  <2>1. TakesCommand(a, "use") /\ UNCHANGED <<checked, events>> BY <1>4 DEF UseInbox
  <2>2. AdapterTypes' /\ WorkTypes'
    BY <1>0, <1>4, EnqueueTypes DEF UseInbox, AdapterTypes, WorkTypes
  <2> QED BY <1>0, <2>1, <2>2, TakenCommand DEF TInv, CheckTypes, EventTypes
<1>5. CASE Disconnect(a)
  <2>1. TakesCommand(a, "disconnect") /\ UNCHANGED <<checked, events>> /\ WorkTypes'
    BY <1>5, StopClientTypes DEF Disconnect
  <2>2. AdapterTypes' BY <1>0, <1>5 DEF Disconnect, Retired, AdapterTypes, AdapterFields
  <2> QED BY <1>0, <2>1, <2>2, TakenCommand DEF TInv, CheckTypes, EventTypes
<1>6. CASE ShutDown(a)
  <2>1. TakesCommand(a, "shutdown") /\ UNCHANGED <<checked, events>> /\ WorkTypes'
    BY <1>6, StopClientTypes DEF ShutDown
  <2>2. AdapterTypes'
    BY <1>0, <1>6 DEF ShutDown, Retired, AdapterTypes, AdapterFields, Stops
  <2> QED BY <1>0, <2>1, <2>2, TakenCommand DEF TInv, CheckTypes, EventTypes
<1>7. CASE RemoveAccount(a)
  <2>1. TakesCommand(a, "remove") /\ UNCHANGED <<checked, events>> /\ WorkTypes'
    BY <1>7, StopClientTypes DEF RemoveAccount
  <2>2. AdapterTypes'
    BY <1>0, <1>7 DEF RemoveAccount, NewAdapter, AdapterTypes, AdapterFields, Stops
  <2> QED BY <1>0, <2>1, <2>2, TakenCommand DEF TInv, CheckTypes, EventTypes
<1>8. CASE AddAccount(a)
  <2>1. TakesCommand(a, "add") /\ UNCHANGED <<checked, events, worker>>
    BY <1>8 DEF AddAccount
  <2>2. AdapterTypes'
    BY <1>0, <1>8 DEF AddAccount, NewAdapter, AdapterTypes, AdapterFields, Stops
  <2> QED BY <1>0, <2>1, <2>2, TakenCommand DEF TInv, CheckTypes, EventTypes, WorkTypes
<1>9. CASE StopEnds(a)
  <2>1. PICK stop \in Stops : adapter' = [adapter EXCEPT ![a].stop = stop]
    BY <1>9 DEF StopEnds, Stops
  <2>2. AdapterTypes' BY <1>0, <2>1 DEF AdapterTypes, AdapterFields
  <2>3. ShellTypes' BY <1>0, <1>9, ElsewhereTypes DEF StopEnds, ShellTypes
  <2> QED BY <1>0, <1>9, <2>2, <2>3 DEF TInv, StopEnds, CheckTypes, EventTypes, WorkTypes,
             ClientTypes, StoreTypes
<1> QED BY <1>1, <1>2, <1>3, <1>4, <1>5, <1>6, <1>7, <1>8, <1>9 DEF HostStep

-----------------------------------------------------------------------------
(* The steps of a worker and of its client.                                 *)

LEMMA StepTypes ==
  ASSUME TInv, Keeps, WorkTypes', ClientTypes', StoreTypes', EventTypes'
  PROVE  TInv'
BY ElsewhereTypes DEF TInv, Keeps, CheckTypes, AdapterTypes, ShellTypes

LEMMA UpdatedTypes ==
  ASSUME NEW c, NEW auth \in Auth
  PROVE  DOMAIN Updated(c, auth) = {"auth", "updates"} /\ Updated(c, auth).auth \in Auth
BY DEF Updated

(* The client of a worker becomes c.                                        *)
LEMMA ClientSet ==
  ASSUME TInv, NEW w \in Worker, NEW c, client' = [client EXCEPT ![w] = c],
         DOMAIN c = {"auth", "updates"}, c.auth \in Auth
  PROVE  ClientTypes'
BY DEF TInv, ClientTypes

LEMMA ClosedTypes ==
  ASSUME NEW c, DOMAIN c = {"auth", "updates"}, c.auth \in Auth
  PROVE  DOMAIN ClosedClient(c) = {"auth", "updates"} /\ ClosedClient(c).auth \in Auth
BY UpdatedTypes DEF ClosedClient, Auth

LEMMA DrainedTypes ==
  ASSUME TInv, NEW w \in Worker
  PROVE  DOMAIN Drained(w) = {"auth", "updates"} /\ Drained(w).auth \in Auth
BY DEF TInv, ClientTypes, Drained

LEMMA SessionSet ==
  ASSUME TInv, NEW w \in Worker, NEW b \in BOOLEAN,
         session' = [session EXCEPT ![worker[w].account] = b]
  PROVE  session' \in [Account -> BOOLEAN]
BY DEF TInv, StoreTypes

LEMMA EmitTypes ==
  ASSUME TInv, NEW w \in Worker, NEW emits, NEW type \in EventType, EmitsIf(w, emits, type)
  PROVE  EventTypes'
<1>1. [epoch |-> worker[w].epoch, type |-> type] \in LoginEvent /\ worker[w].account \in Account
  BY DEF TInv, WorkTypes, LoginEvent
<1>2. CASE emits
  <2>1. events' = [events EXCEPT ![worker[w].account] =
                     Append(@, [epoch |-> worker[w].epoch, type |-> type])]
    BY <1>2 DEF EmitsIf
  <2> QED BY <1>1, <2>1, AppendTypes
<1>3. CASE ~emits BY <1>3 DEF EmitsIf, TInv, EventTypes
<1> QED BY <1>2, <1>3

LEMMA LogOutTypes ==
  ASSUME TInv, NEW w \in Worker, NEW c, DOMAIN c = {"auth", "updates"}, c.auth \in Auth,
         LogOut(w, c)
  PROVE  ClientTypes' /\ session' \in [Account -> BOOLEAN]
<1>1. ClientTypes' BY ClosedTypes, ClientSet DEF LogOut
<1>2. session' \in [Account -> BOOLEAN] BY SessionSet DEF LogOut, TInv, StoreTypes
<1> QED BY <1>1, <1>2

LEMMA WorkerStepTypes ==
  ASSUME TInv, NEW w \in Worker, WorkerStep(w)
  PROVE  TInv'
<1>0. /\ EventTypes /\ WorkTypes /\ ClientTypes /\ StoreTypes
      /\ DOMAIN worker = Worker /\ DOMAIN worker[w] = WorkerFields
      /\ worker[w].stage \in LoginStage
      /\ worker[w].account \in Account
  BY DEF TInv, WorkTypes
<1> USE DEF Auth
<1>1. CASE OpenClient(w)
  <2>1. WorkTypes' BY <1>0, <1>1 DEF OpenClient, WorkTypes, WorkerFields, LoginStage
  <2>2. ClientTypes' BY <1>1, UpdatedTypes, ClientSet DEF OpenClient
  <2> QED BY <1>0, <1>1, <2>1, <2>2, StepTypes DEF OpenClient, StoreTypes, EventTypes
<1>2. CASE GiveUpWaiting(w)
  <2>1. WorkTypes' BY <1>0, <1>2 DEF GiveUpWaiting, WorkTypes, WorkerFields, LoginStage
  <2> QED BY <1>0, <1>2, <2>1, StepTypes DEF GiveUpWaiting, StoreTypes, EventTypes, ClientTypes
<1>3. CASE SkipCommand(w)
  <2>1. WorkTypes' /\ Keeps
    BY <1>0, <1>3 DEF SkipCommand, TakesNext, Taken, WorkTypes, WorkerFields
  <2> QED BY <1>0, <1>3, <2>1, StepTypes DEF SkipCommand, StoreTypes, EventTypes, ClientTypes
<1>4. CASE TakeAnswer(w)
  <2>1. WorkTypes' /\ Keeps /\ marker' = marker
    BY <1>0, <1>4 DEF TakeAnswer, TakesNext, Taken, WorkTypes, WorkerFields
  <2>2. ClientTypes' /\ session' \in [Account -> BOOLEAN] /\ EventTypes'
    <3>1. CASE /\ client' = [client EXCEPT ![w] = Updated(@, "code")]
               /\ UNCHANGED <<session, events>>
      BY <1>0, <3>1, UpdatedTypes, ClientSet DEF StoreTypes, EventTypes
    <3>2. CASE /\ client' = [client EXCEPT ![w] = Updated(@, "ready")]
               /\ session' = [session EXCEPT ![worker[w].account] = TRUE]
               /\ UNCHANGED events
      <4>1. ClientTypes' BY <3>2, UpdatedTypes, ClientSet
      <4> QED BY <1>0, <3>2, <4>1, SessionSet DEF EventTypes
    <3>3. CASE EmitsIf(w, Current(w), "failed") /\ UNCHANGED <<client, session>>
      <4>1. EventTypes' BY <3>3, EmitTypes DEF EventType
      <4> QED BY <1>0, <3>3, <4>1 DEF ClientTypes, StoreTypes
    <3> QED BY <1>4, <3>1, <3>2, <3>3 DEF TakeAnswer
  <2> QED BY <1>0, <2>1, <2>2, StepTypes DEF StoreTypes
<1>5. CASE TakeClose(w)
  <2> DEFINE close == Head(worker[w].queue)
             signedIn == worker[w].authorized \/ worker[w].lateReady
             logOut == CloseKind(signedIn, worker[w].newLogin, close) = "logOut"
  <2>1. WorkTypes' /\ Keeps /\ events' = events
    BY <1>0, <1>5 DEF TakeClose, TakesNext, Taken, WorkTypes, WorkerFields
  <2>2. marker' = [marker EXCEPT ![worker[w].account] = @ /\ ~logOut]
    BY <1>5 DEF TakeClose
  <2>3. logOut \in BOOLEAN OBVIOUS
  <2>4. \/ LogOut(w, client[w])
        \/ client' = [client EXCEPT ![w] = ClosedClient(@)] /\ UNCHANGED session
    BY <1>5 DEF TakeClose
  <2> HIDE DEF logOut
  <2>5. marker' \in [Account -> BOOLEAN] BY <1>0, <2>2, <2>3 DEF StoreTypes
  <2>6. DOMAIN client[w] = {"auth", "updates"} /\ client[w].auth \in Auth
    BY <1>0 DEF ClientTypes
  <2>7. ClientTypes' /\ session' \in [Account -> BOOLEAN]
    <3>1. CASE LogOut(w, client[w]) BY <2>6, <3>1, LogOutTypes
    <3>2. CASE client' = [client EXCEPT ![w] = ClosedClient(@)] /\ UNCHANGED session
      BY <1>0, <2>6, <3>2, ClosedTypes, ClientSet DEF StoreTypes
    <3> QED BY <2>4, <3>1, <3>2
  <2> QED BY <1>0, <2>1, <2>5, <2>7, StepTypes DEF StoreTypes, EventTypes
<1>6. CASE SetParameters(w)
  <2>1. Keeps /\ UNCHANGED <<worker, session, marker>> BY <1>6 DEF SetParameters, Update
  <2>2. ClientTypes' /\ EventTypes'
    <3>1. CASE /\ client' = [client EXCEPT ![w] = Updated(Drained(w),
                     IF session[worker[w].account] THEN "ready" ELSE "phone")]
               /\ UNCHANGED events
      BY <1>0, <3>1, UpdatedTypes, ClientSet DEF EventTypes
    <3>2. CASE /\ \E type \in {"failed", "setup"} : EmitsIf(w, Current(w), type)
               /\ client' = [client EXCEPT ![w] = Drained(w)]
      <4>1. EventTypes' BY <3>2, EmitTypes DEF EventType
      <4> QED BY <3>2, <4>1, DrainedTypes, ClientSet
    <3> QED BY <1>6, <3>1, <3>2 DEF SetParameters
  <2> QED BY <1>0, <2>1, <2>2, StepTypes DEF StoreTypes, WorkTypes
<1>7. CASE WaitForLogin(w)
  <2>1. PICK form \in Form :
          /\ Keeps
          /\ client' = [client EXCEPT ![w] = Drained(w)]
          /\ worker' = [worker EXCEPT ![w].newLogin = TRUE]
          /\ marker' = [marker EXCEPT ![worker[w].account] = @ /\ form # "phone"]
          /\ EmitsIf(w, Current(w), form)
          /\ UNCHANGED session
    BY <1>7 DEF WaitForLogin, Update
  <2>2. WorkTypes' BY <1>0, <2>1 DEF WorkTypes, WorkerFields
  <2>3. ClientTypes' BY <2>1, DrainedTypes, ClientSet
  <2>4. EventTypes' BY <2>1, EmitTypes DEF EventType
  <2>5. marker' \in [Account -> BOOLEAN] BY <1>0, <2>1 DEF StoreTypes
  <2> QED BY <1>0, <2>1, <2>2, <2>3, <2>4, <2>5, StepTypes DEF StoreTypes
<1>8. CASE Ready(w)
  <2>1. WorkTypes' /\ Keeps /\ UNCHANGED session
    BY <1>0, <1>8 DEF Ready, Update, WorkTypes, WorkerFields
  <2>2. ClientTypes' BY <1>8, DrainedTypes, ClientSet DEF Ready
  <2>3. EventTypes' BY <1>8, EmitTypes DEF Ready, EventType
  <2>4. marker' \in [Account -> BOOLEAN] BY <1>0, <1>8 DEF Ready, StoreTypes
  <2> QED BY <1>0, <2>1, <2>2, <2>3, <2>4, StepTypes DEF StoreTypes
<1>9. CASE SkipReady(w)
  <2>1. WorkTypes' /\ Keeps /\ UNCHANGED <<marker, events>>
    BY <1>0, <1>9 DEF SkipReady, Update, WorkTypes, WorkerFields
  <2>2. \/ LogOut(w, Drained(w))
        \/ client' = [client EXCEPT ![w] = Drained(w)] /\ UNCHANGED session
    BY <1>9 DEF SkipReady
  <2>3. ClientTypes' /\ session' \in [Account -> BOOLEAN]
    BY <1>0, <2>2, DrainedTypes, LogOutTypes, ClientSet DEF StoreTypes
  <2> QED BY <1>0, <2>1, <2>3, StepTypes DEF StoreTypes, EventTypes
<1>10. CASE Closing(w)
  <2>1. PICK auth \in {"closing", "closed"} :
          /\ Keeps /\ client' = [client EXCEPT ![w] = Drained(w)]
          /\ worker' = [worker EXCEPT
               ![w].authorized = FALSE,
               ![w].ended = @ \/ (worker[w].authorized /\ ~worker[w].marked),
               ![w].stage = IF auth = "closed" THEN "exiting" ELSE @,
               ![w].queue = IF auth = "closed" THEN <<>> ELSE @]
          /\ UNCHANGED <<session, marker, events>>
    BY <1>10 DEF Closing, Update
  <2>2. /\ DOMAIN worker' = Worker /\ \A v \in Worker \ {w} : worker'[v] = worker[v]
        /\ DOMAIN worker'[w] = WorkerFields
        /\ worker'[w].account = worker[w].account /\ worker'[w].epoch = worker[w].epoch
        /\ worker'[w].stage \in {worker[w].stage, "exiting"}
    BY <1>0, <2>1 DEF WorkerFields
  <2>3. WorkTypes' BY <1>0, <2>2 DEF WorkTypes, LoginStage
  <2>4. ClientTypes' BY <2>1, DrainedTypes, ClientSet
  <2> QED BY <1>0, <2>1, <2>3, <2>4, StepTypes DEF StoreTypes, EventTypes
<1>11. CASE Exit(w)
  <2>1. WorkTypes' BY <1>0, <1>11 DEF Exit, WorkTypes, WorkerFields, LoginStage
  <2> QED BY <1>0, <1>11, <2>1, StepTypes DEF Exit, StoreTypes, EventTypes, ClientTypes
<1>12. CASE Announce(w)
  <2>1. WorkTypes' BY <1>0, <1>12 DEF Announce, WorkTypes, WorkerFields, LoginStage
  <2>2. [epoch |-> None, type |-> "ended"] \in LoginEvent BY DEF LoginEvent, EventType
  <2>3. EventTypes' BY <1>0, <1>12, <2>2, AppendTypes DEF Announce
  <2> QED BY <1>0, <1>12, <2>1, <2>3, StepTypes DEF Announce, StoreTypes, ClientTypes
<1>13. CASE EndedElsewhere(w)
  <2>1. ClientTypes' BY <1>13, UpdatedTypes, ClientSet DEF EndedElsewhere
  <2>2. session' \in [Account -> BOOLEAN] BY <1>13, SessionSet DEF EndedElsewhere
  <2>3. Keeps /\ UNCHANGED <<worker, marker, events>> BY <1>13 DEF EndedElsewhere, Keeps
  <2> QED BY <1>0, <2>1, <2>2, <2>3, StepTypes DEF StoreTypes, EventTypes, WorkTypes
<1>14. CASE Released(w)
  <2>1. ClientTypes' BY <1>14, UpdatedTypes, ClientSet DEF Released
  <2>2. Keeps /\ UNCHANGED <<worker, session, marker, events>>
    BY <1>14 DEF Released, Keeps
  <2> QED BY <1>0, <2>1, <2>2, StepTypes DEF StoreTypes, EventTypes, WorkTypes
<1> QED BY <1>1, <1>2, <1>3, <1>4, <1>5, <1>6, <1>7, <1>8, <1>9, <1>10, <1>11, <1>12, <1>13,
        <1>14 DEF WorkerStep

LEMMA InitTypes == Init => TInv
<1> SUFFICES ASSUME Init PROVE TInv
  OBVIOUS
<1>1. PICK kept \in SUBSET Saved : marker = [a \in Account |-> a \in kept] BY DEF Init
<1>2. StoreTypes
  <2>1. \A a \in Account : (a \in kept) \in BOOLEAN OBVIOUS
  <2> QED BY <1>1, <2>1 DEF Init, StoreTypes
<1>3. ShellTypes
  <2>1. row \in [Account -> Row] BY DEF Init, Row
  <2>2. screen \in Screen /\ login \in Account
    BY MainAssumption DEF Init, IdleScreen, Screen
  <2>3. 0 \in 0 .. MaxEpoch BY LoginBounds
  <2>4. pending = <<>> /\ commands = <<>> /\ epoch = 0 /\ closing = FALSE BY DEF Init
  <2>5. pending \in Seq(StampedCommand)
        /\ epoch + Cardinality(Ends(pending, Len(pending))) <= MaxEpoch
    BY <2>3, <2>4, NothingWaits
  <2> QED BY <2>1, <2>2, <2>3, <2>4, <2>5 DEF ShellTypes
<1>4. CheckTypes /\ EventTypes BY DEF Init, CheckTypes, EventTypes
<1>5. AdapterTypes BY DEF Init, NewAdapter, AdapterTypes, AdapterFields, Stops
<1>6. WorkTypes
  BY MainAssumption DEF Init, FreeWorker, WorkTypes, WorkerFields, LoginStage
<1>7. ClientTypes BY DEF Init, NoClient, ClientTypes, Auth
<1> QED BY <1>2, <1>3, <1>4, <1>5, <1>6, <1>7 DEF TInv

LEMMA TypesHold == TInv => TypeOK
<1> SUFFICES ASSUME TInv PROVE TypeOK
  OBVIOUS
<1>1. Cardinality(checked) <= 1
  <2>1. CASE checked = {} BY <2>1, FS_EmptySet
  <2>2. ASSUME NEW c, checked = {c} PROVE Cardinality(checked) = 1 BY <2>2, FS_Singleton
  <2>3. checked = {} \/ \E c : checked = {c} BY DEF TInv, CheckTypes
  <2>4. Cardinality(checked) = 0 \/ Cardinality(checked) = 1
    BY <2>1, <2>2, <2>3, FS_EmptySet
  <2> QED BY <2>4
<1>2. \A i \in DOMAIN commands : commands[i].account \in Account
  <2>1. \A i \in DOMAIN commands : commands[i] \in StampedCommand
    BY DEF TInv, ShellTypes
  <2> QED BY <2>1 DEF StampedCommand
<1>3. \A a \in Account : \A i \in DOMAIN events[a] : events[a][i] \in LoginEvent
  <2> SUFFICES ASSUME NEW a \in Account, NEW i \in DOMAIN events[a]
               PROVE  events[a][i] \in LoginEvent
    OBVIOUS
  <2>1. events[a] \in Seq(LoginEvent) BY DEF TInv, EventTypes
  <2> QED BY <2>1
<1>4. row \in [Account -> Row] /\ screen \in Screen /\ login \in Account /\ epoch \in 0 .. MaxEpoch
      /\ closing \in BOOLEAN
  BY DEF TInv, ShellTypes
<1>5. \A a \in Account : /\ adapter[a].current \in Worker \cup {None}
                         /\ adapter[a].retiring \cup adapter[a].awaited \subseteq Worker
                         /\ adapter[a].stop \in {"no", "waiting", "clean", "late"}
  BY DEF TInv, AdapterTypes, Stops
<1>6. \A w \in Worker : worker[w].stage \in LoginStage /\ worker[w].account \in Account
  BY DEF TInv, WorkTypes
<1>7. \A w \in Worker : client[w].auth \in {"none", "params", "phone", "code", "ready", "closing",
                                            "closed"}
  BY DEF TInv, ClientTypes, Auth
<1> QED BY <1>1, <1>2, <1>3, <1>4, <1>5, <1>6, <1>7 DEF TypeOK, TInv, StoreTypes

(* Every variable keeps its type, also when the number of a removed account *)
(* is used again: no row, screen, epoch, command, adapter, worker, client   *)
(* or event leaves its values, one login step at most passed the epoch      *)
(* check, and the commands that wait for the end of a pump find room.       *)
THEOREM LoginTypes == Spec => []TypeOK
<1>1. TInv /\ [Next]_vars => TInv'
  <2> SUFFICES ASSUME TInv, [Next]_vars PROVE TInv'
    OBVIOUS
  <2>1. CASE Next
    BY <2>1, UserTypes, PumpTypes, EventStepTypes, HostTypes, WorkerStepTypes DEF Next, ShellStep
  <2>2. CASE UNCHANGED vars
    BY <2>2 DEF vars, shell, TInv, ShellTypes, CheckTypes, EventTypes, AdapterTypes, WorkTypes,
           ClientTypes, StoreTypes
  <2> QED BY <2>1, <2>2
<1> QED BY InitTypes, TypesHold, <1>1, PTL DEF Spec
=============================================================================
