-------------------------- MODULE DiscordSession_proofs --------------------------
(***************************************************************************)
(* Proofs about the Discord session, for any number of commands: each send *)
(* has one answer, the account and the app end after their sends and once, *)
(* and the row of the account is that of its session.  Most of it rests on *)
(* the order of a queue: the adapter posts nothing that needs an answer    *)
(* behind the message that ends a session, so an owner that ended has no   *)
(* send left; and on the gate, which only the newest owner may have.       *)
(***************************************************************************)
EXTENDS DiscordSession, Integers, SequenceTheorems, TLAPS

Enders == {"retire", "disconnect", "shutdown"}
TaskTypes == {"list", "history", "post", "sendWait", "seal", "settle", "disconnectWait",
              "limit"}
Results == {"none", "ok", "failed", "unauthorized"}
Messages ==
    {m \in [type : {"none", "reload", "open", "send"} \cup Enders \cup TaskTypes,
            arg : Nat, result : Results] :
       m.type = "disconnect" => m.arg <= MaxCall}
Tasks == [type : TaskTypes, arg : Nat, result : {"none"}]

OwnerState ==
    [waits : Nat, queue : Seq(Messages), tasks : SUBSET Tasks, at : Messages,
     hold : BOOLEAN, sends : SUBSET Nat, ticket : Nat, ready : BOOLEAN,
     retired : BOOLEAN, unlink : {"none", "wait", "seal"}, revoked : BOOLEAN,
     leaving : 0 .. MaxCall, end : {"none", "unlinked", "stopped"}, settleArmed : BOOLEAN,
     shutdown : BOOLEAN, closed : BOOLEAN, stopped : BOOLEAN, done : BOOLEAN]

State ==
    [gate : [open : BOOLEAN, epoch : Nat, inflight : SUBSET Nat],
     active : Nat, owner : Seq(OwnerState),
     session : Nat, retiring : Nat, handle : Nat,
     doing : {"none", "unlink"}, closing : Nat, closed : BOOLEAN,
     account : {"unlinked", "linking", "linked"}, stops : Nat, answers : Seq(Nat),
     loads : Nat, leftBusy : BOOLEAN, lateLinked : BOOLEAN]

Newest(s) == Len(s.owner)

(* What is in a queue.                                                      *)
Elems(q) == {q[i] : i \in DOMAIN q}

(* Nothing that needs an answer is behind an ender.                         *)
EndersLast(q) ==
    \A i, j \in DOMAIN q : i < j /\ q[i].type \in Enders =>
        q[j].type \notin {"send", "disconnect"}

SendsOnce(q) ==
    \A i, j \in DOMAIN q : q[i] = q[j] /\ q[i].type = "send" => i = j

-----------------------------------------------------------------------------
(* The invariant, over a state s and the state o of an owner.               *)

(* An ender of the session was handled.                                     *)
Ended(o) == ~o.hold \/ o.leaving # 0 \/ o.shutdown \/ o.closed \/ o.end # "none"

(* The sends that wait at an owner.                                         *)
Letters(o) == {m \in Elems(o.queue) \cup {o.at} : m.type = "send"}

(* The owner waits for the call of request r.                               *)
Carries(o, r) ==
    /\ r \in o.sends /\ ~o.closed
    /\ \E m \in o.tasks \cup Elems(o.queue) : m.type = "post" /\ m.arg = r

(* The newest owner alone has a handle of the adapter and the gate.         *)
Places(s) ==
    /\ {s.session, s.retiring, s.handle, s.closing} \subseteq {0, Newest(s)}
    /\ s.doing = "unlink" => s.session = 0
    /\ s.handle # 0 => s.doing = "unlink"
    /\ Newest(s) <= s.active
    /\ s.active + s.loads + Len(s.answers) <= MaxCall
    /\ s.gate.epoch # Newest(s) => s.closed /\ s.gate.epoch = Newest(s) + 1

(* The close of the app is on its way to an owner, or done.                 *)
Closer(o) == o.shutdown \/ o.stopped \/ o.done \/ \E m \in Elems(o.queue) : m.type = "shutdown"

Lost(o) ==
    o.shutdown /\ o.tasks = {} /\ ~o.hold /\ o.queue = <<>> /\ o.at = NoMessage

StopsAt(s, o) ==
    /\ s.stops = (IF o.stopped THEN 1 ELSE 0)
    /\ s.closing = 0 => o.stopped
    /\ o.shutdown \/ o.done \/ \E m \in Elems(o.queue) : m.type = "shutdown"
    /\ o.done => ~s.gate.open
    /\ o.stopped => ~s.gate.open \/ Lost(o)

(* The close goes to the newest owner, or the adapter itself says Stopped.  *)
Stops(s) ==
    /\ ~s.closed => s.stops = 0 /\ s.closing = 0
    /\ s.closed => s.session = 0 /\ s.retiring = 0 /\ s.handle = 0 /\ s.doing = "none"
    /\ \A k \in DOMAIN s.owner : Closer(s.owner[k]) =>
         s.closed /\ k = Newest(s) /\ s.gate.epoch = k
    /\ s.closed /\ s.gate.epoch # Newest(s) => s.stops = 1 /\ s.closing = 0 /\ ~s.gate.open
    /\ s.closed /\ s.gate.epoch = Newest(s) =>
         Newest(s) # 0 /\ StopsAt(s, s.owner[Newest(s)])

(* The session has heard of no end; an owner that ended has no send.        *)
OrderOf(o, current, over) ==
    /\ current => ~Ended(o) /\ ~o.retired /\ \A m \in Elems(o.queue) : m.type \notin Enders
    /\ ~current /\ ~over => o.retired
    /\ Ended(o) => /\ \A m \in Elems(o.queue) : m.type \notin {"send", "disconnect"}
                   /\ o.at.type # "send"
    /\ EndersLast(o.queue)
    /\ o.closed => ~o.hold
    /\ o.at.type \in {"none", "send", "list"} /\ (o.at.type = "none" => o.at = NoMessage)

Ordered(s) == \A k \in DOMAIN s.owner : OrderOf(s.owner[k], k = s.session, s.closed)

(* A send in flight has no answer, and an owner that will handle its result.*)
Flights(s) ==
    /\ s.gate.inflight # {} => s.gate.open
    /\ \A r \in s.gate.inflight :
         /\ r \in DOMAIN s.answers /\ s.answers[r] = 0
         /\ \E k \in DOMAIN s.owner : Carries(s.owner[k], r)
    /\ \A k \in DOMAIN s.owner : s.owner[k].sends \subseteq DOMAIN s.answers

(* A send that waits has no answer, is not in flight and waits once.        *)
Once(o) == SendsOnce(o.queue) /\ (o.at.type = "send" => o.at \notin Elems(o.queue))

Unanswered(s, o) ==
    \A m \in Letters(o) :
        /\ m.arg \in DOMAIN s.answers /\ s.answers[m.arg] = 0
        /\ m.arg \notin s.gate.inflight /\ m.result = "none"

Waiting(s) ==
    /\ \A k \in DOMAIN s.owner : Unanswered(s, s.owner[k]) /\ Once(s.owner[k])
    /\ \A k, l \in DOMAIN s.owner : k # l =>
         \A m \in Letters(s.owner[k]) : m \notin Letters(s.owner[l])

(* A send was answered once, or it is in flight, or it waits.               *)
Answered(s) ==
    \A r \in DOMAIN s.answers :
        \/ s.answers[r] = 1
        \/ /\ s.answers[r] = 0
           /\ \/ r \in s.gate.inflight
              \/ \E k \in DOMAIN s.owner : Message("send", r) \in Letters(s.owner[k])

(* What the row says, by the gate.                                          *)
RowOf(s, k, o) ==
    /\ k = s.session /\ ~o.revoked => s.gate.open
    /\ k = Newest(s) /\ (o.revoked \/ o.closed) => ~s.gate.open
    /\ k = s.session /\ ~s.lateLinked /\ s.account = "linked" => o.ready
    /\ o.at.type = "list" /\ ~o.retired => ~o.revoked

RowIs(s) ==
    /\ s.account = "unlinked" => ~s.gate.open \/ Newest(s) = 0
    /\ Newest(s) = 0 => s.account = "unlinked"
    /\ ~s.gate.open /\ ~s.lateLinked /\ ~s.closed => s.account = "unlinked"
    /\ \A k \in DOMAIN s.owner : RowOf(s, k, s.owner[k])

(* An account without a session unlinks: the adapter is about to, or the    *)
(* newest owner was told to.                                                *)
Leaves(o, n) ==
    \/ Message("disconnect", n) \in Elems(o.queue)
    \/ o.leaving = n /\ Message("disconnectWait", 0) \in o.tasks \cup Elems(o.queue)

NeedsEnd(s) ==
    s.session = 0 /\ ~s.closed /\ ~s.leftBusy /\ ~s.lateLinked /\ s.account # "unlinked"

Leaving(s) ==
    NeedsEnd(s) => s.doing = "unlink" \/ Leaves(s.owner[Newest(s)], s.active)

MostInv(s) ==
    /\ s \in State /\ Places(s) /\ Stops(s) /\ Ordered(s)
    /\ Flights(s) /\ Waiting(s) /\ Answered(s) /\ RowIs(s)

Inv(s) == MostInv(s) /\ Leaving(s)

-----------------------------------------------------------------------------
(* Queues.                                                                  *)

LEMMA TailParts ==
  ASSUME NEW q \in Seq(Messages), q # <<>>
  PROVE  /\ Tail(q) \in Seq(Messages) /\ Head(q) \in Messages
         /\ Elems(q) = {Head(q)} \cup Elems(Tail(q))
         /\ \A i \in DOMAIN Tail(q) : Tail(q)[i] = q[i + 1] /\ i + 1 \in DOMAIN q
         /\ Head(q) = q[1] /\ 1 \in DOMAIN q
<1>1. /\ Tail(q) \in Seq(Messages) /\ Head(q) = q[1] /\ Len(q) \in Nat /\ Len(q) # 0
      /\ Len(Tail(q)) = Len(q) - 1 /\ \A i \in 1 .. Len(Tail(q)) : Tail(q)[i] = q[i + 1]
  OBVIOUS
<1>2. DOMAIN q = 1 .. Len(q) /\ DOMAIN Tail(q) = 1 .. Len(Tail(q)) BY <1>1
<1>3. \A i \in DOMAIN Tail(q) : Tail(q)[i] = q[i + 1] /\ i + 1 \in DOMAIN q BY <1>1, <1>2
<1>4. 1 \in DOMAIN q BY <1>1, <1>2
<1>5. ASSUME NEW m \in Elems(q) PROVE m = Head(q) \/ m \in Elems(Tail(q))
  <2>1. PICK i \in DOMAIN q : m = q[i] BY DEF Elems
  <2>2. CASE i = 1 BY <2>1, <2>2, <1>1
  <2>3. CASE i # 1
    <3>1. i - 1 \in DOMAIN Tail(q) /\ (i - 1) + 1 = i BY <2>3, <1>1, <1>2
    <3>2. Tail(q)[i - 1] = q[i] BY <3>1, <1>3
    <3> QED BY <2>1, <3>1, <3>2 DEF Elems
  <2> QED BY <2>2, <2>3
<1>6. Head(q) \in Elems(q) BY <1>1, <1>4 DEF Elems
<1>7. Elems(Tail(q)) \subseteq Elems(q) BY <1>3 DEF Elems
<1>8. Head(q) \in Messages BY <1>1, <1>4
<1> QED BY <1>1, <1>3, <1>4, <1>5, <1>6, <1>7, <1>8

LEMMA AppendParts ==
  ASSUME NEW q \in Seq(Messages), NEW m \in Messages
  PROVE  /\ Append(q, m) \in Seq(Messages) /\ Elems(Append(q, m)) = Elems(q) \cup {m}
         /\ Append(q, m) # <<>>
         /\ DOMAIN Append(q, m) = 1 .. Len(q) + 1 /\ DOMAIN q = 1 .. Len(q) /\ Len(q) \in Nat
         /\ \A i \in 1 .. Len(q) : Append(q, m)[i] = q[i]
         /\ Append(q, m)[Len(q) + 1] = m
<1>1. /\ Append(q, m) \in Seq(Messages) /\ Len(Append(q, m)) = Len(q) + 1 /\ Len(q) \in Nat
      /\ \A i \in 1 .. Len(q) : Append(q, m)[i] = q[i]
      /\ Append(q, m)[Len(q) + 1] = m
  OBVIOUS
<1>2. DOMAIN Append(q, m) = 1 .. Len(q) + 1 /\ DOMAIN q = 1 .. Len(q) BY <1>1
<1> DEFINE w == Append(q, m)
<1>3. w # <<>> BY <1>1
<1>4. Elems(w) = Elems(q) \cup {m}
  <2> HIDE DEF w
  <2>1. 1 .. Len(q) + 1 = (1 .. Len(q)) \cup {Len(q) + 1} BY <1>1
  <2>2. DOMAIN w = (1 .. Len(q)) \cup {Len(q) + 1} BY <2>1, <1>2 DEF w
  <2>3. \A i \in 1 .. Len(q) : w[i] = q[i] BY <1>1 DEF w
  <2>4. w[Len(q) + 1] = m BY <1>1 DEF w
  <2> QED BY <2>2, <2>3, <2>4, <1>2 DEF Elems
<1> QED BY <1>1, <1>2, <1>3, <1>4

LEMMA TailOrder ==
  ASSUME NEW q \in Seq(Messages), q # <<>>
  PROVE  /\ EndersLast(q) => EndersLast(Tail(q))
         /\ SendsOnce(q) => SendsOnce(Tail(q))
         /\ EndersLast(q) /\ Head(q).type \in Enders =>
               \A m \in Elems(Tail(q)) : m.type \notin {"send", "disconnect"}
         /\ SendsOnce(q) /\ Head(q).type = "send" => Head(q) \notin Elems(Tail(q))
<1>1. /\ \A i \in DOMAIN Tail(q) : Tail(q)[i] = q[i + 1] /\ i + 1 \in DOMAIN q
      /\ Head(q) = q[1] /\ 1 \in DOMAIN q
  BY TailParts
<1>2. \A i \in DOMAIN Tail(q) : i \in Nat /\ i >= 1 OBVIOUS
<1>3. EndersLast(q) => EndersLast(Tail(q)) BY <1>1, <1>2 DEF EndersLast
<1>4. SendsOnce(q) => SendsOnce(Tail(q)) BY <1>1, <1>2 DEF SendsOnce
<1>5. ASSUME EndersLast(q), Head(q).type \in Enders, NEW m \in Elems(Tail(q))
      PROVE  m.type \notin {"send", "disconnect"}
  <2>1. PICK i \in DOMAIN Tail(q) : m = Tail(q)[i] BY DEF Elems
  <2>2. m = q[i + 1] /\ i + 1 \in DOMAIN q /\ 1 < i + 1 BY <2>1, <1>1, <1>2
  <2> QED BY <2>2, <1>1, <1>5 DEF EndersLast
<1>6. ASSUME SendsOnce(q), Head(q).type = "send", Head(q) \in Elems(Tail(q)) PROVE FALSE
  <2>1. PICK i \in DOMAIN Tail(q) : Head(q) = Tail(q)[i] BY <1>6 DEF Elems
  <2>2. q[1] = q[i + 1] /\ i + 1 \in DOMAIN q /\ 1 # i + 1 BY <2>1, <1>1, <1>2
  <2> QED BY <2>2, <1>1, <1>6 DEF SendsOnce
<1> QED BY <1>3, <1>4, <1>5, <1>6

LEMMA AppendOrder ==
  ASSUME NEW q \in Seq(Messages), NEW m \in Messages
  PROVE  /\ EndersLast(q) /\ (m.type \notin {"send", "disconnect"} \/
                              \A n \in Elems(q) : n.type \notin Enders)
               => EndersLast(Append(q, m))
         /\ SendsOnce(q) /\ (m.type # "send" \/ m \notin Elems(q)) => SendsOnce(Append(q, m))
<1> DEFINE w == Append(q, m)
           n == Len(q)
<1>1. /\ DOMAIN w = 1 .. n + 1 /\ DOMAIN q = 1 .. n /\ n \in Nat
      /\ \A i \in 1 .. n : w[i] = q[i]
      /\ w[n + 1] = m
  BY AppendParts
<1>2. \A i \in DOMAIN w : i = n + 1 \/ i \in 1 .. n BY <1>1
<1>3. \A i \in 1 .. n : q[i] \in Elems(q) BY <1>1 DEF Elems
<1> HIDE DEF w, n
<1>4. ASSUME EndersLast(q), m.type \notin {"send", "disconnect"} \/
                              \A x \in Elems(q) : x.type \notin Enders
      PROVE  EndersLast(w)
  <2> SUFFICES ASSUME NEW i \in DOMAIN w, NEW j \in DOMAIN w, i < j, w[i].type \in Enders
               PROVE  w[j].type \notin {"send", "disconnect"}
    BY DEF EndersLast
  <2>1. i \in 1 .. n
    <3>1. i \in 1 .. n + 1 /\ j \in 1 .. n + 1 BY <1>1
    <3> QED BY <3>1, <1>1
  <2>2. w[i] = q[i] /\ i \in DOMAIN q BY <2>1, <1>1
  <2>3. CASE j = n + 1 BY <2>1, <2>2, <2>3, <1>1, <1>3, <1>4
  <2>4. CASE j \in 1 .. n BY <2>2, <2>4, <1>1, <1>4 DEF EndersLast
  <2> QED BY <2>3, <2>4, <1>2
<1>5. ASSUME SendsOnce(q), m.type # "send" \/ m \notin Elems(q) PROVE SendsOnce(w)
  <2> SUFFICES ASSUME NEW i \in DOMAIN w, NEW j \in DOMAIN w, w[i] = w[j],
                      w[i].type = "send"
               PROVE  i = j
    BY DEF SendsOnce
  <2>1. CASE i \in 1 .. n /\ j \in 1 .. n BY <2>1, <1>1, <1>5 DEF SendsOnce
  <2>2. CASE i = n + 1 /\ j \in 1 .. n BY <2>2, <1>1, <1>3, <1>5
  <2>3. CASE i \in 1 .. n /\ j = n + 1 BY <2>3, <1>1, <1>3, <1>5
  <2> QED BY <2>1, <2>2, <2>3, <1>2
<1> QED BY <1>4, <1>5 DEF w

-----------------------------------------------------------------------------
(* One owner becomes another.                                               *)

SameGate(s, t) == t.gate = s.gate

SameAdapter(s, t) ==
    /\ t.active = s.active /\ t.session = s.session /\ t.retiring = s.retiring
    /\ t.handle = s.handle /\ t.doing = s.doing /\ t.closing = s.closing
    /\ t.closed = s.closed /\ t.loads = s.loads /\ t.leftBusy = s.leftBusy

SameTalk(s, t) ==
    /\ t.account = s.account /\ t.stops = s.stops /\ t.answers = s.answers
    /\ t.lateLinked = s.lateLinked

SetOwner(s, k, o) == [s EXCEPT !.owner[k] = o]

(* The owner of s is o in t, and no other changes.                          *)
Becomes(s, t, k, o) ==
    /\ DOMAIN t.owner = DOMAIN s.owner /\ Newest(t) = Newest(s)
    /\ t.owner[k] = o
    /\ \A j \in DOMAIN s.owner : j # k => t.owner[j] = s.owner[j]

(* Nothing else changes.                                                    *)
Only(s, t, k, o) ==
    /\ t \in State /\ o \in OwnerState
    /\ SameGate(s, t) /\ SameAdapter(s, t) /\ SameTalk(s, t) /\ Becomes(s, t, k, o)

LEMMA OwnerTypes ==
  ASSUME NEW s \in State
  PROVE  /\ s.owner \in Seq(OwnerState) /\ DOMAIN s.owner = 1 .. Len(s.owner)
         /\ Newest(s) \in Nat /\ 0 \notin DOMAIN s.owner
         /\ Newest(s) # 0 => Newest(s) \in DOMAIN s.owner
         /\ \A k \in DOMAIN s.owner : s.owner[k] \in OwnerState /\ k \in Nat /\ k # 0
<1>1. s.owner \in Seq(OwnerState) BY DEF State
<1> DEFINE w == s.owner
<1>2. /\ DOMAIN w = 1 .. Len(w) /\ Len(w) \in Nat
      /\ \A k \in DOMAIN w : w[k] \in OwnerState
  <2> HIDE DEF w
  <2>1. w \in Seq(OwnerState) BY <1>1 DEF w
  <2> QED BY <2>1
<1> QED BY <1>1, <1>2 DEF Newest

LEMMA SetOwnerParts ==
  ASSUME NEW s \in State, NEW k \in DOMAIN s.owner, NEW o \in OwnerState
  PROVE  Only(s, SetOwner(s, k, o), k, o)
<1>1. s.owner \in Seq(OwnerState) BY OwnerTypes
<1> DEFINE w == [s.owner EXCEPT ![k] = o]
           t == SetOwner(s, k, o)
<1>2. w \in Seq(OwnerState) /\ Len(w) = Len(s.owner) /\ DOMAIN w = DOMAIN s.owner
  BY <1>1
<1>3. w[k] = o /\ \A j \in DOMAIN s.owner : j # k => w[j] = s.owner[j] BY <1>1
<1>4. t = [s EXCEPT !.owner = w] BY DEF SetOwner
<1> HIDE DEF w, t
<1>5. t.owner = w /\ t \in State BY <1>2, <1>4 DEF State
<1>6. SameGate(s, t) /\ SameAdapter(s, t) /\ SameTalk(s, t)
  BY <1>4 DEF State, SameGate, SameAdapter, SameTalk
<1>7. Becomes(s, t, k, o) BY <1>2, <1>3, <1>5 DEF Becomes, Newest
<1> QED BY <1>5, <1>6, <1>7 DEF Only, t


-----------------------------------------------------------------------------
(* A step of an owner that also changes the gate or what the shell hears.   *)
Moves(s, t, k, p) ==
    /\ t \in State /\ p \in OwnerState /\ SameAdapter(s, t) /\ Becomes(s, t, k, p)
    /\ t.gate.epoch = s.gate.epoch /\ (t.gate.open => s.gate.open)
    /\ t.gate.open = s.gate.open \/ k = Newest(s)

Kept(s, t, o, p, r) ==
    /\ t.answers[r] = s.answers[r] /\ (r \in t.gate.inflight <=> r \in s.gate.inflight)
    /\ Message("send", r) \in Letters(p) <=> Message("send", r) \in Letters(o)
    /\ r \in t.gate.inflight /\ Carries(o, r) => Carries(p, r)

Replied(s, t, o, p, r) ==
    /\ t.answers[r] = s.answers[r] + 1
    /\ r \notin t.gate.inflight /\ Message("send", r) \notin Letters(p)
    /\ r \in s.gate.inflight \/ Message("send", r) \in Letters(o)

Posted(s, t, o, p, r) ==
    /\ t.answers[r] = s.answers[r] /\ r \in t.gate.inflight /\ Carries(p, r)
    /\ Message("send", r) \in Letters(o) /\ Message("send", r) \notin Letters(p)

(* No send is dropped, and none is answered twice.                          *)
SendsMove(s, t, o, p) ==
    /\ DOMAIN t.answers = DOMAIN s.answers
    /\ t.gate.inflight \subseteq DOMAIN s.answers /\ (t.gate.inflight # {} => t.gate.open)
    /\ p.sends \subseteq DOMAIN s.answers /\ Once(p) /\ Letters(p) \subseteq Letters(o)
    /\ \A r \in DOMAIN s.answers :
         Kept(s, t, o, p, r) \/ Replied(s, t, o, p, r) \/ Posted(s, t, o, p, r)

LEMMA LetterForm ==
  ASSUME NEW o \in OwnerState
  PROVE  /\ Elems(o.queue) \subseteq Messages /\ Letters(o) \subseteq Messages
         /\ \A m \in Letters(o) : m.result = "none" => m = Message("send", m.arg)
<1>1. o.queue \in Seq(Messages) /\ o.at \in Messages BY DEF OwnerState
<1> DEFINE q == o.queue
<1>2. Elems(q) \subseteq Messages
  <2>1. q \in Seq(Messages) BY <1>1
  <2> HIDE DEF q
  <2>2. \A i \in DOMAIN q : q[i] \in Messages BY <2>1
  <2> QED BY <2>2 DEF Elems
<1>3. Letters(o) \subseteq Messages BY <1>1, <1>2 DEF Letters
<1>4. \A m \in Messages : m.type = "send" /\ m.result = "none" => m = Message("send", m.arg)
  BY DEF Messages, Message
<1> QED BY <1>2, <1>3, <1>4 DEF Letters

LEMMA SendsMoveKeeps ==
  ASSUME NEW s, NEW t, NEW k \in DOMAIN s.owner, NEW p,
         s \in State, Flights(s), Waiting(s), Answered(s),
         Becomes(s, t, k, p), SendsMove(s, t, s.owner[k], p)
  PROVE  Flights(t) /\ Waiting(t) /\ Answered(t)
<1> DEFINE o == s.owner[k]
<1>1. /\ DOMAIN t.owner = DOMAIN s.owner /\ t.owner[k] = p
      /\ \A j \in DOMAIN s.owner : j # k => t.owner[j] = s.owner[j]
  BY DEF Becomes
<1>2. /\ DOMAIN t.answers = DOMAIN s.answers
      /\ t.gate.inflight \subseteq DOMAIN s.answers /\ (t.gate.inflight # {} => t.gate.open)
      /\ p.sends \subseteq DOMAIN s.answers /\ Once(p) /\ Letters(p) \subseteq Letters(o)
      /\ \A r \in DOMAIN s.answers :
           Kept(s, t, o, p, r) \/ Replied(s, t, o, p, r) \/ Posted(s, t, o, p, r)
  BY DEF SendsMove
<1>3. \A j \in DOMAIN s.owner : s.owner[j] \in OwnerState BY OwnerTypes
<1>4. \A j \in DOMAIN s.owner : \A m \in Letters(s.owner[j]) :
        /\ m.arg \in DOMAIN s.answers /\ s.answers[m.arg] = 0
        /\ m.arg \notin s.gate.inflight /\ m.result = "none" /\ m = Message("send", m.arg)
  BY <1>3, LetterForm DEF Waiting, Unanswered
<1>5. \A j, l \in DOMAIN s.owner : j # l =>
        \A m \in Letters(s.owner[j]) : m \notin Letters(s.owner[l])
  BY DEF Waiting
<1>6. \A r : Message("send", r).arg = r BY DEF Message
<1>7. ASSUME NEW j \in DOMAIN t.owner, NEW m \in Letters(t.owner[j])
      PROVE  /\ m.arg \in DOMAIN t.answers /\ t.answers[m.arg] = 0
             /\ m.arg \notin t.gate.inflight /\ m.result = "none"
             /\ m \in Letters(s.owner[j])
  <2>1. m \in Letters(s.owner[j]) BY <1>1, <1>2, <1>7
  <2>2. /\ m.arg \in DOMAIN s.answers /\ s.answers[m.arg] = 0
        /\ m.arg \notin s.gate.inflight /\ m.result = "none" /\ m = Message("send", m.arg)
    BY <2>1, <1>1, <1>4
  <2>3. ~Replied(s, t, o, p, m.arg) /\ ~Posted(s, t, o, p, m.arg)
    <3>1. CASE j = k
      <4>1. Message("send", m.arg) \in Letters(p) BY <3>1, <1>1, <1>7, <2>2
      <4> QED BY <4>1 DEF Replied, Posted
    <3>2. CASE j # k
      <4>1. Message("send", m.arg) \notin Letters(o) BY <3>2, <1>1, <1>5, <2>1, <2>2
      <4> QED BY <4>1, <2>2 DEF Replied, Posted
    <3> QED BY <3>1, <3>2
  <2>4. Kept(s, t, o, p, m.arg) BY <2>2, <2>3, <1>2
  <2> QED BY <2>1, <2>2, <2>4, <1>2 DEF Kept
<1>8. Waiting(t)
  <2>1. \A j \in DOMAIN t.owner : Unanswered(t, t.owner[j]) BY <1>7 DEF Unanswered
  <2>2. \A j \in DOMAIN t.owner : Once(t.owner[j]) BY <1>1, <1>2 DEF Waiting
  <2>3. \A j, l \in DOMAIN t.owner : j # l =>
          \A m \in Letters(t.owner[j]) : m \notin Letters(t.owner[l])
    BY <1>1, <1>5, <1>7
  <2> QED BY <2>1, <2>2, <2>3 DEF Waiting
<1>9. ASSUME NEW r \in t.gate.inflight
      PROVE  t.answers[r] = 0 /\ \E j \in DOMAIN t.owner : Carries(t.owner[j], r)
  <2>1. r \in DOMAIN s.answers BY <1>2
  <2>2. CASE Kept(s, t, o, p, r)
    <3>1. t.answers[r] = s.answers[r] /\ r \in s.gate.inflight /\ (Carries(o, r) => Carries(p, r))
      BY <2>2, <1>9 DEF Kept
    <3>2. s.answers[r] = 0 /\ \E j \in DOMAIN s.owner : Carries(s.owner[j], r)
      BY <3>1 DEF Flights
    <3> QED BY <3>1, <3>2, <1>1
  <2>3. CASE Posted(s, t, o, p, r)
    <3>1. Message("send", r) \in Letters(o) BY <2>3 DEF Posted
    <3>2. s.answers[r] = 0 BY <3>1, <1>4, <1>6
    <3> QED BY <2>3, <3>2, <1>1 DEF Posted
  <2>4. ~Replied(s, t, o, p, r) BY <1>9 DEF Replied
  <2> QED BY <2>1, <2>2, <2>3, <2>4, <1>2
<1>10. Flights(t)
  <2>1. \A j \in DOMAIN t.owner : t.owner[j].sends \subseteq DOMAIN t.answers
    BY <1>1, <1>2 DEF Flights
  <2> QED BY <2>1, <1>2, <1>9 DEF Flights
<1>11. ASSUME NEW r \in DOMAIN t.answers
       PROVE  \/ t.answers[r] = 1
              \/ /\ t.answers[r] = 0
                 /\ \/ r \in t.gate.inflight
                    \/ \E j \in DOMAIN t.owner : Message("send", r) \in Letters(t.owner[j])
  <2>1. r \in DOMAIN s.answers BY <1>2
  <2>2. \/ s.answers[r] = 1
        \/ /\ s.answers[r] = 0
           /\ \/ r \in s.gate.inflight
              \/ \E j \in DOMAIN s.owner : Message("send", r) \in Letters(s.owner[j])
    BY <2>1 DEF Answered
  <2>3. CASE Kept(s, t, o, p, r) BY <2>2, <2>3, <1>1 DEF Kept
  <2>4. CASE Replied(s, t, o, p, r)
    <3>1. s.answers[r] = 0
      <4>1. CASE r \in s.gate.inflight BY <4>1 DEF Flights
      <4>2. CASE Message("send", r) \in Letters(o) BY <4>2, <1>4, <1>6
      <4> QED BY <4>1, <4>2, <2>4 DEF Replied
    <3> QED BY <2>4, <3>1 DEF Replied
  <2>5. CASE Posted(s, t, o, p, r)
    <3>1. s.answers[r] = 0 BY <2>5, <1>4, <1>6 DEF Posted
    <3> QED BY <2>5, <3>1 DEF Posted
  <2> QED BY <2>1, <2>3, <2>4, <2>5, <1>2
<1> QED BY <1>8, <1>10, <1>11 DEF Answered

(* What a step of an owner has to keep.                                     *)
LEMMA MovesKeep ==
  ASSUME NEW s, NEW t, NEW k \in DOMAIN s.owner, NEW p,
         MostInv(s), Moves(s, t, k, p), SendsMove(s, t, s.owner[k], p),
         OrderOf(p, k = s.session, s.closed),
         Closer(p) => Closer(s.owner[k]),
         s.closed /\ k = Newest(s) /\ s.gate.epoch = k => StopsAt(t, p),
         t.stops = s.stops \/ (s.closed /\ k = Newest(s) /\ s.gate.epoch = k),
         t.account = "unlinked" => s.account = "unlinked" \/ ~t.gate.open,
         ~t.gate.open /\ ~t.lateLinked /\ ~s.closed => t.account = "unlinked",
         t.account = "linked" /\ ~t.lateLinked =>
            (s.account = "linked" /\ ~s.lateLinked) \/ s.session \in {0, k},
         RowOf(t, k, p)
  PROVE  MostInv(t)
<1>1. /\ s \in State /\ Places(s) /\ Stops(s) /\ Ordered(s)
      /\ Flights(s) /\ Waiting(s) /\ Answered(s) /\ RowIs(s)
  BY DEF MostInv
<1>2. /\ t \in State /\ DOMAIN t.owner = DOMAIN s.owner /\ Newest(t) = Newest(s)
      /\ t.owner[k] = p /\ \A j \in DOMAIN s.owner : j # k => t.owner[j] = s.owner[j]
      /\ t.gate.epoch = s.gate.epoch /\ (t.gate.open => s.gate.open)
      /\ t.gate.open = s.gate.open \/ k = Newest(s)
      /\ t.active = s.active /\ t.session = s.session /\ t.retiring = s.retiring
      /\ t.handle = s.handle /\ t.doing = s.doing /\ t.closing = s.closing
      /\ t.closed = s.closed /\ t.loads = s.loads
  BY DEF Moves, Becomes, SameAdapter
<1>3. Places(t)
  <2>1. Len(t.answers) = Len(s.answers)
    <3>1. s.answers \in Seq(Nat) /\ t.answers \in Seq(Nat) /\ DOMAIN t.answers = DOMAIN s.answers
      BY <1>1, <1>2 DEF State, SendsMove
    <3> QED BY <3>1, LenProperties
  <2> QED BY <1>1, <1>2, <2>1 DEF Places
<1>4. Stops(t)
  <2>1. ~t.closed => t.stops = 0 /\ t.closing = 0 BY <1>1, <1>2 DEF Stops
  <2>2. t.closed => t.session = 0 /\ t.retiring = 0 /\ t.handle = 0 /\ t.doing = "none"
    BY <1>1, <1>2 DEF Stops
  <2>3. \A j \in DOMAIN t.owner : Closer(t.owner[j]) =>
           t.closed /\ j = Newest(t) /\ t.gate.epoch = j
    BY <1>1, <1>2 DEF Stops
  <2>4. t.closed /\ t.gate.epoch # Newest(t) => t.stops = 1 /\ t.closing = 0 /\ ~t.gate.open
    BY <1>1, <1>2 DEF Stops
  <2>5. ASSUME t.closed, t.gate.epoch = Newest(t)
        PROVE  Newest(t) # 0 /\ StopsAt(t, t.owner[Newest(t)])
    <3>1. Newest(s) # 0 /\ StopsAt(s, s.owner[Newest(s)]) BY <1>1, <1>2, <2>5 DEF Stops
    <3>2. Newest(s) \in DOMAIN s.owner BY <1>1, <3>1, OwnerTypes
    <3>3. StopsAt(t, t.owner[Newest(s)])
      <4>1. CASE k = Newest(s) BY <4>1, <1>2, <2>5
      <4>2. CASE k # Newest(s)
        <5>1. t.stops = s.stops /\ t.owner[Newest(s)] = s.owner[Newest(s)]
          BY <4>2, <3>2, <1>2
        <5> QED BY <5>1, <3>1, <1>2 DEF StopsAt
      <4> QED BY <4>1, <4>2
    <3> QED BY <3>1, <3>3, <1>2
  <2> QED BY <2>1, <2>2, <2>3, <2>4, <2>5 DEF Stops
<1>5. Ordered(t) BY <1>1, <1>2 DEF Ordered
<1>6. Flights(t) /\ Waiting(t) /\ Answered(t) BY <1>1, SendsMoveKeeps DEF Moves
<1>7. RowIs(t)
  <2>0. k # 0 /\ Newest(s) # 0 BY <1>1, OwnerTypes DEF Newest
  <2>1. ASSUME NEW j \in DOMAIN t.owner PROVE RowOf(t, j, t.owner[j])
    <3>1. CASE j = k BY <3>1, <1>2
    <3>2. CASE j # k
      <4>1. RowOf(s, j, s.owner[j]) /\ t.owner[j] = s.owner[j] /\ j # 0
        BY <3>2, <1>1, <1>2, <2>1, OwnerTypes DEF RowIs
      <4>2. s.session \in {0, Newest(s)} BY <1>1 DEF Places
      <4> QED BY <3>2, <4>1, <4>2, <1>2 DEF RowOf
    <3> QED BY <3>1, <3>2
  <2> QED BY <2>0, <2>1, <1>1, <1>2 DEF RowIs
<1> QED BY <1>2, <1>3, <1>4, <1>5, <1>6, <1>7 DEF MostInv

LEMMA MovesLeave ==
  ASSUME NEW s, NEW t, NEW k \in DOMAIN s.owner, NEW p,
         s \in State, Moves(s, t, k, p), Leaving(s),
         NeedsEnd(t) => NeedsEnd(s),
         NeedsEnd(s) /\ k = Newest(s) =>
            (Leaves(s.owner[k], s.active) => Leaves(p, s.active))
  PROVE  Leaving(t)
<1>1. /\ t.owner[k] = p /\ \A j \in DOMAIN s.owner : j # k => t.owner[j] = s.owner[j]
      /\ Newest(t) = Newest(s) /\ t.active = s.active /\ t.doing = s.doing
  BY DEF Moves, Becomes, SameAdapter
<1>2. Newest(s) \in DOMAIN s.owner
  <2>1. k # 0 /\ (Newest(s) # 0 => Newest(s) \in DOMAIN s.owner) /\ Newest(s) \in Nat
        /\ DOMAIN s.owner = 1 .. Newest(s)
    BY OwnerTypes DEF Newest
  <2> QED BY <2>1
<1> QED BY <1>1, <1>2 DEF Leaving
(* An owner that changes alone keeps the invariant when it keeps its part.  *)
LEMMA OnlyKeeps ==
  ASSUME NEW s, NEW t, NEW k \in DOMAIN s.owner, NEW p,
         MostInv(s), Only(s, t, k, p),
         OrderOf(p, k = s.session, s.closed),
         p.sends \subseteq DOMAIN s.answers,
         \A r \in s.gate.inflight : Carries(s.owner[k], r) => Carries(p, r),
         Letters(p) = Letters(s.owner[k]), Once(p),
         Closer(p) => Closer(s.owner[k]),
         s.closed /\ k = Newest(s) /\ s.gate.epoch = k => StopsAt(s, p),
         RowOf(s, k, p)
  PROVE  MostInv(t)
<1> DEFINE o == s.owner[k]
<1>1. /\ s \in State /\ Stops(s) /\ RowIs(s) /\ Flights(s) BY DEF MostInv
<1>2. /\ t \in State /\ p \in OwnerState /\ SameAdapter(s, t) /\ Becomes(s, t, k, p)
      /\ t.gate = s.gate /\ t.account = s.account /\ t.stops = s.stops
      /\ t.answers = s.answers /\ t.lateLinked = s.lateLinked /\ t.closing = s.closing
      /\ t.closed = s.closed /\ t.session = s.session /\ Newest(t) = Newest(s)
  BY DEF Only, SameGate, SameTalk, SameAdapter, Becomes
<1>3. Moves(s, t, k, p) BY <1>2 DEF Moves
<1>4. SendsMove(s, t, o, p)
  <2>1. \A r \in DOMAIN s.answers : Kept(s, t, o, p, r) BY <1>2 DEF Kept
  <2>2. s.gate.inflight \subseteq DOMAIN s.answers /\ (s.gate.inflight # {} => s.gate.open)
    BY <1>1 DEF Flights
  <2> QED BY <1>2, <2>1, <2>2 DEF SendsMove
<1>5. s.closed /\ k = Newest(s) /\ s.gate.epoch = k => StopsAt(t, p) BY <1>2 DEF StopsAt
<1>6. RowOf(t, k, p) BY <1>2 DEF RowOf
<1>8. /\ t.account = "unlinked" => s.account = "unlinked" \/ ~t.gate.open
      /\ ~t.gate.open /\ ~t.lateLinked /\ ~s.closed => t.account = "unlinked"
      /\ t.account = "linked" /\ ~t.lateLinked => s.account = "linked" /\ ~s.lateLinked
  BY <1>1, <1>2 DEF RowIs
<1> QED BY <1>2, <1>3, <1>4, <1>5, <1>6, <1>8, MovesKeep

(* The account still unlinks.                                               *)
LEMMA OnlyLeaves ==
  ASSUME NEW s, NEW t, NEW k \in DOMAIN s.owner, NEW p,
         s \in State, Only(s, t, k, p), Leaving(s),
         NeedsEnd(s) /\ k = Newest(s) =>
            (Leaves(s.owner[k], s.active) => Leaves(p, s.active))
  PROVE  Leaving(t)
<1>1. Moves(s, t, k, p) BY DEF Only, SameGate, Moves
<1>2. NeedsEnd(t) = NeedsEnd(s) BY DEF Only, SameAdapter, SameTalk, NeedsEnd
<1> QED BY <1>1, <1>2, MovesLeave

(* Nothing waits at the owner that needs an answer.                         *)
Silent(o) ==
    o.at = NoMessage /\ \A m \in Elems(o.queue) : m.type \notin {"send", "disconnect"}

(* An owner that got a task, or heard of its end.                           *)
Mild(o, p) ==
    /\ p.queue = o.queue /\ p.at = o.at /\ p.sends = o.sends /\ p.ready = o.ready
    /\ p.revoked = o.revoked /\ p.leaving = o.leaving /\ p.shutdown = o.shutdown
    /\ p.closed = o.closed /\ p.stopped = o.stopped /\ p.done = o.done
    /\ o.tasks \subseteq p.tasks /\ (o.retired => p.retired) /\ (p.hold => o.hold)

MayMild(s, k, o, p) ==
    /\ p.retired = o.retired \/ k # s.session
    /\ p.tasks = o.tasks \/ HasSender(s, k)
    /\ Ended(p) => Ended(o) \/ (k # s.session /\ Silent(o))

Grows(s, t, k) ==
    \E p : Only(s, t, k, p) /\ Mild(s.owner[k], p) /\ MayMild(s, k, s.owner[k], p)

LEMMA GrowsKeeps ==
  ASSUME NEW s, NEW t, NEW k \in DOMAIN s.owner, MostInv(s), Grows(s, t, k)
  PROVE  MostInv(t) /\ (Leaving(s) => Leaving(t))
<1> DEFINE o == s.owner[k]
<1>0. PICK p : Only(s, t, k, p) /\ Mild(o, p) /\ MayMild(s, k, o, p) BY DEF Grows
<1>1. /\ s \in State /\ Places(s) /\ Stops(s) /\ OrderOf(o, k = s.session, s.closed)
      /\ o.sends \subseteq DOMAIN s.answers /\ Once(o) /\ RowOf(s, k, o)
      /\ p \in OwnerState /\ o \in OwnerState
  BY <1>0, OwnerTypes DEF MostInv, Ordered, Flights, Waiting, RowIs, Only
<1>2. /\ p.queue = o.queue /\ p.at = o.at /\ p.sends = o.sends /\ p.ready = o.ready
      /\ p.revoked = o.revoked /\ p.leaving = o.leaving /\ p.shutdown = o.shutdown
      /\ p.closed = o.closed /\ p.stopped = o.stopped /\ p.done = o.done
      /\ o.tasks \subseteq p.tasks /\ (o.retired => p.retired) /\ (p.hold => o.hold)
      /\ Ended(p) => Ended(o) \/ (k # s.session /\ Silent(o))
      /\ p.retired = o.retired \/ k # s.session
      /\ p.tasks = o.tasks \/ HasSender(s, k)
  BY <1>0 DEF Mild, MayMild
<1> HIDE DEF o
<1>3. OrderOf(p, k = s.session, s.closed)
  <2>1. k = s.session => p.retired = o.retired BY <1>2
  <2>2. NoMessage.type = "none" BY DEF NoMessage, Message
  <2>3. Silent(o) => o.at.type # "send" BY <2>2 DEF Silent
  <2> QED BY <1>1, <1>2, <2>1, <2>3 DEF OrderOf, Silent
<1>4. \A r \in s.gate.inflight : Carries(o, r) => Carries(p, r) BY <1>2 DEF Carries
<1>5. Letters(p) = Letters(o) BY <1>2 DEF Letters
<1>6. Once(p) BY <1>1, <1>2 DEF Once
<1>7. Closer(p) => Closer(o) BY <1>2 DEF Closer
<1>8. ASSUME s.closed, k = Newest(s), s.gate.epoch = k PROVE StopsAt(s, p)
  <2>1. StopsAt(s, o) BY <1>1, <1>8 DEF Stops, o
  <2>2. Lost(o) => Lost(p)
    <3> SUFFICES ASSUME Lost(o) PROVE Lost(p) OBVIOUS
    <3>1. s.session = 0 /\ s.retiring = 0 /\ s.handle = 0 /\ k # 0
      BY <1>1, <1>8, OwnerTypes DEF Stops
    <3>2. ~HasSender(s, k) BY <3>1 DEF HasSender, Lost, o
    <3> QED BY <1>2, <3>2 DEF Lost
  <2> QED BY <2>1, <2>2, <1>2 DEF StopsAt
<1>9. RowOf(s, k, p) BY <1>1, <1>2 DEF RowOf
<1>10. MostInv(t)
  BY <1>0, <1>1, <1>2, <1>3, <1>4, <1>5, <1>6, <1>7, <1>8, <1>9, OnlyKeeps DEF o
<1>11. Leaves(o, s.active) => Leaves(p, s.active) BY <1>2 DEF Leaves
<1>12. Leaving(s) => Leaving(t) BY <1>0, <1>1, <1>11, OnlyLeaves DEF o
<1> QED BY <1>10, <1>12

(* What an owner that grows keeps.                                          *)
LEMMA GrowsParts ==
  ASSUME NEW s, NEW t, NEW k \in DOMAIN s.owner, Grows(s, t, k)
  PROVE  /\ t \in State /\ DOMAIN t.owner = DOMAIN s.owner /\ Newest(t) = Newest(s)
         /\ SameGate(s, t) /\ SameAdapter(s, t) /\ SameTalk(s, t)
         /\ Mild(s.owner[k], t.owner[k])
         /\ \A j \in DOMAIN s.owner : j # k => t.owner[j] = s.owner[j]
         /\ Silent(t.owner[k]) <=> Silent(s.owner[k])
BY DEF Grows, Only, Becomes, Mild, Silent

LEMMA GrowsTwice ==
  ASSUME NEW s, NEW u, NEW t, NEW k \in DOMAIN s.owner, Grows(s, u, k), Grows(u, t, k)
  PROVE  Grows(s, t, k)
<1> DEFINE o == s.owner[k]
<1>1. PICK p : Only(s, u, k, p) /\ Mild(o, p) /\ MayMild(s, k, o, p) BY DEF Grows
<1>2. p = u.owner[k] BY <1>1 DEF Only, Becomes
<1>3. PICK q : Only(u, t, k, q) /\ Mild(p, q) /\ MayMild(u, k, p, q) BY <1>2 DEF Grows
<1>4. Only(s, t, k, q) BY <1>1, <1>3 DEF Only, Becomes, SameGate, SameAdapter, SameTalk
<1> HIDE DEF o
<1>5. Mild(o, q) BY <1>1, <1>3 DEF Mild
<1>6. u.session = s.session /\ u.retiring = s.retiring /\ u.handle = s.handle
  BY <1>1 DEF Only, SameAdapter
<1>7. HasSender(u, k) => HasSender(s, k) \/ p.tasks # o.tasks
  BY <1>1, <1>2, <1>6 DEF HasSender, Mild, o
<1>8. Silent(p) => Silent(o) BY <1>1 DEF Mild, Silent
<1>9. MayMild(s, k, o, q) BY <1>1, <1>3, <1>6, <1>7, <1>8 DEF MayMild
<1> QED BY <1>4, <1>5, <1>9 DEF Grows, o

(* A step that changes nothing.                                             *)
LEMMA GrowsNot ==
  ASSUME NEW s, s \in State, NEW k \in DOMAIN s.owner
  PROVE  Grows(s, s, k)
<1>1. Only(s, s, k, s.owner[k])
  BY OwnerTypes DEF Only, Becomes, SameGate, SameAdapter, SameTalk
<1>2. Mild(s.owner[k], s.owner[k]) /\ MayMild(s, k, s.owner[k], s.owner[k])
  BY DEF Mild, MayMild
<1> QED BY <1>1, <1>2 DEF Grows

LEMMA SpawnGrows ==
  ASSUME NEW s, s \in State, NEW k \in DOMAIN s.owner, NEW task \in Tasks
  PROVE  /\ Grows(s, Spawn(s, k, task), k)
         /\ HasSender(s, k) => task \in Spawn(s, k, task).owner[k].tasks
<1> DEFINE o == s.owner[k]
           ts == o.tasks \cup {task}
           p == [o EXCEPT !.tasks = ts]
<1>1. o \in OwnerState BY OwnerTypes
<1>2. CASE HasSender(s, k)
  <2>1. ts \in SUBSET Tasks
    <3>1. o.tasks \in SUBSET Tasks BY <1>1 DEF OwnerState
    <3> QED BY <3>1
  <2>2. Spawn(s, k, task) = SetOwner(s, k, p) BY <1>2 DEF Spawn, SetOwner, State
  <2> HIDE DEF ts, o
  <2>3. /\ p \in OwnerState /\ p.tasks = ts /\ p.queue = o.queue /\ p.at = o.at
        /\ p.sends = o.sends /\ p.ready = o.ready
        /\ p.revoked = o.revoked /\ p.leaving = o.leaving /\ p.shutdown = o.shutdown
        /\ p.closed = o.closed /\ p.stopped = o.stopped /\ p.done = o.done
        /\ p.retired = o.retired /\ p.hold = o.hold /\ p.end = o.end
    BY <1>1, <2>1 DEF OwnerState
  <2> HIDE DEF p
  <2>4. Only(s, Spawn(s, k, task), k, p) BY <2>2, <2>3, SetOwnerParts
  <2>5. o.tasks \subseteq ts /\ task \in ts BY DEF ts
  <2>6. Mild(o, p) BY <2>3, <2>5 DEF Mild
  <2>7. MayMild(s, k, o, p) BY <1>2, <2>3 DEF MayMild, Ended
  <2>8. Spawn(s, k, task).owner[k] = p BY <2>4 DEF Only, Becomes
  <2> QED BY <2>3, <2>4, <2>5, <2>6, <2>7, <2>8 DEF o, Grows
<1>3. CASE ~HasSender(s, k)
  <2>1. Spawn(s, k, task) = s BY <1>3 DEF Spawn
  <2> QED BY <1>3, <2>1, GrowsNot
<1> QED BY <1>2, <1>3

(* The fields that the invariant does not read.                             *)
LEMMA UnreadGrows ==
  ASSUME NEW s, s \in State, NEW k \in DOMAIN s.owner,
         NEW w \in Nat, NEW n \in Nat, NEW u \in {"none", "wait", "seal"}, NEW b \in BOOLEAN
  PROVE  /\ Grows(s, [s EXCEPT !.owner[k].waits = w], k)
         /\ Grows(s, [s EXCEPT !.owner[k].ticket = n], k)
         /\ Grows(s, [s EXCEPT !.owner[k].unlink = u], k)
         /\ Grows(s, [s EXCEPT !.owner[k].settleArmed = b], k)
<1> DEFINE o == s.owner[k]
<1>1. o \in OwnerState BY OwnerTypes
<1>2. ASSUME NEW p \in {[o EXCEPT !.waits = w], [o EXCEPT !.ticket = n],
                        [o EXCEPT !.unlink = u], [o EXCEPT !.settleArmed = b]}
      PROVE  Grows(s, SetOwner(s, k, p), k)
  <2> HIDE DEF o
  <2>1. p \in OwnerState BY <1>1, <1>2 DEF OwnerState
  <2>2. /\ p.tasks = o.tasks /\ p.queue = o.queue /\ p.at = o.at
        /\ p.sends = o.sends /\ p.ready = o.ready
        /\ p.revoked = o.revoked /\ p.leaving = o.leaving /\ p.shutdown = o.shutdown
        /\ p.closed = o.closed /\ p.stopped = o.stopped /\ p.done = o.done
        /\ p.retired = o.retired /\ p.hold = o.hold /\ p.end = o.end
    BY <1>1, <1>2 DEF OwnerState
  <2>3. Mild(o, p) /\ MayMild(s, k, o, p) BY <2>2 DEF Mild, MayMild, Ended
  <2> QED BY <2>1, <2>3, SetOwnerParts DEF Grows, o
<1>3. /\ [s EXCEPT !.owner[k].waits = w] = SetOwner(s, k, [o EXCEPT !.waits = w])
      /\ [s EXCEPT !.owner[k].ticket = n] = SetOwner(s, k, [o EXCEPT !.ticket = n])
      /\ [s EXCEPT !.owner[k].unlink = u] = SetOwner(s, k, [o EXCEPT !.unlink = u])
      /\ [s EXCEPT !.owner[k].settleArmed = b] = SetOwner(s, k, [o EXCEPT !.settleArmed = b])
  BY DEF SetOwner
<1> QED BY <1>2, <1>3

(* The 401 step, and the seal that it starts.                               *)
LEMMA StartSealGrows ==
  ASSUME NEW s, s \in State, NEW k \in DOMAIN s.owner
  PROVE  Grows(s, StartSeal(s, k), k)
<1> DEFINE u == [s EXCEPT !.owner[k].unlink = "seal"]
<1>1. Grows(s, u, k) BY UnreadGrows
<1>2. Message("seal", 0) \in Tasks BY DEF Message, Tasks, TaskTypes
<1>3. StartSeal(s, k) = Spawn(u, k, Message("seal", 0)) BY DEF StartSeal
<1> HIDE DEF u
<1>4. u \in State /\ k \in DOMAIN u.owner BY <1>1, GrowsParts
<1>5. Grows(u, Spawn(u, k, Message("seal", 0)), k) BY <1>2, <1>4, SpawnGrows
<1> QED BY <1>1, <1>3, <1>5, GrowsTwice

LEMMA SettleGrows ==
  ASSUME NEW s, s \in State, NEW k \in DOMAIN s.owner
  PROVE  Grows(s, SettleUnauthorized(s, k), k)
<1> DEFINE u == [s EXCEPT !.owner[k].unlink = "wait"]
<1>1. Grows(s, u, k) BY UnreadGrows
<1>2. Message("sendWait", 0) \in Tasks BY DEF Message, Tasks, TaskTypes
<1> HIDE DEF u
<1>4. u \in State /\ k \in DOMAIN u.owner BY <1>1, GrowsParts
<1>5. Grows(u, Spawn(u, k, Message("sendWait", 0)), k) BY <1>2, <1>4, SpawnGrows
<1>6. Grows(s, Spawn(u, k, Message("sendWait", 0)), k) BY <1>1, <1>5, GrowsTwice
<1> QED BY <1>6, StartSealGrows, GrowsNot DEF SettleUnauthorized, u

(* One of these fields changes after the end of the session.                *)
LEMMA EndGrows ==
  ASSUME NEW s, s \in State, NEW k \in DOMAIN s.owner,
         NEW e \in {"none", "unlinked", "stopped"}
  PROVE  /\ Ended(s.owner[k]) \/ (k # s.session /\ Silent(s.owner[k])) =>
               /\ Grows(s, [s EXCEPT !.owner[k].hold = FALSE], k)
               /\ Grows(s, [s EXCEPT !.owner[k].settleArmed = TRUE, !.owner[k].end = e], k)
         /\ k # s.session => Grows(s, RetireOwner(s, k), k)
<1> DEFINE o == s.owner[k]
           no == FALSE
           yes == TRUE
           ph == [o EXCEPT !.hold = no]
           pe == [o EXCEPT !.settleArmed = yes, !.end = e]
           pr == [o EXCEPT !.retired = yes, !.unlink = "none"]
<1>1. o \in OwnerState /\ s.owner \in Seq(OwnerState) BY OwnerTypes
<1>2. /\ [s EXCEPT !.owner[k].hold = FALSE] = SetOwner(s, k, ph)
      /\ [s EXCEPT !.owner[k].settleArmed = TRUE, !.owner[k].end = e] = SetOwner(s, k, pe)
      /\ RetireOwner(s, k) = SetOwner(s, k, pr)
  BY <1>1 DEF SetOwner, RetireOwner, State
<1>3. no \in BOOLEAN /\ yes \in BOOLEAN /\ ~no /\ yes OBVIOUS
<1> HIDE DEF o, no, yes
<1>4. ASSUME NEW p \in {ph, pe, pr}
      PROVE  /\ p \in OwnerState
             /\ p.tasks = o.tasks /\ p.queue = o.queue /\ p.at = o.at
             /\ p.sends = o.sends /\ p.ready = o.ready
             /\ p.revoked = o.revoked /\ p.leaving = o.leaving /\ p.shutdown = o.shutdown
             /\ p.closed = o.closed /\ p.stopped = o.stopped /\ p.done = o.done
  <2>1. CASE p = ph BY <1>1, <1>3, <2>1 DEF OwnerState
  <2>2. CASE p = pe BY <1>1, <1>3, <2>2 DEF OwnerState
  <2>3. CASE p = pr BY <1>1, <1>3, <2>3 DEF OwnerState
  <2> QED BY <1>4, <2>1, <2>2, <2>3
<1>5. /\ ph.retired = o.retired /\ ph.hold = no /\ ph.end = o.end
      /\ pe.retired = o.retired /\ pe.hold = o.hold /\ pe.end = e
      /\ pr.retired = yes /\ pr.hold = o.hold /\ pr.end = o.end
  BY <1>1, <1>3 DEF OwnerState
<1> HIDE DEF ph, pe, pr
<1>6. Mild(o, ph) /\ Mild(o, pe) /\ Mild(o, pr)
  <2>1. \A p \in {ph, pe, pr} : (o.retired => p.retired) /\ (p.hold => o.hold)
    BY <1>3, <1>5
  <2> QED BY <1>4, <2>1 DEF Mild
<1>7. k # s.session => MayMild(s, k, o, pr)
  <2>1. Ended(pr) => Ended(o) BY <1>4, <1>5 DEF Ended
  <2> QED BY <1>4, <2>1 DEF MayMild
<1>8. Ended(o) \/ (k # s.session /\ Silent(o)) => MayMild(s, k, o, ph) /\ MayMild(s, k, o, pe)
  BY <1>4, <1>5 DEF MayMild
<1>9. \A p \in {ph, pe, pr} : Only(s, SetOwner(s, k, p), k, p) BY <1>4, SetOwnerParts
<1> QED BY <1>2, <1>6, <1>7, <1>8, <1>9 DEF Grows, o

LEMMA ArmGrows ==
  ASSUME NEW s, s \in State, NEW k \in DOMAIN s.owner,
         NEW e \in {"none", "unlinked", "stopped"},
         Ended(s.owner[k]) \/ (k # s.session /\ Silent(s.owner[k]))
  PROVE  Grows(s, ArmSettle(s, k, e), k)
<1> DEFINE u == [s EXCEPT !.owner[k].settleArmed = TRUE, !.owner[k].end = e]
<1>1. Grows(s, u, k) BY EndGrows, Zenon
<1>2. Message("settle", 0) \in Tasks BY DEF Message, Tasks, TaskTypes
<1>3. ArmSettle(s, k, e) = s \/ ArmSettle(s, k, e) = Spawn(u, k, Message("settle", 0))
  BY DEF ArmSettle
<1> HIDE DEF u
<1>4. u \in State /\ k \in DOMAIN u.owner BY <1>1, GrowsParts
<1>5. Grows(u, Spawn(u, k, Message("settle", 0)), k) BY <1>2, <1>4, SpawnGrows
<1> QED BY <1>1, <1>3, <1>5, GrowsTwice, GrowsNot

(* The channels go to another owner, which then listens.                    *)
LEMMA HandOffKeeps ==
  ASSUME NEW s, NEW k \in DOMAIN s.owner, NEW n \in Nat, MostInv(s)
  PROVE  LET t == HandOff(s, n)
         IN  /\ MostInv(t) /\ (Leaving(s) => Leaving(t))
             /\ t.session = s.session /\ t.gate = s.gate /\ k \in DOMAIN t.owner
             /\ Silent(t.owner[k]) <=> Silent(s.owner[k])
             /\ t.owner[k].closed = s.owner[k].closed
<1> DEFINE t == HandOff(s, n)
<1>1. s \in State BY DEF MostInv
<1>2. CASE n \in DOMAIN s.owner
  <2>1. n # 0 BY <1>1, <1>2, OwnerTypes
  <2>2. t = [s EXCEPT !.owner[n].waits = 0] BY <2>1 DEF HandOff, NoSession
  <2>3. Grows(s, t, n)
    <3> DEFINE z == 0
    <3>1. z \in Nat /\ t = [s EXCEPT !.owner[n].waits = z] BY <2>2
    <3> HIDE DEF z, t
    <3> QED BY <1>1, <1>2, <3>1, UnreadGrows
  <2> HIDE DEF t
  <2>4. MostInv(t) /\ (Leaving(s) => Leaving(t)) BY <1>2, <2>3, GrowsKeeps
  <2>5. CASE k = n BY <1>2, <2>3, <2>4, <2>5, GrowsParts DEF SameAdapter, SameGate, Mild, t
  <2>6. CASE k # n BY <1>2, <2>3, <2>4, <2>6, GrowsParts DEF SameAdapter, SameGate, t
  <2> QED BY <2>5, <2>6
<1>3. CASE n \notin DOMAIN s.owner
  <2>1. [s.owner EXCEPT ![n] = [s.owner[n] EXCEPT !.waits = 0]] = s.owner
    BY <1>1, <1>3, OwnerTypes
  <2>2. [s EXCEPT !.owner = s.owner] = s BY <1>1 DEF State
  <2>3. t = s \/ t = [s EXCEPT !.owner[n].waits = 0] BY DEF HandOff, NoSession
  <2>4. t = s BY <2>1, <2>2, <2>3
  <2> QED BY <2>4
<1> QED BY <1>2, <1>3

-----------------------------------------------------------------------------
(* The owner takes a message.                                               *)
SetQueue(s, k, q) == [s EXCEPT !.owner[k].queue = q]
Less(s, k) == SetQueue(s, k, Tail(s.owner[k].queue))

(* Every field but those of the queue, the tasks and `at`.                  *)
SameFlags(o, p) ==
    /\ p.sends = o.sends /\ p.ready = o.ready /\ p.retired = o.retired
    /\ p.revoked = o.revoked /\ p.leaving = o.leaving /\ p.end = o.end
    /\ p.shutdown = o.shutdown /\ p.closed = o.closed /\ p.stopped = o.stopped
    /\ p.done = o.done /\ p.hold = o.hold

LEMMA SetQueueParts ==
  ASSUME NEW s, s \in State, NEW k \in DOMAIN s.owner, NEW q \in Seq(Messages)
  PROVE  \E p : /\ Only(s, SetQueue(s, k, q), k, p)
                /\ SameFlags(s.owner[k], p) /\ p.queue = q
                /\ p.tasks = s.owner[k].tasks /\ p.at = s.owner[k].at
                /\ p.unlink = s.owner[k].unlink
<1> DEFINE o == s.owner[k]
           p == [o EXCEPT !.queue = q]
<1>1. o \in OwnerState BY OwnerTypes
<1>2. SetQueue(s, k, q) = SetOwner(s, k, p) BY DEF SetOwner, SetQueue
<1> HIDE DEF o
<1>3. /\ p \in OwnerState /\ p.queue = q /\ p.tasks = o.tasks /\ p.at = o.at
      /\ p.unlink = o.unlink
  BY <1>1 DEF OwnerState
<1>4. SameFlags(o, p) BY <1>1 DEF OwnerState, SameFlags
<1> HIDE DEF p
<1>5. Only(s, SetOwner(s, k, p), k, p) BY <1>3, SetOwnerParts
<1> QED BY <1>2, <1>3, <1>4, <1>5 DEF o

LEMMA LessParts ==
  ASSUME NEW s, s \in State, NEW k \in DOMAIN s.owner, s.owner[k].queue # <<>>
  PROVE  LET o == s.owner[k]
         IN  \E p : /\ Only(s, Less(s, k), k, p) /\ SameFlags(o, p)
                    /\ p.queue = Tail(o.queue) /\ p.tasks = o.tasks /\ p.at = o.at
                    /\ p.unlink = o.unlink
                    /\ p.queue \in Seq(Messages) /\ o.queue \in Seq(Messages)
                    /\ Head(o.queue) \in Messages
                    /\ Elems(o.queue) = {Head(o.queue)} \cup Elems(p.queue)
                    /\ EndersLast(o.queue) => EndersLast(p.queue)
                    /\ SendsOnce(o.queue) => SendsOnce(p.queue)
                    /\ EndersLast(o.queue) /\ Head(o.queue).type \in Enders =>
                         \A m \in Elems(p.queue) : m.type \notin {"send", "disconnect"}
                    /\ SendsOnce(o.queue) /\ Head(o.queue).type = "send" =>
                         Head(o.queue) \notin Elems(p.queue)
<1> DEFINE o == s.owner[k]
           q == Tail(o.queue)
<1>1. o.queue \in Seq(Messages) /\ o.queue # <<>> BY OwnerTypes DEF OwnerState
<1>2. /\ q \in Seq(Messages) /\ Head(o.queue) \in Messages
      /\ Elems(o.queue) = {Head(o.queue)} \cup Elems(q)
  BY <1>1, TailParts
<1>3. /\ EndersLast(o.queue) => EndersLast(q)
      /\ SendsOnce(o.queue) => SendsOnce(q)
      /\ EndersLast(o.queue) /\ Head(o.queue).type \in Enders =>
           \A m \in Elems(q) : m.type \notin {"send", "disconnect"}
      /\ SendsOnce(o.queue) /\ Head(o.queue).type = "send" => Head(o.queue) \notin Elems(q)
  BY <1>1, TailOrder
<1>4. Less(s, k) = SetQueue(s, k, q) BY DEF Less
<1> HIDE DEF q
<1>5. PICK p : /\ Only(s, SetQueue(s, k, q), k, p)
               /\ SameFlags(o, p) /\ p.queue = q /\ p.tasks = o.tasks /\ p.at = o.at
               /\ p.unlink = o.unlink
  BY <1>2, SetQueueParts
<1> QED BY <1>1, <1>2, <1>3, <1>4, <1>5 DEF q

(* What an owner knows of a message that it takes.                          *)
LEMMA LessKeeps ==
  ASSUME NEW s, NEW k \in DOMAIN s.owner, MostInv(s),
         s.owner[k].queue # <<>>, s.owner[k].at = NoMessage,
         Head(s.owner[k].queue).type \notin {"send", "shutdown"},
         Head(s.owner[k].queue).type = "post" => s.owner[k].closed
  PROVE  /\ MostInv(Less(s, k))
         /\ Leaving(s)
               /\ (s.owner[k].closed \/ Head(s.owner[k].queue) \notin
                     {Message("disconnect", s.active), Message("disconnectWait", 0)})
               => Leaving(Less(s, k))
<1> DEFINE o == s.owner[k]
           h == Head(o.queue)
           t == Less(s, k)
<1>1. /\ s \in State /\ Places(s) /\ Stops(s) /\ OrderOf(o, k = s.session, s.closed)
      /\ o.sends \subseteq DOMAIN s.answers /\ Once(o) /\ RowOf(s, k, o)
      /\ o \in OwnerState
  BY OwnerTypes DEF MostInv, Ordered, Flights, Waiting, RowIs
<1>2. PICK p : /\ Only(s, t, k, p) /\ SameFlags(o, p)
               /\ p.queue = Tail(o.queue) /\ p.tasks = o.tasks /\ p.at = o.at
               /\ h \in Messages /\ Elems(o.queue) = {h} \cup Elems(p.queue)
               /\ EndersLast(o.queue) => EndersLast(p.queue)
               /\ SendsOnce(o.queue) => SendsOnce(p.queue)
  BY <1>1, LessParts
<1>3. /\ p.sends = o.sends /\ p.ready = o.ready /\ p.retired = o.retired
      /\ p.revoked = o.revoked /\ p.leaving = o.leaving /\ p.end = o.end
      /\ p.shutdown = o.shutdown /\ p.closed = o.closed /\ p.stopped = o.stopped
      /\ p.done = o.done /\ p.hold = o.hold
  BY <1>2 DEF SameFlags
<1>4. /\ o.queue # <<>> /\ o.at = NoMessage /\ h.type \notin {"send", "shutdown"}
      /\ h.type = "post" => o.closed
      /\ NoMessage.type = "none"
  BY DEF NoMessage, Message
<1> HIDE DEF o, h, t
<1>5. OrderOf(p, k = s.session, s.closed)
  <2>1. Ended(p) <=> Ended(o) BY <1>3 DEF Ended
  <2>2. p.at = o.at /\ Elems(p.queue) \subseteq Elems(o.queue)
        /\ (EndersLast(o.queue) => EndersLast(p.queue))
    BY <1>2
  <2> QED BY <1>1, <1>3, <2>1, <2>2 DEF OrderOf
<1>6. \A r \in s.gate.inflight : Carries(o, r) => Carries(p, r)
  BY <1>2, <1>3, <1>4 DEF Carries
<1>7. Letters(p) = Letters(o) BY <1>2, <1>4 DEF Letters
<1>8. Once(p) BY <1>1, <1>2, <1>4 DEF Once
<1>9. Closer(p) => Closer(o) BY <1>2, <1>3 DEF Closer
<1>10. ASSUME s.closed, k = Newest(s), s.gate.epoch = k PROVE StopsAt(s, p)
  <2>1. StopsAt(s, o) BY <1>1, <1>10 DEF Stops, o
  <2>2. ~Lost(o) BY <1>4 DEF Lost
  <2> QED BY <2>1, <2>2, <1>2, <1>3, <1>4 DEF StopsAt
<1>11. RowOf(s, k, p) BY <1>1, <1>2, <1>3 DEF RowOf
<1>12. MostInv(t)
  BY <1>1, <1>2, <1>3, <1>5, <1>6, <1>7, <1>8, <1>9, <1>10, <1>11, OnlyKeeps DEF o
<1>13. ASSUME Leaving(s),
              o.closed \/ h \notin {Message("disconnect", s.active),
                                    Message("disconnectWait", 0)}
       PROVE  Leaving(t)
  <2>1. ASSUME NeedsEnd(s), k = Newest(s) PROVE Leaves(o, s.active) => Leaves(p, s.active)
    <3>1. ~o.closed
      <4>1. RowIs(s) BY DEF MostInv
      <4>2. o.closed => ~s.gate.open BY <1>1, <2>1 DEF RowOf
      <4> QED BY <4>1, <4>2, <2>1 DEF RowIs, NeedsEnd
    <3>2. h \notin {Message("disconnect", s.active), Message("disconnectWait", 0)}
      BY <3>1, <1>13
    <3> QED BY <1>2, <1>3, <3>2 DEF Leaves
  <2> QED BY <1>1, <1>2, <1>13, <2>1, OnlyLeaves DEF o
<1> QED BY <1>12, <1>13 DEF o, h, t

-----------------------------------------------------------------------------
(* One field of an owner.                                                   *)

LEMMA OnlyTwice ==
  ASSUME NEW s, NEW u, NEW t, NEW k \in DOMAIN s.owner, NEW p, NEW q,
         Only(s, u, k, p), Only(u, t, k, q)
  PROVE  Only(s, t, k, q)
BY DEF Only, Becomes, SameGate, SameAdapter, SameTalk

-----------------------------------------------------------------------------
(* The sends in flight are answered, and the gate is shut.                  *)
Rejected(s, t) ==
    /\ t.gate.inflight = {} /\ DOMAIN t.answers = DOMAIN s.answers
    /\ \A r \in DOMAIN s.answers :
         t.answers[r] = (IF r \in s.gate.inflight THEN s.answers[r] + 1 ELSE s.answers[r])

(* An owner without these sends.                                            *)
Sheds(s, o) == [o EXCEPT !.sends = @ \ s.gate.inflight]

Shut(s, t, k, p) ==
    /\ t \in State /\ p \in OwnerState /\ SameAdapter(s, t) /\ Becomes(s, t, k, p)
    /\ Rejected(s, t) /\ t.gate.open = FALSE /\ t.gate.epoch = s.gate.epoch
    /\ t.lateLinked = s.lateLinked

LEMMA GateIsNewest ==
  ASSUME NEW s, s \in State, Places(s), NEW k \in DOMAIN s.owner, HasGate(s, k)
  PROVE  s.gate.open /\ s.gate.epoch = k /\ k = Newest(s)
<1>1. DOMAIN s.owner = 1 .. Newest(s) /\ Newest(s) \in Nat BY OwnerTypes DEF Newest
<1>2. s.gate.open /\ s.gate.epoch = k BY DEF HasGate
<1>3. k # Newest(s) + 1 BY <1>1
<1> QED BY <1>2, <1>3 DEF Places

LEMMA AnswerParts ==
  ASSUME NEW s, s \in State, NEW rs
  PROVE  LET t == Answer(s, rs)
         IN  /\ t \in State /\ t.owner = s.owner /\ t.gate = s.gate
             /\ SameAdapter(s, t) /\ t.account = s.account /\ t.stops = s.stops
             /\ t.lateLinked = s.lateLinked
             /\ DOMAIN t.answers = DOMAIN s.answers
             /\ \A r \in DOMAIN s.answers :
                  t.answers[r] = (IF r \in rs THEN s.answers[r] + 1 ELSE s.answers[r])
<1> DEFINE a == s.answers
           b == [r \in DOMAIN a |-> IF r \in rs THEN a[r] + 1 ELSE a[r]]
           t == Answer(s, rs)
<1>1. a \in Seq(Nat) BY DEF State
<1>2. t = [s EXCEPT !.answers = b] BY DEF Answer
<1>3. b \in Seq(Nat) /\ DOMAIN b = DOMAIN a
      /\ \A r \in DOMAIN a : b[r] = (IF r \in rs THEN a[r] + 1 ELSE a[r])
  <2> HIDE DEF a
  <2>1. DOMAIN a = 1 .. Len(a) /\ Len(a) \in Nat /\ \A r \in DOMAIN a : a[r] \in Nat
    BY <1>1
  <2>2. \A r \in 1 .. Len(a) : (IF r \in rs THEN a[r] + 1 ELSE a[r]) \in Nat BY <2>1
  <2>3. b \in [1 .. Len(a) -> Nat] BY <2>1, <2>2
  <2> QED BY <2>1, <2>3, SeqDef
<1> HIDE DEF b, t
<1>4. t \in State BY <1>2, <1>3 DEF State
<1>5. t.answers = b BY <1>2 DEF State
<1> QED BY <1>2, <1>3, <1>4, <1>5 DEF State, SameAdapter, t

LEMMA RejectParts ==
  ASSUME NEW s, s \in State, NEW k \in DOMAIN s.owner
  PROVE  LET t == RejectOpen(s, k)
         IN  /\ t \in State /\ SameAdapter(s, t) /\ Becomes(s, t, k, Sheds(s, s.owner[k]))
             /\ Sheds(s, s.owner[k]) \in OwnerState /\ Rejected(s, t)
             /\ t.gate.open = s.gate.open /\ t.gate.epoch = s.gate.epoch
             /\ t.account = s.account /\ t.stops = s.stops /\ t.lateLinked = s.lateLinked
<1> DEFINE o == s.owner[k]
           p == Sheds(s, o)
           u == Answer(s, s.gate.inflight)
           v == SetOwner(u, k, p)
           none == {}
           t == [v EXCEPT !.gate.inflight = none]
<1>1. /\ u \in State /\ u.owner = s.owner /\ u.gate = s.gate
      /\ SameAdapter(s, u) /\ u.account = s.account /\ u.stops = s.stops
      /\ u.lateLinked = s.lateLinked
      /\ DOMAIN u.answers = DOMAIN s.answers
      /\ \A r \in DOMAIN s.answers :
           u.answers[r] = (IF r \in s.gate.inflight THEN s.answers[r] + 1 ELSE s.answers[r])
  BY AnswerParts
<1>2. p \in OwnerState
  <2>1. o \in OwnerState BY OwnerTypes
  <2> HIDE DEF o
  <2> QED BY <2>1 DEF OwnerState, Sheds
<1>3. RejectOpen(s, k) = t BY <1>1 DEF RejectOpen, SetOwner, State, Sheds
<1> HIDE DEF u, p
<1>4. Only(u, v, k, p) BY <1>1, <1>2, SetOwnerParts
<1> HIDE DEF v
<1>5. none \in SUBSET Nat OBVIOUS
<1>6. /\ t \in State /\ t.gate.inflight = none
      /\ t.gate.open = v.gate.open /\ t.gate.epoch = v.gate.epoch
      /\ t.owner = v.owner /\ SameAdapter(v, t) /\ SameTalk(v, t)
  <2> HIDE DEF none
  <2> QED BY <1>4, <1>5 DEF Only, State, SameAdapter, SameTalk
<1> HIDE DEF t
<1>7. SameAdapter(s, t) BY <1>1, <1>4, <1>6 DEF Only, SameAdapter
<1>8. Becomes(s, t, k, p) BY <1>1, <1>4, <1>6 DEF Only, Becomes, Newest
<1>9. Rejected(s, t) BY <1>1, <1>4, <1>6 DEF Only, SameTalk, Rejected
<1>10. /\ t.gate.open = s.gate.open /\ t.gate.epoch = s.gate.epoch
       /\ t.account = s.account /\ t.stops = s.stops /\ t.lateLinked = s.lateLinked
  BY <1>1, <1>4, <1>6 DEF Only, SameTalk, SameGate
<1> QED BY <1>2, <1>3, <1>6, <1>7, <1>8, <1>9, <1>10 DEF p

LEMMA CloseGateParts ==
  ASSUME NEW s, s \in State, NEW k \in DOMAIN s.owner
  PROVE  /\ Shut(s, CloseGate(s, k), k, Sheds(s, s.owner[k]))
         /\ CloseGate(s, k).account = s.account /\ CloseGate(s, k).stops = s.stops
         /\ Shut(s, Unlink(s, k), k, Sheds(s, s.owner[k]))
         /\ Unlink(s, k).account = "unlinked" /\ Unlink(s, k).stops = s.stops
<1> DEFINE u == RejectOpen(s, k)
           p == Sheds(s, s.owner[k])
           no == FALSE
           t == [u EXCEPT !.gate.open = no]
           gone == "unlinked"
           v == [t EXCEPT !.account = gone]
<1>1. /\ u \in State /\ SameAdapter(s, u) /\ Becomes(s, u, k, p)
      /\ p \in OwnerState /\ Rejected(s, u)
      /\ u.gate.open = s.gate.open /\ u.gate.epoch = s.gate.epoch
      /\ u.account = s.account /\ u.stops = s.stops /\ u.lateLinked = s.lateLinked
  BY RejectParts
<1>2. CloseGate(s, k) = t /\ Unlink(s, k) = v BY DEF CloseGate, Unlink
<1>3. no \in BOOLEAN /\ no = FALSE /\ gone \in {"unlinked", "linking", "linked"}
      /\ gone = "unlinked"
  OBVIOUS
<1> HIDE DEF u, p, no, gone
<1>4. /\ t \in State /\ t.gate.open = no /\ t.gate.inflight = u.gate.inflight
      /\ t.gate.epoch = u.gate.epoch
      /\ t.owner = u.owner /\ SameAdapter(u, t) /\ SameTalk(u, t)
  BY <1>1, <1>3 DEF State, SameAdapter, SameTalk
<1> HIDE DEF t
<1>5. /\ v \in State /\ v.gate = t.gate /\ v.owner = t.owner /\ SameAdapter(t, v)
      /\ v.account = gone /\ v.stops = t.stops /\ v.answers = t.answers
      /\ v.lateLinked = t.lateLinked
  BY <1>3, <1>4 DEF State, SameAdapter
<1> HIDE DEF v
<1>6. Shut(s, t, k, p) /\ t.account = s.account /\ t.stops = s.stops
  BY <1>1, <1>3, <1>4 DEF Shut, SameAdapter, SameTalk, Becomes, Newest, Rejected
<1>7. Shut(s, v, k, p) /\ v.account = "unlinked" /\ v.stops = s.stops
  BY <1>3, <1>5, <1>6 DEF Shut, SameAdapter, Becomes, Newest, Rejected
<1> QED BY <1>2, <1>6, <1>7 DEF p

LEMMA OnlyShut ==
  ASSUME NEW s, NEW u, NEW t, NEW k \in DOMAIN s.owner, NEW p, NEW q
  PROVE  /\ Only(s, u, k, p) /\ Shut(u, t, k, q) => Shut(s, t, k, q)
         /\ Shut(s, u, k, p) /\ Only(u, t, k, q) =>
               Shut(s, t, k, q) /\ t.account = u.account /\ t.stops = u.stops
<1>1. ASSUME Only(s, u, k, p), Shut(u, t, k, q) PROVE Shut(s, t, k, q)
  BY <1>1 DEF Only, Shut, SameGate, SameTalk, SameAdapter, Becomes, Rejected
<1>2. ASSUME Shut(s, u, k, p), Only(u, t, k, q)
      PROVE  Shut(s, t, k, q) /\ t.account = u.account /\ t.stops = u.stops
  BY <1>2 DEF Only, Shut, SameGate, SameTalk, SameAdapter, Becomes, Rejected
<1> QED BY <1>1, <1>2

(* Every send in flight has its answer.                                     *)
LEMMA RejectMoves ==
  ASSUME NEW s, NEW t, NEW k \in DOMAIN s.owner, NEW p, MostInv(s),
         Rejected(s, t), Letters(p) = Letters(s.owner[k]), Once(p),
         p.sends \subseteq s.owner[k].sends
  PROVE  SendsMove(s, t, s.owner[k], p)
<1> DEFINE o == s.owner[k]
<1>1. Flights(s) /\ Waiting(s) BY DEF MostInv
<1>2. \A r : Message("send", r).arg = r BY DEF Message
<1>3. ASSUME NEW r \in DOMAIN s.answers PROVE Kept(s, t, o, p, r) \/ Replied(s, t, o, p, r)
  <2>1. CASE r \in s.gate.inflight
    <3>1. Message("send", r) \notin Letters(o) BY <1>1, <1>2, <2>1 DEF Waiting, Unanswered
    <3> QED BY <2>1, <3>1 DEF Rejected, Replied
  <2>2. CASE r \notin s.gate.inflight BY <2>2 DEF Rejected, Kept
  <2> QED BY <2>1, <2>2
<1>4. p.sends \subseteq DOMAIN s.answers BY <1>1 DEF Flights
<1> QED BY <1>3, <1>4 DEF SendsMove, Rejected

(* The newest owner shuts the gate.                                         *)
LEMMA ShutKeeps ==
  ASSUME NEW s, NEW t, NEW k \in DOMAIN s.owner, NEW p, MostInv(s),
         k = Newest(s), s.gate.epoch = k,
         Shut(s, t, k, p), t.account = "unlinked" \/ (s.closed /\ t.account = s.account),
         p.queue = s.owner[k].queue, p.at = s.owner[k].at,
         p.sends \subseteq s.owner[k].sends,
         s.owner[k].retired => p.retired, p.closed => ~p.hold,
         k = s.session => p.revoked /\ ~Ended(p) /\ ~p.retired,
         Ended(p) => Ended(s.owner[k]) \/ Silent(s.owner[k]),
         Closer(p) => Closer(s.owner[k]),
         s.closed => StopsAt(t, p), ~s.closed => t.stops = s.stops,
         p.at.type = "list" /\ ~p.retired => ~p.revoked
  PROVE  MostInv(t) /\ Leaving(t)
<1> DEFINE o == s.owner[k]
<1>1. /\ s \in State /\ Places(s) /\ Stops(s) /\ OrderOf(o, k = s.session, s.closed)
      /\ Once(o)
  BY DEF MostInv, Ordered, Waiting
<1>2. s.gate.epoch = k /\ k = Newest(s) OBVIOUS
<1>3. /\ t \in State /\ p \in OwnerState /\ SameAdapter(s, t) /\ Becomes(s, t, k, p)
      /\ Rejected(s, t) /\ t.gate.open = FALSE /\ t.gate.epoch = s.gate.epoch
      /\ t.lateLinked = s.lateLinked
  BY DEF Shut
<1>4. /\ p.queue = o.queue /\ p.at = o.at /\ p.sends \subseteq o.sends
      /\ o.retired => p.retired
      /\ p.closed => ~p.hold
      /\ k = s.session => p.revoked /\ ~Ended(p) /\ ~p.retired
      /\ Ended(p) => Ended(o) \/ Silent(o)
      /\ Closer(p) => Closer(o)
      /\ p.at.type = "list" /\ ~p.retired => ~p.revoked
      /\ t.account = "unlinked" \/ (s.closed /\ t.account = s.account)
  OBVIOUS
<1> HIDE DEF o
<1>5. Moves(s, t, k, p) BY <1>2, <1>3 DEF Moves
<1>6. Letters(p) = Letters(o) /\ Once(p) BY <1>1, <1>4 DEF Letters, Once
<1>7. SendsMove(s, t, o, p) BY <1>3, <1>4, <1>6, RejectMoves DEF o
<1>8. OrderOf(p, k = s.session, s.closed)
  <2>1. Silent(o) => o.at.type # "send" BY DEF Silent, NoMessage, Message
  <2> QED BY <1>1, <1>4, <2>1 DEF OrderOf, Silent
<1>9. t.session = s.session /\ Newest(t) = Newest(s) /\ t.closed = s.closed
      /\ t.leftBusy = s.leftBusy
  BY <1>3 DEF SameAdapter, Becomes
<1>10. RowOf(t, k, p)
  <2>1. k = t.session /\ t.account = "linked" => FALSE
    <3>1. k # 0 BY <1>1, OwnerTypes
    <3> QED BY <1>1, <1>4, <1>9, <3>1 DEF Stops
  <2> QED BY <1>3, <1>4, <1>9, <2>1 DEF RowOf
<1>11. t.stops = s.stops \/ (s.closed /\ k = Newest(s) /\ s.gate.epoch = k) BY <1>2
<1>12. /\ t.account = "unlinked" => s.account = "unlinked" \/ ~t.gate.open
       /\ ~t.gate.open /\ ~t.lateLinked /\ ~s.closed => t.account = "unlinked"
       /\ t.account = "linked" /\ ~t.lateLinked =>
            (s.account = "linked" /\ ~s.lateLinked) \/ s.session \in {0, k}
  BY <1>3, <1>4
<1>13. MostInv(t) BY <1>4, <1>5, <1>7, <1>8, <1>10, <1>11, <1>12, MovesKeep DEF o
<1>14. Leaving(t) BY <1>4, <1>9 DEF Leaving, NeedsEnd
<1> QED BY <1>13, <1>14

-----------------------------------------------------------------------------
(* The ends of an account and of the app.                                   *)

LEMMA MarkClosedParts ==
  ASSUME NEW s, s \in State, NEW k \in DOMAIN s.owner
  PROVE  \E p : /\ Only(s, MarkClosed(s, k), k, p) /\ p.closed = TRUE /\ p.hold = FALSE
                /\ p.queue = s.owner[k].queue /\ p.tasks = s.owner[k].tasks
                /\ p.at = s.owner[k].at /\ p.sends = s.owner[k].sends
                /\ p.retired = s.owner[k].retired /\ p.revoked = s.owner[k].revoked
                /\ p.shutdown = s.owner[k].shutdown /\ p.stopped = s.owner[k].stopped
                /\ p.done = s.owner[k].done
<1> DEFINE o == s.owner[k]
           yes == TRUE
           no == FALSE
           p == [o EXCEPT !.closed = yes, !.hold = no]
<1>1. o \in OwnerState /\ s.owner \in Seq(OwnerState) BY OwnerTypes
<1>2. MarkClosed(s, k) = SetOwner(s, k, p) BY <1>1 DEF MarkClosed, SetOwner, State
<1>3. yes \in BOOLEAN /\ no \in BOOLEAN /\ yes = TRUE /\ no = FALSE OBVIOUS
<1> HIDE DEF o, yes, no
<1>4. /\ p \in OwnerState /\ p.closed = yes /\ p.hold = no
      /\ p.queue = o.queue /\ p.tasks = o.tasks /\ p.at = o.at /\ p.sends = o.sends
      /\ p.retired = o.retired /\ p.revoked = o.revoked
      /\ p.shutdown = o.shutdown /\ p.stopped = o.stopped /\ p.done = o.done
  BY <1>1, <1>3 DEF OwnerState
<1> HIDE DEF p
<1>5. Only(s, SetOwner(s, k, p), k, p) BY <1>4, SetOwnerParts
<1> QED BY <1>2, <1>3, <1>4, <1>5 DEF o

LEMMA ShedsParts ==
  ASSUME NEW s, NEW o \in OwnerState
  PROVE  LET p == Sheds(s, o)
         IN  /\ p.sends \subseteq o.sends
             /\ p.queue = o.queue /\ p.tasks = o.tasks /\ p.at = o.at
             /\ p.retired = o.retired /\ p.revoked = o.revoked /\ p.closed = o.closed
             /\ p.shutdown = o.shutdown /\ p.stopped = o.stopped /\ p.done = o.done
             /\ p.hold = o.hold /\ p.leaving = o.leaving /\ p.end = o.end
             /\ p.ready = o.ready
BY DEF Sheds, OwnerState

(* The account ends as unlinked, and the owner is closed.                   *)
LEMMA UnlinkKeeps ==
  ASSUME NEW s, NEW u, NEW k \in DOMAIN s.owner, NEW p, MostInv(s), HasGate(s, k),
         Only(s, u, k, p), k # s.session,
         Ended(s.owner[k]) \/ Silent(s.owner[k]),
         p.queue = s.owner[k].queue, p.at = s.owner[k].at, p.sends = s.owner[k].sends,
         p.retired = s.owner[k].retired, p.revoked = s.owner[k].revoked,
         p.shutdown = s.owner[k].shutdown, p.stopped = s.owner[k].stopped,
         p.done = s.owner[k].done
  PROVE  LET t == MarkClosed(Unlink(u, k), k)
         IN  /\ MostInv(t) /\ Leaving(t) /\ t.session = s.session
             /\ DOMAIN t.owner = DOMAIN s.owner
             /\ t.owner[k].queue = s.owner[k].queue /\ t.owner[k].at = s.owner[k].at
<1> DEFINE o == s.owner[k]
           v == Unlink(u, k)
           t == MarkClosed(v, k)
<1>1. /\ s \in State /\ Places(s) /\ Stops(s) /\ RowOf(s, k, o)
      /\ OrderOf(o, k = s.session, s.closed)
  BY DEF MostInv, Ordered, RowIs
<1>2. s.gate.epoch = k /\ k = Newest(s) BY <1>1, GateIsNewest
<1>3. /\ u \in State /\ k \in DOMAIN u.owner /\ u.owner[k] = p /\ p \in OwnerState
      /\ u.stops = s.stops
  BY DEF Only, Becomes, SameTalk
<1>4. Shut(u, v, k, Sheds(u, p)) /\ v.account = "unlinked" /\ v.stops = u.stops
  BY <1>3, CloseGateParts
<1> DEFINE q == Sheds(u, p)
<1>5. /\ q.sends \subseteq p.sends /\ q.queue = p.queue /\ q.at = p.at
      /\ q.retired = p.retired /\ q.revoked = p.revoked
      /\ q.shutdown = p.shutdown /\ q.stopped = p.stopped /\ q.done = p.done
  BY <1>3, ShedsParts
<1> HIDE DEF q, v
<1>6. Shut(s, v, k, q) BY <1>4, OnlyShut DEF q
<1>7. v \in State /\ k \in DOMAIN v.owner /\ v.owner[k] = q BY <1>6 DEF Shut, Becomes
<1>8. PICK c : /\ Only(v, t, k, c) /\ c.closed = TRUE /\ c.hold = FALSE
               /\ c.queue = v.owner[k].queue /\ c.tasks = v.owner[k].tasks
               /\ c.at = v.owner[k].at /\ c.sends = v.owner[k].sends
               /\ c.retired = v.owner[k].retired /\ c.revoked = v.owner[k].revoked
               /\ c.shutdown = v.owner[k].shutdown /\ c.stopped = v.owner[k].stopped
               /\ c.done = v.owner[k].done
  BY <1>7, MarkClosedParts, Zenon
<1> HIDE DEF t
<1>9. Shut(s, t, k, c) /\ t.account = "unlinked" /\ t.stops = s.stops
  <2>1. Only(v, t, k, c) BY <1>8
  <2>2. Shut(s, t, k, c) /\ t.account = v.account /\ t.stops = v.stops
    BY <1>6, <2>1, OnlyShut
  <2> QED BY <1>3, <1>4, <2>2 DEF v
<1>10. /\ c.queue = o.queue /\ c.at = o.at /\ c.sends \subseteq o.sends
       /\ c.retired = o.retired /\ c.revoked = o.revoked
       /\ c.shutdown = o.shutdown /\ c.stopped = o.stopped /\ c.done = o.done
  BY <1>5, <1>7, <1>8
<1>11. s.closed => StopsAt(t, c)
  <2>1. ASSUME s.closed PROVE StopsAt(s, o) BY <1>1, <1>2, <2>1 DEF Stops
  <2> QED BY <2>1, <1>9, <1>10 DEF StopsAt, Shut, SameAdapter
<1>12. Closer(c) => Closer(o) BY <1>10 DEF Closer
<1>13. c.at.type = "list" /\ ~c.retired => ~c.revoked BY <1>1, <1>10 DEF RowOf
<1>14. MostInv(t) /\ Leaving(t)
  BY <1>2, <1>8, <1>9, <1>10, <1>11, <1>12, <1>13, ShutKeeps
<1>15. t.session = s.session /\ DOMAIN t.owner = DOMAIN s.owner /\ t.owner[k] = c
  BY <1>9 DEF Shut, SameAdapter, Becomes
<1> QED BY <1>10, <1>14, <1>15 DEF t, v

LEMMA EndAccountKeeps ==
  ASSUME NEW s, NEW k \in DOMAIN s.owner, MostInv(s), k # s.session,
         Ended(s.owner[k]) \/ Silent(s.owner[k])
  PROVE  LET t == EndAccount(s, k)
         IN  /\ MostInv(t) /\ (Leaving(s) => Leaving(t)) /\ t.session = s.session
             /\ DOMAIN t.owner = DOMAIN s.owner
             /\ t.owner[k].queue = s.owner[k].queue /\ t.owner[k].at = s.owner[k].at
<1>1. s \in State BY DEF MostInv
<1>2. CASE HasGate(s, k)
  <2>1. Only(s, s, k, s.owner[k])
    BY <1>1, OwnerTypes DEF Only, Becomes, SameGate, SameAdapter, SameTalk
  <2> DEFINE t == MarkClosed(Unlink(s, k), k)
  <2>2. /\ MostInv(t) /\ Leaving(t) /\ t.session = s.session
        /\ DOMAIN t.owner = DOMAIN s.owner
        /\ t.owner[k].queue = s.owner[k].queue /\ t.owner[k].at = s.owner[k].at
    BY <1>2, <2>1, UnlinkKeeps, Zenon
  <2> QED BY <1>2, <2>2 DEF EndAccount
<1>3. CASE ~HasGate(s, k) BY <1>3 DEF EndAccount
<1> QED BY <1>2, <1>3

(* The account unlinks but for what this step does.                         *)
AlmostLeaving(s, k) ==
    NeedsEnd(s) => \/ s.doing = "unlink" \/ Leaves(s.owner[Newest(s)], s.active)
                   \/ k = Newest(s) /\ s.owner[k].leaving = s.active

LEMMA FinishDisconnectKeeps ==
  ASSUME NEW s, NEW k \in DOMAIN s.owner, MostInv(s), AlmostLeaving(s, k)
  PROVE  LET t == FinishDisconnect(s, k)
         IN  MostInv(t) /\ Leaving(t) /\ k \in DOMAIN t.owner
<1> DEFINE o == s.owner[k]
           t == FinishDisconnect(s, k)
           z == 0
           no == FALSE
           p == [o EXCEPT !.leaving = z]
           q == [o EXCEPT !.leaving = z, !.hold = no]
           left == SetOwner(s, k, p)
           gone == SetOwner(s, k, q)
<1>1. /\ s \in State /\ Places(s) /\ Stops(s) /\ RowIs(s) /\ RowOf(s, k, o)
      /\ OrderOf(o, k = s.session, s.closed)
      /\ o \in OwnerState /\ s.owner \in Seq(OwnerState)
      /\ o.sends \subseteq DOMAIN s.answers /\ Once(o)
  BY OwnerTypes DEF MostInv, Ordered, RowIs, Flights, Waiting
<1>2. k # 0 /\ k \in Nat /\ k <= Newest(s) /\ Newest(s) <= s.active
      /\ Newest(s) \in Nat /\ s.active \in Nat
  <2>1. DOMAIN s.owner = 1 .. Newest(s) /\ Newest(s) \in Nat BY <1>1, OwnerTypes DEF Newest
  <2>2. s.active \in Nat BY <1>1 DEF State
  <2> QED BY <1>1, <2>1, <2>2 DEF Places
<1>3. /\ z = 0 /\ z \in Nat /\ z \in 0 .. MaxCall
      /\ no \in BOOLEAN /\ no = FALSE
  BY DiscordBounds
<1>4. CASE o.leaving = 0
  <2>1. t = s BY <1>4 DEF FinishDisconnect
  <2>2. s.active # 0 BY <1>2
  <2>3. Leaving(s) BY <1>4, <2>2 DEF AlmostLeaving, Leaving
  <2> QED BY <2>1, <2>3
<1>5. CASE o.leaving # 0
  <2>1. Ended(o) BY <1>5 DEF Ended
  <2>2. k # s.session BY <1>1, <2>1 DEF OrderOf
  <2>3. CASE HasGate(s, k) /\ s.active = o.leaving
    <3>1. t = MarkClosed(Unlink(left, k), k)
      BY <1>5, <2>3 DEF FinishDisconnect, SetOwner
    <3> HIDE DEF o, z
    <3>2. /\ p \in OwnerState /\ p.queue = o.queue /\ p.at = o.at /\ p.sends = o.sends
          /\ p.retired = o.retired /\ p.revoked = o.revoked
          /\ p.shutdown = o.shutdown /\ p.stopped = o.stopped /\ p.done = o.done
      BY <1>1, <1>3 DEF OwnerState
    <3> HIDE DEF p
    <3>3. Only(s, left, k, p) BY <1>1, <3>2, SetOwnerParts
    <3> HIDE DEF left
    <3>4. /\ MostInv(MarkClosed(Unlink(left, k), k)) /\ Leaving(MarkClosed(Unlink(left, k), k))
          /\ DOMAIN MarkClosed(Unlink(left, k), k).owner = DOMAIN s.owner
      <4> DEFINE v == MarkClosed(Unlink(left, k), k)
      <4>1. MostInv(v) /\ Leaving(v) /\ DOMAIN v.owner = DOMAIN s.owner
        BY <2>1, <2>2, <2>3, <3>2, <3>3, UnlinkKeeps, Zenon DEF o
      <4> QED BY <4>1
    <3> QED BY <3>1, <3>4
  <2>4. CASE ~(HasGate(s, k) /\ s.active = o.leaving)
    <3>1. t = gone BY <1>1, <1>5, <2>4 DEF FinishDisconnect, SetOwner, State
    <3> HIDE DEF o, z, no, t
    <3>2. /\ q \in OwnerState /\ q.queue = o.queue /\ q.at = o.at /\ q.sends = o.sends
          /\ q.tasks = o.tasks /\ q.ready = o.ready /\ q.closed = o.closed
          /\ q.retired = o.retired /\ q.revoked = o.revoked
          /\ q.shutdown = o.shutdown /\ q.stopped = o.stopped /\ q.done = o.done
          /\ q.hold = no /\ q.leaving = z
      BY <1>1, <1>3 DEF OwnerState
    <3> HIDE DEF q
    <3>3. Only(s, gone, k, q) BY <1>1, <3>2, SetOwnerParts
    <3> HIDE DEF gone
    <3>4. OrderOf(q, k = s.session, s.closed) BY <1>1, <1>3, <2>1, <2>2, <3>2 DEF OrderOf
    <3>5. \A r \in s.gate.inflight : Carries(o, r) => Carries(q, r) BY <3>2 DEF Carries
    <3>6. Letters(q) = Letters(o) /\ Once(q) BY <1>1, <3>2 DEF Letters, Once
    <3>7. Closer(q) => Closer(o) BY <3>2 DEF Closer
    <3>8. ASSUME s.closed, k = Newest(s), s.gate.epoch = k PROVE StopsAt(s, q)
      <4>1. StopsAt(s, o) BY <1>1, <3>8 DEF Stops, o
      <4>2. Lost(o) => Lost(q) BY <1>3, <3>2 DEF Lost
      <4> QED BY <4>1, <4>2, <3>2 DEF StopsAt
    <3>9. RowOf(s, k, q) BY <1>1, <3>2 DEF RowOf
    <3>10. MostInv(gone)
      BY <1>1, <3>2, <3>3, <3>4, <3>5, <3>6, <3>7, <3>8, <3>9, OnlyKeeps DEF o
    <3>11. Leaving(s)
      <4> SUFFICES ASSUME NeedsEnd(s), k = Newest(s), o.leaving = s.active PROVE Leaving(s)
        BY DEF AlmostLeaving, Leaving, o
      <4>1. ~s.gate.open
        <5>1. ~s.closed BY DEF NeedsEnd
        <5>2. s.gate.epoch = k BY <1>1, <5>1 DEF Places
        <5> QED BY <2>4, <5>2 DEF HasGate
      <4> QED BY <4>1, <1>1 DEF RowIs, NeedsEnd
    <3>12. ASSUME NeedsEnd(s), k = Newest(s) PROVE Leaves(o, s.active) => Leaves(q, s.active)
      <4>1. o.leaving # s.active
        <5> SUFFICES ASSUME o.leaving = s.active PROVE FALSE OBVIOUS
        <5>1. ~s.closed BY <3>12 DEF NeedsEnd
        <5>2. s.gate.epoch = k BY <1>1, <3>12, <5>1 DEF Places
        <5>3. ~s.gate.open BY <2>4, <5>2 DEF HasGate
        <5> QED BY <5>3, <3>12, <1>1 DEF RowIs, NeedsEnd
      <4> QED BY <4>1, <3>2 DEF Leaves
    <3>13. Leaving(gone) BY <1>1, <3>3, <3>11, <3>12, OnlyLeaves DEF o
    <3>14. k \in DOMAIN gone.owner BY <3>3 DEF Only, Becomes
    <3> QED BY <3>1, <3>10, <3>13, <3>14 DEF t
  <2> QED BY <2>3, <2>4
<1> QED BY <1>4, <1>5

(* Stopped is said, but once.                                               *)
Emits(s, t, k) ==
    LET o == s.owner[k]
        p == t.owner[k]
    IN  /\ t \in State /\ t.gate = s.gate /\ SameAdapter(s, t) /\ Becomes(s, t, k, p)
        /\ t.account = s.account /\ t.answers = s.answers /\ t.lateLinked = s.lateLinked
        /\ t.stops = s.stops + (IF o.stopped THEN 0 ELSE 1)
        /\ p \in OwnerState /\ p.stopped = TRUE
        /\ p.queue = o.queue /\ p.tasks = o.tasks /\ p.at = o.at /\ p.sends = o.sends
        /\ p.retired = o.retired /\ p.revoked = o.revoked /\ p.closed = o.closed
        /\ p.shutdown = o.shutdown /\ p.done = o.done /\ p.hold = o.hold
        /\ p.leaving = o.leaving /\ p.end = o.end /\ p.ready = o.ready

LEMMA EmitParts ==
  ASSUME NEW s, s \in State, NEW k \in DOMAIN s.owner
  PROVE  Emits(s, EmitStoppedOnce(s, k), k)
<1> DEFINE o == s.owner[k]
           yes == TRUE
           q == [o EXCEPT !.stopped = yes]
           u == SetOwner(s, k, q)
           n == s.stops + 1
           v == [u EXCEPT !.stops = n]
           t == EmitStoppedOnce(s, k)
<1>1. o \in OwnerState /\ s.owner \in Seq(OwnerState) /\ s.stops \in Nat /\ n \in Nat
  BY OwnerTypes DEF State
<1>2. yes \in BOOLEAN /\ yes = TRUE OBVIOUS
<1>3. CASE o.stopped
  <2>1. t = s BY <1>3 DEF EmitStoppedOnce
  <2>2. o.stopped = TRUE BY <1>1, <1>3 DEF OwnerState
  <2>3. SameAdapter(s, s) /\ Becomes(s, s, k, o) BY DEF SameAdapter, Becomes
  <2> QED BY <1>1, <1>3, <2>1, <2>2, <2>3 DEF Emits
<1>4. CASE ~o.stopped
  <2>1. t = v BY <1>1, <1>4 DEF EmitStoppedOnce, SetOwner, State
  <2> HIDE DEF o, yes
  <2>2. /\ q \in OwnerState /\ q.stopped = yes
        /\ q.queue = o.queue /\ q.tasks = o.tasks /\ q.at = o.at /\ q.sends = o.sends
        /\ q.retired = o.retired /\ q.revoked = o.revoked /\ q.closed = o.closed
        /\ q.shutdown = o.shutdown /\ q.done = o.done
        /\ q.hold = o.hold /\ q.leaving = o.leaving /\ q.end = o.end
        /\ q.ready = o.ready
    BY <1>1, <1>2 DEF OwnerState
  <2> HIDE DEF q
  <2>3. Only(s, u, k, q) BY <2>2, SetOwnerParts
  <2> HIDE DEF u, n
  <2>4. /\ v \in State /\ v.stops = n /\ v.gate = u.gate /\ v.owner = u.owner
        /\ SameAdapter(u, v) /\ v.account = u.account /\ v.answers = u.answers
        /\ v.lateLinked = u.lateLinked
    BY <1>1, <2>3 DEF Only, State, SameAdapter
  <2> HIDE DEF v, t
  <2>5. /\ v.gate = s.gate /\ SameAdapter(s, v) /\ Becomes(s, v, k, q)
        /\ v.account = s.account /\ v.answers = s.answers /\ v.lateLinked = s.lateLinked
    BY <2>3, <2>4 DEF Only, SameGate, SameTalk, SameAdapter, Becomes, Newest
  <2>6. v.owner[k] = q BY <2>5 DEF Becomes
  <2>7. v.stops = s.stops + (IF o.stopped THEN 0 ELSE 1) BY <1>4, <2>4 DEF n
  <2> QED BY <1>2, <2>1, <2>2, <2>4, <2>5, <2>6, <2>7 DEF o, t, Emits
<1> QED BY <1>3, <1>4

(* The app ends.                                                            *)
LEMMA CloseKeeps ==
  ASSUME NEW s, NEW k \in DOMAIN s.owner, MostInv(s)
  PROVE  LET t == Close(s, k)
         IN  MostInv(t) /\ (Leaving(s) => Leaving(t)) /\ k \in DOMAIN t.owner
<1> DEFINE o == s.owner[k]
           t == Close(s, k)
           no == FALSE
           yes == TRUE
           r == [o EXCEPT !.shutdown = no, !.retired = yes, !.unlink = "none"]
           a == SetOwner(s, k, r)
           b == IF HasGate(s, k) THEN CloseGate(a, k) ELSE a
           c == EmitStoppedOnce(b, k)
           d == MarkClosed(c, k)
<1>1. /\ s \in State /\ Places(s) /\ Stops(s) /\ RowIs(s) /\ Flights(s) /\ RowOf(s, k, o)
      /\ OrderOf(o, k = s.session, s.closed)
      /\ o \in OwnerState /\ s.owner \in Seq(OwnerState)
  BY OwnerTypes DEF MostInv, Ordered, RowIs
<1>2. CASE ~o.shutdown BY <1>2 DEF Close
<1>3. CASE o.shutdown
  <2>1. Closer(o) BY <1>3 DEF Closer
  <2>2. s.closed /\ k = Newest(s) /\ s.gate.epoch = k /\ s.session = 0
    BY <1>1, <2>1 DEF Stops
  <2>3. StopsAt(s, o) BY <1>1, <2>2 DEF Stops
  <2>4. k # 0 BY <1>1, OwnerTypes
  <2>5. t = [d EXCEPT !.owner[k].done = TRUE]
    <3>1. RetireOwner([s EXCEPT !.owner[k].shutdown = FALSE], k) = a
      BY <1>1 DEF RetireOwner, SetOwner, State
    <3> HIDE DEF a
    <3> QED BY <1>3, <3>1 DEF Close
  <2>6. no \in BOOLEAN /\ yes \in BOOLEAN /\ no = FALSE /\ yes = TRUE OBVIOUS
  <2> HIDE DEF o, no, yes, t
  <2>7. /\ r \in OwnerState /\ r.shutdown = no /\ r.retired = yes
        /\ r.queue = o.queue /\ r.at = o.at /\ r.sends = o.sends
        /\ r.stopped = o.stopped
    BY <1>1, <2>6 DEF OwnerState
  <2> HIDE DEF r
  <2>8. Only(s, a, k, r) BY <1>1, <2>7, SetOwnerParts
  <2>9. a \in State /\ k \in DOMAIN a.owner /\ a.owner[k] = r /\ a.gate = s.gate
        /\ a.account = s.account /\ a.stops = s.stops
    BY <2>8 DEF Only, Becomes, SameGate, SameTalk
  <2> HIDE DEF a
  <2>10. \E p : /\ Shut(s, b, k, p) /\ b.account = s.account /\ b.stops = s.stops
                /\ p.sends \subseteq o.sends /\ p.shutdown = no /\ p.retired = yes
                /\ p.queue = o.queue /\ p.at = o.at /\ p.stopped = o.stopped
    <3>1. CASE HasGate(s, k)
      <4>1. b = CloseGate(a, k) BY <3>1
      <4>2. Shut(a, b, k, Sheds(a, r)) /\ b.account = a.account /\ b.stops = a.stops
        BY <2>9, <4>1, CloseGateParts
      <4> DEFINE p == Sheds(a, r)
      <4>3. /\ p.sends \subseteq r.sends /\ p.queue = r.queue /\ p.at = r.at
            /\ p.retired = r.retired /\ p.shutdown = r.shutdown /\ p.stopped = r.stopped
        BY <2>7, ShedsParts
      <4> HIDE DEF p, b
      <4>4. Shut(s, b, k, p)
        <5>1. Shut(a, b, k, p) BY <4>2 DEF p
        <5> QED BY <2>8, <5>1, OnlyShut
      <4> QED BY <2>7, <2>9, <4>2, <4>3, <4>4
    <3>2. CASE ~HasGate(s, k)
      <4>1. b = a BY <3>2
      <4>2. s.gate.open = FALSE BY <1>1, <2>2, <3>2 DEF HasGate, State
      <4>3. s.gate.inflight = {} BY <1>1, <4>2 DEF Flights
      <4>4. Shut(s, a, k, r)
        BY <2>8, <4>2, <4>3 DEF Only, Shut, SameGate, SameTalk, Rejected
      <4> QED BY <2>7, <2>9, <4>1, <4>4
    <3> QED BY <3>1, <3>2
  <2> HIDE DEF b
  <2>11. PICK p : /\ Shut(s, b, k, p) /\ b.account = s.account /\ b.stops = s.stops
                  /\ p.sends \subseteq o.sends /\ p.shutdown = no /\ p.retired = yes
                  /\ p.queue = o.queue /\ p.at = o.at /\ p.stopped = o.stopped
    BY <2>10
  <2>12. b \in State /\ k \in DOMAIN b.owner /\ b.owner[k] = p BY <2>11 DEF Shut, Becomes
  <2> DEFINE q == c.owner[k]
  <2>13. /\ c \in State /\ c.gate = b.gate /\ SameAdapter(b, c) /\ Becomes(b, c, k, q)
         /\ c.account = b.account /\ c.answers = b.answers
         /\ c.lateLinked = b.lateLinked
         /\ c.stops = b.stops + (IF p.stopped THEN 0 ELSE 1)
         /\ q \in OwnerState /\ q.stopped = TRUE
         /\ q.queue = p.queue /\ q.at = p.at /\ q.sends = p.sends
         /\ q.retired = p.retired /\ q.shutdown = p.shutdown
    <3>1. Emits(b, c, k) BY <2>12, EmitParts
    <3> HIDE DEF c
    <3> QED BY <2>12, <3>1 DEF Emits
  <2> HIDE DEF c, q
  <2>14. Shut(s, c, k, q) BY <2>11, <2>13 DEF Shut, SameAdapter, Becomes, Rejected
  <2>15. c.stops = 1 BY <1>1, <2>3, <2>11, <2>13 DEF StopsAt
  <2>16. k \in DOMAIN c.owner /\ c.owner[k] = q BY <2>14 DEF Shut, Becomes
  <2>17. PICK e : /\ Only(c, d, k, e) /\ e.closed = TRUE /\ e.hold = FALSE
                  /\ e.queue = c.owner[k].queue /\ e.tasks = c.owner[k].tasks
                  /\ e.at = c.owner[k].at /\ e.sends = c.owner[k].sends
                  /\ e.retired = c.owner[k].retired /\ e.revoked = c.owner[k].revoked
                  /\ e.shutdown = c.owner[k].shutdown /\ e.stopped = c.owner[k].stopped
                  /\ e.done = c.owner[k].done
    BY <2>13, <2>16, MarkClosedParts, Zenon
  <2> HIDE DEF d
  <2> DEFINE f == [e EXCEPT !.done = yes]
  <2>18. d \in State /\ k \in DOMAIN d.owner /\ d.owner[k] = e /\ e \in OwnerState
    BY <2>16, <2>17 DEF Only, Becomes
  <2>19. /\ f \in OwnerState /\ f.done = yes /\ f.closed = e.closed /\ f.hold = e.hold
         /\ f.queue = e.queue /\ f.at = e.at /\ f.sends = e.sends
         /\ f.retired = e.retired /\ f.shutdown = e.shutdown /\ f.stopped = e.stopped
    BY <2>6, <2>18 DEF OwnerState
  <2>20. t = SetOwner(d, k, f) BY <2>5, <2>6, <2>18 DEF SetOwner
  <2> HIDE DEF f
  <2>21. Only(d, t, k, f) BY <2>18, <2>19, <2>20, SetOwnerParts
  <2>22. Shut(s, t, k, f) /\ t.account = s.account /\ t.stops = 1
    <3>1. Only(c, t, k, f)
      <4>1. Only(c, d, k, e) BY <2>17
      <4> QED BY <2>16, <2>21, <4>1, OnlyTwice
    <3>2. Shut(s, t, k, f) /\ t.account = c.account /\ t.stops = c.stops
      BY <2>14, <3>1, OnlyShut
    <3> QED BY <2>11, <2>13, <2>15, <3>2
  <2>23. /\ f.queue = o.queue /\ f.at = o.at /\ f.sends \subseteq o.sends
         /\ f.retired = TRUE /\ f.shutdown = FALSE /\ f.stopped = TRUE /\ f.done = TRUE
         /\ f.closed = TRUE /\ f.hold = FALSE
    BY <2>6, <2>11, <2>13, <2>16, <2>17, <2>19
  <2>24. Ended(o) BY <1>3 DEF Ended
  <2>25. StopsAt(t, f) BY <2>22, <2>23 DEF StopsAt, Shut
  <2>26. MostInv(t) /\ Leaving(t)
    BY <2>1, <2>2, <2>4, <2>22, <2>23, <2>24, <2>25, ShutKeeps DEF o
  <2>27. k \in DOMAIN t.owner BY <2>22 DEF Shut, Becomes
  <2> QED BY <2>26, <2>27 DEF t
<1> QED BY <1>2, <1>3

LEMMA FinishShutdownKeeps ==
  ASSUME NEW s, NEW k \in DOMAIN s.owner, MostInv(s)
  PROVE  LET t == FinishShutdown(s, k)
         IN  MostInv(t) /\ (Leaving(s) => Leaving(t)) /\ k \in DOMAIN t.owner
<1> DEFINE t == FinishShutdown(s, k)
<1>1. CASE t = s BY <1>1
<1>2. CASE s.owner[k].shutdown /\ t = ArmSettle(s, k, "stopped")
  <2>1. s \in State /\ Ended(s.owner[k]) BY <1>2 DEF MostInv, Ended
  <2>2. "stopped" \in {"none", "unlinked", "stopped"} OBVIOUS
  <2>3. Grows(s, ArmSettle(s, k, "stopped"), k) BY <2>1, <2>2, ArmGrows
  <2> HIDE DEF t
  <2>4. Grows(s, t, k) BY <1>2, <2>3
  <2> QED BY <2>4, GrowsKeeps, GrowsParts DEF t
<1>3. CASE t = Close(s, k) BY <1>3, CloseKeeps
<1> QED BY <1>1, <1>2, <1>3 DEF FinishShutdown

LEMMA BeginEndKeeps ==
  ASSUME NEW s, NEW k \in DOMAIN s.owner, MostInv(s), k # s.session,
         Ended(s.owner[k]) \/ Silent(s.owner[k])
  PROVE  LET t == BeginEnd(s, k)
         IN  /\ MostInv(t) /\ (Leaving(s) => Leaving(t)) /\ t.session = s.session
             /\ k \in DOMAIN t.owner
             /\ t.owner[k].queue = s.owner[k].queue /\ t.owner[k].at = s.owner[k].at
<1> DEFINE t == BeginEnd(s, k)
<1>1. CASE t = ArmSettle(s, k, "unlinked")
  <2>1. s \in State BY DEF MostInv
  <2>2. "unlinked" \in {"none", "unlinked", "stopped"} OBVIOUS
  <2>3. Grows(s, ArmSettle(s, k, "unlinked"), k) BY <2>1, <2>2, ArmGrows
  <2> HIDE DEF t
  <2>4. Grows(s, t, k) BY <1>1, <2>3
  <2>5. MostInv(t) /\ (Leaving(s) => Leaving(t)) BY <2>4, GrowsKeeps
  <2>6. SameAdapter(s, t) /\ Mild(s.owner[k], t.owner[k]) /\ k \in DOMAIN t.owner
    BY <2>4, GrowsParts
  <2> QED BY <2>5, <2>6 DEF SameAdapter, Mild, t
<1>2. CASE t = EndAccount(s, k) BY <1>2, EndAccountKeeps
<1> QED BY <1>1, <1>2 DEF BeginEnd

-----------------------------------------------------------------------------
(* The owner handles its first message.                                     *)

LEMMA Takes ==
  ASSUME NEW k \in DOMAIN discord.owner, MostInv(discord), Listens(k)
  PROVE  LET s == discord
             o == s.owner[k]
         IN  /\ s \in State /\ Places(s) /\ Stops(s) /\ RowIs(s) /\ Flights(s)
             /\ Waiting(s) /\ RowOf(s, k, o) /\ OrderOf(o, k = s.session, s.closed)
             /\ Once(o) /\ Unanswered(s, o) /\ o \in OwnerState
             /\ o.sends \subseteq DOMAIN s.answers
             /\ o.queue # <<>> /\ o.at = NoMessage /\ NoMessage.type = "none"
             /\ First(k) = Head(o.queue) /\ Taken(k) = Less(s, k)
             /\ First(k) \in Messages /\ First(k) \in Elems(o.queue)
             /\ Ended(o) => First(k).type \notin {"send", "disconnect"}
<1> DEFINE s == discord
           o == s.owner[k]
<1>1. /\ s \in State /\ Places(s) /\ Stops(s) /\ RowIs(s) /\ Flights(s) /\ Waiting(s)
      /\ OrderOf(o, k = s.session, s.closed) /\ RowOf(s, k, o)
      /\ Once(o) /\ Unanswered(s, o) /\ o \in OwnerState
      /\ o.sends \subseteq DOMAIN s.answers
  BY OwnerTypes DEF MostInv, Ordered, RowIs, Flights, Waiting
<1>2. o.queue # <<>> /\ o.at = NoMessage /\ NoMessage.type = "none"
  BY DEF Listens, NoMessage, Message, Owners
<1>3. First(k) = Head(o.queue) /\ Taken(k) = Less(s, k)
  BY DEF First, Taken, Less, SetQueue
<1>4. First(k) \in Messages /\ First(k) \in Elems(o.queue)
  <2>1. o.queue \in Seq(Messages) BY <1>1 DEF OwnerState
  <2> QED BY <1>2, <1>3, <2>1, TailParts
<1>5. Ended(o) => First(k).type \notin {"send", "disconnect"} BY <1>1, <1>4 DEF OrderOf
<1> QED BY <1>1, <1>2, <1>3, <1>4, <1>5

LEMMA SkipStep ==
  ASSUME Inv(discord), NEW k \in DOMAIN discord.owner, SkipMessage(k)
  PROVE  Inv(discord')
<1> DEFINE s == discord
           o == s.owner[k]
           u == Less(s, k)
<1>1. /\ MostInv(s) /\ Leaving(s) /\ Listens(k) /\ o.closed BY DEF Inv, SkipMessage
<1>2. /\ s \in State /\ Stops(s) /\ RowOf(s, k, o) /\ OrderOf(o, k = s.session, s.closed)
      /\ Once(o) /\ o \in OwnerState /\ o.sends \subseteq DOMAIN s.answers
      /\ o.queue # <<>> /\ o.at = NoMessage /\ First(k) = Head(o.queue) /\ Taken(k) = u
      /\ First(k) \in Messages /\ First(k) \in Elems(o.queue)
      /\ Ended(o) => First(k).type \notin {"send", "disconnect"}
  BY <1>1, Takes
<1>3. First(k).type # "send" BY <1>1, <1>2 DEF Ended
<1>4. CASE First(k).type = "shutdown"
  <2>1. discord' = [u EXCEPT !.owner[k].done = TRUE] BY <1>2, <1>4 DEF SkipMessage
  <2>2. Closer(o) BY <1>2, <1>4 DEF Closer
  <2>3. s.closed /\ k = Newest(s) /\ s.gate.epoch = k /\ s.session = 0 BY <1>2, <2>2 DEF Stops
  <2>4. ~s.gate.open BY <1>1, <1>2, <2>3 DEF RowOf
  <2>5. PICK p : /\ Only(s, u, k, p) /\ SameFlags(o, p)
                 /\ p.queue = Tail(o.queue) /\ p.tasks = o.tasks /\ p.at = o.at
                 /\ Elems(o.queue) = {First(k)} \cup Elems(p.queue)
                 /\ EndersLast(o.queue) => EndersLast(p.queue)
                 /\ SendsOnce(o.queue) => SendsOnce(p.queue)
    BY <1>2, LessParts
  <2> DEFINE yes == TRUE
             q == [p EXCEPT !.done = yes]
  <2>6. p \in OwnerState /\ u \in State /\ u.owner[k] = p /\ k \in DOMAIN u.owner
        /\ yes \in BOOLEAN /\ yes = TRUE
    BY <2>5 DEF Only, Becomes
  <2>7. discord' = SetOwner(u, k, q) BY <2>1, <2>6 DEF SetOwner
  <2> HIDE DEF o, u, yes
  <2>8. /\ q \in OwnerState /\ q.done = yes /\ q.queue = p.queue /\ q.tasks = p.tasks
        /\ q.at = p.at /\ q.sends = p.sends /\ q.ready = p.ready
        /\ q.retired = p.retired /\ q.revoked = p.revoked /\ q.leaving = p.leaving
        /\ q.end = p.end /\ q.shutdown = p.shutdown /\ q.closed = p.closed
        /\ q.stopped = p.stopped /\ q.hold = p.hold
    BY <2>6 DEF OwnerState
  <2> HIDE DEF q
  <2>9. Only(s, discord', k, q)
    <3>1. Only(s, u, k, p) BY <2>5
    <3>2. Only(u, discord', k, q) BY <2>6, <2>7, <2>8, SetOwnerParts
    <3> QED BY <3>1, <3>2, OnlyTwice
  <2>10. /\ q.queue = p.queue /\ q.tasks = o.tasks /\ q.at = o.at /\ q.sends = o.sends
         /\ q.ready = o.ready /\ q.retired = o.retired /\ q.revoked = o.revoked
         /\ q.leaving = o.leaving /\ q.end = o.end /\ q.shutdown = o.shutdown
         /\ q.closed = o.closed /\ q.stopped = o.stopped /\ q.hold = o.hold
         /\ q.done = TRUE
         /\ Elems(o.queue) = {First(k)} \cup Elems(q.queue)
         /\ EndersLast(o.queue) => EndersLast(q.queue)
         /\ SendsOnce(o.queue) => SendsOnce(q.queue)
    BY <2>5, <2>6, <2>8 DEF SameFlags
  <2>11. OrderOf(q, k = s.session, s.closed)
    <3>1. Ended(q) <=> Ended(o) BY <2>10 DEF Ended
    <3> QED BY <1>2, <2>10, <3>1 DEF OrderOf
  <2>12. \A r \in s.gate.inflight : Carries(o, r) => Carries(q, r) BY <1>1 DEF Carries, o
  <2>13. Letters(q) = Letters(o) BY <2>10, <1>3 DEF Letters
  <2>14. Once(q) BY <1>2, <2>10 DEF Once
  <2>15. StopsAt(s, q)
    <3>1. StopsAt(s, o) BY <1>2, <2>3 DEF Stops, o
    <3> QED BY <3>1, <2>4, <2>10 DEF StopsAt
  <2>16. RowOf(s, k, q) BY <1>2, <2>10 DEF RowOf
  <2>17. MostInv(discord')
    BY <1>1, <1>2, <2>2, <2>9, <2>10, <2>11, <2>12, <2>13, <2>14, <2>15, <2>16, OnlyKeeps DEF o
  <2>18. Leaving(discord') BY <2>3, <2>9 DEF Leaving, NeedsEnd, Only, SameAdapter
  <2> QED BY <2>17, <2>18 DEF Inv
<1>5. CASE First(k).type # "shutdown"
  <2>1. MostInv(u) /\ Leaving(u) BY <1>1, <1>2, <1>3, <1>5, LessKeeps
  <2>2. CASE First(k).type # "retire"
    <3>1. discord' = u BY <1>2, <1>5, <2>2 DEF SkipMessage
    <3> QED BY <2>1, <3>1 DEF Inv
  <2>3. CASE First(k).type = "retire"
    <3>1. discord' = HandOff(u, First(k).arg) BY <1>2, <2>3 DEF SkipMessage
    <3>2. First(k).arg \in Nat BY <1>2 DEF Messages
    <3>3. k \in DOMAIN u.owner
      <4>1. \E p : Only(s, u, k, p) BY <1>2, LessParts
      <4> QED BY <4>1 DEF Only, Becomes
    <3> HIDE DEF u
    <3>4. MostInv(HandOff(u, First(k).arg)) /\ Leaving(HandOff(u, First(k).arg))
      BY <2>1, <3>2, <3>3, HandOffKeeps
    <3> QED BY <3>1, <3>4 DEF Inv
  <2> QED BY <2>2, <2>3
<1> QED BY <1>4, <1>5

(* A message that only sets fields the invariant does not read.             *)
LEMMA LessGrows ==
  ASSUME Inv(discord), NEW k \in DOMAIN discord.owner, Listens(k),
         First(k).type \notin {"send", "shutdown", "post", "disconnect", "disconnectWait"}
  PROVE  LET u == Less(discord, k)
         IN  /\ Inv(u) /\ u \in State /\ k \in DOMAIN u.owner
             /\ \E p : Only(discord, u, k, p) /\ SameFlags(discord.owner[k], p)
                       /\ p.at = NoMessage /\ p.unlink = discord.owner[k].unlink
             /\ \A t : Grows(u, t, k) => Inv(t)
<1> DEFINE s == discord
           o == s.owner[k]
           u == Less(s, k)
<1>1. MostInv(s) /\ Leaving(s) BY DEF Inv
<1>2. s \in State /\ o.queue # <<>> /\ o.at = NoMessage /\ First(k) = Head(o.queue)
  BY <1>1, Takes
<1>3. /\ Message("disconnect", s.active).type = "disconnect"
      /\ Message("disconnectWait", 0).type = "disconnectWait"
  BY DEF Message
<1>4. MostInv(u) /\ Leaving(u) BY <1>1, <1>2, <1>3, LessKeeps
<1>5. \E p : Only(s, u, k, p) /\ SameFlags(o, p) /\ p.at = o.at /\ p.unlink = o.unlink
  BY <1>2, LessParts
<1>6. u \in State /\ k \in DOMAIN u.owner BY <1>5 DEF Only, Becomes
<1> HIDE DEF u
<1>7. \A t : Grows(u, t, k) => Inv(t) BY <1>4, <1>6, GrowsKeeps DEF Inv
<1> QED BY <1>2, <1>4, <1>5, <1>6, <1>7 DEF Inv, u

LEMMA LoadListStep ==
  ASSUME Inv(discord), NEW k \in DOMAIN discord.owner, LoadList(k)
  PROVE  Inv(discord')
<1> DEFINE u == Less(discord, k)
           n == u.owner[k].ticket + 1
           v == [u EXCEPT !.owner[k].ticket = n]
           m == Message("list", v.owner[k].ticket)
<1>1. Listens(k) /\ First(k).type = "reload" BY DEF LoadList, Handles, First
<1>2. MostInv(discord) BY DEF Inv
<1>3. Inv(u) /\ u \in State /\ k \in DOMAIN u.owner /\ \A t : Grows(u, t, k) => Inv(t)
  BY <1>1, LessGrows
<1>4. discord' = u \/ discord' = Spawn(v, k, m) BY <1>1, <1>2, Takes DEF LoadList
<1>5. n \in Nat
  <2>1. u.owner[k] \in OwnerState BY <1>3, OwnerTypes
  <2> QED BY <2>1 DEF OwnerState
<1> HIDE DEF u, n
<1>6. Grows(u, v, k) BY <1>3, <1>5, UnreadGrows
<1> HIDE DEF v
<1>7. v \in State /\ k \in DOMAIN v.owner BY <1>3, <1>6, GrowsParts
<1>8. m \in Tasks
  <2>1. v.owner[k] \in OwnerState BY <1>7, OwnerTypes
  <2>2. v.owner[k].ticket \in Nat BY <2>1 DEF OwnerState
  <2> QED BY <2>2 DEF Tasks, Message, TaskTypes
<1> HIDE DEF m
<1>9. Grows(v, Spawn(v, k, m), k) BY <1>7, <1>8, SpawnGrows
<1>10. Grows(u, Spawn(v, k, m), k) BY <1>3, <1>6, <1>9, GrowsTwice
<1> QED BY <1>3, <1>4, <1>10

LEMMA LoadHistoryStep ==
  ASSUME Inv(discord), NEW k \in DOMAIN discord.owner, LoadHistory(k)
  PROVE  Inv(discord')
<1> DEFINE u == Less(discord, k)
           m == Message("history", First(k).arg)
<1>1. Listens(k) /\ First(k).type = "open" BY DEF LoadHistory, Handles, First
<1>2. MostInv(discord) BY DEF Inv
<1>3. Inv(u) /\ u \in State /\ k \in DOMAIN u.owner /\ \A t : Grows(u, t, k) => Inv(t)
  BY <1>1, LessGrows
<1>4. First(k) \in Messages /\ Taken(k) = u BY <1>1, <1>2, Takes
<1>5. discord' = u \/ discord' = Spawn(u, k, m) BY <1>4 DEF LoadHistory
<1>6. m \in Tasks BY <1>4 DEF Tasks, Message, TaskTypes, Messages
<1> HIDE DEF u, m
<1>7. Grows(u, Spawn(u, k, m), k) BY <1>3, <1>6, SpawnGrows
<1> QED BY <1>3, <1>5, <1>7

LEMMA HistoryStep ==
  ASSUME Inv(discord), NEW k \in DOMAIN discord.owner, HistoryDone(k)
  PROVE  Inv(discord')
<1> DEFINE u == Less(discord, k)
<1>1. Listens(k) /\ First(k).type = "history" BY DEF HistoryDone, Handles, First
<1>2. MostInv(discord) BY DEF Inv
<1>3. Inv(u) /\ u \in State /\ k \in DOMAIN u.owner /\ \A t : Grows(u, t, k) => Inv(t)
  BY <1>1, LessGrows
<1>4. Taken(k) = u BY <1>1, <1>2, Takes
<1>5. discord' = u \/ discord' = SettleUnauthorized(u, k) BY <1>4 DEF HistoryDone
<1> HIDE DEF u
<1>6. Grows(u, SettleUnauthorized(u, k), k) BY <1>3, SettleGrows
<1> QED BY <1>3, <1>5, <1>6

-----------------------------------------------------------------------------
(* A send goes from the queue to the gate.                                  *)

SetAt(s, k, m) == [s EXCEPT !.owner[k].at = m]

LEMMA SetAtParts ==
  ASSUME NEW s, s \in State, NEW k \in DOMAIN s.owner, NEW m \in Messages
  PROVE  \E p : /\ Only(s, SetAt(s, k, m), k, p) /\ SameFlags(s.owner[k], p) /\ p.at = m
                /\ p.queue = s.owner[k].queue /\ p.tasks = s.owner[k].tasks
<1> DEFINE o == s.owner[k]
           p == [o EXCEPT !.at = m]
<1>1. o \in OwnerState BY OwnerTypes
<1>2. SetAt(s, k, m) = SetOwner(s, k, p) BY DEF SetOwner, SetAt
<1> HIDE DEF o
<1>3. p \in OwnerState /\ p.queue = o.queue /\ p.tasks = o.tasks /\ p.at = m
  BY <1>1 DEF OwnerState
<1>4. SameFlags(o, p) BY <1>1 DEF OwnerState, SameFlags
<1> HIDE DEF p
<1>5. Only(s, SetOwner(s, k, p), k, p) BY <1>3, SetOwnerParts
<1> QED BY <1>2, <1>3, <1>4, <1>5 DEF o

(* The owner takes a message, or is done with one.                          *)
LEMMA FlagsKeep ==
  ASSUME NEW s, NEW k \in DOMAIN s.owner, NEW o, NEW p, MostInv(s), o = s.owner[k],
         SameFlags(o, p), p.tasks = o.tasks, o.at # NoMessage \/ o.queue # <<>>,
         Elems(p.queue) \subseteq Elems(o.queue),
         \A m \in Elems(o.queue) : m.type \in {"shutdown", "post"} => m \in Elems(p.queue)
  PROVE  /\ p.sends \subseteq DOMAIN s.answers
         /\ \A r : Carries(o, r) => Carries(p, r)
         /\ Closer(p) => Closer(o)
         /\ s.closed /\ k = Newest(s) /\ s.gate.epoch = k => StopsAt(s, p)
         /\ Ended(p) <=> Ended(o)
         /\ o.closed => ~p.hold
<1>1. /\ s \in State /\ Stops(s) /\ OrderOf(o, k = s.session, s.closed)
      /\ o.sends \subseteq DOMAIN s.answers
  BY DEF MostInv, Ordered, Flights
<1>2. /\ p.sends = o.sends /\ p.ready = o.ready /\ p.retired = o.retired
      /\ p.revoked = o.revoked /\ p.leaving = o.leaving /\ p.end = o.end
      /\ p.shutdown = o.shutdown /\ p.closed = o.closed /\ p.stopped = o.stopped
      /\ p.done = o.done /\ p.hold = o.hold
  BY DEF SameFlags
<1>3. \A r : Carries(o, r) => Carries(p, r) BY <1>2 DEF Carries
<1>4. Closer(p) => Closer(o) BY <1>2 DEF Closer
<1>5. ASSUME s.closed, k = Newest(s), s.gate.epoch = k PROVE StopsAt(s, p)
  <2>1. StopsAt(s, o) BY <1>1, <1>5 DEF Stops
  <2>2. ~Lost(o) BY DEF Lost
  <2> QED BY <2>1, <2>2, <1>2 DEF StopsAt
<1>6. Ended(p) <=> Ended(o) BY <1>2 DEF Ended
<1>7. o.closed => ~p.hold BY <1>1, <1>2 DEF OrderOf
<1> QED BY <1>1, <1>2, <1>3, <1>4, <1>5, <1>6, <1>7

LEMMA RefuseStep ==
  ASSUME Inv(discord), NEW k \in DOMAIN discord.owner, RefuseSend(k)
  PROVE  Inv(discord')
<1> DEFINE s == discord
           o == s.owner[k]
           u == Less(s, k)
           h == First(k)
           rs == {h.arg}
           t == Answer(u, rs)
<1>1. MostInv(s) /\ Leaving(s) /\ Listens(k) /\ h.type = "send"
  BY DEF Inv, RefuseSend, Handles, First
<1>2. /\ s \in State /\ RowIs(s) /\ RowOf(s, k, o) /\ OrderOf(o, k = s.session, s.closed)
      /\ Once(o) /\ Unanswered(s, o) /\ o \in OwnerState
      /\ o.queue # <<>> /\ o.at = NoMessage /\ NoMessage.type = "none"
      /\ h = Head(o.queue) /\ Taken(k) = u /\ h \in Messages /\ h \in Elems(o.queue)
      /\ Flights(s)
  BY <1>1, Takes
<1>3. PICK p : /\ Only(s, u, k, p) /\ SameFlags(o, p)
               /\ p.queue = Tail(o.queue) /\ p.tasks = o.tasks /\ p.at = o.at
               /\ Elems(o.queue) = {h} \cup Elems(p.queue)
               /\ EndersLast(o.queue) => EndersLast(p.queue)
               /\ SendsOnce(o.queue) => SendsOnce(p.queue)
               /\ SendsOnce(o.queue) /\ h.type = "send" => h \notin Elems(p.queue)
  BY <1>2, LessParts
<1>4. discord' = t BY <1>2 DEF RefuseSend
<1>5. /\ p.sends = o.sends /\ p.retired = o.retired /\ p.revoked = o.revoked
      /\ p.ready = o.ready /\ p.closed = o.closed /\ p.leaving = o.leaving
  BY <1>3 DEF SameFlags
<1>6. u \in State /\ u.gate = s.gate /\ SameAdapter(s, u) /\ SameTalk(s, u)
      /\ Becomes(s, u, k, p) /\ p \in OwnerState
  BY <1>3 DEF Only, SameGate
<1>7. /\ t \in State /\ t.owner = u.owner /\ t.gate = u.gate
      /\ SameAdapter(u, t) /\ t.account = u.account /\ t.stops = u.stops
      /\ t.lateLinked = u.lateLinked
      /\ DOMAIN t.answers = DOMAIN u.answers
      /\ \A r \in DOMAIN u.answers :
           t.answers[r] = (IF r \in rs THEN u.answers[r] + 1 ELSE u.answers[r])
  <2> HIDE DEF u, rs
  <2> QED BY <1>6, AnswerParts
<1> HIDE DEF u, t, o, h
<1>8. /\ t.gate = s.gate /\ SameAdapter(s, t) /\ Becomes(s, t, k, p)
      /\ t.account = s.account /\ t.stops = s.stops /\ t.lateLinked = s.lateLinked
      /\ DOMAIN t.answers = DOMAIN s.answers
      /\ \A r \in DOMAIN s.answers :
           t.answers[r] = (IF r = h.arg THEN s.answers[r] + 1 ELSE s.answers[r])
  BY <1>6, <1>7 DEF SameAdapter, SameTalk, Becomes, Newest
<1>9. Moves(s, t, k, p) BY <1>6, <1>7, <1>8 DEF Moves
<1>10. h \in Letters(o) /\ h.result = "none" /\ h = Message("send", h.arg)
  <2>1. h \in Letters(o) BY <1>1, <1>2 DEF Letters
  <2>2. h.result = "none" BY <1>2, <2>1 DEF Unanswered
  <2> QED BY <1>2, <2>1, <2>2, LetterForm
<1>11. /\ p.sends \subseteq DOMAIN s.answers
       /\ \A r : Carries(o, r) => Carries(p, r)
       /\ Closer(p) => Closer(o)
       /\ s.closed /\ k = Newest(s) /\ s.gate.epoch = k => StopsAt(s, p)
       /\ Ended(p) <=> Ended(o)
       /\ o.closed => ~p.hold
  <2>1. /\ Elems(p.queue) \subseteq Elems(o.queue)
        /\ \A m \in Elems(o.queue) : m.type \in {"shutdown", "post"} => m \in Elems(p.queue)
    BY <1>1, <1>3
  <2> QED BY <1>1, <1>2, <1>3, <2>1, FlagsKeep DEF o
<1>12. Letters(p) = Letters(o) \ {h}
  <2>1. h \notin Elems(p.queue) BY <1>1, <1>2, <1>3 DEF Once
  <2> QED BY <1>1, <1>2, <1>3, <2>1 DEF Letters
<1>13. SendsMove(s, t, o, p)
  <2>1. ASSUME NEW r \in DOMAIN s.answers PROVE Kept(s, t, o, p, r) \/ Replied(s, t, o, p, r)
    <3>1. CASE r = h.arg
      <4>1. r \notin s.gate.inflight BY <3>1, <1>2, <1>10 DEF Unanswered
      <4> QED BY <3>1, <4>1, <1>8, <1>10, <1>12 DEF Replied
    <3>2. CASE r # h.arg
      <4>1. Message("send", r) # h BY <3>2 DEF Message
      <4> QED BY <3>2, <4>1, <1>8, <1>11, <1>12 DEF Kept
    <3> QED BY <3>1, <3>2
  <2>2. Once(p) BY <1>2, <1>3 DEF Once
  <2>3. s.gate.inflight \subseteq DOMAIN s.answers /\ (s.gate.inflight # {} => s.gate.open)
    BY <1>2 DEF Flights
  <2> QED BY <1>8, <1>11, <1>12, <2>1, <2>2, <2>3 DEF SendsMove
<1>14. OrderOf(p, k = s.session, s.closed) BY <1>2, <1>3, <1>5, <1>11 DEF OrderOf
<1>15. s.closed /\ k = Newest(s) /\ s.gate.epoch = k => StopsAt(t, p)
  BY <1>8, <1>11 DEF StopsAt, SameAdapter
<1>16. RowOf(t, k, p) BY <1>2, <1>3, <1>5, <1>8 DEF RowOf, SameAdapter, Becomes
<1>17. /\ t.account = "unlinked" => s.account = "unlinked" \/ ~t.gate.open
       /\ ~t.gate.open /\ ~t.lateLinked /\ ~s.closed => t.account = "unlinked"
       /\ t.account = "linked" /\ ~t.lateLinked =>
            (s.account = "linked" /\ ~s.lateLinked) \/ s.session \in {0, k}
  BY <1>2, <1>8 DEF RowIs
<1>18. MostInv(t)
  BY <1>1, <1>8, <1>9, <1>11, <1>13, <1>14, <1>15, <1>16, <1>17, MovesKeep DEF o
<1>19. Leaves(o, s.active) => Leaves(p, s.active)
  <2>1. h # Message("disconnect", s.active) /\ h # Message("disconnectWait", 0)
    BY <1>1 DEF Message
  <2> QED BY <1>3, <1>5, <2>1 DEF Leaves
<1>20. NeedsEnd(t) => NeedsEnd(s) BY <1>8 DEF NeedsEnd, SameAdapter
<1>21. Leaving(t) BY <1>1, <1>2, <1>9, <1>19, <1>20, MovesLeave DEF o
<1> QED BY <1>4, <1>18, <1>21 DEF Inv

(* The owner takes its first message and goes on with it after a check.     *)
LEMMA BeginsKeep ==
  ASSUME Inv(discord), NEW k \in DOMAIN discord.owner, Listens(k),
         First(k).type \in {"send", "list"},
         First(k).type = "list" => ~discord.owner[k].revoked,
         discord' = [Taken(k) EXCEPT !.owner[k].at = First(k)]
  PROVE  Inv(discord')
<1> DEFINE s == discord
           o == s.owner[k]
           u == Less(s, k)
           h == First(k)
           t == SetAt(u, k, h)
<1>1. MostInv(s) /\ Leaving(s) BY DEF Inv
<1>2. /\ s \in State /\ RowOf(s, k, o) /\ OrderOf(o, k = s.session, s.closed)
      /\ Once(o) /\ o \in OwnerState
      /\ o.queue # <<>> /\ o.at = NoMessage /\ NoMessage.type = "none"
      /\ h = Head(o.queue) /\ Taken(k) = u /\ h \in Messages /\ h \in Elems(o.queue)
      /\ Ended(o) => h.type \notin {"send", "disconnect"}
  BY <1>1, Takes
<1>3. PICK p : /\ Only(s, u, k, p) /\ SameFlags(o, p)
               /\ p.queue = Tail(o.queue) /\ p.tasks = o.tasks /\ p.at = o.at
               /\ Elems(o.queue) = {h} \cup Elems(p.queue)
               /\ EndersLast(o.queue) => EndersLast(p.queue)
               /\ SendsOnce(o.queue) => SendsOnce(p.queue)
               /\ SendsOnce(o.queue) /\ h.type = "send" => h \notin Elems(p.queue)
  BY <1>2, LessParts
<1>4. discord' = t BY <1>2 DEF SetAt
<1>5. u \in State /\ k \in DOMAIN u.owner /\ u.owner[k] = p BY <1>3 DEF Only, Becomes
<1> HIDE DEF u, o, h
<1>6. PICK q : /\ Only(u, t, k, q) /\ SameFlags(u.owner[k], q) /\ q.at = h
               /\ q.queue = u.owner[k].queue /\ q.tasks = u.owner[k].tasks
  BY <1>2, <1>5, SetAtParts
<1> HIDE DEF t
<1>7. Only(s, t, k, q)
  <2>1. Only(s, u, k, p) BY <1>3
  <2>2. Only(u, t, k, q) BY <1>6
  <2> QED BY <2>1, <2>2, OnlyTwice
<1>8. SameFlags(o, q) BY <1>3, <1>5, <1>6 DEF SameFlags
<1>9. /\ q.queue = p.queue /\ q.tasks = o.tasks /\ q.at = h
      /\ q.retired = o.retired /\ q.revoked = o.revoked /\ q.closed = o.closed
      /\ q.ready = o.ready /\ q.leaving = o.leaving
  BY <1>3, <1>5, <1>6, <1>8 DEF SameFlags
<1>10. h.type \in {"send", "list"} /\ (h.type = "list" => ~o.revoked) BY DEF h, o
<1>11. /\ q.sends \subseteq DOMAIN s.answers
       /\ \A r : Carries(o, r) => Carries(q, r)
       /\ Closer(q) => Closer(o)
       /\ s.closed /\ k = Newest(s) /\ s.gate.epoch = k => StopsAt(s, q)
       /\ Ended(q) <=> Ended(o)
       /\ o.closed => ~q.hold
  <2>1. /\ Elems(q.queue) \subseteq Elems(o.queue)
        /\ \A m \in Elems(o.queue) : m.type \in {"shutdown", "post"} => m \in Elems(q.queue)
    BY <1>3, <1>9, <1>10
  <2> QED BY <1>1, <1>2, <1>8, <1>9, <2>1, FlagsKeep DEF o
<1>12. OrderOf(q, k = s.session, s.closed) BY <1>2, <1>3, <1>9, <1>10, <1>11 DEF OrderOf
<1>13. Letters(q) = Letters(o) BY <1>2, <1>3, <1>9 DEF Letters
<1>14. Once(q) BY <1>2, <1>3, <1>9 DEF Once
<1>15. RowOf(s, k, q) BY <1>2, <1>9, <1>10 DEF RowOf
<1>16. MostInv(t) BY <1>1, <1>7, <1>11, <1>12, <1>13, <1>14, <1>15, OnlyKeeps DEF o
<1>17. Leaves(o, s.active) => Leaves(q, s.active)
  <2>1. h # Message("disconnect", s.active) /\ h # Message("disconnectWait", 0)
    BY <1>10 DEF Message
  <2> QED BY <1>3, <1>9, <2>1 DEF Leaves
<1>18. Leaving(t) BY <1>1, <1>2, <1>7, <1>17, OnlyLeaves DEF o
<1> QED BY <1>4, <1>16, <1>18 DEF Inv

LEMMA CheckStep ==
  ASSUME Inv(discord), NEW k \in DOMAIN discord.owner, CheckSend(k)
  PROVE  Inv(discord')
BY BeginsKeep DEF CheckSend, Handles, First

LEMMA ListStep ==
  ASSUME Inv(discord), NEW k \in DOMAIN discord.owner, ListDone(k)
  PROVE  Inv(discord')
<1> DEFINE u == Less(discord, k)
<1>1. Listens(k) /\ First(k).type = "list" BY DEF ListDone, Handles, First
<1>2. MostInv(discord) BY DEF Inv
<1>3. Inv(u) /\ u \in State /\ k \in DOMAIN u.owner /\ \A t : Grows(u, t, k) => Inv(t)
  BY <1>1, LessGrows
<1>4. Taken(k) = u BY <1>1, <1>2, Takes
<1>5. \/ discord' = u \/ discord' = SettleUnauthorized(u, k)
      \/ /\ discord' = [Taken(k) EXCEPT !.owner[k].at = First(k)]
         /\ ~discord.owner[k].revoked
  BY <1>4 DEF ListDone, Publishes
<1> HIDE DEF u
<1>6. Grows(u, SettleUnauthorized(u, k), k) BY <1>3, SettleGrows
<1> QED BY <1>1, <1>3, <1>5, <1>6, BeginsKeep

(* What the owner knows of the message that it is at.                       *)
LEMMA AtParts ==
  ASSUME NEW s, NEW k \in DOMAIN s.owner, MostInv(s), s.owner[k].at # NoMessage
  PROVE  LET o == s.owner[k]
         IN  /\ s \in State /\ Places(s) /\ Stops(s) /\ RowIs(s) /\ Flights(s)
             /\ RowOf(s, k, o) /\ OrderOf(o, k = s.session, s.closed)
             /\ Once(o) /\ Unanswered(s, o) /\ o \in OwnerState
             /\ o.sends \subseteq DOMAIN s.answers
             /\ NoMessage \in Messages /\ NoMessage.type = "none"
             /\ \E p : /\ Only(s, SetAt(s, k, NoMessage), k, p) /\ SameFlags(o, p)
                       /\ p.at = NoMessage /\ p.queue = o.queue /\ p.tasks = o.tasks
<1> DEFINE o == s.owner[k]
<1>1. /\ s \in State /\ Places(s) /\ Stops(s) /\ RowIs(s) /\ Flights(s)
      /\ OrderOf(o, k = s.session, s.closed) /\ RowOf(s, k, o)
      /\ Once(o) /\ Unanswered(s, o) /\ o \in OwnerState
      /\ o.sends \subseteq DOMAIN s.answers
  BY OwnerTypes DEF MostInv, Ordered, RowIs, Flights, Waiting
<1>2. NoMessage \in Messages /\ NoMessage.type = "none"
  BY DEF NoMessage, Message, Messages, Results
<1>3. \E p : /\ Only(s, SetAt(s, k, NoMessage), k, p) /\ SameFlags(o, p)
             /\ p.at = NoMessage /\ p.queue = o.queue /\ p.tasks = o.tasks
  BY <1>1, <1>2, SetAtParts
<1> QED BY <1>1, <1>2, <1>3

LEMMA PublishStep ==
  ASSUME Inv(discord), NEW k \in DOMAIN discord.owner, PublishChannels(k)
  PROVE  Inv(discord')
<1> DEFINE s == discord
           o == s.owner[k]
           u == SetAt(s, k, NoMessage)
<1>1. MostInv(s) /\ Leaving(s) /\ o.at.type = "list" BY DEF Inv, PublishChannels
<1>2. o.at # NoMessage BY <1>1 DEF NoMessage, Message
<1>3. /\ s \in State /\ Places(s) /\ Stops(s) /\ RowIs(s) /\ Flights(s)
      /\ RowOf(s, k, o) /\ OrderOf(o, k = s.session, s.closed)
      /\ Once(o) /\ o \in OwnerState /\ NoMessage.type = "none"
  BY <1>1, <1>2, AtParts
<1>4. PICK p : /\ Only(s, u, k, p) /\ SameFlags(o, p)
               /\ p.at = NoMessage /\ p.queue = o.queue /\ p.tasks = o.tasks
  BY <1>1, <1>2, AtParts
<1> DEFINE yes == TRUE
           late == s.lateLinked \/ o.retired
           name == "linked"
           q == [p EXCEPT !.ready = yes]
           v == SetOwner(u, k, q)
           t == [v EXCEPT !.account = name, !.lateLinked = late]
<1>5. p \in OwnerState /\ u \in State /\ u.owner[k] = p /\ k \in DOMAIN u.owner
  BY <1>4 DEF Only, Becomes
<1>6. yes \in BOOLEAN /\ yes = TRUE /\ late \in BOOLEAN /\ name = "linked"
      /\ name \in {"unlinked", "linking", "linked"}
  BY <1>3 DEF OwnerState, State
<1>7. discord' = t
  <2>1. s.owner \in Seq(OwnerState) /\ u.owner \in Seq(OwnerState) BY <1>3, <1>5, OwnerTypes
  <2> QED BY <2>1, <1>3, <1>5 DEF PublishChannels, SetOwner, SetAt, State
<1> HIDE DEF o, u, yes, late, name
<1>8. /\ q \in OwnerState /\ q.ready = yes /\ q.queue = p.queue /\ q.tasks = p.tasks
      /\ q.at = p.at /\ q.sends = p.sends
      /\ q.retired = p.retired /\ q.revoked = p.revoked /\ q.leaving = p.leaving
      /\ q.end = p.end /\ q.shutdown = p.shutdown /\ q.closed = p.closed
      /\ q.stopped = p.stopped /\ q.hold = p.hold /\ q.done = p.done
  BY <1>5, <1>6 DEF OwnerState
<1> HIDE DEF q
<1>9. Only(u, v, k, q) BY <1>5, <1>8, SetOwnerParts
<1> HIDE DEF v
<1>10. Only(s, v, k, q)
  <2>1. Only(s, u, k, p) BY <1>4
  <2> QED BY <2>1, <1>9, OnlyTwice
<1>11. /\ t \in State /\ t.gate = v.gate /\ t.owner = v.owner /\ SameAdapter(v, t)
       /\ t.account = name /\ t.lateLinked = late /\ t.stops = v.stops
       /\ t.answers = v.answers
  BY <1>6, <1>10 DEF Only, State, SameAdapter
<1> HIDE DEF t
<1>12. /\ t.gate = s.gate /\ SameAdapter(s, t) /\ Becomes(s, t, k, q)
       /\ t.account = "linked" /\ t.stops = s.stops /\ t.answers = s.answers
       /\ t.lateLinked = late /\ q \in OwnerState
  BY <1>6, <1>10, <1>11
  DEF Only, SameGate, SameAdapter, SameTalk, Becomes, Newest
<1>13. Moves(s, t, k, q) BY <1>11, <1>12 DEF Moves
<1>14. /\ q.sends = o.sends /\ q.queue = o.queue /\ q.tasks = o.tasks /\ q.at = NoMessage
       /\ q.retired = o.retired /\ q.revoked = o.revoked /\ q.leaving = o.leaving
       /\ q.end = o.end /\ q.shutdown = o.shutdown /\ q.closed = o.closed
       /\ q.stopped = o.stopped /\ q.hold = o.hold /\ q.done = o.done /\ q.ready = TRUE
  BY <1>4, <1>6, <1>8 DEF SameFlags
<1>15. Letters(q) = Letters(o) /\ Once(q) BY <1>1, <1>3, <1>14 DEF Letters, Once
<1>16. SendsMove(s, t, o, q)
  <2>1. \A r \in DOMAIN s.answers : Kept(s, t, o, q, r)
    BY <1>12, <1>14, <1>15 DEF Kept, Carries
  <2>2. s.gate.inflight \subseteq DOMAIN s.answers /\ (s.gate.inflight # {} => s.gate.open)
        /\ o.sends \subseteq DOMAIN s.answers
    BY <1>3 DEF Flights, o
  <2> QED BY <1>12, <1>14, <1>15, <2>1, <2>2 DEF SendsMove
<1>17. Ended(q) <=> Ended(o) BY <1>14 DEF Ended
<1>18. OrderOf(q, k = s.session, s.closed) BY <1>3, <1>14, <1>17 DEF OrderOf
<1>19. Closer(q) => Closer(o) BY <1>14 DEF Closer
<1>20. ASSUME s.closed, k = Newest(s), s.gate.epoch = k PROVE StopsAt(t, q)
  <2>1. StopsAt(s, o) BY <1>3, <1>20 DEF Stops, o
  <2>2. ~Lost(o) BY <1>2 DEF Lost, o
  <2> QED BY <2>1, <2>2, <1>12, <1>14 DEF StopsAt, SameAdapter
(* An owner that is not of the session says so, unless the app closed.      *)
<1>21. o.retired \/ k = s.session \/ s.closed BY <1>3 DEF OrderOf
<1>22. t.account = "linked" /\ ~t.lateLinked =>
         (s.account = "linked" /\ ~s.lateLinked) \/ s.session \in {0, k}
  <2>1. s.closed => s.session = 0 BY <1>3 DEF Stops
  <2> QED BY <1>12, <1>21, <2>1 DEF late
<1>23. ~t.gate.open /\ ~t.lateLinked /\ ~s.closed => t.account = "unlinked"
  <2> SUFFICES ASSUME ~t.gate.open, ~t.lateLinked, ~s.closed PROVE FALSE OBVIOUS
  <2>1. k = s.session /\ ~o.retired BY <1>12, <1>21 DEF late
  <2>2. ~o.revoked BY <1>1, <1>3, <2>1 DEF RowOf
  <2> QED BY <1>3, <1>12, <2>1, <2>2 DEF RowOf
<1>24. RowOf(t, k, q) BY <1>3, <1>12, <1>14 DEF RowOf, SameAdapter, Becomes
<1>25. MostInv(t)
  <2>1. /\ t.stops = s.stops \/ (s.closed /\ k = Newest(s) /\ s.gate.epoch = k)
        /\ t.account = "unlinked" => s.account = "unlinked" \/ ~t.gate.open
    BY <1>12
  <2> QED BY <1>1, <1>13, <1>16, <1>18, <1>19, <1>20, <1>22, <1>23, <1>24, <2>1, MovesKeep DEF o
<1>26. NeedsEnd(t) => NeedsEnd(s)
  <2> SUFFICES ASSUME NeedsEnd(t) PROVE FALSE OBVIOUS
  <2>1. s.session = 0 /\ ~s.closed /\ ~t.lateLinked BY <1>12 DEF NeedsEnd, SameAdapter
  <2>2. k # 0 BY <1>3, OwnerTypes
  <2> QED BY <2>1, <2>2, <1>12, <1>21 DEF late
<1>27. Leaves(o, s.active) => Leaves(q, s.active) BY <1>14 DEF Leaves
<1>28. Leaving(t) BY <1>1, <1>3, <1>13, <1>26, <1>27, MovesLeave DEF o
<1> QED BY <1>7, <1>25, <1>28 DEF Inv

LEMMA RegisterStep ==
  ASSUME Inv(discord), NEW k \in DOMAIN discord.owner, Register(k)
  PROVE  Inv(discord')
<1> DEFINE s == discord
           o == s.owner[k]
           u == SetAt(s, k, NoMessage)
           r == o.at.arg
           rs == {r}
<1>1. MostInv(s) /\ Leaving(s) /\ o.at.type = "send" BY DEF Inv, Register
<1>2. o.at # NoMessage BY <1>1 DEF NoMessage, Message
<1>3. /\ s \in State /\ Places(s) /\ Stops(s) /\ RowIs(s) /\ Flights(s)
      /\ RowOf(s, k, o) /\ OrderOf(o, k = s.session, s.closed)
      /\ Once(o) /\ Unanswered(s, o) /\ o \in OwnerState /\ NoMessage.type = "none"
      /\ o.sends \subseteq DOMAIN s.answers
  BY <1>1, <1>2, AtParts
<1>4. PICK p : /\ Only(s, u, k, p) /\ SameFlags(o, p)
               /\ p.at = NoMessage /\ p.queue = o.queue /\ p.tasks = o.tasks
  BY <1>1, <1>2, AtParts
<1>5. /\ p \in OwnerState /\ u \in State /\ u.owner[k] = p /\ k \in DOMAIN u.owner
      /\ u.gate = s.gate /\ SameAdapter(s, u) /\ SameTalk(s, u) /\ Becomes(s, u, k, p)
  BY <1>4 DEF Only, Becomes, SameGate
<1>6. o.at \in Letters(o) /\ o.at = Message("send", r) /\ r \in Nat
      /\ r \in DOMAIN s.answers /\ r \notin s.gate.inflight
  <2>1. o.at \in Letters(o) BY <1>1 DEF Letters
  <2>2. o.at.result = "none" /\ r \in DOMAIN s.answers /\ r \notin s.gate.inflight
    BY <1>3, <2>1 DEF Unanswered
  <2>3. o.at \in Messages BY <1>3 DEF OwnerState
  <2>4. r \in Nat BY <2>3 DEF Messages
  <2> QED BY <1>3, <2>1, <2>2, <2>4, LetterForm
<1>7. SameFlags(o, p) /\ p.queue = o.queue /\ p.tasks = o.tasks /\ p.at = NoMessage
  BY <1>4
<1>8. /\ p.sends = o.sends /\ p.ready = o.ready /\ p.retired = o.retired
      /\ p.revoked = o.revoked /\ p.leaving = o.leaving /\ p.end = o.end
      /\ p.shutdown = o.shutdown /\ p.closed = o.closed /\ p.stopped = o.stopped
      /\ p.done = o.done /\ p.hold = o.hold
  BY <1>7 DEF SameFlags
<1>9. CASE ~HasGate(s, k)
  <2> DEFINE t == Answer(u, rs)
  <2>1. discord' = t BY <1>9 DEF Register, SetAt
  <2>2. /\ t \in State /\ t.owner = u.owner /\ t.gate = u.gate
        /\ SameAdapter(u, t) /\ t.account = u.account /\ t.stops = u.stops
        /\ t.lateLinked = u.lateLinked
        /\ DOMAIN t.answers = DOMAIN u.answers
        /\ \A x \in DOMAIN u.answers :
             t.answers[x] = (IF x \in rs THEN u.answers[x] + 1 ELSE u.answers[x])
    <3> HIDE DEF u, rs
    <3> QED BY <1>5, AnswerParts
  <2> HIDE DEF t, u, o, r
  <2>3. /\ t.gate = s.gate /\ SameAdapter(s, t) /\ Becomes(s, t, k, p)
        /\ t.account = s.account /\ t.stops = s.stops /\ t.lateLinked = s.lateLinked
        /\ DOMAIN t.answers = DOMAIN s.answers
        /\ \A x \in DOMAIN s.answers :
             t.answers[x] = (IF x = r THEN s.answers[x] + 1 ELSE s.answers[x])
    BY <1>5, <2>2 DEF SameAdapter, SameTalk, Becomes, Newest
  <2>4. Moves(s, t, k, p) BY <1>5, <2>2, <2>3 DEF Moves
  <2>5. Letters(p) = Letters(o) \ {o.at} BY <1>1, <1>3, <1>7 DEF Letters, Once
  <2>6. SendsMove(s, t, o, p)
    <3>1. ASSUME NEW x \in DOMAIN s.answers
          PROVE  Kept(s, t, o, p, x) \/ Replied(s, t, o, p, x)
      <4>1. CASE x = r BY <4>1, <1>6, <2>3, <2>5 DEF Replied
      <4>2. CASE x # r
        <5>1. Message("send", x) # o.at BY <4>2, <1>6 DEF Message
        <5>2. Carries(o, x) => Carries(p, x) BY <1>7, <1>8 DEF Carries
        <5> QED BY <4>2, <5>1, <5>2, <2>3, <2>5 DEF Kept
      <4> QED BY <4>1, <4>2
    <3>2. Once(p) BY <1>3, <1>7 DEF Once
    <3>3. s.gate.inflight \subseteq DOMAIN s.answers /\ (s.gate.inflight # {} => s.gate.open)
      BY <1>3 DEF Flights
    <3> QED BY <1>3, <1>8, <2>3, <2>5, <3>1, <3>2, <3>3 DEF SendsMove
  <2>7. Ended(p) <=> Ended(o) BY <1>8 DEF Ended
  <2>8. OrderOf(p, k = s.session, s.closed) BY <1>3, <1>7, <1>8, <2>7 DEF OrderOf
  <2>9. Closer(p) => Closer(o) BY <1>7, <1>8 DEF Closer
  <2>10. ASSUME s.closed, k = Newest(s), s.gate.epoch = k PROVE StopsAt(t, p)
    <3>1. StopsAt(s, o) BY <1>3, <2>10 DEF Stops, o
    <3>2. ~Lost(o) BY <1>2 DEF Lost, o
    <3> QED BY <3>1, <3>2, <1>7, <1>8, <2>3 DEF StopsAt, SameAdapter
  <2>11. RowOf(t, k, p) BY <1>3, <1>7, <1>8, <2>3 DEF RowOf, SameAdapter, Becomes
  <2>12. /\ t.account = "unlinked" => s.account = "unlinked" \/ ~t.gate.open
         /\ ~t.gate.open /\ ~t.lateLinked /\ ~s.closed => t.account = "unlinked"
         /\ t.account = "linked" /\ ~t.lateLinked =>
              (s.account = "linked" /\ ~s.lateLinked) \/ s.session \in {0, k}
    BY <1>3, <2>3 DEF RowIs
  <2>13. MostInv(t)
    BY <1>1, <2>3, <2>4, <2>6, <2>8, <2>9, <2>10, <2>11, <2>12, MovesKeep DEF o
  <2>14. NeedsEnd(t) => NeedsEnd(s) BY <2>3 DEF NeedsEnd, SameAdapter
  <2>15. Leaves(o, s.active) => Leaves(p, s.active) BY <1>7, <1>8 DEF Leaves
  <2>16. Leaving(t) BY <1>1, <1>3, <2>4, <2>14, <2>15, MovesLeave DEF o
  <2> QED BY <2>1, <2>13, <2>16 DEF Inv
<1>10. CASE HasGate(s, k)
  <2> DEFINE x == p.sends \cup {r}
             y == p.tasks \cup {Message("post", r)}
             z == s.gate.inflight \cup {r}
             q == [p EXCEPT !.sends = x, !.tasks = y]
             v == SetOwner(u, k, q)
             t == [v EXCEPT !.gate.inflight = z]
  <2>1. discord' = t
    <3>1. s.owner \in Seq(OwnerState) /\ u.owner \in Seq(OwnerState) BY <1>3, <1>5, OwnerTypes
    <3>2. discord' = [u EXCEPT !.owner[k].sends = @ \cup {r},
                               !.owner[k].tasks = @ \cup {Message("post", r)},
                               !.gate.inflight = @ \cup {r}]
      BY <1>10 DEF Register, SetAt
    <3> HIDE DEF u
    <3>3. discord' = [u EXCEPT !.owner[k].sends = x, !.owner[k].tasks = y,
                               !.gate.inflight = z]
      BY <3>1, <3>2, <1>5
    <3> HIDE DEF x, y, z
    <3> QED BY <3>1, <3>3, <1>5 DEF SetOwner, State
  <2> HIDE DEF o, u
  <2>2. x \in SUBSET Nat /\ y \in SUBSET Tasks /\ z \in SUBSET Nat
    <3>1. p.sends \in SUBSET Nat /\ p.tasks \in SUBSET Tasks BY <1>5 DEF OwnerState
    <3>2. Message("post", r) \in Tasks BY <1>6 DEF Message, Tasks, TaskTypes
    <3>3. s.gate.inflight \in SUBSET Nat BY <1>3 DEF State
    <3> QED BY <1>6, <3>1, <3>2, <3>3
  <2> HIDE DEF x, y, z
  <2>3. /\ q \in OwnerState /\ q.sends = x /\ q.tasks = y
        /\ q.queue = p.queue /\ q.at = p.at /\ q.ready = p.ready
        /\ q.retired = p.retired /\ q.revoked = p.revoked /\ q.leaving = p.leaving
        /\ q.end = p.end /\ q.shutdown = p.shutdown /\ q.closed = p.closed
        /\ q.stopped = p.stopped /\ q.hold = p.hold /\ q.done = p.done
    BY <1>5, <2>2 DEF OwnerState
  <2> HIDE DEF q
  <2>4. Only(u, v, k, q) BY <1>5, <2>3, SetOwnerParts
  <2> HIDE DEF v
  <2>5. /\ t \in State /\ t.owner = v.owner /\ SameAdapter(v, t) /\ SameTalk(v, t)
        /\ t.gate.inflight = z /\ t.gate.open = v.gate.open /\ t.gate.epoch = v.gate.epoch
    BY <2>2, <2>4 DEF Only, State, SameAdapter, SameTalk
  <2> HIDE DEF t
  <2>6. /\ SameAdapter(s, t) /\ Becomes(s, t, k, q) /\ SameTalk(s, t)
        /\ t.gate.inflight = z /\ t.gate.open = s.gate.open /\ t.gate.epoch = s.gate.epoch
    BY <1>5, <2>4, <2>5 DEF Only, SameGate, SameAdapter, SameTalk, Becomes, Newest
  <2>7. s.gate.open /\ s.gate.epoch = k /\ k = Newest(s) BY <1>3, <1>10, GateIsNewest
  <2>8. ~o.closed BY <1>3, <2>7 DEF RowOf
  <2>9. /\ q.sends = o.sends \cup {r} /\ q.tasks = o.tasks \cup {Message("post", r)}
        /\ q.queue = o.queue /\ q.at = NoMessage /\ q.ready = o.ready
        /\ q.retired = o.retired /\ q.revoked = o.revoked /\ q.leaving = o.leaving
        /\ q.end = o.end /\ q.shutdown = o.shutdown /\ q.closed = o.closed
        /\ q.stopped = o.stopped /\ q.hold = o.hold /\ q.done = o.done
    BY <1>7, <1>8, <2>3 DEF x, y
  <2>10. Moves(s, t, k, q) BY <2>3, <2>5, <2>6 DEF Moves
  <2>11. Letters(q) = Letters(o) \ {o.at} BY <1>1, <1>3, <2>9 DEF Letters, Once
  <2>12. SendsMove(s, t, o, q)
    <3>1. ASSUME NEW n \in DOMAIN s.answers
          PROVE  Kept(s, t, o, q, n) \/ Posted(s, t, o, q, n)
      <4>1. CASE n = r
        <5>1. Message("post", r).type = "post" /\ Message("post", r).arg = r BY DEF Message
        <5>2. Carries(q, n) BY <4>1, <5>1, <2>8, <2>9 DEF Carries
        <5> QED BY <4>1, <5>2, <1>6, <2>6, <2>11 DEF Posted, SameTalk, z
      <4>2. CASE n # r
        <5>1. Message("send", n) # o.at BY <4>2, <1>6 DEF Message
        <5>2. Carries(o, n) => Carries(q, n) BY <2>9 DEF Carries
        <5> QED BY <4>2, <5>1, <5>2, <2>6, <2>11 DEF Kept, SameTalk, z
      <4> QED BY <4>1, <4>2
    <3>2. Once(q) BY <1>3, <2>9 DEF Once
    <3>3. s.gate.inflight \subseteq DOMAIN s.answers BY <1>3 DEF Flights
    <3> QED BY <1>3, <1>6, <2>6, <2>7, <2>9, <2>11, <3>1, <3>2, <3>3
        DEF SendsMove, SameTalk, z
  <2>13. Ended(q) <=> Ended(o) BY <2>9 DEF Ended
  <2>14. OrderOf(q, k = s.session, s.closed) BY <1>3, <2>9, <2>13 DEF OrderOf
  <2>15. Closer(q) => Closer(o) BY <2>9 DEF Closer
  <2>16. ASSUME s.closed PROVE StopsAt(t, q)
    <3>1. StopsAt(s, o) BY <1>3, <2>7, <2>16 DEF Stops, o
    <3>2. ~Lost(o) BY <1>2 DEF Lost, o
    <3> QED BY <3>1, <3>2, <2>6, <2>9 DEF StopsAt, SameAdapter, SameTalk
  <2>17. RowOf(t, k, q) BY <1>3, <2>6, <2>9 DEF RowOf, SameAdapter, SameTalk, Becomes
  <2>18. /\ t.stops = s.stops
         /\ t.account = "unlinked" => s.account = "unlinked" \/ ~t.gate.open
         /\ ~t.gate.open /\ ~t.lateLinked /\ ~s.closed => t.account = "unlinked"
         /\ t.account = "linked" /\ ~t.lateLinked =>
              (s.account = "linked" /\ ~s.lateLinked) \/ s.session \in {0, k}
    BY <1>3, <2>6 DEF RowIs, SameTalk
  <2>19. MostInv(t)
    BY <1>1, <2>10, <2>12, <2>14, <2>15, <2>16, <2>17, <2>18, MovesKeep DEF o
  <2>20. NeedsEnd(t) => NeedsEnd(s) BY <2>6 DEF NeedsEnd, SameAdapter, SameTalk
  <2>21. Leaves(o, s.active) => Leaves(q, s.active) BY <2>9 DEF Leaves
  <2>22. Leaving(t) BY <1>1, <1>3, <2>10, <2>20, <2>21, MovesLeave DEF o
  <2> QED BY <2>1, <2>19, <2>22 DEF Inv
<1> QED BY <1>9, <1>10

(* The result of a send, once the message is taken.                         *)
LEMMA AnswerKeeps ==
  ASSUME Inv(discord), NEW k \in DOMAIN discord.owner, Listens(k),
         First(k).type = "post", NEW result
  PROVE  LET t == AnswerSend(Taken(k), k, First(k).arg, result)
         IN  Inv(t) /\ k \in DOMAIN t.owner
<1> DEFINE s == discord
           o == s.owner[k]
           u == Less(s, k)
           h == First(k)
           r == h.arg
<1>1. MostInv(s) /\ Leaving(s) BY DEF Inv
<1>2. /\ s \in State /\ Places(s) /\ Stops(s) /\ RowIs(s) /\ Flights(s)
      /\ RowOf(s, k, o) /\ OrderOf(o, k = s.session, s.closed)
      /\ Once(o) /\ Unanswered(s, o) /\ o \in OwnerState
      /\ o.sends \subseteq DOMAIN s.answers
      /\ o.queue # <<>> /\ o.at = NoMessage /\ NoMessage.type = "none"
      /\ h = Head(o.queue) /\ Taken(k) = u /\ h \in Messages /\ h \in Elems(o.queue)
  BY <1>1, Takes
<1>3. PICK p : /\ Only(s, u, k, p) /\ SameFlags(o, p)
               /\ p.queue = Tail(o.queue) /\ p.tasks = o.tasks /\ p.at = o.at
               /\ Elems(o.queue) = {h} \cup Elems(p.queue)
               /\ EndersLast(o.queue) => EndersLast(p.queue)
               /\ SendsOnce(o.queue) => SendsOnce(p.queue)
  BY <1>2, LessParts
<1>4. /\ p \in OwnerState /\ u \in State /\ u.owner[k] = p /\ k \in DOMAIN u.owner
      /\ u.gate = s.gate /\ u.answers = s.answers
  BY <1>3 DEF Only, Becomes, SameGate, SameTalk
<1> DEFINE x == p.sends \ {r}
           q == [p EXCEPT !.sends = x]
           gone == SetOwner(u, k, q)
           rs == {r}
           v == Answer(gone, rs)
           z == gone.gate.inflight \ {r}
           w == [v EXCEPT !.gate.inflight = z]
<1>5. [u EXCEPT !.owner[k].sends = @ \ {r}] = gone BY <1>4 DEF SetOwner
<1>6. x \in SUBSET Nat /\ r \in Nat BY <1>2, <1>4 DEF OwnerState, Messages
<1> HIDE DEF o, u, h, x
<1>7. /\ q \in OwnerState /\ q.sends = x /\ q.tasks = p.tasks
      /\ q.queue = p.queue /\ q.at = p.at /\ q.ready = p.ready
      /\ q.retired = p.retired /\ q.revoked = p.revoked /\ q.leaving = p.leaving
      /\ q.end = p.end /\ q.shutdown = p.shutdown /\ q.closed = p.closed
      /\ q.stopped = p.stopped /\ q.hold = p.hold /\ q.done = p.done
  BY <1>4, <1>6 DEF OwnerState
<1> HIDE DEF q
<1>8. Only(u, gone, k, q) BY <1>4, <1>7, SetOwnerParts
<1> HIDE DEF gone
<1>9. Only(s, gone, k, q)
  <2>1. Only(s, u, k, p) BY <1>3
  <2> QED BY <2>1, <1>8, OnlyTwice
<1>10. gone \in State /\ k \in DOMAIN gone.owner /\ q \in OwnerState /\ gone.gate = s.gate
       /\ SameAdapter(s, gone) /\ SameTalk(s, gone) /\ Becomes(s, gone, k, q)
  BY <1>9 DEF Only, Becomes, SameGate
<1>11. /\ q.sends = o.sends \ {r} /\ q.tasks = o.tasks
       /\ q.queue = p.queue /\ q.at = NoMessage /\ q.ready = o.ready
       /\ q.retired = o.retired /\ q.revoked = o.revoked /\ q.leaving = o.leaving
       /\ q.end = o.end /\ q.shutdown = o.shutdown /\ q.closed = o.closed
       /\ q.stopped = o.stopped /\ q.hold = o.hold /\ q.done = o.done
       /\ Elems(o.queue) = {h} \cup Elems(q.queue)
       /\ EndersLast(o.queue) => EndersLast(q.queue)
       /\ SendsOnce(o.queue) => SendsOnce(q.queue)
  BY <1>2, <1>3, <1>7 DEF SameFlags, x
<1>12. h.type = "post" /\ r = h.arg BY DEF h
<1> HIDE DEF r
<1>13. /\ \A n : n # r /\ Carries(o, n) => Carries(q, n)
       /\ Letters(q) = Letters(o) /\ Once(q)
       /\ Closer(q) => Closer(o)
       /\ Ended(q) <=> Ended(o)
       /\ Leaves(o, s.active) => Leaves(q, s.active)
  <2>1. \A n : n # r /\ Carries(o, n) => Carries(q, n) BY <1>11, <1>12 DEF Carries
  <2>2. Letters(q) = Letters(o) BY <1>2, <1>11, <1>12 DEF Letters
  <2>3. Once(q) BY <1>2, <1>11 DEF Once
  <2>4. Closer(q) => Closer(o) BY <1>11 DEF Closer
  <2>5. Ended(q) <=> Ended(o) BY <1>11 DEF Ended
  <2>6. h # Message("disconnect", s.active) /\ h # Message("disconnectWait", 0)
    BY <1>12 DEF Message
  <2>7. Leaves(o, s.active) => Leaves(q, s.active) BY <1>11, <2>6 DEF Leaves
  <2> QED BY <2>1, <2>2, <2>3, <2>4, <2>5, <2>7
<1>14. OrderOf(q, k = s.session, s.closed) BY <1>2, <1>11, <1>13 DEF OrderOf
<1>15. ASSUME s.closed, k = Newest(s), s.gate.epoch = k PROVE StopsAt(s, q)
  <2>1. StopsAt(s, o) BY <1>2, <1>15 DEF Stops, o
  <2>2. ~Lost(o) BY <1>2 DEF Lost
  <2> QED BY <2>1, <2>2, <1>11, <1>12 DEF StopsAt
<1>16. RowOf(s, k, q) BY <1>2, <1>11 DEF RowOf
<1>17. q.sends \subseteq DOMAIN s.answers BY <1>2, <1>11
<1>18. CASE r \notin o.sends \/ ~s.gate.open \/ r \notin s.gate.inflight
  <2>1. AnswerSend(Taken(k), k, First(k).arg, result) = gone
    <3>1. u.owner[k].sends = o.sends BY <1>3, <1>4 DEF SameFlags
    <3>2. Taken(k) = u /\ First(k).arg = r BY <1>2 DEF h, r
    <3> QED BY <3>1, <3>2, <1>4, <1>5, <1>18 DEF AnswerSend, r
  <2>2. \A n \in s.gate.inflight : Carries(o, n) => Carries(q, n)
    <3>1. s.gate.inflight # {} => s.gate.open BY <1>2 DEF Flights
    <3>2. ~(r \in s.gate.inflight /\ Carries(o, r)) BY <3>1, <1>18 DEF Carries
    <3> QED BY <3>2, <1>13
  <2>3. MostInv(gone)
    BY <1>1, <1>9, <1>13, <1>14, <1>15, <1>16, <1>17, <2>2, OnlyKeeps DEF o
  <2>4. Leaving(gone) BY <1>1, <1>2, <1>9, <1>13, OnlyLeaves DEF o
  <2> QED BY <2>1, <2>3, <2>4, <1>10 DEF Inv
<1>19. CASE r \in o.sends /\ s.gate.open /\ r \in s.gate.inflight
  <2>1. /\ v \in State /\ v.owner = gone.owner /\ v.gate = gone.gate
        /\ SameAdapter(gone, v) /\ v.account = gone.account /\ v.stops = gone.stops
        /\ v.lateLinked = gone.lateLinked
        /\ DOMAIN v.answers = DOMAIN gone.answers
        /\ \A n \in DOMAIN gone.answers :
             v.answers[n] = (IF n \in rs THEN gone.answers[n] + 1 ELSE gone.answers[n])
    <3> HIDE DEF rs
    <3> QED BY <1>10, AnswerParts
  <2>2. \/ AnswerSend(Taken(k), k, First(k).arg, result) = w
        \/ AnswerSend(Taken(k), k, First(k).arg, result) = SettleUnauthorized(w, k)
    <3>1. u.owner[k].sends = o.sends BY <1>3, <1>4 DEF SameFlags
    <3>2. Taken(k) = u /\ First(k).arg = r BY <1>2 DEF h, r
    <3>3. [v EXCEPT !.gate.inflight = @ \ {r}] = w BY <2>1
    <3> HIDE DEF w, v
    <3>4. [Answer(gone, {r}) EXCEPT !.gate.inflight = @ \ {r}] = w BY <3>3 DEF v
    <3> QED BY <3>1, <3>2, <3>4, <1>4, <1>5, <1>19 DEF AnswerSend
  <2>3. z \in SUBSET Nat
    <3>1. s.gate.inflight \in SUBSET Nat BY <1>2 DEF State
    <3> QED BY <3>1, <1>10
  <2> HIDE DEF v, z
  <2>4. /\ w \in State /\ w.owner = v.owner /\ SameAdapter(v, w) /\ SameTalk(v, w)
        /\ w.gate.inflight = z /\ w.gate.open = v.gate.open /\ w.gate.epoch = v.gate.epoch
    BY <2>1, <2>3 DEF State, SameAdapter, SameTalk
  <2> HIDE DEF w
  <2>5. /\ SameAdapter(s, w) /\ Becomes(s, w, k, q)
        /\ w.account = s.account /\ w.stops = s.stops /\ w.lateLinked = s.lateLinked
        /\ w.gate.inflight = s.gate.inflight \ {r}
        /\ w.gate.open = s.gate.open /\ w.gate.epoch = s.gate.epoch
        /\ DOMAIN w.answers = DOMAIN s.answers
        /\ \A n \in DOMAIN s.answers :
             w.answers[n] = (IF n = r THEN s.answers[n] + 1 ELSE s.answers[n])
    BY <1>10, <2>1, <2>4 DEF SameAdapter, SameTalk, Becomes, Newest, z
  <2>6. Moves(s, w, k, q) BY <1>10, <2>4, <2>5 DEF Moves
  <2>7. SendsMove(s, w, o, q)
    <3>1. ASSUME NEW n \in DOMAIN s.answers
          PROVE  Kept(s, w, o, q, n) \/ Replied(s, w, o, q, n)
      <4>1. CASE n = r
        <5>1. Message("send", r).arg = r BY DEF Message
        <5>2. Message("send", r) \notin Letters(o) BY <5>1, <1>2, <1>19 DEF Unanswered
        <5> QED BY <4>1, <5>2, <1>13, <1>19, <2>5 DEF Replied
      <4>2. CASE n # r BY <4>2, <1>13, <2>5 DEF Kept
      <4> QED BY <4>1, <4>2
    <3>2. s.gate.inflight \subseteq DOMAIN s.answers /\ (s.gate.inflight # {} => s.gate.open)
      BY <1>2 DEF Flights
    <3> QED BY <1>13, <1>17, <2>5, <3>1, <3>2 DEF SendsMove
  <2>8. s.closed /\ k = Newest(s) /\ s.gate.epoch = k => StopsAt(w, q)
    BY <1>15, <2>5 DEF StopsAt, SameAdapter
  <2>9. RowOf(w, k, q) BY <1>16, <2>5 DEF RowOf, SameAdapter, Becomes
  <2>10. /\ w.stops = s.stops
         /\ w.account = "unlinked" => s.account = "unlinked" \/ ~w.gate.open
         /\ ~w.gate.open /\ ~w.lateLinked /\ ~s.closed => w.account = "unlinked"
         /\ w.account = "linked" /\ ~w.lateLinked =>
              (s.account = "linked" /\ ~s.lateLinked) \/ s.session \in {0, k}
    BY <1>2, <2>5 DEF RowIs
  <2>11. MostInv(w)
    BY <1>1, <1>13, <1>14, <2>6, <2>7, <2>8, <2>9, <2>10, MovesKeep DEF o
  <2>12. NeedsEnd(w) => NeedsEnd(s) BY <2>5 DEF NeedsEnd, SameAdapter
  <2>13. Leaving(w) BY <1>1, <1>2, <1>13, <2>6, <2>12, MovesLeave DEF o
  <2>14. k \in DOMAIN w.owner BY <2>5 DEF Becomes
  <2>15. Grows(w, SettleUnauthorized(w, k), k) BY <2>4, <2>14, SettleGrows
  <2>16. MostInv(SettleUnauthorized(w, k)) /\ Leaving(SettleUnauthorized(w, k))
         /\ k \in DOMAIN SettleUnauthorized(w, k).owner
    BY <2>11, <2>13, <2>14, <2>15, GrowsKeeps, GrowsParts
  <2> QED BY <2>2, <2>11, <2>13, <2>14, <2>16 DEF Inv
<1> QED BY <1>18, <1>19

LEMMA SendStep ==
  ASSUME Inv(discord), NEW k \in DOMAIN discord.owner, SendDone(k)
  PROVE  Inv(discord')
<1> DEFINE answered == AnswerSend(Taken(k), k, First(k).arg, First(k).result)
           sealed == IF ~Pending(answered) /\ answered.owner[k].unlink = "wait"
                       THEN StartSeal(answered, k) ELSE answered
           left == IF Pending(sealed) THEN sealed ELSE FinishDisconnect(sealed, k)
<1>1. Listens(k) /\ First(k).type = "post" /\ discord' = FinishShutdown(left, k)
  <2>1. Handles(k, "post") /\ discord' = FinishShutdown(left, k) BY DEF SendDone
  <2>2. Handles(k, "post") => Listens(k) /\ First(k).type = "post" BY DEF Handles, First
  <2> QED BY <2>1, <2>2
<1>2. Inv(answered) /\ k \in DOMAIN answered.owner BY <1>1, AnswerKeeps
<1> HIDE DEF answered
<1>3. Inv(sealed) /\ k \in DOMAIN sealed.owner
  <2>1. answered \in State BY <1>2 DEF Inv, MostInv
  <2>2. Grows(answered, StartSeal(answered, k), k) BY <1>2, <2>1, StartSealGrows
  <2>3. Inv(StartSeal(answered, k)) /\ k \in DOMAIN StartSeal(answered, k).owner
    BY <1>2, <2>2, GrowsKeeps, GrowsParts DEF Inv
  <2> QED BY <1>2, <2>3
<1> HIDE DEF sealed
<1>4. Inv(left) /\ k \in DOMAIN left.owner
  <2>1. AlmostLeaving(sealed, k) BY <1>3 DEF Inv, Leaving, AlmostLeaving
  <2>2. Inv(FinishDisconnect(sealed, k)) /\ k \in DOMAIN FinishDisconnect(sealed, k).owner
    BY <1>3, <2>1, FinishDisconnectKeeps DEF Inv
  <2> QED BY <1>3, <2>2
<1> HIDE DEF left
<1> QED BY <1>1, <1>4, FinishShutdownKeeps DEF Inv

(* The answers alone: the account stays open.                               *)
LEMMA RejectKeeps ==
  ASSUME NEW s, NEW k \in DOMAIN s.owner, Inv(s), HasGate(s, k)
  PROVE  Inv(RejectOpen(s, k)) /\ k \in DOMAIN RejectOpen(s, k).owner
<1> DEFINE o == s.owner[k]
           p == Sheds(s, o)
           t == RejectOpen(s, k)
<1>1. /\ MostInv(s) /\ Leaving(s) /\ s \in State /\ Places(s) /\ Stops(s) /\ RowIs(s)
      /\ RowOf(s, k, o) /\ OrderOf(o, k = s.session, s.closed) /\ Once(o)
      /\ o \in OwnerState
  BY OwnerTypes DEF Inv, MostInv, Ordered, RowIs, Waiting
<1>2. /\ t \in State /\ SameAdapter(s, t) /\ Becomes(s, t, k, p)
      /\ p \in OwnerState /\ Rejected(s, t)
      /\ t.gate.open = s.gate.open /\ t.gate.epoch = s.gate.epoch
      /\ t.account = s.account /\ t.stops = s.stops /\ t.lateLinked = s.lateLinked
  BY <1>1, RejectParts
<1>3. /\ p.sends \subseteq o.sends
      /\ p.queue = o.queue /\ p.tasks = o.tasks /\ p.at = o.at
      /\ p.retired = o.retired /\ p.revoked = o.revoked /\ p.closed = o.closed
      /\ p.shutdown = o.shutdown /\ p.stopped = o.stopped /\ p.done = o.done
      /\ p.hold = o.hold /\ p.leaving = o.leaving /\ p.end = o.end
      /\ p.ready = o.ready
  BY <1>1, ShedsParts
<1> HIDE DEF t, p
<1>4. Moves(s, t, k, p) BY <1>2 DEF Moves
<1>5. Letters(p) = Letters(o) /\ Once(p) BY <1>1, <1>3 DEF Letters, Once
<1>6. SendsMove(s, t, o, p) BY <1>1, <1>2, <1>3, <1>5, RejectMoves
<1>7. s.gate.open /\ s.gate.epoch = k /\ k = Newest(s) BY <1>1, GateIsNewest
<1>8. Ended(p) <=> Ended(o) BY <1>3 DEF Ended
<1>9. OrderOf(p, k = s.session, s.closed) BY <1>1, <1>3, <1>8 DEF OrderOf
<1>10. Closer(p) => Closer(o) BY <1>3 DEF Closer
<1>11. ASSUME s.closed PROVE StopsAt(t, p)
  <2>1. StopsAt(s, o) BY <1>1, <1>7, <1>11 DEF Stops
  <2>2. Lost(o) => Lost(p) BY <1>3 DEF Lost
  <2> QED BY <2>1, <2>2, <1>2, <1>3 DEF StopsAt, SameAdapter
<1>12. RowOf(t, k, p) BY <1>1, <1>2, <1>3 DEF RowOf, SameAdapter, Becomes
<1>13. /\ t.stops = s.stops
       /\ t.account = "unlinked" => s.account = "unlinked" \/ ~t.gate.open
       /\ ~t.gate.open /\ ~t.lateLinked /\ ~s.closed => t.account = "unlinked"
       /\ t.account = "linked" /\ ~t.lateLinked =>
            (s.account = "linked" /\ ~s.lateLinked) \/ s.session \in {0, k}
  BY <1>1, <1>2 DEF RowIs
<1>14. MostInv(t) BY <1>1, <1>4, <1>6, <1>9, <1>10, <1>11, <1>12, <1>13, MovesKeep
<1>15. NeedsEnd(t) => NeedsEnd(s) BY <1>2 DEF NeedsEnd, SameAdapter
<1>16. Leaves(o, s.active) => Leaves(p, s.active) BY <1>3 DEF Leaves
<1>17. Leaving(t) BY <1>1, <1>4, <1>15, <1>16, MovesLeave
<1>18. k \in DOMAIN t.owner BY <1>2 DEF Becomes
<1> QED BY <1>14, <1>17, <1>18 DEF Inv, t

LEMMA WaitStep ==
  ASSUME Inv(discord), NEW k \in DOMAIN discord.owner, SendWaitOver(k)
  PROVE  Inv(discord')
<1> DEFINE u == Less(discord, k)
           v == IF HasGate(discord, k) THEN RejectOpen(u, k) ELSE u
<1>1. Listens(k) /\ First(k).type = "sendWait" BY DEF SendWaitOver, Handles, First
<1>2. MostInv(discord) BY DEF Inv
<1>3. /\ Inv(u) /\ u \in State /\ k \in DOMAIN u.owner
      /\ \E p : Only(discord, u, k, p) /\ SameFlags(discord.owner[k], p)
                /\ p.at = NoMessage /\ p.unlink = discord.owner[k].unlink
  BY <1>1, LessGrows
<1>4. Taken(k) = u BY <1>1, <1>2, Takes
<1>5. discord' = u \/ discord' = StartSeal(v, k) BY <1>4 DEF SendWaitOver
<1>6. HasGate(u, k) <=> HasGate(discord, k) BY <1>3 DEF HasGate, Only, SameGate
<1> HIDE DEF u
<1>7. Inv(v) /\ k \in DOMAIN v.owner BY <1>3, <1>6, RejectKeeps
<1> HIDE DEF v
<1>8. Grows(v, StartSeal(v, k), k) BY <1>7, StartSealGrows DEF Inv, MostInv
<1>9. Inv(StartSeal(v, k)) BY <1>7, <1>8, GrowsKeeps DEF Inv
<1> QED BY <1>3, <1>5, <1>9

LEMMA SealStep ==
  ASSUME Inv(discord), NEW k \in DOMAIN discord.owner, SealDone(k)
  PROVE  Inv(discord')
<1> DEFINE u == Less(discord, k)
           o == u.owner[k]
           yes == TRUE
           q == [o EXCEPT !.unlink = "none", !.revoked = yes]
           v == SetOwner(u, k, q)
           t == Unlink(v, k)
<1>1. Listens(k) /\ First(k).type = "seal" BY DEF SealDone, Handles, First
<1>2. MostInv(discord) BY DEF Inv
<1>3. /\ Inv(u) /\ u \in State /\ k \in DOMAIN u.owner
      /\ \E p : Only(discord, u, k, p) /\ SameFlags(discord.owner[k], p)
                /\ p.at = NoMessage /\ p.unlink = discord.owner[k].unlink
  BY <1>1, LessGrows
<1>4. Taken(k) = u BY <1>1, <1>2, Takes
<1>5. /\ o.retired = discord.owner[k].retired /\ o.at = NoMessage
      /\ u.gate = discord.gate /\ u.session = discord.session
  BY <1>3 DEF Only, Becomes, SameFlags, SameGate, SameAdapter
<1>6. [u EXCEPT !.owner[k].unlink = "none", !.owner[k].revoked = TRUE] = v
  <2>1. u.owner \in Seq(OwnerState) BY <1>3, OwnerTypes
  <2> HIDE DEF u
  <2> QED BY <2>1, <1>3 DEF SetOwner, State
<1>7. \/ discord' = u
      \/ ~o.retired /\ HasGate(discord, k) /\ discord' = t
      \/ ~o.retired /\ ~HasGate(discord, k) /\ discord' = v
  <2> HIDE DEF u, v
  <2> QED BY <1>4, <1>5, <1>6 DEF SealDone
<1>8. HasGate(u, k) <=> HasGate(discord, k) BY <1>5 DEF HasGate
<1>9. /\ MostInv(u) /\ Leaving(u) /\ Places(u) /\ Stops(u) /\ RowIs(u)
      /\ RowOf(u, k, o) /\ OrderOf(o, k = u.session, u.closed) /\ Once(o)
      /\ o \in OwnerState /\ NoMessage.type = "none" /\ o.sends \subseteq DOMAIN u.answers
  BY <1>3, OwnerTypes DEF Inv, MostInv, Ordered, RowIs, Waiting, Flights, NoMessage, Message
<1> HIDE DEF u
<1>10. o = u.owner[k] /\ yes \in BOOLEAN /\ yes = TRUE OBVIOUS
<1> HIDE DEF o, yes
<1>11. /\ q \in OwnerState /\ q.revoked = yes
       /\ q.queue = o.queue /\ q.tasks = o.tasks /\ q.at = o.at /\ q.sends = o.sends
       /\ q.ready = o.ready /\ q.retired = o.retired /\ q.closed = o.closed
       /\ q.shutdown = o.shutdown /\ q.stopped = o.stopped /\ q.done = o.done
       /\ q.hold = o.hold /\ q.leaving = o.leaving /\ q.end = o.end
  BY <1>9, <1>10 DEF OwnerState
<1> HIDE DEF q
<1>12. Only(u, v, k, q) BY <1>3, <1>11, SetOwnerParts
<1>13. v \in State /\ k \in DOMAIN v.owner /\ v.owner[k] = q /\ v.stops = u.stops
  BY <1>3, <1>12 DEF Only, Becomes, SameTalk
<1> HIDE DEF v
<1>14. Ended(q) <=> Ended(o) BY <1>11 DEF Ended
<1>15. Closer(q) => Closer(o) BY <1>11 DEF Closer
<1>16. CASE ~o.retired /\ HasGate(discord, k) /\ discord' = t
  <2>1. Shut(v, t, k, Sheds(v, q)) /\ t.account = "unlinked" /\ t.stops = v.stops
    BY <1>13, CloseGateParts
  <2> DEFINE p == Sheds(v, q)
  <2>2. /\ p.sends \subseteq q.sends
        /\ p.queue = q.queue /\ p.tasks = q.tasks /\ p.at = q.at
        /\ p.retired = q.retired /\ p.revoked = q.revoked /\ p.closed = q.closed
        /\ p.shutdown = q.shutdown /\ p.stopped = q.stopped /\ p.done = q.done
        /\ p.hold = q.hold /\ p.leaving = q.leaving /\ p.end = q.end
    BY <1>11, ShedsParts
  <2> HIDE DEF p, t
  <2>3. Shut(u, t, k, p)
    <3>1. Shut(v, t, k, p) BY <2>1 DEF p
    <3> QED BY <1>3, <1>12, <3>1, OnlyShut
  <2>4. /\ p.sends \subseteq o.sends /\ p.queue = o.queue /\ p.at = o.at
        /\ p.retired = o.retired /\ p.revoked = TRUE /\ p.closed = o.closed
        /\ p.shutdown = o.shutdown /\ p.stopped = o.stopped /\ p.done = o.done
        /\ p.hold = o.hold /\ p.leaving = o.leaving /\ p.end = o.end
    BY <1>10, <1>11, <2>2
  <2>5. Ended(p) <=> Ended(o) BY <2>4 DEF Ended
  <2>6. Closer(p) => Closer(o) BY <2>4 DEF Closer
  <2>7. k = Newest(u) /\ u.gate.epoch = k BY <1>3, <1>8, <1>9, <1>16, GateIsNewest
  <2>8. u.closed => StopsAt(t, p)
    <3>1. u.closed => StopsAt(u, o) BY <1>9, <1>10, <2>7 DEF Stops
    <3> QED BY <3>1, <1>13, <2>1, <2>3, <2>4 DEF StopsAt, Shut, SameAdapter
  <2>9. /\ k = u.session => p.revoked /\ ~Ended(p) /\ ~p.retired
        /\ p.closed => ~p.hold
    BY <1>9, <1>16, <2>4, <2>5 DEF OrderOf
  <2>10. ~u.closed => t.stops = u.stops BY <1>13, <2>1
  <2>11. p.at.type # "list" BY <1>5, <1>9, <2>4
  <2>12. MostInv(t) /\ Leaving(t)
    BY <1>3, <1>9, <1>10, <2>1, <2>3, <2>4, <2>5, <2>6, <2>7, <2>8, <2>9, <2>10, <2>11, ShutKeeps
  <2> QED BY <1>16, <2>12 DEF Inv
<1>17. CASE ~o.retired /\ ~HasGate(discord, k) /\ discord' = v
  <2>1. OrderOf(q, k = u.session, u.closed) BY <1>9, <1>11, <1>14 DEF OrderOf
  <2>2. \A r \in u.gate.inflight : Carries(o, r) => Carries(q, r) BY <1>11 DEF Carries
  <2>3. Letters(q) = Letters(o) /\ Once(q) BY <1>9, <1>11 DEF Letters, Once
  <2>4. ASSUME u.closed, k = Newest(u), u.gate.epoch = k PROVE StopsAt(u, q)
    <3>1. StopsAt(u, o) BY <1>9, <1>10, <2>4 DEF Stops
    <3>2. Lost(o) => Lost(q) BY <1>11 DEF Lost
    <3> QED BY <3>1, <3>2, <1>11 DEF StopsAt
  <2>5. RowOf(u, k, q)
    <3>1. k = Newest(u) => ~u.gate.open
      <4>1. CASE u.gate.epoch = k BY <4>1, <1>8, <1>17 DEF HasGate
      <4>2. CASE u.gate.epoch # k /\ k = Newest(u) BY <4>2, <1>9 DEF Places, Stops
      <4> QED BY <4>1, <4>2
    <3> QED BY <3>1, <1>5, <1>9, <1>10, <1>11 DEF RowOf
  <2>6. MostInv(v)
    BY <1>3, <1>9, <1>10, <1>11, <1>12, <1>15, <2>1, <2>2, <2>3, <2>4, <2>5, OnlyKeeps
  <2>7. Leaves(o, u.active) => Leaves(q, u.active) BY <1>11 DEF Leaves
  <2>8. Leaving(v) BY <1>3, <1>9, <1>10, <1>12, <2>7, OnlyLeaves
  <2> QED BY <1>17, <2>6, <2>8 DEF Inv
<1> QED BY <1>3, <1>7, <1>16, <1>17

(* What follows an ender in a queue is silent.                              *)
LEMMA EnderParts ==
  ASSUME NEW k \in DOMAIN discord.owner, MostInv(discord), Listens(k),
         First(k).type \in Enders
  PROVE  LET u == Less(discord, k)
         IN  /\ u \in State /\ k \in DOMAIN u.owner /\ k # u.session
             /\ Silent(u.owner[k]) /\ u.session = discord.session
             /\ u.owner[k].hold = discord.owner[k].hold
<1> DEFINE s == discord
           o == s.owner[k]
           u == Less(s, k)
<1>1. /\ s \in State /\ OrderOf(o, k = s.session, s.closed)
      /\ o.queue # <<>> /\ o.at = NoMessage /\ NoMessage.type = "none"
      /\ First(k) = Head(o.queue) /\ First(k) \in Elems(o.queue)
  BY Takes
<1>2. PICK p : /\ Only(s, u, k, p) /\ SameFlags(o, p)
               /\ p.queue = Tail(o.queue) /\ p.at = o.at
               /\ EndersLast(o.queue) /\ Head(o.queue).type \in Enders =>
                    \A m \in Elems(p.queue) : m.type \notin {"send", "disconnect"}
  BY <1>1, LessParts
<1>3. Silent(p) BY <1>1, <1>2 DEF Silent, OrderOf
<1>4. k # s.session BY <1>1 DEF OrderOf
<1>5. /\ u \in State /\ k \in DOMAIN u.owner /\ u.owner[k] = p /\ u.session = s.session
      /\ p.hold = o.hold
  BY <1>2 DEF Only, Becomes, SameAdapter, SameFlags
<1> QED BY <1>3, <1>4, <1>5

LEMMA RetireStep ==
  ASSUME Inv(discord), NEW k \in DOMAIN discord.owner, Retire(k)
  PROVE  Inv(discord')
<1> DEFINE u == Less(discord, k)
           n == First(k).arg
           v == RetireOwner(u, k)
           w == HandOff(v, n)
           e == IF n = NoSession THEN BeginEnd(w, k) ELSE w
           t == [e EXCEPT !.owner[k].hold = FALSE]
<1>1. Listens(k) /\ First(k).type = "retire"
  <2>1. Handles(k, "retire") BY DEF Retire
  <2> QED BY <2>1 DEF Handles, First
<1>2. MostInv(discord) BY DEF Inv
<1>3. Inv(u) BY <1>1, LessGrows
<1>4. First(k).type \in Enders BY <1>1 DEF Enders
<1>5. u \in State /\ k \in DOMAIN u.owner /\ k # u.session /\ Silent(u.owner[k])
  BY <1>1, <1>2, <1>4, EnderParts
<1>6. Taken(k) = u /\ n \in Nat BY <1>1, <1>2, Takes DEF Messages
<1>7. discord' = t BY <1>6 DEF Retire
<1> HIDE DEF u, n
<1>8. "none" \in {"none", "unlinked", "stopped"} OBVIOUS
<1>9. Grows(u, v, k) BY <1>5, <1>8, EndGrows, Zenon
<1> HIDE DEF v
<1>10. Inv(v) /\ k \in DOMAIN v.owner /\ k # v.session /\ Silent(v.owner[k])
  BY <1>3, <1>5, <1>9, GrowsKeeps, GrowsParts DEF Inv, SameAdapter
<1>11. /\ MostInv(w) /\ Leaving(w) /\ k \in DOMAIN w.owner /\ k # w.session
       /\ Silent(w.owner[k])
  BY <1>6, <1>10, HandOffKeeps DEF Inv
<1> HIDE DEF w
<1>12. /\ MostInv(e) /\ Leaving(e) /\ k \in DOMAIN e.owner /\ k # e.session
       /\ Silent(e.owner[k])
  BY <1>11, BeginEndKeeps DEF Silent
<1> HIDE DEF e
<1>13. e \in State BY <1>12 DEF MostInv
<1>14. Grows(e, t, k) BY <1>8, <1>12, <1>13, EndGrows, Zenon
<1> HIDE DEF t
<1> QED BY <1>7, <1>12, <1>14, GrowsKeeps DEF Inv

LEMMA SettleStep ==
  ASSUME Inv(discord), NEW k \in DOMAIN discord.owner, AccountSettle(k)
  PROVE  Inv(discord')
<1> DEFINE u == Less(discord, k)
           o == u.owner[k]
           none == "none"
           q == [o EXCEPT !.end = none]
           v == SetOwner(u, k, q)
           end == discord.owner[k].end
<1>1. Listens(k) /\ First(k).type = "settle" BY DEF AccountSettle, Handles, First
<1>2. MostInv(discord) BY DEF Inv
<1>3. /\ Inv(u) /\ u \in State /\ k \in DOMAIN u.owner
      /\ \E p : Only(discord, u, k, p) /\ SameFlags(discord.owner[k], p)
                /\ p.at = NoMessage /\ p.unlink = discord.owner[k].unlink
  BY <1>1, LessGrows
<1>4. Taken(k) = u BY <1>1, <1>2, Takes
<1>5. [u EXCEPT !.owner[k].end = "none"] = v BY DEF SetOwner
<1>6. \/ discord' = v \/ discord' = Close(v, k) \/ discord' = FinishShutdown(v, k)
      \/ end \notin {"none", "stopped"} /\ discord' = EndAccount(v, k)
  <2> HIDE DEF u, v
  <2> QED BY <1>4, <1>5 DEF AccountSettle
<1>7. o.end = end /\ o.at = NoMessage BY <1>3 DEF Only, Becomes, SameFlags
<1>8. MostInv(u) /\ OrderOf(o, k = u.session, u.closed) /\ o \in OwnerState
  BY <1>3, OwnerTypes DEF Inv, MostInv, Ordered
<1>9. none \in {"none", "unlinked", "stopped"} /\ none = "none" OBVIOUS
<1> HIDE DEF u, none, end
<1>10. o = u.owner[k] OBVIOUS
<1> HIDE DEF o
<1>11. /\ q \in OwnerState /\ q.end = none
       /\ q.queue = o.queue /\ q.tasks = o.tasks /\ q.at = o.at /\ q.sends = o.sends
       /\ q.ready = o.ready /\ q.retired = o.retired /\ q.closed = o.closed
       /\ q.revoked = o.revoked
       /\ q.shutdown = o.shutdown /\ q.stopped = o.stopped /\ q.done = o.done
       /\ q.hold = o.hold /\ q.leaving = o.leaving
  BY <1>8, <1>9 DEF OwnerState
<1> HIDE DEF q
<1>12. Only(u, v, k, q) BY <1>3, <1>11, SetOwnerParts
<1>13. Grows(u, v, k)
  <2>1. Mild(o, q) BY <1>11 DEF Mild
  <2>2. Ended(q) => Ended(o) BY <1>9, <1>11 DEF Ended
  <2>3. MayMild(u, k, o, q) BY <1>11, <2>2 DEF MayMild
  <2> QED BY <1>10, <1>12, <2>1, <2>3 DEF Grows
<1> HIDE DEF v
<1>14. Inv(v) /\ k \in DOMAIN v.owner /\ v.session = u.session
       /\ (Silent(v.owner[k]) <=> Silent(u.owner[k]))
  BY <1>3, <1>13, GrowsKeeps, GrowsParts DEF Inv, SameAdapter
<1>15. CASE end \notin {"none", "stopped"} /\ discord' = EndAccount(v, k)
  <2>1. Ended(o) BY <1>7, <1>15 DEF Ended
  <2>2. k # u.session BY <2>1, <1>8 DEF OrderOf
  <2>3. Silent(o) BY <2>1, <1>7, <1>8 DEF OrderOf, Silent
  <2>4. MostInv(EndAccount(v, k)) /\ Leaving(EndAccount(v, k))
    BY <1>10, <1>14, <2>2, <2>3, EndAccountKeeps DEF Inv
  <2> QED BY <1>15, <2>4 DEF Inv
<1>16. Inv(Close(v, k)) /\ Inv(FinishShutdown(v, k))
  BY <1>14, CloseKeeps, FinishShutdownKeeps DEF Inv
<1> QED BY <1>6, <1>14, <1>15, <1>16

LEMMA LimitStep ==
  ASSUME Inv(discord), NEW k \in DOMAIN discord.owner, ShutdownLimit(k)
  PROVE  Inv(discord')
<1> DEFINE u == Less(discord, k)
<1>1. Listens(k) /\ First(k).type = "limit" BY DEF ShutdownLimit, Handles, First
<1>2. MostInv(discord) BY DEF Inv
<1>3. Inv(u) /\ k \in DOMAIN u.owner BY <1>1, LessGrows
<1>4. Taken(k) = u BY <1>1, <1>2, Takes
<1>5. discord' = Close(u, k) BY <1>4 DEF ShutdownLimit
<1> HIDE DEF u
<1> QED BY <1>3, <1>5, CloseKeeps DEF Inv

LEMMA LeftStep ==
  ASSUME Inv(discord), NEW k \in DOMAIN discord.owner, DisconnectWaitOver(k)
  PROVE  Inv(discord')
<1> DEFINE s == discord
           o == s.owner[k]
           u == Less(s, k)
<1>1. Listens(k) /\ First(k).type = "disconnectWait"
  BY DEF DisconnectWaitOver, Handles, First
<1>2. MostInv(s) /\ Leaving(s) BY DEF Inv
<1>3. /\ s \in State /\ o.queue # <<>> /\ o.at = NoMessage
      /\ First(k) = Head(o.queue) /\ Taken(k) = u
  BY <1>1, <1>2, Takes
<1>4. PICK p : /\ Only(s, u, k, p) /\ SameFlags(o, p)
               /\ p.queue = Tail(o.queue) /\ p.tasks = o.tasks /\ p.at = o.at
               /\ Elems(o.queue) = {Head(o.queue)} \cup Elems(p.queue)
               /\ EndersLast(o.queue) => EndersLast(p.queue)
               /\ SendsOnce(o.queue) => SendsOnce(p.queue)
  BY <1>3, LessParts
<1>5. MostInv(u) BY <1>1, <1>2, <1>3, LessKeeps
<1>6. /\ u.owner[k] = p /\ DOMAIN u.owner = DOMAIN s.owner /\ Newest(u) = Newest(s)
      /\ \A j \in DOMAIN s.owner : j # k => u.owner[j] = s.owner[j]
      /\ u.active = s.active /\ u.doing = s.doing /\ NeedsEnd(u) = NeedsEnd(s)
      /\ p.leaving = o.leaving
  BY <1>4 DEF Only, Becomes, SameAdapter, SameTalk, SameFlags, NeedsEnd
<1>7. AlmostLeaving(u, k)
  <2>1. Newest(s) \in DOMAIN s.owner
    <3>1. k # 0 /\ (Newest(s) # 0 => Newest(s) \in DOMAIN s.owner) /\ Newest(s) \in Nat
          /\ DOMAIN s.owner = 1 .. Newest(s)
      BY <1>3, OwnerTypes DEF Newest
    <3> QED BY <3>1
  <2>2. First(k) # Message("disconnect", s.active) BY <1>1 DEF Message
  <2>3. Leaves(o, s.active) => Leaves(p, s.active) \/ p.leaving = s.active
    BY <1>3, <1>4, <1>6, <2>2 DEF Leaves
  <2> QED BY <1>2, <1>6, <2>1, <2>3 DEF AlmostLeaving, Leaving
<1>8. discord' = FinishDisconnect(u, k) BY <1>3 DEF DisconnectWaitOver
<1>9. k \in DOMAIN u.owner BY <1>6
<1> HIDE DEF u
<1> QED BY <1>5, <1>7, <1>8, <1>9, FinishDisconnectKeeps DEF Inv

(* The account is to unlink: the owner waits for the sends of the gate.     *)
SetLeaving(s, k, n) == [s EXCEPT !.owner[k].leaving = n]

LEMMA LeaveStep ==
  ASSUME Inv(discord), NEW k \in DOMAIN discord.owner, LeaveAccount(k)
  PROVE  Inv(discord')
<1> DEFINE s == discord
           u == Less(s, k)
           n == First(k).arg
           v == RetireOwner(u, k)
           w == SetLeaving(v, k, n)
           m == Message("disconnectWait", 0)
<1>1. Listens(k) /\ First(k).type = "disconnect"
  <2>1. Handles(k, "disconnect") BY DEF LeaveAccount
  <2> QED BY <2>1 DEF Handles, First
<1>2. MostInv(s) /\ Leaving(s) BY DEF Inv
<1>3. /\ s \in State /\ OrderOf(s.owner[k], k = s.session, s.closed)
      /\ s.owner[k].queue # <<>> /\ s.owner[k].at = NoMessage
      /\ First(k) = Head(s.owner[k].queue) /\ Taken(k) = u /\ First(k) \in Messages
      /\ Ended(s.owner[k]) => First(k).type \notin {"send", "disconnect"}
  BY <1>1, <1>2, Takes
<1>4. ~Ended(s.owner[k]) /\ s.owner[k].hold BY <1>1, <1>3 DEF Ended
<1>5. /\ u \in State /\ k \in DOMAIN u.owner /\ k # u.session
      /\ Silent(u.owner[k]) /\ u.owner[k].hold
  BY <1>1, <1>2, <1>4, EnderParts DEF Enders
<1>6. MostInv(u) BY <1>1, <1>2, <1>3, LessKeeps
<1>7. n \in Nat /\ n \in 0 .. MaxCall BY <1>1, <1>3, DiscordBounds DEF Messages
<1>8. "none" \in {"none", "unlinked", "stopped"} OBVIOUS
<1>9. \/ discord' = [v EXCEPT !.owner[k].hold = FALSE] /\ s.active # n
      \/ discord' = Spawn(w, k, m) /\ s.active = n
      \/ discord' = FinishDisconnect(w, k) /\ s.active = n
  BY <1>3 DEF LeaveAccount, SetLeaving
<1>10. u.active = s.active /\ NeedsEnd(u) = NeedsEnd(s) /\ u.doing = s.doing
       /\ Newest(u) = Newest(s) /\ \A j \in DOMAIN s.owner : j # k => u.owner[j] = s.owner[j]
  <2>1. \E p : Only(s, u, k, p) BY <1>3, LessParts
  <2> QED BY <2>1 DEF Only, SameAdapter, SameTalk, Becomes, NeedsEnd
<1>11. Newest(s) \in DOMAIN s.owner
  <2>1. k # 0 /\ (Newest(s) # 0 => Newest(s) \in DOMAIN s.owner) /\ Newest(s) \in Nat
        /\ DOMAIN s.owner = 1 .. Newest(s)
    BY <1>3, OwnerTypes DEF Newest
  <2> QED BY <2>1
<1>12. s.active # n => Leaving(u)
  <2>1. Message("disconnectWait", 0).type = "disconnectWait"
        /\ Message("disconnect", s.active).arg = s.active
    BY DEF Message
  <2> QED BY <1>1, <1>2, <1>3, <2>1, LessKeeps
<1> HIDE DEF u
(* What RetireOwner does to the owner.                                      *)
<1>13. /\ Grows(u, v, k) /\ v \in State /\ k \in DOMAIN v.owner /\ MostInv(v)
       /\ Silent(v.owner[k]) /\ k # v.session /\ SameAdapter(u, v) /\ SameTalk(u, v)
       /\ Newest(v) = Newest(u) /\ \A j \in DOMAIN u.owner : j # k => v.owner[j] = u.owner[j]
       /\ Leaving(u) => Leaving(v)
  <2>1. Grows(u, v, k) BY <1>5, <1>8, EndGrows, Zenon
  <2> QED BY <1>5, <1>6, <2>1, GrowsParts, GrowsKeeps DEF SameAdapter
<1>14. v.owner[k].hold
  <2>1. u.owner \in Seq(OwnerState) /\ u.owner[k] \in OwnerState BY <1>5, OwnerTypes
  <2>2. v.owner[k].hold = u.owner[k].hold
    BY <1>5, <2>1 DEF RetireOwner, State, OwnerState
  <2> QED BY <1>5, <2>2
<1> HIDE DEF v, n
<1>15. CASE discord' = [v EXCEPT !.owner[k].hold = FALSE] /\ s.active # n
  <2>1. Grows(v, [v EXCEPT !.owner[k].hold = FALSE], k) BY <1>8, <1>13, EndGrows, Zenon
  <2>2. Grows(v, discord', k) BY <1>15, <2>1
  <2> QED BY <1>12, <1>13, <1>15, <2>2, GrowsKeeps DEF Inv
<1>16. CASE s.active = n
  <2> DEFINE o == v.owner[k]
             q == [o EXCEPT !.leaving = n]
  <2>1. /\ MostInv(v) /\ v \in State /\ Stops(v) /\ OrderOf(o, k = v.session, v.closed)
        /\ RowOf(v, k, o) /\ Once(o) /\ o \in OwnerState /\ o.sends \subseteq DOMAIN v.answers
    BY <1>13, OwnerTypes DEF MostInv, Ordered, RowIs, Waiting, Flights
  <2>2. w = SetOwner(v, k, q) BY DEF SetLeaving, SetOwner
  <2> HIDE DEF o
  <2>3. /\ q \in OwnerState /\ q.leaving = n
        /\ q.queue = o.queue /\ q.tasks = o.tasks /\ q.at = o.at /\ q.sends = o.sends
        /\ q.ready = o.ready /\ q.retired = o.retired /\ q.closed = o.closed
        /\ q.revoked = o.revoked
        /\ q.shutdown = o.shutdown /\ q.stopped = o.stopped /\ q.done = o.done
        /\ q.hold = o.hold /\ q.end = o.end
    BY <2>1, <1>7 DEF OwnerState
  <2> HIDE DEF q
  <2>4. Only(v, w, k, q) BY <1>13, <2>2, <2>3, SetOwnerParts
  <2> HIDE DEF w
  <2>5. OrderOf(q, k = v.session, v.closed)
    <3>1. Silent(o) BY <1>13 DEF o
    <3>2. q.at.type # "send" BY <2>3, <3>1 DEF Silent, NoMessage, Message
    <3> QED BY <1>13, <2>1, <2>3, <3>1, <3>2 DEF OrderOf, Silent
  <2>6. \A r \in v.gate.inflight : Carries(o, r) => Carries(q, r) BY <2>3 DEF Carries
  <2>7. Letters(q) = Letters(o) /\ Once(q) BY <2>1, <2>3 DEF Letters, Once
  <2>8. Closer(q) => Closer(o) BY <2>3 DEF Closer
  <2>9. ASSUME v.closed, k = Newest(v), v.gate.epoch = k PROVE StopsAt(v, q)
    <3>1. StopsAt(v, o) BY <2>1, <2>9 DEF Stops, o
    <3>2. Lost(o) => Lost(q) BY <2>3 DEF Lost
    <3> QED BY <3>1, <3>2, <2>3 DEF StopsAt
  <2>10. RowOf(v, k, q) BY <2>1, <2>3 DEF RowOf
  <2>11. MostInv(w)
    BY <1>13, <2>1, <2>3, <2>4, <2>5, <2>6, <2>7, <2>8, <2>9, <2>10, OnlyKeeps DEF o
  <2>12. /\ w \in State /\ k \in DOMAIN w.owner /\ w.owner[k] = q /\ NeedsEnd(w) = NeedsEnd(s)
         /\ w.active = s.active /\ w.doing = s.doing /\ Newest(w) = Newest(s)
         /\ \A j \in DOMAIN s.owner : j # k => w.owner[j] = s.owner[j]
    <3>1. DOMAIN u.owner = DOMAIN s.owner
      <4>1. u \in State BY <1>5
      <4> QED BY <1>3, <1>10, <4>1, OwnerTypes DEF Newest
    <3>2. w \in State /\ SameAdapter(v, w) /\ SameTalk(v, w) /\ Becomes(v, w, k, q)
      BY <2>4 DEF Only
    <3>3. SameAdapter(u, v) /\ SameTalk(u, v) /\ DOMAIN v.owner = DOMAIN u.owner
      <4>1. v \in State /\ Newest(v) = Newest(u) /\ u \in State BY <1>5, <1>13
      <4> QED BY <1>13, <4>1, OwnerTypes DEF Newest
    <3>4. NeedsEnd(w) = NeedsEnd(u) /\ w.active = u.active /\ w.doing = u.doing
      BY <3>2, <3>3 DEF SameAdapter, SameTalk, NeedsEnd
    <3>5. /\ k \in DOMAIN w.owner /\ w.owner[k] = q /\ Newest(w) = Newest(v)
          /\ \A j \in DOMAIN v.owner : j # k => w.owner[j] = v.owner[j]
      BY <1>13, <3>2 DEF Becomes
    <3>6. \A j \in DOMAIN s.owner : j # k => w.owner[j] = s.owner[j]
      BY <1>10, <1>13, <3>1, <3>3, <3>5
    <3> QED BY <1>10, <1>13, <3>2, <3>4, <3>5, <3>6
  <2>13. AlmostLeaving(w, k)
    BY <1>2, <1>11, <1>16, <2>3, <2>12 DEF AlmostLeaving, Leaving
  <2>14. CASE discord' = Spawn(w, k, m)
    <3>1. m \in Tasks BY DEF Message, Tasks, TaskTypes
    <3>2. HasSender(w, k) BY <1>14, <2>3, <2>12 DEF HasSender, o
    <3> DEFINE t == Spawn(w, k, m)
    <3>3. Grows(w, t, k) /\ m \in t.owner[k].tasks BY <2>12, <3>1, <3>2, SpawnGrows
    <3> HIDE DEF t
    <3>4. MostInv(t) BY <2>11, <2>12, <3>3, GrowsKeeps
    <3>5. /\ SameAdapter(w, t) /\ SameTalk(w, t) /\ Newest(t) = Newest(w)
          /\ Mild(w.owner[k], t.owner[k]) /\ \A j \in DOMAIN w.owner : j # k => t.owner[j] = w.owner[j]
      BY <2>12, <3>3, GrowsParts
    <3>6. Leaving(t)
      <4>1. /\ NeedsEnd(t) = NeedsEnd(w) /\ t.active = w.active /\ t.doing = w.doing
            /\ t.owner[k].leaving = w.owner[k].leaving
        BY <3>5 DEF SameAdapter, SameTalk, NeedsEnd, Mild
      <4>2. Newest(w) \in DOMAIN w.owner BY <1>11, <2>12, OwnerTypes, <1>3
      <4>3. \A n2 : Leaves(w.owner[k], n2) => Leaves(t.owner[k], n2)
        BY <3>5 DEF Mild, Leaves
      <4> QED BY <2>13, <3>3, <3>5, <4>1, <4>2, <4>3 DEF Leaving, AlmostLeaving, Leaves
    <3> QED BY <2>14, <3>4, <3>6 DEF Inv, t
  <2>15. CASE discord' = FinishDisconnect(w, k)
    BY <2>11, <2>12, <2>13, <2>15, FinishDisconnectKeeps DEF Inv
  <2> QED BY <1>9, <1>16, <2>14, <2>15
<1> QED BY <1>9, <1>15, <1>16

SetShutdown(s, k, b) == [s EXCEPT !.owner[k].shutdown = b]

LEMMA ShutdownStep ==
  ASSUME Inv(discord), NEW k \in DOMAIN discord.owner, BeginShutdown(k)
  PROVE  Inv(discord')
<1> DEFINE s == discord
           o == s.owner[k]
           u == Less(s, k)
           yes == TRUE
           v == SetShutdown(u, k, yes)
           m == Message("limit", 0)
<1>1. Listens(k) /\ First(k).type = "shutdown"
  <2>1. Handles(k, "shutdown") BY DEF BeginShutdown
  <2> QED BY <2>1 DEF Handles, First
<1>2. MostInv(s) BY DEF Inv
<1>3. /\ s \in State /\ Stops(s) /\ RowOf(s, k, o) /\ OrderOf(o, k = s.session, s.closed)
      /\ Once(o) /\ o \in OwnerState /\ o.sends \subseteq DOMAIN s.answers
      /\ o.queue # <<>> /\ o.at = NoMessage /\ NoMessage.type = "none"
      /\ First(k) = Head(o.queue) /\ Taken(k) = u /\ First(k) \in Elems(o.queue)
  BY <1>1, <1>2, Takes
<1>4. PICK p : /\ Only(s, u, k, p) /\ SameFlags(o, p)
               /\ p.queue = Tail(o.queue) /\ p.tasks = o.tasks /\ p.at = o.at
               /\ Elems(o.queue) = {Head(o.queue)} \cup Elems(p.queue)
               /\ EndersLast(o.queue) => EndersLast(p.queue)
               /\ SendsOnce(o.queue) => SendsOnce(p.queue)
               /\ EndersLast(o.queue) /\ Head(o.queue).type \in Enders =>
                    \A x \in Elems(p.queue) : x.type \notin {"send", "disconnect"}
  BY <1>3, LessParts
<1>5. p \in OwnerState /\ u \in State /\ u.owner[k] = p /\ k \in DOMAIN u.owner
      /\ yes \in BOOLEAN /\ yes = TRUE
  BY <1>4 DEF Only, Becomes
<1> DEFINE q == [p EXCEPT !.shutdown = yes]
<1>6. discord' = FinishShutdown(Spawn(v, k, m), k) BY <1>3 DEF BeginShutdown, SetShutdown
<1>7. v = SetOwner(u, k, q) BY <1>5 DEF SetShutdown, SetOwner
<1> HIDE DEF o, u, yes
<1>8. /\ q \in OwnerState /\ q.shutdown = yes /\ q.queue = p.queue /\ q.tasks = p.tasks
      /\ q.at = p.at /\ q.sends = p.sends /\ q.ready = p.ready
      /\ q.retired = p.retired /\ q.revoked = p.revoked /\ q.leaving = p.leaving
      /\ q.end = p.end /\ q.done = p.done /\ q.closed = p.closed
      /\ q.stopped = p.stopped /\ q.hold = p.hold
  BY <1>5 DEF OwnerState
<1> HIDE DEF q
<1>9. Only(u, v, k, q) BY <1>5, <1>7, <1>8, SetOwnerParts
<1> HIDE DEF v
<1>10. Only(s, v, k, q)
  <2>1. Only(s, u, k, p) BY <1>4
  <2> QED BY <2>1, <1>9, OnlyTwice
<1>11. /\ q.queue = p.queue /\ q.tasks = o.tasks /\ q.at = NoMessage /\ q.sends = o.sends
       /\ q.ready = o.ready /\ q.retired = o.retired /\ q.revoked = o.revoked
       /\ q.leaving = o.leaving /\ q.end = o.end /\ q.done = o.done
       /\ q.closed = o.closed /\ q.stopped = o.stopped /\ q.hold = o.hold
       /\ q.shutdown = TRUE
  BY <1>3, <1>4, <1>5, <1>8 DEF SameFlags
<1>12. Closer(o) BY <1>1, <1>3 DEF Closer
<1>13. s.closed /\ k = Newest(s) /\ s.gate.epoch = k /\ s.session = 0
  BY <1>3, <1>12 DEF Stops, o
<1>14. k # 0 BY <1>3, OwnerTypes
<1>15. OrderOf(q, k = s.session, s.closed)
  <2>1. \A x \in Elems(p.queue) : x.type \notin {"send", "disconnect"}
    BY <1>1, <1>3, <1>4 DEF OrderOf, Enders
  <2> QED BY <1>3, <1>4, <1>11, <1>13, <1>14, <2>1 DEF OrderOf
<1>16. First(k).type = "shutdown" /\ Head(o.queue) = First(k) BY <1>1, <1>3
<1>17. \A r \in s.gate.inflight : Carries(o, r) => Carries(q, r)
  BY <1>4, <1>11, <1>16 DEF Carries
<1>18. Letters(q) = Letters(o) BY <1>3, <1>4, <1>11, <1>16 DEF Letters
<1>19. Once(q) BY <1>3, <1>4, <1>11 DEF Once
<1>20. StopsAt(s, q)
  <2>1. StopsAt(s, o) BY <1>3, <1>13 DEF Stops, o
  <2>2. ~Lost(o) BY <1>3 DEF Lost
  <2> QED BY <2>1, <2>2, <1>11 DEF StopsAt
<1>21. RowOf(s, k, q) BY <1>3, <1>11 DEF RowOf
<1>22. o.sends \subseteq DOMAIN s.answers BY <1>3
<1>23. MostInv(v)
  BY <1>2, <1>10, <1>11, <1>12, <1>15, <1>17, <1>18, <1>19, <1>20, <1>21, <1>22, OnlyKeeps DEF o
<1>24. v \in State /\ k \in DOMAIN v.owner /\ Leaving(v)
  BY <1>10, <1>13 DEF Only, Becomes, SameAdapter, Leaving, NeedsEnd
<1>25. m \in Tasks BY DEF Message, Tasks, TaskTypes
<1> DEFINE w == Spawn(v, k, m)
<1>26. Grows(v, w, k) BY <1>24, <1>25, SpawnGrows
<1> HIDE DEF w
<1>27. MostInv(w) /\ Leaving(w) /\ k \in DOMAIN w.owner
  BY <1>23, <1>24, <1>26, GrowsKeeps, GrowsParts
<1> QED BY <1>6, <1>27, FinishShutdownKeeps DEF Inv, w

SetTasks(s, k, ts) == [s EXCEPT !.owner[k].tasks = ts]

LEMMA TaskStep ==
  ASSUME Inv(discord), NEW k \in DOMAIN discord.owner, TaskEnds(k)
  PROVE  Inv(discord')
<1> DEFINE s == discord
           o == s.owner[k]
<1>0. PICK task \in o.tasks : \E result \in ResultsOf(task.type) :
        discord' = [Post(discord, k, [task EXCEPT !.result = result]) EXCEPT
                      !.owner[k].tasks = @ \ {task}]
  BY DEF TaskEnds
<1>1. PICK result \in ResultsOf(task.type) :
        discord' = [Post(discord, k, [task EXCEPT !.result = result]) EXCEPT
                      !.owner[k].tasks = @ \ {task}]
  BY <1>0
<1>2. /\ MostInv(s) /\ Leaving(s) /\ s \in State /\ Stops(s) /\ RowOf(s, k, o)
      /\ OrderOf(o, k = s.session, s.closed) /\ Once(o) /\ o \in OwnerState
      /\ o.sends \subseteq DOMAIN s.answers /\ o.queue \in Seq(Messages)
      /\ o.tasks \in SUBSET Tasks
  BY OwnerTypes DEF Inv, MostInv, Ordered, RowIs, Flights, Waiting, OwnerState
<1> DEFINE m == [task EXCEPT !.result = result]
           q == Append(o.queue, m)
           ts == o.tasks \ {task}
           u == SetQueue(s, k, q)
           t == SetTasks(u, k, ts)
<1>3. task \in Tasks BY <1>2
<1>4. result \in Results BY <1>1 DEF ResultsOf, Results
<1>5. /\ m \in Messages /\ m.type = task.type /\ m.arg = task.arg
      /\ m.type \in TaskTypes
  <2>1. /\ task.type \in TaskTypes /\ task.arg \in Nat /\ task.type # "disconnect"
        /\ task \in [type : TaskTypes, arg : Nat, result : {"none"}]
    BY <1>3 DEF Tasks, TaskTypes
  <2>2. m = [type |-> task.type, arg |-> task.arg, result |-> result] BY <2>1
  <2> HIDE DEF m
  <2> QED BY <1>4, <2>1, <2>2 DEF Messages
<1>6. m.type \notin Enders \cup {"send", "disconnect"} BY <1>5 DEF TaskTypes, Enders
<1>7. m.type = "disconnectWait" => m = task
  <2>1. task.type = "disconnectWait" => result = "none" BY <1>1 DEF ResultsOf
  <2>2. task.result = "none" BY <1>3 DEF Tasks
  <2> QED BY <1>3, <1>5, <2>1, <2>2 DEF Tasks
<1>8. /\ q \in Seq(Messages) /\ Elems(q) = Elems(o.queue) \cup {m}
      /\ EndersLast(o.queue) => EndersLast(q)
      /\ SendsOnce(o.queue) => SendsOnce(q)
  BY <1>2, <1>5, <1>6, AppendParts, AppendOrder
<1>9. discord' = t
  <2>1. u = Post(s, k, m) BY DEF SetQueue, Post
  <2>2. s.owner[k].tasks = u.owner[k].tasks BY <1>2 DEF SetQueue, State, OwnerState
  <2> HIDE DEF u
  <2> QED BY <1>1, <2>1, <2>2 DEF SetTasks
<1> HIDE DEF m, q, o
<1>10. PICK p : /\ Only(s, u, k, p) /\ SameFlags(o, p) /\ p.queue = q
                /\ p.tasks = o.tasks /\ p.at = o.at
  BY <1>2, <1>8, SetQueueParts DEF o
<1>11. p \in OwnerState /\ u \in State /\ u.owner[k] = p /\ k \in DOMAIN u.owner
  BY <1>10 DEF Only, Becomes
<1>12. ts \in SUBSET Tasks BY <1>2
<1> DEFINE x == [p EXCEPT !.tasks = ts]
<1> HIDE DEF u, ts
<1>13. t = SetOwner(u, k, x) BY <1>11 DEF SetTasks, SetOwner
<1>14. /\ x \in OwnerState /\ x.shutdown = p.shutdown /\ x.queue = p.queue /\ x.tasks = ts
       /\ x.at = p.at /\ x.sends = p.sends /\ x.ready = p.ready
       /\ x.retired = p.retired /\ x.revoked = p.revoked /\ x.leaving = p.leaving
       /\ x.end = p.end /\ x.done = p.done /\ x.closed = p.closed
       /\ x.stopped = p.stopped /\ x.hold = p.hold
  BY <1>11, <1>12 DEF OwnerState
<1> HIDE DEF x
<1>15. Only(s, t, k, x)
  <2>1. Only(s, u, k, p) BY <1>10
  <2>2. Only(u, t, k, x) BY <1>11, <1>13, <1>14, SetOwnerParts
  <2> QED BY <2>1, <2>2, OnlyTwice
<1> HIDE DEF t
<1>16. /\ x.queue = q /\ x.tasks = o.tasks \ {task} /\ x.at = o.at /\ x.sends = o.sends
       /\ x.ready = o.ready /\ x.retired = o.retired /\ x.revoked = o.revoked
       /\ x.leaving = o.leaving /\ x.end = o.end /\ x.done = o.done
       /\ x.closed = o.closed /\ x.stopped = o.stopped /\ x.hold = o.hold
       /\ x.shutdown = o.shutdown
  BY <1>10, <1>14 DEF SameFlags, ts
<1>17. Ended(x) <=> Ended(o) BY <1>16 DEF Ended
<1>18. OrderOf(x, k = s.session, s.closed) BY <1>2, <1>6, <1>8, <1>16, <1>17 DEF OrderOf
<1>19. \A r \in s.gate.inflight : Carries(o, r) => Carries(x, r)
  BY <1>5, <1>8, <1>16 DEF Carries
<1>20. Letters(x) = Letters(o) BY <1>6, <1>8, <1>16 DEF Letters
<1>21. Once(x) BY <1>2, <1>6, <1>8, <1>16 DEF Once
<1>22. Closer(x) => Closer(o) BY <1>6, <1>8, <1>16 DEF Closer, Enders
<1>23. ASSUME s.closed, k = Newest(s), s.gate.epoch = k PROVE StopsAt(s, x)
  <2>1. StopsAt(s, o) BY <1>2, <1>23 DEF Stops, o
  <2>2. ~Lost(o) BY <1>1 DEF Lost
  <2> QED BY <2>1, <2>2, <1>8, <1>16 DEF StopsAt
<1>24. RowOf(s, k, x) BY <1>2, <1>16 DEF RowOf
<1>25. x.sends \subseteq DOMAIN s.answers BY <1>2, <1>16
<1>26. MostInv(t)
  BY <1>2, <1>15, <1>18, <1>19, <1>20, <1>21, <1>22, <1>23, <1>24, <1>25, OnlyKeeps DEF o
<1>27. Leaves(o, s.active) => Leaves(x, s.active)
  <2>1. Message("disconnectWait", 0).type = "disconnectWait" BY DEF Message
  <2> QED BY <1>5, <1>7, <1>8, <1>16, <2>1 DEF Leaves
<1>28. Leaving(t) BY <1>2, <1>15, <1>27, OnlyLeaves DEF o
<1> QED BY <1>9, <1>26, <1>28 DEF Inv

-----------------------------------------------------------------------------
(* The adapter posts a message, and changes its own part.                   *)
Posts(o, p, m) ==
    /\ SameFlags(o, p) /\ p.tasks = o.tasks /\ p.at = o.at
    /\ Elems(p.queue) = Elems(o.queue) \cup {m} /\ p.queue # <<>>
    /\ EndersLast(o.queue) /\ (m.type \notin {"send", "disconnect"} \/
                               \A n \in Elems(o.queue) : n.type \notin Enders)
         => EndersLast(p.queue)
    /\ SendsOnce(o.queue) /\ (m.type # "send" \/ m \notin Elems(o.queue))
         => SendsOnce(p.queue)

LEMMA PostParts ==
  ASSUME NEW s, s \in State, NEW k \in DOMAIN s.owner, NEW m \in Messages
  PROVE  \E p : Only(s, Post(s, k, m), k, p) /\ Posts(s.owner[k], p, m)
<1> DEFINE o == s.owner[k]
           q == Append(o.queue, m)
<1>1. o.queue \in Seq(Messages) BY OwnerTypes DEF OwnerState
<1>2. Post(s, k, m) = SetQueue(s, k, q) BY DEF Post, SetQueue
<1>3. /\ q \in Seq(Messages) /\ q # <<>> /\ Elems(q) = Elems(o.queue) \cup {m}
      /\ EndersLast(o.queue) /\ (m.type \notin {"send", "disconnect"} \/
                                 \A n \in Elems(o.queue) : n.type \notin Enders)
           => EndersLast(q)
      /\ SendsOnce(o.queue) /\ (m.type # "send" \/ m \notin Elems(o.queue))
           => SendsOnce(q)
  BY <1>1, AppendParts, AppendOrder
<1> HIDE DEF o, q
<1>4. PICK p : /\ Only(s, SetQueue(s, k, q), k, p) /\ SameFlags(o, p) /\ p.queue = q
               /\ p.tasks = o.tasks /\ p.at = o.at
  BY <1>3, SetQueueParts DEF o
<1>5. Posts(o, p, m) BY <1>3, <1>4 DEF Posts
<1> QED BY <1>2, <1>4, <1>5 DEF o

(* A message to the session that needs no answer.                           *)
LEMMA PostKeeps ==
  ASSUME NEW s, MostInv(s), s.session # 0, NEW m \in Messages,
         m.type \in {"reload", "open"}
  PROVE  Inv(Post(s, s.session, m))
<1> DEFINE k == s.session
           t == Post(s, k, m)
<1>1. /\ s \in State /\ Places(s) /\ Stops(s) /\ k \in DOMAIN s.owner
  <2>1. s \in State /\ Places(s) /\ Stops(s) BY DEF MostInv
  <2>2. k \in {0, Newest(s)} BY <2>1 DEF Places
  <2> QED BY <2>1, <2>2, OwnerTypes
<1> DEFINE o == s.owner[k]
<1>2. /\ OrderOf(o, k = s.session, s.closed) /\ RowOf(s, k, o) /\ Once(o)
      /\ o.sends \subseteq DOMAIN s.answers /\ ~s.closed
  BY <1>1 DEF MostInv, Ordered, RowIs, Waiting, Flights, Stops
<1>3. PICK p : Only(s, t, k, p) /\ Posts(o, p, m) BY <1>1, PostParts
<1> HIDE DEF t, o
<1>4. /\ p.sends = o.sends /\ p.ready = o.ready /\ p.retired = o.retired
      /\ p.revoked = o.revoked /\ p.leaving = o.leaving /\ p.end = o.end
      /\ p.shutdown = o.shutdown /\ p.closed = o.closed /\ p.stopped = o.stopped
      /\ p.done = o.done /\ p.hold = o.hold /\ p.tasks = o.tasks /\ p.at = o.at
      /\ Elems(p.queue) = Elems(o.queue) \cup {m}
      /\ EndersLast(o.queue) => EndersLast(p.queue)
      /\ SendsOnce(o.queue) => SendsOnce(p.queue)
  BY <1>3 DEF Posts, SameFlags
<1>5. OrderOf(p, k = s.session, s.closed)
  <2>1. Ended(p) <=> Ended(o) BY <1>4 DEF Ended
  <2> QED BY <1>2, <1>4, <2>1 DEF OrderOf, Enders
<1>6. \A r \in s.gate.inflight : Carries(o, r) => Carries(p, r) BY <1>4 DEF Carries
<1>7. Letters(p) = Letters(o) BY <1>4 DEF Letters
<1>8. Once(p) BY <1>2, <1>4 DEF Once
<1>9. Closer(p) => Closer(o) BY <1>4 DEF Closer
<1>10. RowOf(s, k, p) BY <1>2, <1>4 DEF RowOf
<1>11. MostInv(t)
  BY <1>1, <1>2, <1>3, <1>4, <1>5, <1>6, <1>7, <1>8, <1>9, <1>10, OnlyKeeps DEF o
<1>12. Leaving(t) BY <1>3 DEF Only, SameAdapter, Leaving, NeedsEnd
<1> QED BY <1>11, <1>12 DEF Inv, t

(* The adapter alone.                                                       *)
LEMMA AdapterKeeps ==
  ASSUME NEW s, NEW t, MostInv(s), ~s.closed, t \in State, Places(t),
         t.owner = s.owner, t.gate = s.gate, SameTalk(s, t),
         t.session = s.session, t.closed = s.closed, t.closing = s.closing
  PROVE  MostInv(t)
<1>1. /\ Stops(s) /\ Ordered(s) /\ Flights(s) /\ Waiting(s) /\ Answered(s) /\ RowIs(s)
      /\ t.answers = s.answers /\ t.account = s.account /\ t.stops = s.stops
      /\ t.lateLinked = s.lateLinked
  BY DEF MostInv, SameTalk
<1>2. Newest(t) = Newest(s) BY DEF Newest
<1>3. Stops(t) BY <1>1 DEF Stops
<1>4. Ordered(t) BY <1>1 DEF Ordered
<1>5. Flights(t) BY <1>1 DEF Flights
<1>6. Waiting(t) BY <1>1 DEF Waiting, Unanswered
<1>7. Answered(t) BY <1>1 DEF Answered
<1>8. RowIs(t) BY <1>1, <1>2 DEF RowIs, RowOf
<1> QED BY <1>3, <1>4, <1>5, <1>6, <1>7, <1>8 DEF MostInv

(* The session hears of its end: it is retired before the adapter goes on.  *)
Quits(o, m) == [o EXCEPT !.queue = Append(@, m), !.retired = TRUE]
Quit(s, k, m) == [s EXCEPT !.owner[k] = Quits(s.owner[k], m), !.session = NoSession]

LEMMA QuitForm ==
  ASSUME NEW s, s \in State, NEW k \in DOMAIN s.owner, NEW m
  PROVE  [Post(s, k, m) EXCEPT !.owner[k].retired = TRUE, !.session = NoSession] =
           Quit(s, k, m)
<1> DEFINE o == s.owner[k]
           u == Post(s, k, m)
           p == [o EXCEPT !.queue = Append(@, m)]
           w == [s.owner EXCEPT ![k] = p]
<1>1. o \in OwnerState /\ s.owner \in Seq(OwnerState) BY OwnerTypes
<1>2. u = [s EXCEPT !.owner = w] BY DEF Post
<1>3. w[k] = p /\ [w EXCEPT ![k] = Quits(o, m)] = [s.owner EXCEPT ![k] = Quits(o, m)]
  BY <1>1
<1> DEFINE yes == TRUE
           q == [p EXCEPT !.retired = yes]
<1>4. q = Quits(o, m)
  <2> HIDE DEF o
  <2> QED BY <1>1 DEF Quits, OwnerState
<1>5. [u EXCEPT !.owner[k].retired = yes, !.session = NoSession] =
        [s EXCEPT !.owner = [w EXCEPT ![k] = q], !.session = NoSession]
  <2> HIDE DEF w, yes, u
  <2>1. u.owner = w BY <1>2 DEF State
  <2>2. [u EXCEPT !.owner[k].retired = yes, !.session = NoSession] =
          [u EXCEPT !.owner = [w EXCEPT ![k] = [w[k] EXCEPT !.retired = yes]],
                    !.session = NoSession]
    BY <2>1
  <2>3. [w EXCEPT ![k] = [w[k] EXCEPT !.retired = yes]] = [w EXCEPT ![k] = q] BY <1>3
  <2> DEFINE x == [w EXCEPT ![k] = q]
  <2>4. [u EXCEPT !.owner = x, !.session = NoSession] =
          [s EXCEPT !.owner = x, !.session = NoSession]
    <3> HIDE DEF x
    <3> QED BY <1>2 DEF State
  <2> QED BY <2>2, <2>3, <2>4
<1> HIDE DEF w, u, p
<1> QED BY <1>3, <1>4, <1>5 DEF Quit, u

LEMMA QuitKeeps ==
  ASSUME NEW s, MostInv(s), ~s.closed, s.session # 0, NEW m \in Messages,
         m.type \in {"retire", "disconnect"}
  PROVE  LET t == Quit(s, s.session, m)
         IN  /\ MostInv(t) /\ t.session = 0 /\ SameTalk(s, t) /\ t.gate = s.gate
             /\ Newest(t) = Newest(s) /\ s.session = Newest(s)
             /\ t.active = s.active /\ t.retiring = s.retiring /\ t.handle = s.handle
             /\ t.doing = s.doing /\ t.closed = s.closed /\ t.leftBusy = s.leftBusy
             /\ t.loads = s.loads
             /\ Newest(t) \in DOMAIN t.owner /\ m \in Elems(t.owner[Newest(t)].queue)
<1> DEFINE k == s.session
           o == s.owner[k]
           p == Quits(o, m)
           v == SetOwner(s, k, p)
           z == NoSession
           t == Quit(s, k, m)
<1>1. /\ s \in State /\ Places(s) /\ Stops(s) /\ Ordered(s) /\ Flights(s) /\ Waiting(s)
      /\ Answered(s) /\ RowIs(s)
  BY DEF MostInv
<1>2. k \in DOMAIN s.owner /\ k = Newest(s)
  <2>1. k \in {0, Newest(s)} BY <1>1 DEF Places
  <2> QED BY <1>1, <2>1, OwnerTypes
<1>3. /\ OrderOf(o, TRUE, FALSE) /\ RowOf(s, k, o) /\ Once(o)
      /\ o.sends \subseteq DOMAIN s.answers /\ o \in OwnerState
      /\ s.owner \in Seq(OwnerState) /\ ~Closer(o)
  <2>1. OrderOf(o, k = s.session, s.closed) BY <1>1, <1>2 DEF Ordered
  <2>2. /\ RowOf(s, k, o) /\ Once(o) /\ o.sends \subseteq DOMAIN s.answers /\ o \in OwnerState
        /\ s.owner \in Seq(OwnerState) /\ ~Closer(o)
    BY <1>1, <1>2, OwnerTypes DEF RowIs, Waiting, Flights, Stops
  <2> QED BY <2>1, <2>2 DEF OrderOf
<1>4. t = [v EXCEPT !.session = z] BY <1>3 DEF Quit, SetOwner, State
<1>5. z = 0 BY DEF NoSession
<1> HIDE DEF z
<1>6. /\ p \in OwnerState /\ p.retired /\ p.queue = Append(o.queue, m)
      /\ p.sends = o.sends /\ p.ready = o.ready /\ p.revoked = o.revoked
      /\ p.leaving = o.leaving /\ p.end = o.end /\ p.shutdown = o.shutdown
      /\ p.closed = o.closed /\ p.stopped = o.stopped /\ p.done = o.done
      /\ p.hold = o.hold /\ p.tasks = o.tasks /\ p.at = o.at /\ o.queue \in Seq(Messages)
  <2> DEFINE yes == TRUE
             q == Append(o.queue, m)
  <2> HIDE DEF o
  <2>1. q \in Seq(Messages) /\ yes \in BOOLEAN /\ o.queue \in Seq(Messages) /\ yes
    BY <1>3 DEF OwnerState
  <2>2. p = [o EXCEPT !.queue = q, !.retired = yes] BY DEF Quits
  <2> HIDE DEF q, yes, p
  <2>3. /\ p \in OwnerState /\ p.retired = yes /\ p.queue = q
        /\ p.sends = o.sends /\ p.ready = o.ready /\ p.revoked = o.revoked
        /\ p.leaving = o.leaving /\ p.end = o.end /\ p.shutdown = o.shutdown
        /\ p.closed = o.closed /\ p.stopped = o.stopped /\ p.done = o.done
        /\ p.hold = o.hold /\ p.tasks = o.tasks /\ p.at = o.at
    BY <1>3, <2>1, <2>2 DEF OwnerState
  <2> QED BY <2>1, <2>3 DEF q
<1>7. /\ Elems(p.queue) = Elems(o.queue) \cup {m}
      /\ EndersLast(o.queue) /\ (\A n \in Elems(o.queue) : n.type \notin Enders)
           => EndersLast(p.queue)
      /\ SendsOnce(o.queue) => SendsOnce(p.queue)
  BY <1>6, AppendParts, AppendOrder
<1> HIDE DEF p
<1>8. Only(s, v, k, p) BY <1>1, <1>2, <1>6, SetOwnerParts
<1> HIDE DEF v, t
<1>9. /\ t \in State /\ t.owner = v.owner /\ t.gate = v.gate /\ SameTalk(v, t) /\ t.session = 0
      /\ t.active = v.active /\ t.retiring = v.retiring /\ t.handle = v.handle
      /\ t.doing = v.doing /\ t.closing = v.closing /\ t.closed = v.closed
      /\ t.loads = v.loads /\ t.leftBusy = v.leftBusy
  BY <1>4, <1>5, <1>8 DEF Only, State, SameTalk
<1>10. /\ Becomes(s, t, k, p) /\ t.gate = s.gate /\ SameTalk(s, t)
       /\ t.active = s.active /\ t.retiring = s.retiring /\ t.handle = s.handle
       /\ t.doing = s.doing /\ t.closing = s.closing /\ t.closed = s.closed
       /\ t.loads = s.loads /\ t.leftBusy = s.leftBusy
  BY <1>8, <1>9 DEF Only, SameGate, SameAdapter, SameTalk, Becomes, Newest
<1> HIDE DEF o
<1>11. Letters(p) = Letters(o) BY <1>6, <1>7 DEF Letters
<1>12. SendsMove(s, t, o, p)
  <2>1. \A r \in DOMAIN s.answers : Kept(s, t, o, p, r)
    BY <1>6, <1>7, <1>10, <1>11 DEF Kept, SameTalk, Carries
  <2>2. Once(p) BY <1>3, <1>6, <1>7 DEF Once
  <2> QED BY <1>1, <1>3, <1>6, <1>10, <1>11, <2>1, <2>2 DEF SendsMove, Flights, SameTalk
<1>13. Flights(t) /\ Waiting(t) /\ Answered(t)
  BY <1>1, <1>2, <1>10, <1>12, SendsMoveKeeps DEF o
<1>14. Places(t) BY <1>1, <1>9, <1>10 DEF Places, Becomes, SameTalk
<1>15. ~Closer(p) BY <1>3, <1>6, <1>7 DEF Closer
<1>16. \A j \in DOMAIN t.owner :
         /\ j \in DOMAIN s.owner /\ j # 0
         /\ j = k => t.owner[j] = p
         /\ j # k => t.owner[j] = s.owner[j]
  <2>1. 0 \notin DOMAIN s.owner BY <1>1, OwnerTypes
  <2>2. /\ DOMAIN t.owner = DOMAIN s.owner /\ t.owner[k] = p
        /\ \A j \in DOMAIN s.owner : j # k => t.owner[j] = s.owner[j]
    BY <1>10 DEF Becomes
  <2> QED BY <2>1, <2>2
<1>17. Stops(t)
  <2>1. \A j \in DOMAIN t.owner : ~Closer(t.owner[j]) BY <1>1, <1>15, <1>16 DEF Stops
  <2> QED BY <1>1, <1>10, <2>1 DEF Stops, SameTalk
<1>18. Ordered(t)
  <2> SUFFICES ASSUME NEW j \in DOMAIN t.owner
               PROVE  OrderOf(t.owner[j], j = t.session, t.closed)
    BY DEF Ordered
  <2>1. CASE j = k
    <3>1. Ended(p) <=> Ended(o) BY <1>6 DEF Ended
    <3>2. OrderOf(p, FALSE, FALSE) BY <1>3, <1>6, <1>7, <3>1 DEF OrderOf
    <3> QED BY <2>1, <3>2, <1>9, <1>10, <1>16 DEF OrderOf
  <2>2. CASE j # k
    <3>1. OrderOf(s.owner[j], j = s.session, s.closed) BY <1>1, <1>16 DEF Ordered
    <3> QED BY <2>2, <3>1, <1>9, <1>10, <1>16 DEF OrderOf
  <2> QED BY <2>1, <2>2
<1>19. RowIs(t)
  <2>1. ASSUME NEW j \in DOMAIN t.owner PROVE RowOf(t, j, t.owner[j])
    <3>1. CASE j = k BY <3>1, <1>3, <1>6, <1>9, <1>10, <1>16 DEF RowOf, SameTalk, Becomes
    <3>2. CASE j # k
      <4>1. RowOf(s, j, s.owner[j]) BY <1>1, <1>16 DEF RowIs
      <4> QED BY <3>2, <4>1, <1>9, <1>10, <1>16 DEF RowOf, SameTalk, Becomes
    <3> QED BY <3>1, <3>2
  <2> QED BY <1>1, <1>10, <2>1 DEF RowIs, SameTalk, Becomes
<1>20. MostInv(t) BY <1>9, <1>13, <1>14, <1>17, <1>18, <1>19 DEF MostInv
<1>21. Newest(t) = k /\ k \in DOMAIN t.owner /\ m \in Elems(t.owner[k].queue)
  BY <1>2, <1>7, <1>10 DEF Becomes
<1> QED BY <1>2, <1>9, <1>10, <1>20, <1>21 DEF t

(* A session that was refused is dropped before the next command.           *)
LEMMA RetireForm ==
  ASSUME NEW s, MostInv(s), ~s.closed, NEW n \in Nat
  PROVE  LET t == RetireSession(s, n)
         IN  /\ MostInv(t) /\ t.session = 0 /\ SameTalk(s, t) /\ t.gate = s.gate
             /\ Newest(t) = Newest(s)
             /\ t.active = s.active /\ t.retiring = s.retiring /\ t.handle = s.handle
             /\ t.doing = s.doing /\ t.closed = s.closed /\ t.leftBusy = s.leftBusy
             /\ t.loads = s.loads
<1> DEFINE t == RetireSession(s, n)
           m == Message("retire", n)
<1>1. s \in State /\ Places(s) BY DEF MostInv
<1>2. CASE s.session = 0
  <2>1. t = s BY <1>2 DEF RetireSession, NoSession
  <2> QED BY <1>2, <2>1 DEF SameTalk
<1>3. CASE s.session # 0
  <2>1. m \in Messages /\ m.type \in {"retire", "disconnect"}
    BY DEF Message, Messages, Enders, Results
  <2>2. s.session \in DOMAIN s.owner
    <3>1. s.session \in {0, Newest(s)} BY <1>1 DEF Places
    <3> QED BY <1>1, <1>3, <3>1, OwnerTypes
  <2>3. t = [Post(s, s.session, m) EXCEPT !.owner[s.session].retired = TRUE,
                                         !.session = NoSession]
    BY <1>3 DEF RetireSession, NoSession
  <2>4. [Post(s, s.session, m) EXCEPT !.owner[s.session].retired = TRUE,
                                     !.session = NoSession] = Quit(s, s.session, m)
    BY <1>1, <2>2, QuitForm, Zenon
  <2>5. t = Quit(s, s.session, m) BY <2>3, <2>4
  <2> HIDE DEF m, t
  <2> QED BY <1>3, <2>1, <2>5, QuitKeeps DEF t
<1> QED BY <1>2, <1>3

LEMMA DroppedKeeps ==
  ASSUME Inv(discord), ~discord.closed
  PROVE  LET s == discord
             d == Dropped
         IN  /\ Inv(d) /\ SameTalk(s, d) /\ d.gate = s.gate /\ d.session \in {0, Newest(d)}
             /\ Newest(d) = Newest(s) /\ d.active = s.active /\ d.handle = s.handle
             /\ d.doing = s.doing /\ d.closed = s.closed /\ d.loads = s.loads
<1> DEFINE s == discord
           k == s.session
           d == Dropped
<1>1. MostInv(s) /\ Leaving(s) /\ s \in State /\ Places(s) /\ Flights(s) /\ RowIs(s)
  BY DEF Inv, MostInv
<1>2. k \in {0, Newest(s)} BY <1>1 DEF Places
<1>3. CASE k = 0 \/ ~s.owner[k].revoked
  <2>1. d = s BY <1>3 DEF Dropped, NoSession
  <2> QED BY <1>2, <2>1 DEF SameTalk
<1>4. CASE k # 0 /\ s.owner[k].revoked
  <2> DEFINE t == RetireSession(s, 0)
  <2>1. k \in DOMAIN s.owner /\ k = Newest(s) BY <1>1, <1>2, <1>4, OwnerTypes
  <2>2. ~s.gate.open
    <3>1. RowOf(s, k, s.owner[k]) BY <1>1, <2>1 DEF RowIs
    <3> QED BY <1>4, <2>1, <3>1 DEF RowOf
  <2>3. ~Pending(s) BY <1>1, <2>2 DEF Flights, Pending
  <2>4. d = [t EXCEPT !.retiring = t.retiring] BY <1>4, <2>3 DEF Dropped, NoSession
  <2>5. 0 \in Nat OBVIOUS
  <2>6. /\ MostInv(t) /\ t.session = 0 /\ SameTalk(s, t) /\ t.gate = s.gate
        /\ Newest(t) = Newest(s)
        /\ t.active = s.active /\ t.retiring = s.retiring /\ t.handle = s.handle
        /\ t.doing = s.doing /\ t.closed = s.closed /\ t.leftBusy = s.leftBusy
        /\ t.loads = s.loads
    BY <1>1, <2>5, RetireForm
  <2> HIDE DEF t
  <2>7. d = t BY <2>4, <2>6 DEF MostInv, State
  <2>8. Leaving(t)
    <3>1. s.lateLinked \/ s.account = "unlinked" BY <1>1, <2>2 DEF RowIs
    <3> QED BY <3>1, <2>6 DEF Leaving, NeedsEnd, SameTalk
  <2> QED BY <2>6, <2>7, <2>8 DEF Inv
<1> QED BY <1>3, <1>4

(* A command: what it starts from.                                          *)
LEMMA CommandKeeps ==
  ASSUME Inv(discord), Free, CallsLeft
  PROVE  LET s == AdvanceActive(Dropped)
         IN  /\ MostInv(s) /\ ~s.closed /\ s.doing = "none" /\ s.handle = 0
             /\ Newest(s) < s.active /\ s.gate.epoch = Newest(s) /\ s.closing = 0
             /\ s.session \in {0, Newest(s)} /\ Newest(s) = Newest(discord)
<1> DEFINE d == Dropped
           s == AdvanceActive(d)
           n == d.active + 1
           no == FALSE
<1>1. ~discord.closed /\ discord.doing = "none" BY DEF Free
<1>2. /\ Inv(d) /\ SameTalk(discord, d) /\ d.gate = discord.gate
      /\ d.session \in {0, Newest(d)}
      /\ Newest(d) = Newest(discord) /\ d.active = discord.active
      /\ d.handle = discord.handle /\ d.doing = discord.doing
      /\ d.closed = discord.closed /\ d.loads = discord.loads
  BY <1>1, DroppedKeeps
<1>3. discord \in State /\ discord.active + discord.loads + Len(discord.answers) < MaxCall
  BY DEF Inv, MostInv, CallsLeft
<1>4. s = [d EXCEPT !.active = n, !.leftBusy = no] BY DEF AdvanceActive
<1> HIDE DEF d
<1>5. MostInv(d) /\ d \in State /\ Places(d) /\ Stops(d) BY <1>2 DEF Inv, MostInv
<1>6. n \in Nat /\ no \in BOOLEAN BY <1>5 DEF State
<1> HIDE DEF s, no
<1>7. /\ s \in State /\ s.active = n /\ s.owner = d.owner /\ s.gate = d.gate
      /\ s.session = d.session /\ s.retiring = d.retiring /\ s.handle = d.handle
      /\ s.doing = d.doing /\ s.closing = d.closing /\ s.closed = d.closed
      /\ s.account = d.account /\ s.stops = d.stops /\ s.answers = d.answers
      /\ s.loads = d.loads /\ s.lateLinked = d.lateLinked
  <2> HIDE DEF n
  <2> QED BY <1>4, <1>5, <1>6 DEF State
<1>8. Newest(s) = Newest(d) BY <1>7 DEF Newest
<1>9. Newest(d) \in Nat /\ d.active \in Nat /\ Newest(d) <= d.active
      /\ d.loads \in Nat /\ d.answers \in Seq(Nat) /\ MaxCall \in Nat
  BY <1>5, OwnerTypes, DiscordBounds DEF State, Places
<1>10. n + d.loads + Len(d.answers) <= MaxCall /\ Newest(d) < n
  <2>1. d.active + d.loads + Len(d.answers) < MaxCall BY <1>2, <1>3 DEF SameTalk
  <2>2. Len(d.answers) \in Nat BY <1>9
  <2> DEFINE a == d.active
             b == d.loads
             c == Len(d.answers)
             e == Newest(d)
  <2>3. a \in Nat /\ b \in Nat /\ c \in Nat /\ e \in Nat /\ MaxCall \in Nat
        /\ a + b + c < MaxCall /\ e <= a /\ n = a + 1
    BY <2>1, <2>2, <1>9
  <2> HIDE DEF a, b, c, e, n
  <2>4. n + b + c <= MaxCall /\ e < n BY <2>3
  <2> QED BY <2>4 DEF b, c, e
<1>11. Places(s) BY <1>5, <1>7, <1>8, <1>9, <1>10 DEF Places
<1>12. MostInv(s) BY <1>1, <1>2, <1>5, <1>7, <1>11, AdapterKeeps DEF SameTalk
<1>13. s.handle = 0 /\ s.gate.epoch = Newest(s) /\ s.closing = 0
  BY <1>1, <1>2, <1>5, <1>7, <1>8 DEF Places, Stops
<1> QED BY <1>1, <1>2, <1>7, <1>8, <1>10, <1>12, <1>13 DEF s, d

(* A session starts, with the gate of the account.                          *)
AddOwner(s, o) == [s EXCEPT !.owner = Append(@, o)]
Starts(s, n) ==
    [s EXCEPT !.session = n, !.retiring = NoSession, !.gate.epoch = @ + 1,
              !.gate.open = TRUE, !.account = "linking"]
Begin(s, o, n) == Starts(AddOwner(s, o), n)

LEMMA StartedParts ==
  ASSUME NEW w \in Nat
  PROVE  LET o == StartedOwner(w)
         IN  /\ o \in OwnerState /\ Elems(o.queue) = {Message("reload", 0)}
             /\ EndersLast(o.queue) /\ SendsOnce(o.queue) /\ Letters(o) = {}
             /\ o.at = NoMessage /\ o.hold /\ o.sends = {} /\ o.leaving = 0
             /\ ~Ended(o) /\ ~Closer(o) /\ ~o.retired /\ ~o.revoked /\ ~o.closed
<1> DEFINE o == StartedOwner(w)
           m == Message("reload", 0)
           q == <<m>>
<1>1. m \in Messages /\ NoMessage \in Messages /\ m.type = "reload" /\ NoMessage.type = "none"
  BY DEF Messages, Message, NoMessage, Results
<1>2. q \in Seq(Messages) BY <1>1
<1>3. DOMAIN q = {1} /\ q[1] = m
  <2>1. q \in [1 .. 1 -> {m}] OBVIOUS
  <2>2. 1 .. 1 = {1} OBVIOUS
  <2> QED BY <2>1, <2>2
<1> HIDE DEF m
<1>4. Elems(q) = {m} /\ EndersLast(q) /\ SendsOnce(q) BY <1>1, <1>3 DEF Elems, EndersLast, SendsOnce
<1>5. o.queue = q BY DEF StartedOwner, m
<1> HIDE DEF q
<1> DEFINE no == FALSE
           yes == TRUE
           none == {}
<1>6. o = [waits |-> w, queue |-> q, tasks |-> none,
           at |-> NoMessage, hold |-> yes, sends |-> none, ticket |-> 0, ready |-> no,
           retired |-> no, unlink |-> "none", revoked |-> no, leaving |-> 0,
           end |-> "none", settleArmed |-> no, shutdown |-> no, closed |-> no,
           stopped |-> no, done |-> no]
  BY DEF StartedOwner, q, m
<1>7. /\ no \in BOOLEAN /\ yes \in BOOLEAN /\ none \in SUBSET Nat /\ none \in SUBSET Tasks
      /\ ~no /\ yes /\ none = {} /\ 0 \in 0 .. MaxCall
  BY DiscordBounds
<1> HIDE DEF no, yes, none, o
<1>8. o \in OwnerState BY <1>1, <1>2, <1>6, <1>7 DEF OwnerState
<1>9. /\ o.at = NoMessage /\ o.hold = yes /\ o.sends = none /\ o.leaving = 0
      /\ o.retired = no /\ o.revoked = no /\ o.closed = no /\ o.shutdown = no
      /\ o.stopped = no /\ o.done = no /\ o.end = "none"
  BY <1>6
<1>10. ~Ended(o) BY <1>7, <1>9 DEF Ended
<1>11. ~Closer(o) BY <1>1, <1>4, <1>5, <1>7, <1>9 DEF Closer
<1>12. Letters(o) = {} BY <1>1, <1>4, <1>5, <1>9 DEF Letters
<1> QED BY <1>4, <1>5, <1>7, <1>8, <1>9, <1>10, <1>11, <1>12 DEF o, m

LEMMA BeginKeeps ==
  ASSUME NEW s, MostInv(s), ~s.closed, s.doing = "none", s.session = 0,
         Newest(s) < s.active, NEW w \in Nat
  PROVE  Inv(Begin(s, StartedOwner(w), Newest(s) + 1))
<1> DEFINE o == StartedOwner(w)
           n == Newest(s) + 1
           ow == Append(s.owner, o)
           e == s.gate.epoch + 1
           yes == TRUE
           z == NoSession
           t == Begin(s, o, n)
<1>1. /\ s \in State /\ Places(s) /\ Stops(s) /\ Ordered(s) /\ Flights(s) /\ Waiting(s)
      /\ Answered(s) /\ RowIs(s)
  BY DEF MostInv
<1>2. /\ o \in OwnerState /\ Elems(o.queue) = {Message("reload", 0)}
      /\ EndersLast(o.queue) /\ SendsOnce(o.queue) /\ Letters(o) = {}
      /\ o.at = NoMessage /\ o.sends = {}
      /\ ~Ended(o) /\ ~Closer(o) /\ ~o.retired /\ ~o.revoked /\ ~o.closed
  BY StartedParts
<1> HIDE DEF o
<1>3. /\ s.owner \in Seq(OwnerState) /\ Newest(s) \in Nat /\ DOMAIN s.owner = 1 .. Newest(s)
      /\ 0 \notin DOMAIN s.owner
  BY <1>1, OwnerTypes DEF Newest
<1>4. /\ ow \in Seq(OwnerState) /\ Len(ow) = n /\ ow[n] = o
      /\ \A j \in DOMAIN s.owner : ow[j] = s.owner[j]
  BY <1>2, <1>3 DEF Newest
<1>5. /\ DOMAIN ow = DOMAIN s.owner \cup {n} /\ n \notin DOMAIN s.owner /\ n # 0
      /\ n \in Nat /\ n <= s.active
  <2>1. DOMAIN ow = 1 .. n BY <1>4
  <2>2. s.active \in Nat BY <1>1 DEF State
  <2> HIDE DEF ow
  <2> QED BY <1>3, <2>1, <2>2
<1>6. s.gate.epoch = Newest(s) /\ s.closing = 0 /\ s.stops = 0 /\ s.handle = 0
  BY <1>1 DEF Places, Stops
<1>7. e = n /\ e \in Nat /\ yes \in BOOLEAN /\ yes /\ z = 0 /\ z \in Nat
  BY <1>3, <1>6 DEF NoSession
<1>8. t = [s EXCEPT !.owner = ow, !.session = n, !.retiring = z,
                    !.gate.epoch = e, !.gate.open = yes, !.account = "linking"]
  <2> DEFINE a == AddOwner(s, o)
  <2>1. a = [s EXCEPT !.owner = ow] BY DEF AddOwner
  <2>2. t = [a EXCEPT !.session = n, !.retiring = z, !.gate.epoch = a.gate.epoch + 1,
                      !.gate.open = yes, !.account = "linking"]
    BY DEF Begin, Starts
  <2> HIDE DEF ow, n, z, yes, a, t
  <2> QED BY <1>1, <2>1, <2>2 DEF State
<1> DEFINE g == [s.gate EXCEPT !.epoch = e, !.open = yes]
<1> HIDE DEF ow, e, n, yes, z, t
<1>30. /\ g \in [open : BOOLEAN, epoch : Nat, inflight : SUBSET Nat]
       /\ g.epoch = e /\ g.open = yes /\ g.inflight = s.gate.inflight
  BY <1>1, <1>7 DEF State
<1>31. t = [s EXCEPT !.owner = ow, !.session = n, !.retiring = z, !.gate = g,
                     !.account = "linking"]
  <2>1. s.gate \in [open : BOOLEAN, epoch : Nat, inflight : SUBSET Nat] BY <1>1 DEF State
  <2> QED BY <1>1, <1>8, <2>1 DEF State
<1> HIDE DEF g
<1>9. /\ t \in State /\ t.owner = ow /\ t.session = n /\ t.retiring = z
      /\ t.gate.epoch = e /\ t.gate.open = yes /\ t.gate.inflight = s.gate.inflight
      /\ t.account = "linking" /\ t.active = s.active /\ t.handle = s.handle
      /\ t.doing = s.doing /\ t.closing = s.closing /\ t.closed = s.closed
      /\ t.stops = s.stops /\ t.answers = s.answers /\ t.loads = s.loads
      /\ t.leftBusy = s.leftBusy /\ t.lateLinked = s.lateLinked
  BY <1>1, <1>4, <1>5, <1>7, <1>30, <1>31 DEF State
<1>10. Newest(t) = n BY <1>4, <1>9 DEF Newest
<1>11. \A j \in DOMAIN t.owner :
         /\ j = n => t.owner[j] = o
         /\ j # n => j \in DOMAIN s.owner /\ t.owner[j] = s.owner[j] /\ j # Newest(t) /\ j # 0
  BY <1>3, <1>4, <1>5, <1>9, <1>10
<1>12. \A j \in DOMAIN s.owner : j \in DOMAIN t.owner /\ t.owner[j] = s.owner[j]
  BY <1>4, <1>5, <1>9
<1>13. Places(t) BY <1>1, <1>5, <1>6, <1>7, <1>9, <1>10 DEF Places
<1>14. Stops(t)
  <2>1. \A j \in DOMAIN t.owner : ~Closer(t.owner[j]) BY <1>1, <1>2, <1>11 DEF Stops
  <2> QED BY <1>1, <1>9, <2>1 DEF Stops
<1>15. NoMessage.type = "none" /\ Message("reload", 0).type = "reload"
  BY DEF NoMessage, Message
<1>16. Ordered(t)
  <2> SUFFICES ASSUME NEW j \in DOMAIN t.owner
               PROVE  OrderOf(t.owner[j], j = t.session, t.closed)
    BY DEF Ordered
  <2>1. CASE j = n
    <3>1. OrderOf(o, TRUE, FALSE) BY <1>2, <1>15 DEF OrderOf, Enders
    <3> QED BY <2>1, <3>1, <1>9, <1>11 DEF OrderOf
  <2>2. CASE j # n
    <3>1. OrderOf(s.owner[j], j = s.session, s.closed) BY <2>2, <1>1, <1>11 DEF Ordered
    <3> QED BY <2>2, <3>1, <1>9, <1>11 DEF OrderOf
  <2> QED BY <2>1, <2>2
<1>17. Flights(t)
  <2>1. \A r \in t.gate.inflight :
          /\ r \in DOMAIN t.answers /\ t.answers[r] = 0
          /\ \E j \in DOMAIN t.owner : Carries(t.owner[j], r)
    BY <1>1, <1>9, <1>12 DEF Flights
  <2>2. \A j \in DOMAIN t.owner : t.owner[j].sends \subseteq DOMAIN t.answers
    BY <1>1, <1>2, <1>9, <1>11 DEF Flights
  <2> QED BY <1>7, <1>9, <2>1, <2>2 DEF Flights
<1>18. Waiting(t)
  <2>1. \A j \in DOMAIN t.owner : Unanswered(t, t.owner[j]) /\ Once(t.owner[j])
    <3> SUFFICES ASSUME NEW j \in DOMAIN t.owner
                 PROVE  Unanswered(t, t.owner[j]) /\ Once(t.owner[j])
      OBVIOUS
    <3>1. CASE j = n BY <3>1, <1>2, <1>11, <1>15 DEF Unanswered, Once
    <3>2. CASE j # n
      <4>1. Unanswered(s, s.owner[j]) /\ Once(s.owner[j]) BY <3>2, <1>1, <1>11 DEF Waiting
      <4> QED BY <3>2, <4>1, <1>9, <1>11 DEF Unanswered
    <3> QED BY <3>1, <3>2
  <2>2. \A j, l \in DOMAIN t.owner : j # l =>
          \A m \in Letters(t.owner[j]) : m \notin Letters(t.owner[l])
    BY <1>1, <1>2, <1>11 DEF Waiting
  <2> QED BY <2>1, <2>2 DEF Waiting
<1>19. Answered(t) BY <1>1, <1>9, <1>12 DEF Answered
<1>20. RowIs(t)
  <2>1. ASSUME NEW j \in DOMAIN t.owner PROVE RowOf(t, j, t.owner[j])
    <3>1. CASE j = n BY <3>1, <1>2, <1>7, <1>9, <1>11, <1>15 DEF RowOf
    <3>2. CASE j # n
      <4>1. RowOf(s, j, s.owner[j]) BY <3>2, <1>1, <1>11 DEF RowIs
      <4> QED BY <3>2, <4>1, <1>9, <1>11 DEF RowOf
    <3> QED BY <3>1, <3>2
  <2> QED BY <1>5, <1>7, <1>9, <1>10, <2>1 DEF RowIs
<1>21. MostInv(t) BY <1>9, <1>13, <1>14, <1>16, <1>17, <1>18, <1>19, <1>20 DEF MostInv
<1>22. Leaving(t) BY <1>5, <1>9 DEF Leaving, NeedsEnd
<1> QED BY <1>21, <1>22 DEF Inv, t, o, n

LEMMA AppendExcept ==
  ASSUME NEW S, NEW a \in Seq(S), NEW x \in S, NEW y \in S, NEW k \in DOMAIN a
  PROVE  /\ [Append(a, x) EXCEPT ![k] = y] = Append([a EXCEPT ![k] = y], x)
         /\ Append(a, x)[k] = a[k] /\ k \in DOMAIN Append(a, x)
<1> DEFINE n == Len(a)
           b == [a EXCEPT ![k] = y]
           c == Append(a, x)
           d == [c EXCEPT ![k] = y]
           e == Append(b, x)
<1>1. DOMAIN a = 1 .. n /\ n \in Nat OBVIOUS
<1>2. b \in Seq(S) /\ Len(b) = n /\ b[k] = y /\ \A j \in 1 .. n : j # k => b[j] = a[j]
  BY <1>1
<1>3. c \in Seq(S) /\ Len(c) = n + 1 /\ c[n + 1] = x /\ \A j \in 1 .. n : c[j] = a[j]
  BY <1>1
<1>4. e \in Seq(S) /\ Len(e) = n + 1 /\ e[n + 1] = x /\ \A j \in 1 .. n : e[j] = b[j]
  BY <1>2
<1>5. DOMAIN c = 1 .. n + 1 /\ DOMAIN e = 1 .. n + 1 BY <1>3, <1>4
<1> HIDE DEF n, b, c, e
<1>6. k \in 1 .. n BY <1>1
<1>7. \A j \in 1 .. n + 1 : d[j] = e[j]
  <2> SUFFICES ASSUME NEW j \in 1 .. n + 1 PROVE d[j] = e[j] OBVIOUS
  <2>1. j = n + 1 \/ j \in 1 .. n BY <1>1
  <2>2. k # n + 1 BY <1>1, <1>6
  <2>3. CASE j = n + 1 BY <2>2, <2>3, <1>3, <1>4, <1>5
  <2>4. CASE j \in 1 .. n /\ j = k BY <2>4, <1>2, <1>4, <1>5
  <2>5. CASE j \in 1 .. n /\ j # k BY <2>5, <1>2, <1>3, <1>4, <1>5
  <2> QED BY <2>1, <2>3, <2>4, <2>5
<1>8. d = e
  <2>1. DOMAIN d = 1 .. n + 1 BY <1>5
  <2>3. e = [j \in 1 .. n + 1 |-> e[j]] BY <1>4, <1>5
  <2>4. d = [j \in 1 .. n + 1 |-> d[j]] BY <2>1
  <2> HIDE DEF d
  <2> QED BY <2>3, <2>4, <1>7
<1>9. c[k] = a[k] /\ k \in DOMAIN c BY <1>1, <1>3, <1>5, <1>6
<1> QED BY <1>8, <1>9 DEF b, c, e

(* The session of before is retired after the new one has its place.        *)
LEMMA BeginForm ==
  ASSUME NEW s, MostInv(s), NEW o \in OwnerState, NEW n \in Nat, s.session # 0
  PROVE  LET m == Message("retire", n)
             x == AddOwner(s, o)
             y == Quit(s, s.session, m)
         IN  RetireSession(x, n) = AddOwner(y, o)
<1> DEFINE m == Message("retire", n)
           k == s.session
           ow == s.owner
           xw == Append(ow, o)
           x == [s EXCEPT !.owner = xw]
           q == Quits(ow[k], m)
           yw == [ow EXCEPT ![k] = q]
           y == Quit(s, k, m)
           z == NoSession
           t == RetireSession(x, n)
<1>1. s \in State /\ Places(s) BY DEF MostInv
<1>2. ow \in Seq(OwnerState) /\ k \in DOMAIN ow /\ ow[k] \in OwnerState
  <2>1. k \in {0, Newest(s)} BY <1>1 DEF Places
  <2> QED BY <1>1, <2>1, OwnerTypes
<1>3. q \in OwnerState
  <2> DEFINE a == ow[k]
             yes == TRUE
             b == Append(a.queue, m)
  <2>1. m \in Messages BY DEF Message, Messages, Enders, Results
  <2> HIDE DEF m
  <2>2. a \in OwnerState BY <1>2
  <2> HIDE DEF a
  <2>3. b \in Seq(Messages) /\ yes \in BOOLEAN BY <2>1, <2>2 DEF OwnerState
  <2>4. q = [a EXCEPT !.queue = b, !.retired = yes] BY DEF Quits, a
  <2> HIDE DEF b, yes, q
  <2> QED BY <2>2, <2>3, <2>4 DEF OwnerState
<1> HIDE DEF m, q
<1>4. /\ [xw EXCEPT ![k] = q] = Append(yw, o) /\ xw[k] = ow[k] /\ k \in DOMAIN xw
      /\ xw \in Seq(OwnerState) /\ yw \in Seq(OwnerState)
  BY <1>2, <1>3, AppendExcept
<1> HIDE DEF xw, yw, ow
<1>5. x \in State /\ x.owner = xw /\ x.session = k BY <1>1, <1>4 DEF State
<1>6. t = Quit(x, k, m)
  <2>1. t = [Post(x, k, m) EXCEPT !.owner[k].retired = TRUE, !.session = NoSession]
    <3>1. x.session = k BY <1>5
    <3> HIDE DEF x, k
    <3>2. k # NoSession BY DEF k, NoSession
    <3> QED BY <3>1, <3>2 DEF RetireSession, m
  <2> HIDE DEF x, t, k
  <2>2. k \in DOMAIN x.owner BY <1>4, <1>5
  <2>3. [Post(x, k, m) EXCEPT !.owner[k].retired = TRUE, !.session = NoSession] = Quit(x, k, m)
    BY <1>5, <2>2, QuitForm, Zenon
  <2> QED BY <2>1, <2>3
<1>7. Quit(x, k, m) = [x EXCEPT !.owner = Append(yw, o), !.session = z]
  <2>1. Quits(x.owner[k], m) = q BY <1>4, <1>5 DEF q, ow
  <2>2. [x.owner EXCEPT ![k] = q] = Append(yw, o) BY <1>4, <1>5
  <2> HIDE DEF x, k
  <2> QED BY <2>1, <2>2 DEF Quit
<1>8. y = [s EXCEPT !.owner = yw, !.session = z] BY DEF Quit, yw, q, ow
<1> HIDE DEF z
<1>9. y \in State /\ y.owner = yw
  <2>1. z \in Nat BY DEF z, NoSession
  <2> QED BY <1>1, <1>4, <1>8, <2>1 DEF State
<1> HIDE DEF y, t, x
<1>10. t = [y EXCEPT !.owner = Append(yw, o)]
  <2> DEFINE w == Append(yw, o)
  <2> HIDE DEF w
  <2>1. t = [x EXCEPT !.owner = w, !.session = z] BY <1>6, <1>7 DEF w
  <2>2. [x EXCEPT !.owner = w, !.session = z] = [y EXCEPT !.owner = w]
    BY <1>1, <1>8 DEF State, x
  <2> QED BY <2>1, <2>2 DEF w
<1>11. x = AddOwner(s, o) /\ AddOwner(y, o) = [y EXCEPT !.owner = Append(yw, o)]
  <2>1. AddOwner(y, o) = [y EXCEPT !.owner = Append(yw, o)] BY <1>9 DEF AddOwner
  <2>2. x = AddOwner(s, o) BY DEF AddOwner, x, xw, ow
  <2> QED BY <2>1, <2>2
<1> QED BY <1>10, <1>11 DEF t, y, m

LEMMA ConnectBotStep ==
  ASSUME Inv(discord), ConnectBot
  PROVE  Inv(discord')
<1> DEFINE n == Len(discord.owner) + 1
           s == AdvanceActive(Dropped)
           k == s.session
           o == StartedOwner(k)
           x == AddOwner(s, o)
<1>1. Free /\ CallsLeft /\ discord' = Starts(RetireSession(x, n), n)
  BY DEF ConnectBot, Starts, AddOwner
<1>2. /\ MostInv(s) /\ ~s.closed /\ s.doing = "none" /\ s.handle = 0
      /\ Newest(s) < s.active /\ s.gate.epoch = Newest(s) /\ s.closing = 0
      /\ s.session \in {0, Newest(s)} /\ Newest(s) = Newest(discord)
  BY <1>1, CommandKeeps
<1> HIDE DEF s
<1>3. s \in State /\ n = Newest(s) + 1 /\ Newest(s) \in Nat /\ n \in Nat /\ k \in Nat
  <2>1. s \in State BY <1>2 DEF MostInv
  <2> QED BY <1>2, <2>1, OwnerTypes DEF Newest
<1>4. o \in OwnerState BY <1>3, StartedParts
<1>5. CASE k = 0
  <2>1. RetireSession(x, n) = x
    <3> HIDE DEF o
    <3>1. x.session = 0 BY <1>3, <1>5 DEF State, AddOwner
    <3> QED BY <3>1 DEF RetireSession, NoSession
  <2>2. discord' = Begin(s, o, n) BY <1>1, <2>1 DEF Begin
  <2>3. Inv(Begin(s, StartedOwner(k), Newest(s) + 1)) BY <1>2, <1>3, <1>5, BeginKeeps
  <2> QED BY <1>3, <2>2, <2>3
<1>6. CASE k # 0
  <2> DEFINE m == Message("retire", n)
             y == Quit(s, k, m)
  <2>1. discord' = Begin(y, o, n)
    <3>1. RetireSession(x, n) = AddOwner(y, o) BY <1>2, <1>3, <1>4, <1>6, BeginForm
    <3> QED BY <1>1, <3>1 DEF Begin
  <2>2. m \in Messages /\ m.type \in {"retire", "disconnect"}
    BY <1>3 DEF Message, Messages, Enders, Results
  <2> HIDE DEF m
  <2>3. /\ MostInv(y) /\ y.session = 0 /\ Newest(y) = Newest(s)
        /\ y.active = s.active /\ y.doing = s.doing /\ y.closed = s.closed
    BY <1>2, <1>6, <2>2, QuitKeeps
  <2> HIDE DEF y
  <2>4. Inv(Begin(y, StartedOwner(k), Newest(y) + 1)) BY <1>2, <1>3, <2>3, BeginKeeps
  <2> QED BY <1>3, <2>1, <2>3, <2>4
<1> QED BY <1>5, <1>6

LEMMA ConnectNothingStep ==
  ASSUME Inv(discord), ConnectNothing
  PROVE  Inv(discord')
<1> DEFINE s == AdvanceActive(Dropped)
           r == RetireSession(s, NoSession)
<1>1. PICK kept \in {NoSession, s.session} :
        discord' = [r EXCEPT !.handle = kept, !.doing = "unlink"]
  BY DEF ConnectNothing
<1>2. /\ MostInv(s) /\ ~s.closed /\ s.doing = "none" /\ s.handle = 0
      /\ s.session \in {0, Newest(s)}
  BY CommandKeeps DEF ConnectNothing
<1> HIDE DEF s
<1>3. NoSession = 0 /\ NoSession \in Nat BY DEF NoSession
<1>4. /\ MostInv(r) /\ r.session = 0 /\ Newest(r) = Newest(s) /\ r.closed = s.closed
      /\ r.handle = s.handle
  BY <1>2, <1>3, RetireForm
<1> HIDE DEF r
<1>5. /\ r \in State /\ Places(r) /\ Stops(r) /\ Newest(r) \in Nat
      /\ kept \in {0, Newest(r)} /\ kept \in Nat
  BY <1>2, <1>3, <1>4, OwnerTypes DEF MostInv
<1> DEFINE t == [r EXCEPT !.handle = kept, !.doing = "unlink"]
<1>6. /\ t \in State /\ t.handle = kept /\ t.doing = "unlink"
      /\ t.owner = r.owner /\ t.gate = r.gate /\ SameTalk(r, t)
      /\ t.session = r.session /\ t.closed = r.closed /\ t.closing = r.closing
      /\ t.retiring = r.retiring /\ t.active = r.active /\ t.loads = r.loads
  BY <1>5 DEF State, SameTalk
<1> HIDE DEF t
<1>7. Places(t) BY <1>4, <1>5, <1>6 DEF Places, Newest, SameTalk
<1>8. MostInv(t) BY <1>2, <1>4, <1>6, <1>7, AdapterKeeps
<1>9. Leaving(t) BY <1>6 DEF Leaving
<1> QED BY <1>1, <1>8, <1>9 DEF Inv, t

LEMMA DisconnectStep ==
  ASSUME Inv(discord), Disconnect
  PROVE  Inv(discord')
<1> DEFINE s == AdvanceActive(Dropped)
           k == s.session
           m == Message("disconnect", s.active)
           t == [s EXCEPT !.doing = "unlink"]
<1>1. \/ k = NoSession /\ discord' = t
      \/ /\ k # NoSession
         /\ discord' = [Post(s, k, m) EXCEPT !.owner[k].retired = TRUE, !.session = NoSession]
  BY DEF Disconnect
<1>2. /\ MostInv(s) /\ ~s.closed /\ s.doing = "none" /\ s.handle = 0
      /\ s.session \in {0, Newest(s)}
  BY CommandKeeps DEF Disconnect
<1>3. s \in State /\ Places(s) /\ Stops(s) BY <1>2 DEF MostInv
<1> HIDE DEF s
<1>4. CASE k = NoSession
  <2>1. /\ t \in State /\ t.doing = "unlink" /\ t.handle = s.handle
        /\ t.owner = s.owner /\ t.gate = s.gate /\ SameTalk(s, t)
        /\ t.session = s.session /\ t.closed = s.closed /\ t.closing = s.closing
        /\ t.retiring = s.retiring /\ t.active = s.active /\ t.loads = s.loads
    BY <1>3 DEF State, SameTalk
  <2> HIDE DEF t
  <2>2. Places(t) BY <1>3, <1>4, <2>1 DEF Places, Newest, SameTalk, NoSession
  <2>3. MostInv(t) BY <1>2, <2>1, <2>2, AdapterKeeps
  <2>4. Leaving(t) BY <2>1 DEF Leaving
  <2> QED BY <1>1, <1>4, <2>3, <2>4 DEF Inv
<1>5. CASE k # NoSession
  <2>1. k # 0 /\ k \in DOMAIN s.owner BY <1>2, <1>3, <1>5, OwnerTypes DEF NoSession
  <2>2. m \in Messages /\ m.type \in {"retire", "disconnect"}
    <3>1. s.active \in Nat /\ s.loads \in Nat /\ Len(s.answers) \in Nat
      BY <1>3 DEF State
    <3>2. s.active \in Nat /\ s.active <= MaxCall
      BY <1>3, <3>1, DiscordBounds DEF Places
    <3> QED BY <3>2 DEF Message, Messages, Enders, Results
  <2> DEFINE u == Quit(s, k, m)
  <2>3. [Post(s, k, m) EXCEPT !.owner[k].retired = TRUE, !.session = NoSession] = u
    BY <1>3, <2>1, QuitForm, Zenon
  <2>4. discord' = u BY <1>1, <1>5, <2>3
  <2> HIDE DEF u
  <2>5. /\ MostInv(u) /\ m \in Elems(u.owner[Newest(u)].queue) /\ u.active = s.active
    BY <1>2, <2>1, <2>2, QuitKeeps DEF u
  <2>6. Leaving(u) BY <2>5 DEF Leaving, Leaves
  <2> QED BY <2>4, <2>5, <2>6 DEF Inv
<1> QED BY <1>4, <1>5

LEMMA UnlinkStep ==
  ASSUME Inv(discord), UnlinkIfIdle
  PROVE  Inv(discord')
<1> DEFINE s == discord
           z == NoSession
           free == [s EXCEPT !.doing = "none", !.handle = z]
           yes == TRUE
           no == FALSE
           back == IF s.handle = NoSession THEN s.retiring ELSE s.handle
           a == [free EXCEPT !.leftBusy = yes, !.retiring = back]
           b == [free EXCEPT !.gate.open = no, !.account = "unlinked"]
<1>1. /\ MostInv(s) /\ Leaving(s) /\ s \in State /\ Places(s) /\ Stops(s) /\ Ordered(s)
      /\ Flights(s) /\ Waiting(s) /\ Answered(s) /\ RowIs(s)
  BY DEF Inv, MostInv
<1>2. s.doing = "unlink" BY DEF UnlinkIfIdle
<1>3. ~s.closed /\ s.session = 0 /\ s.closing = 0 /\ s.stops = 0
  BY <1>1, <1>2 DEF Stops, Places
<1>4. z = 0 /\ z \in Nat /\ yes \in BOOLEAN /\ no \in BOOLEAN /\ yes /\ ~no BY DEF NoSession
<1>5. \/ discord' = a
      \/ discord' = b /\ ~Pending(s)
      \/ discord' = free /\ ~s.gate.open
  <2>1. free.retiring = s.retiring BY <1>1, <1>4 DEF State
  <2> DEFINE x == IF s.handle = NoSession THEN free.retiring ELSE s.handle
  <2>2. x = back BY <2>1
  <2>3. \/ discord' = [free EXCEPT !.leftBusy = TRUE, !.retiring = x]
        \/ discord' = b /\ ~Pending(s)
        \/ discord' = free /\ ~s.gate.open
    BY DEF UnlinkIfIdle
  <2> HIDE DEF x, free, b, s, back
  <2> QED BY <2>2, <2>3
<1>6. back \in {0, Newest(s)} /\ back \in Nat BY <1>1, <1>4, OwnerTypes DEF Places
<1> HIDE DEF z, yes, no, back
<1>7. /\ free \in State /\ free.doing = "none" /\ free.handle = 0
      /\ free.owner = s.owner /\ free.gate = s.gate /\ SameTalk(s, free)
      /\ free.session = s.session /\ free.closed = s.closed /\ free.closing = s.closing
      /\ free.retiring = s.retiring /\ free.active = s.active /\ free.loads = s.loads
      /\ free.leftBusy = s.leftBusy
  BY <1>1, <1>4 DEF State, SameTalk
<1> HIDE DEF free
<1>8. CASE discord' = a
  <2>1. /\ a \in State /\ a.doing = "none" /\ a.handle = 0 /\ a.leftBusy
        /\ a.owner = s.owner /\ a.gate = s.gate /\ SameTalk(s, a)
        /\ a.session = s.session /\ a.closed = s.closed /\ a.closing = s.closing
        /\ a.retiring = back /\ a.active = s.active /\ a.loads = s.loads
    BY <1>4, <1>6, <1>7 DEF State, SameTalk
  <2> HIDE DEF a
  <2>2. Places(a) BY <1>1, <1>3, <1>6, <2>1 DEF Places, Newest, SameTalk
  <2>3. MostInv(a) BY <1>1, <1>3, <2>1, <2>2, AdapterKeeps
  <2>4. Leaving(a) BY <2>1 DEF Leaving, NeedsEnd
  <2> QED BY <1>8, <2>3, <2>4 DEF Inv
<1>9. CASE discord' = free /\ ~s.gate.open
  <2>1. Places(free) BY <1>1, <1>3, <1>7 DEF Places, Newest, SameTalk
  <2>2. MostInv(free) BY <1>1, <1>3, <1>7, <2>1, AdapterKeeps
  <2>3. Leaving(free)
    <3>1. s.lateLinked \/ s.account = "unlinked" BY <1>1, <1>3, <1>9 DEF RowIs
    <3> QED BY <3>1, <1>7 DEF Leaving, NeedsEnd, SameTalk
  <2> QED BY <1>9, <2>2, <2>3 DEF Inv
<1>10. CASE discord' = b /\ ~Pending(s)
  <2>1. /\ b \in State /\ b.doing = "none" /\ b.handle = 0
        /\ b.owner = s.owner /\ b.gate.open = no /\ b.gate.epoch = s.gate.epoch
        /\ b.gate.inflight = s.gate.inflight
        /\ b.account = "unlinked" /\ b.stops = s.stops /\ b.answers = s.answers
        /\ b.lateLinked = s.lateLinked
        /\ b.session = s.session /\ b.closed = s.closed /\ b.closing = s.closing
        /\ b.retiring = s.retiring /\ b.active = s.active /\ b.loads = s.loads
    BY <1>4, <1>7 DEF State, SameTalk
  <2> HIDE DEF b
  <2>2. Newest(b) = Newest(s) BY <2>1 DEF Newest
  <2>3. Places(b) BY <1>1, <1>3, <2>1, <2>2 DEF Places
  <2>4. Stops(b)
    <3>1. \A j \in DOMAIN b.owner : ~Closer(b.owner[j]) BY <1>1, <1>3, <2>1 DEF Stops
    <3> QED BY <1>3, <2>1, <3>1 DEF Stops
  <2>5. Ordered(b) BY <1>1, <2>1 DEF Ordered
  <2>6. s.gate.inflight = {} BY <1>10 DEF Pending
  <2>7. Flights(b) BY <1>1, <2>1, <2>6 DEF Flights
  <2>8. Waiting(b) BY <1>1, <2>1 DEF Waiting, Unanswered
  <2>9. Answered(b) BY <1>1, <2>1 DEF Answered
  <2>10. RowIs(b)
    <3>1. ASSUME NEW j \in DOMAIN b.owner PROVE RowOf(b, j, b.owner[j])
      <4>1. RowOf(s, j, s.owner[j]) /\ j # 0 BY <1>1, <2>1, OwnerTypes DEF RowIs
      <4> QED BY <4>1, <1>3, <1>4, <2>1 DEF RowOf
    <3> QED BY <1>1, <1>4, <2>1, <2>2, <3>1 DEF RowIs
  <2>11. MostInv(b) BY <2>1, <2>3, <2>4, <2>5, <2>7, <2>8, <2>9, <2>10 DEF MostInv
  <2>12. Leaving(b) BY <2>1 DEF Leaving, NeedsEnd
  <2> QED BY <1>10, <2>11, <2>12 DEF Inv
<1> QED BY <1>5, <1>8, <1>9, <1>10

(* Another load, with a bound.                                              *)
LEMMA LoadKeeps ==
  ASSUME Inv(discord), Free, CallsLeft
  PROVE  LET s == [Dropped EXCEPT !.loads = @ + 1] IN Inv(s) /\ s.loads \in Nat
<1> DEFINE d == Dropped
           n == d.loads + 1
           s == [d EXCEPT !.loads = n]
<1>1. ~discord.closed /\ discord.doing = "none" BY DEF Free
<1>2. /\ Inv(d) /\ SameTalk(discord, d) /\ d.active = discord.active
      /\ d.closed = discord.closed /\ d.loads = discord.loads
  BY <1>1, DroppedKeeps
<1>3. discord.active + discord.loads + Len(discord.answers) < MaxCall BY DEF CallsLeft
<1> HIDE DEF d
<1>4. MostInv(d) /\ Leaving(d) /\ d \in State /\ Places(d) /\ Stops(d)
  BY <1>2 DEF Inv, MostInv
<1>5. d.loads \in Nat /\ n \in Nat /\ d.active \in Nat /\ d.answers \in Seq(Nat)
  BY <1>4 DEF State
<1>6. d.active + n + Len(d.answers) <= MaxCall
  <2> DEFINE a == d.active
             b == d.loads
             c == Len(d.answers)
  <2>1. a \in Nat /\ b \in Nat /\ c \in Nat /\ MaxCall \in Nat BY <1>5, DiscordBounds
  <2>2. a + b + c < MaxCall /\ n = b + 1 BY <1>2, <1>3 DEF SameTalk
  <2> HIDE DEF a, b, c, n
  <2>3. a + n + c <= MaxCall BY <2>1, <2>2
  <2> QED BY <2>3 DEF a, c
<1> HIDE DEF n
<1>7. /\ s \in State /\ s.loads = n /\ s.owner = d.owner /\ s.gate = d.gate
      /\ SameTalk(d, s)
      /\ s.session = d.session /\ s.closed = d.closed /\ s.closing = d.closing
      /\ s.retiring = d.retiring /\ s.handle = d.handle /\ s.active = d.active
      /\ s.doing = d.doing /\ s.leftBusy = d.leftBusy
  BY <1>4, <1>5 DEF State, SameTalk
<1> HIDE DEF s
<1>8. Places(s) BY <1>4, <1>6, <1>7 DEF Places, Newest, SameTalk
<1>9. MostInv(s) BY <1>1, <1>2, <1>4, <1>7, <1>8, AdapterKeeps
<1>10. Leaving(s) BY <1>4, <1>7 DEF Leaving, NeedsEnd, Newest, SameTalk
<1> QED BY <1>5, <1>7, <1>9, <1>10 DEF Inv, s, n, d

LEMMA LoadStep ==
  ASSUME Inv(discord), LoadChats \/ OpenChat
  PROVE  Inv(discord')
<1> DEFINE s == [Dropped EXCEPT !.loads = @ + 1]
<1>1. /\ Free /\ CallsLeft
      /\ \/ discord' = s
         \/ s.session # NoSession /\ discord' = Post(s, s.session, Message("reload", 0))
         \/ s.session # NoSession /\ discord' = Post(s, s.session, Message("open", s.loads))
  BY DEF LoadChats, OpenChat
<1>2. Inv(s) /\ s.loads \in Nat BY <1>1, LoadKeeps
<1> HIDE DEF s
<1>3. /\ Message("reload", 0) \in Messages /\ Message("reload", 0).type = "reload"
      /\ Message("open", s.loads) \in Messages /\ Message("open", s.loads).type = "open"
  BY <1>2 DEF Message, Messages, Results
<1>4. NoSession = 0 BY DEF NoSession
<1>5. MostInv(s) BY <1>2 DEF Inv
<1> QED BY <1>1, <1>2, <1>3, <1>4, <1>5, PostKeeps

(* A send that the adapter itself answers, or that goes to the session.     *)
AddAnswer(s, n) == [s EXCEPT !.answers = Append(@, n)]

LEMMA AddParts ==
  ASSUME NEW s, s \in State, NEW n \in Nat
  PROVE  LET t == AddAnswer(s, n)
             r == Len(s.answers) + 1
         IN  /\ t \in State /\ t.owner = s.owner /\ t.gate = s.gate /\ SameAdapter(s, t)
             /\ t.account = s.account /\ t.stops = s.stops /\ t.lateLinked = s.lateLinked
             /\ Len(t.answers) = r /\ t.answers[r] = n /\ r \in Nat
             /\ DOMAIN t.answers = DOMAIN s.answers \cup {r} /\ r \notin DOMAIN s.answers
             /\ \A j \in DOMAIN s.answers : t.answers[j] = s.answers[j]
<1> DEFINE a == s.answers
           b == Append(a, n)
           r == Len(a) + 1
           t == AddAnswer(s, n)
<1>1. a \in Seq(Nat) BY DEF State
<1>2. t = [s EXCEPT !.answers = b] BY DEF AddAnswer
<1>3. /\ b \in Seq(Nat) /\ Len(b) = r /\ b[r] = n /\ r \in Nat
      /\ DOMAIN b = DOMAIN a \cup {r} /\ r \notin DOMAIN a
      /\ \A j \in DOMAIN a : b[j] = a[j]
  <2> HIDE DEF a
  <2>1. DOMAIN a = 1 .. Len(a) /\ Len(a) \in Nat BY <1>1
  <2>2. b \in Seq(Nat) /\ Len(b) = Len(a) + 1 /\ b[Len(a) + 1] = n
        /\ \A j \in 1 .. Len(a) : b[j] = a[j]
    BY <1>1
  <2>3. DOMAIN b = 1 .. Len(a) + 1 BY <2>2
  <2>4. 1 .. Len(a) + 1 = (1 .. Len(a)) \cup {Len(a) + 1} BY <2>1
  <2>5. Len(a) + 1 \notin 1 .. Len(a) BY <2>1
  <2> QED BY <2>1, <2>2, <2>3, <2>4, <2>5
<1> HIDE DEF b, t, r, a
<1>4. t \in State /\ t.answers = b BY <1>2, <1>3 DEF State
<1>5. /\ t.owner = s.owner /\ t.gate = s.gate /\ SameAdapter(s, t)
      /\ t.account = s.account /\ t.stops = s.stops /\ t.lateLinked = s.lateLinked
  BY <1>2 DEF State, SameAdapter
<1>6. /\ Len(t.answers) = r /\ t.answers[r] = n /\ r \in Nat
      /\ DOMAIN t.answers = DOMAIN a \cup {r} /\ r \notin DOMAIN a
      /\ \A j \in DOMAIN a : t.answers[j] = a[j]
  BY <1>3, <1>4
<1> QED BY <1>4, <1>5, <1>6 DEF t, r, a

LEMMA SendCallStep ==
  ASSUME Inv(discord), Send
  PROVE  Inv(discord')
<1> DEFINE s == discord
           r == Len(s.answers) + 1
           k == s.session
           m == Message("send", r)
           o == s.owner[k]
<1>1. /\ MostInv(s) /\ Leaving(s) /\ s \in State /\ Places(s) /\ Stops(s) /\ Ordered(s)
      /\ Flights(s) /\ Waiting(s) /\ Answered(s) /\ RowIs(s)
  BY DEF Inv, MostInv
<1>2. ~s.closed /\ s.active + s.loads + Len(s.answers) < MaxCall
  BY DEF Send, Free, CallsLeft
<1>3. ASSUME NEW c, Len(c) = r PROVE s.active + s.loads + Len(c) <= MaxCall
  <2> DEFINE a == s.active + s.loads
             b == Len(s.answers)
  <2>1. a \in Nat /\ b \in Nat /\ MaxCall \in Nat BY <1>1, DiscordBounds DEF State
  <2>2. a + b < MaxCall /\ r = b + 1 BY <1>2
  <2> HIDE DEF a, b, r
  <2>3. a + r <= MaxCall BY <2>1, <2>2
  <2> QED BY <2>3, <1>3 DEF a
<1>4. \/ discord' = AddAnswer(s, 1)
      \/ k # 0 /\ discord' = Post(AddAnswer(s, 0), k, m)
  BY DEF Send, AddAnswer, NoSession
<1>5. CASE discord' = AddAnswer(s, 1)
  <2> DEFINE t == AddAnswer(s, 1)
  <2>1. /\ t \in State /\ t.owner = s.owner /\ t.gate = s.gate /\ SameAdapter(s, t)
        /\ t.account = s.account /\ t.stops = s.stops /\ t.lateLinked = s.lateLinked
        /\ Len(t.answers) = r /\ t.answers[r] = 1 /\ r \in Nat
        /\ DOMAIN t.answers = DOMAIN s.answers \cup {r} /\ r \notin DOMAIN s.answers
        /\ \A j \in DOMAIN s.answers : t.answers[j] = s.answers[j]
    <3>1. 1 \in Nat OBVIOUS
    <3> QED BY <1>1, <3>1, AddParts
  <2> HIDE DEF t, r
  <2>2. Newest(t) = Newest(s) BY <2>1 DEF Newest
  <2>3. Places(t)
    <3>1. s.active + s.loads + Len(t.answers) <= MaxCall BY <1>3, <2>1
    <3> QED BY <1>1, <2>1, <2>2, <3>1 DEF Places, SameAdapter
  <2>4. Stops(t) BY <1>1, <2>1, <2>2 DEF Stops, StopsAt, SameAdapter
  <2>5. Ordered(t) BY <1>1, <2>1 DEF Ordered, SameAdapter
  <2>6. Flights(t) BY <1>1, <2>1 DEF Flights
  <2>7. Waiting(t) BY <1>1, <2>1 DEF Waiting, Unanswered
  <2>8. Answered(t) BY <1>1, <2>1 DEF Answered
  <2>9. RowIs(t) BY <1>1, <2>1, <2>2 DEF RowIs, RowOf, SameAdapter
  <2>10. MostInv(t) BY <2>1, <2>3, <2>4, <2>5, <2>6, <2>7, <2>8, <2>9 DEF MostInv
  <2>11. Leaving(t) BY <1>1, <2>1, <2>2 DEF Leaving, NeedsEnd, SameAdapter
  <2> QED BY <1>5, <2>10, <2>11 DEF Inv, t
<1>6. CASE k # 0 /\ discord' = Post(AddAnswer(s, 0), k, m)
  <2> DEFINE u == AddAnswer(s, 0)
             t == Post(u, k, m)
  <2>1. /\ u \in State /\ u.owner = s.owner /\ u.gate = s.gate /\ SameAdapter(s, u)
        /\ u.account = s.account /\ u.stops = s.stops /\ u.lateLinked = s.lateLinked
        /\ Len(u.answers) = r /\ u.answers[r] = 0 /\ r \in Nat
        /\ DOMAIN u.answers = DOMAIN s.answers \cup {r} /\ r \notin DOMAIN s.answers
        /\ \A j \in DOMAIN s.answers : u.answers[j] = s.answers[j]
    <3>1. 0 \in Nat OBVIOUS
    <3> QED BY <1>1, <3>1, AddParts
  <2> HIDE DEF u
  <2>2. m \in Messages /\ m.type = "send" /\ m.arg = r /\ m.result = "none"
    BY <2>1 DEF Message, Messages, Results
  <2>3. k \in DOMAIN s.owner /\ k = Newest(s)
    <3>1. k \in {0, Newest(s)} BY <1>1 DEF Places
    <3> QED BY <1>1, <1>6, <3>1, OwnerTypes
  <2> HIDE DEF m, r
  <2>4. PICK p : Only(u, t, k, p) /\ Posts(u.owner[k], p, m)
    BY <2>1, <2>2, <2>3, PostParts
  <2>5. /\ t \in State /\ p \in OwnerState /\ t.gate = s.gate /\ SameAdapter(s, t)
        /\ t.account = s.account /\ t.stops = s.stops /\ t.lateLinked = s.lateLinked
        /\ t.answers = u.answers /\ Becomes(s, t, k, p) /\ Posts(o, p, m)
    BY <2>1, <2>4 DEF Only, SameGate, SameAdapter, SameTalk, Becomes, Newest
  <2> HIDE DEF t
  <2>6. /\ OrderOf(o, TRUE, FALSE) /\ RowOf(s, k, o) /\ Once(o) /\ Unanswered(s, o)
        /\ o.sends \subseteq DOMAIN s.answers /\ ~Closer(o)
    <3>1. OrderOf(o, k = s.session, s.closed) BY <1>1, <2>3 DEF Ordered
    <3>2. /\ RowOf(s, k, o) /\ Once(o) /\ Unanswered(s, o)
          /\ o.sends \subseteq DOMAIN s.answers /\ ~Closer(o)
      BY <1>1, <1>2, <2>3 DEF RowIs, Waiting, Flights, Stops
    <3> QED BY <3>1, <3>2, <1>2 DEF OrderOf
  <2>7. \A n \in Elems(o.queue) : n.type \notin Enders BY <2>6 DEF OrderOf
  <2>8. m \notin Letters(o) BY <2>1, <2>2, <2>6 DEF Unanswered
  <2>9. m \notin Elems(o.queue) BY <2>2, <2>8 DEF Letters
  <2> HIDE DEF o
  <2>10. /\ p.sends = o.sends /\ p.ready = o.ready /\ p.retired = o.retired
         /\ p.revoked = o.revoked /\ p.leaving = o.leaving /\ p.end = o.end
         /\ p.shutdown = o.shutdown /\ p.closed = o.closed /\ p.stopped = o.stopped
         /\ p.done = o.done /\ p.hold = o.hold /\ p.tasks = o.tasks /\ p.at = o.at
         /\ Elems(p.queue) = Elems(o.queue) \cup {m}
         /\ EndersLast(o.queue) => EndersLast(p.queue)
         /\ SendsOnce(o.queue) => SendsOnce(p.queue)
    BY <2>5, <2>7, <2>9 DEF Posts, SameFlags
  <2>11. Letters(p) = Letters(o) \cup {m} BY <2>2, <2>10 DEF Letters
  <2>12. /\ DOMAIN t.owner = DOMAIN s.owner /\ Newest(t) = Newest(s) /\ t.owner[k] = p
         /\ \A j \in DOMAIN s.owner : j # k => t.owner[j] = s.owner[j]
    BY <2>5 DEF Becomes
  <2>14. Places(t)
    <3>1. s.active + s.loads + Len(t.answers) <= MaxCall BY <1>3, <2>1, <2>5
    <3> QED BY <1>1, <2>5, <2>12, <3>1 DEF Places, SameAdapter
  <2>15. ~Closer(p) BY <2>2, <2>6, <2>10 DEF Closer
  <2>16. Stops(t)
    <3>1. \A j \in DOMAIN t.owner : ~Closer(t.owner[j]) BY <1>1, <1>2, <2>12, <2>15 DEF Stops
    <3> QED BY <1>1, <1>2, <2>5, <3>1 DEF Stops, SameAdapter
  <2>17. Ordered(t)
    <3> SUFFICES ASSUME NEW j \in DOMAIN t.owner
                 PROVE  OrderOf(t.owner[j], j = t.session, t.closed)
      BY DEF Ordered
    <3>0. t.session = k /\ t.closed = s.closed BY <2>5 DEF SameAdapter
    <3>1. CASE j = k
      <4>1. Ended(p) <=> Ended(o) BY <2>10 DEF Ended
      <4>2. m.type \notin Enders BY <2>2 DEF Enders
      <4>3. OrderOf(p, TRUE, FALSE) BY <2>6, <2>10, <4>1, <4>2 DEF OrderOf
      <4> QED BY <3>0, <3>1, <4>3, <1>2, <2>12 DEF OrderOf
    <3>2. CASE j # k
      <4>1. OrderOf(s.owner[j], j = s.session, s.closed) BY <1>1, <2>12 DEF Ordered
      <4> QED BY <3>0, <3>2, <4>1, <2>12
    <3> QED BY <3>1, <3>2
  <2>18. Flights(t)
    <3>1. ASSUME NEW i \in t.gate.inflight
          PROVE  /\ i \in DOMAIN t.answers /\ t.answers[i] = 0
                 /\ \E j \in DOMAIN t.owner : Carries(t.owner[j], i)
      <4>1. i \in DOMAIN s.answers /\ s.answers[i] = 0 BY <1>1, <2>5, <3>1 DEF Flights
      <4>2. PICK j \in DOMAIN s.owner : Carries(s.owner[j], i) BY <1>1, <2>5, <3>1 DEF Flights
      <4>3. Carries(o, i) => Carries(p, i) BY <2>10 DEF Carries
      <4>4. Carries(t.owner[j], i) BY <4>2, <4>3, <2>12 DEF o
      <4> QED BY <4>1, <4>2, <4>4, <2>1, <2>5, <2>12
    <3>2. \A j \in DOMAIN t.owner : t.owner[j].sends \subseteq DOMAIN t.answers
      BY <1>1, <2>1, <2>5, <2>6, <2>10, <2>12 DEF Flights
    <3> QED BY <1>1, <2>5, <3>1, <3>2 DEF Flights
  <2>19. r \notin s.gate.inflight BY <1>1, <2>1 DEF Flights
  <2>20. Waiting(t)
    <3>1. \A j \in DOMAIN s.owner : Unanswered(s, s.owner[j]) /\ Once(s.owner[j])
      BY <1>1 DEF Waiting
    <3>2. ASSUME NEW j \in DOMAIN t.owner PROVE Unanswered(t, t.owner[j])
      <4>1. \A n \in Letters(s.owner[j]) :
              /\ n.arg \in DOMAIN t.answers /\ t.answers[n.arg] = 0
              /\ n.arg \notin t.gate.inflight /\ n.result = "none"
        BY <2>1, <2>5, <2>12, <3>1, <3>2 DEF Unanswered
      <4>2. /\ m.arg \in DOMAIN t.answers /\ t.answers[m.arg] = 0
            /\ m.arg \notin t.gate.inflight /\ m.result = "none"
        BY <2>1, <2>2, <2>5, <2>19
      <4>3. Letters(t.owner[j]) \subseteq Letters(s.owner[j]) \cup {m}
        BY <2>11, <2>12, <3>2 DEF o
      <4> QED BY <4>1, <4>2, <4>3 DEF Unanswered
    <3>3. Once(p) BY <2>2, <2>6, <2>8, <2>10 DEF Once, Letters
    <3>4. \A j \in DOMAIN s.owner : m \notin Letters(s.owner[j])
      BY <2>1, <2>2, <3>1 DEF Unanswered
    <3>5. \A j, l \in DOMAIN t.owner : j # l =>
            \A n \in Letters(t.owner[j]) : n \notin Letters(t.owner[l])
      <4> SUFFICES ASSUME NEW j \in DOMAIN t.owner, NEW l \in DOMAIN t.owner, j # l,
                          NEW n \in Letters(t.owner[j]), n \in Letters(t.owner[l])
                   PROVE  FALSE
        OBVIOUS
      <4>1. \A i \in DOMAIN s.owner :
              Letters(t.owner[i]) = Letters(s.owner[i]) \cup (IF i = k THEN {m} ELSE {})
        BY <2>11, <2>12 DEF o
      <4>2. n \in Letters(s.owner[j]) => n \notin Letters(s.owner[l])
        BY <1>1, <2>12 DEF Waiting
      <4> QED BY <4>1, <4>2, <3>4, <2>12
    <3> QED BY <2>12, <3>1, <3>2, <3>3, <3>5 DEF Waiting
  <2>21. Answered(t)
    <3> SUFFICES ASSUME NEW i \in DOMAIN t.answers
                 PROVE  \/ t.answers[i] = 1
                        \/ /\ t.answers[i] = 0
                           /\ \/ i \in t.gate.inflight
                              \/ \E j \in DOMAIN t.owner :
                                   Message("send", i) \in Letters(t.owner[j])
      BY DEF Answered
    <3>1. CASE i = r BY <3>1, <2>1, <2>3, <2>5, <2>11, <2>12 DEF m
    <3>2. CASE i # r
      <4>1. i \in DOMAIN s.answers /\ t.answers[i] = s.answers[i] BY <3>2, <2>1, <2>5
      <4>2. \A j \in DOMAIN s.owner : Letters(s.owner[j]) \subseteq Letters(t.owner[j])
        BY <2>11, <2>12 DEF o
      <4> QED BY <4>1, <4>2, <1>1, <2>5, <2>12 DEF Answered
    <3> QED BY <3>1, <3>2
  <2>22. RowIs(t)
    <3>1. ASSUME NEW j \in DOMAIN t.owner PROVE RowOf(t, j, t.owner[j])
      <4>1. RowOf(s, j, s.owner[j]) BY <1>1, <2>12, <3>1 DEF RowIs
      <4>2. CASE j = k BY <4>2, <2>5, <2>6, <2>10, <2>12 DEF RowOf, SameAdapter
      <4>3. CASE j # k BY <4>1, <4>3, <2>5, <2>12 DEF RowOf, SameAdapter
      <4> QED BY <4>2, <4>3
    <3> QED BY <1>1, <2>5, <2>12, <3>1 DEF RowIs, SameAdapter
  <2>23. MostInv(t) BY <2>5, <2>14, <2>16, <2>17, <2>18, <2>20, <2>21, <2>22 DEF MostInv
  <2>24. Leaving(t) BY <1>6, <2>5 DEF Leaving, NeedsEnd, SameAdapter
  <2> QED BY <1>6, <2>23, <2>24 DEF Inv, t, u
<1> QED BY <1>4, <1>5, <1>6

(* The end of the app: an owner closes, or the adapter does.                *)
LEMMA ShutdownCallStep ==
  ASSUME Inv(discord), ShutdownAdapter
  PROVE  Inv(discord')
<1> DEFINE s == discord
           k == IF s.session # NoSession THEN s.session ELSE s.retiring
           m == Message("shutdown", 0)
           z == NoSession
           yes == TRUE
           no == FALSE
<1>1. /\ MostInv(s) /\ s \in State /\ Places(s) /\ Stops(s) /\ Ordered(s)
      /\ Flights(s) /\ Waiting(s) /\ Answered(s) /\ RowIs(s)
  BY DEF Inv, MostInv
<1>2. ~s.closed /\ s.doing = "none" BY DEF ShutdownAdapter, Free
<1>3. /\ s.stops = 0 /\ s.closing = 0 /\ s.handle = 0 /\ s.gate.epoch = Newest(s)
      /\ \A j \in DOMAIN s.owner : ~Closer(s.owner[j])
  BY <1>1, <1>2 DEF Stops, Places
<1>4. z = 0 /\ z \in Nat /\ yes \in BOOLEAN /\ no \in BOOLEAN /\ yes /\ ~no BY DEF NoSession
<1>5. 0 \notin DOMAIN s.owner /\ Newest(s) \in Nat BY <1>1, OwnerTypes
<1>6. CASE k = z
  <2>1. s.session = 0 /\ s.retiring = 0 BY <1>4, <1>6
  <2> DEFINE u == Answer(s, s.gate.inflight)
             none == {}
             e == s.gate.epoch + 1
             n == s.stops + 1
             g == [u.gate EXCEPT !.inflight = none, !.open = no, !.epoch = e]
             t == [u EXCEPT !.gate = g, !.stops = n, !.closed = yes]
  <2>2. /\ u \in State /\ u.owner = s.owner /\ u.gate = s.gate
        /\ SameAdapter(s, u) /\ u.account = s.account /\ u.stops = s.stops
        /\ u.lateLinked = s.lateLinked
        /\ DOMAIN u.answers = DOMAIN s.answers
        /\ \A r \in DOMAIN s.answers :
             u.answers[r] = (IF r \in s.gate.inflight THEN s.answers[r] + 1 ELSE s.answers[r])
    BY <1>1, AnswerParts
  <2>3. discord' = [u EXCEPT !.gate.inflight = none, !.gate.open = no,
                      !.gate.epoch = e, !.stops = n, !.closed = yes]
    <3> HIDE DEF u
    <3>1. discord' = [u EXCEPT !.gate.inflight = none, !.gate.open = no,
                        !.gate.epoch = u.gate.epoch + 1, !.stops = u.stops + 1, !.closed = yes]
      BY <1>6 DEF ShutdownAdapter, u
    <3> QED BY <2>2, <3>1
  <2>4. e \in Nat /\ n \in Nat /\ none \in SUBSET Nat /\ none = {} /\ n = 1 /\ e = Newest(s) + 1
    BY <1>3, <1>5
  <2> HIDE DEF u, none, e, n
  <2>5. discord' = t
    <3> HIDE DEF yes, no
    <3>2. [u.gate EXCEPT !.inflight = none, !.open = no, !.epoch = e] = g OBVIOUS
    <3> HIDE DEF g
    <3>3. [u EXCEPT !.gate.inflight = none, !.gate.open = no, !.gate.epoch = e,
                    !.stops = n, !.closed = yes] = t
      BY <2>2, <3>2 DEF State
    <3> QED BY <2>3, <3>3
  <2> HIDE DEF yes, no
  <2>6. /\ g \in [open : BOOLEAN, epoch : Nat, inflight : SUBSET Nat]
        /\ g.open = no /\ g.epoch = e /\ g.inflight = none
    <3>1. u.gate \in [open : BOOLEAN, epoch : Nat, inflight : SUBSET Nat] BY <2>2 DEF State
    <3> QED BY <1>4, <2>4, <3>1
  <2> HIDE DEF g
  <2>7. /\ t \in State /\ t.gate = g /\ t.stops = n /\ t.closed = yes /\ t.owner = u.owner
        /\ t.active = u.active /\ t.session = u.session /\ t.retiring = u.retiring
        /\ t.handle = u.handle /\ t.doing = u.doing /\ t.closing = u.closing
        /\ t.account = u.account /\ t.answers = u.answers /\ t.loads = u.loads
        /\ t.lateLinked = u.lateLinked
    BY <1>4, <2>2, <2>4, <2>6 DEF State
  <2> HIDE DEF t
  <2>8. /\ t.owner = s.owner /\ Newest(t) = Newest(s) /\ t.session = 0 /\ t.retiring = 0
        /\ t.handle = 0 /\ t.doing = "none" /\ t.closing = 0 /\ t.account = s.account
        /\ t.active = s.active /\ t.loads = s.loads /\ t.lateLinked = s.lateLinked
        /\ t.closed /\ t.stops = 1 /\ ~t.gate.open /\ t.gate.inflight = {}
        /\ t.gate.epoch = Newest(s) + 1
    BY <1>2, <1>3, <1>4, <2>1, <2>2, <2>4, <2>6, <2>7 DEF SameAdapter, Newest
  <2>9. Len(t.answers) = Len(s.answers)
    <3>1. s.answers \in Seq(Nat) /\ t.answers \in Seq(Nat) BY <1>1, <2>7 DEF State
    <3>2. DOMAIN t.answers = DOMAIN s.answers BY <2>2, <2>7
    <3> QED BY <3>1, <3>2, LenProperties
  <2>10. Places(t) BY <1>1, <2>8, <2>9 DEF Places
  <2>11. Stops(t)
    <3>1. \A j \in DOMAIN t.owner : ~Closer(t.owner[j]) BY <1>3, <2>8
    <3>2. t.gate.epoch # Newest(t) BY <1>5, <2>8
    <3> QED BY <2>8, <3>1, <3>2 DEF Stops
  <2>12. Ordered(t)
    <3> SUFFICES ASSUME NEW j \in DOMAIN t.owner
                 PROVE  OrderOf(t.owner[j], j = t.session, t.closed)
      BY DEF Ordered
    <3>1. OrderOf(s.owner[j], j = s.session, s.closed) BY <1>1, <2>8 DEF Ordered
    <3> QED BY <3>1, <2>1, <2>8 DEF OrderOf
  <2>13. Flights(t) BY <1>1, <2>2, <2>7, <2>8 DEF Flights
  <2>14. Waiting(t)
    <3>1. \A j \in DOMAIN s.owner : Unanswered(t, s.owner[j])
      BY <1>1, <2>2, <2>7, <2>8 DEF Waiting, Unanswered
    <3> QED BY <1>1, <2>8, <3>1 DEF Waiting
  <2>15. Answered(t)
    <3> SUFFICES ASSUME NEW r \in DOMAIN s.answers
                 PROVE  \/ t.answers[r] = 1
                        \/ /\ t.answers[r] = 0
                           /\ \/ r \in t.gate.inflight
                              \/ \E j \in DOMAIN t.owner :
                                   Message("send", r) \in Letters(t.owner[j])
      BY <2>2, <2>7 DEF Answered
    <3>1. CASE r \in s.gate.inflight
      <4>1. s.answers[r] = 0 BY <1>1, <3>1 DEF Flights
      <4> QED BY <3>1, <4>1, <2>2, <2>7
    <3>2. CASE r \notin s.gate.inflight BY <1>1, <3>2, <2>2, <2>7, <2>8 DEF Answered
    <3> QED BY <3>1, <3>2
  <2>16. RowIs(t)
    <3>1. ASSUME NEW j \in DOMAIN t.owner PROVE RowOf(t, j, t.owner[j])
      <4>1. RowOf(s, j, s.owner[j]) /\ j # 0 BY <1>1, <1>5, <2>8, <3>1 DEF RowIs
      <4> QED BY <4>1, <2>8 DEF RowOf
    <3> QED BY <1>1, <2>8, <3>1 DEF RowIs
  <2>17. MostInv(t) BY <2>7, <2>10, <2>11, <2>12, <2>13, <2>14, <2>15, <2>16 DEF MostInv
  <2>18. Leaving(t) BY <2>8 DEF Leaving, NeedsEnd
  <2> QED BY <2>5, <2>17, <2>18 DEF Inv
<1>7. CASE k # z
  <2> DEFINE u == Post(s, k, m)
             t == [u EXCEPT !.session = z, !.retiring = z, !.closing = k, !.closed = yes]
             o == s.owner[k]
  <2>1. discord' = t BY <1>7 DEF ShutdownAdapter
  <2>2. k = Newest(s) /\ k \in DOMAIN s.owner /\ k # 0 /\ k \in Nat
    <3>1. k \in {0, Newest(s)} BY <1>1 DEF Places
    <3> QED BY <1>1, <1>4, <1>7, <3>1, OwnerTypes
  <2> HIDE DEF k
  <2>3. m \in Messages /\ m.type = "shutdown" BY DEF Message, Messages, Enders, Results
  <2> HIDE DEF m
  <2>4. PICK p : Only(s, u, k, p) /\ Posts(o, p, m) BY <1>1, <2>2, <2>3, PostParts
  <2> HIDE DEF u, z, yes
  <2>5. u \in State BY <2>4 DEF Only
  <2>6. /\ t \in State /\ t.gate = u.gate /\ t.stops = u.stops /\ t.closed = yes
        /\ t.owner = u.owner /\ t.session = z /\ t.retiring = z /\ t.closing = k
        /\ t.active = u.active /\ t.handle = u.handle /\ t.doing = u.doing
        /\ t.account = u.account /\ t.answers = u.answers /\ t.loads = u.loads
        /\ t.lateLinked = u.lateLinked
    BY <1>4, <2>2, <2>5 DEF State
  <2> HIDE DEF t
  <2>7. /\ t.gate = s.gate /\ t.stops = 0 /\ t.closed /\ t.session = 0 /\ t.retiring = 0
        /\ t.closing = k /\ t.active = s.active /\ t.handle = 0 /\ t.doing = "none"
        /\ t.account = s.account /\ t.answers = s.answers /\ t.loads = s.loads
        /\ t.lateLinked = s.lateLinked /\ Becomes(s, t, k, p) /\ p \in OwnerState
    BY <1>2, <1>3, <1>4, <2>4, <2>6
       DEF Only, SameGate, SameAdapter, SameTalk, Becomes, Newest
  <2>8. /\ OrderOf(o, k = s.session, FALSE) /\ RowOf(s, k, o) /\ Once(o)
        /\ o.sends \subseteq DOMAIN s.answers /\ ~Closer(o)
    BY <1>1, <1>2, <1>3, <2>2 DEF Ordered, OrderOf, RowIs, Waiting, Flights
  <2> HIDE DEF o
  <2>9. /\ p.sends = o.sends /\ p.ready = o.ready /\ p.retired = o.retired
        /\ p.revoked = o.revoked /\ p.leaving = o.leaving /\ p.end = o.end
        /\ p.shutdown = o.shutdown /\ p.closed = o.closed /\ p.stopped = o.stopped
        /\ p.done = o.done /\ p.hold = o.hold /\ p.tasks = o.tasks /\ p.at = o.at
        /\ Elems(p.queue) = Elems(o.queue) \cup {m} /\ p.queue # <<>>
        /\ EndersLast(o.queue) => EndersLast(p.queue)
        /\ SendsOnce(o.queue) => SendsOnce(p.queue)
    BY <2>3, <2>4 DEF Posts, SameFlags
  <2>10. Letters(p) = Letters(o) BY <2>3, <2>9 DEF Letters
  <2>11. /\ DOMAIN t.owner = DOMAIN s.owner /\ Newest(t) = Newest(s) /\ t.owner[k] = p
         /\ \A j \in DOMAIN s.owner : j # k => t.owner[j] = s.owner[j]
    BY <2>7 DEF Becomes
  <2>12. Flights(t) /\ Waiting(t) /\ Answered(t)
    <3>1. \A r \in DOMAIN s.answers : Kept(s, t, o, p, r)
      BY <2>7, <2>9, <2>10 DEF Kept, Carries
    <3>2. Once(p) BY <2>3, <2>8, <2>9 DEF Once
    <3>3. SendsMove(s, t, o, p)
      BY <1>1, <2>7, <2>8, <2>9, <2>10, <3>1, <3>2 DEF SendsMove, Flights
    <3> QED BY <1>1, <2>2, <2>7, <3>3, SendsMoveKeeps DEF o
  <2>13. Places(t) BY <1>1, <1>3, <2>2, <2>7, <2>11 DEF Places
  <2>14. Stops(t)
    <3>1. \A j \in DOMAIN t.owner : Closer(t.owner[j]) => j = k BY <1>3, <2>11
    <3>2. StopsAt(t, p) BY <2>2, <2>3, <2>7, <2>8, <2>9 DEF StopsAt, Closer
    <3> QED BY <1>3, <2>2, <2>7, <2>11, <3>1, <3>2 DEF Stops
  <2>15. Ordered(t)
    <3> SUFFICES ASSUME NEW j \in DOMAIN t.owner
                 PROVE  OrderOf(t.owner[j], j = t.session, t.closed)
      BY DEF Ordered
    <3>0. j # t.session BY <1>5, <2>7, <2>11
    <3>1. CASE j = k
      <4>1. Ended(p) <=> Ended(o) BY <2>9 DEF Ended
      <4> QED BY <3>0, <3>1, <4>1, <2>3, <2>7, <2>8, <2>9, <2>11 DEF OrderOf
    <3>2. CASE j # k
      <4>1. OrderOf(s.owner[j], j = s.session, s.closed) BY <1>1, <2>11 DEF Ordered
      <4> QED BY <3>0, <3>2, <4>1, <2>7, <2>11 DEF OrderOf
    <3> QED BY <3>1, <3>2
  <2>16. RowIs(t)
    <3>1. ASSUME NEW j \in DOMAIN t.owner PROVE RowOf(t, j, t.owner[j])
      <4>1. j # 0 BY <1>5, <2>11
      <4>2. CASE j = k BY <4>1, <4>2, <2>7, <2>8, <2>9, <2>11 DEF RowOf
      <4>3. CASE j # k
        <5>1. RowOf(s, j, s.owner[j]) BY <1>1, <2>11 DEF RowIs
        <5> QED BY <4>1, <4>3, <5>1, <2>7, <2>11 DEF RowOf
      <4> QED BY <4>2, <4>3
    <3> QED BY <1>1, <2>7, <2>11, <3>1 DEF RowIs
  <2>17. MostInv(t) BY <2>6, <2>12, <2>13, <2>14, <2>15, <2>16 DEF MostInv
  <2>18. Leaving(t) BY <2>7 DEF Leaving, NeedsEnd
  <2> QED BY <2>1, <2>17, <2>18 DEF Inv
<1> QED BY <1>6, <1>7

LEMMA ClosingStep ==
  ASSUME Inv(discord), ClosingEnds
  PROVE  Inv(discord')
<1> DEFINE s == discord
           k == s.closing
           o == s.owner[k]
           u == EmitStoppedOnce(s, k)
           p == u.owner[k]
           z == NoSession
           t == [u EXCEPT !.closing = z]
<1>1. /\ MostInv(s) /\ s \in State /\ Places(s) /\ Stops(s) /\ Ordered(s)
      /\ Flights(s) /\ Waiting(s) /\ RowIs(s)
  BY DEF Inv, MostInv
<1>2. k # 0 /\ (o.done \/ Gone(k)) /\ discord' = t BY DEF ClosingEnds, NoSession
<1>3. k = Newest(s) /\ k \in DOMAIN s.owner
  <2>1. k \in {0, Newest(s)} BY <1>1 DEF Places
  <2> QED BY <1>1, <1>2, <2>1, OwnerTypes
<1>4. s.closed /\ s.gate.epoch = k BY <1>1, <1>2, <1>3 DEF Stops
<1>5. StopsAt(s, o) /\ s.session = 0 BY <1>1, <1>3, <1>4 DEF Stops
<1>6. Emits(s, u, k) BY <1>1, <1>3, EmitParts
<1> HIDE DEF u
<1>7. /\ u \in State /\ u.gate = s.gate /\ SameAdapter(s, u) /\ Becomes(s, u, k, p)
      /\ u.account = s.account /\ u.answers = s.answers /\ u.lateLinked = s.lateLinked
      /\ u.stops = s.stops + (IF o.stopped THEN 0 ELSE 1)
      /\ p \in OwnerState /\ p.stopped = TRUE
      /\ p.queue = o.queue /\ p.tasks = o.tasks /\ p.at = o.at /\ p.sends = o.sends
      /\ p.retired = o.retired /\ p.revoked = o.revoked /\ p.closed = o.closed
      /\ p.shutdown = o.shutdown /\ p.done = o.done /\ p.hold = o.hold
      /\ p.leaving = o.leaving /\ p.end = o.end /\ p.ready = o.ready
  BY <1>6 DEF Emits
<1>8. /\ OrderOf(o, k = s.session, s.closed) /\ RowOf(s, k, o) /\ Once(o)
      /\ o.sends \subseteq DOMAIN s.answers
  BY <1>1, <1>3 DEF Ordered, RowIs, Waiting, Flights
<1>9. o.done \/ Lost(o)
  <2> SUFFICES ASSUME Gone(k), ~o.done PROVE Lost(o) BY <1>2
  <2>1. o.tasks = {} /\ ~o.hold /\ o.queue = <<>> /\ o.at = NoMessage
    BY DEF Gone, HasSender
  <2>2. Elems(<<>>) = {} BY DEF Elems
  <2>3. o.shutdown BY <1>5, <2>1, <2>2 DEF StopsAt
  <2> QED BY <2>1, <2>3 DEF Lost
<1> HIDE DEF p
<1>10. Moves(s, u, k, p) BY <1>7 DEF Moves
<1>11. SendsMove(s, u, o, p)
  <2>1. Letters(p) = Letters(o) /\ Once(p) BY <1>7, <1>8 DEF Letters, Once
  <2>2. \A r \in DOMAIN s.answers : Kept(s, u, o, p, r) BY <1>7, <2>1 DEF Kept, Carries
  <2> QED BY <1>1, <1>7, <1>8, <2>1, <2>2 DEF SendsMove, Flights
<1>12. OrderOf(p, k = s.session, s.closed)
  <2>1. Ended(p) <=> Ended(o) BY <1>7 DEF Ended
  <2> QED BY <1>7, <1>8, <2>1 DEF OrderOf
<1>13. Closer(o) BY <1>5 DEF StopsAt, Closer
<1>14. StopsAt(u, p)
  <2>1. u.stops = 1 BY <1>5, <1>7 DEF StopsAt
  <2>2. Lost(o) => Lost(p) BY <1>7 DEF Lost
  <2> QED BY <1>5, <1>7, <1>9, <2>1, <2>2 DEF StopsAt
<1>15. RowOf(u, k, p) BY <1>7, <1>8 DEF RowOf, SameAdapter, Becomes
<1>16. /\ u.account = "unlinked" => s.account = "unlinked" \/ ~u.gate.open
       /\ ~u.gate.open /\ ~u.lateLinked /\ ~s.closed => u.account = "unlinked"
       /\ u.account = "linked" /\ ~u.lateLinked =>
            (s.account = "linked" /\ ~s.lateLinked) \/ s.session \in {0, k}
  BY <1>4, <1>5, <1>7
<1>17. MostInv(u)
  BY <1>1, <1>3, <1>4, <1>10, <1>11, <1>12, <1>13, <1>14, <1>15, <1>16, MovesKeep
<1>18. /\ Places(u) /\ Stops(u) /\ Ordered(u) /\ Flights(u) /\ Waiting(u) /\ Answered(u)
       /\ RowIs(u) /\ u.closed /\ Newest(u) = k /\ u.owner[k] = p /\ u.gate.epoch = k
  BY <1>3, <1>4, <1>7, <1>17 DEF MostInv, SameAdapter, Becomes
<1>19. z = 0 /\ z \in Nat BY DEF NoSession
<1> HIDE DEF z, k
<1>20. /\ t \in State /\ t.closing = 0 /\ t.gate = u.gate /\ t.owner = u.owner
       /\ t.active = u.active /\ t.session = u.session /\ t.retiring = u.retiring
       /\ t.handle = u.handle /\ t.doing = u.doing /\ t.closed = u.closed
       /\ t.account = u.account /\ t.stops = u.stops /\ t.answers = u.answers
       /\ t.loads = u.loads /\ t.lateLinked = u.lateLinked
  BY <1>7, <1>19 DEF State
<1> HIDE DEF t
<1>21. Newest(t) = Newest(u) BY <1>20 DEF Newest
<1>22. Places(t) BY <1>18, <1>20, <1>21 DEF Places
<1>23. Stops(t)
  <2>1. StopsAt(t, p) BY <1>7, <1>14, <1>20 DEF StopsAt
  <2> QED BY <1>2, <1>18, <1>20, <1>21, <2>1 DEF Stops
<1>24. Ordered(t) BY <1>18, <1>20 DEF Ordered
<1>25. Flights(t) BY <1>18, <1>20 DEF Flights
<1>26. Waiting(t) BY <1>18, <1>20 DEF Waiting, Unanswered
<1>27. Answered(t) BY <1>18, <1>20 DEF Answered
<1>28. RowIs(t) BY <1>18, <1>20, <1>21 DEF RowIs, RowOf
<1>29. MostInv(t) BY <1>20, <1>22, <1>23, <1>24, <1>25, <1>26, <1>27, <1>28 DEF MostInv
<1>30. Leaving(t) BY <1>18, <1>20 DEF Leaving, NeedsEnd
<1> QED BY <1>2, <1>29, <1>30 DEF Inv

-----------------------------------------------------------------------------
LEMMA InitKeeps == DiscordInit => Inv(discord)
<1> SUFFICES ASSUME DiscordInit PROVE Inv(discord) OBVIOUS
<1> DEFINE s == discord
<1>1. /\ s.gate = [open |-> TRUE, epoch |-> 0, inflight |-> {}]
      /\ s.active = 0 /\ s.owner = <<>> /\ s.session = 0 /\ s.retiring = 0 /\ s.handle = 0
      /\ s.doing = "none" /\ s.closing = 0 /\ ~s.closed /\ s.account = "unlinked"
      /\ s.stops = 0 /\ s.answers = <<>> /\ s.loads = 0 /\ ~s.leftBusy /\ ~s.lateLinked
  BY DEF DiscordInit, NoSession
<1>2. /\ s.gate.open /\ s.gate.epoch = 0 /\ s.gate.inflight = {}
      /\ Newest(s) = 0 /\ Len(s.answers) = 0 /\ DOMAIN s.owner = {} /\ DOMAIN s.answers = {}
  BY <1>1 DEF Newest
<1>3. s \in State
  <2>1. <<>> \in Seq(OwnerState) /\ <<>> \in Seq(Nat) OBVIOUS
  <2> DEFINE none == <<>>
             empty == {}
  <2>2. none \in Seq(OwnerState) /\ none \in Seq(Nat) /\ empty \in SUBSET Nat BY <2>1
  <2>3. s = [gate |-> [open |-> TRUE, epoch |-> 0, inflight |-> empty],
             active |-> 0, owner |-> none,
             session |-> 0, retiring |-> 0, handle |-> 0,
             doing |-> "none", closing |-> 0, closed |-> FALSE,
             account |-> "unlinked", stops |-> 0, answers |-> none, loads |-> 0,
             leftBusy |-> FALSE, lateLinked |-> FALSE]
    BY DEF DiscordInit, NoSession
  <2> HIDE DEF none, empty
  <2> QED BY <2>2, <2>3 DEF State
<1> HIDE DEF s
<1>4. Places(s)
  <2>1. MaxCall \in Nat BY DiscordBounds
  <2> QED BY <1>1, <1>2, <2>1 DEF Places
<1>5. Stops(s) BY <1>1, <1>2 DEF Stops
<1>6. Ordered(s) /\ Flights(s) /\ Waiting(s) /\ Answered(s)
  BY <1>2 DEF Ordered, Flights, Waiting, Answered
<1>7. RowIs(s) /\ Leaving(s) BY <1>1, <1>2 DEF RowIs, Leaving, NeedsEnd
<1> QED BY <1>3, <1>4, <1>5, <1>6, <1>7 DEF Inv, MostInv, s

LEMMA NextKeeps == Inv(discord) /\ [DiscordNext]_discord => Inv(discord')
<1> SUFFICES ASSUME Inv(discord), [DiscordNext]_discord PROVE Inv(discord') OBVIOUS
<1>1. CASE ConnectBot BY <1>1, ConnectBotStep
<1>2. CASE ConnectNothing BY <1>2, ConnectNothingStep
<1>3. CASE Disconnect BY <1>3, DisconnectStep
<1>4. CASE UnlinkIfIdle BY <1>4, UnlinkStep
<1>5. CASE LoadChats \/ OpenChat BY <1>5, LoadStep
<1>6. CASE Send BY <1>6, SendCallStep
<1>7. CASE ShutdownAdapter BY <1>7, ShutdownCallStep
<1>8. CASE ClosingEnds BY <1>8, ClosingStep
<1>9. ASSUME NEW k \in Owners, SessionStep(k) PROVE Inv(discord')
  <2>1. k \in DOMAIN discord.owner BY DEF Owners
  <2>2. CASE SkipMessage(k) BY <2>1, <2>2, SkipStep
  <2>3. CASE LoadList(k) BY <2>1, <2>3, LoadListStep
  <2>4. CASE LoadHistory(k) BY <2>1, <2>4, LoadHistoryStep
  <2>5. CASE RefuseSend(k) BY <2>1, <2>5, RefuseStep
  <2>6. CASE CheckSend(k) BY <2>1, <2>6, CheckStep
  <2>7. CASE Register(k) BY <2>1, <2>7, RegisterStep
  <2>8. CASE ListDone(k) BY <2>1, <2>8, ListStep
  <2>9. CASE PublishChannels(k) BY <2>1, <2>9, PublishStep
  <2>10. CASE HistoryDone(k) BY <2>1, <2>10, HistoryStep
  <2>11. CASE SendDone(k) BY <2>1, <2>11, SendStep
  <2>12. CASE SendWaitOver(k) BY <2>1, <2>12, WaitStep
  <2>13. CASE SealDone(k) BY <2>1, <2>13, SealStep
  <2>14. CASE Retire(k) BY <2>1, <2>14, RetireStep
  <2>15. CASE AccountSettle(k) BY <2>1, <2>15, SettleStep
  <2>16. CASE LeaveAccount(k) BY <2>1, <2>16, LeaveStep
  <2>17. CASE DisconnectWaitOver(k) BY <2>1, <2>17, LeftStep
  <2>18. CASE BeginShutdown(k) BY <2>1, <2>18, ShutdownStep
  <2>19. CASE ShutdownLimit(k) BY <2>1, <2>19, LimitStep
  <2>20. CASE TaskEnds(k) BY <2>1, <2>20, TaskStep
  <2> QED
    BY <1>9, <2>2, <2>3, <2>4, <2>5, <2>6, <2>7, <2>8, <2>9, <2>10, <2>11, <2>12, <2>13,
       <2>14, <2>15, <2>16, <2>17, <2>18, <2>19, <2>20
    DEF SessionStep
<1>10. CASE UNCHANGED discord BY <1>10
<1> QED
  BY <1>1, <1>2, <1>3, <1>4, <1>5, <1>6, <1>7, <1>8, <1>9, <1>10 DEF DiscordNext

-----------------------------------------------------------------------------
LEMMA SendsKept == Inv(discord) => SendsAreAnswered
<1> SUFFICES ASSUME Inv(discord), NEW r \in Requests
             PROVE  \/ discord.answers[r] = 1
                    \/ discord.answers[r] = 0 /\ WillBeAnswered(r)
  BY DEF SendsAreAnswered
<1> DEFINE s == discord
<1>1. s \in State /\ Ordered(s) /\ Flights(s) /\ Answered(s) BY DEF Inv, MostInv
<1>2. r \in DOMAIN s.answers BY DEF Requests
<1>3. CASE r \in s.gate.inflight
  <2>1. s.answers[r] = 0 /\ s.gate.open BY <1>1, <1>3 DEF Flights
  <2>2. PICK k \in DOMAIN s.owner : Carries(s.owner[k], r) BY <1>1, <1>3 DEF Flights
  <2>3. r \in s.owner[k].sends /\ ~s.owner[k].closed BY <2>2 DEF Carries
  <2>4. PICK m \in s.owner[k].tasks \cup Elems(s.owner[k].queue) :
          m.type = "post" /\ m.arg = r
    BY <2>2 DEF Carries
  <2>5. Queued(s, k) = Elems(s.owner[k].queue) BY DEF Queued, Elems
  <2>6. r \in Unfinished(s, k) BY <2>4, <2>5 DEF Unfinished
  <2>7. WillBeAnswered(r) BY <1>3, <2>1, <2>2, <2>3, <2>6 DEF WillBeAnswered, Owners
  <2> QED BY <2>1, <2>7
<1>4. ASSUME NEW k \in DOMAIN s.owner, Message("send", r) \in Letters(s.owner[k])
      PROVE  WillBeAnswered(r)
  <2> DEFINE o == s.owner[k]
             m == Message("send", r)
  <2>1. m \in Elems(o.queue) \cup {o.at} /\ m.type = "send" BY <1>4 DEF Letters
  <2>2. OrderOf(o, k = s.session, s.closed) BY <1>1 DEF Ordered
  <2> HIDE DEF m
  <2>3. ~o.closed BY <2>1, <2>2 DEF OrderOf, Ended
  <2>4. Queued(s, k) = Elems(o.queue) BY DEF Queued, Elems
  <2> QED BY <2>1, <2>3, <2>4 DEF WillBeAnswered, Owners, m
<1> QED BY <1>1, <1>2, <1>3, <1>4 DEF Answered

LEMMA EndKept == Inv(discord) => EndIsAfterSends /\ StoppedComes
<1> SUFFICES ASSUME Inv(discord) PROVE EndIsAfterSends /\ StoppedComes OBVIOUS
<1> DEFINE s == discord
           k == Newest(s)
           o == s.owner[k]
<1>1. s \in State /\ Flights(s) /\ Stops(s) /\ RowIs(s) BY DEF Inv, MostInv
<1>2. (k # 0 => k \in DOMAIN s.owner) /\ s.stops \in Nat /\ (k = 0 => DOMAIN s.owner = {})
  <2>1. DOMAIN s.owner = 1 .. k /\ (k # 0 => k \in DOMAIN s.owner) /\ s.stops \in Nat
    BY <1>1, OwnerTypes DEF Newest, State
  <2>2. 1 .. 0 = {} OBVIOUS
  <2> QED BY <2>1, <2>2
<1>3. ~s.gate.open => ~Pending(s) BY <1>1 DEF Flights, Pending
<1>4. s.account = "unlinked" => ~Pending(s)
  <2>1. k = 0 => ~Pending(s) BY <1>1, <1>2 DEF Flights, Pending
  <2> QED BY <1>1, <1>3, <2>1 DEF RowIs
<1>5. Lost(o) /\ k # 0 /\ s.closed => CloseLost
  <2> SUFFICES ASSUME Lost(o), k # 0, s.closed PROVE CloseLost OBVIOUS
  <2>1. s.session = 0 /\ s.retiring = 0 /\ s.handle = 0 BY <1>1 DEF Stops
  <2>2. Gone(k) BY <2>1 DEF Gone, HasSender, Lost
  <2> QED BY <1>2, <2>2 DEF CloseLost, Owners, Lost
<1>6. /\ ~s.closed => s.stops = 0
      /\ s.closed /\ s.gate.epoch # k => s.stops = 1 /\ ~s.gate.open
      /\ s.closed /\ s.gate.epoch = k =>
           /\ k # 0 /\ s.stops = (IF o.stopped THEN 1 ELSE 0)
           /\ s.closing = 0 => o.stopped
           /\ o.stopped => ~s.gate.open \/ Lost(o)
  BY <1>1 DEF Stops, StopsAt
<1> HIDE DEF k, o
<1>7. s.stops > 0 => ~Pending(s) \/ CloseLost BY <1>3, <1>5, <1>6
<1>8. s.stops <= 1 /\ (s.closed /\ s.closing = 0 => s.stops = 1) BY <1>6
<1> QED BY <1>4, <1>7, <1>8 DEF EndIsAfterSends, StoppedComes, AtRest, NoSession

LEMMA RowKept == Inv(discord) => LiveRowIsNotUnlinked /\ RowIsOfSession
<1> SUFFICES ASSUME Inv(discord) PROVE LiveRowIsNotUnlinked /\ RowIsOfSession OBVIOUS
<1> DEFINE s == discord
           k == s.session
<1>1. s \in State /\ Places(s) /\ RowIs(s) /\ Leaving(s) BY DEF Inv, MostInv
<1>2. k # 0 => k = Newest(s) /\ k \in DOMAIN s.owner
  <2>1. k \in {0, Newest(s)} BY <1>1 DEF Places
  <2> QED BY <1>1, <2>1, OwnerTypes
<1>3. k # 0 => RowOf(s, k, s.owner[k]) BY <1>1, <1>2 DEF RowIs
<1>4. LiveRowIsNotUnlinked
  <2> SUFFICES ASSUME k # 0, ~s.owner[k].revoked PROVE s.account # "unlinked"
    BY DEF LiveRowIsNotUnlinked, NoSession
  <2>1. s.gate.open BY <1>3 DEF RowOf
  <2> QED BY <1>1, <1>2, <2>1 DEF RowIs
<1>5. ASSUME k = 0, AtRest, ~s.closed, ~s.leftBusy, ~s.lateLinked
      PROVE  s.account = "unlinked"
  <2> SUFFICES ASSUME s.account # "unlinked" PROVE FALSE OBVIOUS
  <2>1. Leaves(s.owner[Newest(s)], s.active) \/ s.doing = "unlink"
    BY <1>1, <1>5 DEF Leaving, NeedsEnd
  <2>2. Newest(s) \in DOMAIN s.owner BY <1>1, OwnerTypes DEF RowIs
  <2>3. s.doing = "none" /\ s.owner[Newest(s)].queue = <<>> /\ s.owner[Newest(s)].tasks = {}
    BY <1>5, <2>2 DEF AtRest, Owners
  <2>4. Elems(<<>>) = {} BY DEF Elems
  <2> QED BY <2>1, <2>3, <2>4 DEF Leaves
<1>6. k # 0 /\ ~s.lateLinked /\ s.account = "linked" => s.owner[k].ready BY <1>3 DEF RowOf
<1> QED BY <1>4, <1>5, <1>6 DEF RowIsOfSession, NoSession

(* The app hears the truth of its Discord account, whatever the adapter and *)
(* the owners do in which order: every send has one answer, Unlinked and    *)
(* Stopped come after the answers, nothing unlinks the account under a live *)
(* session, and an account without one ends as unlinked (AccountSends,      *)
(* Owner and DiscordAdapter).                                               *)
THEOREM DiscordIsToldAlways == DiscordSpec => []DiscordIsTold
<1>1. Inv(discord) => DiscordIsTold
  BY SendsKept, EndKept, RowKept DEF DiscordIsTold, DiscordSendsEnd, DiscordRowTrue
<1>2. DiscordInit => Inv(discord) BY InitKeeps
<1>3. Inv(discord) /\ [DiscordNext]_discord => Inv(discord)' BY NextKeeps
<1> QED BY <1>1, <1>2, <1>3, PTL DEF DiscordSpec

LEMMA TypesKept == Inv(discord) => DiscordTypeOK
<1> SUFFICES ASSUME Inv(discord) PROVE DiscordTypeOK OBVIOUS
<1> DEFINE s == discord
           n == Newest(s)
           a == Len(s.answers)
<1>1. s \in State /\ Places(s) /\ Flights(s) BY DEF Inv, MostInv
<1>2. /\ n \in Nat /\ a \in Nat /\ s.active \in Nat /\ s.loads \in Nat
      /\ DOMAIN s.owner = 1 .. n /\ DOMAIN s.answers = 1 .. a
      /\ {s.session, s.retiring, s.handle, s.closing} \subseteq DOMAIN s.owner \cup {0}
  BY <1>1, OwnerTypes DEF State, Newest, Places
<1>3. n <= MaxCall /\ a <= MaxCall /\ MaxCall \in Nat
  BY <1>1, <1>2, DiscordBounds DEF Places
<1>4. s.gate.epoch \in 0 .. MaxCall + 1
  <2>1. s.gate.epoch = n \/ s.gate.epoch = n + 1 BY <1>1 DEF Places
  <2> HIDE DEF n
  <2> QED BY <2>1, <1>2, <1>3
<1>5. DOMAIN s.owner \subseteq 1 .. MaxCall /\ DOMAIN s.answers \subseteq 1 .. MaxCall
  <2> HIDE DEF n, a
  <2> QED BY <1>2, <1>3
<1>6. s.gate.inflight \subseteq DOMAIN s.answers BY <1>1 DEF Flights
<1>7. s.doing \in {"none", "unlink"} /\ s.account \in {"unlinked", "linking", "linked"}
  BY <1>1 DEF State
<1>8. ASSUME NEW k \in DOMAIN s.owner
      PROVE  /\ s.owner[k].sends \subseteq DOMAIN s.answers
             /\ s.owner[k].unlink \in {"none", "wait", "seal"}
             /\ s.owner[k].end \in {"none", "unlinked", "stopped"}
             /\ s.owner[k].leaving \in 0 .. MaxCall
  <2>1. s.owner[k] \in OwnerState BY <1>1, OwnerTypes
  <2>2. s.owner[k].sends \subseteq DOMAIN s.answers BY <1>1 DEF Flights
  <2> QED BY <2>1, <2>2 DEF OwnerState
<1> QED BY <1>2, <1>4, <1>5, <1>6, <1>7, <1>8 DEF DiscordTypeOK, Owners, Requests, NoSession

(* The parts of the session keep their kinds and their bounds: the handles  *)
(* of the adapter are of owners that exist, the gate and the owners name    *)
(* only requests that were made, and there are no more owners than commands *)
(* (open, connect and send_message of the adapter, and its Owner).          *)
THEOREM DiscordTypes == DiscordSpec => []DiscordTypeOK
<1>1. DiscordInit => Inv(discord) BY InitKeeps
<1>2. Inv(discord) /\ [DiscordNext]_discord => Inv(discord)' BY NextKeeps
<1> QED BY <1>1, <1>2, TypesKept, PTL DEF DiscordSpec
====
