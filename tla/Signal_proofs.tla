----------------------------- MODULE Signal_proofs -----------------------------
(***************************************************************************)
(* Proofs about the Signal adapter.                                        *)
(*                                                                         *)
(* The link of one account, for any number of commands and any length of   *)
(* the queue, rests on one thing: a thread that lives is the one that the  *)
(* owner started last, and its generation is over as soon as a command     *)
(* waits for it.  What the row says, the session that the thread uses and  *)
(* the keys on disk all follow from that.                                  *)
(*                                                                         *)
(* The store files, for every number of accounts, links, directories and   *)
(* failures: the worker's calls that are left (`todo`) come in an order    *)
(* (Plan), and most of what holds of the files depends on a call that is   *)
(* near: only calls that do not matter to it are before it (Near).         *)
(* RelinkInv is the inductive invariant.                                   *)
(***************************************************************************)
EXTENDS SignalLink, SignalRelink, Filters_proofs, FiniteSetTheorems, FunctionTheorems,
        SequenceTheorems, TLAPS

-----------------------------------------------------------------------------
(* The link of one account.                                                 *)

(* Where a thread has the jobs of its link.                                 *)
Looping == {"receive", "stream", "confirm", "backoff", "wipe"}
Ending == {"end", "sayEnd"}

(* The records, with numbers that no bound of a run limits.                 *)
AttemptState ==
    [generation : Nat, active : BOOLEAN, resumeOnly : BOOLEAN, pairing : Nat,
     outbound : Nat]
MailType == {"begin", "resume", "retryKey", "cancel", "shutdown"}
OwnerState ==
    [at : {"idle", "join", "aborted"}, worker : Nat, msg : MailType, pairing : Nat]
AccountState ==
    [row : {"unlinked", "linking", "linked"}, line : {"fine", "retry", "error"},
     code : [pairing : Nat, of : Nat]]
Letter == [type : MailType, pairing : Nat]
Thread ==
    [token : Nat, at : Waits \cup Sends \cup {"blocked"},
     resume : BOOLEAN, pairing : Nat, shown : BOOLEAN, seen : BOOLEAN,
     relink : BOOLEAN, refused : 0 .. 2,
     why : {"none", "absent", "stopped", "denied", "wrongKey", "notMoved", "removed"}]

Shapes ==
    /\ attempt \in AttemptState /\ joiner \in OwnerState /\ account \in AccountState
    /\ mail \in Seq(Letter) /\ workers \subseteq Thread /\ orders \in Nat

(* A thread that lives is the one that the owner started last: a command    *)
(* waits for its end, and until then its generation is over.                *)
OneThread ==
    /\ \A v, w \in workers : Alive(v) /\ Alive(w) => v = w
    /\ \A w \in workers : Alive(w) => /\ w.token = joiner.worker /\ w.token # 0
                                      /\ joiner.at # "aborted"
    /\ joiner.worker <= attempt.generation
    /\ joiner.at = "idle" /\ joiner.worker # 0 => joiner.worker = attempt.generation
    /\ joiner.at # "idle" => joiner.worker < attempt.generation

(* What thread w knows and has, in session s with store file `file`.        *)
ThreadOf(w, s, file) ==
    /\ w.pairing = s.pairing
    /\ w.seen => w.refused >= 1
    /\ w.at = "wipe" => w.refused = 2
    /\ w.at \in Ending /\ w.why = "absent" => file # "linked"
    /\ s.generation = w.token /\ w.at \notin Ending => s.active
    /\ s.generation = w.token /\ w.at \in Looping => s.outbound = w.token

Threads == \A w \in workers : Alive(w) => ThreadOf(w, attempt, stored)

NoThread == \A w \in workers : ~Alive(w)

(* After a cancel nobody is left who could change the row.                  *)
QuietInv == quiet => NoThread /\ CancelledStaysUnlinked

(* A linked row without a thread has a command that waits, or a reason.     *)
Resumes(queue) == \A i \in DOMAIN queue : queue[i].type = "resume"
Excused ==
    account.row # "linked" \/ stored # "linked" \/ account.line # "fine" \/ ~NoThread
ServedInv == joiner.at = "idle" /\ Resumes(mail) => Excused

SignalInv ==
    /\ Shapes /\ OneThread /\ Threads /\ QuietInv /\ CodeOfItsBegin /\ ServedInv

-----------------------------------------------------------------------------
(* The queue of the owner.                                                  *)
LEMMA LetterAdded ==
  ASSUME mail \in Seq(Letter), NEW x \in Letter
  PROVE  /\ Append(mail, x) \in Seq(Letter)
         /\ Resumes(Append(mail, x)) => Resumes(mail) /\ x.type = "resume"
<1> DEFINE m == Append(mail, x)
<1>1. /\ m \in Seq(Letter) /\ Len(mail) \in Nat /\ DOMAIN m = 1 .. Len(mail) + 1
      /\ DOMAIN mail = 1 .. Len(mail)
      /\ m[Len(mail) + 1] = x /\ \A i \in 1 .. Len(mail) : m[i] = mail[i]
  OBVIOUS
<1> HIDE DEF m
<1>2. Len(mail) + 1 \in DOMAIN m /\ \A i \in DOMAIN mail : i \in DOMAIN m BY <1>1
<1> QED BY <1>1, <1>2 DEF Resumes, m

(* The command that the owner takes leaves the later ones.                  *)
LEMMA LetterTaken ==
  ASSUME mail \in Seq(Letter), mail # <<>>
  PROVE  /\ Tail(mail) \in Seq(Letter) /\ Head(mail) \in Letter
         /\ Resumes(Tail(mail)) /\ Head(mail).type = "resume" => Resumes(mail)
<1> DEFINE t == Tail(mail)
           h == Head(mail)
<1>1. /\ t \in Seq(Letter) /\ h \in Letter /\ Len(mail) \in Nat \ {0}
      /\ DOMAIN mail = 1 .. Len(mail) /\ DOMAIN t = 1 .. Len(mail) - 1
      /\ h = mail[1] /\ \A i \in 1 .. Len(mail) - 1 : t[i] = mail[i + 1]
  OBVIOUS
<1> HIDE DEF t, h
<1>2. ASSUME Resumes(t), h.type = "resume", NEW i \in DOMAIN mail
      PROVE  mail[i].type = "resume"
  <2>1. CASE i = 1 BY <1>1, <1>2, <2>1
  <2>2. CASE i # 1
    <3>1. i - 1 \in 1 .. Len(mail) - 1 /\ (i - 1) + 1 = i BY <1>1, <2>2
    <3>2. mail[i] = t[i - 1] /\ i - 1 \in DOMAIN t BY <1>1, <3>1
    <3> QED BY <1>2, <3>2 DEF Resumes
  <2> QED BY <2>1, <2>2
<1> QED BY <1>1, <1>2 DEF Resumes, t, h

-----------------------------------------------------------------------------
(* The steps of a thread.                                                   *)

(* Thread w becomes n and changes the session to s, the file and the row.   *)
LEMMA ThreadGoes ==
  ASSUME SignalInv, NEW w \in workers, Alive(w), WorkerKeeps,
         NEW n \in Thread, workers' = (workers \ {w}) \cup {n},
         Alive(n), n.token = w.token,
         attempt' \in AttemptState, attempt'.generation = attempt.generation,
         account' \in AccountState, account'.code.pairing = account'.code.of,
         ThreadOf(n, attempt', stored')
  PROVE  SignalInv'
<1>1. \A v \in workers : Alive(v) => v = w BY DEF SignalInv, OneThread
<1>2. \A v \in workers' : Alive(v) => v = n BY <1>1
<1>3. Shapes' BY DEF SignalInv, Shapes, WorkerKeeps
<1>4. OneThread' BY <1>2 DEF SignalInv, OneThread, WorkerKeeps, Alive
<1>5. Threads' BY <1>2 DEF Threads, Alive
<1>6. ~quiet /\ quiet' = quiet BY DEF SignalInv, QuietInv, NoThread, WorkerKeeps
<1>7. ~NoThread' BY DEF NoThread, Alive
<1> QED BY <1>3, <1>4, <1>5, <1>6, <1>7
        DEF SignalInv, QuietInv, CodeOfItsBegin, ServedInv, Excused

(* Thread w is over.                                                        *)
LEMMA ThreadLeaves ==
  ASSUME SignalInv, NEW w \in workers, WorkerKeeps, workers' = workers \ {w},
         UNCHANGED attempt,
         ~Alive(w) \/ Excused' \/ joiner.at # "idle",
         ~Alive(w) => UNCHANGED account,
         stored' = stored \/ stored' # "linked",
         account' \in AccountState, account'.code = account.code
  PROVE  SignalInv'
<1>1. Shapes' BY DEF SignalInv, Shapes, WorkerKeeps
<1>2. OneThread' BY DEF SignalInv, OneThread, WorkerKeeps, Alive
<1>3. Threads' BY DEF SignalInv, Threads, ThreadOf, Alive
<1>4. QuietInv'
  <2>1. CASE Alive(w) BY <2>1 DEF SignalInv, QuietInv, NoThread, WorkerKeeps
  <2>2. CASE ~Alive(w)
    BY <2>2 DEF SignalInv, QuietInv, NoThread, WorkerKeeps, Alive, CancelledStaysUnlinked
  <2> QED BY <2>1, <2>2
<1>5. ServedInv'
  <2>1. CASE Excused' \/ joiner.at # "idle" BY <2>1 DEF ServedInv, WorkerKeeps
  <2>2. CASE ~Alive(w)
    <3>1. NoThread' => NoThread BY <2>2 DEF NoThread, Alive
    <3> QED BY <2>2, <3>1 DEF SignalInv, ServedInv, Excused, WorkerKeeps
  <2> QED BY <2>1, <2>2
<1>6. CodeOfItsBegin' BY DEF SignalInv, CodeOfItsBegin
<1> QED BY <1>1, <1>2, <1>3, <1>4, <1>5, <1>6 DEF SignalInv

(* Thread w goes on to `at`; the session may end with it.                   *)
LEMMA ThreadMoves ==
  ASSUME SignalInv, NEW w \in workers, Alive(w), WorkerKeeps,
         NEW at \in Waits \cup Sends, at # "wipe", at \notin Ending,
         Goes(w, at),
         at \in Looping => w.at \in Looping \/ attempt'.outbound = w.token,
         attempt' = attempt \/ attempt' = [attempt EXCEPT !.outbound = w.token],
         w.at \notin Ending,
         account' \in AccountState, account'.code = account.code
  PROVE  SignalInv'
<1> DEFINE n == [w EXCEPT !.at = at]
<1>1. w \in Thread /\ attempt \in AttemptState /\ ThreadOf(w, attempt, stored)
      /\ account.code.pairing = account.code.of
  BY DEF SignalInv, Shapes, Threads, CodeOfItsBegin
<1>2. /\ n \in Thread /\ n.at = at /\ n.token = w.token /\ n.pairing = w.pairing
      /\ n.seen = w.seen /\ n.refused = w.refused /\ n.why = w.why
  BY <1>1 DEF Thread
<1>3. Alive(n) /\ workers' = (workers \ {w}) \cup {n}
  BY <1>2 DEF Alive, Waits, Sends, Goes, Becomes
<1>4. /\ attempt' \in AttemptState /\ attempt'.generation = attempt.generation
      /\ attempt'.active = attempt.active /\ attempt'.pairing = attempt.pairing
      /\ attempt'.outbound \in {attempt.outbound, w.token}
  BY <1>1 DEF AttemptState, Thread
<1> HIDE DEF n
<1>5. ThreadOf(n, attempt', stored') BY <1>1, <1>2, <1>4 DEF ThreadOf
<1> QED BY <1>1, <1>2, <1>3, <1>4, <1>5, ThreadGoes

(* Thread w comes to its end, for reason `why`.                             *)
LEMMA ThreadEnds ==
  ASSUME SignalInv, NEW w \in workers, Alive(w), WorkerKeeps,
         NEW why \in {"absent", "stopped", "denied", "wrongKey", "notMoved", "removed"},
         Ends(w, why) \/ LeavesLoop(w, why),
         why = "absent" => stored' # "linked",
         UNCHANGED account
  PROVE  SignalInv'
<1> DEFINE n == [w EXCEPT !.at = "end", !.why = why]
<1>1. w \in Thread /\ attempt \in AttemptState /\ account \in AccountState
      /\ ThreadOf(w, attempt, stored) /\ account.code.pairing = account.code.of
  BY DEF SignalInv, Shapes, Threads, CodeOfItsBegin
<1>2. /\ n \in Thread /\ n.at = "end" /\ n.token = w.token /\ n.pairing = w.pairing
      /\ n.seen = w.seen /\ n.refused = w.refused /\ n.why = why
  BY <1>1 DEF Thread, Sends
<1>3. Alive(n) /\ workers' = (workers \ {w}) \cup {n}
  BY <1>2 DEF Alive, Ends, LeavesLoop, Becomes
<1>4. /\ attempt' \in AttemptState /\ attempt'.generation = attempt.generation
      /\ attempt'.pairing = attempt.pairing
  <2>1. CASE attempt' = [attempt EXCEPT !.active = FALSE] BY <1>1, <2>1 DEF AttemptState
  <2>2. CASE attempt' = [attempt EXCEPT !.active = FALSE, !.outbound = 0]
    BY <1>1, <2>2 DEF AttemptState
  <2> QED BY <2>1, <2>2 DEF Ends, LeavesLoop, Closed
<1> HIDE DEF n
<1>5. ThreadOf(n, attempt', stored') BY <1>1, <1>2, <1>4 DEF ThreadOf, Ending, Looping
<1> QED BY <1>1, <1>2, <1>3, <1>4, <1>5, ThreadGoes

(* Thread w stays alive and learns of a refused or a working open.          *)
LEMMA ThreadLearns ==
  ASSUME SignalInv, NEW w \in workers, w.at \in Looping, WorkerKeeps,
         NEW n \in Thread, Becomes(w, n), n.at \in Looping,
         n.token = w.token, n.pairing = w.pairing,
         n.seen => n.refused >= 1, n.at = "wipe" => n.refused = 2,
         UNCHANGED attempt,
         account' \in AccountState, account'.code = account.code
  PROVE  SignalInv'
<1>1. attempt \in AttemptState /\ account.code.pairing = account.code.of
      /\ ThreadOf(w, attempt, stored) /\ Alive(w) /\ Alive(n)
  BY DEF SignalInv, Shapes, Threads, CodeOfItsBegin, Alive, Looping
<1>2. ThreadOf(n, attempt', stored') BY <1>1 DEF ThreadOf, Ending, Looping
<1> QED BY <1>1, <1>2, ThreadGoes DEF Becomes

(* A thread on its way to the receive loop.                                 *)
LEMMA StartSteps ==
  ASSUME SignalInv, NEW w \in workers, WorkerKeeps,
         Guard(w) \/ Protected(w) \/ Open(w) \/ CodeComes(w) \/ ShowCode(w)
         \/ Scanned(w) \/ LinkFails(w) \/ Loaded(w) \/ SayLinked(w) \/ Published(w)
  PROVE  SignalInv'
<1>0. /\ w \in Thread /\ attempt \in AttemptState /\ account \in AccountState
      /\ Alive(w) /\ w.at \notin Ending /\ w.at # "wipe"
  BY DEF SignalInv, Shapes, Guard, Protected, Open, CodeComes, ShowCode, Scanned, LinkFails,
     Loaded, SayLinked, Published, Alive, Ending
<1>1. ASSUME NEW why \in {"absent", "stopped", "denied", "wrongKey", "notMoved", "removed"},
             Ends(w, why), why = "absent" => stored' # "linked", UNCHANGED account
      PROVE  SignalInv'
  BY <1>0, <1>1, ThreadEnds
<1>2. ASSUME NEW at \in {"protect", "open", "load", "link", "showCode", "scan", "sayLinked"},
             Goes(w, at), UNCHANGED <<attempt, account>>
      PROVE  SignalInv'
  <2>1. /\ at \in Waits \cup Sends /\ at # "wipe" /\ at \notin Ending /\ at \notin Looping
    BY DEF Waits, Sends, Ending, Looping
  <2> QED BY <1>0, <1>2, <2>1, ThreadMoves
<1>3. CASE Guard(w)
  <2>1. \/ Ends(w, "absent") /\ stored = "none"
        \/ Ends(w, "stopped")
        \/ Goes(w, "protect") /\ UNCHANGED attempt
    BY <1>3 DEF Guard
  <2> QED BY <1>1, <1>2, <1>3, <2>1 DEF Guard
<1>4. CASE Protected(w) BY <1>1, <1>2, <1>4 DEF Protected
<1>5. CASE Open(w)
  <2>1. UNCHANGED account BY <1>5 DEF Open
  <2>2. \/ Ends(w, "stopped")
        \/ Goes(w, "load") /\ UNCHANGED attempt
        \/ Ends(w, "absent") /\ stored' # "linked"
        \/ Goes(w, "link") /\ UNCHANGED attempt
    BY <1>5 DEF Open
  <2> QED BY <1>1, <1>2, <2>1, <2>2
<1>6. CASE CodeComes(w) BY <1>2, <1>6 DEF CodeComes
<1>7. CASE ShowCode(w)
  <2> DEFINE n == [w EXCEPT !.at = "scan", !.shown = TRUE]
             code == [pairing |-> attempt.pairing, of |-> w.pairing]
  <2>1. ThreadOf(w, attempt, stored) BY <1>0 DEF SignalInv, Threads
  <2>2. /\ n \in Thread /\ n.at = "scan" /\ n.token = w.token /\ n.pairing = w.pairing
        /\ n.seen = w.seen /\ n.refused = w.refused /\ n.why = w.why
    BY <1>0 DEF Thread, Waits
  <2>3. Alive(n) /\ workers' = (workers \ {w}) \cup {n} /\ attempt' = attempt
    BY <1>7, <2>2 DEF Alive, ShowCode, Becomes
  <2>4. code \in [pairing : Nat, of : Nat] /\ code.pairing = code.of
    BY <1>0, <2>1 DEF ThreadOf, Thread
  <2>5. account' = [account EXCEPT !.code = code] BY <1>7 DEF ShowCode
  <2> HIDE DEF code, n
  <2>6. account' \in AccountState /\ account'.code = code
    BY <1>0, <2>4, <2>5 DEF AccountState
  <2>7. ThreadOf(n, attempt', stored')
    BY <1>0, <2>1, <2>2, <2>3 DEF ThreadOf, Ending, Looping
  <2> QED BY <1>0, <2>2, <2>3, <2>4, <2>6, <2>7, ThreadGoes
<1>8. CASE Scanned(w) BY <1>2, <1>8 DEF Scanned
<1>9. CASE LinkFails(w) BY <1>1, <1>9 DEF LinkFails
<1>10. CASE Loaded(w)
  <2>1. (Goes(w, "sayLinked") /\ UNCHANGED attempt) \/ Ends(w, "stopped")
    BY <1>10 DEF Loaded
  <2> QED BY <1>1, <1>2, <1>10, <2>1 DEF Loaded
<1>11. CASE SayLinked(w)
  <2>1. account' = [account EXCEPT !.row = "linked"] /\ Goes(w, "publish") /\ attempt' = attempt
    BY <1>11 DEF SayLinked
  <2>2. account' \in AccountState /\ account'.code = account.code
    BY <1>0, <2>1 DEF AccountState
  <2>3. "publish" \in Waits \cup Sends /\ "publish" \notin Looping /\ "publish" \notin Ending
    BY DEF Waits, Sends, Looping, Ending
  <2> QED BY <1>0, <2>1, <2>2, <2>3, ThreadMoves
<1>12. CASE Published(w)
  <2>1. /\ attempt' = [attempt EXCEPT !.outbound = w.token] /\ Goes(w, "receive")
        /\ account' = account
    BY <1>12 DEF Published
  <2>2. attempt'.outbound = w.token BY <1>0, <2>1
  <2>3. "receive" \in Waits \cup Sends /\ "receive" \notin Ending
    BY DEF Waits, Sends, Ending
  <2> QED BY <1>0, <2>1, <2>2, <2>3, ThreadMoves
<1> QED BY <1>3, <1>4, <1>5, <1>6, <1>7, <1>8, <1>9, <1>10, <1>11, <1>12

(* A thread in the receive loop, with the jobs of its session.              *)
LEMMA LoopSteps ==
  ASSUME SignalInv, NEW w \in workers, WorkerKeeps,
         LoopEnds(w) \/ StreamOpens(w) \/ StreamRefused(w) \/ StreamFails(w)
         \/ LeaveStream(w) \/ StreamEnds(w) \/ WaitEnds(w) \/ WipeKeysOfDevice(w)
  PROVE  SignalInv'
<1>0. /\ w \in Thread /\ attempt \in AttemptState /\ account \in AccountState
      /\ ThreadOf(w, attempt, stored)
      /\ Alive(w) /\ w.at \in Looping
  <2>1. w.at \in Looping /\ Alive(w)
    BY DEF LoopEnds, StreamOpens, StreamRefused, StreamFails, LeaveStream, StreamEnds,
       WaitEnds, WipeKeysOfDevice, Alive, Looping
  <2> QED BY <2>1 DEF SignalInv, Shapes, Threads
<1>1. ASSUME NEW why \in {"stopped", "removed"}, LeavesLoop(w, why), UNCHANGED account
      PROVE  SignalInv'
  BY <1>0, <1>1, ThreadEnds
<1>2. \A row \in {"linked", "linking"} : [account EXCEPT !.row = row] \in AccountState
      /\ [account EXCEPT !.row = row].code = account.code
  BY <1>0 DEF AccountState
<1>9. "stream" \in Waits /\ "backoff" \in Waits /\ "receive" \in Waits BY DEF Waits
<1>3. CASE LoopEnds(w) \/ WipeKeysOfDevice(w)
  BY <1>1, <1>3 DEF LoopEnds, WipeKeysOfDevice
<1>4. CASE StreamOpens(w)
  <2> DEFINE no == FALSE
             none == 0
             n == [w EXCEPT !.at = "stream", !.seen = no, !.relink = no, !.refused = none]
  <2>1. no \in BOOLEAN /\ none \in 0 .. 2 OBVIOUS
  <2>2. Becomes(w, n) /\ attempt' = attempt BY <1>4 DEF StreamOpens
  <2> HIDE DEF no, none
  <2>4. n \in Thread BY <1>0, <1>9, <2>1 DEF Thread
  <2>5. n.at = "stream" /\ n.token = w.token /\ n.pairing = w.pairing /\ n.seen = no
    BY <1>0
  <2>6. n.at \in Looping /\ ~n.seen BY <2>5 DEF Looping, no
  <2>3. account' \in AccountState /\ account'.code = account.code
    BY <1>0, <1>2, <1>4 DEF StreamOpens
  <2> HIDE DEF n
  <2> QED BY <1>0, <2>2, <2>3, <2>4, <2>5, <2>6, ThreadLearns
<1>5. CASE StreamRefused(w)
  <2>1. CASE ~IsCurrent(w) BY <1>1, <1>5, <2>1 DEF StreamRefused
  <2>2. CASE IsCurrent(w)
    <3> DEFINE at == IF w.seen THEN "wipe" ELSE "confirm"
               count == IF w.refused = 2 THEN 2 ELSE w.refused + 1
               n == [w EXCEPT !.at = at, !.seen = TRUE, !.refused = count]
    <3>1. /\ at \in Looping /\ at \in Waits /\ count \in 0 .. 2 /\ count >= 1
          /\ at = "wipe" => count = 2
      BY <1>0 DEF ThreadOf, Thread, Looping, Waits
    <3>2. n = [w EXCEPT !.at = IF w.seen THEN "wipe" ELSE "confirm", !.seen = TRUE,
                        !.refused = IF @ = 2 THEN 2 ELSE @ + 1]
      OBVIOUS
    <3>3. Becomes(w, n) /\ attempt' = attempt /\ account' = account
      BY <1>5, <2>2, <3>2 DEF StreamRefused
    <3> HIDE DEF at, count
    <3>4. /\ n \in Thread /\ n.at = at /\ n.token = w.token /\ n.pairing = w.pairing
          /\ n.refused = count
      BY <1>0, <3>1 DEF Thread
    <3> HIDE DEF n
    <3> QED BY <1>0, <3>1, <3>3, <3>4, ThreadLearns
  <2> QED BY <2>1, <2>2
<1>6. CASE StreamFails(w)
  <2> DEFINE no == FALSE
             none == 0
             n == [w EXCEPT !.at = "backoff", !.seen = no, !.refused = none]
  <2>1. no \in BOOLEAN /\ none \in 0 .. 2 OBVIOUS
  <2>2. Becomes(w, n) /\ attempt' = attempt BY <1>6 DEF StreamFails
  <2> HIDE DEF no, none
  <2>4. n \in Thread BY <1>0, <1>9, <2>1 DEF Thread
  <2>5. n.at = "backoff" /\ n.token = w.token /\ n.pairing = w.pairing /\ n.seen = no
    BY <1>0
  <2>6. n.at \in Looping /\ ~n.seen BY <2>5 DEF Looping, no
  <2>3. account' \in AccountState /\ account'.code = account.code
    BY <1>2, <1>6 DEF StreamFails
  <2> HIDE DEF n
  <2> HIDE DEF n
  <2> QED BY <1>0, <2>2, <2>3, <2>4, <2>5, <2>6, ThreadLearns
<1>7. CASE LeaveStream(w) \/ StreamEnds(w)
  <2>1. PICK at \in {"receive", "backoff"} : Goes(w, at)
    BY <1>7 DEF LeaveStream, StreamEnds
  <2>2. attempt' = attempt /\ w.at \notin Ending
    BY <1>0, <1>7 DEF LeaveStream, StreamEnds, Ending
  <2>3. account' \in AccountState /\ account'.code = account.code
    BY <1>0, <1>2, <1>7 DEF LeaveStream, StreamEnds
  <2>4. at \in Waits \cup Sends /\ at # "wipe" /\ at \notin Ending BY DEF Waits, Ending
  <2> QED BY <1>0, <2>1, <2>2, <2>3, <2>4, ThreadMoves
<1>8. CASE WaitEnds(w)
  <2>1. CASE ~IsCurrent(w) BY <1>1, <1>8, <2>1 DEF WaitEnds
  <2>2. CASE IsCurrent(w)
    <3> DEFINE relink == w.relink \/ w.at = "backoff"
               n == [w EXCEPT !.at = "receive", !.relink = relink]
    <3>1. relink \in BOOLEAN BY <1>0
    <3>2. n = [w EXCEPT !.at = "receive", !.relink = @ \/ w.at = "backoff"] OBVIOUS
    <3>3. Becomes(w, n) /\ attempt' = attempt /\ account' = account
      BY <1>8, <2>2, <3>2 DEF WaitEnds
    <3> HIDE DEF relink
    <3>4. /\ n \in Thread /\ n.at = "receive" /\ n.token = w.token /\ n.pairing = w.pairing
          /\ n.seen = w.seen /\ n.refused = w.refused
      BY <1>0, <1>9, <3>1 DEF Thread
    <3> HIDE DEF n
    <3>5. (n.seen => n.refused >= 1) /\ n.at \in Looping
      BY <1>0, <3>4 DEF ThreadOf, Looping
    <3> QED BY <1>0, <3>3, <3>4, <3>5, ThreadLearns
  <2> QED BY <2>1, <2>2
<1> QED BY <1>3, <1>4, <1>5, <1>6, <1>7, <1>8

(* The end of a thread: it tells the shell, unless a newer one runs.        *)
LEMMA EndSteps ==
  ASSUME SignalInv, NEW w \in workers, WorkerKeeps, CheckEnd(w) \/ SayEnd(w) \/ Unblocked(w)
  PROVE  SignalInv'
<1>0. /\ w \in Thread /\ account \in AccountState
      /\ Alive(w) => ThreadOf(w, attempt, stored) /\ w.token = joiner.worker /\ w.token # 0
      /\ joiner.at = "idle" /\ joiner.worker # 0 => joiner.worker = attempt.generation
  BY DEF SignalInv, Shapes, Threads, OneThread
<1>1. CASE CheckEnd(w)
  <2>1. Alive(w) BY <1>1 DEF CheckEnd, Alive
  <2>2. CASE IsCurrent(w)
    <3> DEFINE n == [w EXCEPT !.at = "sayEnd"]
    <3>1. "sayEnd" \in Sends BY DEF Sends
    <3>2. /\ n \in Thread /\ n.at = "sayEnd" /\ n.token = w.token /\ n.pairing = w.pairing
          /\ n.seen = w.seen /\ n.refused = w.refused /\ n.why = w.why
      BY <1>0, <3>1 DEF Thread
    <3>3. /\ workers' = (workers \ {w}) \cup {n} /\ attempt' = attempt /\ stored' = stored
          /\ account' = account
      BY <1>1, <2>2 DEF CheckEnd, Goes, Becomes
    <3> HIDE DEF n
    <3>4. Alive(n) /\ ThreadOf(n, attempt', stored')
      BY <1>0, <1>1, <2>1, <3>2, <3>3 DEF ThreadOf, Alive, Ending, Looping, CheckEnd
    <3>5. attempt' \in AttemptState /\ account'.code.pairing = account'.code.of
      BY <3>3 DEF SignalInv, Shapes, CodeOfItsBegin
    <3> QED BY <1>0, <2>1, <3>2, <3>3, <3>4, <3>5, ThreadGoes
  <2>3. CASE ~IsCurrent(w)
    <3>1. joiner.at # "idle" BY <1>0, <2>1, <2>3 DEF IsCurrent
    <3>2. /\ workers' = workers \ {w} /\ UNCHANGED <<attempt, stored, account>>
      BY <1>1, <2>3 DEF CheckEnd
    <3> QED BY <1>0, <2>1, <3>1, <3>2, ThreadLeaves
  <2> QED BY <2>2, <2>3
<1>2. CASE SayEnd(w)
  <2>1. Alive(w) /\ w.at \in Ending BY <1>2 DEF SayEnd, Alive, Ending
  <2>2. workers' = workers \ {w} /\ UNCHANGED <<attempt, stored>> BY <1>2 DEF SayEnd
  <2>3. CASE w.why = "absent" /\ UNCHANGED account
    <3>1. Excused' BY <1>0, <2>1, <2>2, <2>3 DEF ThreadOf, Excused
    <3> QED BY <1>0, <2>1, <2>2, <2>3, <3>1, ThreadLeaves
  <2>4. ASSUME NEW row \in {"unlinked", "linking", "linked"}, NEW line \in {"retry", "error"},
               account' = [account EXCEPT !.row = row, !.line = line]
        PROVE  SignalInv'
    <3>1. account' \in AccountState /\ account'.code = account.code /\ account'.line = line
      BY <1>0, <2>4 DEF AccountState
    <3>2. Excused' BY <3>1 DEF Excused
    <3> QED BY <2>1, <2>2, <3>1, <3>2, ThreadLeaves
  <2>5. CASE account' = [account EXCEPT !.row = "unlinked", !.line = "error"]
    BY <2>4, <2>5
  <2>6. CASE \E saved \in Saved(w.why) :
               account' = [account EXCEPT
                    !.row = IF saved THEN "linked"
                            ELSE IF w.why = "denied" THEN "unlinked" ELSE @,
                    !.line = IF saved \/ w.why = "denied" THEN "retry" ELSE "error"]
    <3>1. PICK saved \in Saved(w.why) :
               account' = [account EXCEPT
                    !.row = IF saved THEN "linked"
                            ELSE IF w.why = "denied" THEN "unlinked" ELSE @,
                    !.line = IF saved \/ w.why = "denied" THEN "retry" ELSE "error"]
      BY <2>6
    <3> DEFINE row == IF saved THEN "linked"
                      ELSE IF w.why = "denied" THEN "unlinked" ELSE account.row
               line == IF saved \/ w.why = "denied" THEN "retry" ELSE "error"
    <3>2. account' = [account EXCEPT !.row = row, !.line = line] BY <3>1
    <3>3. row \in {"unlinked", "linking", "linked"} /\ line \in {"retry", "error"}
      BY <1>0 DEF AccountState
    <3> HIDE DEF row, line
    <3> QED BY <2>4, <3>2, <3>3
  <2> QED BY <1>2, <2>3, <2>5, <2>6 DEF SayEnd
<1>3. CASE Unblocked(w)
  <2>1. ~Alive(w) BY <1>3 DEF Unblocked, Alive
  <2>2. /\ workers' = workers \ {w} /\ UNCHANGED <<attempt, account>>
        /\ stored' = stored \/ stored' # "linked"
    BY <1>3 DEF Unblocked
  <2> QED BY <1>0, <2>1, <2>2, ThreadLeaves
<1> QED BY <1>1, <1>2, <1>3

-----------------------------------------------------------------------------
(* The owner starts a thread when no older one lives.                       *)
LEMMA LaunchKeeps ==
  ASSUME SignalInv, NEW resumeOnly \in BOOLEAN, NEW pairing \in Nat,
         NEW others, others \subseteq workers, \A w \in others : ~Alive(w),
         NEW shows, NEW row,
         Launch(Attempt(resumeOnly, pairing), shows, others, row),
         OwnerKeeps, mail' \in Seq(Letter)
  PROVE  SignalInv'
<1> DEFINE s == Attempt(resumeOnly, pairing)
           n == NewWorker(s)
<1>1. attempt \in AttemptState /\ joiner \in OwnerState /\ account \in AccountState
      /\ account.code.pairing = account.code.of /\ others \subseteq Thread
  BY DEF SignalInv, Shapes, CodeOfItsBegin
<1>2. /\ s \in AttemptState /\ s.generation = attempt.generation + 1 /\ s.active = TRUE
      /\ s.pairing = pairing /\ s.resumeOnly = resumeOnly
  <2> DEFINE yes == TRUE
             next == attempt.generation + 1
             zero == 0
  <2>1. yes \in BOOLEAN /\ next \in Nat /\ zero \in Nat BY <1>1 DEF AttemptState
  <2>2. s = [attempt EXCEPT !.generation = next, !.active = yes, !.outbound = zero,
                            !.resumeOnly = resumeOnly, !.pairing = pairing]
    BY DEF Attempt
  <2> HIDE DEF yes, next, zero, s
  <2>3. s \in AttemptState BY <1>1, <2>1, <2>2 DEF AttemptState
  <2>4. /\ s.generation = next /\ s.active = yes /\ s.pairing = pairing
        /\ s.resumeOnly = resumeOnly
    BY <1>1, <2>2
  <2> QED BY <2>3, <2>4 DEF yes, next
<1> HIDE DEF s
<1>3. /\ workers' = others \cup {n} /\ attempt' = s /\ quiet' = FALSE
      /\ joiner' = [joiner EXCEPT !.at = "idle", !.worker = s.generation]
      /\ account' = IF shows THEN [account EXCEPT !.line = "fine", !.code = NoCode]
                    ELSE account
  BY DEF Launch, s
<1>4. /\ n.token = s.generation /\ n.at = "guard" /\ n.pairing = s.pairing
      /\ n.seen = FALSE
  BY DEF NewWorker
<1>5. n \in Thread
  <2> DEFINE no == FALSE
             none == 0
  <2>1. no \in BOOLEAN /\ none \in 0 .. 2 /\ "guard" \in Waits BY DEF Waits
  <2>2. n = [token |-> s.generation, at |-> "guard", resume |-> s.resumeOnly,
             pairing |-> s.pairing, shown |-> no, seen |-> no, relink |-> no,
             refused |-> none, why |-> "none"]
    BY DEF NewWorker
  <2> HIDE DEF no, none, n
  <2> QED BY <1>2, <2>1, <2>2 DEF Thread, AttemptState
<1> HIDE DEF n
<1>6. /\ joiner' \in OwnerState /\ joiner'.at = "idle" /\ joiner'.worker = s.generation
      /\ s.generation \in Nat /\ s.generation # 0
  <2>1. s.generation \in Nat /\ s.generation # 0 BY <1>1, <1>2 DEF AttemptState
  <2>2. joiner' \in OwnerState /\ joiner'.at = "idle" /\ joiner'.worker = s.generation
    BY <1>1, <1>3, <2>1 DEF OwnerState
  <2> QED BY <2>1, <2>2
<1>7. account' \in AccountState /\ account'.code.pairing = account'.code.of
  <2>1. NoCode \in [pairing : Nat, of : Nat] /\ NoCode.pairing = NoCode.of BY DEF NoCode
  <2> DEFINE shown == [account EXCEPT !.line = "fine", !.code = NoCode]
  <2>2. shown \in AccountState /\ shown.code = NoCode BY <1>1, <2>1 DEF AccountState
  <2> QED BY <1>1, <1>3, <2>1, <2>2
<1>8. Alive(n) /\ \A w \in workers' : Alive(w) => w = n BY <1>3, <1>4 DEF Alive
<1>9. Shapes' BY <1>1, <1>2, <1>3, <1>5, <1>6, <1>7 DEF Shapes, OwnerKeeps, SignalInv
<1>10. OneThread' BY <1>2, <1>3, <1>4, <1>6, <1>8 DEF OneThread, Alive
<1>11. Threads'
  <2>1. ThreadOf(n, attempt', stored') BY <1>2, <1>3, <1>4 DEF ThreadOf, Ending, Looping
  <2> QED BY <1>8, <2>1 DEF Threads, Alive
<1>12. ~NoThread' BY <1>3, <1>8 DEF NoThread, Alive
<1> QED BY <1>3, <1>7, <1>9, <1>10, <1>11, <1>12
        DEF SignalInv, QuietInv, CodeOfItsBegin, ServedInv, Excused

(* No thread lives after a step of the owner.                               *)
LEMMA NobodyLeft ==
  ASSUME SignalInv, NEW others, others \subseteq workers, \A w \in others : ~Alive(w),
         workers' = others, OwnerKeeps, mail' \in Seq(Letter),
         attempt' \in AttemptState, attempt'.generation = attempt.generation
                                    \/ attempt'.generation = attempt.generation + 1,
         joiner' \in OwnerState, joiner'.at = "idle", joiner'.worker = 0,
         account' \in AccountState, account'.code.pairing = account'.code.of,
         quiet' => CancelledStaysUnlinked',
         ServedInv'
  PROVE  SignalInv'
<1>1. NoThread' /\ \A w \in workers' : ~Alive(w) BY DEF NoThread, Alive
<1>2. Shapes' BY DEF SignalInv, Shapes, OwnerKeeps
<1>3. attempt'.generation \in Nat BY DEF AttemptState
<1>4. OneThread' /\ Threads' BY <1>1, <1>3 DEF OneThread, Threads, Alive
<1> QED BY <1>1, <1>2, <1>4 DEF SignalInv, QuietInv, CodeOfItsBegin

(* The new thread does not start.                                           *)
LEMMA LaunchFailsKeeps ==
  ASSUME SignalInv, NEW resumeOnly \in BOOLEAN, NEW pairing \in Nat,
         NEW others, others \subseteq workers, \A w \in others : ~Alive(w),
         NEW shows, NEW row \in {"unlinked", "linking", "linked"},
         LaunchFails(Attempt(resumeOnly, pairing), shows, others, row),
         OwnerKeeps, mail' \in Seq(Letter),
         ~shows => NoThread /\ joiner.at = "idle" /\ (Resumes(mail') => Resumes(mail))
  PROVE  SignalInv'
<1> DEFINE s == Attempt(resumeOnly, pairing)
<1>1. attempt \in AttemptState /\ joiner \in OwnerState /\ account \in AccountState
      /\ account.code.pairing = account.code.of
  BY DEF SignalInv, Shapes, CodeOfItsBegin
<1>2. /\ attempt' \in AttemptState /\ attempt'.generation = attempt.generation + 1
  <2> DEFINE no == FALSE
             next == attempt.generation + 1
             zero == 0
  <2>1. no \in BOOLEAN /\ next \in Nat /\ zero \in Nat BY <1>1 DEF AttemptState
  <2>2. attempt' = [attempt EXCEPT !.generation = next, !.active = no, !.outbound = zero,
                            !.resumeOnly = resumeOnly, !.pairing = pairing]
    BY <1>1 DEF LaunchFails, Attempt, Closed
  <2> HIDE DEF no, next, zero, s
  <2>3. attempt' \in AttemptState BY <1>1, <2>1, <2>2 DEF AttemptState
  <2>4. attempt'.generation = next BY <1>1, <2>2
  <2> QED BY <2>3, <2>4 DEF next
<1>3. joiner' \in OwnerState /\ joiner'.at = "idle" /\ joiner'.worker = 0
  BY <1>1 DEF LaunchFails, OwnerState
<1>4. /\ workers' = others /\ quiet' = FALSE
      /\ account' = IF shows THEN [row |-> row, line |-> "error", code |-> NoCode]
                    ELSE account
  BY DEF LaunchFails
<1>5. account' \in AccountState /\ account'.code.pairing = account'.code.of
  <2>1. NoCode \in [pairing : Nat, of : Nat] /\ NoCode.pairing = NoCode.of BY DEF NoCode
  <2> DEFINE shown == [row |-> row, line |-> "error", code |-> NoCode]
  <2>2. shown \in AccountState /\ shown.code = NoCode BY <2>1 DEF AccountState
  <2> QED BY <1>1, <1>4, <2>1, <2>2
<1>6. ServedInv'
  <2>1. CASE shows BY <1>4, <2>1 DEF ServedInv, Excused
  <2>2. CASE ~shows
    <3>1. account' = account /\ stored' = stored /\ NoThread
      BY <1>4, <2>2 DEF OwnerKeeps
    <3> QED BY <2>2, <3>1 DEF SignalInv, ServedInv, Excused
  <2> QED BY <2>1, <2>2
<1> QED BY <1>2, <1>3, <1>4, <1>5, <1>6, NobodyLeft

(* What follows a command once no older thread lives.                       *)
LEMMA ProceedKeeps ==
  ASSUME SignalInv, NEW type \in MailType, NEW pairing \in Nat,
         NEW others, others \subseteq workers, \A w \in others : ~Alive(w),
         Proceed(type, pairing, others), OwnerKeeps, mail' \in Seq(Letter)
  PROVE  SignalInv'
<1>1. attempt \in AttemptState /\ joiner \in OwnerState /\ account \in AccountState
  BY DEF SignalInv, Shapes
<1>2. ASSUME NEW resumeOnly \in BOOLEAN, NEW number \in Nat,
             NEW row \in {"unlinked", "linking", "linked"},
             Launches(Attempt(resumeOnly, number), TRUE, others, row)
      PROVE  SignalInv'
  BY <1>2, LaunchKeeps, LaunchFailsKeeps DEF Launches
<1>3. CASE type = "begin"
  <2> DEFINE no == FALSE
             row == "unlinked"
  <2>1. Launches(Attempt(no, pairing), TRUE, others, row) /\ no \in BOOLEAN
        /\ row \in {"unlinked", "linking", "linked"}
    BY <1>3 DEF Proceed, OpensFor
  <2> HIDE DEF no, row
  <2> QED BY <1>2, <2>1
<1>4. CASE type = "retryKey"
  <2> DEFINE resumeOnly == attempt.resumeOnly
             number == attempt.pairing
             row == account.row
  <2>1. Launches(Attempt(resumeOnly, number), TRUE, others, row)
        /\ resumeOnly \in BOOLEAN /\ number \in Nat
        /\ row \in {"unlinked", "linking", "linked"}
    BY <1>1, <1>4 DEF Proceed, OpensFor, AttemptState, AccountState
  <2> HIDE DEF resumeOnly, number, row
  <2> QED BY <1>2, <2>1
<1>5. CASE type \notin {"begin", "retryKey"}
  <2>1. /\ workers' = others /\ attempt' = Closed(attempt)
        /\ joiner' = [joiner EXCEPT !.at = "idle", !.worker = 0]
        /\ account' = [row |-> "unlinked", line |-> "fine", code |-> NoCode]
    BY <1>5 DEF Proceed, LinkIsOver
  <2>2. attempt' \in AttemptState /\ attempt'.generation = attempt.generation
    BY <1>1, <2>1 DEF Closed, AttemptState
  <2>3. joiner' \in OwnerState /\ joiner'.at = "idle" /\ joiner'.worker = 0
    BY <1>1, <2>1 DEF OwnerState
  <2>4. account' \in AccountState /\ account'.code.pairing = account'.code.of
    BY <2>1 DEF AccountState, NoCode
  <2>5. ServedInv' /\ CancelledStaysUnlinked'
    BY <2>1 DEF ServedInv, Excused, CancelledStaysUnlinked
  <2> QED BY <2>1, <2>2, <2>3, <2>4, <2>5, NobodyLeft
<1> QED BY <1>3, <1>4, <1>5

(* A worker that lives is not the one of an owner without a worker.         *)
LEMMA NobodyLives ==
  ASSUME SignalInv, joiner.worker = 0 \/ Joined = {} \/ joiner.at = "aborted"
  PROVE  NoThread /\ \A w \in workers : ~Alive(w)
BY DEF SignalInv, OneThread, NoThread, Joined

(* The owner takes a command, or is done with waiting for a thread.         *)
LEMMA OwnerSteps ==
  ASSUME SignalInv,
         TakeResumeMail
         \/ (\E type \in {"begin", "retryKey", "cancel", "shutdown"} : TakeMail(type))
         \/ JoinEnds \/ JoinGivesUp
  PROVE  SignalInv'
<1>1. attempt \in AttemptState /\ joiner \in OwnerState /\ account \in AccountState
      /\ mail \in Seq(Letter)
  BY DEF SignalInv, Shapes
<1>2. CASE JoinEnds \/ JoinGivesUp
  <2> DEFINE type == joiner.msg
             pairing == joiner.pairing
  <2>1. /\ Proceed(type, pairing, workers) /\ OwnerKeeps /\ mail' = mail
        /\ Joined = {} \/ joiner.at = "aborted"
    BY <1>2 DEF JoinEnds, JoinGivesUp
  <2>2. type \in MailType /\ pairing \in Nat BY <1>1 DEF OwnerState
  <2> HIDE DEF type, pairing
  <2>3. \A w \in workers : ~Alive(w) BY <2>1, NobodyLives
  <2> QED BY <1>1, <2>1, <2>2, <2>3, ProceedKeeps
<1>3. CASE TakeResumeMail
  <2>1. /\ joiner.at = "idle" /\ mail # <<>> /\ Head(mail).type = "resume"
        /\ mail' = Tail(mail) /\ OwnerKeeps
    BY <1>3 DEF TakeResumeMail, Takes
  <2>2. mail' \in Seq(Letter) /\ (Resumes(mail') => Resumes(mail))
    BY <1>1, <2>1, LetterTaken
  <2>3. CASE joiner.worker # 0
    <3>1. UNCHANGED <<joiner, attempt, workers, account, quiet>> /\ stored' = stored
          /\ orders' = orders
      BY <1>3, <2>1, <2>3 DEF TakeResumeMail, OwnerKeeps
    <3> QED BY <2>1, <2>2, <3>1 DEF SignalInv, Shapes, OneThread, Threads, QuietInv,
            CancelledStaysUnlinked, NoThread, CodeOfItsBegin, ServedInv, Excused
  <2>4. CASE joiner.worker = 0
    <3> DEFINE yes == TRUE
               no == FALSE
               number == attempt.pairing
               row == account.row
    <3>1. Launches(Attempt(yes, number), no, workers, row) /\ yes \in BOOLEAN
          /\ number \in Nat /\ row \in {"unlinked", "linking", "linked"}
      BY <1>1, <1>3, <2>4 DEF TakeResumeMail, AttemptState, AccountState
    <3>2. NoThread /\ \A w \in workers : ~Alive(w) BY <2>4, NobodyLives
    <3> HIDE DEF yes, number, row, no
    <3>3. CASE Launch(Attempt(yes, number), no, workers, row)
      BY <2>1, <2>2, <3>1, <3>2, <3>3, LaunchKeeps
    <3>4. CASE LaunchFails(Attempt(yes, number), no, workers, row)
      BY <2>1, <2>2, <3>1, <3>2, <3>4, LaunchFailsKeeps
    <3> QED BY <3>1, <3>3, <3>4 DEF Launches
  <2> QED BY <2>3, <2>4
<1>4. ASSUME NEW type \in {"begin", "retryKey", "cancel", "shutdown"}, TakeMail(type)
      PROVE  SignalInv'
  <2> DEFINE pairing == Head(mail).pairing
  <2>1. /\ joiner.at = "idle" /\ mail # <<>> /\ Head(mail).type = type
        /\ mail' = Tail(mail) /\ OwnerKeeps
    BY <1>4 DEF TakeMail, Takes
  <2>2. mail' \in Seq(Letter) /\ pairing \in Nat /\ type \in MailType
    BY <1>1, <2>1, LetterTaken DEF Letter
  <2> HIDE DEF pairing
  <2>3. CASE joiner.worker = 0 /\ Proceed(type, pairing, workers)
    <3>1. \A w \in workers : ~Alive(w) BY <2>3, NobodyLives
    <3> QED BY <2>1, <2>2, <2>3, <3>1, ProceedKeeps
  <2>4. CASE /\ attempt' = [attempt EXCEPT !.generation = @ + 1, !.active = FALSE]
             /\ joiner' = [joiner EXCEPT !.at = "join", !.msg = type, !.pairing = pairing]
             /\ UNCHANGED <<workers, account, quiet>>
    <3>1. /\ attempt' \in AttemptState /\ attempt'.generation = attempt.generation + 1
          /\ attempt'.pairing = attempt.pairing
      <4> DEFINE no == FALSE
                 next == attempt.generation + 1
      <4>1. no \in BOOLEAN /\ next \in Nat BY <1>1 DEF AttemptState
      <4>2. attempt' = [attempt EXCEPT !.generation = next, !.active = no] BY <2>4
      <4> HIDE DEF no, next
      <4>3. attempt' \in AttemptState BY <1>1, <4>1, <4>2 DEF AttemptState
      <4>4. attempt'.generation = next /\ attempt'.pairing = attempt.pairing
        BY <1>1, <4>2
      <4> QED BY <4>3, <4>4 DEF next
    <3>2. joiner' \in OwnerState /\ joiner'.at = "join" /\ joiner'.worker = joiner.worker
      BY <1>1, <2>2, <2>4 DEF OwnerState
    <3>3. stored' = stored /\ orders' = orders BY <2>1 DEF OwnerKeeps
    <3>4. Shapes' BY <2>2, <2>4, <3>1, <3>2, <3>3 DEF SignalInv, Shapes
    <3>5. joiner.worker <= attempt.generation /\ joiner.worker \in Nat
          /\ attempt.generation \in Nat
      BY <1>1 DEF SignalInv, OneThread, OwnerState, AttemptState
    <3>6. OneThread' BY <2>1, <2>4, <3>1, <3>2, <3>5 DEF SignalInv, OneThread, Alive
    <3>7. Threads'
      <4>1. ASSUME NEW w \in workers, Alive(w) PROVE ThreadOf(w, attempt', stored')
        <5>1. ThreadOf(w, attempt, stored) /\ w.token = joiner.worker
          BY <4>1 DEF SignalInv, Threads, OneThread
        <5>2. attempt'.generation # w.token BY <3>1, <3>5, <5>1
        <5> QED BY <3>1, <3>3, <5>1, <5>2 DEF ThreadOf
      <4> QED BY <2>4, <4>1 DEF Threads, Alive
    <3> QED BY <2>4, <3>2, <3>4, <3>6, <3>7 DEF SignalInv, QuietInv, NoThread,
            CancelledStaysUnlinked, CodeOfItsBegin, ServedInv, Alive
  <2> QED BY <1>4, <2>3, <2>4 DEF TakeMail, pairing
<1> QED BY <1>2, <1>3, <1>4

(* The owner aborts a thread that took too long.                            *)
LEMMA AbortKeeps ==
  ASSUME SignalInv, NEW w \in workers, JoinAborts(w)
  PROVE  SignalInv'
<1> DEFINE n == [w EXCEPT !.at = "blocked"]
<1>1. /\ w \in Thread /\ Alive(w) /\ joiner \in OwnerState /\ joiner.at = "join"
  BY DEF SignalInv, Shapes, JoinAborts, Alive, Waits
<1>2. n \in Thread /\ ~Alive(n) BY <1>1 DEF Thread, Alive
<1>3. workers' \subseteq (workers \ {w}) \cup {n} BY DEF JoinAborts
<1> HIDE DEF n
<1>4. \A v \in workers' : v \in Thread /\ ~Alive(v)
  BY <1>1, <1>2, <1>3 DEF SignalInv, Shapes, OneThread
<1>5. joiner' \in OwnerState /\ joiner'.at = "aborted" /\ joiner'.worker = joiner.worker
  BY <1>1 DEF JoinAborts, OwnerState
<1>6. UNCHANGED <<mail, attempt, account, quiet, stored, orders>>
  BY DEF JoinAborts, OwnerKeeps
<1>7. ~quiet BY <1>1 DEF SignalInv, QuietInv, NoThread
<1>8. Shapes' BY <1>4, <1>5, <1>6 DEF SignalInv, Shapes
<1>9. OneThread' /\ Threads'
  BY <1>1, <1>4, <1>5, <1>6 DEF SignalInv, OneThread, Threads, Alive
<1> QED BY <1>5, <1>6, <1>7, <1>8, <1>9 DEF SignalInv, QuietInv, CodeOfItsBegin, ServedInv

(* A command of the user waits for the owner: nothing else changes but the  *)
(* line of a Retry.                                                         *)
LEMMA LetterKeeps ==
  ASSUME SignalInv, NEW x \in Letter, mail' = Append(mail, x), orders' = orders + 1,
         UNCHANGED <<joiner, attempt, workers, stored, quiet>>,
         \/ account' = account
         \/ /\ x.type # "resume" /\ ~quiet
            /\ account' \in AccountState /\ account'.code = account.code
  PROVE  SignalInv'
<1>1. /\ mail \in Seq(Letter) /\ orders \in Nat /\ account \in AccountState
      /\ account.code.pairing = account.code.of
  BY DEF SignalInv, Shapes, CodeOfItsBegin
<1>2. mail' \in Seq(Letter) /\ (Resumes(mail') => Resumes(mail) /\ x.type = "resume")
  BY <1>1, LetterAdded
<1>3. Shapes' BY <1>1, <1>2 DEF SignalInv, Shapes
<1>4. OneThread' /\ Threads' /\ CodeOfItsBegin'
  BY <1>1 DEF SignalInv, OneThread, Threads, CodeOfItsBegin, Alive
<1>5. QuietInv' BY DEF SignalInv, QuietInv, NoThread, CancelledStaysUnlinked, Alive
<1>6. ServedInv' BY <1>2 DEF SignalInv, ServedInv, Excused, NoThread, Alive
<1> QED BY <1>3, <1>4, <1>5, <1>6 DEF SignalInv

(* What the user does.                                                      *)
LEMMA OrderSteps ==
  ASSUME SignalInv,
         AcceptNotice \/ BeginDevice \/ RetryDevice \/ CancelDevice \/ CloseDevice
  PROVE  SignalInv'
<1>1. account \in AccountState /\ orders \in Nat BY DEF SignalInv, Shapes
<1>2. ASSUME NEW type \in MailType, NEW pairing \in Nat, Order(type, pairing),
             \/ account' = account
             \/ /\ type # "resume" /\ ~quiet
                /\ account' \in AccountState /\ account'.code = account.code
      PROVE  SignalInv'
  <2> DEFINE x == [type |-> type, pairing |-> pairing]
  <2>1. x \in Letter /\ x.type = type BY DEF Letter
  <2>2. /\ mail' = Append(mail, x) /\ orders' = orders + 1
        /\ UNCHANGED <<joiner, attempt, workers, stored, quiet>>
    BY <1>2 DEF Order
  <2> HIDE DEF x
  <2> QED BY <1>2, <2>1, <2>2, LetterKeeps
<1>3. {"begin", "resume", "retryKey", "cancel", "shutdown"} \subseteq MailType
      /\ orders + 1 \in Nat /\ 0 \in Nat
  BY <1>1 DEF MailType
<1>4. CASE RetryDevice
  <2>1. account.line = "retry" /\ Order("retryKey", 0)
        /\ account' = [account EXCEPT !.line = "fine"]
    BY <1>4 DEF RetryDevice
  <2>2. ~quiet BY <2>1 DEF SignalInv, QuietInv, CancelledStaysUnlinked
  <2>3. account' \in AccountState /\ account'.code = account.code
    BY <1>1, <2>1 DEF AccountState
  <2> QED BY <1>2, <1>3, <2>1, <2>2, <2>3
<1>5. CASE AcceptNotice BY <1>2, <1>3, <1>5 DEF AcceptNotice
<1>6. CASE BeginDevice BY <1>2, <1>3, <1>6 DEF BeginDevice
<1>7. CASE CancelDevice BY <1>2, <1>3, <1>7 DEF CancelDevice
<1>8. CASE CloseDevice BY <1>2, <1>3, <1>8 DEF CloseDevice
<1> QED BY <1>4, <1>5, <1>6, <1>7, <1>8

(* A link without threads.                                                  *)
LEMMA SignalInvInit == ASSUME SignalInit PROVE SignalInv
<1>1. attempt \in AttemptState /\ joiner \in OwnerState /\ account \in AccountState
  BY DEF SignalInit, AttemptState, OwnerState, AccountState, MailType, NoCode
<1>2. mail \in Seq(Letter) /\ workers = {} /\ orders \in Nat /\ account.row = "unlinked"
      /\ account.code = NoCode /\ joiner.worker = 0 /\ attempt.generation = 0
      /\ joiner.at = "idle" /\ quiet = FALSE
  BY DEF SignalInit
<1> QED BY <1>1, <1>2 DEF SignalInv, Shapes, OneThread, Threads, QuietInv, CodeOfItsBegin,
        NoCode, ServedInv, Excused

(* Each step of the link keeps all of it.                                   *)
LEMMA SignalInvNext == ASSUME SignalInv, [SignalNext]_signalVars PROVE SignalInv'
<1>1. CASE AcceptNotice \/ BeginDevice \/ RetryDevice \/ CancelDevice \/ CloseDevice
  BY <1>1, OrderSteps
<1>2. CASE TakeResumeMail
           \/ (\E type \in {"begin", "retryKey", "cancel", "shutdown"} : TakeMail(type))
           \/ JoinEnds \/ JoinGivesUp
  BY <1>2, OwnerSteps
<1>3. ASSUME NEW w \in workers, JoinAborts(w)
      PROVE  SignalInv'
  BY <1>3, AbortKeeps
<1>4. ASSUME NEW w \in workers, WorkerStep(w)
      PROVE  SignalInv'
  <2>1. WorkerKeeps BY <1>4 DEF WorkerStep
  <2>2. \/ Guard(w) \/ Protected(w) \/ Open(w) \/ CodeComes(w) \/ ShowCode(w)
           \/ Scanned(w) \/ LinkFails(w) \/ Loaded(w) \/ SayLinked(w) \/ Published(w)
        \/ LoopEnds(w) \/ StreamOpens(w) \/ StreamRefused(w) \/ StreamFails(w)
           \/ LeaveStream(w) \/ StreamEnds(w) \/ WaitEnds(w) \/ WipeKeysOfDevice(w)
        \/ CheckEnd(w) \/ SayEnd(w) \/ Unblocked(w)
    BY <1>4 DEF WorkerStep
  <2> QED BY <2>1, <2>2, StartSteps, LoopSteps, EndSteps
<1>5. CASE UNCHANGED signalVars
  BY <1>5 DEF signalVars, SignalInv, Shapes, OneThread, Threads, QuietInv, NoThread,
     CancelledStaysUnlinked, CodeOfItsBegin, ServedInv, Excused, Resumes, Alive
<1> QED BY <1>1, <1>2, <1>3, <1>4, <1>5 DEF SignalNext

(* Of all the threads of the link at most one lives; it knows what its      *)
(* session says, and after a cancel it is gone.                             *)
THEOREM SignalInvariance == SignalSpec => []SignalInv
<1>1. SignalInit => SignalInv BY SignalInvInit
<1>2. SignalInv /\ [SignalNext]_signalVars => SignalInv' BY SignalInvNext
<1> QED BY <1>1, <1>2, PTL DEF SignalSpec

-----------------------------------------------------------------------------
(* What the invariant says of the row.                                      *)
LEMMA RowFollows == ASSUME SignalInv PROVE LinkedRowIsTrue
<1>1. EventsKeepTheirLink
  BY DEF SignalInv, QuietInv, EventsKeepTheirLink, CancelledStaysUnlinked
<1>2. AttemptKeepsSession
  <2>1. ASSUME NEW w \in LiveWorkers, IsCurrent(w),
               w.at \in {"receive", "stream", "confirm", "backoff", "wipe"}
        PROVE  attempt.outbound = w.token /\ attempt.active
    <3>1. ThreadOf(w, attempt, stored) BY <2>1 DEF LiveWorkers, SignalInv, Threads
    <3>2. w.at \in Looping /\ w.at \notin Ending BY <2>1 DEF Looping, Ending
    <3> QED BY <2>1, <3>1, <3>2 DEF ThreadOf, IsCurrent
  <2> QED BY <2>1 DEF AttemptKeepsSession
<1>3. LinkedRowServed
  <2>1. ASSUME joiner.at = "idle", mail = <<>>, account.row = "linked", stored = "linked",
               account.line = "fine"
        PROVE  \E w \in LiveWorkers : IsCurrent(w)
    <3>1. Resumes(mail) BY <2>1 DEF Resumes
    <3>2. PICK w \in workers : Alive(w)
      BY <2>1, <3>1 DEF SignalInv, ServedInv, Excused, NoThread
    <3>3. IsCurrent(w) BY <2>1, <3>2 DEF SignalInv, OneThread, IsCurrent
    <3> QED BY <3>2, <3>3 DEF LiveWorkers
  <2> QED BY <2>1 DEF LinkedRowServed
<1> QED BY <1>1, <1>2, <1>3 DEF LinkedRowIsTrue, LinkIsServed

(* What the row says of a link is of that link, and somebody serves it: a   *)
(* cancelled link stays unlinked, a code is of its Begin, a current worker  *)
(* has the jobs, and a linked row has a worker or a reason why not.         *)
THEOREM LinkedRowsAreTrue == SignalSpec => []LinkedRowIsTrue
<1>1. SignalInv => LinkedRowIsTrue BY RowFollows
<1> QED BY <1>1, SignalInvariance, PTL

(* The store of a linked device loses its keys in one kind of step only.    *)
LEMMA OneStepKeepsKeys ==
  ASSUME SignalInv, [SignalNext]_signalVars, stored = "linked", stored' = "scratch"
  PROVE  \E w \in workers : w.at = "wipe" /\ w.refused = 2
<1>1. stored' # stored OBVIOUS
<1>2. PICK w \in workers : JoinAborts(w) \/ WorkerStep(w)
  BY <1>1 DEF SignalNext, signalVars, AcceptNotice, BeginDevice, RetryDevice, CancelDevice,
     CloseDevice, Order, TakeResumeMail, TakeMail, Takes, JoinEnds, JoinGivesUp, OwnerKeeps
<1>3. WipeKeysOfDevice(w)
  BY <1>1, <1>2 DEF JoinAborts, OwnerKeeps, WorkerStep, Guard, Protected, Open, CodeComes,
     ShowCode, Scanned, LinkFails, Loaded, SayLinked, Published, LoopEnds, StreamOpens,
     StreamRefused, StreamFails, LeaveStream, StreamEnds, WaitEnds, CheckEnd, SayEnd,
     Unblocked
<1>4. w.at = "wipe" /\ Alive(w) BY <1>3 DEF WipeKeysOfDevice, Alive
<1>5. w.refused = 2 BY <1>4 DEF SignalInv, Threads, ThreadOf
<1> QED BY <1>4, <1>5

(* "Only a second consecutive unauthorized open is removal": no other step  *)
(* takes the keys of a linked device away.                                  *)
THEOREM KeysAreKept == SignalSpec => KeysGoAfterTwoRefusals
<1>1. SignalInv /\ [SignalNext]_signalVars =>
        [stored = "linked" /\ stored' = "scratch" =>
           \E w \in workers : w.at = "wipe" /\ w.refused = 2]_signalVars
  BY OneStepKeepsKeys
<1> QED BY <1>1, SignalInvariance, PTL DEF SignalSpec, KeysGoAfterTwoRefusals

-----------------------------------------------------------------------------
(* The store files of all accounts.                                         *)

(* A set of numbers with a bound has a greatest one.                        *)
LEMMA Greatest ==
  ASSUME NEW T, T \subseteq Nat, T # {}, NEW k \in Nat, \A x \in T : x <= k
  PROVE  \E x \in T : \A y \in T : y <= x
<1> DEFINE U == {k - x : x \in T}
<1>1. U \subseteq Nat /\ U # {}
  <2>1. \A x \in T : x \in Nat /\ k - x \in Nat OBVIOUS
  <2> QED BY <2>1
<1>2. PICK u \in U : \A v \in U : u <= v
  <2> HIDE DEF U
  <2> QED BY <1>1, Least
<1>3. PICK x \in T : u = k - x BY <1>2
<1>4. ASSUME NEW y \in T PROVE y <= x
  <2>1. k - y \in U OBVIOUS
  <2>2. k - x <= k - y BY <2>1, <1>2, <1>3
  <2> QED BY <2>2
<1> QED BY <1>4

(* A function into the numbers is bounded on a finite set.                  *)
LEMMA FiniteBounded ==
  ASSUME NEW S, IsFiniteSet(S), NEW f \in [S -> Nat]
  PROVE  \E k \in Nat : \A x \in S : f[x] <= k
<1> DEFINE Good == {n \in Nat : \A T \in SUBSET S : Cardinality(T) = n =>
                       \E k \in Nat : \A x \in T : f[x] <= k}
<1>1. 0 \in Good
  <2> SUFFICES ASSUME NEW T \in SUBSET S, Cardinality(T) = 0
               PROVE  \E k \in Nat : \A x \in T : f[x] <= k
    OBVIOUS
  <2>1. T = {} BY FS_Subset, FS_EmptySet
  <2> QED BY <2>1
<1>2. ASSUME NEW n \in Nat, n \in Good PROVE n + 1 \in Good
  <2> SUFFICES ASSUME NEW T \in SUBSET S, Cardinality(T) = n + 1
               PROVE  \E k \in Nat : \A x \in T : f[x] <= k
    OBVIOUS
  <2>1. IsFiniteSet(T) BY FS_Subset
  <2>2. T # {} BY FS_EmptySet
  <2>3. PICK y \in T : TRUE BY <2>2
  <2>4. Cardinality(T \ {y}) = n
    <3>1. Cardinality(T \ {y}) =
            IF y \in T THEN Cardinality(T) - 1 ELSE Cardinality(T)
      BY <2>1, FS_RemoveElement
    <3> QED BY <3>1, <2>3
  <2>5. PICK k \in Nat : \A x \in T \ {y} : f[x] <= k
    <3>1. T \ {y} \in SUBSET S OBVIOUS
    <3> QED BY <2>4, <1>2, <3>1
  <2>6. f[y] \in Nat OBVIOUS
  <2>7. CASE f[y] <= k BY <2>7, <2>5
  <2>8. CASE ~(f[y] <= k)
    <3>1. \A x \in T : f[x] <= f[y]
      <4> SUFFICES ASSUME NEW x \in T PROVE f[x] <= f[y] OBVIOUS
      <4>1. f[x] \in Nat OBVIOUS
      <4> QED BY <4>1, <2>5, <2>6, <2>8
    <3> QED BY <3>1, <2>6
  <2> QED BY <2>7, <2>8
<1>3. Nat \subseteq Good
  <2> HIDE DEF Good
  <2> QED BY <1>1, <1>2, InductionOverNat
<1>4. Cardinality(S) \in Nat BY FS_CardinalityType
<1> QED BY <1>3, <1>4

(* There are finitely many directories.                                     *)
LEMMA DirsAreFinite == IsFiniteSet(Owner) /\ IsFiniteSet(Dir)
<1>1. IsFiniteSet(Owner)
  <2>1. IsFiniteSet(Account) BY RelinkBounds
  <2>2. IsFiniteSet({"unstored"}) BY FS_Singleton
  <2> QED BY <2>1, <2>2, FS_Union DEF Owner
<1>2. IsFiniteSet(1 .. MaxDir)
  <2>1. MaxDir \in Int /\ 1 \in Int BY RelinkBounds
  <2> QED BY <2>1, FS_Interval
<1>3. IsFiniteSet(Owner \X (1 .. MaxDir)) BY <1>1, <1>2, FS_Product
<1> QED BY <1>1, <1>3 DEF Dir

(* Of some directories one is last, by a number and then by its name.       *)
LEMMA LastDir ==
  ASSUME NEW D, D \subseteq Dir, D # {}, NEW f \in [D -> Nat]
  PROVE  \E d \in D : \A e \in D :
            f[e] < f[d] \/ (f[e] = f[d] /\ e[2] <= d[2])
<1>1. IsFiniteSet(D) BY DirsAreFinite, FS_Subset
<1>2. PICK k \in Nat : \A x \in D : f[x] <= k BY <1>1, FiniteBounded
<1> DEFINE T == {f[x] : x \in D}
<1>3. \E t \in T : \A u \in T : u <= t
  <2>1. T \subseteq Nat /\ T # {} /\ \A x \in T : x <= k BY <1>2
  <2> HIDE DEF T
  <2> QED BY <2>1, Greatest
<1>4. PICK c \in D : \A x \in D : f[x] <= f[c] BY <1>3
<1> DEFINE U == {x[2] : x \in {y \in D : f[y] = f[c]}}
<1>5. \A x \in D : x[2] \in 1 .. MaxDir BY DEF Dir
<1>6. \E t \in U : \A u \in U : u <= t
  <2>1. U \subseteq Nat /\ U # {} BY <1>5
  <2>2. MaxDir \in Nat /\ \A x \in U : x <= MaxDir BY <1>5, RelinkBounds
  <2> HIDE DEF U
  <2> QED BY <2>1, <2>2, Greatest
<1>7. PICK d \in D : f[d] = f[c] /\ \A x \in D : f[x] = f[c] => x[2] <= d[2] BY <1>6
<1>8. ASSUME NEW e \in D PROVE f[e] < f[d] \/ (f[e] = f[d] /\ e[2] <= d[2])
  <2>1. f[e] \in Nat /\ f[c] \in Nat /\ f[e] <= f[c] BY <1>4
  <2> QED BY <2>1, <1>7
<1> QED BY <1>8

(* The names of the owners are in some order.                               *)
LEMMA OwnersAreRanked ==
  /\ OwnerRank \in [Owner -> 1 .. Cardinality(Owner)]
  /\ Cardinality(Owner) \in Nat
  /\ \A a, b \in Owner : a # b => OwnerRank[a] # OwnerRank[b]
<1> DEFINE N == Cardinality(Owner)
<1>1. N \in Nat /\ ExistsBijection(1 .. N, Owner) BY DirsAreFinite, FS_CardinalityType
<1>2. PICK g \in Bijection(1 .. N, Owner) : TRUE BY <1>1 DEF ExistsBijection
<1>3. /\ g \in [1 .. N -> Owner]
      /\ \A t \in Owner : \E s \in 1 .. N : g[s] = t
  BY <1>2 DEF Bijection, Surjection
<1> DEFINE rank == [a \in Owner |-> CHOOSE s \in 1 .. N : g[s] = a]
<1>4. \A a \in Owner : rank[a] \in 1 .. N /\ g[rank[a]] = a BY <1>3
<1>5. rank \in [Owner -> 1 .. N] BY <1>4
<1>6. \A a, b \in Owner : a # b => rank[a] # rank[b] BY <1>4
<1> HIDE DEF rank
<1>7. \E r \in [Owner -> 1 .. N] : \A a, b \in Owner : a # b => r[a] # r[b]
  BY <1>5, <1>6
<1> QED BY <1>1, <1>7 DEF OwnerRank

(* Before is an order of all directories.                                   *)
LEMMA BeforeIsOrder ==
  /\ \A d, e \in Dir : d # e => Before(d, e) \/ Before(e, d)
  /\ \A d \in Dir : ~Before(d, d)
  /\ \A d, e, f \in Dir : Before(d, e) /\ Before(e, f) => Before(d, f)
<1>1. \A d \in Dir : /\ d[1] \in Owner /\ d[2] \in Int /\ d = <<d[1], d[2]>>
                     /\ OwnerRank[d[1]] \in Int
  BY OwnersAreRanked DEF Dir
<1>2. \A d, e \in Dir : d # e => Before(d, e) \/ Before(e, d)
  <2> SUFFICES ASSUME NEW d \in Dir, NEW e \in Dir, d # e
               PROVE  Before(d, e) \/ Before(e, d)
    OBVIOUS
  <2>1. CASE d[1] = e[1]
    <3>1. d[2] # e[2] BY <1>1, <2>1
    <3> QED BY <3>1, <2>1, <1>1 DEF Before
  <2>2. CASE d[1] # e[1]
    <3>1. OwnerRank[d[1]] # OwnerRank[e[1]] BY <1>1, <2>2, OwnersAreRanked
    <3> QED BY <3>1, <1>1 DEF Before
  <2> QED BY <2>1, <2>2
<1>3. \A d \in Dir : ~Before(d, d) BY <1>1 DEF Before
<1>4. \A d, e, f \in Dir : Before(d, e) /\ Before(e, f) => Before(d, f)
  <2> SUFFICES ASSUME NEW d \in Dir, NEW e \in Dir, NEW f \in Dir,
                      Before(d, e), Before(e, f)
               PROVE  Before(d, f)
    OBVIOUS
  <2> QED BY <1>1 DEF Before
<1> QED BY <1>2, <1>3, <1>4

(* retained_dirs can sort any directories.                                  *)
LEMMA OrderExists ==
  ASSUME NEW dirs, dirs \subseteq Dir
  PROVE  \E order \in [1 .. Cardinality(dirs) -> dirs] :
            \A i, j \in 1 .. Cardinality(dirs) : i < j => Before(order[i], order[j])
<1> DEFINE Good == {n \in Nat : \A T \in SUBSET Dir : Cardinality(T) = n =>
              \E order \in [1 .. n -> T] :
                 \A i, j \in 1 .. n : i < j => Before(order[i], order[j])}
<1>1. 0 \in Good
  <2> SUFFICES ASSUME NEW T \in SUBSET Dir, Cardinality(T) = 0
               PROVE  \E order \in [1 .. 0 -> T] :
                 \A i, j \in 1 .. 0 : i < j => Before(order[i], order[j])
    OBVIOUS
  <2>1. 1 .. 0 = {} OBVIOUS
  <2>2. [i \in 1 .. 0 |-> i] \in [1 .. 0 -> T] BY <2>1
  <2> QED BY <2>1, <2>2
<1>2. ASSUME NEW n \in Nat, n \in Good PROVE n + 1 \in Good
  <2> SUFFICES ASSUME NEW T \in SUBSET Dir, Cardinality(T) = n + 1
               PROVE  \E order \in [1 .. n + 1 -> T] :
                 \A i, j \in 1 .. n + 1 : i < j => Before(order[i], order[j])
    OBVIOUS
  <2>1. IsFiniteSet(T) BY DirsAreFinite, FS_Subset
  <2>2. T # {} BY FS_EmptySet
  <2>3. PICK last \in T : \A e \in T : e # last => Before(e, last)
    <3> DEFINE f == [d \in T |-> OwnerRank[d[1]]]
    <3>1. f \in [T -> Nat] BY OwnersAreRanked DEF Dir
    <3>2. PICK d \in T : \A e \in T : f[e] < f[d] \/ (f[e] = f[d] /\ e[2] <= d[2])
      <4> HIDE DEF f
      <4>1. T \subseteq Dir OBVIOUS
      <4> QED BY <4>1, <3>1, <2>2, LastDir
    <3>3. ASSUME NEW e \in T, e # d PROVE Before(e, d)
      <4>1. e[1] \in Owner /\ d[1] \in Owner /\ e = <<e[1], e[2]>> /\ d = <<d[1], d[2]>>
            /\ e[2] \in Int /\ d[2] \in Int
        BY DEF Dir
      <4>2. f[e] = OwnerRank[e[1]] /\ f[d] = OwnerRank[d[1]] OBVIOUS
      <4>3. CASE f[e] < f[d] BY <4>3, <4>2 DEF Before
      <4>4. CASE f[e] = f[d] /\ e[2] <= d[2]
        <5>1. e[1] = d[1] BY <4>1, <4>2, <4>4, OwnersAreRanked
        <5>2. e[2] # d[2] BY <5>1, <4>1, <3>3
        <5> QED BY <5>1, <5>2, <4>1, <4>4 DEF Before
      <4> QED BY <4>3, <4>4, <3>2
    <3> QED BY <3>3
  <2>4. Cardinality(T \ {last}) = n
    <3>1. Cardinality(T \ {last}) =
            IF last \in T THEN Cardinality(T) - 1 ELSE Cardinality(T)
      BY <2>1, FS_RemoveElement
    <3> QED BY <3>1, <2>3
  <2>5. PICK order \in [1 .. n -> T \ {last}] :
            \A i, j \in 1 .. n : i < j => Before(order[i], order[j])
    <3>1. T \ {last} \in SUBSET Dir OBVIOUS
    <3> QED BY <2>4, <1>2, <3>1
  <2> DEFINE all == [i \in 1 .. n + 1 |-> IF i = n + 1 THEN last ELSE order[i]]
  <2>6. all \in [1 .. n + 1 -> T] OBVIOUS
  <2>7. ASSUME NEW i \in 1 .. n + 1, NEW j \in 1 .. n + 1, i < j
        PROVE  Before(all[i], all[j])
    <3>1. i \in 1 .. n /\ all[i] = order[i] /\ order[i] \in T \ {last} BY <2>7
    <3>2. CASE j = n + 1
      <4>1. all[j] = last BY <3>2
      <4> HIDE DEF all
      <4> QED BY <4>1, <3>1, <2>3
    <3>3. CASE j # n + 1
      <4>1. j \in 1 .. n /\ all[j] = order[j] BY <3>3
      <4> HIDE DEF all
      <4> QED BY <4>1, <3>1, <2>5, <2>7
    <3> QED BY <3>2, <3>3
  <2> HIDE DEF all
  <2> QED BY <2>6, <2>7
<1>3. Nat \subseteq Good
  <2> HIDE DEF Good
  <2> QED BY <1>1, <1>2, InductionOverNat
<1>4. Cardinality(dirs) \in Nat BY DirsAreFinite, FS_Subset, FS_CardinalityType
<1> QED BY <1>3, <1>4

(* The sorted directories are all of them, each once.                       *)
LEMMA SortedDirs ==
  ASSUME NEW dirs, dirs \subseteq Dir
  PROVE  /\ Cardinality(dirs) \in Nat
         /\ Cardinality(dirs) = 0 <=> dirs = {}
         /\ Sorted(dirs) \in [1 .. Cardinality(dirs) -> dirs]
         /\ \A d \in dirs : \E i \in 1 .. Cardinality(dirs) : Sorted(dirs)[i] = d
<1> DEFINE N == Cardinality(dirs)
<1>1. IsFiniteSet(dirs) BY DirsAreFinite, FS_Subset
<1>2. N \in Nat /\ (N = 0 <=> dirs = {}) BY <1>1, FS_CardinalityType, FS_EmptySet
<1>3. /\ Sorted(dirs) \in [1 .. N -> dirs]
      /\ \A i, j \in 1 .. N : i < j => Before(Sorted(dirs)[i], Sorted(dirs)[j])
  BY OrderExists DEF Sorted
<1>4. \A i, j \in 1 .. N : Sorted(dirs)[i] = Sorted(dirs)[j] => i = j
  <2> SUFFICES ASSUME NEW i \in 1 .. N, NEW j \in 1 .. N, i # j
               PROVE  Sorted(dirs)[i] # Sorted(dirs)[j]
    OBVIOUS
  <2>1. Sorted(dirs)[i] \in Dir /\ Sorted(dirs)[j] \in Dir BY <1>3
  <2>2. i < j \/ j < i BY <1>2
  <2> QED BY <2>1, <2>2, <1>3, BeforeIsOrder
<1>5. IsFiniteSet(1 .. N) /\ Cardinality(1 .. N) = N
  <2>1. N \in Int /\ 1 \in Int BY <1>2
  <2>2. Cardinality(1 .. N) = IF 1 > N THEN 0 ELSE N - 1 + 1 BY <2>1, FS_Interval
  <2>3. IsFiniteSet(1 .. N) BY <2>1, FS_Interval
  <2> QED BY <2>2, <2>3, <1>2
<1>6. Sorted(dirs) \in Injection(1 .. N, dirs) BY <1>3, <1>4, Fun_IsInj
<1>7. Sorted(dirs) \in Surjection(1 .. N, dirs) BY <1>6, <1>5, <1>1, FS_Injection
<1>8. \A d \in dirs : \E i \in 1 .. N : Sorted(dirs)[i] = d BY <1>7 DEF Surjection
<1> QED BY <1>2, <1>3, <1>8

-----------------------------------------------------------------------------
(* The calls that are left.                                                 *)

(* The calls that nothing follows.                                          *)
Lasts == {"open", "openResume", "link", "linkSession", "load", "receive", "remember"}
Ops == Lasts \cup
    {"recover", "adopt", "place", "separate", "repair", "slot", "mark", "park",
     "moveIn", "create", "mergePending", "dropPending", "absorb", "forgetPrior",
     "copy", "clear", "publish", "linkPending", "wipe", "wipeKeys"}

(* The call p may come right after o.                                       *)
Leads(o, p) ==
    \/ o = "recover" /\ p = "adopt"
    \/ o = "adopt" /\ p \in {"adopt", "publish", "load"}
    \/ o \in {"place", "separate"} /\ p \in {"adopt", "load"}
    \/ o = "repair" /\ p \in {"separate", "publish"}
    \/ o \in {"slot", "mark"} /\ p \in {"slot", "place", "create", "separate", "publish"}
    \/ o = "park" /\ p \in {"place", "create"}
    \/ o = "moveIn" /\ p = "slot"
    \/ o = "create" /\ p = "linkSession"
    \/ o = "mergePending" /\ p = "dropPending"
    \/ o = "dropPending" /\ p = "absorb"
    \/ o = "absorb" /\ p = "forgetPrior"
    \/ o = "forgetPrior" /\ p \in {"adopt", "load", "linkSession"}
    \/ o = "copy" /\ p \in {"copy", "clear"}
    \/ o = "clear" /\ p \in {"forgetPrior", "mergePending"}
    \/ o = "publish" /\ p \in {"open", "openResume", "receive"}
    \/ o = "linkPending" /\ p = "repair"
    \/ o = "wipe" /\ p = "wipeKeys"
    \/ o = "wipeKeys" /\ p = "remember"

(* What comes after p depends on the call o before it.                      *)
Third(o, p, q) ==
    /\ p = "publish" => (o = "adopt" <=> q \in {"open", "openResume"})
    /\ p = "forgetPrior" => q \in {"adopt", "load"}
    /\ p = "adopt" => q = "publish"
    /\ o = "moveIn" => q \in {"place", "create"}
    /\ o = "linkPending" => q = "separate"

(* Calls in the order in which the worker makes them.                       *)
InOrder(t) ==
    /\ \A i \in 1 .. Len(t) - 1 : Leads(t[i].op, t[i + 1].op)
    /\ \A i \in 1 .. Len(t) - 1 : t[i].op = "copy" => t[i + 1].who = t[i].who
    /\ \A i \in 1 .. Len(t) - 2 : Third(t[i].op, t[i + 1].op, t[i + 2].op)

Calls ==
    {c \in [op : Ops, who : Owner \cup {"none"}, n : Nat] :
        /\ c.op \in {"copy", "slot", "moveIn"} => <<c.who, c.n>> \in Dir
        /\ c.op = "park" => c.who \in Owner
        /\ c.op \in {"absorb", "clear", "copy", "wipeKeys", "remember"} =>
               c.who \in Account}

Plan(t) ==
    /\ t \in Seq(Calls)
    /\ InOrder(t)
    /\ t # <<>> => t[Len(t)].op \in Lasts

(* The calls of c can stand before those of u.                              *)
Joins(c, u) ==
    /\ c \in Seq(Calls) /\ InOrder(c)
    /\ c # <<>> /\ u = <<>> => c[Len(c)].op \in Lasts
    /\ c # <<>> /\ u # <<>> =>
           /\ Leads(c[Len(c)].op, u[1].op)
           /\ c[Len(c)].op = "copy" => u[1].who = c[Len(c)].who
           /\ Len(u) > 1 => Third(c[Len(c)].op, u[1].op, u[2].op)
           /\ Len(c) > 1 => Third(c[Len(c) - 1].op, c[Len(c)].op, u[1].op)

(* The calls up to the i-th are all of these operations.                    *)
Until(t, i, ops) == \A j \in 1 .. i - 1 : t[j].op \in ops

(* A call that is near: only such operations are before it.                 *)
Near(t, i, ops) == i \in 1 .. Len(t) /\ Until(t, i, ops)

(* The elements of two sequences, one after the other.                      *)
LEMMA JoinedQueues ==
  ASSUME NEW X, NEW c \in Seq(X), NEW u \in Seq(X)
  PROVE  /\ c \o u \in Seq(X)
         /\ Len(c \o u) = Len(c) + Len(u)
         /\ Len(c) \in Nat /\ Len(u) \in Nat
         /\ \A i \in 1 .. Len(c) : (c \o u)[i] = c[i]
         /\ \A i \in 1 .. Len(u) : (c \o u)[Len(c) + i] = u[i]
<1>1. c \o u \in Seq(X) /\ Len(c \o u) = Len(c) + Len(u) OBVIOUS
<1>2. Len(u) \in Nat /\ Len(c) \in Nat OBVIOUS
<1>3. \A i \in 1 .. Len(c) + Len(u) :
         (c \o u)[i] = IF i <= Len(c) THEN c[i] ELSE u[i - Len(c)]
  OBVIOUS
<1> DEFINE n == Len(c)
           m == Len(u)
           w == c \o u
<1>4. n \in Nat /\ m \in Nat /\ \A i \in 1 .. n + m :
         w[i] = IF i <= n THEN c[i] ELSE u[i - n]
  BY <1>2, <1>3
<1> HIDE DEF n, m, w
<1>5. \A i \in 1 .. n : w[i] = c[i] BY <1>4
<1>6. ASSUME NEW i \in 1 .. m PROVE w[n + i] = u[i]
  <2>1. n + i \in 1 .. n + m /\ ~(n + i <= n) /\ n + i - n = i BY <1>4
  <2> QED BY <2>1, <1>4
<1> QED BY <1>1, <1>2, <1>5, <1>6 DEF n, m, w

(* Calls that join keep the order.                                          *)
LEMMA PrefixPlan ==
  ASSUME NEW u, Plan(u), NEW c, Joins(c, u)
  PROVE  Plan(c \o u)
<1> DEFINE w == c \o u
           n == Len(c)
           m == Len(u)
<1>1. u \in Seq(Calls) /\ c \in Seq(Calls) BY DEF Plan, Joins
<1>2. /\ w \in Seq(Calls) /\ Len(w) = n + m /\ n \in Nat /\ m \in Nat
      /\ \A i \in 1 .. n : w[i] = c[i]
      /\ \A i \in 1 .. m : w[n + i] = u[i]
  BY <1>1
<1>3. (c = <<>> <=> n = 0) /\ (u = <<>> <=> m = 0) BY <1>1
<1> HIDE DEF w, n, m
<1>4. ASSUME NEW i \in 1 .. Len(w) - 1
      PROVE  Leads(w[i].op, w[i + 1].op) /\ (w[i].op = "copy" => w[i + 1].who = w[i].who)
  <2>1. CASE i + 1 <= n
    <3>1. i \in 1 .. n - 1 /\ i \in 1 .. n /\ i + 1 \in 1 .. n BY <2>1, <1>2
    <3>2. w[i] = c[i] /\ w[i + 1] = c[i + 1] BY <3>1, <1>2
    <3> QED BY <3>1, <3>2 DEF Joins, InOrder, n
  <2>2. CASE i = n
    <3>1. n \in 1 .. n /\ 1 \in 1 .. m /\ m # 0 /\ n # 0 BY <2>2, <1>2
    <3>2. w[n] = c[n] /\ w[n + 1] = u[1] BY <3>1, <1>2
    <3> QED BY <3>1, <3>2, <2>2, <1>3 DEF Joins, n
  <2>3. CASE i > n
    <3> DEFINE j == i - n
    <3>1. j \in 1 .. m - 1 /\ j \in 1 .. m /\ j + 1 \in 1 .. m /\ i = n + j /\ i + 1 = n + (j + 1)
      BY <2>3, <1>2
    <3> HIDE DEF j
    <3>2. w[i] = u[j] /\ w[i + 1] = u[j + 1] BY <3>1, <1>2
    <3> QED BY <3>1, <3>2 DEF Plan, InOrder, m
  <2> QED BY <2>1, <2>2, <2>3, <1>2
<1>5. ASSUME NEW i \in 1 .. Len(w) - 2
      PROVE  Third(w[i].op, w[i + 1].op, w[i + 2].op)
  <2>1. CASE i + 2 <= n
    <3>1. i \in 1 .. n - 2 /\ i \in 1 .. n /\ i + 1 \in 1 .. n /\ i + 2 \in 1 .. n
      BY <2>1, <1>2
    <3>2. w[i] = c[i] /\ w[i + 1] = c[i + 1] /\ w[i + 2] = c[i + 2] BY <3>1, <1>2
    <3> QED BY <3>1, <3>2 DEF Joins, InOrder, n
  <2>2. CASE i + 1 = n
    <3>1. /\ n \in 1 .. n /\ n - 1 \in 1 .. n /\ 1 \in 1 .. m /\ n > 1 /\ m # 0 /\ n # 0
          /\ i = n - 1 /\ i + 1 = n /\ i + 2 = n + 1
      BY <2>2, <1>2
    <3>2. w[n - 1] = c[n - 1] /\ w[n] = c[n] /\ w[n + 1] = u[1] BY <3>1, <1>2
    <3>3. Third(c[n - 1].op, c[n].op, u[1].op) BY <3>1, <1>3 DEF Joins, n
    <3> QED BY <3>1, <3>2, <3>3
  <2>3. CASE i = n
    <3>1. n \in 1 .. n /\ 1 \in 1 .. m /\ 2 \in 1 .. m /\ m > 1 /\ n # 0 /\ m # 0
      BY <2>3, <1>2
    <3>2. w[n] = c[n] /\ w[n + 1] = u[1] /\ w[n + 2] = u[2] BY <3>1, <1>2
    <3>3. Third(c[n].op, u[1].op, u[2].op) BY <3>1, <1>3 DEF Joins, n, m
    <3> QED BY <3>2, <3>3, <2>3
  <2>4. CASE i > n
    <3> DEFINE j == i - n
    <3>1. /\ j \in 1 .. m - 2 /\ j \in 1 .. m /\ j + 1 \in 1 .. m /\ j + 2 \in 1 .. m
          /\ i = n + j /\ i + 1 = n + (j + 1) /\ i + 2 = n + (j + 2)
      BY <2>4, <1>2
    <3> HIDE DEF j
    <3>2. w[i] = u[j] /\ w[i + 1] = u[j + 1] /\ w[i + 2] = u[j + 2] BY <3>1, <1>2
    <3> QED BY <3>1, <3>2 DEF Plan, InOrder, m
  <2> QED BY <2>1, <2>2, <2>3, <2>4, <1>2
<1>6. w # <<>> => w[Len(w)].op \in Lasts
  <2> SUFFICES ASSUME w # <<>> PROVE w[Len(w)].op \in Lasts OBVIOUS
  <2>1. Len(w) # 0 BY <1>2
  <2>2. CASE m = 0
    <3>1. Len(w) = n /\ n \in 1 .. n /\ n # 0 BY <2>1, <2>2, <1>2
    <3>2. w[Len(w)] = c[n] BY <3>1, <1>2
    <3> QED BY <3>1, <3>2, <2>2, <1>3 DEF Joins, n
  <2>3. CASE m # 0
    <3>1. m \in 1 .. m BY <2>3, <1>2
    <3>2. w[Len(w)] = u[m] BY <3>1, <1>2
    <3> QED BY <3>2, <2>3, <1>3 DEF Plan, m
  <2> QED BY <2>2, <2>3
<1>7. Plan(w) BY <1>2, <1>4, <1>5, <1>6 DEF Plan, InOrder
<1> QED BY <1>7 DEF w

(* The order of what is left.                                               *)
LEMMA PopPlan ==
  ASSUME NEW t, Plan(t), t # <<>>
  PROVE  Plan(Tail(t))
<1> DEFINE w == Tail(t)
<1>1. t \in Seq(Calls) BY DEF Plan
<1>2. /\ w \in Seq(Calls) /\ Len(t) \in Nat \ {0} /\ Len(w) = Len(t) - 1
      /\ \A i \in 1 .. Len(t) - 1 : w[i] = t[i + 1]
  BY <1>1
<1>3. w = <<>> <=> Len(w) = 0 BY <1>2
<1> HIDE DEF w
<1>4. ASSUME NEW i \in 1 .. Len(w) - 1
      PROVE  Leads(w[i].op, w[i + 1].op) /\ (w[i].op = "copy" => w[i + 1].who = w[i].who)
  <2> DEFINE j == i + 1
  <2>1. j \in 1 .. Len(t) - 1 /\ i \in 1 .. Len(t) - 1 /\ i + 1 = j BY <1>2
  <2> HIDE DEF j
  <2>2. w[i] = t[j] /\ w[i + 1] = t[j + 1] BY <2>1, <1>2
  <2> QED BY <2>1, <2>2 DEF Plan, InOrder
<1>5. ASSUME NEW i \in 1 .. Len(w) - 2
      PROVE  Third(w[i].op, w[i + 1].op, w[i + 2].op)
  <2> DEFINE j == i + 1
  <2>1. j \in 1 .. Len(t) - 2 /\ i \in 1 .. Len(t) - 1 /\ j \in 1 .. Len(t) - 1
        /\ j + 1 \in 1 .. Len(t) - 1 /\ i + 1 = j /\ i + 2 = j + 1 /\ j + 2 = j + 1 + 1
    BY <1>2
  <2> HIDE DEF j
  <2>2. w[i] = t[j] /\ w[i + 1] = t[j + 1] /\ w[i + 2] = t[j + 2] BY <2>1, <1>2
  <2> QED BY <2>1, <2>2 DEF Plan, InOrder
<1>6. w # <<>> => w[Len(w)].op \in Lasts
  <2> SUFFICES ASSUME w # <<>> PROVE w[Len(w)].op \in Lasts OBVIOUS
  <2>1. Len(w) \in 1 .. Len(t) - 1 /\ Len(w) + 1 = Len(t) BY <1>2, <1>3
  <2>2. w[Len(w)] = t[Len(t)] BY <2>1, <1>2
  <2> QED BY <2>2 DEF Plan
<1>7. Plan(w) BY <1>2, <1>4, <1>5, <1>6 DEF Plan, InOrder
<1> QED BY <1>7 DEF w

(* What comes after the first call.                                         *)
LEMMA PlanHead ==
  ASSUME NEW t, Plan(t), t # <<>>
  PROVE  /\ Len(t) \in Nat \ {0} /\ t[1] \in Calls
         /\ t[1].op \notin Lasts => Len(t) > 1
         /\ Len(t) > 1 => t[2] \in Calls /\ Leads(t[1].op, t[2].op)
         /\ t[1].op \in Lasts => Len(t) = 1
         /\ Len(t) > 2 => Third(t[1].op, t[2].op, t[3].op) /\ t[3] \in Calls
                          /\ Leads(t[2].op, t[3].op)
         /\ Len(t) > 1 /\ t[1].op = "copy" => t[2].who = t[1].who
<1>1. t \in Seq(Calls) /\ Len(t) \in Nat \ {0} BY DEF Plan
<1>2. \A i \in 1 .. Len(t) : t[i] \in Calls BY <1>1
<1>3. Len(t) > 1 => 1 \in 1 .. Len(t) - 1 /\ 2 \in 1 .. Len(t) /\ 1 + 1 = 2 BY <1>1
<1>4. Len(t) > 2 => /\ 1 \in 1 .. Len(t) - 2 /\ 2 \in 1 .. Len(t) - 1 /\ 3 \in 1 .. Len(t)
                    /\ 1 + 1 = 2 /\ 1 + 2 = 3 /\ 2 + 1 = 3
  BY <1>1
<1>5. Len(t) > 1 => Leads(t[1].op, t[2].op) BY <1>3 DEF Plan, InOrder
<1>6. t[1].op \in Lasts => ~(Len(t) > 1) BY <1>5 DEF Leads, Lasts
<1>7. t[1].op \notin Lasts => Len(t) # 1 BY DEF Plan
<1>8. Len(t) > 2 => Third(t[1].op, t[2].op, t[3].op) BY <1>4 DEF Plan, InOrder
<1>9. Len(t) > 2 => Leads(t[2].op, t[3].op) BY <1>4 DEF Plan, InOrder
<1>10. Len(t) = 1 \/ Len(t) > 1
  <2>1. \A k \in Nat \ {0} : k = 1 \/ k > 1 OBVIOUS
  <2> QED BY <2>1, <1>1, Zenon
<1>11. t[1].op \notin Lasts => Len(t) > 1 BY <1>7, <1>10
<1>12. t[1].op \in Lasts => Len(t) = 1 BY <1>6, <1>10
<1>13. t[1] \in Calls /\ (Len(t) > 1 => t[2] \in Calls) /\ (Len(t) > 2 => t[3] \in Calls)
  BY <1>1, <1>2, <1>3, <1>4
<1>14. Len(t) > 1 /\ t[1].op = "copy" => t[2].who = t[1].who BY <1>3 DEF Plan, InOrder
<1> QED BY <1>1, <1>5, <1>8, <1>9, <1>14, <1>11, <1>12, <1>13

(* Calls put before others.                                                 *)
Join(c, u) == c \o u

(* A near call of the joined calls is near in one of the two.               *)
LEMMA NearJoined ==
  ASSUME NEW c \in Seq(Calls), NEW u \in Seq(Calls), NEW w, w = Join(c, u),
         NEW R, NEW i, Near(w, i, R)
  PROVE  \/ Near(c, i, R) /\ w[i] = c[i]
         \/ /\ \A j \in 1 .. Len(c) : c[j].op \in R
            /\ i - Len(c) \in Nat /\ Near(u, i - Len(c), R)
            /\ w[i] = u[i - Len(c)]
<1> DEFINE n == Len(c)
           m == Len(u)
<1>1. /\ Len(w) = n + m /\ n \in Nat /\ m \in Nat
      /\ \A k \in 1 .. n : w[k] = c[k]
      /\ \A k \in 1 .. m : w[n + k] = u[k]
  <2>1. w = c \o u BY DEF Join
  <2> HIDE DEF n, m
  <2>2. /\ Len(c \o u) = Len(c) + Len(u) /\ Len(c) \in Nat /\ Len(u) \in Nat
        /\ \A k \in 1 .. Len(c) : (c \o u)[k] = c[k]
        /\ \A k \in 1 .. Len(u) : (c \o u)[Len(c) + k] = u[k]
    OBVIOUS
  <2> QED BY <2>1, <2>2 DEF n, m
<1>2. i \in 1 .. Len(w) /\ Until(w, i, R) BY DEF Near
<1> HIDE DEF n, m
<1>3. CASE i <= n
  <2>1. i \in 1 .. n BY <1>1, <1>2, <1>3
  <2>2. Until(c, i, R)
    <3> SUFFICES ASSUME NEW j \in 1 .. i - 1 PROVE c[j].op \in R BY DEF Until
    <3>1. j \in 1 .. n BY <2>1, <1>1
    <3>2. w[j] = c[j] BY <3>1, <1>1
    <3> QED BY <3>2, <1>2 DEF Until
  <2> QED BY <2>1, <2>2, <1>1 DEF n, Near
<1>4. CASE i > n
  <2> DEFINE k == i - n
  <2>1. k \in 1 .. m /\ i = n + k /\ k \in Nat BY <1>1, <1>2, <1>4
  <2>2. w[i] = u[k] BY <2>1, <1>1
  <2>3. \A j \in 1 .. n : c[j].op \in R
    <3> SUFFICES ASSUME NEW j \in 1 .. n PROVE c[j].op \in R OBVIOUS
    <3>1. j \in 1 .. i - 1 BY <1>1, <1>4, <1>2
    <3> QED BY <3>1, <1>1, <1>2 DEF Until
  <2>4. Until(u, k, R)
    <3> SUFFICES ASSUME NEW j \in 1 .. k - 1 PROVE u[j].op \in R BY DEF Until
    <3>1. n + j \in 1 .. i - 1 /\ j \in 1 .. m BY <2>1, <1>1
    <3>2. w[n + j] = u[j] BY <3>1, <1>1
    <3> QED BY <3>1, <3>2, <1>2 DEF Until
  <2> QED BY <2>1, <2>2, <2>3, <2>4 DEF n, m, Near
<1>5. i <= n \/ i > n BY <1>1, <1>2
<1> QED BY <1>3, <1>4, <1>5, Zenon

(* A call that is near after the first was near before, if the first was    *)
(* such an operation.                                                       *)
LEMMA NearPopped ==
  ASSUME NEW t, Plan(t), t # <<>>, NEW R, NEW i, Near(Tail(t), i, R)
  PROVE  /\ i \in Nat /\ i + 1 \in 2 .. Len(t) /\ Tail(t)[i] = t[i + 1]
         /\ t[1].op \in R => Near(t, i + 1, R)
         /\ Len(t) > 1 /\ Leads(t[1].op, t[2].op)
         /\ i = 1 \/ t[2].op \in R
<1> DEFINE w == Tail(t)
<1>1. /\ Len(t) \in Nat \ {0} /\ Len(w) = Len(t) - 1
      /\ \A k \in 1 .. Len(t) - 1 : w[k] = t[k + 1]
  <2>1. t \in Seq(Calls) BY DEF Plan
  <2> QED BY <2>1
<1>2. i \in 1 .. Len(w) /\ Until(w, i, R) BY DEF Near
<1> HIDE DEF w
<1>3. i \in Nat /\ i + 1 \in 2 .. Len(t) /\ w[i] = t[i + 1] BY <1>1, <1>2
<1>4. ASSUME t[1].op \in R PROVE Near(t, i + 1, R)
  <2>1. ASSUME NEW j \in 1 .. (i + 1) - 1 PROVE t[j].op \in R
    <3>1. CASE j = 1 BY <3>1, <1>4
    <3>2. CASE j # 1
      <4>1. j - 1 \in 1 .. i - 1 /\ j - 1 \in 1 .. Len(t) - 1 /\ (j - 1) + 1 = j
        BY <3>2, <1>1, <1>2
      <4>2. w[j - 1] = t[j] BY <4>1, <1>1
      <4> QED BY <4>1, <4>2, <1>2 DEF Until
    <3> QED BY <3>1, <3>2
  <2>2. i + 1 \in 1 .. Len(t) BY <1>3
  <2> QED BY <2>1, <2>2 DEF Near, Until
<1>5. Len(t) > 1 BY <1>3, <1>1
<1>6. Leads(t[1].op, t[2].op) BY <1>5, PlanHead
<1>7. i = 1 \/ t[2].op \in R
  <2> SUFFICES ASSUME i # 1 PROVE t[2].op \in R OBVIOUS
  <2>1. 1 \in 1 .. i - 1 /\ 1 \in 1 .. Len(t) - 1 /\ 1 + 1 = 2 BY <1>1, <1>2
  <2>2. w[1] = t[2] BY <2>1, <1>1
  <2> QED BY <2>1, <2>2, <1>2 DEF Until
<1> QED BY <1>3, <1>4, <1>5, <1>6, <1>7 DEF w

(* What is left after the first call, and its first calls.                  *)
LEMMA TailCalls ==
  ASSUME NEW t, Plan(t), t # <<>>
  PROVE  /\ Plan(Tail(t)) /\ t[1] \in Calls
         /\ Tail(t) = <<>> <=> t[1].op \in Lasts
         /\ Tail(t) # <<>> =>
               /\ Tail(t)[1] = t[2] /\ t[2] \in Calls /\ Leads(t[1].op, t[2].op)
               /\ t[1].op = "copy" => t[2].who = t[1].who
         /\ Len(Tail(t)) > 1 =>
               /\ Tail(t)[2] = t[3] /\ t[3] \in Calls
               /\ Third(t[1].op, t[2].op, t[3].op)
               /\ Leads(t[2].op, t[3].op)
<1> DEFINE u == Tail(t)
<1>1. /\ u \in Seq(Calls) /\ Len(t) \in Nat \ {0} /\ Len(u) = Len(t) - 1
      /\ \A i \in 1 .. Len(t) - 1 : u[i] = t[i + 1]
  <2>1. t \in Seq(Calls) BY DEF Plan
  <2> QED BY <2>1
<1>2. u = <<>> <=> Len(u) = 0 BY <1>1
<1>3. Plan(u) BY PopPlan
<1> HIDE DEF u
<1>4. u # <<>> => Len(t) > 1 /\ u[1] = t[2]
  <2> SUFFICES ASSUME u # <<>> PROVE Len(t) > 1 /\ u[1] = t[2] OBVIOUS
  <2>1. Len(t) > 1 /\ 1 \in 1 .. Len(t) - 1 /\ 1 + 1 = 2 BY <1>1, <1>2
  <2> QED BY <2>1, <1>1
<1>5. Len(u) > 1 => Len(t) > 2 /\ u[2] = t[3]
  <2> SUFFICES ASSUME Len(u) > 1 PROVE Len(t) > 2 /\ u[2] = t[3] OBVIOUS
  <2>1. Len(t) > 2 /\ 2 \in 1 .. Len(t) - 1 /\ 2 + 1 = 3 BY <1>1
  <2> QED BY <2>1, <1>1
<1>6. u = <<>> <=> ~(Len(t) > 1) BY <1>1, <1>2
<1>7. t[1].op \in Lasts => ~(Len(t) > 1) BY PlanHead
<1>8. u = <<>> <=> t[1].op \in Lasts BY <1>6, <1>7, PlanHead
<1>9. t[1] \in Calls BY PlanHead
<1>10. u # <<>> => /\ u[1] = t[2] /\ t[2] \in Calls /\ Leads(t[1].op, t[2].op)
                   /\ t[1].op = "copy" => t[2].who = t[1].who
  BY <1>4, PlanHead
<1>11. Len(u) > 1 => /\ u[2] = t[3] /\ t[3] \in Calls
                     /\ Third(t[1].op, t[2].op, t[3].op)
                     /\ Leads(t[2].op, t[3].op)
  BY <1>5, PlanHead
<1> QED BY <1>3, <1>8, <1>9, <1>10, <1>11 DEF u

(* A call goes before the others.                                              *)
LEMMA PutOne ==
  ASSUME NEW u, Plan(u), NEW a \in Calls, a.op # "copy",
         u = <<>> => a.op \in Lasts,
         u # <<>> => Leads(a.op, u[1].op),
         Len(u) > 1 => Third(a.op, u[1].op, u[2].op)
  PROVE  Plan(<<a>> \o u)
<1> DEFINE c == <<a>>
<1>1. c \in Seq(Calls) /\ Len(c) = 1 /\ c[1] = a /\ c # <<>> OBVIOUS
<1> HIDE DEF c
<1>2. InOrder(c) BY <1>1 DEF InOrder
<1>3. Joins(c, u) BY <1>1, <1>2 DEF Joins
<1>4. Plan(c \o u) BY <1>3, PrefixPlan
<1> QED BY <1>4 DEF c

(* Two calls go before others.                                              *)
LEMMA PutTwo ==
  ASSUME NEW u, Plan(u), NEW a \in Calls, NEW b \in Calls,
         a.op # "copy", b.op # "copy", Leads(a.op, b.op),
         u = <<>> => b.op \in Lasts,
         u # <<>> => Leads(b.op, u[1].op) /\ Third(a.op, b.op, u[1].op),
         Len(u) > 1 => Third(b.op, u[1].op, u[2].op)
  PROVE  Plan(<<a, b>> \o u)
<1> DEFINE c == <<a, b>>
<1>1. c \in Seq(Calls) /\ Len(c) = 2 /\ c[1] = a /\ c[2] = b /\ c # <<>> OBVIOUS
<1> HIDE DEF c
<1>2. InOrder(c)
  <2>1. \A i \in 1 .. Len(c) - 1 : i = 1 /\ c[i] = a /\ c[i + 1] = b BY <1>1
  <2>2. 1 .. Len(c) - 2 = {} BY <1>1
  <2> QED BY <2>1, <2>2 DEF InOrder
<1>3. c[Len(c)] = b /\ c[Len(c) - 1] = a BY <1>1
<1>4. Joins(c, u) BY <1>1, <1>2, <1>3 DEF Joins
<1>5. Plan(c \o u) BY <1>4, PrefixPlan
<1> QED BY <1>5 DEF c

(* Three calls go before others.                                            *)
LEMMA PutThree ==
  ASSUME NEW u, Plan(u), NEW a \in Calls, NEW b \in Calls, NEW d \in Calls,
         a.op # "copy", b.op # "copy", d.op # "copy",
         Leads(a.op, b.op), Leads(b.op, d.op), Third(a.op, b.op, d.op),
         u = <<>> => d.op \in Lasts,
         u # <<>> => Leads(d.op, u[1].op) /\ Third(b.op, d.op, u[1].op),
         Len(u) > 1 => Third(d.op, u[1].op, u[2].op)
  PROVE  Plan(<<a, b, d>> \o u)
<1> DEFINE c == <<a, b, d>>
<1>1. c \in Seq(Calls) /\ Len(c) = 3 /\ c[1] = a /\ c[2] = b /\ c[3] = d /\ c # <<>> OBVIOUS
<1> HIDE DEF c
<1>2. InOrder(c)
  <2>1. \A i \in 1 .. Len(c) - 1 : \/ i = 1 /\ c[i] = a /\ c[i + 1] = b
                                   \/ i = 2 /\ c[i] = b /\ c[i + 1] = d
    BY <1>1
  <2>2. \A i \in 1 .. Len(c) - 2 : i = 1 /\ c[i] = a /\ c[i + 1] = b /\ c[i + 2] = d
    BY <1>1
  <2> QED BY <2>1, <2>2 DEF InOrder
<1>3. c[Len(c)] = d /\ c[Len(c) - 1] = b BY <1>1
<1>4. Joins(c, u) BY <1>1, <1>2, <1>3 DEF Joins
<1>5. Plan(c \o u) BY <1>4, PrefixPlan
<1> QED BY <1>5 DEF c

(* Four calls go before others.                                             *)
LEMMA PutFour ==
  ASSUME NEW u, Plan(u), NEW a \in Calls, NEW b \in Calls, NEW d \in Calls, NEW e \in Calls,
         a.op # "copy", b.op # "copy", d.op # "copy", e.op # "copy",
         Leads(a.op, b.op), Leads(b.op, d.op), Leads(d.op, e.op),
         Third(a.op, b.op, d.op), Third(b.op, d.op, e.op),
         u = <<>> => e.op \in Lasts,
         u # <<>> => Leads(e.op, u[1].op) /\ Third(d.op, e.op, u[1].op),
         Len(u) > 1 => Third(e.op, u[1].op, u[2].op)
  PROVE  Plan(<<a, b, d, e>> \o u)
<1> DEFINE c == <<a, b, d, e>>
<1>1. /\ c \in Seq(Calls) /\ Len(c) = 4 /\ c # <<>>
      /\ c[1] = a /\ c[2] = b /\ c[3] = d /\ c[4] = e
  OBVIOUS
<1> HIDE DEF c
<1>2. InOrder(c)
  <2>1. \A i \in 1 .. Len(c) - 1 : \/ i = 1 /\ c[i] = a /\ c[i + 1] = b
                                   \/ i = 2 /\ c[i] = b /\ c[i + 1] = d
                                   \/ i = 3 /\ c[i] = d /\ c[i + 1] = e
    BY <1>1
  <2>2. \A i \in 1 .. Len(c) - 2 :
            \/ i = 1 /\ c[i] = a /\ c[i + 1] = b /\ c[i + 2] = d
            \/ i = 2 /\ c[i] = b /\ c[i + 1] = d /\ c[i + 2] = e
    BY <1>1
  <2> QED BY <2>1, <2>2 DEF InOrder
<1>3. c[Len(c)] = e /\ c[Len(c) - 1] = d BY <1>1
<1>4. Joins(c, u) BY <1>1, <1>2, <1>3 DEF Joins
<1>5. Plan(c \o u) BY <1>4, PrefixPlan
<1> QED BY <1>5 DEF c

(* The calls of the code are calls.                                         *)
LEMMA TheCalls ==
  /\ \A o \in Ops \ {"copy", "slot", "moveIn", "park", "absorb", "clear",
                     "wipeKeys", "remember"} :
        Do(o) \in Calls /\ Do(o).op = o
  /\ \A o \in {"absorb", "clear", "wipeKeys", "remember"}, a \in Account :
        DoFor(o, a) \in Calls /\ DoFor(o, a).op = o /\ DoFor(o, a).who = a
  /\ \A a \in Owner : DoFor("park", a) \in Calls /\ DoFor("park", a).op = "park"
                      /\ DoFor("park", a).who = a
  /\ \A n \in Nat : Call("mark", "none", n) \in Calls
                    /\ Call("mark", "none", n).op = "mark" /\ Call("mark", "none", n).n = n
  /\ \A o \in {"slot", "moveIn"}, d \in Dir :
        /\ Call(o, d[1], d[2]) \in Calls /\ Call(o, d[1], d[2]).op = o
        /\ Call(o, d[1], d[2]).who = d[1] /\ Call(o, d[1], d[2]).n = d[2]
  /\ \A d \in Dir : d[1] \in Account =>
        /\ Call("copy", d[1], d[2]) \in Calls /\ Call("copy", d[1], d[2]).op = "copy"
        /\ Call("copy", d[1], d[2]).who = d[1] /\ Call("copy", d[1], d[2]).n = d[2]
<1>1. \A d \in Dir : d[1] \in Owner /\ d[2] \in Nat /\ <<d[1], d[2]>> = d
  BY DEF Dir
<1>2. Account \subseteq Owner BY DEF Owner
<1>3. \A o \in Ops \ {"copy", "slot", "moveIn", "park", "absorb", "clear",
                     "wipeKeys", "remember"} :
        Do(o) \in Calls /\ Do(o).op = o
  BY DEF Do, Call, Calls
<1>4. \A o \in {"absorb", "clear", "wipeKeys", "remember"}, a \in Account :
        DoFor(o, a) \in Calls /\ DoFor(o, a).op = o /\ DoFor(o, a).who = a
  BY <1>2 DEF DoFor, Call, Calls, Ops, Lasts
<1>5. \A a \in Owner : DoFor("park", a) \in Calls /\ DoFor("park", a).op = "park"
                       /\ DoFor("park", a).who = a
  BY DEF DoFor, Call, Calls, Ops, Lasts
<1>6. \A n \in Nat : Call("mark", "none", n) \in Calls
                     /\ Call("mark", "none", n).op = "mark" /\ Call("mark", "none", n).n = n
  BY DEF Call, Calls, Ops, Lasts
<1>7. \A o \in {"slot", "moveIn"}, d \in Dir :
        /\ Call(o, d[1], d[2]) \in Calls /\ Call(o, d[1], d[2]).op = o
        /\ Call(o, d[1], d[2]).who = d[1] /\ Call(o, d[1], d[2]).n = d[2]
  BY <1>1 DEF Call, Calls, Ops, Lasts
<1>8. \A d \in Dir : d[1] \in Account =>
        /\ Call("copy", d[1], d[2]) \in Calls /\ Call("copy", d[1], d[2]).op = "copy"
        /\ Call("copy", d[1], d[2]).who = d[1] /\ Call("copy", d[1], d[2]).n = d[2]
  BY <1>1 DEF Call, Calls, Ops, Lasts
<1> QED BY <1>3, <1>4, <1>5, <1>6, <1>7, <1>8

(* CallEach makes one call for each directory.                              *)
LEMMA EachCall ==
  ASSUME NEW o, NEW D, D \subseteq Dir
  PROVE  /\ Len(CallEach(o, D)) \in Nat
         /\ DOMAIN CallEach(o, D) = 1 .. Len(CallEach(o, D))
         /\ Len(CallEach(o, D)) = 0 <=> D = {}
         /\ \A i \in 1 .. Len(CallEach(o, D)) :
               \E d \in D : CallEach(o, D)[i] = Call(o, d[1], d[2])
         /\ \A d \in D : \E i \in 1 .. Len(CallEach(o, D)) :
               CallEach(o, D)[i] = Call(o, d[1], d[2])
<1> DEFINE N == Cardinality(D)
           c == CallEach(o, D)
<1>1. /\ N \in Nat /\ (N = 0 <=> D = {})
      /\ Sorted(D) \in [1 .. N -> D]
      /\ \A d \in D : \E i \in 1 .. N : Sorted(D)[i] = d
  BY SortedDirs
<1>2. /\ DOMAIN c = 1 .. N
      /\ \A i \in 1 .. N : c[i] = Call(o, Sorted(D)[i][1], Sorted(D)[i][2])
      /\ c \in Seq({Call(o, d[1], d[2]) : d \in D})
  BY <1>1 DEF CallEach
<1>3. Len(c) = N BY <1>1, <1>2
<1>4. \A i \in 1 .. N : \E d \in D : c[i] = Call(o, d[1], d[2]) BY <1>1, <1>2
<1>5. \A d \in D : \E i \in 1 .. N : c[i] = Call(o, d[1], d[2]) BY <1>1, <1>2
<1> HIDE DEF N, c
<1> QED BY <1>1, <1>2, <1>3, <1>4, <1>5 DEF c

(* Copies of an account before they are cleared.                            *)
LEMMA PutCopies ==
  ASSUME NEW u, Plan(u), u # <<>>, NEW a \in Account,
         u[1].op = "clear", u[1].who = a,
         NEW D, D \subseteq Dir, \A d \in D : d[1] = a
  PROVE  Plan(CallEach("copy", D) \o u)
<1> DEFINE c == CallEach("copy", D)
           n == Len(c)
<1>1. /\ n \in Nat /\ DOMAIN c = 1 .. n
      /\ \A i \in 1 .. n : c[i] \in Calls /\ c[i].op = "copy" /\ c[i].who = a
  <2>1. /\ Len(c) \in Nat /\ DOMAIN c = 1 .. Len(c)
        /\ \A i \in 1 .. Len(c) : \E d \in D : c[i] = Call("copy", d[1], d[2])
    BY EachCall
  <2>2. \A d \in D : /\ Call("copy", d[1], d[2]) \in Calls
                     /\ Call("copy", d[1], d[2]).op = "copy"
                     /\ Call("copy", d[1], d[2]).who = a
    BY TheCalls
  <2> HIDE DEF c
  <2> QED BY <2>1, <2>2
<1>2. c = [i \in 1 .. n |-> c[i]]
  <2>1. c = [i \in DOMAIN c |-> c[i]] BY DEF CallEach
  <2> HIDE DEF c
  <2> QED BY <2>1, <1>1
<1>3. u \in Seq(Calls) /\ Len(u) \in Nat BY DEF Plan
<1> HIDE DEF c, n
<1>4. c \in Seq(Calls) BY <1>1, <1>2
<1>5. InOrder(c)
  <2>1. \A i \in 1 .. n - 1 : i \in 1 .. n /\ i + 1 \in 1 .. n BY <1>1
  <2>2. \A i \in 1 .. n - 2 : i \in 1 .. n /\ i + 1 \in 1 .. n /\ i + 2 \in 1 .. n BY <1>1
  <2> QED BY <2>1, <2>2, <1>1 DEF InOrder, Leads, Third, n
<1>6. c # <<>> => n \in 1 .. n BY <1>4, <1>1 DEF n
<1>7. n > 1 => n - 1 \in 1 .. n BY <1>1
<1>8. Len(u) > 1 => u[2] \in Calls /\ Leads("clear", u[2].op)
  <2>1. 1 \in 1 .. Len(u) - 1 /\ 1 + 1 = 2 /\ 2 \in 1 .. Len(u) <=> Len(u) > 1 BY <1>3
  <2> QED BY <2>1, <1>3 DEF Plan, InOrder
<1>9. Joins(c, u) BY <1>1, <1>4, <1>5, <1>6, <1>7, <1>8 DEF Joins, Leads, Third, n
<1>10. Plan(c \o u) BY <1>9, PrefixPlan
<1> QED BY <1>10 DEF c

(* Slots that a repair writes.                                              *)
LEMMA PutSlots ==
  ASSUME NEW u, Plan(u), u # <<>>, u[1].op \in {"separate", "publish"},
         Len(u) > 1 => Third("repair", u[1].op, u[2].op),
         NEW D, D \subseteq Dir
  PROVE  Plan(CallEach("slot", D) \o u)
<1> DEFINE c == CallEach("slot", D)
           n == Len(c)
<1>1. /\ n \in Nat /\ DOMAIN c = 1 .. n
      /\ \A i \in 1 .. n : c[i] \in Calls /\ c[i].op = "slot"
  <2>1. /\ Len(c) \in Nat /\ DOMAIN c = 1 .. Len(c)
        /\ \A i \in 1 .. Len(c) : \E d \in D : c[i] = Call("slot", d[1], d[2])
    BY EachCall
  <2>2. \A d \in D : Call("slot", d[1], d[2]) \in Calls /\ Call("slot", d[1], d[2]).op = "slot"
    BY TheCalls
  <2> HIDE DEF c
  <2> QED BY <2>1, <2>2
<1>2. c = [i \in 1 .. n |-> c[i]]
  <2>1. c = [i \in DOMAIN c |-> c[i]] BY DEF CallEach
  <2> HIDE DEF c
  <2> QED BY <2>1, <1>1
<1> HIDE DEF c, n
<1>3. c \in Seq(Calls) BY <1>1, <1>2
<1>4. InOrder(c)
  <2>1. \A i \in 1 .. n - 1 : i \in 1 .. n /\ i + 1 \in 1 .. n BY <1>1
  <2>2. \A i \in 1 .. n - 2 : i \in 1 .. n /\ i + 1 \in 1 .. n /\ i + 2 \in 1 .. n BY <1>1
  <2> QED BY <2>1, <2>2, <1>1 DEF InOrder, Leads, Third, n
<1>5. c # <<>> => n \in 1 .. n BY <1>3, <1>1 DEF n
<1>6. n > 1 => n - 1 \in 1 .. n BY <1>1
<1>7. Len(u) > 1 => Third("slot", u[1].op, u[2].op) BY DEF Third
<1>8. Joins(c, u) BY <1>1, <1>3, <1>4, <1>5, <1>6, <1>7 DEF Joins, Leads, Third, n
<1>9. Plan(c \o u) BY <1>8, PrefixPlan
<1> QED BY <1>9 DEF c

(* A failed write of a slot drops the slots and marks that were to follow.  *)
SlotOps == {"slot", "mark"}
AfterSlots(t, u) ==
    \E k \in 2 .. Len(t) :
        /\ u = SubSeq(t, k, Len(t))
        /\ t[k].op \notin SlotOps
        /\ \A j \in 1 .. k - 1 : t[j].op \in SlotOps

(* A failure of the slots goes on after them.                               *)
LEMMA FirstOther ==
  ASSUME NEW t, Plan(t), t # <<>>, t[1].op \in SlotOps
  PROVE  LET rest == {i \in 1 .. Len(t) : t[i].op \notin SlotOps}
             first == CHOOSE i \in rest : \A j \in rest : i <= j
         IN  AfterSlots(t, SubSeq(t, first, Len(t)))
<1> DEFINE rest == {i \in 1 .. Len(t) : t[i].op \notin SlotOps}
           first == CHOOSE i \in rest : \A j \in rest : i <= j
<1>1. Len(t) \in Nat \ {0} /\ t[Len(t)].op \in Lasts BY DEF Plan
<1>2. Len(t) \in rest BY <1>1 DEF Lasts, SlotOps
<1>3. rest \subseteq Nat /\ rest # {} BY <1>2, <1>1
<1>4. \E i \in rest : \A j \in rest : i <= j
  <2> HIDE DEF rest
  <2> QED BY <1>3, Least
<1>5. first \in rest /\ \A j \in rest : first <= j BY <1>4
<1> DEFINE k == first
<1>6. k \in 1 .. Len(t) /\ t[k].op \notin SlotOps
      /\ \A j \in 1 .. Len(t) : t[j].op \notin SlotOps => k <= j
  BY <1>5
<1> HIDE DEF k, first
<1>7. k # 1 BY <1>6
<1>8. k \in 2 .. Len(t) BY <1>6, <1>7, <1>1
<1>9. \A j \in 1 .. k - 1 : t[j].op \in SlotOps
  <2> SUFFICES ASSUME NEW j \in 1 .. k - 1 PROVE t[j].op \in SlotOps OBVIOUS
  <2>1. j \in 1 .. Len(t) /\ ~(k <= j) BY <1>6, <1>1
  <2> QED BY <2>1, <1>6
<1>10. AfterSlots(t, SubSeq(t, k, Len(t))) BY <1>6, <1>8, <1>9 DEF AfterSlots
<1> QED BY <1>10 DEF k, first

(* What comes after the slots keeps the order.                              *)
LEMMA AfterSlotsPlan ==
  ASSUME NEW t, Plan(t), t # <<>>, NEW u, AfterSlots(t, u)
  PROVE  /\ Plan(u) /\ u # <<>>
         /\ u[1].op \in {"place", "create", "separate", "publish"}
         /\ \E k \in 2 .. Len(t) :
               /\ Len(u) = Len(t) - k + 1
               /\ \A i \in 1 .. Len(u) : u[i] = t[i + k - 1]
               /\ \A j \in 1 .. k - 1 : t[j].op \in SlotOps
<1>1. PICK k \in 2 .. Len(t) :
          /\ u = SubSeq(t, k, Len(t))
          /\ t[k].op \notin SlotOps
          /\ \A j \in 1 .. k - 1 : t[j].op \in SlotOps
  BY DEF AfterSlots
<1>2. t \in Seq(Calls) /\ Len(t) \in Nat \ {0} BY DEF Plan
<1> DEFINE n == Len(t)
           m == Len(u)
<1>3. u \in Seq(Calls) /\ m = n - k + 1 /\ m \in Nat \ {0}
  <2>1. /\ SubSeq(t, k, Len(t)) \in Seq(Calls)
        /\ Len(SubSeq(t, k, Len(t))) = Len(t) - k + 1
    BY <1>2, <1>1
  <2> QED BY <2>1, <1>1, <1>2
<1>4. \A i \in 1 .. m : u[i] = t[i + k - 1]
  <2>1. \A i \in 1 .. Len(t) - k + 1 : SubSeq(t, k, Len(t))[i] = t[k + i - 1]
    BY <1>2, <1>1
  <2> SUFFICES ASSUME NEW i \in 1 .. m PROVE u[i] = t[i + k - 1] OBVIOUS
  <2>2. k + i - 1 = i + k - 1 BY <1>1, <1>2, <1>3
  <2> QED BY <2>1, <2>2, <1>1, <1>3
<1>5. u # <<>> BY <1>3
<1>6. n \in Nat /\ k \in 2 .. n /\ (m = n - k + 1) BY <1>1, <1>2, <1>3
<1> HIDE DEF n, m
<1>7. ASSUME NEW i \in 1 .. m - 1
      PROVE  Leads(u[i].op, u[i + 1].op) /\ (u[i].op = "copy" => u[i + 1].who = u[i].who)
  <2> DEFINE j == i + k - 1
  <2>1. j \in 1 .. n - 1 /\ i \in 1 .. m /\ i + 1 \in 1 .. m /\ i + 1 + k - 1 = j + 1 BY <1>6
  <2>2. u[i] = t[j] /\ u[i + 1] = t[j + 1] BY <2>1, <1>4
  <2> HIDE DEF j
  <2> QED BY <2>1, <2>2 DEF Plan, InOrder, n
<1>8. ASSUME NEW i \in 1 .. m - 2
      PROVE  Third(u[i].op, u[i + 1].op, u[i + 2].op)
  <2> DEFINE j == i + k - 1
  <2>1. j \in 1 .. n - 2 /\ i \in 1 .. m /\ i + 1 \in 1 .. m /\ i + 2 \in 1 .. m
        /\ i + 1 + k - 1 = j + 1 /\ i + 2 + k - 1 = j + 2
    BY <1>6
  <2>2. u[i] = t[j] /\ u[i + 1] = t[j + 1] /\ u[i + 2] = t[j + 2] BY <2>1, <1>4
  <2> HIDE DEF j
  <2> QED BY <2>1, <2>2 DEF Plan, InOrder, n
<1>9. u[m].op \in Lasts
  <2>1. m \in 1 .. m /\ m + k - 1 = n BY <1>6, <1>3
  <2>2. u[m] = t[n] BY <2>1, <1>4
  <2>3. t # <<>> => t[n].op \in Lasts BY DEF Plan, n
  <2> QED BY <2>2, <2>3
<1>10. Plan(u) BY <1>3, <1>7, <1>8, <1>9 DEF Plan, InOrder, m
<1>11. u[1].op \in {"place", "create", "separate", "publish"}
  <2>1. 1 \in 1 .. m /\ 1 + k - 1 = k BY <1>6, <1>3
  <2>2. u[1] = t[k] BY <2>1, <1>4
  <2>3. k - 1 \in 1 .. n - 1 /\ k - 1 \in 1 .. k - 1 /\ (k - 1) + 1 = k BY <1>6
  <2>4. Leads(t[k - 1].op, t[k].op) BY <2>3 DEF Plan, InOrder, n
  <2>5. t[k - 1].op \in SlotOps BY <2>3, <1>1
  <2> QED BY <2>2, <2>4, <2>5, <1>1 DEF Leads, SlotOps
<1> QED BY <1>1, <1>3, <1>4, <1>5, <1>10, <1>11 DEF n, m

(* No calls are in order.                                                   *)
LEMMA EmptyPlan == Plan(<<>>)
<1>1. Len(<<>>) = 0 /\ <<>> \in Seq(Calls) OBVIOUS
<1>2. 1 .. Len(<<>>) - 1 = {} /\ 1 .. Len(<<>>) - 2 = {} BY <1>1
<1> QED BY <1>1, <1>2 DEF Plan, InOrder

(* One call and one more.                                                   *)
LEMMA TwoJoined ==
  ASSUME NEW X, NEW a \in X, NEW b \in X
  PROVE  <<a>> \o <<b>> = <<a, b>>
<1> DEFINE c == <<a>> \o <<b>>
<1>1. <<a>> \in Seq(X) /\ Len(<<a>>) = 1 /\ <<a>>[1] = a OBVIOUS
<1>2. <<b>> \in Seq(X) /\ Len(<<b>>) = 1 /\ <<b>>[1] = b OBVIOUS
<1>3. /\ c \in Seq(X) /\ Len(c) = 2
      /\ \A i \in 1 .. 2 : c[i] = IF i <= 1 THEN <<a>>[i] ELSE <<b>>[i - 1]
  BY <1>1, <1>2
<1>4. c[1] = a /\ c[2] = b BY <1>1, <1>2, <1>3
<1> HIDE DEF c
<1>5. c = <<a, b>> BY <1>3, <1>4
<1> QED BY <1>5 DEF c

(* The next slot is a number above those that are given.                    *)
LEMMA SlotIsNumber ==
  ASSUME RelinkTypeOK
  PROVE  /\ NextSlot \in Nat \ {0} /\ mark <= NextSlot
         /\ \A d \in Stores : retained[d].slot < NextSlot
<1>1. retained \in [Dir -> [made : BOOLEAN, store : StoreFile, slot : Nat]] /\ mark \in Nat
  BY DEF RelinkTypeOK
<1> DEFINE T == {1, mark} \cup {retained[d].slot + 1 : d \in Stores}
           f == [d \in Dir |-> retained[d].slot]
<1>2. \A d \in Dir : retained[d].slot \in Nat BY <1>1
<1>3. f \in [Dir -> Nat] BY <1>2
<1>4. PICK k \in Nat : \A d \in Dir : f[d] <= k
  <2> HIDE DEF f
  <2> QED BY <1>3, DirsAreFinite, FiniteBounded
<1>5. \A d \in Stores : d \in Dir BY DEF Stores
<1>6. \A d \in Stores : retained[d].slot + 1 \in Nat /\ retained[d].slot + 1 <= k + 1
  <2> SUFFICES ASSUME NEW d \in Stores
               PROVE  retained[d].slot + 1 \in Nat /\ retained[d].slot + 1 <= k + 1
    OBVIOUS
  <2>1. retained[d].slot \in Nat /\ f[d] = retained[d].slot /\ f[d] <= k
    BY <1>2, <1>4, <1>5
  <2> HIDE DEF f
  <2> QED BY <2>1
<1>7. T \subseteq Nat /\ T # {} BY <1>1, <1>6
<1>8. \E b \in Nat : \A x \in T : x <= b
  <2>1. CASE mark <= k + 1
    <3>1. \A x \in T : x <= k + 1 BY <2>1, <1>6, <1>4
    <3>2. k + 1 \in Nat BY <1>4
    <3> QED BY <3>1, <3>2
  <2>2. CASE ~(mark <= k + 1)
    <3>1. \A x \in T : x <= mark BY <2>2, <1>6, <1>1
    <3> QED BY <3>1, <1>1
  <2> QED BY <2>1, <2>2
<1>9. \E x \in T : \A y \in T : y <= x
  <2> HIDE DEF T
  <2> QED BY <1>7, <1>8, Greatest
<1>10. NextSlot \in T /\ \A y \in T : y <= NextSlot BY <1>9 DEF NextSlot, Largest
<1>11. 1 <= NextSlot /\ mark <= NextSlot /\ NextSlot \in Nat BY <1>10, <1>7
<1>12. \A d \in Stores : retained[d].slot < NextSlot
  <2> SUFFICES ASSUME NEW d \in Stores PROVE retained[d].slot < NextSlot OBVIOUS
  <2>1. retained[d].slot + 1 <= NextSlot BY <1>10
  <2>2. retained[d].slot \in Nat BY <1>2, <1>5
  <2> QED BY <2>1, <2>2, <1>11
<1> QED BY <1>11, <1>12

(* The newest of some stores is one of them.                                *)
LEMMA NewestIsOne ==
  ASSUME RelinkTypeOK, NEW D, D \subseteq Stores, D # {}
  PROVE  Newest(D) \in D
<1> DEFINE f == [d \in D |-> retained[d].slot]
<1>1. D \subseteq Dir BY DEF Stores
<1>2. f \in [D -> Nat] BY <1>1 DEF RelinkTypeOK
<1>3. PICK d \in D : \A e \in D : f[e] < f[d] \/ (f[e] = f[d] /\ e[2] <= d[2])
  <2> HIDE DEF f
  <2> QED BY <1>1, <1>2, LastDir
<1>4. \A e \in D : f[e] = retained[e].slot OBVIOUS
<1>5. \E x \in D : \A e \in D :
          \/ retained[e].slot < retained[x].slot
          \/ retained[e].slot = retained[x].slot /\ e[2] <= x[2]
  <2> HIDE DEF f
  <2> QED BY <1>3, <1>4
<1> QED BY <1>5 DEF Newest

(* The directory that a park makes.                                         *)
LEMMA ParkDir ==
  ASSUME NEW a \in Owner, Unused(a) # {}
  PROVE  LET n == CHOOSE i \in Unused(a) : \A j \in Unused(a) : i <= j
         IN  n \in 1 .. MaxDir /\ <<a, n>> \in Dir /\ ~retained[<<a, n>>].made
<1> DEFINE n == CHOOSE i \in Unused(a) : \A j \in Unused(a) : i <= j
<1>1. Unused(a) \subseteq Nat BY DEF Unused
<1>2. \E i \in Unused(a) : \A j \in Unused(a) : i <= j BY <1>1, Least
<1>3. n \in Unused(a) BY <1>2
<1> HIDE DEF n
<1>4. n \in 1 .. MaxDir /\ <<a, n>> \in Dir /\ ~retained[<<a, n>>].made
  BY <1>3 DEF Unused, Dir
<1> QED BY <1>4 DEF n

(* The calls of an account's merge, in the place of one that comes before   *)
(* an adopt or a load.                                                      *)
LEMMA PutMerge ==
  ASSUME NEW u, Plan(u), u # <<>>, u[1].op \in {"adopt", "load"},
         Len(u) > 1 => Third("forgetPrior", u[1].op, u[2].op),
         pendingFile.reg \in Account
  PROVE  Plan(MergeLinked \o u)
<1>1. /\ Do("mergePending") \in Calls /\ Do("mergePending").op = "mergePending"
      /\ Do("dropPending") \in Calls /\ Do("dropPending").op = "dropPending"
      /\ Do("forgetPrior") \in Calls /\ Do("forgetPrior").op = "forgetPrior"
      /\ DoFor("absorb", pendingFile.reg) \in Calls
      /\ DoFor("absorb", pendingFile.reg).op = "absorb"
  BY TheCalls DEF Ops, Lasts
<1>2. Plan(<<Do("mergePending"), Do("dropPending"),
             DoFor("absorb", pendingFile.reg), Do("forgetPrior")>> \o u)
  BY <1>1, PutFour DEF Leads, Third
<1> QED BY <1>2 DEF MergeLinked

(* Each step leaves the calls in order.                                     *)
LEMMA PlanKept ==
  ASSUME RelinkTypeOK, Plan(todo), RelinkNext,
         Calling("receive") => live \in Account
  PROVE  Plan(todo')
<1> DEFINE u == Tail(todo)
<1>1. todo # <<>> =>
         /\ Plan(u) /\ todo[1] \in Calls
         /\ u = <<>> <=> todo[1].op \in Lasts
         /\ u # <<>> =>
               /\ u[1] = todo[2] /\ todo[2] \in Calls /\ Leads(todo[1].op, todo[2].op)
               /\ todo[1].op = "copy" => todo[2].who = todo[1].who
         /\ Len(u) > 1 =>
               /\ u[2] = todo[3] /\ todo[3] \in Calls
               /\ Third(todo[1].op, todo[2].op, todo[3].op)
               /\ Leads(todo[2].op, todo[3].op)
  BY TailCalls
<1>2. /\ sessionFile.reg \in Account \cup {"none"} /\ sessionFile.prior \in Account \cup {"none"}
      /\ pendingFile.reg \in Account \cup {"none"}
      /\ live \in Account \cup {"none"}
  BY DEF RelinkTypeOK, StoreFile
<1>3. todo[1] \in Calls => /\ todo[1].op = "park" => Who \in Owner
                           /\ todo[1].op \in {"absorb", "clear", "copy"} => Who \in Account
                           /\ todo[1].op \in {"copy", "slot", "moveIn"} => TheDir \in Dir
  BY DEF Calls, Who, TheDir
<1>4. CASE todo' = <<>> BY <1>4, EmptyPlan
<1>5. CASE todo' = todo BY <1>5
<1>6. CASE todo # <<>> /\ Done BY <1>6, <1>1 DEF Done
<1>7. CASE Start
  <2>1. /\ Do("recover") \in Calls /\ Do("recover").op = "recover"
        /\ Do("adopt") \in Calls /\ Do("adopt").op = "adopt"
        /\ Do("publish") \in Calls /\ Do("publish").op = "publish"
        /\ \A o \in {"open", "openResume"} : Do(o) \in Calls /\ Do(o).op = o
    BY TheCalls DEF Ops, Lasts
  <2>2. PICK o \in {"open", "openResume"} :
            todo' = <<Do("recover"), Do("adopt"), Do("publish"), Do(o)>>
    BY <1>7 DEF Start
  <2>3. Plan(<<Do("recover"), Do("adopt"), Do("publish"), Do(o)>> \o <<>>)
    <3>1. Len(<<>>) = 0 OBVIOUS
    <3>2. ~(Len(<<>>) > 1) BY <3>1
    <3>3. Leads("recover", "adopt") /\ Leads("adopt", "publish") /\ Leads("publish", o)
          /\ Third("recover", "adopt", "publish") /\ Third("adopt", "publish", o) /\ o \in Lasts
          /\ o # "copy"
      BY DEF Leads, Third, Lasts
    <3> QED BY <2>1, <3>2, <3>3, EmptyPlan, PutFour
  <2>4. <<Do("recover"), Do("adopt"), Do("publish"), Do(o)>> \o <<>>
          = <<Do("recover"), Do("adopt"), Do("publish"), Do(o)>>
    OBVIOUS
  <2> QED BY <2>2, <2>3, <2>4
<1>8. CASE Recover
  <2>1. /\ todo # <<>> /\ todo[1].op = "recover"
        /\ \/ todo' = <<>> \o u
           \/ todo' = <<Do("repair"), Do("separate")>> \o u
           \/ todo' = MergeLinked \o u /\ Linked(pendingFile)
    BY <1>8 DEF Recover, Then, Calling
  <2>2. u # <<>> /\ u[1].op = "adopt" /\ (Len(u) > 1 => u[2].op = "publish")
    BY <1>1, <2>1 DEF Leads, Third, Lasts
  <2>3. CASE todo' = <<>> \o u
    <3>1. <<>> \o u = u BY <1>1, <2>1 DEF Plan
    <3> QED BY <2>3, <3>1, <1>1, <2>1
  <2>4. CASE todo' = <<Do("repair"), Do("separate")>> \o u
    <3>1. /\ Do("repair") \in Calls /\ Do("repair").op = "repair"
          /\ Do("separate") \in Calls /\ Do("separate").op = "separate"
      BY TheCalls DEF Ops, Lasts
    <3>2. Plan(<<Do("repair"), Do("separate")>> \o u)
      <4> HIDE DEF u
      <4> QED BY <2>1, <2>2, <3>1, <1>1, PutTwo DEF Leads, Third
    <3> QED BY <2>4, <3>2
  <2>5. CASE todo' = MergeLinked \o u /\ Linked(pendingFile)
    <3>1. pendingFile.reg \in Account BY <2>5, <1>2 DEF Linked
    <3>2. Plan(MergeLinked \o u)
      <4> HIDE DEF u
      <4> QED BY <2>1, <2>2, <3>1, <1>1, PutMerge DEF Third
    <3> QED BY <2>5, <3>2
  <2> QED BY <2>1, <2>3, <2>4, <2>5
<1>9. CASE Separate
  <2>1. /\ todo # <<>> /\ todo[1].op = "separate"
        /\ \/ todo' = <<>> \o u
           \/ todo' = <<Do("place")>> \o u
           \/ todo' = MergeLinked \o u /\ Linked(pendingFile)
           \/ \E a \in Owner : todo' = <<DoFor("park", a), Do("place")>> \o u
    <3>1. sessionFile.prior # "none" => sessionFile.prior \in Owner BY <1>2 DEF Owner
    <3>2. "unstored" \in Owner BY DEF Owner
    <3>3. \/ todo' = <<>> \o u
          \/ todo' = <<Do("place")>> \o u
          \/ todo' = MergeLinked \o u /\ Linked(pendingFile)
          \/ todo' = <<DoFor("park", "unstored"), Do("place")>> \o u
          \/ todo' = <<DoFor("park", sessionFile.prior), Do("place")>> \o u
             /\ sessionFile.prior # "none"
      BY <1>9 DEF Separate, Then
    <3> QED BY <1>9, <3>1, <3>2, <3>3 DEF Separate, Calling
  <2>2. u # <<>> /\ u[1].op \in {"adopt", "load"}
        /\ (Len(u) > 1 => u[1].op = "adopt" /\ u[2].op = "publish")
    BY <1>1, <2>1 DEF Leads, Third, Lasts
  <2>3. CASE todo' = <<>> \o u
    <3>1. <<>> \o u = u BY <1>1, <2>1 DEF Plan
    <3> QED BY <2>3, <3>1, <1>1, <2>1
  <2>4. CASE todo' = <<Do("place")>> \o u
    <3>1. Do("place") \in Calls /\ Do("place").op = "place" BY TheCalls DEF Ops, Lasts
    <3>2. Plan(<<Do("place")>> \o u)
      <4> HIDE DEF u
      <4> QED BY <2>1, <2>2, <3>1, <1>1, PutOne DEF Leads, Third
    <3> QED BY <2>4, <3>2
  <2>5. CASE todo' = MergeLinked \o u /\ Linked(pendingFile)
    <3>1. pendingFile.reg \in Account BY <2>5, <1>2 DEF Linked
    <3>2. Plan(MergeLinked \o u)
      <4> HIDE DEF u
      <4> QED BY <2>1, <2>2, <3>1, <1>1, PutMerge DEF Third
    <3> QED BY <2>5, <3>2
  <2>6. ASSUME NEW a \in Owner, todo' = <<DoFor("park", a), Do("place")>> \o u
        PROVE  Plan(todo')
    <3>1. /\ Do("place") \in Calls /\ Do("place").op = "place"
          /\ DoFor("park", a) \in Calls /\ DoFor("park", a).op = "park"
      BY TheCalls DEF Ops, Lasts
    <3>2. Plan(<<DoFor("park", a), Do("place")>> \o u)
      <4> HIDE DEF u
      <4> QED BY <2>1, <2>2, <3>1, <1>1, PutTwo DEF Leads, Third
    <3> QED BY <2>6, <3>2
  <2> QED BY <2>1, <2>3, <2>4, <2>5, <2>6
<1>10. CASE Park
  <2> DEFINE n == CHOOSE i \in Unused(Who) : \A j \in Unused(Who) : i <= j
  <2>1. /\ todo # <<>> /\ todo[1].op = "park"
        /\ todo' = <<Call("moveIn", Who, n), Call("slot", Who, n)>> \o u
        /\ Unused(Who) # {}
    BY <1>10 DEF Park, Then, Calling
  <2>2. <<Who, n>> \in Dir BY <1>1, <1>3, <2>1, ParkDir
  <2> HIDE DEF n
  <2>3. u # <<>> /\ u[1].op \in {"place", "create"}
    BY <1>1, <2>1 DEF Leads, Third, Lasts
  <2>4. /\ Call("moveIn", Who, n) \in Calls /\ Call("moveIn", Who, n).op = "moveIn"
        /\ Call("slot", Who, n) \in Calls /\ Call("slot", Who, n).op = "slot"
    <3>1. <<Who, n>>[1] = Who /\ <<Who, n>>[2] = n OBVIOUS
    <3> QED BY <3>1, <2>2, TheCalls
  <2>5. Plan(<<Call("moveIn", Who, n), Call("slot", Who, n)>> \o u)
    <3> HIDE DEF u
    <3> QED BY <2>1, <2>3, <2>4, <1>1, PutTwo DEF Leads, Third
  <2> QED BY <2>1, <2>5
<1>11. CASE WriteSlot
  <2>1. /\ todo # <<>> /\ todo[1].op = "slot"
        /\ todo' = <<Call("mark", "none", NextSlot + 1)>> \o u
    BY <1>11 DEF WriteSlot, Then, Calling
  <2>2. u # <<>> /\ u[1].op \in {"slot", "place", "create", "separate", "publish"}
        /\ (Len(u) > 1 => Third("slot", u[1].op, u[2].op))
    BY <1>1, <2>1 DEF Leads, Lasts
  <2>3. NextSlot + 1 \in Nat BY SlotIsNumber
  <2>4. Call("mark", "none", NextSlot + 1) \in Calls
        /\ Call("mark", "none", NextSlot + 1).op = "mark"
    BY <2>3, TheCalls
  <2>5. Plan(<<Call("mark", "none", NextSlot + 1)>> \o u)
    <3> HIDE DEF u
    <3> QED BY <2>1, <2>2, <2>4, <1>1, PutOne DEF Leads, Third
  <2> QED BY <2>1, <2>5
<1>12. CASE Repair
  <2> DEFINE D == {d \in Stores : NeedsSlot(d)}
  <2>1. /\ todo # <<>> /\ todo[1].op = "repair"
        /\ todo' = CallEach("slot", D) \o u
    BY <1>12 DEF Repair, Then, Calling
  <2>2. u # <<>> /\ u[1].op \in {"separate", "publish"}
        /\ (Len(u) > 1 => Third("repair", u[1].op, u[2].op))
    BY <1>1, <2>1 DEF Leads, Lasts
  <2>3. D \subseteq Dir BY DEF Stores
  <2>4. Plan(CallEach("slot", D) \o u)
    <3> HIDE DEF u, D
    <3> QED BY <2>1, <2>2, <2>3, <1>1, PutSlots
  <2> QED BY <2>1, <2>4
<1>13. CASE SlotFails
  <2>1. CASE Calling("repair")
    <3>1. todo # <<>> /\ todo' = u BY <1>13, <2>1 DEF SlotFails, Calling
    <3> QED BY <3>1, <1>1
  <2>2. CASE ~Calling("repair")
    <3> DEFINE rest == {i \in 1 .. Len(todo) : todo[i].op \notin {"slot", "mark"}}
               first == CHOOSE i \in rest : \A j \in rest : i <= j
    <3>1. /\ todo # <<>> /\ todo[1].op \in {"slot", "mark"}
          /\ todo' = SubSeq(todo, first, Len(todo))
      BY <1>13, <2>2 DEF SlotFails, Calling
    <3>2. AfterSlots(todo, SubSeq(todo, first, Len(todo)))
      BY <3>1, FirstOther DEF SlotOps
    <3> HIDE DEF first
    <3> QED BY <3>1, <3>2, AfterSlotsPlan
  <2> QED BY <2>1, <2>2
<1>14. CASE PlaceReturning
  <2> DEFINE reg == pendingFile.reg
             D == StoresOf(reg) \ {Newest(StoresOf(reg))}
  <2>1. /\ todo # <<>> /\ todo[1].op = "place" /\ StoresOf(reg) # {}
        /\ todo' = (CallEach("copy", D) \o <<DoFor("clear", reg)>> \o MergeLinked) \o u
    BY <1>14 DEF PlaceReturning, Then, Calling
  <2>2. u # <<>> /\ u[1].op \in {"adopt", "load"}
        /\ (Len(u) > 1 => u[1].op = "adopt" /\ u[2].op = "publish")
    BY <1>1, <2>1 DEF Leads, Third, Lasts
  <2>3. reg \in Account
    <3>1. PICK d \in StoresOf(reg) : TRUE BY <2>1
    <3>2. reg \in Owner BY <3>1 DEF StoresOf, Stores, Dir
    <3> QED BY <3>2, <1>2 DEF Owner
  <2>4. D \subseteq Dir /\ \A d \in D : d[1] = reg BY DEF StoresOf, Stores
  <2>5. /\ DoFor("clear", reg) \in Calls /\ DoFor("clear", reg).op = "clear"
        /\ DoFor("clear", reg).who = reg
    BY <2>3, TheCalls
  <2> HIDE DEF D, u
  <2>6. Plan(MergeLinked \o u) BY <2>1, <2>2, <2>3, <1>1, PutMerge DEF Third
  <2>7. /\ MergeLinked \o u # <<>> /\ (MergeLinked \o u)[1].op = "mergePending"
        /\ (MergeLinked \o u)[2].op = "dropPending"
        /\ MergeLinked \in Seq(Calls)
    <3>1. /\ Do("mergePending") \in Calls /\ Do("mergePending").op = "mergePending"
          /\ Do("dropPending") \in Calls /\ Do("dropPending").op = "dropPending"
          /\ Do("forgetPrior") \in Calls
          /\ DoFor("absorb", reg) \in Calls
      BY <2>3, TheCalls DEF Ops, Lasts
    <3> DEFINE m == MergeLinked
    <3>2. m \in Seq(Calls) /\ Len(m) = 4 /\ m[1] = Do("mergePending") /\ m[2] = Do("dropPending")
      BY <3>1 DEF MergeLinked
    <3>3. u \in Seq(Calls) BY <1>1, <2>1 DEF Plan
    <3> HIDE DEF m
    <3>4. /\ Len(m \o u) = 4 + Len(u) /\ Len(u) \in Nat
          /\ (m \o u)[1] = m[1] /\ (m \o u)[2] = m[2] /\ m \o u \in Seq(Calls)
      <4>1. /\ m \o u \in Seq(Calls) /\ Len(m \o u) = Len(m) + Len(u) /\ Len(u) \in Nat
            /\ \A i \in 1 .. Len(m) : (m \o u)[i] = m[i]
        BY <3>2, <3>3, JoinedQueues
      <4>2. 1 \in 1 .. Len(m) /\ 2 \in 1 .. Len(m) BY <3>2
      <4> QED BY <4>1, <4>2, <3>2
    <3>5. m \o u # <<>> BY <3>4
    <3> QED BY <3>1, <3>2, <3>4, <3>5 DEF m
  <2>8. Plan(<<DoFor("clear", reg)>> \o (MergeLinked \o u))
    BY <2>5, <2>6, <2>7, PutOne DEF Leads, Third
  <2>9. /\ <<DoFor("clear", reg)>> \o (MergeLinked \o u) # <<>>
        /\ (<<DoFor("clear", reg)>> \o (MergeLinked \o u))[1] = DoFor("clear", reg)
    <3> DEFINE m == MergeLinked \o u
    <3>1. m \in Seq(Calls) BY <2>6 DEF Plan
    <3> HIDE DEF m
    <3>2. <<DoFor("clear", reg)>> \in Seq(Calls) /\ Len(<<DoFor("clear", reg)>>) = 1 BY <2>5
    <3>3. /\ Len(<<DoFor("clear", reg)>> \o m) = 1 + Len(m) /\ Len(m) \in Nat
          /\ (<<DoFor("clear", reg)>> \o m)[1] = <<DoFor("clear", reg)>>[1]
          /\ <<DoFor("clear", reg)>> \o m \in Seq(Calls)
      BY <3>1, <3>2
    <3>4. <<DoFor("clear", reg)>> \o m # <<>> BY <3>3
    <3> QED BY <3>3, <3>4 DEF m
  <2>10. Plan(CallEach("copy", D) \o (<<DoFor("clear", reg)>> \o (MergeLinked \o u)))
    BY <2>3, <2>4, <2>5, <2>8, <2>9, PutCopies
  <2>11. CallEach("copy", D) \in Seq(Calls)
    <3> DEFINE c == CallEach("copy", D)
    <3>1. \A i \in 1 .. Len(c) : \E d \in D : c[i] = Call("copy", d[1], d[2]) BY <2>4, EachCall
    <3>2. \A d \in D : Call("copy", d[1], d[2]) \in Calls BY <2>3, <2>4, TheCalls
    <3>3. c = [i \in DOMAIN c |-> c[i]] BY DEF CallEach
    <3>4. DOMAIN c = 1 .. Len(c) /\ Len(c) \in Nat BY <2>4
    <3> HIDE DEF c
    <3>5. c = [i \in 1 .. Len(c) |-> c[i]] BY <3>3, <3>4
    <3>6. \A i \in 1 .. Len(c) : c[i] \in Calls BY <3>1, <3>2
    <3>7. c \in Seq(Calls) BY <3>4, <3>5, <3>6
    <3> QED BY <3>7 DEF c
  <2>12. todo' = CallEach("copy", D) \o (<<DoFor("clear", reg)>> \o (MergeLinked \o u))
    <3>1. <<DoFor("clear", reg)>> \in Seq(Calls) BY <2>5
    <3>2. u \in Seq(Calls) BY <1>1, <2>1 DEF Plan
    <3>3. CallEach("copy", D) \o <<DoFor("clear", reg)>> \in Seq(Calls)
      BY <2>11, <3>1
    <3>4. MergeLinked \o u \in Seq(Calls) BY <2>6 DEF Plan
    <3>5. todo' = (CallEach("copy", D) \o <<DoFor("clear", reg)>>) \o (MergeLinked \o u)
      <4> DEFINE c == CallEach("copy", D) \o <<DoFor("clear", reg)>>
                 m == MergeLinked
      <4>1. todo' = (c \o m) \o u BY <2>1
      <4>2. c \in Seq(Calls) /\ m \in Seq(Calls) BY <2>7, <3>3
      <4> HIDE DEF c, m
      <4>3. (c \o m) \o u = c \o (m \o u) BY <4>2, <3>2
      <4> QED BY <4>1, <4>3 DEF c, m
    <3> QED BY <3>1, <3>4, <3>5, <2>11
  <2> QED BY <2>10, <2>12
<1>15. CASE PlaceNew
  <2>1. /\ todo # <<>> /\ todo[1].op = "place"
        /\ todo' = <<Do("adopt")>> \o u
    BY <1>15 DEF PlaceNew, Then, Calling
  <2>2. u # <<>> /\ u[1].op \in {"adopt", "load"}
        /\ (Len(u) > 1 => u[1].op = "adopt" /\ u[2].op = "publish")
    BY <1>1, <2>1 DEF Leads, Third, Lasts
  <2>3. Do("adopt") \in Calls /\ Do("adopt").op = "adopt" BY TheCalls DEF Ops, Lasts
  <2>4. Plan(<<Do("adopt")>> \o u)
    <3> HIDE DEF u
    <3> QED BY <2>1, <2>2, <2>3, <1>1, PutOne DEF Leads, Third
  <2> QED BY <2>1, <2>4
<1>16. CASE Absorb
  <2>1. /\ todo # <<>> /\ todo[1].op = "absorb"
        /\ \/ todo' = <<>> \o u
           \/ todo' = (CallEach("copy", StoresOf(Who)) \o <<DoFor("clear", Who)>>) \o u
    BY <1>16 DEF Absorb, Then, Calling
  <2>2. u # <<>> /\ u[1].op = "forgetPrior"
        /\ (Len(u) > 1 => Third("absorb", u[1].op, u[2].op))
    BY <1>1, <2>1 DEF Leads, Lasts
  <2>3. CASE todo' = <<>> \o u
    <3>1. <<>> \o u = u BY <1>1, <2>1 DEF Plan
    <3> QED BY <2>3, <3>1, <1>1, <2>1
  <2>4. CASE todo' = (CallEach("copy", StoresOf(Who)) \o <<DoFor("clear", Who)>>) \o u
    <3> DEFINE D == StoresOf(Who)
    <3>1. Who \in Account BY <1>1, <1>3, <2>1
    <3>2. D \subseteq Dir /\ \A d \in D : d[1] = Who BY DEF StoresOf, Stores
    <3>3. /\ DoFor("clear", Who) \in Calls /\ DoFor("clear", Who).op = "clear"
          /\ DoFor("clear", Who).who = Who
      BY <3>1, TheCalls
    <3> HIDE DEF D, u
    <3>4. Plan(<<DoFor("clear", Who)>> \o u)
      BY <2>1, <2>2, <3>3, <1>1, PutOne DEF Leads, Third
    <3>5. /\ <<DoFor("clear", Who)>> \o u # <<>>
          /\ (<<DoFor("clear", Who)>> \o u)[1] = DoFor("clear", Who)
          /\ <<DoFor("clear", Who)>> \in Seq(Calls) /\ u \in Seq(Calls)
      <4>1. u \in Seq(Calls) BY <1>1, <2>1 DEF Plan
      <4>2. <<DoFor("clear", Who)>> \in Seq(Calls) /\ Len(<<DoFor("clear", Who)>>) = 1 BY <3>3
      <4>3. /\ Len(<<DoFor("clear", Who)>> \o u) = 1 + Len(u) /\ Len(u) \in Nat
            /\ (<<DoFor("clear", Who)>> \o u)[1] = <<DoFor("clear", Who)>>[1]
            /\ <<DoFor("clear", Who)>> \o u \in Seq(Calls)
        BY <4>1, <4>2
      <4>4. <<DoFor("clear", Who)>> \o u # <<>> BY <4>3
      <4> QED BY <4>1, <4>2, <4>3, <4>4
    <3>6. Plan(CallEach("copy", D) \o (<<DoFor("clear", Who)>> \o u))
      BY <3>1, <3>2, <3>3, <3>4, <3>5, PutCopies
    <3>7. CallEach("copy", D) \in Seq(Calls)
      <4> DEFINE c == CallEach("copy", D)
      <4>1. \A i \in 1 .. Len(c) : \E d \in D : c[i] = Call("copy", d[1], d[2]) BY <3>2, EachCall
      <4>2. \A d \in D : Call("copy", d[1], d[2]) \in Calls BY <3>1, <3>2, TheCalls
      <4>3. c = [i \in DOMAIN c |-> c[i]] BY DEF CallEach
      <4>4. DOMAIN c = 1 .. Len(c) /\ Len(c) \in Nat BY <3>2
      <4> HIDE DEF c
      <4>5. c = [i \in 1 .. Len(c) |-> c[i]] BY <4>3, <4>4
      <4>6. \A i \in 1 .. Len(c) : c[i] \in Calls BY <4>1, <4>2
      <4>7. c \in Seq(Calls) BY <4>4, <4>5, <4>6
      <4> QED BY <4>7 DEF c
    <3>8. todo' = CallEach("copy", D) \o (<<DoFor("clear", Who)>> \o u)
      BY <2>4, <3>5, <3>7 DEF D
    <3> QED BY <3>6, <3>8
  <2> QED BY <2>1, <2>3, <2>4
<1>17. CASE todo # <<>> /\ todo[1].op \in {"open", "openResume", "linkSession", "load"}
            /\ Then(AfterLoad)
  <2>1. u = <<>> /\ todo' = AfterLoad \o u BY <1>1, <1>17 DEF Then, Lasts
  <2>2. /\ Do("repair") \in Calls /\ Do("repair").op = "repair"
        /\ Do("publish") \in Calls /\ Do("publish").op = "publish"
        /\ Do("receive") \in Calls /\ Do("receive").op = "receive"
    BY TheCalls DEF Ops, Lasts
  <2>3. Len(<<>>) = 0 OBVIOUS
  <2>4. ~(Len(<<>>) > 1) BY <2>3
  <2>5. Plan(<<Do("repair"), Do("publish"), Do("receive")>> \o <<>>)
    BY <2>2, <2>4, EmptyPlan, PutThree DEF Leads, Third, Lasts
  <2> QED BY <2>1, <2>5 DEF AfterLoad
<1>18. CASE OpenProvision
  <2>1. todo # <<>> /\ u = <<>> /\ todo' = <<Do("link")>> \o u
    BY <1>1, <1>18 DEF OpenProvision, Then, Calling, Lasts
  <2>2. Do("link") \in Calls /\ Do("link").op = "link" BY TheCalls DEF Ops, Lasts
  <2>3. Len(<<>>) = 0 OBVIOUS
  <2>4. ~(Len(<<>>) > 1) BY <2>3
  <2>5. Plan(<<Do("link")>> \o <<>>)
    BY <2>2, <2>4, EmptyPlan, PutOne DEF Leads, Third, Lasts
  <2> QED BY <2>1, <2>5
<1>19. CASE LinkPlacesPending \/ LinkBeside \/ LinkAfterPark \/ LinkInPlace \/ RemoveDevice
  <2>1. /\ todo # <<>> /\ u = <<>>
        /\ \/ todo' = <<Do("repair"), Do("separate"), Do("load")>> \o u
           \/ todo' = <<Do("linkPending"), Do("repair"), Do("separate"), Do("load")>> \o u
           \/ todo' = <<DoFor("park", "unstored"), Do("create"), Do("linkSession")>> \o u
           \/ todo' = (<<>> \o <<Do("linkSession")>>) \o u
           \/ todo' = (<<Do("forgetPrior")>> \o <<Do("linkSession")>>) \o u
           \/ todo' = <<Do("wipe"), DoFor("wipeKeys", live), DoFor("remember", live)>> \o u
              /\ todo[1].op = "receive"
    BY <1>1, <1>19 DEF LinkPlacesPending, LinkBeside, LinkAfterPark, LinkInPlace, RemoveDevice,
          Then, Calling, Lasts
  <2>2. /\ \A o \in {"repair", "separate", "load", "linkPending", "create", "linkSession",
                     "forgetPrior", "wipe"} : Do(o) \in Calls /\ Do(o).op = o
        /\ DoFor("park", "unstored") \in Calls /\ DoFor("park", "unstored").op = "park"
    <3>1. "unstored" \in Owner BY DEF Owner
    <3> QED BY <3>1, TheCalls DEF Ops, Lasts
  <2>3. Len(<<>>) = 0 OBVIOUS
  <2>4. ~(Len(<<>>) > 1) BY <2>3
  <2> DEFINE a == Do("repair")
             b == Do("separate")
             l == Do("load")
             p == Do("linkPending")
             c == Do("create")
             s == Do("linkSession")
             f == Do("forgetPrior")
             w == Do("wipe")
             k == DoFor("park", "unstored")
  <2>5. /\ a \in Calls /\ a.op = "repair" /\ b \in Calls /\ b.op = "separate"
        /\ l \in Calls /\ l.op = "load" /\ p \in Calls /\ p.op = "linkPending"
        /\ c \in Calls /\ c.op = "create" /\ s \in Calls /\ s.op = "linkSession"
        /\ f \in Calls /\ f.op = "forgetPrior" /\ w \in Calls /\ w.op = "wipe"
        /\ k \in Calls /\ k.op = "park"
    BY <2>2
  <2>6. /\ todo # <<>> /\ u = <<>>
        /\ \/ todo' = <<a, b, l>> \o u
           \/ todo' = <<p, a, b, l>> \o u
           \/ todo' = <<k, c, s>> \o u
           \/ todo' = (<<>> \o <<s>>) \o u
           \/ todo' = (<<f>> \o <<s>>) \o u
           \/ todo' = <<w, DoFor("wipeKeys", live), DoFor("remember", live)>> \o u
              /\ todo[1].op = "receive"
    BY <2>1
  <2> HIDE DEF a, b, l, p, c, s, f, w, k, u
  <2>7. Plan(<<a, b, l>> \o <<>>)
    BY <2>5, <2>4, EmptyPlan, PutThree DEF Leads, Third, Lasts
  <2>8. Plan(<<p, a, b, l>> \o <<>>)
    BY <2>5, <2>4, EmptyPlan, PutFour DEF Leads, Third, Lasts
  <2>9. Plan(<<k, c, s>> \o <<>>)
    BY <2>5, <2>4, EmptyPlan, PutThree DEF Leads, Third, Lasts
  <2>10. Plan(<<s>> \o <<>>) BY <2>5, <2>4, EmptyPlan, PutOne DEF Leads, Third, Lasts
  <2>11. Plan(<<f, s>> \o <<>>) BY <2>5, <2>4, EmptyPlan, PutTwo DEF Leads, Third, Lasts
  <2>12. <<>> \o <<s>> = <<s>> /\ <<f>> \o <<s>> = <<f, s>>
    <3>1. <<>> \o <<s>> = <<s>> BY <2>5
    <3> QED BY <2>5, <3>1, TwoJoined
  <2>13. CASE todo' = <<w, DoFor("wipeKeys", live), DoFor("remember", live)>> \o u
              /\ todo[1].op = "receive"
    <3>1. live \in Account BY <2>6, <2>13 DEF Calling
    <3>2. /\ DoFor("wipeKeys", live) \in Calls /\ DoFor("wipeKeys", live).op = "wipeKeys"
          /\ DoFor("remember", live) \in Calls /\ DoFor("remember", live).op = "remember"
      BY <3>1, TheCalls
    <3>3. Plan(<<w, DoFor("wipeKeys", live), DoFor("remember", live)>> \o <<>>)
      BY <2>5, <3>2, <2>4, EmptyPlan, PutThree DEF Leads, Third, Lasts
    <3> QED BY <2>6, <2>13, <3>3
  <2> QED BY <2>6, <2>7, <2>8, <2>9, <2>10, <2>11, <2>12, <2>13
<1>20. /\ Stop \/ OpenIdle \/ MergeStops \/ Remember => todo' = <<>>
       /\ Receive \/ LinkDropsScratch => todo' = todo
       /\ Clear => todo' = todo \/ (todo # <<>> /\ Done)
       /\ MoveIn \/ WriteMark \/ Adopt \/ Merge \/ DropPending \/ ForgetPrior \/ RemovalFails
          \/ Publish \/ Create \/ LinkPending \/ Wipe \/ WipeKeys \/ WipeFails =>
             todo # <<>> /\ Done
       /\ OpenExisting \/ LinkSession \/ Load =>
             todo # <<>> /\ todo[1].op \in {"open", "openResume", "linkSession", "load"}
             /\ Then(AfterLoad)
  BY DEF Stop, OpenIdle, MergeStops, Remember, Receive, LinkDropsScratch, Clear, MoveIn,
         WriteMark, Adopt, Merge, DropPending, ForgetPrior, RemovalFails, Publish, Create,
         LinkPending, Wipe, WipeKeys, WipeFails, OpenExisting, LinkSession, Load, Calling
<1> QED BY <1>4, <1>5, <1>6, <1>7, <1>8, <1>9, <1>10, <1>11, <1>12, <1>13, <1>14, <1>15,
           <1>16, <1>17, <1>18, <1>19, <1>20 DEF RelinkNext

(* The first call that is left after each step.                             *)
FirstOps(s) == todo' # <<>> /\ todo'[1].op \in s

Moved ==
    \/ todo' = <<>>
    \/ (Receive \/ LinkDropsScratch \/ Clear) /\ todo' = todo
    \/ Start /\ FirstOps({"recover"})
    \/ Recover /\ FirstOps({"adopt", "repair", "mergePending"})
    \/ Separate /\ FirstOps({"adopt", "load", "place", "mergePending", "park"})
    \/ Park /\ FirstOps({"moveIn"})
    \/ MoveIn /\ FirstOps({"slot"})
    \/ WriteSlot /\ FirstOps({"mark"})
    \/ WriteMark /\ FirstOps({"slot", "place", "create", "separate", "publish"})
    \/ Repair /\ FirstOps({"slot", "separate", "publish"})
    \/ SlotFails /\ FirstOps({"place", "create", "separate", "publish"})
    \/ PlaceReturning /\ FirstOps({"copy", "clear"})
    \/ PlaceNew /\ FirstOps({"adopt"})
    \/ Adopt /\ FirstOps({"adopt", "publish", "load"})
    \/ Merge /\ FirstOps({"dropPending", "copy", "clear"})
    \/ DropPending /\ FirstOps({"absorb"})
    \/ Absorb /\ FirstOps({"copy", "forgetPrior"})
    \/ Clear /\ FirstOps({"forgetPrior", "mergePending"}) /\ Done
    \/ ForgetPrior /\ FirstOps({"adopt", "load", "linkSession"})
    \/ RemovalFails /\ FirstOps({"absorb", "forgetPrior", "mergePending",
                                 "adopt", "load", "linkSession"})
    \/ Publish /\ FirstOps({"open", "openResume", "receive"})
    \/ (OpenExisting \/ LinkSession \/ Load) /\ FirstOps({"repair"})
    \/ OpenProvision /\ FirstOps({"link"})
    \/ LinkPlacesPending /\ FirstOps({"repair"})
    \/ LinkBeside /\ FirstOps({"linkPending"})
    \/ LinkAfterPark /\ FirstOps({"park"})
    \/ Create /\ FirstOps({"linkSession"})
    \/ LinkInPlace /\ FirstOps({"forgetPrior", "linkSession"})
    \/ LinkPending /\ FirstOps({"repair"})
    \/ RemoveDevice /\ FirstOps({"wipe"})
    \/ Wipe /\ FirstOps({"wipeKeys"})
    \/ WipeKeys /\ FirstOps({"remember"})
    \/ WipeFails /\ FirstOps({"wipeKeys", "remember"})

(* Calls for each of some directories.                                      *)
LEMMA EachSeq ==
  ASSUME NEW o, NEW D, D \subseteq Dir
  PROVE  /\ CallEach(o, D) \in Seq({Call(o, d[1], d[2]) : d \in D})
         /\ CallEach(o, D) = <<>> <=> D = {}
<1> DEFINE c == CallEach(o, D)
<1>1. c = [i \in DOMAIN c |-> c[i]] BY DEF CallEach
<1>2. /\ Len(c) \in Nat /\ DOMAIN c = 1 .. Len(c) /\ (Len(c) = 0 <=> D = {})
      /\ \A i \in 1 .. Len(c) : \E d \in D : c[i] = Call(o, d[1], d[2])
  BY EachCall
<1> HIDE DEF c
<1>3. c = [i \in 1 .. Len(c) |-> c[i]] BY <1>1, <1>2
<1>4. c \in Seq({Call(o, d[1], d[2]) : d \in D}) BY <1>2, <1>3
<1>5. c = <<>> <=> D = {} BY <1>2, <1>4
<1> QED BY <1>4, <1>5 DEF c

(* What a repair, an absorb and a return put there.                         *)
LEMMA FirstOfEach ==
  ASSUME NEW o, NEW D, D \subseteq Dir, NEW Y, NEW u \in Seq(Y)
  PROVE  /\ D # {} => /\ CallEach(o, D) \o u # <<>>
                      /\ (CallEach(o, D) \o u)[1].op = o
         /\ D = {} => CallEach(o, D) \o u = u
<1> DEFINE c == CallEach(o, D)
           X == {Call(o, d[1], d[2]) : d \in D}
<1>1. c \in Seq(X) /\ (c = <<>> <=> D = {}) BY EachSeq
<1>2. \A x \in X : x.op = o BY DEF Call
<1> HIDE DEF c, X
<1>3. D # {} => c \o u # <<>> /\ (c \o u)[1] = c[1] BY <1>1
<1>4. D # {} => c[1] \in X
  <2> SUFFICES ASSUME D # {} PROVE c[1] \in X OBVIOUS
  <2>1. Len(c) # 0 /\ Len(c) \in Nat BY <1>1
  <2>2. 1 \in 1 .. Len(c) BY <2>1
  <2> QED BY <2>2, <1>1
<1>5. D = {} => c \o u = u BY <1>1
<1> QED BY <1>2, <1>3, <1>4, <1>5 DEF c

(* Every step is one of these.                                              *)
LEMMA Moves ==
  ASSUME RelinkTypeOK, Plan(todo), RelinkNext
  PROVE  Moved
<1> DEFINE u == Tail(todo)
<1>1. todo # <<>> =>
         /\ u \in Seq(Calls)
         /\ u = <<>> <=> todo[1].op \in Lasts
         /\ u # <<>> => u[1] = todo[2] /\ Leads(todo[1].op, todo[2].op)
  BY TailCalls DEF Plan
<1>2. CASE Stop \/ OpenIdle \/ MergeStops \/ Remember
  BY <1>2 DEF Stop, OpenIdle, MergeStops, Remember, Moved
<1>3. CASE Receive \/ LinkDropsScratch BY <1>3 DEF Receive, LinkDropsScratch, Moved
<1>4. ASSUME NEW o, o \notin Lasts, Calling(o), Done
      PROVE  todo' # <<>> /\ Leads(o, todo'[1].op)
  BY <1>1, <1>4 DEF Calling, Done
<1>5. CASE MoveIn BY <1>4, <1>5 DEF MoveIn, Leads, Lasts, Moved, FirstOps
<1>6. CASE WriteMark BY <1>4, <1>6 DEF WriteMark, Leads, Lasts, Moved, FirstOps
<1>7. CASE Adopt BY <1>4, <1>7 DEF Adopt, Leads, Lasts, Moved, FirstOps
<1>8. CASE Merge BY <1>4, <1>8 DEF Merge, Leads, Lasts, Moved, FirstOps
<1>9. CASE DropPending BY <1>4, <1>9 DEF DropPending, Leads, Lasts, Moved, FirstOps
<1>10. CASE Clear
  <2>1. Calling("clear") /\ (Done \/ UNCHANGED todo) BY <1>10 DEF Clear
  <2>2. CASE UNCHANGED todo BY <1>10, <2>2 DEF Moved
  <2>3. CASE Done BY <1>4, <2>1, <2>3, <1>10 DEF Leads, Lasts, Moved, FirstOps
  <2> QED BY <2>1, <2>2, <2>3
<1>11. CASE ForgetPrior BY <1>4, <1>11 DEF ForgetPrior, Leads, Lasts, Moved, FirstOps
<1>12. CASE RemovalFails BY <1>4, <1>12 DEF RemovalFails, Leads, Lasts, Moved, FirstOps
<1>13. CASE Publish BY <1>4, <1>13 DEF Publish, Leads, Lasts, Moved, FirstOps
<1>14. CASE Create BY <1>4, <1>14 DEF Create, Leads, Lasts, Moved, FirstOps
<1>15. CASE LinkPending BY <1>4, <1>15 DEF LinkPending, Leads, Lasts, Moved, FirstOps
<1>16. CASE Wipe BY <1>4, <1>16 DEF Wipe, Leads, Lasts, Moved, FirstOps
<1>17. CASE WipeKeys BY <1>4, <1>17 DEF WipeKeys, Leads, Lasts, Moved, FirstOps
<1>18. CASE WipeFails BY <1>4, <1>18 DEF WipeFails, Leads, Lasts, Moved, FirstOps
<1>19. CASE Start
  <2>1. PICK o \in {"open", "openResume"} :
            todo' = <<Do("recover"), Do("adopt"), Do("publish"), Do(o)>>
    BY <1>19 DEF Start
  <2>2. todo' # <<>> /\ todo'[1] = Do("recover") BY <2>1
  <2> QED BY <2>2, <1>19 DEF Moved, FirstOps, Do, Call
<1>20. CASE Recover
  <2>1. /\ Calling("recover") /\ todo # <<>>
        /\ \/ todo' = <<>> \o u
           \/ todo' = <<Do("repair"), Do("separate")>> \o u
           \/ todo' = MergeLinked \o u
    BY <1>20 DEF Recover, Then, Calling
  <2>2. <<>> \o u = u BY <1>1, <2>1
  <2>3. CASE todo' = u
    BY <1>4, <1>20, <2>1, <2>3 DEF Done, Leads, Lasts, Moved, FirstOps
  <2>4. CASE todo' = <<Do("repair"), Do("separate")>> \o u
    <3>1. todo' # <<>> /\ todo'[1] = Do("repair") BY <2>1, <2>4, <1>1
    <3> QED BY <3>1, <1>20 DEF Moved, FirstOps, Do, Call
  <2>5. CASE todo' = MergeLinked \o u
    <3>1. todo' # <<>> /\ todo'[1] = Do("mergePending")
      BY <2>1, <2>5, <1>1 DEF MergeLinked
    <3> QED BY <3>1, <1>20 DEF Moved, FirstOps, Do, Call
  <2> QED BY <2>1, <2>2, <2>3, <2>4, <2>5
<1>21. CASE Separate
  <2>1. /\ Calling("separate") /\ todo # <<>>
        /\ \/ todo' = <<>> \o u
           \/ todo' = <<Do("place")>> \o u
           \/ todo' = MergeLinked \o u
           \/ \E a : todo' = <<DoFor("park", a), Do("place")>> \o u
    BY <1>21 DEF Separate, Then, Calling
  <2>2. <<>> \o u = u BY <1>1, <2>1
  <2>3. CASE todo' = u
    BY <1>4, <1>21, <2>1, <2>3 DEF Done, Leads, Lasts, Moved, FirstOps
  <2>4. CASE todo' = <<Do("place")>> \o u
    <3>1. todo' # <<>> /\ todo'[1] = Do("place") BY <2>1, <2>4, <1>1
    <3> QED BY <3>1, <1>21 DEF Moved, FirstOps, Do, Call
  <2>5. CASE todo' = MergeLinked \o u
    <3>1. todo' # <<>> /\ todo'[1] = Do("mergePending")
      BY <2>1, <2>5, <1>1 DEF MergeLinked
    <3> QED BY <3>1, <1>21 DEF Moved, FirstOps, Do, Call
  <2>6. ASSUME NEW a, todo' = <<DoFor("park", a), Do("place")>> \o u PROVE Moved
    <3>1. todo' # <<>> /\ todo'[1] = DoFor("park", a) BY <2>1, <2>6, <1>1
    <3> QED BY <3>1, <1>21 DEF Moved, FirstOps, DoFor, Call
  <2> QED BY <2>1, <2>2, <2>3, <2>4, <2>5, <2>6
<1>22. CASE Park
  <2>1. \E n : todo' = <<Call("moveIn", Who, n), Call("slot", Who, n)>> \o u
    BY <1>22 DEF Park, Then
  <2>2. todo # <<>> BY <1>22 DEF Park, Calling
  <2>3. PICK n : todo' # <<>> /\ todo'[1] = Call("moveIn", Who, n)
    BY <2>1, <2>2, <1>1
  <2> QED BY <2>3, <1>22 DEF Moved, FirstOps, Call
<1>23. CASE WriteSlot
  <2>1. todo' = <<Call("mark", "none", NextSlot + 1)>> \o u /\ todo # <<>>
    BY <1>23 DEF WriteSlot, Then, Calling
  <2>2. todo' # <<>> /\ todo'[1] = Call("mark", "none", NextSlot + 1)
    BY <2>1, <1>1
  <2> QED BY <2>2, <1>23 DEF Moved, FirstOps, Call
<1>24. CASE Repair
  <2> DEFINE D == {d \in Stores : NeedsSlot(d)}
  <2>1. todo' = CallEach("slot", D) \o u /\ todo # <<>> /\ Calling("repair")
    BY <1>24 DEF Repair, Then, Calling
  <2>2. D \subseteq Dir BY DEF Stores
  <2> HIDE DEF D
  <2>3. CASE D # {}
    <3>1. u \in Seq(Calls) BY <2>1, <1>1
    <3> HIDE DEF u
    <3>2. CallEach("slot", D) \o u # <<>> /\ (CallEach("slot", D) \o u)[1].op = "slot"
      BY <2>2, <2>3, <3>1, FirstOfEach
    <3>3. todo' # <<>> /\ todo'[1].op = "slot" BY <2>1, <3>2
    <3> QED BY <3>3, <1>24 DEF Moved, FirstOps
  <2>4. CASE D = {}
    <3>1. todo' = u BY <2>1, <2>2, <2>4, <1>1, FirstOfEach
    <3> QED BY <1>4, <1>24, <2>1, <3>1 DEF Done, Leads, Lasts, Moved, FirstOps
  <2> QED BY <2>3, <2>4
<1>25. CASE SlotFails
  <2>1. CASE Calling("repair")
    <3>1. Done BY <1>25, <2>1 DEF SlotFails, Done
    <3> QED BY <1>4, <1>25, <2>1, <3>1 DEF Leads, Lasts, Moved, FirstOps
  <2>2. CASE ~Calling("repair")
    <3> DEFINE rest == {i \in 1 .. Len(todo) : todo[i].op \notin {"slot", "mark"}}
               first == CHOOSE i \in rest : \A j \in rest : i <= j
    <3>1. /\ todo # <<>> /\ todo[1].op \in {"slot", "mark"}
          /\ todo' = SubSeq(todo, first, Len(todo))
      BY <1>25, <2>2 DEF SlotFails, Calling
    <3>2. AfterSlots(todo, SubSeq(todo, first, Len(todo)))
      BY <3>1, FirstOther DEF SlotOps
    <3> HIDE DEF first
    <3>3. todo' # <<>> /\ todo'[1].op \in {"place", "create", "separate", "publish"}
      BY <3>1, <3>2, AfterSlotsPlan
    <3> QED BY <3>3, <1>25 DEF Moved, FirstOps
  <2> QED BY <2>1, <2>2
<1>26. CASE PlaceReturning
  <2> DEFINE reg == pendingFile.reg
             D == StoresOf(reg) \ {Newest(StoresOf(reg))}
             k == <<DoFor("clear", reg)>>
             m == MergeLinked
  <2>1. /\ todo # <<>> /\ Calling("place")
        /\ todo' = ((CallEach("copy", D) \o k) \o m) \o u
    BY <1>26 DEF PlaceReturning, Then, Calling
  <2>2. D \subseteq Dir BY DEF StoresOf, Stores
  <2>3. \E X : k \in Seq(X) /\ k # <<>> /\ k[1].op = "clear"
    <3>1. k \in Seq({DoFor("clear", reg)}) /\ k # <<>> /\ k[1].op = "clear"
      BY DEF DoFor, Call
    <3> QED BY <3>1, Zenon
  <2>4. \E X : m \in Seq(X)
    <3>1. m \in Seq({Do("mergePending"), Do("dropPending"), DoFor("absorb", reg),
                     Do("forgetPrior")})
      BY DEF MergeLinked
    <3> HIDE DEF m
    <3> QED BY <3>1, Zenon
  <2> HIDE DEF D, k, m, u
  <2>5. PICK X : k \in Seq(X) /\ k # <<>> /\ k[1].op = "clear" BY <2>3
  <2>6. PICK Y : m \in Seq(Y) BY <2>4
  <2>7. \E Z : CallEach("copy", D) \o k \in Seq(Z) /\ CallEach("copy", D) \o k # <<>>
               /\ (CallEach("copy", D) \o k)[1].op \in {"copy", "clear"}
    <3> DEFINE V == {Call("copy", d[1], d[2]) : d \in D}
               W == V \cup X
    <3>1. CallEach("copy", D) \in Seq(V) BY <2>2, EachSeq
    <3>2. CallEach("copy", D) \in Seq(W) /\ k \in Seq(W) BY <3>1, <2>5
    <3>3. CallEach("copy", D) \o k \in Seq(W) BY <3>2
    <3>4. CASE D = {}
      <4>1. CallEach("copy", D) \o k = k BY <2>2, <2>5, <3>4, FirstOfEach
      <4> QED BY <4>1, <2>5
    <3>5. CASE D # {}
      <4>1. CallEach("copy", D) \o k # <<>> /\ (CallEach("copy", D) \o k)[1].op = "copy"
        BY <2>2, <2>5, <3>5, FirstOfEach
      <4> QED BY <4>1, <3>3
    <3> QED BY <3>4, <3>5
  <2> DEFINE c == CallEach("copy", D) \o k
  <2>8. PICK Z : c \in Seq(Z) /\ c # <<>> /\ c[1].op \in {"copy", "clear"} BY <2>7
  <2> HIDE DEF c
  <2>9. c \o m # <<>> /\ (c \o m)[1] = c[1] BY <2>6, <2>8
  <2>10. c \o m \in Seq(Z \cup Y)
    <3>1. c \in Seq(Z \cup Y) /\ m \in Seq(Z \cup Y) BY <2>6, <2>8
    <3> QED BY <3>1
  <2>11. (c \o m) \o u # <<>> /\ ((c \o m) \o u)[1] = (c \o m)[1]
    BY <2>1, <2>9, <2>10, <1>1
  <2>12. todo' # <<>> /\ todo'[1].op \in {"copy", "clear"}
    BY <2>1, <2>8, <2>9, <2>11 DEF c
  <2> QED BY <2>12, <1>26 DEF Moved, FirstOps
<1>27. CASE PlaceNew
  <2>1. todo' = <<Do("adopt")>> \o u /\ todo # <<>> BY <1>27 DEF PlaceNew, Then, Calling
  <2>2. todo' # <<>> /\ todo'[1] = Do("adopt") BY <2>1, <1>1
  <2> QED BY <2>2, <1>27 DEF Moved, FirstOps, Do, Call
<1>28. CASE Absorb
  <2> DEFINE D == StoresOf(Who)
             k == <<DoFor("clear", Who)>>
  <2>1. /\ Calling("absorb") /\ todo # <<>>
        /\ todo' = (IF D = {} THEN <<>> ELSE CallEach("copy", D) \o k) \o u
    BY <1>28 DEF Absorb, Then, Calling
  <2>2. CASE D = {}
    <3>1. <<>> \o u = u BY <1>1, <2>1
    <3>2. Done BY <2>1, <2>2, <3>1 DEF Done
    <3> QED BY <1>4, <1>28, <2>1, <3>2 DEF Leads, Lasts, Moved, FirstOps
  <2>3. CASE D # {}
    <3>1. D \subseteq Dir BY DEF StoresOf, Stores
    <3>2. k \in Seq({DoFor("clear", Who)}) OBVIOUS
    <3> DEFINE V == {Call("copy", d[1], d[2]) : d \in D}
               W == V \cup {DoFor("clear", Who)}
    <3> HIDE DEF D, k, u
    <3>3. CallEach("copy", D) \o k # <<>> /\ (CallEach("copy", D) \o k)[1].op = "copy"
      BY <3>1, <3>2, <2>3, FirstOfEach
    <3>4. CallEach("copy", D) \o k \in Seq(W)
      <4>1. CallEach("copy", D) \in Seq(V) BY <3>1, EachSeq
      <4>2. CallEach("copy", D) \in Seq(W) /\ k \in Seq(W) BY <3>2, <4>1
      <4> QED BY <4>2
    <3> HIDE DEF W
    <3>5. /\ (CallEach("copy", D) \o k) \o u # <<>>
          /\ ((CallEach("copy", D) \o k) \o u)[1] = (CallEach("copy", D) \o k)[1]
      BY <2>1, <3>3, <3>4, <1>1
    <3>6. todo' # <<>> /\ todo'[1].op = "copy" BY <2>1, <2>3, <3>3, <3>5
    <3> QED BY <3>6, <1>28 DEF Moved, FirstOps
  <2> QED BY <2>2, <2>3
<1>29. CASE OpenExisting \/ LinkSession \/ Load
  <2>1. todo' = <<Do("repair"), Do("publish"), Do("receive")>> \o u /\ todo # <<>>
    BY <1>29 DEF OpenExisting, LinkSession, Load, Then, Calling, AfterLoad
  <2>2. todo' # <<>> /\ todo'[1] = Do("repair") BY <2>1, <1>1
  <2> QED BY <2>2, <1>29 DEF Moved, FirstOps, Do, Call
<1>30. CASE OpenProvision
  <2>1. todo' = <<Do("link")>> \o u /\ todo # <<>> BY <1>30 DEF OpenProvision, Then, Calling
  <2>2. todo' # <<>> /\ todo'[1] = Do("link") BY <2>1, <1>1
  <2> QED BY <2>2, <1>30 DEF Moved, FirstOps, Do, Call
<1>31. CASE LinkPlacesPending
  <2>1. todo' = <<Do("repair"), Do("separate"), Do("load")>> \o u /\ todo # <<>>
    BY <1>31 DEF LinkPlacesPending, Then, Calling
  <2>2. todo' # <<>> /\ todo'[1] = Do("repair") BY <2>1, <1>1
  <2> QED BY <2>2, <1>31 DEF Moved, FirstOps, Do, Call
<1>32. CASE LinkBeside
  <2>1. /\ todo' = <<Do("linkPending"), Do("repair"), Do("separate"), Do("load")>> \o u
        /\ todo # <<>>
    BY <1>32 DEF LinkBeside, Then, Calling
  <2>2. todo' # <<>> /\ todo'[1] = Do("linkPending") BY <2>1, <1>1
  <2> QED BY <2>2, <1>32 DEF Moved, FirstOps, Do, Call
<1>33. CASE LinkAfterPark
  <2>1. /\ todo' = <<DoFor("park", "unstored"), Do("create"), Do("linkSession")>> \o u
        /\ todo # <<>>
    BY <1>33 DEF LinkAfterPark, Then, Calling
  <2>2. todo' # <<>> /\ todo'[1] = DoFor("park", "unstored") BY <2>1, <1>1
  <2> QED BY <2>2, <1>33 DEF Moved, FirstOps, DoFor, Call
<1>34. CASE LinkInPlace
  <2> DEFINE f == Do("forgetPrior")
             s == Do("linkSession")
  <2>1. /\ todo' = (<<>> \o <<s>>) \o u \/ todo' = (<<f>> \o <<s>>) \o u
        /\ todo # <<>>
    BY <1>34 DEF LinkInPlace, Then, Calling
  <2>2. <<>> \o <<s>> = <<s>> /\ <<f>> \o <<s>> = <<f, s>>
    <3>1. <<s>> \in Seq({s}) /\ s \in {f, s} /\ f \in {f, s} OBVIOUS
    <3>2. <<>> \o <<s>> = <<s>> BY <3>1
    <3>3. <<f>> \o <<s>> = <<f, s>> BY <3>1, TwoJoined
    <3> QED BY <3>2, <3>3
  <2>3. s.op = "linkSession" /\ f.op = "forgetPrior" BY DEF Do, Call
  <2> HIDE DEF f, s
  <2>4. todo' # <<>> /\ (todo'[1] = s \/ todo'[1] = f) BY <2>1, <2>2, <1>1
  <2> QED BY <2>3, <2>4, <1>34 DEF Moved, FirstOps
<1>35. CASE RemoveDevice
  <2>1. /\ todo' = <<Do("wipe"), DoFor("wipeKeys", live), DoFor("remember", live)>> \o u
        /\ todo # <<>>
    BY <1>35 DEF RemoveDevice, Then, Calling
  <2>2. todo' # <<>> /\ todo'[1] = Do("wipe") BY <2>1, <1>1
  <2> QED BY <2>2, <1>35 DEF Moved, FirstOps, Do, Call
<1> QED BY <1>2, <1>3, <1>5, <1>6, <1>7, <1>8, <1>9, <1>10, <1>11, <1>12, <1>13, <1>14, <1>15,
           <1>16, <1>17, <1>18, <1>19, <1>20, <1>21, <1>22, <1>23, <1>24, <1>25, <1>26, <1>27,
           <1>28, <1>29, <1>30, <1>31, <1>32, <1>33, <1>34, <1>35 DEF RelinkNext

(* Only a call that is first, or has such an operation first, is near.      *)
LEMMA NearFirst ==
  ASSUME NEW t, NEW R, NEW i, Near(t, i, R)
  PROVE  /\ i \in Nat \ {0}
         /\ i = 1 \/ t[1].op \in R
         /\ i \in {1, 2} \/ t[2].op \in R
<1>1. i \in 1 .. Len(t) /\ \A j \in 1 .. i - 1 : t[j].op \in R BY DEF Near, Until
<1>2. i \in Nat \ {0} BY <1>1
<1>3. (i # 1 => 1 \in 1 .. i - 1) /\ (i \notin {1, 2} => 2 \in 1 .. i - 1) BY <1>2
<1> QED BY <1>1, <1>2, <1>3

(* The same after a call that comes first.                                   *)
LEMMA NearOne ==
  ASSUME NEW u \in Seq(Calls), NEW a \in Calls,
         NEW w, w = Join(<<a>>, u), NEW R, NEW i, Near(w, i, R)
  PROVE  \/ i = 1 /\ w[i] = a
         \/ a.op \in R /\ Near(u, i - 1, R) /\ w[i] = u[i - 1]
<1> DEFINE c == <<a>>
<1>1. c \in Seq(Calls) /\ Len(c) = 1 /\ c[1] = a OBVIOUS
<1>2. w = Join(c, u) OBVIOUS
<1> HIDE DEF c
<1>3. \/ Near(c, i, R) /\ w[i] = c[i]
      \/ /\ \A j \in 1 .. 1 : c[j].op \in R
         /\ Near(u, i - 1, R) /\ w[i] = u[i - 1]
  <2>1. c \in Seq(Calls) BY <1>1
  <2>2. \/ Near(c, i, R) /\ w[i] = c[i]
        \/ /\ \A j \in 1 .. Len(c) : c[j].op \in R
           /\ Near(u, i - Len(c), R) /\ w[i] = u[i - Len(c)]
    BY <1>2, <2>1, NearJoined
  <2> QED BY <1>1, <2>2
<1>4. Near(c, i, R) => i = 1
  <2> SUFFICES ASSUME Near(c, i, R)
               PROVE  i = 1
    OBVIOUS
  <2>1. i \in 1 .. 1 BY <1>1 DEF Near
  <2>2. (i = 1 \/ c[1].op \in R) /\ (i \in {1, 2} \/ c[2].op \in R) BY NearFirst
  <2> QED BY <1>1, <2>1, <2>2
<1>5. 1 \in 1 .. 1 OBVIOUS
<1>6. (\A j \in 1 .. 1 : c[j].op \in R) => a.op \in R BY <1>1, <1>5
<1> QED BY <1>1, <1>3, <1>4, <1>6

(* The same after two calls.                                                *)
LEMMA NearTwo ==
  ASSUME NEW u \in Seq(Calls), NEW a \in Calls, NEW b \in Calls,
         NEW w, w = Join(<<a, b>>, u), NEW R, NEW i, Near(w, i, R)
  PROVE  \/ i = 1 /\ w[i] = a
         \/ i = 2 /\ a.op \in R /\ w[i] = b
         \/ a.op \in R /\ b.op \in R /\ Near(u, i - 2, R) /\ w[i] = u[i - 2]
<1> DEFINE c == <<a, b>>
<1>1. c \in Seq(Calls) /\ Len(c) = 2 /\ c[1] = a /\ c[2] = b OBVIOUS
<1>2. w = Join(c, u) OBVIOUS
<1> HIDE DEF c
<1>3. \/ Near(c, i, R) /\ w[i] = c[i]
      \/ /\ \A j \in 1 .. 2 : c[j].op \in R
         /\ Near(u, i - 2, R) /\ w[i] = u[i - 2]
  <2>1. c \in Seq(Calls) BY <1>1
  <2>2. \/ Near(c, i, R) /\ w[i] = c[i]
        \/ /\ \A j \in 1 .. Len(c) : c[j].op \in R
           /\ Near(u, i - Len(c), R) /\ w[i] = u[i - Len(c)]
    BY <1>2, <2>1, NearJoined
  <2> QED BY <1>1, <2>2
<1>4. Near(c, i, R) => i \in {1, 2} /\ (i = 1 \/ a.op \in R)
  <2> SUFFICES ASSUME Near(c, i, R)
               PROVE  i \in {1, 2} /\ (i = 1 \/ a.op \in R)
    OBVIOUS
  <2>1. i \in 1 .. 2 BY <1>1 DEF Near
  <2>2. (i = 1 \/ c[1].op \in R) /\ (i \in {1, 2} \/ c[2].op \in R) BY NearFirst
  <2> QED BY <1>1, <2>1, <2>2
<1>5. 1 \in 1 .. 2 /\ 2 \in 1 .. 2 OBVIOUS
<1>6. (\A j \in 1 .. 2 : c[j].op \in R) => a.op \in R /\ b.op \in R BY <1>1, <1>5
<1> QED BY <1>1, <1>3, <1>4, <1>6

(* The same after three calls.                                              *)
LEMMA NearThree ==
  ASSUME NEW u \in Seq(Calls), NEW a \in Calls, NEW b \in Calls, NEW d \in Calls,
         NEW w, w = Join(<<a, b, d>>, u), NEW R, NEW i, Near(w, i, R)
  PROVE  \/ i = 1 /\ w[i] = a
         \/ i = 2 /\ a.op \in R /\ w[i] = b
         \/ i = 3 /\ a.op \in R /\ b.op \in R /\ w[i] = d
         \/ a.op \in R /\ b.op \in R /\ d.op \in R /\ Near(u, i - 3, R) /\ w[i] = u[i - 3]
<1> DEFINE c == <<a, b, d>>
<1>1. c \in Seq(Calls) /\ Len(c) = 3 /\ c[1] = a /\ c[2] = b /\ c[3] = d OBVIOUS
<1>2. w = Join(c, u) OBVIOUS
<1> HIDE DEF c
<1>3. \/ Near(c, i, R) /\ w[i] = c[i]
      \/ /\ \A j \in 1 .. 3 : c[j].op \in R
         /\ Near(u, i - 3, R) /\ w[i] = u[i - 3]
  <2>1. c \in Seq(Calls) BY <1>1
  <2>2. \/ Near(c, i, R) /\ w[i] = c[i]
        \/ /\ \A j \in 1 .. Len(c) : c[j].op \in R
           /\ Near(u, i - Len(c), R) /\ w[i] = u[i - Len(c)]
    BY <1>2, <2>1, NearJoined
  <2> QED BY <1>1, <2>2
<1>4. Near(c, i, R) => i \in {1, 2, 3} /\ (i = 1 \/ a.op \in R) /\ (i \in {1, 2} \/ b.op \in R)
  <2> SUFFICES ASSUME Near(c, i, R)
               PROVE  i \in {1, 2, 3} /\ (i = 1 \/ a.op \in R) /\ (i \in {1, 2} \/ b.op \in R)
    OBVIOUS
  <2>1. i \in 1 .. 3 BY <1>1 DEF Near
  <2>2. (i = 1 \/ c[1].op \in R) /\ (i \in {1, 2} \/ c[2].op \in R) BY NearFirst
  <2> QED BY <1>1, <2>1, <2>2
<1>5. 1 \in 1 .. 3 /\ 2 \in 1 .. 3 /\ 3 \in 1 .. 3 OBVIOUS
<1>6. (\A j \in 1 .. 3 : c[j].op \in R) => a.op \in R /\ b.op \in R /\ d.op \in R
  BY <1>1, <1>5
<1> QED BY <1>1, <1>3, <1>4, <1>6

(* After the numbering of the slots ended early.                            *)
LEMMA NearAfterSlots ==
  ASSUME NEW t, Plan(t), t # <<>>, NEW u, AfterSlots(t, u), NEW R, SlotOps \subseteq R,
         NEW i, Near(u, i, R)
  PROVE  \E k : Near(t, k, R) /\ t[k] = u[i]
<1>1. PICK k \in 2 .. Len(t) :
         /\ Len(u) = Len(t) - k + 1
         /\ \A m \in 1 .. Len(u) : u[m] = t[m + k - 1]
         /\ \A j \in 1 .. k - 1 : t[j].op \in SlotOps
  BY AfterSlotsPlan
<1>2. t \in Seq(Calls) /\ Len(t) \in Nat BY DEF Plan
<1>3. i \in 1 .. Len(u) /\ \A j \in 1 .. i - 1 : u[j].op \in R BY DEF Near, Until
<1> DEFINE n == i + k - 1
<1>4. n \in 1 .. Len(t) /\ t[n] = u[i] BY <1>1, <1>2, <1>3
<1>5. ASSUME NEW j \in 1 .. n - 1 PROVE t[j].op \in R
  <2>1. CASE j <= k - 1
    <3>1. j \in 1 .. k - 1 BY <2>1, <1>1, <1>2, <1>3
    <3> QED BY <3>1, <1>1
  <2>2. CASE j > k - 1
    <3> DEFINE m == j - k + 1
    <3>1. m \in 1 .. i - 1 /\ m \in 1 .. Len(u) /\ m + k - 1 = j BY <2>2, <1>1, <1>2, <1>3
    <3> HIDE DEF m
    <3>2. u[m] = t[j] BY <3>1, <1>1
    <3> QED BY <3>1, <3>2, <1>3
  <2> QED BY <2>1, <2>2, <1>1, <1>2, <1>3
<1>6. Near(t, n, R) BY <1>4, <1>5 DEF Near, Until
<1> QED BY <1>4, <1>6

(* A step of the numbering of the slots leaves what is near.                *)
LEMMA NearSlots ==
  ASSUME RelinkTypeOK, Plan(todo), WriteSlot \/ WriteMark \/ Repair \/ SlotFails,
         NEW R, SlotOps \cup {"repair"} \subseteq R, NEW i, Near(todo', i, R)
  PROVE  \/ \E k : Near(todo, k, R) /\ todo[k] = todo'[i]
         \/ WriteSlot /\ todo'[i] = Call("mark", "none", NextSlot + 1)
         \/ Repair /\ \E d \in Stores : todo'[i] = Call("slot", d[1], d[2])
<1> DEFINE u == Tail(todo)
<1>1. todo # <<>> => u \in Seq(Calls) BY DEF Plan
<1>2. ASSUME NEW k, todo # <<>>, todo[1].op \in R, Near(u, k, R), todo'[i] = u[k]
      PROVE  \E n : Near(todo, n, R) /\ todo[n] = todo'[i]
  <2>1. u[k] = todo[k + 1] /\ Near(todo, k + 1, R) BY <1>2, NearPopped
  <2> QED BY <2>1, <1>2
<1>3. CASE WriteSlot
  <2> DEFINE a == Call("mark", "none", NextSlot + 1)
  <2>1. todo # <<>> /\ todo[1].op \in R /\ todo' = <<a>> \o u
    BY <1>3 DEF WriteSlot, Calling, Then, SlotOps
  <2>2. NextSlot + 1 \in Nat BY SlotIsNumber
  <2>3. a \in Calls BY <2>2, TheCalls
  <2>4. todo' = Join(<<a>>, u) BY <2>1 DEF Join
  <2> HIDE DEF a, u
  <2>5. (i = 1 /\ todo'[i] = a) \/ (Near(u, i - 1, R) /\ todo'[i] = u[i - 1])
    <3>1. u \in Seq(Calls) BY <2>1, <1>1
    <3> QED BY <2>3, <2>4, <3>1, NearOne
  <2> QED BY <2>1, <2>5, <1>2, <1>3 DEF a
<1>4. CASE WriteMark
  <2>1. todo # <<>> /\ todo[1].op \in R /\ todo' = u
    BY <1>4 DEF WriteMark, Calling, Done, SlotOps
  <2> QED BY <2>1, <1>2
<1>5. CASE Repair
  <2> DEFINE D == {d \in Stores : NeedsSlot(d)}
  <2>1. todo # <<>> /\ todo[1].op \in R /\ todo' = CallEach("slot", D) \o u
    BY <1>5 DEF Repair, Calling, Then
  <2>2. D \subseteq Stores /\ D \subseteq Dir BY DEF Stores
  <2>3. CallEach("slot", D) \in Seq(Calls)
    <3>1. CallEach("slot", D) \in Seq({Call("slot", d[1], d[2]) : d \in D})
      BY <2>2, EachSeq
    <3>2. {Call("slot", d[1], d[2]) : d \in D} \subseteq Calls BY <2>2, TheCalls
    <3> DEFINE V == {Call("slot", d[1], d[2]) : d \in D}
    <3> HIDE DEF V
    <3>3. \A s \in Seq(V) : V \subseteq Calls => s \in Seq(Calls) OBVIOUS
    <3> QED BY <3>1, <3>2, <3>3 DEF V
  <2> HIDE DEF D, u
  <2>4. \/ \E d \in D : todo'[i] = Call("slot", d[1], d[2])
        \/ \E k : k = i - Len(CallEach("slot", D)) /\ Near(u, k, R) /\ todo'[i] = u[k]
    <3> DEFINE c == CallEach("slot", D)
               V == {Call("slot", d[1], d[2]) : d \in D}
    <3>1. \A j \in 1 .. Len(c) : c[j] \in V BY <2>2, EachCall
    <3>2. c \in Seq(Calls) BY <2>3
    <3>3. todo' = Join(c, u) /\ u \in Seq(Calls) BY <2>1, <1>1 DEF Join
    <3> HIDE DEF c, V
    <3>4. \/ Near(c, i, R) /\ todo'[i] = c[i]
          \/ Near(u, i - Len(c), R) /\ todo'[i] = u[i - Len(c)]
      BY <3>2, <3>3, NearJoined
    <3>5. Near(c, i, R) => c[i] \in V BY <3>1 DEF Near
    <3>6. todo'[i] \in V \/ (Near(u, i - Len(c), R) /\ todo'[i] = u[i - Len(c)])
      BY <3>4, <3>5
    <3> QED BY <3>6 DEF c, V
  <2> QED BY <2>1, <2>2, <2>4, <1>2, <1>5
<1>6. CASE SlotFails
  <2>1. CASE Calling("repair")
    <3>1. todo # <<>> /\ todo[1].op \in R /\ todo' = u
      BY <1>6, <2>1 DEF SlotFails, Calling
    <3> QED BY <3>1, <1>2
  <2>2. CASE ~Calling("repair")
    <3> DEFINE rest == {m \in 1 .. Len(todo) : todo[m].op \notin {"slot", "mark"}}
               first == CHOOSE m \in rest : \A j \in rest : m <= j
    <3>1. /\ todo # <<>> /\ todo[1].op \in {"slot", "mark"}
          /\ todo' = SubSeq(todo, first, Len(todo))
      BY <1>6, <2>2 DEF SlotFails, Calling
    <3>2. AfterSlots(todo, SubSeq(todo, first, Len(todo)))
      BY <3>1, FirstOther DEF SlotOps
    <3> HIDE DEF first
    <3>3. AfterSlots(todo, todo') BY <3>1, <3>2
    <3>4. SlotOps \subseteq R OBVIOUS
    <3>5. todo # <<>> BY <3>1
    <3> DEFINE v == todo'
    <3>6. AfterSlots(todo, v) /\ Near(v, i, R) BY <3>3
    <3> HIDE DEF v
    <3>7. \E k : Near(todo, k, R) /\ todo[k] = v[i] BY <3>4, <3>5, <3>6, NearAfterSlots
    <3> QED BY <3>7 DEF v
  <2> QED BY <2>1, <2>2
<1> QED BY <1>3, <1>4, <1>5, <1>6

(* Calls that leave the session file and the stores where they are.         *)
Steady == {"repair", "slot", "mark", "publish", "linkPending"}

(* What is near, behind such calls, after a step: it was near before, or    *)
(* the step put it there.                                                   *)
LEMMA NearSteady ==
  ASSUME RelinkTypeOK, Plan(todo), RelinkNext, NEW i, Near(todo', i, Steady),
         todo'[1].op \in Steady, todo'[i].op \notin Steady
  PROVE  \/ /\ WriteSlot \/ WriteMark \/ Repair \/ SlotFails \/ LinkPending \/ Publish
            /\ \E k : Near(todo, k, Steady) /\ todo[k] = todo'[i]
         \/ MoveIn /\ todo'[i].op \in {"place", "create"}
         \/ Adopt /\ todo'[i].op \in {"open", "openResume"}
         \/ (Recover \/ LinkPlacesPending \/ LinkBeside) /\ todo'[i].op = "separate"
         \/ (OpenExisting \/ LinkSession \/ Load) /\ todo'[i].op = "receive"
<1> DEFINE u == Tail(todo)
<1>1. todo # <<>> => /\ u \in Seq(Calls)
                     /\ u = <<>> <=> todo[1].op \in Lasts
                     /\ u # <<>> => u[1] = todo[2] /\ Leads(todo[1].op, todo[2].op)
                     /\ Len(u) > 1 => /\ u[2] = todo[3]
                                      /\ Third(todo[1].op, todo[2].op, todo[3].op)
  BY TailCalls DEF Plan
<1>2. Moved BY Moves
<1>3. /\ i \in Nat \ {0, 1} /\ Len(todo') \in Nat /\ i \in 1 .. Len(todo')
      /\ i = 2 \/ todo'[2].op \in Steady
  <2>1. i \in 1 .. Len(todo') BY DEF Near
  <2>2. i \in Nat \ {0} /\ (i \in {1, 2} \/ todo'[2].op \in Steady) BY NearFirst
  <2>3. Len(todo') \in Nat BY <2>1
  <2> QED BY <2>1, <2>2, <2>3
<1>4. todo' # <<>> BY <1>3
<1>5. \/ MoveIn \/ WriteSlot \/ WriteMark \/ Repair \/ SlotFails
      \/ LinkPending \/ Publish \/ Adopt \/ Recover \/ LinkPlacesPending
      \/ LinkBeside \/ OpenExisting \/ LinkSession \/ Load
  <2>1. CASE todo' = todo /\ (Receive \/ LinkDropsScratch \/ Clear)
    BY <2>1 DEF Receive, LinkDropsScratch, Clear, Calling, Steady
  <2> QED BY <1>2, <1>4, <2>1 DEF Moved, FirstOps, Steady
<1>6. CASE WriteSlot \/ WriteMark \/ Repair \/ SlotFails
  <2>1. SlotOps \cup {"repair"} \subseteq Steady BY DEF SlotOps, Steady
  <2>2. \/ \E k : Near(todo, k, Steady) /\ todo[k] = todo'[i]
        \/ todo'[i] = Call("mark", "none", NextSlot + 1)
        \/ \E d \in Stores : todo'[i] = Call("slot", d[1], d[2])
    BY <1>6, <2>1, NearSlots
  <2>3. todo'[i].op \notin {"mark", "slot"} BY DEF Steady
  <2>4. /\ Call("mark", "none", NextSlot + 1).op = "mark"
        /\ \A d \in Stores : Call("slot", d[1], d[2]).op = "slot"
    BY DEF Call
  <2>5. \E k : Near(todo, k, Steady) /\ todo[k] = todo'[i]
    <3>1. todo'[i] # Call("mark", "none", NextSlot + 1) BY <2>3, <2>4
    <3>2. \A d \in Stores : todo'[i] # Call("slot", d[1], d[2]) BY <2>3, <2>4
    <3> QED BY <2>2, <3>1, <3>2, Zenon
  <2> QED BY <1>6, <2>5
<1>7. CASE LinkPending \/ Publish
  <2>1. todo # <<>> /\ todo[1].op \in Steady /\ todo' = u
    BY <1>7 DEF LinkPending, Publish, Calling, Done, Steady
  <2>2. Near(u, i, Steady) BY <2>1
  <2>3. u[i] = todo[i + 1] /\ Near(todo, i + 1, Steady) BY <2>1, <2>2, NearPopped
  <2> QED BY <2>1, <2>3, <1>7
<1>8. CASE MoveIn \/ Adopt
  <2>1. todo # <<>> /\ todo' = u /\ todo[1].op \in {"moveIn", "adopt"}
    BY <1>8 DEF MoveIn, Adopt, Calling, Done
  <2>2. u # <<>> /\ Len(u) > 1 BY <2>1, <1>3, <1>4
  <2>3. /\ todo'[1] = todo[2] /\ todo'[2] = todo[3] /\ Leads(todo[1].op, todo[2].op)
        /\ Third(todo[1].op, todo[2].op, todo[3].op)
    BY <1>1, <2>1, <2>2
  <2>4. CASE MoveIn
    <3>1. todo[1].op = "moveIn" BY <2>4 DEF MoveIn, Calling
    <3>2. todo'[2].op \in {"place", "create"} BY <3>1, <2>3 DEF Third
    <3>3. i = 2 BY <3>2, <1>3 DEF Steady
    <3> QED BY <3>2, <3>3, <2>4
  <2>5. CASE Adopt
    <3>1. todo[1].op = "adopt" BY <2>5 DEF Adopt, Calling
    <3>2. todo[2].op = "publish" BY <3>1, <2>3 DEF Leads, Steady
    <3>3. todo'[2].op \in {"open", "openResume"} BY <3>1, <3>2, <2>3 DEF Third
    <3>4. i = 2 BY <3>3, <1>3 DEF Steady
    <3> QED BY <3>3, <3>4, <2>5
  <2> QED BY <1>8, <2>4, <2>5
<1>9. CASE Recover
  <2>1. /\ Calling("recover") /\ todo # <<>>
        /\ \/ todo' = <<>> \o u
           \/ todo' = <<Do("repair"), Do("separate")>> \o u
           \/ todo' = MergeLinked \o u
    BY <1>9 DEF Recover, Then, Calling
  <2>2. <<>> \o u = u BY <1>1, <2>1
  <2>3. CASE todo' = u BY <1>1, <1>4, <2>1, <2>3 DEF Calling, Leads, Lasts, Steady
  <2>4. CASE todo' = <<Do("repair"), Do("separate")>> \o u
    <3> DEFINE a == Do("repair")
               b == Do("separate")
    <3>1. a \in Calls /\ b \in Calls /\ a.op = "repair" /\ b.op = "separate"
      BY TheCalls DEF Ops, Lasts
    <3>2. b.op \notin Steady BY <3>1 DEF Steady
    <3>3. todo' = Join(<<a, b>>, u) BY <2>4 DEF Join
    <3>4. u \in Seq(Calls) BY <2>1, <1>1
    <3> HIDE DEF a, b, u
    <3>5. i = 2 /\ todo'[i] = b BY <3>1, <3>2, <3>3, <3>4, <1>3, NearTwo
    <3> QED BY <3>1, <3>5, <1>9
  <2>5. CASE todo' = MergeLinked \o u
    <3>1. todo'[1] = Do("mergePending") BY <2>1, <2>5, <1>1 DEF MergeLinked
    <3> QED BY <3>1 DEF Do, Call, Steady
  <2> QED BY <2>1, <2>2, <2>3, <2>4, <2>5
<1>10. CASE LinkPlacesPending
  <2> DEFINE a == Do("repair")
             b == Do("separate")
             d == Do("load")
  <2>1. a \in Calls /\ b \in Calls /\ d \in Calls /\ a.op = "repair" /\ b.op = "separate"
    BY TheCalls DEF Ops, Lasts
  <2>2. b.op \notin Steady BY <2>1 DEF Steady
  <2>3. todo' = <<a, b, d>> \o u /\ todo # <<>>
    BY <1>10 DEF LinkPlacesPending, Then, Calling
  <2>4. todo' = Join(<<a, b, d>>, u) /\ u \in Seq(Calls) BY <2>3, <1>1 DEF Join
  <2> HIDE DEF a, b, d, u
  <2>5. i = 2 /\ todo'[i] = b BY <2>1, <2>2, <2>4, <1>3, NearThree
  <2> QED BY <2>1, <2>5, <1>10
<1>11. CASE LinkBeside
  <2> DEFINE l == Do("linkPending")
             a == Do("repair")
             b == Do("separate")
             d == Do("load")
  <2>1. /\ a \in Calls /\ b \in Calls /\ d \in Calls /\ l \in Calls
        /\ a.op = "repair" /\ b.op = "separate" /\ l.op = "linkPending"
    BY TheCalls DEF Ops, Lasts
  <2>2. b.op \notin Steady BY <2>1 DEF Steady
  <2>3. todo' = <<l, a, b, d>> \o u /\ todo # <<>>
    BY <1>11 DEF LinkBeside, Then, Calling
  <2> HIDE DEF l, a, b, d, u
  <2> DEFINE c == <<l, a, b, d>>
  <2>4. c \in Seq(Calls) /\ Len(c) = 4 /\ c[1] = l /\ c[2] = a /\ c[3] = b /\ c[4] = d
    BY <2>1
  <2> HIDE DEF c
  <2>5. todo' = Join(c, u) BY <2>3 DEF c, Join
  <2>6. \/ Near(c, i, Steady) /\ todo'[i] = c[i]
        \/ \A j \in 1 .. Len(c) : c[j].op \in Steady
    <3>1. u \in Seq(Calls) BY <2>3, <1>1
    <3>2. c \in Seq(Calls) BY <2>4
    <3> QED BY <2>5, <3>1, <3>2, NearJoined
  <2>7. 3 \in 1 .. 4 OBVIOUS
  <2>8. Near(c, i, Steady) /\ todo'[i] = c[i] BY <2>2, <2>4, <2>6, <2>7
  <2>9. i \in 1 .. 4 /\ \A j \in 1 .. i - 1 : c[j].op \in Steady
    BY <2>4, <2>8 DEF Near, Until
  <2>10. i # 4 BY <2>2, <2>4, <2>9
  <2>11. i # 2 BY <2>1, <2>4, <2>8 DEF Steady
  <2>12. i = 3 BY <2>9, <2>10, <2>11, <1>3
  <2> QED BY <2>1, <2>4, <2>8, <2>12, <1>11
<1>12. CASE OpenExisting \/ LinkSession \/ Load
  <2> DEFINE a == Do("repair")
             b == Do("publish")
             d == Do("receive")
  <2>1. /\ a \in Calls /\ b \in Calls /\ d \in Calls
        /\ a.op = "repair" /\ b.op = "publish" /\ d.op = "receive"
    BY TheCalls DEF Ops, Lasts
  <2>2. d.op \notin Steady /\ b.op \in Steady BY <2>1 DEF Steady
  <2>3. todo' = <<a, b, d>> \o u /\ todo # <<>>
    BY <1>12 DEF OpenExisting, LinkSession, Load, Then, Calling, AfterLoad
  <2>4. todo' = Join(<<a, b, d>>, u) /\ u \in Seq(Calls) BY <2>3, <1>1 DEF Join
  <2> HIDE DEF a, b, d, u
  <2>5. todo'[i] = b \/ todo'[i] = d BY <2>1, <2>2, <2>4, <1>3, NearThree
  <2>6. todo'[i] = d BY <2>2, <2>5
  <2> QED BY <2>1, <2>6, <1>12
<1> QED BY <1>5, <1>6, <1>7, <1>8, <1>9, <1>10, <1>11, <1>12

-----------------------------------------------------------------------------
(* What the files are while the calls are left.                             *)

FileOK(file) == file \in StoreFile /\ (file.there \/ file = NoStore)

(* A link is written with no chats, a store moves aside with no             *)
(* registration.                                                            *)
FilesPlain ==
    /\ pendingFile.chats = {}
    /\ \A d \in Dir : retained[d].store.reg = "none"

(* A registration comes of a link that was counted.                         *)
LinksCounted == links = 0 => sessionFile.reg = "none" /\ pendingFile.reg = "none"

(* A store is made, or comes back, only where there is none.                *)
StoreAway ==
    \A i : Near(todo, i, Steady) /\ todo[i].op \in {"place", "create"} => ~sessionFile.there

(* A store moves aside, and a link begins, while no account is registered.  *)
NoAccountOpen ==
    \A i : /\ Near(todo, i, Steady)
           /\ todo[i].op \in {"separate", "park", "moveIn", "link"}
           => sessionFile.reg = "none"

(* The account that is received is the one of the file.                     *)
AccountReceives ==
    \A i : Near(todo, i, Steady) /\ todo[i].op = "receive" =>
               live \in Account /\ live = sessionFile.reg

(* These calls work on a session file that is there.                        *)
NeedStore == {"copy", "clear", "mergePending", "dropPending", "absorb", "forgetPrior",
              "wipe", "wipeKeys", "remember", "linkSession", "link"}
HeadNeeds ==
    todo # <<>> =>
        /\ todo[1].op \in NeedStore => sessionFile.there
        /\ todo[1].op = "linkPending" => pendingFile.there
        /\ todo[1].op = "moveIn" => ~retained[TheDir].store.there

(* A directory that is numbered was made.                                   *)
Numbering == SlotOps \cup {"repair", "moveIn"}
SlotsMade ==
    \A i : /\ Near(todo, i, Numbering)
           /\ todo[i].op \in {"slot", "moveIn"}
           => retained[<<todo[i].who, todo[i].n>>].made

(* A link goes from the pending file only into the session of its account.  *)
MergeReady ==
    \A i : Near(todo, i, {"copy", "clear", "mergePending"}) /\ todo[i].op = "dropPending" =>
        /\ Linked(pendingFile) /\ sessionFile.reg \in {"none", pendingFile.reg}
        /\ i = 1 => sessionFile.reg = pendingFile.reg

(* The copies of an account go when each was merged.                        *)
CopiesAhead ==
    \A i : Near(todo, i, {"copy"}) /\ todo[i].op = "clear" =>
        \A d \in Dir : retained[d].store.there /\ d[1] = todo[i].who =>
            \/ retained[d].store.chats \subseteq sessionFile.chats
            \/ \E j \in 1 .. i - 1 : todo[j] = Call("copy", d[1], d[2])

(* The types of the files, each by itself.                                  *)
LEMMA TypesApart ==
  RelinkTypeOK <=>
    /\ FileOK(sessionFile) /\ FileOK(pendingFile)
    /\ retained \in [Dir -> [made : BOOLEAN, store : StoreFile, slot : Nat]]
    /\ \A d \in Dir : FileOK(retained[d].store)
    /\ \A d \in Dir : ~retained[d].made =>
           ~retained[d].store.there /\ retained[d].slot = 0
    /\ mark \in Nat /\ links \in 0 .. MaxLink /\ failures \in 0 .. MaxFailure
    /\ live \in Account \cup {"none"}
    /\ published \subseteq Nat \X Dir /\ noteStayed \in BOOLEAN
<1>1. retained \in [Dir -> [made : BOOLEAN, store : StoreFile, slot : Nat]] =>
         \A d \in Dir : retained[d].store \in StoreFile
  OBVIOUS
<1>2. (\A file \in Files : file.there \/ file = NoStore) <=>
         /\ sessionFile.there \/ sessionFile = NoStore
         /\ pendingFile.there \/ pendingFile = NoStore
         /\ \A d \in Dir : retained[d].store.there \/ retained[d].store = NoStore
  BY DEF Files
<1> QED BY <1>1, <1>2 DEF RelinkTypeOK, FileOK

(* A store that is not there is empty.                                      *)
LEMMA NoStoreIsEmpty ==
  /\ NoStore \in StoreFile /\ NewStore \in StoreFile /\ NewStore.there /\ ~NoStore.there
  /\ NoStore.reg = "none" /\ NoStore.prior = "none" /\ NoStore.chats = {}
  /\ NewStore.reg = "none" /\ NewStore.prior = "none" /\ NewStore.chats = {}
  /\ \A f : FileOK(f) /\ ~f.there => f.reg = "none" /\ f.prior = "none" /\ f.chats = {}
  /\ \A f : FileOK(f) => /\ f.there \in BOOLEAN /\ f.chats \subseteq HistoryRow
                         /\ f.reg \in Account \cup {"none"}
                         /\ f.prior \in Account \cup {"none"}
<1>1. NoStore \in StoreFile BY DEF NoStore, StoreFile
<1>2. \A f \in StoreFile : [f EXCEPT !.there = TRUE] \in StoreFile BY DEF StoreFile
<1>3. NewStore \in StoreFile BY <1>1, <1>2 DEF NewStore
<1>4. /\ NoStore.reg = "none" /\ NoStore.prior = "none" /\ NoStore.chats = {}
      /\ ~NoStore.there
  BY DEF NoStore
<1>5. /\ NewStore.there /\ NewStore.reg = NoStore.reg /\ NewStore.prior = NoStore.prior
      /\ NewStore.chats = NoStore.chats
  BY <1>1 DEF NewStore
<1>6. \A f : FileOK(f) => /\ f.there \in BOOLEAN /\ f.chats \subseteq HistoryRow
                          /\ f.reg \in Account \cup {"none"}
                          /\ f.prior \in Account \cup {"none"}
  BY DEF FileOK, StoreFile
<1> QED BY <1>1, <1>3, <1>6, <1>4, <1>5 DEF FileOK

(* ~sessionFile.there stays until a store is placed or created.             *)
LEMMA StoreAwayKept ==
  ASSUME RelinkTypeOK, Plan(todo), RelinkNext, StoreAway
  PROVE  StoreAway'
<1> SUFFICES ASSUME NEW i, Near(todo', i, Steady), todo'[i].op \in {"place", "create"}
             PROVE  ~sessionFile'.there
  BY DEF StoreAway
<1>1. CASE todo'[1].op \in Steady
  <2>1. todo'[i].op \notin Steady BY DEF Steady
  <2>2. \/ /\ WriteSlot \/ WriteMark \/ Repair \/ SlotFails \/ LinkPending \/ Publish
           /\ \E k : Near(todo, k, Steady) /\ todo[k] = todo'[i]
        \/ MoveIn
    BY <1>1, <2>1, NearSteady
  <2>3. CASE /\ WriteSlot \/ WriteMark \/ Repair \/ SlotFails \/ LinkPending \/ Publish
             /\ \E k : Near(todo, k, Steady) /\ todo[k] = todo'[i]
    <3>1. sessionFile' = sessionFile
      BY <2>3 DEF WriteSlot, WriteMark, Repair, SlotFails, LinkPending, Publish, KeepFiles
    <3>2. ~sessionFile.there BY <2>3 DEF StoreAway
    <3> QED BY <3>1, <3>2
  <2>4. CASE MoveIn BY <2>4, NoStoreIsEmpty DEF MoveIn
  <2> QED BY <2>2, <2>3, <2>4
<1>2. CASE todo'[1].op \notin Steady
  <2>1. i = 1 /\ todo' # <<>>
    <3>1. i = 1 BY <1>2, NearFirst
    <3>2. 1 \in 1 .. Len(todo') BY <3>1 DEF Near
    <3> QED BY <3>1, <3>2
  <2>2. Moved BY Moves
  <2>3. \/ WriteMark \/ SlotFails
        \/ Separate /\ todo'[1].op = "place"
        \/ (Receive \/ LinkDropsScratch \/ Clear) /\ todo' = todo
    BY <2>1, <2>2 DEF Moved, FirstOps
  <2>4. CASE (Receive \/ LinkDropsScratch \/ Clear) /\ todo' = todo
    BY <2>1, <2>4 DEF Receive, LinkDropsScratch, Clear, Calling
  <2>5. CASE WriteMark \/ SlotFails
    <3>1. SlotOps \cup {"repair"} \subseteq Steady BY DEF SlotOps, Steady
    <3>2. \E k : Near(todo, k, Steady) /\ todo[k] = todo'[i]
      <4>1. \/ \E k : Near(todo, k, Steady) /\ todo[k] = todo'[i]
            \/ WriteSlot /\ todo'[i] = Call("mark", "none", NextSlot + 1)
            \/ Repair /\ \E d \in Stores : todo'[i] = Call("slot", d[1], d[2])
        BY <2>5, <3>1, NearSlots
      <4>2. Call("mark", "none", NextSlot + 1).op = "mark"
            /\ \A d \in Stores : Call("slot", d[1], d[2]).op = "slot"
        BY DEF Call
      <4> QED BY <4>1, <4>2
    <3>3. ~sessionFile.there BY <3>2 DEF StoreAway
    <3>4. sessionFile' = sessionFile BY <2>5 DEF WriteMark, SlotFails, KeepFiles
    <3> QED BY <3>3, <3>4
  <2>6. CASE Separate /\ todo'[1].op = "place"
    <3> DEFINE u == Tail(todo)
    <3>1. /\ sessionFile' = sessionFile /\ todo # <<>>
          /\ \/ ~sessionFile.there
             \/ todo' = <<>> \o u /\ Calling("separate")
             \/ todo' = MergeLinked \o u
             \/ \E a : todo' = <<DoFor("park", a), Do("place")>> \o u
      BY <2>6 DEF Separate, Then, KeepFiles, Calling
    <3>2. /\ u \in Seq(Calls)
          /\ u # <<>> => u[1] = todo[2] /\ Leads(todo[1].op, todo[2].op)
      BY <3>1, TailCalls DEF Plan
    <3>3. todo' = <<>> \o u /\ Calling("separate") => FALSE
      <4> SUFFICES ASSUME todo' = <<>> \o u, Calling("separate") PROVE FALSE OBVIOUS
      <4>1. todo' = u BY <3>2
      <4> QED BY <4>1, <3>2, <2>1, <2>6 DEF Calling, Leads
    <3>4. todo' = MergeLinked \o u => FALSE
      <4> SUFFICES ASSUME todo' = MergeLinked \o u PROVE FALSE OBVIOUS
      <4>1. todo'[1] = Do("mergePending") BY <3>2 DEF MergeLinked
      <4>2. Do("mergePending").op = "mergePending" BY DEF Do, Call
      <4> QED BY <4>1, <4>2, <2>6
    <3>5. ASSUME NEW a, todo' = <<DoFor("park", a), Do("place")>> \o u PROVE FALSE
      <4>1. todo'[1] = DoFor("park", a) BY <3>2, <3>5
      <4>2. DoFor("park", a).op = "park" BY DEF DoFor, Call
      <4> QED BY <4>1, <4>2, <2>6
    <3> QED BY <3>1, <3>3, <3>4, <3>5
  <2> QED BY <2>3, <2>4, <2>5, <2>6
<1> QED BY <1>1, <1>2

(* The first call is near.                                                  *)
LEMMA NearHead ==
  ASSUME NEW t, Plan(t), t # <<>>, NEW R
  PROVE  Near(t, 1, R)
<1>1. Len(t) \in Nat \ {0} OBVIOUS
<1>2. 1 \in 1 .. Len(t) /\ \A j \in 1 .. 1 - 1 : FALSE BY <1>1
<1> QED BY <1>2 DEF Near, Until

(* What a file keeps when one of its parts changes.                         *)
LEMMA FileParts ==
  ASSUME NEW f \in StoreFile
  PROVE  /\ \A r \in Account \cup {"none"} :
               /\ [f EXCEPT !.reg = r] \in StoreFile
               /\ [f EXCEPT !.reg = r].reg = r /\ [f EXCEPT !.reg = r].there = f.there
               /\ [f EXCEPT !.reg = r].prior = f.prior /\ [f EXCEPT !.reg = r].chats = f.chats
         /\ \A p \in Account \cup {"none"} :
               /\ [f EXCEPT !.prior = p] \in StoreFile
               /\ [f EXCEPT !.prior = p].reg = f.reg /\ [f EXCEPT !.prior = p].there = f.there
               /\ [f EXCEPT !.prior = p].prior = p
               /\ [f EXCEPT !.prior = p].chats = f.chats
         /\ \A c \in SUBSET HistoryRow :
               /\ [f EXCEPT !.chats = c] \in StoreFile
               /\ [f EXCEPT !.chats = c].reg = f.reg /\ [f EXCEPT !.chats = c].there = f.there
               /\ [f EXCEPT !.chats = c].prior = f.prior /\ [f EXCEPT !.chats = c].chats = c
<1>1. \A r \in Account \cup {"none"} : [f EXCEPT !.reg = r] \in StoreFile BY DEF StoreFile
<1>2. \A p \in Account \cup {"none"} : [f EXCEPT !.prior = p] \in StoreFile BY DEF StoreFile
<1>3. \A c \in SUBSET HistoryRow : [f EXCEPT !.chats = c] \in StoreFile BY DEF StoreFile
<1> QED BY <1>1, <1>2, <1>3

(* What a merge writes.                                                     *)
LEMMA MergeParts ==
  ASSUME NEW f \in StoreFile, NEW g \in StoreFile
  PROVE  /\ MergeInto(f, g) \in StoreFile
         /\ MergeInto(f, g).there = f.there
         /\ MergeInto(f, g).reg = IF f.reg = "none" THEN g.reg ELSE f.reg
         /\ MergeInto(f, g).prior = IF f.prior = "none" THEN g.prior ELSE f.prior
         /\ MergeInto(f, g).chats = f.chats \cup g.chats
<1> DEFINE r == IF f.reg = "none" THEN g.reg ELSE f.reg
           p == IF f.prior = "none" THEN g.prior ELSE f.prior
           c == f.chats \cup g.chats
<1>1. r \in Account \cup {"none"} BY DEF StoreFile
<1>2. p \in Account \cup {"none"} BY DEF StoreFile
<1>3. c \subseteq HistoryRow BY DEF StoreFile
<1>4. MergeInto(f, g) = [f EXCEPT !.reg = r, !.prior = p, !.chats = c] BY DEF MergeInto
<1> HIDE DEF r, p, c
<1>5. [f EXCEPT !.reg = r, !.prior = p, !.chats = c] \in StoreFile
  BY <1>1, <1>2, <1>3 DEF StoreFile
<1>6. /\ [f EXCEPT !.reg = r, !.prior = p, !.chats = c].there = f.there
      /\ [f EXCEPT !.reg = r, !.prior = p, !.chats = c].reg = r
      /\ [f EXCEPT !.reg = r, !.prior = p, !.chats = c].prior = p
      /\ [f EXCEPT !.reg = r, !.prior = p, !.chats = c].chats = c
  OBVIOUS
<1> QED BY <1>4, <1>5, <1>6 DEF r, p, c

(* A part of a store that a copy wrote.                                     *)
LEMMA PartParts ==
  ASSUME NEW f \in StoreFile, NEW g \in PartOf(f)
  PROVE  /\ g \in StoreFile /\ g.there = f.there /\ g.reg \in {"none", f.reg}
         /\ g.prior \in {"none", f.prior} /\ g.chats \subseteq f.chats
<1>1. PICK r \in {"none", f.reg}, p \in {"none", f.prior}, c \in {{}, f.chats} :
         g = [f EXCEPT !.reg = r, !.prior = p, !.chats = c]
  BY DEF PartOf
<1>2. r \in Account \cup {"none"} /\ p \in Account \cup {"none"} /\ c \subseteq HistoryRow
  BY DEF StoreFile
<1>3. g \in StoreFile BY <1>1, <1>2 DEF StoreFile
<1>4. g.there = f.there /\ g.reg = r /\ g.prior = p /\ g.chats = c BY <1>1
<1>5. c \subseteq f.chats OBVIOUS
<1> QED BY <1>3, <1>4, <1>5

(* No account is registered until a link is made.                           *)
LEMMA NoAccountOpenKept ==
  ASSUME RelinkTypeOK, Plan(todo), RelinkNext, NoAccountOpen
  PROVE  NoAccountOpen'
<1> SUFFICES ASSUME NEW i, Near(todo', i, Steady),
                    todo'[i].op \in {"separate", "park", "moveIn", "link"}
             PROVE  sessionFile'.reg = "none"
  BY DEF NoAccountOpen
<1>1. ASSUME todo # <<>>, todo[1].op \in {"separate", "park", "moveIn", "link"}
      PROVE  sessionFile.reg = "none"
  <2>1. Near(todo, 1, Steady) BY <1>1, NearHead
  <2> QED BY <1>1, <2>1 DEF NoAccountOpen
<1>2. FileOK(sessionFile) BY TypesApart
<1>3. ASSUME WriteSlot \/ WriteMark \/ Repair \/ SlotFails \/ LinkPending \/ Publish,
             \E k : Near(todo, k, Steady) /\ todo[k] = todo'[i]
      PROVE  sessionFile'.reg = "none"
  <2>1. sessionFile' = sessionFile
    BY <1>3 DEF WriteSlot, WriteMark, Repair, SlotFails, LinkPending, Publish, KeepFiles
  <2>2. sessionFile.reg = "none" BY <1>3 DEF NoAccountOpen
  <2> QED BY <2>1, <2>2
<1>4. CASE todo'[1].op \in Steady
  <2>1. todo'[i].op \notin Steady BY DEF Steady
  <2>2. \/ /\ WriteSlot \/ WriteMark \/ Repair \/ SlotFails \/ LinkPending \/ Publish
           /\ \E k : Near(todo, k, Steady) /\ todo[k] = todo'[i]
        \/ Recover \/ LinkPlacesPending \/ LinkBeside
    <3>1. \/ /\ WriteSlot \/ WriteMark \/ Repair \/ SlotFails \/ LinkPending \/ Publish
             /\ \E k : Near(todo, k, Steady) /\ todo[k] = todo'[i]
          \/ MoveIn /\ todo'[i].op \in {"place", "create"}
          \/ Adopt /\ todo'[i].op \in {"open", "openResume"}
          \/ (Recover \/ LinkPlacesPending \/ LinkBeside) /\ todo'[i].op = "separate"
          \/ (OpenExisting \/ LinkSession \/ Load) /\ todo'[i].op = "receive"
      BY <1>4, <2>1, NearSteady
    <3>2. todo'[i].op \notin {"place", "create", "open", "openResume", "receive"} OBVIOUS
    <3> QED BY <3>1, <3>2
  <2>3. CASE LinkPlacesPending \/ LinkBeside
    <3>1. todo # <<>> /\ todo[1].op = "link" /\ sessionFile' = sessionFile
      BY <2>3 DEF LinkPlacesPending, LinkBeside, Calling, KeepFiles
    <3> QED BY <1>1, <3>1
  <2>4. CASE Recover
    <3> DEFINE u == Tail(todo)
    <3>1. /\ sessionFile' = sessionFile /\ todo # <<>>
          /\ \/ ~sessionFile.there \/ sessionFile.reg = "none"
             \/ todo' = <<>> \o u /\ Calling("recover")
             \/ todo' = MergeLinked \o u
      BY <2>4 DEF Recover, Then, KeepFiles, Calling
    <3>2. /\ u \in Seq(Calls)
          /\ u # <<>> => u[1] = todo[2] /\ Leads(todo[1].op, todo[2].op)
          /\ u = <<>> => todo[1].op \in Lasts
      BY <3>1, TailCalls DEF Plan
    <3>3. todo' = <<>> \o u /\ Calling("recover") => FALSE
      <4> SUFFICES ASSUME todo' = <<>> \o u, Calling("recover") PROVE FALSE OBVIOUS
      <4>1. todo' = u BY <3>2
      <4> QED BY <4>1, <3>2, <1>4 DEF Calling, Leads, Lasts, Steady
    <3>4. todo' = MergeLinked \o u => FALSE
      <4> SUFFICES ASSUME todo' = MergeLinked \o u PROVE FALSE OBVIOUS
      <4>1. todo'[1] = Do("mergePending") BY <3>2 DEF MergeLinked
      <4>2. Do("mergePending").op = "mergePending" BY DEF Do, Call
      <4> QED BY <4>1, <4>2, <1>4 DEF Steady
    <3> QED BY <1>2, <3>1, <3>3, <3>4, NoStoreIsEmpty
  <2> QED BY <1>3, <2>2, <2>3, <2>4
<1>5. CASE todo'[1].op \notin Steady
  <2>1. i = 1 /\ todo' # <<>>
    <3>1. i = 1 BY <1>5, NearFirst
    <3>2. 1 \in 1 .. Len(todo') BY <3>1 DEF Near
    <3> QED BY <3>1, <3>2
  <2>2. Moved BY Moves
  <2>3. \/ WriteMark \/ SlotFails \/ Repair
        \/ Separate \/ Park \/ LinkAfterPark \/ OpenProvision
        \/ (Receive \/ LinkDropsScratch \/ Clear) /\ todo' = todo
    BY <2>1, <2>2 DEF Moved, FirstOps
  <2>4. CASE (Receive \/ LinkDropsScratch \/ Clear) /\ todo' = todo
    <3>1. LinkDropsScratch /\ todo # <<>> BY <2>1, <2>4 DEF Receive, Clear, Calling
    <3> QED BY <1>1, <2>1, <2>4, <3>1 DEF LinkDropsScratch
  <2>5. CASE WriteMark \/ SlotFails \/ Repair
    <3>1. SlotOps \cup {"repair"} \subseteq Steady BY DEF SlotOps, Steady
    <3>2. \E k : Near(todo, k, Steady) /\ todo[k] = todo'[i]
      <4>1. \/ \E k : Near(todo, k, Steady) /\ todo[k] = todo'[i]
            \/ todo'[i] = Call("mark", "none", NextSlot + 1)
            \/ \E d \in Stores : todo'[i] = Call("slot", d[1], d[2])
        BY <2>5, <3>1, NearSlots
      <4>2. /\ Call("mark", "none", NextSlot + 1).op = "mark"
            /\ \A d \in Stores : Call("slot", d[1], d[2]).op = "slot"
        BY DEF Call
      <4> QED BY <4>1, <4>2
    <3> QED BY <2>5, <3>2, <1>3
  <2>6. CASE Separate \/ Park \/ LinkAfterPark
    <3>1. /\ todo # <<>> /\ todo[1].op \in {"separate", "park", "link"}
          /\ sessionFile' = sessionFile
      BY <2>6 DEF Separate, Park, LinkAfterPark, Calling, KeepFiles
    <3> QED BY <1>1, <3>1
  <2>7. CASE OpenProvision
    <3>1. CASE sessionFile.there BY <2>7, <3>1 DEF OpenProvision, Linked
    <3>2. CASE ~sessionFile.there BY <2>7, <3>2, NoStoreIsEmpty DEF OpenProvision
    <3> QED BY <3>1, <3>2
  <2> QED BY <2>3, <2>4, <2>5, <2>6, <2>7
<1> QED BY <1>4, <1>5

(* The account that is received stays the one of the file.                  *)
LEMMA AccountReceivesKept ==
  ASSUME RelinkTypeOK, Plan(todo), RelinkNext, AccountReceives
  PROVE  AccountReceives'
<1> SUFFICES ASSUME NEW i, Near(todo', i, Steady), todo'[i].op = "receive"
             PROVE  live' \in Account /\ live' = sessionFile'.reg
  BY DEF AccountReceives
<1>1. sessionFile \in StoreFile /\ sessionFile.reg \in Account \cup {"none"}
  BY DEF RelinkTypeOK, StoreFile
<1>2. ASSUME WriteSlot \/ WriteMark \/ Repair \/ SlotFails \/ LinkPending \/ Publish,
             \E k : Near(todo, k, Steady) /\ todo[k] = todo'[i]
      PROVE  live' \in Account /\ live' = sessionFile'.reg
  <2>1. sessionFile' = sessionFile /\ live' = live
    BY <1>2 DEF WriteSlot, WriteMark, Repair, SlotFails, LinkPending, Publish, KeepFiles,
                KeepRest, LogFailure
  <2>2. live \in Account /\ live = sessionFile.reg BY <1>2 DEF AccountReceives
  <2> QED BY <2>1, <2>2
<1>3. CASE todo'[1].op \in Steady
  <2>1. todo'[i].op \notin Steady BY DEF Steady
  <2>2. \/ /\ WriteSlot \/ WriteMark \/ Repair \/ SlotFails \/ LinkPending \/ Publish
           /\ \E k : Near(todo, k, Steady) /\ todo[k] = todo'[i]
        \/ OpenExisting \/ LinkSession \/ Load
    <3>1. \/ /\ WriteSlot \/ WriteMark \/ Repair \/ SlotFails \/ LinkPending \/ Publish
             /\ \E k : Near(todo, k, Steady) /\ todo[k] = todo'[i]
          \/ MoveIn /\ todo'[i].op \in {"place", "create"}
          \/ Adopt /\ todo'[i].op \in {"open", "openResume"}
          \/ (Recover \/ LinkPlacesPending \/ LinkBeside) /\ todo'[i].op = "separate"
          \/ (OpenExisting \/ LinkSession \/ Load) /\ todo'[i].op = "receive"
      BY <1>3, <2>1, NearSteady
    <3>2. todo'[i].op \notin {"place", "create", "open", "openResume", "separate"} OBVIOUS
    <3> QED BY <3>1, <3>2
  <2>3. CASE OpenExisting \/ Load
    <3>1. live' = sessionFile.reg /\ sessionFile' = sessionFile /\ sessionFile.reg # "none"
      BY <2>3 DEF OpenExisting, Load, Linked, KeepFiles
    <3> QED BY <1>1, <3>1
  <2>4. CASE LinkSession
    <3>1. PICK a \in Account : sessionFile' = [sessionFile EXCEPT !.reg = a] /\ live' = a
      BY <2>4 DEF LinkSession
    <3>2. [sessionFile EXCEPT !.reg = a].reg = a BY <1>1
    <3> QED BY <3>1, <3>2
  <2> QED BY <1>2, <2>2, <2>3, <2>4
<1>4. CASE todo'[1].op \notin Steady
  <2>1. i = 1 /\ todo' # <<>>
    <3>1. i = 1 BY <1>4, NearFirst
    <3>2. 1 \in 1 .. Len(todo') BY <3>1 DEF Near
    <3> QED BY <3>1, <3>2
  <2>2. Moved BY Moves
  <2>3. Publish \/ ((Receive \/ LinkDropsScratch \/ Clear) /\ todo' = todo)
    BY <2>1, <2>2 DEF Moved, FirstOps
  <2>4. CASE (Receive \/ LinkDropsScratch \/ Clear) /\ todo' = todo
    <3>1. Receive /\ todo # <<>> /\ todo[1].op = "receive"
      BY <2>1, <2>4 DEF Clear, LinkDropsScratch, Calling
    <3>2. Near(todo, 1, Steady) BY <3>1, NearHead
    <3>3. live \in Account /\ live = sessionFile.reg BY <3>1, <3>2 DEF AccountReceives
    <3> DEFINE c == sessionFile.chats \cup {<<live, links>>}
    <3>4. sessionFile' = [sessionFile EXCEPT !.chats = c] /\ live' = live
      BY <3>1 DEF Receive, KeepRest
    <3> HIDE DEF c
    <3>5. [sessionFile EXCEPT !.chats = c].reg = sessionFile.reg BY <1>1
    <3> QED BY <3>3, <3>4, <3>5
  <2>5. CASE Publish
    <3>1. todo # <<>> /\ todo[1].op \in Steady /\ todo' = Tail(todo)
      BY <2>5 DEF Publish, Calling, Done, Steady
    <3>2. Near(Tail(todo), i, Steady) BY <3>1
    <3>3. Tail(todo)[i] = todo[i + 1] /\ Near(todo, i + 1, Steady)
      BY <3>1, <3>2, NearPopped
    <3> QED BY <1>2, <2>5, <3>1, <3>3
  <2> QED BY <2>3, <2>4, <2>5
<1> QED BY <1>3, <1>4

(* The next call finds the file that it works on.                           *)
LEMMA HeadNeedsKept ==
  ASSUME RelinkTypeOK, Plan(todo), RelinkNext, HeadNeeds, AccountReceives
  PROVE  HeadNeeds'
<1> SUFFICES ASSUME todo' # <<>>
             PROVE  /\ todo'[1].op \in NeedStore => sessionFile'.there
                    /\ todo'[1].op = "linkPending" => pendingFile'.there
                    /\ todo'[1].op = "moveIn" =>
                          ~retained'[<<todo'[1].who, todo'[1].n>>].store.there
  BY DEF HeadNeeds, TheDir
<1>1. /\ sessionFile \in StoreFile /\ pendingFile \in StoreFile
      /\ \A d \in Dir : retained[d].store \in StoreFile
  BY TypesApart DEF FileOK
<1>2. todo # <<>> => todo[1] \in Calls BY PlanHead
<1>3. Moved BY Moves
<1>4. \/ LinkDropsScratch \/ Clear \/ Recover \/ Separate \/ Park
      \/ PlaceReturning /\ todo'[1].op \in {"copy", "clear"}
      \/ Merge /\ todo'[1].op \in {"dropPending", "copy", "clear"}
      \/ /\ DropPending \/ Absorb \/ RemovalFails \/ ForgetPrior \/ LinkInPlace
         /\ todo'[1].op \notin {"linkPending", "moveIn"}
      \/ (Wipe \/ WipeKeys \/ WipeFails) /\ todo'[1].op \in {"wipeKeys", "remember"}
      \/ OpenProvision /\ todo'[1].op = "link"
      \/ LinkBeside /\ todo'[1].op = "linkPending"
      \/ Create /\ todo'[1].op = "linkSession"
      \/ RemoveDevice /\ todo'[1].op = "wipe"
      \/ todo'[1].op \notin NeedStore \cup {"linkPending", "moveIn"}
  <2>1. Receive /\ todo' = todo => todo'[1].op \notin NeedStore \cup {"linkPending", "moveIn"}
    BY DEF Receive, Calling, NeedStore
  <2> QED BY <1>3, <2>1 DEF Moved, FirstOps, NeedStore
<1>5. ASSUME NEW o \in NeedStore, Calling(o) PROVE sessionFile.there
  BY <1>5 DEF Calling, HeadNeeds
<1>6. CASE LinkDropsScratch \/ Clear
  <2>1. sessionFile.there BY <1>5, <1>6 DEF LinkDropsScratch, Clear, NeedStore
  <2>2. sessionFile' = sessionFile BY <1>6 DEF LinkDropsScratch, Clear
  <2>3. todo'[1].op \notin {"linkPending", "moveIn"}
    <3>1. \/ todo' = todo /\ (Calling("link") \/ Calling("clear"))
          \/ Clear /\ todo' = Tail(todo) /\ Calling("clear")
      BY <1>6 DEF LinkDropsScratch, Clear, Done
    <3>2. CASE todo' = todo /\ (Calling("link") \/ Calling("clear")) BY <3>2 DEF Calling
    <3>3. CASE Clear /\ todo' = Tail(todo) /\ Calling("clear")
      <4>1. todo # <<>> /\ todo[1].op = "clear" BY <3>3 DEF Calling
      <4>2. todo'[1] = todo[2] /\ Leads(todo[1].op, todo[2].op) BY <4>1, <3>3, TailCalls
      <4> QED BY <4>1, <4>2 DEF Leads
    <3> QED BY <3>1, <3>2, <3>3
  <2> QED BY <2>1, <2>2, <2>3
<1>7. CASE Recover \/ Separate
  <2> DEFINE u == Tail(todo)
  <2>1. /\ sessionFile' = sessionFile /\ todo # <<>>
        /\ Calling("recover") \/ Calling("separate")
        /\ \/ sessionFile.there /\ todo' = MergeLinked \o u
           \/ todo' = <<>> \o u
           \/ todo' = <<Do("repair"), Do("separate")>> \o u
           \/ todo' = <<Do("place")>> \o u
           \/ \E a : todo' = <<DoFor("park", a), Do("place")>> \o u
    BY <1>7 DEF Recover, Separate, Then, KeepFiles, Calling
  <2>2. /\ u \in Seq(Calls)
        /\ u # <<>> => u[1] = todo[2] /\ Leads(todo[1].op, todo[2].op)
    BY <2>1, TailCalls DEF Plan
  <2>3. CASE todo' = <<>> \o u
    <3>1. todo' = u BY <2>2, <2>3
    <3>2. todo'[1].op \in {"adopt", "load"} BY <3>1, <2>1, <2>2 DEF Calling, Leads
    <3> QED BY <3>2 DEF NeedStore
  <2>4. CASE todo' = <<Do("repair"), Do("separate")>> \o u
    <3>1. todo'[1] = Do("repair") BY <2>2, <2>4
    <3>2. Do("repair").op = "repair" BY DEF Do, Call
    <3> QED BY <3>1, <3>2 DEF NeedStore
  <2>5. CASE todo' = <<Do("place")>> \o u
    <3>1. todo'[1] = Do("place") BY <2>2, <2>5
    <3>2. Do("place").op = "place" BY DEF Do, Call
    <3> QED BY <3>1, <3>2 DEF NeedStore
  <2>6. ASSUME NEW a, todo' = <<DoFor("park", a), Do("place")>> \o u
        PROVE  todo'[1].op \notin NeedStore \cup {"linkPending", "moveIn"}
    <3>1. todo'[1] = DoFor("park", a) BY <2>2, <2>6
    <3>2. DoFor("park", a).op = "park" BY DEF DoFor, Call
    <3> QED BY <3>1, <3>2 DEF NeedStore
  <2>7. CASE sessionFile.there /\ todo' = MergeLinked \o u
    <3>1. todo'[1] = Do("mergePending") BY <2>2, <2>7 DEF MergeLinked
    <3>2. Do("mergePending").op = "mergePending" BY DEF Do, Call
    <3> QED BY <3>1, <3>2, <2>1, <2>7
  <2> QED BY <2>1, <2>3, <2>4, <2>5, <2>6, <2>7
<1>8. CASE Park
  <2> DEFINE a == Who
             n == CHOOSE m \in Unused(a) : \A j \in Unused(a) : m <= j
             u == Tail(todo)
  <2>1. /\ todo # <<>> /\ todo[1].op = "park" /\ Unused(a) # {}
        /\ retained' = [retained EXCEPT ![<<a, n>>].made = TRUE]
        /\ todo' = <<Call("moveIn", a, n), Call("slot", a, n)>> \o u
    BY <1>8 DEF Park, Then, Calling
  <2>2. a \in Owner BY <2>1, <1>2 DEF Calls, Who
  <2>3. <<a, n>> \in Dir /\ ~retained[<<a, n>>].made BY <2>1, <2>2, ParkDir
  <2>4. u \in Seq(Calls) BY <2>1 DEF Plan
  <2> HIDE DEF a, n, u
  <2>5. todo'[1] = Call("moveIn", a, n) BY <2>1, <2>4
  <2>6. todo'[1].op = "moveIn" /\ todo'[1].who = a /\ todo'[1].n = n BY <2>5 DEF Call
  <2>7. ~retained[<<a, n>>].store.there BY <2>3, TypesApart
  <2>8. retained'[<<a, n>>].store = retained[<<a, n>>].store
    BY <2>1, <2>3
  <2> QED BY <2>6, <2>7, <2>8 DEF NeedStore
<1>9. CASE PlaceReturning /\ todo'[1].op \in {"copy", "clear"}
  <2> DEFINE back == Newest(StoresOf(pendingFile.reg))
  <2>1. sessionFile' = retained[back].store /\ StoresOf(pendingFile.reg) # {}
    BY <1>9 DEF PlaceReturning
  <2>2. StoresOf(pendingFile.reg) \subseteq Stores BY DEF StoresOf
  <2>3. back \in Stores BY <2>1, <2>2, NewestIsOne
  <2>4. sessionFile'.there BY <2>1, <2>3 DEF Stores
  <2> QED BY <2>4, <1>9
<1>10. CASE Merge /\ todo'[1].op \in {"dropPending", "copy", "clear"}
  <2>1. /\ Calling("mergePending") \/ Calling("copy")
        /\ sessionFile' = MergeInto(sessionFile, Source)
    BY <1>10 DEF Merge
  <2>2. sessionFile.there BY <2>1, <1>5 DEF NeedStore
  <2>3. Source \in StoreFile
    <3>1. CASE Calling("copy")
      <4>1. TheDir \in Dir BY <3>1, <1>2 DEF Calling, Calls, TheDir
      <4> QED BY <4>1, <3>1, <1>1 DEF Source
    <3>2. CASE Calling("mergePending") BY <3>2, <1>1 DEF Source, Calling
    <3> QED BY <2>1, <3>1, <3>2
  <2>4. sessionFile'.there = sessionFile.there BY <2>1, <2>3, <1>1, MergeParts
  <2> QED BY <2>2, <2>4, <1>10
<1>11. CASE /\ DropPending \/ Absorb \/ RemovalFails \/ ForgetPrior \/ LinkInPlace
            /\ todo'[1].op \notin {"linkPending", "moveIn"}
  <2>1. sessionFile.there
    BY <1>5, <1>11
    DEF DropPending, Absorb, RemovalFails, ForgetPrior, LinkInPlace, NeedStore
  <2>2. sessionFile'.there = sessionFile.there
    <3>1. CASE DropPending \/ Absorb \/ RemovalFails \/ LinkInPlace
      BY <3>1 DEF DropPending, Absorb, RemovalFails, LinkInPlace, KeepFiles
    <3>2. CASE ForgetPrior
      <4>1. sessionFile' = [sessionFile EXCEPT !.prior = "none"] BY <3>2 DEF ForgetPrior
      <4> QED BY <4>1, <1>1
    <3> QED BY <1>11, <3>1, <3>2
  <2> QED BY <2>1, <2>2, <1>11
<1>12. CASE (Wipe \/ WipeKeys \/ WipeFails) /\ todo'[1].op \in {"wipeKeys", "remember"}
  <2>1. sessionFile.there BY <1>5, <1>12 DEF Wipe, WipeKeys, WipeFails, NeedStore
  <2>2. sessionFile'.there = sessionFile.there
    <3>1. CASE WipeFails BY <3>1 DEF WipeFails, KeepFiles
    <3>2. CASE Wipe
      <4>1. sessionFile' = [sessionFile EXCEPT !.reg = "none"] BY <3>2 DEF Wipe
      <4> QED BY <4>1, <1>1
    <3>3. CASE WipeKeys
      <4>1. sessionFile' = [sessionFile EXCEPT !.reg = "none", !.prior = "none"]
        BY <3>3 DEF WipeKeys
      <4> QED BY <4>1, <1>1
    <3> QED BY <1>12, <3>1, <3>2, <3>3
  <2> QED BY <2>1, <2>2, <1>12
<1>13. CASE OpenProvision /\ todo'[1].op = "link"
  <2>1. sessionFile'.there BY <1>13, NoStoreIsEmpty DEF OpenProvision
  <2> QED BY <2>1, <1>13
<1>14. CASE LinkBeside /\ todo'[1].op = "linkPending"
  BY <1>14, NoStoreIsEmpty DEF LinkBeside, NeedStore
<1>15. CASE Create /\ todo'[1].op = "linkSession" BY <1>15, NoStoreIsEmpty DEF Create
<1>16. CASE RemoveDevice /\ todo'[1].op = "wipe"
  <2>1. todo # <<>> /\ todo[1].op = "receive" /\ sessionFile' = sessionFile
    BY <1>16 DEF RemoveDevice, Calling, KeepFiles
  <2>2. Near(todo, 1, Steady) BY <2>1, NearHead
  <2>3. sessionFile.reg \in Account BY <2>1, <2>2 DEF AccountReceives
  <2>4. sessionFile.there
    <3>1. FileOK(sessionFile) BY TypesApart
    <3>2. sessionFile.reg # "none" BY <2>3, RelinkBounds
    <3> QED BY <3>1, <3>2, NoStoreIsEmpty
  <2> QED BY <2>1, <2>4, <1>16
<1> QED BY <1>4, <1>6, <1>7, <1>8, <1>9, <1>10, <1>11, <1>12, <1>13, <1>14, <1>15, <1>16

(* A directory that is still to be numbered stays.                          *)
LEMMA SlotsMadeKept ==
  ASSUME RelinkTypeOK, Plan(todo), Plan(todo'), RelinkNext, SlotsMade
  PROVE  SlotsMade'
<1> SUFFICES ASSUME NEW i, Near(todo', i, Numbering), todo'[i].op \in {"slot", "moveIn"}
             PROVE  retained'[<<todo'[i].who, todo'[i].n>>].made
  BY DEF SlotsMade
<1>1. /\ retained \in [Dir -> [made : BOOLEAN, store : StoreFile, slot : Nat]]
      /\ \A d \in Stores : d \in Dir /\ retained[d].made
  BY TypesApart DEF Stores
<1>2. todo' # <<>> /\ todo'[1].op \in Numbering
  <2>1. i \in 1 .. Len(todo') BY DEF Near
  <2>2. i = 1 \/ todo'[1].op \in Numbering BY NearFirst
  <2>3. i = 1 => todo'[1].op \in Numbering BY DEF Numbering, SlotOps
  <2> QED BY <2>1, <2>2, <2>3
<1>3. Moved BY Moves
<1>4. ASSUME NEW k, Near(todo, k, Numbering), todo[k] = todo'[i],
             MoveIn \/ WriteSlot \/ WriteMark \/ Repair
      PROVE  retained'[<<todo'[i].who, todo'[i].n>>].made
  <2> DEFINE d == <<todo'[i].who, todo'[i].n>>
  <2>1. retained[d].made BY <1>4 DEF SlotsMade
  <2>2. d \in Dir
    <3>1. k \in 1 .. Len(todo) /\ todo \in Seq(Calls) BY <1>4 DEF Near, Plan
    <3>2. todo[k] \in Calls BY <3>1
    <3> QED BY <3>2, <1>4 DEF Calls
  <2>3. retained'[d].made = retained[d].made
    <3> HIDE DEF d
    <3>1. CASE WriteMark \/ Repair BY <3>1 DEF WriteMark, Repair
    <3>2. CASE MoveIn
      <4>1. retained' = [retained EXCEPT ![TheDir].store = sessionFile]
        BY <3>2 DEF MoveIn
      <4> QED BY <4>1, <2>2, <1>1
    <3>3. CASE WriteSlot
      <4>1. retained' = [retained EXCEPT ![TheDir].slot = NextSlot]
        BY <3>3 DEF WriteSlot
      <4> QED BY <4>1, <2>2, <1>1
    <3> QED BY <1>4, <3>1, <3>2, <3>3
  <2> QED BY <2>1, <2>3
<1>5. CASE todo'[1].op = "repair"
  <2>1. /\ Len(todo') > 1 => Leads(todo'[1].op, todo'[2].op)
        /\ Len(todo') \in Nat
    BY <1>2, PlanHead
  <2>2. i \in 1 .. Len(todo') /\ i \in Nat \ {0} /\ (i \in {1, 2} \/ todo'[2].op \in Numbering)
    <3>1. i \in 1 .. Len(todo') BY DEF Near
    <3>2. i \in Nat \ {0} /\ (i \in {1, 2} \/ todo'[2].op \in Numbering) BY NearFirst
    <3> QED BY <3>1, <3>2
  <2>3. i # 1 BY <1>5
  <2>4. todo'[2].op \in {"separate", "publish"} BY <2>1, <2>2, <2>3, <1>5 DEF Leads
  <2>5. i = 2 BY <2>2, <2>3, <2>4 DEF Numbering, SlotOps
  <2> QED BY <2>4, <2>5
<1>6. CASE todo'[1].op # "repair"
  <2>1. Park \/ MoveIn \/ WriteSlot \/ WriteMark \/ Repair
    <3>1. (Receive \/ LinkDropsScratch \/ Clear) /\ todo' = todo => todo'[1].op \notin Numbering
      BY DEF Receive, LinkDropsScratch, Clear, Calling, Numbering, SlotOps
    <3> QED BY <1>2, <1>3, <1>6, <3>1 DEF Moved, FirstOps, Numbering, SlotOps
  <2>2. CASE WriteSlot \/ WriteMark \/ Repair
    <3>1. \/ \E k : Near(todo, k, Numbering) /\ todo[k] = todo'[i]
          \/ WriteSlot /\ todo'[i] = Call("mark", "none", NextSlot + 1)
          \/ Repair /\ \E d \in Stores : todo'[i] = Call("slot", d[1], d[2])
      <4>1. SlotOps \cup {"repair"} \subseteq Numbering BY DEF Numbering
      <4> QED BY <2>2, <4>1, NearSlots
    <3>2. CASE \E k : Near(todo, k, Numbering) /\ todo[k] = todo'[i] BY <1>4, <2>2, <3>2
    <3>3. CASE todo'[i] = Call("mark", "none", NextSlot + 1)
      <4>1. todo'[i].op = "mark" BY <3>3 DEF Call
      <4> QED BY <4>1
    <3>4. CASE Repair /\ \E d \in Stores : todo'[i] = Call("slot", d[1], d[2])
      <4>1. PICK d \in Stores : todo'[i] = Call("slot", d[1], d[2]) BY <3>4
      <4>2. todo'[i].who = d[1] /\ todo'[i].n = d[2] BY <4>1 DEF Call
      <4>3. d = <<d[1], d[2]>> BY <1>1 DEF Dir
      <4>4. retained' = retained BY <3>4 DEF Repair
      <4> QED BY <4>2, <4>3, <4>4, <1>1
    <3> QED BY <3>1, <3>2, <3>3, <3>4
  <2>3. CASE MoveIn
    <3>1. todo # <<>> /\ todo[1].op \in Numbering /\ todo' = Tail(todo)
      BY <2>3 DEF MoveIn, Calling, Done, Numbering
    <3>2. Near(Tail(todo), i, Numbering) BY <3>1
    <3>3. Tail(todo)[i] = todo[i + 1] /\ Near(todo, i + 1, Numbering)
      BY <3>1, <3>2, NearPopped
    <3> QED BY <1>4, <2>3, <3>1, <3>3
  <2>4. CASE Park
    <3> DEFINE a == Who
               n == CHOOSE m \in Unused(a) : \A j \in Unused(a) : m <= j
               u == Tail(todo)
               x == Call("moveIn", a, n)
               y == Call("slot", a, n)
    <3>1. /\ todo # <<>> /\ todo[1].op = "park" /\ Unused(a) # {}
          /\ retained' = [retained EXCEPT ![<<a, n>>].made = TRUE]
          /\ todo' = <<x, y>> \o u
      BY <2>4 DEF Park, Then, Calling
    <3>2. todo[1] \in Calls BY <3>1, PlanHead
    <3>3. a \in Owner BY <3>1, <3>2 DEF Calls, Who
    <3>4. <<a, n>> \in Dir BY <3>1, <3>3, ParkDir
    <3>5. /\ u \in Seq(Calls)
          /\ u # <<>> => u[1].op \in {"place", "create"}
      BY <3>1, TailCalls DEF Plan, Leads
    <3> HIDE DEF n
    <3>6. x \in Calls /\ y \in Calls
      <4> DEFINE d == <<a, n>>
      <4>1. d[1] = a /\ d[2] = n /\ d \in Dir BY <3>4
      <4> HIDE DEF d
      <4>2. Call("moveIn", d[1], d[2]) \in Calls /\ Call("slot", d[1], d[2]) \in Calls
        BY <4>1, TheCalls
      <4> QED BY <4>1, <4>2
    <3>7. x.who = a /\ x.n = n /\ y.who = a /\ y.n = n BY DEF Call
    <3>8. todo' = Join(<<x, y>>, u) BY <3>1 DEF Join
    <3> HIDE DEF a, x, y, u
    <3>9. \/ todo'[i] \in {x, y}
          \/ Near(u, i - 2, Numbering) /\ todo'[i] = u[i - 2]
      <4>1. u \in Seq(Calls) BY <3>5
      <4> QED BY <3>6, <3>8, <4>1, NearTwo
    <3>10. CASE todo'[i] \in {x, y}
      <4>1. todo'[i].who = a /\ todo'[i].n = n BY <3>7, <3>10
      <4>2. retained'[<<a, n>>].made BY <3>1, <3>4, <1>1
      <4> QED BY <4>1, <4>2
    <3>11. CASE Near(u, i - 2, Numbering) /\ todo'[i] = u[i - 2]
      <4>1. i - 2 \in 1 .. Len(u) /\ (i - 2 = 1 \/ u[1].op \in Numbering)
        <5>1. i - 2 \in 1 .. Len(u) BY <3>11 DEF Near
        <5>2. i - 2 = 1 \/ u[1].op \in Numbering BY <3>11, NearFirst
        <5> QED BY <5>1, <5>2
      <4>2. u[1].op \in {"place", "create"} BY <4>1, <3>5
      <4>3. todo'[i] = u[1] BY <4>1, <4>2, <3>11 DEF Numbering, SlotOps
      <4> QED BY <4>2, <4>3
    <3> QED BY <3>1, <3>9, <3>10, <3>11
  <2> QED BY <2>1, <2>2, <2>3, <2>4
<1> QED BY <1>5, <1>6

(* The copies of an account, and the removal after them.                    *)
CopyAll(a, D) == CallEach("copy", D) \o <<DoFor("clear", a)>>

(* They are calls, the copies first and the removal last.                   *)
LEMMA CopyAllCalls ==
  ASSUME NEW a \in Account, NEW D, D \subseteq Dir, \A d \in D : d[1] = a
  PROVE  /\ CopyAll(a, D) \in Seq(Calls) /\ Len(CopyAll(a, D)) \in Nat \ {0}
         /\ CopyAll(a, D)[Len(CopyAll(a, D))].op = "clear"
         /\ CopyAll(a, D)[Len(CopyAll(a, D))].who = a
         /\ \A j \in 1 .. Len(CopyAll(a, D)) - 1 :
               \E d \in D : CopyAll(a, D)[j] = Call("copy", d[1], d[2])
         /\ \A d \in D : \E j \in 1 .. Len(CopyAll(a, D)) - 1 :
               CopyAll(a, D)[j] = Call("copy", d[1], d[2])
<1> DEFINE c == CallEach("copy", D)
           k == DoFor("clear", a)
           w == CopyAll(a, D)
           n == Len(c)
<1>1. /\ n \in Nat
      /\ \A i \in 1 .. n : \E d \in D : c[i] = Call("copy", d[1], d[2])
      /\ \A d \in D : \E i \in 1 .. n : c[i] = Call("copy", d[1], d[2])
  BY EachCall
<1>2. k \in Calls /\ k.op = "clear" /\ k.who = a BY TheCalls
<1>3. c \in Seq(Calls)
  <2> DEFINE V == {Call("copy", d[1], d[2]) : d \in D}
  <2>1. c \in Seq(V) BY EachSeq
  <2>2. V \subseteq Calls BY TheCalls
  <2> HIDE DEF c, V
  <2> QED BY <2>1, <2>2
<1>4. w = c \o <<k>> BY DEF CopyAll
<1> HIDE DEF c, k, w
<1>5. /\ c \o <<k>> \in Seq(Calls) /\ Len(c \o <<k>>) = Len(c) + 1
      /\ \A i \in 1 .. Len(c) : (c \o <<k>>)[i] = c[i]
      /\ (c \o <<k>>)[Len(c) + 1] = k
  <2> DEFINE e == <<k>>
  <2>1. e \in Seq(Calls) /\ Len(e) = 1 /\ e[1] = k BY <1>2
  <2> HIDE DEF e
  <2>2. /\ c \o e \in Seq(Calls) /\ Len(c \o e) = Len(c) + Len(e)
        /\ \A i \in 1 .. Len(c) : (c \o e)[i] = c[i]
        /\ \A i \in 1 .. Len(e) : (c \o e)[Len(c) + i] = e[i]
    <3>1. e \in Seq(Calls) BY <2>1
    <3> QED BY <1>3, <3>1
  <2>3. 1 \in 1 .. Len(e) BY <2>1
  <2>4. (c \o e)[Len(c) + 1] = k BY <2>1, <2>2, <2>3
  <2>5. Len(c \o e) = Len(c) + 1 BY <2>1, <2>2
  <2> QED BY <2>2, <2>4, <2>5 DEF e
<1>6. /\ w \in Seq(Calls) /\ Len(w) = n + 1 /\ w[n + 1] = k
      /\ \A i \in 1 .. n : w[i] = c[i]
  BY <1>4, <1>5
<1> HIDE DEF n
<1>7. Len(w) \in Nat \ {0} /\ Len(w) - 1 = n BY <1>1, <1>6
<1>8. w[Len(w)] = k BY <1>6
<1>9. ASSUME NEW j \in 1 .. n PROVE \E d \in D : w[j] = Call("copy", d[1], d[2])
  <2>1. PICK d \in D : c[j] = Call("copy", d[1], d[2]) BY <1>1
  <2> QED BY <2>1, <1>6
<1>10. ASSUME NEW d \in D PROVE \E j \in 1 .. n : w[j] = Call("copy", d[1], d[2])
  <2>1. PICK j \in 1 .. n : c[j] = Call("copy", d[1], d[2]) BY <1>1
  <2> QED BY <2>1, <1>6
<1> QED BY <1>2, <1>6, <1>7, <1>8, <1>9, <1>10 DEF w

(* Such calls before the rest: the removal comes behind all the copies.     *)
LEMMA NearCopies ==
  ASSUME NEW a \in Account, NEW D, D \subseteq Dir, \A d \in D : d[1] = a,
         NEW u \in Seq(Calls), NEW w, w = Join(CopyAll(a, D), u), NEW i
  PROVE  /\ Near(w, i, {"copy"}) /\ w[i].op = "clear" =>
               /\ w[i].who = a
               /\ \A d \in D : \E j \in 1 .. i - 1 : w[j] = Call("copy", d[1], d[2])
         /\ Near(w, i, {"copy", "clear", "mergePending"}) /\ w[i].op = "dropPending" =>
               \E k : Near(u, k, {"copy", "clear", "mergePending"}) /\ u[k] = w[i]
<1> DEFINE c == CopyAll(a, D)
           n == Len(c)
<1>1. /\ c \in Seq(Calls) /\ n \in Nat \ {0} /\ c[n].op = "clear" /\ c[n].who = a
      /\ \A j \in 1 .. n - 1 : \E d \in D : c[j] = Call("copy", d[1], d[2])
      /\ \A d \in D : \E j \in 1 .. n - 1 : c[j] = Call("copy", d[1], d[2])
  BY CopyAllCalls
<1>2. \A d \in D : Call("copy", d[1], d[2]).op = "copy" BY DEF Call
<1> HIDE DEF c
<1>3. w = Join(c, u) BY DEF c
<1>4. \A j \in 1 .. n - 1 : c[j].op = "copy"
  <2> SUFFICES ASSUME NEW j \in 1 .. n - 1 PROVE c[j].op = "copy" OBVIOUS
  <2>1. PICK d \in D : c[j] = Call("copy", d[1], d[2]) BY <1>1
  <2> QED BY <2>1, <1>2
<1>5. \A j \in 1 .. n : w[j] = c[j]
  <2>1. \A j \in 1 .. Len(c) : (c \o u)[j] = c[j] BY <1>1
  <2>2. w = c \o u BY <1>3 DEF Join
  <2> QED BY <2>1, <2>2
<1>6. ASSUME Near(w, i, {"copy"}), w[i].op = "clear"
      PROVE  /\ w[i].who = a
             /\ \A d \in D : \E j \in 1 .. i - 1 : w[j] = Call("copy", d[1], d[2])
  <2>1. \/ Near(c, i, {"copy"}) /\ w[i] = c[i]
        \/ \A j \in 1 .. n : c[j].op \in {"copy"}
    BY <1>1, <1>3, <1>6, NearJoined
  <2>2. n \in 1 .. n BY <1>1
  <2>3. Near(c, i, {"copy"}) /\ w[i] = c[i] BY <2>1, <2>2, <1>1
  <2>4. i \in 1 .. n BY <2>3 DEF Near
  <2>5. i = n
    <3>1. i \notin 1 .. n - 1 BY <2>3, <1>4, <1>6
    <3> QED BY <2>4, <3>1, <1>1
  <2>6. ASSUME NEW d \in D PROVE \E j \in 1 .. i - 1 : w[j] = Call("copy", d[1], d[2])
    <3>1. PICK j \in 1 .. n - 1 : c[j] = Call("copy", d[1], d[2]) BY <1>1
    <3>2. j \in 1 .. n BY <1>1
    <3>3. w[j] = c[j] BY <3>2, <1>5
    <3> QED BY <3>1, <3>3, <2>5
  <2> QED BY <2>3, <2>5, <2>6, <1>1
<1>7. ASSUME Near(w, i, {"copy", "clear", "mergePending"}), w[i].op = "dropPending"
      PROVE  \E k : Near(u, k, {"copy", "clear", "mergePending"}) /\ u[k] = w[i]
  <2> DEFINE R == {"copy", "clear", "mergePending"}
  <2>1. Near(w, i, R) BY <1>7
  <2> HIDE DEF R
  <2>2. \/ Near(c, i, R) /\ w[i] = c[i]
        \/ Near(u, i - n, R) /\ w[i] = u[i - n]
    BY <1>1, <1>3, <2>1, NearJoined
  <2>3. Near(c, i, R) => c[i].op # "dropPending"
    <3> SUFFICES ASSUME Near(c, i, R) PROVE c[i].op # "dropPending" OBVIOUS
    <3>1. i \in 1 .. n BY DEF Near
    <3>2. i = n \/ i \in 1 .. n - 1 BY <3>1, <1>1
    <3> QED BY <3>2, <1>1, <1>4
  <2>4. Near(u, i - n, R) /\ w[i] = u[i - n] BY <2>2, <2>3, <1>7
  <2>5. \E k : Near(u, k, R) /\ u[k] = w[i] BY <2>4
  <2> QED BY <2>5 DEF R
<1> QED BY <1>6, <1>7

(* What a return puts first.                                                *)
LEMMA ReturnCalls ==
  ASSUME RelinkTypeOK, Plan(todo), PlaceReturning
  PROVE  /\ Linked(pendingFile) /\ pendingFile.reg \in Account
         /\ Newest(StoresOf(pendingFile.reg)) \in StoresOf(pendingFile.reg)
         /\ MergeLinked \o Tail(todo) \in Seq(Calls)
         /\ todo' = Join(CopyAll(pendingFile.reg, StoresOf(pendingFile.reg)
                                    \ {Newest(StoresOf(pendingFile.reg))}),
                         MergeLinked \o Tail(todo))
<1> DEFINE reg == pendingFile.reg
           back == Newest(StoresOf(reg))
           D == StoresOf(reg) \ {back}
           c == CopyAll(reg, D)
           u == Tail(todo)
           m == MergeLinked
<1>1. /\ todo # <<>> /\ StoresOf(reg) # {}
      /\ todo' = (CallEach("copy", D) \o <<DoFor("clear", reg)>> \o m) \o u
  BY DEF PlaceReturning, Then, Calling
<1>2. reg \in Account
  <2>1. reg \in Account \cup {"none"} BY TypesApart, NoStoreIsEmpty
  <2>2. PICK d \in StoresOf(reg) : TRUE BY <1>1
  <2>3. d \in Dir /\ d[1] = reg BY <2>2 DEF StoresOf, Stores
  <2>4. reg \in Owner BY <2>3 DEF Dir
  <2>5. reg # "none" BY <2>4, RelinkBounds DEF Owner
  <2> QED BY <2>1, <2>5
<1>3. Linked(pendingFile)
  <2>1. reg # "none" BY <1>2, RelinkBounds
  <2>2. pendingFile.there BY <2>1, TypesApart, NoStoreIsEmpty
  <2> QED BY <2>1, <2>2 DEF Linked
<1>4. back \in StoresOf(reg)
  <2>1. StoresOf(reg) \subseteq Stores BY DEF StoresOf
  <2> QED BY <1>1, <2>1, NewestIsOne
<1>5. D \subseteq Dir /\ \A d \in D : d[1] = reg BY DEF StoresOf, Stores
<1>6. c \in Seq(Calls) BY <1>2, <1>5, CopyAllCalls
<1>7. u \in Seq(Calls) BY <1>1 DEF Plan
<1>8. m \in Seq(Calls)
  <2>1. /\ Do("mergePending") \in Calls /\ Do("dropPending") \in Calls
        /\ Do("forgetPrior") \in Calls /\ DoFor("absorb", pendingFile.reg) \in Calls
    BY <1>2, TheCalls DEF Ops, Lasts
  <2> QED BY <2>1 DEF MergeLinked
<1>9. todo' = (c \o m) \o u BY <1>1 DEF CopyAll
<1> HIDE DEF c, m, u
<1>10. (c \o m) \o u = c \o (m \o u) BY <1>6, <1>7, <1>8
<1>11. m \o u \in Seq(Calls) BY <1>7, <1>8
<1>12. todo' = Join(c, m \o u) BY <1>9, <1>10 DEF Join
<1> QED BY <1>2, <1>3, <1>4, <1>11, <1>12 DEF c, m, u

(* What an absorb puts first.                                               *)
LEMMA AbsorbCalls ==
  ASSUME RelinkTypeOK, Plan(todo), Absorb, todo'[1].op = "copy"
  PROVE  /\ Who \in Account /\ Tail(todo) \in Seq(Calls)
         /\ Tail(todo) # <<>> /\ Tail(todo)[1].op = "forgetPrior"
         /\ todo' = Join(CopyAll(Who, StoresOf(Who)), Tail(todo))
<1> DEFINE D == StoresOf(Who)
           u == Tail(todo)
<1>1. /\ todo # <<>> /\ todo[1].op = "absorb"
      /\ todo' = (IF D = {} THEN <<>> ELSE CallEach("copy", D) \o <<DoFor("clear", Who)>>) \o u
  BY DEF Absorb, Then, Calling
<1>2. todo[1] \in Calls BY <1>1, PlanHead
<1>3. Who \in Account BY <1>1, <1>2 DEF Calls, Who
<1>4. /\ u \in Seq(Calls) /\ (u = <<>> <=> todo[1].op \in Lasts)
      /\ u # <<>> => u[1] = todo[2] /\ Leads(todo[1].op, todo[2].op)
  BY <1>1, TailCalls DEF Plan
<1>5. u # <<>> /\ u[1].op = "forgetPrior" BY <1>1, <1>4 DEF Lasts, Leads
<1>6. D # {}
  <2> SUFFICES ASSUME D = {} PROVE FALSE OBVIOUS
  <2>1. todo' = <<>> \o u BY <1>1
  <2>2. todo' = u BY <2>1, <1>4
  <2> QED BY <2>2, <1>5
<1>7. todo' = Join(CopyAll(Who, D), u) BY <1>1, <1>6 DEF Join, CopyAll
<1> QED BY <1>3, <1>4, <1>5, <1>7

(* Only the account of the link is registered when the link is merged.      *)
LEMMA MergeReadyKept ==
  ASSUME RelinkTypeOK, Plan(todo), RelinkNext, MergeReady, FilesPlain, NoAccountOpen
  PROVE  MergeReady'
<1> DEFINE R == {"copy", "clear", "mergePending"}
<1> SUFFICES ASSUME NEW i, Near(todo', i, R), todo'[i].op = "dropPending"
             PROVE  /\ Linked(pendingFile') /\ sessionFile'.reg \in {"none", pendingFile'.reg}
                    /\ i = 1 => sessionFile'.reg = pendingFile'.reg
  BY DEF MergeReady
<1>1. /\ sessionFile \in StoreFile /\ pendingFile \in StoreFile
      /\ \A d \in Dir : retained[d].store \in StoreFile
  BY TypesApart DEF FileOK
<1>2. todo' # <<>> /\ todo'[1].op \in R \cup {"dropPending"}
      /\ (todo'[1].op # "dropPending" => i # 1)
  <2>1. i \in 1 .. Len(todo') BY DEF Near
  <2>2. i = 1 \/ todo'[1].op \in R BY NearFirst
  <2> QED BY <2>1, <2>2
<1>3. Moved BY Moves
<1>4. \/ (Recover \/ Separate) /\ todo'[1].op = "mergePending"
      \/ PlaceReturning /\ todo'[1].op \in {"copy", "clear"}
      \/ Merge
      \/ Absorb /\ todo'[1].op = "copy"
      \/ Clear
      \/ RemovalFails /\ todo'[1].op = "mergePending"
  <2>1. (Receive \/ LinkDropsScratch) /\ todo' = todo => FALSE
    BY <1>2 DEF Receive, LinkDropsScratch, Calling
  <2> QED BY <1>2, <1>3, <2>1 DEF Moved, FirstOps
<1>5. ASSUME NEW k, Near(todo, k, R), todo[k] = todo'[i],
             pendingFile' = pendingFile, sessionFile' = sessionFile, i # 1
      PROVE  /\ Linked(pendingFile') /\ sessionFile'.reg \in {"none", pendingFile'.reg}
             /\ i = 1 => sessionFile'.reg = pendingFile'.reg
  BY <1>5 DEF MergeReady
<1>6. CASE (Recover \/ Separate) /\ todo'[1].op = "mergePending"
  <2> DEFINE u == Tail(todo)
  <2>1. /\ sessionFile' = sessionFile /\ pendingFile' = pendingFile /\ todo # <<>>
        /\ Calling("recover") \/ Calling("separate")
        /\ \/ Linked(pendingFile) /\ SameAccount
           \/ Linked(pendingFile) /\ Calling("separate")
           \/ todo' = <<>> \o u
           \/ todo' = <<Do("repair"), Do("separate")>> \o u
           \/ todo' = <<Do("place")>> \o u
           \/ \E a : todo' = <<DoFor("park", a), Do("place")>> \o u
    BY <1>6 DEF Recover, Separate, Then, KeepFiles, Calling
  <2>2. /\ u \in Seq(Calls)
        /\ u # <<>> => u[1] = todo[2] /\ Leads(todo[1].op, todo[2].op)
    BY <2>1, TailCalls DEF Plan
  <2>3. CASE todo' = <<>> \o u
    <3>1. todo' = u BY <2>2, <2>3
    <3>2. todo'[1].op \in {"adopt", "load"} BY <3>1, <2>1, <2>2, <1>2 DEF Calling, Leads
    <3> QED BY <3>2, <1>6
  <2>4. CASE todo' = <<Do("repair"), Do("separate")>> \o u
    <3>1. todo'[1] = Do("repair") BY <2>2, <2>4
    <3>2. Do("repair").op = "repair" BY DEF Do, Call
    <3> QED BY <3>1, <3>2, <1>6
  <2>5. CASE todo' = <<Do("place")>> \o u
    <3>1. todo'[1] = Do("place") BY <2>2, <2>5
    <3>2. Do("place").op = "place" BY DEF Do, Call
    <3> QED BY <3>1, <3>2, <1>6
  <2>6. ASSUME NEW a, todo' = <<DoFor("park", a), Do("place")>> \o u PROVE FALSE
    <3>1. todo'[1] = DoFor("park", a) BY <2>2, <2>6
    <3>2. DoFor("park", a).op = "park" BY DEF DoFor, Call
    <3> QED BY <3>1, <3>2, <1>6
  <2>7. CASE Linked(pendingFile) /\ SameAccount
    <3>1. sessionFile.reg \in {"none", pendingFile.reg} BY <2>7 DEF SameAccount
    <3>2. i # 1 BY <1>2, <1>6
    <3> QED BY <3>1, <3>2, <2>1, <2>7
  <2>8. CASE Linked(pendingFile) /\ Calling("separate")
    <3>1. Near(todo, 1, Steady) BY <2>1, NearHead
    <3>2. sessionFile.reg = "none" BY <3>1, <2>8 DEF NoAccountOpen, Calling
    <3>3. i # 1 BY <1>2, <1>6
    <3> QED BY <3>2, <3>3, <2>1, <2>8
  <2> QED BY <2>1, <2>3, <2>4, <2>5, <2>6, <2>7, <2>8
<1>7. CASE PlaceReturning /\ todo'[1].op \in {"copy", "clear"}
  <2> DEFINE back == Newest(StoresOf(pendingFile.reg))
  <2>1. Linked(pendingFile) /\ back \in StoresOf(pendingFile.reg) BY <1>7, ReturnCalls
  <2>2. sessionFile' = retained[back].store /\ pendingFile' = pendingFile
    BY <1>7 DEF PlaceReturning
  <2>3. back \in Dir BY <2>1 DEF StoresOf, Stores
  <2>4. sessionFile'.reg = "none" BY <2>2, <2>3 DEF FilesPlain
  <2>5. i # 1 BY <1>2, <1>7
  <2> QED BY <2>1, <2>2, <2>4, <2>5
<1>8. CASE Merge
  <2>1. /\ todo # <<>> /\ todo' = Tail(todo) /\ pendingFile' = pendingFile
        /\ Calling("mergePending") \/ Calling("copy")
        /\ sessionFile' = MergeInto(sessionFile, Source)
    BY <1>8 DEF Merge, Calling, Done
  <2>2. todo[1].op \in R BY <2>1 DEF Calling
  <2>3. /\ Near(todo, i + 1, R) /\ todo'[i] = todo[i + 1] /\ i \in Nat
        /\ Leads(todo[1].op, todo[2].op) /\ Len(todo) > 1
    <3> HIDE DEF R
    <3>1. Near(Tail(todo), i, R) BY <2>1
    <3> QED BY <2>1, <2>2, <3>1, NearPopped
  <2>4. Linked(pendingFile) /\ sessionFile.reg \in {"none", pendingFile.reg}
    BY <2>3 DEF MergeReady
  <2>5. CASE Calling("mergePending")
    <3>1. Source = pendingFile BY <2>5 DEF Source, Calling
    <3>2. sessionFile'.reg = IF sessionFile.reg = "none" THEN pendingFile.reg
                             ELSE sessionFile.reg
      BY <2>1, <3>1, <1>1, MergeParts
    <3> QED BY <2>1, <2>4, <3>2
  <2>6. CASE Calling("copy")
    <3>1. todo[1] \in Calls BY <2>1, PlanHead
    <3>2. TheDir \in Dir BY <3>1, <2>6 DEF Calls, Calling, TheDir
    <3>3. Source = retained[TheDir].store BY <2>6 DEF Source, Calling
    <3>4. retained[TheDir].store.reg = "none" BY <3>2 DEF FilesPlain
    <3>5. sessionFile'.reg = IF sessionFile.reg = "none" THEN retained[TheDir].store.reg
                             ELSE sessionFile.reg
      BY <2>1, <3>2, <3>3, <1>1, MergeParts
    <3>6. todo'[1] = todo[2] BY <2>1, <1>2
    <3>7. todo[2].op \in {"copy", "clear"} BY <2>3, <2>6 DEF Calling, Leads
    <3>8. i # 1 BY <1>2, <3>6, <3>7
    <3> QED BY <2>1, <2>4, <3>4, <3>5, <3>8
  <2> QED BY <2>1, <2>5, <2>6
<1>9. CASE Absorb /\ todo'[1].op = "copy"
  <2> DEFINE u == Tail(todo)
  <2>1. /\ Who \in Account /\ u \in Seq(Calls) /\ u # <<>> /\ u[1].op = "forgetPrior"
        /\ todo' = Join(CopyAll(Who, StoresOf(Who)), u)
    BY <1>9, AbsorbCalls
  <2>2. StoresOf(Who) \subseteq Dir /\ \A d \in StoresOf(Who) : d[1] = Who
    BY DEF StoresOf, Stores
  <2> HIDE DEF u
  <2>3. PICK k : Near(u, k, R) /\ u[k] = todo'[i]
    <3>1. Near(todo', i, {"copy", "clear", "mergePending"}) OBVIOUS
    <3> QED BY <2>1, <2>2, <3>1, NearCopies
  <2>4. k = 1 BY <2>1, <2>3, NearFirst
  <2> QED BY <2>1, <2>3, <2>4
<1>10. CASE Clear
  <2>1. pendingFile' = pendingFile /\ sessionFile' = sessionFile /\ Calling("clear")
    BY <1>10 DEF Clear
  <2>2. CASE todo' = todo
    <3>1. i # 1 BY <1>2, <2>1, <2>2 DEF Calling
    <3> QED BY <1>5, <2>1, <2>2, <3>1
  <2>3. CASE todo' = Tail(todo)
    <3>1. todo # <<>> /\ todo[1].op = "clear" BY <2>1 DEF Calling
    <3>2. todo[1].op \in R BY <3>1
    <3>3. todo'[1] = todo[2] /\ Leads(todo[1].op, todo[2].op)
      BY <3>1, <2>3, <1>2, TailCalls
    <3>4. i # 1 BY <1>2, <3>1, <3>3 DEF Leads
    <3> HIDE DEF R
    <3>5. Near(Tail(todo), i, R) BY <2>3
    <3>6. Near(todo, i + 1, R) /\ Tail(todo)[i] = todo[i + 1]
      BY <3>1, <3>2, <3>5, NearPopped
    <3> QED BY <1>5, <2>1, <2>3, <3>4, <3>6
  <2> QED BY <2>2, <2>3, <1>10 DEF Clear, Done
<1>11. CASE RemovalFails /\ todo'[1].op = "mergePending"
  <2>1. /\ pendingFile' = pendingFile /\ sessionFile' = sessionFile /\ todo # <<>>
        /\ todo' = Tail(todo) /\ todo[1].op \in {"dropPending", "clear", "forgetPrior"}
    BY <1>11 DEF RemovalFails, KeepFiles, Done, Calling
  <2>2. todo'[1] = todo[2] /\ Leads(todo[1].op, todo[2].op) BY <2>1, <1>2, TailCalls
  <2>3. todo[1].op = "clear" BY <2>1, <2>2, <1>11 DEF Leads
  <2>4. todo[1].op \in R BY <2>3
  <2>5. i # 1 BY <1>2, <1>11
  <2> HIDE DEF R
  <2>6. Near(Tail(todo), i, R) BY <2>1
  <2>7. Near(todo, i + 1, R) /\ Tail(todo)[i] = todo[i + 1]
    BY <2>1, <2>4, <2>6, NearPopped
  <2> QED BY <1>5, <2>1, <2>5, <2>7
<1> QED BY <1>4, <1>6, <1>7, <1>8, <1>9, <1>10, <1>11

(* A removal takes a store, a slot or a directory of the account.           *)
LEMMA ClearParts ==
  ASSUME RelinkTypeOK, Plan(todo), Clear
  PROVE  /\ todo # <<>> /\ todo[1].op = "clear" /\ Who \in Account
         /\ \A d \in Dir : retained'[d].store \in {retained[d].store, NoStore}
         /\ \A d \in Dir : retained'[d].store # retained[d].store =>
               d[1] = Who /\ retained[d].store.there /\ todo' = todo
         /\ retained' \in [Dir -> [made : BOOLEAN, store : StoreFile, slot : Nat]]
         /\ \A d \in Dir : ~retained'[d].made =>
               ~retained'[d].store.there /\ retained'[d].slot = 0
         /\ todo' = todo \/ todo' = Tail(todo)
<1> DEFINE left == {n \in 1 .. MaxDir : retained[<<Who, n>>].made}
           k == CHOOSE n \in left : \A m \in left : n <= m
           d == <<Who, k>>
           T == [made : BOOLEAN, store : StoreFile, slot : Nat]
<1>1. /\ todo # <<>> /\ todo[1].op = "clear" /\ todo[1] \in Calls
      /\ IF left = {} THEN Done /\ UNCHANGED retained
         ELSE /\ retained' =
                     IF retained[d].store.there
                     THEN [retained EXCEPT ![d].store = NoStore]
                     ELSE IF retained[d].slot # 0
                     THEN [retained EXCEPT ![d].slot = 0]
                     ELSE [retained EXCEPT ![d].made = FALSE]
              /\ UNCHANGED todo
  BY PlanHead DEF Clear, Calling
<1>2. Who \in Account BY <1>1 DEF Calls, Who
<1>3. /\ retained \in [Dir -> T]
      /\ \A e \in Dir : ~retained[e].made => ~retained[e].store.there /\ retained[e].slot = 0
  BY TypesApart
<1>4. left # {} => d \in Dir /\ d[1] = Who
  <2> SUFFICES ASSUME left # {} PROVE d \in Dir /\ d[1] = Who OBVIOUS
  <2>1. \E x \in left : \A y \in left : x <= y
    <3> DEFINE T2 == left
    <3>1. T2 \subseteq Nat /\ T2 # {} OBVIOUS
    <3> HIDE DEF T2
    <3>2. \E x \in T2 : \A y \in T2 : x <= y BY <3>1, Least
    <3> QED BY <3>2 DEF T2
  <2> HIDE DEF left
  <2>2. k \in left BY <2>1
  <2>3. k \in 1 .. MaxDir BY <2>2 DEF left
  <2> HIDE DEF k
  <2>4. <<Who, k>> \in Dir /\ <<Who, k>>[1] = Who BY <1>2, <2>3 DEF Dir, Owner
  <2> QED BY <2>4
<1> HIDE DEF left, k, d
<1>5. CASE left = {} BY <1>1, <1>2, <1>3, <1>5 DEF Done
<1>6. CASE left # {} /\ retained[d].store.there
  <2>1. retained' = [retained EXCEPT ![d].store = NoStore] /\ todo' = todo BY <1>1, <1>6
  <2>2. /\ retained' \in [Dir -> T] /\ retained'[d].store = NoStore
        /\ \A e \in Dir : retained'[e].made = retained[e].made
                          /\ retained'[e].slot = retained[e].slot
        /\ \A e \in Dir \ {d} : retained'[e] = retained[e]
    BY <2>1, <1>3, <1>4, <1>6, NoStoreIsEmpty
  <2> QED BY <2>1, <2>2, <1>1, <1>2, <1>3, <1>4, <1>6
<1>7. CASE left # {} /\ ~retained[d].store.there /\ retained[d].slot # 0
  <2>1. retained' = [retained EXCEPT ![d].slot = 0] /\ todo' = todo BY <1>1, <1>7
  <2>2. /\ retained' \in [Dir -> T] /\ retained'[d].slot = 0
        /\ \A e \in Dir : retained'[e].made = retained[e].made
                          /\ retained'[e].store = retained[e].store
        /\ \A e \in Dir \ {d} : retained'[e] = retained[e]
    BY <2>1, <1>3, <1>4, <1>7
  <2> QED BY <2>1, <2>2, <1>1, <1>2, <1>3, <1>4, <1>7
<1>8. CASE left # {} /\ ~retained[d].store.there /\ retained[d].slot = 0
  <2>1. retained' = [retained EXCEPT ![d].made = FALSE] /\ todo' = todo BY <1>1, <1>8
  <2>2. /\ retained' \in [Dir -> T]
        /\ \A e \in Dir : retained'[e].slot = retained[e].slot
                          /\ retained'[e].store = retained[e].store
        /\ \A e \in Dir \ {d} : retained'[e] = retained[e]
    <3> DEFINE b == FALSE
    <3>1. b \in BOOLEAN /\ retained' = [retained EXCEPT ![d].made = b] BY <2>1
    <3>2. d \in Dir BY <1>4, <1>8
    <3> HIDE DEF b
    <3> QED BY <3>1, <3>2, <1>3
  <2> QED BY <2>1, <2>2, <1>1, <1>2, <1>3, <1>4, <1>8
<1> QED BY <1>5, <1>6, <1>7, <1>8

(* A merge leaves a copy out only while its call is ahead.                  *)
LEMMA CopiesAheadKept ==
  ASSUME RelinkTypeOK, Plan(todo), RelinkNext, CopiesAhead
  PROVE  CopiesAhead'
<1> DEFINE R == {"copy"}
<1> SUFFICES ASSUME NEW i, Near(todo', i, R), todo'[i].op = "clear",
                    NEW d \in Dir, retained'[d].store.there, d[1] = todo'[i].who
             PROVE  \/ retained'[d].store.chats \subseteq sessionFile'.chats
                    \/ \E j \in 1 .. i - 1 : todo'[j] = Call("copy", d[1], d[2])
  BY DEF CopiesAhead
<1>1. /\ sessionFile \in StoreFile /\ pendingFile \in StoreFile
      /\ \A e \in Dir : retained[e].store \in StoreFile
      /\ retained \in [Dir -> [made : BOOLEAN, store : StoreFile, slot : Nat]]
  BY TypesApart DEF FileOK
<1>2. i \in 1 .. Len(todo') /\ todo' # <<>> /\ todo'[1].op \in {"copy", "clear"}
  <2>1. i \in 1 .. Len(todo') BY DEF Near
  <2>2. i = 1 \/ todo'[1].op \in R BY NearFirst
  <2> QED BY <2>1, <2>2
<1>3. Moved BY Moves
<1>4. \/ PlaceReturning
      \/ Merge
      \/ Absorb /\ todo'[1].op = "copy"
      \/ Clear /\ todo' = todo
  <2>1. (Receive \/ LinkDropsScratch) /\ todo' = todo => FALSE
    BY <1>2 DEF Receive, LinkDropsScratch, Calling
  <2> QED BY <1>2, <1>3, <2>1 DEF Moved, FirstOps
<1>5. CASE PlaceReturning
  <2> DEFINE reg == pendingFile.reg
             back == Newest(StoresOf(reg))
             D == StoresOf(reg) \ {back}
             u == MergeLinked \o Tail(todo)
  <2>1. /\ reg \in Account /\ back \in StoresOf(reg) /\ u \in Seq(Calls)
        /\ todo' = Join(CopyAll(reg, D), u)
    BY <1>5, ReturnCalls
  <2>2. retained' = [retained EXCEPT ![back].store = NoStore] BY <1>5 DEF PlaceReturning
  <2>3. D \subseteq Dir /\ (\A e \in D : e[1] = reg) /\ back \in Dir
    BY <2>1 DEF StoresOf, Stores
  <2> HIDE DEF u, D, back, reg
  <2>4. /\ todo'[i].who = reg
        /\ \A e \in D : \E j \in 1 .. i - 1 : todo'[j] = Call("copy", e[1], e[2])
    BY <2>1, <2>3, NearCopies
  <2>5. d # back /\ retained'[d] = retained[d]
    <3>1. /\ retained'[back].store = NoStore
          /\ \A e \in Dir \ {back} : retained'[e] = retained[e]
      BY <2>2, <2>3, <1>1
    <3> QED BY <3>1, NoStoreIsEmpty
  <2>6. d \in D BY <2>4, <2>5 DEF D, StoresOf, Stores
  <2> QED BY <2>4, <2>6
<1>6. CASE Merge
  <2>1. /\ todo # <<>> /\ todo' = Tail(todo) /\ retained' = retained
        /\ Calling("mergePending") \/ Calling("copy")
        /\ sessionFile' = MergeInto(sessionFile, Source)
    BY <1>6 DEF Merge, Calling, Done
  <2>2. todo[1].op = "copy"
    <3>1. todo'[1] = todo[2] /\ Leads(todo[1].op, todo[2].op) BY <2>1, <1>2, TailCalls
    <3> QED BY <3>1, <2>1, <1>2 DEF Leads
  <2>3. Near(todo, i + 1, R) /\ todo'[i] = todo[i + 1] /\ i \in Nat
    <3>1. todo[1].op \in R BY <2>2
    <3> HIDE DEF R
    <3>2. Near(Tail(todo), i, R) BY <2>1
    <3> QED BY <2>1, <3>1, <3>2, NearPopped
  <2>4. \/ retained[d].store.chats \subseteq sessionFile.chats
        \/ \E j \in 1 .. (i + 1) - 1 : todo[j] = Call("copy", d[1], d[2])
    <3>1. Near(todo, i + 1, {"copy"}) BY <2>3
    <3>2. retained[d].store.there BY <2>1
    <3> QED BY <2>3, <3>1, <3>2 DEF CopiesAhead
  <2>5. todo[1] \in Calls BY <2>1, PlanHead
  <2>6. TheDir \in Dir BY <2>2, <2>5 DEF Calls, TheDir
  <2>7. Source = retained[TheDir].store BY <2>2 DEF Source
  <2>8. sessionFile'.chats = sessionFile.chats \cup retained[TheDir].store.chats
    BY <2>1, <2>6, <2>7, <1>1, MergeParts
  <2>9. CASE retained[d].store.chats \subseteq sessionFile.chats BY <2>1, <2>8, <2>9
  <2>10. ASSUME NEW j \in 1 .. (i + 1) - 1, todo[j] = Call("copy", d[1], d[2])
         PROVE  \/ retained'[d].store.chats \subseteq sessionFile'.chats
                \/ \E m \in 1 .. i - 1 : todo'[m] = Call("copy", d[1], d[2])
    <3>1. CASE j = 1
      <4>1. TheDir = <<d[1], d[2]>> BY <2>10, <3>1 DEF TheDir, Call
      <4>2. d = <<d[1], d[2]>> BY DEF Dir
      <4> QED BY <4>1, <4>2, <2>1, <2>8
    <3>2. CASE j # 1
      <4> DEFINE m == j - 1
      <4>1. m \in 1 .. i - 1 /\ m + 1 = j /\ m \in 1 .. Len(todo') BY <2>3, <3>2, <1>2
      <4>2. Len(todo) \in Nat /\ Len(Tail(todo)) = Len(todo) - 1
            /\ \A k \in 1 .. Len(todo) - 1 : Tail(todo)[k] = todo[k + 1]
        <5>1. todo \in Seq(Calls) BY DEF Plan
        <5> QED BY <5>1, <2>1
      <4> HIDE DEF m
      <4>3. todo'[m] = todo[j] BY <4>1, <4>2, <2>1
      <4> QED BY <4>1, <4>3, <2>10
    <3> QED BY <3>1, <3>2
  <2> QED BY <2>4, <2>9, <2>10
<1>7. CASE Absorb /\ todo'[1].op = "copy"
  <2> DEFINE u == Tail(todo)
             D == StoresOf(Who)
  <2>1. Who \in Account /\ u \in Seq(Calls) /\ todo' = Join(CopyAll(Who, D), u)
    BY <1>7, AbsorbCalls
  <2>2. D \subseteq Dir /\ \A e \in D : e[1] = Who BY DEF StoresOf, Stores
  <2>3. retained' = retained BY <1>7 DEF Absorb, KeepFiles
  <2> HIDE DEF u, D
  <2>4. /\ todo'[i].who = Who
        /\ \A e \in D : \E j \in 1 .. i - 1 : todo'[j] = Call("copy", e[1], e[2])
    BY <2>1, <2>2, NearCopies
  <2>5. d \in D BY <2>3, <2>4 DEF D, StoresOf, Stores
  <2> QED BY <2>4, <2>5
<1>8. CASE Clear /\ todo' = todo
  <2>1. /\ todo[1].op = "clear" /\ todo # <<>> /\ sessionFile' = sessionFile
        /\ retained'[d].store \in {retained[d].store, NoStore}
    BY <1>8, ClearParts DEF Clear
  <2>2. i = 1
    <3>1. i = 1 \/ todo'[1].op \in R BY NearFirst
    <3> QED BY <3>1, <2>1, <1>8
  <2>3. retained'[d].store = retained[d].store BY <2>1, NoStoreIsEmpty
  <2>4. \/ retained[d].store.chats \subseteq sessionFile.chats
        \/ \E j \in 1 .. 1 - 1 : todo[j] = Call("copy", d[1], d[2])
    <3>1. Near(todo, 1, {"copy"}) /\ d[1] = todo[1].who /\ retained[d].store.there
      BY <1>8, <2>2, <2>3
    <3> QED BY <2>1, <3>1 DEF CopiesAhead
  <2>5. 1 .. 1 - 1 = {} OBVIOUS
  <2> QED BY <2>1, <2>3, <2>4, <2>5
<1> QED BY <1>4, <1>5, <1>6, <1>7, <1>8

-----------------------------------------------------------------------------
(* The files after each step.                                               *)

(* The steps that change the session file, the pending file and the         *)
(* directories.                                                             *)
LEMMA FileSteps ==
  ASSUME RelinkNext
  PROVE  /\ \/ sessionFile' = sessionFile
            \/ MoveIn \/ PlaceReturning \/ Adopt \/ Merge \/ MergeStops \/ ForgetPrior
            \/ OpenProvision \/ Create \/ LinkSession \/ Receive
            \/ Wipe \/ WipeKeys \/ Remember
         /\ \/ pendingFile' = pendingFile
            \/ pendingFile' = NoStore /\ (Adopt \/ DropPending \/ OpenExisting \/ LinkDropsScratch)
            \/ pendingFile' = NewStore /\ LinkBeside
            \/ LinkPending
         /\ \/ retained' = retained
            \/ Park \/ MoveIn \/ WriteSlot \/ PlaceReturning \/ Clear
<1>1. CASE Stop BY <1>1 DEF Stop, KeepFiles
<1>2. CASE Start BY <1>2 DEF Start, KeepFiles
<1>3. CASE Recover \/ Separate \/ PlaceNew \/ Absorb
  BY <1>3 DEF Recover, Separate, PlaceNew, Absorb, KeepFiles
<1>4. CASE Park \/ WriteSlot \/ Clear BY <1>4 DEF Park, WriteSlot, Clear
<1>5. CASE MoveIn BY <1>5 DEF MoveIn
<1>6. CASE WriteMark \/ Repair BY <1>6 DEF WriteMark, Repair
<1>7. CASE SlotFails \/ RemovalFails \/ WipeFails
  BY <1>7 DEF SlotFails, RemovalFails, WipeFails, KeepFiles
<1>8. CASE PlaceReturning BY <1>8 DEF PlaceReturning
<1>9. CASE Adopt
  <2>1. retained' = retained /\ (pendingFile' = pendingFile \/ pendingFile' = NoStore)
    BY <1>9 DEF Adopt
  <2> QED BY <1>9, <2>1
<1>10. CASE Merge \/ MergeStops \/ ForgetPrior
  BY <1>10 DEF Merge, MergeStops, ForgetPrior
<1>11. CASE DropPending BY <1>11 DEF DropPending
<1>12. CASE Publish \/ OpenIdle \/ LinkPlacesPending \/ LinkAfterPark \/ LinkInPlace
            \/ Load \/ RemoveDevice
  BY <1>12 DEF Publish, OpenIdle, LinkPlacesPending, LinkAfterPark, LinkInPlace, Load,
               RemoveDevice, KeepFiles
<1>13. CASE OpenExisting
  <2>1. /\ retained' = retained /\ sessionFile' = sessionFile
        /\ pendingFile' = pendingFile \/ pendingFile' = NoStore
    BY <1>13 DEF OpenExisting
  <2> QED BY <1>13, <2>1
<1>14. CASE LinkDropsScratch BY <1>14 DEF LinkDropsScratch
<1>15. CASE LinkBeside BY <1>15 DEF LinkBeside
<1>16. CASE OpenProvision \/ Create \/ LinkSession \/ Receive \/ Wipe \/ WipeKeys \/ Remember
  BY <1>16 DEF OpenProvision, Create, LinkSession, Receive, Wipe, WipeKeys, Remember
<1>17. CASE LinkPending BY <1>17 DEF LinkPending
<1> QED BY <1>1, <1>2, <1>3, <1>4, <1>5, <1>6, <1>7, <1>8, <1>9, <1>10, <1>11, <1>12,
           <1>13, <1>14, <1>15, <1>16, <1>17 DEF RelinkNext

(* The file that a merge reads.                                             *)
LEMMA SourceFile ==
  ASSUME RelinkTypeOK, Plan(todo), Calling("mergePending") \/ Calling("copy")
  PROVE  /\ Source \in StoreFile
         /\ \/ Calling("mergePending") /\ Source = pendingFile
            \/ Calling("copy") /\ TheDir \in Dir /\ Source = retained[TheDir].store
<1>1. todo # <<>> /\ todo[1] \in Calls BY PlanHead DEF Calling
<1>2. pendingFile \in StoreFile /\ \A d \in Dir : retained[d].store \in StoreFile
  BY TypesApart DEF FileOK
<1>3. CASE Calling("copy")
  <2>1. TheDir \in Dir BY <1>1, <1>3 DEF Calling, Calls, TheDir
  <2> QED BY <1>2, <1>3, <2>1 DEF Source, Calling
<1>4. CASE Calling("mergePending") BY <1>2, <1>4 DEF Source, Calling
<1> QED BY <1>3, <1>4

(* A store that comes back is one of the directories.                       *)
LEMMA BackDir ==
  ASSUME RelinkTypeOK, Plan(todo), PlaceReturning
  PROVE  \E back \in Stores :
            /\ back \in Dir /\ back[1] = pendingFile.reg
            /\ sessionFile' = retained[back].store
            /\ retained' = [retained EXCEPT ![back].store = NoStore]
            /\ pendingFile' = pendingFile
<1> DEFINE back == Newest(StoresOf(pendingFile.reg))
<1>1. back \in StoresOf(pendingFile.reg) BY ReturnCalls
<1>2. /\ sessionFile' = retained[back].store
      /\ retained' = [retained EXCEPT ![back].store = NoStore]
      /\ pendingFile' = pendingFile
  BY DEF PlaceReturning
<1>3. back \in Stores /\ back \in Dir /\ back[1] = pendingFile.reg
  BY <1>1 DEF StoresOf, Stores
<1> HIDE DEF back
<1> QED BY <1>2, <1>3

(* The calls that find the session file there.                              *)
LEMMA StoreThere ==
  ASSUME RelinkTypeOK, Plan(todo), HeadNeeds, AccountReceives, LinksCounted
  PROVE  /\ \A o \in NeedStore : Calling(o) => sessionFile.there
         /\ Calling("receive") => /\ sessionFile.there /\ live \in Account
                                  /\ live = sessionFile.reg /\ links \in 1 .. MaxLink
<1>1. \A o \in NeedStore : Calling(o) => sessionFile.there BY DEF Calling, HeadNeeds
<1>2. ASSUME Calling("receive")
      PROVE  /\ sessionFile.there /\ live \in Account
             /\ live = sessionFile.reg /\ links \in 1 .. MaxLink
  <2>1. todo # <<>> /\ todo[1].op = "receive" BY <1>2 DEF Calling
  <2>2. Near(todo, 1, Steady) BY <2>1, NearHead
  <2>3. live \in Account /\ live = sessionFile.reg BY <2>1, <2>2 DEF AccountReceives
  <2>4. sessionFile.reg # "none" BY <2>3, RelinkBounds
  <2>5. FileOK(sessionFile) /\ links \in 0 .. MaxLink BY TypesApart
  <2>6. sessionFile.there BY <2>4, <2>5, NoStoreIsEmpty
  <2>7. links # 0 BY <2>4 DEF LinksCounted
  <2>8. links \in 1 .. MaxLink BY <2>5, <2>7
  <2> QED BY <2>3, <2>6, <2>8
<1> QED BY <1>1, <1>2

(* The session file is a file, and empty when it is not there.              *)
LEMMA SessionTypeKept ==
  ASSUME RelinkTypeOK, Plan(todo), RelinkNext, HeadNeeds, AccountReceives, LinksCounted
  PROVE  FileOK(sessionFile')
<1>1. /\ FileOK(sessionFile) /\ sessionFile \in StoreFile
      /\ FileOK(pendingFile) /\ \A d \in Dir : FileOK(retained[d].store)
  BY TypesApart DEF FileOK
<1>2. CASE sessionFile' = sessionFile BY <1>1, <1>2
<1>3. CASE MoveIn BY <1>3, NoStoreIsEmpty DEF MoveIn, FileOK
<1>4. CASE PlaceReturning
  <2>1. PICK back \in Stores : back \in Dir /\ sessionFile' = retained[back].store
    BY <1>4, BackDir
  <2> QED BY <1>1, <2>1
<1>5. CASE Adopt
  <2>1. sessionFile' \in {sessionFile, pendingFile} BY <1>5 DEF Adopt
  <2> QED BY <1>1, <2>1
<1>6. CASE Merge \/ MergeStops
  <2>1. /\ Calling("mergePending") \/ Calling("copy")
        /\ \/ sessionFile' = MergeInto(sessionFile, Source)
           \/ \E part \in PartOf(Source) : sessionFile' = MergeInto(sessionFile, part)
    BY <1>6 DEF Merge, MergeStops
  <2>2. Source \in StoreFile BY <2>1, SourceFile
  <2>3. sessionFile.there BY <2>1, StoreThere DEF NeedStore
  <2>4. PICK g \in StoreFile : sessionFile' = MergeInto(sessionFile, g)
    BY <2>1, <2>2, PartParts
  <2>5. sessionFile' \in StoreFile /\ sessionFile'.there = sessionFile.there
    BY <1>1, <2>4, MergeParts
  <2> QED BY <2>3, <2>5 DEF FileOK
<1>7. CASE ForgetPrior \/ Wipe \/ WipeKeys \/ Remember \/ LinkSession
  <2>1. sessionFile.there
    <3>1. \E o \in NeedStore : Calling(o)
      BY <1>7 DEF ForgetPrior, Wipe, WipeKeys, Remember, LinkSession, NeedStore
    <3> QED BY <3>1, StoreThere
  <2>2. PICK r, p : /\ r \in Account \cup {"none"} /\ p \in Account \cup {"none"}
                    /\ sessionFile' = [sessionFile EXCEPT !.reg = r, !.prior = p]
    <3>1. /\ sessionFile.reg \in Account \cup {"none"}
          /\ sessionFile.prior \in Account \cup {"none"}
      BY <1>1, NoStoreIsEmpty
    <3>2. \A r : [sessionFile EXCEPT !.reg = r] =
                    [sessionFile EXCEPT !.reg = r, !.prior = sessionFile.prior]
      BY <1>1
    <3>3. \A p : [sessionFile EXCEPT !.prior = p] =
                    [sessionFile EXCEPT !.reg = sessionFile.reg, !.prior = p]
      BY <1>1
    <3>4. CASE ForgetPrior
      <4>1. sessionFile' = [sessionFile EXCEPT !.prior = "none"] BY <3>4 DEF ForgetPrior
      <4> QED BY <4>1, <3>1, <3>3
    <3>5. CASE Remember
      <4>1. sessionFile' = [sessionFile EXCEPT !.prior = Who] /\ todo # <<>>
            /\ todo[1].op = "remember"
        BY <3>5 DEF Remember, Calling
      <4>2. Who \in Account
        <5>1. todo[1] \in Calls BY <4>1, PlanHead
        <5> QED BY <4>1, <5>1 DEF Calls, Who
      <4> QED BY <4>1, <4>2, <3>1, <3>3
    <3>6. CASE Wipe
      <4>1. sessionFile' = [sessionFile EXCEPT !.reg = "none"] BY <3>6 DEF Wipe
      <4> QED BY <4>1, <3>1, <3>2
    <3>7. CASE WipeKeys BY <3>7 DEF WipeKeys
    <3>8. CASE LinkSession
      <4>1. PICK a \in Account : sessionFile' = [sessionFile EXCEPT !.reg = a]
        BY <3>8 DEF LinkSession
      <4> QED BY <4>1, <3>1, <3>2
    <3> QED BY <1>7, <3>4, <3>5, <3>6, <3>7, <3>8
  <2>3. sessionFile' \in StoreFile /\ sessionFile'.there = sessionFile.there
    BY <1>1, <2>2 DEF StoreFile
  <2> QED BY <2>1, <2>3 DEF FileOK
<1>8. CASE OpenProvision \/ Create
  <2>1. sessionFile' \in {sessionFile, NewStore} BY <1>8 DEF OpenProvision, Create
  <2> QED BY <1>1, <2>1, NoStoreIsEmpty DEF FileOK
<1>9. CASE Receive
  <2> DEFINE c == sessionFile.chats \cup {<<live, links>>}
  <2>1. Calling("receive") /\ sessionFile' = [sessionFile EXCEPT !.chats = c]
    BY <1>9 DEF Receive
  <2>2. sessionFile.there /\ live \in Account /\ links \in 1 .. MaxLink
    BY <2>1, StoreThere
  <2>3. c \in SUBSET HistoryRow
    <3>1. <<live, links>> \in HistoryRow BY <2>2 DEF HistoryRow
    <3>2. sessionFile.chats \subseteq HistoryRow BY <1>1, NoStoreIsEmpty
    <3> QED BY <3>1, <3>2
  <2> HIDE DEF c
  <2>4. sessionFile' \in StoreFile /\ sessionFile'.there = sessionFile.there
    BY <1>1, <2>1, <2>3, FileParts
  <2> QED BY <2>2, <2>4 DEF FileOK
<1> QED BY <1>2, <1>3, <1>4, <1>5, <1>6, <1>7, <1>8, <1>9, FileSteps

(* The pending file is a file, and empty when it is not there.              *)
LEMMA PendingTypeKept ==
  ASSUME RelinkTypeOK, Plan(todo), RelinkNext, HeadNeeds
  PROVE  FileOK(pendingFile')
<1>1. FileOK(pendingFile) /\ pendingFile \in StoreFile BY TypesApart DEF FileOK
<1>2. FileOK(NoStore) /\ FileOK(NewStore) BY NoStoreIsEmpty DEF FileOK
<1>3. CASE LinkPending
  <2>1. PICK a \in Account : pendingFile' = [pendingFile EXCEPT !.reg = a]
    BY <1>3 DEF LinkPending
  <2>2. pendingFile.there BY <1>3 DEF LinkPending, Calling, HeadNeeds
  <2>3. pendingFile' \in StoreFile /\ pendingFile'.there = pendingFile.there
    BY <1>1, <2>1, FileParts
  <2> QED BY <2>2, <2>3 DEF FileOK
<1> QED BY <1>1, <1>2, <1>3, FileSteps

(* A directory that is not made is empty.                                   *)
LEMMA RetainedTypeKept ==
  ASSUME RelinkTypeOK, Plan(todo), RelinkNext, SlotsMade
  PROVE  /\ retained' \in [Dir -> [made : BOOLEAN, store : StoreFile, slot : Nat]]
         /\ \A d \in Dir : FileOK(retained'[d].store)
         /\ \A d \in Dir : ~retained'[d].made =>
               ~retained'[d].store.there /\ retained'[d].slot = 0
<1> DEFINE T == [made : BOOLEAN, store : StoreFile, slot : Nat]
<1>1. /\ retained \in [Dir -> T] /\ \A d \in Dir : FileOK(retained[d].store)
      /\ \A d \in Dir : ~retained[d].made => ~retained[d].store.there /\ retained[d].slot = 0
      /\ FileOK(sessionFile) /\ sessionFile \in StoreFile
  BY TypesApart DEF FileOK
<1>2. CASE retained' = retained BY <1>1, <1>2
<1>3. CASE Park
  <2> DEFINE n == CHOOSE i \in Unused(Who) : \A j \in Unused(Who) : i <= j
             e == <<Who, n>>
             b == TRUE
  <2>1. /\ todo # <<>> /\ todo[1].op = "park" /\ Unused(Who) # {}
        /\ retained' = [retained EXCEPT ![e].made = b]
    BY <1>3 DEF Park, Calling
  <2>2. Who \in Owner
    <3>1. todo[1] \in Calls BY <2>1, PlanHead
    <3> QED BY <2>1, <3>1 DEF Calls, Who
  <2>3. e \in Dir BY <2>1, <2>2, ParkDir
  <2> HIDE DEF e
  <2>4. retained'[e].made BY <1>1, <2>1, <2>3
  <2>5. b \in BOOLEAN OBVIOUS
  <2> HIDE DEF b
  <2>6. /\ retained' \in [Dir -> T]
        /\ \A d \in Dir : retained'[d].slot = retained[d].slot
                          /\ retained'[d].store = retained[d].store
        /\ \A d \in Dir \ {e} : retained'[d] = retained[d]
    BY <1>1, <2>1, <2>3, <2>5
  <2> QED BY <1>1, <2>3, <2>6, <2>4
<1>4. ASSUME todo # <<>>, todo[1].op \in {"moveIn", "slot"}
      PROVE  TheDir \in Dir /\ retained[TheDir].made
  <2>1. todo[1] \in Calls BY <1>4, PlanHead
  <2>2. Near(todo, 1, Numbering) BY <1>4, NearHead
  <2>3. retained[<<todo[1].who, todo[1].n>>].made BY <1>4, <2>2 DEF SlotsMade
  <2> QED BY <1>4, <2>1, <2>3 DEF Calls, TheDir
<1>5. CASE MoveIn
  <2>1. /\ todo # <<>> /\ todo[1].op = "moveIn"
        /\ retained' = [retained EXCEPT ![TheDir].store = sessionFile]
    BY <1>5 DEF MoveIn, Calling
  <2> DEFINE e == TheDir
  <2>2. e \in Dir /\ retained[e].made BY <1>4, <2>1
  <2>3. retained' = [retained EXCEPT ![e].store = sessionFile] BY <2>1
  <2> HIDE DEF e
  <2>4. /\ retained' \in [Dir -> T] /\ retained'[e].store = sessionFile
        /\ \A d \in Dir : retained'[d].made = retained[d].made
                          /\ retained'[d].slot = retained[d].slot
        /\ \A d \in Dir \ {e} : retained'[d] = retained[d]
    BY <1>1, <2>2, <2>3
  <2> QED BY <1>1, <2>2, <2>4
<1>6. CASE WriteSlot
  <2>1. /\ todo # <<>> /\ todo[1].op = "slot"
        /\ retained' = [retained EXCEPT ![TheDir].slot = NextSlot]
    BY <1>6 DEF WriteSlot, Calling
  <2> DEFINE e == TheDir
             n == NextSlot
  <2>2. e \in Dir /\ retained[e].made BY <1>4, <2>1
  <2>3. retained' = [retained EXCEPT ![e].slot = n] BY <2>1
  <2>4. n \in Nat BY SlotIsNumber
  <2> HIDE DEF e, n
  <2>5. /\ retained' \in [Dir -> T] /\ retained'[e].slot = n
        /\ \A d \in Dir : retained'[d].made = retained[d].made
                          /\ retained'[d].store = retained[d].store
        /\ \A d \in Dir \ {e} : retained'[d] = retained[d]
    BY <1>1, <2>2, <2>3, <2>4
  <2> QED BY <1>1, <2>2, <2>5
<1>7. CASE PlaceReturning
  <2>1. PICK e \in Stores : /\ e \in Dir
                            /\ retained' = [retained EXCEPT ![e].store = NoStore]
    BY <1>7, BackDir
  <2>2. /\ retained' \in [Dir -> T] /\ retained'[e].store = NoStore
        /\ \A d \in Dir : retained'[d].made = retained[d].made
                          /\ retained'[d].slot = retained[d].slot
        /\ \A d \in Dir \ {e} : retained'[d] = retained[d]
    BY <1>1, <2>1, NoStoreIsEmpty
  <2>3. FileOK(NoStore) /\ ~NoStore.there BY NoStoreIsEmpty DEF FileOK
  <2> QED BY <1>1, <2>1, <2>2, <2>3
<1>8. CASE Clear
  <2>1. /\ \A d \in Dir : retained'[d].store \in {retained[d].store, NoStore}
        /\ retained' \in [Dir -> T]
        /\ \A d \in Dir : ~retained'[d].made =>
              ~retained'[d].store.there /\ retained'[d].slot = 0
    BY <1>8, ClearParts
  <2>2. FileOK(NoStore) BY NoStoreIsEmpty DEF FileOK
  <2> QED BY <1>1, <2>1, <2>2
<1> QED BY <1>2, <1>3, <1>5, <1>6, <1>7, <1>8, FileSteps

(* The marks and the counts.                                                *)
LEMMA CountsKept ==
  ASSUME RelinkTypeOK, Plan(todo), RelinkNext, AccountReceives
  PROVE  /\ mark' \in Nat /\ links' \in 0 .. MaxLink /\ failures' \in 0 .. MaxFailure
         /\ live' \in Account \cup {"none"}
         /\ published' \subseteq Nat \X Dir /\ noteStayed' \in BOOLEAN
<1>1. /\ mark \in Nat /\ links \in 0 .. MaxLink /\ failures \in 0 .. MaxFailure
      /\ live \in Account \cup {"none"}
      /\ published \subseteq Nat \X Dir /\ noteStayed \in BOOLEAN
      /\ sessionFile.reg \in Account \cup {"none"}
      /\ MaxLink \in Nat /\ MaxFailure \in Nat
      /\ retained \in [Dir -> [made : BOOLEAN, store : StoreFile, slot : Nat]]
  BY RelinkBounds, TypesApart, NoStoreIsEmpty
<1>2. LogFailure => /\ failures' \in 0 .. MaxFailure /\ links' = links
                    /\ live' = live /\ published' = published
  BY <1>1 DEF LogFailure
<1>3. CASE WriteMark
  <2>1. /\ todo # <<>> /\ todo[1] \in Calls /\ mark' = Largest({mark, todo[1].n})
        /\ KeepRest
    BY <1>3, PlanHead DEF WriteMark, Calling
  <2> DEFINE S == {mark, todo[1].n}
  <2>2. S \subseteq Nat /\ mark \in S /\ todo[1].n \in S BY <1>1, <2>1 DEF Calls
  <2>3. \E x \in S : \A y \in S : y <= x
    <3>1. CASE mark <= todo[1].n BY <2>2, <3>1
    <3>2. CASE ~(mark <= todo[1].n)
      <4>1. todo[1].n <= mark BY <2>2, <3>2
      <4> QED BY <2>2, <4>1
    <3> QED BY <3>1, <3>2
  <2> HIDE DEF S
  <2>4. Largest(S) \in S BY <2>3 DEF Largest
  <2>5. mark' \in Nat BY <2>1, <2>2, <2>4 DEF S
  <2> QED BY <1>1, <2>1, <2>5 DEF KeepRest, KeepCounts
<1>4. CASE Repair
  <2>1. mark' = IF Stores = {} /\ mark = 0 THEN 0 ELSE NextSlot BY <1>4 DEF Repair
  <2>2. mark' \in Nat BY <2>1, SlotIsNumber
  <2> QED BY <1>1, <1>4, <2>2 DEF Repair, KeepRest, KeepCounts
<1>5. CASE Publish
  <2> DEFINE P == {<<retained[d].slot, d>> : d \in
                     {e \in Stores : ~NeedsSlot(e) /\ e[1] # sessionFile.reg}}
  <2>1. published' = published \cup P /\ mark' = mark /\ UNCHANGED <<live, links, failures, noteStayed>>
    BY <1>5 DEF Publish, KeepFiles
  <2>2. P \subseteq Nat \X Dir
    <3>1. \A d \in Stores : retained[d].slot \in Nat /\ d \in Dir BY <1>1 DEF Stores
    <3> QED BY <3>1
  <2> HIDE DEF P
  <2> QED BY <1>1, <2>1, <2>2
<1>6. CASE SlotFails \/ WipeFails
  <2>1. mark' = mark /\ noteStayed' = noteStayed /\ LogFailure
    BY <1>6 DEF SlotFails, WipeFails, KeepFiles
  <2> QED BY <1>1, <1>2, <2>1
<1>7. CASE RemovalFails
  <2>1. mark' = mark /\ LogFailure /\ noteStayed' = (noteStayed \/ Calling("forgetPrior"))
    BY <1>7 DEF RemovalFails, KeepFiles
  <2>2. noteStayed' \in BOOLEAN BY <2>1, Zenon
  <2> QED BY <1>1, <1>2, <2>1, <2>2
<1>8. CASE Stop \/ MergeStops \/ Remember
  <2>1. mark' = mark /\ live' = "none" /\ KeepCounts
    BY <1>8 DEF Stop, MergeStops, Remember, KeepFiles
  <2> QED BY <1>1, <2>1 DEF KeepCounts
<1>9. CASE OpenExisting \/ Load
  <2>1. mark' = mark /\ live' = sessionFile.reg /\ KeepCounts
    BY <1>9 DEF OpenExisting, Load, KeepFiles
  <2> QED BY <1>1, <2>1 DEF KeepCounts
<1>10. CASE LinkSession
  <2>1. PICK a \in Account : live' = a BY <1>10 DEF LinkSession
  <2>2. links' \in 0 .. MaxLink BY <1>1, <1>10 DEF LinkSession
  <2>3. UNCHANGED <<mark, failures, published, noteStayed>> BY <1>10 DEF LinkSession
  <2> QED BY <1>1, <2>1, <2>2, <2>3
<1>11. CASE LinkPending
  <2>1. links' \in 0 .. MaxLink BY <1>1, <1>11 DEF LinkPending
  <2>2. UNCHANGED <<mark, live, failures, published, noteStayed>> BY <1>11 DEF LinkPending
  <2> QED BY <1>1, <2>1, <2>2
<1>12. CASE \/ Start \/ Recover \/ Separate \/ Park \/ MoveIn \/ WriteSlot
            \/ PlaceReturning \/ PlaceNew \/ Adopt \/ Merge \/ DropPending \/ Absorb \/ Clear
            \/ ForgetPrior \/ OpenIdle \/ OpenProvision \/ LinkPlacesPending
            \/ LinkDropsScratch \/ LinkBeside \/ LinkAfterPark \/ Create \/ LinkInPlace
            \/ Receive \/ RemoveDevice \/ Wipe \/ WipeKeys
  <2>1. mark' = mark /\ KeepRest
    BY <1>12 DEF Start, Recover, Separate, Park, MoveIn, WriteSlot,
                 PlaceReturning, PlaceNew, Adopt, Merge, DropPending, Absorb, Clear,
                 ForgetPrior, OpenIdle, OpenProvision, LinkPlacesPending,
                 LinkDropsScratch, LinkBeside, LinkAfterPark, Create, LinkInPlace,
                 Receive, RemoveDevice, Wipe, WipeKeys, KeepFiles
  <2> QED BY <1>1, <2>1 DEF KeepRest, KeepCounts
<1> QED BY <1>3, <1>4, <1>5, <1>6, <1>7, <1>8, <1>9, <1>10, <1>11, <1>12 DEF RelinkNext

(* A pending file has no chats, a retained store no registration.           *)
LEMMA FilesPlainKept ==
  ASSUME RelinkTypeOK, Plan(todo), RelinkNext, FilesPlain, NoAccountOpen
  PROVE  FilesPlain'
<1>1. /\ retained \in [Dir -> [made : BOOLEAN, store : StoreFile, slot : Nat]]
      /\ pendingFile \in StoreFile /\ sessionFile \in StoreFile
  BY TypesApart DEF FileOK
<1>2. pendingFile'.chats = {}
  <2>1. CASE LinkPending
    <3>1. PICK a \in Account : pendingFile' = [pendingFile EXCEPT !.reg = a]
      BY <2>1 DEF LinkPending
    <3>2. pendingFile'.chats = pendingFile.chats BY <1>1, <3>1
    <3> QED BY <3>2 DEF FilesPlain
  <2> QED BY <2>1, FileSteps, NoStoreIsEmpty DEF FilesPlain
<1>3. \A d \in Dir : retained'[d].store.reg = "none"
  <2> SUFFICES ASSUME NEW d \in Dir PROVE retained'[d].store.reg = "none" OBVIOUS
  <2>1. retained[d].store.reg = "none" BY DEF FilesPlain
  <2>2. CASE retained' = retained BY <2>1, <2>2
  <2>3. CASE Park \/ WriteSlot
    <3>1. PICK e, b, n : \/ retained' = [retained EXCEPT ![e].made = b]
                         \/ retained' = [retained EXCEPT ![e].slot = n]
      <4>1. CASE Park
        <5> DEFINE n == CHOOSE i \in Unused(Who) : \A j \in Unused(Who) : i <= j
        <5>1. retained' = [retained EXCEPT ![<<Who, n>>].made = TRUE] BY <4>1 DEF Park
        <5> HIDE DEF n
        <5> QED BY <5>1
      <4>2. CASE WriteSlot BY <4>2 DEF WriteSlot
      <4> QED BY <2>3, <4>1, <4>2
    <3>2. retained'[d].store = retained[d].store BY <1>1, <3>1
    <3> QED BY <2>1, <3>2
  <2>4. CASE MoveIn
    <3>1. /\ todo # <<>> /\ todo[1].op = "moveIn"
          /\ retained' = [retained EXCEPT ![TheDir].store = sessionFile]
      BY <2>4 DEF MoveIn, Calling
    <3>2. Near(todo, 1, Steady) BY <3>1, NearHead
    <3>3. sessionFile.reg = "none" BY <3>1, <3>2 DEF NoAccountOpen
    <3>4. TheDir \in Dir
      <4>1. todo[1] \in Calls BY <3>1, PlanHead
      <4> QED BY <3>1, <4>1 DEF Calls, TheDir
    <3> DEFINE e == TheDir
    <3>5. e \in Dir /\ retained' = [retained EXCEPT ![e].store = sessionFile] BY <3>1, <3>4
    <3> HIDE DEF e
    <3>6. /\ retained'[e].store = sessionFile
          /\ \A x \in Dir \ {e} : retained'[x] = retained[x]
      BY <1>1, <3>5
    <3> QED BY <2>1, <3>3, <3>6
  <2>5. CASE PlaceReturning
    <3>1. PICK e \in Stores : /\ e \in Dir
                              /\ retained' = [retained EXCEPT ![e].store = NoStore]
      BY <2>5, BackDir
    <3>2. /\ retained'[e].store = NoStore
          /\ \A x \in Dir \ {e} : retained'[x] = retained[x]
      BY <1>1, <3>1
    <3> QED BY <2>1, <3>2, NoStoreIsEmpty
  <2>6. CASE Clear
    <3>1. retained'[d].store \in {retained[d].store, NoStore} BY <2>6, ClearParts
    <3> QED BY <2>1, <3>1, NoStoreIsEmpty
  <2> QED BY <2>2, <2>3, <2>4, <2>5, <2>6, FileSteps
<1> QED BY <1>2, <1>3 DEF FilesPlain

(* What each step writes to the session file.                               *)
LEMMA SessionSteps ==
  ASSUME RelinkTypeOK, Plan(todo), RelinkNext, HeadNeeds, AccountReceives, LinksCounted
  PROVE  \/ sessionFile' = sessionFile
         \/ MoveIn /\ sessionFile' = NoStore
         \/ PlaceReturning
         \/ Adopt /\ sessionFile' = pendingFile /\ pendingFile' = NoStore
                  /\ ~sessionFile.there /\ Linked(pendingFile)
         \/ /\ Merge \/ MergeStops
            /\ sessionFile'.there = sessionFile.there
            /\ sessionFile.chats \subseteq sessionFile'.chats
            /\ sessionFile'.chats \subseteq sessionFile.chats \cup Source.chats
            /\ sessionFile'.reg \in {sessionFile.reg, Source.reg, "none"}
            /\ sessionFile.reg # "none" => sessionFile'.reg = sessionFile.reg
            /\ sessionFile'.prior \in {sessionFile.prior, Source.prior}
            /\ sessionFile.prior # "none" => sessionFile'.prior = sessionFile.prior
         \/ /\ ForgetPrior \/ Wipe \/ WipeKeys \/ Remember \/ LinkSession
            /\ sessionFile'.there = sessionFile.there
            /\ sessionFile'.chats = sessionFile.chats
            /\ ForgetPrior => sessionFile'.reg = sessionFile.reg /\ sessionFile'.prior = "none"
            /\ Wipe => sessionFile'.reg = "none" /\ sessionFile'.prior = sessionFile.prior
            /\ WipeKeys => sessionFile'.reg = "none" /\ sessionFile'.prior = "none"
            /\ Remember => sessionFile'.reg = sessionFile.reg /\ sessionFile'.prior = Who
            /\ LinkSession => /\ sessionFile'.reg \in Account
                              /\ sessionFile'.prior = sessionFile.prior
         \/ (OpenProvision \/ Create) /\ sessionFile' = NewStore
                  /\ (OpenProvision => ~sessionFile.there)
         \/ /\ Receive
            /\ sessionFile'.there = sessionFile.there
            /\ sessionFile'.reg = sessionFile.reg /\ sessionFile'.prior = sessionFile.prior
            /\ sessionFile'.chats = sessionFile.chats \cup {<<live, links>>}
<1>1. /\ FileOK(sessionFile) /\ sessionFile \in StoreFile
      /\ sessionFile.reg \in Account \cup {"none"}
      /\ sessionFile.prior \in Account \cup {"none"}
  BY TypesApart, NoStoreIsEmpty DEF FileOK
<1>2. CASE Adopt BY <1>2 DEF Adopt
<1>3. CASE Merge \/ MergeStops
  <2>1. /\ Calling("mergePending") \/ Calling("copy")
        /\ \/ sessionFile' = MergeInto(sessionFile, Source)
           \/ \E part \in PartOf(Source) : sessionFile' = MergeInto(sessionFile, part)
    BY <1>3 DEF Merge, MergeStops
  <2>2. Source \in StoreFile BY <2>1, SourceFile
  <2>3. PICK g \in StoreFile : /\ sessionFile' = MergeInto(sessionFile, g)
                               /\ g.reg \in {"none", Source.reg}
                               /\ g.prior \in {"none", Source.prior}
                               /\ g.chats \subseteq Source.chats
    BY <2>1, <2>2, PartParts
  <2>4. /\ sessionFile'.there = sessionFile.there
        /\ sessionFile'.reg = IF sessionFile.reg = "none" THEN g.reg ELSE sessionFile.reg
        /\ sessionFile'.prior = IF sessionFile.prior = "none" THEN g.prior
                                ELSE sessionFile.prior
        /\ sessionFile'.chats = sessionFile.chats \cup g.chats
    BY <1>1, <2>3, MergeParts
  <2>5. sessionFile'.reg \in {sessionFile.reg, Source.reg, "none"} BY <2>3, <2>4
  <2>6. sessionFile'.prior \in {sessionFile.prior, Source.prior} BY <2>3, <2>4
  <2>7. sessionFile.reg # "none" => sessionFile'.reg = sessionFile.reg BY <2>4
  <2>8. sessionFile.prior # "none" => sessionFile'.prior = sessionFile.prior BY <2>4
  <2>9. /\ sessionFile.chats \subseteq sessionFile'.chats
        /\ sessionFile'.chats \subseteq sessionFile.chats \cup Source.chats
    BY <2>3, <2>4
  <2> QED BY <1>3, <2>4, <2>5, <2>6, <2>7, <2>8, <2>9
<1>4. ASSUME NEW r \in Account \cup {"none"}, NEW p \in Account \cup {"none"},
             sessionFile' = [sessionFile EXCEPT !.reg = r, !.prior = p]
      PROVE  /\ sessionFile'.there = sessionFile.there /\ sessionFile'.reg = r
             /\ sessionFile'.prior = p /\ sessionFile'.chats = sessionFile.chats
  BY <1>1, <1>4
<1>5. CASE ForgetPrior \/ Remember
  <2>1. Who \in Account \/ ~Remember
    <3>1. Calling("remember") => todo # <<>> /\ todo[1] \in Calls /\ todo[1].op = "remember"
      BY PlanHead DEF Calling
    <3> QED BY <3>1 DEF Remember, Calls, Who
  <2>2. PICK p \in Account \cup {"none"} : /\ sessionFile' = [sessionFile EXCEPT !.prior = p]
                                           /\ ForgetPrior => p = "none"
                                           /\ Remember => p = Who
    <3>1. CASE ForgetPrior
      <4>1. ~Remember BY <3>1 DEF ForgetPrior, Remember, Calling
      <4> QED BY <3>1, <4>1 DEF ForgetPrior
    <3>2. CASE Remember
      <4>1. ~ForgetPrior BY <3>2 DEF ForgetPrior, Remember, Calling
      <4> QED BY <2>1, <3>2, <4>1 DEF Remember
    <3> QED BY <1>5, <3>1, <3>2
  <2>3. /\ sessionFile'.there = sessionFile.there /\ sessionFile'.reg = sessionFile.reg
        /\ sessionFile'.prior = p /\ sessionFile'.chats = sessionFile.chats
    BY <1>1, <2>2
  <2>4. ~Wipe /\ ~WipeKeys /\ ~LinkSession
    BY <1>5 DEF ForgetPrior, Remember, Wipe, WipeKeys, LinkSession, Calling
  <2> QED BY <1>5, <2>2, <2>3, <2>4
<1>6. CASE Wipe \/ LinkSession
  <2>1. PICK r \in Account \cup {"none"} : /\ sessionFile' = [sessionFile EXCEPT !.reg = r]
                                           /\ Wipe => r = "none"
                                           /\ LinkSession => r \in Account
    <3>1. CASE Wipe
      <4>1. ~LinkSession BY <3>1 DEF Wipe, LinkSession, Calling
      <4> QED BY <3>1, <4>1 DEF Wipe
    <3>2. CASE LinkSession
      <4>1. ~Wipe BY <3>2 DEF Wipe, LinkSession, Calling
      <4> QED BY <3>2, <4>1 DEF LinkSession
    <3> QED BY <1>6, <3>1, <3>2
  <2>2. /\ sessionFile'.there = sessionFile.there /\ sessionFile'.reg = r
        /\ sessionFile'.prior = sessionFile.prior /\ sessionFile'.chats = sessionFile.chats
    BY <1>1, <2>1
  <2>3. ~ForgetPrior /\ ~WipeKeys /\ ~Remember
    BY <1>6 DEF ForgetPrior, Remember, Wipe, WipeKeys, LinkSession, Calling
  <2> QED BY <1>6, <2>1, <2>2, <2>3
<1>7. CASE WipeKeys
  <2>1. sessionFile' = [sessionFile EXCEPT !.reg = "none", !.prior = "none"]
    BY <1>7 DEF WipeKeys
  <2>2. ~ForgetPrior /\ ~Wipe /\ ~Remember /\ ~LinkSession
    BY <1>7 DEF ForgetPrior, Remember, Wipe, WipeKeys, LinkSession, Calling
  <2> QED BY <1>4, <1>7, <2>1, <2>2
<1>8. CASE OpenProvision \/ Create
  <2>1. ~OpenProvision \/ ~Create BY DEF OpenProvision, Create, Calling
  <2> QED BY <1>8, <2>1 DEF OpenProvision, Create
<1>9. CASE Receive
  <2> DEFINE c == sessionFile.chats \cup {<<live, links>>}
  <2>1. Calling("receive") /\ sessionFile' = [sessionFile EXCEPT !.chats = c]
    BY <1>9 DEF Receive
  <2> HIDE DEF c
  <2>2. /\ sessionFile'.there = sessionFile.there /\ sessionFile'.reg = sessionFile.reg
        /\ sessionFile'.prior = sessionFile.prior /\ sessionFile'.chats = c
    BY <1>1, <2>1
  <2> QED BY <1>9, <2>2 DEF c
<1>10. CASE MoveIn BY <1>10 DEF MoveIn
<1> QED BY <1>2, <1>3, <1>5, <1>6, <1>7, <1>8, <1>9, <1>10, FileSteps

(* An account is registered only after a link was counted.                  *)
LEMMA LinksCountedKept ==
  ASSUME RelinkTypeOK, Plan(todo), RelinkNext, HeadNeeds, AccountReceives, LinksCounted,
         FilesPlain
  PROVE  LinksCounted'
<1> SUFFICES ASSUME links' = 0
             PROVE  sessionFile'.reg = "none" /\ pendingFile'.reg = "none"
  BY DEF LinksCounted
<1>1. links \in 0 .. MaxLink /\ pendingFile \in StoreFile /\ MaxLink \in Nat
  BY TypesApart, RelinkBounds DEF FileOK
<1>2. LogFailure => links' = links BY DEF LogFailure
<1>3. links' \in {links, links + 1}
  BY <1>2 DEF RelinkNext, Stop, Start, Recover, Separate, Park, MoveIn, WriteSlot, WriteMark,
    Repair, SlotFails, PlaceReturning, PlaceNew, Adopt, Merge, MergeStops, DropPending,
    Absorb, Clear, ForgetPrior, RemovalFails, Publish, OpenIdle, OpenExisting, OpenProvision,
    LinkPlacesPending, LinkDropsScratch, LinkBeside, LinkAfterPark, Create, LinkInPlace,
    LinkPending, LinkSession, Load, Receive, RemoveDevice, Wipe, WipeKeys, Remember,
    WipeFails, KeepRest, KeepCounts
<1>4. links = 0 /\ links' # links + 1 BY <1>1, <1>3
<1>5. ~LinkSession /\ ~LinkPending BY <1>4 DEF LinkSession, LinkPending
<1>6. sessionFile.reg = "none" /\ pendingFile.reg = "none" BY <1>4 DEF LinksCounted
<1>7. pendingFile'.reg = "none" BY <1>5, <1>6, FileSteps, NoStoreIsEmpty
<1>8. CASE PlaceReturning
  <2>1. PICK back \in Stores : back \in Dir /\ sessionFile' = retained[back].store
    BY <1>8, BackDir
  <2> QED BY <1>7, <2>1 DEF FilesPlain
<1>9. CASE Merge \/ MergeStops
  <2>1. Calling("mergePending") \/ Calling("copy") BY <1>9 DEF Merge, MergeStops
  <2>2. Source.reg = "none" BY <2>1, <1>6, SourceFile DEF FilesPlain
  <2>3. \E g \in {Source} \cup PartOf(Source) : sessionFile' = MergeInto(sessionFile, g)
    BY <1>9 DEF Merge, MergeStops
  <2>4. PICK g \in StoreFile : g.reg = "none" /\ sessionFile' = MergeInto(sessionFile, g)
    BY <2>1, <2>2, <2>3, SourceFile, PartParts
  <2>5. sessionFile \in StoreFile BY TypesApart DEF FileOK
  <2>6. sessionFile'.reg = "none" BY <1>6, <2>4, <2>5, MergeParts
  <2> QED BY <1>7, <2>6
<1>10. CASE ~PlaceReturning /\ ~Merge /\ ~MergeStops
  <2>1. ForgetPrior \/ Wipe \/ WipeKeys \/ Remember => sessionFile'.reg = "none"
    <3> SUFFICES ASSUME ForgetPrior \/ Wipe \/ WipeKeys \/ Remember
                 PROVE  sessionFile'.reg = "none"
      OBVIOUS
    <3> QED BY <1>5, <1>6, <1>10, SessionSteps, NoStoreIsEmpty
  <2>2. sessionFile'.reg = "none" BY <1>5, <1>6, <1>10, <2>1, SessionSteps, NoStoreIsEmpty
  <2> QED BY <1>7, <2>2
<1> QED BY <1>8, <1>9, <1>10

-----------------------------------------------------------------------------
(* What holds in every state.                                               *)
RelinkInv ==
    /\ RelinkTypeOK /\ Plan(todo)
    /\ LinksCounted /\ FilesPlain
    /\ StoreAway /\ NoAccountOpen /\ AccountReceives
    /\ HeadNeeds /\ SlotsMade /\ MergeReady /\ CopiesAhead

(* Nothing is left to do at the start, and no file is there.                *)
LEMMA RelinkInvStarts == RelinkInit => RelinkInv
<1> SUFFICES ASSUME RelinkInit PROVE RelinkInv OBVIOUS
<1>1. Len(todo) = 0 /\ todo = <<>> /\ 1 .. 0 = {} BY DEF RelinkInit
<1>2. \A i, R : ~Near(todo, i, R) BY <1>1 DEF Near
<1>3. /\ \A d \in Dir : /\ retained[d].store = NoStore /\ retained[d].slot = 0
                        /\ retained[d].made = FALSE
      /\ retained \in [Dir -> [made : BOOLEAN, store : StoreFile, slot : Nat]]
  BY NoStoreIsEmpty DEF RelinkInit
<1>4. RelinkTypeOK
  <2>1. FileOK(NoStore) BY NoStoreIsEmpty DEF FileOK
  <2>2. /\ FileOK(sessionFile) /\ FileOK(pendingFile)
        /\ \A d \in Dir : FileOK(retained[d].store)
    BY <1>3, <2>1 DEF RelinkInit
  <2>3. \A d \in Dir : ~retained[d].made => ~retained[d].store.there /\ retained[d].slot = 0
    BY <1>3, NoStoreIsEmpty
  <2>4. /\ mark \in Nat /\ links \in 0 .. MaxLink /\ failures \in 0 .. MaxFailure
        /\ live \in Account \cup {"none"} /\ published \subseteq Nat \X Dir
    BY RelinkBounds DEF RelinkInit
  <2>5. noteStayed \in BOOLEAN BY DEF RelinkInit
  <2> QED BY <1>3, <2>2, <2>3, <2>4, <2>5, TypesApart, Zenon
<1>5. FilesPlain /\ LinksCounted
  BY <1>3, NoStoreIsEmpty DEF RelinkInit, FilesPlain, LinksCounted
<1>6. Plan(todo) BY <1>1, EmptyPlan
<1> QED BY <1>1, <1>2, <1>4, <1>5, <1>6
    DEF RelinkInv, StoreAway, NoAccountOpen, AccountReceives, HeadNeeds, SlotsMade,
        MergeReady, CopiesAhead

(* Every step keeps it.                                                     *)
LEMMA RelinkInvKept == RelinkInv /\ [RelinkNext]_relinkVars => RelinkInv'
<1> SUFFICES ASSUME RelinkInv, [RelinkNext]_relinkVars PROVE RelinkInv' OBVIOUS
<1>1. /\ RelinkTypeOK /\ Plan(todo)
      /\ LinksCounted /\ FilesPlain
      /\ StoreAway /\ NoAccountOpen /\ AccountReceives
      /\ HeadNeeds /\ SlotsMade /\ MergeReady /\ CopiesAhead
  BY DEF RelinkInv
<1>2. CASE RelinkNext
  <2>1. RelinkTypeOK'
    <3>1. FileOK(sessionFile') BY <1>1, <1>2, SessionTypeKept
    <3>2. FileOK(pendingFile') BY <1>1, <1>2, PendingTypeKept
    <3>3. /\ retained' \in [Dir -> [made : BOOLEAN, store : StoreFile, slot : Nat]]
          /\ \A d \in Dir : FileOK(retained'[d].store)
          /\ \A d \in Dir : ~retained'[d].made =>
                ~retained'[d].store.there /\ retained'[d].slot = 0
      BY <1>1, <1>2, RetainedTypeKept
    <3>4. /\ mark' \in Nat /\ links' \in 0 .. MaxLink /\ failures' \in 0 .. MaxFailure
          /\ live' \in Account \cup {"none"}
          /\ published' \subseteq Nat \X Dir /\ noteStayed' \in BOOLEAN
      BY <1>1, <1>2, CountsKept
    <3>5. sessionFile' \in StoreFile /\ pendingFile' \in StoreFile
      BY <3>1, <3>2 DEF FileOK
    <3>6. \A file \in Files' : file.there \/ file = NoStore
      BY <3>1, <3>2, <3>3 DEF Files, FileOK
    <3> QED BY <3>3, <3>4, <3>5, <3>6 DEF RelinkTypeOK
  <2>2. Plan(todo')
    <3>1. Calling("receive") => live \in Account BY <1>1, StoreThere
    <3> QED BY <1>1, <1>2, <3>1, PlanKept
  <2>3. LinksCounted' BY <1>1, <1>2, LinksCountedKept
  <2>4. FilesPlain' BY <1>1, <1>2, FilesPlainKept
  <2>5. StoreAway' BY <1>1, <1>2, StoreAwayKept
  <2>6. NoAccountOpen' BY <1>1, <1>2, NoAccountOpenKept
  <2>7. AccountReceives' BY <1>1, <1>2, AccountReceivesKept
  <2>8. HeadNeeds' BY <1>1, <1>2, HeadNeedsKept
  <2>9. SlotsMade' BY <1>1, <1>2, <2>2, SlotsMadeKept
  <2>10. MergeReady' BY <1>1, <1>2, MergeReadyKept
  <2>11. CopiesAhead' BY <1>1, <1>2, CopiesAheadKept
  <2>12. Plan(todo)' BY <2>2 DEF Plan
  <2> QED BY <2>1, <2>12, <2>3, <2>4, <2>5, <2>6, <2>7, <2>8, <2>9, <2>10, <2>11
      DEF RelinkInv
<1>3. CASE UNCHANGED relinkVars
  <2>1. /\ sessionFile' = sessionFile /\ pendingFile' = pendingFile /\ retained' = retained
        /\ mark' = mark /\ todo' = todo /\ live' = live /\ links' = links
        /\ failures' = failures /\ published' = published /\ noteStayed' = noteStayed
    BY <1>3 DEF relinkVars
  <2>2. RelinkTypeOK' BY <1>1, <2>1 DEF RelinkTypeOK, Files
  <2>3. Plan(todo)' BY <1>1, <2>1
  <2>4. LinksCounted' /\ FilesPlain' BY <1>1, <2>1 DEF LinksCounted, FilesPlain
  <2>5. StoreAway' /\ NoAccountOpen' BY <1>1, <2>1 DEF StoreAway, NoAccountOpen
  <2>6. AccountReceives' /\ HeadNeeds' BY <1>1, <2>1 DEF AccountReceives, HeadNeeds, TheDir
  <2>7. SlotsMade' BY <1>1, <2>1 DEF SlotsMade
  <2>8. MergeReady' BY <1>1, <2>1 DEF MergeReady
  <2>9. CopiesAhead' BY <1>1, <2>1 DEF CopiesAhead
  <2> QED BY <2>2, <2>3, <2>4, <2>5, <2>6, <2>7, <2>8, <2>9 DEF RelinkInv
<1> QED BY <1>2, <1>3

(* The invariant of the proofs holds in every state.                        *)
LEMMA RelinkAlways == RelinkSpec => []RelinkInv
BY RelinkInvStarts, RelinkInvKept, PTL DEF RelinkSpec

(* Every variable keeps its type: a directory that is not there is empty,   *)
(* whatever is moved, merged or removed, and wherever the helper ends.      *)
THEOREM RelinkTypes == RelinkSpec => []RelinkTypeOK
<1>1. RelinkInv => RelinkTypeOK BY DEF RelinkInv
<1> QED BY <1>1, RelinkAlways, PTL

-----------------------------------------------------------------------------
(* No step loses a chat or a link.                                          *)

(* Where a chat can be.                                                     *)
LEMMA ChatsAre ==
  /\ \A c \in Chats : \/ c \in sessionFile.chats \/ c \in pendingFile.chats
                      \/ \E d \in Dir : c \in retained[d].store.chats
  /\ sessionFile'.chats \subseteq Chats' /\ pendingFile'.chats \subseteq Chats'
  /\ \A d \in Dir : retained'[d].store.chats \subseteq Chats'
BY DEF Chats, Files

(* What becomes of the chats of a directory.                                *)
LEMMA RetainedChatsStay ==
  ASSUME RelinkInv, RelinkNext, NEW d \in Dir
  PROVE  retained[d].store.chats \subseteq Chats'
<1>1. /\ retained \in [Dir -> [made : BOOLEAN, store : StoreFile, slot : Nat]]
      /\ FileOK(retained[d].store) /\ sessionFile \in StoreFile
      /\ RelinkTypeOK /\ Plan(todo)
  BY TypesApart DEF RelinkInv, FileOK
<1>2. CASE retained'[d].store = retained[d].store BY <1>2, ChatsAre
<1>3. CASE MoveIn
  <2>1. /\ todo # <<>> /\ todo[1].op = "moveIn"
        /\ retained' = [retained EXCEPT ![TheDir].store = sessionFile]
    BY <1>3 DEF MoveIn, Calling
  <2> DEFINE e == TheDir
  <2>2. ~retained[e].store.there BY <2>1 DEF RelinkInv, HeadNeeds
  <2>3. e \in Dir /\ retained' = [retained EXCEPT ![e].store = sessionFile]
    <3>1. todo[1] \in Calls BY <1>1, <2>1, PlanHead
    <3> QED BY <2>1, <3>1 DEF Calls, TheDir
  <2> HIDE DEF e
  <2>4. CASE d = e
    <3>1. retained[d].store.chats = {} BY <1>1, <2>2, <2>4, NoStoreIsEmpty
    <3> QED BY <3>1
  <2>5. CASE d # e
    <3>1. retained'[d] = retained[d] BY <1>1, <2>3, <2>5
    <3> QED BY <1>2, <3>1
  <2> QED BY <2>4, <2>5
<1>4. CASE PlaceReturning
  <2>1. PICK e \in Stores : /\ e \in Dir /\ sessionFile' = retained[e].store
                            /\ retained' = [retained EXCEPT ![e].store = NoStore]
    BY <1>1, <1>4, BackDir
  <2>2. CASE d = e BY <2>1, <2>2, ChatsAre
  <2>3. CASE d # e
    <3>1. retained'[d] = retained[d] BY <1>1, <2>1, <2>3
    <3> QED BY <1>2, <3>1
  <2> QED BY <2>2, <2>3
<1>5. CASE Clear /\ retained'[d].store # retained[d].store
  <2>1. /\ todo # <<>> /\ todo[1].op = "clear" /\ d[1] = Who /\ retained[d].store.there
        /\ sessionFile' = sessionFile
    BY <1>1, <1>5, ClearParts DEF Clear
  <2>2. Near(todo, 1, {"copy"}) BY <1>1, <2>1, NearHead
  <2>3. \/ retained[d].store.chats \subseteq sessionFile.chats
        \/ \E j \in 1 .. 1 - 1 : todo[j] = Call("copy", d[1], d[2])
    BY <2>1, <2>2 DEF RelinkInv, CopiesAhead, Who
  <2>4. 1 .. 1 - 1 = {} OBVIOUS
  <2> QED BY <2>1, <2>3, <2>4, ChatsAre
<1>6. CASE Park \/ WriteSlot
  <2>1. PICK e, b, n : \/ retained' = [retained EXCEPT ![e].made = b]
                       \/ retained' = [retained EXCEPT ![e].slot = n]
    <3>1. CASE Park
      <4> DEFINE n == CHOOSE i \in Unused(Who) : \A j \in Unused(Who) : i <= j
      <4>1. retained' = [retained EXCEPT ![<<Who, n>>].made = TRUE] BY <3>1 DEF Park
      <4> HIDE DEF n
      <4> QED BY <4>1
    <3>2. CASE WriteSlot BY <3>2 DEF WriteSlot
    <3> QED BY <1>6, <3>1, <3>2
  <2>2. retained'[d].store = retained[d].store BY <1>1, <2>1
  <2> QED BY <1>2, <2>2
<1> QED BY <1>2, <1>3, <1>4, <1>5, <1>6, FileSteps

(* What becomes of the chats of the session file.                           *)
LEMMA SessionChatsStay ==
  ASSUME RelinkInv, RelinkNext
  PROVE  sessionFile.chats \subseteq Chats'
<1>1. /\ retained \in [Dir -> [made : BOOLEAN, store : StoreFile, slot : Nat]]
      /\ FileOK(sessionFile) /\ sessionFile \in StoreFile
      /\ RelinkTypeOK /\ Plan(todo)
  BY TypesApart DEF RelinkInv, FileOK
<1>2. CASE sessionFile.chats \subseteq sessionFile'.chats BY <1>2, ChatsAre
<1>3. CASE ~sessionFile.there BY <1>1, <1>3, NoStoreIsEmpty
<1>4. CASE MoveIn
  <2>1. /\ todo # <<>> /\ todo[1].op = "moveIn"
        /\ retained' = [retained EXCEPT ![TheDir].store = sessionFile]
    BY <1>4 DEF MoveIn, Calling
  <2> DEFINE e == TheDir
  <2>2. e \in Dir /\ retained' = [retained EXCEPT ![e].store = sessionFile]
    <3>1. todo[1] \in Calls BY <1>1, <2>1, PlanHead
    <3> QED BY <2>1, <3>1 DEF Calls, TheDir
  <2> HIDE DEF e
  <2>3. retained'[e].store = sessionFile BY <1>1, <2>2
  <2> QED BY <2>2, <2>3, ChatsAre
<1>5. CASE PlaceReturning \/ Create
  <2>1. todo # <<>> /\ todo[1].op \in {"place", "create"}
    BY <1>5 DEF PlaceReturning, Create, Calling
  <2>2. Near(todo, 1, Steady) BY <1>1, <2>1, NearHead
  <2>3. ~sessionFile.there BY <2>1, <2>2 DEF RelinkInv, StoreAway
  <2> QED BY <1>3, <2>3
<1>6. \/ sessionFile.chats \subseteq sessionFile'.chats
      \/ ~sessionFile.there \/ MoveIn \/ PlaceReturning \/ Create
  <2>1. HeadNeeds /\ AccountReceives /\ LinksCounted BY DEF RelinkInv
  <2> QED BY <1>1, <2>1, SessionSteps
<1> QED BY <1>2, <1>3, <1>4, <1>5, <1>6

(* What becomes of a link in the pending file.                              *)
LEMMA LinkStays ==
  ASSUME RelinkInv, RelinkNext, Linked(pendingFile), ~Linked(pendingFile')
  PROVE  sessionFile'.there /\ sessionFile'.reg = pendingFile.reg
<1>1. /\ RelinkTypeOK /\ Plan(todo) /\ pendingFile \in StoreFile
      /\ pendingFile.there /\ pendingFile.reg # "none"
  BY TypesApart DEF RelinkInv, FileOK, Linked
<1>2. CASE Adopt
  <2>1. \/ sessionFile' = pendingFile
        \/ pendingFile' = pendingFile
    BY <1>2 DEF Adopt
  <2> QED BY <1>1, <2>1
<1>3. CASE DropPending
  <2>1. todo # <<>> /\ todo[1].op = "dropPending" /\ sessionFile' = sessionFile
    BY <1>3 DEF DropPending, Calling
  <2>2. Near(todo, 1, {"copy", "clear", "mergePending"}) BY <1>1, <2>1, NearHead
  <2>3. sessionFile.reg = pendingFile.reg BY <2>1, <2>2 DEF RelinkInv, MergeReady
  <2>4. sessionFile.there BY <2>1 DEF RelinkInv, HeadNeeds, NeedStore
  <2> QED BY <2>1, <2>3, <2>4
<1>4. CASE OpenExisting
  <2>1. /\ sessionFile' = sessionFile /\ sessionFile.there
        /\ pendingFile.reg \in {"none", sessionFile.reg} \/ pendingFile' = pendingFile
    BY <1>4 DEF OpenExisting, Linked
  <2> QED BY <1>1, <2>1
<1>5. CASE LinkDropsScratch BY <1>5 DEF LinkDropsScratch
<1>6. CASE LinkBeside BY <1>1, <1>6 DEF LinkBeside
<1>7. CASE LinkPending
  <2>1. PICK a \in Account : pendingFile' = [pendingFile EXCEPT !.reg = a]
    BY <1>7 DEF LinkPending
  <2>2. pendingFile'.there = pendingFile.there /\ pendingFile'.reg = a
    BY <1>1, <2>1 DEF StoreFile
  <2>3. a # "none" BY RelinkBounds
  <2> QED BY <1>1, <2>2, <2>3 DEF Linked
<1> QED BY <1>2, <1>3, <1>4, <1>5, <1>6, <1>7, FileSteps

(* No step loses a chat that was received, and no step drops a finished     *)
(* link before the session file is registered for its account: for every    *)
(* number of accounts, links, directories and failures, and wherever the    *)
(* helper ends (recover_pending_link, separate_previous_account,            *)
(* place_linked_store, absorb_retained_copy, remove_retained_dir).          *)
THEOREM NothingIsLost == RelinkSpec => NothingLost
<1> DEFINE A == /\ Chats \subseteq Chats'
                /\ Linked(pendingFile) /\ ~Linked(pendingFile') =>
                      sessionFile'.there /\ sessionFile'.reg = pendingFile.reg
<1>1. RelinkInv /\ RelinkNext => A
  <2> SUFFICES ASSUME RelinkInv, RelinkNext PROVE A OBVIOUS
  <2>1. pendingFile.chats = {} BY DEF RelinkInv, FilesPlain
  <2>2. Chats \subseteq Chats'
    <3> SUFFICES ASSUME NEW c \in Chats PROVE c \in Chats' OBVIOUS
    <3> QED BY <2>1, ChatsAre, RetainedChatsStay, SessionChatsStay
  <2>3. Linked(pendingFile) /\ ~Linked(pendingFile') =>
           sessionFile'.there /\ sessionFile'.reg = pendingFile.reg
    BY LinkStays
  <2> QED BY <2>2, <2>3
<1>2. RelinkInv /\ [RelinkNext]_relinkVars => [A]_relinkVars BY <1>1
<1> QED BY <1>2, RelinkAlways, PTL DEF RelinkSpec, NothingLost
=============================================================================
