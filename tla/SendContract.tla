------------------------------ MODULE SendContract ------------------------------
(***************************************************************************)
(* What an adapter promises the shell about sends (ADR 0010 rule 4): every *)
(* send is answered once, with an acceptance or a rejection, and a send is *)
(* open only while something serves it.  When the server is gone, its open *)
(* sends are answered in the same step.  The only exception is the app     *)
(* that closes: nothing more is promised then.                             *)
(***************************************************************************)
EXTENDS Naturals

CONSTANT Requests

VARIABLES
    state,    \* per request: "new", "open", or "answered"
    serving,  \* something serves the account: a helper process, a session
    closed    \* the app closes

contractVars == <<state, serving, closed>>

ContractInit ==
    /\ state = [q \in Requests |-> "new"]
    /\ serving = FALSE
    /\ closed = FALSE

Open == {q \in Requests : state[q] = "open"}

AnswerAll(qs) == state' = [q \in Requests |-> IF q \in qs THEN "answered" ELSE state[q]]

(* A send that nothing serves is answered at once.                          *)
Submit(q) ==
    /\ state[q] = "new"
    /\ \/ state' = [state EXCEPT ![q] = "answered"] /\ ~closed
       \/ state' = [state EXCEPT ![q] = "open"] /\ (serving \/ closed)
    /\ UNCHANGED <<serving, closed>>

Answer(qs) ==
    /\ serving /\ qs # {}
    /\ AnswerAll(qs)
    /\ UNCHANGED <<serving, closed>>

Start ==
    /\ ~serving /\ ~closed
    /\ serving' = TRUE
    /\ UNCHANGED <<state, closed>>

Gone ==
    /\ serving /\ serving' = FALSE
    /\ \E qs \in SUBSET Open : (qs = Open \/ closed) /\ AnswerAll(qs)
    /\ UNCHANGED closed

Close ==
    /\ ~closed /\ closed' = TRUE
    /\ UNCHANGED <<state, serving>>

ContractNext ==
    \/ \E q \in Requests : Submit(q)
    \/ \E qs \in SUBSET Open : Answer(qs)
    \/ Start \/ Gone \/ Close

ContractSpec == ContractInit /\ [][ContractNext]_contractVars
=============================================================================
