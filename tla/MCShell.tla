-------------------------------- MODULE MCShell --------------------------------
(***************************************************************************)
(* Small instances of the modules of the shell that share no state: the    *)
(* sends of the core, the copies of the app and the history of a chat.  A  *)
(* behaviour is one of one module, and the others stay as they began.      *)
(***************************************************************************)
EXTENDS CoreSends, InstanceLock, SignalHistory, TLC

CONSTANT Parts \* the modules of a run

VARIABLE part \* the module that steps

shellVars == <<part, sendVars, instanceVars, historyVars>>

ShellInit ==
    /\ part \in Parts
    /\ SendsInit /\ (part # "sends" => protocol = "telegram" /\ core.rows = {})
    /\ InstanceInit
    /\ HistoryInit /\ (part # "history" => store = [t \in {} |-> TRUE] /\ ~thread.other)

SendsPart == part = "sends" /\ SendsNext /\ UNCHANGED <<part, instanceVars, historyVars>>
InstancePart == part = "instance" /\ InstanceNext /\ UNCHANGED <<part, sendVars, historyVars>>
HistoryPart == part = "history" /\ HistoryNext /\ UNCHANGED <<part, sendVars, instanceVars>>

ShellNext == SendsPart \/ InstancePart \/ HistoryPart
ShellSpec == ShellInit /\ [][ShellNext]_shellVars

(* The types of all of them.                                               *)
ShellTypeOK == SendsTypeOK /\ InstanceTypeOK /\ HistoryTypeOK

(* Texts differ in nothing but their name.                                 *)
TextSymmetry == Permutations(Text)
=============================================================================
