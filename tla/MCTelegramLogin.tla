---------------------------- MODULE MCTelegramLogin ----------------------------
(***************************************************************************)
(* Small instances of TelegramLogin for TLC.                               *)
(***************************************************************************)
EXTENDS TelegramLogin, TLC

(* Workers differ in nothing but their name.                                *)
WorkerSymmetry == Permutations(Worker)
=============================================================================
