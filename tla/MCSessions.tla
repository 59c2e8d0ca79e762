------------------------------ MODULE MCSessions ------------------------------
(***************************************************************************)
(* Small instances of the modules of the adapters that share no state: the *)
(* session store of a helper, the WhatsApp link owner, the store files of  *)
(* Signal, the Signal link and the Discord session.  A behaviour is a      *)
(* behaviour of one of them, the others stay as they began, so the states  *)
(* of a run are the sum of theirs.                                         *)
(***************************************************************************)
EXTENDS SessionCipher, WhatsAppLink, SignalRelink, SignalLink, DiscordSession

CONSTANT Parts \* the modules of a run

VARIABLE part \* the module that steps

sessionsVars == <<part, cipherVars, linkVars, relinkVars, signalVars, discord>>

(* One state of each module that does not step.                            *)
OneCipherInit == CipherInit /\ keychain = 0 /\ owner = "signal" /\ files = Unmoved
OneLinkInit == LinkInit /\ disk = DeletedStore
OneSignalInit == SignalInit /\ stored = "none"

SessionsInit ==
    /\ part \in Parts
    /\ IF part = "cipher" THEN CipherInit ELSE OneCipherInit
    /\ IF part = "link" THEN LinkInit ELSE OneLinkInit
    /\ RelinkInit
    /\ IF part = "signal" THEN SignalInit ELSE OneSignalInit
    /\ DiscordInit

CipherPart ==
    /\ part = "cipher" /\ CipherNext
    /\ UNCHANGED <<part, linkVars, relinkVars, signalVars, discord>>

LinkPart ==
    /\ part = "link" /\ LinkNext
    /\ UNCHANGED <<part, cipherVars, relinkVars, signalVars, discord>>

RelinkPart ==
    /\ part = "relink" /\ RelinkNext
    /\ UNCHANGED <<part, cipherVars, linkVars, signalVars, discord>>

SignalPart ==
    /\ part = "signal" /\ SignalNext
    /\ UNCHANGED <<part, cipherVars, linkVars, relinkVars, discord>>

DiscordPart ==
    /\ part = "discord" /\ DiscordNext
    /\ UNCHANGED <<part, cipherVars, linkVars, relinkVars, signalVars>>

SessionsNext == CipherPart \/ LinkPart \/ RelinkPart \/ SignalPart \/ DiscordPart

SessionsSpec == SessionsInit /\ [][SessionsNext]_sessionsVars

(* The types of all of them.                                               *)
SessionsTypeOK ==
    CipherTypeOK /\ LinkTypeOK /\ RelinkTypeOK /\ SignalTypeOK /\ DiscordTypeOK
=============================================================================
