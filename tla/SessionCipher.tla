----------------------------- MODULE SessionCipher -----------------------------
(***************************************************************************)
(* The session store of a helper: how a start makes it an encrypted file   *)
(* that opens with the key of the keychain (session_cipher.rs, the         *)
(* cipher.rs of WhatsApp and of Signal, store_key.rs).                     *)
(*                                                                         *)
(* `path` is the store, `encNew` and `plainOld` are the files of its       *)
(* migration.  Each file operation is a step; the helper may end between   *)
(* any two, and an operation that fails ends the start.  A file moves or   *)
(* goes with its -wal, -shm and -journal: the checkpoint of the export     *)
(* leaves them empty.  The content of a file is a number; its rows are not *)
(* modelled, so the row check compares contents.  Another process never    *)
(* has the files: it would need helper.lock.                               *)
(***************************************************************************)
EXTENDS Naturals

CONSTANTS
    MaxContent, \* bound: writes of a run
    MaxKey      \* bound: keys that the keychain had

ASSUME CipherBounds == MaxContent \in Nat /\ MaxKey \in Nat \ {0}

VARIABLES
    files,    \* the store and the two files of its migration
    keychain, \* the key of this store, 0 for none
    keys,     \* keys made so far
    start,    \* where the start of the helper is
    aside,    \* files that this start moved to another folder
    owner,    \* the helper: WhatsApp and Signal look for encrypted files
              \* in different ways
    keyLost   \* ghost: the keychain lost the key

cipherVars == <<files, keychain, keys, start, aside, owner, keyLost>>

-----------------------------------------------------------------------------
Key == 0 .. MaxKey
Contents == 0 .. MaxContent \* 0: nothing
FileName == {"path", "encNew", "plainOld"}
(* "partial": an export that did not end; "empty": made, nothing written.  *)
File == [kind : {"none", "empty", "plain", "partial", "cipher"},
         content : Contents, key : Key]

NoFile == [kind |-> "none", content |-> 0, key |-> 0]
EmptyFile == [kind |-> "empty", content |-> 0, key |-> 0]
Plain(content) == [kind |-> "plain", content |-> content, key |-> 0]
Cipher(content) == [kind |-> "cipher", content |-> content, key |-> keychain]
Partial == [kind |-> "partial", content |-> 0, key |-> keychain]

Exists(name) == files[name].kind # "none"
OpensWithKey(name) == files[name].kind = "cipher" /\ files[name].key = keychain

(* A file that a start moves aside comes back when it cannot move all.     *)
Located(name) == IF aside[name].kind # "none" THEN aside[name] ELSE files[name]

(* The content that counts, whatever step the migration is at.             *)
Stored ==
    IF Located("path").kind \in {"plain", "cipher"} THEN Located("path").content
    ELSE Located("plainOld").content

(* Every variable has its type; the old file of a migration is the plain   *)
(* one, the new file the encrypted one.                                    *)
CipherTypeOK ==
    /\ files \in [FileName -> File] /\ aside \in [FileName -> File]
    /\ files["encNew"].kind \in {"none", "partial", "cipher"}
    /\ files["plainOld"].kind \in {"none", "plain"}
    /\ keychain \in Key /\ keys \in Key
    /\ start \in {"off", "prepare", "migrate", "export", "check", "clearOld",
                  "moveOld", "swap", "dropOld", "dropNew", "checkSwap",
                  "restore", "restoreOld", "clearEmpty", "moveAside",
                  "ready", "failed", "ioFailed"}
    /\ owner \in {"whatsapp", "signal"}
    /\ keyLost \in BOOLEAN

-----------------------------------------------------------------------------
Unmoved == [name \in FileName |-> NoFile]

Continue(next) ==
    start' = next /\ UNCHANGED <<keychain, keys, aside, owner, keyLost>>

RemoveFile(name) == files' = [files EXCEPT ![name] = NoFile]

(* rename_set refuses a name that is taken.                                *)
Rename(from, to) ==
    /\ ~Exists(to)
    /\ files' = [files EXCEPT ![to] = files[from], ![from] = NoFile]

-----------------------------------------------------------------------------
(* Variant: any store counts as an encrypted one.                          *)
AnyStorePresent == Exists("path")

(* The key.  WhatsApp also takes a file of an unfinished migration for an  *)
(* encrypted store, Signal only the store itself.                          *)
EncryptedPresent ==
    \/ files["path"].kind = "cipher"
    \/ owner = "whatsapp" /\ (Exists("encNew") \/ Exists("plainOld"))

FindKey ==
    /\ start = "off"
    /\ keychain # 0
    /\ Continue("prepare")
    /\ UNCHANGED files

CreateKey ==
    /\ start = "off"
    /\ keychain = 0 /\ ~EncryptedPresent
    /\ keys < MaxKey
    /\ keys' = keys + 1 /\ keychain' = keys + 1
    /\ start' = "prepare"
    /\ UNCHANGED <<files, aside, owner, keyLost>>

GiveUpKey ==
    /\ start = "off"
    /\ keychain = 0 /\ EncryptedPresent
    /\ Continue("moveAside")
    /\ UNCHANGED files

-----------------------------------------------------------------------------
(* prepare_file.  Without the store, the new file is there only beside the *)
(* old one: both a missing key and another key give it up before that.     *)
Resume ==
    /\ start = "prepare" /\ ~Exists("path")
    /\ UNCHANGED files
    /\ Continue(IF Exists("plainOld")
                THEN IF Exists("encNew") THEN "checkSwap" ELSE "restoreOld"
                ELSE "ready")

(* Variant: any file is taken for a plain one.                             *)
PreparePlainAny ==
    /\ start = "prepare" /\ Exists("path")
    /\ UNCHANGED files
    /\ Continue("migrate")

PreparePlain ==
    /\ start = "prepare" /\ files["path"].kind = "plain"
    /\ UNCHANGED files
    /\ Continue("migrate")

PrepareEmpty ==
    /\ start = "prepare" /\ files["path"].kind = "empty"
    /\ RemoveFile("path")
    /\ Continue("clearEmpty")

ClearEmpty ==
    /\ start = "clearEmpty"
    /\ files' = [files EXCEPT !["encNew"] = NoFile, !["plainOld"] = NoFile]
    /\ Continue("ready")

(* Variant: an encrypted store is ready as it is, what the migration left  *)
(* stays.                                                                  *)
PrepareCipherAtOnce ==
    /\ start = "prepare" /\ files["path"].kind = "cipher"
    /\ UNCHANGED files
    /\ Continue(IF OpensWithKey("path") THEN "ready" ELSE "moveAside")

PrepareCipher ==
    /\ start = "prepare" /\ files["path"].kind = "cipher"
    /\ UNCHANGED files
    /\ Continue(IF OpensWithKey("path") THEN "dropNew" ELSE "moveAside")

DropNew ==
    /\ start = "dropNew"
    /\ RemoveFile("encNew")
    /\ Continue("dropOld")

(* migrate_plaintext.                                                      *)
Migrate ==
    /\ start = "migrate"
    /\ RemoveFile("encNew")
    /\ Continue("export")

BeginExport ==
    /\ start = "export" /\ ~Exists("encNew")
    /\ files' = [files EXCEPT !["encNew"] = Partial]
    /\ Continue("export")

EndExport ==
    /\ start = "export" /\ Exists("encNew")
    /\ files' = [files EXCEPT !["encNew"] = Cipher(files["path"].content)]
    /\ Continue("check")

FailExport ==
    /\ start = "export" /\ Exists("encNew")
    /\ RemoveFile("encNew")
    /\ Continue("ioFailed")

CountsMatch(plain) ==
    OpensWithKey("encNew") /\ files["encNew"].content = files[plain].content

Check ==
    /\ start = "check"
    /\ IF CountsMatch("path")
       THEN UNCHANGED files /\ Continue("clearOld")
       ELSE RemoveFile("encNew") /\ Continue("failed")

ClearOld ==
    /\ start = "clearOld"
    /\ RemoveFile("plainOld")
    /\ Continue("moveOld")

(* Variant: the plain file goes before the new one takes its place.        *)
MoveOldDrops ==
    /\ start = "moveOld"
    /\ RemoveFile("path")
    /\ Continue("swap")

MoveOld ==
    /\ start = "moveOld"
    /\ Rename("path", "plainOld")
    /\ Continue("swap")

Swap ==
    /\ start = "swap"
    /\ Rename("encNew", "path")
    /\ Continue("dropOld")

DropOld ==
    /\ start = "dropOld"
    /\ RemoveFile("plainOld")
    /\ Continue("ready")

(* finish_checked_swap and restore_plaintext.                              *)
CheckSwap ==
    /\ start = "checkSwap"
    /\ UNCHANGED files
    /\ Continue(IF CountsMatch("plainOld") THEN "swap" ELSE "restore")

RestoreFile ==
    /\ start = "restore"
    /\ IF Exists("encNew")
       THEN RemoveFile("encNew") /\ Continue("restore")
       ELSE Rename("plainOld", "path") /\ Continue("failed")

RestoreOld ==
    /\ start = "restoreOld"
    /\ Rename("plainOld", "path")
    /\ Continue("migrate")

(* move_stores_aside moves one entry after another, and puts back what it  *)
(* moved when it cannot move the next.                                     *)
MoveFileAside(name) ==
    /\ start = "moveAside" /\ Exists(name)
    /\ RemoveFile(name)
    /\ aside' = [aside EXCEPT ![name] = files[name]]
    /\ UNCHANGED <<keychain, keys, start, owner, keyLost>>

AllAside ==
    /\ start = "moveAside" /\ \A name \in FileName : ~Exists(name)
    /\ start' = "failed" /\ aside' = Unmoved
    /\ UNCHANGED <<files, keychain, keys, owner, keyLost>>

PutBack ==
    /\ start = "moveAside" /\ \E name \in FileName : Exists(name)
    /\ files' = [name \in FileName |-> Located(name)]
    /\ start' = "ioFailed" /\ aside' = Unmoved
    /\ UNCHANGED <<keychain, keys, owner, keyLost>>

-----------------------------------------------------------------------------
(* A file operation or the keychain fails.                                 *)
FailStart ==
    /\ start \notin {"ready", "failed", "ioFailed", "moveAside"}
    /\ UNCHANGED files
    /\ Continue("ioFailed")

(* The helper ends at any point; what it moved aside stays there.          *)
EndHelper ==
    /\ start # "off"
    /\ start' = "off" /\ aside' = Unmoved
    /\ UNCHANGED <<files, keychain, keys, owner, keyLost>>

(* The helper works with its store.                                        *)
CreateStore ==
    /\ start = "ready" /\ ~Exists("path")
    /\ files' = [files EXCEPT !["path"] = EmptyFile]
    /\ Continue("ready")

Write(content) ==
    /\ start = "ready" /\ Exists("path")
    /\ files' = [files EXCEPT !["path"] = Cipher(content)]
    /\ Continue("ready")

(* The entry in the keychain goes, with the helper off.                    *)
LoseKey ==
    /\ start = "off" /\ keychain # 0
    /\ keychain' = 0 /\ keyLost' = TRUE
    /\ UNCHANGED <<files, keys, start, aside, owner>>

-----------------------------------------------------------------------------
CipherInit ==
    /\ keychain \in {0, 1} /\ keys = keychain
    /\ \E first \in {NoFile} \cup {Plain(c) : c \in Contents \ {0}}
                    \cup (IF keychain = 0 THEN {}
                          ELSE {Cipher(c) : c \in Contents}) :
          files = [Unmoved EXCEPT !["path"] = first]
    /\ start = "off" /\ aside = Unmoved
    /\ owner \in {"whatsapp", "signal"}
    /\ keyLost = FALSE

PrepareStep ==
    \/ FindKey \/ CreateKey \/ GiveUpKey
    \/ Resume \/ PreparePlain \/ PrepareEmpty \/ ClearEmpty \/ PrepareCipher
    \/ DropNew \/ Migrate \/ BeginExport \/ EndExport \/ FailExport \/ Check
    \/ ClearOld \/ MoveOld \/ Swap \/ DropOld
    \/ CheckSwap \/ RestoreFile \/ RestoreOld
    \/ \E name \in FileName : MoveFileAside(name)
    \/ AllAside \/ PutBack

CipherNext ==
    \/ PrepareStep
    \/ FailStart \/ EndHelper \/ LoseKey
    \/ CreateStore \/ \E content \in Contents : Write(content)

CipherSpec == CipherInit /\ [][CipherNext]_cipherVars

-----------------------------------------------------------------------------
(* A store that opens holds what was last written, wherever a start ended. *)
Store == INSTANCE StoreContract WITH
    Content <- Contents, content <- Stored, opened <- start = "ready",
    lost <- keyLost

KeepsStoreContract == Store!StoreSpec

(* A helper that works has one file, and the key opens it: no plain copy   *)
(* of the session is left.                                                 *)
NoPlainCopy ==
    start = "ready" =>
        /\ ~Exists("encNew") /\ ~Exists("plainOld")
        /\ files["path"].kind \in {"none", "empty"} \/ OpensWithKey("path")

(* "A crash at any step leaves a store that the next start can open": the  *)
(* row check fails, or the store is given up, only after a key was lost.   *)
CrashIsResumed == start = "failed" => keyLost

(* Every start ends well: it works on one file that its key opens, or it   *)
(* reports a loss that is real.                                            *)
StartEndsWell == NoPlainCopy /\ CrashIsResumed
=============================================================================
