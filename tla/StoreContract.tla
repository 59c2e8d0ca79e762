----------------------------- MODULE StoreContract -----------------------------
(***************************************************************************)
(* What the protection of a session store promises: the store that a       *)
(* helper opens holds what was last written to it, whatever files are      *)
(* behind it and wherever a start was interrupted.  Its content is given   *)
(* up only when the key in the keychain was lost, and never while the      *)
(* store is open.                                                          *)
(***************************************************************************)
EXTENDS Naturals

CONSTANT Content

VARIABLES
    content, \* 0: no store
    opened,  \* the helper has the store open
    lost     \* the keychain lost a key

storeVars == <<content, opened, lost>>

StoreInit == content \in Content /\ opened = FALSE /\ lost = FALSE

OpenStore == ~opened /\ opened' = TRUE /\ UNCHANGED <<content, lost>>
CloseStore == opened /\ opened' = FALSE /\ UNCHANGED <<content, lost>>
WriteStore == opened /\ content' \in Content /\ UNCHANGED <<opened, lost>>
LoseStoreKey == ~opened /\ lost' = TRUE /\ UNCHANGED <<content, opened>>
GiveUpStore == ~opened /\ lost /\ content' = 0 /\ UNCHANGED <<opened, lost>>

StoreNext == OpenStore \/ CloseStore \/ WriteStore \/ LoseStoreKey \/ GiveUpStore

StoreSpec == StoreInit /\ [][StoreNext]_storeVars
=============================================================================
