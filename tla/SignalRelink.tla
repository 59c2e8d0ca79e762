------------------------------ MODULE SignalRelink ------------------------------
(***************************************************************************)
(* The store files of the Signal helper over unlinks and links of several  *)
(* phone numbers (signal/live.rs).  `sessionFile` is session.sqlite,       *)
(* `pendingFile` is the file that a link is written to while the chats of  *)
(* the previous account are in `sessionFile`, and `retained` holds one     *)
(* directory per store that was moved aside: <aci>, <aci>-2, ... or        *)
(* unstored, unstored-2, ...                                               *)
(*                                                                         *)
(* `todo` is what the worker still does, the next call first: a call that  *)
(* makes other calls puts them in its place.  Each file operation is a     *)
(* step.  The helper may end before any of them (Stop), which is also how  *)
(* a call fails that returns its error; a failure that the code only logs  *)
(* is an action of its own.  One worker has the files.                     *)
(*                                                                         *)
(* A file has the registration, the account that a removal noted           *)
(* (thinwire_prior_aci) and its chats: a chat is the account and the link  *)
(* that received it.                                                       *)
(***************************************************************************)
EXTENDS Integers, Sequences, FiniteSets

CONSTANTS
    Account,   \* phone numbers (ACIs), strings
    MaxLink,   \* bound: links of a run, and its failures
    MaxDir,    \* bound: directories of an account, 9999 in the code
    MaxFailure \* bound: failures that are only logged, of a run

ASSUME RelinkBounds ==
    /\ MaxLink \in Nat \ {0} /\ MaxDir \in Nat \ {0} /\ MaxFailure \in Nat
    /\ "none" \notin Account /\ "unstored" \notin Account
    /\ IsFiniteSet(Account)

VARIABLES
    sessionFile, \* session.sqlite
    pendingFile, \* session.sqlite.pending
    retained,    \* the directories of retained/
    mark,        \* retained/next-slot, 0 when it is not there
    todo,        \* the calls left, the next one first
    live,        \* account of the open manager, or "none"
    links,       \* links so far
    failures,    \* failures that were only logged so far
    published,   \* ghost: slots that retained rows were shown with
    noteStayed   \* ghost: a note of an account could not be removed

relinkVars == <<sessionFile, pendingFile, retained, mark, todo, live,
                links, failures, published, noteStayed>>

-----------------------------------------------------------------------------
Owner == Account \cup {"unstored"}
Dir == Owner \X (1 .. MaxDir)
HistoryRow == Account \X (1 .. MaxLink)
StoreFile == [there : BOOLEAN, reg : Account \cup {"none"},
              prior : Account \cup {"none"}, chats : SUBSET HistoryRow]

NoStore == [there |-> FALSE, reg |-> "none", prior |-> "none", chats |-> {}]
NewStore == [NoStore EXCEPT !.there = TRUE]

Linked(store) == store.there /\ store.reg # "none"

(* INSERT OR IGNORE of every table: a row of `into` stays.                 *)
MergeInto(into, from) ==
    [into EXCEPT
        !.reg = IF @ = "none" THEN from.reg ELSE @,
        !.prior = IF @ = "none" THEN from.prior ELSE @,
        !.chats = @ \cup from.chats]

(* What a copy that failed on its way can have written.                    *)
PartOf(store) ==
    {[store EXCEPT !.reg = r, !.prior = p, !.chats = c] :
        r \in {"none", store.reg}, p \in {"none", store.prior},
        c \in {{}, store.chats}}

Call(op, who, n) == [op |-> op, who |-> who, n |-> n]
Do(op) == Call(op, "none", 0)
DoFor(op, who) == Call(op, who, 0)

Stores == {d \in Dir : retained[d].store.there}
StoresOf(who) == {d \in Stores : d[1] = who}

(* retained_dirs sorts the directories by name.                            *)
OwnerRank == CHOOSE rank \in [Owner -> 1 .. Cardinality(Owner)] :
                 \A a, b \in Owner : a # b => rank[a] # rank[b]
Before(d, e) ==
    \/ OwnerRank[d[1]] < OwnerRank[e[1]]
    \/ d[1] = e[1] /\ d[2] < e[2]

Sorted(dirs) ==
    CHOOSE order \in [1 .. Cardinality(dirs) -> dirs] :
        \A i, j \in 1 .. Cardinality(dirs) : i < j => Before(order[i], order[j])
CallEach(op, dirs) ==
    [i \in 1 .. Cardinality(dirs) |-> Call(op, Sorted(dirs)[i][1], Sorted(dirs)[i][2])]

Files == {sessionFile, pendingFile} \cup {retained[d].store : d \in Dir}
Chats == UNION {file.chats : file \in Files}

(* Every variable has its type; a directory that is not there is empty.    *)
RelinkTypeOK ==
    /\ sessionFile \in StoreFile /\ pendingFile \in StoreFile
    /\ retained \in [Dir -> [made : BOOLEAN, store : StoreFile, slot : Nat]]
    /\ \A d \in Dir : ~retained[d].made =>
           ~retained[d].store.there /\ retained[d].slot = 0
    /\ \A file \in Files : file.there \/ file = NoStore
    /\ mark \in Nat /\ links \in 0 .. MaxLink /\ failures \in 0 .. MaxFailure
    /\ live \in Account \cup {"none"}
    /\ published \subseteq Nat \X Dir /\ noteStayed \in BOOLEAN

RelinkInit ==
    /\ sessionFile = NoStore /\ pendingFile = NoStore
    /\ retained = [d \in Dir |-> [made |-> FALSE, store |-> NoStore, slot |-> 0]]
    /\ mark = 0 /\ todo = <<>> /\ live = "none"
    /\ links = 0 /\ failures = 0 /\ published = {}
    /\ noteStayed = FALSE

-----------------------------------------------------------------------------
(* Calling reads the next call, Then puts calls in its place.              *)
Calling(op) == todo # <<>> /\ todo[1].op = op
Who == todo[1].who
TheDir == <<todo[1].who, todo[1].n>>
Then(calls) == todo' = calls \o Tail(todo)
Done == todo' = Tail(todo)

KeepFiles == UNCHANGED <<sessionFile, pendingFile, retained, mark>>
KeepCounts == UNCHANGED <<links, failures, published, noteStayed>>
KeepRest == UNCHANGED live /\ KeepCounts

(* A failure that the code logs.                                           *)
LogFailure ==
    /\ failures < MaxFailure /\ links + failures < MaxLink
    /\ failures' = failures + 1
    /\ UNCHANGED <<live, links, published>>

(* The helper ends, the owner cancels, or the call at hand fails.          *)
Stop ==
    /\ todo # <<>>
    /\ todo' = <<>> /\ live' = "none"
    /\ KeepFiles /\ KeepCounts

(* A worker starts.  A resume without a file ends at once.                 *)
Start ==
    /\ todo = <<>>
    /\ \E open \in {"open", "openResume"} :
           /\ open = "openResume" => sessionFile.there \/ pendingFile.there
           /\ todo' = <<Do("recover"), Do("adopt"), Do("publish"), Do(open)>>
    /\ KeepFiles /\ KeepRest

-----------------------------------------------------------------------------
(* Variant: the pending file goes before it is merged.                     *)
MergeLinkedDropsFirst == <<Do("dropPending"), Do("mergePending"),
                           DoFor("absorb", pendingFile.reg), Do("forgetPrior")>>

(* The calls of merge_linked_account for the account of the pending file.  *)
MergeLinked == <<Do("mergePending"), Do("dropPending"),
                 DoFor("absorb", pendingFile.reg), Do("forgetPrior")>>

(* recover_pending_link.                                                   *)
SameAccount ==
    \/ sessionFile.reg = pendingFile.reg
    \/ sessionFile.reg = "none" /\ sessionFile.prior = pendingFile.reg

(* Variant: a store with no registration keeps the finished link waiting.  *)
RecoverWaits ==
    /\ Calling("recover")
    /\ Then(IF ~pendingFile.there THEN <<>>
            ELSE IF ~sessionFile.there THEN <<Do("repair"), Do("separate")>>
            ELSE IF Linked(pendingFile) /\ SameAccount THEN MergeLinked
            ELSE <<>>)
    /\ KeepFiles /\ KeepRest

Recover ==
    /\ Calling("recover")
    /\ Then(IF ~pendingFile.there THEN <<>>
            ELSE IF ~sessionFile.there THEN <<Do("repair"), Do("separate")>>
            ELSE IF ~Linked(pendingFile) THEN <<>>
            ELSE IF SameAccount THEN MergeLinked
            ELSE IF sessionFile.reg = "none" THEN <<Do("repair"), Do("separate")>>
            ELSE <<>>) \* a link of another account stays
    /\ KeepFiles /\ KeepRest

(* Variant: the note is not compared with the account of the link.         *)
SeparateIntoAny ==
    /\ Calling("separate")
    /\ sessionFile.there => Linked(pendingFile)
    /\ Then(IF ~Linked(pendingFile) THEN <<>>
            ELSE IF ~sessionFile.there THEN <<Do("place")>>
            ELSE IF sessionFile.prior # "none" THEN MergeLinked
            ELSE <<DoFor("park", "unstored"), Do("place")>>)
    /\ KeepFiles /\ KeepRest

(* separate_previous_account, after its repair of the slots.               *)
Separate ==
    /\ Calling("separate")
    /\ sessionFile.there => Linked(pendingFile)
    /\ Then(IF ~Linked(pendingFile) THEN <<>>
            ELSE IF ~sessionFile.there THEN <<Do("place")>>
            ELSE IF sessionFile.prior = pendingFile.reg THEN MergeLinked
            ELSE IF sessionFile.prior = "none"
            THEN <<DoFor("park", "unstored"), Do("place")>>
            ELSE <<DoFor("park", sessionFile.prior), Do("place")>>)
    /\ KeepFiles /\ KeepRest

(* park_previous_store makes an unused directory, moves the store there,   *)
(* and gives it a slot.                                                    *)
Unused(who) == {n \in 1 .. MaxDir : ~retained[<<who, n>>].made}

(* Variant: the first directory is used again.                             *)
ParkOverFirst ==
    /\ Calling("park")
    /\ retained' = [retained EXCEPT ![<<Who, 1>>].made = TRUE]
    /\ Then(<<Call("moveIn", Who, 1), Call("slot", Who, 1)>>)
    /\ UNCHANGED <<sessionFile, pendingFile, mark>> /\ KeepRest

Park ==
    /\ Calling("park")
    /\ Unused(Who) # {}
    /\ LET n == CHOOSE i \in Unused(Who) : \A j \in Unused(Who) : i <= j
       IN  /\ retained' = [retained EXCEPT ![<<Who, n>>].made = TRUE]
           /\ Then(<<Call("moveIn", Who, n), Call("slot", Who, n)>>)
    /\ UNCHANGED <<sessionFile, pendingFile, mark>> /\ KeepRest

MoveIn ==
    /\ Calling("moveIn")
    /\ retained' = [retained EXCEPT ![TheDir].store = sessionFile]
    /\ sessionFile' = NoStore
    /\ Done
    /\ UNCHANGED <<pendingFile, mark>> /\ KeepRest

-----------------------------------------------------------------------------
(* Slots: the number of a retained row.                                    *)
Largest(S) == CHOOSE n \in S : \A m \in S : m <= n

(* Variant: the mark of the slots that were given does not count.          *)
NextSlotOfFiles == Largest({1} \cup {retained[d].slot + 1 : d \in Stores})

NextSlot == Largest({1, mark} \cup {retained[d].slot + 1 : d \in Stores})

WriteSlot ==
    /\ Calling("slot")
    /\ retained' = [retained EXCEPT ![TheDir].slot = NextSlot]
    /\ Then(<<Call("mark", "none", NextSlot + 1)>>)
    /\ UNCHANGED <<sessionFile, pendingFile, mark>> /\ KeepRest

WriteMark ==
    /\ Calling("mark")
    /\ mark' = Largest({mark, todo[1].n})
    /\ Done
    /\ UNCHANGED <<sessionFile, pendingFile, retained>> /\ KeepRest

(* Directories with no slot, or with the slot of one before them.          *)
NeedsSlot(d) ==
    \/ retained[d].slot = 0
    \/ \E e \in Stores : retained[e].slot = retained[d].slot /\ Before(e, d)

(* repair_retained_slots writes the mark, then the slots that miss.        *)
Repair ==
    /\ Calling("repair")
    /\ mark' = IF Stores = {} /\ mark = 0 THEN 0 ELSE NextSlot
    /\ Then(CallEach("slot", {d \in Stores : NeedsSlot(d)}))
    /\ UNCHANGED <<sessionFile, pendingFile, retained>> /\ KeepRest

(* A slot or a mark that cannot be written ends the repair or the park's   *)
(* numbering, and is logged.                                               *)
SlotFails ==
    /\ Calling("repair") \/ Calling("slot") \/ Calling("mark")
    /\ LET rest == {i \in 1 .. Len(todo) : todo[i].op \notin {"slot", "mark"}}
           first == CHOOSE i \in rest : \A j \in rest : i <= j
       IN  todo' = IF Calling("repair") THEN Tail(todo)
                   ELSE SubSeq(todo, first, Len(todo))
    /\ KeepFiles /\ LogFailure /\ UNCHANGED noteStayed

-----------------------------------------------------------------------------
(* place_linked_store: a retained store of the account moves back, and the *)
(* link merges into it; else the pending file becomes the session.         *)
Newest(dirs) ==
    CHOOSE d \in dirs : \A e \in dirs :
        \/ retained[e].slot < retained[d].slot
        \/ retained[e].slot = retained[d].slot /\ e[2] <= d[2]

PlaceReturning ==
    /\ Calling("place")
    /\ StoresOf(pendingFile.reg) # {}
    /\ LET back == Newest(StoresOf(pendingFile.reg))
       IN  /\ sessionFile' = retained[back].store
           /\ retained' = [retained EXCEPT ![back].store = NoStore]
           /\ Then(CallEach("copy", StoresOf(pendingFile.reg) \ {back})
                   \o <<DoFor("clear", pendingFile.reg)>> \o MergeLinked)
    /\ UNCHANGED <<pendingFile, mark>> /\ KeepRest

PlaceNew ==
    /\ Calling("place")
    /\ StoresOf(pendingFile.reg) = {}
    /\ Then(<<Do("adopt")>>)
    /\ KeepFiles /\ KeepRest

(* adopt_pending_store.                                                    *)
Adopt ==
    /\ Calling("adopt")
    /\ IF ~sessionFile.there /\ Linked(pendingFile)
       THEN sessionFile' = pendingFile /\ pendingFile' = NoStore
       ELSE UNCHANGED <<sessionFile, pendingFile>>
    /\ Done
    /\ UNCHANGED <<retained, mark>> /\ KeepRest

(* merge_pending_into_session: of the pending file, or of a retained copy. *)
Source == IF todo[1].op = "copy" THEN retained[TheDir].store ELSE pendingFile

Merge ==
    /\ Calling("mergePending") \/ Calling("copy")
    /\ sessionFile' = MergeInto(sessionFile, Source)
    /\ Done
    /\ UNCHANGED <<pendingFile, retained, mark>> /\ KeepRest

MergeStops ==
    /\ Calling("mergePending") \/ Calling("copy")
    /\ \E part \in PartOf(Source) : sessionFile' = MergeInto(sessionFile, part)
    /\ todo' = <<>> /\ live' = "none"
    /\ UNCHANGED <<pendingFile, retained, mark>> /\ KeepCounts

DropPending ==
    /\ Calling("dropPending")
    /\ pendingFile' = NoStore
    /\ Done
    /\ UNCHANGED <<sessionFile, retained, mark>> /\ KeepRest

(* Variant: the copies of the account stay where they are.                 *)
AbsorbNothing ==
    /\ Calling("absorb")
    /\ Done
    /\ KeepFiles /\ KeepRest

(* absorb_retained_copy: each copy of the account merges, then all go.     *)
Absorb ==
    /\ Calling("absorb")
    /\ Then(IF StoresOf(Who) = {} THEN <<>>
            ELSE CallEach("copy", StoresOf(Who)) \o <<DoFor("clear", Who)>>)
    /\ KeepFiles /\ KeepRest

(* Variant: the slot file stays in the directory.                          *)
ClearKeepsSlot ==
    /\ Calling("clear")
    /\ LET left == {n \in 1 .. MaxDir : retained[<<Who, n>>].made}
           d == <<Who, CHOOSE n \in left : \A m \in left : n <= m>>
       IN  IF left = {} THEN Done /\ UNCHANGED retained
           ELSE /\ retained' =
                       IF retained[d].store.there
                       THEN [retained EXCEPT ![d].store = NoStore]
                       ELSE [retained EXCEPT ![d].made = FALSE]
                /\ UNCHANGED todo
    /\ UNCHANGED <<sessionFile, pendingFile, mark>> /\ KeepRest

(* remove_retained_dir: the store, the slot, the directory of each.        *)
Clear ==
    /\ Calling("clear")
    /\ LET left == {n \in 1 .. MaxDir : retained[<<Who, n>>].made}
           d == <<Who, CHOOSE n \in left : \A m \in left : n <= m>>
       IN  IF left = {} THEN Done /\ UNCHANGED retained
           ELSE /\ retained' =
                       IF retained[d].store.there
                       THEN [retained EXCEPT ![d].store = NoStore]
                       ELSE IF retained[d].slot # 0
                       THEN [retained EXCEPT ![d].slot = 0]
                       ELSE [retained EXCEPT ![d].made = FALSE]
                /\ UNCHANGED todo
    /\ UNCHANGED <<sessionFile, pendingFile, mark>> /\ KeepRest

ForgetPrior ==
    /\ Calling("forgetPrior")
    /\ sessionFile' = [sessionFile EXCEPT !.prior = "none"]
    /\ Done
    /\ UNCHANGED <<pendingFile, retained, mark>> /\ KeepRest

(* These fail, and the worker goes on.                                     *)
RemovalFails ==
    /\ Calling("dropPending") \/ Calling("clear") \/ Calling("forgetPrior")
    /\ Done
    /\ noteStayed' = (noteStayed \/ Calling("forgetPrior"))
    /\ KeepFiles /\ LogFailure

-----------------------------------------------------------------------------
(* publish_retained_body: the stores with a slot of their own, but not the *)
(* directories of the live account.                                        *)
Publish ==
    /\ Calling("publish")
    /\ published' = published \cup
           {<<retained[d].slot, d>> : d \in
               {e \in Stores : ~NeedsSlot(e) /\ e[1] # sessionFile.reg}}
    /\ Done
    /\ KeepFiles
    /\ UNCHANGED <<live, links, failures, noteStayed>>

AfterLoad == <<Do("repair"), Do("publish"), Do("receive")>>

(* open_linked_store opens session.sqlite; only a begin makes it.          *)
OpenIdle ==
    /\ Calling("openResume")
    /\ ~Linked(sessionFile)
    /\ todo' = <<>>
    /\ KeepFiles /\ KeepRest

(* discard_pending_scratch drops a link that did not finish, or one of the *)
(* account that is open.                                                   *)
OpenExisting ==
    /\ Calling("open") \/ Calling("openResume")
    /\ Linked(sessionFile)
    /\ live' = sessionFile.reg
    /\ pendingFile' = IF pendingFile.reg \in {"none", sessionFile.reg} THEN NoStore
                  ELSE pendingFile
    /\ Then(AfterLoad)
    /\ UNCHANGED <<sessionFile, retained, mark>> /\ KeepCounts

OpenProvision ==
    /\ Calling("open")
    /\ ~Linked(sessionFile)
    /\ sessionFile' = IF sessionFile.there THEN sessionFile ELSE NewStore
    /\ Then(<<Do("link")>>)
    /\ UNCHANGED <<pendingFile, retained, mark>> /\ KeepRest

(* link_unregistered.                                                      *)
LinkPlacesPending ==
    /\ Calling("link")
    /\ Linked(pendingFile)
    /\ Then(<<Do("repair"), Do("separate"), Do("load")>>)
    /\ KeepFiles /\ KeepRest

LinkDropsScratch ==
    /\ Calling("link")
    /\ pendingFile.there /\ ~Linked(pendingFile)
    /\ pendingFile' = NoStore
    /\ UNCHANGED <<sessionFile, retained, mark, todo>> /\ KeepRest

(* The chats of a known account: the link goes to the pending file.        *)
LinkBeside ==
    /\ Calling("link")
    /\ ~pendingFile.there /\ sessionFile.prior # "none" /\ sessionFile.chats # {}
    /\ pendingFile' = NewStore
    /\ Then(<<Do("linkPending"), Do("repair"), Do("separate"), Do("load")>>)
    /\ UNCHANGED <<sessionFile, retained, mark>> /\ KeepRest

(* Chats of an account nobody noted move aside first.                      *)
LinkAfterPark ==
    /\ Calling("link")
    /\ ~pendingFile.there /\ sessionFile.prior = "none" /\ sessionFile.chats # {}
    /\ Then(<<DoFor("park", "unstored"), Do("create"), Do("linkSession")>>)
    /\ KeepFiles /\ KeepRest

Create ==
    /\ Calling("create")
    /\ sessionFile' = NewStore
    /\ Done
    /\ UNCHANGED <<pendingFile, retained, mark>> /\ KeepRest

(* No chats: the note goes, and the link is written to the session file.   *)
LinkInPlace ==
    /\ Calling("link")
    /\ ~pendingFile.there /\ sessionFile.chats = {}
    /\ Then((IF sessionFile.prior = "none" THEN <<>> ELSE <<Do("forgetPrior")>>)
            \o <<Do("linkSession")>>)
    /\ KeepFiles /\ KeepRest

(* link_new: the user scans the code with the phone of some account.       *)
LinkPending ==
    /\ Calling("linkPending")
    /\ links + failures < MaxLink /\ links' = links + 1
    /\ \E a \in Account : pendingFile' = [pendingFile EXCEPT !.reg = a]
    /\ Done
    /\ UNCHANGED <<sessionFile, retained, mark, live, failures,
                   published, noteStayed>>

LinkSession ==
    /\ Calling("linkSession")
    /\ links + failures < MaxLink /\ links' = links + 1
    /\ \E a \in Account : sessionFile' = [sessionFile EXCEPT !.reg = a] /\ live' = a
    /\ Then(AfterLoad)
    /\ UNCHANGED <<pendingFile, retained, mark, failures, published,
                   noteStayed>>

(* Manager::load_registered after a placed link.                           *)
Load ==
    /\ Calling("load")
    /\ Linked(sessionFile)
    /\ live' = sessionFile.reg
    /\ Then(AfterLoad)
    /\ KeepFiles /\ KeepCounts

-----------------------------------------------------------------------------
(* The receive loop stores the chats of the account.                       *)
Receive ==
    /\ Calling("receive")
    /\ <<live, links>> \notin sessionFile.chats
    /\ sessionFile' = [sessionFile EXCEPT !.chats = @ \cup {<<live, links>>}]
    /\ UNCHANGED <<pendingFile, retained, mark, todo>> /\ KeepRest

(* The phone removed the device: forget_rejected_registration clears the   *)
(* registration, then the keys with the note, then writes the note.        *)
RemoveDevice ==
    /\ Calling("receive")
    /\ Then(<<Do("wipe"), DoFor("wipeKeys", live), DoFor("remember", live)>>)
    /\ KeepFiles /\ KeepRest

Wipe ==
    /\ Calling("wipe")
    /\ sessionFile' = [sessionFile EXCEPT !.reg = "none"]
    /\ Done
    /\ UNCHANGED <<pendingFile, retained, mark>> /\ KeepRest

WipeKeys ==
    /\ Calling("wipeKeys")
    /\ sessionFile' = [sessionFile EXCEPT !.reg = "none", !.prior = "none"]
    /\ Done
    /\ UNCHANGED <<pendingFile, retained, mark>> /\ KeepRest

Remember ==
    /\ Calling("remember")
    /\ sessionFile' = [sessionFile EXCEPT !.prior = Who]
    /\ todo' = <<>> /\ live' = "none"
    /\ UNCHANGED <<pendingFile, retained, mark>> /\ KeepCounts

WipeFails ==
    /\ Calling("wipe") \/ Calling("wipeKeys")
    /\ Done
    /\ KeepFiles /\ LogFailure /\ UNCHANGED noteStayed

RelinkNext ==
    \/ Stop \/ Start
    \/ Recover \/ Separate \/ Park \/ MoveIn
    \/ WriteSlot \/ WriteMark \/ Repair \/ SlotFails
    \/ PlaceReturning \/ PlaceNew \/ Adopt
    \/ Merge \/ MergeStops \/ DropPending \/ Absorb \/ Clear
    \/ ForgetPrior \/ RemovalFails
    \/ Publish \/ OpenIdle \/ OpenExisting \/ OpenProvision
    \/ LinkPlacesPending \/ LinkDropsScratch \/ LinkBeside \/ LinkAfterPark
    \/ Create \/ LinkInPlace \/ LinkPending \/ LinkSession \/ Load
    \/ Receive \/ RemoveDevice \/ Wipe \/ WipeKeys \/ Remember \/ WipeFails

RelinkSpec == RelinkInit /\ [][RelinkNext]_relinkVars

-----------------------------------------------------------------------------
(* Whatever the link moves, merges or removes, and wherever it stops, each *)
(* chat that was received is in some file, and a finished link in the      *)
(* pending file stays until the session file is registered for its         *)
(* account: the phone lists this device.                                   *)
NothingLost ==
    [][/\ Chats \subseteq Chats'
       /\ Linked(pendingFile) /\ ~Linked(pendingFile') =>
             sessionFile'.there /\ sessionFile'.reg = pendingFile.reg]_relinkVars

(* The chats of two accounts never meet in a file, and a file that is      *)
(* registered or noted for an account has no chat of another, unless the   *)
(* note of an earlier account could not be removed.                        *)
AccountsStayApart ==
    noteStayed \/ \A file \in Files :
        /\ \A c, d \in file.chats : c[1] = d[1]
        /\ \A c \in file.chats : {file.reg, file.prior} \subseteq {c[1], "none"}

(* A resume ends idle only when no finished link is on disk.               *)
ResumeFindsLink ==
    (Calling("openResume") /\ ~Linked(sessionFile)) => ~Linked(pendingFile)

(* A slot that retained rows were shown with is never the slot of another  *)
(* directory: a return frees the number and nobody gets it.                *)
SlotStaysGiven ==
    \A p, q \in published : p[1] = q[1] => p[2] = q[2]

(* A link that was placed has the whole history of its number: no retained *)
(* copy of the number has a chat that the session lacks.                   *)
PlacedLinkIsWhole ==
    Calling("load") =>
        \A d \in StoresOf(sessionFile.reg) :
            retained[d].store.chats \subseteq sessionFile.chats

(* The same whenever an account is live: its directories are not shown, so *)
(* their chats must be in the session.  A link into an empty session file  *)
(* leaves them where they are.                                             *)
ReturnKeepsHistory ==
    Calling("receive") =>
        \A d \in StoresOf(live) : retained[d].store.chats \subseteq sessionFile.chats

(* Accounts are told apart, in the files and by the rows that show them.   *)
AccountsAreApart == AccountsStayApart /\ SlotStaysGiven

(* A start finds the link that was made, with its history.                 *)
LinkIsFound == ResumeFindsLink /\ PlacedLinkIsWhole

(* Each account keeps its own files, over starts and new links.            *)
AccountsKeepTheirFiles == AccountsAreApart /\ LinkIsFound
=============================================================================
