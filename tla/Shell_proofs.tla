----------------------------- MODULE Shell_proofs -----------------------------
(***************************************************************************)
(* Proofs about the texts that the user sends, for any number of chats,    *)
(* texts and sends, and for both protocols.                                *)
(***************************************************************************)
EXTENDS CoreSends, InstanceLock, Filters_proofs, FiniteSetTheorems

-----------------------------------------------------------------------------
(* Types.                                                                  *)
Event ==
    [type : {"received"}, message : Row]
    \cup [type : {"replaced"}, old : Id, message : Row]
    \cup [type : {"failed"}, chat : Chat, id : Id]
    \cup [type : {"accepted", "rejected"}, chat : Chat, request : Request]
    \cup [type : {"ended"}]
Call == [request : Request, chat : Chat, text : Text, row : Id \cup {NoRow}]
SentMsg == [request : Request, chat : Chat, text : Text, id : Id, announced : BOOLEAN]
KeptMsg == [chat : Chat, id : Id, text : Text]

Shapes ==
    /\ protocol \in {"telegram", "discord"}
    /\ core \in Snapshot
    /\ calls \in Seq(Call)
    /\ flight \in [up : BOOLEAN, sent : SUBSET SentMsg, resend : SUBSET KeptMsg]
    /\ answers \in Seq(Event)

(* The fields of the shell that a step may change.                         *)
Field == {"linked", "selected", "compose", "drafts", "next", "open", "expired", "timedOut",
          "error", "rejected", "rows", "holds", "unbound", "late", "forgotten"}
Frame(s, t, set) == \A f \in Field \ set : t[f] = s[f]

Lines == {"holds", "unbound"}
Texts == {"compose", "drafts"}

LEMMA Frames ==
  ASSUME NEW s, NEW t, NEW u, NEW A, NEW B, NEW C, Frame(s, t, A), Frame(t, u, B),
         A \subseteq C, B \subseteq C
  PROVE  Frame(s, u, C)
BY DEF Frame

LEMMA FrameIsWider ==
  ASSUME NEW s, NEW t, NEW A, NEW C, Frame(s, t, A), A \subseteq C
  PROVE  Frame(s, t, C)
BY DEF Frame

LEMMA NoFrame == \A s, A : Frame(s, s, A)
BY DEF Frame

(* The text of a chat stays, or a chat that had none gets one.             *)
TextsStay(s, t) == \A c \in Chat : CurrentText(t, c) = CurrentText(s, c)
TextsFill(s, t) ==
    \A c \in Chat : CurrentText(t, c) = CurrentText(s, c) \/ CurrentText(s, c) = Blank

LEMMA FrameTexts ==
  ASSUME NEW s, NEW t, NEW A, Frame(s, t, A), A \cap ({"selected"} \cup Texts) = {}
  PROVE  TextsStay(s, t) /\ TextsFill(s, t)
BY DEF Frame, Field, Texts, TextsStay, TextsFill, CurrentText

-----------------------------------------------------------------------------
(* Texts.                                                                  *)
LEMMA WithTextSets ==
  ASSUME NEW s \in Snapshot, NEW c \in Chat, NEW text \in Box
  PROVE  /\ WithText(s, c, text) \in Snapshot /\ Frame(s, WithText(s, c, text), Texts)
         /\ \A d \in Chat : d # c => CurrentText(WithText(s, c, text), d) = CurrentText(s, d)
<1> DEFINE t == WithText(s, c, text)
<1>1. CASE s.selected = c
  <2>1. t = [s EXCEPT !.compose = text] BY <1>1 DEF WithText
  <2> HIDE DEF t
  <2>2. t \in Snapshot /\ Frame(s, t, Texts) BY <2>1 DEF Snapshot, Frame, Field, Texts
  <2>3. t.selected = s.selected /\ t.drafts = s.drafts BY <2>1
  <2>. QED BY <1>1, <2>2, <2>3 DEF CurrentText, t
<1>2. CASE s.selected # c
  <2>1. t = [s EXCEPT !.drafts[c] = text] BY <1>2 DEF WithText
  <2> HIDE DEF t
  <2>2. t \in Snapshot /\ Frame(s, t, Texts) BY <2>1 DEF Snapshot, Frame, Field, Texts
  <2>3. t.selected = s.selected /\ t.compose = s.compose /\ t.drafts = [s.drafts EXCEPT ![c] = text]
    BY <2>1
  <2>4. \A d \in Chat : d # c => t.drafts[d] = s.drafts[d] BY <2>3
  <2>. QED BY <1>2, <2>2, <2>3, <2>4 DEF CurrentText, t
<1>. QED BY <1>1, <1>2

LEMMA ClearSentTextSets ==
  ASSUME NEW s \in Snapshot, NEW c \in Chat, NEW text \in Box
  PROVE  /\ ClearSentText(s, c, text) \in Snapshot
         /\ Frame(s, ClearSentText(s, c, text), Texts)
         /\ \A d \in Chat :
               \/ CurrentText(ClearSentText(s, c, text), d) = CurrentText(s, d)
               \/ d = c /\ CurrentText(s, d) = text
<1> DEFINE left == IF s.selected = c /\ s.compose = text THEN Blank ELSE s.compose
           draft == IF s.drafts[c] = text THEN Blank ELSE s.drafts[c]
           t == ClearSentText(s, c, text)
<1>1. left \in Box /\ draft \in Box BY DEF Snapshot, Box
<1>2. t = [s EXCEPT !.compose = left, !.drafts[c] = draft]
  BY DEF ClearSentText
<1>3. /\ left = s.compose \/ (s.selected = c /\ s.compose = text)
      /\ draft = s.drafts[c] \/ s.drafts[c] = text
  <2>1. left = s.compose \/ (s.selected = c /\ s.compose = text)
    <3> HIDE DEF draft
    <3>. QED BY Zenon
  <2>2. draft = s.drafts[c] \/ s.drafts[c] = text
    <3> HIDE DEF left
    <3>. QED BY Zenon
  <2> HIDE DEF left, draft
  <2>. QED BY <2>1, <2>2
<1> HIDE DEF left, draft, t
<1>4. t \in Snapshot /\ Frame(s, t, Texts)
  BY <1>1, <1>2 DEF Snapshot, Frame, Field, Texts
<1>5. t.selected = s.selected /\ t.compose = left /\ t.drafts = [s.drafts EXCEPT ![c] = draft]
  BY <1>2
<1>6. \A d \in Chat : t.drafts[d] = IF d = c THEN draft ELSE s.drafts[d]
  BY <1>5 DEF Snapshot
<1>7. \A d \in Chat :
         CurrentText(t, d) = CurrentText(s, d) \/ (d = c /\ CurrentText(s, d) = text)
  BY <1>3, <1>5, <1>6 DEF CurrentText
<1>. QED BY <1>4, <1>7 DEF t

LEMMA DropRejectedBodySets ==
  ASSUME NEW s \in Snapshot, NEW c \in Chat
  PROVE  /\ DropRejectedBody(s, c) \in Snapshot
         /\ Frame(s, DropRejectedBody(s, c), {"rejected"})
<1> DEFINE no == NoReject
<1>1. no \in [text : Box, row : Box] BY DEF NoReject, Box
<1> HIDE DEF no
<1>2. DropRejectedBody(s, c) = [s EXCEPT !.rejected[c] = no] BY DEF DropRejectedBody, no
<1> DEFINE left == [s.rejected EXCEPT ![c] = no]
<1>3. left \in [Chat -> [text : Box, row : Box]] BY <1>1 DEF Snapshot
<1>4. DropRejectedBody(s, c) = [s EXCEPT !.rejected = left] BY <1>2
<1> HIDE DEF left
<1>. QED BY <1>3, <1>4 DEF Snapshot, Frame, Field

LEMMA ShowTimeoutsSets ==
  ASSUME NEW s \in Snapshot
  PROVE  ShowTimeouts(s) \in Snapshot /\ Frame(s, ShowTimeouts(s), {"error"})
<1> DEFINE e == IF s.timedOut = {} THEN "none" ELSE "timeouts"
<1>1. e \in {"none", "timeouts", "failed"} OBVIOUS
<1>2. ShowTimeouts(s) = [s EXCEPT !.error = e] BY DEF ShowTimeouts
<1> HIDE DEF e
<1>. QED BY <1>1, <1>2 DEF Snapshot, Frame, Field

-----------------------------------------------------------------------------
(* The lines "Sending...".                                                 *)
LEMMA EndHoldSets ==
  ASSUME NEW s \in Snapshot, NEW r
  PROVE  EndHold(s, r) \in Snapshot /\ Frame(s, EndHold(s, r), {"holds"})
<1> DEFINE left == Those({h \in Hold : h.request # r}, s.holds)
<1>1. left \in Seq(Hold)
  <2>1. s.holds \in Seq(Hold) BY DEF Snapshot
  <2>2. left \in Seq(Hold \cap {h \in Hold : h.request # r}) BY <2>1, ThoseFacts
  <2>. QED BY <2>2
<1>2. EndHold(s, r) = [s EXCEPT !.holds = left] BY DEF EndHold
<1> HIDE DEF left
<1>. QED BY <1>1, <1>2 DEF Snapshot, Frame, Field

LEMMA ReleaseForMessageSets ==
  ASSUME NEW s \in Snapshot, NEW id
  PROVE  /\ ReleaseForMessage(s, id) \in Snapshot
         /\ Frame(s, ReleaseForMessage(s, id), {"holds"})
BY EndHoldSets, NoFrame DEF ReleaseForMessage

LEMMA PruneUnboundSets ==
  ASSUME NEW s \in Snapshot
  PROVE  PruneUnbound(s) \in Snapshot /\ Frame(s, PruneUnbound(s), {"unbound"})
<1> DEFINE left == {u \in s.unbound : Tracks(s, u.request)}
<1>1. left \subseteq s.unbound OBVIOUS
<1>2. PruneUnbound(s) = [s EXCEPT !.unbound = left] BY DEF PruneUnbound
<1> HIDE DEF left
<1>. QED BY <1>1, <1>2 DEF Snapshot, Frame, Field

LEMMA FirstIsIn ==
  ASSUME NEW set, set \subseteq Nat, set # {}
  PROVE  First(set) \in set
BY Least DEF First

LEMMA BoundToIsIndex ==
  ASSUME NEW s \in Snapshot, NEW id, BoundTo(s, id) # {}
  PROVE  First(BoundTo(s, id)) \in 1 .. Len(s.holds) /\ s.holds[First(BoundTo(s, id))].id = id
<1>1. BoundTo(s, id) \subseteq 1 .. Len(s.holds) /\ BoundTo(s, id) \subseteq Nat
  BY DEF BoundTo
<1>2. First(BoundTo(s, id)) \in BoundTo(s, id) BY <1>1, FirstIsIn
<1>. QED BY <1>1, <1>2 DEF BoundTo

(* The line at i gets the row id.                                          *)
LEMMA BindSets ==
  ASSUME NEW s \in Snapshot, NEW i \in 1 .. Len(s.holds), NEW id \in Id
  PROVE  LET t == [s EXCEPT !.holds[i].id = id]
         IN  t \in Snapshot /\ Frame(s, t, Lines)
<1> DEFINE h == [s.holds[i] EXCEPT !.id = id]
           left == [s.holds EXCEPT ![i] = h]
<1>0. s.holds \in Seq(Hold) /\ s.holds[i] \in Hold BY DEF Snapshot
<1>1. h \in Hold BY <1>0 DEF Hold
<1>2. left \in Seq(Hold)
  <2> HIDE DEF h
  <2>. QED BY <1>1 DEF Snapshot
<1>3. [s EXCEPT !.holds[i].id = id] = [s EXCEPT !.holds = left] OBVIOUS
<1> HIDE DEF left
<1>4. [s EXCEPT !.holds = left] \in Snapshot /\ Frame(s, [s EXCEPT !.holds = left], Lines)
  BY <1>2 DEF Snapshot, Frame, Field, Lines
<1>. QED BY <1>3, <1>4

LEMMA NotePendingSets ==
  ASSUME NEW s \in Snapshot, NEW c \in Chat, NEW id \in Id
  PROVE  NotePending(s, c, id) \in Snapshot /\ Frame(s, NotePending(s, c, id), Lines)
<1> DEFINE free == {i \in 1 .. Len(s.holds) : s.holds[i].chat = c /\ s.holds[i].id = NoRow}
           r == (CHOOSE p \in InChat(s.open, c) : TRUE).request
           left == {u \in s.unbound : u.request # r} \cup {[request |-> r, chat |-> c, id |-> id]}
<1>1. CASE InChat(s.open, c) # {}
  <2>1. (CHOOSE p \in InChat(s.open, c) : TRUE) \in InChat(s.open, c) BY <1>1
  <2>2. r \in Request BY <2>1 DEF InChat, Snapshot, Pending
  <2> HIDE DEF r
  <2>3. left \in SUBSET [request : Request, chat : Chat, id : Id] BY <2>2 DEF Snapshot
  <2>4. NotePending(s, c, id) = [s EXCEPT !.unbound = left] BY <1>1 DEF NotePending, r
  <2> HIDE DEF left
  <2>. QED BY <2>3, <2>4 DEF Snapshot, Frame, Field, Lines
<1>2. CASE InChat(s.open, c) = {} /\ Cardinality(free) = 1
  <2>1. NotePending(s, c, id) = [s EXCEPT !.holds[First(free)].id = id]
    BY <1>2 DEF NotePending
  <2>2. free # {} BY SMTT(60), <1>2, FS_EmptySet
  <2>3. free \subseteq Nat OBVIOUS
  <2>4. First(free) \in 1 .. Len(s.holds) BY <2>2, <2>3, FirstIsIn
  <2> HIDE DEF free
  <2>. QED BY SMTT(60), <2>1, <2>4, BindSets
<1>3. CASE InChat(s.open, c) = {} /\ Cardinality(free) # 1
  <2>1. NotePending(s, c, id) = s BY <1>3 DEF NotePending
  <2>. QED BY <2>1, NoFrame
<1>. QED BY <1>1, <1>2, <1>3

LEMMA RebindSets ==
  ASSUME NEW s \in Snapshot, NEW old, NEW id \in Id, Names(s, old)
  PROVE  Rebind(s, old, id) \in Snapshot /\ Frame(s, Rebind(s, old, id), Lines)
<1>1. CASE BoundTo(s, old) # {}
  <2>1. Rebind(s, old, id) = [s EXCEPT !.holds[First(BoundTo(s, old))].id = id]
    BY <1>1 DEF Rebind
  <2>. QED BY <1>1, <2>1, BoundToIsIndex, BindSets
<1>2. CASE BoundTo(s, old) = {}
  <2> DEFINE u == CHOOSE v \in s.unbound : v.id = old
             w == [u EXCEPT !.id = id]
             left == (s.unbound \ {u}) \cup {w}
  <2>1. u \in s.unbound BY <1>2 DEF Names
  <2>2. Rebind(s, old, id) = [s EXCEPT !.unbound = left] BY <1>2 DEF Rebind
  <2> HIDE DEF u
  <2>3. u \in [request : Request, chat : Chat, id : Id] BY <2>1 DEF Snapshot
  <2>4. w \in [request : Request, chat : Chat, id : Id] BY <2>3
  <2> HIDE DEF w
  <2>5. left \in SUBSET [request : Request, chat : Chat, id : Id] BY <2>4 DEF Snapshot
  <2> HIDE DEF left
  <2>. QED BY <2>2, <2>5 DEF Snapshot, Frame, Field, Lines
<1>. QED BY <1>1, <1>2

LEMMA RowIsTyped ==
  ASSUME NEW m \in Row
  PROVE  /\ m.chat \in Chat /\ m.id \in Id /\ m.text \in Text /\ m.text \in Box
         /\ m.delivery \in {"pending", "sent", "failed"}
BY DEF Row, Box

LEMMA ObserveSets ==
  ASSUME NEW s \in Snapshot, NEW m \in Row, NEW old
  PROVE  Observe(s, m, old) \in Snapshot /\ Frame(s, Observe(s, m, old), Lines)
<1>1. CASE protocol # "discord" /\ m.delivery # "pending"
  <2> DEFINE t == ReleaseForMessage(s, old)
             u == ReleaseForMessage(t, m.id)
  <2>1. t \in Snapshot /\ Frame(s, t, {"holds"}) BY ReleaseForMessageSets
  <2>2. Observe(s, m, old) = u BY <1>1 DEF Observe
  <2> HIDE DEF t
  <2>3. u \in Snapshot /\ Frame(t, u, {"holds"}) BY <2>1, ReleaseForMessageSets
  <2> HIDE DEF u
  <2>. QED BY <2>1, <2>2, <2>3, Frames DEF Lines
<1>2. CASE protocol = "discord"
  <2>1. Observe(s, m, old) = s BY <1>2 DEF Observe
  <2>. QED BY <2>1, NoFrame
<1>3. CASE protocol # "discord" /\ m.delivery = "pending"
  <2>1. Observe(s, m, old) = IF old # NoRow /\ Names(s, old) THEN Rebind(s, old, m.id)
                             ELSE NotePending(s, m.chat, m.id)
    BY <1>3 DEF Observe
  <2>. QED BY <2>1, RowIsTyped, RebindSets, NotePendingSets
<1>. QED BY <1>1, <1>2, <1>3

LEMMA HoldLineSets ==
  ASSUME NEW s \in Snapshot, NEW c \in Chat, NEW r \in Request
  PROVE  HoldLine(s, c, r) \in Snapshot /\ Frame(s, HoldLine(s, c, r), Lines)
<1> DEFINE mine == {u \in s.unbound : u.request = r /\ u.chat = c}
           id == IF mine = {} THEN NoRow ELSE (CHOOSE u \in mine : TRUE).id
           h == [request |-> r, chat |-> c, id |-> id]
           left == s.unbound \ mine
           held == Append(s.holds, h)
<1>1. CASE protocol = "discord"
  <2>1. HoldLine(s, c, r) = s BY <1>1 DEF HoldLine
  <2>. QED BY <2>1, NoFrame
<1>2. CASE protocol # "discord"
  <2>1. HoldLine(s, c, r) = [s EXCEPT !.unbound = left, !.holds = held]
    BY <1>2 DEF HoldLine
  <2>2. id \in Id \cup {NoRow}
    <3>1. CASE mine = {} BY <3>1
    <3>2. CASE mine # {}
      <4>1. (CHOOSE u \in mine : TRUE) \in mine BY <3>2
      <4>. QED BY <3>2, <4>1 DEF Snapshot
    <3>. QED BY <3>1, <3>2
  <2> HIDE DEF id
  <2>3. h \in Hold BY <2>2 DEF Hold
  <2> HIDE DEF h
  <2>4. held \in Seq(Hold) /\ left \subseteq s.unbound BY <2>3 DEF Snapshot
  <2> HIDE DEF held, left
  <2>. QED BY ZenonT(60), <2>1, <2>4 DEF Snapshot, Frame, Field, Lines
<1>. QED BY <1>1, <1>2

-----------------------------------------------------------------------------
(* Rows.                                                                   *)
LEMMA NoteDeliverySets ==
  ASSUME NEW s \in Snapshot, NEW before, NEW m \in Row
  PROVE  LET t == NoteDelivery(s, before, m)
         IN  /\ t \in Snapshot /\ Frame(s, t, Texts \cup {"holds", "error"})
             /\ TextsFill(s, t)
<1> DEFINE t == NoteDelivery(s, before, m)
           released == ReleaseForMessage(s, m.id)
           filled == IF CurrentText(s, m.chat) = Blank
                     THEN WithText(released, m.chat, m.text) ELSE released
           noted == [filled EXCEPT !.error = "failed"]
<1>1. CASE m.delivery # "failed" \/ before # {"pending"}
  <2>1. t = s BY <1>1 DEF NoteDelivery
  <2> HIDE DEF t
  <2>. QED BY <2>1, NoFrame DEF TextsFill, t
<1>2. CASE ~(m.delivery # "failed" \/ before # {"pending"})
  <2>1. t = noted BY <1>2 DEF NoteDelivery
  <2>2. released \in Snapshot /\ Frame(s, released, {"holds"}) BY ReleaseForMessageSets
  <2>3. \A d \in Chat : CurrentText(released, d) = CurrentText(s, d)
    BY <2>2, FrameTexts DEF TextsStay, Texts
  <2> HIDE DEF released, t
  <2>4. /\ filled \in Snapshot /\ Frame(released, filled, Texts)
        /\ TextsFill(s, filled)
    <3>1. CASE CurrentText(s, m.chat) = Blank
      <4>1. filled = WithText(released, m.chat, m.text) BY <3>1
      <4>. QED BY <2>2, <2>3, <3>1, <4>1, RowIsTyped, WithTextSets DEF TextsFill
    <3>2. CASE CurrentText(s, m.chat) # Blank
      <4>1. filled = released BY <3>2
      <4>. QED BY <2>2, <2>3, <4>1, NoFrame DEF TextsFill
    <3>. QED BY <3>1, <3>2
  <2> HIDE DEF filled
  <2>5. noted \in Snapshot /\ Frame(filled, noted, {"error"})
    BY <2>4 DEF Snapshot, Frame, Field
  <2> HIDE DEF noted
  <2>6. \A d \in Chat : CurrentText(noted, d) = CurrentText(filled, d)
    BY <2>5, FrameTexts DEF TextsStay, Texts
  <2>7. Frame(s, filled, Texts \cup {"holds", "error"}) BY <2>2, <2>4, Frames
  <2>8. Frame(s, noted, Texts \cup {"holds", "error"}) BY <2>5, <2>7, Frames
  <2>. QED BY <2>1, <2>4, <2>5, <2>6, <2>8 DEF TextsFill, t
<1>. QED BY <1>1, <1>2

Noted == Texts \cup {"holds", "error", "rows"}

(* The row id of chat c, if there is one, has the delivery d.              *)
Marked(s, t, c, id, d) ==
    IF RowOf(s, c, id) = {} THEN t.rows = s.rows
    ELSE \E m \in RowOf(s, c, id) : t.rows = (s.rows \ {m}) \cup {[m EXCEPT !.delivery = d]}

LEMMA SetDeliverySets ==
  ASSUME NEW s \in Snapshot, NEW c, NEW id, NEW delivery \in {"pending", "sent", "failed"}
  PROVE  LET t == SetDelivery(s, c, id, delivery)
         IN  /\ t \in Snapshot /\ Frame(s, t, Noted) /\ TextsFill(s, t)
             /\ Marked(s, t, c, id, delivery)
<1> DEFINE t == SetDelivery(s, c, id, delivery)
           m == CHOOSE x \in RowOf(s, c, id) : TRUE
           moved == [m EXCEPT !.delivery = delivery]
           left == (s.rows \ {m}) \cup {moved}
           u == [s EXCEPT !.rows = left]
<1>1. CASE RowOf(s, c, id) = {}
  <2>1. t = s BY <1>1 DEF SetDelivery
  <2> HIDE DEF t
  <2>2. Marked(s, t, c, id, delivery) BY <1>1, <2>1 DEF Marked
  <2>. QED BY <2>1, <2>2, NoFrame DEF TextsFill, t
<1>2. CASE RowOf(s, c, id) # {}
  <2>1. m \in RowOf(s, c, id) BY <1>2
  <2>2. t = NoteDelivery(u, {m.delivery}, moved) BY <1>2 DEF SetDelivery
  <2> HIDE DEF m, t
  <2>3. m \in Row BY <2>1 DEF RowOf, Snapshot
  <2>4. moved \in Row BY <2>3 DEF Row
  <2>11. moved = [m EXCEPT !.delivery = delivery] OBVIOUS
  <2> HIDE DEF moved
  <2>5. left \in SUBSET Row BY <2>4 DEF Snapshot
  <2> HIDE DEF left
  <2>6. u \in Snapshot /\ Frame(s, u, {"rows"}) /\ u.rows = left
    BY <2>5 DEF Snapshot, Frame, Field
  <2> HIDE DEF u
  <2>7. t \in Snapshot /\ Frame(u, t, Texts \cup {"holds", "error"}) /\ TextsFill(u, t)
    BY <2>2, <2>4, <2>6, NoteDeliverySets
  <2>8. TextsStay(s, u) BY <2>6, FrameTexts DEF Texts
  <2>9. TextsFill(s, t) BY <2>7, <2>8 DEF TextsStay, TextsFill
  <2>10. Frame(s, t, Noted) BY <2>6, <2>7, Frames DEF Noted
  <2>12. t.rows = left BY <2>6, <2>7 DEF Frame, Field, Texts
  <2>13. t.rows = (s.rows \ {m}) \cup {[m EXCEPT !.delivery = delivery]}
    BY <2>11, <2>12 DEF left
  <2>14. Marked(s, t, c, id, delivery) BY <1>2, <2>1, <2>13 DEF Marked
  <2>. QED BY <2>7, <2>9, <2>10, <2>14 DEF t
<1>. QED BY <1>1, <1>2

LEMMA UpsertSets ==
  ASSUME NEW s \in Snapshot, NEW m \in Row
  PROVE  /\ Upsert(s, m) \in Snapshot /\ Frame(s, Upsert(s, m), {"rows"})
         /\ Upsert(s, m).rows = (s.rows \ RowOf(s, m.chat, m.id)) \cup {m}
<1> DEFINE left == (s.rows \ RowOf(s, m.chat, m.id)) \cup {m}
<1>1. left \in SUBSET Row BY DEF Snapshot
<1>2. Upsert(s, m) = [s EXCEPT !.rows = left] BY DEF Upsert
<1>3. left = (s.rows \ RowOf(s, m.chat, m.id)) \cup {m} OBVIOUS
<1> HIDE DEF left
<1>4. Upsert(s, m).rows = left BY <1>2
<1>. QED BY <1>1, <1>2, <1>3, <1>4 DEF Snapshot, Frame, Field

Seen == Texts \cup {"holds", "unbound", "error", "rows"}

LEMMA ReceivedSets ==
  ASSUME NEW s \in Snapshot, NEW m \in Row
  PROVE  LET t == Received(s, m)
         IN  /\ t \in Snapshot /\ Frame(s, t, Seen) /\ TextsFill(s, t)
             /\ t.rows = (s.rows \ RowOf(s, m.chat, m.id)) \cup {m}
<1> DEFINE n == NoteDelivery(s, DeliveryOf(s, m.chat, m.id), m)
           o == Observe(n, m, NoRow)
           t == Upsert(o, m)
<1>1. n \in Snapshot /\ Frame(s, n, Texts \cup {"holds", "error"}) /\ TextsFill(s, n)
  BY NoteDeliverySets
<1>5. Received(s, m) = t BY DEF Received
<1> HIDE DEF n
<1>2. o \in Snapshot /\ Frame(n, o, Lines) BY <1>1, ObserveSets
<1> HIDE DEF o
<1>3. t \in Snapshot /\ Frame(o, t, {"rows"}) /\ t.rows = (o.rows \ RowOf(o, m.chat, m.id)) \cup {m}
  BY <1>2, UpsertSets
<1> HIDE DEF t
<1>9. o.rows = s.rows BY <1>1, <1>2 DEF Frame, Field, Texts, Lines
<1>10. t.rows = (s.rows \ RowOf(s, m.chat, m.id)) \cup {m} BY <1>3, <1>9 DEF RowOf
<1>4. TextsStay(n, o) /\ TextsStay(o, t) BY <1>2, <1>3, FrameTexts DEF Lines, Texts
<1>6. Frame(s, o, Seen) BY <1>1, <1>2, Frames DEF Seen, Lines
<1>7. Frame(s, t, Seen) BY <1>3, <1>6, Frames DEF Seen
<1>8. TextsFill(s, t) BY <1>1, <1>4 DEF TextsStay, TextsFill
<1>. QED BY <1>3, <1>5, <1>7, <1>8, <1>10

LEMMA ReplacedSets ==
  ASSUME NEW s \in Snapshot, NEW old, NEW m \in Row
  PROVE  LET t == Replaced(s, old, m)
         IN  /\ t \in Snapshot /\ Frame(s, t, Seen) /\ TextsFill(s, t)
             /\ t.rows = ((s.rows \ RowOf(s, m.chat, old)) \ RowOf(s, m.chat, m.id)) \cup {m}
<1> DEFINE n == NoteDelivery(s, DeliveryOf(s, m.chat, old), m)
           o == Observe(n, m, old)
           left == o.rows \ RowOf(s, m.chat, old)
           p == [o EXCEPT !.rows = left]
           t == Upsert(p, m)
<1>1. n \in Snapshot /\ Frame(s, n, Texts \cup {"holds", "error"}) /\ TextsFill(s, n)
  BY NoteDeliverySets
<1>5. Replaced(s, old, m) = t BY DEF Replaced
<1> HIDE DEF n
<1>2. o \in Snapshot /\ Frame(n, o, Lines) BY <1>1, ObserveSets
<1> HIDE DEF o
<1>3. left \in SUBSET Row BY <1>2 DEF Snapshot
<1>12. o.rows = s.rows BY <1>1, <1>2 DEF Frame, Field, Texts, Lines
<1>13. left = s.rows \ RowOf(s, m.chat, old) BY <1>12
<1> HIDE DEF left
<1>4. p \in Snapshot /\ Frame(o, p, {"rows"}) /\ p.rows = left
  BY <1>2, <1>3 DEF Snapshot, Frame, Field
<1> HIDE DEF p
<1>6. t \in Snapshot /\ Frame(p, t, {"rows"}) /\ t.rows = (p.rows \ RowOf(p, m.chat, m.id)) \cup {m}
  BY <1>4, UpsertSets
<1> HIDE DEF t
<1>14. t.rows = ((s.rows \ RowOf(s, m.chat, old)) \ RowOf(s, m.chat, m.id)) \cup {m}
  BY <1>4, <1>6, <1>13 DEF RowOf
<1>7. TextsStay(n, o) /\ TextsStay(o, p) /\ TextsStay(p, t)
  BY <1>2, <1>4, <1>6, FrameTexts DEF Lines, Texts
<1>8. Frame(s, o, Seen) BY <1>1, <1>2, Frames DEF Seen, Lines
<1>9. Frame(s, p, Seen) BY <1>4, <1>8, Frames DEF Seen
<1>10. Frame(s, t, Seen) BY <1>6, <1>9, Frames DEF Seen
<1>11. TextsFill(s, t) BY <1>1, <1>7 DEF TextsStay, TextsFill
<1>. QED BY <1>5, <1>6, <1>10, <1>11, <1>14

-----------------------------------------------------------------------------
(* Answers.                                                                *)
LEMMA PendingIsTyped ==
  ASSUME NEW p \in Pending
  PROVE  /\ p.request \in Request /\ p.chat \in Chat /\ p.text \in Box
         /\ p.row \in Id \cup {NoRow}
BY DEF Pending, Box

LEMMA AskedIsIn ==
  ASSUME NEW set, NEW c, NEW r, Asked(set, c, r) # {}
  PROVE  LET p == CHOOSE x \in Asked(set, c, r) : TRUE
         IN  p \in set /\ p.chat = c /\ p.request = r
<1> DEFINE p == CHOOSE x \in Asked(set, c, r) : TRUE
<1>1. p \in Asked(set, c, r) OBVIOUS
<1> HIDE DEF p
<1>2. p \in set /\ p.chat = c /\ p.request = r BY <1>1 DEF Asked
<1>. QED BY <1>2 DEF p

(* What an answer to a send or a retry of request r in chat c may do to a  *)
(* text.                                                                   *)
TextsAnswered(s, t, c, r) ==
    \A d \in Chat :
        \/ CurrentText(t, d) = CurrentText(s, d)
        \/ CurrentText(s, d) = Blank
        \/ d = c /\ \E p \in InChat(Unanswered(s), c) :
                       p.request = r /\ p.text = CurrentText(s, c)

(* What a late accept does to the rows and to the other retries of its     *)
(* row.                                                                    *)
LateRows(s, t, c, r) ==
    \/ t.rows = s.rows /\ t.open = s.open
    \/ \E p \in Asked(s.expired, c, r) :
          /\ p.row # NoRow
          /\ Marked(s, t, c, p.row, "sent")
          /\ t.open = {q \in s.open : ~(q.chat = c /\ q.row = p.row)}

(* What a late accept does to the timeout error.                           *)
LateTimed(s, t, c, r) ==
    t.timedOut = IF Asked(s.expired, c, r) = {} THEN s.timedOut
                 ELSE {e \in s.timedOut : ~(e.chat = c /\ e.request = r)}

LEMMA LateAcceptSets ==
  ASSUME NEW s \in Snapshot, NEW c \in Chat, NEW r \in Request
  PROVE  LET t == LateAccept(s, c, r)
         IN  /\ t \in Snapshot
             /\ Frame(s, t, Seen \cup {"open", "expired", "rejected", "timedOut"})
             /\ TextsAnswered(s, t, c, r)
             /\ t.open \subseteq s.open
             /\ \A q \in s.open \ t.open :
                   \E p \in s.expired : p.request = r /\ p.row = q.row /\ p.row # NoRow
             /\ t.expired = s.expired \ Asked(s.expired, c, r)
             /\ LateRows(s, t, c, r) /\ LateTimed(s, t, c, r)
<1> DEFINE Wide == Seen \cup {"open", "expired", "rejected", "timedOut"}
           late == Asked(s.expired, c, r)
           p == CHOOSE x \in late : TRUE
           kept == s.expired \ late
           s0 == [s EXCEPT !.expired = kept]
           settled == DropRejectedBody(s0, c)
           marked == SetDelivery(settled, c, p.row, "sent")
           open == {q \in marked.open : ~(q.chat = c /\ q.row = p.row)}
           taken == IF p.row = NoRow THEN ClearSentText(settled, c, p.text)
                    ELSE [marked EXCEPT !.open = open]
           over == {e \in taken.timedOut : ~(e.chat = c /\ e.request = r)}
           listed == [taken EXCEPT !.timedOut = over]
           shown == IF taken.error = "timeouts" THEN ShowTimeouts(listed) ELSE listed
           t == HoldLine(shown, c, r)
<1>1. CASE late = {}
  <2>1. LateAccept(s, c, r) = s BY <1>1 DEF LateAccept
  <2>2. s.expired = s.expired \ late BY <1>1
  <2>. QED BY <1>1, <2>1, <2>2, NoFrame DEF TextsAnswered, LateRows, LateTimed
<1>2. CASE late # {}
  <2>1. LateAccept(s, c, r) = t BY <1>2 DEF LateAccept
  <2>2. p \in s.expired /\ p.chat = c /\ p.request = r BY <1>2, AskedIsIn
  <2>3. p \in Pending BY <2>2 DEF Snapshot
  <2>20. p \in Asked(s.expired, c, r) BY <2>2 DEF Asked
  <2> HIDE DEF p
  <2>4. kept \subseteq s.expired OBVIOUS
  <2> HIDE DEF kept
  <2>5. s0 \in Snapshot /\ Frame(s, s0, {"expired"}) /\ s0.expired = kept
    BY <2>4 DEF Snapshot, Frame, Field
  <2> HIDE DEF s0
  <2>6. settled \in Snapshot /\ Frame(s0, settled, {"rejected"})
    BY <2>5, DropRejectedBodySets
  <2> HIDE DEF settled
  <2>7. /\ Frame(s, settled, Wide) /\ settled.expired = kept /\ settled.open = s.open
        /\ settled.rows = s.rows /\ settled.timedOut = s.timedOut
    BY <2>5, <2>6 DEF Frame, Field
  <2>8. TextsStay(s, settled)
    <3>1. TextsStay(s, s0) /\ TextsStay(s0, settled) BY <2>5, <2>6, FrameTexts DEF Texts
    <3>. QED BY <3>1 DEF TextsStay
  <2>9. /\ taken \in Snapshot /\ Frame(s, taken, Wide) /\ taken.expired = kept
        /\ taken.timedOut = s.timedOut
        /\ taken.open \subseteq s.open
        /\ \A q \in s.open \ taken.open : p.row = q.row /\ p.row # NoRow
        /\ TextsAnswered(s, taken, c, r)
        /\ \/ taken.rows = s.rows /\ taken.open = s.open
           \/ /\ p.row # NoRow /\ Marked(s, taken, c, p.row, "sent")
              /\ taken.open = {q \in s.open : ~(q.chat = c /\ q.row = p.row)}
    <3>1. CASE p.row = NoRow
      <4> DEFINE v == ClearSentText(settled, c, p.text)
      <4>1. taken = v BY <3>1
      <4>2. /\ v \in Snapshot /\ Frame(settled, v, Texts)
            /\ \A d \in Chat : \/ CurrentText(v, d) = CurrentText(settled, d)
                               \/ d = c /\ CurrentText(settled, d) = p.text
        BY <2>3, <2>6, PendingIsTyped, ClearSentTextSets
      <4> HIDE DEF v, taken
      <4>3. Frame(s, v, Wide) /\ v.expired = kept /\ v.open = s.open /\ v.rows = s.rows
            /\ v.timedOut = s.timedOut
        BY <2>7, <4>2 DEF Seen, Frame, Field, Texts
      <4>4. TextsAnswered(s, v, c, r)
        BY <2>2, <2>8, <4>2 DEF TextsAnswered, TextsStay, InChat, Unanswered
      <4>. QED BY <4>1, <4>2, <4>3, <4>4
    <3>2. CASE p.row # NoRow
      <4> DEFINE v == [marked EXCEPT !.open = open]
      <4>1. taken = v BY <3>2
      <4>2. /\ marked \in Snapshot /\ Frame(settled, marked, Noted) /\ TextsFill(settled, marked)
            /\ Marked(settled, marked, c, p.row, "sent")
        BY <2>6, SetDeliverySets
      <4> HIDE DEF marked, taken
      <4>3. open \subseteq marked.open OBVIOUS
      <4>4. \A q \in marked.open \ open : p.row = q.row OBVIOUS
      <4>12. open = {q \in marked.open : ~(q.chat = c /\ q.row = p.row)} OBVIOUS
      <4> HIDE DEF open
      <4>5. v \in Snapshot /\ Frame(marked, v, {"open"}) /\ v.open = open
        BY <4>2, <4>3 DEF Snapshot, Frame, Field
      <4> HIDE DEF v
      <4>6. marked.open = s.open /\ marked.expired = kept /\ marked.timedOut = s.timedOut
        BY <2>7, <4>2 DEF Frame, Field, Noted, Texts
      <4>7. v.expired = kept /\ v.timedOut = s.timedOut BY <4>5, <4>6 DEF Frame, Field
      <4>8. Frame(s, marked, Wide) BY <2>7, <4>2, Frames DEF Noted, Seen
      <4>9. Frame(s, v, Wide) BY <4>5, <4>8, Frames
      <4>10. TextsStay(marked, v) BY <4>5, FrameTexts DEF Texts
      <4>11. TextsAnswered(s, v, c, r)
        BY <2>8, <4>2, <4>10 DEF TextsAnswered, TextsStay, TextsFill
      <4>13. v.rows = marked.rows BY <4>5 DEF Frame, Field
      <4>14. Marked(s, v, c, p.row, "sent") BY <2>7, <4>2, <4>13 DEF Marked, RowOf
      <4>. QED BY <3>2, <4>1, <4>3, <4>4, <4>5, <4>6, <4>7, <4>9, <4>11, <4>12, <4>14
    <3>. QED BY <3>1, <3>2
  <2> HIDE DEF taken
  <2>10. over \subseteq taken.timedOut OBVIOUS
  <2>22. over = {e \in s.timedOut : ~(e.chat = c /\ e.request = r)} BY <2>9
  <2> HIDE DEF over
  <2>11. listed \in Snapshot /\ Frame(taken, listed, {"timedOut"}) /\ listed.timedOut = over
    BY <2>9, <2>10 DEF Snapshot, Frame, Field
  <2> HIDE DEF listed
  <2>12. shown \in Snapshot /\ Frame(listed, shown, {"error"})
    BY <2>11, ShowTimeoutsSets, NoFrame
  <2> HIDE DEF shown
  <2>13. t \in Snapshot /\ Frame(shown, t, Lines) BY <2>12, HoldLineSets
  <2> HIDE DEF t
  <2>14. Frame(taken, shown, Wide) BY <2>11, <2>12, Frames DEF Seen
  <2>15. Frame(taken, t, Wide) BY <2>13, <2>14, Frames DEF Seen, Lines
  <2>16. Frame(s, t, Wide) BY <2>9, <2>15, Frames
  <2>17. t.open = taken.open /\ t.expired = taken.expired /\ t.rows = taken.rows
    BY <2>11, <2>12, <2>13 DEF Frame, Field, Lines
  <2>18. TextsStay(taken, listed) /\ TextsStay(listed, shown) /\ TextsStay(shown, t)
    BY <2>11, <2>12, <2>13, FrameTexts DEF Texts, Lines
  <2>19. TextsAnswered(s, t, c, r) BY <2>9, <2>18 DEF TextsAnswered, TextsStay
  <2>21. LateRows(s, t, c, r) BY <2>9, <2>17, <2>20 DEF LateRows, Marked
  <2>23. t.timedOut = over BY <2>11, <2>12, <2>13 DEF Frame, Field, Lines
  <2>24. LateTimed(s, t, c, r) BY <2>20, <2>22, <2>23 DEF LateTimed
  <2>. QED BY <2>1, <2>2, <2>9, <2>13, <2>16, <2>17, <2>19, <2>21, <2>24 DEF kept
<1>. QED BY <1>1, <1>2

Answered == Seen \cup {"open", "expired", "rejected", "timedOut"}

(* What an accept does to what waits and to the rows.                      *)
AcceptRows(s, t, c, r) ==
    \/ /\ Asked(s.open, c, r) # {}
       /\ t.open = s.open \ Asked(s.open, c, r)
       /\ t.expired = s.expired /\ t.timedOut = s.timedOut
       /\ t.rows = s.rows
    \/ /\ Asked(s.open, c, r) = {}
       /\ t.expired = s.expired \ Asked(s.expired, c, r)
       /\ LateRows(s, t, c, r) /\ LateTimed(s, t, c, r)

LEMMA AcceptedSets ==
  ASSUME NEW s \in Snapshot, NEW c \in Chat, NEW r \in Request
  PROVE  LET t == Accepted(s, c, r)
         IN  /\ t \in Snapshot /\ Frame(s, t, Answered)
             /\ TextsAnswered(s, t, c, r)
             /\ t.open \subseteq s.open
             /\ t.expired \subseteq s.expired
             /\ \A q \in s.open \ t.open :
                   \/ q.request = r
                   \/ \E p \in s.expired : p.request = r /\ p.row = q.row /\ p.row # NoRow
             /\ AcceptRows(s, t, c, r)
<1> DEFINE mine == Asked(s.open, c, r)
           p == CHOOSE x \in mine : TRUE
           left == s.open \ mine
           s0 == [s EXCEPT !.open = left]
           settled == DropRejectedBody(s0, c)
           cleared == IF p.row = NoRow THEN ClearSentText(settled, c, p.text) ELSE settled
           t == HoldLine(cleared, c, r)
<1>1. CASE mine = {}
  <2>1. Accepted(s, c, r) = LateAccept(s, c, r) BY <1>1 DEF Accepted
  <2>2. Answered = Seen \cup {"open", "expired", "rejected", "timedOut"} BY DEF Answered
  <2> HIDE DEF mine, t
  <2> DEFINE v == LateAccept(s, c, r)
  <2>3. /\ v \in Snapshot
        /\ Frame(s, v, Seen \cup {"open", "expired", "rejected", "timedOut"})
        /\ TextsAnswered(s, v, c, r)
        /\ v.open \subseteq s.open
        /\ \A q \in s.open \ v.open :
              \E x \in s.expired : x.request = r /\ x.row = q.row /\ x.row # NoRow
        /\ v.expired = s.expired \ Asked(s.expired, c, r)
        /\ LateRows(s, v, c, r) /\ LateTimed(s, v, c, r)
    <3>1. v \in Snapshot /\ v.open \subseteq s.open /\ TextsAnswered(s, v, c, r)
      BY LateAcceptSets
    <3>2. Frame(s, v, Seen \cup {"open", "expired", "rejected", "timedOut"})
      BY LateAcceptSets
    <3>3. v.expired = s.expired \ Asked(s.expired, c, r) BY LateAcceptSets
    <3>5. LateRows(s, v, c, r) /\ LateTimed(s, v, c, r) BY LateAcceptSets
    <3>4. ASSUME NEW q \in s.open \ v.open
          PROVE  \E x \in s.expired : x.request = r /\ x.row = q.row /\ x.row # NoRow
      BY LateAcceptSets
    <3> HIDE DEF v
    <3>. QED BY <3>1, <3>2, <3>3, <3>4, <3>5
  <2>4. Asked(s.open, c, r) = {} BY <1>1 DEF mine
  <2> HIDE DEF v
  <2>5. AcceptRows(s, v, c, r) BY <2>3, <2>4 DEF AcceptRows
  <2>. QED BY <2>1, <2>2, <2>3, <2>5 DEF v
<1>2. CASE mine # {}
  <2>1. Accepted(s, c, r) = t BY <1>2 DEF Accepted
  <2>2. p \in s.open /\ p.chat = c /\ p.request = r BY <1>2, AskedIsIn
  <2>3. p \in Pending BY <2>2 DEF Snapshot
  <2>4. left \subseteq s.open /\ \A q \in s.open \ left : q.request = r BY DEF Asked
  <2>16. left = s.open \ Asked(s.open, c, r) /\ Asked(s.open, c, r) # {} BY <1>2
  <2> HIDE DEF p, left
  <2>5. s0 \in Snapshot /\ Frame(s, s0, {"open"}) /\ s0.open = left
    BY <2>4 DEF Snapshot, Frame, Field
  <2> HIDE DEF s0
  <2>6. settled \in Snapshot /\ Frame(s0, settled, {"rejected"})
    BY <2>5, DropRejectedBodySets
  <2> HIDE DEF settled
  <2>7. TextsStay(s, s0) /\ TextsStay(s0, settled) BY <2>5, <2>6, FrameTexts DEF Texts
  <2>8. /\ cleared \in Snapshot /\ Frame(settled, cleared, Texts)
        /\ \A d \in Chat : \/ CurrentText(cleared, d) = CurrentText(settled, d)
                           \/ d = c /\ CurrentText(settled, d) = p.text
    <3>1. CASE p.row = NoRow
      <4>1. cleared = ClearSentText(settled, c, p.text) BY <3>1
      <4>. QED BY <2>3, <2>6, <4>1, PendingIsTyped, ClearSentTextSets
    <3>2. CASE p.row # NoRow
      <4>1. cleared = settled BY <3>2
      <4>. QED BY <2>6, <4>1, NoFrame
    <3>. QED BY <3>1, <3>2
  <2> HIDE DEF cleared
  <2>9. t \in Snapshot /\ Frame(cleared, t, Lines) BY <2>8, HoldLineSets
  <2> HIDE DEF t
  <2>10. TextsStay(cleared, t) BY <2>9, FrameTexts DEF Lines, Texts
  <2>11. TextsAnswered(s, t, c, r)
    BY <2>2, <2>7, <2>8, <2>10 DEF TextsAnswered, TextsStay, InChat, Unanswered
  <2>12. Frame(s, settled, Answered) BY <2>5, <2>6, Frames DEF Answered
  <2>13. Frame(s, cleared, Answered) BY <2>8, <2>12, Frames DEF Answered, Seen
  <2>14. Frame(s, t, Answered) BY <2>9, <2>13, Frames DEF Answered, Seen, Lines
  <2>15. /\ t.open = left /\ t.expired = s.expired /\ t.rows = s.rows
         /\ t.timedOut = s.timedOut
    BY <2>5, <2>6, <2>8, <2>9 DEF Frame, Field, Lines, Texts
  <2>17. AcceptRows(s, t, c, r) BY <2>15, <2>16 DEF AcceptRows
  <2> HIDE DEF mine
  <2>. QED BY <2>1, <2>4, <2>9, <2>11, <2>14, <2>15, <2>17
<1>. QED BY <1>1, <1>2

(* What is left of a chat's rejected texts.                                *)
LEMMA RejectedTextSets ==
  ASSUME NEW s \in Snapshot, NEW c \in Chat, NEW text \in Box
  PROVE  /\ [s EXCEPT !.rejected[c].text = text] \in Snapshot
         /\ Frame(s, [s EXCEPT !.rejected[c].text = text], {"rejected"})
         /\ [s EXCEPT !.rejected[c].row = text] \in Snapshot
         /\ Frame(s, [s EXCEPT !.rejected[c].row = text], {"rejected"})
<1> DEFINE a == [s.rejected[c] EXCEPT !.text = text]
           b == [s.rejected[c] EXCEPT !.row = text]
           left == [s.rejected EXCEPT ![c] = a]
           right == [s.rejected EXCEPT ![c] = b]
<1>0. s.rejected \in [Chat -> [text : Box, row : Box]] BY DEF Snapshot
<1>1. a \in [text : Box, row : Box] /\ b \in [text : Box, row : Box] BY <1>0
<1>4. /\ [s EXCEPT !.rejected[c].text = text] = [s EXCEPT !.rejected = left]
      /\ [s EXCEPT !.rejected[c].row = text] = [s EXCEPT !.rejected = right]
  OBVIOUS
<1> HIDE DEF a, b
<1>2. left \in [Chat -> [text : Box, row : Box]] /\ right \in [Chat -> [text : Box, row : Box]]
  BY <1>0, <1>1
<1> HIDE DEF left, right
<1>3. /\ [s EXCEPT !.rejected = left] \in Snapshot
      /\ Frame(s, [s EXCEPT !.rejected = left], {"rejected"})
      /\ [s EXCEPT !.rejected = right] \in Snapshot
      /\ Frame(s, [s EXCEPT !.rejected = right], {"rejected"})
  BY <1>2 DEF Snapshot, Frame, Field
<1>. QED BY <1>3, <1>4

(* What a rejection does to what waits and to the rows.                    *)
RejectRows(s, t, c, r) ==
  /\ t.timedOut = s.timedOut
  /\ \/ /\ Asked(s.open, c, r) = {}
       /\ t.open = s.open
       /\ t.expired = s.expired \ Asked(s.expired, c, r)
       /\ t.rows = s.rows
    \/ /\ t.open = s.open \ Asked(s.open, c, r)
       /\ t.expired = s.expired
       /\ \E p \in Asked(s.open, c, r) :
             IF p.row = NoRow THEN t.rows = s.rows ELSE Marked(s, t, c, p.row, "failed")

LEMMA RejectedSets ==
  ASSUME NEW s \in Snapshot, NEW c \in Chat, NEW r \in Request
  PROVE  LET t == Rejected(s, c, r)
         IN  /\ t \in Snapshot /\ Frame(s, t, Answered) /\ TextsFill(s, t)
             /\ t.open \subseteq s.open
             /\ t.expired \subseteq s.expired
             /\ \A q \in s.open \ t.open : q.request = r
             /\ RejectRows(s, t, c, r)
<1> DEFINE mine == Asked(s.open, c, r)
           p == CHOOSE x \in mine : TRUE
           ended == EndHold(s, r)
           left == ended.open \ mine
           settled == [ended EXCEPT !.open = left]
           failed == SetDelivery(settled, c, p.row, "failed")
           old == IF RowOf(s, c, p.row) = {} THEN failed.rejected[c].row
                  ELSE (CHOOSE m \in RowOf(s, c, p.row) : TRUE).text
           noted == IF p.row = NoRow THEN [settled EXCEPT !.rejected[c].text = p.text]
                    ELSE [failed EXCEPT !.rejected[c].row = old]
           kept == ended.expired \ Asked(ended.expired, c, r)
           late == [ended EXCEPT !.expired = kept]
           told == [noted EXCEPT !.error = "failed"]
           u == IF mine = {} THEN late ELSE told
           t == PruneUnbound(u)
<1>1. Rejected(s, c, r) = t
  <2>1. CASE mine = {}
    <3>1. t = PruneUnbound(late) BY <2>1
    <3>. QED BY <2>1, <3>1 DEF Rejected
  <2>2. CASE mine # {} /\ p.row = NoRow BY <2>2 DEF Rejected
  <2>3. CASE mine # {} /\ p.row # NoRow
    <3>1. ended \in Snapshot BY EndHoldSets
    <3>2. settled \in Snapshot
      <4> HIDE DEF ended
      <4>. QED BY <3>1 DEF Snapshot
    <3>3. failed \in Snapshot
      <4> HIDE DEF settled
      <4>. QED BY <3>2, SetDeliverySets
    <3>4. noted = [failed EXCEPT !.rejected[c].row = old] BY <2>3
    <3>5. t = PruneUnbound([noted EXCEPT !.error = "failed"]) BY <2>3
    <3>6. [failed EXCEPT !.rejected[c].row =
              IF RowOf(s, c, p.row) = {} THEN @
              ELSE (CHOOSE m \in RowOf(s, c, p.row) : TRUE).text]
          = [failed EXCEPT !.rejected[c].row = old]
      <4> HIDE DEF failed, p
      <4>. QED BY <3>3
    <3>7. Rejected(s, c, r) = PruneUnbound(
              [[failed EXCEPT !.rejected[c].row =
                   IF RowOf(s, c, p.row) = {} THEN @
                   ELSE (CHOOSE m \in RowOf(s, c, p.row) : TRUE).text]
                  EXCEPT !.error = "failed"])
      BY <2>3 DEF Rejected
    <3> HIDE DEF old, failed, noted, t, p
    <3>. QED BY <3>4, <3>5, <3>6, <3>7
  <2> HIDE DEF mine, p, t
  <2>. QED BY <2>1, <2>2, <2>3
<1>2. ended \in Snapshot /\ Frame(s, ended, {"holds"}) BY EndHoldSets
<1> HIDE DEF ended
<1>3. /\ ended.open = s.open /\ ended.expired = s.expired /\ ended.rows = s.rows
      /\ ended.timedOut = s.timedOut
  BY <1>2 DEF Frame, Field
<1>4. TextsStay(s, ended) BY <1>2, FrameTexts DEF Texts
<1>5. /\ u \in Snapshot /\ Frame(s, u, Answered) /\ TextsFill(s, u)
      /\ u.open \subseteq s.open /\ u.expired \subseteq s.expired
      /\ \A q \in s.open \ u.open : q.request = r
      /\ RejectRows(s, u, c, r)
  <2>1. CASE mine = {}
    <3>1. u = late BY <2>1
    <3>2. kept \subseteq ended.expired OBVIOUS
    <3>8. kept = s.expired \ Asked(s.expired, c, r) /\ Asked(s.open, c, r) = {}
      BY <1>3, <2>1
    <3> HIDE DEF kept
    <3>3. late \in Snapshot /\ Frame(ended, late, {"expired"}) /\ late.expired = kept
      BY <1>2, <3>2 DEF Snapshot, Frame, Field
    <3> HIDE DEF late
    <3>4. TextsStay(ended, late) BY <3>3, FrameTexts DEF Texts
    <3>5. Frame(s, late, Answered) BY <1>2, <3>3, Frames DEF Answered, Seen
    <3>6. late.open = s.open /\ late.rows = s.rows /\ late.timedOut = s.timedOut
      BY <1>3, <3>3 DEF Frame, Field
    <3>9. RejectRows(s, late, c, r) BY <3>3, <3>6, <3>8 DEF RejectRows
    <3>7. TextsFill(s, late) BY <1>4, <3>4 DEF TextsStay, TextsFill
    <3> HIDE DEF u
    <3>. QED BY <1>3, <3>1, <3>2, <3>3, <3>5, <3>6, <3>7, <3>9
  <2>2. CASE mine # {}
    <3>1. u = told
      <4> HIDE DEF mine, late, told
      <4>. QED BY <2>2
    <3>2. p \in s.open /\ p.chat = c /\ p.request = r BY <2>2, AskedIsIn
    <3>3. p \in Pending BY <3>2 DEF Snapshot
    <3>4. left \subseteq ended.open /\ \A q \in s.open \ left : q.request = r
      BY <1>3 DEF Asked
    <3>15. p \in Asked(s.open, c, r) /\ left = s.open \ Asked(s.open, c, r)
      BY <1>3, <3>2 DEF Asked
    <3> HIDE DEF p, left
    <3>5. settled \in Snapshot /\ Frame(ended, settled, {"open"}) /\ settled.open = left
      BY <1>2, <3>4 DEF Snapshot, Frame, Field
    <3> HIDE DEF settled
    <3>6. TextsStay(ended, settled) BY <3>5, FrameTexts DEF Texts
    <3>7. Frame(s, settled, Answered) BY <1>2, <3>5, Frames DEF Answered, Seen
    <3>8. /\ noted \in Snapshot /\ Frame(settled, noted, Noted \cup {"rejected"})
          /\ TextsFill(settled, noted)
          /\ IF p.row = NoRow THEN noted.rows = settled.rows
             ELSE Marked(settled, noted, c, p.row, "failed")
      <4>1. CASE p.row = NoRow
        <5>1. noted = [settled EXCEPT !.rejected[c].text = p.text] BY <4>1
        <5> DEFINE v == [settled EXCEPT !.rejected[c].text = p.text]
        <5>2. v \in Snapshot /\ Frame(settled, v, {"rejected"})
          BY <3>3, <3>5, PendingIsTyped, RejectedTextSets
        <5> HIDE DEF v
        <5>3. TextsFill(settled, v) BY <5>2, FrameTexts DEF Texts
        <5>4. Frame(settled, v, Noted \cup {"rejected"}) BY <5>2, FrameIsWider
        <5>5. v.rows = settled.rows BY <5>2 DEF Frame, Field
        <5> HIDE DEF noted
        <5>. QED BY <4>1, <5>1, <5>2, <5>3, <5>4, <5>5 DEF v
      <4>2. CASE p.row # NoRow
        <5>1. noted = [failed EXCEPT !.rejected[c].row = old] BY <4>2
        <5>2. /\ failed \in Snapshot /\ Frame(settled, failed, Noted) /\ TextsFill(settled, failed)
              /\ Marked(settled, failed, c, p.row, "failed")
          BY <3>5, SetDeliverySets
        <5> HIDE DEF failed
        <5>3. old \in Box
          <6>1. CASE RowOf(s, c, p.row) = {}
            <7>1. old = failed.rejected[c].row BY <6>1
            <7>. QED BY <5>2, <7>1 DEF Snapshot
          <6>2. CASE RowOf(s, c, p.row) # {}
            <7>1. (CHOOSE m \in RowOf(s, c, p.row) : TRUE) \in RowOf(s, c, p.row)
              BY <6>2
            <7>2. (CHOOSE m \in RowOf(s, c, p.row) : TRUE) \in Row
              BY <7>1 DEF RowOf, Snapshot
            <7>. QED BY <6>2, <7>2, RowIsTyped
          <6>. QED BY <6>1, <6>2
        <5> HIDE DEF old
        <5> DEFINE v == [failed EXCEPT !.rejected[c].row = old]
        <5>4. v \in Snapshot /\ Frame(failed, v, {"rejected"})
          BY <5>2, <5>3, RejectedTextSets
        <5> HIDE DEF v
        <5>5. TextsStay(failed, v) BY <5>4, FrameTexts DEF Texts
        <5>6. Frame(settled, v, Noted \cup {"rejected"}) BY <5>2, <5>4, Frames
        <5>7. TextsFill(settled, v) BY <5>2, <5>5 DEF TextsStay, TextsFill
        <5>8. v.rows = failed.rows BY <5>4 DEF Frame, Field
        <5>9. Marked(settled, v, c, p.row, "failed") BY <5>2, <5>8 DEF Marked
        <5> HIDE DEF noted
        <5>. QED BY <4>2, <5>1, <5>4, <5>6, <5>7, <5>9 DEF v
      <4>. QED BY <4>1, <4>2
    <3> HIDE DEF noted
    <3>9. told \in Snapshot /\ Frame(noted, told, {"error"})
      BY <3>8 DEF Snapshot, Frame, Field
    <3> HIDE DEF told
    <3>10. TextsStay(noted, told) BY <3>9, FrameTexts DEF Texts
    <3>11. Frame(s, noted, Answered) BY <3>7, <3>8, Frames DEF Answered, Seen, Noted
    <3>12. Frame(s, told, Answered) BY <3>9, <3>11, Frames DEF Answered, Seen
    <3>13. told.open = left /\ told.expired = s.expired /\ told.timedOut = s.timedOut
      BY <1>3, <3>5, <3>8, <3>9 DEF Frame, Field, Noted, Texts
    <3>14. TextsFill(s, told) BY <1>4, <3>6, <3>8, <3>10 DEF TextsStay, TextsFill
    <3>16. settled.rows = s.rows /\ told.rows = noted.rows
      BY <1>3, <3>5, <3>9 DEF Frame, Field
    <3>17. RejectRows(s, told, c, r)
      BY <3>8, <3>13, <3>15, <3>16 DEF RejectRows, Marked, RowOf
    <3> HIDE DEF u
    <3>. QED BY <1>3, <3>1, <3>4, <3>9, <3>12, <3>13, <3>14, <3>17
  <2> HIDE DEF mine, u
  <2>. QED BY <2>1, <2>2
<1> HIDE DEF u
<1>6. t \in Snapshot /\ Frame(u, t, {"unbound"}) BY <1>5, PruneUnboundSets
<1> HIDE DEF t
<1>7. Frame(s, t, Answered) BY <1>5, <1>6, Frames DEF Answered, Seen
<1>8. /\ TextsStay(u, t) /\ t.open = u.open /\ t.expired = u.expired /\ t.rows = u.rows
      /\ t.timedOut = u.timedOut
  <2>1. /\ t.open = u.open /\ t.expired = u.expired /\ t.rows = u.rows
        /\ t.timedOut = u.timedOut
    BY <1>6 DEF Frame, Field
  <2>. QED BY <1>6, <2>1, FrameTexts DEF Texts
<1>9. TextsFill(s, t) BY <1>5, <1>8 DEF TextsStay, TextsFill
<1>10. RejectRows(s, t, c, r) BY <1>5, <1>8 DEF RejectRows, Marked
<1>. QED BY <1>1, <1>5, <1>6, <1>7, <1>8, <1>9, <1>10

LEMMA ExpireSets ==
  ASSUME NEW s \in Snapshot, NEW p \in s.open
  PROVE  LET t == Expire(s, p)
         IN  /\ t \in Snapshot /\ Frame(s, t, Answered \cup {"late"}) /\ TextsFill(s, t)
             /\ t.open = s.open \ {p} /\ t.expired = s.expired \cup {p}
             /\ t.late = s.late \cup {p.request}
             /\ Marked(s, t, p.chat, p.row, "failed")
             /\ \A e \in t.timedOut : \/ e \in s.timedOut
                                      \/ e.request = p.request /\ e.chat = p.chat
<1> DEFINE Wide == Answered \cup {"late"}
           open == s.open \ {p}
           expired == s.expired \cup {p}
           late == s.late \cup {p.request}
           timed == IF s.error = "timeouts" THEN s.timedOut ELSE {}
           moved == [s EXCEPT !.open = open, !.expired = expired, !.late = late,
                              !.timedOut = timed]
           failed == SetDelivery(moved, p.chat, p.row, "failed")
           entry == [request |-> p.request, chat |-> p.chat, retry |-> p.row # NoRow]
           over == failed.timedOut \cup {entry}
           listed == [failed EXCEPT !.timedOut = over]
           shown == ShowTimeouts(listed)
           t == PruneUnbound(shown)
<1>0. p \in Pending BY DEF Snapshot
<1>1. Expire(s, p) = t BY DEF Expire
<1>2. open \subseteq s.open /\ expired \in SUBSET Pending /\ late \in SUBSET Request
  BY <1>0, PendingIsTyped DEF Snapshot
<1>3. timed \subseteq s.timedOut OBVIOUS
<1>4. entry \in [request : Request, chat : Chat, retry : BOOLEAN]
  <2> DEFINE retry == p.row # NoRow
  <2>1. retry \in BOOLEAN OBVIOUS
  <2> HIDE DEF retry
  <2>2. [request |-> p.request, chat |-> p.chat, retry |-> retry]
            \in [request : Request, chat : Chat, retry : BOOLEAN]
    BY <1>0, <2>1, PendingIsTyped
  <2>. QED BY <2>2 DEF retry
<1>20. entry.request = p.request /\ entry.chat = p.chat OBVIOUS
<1> HIDE DEF open, expired, late, timed, entry
<1>5. /\ moved \in Snapshot /\ Frame(s, moved, {"open", "expired", "late", "timedOut"})
      /\ moved.open = open /\ moved.expired = expired /\ moved.timedOut = timed
      /\ moved.late = late
  BY <1>2, <1>3 DEF Snapshot, Frame, Field
<1> HIDE DEF moved
<1>6. /\ failed \in Snapshot /\ Frame(moved, failed, Noted) /\ TextsFill(moved, failed)
      /\ Marked(moved, failed, p.chat, p.row, "failed")
  BY <1>5, SetDeliverySets
<1> HIDE DEF failed
<1>7. over \in SUBSET [request : Request, chat : Chat, retry : BOOLEAN]
  BY <1>4, <1>6 DEF Snapshot
<1>21. over = timed \cup {entry} BY <1>5, <1>6 DEF Frame, Field, Noted, Texts
<1> HIDE DEF over
<1>8. listed \in Snapshot /\ Frame(failed, listed, {"timedOut"}) /\ listed.timedOut = over
  BY <1>6, <1>7 DEF Snapshot, Frame, Field
<1> HIDE DEF listed
<1>9. shown \in Snapshot /\ Frame(listed, shown, {"error"}) BY <1>8, ShowTimeoutsSets
<1> HIDE DEF shown
<1>10. t \in Snapshot /\ Frame(shown, t, {"unbound"}) BY <1>9, PruneUnboundSets
<1> HIDE DEF t
<1>11. Frame(s, failed, Wide) BY <1>5, <1>6, Frames DEF Answered, Seen, Noted
<1>12. Frame(s, listed, Wide) BY <1>8, <1>11, Frames DEF Answered
<1>13. Frame(s, shown, Wide) BY <1>9, <1>12, Frames DEF Answered, Seen
<1>14. Frame(s, t, Wide) BY <1>10, <1>13, Frames DEF Answered, Seen
<1>15. t.open = open /\ t.expired = expired /\ t.late = late
  BY <1>5, <1>6, <1>8, <1>9, <1>10 DEF Frame, Field, Noted, Texts
<1>16. TextsStay(s, moved) /\ TextsStay(failed, listed) /\ TextsStay(listed, shown) /\ TextsStay(shown, t)
  BY <1>5, <1>8, <1>9, <1>10, FrameTexts DEF Texts
<1>17. TextsFill(s, t) BY <1>6, <1>16 DEF TextsStay, TextsFill
<1>18. moved.rows = s.rows /\ t.rows = failed.rows
  BY <1>5, <1>8, <1>9, <1>10 DEF Frame, Field
<1>19. Marked(s, t, p.chat, p.row, "failed") BY <1>6, <1>18 DEF Marked, RowOf
<1>22. t.timedOut = over BY <1>8, <1>9, <1>10 DEF Frame, Field
<1>23. \A e \in t.timedOut : e \in s.timedOut \/ (e.request = p.request /\ e.chat = p.chat)
  BY <1>3, <1>20, <1>21, <1>22
<1>. QED BY <1>1, <1>10, <1>14, <1>15, <1>17, <1>19, <1>23 DEF open, expired, late

-----------------------------------------------------------------------------
(* The end of a session.                                                   *)
LEMMA RowTextIsText ==
  ASSUME NEW s \in Snapshot, NEW c, NEW id, RowOf(s, c, id) # {}
  PROVE  (CHOOSE m \in RowOf(s, c, id) : TRUE).text \in Box
<1>1. (CHOOSE m \in RowOf(s, c, id) : TRUE) \in RowOf(s, c, id) OBVIOUS
<1>2. (CHOOSE m \in RowOf(s, c, id) : TRUE) \in Row BY <1>1 DEF RowOf, Snapshot
<1>. QED BY <1>2, RowIsTyped

LEMMA TextOfIsText ==
  ASSUME NEW s \in Snapshot, NEW p \in Pending
  PROVE  TextOf(s, p) \in Box
BY RowTextIsText, PendingIsTyped DEF TextOf, Box

(* Of sends that wait, one has the greatest request.                       *)
LEMMA NewestExists ==
  ASSUME NEW W, W \subseteq Pending, W # {}
  PROVE  \E p \in W : \A q \in W : q.request <= p.request
<1> DEFINE T == {MaxRequest - p.request : p \in W}
<1>1. \A p \in W : p.request \in 1 .. MaxRequest BY PendingIsTyped DEF Request
<1>2. T \subseteq Nat /\ T # {} BY <1>1, SendBound
<1>3. PICK x \in T : \A y \in T : x <= y BY <1>2, Least
<1>4. PICK p \in W : x = MaxRequest - p.request BY <1>3
<1>5. ASSUME NEW q \in W PROVE q.request <= p.request
  <2>1. MaxRequest - p.request <= MaxRequest - q.request BY <1>3, <1>4
  <2>. QED BY <1>1, <2>1, SendBound
<1>. QED BY <1>5

LEMMA KeptIsText ==
  ASSUME NEW s \in Snapshot, NEW c \in Chat
  PROVE  /\ TextToKeep(s, c) \in Box
         /\ \/ CurrentText(s, c) \in {Blank, TextToKeep(s, c)}
            \/ protocol = "telegram"
            \/ ~Owed(s, c)
<1> DEFINE waiting == {p \in InChat(Unanswered(s), c) :
                           /\ TextOf(s, p) # Blank
                           /\ CurrentText(s, c) \in {Blank, TextOf(s, p)}}
           newest == CHOOSE p \in waiting : \A q \in waiting : q.request <= p.request
<1>1. CASE protocol = "telegram" BY <1>1 DEF TextToKeep, Box
<1>2. CASE protocol # "telegram" /\ waiting # {}
  <2>1. TextToKeep(s, c) = TextOf(s, newest) BY <1>2 DEF TextToKeep
  <2>2. waiting \subseteq Pending BY DEF InChat, Unanswered, Snapshot
  <2>3. newest \in waiting
    <3> HIDE DEF waiting
    <3>1. \E p \in waiting : \A q \in waiting : q.request <= p.request
      BY <1>2, <2>2, NewestExists
    <3>. QED BY <3>1
  <2> HIDE DEF newest
  <2>4. newest \in Pending /\ CurrentText(s, c) \in {Blank, TextOf(s, newest)}
    BY <2>2, <2>3
  <2>. QED BY <2>1, <2>4, TextOfIsText
<1>3. CASE protocol # "telegram" /\ waiting = {}
  <2>1. TextToKeep(s, c) = RejectedToKeep(s, c) BY <1>3 DEF TextToKeep
  <2>2. s.rejected[c].text \in Box /\ s.rejected[c].row \in Box BY DEF Snapshot
  <2>3. RejectedToKeep(s, c) \in Box BY <2>2 DEF RejectedToKeep, Box
  <2>4. ASSUME CurrentText(s, c) # Blank, Owed(s, c)
        PROVE  CurrentText(s, c) = RejectedToKeep(s, c)
    <3>1. ~\E p \in InChat(Unanswered(s), c) : TextOf(s, p) = CurrentText(s, c)
      BY <1>3, <2>4
    <3>2. \/ CurrentText(s, c) = s.rejected[c].text
          \/ s.rejected[c].text = Blank /\ CurrentText(s, c) = s.rejected[c].row
      BY <2>4, <3>1 DEF Owed
    <3>. QED BY <2>4, <3>2 DEF RejectedToKeep
  <2>. QED BY <2>1, <2>3, <2>4
<1>. QED BY <1>1, <1>2, <1>3

LEMMA EndSessionSets ==
  ASSUME NEW s \in Snapshot
  PROVE  LET t == EndSession(s)
         IN  /\ t \in Snapshot
             /\ Frame(s, t, Answered \cup {"linked", "selected"})
             /\ t.linked = FALSE
             /\ t.open = {} /\ t.expired = {} /\ t.rows = {} /\ t.timedOut = {}
             /\ t.holds = <<>> /\ t.unbound = {}
             /\ \A c \in Chat : CurrentText(t, c) = TextToKeep(s, c)
<1> DEFINE dropped == [s EXCEPT !.timedOut = {}]
           shown == IF s.error = "timeouts" THEN ShowTimeouts(dropped) ELSE dropped
           no == FALSE
           drafts == [c \in Chat |-> TextToKeep(s, c)]
           rejected == [c \in Chat |-> NoReject]
           none == {}
           empty == <<>>
           t == [shown EXCEPT !.linked = no, !.drafts = drafts, !.rejected = rejected,
                              !.rows = none, !.open = none, !.expired = none,
                              !.holds = empty, !.unbound = none,
                              !.compose = Blank, !.selected = Elsewhere]
<1>1. EndSession(s) = t BY DEF EndSession
<1>2. dropped \in Snapshot /\ Frame(s, dropped, {"timedOut"}) /\ dropped.timedOut = {}
  BY DEF Snapshot, Frame, Field
<1> HIDE DEF dropped
<1>3. shown \in Snapshot /\ Frame(dropped, shown, {"error"})
  BY <1>2, ShowTimeoutsSets, NoFrame
<1> HIDE DEF shown
<1>4. no \in BOOLEAN /\ empty \in Seq(Hold) OBVIOUS
<1>5. drafts \in [Chat -> Box] /\ \A c \in Chat : drafts[c] = TextToKeep(s, c)
  BY KeptIsText
<1>6. rejected \in [Chat -> [text : Box, row : Box]] BY DEF NoReject, Box
<1>7. none \subseteq Row /\ none \subseteq Pending /\ none \subseteq [request : Request, chat : Chat, id : Id]
  OBVIOUS
<1>8. Blank \in Box BY DEF Box
<1> HIDE DEF no, drafts, rejected, none, empty
<1> DEFINE a == [shown EXCEPT !.linked = no, !.drafts = drafts, !.rejected = rejected,
                              !.rows = none, !.open = none]
           b == [a EXCEPT !.expired = none, !.holds = empty, !.unbound = none,
                          !.compose = Blank, !.selected = Elsewhere]
<1>9. t = b BY <1>3
<1>10. a \in Snapshot BY <1>3, <1>5, <1>4, <1>6, <1>7 DEF Snapshot
<1>17. /\ Frame(shown, a, Answered \cup {"linked", "selected"})
       /\ a.linked = no /\ a.drafts = drafts /\ a.rows = none /\ a.open = none
       /\ a.timedOut = shown.timedOut
  BY <1>3 DEF Snapshot, Frame, Field, Answered, Seen, Texts
<1> HIDE DEF t, a
<1>18. b \in Snapshot BY <1>4, <1>7, <1>8, <1>10 DEF Snapshot
<1>19. /\ Frame(a, b, Answered \cup {"linked", "selected"})
       /\ b.linked = a.linked /\ b.drafts = a.drafts /\ b.rows = a.rows /\ b.open = a.open
       /\ b.expired = none /\ b.selected = Elsewhere /\ b.timedOut = a.timedOut
       /\ b.holds = empty /\ b.unbound = none
  BY <1>10 DEF Snapshot, Frame, Field, Answered, Seen, Texts, Lines
<1> HIDE DEF b
<1>20. Frame(shown, b, Answered \cup {"linked", "selected"}) BY <1>17, <1>19, Frames
<1>11. /\ t \in Snapshot /\ Frame(shown, t, Answered \cup {"linked", "selected"})
       /\ t.linked = no /\ t.open = none /\ t.expired = none /\ t.rows = none
       /\ t.selected = Elsewhere /\ t.drafts = drafts
  BY <1>9, <1>17, <1>18, <1>19, <1>20
<1>12. Frame(s, shown, Answered \cup {"linked", "selected"})
  BY <1>2, <1>3, Frames DEF Answered, Seen
<1>13. Frame(s, t, Answered \cup {"linked", "selected"}) BY <1>11, <1>12, Frames
<1>14. \A c \in Chat : CurrentText(t, c) = TextToKeep(s, c)
  BY <1>5, <1>11, SendNames DEF CurrentText
<1>15. t.timedOut = {} /\ t.holds = empty /\ t.unbound = none
  BY <1>2, <1>3, <1>9, <1>17, <1>19 DEF Frame, Field
<1>. QED BY <1>1, <1>11, <1>13, <1>14, <1>15 DEF no, none, empty

-----------------------------------------------------------------------------
(* Events.                                                                 *)
LEMMA EventIsTyped ==
  ASSUME NEW e \in Event
  PROVE  \/ e.type = "received" /\ e.message \in Row
         \/ e.type = "replaced" /\ e.old \in Id /\ e.message \in Row
         \/ e.type = "failed" /\ e.chat \in Chat /\ e.id \in Id
         \/ e.type = "accepted" /\ e.chat \in Chat /\ e.request \in Request
         \/ e.type = "rejected" /\ e.chat \in Chat /\ e.request \in Request
         \/ e.type = "ended"
BY DEF Event

Applied == Answered \cup {"linked", "selected"}

(* What leaves the open sends when e is applied.                           *)
Leaves(s, e, q) ==
    \/ e.type = "ended"
    \/ /\ e.type \in {"accepted", "rejected"}
       /\ \/ q.request = e.request
          \/ \E p \in s.expired : p.request = e.request /\ p.row = q.row /\ p.row # NoRow

(* What may happen to the texts when e is applied.                         *)
TextsApplied(s, t, e) ==
    \/ TextsFill(s, t)
    \/ e.type = "accepted" /\ TextsAnswered(s, t, e.chat, e.request)
    \/ e.type = "ended" /\ ~t.linked /\ \A c \in Chat : CurrentText(t, c) = TextToKeep(s, c)

(* What happens to the rows and to what waits when e is applied.           *)
RowsApplied(s, t, e) ==
    \/ /\ e.type = "received" /\ e.message \in Row
       /\ t.rows = (s.rows \ RowOf(s, e.message.chat, e.message.id)) \cup {e.message}
       /\ t.open = s.open /\ t.expired = s.expired /\ t.timedOut = s.timedOut
    \/ /\ e.type = "replaced" /\ e.message \in Row /\ e.old \in Id
       /\ t.rows = ((s.rows \ RowOf(s, e.message.chat, e.old))
                        \ RowOf(s, e.message.chat, e.message.id)) \cup {e.message}
       /\ t.open = s.open /\ t.expired = s.expired /\ t.timedOut = s.timedOut
    \/ /\ e.type = "failed"
       /\ Marked(s, t, e.chat, e.id, "failed")
       /\ t.open = s.open /\ t.expired = s.expired /\ t.timedOut = s.timedOut
    \/ e.type = "accepted" /\ AcceptRows(s, t, e.chat, e.request)
    \/ e.type = "rejected" /\ RejectRows(s, t, e.chat, e.request)
    \/ e.type = "ended" /\ t.rows = {} /\ t.open = {} /\ t.expired = {} /\ t.timedOut = {}

LEMMA ApplySets ==
  ASSUME NEW s \in Snapshot, NEW e \in Event
  PROVE  LET t == Apply(s, e)
         IN  /\ t \in Snapshot /\ Frame(s, t, Applied)
             /\ t.open \subseteq s.open
             /\ t.expired \subseteq s.expired
             /\ \A q \in s.open \ t.open : Leaves(s, e, q)
             /\ TextsApplied(s, t, e)
             /\ RowsApplied(s, t, e)
<1> DEFINE t == Apply(s, e)
<1>1. CASE e.type = "received"
  <2>1. t = Received(s, e.message) /\ e.message \in Row BY <1>1, EventIsTyped DEF Apply
  <2> HIDE DEF t
  <2>2. /\ t \in Snapshot /\ Frame(s, t, Seen) /\ TextsFill(s, t)
        /\ t.rows = (s.rows \ RowOf(s, e.message.chat, e.message.id)) \cup {e.message}
    BY <2>1, ReceivedSets
  <2>3. Frame(s, t, Applied) BY <2>2, FrameIsWider DEF Applied, Answered
  <2>4. t.open = s.open /\ t.expired = s.expired /\ t.timedOut = s.timedOut
    BY <2>2 DEF Frame, Field, Seen, Texts
  <2>5. RowsApplied(s, t, e) BY <1>1, <2>1, <2>2, <2>4 DEF RowsApplied
  <2>. QED BY <2>2, <2>3, <2>4, <2>5 DEF t, TextsApplied
<1>2. CASE e.type = "replaced"
  <2>1. t = Replaced(s, e.old, e.message) /\ e.message \in Row /\ e.old \in Id
    BY <1>2, EventIsTyped DEF Apply
  <2> HIDE DEF t
  <2>2. /\ t \in Snapshot /\ Frame(s, t, Seen) /\ TextsFill(s, t)
        /\ t.rows = ((s.rows \ RowOf(s, e.message.chat, e.old))
                        \ RowOf(s, e.message.chat, e.message.id)) \cup {e.message}
    BY <2>1, ReplacedSets
  <2>3. Frame(s, t, Applied) BY <2>2, FrameIsWider DEF Applied, Answered
  <2>4. t.open = s.open /\ t.expired = s.expired /\ t.timedOut = s.timedOut
    BY <2>2 DEF Frame, Field, Seen, Texts
  <2>5. RowsApplied(s, t, e) BY <1>2, <2>1, <2>2, <2>4 DEF RowsApplied
  <2>. QED BY <2>2, <2>3, <2>4, <2>5 DEF t, TextsApplied
<1>3. CASE e.type = "failed"
  <2> DEFINE u == SetDelivery(s, e.chat, e.id, "failed")
             v == ReleaseForMessage(u, e.id)
  <2>1. t = u \/ t = v BY <1>3 DEF Apply
  <2> HIDE DEF t
  <2>2. /\ u \in Snapshot /\ Frame(s, u, Noted) /\ TextsFill(s, u)
        /\ Marked(s, u, e.chat, e.id, "failed")
    BY SetDeliverySets
  <2> HIDE DEF u
  <2>3. v \in Snapshot /\ Frame(u, v, {"holds"}) BY <2>2, ReleaseForMessageSets
  <2> HIDE DEF v
  <2>4. TextsStay(u, v) BY <2>3, FrameTexts DEF Texts
  <2>5. TextsFill(s, v) BY <2>2, <2>4 DEF TextsStay, TextsFill
  <2>6. Frame(s, u, Applied) BY <2>2, FrameIsWider DEF Applied, Answered, Seen, Noted
  <2>7. Frame(s, v, Applied) BY <2>3, <2>6, Frames DEF Applied, Answered, Seen
  <2>8. /\ u.open = s.open /\ u.expired = s.expired /\ v.open = s.open /\ v.expired = s.expired
        /\ u.timedOut = s.timedOut /\ v.timedOut = s.timedOut
    BY <2>2, <2>3 DEF Frame, Field, Noted, Texts
  <2>9. Marked(s, v, e.chat, e.id, "failed")
    <3>1. v.rows = u.rows BY <2>3 DEF Frame, Field
    <3>. QED BY <2>2, <3>1 DEF Marked
  <2>10. RowsApplied(s, t, e) BY <1>3, <2>1, <2>2, <2>8, <2>9 DEF RowsApplied
  <2>. QED BY <2>1, <2>2, <2>3, <2>5, <2>6, <2>7, <2>8, <2>10 DEF t, TextsApplied
<1>4. CASE e.type = "accepted"
  <2>1. t = Accepted(s, e.chat, e.request) /\ e.chat \in Chat /\ e.request \in Request
    BY <1>4, EventIsTyped DEF Apply
  <2> HIDE DEF t
  <2>2. /\ t \in Snapshot /\ Frame(s, t, Answered)
        /\ TextsAnswered(s, t, e.chat, e.request)
        /\ t.open \subseteq s.open
        /\ t.expired \subseteq s.expired
    BY <2>1, AcceptedSets
  <2>5. AcceptRows(s, t, e.chat, e.request) BY <2>1, AcceptedSets
  <2>6. RowsApplied(s, t, e) BY <1>4, <2>5 DEF RowsApplied
  <2>3. ASSUME NEW q \in s.open \ t.open
        PROVE  Leaves(s, e, q)
    BY <1>4, <2>1, AcceptedSets DEF Leaves
  <2>4. Frame(s, t, Applied) BY <2>2, FrameIsWider DEF Applied
  <2>. QED BY <1>4, <2>2, <2>3, <2>4, <2>6 DEF t, TextsApplied
<1>5. CASE e.type = "rejected"
  <2>1. t = Rejected(s, e.chat, e.request) /\ e.chat \in Chat /\ e.request \in Request
    BY <1>5, EventIsTyped DEF Apply
  <2> HIDE DEF t
  <2>2. /\ t \in Snapshot /\ Frame(s, t, Answered) /\ TextsFill(s, t)
        /\ t.open \subseteq s.open
        /\ t.expired \subseteq s.expired
        /\ \A q \in s.open \ t.open : q.request = e.request
    BY <2>1, RejectedSets
  <2>5. RejectRows(s, t, e.chat, e.request) BY <2>1, RejectedSets
  <2>6. RowsApplied(s, t, e) BY <1>5, <2>5 DEF RowsApplied
  <2>4. Frame(s, t, Applied) BY <2>2, FrameIsWider DEF Applied
  <2>. QED BY <1>5, <2>2, <2>4, <2>6 DEF t, TextsApplied, Leaves
<1>6. CASE e.type = "ended"
  <2>1. t = EndSession(s) BY <1>6 DEF Apply
  <2> HIDE DEF t
  <2>2. /\ t \in Snapshot
        /\ Frame(s, t, Answered \cup {"linked", "selected"})
        /\ t.linked = FALSE
        /\ t.open = {} /\ t.expired = {} /\ t.rows = {} /\ t.timedOut = {}
        /\ \A c \in Chat : CurrentText(t, c) = TextToKeep(s, c)
    BY <2>1, EndSessionSets
  <2>3. RowsApplied(s, t, e) BY <1>6, <2>2 DEF RowsApplied
  <2>. QED BY <1>6, <2>2, <2>3 DEF t, TextsApplied, Leaves, Applied
<1>. QED BY <1>1, <1>2, <1>3, <1>4, <1>5, <1>6, EventIsTyped

-----------------------------------------------------------------------------
(* Types.  No request is above the counter of the shell, no two sends that *)
(* wait have the same one, and a chat has one open send.                   *)
Numbers ==
    /\ \A p \in Unanswered(core) : p.request < core.next
    /\ \A p, q \in Unanswered(core) : p.request = q.request => p = q
    /\ \A p, q \in core.open : p.chat = q.chat => p = q
    /\ \A i \in 1 .. Len(calls) : calls[i].request < core.next
    /\ \A m \in flight.sent : m.request < core.next

LEMMA NumbersStay ==
  ASSUME Numbers, core'.next = core.next,
         core'.open \subseteq core.open, Unanswered(core') \subseteq Unanswered(core),
         UNCHANGED <<calls, flight>>
  PROVE  Numbers'
BY DEF Numbers

(* The adapter moves requests, and makes none.                             *)
LEMMA NumbersMove ==
  ASSUME Shapes, Numbers, core' = core,
         \A i \in 1 .. Len(calls') : \E j \in 1 .. Len(calls) : calls'[i] = calls[j],
         \A m \in flight'.sent : \/ \E k \in flight.sent : m.request = k.request
                                 \/ \E j \in 1 .. Len(calls) : m.request = calls[j].request
  PROVE  Numbers'
BY DEF Numbers

LEMMA MessageIsRow ==
  ASSUME NEW m, m.request \in Request, m.chat \in Chat, m.text \in Text,
         NEW stage \in {"pending", "sent", "failed"}
  PROVE  /\ Message(m, stage) \in Row
         /\ <<m.request, stage>> \in Id
         /\ Message(m, stage).id = <<m.request, stage>>
         /\ Message(m, stage).delivery = stage
         /\ Message(m, stage).chat = m.chat
<1>1. m.request \in 0 .. MaxRequest BY DEF Request
<1>2. <<m.request, stage>> \in Id BY <1>1 DEF Id
<1> DEFINE id == <<m.request, stage>>
<1> HIDE DEF id
<1>3. [chat |-> m.chat, id |-> id, text |-> m.text, delivery |-> stage] \in Row
  BY <1>2 DEF Row, id
<1>. QED BY <1>2, <1>3 DEF Message, id

LEMMA EventsAreTyped ==
  /\ \A m \in Row : ReceivedEvent(m) \in Event
  /\ \A m \in Row, old \in Id : ReplacedEvent(old, m) \in Event
  /\ \A c \in Chat, id \in Id : FailedEvent(c, id) \in Event
  /\ \A p : p.chat \in Chat /\ p.request \in Request =>
        AnswerEvent("accepted", p) \in Event /\ AnswerEvent("rejected", p) \in Event
  /\ EndedEvent \in Event
BY DEF Event, ReceivedEvent, ReplacedEvent, FailedEvent, AnswerEvent, EndedEvent

LEMMA CallIsTyped ==
  ASSUME Shapes, calls # <<>>
  PROVE  /\ Head(calls) \in Call /\ Head(calls) = calls[1] /\ 1 \in 1 .. Len(calls)
         /\ Head(calls).request \in Request /\ Head(calls).chat \in Chat
         /\ Head(calls).text \in Text /\ Head(calls).row \in Id \cup {NoRow}
         /\ Tail(calls) \in Seq(Call)
         /\ \A i \in 1 .. Len(Tail(calls)) : i + 1 \in 1 .. Len(calls) /\ Tail(calls)[i] = calls[i + 1]
<1>1. calls \in Seq(Call) BY DEF Shapes
<1>2. /\ Head(calls) \in Call /\ Head(calls) = calls[1] /\ 1 \in 1 .. Len(calls)
      /\ Tail(calls) \in Seq(Call)
  BY <1>1
<1>3. \A i \in 1 .. Len(Tail(calls)) : i + 1 \in 1 .. Len(calls) /\ Tail(calls)[i] = calls[i + 1]
  BY <1>1
<1>. QED BY <1>2, <1>3 DEF Call

(* The user.                                                               *)
LEMMA TypeShapes ==
  ASSUME Shapes, Numbers, NEW text \in Box, Type(text)
  PROVE  Shapes' /\ Numbers'
<1>1. core \in Snapshot /\ core' = [core EXCEPT !.compose = text] BY DEF Shapes, Type
<1>2. core' \in Snapshot /\ Frame(core, core', {"compose"})
  BY <1>1 DEF Snapshot, Frame, Field
<1>3. core'.next = core.next /\ core'.open = core.open /\ core'.expired = core.expired
  BY <1>2 DEF Frame, Field
<1>4. UNCHANGED <<protocol, calls, flight, answers>> BY DEF Type
<1>. QED BY <1>2, <1>3, <1>4, NumbersStay DEF Shapes, Unanswered

LEMMA SelectShapes ==
  ASSUME Shapes, Numbers, NEW c \in Chat \cup {Elsewhere}, Select(c)
  PROVE  Shapes' /\ Numbers'
<1> DEFINE compose == IF c = Elsewhere THEN Blank ELSE core.drafts[c]
           drafts == [d \in Chat |->
                         IF d = core.selected /\ core.compose # Blank THEN core.compose
                         ELSE IF d = c THEN Blank ELSE core.drafts[d]]
<1>1. core \in Snapshot /\ core' = [core EXCEPT !.selected = c, !.compose = compose, !.drafts = drafts]
  BY DEF Shapes, Select
<1>2. compose \in Box /\ drafts \in [Chat -> Box] BY <1>1 DEF Snapshot, Box
<1> HIDE DEF compose, drafts
<1>3. core' \in Snapshot /\ Frame(core, core', {"selected", "compose", "drafts"})
  BY <1>1, <1>2 DEF Snapshot, Frame, Field
<1>4. core'.next = core.next /\ core'.open = core.open /\ core'.expired = core.expired
  BY <1>3 DEF Frame, Field
<1>5. UNCHANGED <<protocol, calls, flight, answers>> BY DEF Select
<1>. QED BY <1>3, <1>4, <1>5, NumbersStay DEF Shapes, Unanswered

(* A new send has the request of the counter, in a chat without an open    *)
(* one.                                                                    *)
LEMMA NumbersGrow ==
  ASSUME Shapes, Numbers, NEW p, NEW text,
         p.request = core.next, InChat(core.open, p.chat) = {},
         core'.open = core.open \cup {p}, core'.expired = core.expired,
         core'.next = core.next + 1,
         calls' = Append(calls, NewCall(p, text)), flight' = flight
  PROVE  Numbers'
<1>1. core.next \in Nat BY DEF Shapes, Snapshot
<1>2. /\ \A x \in Unanswered(core) : x.request < core.next /\ x.request \in Nat
      /\ \A i \in 1 .. Len(calls) : calls[i].request < core.next /\ calls[i].request \in Nat
      /\ \A m \in flight.sent : m.request < core.next /\ m.request \in Nat
  <2>1. Unanswered(core) \subseteq Pending BY DEF Shapes, Snapshot, Unanswered
  <2>2. \A x \in Unanswered(core) : x.request \in Request BY <2>1, PendingIsTyped
  <2>6. \A i \in 1 .. Len(calls) : calls[i] \in Call BY DEF Shapes
  <2>3. \A i \in 1 .. Len(calls) : calls[i].request \in Request BY <2>6 DEF Call
  <2>4. \A m \in flight.sent : m.request \in Request BY DEF Shapes, SentMsg
  <2>5. Request \subseteq Nat BY DEF Request
  <2>. QED BY <2>2, <2>3, <2>4, <2>5 DEF Numbers
<1>3. Unanswered(core') = Unanswered(core) \cup {p} BY DEF Unanswered
<1>4. \A x \in Unanswered(core') : x.request < core'.next BY <1>1, <1>2, <1>3
<1>5. \A x, y \in Unanswered(core') : x.request = y.request => x = y
  BY <1>1, <1>2, <1>3 DEF Numbers
<1>6. \A x, y \in core'.open : x.chat = y.chat => x = y BY DEF Numbers, InChat
<1>7. \A i \in 1 .. Len(calls') : calls'[i].request < core'.next
  <2>1. NewCall(p, text).request = core.next BY DEF NewCall
  <2>2. calls \in Seq(Call) BY DEF Shapes
  <2>3. \A i \in 1 .. Len(calls') : calls'[i] = NewCall(p, text) \/ (i \in 1 .. Len(calls) /\ calls'[i] = calls[i])
    BY <2>2
  <2>. QED BY <1>1, <1>2, <2>1, <2>3
<1>8. \A m \in flight'.sent : m.request < core'.next BY <1>1, <1>2
<1>. QED BY <1>4, <1>5, <1>6, <1>7, <1>8 DEF Numbers

(* p is new and open, and its command waits for the adapter.               *)
Begun(p) ==
    /\ p.request = core.next /\ core.next \in Request /\ p.chat \in Chat
    /\ core'.open = core.open \cup {p} /\ core'.expired = core.expired
    /\ core'.next = core.next + 1
    /\ Frame(core, core', {"open", "next", "error", "rows", "compose"})
    /\ \E text : calls' = Append(calls, NewCall(p, text)) /\ NewCall(p, text) \in Call
    /\ UNCHANGED <<protocol, flight, answers>>

LEMMA SendComposeShapes ==
  ASSUME Shapes, Numbers, SendCompose
  PROVE  /\ Shapes' /\ Numbers'
         /\ core'.rows = core.rows
         /\ \E p : p.row = NoRow /\ Begun(p)
<1> DEFINE c == core.selected
           p == [request |-> core.next, chat |-> c, text |-> core.compose, row |-> NoRow]
           open == core.open \cup {p}
           next == core.next + 1
           none == "none"
           call == NewCall(p, core.compose)
<1>1. /\ c # Elsewhere /\ core.compose # Blank /\ CanBegin(c)
      /\ core' = [core EXCEPT !.open = open, !.next = next, !.error = none]
      /\ calls' = Append(calls, call)
      /\ UNCHANGED <<protocol, flight, answers>>
  BY DEF SendCompose
<1>2. core \in Snapshot /\ core.next \in 1 .. MaxRequest + 1 /\ core.selected \in Chat \cup {Elsewhere}
      /\ core.compose \in Box
  BY DEF Shapes, Snapshot
<1>3. /\ core.next \in Request /\ c \in Chat /\ core.compose \in Text
      /\ next \in 1 .. MaxRequest + 1
  BY <1>1, <1>2, SendBound DEF Request, CanBegin, Box
<1>4. p \in Pending BY <1>3 DEF Pending
<1>5. call \in Call /\ p.request = core.next /\ p.chat = c /\ p.row = NoRow
  BY <1>3 DEF NewCall, Call
<1>6. open \in SUBSET Pending BY <1>2, <1>4 DEF Snapshot
<1>7. none \in {"none", "timeouts", "failed"} OBVIOUS
<1>8. InChat(core.open, p.chat) = {} BY <1>1, <1>5 DEF CanBegin
<1> HIDE DEF p, next, none, call
<1>9. /\ core' \in Snapshot /\ Frame(core, core', {"open", "next", "error"})
      /\ core'.open = open /\ core'.next = next
  BY <1>1, <1>2, <1>3, <1>6, <1>7 DEF Snapshot, Frame, Field
<1>10. core'.expired = core.expired /\ core'.rows = core.rows BY <1>9 DEF Frame, Field
<1>11. Numbers' BY <1>1, <1>5, <1>8, <1>9, <1>10, NumbersGrow DEF next, call
<1>12. calls' \in Seq(Call) BY <1>1, <1>5 DEF Shapes
<1>14. Frame(core, core', {"open", "next", "error", "rows", "compose"})
  BY <1>9, FrameIsWider
<1>13. Begun(p) BY <1>1, <1>3, <1>5, <1>9, <1>10, <1>14 DEF Begun, next, call
<1>. QED BY <1>1, <1>5, <1>9, <1>10, <1>11, <1>12, <1>13 DEF Shapes

LEMMA RetrySendShapes ==
  ASSUME Shapes, Numbers, NEW m \in core.rows, RetrySend(m)
  PROVE  /\ Shapes' /\ Numbers'
         /\ core'.rows = (core.rows \ {m}) \cup {[m EXCEPT !.delivery = "pending"]}
         /\ m.chat = core.selected /\ m.delivery = "failed"
         /\ \E p : p.row = m.id /\ p.chat = m.chat /\ Begun(p)
<1> DEFINE p == [request |-> core.next, chat |-> m.chat, text |-> Blank, row |-> m.id]
           open == core.open \cup {p}
           next == core.next + 1
           none == "none"
           again == [m EXCEPT !.delivery = "pending"]
           rows == (core.rows \ {m}) \cup {again}
           compose == IF core.compose = m.text THEN Blank ELSE core.compose
           call == NewCall(p, m.text)
<1>2. /\ core \in Snapshot /\ core.next \in 1 .. MaxRequest + 1 /\ core.compose \in Box
      /\ m \in Row
  BY DEF Shapes, Snapshot
<1>1. /\ CanBegin(m.chat)
      /\ core' = [core EXCEPT !.open = open, !.next = next, !.error = none, !.rows = rows,
                              !.compose = compose]
      /\ calls' = Append(calls, call)
      /\ UNCHANGED <<protocol, flight, answers>>
  <2>1. /\ CanBegin(m.chat) /\ calls' = Append(calls, call)
        /\ UNCHANGED <<protocol, flight, answers>>
    BY DEF RetrySend
  <2>2. core' = [core EXCEPT !.open = open, !.next = next, !.error = none, !.rows = rows,
                             !.compose = compose]
    BY <1>2 DEF RetrySend
  <2>. QED BY <2>1, <2>2
<1>3. /\ core.next \in Request /\ m.chat \in Chat /\ m.text \in Text /\ m.id \in Id
      /\ next \in 1 .. MaxRequest + 1
  BY <1>1, <1>2, SendBound, RowIsTyped DEF Request, CanBegin
<1>4. p \in Pending BY <1>3 DEF Pending
<1>5. call \in Call /\ p.request = core.next /\ p.chat = m.chat /\ p.row = m.id
  BY <1>3 DEF NewCall, Call
<1>6. open \in SUBSET Pending BY <1>2, <1>4 DEF Snapshot
<1>7. none \in {"none", "timeouts", "failed"} OBVIOUS
<1>8. InChat(core.open, p.chat) = {} BY <1>1, <1>5 DEF CanBegin
<1>13. again \in Row /\ compose \in Box BY <1>2 DEF Row, Box
<1> HIDE DEF p, next, none, call, again, compose
<1>14. rows \in SUBSET Row BY <1>2, <1>13 DEF Snapshot
<1>9. /\ core' \in Snapshot /\ Frame(core, core', {"open", "next", "error", "rows", "compose"})
      /\ core'.open = open /\ core'.next = next /\ core'.rows = rows
  <2> HIDE DEF open, rows
  <2>. QED BY <1>1, <1>2, <1>3, <1>6, <1>7, <1>13, <1>14 DEF Snapshot, Frame, Field
<1>10. core'.expired = core.expired BY <1>9 DEF Frame, Field
<1>11. Numbers' BY <1>1, <1>5, <1>8, <1>9, <1>10, NumbersGrow DEF next, call
<1>12. calls' \in Seq(Call) BY <1>1, <1>5 DEF Shapes
<1>15. Begun(p) BY <1>1, <1>3, <1>5, <1>9, <1>10 DEF Begun, next, call
<1>16. m.chat = core.selected /\ m.delivery = "failed" BY DEF RetrySend
<1>. QED BY <1>1, <1>5, <1>9, <1>11, <1>12, <1>15, <1>16 DEF Shapes, again

(* The pump.                                                               *)
LEMMA HeadIsTyped ==
  ASSUME Shapes, answers # <<>>
  PROVE  /\ Head(answers) \in Event /\ Head(answers) = answers[1] /\ Tail(answers) \in Seq(Event)
         /\ Tail(answers) # answers
         /\ 1 \in 1 .. Len(answers) /\ Len(Tail(answers)) = Len(answers) - 1
         /\ \A i \in 1 .. Len(Tail(answers)) : i + 1 \in 1 .. Len(answers) /\ Tail(answers)[i] = answers[i + 1]
<1>1. answers \in Seq(Event) BY DEF Shapes
<1>2. Head(answers) \in Event /\ Tail(answers) \in Seq(Event) /\ Head(answers) = answers[1]
  BY <1>1
<1>3. Len(Tail(answers)) = Len(answers) - 1 /\ Len(answers) \in Nat BY <1>1
<1>4. Tail(answers) # answers
  <2> DEFINE n == Len(answers)
             k == Len(Tail(answers))
  <2>1. k = n - 1 /\ n \in Nat BY <1>3
  <2> HIDE DEF n, k
  <2>2. k # n BY <2>1
  <2>. QED BY <2>2, Zenon DEF n, k
<1>5. 1 \in 1 .. Len(answers) BY <1>1
<1>6. \A i \in 1 .. Len(Tail(answers)) : i + 1 \in 1 .. Len(answers) /\ Tail(answers)[i] = answers[i + 1]
  BY <1>1
<1>. QED BY <1>2, <1>3, <1>4, <1>5, <1>6, Zenon

LEMMA ApplyEventShapes ==
  ASSUME Shapes, Numbers, ApplyEvent
  PROVE  Shapes' /\ Numbers'
<1>1. /\ answers # <<>> /\ core' = Apply(core, Head(answers)) /\ answers' = Tail(answers)
      /\ UNCHANGED <<protocol, calls, flight>>
  BY DEF ApplyEvent
<1>2. Head(answers) \in Event /\ Tail(answers) \in Seq(Event) /\ core \in Snapshot
  BY <1>1 DEF Shapes
<1>3. /\ core' \in Snapshot /\ Frame(core, core', Applied)
      /\ core'.open \subseteq core.open /\ core'.expired \subseteq core.expired
  BY <1>1, <1>2, ApplySets
<1>4. core'.next = core.next BY <1>3 DEF Frame, Field, Applied, Answered, Seen, Texts
<1>. QED BY <1>1, <1>2, <1>3, <1>4, NumbersStay DEF Shapes, Unanswered

LEMMA ExpireSendShapes ==
  ASSUME Shapes, Numbers, NEW p \in core.open, ExpireSend(p)
  PROVE  Shapes' /\ Numbers'
<1>1. core \in Snapshot /\ core' = Expire(core, p) /\ UNCHANGED <<protocol, calls, flight, answers>>
  BY DEF ExpireSend, Shapes
<1>2. /\ core' \in Snapshot /\ Frame(core, core', Answered \cup {"late"})
      /\ core'.open = core.open \ {p} /\ core'.expired = core.expired \cup {p}
  BY <1>1, ExpireSets
<1>3. core'.next = core.next BY <1>2 DEF Frame, Field, Answered, Seen, Texts
<1>. QED BY <1>1, <1>2, <1>3, NumbersStay DEF Shapes, Unanswered

LEMMA ExpireHoldSets ==
  ASSUME Shapes, NEW i \in 1 .. Len(core.holds), ExpireHold(core.holds[i])
  PROVE  /\ core' \in Snapshot /\ Frame(core, core', Lines)
         /\ UNCHANGED <<protocol, calls, flight, answers>>
<1> DEFINE left == Those(Hold \ {core.holds[i]}, core.holds)
           t == [core EXCEPT !.holds = left]
<1>1. core' = PruneUnbound(t) /\ UNCHANGED <<protocol, calls, flight, answers>>
  BY DEF ExpireHold
<1>2. core \in Snapshot /\ core.holds \in Seq(Hold) BY DEF Shapes, Snapshot
<1>3. left \in Seq(Hold)
  <2>1. left \in Seq(Hold \cap (Hold \ {core.holds[i]})) BY <1>2, ThoseFacts
  <2>. QED BY <2>1
<1> HIDE DEF left
<1>4. t \in Snapshot /\ Frame(core, t, {"holds"})
  BY <1>2, <1>3 DEF Snapshot, Frame, Field
<1> HIDE DEF t
<1>5. core' \in Snapshot /\ Frame(t, core', {"unbound"}) BY <1>1, <1>4, PruneUnboundSets
<1>. QED BY <1>1, <1>4, <1>5, Frames DEF Lines

LEMMA ExpireHoldShapes ==
  ASSUME Shapes, Numbers, NEW i \in 1 .. Len(core.holds), ExpireHold(core.holds[i])
  PROVE  Shapes' /\ Numbers'
<1>1. /\ core' \in Snapshot /\ Frame(core, core', Lines)
      /\ UNCHANGED <<protocol, calls, flight, answers>>
  BY ExpireHoldSets
<1>2. core'.next = core.next /\ core'.open = core.open /\ core'.expired = core.expired
  BY <1>1 DEF Frame, Field, Lines
<1>. QED BY <1>1, <1>2, NumbersStay DEF Shapes, Unanswered

LEMMA PruneExpiredSets ==
  ASSUME Shapes, NEW p \in core.expired, PruneExpired(p)
  PROVE  /\ core' \in Snapshot /\ Frame(core, core', {"expired", "forgotten", "unbound"})
         /\ core'.expired = core.expired \ {p}
         /\ core'.forgotten = core.forgotten \cup {p.request}
         /\ UNCHANGED <<protocol, calls, flight, answers>>
<1> DEFINE left == core.expired \ {p}
           forgotten == core.forgotten \cup {p.request}
           t == [core EXCEPT !.expired = left, !.forgotten = forgotten]
<1>1. core' = PruneUnbound(t) /\ UNCHANGED <<protocol, calls, flight, answers>>
  BY DEF PruneExpired
<1>2. core \in Snapshot /\ p \in Pending BY DEF Shapes, Snapshot
<1>3. left \subseteq core.expired /\ forgotten \in SUBSET Request
  BY <1>2, PendingIsTyped DEF Snapshot
<1>7. forgotten = core.forgotten \cup {p.request} OBVIOUS
<1> HIDE DEF forgotten
<1>4. /\ t \in Snapshot /\ Frame(core, t, {"expired", "forgotten"}) /\ t.expired = left
      /\ t.forgotten = forgotten
  <2> HIDE DEF left
  <2>. QED BY <1>2, <1>3 DEF Snapshot, Frame, Field
<1> HIDE DEF t
<1>5. core' \in Snapshot /\ Frame(t, core', {"unbound"}) BY <1>1, <1>4, PruneUnboundSets
<1>6. core'.expired = left /\ core'.forgotten = forgotten BY <1>4, <1>5 DEF Frame, Field
<1>. QED BY <1>1, <1>4, <1>5, <1>6, <1>7, Frames

LEMMA PruneExpiredShapes ==
  ASSUME Shapes, Numbers, NEW p \in core.expired, PruneExpired(p)
  PROVE  Shapes' /\ Numbers'
<1>1. /\ core' \in Snapshot /\ Frame(core, core', {"expired", "forgotten", "unbound"})
      /\ core'.expired = core.expired \ {p}
      /\ UNCHANGED <<protocol, calls, flight, answers>>
  BY PruneExpiredSets
<1>2. core'.next = core.next /\ core'.open = core.open BY <1>1 DEF Frame, Field
<1>. QED BY <1>1, <1>2, NumbersStay DEF Shapes, Unanswered

(* The adapter.                                                            *)
LEMMA SentIsTyped ==
  ASSUME Shapes, NEW m \in flight.sent
  PROVE  /\ m \in SentMsg /\ m.request \in Request /\ m.chat \in Chat /\ m.text \in Text
         /\ m.id \in Id
BY DEF Shapes, SentMsg

LEMMA SentTypes ==
  ASSUME NEW p, NEW id \in Id, p.request \in Request, p.chat \in Chat, p.text \in Text
  PROVE  /\ Sent(p, id) \in SentMsg /\ Sent(p, id).request = p.request
         /\ Sent(p, id).chat = p.chat /\ Sent(p, id).id = id
         /\ Kept(p, id) \in KeptMsg
<1> DEFINE no == FALSE
<1>1. no \in BOOLEAN OBVIOUS
<1> HIDE DEF no
<1>2. [request |-> p.request, chat |-> p.chat, text |-> p.text, id |-> id, announced |-> no] \in SentMsg
  BY <1>1 DEF SentMsg
<1>3. Kept(p, id) \in KeptMsg BY DEF Kept, KeptMsg
<1>. QED BY <1>2, <1>3 DEF Sent, no

LEMMA TelegramTakesShapes ==
  ASSUME Shapes, Numbers, TelegramTakes
  PROVE  Shapes' /\ Numbers'
<1> DEFINE p == Head(calls)
           row == Message(p, "pending")
           told == IF p.row = NoRow THEN ReceivedEvent(row) ELSE ReplacedEvent(p.row, row)
           yes == AnswerEvent("accepted", p)
           sent == flight.sent \cup {Sent(p, row.id)}
           left == {m \in flight.resend : m.id # p.row}
<1>1. /\ calls # <<>> /\ calls' = Tail(calls) /\ UNCHANGED <<protocol, core>>
      /\ answers' = answers \o <<told, yes>>
      /\ flight' = [flight EXCEPT !.sent = sent, !.resend = left]
  BY DEF TelegramTakes, Take, Emit
<1>2. /\ p.request \in Request /\ p.chat \in Chat /\ p.text \in Text /\ p.row \in Id \cup {NoRow}
      /\ p = calls[1] /\ 1 \in 1 .. Len(calls) /\ Tail(calls) \in Seq(Call)
      /\ \A i \in 1 .. Len(Tail(calls)) : i + 1 \in 1 .. Len(calls) /\ Tail(calls)[i] = calls[i + 1]
  BY <1>1, CallIsTyped
<1> HIDE DEF p
<1>3. row \in Row /\ row.id \in Id BY <1>2, MessageIsRow
<1> HIDE DEF row
<1>4. told \in Event /\ yes \in Event BY <1>2, <1>3, EventsAreTyped
<1>5. Sent(p, row.id) \in SentMsg /\ Sent(p, row.id).request = p.request
  BY <1>2, <1>3, SentTypes
<1>6. sent \in SUBSET SentMsg /\ left \in SUBSET KeptMsg BY <1>5 DEF Shapes
<1>7. flight' \in [up : BOOLEAN, sent : SUBSET SentMsg, resend : SUBSET KeptMsg] /\ flight'.sent = sent
  <2> HIDE DEF sent, left
  <2>. QED BY <1>1, <1>6 DEF Shapes
<1> HIDE DEF told, yes
<1>8. answers' \in Seq(Event) BY <1>1, <1>4 DEF Shapes
<1>10. \A m \in sent : m \in flight.sent \/ m.request = p.request BY <1>5
<1> HIDE DEF sent, left
<1>9. Numbers' BY <1>1, <1>2, <1>7, <1>10, NumbersMove
<1>. QED BY <1>1, <1>2, <1>7, <1>8, <1>9 DEF Shapes

LEMMA DiscordTakesShapes ==
  ASSUME Shapes, Numbers, DiscordTakes
  PROVE  Shapes' /\ Numbers'
<1> DEFINE p == Head(calls)
           row == Message(p, "pending")
           told == ReceivedEvent(row)
           id == IF p.row = NoRow THEN row.id ELSE p.row
           sent == flight.sent \cup {Sent(p, id)}
           resend == IF p.row = NoRow THEN flight.resend \cup {Kept(p, row.id)} ELSE flight.resend
<1>1. /\ calls # <<>> /\ calls' = Tail(calls) /\ UNCHANGED <<protocol, core>>
      /\ answers' = answers \o <<told>> \/ answers' = answers
  BY DEF DiscordTakes, Take, Emit
<1>10. flight' = [flight EXCEPT !.sent = sent, !.resend = resend]
  <2>1. CASE p.row = NoRow BY <2>1 DEF DiscordTakes
  <2>2. CASE p.row # NoRow
    <3>1. flight' = [flight EXCEPT !.sent = @ \cup {Sent(p, p.row)}]
      BY <2>2 DEF DiscordTakes
    <3>2. flight \in [up : BOOLEAN, sent : SUBSET SentMsg, resend : SUBSET KeptMsg]
      BY DEF Shapes
    <3>3. id = p.row /\ resend = flight.resend BY <2>2
    <3> HIDE DEF p, id, resend
    <3>. QED BY <3>1, <3>2, <3>3
  <2>. QED BY <2>1, <2>2
<1>2. /\ p.request \in Request /\ p.chat \in Chat /\ p.text \in Text /\ p.row \in Id \cup {NoRow}
      /\ p = calls[1] /\ 1 \in 1 .. Len(calls) /\ Tail(calls) \in Seq(Call)
      /\ \A i \in 1 .. Len(Tail(calls)) : i + 1 \in 1 .. Len(calls) /\ Tail(calls)[i] = calls[i + 1]
  BY <1>1, CallIsTyped
<1> HIDE DEF p
<1>3. row \in Row /\ row.id \in Id BY <1>2, MessageIsRow
<1> HIDE DEF row
<1>4. told \in Event /\ id \in Id BY <1>2, <1>3, EventsAreTyped
<1>5. Sent(p, id) \in SentMsg /\ Sent(p, id).request = p.request /\ Kept(p, row.id) \in KeptMsg
  <2> HIDE DEF id
  <2>. QED BY <1>2, <1>3, <1>4, SentTypes
<1>6. sent \in SUBSET SentMsg /\ resend \in SUBSET KeptMsg BY <1>5 DEF Shapes
<1>7. flight' \in [up : BOOLEAN, sent : SUBSET SentMsg, resend : SUBSET KeptMsg] /\ flight'.sent = sent
  <2> HIDE DEF sent, resend
  <2>. QED BY <1>6, <1>10 DEF Shapes
<1> HIDE DEF told
<1>8. answers' \in Seq(Event)
  <2>1. answers \in Seq(Event) BY DEF Shapes
  <2>2. answers \o <<told>> \in Seq(Event) BY <1>4, <2>1
  <2>. QED BY <1>1, <2>1, <2>2
<1>11. \A m \in sent : m \in flight.sent \/ m.request = p.request BY <1>5
<1> HIDE DEF id, sent, resend
<1>9. Numbers' BY <1>1, <1>2, <1>7, <1>11, NumbersMove
<1>. QED BY <1>1, <1>2, <1>7, <1>8, <1>9 DEF Shapes

LEMMA RefuseShapes ==
  ASSUME Shapes, Numbers, Refuse
  PROVE  Shapes' /\ Numbers'
<1> DEFINE p == Head(calls)
           no == AnswerEvent("rejected", p)
           failed == FailedEvent(p.chat, p.row)
           first == IF p.row # NoRow /\ protocol = "telegram" THEN <<failed>> ELSE <<>>
<1>1. /\ calls # <<>> /\ calls' = Tail(calls) /\ UNCHANGED <<protocol, core, flight>>
      /\ answers' = answers \o (first \o <<no>>)
  BY DEF Refuse, Take, Emit
<1>2. /\ p.request \in Request /\ p.chat \in Chat /\ p.row \in Id \cup {NoRow}
      /\ p = calls[1] /\ 1 \in 1 .. Len(calls) /\ Tail(calls) \in Seq(Call)
      /\ \A i \in 1 .. Len(Tail(calls)) : i + 1 \in 1 .. Len(calls) /\ Tail(calls)[i] = calls[i + 1]
  BY <1>1, CallIsTyped
<1> HIDE DEF p
<1>3. no \in Event /\ (p.row # NoRow => failed \in Event) BY <1>2, EventsAreTyped
<1> HIDE DEF no, failed
<1>4. first \in Seq(Event) BY <1>3
<1> HIDE DEF first
<1>5. answers' \in Seq(Event) BY <1>1, <1>3, <1>4 DEF Shapes
<1>6. Numbers' BY <1>1, <1>2, NumbersMove
<1>. QED BY <1>1, <1>2, <1>5, <1>6 DEF Shapes

(* The server: what was sent leaves the flight, or stays and is announced. *)
LEMMA FlightMoves ==
  ASSUME Shapes, Numbers, UNCHANGED <<protocol, core, calls>>, answers' \in Seq(Event),
         flight' \in [up : BOOLEAN, sent : SUBSET SentMsg, resend : SUBSET KeptMsg],
         \A m \in flight'.sent : \E k \in flight.sent : m.request = k.request
  PROVE  Shapes' /\ Numbers'
BY NumbersMove DEF Shapes

LEMMA AnnounceShapes ==
  ASSUME Shapes, Numbers, NEW m \in flight.sent, Announce(m)
  PROVE  Shapes' /\ Numbers'
<1> DEFINE row == Message(m, "pending")
           told == ReceivedEvent(row)
           yes == TRUE
           n == [m EXCEPT !.announced = yes]
           sent == (flight.sent \ {m}) \cup {n}
<1>1. /\ UNCHANGED <<protocol, core, calls>> /\ answers' = answers \o <<told>>
      /\ flight' = [flight EXCEPT !.sent = sent]
  BY DEF Announce, Emit
<1>2. row \in Row BY SentIsTyped, MessageIsRow
<1> HIDE DEF row
<1>3. told \in Event BY <1>2, EventsAreTyped
<1> HIDE DEF told
<1>4. answers' \in Seq(Event) BY <1>1, <1>3 DEF Shapes
<1>5. yes \in BOOLEAN OBVIOUS
<1> HIDE DEF yes
<1>6. n \in SentMsg /\ n.request = m.request BY <1>5, SentIsTyped DEF SentMsg
<1> HIDE DEF n
<1>7. sent \in SUBSET SentMsg /\ \A x \in sent : \E k \in flight.sent : x.request = k.request
  BY <1>6 DEF Shapes
<1> HIDE DEF sent
<1>8. flight' \in [up : BOOLEAN, sent : SUBSET SentMsg, resend : SUBSET KeptMsg] /\ flight'.sent = sent
  BY <1>1, <1>7 DEF Shapes
<1>. QED BY <1>1, <1>4, <1>7, <1>8, FlightMoves

LEMMA ConfirmShapes ==
  ASSUME Shapes, Numbers, NEW m \in flight.sent, Confirm(m)
  PROVE  Shapes' /\ Numbers'
<1> DEFINE row == Message(m, "sent")
           told == ReplacedEvent(m.id, row)
           yes == AnswerEvent("accepted", m)
           first == IF protocol = "discord" THEN <<yes>> ELSE <<>>
           sent == flight.sent \ {m}
           left == {k \in flight.resend : k.id # m.id}
<1>1. /\ UNCHANGED <<protocol, core, calls>> /\ answers' = answers \o (first \o <<told>>)
      /\ flight' = [flight EXCEPT !.sent = sent, !.resend = left]
  BY DEF Confirm, Emit
<1>2. row \in Row BY SentIsTyped, MessageIsRow
<1> HIDE DEF row
<1>3. told \in Event /\ yes \in Event BY <1>2, EventsAreTyped, SentIsTyped
<1> HIDE DEF told, yes
<1>4. answers' \in Seq(Event) BY <1>1, <1>3 DEF Shapes
<1>5. sent \subseteq flight.sent /\ left \subseteq flight.resend OBVIOUS
<1> HIDE DEF sent, left
<1>6. flight' \in [up : BOOLEAN, sent : SUBSET SentMsg, resend : SUBSET KeptMsg] /\ flight'.sent = sent
  BY <1>1, <1>5 DEF Shapes
<1>. QED BY <1>1, <1>4, <1>5, <1>6, FlightMoves

LEMMA FailMessageShapes ==
  ASSUME Shapes, Numbers, NEW m \in flight.sent, FailMessage(m)
  PROVE  Shapes' /\ Numbers'
<1> DEFINE row == Message(m, "failed")
           told == ReplacedEvent(m.id, row)
           failed == FailedEvent(m.chat, m.id)
           no == AnswerEvent("rejected", m)
           sent == flight.sent \ {m}
           resend == flight.resend \cup {Kept(m, <<m.request, "failed">>)}
<1>1. /\ UNCHANGED <<protocol, core, calls>>
      /\ answers' = answers \o <<failed, no>> \/ answers' = answers \o <<told>>
      /\ flight' = [flight EXCEPT !.sent = sent] \/ flight' = [flight EXCEPT !.sent = sent, !.resend = resend]
  BY DEF FailMessage, Emit
<1>2. row \in Row /\ <<m.request, "failed">> \in Id BY SentIsTyped, MessageIsRow
<1> HIDE DEF row
<1>3. told \in Event /\ failed \in Event /\ no \in Event
  BY <1>2, EventsAreTyped, SentIsTyped
<1> HIDE DEF told, failed, no
<1>4. answers' \in Seq(Event)
  <2>1. answers \in Seq(Event) BY DEF Shapes
  <2>2. answers \o <<told>> \in Seq(Event) /\ answers \o <<failed, no>> \in Seq(Event)
    BY <1>3, <2>1
  <2>. QED BY <1>1, <2>2
<1>5. sent \subseteq flight.sent OBVIOUS
<1>6. resend \in SUBSET KeptMsg BY <1>2, SentIsTyped, SentTypes DEF Shapes
<1> HIDE DEF sent, resend
<1>7. flight' \in [up : BOOLEAN, sent : SUBSET SentMsg, resend : SUBSET KeptMsg] /\ flight'.sent = sent
  BY <1>1, <1>5, <1>6 DEF Shapes
<1>. QED BY <1>1, <1>4, <1>5, <1>7, FlightMoves

LEMMA EndShapes ==
  ASSUME Shapes, Numbers, End
  PROVE  Shapes' /\ Numbers'
<1> DEFINE no == FALSE
           none == {}
<1>1. /\ UNCHANGED <<protocol, core>> /\ answers' = answers \o <<EndedEvent>>
      /\ flight' = [up |-> no, sent |-> none, resend |-> none]
      /\ calls' = <<>> \/ calls' = calls
  BY DEF End, Emit
<1>2. answers' \in Seq(Event) BY <1>1, EventsAreTyped DEF Shapes
<1>3. no \in BOOLEAN /\ none \subseteq SentMsg /\ none \subseteq KeptMsg OBVIOUS
<1>4. \A m \in none : FALSE OBVIOUS
<1> HIDE DEF no, none
<1>5. flight' \in [up : BOOLEAN, sent : SUBSET SentMsg, resend : SUBSET KeptMsg] /\ flight'.sent = none
  BY <1>1, <1>3
<1>6. calls' \in Seq(Call) /\ \A i \in 1 .. Len(calls') : i \in 1 .. Len(calls) /\ calls'[i] = calls[i]
  <2>1. CASE calls' = calls BY <2>1 DEF Shapes
  <2>2. CASE calls' = <<>>
    <3>1. calls' \in Seq(Call) /\ 1 .. Len(calls') = {} BY <2>2
    <3>. QED BY <3>1
  <2>. QED BY <1>1, <2>1, <2>2
<1>7. Numbers' BY <1>1, <1>4, <1>5, <1>6, NumbersMove
<1>. QED BY <1>1, <1>2, <1>5, <1>6, <1>7 DEF Shapes

-----------------------------------------------------------------------------
LEMMA OldIsRow ==
  ASSUME NEW c \in Chat
  PROVE  Old(c) \in Row /\ Kept(Old(c), Old(c).id) \in KeptMsg
<1> DEFINE text == CHOOSE x \in Text : TRUE
           id == <<0, IF protocol = "telegram" THEN "failed" ELSE "pending">>
           failed == "failed"
<1>1. text \in Text BY SendNames
<1>2. id \in Id BY SendBound DEF Id
<1>3. failed \in {"pending", "sent", "failed"} OBVIOUS
<1>4. Old(c) = [chat |-> c, text |-> text, delivery |-> failed, id |-> id] BY DEF Old
<1> HIDE DEF text, id, failed
<1>5. Old(c) \in Row /\ Old(c).id = id /\ Old(c).chat = c /\ Old(c).text = text
  BY <1>1, <1>2, <1>3, <1>4 DEF Row
<1>. QED BY <1>1, <1>2, <1>5 DEF Kept, KeptMsg

LEMMA ShapesInit ==
  ASSUME SendsInit
  PROVE  Shapes /\ Numbers
<1> DEFINE yes == TRUE
           one == 1
           none == {}
           empty == <<>>
           fine == "none"
           drafts == [c \in Chat |-> Blank]
           rejected == [c \in Chat |-> NoReject]
<1>1. PICK old \in {{}} \cup {{Old(c)} : c \in Chat} :
         /\ core = [linked |-> yes, selected |-> Elsewhere, compose |-> Blank,
                    drafts |-> drafts, next |-> one,
                    open |-> none, expired |-> none, timedOut |-> none,
                    error |-> fine, rejected |-> rejected,
                    rows |-> old, holds |-> empty, unbound |-> none, late |-> none,
                    forgotten |-> none]
         /\ flight = [up |-> yes, sent |-> none, resend |-> {Kept(m, m.id) : m \in old}]
  BY DEF SendsInit
<1>2. calls = <<>> /\ answers = <<>> /\ protocol \in {"telegram", "discord"}
  BY SendProtocols DEF SendsInit
<1>3. old \in SUBSET Row /\ {Kept(m, m.id) : m \in old} \in SUBSET KeptMsg
  BY <1>1, OldIsRow
<1>4. /\ yes \in BOOLEAN /\ one \in 1 .. MaxRequest + 1 /\ empty \in Seq(Hold)
      /\ fine \in {"none", "timeouts", "failed"} /\ drafts \in [Chat -> Box]
      /\ rejected \in [Chat -> [text : Box, row : Box]]
      /\ Blank \in Box
  BY SendBound DEF Box, NoReject
<1>5. /\ none \subseteq Pending /\ none \subseteq Request /\ none \subseteq SentMsg
      /\ none \subseteq [request : Request, chat : Chat, retry : BOOLEAN]
      /\ none \subseteq [request : Request, chat : Chat, id : Id]
  OBVIOUS
<1>6. \A x \in none : FALSE OBVIOUS
<1>7. calls \in Seq(Call) /\ answers \in Seq(Event) /\ \A i \in 1 .. Len(calls) : FALSE
  BY <1>2
<1> HIDE DEF yes, one, none, empty, fine, drafts, rejected
<1>8. core \in Snapshot /\ core.open = none /\ core.expired = none
  BY <1>1, <1>3, <1>4, <1>5 DEF Snapshot
<1>9. /\ flight \in [up : BOOLEAN, sent : SUBSET SentMsg, resend : SUBSET KeptMsg]
      /\ flight.sent = none
  BY <1>1, <1>3, <1>4, <1>5
<1>. QED BY <1>2, <1>6, <1>7, <1>8, <1>9 DEF Shapes, Numbers, Unanswered

LEMMA ShapesStep ==
  ASSUME Shapes, Numbers, [SendsNext]_sendVars
  PROVE  Shapes' /\ Numbers'
<1>1. CASE UserStep
  BY <1>1, TypeShapes, SelectShapes, SendComposeShapes, RetrySendShapes DEF UserStep
<1>2. CASE PumpStep
  BY <1>2, ApplyEventShapes, ExpireSendShapes, ExpireHoldShapes, PruneExpiredShapes DEF PumpStep
<1>3. CASE AdapterStep
  BY <1>3, TelegramTakesShapes, DiscordTakesShapes, RefuseShapes, EndShapes,
     AnnounceShapes, ConfirmShapes, FailMessageShapes DEF AdapterStep
<1>4. CASE UNCHANGED sendVars BY <1>4 DEF sendVars, Shapes, Numbers
<1>. QED BY <1>1, <1>2, <1>3, <1>4 DEF SendsNext

LEMMA TypesHold ==
  ASSUME Shapes, Numbers
  PROVE  SendsTypeOK
<1>1. protocol \in {"telegram", "discord"} /\ core \in Snapshot BY DEF Shapes
<1>2. \A p, q \in Unanswered(core) :
         \/ p = q
         \/ p.request # q.request /\ (p.chat = q.chat => ~({p, q} \subseteq core.open))
  BY DEF Numbers
<1>3. \A i \in 1 .. Len(calls) : calls[i].request \in Request
  <2>1. \A i \in 1 .. Len(calls) : calls[i] \in Call BY DEF Shapes
  <2>. QED BY <2>1 DEF Call
<1>4. \A m \in flight.sent : m.id \in Id /\ m.request < core.next
  BY SentIsTyped DEF Numbers
<1>5. \A m \in flight.resend : m.id \in Id /\ m.text \in Text BY DEF Shapes, KeptMsg
<1>. QED BY <1>1, <1>2, <1>3, <1>4, <1>5 DEF SendsTypeOK

(* The fields have their types, every request has one number, and a chat   *)
(* never has two open sends: the invariant behind SendsTypeOK.             *)
THEOREM SendsInvariance == SendsSpec => [](Shapes /\ Numbers)
<1>1. SendsInit => Shapes /\ Numbers BY ShapesInit
<1>2. Shapes /\ Numbers /\ [SendsNext]_sendVars => Shapes' /\ Numbers' BY ShapesStep
<1>. QED BY <1>1, <1>2, PTL DEF SendsSpec

(* Types and numbers of the sends (sends.rs): no two sends or retries that *)
(* wait have the same request, a chat has at most one open send, and the   *)
(* messages of the server belong to requests that were made.               *)
THEOREM SendsAreTyped == SendsSpec => []SendsTypeOK
<1>1. Shapes /\ Numbers => SendsTypeOK BY TypesHold
<1>. QED BY <1>1, SendsInvariance, PTL

-----------------------------------------------------------------------------
(* The texts that the user left in a chat.                                 *)
LEMMA ApplyKeepsTexts ==
  ASSUME Shapes, ApplyEvent, NEW c \in Chat
  PROVE  \/ CurrentText(core, c) \in {Blank, CurrentText(core', c)}
         \/ answers' # answers /\ AnswersText(c, CurrentText(core, c))
         \/ ~core'.linked /\ (protocol = "telegram" \/ ~Owed(core, c))
<1> DEFINE e == Head(answers)
<1>1. answers # <<>> /\ core' = Apply(core, e) /\ answers' = Tail(answers)
  BY DEF ApplyEvent
<1>2. e \in Event /\ Tail(answers) # answers /\ core \in Snapshot
  BY <1>1 DEF Shapes
<1>3. TextsApplied(core, core', e) BY <1>1, <1>2, ApplySets
<1>4. CASE TextsFill(core, core') BY <1>4 DEF TextsFill
<1>5. CASE e.type = "accepted" /\ TextsAnswered(core, core', e.chat, e.request)
  BY <1>1, <1>2, <1>5 DEF TextsAnswered, AnswersText
<1>6. CASE e.type = "ended" /\ ~core'.linked
           /\ \A d \in Chat : CurrentText(core', d) = TextToKeep(core, d)
  BY <1>2, <1>6, KeptIsText
<1>. QED BY <1>3, <1>4, <1>5, <1>6 DEF TextsApplied

LEMMA PumpKeepsTexts ==
  ASSUME Shapes, PumpStep, NEW c \in Chat
  PROVE  \/ CurrentText(core, c) \in {Blank, CurrentText(core', c)}
         \/ answers' # answers /\ AnswersText(c, CurrentText(core, c))
         \/ ~core'.linked /\ (protocol = "telegram" \/ ~Owed(core, c))
<1>1. CASE ApplyEvent BY <1>1, ApplyKeepsTexts
<1>2. ASSUME NEW p \in core.open, ExpireSend(p)
      PROVE  CurrentText(core, c) \in {Blank, CurrentText(core', c)}
  <2>1. core \in Snapshot /\ core' = Expire(core, p) BY <1>2 DEF ExpireSend, Shapes
  <2>2. TextsFill(core, core') BY <2>1, ExpireSets
  <2>. QED BY <2>2 DEF TextsFill
<1>3. ASSUME NEW i \in 1 .. Len(core.holds), ExpireHold(core.holds[i])
      PROVE  CurrentText(core, c) = CurrentText(core', c)
  <2>1. Frame(core, core', Lines) BY <1>3, ExpireHoldSets
  <2>2. TextsStay(core, core') BY <2>1, FrameTexts DEF Lines, Texts
  <2>. QED BY <2>2 DEF TextsStay
<1>4. ASSUME NEW p \in core.expired, PruneExpired(p)
      PROVE  CurrentText(core, c) = CurrentText(core', c)
  <2>1. Frame(core, core', {"expired", "forgotten", "unbound"})
    BY <1>4, PruneExpiredSets
  <2>2. TextsStay(core, core') BY <2>1, FrameTexts DEF Texts
  <2>. QED BY <2>2 DEF TextsStay
<1>. QED BY <1>1, <1>2, <1>3, <1>4 DEF PumpStep

(* A text that the user left in a chat is taken from it only by an accept  *)
(* of a send of that text, or by the end of a session that keeps no text   *)
(* of this chat (clear_sent_text, note_delivery and the end of a session   *)
(* in state.rs): no timeout, no rejection and no update of another message *)
(* takes it.                                                               *)
THEOREM TextsAreKept == SendsSpec => TextKept
<1>1. Shapes /\ Numbers /\ [SendsNext]_sendVars =>
         (PumpStep => \A c \in Chat :
             \/ CurrentText(core, c) \in {Blank, CurrentText(core', c)}
             \/ answers' # answers /\ AnswersText(c, CurrentText(core, c))
             \/ ~core'.linked /\ (protocol = "telegram" \/ ~Owed(core, c)))
  BY PumpKeepsTexts
<1>. QED BY <1>1, SendsInvariance, PTL DEF SendsSpec, TextKept

-----------------------------------------------------------------------------
(* The rows.  Every request has one chat, its owner: all that carries the  *)
(* request, or a message that it made, is of that chat.  Ids are of        *)
(* requests that were made, and a message that was sent is not sent again. *)
RowGood(owner, m) ==
    /\ m.chat = owner[m.id[1]]
    /\ m.id[1] < core.next
    /\ m.id[2] = "sent" => m.delivery = "sent"

(* p is a send or a retry, or the command of one.                          *)
AskGood(owner, p) ==
    /\ p.chat = owner[p.request]
    /\ p.row # NoRow => /\ p.chat = owner[p.row[1]]
                        /\ p.row[1] < p.request
                        /\ p.row[2] # "sent"

SentGood(owner, m) ==
    /\ m.chat = owner[m.request] /\ m.chat = owner[m.id[1]]
    /\ m.id[1] < core.next
    /\ m.id[2] # "sent"
    /\ m.id # <<m.request, "failed">>
    /\ protocol = "telegram" => m.id = <<m.request, "pending">>

Brings(e) == e.type \in {"received", "replaced"}

EventGood(owner, e) ==
    /\ Brings(e) => /\ e.message.chat = owner[e.message.id[1]]
                    /\ e.message.id[1] < core.next
                    /\ e.message.delivery = e.message.id[2]
    /\ e.type = "replaced" => /\ e.message.chat = owner[e.old[1]]
                              /\ e.old[1] < core.next
                              /\ e.old # e.message.id
    /\ e.type = "failed" => /\ e.chat = owner[e.id[1]]
                            /\ e.id[1] < core.next
                            /\ e.id[2] # "sent"
    /\ e.type \in {"accepted", "rejected"} => e.chat = owner[e.request] /\ e.request < core.next

OwnedBy(owner) ==
    /\ \A m \in core.rows : RowGood(owner, m)
    /\ \A p \in Unanswered(core) : AskGood(owner, p)
    /\ \A i \in 1 .. Len(calls) : AskGood(owner, calls[i])
    /\ \A m \in flight.sent : SentGood(owner, m)
    /\ \A i \in 1 .. Len(answers) : EventGood(owner, answers[i])

Owners == [0 .. MaxRequest -> Chat \cup {Elsewhere}]
Owned == \E owner \in Owners : OwnedBy(owner)

OneRow == \A m, n \in core.rows : m.id = n.id => m = n

(* A command, and on Discord a message in flight, is of the row that the   *)
(* retry in the tracker has.                                               *)
Links ==
    /\ \A i \in 1 .. Len(calls) : \A p \in Unanswered(core) :
          calls[i].request = p.request => calls[i].row = p.row
    /\ protocol = "discord" =>
          \A m \in flight.sent : \A p \in Unanswered(core) :
              m.request = p.request /\ p.row # NoRow => m.id = p.row

(* Beside the accept of a retry is the event that takes its row away:      *)
(* before it on Telegram, after it on Discord.                             *)
Drops(e, id) == e.type = "replaced" /\ e.old = id

Pairs ==
    \A i \in 1 .. Len(answers) : \A p \in Unanswered(core) :
        answers[i].type = "accepted" /\ p.request = answers[i].request /\ p.row # NoRow =>
            IF protocol = "discord"
            THEN i < Len(answers) /\ Drops(answers[i + 1], p.row)
            ELSE IF i = 1 THEN RowOf(core, p.chat, p.row) = {}
            ELSE Drops(answers[i - 1], p.row)

(* A row that a late accept marked as sent is the next that goes, and no   *)
(* open retry can fail it.                                                 *)
SentRows ==
    \A m \in core.rows :
        m.delivery = "sent" /\ m.id[2] # "sent" =>
            /\ answers # <<>> /\ Drops(Head(answers), m.id)
            /\ \A p \in core.open : p.row # m.id

(* What brings a "Sending..." row comes before what moves it on.           *)
EndsRow(e, id) ==
    \/ e.type = "ended"
    \/ e.type = "failed" /\ e.id = id
    \/ Drops(e, id)

Brought ==
    \A i \in 1 .. Len(answers) :
        Brings(answers[i]) /\ answers[i].message.delivery = "pending" =>
            \/ \E m \in flight.sent : m.id = answers[i].message.id
            \/ \E j \in i + 1 .. Len(answers) : EndsRow(answers[j], answers[i].message.id)

Marks == Owned /\ OneRow /\ Links /\ Pairs /\ SentRows /\ Brought /\ SpinnerEnds

LEMMA IdIsTyped ==
  ASSUME NEW id \in Id
  PROVE  id[1] \in 0 .. MaxRequest /\ id[1] \in Nat /\ id[2] \in {"pending", "sent", "failed"}
BY DEF Id

(* A step that leaves the owners alone.                                    *)
LEMMA OwnedStays ==
  ASSUME NEW owner, OwnedBy(owner), core'.next = core.next, protocol' = protocol,
         Unanswered(core') \subseteq Unanswered(core),
         \A m \in core'.rows : RowGood(owner, m),
         \A i \in 1 .. Len(calls') : \E j \in 1 .. Len(calls) : calls'[i] = calls[j],
         \A m \in flight'.sent : SentGood(owner, m),
         \A i \in 1 .. Len(answers') : EventGood(owner, answers'[i])
  PROVE  OwnedBy(owner)'
<1>1. \A m \in core'.rows : RowGood(owner, m)' BY DEF RowGood
<1>2. \A p \in Unanswered(core') : AskGood(owner, p)' BY DEF OwnedBy
<1>3. \A i \in 1 .. Len(calls') : AskGood(owner, calls[i])' BY DEF OwnedBy
<1>4. \A m \in flight'.sent : SentGood(owner, m)' BY DEF SentGood
<1>5. \A i \in 1 .. Len(answers') : EventGood(owner, answers[i])' BY DEF EventGood
<1>. QED BY <1>1, <1>2, <1>3, <1>4, <1>5 DEF OwnedBy

-----------------------------------------------------------------------------
(* Steps that touch no row and no open send.                               *)
Quiet ==
    /\ core'.rows = core.rows /\ core'.open = core.open
    /\ core'.expired \subseteq core.expired /\ core'.next = core.next
    /\ UNCHANGED <<protocol, calls, flight, answers>>

LEMMA QuietKeeps ==
  ASSUME Marks, Quiet
  PROVE  Marks'
<1>1. Unanswered(core') \subseteq Unanswered(core) BY DEF Quiet, Unanswered
<1>2. PICK owner \in Owners : OwnedBy(owner) BY DEF Marks, Owned
<1>3. OwnedBy(owner)' BY <1>1, <1>2, OwnedStays DEF OwnedBy, Quiet
<1>4. Owned' BY <1>3 DEF Owned
<1>5. OneRow' /\ Links' BY <1>1 DEF Marks, OneRow, Links, Quiet
<1>6. Pairs'
  <2>1. \A c, id : RowOf(core', c, id) = RowOf(core, c, id) BY DEF RowOf, Quiet
  <2>. QED BY SMTT(60), <1>1, <2>1 DEF Marks, Pairs, Quiet, Drops
<1>7. SentRows' /\ Brought' /\ SpinnerEnds'
  BY DEF Marks, SentRows, Brought, SpinnerEnds, WillMove, Quiet, Drops, EndsRow, Brings
<1>. QED BY <1>4, <1>5, <1>6, <1>7 DEF Marks

LEMMA QuietSteps ==
  ASSUME Shapes
  PROVE  /\ \A text \in Box : Type(text) => Quiet
         /\ \A c \in Chat \cup {Elsewhere} : Select(c) => Quiet
         /\ \A i \in 1 .. Len(core.holds) : ExpireHold(core.holds[i]) => Quiet
         /\ \A p \in core.expired : PruneExpired(p) => Quiet
<1>1. core \in Snapshot BY DEF Shapes
<1>2. ASSUME NEW text \in Box, Type(text)
      PROVE  Quiet
  BY <1>1, <1>2 DEF Type, Quiet
<1>3. ASSUME NEW c \in Chat \cup {Elsewhere}, Select(c)
      PROVE  Quiet
  BY <1>1, <1>3 DEF Select, Quiet
<1>4. ASSUME NEW i \in 1 .. Len(core.holds), ExpireHold(core.holds[i])
      PROVE  Quiet
  <2>1. /\ core' \in Snapshot /\ Frame(core, core', Lines)
        /\ UNCHANGED <<protocol, calls, flight, answers>>
    BY <1>4, ExpireHoldSets
  <2>. QED BY <2>1 DEF Quiet, Frame, Field, Lines
<1>5. ASSUME NEW p \in core.expired, PruneExpired(p)
      PROVE  Quiet
  <2>1. /\ Frame(core, core', {"expired", "forgotten", "unbound"})
        /\ core'.expired = core.expired \ {p}
        /\ UNCHANGED <<protocol, calls, flight, answers>>
    BY <1>5, PruneExpiredSets
  <2>. QED BY <2>1 DEF Quiet, Frame, Field
<1>. QED BY <1>2, <1>3, <1>4, <1>5

-----------------------------------------------------------------------------
(* The adapter adds events, and what leaves its hands is among them.       *)
LEMMA Added ==
  ASSUME NEW T, NEW s \in Seq(T), NEW t \in Seq(T)
  PROVE  /\ Len(s \o t) = Len(s) + Len(t) /\ Len(s) \in Nat /\ Len(t) \in Nat
         /\ \A i \in 1 .. Len(s) : (s \o t)[i] = s[i] /\ i \in 1 .. Len(s \o t)
         /\ \A i \in 1 .. Len(s \o t) : i > Len(s) => (s \o t)[i] = t[i - Len(s)] /\ i - Len(s) \in 1 .. Len(t)
         /\ \A i \in 1 .. Len(t) : (s \o t)[i + Len(s)] = t[i] /\ i + Len(s) \in 1 .. Len(s \o t)
         /\ s # <<>> => s \o t # <<>> /\ Head(s \o t) = Head(s)
OBVIOUS

LEMMA Joined ==
  ASSUME NEW T, NEW s \in Seq(T), NEW t \in Seq(T)
  PROVE  Len(s) = 1 /\ Len(t) = 1 =>
            /\ s \o t \in Seq(T) /\ Len(s \o t) = 2
            /\ (s \o t)[1] = s[1] /\ (s \o t)[2] = t[1]
<1> DEFINE u == s \o t
<1>0. u \in Seq(T) OBVIOUS
<1>1. /\ Len(u) = Len(s) + Len(t)
      /\ \A i \in 1 .. Len(s) : u[i] = s[i]
      /\ \A i \in 1 .. Len(t) : u[i + Len(s)] = t[i]
  BY Added
<1> HIDE DEF u
<1> SUFFICES ASSUME Len(s) = 1, Len(t) = 1
             PROVE  u \in Seq(T) /\ Len(u) = 2 /\ u[1] = s[1] /\ u[2] = t[1]
  BY DEF u
<1>2. Len(u) = 2 BY <1>1
<1>3. u[1] = s[1] BY <1>1
<1>4. u[1 + Len(s)] = t[1] BY <1>1
<1>. QED BY <1>0, <1>2, <1>3, <1>4

Adds(owner, new) ==
    /\ UNCHANGED <<protocol, core>>
    /\ answers' = answers \o new
    /\ \A i \in 1 .. Len(calls') : \E j \in 1 .. Len(calls) : calls'[i] = calls[j]
    /\ \A m \in flight'.sent :
          /\ SentGood(owner, m)
          /\ protocol = "discord" =>
                \A p \in Unanswered(core) :
                    m.request = p.request /\ p.row # NoRow => m.id = p.row
    /\ \A m \in flight.sent :
          \/ \E k \in flight'.sent : k.id = m.id
          \/ \E j \in 1 .. Len(new) : EndsRow(new[j], m.id)
    /\ \A i \in 1 .. Len(new) : EventGood(owner, new[i])
    /\ \A i \in 1 .. Len(new) :
          Brings(new[i]) /\ new[i].message.delivery = "pending" =>
              \E m \in flight'.sent : m.id = new[i].message.id
    /\ \A i \in 1 .. Len(new) : \A p \in Unanswered(core) :
          new[i].type = "accepted" /\ p.request = new[i].request /\ p.row # NoRow =>
              IF protocol = "discord"
              THEN i < Len(new) /\ Drops(new[i + 1], p.row)
              ELSE i > 1 /\ Drops(new[i - 1], p.row)

LEMMA AddsKeeps ==
  ASSUME Shapes, Marks, NEW owner \in Owners, OwnedBy(owner),
         NEW new \in Seq(Event), Adds(owner, new)
  PROVE  Marks'
<1> DEFINE N == Len(answers)
<1>0. answers \in Seq(Event) /\ answers' = answers \o new BY DEF Shapes, Adds
<1>1. /\ Len(answers') = N + Len(new) /\ N \in Nat /\ Len(new) \in Nat
      /\ \A i \in 1 .. N : answers'[i] = answers[i] /\ i \in 1 .. Len(answers')
      /\ \A i \in 1 .. Len(answers') : i > N => answers'[i] = new[i - N] /\ i - N \in 1 .. Len(new)
      /\ \A i \in 1 .. Len(new) : answers'[i + N] = new[i] /\ i + N \in 1 .. Len(answers')
      /\ answers # <<>> => answers' # <<>> /\ Head(answers') = Head(answers)
  BY <1>0, Added
<1> HIDE DEF N
<1>2. core' = core /\ protocol' = protocol BY DEF Adds
<1>3. Owned'
  <2>1. \A i \in 1 .. Len(answers') : EventGood(owner, answers'[i])
    <3>1. \A i \in 1 .. N : EventGood(owner, answers[i]) BY DEF OwnedBy, N
    <3>2. \A i \in 1 .. Len(new) : EventGood(owner, new[i]) BY DEF Adds
    <3> SUFFICES ASSUME NEW i \in 1 .. Len(answers') PROVE EventGood(owner, answers'[i])
      OBVIOUS
    <3>3. CASE i <= N
      <4>1. i \in 1 .. N BY <1>1, <3>3
      <4>. QED BY <1>1, <3>1, <4>1
    <3>4. CASE i > N BY <1>1, <3>2, <3>4
    <3>. QED BY <1>1, <3>3, <3>4
  <2>2. OwnedBy(owner)' BY <1>2, <2>1, OwnedStays DEF OwnedBy, Adds
  <2>. QED BY <2>2 DEF Owned
<1>4. OneRow' BY <1>2 DEF Marks, OneRow
<1>5. Links'
  <2>1. \A i \in 1 .. Len(calls') : \A p \in Unanswered(core) :
           calls'[i].request = p.request => calls'[i].row = p.row
    <3> SUFFICES ASSUME NEW i \in 1 .. Len(calls'), NEW p \in Unanswered(core),
                        calls'[i].request = p.request
                 PROVE  calls'[i].row = p.row
      OBVIOUS
    <3>1. PICK j \in 1 .. Len(calls) : calls'[i] = calls[j] BY DEF Adds
    <3>2. calls[j].request = p.request => calls[j].row = p.row BY DEF Marks, Links
    <3>. QED BY <3>1, <3>2
  <2>2. protocol = "discord" =>
           \A m \in flight'.sent : \A p \in Unanswered(core) :
               m.request = p.request /\ p.row # NoRow => m.id = p.row
    BY DEF Adds
  <2>. QED BY <1>2, <2>1, <2>2 DEF Links
<1>6. SentRows' BY <1>1, <1>2 DEF Marks, SentRows
<1>7. Pairs'
  <2> SUFFICES ASSUME NEW i \in 1 .. Len(answers'), NEW p \in Unanswered(core),
                      answers'[i].type = "accepted", p.request = answers'[i].request, p.row # NoRow
               PROVE  IF protocol = "discord"
                      THEN i < Len(answers') /\ Drops(answers'[i + 1], p.row)
                      ELSE IF i = 1 THEN RowOf(core, p.chat, p.row) = {}
                      ELSE Drops(answers'[i - 1], p.row)
    BY <1>2 DEF Pairs
  <2>1. CASE i <= N
    <3>1. i \in 1 .. N /\ answers'[i] = answers[i] BY <1>1, <2>1
    <3>2. IF protocol = "discord"
          THEN i < N /\ Drops(answers[i + 1], p.row)
          ELSE IF i = 1 THEN RowOf(core, p.chat, p.row) = {}
          ELSE Drops(answers[i - 1], p.row)
      BY <3>1 DEF Marks, Pairs, N
    <3>3. CASE protocol = "discord"
      <4>1. i + 1 \in 1 .. N BY <1>1, <3>1, <3>2, <3>3
      <4>. QED BY <1>1, <3>1, <3>2, <3>3, <4>1
    <3>4. CASE protocol # "discord" /\ i # 1
      <4>1. i - 1 \in 1 .. N BY <1>1, <3>1, <3>4
      <4>. QED BY <1>1, <3>2, <3>4, <4>1
    <3>. QED BY <3>2, <3>3, <3>4
  <2>2. CASE i > N
    <3>1. i - N \in 1 .. Len(new) /\ answers'[i] = new[i - N] BY <1>1, <2>2
    <3>2. IF protocol = "discord"
          THEN i - N < Len(new) /\ Drops(new[(i - N) + 1], p.row)
          ELSE i - N > 1 /\ Drops(new[(i - N) - 1], p.row)
      BY <3>1 DEF Adds
    <3>3. CASE protocol = "discord"
      <4>1. (i - N) + 1 \in 1 .. Len(new) /\ ((i - N) + 1) + N = i + 1
        BY <1>1, <3>1, <3>2, <3>3
      <4>2. answers'[i + 1] = new[(i - N) + 1] /\ i < Len(answers')
        BY <1>1, <3>2, <3>3, <4>1
      <4>. QED BY <3>2, <3>3, <4>2
    <3>4. CASE protocol # "discord"
      <4>1. (i - N) - 1 \in 1 .. Len(new) /\ ((i - N) - 1) + N = i - 1 /\ i # 1
        BY <1>1, <3>1, <3>2, <3>4
      <4>2. answers'[i - 1] = new[(i - N) - 1] BY <1>1, <4>1
      <4>. QED BY <3>2, <3>4, <4>1, <4>2
    <3>. QED BY <3>3, <3>4
  <2>. QED BY <1>1, <2>1, <2>2
<1>8. Brought'
  <2> SUFFICES ASSUME NEW i \in 1 .. Len(answers'), Brings(answers'[i]),
                      answers'[i].message.delivery = "pending"
               PROVE  \/ \E m \in flight'.sent : m.id = answers'[i].message.id
                      \/ \E j \in i + 1 .. Len(answers') : EndsRow(answers'[j], answers'[i].message.id)
    BY DEF Brought
  <2>1. CASE i <= N
    <3>1. i \in 1 .. N /\ answers'[i] = answers[i] BY <1>1, <2>1
    <3>2. \/ \E m \in flight.sent : m.id = answers[i].message.id
          \/ \E j \in i + 1 .. N : EndsRow(answers[j], answers[i].message.id)
      BY <3>1 DEF Marks, Brought, N
    <3>3. CASE \E j \in i + 1 .. N : EndsRow(answers[j], answers[i].message.id)
      <4>1. PICK j \in i + 1 .. N : EndsRow(answers[j], answers[i].message.id) BY <3>3
      <4>2. j \in 1 .. N /\ j \in i + 1 .. Len(answers') BY <1>1
      <4>. QED BY <1>1, <3>1, <4>1, <4>2
    <3>4. CASE \E m \in flight.sent : m.id = answers[i].message.id
      <4>1. PICK m \in flight.sent : m.id = answers[i].message.id BY <3>4
      <4>2. CASE \E j \in 1 .. Len(new) : EndsRow(new[j], m.id)
        <5>1. PICK j \in 1 .. Len(new) : EndsRow(new[j], m.id) BY <4>2
        <5>2. j + N \in i + 1 .. Len(answers') /\ answers'[j + N] = new[j] BY <1>1, <2>1
        <5>. QED BY <3>1, <4>1, <5>1, <5>2
      <4>. QED BY <3>1, <4>1, <4>2 DEF Adds
    <3>. QED BY <3>2, <3>3, <3>4
  <2>2. CASE i > N
    <3>1. i - N \in 1 .. Len(new) /\ answers'[i] = new[i - N] BY <1>1, <2>2
    <3>2. Brings(new[i - N]) /\ new[i - N].message.delivery = "pending" BY <3>1
    <3>3. \E m \in flight'.sent : m.id = new[i - N].message.id BY <3>1, <3>2 DEF Adds
    <3>. QED BY <3>1, <3>3
  <2>. QED BY <1>1, <2>1, <2>2
<1>9. SpinnerEnds'
  <2> SUFFICES ASSUME NEW r \in core.rows, r.delivery = "pending"
               PROVE  WillMove(r.id)'
    BY <1>2 DEF SpinnerEnds
  <2>1. WillMove(r.id) BY DEF Marks, SpinnerEnds
  <2>2. CASE \E p \in core.open : p.row = r.id BY <1>2, <2>2 DEF WillMove
  <2>3. ASSUME NEW m \in flight.sent, m.id = r.id
        PROVE  WillMove(r.id)'
    <3>1. CASE \E k \in flight'.sent : k.id = m.id BY <2>3, <3>1 DEF WillMove
    <3>2. CASE \E j \in 1 .. Len(new) : EndsRow(new[j], m.id)
      <4>1. PICK j \in 1 .. Len(new) : EndsRow(new[j], m.id) BY <3>2
      <4>2. j + N \in 1 .. Len(answers') /\ answers'[j + N] = new[j] BY <1>1
      <4>. QED BY <2>3, <4>1, <4>2 DEF WillMove, EndsRow, Drops
    <3>. QED BY <3>1, <3>2 DEF Adds
  <2>4. ASSUME NEW i \in 1 .. N,
               \/ answers[i].type = "ended"
               \/ answers[i].type = "failed" /\ answers[i].id = r.id
               \/ answers[i].type = "replaced" /\ answers[i].old = r.id
        PROVE  WillMove(r.id)'
    BY <1>1, <2>4 DEF WillMove
  <2>. QED BY <2>1, <2>2, <2>3, <2>4 DEF WillMove, N
<1>. QED BY <1>3, <1>4, <1>5, <1>6, <1>7, <1>8, <1>9 DEF Marks

(* The command at the head and what the adapter makes of it.               *)
LEMMA HeadCallFits ==
  ASSUME Shapes, Numbers, Marks, NEW owner, OwnedBy(owner), calls # <<>>, calls' = Tail(calls)
  PROVE  LET p == Head(calls)
         IN  /\ p.request \in Request /\ p.chat \in Chat /\ p.text \in Text /\ p.row \in Id \cup {NoRow}
             /\ AskGood(owner, p) /\ p.request < core.next
             /\ \A q \in Unanswered(core) : p.request = q.request => p.row = q.row
             /\ \A i \in 1 .. Len(calls') : \E j \in 1 .. Len(calls) : calls'[i] = calls[j]
<1> DEFINE p == Head(calls)
<1>1. /\ p.request \in Request /\ p.chat \in Chat /\ p.text \in Text /\ p.row \in Id \cup {NoRow}
      /\ p = calls[1] /\ 1 \in 1 .. Len(calls)
      /\ \A i \in 1 .. Len(calls') : i + 1 \in 1 .. Len(calls) /\ calls'[i] = calls[i + 1]
  BY CallIsTyped
<1> HIDE DEF p
<1>2. AskGood(owner, p) BY <1>1 DEF OwnedBy
<1>3. p.request < core.next BY <1>1 DEF Numbers
<1>4. \A q \in Unanswered(core) : p.request = q.request => p.row = q.row
  BY <1>1 DEF Marks, Links
<1>. QED BY <1>1, <1>2, <1>3, <1>4 DEF p

LEMMA NewId ==
  ASSUME NEW r \in Request, NEW stage \in {"pending", "sent", "failed"}
  PROVE  <<r, stage>> \in Id /\ <<r, stage>>[1] = r /\ <<r, stage>>[2] = stage
BY DEF Id, Request

LEMMA MessageParts ==
  ASSUME NEW m, m.request \in Request, m.chat \in Chat, m.text \in Text,
         NEW stage \in {"pending", "sent", "failed"}
  PROVE  LET row == Message(m, stage)
         IN  /\ row \in Row /\ row.id = <<m.request, stage>> /\ row.id \in Id
             /\ row.id[1] = m.request /\ row.id[2] = stage
             /\ row.chat = m.chat /\ row.delivery = stage
<1> DEFINE row == Message(m, stage)
<1>1. /\ row \in Row /\ row.id = <<m.request, stage>> /\ row.id \in Id
      /\ row.chat = m.chat /\ row.delivery = stage
  BY MessageIsRow
<1>2. row.id[1] = m.request /\ row.id[2] = stage BY <1>1, NewId
<1> HIDE DEF row
<1>. QED BY <1>1, <1>2 DEF row

LEMMA ReceivedFits ==
  ASSUME NEW owner, NEW m, m.request \in Request, m.chat \in Chat, m.text \in Text,
         m.chat = owner[m.request], m.request < core.next,
         NEW stage \in {"pending", "sent", "failed"}
  PROVE  EventGood(owner, ReceivedEvent(Message(m, stage)))
<1> DEFINE row == Message(m, stage)
<1>1. /\ row.id[1] = m.request /\ row.id[2] = stage /\ row.chat = m.chat /\ row.delivery = stage
  BY MessageParts
<1> HIDE DEF row
<1>3. EventGood(owner, ReceivedEvent(row))
  <2> DEFINE e == ReceivedEvent(row)
  <2>1. e.type = "received" /\ e.message = row BY DEF ReceivedEvent
  <2> HIDE DEF e
  <2>2. EventGood(owner, e) BY <1>1, <2>1 DEF EventGood
  <2>. QED BY <2>2 DEF e
<1>. QED BY <1>3 DEF row

LEMMA ReplacedFits ==
  ASSUME NEW owner, NEW m, m.request \in Request, m.chat \in Chat, m.text \in Text,
         m.chat = owner[m.request], m.request < core.next,
         NEW stage \in {"pending", "sent", "failed"},
         NEW old, m.chat = owner[old[1]], old[1] < core.next, old # <<m.request, stage>>
  PROVE  EventGood(owner, ReplacedEvent(old, Message(m, stage)))
<1> DEFINE row == Message(m, stage)
           e == ReplacedEvent(old, row)
<1>1. /\ row.id = <<m.request, stage>> /\ row.id[1] = m.request /\ row.id[2] = stage
      /\ row.chat = m.chat /\ row.delivery = stage
  BY MessageParts
<1> HIDE DEF row
<1>2. e.type = "replaced" /\ e.message = row /\ e.old = old BY DEF ReplacedEvent
<1> HIDE DEF e
<1>3. EventGood(owner, e) BY <1>1, <1>2 DEF EventGood
<1>. QED BY <1>3 DEF e, row

LEMMA AnswerFits ==
  ASSUME NEW owner, NEW p, p.chat = owner[p.request], p.request < core.next,
         NEW type \in {"accepted", "rejected"}
  PROVE  LET e == AnswerEvent(type, p)
         IN  /\ EventGood(owner, e) /\ e.type = type /\ e.request = p.request /\ e.chat = p.chat
             /\ ~Brings(e)
<1> DEFINE e == AnswerEvent(type, p)
<1>1. e.type = type /\ e.request = p.request /\ e.chat = p.chat BY DEF AnswerEvent
<1> HIDE DEF e
<1>2. EventGood(owner, e) /\ ~Brings(e) BY <1>1 DEF EventGood, Brings
<1>. QED BY <1>1, <1>2 DEF e

LEMMA FailedParts ==
  ASSUME NEW c, NEW id
  PROVE  LET e == FailedEvent(c, id)
         IN  e.type = "failed" /\ e.chat = c /\ e.id = id /\ ~Brings(e) /\ EndsRow(e, id)
<1> DEFINE e == FailedEvent(c, id)
<1>1. e.type = "failed" /\ e.id = id /\ e.chat = c BY DEF FailedEvent
<1> HIDE DEF e
<1>2. ~Brings(e) /\ EndsRow(e, id) BY <1>1 DEF Brings, EndsRow
<1>. QED BY <1>1, <1>2 DEF e

LEMMA FailedFits ==
  ASSUME NEW owner, NEW c, NEW id, c = owner[id[1]], id[1] < core.next, id[2] # "sent"
  PROVE  EventGood(owner, FailedEvent(c, id))
<1> DEFINE e == FailedEvent(c, id)
<1>1. e.type = "failed" /\ e.id = id /\ e.chat = c BY FailedParts
<1> HIDE DEF e
<1>2. EventGood(owner, e) BY <1>1 DEF EventGood, Brings
<1>. QED BY <1>2 DEF e

LEMMA ReplacedParts ==
  ASSUME NEW old, NEW row
  PROVE  LET e == ReplacedEvent(old, row)
         IN  /\ e.type = "replaced" /\ e.old = old /\ e.message = row /\ Brings(e)
             /\ Drops(e, old) /\ EndsRow(e, old)
BY DEF ReplacedEvent, Brings, Drops, EndsRow

LEMMA ReceivedParts ==
  ASSUME NEW row
  PROVE  LET e == ReceivedEvent(row)
         IN  e.type = "received" /\ e.message = row /\ Brings(e)
BY DEF ReceivedEvent, Brings

(* A row that is retried is older than the request of the retry.           *)
LEMMA RetriedIsOlder ==
  ASSUME NEW owner, NEW p, p.request \in Request, p.request < core.next, core.next \in Nat,
         p.row \in Id, AskGood(owner, p)
  PROVE  /\ p.chat = owner[p.row[1]] /\ p.row[1] < core.next /\ p.row[2] # "sent"
         /\ p.row # <<p.request, "pending">> /\ p.row # <<p.request, "sent">>
         /\ p.row # <<p.request, "failed">>
<1>1. p.row # NoRow BY SendRows
<1>2. p.row[1] < p.request /\ p.row[2] # "sent" /\ p.chat = owner[p.row[1]]
  BY <1>1 DEF AskGood
<1>3. p.row[1] \in Nat /\ p.request \in Nat BY IdIsTyped DEF Request
<1>4. p.row[1] # p.request BY <1>2, <1>3
<1>5. /\ <<p.request, "pending">>[1] = p.request /\ <<p.request, "sent">>[1] = p.request
      /\ <<p.request, "failed">>[1] = p.request
  BY NewId
<1>6. p.row[1] < core.next BY <1>2, <1>3
<1>. QED BY <1>2, <1>4, <1>5, <1>6

LEMMA NextIsNat ==
  ASSUME Shapes
  PROVE  core.next \in Nat /\ core.next \in 1 .. MaxRequest + 1 /\ core \in Snapshot
BY DEF Shapes, Snapshot

LEMMA TelegramTakesKeeps ==
  ASSUME Shapes, Numbers, Marks, TelegramTakes
  PROVE  Marks'
<1> DEFINE p == Head(calls)
           row == Message(p, "pending")
           told == IF p.row = NoRow THEN ReceivedEvent(row) ELSE ReplacedEvent(p.row, row)
           yes == AnswerEvent("accepted", p)
           new == <<told, yes>>
           mine == Sent(p, row.id)
           sent == flight.sent \cup {mine}
           left == {m \in flight.resend : m.id # p.row}
<1>1. PICK owner \in Owners : OwnedBy(owner) BY DEF Marks, Owned
<1>2. /\ calls # <<>> /\ calls' = Tail(calls) /\ UNCHANGED <<protocol, core>>
      /\ protocol = "telegram"
      /\ answers' = answers \o new
      /\ flight' = [flight EXCEPT !.sent = sent, !.resend = left]
  BY DEF TelegramTakes, Take, Emit
<1>3. /\ p.request \in Request /\ p.chat \in Chat /\ p.text \in Text /\ p.row \in Id \cup {NoRow}
      /\ AskGood(owner, p) /\ p.request < core.next
      /\ \A q \in Unanswered(core) : p.request = q.request => p.row = q.row
      /\ \A i \in 1 .. Len(calls') : \E j \in 1 .. Len(calls) : calls'[i] = calls[j]
  BY <1>1, <1>2, HeadCallFits
<1> HIDE DEF p
<1>4. p.chat = owner[p.request] BY <1>3 DEF AskGood
<1>5. /\ row \in Row /\ row.id = <<p.request, "pending">> /\ row.id \in Id
      /\ row.id[1] = p.request /\ row.id[2] = "pending" /\ row.delivery = "pending"
  BY <1>3, MessageParts
<1>16. EventGood(owner, ReceivedEvent(row)) BY <1>3, <1>4, ReceivedFits
<1>15. ASSUME p.row # NoRow
       PROVE  EventGood(owner, ReplacedEvent(p.row, row))
  <2>1. p.row \in Id /\ core.next \in Nat BY <1>3, <1>15, NextIsNat
  <2>2. p.chat = owner[p.row[1]] /\ p.row[1] < core.next /\ p.row # <<p.request, "pending">>
    BY <1>3, <2>1, RetriedIsOlder
  <2>. QED BY <1>3, <1>4, <2>2, ReplacedFits
<1> HIDE DEF row
<1>6. /\ mine \in SentMsg /\ mine.request = p.request /\ mine.chat = p.chat /\ mine.id = row.id
  BY <1>3, <1>5, SentTypes
<1> HIDE DEF mine
<1>7. SentGood(owner, mine)
  <2>1. mine.id # <<mine.request, "failed">> BY <1>3, <1>5, <1>6, NewId
  <2>2. mine.id = <<mine.request, "pending">> BY <1>5, <1>6
  <2>. QED BY <1>3, <1>4, <1>5, <1>6, <2>1, <2>2 DEF SentGood
<1>8. flight'.sent = sent
  <2> HIDE DEF sent, left
  <2>. QED BY <1>2
<1>9. /\ EventGood(owner, told) /\ told.message = row
      /\ p.row # NoRow => Drops(told, p.row)
      /\ told.type # "accepted"
  <2>1. CASE p.row = NoRow BY <1>16, <2>1, ReceivedParts
  <2>2. CASE p.row # NoRow BY <1>15, <2>2, ReplacedParts
  <2>. QED BY <2>1, <2>2
<1>10. /\ EventGood(owner, yes) /\ yes.type = "accepted" /\ yes.request = p.request /\ ~Brings(yes)
  BY <1>3, <1>4, AnswerFits
<1>11. told \in Event /\ yes \in Event
  <2>1. p.row # NoRow => p.row \in Id BY <1>3
  <2>. QED BY <1>3, <1>5, <2>1, EventsAreTyped
<1> HIDE DEF told, yes
<1>12. new \in Seq(Event) /\ Len(new) = 2 /\ new[1] = told /\ new[2] = yes BY <1>11
<1> HIDE DEF new
<1>13. \A i \in 1 .. Len(new) : i = 1 \/ i = 2 BY <1>12
<1>14. Adds(owner, new)
  <2>1. \A m \in flight'.sent : SentGood(owner, m) BY <1>1, <1>7, <1>8 DEF OwnedBy
  <2>2. \A m \in flight.sent : \E k \in flight'.sent : k.id = m.id BY <1>8
  <2>3. \A i \in 1 .. Len(new) : EventGood(owner, new[i]) BY <1>9, <1>10, <1>12, <1>13
  <2>4. \A i \in 1 .. Len(new) :
           Brings(new[i]) => \E m \in flight'.sent : m.id = new[i].message.id
    BY <1>6, <1>8, <1>9, <1>10, <1>12, <1>13
  <2>5. ASSUME NEW i \in 1 .. Len(new), NEW q \in Unanswered(core),
               new[i].type = "accepted", q.request = new[i].request, q.row # NoRow
        PROVE  i > 1 /\ Drops(new[i - 1], q.row)
    <3>1. i = 2 /\ q.request = p.request BY <1>9, <1>10, <1>12, <1>13, <2>5
    <3>. QED BY <1>3, <1>9, <1>12, <2>5, <3>1
  <2>6. protocol # "discord" BY <1>2
  <2>. QED BY <1>2, <1>3, <2>1, <2>2, <2>3, <2>4, <2>5, <2>6 DEF Adds
<1>. QED BY <1>1, <1>12, <1>14, AddsKeeps

LEMMA DiscordTakesKeeps ==
  ASSUME Shapes, Numbers, Marks, DiscordTakes
  PROVE  Marks'
<1> DEFINE p == Head(calls)
           row == Message(p, "pending")
           told == ReceivedEvent(row)
           new == IF p.row = NoRow THEN <<told>> ELSE <<>>
           id == IF p.row = NoRow THEN row.id ELSE p.row
           mine == Sent(p, id)
           sent == flight.sent \cup {mine}
           resend == IF p.row = NoRow THEN flight.resend \cup {Kept(p, row.id)} ELSE flight.resend
<1>1. PICK owner \in Owners : OwnedBy(owner) BY DEF Marks, Owned
<1>2. /\ calls # <<>> /\ calls' = Tail(calls) /\ UNCHANGED <<protocol, core>>
      /\ protocol = "discord"
  BY DEF DiscordTakes, Take
<1>3. /\ answers \in Seq(Event)
      /\ flight \in [up : BOOLEAN, sent : SUBSET SentMsg, resend : SUBSET KeptMsg]
  BY DEF Shapes
<1>4. answers' = answers \o new /\ flight'.sent = sent
  <2>1. CASE p.row = NoRow
    <3>1. /\ answers' = answers \o <<told>>
          /\ flight' = [flight EXCEPT !.sent = @ \cup {Sent(p, row.id)},
                                      !.resend = @ \cup {Kept(p, row.id)}]
      BY <2>1 DEF DiscordTakes, Emit
    <3>2. new = <<told>> /\ id = row.id BY <2>1
    <3> HIDE DEF p, row, told, new, id
    <3>. QED BY <1>3, <3>1, <3>2
  <2>2. CASE p.row # NoRow
    <3>1. answers' = answers /\ flight' = [flight EXCEPT !.sent = @ \cup {Sent(p, p.row)}]
      BY <2>2 DEF DiscordTakes
    <3>2. new = <<>> /\ id = p.row BY <2>2
    <3> HIDE DEF p, row, told, new, id
    <3>. QED BY <1>3, <3>1, <3>2
  <2>. QED BY <2>1, <2>2
<1>5. /\ p.request \in Request /\ p.chat \in Chat /\ p.text \in Text /\ p.row \in Id \cup {NoRow}
      /\ AskGood(owner, p) /\ p.request < core.next
      /\ \A q \in Unanswered(core) : p.request = q.request => p.row = q.row
      /\ \A i \in 1 .. Len(calls') : \E j \in 1 .. Len(calls) : calls'[i] = calls[j]
  BY <1>1, <1>2, HeadCallFits
<1> HIDE DEF p
<1>6. p.chat = owner[p.request] BY <1>5 DEF AskGood
<1>7. /\ row \in Row /\ row.id = <<p.request, "pending">> /\ row.id \in Id
      /\ row.id[1] = p.request /\ row.id[2] = "pending" /\ row.delivery = "pending"
  BY <1>5, MessageParts
<1>8. EventGood(owner, told) /\ told.message = row /\ told.type = "received"
  BY <1>5, <1>6, ReceivedFits, ReceivedParts
<1>9. told \in Event BY <1>7, EventsAreTyped
<1> HIDE DEF row, told
<1>10. /\ id \in Id /\ p.chat = owner[id[1]] /\ id[1] < core.next /\ id[2] # "sent"
       /\ id # <<p.request, "failed">>
  <2>1. CASE p.row = NoRow
    <3>1. id = row.id BY <2>1
    <3>2. row.id # <<p.request, "failed">> BY <1>5, <1>7, NewId
    <3>. QED BY <1>5, <1>6, <1>7, <3>1, <3>2
  <2>2. CASE p.row # NoRow
    <3>1. id = p.row /\ p.row \in Id /\ core.next \in Nat BY <1>5, <2>2, NextIsNat
    <3>. QED BY <1>5, <3>1, RetriedIsOlder
  <2>. QED BY <2>1, <2>2
<1>11. p.row # NoRow => id = p.row OBVIOUS
<1>12. p.row = NoRow => id = row.id OBVIOUS
<1> HIDE DEF id
<1>13. mine.request = p.request /\ mine.chat = p.chat /\ mine.id = id
  BY <1>5, <1>10, SentTypes
<1> HIDE DEF mine
<1>14. SentGood(owner, mine) BY <1>2, <1>6, <1>10, <1>13 DEF SentGood
<1>15. /\ new \in Seq(Event)
       /\ \A i \in 1 .. Len(new) : p.row = NoRow /\ new[i] = told
  BY <1>9
<1> HIDE DEF new
<1>16. Adds(owner, new)
  <2>1. ASSUME NEW m \in flight'.sent
        PROVE  /\ SentGood(owner, m)
               /\ \A q \in Unanswered(core) : m.request = q.request /\ q.row # NoRow => m.id = q.row
    <3>1. CASE m \in flight.sent BY <1>1, <1>2, <3>1 DEF OwnedBy, Marks, Links
    <3>2. CASE m = mine BY <1>5, <1>11, <1>13, <1>14, <3>2
    <3>. QED BY <1>4, <2>1, <3>1, <3>2
  <2>2. \A m \in flight.sent : \E k \in flight'.sent : k.id = m.id BY <1>4
  <2>3. \A i \in 1 .. Len(new) : EventGood(owner, new[i]) /\ new[i].type # "accepted"
    BY <1>8, <1>15
  <2>4. \A i \in 1 .. Len(new) : \E m \in flight'.sent : m.id = new[i].message.id
    BY <1>4, <1>8, <1>12, <1>13, <1>15
  <2>. QED BY <1>2, <1>4, <1>5, <2>1, <2>2, <2>3, <2>4 DEF Adds
<1>. QED BY <1>1, <1>15, <1>16, AddsKeeps

LEMMA RefuseKeeps ==
  ASSUME Shapes, Numbers, Marks, Refuse
  PROVE  Marks'
<1> DEFINE p == Head(calls)
           no == AnswerEvent("rejected", p)
           failed == FailedEvent(p.chat, p.row)
           first == IF p.row # NoRow /\ protocol = "telegram" THEN <<failed>> ELSE <<>>
           new == first \o <<no>>
<1>1. PICK owner \in Owners : OwnedBy(owner) BY DEF Marks, Owned
<1>2. /\ calls # <<>> /\ calls' = Tail(calls) /\ UNCHANGED <<protocol, core, flight>>
      /\ answers' = answers \o new
  BY DEF Refuse, Take, Emit
<1>3. /\ p.request \in Request /\ p.chat \in Chat /\ p.row \in Id \cup {NoRow}
      /\ AskGood(owner, p) /\ p.request < core.next
      /\ \A i \in 1 .. Len(calls') : \E j \in 1 .. Len(calls) : calls'[i] = calls[j]
  BY <1>1, <1>2, HeadCallFits
<1> HIDE DEF p
<1>4. EventGood(owner, no) /\ no.type = "rejected" /\ ~Brings(no)
  BY <1>3, AnswerFits DEF AskGood
<1>5. p.row # NoRow => EventGood(owner, failed) /\ failed.type = "failed" /\ ~Brings(failed)
  <2> SUFFICES ASSUME p.row # NoRow
               PROVE  EventGood(owner, failed) /\ failed.type = "failed" /\ ~Brings(failed)
    OBVIOUS
  <2>1. p.row \in Id /\ core.next \in Nat BY <1>3, NextIsNat
  <2>2. p.chat = owner[p.row[1]] /\ p.row[1] < core.next /\ p.row[2] # "sent"
    BY <1>3, <2>1, RetriedIsOlder
  <2>3. EventGood(owner, failed) BY <2>2, FailedFits
  <2>. QED BY <2>3, FailedParts
<1>6. no \in Event /\ (p.row # NoRow => failed \in Event) BY <1>3, EventsAreTyped
<1> HIDE DEF no, failed
<1>7. /\ first \in Seq(Event)
      /\ \A i \in 1 .. Len(first) : first[i] = failed /\ p.row # NoRow
  BY <1>6
<1> HIDE DEF first
<1>8. /\ new \in Seq(Event)
      /\ \A i \in 1 .. Len(new) : new[i] = no \/ (new[i] = failed /\ p.row # NoRow)
  BY <1>6, <1>7
<1> HIDE DEF new
<1>9. Adds(owner, new)
  <2>1. \A i \in 1 .. Len(new) : EventGood(owner, new[i]) /\ new[i].type # "accepted" /\ ~Brings(new[i])
    BY <1>4, <1>5, <1>8
  <2>2. \A m \in flight'.sent :
           /\ SentGood(owner, m)
           /\ protocol = "discord" =>
                 \A q \in Unanswered(core) : m.request = q.request /\ q.row # NoRow => m.id = q.row
    BY <1>1, <1>2 DEF OwnedBy, Marks, Links
  <2>. QED BY <1>2, <1>3, <2>1, <2>2 DEF Adds
<1>. QED BY <1>1, <1>8, <1>9, AddsKeeps

(* A message in flight.                                                    *)
LEMMA FlightFits ==
  ASSUME Shapes, Numbers, NEW owner, OwnedBy(owner), NEW m \in flight.sent
  PROVE  /\ m.request \in Request /\ m.chat \in Chat /\ m.text \in Text /\ m.id \in Id
         /\ SentGood(owner, m) /\ m.chat = owner[m.request] /\ m.request < core.next
         /\ m.chat = owner[m.id[1]] /\ m.id[1] < core.next /\ m.id[2] # "sent"
         /\ m.id # <<m.request, "failed">> /\ m.id # <<m.request, "sent">>
         /\ protocol = "telegram" => m.id = <<m.request, "pending">>
<1>1. m.request \in Request /\ m.chat \in Chat /\ m.text \in Text /\ m.id \in Id
  BY SentIsTyped
<1>2. SentGood(owner, m) BY DEF OwnedBy
<1>3. m.request < core.next BY DEF Numbers
<1>4. <<m.request, "sent">>[2] = "sent" BY <1>1, NewId
<1>5. m.id[2] # "sent" BY <1>2 DEF SentGood
<1>6. m.id # <<m.request, "sent">> BY <1>4, <1>5
<1>. QED BY <1>1, <1>2, <1>3, <1>6 DEF SentGood

LEMMA AnnounceKeeps ==
  ASSUME Shapes, Numbers, Marks, NEW m \in flight.sent, Announce(m)
  PROVE  Marks'
<1> DEFINE row == Message(m, "pending")
           told == ReceivedEvent(row)
           new == <<told>>
           yes == TRUE
           n == [m EXCEPT !.announced = yes]
           sent == (flight.sent \ {m}) \cup {n}
<1>1. PICK owner \in Owners : OwnedBy(owner) BY DEF Marks, Owned
<1>2. /\ UNCHANGED <<protocol, core, calls>> /\ answers' = answers \o new
      /\ flight' = [flight EXCEPT !.sent = sent] /\ protocol = "telegram"
  BY DEF Announce, Emit
<1>3. /\ m.request \in Request /\ m.chat \in Chat /\ m.text \in Text /\ SentGood(owner, m)
      /\ m.chat = owner[m.request] /\ m.request < core.next
      /\ m.id = <<m.request, "pending">>
  BY <1>1, <1>2, FlightFits
<1>4. row \in Row /\ row.id = <<m.request, "pending">> BY <1>3, MessageParts
<1>5. EventGood(owner, told) /\ told.message = row /\ told.type = "received"
  BY <1>3, ReceivedFits, ReceivedParts
<1>6. told \in Event BY <1>4, EventsAreTyped
<1> HIDE DEF row, told
<1>7. n.id = m.id /\ n.request = m.request /\ n.chat = m.chat OBVIOUS
<1> HIDE DEF n
<1>8. SentGood(owner, n) BY <1>3, <1>7 DEF SentGood
<1>9. flight'.sent = sent
  <2> HIDE DEF sent
  <2>. QED BY <1>2
<1>10. new \in Seq(Event) /\ \A i \in 1 .. Len(new) : new[i] = told BY <1>6
<1> HIDE DEF new
<1>12. Adds(owner, new)
  <2>1. \A k \in flight'.sent : SentGood(owner, k) BY <1>1, <1>8, <1>9 DEF OwnedBy
  <2>2. \A k \in flight.sent : \E l \in flight'.sent : l.id = k.id BY <1>7, <1>9
  <2>3. \A i \in 1 .. Len(new) : EventGood(owner, new[i]) /\ new[i].type # "accepted"
    BY <1>5, <1>10
  <2>4. \A i \in 1 .. Len(new) : \E k \in flight'.sent : k.id = new[i].message.id
    BY <1>4, <1>5, <1>7, <1>9, <1>10, <1>3
  <2>. QED BY <1>2, <2>1, <2>2, <2>3, <2>4 DEF Adds
<1>. QED BY <1>1, <1>10, <1>12, AddsKeeps

LEMMA ConfirmKeeps ==
  ASSUME Shapes, Numbers, Marks, NEW m \in flight.sent, Confirm(m)
  PROVE  Marks'
<1> DEFINE row == Message(m, "sent")
           told == ReplacedEvent(m.id, row)
           yes == AnswerEvent("accepted", m)
           first == IF protocol = "discord" THEN <<yes>> ELSE <<>>
           new == first \o <<told>>
           sent == flight.sent \ {m}
           left == {k \in flight.resend : k.id # m.id}
<1>1. PICK owner \in Owners : OwnedBy(owner) BY DEF Marks, Owned
<1>2. /\ UNCHANGED <<protocol, core, calls>> /\ answers' = answers \o new
      /\ flight' = [flight EXCEPT !.sent = sent, !.resend = left]
  BY DEF Confirm, Emit
<1>3. /\ m.request \in Request /\ m.chat \in Chat /\ m.text \in Text /\ m.id \in Id
      /\ SentGood(owner, m) /\ m.chat = owner[m.request] /\ m.request < core.next
      /\ m.chat = owner[m.id[1]] /\ m.id[1] < core.next /\ m.id # <<m.request, "sent">>
  BY <1>1, FlightFits
<1>4. row \in Row /\ row.delivery = "sent" BY <1>3, MessageParts
<1>5. EventGood(owner, told) BY <1>3, ReplacedFits
<1>6. told.message = row /\ told.type = "replaced" /\ Drops(told, m.id) /\ EndsRow(told, m.id)
  BY ReplacedParts
<1>7. EventGood(owner, yes) /\ yes.type = "accepted" /\ yes.request = m.request /\ ~Brings(yes)
  BY <1>3, AnswerFits
<1>8. told \in Event /\ yes \in Event BY <1>3, <1>4, EventsAreTyped
<1> HIDE DEF row, told, yes
<1>9. flight'.sent = sent
  <2> HIDE DEF sent, left
  <2>. QED BY <1>2
<1>10. /\ new \in Seq(Event) /\ Len(new) \in 1 .. Len(new) /\ new[Len(new)] = told
       /\ \A i \in 1 .. Len(new) :
             \/ new[i] = told
             \/ new[i] = yes /\ protocol = "discord" /\ i < Len(new) /\ new[i + 1] = told
  <2>1. CASE protocol = "discord"
    <3>3. first = <<yes>> BY <2>1
    <3> DEFINE last == <<told>>
    <3>1. /\ first \in Seq(Event) /\ Len(first) = 1 /\ first[1] = yes
          /\ last \in Seq(Event) /\ Len(last) = 1 /\ last[1] = told
      BY <1>8, <3>3
    <3> HIDE DEF first, last
    <3>2. new = first \o last BY DEF last
    <3> HIDE DEF new
    <3>4. /\ new \in Seq(Event) /\ Len(new) = 2 /\ new[1] = yes /\ new[2] = told
      BY <3>1, <3>2, Joined
    <3>. QED BY <2>1, <3>4
  <2>2. CASE protocol # "discord"
    <3>1. new = <<told>> BY <2>2
    <3> HIDE DEF new
    <3>. QED BY <1>8, <3>1
  <2>. QED BY <2>1, <2>2
<1> HIDE DEF new
<1>11. Adds(owner, new)
  <2>1. \A k \in flight'.sent :
           /\ SentGood(owner, k)
           /\ protocol = "discord" =>
                 \A q \in Unanswered(core) : k.request = q.request /\ q.row # NoRow => k.id = q.row
    BY <1>1, <1>9 DEF OwnedBy, Marks, Links
  <2>2. \A k \in flight.sent : \/ \E l \in flight'.sent : l.id = k.id
                               \/ \E j \in 1 .. Len(new) : EndsRow(new[j], k.id)
    BY <1>6, <1>9, <1>10
  <2>3. \A i \in 1 .. Len(new) : EventGood(owner, new[i]) BY <1>5, <1>7, <1>10
  <2>4. \A i \in 1 .. Len(new) : ~(Brings(new[i]) /\ new[i].message.delivery = "pending")
    BY <1>4, <1>6, <1>7, <1>10
  <2>5. ASSUME NEW i \in 1 .. Len(new), NEW q \in Unanswered(core),
               new[i].type = "accepted", q.request = new[i].request, q.row # NoRow
        PROVE  protocol = "discord" /\ i < Len(new) /\ Drops(new[i + 1], q.row)
    <3>1. /\ new[i] = yes /\ protocol = "discord" /\ i < Len(new) /\ new[i + 1] = told
          /\ q.request = m.request
      BY <1>6, <1>7, <1>10, <2>5
    <3>2. m.id = q.row BY <2>5, <3>1 DEF Marks, Links
    <3>. QED BY <1>6, <3>1, <3>2
  <2>. QED BY <1>2, <2>1, <2>2, <2>3, <2>4, <2>5 DEF Adds
<1>. QED BY <1>1, <1>10, <1>11, AddsKeeps

LEMMA FailMessageKeeps ==
  ASSUME Shapes, Numbers, Marks, NEW m \in flight.sent, FailMessage(m)
  PROVE  Marks'
<1> DEFINE row == Message(m, "failed")
           told == ReplacedEvent(m.id, row)
           failed == FailedEvent(m.chat, m.id)
           no == AnswerEvent("rejected", m)
           new == IF protocol = "discord" THEN <<failed, no>> ELSE <<told>>
           sent == flight.sent \ {m}
           resend == flight.resend \cup {Kept(m, <<m.request, "failed">>)}
<1>1. PICK owner \in Owners : OwnedBy(owner) BY DEF Marks, Owned
<1>2. /\ UNCHANGED <<protocol, core, calls>>
      /\ answers' = answers \o new
      /\ flight' = [flight EXCEPT !.sent = sent] \/ flight' = [flight EXCEPT !.sent = sent, !.resend = resend]
  BY DEF FailMessage, Emit
<1>3. /\ m.request \in Request /\ m.chat \in Chat /\ m.text \in Text /\ m.id \in Id
      /\ SentGood(owner, m) /\ m.chat = owner[m.request] /\ m.request < core.next
      /\ m.chat = owner[m.id[1]] /\ m.id[1] < core.next /\ m.id[2] # "sent"
      /\ m.id # <<m.request, "failed">>
  BY <1>1, FlightFits
<1>4. row \in Row /\ row.delivery = "failed" BY <1>3, MessageParts
<1>5. EventGood(owner, told) BY <1>3, ReplacedFits
<1>6. told.message = row /\ told.type = "replaced" /\ EndsRow(told, m.id)
  BY ReplacedParts
<1>13. EventGood(owner, failed) BY <1>3, FailedFits
<1>7. EventGood(owner, failed) /\ failed.type = "failed" /\ EndsRow(failed, m.id) /\ ~Brings(failed)
  BY <1>13, FailedParts
<1>8. EventGood(owner, no) /\ no.type = "rejected" /\ ~Brings(no) BY <1>3, AnswerFits
<1>9. told \in Event /\ failed \in Event /\ no \in Event BY <1>3, <1>4, EventsAreTyped
<1> HIDE DEF row, told, failed, no
<1>10. flight'.sent = sent
  <2> HIDE DEF sent, resend
  <2>. QED BY <1>2 DEF Shapes
<1>11. /\ new \in Seq(Event) /\ 1 \in 1 .. Len(new) /\ new[1] \in {told, failed}
       /\ \A i \in 1 .. Len(new) : new[i] \in {told, failed, no}
  <2>1. CASE protocol = "discord"
    <3>1. new = <<failed, no>> BY <2>1
    <3> HIDE DEF new
    <3>. QED BY <1>9, <3>1
  <2>2. CASE protocol # "discord"
    <3>1. new = <<told>> BY <2>2
    <3> HIDE DEF new
    <3>. QED BY <1>9, <3>1
  <2>. QED BY <2>1, <2>2
<1> HIDE DEF new
<1>12. Adds(owner, new)
  <2>1. \A k \in flight'.sent :
           /\ SentGood(owner, k)
           /\ protocol = "discord" =>
                 \A q \in Unanswered(core) : k.request = q.request /\ q.row # NoRow => k.id = q.row
    BY <1>1, <1>10 DEF OwnedBy, Marks, Links
  <2>2. \A k \in flight.sent : \/ \E l \in flight'.sent : l.id = k.id
                               \/ \E j \in 1 .. Len(new) : EndsRow(new[j], k.id)
    BY <1>6, <1>7, <1>10, <1>11
  <2>3. \A i \in 1 .. Len(new) : EventGood(owner, new[i]) /\ new[i].type # "accepted"
    BY <1>5, <1>6, <1>7, <1>8, <1>11
  <2>4. \A i \in 1 .. Len(new) : ~(Brings(new[i]) /\ new[i].message.delivery = "pending")
    BY <1>4, <1>6, <1>7, <1>8, <1>11
  <2>. QED BY <1>2, <2>1, <2>2, <2>3, <2>4 DEF Adds
<1>. QED BY <1>1, <1>11, <1>12, AddsKeeps

LEMMA EndKeeps ==
  ASSUME Shapes, Numbers, Marks, End
  PROVE  Marks'
<1> DEFINE new == <<EndedEvent>>
<1>1. PICK owner \in Owners : OwnedBy(owner) BY DEF Marks, Owned
<1>2. /\ UNCHANGED <<protocol, core>> /\ answers' = answers \o new
      /\ flight'.sent = {}
      /\ calls' = <<>> \/ calls' = calls
  BY DEF End, Emit
<1>3. EndedEvent \in Event BY EventsAreTyped
<1>4. EndedEvent.type = "ended" BY DEF EndedEvent
<1>5. new \in Seq(Event) /\ 1 \in 1 .. Len(new) /\ \A i \in 1 .. Len(new) : new[i] = EndedEvent
  BY <1>3
<1> HIDE DEF new
<1>6. \A i \in 1 .. Len(calls') : \E j \in 1 .. Len(calls) : calls'[i] = calls[j]
  <2>1. CASE calls' = calls BY <2>1
  <2>2. CASE calls' = <<>>
    <3>1. 1 .. Len(calls') = {} BY <2>2
    <3>. QED BY <3>1
  <2>. QED BY <1>2, <2>1, <2>2
<1>7. Adds(owner, new)
  <2>1. \A i \in 1 .. Len(new) : /\ EventGood(owner, new[i]) /\ new[i].type # "accepted"
                                 /\ ~Brings(new[i]) /\ \A id : EndsRow(new[i], id)
    BY <1>4, <1>5 DEF EventGood, Brings, EndsRow
  <2>2. \A m \in flight.sent : \E j \in 1 .. Len(new) : EndsRow(new[j], m.id)
    BY <1>5, <2>1
  <2>3. \A m \in flight'.sent : FALSE BY <1>2
  <2>. QED BY <1>2, <1>6, <2>1, <2>2, <2>3 DEF Adds
<1>. QED BY <1>1, <1>5, <1>7, AddsKeeps

-----------------------------------------------------------------------------
(* Rows of one id are of one chat, and their marks.                        *)
LEMMA RowsAreTyped ==
  ASSUME Shapes, NEW m \in core.rows
  PROVE  m \in Row /\ m.chat \in Chat /\ m.id \in Id /\ m.id # NoRow
         /\ m.delivery \in {"pending", "sent", "failed"}
<1>1. m \in Row BY DEF Shapes, Snapshot
<1>. QED BY <1>1, SendRows, RowIsTyped

LEMMA RowOfChat ==
  ASSUME NEW owner, OwnedBy(owner), NEW m \in core.rows, NEW c, NEW id,
         m.id = id, c = owner[id[1]]
  PROVE  m \in RowOf(core, c, id) /\ m.chat = c
BY DEF OwnedBy, RowGood, RowOf

LEMMA MarkedRows ==
  ASSUME OneRow, Shapes, NEW t, NEW c, NEW id, NEW d \in {"pending", "sent", "failed"},
         Marked(core, t, c, id, d)
  PROVE  /\ \A n \in t.rows : \/ n \in core.rows
                              \/ /\ n.id = id /\ n.chat = c /\ n.delivery = d
                                 /\ id \in Id /\ RowOf(core, c, id) # {}
         /\ \A n \in t.rows : n.id = id /\ n.chat = c => n.delivery = d
         /\ \A n, k \in t.rows : n.id = k.id => n = k
         /\ \A b, j : RowOf(core, b, j) = {} => RowOf(t, b, j) = {}
<1>1. CASE RowOf(core, c, id) = {}
  <2>1. t.rows = core.rows BY <1>1 DEF Marked
  <2>. QED BY <1>1, <2>1 DEF OneRow, RowOf
<1>2. CASE RowOf(core, c, id) # {}
  <2>1. PICK m \in RowOf(core, c, id) :
           t.rows = (core.rows \ {m}) \cup {[m EXCEPT !.delivery = d]}
    BY <1>2 DEF Marked
  <2>2. m \in core.rows /\ m.chat = c /\ m.id = id BY DEF RowOf
  <2>3. m \in Row /\ id \in Id BY <2>2, RowsAreTyped
  <2> DEFINE n == [m EXCEPT !.delivery = d]
  <2>4. n.id = id /\ n.chat = c /\ n.delivery = d BY <2>2, <2>3 DEF Row
  <2>5. t.rows = (core.rows \ {m}) \cup {n} BY <2>1
  <2> HIDE DEF n
  <2>6. \A k \in core.rows : k.id = id => k = m BY <2>2 DEF OneRow
  <2>7. \A k, l \in t.rows : k.id = l.id => k = l BY <2>4, <2>5, <2>6 DEF OneRow
  <2>8. \A b, j : RowOf(core, b, j) = {} => RowOf(t, b, j) = {}
    BY <2>2, <2>4, <2>5 DEF RowOf
  <2>9. \A k \in t.rows : k.id = id => k = n BY <2>4, <2>5, <2>6
  <2>. QED BY <1>2, <2>3, <2>4, <2>5, <2>7, <2>8, <2>9
<1>. QED BY <1>1, <1>2

-----------------------------------------------------------------------------
(* A timeout, and a new send or retry.                                     *)
LEMMA ExpireSendKeeps ==
  ASSUME Shapes, Numbers, Marks, NEW p \in core.open, ExpireSend(p)
  PROVE  Marks'
<1>1. core \in Snapshot /\ core' = Expire(core, p) /\ UNCHANGED <<protocol, calls, flight, answers>>
  BY DEF ExpireSend, Shapes
<1>2. /\ core' \in Snapshot /\ Frame(core, core', Answered \cup {"late"})
      /\ core'.open = core.open \ {p} /\ core'.expired = core.expired \cup {p}
      /\ Marked(core, core', p.chat, p.row, "failed")
  BY <1>1, ExpireSets
<1>3. core'.next = core.next BY <1>2 DEF Frame, Field, Answered, Seen, Texts
<1>4. Unanswered(core') = Unanswered(core) /\ p \in Unanswered(core)
  BY <1>2 DEF Unanswered
<1>5. PICK owner \in Owners : OwnedBy(owner) BY DEF Marks, Owned
<1>6. AskGood(owner, p) BY <1>4, <1>5 DEF OwnedBy
<1>7. /\ \A n \in core'.rows : \/ n \in core.rows
                               \/ /\ n.id = p.row /\ n.chat = p.chat /\ n.delivery = "failed"
                                  /\ p.row \in Id /\ RowOf(core, p.chat, p.row) # {}
      /\ \A n \in core'.rows : n.id = p.row /\ n.chat = p.chat => n.delivery = "failed"
      /\ \A n, k \in core'.rows : n.id = k.id => n = k
      /\ \A b, j : RowOf(core, b, j) = {} => RowOf(core', b, j) = {}
  BY <1>2, MarkedRows DEF Marks
<1>8. \A n \in core'.rows : RowGood(owner, n)
  <2> SUFFICES ASSUME NEW n \in core'.rows, n \notin core.rows PROVE RowGood(owner, n)
    BY <1>5 DEF OwnedBy
  <2>1. /\ n.id = p.row /\ n.chat = p.chat /\ p.row # NoRow
        /\ RowOf(core, p.chat, p.row) # {}
    BY <1>7, SendRows
  <2>2. PICK k \in core.rows : k.id = p.row BY <2>1 DEF RowOf
  <2>3. k.id[1] < core.next BY <1>5 DEF OwnedBy, RowGood
  <2>. QED BY <1>6, <2>1, <2>2, <2>3 DEF AskGood, RowGood
<1>9. Owned'
  <2>1. OwnedBy(owner)' BY <1>1, <1>3, <1>4, <1>5, <1>8, OwnedStays DEF OwnedBy
  <2>. QED BY <2>1 DEF Owned
<1>10. OneRow' /\ Links' BY <1>1, <1>4, <1>7 DEF Marks, OneRow, Links
<1>11. Pairs' BY <1>1, <1>4, <1>7 DEF Marks, Pairs, Drops
<1>12. SentRows'
  <2>1. \A n \in core'.rows : n.delivery = "sent" => n \in core.rows BY <1>7
  <2>. QED BY <1>1, <1>2, <2>1 DEF Marks, SentRows, Drops
<1>13. Brought' BY <1>1 DEF Marks, Brought, Brings, Drops
<1>14. SpinnerEnds'
  <2> SUFFICES ASSUME NEW n \in core'.rows, n.delivery = "pending"
               PROVE  WillMove(n.id)'
    BY DEF SpinnerEnds
  <2>1. n \in core.rows /\ n.id # NoRow BY <1>7, RowsAreTyped
  <2>2. WillMove(n.id) BY <2>1 DEF Marks, SpinnerEnds
  <2>3. p.row # n.id
    <3> SUFFICES ASSUME p.row = n.id PROVE FALSE
      OBVIOUS
    <3>1. p.chat = owner[n.id[1]] BY <1>6, <2>1 DEF AskGood
    <3>2. n.chat = p.chat BY <1>5, <2>1, <3>1, RowOfChat
    <3>. QED BY <1>7, <3>2
  <2>. QED BY <1>1, <1>2, <2>2, <2>3 DEF WillMove
<1>. QED BY <1>9, <1>10, <1>11, <1>12, <1>13, <1>14 DEF Marks

(* The owner of a new request is the chat of its send.                     *)
LEMMA OwnerGrows ==
  ASSUME Shapes, Numbers, Marks, NEW owner \in Owners, OwnedBy(owner),
         NEW c \in Chat, core.next \in Request
  PROVE  \E more \in Owners :
            /\ more[core.next] = c
            /\ \A r \in 0 .. MaxRequest : r < core.next => more[r] = owner[r]
<1> DEFINE more == [owner EXCEPT ![core.next] = c]
<1>1. core.next \in 0 .. MaxRequest /\ core.next \in Nat BY DEF Request
<1>2. \A r \in 0 .. MaxRequest : r < core.next => r # core.next BY <1>1
<1>3. /\ more \in Owners /\ more[core.next] = c
      /\ \A r \in 0 .. MaxRequest : r < core.next => more[r] = owner[r]
  BY <1>1, <1>2 DEF Owners
<1> HIDE DEF more
<1>. QED BY <1>3

(* An old fact of the owners, with a request more.                         *)
LEMMA FactsGrow ==
  ASSUME Shapes, Numbers, Marks, NEW owner, OwnedBy(owner), NEW more,
         \A r \in 0 .. MaxRequest : r < core.next => more[r] = owner[r],
         core'.next = core.next + 1, core.next \in Request, protocol' = protocol
  PROVE  /\ \A m \in core.rows : RowGood(more, m)'
         /\ \A p \in Unanswered(core) : AskGood(more, p)'
         /\ \A i \in 1 .. Len(calls) : AskGood(more, calls[i])
         /\ \A m \in flight.sent : SentGood(more, m)'
         /\ \A i \in 1 .. Len(answers) : EventGood(more, answers[i])
         /\ \A i \in 1 .. Len(answers) : answers[i].type \in {"accepted", "rejected"} =>
               answers[i].request # core.next
<1>0. /\ core.next \in Nat
      /\ \A id \in Id : id[1] < core.next => more[id[1]] = owner[id[1]] /\ id[1] < core'.next
      /\ \A r \in Request : r < core.next => r \in 0 .. MaxRequest /\ more[r] = owner[r] /\ r < core'.next
  BY IdIsTyped DEF Request
<1>1. ASSUME NEW m \in core.rows
      PROVE  RowGood(more, m)'
  BY <1>0, <1>1, RowsAreTyped DEF OwnedBy, RowGood
<1>2. ASSUME NEW p, p.request \in Request, p.row \in Id \cup {NoRow}, p.request < core.next,
             AskGood(owner, p)
      PROVE  AskGood(more, p)
  <2>1. p.chat = more[p.request] BY <1>0, <1>2 DEF AskGood
  <2>2. ASSUME p.row # NoRow
        PROVE  p.chat = more[p.row[1]] /\ p.row[1] < p.request /\ p.row[2] # "sent"
    <3>1. p.row \in Id BY <1>2, <2>2
    <3>2. p.row[1] < core.next BY <1>0, <1>2, <3>1, RetriedIsOlder
    <3>. QED BY <1>0, <1>2, <2>2, <3>1, <3>2 DEF AskGood
  <2>. QED BY <2>1, <2>2 DEF AskGood
<1>3. ASSUME NEW p \in Unanswered(core)
      PROVE  AskGood(more, p)'
  <2>1. p \in Pending BY DEF Shapes, Snapshot, Unanswered
  <2>2. p.request \in Request /\ p.row \in Id \cup {NoRow} /\ p.request < core.next
    BY <2>1, PendingIsTyped DEF Numbers
  <2>3. AskGood(owner, p) BY DEF OwnedBy
  <2>4. AskGood(more, p) BY <1>2, <2>2, <2>3
  <2>. QED BY <2>4
<1>4. ASSUME NEW i \in 1 .. Len(calls)
      PROVE  AskGood(more, calls[i])
  <2>1. calls[i] \in Call BY DEF Shapes
  <2>2. calls[i].request \in Request /\ calls[i].row \in Id \cup {NoRow} /\ calls[i].request < core.next
    BY <2>1 DEF Call, Numbers
  <2>3. AskGood(owner, calls[i]) BY DEF OwnedBy
  <2>. QED BY <1>2, <2>2, <2>3
<1>5. ASSUME NEW m \in flight.sent
      PROVE  SentGood(more, m)'
  <2>1. m.request \in Request /\ m.id \in Id /\ m.request < core.next /\ SentGood(owner, m)
    BY SentIsTyped DEF Numbers, OwnedBy
  <2>2. SentGood(more, m) BY <1>0, <2>1 DEF SentGood
  <2>3. m.id[1] < core'.next BY <1>0, <2>1 DEF SentGood
  <2>. QED BY <2>2, <2>3 DEF SentGood
<1>6. ASSUME NEW i \in 1 .. Len(answers)
      PROVE  /\ EventGood(more, answers[i])
             /\ answers[i].type \in {"accepted", "rejected"} => answers[i].request # core.next
  <2> DEFINE e == answers[i]
  <2>1. e \in Event /\ EventGood(owner, e) BY DEF Shapes, OwnedBy
  <2> HIDE DEF e
  <2>2. Brings(e) => e.message \in Row /\ e.message.id \in Id
    BY <2>1, EventIsTyped, RowIsTyped DEF Brings
  <2>3. /\ e.type = "replaced" => e.old \in Id
        /\ e.type = "failed" => e.id \in Id
        /\ e.type \in {"accepted", "rejected"} => e.request \in Request
    BY <2>1, EventIsTyped
  <2>4. Brings(e) => /\ e.message.chat = more[e.message.id[1]]
                     /\ e.message.id[1] < core.next
                     /\ e.message.delivery = e.message.id[2]
    BY <1>0, <2>1, <2>2 DEF EventGood
  <2>5. e.type = "replaced" => /\ e.message.chat = more[e.old[1]]
                               /\ e.old[1] < core.next
                               /\ e.old # e.message.id
    BY <1>0, <2>1, <2>3 DEF EventGood
  <2>6. e.type = "failed" => /\ e.chat = more[e.id[1]]
                             /\ e.id[1] < core.next
                             /\ e.id[2] # "sent"
    BY <1>0, <2>1, <2>3 DEF EventGood
  <2>7. e.type \in {"accepted", "rejected"} =>
           e.chat = more[e.request] /\ e.request < core.next /\ e.request # core.next
    BY <1>0, <2>1, <2>3 DEF EventGood, Request
  <2>8. EventGood(more, e) BY <2>4, <2>5, <2>6, <2>7 DEF EventGood
  <2>. QED BY <2>7, <2>8 DEF e
<1>. QED BY <1>1, <1>3, <1>4, <1>5, <1>6

LEMMA EventGoodGrows ==
  ASSUME Shapes, NEW more, NEW e \in Event, EventGood(more, e), core.next \in Nat,
         core'.next = core.next + 1
  PROVE  /\ Brings(e) => e.message.id[1] < core'.next
         /\ e.type = "replaced" => e.old[1] < core'.next
         /\ e.type = "failed" => e.id[1] < core'.next
         /\ e.type \in {"accepted", "rejected"} => e.request < core'.next
<1>1. Brings(e) => e.message \in Row /\ e.message.id \in Id
  BY EventIsTyped, RowIsTyped DEF Brings
<1>2. /\ e.type = "replaced" => e.old \in Id
      /\ e.type = "failed" => e.id \in Id
      /\ e.type \in {"accepted", "rejected"} => e.request \in Request
  BY EventIsTyped
<1>3. \A id \in Id : id[1] < core.next => id[1] < core'.next BY IdIsTyped
<1>4. \A r \in Request : r < core.next => r < core'.next BY DEF Request
<1>. QED BY <1>1, <1>2, <1>3, <1>4 DEF EventGood

(* A send, or the retry of a row that failed.                              *)
LEMMA BegunKeeps ==
  ASSUME Shapes, Shapes', Numbers, Marks, NEW p, Begun(p),
         \/ p.row = NoRow /\ core'.rows = core.rows
         \/ \E m \in core.rows : /\ m.delivery = "failed" /\ p.row = m.id /\ p.chat = m.chat
                                 /\ core'.rows = (core.rows \ {m}) \cup {[m EXCEPT !.delivery = "pending"]}
  PROVE  Marks'
<1>1. PICK owner \in Owners : OwnedBy(owner) BY DEF Marks, Owned
<1>2. /\ p.request = core.next /\ core.next \in Request /\ p.chat \in Chat
      /\ core'.open = core.open \cup {p} /\ core'.expired = core.expired
      /\ core'.next = core.next + 1
      /\ UNCHANGED <<protocol, flight, answers>>
  BY DEF Begun
<1>3. PICK more \in Owners :
         /\ more[core.next] = p.chat
         /\ \A r \in 0 .. MaxRequest : r < core.next => more[r] = owner[r]
  BY <1>1, <1>2, OwnerGrows
<1>4. /\ \A m \in core.rows : RowGood(more, m)'
      /\ \A q \in Unanswered(core) : AskGood(more, q)'
      /\ \A i \in 1 .. Len(calls) : AskGood(more, calls[i])
      /\ \A m \in flight.sent : SentGood(more, m)'
      /\ \A i \in 1 .. Len(answers) : EventGood(more, answers[i])
      /\ \A i \in 1 .. Len(answers) : answers[i].type \in {"accepted", "rejected"} =>
            answers[i].request # core.next
  BY <1>1, <1>2, <1>3, FactsGrow
<1>5. core.next \in Nat /\ Unanswered(core') = Unanswered(core) \cup {p}
  BY <1>2 DEF Request, Unanswered
<1>6. /\ \A n \in core'.rows : \/ n \in core.rows
                               \/ n.id = p.row /\ n.chat = p.chat /\ n.delivery = "pending"
      /\ \A n, k \in core'.rows : n.id = k.id => n = k
      /\ \A b, j : RowOf(core, b, j) = {} => RowOf(core', b, j) = {}
      /\ \A n \in core'.rows : n.delivery = "sent" => n \in core.rows /\ n.id # p.row
      /\ p.row # NoRow => \E m \in core.rows : m.delivery = "failed" /\ p.row = m.id /\ p.chat = m.chat
  <2>1. CASE p.row = NoRow /\ core'.rows = core.rows
    <3>1. \A n \in core'.rows : n.id # p.row BY <2>1, RowsAreTyped
    <3>. QED BY <2>1, <3>1 DEF Marks, OneRow, RowOf
  <2>2. ASSUME NEW m \in core.rows, m.delivery = "failed", p.row = m.id, p.chat = m.chat,
               core'.rows = (core.rows \ {m}) \cup {[m EXCEPT !.delivery = "pending"]}
        PROVE  <1>6!1 /\ <1>6!2 /\ <1>6!3 /\ <1>6!4 /\ <1>6!5
    <3>1. m \in RowOf(core, p.chat, p.row) BY <2>2 DEF RowOf
    <3>2. Marked(core, core', p.chat, p.row, "pending") BY <2>2, <3>1 DEF Marked
    <3>3. OneRow BY DEF Marks
    <3>4. /\ \A n \in core'.rows : \/ n \in core.rows
                                   \/ n.id = p.row /\ n.chat = p.chat /\ n.delivery = "pending"
          /\ \A n, k \in core'.rows : n.id = k.id => n = k
          /\ \A b, j : RowOf(core, b, j) = {} => RowOf(core', b, j) = {}
      BY <3>2, <3>3, MarkedRows
    <3>5. \A n \in core'.rows : n.delivery = "sent" => n \in core.rows /\ n.id # p.row
      <4>1. \A n \in core.rows : n.delivery = "sent" => n.id # p.row
        BY <2>2, <3>3 DEF OneRow
      <4>. QED BY <3>4, <4>1
    <3>. QED BY <2>2, <3>4, <3>5
  <2>. QED BY <2>1, <2>2
<1>7. AskGood(more, p)
  <2> SUFFICES ASSUME p.row # NoRow
               PROVE  p.chat = more[p.row[1]] /\ p.row[1] < p.request /\ p.row[2] # "sent"
    BY <1>2, <1>3 DEF AskGood
  <2>1. PICK m \in core.rows : m.delivery = "failed" /\ p.row = m.id /\ p.chat = m.chat
    BY <1>6
  <2>2. RowGood(owner, m) /\ m.id \in Id BY <1>1, RowsAreTyped DEF OwnedBy
  <2>3. m.id[1] \in 0 .. MaxRequest BY <2>2, IdIsTyped
  <2>. QED BY <1>2, <1>3, <2>1, <2>2, <2>3 DEF RowGood
<1>8. PICK text : calls' = Append(calls, NewCall(p, text)) /\ NewCall(p, text) \in Call
  BY DEF Begun
<1> DEFINE call == NewCall(p, text)
<1>9. call.request = p.request /\ call.row = p.row /\ call.chat = p.chat /\ call \in Call
  BY <1>8 DEF NewCall
<1> HIDE DEF call
<1>10. \A i \in 1 .. Len(calls') : \/ i \in 1 .. Len(calls) /\ calls'[i] = calls[i]
                                   \/ calls'[i] = call
  <2>1. calls \in Seq(Call) /\ calls' = Append(calls, call) BY <1>8 DEF Shapes, call
  <2>. QED BY <1>9, <2>1
<1>11. Owned'
  <2>1. \A n \in core'.rows : RowGood(more, n)'
    <3> SUFFICES ASSUME NEW n \in core'.rows, n \notin core.rows PROVE RowGood(more, n)'
      BY <1>4
    <3>1. n.id = p.row /\ n.chat = p.chat /\ n.delivery = "pending" /\ p.row # NoRow
      <4>1. n \in Row BY DEF Shapes, Snapshot
      <4>. QED BY <1>6, <4>1, SendRows, RowIsTyped
    <3>2. PICK m \in core.rows : p.row = m.id BY <1>6, <3>1
    <3>3. m.id[1] < core'.next BY <1>4 DEF RowGood
    <3>. QED BY <1>7, <3>1, <3>2, <3>3 DEF AskGood, RowGood
  <2>2. \A q \in Unanswered(core') : AskGood(more, q)' BY <1>4, <1>5, <1>7
  <2>3. \A i \in 1 .. Len(calls') : AskGood(more, calls[i])'
    <3>1. AskGood(more, call) BY <1>7, <1>9 DEF AskGood
    <3>2. \A i \in 1 .. Len(calls') : AskGood(more, calls'[i]) BY <1>4, <1>10, <3>1
    <3>. QED BY <3>2
  <2>4. \A m \in flight'.sent : SentGood(more, m)' BY <1>2, <1>4
  <2>5. \A i \in 1 .. Len(answers') : EventGood(more, answers[i])'
    <3>1. ASSUME NEW e \in Event, EventGood(more, e)
          PROVE  EventGood(more, e)'
      BY <1>2, <1>5, <3>1, EventGoodGrows DEF EventGood, Brings
    <3>2. \A i \in 1 .. Len(answers) : answers[i] \in Event BY DEF Shapes
    <3>. QED BY <1>2, <1>4, <3>1, <3>2
  <2>6. OwnedBy(more)' BY <2>1, <2>2, <2>3, <2>4, <2>5 DEF OwnedBy
  <2>. QED BY <1>3, <2>6 DEF Owned
<1>12. OneRow' BY <1>6 DEF OneRow
<1>13. Links'
  <2>1. \A q \in Unanswered(core) : q.request # core.next
    <3>1. \A q \in Unanswered(core) : q.request \in Request /\ q.request < core.next
      <4>1. Unanswered(core) \subseteq Pending BY DEF Shapes, Snapshot, Unanswered
      <4>. QED BY <4>1, PendingIsTyped DEF Numbers
    <3>. QED BY <1>5, <3>1
  <2>2. \A i \in 1 .. Len(calls) : calls[i].request # core.next
    <3>1. \A i \in 1 .. Len(calls) : calls[i].request \in Request /\ calls[i].request < core.next
      <4>1. \A i \in 1 .. Len(calls) : calls[i] \in Call BY DEF Shapes
      <4>. QED BY <4>1 DEF Call, Numbers
    <3>. QED BY <1>5, <3>1
  <2>3. \A m \in flight.sent : m.request # core.next
    <3>1. \A m \in flight.sent : m.request \in Request /\ m.request < core.next
      BY SentIsTyped DEF Numbers
    <3>. QED BY <1>5, <3>1
  <2>4. \A i \in 1 .. Len(calls') : \A q \in Unanswered(core') :
           calls'[i].request = q.request => calls'[i].row = q.row
    BY <1>2, <1>5, <1>9, <1>10, <2>1, <2>2 DEF Marks, Links
  <2>5. protocol' = "discord" =>
           \A m \in flight'.sent : \A q \in Unanswered(core') :
               m.request = q.request /\ q.row # NoRow => m.id = q.row
    BY <1>2, <1>5, <2>3 DEF Marks, Links
  <2>. QED BY <2>4, <2>5 DEF Links
<1>14. Pairs'
  <2> SUFFICES ASSUME NEW i \in 1 .. Len(answers), NEW q \in Unanswered(core) \cup {p},
                      answers[i].type = "accepted", q.request = answers[i].request, q.row # NoRow
               PROVE  IF protocol = "discord"
                      THEN i < Len(answers) /\ Drops(answers[i + 1], q.row)
                      ELSE IF i = 1 THEN RowOf(core', q.chat, q.row) = {}
                      ELSE Drops(answers[i - 1], q.row)
    BY ZenonT(60), <1>2, <1>5 DEF Pairs, Drops
  <2>1. q \in Unanswered(core) BY <1>2, <1>4
  <2>2. IF protocol = "discord"
        THEN i < Len(answers) /\ Drops(answers[i + 1], q.row)
        ELSE IF i = 1 THEN RowOf(core, q.chat, q.row) = {}
        ELSE Drops(answers[i - 1], q.row)
    BY <2>1 DEF Marks, Pairs
  <2>. QED BY <1>6, <2>2
<1>15. SentRows' BY <1>2, <1>6 DEF Marks, SentRows, Drops
<1>16. Brought' BY <1>2 DEF Marks, Brought, Brings, Drops
<1>17. SpinnerEnds'
  <2> SUFFICES ASSUME NEW n \in core'.rows, n.delivery = "pending"
               PROVE  WillMove(n.id)'
    BY DEF SpinnerEnds
  <2>1. CASE n \in core.rows BY <1>2, <2>1 DEF Marks, SpinnerEnds, WillMove
  <2>2. CASE n.id = p.row BY <1>2, <2>2 DEF WillMove
  <2>. QED BY <1>6, <2>1, <2>2
<1>. QED BY <1>11, <1>12, <1>13, <1>14, <1>15, <1>16, <1>17 DEF Marks

LEMMA SendComposeKeeps ==
  ASSUME Shapes, Numbers, Marks, SendCompose
  PROVE  Marks'
<1>1. Shapes' /\ core'.rows = core.rows /\ \E p : p.row = NoRow /\ Begun(p)
  BY SendComposeShapes
<1>. QED BY <1>1, BegunKeeps

LEMMA RetrySendKeeps ==
  ASSUME Shapes, Numbers, Marks, NEW m \in core.rows, RetrySend(m)
  PROVE  Marks'
<1>1. /\ Shapes' /\ m.delivery = "failed"
      /\ core'.rows = (core.rows \ {m}) \cup {[m EXCEPT !.delivery = "pending"]}
      /\ \E p : p.row = m.id /\ p.chat = m.chat /\ Begun(p)
  BY RetrySendShapes
<1>. QED BY <1>1, BegunKeeps

-----------------------------------------------------------------------------
(* An event.  What waits behind it stays, one place nearer.                *)
MovesLater(id) == \* what moves the row id on, beside the head of the answers
    \/ \E m \in flight.sent : m.id = id
    \/ \E i \in 1 .. Len(answers) : i # 1 /\ EndsRow(answers[i], id)

LEMMA EventMoves ==
  ASSUME Shapes, ApplyEvent
  PROVE  /\ core' = Apply(core, Head(answers)) /\ UNCHANGED <<protocol, calls, flight>>
         /\ answers # <<>> /\ Head(answers) \in Event /\ Head(answers) = answers[1]
         /\ 1 \in 1 .. Len(answers) /\ Len(answers) \in Nat
         /\ Len(answers') = Len(answers) - 1
         /\ \A i \in 1 .. Len(answers') : i + 1 \in 1 .. Len(answers) /\ answers'[i] = answers[i + 1]
         /\ \A i \in 1 .. Len(answers) : i # 1 => i - 1 \in 1 .. Len(answers') /\ answers'[i - 1] = answers[i]
<1>1. /\ core' = Apply(core, Head(answers)) /\ UNCHANGED <<protocol, calls, flight>>
      /\ answers # <<>> /\ answers' = Tail(answers)
  BY DEF ApplyEvent
<1>2. /\ Head(answers) \in Event /\ Head(answers) = answers[1]
      /\ 1 \in 1 .. Len(answers) /\ Len(answers') = Len(answers) - 1
      /\ \A i \in 1 .. Len(answers') : i + 1 \in 1 .. Len(answers) /\ answers'[i] = answers[i + 1]
  <2>0. answers # <<>> BY <1>1
  <2>1. /\ Head(answers) \in Event /\ Head(answers) = answers[1]
        /\ 1 \in 1 .. Len(answers) /\ Len(Tail(answers)) = Len(answers) - 1
    BY <2>0, HeadIsTyped, Zenon
  <2>2. \A i \in 1 .. Len(Tail(answers)) : i + 1 \in 1 .. Len(answers) /\ Tail(answers)[i] = answers[i + 1]
    BY <2>0, HeadIsTyped, Zenon
  <2> DEFINE t == Tail(answers)
  <2>3. answers' = t /\ Len(t) = Len(answers) - 1
        /\ \A i \in 1 .. Len(t) : i + 1 \in 1 .. Len(answers) /\ t[i] = answers[i + 1]
    BY <1>1, <2>1, <2>2
  <2> HIDE DEF t
  <2>. QED BY <2>1, <2>3
<1>3. Len(answers) \in Nat OBVIOUS
<1>4. ASSUME NEW i \in 1 .. Len(answers), i # 1
      PROVE  i - 1 \in 1 .. Len(answers') /\ answers'[i - 1] = answers[i]
  <2>1. i - 1 \in 1 .. Len(answers') /\ (i - 1) + 1 = i BY <1>2, <1>3, <1>4
  <2>. QED BY <1>2, <2>1
<1>. QED BY <1>1, <1>2, <1>3, <1>4

LEMMA StillMoves ==
  ASSUME Shapes, ApplyEvent, NEW id
  PROVE  /\ MovesLater(id) => WillMove(id)'
         /\ WillMove(id) => \/ \E p \in core.open : p.row = id
                            \/ EndsRow(Head(answers), id)
                            \/ MovesLater(id)
<1>1. ASSUME MovesLater(id)
      PROVE  WillMove(id)'
  <2>1. CASE \E m \in flight.sent : m.id = id BY <2>1, EventMoves DEF WillMove
  <2>2. ASSUME NEW i \in 1 .. Len(answers), i # 1, EndsRow(answers[i], id)
        PROVE  WillMove(id)'
    <3>1. i - 1 \in 1 .. Len(answers') /\ answers'[i - 1] = answers[i]
      BY <2>2, EventMoves
    <3>. QED BY <2>2, <3>1 DEF WillMove, EndsRow, Drops
  <2>. QED BY <1>1, <2>1, <2>2 DEF MovesLater
<1>2. ASSUME WillMove(id)
      PROVE  \/ \E p \in core.open : p.row = id
             \/ EndsRow(Head(answers), id)
             \/ MovesLater(id)
  <2>1. \/ \E p \in core.open : p.row = id
        \/ \E m \in flight.sent : m.id = id
        \/ \E i \in 1 .. Len(answers) : EndsRow(answers[i], id)
    BY <1>2 DEF WillMove, EndsRow, Drops
  <2>2. ASSUME NEW i \in 1 .. Len(answers), EndsRow(answers[i], id)
        PROVE  EndsRow(Head(answers), id) \/ MovesLater(id)
    BY <2>2 DEF MovesLater
  <2>. QED BY <2>1, <2>2 DEF MovesLater
<1>. QED BY <1>1, <1>2

(* What an event does to the rows decides what it does to the invariant.   *)
LEMMA EventKeeps ==
  ASSUME Shapes, Marks, ApplyEvent, NEW owner \in Owners, OwnedBy(owner),
         \A n \in core'.rows : RowGood(owner, n),
         OneRow', SentRows', SpinnerEnds'
  PROVE  Marks'
<1> DEFINE e == Head(answers)
<1>1. /\ core \in Snapshot /\ core' = Apply(core, e) /\ UNCHANGED <<protocol, calls, flight>>
      /\ answers # <<>> /\ e \in Event /\ e = answers[1]
      /\ 1 \in 1 .. Len(answers) /\ Len(answers) \in Nat
      /\ Len(answers') = Len(answers) - 1
      /\ \A i \in 1 .. Len(answers') : i + 1 \in 1 .. Len(answers) /\ answers'[i] = answers[i + 1]
      /\ \A i \in 1 .. Len(answers) : i # 1 => i - 1 \in 1 .. Len(answers') /\ answers'[i - 1] = answers[i]
  BY EventMoves DEF Shapes
<1> HIDE DEF e
<1>2. /\ Frame(core, core', Applied) /\ core'.open \subseteq core.open
      /\ core'.expired \subseteq core.expired /\ RowsApplied(core, core', e)
  BY <1>1, ApplySets
<1>3. core'.next = core.next BY <1>2 DEF Frame, Field, Applied, Answered, Seen, Texts
<1>4. Unanswered(core') \subseteq Unanswered(core) BY <1>2 DEF Unanswered
<1>5. Owned'
  <2>1. \A i \in 1 .. Len(answers') : EventGood(owner, answers'[i]) BY <1>1 DEF OwnedBy
  <2>2. OwnedBy(owner)' BY <1>1, <1>3, <1>4, <2>1, OwnedStays DEF OwnedBy
  <2>. QED BY <2>2 DEF Owned
<1>6. Links' BY <1>1, <1>4 DEF Marks, Links
<1>7. Pairs'
  <2>6. protocol' = protocol BY <1>1
  <2> SUFFICES ASSUME NEW i \in 1 .. Len(answers'), NEW p \in Unanswered(core'),
                      answers'[i].type = "accepted", p.request = answers'[i].request, p.row # NoRow
               PROVE  IF protocol = "discord"
                      THEN i < Len(answers') /\ Drops(answers'[i + 1], p.row)
                      ELSE IF i = 1 THEN RowOf(core', p.chat, p.row) = {}
                      ELSE Drops(answers'[i - 1], p.row)
    BY <2>6 DEF Pairs, Drops
  <2>1. /\ i + 1 \in 1 .. Len(answers) /\ answers'[i] = answers[i + 1] /\ p \in Unanswered(core)
        /\ i \in 1 .. Len(answers) /\ i + 1 # 1 /\ (i + 1) - 1 = i /\ i \in Nat
    BY <1>1, <1>4
  <2>2. IF protocol = "discord"
        THEN i + 1 < Len(answers) /\ Drops(answers[(i + 1) + 1], p.row)
        ELSE Drops(answers[i], p.row)
    BY <2>1 DEF Marks, Pairs
  <2>3. CASE protocol = "discord"
    <3>1. i + 1 \in 1 .. Len(answers') /\ i < Len(answers') BY <1>1, <2>1, <2>2, <2>3
    <3>2. answers'[i + 1] = answers[(i + 1) + 1] BY <1>1, <3>1
    <3>. QED BY <2>2, <2>3, <3>1, <3>2
  <2>4. CASE protocol # "discord" /\ i # 1
    <3>1. answers'[i - 1] = answers[i] BY <1>1, <2>1, <2>4
    <3>. QED BY <2>2, <2>4, <3>1
  <2>5. CASE protocol # "discord" /\ i = 1
    <3>1. e.type = "replaced" /\ e.old = p.row BY <1>1, <2>2, <2>5 DEF Drops
    <3>2. core'.rows = ((core.rows \ RowOf(core, e.message.chat, e.old))
                            \ RowOf(core, e.message.chat, e.message.id)) \cup {e.message}
      BY <1>2, <3>1 DEF RowsApplied
    <3>3. EventGood(owner, e) /\ AskGood(owner, p) BY <1>1, <2>1 DEF OwnedBy
    <3>4. e.message.chat = p.chat /\ e.message.id # p.row
      BY <3>1, <3>3, <2>1 DEF EventGood, AskGood
    <3>5. RowOf(core', p.chat, p.row) = {} BY <3>1, <3>2, <3>4 DEF RowOf
    <3>. QED BY <2>5, <3>5
  <2>. QED BY <2>3, <2>4, <2>5
<1>8. Brought'
  <2> SUFFICES ASSUME NEW i \in 1 .. Len(answers'),
                      Brings(answers'[i]), answers'[i].message.delivery = "pending"
               PROVE  \/ \E m \in flight.sent : m.id = answers'[i].message.id
                      \/ \E j \in i + 1 .. Len(answers') : EndsRow(answers'[j], answers'[i].message.id)
    BY <1>1 DEF Brought
  <2>1. i + 1 \in 1 .. Len(answers) /\ answers'[i] = answers[i + 1] /\ i \in Nat BY <1>1
  <2>2. \/ \E m \in flight.sent : m.id = answers'[i].message.id
        \/ \E j \in (i + 1) + 1 .. Len(answers) : EndsRow(answers[j], answers'[i].message.id)
    BY <2>1 DEF Marks, Brought
  <2>3. ASSUME NEW j \in (i + 1) + 1 .. Len(answers), EndsRow(answers[j], answers'[i].message.id)
        PROVE  \E k \in i + 1 .. Len(answers') : EndsRow(answers'[k], answers'[i].message.id)
    <3>1. j - 1 \in i + 1 .. Len(answers') /\ j \in 1 .. Len(answers) /\ j # 1
      BY <1>1, <2>1, <2>3
    <3>2. answers'[j - 1] = answers[j] BY <1>1, <3>1
    <3>. QED BY <2>3, <3>1, <3>2
  <2>. QED BY <2>2, <2>3
<1>. QED BY <1>5, <1>6, <1>7, <1>8 DEF Marks

(* An event that changes no row, or marks one as failed.                   *)
LEMMA OnlyFails ==
  ASSUME Shapes, Marks, ApplyEvent, NEW owner \in Owners, OwnedBy(owner),
         ~Brings(Head(answers)), core'.open \subseteq core.open,
         \/ core'.rows = core.rows
         \/ \E c, id : /\ Marked(core, core', c, id, "failed")
                       /\ id \in Id => c = owner[id[1]] /\ id[1] < core.next /\ id[2] # "sent",
         \A n \in core.rows : n \in core'.rows /\ n.delivery = "pending" =>
             /\ ~EndsRow(Head(answers), n.id)
             /\ \A p \in core.open : p.row = n.id => p \in core'.open \/ MovesLater(n.id)
  PROVE  Marks'
<1>1. ~ \E id : Drops(Head(answers), id) BY DEF Brings, Drops
<1>2. OneRow BY DEF Marks
<1>3. /\ \A n \in core'.rows : \/ n \in core.rows
                               \/ RowGood(owner, n) /\ n.delivery = "failed"
      /\ \A n, k \in core'.rows : n.id = k.id => n = k
  <2>1. CASE core'.rows = core.rows BY <1>2, <2>1 DEF OneRow
  <2>2. ASSUME NEW c, NEW id, Marked(core, core', c, id, "failed"),
               id \in Id => c = owner[id[1]] /\ id[1] < core.next /\ id[2] # "sent"
        PROVE  <1>3!1 /\ <1>3!2
    <3>1. /\ \A n \in core'.rows : \/ n \in core.rows
                                   \/ /\ n.id = id /\ n.chat = c /\ n.delivery = "failed"
                                      /\ id \in Id /\ RowOf(core, c, id) # {}
          /\ \A n, k \in core'.rows : n.id = k.id => n = k
      BY <1>2, <2>2, MarkedRows
    <3>. QED BY <2>2, <3>1 DEF RowGood
  <2>. QED BY <2>1, <2>2
<1>4. \A n \in core'.rows : RowGood(owner, n) BY <1>3 DEF OwnedBy
<1>5. SentRows'
  <2> SUFFICES ASSUME NEW n \in core'.rows, n.delivery = "sent", n.id[2] # "sent"
               PROVE  FALSE
    BY DEF SentRows
  <2>1. n \in core.rows BY <1>3
  <2>. QED BY <1>1, <2>1 DEF Marks, SentRows
<1>6. SpinnerEnds'
  <2> SUFFICES ASSUME NEW n \in core'.rows, n.delivery = "pending"
               PROVE  WillMove(n.id)'
    BY DEF SpinnerEnds
  <2>1. n \in core.rows BY <1>3
  <2>2. WillMove(n.id) BY <2>1 DEF Marks, SpinnerEnds
  <2>3. \/ \E p \in core.open : p.row = n.id
        \/ MovesLater(n.id)
    BY <2>1, <2>2, StillMoves
  <2>4. ASSUME NEW p \in core.open, p.row = n.id
        PROVE  WillMove(n.id)'
    <3>1. p \in core'.open \/ MovesLater(n.id) BY <2>1, <2>4
    <3>. QED BY <2>4, <3>1, StillMoves DEF WillMove
  <2>. QED BY <2>3, <2>4, StillMoves
<1>7. OneRow' BY <1>3 DEF OneRow
<1>. QED BY <1>4, <1>5, <1>6, <1>7, EventKeeps

(* What every event that is applied leaves and finds.                      *)
LEMMA EventFinds ==
  ASSUME Shapes, ApplyEvent, NEW owner, OwnedBy(owner)
  PROVE  /\ RowsApplied(core, core', Head(answers))
         /\ EventGood(owner, Head(answers)) /\ core'.open \subseteq core.open
         /\ \A id : ~Drops(Head(answers), id) \/ Brings(Head(answers))
<1>1. /\ core \in Snapshot /\ core' = Apply(core, Head(answers)) /\ Head(answers) \in Event
      /\ Head(answers) = answers[1] /\ 1 \in 1 .. Len(answers)
  BY EventMoves DEF Shapes
<1>2. RowsApplied(core, core', Head(answers)) /\ core'.open \subseteq core.open
  BY <1>1, ApplySets
<1>3. EventGood(owner, Head(answers)) BY <1>1 DEF OwnedBy
<1>. QED BY <1>2, <1>3 DEF Drops, Brings

(* A new row, or one in the place of another.                              *)
LEMMA BringKeeps ==
  ASSUME Shapes, Numbers, Marks, ApplyEvent, Brings(Head(answers))
  PROVE  Marks'
<1>1. PICK owner \in Owners : OwnedBy(owner) BY DEF Marks, Owned
<1> DEFINE e == Head(answers)
           m == e.message
<1>2. /\ RowsApplied(core, core', e) /\ EventGood(owner, e) BY <1>1, EventFinds
<1>3. e = answers[1] /\ 1 \in 1 .. Len(answers) BY EventMoves
<1>4. Brings(e) OBVIOUS
<1> HIDE DEF e
<1>5. /\ core'.open = core.open
      /\ core'.rows \subseteq (core.rows \ RowOf(core, m.chat, m.id)) \cup {m}
      /\ e.type = "replaced" => core'.rows \subseteq (core.rows \ RowOf(core, m.chat, e.old)) \cup {m}
  BY <1>2, <1>4 DEF RowsApplied, Brings
<1>6. /\ m.chat = owner[m.id[1]] /\ m.id[1] < core.next /\ m.delivery = m.id[2]
      /\ e.type = "replaced" => m.chat = owner[e.old[1]]
  BY <1>2, <1>4 DEF EventGood
<1> HIDE DEF m
<1>7. RowGood(owner, m) BY <1>6 DEF RowGood
<1>8. \A n \in core'.rows : n = m \/ (n \in core.rows /\ n.id # m.id)
  <2> SUFFICES ASSUME NEW n \in core'.rows, n # m
               PROVE  n \in core.rows /\ n.id # m.id
    OBVIOUS
  <2>1. n \in core.rows /\ n \notin RowOf(core, m.chat, m.id) BY <1>5
  <2>. QED BY <1>1, <1>6, <2>1, RowOfChat
<1>9. ASSUME NEW n \in core'.rows, n # m
      PROVE  ~Drops(e, n.id)
  <2>1. n \in core.rows BY <1>8, <1>9
  <2> SUFFICES ASSUME e.type = "replaced", e.old = n.id
               PROVE  FALSE
    BY DEF Drops
  <2>2. n \notin RowOf(core, m.chat, e.old) BY <1>5, <1>9
  <2>. QED BY <1>1, <1>6, <2>1, <2>2, RowOfChat
<1>10. \A n \in core'.rows : RowGood(owner, n) BY <1>1, <1>7, <1>8 DEF OwnedBy
<1>11. OneRow'
  <2>1. OneRow BY DEF Marks
  <2>. QED BY <1>8, <2>1 DEF OneRow
<1>12. SentRows'
  <2> SUFFICES ASSUME NEW n \in core'.rows, n.delivery = "sent", n.id[2] # "sent"
               PROVE  FALSE
    BY DEF SentRows
  <2>1. n # m BY <1>6
  <2>2. n \in core.rows BY <1>8, <2>1
  <2>3. Drops(e, n.id) BY <2>2 DEF Marks, SentRows, e
  <2>. QED BY <1>9, <2>1, <2>3
<1>13. SpinnerEnds'
  <2> SUFFICES ASSUME NEW n \in core'.rows, n.delivery = "pending"
               PROVE  WillMove(n.id)'
    BY DEF SpinnerEnds
  <2>1. CASE n = m
    <3>1. \/ \E k \in flight.sent : k.id = m.id
          \/ \E j \in 1 + 1 .. Len(answers) : EndsRow(answers[j], m.id)
      BY <1>3, <1>4, <2>1 DEF Marks, Brought, m
    <3>2. ASSUME NEW j \in 1 + 1 .. Len(answers), EndsRow(answers[j], m.id)
          PROVE  MovesLater(m.id)
      <4>1. j \in 1 .. Len(answers) /\ j # 1 OBVIOUS
      <4>. QED BY <3>2, <4>1 DEF MovesLater
    <3>3. MovesLater(m.id) BY <3>1, <3>2 DEF MovesLater
    <3>. QED BY <2>1, <3>3, StillMoves
  <2>2. CASE n # m
    <3>1. n \in core.rows BY <1>8, <2>2
    <3>2. WillMove(n.id) BY <3>1 DEF Marks, SpinnerEnds
    <3>3. \/ \E p \in core.open : p.row = n.id
          \/ EndsRow(e, n.id)
          \/ MovesLater(n.id)
      BY <3>2, StillMoves DEF e
    <3>4. ~EndsRow(e, n.id) BY <1>4, <1>9, <2>2 DEF EndsRow, Brings
    <3>5. CASE \E p \in core.open : p.row = n.id BY <1>5, <3>5 DEF WillMove
    <3>6. CASE MovesLater(n.id) BY <3>6, StillMoves
    <3>. QED BY <3>3, <3>4, <3>5, <3>6
  <2>. QED BY <2>1, <2>2
<1>. QED BY <1>1, <1>10, <1>11, <1>12, <1>13, EventKeeps

LEMMA FailedEventKeeps ==
  ASSUME Shapes, Numbers, Marks, ApplyEvent, Head(answers).type = "failed"
  PROVE  Marks'
<1>1. PICK owner \in Owners : OwnedBy(owner) BY DEF Marks, Owned
<1> DEFINE e == Head(answers)
<1>2. e.type = "failed" /\ RowsApplied(core, core', e) /\ EventGood(owner, e)
  BY <1>1, EventFinds
<1> HIDE DEF e
<1>3. /\ Marked(core, core', e.chat, e.id, "failed") /\ core'.open = core.open
      /\ e.chat = owner[e.id[1]] /\ e.id[1] < core.next /\ e.id[2] # "sent"
      /\ ~Brings(e)
  BY <1>2 DEF RowsApplied, EventGood, Brings
<1>4. ASSUME NEW n \in core.rows, n \in core'.rows, n.delivery = "pending"
      PROVE  ~EndsRow(e, n.id)
  <2> SUFFICES ASSUME e.id = n.id PROVE FALSE
    BY <1>2 DEF EndsRow, Drops
  <2>1. n.chat = e.chat BY <1>1, <1>3, RowOfChat
  <2>2. \A k \in core'.rows : k.id = e.id /\ k.chat = e.chat => k.delivery = "failed"
    BY <1>3, MarkedRows DEF Marks
  <2>. QED BY <1>4, <2>1, <2>2
<1>. QED BY <1>1, <1>3, <1>4, OnlyFails DEF e

LEMMA RejectedKeeps ==
  ASSUME Shapes, Numbers, Marks, ApplyEvent, Head(answers).type = "rejected"
  PROVE  Marks'
<1>1. PICK owner \in Owners : OwnedBy(owner) BY DEF Marks, Owned
<1> DEFINE e == Head(answers)
<1>2. /\ e.type = "rejected" /\ RowsApplied(core, core', e)
      /\ core'.open \subseteq core.open
  BY <1>1, EventFinds
<1> HIDE DEF e
<1>3. RejectRows(core, core', e.chat, e.request) /\ ~Brings(e) /\ \A id : ~EndsRow(e, id)
  BY <1>2 DEF RowsApplied, Brings, EndsRow, Drops
<1>4. CASE core'.open = core.open /\ core'.rows = core.rows
  BY <1>1, <1>3, <1>4, OnlyFails DEF e
<1>5. ASSUME NEW p \in Asked(core.open, e.chat, e.request),
             core'.open = core.open \ Asked(core.open, e.chat, e.request),
             IF p.row = NoRow THEN core'.rows = core.rows
             ELSE Marked(core, core', e.chat, p.row, "failed")
      PROVE  Marks'
  <2>1. p \in core.open /\ p.chat = e.chat /\ p.request = e.request /\ p \in Unanswered(core)
    BY DEF Asked, Unanswered
  <2>2. p \in Pending /\ AskGood(owner, p) BY <1>1, <2>1 DEF Shapes, Snapshot, OwnedBy
  <2>6. p.request \in Request /\ p.request < core.next /\ core.next \in Nat
    BY <2>1, <2>2, PendingIsTyped, NextIsNat DEF Numbers
  <2>3. \A q \in Asked(core.open, e.chat, e.request) : q = p
    BY <2>1 DEF Asked, Numbers
  <2>4. p.row # NoRow => /\ e.chat = owner[p.row[1]] /\ p.row[2] # "sent"
                         /\ p.row \in Id /\ p.row[1] < core.next
    <3> SUFFICES ASSUME p.row # NoRow PROVE <2>4!2
      OBVIOUS
    <3>1. p.row \in Id BY <2>2, PendingIsTyped
    <3>. QED BY <2>1, <2>2, <2>6, <3>1, RetriedIsOlder
  <2>5. ASSUME NEW n \in core.rows, n \in core'.rows, n.delivery = "pending",
               NEW q \in core.open, q.row = n.id
        PROVE  q \in core'.open
    <3> SUFFICES ASSUME q \notin core'.open PROVE FALSE
      OBVIOUS
    <3>1. p.row = n.id /\ p.row # NoRow BY <1>5, <2>3, <2>5, RowsAreTyped
    <3>2. n.chat = e.chat
      <4>1. n.id = p.row /\ e.chat = owner[p.row[1]] BY <2>4, <3>1
      <4>. QED BY <1>1, <4>1, RowOfChat
    <3>3. \A k \in core'.rows : k.id = p.row /\ k.chat = e.chat => k.delivery = "failed"
      BY <1>5, <3>1, MarkedRows DEF Marks
    <3>. QED BY <2>5, <3>1, <3>2, <3>3
  <2>. QED BY <1>1, <1>2, <1>3, <1>5, <2>4, <2>5, OnlyFails DEF e
<1>. QED BY <1>3, <1>4, <1>5 DEF RejectRows

LEMMA EndedKeeps ==
  ASSUME Shapes, Numbers, Marks, ApplyEvent, Head(answers).type = "ended"
  PROVE  Marks'
<1>1. PICK owner \in Owners : OwnedBy(owner) BY DEF Marks, Owned
<1>2. RowsApplied(core, core', Head(answers)) BY <1>1, EventFinds
<1>3. core'.rows = {} BY <1>2 DEF RowsApplied
<1>. QED BY <1>1, <1>3, EventKeeps DEF OneRow, SentRows, SpinnerEnds

(* An accept in time takes away the open send of its row, whose row the    *)
(* event beside it takes away; a late one marks the row as sent.           *)
LEMMA PairAtHead ==
  ASSUME Shapes, Marks, ApplyEvent, Head(answers).type = "accepted",
         NEW p \in Unanswered(core), p.request = Head(answers).request, p.row # NoRow
  PROVE  IF protocol = "discord"
         THEN /\ 2 \in 1 .. Len(answers) /\ Drops(answers[2], p.row)
              /\ answers' # <<>> /\ Head(answers') = answers[2]
         ELSE RowOf(core, p.chat, p.row) = {}
<1>1. Head(answers) = answers[1] /\ 1 \in 1 .. Len(answers) /\ Len(answers) \in Nat
  BY EventMoves
<1>2. IF protocol = "discord"
      THEN 1 < Len(answers) /\ Drops(answers[1 + 1], p.row)
      ELSE RowOf(core, p.chat, p.row) = {}
  BY <1>1 DEF Marks, Pairs
<1>3. CASE protocol = "discord"
  <2>1. 2 \in 1 .. Len(answers) /\ Drops(answers[2], p.row) BY <1>1, <1>2, <1>3
  <2>2. 1 \in 1 .. Len(answers') /\ answers'[1] = answers[2] /\ Len(answers') > 0
    <3>1. 2 - 1 \in 1 .. Len(answers') /\ answers'[2 - 1] = answers[2]
      BY <2>1, EventMoves
    <3>. QED BY <3>1
  <2>3. answers' \in Seq(Event)
    <3>1. answers' = Tail(answers) /\ answers # <<>> BY DEF ApplyEvent
    <3>. QED BY <3>1 DEF Shapes
  <2>4. answers' # <<>> /\ Head(answers') = answers'[1] BY <2>2, <2>3
  <2>. QED BY <1>3, <2>1, <2>2, <2>4
<1>. QED BY <1>2, <1>3

LEMMA AcceptedKeeps ==
  ASSUME Shapes, Numbers, Marks, ApplyEvent, Head(answers).type = "accepted"
  PROVE  Marks'
<1>1. PICK owner \in Owners : OwnedBy(owner) BY DEF Marks, Owned
<1> DEFINE e == Head(answers)
<1>2. /\ e.type = "accepted" /\ RowsApplied(core, core', e)
      /\ core'.open \subseteq core.open
  BY <1>1, EventFinds
<1> HIDE DEF e
<1>3. AcceptRows(core, core', e.chat, e.request) /\ ~Brings(e) /\ \A id : ~EndsRow(e, id)
  BY <1>2 DEF RowsApplied, Brings, EndsRow, Drops
<1>4. CASE core'.open = core.open /\ core'.rows = core.rows
  BY <1>1, <1>3, <1>4, OnlyFails DEF e
<1>5. CASE /\ core'.open = core.open \ Asked(core.open, e.chat, e.request)
           /\ core'.rows = core.rows
  <2>1. ASSUME NEW n \in core.rows, NEW q \in core.open, q.row = n.id, q \notin core'.open
        PROVE  MovesLater(n.id)
    <3>1. q.request = e.request /\ q.row # NoRow /\ q \in Unanswered(core)
      BY <1>5, <2>1, RowsAreTyped DEF Asked, Unanswered
    <3>2. IF protocol = "discord"
          THEN 2 \in 1 .. Len(answers) /\ Drops(answers[2], q.row)
          ELSE RowOf(core, q.chat, q.row) = {}
      BY <1>2, <3>1, PairAtHead DEF e
    <3>3. CASE protocol = "discord" BY <2>1, <3>2, <3>3 DEF MovesLater, EndsRow
    <3>4. CASE protocol # "discord"
      <4>1. AskGood(owner, q) BY <1>1, <3>1 DEF OwnedBy
      <4>2. n.id = q.row /\ q.chat = owner[q.row[1]] BY <2>1, <3>1, <4>1 DEF AskGood
      <4>3. n \in RowOf(core, q.chat, q.row) BY <1>1, <4>2, RowOfChat
      <4>. QED BY <3>2, <3>4, <4>3
    <3>. QED BY <3>3, <3>4
  <2>. QED BY <1>1, <1>2, <1>3, <1>5, <2>1, OnlyFails DEF e
<1>6. ASSUME NEW p \in Asked(core.expired, e.chat, e.request), p.row # NoRow,
             Marked(core, core', e.chat, p.row, "sent"),
             core'.open = {q \in core.open : ~(q.chat = e.chat /\ q.row = p.row)}
      PROVE  Marks'
  <2>1. p \in core.expired /\ p.chat = e.chat /\ p.request = e.request /\ p \in Unanswered(core)
    BY DEF Asked, Unanswered
  <2>2. p \in Pending /\ AskGood(owner, p) BY <1>1, <2>1 DEF Shapes, Snapshot, OwnedBy
  <2>3. e.chat = owner[p.row[1]] /\ p.row[2] # "sent" BY <1>6, <2>1, <2>2 DEF AskGood
  <2>4. /\ \A n \in core'.rows : \/ n \in core.rows
                                 \/ /\ n.id = p.row /\ n.chat = e.chat /\ n.delivery = "sent"
                                    /\ p.row \in Id /\ RowOf(core, e.chat, p.row) # {}
        /\ \A n \in core'.rows : n.id = p.row /\ n.chat = e.chat => n.delivery = "sent"
        /\ \A n, k \in core'.rows : n.id = k.id => n = k
    BY <1>6, MarkedRows DEF Marks
  <2>5. \A n \in core'.rows : RowGood(owner, n)
    <3> SUFFICES ASSUME NEW n \in core'.rows, n \notin core.rows PROVE RowGood(owner, n)
      BY <1>1 DEF OwnedBy
    <3>1. n.id = p.row /\ n.chat = e.chat /\ n.delivery = "sent" /\ RowOf(core, e.chat, p.row) # {}
      BY <2>4
    <3>2. PICK k \in core.rows : k.id = p.row BY <3>1 DEF RowOf
    <3>3. k.id[1] < core.next BY <1>1 DEF OwnedBy, RowGood
    <3>. QED BY <2>3, <3>1, <3>2, <3>3 DEF RowGood
  <2>6. OneRow' BY <2>4 DEF OneRow
  <2>7. SentRows'
    <3> SUFFICES ASSUME NEW n \in core'.rows, n.delivery = "sent", n.id[2] # "sent"
                 PROVE  /\ answers' # <<>> /\ Drops(Head(answers'), n.id)
                        /\ \A q \in core'.open : q.row # n.id
      BY DEF SentRows, Drops
    <3>1. n \notin core.rows
      <4> SUFFICES ASSUME n \in core.rows PROVE FALSE
        OBVIOUS
      <4>1. Drops(e, n.id) BY DEF Marks, SentRows, e
      <4>. QED BY <1>3, <4>1 DEF EndsRow
    <3>2. n.id = p.row /\ n.chat = e.chat /\ RowOf(core, p.chat, p.row) # {}
      BY <2>1, <2>4, <3>1
    <3>3. IF protocol = "discord"
          THEN /\ 2 \in 1 .. Len(answers) /\ Drops(answers[2], p.row)
               /\ answers' # <<>> /\ Head(answers') = answers[2]
          ELSE RowOf(core, p.chat, p.row) = {}
      BY <1>2, <1>6, <2>1, PairAtHead DEF e
    <3>4. answers' # <<>> /\ Drops(Head(answers'), n.id) BY <3>2, <3>3
    <3>5. ASSUME NEW q \in core'.open, q.row = n.id
          PROVE  FALSE
      <4>1. q \in core.open /\ q.row = p.row /\ q \in Unanswered(core)
        BY <1>6, <3>2, <3>5 DEF Unanswered
      <4>2. q.chat = e.chat BY <1>1, <1>6, <2>3, <4>1 DEF OwnedBy, AskGood
      <4>. QED BY <1>6, <3>5, <4>1, <4>2
    <3>. QED BY <3>4, <3>5
  <2>8. SpinnerEnds'
    <3> SUFFICES ASSUME NEW n \in core'.rows, n.delivery = "pending"
                 PROVE  WillMove(n.id)'
      BY DEF SpinnerEnds
    <3>1. n \in core.rows BY <2>4
    <3>2. WillMove(n.id) BY <3>1 DEF Marks, SpinnerEnds
    <3>3. \/ \E q \in core.open : q.row = n.id
          \/ MovesLater(n.id)
      BY <1>3, <3>2, StillMoves DEF e
    <3>4. ASSUME NEW q \in core.open, q.row = n.id
          PROVE  WillMove(n.id)'
      <4>1. q \in core'.open
        <5> SUFFICES ASSUME q.chat = e.chat, q.row = p.row PROVE FALSE
          BY <1>6
        <5>1. n.id = p.row BY <3>4
        <5>2. n.chat = e.chat BY <1>1, <2>3, <3>1, <5>1, RowOfChat
        <5>. QED BY <2>4, <5>1, <5>2
      <4>. QED BY <3>4, <4>1 DEF WillMove
    <3>. QED BY <3>3, <3>4, StillMoves
  <2>. QED BY <1>1, <2>5, <2>6, <2>7, <2>8, EventKeeps
<1>7. CASE LateRows(core, core', e.chat, e.request) BY <1>4, <1>6, <1>7 DEF LateRows
<1>. QED BY <1>3, <1>5, <1>7 DEF AcceptRows

LEMMA ApplyEventKeeps ==
  ASSUME Shapes, Numbers, Marks, ApplyEvent
  PROVE  Marks'
<1>1. Head(answers) \in Event BY EventMoves
<1>2. \/ Brings(Head(answers)) \/ Head(answers).type = "failed"
      \/ Head(answers).type = "accepted" \/ Head(answers).type = "rejected"
      \/ Head(answers).type = "ended"
  BY <1>1, EventIsTyped DEF Brings
<1>. QED BY <1>2, BringKeeps, FailedEventKeeps, AcceptedKeeps, RejectedKeeps, EndedKeeps

LEMMA MarksInit ==
  ASSUME SendsInit
  PROVE  Marks
<1>1. PICK old \in {{}} \cup {{Old(c)} : c \in Chat} :
         /\ core.rows = old /\ core.open = {} /\ core.expired = {} /\ core.next = 1
         /\ flight.sent = {} /\ calls = <<>> /\ answers = <<>>
  BY DEF SendsInit
<1>2. Unanswered(core) = {} /\ Len(calls) = 0 /\ Len(answers) = 0 BY <1>1 DEF Unanswered
<1>3. \A n \in old : /\ n.chat \in Chat /\ n.delivery = "failed"
                     /\ n.id[1] = 0 /\ n.id[2] # "sent"
  BY DEF Old
<1>4. \A n, k \in old : n = k OBVIOUS
<1>5. Owned
  <2>1. CASE old = {}
    <3>1. \A owner : OwnedBy(owner) BY <1>1, <1>2, <2>1 DEF OwnedBy
    <3>2. \E owner : owner \in Owners
      <4>1. [r \in 0 .. MaxRequest |-> Elsewhere] \in Owners BY DEF Owners
      <4>. QED BY <4>1
    <3>. QED BY <3>1, <3>2 DEF Owned
  <2>2. ASSUME NEW n \in old
        PROVE  Owned
    <3> DEFINE owner == [r \in 0 .. MaxRequest |-> n.chat]
    <3>1. owner \in Owners /\ owner[0] = n.chat BY <1>3, SendBound DEF Owners
    <3> HIDE DEF owner
    <3>2. \A k \in core.rows : RowGood(owner, k) BY <1>1, <1>3, <1>4, <3>1 DEF RowGood
    <3>3. OwnedBy(owner) BY <1>1, <1>2, <3>2 DEF OwnedBy
    <3>. QED BY <3>1, <3>3 DEF Owned
  <2>. QED BY <2>1, <2>2
<1>6. OneRow /\ Links /\ Pairs /\ SentRows /\ Brought /\ SpinnerEnds
  BY <1>1, <1>2, <1>3, <1>4 DEF OneRow, Links, Pairs, SentRows, Brought, SpinnerEnds
<1>. QED BY <1>5, <1>6 DEF Marks

LEMMA MarksStep ==
  ASSUME Shapes, Numbers, Marks, [SendsNext]_sendVars
  PROVE  Marks'
<1>1. CASE UserStep
  <2>1. \A text \in Box : Type(text) => Marks' BY QuietSteps, QuietKeeps
  <2>2. \A c \in Chat \cup {Elsewhere} : Select(c) => Marks' BY QuietSteps, QuietKeeps
  <2>. QED BY <1>1, <2>1, <2>2, SendComposeKeeps, RetrySendKeeps DEF UserStep
<1>2. CASE PumpStep
  <2>1. \A i \in 1 .. Len(core.holds) : ExpireHold(core.holds[i]) => Marks'
    BY QuietSteps, QuietKeeps
  <2>2. \A p \in core.expired : PruneExpired(p) => Marks' BY QuietSteps, QuietKeeps
  <2>. QED BY <1>2, <2>1, <2>2, ApplyEventKeeps, ExpireSendKeeps DEF PumpStep
<1>3. CASE AdapterStep
  BY <1>3, TelegramTakesKeeps, DiscordTakesKeeps, RefuseKeeps, EndKeeps, AnnounceKeeps,
     ConfirmKeeps, FailMessageKeeps DEF AdapterStep
<1>4. CASE UNCHANGED sendVars
  <2>1. Quiet BY <1>4 DEF sendVars, Quiet
  <2>. QED BY <2>1, QuietKeeps
<1>. QED BY <1>1, <1>2, <1>3, <1>4 DEF SendsNext

(* Every request and every row is of one chat, a row has one id, what the  *)
(* adapter answers to a retry comes beside the event that takes its row,   *)
(* and a "Sending..." row is brought before what moves it on: the          *)
(* invariant behind the rows.                                              *)
THEOREM MarksInvariance == SendsSpec => [](Shapes /\ Numbers /\ Marks)
<1>1. SendsInit => Shapes /\ Numbers /\ Marks BY ShapesInit, MarksInit
<1>2. Shapes /\ Numbers /\ Marks /\ [SendsNext]_sendVars => (Shapes /\ Numbers /\ Marks)'
  BY ShapesStep, MarksStep
<1>. QED BY <1>1, <1>2, PTL DEF SendsSpec

(* A row is "Sending..." only while an open retry, a message of the server *)
(* or an event on its way will still move it (note_delivery, upsert and    *)
(* the answers to a retry in state.rs; the first part of RowsAreTrue).     *)
THEOREM SpinnersEnd == SendsSpec => []SpinnerEnds
<1>1. Marks => SpinnerEnds BY DEF Marks
<1>. QED BY <1>1, MarksInvariance, PTL

-----------------------------------------------------------------------------
(* What ends a send, and what stays sent.                                  *)
LEMMA SameRowStays ==
  ASSUME Marks, NEW m \in core.rows, m.delivery = "sent", NEW n \in core.rows, n.id = m.id
  PROVE  n.delivery = "sent"
BY DEF Marks, OneRow

LEMMA ApplyKeepsSent ==
  ASSUME Shapes, Numbers, Marks, ApplyEvent
  PROVE  SentStays
<1> SUFFICES ASSUME NEW m \in core.rows, m.delivery = "sent",
                    NEW n \in core'.rows, n.id = m.id, n \notin core.rows
             PROVE  n.delivery = "sent"
  BY SameRowStays DEF SentStays
<1>1. PICK owner \in Owners : OwnedBy(owner) BY DEF Marks, Owned
<1> DEFINE e == Head(answers)
<1>2. RowsApplied(core, core', e) /\ EventGood(owner, e) BY <1>1, EventFinds
<1>3. m.id[2] = "sent" \/ (Drops(e, m.id) /\ \A p \in core.open : p.row # m.id)
  BY DEF Marks, SentRows
<1>11. m.id \in Id /\ OneRow BY RowsAreTyped DEF Marks
<1> HIDE DEF e
<1>4. CASE Brings(e)
  <2>1. n = e.message BY <1>2, <1>4 DEF RowsApplied, Brings
  <2>2. n.delivery = n.id[2] BY <1>2, <1>4, <2>1 DEF EventGood
  <2>3. ~Drops(e, m.id) BY <1>2, <2>1 DEF EventGood, Drops
  <2>. QED BY <1>3, <2>2, <2>3
<1>5. ASSUME NEW c, NEW id, NEW d \in {"pending", "sent", "failed"}, Marked(core, core', c, id, d)
      PROVE  n.delivery = d /\ id = m.id
  BY <1>5, <1>11, MarkedRows
<1>6. CASE e.type = "failed"
  <2>1. e.id = m.id /\ e.id[2] # "sent" BY <1>2, <1>5, <1>6 DEF RowsApplied, EventGood
  <2>. QED BY <1>3, <1>6, <2>1 DEF Drops
<1>7. CASE e.type = "accepted"
  <2>1. LateRows(core, core', e.chat, e.request)
    BY <1>2, <1>7 DEF RowsApplied, AcceptRows
  <2>. QED BY <1>5, <2>1 DEF LateRows
<1>8. CASE e.type = "rejected"
  <2>1. PICK p \in Asked(core.open, e.chat, e.request) :
           p.row # NoRow /\ Marked(core, core', e.chat, p.row, "failed")
    BY <1>2, <1>8 DEF RowsApplied, RejectRows
  <2>2. p.row = m.id BY <1>5, <2>1
  <2>3. p \in core.open /\ AskGood(owner, p) BY <1>1 DEF Asked, OwnedBy, Unanswered
  <2>. QED BY <1>3, <1>8, <2>1, <2>2, <2>3 DEF AskGood, Drops
<1>9. CASE e.type = "ended" BY <1>2, <1>9 DEF RowsApplied
<1>10. Brings(e) \/ e.type \in {"failed", "accepted", "rejected", "ended"}
  BY EventMoves, EventIsTyped DEF Brings, e
<1>. QED BY <1>4, <1>6, <1>7, <1>8, <1>9, <1>10

LEMMA ExpireKeepsSent ==
  ASSUME Shapes, Numbers, Marks, NEW p \in core.open, ExpireSend(p)
  PROVE  SentStays
<1> SUFFICES ASSUME NEW m \in core.rows, m.delivery = "sent",
                    NEW n \in core'.rows, n.id = m.id, n \notin core.rows
             PROVE  FALSE
  BY SameRowStays DEF SentStays
<1>1. PICK owner \in Owners : OwnedBy(owner) BY DEF Marks, Owned
<1>2. core \in Snapshot /\ core' = Expire(core, p) BY DEF ExpireSend, Shapes
<1>3. Marked(core, core', p.chat, p.row, "failed") BY <1>2, ExpireSets
<1>4. p.row = m.id BY <1>3, MarkedRows DEF Marks
<1>5. AskGood(owner, p) /\ p.row # NoRow
  BY <1>1, <1>4, RowsAreTyped DEF OwnedBy, Unanswered
<1>. QED BY <1>4, <1>5 DEF AskGood, Marks, SentRows

LEMMA RetryKeepsSent ==
  ASSUME Shapes, Numbers, Marks, NEW r \in core.rows, RetrySend(r)
  PROVE  SentStays /\ core.open \subseteq core'.open
<1>1. /\ core'.rows = (core.rows \ {r}) \cup {[r EXCEPT !.delivery = "pending"]}
      /\ r.delivery = "failed" /\ \E p : Begun(p)
  BY RetrySendShapes
<1>2. [r EXCEPT !.delivery = "pending"].id = r.id BY DEF Row
<1>3. SentStays
  <2> SUFFICES ASSUME NEW m \in core.rows, m.delivery = "sent",
                      NEW n \in core'.rows, n.id = m.id, n \notin core.rows
               PROVE  FALSE
    BY SameRowStays DEF SentStays
  <2>1. n = [r EXCEPT !.delivery = "pending"]
    <3>1. core'.rows = (core.rows \ {r}) \cup {[r EXCEPT !.delivery = "pending"]}
      BY <1>1
    <3>. QED BY <3>1
  <2>2. r.id = m.id /\ r.delivery = "failed" BY <1>1, <1>2, <2>1
  <2>3. r.delivery = "sent" BY <2>2, SameRowStays
  <2>. QED BY <2>2, <2>3
<1>. QED BY <1>1, <1>3 DEF Begun

LEMMA ApplyEndsOwn ==
  ASSUME Shapes, ApplyEvent, NEW p \in core.open \ core'.open
  PROVE  OwnAnswerEnds(p)
<1> DEFINE e == Head(answers)
<1>1. core \in Snapshot /\ core' = Apply(core, e) /\ e \in Event
  BY EventMoves DEF Shapes
<1>2. answers' # answers
  <2>1. answers # <<>> /\ answers' = Tail(answers) BY DEF ApplyEvent
  <2>2. Tail(answers) # answers BY <2>1, HeadIsTyped, Zenon
  <2>. QED BY <2>1, <2>2
<1>3. Leaves(core, e, p) BY <1>1, ApplySets
<1>4. CASE e.type = "ended"
  <2>1. core' = EndSession(core) BY <1>1, <1>4 DEF Apply
  <2>2. ~core'.linked BY <1>1, <2>1, EndSessionSets
  <2>. QED BY <2>2 DEF OwnAnswerEnds
<1>. QED BY <1>2, <1>3, <1>4 DEF Leaves, OwnAnswerEnds

LEMMA StepEndsTrue ==
  ASSUME Shapes, Numbers, Marks, [SendsNext]_sendVars
  PROVE  SentStays /\ \A p \in core.open \ core'.open : OwnAnswerEnds(p)
<1>1. ASSUME core'.rows = core.rows, core.open \subseteq core'.open
      PROVE  SentStays /\ \A p \in core.open \ core'.open : OwnAnswerEnds(p)
  BY <1>1, SameRowStays DEF SentStays
<1>2. CASE Quiet \/ core' = core BY <1>1, <1>2 DEF Quiet
<1>3. CASE UserStep
  <2>1. CASE SendCompose
    <3>1. core'.rows = core.rows /\ \E p : Begun(p) BY <2>1, SendComposeShapes
    <3>. QED BY <1>1, <3>1 DEF Begun
  <2>2. ASSUME NEW m \in core.rows, RetrySend(m)
        PROVE  SentStays /\ \A p \in core.open \ core'.open : OwnAnswerEnds(p)
    BY <2>2, RetryKeepsSent
  <2>3. CASE (\E text \in Box : Type(text)) \/ (\E c \in Chat \cup {Elsewhere} : Select(c))
    BY <1>2, <2>3, QuietSteps
  <2>. QED BY <1>3, <2>1, <2>2, <2>3 DEF UserStep
<1>4. CASE PumpStep
  <2>1. CASE ApplyEvent BY <2>1, ApplyKeepsSent, ApplyEndsOwn
  <2>2. ASSUME NEW q \in core.open, ExpireSend(q)
        PROVE  SentStays /\ \A p \in core.open \ core'.open : OwnAnswerEnds(p)
    <3>1. SentStays BY <2>2, ExpireKeepsSent
    <3>2. core'.open = core.open \ {q} /\ core'.expired = core.expired \cup {q}
      <4>1. core \in Snapshot /\ core' = Expire(core, q) BY <2>2 DEF ExpireSend, Shapes
      <4>. QED BY <4>1, ExpireSets
    <3>. QED BY <3>1, <3>2 DEF OwnAnswerEnds
  <2>3. CASE \/ \E i \in 1 .. Len(core.holds) : ExpireHold(core.holds[i])
             \/ \E p \in core.expired : PruneExpired(p)
    BY <1>2, <2>3, QuietSteps
  <2>. QED BY <1>4, <2>1, <2>2, <2>3 DEF PumpStep
<1>5. CASE AdapterStep
  <2>2. ASSUME TelegramTakes \/ DiscordTakes \/ Refuse \/ End
        PROVE  core' = core
    <3>1. CASE TelegramTakes BY <3>1 DEF TelegramTakes, Take
    <3>2. CASE DiscordTakes BY <3>2 DEF DiscordTakes, Take
    <3>3. CASE Refuse BY <3>3 DEF Refuse, Take
    <3>4. CASE End BY <3>4 DEF End
    <3>. QED BY <2>2, <3>1, <3>2, <3>3, <3>4
  <2>3. ASSUME NEW m \in flight.sent, Announce(m) \/ Confirm(m) \/ FailMessage(m)
        PROVE  core' = core
    <3>1. CASE Announce(m) BY <3>1 DEF Announce
    <3>2. CASE Confirm(m) BY <3>2 DEF Confirm
    <3>3. CASE FailMessage(m) BY <3>3 DEF FailMessage
    <3>. QED BY <2>3, <3>1, <3>2, <3>3
  <2>1. core' = core BY <1>5, <2>2, <2>3 DEF AdapterStep
  <2>. QED BY <1>2, <2>1
<1>6. CASE UNCHANGED sendVars BY <1>2, <1>6 DEF sendVars
<1>. QED BY <1>3, <1>4, <1>5, <1>6 DEF SendsNext

(* A send or retry is open until its own answer, its timeout, a late       *)
(* accept that sent its row, or the end of the session; and a row that was *)
(* sent does not fail, whatever is retried, expires or is answered late    *)
(* (finish, expire and accept_late of sends.rs with the rows of state.rs). *)
THEOREM SendsEndTruly == SendsSpec => SendsEndTrue
<1>1. Shapes /\ Numbers /\ Marks /\ [SendsNext]_sendVars
         => [SentStays /\ \A p \in core.open \ core'.open : OwnAnswerEnds(p)]_sendVars
  BY StepEndsTrue
<1>. QED BY <1>1, MarksInvariance, PTL DEF SendsSpec, SendsEndTrue

-----------------------------------------------------------------------------
(* The error of the timeouts.  A request is a command, then a message of   *)
(* the server, then it is refused or its row is sent.                      *)
IsCall(r) == \E i \in 1 .. Len(calls) : calls[i].request = r
AtServer(r) == \E m \in flight.sent : m.request = r
Told(type, r) == \E i \in 1 .. Len(answers) : answers[i].type = type /\ answers[i].request = r
HasSentRow(r) == \E m \in core.rows : m.id = <<r, "sent">>
BringsSent(e, r) == Brings(e) /\ e.message.id = <<r, "sent">>
WillBeSent(r) == HasSentRow(r) \/ \E i \in 1 .. Len(answers) : BringsSent(answers[i], r)
Over(r) == ~IsCall(r) /\ ~AtServer(r) /\ ~WillBeSent(r)

OneEach ==
    /\ \A i, j \in 1 .. Len(calls) : calls[i].request = calls[j].request => i = j
    /\ \A m, n \in flight.sent : m.request = n.request => m = n
OneStage ==
    \A r \in Request :
        /\ IsCall(r) => ~AtServer(r)
        /\ IsCall(r) \/ AtServer(r) => ~WillBeSent(r)
        /\ Told("rejected", r) => Over(r)

(* While a send waits for its answer, the accept comes before the row.     *)
AcceptFirst ==
    \A p \in Unanswered(core) :
        /\ ~HasSentRow(p.request)
        /\ \A i \in 1 .. Len(answers) : BringsSent(answers[i], p.request) =>
              \E j \in 1 .. i - 1 : answers[j].type = "accepted" /\ answers[j].request = p.request
        /\ protocol = "telegram" /\ AtServer(p.request) => Told("accepted", p.request)

(* What timed out was forgotten, may still be answered, or was refused.    *)
TimedOutKnown ==
    \A e \in core.timedOut :
        /\ e.request < core.next
        /\ \/ e.request \in core.forgotten
           \/ \E p \in core.expired : p.request = e.request /\ p.chat = e.chat
           \/ Over(e.request)

Apart == core.open \cap core.expired = {}

Timeouts == OneEach /\ Apart /\ OneStage /\ AcceptFirst /\ TimedOutKnown

LEMMA PendingHasRequest ==
  ASSUME Shapes
  PROVE  /\ \A p \in Unanswered(core) : p.request \in Request /\ p.chat \in Chat
         /\ \A e \in core.timedOut : e.request \in Request /\ e.chat \in Chat
BY DEF Shapes, Snapshot, Unanswered, Pending

LEMMA TimeoutsAreTrue ==
  ASSUME Shapes, Timeouts
  PROVE  NoFalseTimeout
<1> SUFFICES ASSUME NEW e \in core.timedOut, NEW m \in core.rows, m.id = <<e.request, "sent">>,
                    e.request \notin core.forgotten
             PROVE  FALSE
  BY DEF NoFalseTimeout
<1>1. HasSentRow(e.request) BY DEF HasSentRow
<1>2. CASE \E p \in core.expired : p.request = e.request
  <2>1. PICK p \in core.expired : p.request = e.request BY <1>2
  <2>2. p \in Unanswered(core) BY DEF Unanswered
  <2>. QED BY <1>1, <2>1, <2>2 DEF Timeouts, AcceptFirst
<1>3. CASE Over(e.request) BY <1>1, <1>3 DEF Over, WillBeSent
<1>. QED BY <1>2, <1>3 DEF Timeouts, TimedOutKnown

(* Steps of the shell that bring no sent row.                              *)
Waiting(e) ==
    \/ /\ e \in core.timedOut
       /\ \A p \in core.expired : p.request = e.request =>
             p \in core'.expired \/ p.request \in core'.forgotten
    \/ /\ e.request < core.next
       /\ \E p \in core'.expired : p.request = e.request /\ p.chat = e.chat

LEMMA TimeoutsStay ==
  ASSUME Timeouts, UNCHANGED <<protocol, calls, flight, answers>>,
         Unanswered(core') \subseteq Unanswered(core), core'.open \cap core'.expired = {},
         core'.next = core.next, core.forgotten \subseteq core'.forgotten,
         \A m \in core'.rows : \E n \in core.rows : n.id = m.id,
         \A e \in core'.timedOut : Waiting(e)
  PROVE  Timeouts'
<1>1. \A r : HasSentRow(r)' => HasSentRow(r) BY DEF HasSentRow
<1>2. \A r : /\ IsCall(r)' <=> IsCall(r)
             /\ AtServer(r)' <=> AtServer(r)
             /\ Told("rejected", r)' <=> Told("rejected", r)
             /\ Told("accepted", r)' <=> Told("accepted", r)
  BY DEF IsCall, AtServer, Told
<1>3. \A e, r : BringsSent(e, r)' <=> BringsSent(e, r) OBVIOUS
<1>4. \A r : WillBeSent(r)' => WillBeSent(r) BY <1>1 DEF WillBeSent, Brings
<1>5. \A r : Over(r) => Over(r)' BY <1>2, <1>4 DEF Over
<1>6. OneEach' /\ Apart' BY DEF Timeouts, OneEach, Apart
<1>7. OneStage' BY <1>2, <1>4, <1>5 DEF Timeouts, OneStage
<1>8. AcceptFirst' BY <1>1, <1>2 DEF Timeouts, AcceptFirst, Brings
<1>9. TimedOutKnown'
  <2> SUFFICES ASSUME NEW e \in core'.timedOut
               PROVE  /\ e.request < core'.next
                      /\ \/ e.request \in core'.forgotten
                         \/ \E p \in core'.expired : p.request = e.request /\ p.chat = e.chat
                         \/ Over(e.request)'
    BY DEF TimedOutKnown
  <2>1. CASE /\ e \in core.timedOut
             /\ \A p \in core.expired : p.request = e.request =>
                   p \in core'.expired \/ p.request \in core'.forgotten
    <3>1. /\ e.request < core.next
          /\ \/ e.request \in core.forgotten
             \/ \E p \in core.expired : p.request = e.request /\ p.chat = e.chat
             \/ Over(e.request)
      BY <2>1 DEF Timeouts, TimedOutKnown
    <3>. QED BY <1>5, <2>1, <3>1
  <2>2. Waiting(e) OBVIOUS
  <2>. QED BY <2>1, <2>2 DEF Waiting
<1>. QED BY <1>6, <1>7, <1>8, <1>9 DEF Timeouts

(* The adapter moves a request on, and tells of it.                        *)
Moved(new) ==
    /\ UNCHANGED <<protocol, core>>
    /\ answers' = answers \o new
    /\ \A i \in 1 .. Len(calls') : \E j \in 1 .. Len(calls) : calls'[i] = calls[j]
    /\ \A r \in Request :
          /\ AtServer(r)' => \/ AtServer(r)
                             \/ /\ IsCall(r) /\ ~IsCall(r)'
                                /\ protocol = "telegram" =>
                                      \E i \in 1 .. Len(new) : new[i].type = "accepted" /\ new[i].request = r
          /\ \A i \in 1 .. Len(new) :
                /\ BringsSent(new[i], r) =>
                      /\ AtServer(r) /\ ~AtServer(r)'
                      /\ \/ protocol = "telegram"
                         \/ \E j \in 1 .. i - 1 : new[j].type = "accepted" /\ new[j].request = r
                /\ new[i].type = "rejected" /\ new[i].request = r =>
                      /\ IsCall(r) \/ AtServer(r)
                      /\ ~IsCall(r)' /\ ~AtServer(r)'
                      /\ \A j \in 1 .. Len(new) : ~BringsSent(new[j], r)

LEMMA MovedKeeps ==
  ASSUME Shapes, Timeouts, OneEach', NEW new \in Seq(Event), Moved(new)
  PROVE  Timeouts'
<1> DEFINE N == Len(answers)
<1>0. answers \in Seq(Event) /\ answers' = answers \o new BY DEF Shapes, Moved
<1>1. /\ Len(answers') = N + Len(new) /\ N \in Nat /\ Len(new) \in Nat
      /\ \A i \in 1 .. N : answers'[i] = answers[i] /\ i \in 1 .. Len(answers')
      /\ \A i \in 1 .. Len(answers') : i > N => answers'[i] = new[i - N] /\ i - N \in 1 .. Len(new)
      /\ \A i \in 1 .. Len(new) : answers'[i + N] = new[i] /\ i + N \in 1 .. Len(answers')
  BY <1>0, Added
<1>2. core' = core /\ protocol' = protocol BY DEF Moved
<1>3. \A r : IsCall(r)' => IsCall(r) BY DEF Moved, IsCall
<1>4. \A r, type : Told(type, r)' => \/ Told(type, r)
                                     \/ \E i \in 1 .. Len(new) : new[i].type = type /\ new[i].request = r
  <2> SUFFICES ASSUME NEW r, NEW type, NEW i \in 1 .. Len(answers'),
                      answers'[i].type = type, answers'[i].request = r
               PROVE  \/ Told(type, r)
                      \/ \E k \in 1 .. Len(new) : new[k].type = type /\ new[k].request = r
    BY DEF Told
  <2>1. CASE i <= N
    <3>1. i \in 1 .. N BY <1>1, <2>1
    <3>. QED BY <1>1, <3>1 DEF Told
  <2>2. CASE i > N
    <3>1. i - N \in 1 .. Len(new) /\ answers'[i] = new[i - N] BY <1>1, <2>2
    <3>. QED BY <3>1
  <2>. QED BY <1>1, <2>1, <2>2
<1>5. \A r, type : /\ Told(type, r) => Told(type, r)'
                   /\ (\E i \in 1 .. Len(new) : new[i].type = type /\ new[i].request = r) => Told(type, r)'
  <2>1. ASSUME NEW r, NEW type, Told(type, r)
        PROVE  Told(type, r)'
    <3>1. PICK i \in 1 .. N : answers[i].type = type /\ answers[i].request = r
      BY <2>1 DEF Told
    <3>. QED BY <1>1, <3>1 DEF Told
  <2>2. ASSUME NEW r, NEW type, NEW i \in 1 .. Len(new), new[i].type = type, new[i].request = r
        PROVE  Told(type, r)'
    <3>1. answers'[i + N] = new[i] /\ i + N \in 1 .. Len(answers') BY <1>1
    <3>. QED BY <2>2, <3>1 DEF Told
  <2>. QED BY <2>1, <2>2
<1>6. \A r : WillBeSent(r)' => \/ WillBeSent(r)
                               \/ \E i \in 1 .. Len(new) : BringsSent(new[i], r)
  <2>1. \A r : HasSentRow(r)' => HasSentRow(r) BY <1>2 DEF HasSentRow
  <2>2. ASSUME NEW r, NEW i \in 1 .. Len(answers'), BringsSent(answers'[i], r)
        PROVE  \/ WillBeSent(r)
               \/ \E k \in 1 .. Len(new) : BringsSent(new[k], r)
    <3>1. CASE i <= N
      <4>1. i \in 1 .. N BY <1>1, <3>1
      <4>. QED BY <1>1, <2>2, <4>1 DEF WillBeSent
    <3>2. CASE i > N
      <4>1. i - N \in 1 .. Len(new) /\ answers'[i] = new[i - N] BY <1>1, <3>2
      <4>. QED BY <2>2, <4>1
    <3>. QED BY <1>1, <3>1, <3>2
  <2>3. \A e, r : BringsSent(e, r)' <=> BringsSent(e, r) OBVIOUS
  <2>4. ASSUME NEW r, WillBeSent(r)'
        PROVE  HasSentRow(r)' \/ \E i \in 1 .. Len(answers') : BringsSent(answers'[i], r)
    BY <2>4 DEF WillBeSent, Brings
  <2>5. \A r : HasSentRow(r) => WillBeSent(r) BY DEF WillBeSent
  <2>. QED BY <2>1, <2>2, <2>4, <2>5
<1> HIDE DEF N
<1>7. \A r \in Request : Over(r) => Over(r)' BY <1>3, <1>6 DEF Over, Moved
<1>8. OneStage'
  <2> SUFFICES ASSUME NEW r \in Request
               PROVE  /\ IsCall(r)' => ~AtServer(r)'
                      /\ IsCall(r)' \/ AtServer(r)' => ~WillBeSent(r)'
                      /\ Told("rejected", r)' => Over(r)'
    BY DEF OneStage
  <2>1. /\ IsCall(r) => ~AtServer(r)
        /\ IsCall(r) \/ AtServer(r) => ~WillBeSent(r)
        /\ Told("rejected", r) => Over(r)
    BY DEF Timeouts, OneStage
  <2>2. /\ AtServer(r)' => AtServer(r) \/ (IsCall(r) /\ ~IsCall(r)')
        /\ \A i \in 1 .. Len(new) :
              /\ BringsSent(new[i], r) => AtServer(r) /\ ~AtServer(r)'
              /\ new[i].type = "rejected" /\ new[i].request = r =>
                      /\ IsCall(r) \/ AtServer(r)
                      /\ ~IsCall(r)' /\ ~AtServer(r)'
                      /\ \A j \in 1 .. Len(new) : ~BringsSent(new[j], r)
    BY DEF Moved
  <2>3. IsCall(r)' => ~AtServer(r)' BY <1>3, <2>1, <2>2
  <2>4. IsCall(r)' \/ AtServer(r)' => ~WillBeSent(r)' BY <1>3, <1>6, <2>1, <2>2
  <2>5. ASSUME NEW i \in 1 .. Len(new), new[i].type = "rejected", new[i].request = r
        PROVE  Over(r)'
    BY <1>6, <2>1, <2>2, <2>5 DEF Over
  <2>. QED BY <1>4, <1>7, <2>1, <2>3, <2>4, <2>5
<1>9. AcceptFirst'
  <2> SUFFICES ASSUME NEW p \in Unanswered(core)
               PROVE  /\ ~HasSentRow(p.request)'
                      /\ \A i \in 1 .. Len(answers') : BringsSent(answers'[i], p.request) =>
                            \E j \in 1 .. i - 1 : /\ answers'[j].type = "accepted"
                                                  /\ answers'[j].request = p.request
                      /\ protocol = "telegram" /\ AtServer(p.request)' => Told("accepted", p.request)'
    BY <1>2 DEF AcceptFirst, Brings
  <2>0. p.request \in Request BY PendingHasRequest
  <2>1. /\ ~HasSentRow(p.request)
        /\ \A i \in 1 .. Len(answers) : BringsSent(answers[i], p.request) =>
              \E j \in 1 .. i - 1 : answers[j].type = "accepted" /\ answers[j].request = p.request
        /\ protocol = "telegram" /\ AtServer(p.request) => Told("accepted", p.request)
    BY DEF Timeouts, AcceptFirst
  <2>2. ~HasSentRow(p.request)' BY <1>2, <2>1 DEF HasSentRow
  <2>3. ASSUME NEW i \in 1 .. Len(answers'), BringsSent(answers'[i], p.request)
        PROVE  \E j \in 1 .. i - 1 : answers'[j].type = "accepted" /\ answers'[j].request = p.request
    <3>1. CASE i <= N
      <4>1. i \in 1 .. N /\ answers'[i] = answers[i] BY <1>1, <3>1
      <4>2. PICK j \in 1 .. i - 1 : answers[j].type = "accepted" /\ answers[j].request = p.request
        BY <2>1, <2>3, <4>1 DEF N
      <4>3. j \in 1 .. N BY <1>1, <4>1
      <4>. QED BY <1>1, <4>2, <4>3
    <3>2. CASE i > N
      <4>1. i - N \in 1 .. Len(new) /\ answers'[i] = new[i - N] BY <1>1, <3>2
      <4>2. /\ AtServer(p.request)
            /\ \/ protocol = "telegram"
               \/ \E j \in 1 .. (i - N) - 1 : new[j].type = "accepted" /\ new[j].request = p.request
        BY <2>0, <2>3, <4>1 DEF Moved
      <4>3. CASE protocol = "telegram"
        <5>1. PICK j \in 1 .. N : answers[j].type = "accepted" /\ answers[j].request = p.request
          BY <2>1, <4>2, <4>3 DEF Told, N
        <5>2. j \in 1 .. i - 1 BY <1>1, <3>2
        <5>. QED BY <1>1, <5>1, <5>2
      <4>4. ASSUME NEW j \in 1 .. (i - N) - 1, new[j].type = "accepted", new[j].request = p.request
            PROVE  \E k \in 1 .. i - 1 : answers'[k].type = "accepted" /\ answers'[k].request = p.request
        <5>1. j + N \in 1 .. i - 1 /\ j \in 1 .. Len(new) BY <1>1, <4>1
        <5>. QED BY SMTT(60), <1>1, <4>4, <5>1
      <4>. QED BY <4>2, <4>3, <4>4
    <3>. QED BY <1>1, <3>1, <3>2
  <2>4. ASSUME protocol = "telegram", AtServer(p.request)'
        PROVE  Told("accepted", p.request)'
    BY <1>5, <2>0, <2>1, <2>4 DEF Moved
  <2>. QED BY <2>2, <2>3, <2>4
<1>10. TimedOutKnown'
  <2> SUFFICES ASSUME NEW e \in core.timedOut
               PROVE  /\ e.request < core.next
                      /\ \/ e.request \in core.forgotten
                         \/ \E p \in core.expired : p.request = e.request /\ p.chat = e.chat
                         \/ Over(e.request)'
    BY <1>2 DEF TimedOutKnown
  <2>. QED BY <1>7, PendingHasRequest DEF Timeouts, TimedOutKnown
<1>11. Apart' BY <1>2 DEF Timeouts, Apart
<1>. QED BY <1>8, <1>9, <1>10, <1>11 DEF Timeouts

-----------------------------------------------------------------------------
(* What brings a message of another stage brings no sent row.              *)
LEMMA BringsNoSent ==
  ASSUME NEW m, m.request \in Request, m.chat \in Chat, m.text \in Text,
         NEW stage \in {"pending", "sent", "failed"}, NEW e, NEW r \in Request,
         Brings(e) => e.message = Message(m, stage), BringsSent(e, r)
  PROVE  stage = "sent" /\ r = m.request
<1> DEFINE row == Message(m, stage)
<1>1. row.id = <<m.request, stage>> BY MessageParts
<1>2. e.message = row BY DEF BringsSent
<1> HIDE DEF row
<1>3. <<r, "sent">> = <<m.request, stage>> BY <1>1, <1>2 DEF BringsSent
<1>. QED BY <1>3

LEMMA CallTaken ==
  ASSUME Shapes, Timeouts, calls # <<>>, calls' = Tail(calls), NEW p, p = Head(calls)
  PROVE  /\ p.request \in Request /\ p.chat \in Chat /\ p.text \in Text /\ p.row \in Id \cup {NoRow}
         /\ IsCall(p.request) /\ ~IsCall(p.request)' /\ ~AtServer(p.request)
         /\ \A i, j \in 1 .. Len(calls') : calls'[i].request = calls'[j].request => i = j
         /\ \A i \in 1 .. Len(calls') : \E j \in 1 .. Len(calls) : calls'[i] = calls[j]
<1>1. /\ p.request \in Request /\ p.chat \in Chat /\ p.text \in Text /\ p.row \in Id \cup {NoRow}
      /\ p = calls[1] /\ 1 \in 1 .. Len(calls)
      /\ \A i \in 1 .. Len(calls') : i + 1 \in 1 .. Len(calls) /\ calls'[i] = calls[i + 1]
  BY CallIsTyped
<1>2. \A i, j \in 1 .. Len(calls) : calls[i].request = calls[j].request => i = j
  BY DEF Timeouts, OneEach
<1>3. IsCall(p.request) BY <1>1 DEF IsCall
<1>4. ASSUME IsCall(p.request)'
      PROVE  FALSE
  <2>0. PICK i \in 1 .. Len(calls') : calls'[i].request = p.request BY <1>4 DEF IsCall
  <2>1. i + 1 = 1 BY <1>1, <1>2, <2>0
  <2>. QED BY <2>1
<1>5. ~AtServer(p.request) BY <1>1, <1>3 DEF Timeouts, OneStage
<1>6. ASSUME NEW i \in 1 .. Len(calls'), NEW j \in 1 .. Len(calls'),
             calls'[i].request = calls'[j].request
      PROVE  i = j
  <2>1. i + 1 = j + 1 BY <1>1, <1>2, <1>6
  <2>. QED BY <2>1
<1>. QED BY <1>1, <1>3, <1>4, <1>5, <1>6

LEMMA TelegramTakesMoves ==
  ASSUME Shapes, Timeouts, TelegramTakes
  PROVE  Timeouts'
<1>1. PICK p : p = Head(calls) OBVIOUS
<1> DEFINE row == Message(p, "pending")
           told == IF p.row = NoRow THEN ReceivedEvent(row) ELSE ReplacedEvent(p.row, row)
           yes == AnswerEvent("accepted", p)
           new == <<told, yes>>
           mine == Sent(p, row.id)
           sent == flight.sent \cup {mine}
           left == {m \in flight.resend : m.id # p.row}
<1>2. /\ calls # <<>> /\ calls' = Tail(calls) /\ UNCHANGED <<protocol, core>>
      /\ answers' = answers \o new
      /\ flight' = [flight EXCEPT !.sent = sent, !.resend = left]
  BY <1>1 DEF TelegramTakes, Take, Emit
<1>3. /\ p.request \in Request /\ p.chat \in Chat /\ p.text \in Text /\ p.row \in Id \cup {NoRow}
      /\ IsCall(p.request) /\ ~IsCall(p.request)' /\ ~AtServer(p.request)
      /\ \A i, j \in 1 .. Len(calls') : calls'[i].request = calls'[j].request => i = j
      /\ \A i \in 1 .. Len(calls') : \E j \in 1 .. Len(calls) : calls'[i] = calls[j]
  BY <1>1, <1>2, CallTaken
<1>4. row \in Row /\ row.id \in Id BY <1>3, MessageParts
<1>5. told.message = Message(p, "pending") /\ told.type \in {"received", "replaced"}
  <2>1. CASE p.row = NoRow BY <2>1, ReceivedParts
  <2>2. CASE p.row # NoRow BY <2>2, ReplacedParts
  <2>. QED BY <2>1, <2>2
<1>6. yes.type = "accepted" /\ yes.request = p.request /\ ~Brings(yes)
  BY DEF AnswerEvent, Brings
<1>7. told \in Event /\ yes \in Event
  <2>1. p.row # NoRow => p.row \in Id BY <1>3
  <2>. QED BY <1>3, <1>4, <2>1, EventsAreTyped
<1>8. mine.request = p.request BY DEF Sent
<1>9. flight'.sent = sent
  <2> HIDE DEF sent, left, new
  <2>. QED BY <1>2
<1>14. new \in Seq(Event) /\ Len(new) = 2 /\ new[1] = told /\ new[2] = yes
  <2> HIDE DEF told, yes
  <2>. QED BY <1>7
<1> HIDE DEF row, told, yes, mine, new
<1>10. \A i \in 1 .. Len(new) : (i = 1 /\ new[i] = told) \/ (i = 2 /\ new[i] = yes)
  BY <1>14
<1>11. \A i \in 1 .. Len(new) : \A r \in Request : ~BringsSent(new[i], r)
  <2>1. \A r \in Request : ~BringsSent(told, r) BY <1>3, <1>5, BringsNoSent
  <2>. QED BY <1>6, <1>10, <2>1 DEF BringsSent
<1>12. OneEach' BY <1>3, <1>8, <1>9 DEF Timeouts, OneEach, AtServer
<1>13. Moved(new)
  <2>1. ASSUME NEW r \in Request, AtServer(r)'
        PROVE  \/ AtServer(r)
               \/ /\ IsCall(r) /\ ~IsCall(r)'
                  /\ \E i \in 1 .. Len(new) : new[i].type = "accepted" /\ new[i].request = r
    BY <1>3, <1>6, <1>8, <1>9, <1>14, <2>1 DEF AtServer
  <2>2. \A i \in 1 .. Len(new) : new[i].type # "rejected" BY <1>5, <1>6, <1>10
  <2>. QED BY <1>2, <1>3, <1>11, <2>1, <2>2 DEF Moved
<1>. QED BY <1>12, <1>13, <1>14, MovedKeeps

LEMMA DiscordTakesMoves ==
  ASSUME Shapes, Timeouts, DiscordTakes
  PROVE  Timeouts'
<1>1. PICK p : p = Head(calls) OBVIOUS
<1> DEFINE row == Message(p, "pending")
           told == ReceivedEvent(row)
           new == IF p.row = NoRow THEN <<told>> ELSE <<>>
<1>2. /\ calls # <<>> /\ calls' = Tail(calls) /\ UNCHANGED <<protocol, core>>
      /\ protocol = "discord"
  BY DEF DiscordTakes, Take
<1>3. /\ answers \in Seq(Event)
      /\ flight \in [up : BOOLEAN, sent : SUBSET SentMsg, resend : SUBSET KeptMsg]
  BY DEF Shapes
<1>4. /\ answers' = answers \o new
      /\ \E mine : mine.request = p.request /\ flight'.sent = flight.sent \cup {mine}
  <2>1. CASE p.row = NoRow
    <3> DEFINE mine == Sent(p, row.id)
    <3>1. /\ answers' = answers \o <<told>>
          /\ flight' = [flight EXCEPT !.sent = @ \cup {mine},
                                      !.resend = @ \cup {Kept(p, row.id)}]
      BY <1>1, <2>1 DEF DiscordTakes, Emit
    <3>2. new = <<told>> /\ mine.request = p.request BY <2>1 DEF Sent
    <3> HIDE DEF row, told, new, mine
    <3>3. answers' = answers \o new /\ flight'.sent = flight.sent \cup {mine}
      BY <1>3, <3>1, <3>2
    <3>. QED BY <3>2, <3>3
  <2>2. CASE p.row # NoRow
    <3> DEFINE mine == Sent(p, p.row)
    <3>1. answers' = answers /\ flight' = [flight EXCEPT !.sent = @ \cup {mine}]
      BY <1>1, <2>2 DEF DiscordTakes
    <3>2. new = <<>> /\ mine.request = p.request BY <2>2 DEF Sent
    <3> HIDE DEF row, told, new, mine
    <3>3. answers' = answers \o new /\ flight'.sent = flight.sent \cup {mine}
      BY <1>3, <3>1, <3>2
    <3>. QED BY <3>2, <3>3
  <2>. QED BY <2>1, <2>2
<1>5. PICK mine : mine.request = p.request /\ flight'.sent = flight.sent \cup {mine}
  BY <1>4
<1>6. /\ p.request \in Request /\ p.chat \in Chat /\ p.text \in Text
      /\ IsCall(p.request) /\ ~IsCall(p.request)' /\ ~AtServer(p.request)
      /\ \A i, j \in 1 .. Len(calls') : calls'[i].request = calls'[j].request => i = j
      /\ \A i \in 1 .. Len(calls') : \E j \in 1 .. Len(calls) : calls'[i] = calls[j]
  BY <1>1, <1>2, CallTaken
<1>7. row \in Row BY <1>6, MessageParts
<1>8. told.message = Message(p, "pending") /\ told.type = "received" BY ReceivedParts
<1>9. told \in Event BY <1>7, EventsAreTyped
<1> HIDE DEF row, told
<1>10. new \in Seq(Event) /\ \A i \in 1 .. Len(new) : new[i] = told BY <1>9
<1> HIDE DEF new
<1>11. \A i \in 1 .. Len(new) : \A r \in Request : ~BringsSent(new[i], r)
  <2>1. \A r \in Request : ~BringsSent(told, r) BY <1>6, <1>8, BringsNoSent
  <2>. QED BY <1>10, <2>1
<1>12. OneEach' BY <1>5, <1>6 DEF Timeouts, OneEach, AtServer
<1>13. Moved(new)
  <2>1. ASSUME NEW r \in Request, AtServer(r)'
        PROVE  AtServer(r) \/ (IsCall(r) /\ ~IsCall(r)')
    BY <1>5, <1>6, <2>1 DEF AtServer
  <2>2. \A i \in 1 .. Len(new) : new[i].type # "rejected" BY <1>8, <1>10
  <2>. QED BY <1>2, <1>4, <1>6, <1>11, <2>1, <2>2 DEF Moved
<1>. QED BY <1>10, <1>12, <1>13, MovedKeeps

LEMMA RefuseMoves ==
  ASSUME Shapes, Timeouts, Refuse
  PROVE  Timeouts'
<1>1. PICK p : p = Head(calls) OBVIOUS
<1> DEFINE no == AnswerEvent("rejected", p)
           failed == FailedEvent(p.chat, p.row)
           first == IF p.row # NoRow /\ protocol = "telegram" THEN <<failed>> ELSE <<>>
           new == first \o <<no>>
<1>2. /\ calls # <<>> /\ calls' = Tail(calls) /\ UNCHANGED <<protocol, core, flight>>
      /\ answers' = answers \o new
  BY <1>1 DEF Refuse, Take, Emit
<1>3. /\ p.request \in Request /\ p.chat \in Chat /\ p.row \in Id \cup {NoRow}
      /\ IsCall(p.request) /\ ~IsCall(p.request)' /\ ~AtServer(p.request)
      /\ \A i, j \in 1 .. Len(calls') : calls'[i].request = calls'[j].request => i = j
      /\ \A i \in 1 .. Len(calls') : \E j \in 1 .. Len(calls) : calls'[i] = calls[j]
  BY <1>1, <1>2, CallTaken
<1>4. no.type = "rejected" /\ no.request = p.request /\ ~Brings(no)
  BY DEF AnswerEvent, Brings
<1>5. failed.type = "failed" /\ ~Brings(failed) BY FailedParts
<1>6. no \in Event /\ (p.row # NoRow => failed \in Event) BY <1>3, EventsAreTyped
<1> HIDE DEF no, failed
<1>7. /\ first \in Seq(Event)
      /\ \A i \in 1 .. Len(first) : first[i] = failed /\ p.row # NoRow
  BY <1>6
<1> HIDE DEF first
<1>8. new \in Seq(Event) /\ \A i \in 1 .. Len(new) : new[i] \in {no, failed}
  BY <1>6, <1>7
<1> HIDE DEF new
<1>9. OneEach' BY <1>2, <1>3 DEF Timeouts, OneEach
<1>10. Moved(new)
  <2>1. \A r : AtServer(r)' <=> AtServer(r) BY <1>2 DEF AtServer
  <2>2. \A i \in 1 .. Len(new) : ~Brings(new[i]) BY <1>4, <1>5, <1>8
  <2>3. \A r : \A i \in 1 .. Len(new) : ~BringsSent(new[i], r) BY <2>2 DEF BringsSent
  <2>4. ASSUME NEW r \in Request, NEW i \in 1 .. Len(new), new[i].type = "rejected", new[i].request = r
        PROVE  IsCall(r) /\ ~IsCall(r)' /\ ~AtServer(r)'
    <3>1. r = p.request BY <1>4, <1>5, <1>8, <2>4
    <3>. QED BY <1>3, <2>1, <3>1
  <2>. QED BY <1>2, <1>3, <2>1, <2>3, <2>4 DEF Moved
<1>. QED BY <1>8, <1>9, <1>10, MovedKeeps

(* A message leaves the hands of the server.                               *)
LEMMA MessageGone ==
  ASSUME Shapes, Timeouts, NEW m \in flight.sent, flight'.sent = flight.sent \ {m}, calls' = calls
  PROVE  /\ m.request \in Request /\ m.chat \in Chat /\ m.text \in Text /\ m.id \in Id
         /\ AtServer(m.request) /\ ~AtServer(m.request)' /\ ~IsCall(m.request)'
         /\ OneEach'
         /\ \A r : AtServer(r)' => AtServer(r)
<1>1. m.request \in Request /\ m.chat \in Chat /\ m.text \in Text /\ m.id \in Id
  BY SentIsTyped
<1>2. AtServer(m.request) /\ ~AtServer(m.request)' BY DEF AtServer, Timeouts, OneEach
<1>3. ~IsCall(m.request)'
  <2>1. ~IsCall(m.request) BY <1>1, <1>2 DEF Timeouts, OneStage
  <2>. QED BY <2>1 DEF IsCall
<1>4. OneEach' BY DEF Timeouts, OneEach
<1>. QED BY <1>1, <1>2, <1>3, <1>4 DEF AtServer

LEMMA AnnounceMoves ==
  ASSUME Shapes, Timeouts, NEW m \in flight.sent, Announce(m)
  PROVE  Timeouts'
<1> DEFINE row == Message(m, "pending")
           told == ReceivedEvent(row)
           new == <<told>>
           yes == TRUE
           n == [m EXCEPT !.announced = yes]
           sent == (flight.sent \ {m}) \cup {n}
<1>1. /\ UNCHANGED <<protocol, core, calls>> /\ answers' = answers \o new
      /\ flight' = [flight EXCEPT !.sent = sent]
  BY DEF Announce, Emit
<1>2. m.request \in Request /\ m.chat \in Chat /\ m.text \in Text BY SentIsTyped
<1>3. row \in Row BY <1>2, MessageParts
<1>4. told.message = Message(m, "pending") /\ told.type = "received" BY ReceivedParts
<1>5. told \in Event BY <1>3, EventsAreTyped
<1> HIDE DEF row, told
<1>6. n.request = m.request OBVIOUS
<1> HIDE DEF n
<1>7. flight'.sent = sent
  <2> HIDE DEF sent
  <2>. QED BY <1>1
<1>8. new \in Seq(Event) /\ \A i \in 1 .. Len(new) : new[i] = told BY <1>5
<1> HIDE DEF new
<1>9. OneEach' BY <1>1, <1>6, <1>7 DEF Timeouts, OneEach
<1>10. \A i \in 1 .. Len(new) : \A r \in Request : ~BringsSent(new[i], r)
  <2>1. \A r \in Request : ~BringsSent(told, r) BY <1>2, <1>4, BringsNoSent
  <2>. QED BY <1>8, <2>1
<1>11. Moved(new)
  <2>1. \A r : AtServer(r)' => AtServer(r) BY <1>6, <1>7 DEF AtServer
  <2>2. \A i \in 1 .. Len(new) : new[i].type # "rejected" BY <1>4, <1>8
  <2>. QED BY <1>1, <1>10, <2>1, <2>2 DEF Moved
<1>. QED BY <1>8, <1>9, <1>11, MovedKeeps

LEMMA ConfirmMoves ==
  ASSUME Shapes, Timeouts, NEW m \in flight.sent, Confirm(m)
  PROVE  Timeouts'
<1> DEFINE row == Message(m, "sent")
           told == ReplacedEvent(m.id, row)
           yes == AnswerEvent("accepted", m)
           first == IF protocol = "discord" THEN <<yes>> ELSE <<>>
           new == first \o <<told>>
           sent == flight.sent \ {m}
           left == {k \in flight.resend : k.id # m.id}
<1>1. /\ UNCHANGED <<protocol, core, calls>> /\ answers' = answers \o new
      /\ flight' = [flight EXCEPT !.sent = sent, !.resend = left]
  BY DEF Confirm, Emit
<1>2. flight'.sent = sent
  <2> HIDE DEF sent, left
  <2>. QED BY <1>1
<1>3. /\ m.request \in Request /\ m.chat \in Chat /\ m.text \in Text /\ m.id \in Id
      /\ AtServer(m.request) /\ ~AtServer(m.request)' /\ ~IsCall(m.request)'
      /\ OneEach'
      /\ \A r : AtServer(r)' => AtServer(r)
  BY <1>1, <1>2, MessageGone
<1>4. row \in Row BY <1>3, MessageParts
<1>5. told.message = Message(m, "sent") /\ told.type = "replaced" BY ReplacedParts
<1>6. yes.type = "accepted" /\ yes.request = m.request /\ ~Brings(yes)
  BY DEF AnswerEvent, Brings
<1>7. told \in Event /\ yes \in Event BY <1>3, <1>4, EventsAreTyped
<1> HIDE DEF row, told, yes
<1>8. /\ new \in Seq(Event)
      /\ \A i \in 1 .. Len(new) :
            \/ /\ new[i] = told
               /\ protocol = "discord" => 1 \in 1 .. i - 1 /\ new[1] = yes
            \/ new[i] = yes
  <2>1. CASE protocol = "discord"
    <3>3. first = <<yes>> BY <2>1
    <3> DEFINE last == <<told>>
    <3>1. /\ first \in Seq(Event) /\ Len(first) = 1 /\ first[1] = yes
          /\ last \in Seq(Event) /\ Len(last) = 1 /\ last[1] = told
      BY <1>7, <3>3
    <3> HIDE DEF first, last
    <3>2. new = first \o last BY DEF last
    <3> HIDE DEF new
    <3>4. new \in Seq(Event) /\ Len(new) = 2 /\ new[1] = yes /\ new[2] = told
      BY <3>1, <3>2, Joined
    <3>. QED BY <2>1, <3>4
  <2>2. CASE protocol # "discord"
    <3>1. new = <<told>> BY <2>2
    <3> HIDE DEF new
    <3>. QED BY <1>7, <2>2, <3>1
  <2>. QED BY <2>1, <2>2
<1> HIDE DEF new
<1>9. Moved(new)
  <2>1. ASSUME NEW r \in Request, NEW i \in 1 .. Len(new), BringsSent(new[i], r)
        PROVE  /\ AtServer(r) /\ ~AtServer(r)'
               /\ \/ protocol = "telegram"
                  \/ \E j \in 1 .. i - 1 : new[j].type = "accepted" /\ new[j].request = r
    <3>1. new[i] = told /\ (protocol = "discord" => 1 \in 1 .. i - 1 /\ new[1] = yes)
      BY <1>6, <1>8, <2>1 DEF BringsSent
    <3>2. r = m.request BY <1>3, <1>5, <2>1, <3>1, BringsNoSent
    <3>3. protocol \in {"telegram", "discord"} BY DEF Shapes
    <3>. QED BY <1>3, <1>6, <3>1, <3>2, <3>3
  <2>2. \A i \in 1 .. Len(new) : new[i].type # "rejected" BY <1>5, <1>6, <1>8
  <2>. QED BY <1>1, <1>3, <2>1, <2>2 DEF Moved
<1>. QED BY <1>3, <1>8, <1>9, MovedKeeps

LEMMA FailMessageMoves ==
  ASSUME Shapes, Timeouts, NEW m \in flight.sent, FailMessage(m)
  PROVE  Timeouts'
<1> DEFINE row == Message(m, "failed")
           told == ReplacedEvent(m.id, row)
           failed == FailedEvent(m.chat, m.id)
           no == AnswerEvent("rejected", m)
           new == IF protocol = "discord" THEN <<failed, no>> ELSE <<told>>
           sent == flight.sent \ {m}
           resend == flight.resend \cup {Kept(m, <<m.request, "failed">>)}
<1>1. /\ UNCHANGED <<protocol, core, calls>>
      /\ answers' = answers \o new
      /\ flight' = [flight EXCEPT !.sent = sent] \/ flight' = [flight EXCEPT !.sent = sent, !.resend = resend]
  BY DEF FailMessage, Emit
<1>2. flight'.sent = sent
  <2> HIDE DEF sent, resend, new
  <2>. QED BY <1>1 DEF Shapes
<1>3. /\ m.request \in Request /\ m.chat \in Chat /\ m.text \in Text /\ m.id \in Id
      /\ AtServer(m.request) /\ ~AtServer(m.request)' /\ ~IsCall(m.request)'
      /\ OneEach'
      /\ \A r : AtServer(r)' => AtServer(r)
  BY <1>1, <1>2, MessageGone
<1>4. row \in Row BY <1>3, MessageParts
<1>5. told.message = Message(m, "failed") /\ told.type = "replaced" BY ReplacedParts
<1>6. failed.type = "failed" /\ ~Brings(failed) BY FailedParts
<1>7. no.type = "rejected" /\ no.request = m.request /\ ~Brings(no)
  BY DEF AnswerEvent, Brings
<1>8. told \in Event /\ failed \in Event /\ no \in Event BY <1>3, <1>4, EventsAreTyped
<1> HIDE DEF row, told, failed, no
<1>9. new \in Seq(Event) /\ \A i \in 1 .. Len(new) : new[i] \in {told, failed, no}
  <2>1. CASE protocol = "discord"
    <3>1. new = <<failed, no>> BY <2>1
    <3> HIDE DEF new
    <3>. QED BY <1>8, <3>1
  <2>2. CASE protocol # "discord"
    <3>1. new = <<told>> BY <2>2
    <3> HIDE DEF new
    <3>. QED BY <1>8, <3>1
  <2>. QED BY <2>1, <2>2
<1> HIDE DEF new
<1>10. \A i \in 1 .. Len(new) : \A r \in Request : ~BringsSent(new[i], r)
  <2>1. \A r \in Request : ~BringsSent(told, r) BY <1>3, <1>5, BringsNoSent
  <2>. QED BY <1>6, <1>7, <1>9, <2>1 DEF BringsSent
<1>11. Moved(new)
  <2>1. \A i \in 1 .. Len(new) : new[i].type = "rejected" => new[i].request = m.request
    BY <1>5, <1>6, <1>7, <1>9
  <2>. QED BY <1>1, <1>3, <1>10, <2>1 DEF Moved
<1>. QED BY <1>3, <1>9, <1>11, MovedKeeps

LEMMA EndMoves ==
  ASSUME Shapes, Timeouts, End
  PROVE  Timeouts'
<1> DEFINE new == <<EndedEvent>>
<1>1. /\ UNCHANGED <<protocol, core>> /\ answers' = answers \o new
      /\ flight'.sent = {}
      /\ calls' = <<>> \/ calls' = calls
  BY DEF End, Emit
<1>2. EndedEvent \in Event /\ EndedEvent.type = "ended" BY EventsAreTyped DEF EndedEvent
<1>3. new \in Seq(Event) /\ \A i \in 1 .. Len(new) : new[i] = EndedEvent BY <1>2
<1> HIDE DEF new
<1>4. calls' = calls \/ 1 .. Len(calls') = {}
  <2>1. CASE calls' = <<>> BY <2>1
  <2>. QED BY <1>1, <2>1
<1>5. OneEach' BY <1>1, <1>4 DEF Timeouts, OneEach
<1>6. Moved(new)
  <2>1. \A i \in 1 .. Len(new) : new[i].type = "ended" /\ ~Brings(new[i])
    BY <1>2, <1>3 DEF Brings
  <2>2. \A r : ~AtServer(r)' BY <1>1 DEF AtServer
  <2>. QED BY <1>1, <1>4, <2>1, <2>2 DEF Moved, BringsSent
<1>. QED BY <1>3, <1>5, <1>6, MovedKeeps

-----------------------------------------------------------------------------
(* The user and the pump.                                                  *)
LEMMA RestTimeouts ==
  ASSUME Shapes, Timeouts, UNCHANGED <<protocol, calls, flight, answers>>,
         NEW A, Frame(core, core', A), A \cap {"next", "open", "expired", "timedOut", "forgotten", "rows"} = {}
  PROVE  Timeouts'
<1>1. /\ core'.next = core.next /\ core'.open = core.open /\ core'.expired = core.expired
      /\ core'.timedOut = core.timedOut /\ core'.forgotten = core.forgotten /\ core'.rows = core.rows
  BY DEF Frame, Field
<1>2. \A e \in core'.timedOut : Waiting(e) BY <1>1 DEF Waiting
<1>3. core'.open \cap core'.expired = {} /\ Unanswered(core') = Unanswered(core)
  BY <1>1 DEF Timeouts, Apart, Unanswered
<1>. QED BY <1>1, <1>2, <1>3, TimeoutsStay

LEMMA TypeMoves ==
  ASSUME Shapes, Timeouts, NEW text \in Box, Type(text)
  PROVE  Timeouts'
<1>1. core \in Snapshot /\ UNCHANGED <<protocol, calls, flight, answers>>
  BY DEF Shapes, Type
<1>2. Frame(core, core', {"compose"}) BY <1>1 DEF Type, Snapshot, Frame, Field
<1>. QED BY <1>1, <1>2, RestTimeouts

LEMMA SelectMoves ==
  ASSUME Shapes, Timeouts, NEW c \in Chat \cup {Elsewhere}, Select(c)
  PROVE  Timeouts'
<1>1. core \in Snapshot /\ UNCHANGED <<protocol, calls, flight, answers>>
  BY DEF Shapes, Select
<1>2. Frame(core, core', {"selected", "compose", "drafts"})
  BY <1>1 DEF Select, Snapshot, Frame, Field
<1>. QED BY <1>1, <1>2, RestTimeouts

LEMMA ExpireHoldMoves ==
  ASSUME Shapes, Timeouts, NEW i \in 1 .. Len(core.holds), ExpireHold(core.holds[i])
  PROVE  Timeouts'
<1>1. Frame(core, core', Lines) /\ UNCHANGED <<protocol, calls, flight, answers>>
  BY ExpireHoldSets
<1>. QED BY <1>1, RestTimeouts DEF Lines

LEMMA PruneExpiredMoves ==
  ASSUME Shapes, Timeouts, NEW p \in core.expired, PruneExpired(p)
  PROVE  Timeouts'
<1>1. /\ Frame(core, core', {"expired", "forgotten", "unbound"})
      /\ core'.expired = core.expired \ {p}
      /\ core'.forgotten = core.forgotten \cup {p.request}
      /\ UNCHANGED <<protocol, calls, flight, answers>>
  BY PruneExpiredSets
<1>2. /\ core'.next = core.next /\ core'.open = core.open
      /\ core'.timedOut = core.timedOut /\ core'.rows = core.rows
  BY <1>1 DEF Frame, Field
<1>3. \A e \in core'.timedOut : Waiting(e) BY <1>1, <1>2 DEF Waiting
<1>4. core'.open \cap core'.expired = {} /\ Unanswered(core') \subseteq Unanswered(core)
  BY <1>1, <1>2 DEF Timeouts, Apart, Unanswered
<1>. QED BY <1>1, <1>2, <1>3, <1>4, TimeoutsStay

LEMMA ExpireSendMoves ==
  ASSUME Shapes, Numbers, Marks, Timeouts, NEW p \in core.open, ExpireSend(p)
  PROVE  Timeouts'
<1>1. core \in Snapshot /\ core' = Expire(core, p) /\ UNCHANGED <<protocol, calls, flight, answers>>
  BY DEF ExpireSend, Shapes
<1>2. /\ Frame(core, core', Answered \cup {"late"})
      /\ core'.open = core.open \ {p} /\ core'.expired = core.expired \cup {p}
      /\ Marked(core, core', p.chat, p.row, "failed")
      /\ \A e \in core'.timedOut : \/ e \in core.timedOut
                                   \/ e.request = p.request /\ e.chat = p.chat
  BY <1>1, ExpireSets
<1>3. core'.next = core.next /\ core'.forgotten = core.forgotten
  BY <1>2 DEF Frame, Field, Answered, Seen, Texts
<1>4. Unanswered(core') = Unanswered(core) /\ p \in Unanswered(core)
  BY <1>2 DEF Unanswered
<1>5. p.request < core.next BY <1>4 DEF Numbers
<1>6. \A e \in core'.timedOut : Waiting(e) BY <1>2, <1>5 DEF Waiting
<1>7. core'.open \cap core'.expired = {} BY <1>2 DEF Timeouts, Apart
<1>8. \A m \in core'.rows : \E n \in core.rows : n.id = m.id
  <2>1. OneRow BY DEF Marks
  <2>2. \A n \in core'.rows : n \in core.rows \/ (n.id = p.row /\ RowOf(core, p.chat, p.row) # {})
    BY <1>2, <2>1, MarkedRows
  <2>. QED BY <2>2 DEF RowOf
<1>. QED BY <1>1, <1>3, <1>4, <1>6, <1>7, <1>8, TimeoutsStay

(* A new request was never before.                                         *)
LEMMA NewIsNew ==
  ASSUME Shapes, Numbers, Marks, core.next \in Request
  PROVE  /\ ~IsCall(core.next) /\ ~AtServer(core.next) /\ ~WillBeSent(core.next)
         /\ \A type \in {"accepted", "rejected"} : ~Told(type, core.next)
         /\ \A p \in Unanswered(core) : p.request # core.next
<1> DEFINE n == core.next
<1>1. PICK owner \in Owners : OwnedBy(owner) BY DEF Marks, Owned
<1>2. n \in Nat /\ \A r \in Request : r \in Nat BY DEF Request
<1>3. \A r \in Request : r < n => r # n BY <1>2
<1>4. core \in Snapshot /\ calls \in Seq(Call) /\ answers \in Seq(Event) BY DEF Shapes
<1>5. <<n, "sent">>[1] = n BY NewId
<1>6. \A id \in Id : id[1] < n => id # <<n, "sent">> BY <1>2, <1>5
<1> HIDE DEF n
<1>7. ~IsCall(n)
  <2>1. \A i \in 1 .. Len(calls) : calls[i].request \in Request /\ calls[i].request < n
    <3>1. \A i \in 1 .. Len(calls) : calls[i] \in Call BY <1>4
    <3>. QED BY <3>1 DEF Call, Numbers, n
  <2>. QED BY <1>3, <2>1 DEF IsCall
<1>8. ~AtServer(n)
  <2>1. \A m \in flight.sent : m.request \in Request /\ m.request < n
    BY SentIsTyped DEF Numbers, n
  <2>. QED BY <1>3, <2>1 DEF AtServer
<1>9. ~HasSentRow(n)
  <2>1. \A m \in core.rows : m.id \in Id /\ m.id[1] < n
    BY <1>1, RowsAreTyped DEF OwnedBy, RowGood, n
  <2>. QED BY <1>6, <2>1 DEF HasSentRow
<1>10. \A i \in 1 .. Len(answers) : answers[i] \in Event /\ EventGood(owner, answers[i])
  BY <1>1, <1>4 DEF OwnedBy
<1>11. ASSUME NEW i \in 1 .. Len(answers), BringsSent(answers[i], n)
       PROVE  FALSE
  <2>1. answers[i].message.id \in Id /\ answers[i].message.id[1] < n
    <3>1. Brings(answers[i]) BY <1>11 DEF BringsSent
    <3>2. answers[i].message \in Row BY <1>10, <3>1, EventIsTyped DEF Brings
    <3>. QED BY <1>10, <3>1, <3>2, RowIsTyped DEF EventGood, n
  <2>. QED BY <1>6, <1>11, <2>1 DEF BringsSent
<1>12. ASSUME NEW type \in {"accepted", "rejected"}, Told(type, n)
       PROVE  FALSE
  <2>1. PICK i \in 1 .. Len(answers) : answers[i].type = type /\ answers[i].request = n
    BY <1>12 DEF Told
  <2>2. answers[i].request \in Request /\ answers[i].request < n
    BY <1>10, <2>1 DEF EventGood, n
  <2>. QED BY <1>3, <2>1, <2>2
<1>13. \A p \in Unanswered(core) : p.request # n
  <2>1. \A p \in Unanswered(core) : p.request \in Request /\ p.request < n
    BY <1>4, PendingIsTyped DEF Numbers, Unanswered, Snapshot, n
  <2>. QED BY <1>3, <2>1
<1>. QED BY <1>7, <1>8, <1>9, <1>11, <1>12, <1>13 DEF WillBeSent, n

LEMMA BegunMoves ==
  ASSUME Shapes, Numbers, Marks, Timeouts, NEW p, Begun(p),
         \A m \in core'.rows : \E k \in core.rows : k.id = m.id
  PROVE  Timeouts'
<1>1. /\ p.request = core.next /\ core.next \in Request
      /\ core'.open = core.open \cup {p} /\ core'.expired = core.expired
      /\ core'.next = core.next + 1
      /\ Frame(core, core', {"open", "next", "error", "rows", "compose"})
      /\ UNCHANGED <<protocol, flight, answers>>
  BY DEF Begun
<1>2. core'.timedOut = core.timedOut /\ core'.forgotten = core.forgotten
  BY <1>1 DEF Frame, Field
<1>3. PICK text : calls' = Append(calls, NewCall(p, text)) /\ NewCall(p, text) \in Call
  BY DEF Begun
<1> DEFINE n == core.next
           call == NewCall(p, text)
           N == Len(calls)
<1>4. call.request = n BY <1>1 DEF NewCall
<1>5. /\ ~IsCall(n) /\ ~AtServer(n) /\ ~WillBeSent(n)
      /\ \A type \in {"accepted", "rejected"} : ~Told(type, n)
      /\ \A q \in Unanswered(core) : q.request # n
  BY <1>1, NewIsNew
<1>6. /\ N \in Nat /\ Len(calls') = N + 1
      /\ \A i \in 1 .. N : calls'[i] = calls[i]
      /\ calls'[N + 1] = call
  <2> HIDE DEF call
  <2>. QED BY <1>3 DEF call
<1>7. \A i \in 1 .. N + 1 : i \in 1 .. N \/ i = N + 1 BY <1>6
<1>8. Unanswered(core') = Unanswered(core) \cup {p} BY <1>1 DEF Unanswered
<1>20. n \in Nat BY <1>1 DEF Request
<1> HIDE DEF n, call, N
<1>9. \A r \in Request : /\ AtServer(r)' <=> AtServer(r)
                         /\ IsCall(r)' => IsCall(r) \/ r = n
                         /\ WillBeSent(r)' => WillBeSent(r)
                         /\ \A type : Told(type, r)' <=> Told(type, r)
  <2> SUFFICES ASSUME NEW r \in Request
               PROVE  /\ AtServer(r)' <=> AtServer(r)
                      /\ IsCall(r)' => IsCall(r) \/ r = n
                      /\ WillBeSent(r)' => WillBeSent(r)
                      /\ \A type : Told(type, r)' <=> Told(type, r)
    OBVIOUS
  <2>1. (AtServer(r)' <=> AtServer(r)) /\ \A type : Told(type, r)' <=> Told(type, r)
    BY <1>1 DEF AtServer, Told
  <2>2. ASSUME IsCall(r)'
        PROVE  IsCall(r) \/ r = n
    <3>1. PICK i \in 1 .. Len(calls') : calls'[i].request = r BY <2>2 DEF IsCall
    <3>2. i \in 1 .. N \/ i = N + 1 BY <1>6, <1>7
    <3>. QED BY <1>4, <1>6, <3>1, <3>2 DEF IsCall, N
  <2>3. HasSentRow(r)' => HasSentRow(r) BY DEF HasSentRow
  <2>4. WillBeSent(r)' => WillBeSent(r) BY <1>1, <2>3 DEF WillBeSent, Brings
  <2>. QED BY <2>1, <2>2, <2>4
<1>10. OneEach'
  <2>1. \A i, j \in 1 .. N : calls[i].request = calls[j].request => i = j
    BY DEF Timeouts, OneEach, N
  <2>2. \A i \in 1 .. N : calls[i].request # n BY <1>5 DEF IsCall, N
  <2>3. \A i, j \in 1 .. N + 1 : calls'[i].request = calls'[j].request => i = j
    BY <1>4, <1>6, <1>7, <2>1, <2>2
  <2>. QED BY <1>1, <1>6, <2>3 DEF Timeouts, OneEach
<1>11. Apart'
  <2>1. p \notin core.expired BY <1>1, <1>5 DEF Unanswered, n
  <2>. QED BY <1>1, <2>1 DEF Timeouts, Apart
<1>12. OneStage'
  <2> SUFFICES ASSUME NEW r \in Request
               PROVE  /\ IsCall(r)' => ~AtServer(r)'
                      /\ IsCall(r)' \/ AtServer(r)' => ~WillBeSent(r)'
                      /\ Told("rejected", r)' => Over(r)'
    BY DEF OneStage
  <2>1. /\ IsCall(r) => ~AtServer(r)
        /\ IsCall(r) \/ AtServer(r) => ~WillBeSent(r)
        /\ Told("rejected", r) => Over(r)
    BY DEF Timeouts, OneStage
  <2>2. CASE r = n BY <1>5, <1>9, <2>2
  <2>3. CASE r # n BY <1>9, <2>1, <2>3 DEF Over
  <2>. QED BY <2>2, <2>3
<1>13. AcceptFirst'
  <2> SUFFICES ASSUME NEW q \in Unanswered(core) \cup {p}
               PROVE  /\ ~HasSentRow(q.request)'
                      /\ \A i \in 1 .. Len(answers) : BringsSent(answers[i], q.request) =>
                            \E j \in 1 .. i - 1 : answers[j].type = "accepted" /\ answers[j].request = q.request
                      /\ protocol = "telegram" /\ AtServer(q.request)' => Told("accepted", q.request)'
    BY <1>1, <1>8 DEF AcceptFirst, Brings
  <2>0. HasSentRow(q.request)' => HasSentRow(q.request) BY DEF HasSentRow
  <2>1. CASE q \in Unanswered(core)
    <3>1. /\ ~HasSentRow(q.request)
          /\ \A i \in 1 .. Len(answers) : BringsSent(answers[i], q.request) =>
                \E j \in 1 .. i - 1 : answers[j].type = "accepted" /\ answers[j].request = q.request
          /\ protocol = "telegram" /\ AtServer(q.request) => Told("accepted", q.request)
      BY <2>1 DEF Timeouts, AcceptFirst
    <3>2. q.request \in Request BY <2>1, PendingHasRequest
    <3>. QED BY <1>9, <2>0, <3>1, <3>2
  <2>2. CASE q = p
    <3>1. q.request = n /\ n \in Request BY <1>1, <2>2 DEF n
    <3>2. ~HasSentRow(n) /\ \A i \in 1 .. Len(answers) : ~BringsSent(answers[i], n)
      BY <1>5 DEF WillBeSent
    <3>. QED BY <1>5, <1>9, <2>0, <3>1, <3>2
  <2>. QED BY <2>1, <2>2
<1>14. TimedOutKnown'
  <2> SUFFICES ASSUME NEW e \in core.timedOut
               PROVE  /\ e.request < core'.next
                      /\ \/ e.request \in core.forgotten
                         \/ \E q \in core.expired : q.request = e.request /\ q.chat = e.chat
                         \/ Over(e.request)'
    BY <1>1, <1>2 DEF TimedOutKnown
  <2>1. /\ e.request < n
        /\ \/ e.request \in core.forgotten
           \/ \E q \in core.expired : q.request = e.request /\ q.chat = e.chat
           \/ Over(e.request)
    BY DEF Timeouts, TimedOutKnown, n
  <2>2. e.request \in Request /\ e.request \in Nat
    BY PendingHasRequest DEF Request
  <2>3. e.request < core'.next /\ e.request # n BY <1>1, <1>20, <2>1, <2>2 DEF n
  <2>4. Over(e.request) => Over(e.request)' BY <1>9, <2>2, <2>3 DEF Over
  <2>. QED BY <2>1, <2>3, <2>4
<1>. QED BY <1>10, <1>11, <1>12, <1>13, <1>14 DEF Timeouts

LEMMA BeginMoves ==
  ASSUME Shapes, Numbers, Marks, Timeouts
  PROVE  /\ SendCompose => Timeouts'
         /\ \A m \in core.rows : RetrySend(m) => Timeouts'
<1>1. ASSUME SendCompose
      PROVE  Timeouts'
  <2>1. core'.rows = core.rows /\ \E p : p.row = NoRow /\ Begun(p)
    BY <1>1, SendComposeShapes
  <2>. QED BY <2>1, BegunMoves
<1>2. ASSUME NEW m \in core.rows, RetrySend(m)
      PROVE  Timeouts'
  <2>1. /\ core'.rows = (core.rows \ {m}) \cup {[m EXCEPT !.delivery = "pending"]}
        /\ \E p : p.row = m.id /\ p.chat = m.chat /\ Begun(p)
    BY <1>2, RetrySendShapes
  <2>2. [m EXCEPT !.delivery = "pending"].id = m.id BY DEF Row
  <2>. QED BY <2>1, <2>2, BegunMoves
<1>. QED BY <1>1, <1>2

-----------------------------------------------------------------------------
(* An event.                                                               *)
LEMMA EventRowsAre ==
  ASSUME Shapes, Marks, ApplyEvent
  PROVE  \A m \in core'.rows : \/ \E n \in core.rows : n.id = m.id
                               \/ Brings(Head(answers)) /\ m = Head(answers).message
<1> DEFINE e == Head(answers)
<1>1. PICK owner \in Owners : OwnedBy(owner) BY DEF Marks, Owned
<1>2. RowsApplied(core, core', e) /\ OneRow BY <1>1, EventFinds DEF Marks
<1> HIDE DEF e
<1>3. ASSUME NEW c, NEW id, NEW d \in {"pending", "sent", "failed"}, Marked(core, core', c, id, d)
      PROVE  \A m \in core'.rows : \E n \in core.rows : n.id = m.id
  <2>1. \A n \in core'.rows : n \in core.rows \/ (n.id = id /\ RowOf(core, c, id) # {})
    BY <1>2, <1>3, MarkedRows
  <2>. QED BY <2>1 DEF RowOf
<1>4. CASE Brings(e)
  <2>1. \A m \in core'.rows : m \in core.rows \/ m = e.message
    BY <1>2, <1>4 DEF RowsApplied, Brings
  <2>. QED BY <1>4, <2>1 DEF e
<1>5. CASE e.type = "failed" BY <1>2, <1>3, <1>5 DEF RowsApplied
<1>6. CASE e.type = "accepted"
  <2>1. core'.rows = core.rows \/ \E c, id : Marked(core, core', c, id, "sent")
    BY <1>2, <1>6 DEF RowsApplied, AcceptRows, LateRows
  <2>. QED BY <1>3, <2>1
<1>7. CASE e.type = "rejected"
  <2>1. core'.rows = core.rows \/ \E c, id : Marked(core, core', c, id, "failed")
    BY <1>2, <1>7 DEF RowsApplied, RejectRows
  <2>. QED BY <1>3, <2>1
<1>8. CASE e.type = "ended" BY <1>2, <1>8 DEF RowsApplied
<1>9. e \in Event BY EventMoves DEF e
<1>. QED BY <1>4, <1>5, <1>6, <1>7, <1>8, <1>9, EventIsTyped DEF Brings

(* Who is answered waits no more.                                          *)
LEMMA AnswerSettles ==
  ASSUME Shapes, Numbers, Marks, Apart, ApplyEvent,
         Head(answers).type \in {"accepted", "rejected"},
         NEW p \in Unanswered(core), p.request = Head(answers).request
  PROVE  p \notin Unanswered(core') /\ p.chat = Head(answers).chat
<1> DEFINE e == Head(answers)
<1>1. PICK owner \in Owners : OwnedBy(owner) BY DEF Marks, Owned
<1>2. /\ e.type \in {"accepted", "rejected"} /\ RowsApplied(core, core', e) /\ EventGood(owner, e)
      /\ core'.open \subseteq core.open
  BY <1>1, EventFinds
<1>3. p.request = e.request OBVIOUS
<1> HIDE DEF e
<1>4. p.chat = e.chat BY <1>1, <1>2, <1>3 DEF OwnedBy, AskGood, EventGood
<1>5. AcceptRows(core, core', e.chat, e.request) \/ RejectRows(core, core', e.chat, e.request)
  BY <1>2 DEF RowsApplied
<1>6. /\ p \in core.open => p \in Asked(core.open, e.chat, e.request) /\ p \notin core.expired
      /\ p \in core.expired => p \in Asked(core.expired, e.chat, e.request) /\ p \notin core.open
  BY <1>3, <1>4 DEF Asked, Apart
<1>7. p \in core.expired => Asked(core.open, e.chat, e.request) = {}
  <2> SUFFICES ASSUME p \in core.expired, NEW q \in Asked(core.open, e.chat, e.request)
               PROVE  FALSE
    OBVIOUS
  <2>1. q \in core.open /\ q.request = p.request /\ q \in Unanswered(core)
    BY <1>3 DEF Asked, Unanswered
  <2>2. q = p BY <2>1 DEF Numbers
  <2>. QED BY <1>6, <2>1, <2>2
<1>8. p \in core.open \/ p \in core.expired BY DEF Unanswered
<1>9. p \notin core'.open /\ p \notin core'.expired
  <2>1. CASE p \in core.open BY <1>2, <1>5, <1>6, <2>1 DEF AcceptRows, RejectRows
  <2>2. CASE p \in core.expired
    BY <1>2, <1>5, <1>6, <1>7, <2>2 DEF AcceptRows, RejectRows
  <2>. QED BY <1>8, <2>1, <2>2
<1>. QED BY <1>4, <1>9 DEF Unanswered, e

LEMMA ApplyEventMoves ==
  ASSUME Shapes, Numbers, Marks, Timeouts, ApplyEvent
  PROVE  Timeouts'
<1> DEFINE e == Head(answers)
<1>1. /\ core \in Snapshot /\ core' = Apply(core, e) /\ UNCHANGED <<protocol, calls, flight>>
      /\ e \in Event /\ e = answers[1] /\ 1 \in 1 .. Len(answers) /\ Len(answers) \in Nat
      /\ Len(answers') = Len(answers) - 1
      /\ \A i \in 1 .. Len(answers') : i + 1 \in 1 .. Len(answers) /\ answers'[i] = answers[i + 1]
      /\ \A i \in 1 .. Len(answers) : i # 1 => i - 1 \in 1 .. Len(answers') /\ answers'[i - 1] = answers[i]
  BY EventMoves DEF Shapes
<1>2. \A m \in core'.rows : (\E n \in core.rows : n.id = m.id) \/ (Brings(e) /\ m = e.message)
  BY EventRowsAre
<1>20. \A p \in Unanswered(core) : e.type \in {"accepted", "rejected"} /\ p.request = e.request =>
          p \notin Unanswered(core')
  BY AnswerSettles DEF Timeouts
<1> HIDE DEF e
<1>3. /\ Frame(core, core', Applied) /\ core'.open \subseteq core.open
      /\ core'.expired \subseteq core.expired /\ RowsApplied(core, core', e)
  BY <1>1, ApplySets
<1>4. core'.next = core.next /\ core'.forgotten = core.forgotten
  BY <1>3 DEF Frame, Field, Applied, Answered, Seen, Texts
<1>5. Unanswered(core') \subseteq Unanswered(core) BY <1>3 DEF Unanswered
<1>6. \A r : /\ IsCall(r)' <=> IsCall(r)
             /\ AtServer(r)' <=> AtServer(r)
             /\ \A type : Told(type, r)' => Told(type, r)
             /\ \A type : Told(type, r) => Told(type, r)' \/ (e.type = type /\ e.request = r)
  <2> SUFFICES ASSUME NEW r
               PROVE  /\ IsCall(r)' <=> IsCall(r)
                      /\ AtServer(r)' <=> AtServer(r)
                      /\ \A type : Told(type, r)' => Told(type, r)
                      /\ \A type : Told(type, r) => Told(type, r)' \/ (e.type = type /\ e.request = r)
    OBVIOUS
  <2>1. (IsCall(r)' <=> IsCall(r)) /\ (AtServer(r)' <=> AtServer(r))
    BY <1>1 DEF IsCall, AtServer
  <2>2. ASSUME NEW type, Told(type, r)'
        PROVE  Told(type, r)
    BY <1>1, <2>2 DEF Told
  <2>3. ASSUME NEW type, Told(type, r)
        PROVE  Told(type, r)' \/ (e.type = type /\ e.request = r)
    <3>1. PICK i \in 1 .. Len(answers) : answers[i].type = type /\ answers[i].request = r
      BY <2>3 DEF Told
    <3>2. CASE i = 1 BY <1>1, <3>1, <3>2
    <3>3. CASE i # 1
      <4>1. i - 1 \in 1 .. Len(answers') /\ answers'[i - 1] = answers[i] BY <1>1, <3>3
      <4>. QED BY <3>1, <4>1 DEF Told
    <3>. QED BY <3>2, <3>3
  <2>. QED BY <2>1, <2>2, <2>3
<1>8. \A r : HasSentRow(r)' => HasSentRow(r) \/ BringsSent(e, r)
  BY <1>2 DEF HasSentRow, BringsSent
<1>9. \A r : WillBeSent(r)' => WillBeSent(r)
  <2> SUFFICES ASSUME NEW r, WillBeSent(r)'
               PROVE  WillBeSent(r)
    OBVIOUS
  <2>1. HasSentRow(r)' \/ \E i \in 1 .. Len(answers') : BringsSent(answers'[i], r)
    BY DEF WillBeSent, Brings
  <2>. QED BY <1>1, <1>8, <2>1 DEF WillBeSent
<1>10. \A r : Over(r) => Over(r)' BY <1>6, <1>9 DEF Over
<1>11. OneEach' /\ Apart' BY <1>1, <1>3 DEF Timeouts, OneEach, Apart
<1>12. OneStage' BY <1>6, <1>9, <1>10 DEF Timeouts, OneStage
<1>13. AcceptFirst'
  <2> SUFFICES ASSUME NEW p \in Unanswered(core')
               PROVE  /\ ~HasSentRow(p.request)'
                      /\ \A i \in 1 .. Len(answers') : BringsSent(answers'[i], p.request) =>
                            \E j \in 1 .. i - 1 : answers'[j].type = "accepted" /\ answers'[j].request = p.request
                      /\ protocol = "telegram" /\ AtServer(p.request)' => Told("accepted", p.request)'
    BY <1>1 DEF AcceptFirst, Brings
  <2>1. /\ p \in Unanswered(core)
        /\ ~HasSentRow(p.request)
        /\ \A i \in 1 .. Len(answers) : BringsSent(answers[i], p.request) =>
              \E j \in 1 .. i - 1 : answers[j].type = "accepted" /\ answers[j].request = p.request
        /\ protocol = "telegram" /\ AtServer(p.request) => Told("accepted", p.request)
    BY <1>5 DEF Timeouts, AcceptFirst
  <2>2. ~(e.type \in {"accepted", "rejected"} /\ e.request = p.request) BY <1>20, <2>1
  <2>3. ~BringsSent(e, p.request)
    <3> SUFFICES ASSUME BringsSent(e, p.request) PROVE FALSE
      OBVIOUS
    <3>1. \E j \in 1 .. 1 - 1 : answers[j].type = "accepted" /\ answers[j].request = p.request
      BY <1>1, <2>1
    <3>. QED BY <3>1
  <2>4. ~HasSentRow(p.request)' BY <1>8, <2>1, <2>3
  <2>5. ASSUME NEW i \in 1 .. Len(answers'), BringsSent(answers'[i], p.request)
        PROVE  \E j \in 1 .. i - 1 : answers'[j].type = "accepted" /\ answers'[j].request = p.request
    <3>1. i + 1 \in 1 .. Len(answers) /\ answers'[i] = answers[i + 1] /\ (i + 1) - 1 = i /\ i \in Nat
      BY <1>1
    <3>2. PICK j \in 1 .. i : answers[j].type = "accepted" /\ answers[j].request = p.request
      BY <2>1, <2>5, <3>1
    <3>3. j # 1 BY <1>1, <2>2, <3>2
    <3>4. j \in 1 .. Len(answers) /\ j - 1 \in 1 .. i - 1 BY <1>1, <3>1, <3>3
    <3>5. answers'[j - 1] = answers[j] BY <1>1, <3>3, <3>4
    <3>. QED BY <3>2, <3>4, <3>5
  <2>6. protocol = "telegram" /\ AtServer(p.request)' => Told("accepted", p.request)'
    BY <1>6, <2>1, <2>2
  <2>. QED BY <2>4, <2>5, <2>6
<1>14. TimedOutKnown'
  <2> SUFFICES ASSUME NEW x \in core'.timedOut
               PROVE  /\ x.request < core.next
                      /\ \/ x.request \in core.forgotten
                         \/ \E p \in core'.expired : p.request = x.request /\ p.chat = x.chat
                         \/ Over(x.request)'
    BY <1>4 DEF TimedOutKnown
  <2>1. x \in core.timedOut BY <1>3 DEF RowsApplied, AcceptRows, RejectRows, LateTimed
  <2>2. /\ x.request < core.next
        /\ \/ x.request \in core.forgotten
           \/ \E p \in core.expired : p.request = x.request /\ p.chat = x.chat
           \/ Over(x.request)
    BY <2>1 DEF Timeouts, TimedOutKnown
  <2>3. ASSUME NEW p \in core.expired, p.request = x.request, p.chat = x.chat
        PROVE  \/ \E q \in core'.expired : q.request = x.request /\ q.chat = x.chat
               \/ Over(x.request)'
    <3>1. CASE p \in core'.expired BY <2>3, <3>1
    <3>2. CASE p \notin core'.expired
      <4>1. \/ e.type = "accepted" /\ AcceptRows(core, core', e.chat, e.request)
            \/ e.type = "rejected" /\ RejectRows(core, core', e.chat, e.request)
        BY <1>3, <3>2 DEF RowsApplied
      <4>2. p \in Asked(core.expired, e.chat, e.request)
        BY <3>2, <4>1 DEF AcceptRows, RejectRows
      <4>3. p.chat = e.chat /\ p.request = e.request BY <4>2 DEF Asked
      <4>4. CASE e.type = "accepted"
        <5>1. LateTimed(core, core', e.chat, e.request)
          BY <3>2, <4>1, <4>4 DEF AcceptRows
        <5>. QED BY <2>3, <4>2, <4>3, <5>1 DEF LateTimed
      <4>5. CASE e.type = "rejected"
        <5>1. Told("rejected", x.request) BY <1>1, <2>3, <4>3, <4>5 DEF Told
        <5>2. x.request \in Request BY <2>1, PendingHasRequest
        <5>3. Over(x.request) BY <5>1, <5>2 DEF Timeouts, OneStage
        <5>. QED BY <1>10, <5>3
      <4>. QED BY <4>1, <4>4, <4>5
    <3>. QED BY <3>1, <3>2
  <2>. QED BY <1>10, <2>2, <2>3
<1>. QED BY <1>11, <1>12, <1>13, <1>14 DEF Timeouts

LEMMA TimeoutsInit ==
  ASSUME SendsInit
  PROVE  Timeouts
<1>1. /\ core.open = {} /\ core.expired = {} /\ core.timedOut = {}
      /\ flight.sent = {} /\ calls = <<>> /\ answers = <<>>
      /\ \A m \in core.rows : m.id[1] = 0
  BY DEF SendsInit, Old
<1>2. Unanswered(core) = {} /\ Len(calls) = 0 /\ Len(answers) = 0 BY <1>1 DEF Unanswered
<1>3. OneEach /\ Apart /\ AcceptFirst /\ TimedOutKnown
  BY <1>1, <1>2 DEF OneEach, Apart, AcceptFirst, TimedOutKnown
<1>4. OneStage BY <1>1, <1>2 DEF OneStage, IsCall, AtServer, Told
<1>. QED BY <1>3, <1>4 DEF Timeouts

LEMMA TimeoutsStep ==
  ASSUME Shapes, Numbers, Marks, Timeouts, [SendsNext]_sendVars
  PROVE  Timeouts'
<1>1. CASE UserStep BY <1>1, TypeMoves, SelectMoves, BeginMoves DEF UserStep
<1>2. CASE PumpStep
  BY <1>2, ApplyEventMoves, ExpireSendMoves, ExpireHoldMoves, PruneExpiredMoves DEF PumpStep
<1>3. CASE AdapterStep
  BY <1>3, TelegramTakesMoves, DiscordTakesMoves, RefuseMoves, EndMoves, AnnounceMoves,
     ConfirmMoves, FailMessageMoves DEF AdapterStep
<1>4. CASE UNCHANGED sendVars
  <2>1. UNCHANGED <<protocol, core, calls, flight, answers>> /\ Frame(core, core', {})
    BY <1>4, NoFrame DEF sendVars
  <2>. QED BY <2>1, RestTimeouts
<1>. QED BY <1>1, <1>2, <1>3, <1>4 DEF SendsNext

(* A request is a command, then a message of the server, and then it is    *)
(* refused or its row is sent, never two of these; while the shell waits   *)
(* for its answer the accept comes first; and what the error says of a     *)
(* timeout was forgotten, may still be answered, or will never be sent:    *)
(* the invariant behind the error.                                         *)
THEOREM TimeoutsInvariance == SendsSpec => [](Shapes /\ Numbers /\ Marks /\ Timeouts)
<1>1. SendsInit => Timeouts BY TimeoutsInit
<1>2. Shapes /\ Numbers /\ Marks /\ Timeouts /\ [SendsNext]_sendVars => Timeouts'
  BY TimeoutsStep
<1>. QED BY <1>1, <1>2, MarksInvariance, PTL DEF SendsSpec

(* The error says "not sent" of no message whose row is sent, unless its   *)
(* answer came when the send was forgotten (expire_sends and the late      *)
(* answers of sends.rs; the second part of RowsAreTrue).                   *)
THEOREM NoTimeoutIsFalse == SendsSpec => []NoFalseTimeout
<1>1. Shapes /\ Timeouts => NoFalseTimeout BY TimeoutsAreTrue
<1>. QED BY <1>1, TimeoutsInvariance, PTL

-----------------------------------------------------------------------------
(* The lines "Sending..." of Telegram.  A message that failed is never     *)
(* pending again under the same id: only a retry makes a row of it that    *)
(* says "Sending...", and the message of the retry has a new id.           *)
RowStaged(m) == m.id[2] = "pending" => m.delivery = "pending"
AskStaged(p) == p.row # NoRow => p.row[2] = "failed"
EventStaged(e) ==
    /\ e.type = "failed" => e.id[2] = "failed"
    /\ e.type = "replaced" /\ e.message.delivery = "pending" => e.old[2] = "failed"
Staged ==
    protocol = "telegram" =>
        /\ \A m \in core.rows : RowStaged(m)
        /\ \A p \in Unanswered(core) : AskStaged(p)
        /\ \A i \in 1 .. Len(calls) : AskStaged(calls[i])
        /\ \A i \in 1 .. Len(answers) : EventStaged(answers[i])

(* The line of a request, and what ends it: the message at the server, or  *)
(* an event behind the first n.                                            *)
LineId(r) == <<r, "pending">>
EndsLine(e, id) == e.type = "ended" \/ (e.type = "replaced" /\ e.old = id)
AtServerAs(id) == \E m \in flight.sent : m.id = id
WillEnd(id, n) ==
    \/ AtServerAs(id)
    \/ \E j \in 1 .. Len(answers) : j > n /\ EndsLine(answers[j], id)
Awaits(s, r) == \E p \in s.open : p.request = r

LineNamed(h) == h.id = LineId(h.request)
LinesEnd ==
    \A i \in 1 .. Len(core.holds) :
        LineNamed(core.holds[i]) /\ WillEnd(core.holds[i].id, 0)

(* The row of a send is there when its accept is applied.                  *)
RowReady(s, c, r) ==
    /\ \E u \in s.unbound : u.request = r /\ u.chat = c
    /\ \A u \in s.unbound : u.request = r => u.id = LineId(r)
BringsLine(e, c, r) == Brings(e) /\ e.message.id = LineId(r) /\ e.message.chat = c
Follows(i, c, r) ==
    /\ WillEnd(LineId(r), i)
    /\ Awaits(core, r) => IF i = 1 THEN RowReady(core, c, r)
                          ELSE BringsLine(answers[i - 1], c, r)
AcceptsFollow ==
    \A i \in 1 .. Len(answers) : answers[i].type = "accepted" =>
        Follows(i, answers[i].chat, answers[i].request)

(* Without a send that expired.                                            *)
OwnLines ==
    core.late = {} =>
        /\ core.expired = {}
        /\ protocol = "discord" => Len(core.holds) = 0
        /\ protocol = "telegram" =>
              /\ LinesEnd /\ AcceptsFollow
              /\ \A u \in core.unbound : u.id[2] = "pending"

LEMMA LinesAreOwn ==
  ASSUME Shapes, OwnLines
  PROVE  LineIsOwn
<1> SUFFICES ASSUME core.late = {}, NEW i \in 1 .. Len(core.holds)
             PROVE  core.holds[i].id[1] = core.holds[i].request /\ WillMove(core.holds[i].id)
  BY DEF LineIsOwn
<1> DEFINE h == core.holds[i]
<1>1. protocol = "telegram" BY DEF Shapes, OwnLines
<1>2. h.id = LineId(h.request) /\ WillEnd(h.id, 0)
  BY <1>1 DEF OwnLines, LinesEnd, LineNamed
<1> HIDE DEF h
<1>3. h.id[1] = h.request BY <1>2 DEF LineId
<1>4. WillMove(h.id) BY <1>2 DEF WillEnd, AtServerAs, EndsLine, WillMove
<1>. QED BY <1>3, <1>4 DEF h

-----------------------------------------------------------------------------
(* What the helpers of the shell do to the lines.                          *)
Within(s, t) ==
    \A j \in 1 .. Len(t.holds) : \E i \in 1 .. Len(s.holds) : t.holds[j] = s.holds[i]
SameLines(s, t) == t.holds = s.holds /\ t.unbound = s.unbound
Shrinks(s, t) == Within(s, t) /\ t.unbound = s.unbound
AllNamed(s) == \A i \in 1 .. Len(s.holds) : LineNamed(s.holds[i])

LEMMA SameShrinks ==
  ASSUME NEW s, NEW t, SameLines(s, t)
  PROVE  Shrinks(s, t)
BY DEF SameLines, Shrinks, Within

LEMMA ShrinksTwice ==
  ASSUME NEW s, NEW t, NEW u, Shrinks(s, t), Shrinks(t, u)
  PROVE  Shrinks(s, u)
BY DEF Shrinks, Within

LEMMA FrameLines ==
  ASSUME NEW s, NEW t, NEW A, Frame(s, t, A), A \cap Lines = {}
  PROVE  SameLines(s, t)
BY DEF Frame, Field, Lines, SameLines

LEMMA KeptIsWithin ==
  ASSUME NEW T, NEW q \in Seq(T), NEW S
  PROVE  /\ Len(Those(S, q)) \in Nat
         /\ \A j \in 1 .. Len(Those(S, q)) :
               Those(S, q)[j] \in S /\ \E i \in 1 .. Len(q) : Those(S, q)[j] = q[i]
<1>1. Those(S, q) \in Seq(T \cap S) BY ThoseFacts
<1>2. PICK f : Picks(f, Those(S, q), q) BY ThoseFacts
<1>. QED BY <1>1, <1>2 DEF Picks

LEMMA EndHoldLeaves ==
  ASSUME NEW s \in Snapshot, NEW r
  PROVE  LET t == EndHold(s, r)
         IN  Shrinks(s, t) /\ \A j \in 1 .. Len(t.holds) : t.holds[j].request # r
<1> DEFINE t == EndHold(s, r)
           S == {h \in Hold : h.request # r}
           left == Those(S, s.holds)
<1>1. s.holds \in Seq(Hold) BY DEF Snapshot
<1>3. t = [s EXCEPT !.holds = left] BY DEF EndHold
<1>4. \A h \in S : h.request # r OBVIOUS
<1> HIDE DEF S
<1>2. \A j \in 1 .. Len(left) : left[j] \in S /\ \E i \in 1 .. Len(s.holds) : left[j] = s.holds[i]
  BY <1>1, KeptIsWithin
<1> HIDE DEF left
<1>5. t.holds = left /\ t.unbound = s.unbound BY <1>3
<1>. QED BY <1>2, <1>4, <1>5 DEF Shrinks, Within

(* The message with this id has no line any more.                          *)
LEMMA ReleaseLeaves ==
  ASSUME NEW s \in Snapshot, NEW id
  PROVE  LET t == ReleaseForMessage(s, id)
         IN  /\ Shrinks(s, t)
             /\ AllNamed(s) => \A j \in 1 .. Len(t.holds) : t.holds[j].id # id
<1> DEFINE t == ReleaseForMessage(s, id)
<1>1. CASE BoundTo(s, id) = {}
  <2>1. t = s BY <1>1 DEF ReleaseForMessage
  <2> HIDE DEF t
  <2>2. SameLines(s, t) BY <2>1 DEF SameLines
  <2>3. \A j \in 1 .. Len(t.holds) : t.holds[j].id # id BY <1>1, <2>1 DEF BoundTo
  <2>. QED BY <2>2, <2>3, SameShrinks DEF t
<1>2. CASE BoundTo(s, id) # {}
  <2> DEFINE k == First(BoundTo(s, id))
  <2>1. k \in 1 .. Len(s.holds) /\ s.holds[k].id = id BY <1>2, BoundToIsIndex
  <2>2. t = EndHold(s, s.holds[k].request) BY <1>2 DEF ReleaseForMessage
  <2> HIDE DEF k, t
  <2>3. Shrinks(s, t) /\ \A j \in 1 .. Len(t.holds) : t.holds[j].request # s.holds[k].request
    BY <2>2, EndHoldLeaves
  <2>4. ASSUME AllNamed(s), NEW j \in 1 .. Len(t.holds), t.holds[j].id = id
        PROVE  FALSE
    <3>1. PICK i \in 1 .. Len(s.holds) : t.holds[j] = s.holds[i]
      BY <2>3 DEF Shrinks, Within
    <3>2. <<s.holds[i].request, "pending">> = <<s.holds[k].request, "pending">>
      BY <2>1, <2>4, <3>1 DEF AllNamed, LineNamed, LineId
    <3>3. s.holds[i].request = s.holds[k].request BY <3>2
    <3>. QED BY <2>3, <3>1, <3>3
  <2>. QED BY <2>3, <2>4 DEF t
<1>. QED BY <1>1, <1>2

LEMMA NamedStays ==
  ASSUME NEW s, NEW t, Shrinks(s, t)
  PROVE  /\ AllNamed(s) => AllNamed(t)
         /\ \A id : (\A j \in 1 .. Len(s.holds) : s.holds[j].id # id) =>
               \A j \in 1 .. Len(t.holds) : t.holds[j].id # id
         /\ Len(s.holds) = 0 /\ Len(t.holds) \in Nat => Len(t.holds) = 0
<1>1. AllNamed(s) => AllNamed(t) BY DEF Shrinks, Within, AllNamed
<1>2. ASSUME NEW id, \A j \in 1 .. Len(s.holds) : s.holds[j].id # id
      PROVE  \A j \in 1 .. Len(t.holds) : t.holds[j].id # id
  BY <1>2 DEF Shrinks, Within
<1>3. ASSUME Len(s.holds) = 0, Len(t.holds) \in Nat
      PROVE  Len(t.holds) = 0
  <2>1. 1 .. Len(s.holds) = {} BY <1>3
  <2>2. 1 .. Len(t.holds) = {} BY <2>1 DEF Shrinks, Within
  <2>. QED BY <1>3, <2>2
<1>. QED BY <1>1, <1>2, <1>3

LEMMA NoteDeliveryLeaves ==
  ASSUME NEW s \in Snapshot, NEW before, NEW m \in Row
  PROVE  LET t == NoteDelivery(s, before, m)
         IN  Shrinks(s, t) /\ (m.delivery # "failed" => t = s)
<1> DEFINE t == NoteDelivery(s, before, m)
           released == ReleaseForMessage(s, m.id)
           filled == IF CurrentText(s, m.chat) = Blank
                     THEN WithText(released, m.chat, m.text) ELSE released
           noted == [filled EXCEPT !.error = "failed"]
<1>1. CASE m.delivery # "failed" \/ before # {"pending"}
  <2>1. t = s BY <1>1 DEF NoteDelivery
  <2> HIDE DEF t
  <2>2. SameLines(s, t) BY <2>1 DEF SameLines
  <2>. QED BY <2>1, <2>2, SameShrinks DEF t
<1>2. CASE ~(m.delivery # "failed" \/ before # {"pending"})
  <2>1. t = noted BY <1>2 DEF NoteDelivery
  <2>2. released \in Snapshot /\ Frame(s, released, {"holds"}) /\ Shrinks(s, released)
    BY ReleaseForMessageSets, ReleaseLeaves
  <2> HIDE DEF released, t
  <2>3. filled \in Snapshot /\ SameLines(released, filled)
    <3>1. CASE CurrentText(s, m.chat) = Blank
      <4>1. filled = WithText(released, m.chat, m.text) BY <3>1
      <4>2. filled \in Snapshot /\ Frame(released, filled, Texts)
        BY <2>2, <4>1, RowIsTyped, WithTextSets
      <4> HIDE DEF filled
      <4>. QED BY <4>2, FrameLines DEF Texts, Lines
    <3>2. CASE CurrentText(s, m.chat) # Blank
      <4>1. filled = released BY <3>2
      <4>. QED BY <2>2, <4>1 DEF SameLines
    <3>. QED BY <3>1, <3>2
  <2> HIDE DEF filled
  <2>4. SameLines(filled, noted) BY <2>3 DEF SameLines
  <2> HIDE DEF noted
  <2>5. Shrinks(s, t) BY <2>1, <2>2, <2>3, <2>4, SameShrinks, ShrinksTwice
  <2>. QED BY <1>2, <2>5 DEF t
<1>. QED BY <1>1, <1>2

LEMMA SetDeliveryLeaves ==
  ASSUME NEW s \in Snapshot, NEW c, NEW id, NEW delivery \in {"pending", "sent", "failed"}
  PROVE  Shrinks(s, SetDelivery(s, c, id, delivery))
<1> DEFINE t == SetDelivery(s, c, id, delivery)
           m == CHOOSE x \in RowOf(s, c, id) : TRUE
           moved == [m EXCEPT !.delivery = delivery]
           left == (s.rows \ {m}) \cup {moved}
           u == [s EXCEPT !.rows = left]
<1>1. CASE RowOf(s, c, id) = {}
  <2>1. t = s BY <1>1 DEF SetDelivery
  <2> HIDE DEF t
  <2>2. SameLines(s, t) BY <2>1 DEF SameLines
  <2>. QED BY <2>2, SameShrinks DEF t
<1>2. CASE RowOf(s, c, id) # {}
  <2>1. m \in RowOf(s, c, id) BY <1>2
  <2>2. t = NoteDelivery(u, {m.delivery}, moved) BY <1>2 DEF SetDelivery
  <2> HIDE DEF m, t
  <2>3. m \in Row BY <2>1 DEF RowOf, Snapshot
  <2>4. moved \in Row BY <2>3 DEF Row
  <2> HIDE DEF moved
  <2>5. left \in SUBSET Row BY <2>4 DEF Snapshot
  <2> HIDE DEF left
  <2>6. u \in Snapshot /\ SameLines(s, u) BY <2>5 DEF Snapshot, SameLines
  <2> HIDE DEF u
  <2>7. Shrinks(u, t) BY <2>2, <2>4, <2>6, NoteDeliveryLeaves
  <2>. QED BY <2>6, <2>7, SameShrinks, ShrinksTwice DEF t
<1>. QED BY <1>1, <1>2

(* A new pending row is noted with the open send of its chat.              *)
Noticed(s, t, c, id) ==
    /\ t.holds = s.holds
    /\ IF InChat(s.open, c) = {} THEN t.unbound = s.unbound
       ELSE \E p \in InChat(s.open, c) :
               t.unbound = {u \in s.unbound : u.request # p.request}
                              \cup {[request |-> p.request, chat |-> c, id |-> id]}

LEMMA NotePendingNotices ==
  ASSUME NEW s \in Snapshot, AllNamed(s), NEW c \in Chat, NEW id \in Id
  PROVE  Noticed(s, NotePending(s, c, id), c, id)
<1> DEFINE t == NotePending(s, c, id)
           free == {i \in 1 .. Len(s.holds) : s.holds[i].chat = c /\ s.holds[i].id = NoRow}
           p == CHOOSE q \in InChat(s.open, c) : TRUE
           left == {u \in s.unbound : u.request # p.request}
                      \cup {[request |-> p.request, chat |-> c, id |-> id]}
<1>1. CASE InChat(s.open, c) # {}
  <2>1. p \in InChat(s.open, c) BY <1>1
  <2>2. t = [s EXCEPT !.unbound = left] BY <1>1 DEF NotePending
  <2> HIDE DEF p, t
  <2>3. left = {u \in s.unbound : u.request # p.request}
                   \cup {[request |-> p.request, chat |-> c, id |-> id]}
    OBVIOUS
  <2> HIDE DEF left
  <2>4. t.holds = s.holds /\ t.unbound = left BY <2>2
  <2>. QED BY <1>1, <2>1, <2>3, <2>4 DEF Noticed, t
<1>2. CASE InChat(s.open, c) = {}
  <2>1. free = {}
    <3>1. \A i \in 1 .. Len(s.holds) : s.holds[i].id = LineId(s.holds[i].request) /\ s.holds[i].request \in Request
      <4>1. \A i \in 1 .. Len(s.holds) : s.holds[i] \in Hold BY DEF Snapshot
      <4>. QED BY <4>1 DEF AllNamed, LineNamed, Hold
    <3>2. \A r \in Request : LineId(r) # NoRow
      BY SendRows DEF LineId, Id, Request
    <3>. QED BY <3>1, <3>2
  <2>2. Cardinality(free) # 1 BY <2>1, FS_EmptySet
  <2>3. t = s BY <1>2, <2>2 DEF NotePending
  <2>. QED BY <1>2, <2>3 DEF Noticed
<1>. QED BY <1>1, <1>2

(* The lines when the message m comes, instead of old or as a new one.     *)
Arrives(s, t, m, old) ==
    /\ protocol = "discord" \/ m.delivery # "pending" => Shrinks(s, t)
    /\ protocol # "discord" /\ m.delivery # "pending" =>
          \A j \in 1 .. Len(t.holds) : t.holds[j].id # old
    /\ protocol # "discord" /\ m.delivery = "pending" => Noticed(s, t, m.chat, m.id)

LEMMA ObserveSees ==
  ASSUME NEW s \in Snapshot, NEW m \in Row, NEW old,
         protocol # "discord" => AllNamed(s),
         protocol # "discord" /\ m.delivery = "pending" => old = NoRow \/ ~Names(s, old)
  PROVE  LET t == Observe(s, m, old)
         IN  /\ protocol = "discord" \/ m.delivery # "pending" => Shrinks(s, t)
             /\ protocol # "discord" /\ m.delivery # "pending" =>
                   \A j \in 1 .. Len(t.holds) : t.holds[j].id # old
             /\ protocol # "discord" /\ m.delivery = "pending" => Noticed(s, t, m.chat, m.id)
<1> DEFINE t == Observe(s, m, old)
           u == ReleaseForMessage(s, old)
           v == ReleaseForMessage(u, m.id)
<1>1. CASE protocol = "discord"
  <2>1. t = s BY <1>1 DEF Observe
  <2> HIDE DEF t
  <2>2. SameLines(s, t) BY <2>1 DEF SameLines
  <2>. QED BY <1>1, <2>2, SameShrinks DEF t
<1>2. CASE protocol # "discord" /\ m.delivery # "pending"
  <2>1. t = v BY <1>2 DEF Observe
  <2>2. u \in Snapshot /\ Shrinks(s, u) /\ \A j \in 1 .. Len(u.holds) : u.holds[j].id # old
    BY <1>2, ReleaseForMessageSets, ReleaseLeaves
  <2> HIDE DEF u, t
  <2>3. Shrinks(u, v) BY <2>2, ReleaseLeaves
  <2> HIDE DEF v
  <2>4. Shrinks(s, v) BY <2>2, <2>3, ShrinksTwice
  <2>5. \A j \in 1 .. Len(v.holds) : v.holds[j].id # old BY <2>2, <2>3, NamedStays
  <2>. QED BY <1>2, <2>1, <2>4, <2>5 DEF t
<1>3. CASE protocol # "discord" /\ m.delivery = "pending"
  <2>1. t = NotePending(s, m.chat, m.id) BY <1>3 DEF Observe
  <2> HIDE DEF t
  <2>2. Noticed(s, t, m.chat, m.id) BY <1>3, <2>1, RowIsTyped, NotePendingNotices
  <2>. QED BY <1>3, <2>2 DEF t
<1>. QED BY <1>1, <1>2, <1>3

LEMMA NoticedOn ==
  ASSUME NEW s, NEW t, NEW u, NEW c, NEW id, Noticed(s, t, c, id), SameLines(t, u)
  PROVE  Noticed(s, u, c, id)
BY DEF Noticed, SameLines

LEMMA ReceivedArrives ==
  ASSUME NEW s \in Snapshot, NEW m \in Row, protocol # "discord" => AllNamed(s)
  PROVE  Arrives(s, Received(s, m), m, NoRow)
<1> DEFINE n == NoteDelivery(s, DeliveryOf(s, m.chat, m.id), m)
           o == Observe(n, m, NoRow)
           t == Upsert(o, m)
<1>1. /\ n \in Snapshot /\ Shrinks(s, n) /\ (m.delivery # "failed" => n = s)
  BY NoteDeliverySets, NoteDeliveryLeaves
<1>2. Received(s, m) = t BY DEF Received
<1> HIDE DEF n
<1>3. protocol # "discord" => AllNamed(n) BY <1>1, NamedStays
<1>4. /\ o \in Snapshot
      /\ protocol = "discord" \/ m.delivery # "pending" => Shrinks(n, o)
      /\ protocol # "discord" /\ m.delivery # "pending" =>
            \A j \in 1 .. Len(o.holds) : o.holds[j].id # NoRow
      /\ protocol # "discord" /\ m.delivery = "pending" => Noticed(n, o, m.chat, m.id)
  BY <1>1, <1>3, ObserveSets, ObserveSees
<1> HIDE DEF o
<1>5. SameLines(o, t)
  <2>1. Frame(o, t, {"rows"}) BY <1>4, UpsertSets
  <2> HIDE DEF t
  <2>. QED BY <2>1, FrameLines DEF Lines
<1> HIDE DEF t
<1>6. protocol = "discord" \/ m.delivery # "pending" => Shrinks(s, t)
  BY <1>1, <1>4, <1>5, SameShrinks, ShrinksTwice
<1>7. protocol # "discord" /\ m.delivery # "pending" =>
         \A j \in 1 .. Len(t.holds) : t.holds[j].id # NoRow
  BY <1>4, <1>5 DEF SameLines
<1>8. protocol # "discord" /\ m.delivery = "pending" => Noticed(s, t, m.chat, m.id)
  BY <1>1, <1>4, <1>5, NoticedOn
<1>. QED BY <1>2, <1>6, <1>7, <1>8 DEF Arrives

LEMMA ReplacedArrives ==
  ASSUME NEW s \in Snapshot, NEW m \in Row, NEW old, protocol # "discord" => AllNamed(s),
         protocol # "discord" /\ m.delivery = "pending" => ~Names(s, old)
  PROVE  Arrives(s, Replaced(s, old, m), m, old)
<1> DEFINE n == NoteDelivery(s, DeliveryOf(s, m.chat, old), m)
           o == Observe(n, m, old)
           left == o.rows \ RowOf(s, m.chat, old)
           p == [o EXCEPT !.rows = left]
           t == Upsert(p, m)
<1>1. /\ n \in Snapshot /\ Shrinks(s, n) /\ (m.delivery # "failed" => n = s)
  BY NoteDeliverySets, NoteDeliveryLeaves
<1>2. Replaced(s, old, m) = t BY DEF Replaced
<1> HIDE DEF n
<1>3. /\ protocol # "discord" => AllNamed(n)
      /\ protocol # "discord" /\ m.delivery = "pending" => ~Names(n, old)
  BY <1>1, NamedStays
<1>4. /\ o \in Snapshot
      /\ protocol = "discord" \/ m.delivery # "pending" => Shrinks(n, o)
      /\ protocol # "discord" /\ m.delivery # "pending" =>
            \A j \in 1 .. Len(o.holds) : o.holds[j].id # old
      /\ protocol # "discord" /\ m.delivery = "pending" => Noticed(n, o, m.chat, m.id)
  BY <1>1, <1>3, ObserveSets, ObserveSees
<1> HIDE DEF o
<1>5. left \in SUBSET Row BY <1>4 DEF Snapshot
<1> HIDE DEF left
<1>6. p \in Snapshot /\ SameLines(o, p) BY <1>4, <1>5 DEF Snapshot, SameLines
<1> HIDE DEF p
<1>7. SameLines(p, t)
  <2>1. Frame(p, t, {"rows"}) BY <1>6, UpsertSets
  <2> HIDE DEF t
  <2>. QED BY <2>1, FrameLines DEF Lines
<1> HIDE DEF t
<1>8. SameLines(o, t) BY <1>6, <1>7 DEF SameLines
<1>9. protocol = "discord" \/ m.delivery # "pending" => Shrinks(s, t)
  BY <1>1, <1>4, <1>8, SameShrinks, ShrinksTwice
<1>10. protocol # "discord" /\ m.delivery # "pending" =>
         \A j \in 1 .. Len(t.holds) : t.holds[j].id # old
  BY <1>4, <1>8 DEF SameLines
<1>11. protocol # "discord" /\ m.delivery = "pending" => Noticed(s, t, m.chat, m.id)
  BY <1>1, <1>4, <1>8, NoticedOn
<1>. QED BY <1>2, <1>9, <1>10, <1>11 DEF Arrives

-----------------------------------------------------------------------------
(* What an answer does to the lines.                                       *)
Accepts(s, t, c, r) ==
    /\ t.unbound \subseteq s.unbound
    /\ \A j \in 1 .. Len(t.holds) :
          \/ \E i \in 1 .. Len(s.holds) : t.holds[j] = s.holds[i]
          \/ /\ protocol # "discord"
             /\ t.holds[j].request = r
             /\ RowReady(s, c, r) => t.holds[j].id = LineId(r)

LEMMA HoldLineAccepts ==
  ASSUME NEW s \in Snapshot, NEW c \in Chat, NEW r \in Request
  PROVE  Accepts(s, HoldLine(s, c, r), c, r)
<1> DEFINE t == HoldLine(s, c, r)
           mine == {u \in s.unbound : u.request = r /\ u.chat = c}
           id == IF mine = {} THEN NoRow ELSE (CHOOSE u \in mine : TRUE).id
           h == [request |-> r, chat |-> c, id |-> id]
           left == s.unbound \ mine
           held == Append(s.holds, h)
<1>1. CASE protocol = "discord"
  <2>1. t = s BY <1>1 DEF HoldLine
  <2> HIDE DEF t
  <2>2. Accepts(s, t, c, r) BY <2>1 DEF Accepts
  <2>. QED BY <2>2 DEF t
<1>2. CASE protocol # "discord"
  <2>1. t = [s EXCEPT !.unbound = left, !.holds = held] BY <1>2 DEF HoldLine
  <2>2. RowReady(s, c, r) => id = LineId(r)
    <3> SUFFICES ASSUME RowReady(s, c, r) PROVE id = LineId(r)
      OBVIOUS
    <3>1. mine # {} BY DEF RowReady
    <3>2. (CHOOSE u \in mine : TRUE) \in mine BY <3>1
    <3>3. \A u \in mine : u.id = LineId(r) BY DEF RowReady
    <3> DEFINE w == CHOOSE u \in mine : TRUE
    <3>4. w \in mine /\ id = w.id BY <3>1, <3>2
    <3> HIDE DEF w, mine, id
    <3>. QED BY <3>3, <3>4
  <2>3. h.request = r /\ h.id = id OBVIOUS
  <2>4. s.holds \in Seq(Hold) /\ left \subseteq s.unbound BY DEF Snapshot
  <2> HIDE DEF id, h, left, t
  <2>5. /\ Len(held) = Len(s.holds) + 1 /\ held[Len(s.holds) + 1] = h /\ Len(s.holds) \in Nat
        /\ \A j \in 1 .. Len(s.holds) : held[j] = s.holds[j]
    BY <2>4
  <2> HIDE DEF held
  <2>6. t.holds = held /\ t.unbound = left BY <2>1
  <2>7. \A j \in 1 .. Len(held) : (j \in 1 .. Len(s.holds) /\ held[j] = s.holds[j]) \/ held[j] = h
    BY <2>5
  <2>8. Accepts(s, t, c, r) BY <1>2, <2>2, <2>3, <2>4, <2>6, <2>7 DEF Accepts
  <2>. QED BY <2>8 DEF t
<1>. QED BY <1>1, <1>2

(* Without a send that expired, an accept is of an open send, or of none.  *)
LEMMA AcceptedAccepts ==
  ASSUME NEW s \in Snapshot, NEW c \in Chat, NEW r \in Request, s.expired = {}
  PROVE  LET t == Accepted(s, c, r)
         IN  \/ t = s
             \/ Asked(s.open, c, r) # {} /\ Accepts(s, t, c, r)
<1> DEFINE t == Accepted(s, c, r)
           mine == Asked(s.open, c, r)
           p == CHOOSE x \in mine : TRUE
           kept == s.open \ mine
           s0 == [s EXCEPT !.open = kept]
           settled == DropRejectedBody(s0, c)
           cleared == IF p.row = NoRow THEN ClearSentText(settled, c, p.text) ELSE settled
<1>1. CASE mine = {}
  <2>1. Asked(s.expired, c, r) = {} BY DEF Asked
  <2>2. LateAccept(s, c, r) = s BY <2>1 DEF LateAccept
  <2>3. t = s BY <1>1, <2>2 DEF Accepted
  <2>. QED BY <2>3
<1>2. CASE mine # {}
  <2>1. t = HoldLine(cleared, c, r) BY <1>2 DEF Accepted
  <2>2. p \in s.open /\ p \in Pending
    <3>1. p \in s.open BY <1>2, AskedIsIn
    <3> HIDE DEF p
    <3>. QED BY <3>1 DEF Snapshot
  <2> HIDE DEF p, t, mine
  <2>3. kept \subseteq s.open OBVIOUS
  <2> HIDE DEF kept
  <2>4. s0 \in Snapshot /\ SameLines(s, s0) BY <2>3 DEF Snapshot, SameLines
  <2> HIDE DEF s0
  <2>5. settled \in Snapshot /\ SameLines(s0, settled)
    <3>1. settled \in Snapshot /\ Frame(s0, settled, {"rejected"})
      BY <2>4, DropRejectedBodySets
    <3> HIDE DEF settled
    <3>. QED BY <3>1, FrameLines DEF Lines
  <2> HIDE DEF settled
  <2>6. cleared \in Snapshot /\ SameLines(settled, cleared)
    <3>1. CASE p.row = NoRow
      <4>1. cleared = ClearSentText(settled, c, p.text) BY <3>1
      <4>2. cleared \in Snapshot /\ Frame(settled, cleared, Texts)
        BY <2>2, <2>5, <4>1, PendingIsTyped, ClearSentTextSets
      <4> HIDE DEF cleared
      <4>. QED BY <4>2, FrameLines DEF Texts, Lines
    <3>2. CASE p.row # NoRow BY <2>5, <3>2 DEF SameLines
    <3>. QED BY <3>1, <3>2
  <2> HIDE DEF cleared
  <2>7. Accepts(cleared, t, c, r) BY <2>1, <2>6, HoldLineAccepts
  <2>8. cleared.holds = s.holds /\ cleared.unbound = s.unbound
    BY <2>4, <2>5, <2>6 DEF SameLines
  <2>9. Accepts(s, t, c, r) BY <2>7, <2>8 DEF Accepts, RowReady
  <2>. QED BY <1>2, <2>9 DEF t, mine
<1>. QED BY <1>1, <1>2

LEMMA PruneUnboundLeaves ==
  ASSUME NEW s, Lines \subseteq DOMAIN s
  PROVE  PruneUnbound(s).holds = s.holds /\ PruneUnbound(s).unbound = {u \in s.unbound : Tracks(s, u.request)}
<1> DEFINE left == {u \in s.unbound : Tracks(s, u.request)}
<1>1. PruneUnbound(s) = [s EXCEPT !.unbound = left] BY DEF PruneUnbound
<1> HIDE DEF left
<1>2. PruneUnbound(s).holds = s.holds /\ PruneUnbound(s).unbound = left
  BY <1>1 DEF Lines
<1>. QED BY <1>2 DEF left

LEMMA RejectedLeaves ==
  ASSUME NEW s \in Snapshot, NEW c \in Chat, NEW r \in Request
  PROVE  LET t == Rejected(s, c, r)
         IN  Within(s, t) /\ t.unbound \subseteq s.unbound
<1> DEFINE mine == Asked(s.open, c, r)
           p == CHOOSE x \in mine : TRUE
           ended == EndHold(s, r)
           left == ended.open \ mine
           settled == [ended EXCEPT !.open = left]
           failed == SetDelivery(settled, c, p.row, "failed")
           sendNoted == [settled EXCEPT !.rejected[c].text = p.text]
           rowNoted == [failed EXCEPT !.rejected[c].row =
                           IF RowOf(s, c, p.row) = {} THEN @
                           ELSE (CHOOSE m \in RowOf(s, c, p.row) : TRUE).text]
           noted == IF p.row = NoRow THEN sendNoted ELSE rowNoted
           kept == ended.expired \ Asked(ended.expired, c, r)
           late == [ended EXCEPT !.expired = kept]
           told == [noted EXCEPT !.error = "failed"]
           u == IF mine = {} THEN late ELSE told
           t == PruneUnbound(u)
<1>1. Rejected(s, c, r) = t
  <2>1. CASE mine = {}
    <3>1. t = PruneUnbound(late) BY <2>1
    <3>. QED BY <2>1, <3>1 DEF Rejected
  <2>2. CASE mine # {}
    <3>1. t = PruneUnbound(told) BY <2>2
    <3>2. Rejected(s, c, r) = PruneUnbound(told) BY <2>2 DEF Rejected
    <3>. QED BY <3>1, <3>2
  <2>. QED BY <2>1, <2>2
<1>2. ended \in Snapshot /\ Shrinks(s, ended) BY EndHoldSets, EndHoldLeaves
<1> HIDE DEF ended
<1>3. left \subseteq ended.open /\ kept \subseteq ended.expired OBVIOUS
<1> HIDE DEF left, kept
<1>4. settled \in Snapshot /\ SameLines(ended, settled) /\ SameLines(ended, late)
  BY <1>2, <1>3 DEF Snapshot, SameLines
<1> HIDE DEF settled, late
<1>5. failed \in Snapshot /\ Shrinks(settled, failed)
  BY <1>4, SetDeliverySets, SetDeliveryLeaves
<1> HIDE DEF failed, p
<1>10. Lines \subseteq DOMAIN settled /\ Lines \subseteq DOMAIN failed /\ Lines \subseteq DOMAIN late
  <2>1. \A x \in Snapshot : Lines \subseteq DOMAIN x BY DEF Snapshot, Lines
  <2>2. late \in Snapshot BY <1>2, <1>3 DEF Snapshot, late
  <2>. QED BY <1>4, <1>5, <2>1, <2>2
<1>6. /\ SameLines(settled, sendNoted) /\ SameLines(failed, rowNoted)
      /\ Lines \subseteq DOMAIN sendNoted /\ Lines \subseteq DOMAIN rowNoted
  BY <1>10 DEF SameLines, Lines
<1> HIDE DEF sendNoted, rowNoted
<1>7. Shrinks(s, late) /\ Shrinks(s, noted) /\ Lines \subseteq DOMAIN noted
  BY <1>2, <1>4, <1>5, <1>6, SameShrinks, ShrinksTwice
<1> HIDE DEF noted
<1>8. SameLines(noted, told) /\ Lines \subseteq DOMAIN told BY <1>7 DEF SameLines, Lines
<1> HIDE DEF told
<1>9. Lines \subseteq DOMAIN u /\ Shrinks(s, u)
  BY <1>7, <1>8, <1>10, SameShrinks, ShrinksTwice
<1> HIDE DEF u
<1>11. t.holds = u.holds /\ t.unbound \subseteq u.unbound BY <1>9, PruneUnboundLeaves
<1> HIDE DEF t
<1>. QED BY <1>1, <1>9, <1>11 DEF Shrinks, Within

-----------------------------------------------------------------------------
(* Steps of the adapter.                                                   *)
Tells(new) ==
    /\ \A i \in 1 .. Len(new) : EventStaged(new[i])
    /\ \A m \in flight.sent : \/ \E n \in flight'.sent : n.id = m.id
                              \/ \E i \in 1 .. Len(new) : EndsLine(new[i], m.id)
    /\ \A i \in 1 .. Len(new) : new[i].type = "accepted" =>
          /\ i = 2 /\ BringsLine(new[1], new[i].chat, new[i].request)
          /\ \E n \in flight'.sent : n.id = LineId(new[i].request)

LEMMA DiscordIsQuiet ==
  ASSUME OwnLines, UNCHANGED <<protocol, core>>, protocol = "discord"
  PROVE  Staged' /\ OwnLines'
BY DEF Staged, OwnLines

LEMMA TellsKeeps ==
  ASSUME Shapes, Staged, OwnLines, NEW new \in Seq(Event), answers' = answers \o new,
         UNCHANGED <<protocol, core>>,
         \A i \in 1 .. Len(calls') : \E j \in 1 .. Len(calls) : calls'[i] = calls[j],
         protocol = "telegram" => Tells(new)
  PROVE  Staged' /\ OwnLines'
<1>1. CASE protocol = "discord" BY <1>1, DiscordIsQuiet
<1>2. CASE protocol = "telegram"
  <2> DEFINE N == Len(answers)
  <2>1. /\ N \in Nat /\ Len(new) \in Nat /\ Len(answers') = N + Len(new)
        /\ \A i \in 1 .. N : answers'[i] = answers[i] /\ i \in 1 .. Len(answers')
        /\ \A i \in 1 .. Len(answers') : i > N => answers'[i] = new[i - N] /\ i - N \in 1 .. Len(new)
        /\ \A i \in 1 .. Len(new) : answers'[i + N] = new[i] /\ i + N \in 1 .. Len(answers')
    BY Added
  <2>2. \A i \in 1 .. Len(answers') : i \in 1 .. N \/ i > N BY <2>1
  <2> HIDE DEF N
  <2>3. \A i \in 1 .. N : EventStaged(answers[i]) BY <1>2 DEF Staged, N
  <2>4. \A i \in 1 .. Len(new) : EventStaged(new[i]) BY <1>2 DEF Tells
  <2>5. \A i \in 1 .. Len(answers') : EventStaged(answers'[i]) BY <2>1, <2>2, <2>3, <2>4
  <2>6. Staged'
    <3>1. \A i \in 1 .. Len(calls') : AskStaged(calls'[i]) BY <1>2 DEF Staged
    <3>. QED BY <1>2, <2>5, <3>1 DEF Staged, RowStaged, AskStaged
  <2>7. ASSUME NEW id, NEW n \in 0 .. N, WillEnd(id, n)
        PROVE  WillEnd(id, n)'
    <3>1. CASE AtServerAs(id)
      <4>1. PICK m \in flight.sent : m.id = id BY <3>1 DEF AtServerAs
      <4>2. CASE \E k \in flight'.sent : k.id = id BY <4>2 DEF WillEnd, AtServerAs
      <4>3. CASE \E i \in 1 .. Len(new) : EndsLine(new[i], id)
        <5>1. PICK i \in 1 .. Len(new) : EndsLine(new[i], id) BY <4>3
        <5>2. i + N \in 1 .. Len(answers') /\ i + N > n /\ EndsLine(answers'[i + N], id)
          BY <2>1, <5>1
        <5>. QED BY <5>2 DEF WillEnd
      <4>. QED BY <1>2, <4>1, <4>2, <4>3 DEF Tells
    <3>2. CASE \E j \in 1 .. N : j > n /\ EndsLine(answers[j], id)
      <4>1. PICK j \in 1 .. N : j > n /\ EndsLine(answers[j], id) BY <3>2
      <4>2. j \in 1 .. Len(answers') /\ answers'[j] = answers[j] BY <2>1
      <4>. QED BY <4>1, <4>2 DEF WillEnd
    <3>. QED BY <2>7, <3>1, <3>2 DEF WillEnd, N
  <2>8. ASSUME core.late = {}
        PROVE  LinesEnd' /\ AcceptsFollow'
    <3>1. LinesEnd'
      <4>1. \A i \in 1 .. Len(core.holds) : LineNamed(core.holds[i]) /\ WillEnd(core.holds[i].id, 0)
        BY <1>2, <2>8 DEF OwnLines, LinesEnd
      <4>2. 0 \in 0 .. N BY <2>1
      <4>3. \A i \in 1 .. Len(core.holds) : WillEnd(core.holds[i].id, 0)'
        BY <2>7, <4>1, <4>2
      <4>. QED BY <4>1, <4>3 DEF LinesEnd
    <3>2. ASSUME NEW i \in 1 .. Len(answers'), answers'[i].type = "accepted",
                 NEW c, c = answers'[i].chat, NEW r, r = answers'[i].request
          PROVE  WillEnd(LineId(r), i)' /\ (Awaits(core, r) => IF i = 1 THEN RowReady(core, c, r)
                                                             ELSE BringsLine(answers'[i - 1], c, r))
      <4>1. CASE i \in 1 .. N
        <5>1. Follows(i, c, r) /\ answers'[i] = answers[i] /\ i \in 0 .. N
          BY <1>2, <2>1, <2>8, <3>2, <4>1 DEF OwnLines, AcceptsFollow, N
        <5>2. WillEnd(LineId(r), i)' BY <2>7, <5>1 DEF Follows
        <5>3. i # 1 => i - 1 \in 1 .. N BY <2>1, <4>1
        <5>4. i # 1 => answers'[i - 1] = answers[i - 1] BY <2>1, <5>3
        <5>. QED BY <5>1, <5>2, <5>4 DEF Follows
      <4>2. CASE i > N
        <5>1. answers'[i] = new[i - N] /\ i - N \in 1 .. Len(new) BY <2>1, <4>2
        <5>2. /\ i - N = 2 /\ BringsLine(new[1], c, r)
              /\ \E n \in flight'.sent : n.id = LineId(r)
          BY <1>2, <3>2, <5>1 DEF Tells
        <5>3. i # 1 /\ 1 \in 1 .. Len(new) /\ i - 1 = 1 + N BY <2>1, <5>1, <5>2
        <5>4. answers'[i - 1] = new[1] BY <2>1, <5>3
        <5>5. WillEnd(LineId(r), i)' BY <5>2 DEF WillEnd, AtServerAs
        <5>. QED BY <5>2, <5>3, <5>4, <5>5
      <4>. QED BY <2>2, <4>1, <4>2
    <3>3. ASSUME NEW i \in 1 .. Len(answers'), answers'[i].type = "accepted"
          PROVE  Follows(i, answers[i].chat, answers[i].request)'
      <4>1. PICK c, r : c = answers'[i].chat /\ r = answers'[i].request OBVIOUS
      <4>2. WillEnd(LineId(r), i)' /\ (Awaits(core, r) => IF i = 1 THEN RowReady(core, c, r)
                                                        ELSE BringsLine(answers'[i - 1], c, r))
        BY <3>2, <3>3, <4>1
      <4>. QED BY <4>1, <4>2 DEF Follows, WillEnd, EndsLine, Awaits, RowReady, Brings,
          LineId
    <3>4. AcceptsFollow' BY <3>3 DEF AcceptsFollow
    <3>. QED BY <3>1, <3>4
  <2>9. OwnLines' BY <1>2, <2>8 DEF OwnLines
  <2>. QED BY <2>6, <2>9
<1>. QED BY <1>1, <1>2 DEF Shapes

LEMMA CallsLeft ==
  ASSUME Shapes, calls # <<>>, calls' = Tail(calls), NEW p, p = Head(calls)
  PROVE  /\ p.request \in Request /\ p.chat \in Chat /\ p.text \in Text /\ p.row \in Id \cup {NoRow}
         /\ protocol = "telegram" /\ Staged => AskStaged(p)
         /\ \A i \in 1 .. Len(calls') : \E j \in 1 .. Len(calls) : calls'[i] = calls[j]
BY CallIsTyped DEF Staged

LEMMA TelegramTakesTells ==
  ASSUME Shapes, Staged, OwnLines, TelegramTakes
  PROVE  Staged' /\ OwnLines'
<1>1. PICK p : p = Head(calls) OBVIOUS
<1> DEFINE row == Message(p, "pending")
           told == IF p.row = NoRow THEN ReceivedEvent(row) ELSE ReplacedEvent(p.row, row)
           yes == AnswerEvent("accepted", p)
           new == <<told, yes>>
           mine == Sent(p, row.id)
           sent == flight.sent \cup {mine}
           left == {m \in flight.resend : m.id # p.row}
<1>2. /\ calls # <<>> /\ calls' = Tail(calls) /\ UNCHANGED <<protocol, core>>
      /\ answers' = answers \o new /\ protocol = "telegram"
      /\ flight' = [flight EXCEPT !.sent = sent, !.resend = left]
  BY <1>1 DEF TelegramTakes, Take, Emit
<1>3. /\ p.request \in Request /\ p.chat \in Chat /\ p.text \in Text /\ p.row \in Id \cup {NoRow}
      /\ AskStaged(p)
      /\ \A i \in 1 .. Len(calls') : \E j \in 1 .. Len(calls) : calls'[i] = calls[j]
  BY <1>1, <1>2, CallsLeft
<1>4. row \in Row /\ row.id = LineId(p.request) /\ row.chat = p.chat
  BY <1>3, MessageParts DEF LineId
<1>5. told.message = row /\ Brings(told) /\ EventStaged(told) /\ told.type # "accepted"
  <2>1. CASE p.row = NoRow
    <3>1. told.type = "received" /\ told.message = row /\ Brings(told)
      BY <2>1, ReceivedParts
    <3>. QED BY <3>1 DEF EventStaged
  <2>2. CASE p.row # NoRow
    <3>1. told.type = "replaced" /\ told.old = p.row /\ told.message = row /\ Brings(told)
      BY <2>2, ReplacedParts
    <3>. QED BY <1>3, <2>2, <3>1 DEF EventStaged, AskStaged
  <2>. QED BY <2>1, <2>2
<1>6. yes.type = "accepted" /\ yes.request = p.request /\ yes.chat = p.chat
  BY DEF AnswerEvent
<1>7. told \in Event /\ yes \in Event
  <2>1. p.row # NoRow => p.row \in Id BY <1>3
  <2>. QED BY <1>3, <1>4, <2>1, EventsAreTyped
<1>8. mine.id = LineId(p.request) BY <1>4 DEF Sent
<1>9. flight'.sent = sent
  <2> HIDE DEF sent, left, new
  <2>. QED BY <1>2
<1>10. new \in Seq(Event) /\ Len(new) = 2 /\ new[1] = told /\ new[2] = yes
  <2> HIDE DEF told, yes
  <2>. QED BY <1>7
<1> HIDE DEF row, told, yes, mine, new
<1>11. \A i \in 1 .. Len(new) : (i = 1 /\ new[i] = told) \/ (i = 2 /\ new[i] = yes)
  BY <1>10
<1>12. EventStaged(yes) BY <1>6 DEF EventStaged
<1>13. BringsLine(told, yes.chat, yes.request) BY <1>4, <1>5, <1>6 DEF BringsLine
<1>14. Tells(new) BY <1>5, <1>6, <1>8, <1>9, <1>10, <1>11, <1>12, <1>13 DEF Tells
<1>. QED BY <1>2, <1>3, <1>10, <1>14, TellsKeeps

LEMMA DiscordTakesTells ==
  ASSUME OwnLines, DiscordTakes
  PROVE  Staged' /\ OwnLines'
<1>1. protocol = "discord" /\ UNCHANGED <<protocol, core>> BY DEF DiscordTakes, Take
<1>. QED BY <1>1, DiscordIsQuiet

LEMMA RefuseTells ==
  ASSUME Shapes, Staged, OwnLines, Refuse
  PROVE  Staged' /\ OwnLines'
<1>1. PICK p : p = Head(calls) OBVIOUS
<1> DEFINE no == AnswerEvent("rejected", p)
           failed == FailedEvent(p.chat, p.row)
           first == IF p.row # NoRow /\ protocol = "telegram" THEN <<failed>> ELSE <<>>
           new == first \o <<no>>
<1>2. /\ calls # <<>> /\ calls' = Tail(calls) /\ UNCHANGED <<protocol, core, flight>>
      /\ answers' = answers \o new
  BY <1>1 DEF Refuse, Take, Emit
<1>3. /\ p.request \in Request /\ p.chat \in Chat /\ p.row \in Id \cup {NoRow}
      /\ protocol = "telegram" => AskStaged(p)
      /\ \A i \in 1 .. Len(calls') : \E j \in 1 .. Len(calls) : calls'[i] = calls[j]
  BY <1>1, <1>2, CallsLeft
<1>4. no.type = "rejected" BY DEF AnswerEvent
<1>5. failed.type = "failed" /\ failed.id = p.row BY FailedParts
<1>6. no \in Event /\ (p.row # NoRow => failed \in Event) BY <1>3, EventsAreTyped
<1> HIDE DEF no, failed
<1>7. /\ first \in Seq(Event)
      /\ \A i \in 1 .. Len(first) : first[i] = failed /\ p.row # NoRow
  BY <1>6
<1> HIDE DEF first
<1>8. new \in Seq(Event) /\ \A i \in 1 .. Len(new) : new[i] = no \/ (new[i] = failed /\ p.row # NoRow)
  BY <1>6, <1>7
<1> HIDE DEF new
<1>9. protocol = "telegram" => \A i \in 1 .. Len(new) : EventStaged(new[i])
  BY <1>3, <1>4, <1>5, <1>8 DEF EventStaged, AskStaged
<1>10. protocol = "telegram" => Tells(new) BY <1>2, <1>4, <1>5, <1>8, <1>9 DEF Tells
<1>. QED BY <1>2, <1>3, <1>8, <1>10, TellsKeeps

LEMMA AnnounceTells ==
  ASSUME Shapes, Staged, OwnLines, NEW m \in flight.sent, Announce(m)
  PROVE  Staged' /\ OwnLines'
<1> DEFINE row == Message(m, "pending")
           told == ReceivedEvent(row)
           new == <<told>>
           yes == TRUE
           n == [m EXCEPT !.announced = yes]
           sent == (flight.sent \ {m}) \cup {n}
<1>1. /\ UNCHANGED <<protocol, core, calls>> /\ answers' = answers \o new
      /\ flight' = [flight EXCEPT !.sent = sent]
  BY DEF Announce, Emit
<1>2. m.request \in Request /\ m.chat \in Chat /\ m.text \in Text BY SentIsTyped
<1>3. row \in Row BY <1>2, MessageParts
<1>4. told.type = "received" BY ReceivedParts
<1>5. told \in Event BY <1>3, EventsAreTyped
<1> HIDE DEF row, told
<1>6. n.id = m.id OBVIOUS
<1> HIDE DEF n
<1>7. flight'.sent = sent
  <2> HIDE DEF sent
  <2>. QED BY <1>1
<1>8. new \in Seq(Event) /\ \A i \in 1 .. Len(new) : new[i] = told BY <1>5
<1> HIDE DEF new
<1>9. Tells(new) BY <1>4, <1>6, <1>7, <1>8 DEF Tells, EventStaged
<1>. QED BY <1>1, <1>8, <1>9, TellsKeeps

(* A message that leaves the server is replaced.                           *)
LEMMA LeavesTells ==
  ASSUME Shapes, Staged, OwnLines, NEW m \in flight.sent, UNCHANGED <<protocol, core, calls>>,
         flight'.sent = flight.sent \ {m}, NEW stage \in {"sent", "failed"},
         answers' = answers \o <<ReplacedEvent(m.id, Message(m, stage))>>
  PROVE  Staged' /\ OwnLines'
<1> DEFINE row == Message(m, stage)
           told == ReplacedEvent(m.id, row)
           new == <<told>>
<1>1. m.request \in Request /\ m.chat \in Chat /\ m.text \in Text /\ m.id \in Id
  BY SentIsTyped
<1>2. row \in Row /\ row.delivery # "pending" BY <1>1, MessageParts
<1>3. told.type = "replaced" /\ told.old = m.id /\ told.message = row BY ReplacedParts
<1>4. told \in Event BY <1>1, <1>2, EventsAreTyped
<1> HIDE DEF row, told
<1>5. /\ new \in Seq(Event) /\ 1 \in 1 .. Len(new) /\ new[1] = told
      /\ \A i \in 1 .. Len(new) : new[i] = told
  BY <1>4
<1>7. answers' = answers \o new BY DEF told, row
<1> HIDE DEF new
<1>6. Tells(new) BY <1>2, <1>3, <1>5 DEF Tells, EventStaged, EndsLine
<1>. QED BY <1>5, <1>6, <1>7, TellsKeeps

LEMMA ConfirmTells ==
  ASSUME Shapes, Staged, OwnLines, NEW m \in flight.sent, Confirm(m)
  PROVE  Staged' /\ OwnLines'
<1>1. UNCHANGED <<protocol, core, calls>> BY DEF Confirm
<1>2. CASE protocol = "discord" BY <1>1, <1>2, DiscordIsQuiet
<1>3. CASE protocol # "discord"
  <2> DEFINE told == ReplacedEvent(m.id, Message(m, "sent"))
             left == {k \in flight.resend : k.id # m.id}
             sent == flight.sent \ {m}
  <2>1. answers' = answers \o (<<>> \o <<told>>) /\ flight' = [flight EXCEPT !.sent = sent, !.resend = left]
    BY <1>3 DEF Confirm, Emit
  <2>2. <<>> \o <<told>> = <<told>> OBVIOUS
  <2>3. flight'.sent = sent
    <3> HIDE DEF sent, left, told
    <3>. QED BY <2>1
  <2>. QED BY <1>1, <2>1, <2>2, <2>3, LeavesTells
<1>. QED BY <1>2, <1>3

LEMMA FailMessageTells ==
  ASSUME Shapes, Staged, OwnLines, NEW m \in flight.sent, FailMessage(m)
  PROVE  Staged' /\ OwnLines'
<1>1. UNCHANGED <<protocol, core, calls>> BY DEF FailMessage
<1>2. CASE protocol = "discord" BY <1>1, <1>2, DiscordIsQuiet
<1>3. CASE protocol # "discord"
  <2> DEFINE told == ReplacedEvent(m.id, Message(m, "failed"))
             resend == flight.resend \cup {Kept(m, <<m.request, "failed">>)}
             sent == flight.sent \ {m}
  <2>1. answers' = answers \o <<told>> /\ flight' = [flight EXCEPT !.sent = sent, !.resend = resend]
    BY <1>3 DEF FailMessage, Emit
  <2>2. flight'.sent = sent
    <3> HIDE DEF sent, resend, told
    <3>. QED BY <2>1
  <2>. QED BY <1>1, <2>1, <2>2, LeavesTells
<1>. QED BY <1>2, <1>3

LEMMA EndTells ==
  ASSUME Shapes, Staged, OwnLines, End
  PROVE  Staged' /\ OwnLines'
<1> DEFINE new == <<EndedEvent>>
<1>1. /\ UNCHANGED <<protocol, core>> /\ answers' = answers \o new
      /\ calls' = <<>> \/ calls' = calls
  BY DEF End, Emit
<1>2. EndedEvent \in Event /\ EndedEvent.type = "ended" BY EventsAreTyped DEF EndedEvent
<1>3. new \in Seq(Event) /\ 1 \in 1 .. Len(new) /\ \A i \in 1 .. Len(new) : new[i] = EndedEvent
  BY <1>2
<1> HIDE DEF new
<1>4. \A i \in 1 .. Len(calls') : \E j \in 1 .. Len(calls) : calls'[i] = calls[j]
  <2>1. CASE calls' = <<>> BY <2>1
  <2>. QED BY <1>1, <2>1
<1>5. Tells(new) BY <1>2, <1>3 DEF Tells, EventStaged, EndsLine
<1>. QED BY <1>1, <1>3, <1>4, <1>5, TellsKeeps

-----------------------------------------------------------------------------
(* Steps of the shell.                                                     *)
LEMMA StagedStays ==
  ASSUME Staged, UNCHANGED protocol,
         protocol = "telegram" =>
            /\ \A m \in core'.rows : m \in core.rows \/ RowStaged(m)
            /\ \A p \in Unanswered(core') : p \in Unanswered(core) \/ AskStaged(p)
            /\ \A i \in 1 .. Len(calls') : (\E j \in 1 .. Len(calls) : calls'[i] = calls[j])
                                           \/ AskStaged(calls'[i])
            /\ \A i \in 1 .. Len(answers') : \E j \in 1 .. Len(answers) : answers'[i] = answers[j]
  PROVE  Staged'
<1> SUFFICES ASSUME protocol = "telegram"
             PROVE  /\ \A m \in core'.rows : RowStaged(m)
                    /\ \A p \in Unanswered(core') : AskStaged(p)
                    /\ \A i \in 1 .. Len(calls') : AskStaged(calls'[i])
                    /\ \A i \in 1 .. Len(answers') : EventStaged(answers'[i])
  BY DEF Staged, AskStaged
<1>1. /\ \A m \in core.rows : RowStaged(m)
      /\ \A p \in Unanswered(core) : AskStaged(p)
      /\ \A i \in 1 .. Len(calls) : AskStaged(calls[i])
      /\ \A i \in 1 .. Len(answers) : EventStaged(answers[i])
  BY DEF Staged
<1>. QED BY <1>1

(* A step that loses some lines and the rows that no send waits for.       *)
LEMMA LinesStay ==
  ASSUME Shapes, Numbers, Marks, OwnLines, UNCHANGED <<protocol, flight, answers>>,
         core'.late = core.late, core'.expired \subseteq core.expired, Within(core, core'),
         core' \in Snapshot,
         core'.unbound \subseteq core.unbound,
         \A u \in core.unbound : Awaits(core', u.request) => u \in core'.unbound,
         \A p \in core'.open : p \in core.open \/ p.request = core.next
  PROVE  OwnLines'
<1> SUFFICES ASSUME core.late = {}
             PROVE  /\ core'.expired = {}
                    /\ protocol = "discord" => Len(core'.holds) = 0
                    /\ protocol = "telegram" =>
                          /\ LinesEnd' /\ AcceptsFollow'
                          /\ \A u \in core'.unbound : u.id[2] = "pending"
  BY DEF OwnLines
<1>1. /\ core.expired = {}
      /\ protocol = "discord" => Len(core.holds) = 0
      /\ protocol = "telegram" =>
            LinesEnd /\ AcceptsFollow /\ \A u \in core.unbound : u.id[2] = "pending"
  BY DEF OwnLines
<1>2. protocol = "discord" => Len(core'.holds) = 0
  <2>1. Len(core.holds) = 0 => 1 .. Len(core.holds) = {} OBVIOUS
  <2>2. Len(core'.holds) \in Nat OBVIOUS
  <2>. QED BY <1>1, <2>1, <2>2 DEF Within
<1>3. \A id, n : WillEnd(id, n) => WillEnd(id, n)' BY DEF WillEnd, AtServerAs
<1>4. ASSUME protocol = "telegram"
      PROVE  LinesEnd'
  <2>1. ASSUME NEW j \in 1 .. Len(core'.holds), NEW h, h = core'.holds[j]
        PROVE  LineNamed(h) /\ WillEnd(h.id, 0)'
    <3>1. PICK i \in 1 .. Len(core.holds) : h = core.holds[i] BY <2>1 DEF Within
    <3>2. LineNamed(h) /\ WillEnd(h.id, 0) BY <1>1, <1>4, <3>1 DEF LinesEnd
    <3>. QED BY <1>3, <3>2
  <2>2. ASSUME NEW j \in 1 .. Len(core'.holds)
        PROVE  (LineNamed(core.holds[j]) /\ WillEnd(core.holds[j].id, 0))'
    <3>1. PICK h : h = core'.holds[j] OBVIOUS
    <3>2. LineNamed(h) /\ WillEnd(h.id, 0)' BY <2>1, <2>2, <3>1
    <3>. QED BY <3>1, <3>2 DEF LineId, WillEnd, EndsLine
  <2>. QED BY <2>2 DEF LinesEnd
<1>5. PICK owner \in Owners : OwnedBy(owner) BY DEF Marks, Owned
<1>6. ASSUME protocol = "telegram"
      PROVE  AcceptsFollow'
  <2>1. ASSUME NEW i \in 1 .. Len(answers), answers[i].type = "accepted",
               NEW c, c = answers[i].chat, NEW r, r = answers[i].request
        PROVE  WillEnd(LineId(r), i)' /\ (Awaits(core', r) => IF i = 1 THEN RowReady(core', c, r)
                                                         ELSE BringsLine(answers[i - 1], c, r))
    <3>1. Follows(i, c, r) BY <1>1, <1>6, <2>1 DEF AcceptsFollow
    <3>2. r < core.next /\ r \in Nat /\ core.next \in Nat
      <4>1. EventGood(owner, answers[i]) /\ answers[i] \in Event
        BY <1>5 DEF OwnedBy, Shapes
      <4>2. r < core.next /\ r \in Request BY <2>1, <4>1, EventIsTyped DEF EventGood
      <4>3. core.next \in 1 .. MaxRequest + 1 BY DEF Shapes, Snapshot
      <4>. QED BY <4>2, <4>3 DEF Request
    <3>3. Awaits(core', r) => Awaits(core, r) BY <3>2 DEF Awaits
    <3>4. RowReady(core, c, r) /\ Awaits(core', r) => RowReady(core', c, r)
      BY DEF RowReady
    <3>5. WillEnd(LineId(r), i)' BY <1>3, <3>1 DEF Follows
    <3>. QED BY <3>1, <3>3, <3>4, <3>5 DEF Follows
  <2>2. ASSUME NEW i \in 1 .. Len(answers'), answers'[i].type = "accepted"
        PROVE  Follows(i, answers[i].chat, answers[i].request)'
    <3>1. PICK c, r : c = answers[i].chat /\ r = answers[i].request OBVIOUS
    <3>2. WillEnd(LineId(r), i)' /\ (Awaits(core', r) => IF i = 1 THEN RowReady(core', c, r)
                                                    ELSE BringsLine(answers[i - 1], c, r))
      BY <2>1, <2>2, <3>1
    <3>. QED BY <3>1, <3>2 DEF Follows, WillEnd, EndsLine, Awaits, RowReady, Brings, LineId
  <2>. QED BY <2>2 DEF AcceptsFollow
<1>. QED BY <1>1, <1>2, <1>4, <1>6

LEMMA SameCoreKeeps ==
  ASSUME Shapes, Numbers, Marks, Staged, OwnLines, core' \in Snapshot,
         UNCHANGED <<protocol, calls, flight, answers>>, NEW A, Frame(core, core', A),
         A \cap {"open", "expired", "rows", "holds", "unbound", "late"} = {}
  PROVE  Staged' /\ OwnLines'
<1>1. /\ core'.open = core.open /\ core'.expired = core.expired /\ core'.rows = core.rows
      /\ core'.holds = core.holds /\ core'.unbound = core.unbound /\ core'.late = core.late
  BY DEF Frame, Field
<1>2. Within(core, core') BY <1>1 DEF Within
<1>3. Unanswered(core') = Unanswered(core) BY <1>1 DEF Unanswered
<1>4. OwnLines' BY <1>1, <1>2, LinesStay
<1>5. Staged' BY <1>1, <1>3, StagedStays
<1>. QED BY <1>4, <1>5

LEMMA TypeLines ==
  ASSUME Shapes, Numbers, Marks, Staged, OwnLines, NEW text \in Box, Type(text)
  PROVE  Staged' /\ OwnLines'
<1>1. core \in Snapshot /\ UNCHANGED <<protocol, calls, flight, answers>>
  BY DEF Shapes, Type
<1>2. core' \in Snapshot BY TypeShapes DEF Shapes
<1>3. Frame(core, core', {"compose"}) BY <1>1 DEF Type, Snapshot, Frame, Field
<1>. QED BY <1>1, <1>2, <1>3, SameCoreKeeps

LEMMA SelectLines ==
  ASSUME Shapes, Numbers, Marks, Staged, OwnLines, NEW c \in Chat \cup {Elsewhere}, Select(c)
  PROVE  Staged' /\ OwnLines'
<1>1. core \in Snapshot /\ UNCHANGED <<protocol, calls, flight, answers>>
  BY DEF Shapes, Select
<1>2. core' \in Snapshot BY SelectShapes DEF Shapes
<1>3. Frame(core, core', {"selected", "compose", "drafts"})
  BY <1>1 DEF Select, Snapshot, Frame, Field
<1>. QED BY <1>1, <1>2, <1>3, SameCoreKeeps

(* A new send or retry.                                                    *)
LEMMA BegunLines ==
  ASSUME Shapes, Numbers, Marks, Staged, OwnLines, Shapes', NEW p, Begun(p),
         protocol = "telegram" => /\ AskStaged(p)
                                  /\ \A m \in core'.rows : m \in core.rows \/ RowStaged(m)
  PROVE  Staged' /\ OwnLines'
<1>1. /\ p.request = core.next
      /\ core'.open = core.open \cup {p} /\ core'.expired = core.expired
      /\ Frame(core, core', {"open", "next", "error", "rows", "compose"})
      /\ UNCHANGED <<protocol, flight, answers>>
  BY DEF Begun
<1>2. core'.holds = core.holds /\ core'.unbound = core.unbound /\ core'.late = core.late
  BY <1>1 DEF Frame, Field
<1>3. OwnLines'
  <2>1. Within(core, core') BY <1>2 DEF Within
  <2>2. core' \in Snapshot BY DEF Shapes
  <2>. QED BY <1>1, <1>2, <2>1, <2>2, LinesStay
<1>4. PICK text : calls' = Append(calls, NewCall(p, text)) /\ NewCall(p, text) \in Call
  BY DEF Begun
<1>5. NewCall(p, text).row = p.row BY DEF NewCall
<1>6. \A i \in 1 .. Len(calls') : (\E j \in 1 .. Len(calls) : calls'[i] = calls[j])
                                  \/ calls'[i] = NewCall(p, text)
  BY <1>4
<1>7. Staged'
  <2>1. protocol = "telegram" => \A i \in 1 .. Len(calls') :
           (\E j \in 1 .. Len(calls) : calls'[i] = calls[j]) \/ AskStaged(calls'[i])
    BY <1>5, <1>6 DEF AskStaged
  <2>2. \A q \in Unanswered(core') : q \in Unanswered(core) \/ q = p
    BY <1>1 DEF Unanswered
  <2>. QED BY <1>1, <2>1, <2>2, StagedStays
<1>. QED BY <1>3, <1>7

LEMMA BeginLines ==
  ASSUME Shapes, Numbers, Marks, Staged, OwnLines
  PROVE  /\ SendCompose => Staged' /\ OwnLines'
         /\ \A m \in core.rows : RetrySend(m) => Staged' /\ OwnLines'
<1>1. ASSUME SendCompose
      PROVE  Staged' /\ OwnLines'
  <2>1. Shapes' /\ core'.rows = core.rows BY <1>1, SendComposeShapes
  <2>2. PICK p : p.row = NoRow /\ Begun(p) BY <1>1, SendComposeShapes
  <2>3. AskStaged(p) BY <2>2 DEF AskStaged
  <2>. QED BY <2>1, <2>2, <2>3, BegunLines
<1>2. ASSUME NEW m \in core.rows, RetrySend(m)
      PROVE  Staged' /\ OwnLines'
  <2>1. /\ Shapes' /\ m.delivery = "failed"
        /\ core'.rows = (core.rows \ {m}) \cup {[m EXCEPT !.delivery = "pending"]}
    BY <1>2, RetrySendShapes
  <2>2. PICK p : p.row = m.id /\ Begun(p) BY <1>2, RetrySendShapes
  <2>3. PICK owner \in Owners : OwnedBy(owner) BY DEF Marks, Owned
  <2>4. m \in Row /\ m.id[2] \in {"pending", "sent", "failed"} /\ m.id[2] # "sent"
    BY <2>1, <2>3, RowsAreTyped, IdIsTyped DEF OwnedBy, RowGood
  <2>5. protocol = "telegram" => m.id[2] = "failed" BY <2>1, <2>4 DEF Staged, RowStaged
  <2>6. [m EXCEPT !.delivery = "pending"].id = m.id BY <2>4 DEF Row
  <2>7. protocol = "telegram" => AskStaged(p) /\ RowStaged([m EXCEPT !.delivery = "pending"])
    BY <2>2, <2>5, <2>6 DEF AskStaged, RowStaged
  <2>. QED BY <2>1, <2>2, <2>7, BegunLines
<1>. QED BY <1>1, <1>2

LEMMA ExpireHoldLines ==
  ASSUME Shapes, Numbers, Marks, Staged, OwnLines,
         NEW k \in 1 .. Len(core.holds), ExpireHold(core.holds[k])
  PROVE  Staged' /\ OwnLines'
<1> DEFINE S == Hold \ {core.holds[k]}
           left == Those(S, core.holds)
           t == [core EXCEPT !.holds = left]
<1>1. core' = PruneUnbound(t) /\ UNCHANGED <<protocol, calls, flight, answers>>
  BY DEF ExpireHold
<1>2. core' \in Snapshot /\ Frame(core, core', Lines) BY ExpireHoldSets
<1>3. core \in Snapshot /\ core.holds \in Seq(Hold) BY DEF Shapes, Snapshot
<1> HIDE DEF S
<1>4. \A j \in 1 .. Len(left) : \E i \in 1 .. Len(core.holds) : left[j] = core.holds[i]
  BY <1>3, KeptIsWithin
<1> HIDE DEF left
<1>5. /\ Lines \subseteq DOMAIN t /\ t.holds = left /\ t.unbound = core.unbound /\ t.open = core.open
      /\ t.expired = core.expired
  BY <1>3 DEF Lines, Snapshot
<1> HIDE DEF t
<1>6. core'.holds = left /\ core'.unbound = {u \in core.unbound : Tracks(t, u.request)}
  BY <1>1, <1>5, PruneUnboundLeaves
<1>7. /\ core'.open = core.open /\ core'.expired = core.expired /\ core'.rows = core.rows
      /\ core'.late = core.late /\ Unanswered(core') = Unanswered(core)
  BY <1>2 DEF Frame, Field, Lines, Unanswered
<1>8. \A u \in core.unbound : Awaits(core', u.request) => u \in core'.unbound
  BY <1>5, <1>6, <1>7 DEF Awaits, Tracks, Unanswered
<1>9. Within(core, core') BY <1>4, <1>6 DEF Within
<1>10. core'.unbound \subseteq core.unbound BY <1>6
<1>11. OwnLines' BY <1>1, <1>2, <1>7, <1>8, <1>9, <1>10, LinesStay
<1>12. Staged' BY <1>1, <1>7, StagedStays
<1>. QED BY <1>11, <1>12

LEMMA PruneExpiredLines ==
  ASSUME Shapes, Staged, OwnLines, NEW p \in core.expired, PruneExpired(p)
  PROVE  Staged' /\ OwnLines'
<1>1. /\ Frame(core, core', {"expired", "forgotten", "unbound"})
      /\ core'.expired = core.expired \ {p}
      /\ UNCHANGED <<protocol, calls, flight, answers>>
  BY PruneExpiredSets
<1>2. core'.open = core.open /\ core'.rows = core.rows /\ core'.late = core.late
  BY <1>1 DEF Frame, Field
<1>3. core.late # {} BY DEF OwnLines
<1>4. Staged' BY <1>1, <1>2, StagedStays DEF Unanswered
<1>. QED BY <1>2, <1>3, <1>4 DEF OwnLines

LEMMA ExpireSendLines ==
  ASSUME Shapes, Marks, Staged, NEW p \in core.open, ExpireSend(p)
  PROVE  Staged' /\ OwnLines'
<1>1. core \in Snapshot /\ core' = Expire(core, p) /\ UNCHANGED <<protocol, calls, flight, answers>>
  BY DEF ExpireSend, Shapes
<1>2. /\ core'.open = core.open \ {p} /\ core'.expired = core.expired \cup {p}
      /\ core'.late = core.late \cup {p.request}
      /\ Marked(core, core', p.chat, p.row, "failed")
  BY <1>1, ExpireSets
<1>3. Unanswered(core') = Unanswered(core) /\ p \in Unanswered(core)
  BY <1>2 DEF Unanswered
<1>4. OneRow BY DEF Marks
<1>5. \A n \in core'.rows : n \in core.rows \/ (n.id = p.row /\ p.row \in Id)
  BY <1>2, <1>4, MarkedRows
<1>6. \A id \in Id : id # NoRow BY SendRows
<1>7. protocol = "telegram" => \A n \in core'.rows : n \in core.rows \/ RowStaged(n)
  <2>1. protocol = "telegram" => AskStaged(p) BY <1>3 DEF Staged
  <2>. QED BY <1>5, <1>6, <2>1 DEF AskStaged, RowStaged
<1>8. Staged' BY <1>1, <1>3, <1>7, StagedStays
<1>. QED BY <1>2, <1>8 DEF OwnLines

-----------------------------------------------------------------------------
(* An event.                                                               *)
LinesApplied(s, t, e) ==
    /\ e.type = "received" => Arrives(s, t, e.message, NoRow)
    /\ e.type = "replaced" => Arrives(s, t, e.message, e.old)
    /\ e.type = "failed" => Shrinks(s, t)
    /\ e.type = "accepted" => \/ t = s
                              \/ Asked(s.open, e.chat, e.request) # {} /\ Accepts(s, t, e.chat, e.request)
    /\ e.type = "rejected" => Within(s, t) /\ t.unbound \subseteq s.unbound
    /\ e.type = "ended" => t.holds = <<>> /\ t.unbound = {} /\ t.open = {}

LEMMA FailedShrinks ==
  ASSUME NEW s \in Snapshot, NEW c, NEW id
  PROVE  LET set == SetDelivery(s, c, id, "failed")
         IN  Shrinks(s, set) /\ Shrinks(s, ReleaseForMessage(set, id))
<1> DEFINE set == SetDelivery(s, c, id, "failed")
           t == ReleaseForMessage(set, id)
<1>1. set \in Snapshot /\ Shrinks(s, set) BY SetDeliverySets, SetDeliveryLeaves
<1> HIDE DEF set
<1>2. Shrinks(set, t) BY <1>1, ReleaseLeaves
<1> HIDE DEF t
<1>3. Shrinks(s, t) BY <1>1, <1>2, ShrinksTwice
<1>. QED BY <1>1, <1>3 DEF set, t

LEMMA ApplyLines ==
  ASSUME NEW s \in Snapshot, NEW e \in Event, s.expired = {},
         protocol # "discord" => AllNamed(s),
         protocol # "discord" /\ e.type = "replaced" /\ e.message.delivery = "pending" => ~Names(s, e.old)
  PROVE  LinesApplied(s, Apply(s, e), e)
<1> DEFINE t == Apply(s, e)
<1>1. CASE e.type = "received"
  <2>1. t = Received(s, e.message) /\ e.message \in Row BY <1>1, EventIsTyped DEF Apply
  <2> HIDE DEF t
  <2>2. Arrives(s, t, e.message, NoRow) BY <2>1, ReceivedArrives
  <2>. QED BY <1>1, <2>2 DEF LinesApplied, t
<1>2. CASE e.type = "replaced"
  <2>1. t = Replaced(s, e.old, e.message) /\ e.message \in Row
    BY <1>2, EventIsTyped DEF Apply
  <2> HIDE DEF t
  <2>2. Arrives(s, t, e.message, e.old) BY <1>2, <2>1, ReplacedArrives
  <2>. QED BY <1>2, <2>2 DEF LinesApplied, t
<1>3. CASE e.type = "failed"
  <2>1. \/ t = SetDelivery(s, e.chat, e.id, "failed")
        \/ t = ReleaseForMessage(SetDelivery(s, e.chat, e.id, "failed"), e.id)
    BY <1>3 DEF Apply
  <2> HIDE DEF t
  <2>2. Shrinks(s, t) BY <2>1, FailedShrinks
  <2>. QED BY <1>3, <2>2 DEF LinesApplied, t
<1>4. CASE e.type = "accepted"
  <2>1. t = Accepted(s, e.chat, e.request) /\ e.chat \in Chat /\ e.request \in Request
    BY <1>4, EventIsTyped DEF Apply
  <2> HIDE DEF t
  <2>2. t = s \/ (Asked(s.open, e.chat, e.request) # {} /\ Accepts(s, t, e.chat, e.request))
    BY <2>1, AcceptedAccepts
  <2>. QED BY <1>4, <2>2 DEF LinesApplied, t
<1>5. CASE e.type = "rejected"
  <2>1. t = Rejected(s, e.chat, e.request) /\ e.chat \in Chat /\ e.request \in Request
    BY <1>5, EventIsTyped DEF Apply
  <2> HIDE DEF t
  <2>2. Within(s, t) /\ t.unbound \subseteq s.unbound BY <2>1, RejectedLeaves
  <2>. QED BY <1>5, <2>2 DEF LinesApplied, t
<1>6. CASE e.type = "ended"
  <2>1. t = EndSession(s) BY <1>6 DEF Apply
  <2> HIDE DEF t
  <2>2. t.holds = <<>> /\ t.unbound = {} /\ t.open = {} BY <2>1, EndSessionSets
  <2>. QED BY <1>6, <2>2 DEF LinesApplied, t
<1>. QED BY <1>1, <1>2, <1>3, <1>4, <1>5, <1>6, EventIsTyped

LEMMA ApplyEventStaged ==
  ASSUME Shapes, Numbers, Marks, Staged, ApplyEvent
  PROVE  Staged'
<1> DEFINE e == Head(answers)
<1>1. PICK owner \in Owners : OwnedBy(owner) BY DEF Marks, Owned
<1>2. RowsApplied(core, core', e) /\ EventGood(owner, e) /\ OneRow
  BY <1>1, EventFinds DEF Marks
<1>3. /\ UNCHANGED <<protocol, calls, flight>> /\ e \in Event
      /\ e = answers[1] /\ 1 \in 1 .. Len(answers)
      /\ \A i \in 1 .. Len(answers') : \E j \in 1 .. Len(answers) : answers'[i] = answers[j]
  BY EventMoves
<1> HIDE DEF e
<1>4. ASSUME protocol = "telegram"
      PROVE  /\ EventStaged(e) /\ \A p \in Unanswered(core) : AskStaged(p)
             /\ \A p \in core.open \cup core.expired : AskStaged(p)
  BY <1>3, <1>4 DEF Staged, Unanswered
<1>5. \A c, id : \A d \in {"sent", "failed"} : Marked(core, core', c, id, d) =>
         \A n \in core'.rows : n \in core.rows \/ n.id = id
  BY <1>2, MarkedRows
<1>6. protocol = "telegram" => \A m \in core'.rows : m \in core.rows \/ RowStaged(m)
  <2> SUFFICES ASSUME protocol = "telegram", NEW m \in core'.rows, m \notin core.rows
               PROVE  RowStaged(m)
    OBVIOUS
  <2>1. CASE Brings(e)
    <3>1. m = e.message BY <1>2, <2>1 DEF RowsApplied, Brings
    <3>. QED BY <1>2, <2>1, <3>1 DEF EventGood, RowStaged
  <2>2. CASE e.type = "failed"
    <3>1. Marked(core, core', e.chat, e.id, "failed") BY <1>2, <2>2 DEF RowsApplied
    <3>2. m.id = e.id BY <1>5, <3>1
    <3>. QED BY <1>4, <2>2, <3>2 DEF EventStaged, RowStaged
  <2>3. CASE e.type = "accepted"
    <3>1. PICK p \in core.expired : p.row # NoRow /\ Marked(core, core', e.chat, p.row, "sent")
      BY <1>2, <2>3 DEF RowsApplied, AcceptRows, LateRows, Asked
    <3>2. m.id = p.row BY <1>5, <3>1
    <3>. QED BY <1>4, <3>1, <3>2 DEF AskStaged, RowStaged
  <2>4. CASE e.type = "rejected"
    <3>1. PICK p \in core.open : p.row # NoRow /\ Marked(core, core', e.chat, p.row, "failed")
      BY <1>2, <2>4 DEF RowsApplied, RejectRows, Asked
    <3>2. m.id = p.row BY <1>5, <3>1
    <3>. QED BY <1>4, <3>1, <3>2 DEF AskStaged, RowStaged
  <2>5. CASE e.type = "ended" BY <1>2, <2>5 DEF RowsApplied
  <2>. QED BY <1>3, <2>1, <2>2, <2>3, <2>4, <2>5, EventIsTyped DEF Brings
<1>7. Unanswered(core') \subseteq Unanswered(core)
  <2>1. core \in Snapshot /\ core' = Apply(core, e) BY EventMoves DEF Shapes, e
  <2>2. core'.open \subseteq core.open /\ core'.expired \subseteq core.expired
    BY <1>3, <2>1, ApplySets
  <2>. QED BY <2>2 DEF Unanswered
<1>. QED BY <1>3, <1>6, <1>7, StagedStays

(* What ends a line later is one place nearer.                             *)
LEMMA EndsNearer ==
  ASSUME Shapes, ApplyEvent
  PROVE  /\ \A id : WillEnd(id, 0) /\ ~EndsLine(Head(answers), id) => WillEnd(id, 0)'
         /\ \A id : \A i \in 0 .. Len(answers') : WillEnd(id, i + 1) => WillEnd(id, i)'
<1>1. ASSUME NEW id, NEW i \in 0 .. Len(answers'), NEW n \in {0, i + 1}, WillEnd(id, n),
             n = 0 => i = 0 /\ ~EndsLine(Head(answers), id)
      PROVE  WillEnd(id, i)'
  <2>1. CASE AtServerAs(id) BY <2>1, EventMoves DEF WillEnd, AtServerAs
  <2>2. ASSUME NEW j \in 1 .. Len(answers), j > n, EndsLine(answers[j], id)
        PROVE  WillEnd(id, i)'
    <3>1. Head(answers) = answers[1] /\ i \in Nat OBVIOUS
    <3>2. j # 1 BY <1>1, <2>2, <3>1
    <3>3. j - 1 \in 1 .. Len(answers') /\ answers'[j - 1] = answers[j]
      BY <3>2, EventMoves
    <3>4. j - 1 > i BY <1>1, <2>2, <3>1, <3>2
    <3>. QED BY <2>2, <3>3, <3>4 DEF WillEnd
  <2>. QED BY <1>1, <2>1, <2>2 DEF WillEnd
<1>2. 0 \in 0 .. Len(answers') OBVIOUS
<1>. QED BY <1>1, <1>2

LEMMA ApplyDiscordLines ==
  ASSUME NEW s \in Snapshot, NEW t \in Snapshot, NEW e \in Event, LinesApplied(s, t, e),
         protocol = "discord", Len(s.holds) = 0
  PROVE  Len(t.holds) = 0
<1>1. Within(s, t) \/ t.holds = <<>>
  BY EventIsTyped DEF LinesApplied, Arrives, Accepts, Shrinks, Within
<1>2. CASE Within(s, t)
  <2>1. 1 .. Len(s.holds) = {} OBVIOUS
  <2>2. 1 .. Len(t.holds) = {} BY <1>2, <2>1 DEF Within
  <2>3. Len(t.holds) \in Nat OBVIOUS
  <2>4. Len(t.holds) # 0 => 1 \in 1 .. Len(t.holds) BY <2>3
  <2>. QED BY <2>2, <2>4
<1>. QED BY <1>1, <1>2

(* A line that stays names what e does not end; a new one is of the accept *)
(* that e is, for a row that was there.                                    *)
FromLine(s, e, h) ==
    \/ ~EndsLine(e, h.id) /\ \E i \in 1 .. Len(s.holds) : h = s.holds[i]
    \/ /\ e.type = "accepted" /\ Asked(s.open, e.chat, e.request) # {}
       /\ h.request = e.request
       /\ RowReady(s, e.chat, e.request) => h.id = LineId(e.request)

LEMMA ApplyHolds ==
  ASSUME NEW s, NEW t, NEW e \in Event, LinesApplied(s, t, e), protocol = "telegram",
         e.type = "replaced" /\ e.message.delivery = "pending" => ~Names(s, e.old)
  PROVE  \A j \in 1 .. Len(t.holds) : FromLine(s, e, t.holds[j])
<1> SUFFICES ASSUME NEW j \in 1 .. Len(t.holds)
             PROVE  \/ /\ ~EndsLine(e, t.holds[j].id)
                       /\ \E i \in 1 .. Len(s.holds) : t.holds[j] = s.holds[i]
                    \/ /\ e.type = "accepted" /\ Asked(s.open, e.chat, e.request) # {}
                       /\ t.holds[j].request = e.request
                       /\ RowReady(s, e.chat, e.request) => t.holds[j].id = LineId(e.request)
  BY DEF FromLine
<1>1. CASE e.type = "received"
  BY <1>1 DEF LinesApplied, Arrives, Shrinks, Within, Noticed, EndsLine
<1>2. CASE e.type = "replaced" /\ e.message.delivery = "pending"
  <2>1. t.holds = s.holds BY <1>2 DEF LinesApplied, Arrives, Noticed
  <2>2. t.holds[j].id # e.old BY <1>2, <2>1 DEF Names, BoundTo
  <2>. QED BY <1>2, <2>1, <2>2 DEF EndsLine
<1>3. CASE e.type = "replaced" /\ e.message.delivery # "pending"
  <2>1. Within(s, t) /\ t.holds[j].id # e.old BY <1>3 DEF LinesApplied, Arrives, Shrinks
  <2>. QED BY <1>3, <2>1 DEF EndsLine, Within
<1>4. CASE e.type \in {"failed", "rejected"}
  BY <1>4 DEF LinesApplied, Shrinks, Within, EndsLine
<1>5. CASE e.type = "accepted" BY <1>5 DEF LinesApplied, Accepts, EndsLine
<1>6. CASE e.type = "ended" BY <1>6 DEF LinesApplied
<1>. QED BY <1>1, <1>2, <1>3, <1>4, <1>5, <1>6, EventIsTyped

LEMMA ApplyUnbound ==
  ASSUME NEW s, NEW t, NEW e \in Event, LinesApplied(s, t, e), protocol = "telegram",
         Brings(e) => e.message.delivery = e.message.id[2],
         \A u \in s.unbound : u.id[2] = "pending"
  PROVE  \A u \in t.unbound : u.id[2] = "pending"
<1>1. CASE Brings(e) /\ e.message.delivery = "pending"
  <2>1. Noticed(s, t, e.message.chat, e.message.id)
    BY <1>1 DEF LinesApplied, Arrives, Brings
  <2>. QED BY <1>1, <2>1 DEF Noticed
<1>2. CASE ~(Brings(e) /\ e.message.delivery = "pending")
  <2>1. t.unbound \subseteq s.unbound
    BY <1>2, EventIsTyped DEF LinesApplied, Arrives, Brings, Shrinks, Accepts
  <2>. QED BY <2>1
<1>. QED BY <1>1, <1>2

(* The event that brings the row of the open send of its chat.             *)
LEMMA BroughtIsReady ==
  ASSUME NEW s, NEW t, NEW c, NEW r, NEW p, InChat(s.open, c) = {p}, p.request = r,
         Noticed(s, t, c, LineId(r))
  PROVE  RowReady(t, c, r)
<1> DEFINE new == [request |-> r, chat |-> c, id |-> LineId(r)]
           old == {u \in s.unbound : u.request # r}
<1>1. t.unbound = old \cup {new} BY DEF Noticed
<1>2. new.request = r /\ new.chat = c /\ new.id = LineId(r) OBVIOUS
<1>3. \A u \in old : u.request # r OBVIOUS
<1> HIDE DEF new, old
<1>. QED BY <1>1, <1>2, <1>3 DEF RowReady

LEMMA ApplyEventLines ==
  ASSUME Shapes, Numbers, Marks, Staged, OwnLines, ApplyEvent
  PROVE  OwnLines'
<1>0. PICK e : e = Head(answers) OBVIOUS
<1>1. /\ core \in Snapshot /\ core' = Apply(core, e) /\ UNCHANGED <<protocol, calls, flight>>
      /\ e \in Event /\ e = answers[1] /\ 1 \in 1 .. Len(answers) /\ Len(answers) \in Nat
      /\ Len(answers') = Len(answers) - 1
      /\ \A i \in 1 .. Len(answers') : i + 1 \in 1 .. Len(answers) /\ answers'[i] = answers[i + 1]
  BY <1>0, EventMoves DEF Shapes
<1>2. /\ core' \in Snapshot /\ Frame(core, core', Applied) /\ core'.open \subseteq core.open
      /\ core'.expired \subseteq core.expired
  BY <1>1, ApplySets
<1>3. core'.late = core.late BY <1>2 DEF Frame, Field, Applied, Answered, Seen, Texts
<1> SUFFICES ASSUME core.late = {}
             PROVE  /\ core'.expired = {}
                    /\ protocol = "discord" => Len(core'.holds) = 0
                    /\ protocol = "telegram" =>
                          /\ LinesEnd' /\ AcceptsFollow'
                          /\ \A u \in core'.unbound : u.id[2] = "pending"
  BY <1>1, <1>3 DEF OwnLines
<1>4. /\ core.expired = {}
      /\ protocol = "discord" => Len(core.holds) = 0
      /\ protocol = "telegram" =>
            LinesEnd /\ AcceptsFollow /\ \A u \in core.unbound : u.id[2] = "pending"
  BY DEF OwnLines
<1>5. protocol # "discord" <=> protocol = "telegram" BY DEF Shapes
<1>6. protocol = "telegram" =>
         \A i \in 1 .. Len(core.holds) : /\ LineNamed(core.holds[i]) /\ WillEnd(core.holds[i].id, 0)
                                         /\ core.holds[i].id[2] = "pending"
  BY <1>4 DEF LinesEnd, LineNamed, LineId
<1>7. protocol = "telegram" => AllNamed(core) BY <1>6 DEF AllNamed
<1>8. protocol = "telegram" /\ e.type = "replaced" /\ e.message.delivery = "pending" => ~Names(core, e.old)
  <2>1. protocol = "telegram" => EventStaged(e) BY <1>1 DEF Staged
  <2>. QED BY <1>4, <1>6, <2>1 DEF EventStaged, Names, BoundTo
<1>9. LinesApplied(core, core', e) BY <1>1, <1>4, <1>5, <1>7, <1>8, ApplyLines
<1>10. PICK owner \in Owners : OwnedBy(owner) BY DEF Marks, Owned
<1>11. EventGood(owner, e) BY <1>1, <1>10 DEF OwnedBy
<1>12. protocol = "discord" => Len(core'.holds) = 0
  BY <1>1, <1>2, <1>4, <1>9, ApplyDiscordLines
<1>13. protocol = "telegram" => \A u \in core'.unbound : u.id[2] = "pending"
  BY <1>1, <1>4, <1>9, <1>11, ApplyUnbound DEF EventGood
<1>14. /\ \A id : WillEnd(id, 0) /\ ~EndsLine(e, id) => WillEnd(id, 0)'
       /\ \A id : \A i \in 0 .. Len(answers') : WillEnd(id, i + 1) => WillEnd(id, i)'
  BY <1>0, EndsNearer
<1>15. ASSUME protocol = "telegram"
       PROVE  LinesEnd'
  <2>1. ASSUME NEW j \in 1 .. Len(core'.holds), NEW h, h = core'.holds[j]
        PROVE  LineNamed(h) /\ WillEnd(h.id, 0)'
    <3>1. CASE ~EndsLine(e, h.id) /\ \E i \in 1 .. Len(core.holds) : h = core.holds[i]
      BY <1>6, <1>14, <1>15, <3>1
    <3>2. CASE /\ e.type = "accepted" /\ Asked(core.open, e.chat, e.request) # {}
               /\ h.request = e.request
               /\ RowReady(core, e.chat, e.request) => h.id = LineId(e.request)
      <4>1. Follows(1, e.chat, e.request) BY <1>1, <1>4, <1>15, <3>2 DEF AcceptsFollow
      <4>2. Awaits(core, e.request) BY <3>2 DEF Awaits, Asked
      <4>3. h.id = LineId(h.request) /\ WillEnd(h.id, 1) BY <3>2, <4>1, <4>2 DEF Follows
      <4>4. 0 \in 0 .. Len(answers') /\ 0 + 1 = 1 BY <1>1
      <4>5. WillEnd(h.id, 0)' BY <1>14, <4>3, <4>4
      <4>. QED BY <4>3, <4>5 DEF LineNamed
    <3>3. FromLine(core, e, h)
      <4>1. e.type = "replaced" /\ e.message.delivery = "pending" => ~Names(core, e.old)
        BY <1>8, <1>15
      <4>2. \A k \in 1 .. Len(core'.holds) : FromLine(core, e, core'.holds[k])
        BY <1>1, <1>9, <1>15, <4>1, ApplyHolds
      <4>. QED BY <2>1, <4>2
    <3>. QED BY <3>1, <3>2, <3>3 DEF FromLine
  <2>2. ASSUME NEW j \in 1 .. Len(core'.holds)
        PROVE  (LineNamed(core.holds[j]) /\ WillEnd(core.holds[j].id, 0))'
    <3>1. PICK h : h = core'.holds[j] OBVIOUS
    <3>2. LineNamed(h) /\ WillEnd(h.id, 0)' BY <2>1, <2>2, <3>1
    <3>. QED BY <3>1, <3>2 DEF LineId, WillEnd, EndsLine
  <2>. QED BY <2>2 DEF LinesEnd
<1>16. ASSUME protocol = "telegram"
       PROVE  AcceptsFollow'
  <2>1. ASSUME NEW i \in 1 .. Len(answers'), answers'[i].type = "accepted",
               NEW c, c = answers'[i].chat, NEW r, r = answers'[i].request
        PROVE  WillEnd(LineId(r), i)' /\ (Awaits(core', r) => IF i = 1 THEN RowReady(core', c, r)
                                                         ELSE BringsLine(answers'[i - 1], c, r))
    <3>1. /\ i + 1 \in 1 .. Len(answers) /\ answers'[i] = answers[i + 1] /\ i \in 0 .. Len(answers')
          /\ i + 1 # 1 /\ (i + 1) - 1 = i
      BY <1>1
    <3>2. Follows(i + 1, c, r) BY <1>4, <1>16, <2>1, <3>1 DEF AcceptsFollow
    <3>3. WillEnd(LineId(r), i)' BY <1>14, <3>1, <3>2 DEF Follows
    <3>4. Awaits(core', r) => Awaits(core, r) BY <1>2 DEF Awaits
    <3>5. Awaits(core', r) => BringsLine(answers[i], c, r)
      BY <3>1, <3>2, <3>4 DEF Follows
    <3>6. ASSUME i # 1
          PROVE  answers'[i - 1] = answers[i]
      <4>1. i - 1 \in 1 .. Len(answers') /\ (i - 1) + 1 = i BY <1>1, <3>1, <3>6
      <4>. QED BY <1>1, <4>1
    <3>7. ASSUME i = 1, Awaits(core', r)
          PROVE  RowReady(core', c, r)
      <4>1. BringsLine(e, c, r) BY <1>1, <3>5, <3>7
      <4>2. e.message.chat = c /\ e.message.id = LineId(r) /\ e.message.delivery = "pending" /\ Brings(e)
        BY <1>11, <4>1 DEF BringsLine, EventGood, LineId
      <4>3. Noticed(core, core', c, LineId(r))
        BY <1>9, <1>16, <4>2 DEF LinesApplied, Arrives, Brings
      <4>4. PICK p \in core.open : p.request = r BY <3>4, <3>7 DEF Awaits
      <4>5. p.chat = c
        <5>1. AskGood(owner, p) /\ EventGood(owner, answers[i + 1])
          BY <1>10, <3>1 DEF OwnedBy, Unanswered
        <5>. QED BY <2>1, <3>1, <4>4, <5>1 DEF AskGood, EventGood
      <4>6. InChat(core.open, c) = {p} BY <4>5 DEF InChat, Numbers
      <4>. QED BY <4>3, <4>4, <4>6, BroughtIsReady
    <3>. QED BY <3>3, <3>5, <3>6, <3>7
  <2>2. ASSUME NEW i \in 1 .. Len(answers'), answers'[i].type = "accepted"
        PROVE  Follows(i, answers[i].chat, answers[i].request)'
    <3>1. PICK c, r : c = answers'[i].chat /\ r = answers'[i].request OBVIOUS
    <3>2. WillEnd(LineId(r), i)' /\ (Awaits(core', r) => IF i = 1 THEN RowReady(core', c, r)
                                                    ELSE BringsLine(answers'[i - 1], c, r))
      BY <2>1, <2>2, <3>1
    <3>. QED BY <3>1, <3>2 DEF Follows, WillEnd, EndsLine, Awaits, RowReady, Brings, LineId
  <2>. QED BY <2>2 DEF AcceptsFollow
<1>. QED BY <1>2, <1>4, <1>12, <1>13, <1>15, <1>16

LEMMA LinesInit ==
  ASSUME SendsInit
  PROVE  Staged /\ OwnLines
<1>1. /\ core.open = {} /\ core.expired = {} /\ core.holds = <<>> /\ core.unbound = {}
      /\ calls = <<>> /\ answers = <<>>
      /\ protocol = "telegram" => \A m \in core.rows : m.id[2] = "failed"
  BY DEF SendsInit, Old
<1>2. Unanswered(core) = {} /\ Len(calls) = 0 /\ Len(answers) = 0 /\ Len(core.holds) = 0
  BY <1>1 DEF Unanswered
<1>3. Staged BY <1>1, <1>2 DEF Staged, RowStaged
<1>4. OwnLines BY <1>1, <1>2 DEF OwnLines, LinesEnd, AcceptsFollow
<1>. QED BY <1>3, <1>4

LEMMA LinesStep ==
  ASSUME Shapes, Numbers, Marks, Staged, OwnLines, [SendsNext]_sendVars
  PROVE  Staged' /\ OwnLines'
<1>1. CASE UserStep BY <1>1, TypeLines, SelectLines, BeginLines DEF UserStep
<1>2. CASE PumpStep
  BY <1>2, ApplyEventStaged, ApplyEventLines, ExpireSendLines, ExpireHoldLines, PruneExpiredLines DEF PumpStep
<1>3. CASE AdapterStep
  BY <1>3, TelegramTakesTells, DiscordTakesTells, RefuseTells, EndTells, AnnounceTells,
     ConfirmTells, FailMessageTells DEF AdapterStep
<1>4. CASE UNCHANGED sendVars
  <2>1. UNCHANGED <<protocol, core, calls, flight, answers>> /\ Frame(core, core', {}) /\ core' \in Snapshot
    BY <1>4, NoFrame DEF sendVars, Shapes
  <2>. QED BY <2>1, SameCoreKeeps
<1>. QED BY <1>1, <1>2, <1>3, <1>4 DEF SendsNext

(* Without a send that expired, a line "Sending..." has the pending        *)
(* message of its own request, which the server or an event will end; and  *)
(* an accept follows the event that brings that message, so that its row   *)
(* is noted with the open send: the invariant behind the lines.            *)
THEOREM LinesInvariance == SendsSpec => [](Shapes /\ Numbers /\ Marks /\ Staged /\ OwnLines)
<1>1. SendsInit => Staged /\ OwnLines BY LinesInit
<1>2. Shapes /\ Numbers /\ Marks /\ Staged /\ OwnLines /\ [SendsNext]_sendVars => (Staged /\ OwnLines)'
  BY LinesStep
<1>. QED BY <1>1, <1>2, MarksInvariance, PTL DEF SendsSpec

(* What the rows, the error and the lines "Sending..." say of a send       *)
(* agrees with what can still happen: a row is "Sending..." only while     *)
(* something will move it, no sent message is told as not sent, and a line *)
(* of Telegram waits for the message of its own send (note_delivery,       *)
(* expire_sends and telegram_send_unconfirmed in state.rs).                *)
THEOREM RowsStayTrue == SendsSpec => []RowsAreTrue
<1>1. Shapes /\ OwnLines => LineIsOwn BY LinesAreOwn
<1>2. SpinnerEnds /\ NoFalseTimeout /\ LineIsOwn => RowsAreTrue BY DEF RowsAreTrue
<1>. QED BY <1>1, <1>2, SpinnersEnd, NoTimeoutIsFalse, LinesInvariance, PTL

-----------------------------------------------------------------------------
(* The copies of the app.                                                  *)

(* What holds of each copy: only one that runs may be without the lock, a  *)
(* listener belongs to a copy that had the lock, and the close gate is shut *)
(* before the listener hears of it.                                        *)
CopyShapes ==
    \A p \in Copy :
        /\ copy[p].unlocked => copy[p].stage \in {"ready", "running"}
        /\ copy[p].listens => copy[p].stage \in {"ready", "running", "ended"}
        /\ copy[p].ui = "marking" => ~copy[p].open

IInv == InstanceTypeOK /\ CopyShapes /\ OneCopy /\ ShowIsServed

LEMMA NewCopyType == NewCopy \in Process
BY DEF NewCopy, Process

LEMMA InitKeeps == ASSUME InstanceInit PROVE IInv
<1>1. InstanceTypeOK BY NewCopyType, CopyNames DEF InstanceInit, InstanceTypeOK
<1>2. CopyShapes /\ OneCopy
  BY DEF InstanceInit, CopyShapes, OneCopy, NewCopy
<1>3. ShowIsServed
  BY NewCopyType DEF InstanceInit, ShowIsServed, ShowIsOwed, HiddenEnds, NewCopy
<1>4. QED BY <1>1, <1>2, <1>3 DEF IInv

LEMMA FieldTypes ==
  ASSUME NEW r \in Process
  PROVE  /\ r.listens \in BOOLEAN /\ r.pending \in BOOLEAN /\ r.wake \in BOOLEAN
         /\ r.frame \in BOOLEAN /\ r.hidden \in BOOLEAN /\ r.open \in BOOLEAN
         /\ r.window \in BOOLEAN /\ r.owed \in SUBSET Copy
BY DEF Process

LEMMA OneIsReplaced ==
  ASSUME InstanceTypeOK, NEW p \in Copy, NEW r \in Process, copy' = [copy EXCEPT ![p] = r],
         lock' \in Copy \cup {NoCopy}, endpoint' \in Copy \cup {NoCopy}
  PROVE  InstanceTypeOK'
BY DEF InstanceTypeOK

LEMMA LaunchesKeeps == ASSUME IInv, NEW p \in Copy, Launches(p) PROVE IInv'
<1>1. InstanceTypeOK'
  BY DEF IInv, InstanceTypeOK, Process, Launches, Keeps, Acquires, Goes
<1>2. CopyShapes'
  BY CopyNames DEF IInv, InstanceTypeOK, CopyShapes, Process, Launches, Keeps, Acquires, Goes
<1>3. OneCopy'
  BY CopyNames DEF IInv, InstanceTypeOK, CopyShapes, OneCopy, Process, Launches, Keeps, Acquires, Goes
<1>4. ShowIsServed'
  BY CopyNames DEF IInv, InstanceTypeOK, CopyShapes, ShowIsServed, ShowIsOwed, HiddenEnds,
       Process, Launches, Keeps, Acquires, Goes
<1>5. QED BY <1>1, <1>2, <1>3, <1>4 DEF IInv

LEMMA AskKeeps == ASSUME IInv, NEW p \in Copy, Ask(p) PROVE IInv'
<1>1. InstanceTypeOK' BY DEF IInv, InstanceTypeOK, Process, Ask, Keeps, Goes
<1>2. CopyShapes'
  BY CopyNames DEF IInv, InstanceTypeOK, CopyShapes, Process, Ask, Keeps, Goes
<1>3. OneCopy'
  BY CopyNames DEF IInv, InstanceTypeOK, OneCopy, Process, Ask, Keeps, Goes
<1>4. ShowIsServed'
  BY CopyNames DEF IInv, InstanceTypeOK, CopyShapes, ShowIsServed, ShowIsOwed, HiddenEnds,
       Process, Ask, Keeps, Goes
<1>5. QED BY <1>1, <1>2, <1>3, <1>4 DEF IInv

LEMMA AskEndsKeeps == ASSUME IInv, NEW p \in Copy, AskEnds(p) PROVE IInv'
<1>1. InstanceTypeOK'
  <2>1. copy[p] \in Process /\ lock \in Copy \cup {NoCopy} /\ endpoint \in Copy \cup {NoCopy}
    BY DEF IInv, InstanceTypeOK
  <2>3. [copy[p] EXCEPT !.stage = "trying", !.server = NoCopy, !.told = "none"] \in Process
    BY <2>1 DEF Process
  <2>4. copy' = [copy EXCEPT ![p] = [copy[p] EXCEPT !.stage = "trying", !.server = NoCopy, !.told = "none"]]
    BY DEF IInv, AskEnds
  <2>5. QED BY <2>1, <2>3, <2>4, OneIsReplaced DEF IInv, AskEnds, Keeps
<1>2. CopyShapes'
  BY CopyNames DEF IInv, InstanceTypeOK, CopyShapes, Process, AskEnds, Keeps
<1>3. OneCopy'
  BY CopyNames DEF IInv, InstanceTypeOK, OneCopy, Process, AskEnds, Keeps
<1>4. ShowIsServed'
  BY CopyNames DEF IInv, InstanceTypeOK, CopyShapes, ShowIsServed, ShowIsOwed, HiddenEnds,
       Process, AskEnds, Keeps
<1>5. QED BY <1>1, <1>2, <1>3, <1>4 DEF IInv

LEMMA TryLockKeeps == ASSUME IInv, NEW p \in Copy, TryLock(p) PROVE IInv'
<1>1. InstanceTypeOK'
  BY DEF IInv, InstanceTypeOK, Process, TryLock, Keeps, Acquires, Goes
<1>2. CopyShapes'
  BY CopyNames DEF IInv, InstanceTypeOK, CopyShapes, Process, TryLock, Keeps, Acquires, Goes
<1>3. OneCopy'
  BY CopyNames DEF IInv, InstanceTypeOK, CopyShapes, OneCopy, Process, TryLock, Keeps, Acquires, Goes
<1>4. ShowIsServed'
  BY CopyNames DEF IInv, InstanceTypeOK, CopyShapes, ShowIsServed, ShowIsOwed, HiddenEnds,
       Process, TryLock, Keeps, Acquires, Goes
<1>5. QED BY <1>1, <1>2, <1>3, <1>4 DEF IInv

LEMMA AwaitLockKeeps == ASSUME IInv, NEW p \in Copy, AwaitLock(p) PROVE IInv'
<1>1. InstanceTypeOK'
  BY CopyNames DEF IInv, InstanceTypeOK, Process, AwaitLock, Keeps, Acquires, Goes
<1>2. CopyShapes'
  BY CopyNames DEF IInv, InstanceTypeOK, CopyShapes, Process, AwaitLock, Keeps, Acquires, Goes
<1>3. OneCopy'
  BY CopyNames DEF IInv, InstanceTypeOK, CopyShapes, OneCopy, Process, AwaitLock, Keeps, Acquires, Goes
<1>4. ShowIsServed'
  BY CopyNames DEF IInv, InstanceTypeOK, CopyShapes, ShowIsServed, ShowIsOwed, HiddenEnds,
       Process, AwaitLock, Keeps, Acquires, Goes
<1>5. QED BY <1>1, <1>2, <1>3, <1>4 DEF IInv

LEMMA GiveUpKeeps == ASSUME IInv, NEW p \in Copy, GiveUp(p) PROVE IInv'
<1>1. InstanceTypeOK'
  <2>1. copy[p] \in Process /\ lock \in Copy \cup {NoCopy} /\ endpoint \in Copy \cup {NoCopy}
    BY DEF IInv, InstanceTypeOK
  <2>2. PICK next \in {"asking", "failed"} :
          copy' = [copy EXCEPT ![p] = [copy[p] EXCEPT !.stage = next, !.window = TRUE]]
    BY DEF GiveUp, IInv
  <2>3. [copy[p] EXCEPT !.stage = next, !.window = TRUE] \in Process BY <2>1 DEF Process
  <2>5. QED BY <2>1, <2>2, <2>3, OneIsReplaced DEF IInv, GiveUp, Keeps
<1>2. CopyShapes'
  BY CopyNames DEF IInv, InstanceTypeOK, CopyShapes, Process, GiveUp, Keeps
<1>3. OneCopy'
  BY CopyNames DEF IInv, InstanceTypeOK, OneCopy, Process, GiveUp, Keeps
<1>4. ShowIsServed'
  BY CopyNames DEF IInv, InstanceTypeOK, CopyShapes, ShowIsServed, ShowIsOwed, HiddenEnds,
       Process, GiveUp, Keeps
<1>5. QED BY <1>1, <1>2, <1>3, <1>4 DEF IInv

LEMMA TryAgainKeeps == ASSUME IInv, NEW p \in Copy, TryAgain(p) PROVE IInv'
<1>1. InstanceTypeOK'
  BY DEF IInv, InstanceTypeOK, Process, TryAgain, Keeps, Goes
<1>2. CopyShapes'
  BY CopyNames DEF IInv, CopyShapes, Process, TryAgain, Keeps, Goes
<1>3. OneCopy'
  BY CopyNames DEF IInv, OneCopy, Process, TryAgain, Keeps, Goes
<1>4. ShowIsServed'
  BY CopyNames DEF IInv, CopyShapes, ShowIsServed, ShowIsOwed, HiddenEnds, Process,
    TryAgain, Keeps, Goes
<1>5. QED BY <1>1, <1>2, <1>3, <1>4 DEF IInv

LEMMA HoldLockKeeps == ASSUME IInv, NEW p \in Copy, HoldLock(p) PROVE IInv'
<1>1. InstanceTypeOK'
  <2>1. copy[p] \in Process /\ lock \in Copy \cup {NoCopy} /\ endpoint \in Copy \cup {NoCopy}
    BY DEF IInv, InstanceTypeOK
  <2>2. PICK bound \in {FALSE, PathIsFree} :
          /\ copy' = [copy EXCEPT ![p] = [copy[p] EXCEPT !.stage = "ready", !.listens = bound]]
          /\ endpoint' = IF bound THEN p ELSE endpoint
    BY DEF HoldLock, IInv
  <2>3. bound \in BOOLEAN BY Zenon DEF PathIsFree
  <2>4. [copy[p] EXCEPT !.stage = "ready", !.listens = bound] \in Process
    BY <2>1, <2>3 DEF Process
  <2>5. QED BY <2>1, <2>2, <2>4, OneIsReplaced DEF IInv, HoldLock
<1>2. CopyShapes'
  BY CopyNames DEF IInv, InstanceTypeOK, CopyShapes, Process, HoldLock, Keeps, PathIsFree
<1>3. OneCopy'
  BY CopyNames DEF IInv, InstanceTypeOK, CopyShapes, OneCopy, Process, HoldLock, Keeps, PathIsFree
<1>4. ShowIsServed'
  BY CopyNames DEF IInv, InstanceTypeOK, CopyShapes, ShowIsServed, ShowIsOwed, HiddenEnds,
       Process, HoldLock, Keeps, PathIsFree
<1>5. QED BY <1>1, <1>2, <1>3, <1>4 DEF IInv

LEMMA OpenAppKeeps == ASSUME IInv, NEW p \in Copy, OpenApp(p) PROVE IInv'
<1>1. InstanceTypeOK'
  <2>1. copy[p] \in Process /\ lock \in Copy \cup {NoCopy} /\ endpoint \in Copy \cup {NoCopy}
    BY DEF IInv, InstanceTypeOK
  <2>2. copy[p].listens \in BOOLEAN /\ copy[p].pending \in BOOLEAN BY <2>1, FieldTypes
  <2>3. [copy[p] EXCEPT !.stage = "running", !.window = TRUE,
                          !.wake = copy[p].listens, !.frame = copy[p].pending] \in Process
    BY <2>1, <2>2 DEF Process
  <2>4. copy' = [copy EXCEPT ![p] = [copy[p] EXCEPT !.stage = "running", !.window = TRUE,
                          !.wake = copy[p].listens, !.frame = copy[p].pending]]
    BY DEF IInv, OpenApp
  <2>5. QED BY <2>1, <2>3, <2>4, OneIsReplaced DEF IInv, OpenApp, Keeps
<1>2. CopyShapes'
  BY CopyNames DEF IInv, InstanceTypeOK, CopyShapes, Process, OpenApp, Keeps
<1>3. OneCopy'
  BY CopyNames DEF IInv, InstanceTypeOK, OneCopy, Process, OpenApp, Keeps
<1>4. ShowIsServed'
  BY CopyNames DEF IInv, InstanceTypeOK, CopyShapes, ShowIsServed, ShowIsOwed, HiddenEnds,
       Process, OpenApp, Keeps
<1>5. QED BY <1>1, <1>2, <1>3, <1>4 DEF IInv

LEMMA ReadClosingKeeps == ASSUME IInv, NEW p \in Copy, ReadClosing(p) PROVE IInv'
<1>1. InstanceTypeOK'
  BY CopyNames DEF IInv, InstanceTypeOK, Process, ReadClosing, Keeps, Serves, Asks
<1>2. CopyShapes'
  BY CopyNames DEF IInv, CopyShapes, Process, ReadClosing, Keeps, Serves, Asks
<1>3. OneCopy'
  BY CopyNames DEF IInv, CopyShapes, OneCopy, Process, ReadClosing, Keeps, Serves, Asks
<1>4. ShowIsServed'
  BY CopyNames DEF IInv, CopyShapes, ShowIsServed, ShowIsOwed, HiddenEnds, Process,
    ReadClosing, Keeps, Serves, Asks
<1>5. QED BY <1>1, <1>2, <1>3, <1>4 DEF IInv

LEMMA ReplyKeeps == ASSUME IInv, NEW p \in Copy, Reply(p) PROVE IInv'
<1>1. InstanceTypeOK'
  BY CopyNames DEF IInv, InstanceTypeOK, Process, Reply, Keeps, Serves, Asks
<1>2. CopyShapes'
  BY CopyNames DEF IInv, InstanceTypeOK, Process, Reply, Keeps, Serves, Asks
<1>3. OneCopy'
  BY CopyNames DEF IInv, InstanceTypeOK, OneCopy, Process, Reply, Keeps, Serves, Asks
<1>4. ShowIsServed'
  BY CopyNames DEF IInv, InstanceTypeOK, CopyShapes, ShowIsOwed, HiddenEnds, Process, Reply,
    Keeps, Serves, Asks
<1>5. QED BY <1>1, <1>2, <1>3, <1>4 DEF IInv

LEMMA SignalKeeps == ASSUME IInv, NEW p \in Copy, Signal(p) PROVE IInv'
<1>1. InstanceTypeOK'
  <2> DEFINE wakes == copy[p].frame \/ copy[p].wake
  <2>1. copy[p] \in Process /\ lock \in Copy \cup {NoCopy} /\ endpoint \in Copy \cup {NoCopy}
    BY DEF IInv, InstanceTypeOK
  <2>2. copy' = [copy EXCEPT ![p] = [copy[p] EXCEPT !.signals = FALSE, !.pending = TRUE,
                                       !.frame = wakes]]
    BY DEF IInv, Signal
  <2>3. wakes \in BOOLEAN OBVIOUS
  <2> HIDE DEF wakes
  <2>4. [copy[p] EXCEPT !.signals = FALSE, !.pending = TRUE, !.frame = wakes] \in Process
    BY <2>1, <2>3 DEF Process
  <2>5. QED BY <2>1, <2>2, <2>4, OneIsReplaced DEF IInv, Signal, Keeps
<1>2. CopyShapes'
  BY CopyNames DEF IInv, InstanceTypeOK, CopyShapes, Process, Signal, Keeps, Serves
<1>3. OneCopy'
  BY CopyNames DEF IInv, InstanceTypeOK, OneCopy, Process, Signal, Keeps, Serves
<1>4. ShowIsServed'
  BY CopyNames DEF IInv, InstanceTypeOK, CopyShapes, ShowIsServed, ShowIsOwed, HiddenEnds,
       Process, Signal, Keeps, Serves
<1>5. QED BY <1>1, <1>2, <1>3, <1>4 DEF IInv

LEMMA BeginFrameKeeps == ASSUME IInv, NEW p \in Copy, BeginFrame(p) PROVE IInv'
<1>1. InstanceTypeOK' BY CopyNames DEF IInv, InstanceTypeOK, Process, BeginFrame, Keeps
<1>2. CopyShapes'
  BY CopyNames DEF IInv, InstanceTypeOK, Process, BeginFrame, Keeps
<1>3. OneCopy'
  BY CopyNames DEF IInv, InstanceTypeOK, OneCopy, Process, BeginFrame, Keeps
<1>4. ShowIsServed'
  BY CopyNames DEF IInv, InstanceTypeOK, CopyShapes, ShowIsOwed, HiddenEnds, Process,
    BeginFrame, Keeps
<1>5. QED BY <1>1, <1>2, <1>3, <1>4 DEF IInv

LEMMA MarkClosingKeeps == ASSUME IInv, NEW p \in Copy, MarkClosing(p) PROVE IInv'
<1>1. InstanceTypeOK' BY CopyNames DEF IInv, InstanceTypeOK, Process, MarkClosing, Keeps
<1>2. CopyShapes'
  BY CopyNames DEF IInv, InstanceTypeOK, CopyShapes, Process, MarkClosing, Keeps
<1>3. OneCopy'
  BY CopyNames DEF IInv, InstanceTypeOK, CopyShapes, OneCopy, Process, MarkClosing, Keeps
<1>4. ShowIsServed'
  BY CopyNames DEF IInv, InstanceTypeOK, CopyShapes, ShowIsOwed, HiddenEnds, Process,
    MarkClosing, Keeps
<1>5. QED BY <1>1, <1>2, <1>3, <1>4 DEF IInv

LEMMA RaiseForShowKeeps == ASSUME IInv, NEW p \in Copy, RaiseForShow(p) PROVE IInv'
<1>1. InstanceTypeOK'
  <2> DEFINE shows == copy[p].open /\ copy[p].pending
             stays == copy[p].hidden /\ ~shows
             owes == IF shows THEN {} ELSE copy[p].owed
  <2>1. copy[p] \in Process /\ lock \in Copy \cup {NoCopy} /\ endpoint \in Copy \cup {NoCopy}
    BY DEF IInv, InstanceTypeOK
  <2>2. copy' = [copy EXCEPT ![p] = [copy[p] EXCEPT !.ui = "idle", !.pending = FALSE,
                                       !.hidden = stays, !.owed = owes]]
    BY DEF IInv, RaiseForShow
  <2>3. stays \in BOOLEAN OBVIOUS
  <2>4. owes \in SUBSET Copy BY <2>1, FieldTypes
  <2> HIDE DEF stays, owes
  <2>5. [copy[p] EXCEPT !.ui = "idle", !.pending = FALSE, !.hidden = stays, !.owed = owes] \in Process
    BY <2>1, <2>3, <2>4 DEF Process
  <2>6. QED BY <2>1, <2>2, <2>5, OneIsReplaced DEF IInv, RaiseForShow, Keeps
<1>2. CopyShapes'
  BY CopyNames DEF IInv, InstanceTypeOK, CopyShapes, Process, RaiseForShow, Keeps
<1>3. OneCopy'
  BY CopyNames DEF IInv, InstanceTypeOK, CopyShapes, OneCopy, Process, RaiseForShow, Keeps
<1>4. ShowIsServed'
  BY CopyNames DEF IInv, InstanceTypeOK, CopyShapes, ShowIsServed, ShowIsOwed, HiddenEnds,
       Process, RaiseForShow, Keeps
<1>5. QED BY <1>1, <1>2, <1>3, <1>4 DEF IInv

LEMMA EndsKeeps == ASSUME IInv, NEW p \in Copy, Ends(p) PROVE IInv'
<1>1. InstanceTypeOK'
  BY DEF IInv, InstanceTypeOK, Process, Ends, Ended, NewCopy
<1>2. CopyShapes'
  BY CopyNames DEF IInv, CopyShapes, Process, Ends, Ended, NewCopy
<1>3. OneCopy'
  BY CopyNames DEF IInv, InstanceTypeOK, OneCopy, Process, Ends, Ended, NewCopy
<1>4. ShowIsServed'
  BY ZenonT(60), CopyNames DEF IInv, InstanceTypeOK, CopyShapes, ShowIsServed, ShowIsOwed, HiddenEnds,
       Process, Ends, Ended, NewCopy
<1>5. QED BY <1>1, <1>2, <1>3, <1>4 DEF IInv

LEMMA EndpointEndsKeeps == ASSUME IInv, NEW p \in Copy, EndpointEnds(p) PROVE IInv'
<1>1. InstanceTypeOK'
  <2>1. copy[p] \in Process /\ lock \in Copy \cup {NoCopy} /\ endpoint \in Copy \cup {NoCopy}
    BY DEF IInv, InstanceTypeOK
  <2>3. [copy[p] EXCEPT !.listens = FALSE] \in Process BY <2>1 DEF Process
  <2>4. copy' = [copy EXCEPT ![p] = [copy[p] EXCEPT !.listens = FALSE]]
    BY DEF IInv, EndpointEnds
  <2>5. QED BY <2>1, <2>3, <2>4, OneIsReplaced DEF IInv, EndpointEnds, Keeps
<1>2. CopyShapes'
  BY CopyNames DEF IInv, CopyShapes, Process, EndpointEnds, Keeps
<1>3. OneCopy'
  BY CopyNames DEF IInv, CopyShapes, OneCopy, Process, EndpointEnds, Keeps
<1>4. ShowIsServed'
  BY CopyNames DEF IInv, CopyShapes, ShowIsServed, ShowIsOwed, HiddenEnds, Process,
    EndpointEnds, Keeps
<1>5. QED BY <1>1, <1>2, <1>3, <1>4 DEF IInv

LEMMA CopyStepKeeps == ASSUME IInv, [InstanceNext]_instanceVars PROVE IInv'
<1>1. CASE UNCHANGED instanceVars
  BY <1>1 DEF instanceVars, IInv, InstanceTypeOK, CopyShapes, OneCopy, ShowIsServed, ShowIsOwed, HiddenEnds
<1>2. CASE InstanceNext
  BY <1>2, LaunchesKeeps, AskKeeps, AskEndsKeeps, TryLockKeeps, AwaitLockKeeps, GiveUpKeeps,
     TryAgainKeeps, HoldLockKeeps, OpenAppKeeps, ReadClosingKeeps, ReplyKeeps, SignalKeeps,
     BeginFrameKeeps, MarkClosingKeeps, RaiseForShowKeeps, EndsKeeps, EndpointEndsKeeps
     DEF InstanceNext
<1>3. QED BY <1>1, <1>2

-----------------------------------------------------------------------------
(* The invariant, for any number of copies: the types of every process, and *)
(* what the two theorems below take from it.                               *)
THEOREM InstanceInvariance == InstanceSpec => []IInv
<1>1. InstanceInit => IInv BY InitKeeps
<1>2. IInv /\ [InstanceNext]_instanceVars => IInv' BY CopyStepKeeps
<1>3. QED BY <1>1, <1>2, PTL DEF InstanceSpec

(* However many copies the user starts, at most one of those that need the  *)
(* lock runs; it holds the lock, and the path leads to its listener.        *)
THEOREM OneCopyRuns == InstanceSpec => []OneCopy
<1>1. IInv => OneCopy BY DEF IInv
<1>2. QED BY <1>1, InstanceInvariance, PTL

(* A launch that ends because it heard "shown" leaves a show that the copy  *)
(* which said so still has, and no show brings back a window that closes.   *)
THEOREM ShowsAreServed == InstanceSpec => []ShowIsServed
<1>1. IInv => ShowIsServed BY DEF IInv
<1>2. QED
  BY <1>1, InstanceInvariance, PTL
=============================================================================
